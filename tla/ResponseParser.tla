--------------------------- MODULE ResponseParser ---------------------------
(***************************************************************************)
(* language/llm/response_parser.py with shared/schemas/llm_response.py:    *)
(* what becomes of the text an LLM returns.  A reply is described by what  *)
(* the parser tells apart.                                                 *)
(***************************************************************************)
EXTENDS RobotCommand

CONSTANTS
    Absent,       \* a field that is not there
    Null,          \* JSON null, or no command
    NotObject      \* a JSON value that is no object

\* None is neither a text nor a RobotCommand.
ASSUME NullAssumption ==
    Null \notin Sentences /\ \A c \in Commands : Validated(c) # Null

\* The value of "command", if it is an object
CommandFields ==
    [action : Actions \cup {"unknown", Absent},
     target : NameTexts \cup {Absent, NotText},
     destination : NameTexts \cup {Absent, NotText},
     direction : NameTexts \cup {Absent, NotText},
     instruction : Sentences \cup {Blank, Absent, NotText},
     reasoning : {"text", NotText}]

\* fences: none; around the JSON text; a pair of them within one of its texts.
\* json: not JSON, a value that is no object, or an object with an answer
\* (its "text" is a text of at least one character or is not) and a command.
Replies ==
    [fences : {"none", "around", "within"}, json : {"broken", "value", "object"},
     answer : {"text", "empty", NotText, NotObject, Absent},
     command : CommandFields \cup {Null, NotObject}]

\* _extract_json: from the first fence to the next, which is no JSON if the
\* fences are part of a text
ExtractJson(reply) == IF reply.fences = "within" THEN "broken" ELSE reply.json

\* The defaults of dict.get
Filled(data) ==
    [action |-> data.action,
     target |-> IF data.target = Absent THEN "none" ELSE data.target,
     destination |-> IF data.destination = Absent THEN "none" ELSE data.destination,
     direction |-> IF data.direction = Absent THEN "none" ELSE data.direction,
     instruction |-> IF data.instruction = Absent THEN Blank ELSE data.instruction]

\* _stop_command
StopCommand ==
    Validated([action |-> "stop", target |-> "none", destination |-> "none",
               direction |-> "none", instruction |-> Blank])

\* KeyError, ValueError or ValidationError
CommandFails(data) ==
    \/ data = NotObject
    \/ data.action \notin Actions
    \/ \E field \in DOMAIN data : data[field] = NotText
    \/ Refused(Filled(data))

\* Fault: a command that cannot be used is left out.
CommandOrNothing(data) ==
    IF data = Null \/ CommandFails(data) THEN Null ELSE Validated(Filled(data))

\* _parse_command
ParseCommand(data) ==
    IF data = Null THEN Null
    ELSE IF CommandFails(data) THEN StopCommand ELSE Validated(Filled(data))

\* AssistantAnswer accepts it
Answered(reply) == reply.answer = "text"

\* parse_llm_response; `said` is whose words the answer is
ParseLLMResponse(reply) ==
    IF ExtractJson(reply) = "object" /\ Answered(reply)
        THEN [said |-> "llm", command |-> ParseCommand(reply.command)]
        ELSE [said |-> "fallback", command |-> StopCommand]
=============================================================================
