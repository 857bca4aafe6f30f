------------------------------ MODULE Dialogue ------------------------------
(***************************************************************************)
(* One exchange, with the data that LanguageApp and HubClient abstract     *)
(* from: the configuration is read, vision frames arrive, the user's       *)
(* text becomes a stop or a prompt, the LLM's reply becomes an answer and  *)
(* a command, and what is published is parsed again by the rollout adapter *)
(* (Config, VisionState.update, handle_user_input, parse_llm_response,     *)
(* RobotCommand, build_envelope, parse_instruction).                       *)
(***************************************************************************)
EXTENDS VisionState, ResponseParser, Settings

CONSTANTS
    Cases,            \* exchanges: the configuration, frames, text and reply
    StopText,         \* STOP_TASK_INSTRUCTION
    TrashText,        \* TRASH_TASK_INSTRUCTION
    StopInstruction   \* the adapter's --stop-instruction

ASSUME TextsAssumption ==
    {StopText, TrashText, StopInstruction} \subseteq Sentences /\ StopText # TrashText

\* Texts are sequences of characters; a payload arrives and it is one.
ASSUME CasesAssumption ==
    \A exchange \in Cases :
        /\ exchange.config.stop \in Seq(Seq(STRING)) /\ exchange.config.trash \in Seq(Seq(STRING))
        /\ exchange.frames \in Seq(Payloads(Seq(Entries))) /\ exchange.frames # <<>>
        /\ exchange.text \in Seq(STRING)
        /\ exchange.reply \in Replies

VARIABLES
    pc,               \* "start", "frame", "ask", "llm", "sent", "done", "failed" or
                      \* "refused"
    case,             \* the exchange: [config, frames, text, reply]
    seen,             \* how many of its frames have arrived
    response,         \* the LLMResponse, or Null
    envelope,         \* what is published, or Null
    heard             \* what the adapter makes of it: "nothing", "stop" or a task

vars == <<objects, pc, case, seen, response, envelope, heard>>

Init ==
    /\ case \in Cases
    /\ pc = "start" /\ objects = <<>> /\ seen = 0
    /\ response = Null /\ envelope = Null /\ heard = "nothing"

\* The front ends validate the configuration before anything else.
Start ==
    /\ pc = "start"
    /\ pc' = IF Invalid(case.config) THEN "refused" ELSE "frame"
    /\ UNCHANGED <<objects, case, seen, response, envelope, heard>>

\* _on_vision_update
Frame ==
    /\ pc = "frame"
    /\ Update(case.frames[seen + 1])
    /\ seen' = seen + 1
    /\ pc' = IF seen' = Len(case.frames) THEN "ask" ELSE "frame"
    /\ UNCHANGED <<case, response, envelope, heard>>

\* The command of a keyword intent
IntentCommand(action, text) ==
    Validated([action |-> action, target |-> "none", destination |-> "none",
               direction |-> "none", instruction |-> text])

\* build_envelope: the fields of the command, and its key
BuildEnvelope(c) ==
    [action |-> c.action, target |-> c.target, destination |-> c.destination,
     direction |-> c.direction, instruction |-> c.instruction,
     command_key |-> CommandKey(c)]

\* An envelope is not None.
ASSUME EnvelopeAssumption == \A c \in Commands : BuildEnvelope(Validated(c)) # Null

\* publish(), if the publisher is configured and available
Publish(command) ==
    /\ envelope' = IF case.config.publisher THEN BuildEnvelope(command) ELSE Null
    /\ pc' = "sent"

\* handle_user_input up to the LLM
Ask ==
    /\ pc = "ask"
    /\ IF IsStopIntent(case.config, case.text)
          THEN Publish(IntentCommand("stop", StopText))
          ELSE pc' = "llm" /\ UNCHANGED envelope
    /\ UNCHANGED <<objects, case, seen, response, heard>>

\* The TRASH_GATHER command, whatever command the reply has
Trigger == IntentCommand("trash_gather", TrashText)

\* handle_user_input after the LLM: the user's own words decide, not the reply
Reply ==
    /\ pc = "llm"
    /\ response' = ParseLLMResponse(case.reply)
    /\ IF IsTrashIntent(case.config, case.text)
          THEN Publish(Trigger)
          ELSE pc' = "done" /\ UNCHANGED envelope
    /\ UNCHANGED <<objects, case, seen, heard>>

\* The LLM gives no answer: handle_user_input reports an openai.APIError and
\* returns, any other exception leaves it. Nothing is published.
NoReply ==
    /\ pc = "llm"
    /\ pc' = "failed"
    /\ UNCHANGED <<objects, case, seen, response, envelope, heard>>

\* parse_instruction of the adapter: a text that is not blank
ParseInstruction(e) ==
    IF e = Null \/ e.instruction = Blank THEN Null ELSE e.instruction

\* The adapter's callback: the stop sentinel or a task
Hear ==
    /\ pc = "sent"
    /\ heard' = LET text == ParseInstruction(envelope) IN
                IF text = Null THEN "nothing"
                ELSE IF text = StopInstruction THEN "stop" ELSE text
    /\ pc' = "done"
    /\ UNCHANGED <<objects, case, seen, response, envelope>>

Terminated == pc \in {"done", "failed", "refused"} /\ UNCHANGED vars
Next == Start \/ Frame \/ Ask \/ Reply \/ NoReply \/ Hear \/ Terminated
Spec == Init /\ [][Next]_vars

-----------------------------------------------------------------------------
\* Whatever a payload looks like, what is kept of it is exactly the objects
\* with a label, a position and a confidence, in their order; a payload that
\* makes update() raise leaves what was seen before (VisionState.update).
KeptExactly ==
    [][seen' # seen =>
        LET frame == case.frames[seen'] IN
        objects' = IF Raises(frame) THEN objects ELSE Promised(frame)]_vars

\* A command that leaves the parser is one the schema allows, and validating
\* it again, as a receiver of the message does, changes nothing. The document's
\* label rule is not enforced: a target or destination that is no known label is
\* the text the LLM wrote there, blank or not, and never made up by the code.
CommandsAreValid ==
    response # Null /\ response.command # Null =>
        /\ WellFormedCommand(response.command)
        /\ ~Refused(response.command) /\ Validated(response.command) = response.command
        /\ \A field \in {"target", "destination"} :
              \/ KnownLabel(response.command[field])
              \/ response.said = "llm" /\ case.reply.command[field] = response.command[field]

\* No reply is without consequence: only an answer that says it has no command
\* has none; a command that is not "stop" is the action the LLM named, and goes
\* with the LLM's own answer (parse_llm_response, _parse_command).
BadRepliesStop ==
    response # Null =>
        /\ response.command = Null =>
              response.said = "llm" /\ case.reply.command = Null
        /\ response.command # Null /\ response.command.action # "stop" =>
              response.said = "llm" /\ case.reply.command.action = response.command.action

\* The words of the environment that count: not white space; the default when
\* there are none.
WordsOf(pieces, default) ==
    LET words == {Strip(pieces[i]) : i \in DOMAIN pieces} \ {<<>>} IN
    IF words = {} THEN {default[i] : i \in DOMAIN default} ELSE words

\* The text says one of the words, in capitals or not.
Says(text, words) ==
    \E word \in words, i \in DOMAIN text :
        /\ i + Len(word) - 1 <= Len(text)
        /\ \A k \in DOMAIN word : Lower(word)[k] = Lower(text)[i + k - 1]

\* The robot hears what the user said and nothing else: a stop if the text has
\* a stop word, even if the LLM would fail; the trigger if it has only a trash
\* word and the LLM answered, whatever it answered; nothing otherwise. This is so
\* however the variables are written, where the adapter's --stop-instruction is
\* the text of Language's stop (config.py, handle_user_input, build_envelope,
\* parse_instruction).
HeardAsSaid ==
    pc \in {"done", "failed"} /\ case.config.publisher =>
        heard = IF Says(case.text, WordsOf(case.config.stop, StopDefault)) THEN "stop"
                ELSE IF pc = "done" /\ Says(case.text, WordsOf(case.config.trash, TrashDefault))
                     THEN TrashText ELSE "nothing"
=============================================================================
