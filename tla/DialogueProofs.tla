--------------------------- MODULE DialogueProofs ---------------------------
(***************************************************************************)
(* Proofs about Dialogue: whatever the LLM replies, a command that leaves  *)
(* the parser is valid. The argument is about RobotCommand's validator,    *)
(* for any texts: what it lets through it makes well-formed, what it made  *)
(* well-formed it lets through unchanged, and the names it does not clear  *)
(* are the ones it was given. What the robot hears follows from the words  *)
(* of the text and from whether the LLM was needed and answered.           *)
(***************************************************************************)
EXTENDS Dialogue, SequenceTheorems, WellFoundedInduction, TLAPS

\* The refusals of validate_action_fields, written out
LEMMA RefusedMeans ==
  ASSUME NEW c
  PROVE  Refused(c) <=>
            \/ c.action \in {"pick", "place", "pick_and_place", "move"} /\ c.target = "none"
            \/ c.action \in {"place", "pick_and_place"} /\ c.destination = "none"
            \/ c.action = "move" /\ c.direction = "none"
BY DEF Refused, Needed

\* What the validator makes of the fields
LEMMA ValidatedFields ==
  ASSUME NEW c \in Commands
  PROVE  LET v == Validated(c)
             still == c.action \in {"home", "stop"}
         IN /\ v = [action |-> c.action,
                    target |-> IF still THEN "none" ELSE c.target,
                    destination |-> IF still THEN "none" ELSE c.destination,
                    direction |-> IF c.action = "move" THEN c.direction ELSE "none",
                    instruction |-> v.instruction]
            /\ v.instruction # Blank
<1> DEFINE n == Normalised(c)
<1>1. n \in Commands
  BY DEF Commands, Normalised, NameTexts
<1>2. /\ n.action = c.action
      /\ n.target = (IF c.action \in {"home", "stop"} THEN "none" ELSE c.target)
      /\ n.destination = (IF c.action \in {"home", "stop"} THEN "none" ELSE c.destination)
      /\ n.direction = (IF c.action = "move" THEN c.direction ELSE "none")
  BY DEF Commands, Normalised
<1>3. CompleteInstruction(n) # Blank
  BY <1>1, PhraseAssumption DEF CompleteInstruction
<1>4. /\ Validated(c) = [n EXCEPT !.instruction = CompleteInstruction(n)]
      /\ Validated(c).instruction = CompleteInstruction(n)
  BY <1>1 DEF Validated, Commands
<1> HIDE DEF n
<1>5. Validated(c) = [action |-> n.action, target |-> n.target, destination |-> n.destination,
                      direction |-> n.direction, instruction |-> Validated(c).instruction]
  BY <1>1, <1>4 DEF Commands
<1> QED BY <1>2, <1>3, <1>4, <1>5

\* What the validator lets through it makes well-formed, and validating it
\* again changes nothing (validate_action_fields).
LEMMA ValidationIsFinal ==
  ASSUME NEW c \in Commands, ~Refused(c)
  PROVE  /\ WellFormedCommand(Validated(c)) /\ ~Refused(Validated(c))
         /\ Validated(Validated(c)) = Validated(c)
<1> DEFINE v == Validated(c)
<1>1. /\ v = [action |-> c.action,
              target |-> IF c.action \in {"home", "stop"} THEN "none" ELSE c.target,
              destination |-> IF c.action \in {"home", "stop"} THEN "none" ELSE c.destination,
              direction |-> IF c.action = "move" THEN c.direction ELSE "none",
              instruction |-> v.instruction]
      /\ v.instruction # Blank
  BY ValidatedFields
<1>2. c.action \in Actions
  BY DEF Commands
<1> HIDE DEF v
<1>3. /\ v.action = c.action
      /\ v.target = (IF c.action \in {"home", "stop"} THEN "none" ELSE c.target)
      /\ v.destination = (IF c.action \in {"home", "stop"} THEN "none" ELSE c.destination)
      /\ v.direction = (IF c.action = "move" THEN c.direction ELSE "none")
  BY <1>1
<1>4. WellFormedCommand(v) /\ ~Refused(v)
  BY <1>1, <1>2, <1>3, RefusedMeans DEF WellFormedCommand, Actions
<1>5. Normalised(v) = v
  BY <1>1, <1>3 DEF Normalised
<1>6. Validated(v) = v
  BY <1>1, <1>5 DEF Validated, CompleteInstruction
<1> QED BY <1>4, <1>6 DEF v

\* A command in a reply that does not fail is a command once filled in.
LEMMA FilledIsCommand ==
  ASSUME NEW data \in CommandFields, ~CommandFails(data)
  PROVE  Filled(data) \in Commands /\ ~Refused(Filled(data))
<1>1. data.action \in Actions /\ ~Refused(Filled(data))
  BY DEF CommandFails
<1>2. data.target # NotText /\ data.destination # NotText /\ data.direction # NotText
          /\ data.instruction # NotText
  <2>1. {"target", "destination", "direction", "instruction"} \subseteq DOMAIN data
    BY DEF CommandFields
  <2> QED BY <2>1 DEF CommandFails
<1> QED BY <1>1, <1>2 DEF CommandFields, Filled, Commands, NameTexts

\* What _stop_command is made of is a command.
LEMMA StopIsCommand ==
    LET stop == [action |-> "stop", target |-> "none", destination |-> "none",
                 direction |-> "none", instruction |-> Blank]
    IN stop \in Commands /\ stop.action = "stop" /\ ~Refused(stop)
BY RefusedMeans DEF Commands, Actions, NameTexts

\* The parser's own stop is valid (_stop_command).
LEMMA StopIsValid ==
    /\ WellFormedCommand(StopCommand) /\ ~Refused(StopCommand)
    /\ Validated(StopCommand) = StopCommand
BY StopIsCommand, ValidationIsFinal DEF StopCommand

\* A name of a command is cleared by the validator, or what the reply wrote, or
\* "none" because it wrote nothing (validate_action_fields, the defaults of get).
LEMMA NamesAreGiven ==
  ASSUME NEW data \in CommandFields, ~CommandFails(data),
         NEW field \in {"target", "destination"}
  PROVE  LET c == Validated(Filled(data)) IN c[field] \in {"none", data[field]}
<1> DEFINE f == Filled(data)
<1>1. f \in Commands
  BY FilledIsCommand
<1>2. f.target \in {"none", data.target} /\ f.destination \in {"none", data.destination}
  BY DEF Filled
<1> HIDE DEF f
<1>3. /\ Validated(f).target \in {"none", f.target}
      /\ Validated(f).destination \in {"none", f.destination}
  BY <1>1, ValidatedFields
<1> QED BY <1>2, <1>3 DEF f

\* The parser's own stop names nothing (_stop_command).
LEMMA StopNamesNothing == StopCommand.target = "none" /\ StopCommand.destination = "none"
BY StopIsCommand, ValidatedFields DEF StopCommand

\* Whatever the LLM replies, the command that leaves the parser, if any, is
\* valid, and its names are the LLM's own (parse_llm_response, _parse_command).
LEMMA RepliesParseToValid ==
  ASSUME NEW reply \in Replies, ParseLLMResponse(reply).command # Null
  PROVE  LET r == ParseLLMResponse(reply)
             c == r.command
         IN /\ WellFormedCommand(c) /\ ~Refused(c) /\ Validated(c) = c
            /\ \A field \in {"target", "destination"} :
                  c[field] = "none" \/ (r.said = "llm" /\ reply.command[field] = c[field])
<1>1. \/ ParseLLMResponse(reply).command = StopCommand
      \/ /\ ParseLLMResponse(reply).command = ParseCommand(reply.command)
         /\ ParseLLMResponse(reply).said = "llm"
  BY DEF ParseLLMResponse
<1>2. CASE ParseLLMResponse(reply).command = StopCommand
  BY <1>2, StopIsValid, StopNamesNothing
<1>3. CASE /\ ParseLLMResponse(reply).command = ParseCommand(reply.command)
           /\ ParseLLMResponse(reply).said = "llm"
  <2>1. reply.command \in CommandFields \cup {Null, NotObject}
    BY DEF Replies
  <2>2. reply.command # Null
    BY <1>3 DEF ParseCommand
  <2>3. CASE CommandFails(reply.command)
    BY <1>3, <2>2, <2>3, StopIsValid, StopNamesNothing DEF ParseCommand
  <2>4. CASE ~CommandFails(reply.command)
    <3>1. reply.command \in CommandFields
      BY <2>1, <2>2, <2>4 DEF CommandFails
    <3>2. ParseLLMResponse(reply).command = Validated(Filled(reply.command))
      BY <1>3, <2>2, <2>4 DEF ParseCommand
    <3>3. \A field \in {"target", "destination"} :
            ParseLLMResponse(reply).command[field] \in {"none", reply.command[field]}
      BY <2>4, <3>1, <3>2, NamesAreGiven
    <3> QED BY <1>3, <2>4, <3>1, <3>2, <3>3, FilledIsCommand, ValidationIsFinal
  <2> QED BY <2>3, <2>4
<1> QED BY <1>1, <1>2, <1>3

-----------------------------------------------------------------------------
\* The response is what the parser made of a reply.
Parsed ==
    /\ case \in Cases
    /\ response # Null => response = ParseLLMResponse(case.reply)

\* No step but the reply's parsing touches the response.
LEMMA ParsedInvariant == Spec => []Parsed
<1>1. Init => Parsed
  BY DEF Init, Parsed
<1>2. Parsed /\ [Next]_vars => Parsed'
  <2> SUFFICES ASSUME Parsed, [Next]_vars PROVE Parsed'
    OBVIOUS
  <2>1. case' = case
    BY DEF Next, Start, Frame, Ask, Publish, Reply, NoReply, Hear, Terminated, vars
  <2>2. CASE Reply
    BY <2>1, <2>2 DEF Reply, Parsed
  <2>3. CASE Start \/ Frame \/ Ask \/ NoReply \/ Hear \/ Terminated \/ UNCHANGED vars
    <3>1. response' = response
      BY <2>3 DEF Start, Frame, Ask, NoReply, Hear, Terminated, vars
    <3> QED BY <2>1, <3>1 DEF Parsed
  <2> QED BY <2>2, <2>3 DEF Next
<1> QED BY <1>1, <1>2, PTL DEF Spec

\* Every command that leaves the parser is one the schema's rules 1 to 4 allow,
\* validating it again changes nothing, and the labels it names are known or what
\* the LLM wrote, for any texts and any replies.
THEOREM CommandsStayValid == Spec => []CommandsAreValid
<1>1. Parsed => CommandsAreValid
  <2> SUFFICES ASSUME Parsed, response # Null, response.command # Null
               PROVE  CommandsAreValid
    BY DEF CommandsAreValid
  <2>1. case.reply \in Replies /\ response = ParseLLMResponse(case.reply)
    BY CasesAssumption DEF Parsed
  <2> QED BY <2>1, RepliesParseToValid DEF CommandsAreValid, KnownLabel
<1> QED BY <1>1, ParsedInvariant, PTL

\* Only a reply that says it has no command is left without one, and a command
\* that is not "stop" is the action the LLM named, with its own answer.
LEMMA RepliesParseToStop ==
  ASSUME NEW reply \in Replies
  PROVE  LET r == ParseLLMResponse(reply) IN
         /\ r.command = Null => r.said = "llm" /\ reply.command = Null
         /\ r.command # Null /\ r.command.action # "stop" =>
               r.said = "llm" /\ reply.command.action = r.command.action
<1> DEFINE r == ParseLLMResponse(reply)
<1>1. StopCommand # Null /\ StopCommand.action = "stop"
  BY StopIsCommand, ValidatedFields, NullAssumption DEF StopCommand
<1>2. CASE ~(ExtractJson(reply) = "object" /\ Answered(reply))
  <2>1. r.command = StopCommand
    BY <1>2 DEF ParseLLMResponse
  <2> QED BY <1>1, <2>1
<1>3. CASE ExtractJson(reply) = "object" /\ Answered(reply)
  <2>1. r.said = "llm" /\ r.command = ParseCommand(reply.command)
    BY <1>3 DEF ParseLLMResponse
  <2>2. CASE reply.command = Null
    BY <2>1, <2>2 DEF ParseCommand
  <2>3. CASE reply.command # Null /\ CommandFails(reply.command)
    \* what cannot be used becomes a stop
    <3>1. r.command = StopCommand
      BY <2>1, <2>3 DEF ParseCommand
    <3> QED BY <1>1, <3>1
  <2>4. CASE reply.command # Null /\ ~CommandFails(reply.command)
    <3>1. reply.command \in CommandFields
      BY <2>4 DEF Replies, CommandFails
    <3>2. Filled(reply.command) \in Commands
      BY <2>4, <3>1, FilledIsCommand
    <3>3. r.command = Validated(Filled(reply.command))
      BY <2>1, <2>4 DEF ParseCommand
    <3>4. r.command # Null
      BY <3>2, <3>3, NullAssumption
    <3>5. Filled(reply.command).action = reply.command.action
      BY DEF Filled
    <3>6. r.command.action = reply.command.action
      BY <3>2, <3>3, <3>5, ValidatedFields
    <3> QED BY <2>1, <3>4, <3>6
  <2> QED BY <2>2, <2>3, <2>4
<1> QED BY <1>2, <1>3

\* Whatever the LLM replies, the robot is told to stop unless the reply can be
\* used as it is: no reply is dropped, and no action is made up
\* (parse_llm_response's fallbacks).
THEOREM UnusableRepliesStop == Spec => []BadRepliesStop
<1>1. Parsed => BadRepliesStop
  BY CasesAssumption, RepliesParseToStop DEF Parsed, BadRepliesStop
<1> QED BY <1>1, ParsedInvariant, PTL

-----------------------------------------------------------------------------
\* What the user's text calls for, by the keyword tests, if the LLM has answered
\* or was not asked
Decided ==
    IF ~case.config.publisher THEN "nothing"
    ELSE IF IsStopIntent(case.config, case.text) THEN "stop"
    ELSE IF IsTrashIntent(case.config, case.text) THEN TrashText ELSE "nothing"

\* Once the exchange is over the robot has heard what the text called for, and
\* nothing if it called for the LLM and the LLM gave no answer.
HeardAsDecided ==
    /\ pc = "done" => heard = Decided
    /\ pc = "failed" => heard = "nothing" /\ ~IsStopIntent(case.config, case.text)

\* The command the keyword tests have it publish
Published == IF IsStopIntent(case.config, case.text)
                THEN IntentCommand("stop", StopText) ELSE Trigger

\* What has been published, and to which text, until it is heard.
ExchangeInv ==
    /\ pc \in {"start", "frame", "ask", "llm", "sent"} => heard = "nothing"
    /\ pc = "llm" => ~IsStopIntent(case.config, case.text) /\ envelope = Null
    /\ pc \in {"start", "frame", "ask"} => envelope = Null
    /\ pc = "sent" =>
          /\ IsStopIntent(case.config, case.text) \/ IsTrashIntent(case.config, case.text)
          /\ envelope = IF case.config.publisher THEN BuildEnvelope(Published) ELSE Null
    /\ HeardAsDecided

\* The command of a keyword intent says its text, and its envelope carries it
\* (handle_user_input's RobotCommand, build_envelope).
LEMMA IntentsSayTheirText ==
  ASSUME NEW action \in {"stop", "trash_gather"}, NEW text \in Sentences
  PROVE  LET e == BuildEnvelope(IntentCommand(action, text)) IN
         e # Null /\ e.instruction = text /\ ParseInstruction(e) = text /\ text # Null
<1> DEFINE c == [action |-> action, target |-> "none", destination |-> "none",
                 direction |-> "none", instruction |-> text]
<1>1. c \in Commands
  BY DEF Commands, Actions, NameTexts
<1>2. text # Blank /\ text # Null
  BY SentencesAssumption, NullAssumption
<1>3. Validated(c).instruction = text
  <2>1. Normalised(c).instruction = text /\ Normalised(c) \in Commands
    BY <1>1 DEF Normalised, Commands, NameTexts
  <2>2. CompleteInstruction(Normalised(c)) = text
    BY <1>2, <2>1 DEF CompleteInstruction
  <2> QED BY <2>1, <2>2 DEF Validated, Commands
<1>4. IntentCommand(action, text) = Validated(c)
  BY DEF IntentCommand
<1>5. BuildEnvelope(Validated(c)) # Null
  BY <1>1, EnvelopeAssumption
<1>6. BuildEnvelope(Validated(c)).instruction = text
  BY <1>3 DEF BuildEnvelope
<1> HIDE DEF c
<1> QED BY <1>2, <1>4, <1>5, <1>6 DEF ParseInstruction

\* The keyword tests decide what the robot hears, and of the LLM only whether it
\* answers, not its reply, its command or the frames seen: the stop sentinel for
\* a stop word, the trigger's text for a trash word only and an answer, nothing
\* otherwise or without a publisher, if the two programs agree on the stop text
\* (handle_user_input, parse_instruction).
THEOREM KeywordsDecide ==
  ASSUME StopInstruction = StopText
  PROVE  Spec => []HeardAsDecided
<1>1. Init => ExchangeInv
  BY DEF Init, ExchangeInv, HeardAsDecided
<1>2. ExchangeInv /\ [Next]_vars => ExchangeInv'
  <2> SUFFICES ASSUME ExchangeInv, [Next]_vars PROVE ExchangeInv'
    OBVIOUS
  <2> USE DEF ExchangeInv, HeardAsDecided
  <2>0. case' = case /\ Decided' = Decided /\ Published' = Published
    BY DEF Next, Start, Frame, Ask, Publish, Reply, NoReply, Hear, Terminated, vars, Decided,
           Published, Trigger
  <2>1. CASE Start \/ Frame
    BY <2>0, <2>1 DEF Start, Frame
  <2>2. CASE Ask
    BY <2>0, <2>2 DEF Ask, Publish, Published
  <2>3. CASE Reply
    <3>1. CASE IsTrashIntent(case.config, case.text)
      BY <2>0, <2>3, <3>1 DEF Reply, Publish, Published
    <3>2. CASE ~IsTrashIntent(case.config, case.text)
      \* neither intent: the exchange ends with nothing published
      BY <2>0, <2>3, <3>2 DEF Reply, Decided
    <3> QED BY <3>1, <3>2
  <2>4. CASE Hear
    <3>1. pc = "sent" /\ pc' = "done"
          /\ heard' = LET text == ParseInstruction(envelope) IN
                      IF text = Null THEN "nothing"
                      ELSE IF text = StopInstruction THEN "stop" ELSE text
      BY <2>4 DEF Hear
    <3>2. CASE ~case.config.publisher
      BY <2>0, <3>1, <3>2 DEF ParseInstruction, Decided
    <3>3. CASE case.config.publisher /\ IsStopIntent(case.config, case.text)
      <4>1. ParseInstruction(envelope) = StopText /\ StopText # Null
        BY <3>1, <3>3, IntentsSayTheirText, TextsAssumption DEF Published
      <4> QED BY <2>0, <3>1, <3>3, <4>1 DEF Decided
    <3>4. CASE case.config.publisher /\ ~IsStopIntent(case.config, case.text)
      <4>1. ParseInstruction(envelope) = TrashText /\ TrashText # Null
        BY <3>1, <3>4, IntentsSayTheirText, TextsAssumption DEF Published, Trigger
      <4> QED BY <2>0, <3>1, <3>4, <4>1, TextsAssumption DEF Decided
    <3> QED BY <3>2, <3>3, <3>4
  <2>5. CASE NoReply \/ Terminated \/ UNCHANGED vars
    BY <2>0, <2>5 DEF NoReply, Terminated, vars
  <2> QED BY <2>1, <2>2, <2>3, <2>4, <2>5 DEF Next
<1>3. ExchangeInv => HeardAsDecided
  BY DEF ExchangeInv
<1> QED BY <1>1, <1>2, <1>3, PTL DEF Spec

-----------------------------------------------------------------------------
(* Words and texts: what the keyword tests find is what a text says.       *)

\* A set of places has a first one.
LEMMA FirstExists ==
  ASSUME NEW T \in SUBSET Nat, T # {}
  PROVE  \E x \in T : \A y \in T : x <= y
<1>1. OpToRel(<, Nat) = {ss \in Nat \X Nat : ss[1] < ss[2]}
  BY Zenon DEF OpToRel
<1>2. PICK x \in T : \A y \in T : ~ (<<y, x>> \in OpToRel(<, Nat))
  BY NatLessThanWellFounded, WFMin
<1>3. ASSUME NEW y \in T PROVE x <= y
  <2>1. <<y, x>> \in Nat \X Nat /\ <<y, x>>[1] = y /\ <<y, x>>[2] = x
    OBVIOUS
  <2>2. ~ (y < x)
    BY <1>1, <1>2, <2>1
  <2> QED BY <2>2
<1> QED BY <1>3

\* A set of places in a text has a last one: the first, counted from the end.
LEMMA LastExists ==
  ASSUME NEW n \in Nat, NEW T \in SUBSET (1..n), T # {}
  PROVE  \E x \in T : \A y \in T : x >= y
<1> DEFINE behind == {n - i : i \in T}
<1>1. \A i \in T : i \in 1..n /\ n - i \in Nat
  OBVIOUS
<1>2. behind \in SUBSET Nat /\ behind # {}
  BY <1>1
<1>3. PICK x \in behind : \A y \in behind : x <= y
  BY <1>2, FirstExists
<1>4. PICK i \in T : x = n - i
  BY <1>3
<1>5. \A j \in T : n - i <= n - j
  BY <1>3, <1>4
<1>6. \A j \in T : i >= j
  BY <1>1, <1>5
<1> QED BY <1>6

\* The ends of a set of places are in it.
LEMMA EndsInside ==
  ASSUME NEW n \in Nat, NEW T \in SUBSET (1..n), T # {}
  PROVE  Min(T) \in T /\ Max(T) \in T
<1>1. T \in SUBSET Nat
  OBVIOUS
<1> QED BY <1>1, FirstExists, LastExists DEF Min, Max

\* Stripping a piece of the environment leaves a text (str.strip).
LEMMA StripsToText ==
  ASSUME NEW word \in Seq(STRING)
  PROVE  Strip(word) \in Seq(STRING)
<1> DEFINE ink == {i \in DOMAIN word : word[i] # " "}
<1>1. CASE ink = {}
  BY <1>1, EmptySeq DEF Strip
<1>2. CASE ink # {}
  <2>1. Len(word) \in Nat /\ DOMAIN word = 1..Len(word) /\ \A i \in 1..Len(word) : word[i] \in STRING
    BY LenProperties, ElementOfSeq
  <2>2. ink \in SUBSET (1..Len(word))
    BY <2>1
  <2> HIDE DEF ink
  <2>3. Min(ink) \in 1..Len(word) /\ Max(ink) \in 1..Len(word)
    BY <1>2, <2>1, <2>2, EndsInside
  <2>4. Min(ink) \in Int /\ Max(ink) \in Int /\ \A i \in Min(ink)..Max(ink) : word[i] \in STRING
    BY <2>1, <2>3
  <2>5. SubSeq(word, Min(ink), Max(ink)) \in Seq(STRING)
    BY <2>4, SubSeqProperties
  <2> QED BY <1>2, <2>5 DEF Strip, ink
<1> QED BY <1>1, <1>2

\* Small letters make a text of the same length (str.lower).
LEMMA LowersToText ==
  ASSUME NEW word \in Seq(STRING)
  PROVE  Lower(word) \in Seq(STRING) /\ Len(Lower(word)) = Len(word)
<1>1. Len(word) \in Nat /\ DOMAIN word = 1..Len(word) /\ \A i \in 1..Len(word) : word[i] \in STRING
  BY LenProperties, ElementOfSeq
<1>2. \A i \in 1..Len(word) :
         (IF word[i] \in DOMAIN Upper THEN Upper[word[i]] ELSE word[i]) \in STRING
  BY <1>1, UpperAssumption
<1>3. Lower(word) \in [1..Len(word) -> STRING]
  BY <1>1, <1>2 DEF Lower
<1> QED BY <1>1, <1>3

\* A word occurs in a text (Python's `in`, a comparison of slices) if and only
\* if its letters stand in it one after the other.
LEMMA OccursLetterByLetter ==
  ASSUME NEW word \in Seq(STRING), NEW text \in Seq(STRING), word # <<>>
  PROVE  Occurs(word, text) <=>
            \E i \in DOMAIN text :
               /\ i + Len(word) - 1 <= Len(text)
               /\ \A k \in DOMAIN word : word[k] = text[i + k - 1]
<1>1. /\ Len(word) \in Nat /\ Len(text) \in Nat /\ Len(word) >= 1
      /\ DOMAIN word = 1..Len(word) /\ DOMAIN text = 1..Len(text)
      /\ \A i \in 1..Len(text) : text[i] \in STRING
  BY LenProperties, ElementOfSeq, EmptySeq
<1>2. ASSUME NEW i \in 0..(Len(text) - Len(word))
      PROVE  /\ SubSeq(text, i + 1, i + Len(word)) \in Seq(STRING)
             /\ Len(SubSeq(text, i + 1, i + Len(word))) = Len(word)
             /\ \A k \in 1..Len(word) :
                   SubSeq(text, i + 1, i + Len(word))[k] = text[(i + 1) + k - 1]
  <2>1. i + 1 \in Int /\ i + Len(word) \in Int /\ i + 1 <= i + Len(word)
        /\ (i + Len(word)) - (i + 1) + 1 = Len(word)
        /\ \A j \in (i + 1)..(i + Len(word)) : j \in 1..Len(text)
    BY <1>1
  <2>2. \A j \in (i + 1)..(i + Len(word)) : text[j] \in STRING
    BY <1>1, <2>1
  <2>3. /\ SubSeq(text, i + 1, i + Len(word)) \in Seq(STRING)
        /\ Len(SubSeq(text, i + 1, i + Len(word))) =
              IF i + 1 <= i + Len(word) THEN (i + Len(word)) - (i + 1) + 1 ELSE 0
        /\ \A k \in 1..((i + Len(word)) - (i + 1) + 1) :
              SubSeq(text, i + 1, i + Len(word))[k] = text[(i + 1) + k - 1]
    BY <2>1, <2>2, SubSeqProperties
  <2> QED BY <2>1, <2>3
<1>3. ASSUME NEW i \in 0..(Len(text) - Len(word))
      PROVE  SubSeq(text, i + 1, i + Len(word)) = word
                <=> \A k \in 1..Len(word) : word[k] = text[(i + 1) + k - 1]
  <2>1. CASE \A k \in 1..Len(word) : word[k] = text[(i + 1) + k - 1]
    BY <1>2, <2>1, SeqEqual
  <2>2. CASE SubSeq(text, i + 1, i + Len(word)) = word
    BY <1>2, <2>2
  <2> QED BY <2>1, <2>2
<1>4. ASSUME Occurs(word, text)
      PROVE  \E i \in DOMAIN text :
                /\ i + Len(word) - 1 <= Len(text)
                /\ \A k \in DOMAIN word : word[k] = text[i + k - 1]
  <2>1. PICK i \in 0..(Len(text) - Len(word)) : SubSeq(text, i + 1, i + Len(word)) = word
    BY <1>4 DEF Occurs
  <2>2. i + 1 \in 1..Len(text) /\ (i + 1) + Len(word) - 1 <= Len(text)
    BY <1>1
  <2> QED BY <1>1, <1>3, <2>1, <2>2
<1>5. ASSUME NEW i \in DOMAIN text, i + Len(word) - 1 <= Len(text),
             \A k \in DOMAIN word : word[k] = text[i + k - 1]
      PROVE  Occurs(word, text)
  <2>1. i - 1 \in 0..(Len(text) - Len(word)) /\ (i - 1) + 1 = i
    BY <1>1, <1>5
  <2>2. SubSeq(text, (i - 1) + 1, (i - 1) + Len(word)) = word
    BY <1>1, <1>3, <1>5, <2>1
  <2> QED BY <2>1, <2>2 DEF Occurs
<1> QED BY <1>4, <1>5

\* The keywords are the words of the environment that count, all of them texts
\* and none of them empty (_parse_stop_keywords, _parse_trash_keywords).
LEMMA KeywordsAreWords ==
  ASSUME NEW pieces \in Seq(Seq(STRING)), NEW default \in {StopDefault, TrashDefault}
  PROVE  /\ Keywords(pieces, default) = WordsOf(pieces, default)
         /\ \A word \in WordsOf(pieces, default) : word \in Seq(STRING) /\ word # <<>>
<1> DEFINE words == {Strip(pieces[i]) : i \in DOMAIN pieces} \ {<<>>}
<1>1. words = {word \in {Strip(pieces[i]) : i \in DOMAIN pieces} : NotEmpty(word)}
  BY DEF NotEmpty
<1>2. \A word \in words : word \in Seq(STRING) /\ word # <<>>
  <2>1. \A i \in DOMAIN pieces : pieces[i] \in Seq(STRING)
    BY LenProperties, ElementOfSeq
  <2> QED BY <2>1, StripsToText
<1>3. \A i \in DOMAIN default : default[i] \in Seq(STRING) /\ default[i] # <<>>
  <2>1. default \in Seq(Seq(STRING)) /\ <<>> \notin {default[i] : i \in DOMAIN default}
    BY DefaultsAssumption
  <2>2. \A i \in DOMAIN default : default[i] \in Seq(STRING)
    BY <2>1, LenProperties, ElementOfSeq
  <2> QED BY <2>1, <2>2
<1>4. WordsOf(pieces, default) = IF words = {} THEN {default[i] : i \in DOMAIN default} ELSE words
  BY DEF WordsOf
<1>5. Keywords(pieces, default) = IF words = {} THEN {default[i] : i \in DOMAIN default} ELSE words
  BY <1>1 DEF Keywords
<1> HIDE DEF words
<1> QED BY <1>2, <1>3, <1>4, <1>5

\* The tests find a keyword in an input exactly if the input says one of the
\* words (_is_stop_intent, _is_trash_intent).
LEMMA TestsFindWords ==
  ASSUME NEW pieces \in Seq(Seq(STRING)), NEW default \in {StopDefault, TrashDefault},
         NEW text \in Seq(STRING)
  PROVE  ContainsAny(Keywords(pieces, default), text) <=> Says(text, WordsOf(pieces, default))
<1> DEFINE words == WordsOf(pieces, default)
           Stands(word) == \E i \in DOMAIN text :
              /\ i + Len(word) - 1 <= Len(text)
              /\ \A k \in DOMAIN word : Lower(word)[k] = Lower(text)[i + k - 1]
<1>1. Keywords(pieces, default) = words /\ \A word \in words : word \in Seq(STRING) /\ word # <<>>
  BY KeywordsAreWords
<1> HIDE DEF words
<1>2. ASSUME NEW word \in words PROVE Occurs(Lower(word), Lower(text)) <=> Stands(word)
  <2>1. /\ Lower(word) \in Seq(STRING) /\ Len(Lower(word)) = Len(word)
        /\ Lower(text) \in Seq(STRING) /\ Len(Lower(text)) = Len(text)
    BY <1>1, LowersToText
  <2>2. /\ DOMAIN Lower(word) = DOMAIN word /\ DOMAIN Lower(text) = DOMAIN text
    BY DEF Lower
  <2>3. Lower(word) # <<>>
    BY <1>1, <2>1, EmptySeq
  <2>4. Occurs(Lower(word), Lower(text)) <=>
          \E i \in DOMAIN Lower(text) :
             /\ i + Len(Lower(word)) - 1 <= Len(Lower(text))
             /\ \A k \in DOMAIN Lower(word) : Lower(word)[k] = Lower(text)[i + k - 1]
    BY <2>1, <2>3, OccursLetterByLetter
  <2> QED BY <2>1, <2>2, <2>4
<1>3. Says(text, words) <=> \E word \in words : Stands(word)
  BY DEF Says
<1> HIDE DEF Stands
<1> QED BY <1>1, <1>2, <1>3 DEF ContainsAny, words

\* The robot hears what the user said and nothing else, for any texts, keywords
\* and replies, if the two programs agree on the stop text; of what needs the LLM
\* it hears nothing when the LLM gives no answer.
THEOREM WordsDecide ==
  ASSUME StopInstruction = StopText
  PROVE  Spec => []HeardAsSaid
<1>1. Parsed /\ HeardAsDecided => HeardAsSaid
  <2> SUFFICES ASSUME Parsed, HeardAsDecided PROVE HeardAsSaid
    OBVIOUS
  <2>1. /\ case.config.stop \in Seq(Seq(STRING)) /\ case.config.trash \in Seq(Seq(STRING))
        /\ case.text \in Seq(STRING)
    BY CasesAssumption DEF Parsed
  <2>2. /\ IsStopIntent(case.config, case.text)
              <=> Says(case.text, WordsOf(case.config.stop, StopDefault))
        /\ IsTrashIntent(case.config, case.text)
              <=> Says(case.text, WordsOf(case.config.trash, TrashDefault))
    BY <2>1, TestsFindWords DEF IsStopIntent, IsTrashIntent
  <2> QED BY <2>2 DEF HeardAsSaid, HeardAsDecided, Decided
<1> QED BY <1>1, ParsedInvariant, KeywordsDecide, PTL

-----------------------------------------------------------------------------
\* Object by object, each of the two ways update() reads a payload keeps what
\* VisionState's docstring promises to keep: an entry the schema accepts is
\* kept for its pair of coordinates, any other for what can be converted.
LEMMA EntriesKeptAsPromised ==
  ASSUME NEW entry \in Entries
  PROVE  /\ Typed(entry) => (HasPair(entry) <=> WellFormed(entry))
         /\ ~Overflows(entry) => (Keeps(entry) <=> WellFormed(entry))
BY MissingAssumption
DEF Entries, Centers, Confidences, Typed, HasPair, WellFormed, Overflows, Readable, Keeps,
    Unconvertible

\* Frames are read one by one, none after the last.
FramesInv ==
    /\ case \in Cases /\ seen \in Nat
    /\ pc = "start" => seen = 0
    /\ pc = "frame" => seen < Len(case.frames)

\* The program counter and the frames seen move together.
LEMMA FramesInvariant == Spec => []FramesInv
<1>1. Init => FramesInv
  BY DEF Init, FramesInv
<1>2. FramesInv /\ [Next]_vars => FramesInv'
  <2> SUFFICES ASSUME FramesInv, [Next]_vars PROVE FramesInv'
    OBVIOUS
  <2> USE DEF FramesInv
  <2>1. case' = case /\ Len(case.frames) \in Nat /\ Len(case.frames) > 0
    <3>1. case' = case
      BY DEF Next, Start, Frame, Ask, Publish, Reply, NoReply, Hear, Terminated, vars
    <3>2. case.frames \in Seq(Payloads(Seq(Entries))) /\ case.frames # <<>>
      BY CasesAssumption
    <3> QED BY <3>1, <3>2, EmptySeq
  <2>2. CASE Start
    <3>1. seen' = seen /\ pc' \in {"refused", "frame"} /\ seen = 0
      BY <2>2 DEF Start
    <3> QED BY <2>1, <3>1
  <2>3. CASE Frame
    BY <2>1, <2>3 DEF Frame
  <2>4. CASE Ask \/ Reply \/ NoReply \/ Hear
    BY <2>1, <2>4 DEF Ask, Reply, NoReply, Hear, Publish
  <2>5. CASE Terminated \/ UNCHANGED vars
    BY <2>1, <2>5 DEF Terminated, vars
  <2> QED BY <2>2, <2>3, <2>4, <2>5 DEF Next
<1> QED BY <1>1, <1>2, PTL DEF Spec

\* update() leaves what it promises to keep, or what was there if it raises.
LEMMA UpdatedAsPromised ==
  ASSUME NEW old, NEW data \in Payloads(Seq(Entries))
  PROVE  Updated(old, data) = IF Raises(data) THEN old ELSE Promised(data)
<1>1. \A i \in DOMAIN data.list : data.list[i] \in Entries
  BY LenProperties, ElementOfSeq DEF Payloads
<1>2. CASE Raises(data)
  BY <1>2 DEF Updated
<1>3. CASE Valid(data)
  <2>1. \A i \in DOMAIN data.list : HasPair(data.list[i]) <=> WellFormed(data.list[i])
    BY <1>1, <1>3, EntriesKeptAsPromised DEF Valid
  <2>2. Kept(data) = {i \in DOMAIN data.list : WellFormed(data.list[i])}
    BY <1>3, <2>1 DEF Kept
  <2> QED BY <1>3, <2>2 DEF Updated, Promised, Raises
<1>4. CASE ~Raises(data) /\ ~Valid(data)
  <2>1. \A i \in DOMAIN data.list : Keeps(data.list[i]) <=> WellFormed(data.list[i])
    BY <1>1, <1>4, EntriesKeptAsPromised DEF Raises
  <2>2. Kept(data) = {i \in DOMAIN data.list : WellFormed(data.list[i])}
    BY <1>4, <2>1 DEF Kept
  <2> QED BY <1>4, <2>2 DEF Updated, Promised
<1> QED BY <1>2, <1>3, <1>4

\* Of any payload exactly the well-formed objects are kept, in their order, and
\* what was seen before stays only if update() raises.
THEOREM KeepsExactly == Spec => KeptExactly
<1>1. ASSUME FramesInv, [Next]_vars, seen' # seen
      PROVE  objects' = IF Raises(case.frames[seen']) THEN objects ELSE Promised(case.frames[seen'])
  <2>1. Frame
    BY <1>1 DEF Next, Start, Ask, Publish, Reply, NoReply, Hear, Terminated, vars
  <2>2. seen' = seen + 1 /\ objects' = Updated(objects, case.frames[seen + 1])
    BY <2>1 DEF Frame, Update
  <2>3. case.frames[seen + 1] \in Payloads(Seq(Entries))
    <3>1. case.frames \in Seq(Payloads(Seq(Entries))) /\ seen + 1 \in 1..Len(case.frames)
      BY <1>1, <2>1, CasesAssumption, LenProperties DEF FramesInv, Frame
    <3> QED BY <3>1, ElementOfSeq
  <2> QED BY <2>2, <2>3, UpdatedAsPromised
<1>2. FramesInv /\ [Next]_vars =>
        [seen' # seen =>
            LET frame == case.frames[seen'] IN
            objects' = IF Raises(frame) THEN objects ELSE Promised(frame)]_vars
  BY <1>1
<1> QED BY <1>2, FramesInvariant, PTL DEF Spec, KeptExactly
=============================================================================
