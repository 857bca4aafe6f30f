------------------------- MODULE LanguageAppProofs -------------------------
(***************************************************************************)
(* What the proofs about the two front ends share: facts about the         *)
(* publisher, about what a step of a coroutine changes, and about the      *)
(* order of what was sent.                                                 *)
(***************************************************************************)
EXTENDS LanguageApp, SequenceTheorems, TLAPS

-----------------------------------------------------------------------------
(* The publisher.                                                          *)

\* The flag is set while stop() runs. As long as close() has not raised, the
\* flag and the place of stop() tell where the socket is; once it has raised,
\* the flag is set for a socket that is gone. A socket that was never bound
\* comes with a clear flag.
PublisherInv ==
    /\ stop_pc # "idle" => enabled
    /\ stop_pc = "unwind" => raised
    /\ ~raised /\ enabled /\ stop_pc \in {"idle", "close"} => socket = "open"
    /\ (enabled => raised) /\ stop_pc = "idle" => socket \in {"none", "unbound"}
    /\ enabled /\ stop_pc = "idle" /\ raised => socket = "none"
    /\ stop_pc = "close" /\ raised => socket = "none"
    /\ stop_pc = "disable" => socket = "none"

\* start() and the steps of stop() keep the flag and the socket in agreement.
LEMMA PublisherSteps ==
    ASSUME AppTypeOK, PublisherInv,
           (\E outcome \in StartOutcomes : Start(outcome)) \/ StopBegin \/ StopStep
    PROVE  PublisherInv'
<1>1. CASE \E outcome \in StartOutcomes : Start(outcome)
  BY <1>1 DEF Start, PublisherInv, AppTypeOK
<1>2. CASE StopBegin
  BY <1>2 DEF StopBegin, PublisherInv, AppTypeOK
<1>3. CASE StopStep
  BY <1>3 DEF StopStep, StopClose, StopClear, StopDisable, PublisherInv, AppTypeOK
<1> QED BY <1>1, <1>2, <1>3

\* They keep the types too, and send nothing.
LEMMA PublisherTypes ==
    ASSUME AppTypeOK, (\E outcome \in StartOutcomes : Start(outcome)) \/ StopBegin \/ StopStep
    PROVE  /\ enabled' \in BOOLEAN /\ socket' \in {"none", "unbound", "open", "closed"}
           /\ stop_pc' \in {"idle", "close", "clear", "disable", "unwind"} /\ raised' \in BOOLEAN
           /\ sent' = sent
BY DEF Start, StopBegin, StopStep, StopClose, StopClear, StopDisable, AppTypeOK

-----------------------------------------------------------------------------
(* The requests.                                                           *)

Publishing(r) == request[r].pc \in {"check", "assert", "send"}

\* The coroutine has been started and is not over.
Active(r) == InLoop(r) \/ Publishing(r)

\* A request that publishes has a command to publish.
CommandsNamed == \A r \in Requests : Publishing(r) => request[r].kind \in {"stop", "trash"}

\* Everything sent belongs to an input before the n-th.
SentBelow(n) == \A i \in DOMAIN sent : sent[i].id < n

\* What the front ends' invariants have in common
AppInv ==
    /\ AppTypeOK /\ PublisherInv /\ CommandsNamed
    /\ SentBelow(asked + 1)
    /\ \A r \in Requests : Active(r) => SentBelow(r) /\ r <= asked

\* The invariant holds before any input.
LEMMA AppInitInv == AppInit => AppInv
<1> SUFFICES ASSUME AppInit PROVE AppInv
  OBVIOUS
<1>1. AppTypeOK
  <2>1. [pc |-> "none", text |-> {}, kind |-> "none", told |-> FALSE] \in RequestRecords
    BY DEF RequestRecords, Places, Kinds
  <2>2. asked \in 0..MaxInputs
    BY InputsAssumption DEF AppInit
  <2>3. sent \in Seq([id : Requests, kind : Kinds])
    BY EmptySeq DEF AppInit, PublisherInit
  <2> QED BY <2>1, <2>2, <2>3 DEF AppInit, AppTypeOK, PublisherInit
<1>2. \A r \in Requests : request[r].pc = "none"
  BY DEF AppInit
<1> QED BY <1>1, <1>2
  DEF AppInit, AppInv, PublisherInit, PublisherInv, CommandsNamed, SentBelow, Active, InLoop,
      Publishing

\* One step of the coroutine of request r makes q of it.
Moves(r, q) ==
    /\ Active(r) /\ request' = [request EXCEPT ![r] = q]
    /\ q.pc \in {"llm", "check", "assert", "send"} \cup Finished
    /\ q.pc \in {"check", "assert", "send"} => q.kind \in {"stop", "trash"}
    /\ q.pc = "assert" => enabled
    /\ q.pc = "asserted" => request[r].pc = "assert" /\ socket = "none"
    /\ \/ sent' = sent
       \/ /\ request[r].pc = "send" /\ q.pc = "done"
          /\ sent' = Append(sent, [id |-> r, kind |-> request[r].kind])
    /\ UNCHANGED <<asked, enabled, socket, stop_pc, raised>>

\* What a step of handle_user_input or publish() changes, all its cases in one.
LEMMA HandlerMoves ==
    ASSUME AppTypeOK, CommandsNamed, NEW r \in Requests, HandlerStep(r)
    PROVE  \E q \in RequestRecords : Moves(r, q)
<1> DEFINE q == request'[r]
<1>0. request \in [Requests -> RequestRecords] /\ request[r] \in RequestRecords
  BY DEF AppTypeOK
<1>1. CASE Begin(r)
  BY <1>0, <1>1 DEF Begin, Publish, Goto, Moves, Active, InLoop, RequestRecords, Places, Kinds,
                    Finished, pubVars
<1>2. CASE LLMFails(r)
  BY <1>0, <1>2 DEF LLMFails, Goto, Moves, Active, InLoop, RequestRecords, Places, Finished,
                    pubVars
<1>3. CASE LLMReplies(r)
  BY <1>0, <1>3 DEF LLMReplies, TriggerSent, Publish, Goto, Moves, Active, InLoop,
                    RequestRecords, Places, Kinds, Finished, pubVars
<1>4. CASE PublishCheck(r)
  BY <1>0, <1>4 DEF PublishCheck, Goto, Moves, Active, Publishing, CommandsNamed,
                    RequestRecords, Places, Finished, pubVars
<1>5. CASE PublishAssert(r)
  <2> DEFINE place == IF socket # "none" THEN "send" ELSE "asserted"
             p == [request[r] EXCEPT !.pc = place]
  <2>1. place \in {"send", "asserted"} /\ (place = "asserted" <=> socket = "none")
    OBVIOUS
  <2> HIDE DEF place
  <2>2. p \in RequestRecords /\ p.pc = place /\ p.kind = request[r].kind
    BY <1>0, <2>1 DEF RequestRecords, Places, Finished
  <2>3. request' = [request EXCEPT ![r] = p] /\ request[r].pc = "assert"
    BY <1>0, <1>5 DEF PublishAssert, Goto, place
  <2> HIDE DEF p
  <2> QED BY <1>5, <2>1, <2>2, <2>3
       DEF PublishAssert, Moves, Active, Publishing, CommandsNamed, Finished, pubVars
<1>6. CASE PublishSend(r)
  BY <1>0, <1>6 DEF PublishSend, Transmit, Goto, Moves, Active, Publishing,
                    RequestRecords, Places, Finished
<1> QED BY <1>1, <1>2, <1>3, <1>4, <1>5, <1>6 DEF HandlerStep

\* What request r sends is below every later input.
LEMMA SendsBelow ==
    ASSUME AppTypeOK, NEW r \in Requests, NEW q, Moves(r, q), NEW n, r < n, SentBelow(n)
    PROVE  \A i \in DOMAIN sent' : sent'[i].id < n
<1> DEFINE message == [id |-> r, kind |-> request[r].kind]
<1>1. sent \in Seq([id : Requests, kind : Kinds]) /\ message \in [id : Requests, kind : Kinds]
  BY DEF AppTypeOK, RequestRecords
<1>2. message.id = r
  OBVIOUS
<1>3. sent' = sent \/ sent' = Append(sent, message)
  BY DEF Moves
<1> HIDE DEF message
<1> SUFFICES ASSUME NEW i \in DOMAIN sent' PROVE sent'[i].id < n
  OBVIOUS
<1>4. sent'[i] = message \/ (i \in DOMAIN sent /\ sent'[i] = sent[i])
  BY <1>1, <1>3, AppendProperties
<1> QED BY <1>2, <1>4 DEF SentBelow

\* The only request in progress keeps the order of what is sent, and what it
\* sends the ordered outbox may send.
LEMMA MovesInOrder ==
    ASSUME AppInv, NEW r \in Requests, NEW q \in RequestRecords, Moves(r, q),
           \A s \in Requests : Active(s) => s = r
    PROVE  AppInv' /\ [Outbox!Next]_sent
<1> DEFINE message == [id |-> r, kind |-> request[r].kind]
<1>1. /\ request \in [Requests -> RequestRecords] /\ asked \in 0..MaxInputs /\ MaxInputs \in Nat
      /\ sent \in Seq([id : Requests, kind : Kinds]) /\ Active(r)
  BY InputsAssumption DEF AppInv, AppTypeOK, Moves
<1>2. SentBelow(r) /\ r <= asked /\ SentBelow(asked + 1)
  BY <1>1 DEF AppInv
<1>3. /\ request' \in [Requests -> RequestRecords]
      /\ \A s \in Requests : Active(s)' => s = r
      /\ CommandsNamed'
  BY <1>1 DEF Moves, Active, InLoop, Publishing, AppInv, CommandsNamed
<1>4. CASE sent' = sent
  <2>1. SentBelow(asked + 1)' /\ SentBelow(r)' /\ asked' = asked
    BY <1>2, <1>4 DEF SentBelow, Moves
  <2> QED BY <1>1, <1>2, <1>3, <1>4, <2>1 DEF Moves, AppInv, AppTypeOK, PublisherInv
<1>5. CASE request[r].pc = "send" /\ q.pc = "done" /\ sent' = Append(sent, message)
  <2>1. request[r].kind \in {"stop", "trash"}
    BY <1>5 DEF AppInv, CommandsNamed, Publishing
  <2>2. message \in [id : Requests, kind : Kinds] /\ message.id = r
    BY <2>1 DEF Kinds
  <2> HIDE DEF message
  <2>3. sent' \in Seq([id : Requests, kind : Kinds])
    BY <1>1, <1>5, <2>2, AppendProperties
  <2>4. SentBelow(asked + 1)'
    <3>1. r \in Nat /\ r < asked + 1 /\ AppTypeOK
      BY <1>1, <1>2 DEF AppInv, Requests
    <3>2. \A i \in DOMAIN sent' : sent'[i].id < asked + 1
      BY <1>2, <3>1, SendsBelow DEF SentBelow
    <3> QED BY <3>2 DEF SentBelow, Moves
  <2>5. \A s \in Requests : ~Active(s)'
    BY <1>1, <1>3, <1>5 DEF Moves, Active, InLoop, Publishing
  <2>6. Outbox!Next
    <3>1. message \in Outbox!Messages
      BY <2>1, <2>2 DEF Outbox!Messages, Requests, message
    <3>2. Outbox!Put(message)
      BY <1>2, <1>5, <2>2 DEF Outbox!Put, SentBelow
    <3> QED BY <3>1, <3>2 DEF Outbox!Next
  <2> QED BY <1>1, <1>3, <2>3, <2>4, <2>5, <2>6 DEF Moves, AppInv, AppTypeOK, PublisherInv
<1> QED BY <1>4, <1>5 DEF Moves

\* Steps that send nothing and start no coroutine: the end of the event loop,
\* its callbacks, the publisher's start and stop.
LEMMA OthersKeepOrder ==
    ASSUME AppInv, PublisherInv',
           enabled' \in BOOLEAN, socket' \in {"none", "unbound", "open", "closed"},
           stop_pc' \in {"idle", "close", "clear", "disable", "unwind"} /\ raised' \in BOOLEAN,
           UNCHANGED <<sent, asked>>, request' \in [Requests -> RequestRecords],
           \A r \in Requests : Active(r)' => Active(r),
           \A r \in Requests : Publishing(r)' => Publishing(r) /\ request'[r].kind = request[r].kind
    PROVE  AppInv' /\ [Outbox!Next]_sent
BY DEF AppInv, AppTypeOK, CommandsNamed, SentBelow

\* The end of the event loop leaves nothing in it.
LEMMA LoopEnds ==
    ASSUME AppTypeOK, LoopFree, NEW how \in Lost, EndRequests(how)
    PROVE  /\ request' \in [Requests -> RequestRecords]
           /\ \A r \in Requests : ~Active(r)'
           /\ \A r \in Requests : request'[r].pc \in Finished => request'[r] = request[r]
<1> SUFFICES ASSUME NEW r \in Requests
             PROVE  /\ request'[r] \in RequestRecords /\ ~Active(r)'
                    /\ request'[r].pc \in Finished => request'[r] = request[r]
  BY DEF EndRequests
<1>1. request[r] \in RequestRecords /\ ~Publishing(r)
  BY DEF AppTypeOK, LoopFree, Publishing
<1>2. CASE InLoop(r)
  <2>1. request'[r] = [request[r] EXCEPT !.pc = how]
    BY <1>2 DEF EndRequests
  <2> QED BY <1>1, <2>1 DEF RequestRecords, Places, Lost, Finished, Active, InLoop, Publishing
<1>3. CASE ~InLoop(r)
  <2>1. request'[r] = request[r]
    BY <1>3 DEF EndRequests
  <2> QED BY <1>1, <1>3, <2>1 DEF Active, InLoop, Publishing
<1> QED BY <1>2, <1>3

\* A new input comes after everything sent.
LEMMA AskKeepsOrder ==
    ASSUME AppInv, NEW text \in Texts, NEW place \in {"waiting", "begin", "ignored", "stranded"},
           Ask(text, place), UNCHANGED pubVars
    PROVE  /\ AppInv' /\ [Outbox!Next]_sent
           /\ asked + 1 \in Requests /\ request'[asked + 1].pc = place
           /\ \A r \in Requests : r # asked + 1 => request'[r] = request[r]
<1> DEFINE n == asked + 1
<1>1. /\ request \in [Requests -> RequestRecords] /\ asked \in Nat /\ MaxInputs \in Nat
      /\ asked' = n /\ asked < MaxInputs /\ n \in Requests
  BY InputsAssumption DEF AppInv, AppTypeOK, Ask, Requests
<1>2. PICK q \in RequestRecords : q.pc = place /\ request' = [request EXCEPT ![n] = q]
  <2> DEFINE p == [request[n] EXCEPT !.pc = place, !.text = text]
  <2>1. request[n] \in RequestRecords /\ text \in SUBSET {"stop", "trash"}
    BY <1>1, InputsAssumption
  <2>2. p \in RequestRecords /\ p.pc = place
    BY <2>1 DEF RequestRecords, Places, Lost
  <2>3. request' = [request EXCEPT ![n] = p]
    BY <1>1 DEF Ask
  <2> QED BY <2>2, <2>3
<1>0. n = asked + 1
  OBVIOUS
<1> HIDE DEF n
<1>3. /\ request' \in [Requests -> RequestRecords] /\ request'[n] = q
      /\ \A r \in Requests : r # n => request'[r] = request[r]
  BY <1>1, <1>2
<1>4. SentBelow(n) /\ SentBelow(asked' + 1)
  <2>1. SentBelow(n)
    BY <1>0 DEF AppInv
  <2>2. \A i \in DOMAIN sent : sent[i].id \in Int
    <3> SUFFICES ASSUME NEW i \in DOMAIN sent PROVE sent[i].id \in Int
      OBVIOUS
    <3>1. sent \in Seq([id : Requests, kind : Kinds])
      BY DEF AppInv, AppTypeOK
    <3>2. sent[i] \in [id : Requests, kind : Kinds]
      BY <3>1, ElementOfSeq, LenProperties
    <3> QED BY <1>1, <3>2 DEF Requests
  <2> QED BY <1>0, <1>1, <2>1, <2>2 DEF SentBelow
<1>5. AppTypeOK' /\ PublisherInv'
  BY <1>1, <1>3 DEF AppInv, AppTypeOK, PublisherInv, pubVars, Requests
<1>6. CommandsNamed'
  BY <1>2, <1>3 DEF AppInv, CommandsNamed, Publishing
<1>7. SentBelow(asked + 1)'
  BY <1>4 DEF SentBelow, pubVars
<1>8. \A r \in Requests : Active(r)' => SentBelow(r)' /\ r <= asked'
  <2> SUFFICES ASSUME NEW r \in Requests, Active(r)' PROVE SentBelow(r)' /\ r <= asked'
    OBVIOUS
  <2>1. CASE r = n
    BY <1>0, <1>1, <1>4, <2>1 DEF SentBelow, pubVars
  <2>2. CASE r # n
    <3>1. Active(r)
      BY <1>3, <2>2 DEF Active, InLoop, Publishing
    <3>2. SentBelow(r) /\ r <= asked
      BY <3>1 DEF AppInv
    <3> QED BY <1>0, <1>1, <3>2 DEF SentBelow, pubVars, Requests
  <2> QED BY <2>1, <2>2
<1> QED BY <1>0, <1>1, <1>2, <1>3, <1>5, <1>6, <1>7, <1>8 DEF AppInv, pubVars

-----------------------------------------------------------------------------
(* What the words decide.                                                  *)

\* The command an input asks for, a stop before anything else
Meant(text) ==
    IF IsStopIntent(text) THEN "stop" ELSE IF IsTrashIntent(text) THEN "trash" ELSE "none"

\* What was sent for an input is the command its words ask for, whatever the
\* LLM replied (_publish_stop, handle_user_input).
SentAsMeant ==
    \A i \in DOMAIN sent :
        sent[i].id \in Requests /\ sent[i].kind = Meant(request[sent[i].id].text)

\* An input that says a stop never waits for the LLM, and is not over before a
\* stop was handed to the publisher.
StopsFirst ==
    \A r \in Requests : IsStopIntent(request[r].text) =>
        request[r].pc # "llm" /\ (request[r].pc \in Finished => request[r].kind = "stop")

\* The words decide the command that is being published, there is none before,
\* and what was sent is what its request, which is over, had.
WordsInv ==
    /\ StopsFirst
    /\ \A r \in Requests :
          /\ Publishing(r) => request[r].kind = Meant(request[r].text)
          /\ request[r].kind # "none" => Publishing(r) \/ request[r].pc \in Finished
    /\ \A i \in DOMAIN sent :
          /\ sent[i].id \in Requests /\ request[sent[i].id].pc = "done"
          /\ sent[i].kind = request[sent[i].id].kind
          /\ sent[i].kind = Meant(request[sent[i].id].text)

\* There is nothing to decide before any input.
LEMMA WordsInit == AppInit => WordsInv
<1> SUFFICES ASSUME AppInit PROVE WordsInv
  OBVIOUS
<1>1. \A r \in Requests : request[r].pc = "none" /\ request[r].kind = "none"
  BY DEF AppInit
<1>2. DOMAIN sent = {}
  BY DEF AppInit, PublisherInit
<1> QED BY <1>1, <1>2 DEF WordsInv, StopsFirst, Publishing, Finished

\* A request that stays as it is, or is put somewhere before its end, changes
\* nothing about the words.
LEMMA WordsKept ==
    ASSUME WordsInv, sent' = sent,
           \A r \in Requests :
              \/ /\ request'[r].pc = request[r].pc /\ request'[r].kind = request[r].kind
                 /\ request'[r].text = request[r].text
              \/ /\ request'[r].pc \in {"waiting", "begin"} \cup Lost
                 /\ ~Publishing(r) /\ request[r].pc \notin Finished
                 /\ request'[r].kind = request[r].kind
    PROVE  WordsInv'
<1>1. StopsFirst'
  BY DEF WordsInv, StopsFirst, Finished, Lost
<1>2. \A r \in Requests :
          /\ Publishing(r)' => request'[r].kind = Meant(request'[r].text)
          /\ request'[r].kind # "none" => Publishing(r)' \/ request'[r].pc \in Finished
  BY DEF WordsInv, Publishing, Lost
<1>3. \A i \in DOMAIN sent :
          /\ sent[i].id \in Requests /\ request'[sent[i].id].pc = "done"
          /\ sent[i].kind = request'[sent[i].id].kind
          /\ sent[i].kind = Meant(request'[sent[i].id].text)
  BY DEF WordsInv, Finished
<1> QED BY <1>1, <1>2, <1>3 DEF WordsInv

\* A step of a coroutine takes its command from the words: Begin the stop,
\* LLMReplies the trigger, whatever the reply's command is.
LEMMA HandlerKeepsWords ==
    ASSUME AppInv, WordsInv, NEW r \in Requests, HandlerStep(r)
    PROVE  WordsInv'
<1> DEFINE q == request'[r]
<1>1. /\ request \in [Requests -> RequestRecords] /\ request[r] \in RequestRecords
      /\ sent \in Seq([id : Requests, kind : Kinds])
  BY DEF AppInv, AppTypeOK
<1>2. PICK p \in RequestRecords : Moves(r, p)
  BY HandlerMoves DEF AppInv
<1>3. q = p /\ \A s \in Requests : s # r => request'[s] = request[s]
  BY <1>1, <1>2 DEF Moves
<1>4. q.text = request[r].text
  BY <1>1 DEF HandlerStep, Begin, LLMFails, LLMReplies, PublishCheck, PublishAssert, PublishSend,
              Publish, Goto, RequestRecords
<1>5. /\ IsStopIntent(q.text) => q.pc # "llm" /\ (q.pc \in Finished => q.kind = "stop")
      /\ q.pc \in {"check", "assert", "send"} => q.kind = Meant(q.text)
      /\ q.kind # "none" => q.pc \in {"check", "assert", "send"} \cup Finished
  <2>1. CASE Begin(r)
    <3>1. request[r].kind = "none"
      BY <2>1 DEF Begin, WordsInv, Publishing, Finished
    <3>2. \/ IsStopIntent(request[r].text) /\ q.pc = "check" /\ q.kind = "stop"
          \/ ~IsStopIntent(request[r].text) /\ q.pc = "llm" /\ q.kind = request[r].kind
      BY <1>1, <2>1 DEF Begin, Publish, Goto, RequestRecords
    <3> QED BY <1>4, <3>1, <3>2 DEF Meant, Finished
  <2>2. CASE LLMFails(r) \/ LLMReplies(r)
    <3>1. request[r].kind = "none" /\ ~IsStopIntent(request[r].text)
      BY <2>2 DEF LLMFails, LLMReplies, WordsInv, StopsFirst, Publishing, Finished
    <3>2. \/ q.pc \in {"done", "raised"} /\ q.kind = request[r].kind
          \/ IsTrashIntent(request[r].text) /\ q.pc = "check" /\ q.kind = "trash"
      BY <1>1, <2>2 DEF LLMFails, LLMReplies, TriggerSent, Publish, Goto, RequestRecords
    <3> QED BY <1>4, <3>1, <3>2 DEF Meant, Finished
  <2>3. CASE PublishCheck(r) \/ PublishAssert(r) \/ PublishSend(r)
    <3>1. Publishing(r) /\ request[r].kind = Meant(request[r].text)
      BY <2>3 DEF PublishCheck, PublishAssert, PublishSend, WordsInv, Publishing
    <3>2. q.pc \in {"assert", "send"} \cup Finished /\ q.kind = request[r].kind
      BY <1>1, <2>3 DEF PublishCheck, PublishAssert, PublishSend, Goto, RequestRecords, Finished
    <3> QED BY <1>4, <3>1, <3>2 DEF Meant, Finished
  <2> QED BY <2>1, <2>2, <2>3 DEF HandlerStep
<1>6. StopsFirst'
  BY <1>3, <1>5 DEF WordsInv, StopsFirst
<1>7. \A s \in Requests :
          /\ Publishing(s)' => request'[s].kind = Meant(request'[s].text)
          /\ request'[s].kind # "none" => Publishing(s)' \/ request'[s].pc \in Finished
  BY <1>3, <1>5 DEF WordsInv, Publishing
<1>8. ASSUME NEW i \in DOMAIN sent'
      PROVE  /\ sent'[i].id \in Requests /\ request'[sent'[i].id].pc = "done"
             /\ sent'[i].kind = request'[sent'[i].id].kind
             /\ sent'[i].kind = Meant(request'[sent'[i].id].text)
  <2>1. CASE i \in DOMAIN sent /\ sent'[i] = sent[i]
    <3>1. request[sent[i].id].pc = "done" /\ sent[i].id \in Requests
      BY <2>1 DEF WordsInv
    <3>2. sent[i].id # r
      BY <1>2, <3>1 DEF Moves, Active, InLoop, Publishing
    <3> QED BY <1>3, <2>1, <3>1, <3>2 DEF WordsInv
  <2>2. CASE ~(i \in DOMAIN sent /\ sent'[i] = sent[i])
    <3> DEFINE message == [id |-> r, kind |-> request[r].kind]
    <3>1. sent' # sent
      BY <2>2
    <3>2. request[r].pc = "send" /\ q.pc = "done" /\ sent' = Append(sent, message)
      BY <1>2, <1>3, <3>1 DEF Moves
    <3>3. message \in [id : Requests, kind : Kinds]
      BY <1>1 DEF RequestRecords
    <3>4. message.id = r /\ message.kind = request[r].kind
      OBVIOUS
    <3> HIDE DEF message
    <3>5. sent'[i] = message
      BY <1>1, <2>2, <3>2, <3>3, AppendProperties
    <3>6. request[r].kind = Meant(request[r].text) /\ q.kind = request[r].kind
      <4>1. Publishing(r)
        BY <3>2 DEF Publishing
      <4>2. PublishSend(r)
        BY <3>2 DEF HandlerStep, Begin, LLMFails, LLMReplies, PublishCheck, PublishAssert
      <4> QED BY <1>1, <4>1, <4>2 DEF WordsInv, PublishSend, Goto, RequestRecords
    <3> QED BY <1>4, <3>2, <3>4, <3>5, <3>6
  <2> QED BY <2>1, <2>2
<1> QED BY <1>6, <1>7, <1>8 DEF WordsInv

\* So does an input: what it says is new, and what it was before was nothing.
LEMMA AskKeepsWords ==
    ASSUME AppInv, WordsInv, NEW text \in Texts,
           NEW place \in {"waiting", "begin", "ignored", "stranded"},
           Ask(text, place), UNCHANGED pubVars,
           request[asked + 1].pc = "none"
    PROVE  WordsInv'
<1>1. /\ request \in [Requests -> RequestRecords] /\ asked + 1 \in Requests
      /\ request' = [request EXCEPT ![asked + 1].pc = place, ![asked + 1].text = text]
  BY InputsAssumption, AskKeepsOrder DEF AppInv, AppTypeOK, Ask
<1>2. \A r \in Requests : r # asked + 1 => request'[r] = request[r]
  BY <1>1
<1>3. request'[asked + 1].pc = place /\ request'[asked + 1].kind = request[asked + 1].kind
  BY <1>1 DEF RequestRecords
<1> QED BY <1>1, <1>2, <1>3, WordsKept DEF Publishing, Finished, Lost, pubVars

\* The end of the event loop says nothing either.
LEMMA EndKeepsWords ==
    ASSUME AppTypeOK, WordsInv, NEW how \in Lost, EndRequests(how), sent' = sent
    PROVE  WordsInv'
<1>1. \A r \in Requests : IF InLoop(r) THEN request'[r] = [request[r] EXCEPT !.pc = how]
                          ELSE request'[r] = request[r]
  BY DEF EndRequests
<1>2. \A r \in Requests : InLoop(r) =>
          request'[r].pc = how /\ request'[r].kind = request[r].kind
  BY <1>1 DEF AppTypeOK, RequestRecords
<1> QED BY <1>1, <1>2, WordsKept DEF InLoop, Publishing, Finished

\* What follows from the invariant
LEMMA WordsDecideSending == WordsInv => SentAsMeant /\ StopsFirst
BY DEF WordsInv, SentAsMeant
=============================================================================
