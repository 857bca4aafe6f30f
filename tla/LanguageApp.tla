---------------------------- MODULE LanguageApp ----------------------------
(***************************************************************************)
(* language/main.py, LanguageApp.handle_user_input, with                   *)
(* llm/openai_client.py: what one user input does, from the keyword tests  *)
(* through the LLM round trip to the instruction it publishes; Dialogue    *)
(* has the data. The coroutine runs on the asyncio thread and              *)
(* gives way only where it awaits the LLM; publish() is split into its     *)
(* steps because another thread may be inside stop() (InstructionPublisher)*)
(*                                                                         *)
(* Several inputs can be in progress: each is a request, numbered in the   *)
(* order the user gave them. The front ends (DesktopUI, ConsoleApp) decide *)
(* when a coroutine starts and what ends the event loop.                   *)
(***************************************************************************)
EXTENDS InstructionPublisher

CONSTANTS MaxInputs,   \* bound on the inputs of the user
          Texts        \* what inputs say: sets of the intents "stop" and "trash"

ASSUME InputsAssumption == MaxInputs \in Nat /\ Texts \subseteq SUBSET {"stop", "trash"}

VARIABLES request,     \* the requests
          asked        \* how many inputs there were

appVars == <<request, asked>>

Requests == 1..MaxInputs
Kinds == {"none", "stop", "trash"}
Lost == {"ignored", "cancelled", "stranded"}
Finished == {"done", "raised", "asserted"}
Places == {"none", "waiting", "begin", "llm", "check", "assert", "send"}
              \cup Finished \cup Lost

\* pc: where the request is; text: its intents; kind: the command it
\* publishes; told: the front end knows that the coroutine is over
RequestRecords ==
    [pc : Places, text : SUBSET {"stop", "trash"}, kind : Kinds, told : BOOLEAN]

AppInit ==
    /\ PublisherInit
    /\ request = [r \in Requests |->
                     [pc |-> "none", text |-> {}, kind |-> "none", told |-> FALSE]]
    /\ asked = 0

AppTypeOK ==
    /\ enabled \in BOOLEAN /\ socket \in {"none", "unbound", "open", "closed"}
    /\ stop_pc \in {"idle", "close", "clear", "disable", "unwind"} /\ raised \in BOOLEAN
    /\ sent \in Seq([id : Requests, kind : Kinds])
    /\ request \in [Requests -> RequestRecords]
    /\ asked \in 0..MaxInputs

\* The next input of the user, at the place the front end gives it
Ask(text, place) ==
    /\ asked < MaxInputs
    /\ asked' = asked + 1
    /\ request' = [request EXCEPT ![asked + 1].pc = place, ![asked + 1].text = text]

Goto(r, place) == request' = [request EXCEPT ![r].pc = place]
Publish(r, kind) == request' = [request EXCEPT ![r].pc = "check", ![r].kind = kind]

\* Nothing else runs on the asyncio thread while a coroutine is in publish().
LoopFree == \A r \in Requests : request[r].pc \notin {"check", "assert", "send"}

\* Requests the event loop still has to work on
InLoop(r) == request[r].pc \in {"begin", "llm"}

-----------------------------------------------------------------------------
\* _is_stop_intent, _is_trash_intent: some keyword occurs in the text
IsStopIntent(text) == "stop" \in text
IsTrashIntent(text) == "trash" \in text

\* Fault: the stop keywords are not looked at before the LLM.
BeginUnchecked(r) ==
    /\ request[r].pc = "begin" /\ LoopFree
    /\ Goto(r, "llm")
    /\ UNCHANGED <<asked, pubVars>>

\* A stop is published without asking the LLM; anything else waits for it.
Begin(r) ==
    /\ request[r].pc = "begin" /\ LoopFree
    /\ IF IsStopIntent(request[r].text) THEN Publish(r, "stop") ELSE Goto(r, "llm")
    /\ UNCHANGED <<asked, pubVars>>

\* One of the openai errors is reported; any other exception escapes.
LLMFails(r) ==
    /\ request[r].pc = "llm" /\ LoopFree
    /\ \E end \in {"done", "raised"} : Goto(r, end)
    /\ UNCHANGED <<asked, pubVars>>

\* Fault: the command in the reply is published.
CommandSent(command) == command

\* the TRASH_GATHER command, whatever command the reply has
TriggerSent(command) == "trash"

\* The answer is shown; the reply's command is not used: only the keywords of
\* the user's own text decide whether the robot is triggered.
LLMReplies(r) ==
    \E command \in {"none", "stop", "other"} :
        /\ request[r].pc = "llm" /\ LoopFree
        /\ IF IsTrashIntent(request[r].text) THEN Publish(r, TriggerSent(command))
           ELSE Goto(r, "done")
        /\ UNCHANGED <<asked, pubVars>>

\* Fault: publish() does not look at the flag.
PublishUnchecked(r) ==
    /\ request[r].pc = "check"
    /\ Goto(r, "assert")
    /\ UNCHANGED <<asked, pubVars>>

\* publish(): if not self._enabled: return False
PublishCheck(r) ==
    /\ request[r].pc = "check"
    /\ Goto(r, IF enabled THEN "assert" ELSE "done")
    /\ UNCHANGED <<asked, pubVars>>

\* publish(): assert self._socket is not None
PublishAssert(r) ==
    /\ request[r].pc = "assert"
    /\ Goto(r, IF socket # "none" THEN "send" ELSE "asserted")
    /\ UNCHANGED <<asked, pubVars>>

\* publish(): send, swallow any failure, return True
PublishSend(r) ==
    /\ request[r].pc = "send"
    /\ Transmit([id |-> r, kind |-> request[r].kind])
    /\ Goto(r, "done")
    /\ UNCHANGED asked

HandlerStep(r) ==
    \/ Begin(r) \/ LLMFails(r) \/ LLMReplies(r)
    \/ PublishCheck(r) \/ PublishAssert(r) \/ PublishSend(r)

\* The event loop ends: its coroutines never continue.
EndRequests(how) ==
    request' = [r \in Requests |->
                   IF InLoop(r) THEN [request[r] EXCEPT !.pc = how] ELSE request[r]]

-----------------------------------------------------------------------------
\* What the other side of the channel sees is an ordered outbox: instructions
\* leave in the order the user gave the inputs, at most one for each. A trigger
\* that was still waiting for the LLM never follows a stop given after it,
\* which would start the robot again (handle_user_input and the front ends).
Outbox == INSTANCE OrderedOutbox
ImplementsOutbox == Outbox!Spec
=============================================================================
