----------------------------- MODULE ConsoleApp -----------------------------
(***************************************************************************)
(* language/main.py, LanguageApp.run, with input/cli_handler.py: one event *)
(* loop runs the hub connection and the input loop until either ends. A    *)
(* line is read by input() in an executor thread; the next one is not read *)
(* before the request of the last is over. Lines typed meanwhile stay in   *)
(* the terminal.                                                           *)
(***************************************************************************)
EXTENDS LanguageApp

CONSTANTS Starts,       \* what the publisher's start() may come to
          HubMayFail    \* may an exception escape from hub.run()?

ASSUME ConsoleAssumption == Starts \subseteq StartOutcomes /\ HubMayFail \in BOOLEAN

VARIABLES
    typed,              \* lines typed and not read: request numbers, 0 for quit
    quits,              \* the user has typed quit or closed the input
    reader,             \* input_loop: "reading", "handling" or "ended"
    current,            \* the request being handled
    hub,                \* hub.run(): "running" or "failed"
    phase               \* run(): "starting", "running", "stopping", "joining", "exited"

conVars == <<typed, quits, reader, current, hub, phase>>
vars == <<pubVars, appVars, conVars>>

TypeOK ==
    /\ AppTypeOK
    /\ typed \in Seq(0..MaxInputs) /\ quits \in BOOLEAN
    /\ reader \in {"reading", "handling", "ended"} /\ current \in 0..MaxInputs
    /\ hub \in {"running", "failed"}
    /\ phase \in {"starting", "running", "stopping", "joining", "exited"}

Init ==
    /\ AppInit
    /\ typed = <<>> /\ quits = FALSE /\ reader = "reading" /\ current = 0
    /\ hub = "running" /\ phase = "starting"

-----------------------------------------------------------------------------
\* run(): services, then the two tasks; what start() raises ends the process
Launch ==
    \E outcome \in Starts :
        /\ phase = "starting"
        /\ Start(outcome)
        /\ phase' = IF outcome = "fails" THEN "exited" ELSE "running"
        /\ UNCHANGED <<appVars, typed, quits, reader, current, hub>>

\* The user types a line, while the process lives
Type ==
    \E text \in Texts :
        /\ phase # "exited" /\ ~quits
        /\ Ask(text, "waiting")
        /\ typed' = Append(typed, asked + 1)
        /\ UNCHANGED <<pubVars, quits, reader, current, hub, phase>>

\* quit, exit, q, end of input
TypeQuit ==
    /\ phase # "exited" /\ ~quits
    /\ quits' = TRUE /\ typed' = Append(typed, 0)
    /\ UNCHANGED <<pubVars, appVars, reader, current, hub, phase>>

\* Fault: the input loop starts the request and reads on.
ReadsOn(r) == IF r = 0 THEN "ended" ELSE "reading"

\* await on_input(text), or break
AwaitsRequest(r) == IF r = 0 THEN "ended" ELSE "handling"

\* input_loop: read a line and handle it
Read ==
    /\ phase = "running" /\ LoopFree
    /\ reader = "reading" /\ typed # <<>>
    /\ typed' = Tail(typed)
    /\ reader' = AwaitsRequest(Head(typed))
    /\ current' = Head(typed)
    /\ IF Head(typed) = 0 THEN UNCHANGED request ELSE Goto(Head(typed), "begin")
    /\ UNCHANGED <<pubVars, asked, quits, hub, phase>>

Handle ==
    \E r \in Requests : phase = "running" /\ HandlerStep(r) /\ UNCHANGED conVars

\* on_input returns, or raises out of input_loop
RequestDone ==
    /\ phase = "running" /\ LoopFree
    /\ reader = "handling" /\ request[current].pc \in Finished
    /\ reader' = IF request[current].pc = "done" THEN "reading" ELSE "ended"
    /\ request' = [request EXCEPT ![current].told = TRUE]
    /\ UNCHANGED <<pubVars, asked, typed, quits, current, hub, phase>>

\* An exception leaves hub.run()
HubFails ==
    /\ HubMayFail
    /\ phase = "running" /\ LoopFree /\ hub = "running"
    /\ hub' = "failed"
    /\ UNCHANGED <<pubVars, appVars, typed, quits, reader, current, phase>>

\* Fault: run() waits for both of its tasks.
BothOver == reader = "ended" /\ hub = "failed"

\* asyncio.wait(..., FIRST_COMPLETED)
SomeOver == reader = "ended" \/ hub = "failed"

\* The other task is cancelled, and stop_services is called
Wind ==
    /\ phase = "running" /\ LoopFree /\ SomeOver
    /\ EndRequests("cancelled")
    /\ reader' = IF reader = "handling" THEN "ended" ELSE reader
    /\ phase' = "stopping"
    /\ StopBegin
    /\ UNCHANGED <<asked, typed, quits, current, hub>>

\* the rest of publisher.stop(), on this same thread; run() ends with it, also
\* when it raises
Stop == phase = "stopping" /\ StopStep /\ UNCHANGED <<appVars, conVars>>

Stopped ==
    /\ phase = "stopping" /\ stop_pc = "idle"
    /\ phase' = "joining"
    /\ UNCHANGED <<pubVars, appVars, typed, quits, reader, current, hub>>

\* asyncio.run waits for the executor thread, which is still in input() if
\* the input loop was reading: only another line lets it go
Exit ==
    /\ phase = "joining"
    /\ reader = "reading" => typed # <<>>
    /\ phase' = "exited"
    /\ UNCHANGED <<pubVars, appVars, typed, quits, reader, current, hub>>

Terminated == phase = "exited" /\ UNCHANGED vars

LoopStep == Launch \/ Read \/ Handle \/ RequestDone \/ Wind \/ Stop \/ Stopped \/ Exit
Next == LoopStep \/ Type \/ TypeQuit \/ HubFails \/ Terminated

Spec == Init /\ [][Next]_vars

\* The loop runs, and the LLM answers or its client gives up.
FairSpec == Spec /\ WF_vars(LoopStep)

-----------------------------------------------------------------------------
\* publish() never finds its socket gone: on one thread stop() cannot come
\* between its steps (run's `finally` against handle_user_input).
NeverAsserts == \A r \in Requests : request[r].pc # "asserted"

Ending == phase \in {"stopping", "joining", "exited"}

\* A stop the user typed is handed to the publisher in the end, after the
\* request before it, unless the program ends (input_loop).
StopIsPublished ==
    \A r \in Requests :
        IsStopIntent(request[r].text) ~> request[r].kind = "stop" \/ Ending

\* When the user quits, when a request raises out of the input loop, or when the
\* hub connection fails, the process ends, or is down to the one line that
\* input() in the executor thread still waits for (run, asyncio.run).
RunEnds ==
    reader = "ended" \/ hub = "failed" ~>
        phase = "exited" \/ (phase = "joining" /\ reader = "reading" /\ typed = <<>>)
=============================================================================
