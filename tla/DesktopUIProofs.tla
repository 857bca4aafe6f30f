-------------------------- MODULE DesktopUIProofs --------------------------
(***************************************************************************)
(* Theorems about DesktopUI: whatever the Tk thread and the loop thread do *)
(* in between each other's steps, publish() finds its socket until the     *)
(* window is closed, the publisher has let go of it when the window is     *)
(* gone, and instructions leave in the order of the inputs.                *)
(***************************************************************************)
EXTENDS DesktopUI, LanguageAppProofs

\* A coroutine is not over, or nobody has been told.
Untold(r) == Active(r) \/ (request[r].pc \in Finished /\ ~request[r].told)

\* While a coroutine is not over, or its end was not told, the input line is
\* locked and no unlocking is queued; so there is one at most.
OneRequest ==
    /\ \A r \in Requests : Untold(r) => busy /\ ~unbusy
    /\ \A r, s \in Requests : Untold(r) /\ Untold(s) => r = s
    /\ unbusy => busy

\* stop() runs only while the window is closing, and at its end the flag is
\* clear, or close() has raised; before that a request that has seen the flag
\* set finds it set. There is no window with a socket that was not bound.
StopsOnClose ==
    /\ window \in {"starting", "failed", "open"} =>
          /\ stop_pc = "idle" /\ ~raised
          /\ \A r \in Requests : request[r].pc = "assert" => enabled
    /\ window \in {"closing", "destroyed"} /\ stop_pc = "idle" => (enabled => raised)
    /\ window = "destroyed" => stop_pc = "idle"
    /\ socket = "unbound" => window = "failed"

DesktopInv == AppInv /\ TypeOK /\ OneRequest /\ StopsOnClose /\ AssertsOnlyOnClose

-----------------------------------------------------------------------------
\* The invariant holds before the window is there.
LEMMA DesktopInitInv == Init => DesktopInv
<1> SUFFICES ASSUME Init PROVE DesktopInv
  OBVIOUS
<1>1. AppInv
  BY AppInitInv DEF Init
<1>2. TypeOK
  BY <1>1 DEF Init, AppInv, TypeOK
<1>3. \A r \in Requests : request[r].pc = "none"
  BY DEF Init, AppInit
<1>4. OneRequest
  <2>1. \A r \in Requests : ~Untold(r)
    BY <1>3 DEF Untold, Active, InLoop, Publishing, Finished
  <2> QED BY <2>1 DEF Init, OneRequest
<1>5. StopsOnClose /\ AssertsOnlyOnClose
  BY <1>3 DEF Init, AppInit, PublisherInit, StopsOnClose, AssertsOnlyOnClose
<1> QED BY <1>1, <1>2, <1>4, <1>5 DEF DesktopInv

\* Facts about the state that the steps below use
LEMMA DesktopFacts ==
    ASSUME DesktopInv
    PROVE  /\ AppInv /\ AppTypeOK /\ PublisherInv /\ request \in [Requests -> RequestRecords]
           /\ enabled \in BOOLEAN /\ socket \in {"none", "unbound", "open", "closed"}
           /\ stop_pc \in {"idle", "close", "clear", "disable", "unwind"} /\ raised \in BOOLEAN
           /\ window \in {"starting", "failed", "open", "closing", "destroyed"}
           /\ busy \in BOOLEAN /\ unbusy \in BOOLEAN
BY DEF DesktopInv, AppInv, AppTypeOK, TypeOK

\* A step of the request in progress, on the loop thread
LEMMA HandleKeeps ==
    ASSUME DesktopInv, Handle
    PROVE  DesktopInv' /\ [Outbox!Next]_sent
<1>1. PICK r \in Requests : HandlerStep(r)
  BY DEF Handle
<1>2. PICK q \in RequestRecords : Moves(r, q)
  BY <1>1, DesktopFacts, HandlerMoves DEF AppInv
<1>3. Active(r) /\ Untold(r) /\ \A s \in Requests : Untold(s) => s = r
  BY <1>2 DEF Moves, DesktopInv, OneRequest, Untold
<1>4. AppInv' /\ [Outbox!Next]_sent
  BY <1>2, <1>3, MovesInOrder, DesktopFacts DEF Untold
<1>5. UNCHANGED <<window, busy, unbusy, loop, cancel, asked, enabled, socket, stop_pc, raised>>
  BY <1>2 DEF Handle, Moves, uiVars
<1>6. TypeOK'
  BY <1>4, <1>5 DEF AppInv, DesktopInv, TypeOK
<1>7. /\ request'[r] = q /\ \A s \in Requests : s # r => request'[s] = request[s]
  BY <1>2, DesktopFacts DEF Moves
<1>8. OneRequest'
  <2>1. \A s \in Requests : Untold(s)' => s = r
    BY <1>3, <1>7 DEF Untold, Active, InLoop, Publishing
  <2> QED BY <1>3, <1>5, <2>1 DEF DesktopInv, OneRequest
<1>9. StopsOnClose'
  BY <1>2, <1>5, <1>7 DEF Moves, DesktopInv, StopsOnClose
<1>10. AssertsOnlyOnClose'
  <2>1. CASE window \in {"closing", "destroyed"}
    BY <1>5, <2>1 DEF AssertsOnlyOnClose
  <2>2. CASE window \in {"starting", "failed", "open"}
    <3>1. request[r].pc = "assert" => socket = "open"
      BY <2>2, DesktopFacts DEF DesktopInv, StopsOnClose, PublisherInv
    <3> QED BY <1>2, <1>5, <1>7, <2>2, <3>1 DEF Moves, DesktopInv, AssertsOnlyOnClose
  <2> QED BY <2>1, <2>2, DesktopFacts
<1> QED BY <1>4, <1>6, <1>8, <1>9, <1>10 DEF DesktopInv

\* An input, taken or ignored
LEMMA SubmitKeeps ==
    ASSUME DesktopInv, SubmitIgnored \/ Submit
    PROVE  DesktopInv' /\ [Outbox!Next]_sent
<1>1. PICK text \in Texts, place \in {"begin", "ignored", "stranded"} :
            /\ Ask(text, place) /\ UNCHANGED <<pubVars, window, unbusy, loop, cancel>>
            /\ \/ place = "ignored" /\ busy' = busy
               \/ ~busy /\ busy' = TRUE
  BY DEF SubmitIgnored, Submit, NotBusy, uiVars
<1> DEFINE n == asked + 1
<1>2. /\ AppInv' /\ [Outbox!Next]_sent
      /\ n \in Requests /\ request'[n].pc = place
      /\ \A r \in Requests : r # n => request'[r] = request[r]
  BY <1>1, DesktopFacts, AskKeepsOrder
<1> HIDE DEF n
<1>3. UNCHANGED <<enabled, socket, stop_pc, raised>> /\ busy' \in BOOLEAN
  BY <1>1, DesktopFacts DEF pubVars
<1>4. TypeOK'
  BY <1>1, <1>2, <1>3 DEF AppInv, DesktopInv, TypeOK
<1>5. OneRequest'
  <2>1. \A r \in Requests : Untold(r)' => IF r = n THEN place = "begin" ELSE Untold(r)
    BY <1>2 DEF Untold, Active, InLoop, Publishing, Finished
  <2>2. CASE busy
    BY <1>1, <2>1, <2>2 DEF DesktopInv, OneRequest
  <2>3. CASE ~busy
    <3>1. ~unbusy /\ \A r \in Requests : ~Untold(r)
      BY <2>3 DEF DesktopInv, OneRequest
    <3> QED BY <1>1, <2>1, <2>3, <3>1 DEF OneRequest
  <2> QED BY <2>2, <2>3
<1>6. StopsOnClose' /\ AssertsOnlyOnClose'
  BY <1>1, <1>2, <1>3 DEF DesktopInv, StopsOnClose, AssertsOnlyOnClose
<1> QED BY <1>2, <1>4, <1>5, <1>6 DEF DesktopInv

\* Steps that send nothing and start no coroutine: what they must keep is what
\* each of them could disturb.
LEMMA QuietKeeps ==
    ASSUME DesktopInv, PublisherInv', OneRequest', StopsOnClose', AssertsOnlyOnClose',
           enabled' \in BOOLEAN, socket' \in {"none", "unbound", "open", "closed"},
           stop_pc' \in {"idle", "close", "clear", "disable", "unwind"} /\ raised' \in BOOLEAN,
           UNCHANGED <<asked, sent>>, request' \in [Requests -> RequestRecords],
           \A r \in Requests : Active(r)' => Active(r),
           \A r \in Requests :
               Publishing(r)' => Publishing(r) /\ request'[r].kind = request[r].kind,
           window' \in {"starting", "failed", "open", "closing", "destroyed"},
           busy' \in BOOLEAN, unbusy' \in BOOLEAN, cancel' \in BOOLEAN,
           loop' \in {"none", "running", "closed"}
    PROVE  DesktopInv' /\ [Outbox!Next]_sent
<1>1. AppInv' /\ [Outbox!Next]_sent
  BY DesktopFacts, OthersKeepOrder
<1> QED BY <1>1 DEF DesktopInv, AppInv, TypeOK

\* The publisher's start and stop, on the Tk thread
LEMMA PublisherKeeps ==
    ASSUME DesktopInv, Open \/ Close \/ Stop
    PROVE  DesktopInv' /\ [Outbox!Next]_sent
<1>1. /\ (\E outcome \in StartOutcomes : Start(outcome)) \/ StopBegin \/ StopStep
      /\ UNCHANGED <<appVars, busy, unbusy>>
  BY UIAssumption DEF Open, Close, Stop, uiVars
<1>2. /\ PublisherInv' /\ enabled' \in BOOLEAN
      /\ socket' \in {"none", "unbound", "open", "closed"}
      /\ stop_pc' \in {"idle", "close", "clear", "disable", "unwind"}
      /\ raised' \in BOOLEAN /\ sent' = sent
  BY <1>1, DesktopFacts, PublisherSteps, PublisherTypes
<1>3. request' = request /\ asked' = asked
  BY <1>1 DEF appVars
<1>4. \A r \in Requests : (Active(r)' <=> Active(r)) /\ (Publishing(r)' <=> Publishing(r))
  BY <1>3 DEF Active, InLoop, Publishing
<1>5. OneRequest'
  BY <1>1, <1>3, <1>4 DEF DesktopInv, OneRequest, Untold
<1>6. /\ window' \in {"starting", "failed", "open", "closing", "destroyed"}
      /\ cancel' \in BOOLEAN /\ loop' \in {"none", "running", "closed"}
      /\ StopsOnClose'
  <2>1. CASE Open
    <3>1. PICK outcome \in StartOutcomes :
              /\ Start(outcome) /\ window = "starting"
              /\ IF outcome = "fails" THEN window' = "failed" /\ loop' = loop
                 ELSE window' = "open" /\ loop' = "running"
              /\ cancel' = cancel
      BY <2>1, UIAssumption DEF Open
    <3>2. /\ stop_pc = "idle" /\ ~raised /\ socket # "unbound"
          /\ \A r \in Requests : request[r].pc = "assert" => enabled
      BY <3>1 DEF DesktopInv, StopsOnClose
    <3>3. /\ stop_pc' = "idle" /\ ~raised' /\ (enabled => enabled')
          /\ socket' = "unbound" => outcome = "fails"
      BY <3>1, <3>2, DesktopFacts DEF Start, StartOutcomes
    <3>4. \A r \in Requests : request'[r].pc = "assert" => enabled'
      BY <1>3, <3>2, <3>3
    <3>5. StopsOnClose'
      BY <3>1, <3>3, <3>4 DEF StopsOnClose
    <3> QED BY <3>1, <3>5 DEF DesktopInv, TypeOK
  <2>2. CASE Close
    BY <1>3, <2>2 DEF Close, TkFree, StopBegin, DesktopInv, TypeOK, StopsOnClose
  <2>3. CASE Stop
    <3>1. window' = window /\ cancel' = cancel /\ loop' = loop
      BY <2>3 DEF Stop, uiVars
    <3>2. window = "closing"
      BY <2>3, DesktopFacts
      DEF Stop, StopStep, StopClose, StopClear, StopDisable, DesktopInv, StopsOnClose
    <3>3. (stop_pc' = "idle" => (enabled' => raised')) /\ socket' # "unbound"
      BY <2>3, <3>2, DesktopFacts
      DEF Stop, StopStep, StopClose, StopClear, StopDisable, PublisherInv, DesktopInv, StopsOnClose
    <3> QED BY <3>1, <3>2, <3>3 DEF DesktopInv, TypeOK, StopsOnClose
  <2> QED BY <2>1, <2>2, <2>3
<1>7. AssertsOnlyOnClose'
  BY <1>3 DEF Open, Close, Stop, uiVars, DesktopInv, AssertsOnlyOnClose
<1> QED BY <1>1, <1>2, <1>3, <1>4, <1>5, <1>6, <1>7, QuietKeeps, DesktopFacts

\* The callbacks between the threads, and the end of the loop
LEMMA CallbacksKeep ==
    ASSUME DesktopInv, ClearBusy \/ Destroy \/ RequestDone \/ CancelAll \/ HubFails
    PROVE  DesktopInv' /\ [Outbox!Next]_sent
<1>1. UNCHANGED <<enabled, socket, stop_pc, raised, sent, asked>>
  BY DEF ClearBusy, Destroy, RequestDone, CancelAll, HubFails, pubVars, appVars
<1>2. /\ PublisherInv'
      /\ window' \in {"starting", "failed", "open", "closing", "destroyed"}
      /\ busy' \in BOOLEAN /\ unbusy' \in BOOLEAN /\ cancel' \in BOOLEAN
      /\ loop' \in {"none", "running", "closed"}
  BY <1>1, DesktopFacts
  DEF ClearBusy, Destroy, RequestDone, CancelAll, HubFails, PublisherInv, DesktopInv, TypeOK
<1>3. CASE ClearBusy
  <2>1. request' = request /\ ~busy' /\ ~unbusy' /\ unbusy /\ window' = window
    BY <1>3 DEF ClearBusy, appVars
  <2>2. \A r \in Requests : (Untold(r)' <=> Untold(r)) /\ (Active(r)' <=> Active(r))
                            /\ (Publishing(r)' <=> Publishing(r))
    BY <2>1 DEF Untold, Active, InLoop, Publishing
  <2>3. OneRequest' /\ StopsOnClose' /\ AssertsOnlyOnClose'
    BY <1>1, <2>1, <2>2 DEF DesktopInv, OneRequest, StopsOnClose, AssertsOnlyOnClose
  <2> QED BY <1>1, <1>2, <2>1, <2>2, <2>3, QuietKeeps, DesktopFacts
<1>4. CASE Destroy
  <2>1. /\ request' = request /\ busy' = busy /\ unbusy' = unbusy
        /\ window = "closing" /\ window' = "destroyed" /\ stop_pc = "idle"
    BY <1>4 DEF Destroy, TkFree, appVars
  <2>2. \A r \in Requests : (Untold(r)' <=> Untold(r)) /\ (Active(r)' <=> Active(r))
                            /\ (Publishing(r)' <=> Publishing(r))
    BY <2>1 DEF Untold, Active, InLoop, Publishing
  <2>3. OneRequest' /\ StopsOnClose' /\ AssertsOnlyOnClose'
    BY <1>1, <2>1, <2>2 DEF DesktopInv, OneRequest, StopsOnClose, AssertsOnlyOnClose
  <2> QED BY <1>1, <1>2, <2>1, <2>2, <2>3, QuietKeeps, DesktopFacts
<1>5. CASE RequestDone
  <2>1. PICK r \in Requests :
            /\ request[r].pc \in Finished /\ ~request[r].told
            /\ request' = [request EXCEPT ![r].told = TRUE]
            /\ unbusy' = TRUE /\ UNCHANGED <<window, busy>>
    BY <1>5 DEF RequestDone, ToldWhen
  <2>2. PICK q \in RequestRecords :
            /\ request' = [request EXCEPT ![r] = q]
            /\ q.pc = request[r].pc /\ q.kind = request[r].kind /\ q.told
    <3>1. request[r] \in RequestRecords
      BY DesktopFacts
    <3>2. [request[r] EXCEPT !.told = TRUE] \in RequestRecords
      BY <3>1 DEF RequestRecords
    <3>3. request' = [request EXCEPT ![r] = [request[r] EXCEPT !.told = TRUE]]
      BY <2>1
    <3> QED BY <3>1, <3>2, <3>3 DEF RequestRecords
  <2>3. /\ request' \in [Requests -> RequestRecords] /\ request'[r] = q
        /\ \A s \in Requests : s # r => request'[s] = request[s]
    BY <2>2, DesktopFacts
  <2>4. /\ \A s \in Requests : request'[s].pc = request[s].pc /\ request'[s].kind = request[s].kind
        /\ \A s \in Requests : (Active(s)' <=> Active(s)) /\ (Publishing(s)' <=> Publishing(s))
    BY <2>2, <2>3 DEF Active, InLoop, Publishing
  <2>5. busy /\ \A s \in Requests : Untold(s) => s = r
    BY <2>1 DEF DesktopInv, OneRequest, Untold
  <2>6. \A s \in Requests : ~Untold(s)'
    BY <2>1, <2>2, <2>3, <2>4, <2>5 DEF Untold, Active, InLoop, Publishing, Finished
  <2>7. OneRequest' /\ StopsOnClose' /\ AssertsOnlyOnClose'
    BY <1>1, <2>1, <2>4, <2>5, <2>6 DEF DesktopInv, OneRequest, StopsOnClose, AssertsOnlyOnClose
  <2> QED BY <1>1, <1>2, <2>3, <2>4, <2>7, QuietKeeps, DesktopFacts
<1>6. CASE CancelAll \/ HubFails
  <2>1. PICK how \in Lost : LoopFree /\ EndRequests(how)
    BY <1>6 DEF CancelAll, HubFails, Lost
  <2>2. /\ request' \in [Requests -> RequestRecords]
        /\ \A r \in Requests : ~Active(r)'
        /\ \A r \in Requests : request'[r].pc \in Finished => request'[r] = request[r]
    BY <2>1, DesktopFacts, LoopEnds
  <2>3. UNCHANGED <<window, busy, unbusy>>
    BY <1>6 DEF CancelAll, HubFails
  <2>4. \A r \in Requests : Untold(r)' => Untold(r)
    BY <2>2 DEF Untold
  <2>5. OneRequest' /\ StopsOnClose' /\ AssertsOnlyOnClose'
    BY <1>1, <2>2, <2>3, <2>4
    DEF DesktopInv, OneRequest, StopsOnClose, AssertsOnlyOnClose, Finished, Active, Publishing
  <2> QED BY <1>1, <1>2, <2>2, <2>5, QuietKeeps, DesktopFacts DEF Active
<1> QED BY <1>3, <1>4, <1>5, <1>6

\* Every step keeps the invariant, and is a step of the ordered outbox or sends
\* nothing.
LEMMA DesktopStep ==
    ASSUME DesktopInv, [Next]_vars
    PROVE  DesktopInv' /\ [Outbox!Next]_sent
<1>1. CASE Terminated \/ UNCHANGED vars
  <2>1. UNCHANGED <<enabled, socket, stop_pc, raised, sent, request, asked, window, busy,
                    unbusy, loop, cancel>>
    BY <1>1 DEF Terminated, vars, pubVars, appVars, uiVars
  <2>2. \A r \in Requests : (Untold(r)' <=> Untold(r)) /\ (Active(r)' <=> Active(r))
                            /\ (Publishing(r)' <=> Publishing(r))
    BY <2>1 DEF Untold, Active, InLoop, Publishing
  <2>3. PublisherInv' /\ OneRequest' /\ StopsOnClose' /\ AssertsOnlyOnClose'
    BY <2>1, <2>2, DesktopFacts
    DEF DesktopInv, PublisherInv, OneRequest, StopsOnClose, AssertsOnlyOnClose
  <2> QED BY <2>1, <2>2, <2>3, QuietKeeps, DesktopFacts DEF DesktopInv, TypeOK
<1> QED BY <1>1, HandleKeeps, SubmitKeeps, PublisherKeeps, CallbacksKeep
     DEF Next, TkStep, LoopStep

\* The invariant holds in every reachable state.
LEMMA DesktopInvariance == Spec => []DesktopInv
BY DesktopInitInv, DesktopStep, PTL DEF Spec

-----------------------------------------------------------------------------
\* Every variable of the window, the loop, the coroutines and the publisher
\* keeps its type (LanguageUI, handle_user_input, publish, stop).
THEOREM DesktopTypeCorrect == Spec => []TypeOK
BY DesktopInvariance, PTL DEF DesktopInv

\* publish() on the loop thread finds its socket gone only once the window is
\* being closed, in every interleaving with stop() on the Tk thread (_on_close).
THEOREM DesktopAssertsOnlyOnClose == Spec => []AssertsOnlyOnClose
BY DesktopInvariance, PTL DEF DesktopInv

\* When the window is gone the publisher has let go of its socket, whatever was
\* being published, and its flag is clear unless close() raised (_on_close, stop).
THEOREM DesktopReleases == Spec => []ReleasedAtEnd
<1>1. DesktopInv => ReleasedAtEnd
  BY DesktopFacts DEF DesktopInv, StopsOnClose, PublisherInv, ReleasedAtEnd
<1> QED BY <1>1, DesktopInvariance, PTL

\* The desktop front end implements the ordered outbox: at most one instruction
\* for each input, in the order of the inputs (_busy, _on_request_done).
THEOREM DesktopImplementsOutbox == Spec => ImplementsOutbox
<1>1. Init => Outbox!Init
  BY DEF Init, AppInit, PublisherInit, Outbox!Init
<1>2. DesktopInv /\ [Next]_vars => [Outbox!Next]_sent
  BY DesktopStep
<1> QED BY <1>1, <1>2, DesktopInvariance, PTL DEF Spec, ImplementsOutbox, Outbox!Spec
-----------------------------------------------------------------------------
(* The input line: what locks it.                                          *)

\* While the event loop lives, the input line is locked exactly as long as
\* something will unlock it: a request is not over, or its end has not been
\* told, or _set_busy(False) is queued (_busy of LanguageUI).
LockIsOwed == loop = "running" => (busy <=> unbusy \/ \E r \in Requests : Untold(r))

\* Inputs to come are not started, only what is over has been told, and the
\* loop is there as soon as there is a window.
LockInv ==
    /\ \A r \in Requests : r > asked => request[r].pc = "none"
    /\ \A r \in Requests : request[r].told => request[r].pc \in Finished
    /\ loop = "none" <=> window \in {"starting", "failed"}
    /\ busy /\ loop # "closed" => unbusy \/ \E r \in Requests : Untold(r)

\* A coroutine does not tell anybody that it is over.
LEMMA HandlerTellsNobody ==
    ASSUME AppTypeOK, NEW r \in Requests, HandlerStep(r), NEW s \in Requests
    PROVE  request'[s].told = request[s].told
<1>1. request \in [Requests -> RequestRecords] /\ request[s] \in RequestRecords
  BY DEF AppTypeOK
<1> QED
  BY <1>1 DEF HandlerStep, Begin, LLMFails, LLMReplies, PublishCheck, PublishAssert, PublishSend,
              Publish, Goto, RequestRecords

\* A step of a coroutine leaves its end to be told.
LEMMA HandleOwes ==
    ASSUME DesktopInv, LockInv, Handle
    PROVE  LockInv'
<1>1. PICK r \in Requests : HandlerStep(r)
  BY DEF Handle
<1>2. PICK q \in RequestRecords : Moves(r, q)
  BY <1>1, DesktopFacts, HandlerMoves DEF AppInv
<1>3. /\ request'[r] = q /\ \A s \in Requests : s # r => request'[s] = request[s]
      /\ UNCHANGED <<window, busy, unbusy, loop, asked>>
  BY <1>2, DesktopFacts DEF Handle, Moves, uiVars
<1>4. Active(r) /\ ~request[r].told /\ ~(r > asked)
  BY <1>2 DEF Moves, LockInv, Active, InLoop, Publishing, Finished
<1>5. ~request'[r].told
  BY <1>1, <1>4, HandlerTellsNobody, DesktopFacts
<1>6. Untold(r)'
  BY <1>2, <1>3, <1>5 DEF Moves, Untold, Active, InLoop, Publishing
<1> QED BY <1>3, <1>4, <1>5, <1>6 DEF LockInv

\* An input that locks the line starts a request, if the loop is there.
LEMMA SubmitOwes ==
    ASSUME DesktopInv, LockInv, SubmitIgnored \/ Submit
    PROVE  LockInv'
<1>1. PICK text \in Texts, place \in {"begin", "ignored", "stranded"} :
            /\ Ask(text, place) /\ UNCHANGED <<pubVars, window, unbusy, loop, cancel>>
            /\ TkFree
            /\ \/ place = "ignored" /\ busy /\ busy' = busy
               \/ /\ place = (IF loop = "running" THEN "begin" ELSE "stranded")
                  /\ busy' = TRUE /\ ~busy
  BY DEF SubmitIgnored, Submit, NotBusy, uiVars
<1>2. PICK n \in Requests :
         /\ n = asked + 1 /\ request'[n].pc = place
         /\ \A r \in Requests : r # n => request'[r] = request[r]
  BY <1>1, DesktopFacts, AskKeepsOrder
<1>3. asked' = n /\ asked \in Nat /\ \A r \in Requests : r \in Nat
  BY <1>1, <1>2, DesktopFacts, InputsAssumption DEF Ask, AppTypeOK, Requests
<1>4. ~request'[n].told
  <2>1. request[n] \in RequestRecords /\ ~request[n].told
    BY <1>2, <1>3, DesktopFacts DEF LockInv, Finished
  <2>2. request'[n] = [request[n] EXCEPT !.pc = place, !.text = text]
    BY <1>1, <1>2, DesktopFacts DEF Ask
  <2> QED BY <2>1, <2>2 DEF RequestRecords
<1>5. request[n].pc = "none"
  BY <1>2, <1>3 DEF LockInv
<1>6. \A r \in Requests : r > n => request'[r].pc = "none"
  BY <1>2, <1>3 DEF LockInv
<1>7. \A r \in Requests : Untold(r) => Untold(r)'
  BY <1>2, <1>5 DEF Untold, Active, InLoop, Publishing, Finished
<1>8. loop = "running" \/ loop = "closed"
  BY <1>1 DEF TkFree, LockInv, DesktopInv, TypeOK
<1>9. /\ loop' = loop /\ window' = window /\ unbusy' = unbusy
      /\ busy \in BOOLEAN /\ (~busy /\ loop = "running" => place = "begin")
  BY <1>1, DesktopFacts
<1>10. loop = "running" /\ ~busy => Untold(n)'
  BY <1>2, <1>9 DEF Untold, Active, InLoop
<1>11. loop' # "closed" => unbusy' \/ \E r \in Requests : Untold(r)'
  BY <1>2, <1>7, <1>8, <1>9, <1>10 DEF LockInv
<1>12. \A r \in Requests : request'[r].told => request'[r].pc \in Finished
  BY <1>2, <1>4 DEF LockInv
<1> QED BY <1>3, <1>6, <1>9, <1>11, <1>12 DEF LockInv

\* The callbacks and the end of the loop: a line that stays locked has its
\* unlocking queued, or no loop any more.
LEMMA CallbacksOwe ==
    ASSUME DesktopInv, LockInv, [Next]_vars, ~Handle, ~SubmitIgnored, ~Submit
    PROVE  LockInv'
<1>1. CASE RequestDone
  <2>1. PICK r \in Requests :
            /\ request[r].pc \in Finished
            /\ request' = [request EXCEPT ![r].told = TRUE]
            /\ unbusy' = TRUE /\ UNCHANGED <<asked, window, loop>>
    BY <1>1 DEF RequestDone, ToldWhen
  <2>2. \A s \in Requests : /\ request'[s].pc = request[s].pc
                            /\ s # r => request'[s] = request[s]
    BY <2>1, DesktopFacts DEF RequestRecords
  <2> QED BY <2>1, <2>2 DEF LockInv
<1>2. CASE CancelAll \/ HubFails
  <2>1. PICK how \in Lost : EndRequests(how)
    BY <1>2 DEF CancelAll, HubFails, Lost
  <2>2. loop = "running" /\ loop' = "closed" /\ UNCHANGED <<asked, window>>
    BY <1>2 DEF CancelAll, HubFails, LoopRuns
  <2>3. \A r \in Requests : request'[r] = IF InLoop(r) THEN [request[r] EXCEPT !.pc = how]
                                           ELSE request[r]
    BY <2>1 DEF EndRequests
  <2>4. ASSUME NEW r \in Requests
        PROVE  /\ r > asked => request'[r].pc = "none"
               /\ request'[r].told => request'[r].pc \in Finished
    <3>1. CASE InLoop(r)
      <4>1. ~request[r].told /\ ~(r > asked)
        BY <3>1 DEF LockInv, InLoop, Finished
      <4>2. request[r] \in RequestRecords
        BY DesktopFacts
      <4> QED BY <2>3, <3>1, <4>1, <4>2 DEF RequestRecords
    <3> QED BY <2>3, <3>1 DEF LockInv
  <2> QED BY <2>2, <2>4 DEF LockInv
<1>3. CASE Open \/ Close \/ Stop \/ Destroy \/ Terminated \/ UNCHANGED vars
  <2>1. request' = request /\ asked' = asked /\ busy' = busy /\ unbusy' = unbusy
    BY <1>3 DEF Open, Close, Stop, Destroy, Terminated, appVars, uiVars, vars
  <2>2. \A r \in Requests : Untold(r)' <=> Untold(r)
    BY <2>1 DEF Untold, Active, InLoop, Publishing
  <2>3. /\ loop' = "none" <=> window' \in {"starting", "failed"}
        /\ loop' = "closed" <=> loop = "closed"
    BY <1>3 DEF Open, Close, Stop, Destroy, Terminated, uiVars, vars, TkFree, LockInv
  <2> QED BY <2>1, <2>2, <2>3 DEF LockInv
<1>4. CASE ClearBusy
  BY <1>4 DEF ClearBusy, appVars, LockInv
<1> QED BY <1>1, <1>2, <1>3, <1>4, ~Handle, ~SubmitIgnored, ~Submit DEF Next, TkStep, LoopStep

\* The line is free before the window is there.
LEMMA LockInitInv == Init => LockInv
BY DEF Init, AppInit, LockInv, Finished

\* Every step keeps what is owed to the line.
LEMMA LockStep == DesktopInv /\ LockInv /\ [Next]_vars => LockInv'
BY HandleOwes, SubmitOwes, CallbacksOwe

\* The input line is never locked for good while the loop lives: in every
\* state a request, its end or the unlocking is still to come, and none of them
\* while the line is free (_on_submit, _on_request_done, _set_busy, _on_close).
THEOREM LockedLineIsOwed == Spec => []LockIsOwed
<1>1. DesktopInv /\ LockInv => LockIsOwed
  BY DEF DesktopInv, OneRequest, LockInv, LockIsOwed
<1> QED BY <1>1, LockInitInv, LockStep, DesktopInvariance, PTL DEF Spec

-----------------------------------------------------------------------------
(* What the words decide, on two threads.                                  *)

\* Whatever the threads do, the words of an input decide what is sent for it.
LEMMA DesktopKeepsWords ==
    ASSUME DesktopInv, LockInv, WordsInv, [Next]_vars
    PROVE  WordsInv'
<1>1. CASE Handle
  BY <1>1, HandlerKeepsWords, DesktopFacts DEF Handle
<1>2. CASE SubmitIgnored \/ Submit
  <2>1. PICK text \in Texts, place \in {"begin", "ignored", "stranded"} :
            Ask(text, place) /\ UNCHANGED pubVars
    BY <1>2 DEF SubmitIgnored, Submit
  <2>2. asked + 1 \in Requests /\ asked + 1 > asked
    BY <2>1, DesktopFacts, InputsAssumption DEF Ask, AppTypeOK, Requests
  <2> QED BY <2>1, <2>2, AskKeepsWords, DesktopFacts DEF LockInv
<1>3. CASE RequestDone
  <2>1. PICK r \in Requests : request' = [request EXCEPT ![r].told = TRUE] /\ UNCHANGED pubVars
    BY <1>3 DEF RequestDone
  <2>2. \A s \in Requests : /\ request'[s].pc = request[s].pc /\ request'[s].kind = request[s].kind
                            /\ request'[s].text = request[s].text
    BY <2>1, DesktopFacts DEF RequestRecords
  <2> QED BY <2>1, <2>2, WordsKept DEF pubVars
<1>4. CASE CancelAll \/ HubFails
  BY <1>4, EndKeepsWords, DesktopFacts DEF CancelAll, HubFails, Lost, pubVars
<1>5. CASE Open \/ ClearBusy \/ Close \/ Stop \/ Destroy \/ Terminated \/ UNCHANGED vars
  <2>1. request' = request /\ sent' = sent
    BY <1>5 DEF Open, ClearBusy, Close, Stop, Destroy, Terminated, Start, StopBegin, StopStep,
                StopClose, StopClear, StopDisable, appVars, pubVars, vars
  <2> QED BY <2>1, WordsKept
<1> QED BY <1>1, <1>2, <1>3, <1>4, <1>5 DEF Next, TkStep, LoopStep

\* The desktop sends for an input what its words ask for, and nothing the LLM
\* makes up; a stop that is taken never waits for the LLM (_on_submit to publish).
THEOREM DesktopSendsAsMeant == Spec => [](SentAsMeant /\ StopsFirst)
<1>1. Init => LockInv /\ WordsInv
  BY LockInitInv, WordsInit DEF Init
<1>2. DesktopInv /\ LockInv /\ WordsInv /\ [Next]_vars => LockInv' /\ WordsInv'
  BY LockStep, DesktopKeepsWords
<1> QED BY <1>1, <1>2, WordsDecideSending, DesktopInvariance, PTL DEF Spec
=============================================================================
