-------------------------- MODULE HubClientProofs --------------------------
(***************************************************************************)
(* Proofs about HubClient, for every limit of retries, with rejected       *)
(* handshakes or without, and for any number of frames and outages.        *)
(*                                                                         *)
(* Counted: the client's counter is the number of failures since it was    *)
(* last connected. Signalled: while the event is set there is a            *)
(* connection object, and for a send that was let through one is missing   *)
(* only if the connection failed since. Ordered: frames are numbered       *)
(* upwards along the way from the vision context over the waiting tasks to *)
(* the inbox.                                                              *)
(***************************************************************************)
EXTENDS HubClient, SequenceTheorems, TLAPS

\* The counter counts what it is for, and the client gave up rightly.
Counted == retries = failures /\ GivesUpAtLimit

Signalled ==
    /\ connected => ws # "none"
    /\ call = "woken" /\ ws = "none" => cut
    /\ DroppedOnlyIfCut

\* A queue of frames in the order of their numbers, after frame n
After(queue, n) ==
    /\ \A i, j \in 1..Len(queue) : i < j => queue[i].n < queue[j].n
    /\ \A i \in 1..Len(queue) : n < queue[i].n /\ queue[i].n <= produced

Ordered ==
    /\ After(tasks, vision) /\ After(inbox, vision)
    /\ \A i \in 1..Len(tasks), j \in 1..Len(inbox) : tasks[i].n < inbox[j].n

IInv == TypeOK /\ Counted /\ Signalled /\ Ordered

\* Steps that leave the frames alone
pathVars == <<frameVars, produced>>

-----------------------------------------------------------------------------
\* Lengths and elements of a queue of frames
LEMMA Queues ==
  ASSUME NEW queue \in Seq(Frames)
  PROVE  /\ Len(queue) \in Nat
         /\ \A i \in 1..Len(queue) : queue[i] \in Frames /\ queue[i].n \in Nat
<1>1. Len(queue) \in Nat /\ \A i \in 1..Len(queue) : queue[i] \in Frames
  BY LenProperties, ElementOfSeq
<1> QED BY <1>1 DEF Frames

\* What Tail leaves of a queue
LEMMA Tails ==
  ASSUME NEW queue \in Seq(Frames), queue # <<>>
  PROVE  /\ Tail(queue) \in Seq(Frames) /\ Head(queue) \in Frames
         /\ 1 \in 1..Len(queue) /\ Head(queue) = queue[1]
         /\ \A i \in 1..Len(Tail(queue)) :
               Tail(queue)[i] = queue[i + 1] /\ i + 1 \in 1..Len(queue) /\ 1 < i + 1
<1>1. /\ Head(queue) \in Frames /\ Tail(queue) \in Seq(Frames)
      /\ Len(Tail(queue)) = Len(queue) - 1
      /\ \A i \in 1..Len(Tail(queue)) : Tail(queue)[i] = queue[i + 1]
  BY HeadTailProperties
<1>2. 1 \in 1..Len(queue) /\ Head(queue) = queue[1]
  BY EmptySeq
<1> QED BY <1>1, <1>2, Queues

\* What Append adds to a queue
LEMMA Appends ==
  ASSUME NEW queue \in Seq(Frames), NEW frame \in Frames
  PROVE  /\ Append(queue, frame) \in Seq(Frames)
         /\ \A i \in 1..Len(Append(queue, frame)) :
               \/ i \in 1..Len(queue) /\ Append(queue, frame)[i] = queue[i]
               \/ i = Len(queue) + 1 /\ Append(queue, frame)[i] = frame
<1>1. /\ Append(queue, frame) \in Seq(Frames) /\ Len(Append(queue, frame)) = Len(queue) + 1
      /\ \A i \in 1..Len(queue) : Append(queue, frame)[i] = queue[i]
      /\ Append(queue, frame)[Len(queue) + 1] = frame
  BY AppendProperties
<1> QED BY <1>1, Queues

\* A failure counts once, and ends the client only above its limit.
LEMMA FailureCounts ==
  ASSUME TypeOK, Counted, hub # "failed", Failure
  PROVE  Counted' /\ connected' = FALSE /\ retries' \in 0..RetryCap /\ failures' \in 0..RetryCap
         /\ hub' \in {"sleeping", "failed"}
<1>1. retries \in 0..RetryCap /\ RetryCap \in Nat /\ retries = failures
  BY HubAssumption DEF TypeOK, Counted
<1>2. /\ retries' = Bump(retries) /\ failures' = Bump(failures)
      /\ retries' = failures' /\ retries' \in 0..RetryCap
  BY <1>1 DEF Failure, Bump
<1>3. hub' = "failed" <=> MaxRetries # Forever /\ failures' > MaxRetries
  <2>1. CASE MaxRetries = Forever
    BY <2>1 DEF Failure, Exhausted
  <2>2. CASE MaxRetries # Forever
    <3>1. MaxRetries \in Nat /\ RetryCap > MaxRetries /\ failures <= MaxRetries
      BY <1>1, <2>2, HubAssumption DEF Counted, GivesUpAtLimit
    <3>2. failures' = failures + 1
      BY <1>1, <3>1 DEF Failure, Bump
    <3> QED BY <1>1, <2>2, <3>1, <3>2 DEF Failure, Exhausted
  <2> QED BY <2>1, <2>2
<1> QED BY <1>2, <1>3 DEF Failure, Counted, GivesUpAtLimit

\* Steps that leave the frames alone keep their order.
LEMMA FramesKept == Ordered /\ UNCHANGED pathVars => Ordered'
BY DEF Ordered, After, pathVars, frameVars

\* The initial state: nothing failed, nothing arrived.
LEMMA InitIInv == Init => IInv
<1> SUFFICES ASSUME Init PROVE IInv
  OBVIOUS
<1>1. /\ inbox \in Seq(Frames) /\ tasks \in Seq(Frames) /\ Len(inbox) = 0 /\ Len(tasks) = 0
  BY EmptySeq DEF Init
<1>2. TypeOK
  <2>1. connected \in BOOLEAN /\ cut \in BOOLEAN
    BY DEF Init
  <2>2. /\ retries \in 0..RetryCap /\ failures \in 0..RetryCap
        /\ vision \in 0..produced /\ produced \in 0..MaxFrames /\ outages \in 0..MaxOutages
    BY HubAssumption DEF Init
  <2> QED BY <1>1, <2>1, <2>2 DEF Init, TypeOK
<1>3. Counted
  BY HubAssumption DEF Init, Counted, GivesUpAtLimit
<1> QED BY <1>1, <1>2, <1>3 DEF Init, IInv, Signalled, DroppedOnlyIfCut, Ordered, After

\* run() at its awaits: connecting, failing, sleeping, giving up
LEMMA RunIInv ==
    IInv /\ (Open \/ Refused \/ Rejected \/ Wake \/ ClosedProperly \/ ConnectionLost) => IInv'
<1> SUFFICES ASSUME IInv, Open \/ Refused \/ Rejected \/ Wake \/ ClosedProperly \/ ConnectionLost
             PROVE  IInv'
  OBVIOUS
<1>1. UNCHANGED <<pathVars, outages>>
  BY DEF Open, Refused, Rejected, Wake, ClosedProperly, ConnectionLost, frameVars, pathVars,
     serverVars
<1>2. Ordered'
  BY <1>1, FramesKept DEF IInv
<1>3. Counted' /\ retries' \in 0..RetryCap /\ failures' \in 0..RetryCap
  <2>1. CASE Open
    BY <2>1, HubAssumption DEF Open, RetriesAfterOpen, Counted, GivesUpAtLimit
  <2>2. CASE Refused \/ ConnectionLost
    BY <2>2, FailureCounts DEF Refused, ConnectionLost, IInv
  <2>3. CASE Rejected \/ Wake \/ ClosedProperly
    BY <2>3 DEF Rejected, Wake, ClosedProperly, IInv, TypeOK, Counted, GivesUpAtLimit
  <2> QED BY <2>1, <2>2, <2>3
<1>4. Signalled' /\ cut' \in BOOLEAN
  <2>1. CASE Open
    BY <2>1 DEF Open, IInv, TypeOK, Signalled, DroppedOnlyIfCut
  <2>2. CASE Refused \/ ConnectionLost
    <3>1. call' = call /\ ~connected' /\ cut' = (cut \/ call = "woken")
      BY <2>2 DEF Refused, ConnectionLost, Failure
    <3> QED BY <3>1 DEF IInv, TypeOK, Signalled, DroppedOnlyIfCut
  <2>3. CASE Rejected \/ Wake \/ ClosedProperly
    BY <2>3 DEF Rejected, Wake, ClosedProperly, IInv, TypeOK, Signalled, DroppedOnlyIfCut
  <2> QED BY <2>1, <2>2, <2>3
<1>5. TypeOK'
  <2>1. connected' \in BOOLEAN
    BY DEF Open, Refused, Rejected, Wake, ClosedProperly, ConnectionLost, Failure, IInv, TypeOK
  <2>2. /\ hub' \in {"connecting", "open", "sleeping"} \cup GivenUp
        /\ ws' \in {"none", "live", "closed"} /\ server' \in {"up", "down"}
        /\ peer' \in {"none", "live", "closed", "lost"}
        /\ call' \in {"idle", "waiting", "woken", "sent", "raised", "timeout", "dropped"}
    BY DEF Open, Refused, Rejected, Wake, ClosedProperly, ConnectionLost, Failure, IInv,
       TypeOK, GivenUp, serverVars
  <2> QED BY <1>1, <1>3, <1>4, <2>1, <2>2 DEF IInv, TypeOK, pathVars, frameVars
<1> QED BY <1>2, <1>3, <1>4, <1>5 DEF IInv

\* send() and the server's outages touch no frame and no counter.
LEMMA OutsideIInv ==
    IInv /\ (Send \/ SendNow \/ SendTimesOut \/ Outage \/ Restart \/ UNCHANGED vars) => IInv'
<1> SUFFICES ASSUME IInv,
                    Send \/ SendNow \/ SendTimesOut \/ Outage \/ Restart \/ UNCHANGED vars
             PROVE  IInv'
  OBVIOUS
<1>1. UNCHANGED <<pathVars, runVars>>
  BY DEF Send, SendNow, SendTimesOut, Outage, Restart, vars, pathVars, serverVars
<1>2. Ordered' /\ Counted'
  BY <1>1, FramesKept DEF IInv, Counted, GivesUpAtLimit, runVars
<1>3. Signalled'
  BY <1>1 DEF Send, SendNow, SendTimesOut, Outage, Restart, vars, runVars, IInv, Signalled,
     DroppedOnlyIfCut
<1>4. TypeOK'
  <2>1. outages' \in 0..MaxOutages
    BY HubAssumption DEF Send, SendNow, SendTimesOut, Outage, Restart, vars, serverVars, IInv,
       TypeOK
  <2>2. /\ call' \in {"idle", "waiting", "woken", "sent", "raised", "timeout", "dropped"}
        /\ server' \in {"up", "down"} /\ peer' \in {"none", "live", "closed", "lost"}
    BY DEF Send, SendNow, SendTimesOut, Outage, Restart, vars, serverVars, IInv, TypeOK
  <2> QED BY <1>1, <2>1, <2>2 DEF IInv, TypeOK, pathVars, frameVars, runVars
<1> QED BY <1>2, <1>3, <1>4 DEF IInv

\* A frame is sent, received or shown: it moves on, and overtakes none.
LEMMA FrameIInv ==
    IInv /\ (Produce \/ Receive \/ Undecodable \/ Dispatch) => IInv' /\ vision' >= vision
<1> SUFFICES ASSUME IInv, Produce \/ Receive \/ Undecodable \/ Dispatch
             PROVE  IInv' /\ vision' >= vision
  OBVIOUS
<1>1. /\ UNCHANGED <<connected, retries, failures, cut, call, server, outages>>
      /\ \/ UNCHANGED <<hub, ws, peer>>
         \/ hub = "open" /\ hub' = "undecodable" /\ ws' = "closed" /\ peer' = "none"
  BY DEF Produce, Receive, Undecodable, Dispatch, runVars, serverVars
<1>2. Counted' /\ Signalled'
  BY <1>1 DEF IInv, Counted, GivesUpAtLimit, Signalled, DroppedOnlyIfCut
<1>3. /\ inbox \in Seq(Frames) /\ tasks \in Seq(Frames)
      /\ produced \in 0..MaxFrames /\ vision \in 0..produced /\ MaxFrames \in Nat
  BY HubAssumption DEF IInv, TypeOK
<1>4. /\ After(tasks, vision) /\ After(inbox, vision)
      /\ \A i \in 1..Len(tasks), j \in 1..Len(inbox) : tasks[i].n < inbox[j].n
      /\ Len(inbox) \in Nat /\ \A i \in 1..Len(inbox) : inbox[i].n \in Nat
      /\ Len(tasks) \in Nat /\ \A i \in 1..Len(tasks) : tasks[i].n \in Nat
      /\ produced \in Nat /\ vision \in Nat
  BY <1>3, Queues DEF IInv, Ordered
<1>5. /\ inbox' \in Seq(Frames) /\ tasks' \in Seq(Frames)
      /\ produced' \in 0..MaxFrames /\ vision' \in 0..produced' /\ vision' >= vision
      /\ Ordered'
  <2>1. CASE Produce
    <3>1. PICK kind \in FrameKinds :
            /\ produced < MaxFrames /\ produced' = produced + 1
            /\ inbox' = Append(inbox, [n |-> produced + 1, kind |-> kind])
            /\ UNCHANGED <<tasks, vision>>
      BY <2>1 DEF Produce
    <3> DEFINE frame == [n |-> produced + 1, kind |-> kind]
    <3>2. frame \in Frames /\ frame.n = produced + 1
      BY <1>3 DEF Frames
    <3> HIDE DEF frame
    <3>0. \A i \in 1..Len(inbox) : vision < inbox[i].n /\ inbox[i].n <= produced
      BY <1>4 DEF After
    <3>3. /\ inbox' \in Seq(Frames)
          /\ \A i \in 1..Len(inbox') :
                \/ i \in 1..Len(inbox) /\ inbox'[i] = inbox[i]
                \/ i = Len(inbox) + 1 /\ inbox'[i] = frame
      BY <1>3, <3>1, <3>2, Appends DEF frame
    <3>4. After(inbox, vision)'
      <4>1. \A i \in 1..Len(inbox') : vision < inbox'[i].n /\ inbox'[i].n <= produced + 1
        <5> SUFFICES ASSUME NEW i \in 1..Len(inbox')
                     PROVE  vision < inbox'[i].n /\ inbox'[i].n <= produced + 1
          OBVIOUS
        <5>1. CASE i \in 1..Len(inbox) /\ inbox'[i] = inbox[i]
          BY <5>1, <1>4, <3>0
        <5>2. CASE inbox'[i] = frame
          BY <5>2, <1>3, <1>4, <3>2
        <5> QED BY <5>1, <5>2, <3>3
      <4>2. \A i, j \in 1..Len(inbox') : i < j => inbox'[i].n < inbox'[j].n
        BY <1>3, <1>4, <3>2, <3>3 DEF After
      <4> QED BY <3>1, <4>1, <4>2 DEF After
    <3>5. After(tasks, vision)'
      BY <1>3, <1>4, <3>1 DEF After
    <3>6. \A i \in 1..Len(tasks), j \in 1..Len(inbox') : tasks[i].n < inbox'[j].n
      <4>1. \A i \in 1..Len(tasks) : tasks[i].n < produced + 1
        BY <1>4 DEF After
      <4> QED BY <1>4, <3>2, <3>3, <4>1
    <3> QED BY <1>3, <3>1, <3>3, <3>4, <3>5, <3>6 DEF Ordered
  <2>2. CASE Receive \/ Undecodable
    <3>1. /\ inbox # <<>> /\ inbox' = Tail(inbox)
          /\ tasks' = tasks \/ tasks' = Append(tasks, Head(inbox))
          /\ UNCHANGED <<vision, produced>>
      BY <2>2 DEF Receive, Undecodable, Schedule, serverVars
    <3>2. /\ inbox' \in Seq(Frames) /\ Head(inbox) \in Frames
          /\ 1 \in 1..Len(inbox) /\ Head(inbox) = inbox[1]
          /\ \A i \in 1..Len(inbox') :
                inbox'[i] = inbox[i + 1] /\ i + 1 \in 1..Len(inbox) /\ 1 < i + 1
      BY <1>3, <3>1, Tails
    <3>3. /\ tasks' \in Seq(Frames)
          /\ \A i \in 1..Len(tasks') :
                \/ i \in 1..Len(tasks) /\ tasks'[i] = tasks[i]
                \/ i = Len(tasks) + 1 /\ tasks'[i] = inbox[1]
      <4>1. CASE tasks' = tasks
        BY <1>3, <4>1
      <4>2. CASE tasks' = Append(tasks, Head(inbox))
        BY <1>3, <3>2, <4>2, Appends
      <4> QED BY <3>1, <4>1, <4>2
    <3>4. /\ \A i \in 1..Len(inbox') : vision < inbox'[i].n /\ inbox'[i].n <= produced
          /\ \A i, j \in 1..Len(inbox') : i < j => inbox'[i].n < inbox'[j].n
      <4>1. \A i \in 1..Len(inbox') : vision < inbox'[i].n /\ inbox'[i].n <= produced
        BY <1>4, <3>2, <1>3 DEF After
      <4>2. ASSUME NEW i \in 1..Len(inbox'), NEW j \in 1..Len(inbox'), i < j
            PROVE  inbox'[i].n < inbox'[j].n
        <5>1. i + 1 < j + 1
          BY <4>2
        <5>2. inbox[i + 1].n < inbox[j + 1].n
          BY <1>4, <3>2, <5>1 DEF After
        <5> QED BY <3>2, <5>2
      <4> QED BY <4>1, <4>2
    <3>5. \A i \in 1..Len(tasks') : vision < tasks'[i].n /\ tasks'[i].n <= produced
      BY <1>4, <3>2, <3>3 DEF After
    <3>6. ASSUME NEW i \in 1..Len(tasks'), NEW j \in 1..Len(tasks'), i < j
          PROVE  tasks'[i].n < tasks'[j].n
      <4>1. CASE i \in 1..Len(tasks) /\ tasks'[i] = tasks[i] /\ j \in 1..Len(tasks) /\ tasks'[j] = tasks[j]
        <5>1. tasks[i].n < tasks[j].n
          BY <1>4, <3>6, <4>1 DEF After
        <5> QED BY <4>1, <5>1
      <4>2. CASE i \in 1..Len(tasks) /\ tasks'[i] = tasks[i] /\ tasks'[j] = inbox[1]
        <5>1. tasks[i].n < inbox[1].n
          BY <1>4, <3>2, <4>2
        <5> QED BY <4>2, <5>1
      <4>3. ~(i = Len(tasks) + 1)
        BY <1>3, <3>1, <3>3, <3>6, Appends
      <4> QED BY <3>3, <4>1, <4>2, <4>3
    <3>7. \A i \in 1..Len(tasks'), j \in 1..Len(inbox') : tasks'[i].n < inbox'[j].n
      BY <1>4, <3>2, <3>3 DEF After
    <3> QED BY <1>3, <3>1, <3>2, <3>3, <3>4, <3>5, <3>6, <3>7 DEF Ordered, After
  <2>3. CASE Dispatch
    <3>1. /\ tasks # <<>> /\ tasks' = Tail(tasks) /\ vision' \in {vision, Head(tasks).n}
          /\ UNCHANGED <<inbox, produced>>
      BY <2>3 DEF Dispatch, TasksLeft, Shown, serverVars
    <3>2. /\ tasks' \in Seq(Frames) /\ Head(tasks) \in Frames
          /\ 1 \in 1..Len(tasks) /\ Head(tasks) = tasks[1]
          /\ \A i \in 1..Len(tasks') :
                tasks'[i] = tasks[i + 1] /\ i + 1 \in 1..Len(tasks) /\ 1 < i + 1
      BY <1>3, <3>1, Tails
    <3>3. /\ tasks[1].n \in Nat /\ vision < tasks[1].n /\ tasks[1].n <= produced
          /\ vision' \in {vision, tasks[1].n}
      BY <1>3, <1>4, <3>1, <3>2 DEF After
    <3>4. \A i \in 1..Len(tasks') : vision' < tasks'[i].n /\ tasks'[i].n <= produced
      BY <1>4, <3>2, <3>3 DEF After
    <3>5. ASSUME NEW i \in 1..Len(tasks'), NEW j \in 1..Len(tasks'), i < j
          PROVE  tasks'[i].n < tasks'[j].n
      <4>1. i + 1 < j + 1
        BY <3>5
      <4>2. tasks[i + 1].n < tasks[j + 1].n
        BY <1>4, <3>2, <4>1 DEF After
      <4> QED BY <3>2, <4>2
    <3>6. /\ \A j \in 1..Len(inbox) : vision' < inbox[j].n
          /\ \A i \in 1..Len(tasks'), j \in 1..Len(inbox) : tasks'[i].n < inbox[j].n
      BY <1>4, <3>2, <3>3 DEF After
    <3> QED BY <1>3, <1>4, <3>1, <3>2, <3>3, <3>4, <3>5, <3>6 DEF Ordered, After
  <2> QED BY <2>1, <2>2, <2>3
<1>6. TypeOK'
  <2>1. connected' \in BOOLEAN /\ cut' \in BOOLEAN
    BY <1>1 DEF IInv, TypeOK
  <2>2. /\ hub' \in {"connecting", "open", "sleeping"} \cup GivenUp
        /\ ws' \in {"none", "live", "closed"} /\ peer' \in {"none", "live", "closed", "lost"}
    BY <1>1 DEF IInv, TypeOK, GivenUp
  <2> QED BY <1>1, <1>5, <2>1, <2>2 DEF IInv, TypeOK
<1> QED BY <1>2, <1>5, <1>6 DEF IInv

\* Every step keeps the invariant, and none takes the vision context back.
LEMMA StepIInv == IInv /\ [Next]_vars => IInv' /\ vision' >= vision
<1> SUFFICES ASSUME IInv, [Next]_vars PROVE IInv' /\ vision' >= vision
  OBVIOUS
<1>1. CASE Produce \/ Receive \/ Undecodable \/ Dispatch
  BY <1>1, FrameIInv
<1>2. CASE Open \/ Refused \/ Rejected \/ Wake \/ ClosedProperly \/ ConnectionLost
  <2>1. vision' = vision /\ vision \in Nat
    BY <1>2, HubAssumption DEF Open, Refused, Rejected, Wake, ClosedProperly, ConnectionLost,
         frameVars, IInv, TypeOK
  <2> QED BY <1>2, <2>1, RunIInv
<1>3. CASE Send \/ SendNow \/ SendTimesOut \/ Outage \/ Restart \/ UNCHANGED vars
  <2>1. vision' = vision /\ vision \in Nat
    BY <1>3, HubAssumption DEF Send, SendNow, SendTimesOut, Outage, Restart, vars, frameVars,
         IInv, TypeOK
  <2> QED BY <1>3, <2>1, OutsideIInv
<1> QED BY <1>1, <1>2, <1>3 DEF Next, RunStep, Terminated

\* The invariant holds in every reachable state.
LEMMA Invariance == Spec => []IInv
BY InitIInv, StepIInv, PTL DEF Spec

-----------------------------------------------------------------------------
\* Every variable of the client keeps its type.
THEOREM HubTypeCorrect == Spec => []TypeOK
BY Invariance, PTL DEF IInv

\* run()'s `raise` ends the client after more failures in a row than its limit
\* allows, no sooner and no later, and never without a limit.
THEOREM GivesUpRightly == Spec => []GivesUpAtLimit
BY Invariance, PTL DEF IInv, Counted

\* A send that was let through is dropped without an exception only if the
\* connection failed before it went on (run, send).
THEOREM SendsAreDroppedIfCut == Spec => []DroppedOnlyIfCut
BY Invariance, PTL DEF IInv, Signalled

\* The vision context never goes back to an older frame (_recv_loop).
THEOREM VisionGoesForward == Spec => VisionForward
<1>1. IInv /\ [Next]_vars => [vision' >= vision]_vars
  BY StepIInv
<1> QED BY <1>1, Invariance, PTL DEF Spec, VisionForward

-----------------------------------------------------------------------------
(* The frames handed to tasks: what becomes of them.                       *)

\* Vision frame n waits for its task.
Waits(n) == \E i \in 1..Len(tasks) : tasks[i] = [n |-> n, kind |-> "vision"]

\* A vision frame leaves the tasks only in the step that shows it, whatever
\* the other tasks do and however the connection ends (_safe_dispatch).
NoFrameLost == [][\A n \in 1..MaxFrames : Waits(n) => Waits(n)' \/ vision' = n]_vars

\* What Receive and Dispatch do to the waiting frames
LEMMA WaitingFrames ==
    ASSUME IInv, [Next]_vars, NEW n \in 1..MaxFrames, Waits(n)
    PROVE  Waits(n)' \/ vision' = n
<1>1. PICK i \in 1..Len(tasks) : tasks[i] = [n |-> n, kind |-> "vision"]
  BY DEF Waits
<1>2. /\ tasks \in Seq(Frames) /\ inbox \in Seq(Frames) /\ Len(tasks) \in Nat
      /\ i \in Nat /\ 1 <= i /\ i <= Len(tasks)
  BY Queues DEF IInv, TypeOK
<1>3. CASE Dispatch
  <2>1. tasks # <<>> /\ tasks' = Tail(tasks) /\ vision' = Shown(tasks[1])
    BY <1>2, <1>3, HeadTailProperties, Tails DEF Dispatch, TasksLeft
  <2>2. CASE i = 1
    BY <1>1, <2>1, <2>2 DEF Shown
  <2>3. CASE i # 1
    <3>1. Len(tasks') = Len(tasks) - 1 /\ \A j \in 1..Len(tasks') : tasks'[j] = tasks[j + 1]
      BY <1>2, <2>1, HeadTailProperties
    <3>2. i - 1 \in 1..Len(tasks') /\ (i - 1) + 1 = i
      BY <1>2, <2>3, <3>1
    <3>3. tasks'[i - 1] = tasks[i]
      BY <3>1, <3>2
    <3> QED BY <1>1, <3>2, <3>3 DEF Waits
  <2> QED BY <2>2, <2>3
<1>4. CASE Receive
  <2>1. tasks' = tasks \/ (tasks' = Append(tasks, Head(inbox)) /\ Head(inbox) \in Frames)
    BY <1>2, <1>4, Tails DEF Receive, Schedule
  <2>2. CASE tasks' = tasks
    BY <1>1, <2>2 DEF Waits
  <2>3. CASE tasks' = Append(tasks, Head(inbox)) /\ Head(inbox) \in Frames
    <3>1. Len(tasks') = Len(tasks) + 1 /\ tasks'[i] = tasks[i]
      BY <1>1, <1>2, <2>3, AppendProperties
    <3>2. i \in 1..Len(tasks')
      BY <1>2, <3>1
    <3> QED BY <1>1, <3>1, <3>2 DEF Waits
  <2> QED BY <2>1, <2>2, <2>3
<1>5. CASE tasks' = tasks
  BY <1>1, <1>5 DEF Waits
<1> QED BY <1>3, <1>4, <1>5 DEF Next, RunStep, Open, Refused, Wake, Undecodable, ClosedProperly,
           ConnectionLost, Rejected, Send, SendNow, SendTimesOut, Produce, Outage, Restart,
           Terminated, frameVars, vars

\* No vision frame handed to a task is lost: it is shown in the step that ends
\* its task, with any number of bad frames and reconnections (_safe_dispatch).
THEOREM FramesAreNotLost == Spec => NoFrameLost
<1>1. IInv /\ [Next]_vars => [\A n \in 1..MaxFrames : Waits(n) => Waits(n)' \/ vision' = n]_vars
  BY WaitingFrames
<1> QED BY <1>1, Invariance, PTL DEF Spec, NoFrameLost
=============================================================================
