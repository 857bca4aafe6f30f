------------------------ MODULE RolloutAdapterProofs ------------------------
(***************************************************************************)
(* Theorems about RolloutAdapter and, in the second half, AdapterFaults,   *)
(* for every value of their constants.                                     *)
(***************************************************************************)
EXTENDS AdapterFaults, TLAPS

-----------------------------------------------------------------------------
(* Types.                                                                  *)

\* TypeOK is inductive once it is known which text the SUB thread holds
\* between parsing an instruction and returning from _on_msg.
TypeInv ==
    /\ TypeOK
    /\ sub_pc \in {"record", "apply"} => text \in Tasks

\* The initial state is well typed.
LEMMA TypeInit == Init => TypeInv
<1>. SUFFICES ASSUME Init PROVE TypeInv
  OBVIOUS
<1>1. FlagsOK
  BY Zenon DEF Init, FlagsOK
<1>2. Empty \in Chunks
  BY DEF Empty, Chunks
<1>. QED  BY <1>1, <1>2 DEF Init, TypeInv, TypeOK, Texts

\* The environment's steps.
LEMMA TypeEnvironment ==
    ASSUME TypeInv, Receive \/ Signal \/ Tick \/ Terminated
    PROVE  TypeInv'
<1>1. CASE Receive
  BY <1>1, TextsAssumption
  DEF Receive, ParseInstruction, TypeInv, TypeOK, FlagsOK, Texts, Chunks, stateVars, mainVars,
      engineVars, histVars
<1>2. CASE Signal
  BY <1>2
  DEF Signal, TypeInv, TypeOK, FlagsOK, stateVars, subVars, mainVars, engineVars, histVars
<1>3. CASE Tick
  BY <1>3
  DEF Tick, TypeInv, TypeOK, FlagsOK, stateVars, subVars, mainVars, engineVars, histVars
<1>4. CASE Terminated
  BY <1>4
  DEF Terminated, vars, TypeInv, TypeOK, FlagsOK, stateVars, subVars, mainVars, engineVars, histVars
<1>. QED  BY <1>1, <1>2, <1>3, <1>4

\* The SUB thread's steps.
LEMMA TypeSub ==
    ASSUME TypeInv, SubNext
    PROVE  TypeInv'
<1>1. CASE SubTest \/ SubNothing
  BY <1>1
  DEF SubTest, SubNothing, TypeInv, TypeOK, FlagsOK, stateVars, mainVars, engineVars, histVars
<1>2. CASE SubStop
  <2>1. FlagsOK'
    BY <1>2, Zenon DEF SubStop, TypeInv, TypeOK, FlagsOK, mainVars, engineVars
  <2>. QED
    BY <1>2, <2>1 DEF SubStop, TypeInv, TypeOK, Texts, mainVars, engineVars
<1>3. CASE SubRecord
  BY <1>3, TimesAssumption
  DEF SubRecord, RunsAtOnce, Delayed, GateEnabled, TypeInv, TypeOK, FlagsOK, Texts, mainVars,
      engineVars
<1>4. CASE SubApply
  BY <1>4, TextsAssumption
  DEF SubApply, TaskApplied, TypeInv, TypeOK, FlagsOK, Texts, stateVars, mainVars, histVars
<1>. QED  BY <1>1, <1>2, <1>3, <1>4 DEF SubNext

\* What a policy call leaves in the engine and sends to the robot.
LEMMA TypeInfer ==
    ASSUME TypeInv, NEW n \in Nat, Infer(n)
    PROVE  /\ queue' \in Chunks
           /\ out' \in [kind : {"none", "hold", "policy"}, for : Nat, chunk : Chunks]
           /\ moves' \in 0..2
<1>1. Empty \in Chunks /\ [n |-> n, task |-> engine_task] \in Chunks
  BY DEF TypeInv, TypeOK, FlagsOK, Chunks, Empty
<1>. QED  BY <1>1 DEF Infer, TypeInv, TypeOK, FlagsOK

\* The main thread's steps.
LEMMA TypeMain ==
    ASSUME TypeInv, MainNext \/ Finish
    PROVE  TypeInv'
<1>1. CASE Capture
  BY <1>1, OutcomesAssumption
  DEF Capture, Wraps, GateEnabled, TypeInv, TypeOK, FlagsOK, stateVars, subVars, histVars
<1>2. CASE FlushRead
  BY <1>2
  DEF FlushRead, Latest, TypeInv, TypeOK, FlagsOK, stateVars, subVars, engineVars, histVars
<1>3. CASE FlushApply
  BY <1>3 DEF FlushApply, TaskApplied, TypeInv, TypeOK, FlagsOK, Texts, stateVars, subVars
<1>4. CASE Enter
  BY <1>4 DEF Enter, TypeInv, TypeOK, FlagsOK, stateVars, subVars, engineVars, histVars
<1>5. CASE DecideStop
  <2>1. FlagsOK'
    BY <1>5, Zenon DEF DecideStop, TypeInv, TypeOK, FlagsOK, subVars, engineVars
  <2>. QED
    BY <1>5, <2>1 DEF DecideStop, TypeInv, TypeOK, subVars, engineVars, histVars
<1>6. CASE DecideRun
  BY <1>6
  DEF DecideRun, Driving, Due, Started, NeedsReset, ResetLeft, TypeInv, TypeOK, FlagsOK, Texts,
      subVars, engineVars
<1>7. CASE Reset
  BY <1>7 DEF Reset, TypeInv, TypeOK, FlagsOK, Chunks, Empty, stateVars, subVars, histVars
<1>8. CASE Act
  <2>0. FlagsOK'
    BY <1>8, Zenon DEF Act, TypeInv, TypeOK, FlagsOK, stateVars
  <2>1. CASE active
    <3>1. serving.n \in Nat /\ Infer(serving.n)
      BY <1>8, <2>1 DEF Act, TypeInv, TypeOK, FlagsOK
    <3>. QED
      BY <1>8, <2>0, <2>1, <3>1, TypeInfer DEF Act, TypeInv, TypeOK, stateVars, subVars
  <2>2. CASE ~active
    BY <1>8, <2>0, <2>2 DEF Act, TypeInv, TypeOK, Chunks, Empty, stateVars, subVars
  <2>. QED  BY <2>1, <2>2
<1>9. CASE FreeRun
  <2>1. trigger \in Nat
    BY DEF TypeInv, TypeOK, FlagsOK
  <2>. QED
    BY <1>9, <2>1, TypeInfer DEF FreeRun, TypeInv, TypeOK, FlagsOK, stateVars, subVars, mainVars
<1>10. CASE Finish
  <2>1. FlagsOK'
    BY <1>10, Zenon DEF Finish, TypeInv, TypeOK, FlagsOK, stateVars, engineVars
  <2>. QED
    BY <1>10, <2>1 DEF Finish, TypeInv, TypeOK, stateVars, subVars, engineVars, histVars
<1>11. CASE Join
  BY <1>11 DEF Join, TypeInv, TypeOK, FlagsOK, stateVars, subVars, engineVars, histVars
<1>. QED
  BY <1>1, <1>2, <1>3, <1>4, <1>5, <1>6, <1>7, <1>8, <1>9, <1>10, <1>11
  DEF MainNext, ControlStep

\* Every step of the two threads and the environment keeps the types.
LEMMA TypeStep == TypeInv /\ [Next]_vars => TypeInv'
<1>. SUFFICES ASSUME TypeInv, [Next]_vars PROVE TypeInv'
  OBVIOUS
<1>1. CASE UNCHANGED vars
  BY <1>1
  DEF vars, TypeInv, TypeOK, FlagsOK, stateVars, subVars, mainVars, engineVars, histVars
<1>. QED  BY <1>1, TypeEnvironment, TypeSub, TypeMain DEF Next

\* TypeInv is an invariant of the specification.
LEMMA TypeInvariant == Spec => []TypeInv
BY TypeInit, TypeStep, PTL DEF Spec

\* Every variable keeps its type, whatever the two threads, the signals, the
\* clock and the engine do: TaskState and the locals of both threads.
THEOREM TypeCorrect == Spec => []TypeOK
<1>1. TypeInv => TypeOK
  BY DEF TypeInv
<1>. QED  BY <1>1, TypeInvariant, PTL

-----------------------------------------------------------------------------
(* Control: where the main thread can be.                                  *)

\* A control step in progress means get_action is wrapped, `active` is set only
\* inside one, and nothing has moved before the engine is captured.
PlacesInv ==
    /\ gated => GateEnabled
    /\ engine_ref /\ GateEnabled => gated
    /\ main_pc = "build" => ~engine_ref /\ ~gated /\ out.kind = "none" /\ moves = 0
    /\ main_pc \in {"lock", "reset", "act"} => gated
    /\ gated => engine_ref
    /\ active => main_pc \in {"reset", "act"}

\* In addition no clock reading is ahead of the clock.
ControlInv == PlacesInv /\ now <= clock /\ sub_now <= clock

\* Every step keeps the control facts: the main thread's place, its locals and
\* the engine's capture fit together.
LEMMA PlacesStepInv == TypeInv /\ PlacesInv /\ [Next]_vars => PlacesInv'
<1>. SUFFICES ASSUME TypeInv, PlacesInv, [Next]_vars PROVE PlacesInv'
  OBVIOUS
<1>. USE DEF PlacesInv
<1>1. CASE UNCHANGED vars \/ Terminated
  BY <1>1 DEF Terminated, vars, stateVars, subVars, mainVars, engineVars, histVars
<1>2. CASE Receive
  BY <1>2, SMT
  DEF Receive, TypeInv, TypeOK, stateVars, mainVars, engineVars, histVars
<1>3. CASE Signal \/ Tick
  BY <1>3, SMT
  DEF Signal, Tick, TypeInv, TypeOK, stateVars, subVars, mainVars, engineVars, histVars
<1>4. CASE SubNext
  BY <1>4, SMT
  DEF SubNext, SubTest, SubNothing, SubStop, SubRecord, SubApply, TypeInv, TypeOK,
      stateVars, mainVars, engineVars, histVars
<1>5. CASE Capture
  <2>1. PICK found \in Captures :
            /\ gated' = (found /\ GateEnabled)
            /\ engine_ref' = found
            /\ main_pc' = IF found THEN "captured" ELSE "loop"
            /\ active' = active /\ main_pc = "build"
    BY <1>5, Zenon DEF Capture, Wraps, subVars
  <2>. QED  BY <2>1
<1>6. CASE FlushRead \/ FlushApply \/ Join
  BY <1>6 DEF FlushRead, FlushApply, Join, TypeInv, TypeOK, subVars, engineVars
<1>7. CASE Enter
  BY <1>7 DEF Enter, TypeInv, TypeOK, subVars, engineVars
<1>8. CASE DecideStop
  BY <1>8 DEF DecideStop, TypeInv, TypeOK, subVars, engineVars
<1>9. CASE DecideRun
  BY <1>9 DEF DecideRun, TypeInv, TypeOK, subVars, engineVars
<1>10. CASE Reset
  BY <1>10 DEF Reset, TypeInv, TypeOK, subVars
<1>11. CASE Act \/ Finish
  BY <1>11 DEF Act, Finish, TypeInv, TypeOK, subVars, engineVars
<1>12. CASE FreeRun
  BY <1>12 DEF FreeRun, TypeInv, TypeOK, subVars, mainVars
<1>. QED
  BY <1>1, <1>2, <1>3, <1>4, <1>5, <1>6, <1>7, <1>8, <1>9, <1>10, <1>11, <1>12
  DEF Next, MainNext, ControlStep

\* A reading of the clock stays behind it.
LEMMA ControlStepInv == TypeInv /\ ControlInv /\ [Next]_vars => ControlInv'
<1>. SUFFICES ASSUME TypeInv, ControlInv, [Next]_vars PROVE ControlInv'
  OBVIOUS
<1>1. PlacesInv'
  BY PlacesStepInv DEF ControlInv
<1>2. clock \in Nat /\ now \in Nat /\ sub_now \in Nat /\ now <= clock /\ sub_now <= clock
  BY DEF TypeInv, TypeOK, ControlInv
<1>3. now' \in {now, clock, 0} /\ sub_now' \in {sub_now, clock, 0} /\ clock' \in {clock, clock + 1}
  BY DEF Next, SubNext, MainNext, ControlStep, Receive, SubTest, SubNothing, SubStop, SubRecord,
         SubApply, Capture, FlushRead, FlushApply, Enter, DecideStop, DecideRun, Reset, Act,
         FreeRun, Join, Finish, Signal, Tick, Terminated, vars, subVars, mainVars
<1>. QED  BY <1>1, <1>2, <1>3 DEF ControlInv

\* PlacesInv holds in every initial state.
LEMMA PlacesInit == Init => PlacesInv
BY DEF Init, PlacesInv

\* PlacesInv is an invariant of the specification.
LEMMA PlacesInvariant == Spec => []PlacesInv
BY PlacesInit, TypeInvariant, PlacesStepInv, PTL DEF Spec

\* ControlInv is an invariant of the specification.
LEMMA ControlInvariant == Spec => []ControlInv
<1>1. Init => ControlInv
  BY PlacesInit DEF Init, ControlInv
<1>. QED  BY <1>1, TypeInvariant, ControlStepInv, PTL DEF Spec

-----------------------------------------------------------------------------
(* The stop bound.                                                         *)

\* After a stop the gate is closed or has been asked to close, and through it
\* the policy actions sent plus the one being sent are at most one.
StopInv ==
    Stopped =>
        /\ stop_requested \/ (~executing /\ ~pending)
        /\ gated => moves + (IF InFlight THEN 1 ELSE 0) <= 1

\* Every step keeps the facts about a recorded stop.
LEMMA StopStepInv == TypeInv /\ TypeInv' /\ PlacesInv /\ StopInv /\ [Next]_vars => StopInv'
<1>. SUFFICES ASSUME TypeInv, TypeInv', PlacesInv, StopInv, [Next]_vars PROVE StopInv'
  OBVIOUS
<1>. USE DEF StopInv, Stopped, InFlight
<1>1. CASE UNCHANGED vars \/ Terminated
  BY <1>1 DEF Terminated, vars, stateVars, subVars, mainVars, engineVars, histVars
<1>2. CASE Receive \/ Signal \/ Tick
  BY <1>2 DEF Receive, Signal, Tick, stateVars, mainVars, engineVars, histVars
<1>3. CASE SubTest \/ SubNothing \/ SubApply
  BY <1>3 DEF SubTest, SubNothing, SubApply, stateVars, mainVars, engineVars, histVars
<1>4. CASE SubStop
  BY <1>4 DEF SubStop, mainVars, engineVars, PlacesInv, TypeInv, TypeOK
<1>5. CASE SubRecord
  \* the latest instruction is no longer a stop
  BY <1>5 DEF SubRecord, TypeInv, TypeOK
<1>6. CASE Capture \/ FlushRead \/ FlushApply \/ Enter \/ Join
  BY <1>6
  DEF Capture, FlushRead, FlushApply, Enter, Join, stateVars, engineVars, histVars, PlacesInv
<1>7. CASE DecideStop
  BY <1>7 DEF DecideStop, engineVars, histVars, PlacesInv
<1>8. CASE DecideRun
  \* without a stop request the gate is closed, so nothing drives
  BY <1>8 DEF DecideRun, Driving, Due, engineVars, PlacesInv
<1>9. CASE Reset
  BY <1>9 DEF Reset, stateVars, histVars, PlacesInv
<1>10. CASE Act
  \* an action in flight becomes an action sent
  <2>1. CASE active
    <3>1. moves' = (IF moves < 2 THEN moves + 1 ELSE moves) /\ ~InFlight'
      BY <1>10, <2>1 DEF Act, Infer
    <3>2. UNCHANGED stateVars /\ UNCHANGED <<trigger, gated>>
      BY <1>10 DEF Act
    <3>3. moves \in 0..2 /\ InFlight
      BY <1>10, <2>1 DEF Act, TypeInv, TypeOK
    <3>. HIDE DEF InFlight
    <3>. QED  BY <3>1, <3>2, <3>3 DEF stateVars
  <2>2. CASE ~active
    BY <1>10, <2>2 DEF Act, stateVars, PlacesInv
  <2>. QED  BY <2>1, <2>2
<1>11. CASE FreeRun
  BY <1>11 DEF FreeRun, PlacesInv, stateVars, mainVars
<1>12. CASE Finish
  BY <1>12 DEF Finish, stateVars, engineVars, histVars, TypeInv, TypeOK
<1>. QED
  BY <1>1, <1>2, <1>3, <1>4, <1>5, <1>6, <1>7, <1>8, <1>9, <1>10, <1>11, <1>12
  DEF Next, SubNext, MainNext, ControlStep

\* Where get_action was wrapped a stop is final: until the next trigger the
\* robot gets at most the one policy action already decided, in every
\* interleaving of _on_msg with _gated_get_action.
THEOREM StopIsFinal == Spec => []StopBound
<1>1. Init => StopInv
  BY DEF Init, StopInv, Stopped
<1>2. TypeInv /\ StopInv => StopBound
  BY DEF StopInv, StopBound, Stopped, InFlight, TypeInv, TypeOK
<1>. QED
  BY <1>1, <1>2, TypeInvariant, PlacesInvariant, StopStepInv, PTL DEF Spec

-----------------------------------------------------------------------------
(* No residue.                                                             *)

\* What is queued belongs to the latest trigger or is about to be reset; a
\* decided control step finds the engine empty or with its own chunk.
ResidueInv ==
    /\ main_pc # "reset" => reset_pending \/ queue = Empty \/ queue.n = trigger
    /\ InFlight => reset_pending \/ serving.n = trigger
    /\ main_pc = "act" /\ active => queue = Empty \/ queue.n = serving.n
    /\ NoResidue

\* Every step keeps the facts about the engine's queue, if resets complete.
LEMMA ResidueStepInv ==
    ASSUME FALSE \notin Resets
    PROVE  TypeInv /\ PlacesInv /\ ResidueInv /\ [Next]_vars => ResidueInv'
<1>. SUFFICES ASSUME TypeInv, PlacesInv, ResidueInv, [Next]_vars PROVE ResidueInv'
  OBVIOUS
<1>. USE DEF ResidueInv, NoResidue, InFlight
<1>1. CASE UNCHANGED vars \/ Terminated
  BY <1>1 DEF Terminated, vars, stateVars, subVars, mainVars, engineVars, histVars
<1>2. CASE Receive \/ Signal \/ Tick
  BY <1>2 DEF Receive, Signal, Tick, stateVars, mainVars, engineVars, histVars
<1>3. CASE SubTest \/ SubNothing \/ SubStop \/ SubApply
  BY <1>3
  DEF SubTest, SubNothing, SubStop, SubApply, stateVars, mainVars, engineVars, histVars
<1>4. CASE SubRecord
  \* the new trigger asks for a reset, whatever is queued
  BY <1>4 DEF SubRecord, mainVars, engineVars
<1>5. CASE Capture \/ FlushRead \/ FlushApply \/ Enter \/ Join
  BY <1>5
  DEF Capture, FlushRead, FlushApply, Enter, Join, stateVars, engineVars, histVars,
      PlacesInv
<1>6. CASE DecideStop
  BY <1>6 DEF DecideStop, engineVars, histVars
<1>7. CASE DecideRun
  \* a driving step serves the latest trigger, and resets first if asked to
  BY <1>7 DEF DecideRun, NeedsReset, ResetLeft, engineVars, PlacesInv
<1>8. CASE Reset
  <2>1. PICK completes \in Resets :
            /\ queue' = IF completes THEN Empty ELSE queue
            /\ main_pc' = "act"
            /\ UNCHANGED <<stateVars, active, histVars>>
    BY <1>8 DEF Reset
  <2>2. completes = TRUE
    BY <2>1, OutcomesAssumption, Zenon
  <2>. QED  BY <1>8, <2>1, <2>2 DEF Reset, stateVars, histVars
<1>9. CASE Act
  <2>1. CASE active
    BY <1>9, <2>1 DEF Act, Infer, stateVars, Empty
  <2>2. CASE ~active
    BY <1>9, <2>2 DEF Act, stateVars
  <2>. QED  BY <2>1, <2>2
<1>10. CASE FreeRun
  BY <1>10 DEF FreeRun, Infer, PlacesInv, stateVars, mainVars
<1>11. CASE Finish
  BY <1>11 DEF Finish, stateVars, engineVars, histVars
<1>. QED
  BY <1>1, <1>2, <1>3, <1>4, <1>5, <1>6, <1>7, <1>8, <1>9, <1>10, <1>11
  DEF Next, SubNext, MainNext, ControlStep

\* As long as engine.reset() completes, nothing an earlier window left in the
\* engine's queue is ever sent for a later trigger: the reset_pending protocol
\* between _on_msg and _gated_get_action loses no request.
THEOREM NothingLeaks ==
    ASSUME FALSE \notin Resets
    PROVE  Spec => []NoResidue
<1>1. Init => ResidueInv
  BY DEF Init, ResidueInv, NoResidue, InFlight
<1>2. ResidueInv => NoResidue
  BY DEF ResidueInv
<1>. QED
  BY <1>1, <1>2, TypeInvariant, PlacesInvariant, ResidueStepInv, PTL DEF Spec

-----------------------------------------------------------------------------
(* The flags.                                                              *)

\* The flags never ask for a window and a wait at once.
FlagsInv == ~(executing /\ pending)

\* _on_msg sets one of the flags and clears the other.
LEMMA FlagsStepInv == FlagsInv /\ [Next]_vars => FlagsInv'
<1>. SUFFICES ASSUME FlagsInv, [Next]_vars PROVE FlagsInv'
  OBVIOUS
<1>. USE DEF FlagsInv
<1>1. CASE SubStop \/ SubRecord \/ DecideStop \/ DecideRun
  BY <1>1 DEF SubStop, SubRecord, RunsAtOnce, DecideStop, DecideRun, Driving, Due
<1>2. CASE UNCHANGED stateVars
  BY <1>2 DEF stateVars
<1>. QED
  BY <1>1, <1>2
  DEF Next, SubNext, MainNext, ControlStep, Receive, SubTest, SubNothing, SubApply,
      Capture, FlushRead, FlushApply, Enter, Reset, Act, FreeRun, Join, Finish,
      Signal, Tick, Terminated, vars

\* FlagsInv is an invariant of the specification.
LEMMA FlagsInvariant == Spec => []FlagsInv
<1>1. Init => FlagsInv
  BY DEF Init, FlagsInv
<1>. QED  BY <1>1, FlagsStepInv, PTL DEF Spec

-----------------------------------------------------------------------------
(* The drive bound.                                                        *)

\* The window of a trigger that has already driven began no later than its
\* first driving step, and is not waiting to begin again.
DriveInv ==
    /\ exec_started_at <= clock
    /\ serving.since <= clock
    /\ serving.n <= trigger
    /\ pending => serving.n < trigger
    /\ executing => trigger > 0
    /\ serving.n = trigger /\ executing => exec_started_at <= serving.since
    /\ StepsInWindow

\* Every step keeps the facts about the running window.
LEMMA DriveStepInv ==
    TypeInv /\ TypeInv' /\ ControlInv /\ FlagsInv /\ DriveInv /\ [Next]_vars => DriveInv'
<1>. SUFFICES ASSUME TypeInv, TypeInv', ControlInv, FlagsInv, DriveInv, [Next]_vars
              PROVE  DriveInv'
  OBVIOUS
<1>. USE DEF DriveInv, StepsInWindow, InFlight
<1>1. CASE UNCHANGED vars \/ Terminated
  BY <1>1 DEF Terminated, vars, stateVars, subVars, mainVars, engineVars, histVars
<1>2. CASE Receive \/ Signal
  BY <1>2 DEF Receive, Signal, stateVars, mainVars, histVars
<1>3. CASE Tick
  BY <1>3 DEF Tick, stateVars, mainVars, histVars, TypeInv, TypeOK
<1>4. CASE SubTest \/ SubNothing \/ SubApply
  BY <1>4 DEF SubTest, SubNothing, SubApply, stateVars, mainVars, histVars
<1>5. CASE SubStop
  BY <1>5 DEF SubStop, mainVars
<1>6. CASE SubRecord
  \* the new trigger has not driven yet
  <2>1. trigger' > trigger /\ serving' = serving /\ serving.n < trigger'
    BY <1>6 DEF SubRecord, TypeInv, TypeOK
  <2>2. exec_started_at' <= clock' /\ UNCHANGED <<clock, now, active, main_pc>>
    BY <1>6 DEF SubRecord, ControlInv, PlacesInv, mainVars
  <2>3. trigger' \in Nat
    BY DEF TypeInv, TypeOK
  <2>. QED  BY <2>1, <2>2, <2>3 DEF TypeInv, TypeOK
<1>7. CASE Capture \/ FlushRead \/ FlushApply \/ Enter \/ Join
  BY <1>7
  DEF Capture, FlushRead, FlushApply, Enter, Join, stateVars, histVars, ControlInv, PlacesInv
<1>8. CASE DecideStop
  BY <1>8 DEF DecideStop, histVars, ControlInv, PlacesInv
<1>9. CASE DecideRun
  <2>. DEFINE since == IF serving.n = trigger THEN serving.since ELSE clock
  <2>1. /\ now <= clock /\ now \in Nat /\ clock \in Nat /\ trigger \in Nat
        /\ ExecSeconds > 0 /\ ExecSeconds \in Int
        /\ exec_started_at \in Int /\ serving.since \in Nat /\ serving.n \in Nat
    BY <1>9, TimesAssumption DEF DecideRun, ControlInv, PlacesInv, GateEnabled, TypeInv, TypeOK
  <2>2. CASE Driving
    <3>1. /\ serving' = [n |-> trigger, task |-> task, since |-> since]
          /\ pending' = (pending /\ ~Due)
          /\ exec_started_at' = Started
          /\ UNCHANGED <<trigger, clock, now>>
      BY <1>9, <2>2 DEF DecideRun
    <3>2. serving'.n = trigger /\ serving'.since = since
      BY <3>1
    <3>3. CASE Due
      \* a waiting trigger has not driven yet: it drives from now on
      <4>1. serving.n < trigger
        BY <3>3 DEF Due
      <4>2. since = clock /\ trigger > 0
        BY <2>1, <4>1
      <4>3. ~pending'
        BY <3>1, <3>3, Zenon
      <4>. QED  BY <2>1, <3>1, <3>2, <3>3, <4>2, <4>3 DEF Started
    <3>4. CASE ~Due
      <4>1. executing /\ now - exec_started_at < ExecSeconds
        BY <2>2, <3>4 DEF Driving
      <4>2. ~pending'
        BY <3>1, <4>1 DEF FlagsInv
      <4>. QED  BY <2>1, <3>1, <3>2, <3>4, <4>1, <4>2 DEF Started
    <3>. QED  BY <3>3, <3>4
  <2>3. CASE ~Driving
    BY <1>9, <2>1, <2>3 DEF DecideRun, Driving, Due, Started
  <2>. QED  BY <2>2, <2>3
<1>10. CASE Reset
  BY <1>10 DEF Reset, stateVars, histVars
<1>11. CASE Act \/ Finish
  BY <1>11 DEF Act, Finish, stateVars, histVars
<1>12. CASE FreeRun
  BY <1>12 DEF FreeRun, stateVars, mainVars
<1>. QED
  BY <1>1, <1>2, <1>3, <1>4, <1>5, <1>6, <1>7, <1>8, <1>9, <1>10, <1>11, <1>12
  DEF Next, SubNext, MainNext, ControlStep

\* No control step drives for a trigger whose reading of the clock is
\* ExecSeconds or more after that trigger's first driving decision, whatever
\* re-triggers, stops and delays come between (exec_started_at, pending and
\* executing together). It bounds the reading; SetbackBounded bounds the call.
THEOREM StepsStayInWindow == Spec => []StepsInWindow
<1>1. Init => DriveInv
  BY DEF Init, DriveInv, StepsInWindow, InFlight
<1>2. DriveInv => StepsInWindow
  BY DEF DriveInv
<1>. QED
  BY <1>1, <1>2, TypeInvariant, ControlInvariant, FlagsInvariant, DriveStepInv, PTL
  DEF Spec

-----------------------------------------------------------------------------
(* The start delay.                                                        *)

\* While a trigger waits, its start time is the time it was heard plus the
\* delay; once it runs, its window began no earlier, and no clock reading
\* that a decision can use is older than that.
DelayInv ==
    /\ pending => pending_start_at = heard_at + StartDelay
    /\ executing => /\ exec_started_at >= heard_at + StartDelay
                    /\ exec_started_at <= IF main_pc = "lock" THEN now ELSE clock

\* Every step keeps the facts about the waiting trigger.
LEMMA DelayStepInv ==
    ASSUME Delayed
    PROVE  TypeInv /\ ControlInv /\ DelayInv /\ [Next]_vars => DelayInv'
<1>. SUFFICES ASSUME TypeInv, ControlInv, DelayInv, [Next]_vars PROVE DelayInv'
  OBVIOUS
<1>. USE DEF DelayInv
<1>1. CASE UNCHANGED vars \/ Terminated
  BY <1>1 DEF Terminated, vars, stateVars, subVars, mainVars, engineVars, histVars
<1>2. CASE Receive \/ Signal
  BY <1>2 DEF Receive, Signal, stateVars, mainVars, histVars
<1>3. CASE Tick
  BY <1>3 DEF Tick, stateVars, mainVars, histVars, TypeInv, TypeOK
<1>4. CASE SubTest \/ SubNothing \/ SubApply
  BY <1>4 DEF SubTest, SubNothing, SubApply, stateVars, mainVars, histVars
<1>5. CASE SubStop
  BY <1>5 DEF SubStop
<1>6. CASE SubRecord
  BY <1>6 DEF SubRecord, RunsAtOnce
<1>7. CASE Capture \/ FlushRead \/ FlushApply \/ Enter \/ Join
  BY <1>7 DEF Capture, FlushRead, FlushApply, Enter, Join, stateVars, histVars
<1>8. CASE DecideStop
  BY <1>8 DEF DecideStop, histVars
<1>9. CASE DecideRun
  <2>1. /\ main_pc = "lock" /\ main_pc' # "lock"
        /\ pending' = (pending /\ ~Due)
        /\ exec_started_at' = Started
        /\ executing' = Driving
        /\ UNCHANGED <<pending_start_at, heard_at, now, clock>>
    BY <1>9 DEF DecideRun
  <2>2. /\ now \in Nat /\ clock \in Nat /\ now <= clock /\ heard_at \in Nat
        /\ StartDelay \in Int /\ exec_started_at \in Int
    BY TimesAssumption DEF ControlInv, PlacesInv, TypeInv, TypeOK
  <2>3. pending' => pending
    BY <2>1, Zenon
  <2>4. CASE Due
    BY <2>1, <2>2, <2>3, <2>4 DEF Started, Due
  <2>5. CASE ~Due
    <3>1. executing' => executing
      BY <2>1, <2>5, Zenon DEF Driving
    <3>. QED  BY <2>1, <2>2, <2>3, <2>5, <3>1 DEF Started
  <2>. QED  BY <2>4, <2>5
<1>10. CASE Reset
  BY <1>10 DEF Reset, stateVars, histVars
<1>11. CASE Act \/ Finish
  BY <1>11 DEF Act, Finish, stateVars, histVars
<1>12. CASE FreeRun
  BY <1>12 DEF FreeRun, stateVars, mainVars
<1>. QED
  BY <1>1, <1>2, <1>3, <1>4, <1>5, <1>6, <1>7, <1>8, <1>9, <1>10, <1>11, <1>12
  DEF Next, SubNext, MainNext, ControlStep

\* With a start delay, no control step drives the robot for a trigger before
\* the delay has passed since the trigger was heard, even if it interrupts a
\* running window (_on_msg's pending branch).
THEOREM DelayIsRespected ==
    ASSUME Delayed
    PROVE  Spec => DelayRespected
<1>1. Init => DelayInv
  BY DEF Init, DelayInv
<1>2. TypeInv /\ DelayInv /\ [Next]_vars
        => [DecideRun /\ active' => now >= heard_at + StartDelay]_vars
  <2>. SUFFICES ASSUME TypeInv, DelayInv, DecideRun, active'
                PROVE  now >= heard_at + StartDelay
    OBVIOUS
  <2>1. main_pc = "lock" /\ (Due \/ executing)
    BY DEF DecideRun, Driving
  <2>2. now \in Nat /\ heard_at \in Nat /\ StartDelay \in Int /\ exec_started_at \in Int
    BY TimesAssumption DEF TypeInv, TypeOK
  <2>. QED  BY <2>1, <2>2 DEF DelayInv, Due
<1>. QED
  BY <1>1, <1>2, TypeInvariant, ControlInvariant, DelayStepInv, PTL
  DEF Spec, DelayRespected

-----------------------------------------------------------------------------
(* The engine's task.                                                      *)

\* The text being applied is the task recorded with it; as long as there is no
\* task, the engine keeps its own; what the flush carries is the newest task,
\* or the engine has that already; and afterwards the engine has the newest
\* task, but for one that the flush has overwritten.
SyncInv ==
    /\ sub_pc = "apply" => task = text
    /\ task = None => engine_task = None /\ buffered = None
    /\ main_pc = "build" => ~updatable
    /\ main_pc = "flush" /\ trigger = 0 => buffered = task
    /\ main_pc = "flush" /\ updatable /\ sub_pc # "apply" =>
          buffered = task \/ engine_task = task
    /\ main_pc \in {"loop", "lock", "reset", "act"} /\ updatable /\ sub_pc # "apply" =>
          FlushWon \/ engine_task = task

\* Every step keeps the facts about the engine's task.
LEMMA SyncStepInv == TypeInv /\ PlacesInv /\ SyncInv /\ [Next]_vars => SyncInv'
<1>. SUFFICES ASSUME TypeInv, PlacesInv, SyncInv, [Next]_vars PROVE SyncInv'
  OBVIOUS
<1>. USE DEF SyncInv, FlushWon
<1>1. CASE UNCHANGED vars \/ Terminated
  BY <1>1 DEF Terminated, vars, stateVars, subVars, mainVars, engineVars, histVars
<1>2. CASE Receive \/ Signal \/ Tick
  BY <1>2 DEF Receive, Signal, Tick, stateVars, subVars, mainVars, engineVars, histVars
<1>3. CASE SubTest \/ SubNothing \/ SubStop
  BY <1>3 DEF SubTest, SubNothing, SubStop, stateVars, mainVars, engineVars, histVars
<1>4. CASE SubRecord
  \* the task is recorded, and applied next
  BY <1>4, TextsAssumption DEF SubRecord, mainVars, engineVars, TypeInv, TypeOK
<1>5. CASE SubApply
  BY <1>5, TextsAssumption DEF SubApply, TaskApplied, stateVars, mainVars, histVars, TypeInv
<1>6. CASE Capture
  <2>1. PICK found \in Captures :
            /\ updatable' => found
            /\ main_pc' = IF found THEN "captured" ELSE "loop"
            /\ UNCHANGED <<stateVars, subVars, buffered, engine_task, histVars>>
    BY <1>6, Zenon DEF Capture
  <2>2. updatable' => main_pc' = "captured"
    BY <2>1
  <2>3. main_pc' # "flush" /\ main_pc' # "build"
    BY <2>1
  <2>. QED  BY <2>1, <2>2, <2>3 DEF stateVars, subVars, histVars
<1>7. CASE FlushRead
  BY <1>7 DEF FlushRead, Latest, stateVars, subVars, engineVars, histVars
<1>8. CASE FlushApply
  \* what was read before a trigger was recorded may overwrite its task
  <2>1. /\ main_pc = "flush" /\ main_pc' = "loop" /\ buffered' = None
        /\ engine_task' = TaskApplied(buffered)
        /\ overwritten' = IF Overwrites THEN trigger ELSE 0
        /\ UNCHANGED <<task, sub_pc, text, updatable, trigger>>
    BY <1>8 DEF FlushApply, stateVars, subVars
  <2>2. task = None => TaskApplied(buffered) = None
    BY DEF TaskApplied
  <2>3. ASSUME updatable, sub_pc # "apply", engine_task' # task
        PROVE  overwritten' # 0 /\ overwritten' = trigger
    <3>1. buffered # task
      BY <2>1, <2>2, <2>3 DEF TaskApplied
    <3>2. engine_task = task /\ trigger # 0
      BY <2>1, <2>3, <3>1
    <3>3. Overwrites
      BY <2>1, <2>3, <3>2 DEF Overwrites
    <3>. QED  BY <2>1, <3>2, <3>3
  <2>. QED  BY <2>1, <2>2, <2>3
<1>9. CASE Enter \/ DecideStop \/ DecideRun
  BY <1>9 DEF Enter, DecideStop, DecideRun, stateVars, subVars, engineVars, histVars
<1>10. CASE Reset \/ Act \/ Finish \/ Join
  BY <1>10 DEF Reset, Act, Finish, Join, stateVars, subVars, engineVars, histVars
<1>11. CASE FreeRun
  BY <1>11 DEF FreeRun, stateVars, subVars, mainVars
<1>. QED
  BY <1>1, <1>2, <1>3, <1>4, <1>5, <1>6, <1>7, <1>8, <1>9, <1>10, <1>11
  DEF Next, SubNext, MainNext, ControlStep

\* The initial task is in order before the flush.
LEMMA SyncInit == Init => SyncInv
BY DEF Init, SyncInv

\* An engine with a `_task` has the newest task whenever the SUB thread is done
\* with it, triggers buffered during the build included, for every interleaving
\* of apply_task's two callers but one: the flush of hooked_build, read before
\* the latest trigger and written after that trigger's apply_task.
THEOREM EngineInSync == Spec => []SyncAfterFlush
<1>1. SyncInv => SyncAfterFlush
  BY DEF SyncInv, SyncAfterFlush, TaskInSync
<1>. QED
  BY <1>1, SyncInit, TypeInvariant, PlacesInvariant, SyncStepInv, PTL DEF Spec

-----------------------------------------------------------------------------
(* The refinement.                                                         *)

\* Outside the steps below nothing the abstract gate sees changes.
LEMMA GateStutters ==
    ASSUME UNCHANGED <<executing, pending, stop_requested, received_count, out, gated>>,
           InFlight' = InFlight
    PROVE  UNCHANGED Gate!vars
BY DEF Gate!vars, Mode

\* Every step of the adapter is a step of the one-shot gate or a stutter.
LEMMA GateStep ==
    ASSUME TypeInv, PlacesInv, FlagsInv, [Next]_vars
    PROVE  [Gate!Next]_(Gate!vars)
<1>. USE DEF PlacesInv, InFlight
<1>1. CASE UNCHANGED vars \/ Terminated
  BY <1>1, GateStutters DEF Terminated, vars, stateVars, mainVars, engineVars, histVars
<1>2. CASE Receive \/ Signal \/ Tick \/ SubTest \/ SubNothing \/ SubApply
  BY <1>2, GateStutters
  DEF Receive, Signal, Tick, SubTest, SubNothing, SubApply, stateVars, mainVars, engineVars, histVars
<1>3. CASE FlushRead \/ FlushApply \/ Enter \/ Join \/ Reset
  BY <1>3, GateStutters
  DEF FlushRead, FlushApply, Enter, Join, Reset, stateVars, engineVars, histVars
<1>11. CASE Capture
  \* the gate starts as it is installed: nothing has moved
  BY <1>11 DEF Capture, Gate!vars, Mode, stateVars, histVars
<1>4. CASE SubStop
  <2>1. Gate!Halt
    BY <1>4 DEF SubStop, Gate!Halt, Mode, mainVars, engineVars
  <2>. QED  BY <2>1 DEF Gate!Next
<1>5. CASE SubRecord
  \* a trigger that finds a stop unhandled is lost
  <2>1. CASE stop_requested
    <3>1. Gate!Halt
      BY <1>5, <2>1 DEF SubRecord, Gate!Halt, Mode, mainVars, engineVars
    <3>. QED  BY <3>1 DEF Gate!Next
  <2>2. CASE ~stop_requested
    <3>1. Gate!Trigger
      BY <1>5, <2>2 DEF SubRecord, RunsAtOnce, Gate!Trigger, Mode, mainVars, engineVars
    <3>. QED  BY <3>1 DEF Gate!Next
  <2>. QED  BY <2>1, <2>2
<1>6. CASE DecideStop
  BY <1>6 DEF DecideStop, Gate!vars, Mode, engineVars, histVars
<1>7. CASE DecideRun
  <2>a. /\ ~stop_requested /\ ~stop_requested' /\ InFlight = FALSE
        /\ UNCHANGED <<received_count, out, gated>>
        /\ pending' = (pending /\ ~Due) /\ executing' = Driving
        /\ active' = Driving /\ main_pc' \in {"reset", "act"}
    BY <1>7 DEF DecideRun, engineVars
  <2>b. InFlight' = Driving
    BY <2>a, Zenon DEF Driving
  <2>. HIDE DEF InFlight
  <2>1. CASE Due
    <3>1. Gate!Begin
      BY <2>a, <2>b, <2>1 DEF Gate!Begin, Mode, Due, Driving, FlagsInv
    <3>. QED  BY <3>1 DEF Gate!Next
  <2>2. CASE ~Due /\ executing /\ Driving
    <3>1. Gate!Commit
      BY <2>a, <2>b, <2>2 DEF Gate!Commit, Mode
    <3>. QED  BY <3>1 DEF Gate!Next
  <2>3. CASE ~Due /\ executing /\ ~Driving
    <3>0. InFlight' = FALSE /\ ~executing' /\ ~pending'
      BY <2>a, <2>b, <2>3, Zenon DEF FlagsInv, InFlight
    <3>1. Gate!Expire
      BY <2>a, <2>3, <3>0 DEF Gate!Expire, Mode
    <3>. QED  BY <3>1 DEF Gate!Next
  <2>4. CASE ~Due /\ ~executing
    <3>0. InFlight' = FALSE /\ ~executing' /\ (pending' <=> pending)
      BY <2>a, <2>b, <2>4, Zenon DEF Driving
    <3>1. UNCHANGED Gate!vars
      BY <2>a, <2>4, <3>0 DEF Gate!vars, Mode
    <3>. QED  BY <3>1
  <2>. QED  BY <2>1, <2>2, <2>3, <2>4
<1>8. CASE Act
  <2>1. CASE active
    <3>1. Gate!Move
      BY <1>8, <2>1 DEF Act, Infer, Gate!Move, Mode, stateVars
    <3>. QED  BY <3>1 DEF Gate!Next
  <2>2. CASE ~active
    <3>1. Gate!Hold
      BY <1>8, <2>2 DEF Act, Gate!Hold, Mode, stateVars
    <3>. QED  BY <3>1 DEF Gate!Next
  <2>. QED  BY <2>1, <2>2
<1>9. CASE FreeRun
  BY <1>9 DEF FreeRun, Gate!vars, Mode, stateVars, mainVars
<1>10. CASE Finish
  <2>1. CASE active
    <3>1. Gate!Abandon
      BY <1>10, <2>1 DEF Finish, Gate!Abandon, Mode, stateVars, engineVars, histVars
    <3>. QED  BY <3>1 DEF Gate!Next
  <2>2. CASE ~active
    BY <1>10, <2>2, GateStutters DEF Finish, stateVars, engineVars, histVars
  <2>. QED  BY <2>1, <2>2
<1>. QED
  BY <1>1, <1>2, <1>3, <1>4, <1>5, <1>6, <1>7, <1>8, <1>9, <1>10, <1>11
  DEF Next, SubNext, MainNext, ControlStep

\* The two threads, their flags and the lock implement the one-shot gate: a
\* window opens only for a trigger heard after the last stop, and the wrapped
\* get_action lets the policy drive only in steps decided inside a window.
THEOREM AdapterImplementsGate == Spec => ImplementsGate
<1>1. Init => Gate!Init
  BY DEF Init, Gate!Init, Mode, InFlight
<1>2. TypeInv /\ PlacesInv /\ FlagsInv /\ [Next]_vars => [Gate!Next]_(Gate!vars)
  BY GateStep
<1>. QED
  BY <1>1, <1>2, TypeInvariant, PlacesInvariant, FlagsInvariant, PTL
  DEF Spec, ImplementsGate, Gate!Spec

-----------------------------------------------------------------------------
(* AdapterFaults: what the adapter keeps when the clock is set back and    *)
(* engine.reset() fails, and how far the rest degrades. The lemmas about   *)
(* the adapter's own steps are used as they are.                           *)

allVars == <<vars, faultVars>>

-----------------------------------------------------------------------------
(* What carries over.                                                      *)

\* The types, with those of what is recorded about the faults.
FaultyTypes ==
    /\ TypeInv
    /\ setback \in Nat /\ began_at \in Nat /\ dirty \in BOOLEAN

\* What the adapter keeps without reading the clock twice.
KeptInv == PlacesInv /\ FlagsInv /\ StopInv /\ SyncInv

\* A step is one of the adapter's own, or only moves the clock back.
LEMMA FaultyStep ==
    ASSUME [FaultyNext]_allVars
    PROVE  \/ Next /\ Record
           \/ SetBack
           \/ UNCHANGED vars /\ UNCHANGED faultVars
BY DEF allVars, FaultyNext

\* All that SetBack changes is the clock and its record.
LEMMA SetBackOnlyClock ==
    ASSUME SetBack
    PROVE  /\ UNCHANGED <<stateVars, subVars, mainVars, engineVars, stop_event, histVars>>
           /\ UNCHANGED <<began_at, dirty>>
           /\ clock' = clock - 1 /\ setback' = setback + 1 /\ clock > 0
BY DEF SetBack

\* The fault variables, too, keep their types.
LEMMA FaultyTypeStep == FaultyTypes /\ [FaultyNext]_allVars => FaultyTypes'
<1>. SUFFICES ASSUME FaultyTypes, [FaultyNext]_allVars PROVE FaultyTypes'
  OBVIOUS
<1>0. TypeInv /\ clock \in Nat
  BY DEF FaultyTypes, TypeInv, TypeOK
<1>1. CASE Next /\ Record
  <2>1. TypeInv'
    BY <1>0, <1>1, TypeStep
  <2>2. setback' \in Nat /\ began_at' \in Nat
    BY <1>0, <1>1 DEF Record, TrueTime, FaultyTypes
  <2>3. dirty' \in BOOLEAN
    BY <1>1 DEF Record, FaultyTypes
  <2>. QED  BY <2>1, <2>2, <2>3 DEF FaultyTypes
<1>2. CASE SetBack
  <2>1. clock' \in Nat
    BY <1>0, <1>2, SetBackOnlyClock
  <2>2. TypeInv'
    BY <1>0, <1>2, <2>1, SetBackOnlyClock
    DEF TypeInv, TypeOK, FlagsOK, stateVars, subVars, mainVars, engineVars, histVars
  <2>3. setback' \in Nat /\ UNCHANGED <<began_at, dirty>>
    BY <1>2, SetBackOnlyClock DEF FaultyTypes
  <2>. QED  BY <2>2, <2>3 DEF FaultyTypes
<1>3. CASE UNCHANGED vars /\ UNCHANGED faultVars
  <2>1. TypeInv'
    BY <1>0, <1>3, TypeStep
  <2>. QED  BY <1>3, <2>1 DEF faultVars, FaultyTypes
<1>. QED  BY <1>1, <1>2, <1>3, FaultyStep

\* Neither fault disturbs the main thread's places, the flags, what follows a
\* stop, or the engine's task: none of them is decided by comparing readings.
LEMMA KeptStep ==
    FaultyTypes /\ FaultyTypes' /\ KeptInv /\ [FaultyNext]_allVars => KeptInv'
<1>. SUFFICES ASSUME FaultyTypes, FaultyTypes', KeptInv, [FaultyNext]_allVars
              PROVE  KeptInv'
  OBVIOUS
<1>0. TypeInv /\ TypeInv'
  BY DEF FaultyTypes
<1>1. CASE [Next]_vars
  BY <1>0, <1>1, PlacesStepInv, FlagsStepInv, StopStepInv, SyncStepInv DEF KeptInv
<1>2. CASE SetBack
  BY <1>2, SetBackOnlyClock
  DEF KeptInv, PlacesInv, FlagsInv, StopInv, SyncInv, FlushWon, Stopped, InFlight,
      stateVars, subVars, mainVars, engineVars, histVars
<1>. QED  BY <1>1, <1>2, FaultyStep

\* What an execution with faults consists of, but for its fairness.
LEMMA FaultySafety == FaultySpec => FaultyInit /\ [][FaultyNext]_allVars
BY PTL DEF FaultySpec, allVars

\* The adapter starts with them.
LEMMA FaultyStart == FaultyInit => FaultyTypes /\ KeptInv
<1>1. FaultyInit => FaultyTypes
  <2>1. FaultyInit => TypeInv
    BY TypeInit DEF FaultyInit
  <2>2. FaultyInit => setback \in Nat /\ began_at \in Nat
    BY DEF FaultyInit
  <2>3. FaultyInit => dirty \in BOOLEAN
    BY DEF FaultyInit
  <2>. QED  BY <2>1, <2>2, <2>3 DEF FaultyTypes
<1>2. FaultyInit => KeptInv
  BY PlacesInit, SyncInit DEF FaultyInit, KeptInv, Init, FlagsInv, StopInv, Stopped
<1>. QED  BY <1>1, <1>2

\* The types and the facts that carry over are invariants.
LEMMA FaultyInvariant == FaultySpec => [](FaultyTypes /\ KeptInv)
BY FaultyStart, FaultyTypeStep, KeptStep, FaultySafety, PTL

\* A stop is final even if the clock is set back and engine.reset() fails:
\* until the next trigger at most the policy action already decided is sent.
THEOREM StopIsFinalFaulty == FaultySpec => []StopBound
<1>1. FaultyTypes /\ KeptInv => StopBound
  BY DEF FaultyTypes, KeptInv, StopInv, StopBound, Stopped, InFlight, TypeInv, TypeOK
<1>. QED  BY <1>1, FaultyInvariant, PTL

\* A faulty step is one of the gate's, or nothing the gate can see.
LEMMA FaultyGateStep ==
    FaultyTypes /\ KeptInv /\ [FaultyNext]_allVars => [Gate!Next]_(Gate!vars)
<1>. SUFFICES ASSUME FaultyTypes, KeptInv, [FaultyNext]_allVars
              PROVE  [Gate!Next]_(Gate!vars)
  OBVIOUS
<1>1. CASE [Next]_vars
  BY <1>1, GateStep DEF FaultyTypes, KeptInv
<1>2. CASE SetBack
  BY <1>2, SetBackOnlyClock, GateStutters
  DEF InFlight, stateVars, mainVars, engineVars, histVars
<1>. QED  BY <1>1, <1>2, FaultyStep

\* The gate is closed at the start.
LEMMA FaultyGateStart == FaultyInit => Gate!Init
BY DEF FaultyInit, Init, Gate!Init, Mode, InFlight

\* Neither fault opens a window or lets the policy drive in a way the gate
\* does not allow: a clock set back delays _gated_get_action, no more.
THEOREM FaultyImplementsGate == FaultySpec => ImplementsGate
BY FaultyGateStart, FaultyGateStep, FaultyInvariant, FaultySafety, PTL
DEF ImplementsGate, Gate!Spec

-----------------------------------------------------------------------------
(* The drive bound, in true time.                                          *)

\* No reading is ahead of true time, which never goes back; if the threads take
\* their steps within a tick, the clock is at most a tick ahead of the reading
\* of the control step that is under way; the window of the trigger served
\* began no later than its first decision, and the reading that a driving step
\* was decided with is less than ExecSeconds after that.
TimeInv ==
    /\ now <= TrueTime /\ sub_now <= TrueTime /\ exec_started_at <= TrueTime
    /\ Prompt /\ main_pc \in {"lock", "reset", "act"} => clock <= now + 1
    /\ serving.n <= trigger
    /\ pending => serving.n < trigger
    /\ serving.n = trigger /\ executing => exec_started_at <= began_at
    /\ InFlight => now - began_at < ExecSeconds

\* Every step keeps the facts about the window in true time.
LEMMA TimeStep ==
    FaultyTypes /\ FaultyTypes' /\ KeptInv /\ TimeInv /\ [FaultyNext]_allVars => TimeInv'
<1>. SUFFICES ASSUME FaultyTypes, FaultyTypes', KeptInv, TimeInv, [FaultyNext]_allVars
              PROVE  TimeInv'
  OBVIOUS
<1>. USE DEF TimeInv, InFlight
<1>0. /\ clock \in Nat /\ now \in Nat /\ sub_now \in Nat /\ setback \in Nat
      /\ began_at \in Nat /\ exec_started_at \in Int
      /\ trigger \in Nat /\ serving.n \in Nat /\ ExecSeconds \in Int
      /\ TrueTime = clock + setback /\ TrueTime \in Nat
  BY TimesAssumption DEF FaultyTypes, TypeInv, TypeOK, TrueTime
<1>1. CASE SetBack
  <2>1. TrueTime' = TrueTime /\ setback' = setback + 1
    BY <1>0, <1>1, SetBackOnlyClock DEF TrueTime
  <2>. QED
    BY <1>0, <1>1, <2>1, SetBackOnlyClock DEF stateVars, subVars, mainVars, histVars
<1>2. CASE UNCHANGED vars /\ UNCHANGED faultVars
  BY <1>2 DEF vars, faultVars, TrueTime, stateVars, subVars, mainVars, histVars
<1>3. CASE Next /\ Record
  <2>. USE <1>3, <1>0
  <2>0. /\ setback' = setback
        /\ began_at' = IF serving'.n # serving.n THEN TrueTime ELSE began_at
    BY DEF Record
  <2>a. UNCHANGED serving => began_at' = began_at
    BY <2>0
  <2>d. TrueTime' = clock' + setback
    BY <2>0 DEF TrueTime
  <2>e. setback' = setback
    BY <2>0
  <2>1. CASE Terminated
    BY <2>1, <2>a, <2>d, <2>e
    DEF Terminated, vars, stateVars, subVars, mainVars, histVars
  <2>2. CASE Receive \/ Signal
    BY <2>2, <2>a, <2>d, <2>e
    DEF Receive, Signal, stateVars, subVars, mainVars, histVars
  <2>10. CASE Tick
    \* a tick passes during a control step only at its start
    <3>1. /\ UNCHANGED <<stateVars, subVars, mainVars, trigger, serving>>
          /\ clock' = clock + 1
          /\ Prompt /\ main_pc \in {"lock", "reset", "act"} => now = clock
      BY <2>10 DEF Tick, InTime, histVars
    <3>2. UNCHANGED <<exec_started_at, executing, pending, sub_now, main_pc, now, active>>
      BY <3>1 DEF stateVars, subVars, mainVars
    <3>3. TrueTime' = TrueTime + 1 /\ began_at' = began_at
      BY <3>1, <2>a, <2>d
    <3>4. Prompt /\ main_pc' \in {"lock", "reset", "act"} => clock' <= now' + 1
      BY <3>1, <3>2
    <3>. QED  BY <3>1, <3>2, <3>3, <3>4
  <2>3. CASE SubTest \/ SubNothing \/ SubApply
    BY <2>3, <2>a, <2>d, <2>e
    DEF SubTest, SubNothing, SubApply, stateVars, mainVars, histVars
  <2>9. CASE SubStop
    BY <2>9, <2>a, <2>d, <2>e DEF SubStop, mainVars
  <2>4. CASE SubRecord
    <3>1. trigger' > trigger /\ serving' = serving /\ serving.n < trigger'
      BY <2>4 DEF SubRecord, FaultyTypes, TypeInv, TypeOK
    <3>2. /\ exec_started_at' <= TrueTime' /\ TrueTime' = TrueTime /\ sub_now' = 0
          /\ UNCHANGED <<now, active, main_pc, clock>>
      BY <2>4, <2>d DEF SubRecord, mainVars
    <3>3. trigger' \in Nat
      BY DEF FaultyTypes, TypeInv, TypeOK
    <3>. QED  BY <2>0, <3>1, <3>2, <3>3, <2>a
  <2>5. CASE Capture \/ FlushRead \/ FlushApply \/ Join
    <3>1. /\ UNCHANGED <<stateVars, sub_now, now, active, clock, trigger, serving>>
          /\ main_pc' \notin {"lock", "reset", "act"}
      BY <2>5 DEF Capture, FlushRead, FlushApply, Join, subVars, histVars
    <3>. QED  BY <3>1, <2>a, <2>d, <2>e DEF stateVars
  <2>6. CASE Enter
    \* the clock is read
    <3>1. now' = clock /\ clock' = clock /\ main_pc' = "lock"
      BY <2>6 DEF Enter
    <3>. QED  BY <2>0, <2>6, <3>1, <2>a, <2>d DEF Enter, stateVars, subVars, histVars
  <2>7. CASE DecideStop \/ Reset \/ Act \/ Finish \/ FreeRun
    <3>1. /\ UNCHANGED <<exec_started_at, trigger, serving, sub_now, clock>>
          /\ now' \in {now, 0} /\ main_pc' # "lock"
          /\ main_pc' \in {"reset", "act"} =>
                now' = now /\ main_pc \in {"lock", "reset", "act"}
          /\ executing' => executing
          /\ pending' => pending
          /\ InFlight' => InFlight /\ main_pc = "reset" /\ main_pc' = "act"
      BY <2>7
      DEF DecideStop, Reset, Act, Finish, FreeRun, stateVars, subVars, mainVars, histVars
    <3>2. TrueTime' = TrueTime /\ began_at' = began_at /\ now' <= TrueTime
      BY <3>1, <2>a, <2>d
    <3>3. Prompt /\ main_pc' \in {"lock", "reset", "act"} => clock' <= now' + 1
      <4>. SUFFICES ASSUME Prompt, main_pc' \in {"reset", "act"} PROVE clock' <= now' + 1
        BY <3>1
      <4>. QED  BY <3>1
    <3>4. InFlight' => now' - began_at' < ExecSeconds
      BY <3>1, <3>2
    <3>. QED  BY <3>1, <3>2, <3>3, <3>4
  <2>8. CASE DecideRun
    <3>1. /\ main_pc = "lock" /\ main_pc' \in {"reset", "act"}
          /\ UNCHANGED <<trigger, clock, now, sub_now>>
          /\ exec_started_at' = Started /\ executing' = Driving /\ active' = Driving
          /\ serving' = IF Driving
                           THEN [n |-> trigger, task |-> task,
                                 since |-> IF serving.n = trigger THEN serving.since
                                           ELSE clock]
                           ELSE serving
      BY <2>8 DEF DecideRun, subVars
    <3>2. pending' => pending /\ ~Due
      BY <2>8, Zenon DEF DecideRun
    <3>3. TrueTime' = TrueTime /\ ExecSeconds > 0
      BY <2>0, <2>d, <3>1 DEF KeptInv, PlacesInv, GateEnabled
    <3>4. exec_started_at' \in Int /\ exec_started_at' <= TrueTime
      BY <3>1 DEF Started
    <3>5. CASE ~Driving
      BY <2>a, <3>1, <3>2, <3>3, <3>4, <3>5
    <3>6. CASE Driving
      <4>1. serving'.n = trigger
        BY <3>1, <3>6
      <4>2. CASE serving.n = trigger
        \* the window was open before: the reading is inside it
        <5>1. ~Due
          BY <4>2 DEF Due
        <5>2. executing /\ now - exec_started_at < ExecSeconds
          BY <3>6, <5>1 DEF Driving
        <5>3. exec_started_at' = exec_started_at /\ began_at' = began_at
          BY <2>0, <3>1, <4>1, <4>2, <5>1 DEF Started
        <5>4. ~pending'
          BY <5>2 , <3>2 DEF KeptInv, FlagsInv
        <5>. QED  BY <2>0, <3>1, <3>3, <3>4, <4>1, <4>2, <5>2, <5>3, <5>4
      <4>3. CASE serving.n # trigger
        \* the trigger's first decision
        <5>1. began_at' = TrueTime
          BY <2>0, <4>1, <4>3
        <5>2. ~pending'
          BY <3>2, <3>6 DEF Driving, KeptInv, FlagsInv
        <5>. QED  BY <2>0, <3>1, <3>3, <3>4, <4>1, <5>1, <5>2
      <4>. QED  BY <4>2, <4>3
    <3>. QED  BY <3>5, <3>6
  <2>. QED
    BY <2>1, <2>2, <2>3, <2>4, <2>5, <2>6, <2>7, <2>8, <2>9, <2>10
    DEF Next, SubNext, MainNext, ControlStep
<1>. QED  BY <1>1, <1>2, <1>3, FaultyStep

\* The facts about the window in true time are an invariant.
LEMMA TimeInvariant == FaultySpec => []TimeInv
<1>1. FaultyInit => TimeInv
  BY DEF FaultyInit, Init, TimeInv, TrueTime, InFlight
<1>. QED  BY <1>1, FaultyInvariant, TimeStep, FaultySafety, PTL

\* However often the clock is set back, the policy is called for a trigger for at
\* most ExecSeconds plus those setbacks, in true time and at the moment of the
\* call, if a control step takes no more than a tick: without that the code has
\* no bound, since it decides with the reading of the step's start
\* (_gated_get_action).
THEOREM SetbackBounded ==
    ASSUME Prompt
    PROVE  FaultySpec => []SetbackBoundsDrive
<1>1. FaultyTypes /\ TimeInv => SetbackBoundsDrive
  <2>. SUFFICES ASSUME FaultyTypes, TimeInv, InFlight
                PROVE  TrueTime - began_at <= ExecSeconds + setback
    BY DEF SetbackBoundsDrive
  <2>1. clock <= now + 1 /\ now - began_at < ExecSeconds
    BY DEF TimeInv, InFlight
  <2>2. /\ clock \in Nat /\ now \in Nat /\ setback \in Nat /\ began_at \in Nat
        /\ ExecSeconds \in Int
    BY TimesAssumption DEF FaultyTypes, TypeInv, TypeOK
  <2>. QED  BY <2>1, <2>2 DEF TrueTime
<1>. QED  BY <1>1, TimeInvariant, FaultyInvariant, PTL

-----------------------------------------------------------------------------
(* Silence before the first trigger.                                       *)

\* Before the first trigger no flag asks for a window and no call is decided.
SilentInv ==
    /\ trigger = 0 => ~executing /\ ~pending /\ ~active
    /\ SilentUnlessFree

\* Every step keeps the gate closed before the first trigger.
LEMMA SilentStep ==
    ASSUME GateEnabled
    PROVE  FaultyTypes /\ KeptInv /\ SilentInv /\ [FaultyNext]_allVars => SilentInv'
<1>. SUFFICES ASSUME FaultyTypes, KeptInv, SilentInv, [FaultyNext]_allVars
              PROVE  SilentInv'
  OBVIOUS
<1>. USE DEF SilentInv, SilentUnlessFree
<1>1. CASE SetBack
  BY <1>1, SetBackOnlyClock DEF stateVars, mainVars, engineVars, histVars
<1>2. CASE UNCHANGED vars \/ Terminated
  BY <1>2 DEF Terminated, vars, stateVars, mainVars, engineVars, histVars
<1>3. CASE Receive \/ Signal \/ Tick
  BY <1>3 DEF Receive, Signal, Tick, stateVars, mainVars, engineVars, histVars
<1>4. CASE SubTest \/ SubNothing \/ SubStop \/ SubApply
  BY <1>4
  DEF SubTest, SubNothing, SubStop, SubApply, stateVars, mainVars, engineVars, histVars
<1>5. CASE SubRecord
  \* the first trigger, if it is the first
  <2>1. trigger' > 0
    BY <1>5 DEF SubRecord, FaultyTypes, TypeInv, TypeOK
  <2>. QED  BY <2>1
<1>6. CASE Capture
  \* nothing has moved when the engine is captured
  <2>1. main_pc = "build" /\ UNCHANGED <<stateVars, active, histVars>>
    BY <1>6 DEF Capture
  <2>2. out.kind = "none"
    BY <2>1 DEF KeptInv, PlacesInv
  <2>. QED  BY <2>1, <2>2 DEF stateVars, histVars
<1>7. CASE FlushRead \/ FlushApply \/ Enter \/ Join \/ Reset
  BY <1>7
  DEF FlushRead, FlushApply, Enter, Join, Reset, stateVars, engineVars, histVars
<1>8. CASE DecideStop
  BY <1>8 DEF DecideStop, engineVars, histVars
<1>9. CASE DecideRun
  <2>1. /\ executing' = Driving /\ active' = Driving
        /\ UNCHANGED <<trigger, out, engine_ref>>
    BY <1>9 DEF DecideRun, engineVars
  <2>2. pending' => pending
    BY <1>9, Zenon DEF DecideRun
  <2>3. Driving => executing \/ pending
    BY DEF Driving, Due
  <2>. QED  BY <2>1, <2>2, <2>3
<1>10. CASE Act
  <2>1. CASE active
    BY <1>10, <2>1 DEF Act, stateVars
  <2>2. CASE ~active
    <3>1. out'.kind = "hold" /\ active' = FALSE /\ UNCHANGED stateVars
      BY <1>10, <2>2 DEF Act
    <3>. QED  BY <3>1, <2>2, <1>10 DEF Act, stateVars
  <2>. QED  BY <2>1, <2>2
<1>11. CASE FreeRun
  \* an engine that runs by itself was not captured
  <2>1. ~engine_ref /\ UNCHANGED <<engine_ref, stateVars, mainVars, trigger>>
    BY <1>11 DEF FreeRun, KeptInv, PlacesInv
  <2>. QED  BY <2>1 DEF stateVars, mainVars
<1>12. CASE Finish
  BY <1>12 DEF Finish, stateVars, engineVars, histVars
<1>. QED
  BY <1>1, <1>2, <1>3, <1>4, <1>5, <1>6, <1>7, <1>8, <1>9, <1>10, <1>11, <1>12, FaultyStep
  DEF Next, SubNext, MainNext, ControlStep

\* With the gate enabled the robot moves before the first trigger only if the
\* engine could not be captured (hooked_build's two ways out).
THEOREM SilentBeforeTriggers ==
    ASSUME GateEnabled
    PROVE  FaultySpec => []SilentUnlessFree
<1>1. FaultyInit => SilentInv
  BY DEF FaultyInit, Init, SilentInv, SilentUnlessFree
<1>2. SilentInv => SilentUnlessFree
  BY DEF SilentInv
<1>. QED  BY <1>1, <1>2, FaultyInvariant, SilentStep, FaultySafety, PTL

-----------------------------------------------------------------------------
(* Failed resets.                                                          *)

\* Unless the last reset failed, what is queued belongs to the latest trigger
\* or is about to be reset, and a decided step finds none but its own chunk.
DirtyInv ==
    /\ main_pc # "reset" => dirty \/ reset_pending \/ queue = Empty \/ queue.n = trigger
    /\ InFlight => reset_pending \/ serving.n = trigger
    /\ main_pc = "act" /\ active => dirty \/ queue = Empty \/ queue.n = serving.n

\* Every step keeps the facts about the queue, whether resets complete or not.
LEMMA DirtyStep == KeptInv /\ DirtyInv /\ [FaultyNext]_allVars => DirtyInv'
<1>. SUFFICES ASSUME KeptInv, DirtyInv, [FaultyNext]_allVars PROVE DirtyInv'
  OBVIOUS
<1>. USE DEF DirtyInv, InFlight
<1>1. CASE SetBack
  BY <1>1, SetBackOnlyClock DEF stateVars, mainVars, engineVars, histVars
<1>2. CASE UNCHANGED vars /\ UNCHANGED faultVars
  BY <1>2 DEF vars, faultVars, stateVars, mainVars, engineVars, histVars
<1>3. CASE Next /\ Record
  <2>0. /\ main_pc # "reset" => (dirty' <=> dirty)
        /\ main_pc = "reset" => (dirty' <=> queue' # Empty)
    BY <1>3 DEF Record
  <2>1. CASE Receive \/ Signal \/ Tick \/ Terminated
    BY <2>0, <2>1
    DEF Receive, Signal, Tick, Terminated, vars, stateVars, mainVars, engineVars, histVars
  <2>2. CASE SubTest \/ SubNothing \/ SubStop \/ SubApply
    BY <2>0, <2>2
    DEF SubTest, SubNothing, SubStop, SubApply, stateVars, mainVars, engineVars, histVars
  <2>3. CASE SubRecord
    BY <2>0, <2>3 DEF SubRecord, mainVars, engineVars
  <2>4. CASE Capture \/ FlushRead \/ FlushApply \/ Enter \/ Join
    BY <2>0, <2>4
    DEF Capture, FlushRead, FlushApply, Enter, Join, stateVars, engineVars, histVars,
        KeptInv, PlacesInv
  <2>5. CASE DecideStop
    BY <2>0, <2>5 DEF DecideStop, engineVars, histVars
  <2>6. CASE DecideRun
    BY <2>0, <2>6 DEF DecideRun, NeedsReset, ResetLeft, engineVars, KeptInv, PlacesInv
  <2>7. CASE Reset
    \* a reset that did not complete is recorded unless nothing was queued
    BY <2>0, <2>7 DEF Reset, stateVars, histVars
  <2>8. CASE Act
    <3>1. CASE active
      BY <2>0, <2>8, <3>1 DEF Act, Infer, stateVars, Empty
    <3>2. CASE ~active
      BY <2>0, <2>8, <3>2 DEF Act, stateVars
    <3>. QED  BY <3>1, <3>2
  <2>9. CASE FreeRun
    BY <2>0, <2>9 DEF FreeRun, Infer, KeptInv, PlacesInv, stateVars, mainVars
  <2>10. CASE Finish
    BY <2>0, <2>10 DEF Finish, stateVars, engineVars, histVars
  <2>. QED
    BY <1>3, <2>1, <2>2, <2>3, <2>4, <2>5, <2>6, <2>7, <2>8, <2>9, <2>10
    DEF Next, SubNext, MainNext, ControlStep
<1>. QED  BY <1>1, <1>2, <1>3, FaultyStep

\* The facts about the queue are an invariant.
LEMMA DirtyInvariant == FaultySpec => []DirtyInv
<1>1. FaultyInit => DirtyInv
  BY DEF FaultyInit, Init, DirtyInv, InFlight
<1>. QED  BY <1>1, FaultyInvariant, DirtyStep, FaultySafety, PTL

\* A chunk of an earlier window reaches the robot under a later trigger only
\* if the last engine.reset() failed and left something queued: the swallowed
\* exception is the only way round the reset (do_reset).
THEOREM LeaksNeedFailedReset == FaultySpec => LeaksOnlyIfDirty
<1>1. DirtyInv /\ [FaultyNext]_allVars
        => [Act /\ active /\ ~dirty => out'.chunk.n = serving.n]_vars
  <2>. SUFFICES ASSUME DirtyInv, Act, active, ~dirty
                PROVE  out'.chunk.n = serving.n
    OBVIOUS
  <2>1. queue = Empty \/ queue.n = serving.n
    BY DEF DirtyInv, Act
  <2>. QED  BY <2>1 DEF Act, Infer
<1>. QED  BY <1>1, DirtyInvariant, FaultySafety, PTL DEF LeaksOnlyIfDirty

-----------------------------------------------------------------------------
(* The task of a chunk.                                                    *)

\* As long as the clock was never set back: the delay's facts hold, the SUB
\* thread is never a tick behind, and a step decided for the latest trigger
\* read the clock after that trigger was heard.
PromptInv ==
    /\ ControlInv /\ DelayInv
    /\ sub_pc = "record" => sub_now = clock
    /\ sub_pc = "apply" => heard_at = clock
    /\ InFlight /\ serving.n = trigger => now > heard_at

\* Only a trigger opens a window, and what is served under the latest trigger is
\* its task.
ServedInv ==
    /\ executing \/ pending \/ active => trigger > 0
    /\ serving.n = trigger /\ trigger > 0 => serving.task = task

\* Both, the first where the adapter is prompt and the clock was never set back.
OwnInv ==
    /\ Prompt /\ Delayed /\ setback = 0 => PromptInv
    /\ ServedInv

\* A step of a prompt adapter keeps the facts about its readings.
LEMMA PromptStep ==
    ASSUME Prompt, Delayed
    PROVE  TypeInv /\ PromptInv /\ serving.n <= trigger /\ [Next]_vars => PromptInv'
<1>. SUFFICES ASSUME TypeInv, PromptInv, serving.n <= trigger, [Next]_vars PROVE PromptInv'
  OBVIOUS
<1>1. ControlInv' /\ DelayInv'
  BY ControlStepInv, DelayStepInv DEF PromptInv
<1>. DEFINE Readings ==
        /\ sub_pc = "record" => sub_now = clock
        /\ sub_pc = "apply" => heard_at = clock
        /\ InFlight /\ serving.n = trigger => now > heard_at
<1>2. Readings /\ ControlInv /\ DelayInv
  BY DEF PromptInv
<1>3. Readings'
  <2>. USE <1>2 DEF InFlight
  <2>1. CASE UNCHANGED vars \/ Terminated
    BY <2>1 DEF Terminated, vars, stateVars, subVars, mainVars, engineVars, histVars
  <2>2. CASE Receive
    \* the clock is read as the instruction is received
    BY <2>2 DEF Receive, mainVars, histVars
  <2>3. CASE Signal
    BY <2>3 DEF Signal, subVars, mainVars, histVars
  <2>4. CASE Tick
    \* no tick passes while an instruction is being recorded or applied
    BY <2>4 DEF Tick, InTime, subVars, mainVars, histVars
  <2>5. CASE SubTest \/ SubNothing \/ SubStop \/ SubApply
    BY <2>5 DEF SubTest, SubNothing, SubStop, SubApply, mainVars, histVars
  <2>6. CASE SubRecord
    \* the new trigger has not been served
    <3>1. trigger' > serving'.n /\ serving'.n \in Nat /\ trigger' \in Nat
      BY <2>6 DEF SubRecord, TypeInv, TypeOK
    <3>. QED  BY <2>6, <3>1 DEF SubRecord
  <2>7. CASE Capture \/ FlushRead \/ FlushApply \/ Enter \/ Join \/ DecideStop \/ Finish
    BY <2>7
    DEF Capture, FlushRead, FlushApply, Enter, Join, DecideStop, Finish, subVars,
        mainVars, histVars, ControlInv, PlacesInv
  <2>8. CASE DecideRun
    <3>1. UNCHANGED <<sub_pc, sub_now, clock, heard_at, now>> /\ active' = Driving
      BY <2>8 DEF DecideRun, subVars
    <3>2. Driving => now >= heard_at + StartDelay
      <4>1. now \in Nat /\ heard_at \in Nat /\ StartDelay \in Int /\ exec_started_at \in Int
        BY TimesAssumption DEF TypeInv, TypeOK
      <4>. QED  BY <2>8, <4>1 DEF DecideRun, Driving, Due, DelayInv
    <3>3. now \in Nat /\ heard_at \in Nat /\ StartDelay \in Int /\ StartDelay > 0
      BY TimesAssumption DEF TypeInv, TypeOK, Delayed
    <3>. QED  BY <3>1, <3>2, <3>3
  <2>9. CASE Reset
    BY <2>9 DEF Reset, subVars, histVars
  <2>10. CASE Act
    BY <2>10 DEF Act, subVars
  <2>11. CASE FreeRun
    BY <2>11 DEF FreeRun, subVars, mainVars, ControlInv, PlacesInv
  <2>. QED
    BY <2>1, <2>2, <2>3, <2>4, <2>5, <2>6, <2>7, <2>8, <2>9, <2>10, <2>11
    DEF Next, SubNext, MainNext, ControlStep
<1>. QED  BY <1>1, <1>3 DEF PromptInv

\* A step keeps the facts about the trigger being served.
LEMMA ServedStep ==
    TypeInv /\ serving.n <= trigger /\ ServedInv /\ [Next]_vars => ServedInv'
<1>. SUFFICES ASSUME TypeInv, serving.n <= trigger, ServedInv, [Next]_vars PROVE ServedInv'
  OBVIOUS
<1>. USE DEF ServedInv
<1>1. CASE SubRecord
  <2>1. trigger' > serving'.n /\ serving'.n \in Nat /\ trigger' \in Nat /\ trigger' > 0
    BY <1>1 DEF SubRecord, TypeInv, TypeOK
  <2>. QED  BY <2>1
<1>2. CASE DecideRun
  <2>1. /\ executing' = Driving /\ active' = Driving /\ UNCHANGED <<trigger, task>>
        /\ serving'.n = trigger => serving'.task = task \/ serving' = serving
    BY <1>2 DEF DecideRun
  <2>2. pending' => pending
    BY <1>2, Zenon DEF DecideRun
  <2>3. Driving => executing \/ pending
    BY DEF Driving, Due
  <2>. QED  BY <2>1, <2>2, <2>3
<1>3. CASE /\ UNCHANGED <<task, trigger, serving>>
           /\ (executing' => executing) /\ (pending' => pending) /\ (active' => active)
  BY <1>3
<1>4. CASE Receive \/ SubTest \/ SubNothing \/ SubStop \/ SubApply
  BY <1>3, <1>4
  DEF Receive, SubTest, SubNothing, SubStop, SubApply, stateVars, mainVars, histVars
<1>5. CASE Capture \/ FlushRead \/ FlushApply \/ Enter \/ DecideStop \/ Reset \/ Join
  BY <1>3, <1>5
  DEF Capture, FlushRead, FlushApply, Enter, DecideStop, Reset, Join, stateVars, histVars
<1>6. CASE Act \/ FreeRun \/ Finish
  BY <1>3, <1>6 DEF Act, FreeRun, Finish, stateVars, mainVars, histVars
<1>7. CASE Signal \/ Tick \/ Terminated \/ UNCHANGED vars
  BY <1>3, <1>7 DEF Signal, Tick, Terminated, vars, stateVars, mainVars, histVars
<1>. QED
  BY <1>1, <1>2, <1>4, <1>5, <1>6, <1>7 DEF Next, SubNext, MainNext, ControlStep

\* Every step, a set-back clock included, keeps the facts about the task served.
LEMMA OwnStep ==
    FaultyTypes /\ FaultyTypes' /\ TimeInv /\ OwnInv /\ [FaultyNext]_allVars => OwnInv'
<1>. SUFFICES ASSUME FaultyTypes, FaultyTypes', TimeInv, OwnInv, [FaultyNext]_allVars
              PROVE  OwnInv'
  OBVIOUS
<1>0. TypeInv /\ serving.n <= trigger /\ setback \in Nat
  BY DEF FaultyTypes, TimeInv
<1>1. CASE SetBack
  \* from now on the clock has been set back
  <2>1. setback' # 0
    BY <1>0, <1>1, SetBackOnlyClock
  <2>2. ServedInv'
    BY <1>1, SetBackOnlyClock DEF OwnInv, ServedInv, stateVars, mainVars, histVars
  <2>. QED  BY <2>1, <2>2 DEF OwnInv
<1>2. CASE [Next]_vars /\ setback' = setback
  <2>1. ASSUME Prompt, Delayed, setback' = 0
        PROVE  PromptInv'
    <3>1. PromptInv
      BY <1>2, <2>1 DEF OwnInv
    <3>. QED  BY <1>0, <1>2, <2>1, <3>1, PromptStep
  <2>2. ServedInv'
    BY <1>0, <1>2, ServedStep DEF OwnInv
  <2>3. Delayed' <=> Delayed
    BY DEF Delayed, GateEnabled
  <2>. QED  BY <2>1, <2>2, <2>3 DEF OwnInv
<1>. QED  BY <1>1, <1>2, FaultyStep DEF Record, faultVars

\* A chunk computed for the latest trigger uses that trigger's task, for an engine
\* with a `_task` that the build's flush has not overwritten, unless the policy is
\* called while the SUB thread is between recording the trigger and applying its
\* task. With a start delay, threads that take their steps within a tick, and a
\* clock that was never set back, that does not happen either: the delay outlasts
\* the gap (_on_msg, apply_task).
THEOREM ChunksUseOwnTask == FaultySpec => OwnTask
<1>1. FaultyInit => OwnInv
  BY PlacesInit
  DEF FaultyInit, Init, OwnInv, ServedInv, PromptInv, ControlInv, DelayInv, InFlight
<1>2. FaultyTypes /\ KeptInv /\ OwnInv /\ [FaultyNext]_allVars
        => [Act /\ active /\ queue = Empty /\ trigger = serving.n /\ updatable /\ ~FlushWon
            => Overtaken \/ out'.chunk.task = serving.task]_vars
  <2>. SUFFICES ASSUME FaultyTypes, KeptInv, OwnInv, Act, active, queue = Empty,
                       trigger = serving.n, updatable, ~FlushWon, ~Overtaken
                PROVE  out'.chunk.task = serving.task
    OBVIOUS
  <2>1. out'.chunk.task = engine_task
    BY DEF Act, Infer
  <2>2. /\ InFlight /\ main_pc = "act"
        /\ sub_pc # "apply" => engine_task = task
    BY DEF Act, InFlight, KeptInv, SyncInv
  <2>3. sub_pc # "apply"
    <3>. SUFFICES ASSUME sub_pc = "apply", Prompt, Delayed, setback = 0 PROVE FALSE
      BY DEF Overtaken
    <3>1. now <= clock /\ now > heard_at /\ heard_at = clock
      BY <2>2 DEF OwnInv, PromptInv, ControlInv
    <3>2. now \in Nat /\ clock \in Nat /\ heard_at \in Nat
      BY DEF FaultyTypes, TypeInv, TypeOK
    <3>. QED  BY <3>1, <3>2
  <2>4. serving.task = task
    BY DEF OwnInv, ServedInv
  <2>. QED  BY <2>1, <2>2, <2>3, <2>4
<1>. QED
  BY <1>1, <1>2, FaultyInvariant, TimeInvariant, OwnStep, FaultySafety, PTL DEF OwnTask
=============================================================================
