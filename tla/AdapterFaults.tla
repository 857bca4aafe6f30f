--------------------------- MODULE AdapterFaults ---------------------------
(***************************************************************************)
(* RolloutAdapter where what it relies on misbehaves.  time.time() is not  *)
(* monotone: the wall clock may be set back under a wait or a window.      *)
(* engine.reset() may raise: the code swallows the exception after it has  *)
(* cleared reset_pending (Resets).  The engine may not be captured: then   *)
(* there is no gate (Captures).  It may have no `_task`: then the robot is *)
(* driven on a task of the engine's own (Updatable).                       *)
(*                                                                         *)
(* True time is what the clock shows plus all it was set back.             *)
(***************************************************************************)
EXTENDS RolloutAdapter

CONSTANT MaxSetback      \* bound on how far the clock is set back in all

ASSUME SetbackAssumption == MaxSetback \in Nat

VARIABLES
    setback,       \* how far the clock has been set back
    \* history: true time when the first step for the served trigger was
    \* decided; whether the last engine.reset() left something queued
    began_at, dirty

faultVars == <<setback, began_at, dirty>>

TrueTime == clock + setback

FaultyInit == Init /\ setback = 0 /\ began_at = 0 /\ dirty = FALSE

\* The clock is set back by a tick, at any moment.
SetBack ==
    /\ Alive /\ clock > 0 /\ setback < MaxSetback
    /\ clock' = clock - 1 /\ setback' = setback + 1
    /\ UNCHANGED <<stateVars, subVars, mainVars, engineVars, stop_event, histVars,
                   began_at, dirty>>

\* What a step of the adapter leaves behind for the properties
Record ==
    /\ began_at' = IF serving'.n # serving.n THEN TrueTime ELSE began_at
    /\ dirty' = IF main_pc = "reset" THEN queue' # Empty ELSE dirty
    /\ UNCHANGED setback

FaultyNext == (Next /\ Record) \/ SetBack

\* The fairness is the adapter's own; nobody owes a correction of the clock.
FaultySpec ==
    /\ FaultyInit /\ [][FaultyNext]_<<vars, faultVars>>
    /\ WF_vars(SubNext) /\ WF_vars(MainNext) /\ SF_vars(Tick)

-----------------------------------------------------------------------------
\* A clock that is set back lengthens the driving for a trigger by no more
\* than that: in true time, at the moment of the call, the policy is called no
\* later than ExecSeconds plus the setbacks after the trigger's first driving
\* decision (_gated_get_action's window test, made on a reading that is by then
\* a step old; with Prompt that step takes no more than a tick).
SetbackBoundsDrive == InFlight => TrueTime - began_at <= ExecSeconds + setback

\* What an earlier window left queued is sent for a later trigger only if the
\* reset between them failed; one reset that completes ends it (do_reset).
LeaksOnlyIfDirty ==
    [][Act /\ active /\ ~dirty => out'.chunk.n = serving.n]_vars

\* The SUB thread is between recording a trigger and applying its task, where
\* the control loop can overtake it: without a start delay, with threads that
\* are slower than the clock, or with a clock set back during the delay.
Overtaken == sub_pc = "apply" /\ ~(Prompt /\ Delayed /\ setback = 0)

\* A chunk computed for the latest trigger uses that trigger's task, unless the
\* control loop has overtaken the SUB thread in the gap between unlock and
\* apply_task: nothing else comes between, and with a start delay that outlasts
\* the gap not even that (_on_msg against _gated_get_action). It is said of an
\* engine with a `_task` that the build's flush has not overwritten.
OwnTask ==
    [][Act /\ active /\ queue = Empty /\ trigger = serving.n /\ updatable /\ ~FlushWon
        => Overtaken \/ out'.chunk.task = serving.task]_vars

\* The robot moves before the first trigger only if the engine could not be
\* captured (hooked_build goes on without the gate).
SilentUnlessFree == trigger = 0 /\ out.kind = "policy" => ~engine_ref

\* A stop takes hold: the robot is told to hold, with an empty queue unless
\* the reset failed (_gated_get_action, do_stop).
StopTakesHold ==
    stop_requested /\ engine_ref ~>
        Over \/ (out.kind = "hold" /\ (queue = Empty \/ dirty))

\* A waiting trigger runs, even if the clock is set back under its wait,
\* unless it is stopped or the rollout ends (_gated_get_action, do_begin).
WaitEnds == pending /\ engine_ref ~> executing \/ stop_requested \/ Over

\* A window closes: with no further trigger the clock runs it out, even if it
\* is set back in between (_gated_get_action, the exec_seconds test).
WindowCloses == executing /\ engine_ref ~> ~executing \/ Over
=============================================================================
