---------------------------- MODULE OneShotGate ----------------------------
(***************************************************************************)
(* What the one-shot gate of scripts/rollout_with_zmq_task.py promises,    *)
(* without locks, threads, flags or clocks: the policy drives the robot    *)
(* only in control steps that were decided while an instruction's window   *)
(* was running.  A window opens for a trigger, after a wait if there is a  *)
(* start delay, and never again once it was closed or stopped; a control   *)
(* step that had been decided when the window closed may still finish.     *)
(***************************************************************************)
EXTENDS Naturals

CONSTANT Delayed       \* a trigger waits before its window opens

VARIABLES
    mode,              \* "idle", "waiting" or "running"
    armed,             \* a policy call has been decided
    heard,             \* number of instructions taken in
    out                \* the last control output: "none", "hold" or "policy"

vars == <<mode, armed, heard, out>>

Init == mode = "idle" /\ armed = FALSE /\ heard = 0 /\ out = "none"

\* An instruction asks for a window, from any mode.
Trigger ==
    /\ mode' = IF Delayed THEN "waiting" ELSE "running"
    /\ heard' = heard + 1
    /\ UNCHANGED <<armed, out>>

\* A stop closes or cancels the window; a trigger that overtakes the handling
\* of a stop is lost.  Only a trigger heard later opens a window again.
Halt == mode' = "idle" /\ heard' = heard + 1 /\ UNCHANGED <<armed, out>>

\* The wait is over: the window opens and the current step drives.
Begin ==
    /\ mode = "waiting" /\ ~armed
    /\ mode' = "running" /\ armed' = TRUE
    /\ UNCHANGED <<heard, out>>

\* A later step of an open window drives.
Commit ==
    /\ mode = "running" /\ ~armed
    /\ armed' = TRUE
    /\ UNCHANGED <<mode, heard, out>>

\* The window has run out.
Expire ==
    /\ mode = "running" /\ ~armed
    /\ mode' = "idle"
    /\ UNCHANGED <<armed, heard, out>>

Move == armed /\ armed' = FALSE /\ out' = "policy" /\ UNCHANGED <<mode, heard>>

Hold == ~armed /\ out' = "hold" /\ UNCHANGED <<mode, armed, heard>>

\* The rollout ends before the decided action was sent.
Abandon == armed /\ armed' = FALSE /\ UNCHANGED <<mode, heard, out>>

Next == Trigger \/ Halt \/ Begin \/ Commit \/ Expire \/ Move \/ Hold \/ Abandon

Spec == Init /\ [][Next]_vars
=============================================================================
