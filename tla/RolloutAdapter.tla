--------------------------- MODULE RolloutAdapter ---------------------------
(***************************************************************************)
(* scripts/rollout_with_zmq_task.py, function run_with_lerobot: the        *)
(* process that feeds instructions received over ZeroMQ to a running       *)
(* lerobot policy and lets the policy drive the robot for one bounded      *)
(* window per instruction.                                                 *)
(*                                                                         *)
(* Two threads share TaskState under state_lock:                           *)
(*   - the SUB thread (InstructionSubscriber.run and its callback _on_msg);*)
(*   - the main thread, which builds the engine, patches its get_action    *)
(*     and then calls the patched get_action once per control step.        *)
(* A `with state_lock` block is one step; whatever the code does outside   *)
(* the lock (reading the clock, engine.reset, apply_task, the policy call) *)
(* is a step of its own, so the other thread can run in between.           *)
(*                                                                         *)
(* The lerobot engine is external: a policy call takes the next action of  *)
(* the chunk the engine has queued, or computes a chunk from engine._task  *)
(* when nothing is queued; engine.reset() empties the queue. It may have no   *)
(* `_task`: then apply_task raises, and both callers only log that.        *)
(***************************************************************************)
EXTENDS Integers

CONSTANTS
    Tasks,            \* instruction texts that name a task
    InitialTask,      \* --initial-task, None if it is empty
    Stop,             \* --stop-instruction
    Garbage,          \* a frame parse_instruction rejects
    None,             \* no text
    StartDelay,       \* --start-delay, in ticks
    ExecSeconds,      \* --exec-seconds, in ticks
    Captures,         \* may hooked_build find ctx.policy.inference?
    Updatable,        \* may the engine have a `_task`?
    Resets,           \* may engine.reset() complete?
    MaxTime,          \* bound on the clock
    MaxInstructions,  \* bound on the instructions received
    QuietAfter,       \* nothing is sent after this time
    Prompt            \* TRUE: both threads take their steps within a tick

ASSUME TextsAssumption ==
    /\ {Stop, Garbage, None} \cap Tasks = {}
    /\ Stop # Garbage /\ Stop # None /\ Garbage # None
ASSUME TimesAssumption ==
    /\ StartDelay \in Int /\ ExecSeconds \in Int
    /\ MaxTime \in Nat /\ MaxInstructions \in Nat /\ QuietAfter \in Nat
ASSUME OutcomesAssumption ==
    /\ Captures \subseteq BOOLEAN /\ Updatable \subseteq BOOLEAN
    /\ Resets \subseteq BOOLEAN /\ Prompt \in BOOLEAN

VARIABLES
    \* TaskState, guarded by state_lock
    task, executing, exec_started_at, reset_pending, stop_requested,
    pending, pending_start_at, received_count,
    \* the SUB thread: where it is, and _on_msg's locals
    sub_pc, text, sub_now,
    \* the main thread: where it is, and the locals of get_action and hooked_build
    main_pc, now, active, buffered,
    \* engine_ref, whether get_action was wrapped, whether the engine is known
    \* and has a `_task`, engine._task, queued chunk
    engine_ref, gated, updatable, engine_task, queue,
    \* threading.Event shared with the signal handlers; the wall clock
    stop_event, clock,
    \* history: the number of the latest trigger and when it was heard, the
    \* trigger being driven, the last control output, the policy actions sent
    \* since the latest stop, the trigger whose task, already applied, the
    \* build's flush overwrote with an older one (0: none)
    trigger, heard_at, serving, out, moves, overwritten

stateVars  == <<task, executing, exec_started_at, reset_pending, stop_requested,
                pending, pending_start_at, received_count>>
subVars    == <<sub_pc, text, sub_now>>
mainVars   == <<main_pc, now, active, buffered>>
engineVars == <<engine_ref, gated, updatable, engine_task, queue>>
histVars   == <<trigger, heard_at, serving, out, moves, overwritten>>
vars == <<stateVars, subVars, mainVars, engineVars, stop_event, clock, histVars>>

Texts == Tasks \cup {InitialTask}
Chunks == [n : Nat, task : Texts \cup {None}]
Empty == [n |-> 0, task |-> None]      \* nothing queued in the engine

\* gate_enabled, and the condition under which a trigger waits
GateEnabled == ExecSeconds > 0
Delayed == GateEnabled /\ StartDelay > 0

\* A policy call has been decided and not yet returned.
InFlight == active /\ main_pc \in {"reset", "act"}

\* The latest instruction received was a stop.
Stopped == received_count > trigger

FlagsOK ==
    /\ executing \in BOOLEAN /\ reset_pending \in BOOLEAN
    /\ stop_requested \in BOOLEAN /\ pending \in BOOLEAN
    /\ active \in BOOLEAN /\ engine_ref \in BOOLEAN /\ gated \in BOOLEAN
    /\ updatable \in BOOLEAN /\ stop_event \in BOOLEAN

TypeOK ==
    /\ task \in Texts /\ text \in Texts \cup {Stop, None}
    /\ buffered \in Texts \cup {None} /\ engine_task \in Texts \cup {None}
    /\ FlagsOK
    /\ exec_started_at \in Int /\ pending_start_at \in Int
    /\ now \in Nat /\ sub_now \in Nat /\ clock \in Nat /\ heard_at \in Nat
    /\ received_count \in Nat /\ trigger \in 0..received_count
    /\ overwritten \in 0..trigger /\ moves \in 0..2
    /\ sub_pc \in {"test", "poll", "stop", "record", "apply", "closed"}
    /\ main_pc \in {"build", "captured", "flush", "loop", "lock", "reset",
                    "act", "ended", "exited"}
    /\ queue \in Chunks
    /\ serving \in [n : Nat, task : Texts \cup {None}, since : Nat]
    /\ out \in [kind : {"none", "hold", "policy"}, for : Nat, chunk : Chunks]

\* The SUB thread has been started (or, without pyzmq, has returned at once)
\* and the main thread is building the engine.
Init ==
    /\ task = InitialTask /\ received_count = 0
    /\ executing = FALSE /\ exec_started_at = 0 /\ reset_pending = FALSE
    /\ stop_requested = FALSE /\ pending = FALSE /\ pending_start_at = 0
    /\ sub_pc \in {"test", "closed"} /\ text = None /\ sub_now = 0
    /\ main_pc = "build" /\ now = 0 /\ active = FALSE /\ buffered = None
    /\ engine_ref = FALSE /\ gated = FALSE /\ updatable = FALSE
    /\ engine_task = None /\ queue = Empty
    /\ stop_event = FALSE /\ clock = 0
    /\ trigger = 0 /\ heard_at = 0 /\ moves = 0 /\ overwritten = 0
    /\ serving = [n |-> 0, task |-> None, since |-> 0]
    /\ out = [kind |-> "none", for |-> 0, chunk |-> Empty]

-----------------------------------------------------------------------------
(* The SUB thread. The thread is a daemon: it dies with the process.       *)

Alive == main_pc # "exited"

\* while not self._stop_event.is_set(), and the close in `finally`
SubTest ==
    /\ Alive /\ sub_pc = "test"
    /\ sub_pc' = IF stop_event THEN "closed" ELSE "poll"
    /\ UNCHANGED <<stateVars, text, sub_now, mainVars, engineVars, stop_event,
                   clock, histVars>>

\* poll returns without an event, or recv raises Again, or the frame does
\* not parse to a non-empty instruction
SubNothing ==
    /\ Alive /\ sub_pc = "poll"
    /\ sub_pc' = "test"
    /\ UNCHANGED <<stateVars, text, sub_now, mainVars, engineVars, stop_event,
                   clock, histVars>>

\* Fault: a malformed envelope is passed on.
ParseAnything(frame) == frame

\* parse_instruction: the instruction of an envelope, None for anything else
ParseInstruction(frame) == IF frame = Garbage THEN None ELSE frame

\* A frame is received and parsed. A trigger's timestamp is read before the
\* lock is taken.
Receive ==
    \E frame \in Tasks \cup {Stop, Garbage} :
        /\ Alive /\ sub_pc = "poll"
        /\ received_count < MaxInstructions /\ clock <= QuietAfter
        /\ ParseInstruction(frame) # None
        /\ text' = ParseInstruction(frame)
        /\ sub_pc' = IF text' = Stop THEN "stop" ELSE "record"
        /\ sub_now' = IF text' = Stop THEN 0 ELSE clock
        /\ UNCHANGED <<stateVars, mainVars, engineVars, stop_event, clock, histVars>>

\* Fault: the stop closes the window but leaves no request.
SubStopUnrequested ==
    /\ Alive /\ sub_pc = "stop"
    /\ executing' = FALSE
    /\ received_count' = received_count + 1
    /\ moves' = 0
    /\ sub_pc' = "test" /\ text' = None
    /\ UNCHANGED <<task, exec_started_at, reset_pending, stop_requested, pending,
                   pending_start_at, sub_now, mainVars, engineVars, stop_event, clock,
                   trigger, heard_at, serving, out, overwritten>>

\* _on_msg, stop branch
SubStop ==
    /\ Alive /\ sub_pc = "stop"
    /\ executing' = FALSE
    /\ stop_requested' = TRUE
    /\ received_count' = received_count + 1
    /\ moves' = 0
    /\ sub_pc' = "test" /\ text' = None
    /\ UNCHANGED <<task, exec_started_at, reset_pending, pending, pending_start_at,
                   sub_now, mainVars, engineVars, stop_event, clock,
                   trigger, heard_at, serving, out, overwritten>>

\* Fault: a waiting trigger leaves the window of the one before it open.
RunsOn == executing \/ ~Delayed

\* What a new trigger makes of `executing`
RunsAtOnce == ~Delayed

\* _on_msg, trigger branch, under the lock
SubRecord ==
    /\ Alive /\ sub_pc = "record"
    /\ task' = text
    /\ received_count' = received_count + 1
    /\ reset_pending' = TRUE
    /\ pending' = Delayed
    /\ executing' = RunsAtOnce
    /\ IF Delayed
          THEN /\ pending_start_at' = sub_now + StartDelay
               /\ UNCHANGED exec_started_at
          ELSE /\ exec_started_at' = sub_now
               /\ UNCHANGED pending_start_at
    /\ trigger' = received_count' /\ heard_at' = sub_now
    /\ sub_pc' = "apply" /\ sub_now' = 0
    /\ UNCHANGED <<stop_requested, text, mainVars, engineVars, stop_event, clock,
                   serving, out, moves, overwritten>>

\* Fault: the engine is never told.
TaskKept(new) == engine_task

\* engine._task after apply_task(engine, new), if the engine is known: an empty
\* text is ignored, and so, by both callers, is the AttributeError
TaskApplied(new) == IF updatable /\ new # None THEN new ELSE engine_task

\* _on_msg, trigger branch, after the lock
SubApply ==
    /\ Alive /\ sub_pc = "apply"
    /\ engine_task' = TaskApplied(text)
    /\ sub_pc' = "test" /\ text' = None
    /\ UNCHANGED <<stateVars, sub_now, mainVars, engine_ref, gated, updatable, queue,
                   stop_event, clock, histVars>>

SubNext == SubTest \/ SubNothing \/ SubStop \/ SubRecord \/ SubApply

-----------------------------------------------------------------------------
(* The main thread: building and capturing the engine.                     *)

\* Fault: get_action is never wrapped.
NeverWraps(found) == FALSE

\* if gate_enabled and hasattr(engine, "get_action")
Wraps(found) == found /\ GateEnabled

\* original_build returns; the engine is captured and, if the gate is
\* enabled, its get_action is wrapped. Without ctx.policy.inference the
\* context is returned as it is.
Capture ==
    \E found \in Captures, has_task \in Updatable :
        /\ main_pc = "build"
        /\ engine_ref' = found
        /\ gated' = Wraps(found)
        /\ updatable' = (found /\ has_task)
        /\ main_pc' = IF found THEN "captured" ELSE "loop"
        /\ UNCHANGED <<stateVars, subVars, now, active, buffered, engine_task, queue,
                       stop_event, clock, histVars>>

\* Fault: the flush brings what the program was started with.
FromStart == InitialTask

\* What the flush brings: state.task
Latest == task

\* with state_lock: buffered = state.task
FlushRead ==
    /\ main_pc = "captured"
    /\ buffered' = Latest
    /\ main_pc' = "flush"
    /\ UNCHANGED <<stateVars, subVars, now, active, engineVars, stop_event, clock,
                   histVars>>

\* The SUB thread has already applied the newest task, and the flush brings an
\* older one.
Overwrites == sub_pc # "apply" /\ engine_task = task /\ TaskApplied(buffered) # task

\* apply_task(engine, buffered)
FlushApply ==
    /\ main_pc = "flush"
    /\ engine_task' = TaskApplied(buffered)
    /\ overwritten' = IF Overwrites THEN trigger ELSE 0
    /\ buffered' = None
    /\ main_pc' = "loop"
    /\ UNCHANGED <<stateVars, subVars, now, active, engine_ref, gated, updatable, queue,
                   stop_event, clock, trigger, heard_at, serving, out, moves>>

-----------------------------------------------------------------------------
(* The main thread: one control step. The call of the wrapped get_action   *)
(* reads the clock, decides under the lock, resets the engine if told to   *)
(* and returns the hold pose or the policy's action.                       *)

Enter ==
    /\ main_pc = "loop" /\ gated
    /\ now' = clock
    /\ main_pc' = "lock"
    /\ UNCHANGED <<stateVars, subVars, active, buffered, engineVars, stop_event, clock,
                   histVars>>

\* Fault: the stop leaves what a later trigger set up.
DecideStopSpares ==
    /\ main_pc = "lock" /\ stop_requested
    /\ stop_requested' = FALSE
    /\ reset_pending' = FALSE
    /\ active' = FALSE
    /\ main_pc' = "reset"
    /\ UNCHANGED <<task, executing, pending, exec_started_at, pending_start_at,
                   received_count, subVars, now, buffered, engineVars, stop_event,
                   clock, histVars>>

\* Fault: the stop does not reset the engine.
DecideStopUnreset ==
    /\ main_pc = "lock" /\ stop_requested
    /\ stop_requested' = FALSE /\ executing' = FALSE /\ pending' = FALSE
    /\ reset_pending' = FALSE
    /\ active' = FALSE
    /\ main_pc' = "act"
    /\ UNCHANGED <<task, exec_started_at, pending_start_at, received_count, subVars,
                   now, buffered, engineVars, stop_event, clock, histVars>>

\* if state.stop_requested
DecideStop ==
    /\ main_pc = "lock" /\ stop_requested
    /\ stop_requested' = FALSE
    /\ executing' = FALSE
    /\ pending' = FALSE
    /\ reset_pending' = FALSE
    /\ active' = FALSE
    /\ main_pc' = "reset"
    /\ UNCHANGED <<task, exec_started_at, pending_start_at, received_count, subVars,
                   now, buffered, engineVars, stop_event, clock, histVars>>

\* Fault: the end of the delay is recognised only at its very tick.
DueExactly == pending /\ now = pending_start_at

\* The start delay of the pending trigger is over.
Due == pending /\ now >= pending_start_at

\* Fault: the window is not timed.
DrivingUntimed == Due \/ executing

\* The window is still open: it just started, or has time left.
Driving ==
    \/ Due
    \/ executing /\ now - exec_started_at < ExecSeconds

\* Fault: every driving step restarts the window.
StartSlides == IF Driving THEN now ELSE exec_started_at

\* When the window began
Started == IF Due THEN now ELSE exec_started_at

\* Fault: waiting for the delay forgets that the engine is to be reset.
ResetForgotten == FALSE

\* The reset a trigger asked for stays asked for until a step drives.
ResetLeft == reset_pending /\ ~Driving

\* do_reset
NeedsReset == Driving /\ reset_pending

\* otherwise: begin a due window, close an expired one, and decide
DecideRun ==
    /\ main_pc = "lock" /\ ~stop_requested
    /\ pending' = (pending /\ ~Due)
    /\ exec_started_at' = Started
    /\ executing' = Driving
    /\ active' = Driving
    /\ reset_pending' = ResetLeft
    /\ main_pc' = IF NeedsReset THEN "reset" ELSE "act"
    /\ serving' = IF Driving
                     THEN [n |-> trigger, task |-> task,
                           since |-> IF serving.n = trigger THEN serving.since ELSE clock]
                     ELSE serving
    /\ UNCHANGED <<task, stop_requested, pending_start_at, received_count, subVars,
                   now, buffered, engineVars, stop_event, clock,
                   trigger, heard_at, out, moves, overwritten>>

\* engine.reset(), whose exceptions are swallowed, outside the lock
Reset ==
    \E completes \in Resets :
        /\ main_pc = "reset"
        /\ queue' = IF completes THEN Empty ELSE queue
        /\ main_pc' = "act"
        /\ UNCHANGED <<stateVars, subVars, now, active, buffered, engine_ref, gated,
                       updatable, engine_task, stop_event, clock, histVars>>

\* The policy call itself, on behalf of trigger n: the next queued action, or
\* the first of a chunk computed now; some of the chunk may stay queued.
Infer(n) ==
    LET chunk == IF queue = Empty THEN [n |-> n, task |-> engine_task] ELSE queue IN
    /\ queue' \in {Empty, chunk}
    /\ out' = [kind |-> "policy", for |-> n, chunk |-> chunk]
    /\ moves' = IF moves < 2 THEN moves + 1 ELSE moves

\* return hold_action, or return _orig_get_action(obs_frame)
Act ==
    /\ main_pc = "act"
    /\ IF active
          THEN Infer(serving.n)
          ELSE /\ out' = [kind |-> "hold", for |-> 0, chunk |-> Empty]
               /\ UNCHANGED <<queue, moves>>
    /\ main_pc' = "loop" /\ active' = FALSE /\ now' = 0
    /\ UNCHANGED <<stateVars, subVars, buffered, engine_ref, gated, updatable, engine_task,
                   stop_event, clock, trigger, heard_at, serving, overwritten>>

\* The engine's own get_action, when it was not wrapped
FreeRun ==
    /\ main_pc = "loop" /\ ~gated
    /\ Infer(trigger)
    /\ UNCHANGED <<stateVars, subVars, mainVars, engine_ref, gated, updatable, engine_task,
                   stop_event, clock, trigger, heard_at, serving, overwritten>>

\* Fault: the subscriber is not told.
FinishSilently ==
    /\ main_pc \in {"build", "loop", "act"}
    /\ main_pc' = "ended" /\ active' = FALSE /\ now' = 0
    /\ UNCHANGED <<stateVars, subVars, buffered, engineVars, stop_event, clock, histVars>>

\* The rollout ends or raises (the build, lerobot's loop, the policy call), or
\* lerobot cannot be imported: stop.set() in `finally`
Finish ==
    /\ main_pc \in {"build", "loop", "act"}
    /\ main_pc' = "ended" /\ active' = FALSE /\ now' = 0
    /\ stop_event' = TRUE
    /\ UNCHANGED <<stateVars, subVars, buffered, engineVars, clock, histVars>>

\* sub.join(timeout=2.0): a SUB thread that takes its steps in time is
\* closed by then
Join ==
    /\ main_pc = "ended"
    /\ sub_pc = "closed" \/ ~Prompt
    /\ main_pc' = "exited"
    /\ UNCHANGED <<stateVars, subVars, now, active, buffered, engineVars, stop_event,
                   clock, histVars>>

ControlStep == Enter \/ DecideStop \/ DecideRun \/ Reset \/ Act \/ FreeRun
MainNext == Capture \/ FlushRead \/ FlushApply \/ ControlStep \/ Join

-----------------------------------------------------------------------------
(* The environment.                                                        *)

\* SIGINT or SIGTERM: _stop only sets the event
Signal ==
    /\ Alive /\ ~stop_event
    /\ stop_event' = TRUE
    /\ UNCHANGED <<stateVars, subVars, mainVars, engineVars, clock, histVars>>

\* With Prompt, a tick is long compared with the threads' steps: _on_msg has
\* returned and the control loop has begun a step since the last tick, and
\* the build ends while instructions may still arrive.
InTime ==
    /\ sub_pc \in {"test", "poll", "closed"}
    /\ \/ main_pc \in {"build", "captured", "flush"} /\ clock < QuietAfter
       \/ main_pc = "lock" /\ now = clock
       \/ main_pc = "loop" /\ ~gated
       \/ main_pc = "ended"

Tick ==
    /\ Alive /\ clock < MaxTime
    /\ Prompt => InTime
    /\ clock' = clock + 1
    /\ UNCHANGED <<stateVars, subVars, mainVars, engineVars, stop_event, histVars>>

\* The process is gone.
Terminated == ~Alive /\ UNCHANGED vars

Next == Receive \/ SubNext \/ MainNext \/ Finish \/ Signal \/ Tick \/ Terminated

Spec == Init /\ [][Next]_vars

\* Both threads are scheduled, and time passes whenever it keeps being able to
\* (Prompt disables Tick now and then, so its fairness is strong); nobody owes
\* an instruction, a signal or the end of the rollout.
FairSpec == Spec /\ WF_vars(SubNext) /\ WF_vars(MainNext) /\ SF_vars(Tick)

-----------------------------------------------------------------------------
(* Safety.                                                                 *)

\* Where get_action was wrapped: after a stop has been recorded, and until the
\* next trigger, the robot gets at most one more policy action, that of the
\* control step which had already been decided (_on_msg's stop branch against
\* _gated_get_action).
StopBound == gated /\ Stopped => moves <= 1

\* An action sent for a trigger comes from a chunk computed for that trigger,
\* never from what an earlier window left queued (reset_pending, do_reset).
NoResidue == gated /\ out.kind = "policy" => out.chunk.n = out.for

\* Over the whole life of a trigger, through re-triggers of the one before,
\* stops and waits, no control step drives for it whose clock reading is
\* ExecSeconds or more after its first driving decision: the window does not
\* begin again (the window's expiry). The reading is that of the step's start;
\* the code does not look at the clock again before it calls the policy, and
\* SetbackBoundsDrive of AdapterFaults is about the time of the call.
StepsInWindow == InFlight => now - serving.since < ExecSeconds

\* A control step that drives the robot for the latest trigger was begun no
\* earlier than StartDelay after that trigger was heard, a re-trigger in the
\* middle of a running window included (--start-delay).
DelayRespected ==
    [][DecideRun /\ active' => now >= heard_at + StartDelay]_vars

\* Once the engine is built and flushed, it has the newest task whenever the
\* SUB thread is done with it (hooked_build's flush of TaskState.task), provided
\* that it has a `_task` at all.
TaskInSync ==
    main_pc \in {"loop", "lock", "reset", "act"} /\ updatable
        /\ sub_pc \in {"test", "poll", "closed"} => engine_task = task

\* The flush has overwritten the task of the latest trigger.
FlushWon == overwritten # 0 /\ overwritten = trigger

\* The engine has the newest task whenever the SUB thread is done with it,
\* triggers that were buffered while the engine was built included. The one
\* exception lasts until the next trigger: what the build's flush read before a
\* trigger was recorded, it wrote after that trigger's apply_task (hooked_build,
\* _on_msg). Nothing is said of an engine without `_task`.
SyncAfterFlush == FlushWon \/ TaskInSync

\* A waiting trigger is cancelled only by a stop that came after it.
OnlyStopCancels ==
    [][pending /\ ~pending' => executing' \/ Stopped]_vars

-----------------------------------------------------------------------------
(* Liveness.                                                               *)

Over == main_pc \in {"ended", "exited"}

\* Once the subscriber is closed (after SIGINT it is, while the control loop
\* goes on) the windows of the triggers already heard run out and the robot
\* comes to rest (_stop, InstructionSubscriber.run).
DeafComesToRest == sub_pc = "closed" ~> [](~InFlight)

\* The rollout's end closes the subscriber and the process exits
\* (run_with_lerobot's `finally`).
ExitsClean == main_pc = "ended" ~> main_pc = "exited" /\ sub_pc = "closed"

-----------------------------------------------------------------------------
(* Refinement.                                                             *)

\* The gate's mode as the abstract gate sees it: a stop that has been
\* recorded closes the window at once, whatever the flags still say.
Mode ==
    IF stop_requested THEN "idle"
    ELSE IF executing THEN "running"
    ELSE IF pending THEN "waiting"
    ELSE "idle"

Gate == INSTANCE OneShotGate
            WITH mode <- Mode, armed <- InFlight, heard <- received_count,
                 out <- IF gated THEN out.kind ELSE "none"

\* The flags, locks and threads of the adapter implement the one-shot gate:
\* no step of either thread opens a window, or drives the robot through the
\* wrapped get_action, in a way the gate does not allow (TaskState, _on_msg and
\* _gated_get_action together). What an engine that was not captured does by
\* itself is no output of the gate.
ImplementsGate == Gate!Spec
=============================================================================
