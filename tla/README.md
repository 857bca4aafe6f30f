# PAI-Language in TLA+

A verification development for PAI-Language: the process that turns what a user
types into instructions for a robot, and the adapter that lets a running lerobot
policy drive the robot for one bounded window per instruction. Paths are relative
to the repository.

## 1. Inventory

```
user ──► DesktopUI / ConsoleApp ──► LanguageApp ──► OpenAI
                                      │   ▲
                 InstructionPublisher │   │ VisionState ◄── HubClient ◄── PAI-Vision
                                      ▼ ZeroMQ PUB/SUB (lossy)     WebSocket
              InstructionSubscriber ──► TaskState ◄── _gated_get_action ──► lerobot
```

| Component | State | Operations | Interacts through | What is hard | What makes it correct |
|---|---|---|---|---|---|
| **Rollout adapter**, `scripts/rollout_with_zmq_task.py` | `TaskState` under `state_lock`; `engine_ref`, the patched `get_action`, `engine._task`, the engine's action queue; the stop event | `InstructionSubscriber.run`, `_on_msg`, `hooked_build`, `_gated_get_action`, `_stop`, the `finally` | lock, event, monkey patch, the clock | two threads; effects after the unlock; clock values read before the lock; a stop, a trigger and the end of a wait meeting in one control step | a stop is final; a window is bounded and begins after its delay; nothing of an old window reaches a new one; every trigger runs |
| **Instruction publisher**, `language/zmq_pub/instruction_publisher.py` | `_socket`, `_enabled` | `start`, `stop`, `publish` | called on the loop thread and, from the UI, on the Tk thread | no lock; sends may be lost silently | flag and socket agree when it matters; the socket is let go |
| **Instruction channel**, the publisher's PUB and the adapter's SUB socket | what is under way; the connection | connect, subscribe, send, receive | TCP between two processes | PUB drops silently; the connection breaks; either process is restarted; nothing is sent again | the robot moves only for a trigger given after every stop it heard; no trigger runs twice |
| **LanguageApp**, `language/main.py`, `language/llm/` | inputs in progress | `handle_user_input`, `_publish_stop`, `parse_llm_response` | awaits the LLM; calls the publisher | the await; errors caught and not caught | instructions leave in the order of the inputs; only the user's words decide what leaves |
| **Desktop UI**, `language/ui.py` | `_busy`, the window, Tk's and the loop's callback queues | `_on_submit`, `_on_request_done`, `_set_busy`, `_on_close`, `_run_loop` | `run_coroutine_threadsafe`, `after`, `call_soon_threadsafe` | two threads; closing while a request is in progress; a loop that ends | the input line comes back; a stop gets through |
| **Console**, `LanguageApp.run`, `language/input/cli_handler.py` | the two tasks, the executor thread | `run`, `input_loop`, `main` | `asyncio.wait`, executor | the first task to end ends the program; `input()` cannot be cancelled | lines in order; quitting ends |
| **Hub client**, `language/ws/` | `_ws`, `_connected`, retries, dispatch tasks | `run`, `_recv_loop`, `_safe_dispatch`, `send`, `Dispatcher.dispatch` | WebSocket; calls the vision handler | outages, reconnection, frames handled in tasks of their own | it reconnects; the limit is kept; vision never goes back |
| **Vision state**, `language/context/vision_state.py` | the objects last seen | `update`, label queries, `to_context_string` | Hub client writes, prompts read | best-effort parsing | keeps exactly the well-formed objects |
| **RobotCommand, parser**, `shared/schemas/`, `language/llm/response_parser.py` | none | validation, normal form, derived instruction; fall-backs | pure | every JSON value may come back from an LLM | every bad reply becomes a STOP, every command that leaves is valid |
| **Configuration, keywords**, `language/config.py` | none | comma-separated lists, defaults, substring match | environment, prompts | empty pieces, capitals, substrings | an input counts as a stop exactly if it has a stop word |
| Prompt builder, argument parsing, dry run, subscriber tool | none | formatting, output | – | – | – |

What can go wrong in this code and is hard to test is listed, line by line, under
`hazards` in `PROJECT.json`, with the properties that would catch it.

## 2. The modules

| Module | Models | Extends / uses |
|---|---|---|
| `OneShotGate` | what the gate promises, without threads, flags or clock | – |
| `RolloutAdapter` | `run_with_lerobot`, both threads | `Gate == INSTANCE OneShotGate` |
| `AdapterFaults` | the same with a clock that is set back, failing resets and an engine that is not captured or has no `_task` | `RolloutAdapter` |
| `RolloutAdapterProofs` | theorems about both; those of the second reuse the lemmas of the first | `AdapterFaults` |
| `InstructionPublisher` | the PUB socket's wrapper | – |
| `LanguageApp` | one user input after another through `handle_user_input` | `InstructionPublisher`; `Outbox == INSTANCE OrderedOutbox` |
| `DesktopUI`, `DesktopUIProofs` | Tk thread and loop thread around it | `LanguageApp`, `LanguageAppProofs` |
| `ConsoleApp`, `ConsoleAppProofs` | the console front end around it | `LanguageApp`, `LanguageAppProofs` |
| `LanguageAppProofs` | lemmas about the publisher and the requests that both front ends need | `LanguageApp` |
| `HubClient`, `HubClientProofs` | the reconnecting WebSocket client and the vision handler | – |
| `OrderedOutbox` | what a front end promises to the robot's side | – |
| `InstructionChannel`, `InstructionChannelProofs` | front end, ZeroMQ and adapter together | `Outbox == INSTANCE OrderedOutbox`, `Gate == INSTANCE OneShotGate` |
| `EndToEnd` | front ends and adapter themselves at the channel's ends: theorems only | `RolloutAdapterProofs`; `Desktop`, `Console`, `Channel == INSTANCE` of the three other proof modules |
| `VisionState` | `update`: what is kept of a payload | – |
| `RobotCommand`, `ResponseParser` | validation; from the LLM's text to answer and command | `ResponseParser` extends `RobotCommand` |
| `Settings` | keyword lists and intents over texts | – |
| `Dialogue`, `MCDialogue`, `DialogueProofs` | one exchange through all four, with its data | `VisionState`, `ResponseParser`, `Settings` |

Definitions marked `Fault:` are plausible mistakes in the definition that follows
them. No specification uses them: they show that each property notices a mistake
of that kind (`mutants` in `PROJECT.json`).

### RolloutAdapter

The variables are `TaskState`'s fields; the program counters and locals of the SUB
thread (`sub_pc`, `text`, `sub_now`) and of the main thread (`main_pc`, `now`,
`active`, `buffered`); the engine (`engine_ref`, `gated`, `updatable`, `engine_task`,
`queue`); the event; the clock. The rest is history that properties need: `trigger` and
`heard_at` (the latest trigger), `serving` (the trigger being driven, with the clock
at its first driving decision), `out` (the last control output), `moves` (policy
actions since the latest stop, counted to 2), `overwritten` (the trigger whose task, already
applied, the flush wrote over with an older one).

One step is what the code does without giving the other thread a chance that
matters: a `with state_lock` block is one step; reading the clock, `engine.reset()`,
`apply_task` and the policy call are steps of their own.

| Code | Actions |
|---|---|
| `InstructionSubscriber.run` | `SubTest`, `SubNothing`, `Receive` |
| `_on_msg`, stop branch | `SubStop` |
| `_on_msg`, trigger branch | the clock is read in `Receive`, then `SubRecord` (under the lock), `SubApply` |
| `hooked_build` | `Capture`, `FlushRead` (under the lock), `FlushApply` |
| `_gated_get_action` | `Enter` (clock), `DecideStop` / `DecideRun` (under the lock), `Reset`, `Act` |
| the engine's own `get_action`, unwrapped | `FreeRun` |
| end of the rollout, `finally` | `Finish`, `Join` |
| `_stop` | `Signal` |

The engine is external: a policy call (`Infer`) takes the next action of the
queued chunk or computes a chunk from `engine._task`. An engine may have no `_task`
(`updatable`): `apply_task` then raises, which both callers only log, and the windows open all
the same. A chunk is identified by the
trigger and the task it was computed for, which is all the properties tell apart.
The hold pose is one value, whether the code could build the tensor or falls back
to "no command".

`AdapterFaults` adds one action, `SetBack`: the wall clock loses a tick. *True time* is
what the clock shows plus all it lost; the history variable `began_at` notes it where the
first step for a trigger is decided, so that it can be compared with true time at the policy
call, and `dirty` remembers whether the last `engine.reset()` failed to empty the queue. The
steps are the adapter's own.

### InstructionPublisher, LanguageApp, DesktopUI, ConsoleApp

`start()` comes to a bound socket, to nothing (no pyzmq, or publishing configured away), or to an
exception with the socket made and the flag clear (`StartOutcomes`), which ends the program before
it has a window or reads a line. `stop()` is split into its assignments (`StopBegin`, `StopClose`,
`StopClear`, `StopDisable`); a `close()` that raises leaves it after `finally`, with the flag set
(`raised`). `publish()` is split into its tests and its send (`PublishCheck`,
`PublishAssert`, `PublishSend`). In the UI these run on different threads.
`Transmit` may drop the message: that is what a PUB socket does, and `publish()`
returns True all the same. `sent` is what the socket accepted.

A request is a record: where its coroutine is, the intents its text contains, the
command it publishes. Only one coroutine runs on a loop at a time (`LoopFree`);
control is given up only at the LLM call. The reply's command is arbitrary, and
not used; its data is in `Dialogue`. Both front ends are shown to implement
`OrderedOutbox`: at most one instruction for an input, in the order of the inputs.

`DesktopUI` adds the Tk thread: `SubmitIgnored`/`Submit` are `_on_submit`,
`ClearBusy` the queued `_set_busy(False)`, `Close`, `Stop` and `Destroy` are
`_on_close`; on the loop thread `RequestDone` is `_on_request_done`, `CancelAll` the
queued `_cancel_all`, `HubFails` the end of `_run_loop` by an exception.
`ConsoleApp` adds `run()` (`Launch`, `Wind`, `Stop`, `Stopped`, `Exit`) and
`input_loop` (`Read`, `RequestDone`). `Exit` knows that `asyncio.run` joins the
executor thread, so a program whose hub failed while it was waiting for a line
ends only after one more line.

### HubClient

`run()` is `Open`, `Refused`, `Rejected`, `Wake`, `ClosedProperly`, `ConnectionLost`
(the last two are the two ways `async for raw in ws` ends: without and with an
exception); `_recv_loop` is `Receive`, and `Undecodable` where `json.loads` raises what it does
not catch; a dispatch task is `Dispatch`. Tasks form a
queue because asyncio starts tasks in the order of their creation and the
handlers never await. `send()` is `Send` (the wait, which an event that is set, or `Open`, ends),
`SendNow` (when the waiter goes on, which may be after the connection failed again) and
`SendTimesOut`; `cut` remembers a failure between the two. Server and
network (`Produce`, `Outage`, `Restart`) are external.

### InstructionChannel

The composition from the user to the robot. Its two ends are the abstract
specifications that `DesktopUI` and `ConsoleApp` (`OrderedOutbox`) and `RolloutAdapter`
(`OneShotGate`) are shown to implement; that its properties then hold of them is proved
(`EndToEnd`, section 4). In between is ZeroMQ, external: `Publish` may lose the message whether or not anybody is
subscribed, `Link` is the subscription, `Break` takes any tail of what is under way,
`Restart` is a new adapter process. `Hear` passes one message to `_on_msg`: `HearStop`,
`HearTrigger`, or `HearLost`, which is what the run `TriggerAfterStop` shows. `Begin`,
`Expire`, `Finish`, `Drive` are the control loop. The history variables say for which
input the robot waits or runs (`cause`), which stops were heard and which triggers
had their window.

`EndToEnd` takes the components' own specifications instead of what they promise. Each
speaks of its own variables; `Connected` is all they share: `sent` is where the wire
begins, and the step in which the adapter counts an instruction (`received_count`) takes
the first message off the wire. `AsSent` says that the text it holds then is its stop
instruction exactly if the message is a stop, which is `Dialogue`'s subject. `AdapterLives`
is one process of the adapter after another: `Reborn` starts `AdapterFaults` afresh. The module
has no run: it is the conjunction of specifications that the other runs check, and too
large for TLC as a whole.

### Dialogue: VisionState, ResponseParser, RobotCommand, Settings

The other modules abstract from data; this one has the data and only one exchange:
`Start` (`Config.validate`), `Frame` (`_on_vision_update`), `Ask`, `Reply` and `NoReply`
(`handle_user_input` before the LLM, after its answer, and when the call fails), `Hear` (the adapter's `parse_instruction`
and `_on_msg`). Payloads and replies are records of what the code tells apart: whether a
field is there, has the right type, is empty. Texts are sequences of characters only
in `Settings`, where the question is whether one occurs in another. What the results
are compared with is written from the docstrings and `docs/command_schema.md`, not from
the code: `Promised`, `WellFormedCommand` (rules 1 to 4), `KnownLabel` (the label rule, which the
code does not enforce, see below), `WordsOf` and `Says`.

## 3. What is checked

### Runs that must pass

| Run | Instance | Question and answer |
|---|---|---|
| `AdapterRaces` | delay 1, window 2, clock to 4, 3 instructions, 2 tasks, no initial task, the engine captured or not, with or without `_task`; 2.4M states | Do the threads, with readings of the clock as old as they like, keep the promises of the gate? They do: `StopBound`, `NoResidue`, `StepsInWindow` (the readings; the call may be as late as the thread is), `DelayRespected`, the refinement `ImplementsGate`. An engine with a `_task` has the newest task (`SyncAfterFlush`), also one buffered while it was built, unless the flush wrote over it what it had read before. |
| `AdapterProgress` | 1 task, clock to 6, one setback, failing resets, the engine captured or not, with or without `_task`, fairness, threads prompt; 360k states | What does each fault cost? A setback lengthens the driving for a trigger by no more than itself, in true time and at the moment of the policy call (`SetbackBoundsDrive`); what an old window left is sent only if the reset in between failed (`LeaksOnlyIfDirty`); the robot moves before the first trigger only if the engine was not captured (`SilentUnlessFree`). And does everything that was asked for happen all the same? Stops take hold, waits end, windows close, each trigger is driven with its task (`OwnTask`, with the exceptions it names), a subscriber that SIGINT closed does not leave the robot moving, the process ends cleanly. |
| `Desktop` | 3 inputs, all intents, the hub, `start()` and `close()` may fail; 353k states | With two threads: is the UI an ordered outbox (`ImplementsOutbox`), is the assertion in `publish()` safe except while closing, is the socket released and the flag clear unless `close()` raised (`ReleasedAtEnd`), does the input line come back while the loop lives? Yes. |
| `Console` | 3 inputs, the hub, `start()` and `close()` may fail; 112k states | The same on one thread, where the assertion is always safe; a stop typed behind a slow request is published after it; a quit, a request that raises or a hub that fails ends the program, or leaves it with nothing but the line that `input()` waits for (`RunEnds`). |
| `Hub` | 1 retry, 3 frames of every kind, 2 outages, rejections; 62k states | Is the limit exact (`GivesUpAtLimit`), is a send dropped silently only if the connection failed after it was let through (`DroppedOnlyIfCut`), does vision only go forward, is every scheduled frame shown, does the client reconnect? Yes. |
| `Channel` | 4 inputs, 2 breaks or restarts, with a delay; 83k states | May the robot move for a trigger the user took back (`LaterThanStops`)? Not if the stop was heard. May a trigger run twice (`OneWindow`)? No. Does the robot come to rest when the user is silent, whatever was lost (`ComesToRest`)? Yes: a *lost* stop leaves it running until its window ends, though `publish()` returned True. |
| `Dialogue` | every class of vision entry, alone and between others; every command an LLM may return; all ways to write short keyword lists with all texts up to 3 characters; an LLM that may fail; 122k states | Are exactly the well-formed objects kept (`KeptExactly`)? Is every command that leaves the parser valid, and stays so when it is validated again (`CommandsAreValid`)? Does every unusable reply become a stop (`BadRepliesStop`)? Does the robot hear what the user's words say, and nothing else (`HeardAsSaid`)? Yes, with the reservations below. |

**Why the bounds are enough.** Three instructions give every order of two triggers
and a stop, or a trigger and two stops, which is what the flags of `TaskState` can
confuse: each flag has two writers. A window of two ticks has a first, a middle
and a last-plus-one instant; a delay of one has a before and an at; the clock runs
past the end of a window that begins at the last instant an instruction is heard
(`QuietAfter`). In `Desktop` and `Console` three inputs are one in progress, one
that follows, and one after the front end has recovered. In `Hub` two outages
follow one another with a success in between, so a counter that is not reset is
seen. `MaxTime`, `MaxInstructions`, `QuietAfter`, `MaxInputs`, `MaxFrames`, `MaxOutages`,
`RetryCap`, `MaxSetback`, `MaxBreaks` are the only bounds. In `AdapterProgress` a single setback
of one tick is half a window and a whole delay. In `Channel` four inputs give two
triggers and two stops in every order, with a break before and after any of them.
`Dialogue` varies one input over all its classes while the others are plain: no
definition looks at two of them together, except that an intent decides whether the
reply's command matters, which the cases vary together. `Hub` switches the deadlock check off: when the bounds
are used up a client whose connection is open has nothing left to wait for.

**Fairness.** `RolloutAdapter`: weak fairness of each thread's own steps (the
operating system schedules them; the control loop is lerobot's, which calls
`get_action` until it ends) and strong fairness of the clock, which `Prompt`
disables now and then; none on receiving, on signals or on the end of the
rollout. `Prompt` says that a thread takes its few steps within a tick, a tick
being long (the delay and the window are seconds, a control step and the 200 ms
poll are not); the safety runs do without it. `DesktopUI`, `ConsoleApp`: the two
threads run, and the LLM answers or its client gives up (the OpenAI client has a
timeout); nothing on the user, on closing, or on failures of the hub. `HubClient`:
the event loop runs; nothing on the server: `Reconnects` is about behaviours in
which it stays up. `AdapterFaults`: the adapter's own; nobody owes a correction of the
clock. `InstructionChannel`: weak fairness of reading what arrived and of finishing a
decided step; strong fairness of the end of a wait and of a window, which a decided
step disables again and again: `WaitEnds` and `WindowCloses` of the adapter are what
justifies it; nothing on the user, on sending or on the connection.

### Runs that must find a violation

Each compares the code with a sentence of its own documentation; `findings` in
`PROJECT.json` quotes it.

| Run | The sentence | What the code does |
|---|---|---|
| `TriggerAfterStop` | the wait of a trigger ends in a window; re-triggering after a stop recovers | a trigger heard between a stop and the control step that handles the stop is cancelled with it |
| `FlushLosesTask` | what arrives before the capture is flushed once | a trigger between the flush's read and its `apply_task` is overwritten by the older task |
| `StopIgnoredWhileBusy` | a stop comes first, without waiting for the LLM | the UI drops a stop typed while a request is in progress |
| `HubFailureFreezesInput` | `_busy` means an LLM call is in progress | if `hub.run()` raises, `_busy` stays set for ever |
| `HubRejected` | `None` retries without limit | a handshake answered with an HTTP error is not caught and ends the client |

More disagreements met on the way have no run of their own; the properties and the
assumptions above leave room for exactly them.

* With `--exec-seconds 0` the stop instruction stops nothing, since the gate is never
  installed (`gated` in the properties), and if the engine cannot be captured the
  rollout goes on ungated (`SilentUnlessFree`).
* With `--start-delay 0`, with a clock set back during the delay, or with a SUB thread that takes
  longer than the delay, a control step between the unlock of `_on_msg` and its `apply_task` computes a
  chunk with the old task: `OwnTask` leaves out exactly the policy calls in that gap (`Overtaken`).
* The control step reads the clock once, before the lock: if a thread is held up between that and the
  policy call, the call comes as much later. `StepsInWindow` bounds the reading, `SetbackBoundsDrive` the
  call, which needs threads that take their steps within a tick (`Prompt`).
* An engine without `_task` is driven all the same, for each trigger, on a task of its own;
  the program only logs it. `SyncAfterFlush` and `OwnTask` leave that engine out (`updatable`).
* If `close()` raises, `stop()` leaves `_enabled` set with no socket (the assignment comes after its
  `finally`), and `_on_close` only logs it (`raised` in `ReleasedAtEnd`). If `bind()` raises in `start()`, a
  socket that is bound to nothing stays behind with the flag clear.
* `send()` waits for `_connected` and then looks at `_ws` only: if the connection fails before the
  waiter goes on, the payload is dropped without an exception (`cut` in `DroppedOnlyIfCut`).
* A binary frame that is no text makes `json.loads` raise `UnicodeDecodeError`, which nothing
  catches: like the rejected handshake it ends the client (`Undecodable`), and `_connected` stays set.
* If the LLM call fails, an input with a trash word triggers nothing (`NoReply`); a stop does not
  depend on it (`HeardAsSaid` tells the two apart).
* `docs/command_schema.md:82-83` (and 6) wants `target` and `destination` to be one of `COCO_LABELS` or
  `"none"`. Neither the parser nor the validator looks: any text an LLM writes there, even a blank one, goes
  through. `CommandsAreValid` says of them what holds: the code never makes one up. Nothing further
  depends on it, since `LanguageApp` publishes commands of its own.
* `response_parser.py:22` tells the user "stopping safely" when a reply cannot be used, but
  `handle_user_input` never uses the parsed command: if the same input holds a trash
  word the robot is triggered after that answer (`HeardAsSaid` says which words decide).
* `vision_state.py:58` promises that one malformed object does not harm the others, but
  `int(Infinity)` raises `OverflowError`, which the loop does not catch: the frame is lost
  and the one before stays (`Raises` in `KeptExactly`).
* The two paths of `VisionState.update` differ: a label that is a number or a position with a fraction fails
  the schema, and is then kept as text or rounded (`Promised` counts both as well-formed).
* `HeardAsSaid` needs the adapter's `--stop-instruction` to be `STOP_TASK_INSTRUCTION`, as its
  default is: two constants of two programs that nothing compares. The run and the theorems assume
  that they agree, so no property would notice if they did not.
* The console program also ends when the hub task or a request raises (`SomeOver`).
* After a proper close `_connected` stays set, so `send()` raises instead of waiting
  (`SendNow`); nothing calls it at present.

## 4. What is proved

All proofs are checked by TLAPS. The bounds of the models occur in guards only, and no
proof rests on their values.

| Module | Theorem | Assumes | Says |
|---|---|---|---|
| `RolloutAdapterProofs` | `TypeCorrect` | – | `Spec => []TypeOK` |
| | `StopIsFinal` | – | `Spec => []StopBound` |
| | `NothingLeaks` | `FALSE \notin Resets` | `Spec => []NoResidue` |
| | `StepsStayInWindow` | – | `Spec => []StepsInWindow` |
| | `DelayIsRespected` | `Delayed` | `Spec => DelayRespected` |
| | `EngineInSync` | – | `Spec => []SyncAfterFlush` |
| | `AdapterImplementsGate` | – | `Spec => ImplementsGate` |
| `RolloutAdapterProofs`, with faults | `StopIsFinalFaulty` | – | `FaultySpec => []StopBound` |
| | `FaultyImplementsGate` | – | `FaultySpec => ImplementsGate` |
| | `SetbackBounded` | `Prompt` | `FaultySpec => []SetbackBoundsDrive` |
| | `SilentBeforeTriggers` | `GateEnabled` | `FaultySpec => []SilentUnlessFree` |
| | `LeaksNeedFailedReset` | – | `FaultySpec => LeaksOnlyIfDirty` |
| | `ChunksUseOwnTask` | – | `FaultySpec => OwnTask` |
| `ConsoleAppProofs` | `ConsoleTypeCorrect` | – | `Spec => []TypeOK` |
| | `ConsoleNeverAsserts` | – | `Spec => []NeverAsserts` |
| | `ConsoleImplementsOutbox` | – | `Spec => ImplementsOutbox` |
| | `LinesAreNotLost` | – | `Spec => []NoLineLost` |
| | `ConsoleSendsAsMeant` | – | `Spec => [](SentAsMeant /\ StopsFirst)` |
| `DesktopUIProofs` | `DesktopTypeCorrect` | – | `Spec => []TypeOK` |
| | `DesktopAssertsOnlyOnClose` | – | `Spec => []AssertsOnlyOnClose` |
| | `DesktopReleases` | – | `Spec => []ReleasedAtEnd` |
| | `DesktopImplementsOutbox` | – | `Spec => ImplementsOutbox` |
| | `LockedLineIsOwed` | – | `Spec => []LockIsOwed` |
| | `DesktopSendsAsMeant` | – | `Spec => [](SentAsMeant /\ StopsFirst)` |
| `InstructionChannelProofs` | `ChannelTypeCorrect` | – | `Spec => []TypeOK` |
| | `TriggersAreLater` | – | `Spec => []LaterThanStops` |
| | `WindowsAreSingle` | – | `Spec => OneWindow` |
| | `PartsMakeChannel` | – | `Outbox!Spec /\ GateLives /\ WireSpec <=> Spec` |
| | `PartsKeepOrder` | – | the same three imply `[]LaterThanStops /\ OneWindow` |
| `EndToEnd` | `DesktopToRobot` | the parts' own | `DesktopUI`, `AdapterLives` and `Connection` imply `[]LaterThanStops /\ OneWindow` |
| | `ConsoleToRobot` | the parts' own | the same for `ConsoleApp` |
| `DialogueProofs` | `CommandsStayValid` | – | `Spec => []CommandsAreValid` |
| | `UnusableRepliesStop` | – | `Spec => []BadRepliesStop` |
| | `KeywordsDecide` | `StopInstruction = StopText` | `Spec => []HeardAsDecided` |
| | `WordsDecide` | `StopInstruction = StopText` | `Spec => []HeardAsSaid` |
| | `KeepsExactly` | – | `Spec => KeptExactly` |
| `HubClientProofs` | `HubTypeCorrect` | – | `Spec => []TypeOK` |
| | `GivesUpRightly` | – | `Spec => []GivesUpAtLimit` |
| | `SendsAreDroppedIfCut` | – | `Spec => []DroppedOnlyIfCut` |
| | `VisionGoesForward` | – | `Spec => VisionForward` |
| | `FramesAreNotLost` | – | `Spec => NoFrameLost` |

`FALSE \notin Resets` says `engine.reset()` does not raise: the code swallows the exception
after it has cleared `reset_pending`. The theorems of the adapter hold for a delay
of 0 too, which no run instantiates: `StepsStayInWindow` then covers the SUB thread opening a window
under the control loop's feet. Where the engine is not captured, what it does by
itself is no output of the gate. `GateEnabled` is needed because with `--exec-seconds 0`
the engine runs by itself from the start; `Prompt` because a control step that takes longer than a
tick calls the policy as much later, which the code does not bound. `ChunksUseOwnTask` needs no
assumption: `OwnTask` itself says when a call may come between the unlock of `_on_msg` and its
`apply_task`, and that it does not with `Prompt`, `Delayed` and a clock that was never set back. `StopInstruction = StopText` is the agreement
of two programs' constants that the help text of `--stop-instruction` asks for.

None of the properties is inductive by itself:

* `TypeInv` adds to `TypeOK` which text the SUB thread holds. `PlacesInv` ties the main
  thread's place to its locals and to the captured engine, and says that nothing
  moved before the capture, so that the gate starts afresh when it is installed.
  `ControlInv` adds that no reading of the clock is ahead of it, which is the one
  thing a clock that is set back breaks: what needs only `PlacesInv` carries over to
  `AdapterFaults`.
* `StopInv`: after a stop has been recorded either the flag is still up or the window
  and the wait are both off, and the actions sent plus the one decided are at most
  one. It is what makes "at most one more action" survive the steps between the
  stop and the control step that handles it.
* `ResidueInv`: whenever the policy may be driven without a reset, what is queued
  belongs to the trigger being served; otherwise `reset_pending` is still up. A
  trigger that interrupts a running window, and one that is cancelled, are the
  cases that need it.
* `DriveInv`: the serving record was made no earlier than the current window began, so
  the age the code measures bounds the age the property measures; `FlagsInv`
  (`executing` and `pending` are never both set) excludes a window restarted by a wait.
* `DelayInv`: the due time of a waiting trigger, and then the start of its window, are
  at least `StartDelay` after it was heard; the window's start is never in the
  future of the step that is deciding.
* The refinement maps the flags to the gate's mode, a recorded stop first (`Mode`): with
  it, `SubStop` is the gate's `Halt`, and `DecideStop`, which handles the stop later,
  changes nothing the gate can see.
* `SyncInv`: the text being applied is the recorded task; what the flush carries is the newest task, or
  the engine has that already; so the only wrong order is the one the property names
  (`FlushWon`), and a trigger buffered before the flush is not among its exceptions.
* With faults: `KeptInv` is what survives every fault unchanged. `TimeInv` restates the
  drive bound in true time, which never goes back: the reading a control step decides
  with is never ahead of it, the window of the trigger served began no later than its first decision,
  and, with `Prompt`, the clock is at most a tick past the reading when the policy is called. `DirtyInv` is `ResidueInv` with `dirty` as the way
  out, and needs no assumption on resets. `SilentInv`: before the first trigger no flag asks for a
  window. `OwnInv`: as long as the clock was never set back, the SUB thread is never a tick behind,
  and a step decided for the latest trigger read the clock after that trigger was heard
  (`DelayInv`); so it cannot act while that trigger is still to be applied. Its other half, `ServedInv`, needs
  none of that: what is served under the latest trigger is that trigger's task.
* `LanguageAppProofs`: `PublisherInv` says where the socket is, given the flag, the place of
  `stop()` and whether `close()` has raised; `AppInv` that a request that is not over comes after everything sent. `HandlerMoves`
  puts all steps of `handle_user_input` and `publish()` into one form (`Moves`), so that a front end
  needs one case for them; `MovesInOrder` says such a step keeps the outbox's order if no other
  request is in progress.
* `ConsoleInv` supplies that: only the line read last is being handled, the lines in the
  terminal come after it, and `stop()` begins when the loop has ended (`FlagHolds`).
* `DesktopInv` supplies it from `_busy`: a request that is not over, or whose end the Tk thread has
  not been told, keeps the input line locked, and no unlocking is queued meanwhile (`OneRequest`). `StopsOnClose`
  is the protocol of `_on_close`: `stop()` runs only then, and the flag is clear after it.
* `WordsInv`: the words of an input decide the command it publishes, which is set only on the way into
  `publish()`, and what was sent is the command of a request that is over. Every step of a coroutine
  keeps it (`HandlerKeepsWords`), so both front ends get `SentAsMeant` and `StopsFirst` from it.
* `LockInv` and `LinesInv` are the safety halves of liveness properties. The desktop's line is locked
  exactly as long as an unlocking is owed (`LockIsOwed`, for `BusyClears`): no step forgets one, with any
  failure, and that the owed one comes is left to the run. In the terminal a line is a request that waits,
  and the other way round (`LinesInv`), so none is lost while the program runs (`NoLineLost`, for
  `StopIsPublished`); the desktop, on the contrary, ignores what is entered while it is busy.
* `InstructionChannelProofs`: `LaterThanStops` is about what has been heard, but depends on
  what is still under way. `Ordered` says that the inputs' numbers increase all the way from what
  was heard (`Taken`) over the wire to what may still be sent (`Above`), which losing,
  breaking and restarting only thin out. `Fresh`: a trigger that waits has not had its window.
* `PartsMakeChannel`: a step of the channel is a step of the outbox, one of the gate and one of
  the wire at once (`StepsOfParts`), and three such steps are always one of the channel's
  (`RanSteps`, `TakingHears`, `CarriedIsPublished`). The wire knows the gate only by its mode and its counter
  and asks one thing of it: a stop that is taken in leaves it closed (`StopCloses`).
* `EndToEnd`: the adapter keeps that (`StopTextCloses`: the step that counts an instruction is the
  stop branch of `_on_msg` if the text is the stop instruction), and what it keeps it keeps in every
  process (`LivesInvariant`, `LivesAreGates`). So with `PartsKeepOrder` nothing has to be proved twice. The
  assumptions are those of the modules that are put together, for the constants they get here.
* `HubClientProofs`: `Counted` (the counter is the number of failures since the connection was
  last open), `Signalled` (while the event is set there is a connection object, and for a
  send that was let through there is one too unless the connection failed since),
  and `Ordered`, again: frames are numbered upwards from the vision context over the
  waiting tasks to the inbox. `NoFrameLost`, the safety half of `FramesShown`: a vision frame leaves the
  tasks only in the step that shows it.
* `DialogueProofs`: what the validator lets through it makes well-formed, and what is
  well-formed it lets through unchanged (`ValidatedFields`), for any texts; the parser adds only
  validated commands, and its one fall-back is a stop. `ExchangeInv` follows the published
  envelope to the adapter: of the reply nothing occurs in it but that there was one.
* `WordsDecide`: the code's tests are the reference's words. A keyword is found in the
  lowered text exactly if it occurs there letter by letter (`OccursLetterByLetter`: lowering changes no
  length and keeps the place of every letter), stripping a piece leaves what is between its first and
  last letter that is no blank (`FirstExists`, `LastExists`, by the well-founded order of the numbers), and
  what is left out of the list is what has no letter at all (`KeywordsAreWords`, `TestsFindWords`).
* `KeepsExactly`: the filters keep of a payload the indices that the schema and the docstring
  promise (`EntriesKeptAsPromised` for one entry, `UpdatedAsPromised` for the payload), whichever of the two paths
  of `update()` is taken. Both sides list what is kept in the payload's order with the same `DetectedAt`,
  which the proof does not expand: it compares what is kept, and TLC the lists themselves.

Each invariant was checked with TLC before it was proved.

Constants have the assumptions the proofs need, and TLC evaluates them on every run: times are
integers, the texts that mean something are told apart, `Null` (None) is neither a text nor a
command nor an envelope, a missing field has none of the values; texts are sequences of
characters, a payload's list is a sequence of entries, and `lower()` changes one character to one.

**Only model-checked:**

* The liveness properties, which are out of the prover's reach (the safety halves of `BusyClears`,
  `StopIsPublished` and `FramesShown` are proved, see above): `StopTakesHold`, `WaitEnds`, `WindowCloses`,
  `DeafComesToRest`, `ExitsClean`, `BusyClears`, `StopIsPublished`, `RunEnds`, `FramesShown`, `Reconnects`, `ComesToRest`.
* The order in which `DetectedAt` lists what is kept (`SelectSeq`, a recursive definition of the library
  that the prover cannot expand), as said above.
* That the parts `EndToEnd` puts together can run together: a theorem about their conjunction would
  hold of no behaviour too. `PartsMakeChannel` says they can for the abstract ends (the run `Channel` is about
  the same behaviours), and the runs `Desktop`, `Console` and `AdapterProgress` that the ends themselves do.

## 5. What is not modelled

* The pose tensor, log lines, widgets, the output queue and the prompt's text:
  no property is about them.
* The label queries and the text of `VisionState` only read; an object's status and position are
  not told apart. The Tk thread reads the list while the loop thread replaces it, in one
  assignment: only a display line depends on it.
* Ctrl+C in the console (it ends the run like a quit), the dry run (it prints what
  the subscriber hears), the argument parser, the diagnostic subscriber: output without state.
* `BOX_LABELS`, addresses and the model's name: values nothing modelled looks into.
* How long a reconnecting client pauses: `HubClient` has no clock. How old the last frame is:
  the code does not know it either.
* Garbage on the instruction socket from other programs, beyond a frame that does not parse.

## 6. Plan

Done: all modules of section 2, a proof of every safety property the runs check, and the
composition from the window, or the terminal, to the robot.

What could follow:

1. The safety half of `StopTakesHold`: a recorded stop which the control loop has read is followed by a
   hold within that control step, however the rollout ends. `StopBound` and the refinement say already that no
   action beyond the one decided follows.
2. Restarts of PAI-Language in `EndToEnd`, with the numbering of inputs going on: `InstructionChannel` covers
   them at the outbox, whose promise does not depend on which process makes it.
