------------------------------ MODULE EndToEnd ------------------------------
(***************************************************************************)
(* From the window, or the terminal, to the robot: the front ends and the  *)
(* adapter with all their threads, and ZeroMQ between them.                *)
(*                                                                         *)
(* Each component is its own specification about its own variables; what   *)
(* they share is said once: `sent` is the front end's outbox and the       *)
(* beginning of the wire, and an instruction that the adapter takes in is  *)
(* the first message of the wire (Connected). That the whole keeps what    *)
(* InstructionChannel promises follows from what each part implements.     *)
(*                                                                         *)
(* The adapter is the one of AdapterFaults: its clock may be set back,     *)
(* engine.reset() may fail, and the program may be started again.          *)
(***************************************************************************)
EXTENDS RolloutAdapterProofs, Sequences

CONSTANTS
    MaxInputs, MaxBreaks,     \* bounds, as in InstructionChannel
    Said,                     \* what inputs say: sets of the intents "stop" and "trash"
    Starts, CloseMayFail,     \* as in InstructionPublisher and the front ends
    HubMayFail                \* as in DesktopUI and ConsoleApp

VARIABLES
    sent,                                                   \* the outbox
    enabled, socket, stop_pc, raised, request, asked,       \* LanguageApp
    window, busy, unbusy, loop, cancel,                     \* DesktopUI
    typed, quits, reader, current, hub, phase,              \* ConsoleApp
    linked, wire, breaks, cause, stops, opened              \* InstructionChannel

Desktop == INSTANCE DesktopUIProofs WITH Texts <- Said
Console == INSTANCE ConsoleAppProofs WITH Texts <- Said

\* The channel with the adapter as its gate
Channel == INSTANCE InstructionChannelProofs
               WITH mode <- Mode, armed <- InFlight, heard <- received_count,
                    out <- IF gated THEN out.kind ELSE "none"

\* The adapter is started again: what it knew and what was under way is gone.
Reborn == Channel!Restart /\ FaultyInit'

\* One process of the adapter after another, each with AdapterFaults' steps
AdapterLives == FaultyInit /\ [][FaultyNext \/ Reborn]_allVars

\* The adapter's text for a message is its stop instruction if the message is a
\* stop, and a task otherwise (HeardAsSaid of Dialogue).
AsSent == Head(wire).kind = "stop" <=> text = Stop

\* publish() puts a message on the wire or loses it, the wire breaks, the SUB
\* thread's _on_msg takes the first message, or the adapter goes on by itself.
Connected ==
    \/ Channel!Carried \/ Channel!Link \/ Channel!Break \/ Channel!Restart
    \/ Channel!Taking /\ AsSent
    \/ Channel!Ran

Connection == Channel!WireInit /\ [][Connected]_(Channel!vars)

-----------------------------------------------------------------------------
\* A front end's outbox is the one the channel asks for.
LEMMA SameOutbox ==
    /\ Desktop!ImplementsOutbox => Channel!Outbox!Spec
    /\ Console!ImplementsOutbox => Channel!Outbox!Spec
BY DEF Desktop!ImplementsOutbox, Desktop!Outbox!Spec, Desktop!Outbox!Init, Desktop!Outbox!Next,
       Desktop!Outbox!Put, Desktop!Outbox!Messages,
       Console!ImplementsOutbox, Console!Outbox!Spec, Console!Outbox!Init, Console!Outbox!Next,
       Console!Outbox!Put, Console!Outbox!Messages,
       Channel!Outbox!Spec, Channel!Outbox!Init, Channel!Outbox!Next, Channel!Outbox!Put,
       Channel!Outbox!Messages

\* What every life of the adapter keeps
LEMMA LivesInvariant == AdapterLives => [](FaultyTypes /\ KeptInv)
<1>1. FaultyTypes /\ KeptInv /\ [FaultyNext]_allVars => (FaultyTypes /\ KeptInv)'
  BY FaultyTypeStep, KeptStep
<1>2. Reborn => FaultyInit'
  BY DEF Reborn
<1> QED BY <1>1, <1>2, FaultyStart, PTL DEF AdapterLives

\* The adapter, process after process, is the gate the channel asks for.
LEMMA LivesAreGates == AdapterLives => Channel!GateLives
<1>1. FaultyInit => Channel!Gate!Init
  BY FaultyGateStart DEF Gate!Init, Channel!Gate!Init
<1>2. [Gate!Next]_(Gate!vars) => [Channel!Gate!Next \/ Channel!Restart]_(Channel!gateVars)
  BY DEF Gate!Next, Gate!vars, Gate!Trigger, Gate!Halt, Gate!Begin, Gate!Commit, Gate!Expire,
         Gate!Move, Gate!Hold, Gate!Abandon,
         Channel!Gate!Next, Channel!gateVars, Channel!Gate!Trigger, Channel!Gate!Halt,
         Channel!Gate!Begin, Channel!Gate!Commit, Channel!Gate!Expire, Channel!Gate!Move,
         Channel!Gate!Hold, Channel!Gate!Abandon
<1>3. FaultyTypes /\ KeptInv /\ [FaultyNext \/ Reborn]_allVars
          => [Channel!Gate!Next \/ Channel!Restart]_(Channel!gateVars)
  BY <1>2, FaultyGateStep DEF Reborn
<1> QED BY <1>1, <1>3, LivesInvariant, PTL DEF AdapterLives, Channel!GateLives

\* The step in which the adapter takes in its stop instruction closes the gate
\* (_on_msg's stop branch), whatever faults there are.
LEMMA StopTextCloses ==
  ASSUME FaultyTypes, [FaultyNext]_allVars, received_count' # received_count, text = Stop
  PROVE  Mode' = "idle"
<1>1. SubStop \/ SubRecord
  <2>1. Next
    BY FaultyStep, SetBackOnlyClock DEF vars, stateVars
  <2> QED
    BY <2>1 DEF Next, SubNext, MainNext, ControlStep, Receive, SubTest, SubNothing, SubApply,
         Capture, FlushRead, FlushApply, Enter, DecideStop, DecideRun, Reset, Act, FreeRun,
         Join, Finish, Signal, Tick, Terminated, vars, stateVars
<1>2. ~SubRecord
  BY TextsAssumption DEF FaultyTypes, TypeInv, SubRecord
<1>3. stop_requested'
  BY <1>1, <1>2 DEF SubStop
<1> QED BY <1>3 DEF Mode

\* What connects the two ends is the channel's wire: the adapter's stop text
\* closes the gate, which is all that the wire asks of a stop.
LEMMA ConnectionIsWire == AdapterLives /\ Connection => Channel!WireSpec
<1>1. FaultyTypes /\ [FaultyNext \/ Reborn]_allVars /\ [Connected]_(Channel!vars)
          => [Channel!Wired]_(Channel!vars)
  <2> SUFFICES ASSUME FaultyTypes, [FaultyNext \/ Reborn]_allVars, Connected
               PROVE  Channel!Wired
    BY DEF Channel!vars
  <2>1. CASE Reborn
    BY <2>1 DEF Reborn, Channel!Wired
  <2>2. CASE [FaultyNext]_allVars /\ Channel!Taking /\ AsSent
    <3>1. received_count' # received_count
      BY <2>2 DEF Channel!Taking
    <3>2. Head(wire).kind = "stop" => Mode' = "idle"
      BY <2>2, <3>1, StopTextCloses DEF AsSent
    <3>3. Channel!StopCloses
      BY <3>2 DEF Channel!StopCloses
    <3> QED BY <2>2, <3>3 DEF Channel!Wired
  <2>3. CASE ~(Channel!Taking /\ AsSent)
    BY <2>3 DEF Connected, Channel!Wired
  <2> QED BY <2>1, <2>2, <2>3
<1> QED BY <1>1, LivesInvariant, PTL DEF AdapterLives, Connection, Channel!WireSpec

\* The robot waits or is driven only for an input given after every stop the
\* adapter has heard, and for each input at most once, with any front end that
\* is an ordered outbox (on the adapter's own flags, threads and clock).
LEMMA OutboxToRobot ==
  ASSUME Channel!ChannelAssumption
  PROVE  Channel!Outbox!Spec /\ AdapterLives /\ Connection
            => []Channel!LaterThanStops /\ Channel!OneWindow
<1>1. Channel!Outbox!Spec /\ AdapterLives /\ Connection => Channel!Parts
  BY LivesAreGates, ConnectionIsWire DEF Channel!Parts
<1>2. Channel!Parts => []Channel!LaterThanStops /\ Channel!OneWindow
  BY Channel!PartsKeepOrder
<1> QED BY <1>1, <1>2

\* From the desktop window to the robot: whatever Tk thread, event loop, SUB
\* thread and control loop do, whatever ZeroMQ loses and however often the
\* adapter is started again, the robot waits or is driven only for an input
\* typed after every stop the adapter has heard, and for no input twice
\* (_on_submit to _gated_get_action).
THEOREM DesktopToRobot ==
  ASSUME Channel!ChannelAssumption, Desktop!InputsAssumption, Desktop!CloseAssumption,
         Desktop!UIAssumption
  PROVE  Desktop!Spec /\ AdapterLives /\ Connection
            => []Channel!LaterThanStops /\ Channel!OneWindow
<1>1. Desktop!Spec => Desktop!ImplementsOutbox
  BY Desktop!InputsAssumption, Desktop!CloseAssumption, Desktop!UIAssumption,
     Desktop!DesktopImplementsOutbox
<1> QED BY <1>1, SameOutbox, OutboxToRobot

\* The same from the terminal (input_loop to _gated_get_action).
THEOREM ConsoleToRobot ==
  ASSUME Channel!ChannelAssumption, Console!InputsAssumption, Console!CloseAssumption,
         Console!ConsoleAssumption
  PROVE  Console!Spec /\ AdapterLives /\ Connection
            => []Channel!LaterThanStops /\ Channel!OneWindow
<1>1. Console!Spec => Console!ImplementsOutbox
  BY Console!InputsAssumption, Console!CloseAssumption, Console!ConsoleAssumption,
     Console!ConsoleImplementsOutbox
<1> QED BY <1>1, SameOutbox, OutboxToRobot
=============================================================================
