------------------------- MODULE InstructionChannel -------------------------
(***************************************************************************)
(* From the user's input to the robot: an ordered outbox (which DesktopUI  *)
(* and ConsoleApp implement), ZeroMQ's PUB and SUB sockets with the TCP    *)
(* connection between them, and the one-shot gate (which RolloutAdapter    *)
(* implements).                                                            *)
(*                                                                         *)
(* The wire keeps the order but not the messages: PUB drops what is sent   *)
(* while nobody is subscribed or above its high-water mark, a connection   *)
(* that breaks takes what was under way with it, and the adapter may be    *)
(* restarted. Nobody is told, and nothing is sent again.                   *)
(***************************************************************************)
EXTENDS Naturals, Sequences

CONSTANTS
    MaxInputs,         \* bound on the inputs of the user
    Delayed,           \* the adapter has a start delay
    MaxBreaks          \* bound on broken connections and restarts

ASSUME ChannelAssumption == MaxInputs \in Nat /\ Delayed \in BOOLEAN /\ MaxBreaks \in Nat

VARIABLES
    sent,              \* what the publisher's socket accepted
    linked,            \* the SUB socket is connected and subscribed
    wire,              \* what is under way, or received and not yet read
    breaks,            \* broken connections and restarts so far
    mode, armed, heard, out,   \* the adapter's gate (OneShotGate)
    \* history: the input whose trigger waits or runs, 0 for none; the inputs
    \* whose stop was heard; the inputs whose trigger got its window
    cause, stops, opened

Outbox == INSTANCE OrderedOutbox
Gate == INSTANCE OneShotGate

gateVars == <<mode, armed, heard, out>>
histVars == <<cause, stops, opened>>
linkVars == <<sent, linked, wire, breaks>>
vars == <<linkVars, gateVars, histVars>>

Inputs == 1..MaxInputs

TypeOK ==
    /\ sent \in Seq(Outbox!Messages) /\ wire \in Seq(Outbox!Messages)
    /\ linked \in BOOLEAN /\ breaks \in 0..MaxBreaks
    /\ mode \in {"idle", "waiting", "running"} /\ armed \in BOOLEAN
    /\ Len(sent) <= MaxInputs
    /\ heard \in Nat /\ out \in {"none", "hold", "policy"}
    /\ cause \in 0..MaxInputs /\ stops \subseteq Inputs /\ opened \subseteq Inputs

Init ==
    /\ Outbox!Init /\ Gate!Init
    /\ linked = FALSE /\ wire = <<>> /\ breaks = 0
    /\ cause = 0 /\ stops = {} /\ opened = {}

-----------------------------------------------------------------------------
(* PAI-Language and the wire.                                              *)

\* publish() returns True whether the message is taken or dropped.
Publish ==
    \E message \in Outbox!Messages :
        /\ Outbox!Put(message)
        /\ wire' \in {wire} \cup (IF linked THEN {Append(wire, message)} ELSE {})
        /\ UNCHANGED <<linked, breaks, gateVars, histVars>>

\* SUB connects, and its subscription reaches PUB.
Link == ~linked /\ linked' = TRUE /\ UNCHANGED <<sent, wire, breaks, gateVars, histVars>>

\* The connection breaks: what has not reached SUB is gone. ZeroMQ connects
\* again by itself. PAI-Language may have been restarted in between.
Break ==
    \E n \in 0..Len(wire) :
        /\ linked /\ breaks < MaxBreaks
        /\ linked' = FALSE /\ breaks' = breaks + 1
        /\ wire' = SubSeq(wire, 1, n)
        /\ UNCHANGED <<sent, gateVars, histVars>>

\* The adapter is restarted: a new TaskState, a new SUB socket.
Restart ==
    /\ breaks < MaxBreaks
    /\ linked' = FALSE /\ breaks' = breaks + 1 /\ wire' = <<>>
    /\ mode' = "idle" /\ armed' = FALSE /\ heard' = 0 /\ out' = "none"
    /\ cause' = 0
    /\ UNCHANGED <<sent, stops, opened>>

-----------------------------------------------------------------------------
(* The adapter.                                                            *)

\* Fault: a message is not taken off the queue.
Unread(queue) == queue

\* socket.recv()
Received(queue) == Tail(queue)

\* _on_msg for the stop
HearStop(message) ==
    /\ message.kind = "stop"
    /\ Gate!Halt
    /\ cause' = 0 /\ stops' = stops \cup {message.id}
    /\ UNCHANGED opened

\* _on_msg for a trigger: without a start delay its window opens at once
HearTrigger(message) ==
    /\ message.kind = "trash"
    /\ Gate!Trigger
    /\ cause' = message.id
    /\ opened' = IF Delayed THEN opened ELSE opened \cup {message.id}
    /\ UNCHANGED stops

\* A trigger that overtakes the handling of a stop is cancelled with it.
HearLost(message) ==
    /\ message.kind = "trash"
    /\ Gate!Halt
    /\ cause' = 0
    /\ UNCHANGED <<stops, opened>>

Hear ==
    /\ wire # <<>>
    /\ wire' = Received(wire)
    /\ HearStop(Head(wire)) \/ HearTrigger(Head(wire)) \/ HearLost(Head(wire))
    /\ UNCHANGED <<sent, linked, breaks>>

\* The control loop
Begin == Gate!Begin /\ opened' = opened \cup {cause} /\ UNCHANGED <<linkVars, cause, stops>>

\* Fault: `pending` is not cleared when the wait is over, and the window is
\* followed by another.
ExpireToWait ==
    /\ mode = "running" /\ ~armed /\ mode' = "waiting"
    /\ UNCHANGED <<armed, heard, out, linkVars, histVars>>

Expire == Gate!Expire /\ cause' = 0 /\ UNCHANGED <<linkVars, stops, opened>>
Finish == (Gate!Move \/ Gate!Abandon) /\ UNCHANGED <<linkVars, histVars>>
Drive == (Gate!Commit \/ Gate!Hold) /\ UNCHANGED <<linkVars, histVars>>

Next == Publish \/ Link \/ Break \/ Restart \/ Hear \/ Begin \/ Expire \/ Finish \/ Drive

Spec == Init /\ [][Next]_vars

\* The subscriber reads what arrives. A wait ends and a window closes although
\* a decided step may stand in between again and again: time passes
\* (RolloutAdapter, WaitEnds and WindowCloses). Neither the user nor the
\* connection owes anything.
FairSpec ==
    Spec /\ WF_vars(Hear) /\ WF_vars(Finish) /\ SF_vars(Begin) /\ SF_vars(Expire)

-----------------------------------------------------------------------------
\* The robot waits or runs only for a trigger the user gave after every stop
\* the adapter has heard, whichever messages were lost and although a trigger
\* takes the longer way through the LLM (handle_user_input to _on_msg).
LaterThanStops ==
    mode # "idle" => cause # 0 /\ \A s \in stops : s < cause

\* No trigger gets a second window: nothing is sent again and nothing that was
\* under way comes back after a broken connection or a restart.
OneWindow ==
    [][mode' = "running" /\ (mode # "running" \/ cause' # cause)
        => cause' \notin opened]_vars

\* Once the user gives no more inputs the robot comes to rest, whichever
\* messages were lost, the stop for instance.
ComesToRest == <>[](mode = "idle" /\ ~armed)
=============================================================================
