----------------------------- MODULE HubClient -----------------------------
(***************************************************************************)
(* language/ws/client.py with ws/dispatcher.py, LanguageApp's handlers and *)
(* VisionState.update: the reconnecting WebSocket client through which     *)
(* PAI-Vision's frames reach the vision context, and its send().           *)
(*                                                                         *)
(* One event loop runs everything; run() gives way at connect, receive and *)
(* sleep, and every received message is handled by a task of its own. The  *)
(* event loop starts tasks in the order they were created, and the         *)
(* handlers never await, so the tasks form a queue.                        *)
(*                                                                         *)
(* The server and the network are external: the server may be down, refuse *)
(* the handshake, close the connection properly or vanish.                 *)
(***************************************************************************)
EXTENDS Naturals, Sequences

CONSTANTS
    MaxRetries,     \* ws_max_retries, or Forever
    Forever,        \* None: retry without limit
    MayReject,      \* may the server answer the handshake with an error?
    MaxFrames,      \* bound on the frames the server sends
    MaxOutages,     \* bound on the times the server goes down or closes
    RetryCap        \* bound on the counters of consecutive failures

ASSUME HubAssumption ==
    /\ MaxRetries \in Nat \cup {Forever} /\ Forever \notin Nat
    /\ MayReject \in BOOLEAN
    /\ MaxFrames \in Nat /\ MaxOutages \in Nat
    /\ RetryCap \in Nat /\ (MaxRetries \in Nat => RetryCap > MaxRetries)

VARIABLES
    hub,            \* run(): "connecting", "open", "sleeping", or one of GivenUp
    ws,             \* _ws: "none", "live" or "closed"
    connected,      \* the event _connected
    retries,        \* run()'s counter, capped
    inbox,          \* frames received and not yet read by _recv_loop
    tasks,          \* dispatch tasks created and not yet run
    vision,         \* number of the frame VisionState shows, 0 for none
    call,           \* a send(): "idle", "waiting", "woken", "sent", "raised",
                    \* "timeout" or "dropped"
    server,         \* "up" or "down"
    peer,           \* the server's end: "none", "live", "closed" or "lost"
    produced,       \* frames sent so far
    outages,        \* outages so far
    failures,       \* history: failures since the connection was last open
    cut             \* history: the connection failed while a send() that was
                    \* let through had not gone on yet

runVars == <<hub, ws, connected, retries, failures, cut>>
frameVars == <<inbox, tasks, vision>>
serverVars == <<server, peer, produced, outages>>
vars == <<runVars, frameVars, serverVars, call>>

\* An exception has left run().
GivenUp == {"failed", "rejected", "undecodable"}

\* A frame carries a valid or best-effort vision_update, an action_status, is
\* JSON whose handling raises or is ignored, is refused by json.loads with a
\* JSONDecodeError, or with another exception (bytes that are no text).
FrameKinds == {"vision", "status", "bad", "not JSON", "not text"}
Frames == [n : Nat, kind : FrameKinds]

TypeOK ==
    /\ hub \in {"connecting", "open", "sleeping"} \cup GivenUp
    /\ ws \in {"none", "live", "closed"}
    /\ connected \in BOOLEAN /\ cut \in BOOLEAN
    /\ retries \in 0..RetryCap /\ failures \in 0..RetryCap
    /\ inbox \in Seq(Frames) /\ tasks \in Seq(Frames)
    /\ vision \in 0..produced /\ produced \in 0..MaxFrames
    /\ call \in {"idle", "waiting", "woken", "sent", "raised", "timeout", "dropped"}
    /\ server \in {"up", "down"} /\ outages \in 0..MaxOutages
    /\ peer \in {"none", "live", "closed", "lost"}

Init ==
    /\ hub = "connecting" /\ ws = "none" /\ connected = FALSE /\ retries = 0
    /\ inbox = <<>> /\ tasks = <<>> /\ vision = 0 /\ call = "idle"
    /\ server \in {"up", "down"} /\ peer = "none"
    /\ produced = 0 /\ outages = 0 /\ failures = 0 /\ cut = FALSE

\* Fault: a failure counts twice.
BumpTwice(counter) == counter + 2

\* retries += 1, capped
Bump(counter) == IF counter < RetryCap THEN counter + 1 ELSE counter

-----------------------------------------------------------------------------
(* run() and _recv_loop.                                                   *)

\* Fault: a success does not forget the failures before it.
RetriesKept == retries

\* retries = 0
RetriesAfterOpen == 0

Open ==
    /\ hub = "connecting" /\ server = "up"
    /\ hub' = "open" /\ ws' = "live" /\ connected' = TRUE
    /\ retries' = RetriesAfterOpen /\ failures' = 0
    /\ peer' = "live"
    /\ call' = IF call = "waiting" THEN "woken" ELSE call      \* _connected.set()
    /\ UNCHANGED <<cut, frameVars, server, produced, outages>>

\* max_r is not None and retries > max_r
Exhausted(n) == MaxRetries # Forever /\ n > MaxRetries

\* Fault: the event stays set when the connection is gone.
FailureUnsignalled ==
    /\ ws' = "none" /\ UNCHANGED connected
    /\ retries' = Bump(retries) /\ failures' = Bump(failures)
    /\ hub' = IF Exhausted(retries + 1) THEN "failed" ELSE "sleeping"
    /\ cut' = (cut \/ call = "woken")

\* except (ConnectionClosed, InvalidURI, OSError)
Failure ==
    /\ connected' = FALSE /\ ws' = "none"
    /\ retries' = Bump(retries) /\ failures' = Bump(failures)
    /\ hub' = IF Exhausted(retries + 1) THEN "failed" ELSE "sleeping"
    /\ cut' = (cut \/ call = "woken")

\* connect() fails: nobody listens
Refused ==
    /\ hub = "connecting" /\ server = "down"
    /\ Failure
    /\ UNCHANGED <<frameVars, serverVars, call>>

\* connect() fails: the handshake is answered with an error, and the
\* exception is none of those caught
Rejected ==
    /\ MayReject
    /\ hub = "connecting" /\ server = "up"
    /\ hub' = "rejected"
    /\ UNCHANGED <<ws, connected, retries, failures, cut, frameVars, serverVars, call>>

\* Fault: the client waits to be connected before it connects.
WakeConnected ==
    /\ hub = "sleeping" /\ connected
    /\ hub' = "connecting"
    /\ UNCHANGED <<ws, connected, retries, failures, cut, frameVars, serverVars, call>>

\* await asyncio.sleep(ws_reconnect_interval)
Wake ==
    /\ hub = "sleeping"
    /\ hub' = "connecting"
    /\ UNCHANGED <<ws, connected, retries, failures, cut, frameVars, serverVars, call>>

\* Fault: a task is put before those already waiting.
Overtake(queue, frame) == <<frame>> \o queue

\* create_task: the loop runs tasks in the order of their creation
Schedule(queue, frame) == Append(queue, frame)

\* async for raw in ws
Receive ==
    /\ hub = "open" /\ inbox # <<>> /\ Head(inbox).kind # "not text"
    /\ inbox' = Tail(inbox)
    /\ tasks' = IF Head(inbox).kind = "not JSON" THEN tasks
                ELSE Schedule(tasks, Head(inbox))
    /\ UNCHANGED <<runVars, vision, serverVars, call>>

\* json.loads raises something else than JSONDecodeError (UnicodeDecodeError
\* for a binary frame): it leaves _recv_loop, the `async with`, which closes
\* the connection, and run(). _connected and _ws stay.
Undecodable ==
    /\ hub = "open" /\ inbox # <<>> /\ Head(inbox).kind = "not text"
    /\ inbox' = Tail(inbox)
    /\ hub' = "undecodable" /\ ws' = "closed" /\ peer' = "none"
    /\ UNCHANGED <<connected, retries, failures, cut, tasks, vision, call, server,
                   produced, outages>>

\* The connection is closed properly: the iteration ends, _recv_loop and the
\* `async with` return, and the loop goes round. _connected and _ws stay.
ClosedProperly ==
    /\ hub = "open" /\ inbox = <<>> /\ peer = "closed"
    /\ hub' = "connecting" /\ ws' = "closed" /\ peer' = "none"
    /\ UNCHANGED <<connected, retries, failures, cut, frameVars, call, server,
                   produced, outages>>

\* The connection is lost: the iteration raises ConnectionClosedError.
ConnectionLost ==
    /\ hub = "open" /\ inbox = <<>> /\ peer = "lost"
    /\ peer' = "none"
    /\ Failure
    /\ UNCHANGED <<frameVars, call, server, produced, outages>>

\* Fault: a frame that cannot be handled takes what follows with it.
TasksDropped == IF Head(tasks).kind = "bad" THEN <<>> ELSE Tail(tasks)

\* _safe_dispatch: the task is over, even if the handler raised
TasksLeft == Tail(tasks)

\* _on_vision_update and VisionState.update: what the vision context shows after
\* a frame. Every other frame, an action_status included, leaves it alone.
Shown(frame) == IF frame.kind = "vision" THEN frame.n ELSE vision

\* Dispatcher.dispatch
Dispatch ==
    /\ hub \notin GivenUp /\ tasks # <<>>
    /\ tasks' = TasksLeft
    /\ vision' = Shown(Head(tasks))
    /\ UNCHANGED <<runVars, inbox, serverVars, call>>

-----------------------------------------------------------------------------
(* send().                                                                 *)

\* wait_for(_connected.wait(), timeout): an event that is set lets it through
\* at once, else Open does.
Send ==
    /\ hub \notin GivenUp /\ call = "idle"
    /\ call' = IF connected THEN "woken" ELSE "waiting"
    /\ UNCHANGED <<runVars, frameVars, serverVars>>

\* The waiter goes on, when run() may have moved on in between, and never looks
\* at the event again: _ws.send, if there is a _ws. A connection whose end is
\* known raises.
SendNow ==
    /\ hub \notin GivenUp /\ call = "woken"
    /\ call' = IF ws = "none" THEN "dropped"
               ELSE IF ws = "live" /\ peer = "live" THEN "sent" ELSE "raised"
    /\ UNCHANGED <<runVars, frameVars, serverVars>>

\* asyncio.TimeoutError
SendTimesOut ==
    /\ hub \notin GivenUp /\ call = "waiting"
    /\ call' = "timeout"
    /\ UNCHANGED <<runVars, frameVars, serverVars>>

-----------------------------------------------------------------------------
(* The server.                                                             *)

Produce ==
    \E kind \in FrameKinds :
        /\ peer = "live" /\ produced < MaxFrames
        /\ produced' = produced + 1
        /\ inbox' = Append(inbox, [n |-> produced + 1, kind |-> kind])
        /\ UNCHANGED <<runVars, tasks, vision, call, server, peer, outages>>

\* The server closes the connection, properly or not, and stays up or not.
Outage ==
    \E down \in BOOLEAN, how \in {"closed", "lost"} :
        /\ outages < MaxOutages /\ server = "up"
        /\ outages' = outages + 1
        /\ server' = IF down THEN "down" ELSE "up"
        /\ peer' = IF peer = "live" THEN how ELSE peer
        /\ UNCHANGED <<runVars, frameVars, call, produced>>

Restart ==
    /\ server = "down"
    /\ server' = "up"
    /\ UNCHANGED <<runVars, frameVars, call, peer, produced, outages>>

RunStep == Open \/ Refused \/ Wake \/ Receive \/ Undecodable \/ ClosedProperly \/ ConnectionLost
Terminated == hub \in GivenUp /\ UNCHANGED vars
Next == RunStep \/ Dispatch \/ Rejected \/ Send \/ SendNow \/ SendTimesOut
            \/ Produce \/ Outage \/ Restart \/ Terminated

Spec == Init /\ [][Next]_vars

\* The event loop runs run() and the tasks; the server owes nothing.
FairSpec == Spec /\ WF_vars(RunStep) /\ WF_vars(Dispatch)

-----------------------------------------------------------------------------
\* The vision context never goes back to an older frame, across reconnections
\* and although each frame is handled by a task of its own (_recv_loop).
VisionForward == [][vision' >= vision]_vars

\* Every vision frame handed to a task is shown, or a newer one, whatever else
\* comes before it (_safe_dispatch), unless the client gives up.
FramesShown ==
    \A n \in 1..MaxFrames :
        (\E i \in DOMAIN tasks : tasks[i] = [n |-> n, kind |-> "vision"])
            ~> vision >= n \/ hub \in GivenUp

\* run()'s `raise` ends the client after more than ws_max_retries failures in a
\* row, no sooner and no later, and never without a limit.
GivesUpAtLimit ==
    hub = "failed" <=> MaxRetries # Forever /\ failures > MaxRetries

\* Without a limit the client never gives up (Config.ws_max_retries).
RetriesForever == MaxRetries = Forever => hub \notin GivenUp

\* Once the server stays up, the client is connected and stays connected, or
\* had given up, or the server closes the connection once more (run).
Reconnects ==
    <>[](server = "up" /\ peer \in {"none", "live"}) => <>[](hub \in {"open"} \cup GivenUp)

\* A send that was let through is dropped without an exception only if the
\* connection failed between that and its going on: run() never leaves the
\* event set without a `_ws`, dead or alive (run against send).
DroppedOnlyIfCut == call = "dropped" => cut
=============================================================================
