------------------------ MODULE InstructionPublisher ------------------------
(***************************************************************************)
(* language/zmq_pub/instruction_publisher.py: the ZeroMQ PUB socket        *)
(* through which PAI-Language sends instructions. publish() runs on the    *)
(* asyncio thread; in the desktop UI stop() runs on the Tk thread, without *)
(* a lock, so each assignment of stop() and each test of publish() is a    *)
(* step. The socket drops a message when nobody is subscribed or its       *)
(* high-water mark is reached, and does not tell.                          *)
(***************************************************************************)
EXTENDS Naturals, Sequences

CONSTANT CloseMayFail    \* may the socket's close() raise?

ASSUME CloseAssumption == CloseMayFail \in BOOLEAN

VARIABLES
    enabled,    \* _enabled
    socket,     \* _socket: "none", "unbound", "open" or "closed"
    stop_pc,    \* where stop() is: "idle", "close", "clear", "disable", "unwind"
    raised,     \* history: close() has raised out of stop() since start()
    sent        \* history: what the socket accepted, in order

pubVars == <<enabled, socket, stop_pc, raised, sent>>

PublisherInit ==
    /\ enabled = FALSE /\ socket = "none" /\ stop_pc = "idle" /\ raised = FALSE
    /\ sent = <<>>

\* What start() may come to: the socket is bound; pyzmq is missing, or the
\* publisher is configured away; an option or bind() raises
StartOutcomes == {"bound", "absent", "fails"}

\* start(): a socket whose bind() raised is left behind, and the flag clear
Start(outcome) ==
    /\ IF enabled \/ outcome = "absent" THEN UNCHANGED <<enabled, socket, raised>>
       ELSE IF outcome = "bound"
            THEN enabled' = TRUE /\ socket' = "open" /\ raised' = FALSE
            ELSE socket' = "unbound" /\ UNCHANGED <<enabled, raised>>
    /\ UNCHANGED <<stop_pc, sent>>

\* stop(): if not self._enabled: return
StopBegin ==
    /\ stop_pc = "idle"
    /\ stop_pc' = IF enabled THEN "close" ELSE "idle"
    /\ UNCHANGED <<enabled, socket, raised, sent>>

\* if self._socket is not None: self._socket.close(linger=0)
StopClose ==
    /\ stop_pc = "close"
    /\ \/ /\ socket' = IF socket = "none" THEN "none" ELSE "closed"
          /\ stop_pc' = "clear" /\ UNCHANGED raised
       \/ /\ CloseMayFail /\ socket # "none"
          /\ socket' \in {socket, "closed"}
          /\ stop_pc' = "unwind" /\ raised' = TRUE
    /\ UNCHANGED <<enabled, sent>>

\* finally: self._socket = None; an exception of close() leaves stop() here
StopClear ==
    /\ stop_pc \in {"clear", "unwind"}
    /\ socket' = "none"
    /\ stop_pc' = IF stop_pc = "clear" THEN "disable" ELSE "idle"
    /\ UNCHANGED <<enabled, raised, sent>>

\* Fault: the flag stays set.
StopForgets ==
    /\ stop_pc = "disable"
    /\ stop_pc' = "idle"
    /\ UNCHANGED <<enabled, socket, raised, sent>>

\* self._enabled = False
StopDisable ==
    /\ stop_pc = "disable"
    /\ enabled' = FALSE /\ stop_pc' = "idle"
    /\ UNCHANGED <<socket, raised, sent>>

StopStep == StopClose \/ StopClear \/ StopDisable

\* send_string(payload, NOBLOCK): every failure of an open, closed or missing
\* socket is swallowed
Transmit(message) ==
    /\ sent' \in {sent} \cup (IF socket = "open" THEN {Append(sent, message)} ELSE {})
    /\ UNCHANGED <<enabled, socket, stop_pc, raised>>
=============================================================================
