--------------------------- MODULE OrderedOutbox ---------------------------
(***************************************************************************)
(* What a front end of PAI-Language promises to the other side of the      *)
(* instruction channel, without windows, event loops, the LLM or the       *)
(* publisher's lifetime: every input of the user sends at most one         *)
(* instruction, a stop or a trigger, and in the order of the inputs. An    *)
(* input may send nothing.                                                 *)
(***************************************************************************)
EXTENDS Naturals, Sequences

CONSTANT MaxInputs     \* bound on the inputs of the user

VARIABLE sent          \* the instructions sent, each with its input's number

Messages == [id : 1..MaxInputs, kind : {"stop", "trash"}]

Init == sent = <<>>

\* Fault: an instruction is sent when it is ready, whatever was sent before.
PutAnyTime(message) == sent' = Append(sent, message)

Put(message) ==
    /\ \A i \in DOMAIN sent : sent[i].id < message.id
    /\ sent' = Append(sent, message)

Next == \E message \in Messages : Put(message)

Spec == Init /\ [][Next]_sent
=============================================================================
