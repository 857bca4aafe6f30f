---------------------- MODULE InstructionChannelProofs ----------------------
(***************************************************************************)
(* Proofs about InstructionChannel, for any number of inputs and of broken *)
(* connections, with a start delay or without.                             *)
(*                                                                         *)
(* LaterThanStops is not inductive: a trigger still on the wire must be    *)
(* later than every stop heard, and one not yet sent later than all that   *)
(* was sent. Ordered says so: numbers increase along the way from the user *)
(* (Above: still to be sent) over the wire to the adapter (Taken).         *)
(***************************************************************************)
EXTENDS InstructionChannel, SequenceTheorems, TLAPS

\* Nothing was sent for input n or a later one.
Above(n) == \A k \in 1..Len(sent) : sent[k].id < n

\* What the adapter has taken in is earlier than n.
Taken(n) == cause < n /\ (\A s \in stops : s < n) /\ (\A s \in opened : s < n)

\* All that was sent is no later than the place in the outbox allows.
Numbered == \A k \in 1..Len(sent) : k <= sent[k].id

\* The wire is ordered, and later than what was taken in.
WireOrdered ==
    /\ \A i, j \in 1..Len(wire) : i < j => wire[i].id < wire[j].id
    /\ \A i \in 1..Len(wire) : Taken(wire[i].id)

\* What is still to be sent is later than both.
OutboxLater ==
    \A n \in Inputs : Above(n) => Taken(n) /\ \A i \in 1..Len(wire) : wire[i].id < n

Ordered == Numbered /\ WireOrdered /\ OutboxLater

\* A trigger that waits has not had its window.
Fresh == mode = "waiting" => cause \notin opened

IInv == TypeOK /\ Ordered /\ LaterThanStops /\ Fresh

-----------------------------------------------------------------------------
\* Messages carry the number of an input.
LEMMA MessageIds == Inputs \subseteq Nat /\ \A m \in Outbox!Messages : m.id \in Inputs
BY ChannelAssumption DEF Inputs, Outbox!Messages

\* Lengths, domains and elements of the two sequences
LEMMA Sequenced ==
  ASSUME TypeOK
  PROVE  /\ Len(sent) \in Nat /\ DOMAIN sent = 1..Len(sent)
         /\ \A k \in 1..Len(sent) : sent[k] \in Outbox!Messages /\ sent[k].id \in Inputs
         /\ Len(wire) \in Nat /\ DOMAIN wire = 1..Len(wire)
         /\ \A i \in 1..Len(wire) : wire[i] \in Outbox!Messages /\ wire[i].id \in Inputs
<1>1. sent \in Seq(Outbox!Messages) /\ wire \in Seq(Outbox!Messages)
  BY DEF TypeOK
<1>2. /\ Len(sent) \in Nat /\ DOMAIN sent = 1..Len(sent)
      /\ Len(wire) \in Nat /\ DOMAIN wire = 1..Len(wire)
  BY <1>1, LenProperties
<1>3. /\ \A k \in 1..Len(sent) : sent[k] \in Outbox!Messages
      /\ \A i \in 1..Len(wire) : wire[i] \in Outbox!Messages
  BY <1>1, ElementOfSeq
<1> QED BY <1>2, <1>3, MessageIds

\* The initial state: nothing was sent or heard.
LEMMA InitIInv == Init => IInv
<1> SUFFICES ASSUME Init PROVE IInv
  OBVIOUS
<1>1. /\ Len(sent) = 0 /\ Len(wire) = 0
      /\ sent \in Seq(Outbox!Messages) /\ wire \in Seq(Outbox!Messages)
  BY EmptySeq DEF Init, Outbox!Init
<1>2. TypeOK
  <2>1. linked \in BOOLEAN /\ armed \in BOOLEAN
    BY DEF Init, Gate!Init
  <2>2. breaks \in 0..MaxBreaks /\ cause \in 0..MaxInputs /\ Len(sent) <= MaxInputs /\ heard \in Nat
    BY <1>1, ChannelAssumption DEF Init, Gate!Init
  <2> QED BY <1>1, <2>1, <2>2 DEF Init, Gate!Init, TypeOK
<1>3. Ordered
  <2>1. 1..Len(sent) = {} /\ 1..Len(wire) = {}
    BY <1>1
  <2>2. \A n \in Inputs : Taken(n)
    BY DEF Init, Taken, Inputs
  <2> QED BY <2>1, <2>2 DEF Ordered, Numbered, WireOrdered, OutboxLater
<1> QED BY <1>2, <1>3 DEF Init, Gate!Init, IInv, LaterThanStops, Fresh

\* Steps that leave the messages alone, and of what was taken in at most forget
\* the cause or record it as opened, keep the order.
LEMMA OrderKept ==
  ASSUME IInv, UNCHANGED <<sent, wire, stops>>, cause' \in {cause, 0},
         opened' \in {opened, opened \cup {cause}}
  PROVE  Ordered'
<1>1. ASSUME NEW n \in Inputs, Taken(n) PROVE Taken(n)'
  BY <1>1, ChannelAssumption DEF Taken, Inputs
<1>2. WireOrdered'
  BY <1>1, Sequenced DEF IInv, Ordered, WireOrdered
<1>3. OutboxLater'
  <2>1. \A n \in Inputs : Above(n)' => Above(n)
    BY DEF Above
  <2> QED BY <1>1, <2>1 DEF IInv, Ordered, OutboxLater
<1> QED BY <1>2, <1>3 DEF IInv, Ordered, Numbered

\* publish(): the new message is later than all before it, and may be last on
\* the wire.
LEMMA PublishIInv == IInv /\ Publish => IInv'
<1> SUFFICES ASSUME IInv, Publish PROVE IInv'
  OBVIOUS
<1>1. PICK m \in Outbox!Messages :
        /\ Outbox!Put(m)
        /\ wire' \in {wire} \cup (IF linked THEN {Append(wire, m)} ELSE {})
        /\ UNCHANGED <<linked, breaks, gateVars, histVars>>
  BY DEF Publish
<1>2. /\ sent \in Seq(Outbox!Messages) /\ wire \in Seq(Outbox!Messages)
      /\ m.id \in Inputs /\ UNCHANGED <<mode, armed, heard, out, cause, stops, opened>>
  BY <1>1, MessageIds DEF IInv, TypeOK, gateVars, histVars
<1>3. Above(m.id) /\ sent' = Append(sent, m) /\ (wire' = wire \/ wire' = Append(wire, m))
  BY <1>1, Sequenced DEF Outbox!Put, Above, IInv
<1>4. Taken(m.id) /\ \A i \in 1..Len(wire) : wire[i].id < m.id
  BY <1>2, <1>3 DEF IInv, Ordered, OutboxLater
<1>5. /\ sent' \in Seq(Outbox!Messages) /\ Len(sent') = Len(sent) + 1
      /\ sent'[Len(sent) + 1] = m /\ \A k \in 1..Len(sent) : sent'[k] = sent[k]
  BY <1>2, <1>3, AppendProperties
<1>6. /\ wire' \in Seq(Outbox!Messages) /\ Len(wire') \in Nat
      /\ \A i \in 1..Len(wire') :
            \/ i \in 1..Len(wire) /\ wire'[i] = wire[i]
            \/ i = Len(wire) + 1 /\ wire'[i] = m
  <2>1. CASE wire' = wire
    BY <1>2, <2>1, LenProperties
  <2>2. CASE wire' = Append(wire, m)
    BY <1>2, <2>2, AppendProperties, Sequenced DEF IInv
  <2> QED BY <1>3, <2>1, <2>2
<1>7. Numbered'
  <2>1. Len(sent) < m.id
    <3>1. CASE Len(sent) = 0
      BY <3>1, <1>2, ChannelAssumption DEF Inputs
    <3>2. CASE Len(sent) # 0
      <4>1. Len(sent) \in 1..Len(sent) /\ sent[Len(sent)].id \in Inputs
        BY <3>2, Sequenced DEF IInv
      <4>2. Len(sent) <= sent[Len(sent)].id /\ sent[Len(sent)].id < m.id
        BY <4>1, <1>3 DEF Above, IInv, Ordered, Numbered
      <4> QED BY <4>1, <4>2, <1>2, Sequenced, ChannelAssumption DEF IInv, Inputs
    <3> QED BY <3>1, <3>2
  <2>2. \A k \in 1..(Len(sent) + 1) : k \in 1..Len(sent) \/ k = Len(sent) + 1
    BY Sequenced DEF IInv
  <2>3. Len(sent) + 1 <= m.id
    BY <2>1, <1>2, Sequenced, ChannelAssumption DEF IInv, Inputs
  <2> QED BY <2>2, <2>3, <1>5 DEF IInv, Ordered, Numbered
<1>8. TypeOK'
  <2>1. Len(sent') <= MaxInputs
    <3>1. Len(sent') \in 1..Len(sent')
      BY <1>5, Sequenced DEF IInv
    <3>2. Len(sent') <= m.id
      BY <3>1, <1>5, <1>7 DEF Numbered
    <3> QED BY <3>2, <1>2, <1>5, Sequenced, ChannelAssumption DEF IInv, Inputs
  <2> QED BY <1>1, <1>2, <1>5, <1>6, <2>1 DEF IInv, TypeOK
<1>9. WireOrdered'
  <2>1. \A i, j \in 1..Len(wire') : i < j => wire'[i].id < wire'[j].id
    BY <1>4, <1>6, Sequenced DEF IInv, Ordered, WireOrdered
  <2>2. \A i \in 1..Len(wire') : Taken(wire'[i].id)
    BY <1>4, <1>6 DEF IInv, Ordered, WireOrdered
  <2>3. \A n : Taken(n)' <=> Taken(n)
    BY <1>2 DEF Taken
  <2> QED BY <2>1, <2>2, <2>3 DEF WireOrdered
<1>10. OutboxLater'
  <2>1. SUFFICES ASSUME NEW n \in Inputs, Above(n)'
                 PROVE  Taken(n)' /\ \A i \in 1..Len(wire') : wire'[i].id < n
    BY DEF OutboxLater
  <2>2. Above(n) /\ m.id < n
    <3>1. Len(sent) \in Nat /\ 1..Len(sent) \subseteq 1..Len(sent')
              /\ Len(sent) + 1 \in 1..Len(sent')
      BY <1>5, Sequenced DEF IInv
    <3> QED BY <3>1, <2>1, <1>5 DEF Above
  <2>3. Taken(n) /\ \A i \in 1..Len(wire) : wire[i].id < n
    BY <2>2 DEF IInv, Ordered, OutboxLater
  <2> QED BY <1>2, <1>6, <2>2, <2>3 DEF Taken
<1> QED BY <1>2, <1>7, <1>8, <1>9, <1>10 DEF IInv, Ordered, LaterThanStops, Fresh

\* A broken connection or a restart leaves a first part of the wire.
LEMMA LinkIInv == IInv /\ (Link \/ Break \/ Restart) => IInv'
<1> SUFFICES ASSUME IInv PROVE Link \/ Break \/ Restart => IInv'
  OBVIOUS
<1>1. CASE Link
  <2>1. Ordered'
    BY <1>1, OrderKept DEF Link, histVars
  <2> QED BY <1>1, <2>1 DEF Link, IInv, TypeOK, LaterThanStops, Fresh, gateVars, histVars
<1>2. CASE Break \/ Restart
  <2>1. PICK n \in 0..Len(wire) :
          wire' \in Seq(Outbox!Messages) /\ Len(wire') = n /\ \A i \in 1..n : wire'[i] = wire[i]
    <3>1. CASE Break
      <4>1. PICK n \in 0..Len(wire) : wire' = SubSeq(wire, 1, n)
        BY <3>1 DEF Break
      <4>2. \A i \in 1..n : wire[i] \in Outbox!Messages
        BY <4>1, Sequenced DEF IInv
      <4>3. n \in Int /\ 1 \in Int /\ n >= 0
        BY <4>1, Sequenced DEF IInv
      <4>4. /\ SubSeq(wire, 1, n) \in Seq(Outbox!Messages)
            /\ Len(SubSeq(wire, 1, n)) = IF 1 <= n THEN n - 1 + 1 ELSE 0
            /\ \A i \in 1..(n - 1 + 1) : SubSeq(wire, 1, n)[i] = wire[1 + i - 1]
        BY <4>2, <4>3, SubSeqProperties
      <4>5. \A i \in 1..n : SubSeq(wire, 1, n)[i] = wire[i]
        BY <4>3, <4>4
      <4> QED BY <4>1, <4>3, <4>4, <4>5
    <3>2. CASE Restart
      <4>1. wire' = <<>> /\ Len(<<>>) = 0 /\ <<>> \in Seq(Outbox!Messages)
        BY <3>2, EmptySeq DEF Restart
      <4> QED BY <4>1, Sequenced DEF IInv
    <3> QED BY <1>2, <3>1, <3>2
  <2>2. /\ UNCHANGED <<sent, stops, opened>> /\ cause' \in {cause, 0}
        /\ linked' \in BOOLEAN /\ breaks' \in 0..MaxBreaks
        /\ mode' \in {mode, "idle"} /\ armed' \in BOOLEAN /\ heard' \in Nat
        /\ out' \in {"none", "hold", "policy"}
    <3>1. linked' \in BOOLEAN /\ armed' \in BOOLEAN
      BY <1>2 DEF Break, Restart, gateVars, IInv, TypeOK
    <3>2. breaks' \in 0..MaxBreaks
      BY <1>2, ChannelAssumption DEF Break, Restart, IInv, TypeOK
    <3>3. /\ UNCHANGED <<sent, stops, opened>> /\ cause' \in {cause, 0}
          /\ mode' \in {mode, "idle"} /\ heard' \in Nat /\ out' \in {"none", "hold", "policy"}
      BY <1>2 DEF Break, Restart, gateVars, histVars, IInv, TypeOK
    <3> QED BY <3>1, <3>2, <3>3
  <2>3. TypeOK'
    BY <2>1, <2>2, ChannelAssumption DEF IInv, TypeOK
  <2>4. ASSUME NEW m \in Inputs, Taken(m) PROVE Taken(m)'
    BY <2>2, <2>4, ChannelAssumption DEF Taken, Inputs
  <2>5. n \in Nat /\ 1..n \subseteq 1..Len(wire)
    BY <2>1, Sequenced DEF IInv
  <2>6. WireOrdered'
    BY <2>1, <2>4, <2>5, Sequenced DEF IInv, Ordered, WireOrdered
  <2>7. OutboxLater'
    <3>1. \A k \in Inputs : Above(k)' => Above(k)
      BY <2>2 DEF Above
    <3> QED BY <2>1, <2>4, <2>5, <3>1 DEF IInv, Ordered, OutboxLater
  <2>8. LaterThanStops' /\ Fresh'
    BY <1>2 DEF Break, Restart, gateVars, histVars, IInv, LaterThanStops, Fresh
  <2> QED BY <2>2, <2>3, <2>6, <2>7, <2>8 DEF IInv, Ordered, Numbered
<1> QED BY <1>1, <1>2

\* What is taken off the wire is later than all that was heard, and earlier
\* than the rest.
LEMMA Heard ==
  ASSUME IInv, wire # <<>>, wire' = Received(wire)
  PROVE  /\ Head(wire) \in Outbox!Messages /\ Head(wire).id \in Inputs /\ Taken(Head(wire).id)
         /\ wire' \in Seq(Outbox!Messages)
         /\ \A i \in 1..Len(wire') :
               i + 1 \in 1..Len(wire) /\ wire'[i] = wire[i + 1] /\ Head(wire).id < wire'[i].id
         /\ \A n \in Inputs : Above(n) => Head(wire).id < n
<1>1. wire \in Seq(Outbox!Messages)
  BY DEF IInv, TypeOK
<1>2. /\ Head(wire) \in Outbox!Messages /\ Tail(wire) \in Seq(Outbox!Messages)
      /\ Len(Tail(wire)) = Len(wire) - 1
      /\ \A i \in 1..Len(Tail(wire)) : Tail(wire)[i] = wire[i + 1]
  BY <1>1, HeadTailProperties
<1>3. 1 \in 1..Len(wire) /\ Head(wire) = wire[1]
  BY <1>1, EmptySeq
<1>4. \A i \in 1..Len(Tail(wire)) : i + 1 \in 1..Len(wire) /\ 1 < i + 1
  BY <1>2, Sequenced DEF IInv
<1> QED BY <1>2, <1>3, <1>4, MessageIds DEF Received, IInv, Ordered, WireOrdered, OutboxLater

\* The adapter takes in a message: a stop, a trigger, or a trigger that is lost.
LEMMA HearIInv == IInv /\ Hear => IInv'
<1> SUFFICES ASSUME IInv, Hear PROVE IInv'
  OBVIOUS
<1> DEFINE m == Head(wire)
<1>1. wire # <<>> /\ wire' = Received(wire) /\ UNCHANGED <<sent, linked, breaks>>
  BY DEF Hear
<1>2. /\ m \in Outbox!Messages /\ m.id \in Inputs /\ Taken(m.id)
      /\ wire' \in Seq(Outbox!Messages)
      /\ \A i \in 1..Len(wire') :
            i + 1 \in 1..Len(wire) /\ wire'[i] = wire[i + 1] /\ m.id < wire'[i].id
      /\ \A n \in Inputs : Above(n) => m.id < n
  BY <1>1, Heard
<1>3. /\ cause' \in {0, m.id} /\ stops' \in {stops, stops \cup {m.id}}
      /\ opened' \in {opened, opened \cup {m.id}}
  BY DEF Hear, HearStop, HearTrigger, HearLost
<1> HIDE DEF m
<1>4. TypeOK'
  <2>1. mode' \in {"idle", "waiting", "running"} /\ armed' \in BOOLEAN /\ heard' \in Nat
            /\ out' \in {"none", "hold", "policy"}
    BY DEF IInv, TypeOK, Hear, HearStop, HearTrigger, HearLost, Gate!Halt, Gate!Trigger
  <2>2. cause' \in 0..MaxInputs /\ stops' \subseteq Inputs /\ opened' \subseteq Inputs
    BY <1>2, <1>3, ChannelAssumption DEF IInv, TypeOK, Inputs
  <2> QED BY <1>1, <1>2, <2>1, <2>2 DEF IInv, TypeOK
<1>5. ASSUME NEW n \in Inputs, Taken(n), m.id < n PROVE Taken(n)'
  BY <1>3, <1>5, ChannelAssumption DEF Taken, Inputs
<1>6. Ordered'
  <2>1. WireOrdered'
    <3>1. \A i \in 1..Len(wire') : wire'[i].id \in Inputs
      BY <1>2, Sequenced DEF IInv
    <3>2. Len(wire') \in Nat
      BY <1>2, LenProperties
    <3>3. (\A i \in 1..Len(wire) : Taken(wire[i].id))'
      <4> SUFFICES ASSUME NEW i \in 1..Len(wire') PROVE \A n : n = wire'[i].id => Taken(n)'
        OBVIOUS
      <4> TAKE n
      <4>1. HAVE n = wire'[i].id
      <4>2. n \in Inputs /\ Taken(n) /\ m.id < n
        BY <1>2, <3>1, <4>1 DEF IInv, Ordered, WireOrdered
      <4> QED BY <4>2, <1>5
    <3>4. \A i, j \in 1..Len(wire') : i < j => wire'[i].id < wire'[j].id
      BY <1>2, <3>2 DEF IInv, Ordered, WireOrdered
    <3> QED BY <3>3, <3>4 DEF WireOrdered
  <2>2. OutboxLater'
    <3>1. \A n \in Inputs : Above(n)' => Above(n)
      BY <1>1 DEF Above
    <3> QED BY <1>2, <1>5, <3>1 DEF IInv, Ordered, OutboxLater
  <2> QED BY <1>1, <2>1, <2>2 DEF IInv, Ordered, Numbered
<1>7. LaterThanStops' /\ Fresh'
  <2>1. CASE HearTrigger(m)
    <3>1. m.id # 0 /\ (\A s \in stops : s < m.id) /\ m.id \notin opened
      BY <1>2, ChannelAssumption DEF Taken, Inputs
    <3> QED BY <2>1, <3>1 DEF HearTrigger, Gate!Trigger, LaterThanStops, Fresh
  <2>2. CASE HearStop(m) \/ HearLost(m)
    BY <2>2 DEF HearStop, HearLost, Gate!Halt, LaterThanStops, Fresh
  <2> QED BY <2>1, <2>2 DEF Hear, m
<1> QED BY <1>4, <1>6, <1>7 DEF IInv

\* The control loop's own steps: only one that opens a window adds to what the
\* adapter has taken in, and what it adds it had.
LEMMA LoopIInv == IInv /\ (Begin \/ Expire \/ Finish \/ Drive) => IInv'
<1> SUFFICES ASSUME IInv, Begin \/ Expire \/ Finish \/ Drive PROVE IInv'
  OBVIOUS
<1> USE DEF linkVars, gateVars, histVars
<1>1. /\ UNCHANGED <<sent, linked, wire, breaks, stops>> /\ cause' \in {cause, 0}
      /\ opened' \in {opened, opened \cup {cause}}
  BY DEF Begin, Expire, Finish, Drive
<1>2. Ordered'
  BY <1>1, OrderKept
<1>3. TypeOK' /\ LaterThanStops' /\ Fresh'
  <2> USE ChannelAssumption DEF IInv, TypeOK, LaterThanStops, Fresh
  <2>1. CASE Begin
    <3>1. cause # 0 /\ cause \in Inputs
      BY <2>1 DEF Begin, Gate!Begin, Inputs
    <3> QED BY <2>1, <3>1 DEF Begin, Gate!Begin
  <2>2. CASE Expire
    BY <2>2 DEF Expire, Gate!Expire
  <2>3. CASE Finish
    BY <2>3 DEF Finish, Gate!Move, Gate!Abandon
  <2>4. CASE Drive
    BY <2>4 DEF Drive, Gate!Commit, Gate!Hold
  <2> QED BY <2>1, <2>2, <2>3, <2>4
<1> QED BY <1>2, <1>3 DEF IInv

\* Every step of the channel keeps the invariant.
LEMMA StepIInv == IInv /\ [Next]_vars => IInv'
<1>1. IInv /\ UNCHANGED vars => IInv'
  <2> SUFFICES ASSUME IInv, UNCHANGED vars PROVE IInv'
    OBVIOUS
  <2> USE DEF vars, linkVars, gateVars, histVars
  <2>1. Ordered'
    BY OrderKept
  <2> QED BY <2>1 DEF IInv, TypeOK, LaterThanStops, Fresh
<1> QED BY <1>1, PublishIInv, LinkIInv, HearIInv, LoopIInv DEF Next

\* The invariant holds in every reachable state.
LEMMA Invariance == Spec => []IInv
BY InitIInv, StepIInv, PTL DEF Spec

-----------------------------------------------------------------------------
\* Every variable of the channel keeps its type; in particular no input sends
\* more than one instruction.
THEOREM ChannelTypeCorrect == Spec => []TypeOK
BY Invariance, PTL DEF IInv

\* The robot waits or runs only for a trigger given after every stop heard
\* (handle_user_input, publish, _on_msg).
THEOREM TriggersAreLater == Spec => []LaterThanStops
BY Invariance, PTL DEF IInv

\* No trigger gets a second window, whatever is lost or restarted.
THEOREM WindowsAreSingle == Spec => OneWindow
<1>1. ASSUME IInv, [Next]_vars, mode' = "running", mode # "running" \/ cause' # cause
      PROVE  cause' \notin opened
  <2>1. CASE Begin
    BY <1>1, <2>1 DEF Begin, Gate!Begin, IInv, Fresh
  <2>2. CASE Hear
    <3>1. Head(wire).id \in Inputs /\ Taken(Head(wire).id)
      BY <1>1, <2>2, Heard DEF Hear
    <3>2. Head(wire).id \notin opened
      BY <3>1, ChannelAssumption DEF Taken, Inputs
    <3>3. cause' = Head(wire).id
      BY <1>1, <2>2 DEF Hear, HearStop, HearTrigger, HearLost, Gate!Halt
    <3> QED BY <3>2, <3>3
  <2>3. CASE Publish \/ Link \/ Break \/ Restart
    BY <1>1, <2>3 DEF Publish, Link, Break, Restart, gateVars, histVars
  <2>4. CASE Expire \/ Finish \/ Drive
    BY <1>1, <2>4 DEF Expire, Finish, Drive, Gate!Expire, Gate!Move, Gate!Abandon,
         Gate!Commit, Gate!Hold, histVars
  <2>5. CASE UNCHANGED vars
    BY <1>1, <2>5 DEF vars, gateVars, histVars
  <2> QED BY <1>1, <2>1, <2>2, <2>3, <2>4, <2>5 DEF Next
<1>2. IInv /\ [Next]_vars =>
        [mode' = "running" /\ (mode # "running" \/ cause' # cause)
            => cause' \notin opened]_vars
  BY <1>1
<1> QED BY <1>2, Invariance, PTL DEF Spec, OneWindow
-----------------------------------------------------------------------------
(* The channel is made of its parts: any outbox that keeps its promise, any *)
(* gate that keeps its own, and ZeroMQ between them.                        *)

\* publish() hands the new message to ZeroMQ, which may drop it.
Carried ==
    /\ sent' # sent
    /\ wire' \in {wire} \cup (IF linked THEN {Append(wire, sent'[Len(sent')])} ELSE {})
    /\ UNCHANGED <<linked, breaks, gateVars, histVars>>

\* The gate takes in an instruction: the first message of the wire.
Taking ==
    LET message == Head(wire) IN
    /\ heard' # heard /\ wire # <<>> /\ wire' = Received(wire)
    /\ UNCHANGED <<sent, linked, breaks>>
    /\ stops' = IF message.kind = "stop" THEN stops \cup {message.id} ELSE stops
    /\ cause' = IF mode' = "idle" THEN 0 ELSE message.id
    /\ opened' = IF mode' = "running" THEN opened \cup {message.id} ELSE opened

\* A stop closes the gate.
StopCloses == Head(wire).kind = "stop" => mode' = "idle"

\* The gate moves by itself, for the trigger it has.
Ran ==
    /\ heard' = heard /\ UNCHANGED <<linkVars, stops>>
    /\ cause' = IF mode' # mode /\ mode' = "idle" THEN 0 ELSE cause
    /\ opened' = IF mode' # mode /\ mode' = "running" THEN opened \cup {cause} ELSE opened

\* What ZeroMQ does between the two ends
Wired == Carried \/ Link \/ Break \/ Restart \/ (Taking /\ StopCloses) \/ Ran

WireInit == linked = FALSE /\ wire = <<>> /\ breaks = 0 /\ cause = 0 /\ stops = {} /\ opened = {}
WireSpec == WireInit /\ [][Wired]_vars

\* The gate, of one adapter process after another
GateLives == Gate!Init /\ [][Gate!Next \/ Restart]_gateVars

\* An outbox, gates and a wire between them: nothing else is needed for what
\* the channel promises (publish(), ZeroMQ, _on_msg).
Parts == Outbox!Spec /\ GateLives /\ WireSpec

\* What the gate may do while nothing is taken in is what the control loop does.
LEMMA RanSteps ==
  ASSUME TypeOK, Ran, [Gate!Next \/ Restart]_gateVars
  PROVE  [Next]_vars
<1>1. CASE UNCHANGED gateVars
  BY <1>1 DEF Ran, vars, gateVars, histVars
<1>2. CASE Restart
  BY <1>2 DEF Next
<1>3. CASE Gate!Trigger \/ Gate!Halt
  \* both take something in
  BY <1>3 DEF Ran, Gate!Trigger, Gate!Halt, TypeOK
<1>4. CASE Gate!Begin
  <2>1. mode' = "running" /\ mode # "running"
    BY <1>4 DEF Gate!Begin
  <2> QED BY <1>4, <2>1 DEF Ran, Begin, Next
<1>5. CASE Gate!Expire
  <2>1. mode' = "idle" /\ mode = "running"
    BY <1>5 DEF Gate!Expire
  <2> QED BY <1>5, <2>1 DEF Ran, Expire, Next
<1>6. CASE Gate!Move \/ Gate!Abandon
  <2>1. mode' = mode
    BY <1>6 DEF Gate!Move, Gate!Abandon
  <2> QED BY <1>6, <2>1 DEF Ran, Finish, Next, histVars
<1>7. CASE Gate!Commit \/ Gate!Hold
  <2>1. mode' = mode
    BY <1>7 DEF Gate!Commit, Gate!Hold
  <2> QED BY <1>7, <2>1 DEF Ran, Drive, Next, histVars
<1> QED BY <1>1, <1>2, <1>3, <1>4, <1>5, <1>6, <1>7 DEF Gate!Next

\* A message the gate takes in is heard: as a stop, as a trigger, or as one
\* that is lost.
LEMMA TakingHears ==
  ASSUME TypeOK, Taking, StopCloses, [Gate!Next \/ Restart]_gateVars
  PROVE  [Next]_vars
<1> DEFINE m == Head(wire)
<1>1. /\ heard' # heard /\ wire # <<>> /\ wire' = Received(wire)
      /\ UNCHANGED <<sent, linked, breaks>>
  BY DEF Taking
<1>2. m.kind \in {"stop", "trash"}
  <2>1. wire \in Seq(Outbox!Messages)
    BY DEF TypeOK
  <2>2. m \in Outbox!Messages
    BY <1>1, <2>1, HeadTailProperties
  <2> QED BY <2>2 DEF Outbox!Messages
<1>3. CASE Restart
  BY <1>3 DEF Next
<1>4. CASE Gate!Halt
  <2>1. mode' = "idle"
    BY <1>4 DEF Gate!Halt
  <2>2. cause' = 0 /\ opened' = opened
    BY <2>1 DEF Taking
  <2>3. CASE m.kind = "stop"
    BY <1>1, <1>4, <2>2, <2>3 DEF Taking, HearStop, Hear, Next
  <2>4. CASE m.kind = "trash"
    BY <1>1, <1>4, <2>2, <2>4 DEF Taking, HearLost, Hear, Next
  <2> QED BY <1>2, <2>3, <2>4
<1>5. CASE Gate!Trigger
  <2>1. mode' = IF Delayed THEN "waiting" ELSE "running"
    BY <1>5 DEF Gate!Trigger
  <2>2. mode' # "idle" /\ (mode' = "running" <=> ~Delayed)
    BY <2>1
  <2>3. m.kind = "trash"
    BY <1>2, <2>2 DEF StopCloses
  <2>4. /\ cause' = m.id /\ stops' = stops
        /\ opened' = IF Delayed THEN opened ELSE opened \cup {m.id}
    BY <2>2, <2>3 DEF Taking
  <2> QED BY <1>1, <1>5, <2>3, <2>4 DEF HearTrigger, Hear, Next
<1>6. CASE UNCHANGED gateVars \/ Gate!Begin \/ Gate!Commit \/ Gate!Expire \/ Gate!Move
           \/ Gate!Hold \/ Gate!Abandon
  \* none of them takes anything in
  BY <1>1, <1>6 DEF gateVars, Gate!Begin, Gate!Commit, Gate!Expire, Gate!Move, Gate!Hold,
                    Gate!Abandon
<1> QED BY <1>3, <1>4, <1>5, <1>6 DEF Gate!Next

\* A message that is carried is one that the outbox put.
LEMMA CarriedIsPublished ==
  ASSUME TypeOK, Carried, [Outbox!Next]_sent
  PROVE  Publish
<1>1. PICK m \in Outbox!Messages : Outbox!Put(m)
  BY DEF Carried, Outbox!Next
<1>2. sent' = Append(sent, m) /\ sent \in Seq(Outbox!Messages)
  BY <1>1 DEF Outbox!Put, TypeOK
<1>3. Len(sent') = Len(sent) + 1 /\ sent'[Len(sent) + 1] = m
  BY <1>2, AppendProperties
<1>4. wire' \in {wire} \cup (IF linked THEN {Append(wire, m)} ELSE {})
  BY <1>3 DEF Carried
<1> QED BY <1>1, <1>4 DEF Carried, Publish

\* Every step of the channel is a step of its parts, or leaves them alone.
LEMMA StepsOfParts ==
  ASSUME TypeOK, [Next]_vars
  PROVE  [Outbox!Next]_sent /\ [Gate!Next \/ Restart]_gateVars /\ [Wired]_vars
<1>1. CASE Publish
  <2>1. PICK m \in Outbox!Messages :
           /\ Outbox!Put(m)
           /\ wire' \in {wire} \cup (IF linked THEN {Append(wire, m)} ELSE {})
    BY <1>1 DEF Publish
  <2>2. sent' = Append(sent, m) /\ sent \in Seq(Outbox!Messages)
    BY <2>1 DEF Outbox!Put, TypeOK
  <2>3. Len(sent') = Len(sent) + 1 /\ sent'[Len(sent) + 1] = m
    BY <2>2, AppendProperties
  <2>4. sent' # sent
    BY <2>2, <2>3, LenProperties
  <2>5. wire' \in {wire} \cup (IF linked THEN {Append(wire, sent'[Len(sent')])} ELSE {})
    BY <2>1, <2>3
  <2>6. Carried
    BY <1>1, <2>4, <2>5 DEF Carried, Publish
  <2> QED BY <2>1, <2>6 DEF Outbox!Next, Wired, Publish, gateVars, Carried
<1>2. CASE Link \/ Break \/ Restart
  BY <1>2 DEF Link, Break, Restart, Wired
<1>3. CASE Hear
  <2> DEFINE m == Head(wire)
  <2>1. /\ wire # <<>> /\ wire' = Received(wire) /\ UNCHANGED <<sent, linked, breaks>>
        /\ HearStop(m) \/ HearTrigger(m) \/ HearLost(m)
    BY <1>3 DEF Hear
  <2> HIDE DEF m
  <2>2. CASE HearStop(m)
    <3>1. Gate!Halt /\ m.kind = "stop" /\ mode' = "idle" /\ heard' # heard
      BY <2>2 DEF HearStop, Gate!Halt, TypeOK
    <3>2. Taking /\ StopCloses
      BY <2>1, <2>2, <3>1 DEF Taking, StopCloses, HearStop, m
    <3> QED BY <2>1, <3>1, <3>2 DEF Gate!Next, Wired
  <2>3. CASE HearTrigger(m)
    <3>1. /\ Gate!Trigger /\ m.kind = "trash" /\ heard' # heard
          /\ mode' = IF Delayed THEN "waiting" ELSE "running"
      BY <2>3 DEF HearTrigger, Gate!Trigger, TypeOK
    <3>2. Taking /\ StopCloses
      BY <2>1, <2>3, <3>1 DEF Taking, StopCloses, HearTrigger, m
    <3> QED BY <2>1, <3>1, <3>2 DEF Gate!Next, Wired
  <2>4. CASE HearLost(m)
    <3>1. Gate!Halt /\ m.kind = "trash" /\ mode' = "idle" /\ heard' # heard
      BY <2>4 DEF HearLost, Gate!Halt, TypeOK
    <3>2. Taking /\ StopCloses
      BY <2>1, <2>4, <3>1 DEF Taking, StopCloses, HearLost, m
    <3> QED BY <2>1, <3>1, <3>2 DEF Gate!Next, Wired
  <2> QED BY <2>1, <2>2, <2>3, <2>4
<1>4. CASE Begin
  BY <1>4 DEF Begin, Gate!Begin, Gate!Next, Ran, Wired, linkVars
<1>5. CASE Expire
  BY <1>5 DEF Expire, Gate!Expire, Gate!Next, Ran, Wired, linkVars
<1>6. CASE Finish
  BY <1>6 DEF Finish, Gate!Move, Gate!Abandon, Gate!Next, Ran, Wired, linkVars, histVars
<1>7. CASE Drive
  BY <1>7 DEF Drive, Gate!Commit, Gate!Hold, Gate!Next, Ran, Wired, linkVars, histVars
<1>8. CASE UNCHANGED vars
  BY <1>8 DEF vars, linkVars
<1> QED BY <1>1, <1>2, <1>3, <1>4, <1>5, <1>6, <1>7, <1>8 DEF Next

\* Whatever implements the outbox and whatever implements the gate, with ZeroMQ
\* in between they make this channel, and the channel is no more than that.
THEOREM PartsMakeChannel == Parts <=> Spec
<1>1. Outbox!Init /\ Gate!Init /\ WireInit <=> Init
  BY DEF Init, WireInit
<1>2. /\ IInv /\ [Outbox!Next]_sent /\ [Gate!Next \/ Restart]_gateVars /\ [Wired]_vars
      => [Next]_vars
  <2> SUFFICES ASSUME IInv, [Outbox!Next]_sent, [Gate!Next \/ Restart]_gateVars, [Wired]_vars
               PROVE  [Next]_vars
    OBVIOUS
  <2>1. TypeOK
    BY DEF IInv
  <2>2. CASE Carried
    BY <2>1, <2>2, CarriedIsPublished DEF Next
  <2>3. CASE Link \/ Break \/ Restart
    BY <2>3 DEF Next
  <2>4. CASE Taking /\ StopCloses
    BY <2>1, <2>4, TakingHears
  <2>5. CASE Ran
    BY <2>1, <2>5, RanSteps
  <2> QED BY <2>2, <2>3, <2>4, <2>5 DEF Wired
<1>3. IInv /\ [Next]_vars
      => [Outbox!Next]_sent /\ [Gate!Next \/ Restart]_gateVars /\ [Wired]_vars
  BY StepsOfParts DEF IInv
<1>4. Parts => Spec
  BY <1>1, <1>2, InitIInv, StepIInv, PTL DEF Parts, Outbox!Spec, GateLives, WireSpec, Spec
<1>5. Spec => Parts
  BY <1>1, <1>3, InitIInv, StepIInv, PTL DEF Parts, Outbox!Spec, GateLives, WireSpec, Spec
<1> QED BY <1>4, <1>5

\* So the robot waits or runs only for a trigger given after every stop heard,
\* and for each trigger once, whatever front end and adapter keep their promises.
THEOREM PartsKeepOrder == Parts => []LaterThanStops /\ OneWindow
BY PartsMakeChannel, TriggersAreLater, WindowsAreSingle
=============================================================================
