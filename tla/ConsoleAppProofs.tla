-------------------------- MODULE ConsoleAppProofs --------------------------
(***************************************************************************)
(* Theorems about ConsoleApp: however many lines are typed while a request *)
(* is handled, and whenever the program ends, publish() finds its socket,  *)
(* and instructions leave in the order of the lines.                       *)
(***************************************************************************)
EXTENDS ConsoleApp, LanguageAppProofs

\* stop() begins when the loop has ended; a request that has seen the flag set
\* finds it set, and no close() has raised yet.
FlagHolds ==
    /\ phase \in {"starting", "running"} => stop_pc = "idle" /\ ~raised
    /\ \A r \in Requests : request[r].pc = "assert" => enabled /\ stop_pc = "idle" /\ ~raised

\* Only the line that was read last is being handled.
OneAtATime ==
    /\ current <= asked /\ (reader = "handling" => current \in Requests)
    /\ \A r \in Requests : Active(r) => r = current /\ reader = "handling"

\* The lines in the terminal come after the one being handled and after
\* everything sent, in their order; a quit is the last of them.
LinesWait ==
    /\ \A i \in DOMAIN typed :
          IF typed[i] = 0 THEN quits
          ELSE current < typed[i] /\ typed[i] <= asked /\ SentBelow(typed[i])
    /\ \A i, j \in DOMAIN typed :
          i < j => typed[i] # 0 /\ (typed[j] = 0 \/ typed[i] < typed[j])

ConsoleInv ==
    AppInv /\ TypeOK /\ FlagHolds /\ NeverAsserts /\ OneAtATime /\ LinesWait

-----------------------------------------------------------------------------
\* The invariant holds when the program starts.
LEMMA ConsoleInitInv == Init => ConsoleInv
<1> SUFFICES ASSUME Init PROVE ConsoleInv
  OBVIOUS
<1>1. AppInv
  BY AppInitInv DEF Init
<1>2. TypeOK
  <2>1. 0 \in 0..MaxInputs
    BY InputsAssumption
  <2>2. typed \in Seq(0..MaxInputs)
    BY EmptySeq DEF Init
  <2> QED BY <1>1, <2>1, <2>2 DEF Init, AppInv, TypeOK
<1>3. \A r \in Requests : request[r].pc = "none"
  BY DEF Init, AppInit
<1>4. asked = 0 /\ current = 0 /\ reader = "reading" /\ stop_pc = "idle" /\ raised = FALSE
  BY DEF Init, AppInit, PublisherInit
<1>5. FlagHolds /\ NeverAsserts /\ OneAtATime
  BY <1>3, <1>4 DEF FlagHolds, NeverAsserts, OneAtATime, Active, InLoop, Publishing
<1>6. LinesWait
  <2>1. typed = <<>> /\ DOMAIN typed = {}
    BY DEF Init
  <2> QED BY <2>1 DEF LinesWait
<1> QED BY <1>1, <1>2, <1>5, <1>6 DEF ConsoleInv

\* Facts about the state that the steps below use
LEMMA ConsoleFacts ==
    ASSUME ConsoleInv
    PROVE  /\ AppInv /\ AppTypeOK /\ PublisherInv /\ request \in [Requests -> RequestRecords]
           /\ asked \in Nat /\ MaxInputs \in Nat /\ current \in Nat /\ current <= MaxInputs
           /\ typed \in Seq(0..MaxInputs) /\ asked <= MaxInputs
           /\ enabled \in BOOLEAN /\ socket \in {"none", "unbound", "open", "closed"}
           /\ stop_pc \in {"idle", "close", "clear", "disable", "unwind"} /\ raised \in BOOLEAN
BY InputsAssumption DEF ConsoleInv, AppInv, AppTypeOK, TypeOK

\* A step of the request being handled (handle_user_input, publish)
LEMMA HandleKeeps ==
    ASSUME ConsoleInv, Handle
    PROVE  ConsoleInv' /\ [Outbox!Next]_sent
<1>1. PICK r \in Requests : HandlerStep(r)
  BY DEF Handle
<1>2. PICK q \in RequestRecords : Moves(r, q)
  BY <1>1, ConsoleFacts, HandlerMoves DEF ConsoleInv, AppInv
<1>3. /\ Active(r) /\ r = current /\ reader = "handling"
      /\ \A s \in Requests : Active(s) => s = r
  BY <1>2 DEF Moves, ConsoleInv, OneAtATime
<1>4. AppInv' /\ [Outbox!Next]_sent
  BY <1>2, <1>3, MovesInOrder, ConsoleFacts
<1>5. UNCHANGED conVars /\ UNCHANGED <<asked, enabled, socket, stop_pc, raised>>
  BY <1>2 DEF Handle, Moves
<1>6. TypeOK'
  BY <1>4, <1>5 DEF AppInv, ConsoleInv, TypeOK, conVars
<1>7. /\ request'[r] = q /\ \A s \in Requests : s # r => request'[s] = request[s]
  BY <1>2, ConsoleFacts DEF Moves
<1>8. FlagHolds' /\ NeverAsserts'
  <2>1. request[r].pc = "assert" => socket = "open"
    BY ConsoleFacts DEF ConsoleInv, FlagHolds, PublisherInv
  <2>2. q.pc = "assert" => enabled /\ stop_pc = "idle" /\ ~raised
    BY <1>2 DEF Moves, Handle, ConsoleInv, FlagHolds
  <2>3. q.pc # "asserted"
    BY <1>2, <2>1 DEF Moves
  <2>4. UNCHANGED <<phase, stop_pc, enabled, raised>>
    BY <1>5 DEF conVars
  <2> QED BY <1>7, <2>2, <2>3, <2>4 DEF ConsoleInv, FlagHolds, NeverAsserts
<1>9. OneAtATime'
  BY <1>3, <1>5, <1>7 DEF ConsoleInv, OneAtATime, Active, InLoop, Publishing, conVars
<1>10. LinesWait'
  <2>1. ASSUME NEW i \in DOMAIN typed, typed[i] # 0
        PROVE  \A k \in DOMAIN sent' : sent'[k].id < typed[i]
    <3>1. SentBelow(typed[i]) /\ r < typed[i] /\ typed[i] \in Nat
      BY <1>3, <2>1, ConsoleFacts, ElementOfSeq, LenProperties DEF ConsoleInv, LinesWait
    <3> QED BY <1>2, <3>1, SendsBelow, ConsoleFacts
  <2> QED BY <1>5, <2>1 DEF ConsoleInv, LinesWait, SentBelow, conVars
<1> QED BY <1>4, <1>6, <1>8, <1>9, <1>10 DEF ConsoleInv

\* The user's own steps
LEMMA UserKeeps ==
    ASSUME ConsoleInv, Type \/ TypeQuit
    PROVE  ConsoleInv' /\ [Outbox!Next]_sent
<1>1. CASE Type
  <2>1. PICK text \in Texts :
            /\ Ask(text, "waiting") /\ typed' = Append(typed, asked + 1) /\ ~quits
            /\ UNCHANGED <<pubVars, quits, reader, current, hub, phase>>
    BY <1>1 DEF Type
  <2>2. /\ AppInv' /\ [Outbox!Next]_sent
        /\ asked + 1 \in Requests /\ request'[asked + 1].pc = "waiting"
        /\ \A r \in Requests : r # asked + 1 => request'[r] = request[r]
    BY <2>1, ConsoleFacts, AskKeepsOrder
  <2>3. asked' = asked + 1
    BY <2>1 DEF Ask
  <2>4. TypeOK'
    <3>1. typed' \in Seq(0..MaxInputs)
      BY <2>1, <2>2, ConsoleFacts, AppendProperties DEF Requests
    <3> QED BY <2>1, <2>2, <3>1 DEF AppInv, ConsoleInv, TypeOK
  <2>5. FlagHolds' /\ NeverAsserts'
    BY <2>1, <2>2 DEF ConsoleInv, FlagHolds, NeverAsserts, pubVars
  <2>6. OneAtATime'
    <3>1. \A r \in Requests : Active(r)' => Active(r)
      BY <2>2 DEF Active, InLoop, Publishing
    <3> QED BY <2>1, <2>3, <3>1, ConsoleFacts DEF ConsoleInv, OneAtATime
  <2>7. LinesWait'
    <3>1. /\ DOMAIN typed = 1..Len(typed) /\ Len(typed) \in Nat
          /\ DOMAIN typed' = 1..(Len(typed) + 1)
          /\ \A i \in 1..Len(typed) : typed'[i] = typed[i] /\ typed[i] \in Nat
          /\ typed'[Len(typed) + 1] = asked + 1
      BY <2>1, ConsoleFacts, AppendProperties, ElementOfSeq, LenProperties
    <3>2. \A i \in DOMAIN typed : typed[i] # 0 /\ current < typed[i] /\ typed[i] <= asked
      BY <2>1 DEF ConsoleInv, LinesWait
    <3>3. \A k \in DOMAIN sent' : sent'[k].id < asked + 1
      BY <2>1 DEF ConsoleInv, AppInv, SentBelow, pubVars
    <3>4. ASSUME NEW i \in DOMAIN typed'
          PROVE  /\ typed'[i] # 0 /\ current' < typed'[i] /\ typed'[i] <= asked'
                 /\ \A k \in DOMAIN sent' : sent'[k].id < typed'[i]
      <4>1. CASE i \in DOMAIN typed
        BY <2>1, <2>3, <3>1, <3>2, <4>1, ConsoleFacts
        DEF ConsoleInv, LinesWait, SentBelow, pubVars
      <4>2. CASE i = Len(typed) + 1
        BY <2>1, <2>3, <3>1, <3>3, <4>2, ConsoleFacts DEF ConsoleInv, OneAtATime
      <4> QED BY <3>1, <4>1, <4>2
    <3>5. ASSUME NEW i \in DOMAIN typed', NEW j \in DOMAIN typed', i < j
          PROVE  typed'[i] < typed'[j]
      <4>1. i \in DOMAIN typed
        BY <3>1, <3>5
      <4>2. CASE j \in DOMAIN typed
        BY <3>1, <3>2, <3>5, <4>1, <4>2 DEF ConsoleInv, LinesWait
      <4>3. CASE j = Len(typed) + 1
        BY <3>1, <3>2, <4>1, <4>3, ConsoleFacts
      <4> QED BY <3>1, <4>2, <4>3
    <3> QED BY <3>4, <3>5 DEF LinesWait, SentBelow
  <2> QED BY <2>2, <2>4, <2>5, <2>6, <2>7 DEF ConsoleInv
<1>2. CASE TypeQuit
  <2>1. /\ typed' = Append(typed, 0) /\ ~quits /\ quits' = TRUE
        /\ UNCHANGED <<pubVars, appVars, reader, current, hub, phase>>
    BY <1>2 DEF TypeQuit
  <2>2. UNCHANGED <<enabled, socket, stop_pc, raised, sent, request, asked>>
    BY <2>1 DEF pubVars, appVars
  <2>3. AppInv' /\ [Outbox!Next]_sent
    BY <2>2 DEF ConsoleInv, AppInv, AppTypeOK, PublisherInv, CommandsNamed, SentBelow, Active,
                InLoop, Publishing
  <2>4. TypeOK'
    <3>1. typed' \in Seq(0..MaxInputs)
      BY <2>1, ConsoleFacts, AppendProperties
    <3> QED BY <2>1, <2>3, <3>1 DEF AppInv, ConsoleInv, TypeOK
  <2>5. FlagHolds' /\ NeverAsserts' /\ OneAtATime'
    BY <2>1, <2>2
    DEF ConsoleInv, FlagHolds, NeverAsserts, OneAtATime, Active, InLoop, Publishing
  <2>6. LinesWait'
    <3>1. /\ DOMAIN typed = 1..Len(typed) /\ Len(typed) \in Nat
          /\ DOMAIN typed' = 1..(Len(typed) + 1)
          /\ \A i \in 1..Len(typed) : typed'[i] = typed[i]
          /\ typed'[Len(typed) + 1] = 0
      BY <2>1, ConsoleFacts, AppendProperties, LenProperties
    <3>2. \A i \in DOMAIN typed : typed[i] # 0
      BY <2>1 DEF ConsoleInv, LinesWait
    <3> QED BY <2>1, <2>2, <3>1, <3>2 DEF ConsoleInv, LinesWait, SentBelow
  <2> QED BY <2>3, <2>4, <2>5, <2>6 DEF ConsoleInv
<1> QED BY <1>1, <1>2

\* The next line becomes the request being handled (input_loop).
LEMMA ReadKeeps ==
    ASSUME ConsoleInv, Read
    PROVE  ConsoleInv' /\ [Outbox!Next]_sent
<1> DEFINE n == Head(typed)
<1>1. /\ LoopFree /\ reader = "reading" /\ typed # <<>> /\ typed' = Tail(typed)
      /\ reader' = (IF n = 0 THEN "ended" ELSE "handling") /\ current' = n
      /\ IF n = 0 THEN request' = request ELSE Goto(n, "begin")
      /\ UNCHANGED <<pubVars, asked, quits, hub, phase>>
  BY DEF Read, AwaitsRequest
<1>2. UNCHANGED <<enabled, socket, stop_pc, raised, sent>>
  BY <1>1 DEF pubVars
<1>3. /\ DOMAIN typed = 1..Len(typed) /\ Len(typed) \in Nat /\ Len(typed) > 0
      /\ n = typed[1] /\ n \in 0..MaxInputs
      /\ typed' \in Seq(0..MaxInputs) /\ DOMAIN typed' = 1..(Len(typed) - 1)
      /\ \A i \in DOMAIN typed' : i + 1 \in DOMAIN typed /\ typed'[i] = typed[i + 1]
  BY <1>1, ConsoleFacts, HeadTailProperties, LenProperties, EmptySeq
<1> HIDE DEF n
<1>4. n # 0 => n \in Requests /\ n <= asked /\ SentBelow(n)
  BY <1>3, ConsoleFacts DEF ConsoleInv, LinesWait, Requests
<1>5. /\ request' \in [Requests -> RequestRecords]
      /\ \A r \in Requests : r # n => request'[r] = request[r]
      /\ n # 0 => request'[n].pc = "begin"
  <2>1. CASE n = 0
    BY <1>1, <1>4, <2>1, ConsoleFacts
  <2>2. CASE n # 0
    <3>1. [request[n] EXCEPT !.pc = "begin"] \in RequestRecords
      BY <1>4, <2>2, ConsoleFacts DEF RequestRecords, Places
    <3>2. request' = [request EXCEPT ![n] = [request[n] EXCEPT !.pc = "begin"]]
      BY <1>1, <2>2 DEF Goto
    <3> QED BY <1>4, <2>2, <3>1, <3>2, ConsoleFacts DEF RequestRecords
  <2> QED BY <2>1, <2>2
<1>6. \A r \in Requests : ~Active(r)
  BY <1>1 DEF ConsoleInv, OneAtATime
<1>7. \A r \in Requests : Active(r)' => r = n /\ n # 0 /\ request'[r].pc = "begin"
  <2>1. \A r \in Requests : r # 0
    BY ConsoleFacts DEF Requests
  <2> QED BY <1>4, <1>5, <1>6, <2>1 DEF Active, InLoop, Publishing
<1>8. AppInv' /\ [Outbox!Next]_sent
  <2>1. AppTypeOK' /\ PublisherInv' /\ SentBelow(asked + 1)'
    BY <1>1, <1>2, <1>5 DEF ConsoleInv, AppInv, AppTypeOK, PublisherInv, SentBelow
  <2>2. CommandsNamed'
    BY <1>7 DEF CommandsNamed, Active, Publishing
  <2>3. \A r \in Requests : Active(r)' => SentBelow(r)' /\ r <= asked'
    BY <1>1, <1>2, <1>4, <1>7 DEF SentBelow
  <2> QED BY <1>2, <2>1, <2>2, <2>3 DEF AppInv
<1>9. TypeOK'
  BY <1>1, <1>3, <1>8 DEF AppInv, ConsoleInv, TypeOK
<1>10. FlagHolds' /\ NeverAsserts'
  BY <1>1, <1>2, <1>4, <1>5 DEF ConsoleInv, FlagHolds, NeverAsserts
<1>11. OneAtATime'
  BY <1>1, <1>3, <1>4, <1>7, ConsoleFacts DEF OneAtATime
<1>12. LinesWait'
  <2>1. ASSUME NEW i \in DOMAIN typed'
        PROVE  IF typed'[i] = 0 THEN quits'
               ELSE current' < typed'[i] /\ typed'[i] <= asked' /\ SentBelow(typed[i])'
    <3>1. /\ i + 1 \in DOMAIN typed /\ 1 < i + 1 /\ 1 \in DOMAIN typed
          /\ typed'[i] = typed[i + 1]
      BY <1>3
    <3>2. n # 0 /\ (typed[i + 1] = 0 \/ n < typed[i + 1])
      BY <1>3, <3>1 DEF ConsoleInv, LinesWait
    <3>3. IF typed[i + 1] = 0 THEN quits
          ELSE typed[i + 1] <= asked /\ SentBelow(typed[i + 1])
      BY <3>1 DEF ConsoleInv, LinesWait
    <3> QED BY <1>1, <1>2, <3>1, <3>2, <3>3 DEF SentBelow
  <2>2. ASSUME NEW i \in DOMAIN typed', NEW j \in DOMAIN typed', i < j
        PROVE  typed'[i] # 0 /\ (typed'[j] = 0 \/ typed'[i] < typed'[j])
    <3>1. /\ i + 1 \in DOMAIN typed /\ j + 1 \in DOMAIN typed /\ i + 1 < j + 1
          /\ typed'[i] = typed[i + 1] /\ typed'[j] = typed[j + 1]
      BY <1>3, <2>2
    <3> QED BY <3>1 DEF ConsoleInv, LinesWait
  <2> QED BY <2>1, <2>2 DEF LinesWait
<1> QED BY <1>8, <1>9, <1>10, <1>11, <1>12 DEF ConsoleInv

\* Steps that send nothing, start no coroutine, and leave the terminal alone:
\* what they must keep is what each of them could disturb.
LEMMA QuietKeeps ==
    ASSUME ConsoleInv, AppInv', [Outbox!Next]_sent, FlagHolds', NeverAsserts',
           UNCHANGED <<typed, quits, current, asked, sent>>, hub' \in {"running", "failed"},
           phase' \in {"starting", "running", "stopping", "joining", "exited"},
           reader' \in {"reading", "handling", "ended"},
           reader' = "handling" => reader = "handling",
           \A r \in Requests : Active(r)' => Active(r) /\ reader' = "handling"
    PROVE  ConsoleInv' /\ [Outbox!Next]_sent
<1>1. TypeOK'
  BY DEF ConsoleInv, AppInv, TypeOK
<1>2. OneAtATime' /\ LinesWait'
  BY DEF ConsoleInv, OneAtATime, LinesWait, SentBelow
<1> QED BY <1>1, <1>2 DEF ConsoleInv

\* A step that leaves the requests and the publisher alone
LEMMA IdleKeeps ==
    ASSUME ConsoleInv, UNCHANGED <<pubVars, appVars, typed, quits, reader, current>>,
           hub' \in {"running", "failed"},
           phase' \in {"starting", "running", "stopping", "joining", "exited"},
           phase' \in {"starting", "running"} => phase \in {"starting", "running"}
    PROVE  ConsoleInv' /\ [Outbox!Next]_sent
<1>1. UNCHANGED <<enabled, socket, stop_pc, raised, sent, request, asked>>
  BY DEF pubVars, appVars
<1>2. \A r \in Requests : (Active(r)' <=> Active(r)) /\ (Publishing(r)' <=> Publishing(r))
  BY <1>1 DEF Active, InLoop, Publishing
<1>3. AppInv' /\ [Outbox!Next]_sent
  BY <1>1, <1>2 DEF ConsoleInv, AppInv, AppTypeOK, PublisherInv, CommandsNamed, SentBelow
<1>4. FlagHolds' /\ NeverAsserts'
  BY <1>1 DEF ConsoleInv, FlagHolds, NeverAsserts
<1> QED BY <1>1, <1>2, <1>3, <1>4, QuietKeeps DEF ConsoleInv, OneAtATime, TypeOK

\* The rest of run(): launch, the end of a request, the end of the loop
LEMMA RunKeeps ==
    ASSUME ConsoleInv, Launch \/ RequestDone \/ Wind \/ Stop
    PROVE  ConsoleInv' /\ [Outbox!Next]_sent
<1>0. \A r \in Requests : (Active(r) => r = current /\ reader = "handling") /\ r # 0
  BY ConsoleFacts DEF ConsoleInv, OneAtATime, Requests
<1>1. CASE Launch
  <2>1. PICK outcome \in StartOutcomes :
            /\ Start(outcome) /\ phase = "starting" /\ phase' \in {"running", "exited"}
            /\ UNCHANGED <<appVars, typed, quits, reader, current, hub>>
    BY <1>1, ConsoleAssumption DEF Launch
  <2>2. /\ PublisherInv' /\ enabled' \in BOOLEAN
        /\ socket' \in {"none", "unbound", "open", "closed"}
        /\ stop_pc' \in {"idle", "close", "clear", "disable", "unwind"}
        /\ raised' \in BOOLEAN /\ sent' = sent
    BY <2>1, ConsoleFacts, PublisherSteps, PublisherTypes
  <2>3. request' = request /\ asked' = asked
    BY <2>1 DEF appVars
  <2>4. \A r \in Requests : (Active(r)' <=> Active(r)) /\ (Publishing(r)' <=> Publishing(r))
    BY <2>3 DEF Active, InLoop, Publishing
  <2>5. AppInv' /\ [Outbox!Next]_sent
    BY <2>2, <2>3, <2>4, ConsoleFacts, OthersKeepOrder
  <2>6. FlagHolds' /\ NeverAsserts'
    BY <2>1, <2>3 DEF Start, ConsoleInv, FlagHolds, NeverAsserts
  <2> QED BY <1>0, <2>1, <2>2, <2>3, <2>4, <2>5, <2>6, QuietKeeps DEF ConsoleInv, TypeOK
<1>2. CASE RequestDone
  <2>1. /\ LoopFree /\ reader = "handling" /\ request[current].pc \in Finished
        /\ reader' = (IF request[current].pc = "done" THEN "reading" ELSE "ended")
        /\ request' = [request EXCEPT ![current].told = TRUE]
        /\ UNCHANGED <<pubVars, asked, typed, quits, current, hub, phase>>
    BY <1>2 DEF RequestDone
  <2>2. UNCHANGED <<enabled, socket, stop_pc, raised, sent>>
    BY <2>1 DEF pubVars
  <2>3. /\ request' \in [Requests -> RequestRecords]
        /\ \A r \in Requests : request'[r].pc = request[r].pc /\ request'[r].kind = request[r].kind
    <3>1. current \in Requests /\ request[current] \in RequestRecords
      BY <2>1, ConsoleFacts DEF ConsoleInv, OneAtATime
    <3>2. /\ [request[current] EXCEPT !.told = TRUE] \in RequestRecords
          /\ [request[current] EXCEPT !.told = TRUE].pc = request[current].pc
          /\ [request[current] EXCEPT !.told = TRUE].kind = request[current].kind
      BY <3>1 DEF RequestRecords
    <3>3. request' = [request EXCEPT ![current] = [request[current] EXCEPT !.told = TRUE]]
      BY <2>1
    <3> QED BY <3>1, <3>2, <3>3, ConsoleFacts
  <2>4. \A r \in Requests : (Active(r)' <=> Active(r)) /\ (Publishing(r)' <=> Publishing(r))
    BY <2>3 DEF Active, InLoop, Publishing
  <2>5. \A r \in Requests : ~Active(r)
    BY <1>0, <2>1 DEF Active, InLoop, Publishing, Finished
  <2>6. AppInv' /\ [Outbox!Next]_sent
    <3>1. PublisherInv'
      BY <2>2, ConsoleFacts DEF PublisherInv
    <3> QED BY <2>1, <2>2, <2>3, <2>4, <3>1, ConsoleFacts, OthersKeepOrder
  <2>7. FlagHolds' /\ NeverAsserts'
    BY <2>1, <2>2, <2>3 DEF ConsoleInv, FlagHolds, NeverAsserts
  <2> QED BY <2>1, <2>2, <2>4, <2>5, <2>6, <2>7, QuietKeeps DEF ConsoleInv, TypeOK
<1>3. CASE Wind
  <2>1. /\ LoopFree /\ EndRequests("cancelled") /\ StopBegin /\ phase' = "stopping"
        /\ reader' = (IF reader = "handling" THEN "ended" ELSE reader)
        /\ UNCHANGED <<asked, typed, quits, current, hub>>
    BY <1>3 DEF Wind
  <2>2. /\ PublisherInv' /\ enabled' \in BOOLEAN
        /\ socket' \in {"none", "unbound", "open", "closed"}
        /\ stop_pc' \in {"idle", "close", "clear", "disable", "unwind"}
        /\ raised' \in BOOLEAN /\ sent' = sent
    BY <2>1, ConsoleFacts, PublisherSteps, PublisherTypes
  <2>3. /\ request' \in [Requests -> RequestRecords]
        /\ \A r \in Requests : ~Active(r)'
        /\ \A r \in Requests : request'[r].pc \in Finished => request'[r] = request[r]
    BY <2>1, ConsoleFacts, LoopEnds DEF Lost
  <2>4. AppInv' /\ [Outbox!Next]_sent
    BY <2>1, <2>2, <2>3, ConsoleFacts, OthersKeepOrder DEF Active
  <2>5. FlagHolds' /\ NeverAsserts'
    BY <2>1, <2>3
    DEF ConsoleInv, FlagHolds, NeverAsserts, Finished, Active, Publishing
  <2> QED BY <2>1, <2>2, <2>3, <2>4, <2>5, QuietKeeps DEF ConsoleInv, TypeOK
<1>4. CASE Stop
  <2>1. phase = "stopping" /\ StopStep /\ UNCHANGED <<appVars, conVars>>
    BY <1>4 DEF Stop
  <2>2. /\ PublisherInv' /\ enabled' \in BOOLEAN
        /\ socket' \in {"none", "unbound", "open", "closed"}
        /\ stop_pc' \in {"idle", "close", "clear", "disable", "unwind"}
        /\ raised' \in BOOLEAN /\ sent' = sent
    BY <2>1, ConsoleFacts, PublisherSteps, PublisherTypes
  <2>3. request' = request /\ asked' = asked
    BY <2>1 DEF appVars
  <2>4. \A r \in Requests : (Active(r)' <=> Active(r)) /\ (Publishing(r)' <=> Publishing(r))
    BY <2>3 DEF Active, InLoop, Publishing
  <2>5. AppInv' /\ [Outbox!Next]_sent
    BY <2>2, <2>3, <2>4, ConsoleFacts, OthersKeepOrder
  <2>6. FlagHolds' /\ NeverAsserts'
    <3>1. \A r \in Requests : request[r].pc # "assert"
      BY <2>1 DEF StopStep, StopClose, StopClear, StopDisable, ConsoleInv, FlagHolds
    <3> QED BY <2>1, <2>3, <3>1 DEF ConsoleInv, FlagHolds, NeverAsserts, conVars
  <2> QED BY <1>0, <2>1, <2>2, <2>3, <2>4, <2>5, <2>6, QuietKeeps DEF ConsoleInv, TypeOK, conVars
<1> QED BY <1>1, <1>2, <1>3, <1>4

\* Every step keeps the invariant, and is a step of the ordered outbox or sends
\* nothing.
LEMMA ConsoleStep ==
    ASSUME ConsoleInv, [Next]_vars
    PROVE  ConsoleInv' /\ [Outbox!Next]_sent
<1>1. CASE HubFails
  BY <1>1, IdleKeeps DEF HubFails, ConsoleInv, TypeOK
<1>2. CASE Stopped \/ Exit
  BY <1>2, IdleKeeps DEF Stopped, Exit, ConsoleInv, TypeOK
<1>3. CASE Terminated \/ UNCHANGED vars
  BY <1>3, IdleKeeps DEF Terminated, vars, conVars, ConsoleInv, TypeOK
<1> QED BY <1>1, <1>2, <1>3, HandleKeeps, UserKeeps, ReadKeeps, RunKeeps DEF Next, LoopStep

\* The invariant holds in every reachable state.
LEMMA ConsoleInvariance == Spec => []ConsoleInv
BY ConsoleInitInv, ConsoleStep, PTL DEF Spec

-----------------------------------------------------------------------------
\* Every variable of the console front end, of the coroutines and of the
\* publisher keeps its type (LanguageApp.run, handle_user_input, publish, stop).
THEOREM ConsoleTypeCorrect == Spec => []TypeOK
BY ConsoleInvariance, PTL DEF ConsoleInv

\* In the console publish() never finds its socket gone, whatever ends the
\* program and at whichever line (LanguageApp.run's finally, publish's assert).
THEOREM ConsoleNeverAsserts == Spec => []NeverAsserts
BY ConsoleInvariance, PTL DEF ConsoleInv

\* The console implements the ordered outbox: at most one instruction for each
\* line, in the order of the lines, for any number of lines typed ahead.
THEOREM ConsoleImplementsOutbox == Spec => ImplementsOutbox
<1>1. Init => Outbox!Init
  BY DEF Init, AppInit, PublisherInit, Outbox!Init
<1>2. ConsoleInv /\ [Next]_vars => [Outbox!Next]_sent
  BY ConsoleStep
<1> QED BY <1>1, <1>2, ConsoleInvariance, PTL DEF Spec, ImplementsOutbox, Outbox!Spec

-----------------------------------------------------------------------------
(* The lines: what becomes of them.                                        *)

\* While the program runs no line is lost: it waits in the terminal, or is the
\* one being handled, or is over (input_loop; the desktop ignores some).
NoLineLost ==
    phase \in {"starting", "running"} =>
        \A r \in Requests : r <= asked =>
            \/ \E i \in DOMAIN typed : typed[i] = r
            \/ r = current /\ reader = "handling" /\ Active(r)
            \/ request[r].pc \in Finished

\* A line in the terminal is a request that waits, and the other way round;
\* the input loop awaits a request that is going on, or is over.
LinesInv ==
    /\ \A r \in Requests : r > asked => request[r].pc = "none"
    /\ \A i \in DOMAIN typed :
          typed[i] # 0 => typed[i] \in Requests /\ request[typed[i]].pc = "waiting"
    /\ \A r \in Requests : request[r].pc = "waiting" => \E i \in DOMAIN typed : typed[i] = r
    /\ phase \in {"starting", "running"} =>
          \A r \in Requests : r <= asked =>
              request[r].pc = "waiting" \/ Active(r) \/ request[r].pc \in Finished

\* Before the first line nothing waits.
LEMMA LinesInit == Init => LinesInv
<1> SUFFICES ASSUME Init PROVE LinesInv
  OBVIOUS
<1>1. asked = 0 /\ DOMAIN typed = {} /\ \A r \in Requests : request[r].pc = "none" /\ ~(r <= 0)
  BY DEF Init, AppInit, Requests
<1> QED BY <1>1 DEF LinesInv

\* A step that only moves requests on keeps the lines.
LEMMA LinesKept ==
    ASSUME ConsoleInv, LinesInv, UNCHANGED <<typed, asked>>,
           phase' \in {"starting", "running"} => phase \in {"starting", "running"},
           \A r \in Requests :
              \/ request'[r].pc = request[r].pc
              \/ /\ Active(r)
                 /\ request'[r].pc # "waiting" /\ request'[r].pc # "none"
                 /\ phase' \in {"starting", "running"} => Active(r)' \/ request'[r].pc \in Finished
    PROVE  LinesInv'
<1>1. \A r \in Requests : r > asked => request'[r].pc = "none"
  BY DEF LinesInv, Active, InLoop, Publishing
<1>2. \A i \in DOMAIN typed :
          typed[i] # 0 => typed[i] \in Requests /\ request'[typed[i]].pc = "waiting"
  BY DEF LinesInv, Active, InLoop, Publishing
<1>3. \A r \in Requests : request'[r].pc = "waiting" => \E i \in DOMAIN typed : typed[i] = r
  BY DEF LinesInv
<1>4. ASSUME phase' \in {"starting", "running"}, NEW r \in Requests, r <= asked
      PROVE  request'[r].pc = "waiting" \/ Active(r)' \/ request'[r].pc \in Finished
  BY <1>4 DEF LinesInv, Active, InLoop, Publishing
<1> QED BY <1>1, <1>2, <1>3, <1>4 DEF LinesInv

\* A line the user types waits behind the others.
LEMMA TypeKeepsLines ==
    ASSUME ConsoleInv, LinesInv, Type \/ TypeQuit
    PROVE  LinesInv'
<1>1. CASE TypeQuit
  <2>1. typed' = Append(typed, 0) /\ UNCHANGED <<request, asked, phase>>
    BY <1>1 DEF TypeQuit, appVars
  <2>2. /\ \A i \in DOMAIN typed' : typed'[i] = 0 \/ (i \in DOMAIN typed /\ typed'[i] = typed[i])
        /\ \A i \in DOMAIN typed : i \in DOMAIN typed' /\ typed'[i] = typed[i]
    BY <2>1, ConsoleFacts, AppendProperties
  <2> QED BY <2>1, <2>2 DEF LinesInv, Active, InLoop, Publishing
<1>2. CASE Type
  <2>1. PICK text \in Texts : Ask(text, "waiting")
    BY <1>2 DEF Type
  <2>2. PICK n \in Requests :
           /\ n = asked + 1 /\ request'[n].pc = "waiting"
           /\ \A r \in Requests : r # n => request'[r] = request[r]
    BY <1>2, <2>1, ConsoleFacts, AskKeepsOrder DEF Type
  <2>3. asked' = n /\ typed' = Append(typed, n) /\ phase' = phase
    BY <1>2, <2>1, <2>2 DEF Type, Ask
  <2>4. n \in Nat /\ n > asked /\ n \in 0..MaxInputs /\ \A r \in Requests : r \in Nat
    BY <2>2, ConsoleFacts DEF Requests
  <2>5. request[n].pc = "none"
    BY <2>4 DEF LinesInv
  <2>6. /\ \A i \in DOMAIN typed' : typed'[i] = n \/ (i \in DOMAIN typed /\ typed'[i] = typed[i])
        /\ \A i \in DOMAIN typed : i \in DOMAIN typed' /\ typed'[i] = typed[i]
        /\ Len(typed) + 1 \in DOMAIN typed' /\ typed'[Len(typed) + 1] = n
    BY <2>3, <2>4, ConsoleFacts, AppendProperties, LenProperties
  <2>7. \A r \in Requests : r > n => request'[r].pc = "none"
    <3> SUFFICES ASSUME NEW r \in Requests, r > n PROVE request'[r].pc = "none"
      OBVIOUS
    <3>1. r > asked /\ r # n
      BY <2>4, ConsoleFacts
    <3>2. request'[r] = request[r]
      BY <2>2, <3>1
    <3> QED BY <3>1, <3>2 DEF LinesInv
  <2>8. \A i \in DOMAIN typed' :
            typed'[i] # 0 => typed'[i] \in Requests /\ request'[typed'[i]].pc = "waiting"
    <3> SUFFICES ASSUME NEW i \in DOMAIN typed', typed'[i] # 0, typed'[i] # n
                 PROVE  typed'[i] \in Requests /\ request'[typed'[i]].pc = "waiting"
      BY <2>2
    <3>1. i \in DOMAIN typed /\ typed'[i] = typed[i]
      BY <2>6
    <3>2. typed[i] \in Requests /\ request[typed[i]].pc = "waiting"
      BY <3>1 DEF LinesInv
    <3>3. request'[typed[i]] = request[typed[i]]
      BY <2>2, <3>1, <3>2
    <3> QED BY <3>1, <3>2, <3>3
  <2>9. \A r \in Requests : request'[r].pc = "waiting" => \E i \in DOMAIN typed' : typed'[i] = r
    BY <2>2, <2>6 DEF LinesInv
  <2>10. ASSUME phase \in {"starting", "running"}, NEW r \in Requests, r <= n
        PROVE  request'[r].pc = "waiting" \/ Active(r)' \/ request'[r].pc \in Finished
    <3>1. CASE r = n
      BY <2>2, <3>1
    <3>2. CASE r # n
      <4>1. r \in Nat /\ r <= asked
        BY <2>2, <2>10, <2>4, <3>2, ConsoleFacts
      <4>2. request'[r] = request[r]
        BY <2>2, <3>2
      <4> QED BY <2>10, <4>1, <4>2 DEF LinesInv, Active, InLoop, Publishing
    <3> QED BY <3>1, <3>2
  <2> QED BY <2>3, <2>7, <2>8, <2>9, <2>10 DEF LinesInv
<1> QED BY <1>1, <1>2

\* The line that is read leaves the terminal and is handled.
LEMMA ReadKeepsLines ==
    ASSUME ConsoleInv, LinesInv, Read
    PROVE  LinesInv'
<1>1. PICK n \in 0..MaxInputs :
         /\ n = Head(typed) /\ typed # <<>> /\ typed' = Tail(typed)
         /\ IF n = 0 THEN request' = request ELSE Goto(n, "begin")
         /\ UNCHANGED <<asked, phase>>
  BY ConsoleFacts, HeadTailProperties DEF Read
<1>2. /\ Len(typed) \in Nat \ {0} /\ typed[1] = n /\ 1 \in DOMAIN typed
      /\ DOMAIN typed = 1..Len(typed) /\ DOMAIN typed' = 1..(Len(typed) - 1)
      /\ \A i \in 1..(Len(typed) - 1) : typed'[i] = typed[i + 1]
  BY <1>1, ConsoleFacts, HeadTailProperties, LenProperties, EmptySeq
<1>3. \A i \in DOMAIN typed' : i + 1 \in DOMAIN typed /\ typed'[i] = typed[i + 1] /\ 1 < i + 1
  BY <1>2
<1>4. \A i \in DOMAIN typed : i = 1 \/ (i - 1 \in DOMAIN typed' /\ typed'[i - 1] = typed[i])
  BY <1>2
<1>5. \A i \in DOMAIN typed' : n # 0 /\ typed'[i] # n
  <2> SUFFICES ASSUME NEW i \in DOMAIN typed' PROVE n # 0 /\ typed'[i] # n
    OBVIOUS
  <2>1. typed[1] # 0 /\ (typed[i + 1] = 0 \/ typed[1] < typed[i + 1])
    BY <1>2, <1>3 DEF ConsoleInv, LinesWait
  <2>2. typed[1] \in Nat /\ typed[i + 1] \in Nat
    BY <1>2, <1>3, ConsoleFacts, ElementOfSeq
  <2> QED BY <1>2, <1>3, <2>1, <2>2
<1>6. CASE n = 0
  <2>1. DOMAIN typed' = {}
    BY <1>5, <1>6
  <2>2. request' = request /\ \A i \in DOMAIN typed : typed[i] = 0
    BY <1>1, <1>2, <1>4, <1>6, <2>1
  <2>3. \A r \in Requests : r # 0
    BY DEF Requests
  <2>4. \A r \in Requests : request[r].pc # "waiting"
    BY <2>2, <2>3 DEF LinesInv
  <2> QED BY <1>1, <2>1, <2>2, <2>4 DEF LinesInv, Active, InLoop, Publishing
<1>7. CASE n # 0
  <2>1. n \in Requests /\ request[n].pc = "waiting" /\ ~(n > asked)
    BY <1>2, <1>7 DEF LinesInv
  <2>2. request'[n].pc = "begin" /\ \A r \in Requests : r # n => request'[r] = request[r]
    BY <1>1, <1>7, <2>1, ConsoleFacts DEF Goto, RequestRecords
  <2>3. \A i \in DOMAIN typed' :
            typed'[i] # 0 => typed'[i] \in Requests /\ request'[typed'[i]].pc = "waiting"
    BY <1>3, <1>5, <2>2 DEF LinesInv
  <2>4. \A r \in Requests : request'[r].pc = "waiting" => \E i \in DOMAIN typed' : typed'[i] = r
    <3> SUFFICES ASSUME NEW r \in Requests, request'[r].pc = "waiting"
                 PROVE  \E i \in DOMAIN typed' : typed'[i] = r
      OBVIOUS
    <3>1. r # n /\ request[r].pc = "waiting"
      BY <2>2
    <3>2. PICK i \in DOMAIN typed : typed[i] = r
      BY <3>1 DEF LinesInv
    <3>3. i # 1
      BY <1>2, <3>1, <3>2
    <3> QED BY <1>4, <3>2, <3>3
  <2>5. \A r \in Requests : r > asked => request'[r].pc = "none"
    <3> SUFFICES ASSUME NEW r \in Requests, r > asked PROVE request'[r].pc = "none"
      OBVIOUS
    <3>1. r # n
      BY <2>1
    <3> QED BY <2>2, <3>1 DEF LinesInv
  <2>6. ASSUME phase \in {"starting", "running"}, NEW r \in Requests, r <= asked
        PROVE  request'[r].pc = "waiting" \/ Active(r)' \/ request'[r].pc \in Finished
    BY <2>2, <2>6 DEF LinesInv, Active, InLoop, Publishing
  <2> QED BY <1>1, <2>3, <2>4, <2>5, <2>6 DEF LinesInv
<1> QED BY <1>6, <1>7

\* Every step keeps the lines.
LEMMA LinesStep == ConsoleInv /\ LinesInv /\ [Next]_vars => LinesInv'
<1> SUFFICES ASSUME ConsoleInv, LinesInv, [Next]_vars PROVE LinesInv'
  OBVIOUS
<1>1. CASE Handle
  <2>1. PICK r \in Requests : HandlerStep(r)
    BY <1>1 DEF Handle
  <2>2. PICK q \in RequestRecords : Moves(r, q)
    BY <2>1, ConsoleFacts, HandlerMoves DEF AppInv
  <2>3. /\ request'[r] = q /\ \A s \in Requests : s # r => request'[s] = request[s]
        /\ UNCHANGED <<typed, asked, phase>>
    BY <1>1, <2>2, ConsoleFacts DEF Handle, Moves, conVars
  <2>4. /\ Active(r) /\ request'[r].pc # "waiting" /\ request'[r].pc # "none"
        /\ Active(r)' \/ request'[r].pc \in Finished
    BY <2>2, <2>3 DEF Moves, Active, InLoop, Publishing, Finished
  <2> QED BY <2>3, <2>4, LinesKept
<1>2. CASE RequestDone
  <2>1. request' = [request EXCEPT ![current].told = TRUE] /\ UNCHANGED <<typed, asked, phase>>
    BY <1>2 DEF RequestDone
  <2>2. \A r \in Requests : request'[r].pc = request[r].pc
    BY <2>1, ConsoleFacts DEF RequestRecords
  <2> QED BY <2>1, <2>2, LinesKept
<1>3. CASE Wind
  <2>1. EndRequests("cancelled") /\ phase' = "stopping" /\ UNCHANGED <<typed, asked>>
    BY <1>3 DEF Wind
  <2>2. \A r \in Requests : IF InLoop(r) THEN request'[r].pc = "cancelled"
                            ELSE request'[r] = request[r]
    BY <2>1, ConsoleFacts DEF EndRequests, RequestRecords
  <2> QED BY <2>1, <2>2, LinesKept DEF Active
<1>4. CASE Launch \/ Stop \/ Stopped \/ Exit \/ HubFails \/ Terminated \/ UNCHANGED vars
  <2>1. /\ UNCHANGED <<request, typed, asked>>
        /\ phase' \in {"starting", "running"} => phase \in {"starting", "running"}
    BY <1>4 DEF Launch, Stop, Stopped, Exit, HubFails, Terminated, appVars, conVars, vars
  <2> QED BY <2>1, LinesKept
<1> QED BY <1>1, <1>2, <1>3, <1>4, TypeKeepsLines, ReadKeepsLines DEF Next, LoopStep

\* Every line that was typed is still to be read, is being handled, or is over,
\* as long as the program runs (LanguageApp.run, input_loop, on_input).
THEOREM LinesAreNotLost == Spec => []NoLineLost
<1>1. ConsoleInv /\ LinesInv => NoLineLost
  BY DEF ConsoleInv, OneAtATime, LinesInv, NoLineLost
<1> QED BY <1>1, LinesInit, LinesStep, ConsoleInvariance, PTL DEF Spec

\* Whatever is typed ahead, the words of a line decide what is sent for it.
LEMMA ConsoleKeepsWords ==
    ASSUME ConsoleInv, LinesInv, WordsInv, [Next]_vars
    PROVE  WordsInv'
<1>1. CASE Handle
  BY <1>1, HandlerKeepsWords, ConsoleFacts DEF Handle
<1>2. CASE Type
  <2>1. PICK text \in Texts : Ask(text, "waiting") /\ UNCHANGED pubVars
    BY <1>2 DEF Type
  <2>2. asked + 1 \in Requests /\ asked + 1 > asked
    BY <2>1, ConsoleFacts DEF Ask, Requests
  <2> QED BY <2>1, <2>2, AskKeepsWords, ConsoleFacts DEF LinesInv
<1>3. CASE Read
  <2>1. sent' = sent /\ (request' = request \/ (Goto(Head(typed), "begin") /\ Head(typed) # 0))
        /\ typed # <<>>
    BY <1>3 DEF Read, pubVars
  <2>2. CASE request' = request
    BY <2>1, <2>2, WordsKept
  <2>3. CASE Goto(Head(typed), "begin") /\ Head(typed) # 0
    <3>1. typed[1] = Head(typed) /\ 1 \in DOMAIN typed
      BY <2>1, ConsoleFacts, HeadTailProperties, LenProperties, EmptySeq
    <3>2. Head(typed) \in Requests /\ request[Head(typed)].pc = "waiting"
      BY <2>3, <3>1 DEF LinesInv
    <3>3. \A r \in Requests :
              \/ request'[r] = request[r]
              \/ /\ r = Head(typed) /\ request'[r].pc = "begin"
                 /\ request'[r].kind = request[r].kind
      BY <2>3, <3>2, ConsoleFacts DEF Goto, RequestRecords
    <3> QED BY <2>1, <3>2, <3>3, WordsKept DEF Publishing, Finished
  <2> QED BY <2>1, <2>2, <2>3
<1>4. CASE RequestDone
  <2>1. request' = [request EXCEPT ![current].told = TRUE] /\ UNCHANGED pubVars
    BY <1>4 DEF RequestDone
  <2>2. \A r \in Requests : /\ request'[r].pc = request[r].pc /\ request'[r].kind = request[r].kind
                            /\ request'[r].text = request[r].text
    BY <2>1, ConsoleFacts DEF RequestRecords
  <2> QED BY <2>1, <2>2, WordsKept DEF pubVars
<1>5. CASE Wind
  BY <1>5, EndKeepsWords, ConsoleFacts DEF Wind, StopBegin, Lost
<1>6. CASE TypeQuit \/ Launch \/ Stop \/ Stopped \/ Exit \/ HubFails \/ Terminated \/ UNCHANGED vars
  <2>1. request' = request /\ sent' = sent
    BY <1>6 DEF TypeQuit, Launch, Stop, Stopped, Exit, HubFails, Terminated, Start, StopStep,
                StopClose, StopClear, StopDisable, appVars, pubVars, vars
  <2> QED BY <2>1, WordsKept
<1> QED BY <1>1, <1>2, <1>3, <1>4, <1>5, <1>6 DEF Next, LoopStep

\* The console sends for a line what its words ask for; a stop line never waits
\* for an LLM of its own (input_loop to publish).
THEOREM ConsoleSendsAsMeant == Spec => [](SentAsMeant /\ StopsFirst)
<1>1. Init => LinesInv /\ WordsInv
  BY LinesInit, WordsInit DEF Init
<1>2. ConsoleInv /\ LinesInv /\ WordsInv /\ [Next]_vars => LinesInv' /\ WordsInv'
  BY LinesStep, ConsoleKeepsWords
<1> QED BY <1>1, <1>2, WordsDecideSending, ConsoleInvariance, PTL DEF Spec
=============================================================================
