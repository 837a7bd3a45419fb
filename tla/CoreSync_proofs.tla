--------------------------- MODULE CoreSync_proofs ---------------------------
(***************************************************************************)
(* Proofs about CoreSync, for any number of devices and contents, every    *)
(* capacity of the queues and every number of changes.                     *)
(***************************************************************************)
EXTENDS CoreSync, TLAPS

-----------------------------------------------------------------------------
(* Queues.                                                                 *)

LEMMA TailFacts ==
    ASSUME NEW S, NEW s \in Seq(S), s # <<>>
    PROVE  /\ Head(s) = s[1] /\ 1 \in DOMAIN s /\ Head(s) \in S
           /\ Tail(s) \in Seq(S) /\ Len(Tail(s)) = Len(s) - 1
           /\ \A i \in DOMAIN Tail(s) : i + 1 \in DOMAIN s /\ Tail(s)[i] = s[i + 1]
           /\ IF Tail(s) = <<>> THEN s[Len(s)] = Head(s)
                                ELSE Tail(s)[Len(Tail(s))] = s[Len(s)]
  <1>1. Len(s) \in Nat /\ Len(s) > 0 /\ DOMAIN s = 1 .. Len(s)
    OBVIOUS
  <1>2. /\ Head(s) = s[1] /\ 1 \in DOMAIN s /\ Head(s) \in S
        /\ Tail(s) \in Seq(S) /\ Len(Tail(s)) = Len(s) - 1
    BY <1>1
  <1>3. \A i \in DOMAIN Tail(s) : i + 1 \in DOMAIN s /\ Tail(s)[i] = s[i + 1]
    BY <1>1, <1>2
  <1>4. CASE Tail(s) = <<>>
    <2>1. Len(s) = 1
      BY <1>1, <1>2, <1>4
    <2> QED
      BY <1>2, <1>3, <1>4, <2>1
  <1>5. CASE Tail(s) # <<>>
    <2>1. Len(Tail(s)) \in DOMAIN Tail(s)
      BY <1>2, <1>5
    <2>2. Tail(s)[Len(Tail(s))] = s[Len(s)]
      BY <1>1, <1>2, <1>3, <2>1
    <2> QED
      BY <1>2, <1>3, <1>5, <2>2
  <1> QED
    BY <1>4, <1>5

LEMMA AppendFacts ==
    ASSUME NEW S, NEW s \in Seq(S), NEW e \in S
    PROVE  /\ Append(s, e) \in Seq(S) /\ Append(s, e) # <<>>
           /\ Len(Append(s, e)) = Len(s) + 1
           /\ Append(s, e)[Len(Append(s, e))] = e
           /\ \A i \in DOMAIN Append(s, e) :
                 Append(s, e)[i] = e \/ (i \in DOMAIN s /\ Append(s, e)[i] = s[i])
  <1>1. /\ Append(s, e) \in Seq(S) /\ Len(Append(s, e)) = Len(s) + 1
        /\ Append(s, e)[Len(s) + 1] = e
    OBVIOUS
  <1>2. Append(s, e) # <<>>
    BY <1>1
  <1>3. ASSUME NEW i \in DOMAIN Append(s, e)
        PROVE  Append(s, e)[i] = e \/ (i \in DOMAIN s /\ Append(s, e)[i] = s[i])
    <2>1. Len(s) \in Nat /\ DOMAIN s = 1 .. Len(s) /\ i \in 1 .. Len(s) + 1
      BY <1>1
    <2>2. CASE i = Len(s) + 1
      <3>1. Append(s, e)[i] = e
        BY <1>1, <2>2, Zenon
      <3> QED
        BY <3>1
    <2>3. CASE i \in DOMAIN s
      BY <2>3
    <2> QED
      BY <2>1, <2>2, <2>3
  <1> QED
    BY <1>1, <1>2, <1>3

Ops == {"change", "remove"}

\* The event raised is there, once or coalesced, and nothing else changes.
LEMMA RaiseFacts ==
    ASSUME raw \in [Device -> Seq(Ops)], NEW n \in Device, NEW op \in Ops, Raise(n, op),
           lost \in BOOLEAN
    PROVE  /\ raw' \in [Device -> Seq(Ops)] /\ lost' \in BOOLEAN /\ (~lost' => ~lost)
           /\ raw'[n] # <<>>
           /\ \A k \in Device : k # n => raw'[k] = raw[k]
           /\ \A i \in DOMAIN raw'[n] :
                 raw'[n][i] = op \/ (i \in DOMAIN raw[n] /\ raw'[n][i] = raw[n][i])
  <1>1. lost' \in BOOLEAN /\ (~lost' => ~lost)
    BY DEF Raise
  <1>2. CASE raw' = [raw EXCEPT ![n] = Append(@, op)]
    <2>1. raw[n] \in Seq(Ops) /\ raw'[n] = Append(raw[n], op)
      BY <1>2
    <2>2. /\ Append(raw[n], op) \in Seq(Ops) /\ Append(raw[n], op) # <<>>
          /\ \A i \in DOMAIN Append(raw[n], op) :
                 Append(raw[n], op)[i] = op \/ (i \in DOMAIN raw[n] /\ Append(raw[n], op)[i] = raw[n][i])
      BY <2>1, AppendFacts
    <2> QED
      BY <1>1, <1>2, <2>1, <2>2
  <1>3. CASE raw' = raw /\ raw[n] # <<>>
    BY <1>1, <1>3
  <1> QED
    BY <1>2, <1>3 DEF Raise

-----------------------------------------------------------------------------
(* Type correctness.                                                       *)

\* The records a receiver of a link may be.
Receiving == [pc : {"idle", "empty", "fill", "orphan", "times", "record"}, msg : Message]

LEMMA IdleType == Idle \in Receiving /\ Deletion \in Message
  BY DEF Idle, Receiving, Deletion, Message, Data

LEMMA TypeInit == Init => TypeOK
  <1> SUFFICES ASSUME Init PROVE TypeOK
    OBVIOUS
  <1>1. recv \in [Link -> Receiving]
    BY IdleType DEF Init
  <1>2. /\ disk \in [Device -> Data] /\ row \in [Device -> Data] /\ last \in Data
        /\ announcing \in [Device -> Data \cup {NoEvent}]
    BY DEF Init, Data
  <1>3. /\ raw \in [Device -> Seq(Ops)] /\ events \in [Device -> Seq(Data)]
        /\ link \in [Link -> Seq(Message)]
    BY DEF Init
  <1>4. /\ \A n \in Device : Len(events[n]) <= EventCap
        /\ \A l \in Link : Len(link[l]) <= LinkCap
    <2>1. 0 <= EventCap /\ 0 <= LinkCap
      BY BoundAssumption
    <2>2. \A n \in Device : events[n] = <<>>
      BY DEF Init
    <2>3. \A l \in Link : link[l] = <<>>
      BY DEF Init
    <2> QED
      BY <2>1, <2>2, <2>3
  <1>5. changes \in 0 .. MaxChanges
    BY BoundAssumption DEF Init
  <1>6. crossed \in BOOLEAN /\ lost \in BOOLEAN
    BY DEF Init
  <1> QED
    BY <1>1, <1>2, <1>3, <1>4, <1>5, <1>6 DEF TypeOK, Receiving, Ops

\* A file removed under its writers leaves them receivers.
LEMMA UnlinkedType ==
    ASSUME TypeOK, NEW n \in Device
    PROVE  Unlinked(n) \in [Link -> Receiving]
  <1>1. ASSUME NEW l \in Link PROVE [recv[l] EXCEPT !.pc = "orphan"] \in Receiving
    BY DEF TypeOK, Receiving
  <1> QED
    BY <1>1 DEF Unlinked, TypeOK, Receiving

LEMMA TypeUser ==
    ASSUME TypeOK, User
    PROVE  TypeOK'
  <1>1. PICK n \in Device : UserRemoves(n) \/ \E c \in Content : UserWrites(n, c)
    BY DEF User
  <1>2. changes' \in 0 .. MaxChanges /\ last' \in Data /\ crossed' \in BOOLEAN
    <2>1. PICK c \in Content \cup {Absent} : UserStep(c)
      BY <1>1 DEF UserRemoves, UserWrites
    <2>2. changes' \in 0 .. MaxChanges
      BY <2>1, BoundAssumption DEF UserStep, TypeOK
    <2>3. last' \in Data
      BY <2>1 DEF UserStep, Data
    <2>4. crossed' \in BOOLEAN
      BY <2>1 DEF UserStep, TypeOK
    <2> QED
      BY <2>2, <2>3, <2>4
  <1>3. disk' \in [Device -> Data]
    BY <1>1 DEF UserRemoves, UserWrites, TypeOK, Data
  <1>4. raw' \in [Device -> Seq(Ops)] /\ lost' \in BOOLEAN
    BY <1>1, RaiseFacts DEF UserRemoves, UserWrites, TypeOK, Ops
  <1>5. recv' \in [Link -> Receiving]
    BY <1>1, UnlinkedType DEF UserRemoves, UserWrites, TypeOK, Receiving
  <1>6. UNCHANGED <<row, events, announcing, link>>
    BY <1>1 DEF UserRemoves, UserWrites
  <1> QED
    BY <1>2, <1>3, <1>4, <1>5, <1>6 DEF TypeOK, Ops, Receiving

LEMMA TypeWatch ==
    ASSUME TypeOK, NEW n \in Device, Watch(n)
    PROVE  TypeOK'
  <1>1. raw[n] \in Seq(Ops) /\ raw[n] # <<>> /\ raw' = [raw EXCEPT ![n] = Tail(@)]
    BY DEF Watch, TypeOK, Ops
  <1>2. raw' \in [Device -> Seq(Ops)]
    BY <1>1, TailFacts DEF TypeOK, Ops
  <1>3. events' \in [Device -> Seq(Data)] /\ \A k \in Device : Len(events'[k]) <= EventCap
    <2>1. CASE UNCHANGED events
      BY <2>1 DEF TypeOK
    <2>2. CASE ~ UNCHANGED events
      <3>1. PICK d \in Data : events' = [events EXCEPT ![n] = Append(@, d)]
        BY <2>2 DEF Watch, TypeOK, Data
      <3>2. Len(events[n]) < EventCap /\ events[n] \in Seq(Data)
        BY <2>2 DEF Watch, TypeOK
      <3>3. Append(events[n], d) \in Seq(Data) /\ Len(Append(events[n], d)) = Len(events[n]) + 1
        BY <3>2, AppendFacts
      <3>4. Len(Append(events[n], d)) <= EventCap
        BY <3>2, <3>3, BoundAssumption
      <3> QED
        BY <3>1, <3>3, <3>4 DEF TypeOK
    <2> QED
      BY <2>1, <2>2
  <1> QED
    BY <1>2, <1>3 DEF Watch, TypeOK, Ops

LEMMA TypeStore ==
    ASSUME TypeOK, NEW n \in Device, Store(n)
    PROVE  TypeOK'
  <1>1. events[n] \in Seq(Data) /\ events[n] # <<>> /\ Len(events[n]) <= EventCap
    BY DEF Store, TypeOK
  <1>2. /\ Head(events[n]) \in Data /\ Tail(events[n]) \in Seq(Data)
        /\ Len(Tail(events[n])) = Len(events[n]) - 1
    BY <1>1, TailFacts
  <1>3. Len(Tail(events[n])) <= EventCap
    BY <1>1, <1>2, BoundAssumption
  <1> QED
    BY <1>2, <1>3 DEF Store, TypeOK

LEMMA TypeAnnounce ==
    ASSUME TypeOK, NEW n \in Device, Announce(n)
    PROVE  TypeOK'
  <1> DEFINE msg == [hash |-> announcing[n],
                     content |-> IF announcing[n] = Absent THEN Absent ELSE disk[n]]
  <1>1. msg \in Message
    BY DEF Announce, TypeOK, Message, Data
  <1>2. ASSUME NEW l \in Link PROVE link'[l] \in Seq(Message) /\ Len(link'[l]) <= LinkCap
    <2>1. link[l] \in Seq(Message) /\ Len(link[l]) <= LinkCap
      BY DEF TypeOK
    <2>2. Append(link[l], msg) \in Seq(Message) /\ Len(Append(link[l], msg)) = Len(link[l]) + 1
      BY <1>1, <2>1, AppendFacts
    <2>3. link'[l] = link[l] \/ (link'[l] = Append(link[l], msg) /\ ~(Len(link[l]) >= LinkCap))
      <3> DEFINE full == {k \in Link : k[1] = n /\ Len(link[k]) >= LinkCap}
      <3>1. link' = [k \in Link |-> IF k[1] = n /\ k \notin full THEN Append(link[k], msg)
                                                                ELSE link[k]]
        BY DEF Announce
      <3>2. link'[l] = IF l[1] = n /\ l \notin full THEN Append(link[l], msg) ELSE link[l]
        BY <3>1
      <3>3. l \notin full => l[1] # n \/ ~(Len(link[l]) >= LinkCap)
        OBVIOUS
      <3> HIDE DEF full, msg
      <3>4. CASE l[1] = n /\ l \notin full
        BY <3>2, <3>3, <3>4
      <3>5. CASE ~(l[1] = n /\ l \notin full)
        BY <3>2, <3>5
      <3> QED
        BY <3>4, <3>5
    <2> HIDE DEF msg
    <2> QED
      BY <2>1, <2>2, <2>3, BoundAssumption
  <1>3. link' \in [Link -> Seq(Message)]
    BY <1>2 DEF Announce
  <1>4. announcing' \in [Device -> Data \cup {NoEvent}]
    BY DEF Announce, TypeOK
  <1>5. lost' \in BOOLEAN
    BY DEF Announce, TypeOK
  <1> QED
    BY <1>2, <1>3, <1>4, <1>5 DEF Announce, TypeOK

LEMMA TypeReceiver ==
    ASSUME TypeOK, NEW l \in Link, Receiver(l)
    PROVE  TypeOK'
  <1>1. l[2] \in Device /\ recv \in [Link -> Receiving]
    BY DEF Link, TypeOK, Receiving
  <1>2. CASE ReceiveUpdate(l) \/ ReceiveDelete(l)
    <2>1. link[l] \in Seq(Message) /\ link[l] # <<>> /\ Len(link[l]) <= LinkCap
      BY <1>2 DEF ReceiveUpdate, ReceiveDelete, TypeOK
    <2>2. /\ Head(link[l]) \in Message /\ Tail(link[l]) \in Seq(Message)
          /\ Len(Tail(link[l])) = Len(link[l]) - 1
      BY <2>1, TailFacts
    <2>3. Len(Tail(link[l])) <= LinkCap
      BY <2>1, <2>2, BoundAssumption
    <2>4. link' = [link EXCEPT ![l] = Tail(@)]
      BY <1>2 DEF ReceiveUpdate, ReceiveDelete
    <2>5. link' \in [Link -> Seq(Message)] /\ \A k \in Link : Len(link'[k]) <= LinkCap
      BY <2>2, <2>3, <2>4 DEF TypeOK
    <2>6. CASE ReceiveUpdate(l)
      <3>1. recv' \in [Link -> Receiving]
        <4>1. [pc |-> "empty", msg |-> Head(link[l])] \in Receiving
          BY <2>2 DEF Receiving
        <4> QED
          BY <1>1, <2>6, <4>1 DEF ReceiveUpdate
      <3> QED
        BY <2>5, <2>6, <3>1 DEF ReceiveUpdate, TypeOK, Receiving
    <2>7. CASE ReceiveDelete(l)
      <3>1. recv' \in [Link -> Receiving]
        <4>1. [pc |-> "record", msg |-> Deletion] \in Receiving
          BY IdleType DEF Receiving
        <4> QED
          BY <1>1, <2>7, <4>1, UnlinkedType DEF ReceiveDelete
      <3>2. raw' \in [Device -> Seq(Ops)] /\ lost' \in BOOLEAN
        BY <1>1, <2>7, RaiseFacts DEF ReceiveDelete, TypeOK, Ops
      <3>3. disk' \in [Device -> Data]
        BY <2>7 DEF ReceiveDelete, TypeOK, Data
      <3> QED
        BY <2>5, <2>7, <3>1, <3>2, <3>3 DEF ReceiveDelete, TypeOK, Ops, Receiving
    <2> QED
      BY <1>2, <2>6, <2>7
  <1>3. CASE EmptyFile(l) \/ FillFile(l) \/ SetTimes(l)
    <2>1. raw' \in [Device -> Seq(Ops)] /\ lost' \in BOOLEAN
      BY <1>1, <1>3, RaiseFacts DEF EmptyFile, FillFile, SetTimes, TypeOK, Ops
    <2>2. disk' \in [Device -> Data]
      BY <1>1, <1>3 DEF EmptyFile, FillFile, SetTimes, TypeOK, Message, Data
    <2>3. recv' \in [Link -> Receiving]
      <3>1. PICK pc \in {"fill", "times", "record"} : recv' = [recv EXCEPT ![l].pc = pc]
        BY <1>3 DEF EmptyFile, FillFile, SetTimes
      <3> QED
        BY <1>1, <3>1 DEF Receiving
    <2> QED
      BY <1>3, <2>1, <2>2, <2>3 DEF EmptyFile, FillFile, SetTimes, TypeOK, Ops, Receiving
  <1>4. CASE Record(l)
    <2>1. row' \in [Device -> Data] /\ recv' \in [Link -> Receiving]
      BY <1>1, <1>4, IdleType DEF Record, TypeOK, Receiving, Message
    <2> QED
      BY <1>4, <2>1 DEF Record, TypeOK, Receiving
  <1> QED
    BY <1>2, <1>3, <1>4 DEF Receiver

LEMMA TypeStep == TypeOK /\ [Next]_vars => TypeOK'
  <1> SUFFICES ASSUME TypeOK, [Next]_vars PROVE TypeOK'
    OBVIOUS
  <1>1. CASE UNCHANGED vars
    BY <1>1 DEF vars, TypeOK
  <1> QED
    BY <1>1, TypeUser, TypeWatch, TypeStore, TypeAnnounce, TypeReceiver DEF Next, SyncLoop

\* Every reachable state is well typed, and neither Watcher.events nor a SendCh
\* ever holds more than its capacity (watcher.go:57-72, sync.go:144-151).
THEOREM SpreadTypeCorrect == Spec => []TypeOK
  BY TypeInit, TypeStep, PTL DEF Spec

-----------------------------------------------------------------------------
(* The spreading of one change.                                            *)

\* At rest the round is over.
LEMMA QuietAgrees ==
    ASSUME TypeOK, Round, Quiet
    PROVE  \A n \in Device : disk[n] = last /\ row[n] = last
  <1> SUFFICES ASSUME NEW n \in Device PROVE disk[n] = last /\ row[n] = last
    OBVIOUS
  <1>1. \A l \in Link : recv[l].pc = "idle" /\ l[1] \in Device /\ link[l] = <<>>
    BY DEF Quiet, Idle, Link
  <1>2. ~Filling(n) /\ \A k \in Device : ~WillAnnounce(k)
    BY <1>1 DEF Filling, WillAnnounce, Quiet
  <1>3. ~Due(n)
    BY <1>1, <1>2 DEF Due, WillSend, Quiet
  <1>4. ~Untouched(n) /\ row[n] = last /\ disk[n] # Empty
    BY <1>2, <1>3 DEF Round, DiskInv
  <1> QED
    BY <1>4 DEF Untouched, Spreading

LEMMA RoundInit == Init => Round
  <1> SUFFICES ASSUME Init PROVE Round
    OBVIOUS
  <1>1. /\ last \in Content \cup {Absent}
        /\ \A n \in Device : disk[n] = last /\ row[n] = last /\ raw[n] = <<>> /\ events[n] = <<>>
                             /\ announcing[n] = NoEvent
        /\ \A l \in Link : link[l] = <<>> /\ recv[l] = Idle
    BY DEF Init
  <1>2. OfThisChange
    BY <1>1 DEF OfThisChange, Idle
  <1>3. ASSUME NEW n \in Device PROVE ~Untouched(n) /\ disk[n] # Empty
    BY <1>1, DataAssumption DEF Untouched, Spreading
  <1>4. ASSUME NEW n \in Device PROVE DiskInv(n) /\ LatestInv(n)
    BY <1>1, <1>3 DEF DiskInv, LatestInv
  <1>5. ASSUME NEW l \in Link PROVE LinkInv(l)
    BY <1>1 DEF LinkInv, Idle
  <1> QED
    BY <1>1, <1>2, <1>3, <1>4, <1>5 DEF Round

\* A change at rest begins a round: everywhere else the file is untouched.
LEMMA RoundUser ==
    ASSUME TypeOK, Round, Quiet, User
    PROVE  Round'
  <1>1. PICK n \in Device : UserRemoves(n) \/ \E c \in Content : UserWrites(n, c)
    BY DEF User
  <1>2. PICK d \in Content \cup {Absent} :
          /\ last' = d /\ disk' = [disk EXCEPT ![n] = d]
          /\ Raise(n, IF d = Absent THEN "remove" ELSE "change")
    BY <1>1, DataAssumption DEF UserRemoves, UserWrites, UserStep
  <1>3. UNCHANGED <<row, events, announcing, link>>
    BY <1>1 DEF UserRemoves, UserWrites
  <1>4. \A k \in Device : raw[k] = <<>> /\ events[k] = <<>> /\ announcing[k] = NoEvent
    BY DEF Quiet
  <1>5. \A l \in Link : link'[l] = <<>> /\ recv'[l].pc = "idle" /\ recv'[l] = Idle
    BY <1>1, <1>3 DEF Quiet, UserRemoves, UserWrites, Unlinked, Idle
  <1>6. /\ raw'[n] # <<>>
        /\ \A i \in DOMAIN raw'[n] : raw'[n][i] = IF d = Absent THEN "remove" ELSE "change"
        /\ \A k \in Device : k # n => raw'[k] = <<>>
    BY <1>2, <1>4, RaiseFacts DEF TypeOK, Ops
  <1>7. \A k \in Device : disk[k] = last /\ row[k] = last
    BY QuietAgrees
  <1>8. last \in Content \cup {Absent}
    BY DEF Round, OfThisChange
  <1>9. disk'[n] = d /\ \A k \in Device : k # n => disk'[k] = last
    BY <1>2, <1>7 DEF TypeOK
  <1>10. OfThisChange'
    BY <1>2, <1>3, <1>4, <1>5, <1>6 DEF OfThisChange, Spreading, Idle
  <1>11. ~Untouched(n)'
    BY <1>2, <1>9 DEF Untouched, Spreading
  <1>12. ASSUME NEW k \in Device PROVE DiskInv(k)' /\ LatestInv(k)'
    <2>1. disk'[k] # Empty
      BY <1>2, <1>8, <1>9, DataAssumption
    <2>2. DiskInv(k)'
      BY <1>3, <1>4, <1>5, <1>6, <1>7, <1>9, <1>11, <2>1 DEF DiskInv
    <2>3. LatestInv(k)'
      BY <1>3, <1>4, <1>6 DEF LatestInv
    <2> QED
      BY <2>2, <2>3
  <1>13. ASSUME NEW l \in Link PROVE LinkInv(l)'
    BY <1>5 DEF LinkInv
  <1>14. ASSUME NEW k \in Device PROVE Due(k)'
    <2>1. CASE k = n
      BY <1>6, <2>1 DEF Due
    <2>2. CASE k # n
      <3>1. <<n, k>> \in Link /\ <<n, k>>[1] = n /\ <<n, k>>[2] = k
        BY <2>2 DEF Link
      <3>2. WillSend(<<n, k>>)'
        BY <1>6, <3>1 DEF WillSend, WillAnnounce
      <3> QED
        BY <3>1, <3>2 DEF Due
    <2> QED
      BY <2>1, <2>2
  <1> QED
    BY <1>10, <1>12, <1>13, <1>14 DEF Round

\* A kernel event becomes one of the channel, of what the file holds by now.
LEMMA RoundWatch ==
    ASSUME TypeOK, Round, NEW n \in Device, Watch(n)
    PROVE  Round'
  <1>1. /\ raw[n] \in Seq(Ops) /\ raw[n] # <<>> /\ raw' = [raw EXCEPT ![n] = Tail(@)]
        /\ UNCHANGED <<disk, row, announcing, link, recv, last>>
    BY DEF Watch, TypeOK, Ops
  <1>2. ~Untouched(n)
    BY <1>1 DEF Round, DiskInv
  <1>3. PICK h \in Spreading :
          events' = [events EXCEPT ![n] = Append(@, h)] /\ (~Filling(n) => h = last)
    <2>1. Head(raw[n]) = "remove" <=> last = Absent
      BY <1>1, TailFacts DEF Round, OfThisChange
    <2>2. CASE last = Absent
      BY <2>1, <2>2 DEF Watch, Spreading
    <2>3. CASE last # Absent
      <3>1. disk[n] \in {last, Empty} /\ disk[n] # Absent /\ (~Filling(n) => disk[n] = last)
        BY <1>2, <2>3, DataAssumption DEF Untouched, Spreading, Round, DiskInv
      <3>2. events' = [events EXCEPT ![n] = Append(@, disk[n])]
        BY <2>1, <2>3, <3>1 DEF Watch
      <3> QED
        BY <2>3, <3>1, <3>2 DEF Spreading
    <2> QED
      BY <2>2, <2>3
  <1>4. events[n] \in Seq(Data) /\ h \in Data
    BY DEF TypeOK, Round, OfThisChange, Spreading, Data
  <1>5. /\ events'[n] # <<>> /\ events'[n][Len(events'[n])] = h
        /\ \A i \in DOMAIN events'[n] :
              events'[n][i] = h \/ (i \in DOMAIN events[n] /\ events'[n][i] = events[n][i])
        /\ \A k \in Device : k # n => events'[k] = events[k]
    <2>1. events'[n] = Append(events[n], h) /\ \A k \in Device : k # n => events'[k] = events[k]
      BY <1>3 DEF TypeOK
    <2> QED
      BY <1>4, <2>1, AppendFacts
  <1>6. /\ \A i \in DOMAIN raw'[n] : i + 1 \in DOMAIN raw[n] /\ raw'[n][i] = raw[n][i + 1]
        /\ \A k \in Device : k # n => raw'[k] = raw[k]
    BY <1>1, TailFacts DEF TypeOK
  <1>7. Spreading' = Spreading /\ \A k \in Device : Filling(k)' = Filling(k) /\ Untouched(k)' = Untouched(k)
    BY <1>1 DEF Spreading, Filling, Untouched
  <1>8. \A k \in Device : WillAnnounce(k) => WillAnnounce(k)'
    BY <1>1, <1>5, <1>6, <1>7 DEF WillAnnounce
  <1>9. OfThisChange'
    <2>1. \A k \in Device :
             /\ \A i \in DOMAIN raw'[k] : raw'[k][i] = "remove" <=> last = Absent
             /\ \A i \in DOMAIN events'[k] : events'[k][i] \in Spreading
      BY <1>3, <1>5, <1>6 DEF Round, OfThisChange
    <2> QED
      BY <1>1, <1>7, <2>1 DEF Round, OfThisChange
  <1>10. ASSUME NEW k \in Device PROVE DiskInv(k)' /\ LatestInv(k)'
    <2>1. CASE k = n
      BY <1>1, <1>2, <1>3, <1>5, <1>7, <2>1 DEF Round, DiskInv, LatestInv
    <2>2. CASE k # n
      BY <1>1, <1>5, <1>6, <1>7, <2>2 DEF Round, DiskInv, LatestInv
    <2> QED
      BY <2>1, <2>2
  <1>11. \A l \in Link : l[1] \in Device /\ (WillSend(l) => WillSend(l)')
    BY <1>1, <1>8 DEF WillSend, Link
  <1>12. ASSUME NEW l \in Link PROVE LinkInv(l)'
    BY <1>1, <1>8, <1>11 DEF Round, LinkInv, News
  <1>13. ASSUME NEW k \in Device, (Untouched(k) \/ row[k] # last)' PROVE Due(k)'
    <2>1. Due(k)
      BY <1>1, <1>7, <1>13 DEF Round
    <2> QED
      BY <1>1, <1>5, <1>6, <1>11, <2>1 DEF Due
  <1> QED
    BY <1>9, <1>10, <1>12, <1>13 DEF Round

\* The row takes the event, and what is announced next is no older.
LEMMA RoundStore ==
    ASSUME TypeOK, Round, NEW n \in Device, Store(n)
    PROVE  Round'
  <1>1. /\ announcing[n] = NoEvent /\ events[n] # <<>> /\ events[n] \in Seq(Data)
        /\ events' = [events EXCEPT ![n] = Tail(@)]
        /\ UNCHANGED <<disk, raw, link, recv, last>>
    BY DEF Store, TypeOK
  <1>2. ~Untouched(n)
    BY <1>1 DEF Round, DiskInv
  <1>3. /\ Head(events[n]) \in Spreading /\ Head(events[n]) # NoEvent
        /\ row' = [row EXCEPT ![n] = Head(events[n])]
        /\ announcing' = [announcing EXCEPT ![n] = Head(events[n])]
    <2>1. Head(events[n]) \in Spreading
      BY <1>1, TailFacts DEF Round, OfThisChange
    <2> QED
      BY <2>1, DataAssumption DEF Store, Round, OfThisChange, Spreading
  <1>4. /\ announcing'[n] = Head(events[n]) /\ row'[n] = Head(events[n])
        /\ \A k \in Device : k # n => announcing'[k] = announcing[k] /\ row'[k] = row[k]
    BY <1>3 DEF TypeOK
  <1>5. /\ events'[n] = Tail(events[n])
        /\ \A k \in Device : k # n => events'[k] = events[k]
    BY <1>1 DEF TypeOK
  <1>6. /\ \A i \in DOMAIN events'[n] : i + 1 \in DOMAIN events[n] /\ events'[n][i] = events[n][i + 1]
        /\ IF events'[n] = <<>> THEN events[n][Len(events[n])] = Head(events[n])
                                ELSE events'[n][Len(events'[n])] = events[n][Len(events[n])]
    <2>1. /\ \A i \in DOMAIN Tail(events[n]) :
                i + 1 \in DOMAIN events[n] /\ Tail(events[n])[i] = events[n][i + 1]
          /\ IF Tail(events[n]) = <<>>
               THEN events[n][Len(events[n])] = Head(events[n])
               ELSE Tail(events[n])[Len(Tail(events[n]))] = events[n][Len(events[n])]
      BY <1>1, TailFacts
    <2> QED
      BY <1>5, <2>1
  <1>7. Spreading' = Spreading /\ \A k \in Device : Filling(k)' = Filling(k) /\ Untouched(k)' = Untouched(k)
    BY <1>1 DEF Spreading, Filling, Untouched
  <1>8. \A k \in Device : WillAnnounce(k) => WillAnnounce(k)'
    BY <1>1, <1>3, <1>4, <1>5, <1>7 DEF WillAnnounce
  <1>9. OfThisChange'
    <2>1. ASSUME NEW k \in Device, NEW i \in DOMAIN events'[k] PROVE events'[k][i] \in Spreading
      <3>1. \A j \in DOMAIN events[k] : events[k][j] \in Spreading
        BY DEF Round, OfThisChange
      <3>2. CASE k = n
        BY <1>6, <2>1, <3>1, <3>2
      <3>3. CASE k # n
        BY <1>5, <2>1, <3>1, <3>3
      <3> QED
        BY <3>2, <3>3
    <2>2. \A k \in Device : announcing'[k] \in Spreading \cup {NoEvent}
      BY <1>3, <1>4 DEF Round, OfThisChange
    <2> QED
      BY <1>1, <1>7, <2>1, <2>2 DEF Round, OfThisChange
  <1>10. ASSUME NEW k \in Device PROVE DiskInv(k)' /\ LatestInv(k)'
    <2>1. CASE k = n
      <3>1. DiskInv(n)'
        BY <1>1, <1>2, <1>7 DEF Round, DiskInv
      <3>2. LatestInv(n)'
        BY <1>1, <1>4, <1>6, <1>7 DEF Round, LatestInv
      <3> QED
        BY <2>1, <3>1, <3>2
    <2>2. CASE k # n
      BY <1>1, <1>4, <1>5, <1>7, <2>2 DEF Round, DiskInv, LatestInv
    <2> QED
      BY <2>1, <2>2
  <1>11. \A l \in Link : l[1] \in Device /\ (WillSend(l) => WillSend(l)')
    BY <1>1, <1>8 DEF WillSend, Link
  <1>12. ASSUME NEW l \in Link PROVE LinkInv(l)'
    BY <1>1, <1>8, <1>11 DEF Round, LinkInv, News
  <1>13. ASSUME NEW k \in Device, (Untouched(k) \/ row[k] # last)' PROVE Due(k)'
    <2>1. CASE k = n
      <3>1. CASE raw[n] # <<>> \/ events'[n] # <<>>
        BY <1>1, <2>1, <3>1 DEF Due
      <3>2. CASE raw[n] = <<>> /\ events'[n] = <<>>
        <4>1. row'[n] # last
          BY <1>1, <1>2, <1>7, <1>13, <2>1
        <4>2. Filling(n)
          BY <1>1, <1>4, <1>6, <3>2, <4>1 DEF Round, LatestInv
        <4> QED
          BY <1>1, <2>1, <4>2 DEF Filling, Due
      <3> QED
        BY <3>1, <3>2
    <2>2. CASE k # n
      <3>1. Due(k)
        BY <1>1, <1>4, <1>7, <1>13, <2>2 DEF Round
      <3> QED
        BY <1>1, <1>5, <1>11, <2>2, <3>1 DEF Due
    <2> QED
      BY <2>1, <2>2
  <1> QED
    BY <1>9, <1>10, <1>12, <1>13 DEF Round

\* The message goes to every link, and the last one of a device is the news.
LEMMA RoundAnnounce ==
    ASSUME TypeOK, Round, NEW n \in Device, Announce(n), ~lost'
    PROVE  Round'
  <1> DEFINE msg == [hash |-> announcing[n],
                     content |-> IF announcing[n] = Absent THEN Absent ELSE disk[n]]
  <1>1. /\ announcing[n] # NoEvent /\ announcing' = [announcing EXCEPT ![n] = NoEvent]
        /\ UNCHANGED <<disk, row, raw, events, recv, last>>
    BY DEF Announce
  <1>2. ~Untouched(n) /\ announcing[n] \in Spreading
    BY <1>1 DEF Round, DiskInv, OfThisChange
  <1>3. msg \in Message /\ msg \in [hash : Spreading, content : Spreading]
    BY <1>1, <1>2, DataAssumption DEF Untouched, Spreading, TypeOK, Message
  <1>4. ~WillAnnounce(n)' => msg = News
    <2>1. SUFFICES ASSUME ~WillAnnounce(n)' PROVE msg = News
      OBVIOUS
    <2>2. ~Filling(n) /\ raw[n] = <<>> /\ events[n] = <<>>
      BY <1>1, <2>1 DEF WillAnnounce, Filling
    <2>3. announcing[n] = last
      BY <1>1, <2>2 DEF Round, LatestInv
    <2>4. last # Absent => disk[n] = last
      BY <1>2, <2>2 DEF Round, DiskInv, Untouched, Spreading
    <2> QED
      BY <2>3, <2>4 DEF News
  <1>5. ASSUME NEW l \in Link
        PROVE  link'[l] = IF l[1] = n THEN Append(link[l], msg) ELSE link[l]
    <2> DEFINE full == {k \in Link : k[1] = n /\ Len(link[k]) >= LinkCap}
    <2>1. /\ lost' = (lost \/ full # {})
          /\ link' = [k \in Link |-> IF k[1] = n /\ k \notin full THEN Append(link[k], msg)
                                                                ELSE link[k]]
      BY DEF Announce
    <2>2. full = {}
      BY <2>1
    <2> HIDE DEF full, msg
    <2> QED
      BY <2>1, <2>2
  <1>6. ASSUME NEW l \in Link, l[1] = n
        PROVE  /\ link'[l] # <<>> /\ link'[l][Len(link'[l])] = msg
               /\ \A i \in DOMAIN link'[l] :
                     link'[l][i] = msg \/ (i \in DOMAIN link[l] /\ link'[l][i] = link[l][i])
    <2>1. link[l] \in Seq(Message) /\ link'[l] = Append(link[l], msg)
      BY <1>5, <1>6 DEF TypeOK
    <2> HIDE DEF msg
    <2> QED
      BY <1>3, <2>1, AppendFacts
  <1> HIDE DEF msg
  <1>7. Spreading' = Spreading /\ \A k \in Device : Filling(k)' = Filling(k) /\ Untouched(k)' = Untouched(k)
    BY <1>1 DEF Spreading, Filling, Untouched
  <1>8. announcing'[n] = NoEvent /\ \A k \in Device : k # n => announcing'[k] = announcing[k]
    BY <1>1 DEF TypeOK
  <1>9. \A k \in Device : k # n => (WillAnnounce(k) <=> WillAnnounce(k)')
    BY <1>1, <1>7, <1>8 DEF WillAnnounce
  <1>10. \A l \in Link : l[1] \in Device /\ (WillSend(l) => WillSend(l)')
    BY <1>5, <1>6, <1>9 DEF WillSend, Link
  <1>11. OfThisChange'
    <2>1. ASSUME NEW l \in Link, NEW i \in DOMAIN link'[l]
          PROVE  link'[l][i] \in [hash : Spreading, content : Spreading]
      BY <1>3, <1>5, <1>6 DEF Round, OfThisChange
    <2>2. \A k \in Device : announcing'[k] \in Spreading \cup {NoEvent}
      BY <1>8 DEF Round, OfThisChange
    <2> QED
      BY <1>1, <1>7, <2>1, <2>2 DEF Round, OfThisChange
  <1>12. ASSUME NEW k \in Device PROVE DiskInv(k)' /\ LatestInv(k)'
    <2>1. DiskInv(k)'
      BY <1>1, <1>2, <1>7, <1>8 DEF Round, DiskInv
    <2>2. LatestInv(k)'
      BY <1>1, <1>7, <1>8 DEF Round, LatestInv
    <2> QED
      BY <2>1, <2>2
  <1>13. ASSUME NEW l \in Link PROVE LinkInv(l)'
    <2>1. CASE l[1] = n
      BY <1>1, <1>4, <1>6, <2>1 DEF LinkInv, WillSend, News
    <2>2. CASE l[1] # n
      BY <1>1, <1>5, <1>9, <1>10, <2>2 DEF Round, LinkInv, News
    <2> QED
      BY <2>1, <2>2
  <1>14. ASSUME NEW k \in Device, (Untouched(k) \/ row[k] # last)' PROVE Due(k)'
    <2>1. Due(k)
      BY <1>1, <1>7, <1>14 DEF Round
    <2> QED
      BY <1>1, <1>10, <2>1 DEF Due
  <1> QED
    BY <1>11, <1>12, <1>13, <1>14 DEF Round

\* A receiver takes a message it skips or will act on.
LEMMA RoundReceiveUpdate ==
    ASSUME TypeOK, Round, NEW l \in Link, ReceiveUpdate(l)
    PROVE  Round'
  <1> DEFINE msg == Head(link[l])
             skip == row[l[2]] = msg.hash \/ msg.content \in {Absent, Empty}
  <1>1. /\ recv[l].pc = "idle" /\ link[l] \in Seq(Message) /\ link[l] # <<>>
        /\ link' = [link EXCEPT ![l] = Tail(@)]
        /\ UNCHANGED <<disk, row, raw, events, announcing, last>>
    BY DEF ReceiveUpdate, TypeOK
  <1>2. /\ msg \in [hash : Spreading, content : Spreading] /\ last # Absent
        /\ ~skip => msg.content = last
    <2>1. msg \in [hash : Spreading, content : Spreading] /\ msg.hash # Absent
      BY <1>1, TailFacts DEF Round, OfThisChange, ReceiveUpdate
    <2> QED
      BY <2>1 DEF Spreading
  <1>3. /\ link'[l] = Tail(link[l])
        /\ \A k \in Link : k # l => link'[k] = link[k]
    BY <1>1 DEF TypeOK
  <1>4. /\ \A i \in DOMAIN link'[l] : i + 1 \in DOMAIN link[l] /\ link'[l][i] = link[l][i + 1]
        /\ IF link'[l] = <<>> THEN link[l][Len(link[l])] = msg
                              ELSE link'[l][Len(link'[l])] = link[l][Len(link[l])]
    <2>1. /\ \A i \in DOMAIN Tail(link[l]) :
                i + 1 \in DOMAIN link[l] /\ Tail(link[l])[i] = link[l][i + 1]
          /\ IF Tail(link[l]) = <<>>
               THEN link[l][Len(link[l])] = msg
               ELSE Tail(link[l])[Len(Tail(link[l]))] = link[l][Len(link[l])]
      BY <1>1, TailFacts
    <2> HIDE DEF msg
    <2> QED
      BY <1>3, <2>1
  <1>5. recv' = IF skip THEN recv ELSE [recv EXCEPT ![l] = [pc |-> "empty", msg |-> msg]]
    BY DEF ReceiveUpdate
  <1> HIDE DEF skip, msg
  <1>6. /\ \A k \in Link : k # l => recv'[k] = recv[k]
        /\ IF skip THEN recv'[l] = recv[l] ELSE recv'[l] = [pc |-> "empty", msg |-> msg]
    BY <1>5 DEF TypeOK
  <1>7. Spreading' = Spreading /\ \A k \in Device : Filling(k)' = Filling(k) /\ Untouched(k)' = Untouched(k)
    <2>1. \A k \in Link : recv'[k].pc = "fill" <=> recv[k].pc = "fill"
      BY <1>1, <1>6
    <2> QED
      BY <1>1, <2>1 DEF Spreading, Filling, Untouched
  <1>8. \A k \in Device : WillAnnounce(k)' <=> WillAnnounce(k)
    BY <1>1, <1>7 DEF WillAnnounce
  <1>9. \A k \in Link : k[1] \in Device /\ k[2] \in Device
    BY DEF Link
  <1>10. ~WillSend(l)' => msg = News
    <2>1. SUFFICES ASSUME ~WillSend(l)' PROVE msg = News
      OBVIOUS
    <2>2. link'[l] = <<>> /\ ~WillAnnounce(l[1])
      BY <1>8, <1>9, <2>1 DEF WillSend
    <2>3. link[l][Len(link[l])] = News
      BY <1>1, <2>2 DEF Round, LinkInv
    <2> QED
      BY <1>4, <2>2, <2>3
  <1>11. OfThisChange'
    <2>1. ASSUME NEW k \in Link, NEW i \in DOMAIN link'[k]
          PROVE  link'[k][i] \in [hash : Spreading, content : Spreading]
      <3>1. \A j \in DOMAIN link[k] : link[k][j] \in [hash : Spreading, content : Spreading]
        BY DEF Round, OfThisChange
      <3>2. CASE k = l
        BY <1>4, <2>1, <3>1, <3>2
      <3>3. CASE k # l
        BY <1>3, <2>1, <3>1, <3>3
      <3> QED
        BY <3>2, <3>3
    <2>2. ASSUME NEW k \in Link
          PROVE  /\ recv'[k].pc # "orphan"
                 /\ recv'[k].pc # "idle" => recv'[k].msg.hash \in Spreading /\ recv'[k].msg.content = last
                 /\ recv'[k].pc \in {"empty", "fill", "times"} => last # Absent
      BY <1>2, <1>6 DEF Round, OfThisChange
    <2> QED
      BY <1>1, <1>7, <2>1, <2>2 DEF Round, OfThisChange
  <1>12. ASSUME NEW k \in Device PROVE DiskInv(k)' /\ LatestInv(k)'
    <2>1. DiskInv(k)'
      <3>1. \A j \in Link : recv'[j].pc \in {"idle", "empty"} \/ recv'[j] = recv[j]
        BY <1>1, <1>6
      <3> QED
        BY <1>1, <1>7, <3>1 DEF Round, DiskInv
    <2>2. LatestInv(k)'
      BY <1>1, <1>7 DEF Round, LatestInv
    <2> QED
      BY <2>1, <2>2
  <1>13. ASSUME NEW k \in Link PROVE LinkInv(k)'
    <2>1. CASE k = l
      <3>1. WillAnnounce(l[1])' \/ link'[l] = <<>> \/ link'[l][Len(link'[l])] = News
        BY <1>1, <1>4, <1>8, <1>9 DEF Round, LinkInv
      <3>2. recv'[l].pc # "idle" /\ recv'[l].msg.hash # last => WillSend(l)'
        BY <1>1, <1>6, <1>10 DEF News
      <3> QED
        BY <1>1, <2>1, <3>1, <3>2 DEF LinkInv, News
    <2>2. CASE k # l
      BY <1>1, <1>3, <1>6, <1>8, <1>9, <2>2 DEF Round, LinkInv, WillSend, News
    <2> QED
      BY <2>1, <2>2
  <1>14. ASSUME NEW k \in Device, (Untouched(k) \/ row[k] # last)' PROVE Due(k)'
    <2>1. row[k] # last
      BY <1>1, <1>7, <1>14 DEF Round, DiskInv, Untouched, Spreading
    <2>2. Due(k)
      BY <2>1 DEF Round
    <2>3. CASE raw[k] # <<>> \/ events[k] # <<>>
      BY <1>1, <2>3 DEF Due
    <2>4. CASE \E j \in Link : /\ j[2] = k /\ j # l
                               /\ \/ recv[j].pc \in {"empty", "fill"}
                                  \/ recv[j].pc # "idle" /\ recv[j].msg.hash = last
                                  \/ WillSend(j)
      BY <1>1, <1>3, <1>6, <1>8, <1>9, <2>4 DEF Due, WillSend
    <2>5. CASE l[2] = k /\ WillSend(l)
      <3>1. CASE WillSend(l)'
        BY <2>5, <3>1 DEF Due
      <3>2. CASE ~WillSend(l)'
        <4>1. msg = News /\ ~skip
          BY <1>2, <1>10, <2>1, <2>5, <3>2, DataAssumption DEF News, skip, Round, OfThisChange
        <4> QED
          BY <1>6, <2>5, <4>1 DEF Due
      <3> QED
        BY <3>1, <3>2
    <2> QED
      BY <1>1, <2>2, <2>3, <2>4, <2>5 DEF Due
  <1> QED
    BY <1>11, <1>12, <1>13, <1>14 DEF Round

\* A step of a receiver in the middle of a file: it goes on to pc, and what it
\* does to the file is announced.
LEMMA RoundWrite ==
    ASSUME TypeOK, Round, NEW l \in Link, EmptyFile(l) \/ FillFile(l) \/ SetTimes(l)
    PROVE  Round'
  <1>1. l[2] \in Device /\ \A k \in Link : k[1] \in Device /\ k[2] \in Device
    BY DEF Link
  <1>2. /\ recv[l].pc \in {"empty", "fill", "times"} /\ last # Absent
        /\ UNCHANGED <<row, events, announcing, link, last>>
    BY DEF EmptyFile, FillFile, SetTimes, Round, OfThisChange
  <1>3. /\ recv[l].msg.hash \in Spreading /\ recv[l].msg.content = last
        /\ last # Empty /\ Spreading = {last, Empty} /\ Spreading' = Spreading
    BY <1>2, DataAssumption DEF Round, OfThisChange, Spreading
  <1>4. /\ disk'[l[2]] \in Spreading
        /\ \A k \in Device : k # l[2] => disk'[k] = disk[k]
        /\ \/ recv[l].pc = "empty" /\ disk'[l[2]] = Empty
           \/ recv[l].pc = "fill" /\ disk'[l[2]] = last
           \/ recv[l].pc = "times" /\ disk'[l[2]] = disk[l[2]]
    <2>1. CASE EmptyFile(l)
      BY <1>1, <1>3, <2>1 DEF EmptyFile, TypeOK
    <2>2. CASE FillFile(l)
      <3>1. recv[l].pc = "fill" /\ disk' = [disk EXCEPT ![l[2]] = last]
        BY <1>3, <2>2 DEF FillFile, Round, OfThisChange
      <3> QED
        BY <1>1, <1>3, <3>1 DEF TypeOK
    <2>3. CASE SetTimes(l)
      <3>1. recv[l].pc = "times" /\ UNCHANGED disk
        BY <2>3 DEF SetTimes
      <3>2. ~Untouched(l[2])
        BY <1>1, <3>1 DEF Round, DiskInv
      <3> QED
        BY <3>1, <3>2 DEF Untouched
    <2> QED
      BY <2>1, <2>2, <2>3
  <1>5. /\ raw'[l[2]] # <<>>
        /\ \A i \in DOMAIN raw'[l[2]] :
              raw'[l[2]][i] = "change" \/ (i \in DOMAIN raw[l[2]] /\ raw'[l[2]][i] = raw[l[2]][i])
        /\ \A k \in Device : k # l[2] => raw'[k] = raw[k]
    <2>1. Raise(l[2], "change")
      <3>1. recv[l].pc = "times" => disk[l[2]] # Absent
        BY <1>2, <1>3, <1>4, DataAssumption
      <3> QED
        BY <3>1 DEF EmptyFile, FillFile, SetTimes, Round, OfThisChange
    <2> QED
      BY <1>1, <2>1, RaiseFacts DEF TypeOK, Ops
  <1>6. /\ \A k \in Link : k # l => recv'[k] = recv[k]
        /\ recv'[l].msg = recv[l].msg
        /\ recv'[l].pc = CASE recv[l].pc = "empty" -> "fill"
                           [] recv[l].pc = "fill" -> "times"
                           [] recv[l].pc = "times" -> "record"
    BY <1>2 DEF EmptyFile, FillFile, SetTimes, TypeOK
  <1>7. \A k \in Device : k # l[2] => Filling(k)' = Filling(k) /\ Untouched(k)' = Untouched(k)
    BY <1>1, <1>2, <1>4, <1>6 DEF Filling, Untouched, Spreading
  <1>8. \A k \in Device : WillAnnounce(k) => WillAnnounce(k)'
    BY <1>2, <1>5, <1>7 DEF WillAnnounce
  <1>9. \A k \in Link : WillSend(k) => WillSend(k)'
    BY <1>1, <1>2, <1>8 DEF WillSend
  <1>10. ~Untouched(l[2])'
    BY <1>3, <1>4 DEF Untouched
  <1>11. OfThisChange'
    <2>1. ASSUME NEW k \in Device, NEW i \in DOMAIN raw'[k]
          PROVE  raw'[k][i] = "remove" <=> last = Absent
      BY <1>2, <1>5 DEF Round, OfThisChange
    <2>2. ASSUME NEW k \in Link
          PROVE  /\ recv'[k].pc # "orphan"
                 /\ recv'[k].pc # "idle" => recv'[k].msg.hash \in Spreading /\ recv'[k].msg.content = last
                 /\ recv'[k].pc \in {"empty", "fill", "times"} => last # Absent
      BY <1>2, <1>3, <1>6 DEF Round, OfThisChange
    <2> QED
      BY <1>2, <1>3, <2>1, <2>2 DEF Round, OfThisChange
  <1>12. ASSUME NEW k \in Device PROVE DiskInv(k)' /\ LatestInv(k)'
    <2>1. CASE k = l[2]
      <3>1. disk'[k] = Empty => Filling(k)'
        <4>1. CASE recv[l].pc = "empty"
          BY <1>6, <2>1, <4>1 DEF Filling
        <4>2. CASE recv[l].pc = "fill"
          BY <1>3, <1>4, <2>1, <4>2
        <4>3. CASE recv[l].pc = "times"
          <5>1. disk'[k] = Empty => Filling(k)
            BY <1>4, <2>1, <4>3 DEF Round, DiskInv
          <5>2. Filling(k) => Filling(k)'
            BY <1>6, <4>3 DEF Filling
          <5> QED
            BY <5>1, <5>2
        <4> QED
          BY <1>2, <4>1, <4>2, <4>3
      <3>2. LatestInv(k)'
        BY <1>5, <2>1 DEF LatestInv
      <3> QED
        BY <1>10, <2>1, <3>1, <3>2 DEF DiskInv
    <2>2. CASE k # l[2]
      <3>1. DiskInv(k)'
        BY <1>1, <1>2, <1>4, <1>5, <1>6, <1>7, <2>2 DEF Round, DiskInv
      <3>2. LatestInv(k)'
        BY <1>2, <1>5, <1>7, <2>2 DEF Round, LatestInv
      <3> QED
        BY <3>1, <3>2
    <2> QED
      BY <2>1, <2>2
  <1>13. ASSUME NEW k \in Link PROVE LinkInv(k)'
    <2>1. recv'[k].msg = recv[k].msg /\ (recv'[k].pc # "idle" => recv[k].pc # "idle")
      BY <1>2, <1>6
    <2> QED
      BY <1>1, <1>2, <1>8, <1>9, <2>1 DEF Round, LinkInv, News
  <1>14. ASSUME NEW k \in Device, (Untouched(k) \/ row[k] # last)' PROVE Due(k)'
    <2>1. CASE k = l[2]
      BY <1>5, <2>1 DEF Due
    <2>2. CASE k # l[2]
      <3>1. Due(k)
        BY <1>2, <1>7, <1>14, <2>2 DEF Round
      <3> QED
        BY <1>2, <1>5, <1>6, <1>9, <2>2, <3>1 DEF Due
    <2> QED
      BY <2>1, <2>2
  <1> QED
    BY <1>11, <1>12, <1>13, <1>14 DEF Round

\* A deletion takes the file away at once, whoever else is at work.
LEMMA RoundReceiveDelete ==
    ASSUME TypeOK, Round, NEW l \in Link, ReceiveDelete(l)
    PROVE  Round'
  <1>1. l[2] \in Device /\ \A k \in Link : k[1] \in Device /\ k[2] \in Device
    BY DEF Link
  <1>2. /\ recv[l].pc = "idle" /\ link[l] \in Seq(Message) /\ link[l] # <<>>
        /\ link' = [link EXCEPT ![l] = Tail(@)]
        /\ disk' = [disk EXCEPT ![l[2]] = Absent]
        /\ UNCHANGED <<row, events, announcing, last>>
    BY DEF ReceiveDelete, TypeOK
  <1>3. last = Absent /\ Spreading = {Absent} /\ Spreading' = Spreading
    <2>1. Head(link[l]).hash = Absent /\ Head(link[l]) \in [hash : Spreading, content : Spreading]
      BY <1>2, TailFacts DEF ReceiveDelete, Round, OfThisChange
    <2>2. last = Absent
      BY <2>1, DataAssumption DEF Spreading, Round, OfThisChange
    <2> QED
      BY <1>2, <2>2 DEF Spreading
  <1>4. /\ disk'[l[2]] = Absent
        /\ \A k \in Device : k # l[2] => disk'[k] = disk[k]
    BY <1>1, <1>2 DEF TypeOK
  <1>5. \A k \in Link : recv[k].pc \notin {"empty", "fill", "times", "orphan"}
    BY <1>3 DEF Round, OfThisChange
  <1>6. /\ \A k \in Link : k # l => recv'[k] = recv[k]
        /\ recv'[l] = [pc |-> "record", msg |-> Deletion]
    BY <1>5 DEF ReceiveDelete, Unlinked
  <1>7. \A k \in Device : ~Filling(k) /\ ~Filling(k)'
    BY <1>5, <1>6 DEF Filling
  <1>8. /\ \A k \in Link : k # l => link'[k] = link[k]
        /\ \A i \in DOMAIN link'[l] : i + 1 \in DOMAIN link[l] /\ link'[l][i] = link[l][i + 1]
        /\ link'[l] # <<>> => link'[l][Len(link'[l])] = link[l][Len(link[l])]
    <2>1. link'[l] = Tail(link[l]) /\ \A k \in Link : k # l => link'[k] = link[k]
      BY <1>2 DEF TypeOK
    <2>2. /\ \A i \in DOMAIN Tail(link[l]) :
                i + 1 \in DOMAIN link[l] /\ Tail(link[l])[i] = link[l][i + 1]
          /\ Tail(link[l]) # <<>> => Tail(link[l])[Len(Tail(link[l]))] = link[l][Len(link[l])]
      BY <1>2, TailFacts
    <2> QED
      BY <2>1, <2>2
  <1>9. /\ raw[l[2]] # <<>> => raw'[l[2]] # <<>>
        /\ \A i \in DOMAIN raw'[l[2]] :
              raw'[l[2]][i] = "remove" \/ (i \in DOMAIN raw[l[2]] /\ raw'[l[2]][i] = raw[l[2]][i])
        /\ \A k \in Device : k # l[2] => raw'[k] = raw[k]
        /\ disk[l[2]] = Absent => raw'[l[2]] = raw[l[2]]
        /\ disk[l[2]] # Absent => raw'[l[2]] # <<>>
    <2>1. CASE disk[l[2]] = Absent
      BY <2>1 DEF ReceiveDelete
    <2>2. CASE disk[l[2]] # Absent
      <3>1. Raise(l[2], "remove")
        BY <2>2 DEF ReceiveDelete
      <3> QED
        BY <1>1, <2>2, <3>1, RaiseFacts DEF TypeOK, Ops
    <2> QED
      BY <2>1, <2>2
  <1>10. \A k \in Device : k # l[2] => Untouched(k)' = Untouched(k)
    BY <1>3, <1>4 DEF Untouched
  <1>11. \A k \in Device : WillAnnounce(k) => WillAnnounce(k)'
    BY <1>1, <1>2, <1>7, <1>9 DEF WillAnnounce
  <1>12. ~Untouched(l[2])'
    BY <1>3, <1>4 DEF Untouched
  <1>13. OfThisChange'
    <2>1. ASSUME NEW k \in Device, NEW i \in DOMAIN raw'[k]
          PROVE  raw'[k][i] = "remove" <=> last = Absent
      BY <1>3, <1>9 DEF Round, OfThisChange
    <2>2. ASSUME NEW k \in Link, NEW i \in DOMAIN link'[k]
          PROVE  link'[k][i] \in [hash : Spreading, content : Spreading]
      <3>1. \A j \in DOMAIN link[k] : link[k][j] \in [hash : Spreading, content : Spreading]
        BY DEF Round, OfThisChange
      <3>2. CASE k = l
        BY <1>8, <2>2, <3>1, <3>2
      <3>3. CASE k # l
        BY <1>8, <2>2, <3>1, <3>3
      <3> QED
        BY <3>2, <3>3
    <2>3. ASSUME NEW k \in Link
          PROVE  /\ recv'[k].pc # "orphan"
                 /\ recv'[k].pc # "idle" => recv'[k].msg.hash \in Spreading /\ recv'[k].msg.content = last
                 /\ recv'[k].pc \in {"empty", "fill", "times"} => last # Absent
      BY <1>3, <1>5, <1>6 DEF Round, OfThisChange, Deletion
    <2> QED
      BY <1>2, <1>3, <2>1, <2>2, <2>3 DEF Round, OfThisChange
  <1>14. ASSUME NEW k \in Device PROVE DiskInv(k)' /\ LatestInv(k)'
    <2>1. CASE k = l[2]
      <3>1. DiskInv(k)'
        BY <1>4, <1>12, <2>1, DataAssumption DEF DiskInv
      <3>2. LatestInv(k)'
        BY <1>2, <1>7, <1>9, <2>1 DEF Round, LatestInv
      <3> QED
        BY <3>1, <3>2
    <2>2. CASE k # l[2]
      <3>1. DiskInv(k)'
        BY <1>1, <1>2, <1>4, <1>6, <1>7, <1>9, <1>10, <2>2 DEF Round, DiskInv
      <3>2. LatestInv(k)'
        BY <1>2, <1>7, <1>9, <2>2 DEF Round, LatestInv
      <3> QED
        BY <3>1, <3>2
    <2> QED
      BY <2>1, <2>2
  <1>15. ASSUME NEW k \in Link
         PROVE  recv'[k].pc # "idle" => recv'[k].msg.hash = last
    BY <1>3, <1>6 DEF Round, OfThisChange, Deletion
  <1>16. ASSUME NEW k \in Link PROVE LinkInv(k)'
    <2>1. WillAnnounce(k[1])' \/ link'[k] = <<>> \/ link'[k][Len(link'[k])] = News
      BY <1>1, <1>2, <1>8, <1>11 DEF Round, LinkInv
    <2> QED
      BY <1>2, <1>15, <2>1 DEF LinkInv, News
  <1>17. ASSUME NEW k \in Device, (Untouched(k) \/ row[k] # last)' PROVE Due(k)'
    <2>1. CASE k = l[2]
      BY <1>2, <1>6, <1>15, <2>1 DEF Due
    <2>2. CASE k # l[2]
      <3>1. Due(k)
        BY <1>2, <1>10, <1>17, <2>2 DEF Round
      <3>2. \A j \in Link : j[2] = k => recv'[j] = recv[j] /\ (WillSend(j) => WillSend(j)')
        BY <1>1, <1>6, <1>8, <1>11, <2>2 DEF WillSend
      <3> QED
        BY <1>2, <1>9, <2>2, <3>1, <3>2 DEF Due
    <2> QED
      BY <2>1, <2>2
  <1> QED
    BY <1>13, <1>14, <1>16, <1>17 DEF Round

\* The row takes the hash of the message.  When it is not the news, those are
\* still to come.
LEMMA RoundRecord ==
    ASSUME TypeOK, Round, NEW l \in Link, Record(l)
    PROVE  Round'
  <1>1. l[2] \in Device /\ \A k \in Link : k[1] \in Device /\ k[2] \in Device
    BY DEF Link
  <1>2. /\ recv[l].pc = "record" /\ row' = [row EXCEPT ![l[2]] = recv[l].msg.hash]
        /\ UNCHANGED <<disk, raw, events, announcing, link, last>>
    BY DEF Record
  <1>3. /\ row'[l[2]] = recv[l].msg.hash
        /\ \A k \in Device : k # l[2] => row'[k] = row[k]
    BY <1>1, <1>2 DEF TypeOK
  <1>4. /\ recv'[l] = Idle /\ recv'[l].pc = "idle"
        /\ \A k \in Link : k # l => recv'[k] = recv[k]
    BY DEF Record, TypeOK, Idle
  <1>5. ~Untouched(l[2])
    BY <1>1, <1>2 DEF Round, DiskInv
  <1>6. Spreading' = Spreading /\ \A k \in Device : Filling(k)' = Filling(k) /\ Untouched(k)' = Untouched(k)
    <2>1. \A k \in Link : recv'[k].pc = "fill" <=> recv[k].pc = "fill"
      BY <1>2, <1>4
    <2> QED
      BY <1>2, <2>1 DEF Spreading, Filling, Untouched
  <1>7. \A k \in Device : WillAnnounce(k)' <=> WillAnnounce(k)
    BY <1>2, <1>6 DEF WillAnnounce
  <1>8. \A k \in Link : WillSend(k)' <=> WillSend(k)
    BY <1>1, <1>2, <1>7 DEF WillSend
  <1>9. OfThisChange'
    <2>1. ASSUME NEW k \in Link
          PROVE  /\ recv'[k].pc # "orphan"
                 /\ recv'[k].pc # "idle" => recv'[k].msg.hash \in Spreading /\ recv'[k].msg.content = last
                 /\ recv'[k].pc \in {"empty", "fill", "times"} => last # Absent
      BY <1>4 DEF Round, OfThisChange
    <2> QED
      BY <1>2, <1>6, <2>1 DEF Round, OfThisChange
  <1>10. ASSUME NEW k \in Device PROVE DiskInv(k)' /\ LatestInv(k)'
    <2>1. DiskInv(k)'
      BY <1>2, <1>3, <1>4, <1>5, <1>6 DEF Round, DiskInv
    <2>2. LatestInv(k)'
      BY <1>2, <1>6 DEF Round, LatestInv
    <2> QED
      BY <2>1, <2>2
  <1>11. ASSUME NEW k \in Link PROVE LinkInv(k)'
    <2>1. WillAnnounce(k[1])' \/ link'[k] = <<>> \/ link'[k][Len(link'[k])] = News
      BY <1>1, <1>2, <1>7 DEF Round, LinkInv
    <2>2. recv'[k].pc # "idle" /\ recv'[k].msg.hash # last => WillSend(k)'
      BY <1>4, <1>8 DEF Round, LinkInv
    <2> QED
      BY <1>2, <2>1, <2>2 DEF LinkInv, News
  <1>12. ASSUME NEW k \in Device, (Untouched(k) \/ row[k] # last)' PROVE Due(k)'
    <2>1. CASE k = l[2]
      <3>1. recv[l].msg.hash # last
        BY <1>2, <1>3, <1>5, <1>6, <1>12, <2>1
      <3>2. WillSend(l)'
        BY <1>2, <1>8, <3>1 DEF Round, LinkInv
      <3> QED
        BY <2>1, <3>2 DEF Due
    <2>2. CASE k # l[2]
      <3>1. Due(k)
        BY <1>2, <1>3, <1>6, <1>12, <2>2 DEF Round
      <3> QED
        BY <1>2, <1>4, <1>8, <2>2, <3>1 DEF Due
    <2> QED
      BY <2>1, <2>2
  <1> QED
    BY <1>9, <1>10, <1>11, <1>12 DEF Round

LEMMA SpreadStep == TypeOK /\ SpreadInv /\ [Next]_vars => SpreadInv'
  <1> SUFFICES ASSUME TypeOK, SpreadInv, [Next]_vars, ~crossed', ~lost' PROVE Round'
    BY DEF SpreadInv
  <1>1. CASE UNCHANGED vars
    <2>1. UNCHANGED <<disk, row, raw, events, announcing, link, recv, last, crossed, lost>>
      BY <1>1 DEF vars
    <2>2. Round
      BY <2>1 DEF SpreadInv
    <2> QED
      BY <2>1, <2>2 DEF Round, OfThisChange, DiskInv, LatestInv, LinkInv, Due, WillSend,
         WillAnnounce, Filling, Untouched, Spreading, News
  <1>2. CASE User
    <2>1. PICK n \in Device : UserRemoves(n) \/ \E c \in Content : UserWrites(n, c)
      BY <1>2 DEF User
    <2>2. ~crossed /\ Quiet
      BY <2>1 DEF UserRemoves, UserWrites, UserStep
    <2>3. ~lost
      BY <2>1 DEF UserRemoves, UserWrites, Raise
    <2> QED
      BY <1>2, <2>2, <2>3, RoundUser DEF SpreadInv
  <1>3. CASE ~User /\ Next
    <2>1. ~crossed /\ ~lost
      <3>1. ASSUME NEW n \in Device, Watch(n) \/ SyncLoop(n) PROVE ~crossed /\ ~lost
        <4>1. CASE Watch(n)
          BY <4>1 DEF Watch
        <4>2. CASE Store(n)
          BY <4>2 DEF Store
        <4>3. CASE Announce(n)
          BY <4>3 DEF Announce
        <4> QED
          BY <3>1, <4>1, <4>2, <4>3 DEF SyncLoop
      <3>2. ASSUME NEW l \in Link, Receiver(l) PROVE ~crossed /\ ~lost
        <4>1. CASE ReceiveUpdate(l) \/ Record(l)
          BY <4>1 DEF ReceiveUpdate, Record
        <4>2. CASE EmptyFile(l) \/ FillFile(l)
          <5>1. crossed' = crossed /\ (Raise(l[2], "change") \/ lost' = lost)
            BY <4>2 DEF EmptyFile, FillFile
          <5>2. Raise(l[2], "change") => ~lost
            BY DEF Raise
          <5>3. lost' = lost => ~lost
            OBVIOUS
          <5> QED
            BY <5>1, <5>2, <5>3
        <4>3. CASE SetTimes(l)
          BY <4>3 DEF SetTimes, Raise
        <4>4. CASE ReceiveDelete(l)
          BY <4>4 DEF ReceiveDelete, Raise
        <4> QED
          BY <3>2, <4>1, <4>2, <4>3, <4>4 DEF Receiver
      <3> QED
        BY <1>3, <3>1, <3>2 DEF Next
    <2>2. Round
      BY <2>1 DEF SpreadInv
    <2> QED
      BY <1>3, <2>2, RoundWatch, RoundStore, RoundAnnounce, RoundReceiveUpdate, RoundWrite,
         RoundReceiveDelete, RoundRecord DEF Next, SyncLoop, Receiver
  <1> QED
    BY <1>1, <1>2, <1>3

\* From a change made at rest until the next rest, whatever is on its way is of
\* that change, and everybody who does not have it will hear of it, for any
\* number of devices, each connected with every other (sync.go:93-220).
THEOREM SpreadCorrect == Spec => []SpreadInv
  <1>1. Init => SpreadInv
    BY RoundInit DEF SpreadInv
  <1> QED
    BY <1>1, SpreadTypeCorrect, SpreadStep, PTL DEF Spec

\* A change made at rest has reached every disk and every index at the next
\* rest, unless a queue overflowed (sync.go:93-152, 177-220).
THEOREM ChangeSpreadsCorrect == Spec => []ChangeSpreads
  <1>1. TypeOK /\ SpreadInv => ChangeSpreads
    BY QuietAgrees DEF ChangeSpreads, SpreadInv
  <1> QED
    BY <1>1, SpreadTypeCorrect, SpreadCorrect, PTL
=============================================================================
