------------------------- MODULE PeerChannels_proofs -------------------------
(***************************************************************************)
(* Proofs about PeerChannels, for every set of connections and keys, every *)
(* capacity of SendCh and every number of broadcasts and requests.         *)
(***************************************************************************)
EXTENDS PeerChannels, TLAPS, SequenceTheorems

-----------------------------------------------------------------------------
(* Type correctness.                                                       *)

\* Functions: an update within the range keeps the type.
LEMMA UpdateType ==
    ASSUME NEW S, NEW T, NEW f \in [S -> T], NEW x \in S, NEW v \in T
    PROVE  /\ [f EXCEPT ![x] = v] \in [S -> T]
           /\ [f EXCEPT ![x] = v][x] = v
           /\ \A y \in S : y # x => [f EXCEPT ![x] = v][y] = f[y]
  OBVIOUS

\* Queues of messages: appending, and taking the first.
LEMMA QueueType ==
    ASSUME NEW q \in Seq(Msg)
    PROVE  /\ \A m \in Msg : Append(q, m) \in Seq(Msg) /\ Len(Append(q, m)) = Len(q) + 1
           /\ q # <<>> => /\ Head(q) \in Msg /\ Tail(q) \in Seq(Msg)
                          /\ Len(Tail(q)) = Len(q) - 1
           /\ Len(q) \in Nat
  OBVIOUS

LEMMA TypeInit == Init => TypeOK
  BY PeerAssumption DEF Init, TypeOK

\* A send that does not block keeps every buffer within its capacity.
LEMMA TypeTrySend ==
    ASSUME TypeOK, NEW c \in Conn, NEW m \in Msg,
           NEW who \in {"cast", "reply"}, TrySend(c, m, who)
    PROVE  /\ chan' \in [Conn -> Seq(Msg)] /\ \A d \in Conn : Len(chan'[d]) <= SendCap
           /\ died' \in {"no", "cast", "reply", "close", "map"}
  <1>1. CASE c \in closed
    BY <1>1 DEF TypeOK, TrySend
  <1>2. CASE c \notin closed /\ Len(chan[c]) < SendCap
    <2>1. chan[c] \in Seq(Msg)
      BY DEF TypeOK
    <2>2. Append(chan[c], m) \in Seq(Msg) /\ Len(Append(chan[c], m)) <= SendCap
      BY <1>2, <2>1, QueueType, PeerAssumption
    <2>3. chan' = [chan EXCEPT ![c] = Append(chan[c], m)] /\ died' = died
      BY <1>2 DEF TrySend
    <2> QED
      BY <2>2, <2>3 DEF TypeOK
  <1>3. CASE c \notin closed /\ ~(Len(chan[c]) < SendCap)
    BY <1>3 DEF TypeOK, TrySend
  <1> QED
    BY <1>1, <1>2, <1>3

LEMMA TypeReceiver == ASSUME TypeOK, NEW c \in Conn, Connect(c) \/ Receiver(c) PROVE TypeOK'
  <1> USE PeerAssumption
  <1>1. CASE Connect(c)
    BY <1>1 DEF TypeOK, Connect
  <1>2. CASE ReadRequest(c)
    BY <1>2 DEF TypeOK, ReadRequest, castVars
  <1>3. CASE Reply(c)
    <2>1. recvPeer[c] \in Conn /\ Answer \in Msg
      BY <1>3 DEF TypeOK, Reply, Msg
    <2>2. /\ chan' \in [Conn -> Seq(Msg)] /\ \A d \in Conn : Len(chan'[d]) <= SendCap
          /\ died' \in {"no", "cast", "reply", "close", "map"}
      BY <1>3, <2>1, TypeTrySend DEF Reply
    <2> QED
      BY <1>3, <2>2 DEF TypeOK, Reply, castVars
  <1>4. CASE ReadFails(c)
    <2>1. peers[IdOf[c]] \in Conn \cup {None}
      BY DEF TypeOK
    <2>2. CASE peers[IdOf[c]] = None
      <3>1. /\ recvPc' = [recvPc EXCEPT ![c] = "done"]
            /\ sock' = [sock EXCEPT ![c] = "closed"] /\ recvPeer' = recvPeer
        BY <1>4, <2>2 DEF ReadFails
      <3> QED
        BY <1>4, <3>1 DEF TypeOK, ReadFails, castVars
    <2>3. CASE peers[IdOf[c]] # None
      <3>1. /\ recvPc' = [recvPc EXCEPT ![c] = "close"]
            /\ recvPeer' = [recvPeer EXCEPT ![c] = peers[IdOf[c]]] /\ sock' = sock
        BY <1>4, <2>3 DEF ReadFails
      <3> QED
        BY <1>4, <2>1, <2>3, <3>1 DEF TypeOK, ReadFails, castVars
    <2> QED
      BY <2>2, <2>3
  <1>5. CASE RemoveClose(c)
    <2>1. recvPeer[c] \in Conn
      BY <1>5 DEF TypeOK, RemoveClose
    <2>2. CASE recvPeer[c] \in closed
      BY <1>5, <2>2 DEF TypeOK, RemoveClose, castVars
    <2>3. CASE recvPeer[c] \notin closed
      <3>1. closed' \subseteq Conn /\ died' = died
        BY <1>5, <2>1, <2>3 DEF TypeOK, RemoveClose
      <3>2. recvPc' = [recvPc EXCEPT ![c] = "delete"]
        BY <1>5, <2>3 DEF RemoveClose
      <3> QED
        BY <1>5, <2>1, <3>1, <3>2 DEF TypeOK, RemoveClose, castVars
    <2> QED
      BY <2>2, <2>3
  <1>6. CASE RemoveDelete(c)
    BY <1>6 DEF TypeOK, RemoveDelete, castVars
  <1> QED
    BY <1>1, <1>2, <1>3, <1>4, <1>5, <1>6 DEF Receiver

LEMMA TypeSender == ASSUME TypeOK, NEW c \in Conn, Sender(c) PROVE TypeOK'
  <1> USE PeerAssumption
  <1>1. CASE SenderTake(c)
    <2>1. chan[c] \in Seq(Msg) /\ Len(chan[c]) <= SendCap /\ chan[c] # <<>>
      BY <1>1 DEF TypeOK, SenderTake
    <2>2. /\ Head(chan[c]) \in Msg /\ Tail(chan[c]) \in Seq(Msg)
          /\ Len(Tail(chan[c])) <= SendCap
      BY <2>1, QueueType
    <2>3. Head(chan[c]) # None
      BY <2>2 DEF Msg, Answer
    <2> QED
      BY <1>1, <2>2, <2>3 DEF TypeOK, SenderTake, castVars
  <1>2. CASE SenderWrite(c)
    <2>1. inHand[c] \in Msg /\ wire[c] \in Seq(Msg)
      BY <1>2 DEF TypeOK, SenderWrite
    <2>2. Append(wire[c], inHand[c]) \in Seq(Msg)
      BY <2>1, QueueType
    <2>3. wire' \in [Conn -> Seq(Msg)]
      BY <1>2, <2>2 DEF TypeOK, SenderWrite
    <2>4. /\ sendPc' \in [Conn -> {"none", "select", "write", "exit"}]
          /\ sendPc'[c] # "write" /\ \A d \in Conn : d # c => sendPc'[d] = sendPc[d]
      BY <1>2 DEF TypeOK, SenderWrite
    <2>5. inHand' = [inHand EXCEPT ![c] = None]
      BY <1>2 DEF SenderWrite
    <2> QED
      BY <1>2, <2>3, <2>4, <2>5 DEF TypeOK, SenderWrite, castVars
  <1>3. CASE SenderCloses(c)
    BY <1>3 DEF TypeOK, SenderCloses, castVars
  <1>4. CASE SenderPingFails(c)
    BY <1>4 DEF TypeOK, SenderPingFails, castVars
  <1> QED
    BY <1>1, <1>2, <1>3, <1>4 DEF Sender

LEMMA TypeCast == ASSUME TypeOK, Cast \/ \E c \in Conn : MapRace(c) \/ Break(c) PROVE TypeOK'
  <1> USE PeerAssumption
  <1>1. CASE CastBegin
    BY <1>1 DEF TypeOK, CastBegin, connVars
  <1>2. ASSUME NEW i \in Id, CastNext(i) PROVE TypeOK'
    BY <1>2 DEF TypeOK, CastNext, connVars
  <1>3. CASE CastSend
    <2>1. castPeer \in Conn /\ made \in Msg
      BY <1>3 DEF TypeOK, CastSend, Msg, Answer
    <2>2. /\ chan' \in [Conn -> Seq(Msg)] /\ \A d \in Conn : Len(chan'[d]) <= SendCap
          /\ died' \in {"no", "cast", "reply", "close", "map"}
      BY <1>3, <2>1, TypeTrySend DEF CastSend
    <2> QED
      BY <1>3, <2>2 DEF TypeOK, CastSend, connVars
  <1>4. CASE CastEnd
    BY <1>4 DEF TypeOK, CastEnd, connVars
  <1>5. ASSUME NEW c \in Conn, MapRace(c) PROVE TypeOK'
    BY <1>5 DEF TypeOK, MapRace, connVars, castVars
  <1>6. ASSUME NEW c \in Conn, Break(c) PROVE TypeOK'
    BY <1>6 DEF TypeOK, Break, castVars
  <1> QED
    BY <1>1, <1>2, <1>3, <1>4, <1>5, <1>6 DEF Cast

\* Every state of the connections is well typed: no SendCh ever holds more
\* than its capacity, and a goroutine at work holds what it works on.
THEOREM ChannelsTypeCorrect == Spec => []TypeOK
  <1>1. TypeOK /\ [Next]_vars => TypeOK'
    <2>1. TypeOK /\ UNCHANGED vars => TypeOK'
      BY DEF TypeOK, vars
    <2> QED
      BY <2>1, TypeReceiver, TypeSender, TypeCast DEF Next
  <1> QED
    BY TypeInit, <1>1, PTL DEF Spec

-----------------------------------------------------------------------------
(* The life of a connection whose key is its own.                          *)

LEMMA LifeInit == Init => LifeInv
  BY DEF Init, LifeInv, OnlyTheWalkDies

LEMMA LifeReceiver ==
    ASSUME OwnIds, TypeOK, LifeInv, NEW c \in Conn, Connect(c) \/ Receiver(c)
    PROVE  LifeInv'
  <1> USE PeerAssumption
  <1>0. \A d \in Conn : d # c => IdOf[d] # IdOf[c]
    BY DEF OwnIds
  <1>1. CASE Connect(c)
    BY <1>0, <1>1 DEF TypeOK, LifeInv, OnlyTheWalkDies, Connect
  <1>2. CASE ReadRequest(c)
    BY <1>2 DEF TypeOK, LifeInv, OnlyTheWalkDies, ReadRequest, castVars
  <1>3. CASE Reply(c)
    <2>1. recvPeer[c] = c /\ c \notin closed
      BY <1>3 DEF LifeInv, Reply
    <2>2. UNCHANGED died
      BY <1>3, <2>1 DEF Reply, TrySend
    <2> QED
      BY <1>3, <2>2 DEF TypeOK, LifeInv, OnlyTheWalkDies, Reply, castVars
  <1>4. CASE ReadFails(c)
    <2>1. peers[IdOf[c]] = c /\ c # None
      BY <1>4 DEF LifeInv, ReadFails
    <2> QED
      BY <1>4, <2>1 DEF TypeOK, LifeInv, OnlyTheWalkDies, ReadFails, castVars
  <1>5. CASE RemoveClose(c)
    <2>1. recvPeer[c] = c /\ c \notin closed
      BY <1>5 DEF LifeInv, RemoveClose
    <2> QED
      BY <1>5, <2>1 DEF TypeOK, LifeInv, OnlyTheWalkDies, RemoveClose, castVars
  <1>6. CASE RemoveDelete(c)
    BY <1>0, <1>6 DEF TypeOK, LifeInv, OnlyTheWalkDies, RemoveDelete, castVars
  <1> QED
    BY <1>1, <1>2, <1>3, <1>4, <1>5, <1>6 DEF Receiver

LEMMA LifeOthers ==
    ASSUME LifeInv, \/ \E c \in Conn : Sender(c) \/ MapRace(c) \/ Break(c)
                    \/ Cast
                    \/ UNCHANGED vars
    PROVE  LifeInv'
  <1>1. UNCHANGED <<peers, closed, recvPc, recvPeer>>
    BY DEF Sender, SenderTake, SenderWrite, SenderCloses, SenderPingFails, MapRace, Break,
           Cast, CastBegin, CastNext, CastSend, CastEnd, connVars, castVars, vars
  <1>2. died' \in {died, "cast", "map"}
    BY DEF Sender, SenderTake, SenderWrite, SenderCloses, SenderPingFails, MapRace, Break,
           Cast, CastBegin, CastNext, CastSend, CastEnd, TrySend, connVars, castVars, vars
  <1> QED
    BY <1>1, <1>2 DEF LifeInv, OnlyTheWalkDies

\* While every connection has a key of its own, as the server gives them, a
\* connection is in the map under its key from AddPeer to RemovePeer, and
\* only its own receiver closes its channel.
THEOREM LifeCorrect == ASSUME OwnIds PROVE Spec => []LifeInv
  <1>1. TypeOK /\ LifeInv /\ [Next]_vars => LifeInv'
    BY LifeReceiver, LifeOthers DEF Next
  <1> QED
    BY LifeInit, ChannelsTypeCorrect, <1>1, PTL DEF Spec

\* Then a connection being read is registered, as itself.
THEOREM RegisteredCorrect == ASSUME OwnIds PROVE Spec => []ConnectedIsRegistered
  <1>1. LifeInv => ConnectedIsRegistered
    BY DEF LifeInv, ConnectedIsRegistered
  <1> QED
    BY LifeCorrect, <1>1, PTL

\* And no channel is closed twice, and no answer sent on a closed one.
THEOREM OnlyTheWalkDiesCorrect == ASSUME OwnIds PROVE Spec => []OnlyTheWalkDies
  <1>1. LifeInv => OnlyTheWalkDies
    BY DEF LifeInv
  <1> QED
    BY LifeCorrect, <1>1, PTL

-----------------------------------------------------------------------------
(* The order of broadcasts, whatever keys connections share.               *)

\* Broadcasts have increasing numbers; answers stand between them anywhere.
Ordered(q) == \A i, j \in DOMAIN q : i < j /\ Answer \notin {q[i], q[j]} => q[i] < q[j]

\* No message of q is from a broadcast after the n-th.
UpTo(q, n) == \A i \in DOMAIN q : q[i] <= n

\* The n-th broadcast is in q.
Has(q, n) == \E i \in DOMAIN q : q[i] = n

Hand(c) == IF inHand[c] = None THEN <<>> ELSE <<inHand[c]>>

\* Will the walk that is under way come to c?
Ahead(c) == IdOf[c] \in castLeft /\ peers[IdOf[c]] = c

-----------------------------------------------------------------------------
(* Queues.                                                                 *)

LEMMA OrderedAppend ==
    ASSUME NEW q \in Seq(Msg), NEW m \in Msg, NEW n \in Nat,
           Ordered(q), UpTo(q, n), m = Answer \/ (m = n /\ ~Has(q, n))
    PROVE  Ordered(Append(q, m)) /\ UpTo(Append(q, m), n)
           /\ (Has(Append(q, m), n) => Has(q, n) \/ m = n)
  <1> DEFINE r == Append(q, m)
  <1>0. \A i \in DOMAIN q : q[i] \in Nat
    BY PeerAssumption DEF Msg, Answer
  <1>1. /\ DOMAIN r = 1 .. Len(q) + 1 /\ DOMAIN q = 1 .. Len(q) /\ Len(q) \in Nat
        /\ r[Len(q) + 1] = m /\ \A i \in 1 .. Len(q) : r[i] = q[i]
    OBVIOUS
  <1> HIDE DEF r
  <1>2. Ordered(r)
    BY <1>0, <1>1 DEF Ordered, UpTo, Has, Answer
  <1>3. UpTo(r, n)
    BY <1>0, <1>1 DEF UpTo, Answer
  <1>4. Has(r, n) => Has(q, n) \/ m = n
    BY <1>1 DEF Has
  <1> QED
    BY <1>2, <1>3, <1>4 DEF r

\* A message that is lost between two others leaves the rest in order.
LEMMA OrderedDrop ==
    ASSUME NEW a \in Seq(Msg), NEW x \in Msg, NEW b \in Seq(Msg), NEW n \in Nat,
           Ordered(a \o <<x>> \o b), UpTo(a \o <<x>> \o b, n)
    PROVE  Ordered(a \o b) /\ UpTo(a \o b, n)
           /\ (Has(a \o b, n) => Has(a \o <<x>> \o b, n))
  <1> DEFINE q == a \o <<x>> \o b
             r == a \o b
             at(i) == IF i <= Len(a) THEN i ELSE i + 1
  <1>1. /\ DOMAIN r = 1 .. Len(a) + Len(b) /\ DOMAIN q = 1 .. Len(a) + Len(b) + 1
        /\ Len(a) \in Nat /\ Len(b) \in Nat
    OBVIOUS
  <1>2. \A i \in DOMAIN r : at(i) \in DOMAIN q /\ r[i] = q[at(i)]
    OBVIOUS
  <1>3. \A i, j \in DOMAIN r : i < j => at(i) < at(j)
    BY <1>1
  <1> HIDE DEF q, r, at
  <1>4. Ordered(r)
    BY <1>2, <1>3 DEF Ordered, q
  <1>5. UpTo(r, n) /\ (Has(r, n) => Has(q, n))
    BY <1>2 DEF UpTo, Has, q
  <1> QED
    BY <1>4, <1>5 DEF q, r

\* Three ways to write the same queue: with its last message appended, with
\* the first of its rest in hand, and with that one written.
LEMMA AppendLast ==
    ASSUME NEW a \in Seq(Msg), NEW b \in Seq(Msg), NEW m \in Msg
    PROVE  a \o Append(b, m) = Append(a \o b, m)
  <1>1. Append(b, m) = b \o <<m>> /\ <<m>> \in Seq(Msg)
    BY AppendIsConcat
  <1>2. a \o b \in Seq(Msg)
    BY ConcatProperties
  <1>3. Append(a \o b, m) = (a \o b) \o <<m>>
    BY <1>2, AppendIsConcat
  <1> QED
    BY <1>1, <1>3, ConcatAssociative

LEMMA FirstInHand ==
    ASSUME NEW a \in Seq(Msg), NEW b \in Seq(Msg), b # <<>>
    PROVE  a \o <<Head(b)>> \o Tail(b) = a \o <<>> \o b
  <1>1. Head(b) \in Msg /\ Tail(b) \in Seq(Msg) /\ <<Head(b)>> \in Seq(Msg)
    BY HeadTailProperties
  <1>2. <<Head(b)>> \o Tail(b) = b
    OBVIOUS
  <1>3. a \o <<>> = a
    BY ConcatEmptySeq
  <1> QED
    BY <1>1, <1>2, <1>3, ConcatAssociative

LEMMA HandWritten ==
    ASSUME NEW a \in Seq(Msg), NEW b \in Seq(Msg), NEW m \in Msg
    PROVE  Append(a, m) \o <<>> \o b = a \o <<m>> \o b
  <1>1. Append(a, m) = a \o <<m>> /\ Append(a, m) \in Seq(Msg)
    BY AppendIsConcat, AppendProperties
  <1> QED
    BY <1>1, ConcatEmptySeq

-----------------------------------------------------------------------------
(* The invariant.                                                          *)

\* A key leads only to a connection that has registered under it, and what
\* anybody sends to has registered; before that nothing is sent.
Registered ==
    /\ \A i \in Id, c \in Conn : peers[i] = c => i = IdOf[c] /\ recvPc[c] # "none"
    /\ \A c \in Conn : castPeer = c => recvPc[c] # "none"
    /\ \A c, d \in Conn : recvPeer[d] = c => recvPc[c] # "none"
    /\ \A c \in Conn : recvPc[c] = "none" => Outgoing(c) = <<>>

\* InOrder is not inductive, for it does not say that a walk sends to a
\* connection at most once: one that it sends to, or has sent to, is not
\* ahead of it, although its key may be, when another connection took it.
OrderInv ==
    /\ Registered
    /\ castPc # "idle" => made > 0
    /\ castPc # "send" => castPeer = None
    /\ \A c \in Conn : sendPc[c] # "write" => inHand[c] = None
    /\ \A c \in Conn :
          /\ Ordered(Outgoing(c)) /\ UpTo(Outgoing(c), made)
          /\ castPeer = c => ~Ahead(c) /\ ~Has(Outgoing(c), made)
          /\ castPc # "idle" /\ Has(Outgoing(c), made) => ~Ahead(c)

LEMMA OutgoingType == ASSUME TypeOK, NEW c \in Conn PROVE Outgoing(c) \in Seq(Msg)
  <1>1. wire[c] \in Seq(Msg) /\ chan[c] \in Seq(Msg) /\ Hand(c) \in Seq(Msg)
    BY DEF TypeOK, Hand
  <1> QED
    BY <1>1 DEF Outgoing, Hand

LEMMA OrderInit == Init => OrderInv
  <1> SUFFICES ASSUME Init PROVE OrderInv
    OBVIOUS
  <1>1. \A c \in Conn : Outgoing(c) = <<>>
    BY DEF Init, Outgoing
  <1> QED
    BY <1>1, PeerAssumption DEF Init, OrderInv, Registered, Ordered, UpTo, Has, Ahead

\* A send appends to the queue of its connection, or changes nothing.
LEMMA OutgoingTrySend ==
    ASSUME TypeOK, NEW c \in Conn, NEW m \in Msg, NEW who \in {"cast", "reply"},
           TrySend(c, m, who), UNCHANGED <<wire, inHand>>
    PROVE  /\ Outgoing(c)' \in {Outgoing(c), Append(Outgoing(c), m)}
           /\ \A d \in Conn : d # c => Outgoing(d)' = Outgoing(d)
  <1>1. wire[c] \in Seq(Msg) /\ chan[c] \in Seq(Msg) /\ Hand(c) \in Seq(Msg)
    BY DEF TypeOK, Hand
  <1>2. \A d \in Conn : d # c => Outgoing(d)' = Outgoing(d)
    BY DEF TypeOK, TrySend, Outgoing
  <1>3. CASE chan' = chan
    BY <1>2, <1>3 DEF Outgoing
  <1>4. CASE chan' = [chan EXCEPT ![c] = Append(chan[c], m)]
    <2>1. Outgoing(c)' = wire[c] \o Hand(c) \o Append(chan[c], m)
      BY <1>4 DEF TypeOK, Outgoing, Hand
    <2>2. wire[c] \o Hand(c) \o Append(chan[c], m) = Append(wire[c] \o Hand(c) \o chan[c], m)
      BY <1>1, AppendLast, ConcatProperties
    <2> QED
      BY <1>2, <2>1, <2>2 DEF Outgoing, Hand
  <1> QED
    BY <1>3, <1>4 DEF TrySend

\* The sender takes a message and writes it: its queue stays what it is, or
\* loses the message.
LEMMA OutgoingSender ==
    ASSUME TypeOK, NEW c \in Conn, Sender(c), sendPc[c] # "write" => inHand[c] = None,
           NEW d \in Conn, NEW n \in Nat, Ordered(Outgoing(d)), UpTo(Outgoing(d), n)
    PROVE  /\ Ordered(Outgoing(d)') /\ UpTo(Outgoing(d)', n)
           /\ Has(Outgoing(d)', n) => Has(Outgoing(d), n)
           /\ Outgoing(d) = <<>> => Outgoing(d)' = <<>>
  <1>1. wire[c] \in Seq(Msg) /\ chan[c] \in Seq(Msg)
    BY DEF TypeOK
  <1>2. CASE Outgoing(d)' = Outgoing(d)
    BY <1>2
  <1>3. CASE d # c
    <2>1. wire'[d] = wire[d] /\ inHand'[d] = inHand[d] /\ chan'[d] = chan[d]
      BY <1>3 DEF TypeOK, Sender, SenderTake, SenderWrite, SenderCloses, SenderPingFails
    <2> QED
      BY <1>2, <2>1 DEF Outgoing
  <1>4. CASE SenderTake(c) /\ d = c
    <2>1. chan[c] # <<>> /\ Head(chan[c]) \in Msg /\ inHand[c] = None
      BY <1>1, <1>4, QueueType DEF SenderTake
    <2>2. Head(chan[c]) # None
      BY <2>1, PeerAssumption DEF Msg, Answer
    <2>3. Outgoing(c)' = wire[c] \o <<Head(chan[c])>> \o Tail(chan[c])
      BY <1>4, <2>2 DEF TypeOK, SenderTake, Outgoing
    <2>4. Outgoing(c) = wire[c] \o <<>> \o chan[c]
      BY <2>1 DEF Outgoing
    <2> QED
      BY <1>1, <1>2, <1>4, <2>1, <2>3, <2>4, FirstInHand
  <1>5. CASE SenderWrite(c) /\ d = c
    <2>1. inHand[c] \in Msg /\ inHand[c] # None
      BY <1>5 DEF TypeOK, SenderWrite
    <2>2. Outgoing(c) = wire[c] \o <<inHand[c]>> \o chan[c]
      BY <2>1 DEF Outgoing
    <2>3. inHand'[c] = None /\ chan'[c] = chan[c]
      BY <1>5 DEF TypeOK, SenderWrite
    <2>4. CASE wire'[c] = Append(wire[c], inHand[c])
      <3>1. Outgoing(c)' = Append(wire[c], inHand[c]) \o <<>> \o chan[c]
        BY <2>3, <2>4 DEF Outgoing
      <3> QED
        BY <1>1, <1>2, <1>5, <2>1, <2>2, <3>1, HandWritten
    <2>5. CASE wire'[c] = wire[c]
      <3>1. Outgoing(c)' = wire[c] \o chan[c]
        BY <1>1, <2>3, <2>5, ConcatEmptySeq DEF Outgoing
      <3>2. Outgoing(c) # <<>>
        BY <1>1, <2>1, <2>2
      <3> QED
        BY <1>1, <1>5, <2>1, <2>2, <3>1, <3>2, OrderedDrop
    <2> QED
      BY <1>5, <2>4, <2>5 DEF TypeOK, SenderWrite
  <1>6. CASE SenderCloses(c) \/ SenderPingFails(c)
    BY <1>2, <1>6 DEF SenderCloses, SenderPingFails, Outgoing
  <1> QED
    BY <1>3, <1>4, <1>5, <1>6 DEF Sender

-----------------------------------------------------------------------------
(* The steps.                                                              *)

\* Most steps leave all queues alone.
LEMMA SameOutgoing ==
    ASSUME UNCHANGED <<wire, inHand, chan>>
    PROVE  \A c \in Conn : Outgoing(c)' = Outgoing(c)
  BY DEF Outgoing

LEMMA OrderReceiver ==
    ASSUME TypeOK, OrderInv, NEW c \in Conn, Connect(c) \/ Receiver(c)
    PROVE  OrderInv'
  <1> USE PeerAssumption
  <1>0. made \in Nat /\ IdOf[c] \in Id
    BY DEF TypeOK
  <1>1. CASE Connect(c)
    <2>1. \A d \in Conn : Outgoing(d)' = Outgoing(d)
      BY <1>1, SameOutgoing DEF Connect
    <2>2. Outgoing(c) = <<>> /\ castPeer # c
      BY <1>1 DEF OrderInv, Registered, Connect
    <2>3. ~Has(Outgoing(c), made)
      BY <2>2 DEF Has
    <2>4. \A d \in Conn : d # c /\ ~Ahead(d) => ~Ahead(d)'
      BY <1>0, <1>1 DEF TypeOK, Connect, Ahead
    <2>5. Registered'
      BY <1>1, <2>1 DEF TypeOK, OrderInv, Registered, Connect
    <2>6. UNCHANGED <<made, castPc, castPeer, inHand>> /\ sendPc' = [sendPc EXCEPT ![c] = "select"]
      BY <1>1 DEF Connect
    <2>7. inHand[c] = None
      BY <2>2 DEF Outgoing
    <2> QED
      BY <2>1, <2>2, <2>3, <2>4, <2>5, <2>6, <2>7 DEF OrderInv, TypeOK
  <1>2. CASE ReadRequest(c) \/ ReadFails(c) \/ RemoveClose(c)
    <2>1. \A d \in Conn : Outgoing(d)' = Outgoing(d)
      BY <1>2, SameOutgoing DEF ReadRequest, ReadFails, RemoveClose
    <2>2. UNCHANGED <<made, castPc, castPeer, castLeft, peers, inHand, sendPc>>
      BY <1>2 DEF ReadRequest, ReadFails, RemoveClose, castVars
    <2>3. Registered'
      <3>1. \A d \in Conn : recvPc'[d] = "none" <=> recvPc[d] = "none"
        BY <1>2 DEF TypeOK, ReadRequest, ReadFails, RemoveClose
      <3>2. \A d, e \in Conn : recvPeer'[e] = d => recvPeer[e] = d \/ peers[IdOf[c]] = d
        BY <1>2 DEF TypeOK, ReadRequest, ReadFails, RemoveClose
      <3> QED
        BY <1>0, <2>1, <2>2, <3>1, <3>2 DEF OrderInv, Registered
    <2> QED
      BY <2>1, <2>2, <2>3 DEF OrderInv, Ahead
  <1>3. CASE RemoveDelete(c)
    <2>1. \A d \in Conn : Outgoing(d)' = Outgoing(d)
      BY <1>3, SameOutgoing DEF RemoveDelete
    <2>2. UNCHANGED <<made, castPc, castPeer, castLeft, inHand, sendPc>>
      BY <1>3 DEF RemoveDelete, castVars
    <2>3. Registered'
      BY <1>0, <1>3, <2>1 DEF TypeOK, OrderInv, Registered, RemoveDelete, castVars
    <2>4. \A d \in Conn : Ahead(d)' => Ahead(d)
      BY <1>0, <1>3 DEF TypeOK, RemoveDelete, Ahead, castVars
    <2> QED
      BY <2>1, <2>2, <2>3, <2>4 DEF OrderInv
  <1>4. CASE Reply(c)
    <2> PICK p \in Conn : p = recvPeer[c]
      BY <1>4 DEF TypeOK, Reply
    <2>1. Answer \in Msg /\ TrySend(p, Answer, "reply") /\ UNCHANGED <<wire, inHand>>
      BY <1>4 DEF Reply, Msg
    <2>2. /\ Outgoing(p)' \in {Outgoing(p), Append(Outgoing(p), Answer)}
          /\ \A d \in Conn : d # p => Outgoing(d)' = Outgoing(d)
      BY <2>1, OutgoingTrySend
    <2>3. UNCHANGED <<made, castPc, castPeer, castLeft, peers, inHand, sendPc>>
      BY <1>4 DEF Reply, castVars
    <2>4. Registered'
      BY <1>4, <2>2 DEF TypeOK, OrderInv, Registered, Reply, castVars
    <2>5. /\ Ordered(Outgoing(p)') /\ UpTo(Outgoing(p)', made)
          /\ made > 0 => (Has(Outgoing(p)', made) => Has(Outgoing(p), made))
      <3>1. Outgoing(p) \in Seq(Msg) /\ Ordered(Outgoing(p)) /\ UpTo(Outgoing(p), made)
        BY OutgoingType DEF OrderInv
      <3>2. /\ Ordered(Append(Outgoing(p), Answer)) /\ UpTo(Append(Outgoing(p), Answer), made)
            /\ Has(Append(Outgoing(p), Answer), made) => Has(Outgoing(p), made) \/ Answer = made
        BY <1>0, <2>1, <3>1, OrderedAppend
      <3>3. made > 0 => Answer # made
        BY <1>0 DEF Answer
      <3> QED
        BY <2>2, <3>1, <3>2, <3>3
    <2>6. \A d \in Conn : castPeer = d => castPc # "idle"
      BY DEF OrderInv
    <2> QED
      BY <2>1, <2>2, <2>3, <2>4, <2>5, <2>6 DEF OrderInv, Ahead
  <1> QED
    BY <1>1, <1>2, <1>3, <1>4 DEF Receiver

LEMMA OrderSender == ASSUME TypeOK, OrderInv, NEW c \in Conn, Sender(c) PROVE OrderInv'
  <1>1. UNCHANGED <<peers, castPc, castPeer, castLeft, made, recvPc, recvPeer>>
    BY DEF Sender, SenderTake, SenderWrite, SenderCloses, SenderPingFails, castVars
  <1>2. made \in Nat
    BY DEF TypeOK
  <1>3. \A d \in Conn :
            /\ Ordered(Outgoing(d)') /\ UpTo(Outgoing(d)', made)
            /\ Has(Outgoing(d)', made) => Has(Outgoing(d), made)
            /\ Outgoing(d) = <<>> => Outgoing(d)' = <<>>
    BY <1>2, OutgoingSender DEF OrderInv
  <1>4. Registered'
    BY <1>1, <1>3 DEF OrderInv, Registered
  <1>5. \A d \in Conn : sendPc'[d] # "write" => inHand'[d] = None
    BY DEF TypeOK, OrderInv, Sender, SenderTake, SenderWrite, SenderCloses, SenderPingFails
  <1> QED
    BY <1>1, <1>3, <1>4, <1>5 DEF OrderInv, Ahead

LEMMA OrderCast ==
    ASSUME TypeOK, OrderInv, Cast \/ \E c \in Conn : MapRace(c) \/ Break(c)
    PROVE  OrderInv'
  <1> USE PeerAssumption
  <1>0. made \in Nat /\ castPeer \in Conn \cup {None}
    BY DEF TypeOK
  <1>1. CASE CastBegin
    <2>1. \A d \in Conn : Outgoing(d)' = Outgoing(d)
      BY <1>1, SameOutgoing DEF CastBegin, connVars
    <2>2. \A d \in Conn : Outgoing(d) \in Seq(Msg) /\ UpTo(Outgoing(d), made)
      BY OutgoingType DEF OrderInv
    <2>3. \A d \in Conn : UpTo(Outgoing(d), made + 1) /\ ~Has(Outgoing(d), made + 1)
      <3>1. \A d \in Conn : \A i \in DOMAIN Outgoing(d) : Outgoing(d)[i] \in Nat
        BY <2>2 DEF Msg, Answer
      <3> QED
        BY <1>0, <2>2, <3>1 DEF UpTo, Has
    <2>4. UNCHANGED <<peers, castPeer, recvPc, recvPeer, sendPc, inHand>>
          /\ made' = made + 1 /\ castPc = "idle" /\ castPc' = "next"
      BY <1>1 DEF CastBegin, connVars
    <2>5. Registered' /\ castPeer = None
      BY <2>1, <2>4 DEF OrderInv, Registered
    <2> QED
      BY <1>0, <2>1, <2>3, <2>4, <2>5 DEF OrderInv
  <1>2. ASSUME NEW i \in Id, CastNext(i) PROVE OrderInv'
    <2>1. \A d \in Conn : Outgoing(d)' = Outgoing(d)
      BY <1>2, SameOutgoing DEF CastNext, connVars
    <2>2. UNCHANGED <<peers, made, recvPc, recvPeer, sendPc, inHand>>
          /\ castLeft' = castLeft \ {i} /\ castPc = "next" /\ i \in castLeft
      BY <1>2 DEF CastNext, connVars
    <2>3. \A d \in Conn : Ahead(d)' => Ahead(d)
      BY <2>2 DEF Ahead
    <2>4. CASE peers[i] = None
      <3>1. castPc' = castPc /\ castPeer' = castPeer
        BY <1>2, <2>4 DEF CastNext
      <3> QED
        BY <2>1, <2>2, <2>3, <3>1 DEF OrderInv, Registered
    <2>5. CASE peers[i] # None
      <3>1. castPc' = "send" /\ castPeer' = peers[i]
        BY <1>2, <2>5 DEF CastNext
      <3>2. \A d \in Conn : castPeer' = d => i = IdOf[d] /\ recvPc[d] # "none" /\ Ahead(d) /\ ~Ahead(d)'
        BY <2>2, <3>1 DEF OrderInv, Registered, Ahead
      <3>3. Registered'
        BY <2>1, <2>2, <3>2 DEF OrderInv, Registered
      <3> QED
        BY <2>1, <2>2, <2>3, <3>1, <3>2, <3>3 DEF OrderInv
    <2> QED
      BY <2>4, <2>5
  <1>3. CASE CastSend
    <2> PICK p \in Conn : p = castPeer
      BY <1>3 DEF TypeOK, CastSend
    <2> PICK m \in Msg : m = made /\ m > 0
      BY <1>3 DEF TypeOK, OrderInv, CastSend, Msg, Answer
    <2>1. TrySend(p, m, "cast") /\ UNCHANGED <<wire, inHand>>
      BY <1>3 DEF CastSend, connVars
    <2>2. /\ Outgoing(p)' \in {Outgoing(p), Append(Outgoing(p), m)}
          /\ \A d \in Conn : d # p => Outgoing(d)' = Outgoing(d)
      BY <2>1, OutgoingTrySend
    <2>3. UNCHANGED <<peers, castLeft, made, recvPc, recvPeer, sendPc, inHand>>
          /\ castPeer' = None /\ castPc' = "next" /\ castPc = "send"
      BY <1>3 DEF CastSend, connVars
    <2>4. ~Ahead(p) /\ ~Has(Outgoing(p), made) /\ recvPc[p] # "none"
      BY DEF OrderInv, Registered
    <2>5. Ordered(Outgoing(p)') /\ UpTo(Outgoing(p)', made)
      <3>1. Outgoing(p) \in Seq(Msg) /\ Ordered(Outgoing(p)) /\ UpTo(Outgoing(p), made)
        BY OutgoingType DEF OrderInv
      <3>2. Ordered(Append(Outgoing(p), m)) /\ UpTo(Append(Outgoing(p), m), made)
        BY <1>0, <2>4, <3>1, OrderedAppend
      <3> QED
        BY <2>2, <3>1, <3>2
    <2>6. Registered'
      BY <2>2, <2>3, <2>4 DEF OrderInv, Registered
    <2> QED
      BY <2>2, <2>3, <2>4, <2>5, <2>6 DEF OrderInv, Ahead
  <1>4. CASE CastEnd
    <2>1. \A d \in Conn : Outgoing(d)' = Outgoing(d)
      BY <1>4, SameOutgoing DEF CastEnd, connVars
    <2> QED
      BY <1>4, <2>1 DEF OrderInv, Registered, Ahead, CastEnd, connVars
  <1>5. ASSUME NEW c \in Conn, MapRace(c) \/ Break(c) PROVE OrderInv'
    <2>1. \A d \in Conn : Outgoing(d)' = Outgoing(d)
      BY <1>5, SameOutgoing DEF MapRace, Break, connVars
    <2>2. UNCHANGED <<peers, castPc, castPeer, castLeft, made, recvPc, recvPeer, sendPc, inHand>>
      BY <1>5 DEF MapRace, Break, connVars, castVars
    <2> QED
      BY <2>1, <2>2 DEF OrderInv, Registered, Ahead
  <1> QED
    BY <1>1, <1>2, <1>3, <1>4, <1>5 DEF Cast

LEMMA OrderStep == TypeOK /\ OrderInv /\ [Next]_vars => OrderInv'
  <1>1. ASSUME OrderInv, UNCHANGED vars PROVE OrderInv'
    <2>1. \A d \in Conn : Outgoing(d)' = Outgoing(d)
      BY <1>1, SameOutgoing DEF vars
    <2> QED
      BY <1>1, <2>1 DEF vars, OrderInv, Registered, Ahead
  <1> QED
    BY <1>1, OrderReceiver, OrderSender, OrderCast DEF Next

\* The broadcasts that a peer gets, and will get, are in the order in which
\* they were made, and none comes twice, also when connections share a key
\* and replace each other in the map during a walk (sync.go:144-152,
\* network.go:100-109).
THEOREM InOrderCorrect == Spec => []InOrder
  <1>1. OrderInv => InOrder
    BY DEF OrderInv, InOrder, Ordered
  <1> QED
    BY OrderInit, OrderStep, ChannelsTypeCorrect, <1>1, PTL DEF Spec
=============================================================================
