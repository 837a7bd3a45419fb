-------------------------- MODULE MultiDevice_proofs --------------------------
(***************************************************************************)
(* Proofs about MultiDevice and the PeerNetwork under it, for any devices, *)
(* addresses they can dial, stops, breaks, contents and bounds.            *)
(***************************************************************************)
EXTENDS MultiDevice, TLAPS

-----------------------------------------------------------------------------
(* The parts of messages and readers.                                      *)

Reader ==
    [pc : {"decode", "work", "done"}] \cup [pc : {"handle", "wait"}, msg : Message]
    \cup [pc : {"send"}, to : Node, msgs : Seq(Message) \ {<<>>}]
    \cup [pc : {"write", "flush"}, to : Node, msgs : Seq(Message) \ {<<>>}, on : Conn \cup {None}]

Caster ==
    {Silence} \cup [pc : {"write", "flush"}, at : Node, to : SUBSET Node, msg : Message]

LEMMA MessageParts ==
    ASSUME NEW m \in Message
    PROVE  /\ m.from \in Node /\ m.big \in BOOLEAN
           /\ m.type = "response" => m.data \in Content
  BY DEF Message

LEMMA ReaderParts ==
    ASSUME NEW r \in Reader
    PROVE  /\ r.pc \in {"decode", "work", "done", "handle", "wait", "send", "write", "flush"}
           /\ r.pc \in {"decode", "work", "done"} => r = [pc |-> r.pc]
           /\ r.pc \in {"handle", "wait"} => r.msg \in Message
           /\ r.pc \in {"send", "write", "flush"} =>
                 r.to \in Node /\ r.msgs \in Seq(Message) /\ r.msgs # <<>>
           /\ r.pc \in {"write", "flush"} => r.on \in Conn \cup {None}
  BY DEF Reader

LEMMA NewReaders ==
    /\ Decoding \in Reader /\ Ended \in Reader /\ [pc |-> "work"] \in Reader
    /\ \A m \in Message : [pc |-> "handle", msg |-> m] \in Reader
    /\ \A m \in Node, s \in Seq(Message) : s # <<>> => Sending(m, s) \in Reader
    /\ \A m \in Node, s \in Seq(Message), c \in Conn \cup {None} :
          s # <<>> => [pc |-> "write", to |-> m, msgs |-> s, on |-> c] \in Reader
  BY DEF Reader, Decoding, Ended, Sending

\* A reader that goes on with what it has.
LEMMA NextPlace ==
    ASSUME NEW r \in Reader
    PROVE  /\ r.pc = "handle" => /\ [r EXCEPT !.pc = "wait"] \in Reader
                                 /\ [r EXCEPT !.pc = "wait"].pc = "wait"
                                 /\ [r EXCEPT !.pc = "wait"].msg = r.msg
           /\ r.pc = "write" => /\ [r EXCEPT !.pc = "flush"] \in Reader
                                /\ [r EXCEPT !.pc = "flush"].pc = "flush"
                                /\ [r EXCEPT !.pc = "flush"].to = r.to
                                /\ [r EXCEPT !.pc = "flush"].on = r.on
                                /\ [r EXCEPT !.pc = "flush"].msgs = r.msgs
  <1>1. ASSUME r.pc = "handle"
        PROVE  /\ [r EXCEPT !.pc = "wait"] \in Reader
               /\ [r EXCEPT !.pc = "wait"].pc = "wait"
               /\ [r EXCEPT !.pc = "wait"].msg = r.msg
    <2>1. r \in [pc : {"handle", "wait"}, msg : Message]
      BY <1>1 DEF Reader
    <2>2. [r EXCEPT !.pc = "wait"] \in [pc : {"handle", "wait"}, msg : Message]
      BY <2>1
    <2> QED
      BY <2>1, <2>2 DEF Reader
  <1>2. ASSUME r.pc = "write"
        PROVE  /\ [r EXCEPT !.pc = "flush"] \in Reader
               /\ [r EXCEPT !.pc = "flush"].pc = "flush"
               /\ [r EXCEPT !.pc = "flush"].to = r.to
               /\ [r EXCEPT !.pc = "flush"].on = r.on
               /\ [r EXCEPT !.pc = "flush"].msgs = r.msgs
    <2> DEFINE W == [pc : {"write", "flush"}, to : Node, msgs : Seq(Message) \ {<<>>},
                     on : Conn \cup {None}]
    <2>1. r \in W
      BY <1>2 DEF Reader
    <2>2. [r EXCEPT !.pc = "flush"] \in W
      BY <2>1
    <2> QED
      BY <2>1, <2>2 DEF Reader
  <1> QED
    BY <1>1, <1>2

LEMMA CasterParts ==
    ASSUME NEW k \in Caster
    PROVE  /\ k # Silence <=> k.pc \in {"write", "flush"}
           /\ k.pc \in {"write", "flush"} =>
                 /\ k.at \in Node /\ k.to \subseteq Node /\ k.msg \in Message
                 /\ [k EXCEPT !.pc = "flush"] \in Caster
                 /\ [k EXCEPT !.pc = "flush"].msg = k.msg
  <1>1. Silence.pc = "idle"
    BY DEF Silence
  <1>2. CASE k = Silence
    BY <1>1, <1>2
  <1>3. CASE k \in [pc : {"write", "flush"}, at : Node, to : SUBSET Node, msg : Message]
    <2>1. [k EXCEPT !.pc = "flush"]
             \in [pc : {"write", "flush"}, at : Node, to : SUBSET Node, msg : Message]
      BY <1>3
    <2> QED
      BY <1>1, <1>3, <2>1 DEF Caster
  <1> QED
    BY <1>2, <1>3 DEF Caster

LEMMA NewMessages ==
    ASSUME TypeOK, NEW n \in Node
    PROVE  /\ Discovery(n) \in Message /\ List(n) \in Message
           /\ \A k \in {"relative", "full"} : Request(n, k) \in Message
           /\ \A d \in Content : Response(n, d) \in Message
  <1>1. row[n].version \in 0 .. MaxVersion /\ copy[n] \in BOOLEAN
    BY DEF TypeOK, Row
  <1>2. Discovery(n) \in Message
    BY DEF Discovery, Message
  <1>3. List(n) \in Message
    <2>1. \A b \in BOOLEAN :
             [from |-> n, type |-> "list", big |-> b,
              version |-> row[n].version, copy |-> copy[n]] \in Message
      BY <1>1 DEF Message
    <2>2. (n \in Laden) \in BOOLEAN
      OBVIOUS
    <2> QED
      BY <2>1, <2>2, Zenon DEF List
  <1>4. \A k \in {"relative", "full"} : Request(n, k) \in Message
    BY DEF Request, Message
  <1>5. ASSUME NEW d \in Content PROVE Response(n, d) \in Message
    <2>1. \A b \in BOOLEAN :
             [from |-> n, type |-> "response", big |-> b, data |-> d] \in Message
      BY DEF Message
    <2>2. (d \in Big) \in BOOLEAN
      OBVIOUS
    <2> QED
      BY <2>1, <2>2, Zenon DEF Response
  <1> QED
    BY <1>2, <1>3, <1>4, <1>5

LEMMA ConnType == None \notin Conn /\ MaxConns \in Nat
  BY NetworkAssumption DEF None, Conn

LEMMA NetTypes ==
    ASSUME TypeOK
    PROVE  /\ reader \in [Conn -> [Node -> Reader]]
           /\ stream \in [Conn -> [Node -> Seq(Message)]]
           /\ peers \in [Node -> [Node -> Conn \cup {None}]]
           /\ status \in [Node -> {"up", "stopping", "waiting", "stopped"}]
           /\ link \in Seq([from : Node, to : Node]) /\ Len(link) <= MaxConns
           /\ Made = 1 .. Len(link) /\ Made \subseteq Conn
           /\ \A c \in Conn, n \in Node : reader[c][n] \in Reader /\ stream[c][n] \in Seq(Message)
           /\ cast \in [Node -> Caster]
  <1>1. /\ link \in Seq([from : Node, to : Node]) /\ Len(link) <= MaxConns
        /\ reader \in [Conn -> [Node -> Reader]]
        /\ stream \in [Conn -> [Node -> Seq(Message)]]
        /\ cast \in [Node -> Caster]
    BY DEF TypeOK, NetTypeOK, Reader, Caster
  <1>2. Made = 1 .. Len(link) /\ Made \subseteq Conn
    <2>1. Made = 1 .. Len(link) /\ Len(link) \in Nat
      BY <1>1 DEF Made
    <2> QED
      BY <1>1, <2>1, ConnType DEF Conn
  <1> QED
    BY <1>1, <1>2 DEF TypeOK, NetTypeOK

-----------------------------------------------------------------------------
(* What the parts of an action do to the variables.                        *)

\* One reader becomes r, the others stay.
LEMMA BecomesFacts ==
    ASSUME TypeOK, NEW c \in Conn, NEW n \in Node, NEW r \in Reader, Becomes(c, n, r)
    PROVE  /\ reader' \in [Conn -> [Node -> Reader]]
           /\ reader'[c][n] = r
           /\ \A d \in Conn, m \in Node : d # c \/ m # n => reader'[d][m] = reader[d][m]
  BY NetTypes DEF Becomes

\* After a message the reader goes on, or ends and closes its end.
LEMMA AgainFacts ==
    ASSUME TypeOK, NEW c \in Conn, NEW n \in Node, Again(c, n)
    PROVE  /\ reader' \in [Conn -> [Node -> Reader]]
           /\ \A d \in Conn, m \in Node : d # c \/ m # n => reader'[d][m] = reader[d][m]
           /\ \/ status[n] = "up" /\ reader'[c][n] = Decoding /\ shut' = shut
              \/ status[n] # "up" /\ reader'[c][n] = Ended /\ shut' = shut \cup {<<c, n>>}
           /\ shut' \subseteq Conn \X Node
  <1>1. shut \subseteq Conn \X Node
    BY DEF TypeOK, NetTypeOK
  <1>2. CASE status[n] = "up"
    <2>1. Becomes(c, n, Decoding) /\ shut' = shut
      BY <1>2 DEF Again
    <2> QED
      BY <1>1, <1>2, <2>1, BecomesFacts, NewReaders
  <1>3. CASE status[n] # "up"
    <2>1. Becomes(c, n, Ended) /\ shut' = shut \cup {<<c, n>>}
      BY <1>3 DEF Again, Ends
    <2> QED
      BY <1>1, <1>3, <2>1, BecomesFacts, NewReaders
  <1> QED
    BY <1>2, <1>3

\* A message goes to the end of one stream, which then is of an open connection,
\* or nowhere.
LEMMA PutFacts ==
    ASSUME TypeOK, NEW c \in Conn \cup {None}, NEW m \in Node, NEW msg \in Message,
           Put(c, m, msg)
    PROVE  /\ stream' \in [Conn -> [Node -> Seq(Message)]]
           /\ \A d \in Conn, x \in Node :
                 \/ stream'[d][x] = stream[d][x]
                 \/ d = c /\ x = m /\ Open(c) /\ stream'[d][x] = Append(stream[d][x], msg)
  <1>1. stream \in [Conn -> [Node -> Seq(Message)]]
    BY NetTypes
  <1>2. CASE c # None /\ Open(c)
    <2>1. c \in Conn /\ stream[c][m] \in Seq(Message)
      BY <1>1, <1>2
    <2>2. Append(stream[c][m], msg) \in Seq(Message)
      BY <2>1
    <2>3. stream' = [stream EXCEPT ![c][m] = Append(stream[c][m], msg)]
      BY <1>2 DEF Put
    <2> QED
      BY <1>1, <1>2, <2>1, <2>2, <2>3
  <1>3. CASE ~(c # None /\ Open(c))
    <2>1. stream' = stream
      BY <1>3 DEF Put
    <2> QED
      BY <1>1, <2>1
  <1> QED
    BY <1>2, <1>3

\* A handler that has sent a message sends the next, or is done.
LEMMA SentFacts ==
    ASSUME TypeOK, NEW c \in Conn, NEW n \in Node, Sent(c, n),
           At(c, n, "write") \/ At(c, n, "flush")
    PROVE  /\ reader' \in [Conn -> [Node -> Reader]]
           /\ \A d \in Conn, m \in Node : d # c \/ m # n => reader'[d][m] = reader[d][m]
           /\ shut' \subseteq Conn \X Node /\ shut \subseteq shut'
           /\ \/ Again(c, n)
              \/ /\ Tail(reader[c][n].msgs) \in Seq(Message) \ {<<>>}
                 /\ reader'[c][n] = Sending(reader[c][n].to, Tail(reader[c][n].msgs))
                 /\ shut' = shut
  <1> DEFINE r == reader[c][n]
             next == Sending(r.to, Tail(r.msgs))
  <1>1. r.to \in Node /\ Tail(r.msgs) \in Seq(Message)
    BY NetTypes, ReaderParts DEF At
  <1>2. CASE Again(c, n)
    BY <1>2, AgainFacts
  <1>3. CASE Tail(r.msgs) # <<>> /\ Becomes(c, n, next) /\ UNCHANGED shut
    <2>1. next \in Reader
      BY <1>1, <1>3, NewReaders
    <2> HIDE DEF next
    <2>2. /\ reader' \in [Conn -> [Node -> Reader]] /\ reader'[c][n] = next
          /\ \A d \in Conn, m \in Node : d # c \/ m # n => reader'[d][m] = reader[d][m]
      BY <1>3, <2>1, BecomesFacts
    <2> QED
      BY <1>1, <1>3, <2>2 DEF next, TypeOK, NetTypeOK
  <1> QED
    BY <1>2, <1>3 DEF Sent

LEMMA UpdatePeerFacts ==
    ASSUME TypeOK, NEW c \in Conn, NEW n \in Node, NEW m \in Node, UpdatePeer(c, n, m)
    PROVE  /\ peers' \in [Node -> [Node -> Conn \cup {None}]]
           /\ \A x, y \in Node :
                 \/ peers'[x][y] = peers[x][y]
                 \/ x = n /\ y = m /\ m # n /\ peers'[x][y] = c
  <1>1. peers \in [Node -> [Node -> Conn \cup {None}]]
    BY NetTypes
  <1>2. CASE UNCHANGED peers
    BY <1>1, <1>2
  <1>3. CASE m # n /\ peers' = [peers EXCEPT ![n][m] = c]
    BY <1>1, <1>3
  <1> QED
    BY <1>2, <1>3 DEF UpdatePeer

\* The sequences a handler sends.
LEMMA WantedType ==
    ASSUME TypeOK, NEW n \in Node, NEW m \in Message
    PROVE  /\ Wanted(n, m) \in Seq(Message)
           /\ \A i \in DOMAIN Wanted(n, m) : Wanted(n, m)[i].from = n
  <1>1. \A k \in {"relative", "full"} : Request(n, k) \in Message /\ Request(n, k).from = n
    BY NewMessages DEF Request
  <1> DEFINE Own(s) == s \in Seq(Message) /\ \A i \in DOMAIN s : s[i].from = n
  <1>2. Own(<<>>)
    OBVIOUS
  <1>3. Own(<<Request(n, "full")>>) /\ Own(<<Request(n, "relative")>>)
    BY <1>1
  <1>4. ASSUME NEW s, NEW t, Own(s), Own(t) PROVE Own(s \o t)
    <2>1. s \o t \in Seq(Message) /\ Len(s \o t) = Len(s) + Len(t)
      BY <1>4
    <2>2. ASSUME NEW i \in DOMAIN (s \o t) PROVE (s \o t)[i].from = n
      <3>1. (s \o t)[i] = IF i <= Len(s) THEN s[i] ELSE t[i - Len(s)]
        BY <1>4, <2>1, <2>2
      <3>2. IF i <= Len(s) THEN i \in DOMAIN s ELSE i - Len(s) \in DOMAIN t
        BY <1>4, <2>1, <2>2
      <3> QED
        BY <1>4, <3>1, <3>2
    <2> QED
      BY <2>1, <2>2
  <1> HIDE DEF Own
  <1>5. Own(Wanted(n, m))
    BY <1>2, <1>3, <1>4 DEF Wanted
  <1> QED
    BY <1>5 DEF Own

-----------------------------------------------------------------------------
(* Type correctness.                                                       *)

LEMMA TypeInit == Init => TypeOK
  <1> SUFFICES ASSUME Init PROVE TypeOK
    OBVIOUS
  <1>1. reader \in [Conn -> [Node -> Reader]]
    BY NewReaders DEF Init, NetInit
  <1>2. /\ stream \in [Conn -> [Node -> Seq(Message)]]
        /\ peers \in [Node -> [Node -> Conn \cup {None}]]
        /\ status \in [Node -> {"up", "stopping", "waiting", "stopped"}]
    BY DEF Init, NetInit
  <1>3. link \in Seq([from : Node, to : Node]) /\ Len(link) <= MaxConns
    BY ConnType DEF Init, NetInit
  <1>4. cut \subseteq Conn /\ shut \subseteq Conn \X Node
    BY DEF Init, NetInit
  <1>5. cast \in [Node -> Caster]
    BY DEF Init, NetInit, Caster
  <1>6. NetTypeOK(Message)
    BY <1>1, <1>2, <1>3, <1>4, <1>5 DEF NetTypeOK, Reader, Caster
  <1>7. /\ disk \in [Node -> State] /\ dirty \in [Node -> BOOLEAN]
        /\ row \in [Node -> Row] /\ copy \in [Node -> BOOLEAN]
        /\ changes \in 0 .. MaxChanges
    BY DeviceAssumption DEF Init, State, NoRow, Row
  <1> QED
    BY <1>6, <1>7 DEF TypeOK

\* The steps of a reader that leave the files alone.
LEMMA TypeReads ==
    ASSUME TypeOK, NEW c \in Conn, NEW n \in Node,
           \/ Decode(c, n) \/ DecodeFails(c, n) \/ WaitsForLock(c, n)
           \/ Lookup(c, n) \/ Encode(c, n) \/ Flushed(c, n)
    PROVE  NetTypeOK(Message)'
  <1> DEFINE r == reader[c][n]
  <1>1. UNCHANGED <<status, link, cut, peers, cast>>
    BY DEF Decode, DecodeFails, WaitsForLock, Lookup, Encode, Flushed
  <1>2. SUFFICES /\ reader' \in [Conn -> [Node -> Reader]] /\ shut' \subseteq Conn \X Node
                 /\ stream' \in [Conn -> [Node -> Seq(Message)]]
    BY <1>1 DEF TypeOK, NetTypeOK, Reader, Caster
  <1>3. shut \subseteq Conn \X Node /\ r \in Reader /\ stream \in [Conn -> [Node -> Seq(Message)]]
    BY NetTypes DEF TypeOK, NetTypeOK
  <1>4. CASE Decode(c, n)
    <2>1. stream[c][n] \in Seq(Message) /\ stream[c][n] # <<>>
      BY <1>4, NetTypes DEF Decode
    <2>2. Head(stream[c][n]) \in Message /\ Tail(stream[c][n]) \in Seq(Message)
      BY <2>1
    <2>3. reader' \in [Conn -> [Node -> Reader]]
      BY <1>4, <2>2, BecomesFacts, NewReaders DEF Decode
    <2>4. stream' \in [Conn -> [Node -> Seq(Message)]]
      BY <1>4, <2>2, NetTypes DEF Decode
    <2> QED
      BY <1>3, <1>4, <2>3, <2>4 DEF Decode
  <1>5. CASE DecodeFails(c, n)
    <2>1. reader' \in [Conn -> [Node -> Reader]]
      BY <1>5, BecomesFacts, NewReaders DEF DecodeFails, Ends
    <2>2. stream' \in [Conn -> [Node -> Seq(Message)]]
      BY <1>3, <1>5 DEF DecodeFails
    <2> QED
      BY <1>3, <1>5, <2>1, <2>2 DEF DecodeFails, Ends
  <1>6. CASE WaitsForLock(c, n)
    <2>1. [r EXCEPT !.pc = "wait"] \in Reader
      BY <1>3, <1>6, NextPlace DEF WaitsForLock, At
    <2> QED
      BY <1>3, <1>6, <2>1, BecomesFacts DEF WaitsForLock
  <1>7. CASE Lookup(c, n)
    <2>1. /\ r.to \in Node /\ r.msgs \in Seq(Message) /\ r.msgs # <<>>
          /\ peers[n][r.to] \in Conn \cup {None}
      BY <1>3, <1>7, NetTypes, ReaderParts DEF Lookup, At
    <2> DEFINE w == [pc |-> "write", to |-> r.to, msgs |-> r.msgs, on |-> peers[n][r.to]]
    <2>2. w \in Reader
      BY <2>1, NewReaders
    <2>3. Becomes(c, n, w)
      BY <1>7 DEF Lookup
    <2> HIDE DEF w
    <2> QED
      BY <1>3, <1>7, <2>2, <2>3, BecomesFacts DEF Lookup
  <1>8. CASE Encode(c, n)
    <2>1. /\ r.to \in Node /\ r.on \in Conn \cup {None}
          /\ r.msgs \in Seq(Message) /\ r.msgs # <<>>
      BY <1>3, <1>8, ReaderParts DEF Encode, At
    <2>2. Head(r.msgs) \in Message
      BY <2>1
    <2>3. stream' \in [Conn -> [Node -> Seq(Message)]]
      BY <1>8, <2>1, <2>2, PutFacts DEF Encode
    <2>4. CASE Becomes(c, n, [r EXCEPT !.pc = "flush"]) /\ UNCHANGED shut
      <3>1. [r EXCEPT !.pc = "flush"] \in Reader
        BY <1>3, <1>8, NextPlace DEF Encode, At
      <3> QED
        BY <1>3, <2>3, <2>4, <3>1, BecomesFacts
    <2>5. CASE Sent(c, n)
      BY <1>8, <2>3, <2>5, SentFacts DEF Encode
    <2> QED
      BY <1>8, <2>4, <2>5 DEF Encode
  <1>9. CASE Flushed(c, n)
    BY <1>3, <1>9, SentFacts DEF Flushed
  <1> QED
    BY <1>4, <1>5, <1>6, <1>7, <1>8, <1>9

\* What a handler does to the network: it registers its message and comes back
\* or goes on, or is done with its work.
LEMMA HandleNet ==
    ASSUME TypeOK, NEW c \in Conn, NEW n \in Node, Handle(c, n)
    PROVE  \/ /\ At(c, n, "handle") \/ At(c, n, "wait")
              /\ \/ HandleOnly(c, n)
                 \/ HandleWith(c, n, [pc |-> "work"])
                 \/ \E msgs \in Seq(Message) \ {<<>>} :
                       /\ HandleWith(c, n, Sending(reader[c][n].msg.from, msgs))
                       /\ reader[c][n].msg.type # "discovery"
                       /\ \A i \in DOMAIN msgs : msgs[i].from = n
           \/ Return(c, n)
  <1>1. CASE HandleDiscovery(c, n)
    BY <1>1 DEF HandleDiscovery, Got
  <1>2. CASE HandleResponse(c, n)
    BY <1>2 DEF HandleResponse, Got
  <1>3. CASE StoreCopy(c, n)
    BY <1>3 DEF StoreCopy
  <1>4. CASE HandleList(c, n)
    <2>1. reader[c][n].msg \in Message
      BY <1>4, NetTypes, ReaderParts DEF HandleList, Got, At
    <2> QED
      BY <1>4, <2>1, WantedType DEF HandleList, Got
  <1>5. CASE HandleRequest(c, n)
    <2>1. CASE HandleOnly(c, n)
      BY <1>5, <2>1 DEF HandleRequest, Got
    <2>2. CASE /\ Readable(n, reader[c][n].msg.path)
               /\ HandleWith(c, n, Sending(reader[c][n].msg.from, <<Response(n, disk[n])>>))
      <3>1. disk[n] \in Content
        BY <2>2 DEF Readable, TypeOK, State
      <3>2. Response(n, disk[n]) \in Message /\ Response(n, disk[n]).from = n
        BY <3>1, NewMessages DEF Response
      <3> DEFINE msgs == <<Response(n, disk[n])>>
      <3>3. msgs \in Seq(Message) \ {<<>>} /\ \A i \in DOMAIN msgs : msgs[i].from = n
        BY <3>2
      <3> QED
        BY <1>5, <2>2, <3>3 DEF HandleRequest, Got
    <2> QED
      BY <1>5, <2>1, <2>2 DEF HandleRequest
  <1> QED
    BY <1>1, <1>2, <1>3, <1>4, <1>5 DEF Handle

\* The same, as what becomes of the reader and its end.
LEMMA HandleFacts ==
    ASSUME TypeOK, NEW c \in Conn, NEW n \in Node, Handle(c, n)
    PROVE  /\ UNCHANGED <<status, link, cut, stream, cast>>
           /\ Has(c, n)
           /\ \/ UNCHANGED peers
              \/ /\ reader[c][n].pc \in {"handle", "wait"} /\ reader[c][n].msg.from \in Node
                 /\ UpdatePeer(c, n, reader[c][n].msg.from)
           /\ \/ Again(c, n)
              \/ Becomes(c, n, [pc |-> "work"]) /\ UNCHANGED shut
              \/ /\ reader[c][n].pc \in {"handle", "wait"} /\ UNCHANGED shut
                 /\ reader[c][n].msg.from \in Node /\ reader[c][n].msg.type # "discovery"
                 /\ \E msgs \in Seq(Message) \ {<<>>} :
                       /\ Becomes(c, n, Sending(reader[c][n].msg.from, msgs))
                       /\ \A i \in DOMAIN msgs : msgs[i].from = n
  <1>1. CASE Return(c, n)
    BY <1>1 DEF Return, At
  <1>2. CASE At(c, n, "handle") \/ At(c, n, "wait")
    <2>1. /\ Has(c, n) /\ reader[c][n].pc \in {"handle", "wait"}
          /\ reader[c][n].msg.from \in Node
      BY <1>2, NetTypes, ReaderParts, MessageParts DEF At
    <2> QED
      BY <1>1, <2>1, HandleNet DEF HandleOnly, HandleWith
  <1> QED
    BY <1>1, <1>2, HandleNet

\* A handler's part that concerns the network.
LEMMA TypeHandleNet ==
    ASSUME TypeOK, NEW c \in Conn, NEW n \in Node, Handle(c, n)
    PROVE  NetTypeOK(Message)'
  <1>1. peers' \in [Node -> [Node -> Conn \cup {None}]]
    <2>1. CASE UNCHANGED peers
      BY <2>1, NetTypes
    <2>2. ASSUME NEW m \in Node, UpdatePeer(c, n, m)
          PROVE  peers' \in [Node -> [Node -> Conn \cup {None}]]
      BY <2>2, UpdatePeerFacts
    <2> QED
      BY <2>1, <2>2, HandleFacts
  <1>2. reader' \in [Conn -> [Node -> Reader]] /\ shut' \subseteq Conn \X Node
    <2>1. CASE Again(c, n)
      BY <2>1, AgainFacts
    <2>2. ASSUME NEW r \in Reader, Becomes(c, n, r), UNCHANGED shut
          PROVE  reader' \in [Conn -> [Node -> Reader]] /\ shut' \subseteq Conn \X Node
      BY <2>2, BecomesFacts DEF TypeOK, NetTypeOK
    <2> QED
      BY <2>1, <2>2, HandleFacts, NewReaders
  <1> QED
    BY <1>1, <1>2, HandleFacts DEF TypeOK, NetTypeOK, Reader, Caster

LEMMA TypeHandle ==
    ASSUME TypeOK, NEW c \in Conn, NEW n \in Node, Handle(c, n)
    PROVE  TypeOK'
  <1>1. NetTypeOK(Message)'
    BY TypeHandleNet
  <1>2. CASE UNCHANGED fileVars
    BY <1>1, <1>2 DEF TypeOK, fileVars
  <1>3. CASE HandleResponse(c, n)
    <2>1. reader[c][n].msg.data \in State
      BY <1>3, NetTypes, ReaderParts, MessageParts DEF HandleResponse, Got, At, State
    <2> QED
      BY <1>1, <1>3, <2>1 DEF HandleResponse, TypeOK
  <1>4. CASE StoreCopy(c, n)
    BY <1>1, <1>4 DEF StoreCopy, TypeOK
  <1> QED
    BY <1>2, <1>3, <1>4 DEF Handle, HandleDiscovery, HandleList, HandleRequest

LEMMA TypeDial ==
    ASSUME TypeOK, NEW n \in Node, NEW m \in Node, Dial(n, m)
    PROVE  NetTypeOK(Message)'
  <1> DEFINE c == Len(link) + 1
  <1>1. /\ link \in Seq([from : Node, to : Node]) /\ c \in Conn
        /\ link' = Append(link, [from |-> n, to |-> m])
    BY NetTypes, ConnType DEF Dial, Conn
  <1>2. link' \in Seq([from : Node, to : Node]) /\ Len(link') <= MaxConns
    BY <1>1, ConnType DEF Conn
  <1>3. stream' \in [Conn -> [Node -> Seq(Message)]]
    <2>1. <<Discovery(n)>> \in Seq(Message)
      BY NewMessages
    <2> QED
      BY <1>1, <2>1, NetTypes DEF Dial
  <1>4. reader' \in [Conn -> [Node -> Reader]]
    BY <1>1, NetTypes, NewReaders DEF Dial
  <1>5. shut' \subseteq Conn \X Node
    BY <1>1 DEF Dial, TypeOK, NetTypeOK
  <1> QED
    BY <1>2, <1>3, <1>4, <1>5 DEF Dial, TypeOK, NetTypeOK, Reader, Caster

\* A broadcast goes on to one of the peers in to, or ends.
LEMMA CastToFacts ==
    ASSUME TypeOK, NEW n \in Node, NEW to \in SUBSET Node, NEW msg \in Message,
           CastTo(n, to, msg)
    PROVE  /\ cast' \in [Node -> Caster]
           /\ \A x \in Node : x # n => cast'[x] = cast[x]
           /\ Casting(n)' => cast'[n].msg = msg
  <1>1. Silence \in Caster
    BY DEF Caster
  <1>2. CASE cast' = [cast EXCEPT ![n] = Silence]
    BY <1>1, <1>2, NetTypes DEF Casting
  <1>3. ASSUME NEW m \in to,
               cast' = [cast EXCEPT ![n] = [pc |-> "write", at |-> m, to |-> to \ {m}, msg |-> msg]]
        PROVE  cast' \in [Node -> Caster] /\ cast'[n].msg = msg
                 /\ \A x \in Node : x # n => cast'[x] = cast[x]
    <2> DEFINE k == [pc |-> "write", at |-> m, to |-> to \ {m}, msg |-> msg]
    <2>1. k \in Caster /\ k.msg = msg
      BY DEF Caster
    <2> HIDE DEF k
    <2>2. cast' = [cast EXCEPT ![n] = k]
      BY <1>3 DEF k
    <2> QED
      BY <2>1, <2>2, NetTypes
  <1> QED
    BY <1>2, <1>3 DEF CastTo

\* The same of each step of a broadcast.
LEMMA CastFacts ==
    ASSUME TypeOK, NEW n \in Node, CastSend(n) \/ CastFlushed(n) \/ Broadcast(n)
    PROVE  /\ cast' \in [Node -> Caster]
           /\ \A x \in Node : x # n => cast'[x] = cast[x]
           /\ UNCHANGED <<status, link, cut, shut, reader, peers>>
           /\ Casting(n)' => \/ cast'[n].msg = List(n)
                             \/ Casting(n) /\ cast'[n].msg = cast[n].msg
  <1> DEFINE k == cast[n]
  <1>1. k \in Caster
    BY NetTypes
  <1>2. CASE CastSend(n) /\ cast' = [cast EXCEPT ![n].pc = "flush"]
    <2> DEFINE f == [k EXCEPT !.pc = "flush"]
    <2>1. f \in Caster /\ f.msg = k.msg /\ Casting(n)
      BY <1>1, <1>2, CasterParts DEF CastSend, Casting
    <2> HIDE DEF f
    <2>2. cast' = [cast EXCEPT ![n] = f]
      BY <1>2, NetTypes DEF f
    <2> QED
      BY <1>2, <2>1, <2>2, NetTypes DEF CastSend
  <1>3. CASE (CastSend(n) \/ CastFlushed(n)) /\ CastTo(n, k.to, k.msg)
    <2>1. k.to \in SUBSET Node /\ k.msg \in Message /\ Casting(n)
      BY <1>1, <1>3, CasterParts DEF CastSend, CastFlushed, Casting
    <2> QED
      BY <1>3, <2>1, CastToFacts DEF CastSend, CastFlushed
  <1>4. CASE Broadcast(n)
    <2>1. List(n) \in Message
      BY NewMessages
    <2> QED
      BY <1>4, <2>1, CastToFacts DEF Broadcast, CastBegin
  <1> QED
    BY <1>2, <1>3, <1>4 DEF CastSend, CastFlushed

LEMMA TypeCast ==
    ASSUME TypeOK, NEW n \in Node, CastSend(n) \/ CastFlushed(n) \/ Broadcast(n)
    PROVE  NetTypeOK(Message)'
  <1>1. stream' \in [Conn -> [Node -> Seq(Message)]]
    <2>1. CASE CastSend(n)
      <3>1. cast[n] \in Caster
        BY NetTypes
      <3>2. cast[n].at \in Node /\ cast[n].msg \in Message
        BY <2>1, <3>1, CasterParts DEF CastSend
      <3>3. peers[n][cast[n].at] \in Conn \cup {None}
        BY <3>2, NetTypes
      <3> QED
        BY <2>1, <3>2, <3>3, PutFacts DEF CastSend
    <2>2. CASE CastFlushed(n) \/ Broadcast(n)
      BY <2>2, NetTypes DEF CastFlushed, Broadcast, CastBegin
    <2> QED
      BY <2>1, <2>2
  <1> QED
    BY <1>1, CastFacts DEF TypeOK, NetTypeOK, Caster

LEMMA TypeStop ==
    ASSUME TypeOK, NEW n \in Node, Cancel(n) \/ StopWaits(n) \/ StopCloses(n)
    PROVE  NetTypeOK(Message)'
  <1>1. status' \in [Node -> {"up", "stopping", "waiting", "stopped"}]
    BY NetTypes DEF Cancel, StopWaits, StopCloses
  <1>2. shut' \subseteq Conn \X Node
    <2>1. \A m \in Node : peers[n][m] # None => peers[n][m] \in Conn
      BY NetTypes
    <2> QED
      BY <2>1 DEF Cancel, StopWaits, StopCloses, TypeOK, NetTypeOK
  <1> QED
    BY <1>1, <1>2 DEF Cancel, StopWaits, StopCloses, TypeOK, NetTypeOK

LEMMA TypeFiles ==
    ASSUME TypeOK, NEW n \in Node, UserWrites(n) \/ UserRemoves(n) \/ Record(n)
    PROVE  TypeOK'
  <1>1. NetTypeOK(Message)'
    BY DEF UserWrites, UserRemoves, Record, Change, netVars, TypeOK, NetTypeOK
  <1>2. CASE UserWrites(n) \/ UserRemoves(n)
    <2>1. PICK d \in State : Change(n, d)
      BY <1>2, DeviceAssumption DEF UserWrites, UserRemoves, State, Content, NoFile, TypeOK
    <2>2. changes' \in 0 .. MaxChanges
      BY <2>1, DeviceAssumption DEF Change, TypeOK
    <2> QED
      BY <1>1, <2>1, <2>2 DEF Change, TypeOK
  <1>3. CASE Record(n)
    <2>1. row[n].version \in 0 .. MaxVersion /\ disk[n] \in State
      BY DEF TypeOK, Row
    <2>2. NoRow \in Row
      BY DeviceAssumption DEF NoRow, Row, State
    <2>3. row[n].version < MaxVersion => [version |-> row[n].version + 1, data |-> disk[n]] \in Row
      BY <2>1, DeviceAssumption DEF Row
    <2>4. row' \in [Node -> Row]
      BY <1>3, <2>2, <2>3 DEF Record, TypeOK
    <2> QED
      BY <1>1, <1>3, <2>4 DEF Record, TypeOK
  <1> QED
    BY <1>2, <1>3

LEMMA TypeStep == TypeOK /\ [Next]_vars => TypeOK'
  <1> SUFFICES ASSUME TypeOK, [Next]_vars PROVE TypeOK'
    OBVIOUS
  <1>1. CASE UNCHANGED vars
    BY <1>1 DEF vars, netVars, fileVars, TypeOK, NetTypeOK
  <1>2. ASSUME NetTypeOK(Message)', UNCHANGED fileVars PROVE TypeOK'
    BY <1>2 DEF fileVars, TypeOK
  <1>3. CASE NetNext /\ UNCHANGED fileVars
    <2>1. ASSUME NEW c \in Conn, Break(c) PROVE NetTypeOK(Message)'
      BY <2>1, NetTypes DEF Break, TypeOK, NetTypeOK
    <2> QED
      BY <1>2, <1>3, <2>1, TypeStop, TypeDial, TypeCast, TypeReads DEF NetNext
  <1>4. ASSUME NEW n \in Node, Broadcast(n) PROVE TypeOK'
    BY <1>2, <1>4, TypeCast DEF Broadcast
  <1> QED
    BY <1>1, <1>3, <1>4, TypeFiles, TypeHandle DEF Next

\* Every reachable state is well typed: each goroutine has what its place says
\* it works on, and no device writes or records anything but files that users
\* made (peer.go:135-281, multidevice.go:79-256).
THEOREM DevicesTypeCorrect == Spec => []TypeOK
  BY TypeInit, TypeStep, PTL DEF Spec

-----------------------------------------------------------------------------
(* Connections and their ends.                                             *)

\* The parts of NetInv.
ReadersInv == \A c \in Conn, n \in Node : ReaderInv(c, n)
StreamsInv == \A c \in Conn, n \in Node : StreamInv(c, n)
PeersInv == \A n, m \in Node : peers[n][m] # None => n # m /\ Between(peers[n][m], n, m)
CastsInv == \A n \in Node : Casting(n) => cast[n].msg.from = n
EndsInv ==
    /\ \A c \in Made, n \in Node : Has(c, n) /\ At(c, n, "done") => <<c, n>> \in shut
    /\ \A e \in shut : Has(e[1], e[2])

LEMMA NetParts == NetInv <=> ReadersInv /\ StreamsInv /\ PeersInv /\ CastsInv /\ EndsInv
  BY DEF NetInv, ReadersInv, StreamsInv, PeersInv, CastsInv, EndsInv

\* A connection between two devices has both as its ends, either way round.
LEMMA BetweenFacts ==
    ASSUME NEW c, NEW n \in Node, NEW m \in Node, Between(c, n, m)
    PROVE  Has(c, n) /\ Has(c, m) /\ Between(c, m, n)
  BY DEF Between, Has

\* While no connection is dialled, ends stay what they are.
LEMMA SameEnds ==
    ASSUME UNCHANGED link
    PROVE  /\ Made' = Made
           /\ \A c, n : Has(c, n)' <=> Has(c, n)
           /\ \A c, n, m : Between(c, n, m)' <=> Between(c, n, m)
  BY DEF Made, Has, Between

\* A reader that goes on to r.
LEMMA OneReader ==
    ASSUME TypeOK, NetInv, UNCHANGED link, NEW c \in Conn, NEW n \in Node,
           reader'[c][n] # Ended => ReaderInv(c, n)',
           \A d \in Conn, m \in Node : d # c \/ m # n => reader'[d][m] = reader[d][m]
    PROVE  ReadersInv'
  <1>1. ASSUME NEW d \in Conn, NEW m \in Node, d # c \/ m # n PROVE ReaderInv(d, m)'
    BY <1>1, SameEnds DEF NetInv, ReaderInv
  <1>2. reader'[c][n] = Ended => ReaderInv(c, n)'
    BY DEF ReaderInv, Ended
  <1> QED
    BY <1>1, <1>2 DEF ReadersInv

\* A reader that goes on to r with its end open.
LEMMA GoesOn ==
    ASSUME TypeOK, NetInv, UNCHANGED <<link, shut>>, NEW c \in Conn, NEW n \in Node,
           NEW r \in Reader, r.pc # "done", ReaderInv(c, n)', reader'[c][n] = r,
           \A d \in Conn, m \in Node : d # c \/ m # n => reader'[d][m] = reader[d][m]
    PROVE  ReadersInv' /\ EndsInv'
  <1>1. Made \subseteq Conn
    BY NetTypes
  <1>2. EndsInv'
    BY <1>1, SameEnds DEF NetInv, EndsInv, At
  <1> QED
    BY <1>2, OneReader

LEMMA AgainInv ==
    ASSUME TypeOK, NetInv, UNCHANGED link, NEW c \in Conn, NEW n \in Node, Has(c, n), Again(c, n)
    PROVE  ReadersInv' /\ EndsInv'
  <1>1. reader'[c][n] \in {Decoding, Ended}
    BY AgainFacts
  <1>2. ReaderInv(c, n)'
    BY <1>1, SameEnds DEF ReaderInv, Decoding, Ended
  <1>3. ReadersInv'
    BY <1>2, AgainFacts, OneReader
  <1>4. EndsInv'
    <2>1. Made \subseteq Conn
      BY NetTypes
    <2>2. CASE shut' = shut /\ reader'[c][n] = Decoding
      BY <2>1, <2>2, AgainFacts, SameEnds DEF NetInv, EndsInv, At, Decoding
    <2>3. CASE shut' = shut \cup {<<c, n>>}
      BY <2>1, <2>3, AgainFacts, SameEnds DEF NetInv, EndsInv, At
    <2> QED
      BY <2>2, <2>3, AgainFacts
  <1> QED
    BY <1>3, <1>4

\* The messages still to be sent are from n and for another device.
LEMMA SentInv ==
    ASSUME TypeOK, NetInv, UNCHANGED link, NEW c \in Conn, NEW n \in Node, Sent(c, n),
           At(c, n, "write") \/ At(c, n, "flush")
    PROVE  ReadersInv' /\ EndsInv'
  <1> DEFINE r == reader[c][n]
             rest == Tail(r.msgs)
  <1>1. Has(c, n) /\ r.pc \in {"write", "flush"} /\ r.msgs \in Seq(Message) /\ r.msgs # <<>>
    BY NetTypes, ReaderParts DEF At
  <1>2. r.to # n /\ r.to \in Node /\ \A i \in DOMAIN r.msgs : r.msgs[i].from = n
    BY <1>1, NetTypes, ReaderParts DEF NetInv, ReaderInv
  <1>3. \A i \in DOMAIN rest : rest[i].from = n
    BY <1>1, <1>2
  <1>4. CASE Again(c, n)
    BY <1>1, <1>4, AgainInv
  <1>5. CASE /\ rest \in Seq(Message) \ {<<>>}
             /\ reader'[c][n] = Sending(r.to, rest) /\ shut' = shut
    <2> DEFINE w == Sending(r.to, rest)
    <2>1. w \in Reader /\ w.pc = "send" /\ w.to = r.to /\ w.msgs = rest
      BY <1>2, <1>5, NewReaders DEF Sending
    <2>2. reader'[c][n] = w
      BY <1>5
    <2> HIDE DEF w
    <2>3. ReaderInv(c, n)'
      BY <1>1, <1>2, <1>3, <2>1, <2>2, SameEnds DEF ReaderInv
    <2> QED
      BY <1>5, <2>1, <2>2, <2>3, SentFacts, GoesOn
  <1> QED
    BY <1>4, <1>5, SentFacts

LEMMA UpdatePeerInv ==
    ASSUME TypeOK, NetInv, UNCHANGED link, NEW c \in Conn, NEW n \in Node, NEW m \in Node,
           Between(c, n, m), UpdatePeer(c, n, m)
    PROVE  PeersInv'
  BY UpdatePeerFacts, SameEnds DEF NetInv, PeersInv

\* A message of n written on a connection with m.
LEMMA PutInv ==
    ASSUME TypeOK, NetInv, UNCHANGED link, NEW n \in Node, NEW m \in Node,
           NEW c \in Conn \cup {None}, NEW msg \in Message, Put(c, m, msg), Free(c, n),
           msg.from = n, n # m, c = None \/ Between(c, n, m)
    PROVE  StreamsInv'
  <1> SUFFICES ASSUME NEW d \in Conn, NEW x \in Node PROVE StreamInv(d, x)'
    BY DEF StreamsInv
  <1>1. CASE stream'[d][x] = stream[d][x]
    BY <1>1, SameEnds DEF NetInv, StreamInv
  <1>2. CASE stream'[d][x] # stream[d][x]
    <2>1. d = c /\ x = m /\ d # None /\ Open(d) /\ stream'[d][x] = Append(stream[d][x], msg)
      BY <1>2, PutFacts, ConnType
    <2>2. Between(d, m, n)
      BY <2>1, BetweenFacts
    <2> DEFINE s == stream[d][x]
    <2>3. /\ s \in Seq(Message)
          /\ \A i \in DOMAIN s : /\ Between(d, m, s[i].from)
                                 /\ s[i].from = m => s[i] = Discovery(m)
      BY <2>1, NetTypes DEF NetInv, StreamInv
    <2>4. ASSUME NEW i \in DOMAIN s PROVE ~s[i].big
      <3>1. s[i].from = n
        BY <2>2, <2>3 DEF Between
      <3> QED
        BY <2>1, <3>1 DEF Free
    <2>5. ASSUME NEW i \in DOMAIN Append(s, msg)
          PROVE  /\ Between(d, m, Append(s, msg)[i].from)
                 /\ Append(s, msg)[i].from = m => Append(s, msg)[i] = Discovery(m)
                 /\ Append(s, msg)[i].big => i = Len(Append(s, msg))
      <3>1. Len(Append(s, msg)) = Len(s) + 1 /\ i \in 1 .. Len(s) + 1
        BY <2>3, <2>5
      <3>2. CASE i \in DOMAIN s
        BY <2>3, <2>4, <3>2
      <3>3. CASE i = Len(s) + 1
        BY <2>2, <2>3, <3>1, <3>3
      <3> QED
        BY <2>3, <3>1, <3>2, <3>3
    <2> HIDE DEF s
    <2> QED
      BY <2>1, <2>5, SameEnds DEF StreamInv, s
  <1> QED
    BY <1>1, <1>2

\* What a step leaves alone stays as it is.
LEMMA SameParts ==
    ASSUME TypeOK, NetInv, UNCHANGED link
    PROVE  /\ UNCHANGED reader => ReadersInv'
           /\ UNCHANGED stream => StreamsInv'
           /\ UNCHANGED peers => PeersInv'
           /\ UNCHANGED cast => CastsInv'
           /\ UNCHANGED <<reader, shut>> => EndsInv'
  <1>1. UNCHANGED reader => ReadersInv'
    BY SameEnds DEF NetInv, ReadersInv, ReaderInv
  <1>2. UNCHANGED stream => StreamsInv'
    BY SameEnds DEF NetInv, StreamsInv, StreamInv
  <1>3. UNCHANGED peers => PeersInv'
    BY SameEnds DEF NetInv, PeersInv
  <1>4. UNCHANGED cast => CastsInv'
    BY DEF NetInv, CastsInv, Casting
  <1>5. UNCHANGED <<reader, shut>> => EndsInv'
    BY SameEnds DEF NetInv, EndsInv, At
  <1> QED
    BY <1>1, <1>2, <1>3, <1>4, <1>5

LEMMA NetInvInit == Init => NetInv
  <1> SUFFICES ASSUME Init PROVE NetInv
    OBVIOUS
  <1>1. /\ \A c \in Conn, n \in Node : reader[c][n] = Ended /\ stream[c][n] = <<>>
        /\ \A n, m \in Node : peers[n][m] = None
        /\ \A n \in Node : ~Casting(n)
        /\ shut = {} /\ link = <<>>
    BY DEF Init, NetInit, Casting
  <1> QED
    BY <1>1 DEF NetInv, ReaderInv, StreamInv, Ended, Made

\* A new connection: its two ends are open and read, or closed.
LEMMA NetInvDial ==
    ASSUME TypeOK, NetInv, NEW n \in Node, NEW m \in Node, Dial(n, m)
    PROVE  NetInv'
  <1>0. PICK c \in Conn : c = Len(link) + 1
    BY NetTypes, ConnType DEF Dial, Conn
  <1>1. c \notin Made /\ Made \subseteq Conn
    BY <1>0, NetTypes
  <1>2. /\ Made' = Made \cup {c} /\ link'[c] = [from |-> n, to |-> m]
        /\ \A d \in Made : link'[d] = link[d]
    <2>1. link \in Seq([from : Node, to : Node]) /\ link' = Append(link, [from |-> n, to |-> m])
      BY NetTypes DEF Dial
    <2>2. Made = 1 .. Len(link) /\ Made' = 1 .. Len(link')
      BY <2>1 DEF Made
    <2> QED
      BY <1>0, <2>1, <2>2
  <1>3. UNCHANGED <<peers, cast>>
    BY DEF Dial
  <1>4. /\ \A d, x : Has(d, x) => Has(d, x)'
        /\ \A d, x, y : Between(d, x, y) => Between(d, x, y)'
        /\ \A d \in Made, x \in Node : Has(d, x)' => Has(d, x)
        /\ \A x : Has(c, x)' <=> x \in {n, m}
        /\ Between(c, m, n)'
    <2>1. \A d, x : Has(d, x) => Has(d, x)'
      BY <1>2 DEF Has
    <2>2. \A d, x, y : Between(d, x, y) => Between(d, x, y)'
      BY <1>2 DEF Between
    <2>3. \A d \in Made, x \in Node : Has(d, x)' => Has(d, x)
      BY <1>2 DEF Has
    <2>4. link'[c].from = n /\ link'[c].to = m /\ c \in Made'
      BY <1>2
    <2>5. \A x : Has(c, x)' <=> x \in {n, m}
      BY <2>4 DEF Has
    <2>6. Between(c, m, n)'
      BY <1>1, <2>4 DEF Between
    <2> QED
      BY <2>1, <2>2, <2>3, <2>5, <2>6
  <1>5. /\ \A x \in Node : ~Has(c, x) /\ \A y : ~Between(c, x, y)
    BY <1>1 DEF Has, Between
  <1>6. /\ \A d \in Conn, x \in Node : d # c => reader'[d][x] = reader[d][x]
        /\ \A x \in Node : reader'[c][x] = IF x \in {n, m} /\ status[x] = "up" THEN Decoding ELSE Ended
    BY <1>0, NetTypes DEF Dial
  <1>7. /\ \A d \in Conn, x \in Node : d # c \/ x # m => stream'[d][x] = stream[d][x]
        /\ stream'[c][m] = <<Discovery(n)>>
    BY <1>0, NetTypes DEF Dial
  <1>8. ReadersInv'
    <2> SUFFICES ASSUME NEW d \in Conn, NEW x \in Node PROVE ReaderInv(d, x)'
      BY DEF ReadersInv
    <2>1. CASE d = c
      <3>1. CASE reader'[d][x] = Ended
        BY <3>1 DEF ReaderInv, Ended
      <3>2. CASE reader'[d][x] = Decoding /\ x \in {n, m}
        <4>1. Has(d, x)'
          BY <1>4, <2>1, <3>2
        <4> QED
          BY <3>2, <4>1 DEF ReaderInv, Decoding
      <3> QED
        BY <1>6, <2>1, <3>1, <3>2
    <2>2. CASE d # c
      BY <1>4, <1>6, <2>2 DEF NetInv, ReaderInv
    <2> QED
      BY <2>1, <2>2
  <1>9. StreamsInv'
    <2> SUFFICES ASSUME NEW d \in Conn, NEW x \in Node PROVE StreamInv(d, x)'
      BY DEF StreamsInv
    <2>1. CASE d = c /\ x = m
      <3> DEFINE s == <<Discovery(n)>>
      <3>1. \A i \in DOMAIN s : s[i].from = n /\ s[i] = Discovery(n) /\ ~s[i].big
        <4>1. \A i \in DOMAIN s : s[i] = Discovery(n)
          OBVIOUS
        <4>2. Discovery(n).from = n /\ ~Discovery(n).big
          BY DEF Discovery
        <4> QED
          BY <4>1, <4>2
      <3>2. stream'[d][x] = s
        BY <1>7, <2>1
      <3> HIDE DEF s
      <3> QED
        BY <1>4, <2>1, <3>1, <3>2 DEF StreamInv
    <2>2. CASE ~(d = c /\ x = m)
      BY <1>4, <1>7, <2>2 DEF NetInv, StreamInv
    <2> QED
      BY <2>1, <2>2
  <1>10. PeersInv' /\ CastsInv'
    BY <1>3, <1>4 DEF NetInv, PeersInv, CastsInv, Casting
  <1>11. EndsInv'
    <2>1. shut' = shut \cup {<<c, x>> : x \in {y \in {n, m} : status[y] # "up"}}
      BY <1>0 DEF Dial
    <2>2. ASSUME NEW d \in Made', NEW x \in Node, Has(d, x)', At(d, x, "done")'
          PROVE  <<d, x>> \in shut'
      <3>1. CASE d = c
        <4>1. x \in {n, m}
          BY <1>4, <2>2, <3>1
        <4>2. status[x] # "up"
          BY <1>6, <2>2, <3>1, <4>1 DEF At, Decoding
        <4> QED
          BY <2>1, <3>1, <4>1, <4>2
      <3>2. CASE d # c
        BY <1>1, <1>2, <1>4, <1>6, <2>1, <2>2, <3>2 DEF NetInv, At
      <3> QED
        BY <3>1, <3>2
    <2>3. ASSUME NEW e \in shut' PROVE Has(e[1], e[2])'
      <3>1. CASE e \in shut
        BY <1>4, <3>1 DEF NetInv
      <3>2. CASE e \notin shut
        <4>1. PICK x \in {n, m} : e = <<c, x>>
          BY <2>1, <2>3, <3>2
        <4> QED
          BY <1>4, <4>1
      <3> QED
        BY <3>1, <3>2
    <2> QED
      BY <2>2, <2>3 DEF EndsInv
  <1> QED
    BY <1>8, <1>9, <1>10, <1>11 DEF NetInv, ReadersInv, StreamsInv, PeersInv, CastsInv, EndsInv

\* A decoded message is the first of the stream, and was sent by the other end.
LEMMA NetInvDecode ==
    ASSUME TypeOK, NetInv, NEW c \in Conn, NEW n \in Node, Decode(c, n)
    PROVE  NetInv'
  <1> DEFINE s == stream[c][n]
  <1>1. /\ Has(c, n) /\ s \in Seq(Message) /\ s # <<>> /\ UNCHANGED <<link, shut, peers, cast>>
        /\ stream' = [stream EXCEPT ![c][n] = Tail(s)]
        /\ Becomes(c, n, [pc |-> "handle", msg |-> Head(s)])
    BY NetTypes DEF Decode, At
  <1>2. /\ stream'[c][n] = Tail(s)
        /\ \A d \in Conn, m \in Node : d # c \/ m # n => stream'[d][m] = stream[d][m]
    BY <1>1, NetTypes
  <1>3. \A i \in DOMAIN s : /\ Between(c, n, s[i].from) /\ (s[i].big => i = Len(s))
                            /\ s[i].from = n => s[i] = Discovery(n)
    BY DEF NetInv, StreamInv
  <1> HIDE DEF s
  <1>4. /\ Head(s) \in Message /\ Head(s) = s[1] /\ 1 \in DOMAIN s
        /\ Len(Tail(s)) = Len(s) - 1 /\ Len(s) \in Nat
        /\ \A i \in DOMAIN Tail(s) : i + 1 \in DOMAIN s /\ Tail(s)[i] = s[i + 1] /\ i \in Nat
    BY <1>1
  <1>5. /\ reader'[c][n] = [pc |-> "handle", msg |-> Head(s)]
        /\ \A d \in Conn, m \in Node : d # c \/ m # n => reader'[d][m] = reader[d][m]
    BY <1>1, <1>4, BecomesFacts, NewReaders
  <1>6. ReadersInv'
    <2>1. ReaderInv(c, n)'
      BY <1>1, <1>3, <1>4, <1>5, SameEnds DEF ReaderInv
    <2> QED
      BY <1>1, <1>5, <2>1, OneReader
  <1>7. StreamsInv'
    <2> SUFFICES ASSUME NEW d \in Conn, NEW m \in Node PROVE StreamInv(d, m)'
      BY DEF StreamsInv
    <2>1. CASE d = c /\ m = n
      <3>1. ASSUME NEW i \in DOMAIN Tail(s)
            PROVE  /\ Between(c, n, Tail(s)[i].from)
                   /\ Tail(s)[i].big => i = Len(Tail(s))
                   /\ Tail(s)[i].from = n => Tail(s)[i] = Discovery(n)
        BY <1>3, <1>4
      <3> QED
        BY <1>1, <1>2, <2>1, <3>1, SameEnds DEF StreamInv
    <2>2. CASE ~(d = c /\ m = n)
      BY <1>1, <1>2, <2>2, SameEnds DEF NetInv, StreamInv
    <2> QED
      BY <2>1, <2>2
  <1>8. EndsInv'
    <2> DEFINE r == [pc |-> "handle", msg |-> Head(s)]
    <2>1. r \in Reader /\ r.pc = "handle"
      BY <1>4, NewReaders
    <2>2. reader'[c][n] = r
      BY <1>5
    <2> HIDE DEF r
    <2> QED
      BY <1>1, <1>5, <1>6, <2>1, <2>2, GoesOn DEF ReadersInv
  <1> QED
    BY <1>1, <1>6, <1>7, <1>8, SameParts
       DEF NetInv, ReadersInv, StreamsInv, PeersInv, CastsInv, EndsInv

LEMMA NetInvDecodeFails ==
    ASSUME TypeOK, NetInv, NEW c \in Conn, NEW n \in Node, DecodeFails(c, n)
    PROVE  NetInv'
  <1>1. /\ Has(c, n) /\ UNCHANGED <<link, peers, cast>> /\ Made \subseteq Conn
        /\ shut' = shut \cup {<<c, n>>} /\ Becomes(c, n, Ended)
    BY NetTypes DEF DecodeFails, Ends, At
  <1>2. /\ stream'[c][n] = <<>>
        /\ \A d \in Conn, m \in Node : d # c \/ m # n => stream'[d][m] = stream[d][m]
    BY NetTypes DEF DecodeFails
  <1>3. /\ reader'[c][n] = Ended
        /\ \A d \in Conn, m \in Node : d # c \/ m # n => reader'[d][m] = reader[d][m]
    BY <1>1, BecomesFacts, NewReaders
  <1>4. ReadersInv'
    BY <1>1, <1>3, OneReader
  <1>5. StreamsInv'
    <2> SUFFICES ASSUME NEW d \in Conn, NEW m \in Node PROVE StreamInv(d, m)'
      BY DEF StreamsInv
    <2>1. CASE d = c /\ m = n
      BY <1>2, <2>1 DEF StreamInv
    <2>2. CASE ~(d = c /\ m = n)
      BY <1>1, <1>2, <2>2, SameEnds DEF NetInv, StreamInv
    <2> QED
      BY <2>1, <2>2
  <1>6. EndsInv'
    BY <1>1, <1>3, SameEnds DEF NetInv, EndsInv, At
  <1> QED
    BY <1>1, <1>4, <1>5, <1>6, SameParts
       DEF NetInv, ReadersInv, StreamsInv, PeersInv, CastsInv, EndsInv

LEMMA NetInvWaits ==
    ASSUME TypeOK, NetInv, NEW c \in Conn, NEW n \in Node, WaitsForLock(c, n)
    PROVE  NetInv'
  <1> DEFINE r == reader[c][n]
             w == [r EXCEPT !.pc = "wait"]
  <1>1. Has(c, n) /\ r.pc = "handle" /\ UNCHANGED <<link, shut, stream, peers, cast>>
    BY DEF WaitsForLock, At
  <1>2. w \in Reader /\ w.pc = "wait" /\ w.msg = r.msg
    BY <1>1, NetTypes, NextPlace
  <1>3. Becomes(c, n, w)
    BY DEF WaitsForLock
  <1> HIDE DEF w
  <1>4. /\ reader'[c][n] = w
        /\ \A d \in Conn, m \in Node : d # c \/ m # n => reader'[d][m] = reader[d][m]
    BY <1>2, <1>3, BecomesFacts
  <1>5. ReaderInv(c, n)'
    BY <1>1, <1>2, <1>4, SameEnds DEF NetInv, ReaderInv
  <1>6. ReadersInv' /\ EndsInv'
    BY <1>1, <1>2, <1>4, <1>5, GoesOn
  <1> QED
    BY <1>1, <1>6, SameParts DEF NetInv, ReadersInv, StreamsInv, PeersInv, CastsInv, EndsInv

\* An answer goes to the device that asked.
LEMMA NetInvLookup ==
    ASSUME TypeOK, NetInv, NEW c \in Conn, NEW n \in Node, Lookup(c, n)
    PROVE  NetInv'
  <1> DEFINE r == reader[c][n]
             d == peers[n][r.to]
             w == [pc |-> "write", to |-> r.to, msgs |-> r.msgs, on |-> d]
  <1>1. /\ Has(c, n) /\ r.pc = "send" /\ UNCHANGED <<link, shut, stream, peers, cast>>
        /\ r.to \in Node /\ r.msgs \in Seq(Message) /\ r.msgs # <<>> /\ d \in Conn \cup {None}
    BY NetTypes, ReaderParts DEF Lookup, At
  <1>2. r.to # n /\ \A i \in DOMAIN r.msgs : r.msgs[i].from = n
    BY <1>1 DEF NetInv, ReaderInv
  <1>3. d = None \/ Between(d, n, r.to)
    BY <1>1 DEF NetInv
  <1>4. w \in Reader /\ w.pc = "write" /\ w.to = r.to /\ w.msgs = r.msgs /\ w.on = d
    BY <1>1, NewReaders
  <1>5. Becomes(c, n, w)
    BY DEF Lookup
  <1> HIDE DEF w, d
  <1>6. /\ reader'[c][n] = w
        /\ \A e \in Conn, m \in Node : e # c \/ m # n => reader'[e][m] = reader[e][m]
    BY <1>4, <1>5, BecomesFacts
  <1>7. ReaderInv(c, n)'
    BY <1>1, <1>2, <1>3, <1>4, <1>6, SameEnds DEF ReaderInv
  <1>8. ReadersInv' /\ EndsInv'
    BY <1>1, <1>4, <1>6, <1>7, GoesOn
  <1> QED
    BY <1>1, <1>8, SameParts DEF NetInv, ReadersInv, StreamsInv, PeersInv, CastsInv, EndsInv

LEMMA NetInvEncode ==
    ASSUME TypeOK, NetInv, NEW c \in Conn, NEW n \in Node, Encode(c, n)
    PROVE  NetInv'
  <1> DEFINE r == reader[c][n]
             w == [r EXCEPT !.pc = "flush"]
  <1>1. /\ Has(c, n) /\ r.pc = "write" /\ UNCHANGED <<link, peers, cast>>
        /\ r.to \in Node /\ r.on \in Conn \cup {None}
        /\ r.msgs \in Seq(Message) /\ r.msgs # <<>>
        /\ Free(r.on, n) /\ Put(r.on, r.to, Head(r.msgs))
    BY NetTypes, ReaderParts DEF Encode, At
  <1>2. /\ r.to # n /\ \A i \in DOMAIN r.msgs : r.msgs[i].from = n
        /\ r.on = None \/ Between(r.on, n, r.to)
    BY <1>1 DEF NetInv, ReaderInv
  <1>3. StreamsInv'
    <2>1. Head(r.msgs) \in Message /\ Head(r.msgs) = r.msgs[1] /\ 1 \in DOMAIN r.msgs
      BY <1>1
    <2> QED
      BY <1>1, <1>2, <2>1, PutInv
  <1>4. ReadersInv' /\ EndsInv'
    <2>1. CASE Becomes(c, n, w) /\ UNCHANGED shut
      <3>1. w \in Reader /\ w.pc = "flush" /\ w.to = r.to /\ w.msgs = r.msgs /\ w.on = r.on
        BY <1>1, NetTypes, NextPlace
      <3> HIDE DEF w
      <3>2. /\ reader'[c][n] = w
            /\ \A d \in Conn, m \in Node : d # c \/ m # n => reader'[d][m] = reader[d][m]
        BY <2>1, <3>1, BecomesFacts
      <3>3. ReaderInv(c, n)'
        BY <1>1, <1>2, <3>1, <3>2, SameEnds DEF ReaderInv
      <3> QED
        BY <1>1, <2>1, <3>1, <3>2, <3>3, GoesOn
    <2>2. CASE Sent(c, n)
      BY <1>1, <2>2, SentInv DEF Encode
    <2> QED
      BY <2>1, <2>2 DEF Encode
  <1> QED
    BY <1>1, <1>3, <1>4, SameParts
       DEF NetInv, ReadersInv, StreamsInv, PeersInv, CastsInv, EndsInv

LEMMA NetInvFlushed ==
    ASSUME TypeOK, NetInv, NEW c \in Conn, NEW n \in Node, Flushed(c, n)
    PROVE  NetInv'
  <1>1. At(c, n, "flush") /\ Sent(c, n) /\ UNCHANGED <<link, stream, peers, cast>>
    BY DEF Flushed
  <1> QED
    BY <1>1, SentInv, SameParts
       DEF NetInv, ReadersInv, StreamsInv, PeersInv, CastsInv, EndsInv

LEMMA NetInvHandle ==
    ASSUME TypeOK, NetInv, NEW c \in Conn, NEW n \in Node, Handle(c, n)
    PROVE  NetInv'
  <1> DEFINE m == reader[c][n].msg.from
  <1>1. Has(c, n) /\ UNCHANGED <<link, stream, cast>>
    BY HandleFacts
  <1>2. reader[c][n].pc \in {"handle", "wait"} => Between(c, n, m)
    BY DEF NetInv, ReaderInv
  <1>3. PeersInv'
    <2>1. CASE UNCHANGED peers
      BY <1>1, <2>1, SameParts
    <2>2. CASE reader[c][n].pc \in {"handle", "wait"} /\ m \in Node /\ UpdatePeer(c, n, m)
      BY <1>1, <1>2, <2>2, UpdatePeerInv
    <2> QED
      BY <2>1, <2>2, HandleFacts
  <1>4. ASSUME NEW r \in Reader, Becomes(c, n, r), UNCHANGED shut,
               \/ r = [pc |-> "work"]
               \/ r.pc = "send" /\ r.to # n /\ \A i \in DOMAIN r.msgs : r.msgs[i].from = n
        PROVE  ReadersInv' /\ EndsInv'
    <2>1. /\ reader'[c][n] = r
          /\ \A d \in Conn, x \in Node : d # c \/ x # n => reader'[d][x] = reader[d][x]
      BY <1>4, BecomesFacts
    <2>2. ReaderInv(c, n)' /\ r.pc # "done"
      BY <1>1, <1>4, <2>1, SameEnds DEF ReaderInv
    <2> QED
      BY <1>1, <1>4, <2>1, <2>2, GoesOn
  <1>5. ReadersInv' /\ EndsInv'
    <2>1. CASE Again(c, n)
      BY <1>1, <2>1, AgainInv
    <2>2. CASE Becomes(c, n, [pc |-> "work"]) /\ UNCHANGED shut
      BY <1>4, <2>2, NewReaders
    <2>3. ASSUME reader[c][n].pc \in {"handle", "wait"}, UNCHANGED shut, m \in Node,
                 reader[c][n].msg.type # "discovery",
                 NEW msgs \in Seq(Message) \ {<<>>}, Becomes(c, n, Sending(m, msgs)),
                 \A i \in DOMAIN msgs : msgs[i].from = n
          PROVE  ReadersInv' /\ EndsInv'
      <3> DEFINE r == Sending(m, msgs)
      <3>1. r \in Reader /\ r.pc = "send" /\ r.to = m /\ r.msgs = msgs
        BY <2>3, NewReaders DEF Sending
      <3>2. m # n
        <4>1. Discovery(n).type = "discovery"
          BY DEF Discovery
        <4>2. m = n => reader[c][n].msg = Discovery(n)
          BY <2>3 DEF NetInv, ReaderInv
        <4> QED
          BY <2>3, <4>1, <4>2
      <3> HIDE DEF r
      <3> QED
        BY <1>4, <2>3, <3>1, <3>2 DEF r
    <2>4. CASE /\ ~Again(c, n)
               /\ ~(Becomes(c, n, [pc |-> "work"]) /\ UNCHANGED shut)
      <3>1. /\ reader[c][n].pc \in {"handle", "wait"} /\ UNCHANGED shut
            /\ m \in Node /\ reader[c][n].msg.type # "discovery"
            /\ \E msgs \in Seq(Message) \ {<<>>} :
                  Becomes(c, n, Sending(m, msgs)) /\ \A i \in DOMAIN msgs : msgs[i].from = n
        BY <2>4, HandleFacts
      <3>2. PICK msgs \in Seq(Message) \ {<<>>} :
               Becomes(c, n, Sending(m, msgs)) /\ \A i \in DOMAIN msgs : msgs[i].from = n
        BY <3>1
      <3> QED
        BY <2>3, <3>1, <3>2
    <2> QED
      BY <2>1, <2>2, <2>4
  <1> QED
    BY <1>1, <1>3, <1>5, SameParts
       DEF NetInv, ReadersInv, StreamsInv, PeersInv, CastsInv, EndsInv

LEMMA NetInvCast ==
    ASSUME TypeOK, NetInv, NEW n \in Node, CastSend(n) \/ CastFlushed(n) \/ Broadcast(n)
    PROVE  NetInv'
  <1>1. UNCHANGED <<link, shut, reader, peers>>
    BY CastFacts
  <1>2. StreamsInv'
    <2> DEFINE k == cast[n]
               c == peers[n][k.at]
    <2>1. CASE CastSend(n)
      <3>1. k \in Caster
        BY NetTypes
      <3>2. k.at \in Node /\ k.msg \in Message /\ Casting(n)
        BY <2>1, <3>1, CasterParts DEF CastSend, Casting
      <3>3. c \in Conn \cup {None} /\ Put(c, k.at, k.msg) /\ Free(c, n) /\ k.msg.from = n
        BY <2>1, <3>2, NetTypes DEF CastSend, NetInv
      <3>4. CASE c = None
        BY <1>1, <3>3, <3>4, SameParts DEF Put
      <3>5. CASE c # None
        <4>1. n # k.at /\ Between(c, n, k.at)
          BY <3>2, <3>5 DEF NetInv
        <4> QED
          BY <1>1, <3>2, <3>3, <4>1, PutInv
      <3> QED
        BY <3>4, <3>5
    <2>2. CASE CastFlushed(n) \/ Broadcast(n)
      BY <1>1, <2>2, SameParts DEF CastFlushed, Broadcast, CastBegin
    <2> QED
      BY <2>1, <2>2
  <1>3. CastsInv'
    <2> SUFFICES ASSUME NEW x \in Node, Casting(x)' PROVE cast'[x].msg.from = x
      BY DEF CastsInv
    <2>1. CASE x = n
      <3>1. List(n).from = n
        BY DEF List
      <3>2. Casting(n) => cast[n].msg.from = n
        BY DEF NetInv
      <3>3. Casting(n)'
        BY <2>1
      <3> QED
        BY <2>1, <3>1, <3>2, <3>3, CastFacts
    <2>2. CASE x # n
      BY <2>2, CastFacts DEF NetInv, Casting
    <2> QED
      BY <2>1, <2>2
  <1> QED
    BY <1>1, <1>2, <1>3, SameParts
       DEF NetInv, ReadersInv, StreamsInv, PeersInv, CastsInv, EndsInv

LEMMA NetInvStop ==
    ASSUME TypeOK, NetInv, NEW n \in Node, StopCloses(n)
    PROVE  NetInv'
  <1>1. UNCHANGED <<link, stream, reader, peers, cast>> /\ shut \subseteq shut'
    BY DEF StopCloses
  <1>2. EndsInv'
    <2>1. ASSUME NEW e \in shut' PROVE Has(e[1], e[2])
      <3>1. CASE e \in shut
        BY <3>1 DEF NetInv
      <3>2. CASE e \notin shut
        <4>1. PICK m \in Node : peers[n][m] # None /\ e = <<peers[n][m], n>>
          BY <2>1, <3>2 DEF StopCloses
        <4> QED
          BY <4>1 DEF NetInv, Between, Has
      <3> QED
        BY <3>1, <3>2
    <2> QED
      BY <1>1, <2>1, SameEnds DEF NetInv, EndsInv, At
  <1> QED
    BY <1>1, <1>2, SameParts
       DEF NetInv, ReadersInv, StreamsInv, PeersInv, CastsInv, EndsInv

LEMMA NetInvStep == TypeOK /\ NetInv /\ [Next]_vars => NetInv'
  <1> SUFFICES ASSUME TypeOK, NetInv, [Next]_vars PROVE NetInv'
    OBVIOUS
  <1>1. ASSUME UNCHANGED <<link, shut, stream, reader, peers, cast>> PROVE NetInv'
    BY <1>1, SameParts DEF NetInv, ReadersInv, StreamsInv, PeersInv, CastsInv, EndsInv
  <1>2. CASE UNCHANGED vars
    BY <1>1, <1>2 DEF vars, netVars
  <1>3. CASE NetNext
    <2>1. ASSUME NEW n \in Node, Cancel(n) \/ StopWaits(n) PROVE NetInv'
      BY <1>1, <2>1 DEF Cancel, StopWaits
    <2>2. ASSUME NEW c \in Conn, Break(c) PROVE NetInv'
      BY <1>1, <2>2 DEF Break
    <2> QED
      BY <1>3, <2>1, <2>2, NetInvStop, NetInvDial, NetInvCast, NetInvDecode, NetInvDecodeFails,
         NetInvWaits, NetInvLookup, NetInvEncode, NetInvFlushed DEF NetNext
  <1>4. ASSUME NEW n \in Node, UserWrites(n) \/ UserRemoves(n) \/ Record(n) PROVE NetInv'
    BY <1>1, <1>4 DEF UserWrites, UserRemoves, Record, Change, netVars
  <1> QED
    BY <1>2, <1>3, <1>4, NetInvCast, NetInvHandle DEF Next

\* However often connections are dialled again, replaced and broken, what a
\* device has for a peer is a connection with that peer, its messages are the
\* peer's, answers go to the device that asked, and no end is open without its
\* reader (peer.go:135-281).
THEOREM NetworkCorrect == Spec => []NetInv
  BY NetInvInit, NetInvStep, DevicesTypeCorrect, PTL DEF Spec

-----------------------------------------------------------------------------
(* What Stop leaves in the map.                                            *)

LEMMA StopMapInit == Init => StopClosesMap
  BY DEF Init, NetInit, StopClosesMap

\* A step of one reader keeps it when that end, if it is in the map of a stopped
\* device, is closed or about to answer.
LEMMA OneEnd ==
    ASSUME TypeOK, StopClosesMap, NEW c \in Conn, NEW n \in Node,
           status' = status, shut \subseteq shut',
           \A d \in Conn, x \in Node : d # c \/ x # n => reader'[d][x] = reader[d][x],
           \A x, y \in Node : \/ peers'[x][y] = peers[x][y]
                              \/ x = n /\ peers'[x][y] = c,
           \/ status[n] # "stopped"
           \/ <<c, n>> \in shut'
           \/ reader'[c][n].pc \in {"work", "send", "write", "flush"}
           \/ \A y \in Node : peers'[n][y] # c
    PROVE  StopClosesMap'
  <1> SUFFICES ASSUME NEW x \in Node, NEW y \in Node,
                      status'[x] = "stopped", peers'[x][y] # None, <<peers'[x][y], x>> \notin shut'
               PROVE  reader'[peers'[x][y]][x].pc \in {"work", "send", "write", "flush"}
    BY DEF StopClosesMap
  <1>1. CASE peers'[x][y] = c /\ x = n
    BY <1>1
  <1>2. CASE ~(peers'[x][y] = c /\ x = n)
    <2>1. peers'[x][y] = peers[x][y] /\ peers[x][y] \in Conn
      BY <1>2, NetTypes
    <2>2. reader'[peers[x][y]][x] = reader[peers[x][y]][x]
      BY <1>2, <2>1
    <2> QED
      BY <2>1, <2>2 DEF StopClosesMap
  <1> QED
    BY <1>1, <1>2

\* The same for a reader that goes on to r with its end open.
LEMMA OneGoesOn ==
    ASSUME TypeOK, StopClosesMap, NEW c \in Conn, NEW n \in Node, NEW r \in Reader,
           Becomes(c, n, r), UNCHANGED <<status, shut>>,
           \A x, y \in Node : \/ peers'[x][y] = peers[x][y]
                              \/ x = n /\ peers'[x][y] = c,
           \/ r.pc \in {"work", "send", "write", "flush"}
           \/ /\ reader[c][n].pc \in {"decode", "handle"} /\ <<c, n>> \notin shut
              /\ UNCHANGED peers
           \/ <<c, n>> \in shut
    PROVE  StopClosesMap'
  <1>1. /\ reader'[c][n] = r
        /\ \A d \in Conn, x \in Node : d # c \/ x # n => reader'[d][x] = reader[d][x]
    BY BecomesFacts
  <1>2. CASE r.pc \in {"work", "send", "write", "flush"} \/ <<c, n>> \in shut
    BY <1>1, <1>2, OneEnd
  <1>3. CASE /\ reader[c][n].pc \in {"decode", "handle"} /\ <<c, n>> \notin shut
             /\ UNCHANGED peers
    <2>1. status[n] # "stopped" \/ \A y \in Node : peers[n][y] # c
      BY <1>3, ConnType DEF StopClosesMap
    <2> QED
      BY <1>1, <1>3, <2>1, OneEnd
  <1> QED
    BY <1>2, <1>3

\* And for one that goes on after its message or ends.
LEMMA OneAgain ==
    ASSUME TypeOK, StopClosesMap, NEW c \in Conn, NEW n \in Node, Again(c, n), UNCHANGED status,
           \A x, y \in Node : \/ peers'[x][y] = peers[x][y]
                              \/ x = n /\ peers'[x][y] = c
    PROVE  StopClosesMap'
  <1>1. /\ \A d \in Conn, x \in Node : d # c \/ x # n => reader'[d][x] = reader[d][x]
        /\ shut \subseteq shut' /\ (status[n] # "stopped" \/ <<c, n>> \in shut')
    BY AgainFacts
  <1> QED
    BY <1>1, OneEnd

LEMMA StopMapReads ==
    ASSUME TypeOK, StopClosesMap, NEW c \in Conn, NEW n \in Node,
           \/ Decode(c, n) \/ DecodeFails(c, n) \/ WaitsForLock(c, n)
           \/ Lookup(c, n) \/ Encode(c, n) \/ Flushed(c, n)
    PROVE  StopClosesMap'
  <1> DEFINE r == reader[c][n]
  <1>1. UNCHANGED <<status, peers>> /\ r \in Reader
    BY NetTypes DEF Decode, DecodeFails, WaitsForLock, Lookup, Encode, Flushed
  <1>2. CASE Decode(c, n)
    <2> DEFINE w == [pc |-> "handle", msg |-> Head(stream[c][n])]
    <2>1. w \in Reader
      BY <1>2, NetTypes, NewReaders DEF Decode
    <2>2. Becomes(c, n, w) /\ shut' = shut /\ r.pc = "decode" /\ <<c, n>> \notin shut
      BY <1>2 DEF Decode, At
    <2> HIDE DEF w
    <2> QED
      BY <1>1, <2>1, <2>2, OneGoesOn
  <1>3. CASE DecodeFails(c, n)
    <2>1. shut' = shut \cup {<<c, n>>} /\ Becomes(c, n, Ended)
      BY <1>3 DEF DecodeFails, Ends
    <2>2. \A d \in Conn, x \in Node : d # c \/ x # n => reader'[d][x] = reader[d][x]
      BY <2>1, BecomesFacts, NewReaders
    <2> QED
      BY <1>1, <2>1, <2>2, OneEnd
  <1>4. CASE WaitsForLock(c, n)
    <2> DEFINE w == [r EXCEPT !.pc = "wait"]
    <2>1. w \in Reader
      BY <1>1, <1>4, NextPlace DEF WaitsForLock, At
    <2>2. Becomes(c, n, w) /\ shut' = shut /\ r.pc = "handle"
      BY <1>4 DEF WaitsForLock, At
    <2> HIDE DEF w
    <2> QED
      BY <1>1, <2>1, <2>2, OneGoesOn
  <1>5. CASE Lookup(c, n)
    <2> DEFINE w == [pc |-> "write", to |-> r.to, msgs |-> r.msgs, on |-> peers[n][r.to]]
    <2>1. w \in Reader /\ w.pc = "write"
      BY <1>5, NetTypes, ReaderParts, NewReaders DEF Lookup, At
    <2>2. Becomes(c, n, w) /\ shut' = shut
      BY <1>5 DEF Lookup
    <2> HIDE DEF w
    <2> QED
      BY <1>1, <2>1, <2>2, OneGoesOn
  <1>6. ASSUME Sent(c, n), At(c, n, "write") \/ At(c, n, "flush") PROVE StopClosesMap'
    <2>1. CASE Again(c, n)
      BY <1>1, <2>1, OneAgain
    <2>2. CASE ~Again(c, n)
      <3>1. /\ \A d \in Conn, x \in Node : d # c \/ x # n => reader'[d][x] = reader[d][x]
            /\ shut' = shut /\ reader'[c][n] = Sending(r.to, Tail(r.msgs))
        BY <1>6, <2>2, SentFacts
      <3>2. reader'[c][n].pc = "send"
        BY <3>1 DEF Sending
      <3> HIDE DEF r
      <3> QED
        BY <1>1, <3>1, <3>2, OneEnd
    <2> QED
      BY <2>1, <2>2
  <1>7. CASE Encode(c, n) /\ ~Sent(c, n)
    <2> DEFINE w == [r EXCEPT !.pc = "flush"]
    <2>1. w \in Reader /\ w.pc = "flush"
      BY <1>1, <1>7, NextPlace DEF Encode, At
    <2>2. Becomes(c, n, w) /\ shut' = shut
      BY <1>7 DEF Encode
    <2> HIDE DEF w
    <2> QED
      BY <1>1, <2>1, <2>2, OneGoesOn
  <1> QED
    BY <1>2, <1>3, <1>4, <1>5, <1>6, <1>7 DEF Encode, Flushed

LEMMA StopMapHandle ==
    ASSUME TypeOK, StopClosesMap, NEW c \in Conn, NEW n \in Node, Handle(c, n)
    PROVE  StopClosesMap'
  <1> DEFINE m == reader[c][n].msg.from
  <1>1. UNCHANGED status
    BY HandleFacts
  <1>2. \A x, y \in Node : \/ peers'[x][y] = peers[x][y]
                           \/ x = n /\ peers'[x][y] = c
    <2>1. ASSUME NEW y \in Node, UpdatePeer(c, n, y)
          PROVE  \A x, z \in Node : \/ peers'[x][z] = peers[x][z]
                                    \/ x = n /\ peers'[x][z] = c
      BY <2>1, UpdatePeerFacts
    <2> QED
      BY <2>1, HandleFacts
  <1>3. ASSUME NEW r \in Reader, r.pc \in {"work", "send"}, Becomes(c, n, r), UNCHANGED shut
        PROVE  StopClosesMap'
    BY <1>1, <1>2, <1>3, OneGoesOn
  <1>4. CASE Again(c, n)
    BY <1>1, <1>2, <1>4, OneAgain
  <1>5. CASE Becomes(c, n, [pc |-> "work"]) /\ UNCHANGED shut
    BY <1>3, <1>5, NewReaders
  <1>6. ASSUME NEW msgs \in Seq(Message) \ {<<>>}, m \in Node,
               Becomes(c, n, Sending(m, msgs)), UNCHANGED shut
        PROVE  StopClosesMap'
    <2> DEFINE r == Sending(m, msgs)
    <2>1. r \in Reader /\ r.pc = "send"
      BY <1>6, NewReaders DEF Sending
    <2>2. Becomes(c, n, r)
      BY <1>6
    <2> HIDE DEF r
    <2> QED
      BY <1>3, <1>6, <2>1, <2>2
  <1>7. CASE ~Again(c, n) /\ ~(Becomes(c, n, [pc |-> "work"]) /\ UNCHANGED shut)
    <2>1. /\ UNCHANGED shut /\ m \in Node
          /\ \E msgs \in Seq(Message) \ {<<>>} : Becomes(c, n, Sending(m, msgs))
      BY <1>7, HandleFacts
    <2> QED
      BY <1>6, <2>1
  <1> QED
    BY <1>4, <1>5, <1>7

\* The map has no connection that is only now dialled.
LEMMA StopMapDial ==
    ASSUME TypeOK, NetInv, StopClosesMap, NEW n \in Node, NEW m \in Node, Dial(n, m)
    PROVE  StopClosesMap'
  <1>1. PICK c \in Conn : c = Len(link) + 1
    BY NetTypes, ConnType DEF Dial, Conn
  <1>2. UNCHANGED <<status, peers>> /\ shut \subseteq shut'
    BY DEF Dial
  <1>3. \A d \in Conn, x \in Node : d # c => reader'[d][x] = reader[d][x]
    BY <1>1, NetTypes DEF Dial
  <1>4. c \notin Made
    BY <1>1, NetTypes
  <1> SUFFICES ASSUME NEW x \in Node, NEW y \in Node, status[x] = "stopped",
                      peers[x][y] # None, <<peers[x][y], x>> \notin shut'
               PROVE  reader'[peers[x][y]][x].pc \in {"work", "send", "write", "flush"}
    BY <1>2 DEF StopClosesMap
  <1>5. peers[x][y] \in Made /\ peers[x][y] \in Conn
    BY NetTypes DEF NetInv, Between
  <1>6. reader'[peers[x][y]][x] = reader[peers[x][y]][x]
    BY <1>3, <1>4, <1>5
  <1> QED
    BY <1>2, <1>6 DEF StopClosesMap

LEMMA StopMapStop ==
    ASSUME TypeOK, StopClosesMap, NEW n \in Node, StopCloses(n)
    PROVE  StopClosesMap'
  <1>1. /\ UNCHANGED <<reader, peers>>
        /\ status' = [status EXCEPT ![n] = "stopped"]
        /\ shut' = shut \cup {<<peers[n][m], n>> : m \in {x \in Node : peers[n][x] # None}}
    BY DEF StopCloses
  <1> SUFFICES ASSUME NEW x \in Node, NEW y \in Node, status'[x] = "stopped",
                      peers[x][y] # None, <<peers[x][y], x>> \notin shut'
               PROVE  reader[peers[x][y]][x].pc \in {"work", "send", "write", "flush"}
    BY <1>1 DEF StopClosesMap
  <1>2. CASE x = n
    BY <1>1, <1>2
  <1>3. CASE x # n
    BY <1>1, <1>3, NetTypes DEF StopClosesMap
  <1> QED
    BY <1>2, <1>3

LEMMA StopMapStep == TypeOK /\ NetInv /\ StopClosesMap /\ [Next]_vars => StopClosesMap'
  <1> SUFFICES ASSUME TypeOK, NetInv, StopClosesMap, [Next]_vars PROVE StopClosesMap'
    OBVIOUS
  <1>1. ASSUME UNCHANGED <<status, shut, reader, peers>> PROVE StopClosesMap'
    BY <1>1 DEF StopClosesMap
  <1>2. CASE UNCHANGED vars
    BY <1>1, <1>2 DEF vars, netVars
  <1>3. CASE NetNext
    <2>1. ASSUME NEW n \in Node, Cancel(n) \/ StopWaits(n) PROVE StopClosesMap'
      <3>1. /\ UNCHANGED <<shut, reader, peers>>
            /\ \A x \in Node : status'[x] = "stopped" => status[x] = "stopped"
        BY <2>1, NetTypes DEF Cancel, StopWaits
      <3> QED
        BY <3>1 DEF StopClosesMap
    <2>2. ASSUME NEW c \in Conn, Break(c) PROVE StopClosesMap'
      BY <1>1, <2>2 DEF Break
    <2>3. ASSUME NEW n \in Node, CastSend(n) \/ CastFlushed(n) PROVE StopClosesMap'
      BY <1>1, <2>3 DEF CastSend, CastFlushed
    <2> QED
      BY <1>3, <2>1, <2>2, <2>3, StopMapStop, StopMapDial, StopMapReads DEF NetNext
  <1>4. ASSUME NEW n \in Node, UserWrites(n) \/ UserRemoves(n) \/ Record(n) \/ Broadcast(n)
        PROVE  StopClosesMap'
    BY <1>1, <1>4 DEF UserWrites, UserRemoves, Record, Change, Broadcast, CastBegin, netVars
  <1> QED
    BY <1>2, <1>3, <1>4, StopMapHandle DEF Next

\* Whatever handlers do while and after Stop closes the connections in the map:
\* the map of a stopped device leads to no open connection, but to one whose
\* handler is about to answer and then closes it (peer.go:111-133, 151-173).
THEOREM StopClosesCorrect == Spec => []StopClosesMap
  BY StopMapInit, StopMapStep, DevicesTypeCorrect, NetworkCorrect, PTL DEF Spec

\* What keeps a writer of n waiting is an open connection with a reader at its
\* other end, for its messages reach only devices at this connection, and an end
\* without a reader is closed (peer.go:151-173, 258-281).
THEOREM HeldUpCorrect == Spec => []HeldUpByReader
  <1>1. TypeOK /\ NetInv => HeldUpByReader
    <2> SUFFICES ASSUME TypeOK, NetInv, NEW c \in Conn, NEW n \in Node, ~Free(c, n)
                 PROVE  \E m \in Node : Between(c, n, m) /\ ~At(c, m, "done")
      BY DEF HeldUpByReader
    <2>1. PICK m \in Node : \E i \in DOMAIN stream[c][m] : stream[c][m][i].from = n
      BY DEF Free
    <2>2. Between(c, n, m) /\ Has(c, m) /\ c \in Made
      <3>1. Between(c, m, n)
        BY <2>1 DEF NetInv, StreamInv
      <3> QED
        BY <3>1 DEF Between, Has
    <2>3. <<c, m>> \notin shut
      BY DEF Free, Open
    <2> QED
      BY <2>2, <2>3 DEF NetInv
  <1> QED
    BY <1>1, DevicesTypeCorrect, NetworkCorrect, PTL
=============================================================================
