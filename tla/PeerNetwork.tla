----------------------------- MODULE PeerNetwork -----------------------------
(***************************************************************************)
(* Connections between devices of the metadata engine and the map of peers *)
(* each keeps (internal/network/peer.go).                                  *)
(*                                                                         *)
(* discoverPeers dials every address again every 30 seconds, connected or  *)
(* not.  Each end of a connection has a goroutine, handleConnection, that  *)
(* decodes a message, makes the connection the sender's in the peers map   *)
(* and runs the handler before it decodes the next.  A peer is written to  *)
(* over the connection of its last message; a connection that is replaced  *)
(* stays open, and entries are never removed.                              *)
(*                                                                         *)
(* Dialling every address of its network a device also dials itself; the   *)
(* end that dialled such a connection is never written to and ends with    *)
(* the other, which the model has for both.                                *)
(*                                                                         *)
(* A message is a record whose from and big matter here: a big one does    *)
(* not fit into the connection's buffers, and holds up its writer and      *)
(* every later one until the other end has decoded it.  BroadcastMessage   *)
(* holds the read lock of the map while it writes.  What a handler does is *)
(* the business of the module that EXTENDS this one.                       *)
(***************************************************************************)
EXTENDS Naturals, Sequences, FiniteSets

CONSTANTS
    Node,        \* devices
    Reach,       \* pairs <<n, m>>: n can dial m
    Stopping,    \* devices that may be stopped
    MaxConns,    \* bound: connections dialled
    MaxServed,   \* bound: no dial while this many connections have a reader
    MaxUnderWay  \* bound: no broadcast begins while this many messages are under way

ASSUME NetworkAssumption ==
    /\ Reach \subseteq Node \X Node
    /\ Stopping \subseteq Node
    /\ MaxConns \in Nat /\ MaxServed \in 1 .. MaxConns /\ MaxUnderWay \in Nat \ {0}

None == 0
Conn == 1 .. MaxConns

VARIABLES
    status,   \* "up", "stopping" (cancelled), "waiting" (for the lock) or "stopped"
    link,     \* the two ends of each connection, in the order of the dials
    cut,      \* connections the network has ended
    shut,     \* pairs <<c, n>>: n has closed its end of c
    stream,   \* stream[c][n]: messages on their way to n on connection c
    reader,   \* reader[c][n]: handleConnection at n's end of c
    peers,    \* peers[n][m]: the connection over which n writes to m, or None
    cast      \* BroadcastMessage of n: its message, the peer written to, those still to come

netVars == <<status, link, cut, shut, stream, reader, peers, cast>>

Made    == DOMAIN link
Has(c, n) == c \in Made /\ n \in {link[c].from, link[c].to}
Open(c) == c \notin cut /\ \A n \in Node : <<c, n>> \notin shut

Decoding    == [pc |-> "decode"]
Ended       == [pc |-> "done"]
Served == {c \in Made : \E n \in Node : reader[c][n] # Ended}
At(c, n, pc) == Has(c, n) /\ reader[c][n].pc = pc

Silence == [pc |-> "idle"]

-----------------------------------------------------------------------------
(* The lock of the peers map: a broadcast reads under it until its last    *)
(* write, and whoever waits to write keeps new readers out.                *)

Casting(n)  == cast[n] # Silence
Awaited(n)  == status[n] = "waiting" \/ \E c \in Made : At(c, n, "wait")
MayWrite(n) == ~Casting(n)
MayRead(n)  == ~Awaited(n)

\* A big message on c keeps the next ones of its sender n off the connection.
Free(c, n) ==
    \/ c = None \/ ~Open(c)
    \/ \A m \in Node : \A i \in DOMAIN stream[c][m] :
          ~(stream[c][m][i].big /\ stream[c][m][i].from = n)

\* Encode, on the connection c with m: an error is logged or ignored.
Put(c, m, msg) ==
    stream' = IF c # None /\ Open(c) THEN [stream EXCEPT ![c][m] = Append(@, msg)] ELSE stream

-----------------------------------------------------------------------------
Discovery(n) == [from |-> n, type |-> "discovery", big |-> FALSE]

\* tryConnect of n and acceptConnections of m: both ends get a reader, which
\* ends at once on a node that is cancelled.  A dial under way outlives Stop.
Dial(n, m) ==
    LET c == Len(link) + 1 IN
    /\ <<n, m>> \in Reach /\ c <= MaxConns /\ Cardinality(Served) < MaxServed
    /\ status[m] # "stopped"
    /\ link' = Append(link, [from |-> n, to |-> m])
    /\ stream' = [stream EXCEPT ![c][m] = <<Discovery(n)>>]
    /\ reader' = [reader EXCEPT ![c] = [x \in Node |->
                      IF x \in {n, m} /\ status[x] = "up" THEN Decoding ELSE Ended]]
    /\ shut' = shut \cup {<<c, x>> : x \in {y \in {n, m} : status[y] # "up"}}
    /\ UNCHANGED <<status, cut, peers, cast>>

\* The network ends a connection; for each that ends one more may be dialled.
Break(c) ==
    /\ c \in Made \ cut /\ Cardinality(cut) < MaxConns - MaxServed
    /\ cut' = cut \cup {c}
    /\ UNCHANGED <<status, link, shut, stream, reader, peers, cast>>

-----------------------------------------------------------------------------
(* handleConnection.                                                       *)

Becomes(c, n, r) == reader' = [reader EXCEPT ![c][n] = r]

\* Mutant of Ends: the connection is not closed.
EndsOpen(c, n) == Becomes(c, n, Ended) /\ UNCHANGED shut

\* The deferred Close.
Ends(c, n) == Becomes(c, n, Ended) /\ shut' = shut \cup {<<c, n>>}

\* Mutant of Again: the context is not looked at between two messages.
AgainForever(c, n) == Becomes(c, n, Decoding) /\ UNCHANGED shut

\* After the handler the loop looks at the context.
Again(c, n) ==
    IF status[n] = "up" THEN Becomes(c, n, Decoding) /\ UNCHANGED shut ELSE Ends(c, n)

Decode(c, n) ==
    /\ At(c, n, "decode") /\ <<c, n>> \notin shut /\ stream[c][n] # <<>>
    /\ stream' = [stream EXCEPT ![c][n] = Tail(@)]
    /\ Becomes(c, n, [pc |-> "handle", msg |-> Head(stream[c][n])])
    /\ UNCHANGED <<status, link, cut, shut, peers, cast>>

\* What has not been read of a connection that is closed may be lost.
DecodeFails(c, n) ==
    /\ At(c, n, "decode") /\ ~Open(c)
    /\ Ends(c, n)
    /\ stream' = [stream EXCEPT ![c][n] = <<>>]
    /\ UNCHANGED <<status, link, cut, peers, cast>>

\* Mutant of UpdatePeer: the first connection of a peer is kept.
UpdatePeerOnce(c, n, m) ==
    \/ m = n /\ UNCHANGED peers
    \/ m # n /\ MayWrite(n) /\ peers' = [peers EXCEPT ![n][m] = IF @ = None THEN c ELSE @]

\* A device that hears itself returns before the lock.
UpdatePeer(c, n, m) ==
    \/ m = n /\ UNCHANGED peers
    \/ m # n /\ MayWrite(n) /\ peers' = [peers EXCEPT ![n][m] = c]

\* updatePeer finds the lock taken.
WaitsForLock(c, n) ==
    /\ At(c, n, "handle") /\ reader[c][n].msg.from # n /\ ~MayWrite(n)
    /\ Becomes(c, n, [reader[c][n] EXCEPT !.pc = "wait"])
    /\ UNCHANGED <<status, link, cut, shut, stream, peers, cast>>

\* A decoded message is registered and the handler begins, in one step.  It
\* comes back at once, has work left, or has messages for the sender.
HandleOnly(c, n) ==
    /\ UpdatePeer(c, n, reader[c][n].msg.from)
    /\ Again(c, n)
    /\ UNCHANGED <<status, link, cut, stream, cast>>

HandleWith(c, n, r) ==
    /\ UpdatePeer(c, n, reader[c][n].msg.from)
    /\ Becomes(c, n, r)
    /\ UNCHANGED <<status, link, cut, shut, stream, cast>>

Sending(m, msgs) == [pc |-> "send", to |-> m, msgs |-> msgs]

\* The rest of the handler is done.
Return(c, n) == At(c, n, "work") /\ Again(c, n) /\ UNCHANGED <<status, link, cut, stream, peers, cast>>

(* SendMessage looks the connection up under the lock and writes without   *)
(* it; a big message goes on being written until it has been decoded.      *)

Lookup(c, n) ==
    LET r == reader[c][n] IN
    /\ At(c, n, "send") /\ MayRead(n)
    /\ Becomes(c, n, [pc |-> "write", to |-> r.to, msgs |-> r.msgs, on |-> peers[n][r.to]])
    /\ UNCHANGED <<status, link, cut, shut, stream, peers, cast>>

\* The handler sends its next message, or is done.
Sent(c, n) ==
    LET rest == Tail(reader[c][n].msgs) IN
    IF rest = <<>> THEN Again(c, n)
                   ELSE Becomes(c, n, Sending(reader[c][n].to, rest)) /\ UNCHANGED shut

Encode(c, n) ==
    LET r == reader[c][n]
        msg == Head(r.msgs) IN
    /\ At(c, n, "write") /\ Free(r.on, n)
    /\ Put(r.on, r.to, msg)
    /\ \/ msg.big /\ Becomes(c, n, [r EXCEPT !.pc = "flush"]) /\ UNCHANGED shut
       \/ ~msg.big /\ Sent(c, n)
    /\ UNCHANGED <<status, link, cut, peers, cast>>

Flushed(c, n) ==
    /\ At(c, n, "flush") /\ Free(reader[c][n].on, n)
    /\ Sent(c, n)
    /\ UNCHANGED <<status, link, cut, stream, peers, cast>>

-----------------------------------------------------------------------------
(* BroadcastMessage and Stop.                                              *)

\* Messages on their way, in a handler or still to be sent.
UnderWay ==
      Cardinality(UNION {{<<c, n, i>> : i \in DOMAIN stream[c][n]} : c \in Conn, n \in Node})
    + Cardinality({p \in Conn \X Node : reader[p[1]][p[2]].pc \notin {"decode", "done"}})
    + Cardinality({n \in Node : Casting(n)})

\* One of the peers in to is next, in no order.
CastTo(n, to, msg) ==
    IF to = {} THEN cast' = [cast EXCEPT ![n] = Silence]
    ELSE \E m \in to :
            cast' = [cast EXCEPT ![n] = [pc |-> "write", at |-> m, to |-> to \ {m}, msg |-> msg]]

\* A broadcast to nobody has no effect.
CastBegin(n, msg) ==
    LET known == {m \in Node : peers[n][m] # None} IN
    /\ ~Casting(n) /\ MayRead(n)
    /\ UnderWay < MaxUnderWay
    /\ known # {} /\ CastTo(n, known, msg)
    /\ UNCHANGED <<status, link, cut, shut, stream, reader, peers>>

\* Mutant of CastSend: it waits, with the lock, for a connection that is open.
CastSendWaits(n) ==
    LET k == cast[n] IN
    /\ k.pc = "write" /\ Free(peers[n][k.at], n) /\ Open(peers[n][k.at])
    /\ Put(peers[n][k.at], k.at, k.msg)
    /\ \/ k.msg.big /\ cast' = [cast EXCEPT ![n].pc = "flush"]
       \/ ~k.msg.big /\ CastTo(n, k.to, k.msg)
    /\ UNCHANGED <<status, link, cut, shut, reader, peers>>

CastSend(n) ==
    LET k == cast[n] IN
    /\ k.pc = "write" /\ Free(peers[n][k.at], n)
    /\ Put(peers[n][k.at], k.at, k.msg)
    /\ \/ k.msg.big /\ cast' = [cast EXCEPT ![n].pc = "flush"]
       \/ ~k.msg.big /\ CastTo(n, k.to, k.msg)
    /\ UNCHANGED <<status, link, cut, shut, reader, peers>>

CastFlushed(n) ==
    LET k == cast[n] IN
    /\ k.pc = "flush" /\ Free(peers[n][k.at], n)
    /\ CastTo(n, k.to, k.msg)
    /\ UNCHANGED <<status, link, cut, shut, stream, reader, peers>>

Cancel(n) ==
    /\ n \in Stopping /\ status[n] = "up"
    /\ status' = [status EXCEPT ![n] = "stopping"]
    /\ UNCHANGED <<link, cut, shut, stream, reader, peers, cast>>

StopWaits(n) ==
    /\ status[n] = "stopping" /\ ~MayWrite(n)
    /\ status' = [status EXCEPT ![n] = "waiting"]
    /\ UNCHANGED <<link, cut, shut, stream, reader, peers, cast>>

\* Mutant of StopCloses: an entry without a connection is closed too.
StopClosesAll(n) ==
    /\ status[n] \in {"stopping", "waiting"} /\ MayWrite(n)
    /\ status' = [status EXCEPT ![n] = "stopped"]
    /\ shut' = shut \cup {<<peers[n][m], n>> : m \in Node}
    /\ UNCHANGED <<link, cut, stream, reader, peers, cast>>

\* Stop closes, under the lock, the connections the map holds, and no others.
StopCloses(n) ==
    /\ status[n] \in {"stopping", "waiting"} /\ MayWrite(n)
    /\ status' = [status EXCEPT ![n] = "stopped"]
    /\ shut' = shut \cup {<<peers[n][m], n>> : m \in {x \in Node : peers[n][x] # None}}
    /\ UNCHANGED <<link, cut, stream, reader, peers, cast>>

-----------------------------------------------------------------------------
NetInit ==
    /\ status = [n \in Node |-> "up"]
    /\ link = <<>> /\ cut = {} /\ shut = {}
    /\ stream = [c \in Conn |-> [n \in Node |-> <<>>]]
    /\ reader = [c \in Conn |-> [n \in Node |-> Ended]]
    /\ peers = [n \in Node |-> [m \in Node |-> None]]
    /\ cast = [n \in Node |-> Silence]

\* What goes on whatever the messages say.
NetNext ==
    \/ \E n \in Node : 
          Cancel(n) \/ StopWaits(n) \/ StopCloses(n) \/ CastSend(n) \/ CastFlushed(n)
    \/ \E n, m \in Node : Dial(n, m)
    \/ \E c \in Conn : Break(c)
    \/ \E c \in Conn, n \in Node :
          \/ Decode(c, n) \/ DecodeFails(c, n) \/ WaitsForLock(c, n)
          \/ Lookup(c, n) \/ Encode(c, n) \/ Flushed(c, n)

NetTypeOK(Msg) ==
    /\ status \in [Node -> {"up", "stopping", "waiting", "stopped"}]
    /\ link \in Seq([from : Node, to : Node]) /\ Len(link) <= MaxConns
    /\ cut \subseteq Conn /\ shut \subseteq Conn \X Node
    /\ stream \in [Conn -> [Node -> Seq(Msg)]]
    /\ reader \in [Conn -> [Node ->
           [pc : {"decode", "work", "done"}] \cup [pc : {"handle", "wait"}, msg : Msg]
           \cup [pc : {"send"}, to : Node, msgs : Seq(Msg) \ {<<>>}]
           \cup [pc : {"write", "flush"}, to : Node, msgs : Seq(Msg) \ {<<>>},
                 on : Conn \cup {None}]]]
    /\ peers \in [Node -> [Node -> Conn \cup {None}]]
    /\ cast \in [Node ->
           {Silence} \cup [pc : {"write", "flush"}, at : Node, to : SUBSET Node, msg : Msg]]

\* Connection c has the ends n and m.
Between(c, n, m) == c \in Made /\ {n, m} = {link[c].from, link[c].to}

\* A message that reaches n on c is from the other end, which is n itself for its
\* own discovery only, so the answer to it is for another device, and goes on a
\* connection with that device.
ReaderInv(c, n) ==
    LET r == reader[c][n] IN
    /\ r.pc # "done" => Has(c, n)
    /\ r.pc \in {"handle", "wait"} =>
          Between(c, n, r.msg.from) /\ (r.msg.from = n => r.msg = Discovery(n))
    /\ r.pc \in {"send", "write", "flush"} =>
          r.to # n /\ \A i \in DOMAIN r.msgs : r.msgs[i].from = n
    /\ r.pc \in {"write", "flush"} => r.on = None \/ Between(r.on, n, r.to)

\* Nothing overtakes a big message on its connection.
StreamInv(c, n) ==
    \A i \in DOMAIN stream[c][n] :
        /\ Between(c, n, stream[c][n][i].from)
        /\ stream[c][n][i].from = n => stream[c][n][i] = Discovery(n)
        /\ stream[c][n][i].big => i = Len(stream[c][n])

\* However often connections are doubled, replaced and broken, what a device
\* has for a peer is a connection with that peer, what it reads there is from
\* the peer, no end is open without its reader, and no device has itself for a
\* peer, though it dials itself (peer.go:135-281).
NetInv ==
    /\ \A c \in Conn, n \in Node : ReaderInv(c, n) /\ StreamInv(c, n)
    /\ \A n, m \in Node : peers[n][m] # None => n # m /\ Between(peers[n][m], n, m)
    /\ \A n \in Node : Casting(n) => cast[n].msg.from = n
    /\ \A c \in Made, n \in Node : Has(c, n) /\ At(c, n, "done") => <<c, n>> \in shut
    /\ \A e \in shut : Has(e[1], e[2])

\* Stop closes what the map holds while handlers are still at work: after it the
\* map leads to no open connection, but to one that such a handler has
\* registered since, and closes once it is done
\* (peer.go:111-133, 151-173).
StopClosesMap ==
    \A n, m \in Node :
        LET c == peers[n][m] IN
        status[n] = "stopped" /\ c # None /\ <<c, n>> \notin shut =>
            reader[c][n].pc \in {"work", "send", "write", "flush"}

\* Whatever keeps a handler or a broadcast of n from writing is an open
\* connection whose other end still has its reader, also when that device is
\* being stopped (peer.go:151-173, 258-281).
HeldUpByReader ==
    \A c \in Conn, n \in Node :
        ~Free(c, n) => \E m \in Node : Between(c, n, m) /\ ~At(c, m, "done")
=============================================================================
