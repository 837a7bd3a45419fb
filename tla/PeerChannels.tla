---------------------------- MODULE PeerChannels -----------------------------
(***************************************************************************)
(* The life of peer connections: NetworkManager (pkg/core/network.go) and  *)
(* the peers map of SyncEngine (pkg/core/sync.go).                         *)
(*                                                                         *)
(* Every connection has a receiver goroutine, which registers it, reads    *)
(* until an error and then calls RemovePeer, and a sender goroutine, which *)
(* drains the connection's buffered SendCh into the socket.  syncLoop's    *)
(* broadcastEvent walks the map and sends without blocking.  No lock       *)
(* guards the map or the channels, so RemovePeer is split where another    *)
(* goroutine can come between: look up, close the channel, delete.         *)
(*                                                                         *)
(* A connection accepted by the server has an identifier of its own; one   *)
(* dialled by ConnectToPeer is named after the address, so two dials of    *)
(* one address share it.  A Peer is identified with its connection, a      *)
(* broadcast with the order in which it was made, the answer to a file     *)
(* request with Answer.                                                    *)
(***************************************************************************)
EXTENDS Naturals, Sequences, FiniteSets

CONSTANTS
    Conn,      \* connections
    Id,        \* keys of the peers map
    IdOf,      \* the key each connection registers under
    SendCap,   \* capacity of Peer.SendCh (100 in the code)
    MaxCasts,  \* bound: broadcasts made
    MaxAsked,  \* bound: file requests read
    None       \* no connection

ASSUME PeerAssumption ==
    /\ IdOf \in [Conn -> Id]
    /\ None \notin Conn /\ None \notin Nat
    /\ SendCap \in Nat \ {0} /\ MaxCasts \in Nat /\ MaxAsked \in Nat

VARIABLES
    peers,     \* SyncEngine.peers
    chan,      \* SendCh of each connection's Peer
    closed,    \* the connections whose SendCh has been closed
    sock,      \* "none", "open", "closing" (close frame sent), "broken" or "closed"
    recvPc,    \* receiver: "none", "read", "reply", "close", "delete" or "done"
    recvPeer,  \* the Peer a receiver holds, taken from the map
    sendPc,    \* sender: "none", "select", "write" or "exit"
    inHand,    \* the message a sender is writing, or None
    wire,      \* messages written to each connection's socket
    castPc,    \* broadcastEvent: "idle", "next" or "send"
    castLeft,  \* keys the walk over the map has yet to visit
    castPeer,  \* the Peer the walk is sending to
    made,      \* broadcasts made so far
    asked,     \* file requests read so far
    died       \* "no", or what ended the process: "cast", "reply", "close" or "map"

connVars == <<sock, recvPc, recvPeer, sendPc, inHand, wire>>
castVars == <<castPc, castLeft, castPeer>>
vars == <<peers, chan, closed, sock, recvPc, recvPeer, sendPc, inHand, wire, castPc,
          castLeft, castPeer, made, asked, died>>

Alive == died = "no"
Answer == 0
Msg    == {Answer} \cup 1 .. MaxCasts

\* Mutant of TrySend: the buffer is not bounded.
TrySendUnbounded(c, m, who) ==
    IF c \in closed
      THEN died' = who /\ UNCHANGED chan
      ELSE chan' = [chan EXCEPT ![c] = Append(@, m)] /\ UNCHANGED died

\* A send that does not block: the message is skipped when the buffer is full,
\* and sending on a closed channel ends the process.
TrySend(c, m, who) ==
    IF c \in closed
      THEN died' = who /\ UNCHANGED chan
      ELSE /\ chan' = (IF Len(chan[c]) < SendCap THEN [chan EXCEPT ![c] = Append(@, m)]
                                                  ELSE chan)
           /\ UNCHANGED died

-----------------------------------------------------------------------------
(* Receivers: handleWebSocket and ConnectToPeer with messageReceiver.      *)

\* AddPeer replaces whatever is registered under the key.  A walk over the
\* map may or may not meet an entry added meanwhile.
Connect(c) ==
    /\ Alive /\ recvPc[c] = "none"
    /\ peers' = [peers EXCEPT ![IdOf[c]] = c]
    /\ sock' = [sock EXCEPT ![c] = "open"]
    /\ recvPc' = [recvPc EXCEPT ![c] = "read"]
    /\ sendPc' = [sendPc EXCEPT ![c] = "select"]
    /\ castLeft' \in {castLeft} \cup (IF castPc = "idle" THEN {} ELSE {castLeft \cup {IdOf[c]}})
    /\ UNCHANGED <<chan, closed, recvPeer, inHand, wire, castPc, castPeer, made, asked, died>>

\* handleFileRequest: the peer is looked up, the file read, the answer sent.
ReadRequest(c) ==
    /\ Alive /\ recvPc[c] = "read" /\ sock[c] \in {"open", "closing"}
    /\ asked < MaxAsked /\ peers[IdOf[c]] # None
    /\ asked' = asked + 1
    /\ recvPeer' = [recvPeer EXCEPT ![c] = peers[IdOf[c]]]
    /\ recvPc' = [recvPc EXCEPT ![c] = "reply"]
    /\ UNCHANGED <<peers, chan, closed, sock, sendPc, inHand, wire, castVars, made, died>>

Reply(c) ==
    /\ Alive /\ recvPc[c] = "reply"
    /\ TrySend(recvPeer[c], Answer, "reply")
    /\ recvPc' = [recvPc EXCEPT ![c] = "read"]
    /\ recvPeer' = [recvPeer EXCEPT ![c] = None]
    /\ UNCHANGED <<peers, closed, sock, sendPc, inHand, wire, castVars, made, asked>>

\* A connection that is gone, or a message that is no JSON, ends the loop; the
\* deferred RemovePeer looks its key up.
ReadFails(c) ==
    /\ Alive /\ recvPc[c] = "read"
    /\ IF peers[IdOf[c]] = None
         THEN /\ recvPc' = [recvPc EXCEPT ![c] = "done"]
              /\ sock' = [sock EXCEPT ![c] = "closed"]
              /\ UNCHANGED recvPeer
         ELSE /\ recvPc' = [recvPc EXCEPT ![c] = "close"]
              /\ recvPeer' = [recvPeer EXCEPT ![c] = peers[IdOf[c]]]
              /\ UNCHANGED sock
    /\ UNCHANGED <<peers, chan, closed, sendPc, inHand, wire, castVars, made, asked, died>>

\* close(peer.SendCh); closing a closed channel ends the process.
RemoveClose(c) ==
    /\ Alive /\ recvPc[c] = "close"
    /\ IF recvPeer[c] \in closed
         THEN died' = "close" /\ UNCHANGED <<closed, recvPc>>
         ELSE /\ closed' = closed \cup {recvPeer[c]}
              /\ recvPc' = [recvPc EXCEPT ![c] = "delete"]
              /\ UNCHANGED died
    /\ UNCHANGED <<peers, chan, sock, recvPeer, sendPc, inHand, wire, castVars, made, asked>>

\* delete(s.peers, peerID), then the deferred conn.Close.
RemoveDelete(c) ==
    /\ Alive /\ recvPc[c] = "delete"
    /\ peers' = [peers EXCEPT ![IdOf[c]] = None]
    /\ recvPc' = [recvPc EXCEPT ![c] = "done"]
    /\ recvPeer' = [recvPeer EXCEPT ![c] = None]
    /\ sock' = [sock EXCEPT ![c] = "closed"]
    /\ UNCHANGED <<chan, closed, sendPc, inHand, wire, castVars, made, asked, died>>

-----------------------------------------------------------------------------
(* messageSender.                                                          *)

SenderTake(c) ==
    /\ Alive /\ sendPc[c] = "select" /\ chan[c] # <<>>
    /\ inHand' = [inHand EXCEPT ![c] = Head(chan[c])]
    /\ chan' = [chan EXCEPT ![c] = Tail(@)]
    /\ sendPc' = [sendPc EXCEPT ![c] = "write"]
    /\ UNCHANGED <<peers, closed, sock, recvPc, recvPeer, wire, castVars, made, asked, died>>

\* Mutants of SenderWrite: a lost message is queued again; a failed write
\* removes the peer; a write is retried until it succeeds.
SenderWriteRequeues(c) ==
    /\ Alive /\ sendPc[c] = "write"
    /\ inHand' = [inHand EXCEPT ![c] = None]
    /\ sendPc' = [sendPc EXCEPT ![c] = "select"]
    /\ IF sock[c] \in {"open", "closing"}
         THEN wire' = [wire EXCEPT ![c] = Append(@, inHand[c])] /\ UNCHANGED chan
         ELSE chan' = [chan EXCEPT ![c] = Append(@, inHand[c])] /\ UNCHANGED wire
    /\ UNCHANGED <<peers, closed, sock, recvPc, recvPeer, castVars, made, asked, died>>

SenderWriteRemoves(c) ==
    /\ Alive /\ sendPc[c] = "write"
    /\ inHand' = [inHand EXCEPT ![c] = None]
    /\ IF sock[c] \in {"open", "closing"}
         THEN /\ wire' = [wire EXCEPT ![c] = Append(@, inHand[c])]
              /\ sendPc' = [sendPc EXCEPT ![c] = "select"]
              /\ UNCHANGED <<peers, closed>>
         ELSE /\ sendPc' = [sendPc EXCEPT ![c] = "exit"]
              /\ peers' = [peers EXCEPT ![IdOf[c]] = None] /\ closed' = closed \cup {c}
              /\ UNCHANGED wire
    /\ UNCHANGED <<chan, sock, recvPc, recvPeer, castVars, made, asked, died>>

SenderWriteRetries(c) ==
    /\ Alive /\ sendPc[c] = "write" /\ sock[c] \in {"open", "closing"}
    /\ inHand' = [inHand EXCEPT ![c] = None]
    /\ wire' = [wire EXCEPT ![c] = Append(@, inHand[c])]
    /\ sendPc' = [sendPc EXCEPT ![c] = "select"]
    /\ UNCHANGED <<peers, chan, closed, sock, recvPc, recvPeer, castVars, made, asked, died>>

\* A write to a broken connection may fail at once or be lost in a buffer.
SenderWrite(c) ==
    /\ Alive /\ sendPc[c] = "write"
    /\ inHand' = [inHand EXCEPT ![c] = None]
    /\ \/ /\ sock[c] \in {"open", "closing"}
          /\ wire' = [wire EXCEPT ![c] = Append(@, inHand[c])]
          /\ sendPc' = [sendPc EXCEPT ![c] = "select"]
       \/ /\ sock[c] = "broken"
          /\ sendPc' = [sendPc EXCEPT ![c] = "select"]
          /\ UNCHANGED wire
       \/ /\ sock[c] \in {"broken", "closed"}
          /\ sendPc' = [sendPc EXCEPT ![c] = "exit"]
          /\ UNCHANGED wire
    /\ UNCHANGED <<peers, chan, closed, sock, recvPc, recvPeer, castVars, made, asked, died>>

\* The channel is drained and closed: a close frame is sent, the loop ends.
SenderCloses(c) ==
    /\ Alive /\ sendPc[c] = "select" /\ chan[c] = <<>> /\ c \in closed
    /\ sendPc' = [sendPc EXCEPT ![c] = "exit"]
    /\ sock' = (IF sock[c] = "open" THEN [sock EXCEPT ![c] = "closing"] ELSE sock)
    /\ UNCHANGED <<peers, chan, closed, recvPc, recvPeer, inHand, wire, castVars, made, asked, died>>

\* The ticker's ping: it fails on a connection that is gone.
SenderPingFails(c) ==
    /\ Alive /\ sendPc[c] = "select" /\ sock[c] \in {"broken", "closed"}
    /\ sendPc' = [sendPc EXCEPT ![c] = "exit"]
    /\ UNCHANGED <<peers, chan, closed, sock, recvPc, recvPeer, inHand, wire, castVars,
                   made, asked, died>>

-----------------------------------------------------------------------------
(* broadcastEvent, and the network.                                        *)

CastBegin ==
    /\ Alive /\ castPc = "idle" /\ made < MaxCasts
    /\ made' = made + 1
    /\ castPc' = "next"
    /\ castLeft' = {i \in Id : peers[i] # None}
    /\ UNCHANGED <<peers, chan, closed, connVars, castPeer, asked, died>>

\* The walk takes the Peer under the key, or passes over a deleted key.
CastNext(i) ==
    /\ Alive /\ castPc = "next" /\ i \in castLeft
    /\ castLeft' = castLeft \ {i}
    /\ IF peers[i] = None
         THEN UNCHANGED <<castPc, castPeer>>
         ELSE castPc' = "send" /\ castPeer' = peers[i]
    /\ UNCHANGED <<peers, chan, closed, connVars, made, asked, died>>

CastSend ==
    /\ Alive /\ castPc = "send"
    /\ TrySend(castPeer, made, "cast")
    /\ castPc' = "next" /\ castPeer' = None
    /\ UNCHANGED <<peers, closed, connVars, castLeft, made, asked>>

CastEnd ==
    /\ Alive /\ castPc = "next" /\ castLeft = {}
    /\ castPc' = "idle"
    /\ UNCHANGED <<peers, chan, closed, connVars, castLeft, castPeer, made, asked, died>>

\* The runtime may catch a map write of AddPeer or RemovePeer that overlaps the
\* walk, or a write or lookup of another receiver, and end the process.
MapRace(c) ==
    /\ Alive /\ recvPc[c] \in {"none", "delete"}
    /\ castPc = "next" \/ \E d \in Conn \ {c} : recvPc[d] \in {"none", "read", "delete"}
    /\ died' = "map"
    /\ UNCHANGED <<peers, chan, closed, connVars, castVars, made, asked>>

\* The remote side or the network gives up, or answers a close frame.
Break(c) ==
    /\ Alive /\ sock[c] \in {"open", "closing"}
    /\ sock' = [sock EXCEPT ![c] = "broken"]
    /\ UNCHANGED <<peers, chan, closed, recvPc, recvPeer, sendPc, inHand, wire, castVars,
                   made, asked, died>>

-----------------------------------------------------------------------------
Init ==
    /\ peers = [i \in Id |-> None]
    /\ chan = [c \in Conn |-> <<>>] /\ closed = {}
    /\ sock = [c \in Conn |-> "none"]
    /\ recvPc = [c \in Conn |-> "none"] /\ recvPeer = [c \in Conn |-> None]
    /\ sendPc = [c \in Conn |-> "none"] /\ inHand = [c \in Conn |-> None]
    /\ wire = [c \in Conn |-> <<>>]
    /\ castPc = "idle" /\ castLeft = {} /\ castPeer = None
    /\ made = 0 /\ asked = 0 /\ died = "no"

Receiver(c) == ReadRequest(c) \/ Reply(c) \/ ReadFails(c) \/ RemoveClose(c) \/ RemoveDelete(c)
Sender(c)   == SenderTake(c) \/ SenderWrite(c) \/ SenderCloses(c) \/ SenderPingFails(c)
Cast        == CastBegin \/ (\E i \in Id : CastNext(i)) \/ CastSend \/ CastEnd

Next == \/ \E c \in Conn : Connect(c) \/ Receiver(c) \/ Sender(c) \/ MapRace(c) \/ Break(c)
        \/ Cast

Spec == Init /\ [][Next]_vars

\* Goroutines run; nobody owes a connection, a request, an event or a failure.
FairSpec == Spec /\ WF_vars(Cast)
                 /\ \A c \in Conn : /\ WF_vars(Sender(c))
                                    /\ WF_vars(\/ sock[c] = "broken" /\ ReadFails(c)
                                               \/ RemoveClose(c) \/ RemoveDelete(c))

-----------------------------------------------------------------------------
(* What the connections promise.                                           *)

TypeOK ==
    /\ peers \in [Id -> Conn \cup {None}]
    /\ chan \in [Conn -> Seq(Msg)] /\ \A c \in Conn : Len(chan[c]) <= SendCap
    /\ closed \subseteq Conn
    /\ sock \in [Conn -> {"none", "open", "closing", "broken", "closed"}]
    /\ recvPc \in [Conn -> {"none", "read", "reply", "close", "delete", "done"}]
    /\ recvPeer \in [Conn -> Conn \cup {None}]
    /\ \A c \in Conn : recvPc[c] \in {"reply", "close", "delete"} => recvPeer[c] # None
    /\ sendPc \in [Conn -> {"none", "select", "write", "exit"}]
    /\ inHand \in [Conn -> Msg \cup {None}]
    /\ \A c \in Conn : sendPc[c] = "write" => inHand[c] # None
    /\ wire \in [Conn -> Seq(Msg)]
    /\ castPc \in {"idle", "next", "send"} /\ castLeft \subseteq Id
    /\ castPeer \in Conn \cup {None} /\ (castPc = "send" => castPeer # None)
    /\ made \in 0 .. MaxCasts /\ asked \in 0 .. MaxAsked
    /\ died \in {"no", "cast", "reply", "close", "map"}

\* A connection that is being read is registered, as itself: it gets every
\* broadcast, and the answer to its requests (sync.go:145, 224).
ConnectedIsRegistered ==
    \A c \in Conn : recvPc[c] \in {"read", "reply", "close"} => peers[IdOf[c]] = c

\* No channel is closed twice, and no answer is sent on a closed channel,
\* whatever ends first: of all sends and closes only the broadcast's walk can
\* meet a channel torn down behind its back (sync.go:145, 240, 265).
OnlyTheWalkDies == died \notin {"close", "reply"}

\* The reason for both, when every connection has a key of its own: from its
\* registration to its removal a connection is what the map has under its key,
\* its receiver holds no other Peer, and nobody else closes its channel.
OwnIds == \A c, d \in Conn : IdOf[c] = IdOf[d] => c = d
LifeInv ==
    /\ \A c \in Conn : recvPc[c] \in {"read", "reply", "close", "delete"} => peers[IdOf[c]] = c
    /\ \A c \in Conn : recvPc[c] \in {"reply", "close", "delete"} => recvPeer[c] = c
    /\ \A c \in closed : recvPc[c] \in {"delete", "done"}
    /\ OnlyTheWalkDies

\* The broadcasts one peer gets, and will get, are in the order they were
\* made: one is skipped when the buffer is full, none is swapped or repeated.
Outgoing(c) == wire[c] \o (IF inHand[c] = None THEN <<>> ELSE <<inHand[c]>>) \o chan[c]
InOrder ==
    \A c \in Conn :
        LET q == Outgoing(c) IN
        \A i, j \in DOMAIN q : i < j /\ Answer \notin {q[i], q[j]} => q[i] < q[j]

\* A sender outlives its connection only for so long (network.go:93-118).
SenderEnds == \A c \in Conn : (recvPc[c] = "done") ~> (sendPc[c] = "exit" \/ ~Alive)

\* "RemovePeer removes a peer connection" (sync.go:262): the one whose
\* receiver calls it, and no other.
RemovesItsOwn == [][\A c \in Conn : c \in closed' \ closed => recvPc[c] = "close"]_vars
=============================================================================
