----------------------------- MODULE ConnMonitor -----------------------------
(***************************************************************************)
(* The connection monitor of a peer network and the map of peers it keeps  *)
(* up to date through two callbacks (internal/network/monitor.go and the   *)
(* half of internal/network/peer.go that it calls).                        *)
(*                                                                         *)
(* checkConnections pings, every five seconds and under the lock, each     *)
(* connection that has been silent for 30 seconds, and starts a goroutine  *)
(* for each that does not answer.  Those goroutines dial without the lock, *)
(* take it to replace or give up the entry, and call back without it.      *)
(* Nothing stops a check from starting another one beside them.            *)
(*                                                                         *)
(* Quality, latency and the counters are left out: no decision reads them. *)
(* Connections are numbered in the order in which they are made.           *)
(***************************************************************************)
EXTENDS Naturals, FiniteSets

CONSTANTS
    Device,       \* identifiers of the other devices
    MaxRetries,   \* dials of one attempt (5 in the code)
    Slot,         \* bound: names of attempts in flight for one device
    MaxConns,     \* bound: connections made
    MaxCalls      \* bound: calls of the monitor's and network's methods

ASSUME MonitorAssumption ==
    /\ MaxRetries \in Nat \ {0}
    /\ MaxConns \in Nat
    /\ MaxCalls \in Nat

None == 0
Conn == 1 .. MaxConns

\* An attempt by the step it takes next: "install" holds the lock, "notify"
\* and "report" are the callbacks; "idle" stands for no attempt.
Attempt == [pc : {"idle", "dial", "install", "notify", "giveup", "report"},
            try : 0 .. MaxRetries - 1, conn : Conn \cup {None}]

Idle     == [pc |-> "idle", try |-> 0, conn |-> None]
Starting == [pc |-> "dial", try |-> 0, conn |-> None]

VARIABLES
    entry,      \* ConnectionMonitor.connections: conn is None where there is none
    attempt,    \* the goroutines of attemptReconnection, by device and slot
    peer,       \* PeerNetwork.peers: the connection of each peer, or None
    loop,       \* is monitorLoop running?
    over,       \* has Close been called?
    made,       \* connections made so far
    dead,       \* connections the network or the other side has ended
    closed,     \* connections the monitor has closed
    history,    \* "new", "alone" or "crossed": what has met over each device
    calls       \* bounded counter

vars == <<entry, attempt, peer, loop, over, made, dead, closed, history, calls>>

NoEntry  == [conn |-> None, stale |-> FALSE]
Fresh(c) == [conn |-> c, stale |-> FALSE]

Monitored   == {d \in Device : entry[d].conn # None}
Alive(c)    == c \notin dead \cup closed
InFlight(d) == \E s \in Slot : attempt[d][s].pc # "idle"

Make(c) == made < MaxConns /\ c = made + 1 /\ made' = c
Call    == calls < MaxCalls /\ calls' = calls + 1

\* The history of a device: "new" before its first attempt, "alone" while its
\* attempts have neither overlapped nor been followed by a call that changes
\* either map, "crossed" afterwards.
Called(ds) == history' = [d \in Device |->
                  IF d \in ds /\ history[d] # "new" THEN "crossed" ELSE history[d]]
-----------------------------------------------------------------------------
(* Methods of the monitor; each holds the lock throughout.                 *)

\* The connection of an entry that is replaced is not closed.
AddConnection(d, c) ==
    /\ Call /\ Make(c)
    /\ entry' = [entry EXCEPT ![d] = Fresh(c)]
    /\ Called({d})
    /\ UNCHANGED <<attempt, peer, loop, over, dead, closed>>

RemoveConnection(d) ==
    /\ Call
    /\ d \in Monitored
    /\ closed' = closed \cup {entry[d].conn}
    /\ entry' = [entry EXCEPT ![d] = NoEntry]
    /\ Called({d})
    /\ UNCHANGED <<attempt, peer, loop, over, made, dead>>

UpdateActivity(d) ==
    /\ Call
    /\ d \in Monitored
    /\ entry' = [entry EXCEPT ![d].stale = FALSE]
    /\ UNCHANGED <<attempt, peer, loop, over, made, dead, closed, history>>

\* Close ends the context first; monitorLoop may see a tick before it.
Close ==
    /\ Call
    /\ over' = TRUE
    /\ closed' = closed \cup {entry[d].conn : d \in Monitored}
    /\ entry' = [d \in Device |-> NoEntry]
    /\ Called(Device)
    /\ UNCHANGED <<attempt, peer, loop, made, dead>>

-----------------------------------------------------------------------------
(* The peer network: a message through a connection of its own, and Stop,  *)
(* which closes what the peers map holds and leaves the monitor running.   *)

UpdatePeer(d, c) ==
    /\ Call /\ Make(c)
    /\ peer' = [peer EXCEPT ![d] = c]
    /\ Called({d})
    /\ UNCHANGED <<entry, attempt, loop, over, dead, closed>>

StopNetwork ==
    /\ Call
    /\ dead' = dead \cup {peer[d] : d \in {x \in Device : peer[x] # None}}
    /\ UNCHANGED <<entry, attempt, peer, loop, over, made, closed, history>>

-----------------------------------------------------------------------------
(* Time and the network.                                                   *)

\* Thirty seconds without activity.
GrowStale(d) ==
    /\ d \in Monitored /\ ~entry[d].stale
    /\ entry' = [entry EXCEPT ![d].stale = TRUE]
    /\ UNCHANGED <<attempt, peer, loop, over, made, dead, closed, history, calls>>

Break(c) ==
    /\ c <= made /\ c \notin dead
    /\ dead' = dead \cup {c}
    /\ UNCHANGED <<entry, attempt, peer, loop, over, made, closed, history, calls>>

-----------------------------------------------------------------------------
(* monitorLoop.                                                            *)

Free(d) == {s \in Slot : attempt[d][s].pc = "idle"}

\* Every entry that is stale is pinged; only a live connection can answer.
\* LastSeen is not updated by an answer.
Check(answers) ==
    LET failing == {d \in Monitored : entry[d].stale} \ answers IN
    /\ loop
    /\ answers \subseteq {d \in Monitored : entry[d].stale /\ Alive(entry[d].conn)}
    /\ failing # {} /\ \A d \in failing : Free(d) # {}
    /\ attempt' = [d \in Device |->
           IF d \in failing
             THEN [attempt[d] EXCEPT ![CHOOSE s \in Free(d) : TRUE] = Starting]
             ELSE attempt[d]]
    /\ history' = [d \in Device |->
           IF d \notin failing THEN history[d]
           ELSE IF history[d] = "new" THEN "alone"
           ELSE IF InFlight(d) THEN "crossed" ELSE history[d]]
    /\ UNCHANGED <<entry, peer, loop, over, made, dead, closed, calls>>

LoopExit ==
    /\ loop /\ over
    /\ loop' = FALSE
    /\ UNCHANGED <<entry, attempt, peer, over, made, dead, closed, history, calls>>

-----------------------------------------------------------------------------
(* attemptReconnection.  Sleeping and dialling are one step.               *)

Becomes(d, s, a) == attempt' = [attempt EXCEPT ![d][s] = a]

\* Mutant of DialFails: the retries are not counted.
DialFailsUncounted(d, s) ==
    /\ attempt[d][s].pc = "dial"
    /\ Becomes(d, s, Starting)
    /\ UNCHANGED <<entry, peer, loop, over, made, dead, closed, history, calls>>

\* Mutant of DialFails: one dial more than there are retries.
DialFailsOnceMore(d, s) ==
    LET a == attempt[d][s] IN
    /\ a.pc = "dial"
    /\ Becomes(d, s, IF a.try = MaxRetries THEN [Idle EXCEPT !.pc = "giveup"]
                                           ELSE [a EXCEPT !.try = @ + 1])
    /\ UNCHANGED <<entry, peer, loop, over, made, dead, closed, history, calls>>

DialFails(d, s) ==
    LET a == attempt[d][s] IN
    /\ a.pc = "dial"
    /\ Becomes(d, s, IF a.try + 1 = MaxRetries THEN [Idle EXCEPT !.pc = "giveup"]
                                               ELSE [a EXCEPT !.try = @ + 1])
    /\ UNCHANGED <<entry, peer, loop, over, made, dead, closed, history, calls>>

DialSucceeds(d, s, c) ==
    /\ attempt[d][s].pc = "dial"
    /\ Make(c)
    /\ Becomes(d, s, [Idle EXCEPT !.pc = "install", !.conn = c])
    /\ UNCHANGED <<entry, peer, loop, over, dead, closed, history, calls>>

\* Mutant of Install: the new connection is closed in place of the old one.
InstallClosesNew(d, s) ==
    LET a == attempt[d][s] IN
    /\ a.pc = "install"
    /\ entry' = [entry EXCEPT ![d] = IF d \in Monitored THEN Fresh(a.conn) ELSE @]
    /\ closed' = (IF d \in Monitored THEN closed \cup {a.conn} ELSE closed)
    /\ Becomes(d, s, [a EXCEPT !.pc = "notify"])
    /\ UNCHANGED <<peer, loop, over, made, dead, history, calls>>

\* Mutant of Install: the entry keeps its old connection.
InstallKeepsOld(d, s) ==
    LET a == attempt[d][s] IN
    /\ a.pc = "install"
    /\ entry' = [entry EXCEPT ![d].stale = FALSE]
    /\ Becomes(d, s, [a EXCEPT !.pc = "notify"])
    /\ UNCHANGED <<peer, loop, over, made, dead, closed, history, calls>>

\* Without an entry the new connection is kept by nobody but the callback.
Install(d, s) ==
    LET a == attempt[d][s] IN
    /\ a.pc = "install"
    /\ entry' = [entry EXCEPT ![d] = IF d \in Monitored THEN Fresh(a.conn) ELSE @]
    /\ closed' = (IF d \in Monitored THEN closed \cup {entry[d].conn} ELSE closed)
    /\ Becomes(d, s, [a EXCEPT !.pc = "notify"])
    /\ UNCHANGED <<peer, loop, over, made, dead, history, calls>>

\* handleReconnection.
Notify(d, s) ==
    /\ attempt[d][s].pc = "notify"
    /\ peer' = [peer EXCEPT ![d] = IF @ = None THEN None ELSE attempt[d][s].conn]
    /\ Becomes(d, s, Idle)
    /\ UNCHANGED <<entry, loop, over, made, dead, closed, history, calls>>

\* The entry is deleted, whatever has become of it since the attempt began.
GiveUp(d, s) ==
    /\ attempt[d][s].pc = "giveup"
    /\ entry' = [entry EXCEPT ![d] = NoEntry]
    /\ Becomes(d, s, [Idle EXCEPT !.pc = "report"])
    /\ UNCHANGED <<peer, loop, over, made, dead, closed, history, calls>>

\* handleDisconnection.
Report(d, s) ==
    /\ attempt[d][s].pc = "report"
    /\ peer' = [peer EXCEPT ![d] = None]
    /\ Becomes(d, s, Idle)
    /\ UNCHANGED <<entry, loop, over, made, dead, closed, history, calls>>

-----------------------------------------------------------------------------
Init ==
    /\ entry = [d \in Device |-> NoEntry]
    /\ attempt = [d \in Device |-> [s \in Slot |-> Idle]]
    /\ peer = [d \in Device |-> None]
    /\ loop = TRUE /\ over = FALSE
    /\ made = 0 /\ dead = {} /\ closed = {} /\ history = [d \in Device |-> "new"] /\ calls = 0

Caller ==
    \/ \E d \in Device, c \in Conn : AddConnection(d, c) \/ UpdatePeer(d, c)
    \/ \E d \in Device : RemoveConnection(d) \/ UpdateActivity(d)
    \/ StopNetwork \/ Close

Environment ==
    \/ \E d \in Device : GrowStale(d)
    \/ \E c \in Conn : Break(c)

Checking == \E answers \in SUBSET Device : Check(answers)

Reconnect(d, s) ==
    \/ DialFails(d, s) \/ (\E c \in Conn : DialSucceeds(d, s, c))
    \/ Install(d, s) \/ Notify(d, s) \/ GiveUp(d, s) \/ Report(d, s)

Next ==
    \/ Caller \/ Environment \/ Checking \/ LoopExit
    \/ \E d \in Device, s \in Slot : Reconnect(d, s)

Spec == Init /\ [][Next]_vars

\* Time passes, the ticker ticks and every goroutine that can go on does.
FairSpec ==
    /\ Spec
    /\ \A d \in Device : WF_vars(GrowStale(d))
    /\ WF_vars(Checking) /\ WF_vars(LoopExit)
    /\ \A d \in Device, s \in Slot : WF_vars(Reconnect(d, s))
-----------------------------------------------------------------------------
(* What the monitor promises.                                              *)

TypeOK ==
    /\ entry \in [Device -> [conn : Conn \cup {None}, stale : BOOLEAN]]
    /\ attempt \in [Device -> [Slot -> Attempt]]
    /\ peer \in [Device -> Conn \cup {None}]
    /\ loop \in BOOLEAN /\ over \in BOOLEAN
    /\ made \in 0 .. MaxConns
    /\ dead \subseteq Conn /\ closed \subseteq Conn
    /\ history \in [Device -> {"new", "alone", "crossed"}]
    /\ calls \in 0 .. MaxCalls

\* Whatever attempts overlap, the monitor never keeps a connection it has
\* itself closed, nor one connection for two devices (monitor.go:62-86,
\* 260-268, 330-345).
HoldsItsOwn ==
    /\ \A d \in Monitored : entry[d].conn \notin closed
    /\ \A d, e \in Monitored : entry[d].conn = entry[e].conn => d = e

\* Once its attempts are over, the peers map has for a device what the
\* monitor has for it, the connection of the last reconnection or nothing,
\* unless two attempts overlapped or somebody else changed either map
\* (monitor.go:260-286, peer.go:419-440).
PeersFollow ==
    \A d \in Device : history[d] = "alone" /\ ~InFlight(d) =>
        peer[d] \in {None, entry[d].conn}

\* The connection of an entry that is dead is replaced or given up while the
\* monitor runs, however many attempts run beside each other and fail
\* (monitor.go:159-187, 243-287).
DeadIsResolved ==
    \A d \in Device :
        (d \in Monitored /\ entry[d].conn \in dead) ~>
            (over \/ d \notin Monitored \/ entry[d].conn \notin dead)

\* "Failed to reconnect, remove connection" (monitor.go:278): what an attempt
\* removes is a connection that is not in use again.
GivesUpTheLost ==
    [][\A d \in Device, s \in Slot :
          GiveUp(d, s) /\ d \in Monitored => entry[d].stale]_vars

\* After Close the loop ends and so does every attempt still under way, and
\* none is started any more (monitor.go:144-157, 243-287, 330-345).
CloseEndsAll == over ~> [](~loop /\ \A d \in Device : ~InFlight(d))
-----------------------------------------------------------------------------
(* The inductive invariant behind HoldsItsOwn.                             *)

\* Has d's attempt s dialled a connection that it has not handed over yet?
Carries(d, s) == attempt[d][s].pc = "install"

\* An attempt that carries a connection is alone in having it, until Install
\* makes it the entry's: no other attempt, no entry and no closed connection
\* is the same one (monitor.go:253-268).
ConnInv ==
    /\ closed \subseteq 1 .. made
    /\ \A d \in Device : entry[d].conn <= made
    /\ HoldsItsOwn
    /\ \A d \in Device, s \in Slot : Carries(d, s) =>
          /\ attempt[d][s].conn \in 1 .. made
          /\ attempt[d][s].conn \notin closed
          /\ \A e \in Device : entry[e].conn # attempt[d][s].conn
          /\ \A e \in Device, t \in Slot :
                Carries(e, t) /\ attempt[e][t].conn = attempt[d][s].conn => e = d /\ t = s
=============================================================================
