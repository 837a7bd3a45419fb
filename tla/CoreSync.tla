------------------------------- MODULE CoreSync -------------------------------
(***************************************************************************)
(* Several devices, connected all along, and one file path: what each      *)
(* device does to its own disk and index when its user changes the file    *)
(* and when a message about it arrives (pkg/core/sync.go with the watcher  *)
(* and the files table).                                                   *)
(*                                                                         *)
(* A device writes a received file through os.WriteFile, which empties the *)
(* file and then fills it, sets its times and records it: each of these    *)
(* raises an event on the receiving device, which hashes the file,         *)
(* records it and announces it to every peer, the sender included.         *)
(*                                                                         *)
(* The stages of WatchPipeline are kept with fewer steps.  Taking a kernel *)
(* event and hashing the file are one step, for until the file is read     *)
(* nobody can tell whether the event was taken; so are taking an event off *)
(* the channel and writing the row.  A connection's SendCh and socket are  *)
(* one queue.  A hash is the content it was taken of; Absent stands for no *)
(* file, no row, the hash of a deletion, and a message without content.    *)
(***************************************************************************)
EXTENDS Naturals, Sequences

CONSTANTS
    Device,
    Content,     \* non-empty contents below 1 MB
    Empty,       \* the content of an empty file
    Absent,      \* no file
    NoEvent,     \* syncLoop handles nothing
    RawCap,      \* the kernel drops events beyond this many unread ones
    EventCap,    \* capacity of Watcher.events
    LinkCap,     \* messages a connection buffers before SendCh is full
    MaxChanges   \* bound: changes made by the users

ASSUME DataAssumption ==
    /\ Empty \notin Content /\ Absent \notin Content \cup {Empty}
    /\ NoEvent \notin Content \cup {Empty, Absent}
ASSUME BoundAssumption ==
    RawCap \in Nat /\ EventCap \in Nat \ {0} /\ LinkCap \in Nat \ {0} /\ MaxChanges \in Nat

Data    == Content \cup {Empty, Absent}
Message == [hash : Data, content : Data]
Deletion == [hash |-> Absent, content |-> Absent]
Link    == {l \in Device \X Device : l[1] # l[2]}   \* <<from, to>>

VARIABLES
    disk,      \* the file on each device
    row,       \* the hash in each device's files table
    raw,       \* kernel events each watchLoop has not acted on
    events,    \* Watcher.events
    announcing,\* the event each syncLoop has recorded and will announce
    link,      \* messages under way
    recv,      \* the receiver of each link: what it does, with which message
    changes,   \* bounded counter
    last,      \* history: what the latest user change left
    crossed,   \* history: has a user changed the file while devices were at work?
    lost       \* history: has a queue overflowed?

vars == <<disk, row, raw, events, announcing, link, recv, changes, last, crossed, lost>>

Idle == [pc |-> "idle", msg |-> Deletion]

\* An event is raised on device n: "change" is any of Create, Write and Chmod,
\* which handleEvent treats alike.  The kernel coalesces it with an equal last
\* one that is still in the kernel's own queue, and drops it when that is full.
Raise(n, op) ==
    /\ raw' \in {[raw EXCEPT ![n] = Append(@, op)]} \cup
               (IF raw[n] # <<>> /\ raw[n][Len(raw[n])] = op THEN {raw} ELSE {})
    /\ lost' = (lost \/ Len(raw'[n]) > RawCap)

\* A receiver between emptying the file and filling it holds the removed file
\* open: what it writes then is gone, and no event tells of it.
Unlinked(n) == [l \in Link |->
    IF l[2] = n /\ recv[l].pc = "fill" THEN [recv[l] EXCEPT !.pc = "orphan"] ELSE recv[l]]

\* Nothing is under way: only a user can act.
Quiet ==
    /\ \A n \in Device : raw[n] = <<>> /\ events[n] = <<>> /\ announcing[n] = NoEvent
    /\ \A l \in Link : link[l] = <<>> /\ recv[l] = Idle

-----------------------------------------------------------------------------
(* The users.                                                              *)

UserStep(d) ==
    /\ changes < MaxChanges /\ changes' = changes + 1
    /\ last' = d /\ crossed' = (crossed \/ ~Quiet)

UserWrites(n, c) ==
    /\ UserStep(c)
    /\ disk' = [disk EXCEPT ![n] = c]
    /\ Raise(n, "change")
    /\ UNCHANGED <<row, events, announcing, link, recv>>

UserRemoves(n) ==
    /\ UserStep(Absent)
    /\ disk[n] # Absent
    /\ disk' = [disk EXCEPT ![n] = Absent]
    /\ recv' = Unlinked(n)
    /\ Raise(n, "remove")
    /\ UNCHANGED <<row, events, announcing, link>>

-----------------------------------------------------------------------------
(* watchLoop and syncLoop.                                                 *)

\* Mutant of Watch: the file is looked at before the kind of the event is.
WatchStatsFirst(n) ==
    LET gone == disk[n] = Absent
    IN  /\ raw[n] # <<>>
        /\ raw' = [raw EXCEPT ![n] = Tail(@)]
        /\ IF gone THEN UNCHANGED events
                   ELSE /\ Len(events[n]) < EventCap
                        /\ events' = [events EXCEPT ![n] = Append(@, disk[n])]
        /\ UNCHANGED <<disk, row, announcing, link, recv, changes, last, crossed, lost>>

\* handleEvent: a removal is passed on unseen, anything else is what the file
\* holds by now, or nothing when the file has gone.
Watch(n) ==
    LET gone == Head(raw[n]) # "remove" /\ disk[n] = Absent
        hash == IF Head(raw[n]) = "remove" THEN Absent ELSE disk[n]
    IN  /\ raw[n] # <<>>
        /\ raw' = [raw EXCEPT ![n] = Tail(@)]
        /\ IF gone THEN UNCHANGED events
                   ELSE /\ Len(events[n]) < EventCap
                        /\ events' = [events EXCEPT ![n] = Append(@, hash)]
        /\ UNCHANGED <<disk, row, announcing, link, recv, changes, last, crossed, lost>>

\* Mutant of Store: what the row says already is not announced.
StoreDedup(n) ==
    LET hash == Head(events[n]) IN
    /\ announcing[n] = NoEvent /\ events[n] # <<>>
    /\ events' = [events EXCEPT ![n] = Tail(@)]
    /\ row' = [row EXCEPT ![n] = hash]
    /\ announcing' = [announcing EXCEPT ![n] = IF row[n] = hash THEN NoEvent ELSE hash]
    /\ UNCHANGED <<disk, raw, link, recv, changes, last, crossed, lost>>

\* handleFileEvent: the row is written first.
Store(n) ==
    /\ announcing[n] = NoEvent /\ events[n] # <<>>
    /\ events' = [events EXCEPT ![n] = Tail(@)]
    /\ row' = [row EXCEPT ![n] = Head(events[n])]
    /\ announcing' = [announcing EXCEPT ![n] = Head(events[n])]
    /\ UNCHANGED <<disk, raw, link, recv, changes, last, crossed, lost>>

\* Mutant of Announce: a full channel takes the message all the same.
AnnounceUnbounded(n) ==
    LET hash == announcing[n]
        msg  == [hash |-> hash, content |-> IF hash = Absent THEN Absent ELSE disk[n]]
    IN  /\ hash # NoEvent
        /\ link' = [l \in Link |-> IF l[1] = n THEN Append(link[l], msg) ELSE link[l]]
        /\ announcing' = [announcing EXCEPT ![n] = NoEvent]
        /\ UNCHANGED <<disk, row, raw, events, recv, changes, last, crossed, lost>>

\* broadcastEvent: the content is read now; a full channel is passed over.
Announce(n) ==
    LET hash == announcing[n]
        msg  == [hash |-> hash, content |-> IF hash = Absent THEN Absent ELSE disk[n]]
        full == {l \in Link : l[1] = n /\ Len(link[l]) >= LinkCap}
    IN  /\ hash # NoEvent
        /\ link' = [l \in Link |-> IF l[1] = n /\ l \notin full THEN Append(link[l], msg)
                                                                 ELSE link[l]]
        /\ lost' = (lost \/ full # {})
        /\ announcing' = [announcing EXCEPT ![n] = NoEvent]
        /\ UNCHANGED <<disk, row, raw, events, recv, changes, last, crossed>>

-----------------------------------------------------------------------------
(* The receivers: HandlePeerMessage, one goroutine for each connection.    *)

\* handleFileUpdate up to the check of the row, and what it skips: a hash it
\* has, an empty content.
ReceiveUpdate(l) ==
    LET msg == Head(link[l]) IN
    /\ recv[l].pc = "idle" /\ link[l] # <<>> /\ msg.hash # Absent
    /\ link' = [link EXCEPT ![l] = Tail(@)]
    /\ recv' = (IF row[l[2]] = msg.hash \/ msg.content \in {Absent, Empty} THEN recv
                ELSE [recv EXCEPT ![l] = [pc |-> "empty", msg |-> msg]])
    /\ UNCHANGED <<disk, row, raw, events, announcing, changes, last, crossed, lost>>

\* os.WriteFile: the file is created or truncated, then filled.
EmptyFile(l) ==
    LET n == l[2] IN
    /\ recv[l].pc = "empty"
    /\ disk' = [disk EXCEPT ![n] = Empty]
    /\ recv' = [recv EXCEPT ![l].pc = "fill"]
    /\ Raise(n, "change")
    /\ UNCHANGED <<row, events, announcing, link, changes, last, crossed>>

FillFile(l) ==
    LET n == l[2] IN
    /\ \/ /\ recv[l].pc = "fill"
          /\ disk' = [disk EXCEPT ![n] = recv[l].msg.content]
          /\ Raise(n, "change")
       \/ /\ recv[l].pc = "orphan"
          /\ UNCHANGED <<disk, raw, lost>>
    /\ recv' = [recv EXCEPT ![l].pc = "times"]
    /\ UNCHANGED <<row, events, announcing, link, changes, last, crossed>>

\* os.Chtimes: a failure is only printed.
SetTimes(l) ==
    /\ recv[l].pc = "times"
    /\ IF disk[l[2]] = Absent THEN UNCHANGED <<raw, lost>> ELSE Raise(l[2], "change")
    /\ recv' = [recv EXCEPT ![l].pc = "record"]
    /\ UNCHANGED <<disk, row, events, announcing, link, changes, last, crossed>>

\* handleFileDelete: the file first, whatever it holds, then the row.
ReceiveDelete(l) ==
    LET n == l[2] IN
    /\ recv[l].pc = "idle" /\ link[l] # <<>> /\ Head(link[l]).hash = Absent
    /\ link' = [link EXCEPT ![l] = Tail(@)]
    /\ disk' = [disk EXCEPT ![n] = Absent]
    /\ recv' = [Unlinked(n) EXCEPT ![l] = [pc |-> "record", msg |-> Deletion]]
    /\ IF disk[n] = Absent THEN UNCHANGED <<raw, lost>> ELSE Raise(n, "remove")
    /\ UNCHANGED <<row, events, announcing, changes, last, crossed>>

\* updateFileRecord or deleteFileRecord, with the hash of the message.
Record(l) ==
    /\ recv[l].pc = "record"
    /\ row' = [row EXCEPT ![l[2]] = recv[l].msg.hash]
    /\ recv' = [recv EXCEPT ![l] = Idle]
    /\ UNCHANGED <<disk, raw, events, announcing, link, changes, last, crossed, lost>>

-----------------------------------------------------------------------------
\* The devices start out with the same file, or none, and an index that agrees.
Init ==
    /\ \E d \in Content \cup {Absent} :
          /\ disk = [n \in Device |-> d]
          /\ row = [n \in Device |-> d]
          /\ last = d
    /\ raw = [n \in Device |-> <<>>]
    /\ events = [n \in Device |-> <<>>]
    /\ announcing = [n \in Device |-> NoEvent]
    /\ link = [l \in Link |-> <<>>]
    /\ recv = [l \in Link |-> Idle]
    /\ changes = 0 /\ crossed = FALSE /\ lost = FALSE

User == \E n \in Device : UserRemoves(n) \/ \E c \in Content : UserWrites(n, c)
SyncLoop(n) == Store(n) \/ Announce(n)
Receiver(l) == \/ ReceiveUpdate(l) \/ EmptyFile(l) \/ FillFile(l) \/ SetTimes(l)
               \/ ReceiveDelete(l) \/ Record(l)

Next == \/ User
        \/ \E n \in Device : Watch(n) \/ SyncLoop(n)
        \/ \E l \in Link : Receiver(l)

Spec == Init /\ [][Next]_vars

-----------------------------------------------------------------------------
TypeOK ==
    /\ disk \in [Device -> Data] /\ row \in [Device -> Data]
    /\ raw \in [Device -> Seq({"change", "remove"})]
    /\ events \in [Device -> Seq(Data)]
    /\ announcing \in [Device -> Data \cup {NoEvent}]
    /\ link \in [Link -> Seq(Message)]
    /\ recv \in [Link -> [pc : {"idle", "empty", "fill", "orphan", "times", "record"},
                          msg : Message]]
    /\ \A n \in Device : Len(events[n]) <= EventCap
    /\ \A l \in Link : Len(link[l]) <= LinkCap
    /\ changes \in 0 .. MaxChanges /\ last \in Data
    /\ crossed \in BOOLEAN /\ lost \in BOOLEAN

\* A change made while nothing is under way has spread by the time nothing is
\* under way again: every device holds it and every index describes it, after
\* all the echoes, although the hash and the content of an announcement may be
\* of different moments (sync.go:93-152, 177-220).
ChangeSpreads ==
    Quiet /\ ~crossed /\ ~lost => \A n \in Device : disk[n] = last /\ row[n] = last

\* Bound of the run: no queue overflows and changes come one at a time.
OneAtATime == ~lost /\ ~crossed

-----------------------------------------------------------------------------
(* The inductive invariant behind ChangeSpreads: what is true from a user's *)
(* change until nothing is under way.                                       *)

\* What the latest change brings to a disk: its content, and before that the
\* empty file which os.WriteFile makes.
Spreading == IF last = Absent THEN {Absent} ELSE {last, Empty}
Untouched(n) == disk[n] \notin Spreading

Filling(n) == \E l \in Link : l[2] = n /\ recv[l].pc = "fill"

\* Device n has yet to announce something.
WillAnnounce(n) == Filling(n) \/ raw[n] # <<>> \/ events[n] # <<>> \/ announcing[n] # NoEvent
WillSend(l) == WillAnnounce(l[1]) \/ link[l] # <<>>

News == [hash |-> last, content |-> last]

\* Every piece under way is of the latest change.
OfThisChange ==
    /\ last \in Content \cup {Absent}
    /\ \A n \in Device :
          /\ \A i \in DOMAIN raw[n] : raw[n][i] = "remove" <=> last = Absent
          /\ \A i \in DOMAIN events[n] : events[n][i] \in Spreading
          /\ announcing[n] \in Spreading \cup {NoEvent}
    /\ \A l \in Link :
          /\ \A i \in DOMAIN link[l] : link[l][i] \in [hash : Spreading, content : Spreading]
          /\ recv[l].pc # "orphan"
          /\ recv[l].pc # "idle" => recv[l].msg.hash \in Spreading /\ recv[l].msg.content = last
          /\ recv[l].pc \in {"empty", "fill", "times"} => last # Absent

\* A file is as it was before the change, with nothing on its way from it and
\* nobody at work on it, or it is what the change spreads.
DiskInv(n) ==
    /\ disk[n] = Empty => Filling(n)
    /\ Untouched(n) =>
          /\ row[n] = disk[n] /\ raw[n] = <<>> /\ events[n] = <<>> /\ announcing[n] = NoEvent
          /\ \A l \in Link : l[2] = n => recv[l].pc \in {"idle", "empty"}

\* The most recent thing a device has to announce is the change, so the last
\* message of each link is.
LatestInv(n) ==
    ~Filling(n) /\ raw[n] = <<>> =>
        IF events[n] = <<>> THEN announcing[n] \in {NoEvent, last}
                            ELSE events[n][Len(events[n])] = last

LinkInv(l) ==
    /\ \/ WillAnnounce(l[1])
       \/ link[l] = <<>>
       \/ link[l][Len(link[l])] = News
    /\ recv[l].pc # "idle" /\ recv[l].msg.hash # last => WillSend(l)

\* A device that does not have the change, or whose row does not, will hear of
\* it from its own disk, from a receiver at work or from a message to come.
Due(n) ==
    \/ raw[n] # <<>> \/ events[n] # <<>>
    \/ \E l \in Link :
          /\ l[2] = n
          /\ \/ recv[l].pc \in {"empty", "fill"}
             \/ recv[l].pc # "idle" /\ recv[l].msg.hash = last
             \/ WillSend(l)

Round ==
    /\ OfThisChange
    /\ \A n \in Device : DiskInv(n) /\ LatestInv(n)
    /\ \A l \in Link : LinkInv(l)
    /\ \A n \in Device : Untouched(n) \/ row[n] # last => Due(n)

\* The echoes of a received file, also those of the empty file between the
\* truncation and the write, announce nothing older than the change, and after
\* each of them comes one with its content (sync.go:93-152, 177-220).
SpreadInv == ~crossed /\ ~lost => Round
=============================================================================
