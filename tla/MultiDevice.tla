------------------------------ MODULE MultiDevice ------------------------------
(***************************************************************************)
(* The exchange of files between devices that run the metadata engine      *)
(* (internal/sync/multidevice.go, over internal/network/peer.go).          *)
(*                                                                         *)
(* Every 30 seconds a device broadcasts the list of its rows.  A receiver  *)
(* asks for what it has no row of, or a row with a smaller version.  The   *)
(* answer is the file as it is then, and is written over whatever the      *)
(* receiver has.                                                           *)
(*                                                                         *)
(* One file, under two paths.  The engine's row has the path relative to   *)
(* the sync directory, which every device shares, and which can be opened  *)
(* only by a process that runs in that directory.  A received file gets a  *)
(* second row under its full path, version 1; the devices' directories     *)
(* have different full paths, so no other device has that row.             *)
(*                                                                         *)
(* The engine between a file's event and its row is one step here (Engine  *)
(* has its own), and encryption is left out: all devices have one key.     *)
(* A content is the number of the change that made it.                     *)
(***************************************************************************)
EXTENDS PeerNetwork

CONSTANTS
    InPlace,     \* devices whose process runs in the sync directory
    Big,         \* contents that do not fit into a connection's buffers
    Laden,       \* devices with so many files that the list of them does not fit
    MaxChanges,  \* bound: changes users make
    MaxWrites,   \* bound: only the first of them, this many, may be writes
    MaxVersion   \* bound: the engine records no higher version

ASSUME DeviceAssumption ==
    /\ InPlace \subseteq Node
    /\ MaxChanges \in Nat /\ MaxVersion \in Nat /\ MaxWrites \in Nat

NoFile  == 0
Content == 1 .. MaxWrites
State   == Content \cup {NoFile}
Row     == [version : 0 .. MaxVersion, data : State]
NoRow   == [version |-> 0, data |-> NoFile]

VARIABLES
    disk,    \* the file, on each device
    dirty,   \* the engine has yet to handle an event about it
    row,     \* the engine's row, version 0 for none
    copy,    \* is there a row for the full path of a received file?
    changes  \* bounded counter

fileVars == <<disk, dirty, row, copy, changes>>
vars == <<netVars, fileVars>>

List(n)        == [from |-> n, type |-> "list", big |-> n \in Laden,
                   version |-> row[n].version, copy |-> copy[n]]
Request(n, k)  == [from |-> n, type |-> "request", big |-> FALSE, path |-> k]
Response(n, d) == [from |-> n, type |-> "response", big |-> d \in Big, data |-> d]

Message ==
    [from : Node, type : {"discovery"}, big : {FALSE}]
    \cup [from : Node, type : {"list"}, big : BOOLEAN, version : 0 .. MaxVersion, copy : BOOLEAN]
    \cup [from : Node, type : {"request"}, big : {FALSE}, path : {"relative", "full"}]
    \cup [from : Node, type : {"response"}, big : BOOLEAN, data : Content]

-----------------------------------------------------------------------------
(* Users and the engine.                                                   *)

Change(n, d) ==
    /\ changes < MaxChanges /\ changes' = changes + 1
    /\ disk' = [disk EXCEPT ![n] = d]
    /\ dirty' = [dirty EXCEPT ![n] = TRUE]
    /\ UNCHANGED <<row, copy, netVars>>

UserWrites(n)  == changes < MaxWrites /\ Change(n, changes + 1)
UserRemoves(n) == disk[n] # NoFile /\ Change(n, NoFile)

\* processFileEvent: the version counts the contents the engine has seen.
Record(n) ==
    LET r == row[n] IN
    /\ dirty[n]
    /\ dirty' = [dirty EXCEPT ![n] = FALSE]
    /\ \/ disk[n] = NoFile /\ row' = [row EXCEPT ![n] = NoRow]
       \/ disk[n] # NoFile /\ disk[n] = r.data /\ UNCHANGED row
       \/ /\ disk[n] \notin {NoFile, r.data} /\ r.version < MaxVersion
          /\ row' = [row EXCEPT ![n] = [version |-> r.version + 1, data |-> disk[n]]]
    /\ UNCHANGED <<disk, copy, changes, netVars>>

-----------------------------------------------------------------------------
(* handleMessage.                                                          *)

Got(c, n, type) ==
    (At(c, n, "handle") \/ At(c, n, "wait")) /\ reader[c][n].msg.type = type

HandleDiscovery(c, n) ==
    /\ Got(c, n, "discovery")
    /\ HandleOnly(c, n)
    /\ UNCHANGED fileVars

\* Mutant of Wanted: versions are compared the wrong way round.
WantedOlder(n, list) ==
    (IF list.copy THEN <<Request(n, "full")>> ELSE <<>>)
    \o (IF list.version < row[n].version THEN <<Request(n, "relative")>> ELSE <<>>)

\* The list names the row of a received file first; no receiver has that row.
Wanted(n, list) ==
    (IF list.copy THEN <<Request(n, "full")>> ELSE <<>>)
    \o (IF row[n].version < list.version THEN <<Request(n, "relative")>> ELSE <<>>)

HandleList(c, n) ==
    LET m == reader[c][n].msg IN
    /\ Got(c, n, "list")
    /\ IF Wanted(n, m) = <<>> THEN HandleOnly(c, n)
                              ELSE HandleWith(c, n, Sending(m.from, Wanted(n, m)))
    /\ UNCHANGED fileVars

\* getFileChunks: the row must exist and the file be found under its path.
Readable(n, path) ==
    /\ disk[n] # NoFile
    /\ IF path = "full" THEN copy[n] ELSE row[n].version > 0 /\ n \in InPlace

HandleRequest(c, n) ==
    LET m == reader[c][n].msg IN
    /\ Got(c, n, "request")
    /\ \/ ~Readable(n, m.path) /\ HandleOnly(c, n)
       \/ Readable(n, m.path) /\ HandleWith(c, n, Sending(m.from, <<Response(n, disk[n])>>))
    /\ UNCHANGED fileVars

\* writeReceivedFile: the file is written, and then looked at for its row.
HandleResponse(c, n) ==
    /\ Got(c, n, "response")
    /\ disk' = [disk EXCEPT ![n] = reader[c][n].msg.data]
    /\ dirty' = [dirty EXCEPT ![n] = TRUE]
    /\ HandleWith(c, n, [pc |-> "work"])
    /\ UNCHANGED <<row, copy, changes>>

\* Without the file there is nothing to stat, and no row.
StoreCopy(c, n) ==
    /\ copy' = [copy EXCEPT ![n] = @ \/ disk[n] # NoFile]
    /\ Return(c, n)
    /\ UNCHANGED <<disk, dirty, row, changes>>

Handle(c, n) ==
    \/ HandleDiscovery(c, n) \/ HandleList(c, n)
    \/ HandleRequest(c, n) \/ HandleResponse(c, n) \/ StoreCopy(c, n)

\* periodicSync, which nothing ends.
Broadcast(n) == CastBegin(n, List(n)) /\ UNCHANGED fileVars

-----------------------------------------------------------------------------
Init ==
    /\ NetInit
    /\ disk = [n \in Node |-> NoFile]
    /\ dirty = [n \in Node |-> FALSE]
    /\ row = [n \in Node |-> NoRow]
    /\ copy = [n \in Node |-> FALSE]
    /\ changes = 0

Next ==
    \/ NetNext /\ UNCHANGED fileVars
    \/ \E n \in Node : UserWrites(n) \/ UserRemoves(n) \/ Record(n) \/ Broadcast(n)
    \/ \E c \in Conn, n \in Node : Handle(c, n)

Spec == Init /\ [][Next]_vars

Reads(c, n) ==
    \/ /\ \/ Decode(c, n) \/ DecodeFails(c, n) \/ WaitsForLock(c, n)
          \/ Lookup(c, n) \/ Encode(c, n) \/ Flushed(c, n)
       /\ UNCHANGED fileVars
    \/ Handle(c, n)

\* Discovery goes on and goroutines that can run do; a list is sent again and
\* again.
FairSpec ==
    /\ Spec
    /\ \A p \in Reach : WF_vars(status[p[1]] = "up" /\ Dial(p[1], p[2]) /\ UNCHANGED fileVars)
    /\ \A n \in Node : /\ WF_vars(Record(n))
                       /\ SF_vars(Broadcast(n))
                       /\ WF_vars((CastSend(n) \/ CastFlushed(n)) /\ UNCHANGED fileVars)
    /\ \A n \in Stopping : WF_vars((StopWaits(n) \/ StopCloses(n)) /\ UNCHANGED fileVars)
    /\ \A c \in Conn, n \in Node : WF_vars(Reads(c, n))

\* Between two lists, 30 seconds apart, a handler gets its turn to write.
TurnSpec ==
    FairSpec /\ \A n \in Node : SF_vars((\E c \in Conn : Encode(c, n)) /\ UNCHANGED fileVars)
-----------------------------------------------------------------------------
(* What the exchange promises.                                             *)

TypeOK ==
    /\ NetTypeOK(Message)
    /\ disk \in [Node -> State] /\ dirty \in [Node -> BOOLEAN]
    /\ row \in [Node -> Row] /\ copy \in [Node -> BOOLEAN]
    /\ changes \in 0 .. MaxChanges

\* A goroutine of n, a handler or a broadcast, cannot go on writing to m.
HeldUp(n, m) ==
    \/ \E c \in Made : /\ At(c, n, "write") \/ At(c, n, "flush")
                      /\ reader[c][n].to = m /\ ~Free(reader[c][n].on, n)
    \/ Casting(n) /\ cast[n].at = m /\ ~Free(peers[n][m], n)

\* Devices that write big messages to each other wait for each other: the
\* goroutine that could decode one writes another, or waits for the lock which
\* a broadcast holds while it writes.
Jammed == \E S \in SUBSET Node : S # {} /\ \A n \in S : \E m \in S : HeldUp(n, m)

AllUp == \A n \in Node : status[n] = "up"

\* Devices that stay up come to write to each other over open connections,
\* whatever connections were doubled, replaced or broken before
\* (peer.go:177-256).
Reconnects ==
    <>[](AllUp =>
            \/ Jammed
            \/ \A n, m \in Node : n # m => peers[n][m] # None /\ Open(peers[n][m]))

\* Once nobody changes the file any more, all devices have it or none has
\* (multidevice.go:79-256).  A removal does not spread: the file comes back
\* from a device that still has it.  Two contents with the same version do
\* not spread either: the devices keep them both.
DevicesAgree ==
    <>[](AllUp => \/ Jammed
                  \/ \A n, m \in Node : disk[n] = disk[m] \/ NoFile \notin {disk[n], disk[m]})

\* After Stop a device's readers have ended, but those that wait for a message
\* on a connection that is not in its map, for it was replaced, or brought no
\* message yet, or is one with itself (peer.go:111-133, 151-173).  The readers
\* are all it speaks of: periodicSync goes on for ever (multidevice.go:74).
StopLeavesWaiting ==
    \A n \in Stopping :
        \/ <>[]Jammed
        \/ <>[](status[n] # "up" =>
                   \A c \in Made : Has(c, n) /\ ~At(c, n, "done") =>
                      At(c, n, "decode") /\ \A m \in Node : peers[n][m] # c)

\* Handlers and broadcasts come to their end, whatever they write and whatever
\* locks they wait for, unless devices wait for each other for ever
\* (peer.go:151-173, 242-281).
HandlersEnd ==
    \/ <>[]Jammed
    \/ /\ \A n \in Node : []<>~Casting(n)
       /\ \A c \in Conn, n \in Node : []<>(At(c, n, "decode") \/ ~Has(c, n) \/ At(c, n, "done"))

\* What multidevice.go:60 says, "Start periodic sync": each broadcast of the list
\* comes to its end, for the next to follow (multidevice.go:70-99).  It does not
\* when devices wait for each other.
BroadcastsEnd == \A n \in Node : []<>~Casting(n)
=============================================================================
