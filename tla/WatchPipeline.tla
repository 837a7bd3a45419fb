---------------------------- MODULE WatchPipeline ----------------------------
(***************************************************************************)
(* One device, from a change on its disk to the row of its index and the   *)
(* message it hands to its peers (pkg/core/watcher.go and the local half   *)
(* of pkg/core/sync.go, with the files table of pkg/core/fybrk.go).        *)
(*                                                                         *)
(*   user --> raw --> watchLoop --> events --> syncLoop --> index, message *)
(*                                                                         *)
(* raw is the kernel's queue, read through fsnotify.  watchLoop stats and  *)
(* hashes the file and blocks on the bounded channel events.  syncLoop,    *)
(* which exists only once the initial scan is over, writes the index and   *)
(* then reads the file again for the message.  The scan writes the index   *)
(* directly while watchLoop is already queueing.                           *)
(*                                                                         *)
(* A stat (size, modification time) and a hash are both abstracted to the  *)
(* content they were taken of, and Absent stands for "no file", "no row".  *)
(***************************************************************************)
EXTENDS Naturals, Sequences, Functions

CONSTANTS
    File,        \* file paths below the sync directory
    Hidden,      \* those whose base name starts with "." or ends with "~"
    Dir,         \* subdirectories of the sync directory
    Root,        \* the sync directory itself
    DirOf,       \* the directory of each file
    Content,     \* what a file may hold
    Large,       \* contents of 1 MB or more, never put into a message
    Absent,      \* no file, no row
    NoEvent,     \* a goroutine that holds no event
    NoMessage,   \* nothing announced about a path in this process
    RawCap,      \* the kernel drops events beyond this many unread ones
    EventCap,    \* capacity of Watcher.events (100 in the code)
    MaxChanges,  \* bound: changes the user makes
    MaxStarts    \* bound: times the program is started

ASSUME PathAssumption ==
    /\ Hidden \subseteq File
    /\ Root \notin Dir
    /\ File \cap Dir = {}
    /\ DirOf \in [File -> Dir \cup {Root}]
ASSUME ContentAssumption ==
    /\ Absent \notin Content
    /\ Large \subseteq Content
ASSUME CapAssumption ==
    /\ RawCap \in Nat
    /\ EventCap \in Nat \ {0}
    /\ MaxChanges \in Nat
    /\ MaxStarts \in Nat

State   == Content \cup {Absent}
Row     == [stat : State, hash : State]
Event   == [path : File, stat : State, hash : State]
Message == [hash : State, content : State]
RawEvent == [path : File \cup Dir, op : {"create", "write", "remove", "rename"}]

ASSUME NullAssumption == NoEvent \notin Event /\ NoMessage \notin Message

VARIABLES
    disk,       \* what each file holds
    dirs,       \* the subdirectories that exist
    db,         \* the files table; a row of Absents stands for no row
    status,     \* "down", "new", "scan", "run", "stopped" or "closed"
    watched,    \* directories added to the fsnotify watcher
    raw,        \* kernel events watchLoop has not read
    watchPc, watchEv,     \* watchLoop, and the event it is building or sending
    events,               \* Watcher.events
    syncPc, syncEv,       \* syncLoop, and the event it is handling
    scanPc, scanDirs, scanFiles, scanEv,  \* InitialScan
    announced,  \* the last message about each path handed to broadcastEvent
    untracked,  \* history: files whose last change raised no event the code acts on
    changes, starts       \* bounded counters

userVars  == <<disk, dirs>>
watchVars == <<watchPc, watchEv>>
syncVars  == <<syncPc, syncEv>>
scanVars  == <<scanPc, scanDirs, scanFiles, scanEv>>
bounds    == <<changes, starts>>
vars == <<disk, dirs, db, status, watched, raw, watchPc, watchEv, events, syncPc,
          syncEv, scanPc, scanDirs, scanFiles, scanEv, announced, untracked,
          changes, starts>>

RowOf(c) == [stat |-> c, hash |-> c]
NoRow    == RowOf(Absent)
DirExists(d) == d \in dirs \cup {Root}

Deletion(p)  == [path |-> p, stat |-> Absent, hash |-> Absent]
RowFrom(ev)  == [stat |-> ev.stat, hash |-> ev.hash]

\* Does anything on its way through the goroutines concern file p?
In(q, p)    == \E e \in Range(q) : e.path = p
InRaw(p)    == In(raw, p)
InWatch(p)  == watchPc \in {"hash", "send"} /\ watchEv.path = p
InEvents(p) == In(events, p)
InSync(p)   == syncPc \in {"store", "announce"} /\ syncEv.path = p
Pending(p)  == InRaw(p) \/ InWatch(p) \/ InEvents(p) \/ InSync(p)
InScan(p)   == scanPc \in {"hash", "store"} /\ scanEv.path = p

-----------------------------------------------------------------------------
(* The user and the kernel.  An event is raised for a change in a watched  *)
(* directory while the kernel's queue has room; the others leave no trace. *)

Raised(dir, q) == dir \in watched /\ Len(q) < RawCap

Enqueue(q, path, dir, op) ==
    IF Raised(dir, q) THEN Append(q, [path |-> path, op |-> op]) ELSE q

\* Will the code act on the event op of file p, raised while q is unread?
ActedOn(p, q) == Raised(DirOf[p], q) /\ p \notin Hidden

Track(p, seen) == IF seen THEN untracked \ {p} ELSE untracked \cup {p}

UserStep == changes < MaxChanges /\ changes' = changes + 1

UNCHANGED_Program == UNCHANGED <<db, status, watched, watchVars, events, syncVars,
                                 scanVars, announced, starts>>

\* A new file, or new content for an old one.
WriteFile(p, c) ==
    /\ UserStep
    /\ DirExists(DirOf[p])
    /\ disk' = [disk EXCEPT ![p] = c]
    /\ raw' = Enqueue(raw, p, DirOf[p], IF disk[p] = Absent THEN "create" ELSE "write")
    /\ untracked' = Track(p, ActedOn(p, raw))
    /\ UNCHANGED dirs /\ UNCHANGED_Program

RemoveFile(p) ==
    /\ UserStep
    /\ disk[p] # Absent
    /\ disk' = [disk EXCEPT ![p] = Absent]
    /\ raw' = Enqueue(raw, p, DirOf[p], "remove")
    /\ untracked' = Track(p, ActedOn(p, raw))
    /\ UNCHANGED dirs /\ UNCHANGED_Program

\* inotify reports the old name as Rename and the new one as Create.
RenameFile(p, q) ==
    LET raw1 == Enqueue(raw, p, DirOf[p], "rename") IN
    /\ UserStep
    /\ p # q /\ disk[p] # Absent /\ DirExists(DirOf[q])
    /\ disk' = [disk EXCEPT ![q] = disk[p], ![p] = Absent]
    /\ raw' = Enqueue(raw1, q, DirOf[q], "create")
    /\ untracked' = {p} \cup Track(q, ActedOn(q, raw1))
    /\ UNCHANGED dirs /\ UNCHANGED_Program

MakeDir(d) ==
    /\ UserStep
    /\ d \notin dirs
    /\ dirs' = dirs \cup {d}
    /\ raw' = Enqueue(raw, d, Root, "create")
    /\ UNCHANGED <<disk, untracked>> /\ UNCHANGED_Program

-----------------------------------------------------------------------------
(* New, Start, Stop, Close, and the end of the process at any moment: the  *)
(* shipped commands block in select {} and are ended by a signal.          *)

\* New: the index of the last session is opened, every directory is watched.
NewInstance ==
    /\ status = "down" /\ starts < MaxStarts
    /\ starts' = starts + 1
    /\ status' = "new"
    /\ watched' = dirs \cup {Root}
    /\ watchPc' = "idle"
    /\ untracked' = {p \in File : db[p] # RowOf(disk[p])}
    /\ UNCHANGED <<userVars, db, raw, watchEv, events, syncVars, scanVars,
                   announced, changes>>

\* Mutant of Start: syncLoop is started before the initial scan, not after it.
StartLoopFirst ==
    /\ status = "new"
    /\ status' = "scan" /\ syncPc' = "select"
    /\ scanPc' = "walk" /\ scanDirs' = {Root} /\ scanFiles' = {}
    /\ UNCHANGED <<userVars, db, watched, raw, watchVars, events, syncEv, scanEv,
                   announced, untracked, bounds>>

Start ==
    /\ status = "new"
    /\ status' = "scan"
    /\ scanPc' = "walk" /\ scanDirs' = {Root} /\ scanFiles' = {}
    /\ UNCHANGED <<userVars, db, watched, raw, watchVars, events, syncVars, scanEv,
                   announced, untracked, bounds>>

\* Stop: running is cleared, done closed, the fsnotify watcher closed.
Stop ==
    /\ status \in {"new", "run"}
    /\ status' = "stopped"
    /\ raw' = <<>> /\ watched' = {}
    /\ UNCHANGED <<userVars, db, watchVars, events, syncVars, scanVars, announced,
                   untracked, bounds>>

\* The end of Close: the database is closed under a syncLoop still at work.
CloseDatabase ==
    /\ status = "stopped"
    /\ status' = "closed"
    /\ UNCHANGED <<userVars, db, watched, raw, watchVars, events, syncVars, scanVars,
                   announced, untracked, bounds>>

Kill ==
    /\ status # "down"
    /\ status' = "down"
    /\ watched' = {} /\ raw' = <<>> /\ events' = <<>>
    /\ watchPc' = "exit" /\ watchEv' = NoEvent
    /\ syncPc' = "exit" /\ syncEv' = NoEvent
    /\ scanPc' = "done" /\ scanDirs' = {} /\ scanFiles' = {} /\ scanEv' = NoEvent
    /\ announced' = [p \in File |-> NoMessage]
    /\ UNCHANGED <<userVars, db, untracked, bounds>>

-----------------------------------------------------------------------------
(* InitialScan: filepath.Walk lists a directory once, then stats, hashes   *)
(* and records each listed file; a file that has gone makes Start fail.    *)

ScanEnds == scanPc' = "done" /\ scanDirs' = {} /\ scanFiles' = {} /\ scanEv' = NoEvent

UNCHANGED_ByScan == UNCHANGED <<userVars, watched, raw, watchVars, events, announced,
                                bounds>>

ScanDirectory(d) ==
    /\ scanPc = "walk" /\ d \in scanDirs
    /\ scanDirs' = (scanDirs \ {d}) \cup (IF d = Root THEN dirs ELSE {})
    /\ scanFiles' = scanFiles \cup {p \in File : DirOf[p] = d /\ disk[p] # Absent}
    /\ UNCHANGED <<db, status, syncVars, scanPc, scanEv, untracked>> /\ UNCHANGED_ByScan

ScanStat(p) ==
    /\ scanPc = "walk" /\ p \in scanFiles /\ disk[p] # Absent
    /\ scanFiles' = scanFiles \ {p}
    /\ scanPc' = "hash"
    /\ scanEv' = [path |-> p, stat |-> disk[p], hash |-> Absent]
    /\ untracked' = (IF Pending(p) THEN untracked ELSE untracked \ {p})
    /\ UNCHANGED <<db, status, syncVars, scanDirs>> /\ UNCHANGED_ByScan

ScanHash ==
    /\ scanPc = "hash" /\ disk[scanEv.path] # Absent
    /\ scanPc' = "store"
    /\ scanEv' = [scanEv EXCEPT !.hash = disk[scanEv.path]]
    /\ UNCHANGED <<db, status, syncVars, scanDirs, scanFiles, untracked>>
    /\ UNCHANGED_ByScan

ScanStore ==
    /\ scanPc = "store"
    /\ db' = [db EXCEPT ![scanEv.path] = RowFrom(scanEv)]
    /\ scanPc' = "walk" /\ scanEv' = NoEvent
    /\ UNCHANGED <<status, syncVars, scanDirs, scanFiles, untracked>> /\ UNCHANGED_ByScan

\* A listed file has gone before its stat, or a statted one before its hash.
ScanFails ==
    /\ \/ scanPc = "walk" /\ \E p \in scanFiles : disk[p] = Absent
       \/ scanPc = "hash" /\ disk[scanEv.path] = Absent
    /\ ScanEnds /\ status' = "new"
    /\ UNCHANGED <<db, syncVars, untracked>> /\ UNCHANGED_ByScan

ScanDone ==
    /\ scanPc = "walk" /\ scanDirs = {} /\ scanFiles = {}
    /\ ScanEnds /\ status' = "run"
    /\ syncPc' = "select"
    /\ UNCHANGED <<db, syncEv, untracked>> /\ UNCHANGED_ByScan

-----------------------------------------------------------------------------
(* watchLoop.  Taking an event off the queue and the stat of handleEvent   *)
(* are one step; the hash and the blocking send are steps of their own.    *)

UNCHANGED_ByWatch == UNCHANGED <<userVars, db, status, syncVars, scanVars, announced,
                                 untracked, bounds>>

WatchTake ==
    LET e == Head(raw) IN
    /\ watchPc = "idle" /\ raw # <<>>
    /\ raw' = Tail(raw)
    /\ \/ /\ \/ e.path \in Hidden
             \/ e.path \in File \ Hidden /\ e.op # "remove" /\ disk[e.path] = Absent
          /\ UNCHANGED <<watchVars, watched>>
       \/ /\ e.path \in dirs
          /\ watched' = watched \cup {e.path}
          /\ UNCHANGED watchVars
       \/ /\ e.path \in File \ Hidden /\ e.op = "remove"
          /\ watchPc' = "send" /\ watchEv' = Deletion(e.path)
          /\ UNCHANGED watched
       \/ /\ e.path \in File \ Hidden /\ e.op # "remove" /\ disk[e.path] # Absent
          /\ watchPc' = "hash"
          /\ watchEv' = [path |-> e.path, stat |-> disk[e.path], hash |-> Absent]
          /\ UNCHANGED watched
    /\ UNCHANGED events /\ UNCHANGED_ByWatch

\* calculateHash opens the file again: it may have changed or gone.
WatchHash ==
    LET p == watchEv.path IN
    /\ watchPc = "hash"
    /\ IF disk[p] = Absent
         THEN watchPc' = "idle" /\ watchEv' = NoEvent
         ELSE watchPc' = "send" /\ watchEv' = [watchEv EXCEPT !.hash = disk[p]]
    /\ UNCHANGED <<watched, raw, events>> /\ UNCHANGED_ByWatch

\* Mutant of WatchSend: the channel is unbounded.
WatchSendUnbounded ==
    /\ watchPc = "send"
    /\ events' = Append(events, watchEv)
    /\ watchPc' = "idle" /\ watchEv' = NoEvent
    /\ UNCHANGED <<watched, raw>> /\ UNCHANGED_ByWatch

\* w.events <- fileEvent blocks while the channel is full.
WatchSend ==
    /\ watchPc = "send" /\ Len(events) < EventCap
    /\ events' = Append(events, watchEv)
    /\ watchPc' = "idle" /\ watchEv' = NoEvent
    /\ UNCHANGED <<watched, raw>> /\ UNCHANGED_ByWatch

\* Mutant of WatchExit: Stop leaves the watcher to the end of Close.
WatchExitAtClose ==
    /\ watchPc = "idle" /\ status = "closed"
    /\ watchPc' = "exit"
    /\ UNCHANGED <<watchEv, watched, raw, events>> /\ UNCHANGED_ByWatch

WatchExit ==
    /\ watchPc = "idle" /\ status \in {"stopped", "closed"}
    /\ watchPc' = "exit"
    /\ UNCHANGED <<watchEv, watched, raw, events>> /\ UNCHANGED_ByWatch

-----------------------------------------------------------------------------
(* syncLoop: handleFileEvent writes the index, then broadcastEvent reads   *)
(* the file once more and builds the message.                              *)

UNCHANGED_BySync == UNCHANGED <<userVars, status, watched, raw, watchVars, scanVars,
                                untracked, bounds>>

\* Mutant of LoopAgain: the loop condition is not tested.
LoopForever == syncPc' = "select" /\ syncEv' = NoEvent

LoopAgain == syncPc' = (IF status = "run" THEN "select" ELSE "exit") /\ syncEv' = NoEvent

SyncReceive ==
    /\ syncPc = "select" /\ events # <<>>
    /\ syncEv' = Head(events) /\ events' = Tail(events)
    /\ syncPc' = "store"
    /\ UNCHANGED <<db, announced>> /\ UNCHANGED_BySync

\* Mutant of SyncTimeout: a second without events ends the loop.
SyncTimeoutEnds ==
    /\ syncPc = "select"
    /\ syncPc' = "exit" /\ syncEv' = NoEvent
    /\ UNCHANGED <<db, announced, events>> /\ UNCHANGED_BySync

\* The time.After branch: the loop condition is tested again.
SyncTimeout ==
    /\ syncPc = "select" /\ status # "run"
    /\ LoopAgain
    /\ UNCHANGED <<db, announced, events>> /\ UNCHANGED_BySync

\* Mutant of SyncStore: nothing is announced when the row has the hash already.
SyncStoreDedup ==
    /\ syncPc = "store"
    /\ IF status = "closed" \/ db[syncEv.path].hash = syncEv.hash
         THEN UNCHANGED db /\ LoopAgain
         ELSE /\ db' = [db EXCEPT ![syncEv.path] = RowFrom(syncEv)]
              /\ syncPc' = "announce" /\ UNCHANGED syncEv
    /\ UNCHANGED <<announced, events>> /\ UNCHANGED_BySync

SyncStore ==
    /\ syncPc = "store"
    /\ IF status = "closed"
         THEN UNCHANGED db /\ LoopAgain
         ELSE /\ db' = [db EXCEPT ![syncEv.path] = RowFrom(syncEv)]
              /\ syncPc' = "announce" /\ UNCHANGED syncEv
    /\ UNCHANGED <<announced, events>> /\ UNCHANGED_BySync

\* No content for a deletion, a large file, or a file that has gone.
MessageFor(ev) ==
    [hash |-> ev.hash,
     content |-> IF ev.stat \in Content \ Large THEN disk[ev.path] ELSE Absent]

SyncAnnounce ==
    /\ syncPc = "announce"
    /\ announced' = [announced EXCEPT ![syncEv.path] = MessageFor(syncEv)]
    /\ LoopAgain
    /\ UNCHANGED <<db, events>> /\ UNCHANGED_BySync

-----------------------------------------------------------------------------
Init ==
    /\ dirs \in SUBSET Dir
    /\ disk \in {f \in [File -> State] : \A p \in File : f[p] # Absent => DirExists(DirOf[p])}
    /\ db = [p \in File |-> NoRow]
    /\ status = "down"
    /\ watched = {} /\ raw = <<>> /\ events = <<>>
    /\ watchPc = "exit" /\ watchEv = NoEvent
    /\ syncPc = "exit" /\ syncEv = NoEvent
    /\ scanPc = "done" /\ scanDirs = {} /\ scanFiles = {} /\ scanEv = NoEvent
    /\ announced = [p \in File |-> NoMessage]
    /\ untracked = {} /\ changes = 0 /\ starts = 0

User ==
    \/ \E p \in File, c \in Content : WriteFile(p, c)
    \/ \E p \in File : RemoveFile(p)
    \/ \E p, q \in File : RenameFile(p, q)
    \/ \E d \in Dir : MakeDir(d)

Scan ==
    \/ \E d \in Dir \cup {Root} : ScanDirectory(d)
    \/ \E p \in File : ScanStat(p)
    \/ ScanHash \/ ScanStore \/ ScanFails \/ ScanDone

WatchLoop == WatchTake \/ WatchHash \/ WatchSend \/ WatchExit
SyncLoop  == SyncReceive \/ SyncTimeout \/ SyncStore \/ SyncAnnounce
Process   == NewInstance \/ Start \/ Stop \/ CloseDatabase \/ Kill

Next == User \/ Scan \/ WatchLoop \/ SyncLoop \/ Process

Spec == Init /\ [][Next]_vars

\* Goroutines that can run do run; the user, the caller and signals owe nothing.
FairSpec == Spec /\ WF_vars(WatchLoop) /\ WF_vars(SyncLoop) /\ WF_vars(Scan)
-----------------------------------------------------------------------------
(* What the pipeline promises.                                             *)

TypeOK ==
    /\ disk \in [File -> State]
    /\ dirs \subseteq Dir
    /\ db \in [File -> Row]
    /\ status \in {"down", "new", "scan", "run", "stopped", "closed"}
    /\ watched \subseteq Dir \cup {Root}
    /\ raw \in Seq(RawEvent) /\ Len(raw) <= RawCap
    /\ watchPc \in {"idle", "hash", "send", "exit"}
    /\ watchEv \in Event \cup {NoEvent}
    /\ watchPc \in {"hash", "send"} => watchEv \in Event
    /\ events \in Seq(Event) /\ Len(events) <= EventCap
    /\ syncPc \in {"select", "store", "announce", "exit"}
    /\ syncEv \in Event \cup {NoEvent}
    /\ syncPc \in {"store", "announce"} => syncEv \in Event
    /\ scanPc \in {"walk", "hash", "store", "done"}
    /\ scanDirs \subseteq Dir \cup {Root} /\ scanFiles \subseteq File
    /\ scanEv \in Event \cup {NoEvent}
    /\ scanPc \in {"hash", "store"} => scanEv \in Event
    /\ announced \in [File -> Message \cup {NoMessage}]
    /\ untracked \subseteq File
    /\ changes \in 0 .. MaxChanges /\ starts \in 0 .. MaxStarts

\* The row of every tracked file is the file's own, both halves of it, as
\* soon as nothing about the file is on its way: whatever the goroutines,
\* the scan and the user did to each other, the last word is the disk's
\* (watcher.go:126-181, 205-243; sync.go:93-108).
IndexAgrees ==
    status = "run" =>
        \A p \in File \ untracked : ~Pending(p) => db[p] = RowOf(disk[p])

\* Likewise the last message about a tracked file announces the hash the
\* file has and carries the content that goes with it, although the hash and
\* the content were read at different times (watcher.go:168, sync.go:137-142).
AnnouncementAgrees ==
    status = "run" =>
        \A p \in File \ untracked :
            (~Pending(p) /\ announced[p] # NoMessage) =>
                /\ announced[p].hash = disk[p]
                /\ announced[p].content = (IF disk[p] \in Large THEN Absent ELSE disk[p])

\* While the process keeps running, every change of a tracked file reaches
\* the index for good: the blocking send of watchLoop and the channel filled
\* before syncLoop existed never leave an event stranded (watcher.go:180,
\* sync.go:81-90).
EventuallyIndexed ==
    <>[](status = "run") =>
        <>[](\A p \in File \ untracked : db[p] = RowOf(disk[p]))

\* Stop ends syncLoop, whatever it was doing (sync.go:82, 271-273).
StopEndsSyncLoop == (status \in {"stopped", "closed"}) ~> (syncPc = "exit")

\* Close ends watchLoop too, unless the loop is blocked for good on the full
\* channel that syncLoop has stopped reading (watcher.go:118, 180, 245).
StopEndsWatchLoop ==
    (status \in {"stopped", "closed"}) ~>
        \/ watchPc = "exit"
        \/ watchPc = "send" /\ Len(events) = EventCap /\ syncPc = "exit"

-----------------------------------------------------------------------------
(* The inductive invariant behind the two agreements: of everything that is *)
(* on its way about a tracked file, the most recent piece tells the truth.  *)

Active == status \in {"new", "scan", "run"}

\* e is the most recent entry of queue q about file p.
Last(q, p, e) == \E i \in DOMAIN q : /\ q[i] = e /\ e.path = p
                                     /\ \A j \in DOMAIN q : j > i => q[j].path # p

\* The last unread kernel event is a removal exactly when the file is gone.
RawTrue(p) == \A e \in Range(raw) : Last(raw, p, e) =>
                  (e.op = "remove" <=> disk[p] = Absent)

WatchTrue(p) ==
    ~InRaw(p) /\ InWatch(p) =>
        /\ watchEv.stat = disk[p]
        /\ watchPc = "hash" => disk[p] # Absent
        /\ watchPc = "send" => watchEv.hash = disk[p]

EventsTrue(p) ==
    ~InRaw(p) /\ ~InWatch(p) =>
        \A e \in Range(events) : Last(events, p, e) =>
            e.stat = disk[p] /\ e.hash = disk[p]

SyncTrue(p) ==
    ~InRaw(p) /\ ~InWatch(p) /\ ~InEvents(p) /\ InSync(p) =>
        /\ syncEv.stat = disk[p] /\ syncEv.hash = disk[p]
        /\ syncPc = "announce" => db[p] = RowOf(disk[p])

ScanTrue(p) ==
    ~Pending(p) /\ InScan(p) =>
        /\ scanEv.stat = disk[p]
        /\ scanPc = "hash" => disk[p] # Absent
        /\ scanPc = "store" => scanEv.hash = disk[p]

RowTrue(p) == ~Pending(p) /\ ~InScan(p) => db[p] = RowOf(disk[p])

MessageTrue(p) ==
    ~Pending(p) /\ announced[p] # NoMessage =>
        /\ announced[p].hash = disk[p]
        /\ announced[p].content = (IF disk[p] \in Large THEN Absent ELSE disk[p])

FileTrue(p) ==
    /\ RawTrue(p) /\ WatchTrue(p) /\ EventsTrue(p) /\ SyncTrue(p)
    /\ ScanTrue(p) /\ RowTrue(p) /\ MessageTrue(p)

\* Hidden files raise kernel events too, but nobody acts on them.
HiddenUntracked == \A p \in Hidden : InRaw(p) => p \in untracked

\* Nothing survives the process; syncLoop and its messages follow the scan.
PhaseInv ==
    /\ status = "down" => /\ watched = {} /\ raw = <<>> /\ events = <<>>
                          /\ watchPc = "exit" /\ syncPc = "exit"
    /\ status \in {"down", "new", "scan"} =>
          syncPc = "exit" /\ announced = [p \in File |-> NoMessage]
    /\ status # "scan" => scanPc = "done"

\* Whatever is on its way about a tracked file, its most recent piece is true
\* to the disk, in every stage from the kernel's queue to the peers' message.
PipelineInv ==
    /\ PhaseInv
    /\ HiddenUntracked
    /\ Active => \A p \in File \ untracked : FileTrue(p)
-----------------------------------------------------------------------------
(* The pipeline implements FileIndex: files are settled while the process   *)
(* works and neither a queue, a goroutine nor the scan holds anything of    *)
(* them.                                                                    *)

Settled == {p \in File \ untracked : Active /\ ~Pending(p) /\ ~InScan(p)}

Index == INSTANCE FileIndex WITH content <- disk, row <- db, settled <- Settled

\* Of a file with nothing on its way the row is never touched, by the scan,
\* by syncLoop or by a restart, and a file comes to rest only with a row that
\* describes it (watcher.go:126-181, 205-243; sync.go:93-108).
IndexFollows == Index!Spec
=============================================================================
