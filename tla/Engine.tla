-------------------------------- MODULE Engine --------------------------------
(***************************************************************************)
(* The metadata engine of the second binary (cli/cmd/fybrk over            *)
(* pkg/fybrk): FileWatcher (internal/watcher), Engine (internal/sync) and  *)
(* the files table of MetadataStore (internal/storage).                    *)
(*                                                                         *)
(* FileWatcher drops an event when its channel is full.  Two goroutines    *)
(* run processFile: handleFileEvents ("loop"), for every event, and the    *)
(* caller of ScanDirectory ("scan"), while events are already handled.     *)
(* processFile stats the file, cuts it into chunks, reads it again for its *)
(* hash, looks the old version up and stores the row, with no lock.        *)
(*                                                                         *)
(* A stat (size and modification time) is the number of the change that    *)
(* made the file what it is; a hash and the chunks' hashes are the content *)
(* they were taken of.                                                     *)
(***************************************************************************)
EXTENDS Naturals, Sequences, Functions

CONSTANTS
    File,        \* files of the sync path; the database lies elsewhere
    Content,
    NoFile,      \* no file, no row
    NoJob,       \* a goroutine at rest
    RawCap,      \* the kernel drops events beyond this many unread ones
    EventCap,    \* capacity of FileWatcher.events (100 in the code)
    MaxChanges,  \* bound: changes the user makes
    MaxStarts    \* bound: times the program is started

ASSUME EngineAssumption ==
    /\ RawCap \in Nat /\ EventCap \in Nat
    /\ MaxChanges \in Nat /\ MaxStarts \in Nat

Stat     == 0 .. MaxChanges
OnDisk   == [stat : Stat, data : Content]
Metadata == [stat : Stat, chunks : Content, hash : Content, version : Nat \ {0}]
Event    == [path : File, op : {"create", "write", "remove", "rename"}]
Worker   == {"loop", "scan"}

\* What a worker does next, and what it has gathered: old is what it knows of
\* the file before it is processed, meta what it will store.
Job == [pc : {"look", "delete", "compare", "stat", "chunk", "hash", "version", "store"},
        path : File, stat : Stat, chunks : Content \cup {NoFile},
        hash : Content \cup {NoFile}, version : Nat]

ASSUME NullAssumption == NoFile \notin OnDisk \cup Metadata \cup Content /\ NoJob \notin Job

VARIABLES
    disk,      \* the files
    row,       \* MetadataStore's files table
    status,    \* "down", "up" or "closed"
    raw,       \* kernel events FileWatcher.run has not read
    events,    \* FileWatcher.events
    job,       \* what each worker is doing
    scanLeft,  \* files ScanDirectory has listed and not yet taken
    untracked, \* history: files whose last change raised no event the code acts on
    crossed,   \* history: files one worker changed the row of while the other processed them
    changes, starts

userVars == <<disk, changes>>
history  == <<untracked, crossed>>
vars == <<disk, row, status, raw, events, job, scanLeft, untracked, crossed, changes, starts>>

JobAt(pc, p) == [pc |-> pc, path |-> p, stat |-> 0, chunks |-> NoFile, hash |-> NoFile,
                 version |-> 0]

Busy(w, p) == job[w] # NoJob /\ job[w].path = p
Processing(w, p) == Busy(w, p) /\ job[w].pc \notin {"look", "delete", "compare", "stat"}
Other(w)   == CHOOSE v \in Worker : v # w
In(q, p)   == \E e \in Range(q) : e.path = p
Pending(p) == In(raw, p) \/ In(events, p) \/ Busy("loop", p)

\* Does row r describe the file, stat, chunks and hash?
Describes(r, file) ==
    IF file = NoFile THEN r = NoFile
    ELSE r # NoFile /\ r.stat = file.stat /\ r.chunks = file.data /\ r.hash = file.data

Rest(w) == job' = [job EXCEPT ![w] = NoJob]

\* Worker w changes the row of p: has the other one begun to process p?
Cross(w, p) == crossed' = (IF Processing(Other(w), p) THEN crossed \cup {p} ELSE crossed)

-----------------------------------------------------------------------------
(* The user and the kernel.                                                *)

Raise(p, op) == raw' = IF status = "up" /\ Len(raw) < RawCap
                         THEN Append(raw, [path |-> p, op |-> op]) ELSE raw

\* Will the engine act on the event?  It ignores "rename".
Seen(op) == status = "up" /\ Len(raw) < RawCap /\ op # "rename"

Change(p, op, file) ==
    /\ changes < MaxChanges /\ changes' = changes + 1
    /\ disk' = [disk EXCEPT ![p] = file]
    /\ Raise(p, op)
    /\ untracked' = (IF Seen(op) THEN untracked \ {p} ELSE untracked \cup {p})
    /\ UNCHANGED <<row, status, events, job, scanLeft, crossed, starts>>

WriteFile(p, c) ==
    Change(p, IF disk[p] = NoFile THEN "create" ELSE "write",
           [stat |-> changes + 1, data |-> c])

\* A file is removed, or renamed to a place outside the sync path.
RemoveFile(p)   == disk[p] # NoFile /\ Change(p, "remove", NoFile)
MoveFileAway(p) == disk[p] # NoFile /\ Change(p, "rename", NoFile)

-----------------------------------------------------------------------------
(* The program.                                                            *)

\* NewEngine watches the sync path and starts handleFileEvents; runSync and
\* runScan call ScanDirectory at once, which lists the directory.
Start ==
    /\ status = "down" /\ starts < MaxStarts
    /\ starts' = starts + 1
    /\ status' = "up"
    /\ scanLeft' = {p \in File : disk[p] # NoFile}
    /\ UNCHANGED <<userVars, row, raw, events, job, history>>

\* The process ends at any moment: runSync blocks for ever.
Kill ==
    /\ status # "down"
    /\ status' = "down"
    /\ raw' = <<>> /\ events' = <<>> /\ scanLeft' = {}
    /\ job' = [w \in Worker |-> NoJob]
    /\ untracked' = {p \in File : ~Describes(row[p], disk[p])}
    /\ crossed' = {}
    /\ UNCHANGED <<userVars, row, starts>>

\* Client.Close after a scan: the watcher and the database are closed, and
\* handleFileEvents is left behind.
Close ==
    /\ status = "up" /\ scanLeft = {} /\ job["scan"] = NoJob
    /\ status' = "closed"
    /\ raw' = <<>>
    /\ UNCHANGED <<userVars, row, events, job, scanLeft, history, starts>>

-----------------------------------------------------------------------------
(* FileWatcher.                                                            *)

\* Mutant of Forward: the send waits for nothing and drops nothing.
ForwardAll ==
    /\ raw # <<>>
    /\ raw' = Tail(raw)
    /\ events' = Append(events, Head(raw))
    /\ UNCHANGED <<userVars, row, status, job, scanLeft, history, starts>>

\* A full channel drops the event.
Forward ==
    LET room == Len(events) < EventCap IN
    /\ raw # <<>>
    /\ raw' = Tail(raw)
    /\ events' = (IF room THEN Append(events, Head(raw)) ELSE events)
    /\ untracked' = (IF room THEN untracked ELSE untracked \cup {Head(raw).path})
    /\ UNCHANGED <<userVars, row, status, job, scanLeft, crossed, starts>>

-----------------------------------------------------------------------------
(* handleFileEvents.                                                       *)

UNCHANGED_ByWorker == UNCHANGED <<userVars, status, raw, untracked, starts>>

TakeEvent ==
    LET e == Head(events) IN
    /\ job["loop"] = NoJob /\ events # <<>>
    /\ events' = Tail(events)
    /\ \/ /\ e.op = "rename" /\ UNCHANGED job
       \/ /\ e.op = "remove"
          /\ job' = [job EXCEPT !["loop"] = JobAt("delete", e.path)]
       \/ /\ e.op \in {"create", "write"}
          /\ job' = [job EXCEPT !["loop"] = JobAt("look", e.path)]
    /\ UNCHANGED <<row, scanLeft, crossed>> /\ UNCHANGED_ByWorker

\* handleFileRemoval; a closed database refuses.
DeleteRow ==
    LET p == job["loop"].path IN
    /\ job["loop"] # NoJob /\ job["loop"].pc = "delete"
    /\ row' = (IF status = "closed" THEN row ELSE [row EXCEPT ![p] = NoFile])
    /\ Rest("loop") /\ Cross("loop", p)
    /\ UNCHANGED <<events, scanLeft>> /\ UNCHANGED_ByWorker

\* handleFileChange: the stat, and then the row, which may say "no change".
Look ==
    LET p == job["loop"].path IN
    /\ job["loop"] # NoJob /\ job["loop"].pc = "look"
    /\ IF disk[p] = NoFile THEN Rest("loop")
       ELSE job' = [job EXCEPT !["loop"].stat = disk[p].stat, !["loop"].pc = "compare"]
    /\ UNCHANGED <<row, events, scanLeft, crossed>> /\ UNCHANGED_ByWorker

\* Mutant of Compare: any row of the file dismisses the event.
CompareNothing ==
    LET p == job["loop"].path IN
    /\ job["loop"] # NoJob /\ job["loop"].pc = "compare"
    /\ IF status # "closed" /\ row[p] # NoFile THEN Rest("loop")
       ELSE job' = [job EXCEPT !["loop"] = JobAt("stat", p)]
    /\ UNCHANGED <<row, events, scanLeft, crossed>> /\ UNCHANGED_ByWorker

Compare ==
    LET p == job["loop"].path IN
    /\ job["loop"] # NoJob /\ job["loop"].pc = "compare"
    /\ IF status # "closed" /\ row[p] # NoFile /\ row[p].stat = job["loop"].stat THEN Rest("loop")
       ELSE job' = [job EXCEPT !["loop"] = JobAt("stat", p)]
    /\ UNCHANGED <<row, events, scanLeft, crossed>> /\ UNCHANGED_ByWorker

\* ScanDirectory takes the next file of its listing.
ScanNext(p) ==
    /\ job["scan"] = NoJob /\ p \in scanLeft
    /\ scanLeft' = scanLeft \ {p}
    /\ job' = [job EXCEPT !["scan"] = JobAt("stat", p)]
    /\ UNCHANGED <<row, events, crossed>> /\ UNCHANGED_ByWorker

-----------------------------------------------------------------------------
(* processFile.                                                            *)

At(w, pc) == job[w] # NoJob /\ job[w].pc = pc
Gone(w)   == disk[job[w].path] = NoFile

\* Once the scan has statted a file nothing is on its way about, it is known.
StatFile(w) ==
    LET p == job[w].path IN
    /\ At(w, "stat") /\ ~Gone(w)
    /\ job' = [job EXCEPT ![w].stat = disk[p].stat, ![w].pc = "chunk"]
    /\ untracked' = (IF Pending(p) THEN untracked ELSE untracked \ {p})
    /\ UNCHANGED <<userVars, status, raw, starts, row, events, scanLeft, crossed>>

ChunkFile(w) ==
    /\ At(w, "chunk") /\ ~Gone(w)
    /\ job' = [job EXCEPT ![w].chunks = disk[job[w].path].data, ![w].pc = "hash"]
    /\ UNCHANGED <<row, events, scanLeft, crossed>> /\ UNCHANGED_ByWorker

HashFile(w) ==
    /\ At(w, "hash") /\ ~Gone(w)
    /\ job' = [job EXCEPT ![w].hash = disk[job[w].path].data, ![w].pc = "version"]
    /\ UNCHANGED <<row, events, scanLeft, crossed>> /\ UNCHANGED_ByWorker

\* Mutant of FileGone: the file is tried again, whatever happened to it.
FileGoneRetries(w) ==
    /\ At(w, "stat") \/ At(w, "chunk") \/ At(w, "hash")
    /\ Gone(w)
    /\ job' = [job EXCEPT ![w] = JobAt("stat", @.path)]
    /\ UNCHANGED <<row, events, scanLeft, crossed>> /\ UNCHANGED_ByWorker

\* An error ends processFile: the loop prints it, the scan gives up.  Here the
\* file is no longer there.
FileGone(w) ==
    /\ At(w, "stat") \/ At(w, "chunk") \/ At(w, "hash")
    /\ Gone(w)
    /\ Rest(w)
    /\ scanLeft' = (IF w = "scan" THEN {} ELSE scanLeft)
    /\ UNCHANGED <<row, events, crossed>> /\ UNCHANGED_ByWorker

\* A file that is there may fail to be read.  With no news of it on its way the
\* engine does not know of it any more.
Unreadable(w) ==
    LET p == job[w].path IN
    /\ At(w, "look") \/ At(w, "stat") \/ At(w, "chunk") \/ At(w, "hash")
    /\ ~Gone(w)
    /\ Rest(w)
    /\ scanLeft' = (IF w = "scan" THEN {} ELSE scanLeft)
    /\ untracked' = (IF In(raw, p) \/ In(events, p) THEN untracked ELSE untracked \cup {p})
    /\ UNCHANGED <<userVars, status, raw, starts, row, events, crossed>>

\* Mutant of NextVersion: a version for every processing.
NextVersionAlways(old, hash) == IF old = NoFile THEN 1 ELSE old.version + 1

\* The version counts contents: it rises when the hash is another one.
NextVersion(old, hash) ==
    IF old = NoFile THEN 1
    ELSE IF old.hash # hash THEN old.version + 1 ELSE old.version

\* Mutant of ReadVersion: the stat that is stored is taken only now.
ReadVersionAndStat(w) ==
    LET j == job[w]
        old == IF status = "closed" THEN NoFile ELSE row[j.path]
    IN  /\ At(w, "version") /\ ~Gone(w)
        /\ job' = [job EXCEPT ![w].version = NextVersion(old, j.hash), ![w].pc = "store",
                              ![w].stat = disk[j.path].stat]
        /\ UNCHANGED <<row, events, scanLeft, crossed>> /\ UNCHANGED_ByWorker

ReadVersion(w) ==
    LET j == job[w]
        old == IF status = "closed" THEN NoFile ELSE row[j.path]
    IN  /\ At(w, "version")
        /\ job' = [job EXCEPT ![w].version = NextVersion(old, j.hash), ![w].pc = "store"]
        /\ UNCHANGED <<row, events, scanLeft, crossed>> /\ UNCHANGED_ByWorker

StoreRow(w) ==
    LET j == job[w] IN
    /\ At(w, "store")
    /\ row' = (IF status = "closed" THEN row
               ELSE [row EXCEPT ![j.path] = [stat |-> j.stat, chunks |-> j.chunks,
                                             hash |-> j.hash, version |-> j.version]])
    /\ Rest(w) /\ Cross(w, j.path)
    /\ UNCHANGED <<events, scanLeft>> /\ UNCHANGED_ByWorker

-----------------------------------------------------------------------------
Init ==
    /\ disk \in [File -> {NoFile} \cup [stat : {0}, data : Content]]
    /\ row = [p \in File |-> NoFile]
    /\ status = "down"
    /\ raw = <<>> /\ events = <<>>
    /\ job = [w \in Worker |-> NoJob] /\ scanLeft = {}
    /\ untracked = File /\ crossed = {}
    /\ changes = 0 /\ starts = 0

User == \E p \in File : RemoveFile(p) \/ MoveFileAway(p) \/ \E c \in Content : WriteFile(p, c)

ProcessFile(w) == \/ StatFile(w) \/ ChunkFile(w) \/ HashFile(w) \/ FileGone(w) \/ Unreadable(w)
                  \/ ReadVersion(w) \/ StoreRow(w)

Loop == TakeEvent \/ DeleteRow \/ Look \/ Compare \/ ProcessFile("loop")
Scan == (\E p \in File : ScanNext(p)) \/ ProcessFile("scan")

Next == User \/ Start \/ Kill \/ Close \/ Forward \/ Loop \/ Scan

Spec == Init /\ [][Next]_vars

\* Goroutines run; the user, the caller and signals owe nothing.
FairSpec == Spec /\ WF_vars(Forward) /\ WF_vars(Loop) /\ WF_vars(Scan)

-----------------------------------------------------------------------------
\* A job has at hand what its next step needs.
Gathered(j) ==
    /\ j.pc \in {"hash", "version", "store"} => j.chunks \in Content
    /\ j.pc \in {"version", "store"} => j.hash \in Content
    /\ j.pc = "store" => j.version > 0

TypeOK ==
    /\ disk \in [File -> OnDisk \cup {NoFile}]
    /\ row \in [File -> Metadata \cup {NoFile}]
    /\ status \in {"down", "up", "closed"}
    /\ raw \in Seq(Event) /\ Len(raw) <= RawCap
    /\ events \in Seq(Event) /\ Len(events) <= EventCap
    /\ job \in [Worker -> Job \cup {NoJob}]
    /\ \A w \in Worker : job[w] # NoJob => Gathered(job[w])
    /\ scanLeft \subseteq File /\ untracked \subseteq File /\ crossed \subseteq File
    /\ changes \in 0 .. MaxChanges /\ starts \in 0 .. MaxStarts

AtRest(p) == ~Pending(p) /\ ~Busy("scan", p)

\* The row of a file that nothing is on its way about describes it, stat,
\* chunks and hash, although each was read at a moment of its own and an event
\* is dismissed on the stat alone (engine.go:91-117, 131-187).
MetadataAgrees ==
    status = "up" =>
        \A p \in File \ (untracked \cup crossed) : AtRest(p) => Describes(row[p], disk[p])

CountsUp(p) ==
    row[p] # NoFile /\ row'[p] # NoFile =>
        /\ row'[p].version >= row[p].version
        /\ row'[p].version = row[p].version <=> row'[p].hash = row[p].hash

\* "Only increment if content actually changed" (engine.go:164): from one row
\* of a file to the next the version never falls, and it stays exactly when the
\* hash does, unless scan and event loop processed the file at the same time.
VersionsCount == [][\A p \in File \ crossed' : CountsUp(p)]_vars

\* While the program runs, every change it was told of is recorded in the end,
\* an event of it dismissed or not.
EventuallyRecorded ==
    <>[](status = "up") =>
        <>[](\A p \in File \ (untracked \cup crossed) : Describes(row[p], disk[p]))

\* "Monitors for file changes" (cli/cmd/fybrk/main.go:195): the row of every
\* file which the engine was told of describes it, those included which the scan
\* and an event were processed for at the same time.
MonitorsAll ==
    status = "up" =>
        \A p \in File \ untracked : AtRest(p) => Describes(row[p], disk[p])
-----------------------------------------------------------------------------
(* The inductive invariant behind MetadataAgrees and VersionsCount.        *)

\* A stat is older than the file, or chunks and hash taken after it are the
\* file's: what is gathered in pieces is of one moment if the stat still is.
RowSpeaks(r, file) ==
    /\ r.stat <= changes
    /\ file # NoFile => r.stat <= file.stat /\ (r.stat = file.stat => Describes(r, file))

JobSpeaks(j, file) ==
    /\ j.stat <= changes
    /\ file # NoFile =>
          /\ j.stat <= file.stat
          /\ j.stat = file.stat =>
                /\ j.pc \in {"hash", "version", "store"} => j.chunks = file.data
                /\ j.pc \in {"version", "store"} => j.hash = file.data

StatsSpeak ==
    /\ \A p \in File : disk[p] # NoFile => disk[p].stat <= changes
    /\ \A p \in File : row[p] # NoFile => RowSpeaks(row[p], disk[p])
    /\ \A w \in Worker : job[w] # NoJob => JobSpeaks(job[w], disk[job[w].path])

\* What is stored while the scan processes a file is older than the scan's
\* stat, unless both have crossed.
ScanIsLater ==
    \A p \in File \ crossed :
        Processing("scan", p) /\ row[p] # NoFile => row[p].stat <= job["scan"].stat

\* A version about to be stored follows the one in the row.
VersionsFollow ==
    status # "closed" =>
        \A w \in Worker, p \in File \ crossed :
            Busy(w, p) /\ job[w].pc = "store" /\ row[p] # NoFile =>
                job[w].version = NextVersion(row[p], job[w].hash)

\* The last event of q about p tells whether the file is gone.
Tells(q, p, gone) ==
    \A i \in DOMAIN q :
        q[i].path = p /\ (\A k \in DOMAIN q : k > i => q[k].path # p) =>
            q[i].op # "rename" /\ (q[i].op = "remove" <=> gone)

\* The most recent piece about a file is true, wherever it is: in the kernel's
\* queue, the channel, the loop's hands, the scan's hands or the row.
Tracked(p) ==
    /\ Tells(raw, p, disk[p] = NoFile)
    /\ ~In(raw, p) => Tells(events, p, disk[p] = NoFile)
    /\ ~In(raw, p) /\ ~In(events, p) /\ Busy("loop", p) =>
          /\ job["loop"].pc = "delete" <=> disk[p] = NoFile
          /\ job["loop"].pc \notin {"delete", "look", "stat"} => job["loop"].stat = disk[p].stat
    /\ ~Pending(p) =>
          IF Processing("scan", p)
            THEN disk[p] # NoFile /\ job["scan"].stat = disk[p].stat
            ELSE Describes(row[p], disk[p])

\* Between a change and its row, each stage passes on what is true and a
\* worker that stores takes its stat first, so that an event may be dismissed
\* on the stat alone (engine.go:91-117, 131-187, watcher.go:105-161).
EngineInv ==
    /\ StatsSpeak /\ ScanIsLater /\ VersionsFollow
    /\ status # "closed" => \A p \in File \ (untracked \cup crossed) : Tracked(p)

-----------------------------------------------------------------------------
(* The metadata table keeps the promise of FileIndex, as the files table   *)
(* of the core does.  Here a row has two halves, its stat with the chunks  *)
(* and its stat with the hash.                                             *)

Settled == {p \in File \ (untracked \cup crossed) : status = "up" /\ AtRest(p)}

SaidOf(r) ==
    IF r = NoFile THEN [stat |-> NoFile, hash |-> NoFile]
    ELSE [stat |-> [stat |-> r.stat, data |-> r.chunks], hash |-> [stat |-> r.stat, data |-> r.hash]]

Index == INSTANCE FileIndex WITH
    Content <- OnDisk, Absent <- NoFile,
    content <- disk, row <- [p \in File |-> SaidOf(row[p])], settled <- Settled

\* A file is settled again only with a row that describes it, and the row of a
\* settled file is never touched, by the scan, the loop, a dropped event or a
\* restart (engine.go:76-129, 131-206; watcher.go:105-161).
RowsFollow == Index!Spec
=============================================================================
