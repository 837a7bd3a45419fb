---------------------------- MODULE Engine_proofs ----------------------------
(***************************************************************************)
(* Proofs about Engine, for every set of files and contents, every         *)
(* capacity of the two queues, and every number of changes and starts.     *)
(***************************************************************************)
EXTENDS Engine, TLAPS

-----------------------------------------------------------------------------
(* Type correctness.                                                       *)

\* A step that gives worker w the job j, which has what it needs, or none.
LEMMA JobType ==
    ASSUME TypeOK, NEW w \in Worker, NEW j \in Job \cup {NoJob},
           j # NoJob => Gathered(j), job' = [job EXCEPT ![w] = j]
    PROVE  /\ job' \in [Worker -> Job \cup {NoJob}]
           /\ \A v \in Worker : job'[v] # NoJob => Gathered(job'[v])
  BY DEF TypeOK

LEMMA JobAtType ==
    ASSUME NEW pc \in {"look", "delete", "stat"}, NEW p \in File
    PROVE  JobAt(pc, p) \in Job /\ Gathered(JobAt(pc, p))
  BY EngineAssumption DEF JobAt, Job, Gathered, Stat

LEMMA TypeInit == Init => TypeOK
  <1> SUFFICES ASSUME Init PROVE TypeOK
    OBVIOUS
  <1>1. disk \in [File -> OnDisk \cup {NoFile}]
    BY EngineAssumption DEF Init, OnDisk, Stat
  <1> QED
    BY <1>1, EngineAssumption DEF Init, TypeOK

\* What a user leaves on the disk, and the event of it.
LEMMA ChangeType ==
    ASSUME TypeOK, NEW p \in File, NEW op \in {"create", "write", "remove", "rename"},
           NEW file \in OnDisk \cup {NoFile}, Change(p, op, file)
    PROVE  TypeOK'
  <1> USE DEF TypeOK, Change
  <1>1. raw' \in Seq(Event) /\ Len(raw') <= RawCap
    <2>1. [path |-> p, op |-> op] \in Event
      BY DEF Event
    <2>2. CASE status = "up" /\ Len(raw) < RawCap
      <3>1. raw' = Append(raw, [path |-> p, op |-> op])
        BY <2>2 DEF Raise
      <3> QED
        BY <2>1, <2>2, <3>1, EngineAssumption
    <2>3. CASE ~(status = "up" /\ Len(raw) < RawCap)
      BY <2>3 DEF Raise
    <2> QED
      BY <2>2, <2>3
  <1>2. changes' \in 0 .. MaxChanges
    BY EngineAssumption
  <1> QED
    BY <1>1, <1>2 DEF Seen

LEMMA TypeUser == TypeOK /\ User => TypeOK'
  <1> SUFFICES ASSUME TypeOK, NEW p \in File,
                      \/ RemoveFile(p) \/ MoveFileAway(p)
                      \/ \E c \in Content : WriteFile(p, c)
               PROVE  TypeOK'
    BY DEF User
  <1>1. CASE RemoveFile(p) \/ MoveFileAway(p)
    BY <1>1, ChangeType DEF RemoveFile, MoveFileAway
  <1>2. ASSUME NEW c \in Content, WriteFile(p, c) PROVE TypeOK'
    <2>1. changes < MaxChanges
      BY <1>2 DEF WriteFile, Change
    <2>2. [stat |-> changes + 1, data |-> c] \in OnDisk
      BY <2>1, EngineAssumption DEF OnDisk, Stat, TypeOK
    <2> QED
      BY <1>2, <2>2, ChangeType DEF WriteFile
  <1> QED
    BY <1>1, <1>2

LEMMA TypeProgram == TypeOK /\ (Start \/ Kill \/ Close \/ Forward) => TypeOK'
  <1> USE DEF TypeOK, userVars, history
  <1>1. ASSUME TypeOK, Start PROVE TypeOK'
    BY <1>1, EngineAssumption DEF Start
  <1>2. ASSUME TypeOK, Kill PROVE TypeOK'
    BY <1>2, EngineAssumption DEF Kill
  <1>3. ASSUME TypeOK, Close PROVE TypeOK'
    BY <1>3, EngineAssumption DEF Close
  <1>4. ASSUME TypeOK, Forward PROVE TypeOK'
    <2>1. Head(raw) \in Event /\ Tail(raw) \in Seq(Event) /\ Len(Tail(raw)) <= RawCap
      BY <1>4, EngineAssumption DEF Forward
    <2>2. events' \in Seq(Event) /\ Len(events') <= EventCap
      BY <1>4, <2>1, EngineAssumption DEF Forward
    <2>3. untracked' \subseteq File
      BY <1>4, <2>1 DEF Forward, Event
    <2> QED
      BY <1>4, <2>1, <2>2, <2>3 DEF Forward
  <1> QED
    BY <1>1, <1>2, <1>3, <1>4

\* The steps of a worker but for StoreRow and DeleteRow: each changes the job.
LEMMA TypeLoop ==
    ASSUME TypeOK, TakeEvent \/ DeleteRow \/ Look \/ Compare \/ \E p \in File : ScanNext(p)
    PROVE  TypeOK'
  <1> USE DEF UNCHANGED_ByWorker, userVars
  <1>1. CASE TakeEvent
    <2>1. /\ Head(events) \in Event /\ Tail(events) \in Seq(Event)
          /\ Len(Tail(events)) <= EventCap
      BY <1>1, EngineAssumption DEF TypeOK, TakeEvent
    <2>2. Head(events).path \in File
      BY <2>1 DEF Event
    <2>3. \/ job' = job
          \/ \E pc \in {"look", "delete"} :
                job' = [job EXCEPT !["loop"] = JobAt(pc, Head(events).path)]
      BY <1>1 DEF TakeEvent
    <2>4. /\ job' \in [Worker -> Job \cup {NoJob}]
          /\ \A v \in Worker : job'[v] # NoJob => Gathered(job'[v])
      BY <2>2, <2>3, JobAtType, JobType DEF TypeOK, Worker
    <2> QED
      BY <1>1, <2>1, <2>4 DEF TypeOK, TakeEvent
  <1>2. CASE DeleteRow
    <2>1. job["loop"].path \in File
      BY <1>2 DEF TypeOK, DeleteRow, Worker, Job
    <2>2. /\ job' \in [Worker -> Job \cup {NoJob}]
          /\ \A v \in Worker : job'[v] # NoJob => Gathered(job'[v])
      BY <1>2, JobType DEF DeleteRow, Rest, Worker
    <2> QED
      BY <1>2, <2>1, <2>2 DEF TypeOK, DeleteRow, Cross
  <1>3. CASE Look
    <2> DEFINE p == job["loop"].path
               j == [job["loop"] EXCEPT !.stat = disk[p].stat, !.pc = "compare"]
    <2>1. p \in File /\ job["loop"] \in Job
      BY <1>3 DEF TypeOK, Look, Worker, Job
    <2>2. CASE disk[p] = NoFile
      BY <1>3, <2>2, JobType DEF Look, Rest, Worker, TypeOK
    <2>3. CASE disk[p] # NoFile
      <3>1. disk[p].stat \in Stat
        BY <2>1, <2>3 DEF TypeOK, OnDisk
      <3>2. j \in Job /\ Gathered(j)
        BY <2>1, <3>1 DEF Job, Gathered
      <3>3. job' = [job EXCEPT !["loop"] = j]
        BY <1>3, <2>3 DEF Look
      <3> QED
        BY <1>3, <3>2, <3>3, JobType DEF Look, Worker, TypeOK
    <2> QED
      BY <2>2, <2>3
  <1>4. CASE Compare
    <2>1. job["loop"].path \in File
      BY <1>4 DEF TypeOK, Compare, Worker, Job
    <2>2. /\ job' \in [Worker -> Job \cup {NoJob}]
          /\ \A v \in Worker : job'[v] # NoJob => Gathered(job'[v])
      BY <1>4, <2>1, JobAtType, JobType DEF Compare, Rest, Worker
    <2> QED
      BY <1>4, <2>2 DEF TypeOK, Compare
  <1>5. ASSUME NEW p \in File, ScanNext(p) PROVE TypeOK'
    <2>1. /\ job' \in [Worker -> Job \cup {NoJob}]
          /\ \A v \in Worker : job'[v] # NoJob => Gathered(job'[v])
      BY <1>5, JobAtType, JobType DEF ScanNext, Worker
    <2> QED
      BY <1>5, <2>1 DEF TypeOK, ScanNext
  <1> QED
    BY <1>1, <1>2, <1>3, <1>4, <1>5

\* ReadVersion adds a version to the job and nothing else.
LEMMA VersionRead ==
    ASSUME TypeOK, NEW w \in Worker, ReadVersion(w)
    PROVE  \E k \in Job :
              /\ job' = [job EXCEPT ![w] = k] /\ Gathered(k)
              /\ k.path = job[w].path /\ k.stat = job[w].stat /\ k.chunks = job[w].chunks
              /\ k.hash = job[w].hash /\ k.pc = "store"
              /\ k.version = NextVersion(IF status = "closed" THEN NoFile ELSE row[job[w].path],
                                         job[w].hash)
  <1> DEFINE j == job[w]
             old == IF status = "closed" THEN NoFile ELSE row[j.path]
             k(v) == [j EXCEPT !.version = v, !.pc = "store"]
  <1>1. j \in Job /\ j.path \in File /\ j.chunks \in Content /\ j.hash \in Content
    BY DEF TypeOK, ReadVersion, At, Job, Gathered
  <1>2. old = NoFile \/ (old \in Metadata /\ old.version \in Nat \ {0})
    BY <1>1 DEF TypeOK, Metadata
  <1>3. NextVersion(old, j.hash) \in Nat \ {0}
    BY <1>2 DEF NextVersion
  <1>4. ASSUME NEW v \in Nat \ {0}
        PROVE  /\ k(v) \in Job /\ Gathered(k(v)) /\ k(v).version = v /\ k(v).pc = "store"
               /\ k(v).path = j.path /\ k(v).stat = j.stat
               /\ k(v).chunks = j.chunks /\ k(v).hash = j.hash
    <2>1. k(v) \in Job
      BY <1>1 DEF Job
    <2> QED
      BY <1>1, <2>1 DEF Gathered, Job
  <1>5. job' = [job EXCEPT ![w] = k(NextVersion(old, j.hash))]
    BY DEF ReadVersion
  <1> HIDE DEF old, k
  <1> QED
    BY <1>3, <1>4, <1>5 DEF old

LEMMA TypeProcess == ASSUME TypeOK, NEW w \in Worker, ProcessFile(w) PROVE TypeOK'
  <1> DEFINE j == job[w]
  <1> USE DEF UNCHANGED_ByWorker, userVars, At, Gone
  <1>0. j \in Job /\ Gathered(j) /\ j.path \in File
    BY DEF TypeOK, Job, ProcessFile, StatFile, ChunkFile, HashFile, FileGone, Unreadable, ReadVersion, StoreRow
  <1>1. disk[j.path] # NoFile => disk[j.path].stat \in Stat /\ disk[j.path].data \in Content
    BY <1>0 DEF TypeOK, OnDisk
  <1>2. ASSUME NEW k \in Job \cup {NoJob}, k # NoJob => Gathered(k),
               job' = [job EXCEPT ![w] = k],
               UNCHANGED <<disk, status, raw, events, changes, starts, row, crossed>>,
               untracked' \subseteq File, scanLeft' \subseteq File
        PROVE  TypeOK'
    BY <1>2, JobType DEF TypeOK
  <1>3. CASE StatFile(w)
    <2> DEFINE k == [j EXCEPT !.stat = disk[j.path].stat, !.pc = "chunk"]
    <2>1. k \in Job /\ Gathered(k) /\ job' = [job EXCEPT ![w] = k]
      BY <1>0, <1>1, <1>3 DEF StatFile, Job, Gathered
    <2> QED
      BY <1>2, <1>3, <2>1 DEF StatFile, TypeOK
  <1>4. CASE ChunkFile(w)
    <2> DEFINE k == [j EXCEPT !.chunks = disk[j.path].data, !.pc = "hash"]
    <2>1. k \in Job /\ Gathered(k) /\ job' = [job EXCEPT ![w] = k]
      BY <1>0, <1>1, <1>4 DEF ChunkFile, Job, Gathered
    <2> QED
      BY <1>2, <1>4, <2>1 DEF ChunkFile, TypeOK
  <1>5. CASE HashFile(w)
    <2> DEFINE k == [j EXCEPT !.hash = disk[j.path].data, !.pc = "version"]
    <2>1. k \in Job /\ Gathered(k) /\ job' = [job EXCEPT ![w] = k]
      BY <1>0, <1>1, <1>5 DEF HashFile, Job, Gathered
    <2> QED
      BY <1>2, <1>5, <2>1 DEF HashFile, TypeOK
  <1>6. CASE FileGone(w)
    BY <1>2, <1>6 DEF FileGone, Rest, TypeOK
  <1>9. CASE Unreadable(w)
    <2>1. untracked' \subseteq File /\ scanLeft' \subseteq File
      BY <1>0, <1>9 DEF Unreadable, TypeOK
    <2> QED
      BY <1>2, <1>9, <2>1 DEF Unreadable, Rest
  <1>7. CASE ReadVersion(w)
    <2>1. PICK k \in Job : job' = [job EXCEPT ![w] = k] /\ Gathered(k)
      BY <1>7, VersionRead
    <2> QED
      BY <1>2, <1>7, <2>1 DEF ReadVersion, TypeOK
  <1>8. CASE StoreRow(w)
    <2>1. j.chunks \in Content /\ j.hash \in Content /\ j.version \in Nat \ {0} /\ j.stat \in Stat
      BY <1>0, <1>8 DEF StoreRow, Gathered, Job
    <2>2. row' \in [File -> Metadata \cup {NoFile}]
      BY <1>0, <1>8, <2>1 DEF StoreRow, TypeOK, Metadata
    <2>3. crossed' \subseteq File
      BY <1>0, <1>8 DEF StoreRow, Cross, TypeOK
    <2>4. /\ job' \in [Worker -> Job \cup {NoJob}]
          /\ \A v \in Worker : job'[v] # NoJob => Gathered(job'[v])
      BY <1>8, JobType DEF StoreRow, Rest
    <2> QED
      BY <1>8, <2>2, <2>3, <2>4 DEF StoreRow, TypeOK
  <1> QED
    BY <1>3, <1>4, <1>5, <1>6, <1>7, <1>8, <1>9 DEF ProcessFile

\* Every reachable state is well typed: neither queue exceeds its capacity and
\* a worker that stores a row has chunks, a hash and a version to store
\* (watcher.go:105-161, engine.go:131-187).
THEOREM EngineTypeCorrect == Spec => []TypeOK
  <1>1. TypeOK /\ [Next]_vars => TypeOK'
    <2> SUFFICES ASSUME TypeOK, [Next]_vars PROVE TypeOK'
      OBVIOUS
    <2>1. CASE UNCHANGED vars
      BY <2>1 DEF vars, TypeOK
    <2> QED
      BY <2>1, TypeUser, TypeProgram, TypeLoop, TypeProcess DEF Next, Loop, Scan, Worker
  <1> QED
    BY TypeInit, <1>1, PTL DEF Spec

-----------------------------------------------------------------------------
(* Stats tell the age of what was gathered.                                *)

\* A step that only gives worker w another job, which speaks, or none.
LEMMA SpeaksJob ==
    ASSUME TypeOK, StatsSpeak, NEW w \in Worker, NEW j \in Job \cup {NoJob},
           j # NoJob => JobSpeaks(j, disk[j.path]),
           job' = [job EXCEPT ![w] = j], UNCHANGED <<disk, row, changes>>
    PROVE  StatsSpeak'
  <1>1. \A v \in Worker : job'[v] = IF v = w THEN j ELSE job[v]
    BY DEF TypeOK
  <1>2. \A v \in Worker : job'[v] # NoJob => JobSpeaks(job'[v], disk[job'[v].path])
    BY <1>1 DEF StatsSpeak
  <1> QED
    BY <1>2 DEF StatsSpeak, RowSpeaks, JobSpeaks

LEMMA SpeaksJobAt ==
    ASSUME TypeOK, NEW pc \in {"look", "delete", "stat"}, NEW p \in File
    PROVE  JobSpeaks(JobAt(pc, p), disk[p]) /\ JobAt(pc, p).path = p
  BY EngineAssumption DEF TypeOK, JobSpeaks, JobAt, OnDisk, Stat

LEMMA SpeaksUser == TypeOK /\ StatsSpeak /\ User => StatsSpeak'
  <1> SUFFICES ASSUME TypeOK, StatsSpeak, NEW p \in File, NEW op, NEW file,
                      Change(p, op, file),
                      file = NoFile \/ \E c \in Content : file = [stat |-> changes + 1, data |-> c]
               PROVE  StatsSpeak'
    BY DEF User, RemoveFile, MoveFileAway, WriteFile
  <1>1. changes \in Nat /\ changes' = changes + 1 /\ row' = row /\ job' = job
    BY EngineAssumption DEF Change, TypeOK
  <1>2. \A q \in File : disk'[q] = IF q = p THEN file ELSE disk[q]
    BY DEF Change, TypeOK
  <1>3. file # NoFile => file.stat = changes + 1
    OBVIOUS
  <1>4. \A q \in File : disk'[q] # NoFile => disk'[q].stat <= changes'
    BY <1>1, <1>2, <1>3, EngineAssumption DEF StatsSpeak, TypeOK, OnDisk, Stat
  <1>5. ASSUME NEW q \in File, row[q] # NoFile PROVE RowSpeaks(row[q], disk[q])'
    <2>1. row[q].stat \in Nat /\ row[q].stat <= changes /\ RowSpeaks(row[q], disk[q])
      BY <1>5, EngineAssumption DEF StatsSpeak, RowSpeaks, TypeOK, Metadata, Stat
    <2> QED
      BY <1>1, <1>2, <1>3, <2>1 DEF RowSpeaks, Describes
  <1>6. ASSUME NEW w \in Worker, job[w] # NoJob PROVE JobSpeaks(job[w], disk[job[w].path])'
    <2>1. /\ job[w].path \in File /\ job[w].stat \in Nat
          /\ job[w].stat <= changes /\ JobSpeaks(job[w], disk[job[w].path])
      BY <1>6, EngineAssumption DEF StatsSpeak, JobSpeaks, TypeOK, Job, Stat
    <2> QED
      BY <1>1, <1>2, <1>3, <2>1 DEF JobSpeaks
  <1> QED
    BY <1>1, <1>4, <1>5, <1>6 DEF StatsSpeak

LEMMA SpeaksOther ==
    ASSUME TypeOK, StatsSpeak,
           \/ Start \/ Kill \/ Close \/ Forward
           \/ TakeEvent \/ Compare \/ Look \/ \E p \in File : ScanNext(p)
    PROVE  StatsSpeak'
  <1> USE DEF UNCHANGED_ByWorker, userVars, history
  <1>1. CASE Start \/ Close \/ Forward
    BY <1>1 DEF Start, Close, Forward, StatsSpeak, RowSpeaks, JobSpeaks
  <1>2. CASE Kill
    BY <1>2 DEF Kill, StatsSpeak, RowSpeaks, JobSpeaks
  <1>3. CASE TakeEvent
    <2>1. Head(events).path \in File
      <3>1. Head(events) \in Event
        BY <1>3 DEF TypeOK, TakeEvent
      <3> QED
        BY <3>1 DEF Event
    <2>2. \/ job' = job
          \/ \E pc \in {"look", "delete"} :
                job' = [job EXCEPT !["loop"] = JobAt(pc, Head(events).path)]
      BY <1>3 DEF TakeEvent
    <2>3. CASE job' = job
      BY <1>3, <2>3 DEF TakeEvent, StatsSpeak, RowSpeaks, JobSpeaks
    <2> QED
      BY <1>3, <2>1, <2>2, <2>3, SpeaksJobAt, JobAtType, SpeaksJob DEF TakeEvent, Worker
  <1>4. CASE Compare
    <2>1. job["loop"].path \in File
      BY <1>4 DEF TypeOK, Compare, Worker, Job
    <2> QED
      BY <1>4, <2>1, SpeaksJobAt, JobAtType, SpeaksJob DEF Compare, Rest, Worker
  <1>5. CASE Look
    <2> DEFINE p == job["loop"].path
               j == [job["loop"] EXCEPT !.stat = disk[p].stat, !.pc = "compare"]
    <2>1. p \in File /\ job["loop"] \in Job
      BY <1>5 DEF TypeOK, Look, Worker, Job
    <2>2. CASE disk[p] = NoFile
      BY <1>5, <2>2, SpeaksJob DEF Look, Rest, Worker
    <2>3. CASE disk[p] # NoFile
      <3>1. disk[p].stat \in Stat /\ disk[p].stat <= changes
        BY <2>1, <2>3 DEF TypeOK, OnDisk, StatsSpeak
      <3>2. j \in Job /\ j.path = p /\ j.stat = disk[p].stat /\ j.pc = "compare"
        BY <2>1, <3>1 DEF Job
      <3>3. JobSpeaks(j, disk[p])
        BY <3>1, <3>2, EngineAssumption DEF JobSpeaks, Stat
      <3>4. job' = [job EXCEPT !["loop"] = j]
        BY <1>5, <2>3 DEF Look
      <3> QED
        BY <1>5, <3>2, <3>3, <3>4, SpeaksJob DEF Look, Worker
    <2> QED
      BY <2>2, <2>3
  <1>6. ASSUME NEW p \in File, ScanNext(p) PROVE StatsSpeak'
    BY <1>6, SpeaksJobAt, JobAtType, SpeaksJob DEF ScanNext, Worker
  <1> QED
    BY <1>1, <1>2, <1>3, <1>4, <1>5, <1>6

LEMMA SpeaksDelete == TypeOK /\ StatsSpeak /\ DeleteRow => StatsSpeak'
  <1> SUFFICES ASSUME TypeOK, StatsSpeak, DeleteRow PROVE StatsSpeak'
    OBVIOUS
  <1> USE DEF UNCHANGED_ByWorker, userVars
  <1>1. \A p \in File : row'[p] # NoFile => row'[p] = row[p]
    BY DEF DeleteRow, TypeOK
  <1>2. \A w \in Worker : job'[w] # NoJob => job'[w] = job[w]
    BY DEF DeleteRow, Rest, TypeOK
  <1> QED
    BY <1>1, <1>2 DEF DeleteRow, StatsSpeak, RowSpeaks, JobSpeaks

\* What StoreRow puts together is of one moment if its stat still is.
LEMMA SpeaksProcess == ASSUME TypeOK, StatsSpeak, NEW w \in Worker, ProcessFile(w) PROVE StatsSpeak'
  <1> DEFINE j == job[w]
             p == job[w].path
  <1> USE DEF UNCHANGED_ByWorker, userVars, At, Gone
  <1>0. j \in Job /\ Gathered(j) /\ p \in File /\ JobSpeaks(j, disk[p]) /\ j # NoJob
    BY DEF TypeOK, Job, StatsSpeak, ProcessFile, StatFile, ChunkFile, HashFile, FileGone, Unreadable,
           ReadVersion, StoreRow
  <1>1. disk[p] # NoFile => /\ disk[p].stat \in Stat /\ disk[p].stat <= changes
                            /\ disk[p].data \in Content
    BY <1>0 DEF TypeOK, OnDisk, StatsSpeak
  <1>2. ASSUME NEW k \in Job, k.path = p, JobSpeaks(k, disk[p]),
               job' = [job EXCEPT ![w] = k], UNCHANGED <<disk, row, changes>>
        PROVE  StatsSpeak'
    BY <1>2, SpeaksJob
  <1>3. CASE StatFile(w)
    <2> DEFINE k == [j EXCEPT !.stat = disk[p].stat, !.pc = "chunk"]
    <2>1. /\ k \in Job /\ job' = [job EXCEPT ![w] = k]
          /\ k.path = p /\ k.stat = disk[p].stat /\ k.pc = "chunk"
      BY <1>0, <1>1, <1>3 DEF StatFile, Job
    <2>2. JobSpeaks(k, disk[p])
      BY <1>1, <1>3, <2>1, EngineAssumption DEF StatFile, JobSpeaks, Stat
    <2> QED
      BY <1>2, <1>3, <2>1, <2>2 DEF StatFile
  <1>4. CASE ChunkFile(w)
    <2> DEFINE k == [j EXCEPT !.chunks = disk[p].data, !.pc = "hash"]
    <2>1. /\ k \in Job /\ job' = [job EXCEPT ![w] = k]
          /\ k.path = p /\ k.stat = j.stat /\ k.chunks = disk[p].data /\ k.pc = "hash"
      BY <1>0, <1>1, <1>4 DEF ChunkFile, Job
    <2>2. JobSpeaks(k, disk[p])
      BY <1>0, <2>1 DEF JobSpeaks
    <2> QED
      BY <1>2, <1>4, <2>1, <2>2 DEF ChunkFile
  <1>5. CASE HashFile(w)
    <2> DEFINE k == [j EXCEPT !.hash = disk[p].data, !.pc = "version"]
    <2>1. /\ k \in Job /\ job' = [job EXCEPT ![w] = k]
          /\ k.path = p /\ k.stat = j.stat /\ k.chunks = j.chunks
          /\ k.hash = disk[p].data /\ k.pc = "version"
      BY <1>0, <1>1, <1>5 DEF HashFile, Job
    <2>2. JobSpeaks(k, disk[p])
      BY <1>0, <1>5, <2>1 DEF HashFile, JobSpeaks
    <2> QED
      BY <1>2, <1>5, <2>1, <2>2 DEF HashFile
  <1>6. CASE FileGone(w)
    BY <1>6, SpeaksJob DEF FileGone, Rest
  <1>9. CASE Unreadable(w)
    BY <1>9, SpeaksJob DEF Unreadable, Rest
  <1>7. CASE ReadVersion(w)
    <2>1. PICK k \in Job :
             /\ job' = [job EXCEPT ![w] = k]
             /\ k.path = p /\ k.stat = j.stat /\ k.chunks = j.chunks /\ k.hash = j.hash
             /\ k.pc = "store"
      BY <1>7, VersionRead
    <2>2. JobSpeaks(k, disk[p])
      BY <1>0, <1>7, <2>1 DEF ReadVersion, JobSpeaks
    <2> QED
      BY <1>2, <1>7, <2>1, <2>2 DEF ReadVersion
  <1>8. CASE StoreRow(w)
    <2>1. j.pc = "store" /\ UNCHANGED <<disk, changes>>
      BY <1>8 DEF StoreRow
    <2>2. \A v \in Worker : job'[v] # NoJob => job'[v] = job[v]
      BY <1>8 DEF StoreRow, Rest, TypeOK
    <2>3. ASSUME NEW q \in File, row'[q] # NoFile PROVE RowSpeaks(row'[q], disk[q])
      <3>1. CASE q = p /\ status # "closed"
        <4>1. row'[q] = [stat |-> j.stat, chunks |-> j.chunks, hash |-> j.hash,
                         version |-> j.version]
          BY <1>0, <1>8, <3>1 DEF StoreRow, TypeOK
        <4>2. /\ row'[q].stat = j.stat /\ row'[q].chunks = j.chunks
              /\ row'[q].hash = j.hash
          BY <4>1
        <4> QED
          BY <1>0, <2>1, <2>3, <3>1, <4>2 DEF RowSpeaks, JobSpeaks, Describes
      <3>2. CASE q # p \/ status = "closed"
        BY <1>8, <2>3, <3>2 DEF StoreRow, TypeOK, StatsSpeak
      <3> QED
        BY <3>1, <3>2
    <2> QED
      BY <2>1, <2>2, <2>3 DEF StatsSpeak, RowSpeaks, JobSpeaks
  <1> QED
    BY <1>3, <1>4, <1>5, <1>6, <1>7, <1>8, <1>9 DEF ProcessFile

-----------------------------------------------------------------------------
(* Workers that meet.                                                      *)

LEMMA TheOther == Other("loop") = "scan" /\ Other("scan") = "loop"
  <1>1. \E v \in Worker : v # "loop"
    BY DEF Worker
  <1>2. \E v \in Worker : v # "scan"
    BY DEF Worker
  <1>3. Other("loop") \in Worker /\ Other("loop") # "loop"
    BY <1>1 DEF Other
  <1>4. Other("scan") \in Worker /\ Other("scan") # "scan"
    BY <1>2 DEF Other
  <1> QED
    BY <1>3, <1>4 DEF Worker

\* Whatever changes a row leaves the worker at rest, and what the other one is
\* processing has crossed if it is the same file.
Writes(w) ==
    /\ w \in Worker /\ job'[w] = NoJob /\ job[w] # NoJob
    /\ \A v \in Worker : v # w => job'[v] = job[v]
    /\ \A p \in File : p # job[w].path => row'[p] = row[p]
    /\ crossed \subseteq crossed'
    /\ \A v \in Worker, p \in File \ crossed' :
          v # w /\ Processing(v, p) => p # job[w].path
    /\ status' = status

LEMMA DeleteWrites == TypeOK /\ DeleteRow => Writes("loop")
  BY TheOther DEF TypeOK, DeleteRow, Writes, Rest, Cross, Processing, Busy, Worker, UNCHANGED_ByWorker

LEMMA StoreWrites == ASSUME TypeOK, NEW w \in Worker, StoreRow(w) PROVE Writes(w)
  BY TheOther DEF TypeOK, StoreRow, At, Writes, Rest, Cross, Processing, Busy, Worker, UNCHANGED_ByWorker

\* A step that changes no row and gives worker w the job j, or none.
Works(w, j) ==
    /\ w \in Worker /\ j \in Job \cup {NoJob}
    /\ job' = [job EXCEPT ![w] = j]
    /\ UNCHANGED <<disk, row, status, crossed>>

LEMMA LaterWrites == ASSUME TypeOK, ScanIsLater, NEW w, Writes(w) PROVE ScanIsLater'
  <1> SUFFICES ASSUME NEW p \in File \ crossed', Processing("scan", p)', row'[p] # NoFile
               PROVE  row'[p].stat <= job'["scan"].stat
    BY DEF ScanIsLater
  <1>1. w # "scan" /\ job'["scan"] = job["scan"] /\ Processing("scan", p)
    BY DEF Writes, Processing, Busy, Worker
  <1>2. p \notin crossed /\ row'[p] = row[p]
    BY <1>1 DEF Writes, Worker
  <1> QED
    BY <1>1, <1>2 DEF ScanIsLater

LEMMA LaterWorks ==
    ASSUME TypeOK, StatsSpeak, ScanIsLater, NEW w, NEW j, Works(w, j),
           w = "scan" /\ j # NoJob =>
               \/ j.pc = "stat"
               \/ disk[j.path] # NoFile /\ j.stat = disk[j.path].stat
               \/ Processing("scan", j.path) /\ j.stat = job["scan"].stat
    PROVE  ScanIsLater'
  <1> SUFFICES ASSUME NEW p \in File \ crossed, Processing("scan", p)', row[p] # NoFile
               PROVE  row[p].stat <= job'["scan"].stat
    BY DEF ScanIsLater, Works
  <1>1. CASE w # "scan"
    <2>1. job'["scan"] = job["scan"] /\ Processing("scan", p)
      BY <1>1 DEF Works, TypeOK, Worker, Processing, Busy
    <2> QED
      BY <2>1 DEF ScanIsLater
  <1>2. CASE w = "scan"
    <2>1. job'["scan"] = j /\ j # NoJob /\ j.path = p /\ j.pc # "stat"
      BY <1>2 DEF Works, TypeOK, Worker, Processing, Busy
    <2> QED
      BY <1>2, <2>1 DEF ScanIsLater, StatsSpeak, RowSpeaks
  <1> QED
    BY <1>1, <1>2

LEMMA FollowWrites == ASSUME TypeOK, VersionsFollow, NEW w, Writes(w) PROVE VersionsFollow'
  <1> SUFFICES ASSUME status' # "closed", NEW v \in Worker, NEW p \in File \ crossed',
                      Busy(v, p)', job'[v].pc = "store", row'[p] # NoFile
               PROVE  job'[v].version = NextVersion(row'[p], job'[v].hash)
    BY DEF VersionsFollow
  <1>1. v # w /\ job'[v] = job[v] /\ Busy(v, p) /\ Processing(v, p)
    BY DEF Writes, Busy, Processing
  <1>2. p \notin crossed /\ row'[p] = row[p] /\ status # "closed"
    BY <1>1 DEF Writes
  <1> QED
    BY <1>1, <1>2 DEF VersionsFollow

LEMMA FollowWorks ==
    ASSUME TypeOK, VersionsFollow, NEW w, NEW j, Works(w, j),
           j # NoJob /\ j.pc = "store" /\ status # "closed" =>
               j.version = NextVersion(row[j.path], j.hash)
    PROVE  VersionsFollow'
  <1> SUFFICES ASSUME status # "closed", NEW v \in Worker, NEW p \in File \ crossed,
                      Busy(v, p)', job'[v].pc = "store", row[p] # NoFile
               PROVE  job'[v].version = NextVersion(row[p], job'[v].hash)
    BY DEF VersionsFollow, Works
  <1>1. CASE v # w
    <2>1. job'[v] = job[v] /\ Busy(v, p)
      BY <1>1 DEF Works, TypeOK, Busy
    <2> QED
      BY <2>1 DEF VersionsFollow
  <1>2. CASE v = w
    <2>1. job'[v] = j /\ j # NoJob /\ j.path = p
      BY <1>2 DEF Works, TypeOK, Busy
    <2> QED
      BY <2>1
  <1> QED
    BY <1>1, <1>2

LEMMA CrossLoop ==
    ASSUME TypeOK, StatsSpeak, ScanIsLater, VersionsFollow,
           TakeEvent \/ Look \/ Compare \/ \E p \in File : ScanNext(p)
    PROVE  ScanIsLater' /\ VersionsFollow'
  <1> USE DEF UNCHANGED_ByWorker, userVars
  <1>1. ASSUME NEW w \in Worker, NEW j \in Job \cup {NoJob}, Works(w, j),
               j = NoJob \/ j.pc \in {"look", "delete", "stat"} \/ (w = "loop" /\ j.pc = "compare"),
               w = "scan" /\ j # NoJob => j.pc = "stat"
        PROVE  ScanIsLater' /\ VersionsFollow'
    BY <1>1, LaterWorks, FollowWorks DEF Worker
  <1>2. CASE TakeEvent
    <2>1. Head(events).path \in File
      <3>1. Head(events) \in Event
        BY <1>2 DEF TypeOK, TakeEvent
      <3> QED
        BY <3>1 DEF Event
    <2>2. \/ job' = [job EXCEPT !["loop"] = NoJob]
          \/ \E pc \in {"look", "delete"} :
                job' = [job EXCEPT !["loop"] = JobAt(pc, Head(events).path)]
      BY <1>2 DEF TakeEvent, TypeOK
    <2>3. Works("loop", NoJob) \/ \E pc \in {"look", "delete"} : Works("loop", JobAt(pc, Head(events).path))
      BY <1>2, <2>1, <2>2, JobAtType DEF Works, TakeEvent, Worker
    <2> QED
      BY <1>1, <2>1, <2>3, JobAtType DEF Worker, JobAt
  <1>3. CASE Look
    <2> DEFINE p == job["loop"].path
               j == [job["loop"] EXCEPT !.stat = disk[p].stat, !.pc = "compare"]
    <2>1. p \in File /\ job["loop"] \in Job
      BY <1>3 DEF TypeOK, Look, Worker, Job
    <2>2. CASE disk[p] = NoFile
      <3>1. Works("loop", NoJob)
        BY <1>3, <2>2 DEF Works, Look, Rest, Worker
      <3> QED
        BY <1>1, <3>1 DEF Worker
    <2>3. CASE disk[p] # NoFile
      <3>1. disk[p].stat \in Stat
        BY <2>1, <2>3 DEF TypeOK, OnDisk
      <3>2. j \in Job /\ j.pc = "compare"
        BY <2>1, <3>1 DEF Job
      <3>3. Works("loop", j)
        BY <1>3, <2>3, <3>2 DEF Works, Look, Worker
      <3> QED
        BY <1>1, <3>2, <3>3 DEF Worker
    <2> QED
      BY <2>2, <2>3
  <1>4. CASE Compare
    <2>1. job["loop"].path \in File
      BY <1>4 DEF TypeOK, Compare, Worker, Job
    <2>2. Works("loop", NoJob) \/ Works("loop", JobAt("stat", job["loop"].path))
      BY <1>4, <2>1, JobAtType DEF Works, Compare, Rest, Worker
    <2> QED
      BY <1>1, <2>1, <2>2, JobAtType DEF Worker, JobAt
  <1>5. ASSUME NEW p \in File, ScanNext(p) PROVE ScanIsLater' /\ VersionsFollow'
    <2>1. Works("scan", JobAt("stat", p))
      BY <1>5, JobAtType DEF Works, ScanNext, Worker
    <2> QED
      BY <1>1, <2>1, JobAtType DEF Worker, JobAt
  <1> QED
    BY <1>2, <1>3, <1>4, <1>5

LEMMA CrossProcess ==
    ASSUME TypeOK, StatsSpeak, ScanIsLater, VersionsFollow,
           NEW w \in Worker, ProcessFile(w)
    PROVE  ScanIsLater' /\ VersionsFollow'
  <1> DEFINE j == job[w]
             p == job[w].path
  <1> USE DEF UNCHANGED_ByWorker, userVars, At, Gone
  <1>0. j \in Job /\ Gathered(j) /\ p \in File /\ j # NoJob
    BY DEF TypeOK, Job, ProcessFile, StatFile, ChunkFile, HashFile, FileGone, Unreadable, ReadVersion, StoreRow
  <1>1. disk[p] # NoFile => disk[p].stat \in Stat /\ disk[p].data \in Content
    BY <1>0 DEF TypeOK, OnDisk
  <1>2. ASSUME NEW k \in Job, Works(w, k), k.path = p, j.pc \in {"chunk", "hash", "version"},
               k.stat = j.stat,
               k.pc = "store" /\ status # "closed" => k.version = NextVersion(row[p], k.hash)
        PROVE  ScanIsLater' /\ VersionsFollow'
    <2>1. Processing(w, p)
      BY <1>0, <1>2 DEF Processing, Busy
    <2> QED
      BY <1>2, <2>1, LaterWorks, FollowWorks
  <1>3. CASE StatFile(w)
    <2> DEFINE k == [j EXCEPT !.stat = disk[p].stat, !.pc = "chunk"]
    <2>1. /\ k \in Job /\ job' = [job EXCEPT ![w] = k]
          /\ k.path = p /\ k.stat = disk[p].stat /\ k.pc = "chunk"
      BY <1>0, <1>1, <1>3 DEF StatFile, Job
    <2>2. Works(w, k) /\ disk[p] # NoFile
      BY <1>3, <2>1 DEF StatFile, Works
    <2> QED
      BY <2>1, <2>2, LaterWorks, FollowWorks
  <1>4. CASE ChunkFile(w)
    <2> DEFINE k == [j EXCEPT !.chunks = disk[p].data, !.pc = "hash"]
    <2>1. /\ k \in Job /\ job' = [job EXCEPT ![w] = k]
          /\ k.path = p /\ k.stat = j.stat /\ k.pc = "hash"
      BY <1>0, <1>1, <1>4 DEF ChunkFile, Job
    <2>2. Works(w, k) /\ j.pc = "chunk"
      BY <1>4, <2>1 DEF ChunkFile, Works
    <2> QED
      BY <1>2, <2>1, <2>2
  <1>5. CASE HashFile(w)
    <2> DEFINE k == [j EXCEPT !.hash = disk[p].data, !.pc = "version"]
    <2>1. /\ k \in Job /\ job' = [job EXCEPT ![w] = k]
          /\ k.path = p /\ k.stat = j.stat /\ k.pc = "version"
      BY <1>0, <1>1, <1>5 DEF HashFile, Job
    <2>2. Works(w, k) /\ j.pc = "hash"
      BY <1>5, <2>1 DEF HashFile, Works
    <2> QED
      BY <1>2, <2>1, <2>2
  <1>6. CASE FileGone(w)
    <2>1. Works(w, NoJob)
      BY <1>6 DEF FileGone, Rest, Works
    <2> QED
      BY <2>1, LaterWorks, FollowWorks
  <1>9. CASE Unreadable(w)
    <2>1. Works(w, NoJob)
      BY <1>9 DEF Unreadable, Rest, Works
    <2> QED
      BY <2>1, LaterWorks, FollowWorks
  <1>7. CASE ReadVersion(w)
    <2>1. PICK k \in Job :
             /\ job' = [job EXCEPT ![w] = k]
             /\ k.path = p /\ k.stat = j.stat /\ k.hash = j.hash
             /\ k.version = NextVersion(IF status = "closed" THEN NoFile ELSE row[p], j.hash)
      BY <1>7, VersionRead
    <2>2. Works(w, k) /\ j.pc = "version"
      BY <1>7, <2>1 DEF ReadVersion, Works
    <2> QED
      BY <1>2, <2>1, <2>2
  <1>8. CASE StoreRow(w)
    BY <1>8, StoreWrites, LaterWrites, FollowWrites
  <1> QED
    BY <1>3, <1>4, <1>5, <1>6, <1>7, <1>8, <1>9 DEF ProcessFile

\* Everybody else leaves jobs and rows alone, or ends the process.
LEMMA CrossOthers ==
    ASSUME TypeOK, ScanIsLater, VersionsFollow, User \/ Start \/ Kill \/ Close \/ Forward
    PROVE  ScanIsLater' /\ VersionsFollow'
  <1>1. CASE Kill
    BY <1>1 DEF Kill, ScanIsLater, VersionsFollow, Processing, Busy, Worker
  <1>2. CASE User \/ Start \/ Close \/ Forward
    <2>1. UNCHANGED <<row, job, crossed>> /\ (status' # "closed" => status # "closed")
      BY <1>2 DEF User, RemoveFile, MoveFileAway, WriteFile, Change, Start, Close, Forward,
                  userVars, history
    <2> QED
      BY <2>1 DEF ScanIsLater, VersionsFollow, Processing, Busy
  <1> QED
    BY <1>1, <1>2

-----------------------------------------------------------------------------
(* Queues: what is in them about a file, and what the last of it tells.    *)

LEMMA InQueue ==
    ASSUME NEW q \in Seq(Event), NEW p
    PROVE  In(q, p) <=> \E i \in DOMAIN q : q[i].path = p
  BY DEF In, Range

LEMMA AppendOther ==
    ASSUME NEW q \in Seq(Event), NEW e \in Event, NEW p, e.path # p, NEW gone
    PROVE  /\ In(Append(q, e), p) <=> In(q, p)
           /\ Tells(q, p, gone) => Tells(Append(q, e), p, gone)
  <1> DEFINE r == Append(q, e)
  <1>1. /\ r \in Seq(Event) /\ DOMAIN q = 1 .. Len(q) /\ Len(q) \in Nat
        /\ DOMAIN r = 1 .. Len(q) + 1 /\ r[Len(q) + 1] = e
        /\ \A i \in DOMAIN q : i \in DOMAIN r /\ r[i] = q[i]
    OBVIOUS
  <1> HIDE DEF r
  <1>2. In(r, p) <=> In(q, p)
    BY <1>1, InQueue
  <1>3. ASSUME Tells(q, p, gone) PROVE Tells(r, p, gone)
    <2> SUFFICES ASSUME NEW i \in DOMAIN r, r[i].path = p,
                        \A k \in DOMAIN r : k > i => r[k].path # p
                 PROVE  r[i].op # "rename" /\ (r[i].op = "remove" <=> gone)
      BY DEF Tells
    <2>1. i \in DOMAIN q /\ r[i] = q[i]
      BY <1>1
    <2>2. \A k \in DOMAIN q : k > i => q[k].path # p
      BY <1>1
    <2> QED
      BY <1>3, <2>1, <2>2 DEF Tells
  <1> QED
    BY <1>2, <1>3 DEF r

LEMMA AppendOwn ==
    ASSUME NEW q \in Seq(Event), NEW e \in Event, NEW gone,
           e.op # "rename", e.op = "remove" <=> gone
    PROVE  In(Append(q, e), e.path) /\ Tells(Append(q, e), e.path, gone)
  <1> DEFINE r == Append(q, e)
  <1>1. /\ r \in Seq(Event) /\ Len(q) \in Nat
        /\ DOMAIN r = 1 .. Len(q) + 1 /\ r[Len(q) + 1] = e
    OBVIOUS
  <1> HIDE DEF r
  <1>2. In(r, e.path)
    BY <1>1, InQueue
  <1>3. Tells(r, e.path, gone)
    <2> SUFFICES ASSUME NEW i \in DOMAIN r, \A k \in DOMAIN r : k > i => r[k].path # e.path
                 PROVE  r[i].op # "rename" /\ (r[i].op = "remove" <=> gone)
      BY DEF Tells
    <2>1. i = Len(q) + 1
      BY <1>1
    <2> QED
      BY <1>1, <2>1
  <1> QED
    BY <1>2, <1>3 DEF r

LEMMA TakeFirst ==
    ASSUME NEW q \in Seq(Event), q # <<>>, NEW p, NEW gone
    PROVE  /\ Head(q) \in Event /\ Head(q).path \in File /\ Tail(q) \in Seq(Event)
           /\ In(q, p) <=> Head(q).path = p \/ In(Tail(q), p)
           /\ Tells(q, p, gone) => Tells(Tail(q), p, gone)
           /\ Tells(q, p, gone) /\ Head(q).path = p /\ ~In(Tail(q), p) =>
                 Head(q).op # "rename" /\ (Head(q).op = "remove" <=> gone)
  <1> DEFINE r == Tail(q)
  <1>1. /\ r \in Seq(Event) /\ DOMAIN q = 1 .. Len(q) /\ Len(q) \in Nat \ {0}
        /\ DOMAIN r = 1 .. Len(q) - 1 /\ Head(q) = q[1] /\ q[1] \in Event
        /\ \A i \in DOMAIN r : i + 1 \in DOMAIN q /\ r[i] = q[i + 1]
    OBVIOUS
  <1>0. q[1].path \in File
    BY <1>1 DEF Event
  <1> HIDE DEF r
  <1>2. \A k \in DOMAIN q : k > 1 => k - 1 \in DOMAIN r /\ r[k - 1] = q[k]
    BY <1>1
  <1>3. In(q, p) <=> q[1].path = p \/ In(r, p)
    <2>1. In(q, p) => q[1].path = p \/ In(r, p)
      <3> SUFFICES ASSUME NEW i \in DOMAIN q, q[i].path = p, i # 1 PROVE In(r, p)
        BY InQueue
      <3>1. i > 1
        BY <1>1
      <3> QED
        BY <1>1, <1>2, <3>1, InQueue
    <2>2. q[1].path = p \/ In(r, p) => In(q, p)
      BY <1>1, InQueue
    <2> QED
      BY <2>1, <2>2
  <1>4. ASSUME Tells(q, p, gone) PROVE Tells(r, p, gone)
    <2> SUFFICES ASSUME NEW i \in DOMAIN r, r[i].path = p,
                        \A k \in DOMAIN r : k > i => r[k].path # p
                 PROVE  r[i].op # "rename" /\ (r[i].op = "remove" <=> gone)
      BY DEF Tells
    <2>1. i + 1 \in DOMAIN q /\ q[i + 1] = r[i]
      BY <1>1
    <2>2. ASSUME NEW k \in DOMAIN q, k > i + 1 PROVE q[k].path # p
      <3>1. k > 1 /\ k - 1 > i
        BY <1>1, <2>2
      <3> QED
        BY <1>2, <3>1
    <2> QED
      BY <1>4, <2>1, <2>2 DEF Tells
  <1>5. ASSUME Tells(q, p, gone), q[1].path = p, ~In(r, p)
        PROVE  q[1].op # "rename" /\ (q[1].op = "remove" <=> gone)
    <2>1. \A k \in DOMAIN q : k > 1 => q[k].path # p
      BY <1>1, <1>2, <1>5, InQueue
    <2>2. 1 \in DOMAIN q
      BY <1>1
    <2> QED
      BY <1>5, <2>1, <2>2 DEF Tells
  <1> QED
    BY <1>0, <1>1, <1>3, <1>4, <1>5 DEF r

\* A queue in which there is nothing about a file tells whatever one likes.
LEMMA TellsNothing ==
    ASSUME NEW q \in Seq(Event), NEW p, ~In(q, p), NEW gone
    PROVE  Tells(q, p, gone)
  BY InQueue DEF Tells

-----------------------------------------------------------------------------
(* The most recent piece about a file is true.                             *)

\* A file that a step does not concern: the queues say what they said, and no
\* worker has changed hands on it.
LEMMA TrackedFrame ==
    ASSUME NEW p \in File, Tracked(p), disk'[p] = disk[p], row'[p] = row[p],
           In(raw, p)' <=> In(raw, p), In(events, p)' <=> In(events, p),
           Tells(raw, p, disk[p] = NoFile) => Tells(raw', p, disk[p] = NoFile),
           Tells(events, p, disk[p] = NoFile) => Tells(events', p, disk[p] = NoFile),
           job'["loop"] = job["loop"] \/ (~Busy("loop", p) /\ ~Busy("loop", p)'),
           \/ job'["scan"] = job["scan"]
           \/ ~Processing("scan", p) /\ ~Processing("scan", p)'
    PROVE  Tracked(p)'
  <1>1. Busy("loop", p)' <=> Busy("loop", p)
    BY DEF Busy
  <1>2. Pending(p)' <=> Pending(p)
    BY <1>1 DEF Pending
  <1>3. Processing("scan", p)' <=> Processing("scan", p)
    BY DEF Processing, Busy
  <1>4. ~Pending(p) => IF Processing("scan", p)'
            THEN disk'[p] # NoFile /\ job'["scan"].stat = disk'[p].stat
            ELSE Describes(row'[p], disk'[p])
    BY <1>3 DEF Tracked
  <1>5. ~In(raw, p) /\ ~In(events, p) /\ Busy("loop", p) =>
          /\ job'["loop"].pc = "delete" <=> disk'[p] = NoFile
          /\ job'["loop"].pc \notin {"delete", "look", "stat"} =>
                job'["loop"].stat = disk'[p].stat
    BY <1>1 DEF Tracked
  <1> QED
    BY <1>1, <1>2, <1>4, <1>5 DEF Tracked

LEMMA TrackedChange ==
    ASSUME TypeOK, NEW q \in File, NEW op \in {"create", "write", "remove", "rename"}, NEW file,
           Change(q, op, file), op = "remove" <=> (file = NoFile /\ op # "rename"),
           NEW p \in File, p \notin untracked', p \notin untracked => Tracked(p)
    PROVE  Tracked(p)'
  <1>1. [path |-> q, op |-> op] \in Event /\ raw \in Seq(Event)
    BY DEF Event, TypeOK
  <1>2. CASE p = q
    <2>1. raw' = Append(raw, [path |-> p, op |-> op]) /\ op # "rename"
      BY <1>2 DEF Change, Seen, Raise
    <2>2. (op = "remove" <=> disk'[p] = NoFile)
      BY <1>2, <2>1 DEF Change, TypeOK
    <2>3. In(raw, p)' /\ Tells(raw', p, disk'[p] = NoFile)
      BY <1>1, <1>2, <2>1, <2>2, AppendOwn
    <2> QED
      BY <2>3 DEF Tracked, Pending
  <1>3. CASE p # q
    <2>1. p \notin untracked /\ UNCHANGED <<row, events, job>> /\ disk'[p] = disk[p]
      BY <1>3 DEF Change, TypeOK
    <2>2. /\ In(raw, p)' <=> In(raw, p)
          /\ Tells(raw, p, disk[p] = NoFile) => Tells(raw', p, disk[p] = NoFile)
      <3>1. CASE raw' = raw
        BY <3>1
      <3>2. CASE raw' = Append(raw, [path |-> q, op |-> op])
        BY <1>1, <1>3, <3>2, AppendOther
      <3> QED
        BY <3>1, <3>2 DEF Change, Raise
    <2> QED
      BY <2>1, <2>2, TrackedFrame
  <1> QED
    BY <1>2, <1>3

LEMMA TrackedForward ==
    ASSUME TypeOK, Forward, NEW p \in File, p \notin untracked', Tracked(p)
    PROVE  Tracked(p)'
  <1> DEFINE e == Head(raw)
             gone == disk[p] = NoFile
  <1>1. /\ UNCHANGED <<disk, row, job>> /\ raw' = Tail(raw) /\ raw # <<>>
        /\ events' \in {events, Append(events, e)}
        /\ e.path = p => events' = Append(events, e)
    BY DEF Forward, userVars, history
  <1>2. raw \in Seq(Event) /\ events \in Seq(Event)
    BY DEF TypeOK
  <1>3. /\ e \in Event /\ (In(raw, p) <=> e.path = p \/ In(Tail(raw), p))
        /\ Tells(Tail(raw), p, gone)
        /\ e.path = p /\ ~In(Tail(raw), p) => e.op # "rename" /\ (e.op = "remove" <=> gone)
    BY <1>1, <1>2, TakeFirst DEF Tracked
  <1>4. CASE e.path # p
    <2>1. /\ In(events, p)' <=> In(events, p)
          /\ Tells(events, p, gone) => Tells(events', p, gone)
      <3>1. CASE events' = events
        BY <3>1
      <3>2. CASE events' = Append(events, e)
        BY <1>2, <1>3, <1>4, <3>2, AppendOther
      <3> QED
        BY <1>1, <3>1, <3>2
    <2> QED
      BY <1>1, <1>3, <1>4, <2>1, TrackedFrame
  <1>5. CASE e.path = p /\ In(Tail(raw), p)
    BY <1>1, <1>3, <1>5 DEF Tracked, Pending
  <1>6. CASE e.path = p /\ ~In(Tail(raw), p)
    <2>1. In(events, p)' /\ Tells(events', p, gone)
      BY <1>1, <1>2, <1>3, <1>6, AppendOwn
    <2> QED
      BY <1>1, <1>3, <2>1 DEF Tracked, Pending
  <1> QED
    BY <1>4, <1>5, <1>6

LEMMA TrackedTake ==
    ASSUME TypeOK, TakeEvent, NEW p \in File, Tracked(p)
    PROVE  Tracked(p)'
  <1> DEFINE e == Head(events)
             gone == disk[p] = NoFile
  <1>1. /\ UNCHANGED <<disk, row, raw>> /\ events' = Tail(events) /\ events # <<>>
        /\ job["loop"] = NoJob /\ job'["scan"] = job["scan"]
    BY DEF TakeEvent, UNCHANGED_ByWorker, userVars, TypeOK, Worker
  <1>2. raw \in Seq(Event) /\ events \in Seq(Event)
    BY DEF TypeOK
  <1>3. /\ e \in Event /\ e.path \in File
        /\ In(events, p) <=> e.path = p \/ In(Tail(events), p)
        /\ Tells(events, p, gone) => Tells(Tail(events), p, gone)
        /\ Tells(events, p, gone) /\ e.path = p /\ ~In(Tail(events), p) =>
              e.op # "rename" /\ (e.op = "remove" <=> gone)
    BY <1>1, <1>2, TakeFirst
  <1>4. \/ e.op = "rename" /\ job'["loop"] = NoJob
        \/ e.op = "remove" /\ job'["loop"] = JobAt("delete", e.path)
        \/ e.op \in {"create", "write"} /\ job'["loop"] = JobAt("look", e.path)
    BY <1>1 DEF TakeEvent, TypeOK, Worker
  <1>5. CASE e.path # p
    <2>1. ~Busy("loop", p) /\ ~Busy("loop", p)'
      BY <1>1, <1>4, <1>5 DEF Busy, JobAt
    <2> QED
      BY <1>1, <1>3, <1>5, <2>1, TrackedFrame
  <1>6. CASE e.path = p /\ (In(raw, p) \/ In(Tail(events), p))
    BY <1>1, <1>3, <1>6 DEF Tracked, Pending
  <1>7. CASE e.path = p /\ ~In(raw, p) /\ ~In(Tail(events), p)
    <2>1. e.op # "rename" /\ (e.op = "remove" <=> gone)
      BY <1>3, <1>7 DEF Tracked
    <2>2. /\ job'["loop"] # NoJob /\ job'["loop"].path = p
          /\ job'["loop"].pc \in {"delete", "look"} /\ (job'["loop"].pc = "delete" <=> gone)
      BY <1>3, <1>4, <1>7, <2>1, JobAtType, NullAssumption DEF JobAt
    <2>3. Busy("loop", p)' /\ Pending(p)'
      BY <2>2 DEF Busy, Pending
    <2> QED
      BY <1>1, <1>3, <1>7, <2>2, <2>3 DEF Tracked
  <1> QED
    BY <1>5, <1>6, <1>7

\* The loop's steps on a file p, once nothing is in the queues about it: else
\* there is nothing to show but what the queues tell.
LEMMA TrackedQueued ==
    ASSUME NEW p, Tracked(p), In(raw, p) \/ In(events, p), UNCHANGED <<raw, events>>, disk'[p] = disk[p]
    PROVE  Tracked(p)'
  BY DEF Tracked, Pending

LEMMA TrackedLoop ==
    ASSUME TypeOK, StatsSpeak, ScanIsLater, status # "closed", Look \/ Compare \/ DeleteRow,
           NEW p \in File, p \notin crossed', Tracked(p)
    PROVE  Tracked(p)'
  <1> DEFINE j == job["loop"]
  <1> USE DEF UNCHANGED_ByWorker, userVars
  <1>1. /\ UNCHANGED <<disk, raw, events>> /\ job'["scan"] = job["scan"]
        /\ j # NoJob /\ j \in Job /\ (j.path # p => row'[p] = row[p])
    BY DEF Look, Compare, DeleteRow, Rest, TypeOK, Worker
  <1>2. CASE j.path # p
    <2>1. ~Busy("loop", p) /\ ~Busy("loop", p)'
      <3>1. job'["loop"] = NoJob \/ job'["loop"].path = j.path
        BY <1>1 DEF Look, Compare, DeleteRow, Rest, TypeOK, Worker, Job, JobAt
      <3> QED
        BY <1>2, <3>1 DEF Busy
    <2> QED
      BY <1>1, <1>2, <2>1, TrackedFrame
  <1>3. CASE j.path = p /\ (In(raw, p) \/ In(events, p))
    BY <1>1, <1>3, TrackedQueued
  <1>4. CASE j.path = p /\ ~In(raw, p) /\ ~In(events, p)
    <2>1. /\ Busy("loop", p) /\ (j.pc = "delete" <=> disk[p] = NoFile)
          /\ j.pc \notin {"delete", "look", "stat"} => j.stat = disk[p].stat
      BY <1>1, <1>4 DEF Busy, Tracked
    <2>2. CASE Look
      <3>1. disk[p] # NoFile
        BY <1>4, <2>1, <2>2 DEF Look
      <3>2. job'["loop"] = [j EXCEPT !.stat = disk[p].stat, !.pc = "compare"]
        BY <1>4, <2>2, <3>1 DEF Look, TypeOK, Worker
      <3>3. disk[p].stat \in Stat
        BY <3>1 DEF TypeOK, OnDisk
      <3>4. /\ job'["loop"] \in Job /\ job'["loop"].path = p /\ job'["loop"].pc = "compare"
            /\ job'["loop"].stat = disk[p].stat
        BY <1>1, <1>4, <3>2, <3>3 DEF Job
      <3>5. Busy("loop", p)'
        BY <3>4, NullAssumption DEF Busy
      <3> QED
        BY <1>1, <1>4, <3>1, <3>4, <3>5, <2>2 DEF Tracked, Pending
    <2>3. CASE Compare
      <3>1. disk[p] # NoFile /\ j.stat = disk[p].stat
        BY <2>1, <2>3 DEF Compare
      <3>2. CASE row[p] # NoFile /\ row[p].stat = j.stat
        <4>1. job'["loop"] = NoJob /\ row' = row
          BY <1>4, <2>3, <3>2 DEF Compare, Rest, TypeOK, Worker
        <4>2. Describes(row[p], disk[p])
          BY <3>1, <3>2 DEF StatsSpeak, RowSpeaks
        <4>3. CASE Processing("scan", p)
          <5>1. row[p].stat <= job["scan"].stat
            BY <2>3, <3>2, <4>3 DEF ScanIsLater, Compare
          <5>2. job["scan"].stat <= disk[p].stat
            BY <3>1, <4>3 DEF StatsSpeak, JobSpeaks, Processing, Busy, Worker
          <5>3. job["scan"].stat = disk[p].stat
            BY <3>1, <3>2, <4>3, <5>1, <5>2, EngineAssumption
               DEF TypeOK, OnDisk, Stat, Job, Processing, Busy, Worker
          <5> QED
            BY <1>1, <1>4, <2>3, <3>1, <4>1, <4>3, <5>3 DEF Tracked, Pending, Processing, Busy
        <4>4. CASE ~Processing("scan", p)
          BY <1>1, <1>4, <2>3, <4>1, <4>2, <4>4 DEF Tracked, Pending, Processing, Busy
        <4> QED
          BY <4>3, <4>4
      <3>3. CASE ~(row[p] # NoFile /\ row[p].stat = j.stat)
        <4>1. job'["loop"] = JobAt("stat", p)
          BY <1>4, <2>3, <3>3 DEF Compare, TypeOK, Worker
        <4>2. job'["loop"].pc = "stat" /\ Busy("loop", p)'
          BY <4>1, JobAtType, NullAssumption DEF JobAt, Busy
        <4> QED
          BY <1>1, <1>4, <2>3, <3>1, <4>2 DEF Tracked, Pending
      <3> QED
        BY <3>2, <3>3
    <2>4. CASE DeleteRow
      <3>1. disk[p] = NoFile /\ row'[p] = NoFile /\ job'["loop"] = NoJob
        BY <1>4, <2>1, <2>4 DEF DeleteRow, Rest, TypeOK, Worker
      <3>2. ~Processing("scan", p)
        BY <1>4, <2>4, DeleteWrites DEF Writes, Worker
      <3> QED
        BY <1>1, <1>4, <2>4, <3>1, <3>2 DEF Tracked, Pending, Processing, Busy, Describes
    <2> QED
      BY <2>2, <2>3, <2>4
  <1> QED
    BY <1>2, <1>3, <1>4

LEMMA TrackedScanNext ==
    ASSUME TypeOK, NEW q \in File, ScanNext(q), NEW p \in File, Tracked(p)
    PROVE  Tracked(p)'
  <1>1. /\ UNCHANGED <<disk, row, raw, events>> /\ job'["loop"] = job["loop"]
        /\ job["scan"] = NoJob /\ job'["scan"] = JobAt("stat", q)
    BY DEF ScanNext, UNCHANGED_ByWorker, userVars, TypeOK, Worker
  <1>2. ~Processing("scan", p) /\ ~Processing("scan", p)'
    BY <1>1 DEF Processing, Busy, JobAt
  <1> QED
    BY <1>1, <1>2, TrackedFrame

\* A step within processFile by which worker w comes to have k for the same
\* file, with the file's stat if it had that before or takes it now.
LEMMA TrackedGathers ==
    ASSUME TypeOK, NEW w \in Worker, NEW k \in Job, job' = [job EXCEPT ![w] = k],
           UNCHANGED <<disk, row, raw, events>>, job[w] # NoJob, k.path = job[w].path,
           k.pc \notin {"look", "delete", "compare", "stat"}, job[w].pc # "delete",
           NEW p \in File, k.path = p => disk[p] # NoFile \/ job[w].pc \notin {"look", "compare", "stat"},
           k.path = p => k.stat = disk[p].stat \/
                         (k.stat = job[w].stat /\ job[w].pc \notin {"look", "compare", "stat"}),
           Tracked(p) \/ (w = "scan" /\ k.path = p /\ ~Pending(p) /\ disk[p] # NoFile
                              /\ k.stat = disk[p].stat)
    PROVE  Tracked(p)'
  <1>1. \A v \in Worker : job'[v] = IF v = w THEN k ELSE job[v]
    BY DEF TypeOK
  <1>2. CASE k.path # p
    <2>1. \A v \in Worker : job'[v] = job[v] \/ (~Busy(v, p) /\ ~Busy(v, p)')
      BY <1>1, <1>2 DEF Busy
    <2> QED
      BY <1>2, <2>1, TrackedFrame DEF Worker, Processing
  <1>3. CASE k.path = p /\ w = "loop"
    <2>1. Busy("loop", p) /\ Busy("loop", p)' /\ Pending(p)'
      BY <1>1, <1>3, NullAssumption DEF Busy, Pending
    <2>2. Tracked(p)
      BY <1>3
    <2>3. job'["loop"] = k
      BY <1>1, <1>3
    <2> QED
      BY <1>3, <2>1, <2>2, <2>3 DEF Tracked
  <1>4. CASE k.path = p /\ w = "scan"
    <2>1. job'["loop"] = job["loop"] /\ job'["scan"] = k
      BY <1>1, <1>4 DEF Worker
    <2>2. Busy("loop", p)' <=> Busy("loop", p)
      BY <2>1 DEF Busy
    <2>3. Pending(p)' <=> Pending(p)
      BY <2>2 DEF Pending
    <2>4. Processing("scan", p)'
      BY <1>4, <2>1, NullAssumption DEF Processing, Busy
    <2>5. CASE Pending(p)
      <3>1. Tracked(p)
        BY <2>5
      <3> QED
        BY <2>1, <2>2, <2>3, <2>5, <3>1 DEF Tracked
    <2>6. CASE ~Pending(p)
      <3>1. disk[p] # NoFile /\ k.stat = disk[p].stat
        <4>1. CASE Tracked(p) /\ Processing("scan", p)
          BY <1>4, <2>6, <4>1 DEF Tracked
        <4>2. CASE ~Processing("scan", p)
          BY <1>4, <4>2 DEF Processing, Busy
        <4> QED
          BY <4>1, <4>2
      <3>2. Tells(raw, p, disk[p] = NoFile) /\ Tells(events, p, disk[p] = NoFile)
        BY <2>6, TellsNothing DEF Pending, TypeOK
      <3> QED
        BY <2>1, <2>2, <2>3, <2>4, <2>6, <3>1, <3>2 DEF Tracked, Pending
    <2> QED
      BY <2>5, <2>6
  <1> QED
    BY <1>2, <1>3, <1>4 DEF Worker

LEMMA TrackedProcess ==
    ASSUME TypeOK, StatsSpeak, status # "closed", NEW w \in Worker, ProcessFile(w),
           NEW p \in File, p \notin crossed', p \notin untracked',
           p \notin untracked => Tracked(p)
    PROVE  Tracked(p)'
  <1> DEFINE j == job[w]
             f == disk[job[w].path]
  <1> USE DEF UNCHANGED_ByWorker, userVars, At, Gone
  <1>0. j \in Job /\ Gathered(j) /\ j.path \in File /\ JobSpeaks(j, f) /\ j # NoJob
    BY DEF TypeOK, Job, StatsSpeak, ProcessFile, StatFile, ChunkFile, HashFile, FileGone, Unreadable,
           ReadVersion, StoreRow
  <1>1. f # NoFile => f.stat \in Stat /\ f.data \in Content
    BY <1>0 DEF TypeOK, OnDisk
  <1>2. UNCHANGED <<disk, raw, events, status>> /\ (~StatFile(w) /\ ~Unreadable(w) => untracked' = untracked)
    BY DEF ProcessFile, StatFile, ChunkFile, HashFile, FileGone, Unreadable, ReadVersion, StoreRow
  <1>3. CASE StatFile(w)
    <2> DEFINE k == [j EXCEPT !.stat = f.stat, !.pc = "chunk"]
    <2>1. /\ k \in Job /\ job' = [job EXCEPT ![w] = k]
          /\ k.path = j.path /\ k.stat = f.stat /\ k.pc = "chunk"
      BY <1>0, <1>1, <1>3 DEF StatFile, Job
    <2>2. j.pc = "stat" /\ f # NoFile /\ UNCHANGED row
      BY <1>3 DEF StatFile
    <2>3. \/ Tracked(p)
          \/ p = j.path /\ ~Pending(p)
      BY <1>3 DEF StatFile
    <2>4. p = j.path /\ ~Pending(p) => w = "scan"
      BY <1>0 DEF Pending, Busy, Worker
    <2> HIDE DEF k
    <2> QED
      BY <1>0, <1>2, <2>1, <2>2, <2>3, <2>4, TrackedGathers
  <1>4. CASE ChunkFile(w)
    <2> DEFINE k == [j EXCEPT !.chunks = f.data, !.pc = "hash"]
    <2>1. /\ k \in Job /\ job' = [job EXCEPT ![w] = k]
          /\ k.path = j.path /\ k.stat = j.stat /\ k.pc = "hash"
      BY <1>0, <1>1, <1>4 DEF ChunkFile, Job
    <2>2. j.pc = "chunk" /\ UNCHANGED row /\ Tracked(p)
      BY <1>2, <1>4 DEF ChunkFile
    <2> HIDE DEF k
    <2> QED
      BY <1>0, <1>2, <2>1, <2>2, TrackedGathers
  <1>5. CASE HashFile(w)
    <2> DEFINE k == [j EXCEPT !.hash = f.data, !.pc = "version"]
    <2>1. /\ k \in Job /\ job' = [job EXCEPT ![w] = k]
          /\ k.path = j.path /\ k.stat = j.stat /\ k.pc = "version"
      BY <1>0, <1>1, <1>5 DEF HashFile, Job
    <2>2. j.pc = "hash" /\ UNCHANGED row /\ Tracked(p)
      BY <1>2, <1>5 DEF HashFile
    <2> HIDE DEF k
    <2> QED
      BY <1>0, <1>2, <2>1, <2>2, TrackedGathers
  <1>6. CASE FileGone(w)
    <2>1. f = NoFile /\ j.pc \in {"stat", "chunk", "hash"} /\ UNCHANGED row /\ Tracked(p)
      BY <1>2, <1>6 DEF FileGone
    <2>2. \A v \in Worker : job'[v] = IF v = w THEN NoJob ELSE job[v]
      BY <1>6 DEF FileGone, Rest, TypeOK
    <2>3. CASE j.path # p
      <3>1. \A v \in Worker : job'[v] = job[v] \/ (~Busy(v, p) /\ ~Busy(v, p)')
        BY <2>2, <2>3 DEF Busy
      <3> QED
        BY <1>2, <2>1, <3>1, TrackedFrame DEF Worker, Processing
    <2>4. CASE j.path = p /\ (In(raw, p) \/ In(events, p))
      BY <1>2, <2>1, <2>4, TrackedQueued
    <2>5. CASE j.path = p /\ ~In(raw, p) /\ ~In(events, p)
      <3>1. w = "scan"
        BY <1>0, <2>1, <2>5 DEF Tracked, Busy, Worker
      <3>2. job'["loop"] = job["loop"] /\ job'["scan"] = NoJob
        BY <2>2, <3>1 DEF Worker
      <3>3. Busy("loop", p)' <=> Busy("loop", p)
        BY <3>2 DEF Busy
      <3>4. CASE Busy("loop", p)
        BY <1>2, <2>1, <2>5, <3>2, <3>3, <3>4 DEF Tracked, Pending
      <3>5. CASE ~Busy("loop", p)
        <4>1. ~Processing("scan", p) /\ ~Processing("scan", p)'
          BY <2>1, <2>5, <3>2, <3>5 DEF Tracked, Pending, Processing, Busy
        <4> QED
          BY <1>2, <2>1, <3>2, <4>1, TrackedFrame
      <3> QED
        BY <3>4, <3>5
    <2> QED
      BY <2>3, <2>4, <2>5
  <1>9. CASE Unreadable(w)
    <2>1. /\ p \notin untracked /\ (p # j.path \/ In(raw, p) \/ In(events, p))
          /\ UNCHANGED row /\ Tracked(p)
      BY <1>9 DEF Unreadable
    <2>2. \A v \in Worker : job'[v] = IF v = w THEN NoJob ELSE job[v]
      BY <1>9 DEF Unreadable, Rest, TypeOK
    <2>3. CASE j.path # p
      <3>1. \A v \in Worker : job'[v] = job[v] \/ (~Busy(v, p) /\ ~Busy(v, p)')
        BY <2>2, <2>3 DEF Busy
      <3> QED
        BY <1>2, <2>1, <3>1, TrackedFrame DEF Worker, Processing
    <2>4. CASE In(raw, p) \/ In(events, p)
      BY <1>2, <2>1, <2>4, TrackedQueued
    <2> QED
      BY <2>1, <2>3, <2>4
  <1>7. CASE ReadVersion(w)
    <2>1. PICK k \in Job :
             /\ job' = [job EXCEPT ![w] = k]
             /\ k.path = j.path /\ k.stat = j.stat /\ k.pc = "store"
      BY <1>7, VersionRead
    <2>2. j.pc = "version" /\ UNCHANGED row /\ Tracked(p)
      BY <1>2, <1>7 DEF ReadVersion
    <2> QED
      BY <1>0, <1>2, <2>1, <2>2, TrackedGathers
  <1>8. CASE StoreRow(w)
    <2>1. j.pc = "store" /\ Writes(w) /\ Tracked(p)
      BY <1>2, <1>8, StoreWrites DEF StoreRow
    <2>2. CASE j.path # p
      <3>1. \A v \in Worker : job'[v] = job[v] \/ (~Busy(v, p) /\ ~Busy(v, p)')
        BY <2>1, <2>2 DEF Writes, Busy
      <3> QED
        BY <1>2, <2>1, <2>2, <3>1, TrackedFrame DEF Worker, Processing, Writes
    <2>3. CASE j.path = p /\ (In(raw, p) \/ In(events, p))
      BY <1>2, <2>1, <2>3, TrackedQueued
    <2>4. CASE j.path = p /\ ~In(raw, p) /\ ~In(events, p)
      <3>1. row'[p] = [stat |-> j.stat, chunks |-> j.chunks, hash |-> j.hash,
                       version |-> j.version]
        BY <1>8, <2>4 DEF StoreRow, TypeOK
      <3>2. disk[p] # NoFile /\ j.stat = disk[p].stat => Describes(row'[p], disk[p])
        <4>1. row'[p] \in Metadata \cup {NoFile} /\ row'[p] # NoFile
          <5>1. row'[p] \in Metadata
            BY <1>0, <2>1, <3>1 DEF Metadata, Job, Gathered
          <5> QED
            BY <5>1, NullAssumption
        <4> QED
          BY <1>0, <2>1, <2>4, <3>1, <4>1 DEF JobSpeaks, Describes
      <3>3. CASE w = "loop"
        <4>1. Busy("loop", p) /\ disk[p] # NoFile /\ j.stat = disk[p].stat
          BY <1>0, <2>1, <2>4, <3>3 DEF Tracked, Busy
        <4>2. ~Processing("scan", p) /\ job'["scan"] = job["scan"] /\ job'["loop"] = NoJob
          BY <2>1, <2>4, <3>3 DEF Writes, Worker
        <4> QED
          <5>1. ~Processing("scan", p)' /\ ~Pending(p)' /\ ~Busy("loop", p)'
            BY <1>2, <2>4, <4>2 DEF Pending, Processing, Busy
          <5>2. Describes(row'[p], disk'[p])
            BY <1>2, <3>2, <4>1
          <5>3. Tells(raw', p, disk'[p] = NoFile) /\ Tells(events', p, disk'[p] = NoFile)
            BY <1>2, <2>4, TellsNothing DEF TypeOK
          <5> QED
            BY <5>1, <5>2, <5>3 DEF Tracked
      <3>4. CASE w = "scan"
        <4>1. job'["loop"] = job["loop"] /\ job'["scan"] = NoJob
          BY <2>1, <3>4 DEF Writes, Worker
        <4>2. CASE Busy("loop", p)
          BY <1>2, <2>1, <2>4, <4>1, <4>2 DEF Tracked, Pending, Busy
        <4>3. CASE ~Busy("loop", p)
          <5>1. Processing("scan", p) /\ ~Pending(p)
            BY <1>0, <2>1, <2>4, <3>4, <4>3 DEF Processing, Busy, Pending
          <5>2. disk[p] # NoFile /\ j.stat = disk[p].stat
            BY <2>1, <3>4, <5>1 DEF Tracked
          <5> QED
            BY <1>2, <2>1, <2>4, <3>2, <4>1, <4>3, <5>2 DEF Tracked, Pending, Processing, Busy
        <4> QED
          BY <4>2, <4>3
      <3> QED
        BY <3>3, <3>4 DEF Worker
    <2> QED
      BY <2>2, <2>3, <2>4
  <1> QED
    BY <1>3, <1>4, <1>5, <1>6, <1>7, <1>8, <1>9 DEF ProcessFile

-----------------------------------------------------------------------------
(* The invariant.                                                          *)

LEMMA EngineInit == Init => EngineInv
  <1> SUFFICES ASSUME Init PROVE EngineInv
    OBVIOUS
  <1>1. StatsSpeak
    BY EngineAssumption, NullAssumption DEF Init, StatsSpeak
  <1> QED
    BY <1>1 DEF Init, EngineInv, ScanIsLater, VersionsFollow, Processing, Busy, Worker

LEMMA TrackedProgram ==
    ASSUME TypeOK, Start \/ Kill \/ Close, status' # "closed",
           NEW p \in File, p \notin untracked',
           status # "closed" /\ p \notin untracked \cup crossed => Tracked(p), p \notin crossed'
    PROVE  Tracked(p)'
  <1>1. CASE Start
    BY <1>1, TrackedFrame DEF Start, userVars, history
  <1>2. CASE Kill
    <2>1. /\ raw' = <<>> /\ events' = <<>> /\ job' = [w \in Worker |-> NoJob]
          /\ UNCHANGED <<disk, row>> /\ Describes(row[p], disk[p])
      BY <1>2 DEF Kill, userVars
    <2>2. ~In(raw, p)' /\ ~In(events, p)' /\ <<>> \in Seq(Event)
      BY <2>1 DEF In, Range
    <2>3. ~Pending(p)' /\ ~Busy("loop", p)' /\ ~Processing("scan", p)'
      BY <2>1, <2>2 DEF Pending, Busy, Processing, Worker
    <2>4. Tells(raw', p, disk'[p] = NoFile) /\ Tells(events', p, disk'[p] = NoFile)
      BY <2>1 DEF Tells
    <2> QED
      BY <2>1, <2>2, <2>3, <2>4 DEF Tracked, Describes
  <1>3. CASE Close
    BY <1>3 DEF Close
  <1> QED
    BY <1>1, <1>2, <1>3

LEMMA EngineStep == TypeOK /\ EngineInv /\ [Next]_vars => EngineInv'
  <1> SUFFICES ASSUME TypeOK, EngineInv, [Next]_vars PROVE EngineInv'
    OBVIOUS
  <1> USE DEF EngineInv
  <1>1. CASE UNCHANGED vars
    BY <1>1 DEF vars, StatsSpeak, RowSpeaks, JobSpeaks, ScanIsLater, VersionsFollow, Processing,
                Busy, Tracked, Tells, In, Pending
  <1>2. CASE User
    <2>1. ASSUME NEW p \in File \ (untracked' \cup crossed'), status' # "closed" PROVE Tracked(p)'
      <3>1. PICK q \in File : RemoveFile(q) \/ MoveFileAway(q) \/ \E c \in Content : WriteFile(q, c)
        BY <1>2 DEF User
      <3>2. \E op \in {"create", "write", "remove", "rename"}, file \in OnDisk \cup {NoFile} :
               Change(q, op, file) /\ (op = "remove" <=> (file = NoFile /\ op # "rename"))
        <4>1. CASE RemoveFile(q) \/ MoveFileAway(q)
          BY <4>1 DEF RemoveFile, MoveFileAway
        <4>2. ASSUME NEW c \in Content, WriteFile(q, c)
              PROVE  \E op \in {"create", "write"}, file \in OnDisk : Change(q, op, file)
          <5>1. [stat |-> changes + 1, data |-> c] \in OnDisk
            BY <4>2, EngineAssumption DEF WriteFile, Change, OnDisk, Stat, TypeOK
          <5> QED
            BY <4>2, <5>1 DEF WriteFile
        <4>3. ASSUME NEW op \in {"create", "write"}, NEW file \in OnDisk
              PROVE  op = "remove" <=> (file = NoFile /\ op # "rename")
          BY NullAssumption
        <4> QED
          BY <3>1, <4>1, <4>2, <4>3
      <3>3. UNCHANGED <<crossed, status>>
        BY <3>2 DEF Change
      <3> QED
        BY <2>1, <3>2, <3>3, TrackedChange
    <2> QED
      BY <1>2, <2>1, SpeaksUser, CrossOthers
  <1>3. CASE Start \/ Kill \/ Close
    <2>1. ASSUME NEW p \in File \ (untracked' \cup crossed'), status' # "closed" PROVE Tracked(p)'
      BY <1>3, <2>1, TrackedProgram
    <2> QED
      BY <1>3, <2>1, SpeaksOther, CrossOthers
  <1>4. CASE Forward
    <2>1. ASSUME NEW p \in File \ (untracked' \cup crossed'), status' # "closed" PROVE Tracked(p)'
      <3>1. p \notin untracked \cup crossed /\ status # "closed"
        BY <1>4, <2>1 DEF Forward
      <3> QED
        BY <1>4, <2>1, <3>1, TrackedForward
    <2> QED
      BY <1>4, <2>1, SpeaksOther, CrossOthers
  <1>5. CASE TakeEvent \/ Look \/ Compare \/ \E p \in File : ScanNext(p)
    <2>1. UNCHANGED <<untracked, crossed, status>>
      BY <1>5 DEF TakeEvent, Look, Compare, ScanNext, UNCHANGED_ByWorker
    <2>2. ASSUME NEW p \in File \ (untracked' \cup crossed'), status' # "closed" PROVE Tracked(p)'
      <3>1. Tracked(p) /\ status # "closed" /\ p \notin crossed'
        BY <2>1, <2>2
      <3> QED
        BY <1>5, <3>1, TrackedTake, TrackedLoop, TrackedScanNext
    <2> QED
      BY <1>5, <2>2, SpeaksOther, CrossLoop
  <1>6. CASE DeleteRow
    <2>1. Writes("loop") /\ untracked' = untracked
      BY <1>6, DeleteWrites DEF DeleteRow, UNCHANGED_ByWorker
    <2>2. ASSUME NEW p \in File \ (untracked' \cup crossed'), status' # "closed" PROVE Tracked(p)'
      <3>1. Tracked(p) /\ status # "closed" /\ p \notin crossed'
        BY <2>1, <2>2 DEF Writes
      <3> QED
        BY <1>6, <3>1, TrackedLoop
    <2> QED
      BY <1>6, <2>1, <2>2, SpeaksDelete, LaterWrites, FollowWrites
  <1>7. ASSUME NEW w \in Worker, ProcessFile(w) PROVE EngineInv'
    <2>1. crossed \subseteq crossed' /\ status' = status
      BY <1>7 DEF ProcessFile, StatFile, ChunkFile, HashFile, FileGone, Unreadable, ReadVersion, StoreRow,
                  Cross, UNCHANGED_ByWorker
    <2>2. ASSUME NEW p \in File \ (untracked' \cup crossed'), status' # "closed" PROVE Tracked(p)'
      BY <1>7, <2>1, <2>2, TrackedProcess
    <2> QED
      BY <1>7, <2>2, SpeaksProcess, CrossProcess
  <1> QED
    BY <1>1, <1>2, <1>3, <1>4, <1>5, <1>6, <1>7 DEF Next, Loop, Scan, Worker

\* Between a change and its row every stage passes on what is true: the
\* invariant from which the other two results follow (watcher.go:105-161,
\* engine.go:72-187).
THEOREM EngineCorrect == Spec => []EngineInv
  <1>1. TypeOK /\ EngineInv /\ [Next]_vars => EngineInv'
    BY EngineStep
  <1> QED
    BY EngineInit, <1>1, EngineTypeCorrect, PTL DEF Spec

\* The row of a file that nothing is on its way about describes it, however
\* the scan, the loop and the user's changes interleave, unless the scan and
\* the loop crossed on it or its last change raised no event
\* (engine.go:72-187, 205-237).
THEOREM MetadataCorrect == Spec => []MetadataAgrees
  <1>1. EngineInv => MetadataAgrees
    <2> SUFFICES ASSUME EngineInv, status = "up", NEW p \in File \ (untracked \cup crossed), AtRest(p)
                 PROVE  Describes(row[p], disk[p])
      BY DEF MetadataAgrees
    <2>1. Tracked(p) /\ ~Pending(p) /\ ~Processing("scan", p)
      BY DEF EngineInv, AtRest, Processing
    <2> QED
      BY <2>1 DEF Tracked
  <1> QED
    BY EngineCorrect, <1>1, PTL

\* A step that changes a row counts a version if and only if the content it
\* knows the file by is another one, and never counts back: nobody has stored
\* another row since the version was read (engine.go:131-187).
THEOREM VersionsCorrect == Spec => VersionsCount
  <1> DEFINE Counts == \A p \in File \ crossed' : CountsUp(p)
  <1>1. TypeOK /\ EngineInv /\ [Next]_vars => [Counts]_vars
    <2> SUFFICES ASSUME TypeOK, EngineInv, Next,
                        NEW p \in File \ crossed', row[p] # NoFile, row'[p] # NoFile
                 PROVE  /\ row'[p].version >= row[p].version
                        /\ row'[p].version = row[p].version <=> row'[p].hash = row[p].hash
      BY DEF CountsUp
    <2>1. row[p].version \in Nat
      BY DEF TypeOK, Metadata
    <2>2. row'[p] = row[p] \/ \E w \in Worker : StoreRow(w)
      BY DEF TypeOK, Next, User, RemoveFile, MoveFileAway, WriteFile, Change, Start, Kill, Close,
             Forward, Loop, TakeEvent, DeleteRow, Look, Compare, Scan, ScanNext, ProcessFile,
             StatFile, ChunkFile, HashFile, FileGone, Unreadable, ReadVersion, userVars, UNCHANGED_ByWorker,
             Worker
    <2>3. ASSUME NEW w \in Worker, StoreRow(w), row'[p] # row[p]
          PROVE  /\ row'[p].version >= row[p].version
                 /\ row'[p].version = row[p].version <=> row'[p].hash = row[p].hash
      <3> DEFINE j == job[w]
      <3>1. /\ j # NoJob /\ j.path = p /\ j.pc = "store" /\ status # "closed"
            /\ row'[p] = [stat |-> j.stat, chunks |-> j.chunks, hash |-> j.hash,
                          version |-> j.version]
        BY <2>3 DEF StoreRow, At, TypeOK
      <3>2. p \notin crossed
        BY <2>3, StoreWrites DEF Writes
      <3>3. j.version = NextVersion(row[p], j.hash)
        BY <3>1, <3>2 DEF EngineInv, VersionsFollow, Busy
      <3>4. row'[p].version = j.version /\ row'[p].hash = j.hash
        BY <3>1
      <3> QED
        BY <2>1, <3>3, <3>4 DEF NextVersion
    <2> QED
      BY <2>1, <2>2, <2>3
  <1> QED
    BY <1>1, EngineTypeCorrect, EngineCorrect, PTL DEF Spec, VersionsCount

-----------------------------------------------------------------------------
(* The engine implements FileIndex: a step of the user is a Change, every  *)
(* other one Work.                                                         *)

LEMMA SaidDescribes ==
    ASSUME NEW file \in OnDisk \cup {NoFile}, NEW r, Describes(r, file)
    PROVE  SaidOf(r) = Index!RowOf(file)
  <1>1. CASE file = NoFile
    BY <1>1 DEF Describes, SaidOf, Index!RowOf
  <1>2. CASE file # NoFile
    <2>1. file = [stat |-> file.stat, data |-> file.data]
      BY <1>2 DEF OnDisk
    <2> QED
      BY <1>2, <2>1 DEF Describes, SaidOf, Index!RowOf
  <1> QED
    BY <1>1, <1>2

\* What changed is unread or untracked, and no other file comes to rest by it.
LEMMA ChangeUnsettles ==
    ASSUME TypeOK, NEW p \in File, NEW op \in {"create", "write", "remove", "rename"}, NEW file,
           Change(p, op, file)
    PROVE  Settled' \subseteq {x \in Settled : disk'[x] = disk[x]}
  <1>1. /\ UNCHANGED <<row, status, events, job, crossed>>
        /\ raw \in Seq(Event) /\ [path |-> p, op |-> op] \in Event
    BY DEF Change, TypeOK, Event
  <1>2. p \notin Settled'
    <2>1. CASE Seen(op)
      <3>1. raw' = Append(raw, [path |-> p, op |-> op])
        BY <2>1 DEF Change, Raise, Seen
      <3>2. In(raw', p)
        <4>1. op # "rename"
          BY <2>1 DEF Seen
        <4>2. PICK e \in Event : e = [path |-> p, op |-> op]
          BY <1>1
        <4>3. In(Append(raw, e), e.path)
          BY <1>1, <4>1, <4>2, AppendOwn
        <4> QED
          BY <3>1, <4>2, <4>3
      <3> QED
        BY <3>2 DEF Settled, AtRest, Pending
    <2>2. CASE ~Seen(op)
      BY <2>2 DEF Change, Settled
    <2> QED
      BY <2>1, <2>2
  <1>3. ASSUME NEW x \in Settled' PROVE x \in Settled /\ disk'[x] = disk[x]
    <2>1. x \in File /\ x # p /\ status = "up"
      BY <1>1, <1>2, <1>3 DEF Settled
    <2>2. disk'[x] = disk[x] /\ x \notin untracked
      BY <1>3, <2>1 DEF Change, Settled, TypeOK
    <2>3. In(raw, x) => In(raw', x)
      BY <1>1, <2>1, AppendOther DEF Change, Raise
    <2> QED
      BY <1>1, <1>3, <2>1, <2>2, <2>3 DEF Settled, AtRest, Pending, Busy
  <1> QED
    BY <1>3

LEMMA ChangeByUser == TypeOK /\ TypeOK' /\ User => Index!Change
  <1> SUFFICES ASSUME TypeOK, TypeOK', User PROVE Index!Change
    OBVIOUS
  <1>1. PICK p \in File, op \in {"create", "write", "remove", "rename"} :
           \E file : Change(p, op, file)
    BY DEF User, RemoveFile, MoveFileAway, WriteFile
  <1>2. Settled' \subseteq {x \in Settled : disk'[x] = disk[x]}
    BY <1>1, ChangeUnsettles
  <1>3. row' = row
    BY <1>1 DEF Change
  <1>4. disk' \in [File -> Index!State]
    BY DEF TypeOK, Index!State
  <1> QED
    BY <1>2, <1>3, <1>4 DEF Index!Change

\* A worker has in hand the file whose row it writes.
LEMMA SettledUntouched ==
    ASSUME TypeOK, Start \/ Kill \/ Close \/ Forward \/ Loop \/ Scan
    PROVE  disk' = disk /\ \A p \in Settled : row'[p] = row[p]
  <1>1. disk' = disk
    BY DEF Start, Kill, Close, Forward, Loop, TakeEvent, DeleteRow, Look, Compare, Scan, ScanNext,
           ProcessFile, StatFile, ChunkFile, HashFile, FileGone, Unreadable, ReadVersion, StoreRow,
           userVars, UNCHANGED_ByWorker
  <1>2. row' = row \/ DeleteRow \/ \E w \in Worker : StoreRow(w)
    BY DEF Start, Kill, Close, Forward, Loop, TakeEvent, Look, Compare, Scan, ScanNext,
           ProcessFile, StatFile, ChunkFile, HashFile, FileGone, Unreadable, ReadVersion, Worker
  <1>3. ASSUME NEW w \in Worker, Writes(w), NEW p \in Settled PROVE row'[p] = row[p]
    <2>1. p \in File /\ p # job[w].path
      BY <1>3 DEF Settled, AtRest, Pending, Writes, Busy, Worker
    <2> QED
      BY <1>3, <2>1 DEF Writes
  <1> QED
    BY <1>1, <1>2, <1>3, DeleteWrites, StoreWrites DEF Worker

LEMMA WorkByProgram ==
    ASSUME TypeOK, TypeOK', MetadataAgrees', Start \/ Kill \/ Close \/ Forward \/ Loop \/ Scan
    PROVE  Index!Work
  <1> DEFINE said == [p \in File |-> SaidOf(row[p])]
  <1>1. Settled \subseteq File /\ Settled' \subseteq File
    BY DEF Settled
  <1>2. disk' = disk /\ \A p \in Settled : said'[p] = said[p]
    BY <1>1, SettledUntouched
  <1>3. ASSUME NEW p \in Settled' PROVE said'[p] = Index!RowOf(disk[p])
    <2>1. p \in File /\ Describes(row'[p], disk'[p])
      BY <1>1, <1>3 DEF Settled, MetadataAgrees
    <2>2. disk[p] \in OnDisk \cup {NoFile}
      BY <2>1 DEF TypeOK
    <2>3. SaidOf(row'[p]) = Index!RowOf(disk[p])
      BY <1>2, <2>1, <2>2, SaidDescribes
    <2> QED
      BY <2>1, <2>3
  <1> QED
    BY <1>1, <1>2, <1>3 DEF Index!Work

\* The two workers, the dropping channel and the restarts implement the index
\* that FileIndex describes: the row of a settled file is never touched, and a
\* file is settled again only with the row that describes it.
THEOREM RowsFollowCorrect == Spec => RowsFollow
  <1>1. Init => Index!Init
    <2> SUFFICES ASSUME Init PROVE Index!Init
      OBVIOUS
    <2>1. disk \in [File -> Index!State]
      BY TypeInit DEF TypeOK, Index!State
    <2>2. [p \in File |-> SaidOf(row[p])] = [p \in File |-> Index!RowOf(NoFile)]
      BY DEF Init, SaidOf, Index!RowOf
    <2>3. Settled = {}
      BY DEF Init, Settled
    <2> QED
      BY <2>1, <2>2, <2>3 DEF Index!Init
  <1>2. TypeOK /\ TypeOK' /\ MetadataAgrees' /\ [Next]_vars => [Index!Next]_(Index!vars)
    <2>1. ASSUME UNCHANGED vars PROVE UNCHANGED Index!vars
      BY <2>1 DEF vars, Index!vars, Settled, AtRest, Pending, Busy
    <2> QED
      BY <2>1, ChangeByUser, WorkByProgram DEF Next, Index!Next
  <1> QED
    BY <1>1, <1>2, EngineTypeCorrect, MetadataCorrect, PTL DEF Spec, RowsFollow, Index!Spec
=============================================================================
