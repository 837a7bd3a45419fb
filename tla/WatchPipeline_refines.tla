------------------------ MODULE WatchPipeline_refines ------------------------
(***************************************************************************)
(* WatchPipeline implements FileIndex, for every value of the constants:   *)
(* every step of the user is a Change, and every step of the goroutines,   *)
(* of the scan and of the process's life is Work, or no step at all.  Only *)
(* InitialScan and syncLoop write rows, each of the file it holds, which   *)
(* is therefore not settled; PipelineInv says what the row of a file that  *)
(* comes to rest is.                                                       *)
(***************************************************************************)
EXTENDS WatchPipeline_proofs

\* What appending an event for path does to the other files of the queue.
LEMMA EnqueueKeeps ==
    ASSUME NEW q \in Seq(RawEvent), NEW path \in File \cup Dir, NEW dir,
           NEW op \in {"create", "write", "remove", "rename"}, NEW x, In(q, x)
    PROVE  In(Enqueue(q, path, dir, op), x)
  <1>1. CASE x = path
    <2>1. CASE Raised(dir, q)
      BY <1>1, <2>1, EnqueueThis
    <2>2. CASE ~Raised(dir, q)
      BY <2>2 DEF Enqueue
    <2> QED
      BY <2>1, <2>2
  <1>2. CASE x # path
    BY <1>2, EnqueueOther
  <1> QED
    BY <1>1, <1>2

\* The row of a file that is settled describes the file.
LEMMA SettledRow ==
    ASSUME PipelineInv
    PROVE  \A p \in Settled : db[p] = RowOf(disk[p])
  BY DEF Settled, PipelineInv, FileTrue, RowTrue

\* A step that keeps a file's unread kernel events and touches neither the
\* goroutines nor the history cannot settle it.
LEMMA NotSettledBy ==
    ASSUME NEW x \in File, UNCHANGED_Program, In(raw, x) => In(raw', x),
           x \in untracked => x \in untracked' \/ In(raw', x), x \in Settled'
    PROVE  x \in Settled
  BY DEF Settled, UNCHANGED_Program, watchVars, syncVars, scanVars, Active, Pending,
         InRaw, InWatch, InEvents, InSync, InScan

-----------------------------------------------------------------------------
(* Steps of the user.                                                      *)

LEMMA ChangeByFile ==
    ASSUME TypeOK, NEW p \in File, NEW c \in State,
           NEW op \in {"create", "write", "remove", "rename"},
           disk' = [disk EXCEPT ![p] = c],
           raw' = Enqueue(raw, p, DirOf[p], op),
           untracked' = Track(p, ActedOn(p, raw)),
           UNCHANGED_Program
    PROVE  Index!Change
  <1>0. raw \in Seq(RawEvent) /\ disk \in [File -> State]
    BY DEF TypeOK
  <1>1. p \notin Settled'
    <2>1. CASE ActedOn(p, raw)
      <3>1. In(raw', p)
        BY <1>0, <2>1, EnqueueThis DEF ActedOn
      <3> QED
        BY <3>1 DEF Settled, Pending, InRaw
    <2>2. CASE ~ActedOn(p, raw)
      BY <2>2 DEF Settled, Track
    <2> QED
      BY <2>1, <2>2
  <1>2. ASSUME NEW x \in Settled' PROVE x \in Settled /\ disk'[x] = disk[x]
    <2>1. x \in File /\ x # p
      BY <1>1, <1>2 DEF Settled
    <2>2. In(raw, x) => In(raw', x)
      BY <1>0, <2>1, EnqueueKeeps
    <2>3. x \in untracked => x \in untracked'
      BY <2>1 DEF Track
    <2> QED
      BY <1>0, <1>2, <2>1, <2>2, <2>3, NotSettledBy
  <1>3. disk' \in [File -> Index!State]
    BY <1>0 DEF State, Index!State
  <1> QED
    BY <1>2, <1>3 DEF Index!Change, UNCHANGED_Program

LEMMA ChangeByRename ==
    ASSUME TypeOK, NEW p \in File, NEW q \in File, RenameFile(p, q)
    PROVE  Index!Change
  <1> DEFINE raw1 == Enqueue(raw, p, DirOf[p], "rename")
  <1>0. /\ raw \in Seq(RawEvent) /\ disk \in [File -> State] /\ p # q
        /\ disk' = [disk EXCEPT ![q] = disk[p], ![p] = Absent]
        /\ raw' = Enqueue(raw1, q, DirOf[q], "create")
        /\ untracked' = {p} \cup Track(q, ActedOn(q, raw1))
        /\ UNCHANGED_Program
    BY DEF TypeOK, RenameFile
  <1>1. raw1 \in Seq(RawEvent)
    BY EnqueueType DEF TypeOK
  <1>2. \A x : In(raw, x) => In(raw1, x)
    BY <1>0, EnqueueKeeps
  <1> HIDE DEF raw1
  <1>3. \A x : In(raw, x) => In(raw', x)
    BY <1>0, <1>1, <1>2, EnqueueKeeps
  <1>4. p \notin Settled'
    BY <1>0 DEF Settled
  <1>5. q \notin Settled'
    <2>1. CASE ActedOn(q, raw1)
      <3>1. In(raw', q)
        BY <1>0, <1>1, <2>1, EnqueueThis DEF ActedOn
      <3> QED
        BY <3>1 DEF Settled, Pending, InRaw
    <2>2. CASE ~ActedOn(q, raw1)
      BY <1>0, <2>2 DEF Settled, Track
    <2> QED
      BY <2>1, <2>2
  <1>6. ASSUME NEW x \in Settled' PROVE x \in Settled /\ disk'[x] = disk[x]
    <2>1. x \in File /\ x # p /\ x # q
      BY <1>4, <1>5, <1>6 DEF Settled
    <2>2. x \in untracked => x \in untracked'
      BY <1>0, <2>1 DEF Track
    <2> QED
      BY <1>0, <1>3, <1>6, <2>1, <2>2, NotSettledBy
  <1>7. disk' \in [File -> Index!State]
    BY <1>0 DEF State, Index!State
  <1> QED
    BY <1>0, <1>6, <1>7 DEF Index!Change, UNCHANGED_Program

LEMMA ChangeByUser == TypeOK /\ User => Index!Change
  <1> SUFFICES ASSUME TypeOK, User PROVE Index!Change
    OBVIOUS
  <1>1. ASSUME NEW p \in File, NEW c \in Content, WriteFile(p, c) PROVE Index!Change
    <2> DEFINE op == IF disk[p] = Absent THEN "create" ELSE "write"
    <2>1. c \in State /\ op \in {"create", "write", "remove", "rename"}
      BY DEF State
    <2>2. /\ disk' = [disk EXCEPT ![p] = c] /\ raw' = Enqueue(raw, p, DirOf[p], op)
          /\ untracked' = Track(p, ActedOn(p, raw)) /\ UNCHANGED_Program
      BY <1>1 DEF WriteFile
    <2> HIDE DEF op
    <2> QED
      BY <2>1, <2>2, ChangeByFile
  <1>2. ASSUME NEW p \in File, RemoveFile(p) PROVE Index!Change
    <2>1. /\ disk' = [disk EXCEPT ![p] = Absent] /\ raw' = Enqueue(raw, p, DirOf[p], "remove")
          /\ untracked' = Track(p, ActedOn(p, raw)) /\ UNCHANGED_Program
      BY <1>2 DEF RemoveFile
    <2>2. Absent \in State
      BY DEF State
    <2> QED
      BY <2>1, <2>2, ChangeByFile
  <1>3. ASSUME NEW d \in Dir, MakeDir(d) PROVE Index!Change
    <2>1. /\ raw' = Enqueue(raw, d, Root, "create") /\ raw \in Seq(RawEvent)
          /\ disk' = disk /\ disk \in [File -> State]
          /\ untracked' = untracked /\ UNCHANGED_Program
      BY <1>3 DEF MakeDir, TypeOK
    <2>2. \A x : In(raw, x) => In(raw', x)
      BY <2>1, EnqueueKeeps
    <2>3. \A x \in Settled' : x \in Settled
      BY <2>1, <2>2, NotSettledBy DEF Settled
    <2> QED
      BY <2>1, <2>3 DEF Index!Change, Index!State, State, UNCHANGED_Program
  <1> QED
    BY <1>1, <1>2, <1>3, ChangeByRename DEF User

-----------------------------------------------------------------------------
(* Steps of the program.                                                   *)

\* Only ScanStore and SyncStore write the index, each the row of one file.
LEMMA RowsWritten ==
    ASSUME TypeOK, Scan \/ WatchLoop \/ SyncLoop \/ Process
    PROVE  disk' = disk /\ \A p \in Settled : db'[p] = db[p]
  <1>1. CASE Scan
    <2>1. disk' = disk
      BY <1>1 DEF Scan, ScanDirectory, ScanStat, ScanHash, ScanStore, ScanFails, ScanDone,
                  UNCHANGED_ByScan, userVars
    <2>2. db' = db \/ ScanStore
      BY <1>1 DEF Scan, ScanDirectory, ScanStat, ScanHash, ScanFails, ScanDone
    <2>3. ASSUME ScanStore, NEW p \in Settled PROVE db'[p] = db[p]
      <3>1. p # scanEv.path /\ db \in [File -> Row] /\ p \in File
        BY <2>3 DEF ScanStore, Settled, InScan, TypeOK
      <3> QED
        BY <2>3, <3>1 DEF ScanStore
    <2> QED
      BY <2>1, <2>2, <2>3
  <1>2. CASE WatchLoop
    BY <1>2 DEF WatchLoop, WatchTake, WatchHash, WatchSend, WatchExit, UNCHANGED_ByWatch,
                userVars
  <1>3. CASE SyncLoop
    <2>1. disk' = disk
      BY <1>3 DEF SyncLoop, SyncReceive, SyncTimeout, SyncStore, SyncAnnounce,
                  UNCHANGED_BySync, userVars
    <2>2. db' = db \/ SyncStore
      BY <1>3 DEF SyncLoop, SyncReceive, SyncTimeout, SyncAnnounce
    <2>3. ASSUME SyncStore, NEW p \in Settled PROVE db'[p] = db[p]
      <3>1. p # syncEv.path /\ db \in [File -> Row] /\ p \in File
        BY <2>3 DEF SyncStore, Settled, Pending, InSync, TypeOK
      <3> QED
        BY <2>3, <3>1 DEF SyncStore
    <2> QED
      BY <2>1, <2>2, <2>3
  <1>4. CASE Process
    BY <1>4 DEF Process, NewInstance, Start, Stop, CloseDatabase, Kill, userVars
  <1> QED
    BY <1>1, <1>2, <1>3, <1>4

LEMMA WorkByProgram ==
    ASSUME TypeOK, PipelineInv', Scan \/ WatchLoop \/ SyncLoop \/ Process
    PROVE  Index!Work
  <1>1. disk' = disk /\ \A p \in Settled : db'[p] = db[p]
    BY RowsWritten
  <1>2. \A p \in Settled' : db'[p] = RowOf(disk'[p])
    BY DEF Settled, PipelineInv, FileTrue, RowTrue, RowOf
  <1>3. Settled' \subseteq File
    BY DEF Settled
  <1> QED
    BY <1>1, <1>2, <1>3 DEF Index!Work, Index!RowOf, RowOf

-----------------------------------------------------------------------------
\* The goroutines, queues, scans and restarts of a device implement the index
\* FileIndex describes: a settled file's row is never touched, and a file
\* comes to rest only with the row that describes it.
THEOREM IndexFollowsCorrect == Spec => IndexFollows
  <1>1. Init => Index!Init
    BY DEF Init, Index!Init, Settled, Active, State, Index!State, RowOf, Index!RowOf, NoRow
  <1>2. TypeOK /\ PipelineInv' /\ [Next]_vars => [Index!Next]_(Index!vars)
    <2>1. ASSUME UNCHANGED vars PROVE UNCHANGED Index!vars
      BY <2>1 DEF vars, Index!vars, Settled, Active, Pending, InRaw, InWatch, InEvents,
                  InSync, InScan
    <2> QED
      BY <2>1, ChangeByUser, WorkByProgram DEF Next, Index!Next
  <1> QED
    BY <1>1, <1>2, TypeCorrect, PipelineCorrect, PTL DEF Spec, IndexFollows, Index!Spec
=============================================================================
