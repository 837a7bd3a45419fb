------------------------ MODULE WatchPipeline_proofs ------------------------
(***************************************************************************)
(* Proofs about WatchPipeline, for every set of files, directories and     *)
(* contents, every capacity of the two queues, and every number of changes *)
(* and restarts.                                                           *)
(***************************************************************************)
EXTENDS WatchPipeline, TLAPS

-----------------------------------------------------------------------------
(* Queues: what appending and removing do to membership.                   *)

\* A queue of events stays one when an event is appended (Enqueue, WatchSend).
LEMMA AppendType ==
    ASSUME NEW S, NEW q \in Seq(S), NEW e \in S
    PROVE  Append(q, e) \in Seq(S) /\ Len(Append(q, e)) = Len(q) + 1
  OBVIOUS

\* A non-empty queue has an event at its head, and its tail is a shorter queue.
LEMMA HeadTailType ==
    ASSUME NEW S, NEW q \in Seq(S), q # <<>>
    PROVE  /\ Head(q) \in S /\ Tail(q) \in Seq(S)
           /\ Len(q) \in Nat /\ Len(q) > 0 /\ Len(Tail(q)) = Len(q) - 1
  OBVIOUS

\* Enqueue keeps the kernel's queue a queue of at most RawCap kernel events.
LEMMA EnqueueType ==
    ASSUME NEW q \in Seq(RawEvent), Len(q) <= RawCap, NEW path \in File \cup Dir,
           NEW dir, NEW op \in {"create", "write", "remove", "rename"}
    PROVE  /\ Enqueue(q, path, dir, op) \in Seq(RawEvent)
           /\ Len(Enqueue(q, path, dir, op)) <= RawCap
  <1> DEFINE e == [path |-> path, op |-> op]
  <1>1. e \in RawEvent
    BY DEF RawEvent
  <1>2. CASE Raised(dir, q)
    <2>1. Enqueue(q, path, dir, op) = Append(q, e)
      BY <1>2 DEF Enqueue
    <2>2. Len(q) \in Nat /\ Len(q) < RawCap
      BY <1>2 DEF Raised
    <2> QED
      BY <1>1, <2>1, <2>2, AppendType, CapAssumption
  <1>3. CASE ~Raised(dir, q)
    BY <1>3 DEF Enqueue
  <1> QED
    BY <1>2, <1>3

-----------------------------------------------------------------------------
(* Type correctness.                                                       *)

LEMMA TypeInit == Init => TypeOK
  <1> SUFFICES ASSUME Init PROVE TypeOK
    OBVIOUS
  <1>1. db \in [File -> Row] /\ NoRow \in Row
    BY DEF Init, Row, NoRow, RowOf, State
  <1>2. disk \in [File -> State] /\ dirs \subseteq Dir
    BY DEF Init
  <1>3. raw \in Seq(RawEvent) /\ Len(raw) <= RawCap /\ events \in Seq(Event) /\ Len(events) <= EventCap
    BY CapAssumption DEF Init
  <1>4. announced \in [File -> Message \cup {NoMessage}]
    BY DEF Init
  <1>5. changes \in 0 .. MaxChanges /\ starts \in 0 .. MaxStarts
    BY CapAssumption DEF Init
  <1> QED
    BY <1>1, <1>2, <1>3, <1>4, <1>5 DEF Init, TypeOK

LEMMA TypeUser == TypeOK /\ User => TypeOK'
  <1> SUFFICES ASSUME TypeOK, User PROVE TypeOK'
    OBVIOUS
  <1> USE DEF UserStep, UNCHANGED_Program, watchVars, syncVars, scanVars
  <1>0. changes < MaxChanges /\ changes' = changes + 1 => changes' \in 0 .. MaxChanges
    BY CapAssumption DEF TypeOK
  <1>d. \A p \in File : DirOf[p] \in Dir \cup {Root}
    BY PathAssumption
  <1>1. ASSUME NEW p \in File, NEW c \in Content, WriteFile(p, c) PROVE TypeOK'
    <2>1. raw' \in Seq(RawEvent) /\ Len(raw') <= RawCap
      BY <1>1, EnqueueType DEF WriteFile, TypeOK
    <2>2. disk' \in [File -> State]
      BY <1>1 DEF WriteFile, TypeOK, State
    <2>3. untracked' \subseteq File
      BY <1>1 DEF WriteFile, TypeOK, Track
    <2> QED
      BY <1>0, <1>1, <2>1, <2>2, <2>3 DEF WriteFile, TypeOK
  <1>2. ASSUME NEW p \in File, RemoveFile(p) PROVE TypeOK'
    <2>1. raw' \in Seq(RawEvent) /\ Len(raw') <= RawCap
      BY <1>2, EnqueueType DEF RemoveFile, TypeOK
    <2>2. disk' \in [File -> State]
      BY <1>2 DEF RemoveFile, TypeOK, State
    <2>3. untracked' \subseteq File
      BY <1>2 DEF RemoveFile, TypeOK, Track
    <2> QED
      BY <1>0, <1>2, <2>1, <2>2, <2>3 DEF RemoveFile, TypeOK
  <1>3. ASSUME NEW p \in File, NEW q \in File, RenameFile(p, q) PROVE TypeOK'
    <2> DEFINE raw1 == Enqueue(raw, p, DirOf[p], "rename")
    <2>0. raw1 \in Seq(RawEvent) /\ Len(raw1) <= RawCap
      BY EnqueueType DEF TypeOK
    <2>1. raw' \in Seq(RawEvent) /\ Len(raw') <= RawCap
      <3> raw' = Enqueue(raw1, q, DirOf[q], "create")
        BY <1>3 DEF RenameFile
      <3> HIDE DEF raw1
      <3> QED
        BY <2>0, EnqueueType
    <2>2. disk' \in [File -> State]
      BY <1>3 DEF RenameFile, TypeOK, State
    <2>3. untracked' \subseteq File
      BY <1>3 DEF RenameFile, TypeOK, Track
    <2> QED
      BY <1>0, <1>3, <2>1, <2>2, <2>3 DEF RenameFile, TypeOK
  <1>4. ASSUME NEW d \in Dir, MakeDir(d) PROVE TypeOK'
    <2>1. raw' \in Seq(RawEvent) /\ Len(raw') <= RawCap
      BY <1>4, EnqueueType DEF MakeDir, TypeOK
    <2> QED
      BY <1>0, <1>4, <2>1 DEF MakeDir, TypeOK
  <1> QED
    BY <1>1, <1>2, <1>3, <1>4 DEF User

LEMMA TypeProcess == TypeOK /\ Process => TypeOK'
  <1> SUFFICES ASSUME TypeOK, Process PROVE TypeOK'
    OBVIOUS
  <1> USE DEF userVars, watchVars, syncVars, scanVars, bounds
  <1>0. <<>> \in Seq(RawEvent) /\ <<>> \in Seq(Event) /\ Len(<<>>) = 0
    OBVIOUS
  <1>1. CASE NewInstance
    BY <1>1, CapAssumption DEF NewInstance, TypeOK
  <1>2. CASE Start
    BY <1>2 DEF Start, TypeOK
  <1>3. CASE Stop
    BY <1>0, <1>3, CapAssumption DEF Stop, TypeOK
  <1>4. CASE CloseDatabase
    BY <1>4 DEF CloseDatabase, TypeOK
  <1>5. CASE Kill
    BY <1>0, <1>5, CapAssumption DEF Kill, TypeOK
  <1> QED
    BY <1>1, <1>2, <1>3, <1>4, <1>5 DEF Process

LEMMA TypeScan == TypeOK /\ Scan => TypeOK'
  <1> SUFFICES ASSUME TypeOK, Scan PROVE TypeOK'
    OBVIOUS
  <1> USE DEF UNCHANGED_ByScan, userVars, watchVars, syncVars, bounds
  <1>1. ASSUME NEW d \in Dir \cup {Root}, ScanDirectory(d) PROVE TypeOK'
    BY <1>1 DEF ScanDirectory, TypeOK
  <1>2. ASSUME NEW p \in File, ScanStat(p) PROVE TypeOK'
    <2>1. scanEv' \in Event
      BY <1>2 DEF ScanStat, TypeOK, Event, State
    <2> QED
      BY <1>2, <2>1 DEF ScanStat, TypeOK
  <1>3. CASE ScanHash
    <2>1. scanEv' \in Event
      BY <1>3 DEF ScanHash, TypeOK, Event, State
    <2> QED
      BY <1>3, <2>1 DEF ScanHash, TypeOK
  <1>4. CASE ScanStore
    <2>1. RowFrom(scanEv) \in Row
      BY <1>4 DEF ScanStore, TypeOK, Event, Row, RowFrom
    <2>2. db' \in [File -> Row]
      BY <1>4, <2>1 DEF ScanStore, TypeOK
    <2> QED
      BY <1>4, <2>2 DEF ScanStore, TypeOK
  <1>5. CASE ScanFails
    BY <1>5 DEF ScanFails, ScanEnds, TypeOK
  <1>6. CASE ScanDone
    BY <1>6 DEF ScanDone, ScanEnds, TypeOK
  <1> QED
    BY <1>1, <1>2, <1>3, <1>4, <1>5, <1>6 DEF Scan

LEMMA TypeWatchLoop == TypeOK /\ WatchLoop => TypeOK'
  <1> SUFFICES ASSUME TypeOK, WatchLoop PROVE TypeOK'
    OBVIOUS
  <1> USE DEF UNCHANGED_ByWatch, userVars, watchVars, syncVars, scanVars, bounds
  <1>1. CASE WatchTake
    <2>1. raw' \in Seq(RawEvent) /\ Len(raw') <= RawCap /\ Head(raw) \in RawEvent
      <3>1. raw \in Seq(RawEvent) /\ raw # <<>> /\ raw' = Tail(raw) /\ Len(raw) <= RawCap
        BY <1>1 DEF WatchTake, TypeOK
      <3> QED
        BY <3>1, HeadTailType, CapAssumption
    <2>2. /\ watchPc' \in {"idle", "hash", "send", "exit"}
          /\ watchEv' \in Event \cup {NoEvent}
          /\ watchPc' \in {"hash", "send"} => watchEv' \in Event
      BY <1>1, <2>1 DEF WatchTake, TypeOK, Event, State, Deletion, RawEvent
    <2>3. watched' \subseteq Dir \cup {Root}
      BY <1>1 DEF WatchTake, TypeOK
    <2> QED
      BY <1>1, <2>1, <2>2, <2>3 DEF WatchTake, TypeOK
  <1>2. CASE WatchHash
    <2>1. /\ watchPc' \in {"idle", "hash", "send", "exit"}
          /\ watchEv' \in Event \cup {NoEvent}
          /\ watchPc' \in {"hash", "send"} => watchEv' \in Event
      BY <1>2 DEF WatchHash, TypeOK, Event, State
    <2> QED
      BY <1>2, <2>1 DEF WatchHash, TypeOK
  <1>3. CASE WatchSend
    <2>1. events' \in Seq(Event) /\ Len(events') <= EventCap
      <3>1. /\ events \in Seq(Event) /\ watchEv \in Event /\ events' = Append(events, watchEv)
            /\ Len(events) < EventCap
        BY <1>3 DEF WatchSend, TypeOK
      <3> QED
        BY <3>1, AppendType, CapAssumption
    <2> QED
      BY <1>3, <2>1 DEF WatchSend, TypeOK
  <1>4. CASE WatchExit
    BY <1>4 DEF WatchExit, TypeOK
  <1> QED
    BY <1>1, <1>2, <1>3, <1>4 DEF WatchLoop

LEMMA TypeSyncLoop == TypeOK /\ SyncLoop => TypeOK'
  <1> SUFFICES ASSUME TypeOK, SyncLoop PROVE TypeOK'
    OBVIOUS
  <1> USE DEF UNCHANGED_BySync, userVars, watchVars, scanVars, bounds
  <1>1. CASE SyncReceive
    <2>1. events' \in Seq(Event) /\ Len(events') <= EventCap /\ syncEv' \in Event
      <3>1. /\ events \in Seq(Event) /\ events # <<>> /\ Len(events) <= EventCap
            /\ events' = Tail(events) /\ syncEv' = Head(events)
        BY <1>1 DEF SyncReceive, TypeOK
      <3> QED
        BY <3>1, HeadTailType, CapAssumption
    <2> QED
      BY <1>1, <2>1 DEF SyncReceive, TypeOK
  <1>2. CASE SyncTimeout
    BY <1>2 DEF SyncTimeout, LoopAgain, TypeOK
  <1>3. CASE SyncStore
    <2>1. RowFrom(syncEv) \in Row
      BY <1>3 DEF SyncStore, TypeOK, Event, Row, RowFrom
    <2>2. db' \in [File -> Row]
      BY <1>3, <2>1 DEF SyncStore, TypeOK
    <2> QED
      BY <1>3, <2>2 DEF SyncStore, LoopAgain, TypeOK
  <1>4. CASE SyncAnnounce
    <2>1. MessageFor(syncEv) \in Message
      BY <1>4 DEF SyncAnnounce, TypeOK, Event, Message, MessageFor, State
    <2>2. announced' \in [File -> Message \cup {NoMessage}]
      BY <1>4, <2>1 DEF SyncAnnounce, TypeOK
    <2> QED
      BY <1>4, <2>2 DEF SyncAnnounce, LoopAgain, TypeOK
  <1> QED
    BY <1>1, <1>2, <1>3, <1>4 DEF SyncLoop

\* Every variable of the pipeline keeps its type; in particular neither the
\* kernel's queue nor Watcher.events ever holds more than its capacity
\* (watcher.go:67, 180).
THEOREM TypeCorrect == Spec => []TypeOK
  <1>1. TypeOK /\ [Next]_vars => TypeOK'
    <2>1. TypeOK /\ UNCHANGED vars => TypeOK'
      BY DEF TypeOK, vars
    <2> QED
      BY <2>1, TypeUser, TypeScan, TypeWatchLoop, TypeSyncLoop, TypeProcess DEF Next
  <1> QED
    BY TypeInit, <1>1, PTL DEF Spec

-----------------------------------------------------------------------------
(* Queues: the last event about a file, when one is added or taken.        *)

\* What concerns a file after an append: the old queue, or the new event.
LEMMA AppendIn ==
    ASSUME NEW S, NEW q \in Seq(S), NEW e \in S, NEW p
    PROVE  In(Append(q, e), p) <=> In(q, p) \/ e.path = p
  <1>1. /\ DOMAIN Append(q, e) = 1 .. Len(q) + 1 /\ DOMAIN q = 1 .. Len(q)
        /\ Len(q) \in Nat /\ Append(q, e)[Len(q) + 1] = e
        /\ \A i \in 1 .. Len(q) : Append(q, e)[i] = q[i]
    OBVIOUS
  <1> QED
    BY <1>1 DEF In, Range

\* The last event about a file after an append.
LEMMA AppendLast ==
    ASSUME NEW S, NEW q \in Seq(S), NEW e \in S, NEW p, NEW f, Last(Append(q, e), p, f)
    PROVE  (e.path = p => f = e) /\ (e.path # p => Last(q, p, f) /\ f \in Range(q))
  <1>1. /\ DOMAIN Append(q, e) = 1 .. Len(q) + 1 /\ DOMAIN q = 1 .. Len(q)
        /\ Len(q) \in Nat /\ Append(q, e)[Len(q) + 1] = e
        /\ \A j \in 1 .. Len(q) : Append(q, e)[j] = q[j]
    OBVIOUS
  <1>2. PICK i \in 1 .. Len(q) + 1 :
            /\ Append(q, e)[i] = f /\ f.path = p
            /\ \A j \in 1 .. Len(q) + 1 : j > i => Append(q, e)[j].path # p
    BY <1>1 DEF Last
  <1>3. CASE e.path = p
    <2>1. ~(Len(q) + 1 > i)
      BY <1>1, <1>2, <1>3
    <2> QED
      BY <1>1, <1>2, <1>3, <2>1
  <1>4. CASE e.path # p
    <2>1. i \in 1 .. Len(q)
      BY <1>1, <1>2, <1>4
    <2>2. q[i] = f /\ \A j \in 1 .. Len(q) : j > i => q[j].path # p
      BY <1>1, <1>2, <2>1
    <2> QED
      BY <1>1, <1>2, <1>4, <2>1, <2>2 DEF Last, Range
  <1> QED
    BY <1>3, <1>4

\* What concerns a file before its head is taken: the head, or the rest.
LEMMA TailIn ==
    ASSUME NEW S, NEW q \in Seq(S), q # <<>>, NEW p
    PROVE  In(q, p) <=> Head(q).path = p \/ In(Tail(q), p)
  <1>1. /\ DOMAIN q = 1 .. Len(q) /\ DOMAIN Tail(q) = 1 .. Len(q) - 1
        /\ Len(q) \in Nat \ {0} /\ Head(q) = q[1]
        /\ \A j \in 1 .. Len(q) - 1 : Tail(q)[j] = q[j + 1]
    OBVIOUS
  <1>2. ASSUME In(q, p), Head(q).path # p PROVE In(Tail(q), p)
    <2>1. PICK i \in 1 .. Len(q) : q[i].path = p
      BY <1>1, <1>2 DEF In, Range
    <2>2. i # 1 /\ i - 1 \in 1 .. Len(q) - 1
      BY <1>1, <1>2, <2>1
    <2>3. Tail(q)[i - 1].path = p
      BY <1>1, <2>1, <2>2
    <2> QED
      BY <1>1, <2>2, <2>3 DEF In, Range
  <1>3. ASSUME In(Tail(q), p) PROVE In(q, p)
    <2>1. PICK i \in 1 .. Len(q) - 1 : Tail(q)[i].path = p
      BY <1>1, <1>3 DEF In, Range
    <2>2. i + 1 \in 1 .. Len(q) /\ q[i + 1].path = p
      BY <1>1, <2>1
    <2> QED
      BY <1>1, <2>2 DEF In, Range
  <1>4. ASSUME Head(q).path = p PROVE In(q, p)
    BY <1>1, <1>4 DEF In, Range
  <1> QED
    BY <1>2, <1>3, <1>4

\* The last event about a file in the rest of a queue is its last in the queue.
LEMMA TailLast ==
    ASSUME NEW S, NEW q \in Seq(S), q # <<>>, NEW p, NEW f, Last(Tail(q), p, f)
    PROVE  Last(q, p, f) /\ f \in Range(q)
  <1>1. /\ DOMAIN q = 1 .. Len(q) /\ DOMAIN Tail(q) = 1 .. Len(q) - 1
        /\ Len(q) \in Nat \ {0}
        /\ \A j \in 1 .. Len(q) - 1 : Tail(q)[j] = q[j + 1]
    OBVIOUS
  <1>2. PICK i \in 1 .. Len(q) - 1 :
            /\ Tail(q)[i] = f /\ f.path = p
            /\ \A j \in 1 .. Len(q) - 1 : j > i => Tail(q)[j].path # p
    BY <1>1 DEF Last
  <1>3. ASSUME NEW j \in 1 .. Len(q), j > i + 1 PROVE q[j].path # p
    <2>1. j - 1 \in 1 .. Len(q) - 1 /\ j - 1 > i
      BY <1>1, <1>2, <1>3
    <2>2. Tail(q)[j - 1].path # p
      BY <1>2, <2>1
    <2>3. Tail(q)[j - 1] = q[j]
      BY <1>1, <2>1
    <2> QED
      BY <2>2, <2>3
  <1>4. i + 1 \in 1 .. Len(q) /\ q[i + 1] = f
    BY <1>1, <1>2
  <1> QED
    BY <1>1, <1>2, <1>3, <1>4 DEF Last, Range

\* A head with nothing behind it about the same file is the last about it.
LEMMA HeadLast ==
    ASSUME NEW S, NEW q \in Seq(S), q # <<>>, ~In(Tail(q), Head(q).path)
    PROVE  Last(q, Head(q).path, Head(q)) /\ Head(q) \in Range(q)
  <1>1. /\ DOMAIN q = 1 .. Len(q) /\ DOMAIN Tail(q) = 1 .. Len(q) - 1
        /\ Len(q) \in Nat \ {0} /\ Head(q) = q[1]
        /\ \A j \in 1 .. Len(q) - 1 : Tail(q)[j] = q[j + 1]
    OBVIOUS
  <1>2. ASSUME NEW j \in 1 .. Len(q), j > 1 PROVE q[j].path # Head(q).path
    <2>1. j - 1 \in 1 .. Len(q) - 1
      BY <1>1, <1>2
    <2>2. Tail(q)[j - 1] = q[j]
      BY <1>1, <2>1
    <2> QED
      BY <1>1, <2>1, <2>2 DEF In, Range
  <1> QED
    BY <1>1, <1>2 DEF Last, Range

-----------------------------------------------------------------------------
(* The pipeline invariant: changes made by the user.                       *)

\* An event about one file says nothing new about another (Enqueue).
LEMMA EnqueueOther ==
    ASSUME NEW q \in Seq(RawEvent), NEW path \in File \cup Dir, NEW dir,
           NEW op \in {"create", "write", "remove", "rename"}, NEW x, x # path
    PROVE  /\ In(Enqueue(q, path, dir, op), x) <=> In(q, x)
           /\ \A f \in Range(Enqueue(q, path, dir, op)) :
                 Last(Enqueue(q, path, dir, op), x, f) => Last(q, x, f) /\ f \in Range(q)
  <1> DEFINE e == [path |-> path, op |-> op]
  <1>1. e \in RawEvent /\ e.path # x
    BY DEF RawEvent
  <1>2. Enqueue(q, path, dir, op) = Append(q, e) \/ Enqueue(q, path, dir, op) = q
    BY DEF Enqueue
  <1> HIDE DEF e
  <1>3. In(Append(q, e), x) <=> In(q, x)
    BY <1>1, AppendIn
  <1>4. \A f : Last(Append(q, e), x, f) => Last(q, x, f) /\ f \in Range(q)
    BY <1>1, AppendLast
  <1> QED
    BY <1>2, <1>3, <1>4

\* An event that finds room is the last one about its file (Enqueue).
LEMMA EnqueueThis ==
    ASSUME NEW q \in Seq(RawEvent), NEW path \in File \cup Dir, NEW dir,
           NEW op \in {"create", "write", "remove", "rename"}, Raised(dir, q)
    PROVE  /\ In(Enqueue(q, path, dir, op), path)
           /\ \A f \in Range(Enqueue(q, path, dir, op)) :
                 Last(Enqueue(q, path, dir, op), path, f) => f.op = op
  <1> DEFINE e == [path |-> path, op |-> op]
  <1>1. e \in RawEvent /\ e.path = path /\ e.op = op
    BY DEF RawEvent
  <1>2. Enqueue(q, path, dir, op) = Append(q, e)
    BY DEF Enqueue
  <1> HIDE DEF e
  <1>3. In(Append(q, e), path)
    BY <1>1, AppendIn
  <1>4. \A f : Last(Append(q, e), path, f) => f.op = op
    BY <1>1, AppendLast
  <1> QED
    BY <1>2, <1>3, <1>4

\* A change of other files leaves the truth about this one as it was.
LEMMA UserFrame ==
    ASSUME NEW x, FileTrue(x), UNCHANGED_Program, disk'[x] = disk[x],
           In(raw', x) <=> In(raw, x), RawTrue(x)'
    PROVE  FileTrue(x)'
  <1> USE DEF UNCHANGED_Program, watchVars, syncVars, scanVars, InRaw, InWatch, InEvents,
              InSync, InScan, Pending
  <1>1. WatchTrue(x)' /\ EventsTrue(x)' /\ SyncTrue(x)'
    BY DEF FileTrue, WatchTrue, EventsTrue, SyncTrue
  <1>2. ScanTrue(x)' /\ RowTrue(x)' /\ MessageTrue(x)'
    BY DEF FileTrue, ScanTrue, RowTrue, MessageTrue
  <1> QED
    BY <1>1, <1>2 DEF FileTrue

\* A file with a true kernel event unread is true, whatever else is on its way.
LEMMA FreshEvent ==
    ASSUME NEW x, In(raw', x), RawTrue(x)'
    PROVE  FileTrue(x)'
  BY DEF FileTrue, WatchTrue, EventsTrue, SyncTrue, ScanTrue, RowTrue, MessageTrue,
         Pending, InRaw

\* WriteFile and RemoveFile: one file takes a new state and raises one event.
LEMMA PipelineChange ==
    ASSUME TypeOK, PipelineInv, NEW p \in File, NEW c \in State,
           NEW op \in {"create", "write", "remove", "rename"},
           op = "remove" <=> c = Absent,
           disk' = [disk EXCEPT ![p] = c],
           raw' = Enqueue(raw, p, DirOf[p], op),
           untracked' = Track(p, ActedOn(p, raw)),
           UNCHANGED_Program
    PROVE  PipelineInv'
  <1> USE DEF UNCHANGED_Program, watchVars, syncVars, scanVars
  <1>0. raw \in Seq(RawEvent) /\ disk \in [File -> State]
    BY DEF TypeOK
  <1>1. PhaseInv'
    <2>1. status = "down" => raw' = <<>>
      BY DEF PipelineInv, PhaseInv, Enqueue, Raised
    <2> QED
      BY <2>1 DEF PipelineInv, PhaseInv
  <1>2. \A x \in File \ {p} : In(raw', x) <=> In(raw, x)
    BY <1>0, EnqueueOther
  <1>3. HiddenUntracked'
    <2> SUFFICES ASSUME NEW x \in Hidden, In(raw', x) PROVE x \in untracked'
      BY DEF HiddenUntracked, InRaw
    <2>1. x \in File
      BY PathAssumption
    <2>2. CASE x = p
      BY <2>2 DEF Track, ActedOn
    <2>3. CASE x # p
      BY <1>2, <2>1, <2>3 DEF Track, PipelineInv, HiddenUntracked, InRaw
    <2> QED
      BY <2>2, <2>3
  <1>4. ASSUME Active', NEW x \in File \ untracked' PROVE FileTrue(x)'
    <2>1. CASE x = p
      <3>1. Raised(DirOf[p], raw)
        BY <1>4, <2>1 DEF Track, ActedOn
      <3>2. In(raw', p) /\ \A f \in Range(raw') : Last(raw', p, f) => f.op = op
        BY <1>0, <3>1, EnqueueThis
      <3>3. disk'[p] = c
        BY <1>0
      <3>4. RawTrue(p)'
        BY <3>2, <3>3 DEF RawTrue
      <3> QED
        BY <2>1, <3>2, <3>4, FreshEvent
    <2>2. CASE x # p
      <3>1. x \in File \ untracked /\ Active
        BY <1>4, <2>2 DEF Track, Active
      <3>2. FileTrue(x)
        BY <3>1 DEF PipelineInv
      <3>3. disk'[x] = disk[x]
        BY <1>0, <2>2, <3>1
      <3>4. \A f \in Range(raw') : Last(raw', x, f) => Last(raw, x, f) /\ f \in Range(raw)
        BY <1>0, <2>2, EnqueueOther
      <3>5. RawTrue(x)'
        BY <3>2, <3>3, <3>4 DEF FileTrue, RawTrue
      <3> QED
        BY <1>2, <2>2, <3>1, <3>2, <3>3, <3>5, UserFrame
    <2> QED
      BY <2>1, <2>2
  <1> QED
    BY <1>1, <1>3, <1>4 DEF PipelineInv

LEMMA PipelineRename ==
    ASSUME TypeOK, PipelineInv, NEW p \in File, NEW q \in File, RenameFile(p, q)
    PROVE  PipelineInv'
  <1> USE DEF UNCHANGED_Program, watchVars, syncVars, scanVars
  <1> DEFINE raw1 == Enqueue(raw, p, DirOf[p], "rename")
  <1>0. /\ raw \in Seq(RawEvent) /\ disk \in [File -> State] /\ p # q
        /\ disk' = [disk EXCEPT ![q] = disk[p], ![p] = Absent] /\ disk[p] # Absent
        /\ raw' = Enqueue(raw1, q, DirOf[q], "create")
        /\ untracked' = {p} \cup Track(q, ActedOn(q, raw1))
        /\ UNCHANGED_Program
    BY DEF TypeOK, RenameFile
  <1>1. raw1 \in Seq(RawEvent)
    BY EnqueueType DEF TypeOK
  <1>2. PhaseInv'
    <2>1. status = "down" => raw' = <<>>
      BY <1>0 DEF PipelineInv, PhaseInv, Enqueue, Raised
    <2> QED
      BY <1>0, <2>1 DEF PipelineInv, PhaseInv
  <1>3. ASSUME NEW x \in File, x # p
        PROVE  /\ In(raw1, x) <=> In(raw, x)
               /\ \A f \in Range(raw1) : Last(raw1, x, f) => Last(raw, x, f) /\ f \in Range(raw)
    BY <1>0, <1>3, EnqueueOther
  <1> HIDE DEF raw1
  <1>4. ASSUME NEW x \in File, x # q
        PROVE  /\ In(raw', x) <=> In(raw1, x)
               /\ \A f \in Range(raw') : Last(raw', x, f) => Last(raw1, x, f) /\ f \in Range(raw1)
    BY <1>0, <1>1, <1>4, EnqueueOther
  <1>5. HiddenUntracked'
    <2> SUFFICES ASSUME NEW x \in Hidden, In(raw', x) PROVE x \in untracked'
      BY DEF HiddenUntracked, InRaw
    <2>1. x \in File
      BY PathAssumption
    <2>2. CASE x \in {p, q}
      BY <1>0, <2>2 DEF Track, ActedOn
    <2>3. CASE x \notin {p, q}
      BY <1>0, <1>3, <1>4, <2>1, <2>3 DEF Track, PipelineInv, HiddenUntracked, InRaw
    <2> QED
      BY <2>2, <2>3
  <1>6. ASSUME Active', NEW x \in File \ untracked' PROVE FileTrue(x)'
    <2>0. x # p
      BY <1>0, <1>6
    <2>1. CASE x = q
      <3>1. Raised(DirOf[q], raw1)
        BY <1>0, <1>6, <2>1 DEF Track, ActedOn
      <3>2. In(raw', q) /\ \A f \in Range(raw') : Last(raw', q, f) => f.op = "create"
        BY <1>0, <1>1, <3>1, EnqueueThis
      <3>3. disk'[q] # Absent
        BY <1>0
      <3>4. RawTrue(q)'
        BY <3>2, <3>3 DEF RawTrue
      <3> QED
        BY <2>1, <3>2, <3>4, FreshEvent
    <2>2. CASE x # q
      <3>1. x \in File \ untracked /\ Active
        BY <1>0, <1>6, <2>2 DEF Track, Active
      <3>2. FileTrue(x)
        BY <3>1 DEF PipelineInv
      <3>3. disk'[x] = disk[x]
        BY <1>0, <2>0, <2>2, <3>1
      <3>4. \A f \in Range(raw') : Last(raw', x, f) => Last(raw, x, f) /\ f \in Range(raw)
        BY <1>3, <1>4, <2>0, <2>2, <3>1
      <3>5. RawTrue(x)'
        BY <3>2, <3>3, <3>4 DEF FileTrue, RawTrue
      <3>6. In(raw', x) <=> In(raw, x)
        BY <1>3, <1>4, <2>0, <2>2, <3>1
      <3> QED
        BY <1>0, <3>2, <3>3, <3>5, <3>6, UserFrame
    <2> QED
      BY <2>1, <2>2
  <1> QED
    BY <1>2, <1>5, <1>6 DEF PipelineInv

LEMMA PipelineMakeDir ==
    ASSUME TypeOK, PipelineInv, NEW d \in Dir, MakeDir(d)
    PROVE  PipelineInv'
  <1> USE DEF UNCHANGED_Program, watchVars, syncVars, scanVars
  <1>0. /\ raw \in Seq(RawEvent) /\ raw' = Enqueue(raw, d, Root, "create")
        /\ disk' = disk /\ untracked' = untracked /\ UNCHANGED_Program
    BY DEF TypeOK, MakeDir
  <1>1. PhaseInv'
    <2>1. status = "down" => raw' = <<>>
      BY <1>0 DEF PipelineInv, PhaseInv, Enqueue, Raised
    <2> QED
      BY <1>0, <2>1 DEF PipelineInv, PhaseInv
  <1>2. ASSUME NEW x \in File
        PROVE  /\ In(raw', x) <=> In(raw, x)
               /\ \A f \in Range(raw') : Last(raw', x, f) => Last(raw, x, f) /\ f \in Range(raw)
    <2>1. x # d
      BY PathAssumption
    <2> QED
      BY <1>0, <2>1, EnqueueOther
  <1>3. HiddenUntracked'
    BY <1>0, <1>2, PathAssumption DEF PipelineInv, HiddenUntracked, InRaw
  <1>4. ASSUME Active', NEW x \in File \ untracked' PROVE FileTrue(x)'
    <2>1. FileTrue(x)
      BY <1>0, <1>4 DEF PipelineInv, Active
    <2>2. RawTrue(x)'
      BY <1>0, <1>2, <2>1 DEF FileTrue, RawTrue
    <2> QED
      BY <1>0, <1>2, <2>1, <2>2, UserFrame
  <1> QED
    BY <1>1, <1>3, <1>4 DEF PipelineInv

LEMMA PipelineUser == TypeOK /\ PipelineInv /\ User => PipelineInv'
  <1> SUFFICES ASSUME TypeOK, PipelineInv, User PROVE PipelineInv'
    OBVIOUS
  <1>1. ASSUME NEW p \in File, NEW c \in Content, WriteFile(p, c) PROVE PipelineInv'
    <2> DEFINE op == IF disk[p] = Absent THEN "create" ELSE "write"
    <2>1. /\ c \in State /\ c # Absent
          /\ op \in {"create", "write", "remove", "rename"} /\ op # "remove"
      BY ContentAssumption DEF State
    <2>2. /\ disk' = [disk EXCEPT ![p] = c] /\ raw' = Enqueue(raw, p, DirOf[p], op)
          /\ untracked' = Track(p, ActedOn(p, raw)) /\ UNCHANGED_Program
      BY <1>1 DEF WriteFile
    <2> HIDE DEF op
    <2> QED
      BY <2>1, <2>2, PipelineChange
  <1>2. ASSUME NEW p \in File, RemoveFile(p) PROVE PipelineInv'
    <2>1. /\ disk' = [disk EXCEPT ![p] = Absent] /\ raw' = Enqueue(raw, p, DirOf[p], "remove")
          /\ untracked' = Track(p, ActedOn(p, raw)) /\ UNCHANGED_Program
      BY <1>2 DEF RemoveFile
    <2>2. Absent \in State
      BY DEF State
    <2> QED
      BY <2>1, <2>2, PipelineChange
  <1> QED
    BY <1>1, <1>2, PipelineRename, PipelineMakeDir DEF User

-----------------------------------------------------------------------------
(* The pipeline invariant: the goroutines and the life of the process.     *)

\* A file no queue mentions has no last event in it.
LEMMA NoLast ==
    ASSUME NEW q, NEW p, ~In(q, p), NEW e \in Range(q)
    PROVE  ~Last(q, p, e)
  BY DEF In, Last

\* A step that handles another file leaves the truth about this one.
LEMMA OtherFrame ==
    ASSUME NEW x, FileTrue(x),
           disk'[x] = disk[x], db'[x] = db[x], announced'[x] = announced[x],
           InRaw(x)' <=> InRaw(x), RawTrue(x)',
           InWatch(x)' <=> InWatch(x), InWatch(x) => UNCHANGED <<watchPc, watchEv>>,
           InEvents(x)' <=> InEvents(x), EventsTrue(x)',
           InSync(x)' <=> InSync(x), InSync(x) => UNCHANGED <<syncPc, syncEv>>,
           InScan(x)' <=> InScan(x), InScan(x) => UNCHANGED <<scanPc, scanEv>>
    PROVE  FileTrue(x)'
  <1>0. Pending(x)' <=> Pending(x)
    BY DEF Pending
  <1>1. WatchTrue(x)'
    BY DEF FileTrue, WatchTrue
  <1>2. SyncTrue(x)'
    BY DEF FileTrue, SyncTrue
  <1>3. ScanTrue(x)'
    BY <1>0 DEF FileTrue, ScanTrue
  <1>4. RowTrue(x)'
    BY <1>0 DEF FileTrue, RowTrue
  <1>5. MessageTrue(x)'
    BY <1>0 DEF FileTrue, MessageTrue
  <1> QED
    BY <1>1, <1>2, <1>3, <1>4, <1>5 DEF FileTrue

\* A file whose only trace ahead of the channel is a true event in watchLoop's hands.
LEMMA InHand ==
    ASSUME NEW x, ~InRaw(x)', InWatch(x)', WatchTrue(x)'
    PROVE  FileTrue(x)'
  <1>1. RawTrue(x)'
    BY NoLast DEF RawTrue, InRaw
  <1> QED
    BY <1>1 DEF FileTrue, EventsTrue, SyncTrue, ScanTrue, RowTrue, MessageTrue, Pending

LEMMA PipelineProcess == TypeOK /\ PipelineInv /\ Process => PipelineInv'
  <1> SUFFICES ASSUME TypeOK, PipelineInv, Process PROVE PipelineInv'
    OBVIOUS
  <1> USE DEF userVars, watchVars, syncVars, scanVars, bounds
  <1>0. \A x : ~In(<<>>, x) /\ \A e : e \notin Range(<<>>)
    BY DEF In, Range
  <1>1. CASE NewInstance
    <2>1. /\ raw' = <<>> /\ events' = <<>> /\ watchPc' = "idle" /\ syncPc' = "exit"
          /\ scanPc' = "done" /\ announced' = [p \in File |-> NoMessage]
          /\ db' = db /\ disk' = disk /\ status' = "new"
          /\ untracked' = {p \in File : db[p] # RowOf(disk[p])}
      BY <1>1 DEF NewInstance, PipelineInv, PhaseInv
    <2>2. PhaseInv' /\ HiddenUntracked'
      BY <1>0, <2>1 DEF PhaseInv, HiddenUntracked, InRaw
    <2>3. ASSUME NEW x \in File \ untracked' PROVE FileTrue(x)'
      <3>1. RawTrue(x)' /\ WatchTrue(x)' /\ EventsTrue(x)' /\ SyncTrue(x)'
        BY <1>0, <2>1 DEF RawTrue, WatchTrue, EventsTrue, SyncTrue, InWatch, InSync
      <3>2. ScanTrue(x)' /\ RowTrue(x)' /\ MessageTrue(x)'
        BY <2>1, <2>3 DEF ScanTrue, RowTrue, MessageTrue, InScan
      <3> QED
        BY <3>1, <3>2 DEF FileTrue
    <2> QED
      BY <2>2, <2>3 DEF PipelineInv
  <1>2. CASE Start
    <2>1. PhaseInv' /\ HiddenUntracked'
      BY <1>2 DEF Start, PipelineInv, PhaseInv, HiddenUntracked, InRaw
    <2>2. ASSUME NEW x \in File \ untracked' PROVE FileTrue(x)'
      <3>1. FileTrue(x) /\ scanPc = "done"
        BY <1>2, <2>2 DEF Start, PipelineInv, PhaseInv, Active
      <3>2. RawTrue(x)' /\ EventsTrue(x)'
        BY <1>2, <3>1 DEF Start, FileTrue, RawTrue, EventsTrue, InRaw, InWatch
      <3> QED
        BY <1>2, <3>1, <3>2, OtherFrame
        DEF Start, InRaw, InWatch, InEvents, InSync, InScan
    <2> QED
      BY <2>1, <2>2 DEF PipelineInv
  <1>3. CASE Stop
    BY <1>0, <1>3 DEF Stop, PipelineInv, PhaseInv, HiddenUntracked, InRaw, Active
  <1>4. CASE CloseDatabase
    BY <1>4 DEF CloseDatabase, PipelineInv, PhaseInv, HiddenUntracked, InRaw, Active
  <1>5. CASE Kill
    BY <1>0, <1>5 DEF Kill, PipelineInv, PhaseInv, HiddenUntracked, InRaw, Active
  <1> QED
    BY <1>1, <1>2, <1>3, <1>4, <1>5 DEF Process

LEMMA PipelineScan == TypeOK /\ PipelineInv /\ Scan => PipelineInv'
  <1> SUFFICES ASSUME TypeOK, PipelineInv, Scan PROVE PipelineInv'
    OBVIOUS
  <1> USE DEF UNCHANGED_ByScan, userVars, watchVars, syncVars, bounds
  <1>0. /\ scanPc # "done" /\ status = "scan" /\ syncPc = "exit"
        /\ announced = [p \in File |-> NoMessage]
    BY DEF Scan, ScanDirectory, ScanStat, ScanHash, ScanStore, ScanFails, ScanDone,
           PipelineInv, PhaseInv
  <1>1. UNCHANGED <<disk, raw, watchPc, watchEv, events, syncEv, announced>>
    BY DEF Scan, ScanDirectory, ScanStat, ScanHash, ScanStore, ScanFails, ScanDone
  <1>2. syncPc' \in {"exit", "select"}
    BY <1>0 DEF Scan, ScanDirectory, ScanStat, ScanHash, ScanStore, ScanFails, ScanDone
  <1>3. \A x : FileTrue(x) => RawTrue(x)' /\ WatchTrue(x)' /\ EventsTrue(x)' /\ SyncTrue(x)'
    <2> SUFFICES ASSUME NEW x, FileTrue(x)
                 PROVE  RawTrue(x)' /\ WatchTrue(x)' /\ EventsTrue(x)' /\ SyncTrue(x)'
      OBVIOUS
    <2>1. RawTrue(x)' /\ WatchTrue(x)' /\ EventsTrue(x)'
      BY <1>1 DEF FileTrue, RawTrue, WatchTrue, EventsTrue, InRaw, InWatch
    <2>2. SyncTrue(x)'
      BY <1>2 DEF SyncTrue, InSync
    <2> QED
      BY <2>1, <2>2
  <1>4. \A x : Pending(x)' <=> Pending(x)
    BY <1>0, <1>1, <1>2 DEF Pending, InRaw, InWatch, InEvents, InSync
  <1>5. \A x \in File : MessageTrue(x)'
    BY <1>0, <1>1 DEF MessageTrue
  <1>6. \A x \in File \ untracked : FileTrue(x)
    BY <1>0 DEF PipelineInv, Active
  <1>7. PhaseInv'
    BY <1>0, <1>1 DEF Scan, ScanDirectory, ScanStat, ScanHash, ScanStore, ScanFails, ScanDone,
                      ScanEnds, PhaseInv
  <1>8. ASSUME NEW d \in Dir \cup {Root}, ScanDirectory(d) PROVE PipelineInv'
    <2>1. HiddenUntracked'
      BY <1>8 DEF ScanDirectory, PipelineInv, HiddenUntracked, InRaw
    <2>2. ASSUME NEW x \in File \ untracked' PROVE FileTrue(x)'
      <3>1. x \in File \ untracked /\ FileTrue(x)
        BY <1>6, <1>8, <2>2 DEF ScanDirectory
      <3>2. ScanTrue(x)' /\ RowTrue(x)'
        BY <1>1, <1>4, <1>8, <3>1 DEF ScanDirectory, FileTrue, ScanTrue, RowTrue, InScan
      <3> QED
        BY <1>3, <1>5, <3>1, <3>2 DEF FileTrue
    <2> QED
      BY <1>7, <2>1, <2>2 DEF PipelineInv
  <1>9. ASSUME NEW p \in File, ScanStat(p) PROVE PipelineInv'
    <2>1. HiddenUntracked'
      BY <1>9 DEF ScanStat, PipelineInv, HiddenUntracked, InRaw, Pending
    <2>2. ASSUME NEW x \in File \ untracked' PROVE FileTrue(x)'
      <3>1. CASE x # p \/ Pending(p)
        <4>1. x \in File \ untracked /\ FileTrue(x)
          BY <1>6, <1>9, <2>2, <3>1 DEF ScanStat
        <4>2. ScanTrue(x)' /\ RowTrue(x)'
          BY <1>1, <1>4, <1>9, <3>1, <4>1 DEF ScanStat, FileTrue, ScanTrue, RowTrue, InScan
        <4> QED
          BY <1>3, <1>5, <4>1, <4>2 DEF FileTrue
      <3>2. CASE x = p /\ ~Pending(p)
        <4>1. ~InRaw(x)' /\ ~InWatch(x)' /\ ~InEvents(x)' /\ ~InSync(x)'
          BY <1>4, <3>2 DEF Pending
        <4>2. RawTrue(x)' /\ EventsTrue(x)'
          BY <4>1, NoLast DEF RawTrue, EventsTrue, InRaw, InEvents
        <4>3. WatchTrue(x)' /\ SyncTrue(x)'
          BY <4>1 DEF WatchTrue, SyncTrue
        <4>4. ScanTrue(x)' /\ RowTrue(x)'
          BY <1>1, <1>9, <3>2 DEF ScanStat, ScanTrue, RowTrue, InScan
        <4> QED
          BY <1>5, <4>2, <4>3, <4>4 DEF FileTrue
      <3> QED
        BY <3>1, <3>2
    <2> QED
      BY <1>7, <2>1, <2>2 DEF PipelineInv
  <1>10. CASE ScanHash
    <2>1. HiddenUntracked'
      BY <1>10 DEF ScanHash, PipelineInv, HiddenUntracked, InRaw
    <2>2. scanEv \in Event
      BY <1>10 DEF ScanHash, TypeOK
    <2>3. ASSUME NEW x \in File \ untracked' PROVE FileTrue(x)'
      <3>1. x \in File \ untracked /\ FileTrue(x)
        BY <1>6, <1>10, <2>3 DEF ScanHash
      <3>2. ScanTrue(x)' /\ RowTrue(x)'
        BY <1>1, <1>4, <1>10, <2>2, <3>1
        DEF ScanHash, FileTrue, ScanTrue, RowTrue, InScan, Event
      <3> QED
        BY <1>3, <1>5, <3>1, <3>2 DEF FileTrue
    <2> QED
      BY <1>7, <2>1, <2>3 DEF PipelineInv
  <1>11. CASE ScanStore
    <2>1. HiddenUntracked'
      BY <1>11 DEF ScanStore, PipelineInv, HiddenUntracked, InRaw
    <2>2. scanEv.path \in File /\ db \in [File -> Row]
      BY <1>11 DEF ScanStore, TypeOK, Event
    <2>3. ASSUME NEW x \in File \ untracked' PROVE FileTrue(x)'
      <3>1. x \in File \ untracked /\ FileTrue(x)
        BY <1>6, <1>11, <2>3 DEF ScanStore
      <3>2. ScanTrue(x)'
        BY <1>11 DEF ScanStore, ScanTrue, InScan
      <3>3. RowTrue(x)'
        <4>1. CASE x = scanEv.path
          BY <1>1, <1>4, <1>11, <2>2, <3>1, <4>1
          DEF ScanStore, FileTrue, ScanTrue, RowTrue, InScan, RowFrom, RowOf
        <4>2. CASE x # scanEv.path
          BY <1>1, <1>4, <1>11, <2>2, <3>1, <4>2
          DEF ScanStore, FileTrue, RowTrue, InScan
        <4> QED
          BY <4>1, <4>2
      <3> QED
        BY <1>3, <1>5, <3>1, <3>2, <3>3 DEF FileTrue
    <2> QED
      BY <1>7, <2>1, <2>3 DEF PipelineInv
  <1>12. CASE ScanFails \/ ScanDone
    <2>1. HiddenUntracked'
      BY <1>12 DEF ScanFails, ScanDone, PipelineInv, HiddenUntracked, InRaw
    <2>2. ASSUME NEW x \in File \ untracked' PROVE FileTrue(x)'
      <3>1. x \in File \ untracked /\ FileTrue(x)
        BY <1>6, <1>12, <2>2 DEF ScanFails, ScanDone
      <3>2. ScanTrue(x)'
        BY <1>12 DEF ScanFails, ScanDone, ScanEnds, ScanTrue, InScan
      <3>3. ~Pending(x) => ~InScan(x)
        BY <1>12, <3>1 DEF ScanFails, ScanDone, FileTrue, ScanTrue, InScan
      <3>4. RowTrue(x)'
        BY <1>1, <1>4, <1>12, <3>1, <3>3 DEF ScanFails, ScanDone, FileTrue, RowTrue
      <3> QED
        BY <1>3, <1>5, <3>1, <3>2, <3>4 DEF FileTrue
    <2> QED
      BY <1>7, <2>1, <2>2 DEF PipelineInv
  <1> QED
    BY <1>8, <1>9, <1>10, <1>11, <1>12 DEF Scan

LEMMA PipelineWatchTake == TypeOK /\ PipelineInv /\ WatchTake => PipelineInv'
  <1> SUFFICES ASSUME TypeOK, PipelineInv, WatchTake PROVE PipelineInv'
    OBVIOUS
  <1> USE DEF UNCHANGED_ByWatch, userVars, syncVars, scanVars, watchVars, bounds
  <1> DEFINE e == Head(raw)
  <1>1. /\ raw \in Seq(RawEvent) /\ raw # <<>> /\ raw' = Tail(raw) /\ watchPc = "idle"
        /\ UNCHANGED <<disk, db, status, events, syncPc, syncEv, scanPc, scanEv, announced,
                       untracked>>
    BY DEF WatchTake, TypeOK
  <1>2. /\ \A x : In(raw, x) <=> e.path = x \/ In(raw', x)
        /\ \A x, f : Last(raw', x, f) => Last(raw, x, f) /\ f \in Range(raw)
        /\ ~In(raw', e.path) => Last(raw, e.path, e) /\ e \in Range(raw)
    <2>1. \A x : In(raw, x) <=> e.path = x \/ In(raw', x)
      BY <1>1, TailIn
    <2>2. ASSUME NEW x, NEW f, Last(raw', x, f) PROVE Last(raw, x, f) /\ f \in Range(raw)
      BY <1>1, <2>2, TailLast
    <2>3. ~In(raw', e.path) => Last(raw, e.path, e) /\ e \in Range(raw)
      BY <1>1, HeadLast
    <2> QED
      BY <2>1, <2>2, <2>3
  <1>3. PhaseInv'
    BY <1>1 DEF WatchTake, PipelineInv, PhaseInv
  <1>4. HiddenUntracked'
    BY <1>1, <1>2 DEF PipelineInv, HiddenUntracked, InRaw
  <1>5. ASSUME Active', NEW x \in File \ untracked' PROVE FileTrue(x)'
    <2>1. FileTrue(x) /\ x \in File \ untracked
      BY <1>1, <1>5 DEF PipelineInv, Active
    <2>2. RawTrue(x)'
      BY <1>1, <1>2, <2>1 DEF FileTrue, RawTrue
    <2>3. CASE In(raw', x)
      BY <2>2, <2>3, FreshEvent
    <2>4. CASE ~In(raw', x) /\ e.path # x
      <3>1. InRaw(x)' <=> InRaw(x)
        BY <1>2, <2>4 DEF InRaw
      <3>2. ~InWatch(x) /\ ~InWatch(x)'
        BY <1>1, <2>4 DEF WatchTake, InWatch, Deletion
      <3>3. EventsTrue(x)'
        BY <1>1, <2>1, <3>1, <3>2 DEF FileTrue, EventsTrue
      <3> QED
        BY <1>1, <2>1, <2>2, <3>1, <3>2, <3>3, OtherFrame DEF InEvents, InSync, InScan
    <2>5. CASE ~In(raw', x) /\ e.path = x
      <3>1. InRaw(x) /\ (e.op = "remove" <=> disk[x] = Absent)
        BY <1>2, <2>1, <2>5 DEF FileTrue, RawTrue, InRaw
      <3>2. x \notin Hidden /\ x \notin dirs
        BY <2>1, <3>1, PathAssumption DEF PipelineInv, HiddenUntracked, TypeOK
      <3>3. InWatch(x)' /\ WatchTrue(x)'
        BY <1>1, <2>1, <2>5, <3>1, <3>2 DEF WatchTake, InWatch, WatchTrue, Deletion
      <3> QED
        BY <2>5, <3>3, InHand DEF InRaw
    <2> QED
      BY <2>3, <2>4, <2>5
  <1> QED
    BY <1>3, <1>4, <1>5 DEF PipelineInv

LEMMA PipelineWatchLoop == TypeOK /\ PipelineInv /\ WatchLoop => PipelineInv'
  <1> SUFFICES ASSUME TypeOK, PipelineInv, WatchLoop PROVE PipelineInv'
    OBVIOUS
  <1> USE DEF UNCHANGED_ByWatch, userVars, syncVars, scanVars, watchVars, bounds
  <1>1. CASE WatchHash
    <2>1. PhaseInv' /\ HiddenUntracked'
      BY <1>1 DEF WatchHash, PipelineInv, PhaseInv, HiddenUntracked, InRaw
    <2>2. ASSUME Active', NEW x \in File \ untracked' PROVE FileTrue(x)'
      <3>1. FileTrue(x) /\ watchEv \in Event
        BY <1>1, <2>2 DEF WatchHash, PipelineInv, Active, TypeOK
      <3>2. RawTrue(x)' /\ (InRaw(x)' <=> InRaw(x))
        BY <1>1, <3>1 DEF WatchHash, FileTrue, RawTrue, InRaw
      <3>3. CASE watchEv.path # x
        <4>1. ~InWatch(x) /\ ~InWatch(x)'
          BY <1>1, <3>1, <3>3 DEF WatchHash, InWatch, Event
        <4>2. EventsTrue(x)'
          BY <1>1, <3>1, <3>2, <4>1 DEF WatchHash, FileTrue, EventsTrue
        <4> QED
          BY <1>1, <3>1, <3>2, <4>1, <4>2, OtherFrame DEF WatchHash, InEvents, InSync, InScan
      <3>4. CASE InRaw(x)
        BY <3>2, <3>4, FreshEvent DEF InRaw
      <3>5. CASE watchEv.path = x /\ ~InRaw(x)
        <4>1. watchEv.stat = disk[x] /\ disk[x] # Absent
          BY <1>1, <3>1, <3>5 DEF WatchHash, FileTrue, WatchTrue, InWatch
        <4>2. InWatch(x)' /\ WatchTrue(x)'
          BY <1>1, <3>1, <3>5, <4>1 DEF WatchHash, InWatch, WatchTrue, Event
        <4> QED
          BY <3>2, <3>5, <4>2, InHand
      <3> QED
        BY <3>3, <3>4, <3>5
    <2> QED
      BY <2>1, <2>2 DEF PipelineInv
  <1>2. CASE WatchSend
    <2>1. /\ events \in Seq(Event) /\ watchEv \in Event /\ events' = Append(events, watchEv)
          /\ watchPc = "send" /\ watchPc' = "idle"
          /\ UNCHANGED <<disk, db, raw, status, syncPc, syncEv, scanPc, scanEv, announced,
                         untracked>>
      BY <1>2 DEF WatchSend, TypeOK
    <2>2. PhaseInv' /\ HiddenUntracked'
      BY <2>1 DEF PipelineInv, PhaseInv, HiddenUntracked, InRaw
    <2>3. ASSUME Active', NEW x \in File \ untracked' PROVE FileTrue(x)'
      <3>1. FileTrue(x)
        BY <2>1, <2>3 DEF PipelineInv, Active
      <3>2. RawTrue(x)' /\ (InRaw(x)' <=> InRaw(x)) /\ ~InWatch(x)'
        BY <2>1, <3>1 DEF FileTrue, RawTrue, InRaw, InWatch
      <3>3. In(events', x) <=> In(events, x) \/ watchEv.path = x
        BY <2>1, AppendIn
      <3>4. ASSUME NEW f, Last(events', x, f)
            PROVE  /\ watchEv.path = x => f = watchEv
                   /\ watchEv.path # x => Last(events, x, f) /\ f \in Range(events)
        BY <2>1, <3>4, AppendLast
      <3>5. CASE InRaw(x)
        BY <3>2, <3>5, FreshEvent DEF InRaw
      <3>6. CASE ~InRaw(x) /\ watchEv.path = x
        <4>1. watchEv.stat = disk[x] /\ watchEv.hash = disk[x]
          BY <2>1, <3>1, <3>6 DEF FileTrue, WatchTrue, InWatch
        <4>2. EventsTrue(x)'
          BY <2>1, <3>4, <3>6, <4>1 DEF EventsTrue
        <4>3. InEvents(x)'
          BY <3>3, <3>6 DEF InEvents
        <4> QED
          BY <3>2, <4>2, <4>3
          DEF FileTrue, WatchTrue, SyncTrue, ScanTrue, RowTrue, MessageTrue, Pending
      <3>7. CASE ~InRaw(x) /\ watchEv.path # x
        <4>1. ~InWatch(x) /\ (InEvents(x)' <=> InEvents(x))
          BY <3>3, <3>7 DEF InWatch, InEvents
        <4>2. EventsTrue(x)'
          BY <2>1, <3>1, <3>2, <3>4, <3>7, <4>1 DEF FileTrue, EventsTrue
        <4> QED
          BY <2>1, <3>1, <3>2, <4>1, <4>2, OtherFrame DEF InSync, InScan
      <3> QED
        BY <3>5, <3>6, <3>7
    <2> QED
      BY <2>2, <2>3 DEF PipelineInv
  <1>3. CASE WatchExit
    BY <1>3 DEF WatchExit, PipelineInv, PhaseInv, HiddenUntracked, InRaw, Active
  <1> QED
    BY <1>1, <1>2, <1>3, PipelineWatchTake DEF WatchLoop

LEMMA PipelineSyncLoop == TypeOK /\ PipelineInv /\ SyncLoop => PipelineInv'
  <1> SUFFICES ASSUME TypeOK, PipelineInv, SyncLoop PROVE PipelineInv'
    OBVIOUS
  <1> USE DEF UNCHANGED_BySync, userVars, watchVars, scanVars, bounds
  <1>0. /\ status \notin {"down", "new", "scan"} /\ scanPc = "done"
        /\ UNCHANGED <<disk, status, raw, watchPc, watchEv, scanPc, scanEv, untracked>>
    BY DEF SyncLoop, SyncReceive, SyncTimeout, SyncStore, SyncAnnounce, PipelineInv, PhaseInv
  <1>1. PhaseInv' /\ HiddenUntracked'
    BY <1>0 DEF PipelineInv, PhaseInv, HiddenUntracked, InRaw
  <1>2. ASSUME Active', NEW x \in File \ untracked'
        PROVE  /\ FileTrue(x) /\ RawTrue(x)' /\ WatchTrue(x)' /\ status = "run"
               /\ InRaw(x)' <=> InRaw(x)
               /\ InWatch(x)' <=> InWatch(x)
               /\ ~InScan(x) /\ ~InScan(x)'
    <2>1. FileTrue(x) /\ status = "run"
      BY <1>0, <1>2 DEF PipelineInv, Active
    <2>2. RawTrue(x)' /\ WatchTrue(x)'
      BY <1>0, <2>1 DEF FileTrue, RawTrue, WatchTrue, InRaw, InWatch
    <2> QED
      BY <1>0, <2>1, <2>2 DEF InRaw, InWatch, InScan
  <1>3. CASE SyncReceive
    <2> DEFINE e == Head(events)
    <2>1. /\ events \in Seq(Event) /\ events # <<>> /\ events' = Tail(events)
          /\ syncEv' = e /\ syncPc = "select" /\ syncPc' = "store"
          /\ UNCHANGED <<db, announced>>
      BY <1>3 DEF SyncReceive, TypeOK
    <2>2. ASSUME Active', NEW x \in File \ untracked' PROVE FileTrue(x)'
      <3>0. /\ FileTrue(x) /\ RawTrue(x)' /\ WatchTrue(x)' /\ ~InScan(x) /\ ~InScan(x)'
            /\ InRaw(x)' <=> InRaw(x)
            /\ InWatch(x)' <=> InWatch(x)
        BY <1>2, <2>2
      <3>1. In(events, x) <=> e.path = x \/ In(events', x)
        BY <2>1, TailIn
      <3>2. ASSUME NEW f, Last(events', x, f) PROVE Last(events, x, f) /\ f \in Range(events)
        BY <2>1, <3>2, TailLast
      <3>3. EventsTrue(x)'
        BY <1>0, <3>0, <3>2 DEF FileTrue, EventsTrue
      <3>4. CASE e.path # x
        <4>1. /\ InEvents(x)' <=> InEvents(x)
              /\ ~InSync(x) /\ ~InSync(x)'
          BY <2>1, <3>1, <3>4 DEF InEvents, InSync
        <4> QED
          BY <1>0, <2>1, <3>0, <3>3, <4>1, OtherFrame
      <3>5. CASE e.path = x
        <4>1. InSync(x)'
          BY <2>1, <3>5 DEF InSync
        <4>2. SyncTrue(x)'
          <5> SUFFICES ASSUME ~InRaw(x), ~InWatch(x), ~In(events', x)
                       PROVE  e.stat = disk[x] /\ e.hash = disk[x]
            BY <1>0, <2>1, <3>0 DEF SyncTrue, InEvents
          <5>1. Last(events, x, e) /\ e \in Range(events)
            BY <2>1, <3>5, HeadLast
          <5> QED
            BY <3>0, <5>1 DEF FileTrue, EventsTrue
        <4> QED
          BY <3>0, <3>3, <4>1, <4>2 DEF FileTrue, ScanTrue, RowTrue, MessageTrue, Pending
      <3> QED
        BY <3>4, <3>5
    <2> QED
      BY <1>1, <2>2 DEF PipelineInv
  <1>4. CASE SyncTimeout
    BY <1>0, <1>1, <1>4 DEF SyncTimeout, PipelineInv, Active
  <1>5. CASE SyncStore
    <2>1. ASSUME Active', NEW x \in File \ untracked' PROVE FileTrue(x)'
      <3>0. /\ FileTrue(x) /\ RawTrue(x)' /\ WatchTrue(x)' /\ ~InScan(x) /\ ~InScan(x)'
            /\ InRaw(x)' <=> InRaw(x)
            /\ InWatch(x)' <=> InWatch(x)
            /\ status = "run"
        BY <1>2, <2>1
      <3>1. /\ db' = [db EXCEPT ![syncEv.path] = RowFrom(syncEv)] /\ db \in [File -> Row]
            /\ syncPc = "store" /\ syncPc' = "announce" /\ syncEv' = syncEv
            /\ events' = events /\ announced' = announced
        BY <1>5, <3>0 DEF SyncStore, TypeOK
      <3>2. EventsTrue(x)' /\ (InEvents(x)' <=> InEvents(x))
        BY <1>0, <3>0, <3>1 DEF FileTrue, EventsTrue, InEvents
      <3>3. CASE syncEv.path # x
        <4>1. ~InSync(x) /\ ~InSync(x)' /\ db'[x] = db[x]
          BY <2>1, <3>1, <3>3 DEF InSync
        <4> QED
          BY <1>0, <3>0, <3>1, <3>2, <4>1, OtherFrame
      <3>4. CASE syncEv.path = x
        <4>1. InSync(x)'
          BY <3>1, <3>4 DEF InSync
        <4>2. SyncTrue(x)'
          BY <1>0, <2>1, <3>0, <3>1, <3>2, <3>4
          DEF FileTrue, SyncTrue, InSync, RowFrom, RowOf
        <4> QED
          BY <3>0, <3>2, <4>1, <4>2 DEF FileTrue, ScanTrue, RowTrue, MessageTrue, Pending
      <3> QED
        BY <3>3, <3>4
    <2> QED
      BY <1>1, <2>1 DEF PipelineInv
  <1>6. CASE SyncAnnounce
    <2>1. ASSUME Active', NEW x \in File \ untracked' PROVE FileTrue(x)'
      <3>0. /\ FileTrue(x) /\ RawTrue(x)' /\ WatchTrue(x)' /\ ~InScan(x) /\ ~InScan(x)'
            /\ InRaw(x)' <=> InRaw(x)
            /\ InWatch(x)' <=> InWatch(x)
        BY <1>2, <2>1
      <3>1. /\ announced' = [announced EXCEPT ![syncEv.path] = MessageFor(syncEv)]
            /\ announced \in [File -> Message \cup {NoMessage}]
            /\ syncPc = "announce" /\ syncPc' \in {"select", "exit"}
            /\ events' = events /\ db' = db
        BY <1>6 DEF SyncAnnounce, LoopAgain, TypeOK
      <3>2. EventsTrue(x)' /\ (InEvents(x)' <=> InEvents(x)) /\ ~InSync(x)'
        BY <1>0, <3>0, <3>1 DEF FileTrue, EventsTrue, InEvents, InSync
      <3>3. CASE syncEv.path # x
        <4>1. ~InSync(x) /\ announced'[x] = announced[x]
          BY <2>1, <3>1, <3>3 DEF InSync
        <4> QED
          BY <1>0, <3>0, <3>1, <3>2, <4>1, OtherFrame
      <3>4. CASE syncEv.path = x
        <4>1. Pending(x)' <=> InRaw(x) \/ InWatch(x) \/ InEvents(x)
          BY <3>0, <3>2 DEF Pending
        <4>2. ~Pending(x)' =>
                 syncEv.stat = disk[x] /\ syncEv.hash = disk[x] /\ db[x] = RowOf(disk[x])
          BY <3>0, <3>1, <3>4, <4>1 DEF FileTrue, SyncTrue, InSync
        <4>3. disk[x] \in State /\ announced'[x] = MessageFor(syncEv)
          BY <2>1, <3>1, <3>4 DEF TypeOK
        <4>4. SyncTrue(x)' /\ ScanTrue(x)'
          BY <3>0, <3>2 DEF SyncTrue, ScanTrue
        <4>5. RowTrue(x)'
          BY <1>0, <3>1, <4>2 DEF RowTrue
        <4>6. MessageTrue(x)'
          <5> SUFFICES ASSUME ~Pending(x)'
                       PROVE  /\ announced'[x].hash = disk[x]
                              /\ announced'[x].content =
                                     (IF disk[x] \in Large THEN Absent ELSE disk[x])
            BY <1>0 DEF MessageTrue
          <5> QED
            BY <3>4, <4>2, <4>3, ContentAssumption DEF MessageFor, State
        <4> QED
          BY <3>0, <3>2, <4>4, <4>5, <4>6 DEF FileTrue
      <3> QED
        BY <3>3, <3>4
    <2> QED
      BY <1>1, <2>1 DEF PipelineInv
  <1> QED
    BY <1>3, <1>4, <1>5, <1>6 DEF SyncLoop

LEMMA PipelineInit == Init => PipelineInv
  <1>1. \A x : ~In(<<>>, x)
    BY DEF In, Range
  <1> QED
    BY <1>1 DEF Init, PipelineInv, PhaseInv, HiddenUntracked, InRaw, Active

-----------------------------------------------------------------------------
(* What follows for every behaviour.                                       *)

\* In every stage between the kernel's queue and the message to the peers,
\* the most recent piece about a tracked file is true to the disk: the
\* inductive invariant of watchLoop, InitialScan and syncLoop together.
THEOREM PipelineCorrect == Spec => []PipelineInv
  <1>1. TypeOK /\ PipelineInv /\ [Next]_vars => PipelineInv'
    <2>1. TypeOK /\ PipelineInv /\ UNCHANGED vars => PipelineInv'
      <3> SUFFICES ASSUME PipelineInv, UNCHANGED vars PROVE PipelineInv'
        OBVIOUS
      <3>1. PhaseInv' /\ HiddenUntracked' /\ (Active' <=> Active)
        BY DEF PipelineInv, PhaseInv, HiddenUntracked, InRaw, Active, vars
      <3>2. ASSUME NEW x, FileTrue(x) PROVE FileTrue(x)'
        <4>1. RawTrue(x)' /\ EventsTrue(x)'
          BY <3>2 DEF FileTrue, RawTrue, EventsTrue, InRaw, InWatch, vars
        <4> QED
          BY <3>2, <4>1, OtherFrame DEF InRaw, InWatch, InEvents, InSync, InScan, vars
      <3> QED
        BY <3>1, <3>2 DEF PipelineInv, vars
    <2> QED
      BY <2>1, PipelineUser, PipelineScan, PipelineWatchLoop, PipelineSyncLoop, PipelineProcess
      DEF Next
  <1> QED
    BY PipelineInit, TypeCorrect, <1>1, PTL DEF Spec

\* Once nothing about a tracked file is on its way, its row is the file's own.
THEOREM IndexCorrect == Spec => []IndexAgrees
  <1>1. PipelineInv => IndexAgrees
    BY DEF PipelineInv, PhaseInv, Active, FileTrue, RowTrue, InScan, IndexAgrees
  <1> QED
    BY PipelineCorrect, <1>1, PTL

\* Once nothing about a tracked file is on its way, the last message about it
\* carries the hash and the content the file has.
THEOREM AnnouncementCorrect == Spec => []AnnouncementAgrees
  <1>1. PipelineInv => AnnouncementAgrees
    BY DEF PipelineInv, Active, FileTrue, MessageTrue, AnnouncementAgrees
  <1> QED
    BY PipelineCorrect, <1>1, PTL
=============================================================================
