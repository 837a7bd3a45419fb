-------------------------- MODULE ConnMonitor_proofs --------------------------
(***************************************************************************)
(* Proofs about ConnMonitor, for every set of devices, every number of     *)
(* retries, of attempts beside each other, of connections and of calls.    *)
(***************************************************************************)
EXTENDS ConnMonitor, TLAPS

-----------------------------------------------------------------------------
(* Type correctness.                                                       *)

LEMMA TypeInit == Init => TypeOK
  <1> SUFFICES ASSUME Init PROVE TypeOK
    OBVIOUS
  <1>1. Idle \in Attempt
    BY MonitorAssumption DEF Idle, Attempt, None
  <1>2. /\ entry \in [Device -> [conn : Conn \cup {None}, stale : BOOLEAN]]
        /\ attempt \in [Device -> [Slot -> Attempt]]
        /\ peer \in [Device -> Conn \cup {None}]
    BY <1>1 DEF Init, NoEntry
  <1>3. made \in 0 .. MaxConns /\ calls \in 0 .. MaxCalls
    BY MonitorAssumption DEF Init
  <1> QED
    BY <1>2, <1>3 DEF Init, TypeOK

\* A connection that is made is the next number, within the bound.
LEMMA MakeType ==
    ASSUME TypeOK, NEW c \in Conn, Make(c)
    PROVE  made' \in 0 .. MaxConns /\ made' = c /\ c = made + 1 /\ made \in Nat
  BY MonitorAssumption DEF TypeOK, Make, Conn

LEMMA CallType ==
    ASSUME TypeOK, Call
    PROVE  calls' \in 0 .. MaxCalls
  BY MonitorAssumption DEF TypeOK, Call

\* The step an attempt takes puts another attempt in its slot.
LEMMA BecomesType ==
    ASSUME TypeOK, NEW d \in Device, NEW s \in Slot, NEW a \in Attempt, Becomes(d, s, a)
    PROVE  attempt' \in [Device -> [Slot -> Attempt]]
  BY DEF TypeOK, Becomes

LEMMA TypeCaller == TypeOK /\ Caller => TypeOK'
  <1> SUFFICES ASSUME TypeOK, Caller PROVE TypeOK'
    OBVIOUS
  <1> USE DEF TypeOK, NoEntry, Fresh, Called, Monitored, None
  <1>1. ASSUME NEW d \in Device, NEW c \in Conn, AddConnection(d, c) PROVE TypeOK'
    BY <1>1, MakeType, CallType DEF AddConnection
  <1>2. ASSUME NEW d \in Device, NEW c \in Conn, UpdatePeer(d, c) PROVE TypeOK'
    BY <1>2, MakeType, CallType DEF UpdatePeer
  <1>3. ASSUME NEW d \in Device, RemoveConnection(d) PROVE TypeOK'
    <2>1. entry[d].conn \in Conn
      BY <1>3 DEF RemoveConnection
    <2> QED
      BY <1>3, <2>1, CallType DEF RemoveConnection
  <1>4. ASSUME NEW d \in Device, UpdateActivity(d) PROVE TypeOK'
    BY <1>4, CallType DEF UpdateActivity
  <1>5. CASE StopNetwork
    BY <1>5, CallType DEF StopNetwork
  <1>6. CASE Close
    <2>1. \A d \in Monitored : entry[d].conn \in Conn
      OBVIOUS
    <2> QED
      BY <1>6, <2>1, CallType DEF Close
  <1> QED
    BY <1>1, <1>2, <1>3, <1>4, <1>5, <1>6 DEF Caller

LEMMA TypeCheck == ASSUME TypeOK, NEW answers, Check(answers) PROVE TypeOK'
  <1> USE DEF TypeOK
  <1>1. Starting \in Attempt
    BY MonitorAssumption DEF Starting, Attempt, None
  <1>2. \A d \in Device : Free(d) # {} => (CHOOSE s \in Free(d) : TRUE) \in Slot
    BY DEF Free
  <1>3. attempt' \in [Device -> [Slot -> Attempt]]
    BY <1>1, <1>2 DEF Check
  <1>4. history' \in [Device -> {"new", "alone", "crossed"}]
    BY DEF Check
  <1> QED
    BY <1>3, <1>4 DEF Check

LEMMA TypeReconnect ==
    ASSUME TypeOK, NEW d \in Device, NEW s \in Slot, Reconnect(d, s)
    PROVE  TypeOK'
  <1> DEFINE a == attempt[d][s]
  <1>0. a \in Attempt /\ Idle \in Attempt
    BY MonitorAssumption DEF TypeOK, Idle, Attempt, None
  <1> USE DEF Attempt, Idle, None
  <1>1. CASE DialFails(d, s)
    <2> DEFINE b == IF a.try + 1 = MaxRetries THEN [Idle EXCEPT !.pc = "giveup"]
                                             ELSE [a EXCEPT !.try = @ + 1]
    <2>1. b \in Attempt
      BY <1>0, MonitorAssumption
    <2>2. Becomes(d, s, b)
      BY <1>1 DEF DialFails
    <2> HIDE DEF b
    <2>3. attempt' \in [Device -> [Slot -> Attempt]]
      BY <2>1, <2>2, BecomesType
    <2> QED
      BY <1>1, <2>3 DEF DialFails, TypeOK
  <1>2. ASSUME NEW c \in Conn, DialSucceeds(d, s, c) PROVE TypeOK'
    <2>1. [Idle EXCEPT !.pc = "install", !.conn = c] \in Attempt
      BY <1>0
    <2>2. attempt' \in [Device -> [Slot -> Attempt]]
      BY <1>2, <2>1, BecomesType DEF DialSucceeds
    <2> QED
      BY <1>2, <2>2, MakeType DEF DialSucceeds, TypeOK
  <1>3. CASE Install(d, s)
    <2>1. [a EXCEPT !.pc = "notify"] \in Attempt
      BY <1>0
    <2>2. attempt' \in [Device -> [Slot -> Attempt]]
      BY <1>3, <2>1, BecomesType DEF Install
    <2>3. d \in Monitored => entry[d].conn \in Conn
      BY DEF TypeOK, Monitored
    <2> QED
      BY <1>0, <1>3, <2>2, <2>3 DEF Install, TypeOK, Fresh
  <1>4. CASE Notify(d, s)
    <2>1. attempt' \in [Device -> [Slot -> Attempt]]
      BY <1>0, <1>4, BecomesType DEF Notify
    <2> QED
      BY <1>0, <1>4, <2>1 DEF Notify, TypeOK
  <1>5. CASE GiveUp(d, s)
    <2>1. [Idle EXCEPT !.pc = "report"] \in Attempt
      BY <1>0
    <2>2. attempt' \in [Device -> [Slot -> Attempt]]
      BY <1>5, <2>1, BecomesType DEF GiveUp
    <2> QED
      BY <1>5, <2>2 DEF GiveUp, TypeOK, NoEntry
  <1>6. CASE Report(d, s)
    <2>1. attempt' \in [Device -> [Slot -> Attempt]]
      BY <1>0, <1>6, BecomesType DEF Report
    <2> QED
      BY <1>6, <2>1 DEF Report, TypeOK
  <1> QED
    BY <1>1, <1>2, <1>3, <1>4, <1>5, <1>6 DEF Reconnect

\* Every reachable state is well typed: attempts count their dials below the
\* limit, and nobody holds a connection nobody has made.
THEOREM MonitorTypeCorrect == Spec => []TypeOK
  <1>1. TypeOK /\ [Next]_vars => TypeOK'
    <2> SUFFICES ASSUME TypeOK, [Next]_vars PROVE TypeOK'
      OBVIOUS
    <2>1. CASE Environment
      BY <2>1 DEF Environment, GrowStale, Break, TypeOK
    <2>2. CASE LoopExit
      BY <2>2 DEF LoopExit, TypeOK
    <2>3. CASE UNCHANGED vars
      BY <2>3 DEF vars, TypeOK
    <2> QED
      BY <2>1, <2>2, <2>3, TypeCaller, TypeCheck, TypeReconnect DEF Next, Checking
  <1> QED
    BY TypeInit, <1>1, PTL DEF Spec

-----------------------------------------------------------------------------
(* Every connection has one holder.                                        *)

\* A new number is in nobody's hands yet (AddConnection, DialSucceeds).
LEMMA NewIsNobodys ==
    ASSUME TypeOK, ConnInv, NEW c \in Conn, Make(c)
    PROVE  /\ c \in 1 .. made' /\ made' = made + 1 /\ c \notin closed
           /\ \A d \in Device : entry[d].conn # c /\ entry[d].conn <= made'
           /\ \A d \in Device, s \in Slot : Carries(d, s) => attempt[d][s].conn # c
           /\ closed \subseteq 1 .. made'
           /\ \A n \in 1 .. made : n \in 1 .. made'
  <1>1. made' = c /\ c = made + 1 /\ made \in Nat
    BY MakeType
  <1>2. \A d \in Device : entry[d].conn \in Nat
    BY DEF TypeOK, Conn, None
  <1> QED
    BY <1>1, <1>2 DEF ConnInv, Conn

\* Nothing changes for the attempts while attempts, entries, closed
\* connections and their number stay what they are.
LEMMA ConnFrame ==
    ASSUME ConnInv, UNCHANGED <<attempt, made, closed>>,
           \A d \in Device : entry'[d].conn = entry[d].conn
    PROVE  ConnInv'
  BY DEF ConnInv, HoldsItsOwn, Monitored, Carries

\* An entry that goes, its connection closed or not, harms no other.
LEMMA ConnRemove ==
    ASSUME TypeOK, ConnInv, UNCHANGED <<attempt, made>>,
           \A d \in Device : entry'[d].conn \in {entry[d].conn, None},
           \A c \in closed' : \/ c \in closed
                              \/ \E d \in Monitored : c = entry[d].conn /\ entry'[d].conn = None
    PROVE  ConnInv'
  <1>1. made \in Nat /\ \A d \in Device : entry[d].conn \in Nat
    BY DEF TypeOK, Conn, None
  <1>2. closed' \subseteq 1 .. made' /\ \A d \in Device : entry'[d].conn <= made'
    <2>1. \A d \in Monitored : entry[d].conn \in 1 .. made
      BY <1>1 DEF ConnInv, Monitored, None
    <2>2. closed' \subseteq 1 .. made
      <3>1. closed \subseteq 1 .. made
        BY DEF ConnInv
      <3> QED
        BY <2>1, <3>1
    <2>3. \A d \in Device : entry'[d].conn <= made
      BY <1>1 DEF ConnInv, None
    <2> QED
      BY <2>2, <2>3
  <1>3. HoldsItsOwn'
    BY DEF ConnInv, HoldsItsOwn, Monitored, None
  <1>4. ASSUME NEW d \in Device, NEW s \in Slot, Carries(d, s)'
        PROVE  /\ attempt'[d][s].conn \in 1 .. made'
               /\ attempt'[d][s].conn \notin closed'
               /\ \A e \in Device : entry'[e].conn # attempt'[d][s].conn
               /\ \A e \in Device, t \in Slot :
                     Carries(e, t)' /\ attempt'[e][t].conn = attempt'[d][s].conn
                        => e = d /\ t = s
    BY <1>1, <1>4 DEF ConnInv, Carries, Monitored, None
  <1> QED
    BY <1>2, <1>3, <1>4 DEF ConnInv

\* An attempt that carries nothing after its step leaves the others alone.
LEMMA ConnStep ==
    ASSUME TypeOK, ConnInv, NEW d \in Device, NEW s \in Slot, NEW a \in Attempt,
           Becomes(d, s, a), a.pc # "install", UNCHANGED <<made, closed>>,
           \A e \in Device : entry'[e].conn \in {entry[e].conn, None}
    PROVE  ConnInv'
  <1>1. \A e \in Device, t \in Slot : Carries(e, t)' =>
            Carries(e, t) /\ attempt'[e][t] = attempt[e][t]
    BY DEF Becomes, Carries, TypeOK
  <1>2. made \in Nat /\ \A e \in Device : entry[e].conn \in Nat
    BY DEF TypeOK, Conn, None
  <1>3. closed' \subseteq 1 .. made' /\ \A e \in Device : entry'[e].conn <= made'
    BY <1>2 DEF ConnInv, None
  <1>4. HoldsItsOwn'
    BY DEF ConnInv, HoldsItsOwn, Monitored, None
  <1>5. \A e \in Device, t \in Slot : Carries(e, t)' =>
          /\ attempt'[e][t].conn \in 1 .. made'
          /\ attempt'[e][t].conn \notin closed'
          /\ \A x \in Device : entry'[x].conn # attempt'[e][t].conn
    BY <1>1, <1>2 DEF ConnInv, None
  <1>6. \A e, x \in Device, t, u \in Slot :
          Carries(e, t)' /\ Carries(x, u)' /\ attempt'[x][u].conn = attempt'[e][t].conn
             => x = e /\ u = t
    BY <1>1 DEF ConnInv
  <1> QED
    BY <1>3, <1>4, <1>5, <1>6 DEF ConnInv

LEMMA ConnCaller == TypeOK /\ ConnInv /\ Caller => ConnInv'
  <1> SUFFICES ASSUME TypeOK, ConnInv, Caller PROVE ConnInv'
    OBVIOUS
  <1>1. ASSUME NEW d \in Device, NEW c \in Conn, AddConnection(d, c) PROVE ConnInv'
    <2>1. /\ entry' = [entry EXCEPT ![d] = Fresh(c)] /\ Make(c)
          /\ attempt' = attempt /\ closed' = closed /\ entry'[d].conn = c
          /\ \A e \in Device \ {d} : entry'[e] = entry[e]
      BY <1>1 DEF AddConnection, TypeOK, Fresh
    <2>2. closed' \subseteq 1 .. made' /\ \A e \in Device : entry'[e].conn <= made'
      BY <2>1, NewIsNobodys, MakeType
    <2>3. HoldsItsOwn'
      BY <2>1, NewIsNobodys DEF ConnInv, HoldsItsOwn, Monitored
    <2>4. \A e \in Device, t \in Slot : Carries(e, t)' =>
            /\ attempt'[e][t].conn \in 1 .. made'
            /\ attempt'[e][t].conn \notin closed'
            /\ \A x \in Device : entry'[x].conn # attempt'[e][t].conn
      BY <2>1, NewIsNobodys DEF ConnInv, Carries
    <2>5. \A e, x \in Device, t, u \in Slot :
            Carries(e, t)' /\ Carries(x, u)' /\ attempt'[x][u].conn = attempt'[e][t].conn
               => x = e /\ u = t
      BY <2>1 DEF ConnInv, Carries
    <2> QED
      BY <2>2, <2>3, <2>4, <2>5 DEF ConnInv
  <1>2. ASSUME NEW d \in Device, NEW c \in Conn, UpdatePeer(d, c) PROVE ConnInv'
    <2>1. UNCHANGED <<entry, attempt, closed>> /\ Make(c)
      BY <1>2 DEF UpdatePeer
    <2>2. made \in Nat /\ made' = made + 1
      BY <2>1, MakeType
    <2>3. \A e \in Device : entry[e].conn \in Nat
      BY DEF TypeOK, Conn, None
    <2> QED
      BY <2>1, <2>2, <2>3 DEF ConnInv, HoldsItsOwn, Monitored, Carries
  <1>3. ASSUME NEW d \in Device, RemoveConnection(d) PROVE ConnInv'
    <2>1. \A e \in Device : entry'[e].conn = IF e = d THEN None ELSE entry[e].conn
      BY <1>3 DEF RemoveConnection, TypeOK, NoEntry
    <2> QED
      BY <1>3, <2>1, ConnRemove DEF RemoveConnection
  <1>4. ASSUME NEW d \in Device, UpdateActivity(d) PROVE ConnInv'
    <2>1. \A e \in Device : entry'[e].conn = entry[e].conn
      BY <1>4 DEF UpdateActivity, TypeOK
    <2> QED
      BY <1>4, <2>1, ConnFrame DEF UpdateActivity
  <1>5. CASE StopNetwork
    BY <1>5, ConnFrame DEF StopNetwork
  <1>6. CASE Close
    <2>1. \A e \in Device : entry'[e].conn = None
      BY <1>6 DEF Close, NoEntry
    <2>2. \A c \in closed' : c \in closed \/ \E e \in Monitored : c = entry[e].conn
      BY <1>6 DEF Close
    <2>3. \A e \in Monitored : e \in Device
      BY DEF Monitored
    <2> QED
      BY <1>6, <2>1, <2>2, <2>3, ConnRemove DEF Close
  <1> QED
    BY <1>1, <1>2, <1>3, <1>4, <1>5, <1>6 DEF Caller

LEMMA ConnCheck ==
    ASSUME TypeOK, ConnInv, NEW answers, Check(answers)
    PROVE  ConnInv'
  <1>1. \A d \in Device, s \in Slot : Carries(d, s)' =>
            Carries(d, s) /\ attempt'[d][s] = attempt[d][s]
    BY DEF Check, Carries, TypeOK, Starting
  <1>2. UNCHANGED <<entry, made, closed>>
    BY DEF Check
  <1> QED
    BY <1>1, <1>2 DEF ConnInv, HoldsItsOwn, Monitored

LEMMA ConnReconnect ==
    ASSUME TypeOK, ConnInv, NEW d \in Device, NEW s \in Slot, Reconnect(d, s)
    PROVE  ConnInv'
  <1> DEFINE a == attempt[d][s]
  <1>0. a \in Attempt /\ Idle \in Attempt /\ Idle.pc # "install"
    BY MonitorAssumption DEF TypeOK, Idle, Attempt, None
  <1>1. CASE DialFails(d, s)
    <2> DEFINE b == IF a.try + 1 = MaxRetries THEN [Idle EXCEPT !.pc = "giveup"]
                                             ELSE [a EXCEPT !.try = @ + 1]
    <2>1. b \in Attempt /\ b.pc # "install"
      BY <1>0, <1>1, MonitorAssumption DEF Attempt, Idle, DialFails
    <2>2. Becomes(d, s, b)
      BY <1>1 DEF DialFails
    <2> HIDE DEF b
    <2> QED
      BY <1>1, <2>1, <2>2, ConnStep DEF DialFails
  <1>2. ASSUME NEW c \in Conn, DialSucceeds(d, s, c) PROVE ConnInv'
    <2>1. /\ Make(c) /\ entry' = entry /\ closed' = closed
          /\ attempt'[d][s].conn = c
          /\ \A e \in Device, t \in Slot : e # d \/ t # s => attempt'[e][t] = attempt[e][t]
      BY <1>0, <1>2 DEF DialSucceeds, Becomes, TypeOK, Idle
    <2>2. \A e \in Device, t \in Slot : Carries(e, t)' =>
            /\ attempt'[e][t].conn \in 1 .. made'
            /\ attempt'[e][t].conn \notin closed'
            /\ \A x \in Device : entry'[x].conn # attempt'[e][t].conn
      BY <2>1, NewIsNobodys DEF ConnInv, Carries
    <2>3. \A e, x \in Device, t, u \in Slot :
            Carries(e, t)' /\ Carries(x, u)' /\ attempt'[x][u].conn = attempt'[e][t].conn
               => x = e /\ u = t
      BY <2>1, NewIsNobodys DEF ConnInv, Carries
    <2>4. closed' \subseteq 1 .. made' /\ \A e \in Device : entry'[e].conn <= made'
      BY <2>1, NewIsNobodys
    <2>5. HoldsItsOwn'
      BY <2>1 DEF ConnInv, HoldsItsOwn, Monitored
    <2> QED
      BY <2>2, <2>3, <2>4, <2>5 DEF ConnInv
  <1>3. CASE Install(d, s)
    <2>1. /\ made' = made /\ Carries(d, s) /\ ~Carries(d, s)'
          /\ \A e \in Device, t \in Slot : e # d \/ t # s => attempt'[e][t] = attempt[e][t]
      BY <1>0, <1>3 DEF Install, Becomes, TypeOK, Carries
    <2>2. CASE d \notin Monitored
      <3>1. [a EXCEPT !.pc = "notify"] \in Attempt
        BY <1>0 DEF Attempt
      <3>2. closed' = closed /\ \A e \in Device : entry'[e].conn = entry[e].conn
        BY <1>3, <2>2 DEF Install, TypeOK
      <3> QED
        BY <1>3, <3>1, <3>2, <2>1, ConnStep DEF Install, Attempt
    <2>3. CASE d \in Monitored
      <3>1. /\ closed' = closed \cup {entry[d].conn} /\ entry'[d].conn = a.conn
            /\ \A e \in Device \ {d} : entry'[e] = entry[e]
        BY <1>3, <2>3 DEF Install, TypeOK, Fresh
      <3>2. /\ made \in Nat /\ entry[d].conn \in 1 .. made /\ a.conn \in 1 .. made
            /\ a.conn \notin closed /\ \A e \in Device : entry[e].conn # a.conn
        BY <2>1, <2>3 DEF TypeOK, ConnInv, Conn, None, Monitored
      <3>3. closed' \subseteq 1 .. made' /\ \A e \in Device : entry'[e].conn <= made'
        <4>1. \A e \in Device : entry'[e].conn \in {a.conn, entry[e].conn}
          BY <3>1
        <4>2. \A e \in Device : entry'[e].conn <= made
          BY <3>2, <4>1 DEF ConnInv
        <4> QED
          BY <2>1, <3>1, <3>2, <4>2 DEF ConnInv
      <3>4. HoldsItsOwn'
        BY <2>3, <3>1, <3>2 DEF ConnInv, HoldsItsOwn, Monitored
      <3>5. \A e \in Device, t \in Slot : Carries(e, t)' =>
              /\ attempt'[e][t].conn \in 1 .. made'
              /\ attempt'[e][t].conn \notin closed'
              /\ \A x \in Device : entry'[x].conn # attempt'[e][t].conn
        <4> SUFFICES ASSUME NEW e \in Device, NEW t \in Slot, Carries(e, t)'
                     PROVE  /\ attempt'[e][t].conn \in 1 .. made'
                            /\ attempt'[e][t].conn \notin closed'
                            /\ \A x \in Device : entry'[x].conn # attempt'[e][t].conn
          OBVIOUS
        <4>1. Carries(e, t) /\ attempt'[e][t] = attempt[e][t] /\ (e # d \/ t # s)
          BY <2>1 DEF Carries
        <4>2. attempt[e][t].conn # a.conn
          BY <2>1, <4>1 DEF ConnInv
        <4> QED
          BY <2>1, <3>1, <4>1, <4>2 DEF ConnInv
      <3>6. \A e, x \in Device, t, u \in Slot :
              Carries(e, t)' /\ Carries(x, u)' /\ attempt'[x][u].conn = attempt'[e][t].conn
                 => x = e /\ u = t
        BY <2>1 DEF ConnInv, Carries
      <3> QED
        BY <3>3, <3>4, <3>5, <3>6 DEF ConnInv
    <2> QED
      BY <2>2, <2>3
  <1>4. CASE Notify(d, s) \/ Report(d, s)
    BY <1>0, <1>4, ConnStep DEF Notify, Report
  <1>5. CASE GiveUp(d, s)
    <2>1. [Idle EXCEPT !.pc = "report"] \in Attempt /\ [Idle EXCEPT !.pc = "report"].pc # "install"
      BY <1>0 DEF Attempt, Idle
    <2>2. \A e \in Device : entry'[e].conn \in {entry[e].conn, None}
      BY <1>5 DEF GiveUp, TypeOK, NoEntry
    <2> QED
      BY <1>5, <2>1, <2>2, ConnStep DEF GiveUp
  <1> QED
    BY <1>1, <1>2, <1>3, <1>4, <1>5 DEF Reconnect

\* However many attempts run beside each other, a connection that one of them
\* has dialled is in nobody else's hands until it is the entry's.
THEOREM ConnCorrect == Spec => []ConnInv
  <1>1. Init => ConnInv
    BY DEF Init, ConnInv, HoldsItsOwn, Monitored, Carries, NoEntry, Idle, None
  <1>2. TypeOK /\ ConnInv /\ [Next]_vars => ConnInv'
    <2> SUFFICES ASSUME TypeOK, ConnInv, [Next]_vars PROVE ConnInv'
      OBVIOUS
    <2>1. ASSUME NEW d \in Device, GrowStale(d) PROVE ConnInv'
      <3>1. \A e \in Device : entry'[e].conn = entry[e].conn
        BY <2>1 DEF GrowStale, TypeOK
      <3> QED
        BY <2>1, <3>1, ConnFrame DEF GrowStale
    <2>2. ASSUME NEW c, Break(c) PROVE ConnInv'
      BY <2>2, ConnFrame DEF Break
    <2>3. CASE LoopExit \/ UNCHANGED vars
      BY <2>3, ConnFrame DEF LoopExit, vars
    <2> QED
      BY <2>1, <2>2, <2>3, ConnCaller, ConnCheck, ConnReconnect
      DEF Next, Environment, Checking
  <1> QED
    BY <1>1, <1>2, MonitorTypeCorrect, PTL DEF Spec

\* The monitor never keeps a connection it has closed, nor one for two devices.
THEOREM HoldsItsOwnCorrect == Spec => []HoldsItsOwn
  <1>1. ConnInv => HoldsItsOwn
    BY DEF ConnInv
  <1> QED
    BY ConnCorrect, <1>1, PTL

-----------------------------------------------------------------------------
(* The peers map follows the monitor's.                                    *)

Working(d, s) == attempt[d][s].pc # "idle"

\* PeersFollow speaks of a device at rest.  Before that its only attempt has
\* an entry to work on, and when it calls back the entry has its connection.
Follows(d) ==
    /\ history[d] = "new" => ~InFlight(d)
    /\ history[d] = "alone" =>
          /\ \A s, t \in Slot : Working(d, s) /\ Working(d, t) => s = t
          /\ \A s \in Slot :
                /\ attempt[d][s].pc \in {"dial", "install", "giveup"} => d \in Monitored
                /\ attempt[d][s].pc = "notify" => entry[d].conn = attempt[d][s].conn
          /\ ~InFlight(d) => peer[d] \in {None, entry[d].conn}

FollowInv == \A d \in Device : Follows(d)

\* A device that a step does not concern, or whose attempts have met.
LEMMA FollowFrame ==
    ASSUME NEW d \in Device, Follows(d),
           \/ /\ attempt'[d] = attempt[d] /\ entry'[d].conn = entry[d].conn
              /\ peer'[d] = peer[d] /\ history'[d] = history[d]
           \/ history'[d] = "crossed"
           \/ attempt'[d] = attempt[d] /\ history'[d] = "new" /\ history[d] = "new"
    PROVE  Follows(d)'
  BY DEF Follows, Working, InFlight, Monitored

\* What a caller touches is new, or has met from now on.
LEMMA FollowCaller == TypeOK /\ FollowInv /\ Caller => FollowInv'
  <1> SUFFICES ASSUME TypeOK, FollowInv, Caller, NEW d \in Device PROVE Follows(d)'
    BY DEF FollowInv
  <1>0. Follows(d) /\ history[d] \in {"new", "alone", "crossed"}
    BY DEF FollowInv, TypeOK
  <1>1. attempt' = attempt
    BY DEF Caller, AddConnection, UpdatePeer, RemoveConnection, UpdateActivity, StopNetwork, Close
  <1>2. ASSUME NEW ds \in SUBSET Device, Called(ds), d \in ds PROVE Follows(d)'
    <2>1. history'[d] \in {"crossed", history[d]} /\ (history'[d] # "crossed" => history[d] = "new")
      BY <1>0, <1>2 DEF Called
    <2> QED
      BY <1>0, <1>1, <2>1, FollowFrame
  <1>3. ASSUME NEW e \in Device, Called({e}), e # d,
               entry'[d] = entry[d], peer'[d] = peer[d]
        PROVE  Follows(d)'
    <2>1. history'[d] = history[d]
      BY <1>3 DEF Called
    <2> QED
      BY <1>0, <1>1, <1>3, <2>1, FollowFrame
  <1>4. ASSUME NEW e \in Device, NEW c \in Conn,
               AddConnection(e, c) \/ UpdatePeer(e, c) \/ RemoveConnection(e)
        PROVE  Follows(d)'
    <2>1. Called({e}) /\ (e # d => entry'[d] = entry[d] /\ peer'[d] = peer[d])
      BY <1>4 DEF AddConnection, UpdatePeer, RemoveConnection, TypeOK
    <2> QED
      BY <1>2, <1>3, <2>1
  <1>5. ASSUME NEW e \in Device, RemoveConnection(e) PROVE Follows(d)'
    <2>1. Called({e}) /\ (e # d => entry'[d] = entry[d] /\ peer'[d] = peer[d])
      BY <1>5 DEF RemoveConnection, TypeOK
    <2> QED
      BY <1>2, <1>3, <2>1
  <1>6. ASSUME NEW e \in Device, UpdateActivity(e) PROVE Follows(d)'
    <2>1. entry'[d].conn = entry[d].conn /\ peer' = peer /\ history' = history
      BY <1>6 DEF UpdateActivity, TypeOK
    <2> QED
      BY <1>0, <1>1, <2>1, FollowFrame
  <1>7. CASE StopNetwork
    BY <1>0, <1>1, <1>7, FollowFrame DEF StopNetwork
  <1>8. CASE Close
    BY <1>2, <1>8 DEF Close
  <1> QED
    BY <1>4, <1>5, <1>6, <1>7, <1>8 DEF Caller

\* A check starts an attempt on a device that has an entry.
LEMMA FollowCheck ==
    ASSUME TypeOK, FollowInv, NEW answers, Check(answers)
    PROVE  FollowInv'
  <1> SUFFICES ASSUME NEW d \in Device PROVE Follows(d)'
    BY DEF FollowInv
  <1> DEFINE failing == {e \in Monitored : entry[e].stale} \ answers
             s == CHOOSE x \in Free(d) : TRUE
  <1>0. Follows(d) /\ UNCHANGED <<entry, peer>>
    BY DEF FollowInv, Check
  <1>1. CASE d \notin failing
    <2>1. attempt' = [e \in Device |->
             IF e \in failing
               THEN [attempt[e] EXCEPT ![CHOOSE x \in Free(e) : TRUE] = Starting]
               ELSE attempt[e]]
      BY DEF Check
    <2>2. history' = [e \in Device |->
             IF e \notin failing THEN history[e]
             ELSE IF history[e] = "new" THEN "alone"
             ELSE IF InFlight(e) THEN "crossed" ELSE history[e]]
      BY DEF Check
    <2> HIDE DEF failing
    <2>3. attempt'[d] = attempt[d]
      BY <1>1, <2>1
    <2>4. history'[d] = history[d]
      BY <1>1, <2>2
    <2> QED
      BY <1>0, <2>3, <2>4, FollowFrame
  <1>2. CASE d \in failing /\ history[d] # "new" /\ (InFlight(d) \/ history[d] = "crossed")
    <2>1. history'[d] = "crossed"
      BY <1>2 DEF Check
    <2> QED
      BY <1>0, <2>1, FollowFrame
  <1>3. CASE d \in failing /\ ~InFlight(d)
    <2>1. s \in Slot /\ d \in Monitored
      BY <1>3 DEF Check, Free
    <2>2. attempt'[d] = [attempt[d] EXCEPT ![s] = Starting] /\ history'[d] # "new"
      BY <1>3 DEF Check
    <2> HIDE DEF s
    <2>3. attempt'[d][s] = Starting /\ \A t \in Slot : t # s => attempt'[d][t].pc = "idle"
      BY <1>3, <2>1, <2>2 DEF TypeOK, InFlight
    <2>4. InFlight(d)' /\ \A t \in Slot : Working(d, t)' => t = s
      BY <2>1, <2>3 DEF InFlight, Working, Starting
    <2>5. (d \in Monitored)' /\ \A t \in Slot : attempt'[d][t].pc # "notify"
      BY <1>0, <2>1, <2>3 DEF Monitored, Starting
    <2> QED
      BY <2>2, <2>4, <2>5 DEF Follows
  <1>4. history[d] \in {"new", "alone", "crossed"} /\ (history[d] = "new" => ~InFlight(d))
    BY <1>0 DEF TypeOK, Follows
  <1> QED
    BY <1>1, <1>2, <1>3, <1>4

LEMMA FollowReconnect ==
    ASSUME TypeOK, FollowInv, NEW d \in Device, NEW s \in Slot, Reconnect(d, s)
    PROVE  FollowInv'
  <1> SUFFICES ASSUME NEW e \in Device PROVE Follows(e)'
    BY DEF FollowInv
  <1> USE DEF Reconnect, DialFails, DialSucceeds, Install, Notify, GiveUp, Report, Becomes
  <1>0. Follows(e) /\ history' = history
    BY DEF FollowInv
  <1>1. CASE e # d
    <2>1. attempt'[e] = attempt[e] /\ entry'[e] = entry[e] /\ peer'[e] = peer[e]
      BY <1>1 DEF TypeOK
    <2> QED
      BY <1>0, <2>1, FollowFrame
  <1>2. CASE e = d /\ history[d] = "alone"
    <2>a. Working(d, s)
      BY DEF Working
    <2>b. \A t \in Slot : t # s => attempt'[d][t] = attempt[d][t]
      <3>1. PICK a : attempt' = [attempt EXCEPT ![d][s] = a]
        OBVIOUS
      <3> QED
        BY <3>1 DEF TypeOK
    <2>2. \A t \in Slot : t # s => attempt'[d][t].pc = "idle"
      BY <1>0, <1>2, <2>a, <2>b DEF Follows, Working
    <2>3. CASE DialFails(d, s) \/ \E c \in Conn : DialSucceeds(d, s, c)
      <3>1. d \in Monitored /\ entry' = entry
        BY <1>0, <1>2, <2>3 DEF Follows
      <3>2. attempt'[d][s].pc \in {"dial", "install", "giveup"}
        <4>1. CASE DialFails(d, s)
          BY <4>1 DEF TypeOK, Idle, Attempt
        <4>2. ASSUME NEW c \in Conn, DialSucceeds(d, s, c)
              PROVE  attempt'[d][s].pc = "install"
          BY <4>2 DEF TypeOK, Idle
        <4> QED
          BY <2>3, <4>1, <4>2
      <3> QED
        BY <1>0, <1>2, <2>2, <3>1, <3>2 DEF Follows, Working, InFlight, Monitored
    <2>4. CASE Install(d, s)
      <3>1. d \in Monitored
        BY <1>0, <1>2, <2>4 DEF Follows
      <3>2. /\ attempt'[d][s].pc = "notify" /\ attempt'[d][s].conn = attempt[d][s].conn
            /\ entry'[d].conn = attempt[d][s].conn
        BY <2>4, <3>1 DEF TypeOK, Attempt, Fresh
      <3> QED
        BY <1>2, <2>2, <3>2 DEF Follows, Working, InFlight
    <2>5. CASE Notify(d, s)
      <3>1. attempt'[d][s].pc = "idle" /\ peer'[d] \in {None, entry'[d].conn}
        BY <1>0, <1>2, <2>5 DEF TypeOK, Follows, Idle
      <3> QED
        BY <1>2, <2>2, <3>1 DEF Follows, Working, InFlight
    <2>6. CASE GiveUp(d, s)
      <3>1. attempt'[d][s].pc = "report"
        BY <2>6 DEF TypeOK, Idle
      <3> QED
        BY <1>2, <2>2, <3>1 DEF Follows, Working, InFlight
    <2>7. CASE Report(d, s)
      <3>1. attempt'[d][s].pc = "idle" /\ peer'[d] = None
        BY <2>7 DEF TypeOK, Idle
      <3> QED
        BY <1>2, <2>2, <3>1 DEF Follows, Working, InFlight
    <2> QED
      BY <2>3, <2>4, <2>5, <2>6, <2>7
  <1>3. CASE e = d /\ history[d] = "crossed"
    BY <1>0, <1>3, FollowFrame
  <1>4. history[d] \in {"new", "alone", "crossed"} /\ (e = d => history[d] # "new")
    BY <1>0 DEF TypeOK, Follows, InFlight
  <1> QED
    BY <1>1, <1>2, <1>3, <1>4

\* Unless its attempts met or somebody else changed either map, a device that
\* is at rest has in the peers map what the monitor has for it, or nothing,
\* for every number of devices and whatever the others do.
THEOREM PeersFollowCorrect == Spec => []PeersFollow
  <1>1. Init => FollowInv
    BY DEF Init, FollowInv, Follows, InFlight, Idle
  <1>2. TypeOK /\ FollowInv /\ [Next]_vars => FollowInv'
    <2> SUFFICES ASSUME TypeOK, FollowInv, [Next]_vars PROVE FollowInv'
      OBVIOUS
    <2>1. CASE Environment \/ LoopExit \/ UNCHANGED vars
      <3> SUFFICES ASSUME NEW d \in Device PROVE Follows(d)'
        BY DEF FollowInv
      <3>1. /\ attempt' = attempt /\ peer' = peer /\ history' = history
            /\ entry'[d].conn = entry[d].conn
        BY <2>1 DEF Environment, GrowStale, Break, LoopExit, vars, TypeOK
      <3> QED
        BY <3>1, FollowFrame DEF FollowInv
    <2> QED
      BY <2>1, FollowCaller, FollowCheck, FollowReconnect DEF Next, Checking
  <1>3. FollowInv => PeersFollow
    BY DEF FollowInv, Follows, PeersFollow
  <1> QED
    BY <1>1, <1>2, <1>3, MonitorTypeCorrect, PTL DEF Spec
=============================================================================
