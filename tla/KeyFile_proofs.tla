---------------------------- MODULE KeyFile_proofs ----------------------------
(* Proofs about KeyFile, for every set of processes and number of starts.    *)
EXTENDS KeyFile, TLAPS

\* Every step of KeyFile keeps the types and bounds of its state.
THEOREM KeyTypeCorrect == Spec => []TypeOK
<1>1. Init => TypeOK
  <2> SUFFICES ASSUME Init PROVE TypeOK
    OBVIOUS
  <2> USE DEF Init
  <2>1. starts \in 0 .. MaxStarts
    BY StartsAssumption DEF StartsAssumption
  <2>2. pc \in [Process -> {"down", "load", "truncate", "fill", "up"}]
    OBVIOUS
  <2>3. key \in [Process -> Key \cup {NoKey}]
    OBVIOUS
  <2> QED
    BY <2>1, <2>2, <2>3 DEF TypeOK
<1>2. TypeOK /\ [Next]_vars => TypeOK'
  <2> SUFFICES ASSUME TypeOK, [Next]_vars PROVE TypeOK'
    OBVIOUS
  <2> USE StartsAssumption DEF StartsAssumption, TypeOK, Key, NoKey
  <2>1. CASE UNCHANGED vars
    BY <2>1 DEF vars
  <2>2. CASE Next
    <3> PICK p \in Process :
          \/ Start(p) \/ Load(p) \/ Make(p) \/ RefuseShort(p)
          \/ Truncate(p) \/ Fill(p) \/ WriteFails(p) \/ Exit(p)
          \/ GeneratePairData(p) \/ RunPair(p)
      BY <2>2 DEF Next
    <3>1. CASE Start(p)
      BY <3>1 DEF Start, Goes
    <3>2. CASE Load(p)
      BY <3>2 DEF Load, Goes, Complete
    <3>3. CASE Make(p)
      BY <3>3 DEF Make, Goes, Making
    <3>4. CASE RefuseShort(p)
      BY <3>4 DEF RefuseShort, Goes
    <3>5. CASE Truncate(p)
      BY <3>5 DEF Truncate, Goes
    <3>6. CASE WriteFails(p) \/ Exit(p)
      BY <3>6 DEF WriteFails, Exit, Goes
    <3>7. CASE GeneratePairData(p)
      BY <3>7 DEF GeneratePairData, HandOut
    <3>8. CASE RunPair(p)
      BY <3>8 DEF RunPair, HandOut
    <3>9. CASE Fill(p)
      BY <3>9 DEF Fill, Goes
    <3> QED
      BY <3>1, <3>2, <3>3, <3>4, <3>5, <3>6, <3>7, <3>8, <3>9
  <2> QED
    BY <2>1, <2>2
<1> QED
  BY <1>1, <1>2, PTL DEF Spec

-----------------------------------------------------------------------------
(* OneKey is not inductive: it says nothing of the processes which are      *)
(* making the key, nor that a code is a whole key.  As long as no starts   *)
(* raced, one process at most is making the key, over a file that it has   *)
(* cut short; and unless a complete key was misread there was none before, *)
(* so nobody is left behind.                                               *)

KeyInv ==
    /\ OneKey
    /\ ~raced =>
           /\ codes \ strays \subseteq Key
           /\ \A p, q \in Process : Making(p) /\ Making(q) => p = q
           /\ \A p \in Process : pc[p] = "fill" => file = Short
           /\ ~misread => \A p \in Process : Making(p) => ~Complete

\* At first nobody is at work and no code is handed out.
LEMMA KeyInvInit == Init => KeyInv
BY DEF Init, KeyInv, OneKey, Making

LEMMA KeyInvStep == TypeOK /\ KeyInv /\ [Next]_vars => KeyInv'
<1> SUFFICES ASSUME TypeOK, KeyInv, [Next]_vars, ~raced' PROVE KeyInv'
  BY DEF KeyInv, OneKey
<1> USE StartsAssumption DEF StartsAssumption, Key, Absent, Short
<1>0. /\ pc \in [Process -> {"down", "load", "truncate", "fill", "up"}]
      /\ key \in [Process -> Key \cup {NoKey}]
      /\ \A p \in Process : pc[p] # "down" => key[p] \in Key
      /\ outdated \subseteq Process /\ strays \subseteq codes
  BY DEF TypeOK
<1>1. CASE UNCHANGED vars
  BY <1>1 DEF vars, KeyInv, OneKey, Complete, Making
<1>2. CASE Next
  <2> PICK p \in Process :
        \/ Start(p) \/ Load(p) \/ Make(p) \/ RefuseShort(p)
        \/ Truncate(p) \/ Fill(p) \/ WriteFails(p) \/ Exit(p)
        \/ GeneratePairData(p) \/ RunPair(p)
    BY <1>2 DEF Next
  <2>0. ~raced
    <3>1. CASE Make(p)
      BY <3>1 DEF Make
    <3>2. CASE ~Make(p)
      BY <3>2 DEF Start, Load, RefuseShort, Truncate, Fill, WriteFails, Exit,
                  GeneratePairData, RunPair, HandOut
    <3> QED
      BY <3>1, <3>2
  <2>1. /\ \A q \in Process \ outdated : pc[q] = "up" => key[q] = file
        /\ \A k \in codes \ strays : k = file
        /\ ~misread => outdated = {} /\ strays = {}
        /\ codes \ strays \subseteq Key
        /\ \A q, r \in Process : Making(q) /\ Making(r) => q = r
        /\ \A q \in Process : pc[q] = "fill" => file = Short
        /\ ~misread => \A q \in Process : Making(q) => ~Complete
    BY <2>0 DEF KeyInv, OneKey
  <2>2. CASE Start(p) \/ RefuseShort(p) \/ WriteFails(p) \/ Exit(p)
    BY <1>0, <2>1, <2>2 DEF Start, RefuseShort, WriteFails, Exit, Goes,
                            KeyInv, OneKey, Complete, Making
  <2>3. CASE Load(p)
    BY <1>0, <2>1, <2>3 DEF Load, Goes, KeyInv, OneKey, Complete, Making
  <2>4. CASE Make(p)
    <3>1. /\ \A q \in Process \ {p} : ~Making(q)
          /\ ~misread' => ~misread /\ ~Complete
      <4>1. ~(raced \/ \E q \in Process \ {p} : Making(q))
        BY <2>4 DEF Make
      <4>2. misread' = (misread \/ Complete)
        BY <2>4 DEF Make
      <4> QED
        BY <4>1, <4>2
    <3> QED
      BY <1>0, <2>1, <2>4, <3>1 DEF Make, Goes, KeyInv, OneKey, Complete, Making
  <2>5. CASE Truncate(p)
    <3>1. ~misread => codes = {} /\ \A q \in Process : pc[q] # "up"
      <4> SUFFICES ASSUME ~misread PROVE codes = {} /\ \A q \in Process : pc[q] # "up"
        OBVIOUS
      <4>1. ~Complete
        BY <2>1, <2>5 DEF Truncate, Making
      <4> QED
        BY <1>0, <2>1, <4>1 DEF Complete
    <3>2. /\ file' = Short /\ pc' = [pc EXCEPT ![p] = "fill"]
          /\ outdated' = outdated \cup {q \in Process : pc[q] = "up"}
          /\ strays' = strays \cup codes
          /\ UNCHANGED <<key, codes, raced, misread>>
      BY <2>5 DEF Truncate, Goes
    <3>3. \A q \in Process \ outdated' : pc'[q] # "up"
      BY <1>0, <3>2
    <3>4. codes' \ strays' = {}
      BY <3>2
    <3>5. ~misread' => outdated' = {} /\ strays' = {}
      BY <2>1, <3>1, <3>2
    <3>6. OneKey'
      BY <3>3, <3>4, <3>5 DEF OneKey
    <3>7. \A q \in Process : Making(q)' <=> Making(q)
      BY <1>0, <2>5, <3>2 DEF Truncate, Making
    <3> QED
      BY <2>1, <3>2, <3>4, <3>6, <3>7 DEF KeyInv, Complete
  <2>6. CASE Fill(p)
    <3>1. /\ file = Short
          /\ codes \ strays = {}
          /\ \A q \in Process \ outdated : pc[q] # "up"
          /\ \A q \in Process \ {p} : ~Making(q)
      <4>1. file = Short
        BY <2>1, <2>6 DEF Fill
      <4>2. \A q \in Process \ {p} : ~Making(q)
        BY <2>1, <2>6 DEF Fill, Making
      <4> QED
        BY <1>0, <2>1, <4>1, <4>2
    <3> QED
      BY <1>0, <2>1, <2>6, <3>1 DEF Fill, Goes, KeyInv, OneKey, Complete, Making
  <2>7. CASE GeneratePairData(p)
    BY <1>0, <2>1, <2>7 DEF GeneratePairData, HandOut, KeyInv, OneKey, Complete, Making
  <2>8. CASE RunPair(p)
    BY <1>0, <2>1, <2>8 DEF RunPair, HandOut, KeyInv, OneKey, Complete, Making
  <2> QED
    BY <2>2, <2>3, <2>4, <2>5, <2>6, <2>7, <2>8
<1> QED
  BY <1>1, <1>2

\* Whatever crashed and whatever reads and writes failed before: unless two starts
\* made a key at the same time, every process at work and every code handed out
\* has the key of the file, but for those which were there when a core replaced a
\* complete key that it failed to read.
THEOREM OneKeyCorrect == Spec => []OneKey
<1>1. Init => KeyInv
  BY KeyInvInit
<1>2. TypeOK /\ KeyInv /\ [Next]_vars => KeyInv'
  BY KeyInvStep
<1>3. KeyInv => OneKey
  BY DEF KeyInv
<1> QED
  BY <1>1, <1>2, <1>3, KeyTypeCorrect, PTL DEF Spec
===============================================================================
