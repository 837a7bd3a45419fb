-------------------------------- MODULE KeyFile --------------------------------
(***************************************************************************)
(* The encryption key of a sync directory, .fybrk/key, and the pairing     *)
(* codes made from it (pkg/core/fybrk.go, cli/cmd/fybrk/main.go).          *)
(*                                                                         *)
(* Two programs share the file.  The core (cmd/fybrk) takes 32 bytes for   *)
(* its key and replaces anything else by a new one, also a whole key that  *)
(* it failed to read.  The cli makes a key only when there is no file, and *)
(* refuses one of another length or one it cannot read.  Both write in     *)
(* place: os.WriteFile truncates the file and then fills it, so a crash    *)
(* leaves it short, and two programs that start at the same time on a      *)
(* directory without a key each make their own.                            *)
(*                                                                         *)
(* A key is the number of the start that made it.                          *)
(***************************************************************************)
EXTENDS Integers

CONSTANTS
    Process,   \* processes that may run in the directory
    Core,      \* those that run the core; the others run the cli
    MaxStarts  \* bound: starts of processes

ASSUME ProcessAssumption == Core \subseteq Process
ASSUME StartsAssumption == MaxStarts \in Nat

Key    == 1 .. MaxStarts
Absent == -1
Short  == -2        \* fewer than 32 bytes
NoKey  == 0

VARIABLES
    file,     \* what .fybrk/key holds
    pc,       \* of each process: "down", "load", "truncate", "fill" or "up"
    key,      \* the key each process has made or loaded
    codes,    \* the keys in the pairing codes handed out
    raced,    \* history: two processes were making a key at the same time
    misread,  \* history: a core failed to read a complete file, and made a key
    outdated, \* history: processes at work since before the file was replaced
    strays,   \* history: codes of before that, or of those processes
    starts    \* bounded counter

vars == <<file, pc, key, codes, raced, misread, outdated, strays, starts>>

Making(p) == pc[p] \in {"truncate", "fill"}
Complete  == file \in Key

Goes(p, place) == pc' = [pc EXCEPT ![p] = place]
-----------------------------------------------------------------------------
Start(p) ==
    /\ pc[p] = "down" /\ starts < MaxStarts
    /\ starts' = starts + 1
    /\ Goes(p, "load")
    /\ key' = [key EXCEPT ![p] = starts + 1]
    /\ outdated' = outdated \ {p}
    /\ UNCHANGED <<file, codes, raced, misread, strays>>

\* Mutant of Load: what is read is taken for a key whatever its length.
LoadAnything(p) ==
    /\ pc[p] = "load" /\ file # Absent
    /\ key' = [key EXCEPT ![p] = file]
    /\ Goes(p, "up")
    /\ UNCHANGED <<file, codes, raced, misread, outdated, strays, starts>>

\* Until here the key of a process is the one it will make if it makes one.
Load(p) ==
    /\ pc[p] = "load" /\ Complete
    /\ key' = [key EXCEPT ![p] = file]
    /\ Goes(p, "up")
    /\ UNCHANGED <<file, codes, raced, misread, outdated, strays, starts>>

\* Mutant of MakesKey: the core, too, looks only at the presence of the file.
MakesFirstKey(p) == file = Absent

\* The cli makes a key when there is no file.  initializeKey does so whenever it
\* has not read 32 bytes, and any read may fail.
MakesKey(p) == file = Absent \/ p \in Core

Make(p) ==
    /\ pc[p] = "load" /\ MakesKey(p)
    /\ Goes(p, "truncate")
    /\ raced' = (raced \/ \E q \in Process \ {p} : Making(q))
    /\ misread' = (misread \/ Complete)
    /\ UNCHANGED <<file, key, codes, outdated, strays, starts>>

\* NewEncryptor in the cli's client.
RefuseShort(p) ==
    /\ pc[p] = "load" /\ p \notin Core /\ file = Short
    /\ Goes(p, "down")
    /\ UNCHANGED <<file, key, codes, raced, misread, outdated, strays, starts>>

Truncate(p) ==
    /\ pc[p] = "truncate"
    /\ file' = Short
    /\ Goes(p, "fill")
    /\ outdated' = outdated \cup {q \in Process : pc[q] = "up"}
    /\ strays' = strays \cup codes
    /\ UNCHANGED <<key, codes, raced, misread, starts>>

Fill(p) ==
    /\ pc[p] = "fill"
    /\ file' = key[p]
    /\ Goes(p, "up")
    /\ UNCHANGED <<key, codes, raced, misread, outdated, strays, starts>>

\* Mutant of WriteFails: the error of os.WriteFile is ignored.
WriteFailsIgnored(p) ==
    /\ Making(p)
    /\ Goes(p, "up")
    /\ UNCHANGED <<file, key, codes, raced, misread, outdated, strays, starts>>

\* The file cannot be opened, or not be filled: the start fails.
WriteFails(p) ==
    /\ Making(p)
    /\ Goes(p, "down")
    /\ UNCHANGED <<file, key, codes, raced, misread, outdated, strays, starts>>

\* A process ends or is killed, at any point; so does a cli whose read fails.
Exit(p) ==
    /\ pc[p] # "down"
    /\ Goes(p, "down")
    /\ UNCHANGED <<file, key, codes, raced, misread, outdated, strays, starts>>

HandOut(p, k) ==
    /\ codes' = codes \cup {k}
    /\ strays' = IF p \in outdated THEN strays \cup {k} ELSE strays
    /\ UNCHANGED <<file, pc, key, raced, misread, outdated, starts>>

\* GeneratePairData encodes the key in memory, runPair reads the file again.
GeneratePairData(p) == pc[p] = "up" /\ p \in Core /\ HandOut(p, key[p])
RunPair(p) == pc[p] = "up" /\ p \notin Core /\ HandOut(p, file)
-----------------------------------------------------------------------------
\* The directory may hold a key that was cut off before.
Init ==
    /\ file \in {Absent, Short}
    /\ pc = [p \in Process |-> "down"]
    /\ key = [p \in Process |-> NoKey]
    /\ codes = {} /\ outdated = {} /\ strays = {}
    /\ raced = FALSE /\ misread = FALSE /\ starts = 0

Next == \E p \in Process :
    \/ Start(p) \/ Load(p) \/ Make(p) \/ RefuseShort(p)
    \/ Truncate(p) \/ Fill(p) \/ WriteFails(p) \/ Exit(p)
    \/ GeneratePairData(p) \/ RunPair(p)

Spec == Init /\ [][Next]_vars

\* A start that is not killed and can write comes to an end.
FairSpec ==
    /\ Spec
    /\ \A p \in Process :
          WF_vars(Load(p) \/ Make(p) \/ RefuseShort(p) \/ Truncate(p) \/ Fill(p))
-----------------------------------------------------------------------------
(* What the key file promises.                                             *)

TypeOK ==
    /\ file \in Key \cup {Absent, Short}
    /\ pc \in [Process -> {"down", "load", "truncate", "fill", "up"}]
    /\ key \in [Process -> Key \cup {NoKey}]
    /\ \A p \in Process : pc[p] # "down" => key[p] \in Key
    /\ codes \subseteq Key \cup {Absent, Short}
    /\ outdated \subseteq Process /\ strays \subseteq codes
    /\ raced \in BOOLEAN /\ misread \in BOOLEAN
    /\ starts \in 0 .. MaxStarts

\* Whatever crashed and whatever reads and writes failed before, every process at
\* work and every code handed out has the key that the next start will read,
\* unless two starts made a key at the same time.  When a core that failed to
\* read a complete key replaces it (fybrk.go:101-117), the processes then at work
\* and the codes of before are left with the old key; nothing else ever leaves
\* anyone behind, and all who start afterwards agree again (fybrk.go:97-119,
\* main.go:104-125, 279-296).
OneKey == ~raced =>
    /\ \A p \in Process \ outdated : pc[p] = "up" => key[p] = file
    /\ \A k \in codes \ strays : k = file
    /\ ~misread => outdated = {} /\ strays = {}

\* A key that was cut off does not stop the core: a start of it that is not
\* killed and can write finds or leaves a complete key (fybrk.go:100-119).
CoreHeals == \A p \in Core : pc[p] = "load" ~> (pc[p] = "down" \/ Complete)
=============================================================================
