------------------------------ MODULE FileIndex ------------------------------
(***************************************************************************)
(* What the index of a device promises, with no goroutine, no queue and no *)
(* scan in it: the files table of pkg/core/fybrk.go and that of            *)
(* internal/storage/metadata.go, seen from outside.                        *)
(*                                                                         *)
(* A file is settled while nothing about it is under way.  Files change    *)
(* and rows are written at any time, but a changed file is not settled, a  *)
(* settled file's row is never touched, and a file becomes settled only    *)
(* with a row that describes it.                                           *)
(***************************************************************************)
CONSTANTS File, Content, Absent

VARIABLES
    content,    \* what each file holds
    row,        \* what the index says of it
    settled     \* files about which nothing is under way

vars == <<content, row, settled>>

State == Content \cup {Absent}
RowOf(c) == [stat |-> c, hash |-> c]

Init ==
    /\ content \in [File -> State]
    /\ row = [p \in File |-> RowOf(Absent)]
    /\ settled = {}

\* The user changes some files; what changed is not settled any more.
Change ==
    /\ content' \in [File -> State]
    /\ settled' \subseteq {p \in settled : content'[p] = content[p]}
    /\ row' = row

\* The program works on files that are not settled, and settles some.
Work ==
    /\ settled' \subseteq File
    /\ \A p \in settled : row'[p] = row[p]
    /\ \A p \in settled' \ settled : row'[p] = RowOf(content[p])
    /\ content' = content

Next == Change \/ Work
Spec == Init /\ [][Next]_vars
=============================================================================
