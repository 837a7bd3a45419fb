------------------------------- MODULE MCEngine -------------------------------
(* Small instances of Engine.                                               *)
EXTENDS Engine, TLC

\* Contents are only compared, and files only told apart.
Alike == Permutations(File) \cup Permutations(Content)
=============================================================================
