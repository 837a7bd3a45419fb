----------------------------- MODULE MCCoreSync -----------------------------
(* Small instances of CoreSync.                                             *)
EXTENDS CoreSync, TLC

Alike == Permutations(Device) \cup Permutations(Content)
=============================================================================
