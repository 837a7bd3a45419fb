--------------------------- MODULE MCWatchPipeline ---------------------------
(* Small instances of WatchPipeline: h is a hidden file of the sync         *)
(* directory, g a file of the subdirectory d.                               *)
EXTENDS WatchPipeline, TLC

CONSTANTS g, h, d, c1, c2

MCHiddenDirOf  == g :> d @@ h :> Root
=============================================================================
