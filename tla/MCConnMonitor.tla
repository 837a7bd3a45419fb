----------------------------- MODULE MCConnMonitor -----------------------------
(* Small instances of ConnMonitor: the constants are given in the .cfg files. *)
EXTENDS ConnMonitor
=============================================================================
