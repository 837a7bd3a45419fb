------------------------------ MODULE MCKeyFile ------------------------------
(* Small instances of KeyFile: the constants are given in the .cfg files.    *)
EXTENDS KeyFile
=============================================================================
