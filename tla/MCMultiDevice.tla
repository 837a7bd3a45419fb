---------------------------- MODULE MCMultiDevice ----------------------------
(* Small instances of MultiDevice: the constants are given in the .cfg files. *)
EXTENDS MultiDevice

OneWay == {<<"a", "b">>}
StoppingDials == {<<"b", "a">>, <<"b", "b">>}
=============================================================================
