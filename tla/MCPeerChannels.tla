---------------------------- MODULE MCPeerChannels ----------------------------
(* Two connections: with keys of their own, as the server gives them, or    *)
(* with one key, as two dials of the same address give them.                *)
EXTENDS PeerChannels, TLC

CONSTANTS c1, c2, i1, i2

MCOwnIds   == c1 :> i1 @@ c2 :> i2
MCSharedId == c1 :> i1 @@ c2 :> i1
=============================================================================
