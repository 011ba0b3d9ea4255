---------------------------- MODULE MCPeerQueue ----------------------------
(* Two processes store a command each, or one stores two, with room for    *)
(* both in a file or not.                                                  *)
EXTENDS PeerQueue

Load(n1, n2, s) == [commands |-> [p \in Producers |-> IF p = "p1" THEN n1 ELSE n2], size |-> s]
TwoCommands == {Load(1, 1, 0), Load(2, 0, 0), Load(2, 0, 1)}
=============================================================================
