-------------------------- MODULE MCTcpConnections --------------------------
(* One client that sends two messages, the first without data, one that    *)
(* sends one, and one that only connects.                                   *)
EXTENDS TcpConnections, TLC

CONSTANTS c1, c2, c3

Sizes == (c1 :> <<0, 1>>) @@ (c2 :> <<0>>) @@ (c3 :> <<>>)
=============================================================================
