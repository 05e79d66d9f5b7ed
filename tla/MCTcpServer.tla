---------------------------- MODULE MCTcpServer -----------------------------
(***************************************************************************)
(* TcpServer for TLC.  An fd is enough for two connections to take it in   *)
(* turn; two I/O loops let the second owner of an fd be on another loop    *)
(* than the first, one I/O loop or none puts it on the same.               *)
(***************************************************************************)
EXTENDS TcpServer, TLC

CONSTANTS io1, io2

TwoLoops == {<<io1, io2>>}
AnyLoops == {<<>>, <<io1>>, <<io1, io2>>}

Symmetric == Permutations(Conns) \cup Permutations(Fds)
=============================================================================
