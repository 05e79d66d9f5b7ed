--------------------------- MODULE MCTcpConnection --------------------------
(***************************************************************************)
(* TcpConnection for TLC: three requests, pipelined or not, whose          *)
(* responses are longer than, shorter than and as long as what the socket  *)
(* buffer has room for; with and without the closing of idle connections.  *)
(***************************************************************************)
EXTENDS TcpConnection

ThreeResponses == <<3, 1, 2>>
=============================================================================
