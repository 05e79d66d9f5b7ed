----------------------------- MODULE MCAcceptor -----------------------------
(***************************************************************************)
(* Acceptor for TLC: one fd left besides the reserve and the log's, and    *)
(* clients enough to fill it, to be turned away, and to find the reserve   *)
(* lost and won back.                                                      *)
(***************************************************************************)
EXTENDS Acceptor
=============================================================================
