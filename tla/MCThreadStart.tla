---------------------------- MODULE MCThreadStart ---------------------------
(***************************************************************************)
(* ThreadStart for TLC: the four I/O threads of main.                      *)
(***************************************************************************)
EXTENDS ThreadStart
=============================================================================
