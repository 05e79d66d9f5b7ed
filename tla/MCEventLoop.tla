---------------------------- MODULE MCEventLoop -----------------------------
(***************************************************************************)
(* EventLoop for TLC: three tasks, two foreign threads, one I/O channel,   *)
(* and an epoll_wait that returns a single event, so that the eventfd and  *)
(* the channel compete for the reported slot.                              *)
(***************************************************************************)
EXTENDS EventLoop
=============================================================================
