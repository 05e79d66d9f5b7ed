----------------------------- MODULE TaskQueue ------------------------------
(***************************************************************************)
(* What EventLoop promises to the rest of the server, with no wakeup fd,   *)
(* no swap and no threads in sight: a task handed to the loop is run by    *)
(* the loop exactly once, tasks that are queued are run in the order they  *)
(* were queued, and a queued task is eventually run.  The loop's own       *)
(* thread may also run a task on the spot, ahead of everything queued      *)
(* (EventLoop::RunOneFunc called in the loop thread).                      *)
(***************************************************************************)
EXTENDS Sequences, Functions

CONSTANT Tasks          \* every task ever handed to the loop

VARIABLES
    waiting,            \* tasks accepted and not yet started, oldest first
    done                \* tasks started, in the order they were started

vars == <<waiting, done>>

Init ==
    /\ waiting = <<>>
    /\ done = <<>>

Unseen(t) == t \notin Range(waiting) \cup Range(done)

Submit(t) ==
    /\ Unseen(t)
    /\ waiting' = Append(waiting, t)
    /\ UNCHANGED done

RunNow(t) ==
    /\ Unseen(t)
    /\ done' = Append(done, t)
    /\ UNCHANGED waiting

RunOldest ==
    /\ waiting # <<>>
    /\ done' = Append(done, Head(waiting))
    /\ waiting' = Tail(waiting)

Next ==
    \/ \E t \in Tasks : Submit(t) \/ RunNow(t)
    \/ RunOldest

SafeSpec == Init /\ [][Next]_vars

Spec == SafeSpec /\ WF_vars(RunOldest)
=============================================================================
