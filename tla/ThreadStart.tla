----------------------------- MODULE ThreadStart ----------------------------
(***************************************************************************)
(* TcpServer::Start (src/util/tcpserver.h): the base thread makes the I/O  *)
(* threads one by one, each through Thread's Latch and EventLoopThread's   *)
(* condition variable, then listens and hands connections to their loops.  *)
(*                                                                         *)
(* A critical section that ends in cond_.Wait() or by unlocking is one     *)
(* action: nothing in it blocks while mutex_ is held.  A thread asleep in  *)
(* Wait() goes back to the test of its while loop when it is notified, or  *)
(* for no reason at all.                                                   *)
(***************************************************************************)
EXTENDS Naturals, Sequences

CONSTANTS
    thread_num_,
    NULL            \* the null EventLoop*

ASSUME ThreadAssumption == thread_num_ \in Nat /\ NULL \notin 1..thread_num_

Threads == 1..thread_num_   \* a thread's EventLoop goes by the thread's number

VARIABLES
    pc,             \* the base thread: "start" a thread, test the "latch",
                    \* "latch sleep", test the "loop", "loop sleep", "listen",
                    \* "serving"
    thread,         \* thread -> where it is: "none", "countdown", "construct",
                    \* "hand over", "handed over", in "Loop"
    count_,         \* thread -> its Latch's count
    loop_,          \* thread -> its EventLoopThread's loop_
    loops_, next_,  \* the EventLoopThreadPool
    waiting         \* the loops that a ConnectionEstablished is queued to

vars == <<pc, thread, count_, loop_, loops_, next_, waiting>>

Init ==
    /\ pc = "start"
    /\ thread = [t \in Threads |-> "none"]
    /\ count_ = [t \in Threads |-> 1]
    /\ loop_ = [t \in Threads |-> NULL]
    /\ loops_ = <<>> /\ next_ = 0
    /\ waiting = {}

-----------------------------------------------------------------------------
(* The base thread.                                                        *)

\* The thread that is being started.
Current == Len(loops_) + 1

\* pthread_create, in Thread::Start; when all are started, on to the Acceptor.
StartThread ==
    /\ pc = "start"
    /\ IF Current \in Threads
       THEN pc' = "latch" /\ thread' = [thread EXCEPT ![Current] = "countdown"]
       ELSE pc' = "listen" /\ UNCHANGED thread
    /\ UNCHANGED <<count_, loop_, loops_, next_, waiting>>

\* Latch::Wait.
LatchWait ==
    /\ pc = "latch"
    /\ pc' = IF count_[Current] > 0 THEN "latch sleep" ELSE "loop"
    /\ UNCHANGED <<thread, count_, loop_, loops_, next_, waiting>>

\* Wrong variant: loop_ is not looked at before it is returned.
TakeLoopUntested ==
    /\ pc = "loop"
    /\ pc' = "start" /\ loops_' = Append(loops_, loop_[Current])
    /\ UNCHANGED <<thread, count_, loop_, next_, waiting>>

\* The end of EventLoopThread::StartLoop, and loops_.emplace_back.
TakeLoop ==
    /\ pc = "loop"
    /\ IF loop_[Current] = NULL
       THEN pc' = "loop sleep" /\ UNCHANGED loops_
       ELSE pc' = "start" /\ loops_' = Append(loops_, loop_[Current])
    /\ UNCHANGED <<thread, count_, loop_, next_, waiting>>

\* accept_listen.
Listen ==
    /\ pc = "listen" /\ pc' = "serving"
    /\ UNCHANGED <<thread, count_, loop_, loops_, next_, waiting>>

\* Wrong variant: next_ never starts again.
NextLoopUnwrapped ==
    /\ pc = "serving"
    /\ IF loops_ = <<>>
       THEN UNCHANGED <<waiting, next_>>
       ELSE /\ waiting' = waiting \cup {loops_[next_ + 1]}
            /\ next_' = next_ + 1
    /\ UNCHANGED <<pc, thread, count_, loop_, loops_>>

\* HandleNewConn queues ConnectionEstablished to NextLoop; with no I/O thread
\* that is the base loop, which runs it in place.
NextLoop ==
    /\ pc = "serving"
    /\ IF loops_ = <<>>
       THEN UNCHANGED <<waiting, next_>>
       ELSE /\ waiting' = waiting \cup {loops_[next_ + 1]}
            /\ next_' = (next_ + 1) % thread_num_
    /\ UNCHANGED <<pc, thread, count_, loop_, loops_>>

BaseThread == StartThread \/ LatchWait \/ TakeLoop \/ Listen

\* pthread_cond_wait may return without a signal.
SpuriousWakeup ==
    /\ \/ pc = "latch sleep" /\ pc' = "latch"
       \/ pc = "loop sleep" /\ pc' = "loop"
    /\ UNCHANGED <<thread, count_, loop_, loops_, next_, waiting>>

-----------------------------------------------------------------------------
(* An I/O thread, in ThreadRun.                                            *)

\* notifyAll or Notify of the condition variable that the base thread sleeps on.
Wake(t, place, test) ==
    pc' = IF t = Current /\ pc = place THEN test ELSE pc

\* Wrong variant: the Latch notifies while the count is still up.
CountDownAfterNotify(t) ==
    /\ thread[t] = "countdown"
    /\ thread' = [thread EXCEPT ![t] = "construct"]
    /\ count_' = [count_ EXCEPT ![t] = @ - 1]
    /\ IF count_[t] = 0 THEN Wake(t, "latch sleep", "latch") ELSE UNCHANGED pc
    /\ UNCHANGED <<loop_, loops_, next_, waiting>>

\* Latch::CountDown.
CountDown(t) ==
    /\ thread[t] = "countdown"
    /\ thread' = [thread EXCEPT ![t] = "construct"]
    /\ count_' = [count_ EXCEPT ![t] = @ - 1]
    /\ IF count_'[t] = 0 THEN Wake(t, "latch sleep", "latch") ELSE UNCHANGED pc
    /\ UNCHANGED <<loop_, loops_, next_, waiting>>

\* StartFunc: EventLoop loop;
Construct(t) ==
    /\ thread[t] = "construct"
    /\ thread' = [thread EXCEPT ![t] = "hand over"]
    /\ UNCHANGED <<pc, count_, loop_, loops_, next_, waiting>>

\* Wrong variant: loop_ is set and nobody told.
HandOverSilently(t) ==
    /\ thread[t] = "hand over"
    /\ thread' = [thread EXCEPT ![t] = "handed over"]
    /\ loop_' = [loop_ EXCEPT ![t] = t]
    /\ UNCHANGED <<pc, count_, loops_, next_, waiting>>

\* StartFunc: loop_ is set, under mutex_, and the base thread notified.
HandOver(t) ==
    /\ thread[t] = "hand over"
    /\ thread' = [thread EXCEPT ![t] = "handed over"]
    /\ loop_' = [loop_ EXCEPT ![t] = t]
    /\ Wake(t, "loop sleep", "loop")
    /\ UNCHANGED <<count_, loops_, next_, waiting>>

\* Loop() is entered; it does not return.
EnterLoop(t) ==
    /\ thread[t] = "handed over"
    /\ thread' = [thread EXCEPT ![t] = "Loop"]
    /\ UNCHANGED <<pc, count_, loop_, loops_, next_, waiting>>

\* DoToDoList, with what has been queued to the loop before or since.
DoToDoList(t) ==
    /\ thread[t] = "Loop" /\ t \in waiting
    /\ waiting' = waiting \ {t}
    /\ UNCHANGED <<pc, thread, count_, loop_, loops_, next_>>

IoThread(t) ==
    CountDown(t) \/ Construct(t) \/ HandOver(t) \/ EnterLoop(t) \/ DoToDoList(t)

-----------------------------------------------------------------------------

Next ==
    \/ BaseThread \/ NextLoop \/ SpuriousWakeup
    \/ \E t \in Threads : IoThread(t)

SafeSpec == Init /\ [][Next]_vars

\* Threads that can go on do; nothing is assumed of clients or of spurious
\* wakeups.
Spec ==
    /\ SafeSpec
    /\ WF_vars(BaseThread)
    /\ \A t \in Threads : WF_vars(IoThread(t))

-----------------------------------------------------------------------------
(* Properties.                                                             *)

\* The variables' ranges; no loop that is handed out is null.
TypeOK ==
    /\ pc \in {"start", "latch", "latch sleep", "loop", "loop sleep", "listen", "serving"}
    /\ thread \in [Threads -> {"none", "countdown", "construct", "hand over",
                           "handed over", "Loop"}]
    /\ count_ \in [Threads -> {0, 1}]
    /\ loop_ \in [Threads -> Threads \cup {NULL}]
    /\ loops_ \in Seq(Threads) /\ Len(loops_) <= thread_num_
    /\ next_ \in Nat
    /\ waiting \subseteq Threads

\* The base thread sleeps only on something that is still to happen: the
\* thread it waits for has its CountDown or its Notify before it, whichever of
\* the two was the first to take the mutex.
NoLostSignal ==
    /\ pc = "latch sleep" => count_[Current] = 1 /\ thread[Current] = "countdown"
    /\ pc = "loop sleep" => loop_[Current] = NULL
                            /\ thread[Current] \in {"construct", "hand over"}

\* The pool holds the threads' own loops, in order, and each of them exists by
\* then; NextLoop stays among them.
LoopsExist ==
    /\ \A i \in 1..Len(loops_) : loops_[i] = i /\ thread[i] \in {"handed over", "Loop"}
    /\ pc = "serving" => Len(loops_) = thread_num_
    /\ loops_ # <<>> => next_ < thread_num_

\* The server comes to serve.
StartCompletes == <>(pc = "serving")
=============================================================================
