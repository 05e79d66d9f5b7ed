----------------------------- MODULE EventLoop ------------------------------
(***************************************************************************)
(* One EventLoop (src/util/eventloop.{h,cc}) with its Epoller's wait       *)
(* (src/util/epoller.{h,cc}), its eventfd and the threads that hand it     *)
(* tasks.  The loop thread blocks in epoll_wait, runs the handlers of the  *)
(* ready channels, then swaps to_do_list_ out under mutex_ and runs what   *)
(* it took.  A thread that queues a task pushes it under mutex_ and only   *)
(* THEN, with the mutex released, decides whether to write the eventfd:    *)
(* the two halves are two actions here, so every interleaving of the       *)
(* window between them is explored.                                        *)
(***************************************************************************)
EXTENDS Naturals, Sequences, FiniteSets, Functions

CONSTANTS
    Tasks,          \* the std::function objects handed to this loop
    OtherThreads,   \* threads that are not the loop's own (tid_)
    LoopThread,     \* the thread that runs Loop()
    Channels,       \* the I/O channels registered with the loop's Epoller
    WakeupChannel,  \* wakeup_channel_
    MaxEvents,      \* MAX_EVENTS: how many events one epoll_wait returns
    Nothing         \* the loop thread is executing no user code

ASSUME EventLoopAssumption ==
    /\ LoopThread \notin OtherThreads
    /\ WakeupChannel \notin Channels
    /\ Nothing \notin Tasks \cup Channels
    /\ MaxEvents \in Nat \ {0}

Threads == OtherThreads \cup {LoopThread}

VARIABLES
    pc,                 \* where Loop() is
    to_do_list_,        \* tasks pushed and not swapped out yet
    funclists,          \* DoToDoList's local: what it swapped out and has not run
    calling_functors_,
    wakeup_fd_,         \* the eventfd's counter
    ActiveChannel_,     \* channels of the last epoll_wait still to be handled
    ready,              \* I/O channels the kernel would report now
    executing,          \* the handler or task the loop thread is inside of
    pushed,             \* threads between QueueOneFunc's push and its wakeup test
    executed            \* history: the tasks started so far, in order

vars == <<pc, to_do_list_, funclists, calling_functors_, wakeup_fd_,
          ActiveChannel_, ready, executing, pushed, executed>>

listVars  == <<to_do_list_, funclists, executed>>
epollVars == <<ActiveChannel_, ready>>

Init ==
    /\ pc = "start"
    /\ to_do_list_ = <<>>
    /\ funclists = <<>>
    /\ calling_functors_ = FALSE
    /\ wakeup_fd_ = 0
    /\ ActiveChannel_ = {}
    /\ ready = {}
    /\ executing = Nothing
    /\ pushed = {}
    /\ executed = <<>>

-----------------------------------------------------------------------------
(* Handing tasks to the loop.                                              *)

\* A std::function object is handed over once.
New(t) == t \notin Range(to_do_list_) \cup Range(funclists) \cup Range(executed)

\* The loop thread calls back into the loop only from a handler or a task.
MayCall(thread) ==
    /\ thread \notin pushed
    /\ thread = LoopThread => executing # Nothing

IsInThreadLoop(thread) == thread = LoopThread

\* QueueOneFunc, first half: the push, alone under mutex_.
QueueOneFunc(thread, t) ==
    /\ MayCall(thread)
    /\ New(t)
    /\ to_do_list_' = Append(to_do_list_, t)
    /\ pushed' = pushed \cup {thread}
    /\ UNCHANGED <<pc, funclists, calling_functors_, wakeup_fd_, epollVars, executing,
                   executed>>

\* Wrong variant: the loop is woken only while it runs functors.
NeedsWakeupWhenCalling(thread) == calling_functors_

NeedsWakeup(thread) == ~IsInThreadLoop(thread) \/ calling_functors_

\* QueueOneFunc, second half: the test and the write, outside the mutex.
WakeUp(thread) ==
    /\ thread \in pushed
    /\ pushed' = pushed \ {thread}
    /\ wakeup_fd_' = IF NeedsWakeup(thread) THEN wakeup_fd_ + 1 ELSE wakeup_fd_
    /\ UNCHANGED <<pc, listVars, calling_functors_, epollVars, executing>>

\* RunOneFunc in the loop thread: the task runs inside its caller.  (In any
\* other thread RunOneFunc is QueueOneFunc.)  Before Loop() the loop thread
\* reaches this too: TcpServer::Start runs accept_listen this way.
RunOneFunc(t) ==
    /\ LoopThread \notin pushed
    /\ executing # Nothing \/ pc = "start"
    /\ New(t)
    /\ executed' = Append(executed, t)
    /\ UNCHANGED <<pc, to_do_list_, funclists, calling_functors_, wakeup_fd_,
                   epollVars, executing, pushed>>

-----------------------------------------------------------------------------
(* Loop().                                                                 *)

EnterLoop ==
    /\ pc = "start"
    /\ pc' = "wait"
    /\ UNCHANGED <<listVars, calling_functors_, wakeup_fd_, epollVars, executing, pushed>>

\* What epoll holds ready, level-triggered.
Reportable == ready \cup (IF wakeup_fd_ > 0 THEN {WakeupChannel} ELSE {})

\* epoll_wait returns everything ready, or MAX_EVENTS of it.
FillActiveChannels ==
    /\ pc = "wait"
    /\ \E reported \in SUBSET Reportable :
          /\ reported # {}
          /\ \/ reported = Reportable /\ Cardinality(reported) <= MaxEvents
             \/ Cardinality(reported) = MaxEvents
          /\ ActiveChannel_' = reported
    /\ pc' = "dispatch"
    /\ UNCHANGED <<listVars, calling_functors_, wakeup_fd_, ready, executing, pushed>>

\* Wrong variant: the handler returns without reading the eventfd.
HandleReadSkipped ==
    /\ pc = "dispatch" /\ executing = Nothing
    /\ WakeupChannel \in ActiveChannel_
    /\ ActiveChannel_' = ActiveChannel_ \ {WakeupChannel}
    /\ wakeup_fd_' = wakeup_fd_
    /\ UNCHANGED <<pc, listVars, calling_functors_, ready, executing, pushed>>

\* Wrong variant: the event stays in the list of events to handle.
HandleReadAgain ==
    /\ pc = "dispatch" /\ executing = Nothing
    /\ WakeupChannel \in ActiveChannel_
    /\ wakeup_fd_' = 0
    /\ UNCHANGED <<pc, listVars, calling_functors_, epollVars, executing, pushed>>

\* Wrong variant: the eventfd is read, one count at a time, on every pass.
HandleReadUnasked ==
    /\ pc = "dispatch" /\ executing = Nothing
    /\ ActiveChannel_' = ActiveChannel_ \ {WakeupChannel}
    /\ wakeup_fd_' = wakeup_fd_ - 1
    /\ UNCHANGED <<pc, listVars, calling_functors_, ready, executing, pushed>>

\* The wakeup channel's handler: read(2) takes the whole counter.
HandleRead ==
    /\ pc = "dispatch" /\ executing = Nothing
    /\ WakeupChannel \in ActiveChannel_
    /\ ActiveChannel_' = ActiveChannel_ \ {WakeupChannel}
    /\ wakeup_fd_' = 0
    /\ UNCHANGED <<pc, listVars, calling_functors_, ready, executing, pushed>>

\* HandleEvent of an I/O channel: its handler starts and consumes the event.
HandleEvent(c) ==
    /\ pc = "dispatch" /\ executing = Nothing
    /\ c \in ActiveChannel_ \ {WakeupChannel}
    /\ ActiveChannel_' = ActiveChannel_ \ {c}
    /\ ready' = ready \ {c}
    /\ executing' = c
    /\ UNCHANGED <<pc, listVars, calling_functors_, wakeup_fd_, pushed>>

\* The handler or the task returns to Loop() or to DoToDoList().
CallbackReturns ==
    /\ executing # Nothing
    /\ LoopThread \notin pushed
    /\ executing' = Nothing
    /\ UNCHANGED <<pc, listVars, calling_functors_, wakeup_fd_, epollVars, pushed>>

\* DoToDoList up to the end of its critical section.
SwapToDoList ==
    /\ pc = "dispatch" /\ executing = Nothing /\ ActiveChannel_ = {}
    /\ pc' = "functors"
    /\ calling_functors_' = TRUE
    /\ funclists' = to_do_list_
    /\ to_do_list_' = <<>>
    /\ UNCHANGED <<wakeup_fd_, epollVars, executing, pushed, executed>>

\* Wrong variant: the vector is walked from its back.
RunFunctorLast ==
    /\ pc = "functors" /\ executing = Nothing
    /\ funclists # <<>>
    /\ executing' = funclists[Len(funclists)]
    /\ executed' = Append(executed, funclists[Len(funclists)])
    /\ funclists' = SubSeq(funclists, 1, Len(funclists) - 1)
    /\ UNCHANGED <<pc, to_do_list_, calling_functors_, wakeup_fd_, epollVars, pushed>>

\* DoToDoList's for statement calls the next task.
RunFunctor ==
    /\ pc = "functors" /\ executing = Nothing
    /\ funclists # <<>>
    /\ executing' = Head(funclists)
    /\ executed' = Append(executed, Head(funclists))
    /\ funclists' = Tail(funclists)
    /\ UNCHANGED <<pc, to_do_list_, calling_functors_, wakeup_fd_, epollVars, pushed>>

EndDoToDoList ==
    /\ pc = "functors" /\ executing = Nothing
    /\ funclists = <<>>
    /\ pc' = "wait"
    /\ calling_functors_' = FALSE
    /\ UNCHANGED <<listVars, wakeup_fd_, epollVars, executing, pushed>>

-----------------------------------------------------------------------------
(* The kernel and the whole system.                                        *)

\* Data, room or a new client arrives on an I/O channel.
BecomesReady(c) ==
    /\ c \notin ready
    /\ ready' = ready \cup {c}
    /\ UNCHANGED <<pc, listVars, calling_functors_, wakeup_fd_, ActiveChannel_,
                   executing, pushed>>

Loop ==
    \/ EnterLoop
    \/ FillActiveChannels
    \/ HandleRead
    \/ \E c \in Channels : HandleEvent(c)
    \/ CallbackReturns
    \/ SwapToDoList
    \/ RunFunctor
    \/ EndDoToDoList

Next ==
    \/ Loop
    \/ \E thread \in Threads, t \in Tasks : QueueOneFunc(thread, t)
    \/ \E thread \in Threads : WakeUp(thread)
    \/ \E t \in Tasks : RunOneFunc(t)
    \/ \E c \in Channels : BecomesReady(c)

\* The wakeup channel is among the events epoll_wait returns.
ReportsWakeup == FillActiveChannels /\ WakeupChannel \in ActiveChannel_'

\* The loop thread is never stopped for good and its callbacks return; a
\* thread that has pushed goes on to its wakeup test; and the kernel's ready
\* list rotates, so a ready eventfd is not passed over for ever.  Nothing is
\* assumed of who queues tasks or of the I/O channels.
Fairness ==
    /\ WF_vars(Loop)
    /\ \A thread \in Threads : WF_vars(WakeUp(thread))
    /\ SF_vars(ReportsWakeup)

SafeSpec == Init /\ [][Next]_vars

Spec == SafeSpec /\ Fairness

-----------------------------------------------------------------------------
(* Properties.                                                             *)

\* The shape of the state: what each field of EventLoop can hold.
TypeOK ==
    /\ pc \in {"start", "wait", "dispatch", "functors"}
    /\ to_do_list_ \in Seq(Tasks)
    /\ funclists \in Seq(Tasks)
    /\ calling_functors_ \in BOOLEAN
    /\ wakeup_fd_ \in Nat
    /\ ActiveChannel_ \subseteq Channels \cup {WakeupChannel}
    /\ ready \subseteq Channels
    /\ executing \in Tasks \cup Channels \cup {Nothing}
    /\ pushed \subseteq Threads
    /\ executed \in Seq(Tasks)

\* No wakeup is lost: whenever the loop thread is in (or about to enter)
\* epoll_wait with tasks queued, the eventfd is readable or some other thread
\* is about to write it.  Otherwise the loop could sleep on a queued task
\* until unrelated I/O arrives.
NoLostWakeup ==
    pc \in {"start", "wait"} /\ to_do_list_ # <<>> =>
        wakeup_fd_ > 0 \/ pushed \cap OtherThreads # {}

\* HandleRead's assert, eventloop.cc:39: when the wakeup handler is about to
\* run, the eventfd still holds a count, so its nonblocking read succeeds.
WakeupReadSucceeds == WakeupChannel \in ActiveChannel_ => wakeup_fd_ > 0

\* The loop does not spin: a readable eventfd is eventually read back to
\* zero, even when more channels are ready than one epoll_wait returns.
WakeupDrained == wakeup_fd_ > 0 ~> wakeup_fd_ = 0

\* The loop is a FIFO task queue: every queued task is run exactly once, in
\* the order of the pushes whatever threads made them, and eventually.  The
\* refinement mapping reads "waiting" off the batch DoToDoList is walking
\* followed by to_do_list_.
Queue == INSTANCE TaskQueue
            WITH waiting <- funclists \o to_do_list_, done <- executed

ImplementsTaskQueue == Queue!Spec
=============================================================================
