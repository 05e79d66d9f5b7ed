-------------------------- MODULE EventLoopProofs ---------------------------
(***************************************************************************)
(* Proofs about EventLoop for every set of tasks, threads and channels and *)
(* every MAX_EVENTS: type correctness, no lost wakeup, the assertion in    *)
(* HandleRead, and that the loop implements TaskQueue (its safety part;    *)
(* the liveness part is model-checked).                                    *)
(***************************************************************************)
EXTENDS EventLoop, SequenceTheorems, TLAPS

\* calling_functors_ is up exactly while DoToDoList runs functors, which is
\* why QueueOneFunc may rely on it in the loop thread.
FlagMatchesPc == calling_functors_ <=> pc = "functors"

\* User code runs only while events are dispatched or functors are run, and
\* only user code of the loop thread can be half way through QueueOneFunc.
CallsComeFromCallbacks ==
    /\ executing # Nothing => pc \in {"dispatch", "functors"}
    /\ LoopThread \in pushed => executing # Nothing

\* NoLostWakeup, strengthened to every point of the loop but "dispatch",
\* whose swap still lies ahead; WakeUp by a thread in pushed counts as a
\* wakeup to come wherever that thread's test will come out true.
WakeupOwed ==
    pc # "dispatch" /\ to_do_list_ # <<>> => wakeup_fd_ > 0 \/ pushed # {}

\* The events of one epoll_wait are all handled before the next one.
ActiveOnlyInDispatch == ActiveChannel_ # {} => pc = "dispatch"

\* DoToDoList's local vector lives only while its functors are run.
BatchOnlyInFunctors == funclists # <<>> => pc = "functors"

\* The inductive invariant.
IInv ==
    /\ TypeOK
    /\ FlagMatchesPc
    /\ CallsComeFromCallbacks
    /\ WakeupOwed
    /\ ActiveOnlyInDispatch
    /\ BatchOnlyInFunctors
    /\ WakeupReadSucceeds

-----------------------------------------------------------------------------
(* The invariant is inductive.                                             *)

\* The state the constructor leaves satisfies the invariant.
LEMMA InitIInv == Init => IInv
  <1>1. SUFFICES ASSUME Init PROVE IInv
    OBVIOUS
  <1>2. TypeOK
    <2>1. calling_functors_ \in BOOLEAN
      BY <1>1 DEF Init
    <2>2. <<>> \in Seq(Tasks)
      OBVIOUS
    <2>3. QED
      BY <1>1, <2>1, <2>2 DEF Init, TypeOK
  <1>3. QED
    BY <1>1, <1>2 DEF Init, IInv, FlagMatchesPc, CallsComeFromCallbacks,
         WakeupOwed, ActiveOnlyInDispatch, BatchOnlyInFunctors,
         WakeupReadSucceeds

\* Every step of the loop keeps every field in its range.
LEMMA StepTypeOK == ASSUME IInv, [Next]_vars PROVE TypeOK'
  <1> USE EventLoopAssumption DEF IInv, listVars, epollVars
  <1>1. CASE \E thread \in Threads, t \in Tasks : QueueOneFunc(thread, t)
    BY <1>1 DEF TypeOK, QueueOneFunc, Threads
  <1>2. CASE \E thread \in Threads : WakeUp(thread)
    BY <1>2 DEF TypeOK, WakeUp, Threads
  <1>3. CASE \E t \in Tasks : RunOneFunc(t)
    BY <1>3 DEF TypeOK, RunOneFunc
  <1>4. CASE EnterLoop
    BY <1>4 DEF TypeOK, EnterLoop
  <1>5. CASE FillActiveChannels
    <2>1. Reportable \subseteq Channels \cup {WakeupChannel}
      BY DEF TypeOK, Reportable
    <2>2. ActiveChannel_' \subseteq Channels \cup {WakeupChannel}
      BY <1>5, <2>1 DEF FillActiveChannels
    <2>3. QED
      BY <1>5, <2>2 DEF TypeOK, FillActiveChannels
  <1>6. CASE HandleRead
    BY <1>6 DEF TypeOK, HandleRead
  <1>7. CASE \E c \in Channels : HandleEvent(c)
    BY <1>7 DEF TypeOK, HandleEvent
  <1>8. CASE CallbackReturns
    BY <1>8 DEF TypeOK, CallbackReturns
  <1>9. CASE SwapToDoList
    BY <1>9 DEF TypeOK, SwapToDoList
  <1>10. CASE RunFunctor
    BY <1>10 DEF TypeOK, RunFunctor
  <1>11. CASE EndDoToDoList
    BY <1>11 DEF TypeOK, EndDoToDoList
  <1>12. CASE \E c \in Channels : BecomesReady(c)
    BY <1>12 DEF TypeOK, BecomesReady
  <1>13. CASE UNCHANGED vars
    BY <1>13 DEF TypeOK, vars
  <1>14. QED
    BY <1>1, <1>2, <1>3, <1>4, <1>5, <1>6, <1>7, <1>8, <1>9, <1>10, <1>11,
       <1>12, <1>13 DEF Next, Loop

\* Every step keeps the rest of the invariant.  The two steps that matter are
\* the two that can take a wakeup away: WakeUp, which leaves pushed without
\* writing only where calling_functors_ is down, and HandleRead, which
\* empties the eventfd only with the swap still ahead.
LEMMA StepRest ==
  ASSUME IInv, [Next]_vars
  PROVE  /\ FlagMatchesPc'
         /\ CallsComeFromCallbacks'
         /\ WakeupOwed'
         /\ ActiveOnlyInDispatch'
         /\ BatchOnlyInFunctors'
         /\ WakeupReadSucceeds'
  <1> USE EventLoopAssumption
      DEF IInv, FlagMatchesPc, CallsComeFromCallbacks, WakeupOwed,
          ActiveOnlyInDispatch, BatchOnlyInFunctors, WakeupReadSucceeds,
          listVars, epollVars
  <1>1. CASE \E thread \in Threads, t \in Tasks : QueueOneFunc(thread, t)
    BY <1>1 DEF QueueOneFunc, MayCall, TypeOK
  <1>2. ASSUME NEW thread \in Threads, WakeUp(thread)
        PROVE  /\ FlagMatchesPc'
               /\ CallsComeFromCallbacks'
               /\ WakeupOwed'
               /\ ActiveOnlyInDispatch'
               /\ BatchOnlyInFunctors'
               /\ WakeupReadSucceeds'
    <2>1. CASE NeedsWakeup(thread)
      BY <1>2, <2>1 DEF WakeUp, TypeOK
    <2>2. CASE ~NeedsWakeup(thread)
      BY <1>2, <2>2 DEF WakeUp, NeedsWakeup, IsInThreadLoop
    <2>3. QED
      BY <2>1, <2>2
  <1>3. CASE \E t \in Tasks : RunOneFunc(t)
    BY <1>3 DEF RunOneFunc
  <1>4. CASE EnterLoop
    BY <1>4 DEF EnterLoop
  <1>5. CASE FillActiveChannels
    BY <1>5 DEF FillActiveChannels, Reportable, TypeOK
  <1>6. CASE HandleRead
    BY <1>6 DEF HandleRead
  <1>7. CASE \E c \in Channels : HandleEvent(c)
    BY <1>7 DEF HandleEvent
  <1>8. CASE CallbackReturns
    BY <1>8 DEF CallbackReturns
  <1>9. CASE SwapToDoList
    BY <1>9 DEF SwapToDoList
  <1>10. CASE RunFunctor
    BY <1>10 DEF RunFunctor
  <1>11. CASE EndDoToDoList
    BY <1>11 DEF EndDoToDoList
  <1>12. CASE \E c \in Channels : BecomesReady(c)
    BY <1>12 DEF BecomesReady
  <1>13. CASE UNCHANGED vars
    BY <1>13 DEF vars
  <1>14. QED
    BY <1>1, <1>2, <1>3, <1>4, <1>5, <1>6, <1>7, <1>8, <1>9, <1>10, <1>11,
       <1>12, <1>13 DEF Next, Loop

\* The inductive invariant holds in every reachable state.
THEOREM Invariance == SafeSpec => []IInv
  <1>1. Init => IInv
    BY InitIInv
  <1>2. IInv /\ [Next]_vars => IInv'
    BY StepTypeOK, StepRest DEF IInv
  <1>3. QED
    BY <1>1, <1>2, PTL DEF SafeSpec

-----------------------------------------------------------------------------
(* What follows from it.                                                   *)

\* Every field of the loop stays in its range in every behaviour.
THEOREM TypeCorrect == SafeSpec => []TypeOK
  <1>1. IInv => TypeOK
    BY DEF IInv
  <1>2. QED
    BY <1>1, Invariance, PTL

\* No wakeup is lost (QueueOneFunc's push and test against Loop's read, swap
\* and return to epoll_wait), whatever the number of threads and tasks.
THEOREM WakeupNeverLost == SafeSpec => []NoLostWakeup
  <1>1. IInv => NoLostWakeup
    BY DEF IInv, NoLostWakeup, WakeupOwed, CallsComeFromCallbacks, TypeOK,
           Threads
  <1>2. QED
    BY <1>1, Invariance, PTL

\* HandleRead's assertion never fails.
THEOREM WakeupReadNeverFails == SafeSpec => []WakeupReadSucceeds
  <1>1. IInv => WakeupReadSucceeds
    BY DEF IInv
  <1>2. QED
    BY <1>1, Invariance, PTL

-----------------------------------------------------------------------------
(* The loop implements TaskQueue.                                          *)

\* The tasks of a concatenation are the tasks of its two parts.
LEMMA RangeOfConcat ==
  ASSUME NEW s \in Seq(Tasks), NEW t \in Seq(Tasks)
  PROVE  Range(s \o t) = Range(s) \cup Range(t)
  BY RangeConcatenation

\* Every step of the loop is a step of the queue, or none: a push is a
\* Submit, a task run in its caller is a RunNow, DoToDoList's next call is
\* RunOldest, and the swap leaves batch \o list as it was.
LEMMA StepRefines == ASSUME IInv, [Next]_vars PROVE [Queue!Next]_(Queue!vars)
  <1> USE EventLoopAssumption DEF IInv, TypeOK, Queue!vars, listVars, epollVars
  <1>0. \A s : Queue!Range(s) = Range(s)
    BY DEF Range, Queue!Range
  <1>1. ASSUME NEW thread \in Threads, NEW t \in Tasks, QueueOneFunc(thread, t)
        PROVE  Queue!Submit(t)
    <2>1. (funclists \o to_do_list_)' = Append(funclists \o to_do_list_, t)
      <3>1. to_do_list_' = to_do_list_ \o <<t>> /\ funclists' = funclists
        BY <1>1, AppendIsConcat DEF QueueOneFunc
      <3>2. funclists \o (to_do_list_ \o <<t>>) =
            (funclists \o to_do_list_) \o <<t>>
        BY ConcatAssociative, <<t>> \in Seq(Tasks)
      <3>3. QED
        BY <3>1, <3>2, AppendIsConcat, ConcatProperties
    <2>2. Queue!Unseen(t)
      BY <1>0, <1>1, RangeOfConcat DEF QueueOneFunc, New, Queue!Unseen
    <2>3. QED
      BY <1>1, <2>1, <2>2 DEF QueueOneFunc, Queue!Submit
  <1>2. ASSUME NEW t \in Tasks, RunOneFunc(t)
        PROVE  Queue!RunNow(t)
    <2>1. Queue!Unseen(t)
      BY <1>0, <1>2, RangeOfConcat DEF RunOneFunc, New, Queue!Unseen
    <2>2. QED
      BY <1>2, <2>1 DEF RunOneFunc, Queue!RunNow
  <1>3. ASSUME RunFunctor
        PROVE  Queue!RunOldest
    <2>1. funclists # <<>>
      BY <1>3 DEF RunFunctor
    <2>2. Head(funclists \o to_do_list_) = Head(funclists)
      BY <2>1, ConcatProperties, HeadTailProperties
    <2>3. Tail(funclists \o to_do_list_) = Tail(funclists) \o to_do_list_
      BY <2>1, ConcatProperties, HeadTailProperties
    <2>4. funclists \o to_do_list_ # <<>>
      BY <2>1, ConcatEqualIffEmpty
    <2>5. QED
      BY <1>3, <2>2, <2>3, <2>4 DEF RunFunctor, Queue!RunOldest
  <1>4. ASSUME SwapToDoList
        PROVE  UNCHANGED <<funclists \o to_do_list_, executed>>
    <2>1. funclists = <<>>
      BY <1>4 DEF SwapToDoList, BatchOnlyInFunctors
    <2>2. (funclists \o to_do_list_)' = to_do_list_
      BY <1>4, ConcatEmptySeq DEF SwapToDoList
    <2>3. QED
      BY <1>4, <2>1, <2>2, ConcatEmptySeq DEF SwapToDoList
  <1>5. ASSUME \/ \E thread \in Threads : WakeUp(thread)
               \/ EnterLoop
               \/ FillActiveChannels
               \/ HandleRead
               \/ \E c \in Channels : HandleEvent(c) \/ BecomesReady(c)
               \/ CallbackReturns
               \/ EndDoToDoList
               \/ UNCHANGED vars
        PROVE  UNCHANGED <<funclists, to_do_list_, executed>>
    BY <1>5 DEF WakeUp, EnterLoop, FillActiveChannels, HandleRead,
                HandleEvent, BecomesReady, CallbackReturns, EndDoToDoList,
                vars
  <1>6. QED
    BY <1>1, <1>2, <1>3, <1>4, <1>5 DEF Next, Loop, Queue!Next

\* The loop implements the safety part of the FIFO task queue: every task is
\* started at most once and queued tasks are started in the order of the
\* pushes, whatever threads made them.
THEOREM ImplementsQueueSafety == SafeSpec => Queue!SafeSpec
  <1>1. Init => Queue!Init
    BY ConcatEmptySeq, EmptySeq DEF Init, Queue!Init
  <1>2. IInv /\ [Next]_vars => [Queue!Next]_(Queue!vars)
    BY StepRefines
  <1>3. QED
    BY <1>1, <1>2, Invariance, PTL DEF SafeSpec, Queue!SafeSpec

=============================================================================
