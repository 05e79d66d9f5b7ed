--------------------------- MODULE BaseThreadProofs -------------------------
(***************************************************************************)
(* What the base thread does besides running callbacks.  ThreadStart: for  *)
(* any number of I/O threads, starting them loses no signal and leaves     *)
(* their loops in the pool.  Acceptor: for any table of fds and any        *)
(* clients, NewConn closes no fd but its own and loses its reserve to the  *)
(* log only.                                                               *)
(***************************************************************************)
EXTENDS ThreadStart, Acceptor, TLAPS

-----------------------------------------------------------------------------
(* ThreadStart.                                                            *)

HandedOver == {"handed over", "Loop"}

\* How far the threads are: those before Current have handed their loops over,
\* those after it have not been made; a thread's own state tells its Latch's
\* count and its loop_.
Progress ==
    \A t \in Threads :
        /\ t < Current => thread[t] \in HandedOver /\ loops_[t] = t
        /\ t > Current => thread[t] = "none"
        /\ count_[t] = (IF thread[t] \in {"none", "countdown"} THEN 1 ELSE 0)
        /\ loop_[t] = (IF thread[t] \in HandedOver THEN t ELSE NULL)

\* What the base thread's place says of the thread it is starting.
Place ==
    /\ pc = "start" => (Current \in Threads => thread[Current] = "none")
    /\ pc \in {"latch", "latch sleep", "loop", "loop sleep"} =>
          Current \in Threads /\ thread[Current] # "none"
    /\ pc = "latch sleep" => thread[Current] = "countdown"
    /\ pc \in {"loop", "loop sleep"} => thread[Current] # "countdown"
    /\ pc = "loop sleep" => thread[Current] \notin HandedOver
    /\ pc \in {"listen", "serving"} => Len(loops_) = thread_num_

RoundRobin == thread_num_ > 0 => next_ < thread_num_

IInv == TypeOK /\ Progress /\ Place /\ RoundRobin
-----------------------------------------------------------------------------
(* The invariant.                                                          *)

\* What the proofs use of the sequence loops_.
LEMMA Facts ==
  ASSUME TypeOK
  PROVE  /\ Len(loops_) \in Nat /\ Len(loops_) <= thread_num_
         /\ Current \in Nat /\ Current = Len(loops_) + 1 /\ Current > 0
         /\ \A i \in 1..Len(loops_) : loops_[i] \in Threads
         /\ loops_ # <<>> => Len(loops_) > 0
         /\ thread_num_ \in Nat /\ \A t \in Threads : t \in Nat /\ t # NULL
  <1>1. loops_ \in Seq(Threads)
    BY DEF TypeOK
  <1>2. /\ Len(loops_) \in Nat
        /\ \A i \in 1..Len(loops_) : loops_[i] \in Threads
        /\ loops_ # <<>> => Len(loops_) > 0
    BY <1>1
  <1>3. Len(loops_) <= thread_num_
    BY DEF TypeOK
  <1>4. thread_num_ \in Nat /\ \A t \in Threads : t \in Nat /\ t # NULL
    BY ThreadAssumption DEF Threads
  <1>5. Current \in Nat /\ Current = Len(loops_) + 1 /\ Current > 0
    BY <1>2 DEF Current
  <1>6. QED
    BY <1>2, <1>3, <1>4, <1>5

\* The constructor's state satisfies the invariant.
LEMMA InitIInv == Init => IInv
  <1> SUFFICES ASSUME Init PROVE IInv
    OBVIOUS
  <1>1. Len(loops_) = 0 /\ Current = 1 /\ loops_ \in Seq(Threads)
    BY DEF Init, Current
  <1>2. thread_num_ \in Nat /\ \A t \in Threads : t \in Nat /\ t >= 1
    BY ThreadAssumption DEF Threads
  <1>3. TypeOK
    BY <1>1, <1>2 DEF Init, TypeOK
  <1>4. Progress
    BY <1>1, <1>2 DEF Init, Progress, HandedOver
  <1>5. Place /\ RoundRobin
    BY <1>1 DEF Init, Place, RoundRobin
  <1>6. QED
    BY <1>3, <1>4, <1>5 DEF IInv

\* A step of the base thread.
LEMMA BaseStep ==
  ASSUME IInv, BaseThread
  PROVE  IInv'
  <1>0. TypeOK /\ Progress /\ Place /\ RoundRobin
    BY DEF IInv
  <1>1. CASE StartThread /\ Current \in Threads
    <2>1. /\ thread[Current] = "none" /\ pc' = "latch"
          /\ thread' = [thread EXCEPT ![Current] = "countdown"]
          /\ UNCHANGED <<count_, loop_, loops_, next_, waiting>>
          /\ Current' = Current
      BY <1>0, <1>1 DEF StartThread, Place, Current
    <2>2. TypeOK'
      BY <1>0, <1>1, <2>1 DEF TypeOK
    <2>3. Progress'
      <3>1. \A t \in Threads : t # Current => thread'[t] = thread[t]
        BY <1>0, <2>1 DEF TypeOK
      <3>2. thread'[Current] = "countdown"
        BY <1>0, <1>1, <2>1 DEF TypeOK
      <3>3. SUFFICES ASSUME NEW t \in Threads
                     PROVE  /\ t < Current => thread'[t] \in HandedOver /\ loops_[t] = t
                            /\ t > Current => thread'[t] = "none"
                            /\ count_[t] = (IF thread'[t] \in {"none", "countdown"} THEN 1 ELSE 0)
                            /\ loop_[t] = (IF thread'[t] \in HandedOver THEN t ELSE NULL)
        BY <2>1 DEF Progress
      <3>4. CASE t = Current
        BY <1>0, <1>1, <2>1, <3>2, <3>4, Facts DEF Progress, HandedOver
      <3>5. CASE t # Current
        BY <1>0, <3>1, <3>5 DEF Progress
      <3>6. QED
        BY <3>4, <3>5
    <2>4. Place'
      BY <1>0, <1>1, <2>1 DEF Place, TypeOK
    <2>5. QED
      BY <1>0, <2>1, <2>2, <2>3, <2>4 DEF IInv, RoundRobin
  <1>2. CASE StartThread /\ Current \notin Threads
    <2>1. pc' = "listen" /\ UNCHANGED <<thread, count_, loop_, loops_, next_, waiting>>
          /\ Current' = Current
      BY <1>2 DEF StartThread, Current
    <2>2. Len(loops_) = thread_num_
      BY <1>0, <1>2, Facts DEF Threads
    <2>3. QED
      BY <1>0, <2>1, <2>2 DEF IInv, TypeOK, Progress, Place, RoundRobin
  <1>3. CASE LatchWait
    <2>1. /\ pc = "latch" /\ UNCHANGED <<thread, count_, loop_, loops_, next_, waiting>>
          /\ count_[Current] > 0 => pc' = "latch sleep"
          /\ ~(count_[Current] > 0) => pc' = "loop"
          /\ Current' = Current
      BY <1>3 DEF LatchWait, Current
    <2>2. Current \in Threads /\ thread[Current] # "none"
      BY <1>0, <2>1 DEF Place
    <2>3. count_[Current] = (IF thread[Current] = "countdown" THEN 1 ELSE 0)
      BY <1>0, <2>2 DEF Progress
    <2>4. TypeOK' /\ Progress'
      BY <1>0, <2>1 DEF TypeOK, Progress
    <2>5. Place'
      <3>1. CASE thread[Current] = "countdown"
        <4>0. count_[Current] = 1 /\ 1 > 0
          BY <2>3, <3>1
        <4>1. pc' = "latch sleep"
          BY <2>1, <4>0
        <4>2. QED
          BY <2>1, <2>2, <3>1, <4>1 DEF Place
      <3>2. CASE thread[Current] # "countdown"
        <4>1. pc' = "loop"
          BY <2>1, <2>3, <3>2
        <4>2. QED
          BY <2>1, <2>2, <3>2, <4>1 DEF Place
      <3>3. QED
        BY <3>1, <3>2
    <2>6. QED
      BY <1>0, <2>1, <2>4, <2>5 DEF IInv, RoundRobin
  <1>4. CASE TakeLoop /\ loop_[Current] = NULL
    <2>1. /\ pc = "loop" /\ pc' = "loop sleep" /\ Current' = Current
          /\ UNCHANGED <<thread, count_, loop_, loops_, next_, waiting>>
      BY <1>4 DEF TakeLoop, Current
    <2>2. Current \in Threads /\ thread[Current] \notin {"none", "countdown"}
      BY <1>0, <2>1 DEF Place
    <2>3. thread[Current] \notin HandedOver
      BY <1>0, <1>4, <2>2, Facts DEF Progress
    <2>4. TypeOK' /\ Progress'
      BY <1>0, <2>1 DEF TypeOK, Progress
    <2>5. Place'
      BY <2>1, <2>2, <2>3 DEF Place
    <2>6. QED
      BY <1>0, <2>1, <2>4, <2>5 DEF IInv, RoundRobin
  <1>5. CASE TakeLoop /\ loop_[Current] # NULL
    <2>1. /\ pc = "loop" /\ pc' = "start" /\ loops_' = Append(loops_, loop_[Current])
          /\ UNCHANGED <<thread, count_, loop_, next_, waiting>>
      BY <1>5 DEF TakeLoop
    <2>2. Current \in Threads
      BY <1>0, <2>1 DEF Place
    <2>3. thread[Current] \in HandedOver /\ loop_[Current] = Current
      BY <1>0, <1>5, <2>2 DEF Progress
    <2>4. /\ loops_' \in Seq(Threads)
          /\ Len(loops_') = Len(loops_) + 1
          /\ \A i \in 1..Len(loops_) : loops_'[i] = loops_[i]
          /\ loops_'[Len(loops_) + 1] = Current
      <3>1. loops_ \in Seq(Threads)
        BY <1>0 DEF TypeOK
      <3>2. QED
        BY <2>1, <2>2, <2>3, <3>1
    <2>5. Current' = Current + 1 /\ Len(loops_') = Current /\ Len(loops_') <= thread_num_
      BY <1>0, <2>2, <2>4, Facts DEF Current, Threads
    <2>6. TypeOK'
      BY <1>0, <2>1, <2>4, <2>5 DEF TypeOK
    <2>7. Progress'
      <3> SUFFICES ASSUME NEW t \in Threads
                   PROVE  /\ t < Current + 1 => thread[t] \in HandedOver /\ loops_'[t] = t
                          /\ t > Current + 1 => thread[t] = "none"
        BY <1>0, <2>1, <2>5 DEF Progress
      <3>0. /\ t < Current => thread[t] \in HandedOver /\ loops_[t] = t
            /\ t > Current => thread[t] = "none"
            /\ t \in Nat /\ t >= 1
        BY <1>0, Facts DEF Progress, Threads
      <3>1. CASE t < Current
        <4>1. t \in 1..Len(loops_)
          BY <1>0, <3>0, <3>1, Facts
        <4>2. QED
          BY <1>0, <2>4, <3>0, <3>1, <4>1, Facts
      <3>2. CASE t = Current
        BY <1>0, <2>3, <2>4, <3>2, Facts
      <3>3. CASE t > Current
        BY <1>0, <3>0, <3>3, Facts
      <3>4. QED
        BY <1>0, <3>0, <3>1, <3>2, <3>3, Facts
    <2>8. Place'
      <3>1. Current + 1 \in Threads => thread[Current + 1] = "none"
        BY <1>0, Facts DEF Progress
      <3>2. QED
        BY <2>1, <2>5, <3>1 DEF Place
    <2>9. QED
      BY <1>0, <2>1, <2>6, <2>7, <2>8 DEF IInv, RoundRobin
  <1>6. CASE Listen
    <2>1. /\ pc = "listen" /\ pc' = "serving" /\ Current' = Current
          /\ UNCHANGED <<thread, count_, loop_, loops_, next_, waiting>>
      BY <1>6 DEF Listen, Current
    <2>2. QED
      BY <1>0, <2>1 DEF IInv, TypeOK, Progress, Place, RoundRobin
  <1>7. QED
    BY <1>1, <1>2, <1>3, <1>4, <1>5, <1>6 DEF BaseThread, StartThread, TakeLoop

\* The round robin stays among the loops that there are.
LEMMA NextLoopStep ==
  ASSUME IInv, NextLoop
  PROVE  IInv'
  <1>0. TypeOK /\ Progress /\ Place /\ RoundRobin
    BY DEF IInv
  <1>1. /\ UNCHANGED <<pc, thread, count_, loop_, loops_>> /\ Current' = Current
        /\ Len(loops_) = thread_num_
    BY <1>0 DEF NextLoop, Current, Place
  <1>2. Progress' /\ Place'
    BY <1>0, <1>1 DEF Progress, Place
  <1>3. CASE loops_ = <<>>
    BY <1>0, <1>1, <1>2, <1>3 DEF NextLoop, IInv, TypeOK, RoundRobin
  <1>4. CASE loops_ # <<>>
    <2>1. /\ waiting' = waiting \cup {loops_[next_ + 1]}
          /\ next_' = (next_ + 1) % thread_num_
      BY <1>4 DEF NextLoop
    <2>2. thread_num_ \in Nat /\ thread_num_ > 0 /\ next_ \in Nat /\ next_ < thread_num_
      BY <1>0, <1>1, <1>4, Facts DEF TypeOK, RoundRobin
    <2>3. loops_[next_ + 1] \in Threads
      BY <1>0, <1>1, <2>2, Facts
    <2>4. next_' \in Nat /\ next_' < thread_num_
      BY <2>1, <2>2
    <2>5. TypeOK' /\ RoundRobin'
      BY <1>0, <1>1, <2>1, <2>3, <2>4 DEF TypeOK, RoundRobin
    <2>6. QED
      BY <1>2, <2>5 DEF IInv
  <1>5. QED
    BY <1>3, <1>4

\* An I/O thread changes its own entries, and wakes the base thread if that
\* sleeps on it.
LEMMA IoStep ==
  ASSUME IInv, NEW t \in Threads, IoThread(t)
  PROVE  IInv'
  <1>0. TypeOK /\ Progress /\ Place /\ RoundRobin
    BY DEF IInv
  <1>1. Current' = Current /\ UNCHANGED <<loops_, next_>> /\ RoundRobin'
    BY <1>0 DEF IoThread, CountDown, Construct, HandOver, EnterLoop, DoToDoList,
                Current, RoundRobin
  <1>2. CASE CountDown(t)
    <2>1. count_[t] = 1 /\ count_'[t] = 0 /\ count_' = [count_ EXCEPT ![t] = 0]
      <3>1. thread[t] = "countdown" /\ count_' = [count_ EXCEPT ![t] = @ - 1]
        BY <1>2 DEF CountDown
      <3>2. count_[t] = 1
        BY <1>0, <3>1 DEF Progress
      <3>3. count_ \in [Threads -> {0, 1}]
        BY <1>0 DEF TypeOK
      <3>4. QED
        BY <3>1, <3>2, <3>3
    <2>2. /\ pc' = (IF t = Current /\ pc = "latch sleep" THEN "latch" ELSE pc)
          /\ thread[t] = "countdown" /\ thread' = [thread EXCEPT ![t] = "construct"]
          /\ UNCHANGED <<loop_, loops_, next_, waiting>>
      BY <1>2, <2>1 DEF CountDown, Wake
    <2>3. TypeOK'
      BY <1>0, <2>1, <2>2 DEF TypeOK
    <2>4. Progress'
      <3>1. /\ \A u \in Threads : u # t => thread'[u] = thread[u] /\ count_'[u] = count_[u]
            /\ thread'[t] = "construct" /\ count_'[t] = 0
        BY <1>0, <2>1, <2>2 DEF TypeOK
      <3>2. ASSUME NEW u \in Threads, u # t
            PROVE  /\ u < Current => thread'[u] \in HandedOver /\ loops_[u] = u
                   /\ u > Current => thread'[u] = "none"
                   /\ count_'[u] = (IF thread'[u] \in {"none", "countdown"} THEN 1 ELSE 0)
                   /\ loop_[u] = (IF thread'[u] \in HandedOver THEN u ELSE NULL)
        BY <1>0, <3>1, <3>2 DEF Progress
      <3>3. /\ ~(t < Current) /\ ~(t > Current) /\ loop_[t] = NULL
        BY <1>0, <2>2 DEF Progress, HandedOver
      <3>4. QED
        BY <1>1, <2>2, <3>1, <3>2, <3>3 DEF Progress, HandedOver
    <2>5. Place'
      BY <1>0, <1>1, <2>2 DEF TypeOK, Place, HandedOver
    <2>6. QED
      BY <1>1, <2>3, <2>4, <2>5 DEF IInv
  <1>3. CASE Construct(t)
    <2>1. /\ thread[t] = "construct" /\ thread' = [thread EXCEPT ![t] = "hand over"]
          /\ UNCHANGED <<pc, count_, loop_, loops_, next_, waiting>>
      BY <1>3 DEF Construct
    <2>2. TypeOK'
      BY <1>0, <2>1 DEF TypeOK
    <2>3. Progress'
      BY <1>0, <1>1, <2>1 DEF TypeOK, Progress, HandedOver
    <2>4. Place'
      BY <1>0, <1>1, <2>1 DEF TypeOK, Place, HandedOver
    <2>5. QED
      BY <1>1, <2>2, <2>3, <2>4 DEF IInv
  <1>4. CASE HandOver(t)
    <2>1. /\ pc' = (IF t = Current /\ pc = "loop sleep" THEN "loop" ELSE pc)
          /\ thread[t] = "hand over" /\ thread' = [thread EXCEPT ![t] = "handed over"]
          /\ loop_' = [loop_ EXCEPT ![t] = t]
          /\ UNCHANGED <<count_, loops_, next_, waiting>>
      BY <1>4 DEF HandOver, Wake
    <2>2. TypeOK'
      BY <1>0, <2>1 DEF TypeOK
    <2>3. Progress'
      BY <1>0, <1>1, <2>1 DEF TypeOK, Progress, HandedOver
    <2>4. Place'
      BY <1>0, <1>1, <2>1 DEF TypeOK, Place, HandedOver
    <2>5. QED
      BY <1>1, <2>2, <2>3, <2>4 DEF IInv
  <1>5. CASE EnterLoop(t)
    <2>1. /\ thread[t] = "handed over" /\ thread' = [thread EXCEPT ![t] = "Loop"]
          /\ UNCHANGED <<pc, count_, loop_, loops_, next_, waiting>>
      BY <1>5 DEF EnterLoop
    <2>2. TypeOK'
      BY <1>0, <2>1 DEF TypeOK
    <2>3. Progress'
      BY <1>0, <1>1, <2>1 DEF TypeOK, Progress, HandedOver
    <2>4. Place'
      BY <1>0, <1>1, <2>1 DEF TypeOK, Place, HandedOver
    <2>5. QED
      BY <1>1, <2>2, <2>3, <2>4 DEF IInv
  <1>6. CASE DoToDoList(t)
    <2>1. /\ waiting' = waiting \ {t}
          /\ UNCHANGED <<pc, thread, count_, loop_, loops_, next_>>
      BY <1>6 DEF DoToDoList
    <2>2. TypeOK' /\ Progress' /\ Place'
      BY <1>0, <1>1, <2>1 DEF TypeOK, Progress, Place
    <2>3. QED
      BY <1>1, <2>2 DEF IInv
  <1>7. QED
    BY <1>2, <1>3, <1>4, <1>5, <1>6 DEF IoThread

\* A spurious wakeup sends the base thread back to a test.
LEMMA SpuriousStep ==
  ASSUME IInv, SpuriousWakeup
  PROVE  IInv'
  <1>1. Current' = Current
    BY DEF SpuriousWakeup, Current
  <1>2. QED
    BY <1>1 DEF SpuriousWakeup, IInv, TypeOK, Progress, Place, RoundRobin

\* The whole start-up, for any number of I/O threads.
THEOREM Invariance == SafeSpec => []IInv
  <1>1. Init => IInv
    BY InitIInv
  <1>2. IInv /\ [Next]_vars => IInv'
    <2> SUFFICES ASSUME IInv, [Next]_vars PROVE IInv'
      OBVIOUS
    <2>1. CASE UNCHANGED vars
      <3>1. Current' = Current
        BY <2>1 DEF vars, Current
      <3>2. QED
        BY <2>1, <3>1 DEF vars, IInv, TypeOK, Progress, Place, RoundRobin
    <2>2. QED
      BY <2>1, BaseStep, NextLoopStep, SpuriousStep, IoStep DEF Next
  <1>3. QED
    BY <1>1, <1>2, PTL DEF SafeSpec

\* Types, and that no loop handed out is null.
THEOREM TypeCorrect == SafeSpec => []TypeOK
  <1>1. IInv => TypeOK
    BY DEF IInv
  <1>2. QED
    BY <1>1, Invariance, PTL

\* The base thread never sleeps on a signal that has been given already.
THEOREM SignalNeverLost == SafeSpec => []NoLostSignal
  <1>1. IInv => NoLostSignal
    <2> SUFFICES ASSUME IInv PROVE NoLostSignal
      OBVIOUS
    <2>0. TypeOK /\ Progress /\ Place
      BY DEF IInv
    <2>1. pc = "latch sleep" => count_[Current] = 1 /\ thread[Current] = "countdown"
      BY <2>0 DEF Progress, Place
    <2>2. ASSUME pc = "loop sleep"
          PROVE  loop_[Current] = NULL /\ thread[Current] \in {"construct", "hand over"}
      <3>1. /\ Current \in Threads
            /\ thread[Current] \notin {"none", "countdown"} \cup HandedOver
        BY <2>0, <2>2 DEF Place
      <3>2. thread[Current] \in {"construct", "hand over"}
        BY <2>0, <3>1 DEF TypeOK, HandedOver
      <3>3. QED
        BY <2>0, <3>1, <3>2 DEF Progress
    <2>3. QED
      BY <2>1, <2>2 DEF NoLostSignal
  <1>2. QED
    BY <1>1, Invariance, PTL

\* Every loop in the pool exists, and NextLoop stays among them.
THEOREM PoolHoldsLoops == SafeSpec => []LoopsExist
  <1>1. IInv => LoopsExist
    <2> SUFFICES ASSUME IInv PROVE LoopsExist
      OBVIOUS
    <2>0. TypeOK /\ Progress /\ Place /\ RoundRobin
      BY DEF IInv
    <2>1. ASSUME NEW i \in 1..Len(loops_)
          PROVE  loops_[i] = i /\ thread[i] \in {"handed over", "Loop"}
      <3>1. i \in Threads /\ i < Current
        BY <2>0, Facts DEF Threads
      <3>2. QED
        BY <2>0, <3>1 DEF Progress, HandedOver
    <2>2. loops_ # <<>> => next_ < thread_num_
      BY <2>0, Facts DEF RoundRobin
    <2>3. QED
      BY <2>0, <2>1, <2>2 DEF Place, LoopsExist
  <1>2. QED
    BY <1>1, Invariance, PTL

-----------------------------------------------------------------------------
(* Acceptor.                                                               *)

\* While NewConn is without its reserve, there is a free fd for it to open,
\* unless the log has taken the last one.
RoomToReopen ==
    /\ newconn \in {"closed", "dropped"} => Free # {} \/ taken
    /\ newconn = "accepted" => idlefd_ # None \/ Free # {} \/ taken

\* The invariant: idlefd_ tells an fd from none, and whoever has it.
AcceptorInv ==
    /\ AcceptorTypeOK
    /\ ClosesItsOwn
    /\ newconn \in {"wait", "full"} /\ idlefd_ = None => taken
    /\ RoomToReopen
    /\ old = None \/ old # fp_

USE AcceptorAssumption

\* What close makes of the table.
LEMMA CloseTable ==
    ASSUME AcceptorTypeOK, NEW fd, Close(fd)
    PROVE  /\ table' \in [Fds -> Clients \cup {"free", "reserve", "log"}]
           /\ \A f \in Fds : table'[f] = IF f = fd THEN "free" ELSE table[f]
           /\ Free \subseteq Free'
           /\ fd \in Fds => fd \in Free'
BY DEF AcceptorTypeOK, Close, Free

\* What open makes of the table.
LEMMA OpenTable ==
    ASSUME AcceptorTypeOK, NEW fd \in Fds \cup {None},
           NEW owner \in Clients \cup {"reserve", "log"}, Open(fd, owner)
    PROVE  /\ table' \in [Fds -> Clients \cup {"free", "reserve", "log"}]
           /\ \A f \in Fds : table'[f] = IF f = fd THEN owner ELSE table[f]
           /\ Free' = Free \ {fd}
           /\ fd = None \/ fd \in Free
           /\ fd = None => Free = {}
<1>1. fd \in Free \/ (fd = None /\ Free = {})
  BY DEF Open
<1>2. /\ table' \in [Fds -> Clients \cup {"free", "reserve", "log"}]
      /\ \A f \in Fds : table'[f] = IF f = fd THEN owner ELSE table[f]
  BY DEF AcceptorTypeOK, Open
<1>3. owner # "free"
  OBVIOUS
<1>4. Free' = Free \ {fd}
  BY <1>2, <1>3 DEF Free
<1>5. QED
  BY <1>1, <1>2, <1>4 DEF Free

\* The first state.
LEMMA AcceptorStarts == AcceptorInit => AcceptorInv
BY DEF AcceptorInit, AcceptorInv, AcceptorTypeOK, ClosesItsOwn, RoomToReopen

\* Every step keeps the invariant.
LEMMA AcceptorPreserves == AcceptorInv /\ [AcceptorNext]_acceptorVars => AcceptorInv'
<1> SUFFICES ASSUME AcceptorInv, [AcceptorNext]_acceptorVars PROVE AcceptorInv'
  OBVIOUS
<1>0. /\ AcceptorTypeOK /\ ClosesItsOwn /\ RoomToReopen
      /\ newconn \in {"wait", "full"} /\ idlefd_ = None => taken
      /\ old = None \/ old # fp_
  BY DEF AcceptorInv
<1>1. ASSUME NEW c \in Clients, NewConn(c) PROVE AcceptorInv'
  <2>1. CASE UNCHANGED table
    BY <1>0, <1>1, <2>1 DEF NewConn, Accept, logVars, AcceptorInv, AcceptorTypeOK, ClosesItsOwn,
       RoomToReopen, Free
  <2>2. CASE \E f \in Free : Open(f, c)
    <3>1. PICK f \in Free : Open(f, c)
      BY <2>2
    <3>2. f \in Fds
      BY DEF Free
    <3>3. /\ table' \in [Fds -> Clients \cup {"free", "reserve", "log"}]
          /\ \A g \in Fds : table'[g] = IF g = f THEN c ELSE table[g]
      BY <1>0, <3>1, <3>2, OpenTable
    <3>4. /\ newconn = "wait" /\ UNCHANGED <<idlefd_, newconn, fp_, old, crashed, taken>>
          /\ backlog' \subseteq backlog /\ answered' = answered \cup {c}
      BY <1>1 DEF NewConn, Accept, logVars
    <3>5. AcceptorTypeOK'
      BY <1>0, <3>3, <3>4 DEF AcceptorTypeOK
    <3>6. ClosesItsOwn'
      BY <1>0, <3>1, <3>3, <3>4 DEF ClosesItsOwn, Free
    <3>7. QED
      BY <1>0, <3>4, <3>5, <3>6 DEF AcceptorInv, RoomToReopen
  <2>3. QED
    BY <1>1, <2>1, <2>2 DEF NewConn
<1>2. CASE NewConnFull
  BY <1>0, <1>2 DEF NewConnFull, clientVars, logVars, AcceptorInv, AcceptorTypeOK, ClosesItsOwn,
     RoomToReopen, Free
<1>3. CASE CloseReserve
  <2>1. /\ newconn = "full" /\ newconn' = "closed"
        /\ UNCHANGED <<backlog, answered, idlefd_, fp_, old, crashed, taken>>
    BY <1>3 DEF CloseReserve, clientVars, logVars
  <2>2. /\ table' \in [Fds -> Clients \cup {"free", "reserve", "log"}]
        /\ \A f \in Fds : table'[f] = IF f = idlefd_ THEN "free" ELSE table[f]
        /\ idlefd_ \in Fds => idlefd_ \in Free'
    BY <1>0, <1>3, CloseTable DEF CloseReserve
  <2>3. AcceptorTypeOK'
    BY <1>0, <2>1, <2>2 DEF AcceptorTypeOK
  <2>4. ClosesItsOwn'
    BY <1>0, <2>1, <2>2 DEF ClosesItsOwn, AcceptorTypeOK
  <2>5. RoomToReopen'
    BY <1>0, <2>1, <2>2 DEF RoomToReopen, AcceptorTypeOK
  <2>6. QED
    BY <1>0, <2>1, <2>3, <2>4, <2>5 DEF AcceptorInv
<1>4. CASE AcceptReserve
  <2>1. PICK fd \in Free \cup {None} :
            /\ Open(fd, "reserve") /\ idlefd_' = fd
            /\ IF fd = None THEN UNCHANGED clientVars ELSE \E c \in backlog : Accept(c)
    BY <1>4 DEF AcceptReserve, Accepted
  <2>2. fd \in Fds \cup {None}
    BY DEF Free
  <2>3. /\ newconn = "closed" /\ newconn' = "accepted" /\ UNCHANGED <<fp_, old, crashed, taken>>
    BY <1>4 DEF AcceptReserve, logVars
  <2>4. backlog' \subseteq Clients /\ answered' \subseteq Clients
    BY <1>0, <2>1 DEF Accept, clientVars, AcceptorTypeOK
  <2>5. /\ table' \in [Fds -> Clients \cup {"free", "reserve", "log"}]
        /\ \A f \in Fds : table'[f] = IF f = fd THEN "reserve" ELSE table[f]
        /\ fd = None \/ fd \in Free
        /\ fd = None => Free = {}
    BY <1>0, <2>1, <2>2, OpenTable
  <2>6. AcceptorTypeOK'
    BY <2>1, <2>2, <2>3, <2>4, <2>5, <1>0 DEF AcceptorTypeOK
  <2>7. ClosesItsOwn'
    BY <1>0, <2>1, <2>2, <2>3, <2>5 DEF ClosesItsOwn, Free
  <2>8. RoomToReopen'
    BY <1>0, <2>1, <2>3, <2>5 DEF RoomToReopen
  <2>9. QED
    BY <1>0, <2>3, <2>6, <2>7, <2>8 DEF AcceptorInv
<1>5. CASE Drop
  <2>1. /\ newconn = "accepted" /\ newconn' = "dropped"
        /\ UNCHANGED <<backlog, answered, idlefd_, fp_, old, crashed, taken>>
    BY <1>5 DEF Drop, clientVars, logVars
  <2>2. /\ table' \in [Fds -> Clients \cup {"free", "reserve", "log"}]
        /\ \A f \in Fds : table'[f] = IF f = idlefd_ THEN "free" ELSE table[f]
        /\ Free \subseteq Free'
        /\ idlefd_ \in Fds => idlefd_ \in Free'
    BY <1>0, <1>5, CloseTable DEF Drop, TurnedAway
  <2>3. AcceptorTypeOK'
    BY <1>0, <2>1, <2>2 DEF AcceptorTypeOK
  <2>4. ClosesItsOwn'
    BY <1>0, <2>1, <2>2 DEF ClosesItsOwn, AcceptorTypeOK
  <2>5. RoomToReopen'
    BY <1>0, <2>1, <2>2 DEF RoomToReopen, AcceptorTypeOK
  <2>6. QED
    BY <1>0, <2>1, <2>3, <2>4, <2>5 DEF AcceptorInv
<1>6. CASE Reopen
  <2>1. PICK fd \in Free \cup {None} : Open(fd, "reserve") /\ idlefd_' = fd
    BY <1>6 DEF Reopen
  <2>2. fd \in Fds \cup {None}
    BY DEF Free
  <2>3. /\ newconn = "dropped" /\ newconn' = "wait"
        /\ UNCHANGED <<backlog, answered, fp_, old, crashed, taken>>
    BY <1>6 DEF Reopen, clientVars, logVars
  <2>4. /\ table' \in [Fds -> Clients \cup {"free", "reserve", "log"}]
        /\ \A f \in Fds : table'[f] = IF f = fd THEN "reserve" ELSE table[f]
        /\ fd = None \/ fd \in Free
        /\ fd = None => Free = {}
    BY <1>0, <2>1, <2>2, OpenTable
  <2>5. AcceptorTypeOK'
    BY <1>0, <2>1, <2>2, <2>3, <2>4 DEF AcceptorTypeOK
  <2>6. ClosesItsOwn'
    BY <1>0, <2>1, <2>2, <2>3, <2>4 DEF ClosesItsOwn, Free
  <2>7. idlefd_' = None => taken'
    BY <1>0, <2>1, <2>3, <2>4 DEF RoomToReopen
  <2>8. QED
    BY <1>0, <2>3, <2>5, <2>6, <2>7 DEF AcceptorInv, RoomToReopen
<1>7. CASE OpenLog
  <2>1. PICK fd \in Free \cup {None} :
            /\ Open(fd, "log") /\ fp_' = fd
            /\ taken' = (taken \/ (newconn \in {"closed", "accepted", "dropped"} /\ Free = {fd}))
    BY <1>7 DEF OpenLog
  <2>2. fd \in Fds \cup {None}
    BY DEF Free
  <2>3. /\ old = None /\ old' = fp_
        /\ UNCHANGED <<backlog, answered, idlefd_, newconn, crashed>>
    BY <1>7 DEF OpenLog, clientVars
  <2>4. /\ table' \in [Fds -> Clients \cup {"free", "reserve", "log"}]
        /\ \A f \in Fds : table'[f] = IF f = fd THEN "log" ELSE table[f]
        /\ Free' = Free \ {fd}
        /\ fd = None \/ fd \in Free
    BY <1>0, <2>1, <2>2, OpenTable
  <2>5. AcceptorTypeOK'
    BY <1>0, <2>1, <2>2, <2>3, <2>4 DEF AcceptorTypeOK
  <2>6. ClosesItsOwn'
    BY <1>0, <2>1, <2>2, <2>3, <2>4 DEF ClosesItsOwn, Free
  <2>7. RoomToReopen'
    BY <1>0, <2>1, <2>3, <2>4 DEF RoomToReopen
  <2>8. fp_ = None \/ fp_' # fp_
    BY <1>0, <2>1, <2>4 DEF ClosesItsOwn, Free, AcceptorTypeOK
  <2>9. QED
    BY <1>0, <2>1, <2>3, <2>5, <2>6, <2>7, <2>8 DEF AcceptorInv
<1>8. CASE CloseLog
  <2>1. /\ old # None /\ old' = None
        /\ UNCHANGED <<backlog, answered, idlefd_, newconn, fp_, crashed, taken>>
    BY <1>8 DEF CloseLog, clientVars
  <2>2. /\ table' \in [Fds -> Clients \cup {"free", "reserve", "log"}]
        /\ \A f \in Fds : table'[f] = IF f = old THEN "free" ELSE table[f]
        /\ Free \subseteq Free'
    BY <1>0, <1>8, CloseTable DEF CloseLog
  <2>3. QED
    BY <1>0, <2>1, <2>2 DEF AcceptorInv, AcceptorTypeOK, ClosesItsOwn, RoomToReopen
<1>9. CASE WriteLog
  BY <1>0, <1>9 DEF WriteLog, clientVars, AcceptorInv, AcceptorTypeOK, ClosesItsOwn,
     RoomToReopen, Free
<1>10. ASSUME NEW c \in Clients, Connect(c) PROVE AcceptorInv'
  BY <1>0, <1>10 DEF Connect, logVars, AcceptorInv, AcceptorTypeOK, ClosesItsOwn, RoomToReopen, Free
<1>11. ASSUME NEW f \in Fds, CloseConnection(f) PROVE AcceptorInv'
  <2>1. /\ table[f] \in Clients
        /\ UNCHANGED <<backlog, answered, idlefd_, newconn, fp_, old, crashed, taken>>
    BY <1>11 DEF CloseConnection, clientVars, logVars
  <2>2. /\ table' \in [Fds -> Clients \cup {"free", "reserve", "log"}]
        /\ \A g \in Fds : table'[g] = IF g = f THEN "free" ELSE table[g]
        /\ Free \subseteq Free'
    BY <1>0, <1>11, CloseTable DEF CloseConnection
  <2>3. QED
    BY <1>0, <2>1, <2>2 DEF AcceptorInv, AcceptorTypeOK, ClosesItsOwn, RoomToReopen
<1>12. CASE UNCHANGED acceptorVars
  BY <1>0, <1>12 DEF acceptorVars, AcceptorInv, AcceptorTypeOK, ClosesItsOwn, RoomToReopen, Free
<1>13. QED
  BY <1>1, <1>2, <1>3, <1>4, <1>5, <1>6, <1>7, <1>8, <1>9, <1>10, <1>11, <1>12
     DEF AcceptorNext, AcceptLoop, LogThread

\* The invariant holds always.
THEOREM AcceptorInvariance == AcceptorSafeSpec => []AcceptorInv
BY AcceptorStarts, AcceptorPreserves, PTL DEF AcceptorSafeSpec

\* The shape of the state, for any table and any clients.
THEOREM AcceptorTypeCorrect == AcceptorSafeSpec => []AcceptorTypeOK
BY AcceptorInvariance, PTL DEF AcceptorInv

\* NewConn never closes an fd that has come to be somebody else's.
THEOREM AlwaysClosesItsOwn == AcceptorSafeSpec => []ClosesItsOwn
BY AcceptorInvariance, PTL DEF AcceptorInv

\* Only the log thread can cost the server its reserve.
THEOREM ReserveKept == AcceptorSafeSpec => []ReserveLostOnlyToLog
<1>1. AcceptorInv => ReserveLostOnlyToLog
  BY DEF AcceptorInv, ReserveLostOnlyToLog
<1>2. QED
  BY <1>1, AcceptorInvariance, PTL
=============================================================================
