-------------------------- MODULE TimerQueueProofs --------------------------
(***************************************************************************)
(* The safety of TimerQueue for any timers, intervals, clock steps and     *)
(* delays.                                                                 *)
(***************************************************************************)
EXTENDS TimerQueue, WellFoundedInduction, TLAPS

\* A nonempty set of natural numbers has a least element.
LEMMA LeastOfNats ==
    ASSUME NEW T, T \subseteq Nat, T # {}
    PROVE  \E x \in T : \A y \in T : x <= y
<1> DEFINE R == OpToRel(<, Nat)
<1>1. PICK x \in T : \A y \in T : <<y, x>> \notin R
  <2> HIDE DEF R
  <2> QED BY WFMin, NatLessThanWellFounded DEF R
<1>2. ASSUME NEW y \in T PROVE x <= y
  <2>1. x \in Nat /\ y \in Nat
    OBVIOUS
  <2>2. ~(y < x)
    BY <1>1, <2>1 DEF OpToRel
  <2> QED BY <2>1, <2>2
<1> QED BY <1>2

\* So has one of integers that are no less than -Overdue.
LEMMA LeastOfInts ==
    ASSUME TimerAssumption, NEW T, T \subseteq Int, T # {}, \A x \in T : x >= -Overdue
    PROVE  \E x \in T : \A y \in T : x <= y
<1> DEFINE N == {x + Overdue : x \in T}
<1>0. Overdue \in Nat
  BY DEF TimerAssumption
<1>1. N \subseteq Nat /\ N # {}
  <2>1. ASSUME NEW x \in T PROVE x + Overdue \in Nat
    <3>1. x \in Int /\ x >= -Overdue
      OBVIOUS
    <3> QED BY <1>0, <3>1
  <2> QED BY <2>1
<1>2. PICK n \in N : \A k \in N : n <= k
  <2> HIDE DEF N
  <2> QED BY <1>1, LeastOfNats
<1>3. PICK x \in T : n = x + Overdue
  BY <1>2
<1>4. ASSUME NEW y \in T PROVE x <= y
  <2>1. y + Overdue \in N
    OBVIOUS
  <2>2. x + Overdue <= y + Overdue
    BY <1>2, <1>3, <2>1
  <2> QED BY <1>0, <2>2
<1> QED BY <1>4

Entry == {e \in [at : Int, timer : Timers] : e.at >= -Overdue}

\* What Earliest finds.
LEMMA EarliestIsLeast ==
    ASSUME TimerAssumption, NEW entries, entries \subseteq Entry, entries # {}
    PROVE  /\ Earliest(entries) \in Int
           /\ \E e \in entries : e.at = Earliest(entries)
           /\ \A e \in entries : Earliest(entries) <= e.at
<1> DEFINE T == {e.at : e \in entries}
<1>1. T \subseteq Int /\ T # {} /\ \A x \in T : x >= -Overdue
  BY DEF Entry
<1>2. \E x \in T : \A y \in T : x <= y
  <2> HIDE DEF T
  <2> QED BY <1>1, LeastOfInts
<1>3. \E x \in T : \A e \in entries : x <= e.at
  BY <1>2
<1>4. Earliest(entries) \in T /\ \A e \in entries : Earliest(entries) <= e.at
  BY <1>3 DEF Earliest
<1> QED BY <1>1, <1>4

\* A timer is made for now or later.
LEMMA NewIsEntry ==
    ASSUME TimerAssumption, NEW t \in Timers
    PROVE  New(t) \in Entry /\ New(t).timer = t
<1>1. Interval[t] \in Nat /\ Second \in Nat /\ Second > 0 /\ Overdue \in Nat
  BY DEF TimerAssumption
<1>2. Interval[t] \div Second \in Nat
  BY <1>1
<1>3. ASSUME NEW q \in Nat, NEW s \in Nat PROVE q * s \in Nat
  OBVIOUS
<1>4. (Interval[t] \div Second) * Second \in Nat
  BY <1>1, <1>2, <1>3
<1>5. AddTime(0, Interval[t]) \in Nat
  BY <1>4 DEF AddTime
<1> QED BY <1>1, <1>5 DEF New, Entry

\* Time leaves entries entries, and of the same timers.
LEMMA LaterEntries ==
    ASSUME TimerAssumption, NEW entries, entries \subseteq Entry, NEW d \in Int
    PROVE  /\ Later(entries, d) \subseteq Entry
           /\ TimersOf(Later(entries, d)) = TimersOf(entries)
           /\ \A f \in Later(entries, d) : \E e \in entries :
                 f.timer = e.timer /\ f.at >= e.at - d
           /\ (\A e, f \in entries : e.timer = f.timer => e = f) =>
                 \A e, f \in Later(entries, d) : e.timer = f.timer => e = f
<1> DEFINE L(e) == [e EXCEPT !.at = IF @ - d < -Overdue THEN -Overdue ELSE @ - d]
<1>0. Overdue \in Nat
  BY DEF TimerAssumption
<1>1. ASSUME NEW e \in entries
      PROVE  L(e) \in Entry /\ L(e).timer = e.timer /\ L(e).at >= e.at - d
  <2>1. e \in [at : Int, timer : Timers]
    BY DEF Entry
  <2> QED BY <1>0, <2>1 DEF Entry
<1>2. Later(entries, d) = {L(e) : e \in entries}
  BY DEF Later
<1> HIDE DEF L
<1> QED BY <1>1, <1>2 DEF TimersOf

-----------------------------------------------------------------------------
(* The inductive invariant.                                                *)

Timerfd == [deadline : Nat, readable : BOOLEAN]

Typed ==
    /\ queued \subseteq Entry /\ timers_ \subseteq Entry /\ active_timers_ \subseteq Entry
    /\ to_run \subseteq active_timers_
    /\ pc \in {"idle", "reported", "running"} /\ (pc # "running" => to_run = {})
    /\ timerfd \in Timerfd
    /\ deleted \subseteq Timers \ Repeating
    /\ steps \in Nat

\* The timerfd fd is set for entries: early enough, if the clock was not set.
ArmedFor(entries, fd) ==
    entries # {} =>
        \/ fd.readable
        \/ /\ fd.deadline > 0
           /\ steps = 0 => fd.deadline <= 1 \/ \A e \in entries : fd.deadline <= e.at

\* Also between epoll_wait and HandleRead, when other handlers may run.
Armed == pc # "running" => ArmedFor(timers_, timerfd)

IInv == Typed /\ OneOwner /\ Armed

\* Insert and ResetTimer keep the shape of the state.
LEMMA AddTyped ==
    ASSUME TimerAssumption, Typed, NEW entry \in Entry, AddTimerInLoop(entry)
    PROVE  timers_' \subseteq Entry /\ timerfd' \in Timerfd
<1>1. entry.at \in Int
  BY DEF Entry
<1>2. ResetTimer(entry.at) \in Timerfd
  BY <1>1 DEF ResetTimer, Timerfd
<1> QED BY <1>2 DEF AddTimerInLoop, Typed

\* A timerfd that is set for timers_ is set for the entry added to it, too.
LEMMA AddArmed ==
    ASSUME TimerAssumption, Typed, ArmedFor(timers_, timerfd), UNCHANGED steps,
           NEW entry \in Entry, AddTimerInLoop(entry)
    PROVE  ArmedFor(timers_, timerfd)'
<1>0. /\ timers_' = timers_ \cup {entry} /\ entry.at \in Int
      /\ timers_ \subseteq Entry /\ timerfd \in Timerfd
      /\ \A e \in timers_ : e.at \in Int
  BY DEF AddTimerInLoop, Entry, Typed
<1>1. CASE ResetInstantly(entry)
  <2>1. /\ timerfd'.deadline = IF entry.at < 1 THEN 1 ELSE entry.at
        /\ timerfd'.deadline > 0
    BY <1>0, <1>1 DEF AddTimerInLoop, ResetTimer
  <2>2. \A e \in timers_ : entry.at <= e.at
    <3>1. CASE timers_ = {}
      BY <3>1
    <3>2. CASE timers_ # {}
      <4>1. /\ Earliest(timers_) \in Int /\ entry.at < Earliest(timers_)
            /\ \A e \in timers_ : Earliest(timers_) <= e.at
        BY <1>0, <1>1, <3>2, EarliestIsLeast DEF ResetInstantly
      <4> QED BY <1>0, <4>1
    <3> QED BY <3>1, <3>2
  <2>3. \A e \in timers_' : entry.at <= e.at
    BY <1>0, <2>2
  <2> QED BY <1>0, <2>1, <2>3 DEF ArmedFor
<1>2. CASE ~ResetInstantly(entry)
  <2>1. /\ timerfd' = timerfd /\ timers_ # {} /\ ~(entry.at < Earliest(timers_))
    BY <1>2 DEF AddTimerInLoop, ResetInstantly
  <2>2. \E e \in timers_ : e.at = Earliest(timers_)
    BY <1>0, <2>1, EarliestIsLeast
  <2>3. PICK e \in timers_ : e.at <= entry.at
    BY <1>0, <2>1, <2>2
  <2>4. timerfd.deadline \in Nat
    BY <1>0 DEF Timerfd
  <2>5. (\A f \in timers_ : timerfd.deadline <= f.at) =>
            \A f \in timers_' : timerfd.deadline <= f.at
    BY <1>0, <2>3, <2>4
  <2> QED BY <2>1, <2>5 DEF ArmedFor
<1> QED BY <1>1, <1>2

\* The shape of the state is preserved.
LEMMA TypedPreserved ==
    ASSUME TimerAssumption, Typed, [Next]_vars
    PROVE  Typed'
<1>0. /\ queued \subseteq Entry /\ timers_ \subseteq Entry /\ active_timers_ \subseteq Entry
      /\ to_run \subseteq active_timers_
      /\ pc \in {"idle", "reported", "running"} /\ (pc # "running" => to_run = {})
      /\ timerfd \in Timerfd /\ deleted \subseteq Timers \ Repeating /\ steps \in Nat
  BY DEF Typed
<1>1. ASSUME NEW t \in Timers, AddTimer(t) PROVE Typed'
  BY <1>0, <1>1, NewIsEntry DEF AddTimer, Typed
<1>2. ASSUME NEW t \in Timers, AddTimerInHandler(t) PROVE Typed'
  <2>1. New(t) \in Entry /\ AddTimerInLoop(New(t))
    BY <1>2, NewIsEntry DEF AddTimerInHandler
  <2> QED BY <1>0, <1>2, <2>1, AddTyped DEF AddTimerInHandler, Typed
<1>3. CASE RunFunctor
  <2>1. PICK entry \in queued : queued' = queued \ {entry} /\ AddTimerInLoop(entry)
    BY <1>3 DEF RunFunctor
  <2>2. timers_' \subseteq Entry /\ timerfd' \in Timerfd
    BY <1>0, <2>1, AddTyped
  <2> QED BY <1>0, <1>3, <2>1, <2>2 DEF RunFunctor, Typed
<1>4. CASE EpollWait
  BY <1>0, <1>4 DEF EpollWait, Typed
<1>5. CASE HandleRead
  <2>1. timerfd' \in Timerfd
    BY <1>0, <1>5 DEF HandleRead, Timerfd
  <2> QED BY <1>0, <1>5, <2>1 DEF HandleRead, Remaining, Expired, Typed
<1>6. CASE Run
  <2>1. timers_' \subseteq Entry /\ timerfd' \in Timerfd
    BY <1>0, <1>6, NewIsEntry, AddTyped DEF Run
  <2> QED BY <1>0, <1>6, <2>1 DEF Run, Typed
<1>7. CASE ResetTimers
  <2>1. \A e \in active_timers_ : e.timer \in Timers
    BY <1>0 DEF Entry
  <2>2. Restarted \subseteq Entry
    BY <2>1, NewIsEntry DEF Restarted, TimersOf
  <2>3. timers_' \subseteq Entry
    BY <1>0, <1>7, <2>2 DEF ResetTimers
  <2>4. ASSUME NEW at \in Int PROVE ResetTimer(at) \in Timerfd
    BY DEF ResetTimer, Timerfd
  <2>5. timerfd' \in Timerfd
    BY <1>0, <1>7, <2>3, <2>4, EarliestIsLeast DEF ResetTimers, ResetAfter
  <2> QED BY <1>0, <1>7, <2>1, <2>3, <2>5 DEF ResetTimers, TimersOf, Typed
<1>8. ASSUME NEW d \in Int, Pass(d), timerfd' \in Timerfd, steps' \in Nat PROVE Typed'
  <2>1. Later(to_run, d) \subseteq Later(active_timers_, d) /\ (to_run = {} => Later(to_run, d) = {})
    BY <1>0 DEF Later
  <2> QED BY <1>0, <1>8, <2>1, LaterEntries DEF Pass, Typed
<1>9. CASE Tick
  <2>1. timerfd' \in Timerfd
    BY <1>0, <1>9 DEF Tick, Timerfd
  <2> QED BY <1>0, <1>8, <1>9, <2>1 DEF Tick
<1>10. ASSUME NEW d \in Steps, ClockStep(d) PROVE Typed'
  <2>1. d \in Int
    BY DEF TimerAssumption
  <2> QED BY <1>0, <1>8, <1>10, <2>1 DEF ClockStep
<1>11. CASE UNCHANGED vars
  BY <1>0, <1>11 DEF vars, Typed
<1> QED
  BY <1>1, <1>2, <1>3, <1>4, <1>5, <1>6, <1>7, <1>9, <1>10, <1>11 DEF Next, LoopThread

Unique(entries) == \A e, f \in entries : e.timer = f.timer => e = f

\* OneOwner, set by set.
Owners(q, t, a, d) ==
    /\ Unique(q) /\ Unique(t) /\ Unique(a)
    /\ TimersOf(q) \cap TimersOf(t) = {}
    /\ TimersOf(q) \cap TimersOf(a) = {} /\ TimersOf(t) \cap TimersOf(a) = {}
    /\ TimersOf(q) \cap d = {} /\ TimersOf(t) \cap d = {} /\ TimersOf(a) \cap d = {}

\* The two say the same.
LEMMA OwnersIsOneOwner == OneOwner <=> Owners(queued, timers_, active_timers_, deleted)
<1>1. /\ TimersOf(queued \cup timers_) = TimersOf(queued) \cup TimersOf(timers_)
      /\ TimersOf(queued \cup timers_ \cup active_timers_)
           = TimersOf(queued) \cup TimersOf(timers_) \cup TimersOf(active_timers_)
  BY DEF TimersOf
<1>2. (\A entries \in {queued, timers_, active_timers_} :
           \A e, f \in entries : e.timer = f.timer => e = f)
      <=> Unique(queued) /\ Unique(timers_) /\ Unique(active_timers_)
  BY DEF Unique
<1> DEFINE q == TimersOf(queued)
           t == TimersOf(timers_)
           a == TimersOf(active_timers_)
<1>3. /\ (q \cup t) \cap a = {} <=> q \cap a = {} /\ t \cap a = {}
      /\ (q \cup t \cup a) \cap deleted = {}
           <=> q \cap deleted = {} /\ t \cap deleted = {} /\ a \cap deleted = {}
  <2> HIDE DEF q, t, a
  <2> QED OBVIOUS
<1> QED BY <1>1, <1>2, <1>3 DEF OneOwner, Owners

\* A timer that nobody has may be queued, or entered.
LEMMA OwnersWithNew ==
    ASSUME NEW q, NEW t, NEW a, NEW d, NEW e, Owners(q, t, a, d),
           e.timer \notin TimersOf(q \cup t \cup a) \cup d
    PROVE  Owners(q \cup {e}, t, a, d) /\ Owners(q, t \cup {e}, a, d)
<1> DEFINE qs == TimersOf(q)
           ts == TimersOf(t)
           as == TimersOf(a)
           x  == e.timer
<1>1. /\ Unique(q) /\ Unique(t) /\ Unique(a)
      /\ qs \cap ts = {} /\ qs \cap as = {} /\ ts \cap as = {}
      /\ qs \cap d = {} /\ ts \cap d = {} /\ as \cap d = {}
  BY DEF Owners
<1>2. TimersOf(q \cup t \cup a) = qs \cup ts \cup as
  BY DEF TimersOf
<1>3. x \notin qs /\ x \notin ts /\ x \notin as /\ x \notin d
  BY <1>2
<1>4. ASSUME NEW s, Unique(s), e.timer \notin TimersOf(s)
      PROVE  Unique(s \cup {e}) /\ TimersOf(s \cup {e}) = TimersOf(s) \cup {e.timer}
  BY <1>4 DEF Unique, TimersOf
<1>5. /\ Unique(q \cup {e}) /\ TimersOf(q \cup {e}) = qs \cup {x}
      /\ Unique(t \cup {e}) /\ TimersOf(t \cup {e}) = ts \cup {x}
  BY <1>1, <1>3, <1>4
<1>6. /\ (qs \cup {x}) \cap ts = {} /\ (qs \cup {x}) \cap as = {} /\ (qs \cup {x}) \cap d = {}
      /\ qs \cap (ts \cup {x}) = {} /\ (ts \cup {x}) \cap as = {} /\ (ts \cup {x}) \cap d = {}
  <2> HIDE DEF qs, ts, as, x
  <2> QED BY <1>1, <1>3
<1> QED BY <1>1, <1>5, <1>6 DEF Owners

\* Every timer keeps one owner.
LEMMA OneOwnerPreserved ==
    ASSUME TimerAssumption, Typed, OneOwner, [Next]_vars
    PROVE  Owners(queued, timers_, active_timers_, deleted)'
<1> DEFINE OwnersAfter == Owners(queued, timers_, active_timers_, deleted)'
<1>0. /\ queued \subseteq Entry /\ timers_ \subseteq Entry /\ active_timers_ \subseteq Entry
      /\ Unique(queued) /\ Unique(timers_) /\ Unique(active_timers_)
      /\ TimersOf(queued) \cap TimersOf(timers_) = {}
      /\ TimersOf(queued) \cap TimersOf(active_timers_) = {}
      /\ TimersOf(timers_) \cap TimersOf(active_timers_) = {}
      /\ TimersOf(queued) \cap deleted = {} /\ TimersOf(timers_) \cap deleted = {}
      /\ TimersOf(active_timers_) \cap deleted = {}
  BY OwnersIsOneOwner DEF Typed, Owners
<1>1. ASSUME NEW t \in Timers, AddTimer(t) PROVE OwnersAfter
  <2>1. /\ queued' = queued \cup {New(t)} /\ t \notin Made /\ New(t).timer = t
        /\ UNCHANGED <<timers_, active_timers_, deleted>>
    BY <1>1, NewIsEntry DEF AddTimer
  <2>2. Owners(queued \cup {New(t)}, timers_, active_timers_, deleted)
    BY <2>1, OwnersIsOneOwner, OwnersWithNew DEF Made
  <2> QED BY <2>1, <2>2
<1>2. ASSUME NEW t \in Timers, t \notin Made, AddTimerInLoop(New(t)),
             UNCHANGED <<queued, active_timers_, deleted>>
      PROVE  OwnersAfter
  <2>1. timers_' = timers_ \cup {New(t)} /\ New(t).timer = t
    BY <1>2, NewIsEntry DEF AddTimerInLoop
  <2>2. Owners(queued, timers_ \cup {New(t)}, active_timers_, deleted)
    BY <1>2, <2>1, OwnersIsOneOwner, OwnersWithNew DEF Made
  <2> QED BY <1>2, <2>1, <2>2
<1>3. CASE RunFunctor
  <2>1. PICK entry \in queued : queued' = queued \ {entry} /\ AddTimerInLoop(entry)
    BY <1>3 DEF RunFunctor
  <2>2. /\ timers_' = timers_ \cup {entry}
        /\ UNCHANGED <<active_timers_, deleted>>
    BY <1>3, <2>1 DEF RunFunctor, AddTimerInLoop
  <2>3. \A e \in queued' : e \in queued /\ e.timer # entry.timer
    BY <1>0, <2>1 DEF Unique
  <2>4. /\ TimersOf(queued') = TimersOf(queued) \ {entry.timer}
        /\ TimersOf(timers_') = TimersOf(timers_) \cup {entry.timer}
        /\ entry.timer \in TimersOf(queued)
    BY <2>1, <2>2, <2>3 DEF TimersOf
  <2>5. Unique(queued') /\ Unique(active_timers_')
    BY <1>0, <2>2, <2>3 DEF Unique
  <2>6. \A e \in timers_ : e.timer # entry.timer
    BY <1>0, <2>4 DEF TimersOf
  <2>7. Unique(timers_')
    BY <1>0, <2>2, <2>6 DEF Unique
  <2>8. /\ TimersOf(queued') \cap TimersOf(timers_') = {}
        /\ TimersOf(queued') \cap TimersOf(active_timers_') = {}
        /\ TimersOf(timers_') \cap TimersOf(active_timers_') = {}
        /\ TimersOf(queued') \cap deleted' = {} /\ TimersOf(timers_') \cap deleted' = {}
        /\ TimersOf(active_timers_') \cap deleted' = {}
    <3> DEFINE q == TimersOf(queued)
               t == TimersOf(timers_)
               a == TimersOf(active_timers_)
               x == entry.timer
    <3>1. /\ q \cap t = {} /\ q \cap a = {} /\ t \cap a = {}
          /\ q \cap deleted = {} /\ t \cap deleted = {} /\ a \cap deleted = {} /\ x \in q
      BY <1>0, <2>4
    <3>2. /\ TimersOf(queued') = q \ {x} /\ TimersOf(timers_') = t \cup {x}
          /\ TimersOf(active_timers_') = a /\ deleted' = deleted
      BY <2>2, <2>4
    <3> HIDE DEF q, t, a, x
    <3> QED BY <3>1, <3>2
  <2> QED BY <2>5, <2>7, <2>8 DEF Owners
<1>4. CASE HandleRead
  <2>1. /\ active_timers_' = Expired /\ timers_' = timers_ \ Expired
        /\ Expired \subseteq timers_
        /\ UNCHANGED <<queued, deleted>>
    BY <1>4 DEF HandleRead, Remaining, Expired
  <2> HIDE DEF Expired
  <2>2. Unique(active_timers_') /\ Unique(timers_') /\ Unique(queued')
    BY <1>0, <2>1 DEF Unique
  <2>3. /\ TimersOf(active_timers_') \subseteq TimersOf(timers_)
        /\ TimersOf(timers_') \subseteq TimersOf(timers_)
        /\ TimersOf(timers_') \cap TimersOf(active_timers_') = {}
    BY <1>0, <2>1 DEF TimersOf, Unique
  <2>4. /\ TimersOf(queued') \cap TimersOf(timers_') = {}
        /\ TimersOf(queued') \cap TimersOf(active_timers_') = {}
        /\ TimersOf(queued') \cap deleted' = {} /\ TimersOf(timers_') \cap deleted' = {}
        /\ TimersOf(active_timers_') \cap deleted' = {}
    BY <1>0, <2>1, <2>3
  <2> QED BY <2>2, <2>3, <2>4 DEF Owners
<1>5. CASE Run
  <2>1. CASE UNCHANGED timers_
    BY <1>0, <1>5, <2>1 DEF Run, Owners
  <2>2. CASE \E t \in Timers \ Made : AddTimerInLoop(New(t))
    BY <1>2, <1>5, <2>2 DEF Run
  <2> QED BY <1>5, <2>1, <2>2 DEF Run
<1>6. CASE ResetTimers
  <2>1. /\ timers_' = timers_ \cup Restarted /\ active_timers_' = {} /\ queued' = queued
        /\ deleted' = deleted \cup (TimersOf(active_timers_) \ Repeating)
    BY <1>6 DEF ResetTimers
  <2>2. TimersOf(active_timers_) \subseteq Timers
    BY <1>0 DEF TimersOf, Entry
  <2>3. \A e \in Restarted : e.timer \in TimersOf(active_timers_) \cap Repeating /\ e = New(e.timer)
    BY <2>2, NewIsEntry DEF Restarted
  <2>4. Unique(timers_')
    BY <1>0, <2>1, <2>3 DEF TimersOf, Unique
  <2>5. /\ TimersOf(timers_') \subseteq
              TimersOf(timers_) \cup (TimersOf(active_timers_) \cap Repeating)
        /\ TimersOf(active_timers_') = {}
    BY <2>1, <2>3 DEF TimersOf
  <2>6. Unique(queued') /\ Unique(active_timers_')
    BY <1>0, <2>1 DEF Unique
  <2>7. /\ TimersOf(queued') \cap TimersOf(timers_') = {}
        /\ TimersOf(queued') \cap deleted' = {} /\ TimersOf(timers_') \cap deleted' = {}
    BY <1>0, <2>1, <2>5
  <2>8. /\ TimersOf(queued') \cap TimersOf(active_timers_') = {}
        /\ TimersOf(timers_') \cap TimersOf(active_timers_') = {}
        /\ TimersOf(active_timers_') \cap deleted' = {}
    BY <2>5
  <2> QED BY <2>4, <2>6, <2>7, <2>8 DEF Owners
<1>7. ASSUME NEW d \in Int, Pass(d) PROVE OwnersAfter
  <2>1. /\ queued' = Later(queued, d) /\ timers_' = Later(timers_, d)
        /\ active_timers_' = Later(active_timers_, d) /\ deleted' = deleted
    BY <1>7 DEF Pass
  <2>2. Unique(queued') /\ Unique(timers_') /\ Unique(active_timers_')
    BY <1>0, <2>1, LaterEntries DEF Unique
  <2>3. /\ TimersOf(queued') = TimersOf(queued) /\ TimersOf(timers_') = TimersOf(timers_)
        /\ TimersOf(active_timers_') = TimersOf(active_timers_)
    BY <1>0, <2>1, LaterEntries
  <2> QED BY <1>0, <2>1, <2>2, <2>3 DEF Owners
<1>8. CASE Tick
  BY <1>7, <1>8 DEF Tick
<1>9. ASSUME NEW d \in Steps, ClockStep(d) PROVE OwnersAfter
  BY <1>7, <1>9 DEF ClockStep, TimerAssumption
<1>10. CASE EpollWait \/ UNCHANGED vars
  <2>1. UNCHANGED <<queued, timers_, active_timers_, deleted>>
    BY <1>10 DEF EpollWait, vars
  <2> QED BY <1>0, <2>1 DEF Owners
<1>11. ASSUME NEW t \in Timers, AddTimerInHandler(t) PROVE OwnersAfter
  BY <1>2, <1>11 DEF AddTimerInHandler
<1> QED
  BY <1>1, <1>3, <1>4, <1>5, <1>6, <1>8, <1>9, <1>10, <1>11 DEF Next, LoopThread

\* The timerfd stays set.
LEMMA ArmedPreserved ==
    ASSUME TimerAssumption, Typed, Armed, [Next]_vars
    PROVE  Armed'
<1>0. /\ timers_ \subseteq Entry /\ timerfd \in Timerfd /\ steps \in Nat
      /\ pc \in {"idle", "reported", "running"}
      /\ pc # "running" => ArmedFor(timers_, timerfd)
  BY DEF Typed, Armed
<1>1. CASE UNCHANGED <<timers_, timerfd, steps>> /\ (pc = "running" => pc' = "running")
  BY <1>0, <1>1 DEF Armed, ArmedFor
<1>2. ASSUME NEW t \in Timers, AddTimerInHandler(t) PROVE Armed'
  <2>1. New(t) \in Entry /\ AddTimerInLoop(New(t)) /\ pc # "running" /\ UNCHANGED steps
    BY <1>2, NewIsEntry DEF AddTimerInHandler
  <2>2. ArmedFor(timers_, timerfd)'
    BY <1>0, <2>1, AddArmed
  <2> QED BY <2>2 DEF Armed
<1>3. CASE RunFunctor
  <2>1. PICK entry \in queued : AddTimerInLoop(entry)
    BY <1>3 DEF RunFunctor
  <2>2. entry \in Entry /\ pc # "running" /\ UNCHANGED steps
    BY <1>3, <2>1 DEF RunFunctor, Typed
  <2>3. ArmedFor(timers_, timerfd)'
    BY <1>0, <2>1, <2>2, AddArmed
  <2> QED BY <2>3 DEF Armed
<1>4. CASE HandleRead \/ Run
  BY <1>4 DEF HandleRead, Run, Armed
<1>5. CASE ResetTimers
  <2>1. timers_' \subseteq Entry
    BY <1>5, TypedPreserved DEF Typed
  <2>2. CASE timers_' = {}
    BY <2>2 DEF Armed, ArmedFor
  <2>3. CASE timers_' # {}
    <3>1. /\ Earliest(timers_') \in Int
          /\ \A e \in timers_' : Earliest(timers_') <= e.at
      BY <2>1, <2>3, EarliestIsLeast
    <3>2. timerfd'.deadline = IF Earliest(timers_') < 1 THEN 1 ELSE Earliest(timers_')
      BY <1>5, <2>3 DEF ResetTimers, ResetAfter, ResetTimer
    <3> QED BY <3>1, <3>2 DEF Armed, ArmedFor
  <2> QED BY <2>2, <2>3
<1>6. CASE Tick
  <2>1. /\ timers_' = Later(timers_, 1) /\ UNCHANGED <<pc, steps>>
        /\ timerfd' = IF timerfd.deadline = 0 THEN timerfd
                      ELSE [deadline |-> timerfd.deadline - 1,
                            readable |-> timerfd.readable \/ timerfd.deadline = 1]
    BY <1>6 DEF Tick, Pass
  <2>2. CASE pc = "running" \/ timers_ = {}
    <3>1. timers_ = {} => timers_' = {}
      BY <2>1 DEF Later
    <3> QED BY <2>1, <2>2, <3>1 DEF Armed, ArmedFor
  <2>3. CASE pc # "running" /\ timers_ # {}
    <3>1. timerfd.deadline \in Nat /\ timerfd.readable \in BOOLEAN
      BY <1>0 DEF Timerfd
    <3>2. CASE timerfd.readable \/ timerfd.deadline = 1
      <4>1. timerfd'.readable
        <5>1. CASE timerfd.deadline = 0
          BY <2>1, <3>2, <5>1
        <5>2. CASE timerfd.deadline # 0
          <6>1. timerfd'.readable = (timerfd.readable \/ timerfd.deadline = 1)
            BY <2>1, <5>2
          <6> QED BY <3>2, <6>1
        <5> QED BY <5>1, <5>2
      <4> QED BY <4>1 DEF Armed, ArmedFor
    <3>3. CASE ~timerfd.readable /\ timerfd.deadline # 1
      <4>1. /\ timerfd.deadline > 1
            /\ steps = 0 => \A e \in timers_ : timerfd.deadline <= e.at
        BY <1>0, <2>3, <3>1, <3>3 DEF ArmedFor
      <4>2. timerfd'.deadline = timerfd.deadline - 1 /\ timerfd'.deadline > 0
        BY <2>1, <3>1, <4>1
      <4>3. /\ timers_' \subseteq Entry
            /\ \A f \in timers_' : \E e \in timers_ : f.at >= e.at - 1
        <5>1. /\ Later(timers_, 1) \subseteq Entry
              /\ \A f \in Later(timers_, 1) : \E e \in timers_ :
                    f.timer = e.timer /\ f.at >= e.at - 1
          <6>1. ASSUME NEW d \in Int
                PROVE  /\ Later(timers_, d) \subseteq Entry
                       /\ \A f \in Later(timers_, d) : \E e \in timers_ :
                             f.timer = e.timer /\ f.at >= e.at - d
            BY <1>0, LaterEntries
          <6> QED BY <6>1
        <5> QED BY <2>1, <5>1
      <4>4. steps = 0 => \A f \in timers_' : timerfd'.deadline <= f.at
        BY <1>0, <3>1, <4>1, <4>2, <4>3 DEF Entry
      <4> QED BY <2>1, <4>2, <4>4 DEF Armed, ArmedFor
    <3> QED BY <3>2, <3>3
  <2> QED BY <2>2, <2>3
<1>7. ASSUME NEW d \in Steps, ClockStep(d) PROVE Armed'
  <2>1. /\ timers_' = Later(timers_, d) /\ UNCHANGED <<pc, timerfd>> /\ steps' = steps + 1
    BY <1>7 DEF ClockStep, Pass
  <2>2. timers_ = {} => timers_' = {}
    BY <2>1 DEF Later
  <2>3. steps' # 0
    BY <1>0, <2>1
  <2> QED BY <1>0, <2>1, <2>2, <2>3 DEF Armed, ArmedFor
<1>8. ASSUME NEW t \in Timers, AddTimer(t) PROVE Armed'
  BY <1>1, <1>8 DEF AddTimer
<1>9. CASE EpollWait \/ UNCHANGED vars
  BY <1>1, <1>9 DEF EpollWait, vars
<1> QED
  BY <1>2, <1>3, <1>4, <1>5, <1>6, <1>7, <1>8, <1>9 DEF Next, LoopThread

\* The inductive invariant.
THEOREM Invariance == SafeSpec => []IInv
<1>1. Init => IInv
  BY DEF Init, IInv, Typed, Timerfd, OneOwner, TimersOf, Armed, ArmedFor
<1>2. IInv /\ [Next]_vars => IInv'
  <2>1. SUFFICES ASSUME IInv, [Next]_vars PROVE IInv'
    OBVIOUS
  <2>2. Owners(queued, timers_, active_timers_, deleted)'
    BY <2>1, TimerAssumption, OneOwnerPreserved DEF IInv
  <2>3. OneOwner'
    BY <2>2, OwnersIsOneOwner, PTL
  <2> QED BY <2>1, <2>3, TimerAssumption, TypedPreserved, ArmedPreserved DEF IInv
<1> QED BY <1>1, <1>2, PTL DEF SafeSpec

\* The sets hold timers, to_run is what is left of active_timers_, and only
\* timers that do not repeat are deleted.
THEOREM TypeCorrect == SafeSpec => []TypeOK
<1>1. IInv => TypeOK
  BY DEF IInv, Typed, Entry, Timerfd, TypeOK
<1> QED BY <1>1, Invariance, PTL

\* No Timer is entered twice, used after it is deleted or deleted twice.
THEOREM AlwaysOneOwner == SafeSpec => []OneOwner
<1>1. IInv => OneOwner
  BY DEF IInv
<1> QED BY <1>1, Invariance, PTL

\* Whenever a timer waits the timerfd is set, and for no later than the
\* earliest one if the clock was not set.
THEOREM AlwaysArmed == SafeSpec => []ArmedWhilePending
<1>1. IInv => ArmedWhilePending
  <2>1. SUFFICES ASSUME IInv, pc = "idle", timers_ # {}
                 PROVE  \/ timerfd.readable
                        \/ /\ timerfd.deadline > 0
                           /\ steps = 0 => \/ timerfd.deadline <= 1
                                           \/ timerfd.deadline <= Earliest(timers_)
    BY DEF ArmedWhilePending
  <2>2. \E e \in timers_ : e.at = Earliest(timers_)
    BY <2>1, TimerAssumption, EarliestIsLeast DEF IInv, Typed
  <2> QED BY <2>1, <2>2 DEF IInv, Armed, ArmedFor
<1> QED BY <1>1, Invariance, PTL
=============================================================================
