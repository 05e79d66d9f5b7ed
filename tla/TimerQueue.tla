----------------------------- MODULE TimerQueue -----------------------------
(***************************************************************************)
(* TimerQueue and Timer (src/timer/): timers of a loop, ordered by the     *)
(* wall-clock time they expire at, over one timerfd on the monotonic       *)
(* clock.  Times are relative: at is how far the wall clock has to go to   *)
(* an expiration, deadline how far the monotonic clock has to go for the   *)
(* timerfd to become readable.                                             *)
(***************************************************************************)
EXTENDS Integers

CONSTANTS
    Timers,         \* the Timers ever made
    Interval,       \* timer -> what RunAfter or RunEvery was given, in ticks
    Repeating,      \* those made by RunEvery
    Second,         \* the ticks of a second
    Steps,          \* what a step of the wall clock may add to it
    MaxSteps,       \* bound: how often it steps
    MaxLate,        \* bound: ticks between two actions of a busy loop
    Overdue         \* bound: how far an expiration is told apart in the past

ASSUME TimerAssumption ==
    /\ Repeating \subseteq Timers
    /\ Interval \in [Timers -> Nat] /\ \A t \in Repeating : Interval[t] > 0
    /\ Second \in Nat \ {0} /\ Steps \subseteq Int
    /\ MaxSteps \in Nat /\ MaxLate \in Nat /\ Overdue \in Nat

VARIABLES
    queued,         \* bound AddTimerInLoop functors, as [at, timer]
    timers_, active_timers_,    \* sets of [at, timer]
    to_run,         \* active_timers_ that HandleRead's loop has still to run
    pc,             \* where the loop's thread is: "idle", "reported" (between
                    \* epoll_wait and HandleRead), "running" callbacks
    timerfd,        \* [deadline, readable]; deadline 0: disarmed
    deleted,        \* Timers that are gone
    steps, late     \* for the bounds

vars == <<queued, timers_, active_timers_, to_run, pc, timerfd, deleted, steps, late>>

Init ==
    /\ queued = {} /\ timers_ = {} /\ active_timers_ = {} /\ to_run = {}
    /\ pc = "idle"
    /\ timerfd = [deadline |-> 0, readable |-> FALSE]
    /\ deleted = {}
    /\ steps = 0 /\ late = 0

-----------------------------------------------------------------------------
(* Time.                                                                   *)

\* Timestamp::AddTime, which casts to whole seconds.
AddTime(at, interval) == at + (interval \div Second) * Second

Later(entries, ticks) ==
    {[e EXCEPT !.at = IF @ - ticks < -Overdue THEN -Overdue ELSE @ - ticks] : e \in entries}

\* Both clocks went ticks and wall further.
Pass(ticks) ==
    /\ queued' = Later(queued, ticks)
    /\ timers_' = Later(timers_, ticks)
    /\ active_timers_' = Later(active_timers_, ticks)
    /\ to_run' = Later(to_run, ticks)
    /\ UNCHANGED <<pc, deleted>>

Busy == timerfd.readable \/ pc # "idle" \/ queued # {}

Tick ==
    /\ Busy => late < MaxLate
    /\ late' = IF Busy THEN late + 1 ELSE late
    /\ Pass(1)
    /\ timerfd' = IF timerfd.deadline = 0 THEN timerfd
                  ELSE [deadline |-> timerfd.deadline - 1,
                        readable |-> timerfd.readable \/ timerfd.deadline = 1]
    /\ UNCHANGED steps

\* The wall clock is set; the timerfd's does not move.
ClockStep(d) ==
    /\ steps < MaxSteps /\ steps' = steps + 1
    /\ Pass(d)
    /\ UNCHANGED <<timerfd, late>>

-----------------------------------------------------------------------------
(* Adding timers.                                                          *)

Earliest(entries) == CHOOSE at \in {e.at : e \in entries} : \A e \in entries : at <= e.at

\* Wrong variant: a time in the past is passed on as it is.
ResetTimerUnchecked(at) == [deadline |-> at, readable |-> FALSE]

\* ResetTimer: the timerfd will be readable at at, if not before a minimum
\* (of 100 us); what it had to tell before is forgotten.
ResetTimer(at) == [deadline |-> IF at < 1 THEN 1 ELSE at, readable |-> FALSE]

\* Wrong variant: the timerfd is only set for the first timer.
ResetInstantlyIfEmpty(entry) == timers_ = {}

\* What Insert returns.
ResetInstantly(entry) == timers_ = {} \/ entry.at < Earliest(timers_)

AddTimerInLoop(entry) ==
    /\ timers_' = timers_ \cup {entry}
    /\ timerfd' = IF ResetInstantly(entry) THEN ResetTimer(entry.at) ELSE timerfd

TimersOf(entries) == {e.timer : e \in entries}

Made == TimersOf(queued \cup timers_ \cup active_timers_) \cup deleted

\* RunAfter and RunEvery.
New(t) == [at |-> AddTime(0, Interval[t]), timer |-> t]

\* AddTimer in another thread.
AddTimer(t) ==
    /\ t \notin Made
    /\ queued' = queued \cup {New(t)}
    /\ UNCHANGED <<timers_, active_timers_, to_run, pc, timerfd, deleted, steps, late>>

\* A handler of another channel of the loop adds a timer, which it does at
\* once: HandleNewConn does in the round that is to run HandleRead.
AddTimerInHandler(t) ==
    /\ t \notin Made /\ pc \in {"idle", "reported"}
    /\ AddTimerInLoop(New(t))
    /\ UNCHANGED <<queued, active_timers_, to_run, pc, deleted, steps, late>>

\* The loop runs a functor.
RunFunctor ==
    /\ pc = "idle"
    /\ \E entry \in queued :
          queued' = queued \ {entry} /\ AddTimerInLoop(entry)
    /\ late' = 0
    /\ UNCHANGED <<active_timers_, to_run, pc, deleted, steps>>

-----------------------------------------------------------------------------
(* HandleRead.                                                             *)

EpollWait ==
    /\ pc = "idle" /\ timerfd.readable
    /\ pc' = "reported"
    /\ late' = 0
    /\ UNCHANGED <<queued, timers_, active_timers_, to_run, timerfd, deleted, steps>>

\* The entries before lower_bound((now, UINTPTR_MAX)).
Expired == {e \in timers_ : e.at <= 0}

\* Wrong variant: without the erase.
RemainingAll == timers_

Remaining == timers_ \ Expired

\* The read finds nothing, and goes on, if a handler before it in this round
\* has set the timerfd anew.
HandleRead ==
    /\ pc = "reported"
    /\ timerfd' = [timerfd EXCEPT !.readable = FALSE]
    /\ active_timers_' = Expired /\ to_run' = Expired
    /\ timers_' = Remaining
    /\ pc' = "running"
    /\ late' = 0
    /\ UNCHANGED <<queued, deleted, steps>>

\* A callback, which may add a timer; in the loop's own thread AddTimer does
\* so at once.
Run ==
    /\ pc = "running"
    /\ \E e \in to_run : e.at = Earliest(to_run) /\ to_run' = to_run \ {e}
    /\ \/ UNCHANGED <<timers_, timerfd>>
       \/ \E t \in Timers \ Made : AddTimerInLoop(New(t))
    /\ late' = 0
    /\ UNCHANGED <<queued, active_timers_, pc, deleted, steps>>

Restarted == {New(t) : t \in TimersOf(active_timers_) \cap Repeating}

\* Wrong variant: the timerfd is set if a timer was restarted.
ResetAfterRestart(entries) == Restarted # {}

ResetAfter(entries) == entries # {}

\* Restart and Insert of those that repeat, delete of the others.  The pointers
\* left in active_timers_, which the next HandleRead clears before any use, are
\* dropped here.
ResetTimers ==
    /\ pc = "running" /\ to_run = {}
    /\ timers_' = timers_ \cup Restarted
    /\ deleted' = deleted \cup (TimersOf(active_timers_) \ Repeating)
    /\ timerfd' = IF ResetAfter(timers_') THEN ResetTimer(Earliest(timers_'))
                  ELSE timerfd
    /\ active_timers_' = {}
    /\ pc' = "idle"
    /\ late' = 0
    /\ UNCHANGED <<queued, to_run, steps>>

LoopThread ==
    \/ RunFunctor \/ EpollWait \/ HandleRead \/ Run \/ ResetTimers
    \/ \E t \in Timers : AddTimerInHandler(t)

Next ==
    \/ LoopThread
    \/ \E t \in Timers : AddTimer(t)
    \/ Tick
    \/ \E d \in Steps : ClockStep(d)

SafeSpec == Init /\ [][Next]_vars

\* Time goes on, and the loop's thread with it; every round of Loop comes to
\* the functors after the handlers, so these cannot keep them waiting for ever.
Spec ==
    /\ SafeSpec
    /\ WF_vars(Tick)
    /\ SF_vars(RunFunctor)
    /\ WF_vars(EpollWait) /\ WF_vars(HandleRead) /\ WF_vars(Run) /\ WF_vars(ResetTimers)

-----------------------------------------------------------------------------
(* Properties.                                                             *)

\* The sets hold entries; to_run is what is left of active_timers_.
TypeOK ==
    /\ \A entries \in {queued, timers_, active_timers_} :
          entries \subseteq [at : Int, timer : Timers]
    /\ to_run \subseteq active_timers_
    /\ pc \in {"idle", "reported", "running"} /\ (pc # "running" => to_run = {})
    /\ timerfd \in [deadline : Nat, readable : BOOLEAN]
    /\ deleted \subseteq Timers \ Repeating

\* A Timer has one owner: a functor, timers_ or a running HandleRead.  None is
\* entered in two of them or twice in one, none is used after it is deleted,
\* and none is deleted twice.
OneOwner ==
    /\ \A entries \in {queued, timers_, active_timers_} :
          \A e, f \in entries : e.timer = f.timer => e = f
    /\ TimersOf(queued) \cap TimersOf(timers_) = {}
    /\ TimersOf(queued \cup timers_) \cap TimersOf(active_timers_) = {}
    /\ TimersOf(queued \cup timers_ \cup active_timers_) \cap deleted = {}

\* Between two rounds of Loop, the timerfd is armed or has already told
\* whenever a timer waits, whatever callbacks, handlers and other threads have
\* added and wherever the wall clock was set; and as long as that is not set,
\* it is armed for no later than the earliest timer.
ArmedWhilePending ==
    pc = "idle" /\ timers_ # {} =>
        \/ timerfd.readable
        \/ /\ timerfd.deadline > 0
           /\ steps = 0 => timerfd.deadline <= 1 \/ timerfd.deadline <= Earliest(timers_)

\* A timer that was added is run, and one that repeats again and again,
\* even if the wall clock is set.
EveryTimerRuns ==
    \A t \in Timers :
        t \in TimersOf(queued \cup timers_) ~> t \in TimersOf(to_run)
=============================================================================
