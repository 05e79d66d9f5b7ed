--------------------------- MODULE TcpServerProofs --------------------------
(***************************************************************************)
(* The safety of TcpServer, for any number of clients, fds and I/O loops:  *)
(* no loop calls into a destroyed connection, the Epollers' assertions and *)
(* that of HandleCloseInLoop hold, a closed connection is out of epoll,    *)
(* and connections_ never overwrites an entry.                             *)
(***************************************************************************)
EXTENDS TcpServer, TLAPS

Live(c) == life[c] = "alive"

\* connections_ holds c.
Entered(c) == connections_[connfd_[c]] = c

\* c's place in the Epollers' maps and in the kernel's sets is under fd f of loop l.
Owns(c, l, f) == Live(c) /\ loop_[c] = l /\ connfd_[c] = f

\* Every live connection has a loop and an fd that no other live one has; what
\* connections_ holds is live, under its own fd.
Ownership ==
    /\ \A c \in Conns : Live(c) => connfd_[c] \in Fds /\ loop_[c] \in Loops
    /\ \A c, d \in Conns : Live(c) /\ Live(d) /\ connfd_[c] = connfd_[d] => c = d
    /\ \A f \in Fds : connections_[f] # NoChannel =>
          Live(connections_[f]) /\ connfd_[connections_[f]] = f

\* The Channel of a connection that does not exist yet is as its constructor
\* makes it; one that is added wants input and belongs to a connection that is
\* still in connections_; any other wants nothing.
Channels == \A c \in Conns :
    /\ life[c] \in {"remote", "backlog"} => chState[c] = "kNew" /\ event_[c] = {}
    /\ Live(c) /\ chState[c] = "kAdded" => Entered(c) /\ "EPOLLIN" \in event_[c]
    /\ Live(c) /\ chState[c] # "kAdded" => event_[c] = {}

\* Where no live connection is, the maps and the kernel's sets hold nothing.
NoStrangers == \A l \in Loops, f \in Fds :
    (\A c \in Conns : ~Owns(c, l, f)) =>
        channelmap_[l][f] = NoChannel /\ registered[l][f] = E!NotRegistered

\* An event not handled yet is of a connection that is still open; a write half
\* not run yet, of one that ConnectionDestructor has not been called on.
Handlers == \A l \in Loops :
    /\ \A e \in ActiveChannel_[l] : e.ptr \in Conns =>
          Live(e.ptr) /\ loop_[e.ptr] = l /\ chState[e.ptr] = "kAdded"
    /\ \A e, f \in ActiveChannel_[l] : e.ptr \in Conns /\ e.ptr = f.ptr => e = f
    /\ writing[l] # NoChannel =>
          Live(writing[l]) /\ loop_[writing[l]] = l /\ chState[writing[l]] # "kNew"

\* What is kept of a round of Loop() outside the phase it is for.
Places == \A l \in Loops :
    /\ pc[l] # "dispatch" => ActiveChannel_[l] = {} /\ writing[l] = NoChannel
    /\ pc[l] # "functors" => funclists[l] = <<>> /\ ran[l] = 0

\* What is queued on loop l, what DoToDoList has still to run there, and both.
Queued(l)  == Range(to_do_list_[l])
Unrun(l)   == {funclists[l][i] : i \in ran[l] + 1 .. Len(funclists[l])}
Waiting(l) == Queued(l) \cup Unrun(l)

\* When a functor may be waiting on loop l: it says how far its connection is.
Due(fn, l) ==
    /\ Live(fn.conn)
    /\ \/ /\ fn.func = "ConnectionEstablished" /\ l = loop_[fn.conn]
          /\ chState[fn.conn] = "kNew" /\ Entered(fn.conn)
       \/ /\ fn.func = "HandleCloseInLoop" /\ l = Base
          /\ chState[fn.conn] = "kDeleted" /\ Entered(fn.conn)
       \/ /\ fn.func = "ConnectionDestructor" /\ l = loop_[fn.conn]
          /\ chState[fn.conn] = "kDeleted" /\ ~Entered(fn.conn)

\* No functor is twice in a vector, or in both of a loop.
OnceQueued(l) == \A i, j \in 1 .. Len(to_do_list_[l]) :
    to_do_list_[l][i] = to_do_list_[l][j] => i = j
OnceUnrun(l) == \A i, j \in ran[l] + 1 .. Len(funclists[l]) :
    funclists[l][i] = funclists[l][j] => i = j
NoRepeat == \A l \in Loops : OnceQueued(l) /\ OnceUnrun(l) /\ Queued(l) \cap Unrun(l) = {}

\* Every functor not run yet is due; a connection that connections_ has let go
\* of has its ConnectionDestructor to come, or has had it.
FunctorsDue ==
    /\ \A l \in Loops : \A fn \in Waiting(l) : Due(fn, l)
    /\ \A c \in Conns : Live(c) /\ chState[c] = "kDeleted" /\ ~Entered(c) =>
          Functor("ConnectionDestructor", c) \in Waiting(loop_[c])

IInv ==
    /\ TypeOK /\ Ownership /\ EpollerMatches /\ Channels /\ NoStrangers
    /\ Handlers /\ Places /\ NoRepeat /\ FunctorsDue

-----------------------------------------------------------------------------
(* One connection's channel.                                               *)

\* Connection c's channel, under fd f of loop l, comes to have events and state,
\* and nothing else in the maps and the kernel's sets changes.
SlotBecomes(c, l, f, events, state) ==
    /\ \A d \in Conns : event_'[d] = IF d = c THEN events ELSE event_[d]
    /\ \A d \in Conns : chState'[d] = IF d = c THEN state ELSE chState[d]
    /\ \A k \in Loops, g \in Fds :
          channelmap_'[k][g] = IF k = l /\ g = f
                               THEN IF state = "kNew" THEN NoChannel ELSE c
                               ELSE channelmap_[k][g]
    /\ \A k \in Loops, g \in Fds :
          registered'[k][g] = IF k = l /\ g = f
                              THEN IF state = "kAdded" THEN [ptr |-> c, events |-> events]
                                   ELSE E!NotRegistered
                              ELSE registered[k][g]

PollTypeOK ==
    /\ event_ \in [Conns -> Events]
    /\ chState \in [Conns -> {"kNew", "kAdded", "kDeleted"}]
    /\ channelmap_ \in [Loops -> [Fds -> Conns \cup {NoChannel}]]
    /\ registered \in [Loops -> [Fds -> [ptr : Conns \cup {NoChannel}, events : Events]]]

\* What SetSlot does.
LEMMA SetSlotBecomes ==
    ASSUME PollTypeOK, NEW c \in Conns, NEW l \in Loops, NEW f \in Fds,
           NEW events \in Events, NEW state \in {"kNew", "kAdded", "kDeleted"}, NEW slot,
           slot.event_ = events, slot.state_ = state,
           slot.channelmap_ = (IF state = "kNew" THEN NoChannel ELSE c),
           slot.registered = (IF state = "kAdded" THEN [ptr |-> c, events |-> events]
                              ELSE E!NotRegistered),
           SetSlot(c, l, f, slot)
    PROVE  PollTypeOK' /\ SlotBecomes(c, l, f, events, state)
<1>1. /\ event_' = [event_ EXCEPT ![c] = events]
      /\ chState' = [chState EXCEPT ![c] = state]
      /\ channelmap_' = [channelmap_ EXCEPT ![l][f] = IF state = "kNew" THEN NoChannel ELSE c]
      /\ registered' = [registered EXCEPT ![l][f] =
            IF state = "kAdded" THEN [ptr |-> c, events |-> events] ELSE E!NotRegistered]
  BY DEF SetSlot
<1>2. E!NotRegistered \in [ptr : Conns \cup {NoChannel}, events : Events]
  BY DEF E!NotRegistered, Events
<1>3. /\ event_' \in [Conns -> Events] /\ chState' \in [Conns -> {"kNew", "kAdded", "kDeleted"}]
      /\ \A d \in Conns : event_'[d] = IF d = c THEN events ELSE event_[d]
      /\ \A d \in Conns : chState'[d] = IF d = c THEN state ELSE chState[d]
  BY <1>1 DEF PollTypeOK
<1>4. /\ channelmap_' \in [Loops -> [Fds -> Conns \cup {NoChannel}]]
      /\ \A k \in Loops, g \in Fds :
            channelmap_'[k][g] = IF k = l /\ g = f
                                 THEN IF state = "kNew" THEN NoChannel ELSE c
                                 ELSE channelmap_[k][g]
  BY <1>1 DEF PollTypeOK
<1>5. /\ registered' \in [Loops -> [Fds -> [ptr : Conns \cup {NoChannel}, events : Events]]]
      /\ \A k \in Loops, g \in Fds :
            registered'[k][g] = IF k = l /\ g = f
                                THEN IF state = "kAdded" THEN [ptr |-> c, events |-> events]
                                     ELSE E!NotRegistered
                                ELSE registered[k][g]
  <2> DEFINE new == IF state = "kAdded" THEN [ptr |-> c, events |-> events] ELSE E!NotRegistered
  <2>1. new \in [ptr : Conns \cup {NoChannel}, events : Events]
    BY <1>2
  <2>2. registered' = [registered EXCEPT ![l][f] = new]
    BY <1>1
  <2> HIDE DEF new
  <2>3. /\ registered' \in [Loops -> [Fds -> [ptr : Conns \cup {NoChannel}, events : Events]]]
        /\ \A k \in Loops, g \in Fds :
              registered'[k][g] = IF k = l /\ g = f THEN new ELSE registered[k][g]
    BY <2>1, <2>2 DEF PollTypeOK
  <2> QED BY <2>3 DEF new
<1> QED BY <1>3, <1>4, <1>5 DEF PollTypeOK, SlotBecomes

\* Update of a channel that has been added.
LEMMA UpdateOpen ==
    ASSUME PollTypeOK, EpollerMatches, NEW c \in Conns, Live(c), chState[c] = "kAdded",
           loop_[c] \in Loops, connfd_[c] \in Fds, NEW events \in Events, SetEvents(c, events)
    PROVE  /\ PollTypeOK'
           /\ SlotBecomes(c, loop_[c], connfd_[c], events,
                          IF events = {} THEN "kDeleted" ELSE "kAdded")
<1> DEFINE l == loop_[c]
           f == connfd_[c]
           slot == E!Update(MySlot(c), c, events)
<1>1. channelmap_[l][f] = c /\ registered[l][f] = [ptr |-> c, events |-> event_[c]]
  BY DEF EpollerMatches, Alive, Live
<1>2. registered[l][f] # E!NotRegistered
  <2>1. event_[c] \in Events
    BY DEF PollTypeOK
  <2>2. c # NoChannel
    BY TcpServerAssumption DEF TcpServerAssumption
  <2> QED BY <1>1, <2>2 DEF E!NotRegistered
<1>3. /\ slot.event_ = events /\ slot.state_ = IF events = {} THEN "kDeleted" ELSE "kAdded"
      /\ slot.channelmap_ = c
      /\ slot.registered = IF events = {} THEN E!NotRegistered
                           ELSE [ptr |-> c, events |-> events]
  BY <1>1, <1>2 DEF E!Update, E!Operation, E!EpollCtl, MySlot, Slot
<1>4. SetSlot(c, l, f, slot)
  BY DEF SetEvents
<1> HIDE DEF slot, l, f
<1>5. CASE events = {}
  BY <1>3, <1>4, <1>5, SetSlotBecomes DEF l, f
<1>6. CASE events # {}
  BY <1>3, <1>4, <1>6, SetSlotBecomes DEF l, f
<1> QED BY <1>5, <1>6 DEF l, f

\* Update of a channel that is new, under an fd that nothing is held for.
LEMMA UpdateNew ==
    ASSUME PollTypeOK, NEW c \in Conns, NEW l \in Loops, NEW f \in Fds,
           chState[c] = "kNew", registered[l][f] = E!NotRegistered,
           NEW events \in Events, SetSlot(c, l, f, E!Update(Slot(c, l, f), c, events))
    PROVE  PollTypeOK' /\ SlotBecomes(c, l, f, events, "kAdded")
<1> DEFINE slot == E!Update(Slot(c, l, f), c, events)
<1>1. /\ slot.event_ = events /\ slot.state_ = "kAdded" /\ slot.channelmap_ = c
      /\ slot.registered = [ptr |-> c, events |-> events]
  BY DEF E!Update, E!Operation, E!EpollCtl, Slot
<1>2. SetSlot(c, l, f, slot)
  OBVIOUS
<1> HIDE DEF slot
<1> QED BY <1>1, <1>2, SetSlotBecomes

\* Remove of a channel that has been deleted, whether or not the idle timer's
\* Shutdown makes ConnectionDestructor disable it again.
LEMMA RemoveDeleted ==
    ASSUME PollTypeOK, NEW c \in Conns, NEW l \in Loops, NEW f \in Fds,
           chState[c] = "kDeleted", registered[l][f] = E!NotRegistered, event_[c] = {},
           NEW slot \in {E!Update(Slot(c, l, f), c, {}), Slot(c, l, f)},
           SetSlot(c, l, f, Remove(slot, c))
    PROVE  PollTypeOK' /\ SlotBecomes(c, l, f, {}, "kNew")
<1> DEFINE new == Remove(slot, c)
<1>1. /\ slot.event_ = {} /\ slot.state_ \in {"kAdded", "kDeleted"}
      /\ slot.state_ = "kDeleted" => slot.registered = E!NotRegistered
      /\ DOMAIN slot = {"event_", "state_", "channelmap_", "registered"}
  BY DEF E!Update, E!Operation, E!EpollCtl, Slot
<1>2. /\ new.event_ = {} /\ new.state_ = "kNew" /\ new.channelmap_ = NoChannel
      /\ new.registered = E!NotRegistered
  BY <1>1 DEF Remove, E!Remove, E!EpollCtl
<1>3. {} \in Events
  BY DEF Events
<1> HIDE DEF new
<1> QED BY <1>2, <1>3, SetSlotBecomes DEF new

-----------------------------------------------------------------------------
(* What one connection's step leaves alone.                                *)

\* Every connection but c has the life, the loop and the fd it had.
OthersStay(c) == \A d \in Conns \ {c} :
    (Live(d)' <=> Live(d)) /\ loop_'[d] = loop_[d] /\ connfd_'[d] = connfd_[d]

\* A change of c's slot, or none, is to what EpollerMatches says of its state.
LEMMA SlotsKept ==
    ASSUME EpollerMatches, NoStrangers, NEW c \in Conns, NEW l \in Loops, NEW f \in Fds,
           NEW events, NEW state \in {"kNew", "kAdded", "kDeleted"},
           SlotBecomes(c, l, f, events, state), OthersStay(c), Owns(c, l, f)',
           Live(c) => Owns(c, l, f), \A d \in Conns \ {c} : Live(d) => connfd_[d] # f,
           \A d \in Conns : Live(d) => loop_[d] \in Loops /\ connfd_[d] \in Fds
    PROVE  EpollerMatches' /\ NoStrangers'
<1>1. ASSUME NEW d \in Conns, Live(d)'
      PROVE  /\ channelmap_'[loop_'[d]][connfd_'[d]] =
                    IF chState'[d] = "kNew" THEN NoChannel ELSE d
             /\ registered'[loop_'[d]][connfd_'[d]] =
                    IF chState'[d] = "kAdded" THEN [ptr |-> d, events |-> event_'[d]]
                    ELSE E!NotRegistered
  <2>1. CASE d = c
    BY <2>1 DEF SlotBecomes, Owns
  <2>2. CASE d # c
    <3>1. /\ Live(d) /\ loop_'[d] = loop_[d] /\ connfd_'[d] = connfd_[d] /\ connfd_[d] # f
          /\ loop_[d] \in Loops /\ connfd_[d] \in Fds
      BY <1>1, <2>2 DEF OthersStay
    <3>2. chState'[d] = chState[d] /\ event_'[d] = event_[d]
      BY <2>2 DEF SlotBecomes
    <3>3. /\ channelmap_'[loop_[d]][connfd_[d]] = channelmap_[loop_[d]][connfd_[d]]
          /\ registered'[loop_[d]][connfd_[d]] = registered[loop_[d]][connfd_[d]]
      BY <3>1 DEF SlotBecomes
    <3> QED BY <3>1, <3>2, <3>3 DEF EpollerMatches, Alive, Live
  <2> QED BY <2>1, <2>2
<1>2. ASSUME NEW k \in Loops, NEW g \in Fds, \A d \in Conns : ~Owns(d, k, g)'
      PROVE  channelmap_'[k][g] = NoChannel /\ registered'[k][g] = E!NotRegistered
  <2>1. ~(k = l /\ g = f)
    BY <1>2
  <2>2. \A d \in Conns : ~Owns(d, k, g)
    BY <1>2, <2>1 DEF OthersStay, Owns
  <2> QED BY <2>1, <2>2 DEF SlotBecomes, NoStrangers
<1> QED BY <1>1, <1>2 DEF EpollerMatches, NoStrangers, Alive, Live

\* The same, for a step that changes no slot and no connection.
LEMMA SlotsSame ==
    ASSUME EpollerMatches, NoStrangers, UNCHANGED pollVars,
           UNCHANGED <<connfd_, loop_>>, \A d \in Conns : Live(d)' <=> Live(d)
    PROVE  EpollerMatches' /\ NoStrangers'
<1> USE DEF pollVars
<1>1. EpollerMatches'
  BY DEF EpollerMatches, Alive, Live
<1>2. NoStrangers'
  BY DEF NoStrangers, Owns
<1> QED BY <1>1, <1>2

-----------------------------------------------------------------------------
(* The queues.                                                             *)

QueueTypeOK ==
    /\ to_do_list_ \in [Loops -> Seq(Functors)]
    /\ funclists \in [Loops -> Seq(Functors)]
    /\ ran \in [Loops -> Nat] /\ \A l \in Loops : ran[l] <= Len(funclists[l])

\* What is in the queues are functors.
LEMMA FunctorsQueued ==
    ASSUME QueueTypeOK, NEW l \in Loops
    PROVE  Queued(l) \subseteq Functors /\ Unrun(l) \subseteq Functors
<1>1. /\ to_do_list_[l] \in Seq(Functors) /\ funclists[l] \in Seq(Functors)
      /\ ran[l] \in Nat /\ Len(funclists[l]) \in Nat
  BY DEF QueueTypeOK
<1>2. ASSUME NEW i \in ran[l] + 1 .. Len(funclists[l]) PROVE funclists[l][i] \in Functors
  BY <1>1
<1>3. ASSUME NEW i \in DOMAIN to_do_list_[l] PROVE to_do_list_[l][i] \in Functors
  BY <1>1
<1> QED BY <1>2, <1>3 DEF Queued, Unrun, Range

\* QueueOneFunc puts one functor behind the rest.
LEMMA QueueGrows ==
    ASSUME QueueTypeOK, \A k \in Loops : OnceQueued(k), NEW l \in Loops, NEW fn \in Functors,
           QueueOneFunc(l, fn), fn \notin Queued(l)
    PROVE  /\ to_do_list_' \in [Loops -> Seq(Functors)]
           /\ \A k \in Loops : OnceQueued(k)'
           /\ \A k \in Loops : Queued(k)' = Queued(k) \cup (IF k = l THEN {fn} ELSE {})
<1> DEFINE q == to_do_list_[l]
<1>1. to_do_list_' = [to_do_list_ EXCEPT ![l] = Append(q, fn)]
  BY DEF QueueOneFunc
<1>2. q \in Seq(Functors) /\ Len(q) \in Nat
  BY DEF QueueTypeOK
<1>3. Append(q, fn) \in Seq(Functors)
  BY <1>2
<1>4. /\ to_do_list_' \in [Loops -> Seq(Functors)]
      /\ to_do_list_'[l] = Append(q, fn)
      /\ \A k \in Loops \ {l} : to_do_list_'[k] = to_do_list_[k]
  BY <1>1, <1>3 DEF QueueTypeOK
<1>5. /\ Len(Append(q, fn)) = Len(q) + 1 /\ Append(q, fn)[Len(q) + 1] = fn
      /\ \A i \in 1 .. Len(q) : Append(q, fn)[i] = q[i]
      /\ DOMAIN q = 1 .. Len(q) /\ DOMAIN Append(q, fn) = 1 .. Len(q) + 1
  BY <1>2
<1>6. \A i \in 1 .. Len(q) : q[i] # fn
  BY <1>5 DEF Queued, Range
<1>7. \A k \in Loops : OnceQueued(k)'
  <2>1. OnceQueued(l)'
    <3>1. ASSUME NEW i \in 1 .. Len(q) + 1, NEW j \in 1 .. Len(q) + 1,
                 Append(q, fn)[i] = Append(q, fn)[j]
          PROVE  i = j
      <4>1. CASE i \in 1 .. Len(q) /\ j \in 1 .. Len(q)
        BY <3>1, <4>1, <1>5 DEF OnceQueued
      <4>2. CASE i = Len(q) + 1 \/ j = Len(q) + 1
        BY <3>1, <4>2, <1>2, <1>5, <1>6
      <4> QED BY <4>1, <4>2, <1>2
    <3> QED BY <3>1, <1>4, <1>5 DEF OnceQueued
  <2> QED BY <2>1, <1>4 DEF OnceQueued
<1>8. Range(Append(q, fn)) = Range(q) \cup {fn}
  <2>1. ASSUME NEW x \in Range(Append(q, fn)) PROVE x \in Range(q) \cup {fn}
    <3>1. PICK i \in 1 .. Len(q) + 1 : x = Append(q, fn)[i]
      BY <1>5 DEF Range
    <3> QED BY <3>1, <1>2, <1>5 DEF Range
  <2>2. ASSUME NEW x \in Range(q) PROVE x \in Range(Append(q, fn))
    <3>1. PICK i \in 1 .. Len(q) : x = q[i]
      BY <1>5 DEF Range
    <3>2. i \in DOMAIN Append(q, fn) /\ Append(q, fn)[i] = x
      BY <3>1, <1>2, <1>5
    <3> QED BY <3>2 DEF Range
  <2>3. fn \in Range(Append(q, fn))
    <3>1. Len(q) + 1 \in DOMAIN Append(q, fn)
      BY <1>2, <1>5
    <3> QED BY <3>1, <1>5 DEF Range
  <2> QED BY <2>1, <2>2, <2>3
<1> QED BY <1>4, <1>7, <1>8 DEF Queued

\* RunFunctor takes one functor from what is left to run.
LEMMA FunctorLeaves ==
    ASSUME QueueTypeOK, \A k \in Loops : OnceUnrun(k), NEW l \in Loops,
           NEW func, NEW c \in Conns, RunFunctor(l, func, c)
    PROVE  /\ ran' \in [Loops -> Nat] /\ \A k \in Loops : ran'[k] <= Len(funclists'[k])
           /\ funclists' = funclists /\ \A k \in Loops \ {l} : ran'[k] = ran[k]
           /\ \A k \in Loops : OnceUnrun(k)'
           /\ Functor(func, c) \in Unrun(l)
           /\ \A k \in Loops : Unrun(k)' =
                 Unrun(k) \ (IF k = l THEN {Functor(func, c)} ELSE {})
<1> DEFINE q == funclists[l]
           n == ran[l]
           fn == Functor(func, c)
<1>1. /\ n < Len(q) /\ q[n + 1] = fn /\ funclists' = funclists
      /\ ran' = [ran EXCEPT ![l] = n + 1]
  BY DEF RunFunctor
<1>2. q \in Seq(Functors) /\ Len(q) \in Nat /\ n \in Nat
  BY DEF QueueTypeOK
<1>3. /\ ran' \in [Loops -> Nat] /\ ran'[l] = n + 1
      /\ \A k \in Loops \ {l} : ran'[k] = ran[k]
  BY <1>1, <1>2 DEF QueueTypeOK
<1>4. \A k \in Loops : ran'[k] <= Len(funclists'[k])
  BY <1>1, <1>2, <1>3 DEF QueueTypeOK
<1>5. \A i, j \in n + 1 .. Len(q) : q[i] = q[j] => i = j
  BY DEF OnceUnrun
<1>6. \A k \in Loops : OnceUnrun(k)'
  <2>1. \A i, j \in n + 2 .. Len(q) : q[i] = q[j] => i = j
    BY <1>2, <1>5
  <2>2. n + 1 + 1 = n + 2
    BY <1>2
  <2> QED BY <1>1, <1>3, <2>1, <2>2 DEF OnceUnrun
<1>7. fn \in {q[i] : i \in n + 1 .. Len(q)}
  BY <1>1, <1>2
<1>8. {q[i] : i \in n + 1 + 1 .. Len(q)} = {q[i] : i \in n + 1 .. Len(q)} \ {fn}
  <2>1. \A i \in n + 1 .. Len(q) : i \in n + 1 + 1 .. Len(q) <=> i # n + 1
    BY <1>2
  <2>2. \A i \in n + 1 + 1 .. Len(q) : i \in n + 1 .. Len(q)
    BY <1>2
  <2>3. n + 1 \in n + 1 .. Len(q)
    BY <1>1, <1>2
  <2>4. \A i \in n + 1 .. Len(q) : q[i] = fn <=> i = n + 1
    BY <1>1, <1>5, <2>3
  <2> QED BY <2>1, <2>2, <2>4
<1>9. /\ Unrun(l) = {q[i] : i \in n + 1 .. Len(q)}
      /\ Unrun(l)' = {q[i] : i \in n + 1 + 1 .. Len(q)}
      /\ \A k \in Loops \ {l} : Unrun(k)' = Unrun(k)
  BY <1>1, <1>3 DEF Unrun
<1> QED BY <1>1, <1>3, <1>4, <1>6, <1>7, <1>8, <1>9

-----------------------------------------------------------------------------
(* Steps that move one connection, and steps that move none.               *)

RestTypeOK ==
    /\ life \in [Conns -> {"remote", "backlog", "refused", "alive", "destroyed"}]
    /\ peer \in [Conns -> {"open", "closed", "reset"}]
    /\ inbound \subseteq Conns /\ timers \subseteq Conns
    /\ connfd_ \in [Conns -> Fds \cup {NoChannel}]
    /\ loop_ \in [Conns -> Loops \cup {NoChannel}]
    /\ state_ \in [Conns -> {"kConnected", "kDisconnected", "kDisconnecting"}]
    /\ connections_ \in [Fds -> Conns \cup {NoChannel}]
    /\ loops_ \in Pools /\ next_ \in Nat
    /\ loops_ # <<>> => next_ < Len(loops_)
    /\ pc \in [Loops -> {"wait", "dispatch", "functors"}]
    /\ ActiveChannel_ \in
          [Loops -> SUBSET [ptr : Conns \cup {Acceptor, TimerQueue}, revents : Events]]
    /\ writing \in [Loops -> Conns \cup {NoChannel}]

\* TypeOK in three parts, before and after a step.
LEMMA Types ==
    /\ TypeOK => RestTypeOK /\ PollTypeOK /\ QueueTypeOK
    /\ RestTypeOK' /\ PollTypeOK' /\ QueueTypeOK' => TypeOK'
BY DEF TypeOK, RestTypeOK, PollTypeOK, QueueTypeOK

\* A step that leaves the queues alone.
LEMMA QueuesSame ==
    ASSUME IInv, UNCHANGED queueVars
    PROVE  NoRepeat' /\ QueueTypeOK' /\ \A k \in Loops : Waiting(k)' = Waiting(k)
<1>1. UNCHANGED <<to_do_list_, funclists, ran>>
  BY DEF queueVars
<1>2. ASSUME NEW k \in Loops
      PROVE  /\ OnceQueued(k)' /\ OnceUnrun(k)'
             /\ Queued(k)' = Queued(k) /\ Unrun(k)' = Unrun(k)
  <2>1. OnceQueued(k) /\ OnceUnrun(k)
    BY DEF IInv, NoRepeat
  <2> QED BY <1>1, <2>1 DEF OnceQueued, OnceUnrun, Queued, Unrun
<1>3. NoRepeat'
  BY <1>2 DEF IInv, NoRepeat
<1> QED BY <1>1, <1>2, <1>3, Types DEF IInv, QueueTypeOK, Waiting

\* The functors that wait stay due when no channel goes to another state.
LEMMA DueSame ==
    ASSUME IInv, \A c \in Conns : Live(c)' <=> Live(c),
           \A c \in Conns : chState'[c] = chState[c],
           UNCHANGED <<connfd_, loop_, connections_>>,
           \A k \in Loops : Waiting(k)' = Waiting(k)
    PROVE  FunctorsDue'
<1>1. \A l \in Loops : \A fn \in Waiting(l)' : Due(fn, l)'
  <2>1. SUFFICES ASSUME NEW l \in Loops, NEW fn \in Waiting(l) PROVE Due(fn, l)'
    OBVIOUS
  <2>2. Due(fn, l) /\ fn.conn \in Conns
    <3>1. fn \in Functors
      BY <2>1, FunctorsQueued, Types DEF IInv, Waiting
    <3> QED BY <2>1, <3>1 DEF IInv, FunctorsDue, Functors
  <2> QED BY <2>2 DEF Due, Entered
<1>2. ASSUME NEW c \in Conns, Live(c)', chState'[c] = "kDeleted", ~Entered(c)'
      PROVE  Functor("ConnectionDestructor", c) \in Waiting(loop_[c])'
  <2>1. Live(c) /\ chState[c] = "kDeleted" /\ ~Entered(c)
    BY <1>2 DEF Entered
  <2>2. loop_'[c] = loop_[c] /\ loop_[c] \in Loops
    BY <2>1 DEF IInv, Ownership
  <2>3. Functor("ConnectionDestructor", c) \in Waiting(loop_[c])
    BY <2>1 DEF IInv, FunctorsDue
  <2> QED BY <2>2, <2>3 DEF Waiting, Queued, Unrun
<1> QED BY <1>1, <1>2 DEF FunctorsDue

\* A step that leaves every connection where it is on its way keeps what says
\* where that is.
LEMMA AllStay ==
    ASSUME IInv, \A c \in Conns : Live(c)' <=> Live(c),
           \A c \in Conns : life'[c] \in {"remote", "backlog"} => life[c] \in {"remote", "backlog"},
           UNCHANGED <<connfd_, loop_, pollVars, connections_>>
    PROVE  /\ Ownership' /\ EpollerMatches' /\ NoStrangers' /\ Channels' /\ PollTypeOK'
           /\ (\A k \in Loops : Waiting(k)' = Waiting(k)) => FunctorsDue'
<1>1. EpollerMatches' /\ NoStrangers'
  BY SlotsSame DEF IInv
<1>2. Ownership'
  <2>1. \A f \in Fds : connections_[f] # NoChannel => connections_[f] \in Conns
    BY Types DEF IInv, RestTypeOK
  <2> QED BY <2>1 DEF IInv, Ownership
<1>3. Channels' /\ PollTypeOK'
  BY Types DEF IInv, Channels, Entered, PollTypeOK, pollVars
<1>4. (\A k \in Loops : Waiting(k)' = Waiting(k)) => FunctorsDue'
  BY DueSame DEF pollVars
<1> QED BY <1>1, <1>2, <1>3, <1>4

\* A step that takes one live connection's channel to another state, as the
\* other parts of its state permit.
LEMMA OneMoves ==
    ASSUME IInv, NEW c \in Conns, Live(c), NEW events \in Events,
           NEW state \in {"kNew", "kAdded", "kDeleted"},
           SlotBecomes(c, loop_[c], connfd_[c], events, state),
           state = "kAdded" => Entered(c) /\ "EPOLLIN" \in events,
           state # "kAdded" => events = {},
           UNCHANGED <<connfd_, loop_, life, connections_>>
    PROVE  Ownership' /\ EpollerMatches' /\ NoStrangers' /\ Channels'
<1>0. loop_[c] \in Loops /\ connfd_[c] \in Fds
  BY DEF IInv, Ownership
<1>1. EpollerMatches' /\ NoStrangers'
  <2>1. OthersStay(c)
    BY DEF OthersStay, Live
  <2>2. Owns(c, loop_[c], connfd_[c]) /\ Live(c)'
    BY DEF Owns, Live
  <2>3. \A l, f : Owns(c, l, f)' <=> Owns(c, l, f)
    BY DEF Owns, Live
  <2>4. \A d \in Conns \ {c} : Live(d) => connfd_[d] # connfd_[c]
    BY DEF IInv, Ownership
  <2>5. \A d \in Conns : Live(d) => loop_[d] \in Loops /\ connfd_[d] \in Fds
    BY DEF IInv, Ownership
  <2>6. EpollerMatches /\ NoStrangers
    BY DEF IInv
  <2> DEFINE l == loop_[c]
             f == connfd_[c]
  <2>7. /\ l \in Loops /\ f \in Fds /\ SlotBecomes(c, l, f, events, state)
        /\ Live(c)' /\ loop_'[c] = l /\ connfd_'[c] = f
    BY <1>0, <2>2
  <2> QED
    <3>1. PICK k \in Loops, g \in Fds : k = l /\ g = f
      BY <2>7
    <3>2. SlotBecomes(c, k, g, events, state) /\ Owns(c, k, g)' /\ Owns(c, k, g)
      BY <2>2, <2>7, <3>1 DEF Owns
    <3>3. \A d \in Conns \ {c} : Live(d) => connfd_[d] # g
      BY <2>4, <3>1
    <3> QED BY <2>1, <2>5, <2>6, <3>2, <3>3, SlotsKept
<1>2. Ownership'
  BY DEF IInv, Ownership, Live
<1>3. Channels'
  <2>1. ASSUME NEW d \in Conns
        PROVE  /\ life'[d] \in {"remote", "backlog"} => chState'[d] = "kNew" /\ event_'[d] = {}
               /\ Live(d)' /\ chState'[d] = "kAdded" => Entered(d)' /\ "EPOLLIN" \in event_'[d]
               /\ Live(d)' /\ chState'[d] # "kAdded" => event_'[d] = {}
    <3>1. CASE d = c
      BY <3>1 DEF SlotBecomes, Entered, Live
    <3>2. CASE d # c
      BY <3>2 DEF SlotBecomes, Entered, Live, IInv, Channels
    <3> QED BY <3>1, <3>2
  <2> QED BY <2>1 DEF Channels
<1> QED BY <1>1, <1>2, <1>3

\* A channel that is left alone.
LEMMA SlotStays ==
    ASSUME IInv, NEW c \in Conns, Live(c), UNCHANGED pollVars
    PROVE  PollTypeOK' /\ SlotBecomes(c, loop_[c], connfd_[c], event_[c], chState[c])
<1>1. PollTypeOK'
  BY Types DEF IInv, PollTypeOK, pollVars
<1>2. /\ channelmap_[loop_[c]][connfd_[c]] = IF chState[c] = "kNew" THEN NoChannel ELSE c
      /\ registered[loop_[c]][connfd_[c]] = IF chState[c] = "kAdded"
                THEN [ptr |-> c, events |-> event_[c]] ELSE E!NotRegistered
  BY DEF IInv, EpollerMatches, Alive, Live
<1> QED BY <1>1, <1>2 DEF SlotBecomes, pollVars

\* The functors stay due when one connection moves and those that wait are as
\* its new place has it.
LEMMA DueStep ==
    ASSUME IInv, NEW c \in Conns, OthersStay(c),
           \A d \in Conns \ {c} : chState'[d] = chState[d],
           \A d \in Conns \ {c} : Live(d) => (Entered(d)' <=> Entered(d)),
           \A k \in Loops : Waiting(k)' \subseteq Functors,
           \A k \in Loops : \A fn \in Waiting(k)' :
              IF fn.conn = c THEN Due(fn, k)' ELSE fn \in Waiting(k),
           \A k \in Loops : \A fn \in Waiting(k) : fn.conn # c => fn \in Waiting(k)',
           Live(c)' /\ chState'[c] = "kDeleted" /\ ~Entered(c)' =>
              Functor("ConnectionDestructor", c) \in Waiting(loop_[c])'
    PROVE  FunctorsDue'
<1>1. ASSUME NEW l \in Loops, NEW fn \in Waiting(l)' PROVE Due(fn, l)'
  <2>1. CASE fn.conn = c
    BY <1>1, <2>1
  <2>2. CASE fn.conn # c
    <3>1. fn.conn \in Conns \ {c} /\ fn \in Waiting(l)
      BY <1>1, <2>2 DEF Functors
    <3>2. Due(fn, l)
      BY <3>1 DEF IInv, FunctorsDue
    <3> QED BY <3>1, <3>2 DEF Due, OthersStay
  <2> QED BY <2>1, <2>2
<1>2. ASSUME NEW d \in Conns, Live(d)', chState'[d] = "kDeleted", ~Entered(d)'
      PROVE  Functor("ConnectionDestructor", d) \in Waiting(loop_[d])'
  <2>1. CASE d = c
    BY <1>2, <2>1
  <2>2. CASE d # c
    <3>1. Live(d) /\ chState[d] = "kDeleted" /\ ~Entered(d) /\ loop_'[d] = loop_[d]
      BY <1>2, <2>2 DEF OthersStay
    <3>2. Functor("ConnectionDestructor", d) \in Waiting(loop_[d]) /\ loop_[d] \in Loops
      BY <3>1 DEF IInv, FunctorsDue, Ownership
    <3>3. Functor("ConnectionDestructor", d).conn = d
      BY DEF Functor
    <3> QED BY <2>2, <3>1, <3>2, <3>3 DEF Waiting, Queued, Unrun
  <2> QED BY <2>1, <2>2
<1> QED BY <1>1, <1>2 DEF FunctorsDue

\* The events and the write halves that remain are still of open connections
\* when one connection moves.
LEMMA HandlersStep ==
    ASSUME IInv, NEW c \in Conns, OthersStay(c),
           \A d \in Conns \ {c} : chState'[d] = chState[d],
           \A k \in Loops : ActiveChannel_'[k] \subseteq ActiveChannel_[k],
           \A k \in Loops : writing'[k] \in {writing[k], NoChannel, c},
           \A k \in Loops : writing'[k] \in Conns \cup {NoChannel},
           \A k \in Loops : \A e \in ActiveChannel_'[k] : e.ptr = c =>
              Live(c)' /\ loop_'[c] = k /\ chState'[c] = "kAdded",
           \A k \in Loops : writing'[k] = c =>
              Live(c)' /\ loop_'[c] = k /\ chState'[c] # "kNew"
    PROVE  Handlers'
<1>1. ASSUME NEW l \in Loops, NEW e \in ActiveChannel_'[l], e.ptr \in Conns
      PROVE  Live(e.ptr)' /\ loop_'[e.ptr] = l /\ chState'[e.ptr] = "kAdded"
  <2>1. CASE e.ptr = c
    BY <1>1, <2>1
  <2>2. CASE e.ptr # c
    <3>1. e \in ActiveChannel_[l]
      BY <1>1
    <3>2. Live(e.ptr) /\ loop_[e.ptr] = l /\ chState[e.ptr] = "kAdded"
      BY <1>1, <3>1 DEF IInv, Handlers
    <3> QED BY <1>1, <2>2, <3>2 DEF OthersStay
  <2> QED BY <2>1, <2>2
<1>2. \A l \in Loops : \A e, f \in ActiveChannel_'[l] : e.ptr \in Conns /\ e.ptr = f.ptr => e = f
  BY DEF IInv, Handlers
<1>3. ASSUME NEW l \in Loops, writing'[l] # NoChannel
      PROVE  Live(writing[l])' /\ loop_'[writing'[l]] = l /\ chState'[writing'[l]] # "kNew"
  <2>1. CASE writing'[l] = c
    BY <1>3, <2>1 DEF Live
  <2>2. CASE writing'[l] # c
    <3>1. writing'[l] = writing[l] /\ writing[l] \in Conns \ {c}
      BY <1>3, <2>2
    <3>2. Live(writing[l]) /\ loop_[writing[l]] = l /\ chState[writing[l]] # "kNew"
      BY <1>3, <3>1 DEF IInv, Handlers
    <3>3. ASSUME NEW d \in Conns \ {c}, Live(d), loop_[d] = l, chState[d] # "kNew"
          PROVE  Live(d)' /\ loop_'[d] = l /\ chState'[d] # "kNew"
      BY <3>3 DEF OthersStay
    <3>4. PICK d \in Conns \ {c} : d = writing[l]
      BY <3>1
    <3>5. Live(d)' /\ loop_'[d] = l /\ chState'[d] # "kNew"
      BY <3>2, <3>3, <3>4 DEF Live
    <3> QED BY <3>1, <3>4, <3>5 DEF Live
  <2> QED BY <2>1, <2>2
<1> QED BY <1>1, <1>2, <1>3 DEF Handlers

-----------------------------------------------------------------------------
(* The steps.                                                              *)

\* What a client does moves no connection that exists.
LEMMA ClientStep ==
    ASSUME IInv, NEW c \in Conns, Client(c)
    PROVE  IInv'
<1>1. UNCHANGED <<connVars, pollVars, serverVars, queueVars, stepVars>>
  BY DEF Client
<1>2. RestTypeOK /\ PollTypeOK /\ QueueTypeOK
  BY Types DEF IInv
<1>3. /\ life' \in [Conns -> {"remote", "backlog", "refused", "alive", "destroyed"}]
      /\ \A d \in Conns : Live(d)' <=> Live(d)
      /\ \A d \in Conns : life'[d] \in {"remote", "backlog"} => life[d] \in {"remote", "backlog"}
      /\ peer' \in [Conns -> {"open", "closed", "reset"}] /\ inbound' \subseteq Conns
  BY <1>2 DEF Client, Connect, PeerSends, PeerLeaves, Live, RestTypeOK
<1>4. RestTypeOK'
  BY <1>1, <1>2, <1>3 DEF RestTypeOK, connVars, serverVars, stepVars
<1>5. NoRepeat' /\ QueueTypeOK' /\ \A k \in Loops : Waiting(k)' = Waiting(k)
  BY <1>1, QueuesSame
<1>6. Ownership' /\ EpollerMatches' /\ NoStrangers' /\ Channels' /\ PollTypeOK' /\ FunctorsDue'
  BY <1>1, <1>3, <1>5, AllStay DEF connVars, serverVars
<1>7. Handlers' /\ Places'
  <2>1. \A l \in Loops : writing[l] \in Conns \cup {NoChannel}
    BY <1>2 DEF RestTypeOK
  <2> QED BY <1>1, <1>3, <2>1
          DEF IInv, Handlers, Places, connVars, pollVars, queueVars, stepVars
<1> QED BY <1>4, <1>5, <1>6, <1>7, Types DEF IInv

\* What epoll_wait reports of connections is of open ones, once each.
LEMMA ReportedOpen ==
    ASSUME IInv, NEW l \in Loops, NEW writable, NEW e \in Reported(l, writable)
    PROVE  /\ e \in [ptr : Conns \cup {Acceptor, TimerQueue}, revents : Events]
           /\ e.ptr \in Conns =>
                /\ Live(e.ptr) /\ loop_[e.ptr] = l /\ chState[e.ptr] = "kAdded"
                /\ \A d \in Reported(l, writable) : d.ptr = e.ptr => d = e
<1> DEFINE Event(f) == [ptr |-> registered[l][f].ptr,
                        revents |-> {ev \in registered[l][f].events :
                            \/ ev = "EPOLLIN" /\ InputReady(registered[l][f].ptr)
                            \/ ev = "EPOLLOUT" /\ registered[l][f].ptr \in writable}]
<1>1. ASSUME NEW f \in Fds, registered[l][f] # E!NotRegistered
      PROVE  \E c \in Conns : Owns(c, l, f) /\ chState[c] = "kAdded"
                              /\ registered[l][f] = [ptr |-> c, events |-> event_[c]]
  <2>1. PICK c \in Conns : Owns(c, l, f)
    BY <1>1 DEF IInv, NoStrangers
  <2> QED BY <1>1, <2>1 DEF IInv, EpollerMatches, Owns, Alive, Live
<1>2. \A d \in Reported(l, writable) :
         \/ d.ptr \in {Acceptor, TimerQueue} /\ d.revents = {"EPOLLIN"}
            /\ d = [ptr |-> d.ptr, revents |-> d.revents]
         \/ \E f \in Fds : registered[l][f] # E!NotRegistered /\ d = Event(f)
  BY DEF Reported
<1>3. {Acceptor, TimerQueue} \cap Conns = {}
  BY TcpServerAssumption DEF TcpServerAssumption
<1>4. CASE e.ptr \in {Acceptor, TimerQueue} /\ e.revents = {"EPOLLIN"}
           /\ e = [ptr |-> e.ptr, revents |-> e.revents]
  BY <1>3, <1>4 DEF Events
<1>5. CASE \E f \in Fds : registered[l][f] # E!NotRegistered /\ e = Event(f)
  <2>1. PICK f \in Fds : registered[l][f] # E!NotRegistered /\ e = Event(f)
    BY <1>5
  <2>2. PICK c \in Conns : /\ Owns(c, l, f) /\ chState[c] = "kAdded"
                           /\ registered[l][f] = [ptr |-> c, events |-> event_[c]]
    BY <1>1, <2>1
  <2>3. e.ptr = c /\ Live(c) /\ loop_[c] = l /\ connfd_[c] = f
    BY <2>1, <2>2 DEF Owns
  <2>4. ASSUME NEW d \in Reported(l, writable), d.ptr = e.ptr
        PROVE  d = e
    <3>1. PICK g \in Fds : registered[l][g] # E!NotRegistered /\ d = Event(g)
      BY <1>2, <1>3, <2>3, <2>4
    <3>2. PICK b \in Conns : Owns(b, l, g) /\ registered[l][g].ptr = b
      <4>1. \E b \in Conns : Owns(b, l, g) /\ registered[l][g] = [ptr |-> b, events |-> event_[b]]
        BY <1>1, <3>1
      <4> QED BY <4>1
    <3>3. b = c
      BY <2>3, <2>4, <3>1, <3>2
    <3>4. g = f
      BY <2>3, <3>2, <3>3 DEF Owns
    <3> QED BY <2>1, <3>1, <3>4
  <2>5. e \in [ptr : Conns \cup {Acceptor, TimerQueue}, revents : Events]
    <3>1. registered[l][f].events \subseteq {"EPOLLIN", "EPOLLOUT"}
      BY Types DEF IInv, PollTypeOK, Events
    <3> QED BY <2>1, <2>3, <3>1 DEF Events
  <2> QED BY <2>2, <2>3, <2>4, <2>5
<1> QED BY <1>2, <1>4, <1>5

\* epoll_wait preserves the invariant.
LEMMA EpollWaitStep ==
    ASSUME IInv, NEW l \in Loops, EpollWait(l)
    PROVE  IInv'
<1>1. /\ pc[l] = "wait" /\ pc' = [pc EXCEPT ![l] = "dispatch"]
      /\ UNCHANGED <<remoteVars, connVars, pollVars, serverVars, queueVars, writing>>
  BY DEF EpollWait
<1>2. PICK writable, events :
         /\ events = {e \in Reported(l, writable) : e.revents # {}}
         /\ ActiveChannel_' = [ActiveChannel_ EXCEPT ![l] = events]
  BY DEF EpollWait
<1>3. RestTypeOK /\ PollTypeOK /\ QueueTypeOK
  BY Types DEF IInv
<1>4. /\ events \subseteq [ptr : Conns \cup {Acceptor, TimerQueue}, revents : Events]
      /\ \A e \in events : e.ptr \in Conns =>
            Live(e.ptr) /\ loop_[e.ptr] = l /\ chState[e.ptr] = "kAdded"
      /\ \A e, f \in events : e.ptr \in Conns /\ e.ptr = f.ptr => e = f
  BY <1>2, ReportedOpen
<1>5. /\ ActiveChannel_'[l] = events /\ pc'[l] = "dispatch"
      /\ \A k \in Loops \ {l} : ActiveChannel_'[k] = ActiveChannel_[k] /\ pc'[k] = pc[k]
      /\ pc' \in [Loops -> {"wait", "dispatch", "functors"}]
      /\ ActiveChannel_' \in
            [Loops -> SUBSET [ptr : Conns \cup {Acceptor, TimerQueue}, revents : Events]]
  BY <1>1, <1>2, <1>3, <1>4 DEF RestTypeOK
<1>6. RestTypeOK'
  BY <1>1, <1>3, <1>5 DEF RestTypeOK, remoteVars, connVars, serverVars
<1>7. NoRepeat' /\ QueueTypeOK' /\ \A k \in Loops : Waiting(k)' = Waiting(k)
  BY <1>1, QueuesSame
<1>8. Ownership' /\ EpollerMatches' /\ NoStrangers' /\ Channels' /\ PollTypeOK' /\ FunctorsDue'
  <2>1. UNCHANGED <<life, connfd_, loop_, pollVars, connections_>>
    BY <1>1 DEF remoteVars, connVars, serverVars
  <2> QED BY <2>1, <1>7, AllStay DEF Live
<1>9. Handlers' /\ Places'
  <2>1. ASSUME NEW k \in Loops
        PROVE  /\ \A e \in ActiveChannel_'[k] : e.ptr \in Conns =>
                     Live(e.ptr) /\ loop_[e.ptr] = k /\ chState[e.ptr] = "kAdded"
               /\ \A e, f \in ActiveChannel_'[k] : e.ptr \in Conns /\ e.ptr = f.ptr => e = f
    BY <1>4, <1>5 DEF IInv, Handlers
  <2>2. Handlers'
    BY <1>1, <2>1 DEF IInv, Handlers, Live, remoteVars, connVars, pollVars
  <2>3. Places'
    BY <1>1, <1>5 DEF IInv, Places, queueVars
  <2> QED BY <2>2, <2>3
<1> QED BY <1>6, <1>7, <1>8, <1>9, Types DEF IInv

\* What Dispatch does to the events.
LEMMA Dispatched ==
    ASSUME RestTypeOK, NEW l \in Loops, NEW e, Dispatch(l, e)
    PROVE  /\ pc[l] = "dispatch" /\ writing[l] = NoChannel /\ e \in ActiveChannel_[l]
           /\ pc' = pc
           /\ ActiveChannel_' \in
                [Loops -> SUBSET [ptr : Conns \cup {Acceptor, TimerQueue}, revents : Events]]
           /\ ActiveChannel_'[l] = ActiveChannel_[l] \ {e}
           /\ \A k \in Loops \ {l} : ActiveChannel_'[k] = ActiveChannel_[k]
BY DEF Dispatch, RestTypeOK

\* The base loop's steps that touch no channel.
LEMMA BaseStep ==
    ASSUME IInv, \/ \E c \in Conns : RefuseConn(c)
                 \/ \E expired \in SUBSET timers : \E idle \in SUBSET expired :
                       HandleIdleConnections(expired, idle)
    PROVE  IInv'
<1>1. /\ UNCHANGED <<peer, inbound, connfd_, loop_, pollVars, connections_, loops_, next_,
                     queueVars, writing>>
      /\ timers' \subseteq timers
      /\ \E e : Dispatch(Base, e)
  BY DEF RefuseConn, HandleIdleConnections, remoteVars, connVars, serverVars
<1>2. RestTypeOK /\ PollTypeOK /\ QueueTypeOK /\ Base \in Loops
  BY Types DEF IInv, Loops
<1>3. /\ life' \in [Conns -> {"remote", "backlog", "refused", "alive", "destroyed"}]
      /\ \A d \in Conns : Live(d)' <=> Live(d)
      /\ \A d \in Conns : life'[d] \in {"remote", "backlog"} => life[d] \in {"remote", "backlog"}
      /\ state_' \in [Conns -> {"kConnected", "kDisconnected", "kDisconnecting"}]
  <2>1. CASE \E c \in Conns : RefuseConn(c)
    BY <1>2, <2>1 DEF RefuseConn, Live, RestTypeOK, connVars
  <2>2. CASE \E expired \in SUBSET timers : \E idle \in SUBSET expired :
                HandleIdleConnections(expired, idle)
    BY <1>2, <2>2 DEF HandleIdleConnections, Live, RestTypeOK, remoteVars
  <2> QED BY <2>1, <2>2
<1>4. /\ pc' = pc
      /\ ActiveChannel_' \in
            [Loops -> SUBSET [ptr : Conns \cup {Acceptor, TimerQueue}, revents : Events]]
      /\ \A k \in Loops : ActiveChannel_'[k] \subseteq ActiveChannel_[k]
  BY <1>1, <1>2, Dispatched
<1>5. RestTypeOK'
  BY <1>1, <1>2, <1>3, <1>4 DEF RestTypeOK
<1>6. NoRepeat' /\ QueueTypeOK' /\ \A k \in Loops : Waiting(k)' = Waiting(k)
  BY <1>1, QueuesSame
<1>7. Ownership' /\ EpollerMatches' /\ NoStrangers' /\ Channels' /\ PollTypeOK' /\ FunctorsDue'
  BY <1>1, <1>3, <1>6, AllStay
<1>8. Handlers' /\ Places'
  <2>1. \A l \in Loops : writing[l] \in Conns \cup {NoChannel}
    BY <1>2 DEF RestTypeOK
  <2>2. Handlers'
    BY <1>1, <1>3, <1>4, <2>1 DEF IInv, Handlers, pollVars
  <2>3. Places'
    BY <1>1, <1>4 DEF IInv, Places, queueVars
  <2> QED BY <2>2, <2>3
<1> QED BY <1>5, <1>6, <1>7, <1>8, Types DEF IInv

\* SkipRead leads to the write half of an open connection.
LEMMA SkipReadStep ==
    ASSUME IInv, NEW l \in Loops, NEW e, SkipRead(l, e)
    PROVE  IInv'
<1> DEFINE c == e.ptr
<1>1. /\ c \in Conns /\ writing' = [writing EXCEPT ![l] = c]
      /\ UNCHANGED <<remoteVars, connVars, pollVars, serverVars, queueVars>>
      /\ Dispatch(l, e)
  BY DEF SkipRead
<1>2. RestTypeOK /\ PollTypeOK /\ QueueTypeOK
  BY Types DEF IInv
<1>3. /\ pc' = pc /\ pc[l] = "dispatch" /\ e \in ActiveChannel_[l]
      /\ ActiveChannel_' \in
            [Loops -> SUBSET [ptr : Conns \cup {Acceptor, TimerQueue}, revents : Events]]
      /\ \A k \in Loops : ActiveChannel_'[k] \subseteq ActiveChannel_[k]
  BY <1>1, <1>2, Dispatched
<1>4. /\ writing' \in [Loops -> Conns \cup {NoChannel}]
      /\ writing'[l] = c /\ \A k \in Loops \ {l} : writing'[k] = writing[k]
  BY <1>1, <1>2 DEF RestTypeOK
<1>5. RestTypeOK'
  BY <1>1, <1>2, <1>3, <1>4 DEF RestTypeOK, remoteVars, connVars, serverVars
<1>6. NoRepeat' /\ QueueTypeOK' /\ \A k \in Loops : Waiting(k)' = Waiting(k)
  BY <1>1, QueuesSame
<1>7. UNCHANGED <<life, connfd_, loop_, pollVars, connections_, chState>>
  BY <1>1 DEF remoteVars, connVars, serverVars, pollVars
<1>8. Ownership' /\ EpollerMatches' /\ NoStrangers' /\ Channels' /\ PollTypeOK' /\ FunctorsDue'
  BY <1>6, <1>7, AllStay DEF Live
<1>9. Live(c) /\ loop_[c] = l /\ chState[c] = "kAdded"
  BY <1>1, <1>3 DEF IInv, Handlers
<1>10. Handlers'
  <2>1. \A k \in Loops : writing[k] \in Conns \cup {NoChannel}
    BY <1>2 DEF RestTypeOK
  <2> HIDE DEF c
  <2>2. ASSUME NEW k \in Loops, writing'[k] # NoChannel
        PROVE  Live(writing[k])' /\ loop_'[writing'[k]] = k /\ chState'[writing'[k]] # "kNew"
    BY <1>4, <1>7, <1>9, <2>2 DEF IInv, Handlers, Live
  <2>3. \A k \in Loops :
          /\ \A d \in ActiveChannel_'[k] : d.ptr \in Conns =>
                Live(d.ptr)' /\ loop_'[d.ptr] = k /\ chState'[d.ptr] = "kAdded"
          /\ \A d, f \in ActiveChannel_'[k] : d.ptr \in Conns /\ d.ptr = f.ptr => d = f
    BY <1>3, <1>7 DEF IInv, Handlers, Live
  <2> QED BY <2>2, <2>3 DEF Handlers
<1>11. Places'
  BY <1>1, <1>3, <1>4 DEF IInv, Places, queueVars
<1> QED BY <1>5, <1>6, <1>8, <1>10, <1>11, Types DEF IInv

\* The write half either leaves the channel alone or ends the write interest of
\* a channel that wants input besides; a closed one has none.
LEMMA HandleWriteStep ==
    ASSUME IInv, NEW l \in Loops, HandleWrite(l)
    PROVE  IInv'
<1>1. RestTypeOK /\ PollTypeOK /\ QueueTypeOK
  BY Types DEF IInv
<1>2. PICK c \in Conns : c = writing[l]
  BY <1>1 DEF HandleWrite, RestTypeOK
<1> DEFINE rest == event_[c] \ {"EPOLLOUT"}
<1>3. /\ c # NoChannel /\ writing' = [writing EXCEPT ![l] = NoChannel]
      /\ UNCHANGED pollVars \/ (IsWriting(c) /\ SetEvents(c, rest))
      /\ UNCHANGED <<remoteVars, connVars, serverVars, queueVars, pc, ActiveChannel_>>
  BY <1>2 DEF HandleWrite
<1>4. c \in Conns /\ Live(c) /\ loop_[c] = l /\ chState[c] # "kNew" /\ connfd_[c] \in Fds
  BY <1>3, <1>2 DEF IInv, Handlers, Ownership
<1>5. PICK events \in Events :
         /\ PollTypeOK' /\ SlotBecomes(c, loop_[c], connfd_[c], events, chState[c])
         /\ chState[c] = "kAdded" => Entered(c) /\ "EPOLLIN" \in events
         /\ chState[c] # "kAdded" => events = {}
  <2>1. /\ event_[c] \in Events
        /\ chState[c] = "kAdded" => Entered(c) /\ "EPOLLIN" \in event_[c]
        /\ chState[c] # "kAdded" => event_[c] = {}
    BY <1>1, <1>4 DEF IInv, Channels, PollTypeOK
  <2>2. CASE UNCHANGED pollVars
    BY <1>4, <2>1, <2>2, SlotStays
  <2>3. CASE IsWriting(c) /\ SetEvents(c, rest)
    <3>1. chState[c] = "kAdded" /\ rest \in Events /\ "EPOLLIN" \in rest
      BY <2>1, <2>3 DEF IsWriting, Events
    <3> HIDE DEF rest
    <3>2. /\ PollTypeOK'
          /\ SlotBecomes(c, loop_[c], connfd_[c], rest,
                         IF rest = {} THEN "kDeleted" ELSE "kAdded")
      BY <1>1, <1>4, <2>3, <3>1, UpdateOpen DEF IInv
    <3> QED BY <2>1, <3>1, <3>2
  <2> QED BY <1>3, <2>2, <2>3
<1>6. UNCHANGED <<connfd_, loop_, life, connections_>>
  BY <1>3 DEF remoteVars, connVars, serverVars
<1>7. chState[c] \in {"kNew", "kAdded", "kDeleted"}
  BY <1>1, <1>4 DEF PollTypeOK
<1>8. /\ writing' \in [Loops -> Conns \cup {NoChannel}]
      /\ writing'[l] = NoChannel /\ \A k \in Loops \ {l} : writing'[k] = writing[k]
  BY <1>3, <1>1 DEF RestTypeOK
<1>9. Ownership' /\ EpollerMatches' /\ NoStrangers' /\ Channels'
  BY <1>4, <1>5, <1>6, <1>7, OneMoves
<1>10. RestTypeOK'
  BY <1>3, <1>1, <1>8 DEF RestTypeOK, remoteVars, connVars, serverVars
<1>11. NoRepeat' /\ QueueTypeOK' /\ \A k \in Loops : Waiting(k)' = Waiting(k)
  BY <1>3, QueuesSame
<1>12. \A d \in Conns : chState'[d] = chState[d]
  BY <1>5 DEF SlotBecomes
<1>13. FunctorsDue'
  BY <1>6, <1>11, <1>12, DueSame DEF Live
<1>14. Handlers'
  <2>1. OthersStay(c) /\ Live(c)' /\ loop_'[c] = l
    BY <1>4, <1>6 DEF OthersStay, Live
  <2>2. \A k \in Loops : writing'[k] \in {writing[k], NoChannel}
    BY <1>8
  <2>3. \A k \in Loops : \A e \in ActiveChannel_'[k] : e.ptr = c =>
           loop_'[c] = k /\ chState'[c] = "kAdded"
    BY <1>3, <1>4, <1>6, <1>12, <1>2 DEF IInv, Handlers
  <2>4. \A k \in Loops : writing'[k] = c => loop_'[c] = k /\ chState'[c] # "kNew"
    <3>1. c # NoChannel
      BY <1>4, TcpServerAssumption DEF TcpServerAssumption
    <3> QED BY <1>4, <1>6, <1>8, <1>12, <3>1 DEF IInv, Handlers
  <2>5. \A k \in Loops : writing'[k] \in Conns \cup {NoChannel}
    BY <1>8
  <2>6. \A k \in Loops : ActiveChannel_'[k] \subseteq ActiveChannel_[k]
    BY <1>3
  <2> QED BY <1>12, <2>1, <2>2, <2>3, <2>4, <2>5, <2>6, HandlersStep
<1>15. Places'
  BY <1>3, <1>8 DEF IInv, Places, queueVars
<1> QED BY <1>5, <1>9, <1>10, <1>11, <1>13, <1>14, <1>15, Types DEF IInv

\* A functor of a connection that has none may be queued where it is due.
LEMMA QueueStep ==
    ASSUME IInv, NEW l \in Loops, NEW fn \in Functors, QueueOneFunc(l, fn),
           UNCHANGED <<funclists, ran>>, fn \notin Waiting(l)
    PROVE  /\ NoRepeat' /\ QueueTypeOK'
           /\ \A k \in Loops : Waiting(k)' = Waiting(k) \cup (IF k = l THEN {fn} ELSE {})
<1>1. QueueTypeOK /\ \A k \in Loops : OnceQueued(k) /\ OnceUnrun(k)
                                      /\ Queued(k) \cap Unrun(k) = {}
  BY Types DEF IInv, NoRepeat
<1>2. fn \notin Queued(l) /\ fn \notin Unrun(l)
  BY DEF Waiting
<1>3. /\ to_do_list_' \in [Loops -> Seq(Functors)]
      /\ \A k \in Loops : OnceQueued(k)'
      /\ \A k \in Loops : Queued(k)' = Queued(k) \cup (IF k = l THEN {fn} ELSE {})
  BY <1>1, <1>2, QueueGrows
<1>4. \A k \in Loops : Unrun(k)' = Unrun(k) /\ (OnceUnrun(k)' <=> OnceUnrun(k))
  BY DEF Unrun, OnceUnrun
<1>5. NoRepeat'
  BY <1>1, <1>2, <1>3, <1>4 DEF NoRepeat
<1>6. QueueTypeOK'
  BY <1>1, <1>3 DEF QueueTypeOK
<1> QED BY <1>3, <1>4, <1>5, <1>6 DEF Waiting

\* The read half of HandleEvent may change the write interest or close the
\* connection, which queues HandleCloseInLoop.
LEMMA HandleMessageStep ==
    ASSUME IInv, NEW l \in Loops, NEW e, HandleMessage(l, e)
    PROVE  IInv'
<1> DEFINE c == e.ptr
<1>1. RestTypeOK /\ PollTypeOK /\ QueueTypeOK
  BY Types DEF IInv
<1>2. /\ Dispatch(l, e) /\ c \in Conns /\ inbound' = inbound \ {c}
      /\ writing' = [writing EXCEPT ![l] = IF "EPOLLOUT" \in e.revents THEN c ELSE NoChannel]
      /\ UNCHANGED <<life, connfd_, loop_, serverVars, funclists, ran>>
  BY DEF HandleMessage
<1>3. \/ MessageCallback(c) /\ UNCHANGED <<peer, to_do_list_>>
      \/ ReadFails(c)
      \/ HandleClose(c) /\ UNCHANGED peer
  BY DEF HandleMessage
<1>4. /\ pc[l] = "dispatch" /\ writing[l] = NoChannel /\ e \in ActiveChannel_[l] /\ pc' = pc
      /\ ActiveChannel_' \in
            [Loops -> SUBSET [ptr : Conns \cup {Acceptor, TimerQueue}, revents : Events]]
      /\ ActiveChannel_'[l] = ActiveChannel_[l] \ {e}
      /\ \A k \in Loops \ {l} : ActiveChannel_'[k] = ActiveChannel_[k]
  BY <1>1, <1>2, Dispatched
<1>5. /\ Live(c) /\ loop_[c] = l /\ chState[c] = "kAdded" /\ connfd_[c] \in Fds
      /\ Entered(c) /\ event_[c] \in Events /\ "EPOLLIN" \in event_[c]
  BY <1>1, <1>2, <1>4 DEF IInv, Handlers, Ownership, Channels, PollTypeOK
<1> HIDE DEF c
<1>6. /\ peer' \in [Conns -> {"open", "closed", "reset"}]
      /\ state_' \in [Conns -> {"kConnected", "kDisconnected", "kDisconnecting"}]
  BY <1>1, <1>3 DEF RestTypeOK, MessageCallback, ReadFails, HandleClose
<1>7. /\ writing' \in [Loops -> Conns \cup {NoChannel}]
      /\ writing'[l] \in {c, NoChannel}
      /\ \A k \in Loops \ {l} : writing'[k] = writing[k]
  BY <1>1, <1>2 DEF RestTypeOK
<1>8. RestTypeOK'
  BY <1>1, <1>2, <1>4, <1>6, <1>7 DEF RestTypeOK, serverVars
<1>9. UNCHANGED <<connfd_, loop_, life, connections_>> /\ Base \in Loops
  BY <1>2 DEF serverVars, Loops
<1>10. OthersStay(c) /\ Live(c)' /\ loop_'[c] = l
  BY <1>5, <1>9 DEF OthersStay, Live
<1>11. ASSUME NEW events \in Events, NEW state \in {"kAdded", "kDeleted"}, PollTypeOK',
              SlotBecomes(c, loop_[c], connfd_[c], events, state),
              state = "kAdded" => "EPOLLIN" \in events, state # "kAdded" => events = {}
       PROVE  /\ Ownership' /\ EpollerMatches' /\ NoStrangers' /\ Channels' /\ Handlers'
              /\ chState'[c] = state /\ \A d \in Conns \ {c} : chState'[d] = chState[d]
  <2>1. chState'[c] = state /\ \A d \in Conns \ {c} : chState'[d] = chState[d]
    BY <1>2, <1>11 DEF SlotBecomes
  <2>2. Ownership' /\ EpollerMatches' /\ NoStrangers' /\ Channels'
    BY <1>2, <1>5, <1>9, <1>11, OneMoves
  <2>3. \A k \in Loops : ActiveChannel_'[k] \subseteq ActiveChannel_[k]
    BY <1>4
  <2>4. \A k \in Loops : \A d \in ActiveChannel_'[k] : d.ptr # c
    <3>1. \A k \in Loops : \A d \in ActiveChannel_[k] : d.ptr = c => k = l
      BY <1>2, <1>5 DEF IInv, Handlers
    <3>2. \A d \in ActiveChannel_[l] : d.ptr = c => d = e
      BY <1>2, <1>4 DEF IInv, Handlers, c
    <3> QED BY <1>4, <2>3, <3>1, <3>2
  <2>5. \A k \in Loops : writing'[k] \in {writing[k], NoChannel, c}
                         /\ writing'[k] \in Conns \cup {NoChannel}
    BY <1>7
  <2>6. \A k \in Loops : writing'[k] = c => k = l
    <3>1. c # NoChannel
      BY <1>2, TcpServerAssumption DEF TcpServerAssumption
    <3> QED BY <1>5, <1>7, <3>1 DEF IInv, Handlers
  <2>7. Handlers'
    BY <1>2, <1>10, <2>1, <2>3, <2>4, <2>5, <2>6, HandlersStep
  <2> QED BY <2>1, <2>2, <2>7
<1>12. Places'
  BY <1>2, <1>4, <1>7 DEF IInv, Places
<1>13. CASE UNCHANGED to_do_list_
  <2>1. \E events \in Events :
           /\ PollTypeOK' /\ SlotBecomes(c, loop_[c], connfd_[c], events, "kAdded")
           /\ "EPOLLIN" \in events
    <3>1. CASE UNCHANGED pollVars
      BY <1>2, <1>5, <3>1, SlotStays
    <3>2. CASE SetEvents(c, event_[c] \cup {"EPOLLOUT"})
      <4>1. PICK events : events = event_[c] \cup {"EPOLLOUT"}
        OBVIOUS
      <4>2. events \in Events /\ events # {} /\ "EPOLLIN" \in events /\ SetEvents(c, events)
        BY <1>5, <3>2, <4>1 DEF Events
      <4> QED BY <1>1, <1>2, <1>5, <4>2, UpdateOpen DEF IInv, Ownership
    <3>3. UNCHANGED pollVars \/ SetEvents(c, event_[c] \cup {"EPOLLOUT"})
      <4>1. ASSUME HandleClose(c)
            PROVE  FALSE
        <5>1. to_do_list_' = [to_do_list_ EXCEPT ![Base] =
                 Append(@, Functor("HandleCloseInLoop", c))]
          BY <4>1 DEF HandleClose, QueueOneFunc
        <5>2. to_do_list_[Base] \in Seq(Functors)
          BY <1>1, <1>9 DEF QueueTypeOK
        <5>3. to_do_list_[Base] = Append(to_do_list_[Base], Functor("HandleCloseInLoop", c))
          BY <1>1, <1>9, <1>13, <5>1 DEF QueueTypeOK
        <5>4. Len(Append(to_do_list_[Base], Functor("HandleCloseInLoop", c)))
                = Len(to_do_list_[Base]) + 1 /\ Len(to_do_list_[Base]) \in Nat
          BY <5>2
        <5> QED BY <5>3, <5>4
      <4> QED BY <1>3, <4>1 DEF MessageCallback, ReadFails
    <3> QED BY <3>1, <3>2, <3>3
  <2>2. /\ Ownership' /\ EpollerMatches' /\ NoStrangers' /\ Channels' /\ Handlers'
        /\ \A d \in Conns : chState'[d] = chState[d]
        /\ PollTypeOK'
    BY <1>5, <1>11, <2>1
  <2>3. NoRepeat' /\ QueueTypeOK' /\ \A k \in Loops : Waiting(k)' = Waiting(k)
    BY <1>2, <1>13, QueuesSame DEF queueVars
  <2>4. FunctorsDue'
    BY <1>9, <2>2, <2>3, DueSame DEF Live
  <2> QED BY <1>8, <1>12, <2>2, <2>3, <2>4, Types DEF IInv
<1>14. CASE HandleClose(c)
  <2> DEFINE fn == Functor("HandleCloseInLoop", c)
  <2>1. SetEvents(c, {}) /\ QueueOneFunc(Base, fn)
    BY <1>14 DEF HandleClose, DisableAll
  <2>2. PollTypeOK' /\ SlotBecomes(c, loop_[c], connfd_[c], {}, "kDeleted")
    <3>1. {} \in Events
      BY DEF Events
    <3> QED BY <1>1, <1>2, <1>5, <2>1, <3>1, UpdateOpen DEF IInv, Ownership
  <2>3. /\ Ownership' /\ EpollerMatches' /\ NoStrangers' /\ Channels' /\ Handlers'
        /\ chState'[c] = "kDeleted" /\ \A d \in Conns \ {c} : chState'[d] = chState[d]
    BY <1>11, <2>2 DEF Events
  <2>4. fn \in Functors /\ fn.conn = c /\ fn.func = "HandleCloseInLoop"
    BY <1>2 DEF Functor, Functors
  <2>5. \A k \in Loops : \A other \in Waiting(k) : other.conn # c
    BY <1>5 DEF IInv, FunctorsDue, Due
  <2> HIDE DEF fn
  <2>6. /\ NoRepeat' /\ QueueTypeOK'
        /\ \A k \in Loops : Waiting(k)' = Waiting(k) \cup (IF k = Base THEN {fn} ELSE {})
    BY <1>2, <1>9, <2>1, <2>4, <2>5, QueueStep
  <2>7. Entered(c)' /\ \A d \in Conns : Entered(d)' <=> Entered(d)
    BY <1>5, <1>9 DEF Entered
  <2>8. Due(fn, Base)'
    BY <1>10, <2>3, <2>4, <2>7 DEF Due
  <2>9. \A k \in Loops : Waiting(k)' \subseteq Functors
    BY <1>1, <2>4, <2>6, FunctorsQueued DEF Waiting
  <2>10. \A k \in Loops : \A other \in Waiting(k)' :
            IF other.conn = c THEN Due(other, k)' ELSE other \in Waiting(k)
    <3>1. SUFFICES ASSUME NEW k \in Loops, NEW other \in Waiting(k)'
                   PROVE  IF other.conn = c THEN Due(other, k)' ELSE other \in Waiting(k)
      OBVIOUS
    <3>2. other \in Waiting(k) \/ (other = fn /\ k = Base)
      BY <2>6, <3>1
    <3>3. CASE other \in Waiting(k)
      BY <2>5, <3>3
    <3>4. CASE other = fn /\ k = Base
      BY <2>4, <2>8, <3>4
    <3> QED BY <3>2, <3>3, <3>4
  <2>11. FunctorsDue'
    BY <1>2, <1>10, <2>3, <2>6, <2>7, <2>9, <2>10, DueStep
  <2> QED BY <1>8, <1>12, <2>2, <2>3, <2>6, <2>11, Types DEF IInv
<1>15. UNCHANGED to_do_list_ \/ HandleClose(c)
  BY <1>3 DEF ReadFails
<1> QED BY <1>13, <1>14, <1>15

\* The steps of DoToDoList run one functor, which moves its connection on.
LEMMA RunFacts ==
    ASSUME IInv, NEW l \in Loops, NEW func, NEW c \in Conns, RunFunctor(l, func, c)
    PROVE  /\ Due(Functor(func, c), l) /\ loop_[c] \in Loops /\ connfd_[c] \in Fds
           /\ \A k \in Loops : OnceUnrun(k)'
           /\ ran' \in [Loops -> Nat] /\ \A k \in Loops : ran'[k] <= Len(funclists'[k])
           /\ \A k \in Loops : Unrun(k)' = Unrun(k) \ (IF k = l THEN {Functor(func, c)} ELSE {})
           /\ UNCHANGED <<remoteVars, connfd_, loop_, loops_, next_, funclists, stepVars>>
           /\ pc[l] = "functors" /\ writing[l] = NoChannel /\ ActiveChannel_[l] = {}
           /\ Places'
<1>1. QueueTypeOK /\ \A k \in Loops : OnceUnrun(k)
  BY Types DEF IInv, NoRepeat
<1>2. /\ ran' \in [Loops -> Nat] /\ \A k \in Loops : ran'[k] <= Len(funclists'[k])
      /\ funclists' = funclists /\ \A k \in Loops \ {l} : ran'[k] = ran[k]
      /\ \A k \in Loops : OnceUnrun(k)'
      /\ Functor(func, c) \in Unrun(l)
      /\ \A k \in Loops : Unrun(k)' = Unrun(k) \ (IF k = l THEN {Functor(func, c)} ELSE {})
  BY <1>1, FunctorLeaves
<1>3. Due(Functor(func, c), l)
  BY <1>2 DEF IInv, FunctorsDue, Waiting
<1>4. Live(c)
  BY <1>3 DEF Due, Functor
<1>5. loop_[c] \in Loops /\ connfd_[c] \in Fds
  BY <1>4 DEF IInv, Ownership
<1>6. /\ UNCHANGED <<remoteVars, connfd_, loop_, loops_, next_, funclists, stepVars>>
      /\ pc[l] = "functors"
  BY DEF RunFunctor
<1>7. writing[l] = NoChannel /\ ActiveChannel_[l] = {}
  BY <1>6 DEF IInv, Places
<1>8. Places'
  <2>1. UNCHANGED <<pc, ActiveChannel_, writing, funclists>>
    BY <1>6 DEF stepVars
  <2> QED BY <1>2, <1>6, <2>1 DEF IInv, Places
<1> QED BY <1>2, <1>3, <1>5, <1>6, <1>7, <1>8

\* Running the only functor of a connection, with nothing queued.
LEMMA RunOnly ==
    ASSUME IInv, NEW l \in Loops, NEW func, NEW c \in Conns, RunFunctor(l, func, c),
           UNCHANGED to_do_list_,
           \A k \in Loops : \A fn \in Waiting(k) : fn.conn = c => fn = Functor(func, c) /\ k = l
    PROVE  /\ NoRepeat' /\ QueueTypeOK'
           /\ \A k \in Loops : Waiting(k)' = {fn \in Waiting(k) : fn.conn # c}
<1>1. /\ \A k \in Loops : OnceUnrun(k)'
      /\ ran' \in [Loops -> Nat] /\ \A k \in Loops : ran'[k] <= Len(funclists'[k])
      /\ \A k \in Loops : Unrun(k)' = Unrun(k) \ (IF k = l THEN {Functor(func, c)} ELSE {})
      /\ funclists' = funclists
  BY RunFacts
<1>2. \A k \in Loops : Queued(k)' = Queued(k) /\ (OnceQueued(k)' <=> OnceQueued(k))
  BY DEF Queued, OnceQueued
<1>3. NoRepeat'
  BY <1>1, <1>2 DEF IInv, NoRepeat
<1>4. QueueTypeOK'
  BY <1>1, Types DEF IInv, QueueTypeOK
<1>5. Functor(func, c) \in Unrun(l) /\ Functor(func, c).conn = c
  BY Types, FunctorLeaves DEF IInv, NoRepeat, Functor
<1>6. Functor(func, c) \notin Queued(l)
  BY <1>5 DEF IInv, NoRepeat
<1>7. ASSUME NEW k \in Loops
      PROVE  Waiting(k)' = {fn \in Waiting(k) : fn.conn # c}
  <2>1. CASE k = l
    BY <1>1, <1>2, <1>5, <1>6, <2>1 DEF Waiting
  <2>2. CASE k # l
    BY <1>1, <1>2, <2>2 DEF Waiting
  <2> QED BY <2>1, <2>2
<1> QED BY <1>3, <1>4, <1>7

\* ConnectionEstablished adds the channel.
LEMMA EstablishedStep ==
    ASSUME IInv, NEW l \in Loops, NEW c \in Conns, ConnectionEstablished(l, c)
    PROVE  IInv'
<1> DEFINE fn == Functor("ConnectionEstablished", c)
<1>1. /\ RunFunctor(l, "ConnectionEstablished", c) /\ state_' = [state_ EXCEPT ![c] = "kConnected"]
      /\ SetEvents(c, event_[c] \cup {"EPOLLIN"}) /\ UNCHANGED <<connections_, to_do_list_>>
      /\ timers' = IF AutoClose THEN timers \cup {c} ELSE timers
  BY DEF ConnectionEstablished
<1>2. RestTypeOK /\ PollTypeOK /\ QueueTypeOK
  BY Types DEF IInv
<1>3. /\ Due(fn, l) /\ loop_[c] \in Loops /\ connfd_[c] \in Fds /\ Places'
      /\ UNCHANGED <<remoteVars, connfd_, loop_, loops_, next_, funclists, stepVars>>
      /\ writing[l] = NoChannel /\ ActiveChannel_[l] = {}
  BY <1>1, RunFacts
<1>4. Live(c) /\ loop_[c] = l /\ chState[c] = "kNew" /\ Entered(c) /\ event_[c] = {}
  BY <1>3 DEF Due, Functor, IInv, Channels
<1>5. \A k \in Loops : \A other \in Waiting(k) : other.conn = c => other = fn /\ k = l
  <2>1. \A k \in Loops : \A other \in Waiting(k) : other \in Functors /\ Due(other, k)
    BY <1>2, FunctorsQueued DEF IInv, FunctorsDue, Waiting
  <2> QED BY <1>4, <2>1 DEF Due, Functors, Functor
<1>6. /\ NoRepeat' /\ QueueTypeOK'
      /\ \A k \in Loops : Waiting(k)' = {other \in Waiting(k) : other.conn # c}
  BY <1>1, <1>5, RunOnly
<1>7. PollTypeOK' /\ SlotBecomes(c, loop_[c], connfd_[c], {"EPOLLIN"}, "kAdded")
  <2>1. PICK k \in Loops, f \in Fds : k = loop_[c] /\ f = connfd_[c]
    BY <1>3
  <2>2. registered[k][f] = E!NotRegistered
    BY <1>4, <2>1 DEF IInv, EpollerMatches, Alive, Live
  <2>3. SetSlot(c, k, f, E!Update(Slot(c, k, f), c, {"EPOLLIN"}))
    BY <1>1, <1>4, <2>1 DEF SetEvents, MySlot
  <2>4. PollTypeOK' /\ SlotBecomes(c, k, f, {"EPOLLIN"}, "kAdded")
    BY <1>2, <1>4, <2>2, <2>3, UpdateNew DEF Events
  <2> QED BY <2>1, <2>4
<1>8. UNCHANGED <<connfd_, loop_, life, connections_>>
  BY <1>1, <1>3 DEF remoteVars
<1>9. Ownership' /\ EpollerMatches' /\ NoStrangers' /\ Channels'
  BY <1>4, <1>7, <1>8, OneMoves DEF Events
<1>10. /\ OthersStay(c) /\ Live(c)' /\ loop_'[c] = l /\ Entered(c)' /\ chState'[c] = "kAdded"
       /\ \A d \in Conns \ {c} : chState'[d] = chState[d] /\ (Entered(d)' <=> Entered(d))
  BY <1>4, <1>7, <1>8 DEF OthersStay, Live, Entered, SlotBecomes
<1>11. Handlers'
  <2>1. ActiveChannel_' = ActiveChannel_ /\ writing' = writing
    BY <1>3 DEF stepVars
  <2>2. \A k \in Loops : writing[k] \in Conns \cup {NoChannel}
    BY <1>2 DEF RestTypeOK
  <2>3. \A k \in Loops : writing[k] # c /\ \A e \in ActiveChannel_[k] : e.ptr # c
    <3>1. c # NoChannel
      BY TcpServerAssumption DEF TcpServerAssumption
    <3> QED BY <1>4, <3>1 DEF IInv, Handlers
  <2> QED BY <1>10, <2>1, <2>2, <2>3, HandlersStep
<1>12. FunctorsDue'
  <2>1. \A k \in Loops : Waiting(k)' \subseteq Functors
    BY <1>2, <1>6, FunctorsQueued DEF Waiting
  <2> QED BY <1>6, <1>10, <2>1, DueStep
<1>13. RestTypeOK'
  BY <1>1, <1>2, <1>3 DEF RestTypeOK, remoteVars, stepVars
<1> QED BY <1>3, <1>6, <1>7, <1>9, <1>11, <1>12, <1>13, Types DEF IInv

\* ConnectionDestructor takes the channel out of the Epoller.
LEMMA DestructorStep ==
    ASSUME IInv, NEW l \in Loops, NEW c \in Conns, ConnectionDestructor(l, c)
    PROVE  IInv'
<1> DEFINE fn == Functor("ConnectionDestructor", c)
<1>1. /\ RunFunctor(l, "ConnectionDestructor", c)
      /\ state_' = [state_ EXCEPT ![c] = "kDisconnected"]
      /\ UNCHANGED <<connections_, to_do_list_, timers>>
  BY DEF ConnectionDestructor
<1>2. RestTypeOK /\ PollTypeOK /\ QueueTypeOK
  BY Types DEF IInv
<1>3. /\ Due(fn, l) /\ loop_[c] \in Loops /\ connfd_[c] \in Fds /\ Places'
      /\ UNCHANGED <<remoteVars, connfd_, loop_, loops_, next_, funclists, stepVars>>
      /\ writing[l] = NoChannel /\ ActiveChannel_[l] = {}
  BY <1>1, RunFacts
<1>4. Live(c) /\ loop_[c] = l /\ chState[c] = "kDeleted" /\ ~Entered(c) /\ event_[c] = {}
  BY <1>3 DEF Due, Functor, IInv, Channels
<1>5. \A k \in Loops : \A other \in Waiting(k) : other.conn = c => other = fn /\ k = l
  <2>1. \A k \in Loops : \A other \in Waiting(k) : other \in Functors /\ Due(other, k)
    BY <1>2, FunctorsQueued DEF IInv, FunctorsDue, Waiting
  <2> QED BY <1>4, <2>1 DEF Due, Functors, Functor
<1>6. /\ NoRepeat' /\ QueueTypeOK'
      /\ \A k \in Loops : Waiting(k)' = {other \in Waiting(k) : other.conn # c}
  BY <1>1, <1>5, RunOnly
<1>7. PollTypeOK' /\ SlotBecomes(c, loop_[c], connfd_[c], {}, "kNew")
  <2>1. PICK k \in Loops, f \in Fds : k = loop_[c] /\ f = connfd_[c]
    BY <1>3
  <2>2. registered[k][f] = E!NotRegistered
    BY <1>4, <2>1 DEF IInv, EpollerMatches, Alive, Live
  <2>3. PICK slot \in {E!Update(Slot(c, k, f), c, {}), Slot(c, k, f)} :
           SetSlot(c, k, f, Remove(slot, c))
    BY <2>1 DEF ConnectionDestructor, MySlot
  <2>4. PollTypeOK' /\ SlotBecomes(c, k, f, {}, "kNew")
    BY <1>2, <1>4, <2>2, <2>3, RemoveDeleted
  <2> QED BY <2>1, <2>4
<1>8. UNCHANGED <<connfd_, loop_, life, connections_>>
  BY <1>1, <1>3 DEF remoteVars
<1>9. Ownership' /\ EpollerMatches' /\ NoStrangers' /\ Channels'
  BY <1>4, <1>7, <1>8, OneMoves DEF Events
<1>10. /\ OthersStay(c) /\ chState'[c] = "kNew"
       /\ \A d \in Conns \ {c} : chState'[d] = chState[d] /\ (Entered(d)' <=> Entered(d))
  BY <1>4, <1>7, <1>8 DEF OthersStay, Live, Entered, SlotBecomes
<1>11. Handlers'
  <2>1. ActiveChannel_' = ActiveChannel_ /\ writing' = writing
    BY <1>3 DEF stepVars
  <2>2. \A k \in Loops : writing[k] \in Conns \cup {NoChannel}
    BY <1>2 DEF RestTypeOK
  <2>3. \A k \in Loops : writing[k] # c /\ \A e \in ActiveChannel_[k] : e.ptr # c
    <3>1. c # NoChannel
      BY TcpServerAssumption DEF TcpServerAssumption
    <3> QED BY <1>3, <1>4, <3>1 DEF IInv, Handlers
  <2> QED BY <1>10, <2>1, <2>2, <2>3, HandlersStep
<1>12. FunctorsDue'
  <2>1. \A k \in Loops : Waiting(k)' \subseteq Functors
    BY <1>2, <1>6, FunctorsQueued DEF Waiting
  <2> QED BY <1>6, <1>10, <2>1, DueStep
<1>13. RestTypeOK'
  BY <1>1, <1>2, <1>3 DEF RestTypeOK, remoteVars, stepVars
<1> QED BY <1>3, <1>6, <1>7, <1>9, <1>11, <1>12, <1>13, Types DEF IInv

\* HandleCloseInLoop lets go of connections_'s entry and queues the
\* ConnectionDestructor of a connection that has no other functor.
LEMMA CloseInLoopStep ==
    ASSUME IInv, NEW l \in Loops, NEW c \in Conns, HandleCloseInLoop(l, c)
    PROVE  IInv'
<1> DEFINE old == Functor("HandleCloseInLoop", c)
           new == Functor("ConnectionDestructor", c)
<1>1. /\ RunFunctor(l, "HandleCloseInLoop", c) /\ connections_' = Erase(c)
      /\ QueueOneFunc(loop_[c], new) /\ UNCHANGED <<state_, pollVars, timers>>
  BY DEF HandleCloseInLoop
<1>2. RestTypeOK /\ PollTypeOK /\ QueueTypeOK
  BY Types DEF IInv
<1>3. /\ Due(old, l) /\ loop_[c] \in Loops /\ connfd_[c] \in Fds /\ Places'
      /\ UNCHANGED <<remoteVars, connfd_, loop_, loops_, next_, funclists, stepVars>>
  BY <1>1, RunFacts
<1>4. Live(c) /\ chState[c] = "kDeleted" /\ Entered(c)
  BY <1>3 DEF Due, Functor
<1>5. UNCHANGED <<life, connfd_, loop_, event_, chState, pollVars>>
  BY <1>1, <1>3 DEF remoteVars, pollVars
<1>6. /\ connections_' \in [Fds -> Conns \cup {NoChannel}]
      /\ \A f \in Fds : connections_'[f] = IF f = connfd_[c] THEN NoChannel ELSE connections_[f]
  BY <1>1, <1>2, <1>3 DEF Erase, RestTypeOK
<1>7. ~Entered(c)' /\ \A d \in Conns \ {c} : Live(d) => (Entered(d)' <=> Entered(d))
  <2>1. c # NoChannel
    BY TcpServerAssumption DEF TcpServerAssumption
  <2>2. \A d \in Conns \ {c} : Live(d) => connfd_[d] \in Fds /\ connfd_[d] # connfd_[c]
    BY <1>4 DEF IInv, Ownership
  <2> QED BY <1>3, <1>5, <1>6, <2>1, <2>2 DEF Entered
<1>8. Ownership'
  <2>1. \A f \in Fds : connections_[f] # NoChannel => connections_[f] \in Conns
    BY <1>2 DEF RestTypeOK
  <2>2. \A f \in Fds : connections_'[f] # NoChannel => connections_'[f] = connections_[f]
    BY <1>6
  <2> QED BY <1>5, <2>1, <2>2 DEF IInv, Ownership, Live
<1>9. EpollerMatches' /\ NoStrangers'
  BY <1>5, SlotsSame DEF IInv, Live
<1>10. Channels'
  BY <1>4, <1>5, <1>7 DEF IInv, Channels, Live
<1>11. Handlers'
  BY <1>3, <1>5, <1>2 DEF IInv, Handlers, Live, stepVars
<1>12. /\ old \in Functors /\ new \in Functors /\ new.conn = c /\ old.conn = c
       /\ new.func = "ConnectionDestructor" /\ old # new
  BY DEF Functor, Functors
<1>13. \A k \in Loops : \A other \in Waiting(k) : other.conn = c => other = old /\ k = l
  <2>1. \A k \in Loops : \A other \in Waiting(k) : other \in Functors /\ Due(other, k)
    BY <1>2, FunctorsQueued DEF IInv, FunctorsDue, Waiting
  <2> QED BY <1>3, <1>4, <2>1 DEF Due, Functors, Functor
<1>14. /\ NoRepeat' /\ QueueTypeOK'
       /\ \A k \in Loops : Waiting(k)' = {other \in Waiting(k) : other.conn # c}
                                         \cup (IF k = loop_[c] THEN {new} ELSE {})
  <2> HIDE DEF old, new
  <2>1. \A k \in Loops : new \notin Queued(k) /\ new \notin Unrun(k)
    BY <1>12, <1>13 DEF Waiting
  <2>2. \A k \in Loops : OnceQueued(k) /\ Queued(k) \cap Unrun(k) = {}
    BY DEF IInv, NoRepeat
  <2>3. /\ to_do_list_' \in [Loops -> Seq(Functors)]
        /\ \A k \in Loops : OnceQueued(k)'
        /\ \A k \in Loops : Queued(k)' = Queued(k) \cup (IF k = loop_[c] THEN {new} ELSE {})
    BY <1>1, <1>2, <1>3, <1>12, <2>1, <2>2, QueueGrows
  <2>4. /\ \A k \in Loops : OnceUnrun(k)'
        /\ ran' \in [Loops -> Nat] /\ \A k \in Loops : ran'[k] <= Len(funclists'[k])
        /\ \A k \in Loops : Unrun(k)' = Unrun(k) \ (IF k = l THEN {old} ELSE {})
    BY <1>1, RunFacts DEF old
  <2>5. old \in Unrun(l)
    BY <1>1, <1>2, FunctorLeaves DEF IInv, NoRepeat, old
  <2>6. NoRepeat'
    <3>1. \A k \in Loops : Queued(k)' \cap Unrun(k)' = {}
      BY <2>1, <2>2, <2>3, <2>4
    <3> QED BY <2>3, <2>4, <3>1 DEF NoRepeat
  <2>7. QueueTypeOK'
    BY <1>2, <1>3, <2>3, <2>4 DEF QueueTypeOK
  <2>8. ASSUME NEW k \in Loops
        PROVE  Waiting(k)' = {other \in Waiting(k) : other.conn # c}
                             \cup (IF k = loop_[c] THEN {new} ELSE {})
    <3>1. Waiting(k)' = (Waiting(k) \ (IF k = l THEN {old} ELSE {}))
                        \cup (IF k = loop_[c] THEN {new} ELSE {})
      BY <2>2, <2>3, <2>4, <2>5 DEF Waiting
    <3>2. \A other \in Waiting(k) : other.conn = c <=> other = old /\ k = l
      BY <1>12, <1>13
    <3> QED BY <3>1, <3>2
  <2> QED BY <2>6, <2>7, <2>8
<1>15. FunctorsDue'
  <2>1. OthersStay(c) /\ Live(c)' /\ loop_'[c] = loop_[c] /\ chState'[c] = "kDeleted"
    BY <1>4, <1>5 DEF OthersStay, Live
  <2>2. Due(new, loop_[c])'
    BY <1>7, <1>12, <2>1 DEF Due
  <2> HIDE DEF old, new
  <2>3. \A k \in Loops : Waiting(k)' \subseteq Functors
    BY <1>2, <1>12, <1>14, FunctorsQueued DEF Waiting
  <2>4. PICK k0 \in Loops : k0 = loop_[c]
    BY <1>3
  <2>5. new \in Waiting(k0)' /\ Due(new, k0)'
    BY <1>14, <2>2, <2>4, <2>1 DEF Due
  <2>6. new \in Waiting(loop_[c])'
    BY <2>4, <2>5, <2>1 DEF Waiting, Queued, Unrun
  <2>7. ASSUME NEW k \in Loops, NEW other \in Waiting(k)'
        PROVE  IF other.conn = c THEN Due(other, k)' ELSE other \in Waiting(k)
    <3>1. other \in {o \in Waiting(k) : o.conn # c} \/ (other = new /\ k = k0)
      BY <1>14, <2>4, <2>7
    <3>2. CASE other \in {o \in Waiting(k) : o.conn # c}
      BY <3>2
    <3>3. CASE other = new /\ k = k0
      BY <1>12, <2>5, <3>3
    <3> QED BY <3>1, <3>2, <3>3
  <2>8. \A k \in Loops : \A other \in Waiting(k) : other.conn # c => other \in Waiting(k)'
    BY <1>14
  <2> QED BY <1>5, <1>7, <2>1, <2>3, <2>6, <2>7, <2>8, DueStep DEF new
<1>16. RestTypeOK'
  BY <1>1, <1>2, <1>3, <1>6 DEF RestTypeOK, remoteVars, stepVars
<1> QED BY <1>2, <1>3, <1>5, <1>8, <1>9, <1>10, <1>11, <1>14, <1>15, <1>16, Types
        DEF IInv, PollTypeOK, pollVars

\* SwapToDoList hands what is queued to DoToDoList, which had nothing left.
LEMMA SwapStep ==
    ASSUME IInv, NEW l \in Loops, SwapToDoList(l)
    PROVE  IInv'
<1> DEFINE q == to_do_list_[l]
<1>1. /\ pc[l] = "dispatch" /\ writing[l] = NoChannel /\ ActiveChannel_[l] = {}
      /\ pc' = [pc EXCEPT ![l] = "functors"]
      /\ funclists' = [funclists EXCEPT ![l] = q]
      /\ to_do_list_' = [to_do_list_ EXCEPT ![l] = <<>>]
      /\ ran' = [ran EXCEPT ![l] = 0]
      /\ UNCHANGED <<remoteVars, connVars, pollVars, serverVars, ActiveChannel_, writing>>
  BY DEF SwapToDoList
<1>2. RestTypeOK /\ PollTypeOK /\ QueueTypeOK
  BY Types DEF IInv
<1>3. q \in Seq(Functors) /\ Len(q) \in Nat /\ DOMAIN q = 1 .. Len(q)
  BY <1>2 DEF QueueTypeOK
<1>4. funclists[l] = <<>> /\ ran[l] = 0
  BY <1>1 DEF IInv, Places
<1>5. /\ funclists'[l] = q /\ ran'[l] = 0 /\ to_do_list_'[l] = <<>> /\ pc'[l] = "functors"
      /\ \A k \in Loops \ {l} : /\ funclists'[k] = funclists[k] /\ ran'[k] = ran[k]
                                /\ to_do_list_'[k] = to_do_list_[k] /\ pc'[k] = pc[k]
      /\ pc' \in [Loops -> {"wait", "dispatch", "functors"}]
  BY <1>1, <1>2 DEF QueueTypeOK, RestTypeOK
<1>6. QueueTypeOK'
  <2>1. <<>> \in Seq(Functors)
    OBVIOUS
  <2>2. /\ to_do_list_' \in [Loops -> Seq(Functors)] /\ funclists' \in [Loops -> Seq(Functors)]
        /\ ran' \in [Loops -> Nat]
    BY <1>1, <1>2, <1>3, <2>1 DEF QueueTypeOK
  <2>3. \A k \in Loops : ran'[k] <= Len(funclists'[k])
    BY <1>2, <1>3, <1>5 DEF QueueTypeOK
  <2> QED BY <2>2, <2>3 DEF QueueTypeOK
<1>7. Queued(l) = {q[i] : i \in 1 .. Len(q)} /\ Queued(l)' = {}
  BY <1>3, <1>5 DEF Queued, Range
<1>8. Unrun(l) = {} /\ Unrun(l)' = {q[i] : i \in 1 .. Len(q)}
  <2>1. Len(<<>>) = 0 /\ 0 + 1 = 1 /\ 1 .. 0 = {}
    OBVIOUS
  <2> QED BY <1>4, <1>5, <2>1 DEF Unrun
<1>9. OnceQueued(l)' /\ OnceUnrun(l)'
  <2>1. \A i, j \in 1 .. Len(q) : q[i] = q[j] => i = j
    BY DEF IInv, NoRepeat, OnceQueued
  <2> QED BY <1>5, <2>1 DEF OnceQueued, OnceUnrun
<1>10. ASSUME NEW k \in Loops
       PROVE  /\ OnceQueued(k)' /\ OnceUnrun(k)' /\ Queued(k)' \cap Unrun(k)' = {}
              /\ Waiting(k)' = Waiting(k)
  <2>1. CASE k = l
    BY <1>7, <1>8, <1>9, <2>1 DEF Waiting
  <2>2. CASE k # l
    <3>1. Queued(k)' = Queued(k) /\ Unrun(k)' = Unrun(k)
      BY <1>5, <2>2 DEF Queued, Unrun
    <3> QED BY <1>5, <2>2, <3>1 DEF IInv, NoRepeat, OnceQueued, OnceUnrun, Waiting
  <2> QED BY <2>1, <2>2
<1>11. NoRepeat'
  BY <1>10 DEF NoRepeat
<1>12. Ownership' /\ EpollerMatches' /\ NoStrangers' /\ Channels' /\ PollTypeOK' /\ FunctorsDue'
  <2>1. UNCHANGED <<life, connfd_, loop_, pollVars, connections_>>
    BY <1>1 DEF remoteVars, connVars, serverVars
  <2> QED BY <2>1, <1>10, AllStay DEF Live
<1>13. Handlers'
  BY <1>1, <1>2 DEF IInv, Handlers, RestTypeOK, Live, remoteVars, connVars, pollVars
<1>14. Places'
  BY <1>1, <1>5 DEF IInv, Places
<1>15. RestTypeOK'
  BY <1>1, <1>2, <1>5 DEF RestTypeOK, remoteVars, connVars, serverVars
<1> QED BY <1>6, <1>11, <1>12, <1>13, <1>14, <1>15, Types DEF IInv

\* EndDoToDoList destroys only connections whose ConnectionDestructor has run:
\* nothing in the Epollers' maps, in the kernel's sets or in the queues is theirs.
LEMMA EndStep ==
    ASSUME IInv, NEW l \in Loops, EndDoToDoList(l)
    PROVE  IInv'
<1> DEFINE dead == {c \in Conns : life[c] = "alive" /\ c \notin Referenced(funclists')}
<1>1. /\ pc[l] = "functors" /\ ran[l] = Len(funclists[l])
      /\ pc' = [pc EXCEPT ![l] = "wait"]
      /\ funclists' = [funclists EXCEPT ![l] = <<>>]
      /\ ran' = [ran EXCEPT ![l] = 0]
      /\ life' = [c \in Conns |-> IF c \in dead THEN "destroyed" ELSE life[c]]
      /\ registered' = [k \in Loops |-> [f \in Fds |->
              IF \E c \in dead : connfd_[c] = f THEN E!NotRegistered ELSE registered[k][f]]]
      /\ UNCHANGED <<peer, inbound, connVars, event_, chState, channelmap_,
                     serverVars, to_do_list_, ActiveChannel_, writing>>
  BY DEF EndDoToDoList
<1>2. RestTypeOK /\ PollTypeOK /\ QueueTypeOK
  BY Types DEF IInv
<1>3. /\ funclists'[l] = <<>> /\ ran'[l] = 0 /\ pc'[l] = "wait"
      /\ \A k \in Loops \ {l} : /\ funclists'[k] = funclists[k] /\ ran'[k] = ran[k]
                                /\ pc'[k] = pc[k]
      /\ pc' \in [Loops -> {"wait", "dispatch", "functors"}]
  BY <1>1, <1>2 DEF QueueTypeOK, RestTypeOK
<1>4. QueueTypeOK'
  <2>1. <<>> \in Seq(Functors) /\ Len(<<>>) = 0
    OBVIOUS
  <2>2. funclists' \in [Loops -> Seq(Functors)] /\ ran' \in [Loops -> Nat]
    BY <1>1, <1>2, <2>1 DEF QueueTypeOK
  <2>3. ASSUME NEW k \in Loops PROVE ran'[k] <= Len(funclists'[k])
    <3>1. ran[k] <= Len(funclists[k])
      BY <1>2 DEF QueueTypeOK
    <3>2. CASE k = l
      BY <1>3, <2>1, <3>2
    <3>3. CASE k # l
      BY <1>3, <3>1, <3>3
    <3> QED BY <3>2, <3>3
  <2>4. to_do_list_' \in [Loops -> Seq(Functors)]
    BY <1>1, <1>2 DEF QueueTypeOK
  <2> QED BY <2>2, <2>3, <2>4 DEF QueueTypeOK
<1>5. Unrun(l) = {} /\ Unrun(l)' = {} /\ OnceUnrun(l)'
  <2>1. Len(<<>>) = 0 /\ 0 + 1 .. 0 = {}
    OBVIOUS
  <2>2. Len(funclists[l]) + 1 .. Len(funclists[l]) = {}
    BY <1>1, <1>2 DEF QueueTypeOK
  <2> QED BY <1>1, <1>3, <2>1, <2>2 DEF Unrun, OnceUnrun
<1>6. ASSUME NEW k \in Loops
      PROVE  /\ OnceQueued(k)' /\ OnceUnrun(k)' /\ Queued(k)' \cap Unrun(k)' = {}
             /\ Waiting(k)' = Waiting(k)
             /\ Waiting(k) \subseteq Functors
             /\ \A fn \in Waiting(k) : fn.conn \in Referenced(funclists')
  <2>1. Queued(k)' = Queued(k) /\ (OnceQueued(k)' <=> OnceQueued(k))
    BY <1>1 DEF Queued, OnceQueued
  <2>2. Unrun(k)' = Unrun(k) /\ OnceUnrun(k)'
    <3>1. OnceUnrun(k)
      BY DEF IInv, NoRepeat
    <3>2. CASE k = l
      BY <1>5, <3>2
    <3>3. CASE k # l
      BY <1>3, <3>1, <3>3 DEF Unrun, OnceUnrun
    <3> QED BY <3>2, <3>3
  <2>3. Waiting(k) \subseteq Functors
    BY <1>2, FunctorsQueued DEF Waiting
  <2>4. \A fn \in Queued(k) : fn.conn \in Referenced(funclists')
    BY DEF Queued, Referenced
  <2>5. \A fn \in Unrun(k) : fn.conn \in Referenced(funclists')
    <3>1. CASE k = l
      BY <1>5, <3>1
    <3>2. CASE k # l
      <4>1. funclists[k] \in Seq(Functors) /\ ran[k] \in Nat
        BY <1>2 DEF QueueTypeOK
      <4>2. Unrun(k) \subseteq Range(funclists'[k])
        BY <1>3, <3>2, <4>1 DEF Unrun, Range
      <4> QED BY <4>2 DEF Referenced
    <3> QED BY <3>1, <3>2
  <2> QED BY <2>1, <2>2, <2>3, <2>4, <2>5 DEF IInv, NoRepeat, Waiting
<1>7. NoRepeat'
  BY <1>6 DEF NoRepeat
<1>8. ASSUME NEW c \in dead
      PROVE  /\ c \in Conns /\ Live(c) /\ ~Entered(c) /\ chState[c] = "kNew"
             /\ \A k \in Loops : \A fn \in Waiting(k) : fn.conn # c
  <2>1. c \in Conns /\ Live(c) /\ c \notin Referenced(funclists')
    BY <1>8 DEF Live
  <2>2. connfd_[c] \in Fds /\ loop_[c] \in Loops
    BY <2>1 DEF IInv, Ownership
  <2>3. connections_' = connections_ /\ DOMAIN connections_ = Fds
    BY <1>1, <1>2 DEF RestTypeOK, serverVars
  <2>4. ~Entered(c)
    <3>1. \A f \in Fds : connections_[f] \in Referenced(funclists')
      BY <2>3 DEF Referenced, Range
    <3> QED BY <2>1, <2>2, <3>1 DEF Entered
  <2>5. \A k \in Loops : \A fn \in Waiting(k) : fn.conn # c
    BY <1>6, <2>1
  <2>6. chState[c] = "kNew"
    <3>1. chState[c] \in {"kNew", "kAdded", "kDeleted"}
      BY <1>2, <2>1 DEF PollTypeOK
    <3>2. chState[c] # "kAdded"
      BY <2>1, <2>4 DEF IInv, Channels
    <3>3. chState[c] # "kDeleted"
      <4>1. Functor("ConnectionDestructor", c).conn = c
        BY DEF Functor
      <4> QED BY <2>1, <2>2, <2>4, <2>5, <4>1 DEF IInv, FunctorsDue
    <3> QED BY <3>1, <3>2, <3>3
  <2> QED BY <2>1, <2>4, <2>5, <2>6
<1>9. /\ \A c \in Conns : Live(c)' <=> Live(c) /\ c \notin dead
      /\ \A c \in Conns : life'[c] \in {"remote", "backlog"} => life'[c] = life[c]
      /\ life' \in [Conns -> {"remote", "backlog", "refused", "alive", "destroyed"}]
  BY <1>1, <1>2 DEF Live, RestTypeOK
<1>10. registered' = registered
  <2>1. ASSUME NEW k \in Loops, NEW f \in Fds, NEW c \in dead, connfd_[c] = f
        PROVE  registered[k][f] = E!NotRegistered
    <3>1. CASE \E d \in Conns : Owns(d, k, f)
      <4>1. PICK d \in Conns : Owns(d, k, f)
        BY <3>1
      <4>2. d = c
        BY <1>8, <2>1, <4>1 DEF IInv, Ownership, Owns
      <4> QED BY <1>8, <4>1, <4>2 DEF IInv, EpollerMatches, Owns, Alive, Live
    <3>2. CASE \A d \in Conns : ~Owns(d, k, f)
      BY <3>2 DEF IInv, NoStrangers
    <3> QED BY <3>1, <3>2
  <2> HIDE DEF dead
  <2>2. registered' = [k \in Loops |-> [f \in Fds |-> registered[k][f]]]
    BY <1>1, <2>1
  <2>3. registered \in [Loops -> [Fds -> [ptr : Conns \cup {NoChannel}, events : Events]]]
    BY <1>2 DEF PollTypeOK
  <2>4. \A k \in Loops : registered[k] = [f \in Fds |-> registered[k][f]]
    BY <2>3
  <2>5. registered = [k \in Loops |-> registered[k]]
    BY <2>3
  <2> QED BY <2>2, <2>4, <2>5
<1> HIDE DEF dead
<1>11. UNCHANGED <<connfd_, loop_, event_, chState, channelmap_, registered, connections_>>
  BY <1>1, <1>10 DEF connVars, serverVars
<1>12. Ownership'
  <2>1. \A f \in Fds : connections_[f] # NoChannel => connections_[f] \in Conns
    BY <1>2 DEF RestTypeOK
  <2>2. \A f \in Fds : connections_[f] # NoChannel => connections_[f] \notin dead
    BY <1>8, <2>1 DEF IInv, Ownership, Entered
  <2> QED BY <1>9, <1>11, <2>1, <2>2 DEF IInv, Ownership, Live
<1>13. EpollerMatches'
  BY <1>9, <1>11 DEF IInv, EpollerMatches, Alive, Live
<1>14. NoStrangers'
  <2>1. SUFFICES ASSUME NEW k \in Loops, NEW f \in Fds, \A c \in Conns : ~Owns(c, k, f)'
                 PROVE  channelmap_[k][f] = NoChannel /\ registered[k][f] = E!NotRegistered
    BY <1>11 DEF NoStrangers
  <2>2. CASE \A c \in Conns : ~Owns(c, k, f)
    BY <2>2 DEF IInv, NoStrangers
  <2>3. CASE \E c \in Conns : Owns(c, k, f)
    <3>1. PICK c \in Conns : Owns(c, k, f)
      BY <2>3
    <3>2. c \in dead
      BY <1>9, <1>11, <2>1, <3>1 DEF Owns
    <3>3. chState[c] = "kNew"
      BY <1>8, <3>2
    <3> QED BY <3>1, <3>3 DEF IInv, EpollerMatches, Owns, Alive, Live
  <2> QED BY <2>2, <2>3
<1>15. Channels'
  BY <1>9, <1>11 DEF IInv, Channels, Entered, Live
<1>16. Handlers'
  <2>1. ASSUME NEW k \in Loops
        PROVE  /\ \A e \in ActiveChannel_[k] : e.ptr \in Conns => e.ptr \notin dead
               /\ writing[k] \notin dead
    <3>1. NoChannel \notin Conns
      BY TcpServerAssumption DEF TcpServerAssumption
    <3>2. writing[k] \notin dead
      BY <1>8, <3>1 DEF IInv, Handlers
    <3>3. \A e \in ActiveChannel_[k] : e.ptr \in Conns => chState[e.ptr] = "kAdded"
      BY DEF IInv, Handlers
    <3> QED BY <1>8, <3>2, <3>3
  <2>2. \A k \in Loops : writing[k] \in Conns \cup {NoChannel}
    BY <1>2 DEF RestTypeOK
  <2> QED BY <1>1, <1>9, <1>11, <2>1, <2>2 DEF IInv, Handlers, Live
<1>17. Places'
  BY <1>1, <1>3 DEF IInv, Places
<1>18. FunctorsDue'
  <2>1. ASSUME NEW k \in Loops, NEW fn \in Waiting(k)'
        PROVE  Due(fn, k)'
    <3>1. fn \in Waiting(k) /\ fn.conn \in Conns /\ fn.conn \notin dead
      BY <1>6, <1>8, <2>1 DEF Functors
    <3>2. Due(fn, k)
      BY <3>1 DEF IInv, FunctorsDue
    <3>3. Live(fn.conn)'
      BY <1>9, <3>1, <3>2 DEF Due
    <3> QED BY <1>11, <3>2, <3>3 DEF Due, Entered
  <2>2. ASSUME NEW c \in Conns, Live(c)', chState'[c] = "kDeleted", ~Entered(c)'
        PROVE  Functor("ConnectionDestructor", c) \in Waiting(loop_[c])'
    <3>1. Live(c) /\ chState[c] = "kDeleted" /\ ~Entered(c)
      BY <1>9, <1>11, <2>2 DEF Entered
    <3>2. PICK k \in Loops : k = loop_[c]
      BY <3>1 DEF IInv, Ownership
    <3>3. Functor("ConnectionDestructor", c) \in Waiting(k)'
      BY <1>6, <3>1, <3>2 DEF IInv, FunctorsDue
    <3> QED BY <1>11, <3>2, <3>3 DEF Waiting, Queued, Unrun
  <2> QED BY <2>1, <2>2 DEF FunctorsDue
<1>19. RestTypeOK'
  BY <1>1, <1>2, <1>3, <1>9 DEF RestTypeOK, connVars, serverVars
<1>20. PollTypeOK'
  BY <1>2, <1>11 DEF PollTypeOK
<1> QED BY <1>4, <1>7, <1>12, <1>13, <1>14, <1>15, <1>16, <1>17, <1>18, <1>19, <1>20, Types
        DEF IInv

\* GetNextLoop's round robin stays within the pool.
LEMMA NextLoop ==
    ASSUME loops_ \in Pools, next_ \in Nat, loops_ # <<>>, next_ < Len(loops_)
    PROVE  loops_[next_ + 1] \in Loops /\ NextAfter(next_) \in Nat /\ NextAfter(next_) < Len(loops_)
<1>1. loops_ \in Seq(Range(loops_))
  BY TcpServerAssumption DEF TcpServerAssumption
<1>2. Len(loops_) \in Nat /\ next_ + 1 \in 1 .. Len(loops_)
  BY <1>1
<1>3. loops_[next_ + 1] \in Range(loops_)
  BY <1>1, <1>2
<1>4. Range(loops_) \subseteq IoLoops
  BY DEF IoLoops
<1>5. NextAfter(next_) \in 0 .. Len(loops_) - 1
  BY <1>2 DEF NextAfter
<1> QED BY <1>2, <1>3, <1>4, <1>5 DEF Loops

\* HandleNewConn gives a client that nothing refers to an fd that nothing is
\* held under.
LEMMA NewConnStep ==
    ASSUME IInv, NEW c \in Conns, NEW f \in Fds, HandleNewConn(c, f)
    PROVE  IInv'
<1> DEFINE fn == Functor("ConnectionEstablished", c)
           next == IF loops_ = <<>> THEN Base ELSE loops_[next_ + 1]
<1>1. RestTypeOK /\ PollTypeOK /\ QueueTypeOK
  BY Types DEF IInv
<1>2. PICK l \in Loops : l = next
  BY <1>1, NextLoop DEF RestTypeOK, Loops
<1>3. /\ Dispatch(Base, AcceptReady) /\ life[c] = "backlog" /\ FdFree(f)
      /\ life' = [life EXCEPT ![c] = "alive"]
      /\ connfd_' = [connfd_ EXCEPT ![c] = f]
      /\ loop_' = [loop_ EXCEPT ![c] = l]
      /\ connections_' = [connections_ EXCEPT ![f] = c]
      /\ next_' = IF loops_ = <<>> THEN next_ ELSE NextAfter(next_)
      /\ \/ /\ state_' = [state_ EXCEPT ![c] = "kConnected"]
            /\ SetSlot(c, l, f, E!Update(Slot(c, l, f), c, {"EPOLLIN"}))
            /\ timers' \subseteq timers \cup {c} /\ UNCHANGED to_do_list_
         \/ QueueOneFunc(l, fn) /\ UNCHANGED <<state_, pollVars, timers>>
      /\ UNCHANGED <<peer, inbound, loops_, funclists, ran, writing>>
  BY <1>2 DEF HandleNewConn
<1>4. ~Live(c) /\ chState[c] = "kNew" /\ event_[c] = {} /\ connections_[f] = NoChannel
  <2>1. ~Live(c) /\ chState[c] = "kNew" /\ event_[c] = {}
    BY <1>3 DEF IInv, Channels, Live
  <2>2. connections_[f] \in Conns => connections_[f] = NoChannel
    BY <1>3 DEF FdFree, IInv, Ownership, Live
  <2> QED BY <1>1, <2>1, <2>2 DEF RestTypeOK
<1>5. channelmap_[l][f] = NoChannel /\ registered[l][f] = E!NotRegistered
  BY <1>3 DEF FdFree, IInv, NoStrangers, Owns, Live
<1>6. /\ OthersStay(c) /\ Owns(c, l, f)'
      /\ \A d \in Conns : /\ life'[d] = IF d = c THEN "alive" ELSE life[d]
                          /\ connfd_'[d] = IF d = c THEN f ELSE connfd_[d]
                          /\ loop_'[d] = IF d = c THEN l ELSE loop_[d]
      /\ \A g \in Fds : connections_'[g] = IF g = f THEN c ELSE connections_[g]
  BY <1>1, <1>3 DEF RestTypeOK, OthersStay, Owns, Live
<1>7. \A d \in Conns \ {c} : Live(d) => connfd_[d] # f /\ loop_[d] \in Loops /\ connfd_[d] \in Fds
  BY <1>3 DEF FdFree, IInv, Ownership, Live
<1>8. Entered(c)' /\ \A d \in Conns \ {c} : Live(d) => (Entered(d)' <=> Entered(d))
  BY <1>6, <1>7 DEF Entered
<1>9. /\ fn \in Functors /\ fn.conn = c /\ fn.func = "ConnectionEstablished"
      /\ \A k \in Loops : \A other \in Waiting(k) : other.conn # c
  BY <1>4 DEF Functor, Functors, IInv, FunctorsDue, Due
<1>10. PICK events \in Events, state \in {"kNew", "kAdded"} :
          /\ PollTypeOK' /\ SlotBecomes(c, l, f, events, state)
          /\ state = "kAdded" => "EPOLLIN" \in events
          /\ state # "kAdded" => events = {}
          /\ NoRepeat' /\ QueueTypeOK'
          /\ \A k \in Loops : Waiting(k)' =
                Waiting(k) \cup (IF state = "kNew" /\ k = l THEN {fn} ELSE {})
  <2> HIDE DEF fn
  <2>1. CASE /\ SetSlot(c, l, f, E!Update(Slot(c, l, f), c, {"EPOLLIN"}))
             /\ UNCHANGED to_do_list_
    <3>1. PollTypeOK' /\ SlotBecomes(c, l, f, {"EPOLLIN"}, "kAdded")
      BY <1>1, <1>4, <1>5, <2>1, UpdateNew DEF Events
    <3>2. NoRepeat' /\ QueueTypeOK' /\ \A k \in Loops : Waiting(k)' = Waiting(k)
      BY <1>3, <2>1, QueuesSame DEF queueVars
    <3> QED BY <3>1, <3>2 DEF Events
  <2>2. CASE QueueOneFunc(l, fn) /\ UNCHANGED pollVars
    <3>1. PollTypeOK' /\ SlotBecomes(c, l, f, {}, "kNew")
      BY <1>1, <1>4, <1>5, <2>2 DEF PollTypeOK, SlotBecomes, pollVars
    <3>2. /\ NoRepeat' /\ QueueTypeOK'
          /\ \A k \in Loops : Waiting(k)' = Waiting(k) \cup (IF k = l THEN {fn} ELSE {})
      BY <1>3, <1>9, <2>2, QueueStep
    <3> QED BY <3>1, <3>2 DEF Events
  <2> QED BY <1>3, <2>1, <2>2
<1>11. EpollerMatches' /\ NoStrangers'
  <2>1. \A d \in Conns : Live(d) => loop_[d] \in Loops /\ connfd_[d] \in Fds
    BY DEF IInv, Ownership
  <2> QED BY <1>4, <1>6, <1>7, <1>10, <2>1, SlotsKept DEF IInv
<1>12. Ownership'
  <2>1. \A g \in Fds : connections_[g] # NoChannel => connections_[g] \in Conns
    BY <1>1 DEF RestTypeOK
  <2>2. \A d \in Conns : Live(d)' => d = c \/ Live(d)
    BY <1>6 DEF Live
  <2>3. \A d \in Conns : Live(d)' => connfd_'[d] \in Fds /\ loop_'[d] \in Loops
    BY <1>6, <1>7, <2>2
  <2>4. \A d, e \in Conns : Live(d)' /\ Live(e)' /\ connfd_'[d] = connfd_'[e] => d = e
    BY <1>6, <1>7, <2>2 DEF IInv, Ownership
  <2>5. ASSUME NEW g \in Fds, connections_'[g] # NoChannel
        PROVE  Live(connections_[g])' /\ connfd_'[connections_'[g]] = g
    <3>1. CASE g = f
      BY <1>6, <3>1 DEF Live
    <3>2. CASE g # f
      <4>1. connections_'[g] = connections_[g] /\ connections_[g] \in Conns
        BY <1>6, <2>1, <2>5, <3>2
      <4>2. Live(connections_[g]) /\ connfd_[connections_[g]] = g
        BY <2>5, <4>1 DEF IInv, Ownership
      <4>3. connections_[g] # c
        BY <1>4, <4>2
      <4> QED BY <1>6, <4>1, <4>2, <4>3 DEF Live
    <3> QED BY <3>1, <3>2
  <2> QED BY <2>3, <2>4, <2>5 DEF Ownership
<1>13. chState'[c] = state /\ \A d \in Conns \ {c} : chState'[d] = chState[d]
  BY <1>10 DEF SlotBecomes
<1>14. Channels'
  <2>1. ASSUME NEW d \in Conns
        PROVE  /\ life'[d] \in {"remote", "backlog"} => chState'[d] = "kNew" /\ event_'[d] = {}
               /\ Live(d)' /\ chState'[d] = "kAdded" => Entered(d)' /\ "EPOLLIN" \in event_'[d]
               /\ Live(d)' /\ chState'[d] # "kAdded" => event_'[d] = {}
    <3>1. CASE d = c
      BY <1>6, <1>8, <1>10, <1>13, <3>1 DEF SlotBecomes
    <3>2. CASE d # c
      <4>1. life'[d] = life[d] /\ chState'[d] = chState[d] /\ event_'[d] = event_[d]
        BY <1>6, <1>10, <3>2 DEF SlotBecomes
      <4> QED BY <1>8, <3>2, <4>1 DEF IInv, Channels, Live
    <3> QED BY <3>1, <3>2
  <2> QED BY <2>1 DEF Channels
<1>15. /\ pc' = pc /\ writing' = writing /\ Base \in Loops
       /\ ActiveChannel_' \in
            [Loops -> SUBSET [ptr : Conns \cup {Acceptor, TimerQueue}, revents : Events]]
       /\ \A k \in Loops : ActiveChannel_'[k] \subseteq ActiveChannel_[k]
  <2>1. Base \in Loops
    BY DEF Loops
  <2> QED BY <1>1, <1>3, <2>1, Dispatched
<1>16. Handlers'
  <2>1. \A k \in Loops : writing[k] \in Conns \cup {NoChannel}
    BY <1>1 DEF RestTypeOK
  <2>2. \A k \in Loops : writing[k] # c /\ \A e \in ActiveChannel_[k] : e.ptr # c
    <3>1. c # NoChannel
      BY TcpServerAssumption DEF TcpServerAssumption
    <3> QED BY <1>4, <3>1 DEF IInv, Handlers
  <2> QED BY <1>6, <1>13, <1>15, <2>1, <2>2, HandlersStep
<1>17. Places'
  BY <1>3, <1>15 DEF IInv, Places
<1>18. FunctorsDue'
  <2> HIDE DEF fn
  <2>1. \A k \in Loops : Waiting(k)' \subseteq Functors
    BY <1>1, <1>9, <1>10, FunctorsQueued DEF Waiting
  <2>2. state = "kNew" => Due(fn, l)'
    BY <1>6, <1>8, <1>9, <1>13 DEF Due, Owns
  <2>3. ASSUME NEW k \in Loops, NEW other \in Waiting(k)'
        PROVE  IF other.conn = c THEN Due(other, k)' ELSE other \in Waiting(k)
    <3>1. other \in Waiting(k) \/ (state = "kNew" /\ other = fn /\ k = l)
      BY <1>10, <2>3
    <3>2. CASE other \in Waiting(k)
      BY <1>9, <3>2
    <3>3. CASE state = "kNew" /\ other = fn /\ k = l
      BY <1>9, <2>2, <3>3
    <3> QED BY <3>1, <3>2, <3>3
  <2>4. \A k \in Loops : \A other \in Waiting(k) : other \in Waiting(k)'
    BY <1>10
  <2>5. chState'[c] # "kDeleted"
    BY <1>13
  <2> QED BY <1>6, <1>8, <1>13, <2>1, <2>3, <2>4, <2>5, DueStep
<1>19. RestTypeOK'
  <2>1. loops_ # <<>> => next_' < Len(loops_)
    BY <1>1, <1>3, NextLoop DEF RestTypeOK
  <2>2. next_' \in Nat
    BY <1>1, <1>3, NextLoop DEF RestTypeOK
  <2>3. /\ life' \in [Conns -> {"remote", "backlog", "refused", "alive", "destroyed"}]
        /\ connfd_' \in [Conns -> Fds \cup {NoChannel}]
        /\ loop_' \in [Conns -> Loops \cup {NoChannel}]
        /\ connections_' \in [Fds -> Conns \cup {NoChannel}]
    BY <1>1, <1>3 DEF RestTypeOK
  <2>4. /\ state_' \in [Conns -> {"kConnected", "kDisconnected", "kDisconnecting"}]
        /\ timers' \subseteq Conns
    BY <1>1, <1>3 DEF RestTypeOK
  <2> QED BY <1>1, <1>3, <1>15, <2>1, <2>2, <2>3, <2>4 DEF RestTypeOK
<1> QED BY <1>10, <1>11, <1>12, <1>14, <1>16, <1>17, <1>18, <1>19, Types DEF IInv

-----------------------------------------------------------------------------
(* The theorems.                                                           *)

\* The state the server starts in satisfies the invariant.
LEMMA InitIInv == Init => IInv
<1> SUFFICES ASSUME Init PROVE IInv
  OBVIOUS
<1>1. \A c \in Conns : ~Live(c)
  BY DEF Init, Live
<1>2. QueueTypeOK /\ \A l \in Loops : Queued(l) = {} /\ Unrun(l) = {} /\ OnceQueued(l) /\ OnceUnrun(l)
  <2>1. <<>> \in Seq(Functors) /\ Len(<<>>) = 0 /\ DOMAIN <<>> = {} /\ 1 .. 0 = {} /\ 0 + 1 .. 0 = {}
    OBVIOUS
  <2>2. QueueTypeOK
    BY <2>1 DEF Init, QueueTypeOK
  <2>3. ASSUME NEW l \in Loops
        PROVE  to_do_list_[l] = <<>> /\ funclists[l] = <<>> /\ ran[l] = 0
    BY DEF Init
  <2> QED BY <2>1, <2>2, <2>3 DEF Queued, Unrun, OnceQueued, OnceUnrun, Range
<1>3. PollTypeOK
  BY DEF Init, PollTypeOK, E!NotRegistered, Events
<1>4. RestTypeOK
  <2>1. loops_ # <<>> => 0 < Len(loops_)
    BY TcpServerAssumption DEF TcpServerAssumption, Init
  <2> QED BY <2>1 DEF Init, RestTypeOK
<1>5. TypeOK
  BY <1>2, <1>3, <1>4 DEF TypeOK, RestTypeOK, PollTypeOK, QueueTypeOK
<1>6. Ownership /\ EpollerMatches /\ Channels /\ NoStrangers
  BY <1>1 DEF Init, Ownership, EpollerMatches, Channels, NoStrangers, Alive, Live
<1>7. Handlers /\ Places
  BY DEF Init, Handlers, Places
<1>8. NoRepeat /\ FunctorsDue
  BY <1>1, <1>2 DEF NoRepeat, FunctorsDue, Waiting
<1> QED BY <1>5, <1>6, <1>7, <1>8 DEF IInv

\* A loop's thread preserves the invariant.
LEMMA ThreadStep ==
    ASSUME IInv, NEW l \in Loops, Thread(l)
    PROVE  IInv'
<1>1. CASE EpollWait(l)
  BY <1>1, EpollWaitStep
<1>2. CASE \E e \in ActiveChannel_[l] : HandleMessage(l, e) \/ SkipRead(l, e)
  BY <1>2, HandleMessageStep, SkipReadStep
<1>3. CASE HandleWrite(l)
  BY <1>3, HandleWriteStep
<1>4. CASE SwapToDoList(l)
  BY <1>4, SwapStep
<1>5. CASE \E c \in Conns : \/ ConnectionEstablished(l, c)
                            \/ HandleCloseInLoop(l, c)
                            \/ ConnectionDestructor(l, c)
  BY <1>5, EstablishedStep, CloseInLoopStep, DestructorStep
<1>6. CASE EndDoToDoList(l)
  BY <1>6, EndStep
<1> QED BY <1>1, <1>2, <1>3, <1>4, <1>5, <1>6 DEF Thread

\* A step that changes nothing preserves the invariant.
LEMMA StutterStep ==
    ASSUME IInv, UNCHANGED vars
    PROVE  IInv'
<1>1. UNCHANGED <<remoteVars, connVars, pollVars, serverVars, queueVars, stepVars>>
  BY DEF vars, remoteVars, connVars, pollVars, serverVars, queueVars, stepVars
<1>2. RestTypeOK /\ PollTypeOK /\ QueueTypeOK
  BY Types DEF IInv
<1>3. UNCHANGED <<life, connfd_, loop_, chState, pollVars, connections_>>
  BY <1>1 DEF remoteVars, connVars, serverVars, pollVars
<1>4. NoRepeat' /\ QueueTypeOK' /\ \A k \in Loops : Waiting(k)' = Waiting(k)
  BY <1>1, QueuesSame
<1>5. Ownership' /\ EpollerMatches' /\ NoStrangers' /\ Channels' /\ PollTypeOK' /\ FunctorsDue'
  BY <1>3, <1>4, AllStay DEF Live
<1>6. Handlers' /\ Places'
  BY <1>1, <1>2, <1>3 DEF IInv, Handlers, Places, Live, RestTypeOK, queueVars, stepVars
<1>7. RestTypeOK'
  BY <1>1, <1>2 DEF RestTypeOK, remoteVars, connVars, serverVars, stepVars
<1> QED BY <1>4, <1>5, <1>6, <1>7, Types DEF IInv

\* Every step preserves the invariant.
LEMMA NextIInv == IInv /\ [Next]_vars => IInv'
<1> SUFFICES ASSUME IInv, [Next]_vars PROVE IInv'
  OBVIOUS
<1>1. Base \in Loops /\ IoLoops \subseteq Loops
  BY DEF Loops
<1>2. CASE BaseThread
  BY <1>1, <1>2, ThreadStep, BaseStep, NewConnStep DEF BaseThread
<1>3. CASE \E l \in IoLoops : Thread(l)
  BY <1>1, <1>3, ThreadStep
<1>4. CASE \E c \in Conns : Client(c)
  BY <1>4, ClientStep
<1>5. CASE UNCHANGED vars
  BY <1>5, StutterStep
<1> QED BY <1>2, <1>3, <1>4, <1>5 DEF Next

\* The invariant the theorems below come from: who owns which fd, which slot of
\* which Epoller and which queued functor, at every moment of every behaviour.
THEOREM Invariance == SafeSpec => []IInv
BY InitIInv, NextIInv, PTL DEF SafeSpec

\* The state keeps its shape; next_ stays within the pool.
THEOREM TypeCorrect == SafeSpec => []TypeOK
<1>1. IInv => TypeOK
  BY DEF IInv
<1> QED BY <1>1, Invariance, PTL

\* No loop calls into a destroyed connection: neither what epoll_wait has
\* returned, nor a write half to come, nor what the Epollers hold, dangles.
THEOREM NoneDangle == SafeSpec => []NoDanglingChannel
<1>1. IInv => NoDanglingChannel
  <2> SUFFICES ASSUME IInv, NEW l \in Loops
               PROVE  /\ \A e \in ActiveChannel_[l] : e.ptr \in Conns => Alive(e.ptr)
                      /\ writing[l] # NoChannel => Alive(writing[l])
                      /\ \A f \in Fds :
                            /\ registered[l][f].ptr # NoChannel => Alive(registered[l][f].ptr)
                            /\ channelmap_[l][f] # NoChannel => Alive(channelmap_[l][f])
    BY DEF NoDanglingChannel
  <2>1. \A e \in ActiveChannel_[l] : e.ptr \in Conns => Alive(e.ptr)
    BY DEF IInv, Handlers, Alive, Live
  <2>2. writing[l] # NoChannel => Alive(writing[l])
    BY Types DEF IInv, Handlers, Alive, Live, RestTypeOK
  <2>3. ASSUME NEW f \in Fds
        PROVE  /\ registered[l][f].ptr # NoChannel => Alive(registered[l][f].ptr)
               /\ channelmap_[l][f] # NoChannel => Alive(channelmap_[l][f])
    <3>1. CASE \A c \in Conns : ~Owns(c, l, f)
      BY <3>1 DEF IInv, NoStrangers, E!NotRegistered
    <3>2. CASE \E c \in Conns : Owns(c, l, f)
      <4>1. PICK c \in Conns : Owns(c, l, f)
        BY <3>2
      <4>2. Alive(c) /\ loop_[c] = l /\ connfd_[c] = f
        BY <4>1 DEF Owns, Alive, Live
      <4>3. /\ channelmap_[l][f] \in {NoChannel, c}
            /\ registered[l][f] \in {[ptr |-> c, events |-> event_[c]], E!NotRegistered}
        BY <4>2 DEF IInv, EpollerMatches
      <4> QED BY <4>2, <4>3 DEF E!NotRegistered
    <3> QED BY <3>1, <3>2
  <2> QED BY <2>1, <2>2, <2>3
<1> QED BY <1>1, Invariance, PTL

\* The assertions of Epoller::Update hold, and the kernel's interest in every
\* connection is what its Channel believes, though epoll_ctl's result is dropped.
THEOREM EpollersMatch == SafeSpec => []EpollerMatches
<1>1. IInv => EpollerMatches
  BY DEF IInv
<1> QED BY <1>1, Invariance, PTL

\* A functor that is Pending waits on some loop, and so is due there.
LEMMA PendingDue ==
    ASSUME IInv, NEW func, NEW c \in Conns, Pending(func, c)
    PROVE  \E l \in Loops : Due(Functor(func, c), l)
<1>1. PICK l \in Loops :
         \/ Functor(func, c) \in Range(to_do_list_[l])
         \/ \E i \in ran[l] + 1 .. Len(funclists[l]) : funclists[l][i] = Functor(func, c)
  BY DEF Pending
<1>2. Functor(func, c) \in Waiting(l)
  BY <1>1 DEF Waiting, Queued, Unrun
<1> QED BY <1>2 DEF IInv, FunctorsDue

\* The assertion of HandleCloseInLoop and that of Epoller::Remove hold, in the
\* two threads a close goes through.
THEOREM ClosesFindEntry == SafeSpec => []CloseFindsEntry
<1>1. IInv => CloseFindsEntry
  <2> SUFFICES ASSUME IInv, NEW c \in Conns
               PROVE  /\ Pending("HandleCloseInLoop", c) => connections_[connfd_[c]] = c
                      /\ Pending("ConnectionDestructor", c) => chState[c] # "kNew"
    BY DEF CloseFindsEntry
  <2>1. Pending("HandleCloseInLoop", c) => connections_[connfd_[c]] = c
    BY PendingDue DEF Due, Functor, Entered
  <2>2. Pending("ConnectionDestructor", c) => chState[c] # "kNew"
    BY PendingDue DEF Due, Functor
  <2> QED BY <2>1, <2>2
<1> QED BY <1>1, Invariance, PTL

\* A connection whose close is under way is out of the kernel's set, whatever
\* write half or idle timer comes in between.
THEOREM ClosedStaysQuiet == SafeSpec => []ClosedIsQuiet
<1>1. IInv => ClosedIsQuiet
  <2> SUFFICES ASSUME IInv, NEW c \in Conns,
                      Pending("HandleCloseInLoop", c) \/ Pending("ConnectionDestructor", c)
               PROVE  registered[loop_[c]][connfd_[c]] = E!NotRegistered
    BY DEF ClosedIsQuiet
  <2>1. Live(c) /\ chState[c] = "kDeleted"
    BY PendingDue DEF Due, Functor
  <2> QED BY <2>1 DEF IInv, EpollerMatches, Alive, Live
<1> QED BY <1>1, Invariance, PTL

\* connections_[connfd] = ptr never overwrites the entry of another connection:
\* what connections_ holds is alive, and no fd of a live connection is reused.
THEOREM EntriesNotOverwritten == SafeSpec => ConnectionsNotOverwritten
<1> DEFINE Kept == \A f \in Fds : connections_[f] = NoChannel
                                  \/ connections_'[f] \in {connections_[f], NoChannel}
<1>1. ASSUME IInv, [Next]_vars PROVE [Kept]_connections_
  <2> SUFFICES ASSUME connections_' # connections_ PROVE Kept
    OBVIOUS
  <2>1. connections_ \in [Fds -> Conns \cup {NoChannel}]
    BY <1>1, Types DEF IInv, RestTypeOK
  <2>2. CASE \E c \in Conns, f \in Fds : HandleNewConn(c, f)
    <3>1. PICK c \in Conns, f \in Fds : HandleNewConn(c, f)
      BY <2>2
    <3>2. FdFree(f) /\ connections_' = [connections_ EXCEPT ![f] = c]
      BY <3>1 DEF HandleNewConn
    <3>3. connections_[f] = NoChannel
      BY <1>1, <2>1, <3>2 DEF FdFree, IInv, Ownership, Live
    <3> QED BY <2>1, <3>2, <3>3
  <2>3. CASE \E l \in Loops, c \in Conns : HandleCloseInLoop(l, c)
    BY <2>1, <2>3 DEF HandleCloseInLoop, Erase
  <2>4. CASE \E l \in Loops : Thread(l)
    <3>1. PICK l \in Loops : Thread(l)
      BY <2>4
    <3>2. ~EpollWait(l) /\ ~HandleWrite(l) /\ ~SwapToDoList(l) /\ ~EndDoToDoList(l)
      BY DEF EpollWait, HandleWrite, SwapToDoList, EndDoToDoList, serverVars
    <3>3. \A e : ~HandleMessage(l, e) /\ ~SkipRead(l, e)
      BY DEF HandleMessage, SkipRead, serverVars
    <3>4. \A c : ~ConnectionEstablished(l, c) /\ ~ConnectionDestructor(l, c)
      BY DEF ConnectionEstablished, ConnectionDestructor
    <3> QED BY <2>3, <3>1, <3>2, <3>3, <3>4 DEF Thread
  <2>5. /\ \A c : ~RefuseConn(c) /\ ~Client(c)
        /\ \A expired, idle : ~HandleIdleConnections(expired, idle)
        /\ ~UNCHANGED vars
    BY DEF RefuseConn, Client, HandleIdleConnections, serverVars, vars
  <2> QED BY <1>1, <2>2, <2>4, <2>5 DEF Next, BaseThread, Loops
<1> QED BY <1>1, Invariance, PTL DEF SafeSpec, ConnectionsNotOverwritten
=============================================================================
