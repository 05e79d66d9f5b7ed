----------------------------- MODULE TcpServer ------------------------------
(***************************************************************************)
(* The life of TcpConnections across threads: Acceptor and TcpServer on    *)
(* the base loop, each TcpConnection's Channel on the Epoller of the loop  *)
(* it was given to, and the shared_ptrs in connections_ and in the queued  *)
(* functors that keep a connection, and so its fd, alive.  Each loop runs  *)
(* the cycle of EventLoop: epoll_wait, the handlers of the ready channels, *)
(* then the functors that were queued; EventLoop's own theorems justify    *)
(* that a queued functor wakes its loop here.  What a handler does to the  *)
(* output bytes is the subject of TcpConnection; here Send is its effect   *)
(* on the write interest.                                                  *)
(***************************************************************************)
EXTENDS Naturals, Sequences, FiniteSets, Functions

CONSTANTS
    Base,           \* base_loop_
    Pools,          \* what StartLoop may make of loops_; <<>> for thread_num_ = 0
    Conns,          \* the clients, each with the TcpConnection made for it
    Fds,            \* the fds left for connections
    AutoClose,      \* HttpServer::auto_close_idleconnection_
    Acceptor,       \* acceptchannel_
    TimerQueue,     \* the timer queue's channel
    NoChannel       \* no channel, connection or handler

ASSUME TcpServerAssumption ==
    /\ \A pool \in Pools : pool \in Seq(Range(pool)) /\ Base \notin Range(pool)
    /\ {Acceptor, TimerQueue, NoChannel} \cap Conns = {}
    /\ AutoClose \in BOOLEAN

IoLoops == UNION {Range(pool) : pool \in Pools}
Loops   == {Base} \cup IoLoops

VARIABLES
    life,           \* of each client: "remote", "backlog", "refused", "alive" (its
                    \* TcpConnection exists) or "destroyed"
    peer,           \* of each client: "open", "closed" (it has sent its FIN) or
                    \* "reset" (the server is still to be told of the RST)
    inbound,        \* clients with data the server has not read
    connfd_, loop_, state_,
    event_, chState,    \* Channel's event_ and ChannelState
    timers,         \* connections with a pending idle timer (weak_ptr)
    connections_,
    loops_, next_,  \* EventLoopThreadPool's loops and its round robin, from 0
    channelmap_, registered,   \* per loop: the Epoller's map, the kernel's set
    pc,             \* where each loop is
    ActiveChannel_, \* per loop: events of the last epoll_wait not handled yet
    writing,        \* per loop: the connection whose HandleEvent has its write
                    \* half still to do
    to_do_list_,    \* per loop
    funclists,      \* per loop: the vector DoToDoList is walking
    ran             \* per loop: how many of its functors have run

remoteVars == <<life, peer, inbound>>
connVars   == <<connfd_, loop_, state_>>
pollVars   == <<event_, chState, channelmap_, registered>>
serverVars == <<connections_, loops_, next_, timers>>
queueVars  == <<to_do_list_, funclists, ran>>
stepVars   == <<pc, ActiveChannel_, writing>>

vars == <<life, peer, inbound, connfd_, loop_, state_, event_, chState,
          timers, connections_, loops_, next_, channelmap_, registered, pc,
          ActiveChannel_, writing, to_do_list_, funclists, ran>>

E == INSTANCE Epoller

Events == SUBSET {"EPOLLIN", "EPOLLOUT"}

\* What the queued std::functions are: each holds a shared_ptr to conn.
Functors == [func : {"ConnectionEstablished", "HandleCloseInLoop",
                     "ConnectionDestructor"}, conn : Conns]

Functor(func, c) == [func |-> func, conn |-> c]

Init ==
    /\ life = [c \in Conns |-> "remote"]
    /\ peer = [c \in Conns |-> "open"]
    /\ inbound = {} /\ timers = {}
    /\ connfd_ = [c \in Conns |-> NoChannel]
    /\ loop_ = [c \in Conns |-> NoChannel]
    /\ state_ = [c \in Conns |-> "kDisconnected"]
    /\ event_ = [c \in Conns |-> {}]
    /\ chState = [c \in Conns |-> "kNew"]
    /\ connections_ = [f \in Fds |-> NoChannel]
    /\ loops_ \in Pools /\ next_ = 0
    /\ channelmap_ = [l \in Loops |-> [f \in Fds |-> NoChannel]]
    /\ registered = [l \in Loops |-> [f \in Fds |-> E!NotRegistered]]
    /\ pc = [l \in Loops |-> "wait"]
    /\ ActiveChannel_ = [l \in Loops |-> {}]
    /\ writing = [l \in Loops |-> NoChannel]
    /\ to_do_list_ = [l \in Loops |-> <<>>]
    /\ funclists = [l \in Loops |-> <<>>]
    /\ ran = [l \in Loops |-> 0]

-----------------------------------------------------------------------------
(* The clients.                                                            *)

Connect(c) ==
    /\ life[c] = "remote"
    /\ life' = [life EXCEPT ![c] = "backlog"]
    /\ UNCHANGED <<peer, inbound>>

PeerSends(c) ==
    /\ life[c] \in {"backlog", "alive"}
    /\ peer[c] = "open" /\ c \notin inbound
    /\ inbound' = inbound \cup {c}
    /\ UNCHANGED <<life, peer>>

\* The client closes its end or resets the connection.  (A send on a reset
\* connection can raise SIGPIPE and end the process, and the behaviour with it.)
PeerLeaves(c) ==
    /\ life[c] \in {"backlog", "alive"}
    /\ peer[c] = "open"
    /\ \E how \in {"closed", "reset"} : peer' = [peer EXCEPT ![c] = how]
    /\ UNCHANGED <<life, inbound>>

Client(c) ==
    /\ Connect(c) \/ PeerSends(c) \/ PeerLeaves(c)
    /\ UNCHANGED <<connVars, pollVars, serverVars, queueVars, stepVars>>

-----------------------------------------------------------------------------
(* A connection's channel and its loop's Epoller.                          *)

\* What Update and Remove see of connection c's channel on loop l and fd f.
Slot(c, l, f) == [event_ |-> event_[c], state_ |-> chState[c],
                  channelmap_ |-> channelmap_[l][f],
                  registered |-> registered[l][f]]

SetSlot(c, l, f, slot) ==
    /\ event_' = [event_ EXCEPT ![c] = slot.event_]
    /\ chState' = [chState EXCEPT ![c] = slot.state_]
    /\ channelmap_' = [channelmap_ EXCEPT ![l][f] = slot.channelmap_]
    /\ registered' = [registered EXCEPT ![l][f] = slot.registered]

MySlot(c) == Slot(c, loop_[c], connfd_[c])

SetEvents(c, events) ==
    SetSlot(c, loop_[c], connfd_[c], E!Update(MySlot(c), c, events))

\* EventLoop::QueueOneFunc.
QueueOneFunc(l, functor) ==
    to_do_list_' = [to_do_list_ EXCEPT ![l] = Append(@, functor)]

-----------------------------------------------------------------------------
(* epoll_wait.                                                             *)

InputReady(c) == c \in inbound \/ peer[c] # "open"

\* The events the kernel reports on loop l when the sockets in writable have
\* room: level-triggered, masked by the registered interest.
Reported(l, writable) ==
    {[ptr |-> registered[l][f].ptr,
      revents |-> {ev \in registered[l][f].events :
                      \/ ev = "EPOLLIN" /\ InputReady(registered[l][f].ptr)
                      \/ ev = "EPOLLOUT" /\ registered[l][f].ptr \in writable}]
        : f \in {g \in Fds : registered[l][g] # E!NotRegistered}}
    \cup (IF l = Base /\ \E c \in Conns : life[c] = "backlog"
          THEN {[ptr |-> Acceptor, revents |-> {"EPOLLIN"}]} ELSE {})
    \cup (IF l = Base /\ timers # {}
          THEN {[ptr |-> TimerQueue, revents |-> {"EPOLLIN"}]} ELSE {})

\* epoll_wait returns for a ready channel, or for the eventfd that every
\* QueueOneFunc by another thread or by a functor has written.
EpollWait(l) ==
    /\ pc[l] = "wait"
    /\ \E writable \in SUBSET {c \in Conns : loop_[c] = l /\ "EPOLLOUT" \in event_[c]} :
          LET events == {e \in Reported(l, writable) : e.revents # {}} IN
          /\ events # {} \/ to_do_list_[l] # <<>>
          /\ ActiveChannel_' = [ActiveChannel_ EXCEPT ![l] = events]
    /\ pc' = [pc EXCEPT ![l] = "dispatch"]
    /\ UNCHANGED <<remoteVars, connVars, pollVars, serverVars, queueVars, writing>>

\* Loop() calls the next channel's HandleEvent: event e of loop l.
Dispatch(l, e) ==
    /\ pc[l] = "dispatch" /\ writing[l] = NoChannel
    /\ e \in ActiveChannel_[l]
    /\ ActiveChannel_' = [ActiveChannel_ EXCEPT ![l] = @ \ {e}]
    /\ UNCHANGED pc

-----------------------------------------------------------------------------
(* The base loop: Acceptor, TcpServer, the idle timers.                    *)

AcceptReady == [ptr |-> Acceptor, revents |-> {"EPOLLIN"}]
TimerReady  == [ptr |-> TimerQueue, revents |-> {"EPOLLIN"}]

\* Wrong variant: next_ is not brought back to 0.
NextAfterUnwrapped(n) == n + 1

NextAfter(n) == (n + 1) % Len(loops_)

\* Wrong variant: the fd is closed as soon as the connection is disconnected.
FdFreeEarly(f) ==
    \A c \in Conns : life[c] = "alive" /\ chState[c] # "kDeleted" => connfd_[c] # f

\* An fd number is the kernel's to give out until a TcpConnection owns it,
\* and again once that TcpConnection's destructor has closed it.
FdFree(f) == \A c \in Conns : life[c] = "alive" => connfd_[c] # f

\* Acceptor::NewConn and TcpServer::HandleNewConn: fd f for client c, whose
\* TcpConnection goes to the next loop, which is told to establish it.
HandleNewConn(c, f) ==
    /\ Dispatch(Base, AcceptReady)
    /\ life[c] = "backlog"
    /\ FdFree(f)
    /\ LET l == IF loops_ = <<>> THEN Base ELSE loops_[next_ + 1] IN
       /\ life' = [life EXCEPT ![c] = "alive"]
       /\ connfd_' = [connfd_ EXCEPT ![c] = f]
       /\ loop_' = [loop_ EXCEPT ![c] = l]
       /\ connections_' = [connections_ EXCEPT ![f] = c]
       /\ next_' = IF loops_ = <<>> THEN next_ ELSE NextAfter(next_)
       /\ IF l = Base                   \* RunOneFunc in the loop's own thread
          THEN /\ state_' = [state_ EXCEPT ![c] = "kConnected"]
               /\ SetSlot(c, l, f, E!Update(Slot(c, l, f), c, {"EPOLLIN"}))
               /\ timers' = IF AutoClose THEN timers \cup {c} ELSE timers
               /\ UNCHANGED to_do_list_
          ELSE /\ QueueOneFunc(l, Functor("ConnectionEstablished", c))
               /\ UNCHANGED <<state_, pollVars, timers>>
    /\ UNCHANGED <<peer, inbound, loops_, funclists, ran, writing>>

\* accept4 fails with EMFILE and the client is accepted on idlefd_ and closed,
\* or a setsockopt fails and the new fd is closed.
RefuseConn(c) ==
    /\ Dispatch(Base, AcceptReady)
    /\ life[c] = "backlog"
    /\ life' = [life EXCEPT ![c] = "refused"]
    /\ UNCHANGED <<peer, inbound, connVars, pollVars, serverVars,
                   queueVars, writing>>

\* TimerQueue runs HandleIdleConnection for every expired timer; in idle are
\* the connections that have been inactive.  A connection that is gone is
\* left alone (weak_ptr), one that lives is Shutdown from this thread.
HandleIdleConnections(expired, idle) ==
    /\ Dispatch(Base, TimerReady)
    /\ timers' = timers \ expired
    /\ state_' = [c \in Conns |-> IF c \in idle /\ life[c] = "alive"
                                  THEN "kDisconnecting" ELSE state_[c]]
    /\ UNCHANGED <<remoteVars, connfd_, loop_, pollVars, connections_, loops_, next_,
                   queueVars, writing>>

-----------------------------------------------------------------------------
(* TcpConnection's handlers, in its loop's thread.                         *)

\* Wrong variant: the channel stays enabled.
DisableAllForgotten(c) == UNCHANGED pollVars

DisableAll(c) == SetEvents(c, {})

\* TcpConnection::HandleClose, and TcpServer::HandleClose that it calls.
HandleClose(c) ==
    /\ state_' = [state_ EXCEPT ![c] = "kDisconnected"]
    /\ DisableAll(c)
    /\ QueueOneFunc(Base, Functor("HandleCloseInLoop", c))

\* HttpServer::MessageCallback as seen from here: a connection being shut
\* down ignores the data; else the request is incomplete, or it is answered,
\* the answer goes out whole or waits for room, and the connection may be
\* shut down after it.
MessageCallback(c) ==
    \/ UNCHANGED <<state_, pollVars>>
    \/ /\ state_[c] # "kDisconnecting"
       /\ \/ UNCHANGED pollVars
          \/ "EPOLLOUT" \notin event_[c] /\ SetEvents(c, event_[c] \cup {"EPOLLOUT"})
       /\ \/ UNCHANGED state_
          \/ state_' = [state_ EXCEPT ![c] = "kDisconnecting"]

\* readv fails: the error of a reset connection is reported once (unless a
\* send has had it), then the connection reads as closed.
ReadFails(c) ==
    /\ peer[c] = "reset"
    /\ peer' = [peer EXCEPT ![c] = "closed"]
    /\ UNCHANGED <<state_, pollVars, to_do_list_>>

\* The read half of HandleEvent on a connection's socket.
HandleMessage(l, e) ==
    /\ Dispatch(l, e)
    /\ e.ptr \in Conns /\ "EPOLLIN" \in e.revents
    /\ inbound' = inbound \ {e.ptr}
    /\ IF e.ptr \in inbound
       THEN MessageCallback(e.ptr) /\ UNCHANGED <<peer, to_do_list_>>
       ELSE \/ ReadFails(e.ptr)
            \/ HandleClose(e.ptr) /\ UNCHANGED peer
    /\ writing' = [writing EXCEPT ![l] = IF "EPOLLOUT" \in e.revents
                                         THEN e.ptr ELSE NoChannel]
    /\ UNCHANGED <<life, connfd_, loop_, serverVars, funclists, ran>>

\* An event without EPOLLIN goes straight to the write half.
SkipRead(l, e) ==
    /\ Dispatch(l, e)
    /\ e.ptr \in Conns /\ "EPOLLIN" \notin e.revents
    /\ writing' = [writing EXCEPT ![l] = e.ptr]
    /\ UNCHANGED <<remoteVars, connVars, pollVars, serverVars, queueVars>>

\* Wrong variant: IsWriting is not tested again in the write half.
IsWritingUntested(c) == TRUE

IsWriting(c) == "EPOLLOUT" \in event_[c]

\* The write half: it acts on revent_ as epoll_wait left it, so the read half
\* may have closed the connection.  The output either drains, which ends the
\* write interest, or it does not.
HandleWrite(l) ==
    /\ writing[l] # NoChannel
    /\ writing' = [writing EXCEPT ![l] = NoChannel]
    /\ \/ UNCHANGED pollVars
       \/ /\ IsWriting(writing[l])
          /\ SetEvents(writing[l], event_[writing[l]] \ {"EPOLLOUT"})
    /\ UNCHANGED <<remoteVars, connVars, serverVars, queueVars, pc, ActiveChannel_>>

-----------------------------------------------------------------------------
(* DoToDoList.                                                             *)

SwapToDoList(l) ==
    /\ pc[l] = "dispatch" /\ writing[l] = NoChannel /\ ActiveChannel_[l] = {}
    /\ pc' = [pc EXCEPT ![l] = "functors"]
    /\ funclists' = [funclists EXCEPT ![l] = to_do_list_[l]]
    /\ to_do_list_' = [to_do_list_ EXCEPT ![l] = <<>>]
    /\ ran' = [ran EXCEPT ![l] = 0]
    /\ UNCHANGED <<remoteVars, connVars, pollVars, serverVars, ActiveChannel_, writing>>

\* Loop l calls its next functor: func(c).
RunFunctor(l, func, c) ==
    /\ pc[l] = "functors"
    /\ ran[l] < Len(funclists[l])
    /\ funclists[l][ran[l] + 1] = Functor(func, c)
    /\ ran' = [ran EXCEPT ![l] = @ + 1]
    /\ UNCHANGED <<remoteVars, connfd_, loop_, loops_, next_, funclists, stepVars>>

\* TcpConnection::ConnectionEstablished and HttpServer::ConnectionCallback.
ConnectionEstablished(l, c) ==
    /\ RunFunctor(l, "ConnectionEstablished", c)
    /\ state_' = [state_ EXCEPT ![c] = "kConnected"]
    /\ SetEvents(c, event_[c] \cup {"EPOLLIN"})
    /\ timers' = IF AutoClose THEN timers \cup {c} ELSE timers
    /\ UNCHANGED <<connections_, to_do_list_>>

\* Wrong variant: connections_ keeps its shared_ptr.
EraseForgotten(c) == connections_

Erase(c) == [connections_ EXCEPT ![connfd_[c]] = NoChannel]

\* TcpServer::HandleCloseInLoop.
HandleCloseInLoop(l, c) ==
    /\ RunFunctor(l, "HandleCloseInLoop", c)
    /\ connections_' = Erase(c)
    /\ QueueOneFunc(loop_[c], Functor("ConnectionDestructor", c))
    /\ UNCHANGED <<state_, pollVars, timers>>

\* Wrong variant: the channel stays in the Epoller.
RemoveForgotten(slot, c) == slot

Remove(slot, c) == E!Remove(slot, c)

\* TcpConnection::ConnectionDestructor.  A connection that an idle timer shut
\* down after its HandleClose is kDisconnecting with a kDeleted channel, and
\* DisableAll then ADDs it to epoll, with no events, for Remove to take out.
ConnectionDestructor(l, c) ==
    /\ RunFunctor(l, "ConnectionDestructor", c)
    /\ LET slot == IF state_[c] \in {"kDisconnecting", "kConnected"}
                   THEN E!Update(MySlot(c), c, {}) ELSE MySlot(c)
       IN SetSlot(c, loop_[c], connfd_[c], Remove(slot, c))
    /\ state_' = [state_ EXCEPT ![c] = "kDisconnected"]
    /\ UNCHANGED <<timers, connections_, to_do_list_>>

\* The connections some shared_ptr still points to, when DoToDoList's vectors
\* are lists.
Referenced(lists) ==
    Range(connections_)
    \cup {fn.conn : fn \in UNION {Range(to_do_list_[l]) : l \in Loops}}
    \cup {fn.conn : fn \in UNION {Range(lists[l]) : l \in Loops}}

\* DoToDoList returns and its vector lets go of the shared_ptrs it holds: the
\* connections nothing else refers to are destroyed in this thread, and
\* closing a socket also takes it out of the kernel's epoll sets.
EndDoToDoList(l) ==
    /\ pc[l] = "functors"
    /\ ran[l] = Len(funclists[l])
    /\ pc' = [pc EXCEPT ![l] = "wait"]
    /\ funclists' = [funclists EXCEPT ![l] = <<>>]
    /\ ran' = [ran EXCEPT ![l] = 0]
    /\ LET dead == {c \in Conns : life[c] = "alive" /\ c \notin Referenced(funclists')} IN
       /\ life' = [c \in Conns |-> IF c \in dead THEN "destroyed" ELSE life[c]]
       /\ registered' = [k \in Loops |-> [f \in Fds |->
              IF \E c \in dead : connfd_[c] = f THEN E!NotRegistered
              ELSE registered[k][f]]]
    /\ UNCHANGED <<peer, inbound, connVars, event_, chState, channelmap_,
                   serverVars, to_do_list_, ActiveChannel_, writing>>

-----------------------------------------------------------------------------

Thread(l) ==
    \/ EpollWait(l)
    \/ \E e \in ActiveChannel_[l] : HandleMessage(l, e) \/ SkipRead(l, e)
    \/ HandleWrite(l)
    \/ SwapToDoList(l)
    \/ \E c \in Conns : \/ ConnectionEstablished(l, c)
                        \/ HandleCloseInLoop(l, c)
                        \/ ConnectionDestructor(l, c)
    \/ EndDoToDoList(l)

BaseThread ==
    \/ Thread(Base)
    \/ \E c \in Conns : RefuseConn(c) \/ \E f \in Fds : HandleNewConn(c, f)
    \/ \E expired \in SUBSET timers : \E idle \in SUBSET expired :
          HandleIdleConnections(expired, idle)

Next ==
    \/ BaseThread
    \/ \E l \in IoLoops : Thread(l)
    \/ \E c \in Conns : Client(c)

\* The loop threads keep running and epoll_wait returns when it can; nothing
\* is assumed of the clients.
Fairness ==
    /\ WF_vars(BaseThread)
    /\ \A l \in IoLoops : WF_vars(Thread(l))

SafeSpec == Init /\ [][Next]_vars

Spec == SafeSpec /\ Fairness

-----------------------------------------------------------------------------
(* Properties.                                                             *)

Alive(c) == c \in Conns /\ life[c] = "alive"

\* The shape of the state.
TypeOK ==
    /\ life \in [Conns -> {"remote", "backlog", "refused", "alive", "destroyed"}]
    /\ peer \in [Conns -> {"open", "closed", "reset"}]
    /\ inbound \subseteq Conns /\ timers \subseteq Conns
    /\ connfd_ \in [Conns -> Fds \cup {NoChannel}]
    /\ loop_ \in [Conns -> Loops \cup {NoChannel}]
    /\ state_ \in [Conns -> {"kConnected", "kDisconnected", "kDisconnecting"}]
    /\ event_ \in [Conns -> Events]
    /\ chState \in [Conns -> {"kNew", "kAdded", "kDeleted"}]
    /\ connections_ \in [Fds -> Conns \cup {NoChannel}]
    /\ loops_ \in Pools /\ next_ \in Nat
    /\ loops_ # <<>> => next_ < Len(loops_)
    /\ channelmap_ \in [Loops -> [Fds -> Conns \cup {NoChannel}]]
    /\ registered \in [Loops -> [Fds -> [ptr : Conns \cup {NoChannel}, events : Events]]]
    /\ pc \in [Loops -> {"wait", "dispatch", "functors"}]
    /\ ActiveChannel_ \in
          [Loops -> SUBSET [ptr : Conns \cup {Acceptor, TimerQueue}, revents : Events]]
    /\ writing \in [Loops -> Conns \cup {NoChannel}]
    /\ to_do_list_ \in [Loops -> Seq(Functors)]
    /\ funclists \in [Loops -> Seq(Functors)]
    /\ ran \in [Loops -> Nat] /\ \A l \in Loops : ran[l] <= Len(funclists[l])

\* No loop ever calls into a destroyed connection: the Channel* that
\* epoll_wait has returned and HandleEvent is yet to be called on, those the
\* kernel and channelmap_ hold for later, and the this pointer of a write
\* half still to come all belong to a live TcpConnection.
NoDanglingChannel ==
    \A l \in Loops :
        /\ \A e \in ActiveChannel_[l] : e.ptr \in Conns => Alive(e.ptr)
        /\ writing[l] # NoChannel => Alive(writing[l])
        /\ \A f \in Fds :
              /\ registered[l][f].ptr # NoChannel => Alive(registered[l][f].ptr)
              /\ channelmap_[l][f] # NoChannel => Alive(channelmap_[l][f])

\* The assertions of Epoller::Update (epoller.cc:39, 43, 44, 50, 51): under
\* a live connection's fd its loop's map holds nothing, not even a channel of
\* an earlier connection with that fd, until the channel is added, and that
\* very channel until it is removed.  And though the result of epoll_ctl is
\* never looked at (epoller.cc:68), the kernel's interest in the connection is
\* what its Channel believes.
EpollerMatches ==
    \A c \in Conns : Alive(c) =>
        /\ channelmap_[loop_[c]][connfd_[c]] =
              IF chState[c] = "kNew" THEN NoChannel ELSE c
        /\ registered[loop_[c]][connfd_[c]] =
              IF chState[c] = "kAdded" THEN [ptr |-> c, events |-> event_[c]]
              ELSE E!NotRegistered

\* The functors of c, of kind func, queued on any loop and not run yet.
Pending(func, c) ==
    \E l \in Loops :
        \/ Functor(func, c) \in Range(to_do_list_[l])
        \/ \E i \in ran[l] + 1 .. Len(funclists[l]) : funclists[l][i] = Functor(func, c)

\* The assertions of the two queued steps of a close.  When the base loop comes
\* to close c (tcpserver.cc:33), connections_ still holds c under c's fd, so
\* nothing else is erased; when c's own loop comes to remove its channel
\* (epoller.cc:74), it has been added.
CloseFindsEntry ==
    \A c \in Conns :
        /\ Pending("HandleCloseInLoop", c) => connections_[connfd_[c]] = c
        /\ Pending("ConnectionDestructor", c) => chState[c] # "kNew"

\* A connection whose close is on its way through the queues is out of the
\* kernel's set: nothing enables its channel again, not even the write half
\* of the HandleEvent that closed it, whose revent_ is stale.  (A registered
\* socket that has hung up would be reported for ever, whatever its events.)
ClosedIsQuiet ==
    \A c \in Conns :
        Pending("HandleCloseInLoop", c) \/ Pending("ConnectionDestructor", c) =>
            registered[loop_[c]][connfd_[c]] = E!NotRegistered

\* connections_[connfd] = ptr (tcpserver.cc:44) never overwrites the
\* shared_ptr of another connection: an fd is not reused before the entry of
\* the connection that had it is gone.
ConnectionsNotOverwritten ==
    [][\A f \in Fds : connections_[f] = NoChannel \/ connections_'[f] \in
                          {connections_[f], NoChannel}]_connections_

\* No connection leaks: once the peer of a connection has left, the
\* connection is destroyed and its fd given back, through both threads'
\* queues and whatever the idle timer does.
PeerCloseReleases ==
    \A c \in Conns : (Alive(c) /\ peer[c] # "open") ~> life[c] = "destroyed"
=============================================================================
