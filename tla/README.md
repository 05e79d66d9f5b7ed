# A verification of LZG_WebServer

TLA+ modules, TLC configurations and TLAPS proofs for LZG_WebServer, a
multi-reactor HTTP server in C++11 (`src/`, namespace `my_muduo`).  Every
definition is translated from the source; `PROJECT.json` maps it to its lines.

    tlc -config MCTcpServer.cfg MCTcpServer      # one run
    tlapm EventLoopProofs.tla                    # the proofs of one module

## 1. The system

`main.cc` builds one `AsyncLogging`, one base `EventLoop`, an `HttpServer` on it
and four I/O loops, each in a thread of its own, and then runs the base loop for
ever.  Nothing is persisted but the log file; all the difficulty is in the threads,
the sockets and the order of callbacks.

| Part | State | Operations | Talks to |
|---|---|---|---|
| `EventLoop` | `to_do_list_` (under `mutex_`), `calling_functors_`, `wakeup_fd_`, `ActiveChannel_` | `Loop`, `HandleRead`, `QueueOneFunc`, `RunOneFunc`, `DoToDoList` | any thread queues functors into it |
| `Epoller` | kernel epoll set, `channelmap_` keyed by fd | `FillActiveChannels`, `Update`, `Remove` | hands `Channel*` back to the loop |
| `Channel` | `event_`, `revent_`, `ChannelState` | `Enable*`, `Disable*`, `HandleEvent` (read half, then write half) | one per fd, owned by its `TcpConnection` |
| `Acceptor` | listening socket, `idlefd_` | `NewConn` | calls `TcpServer::HandleNewConn` |
| `TcpServer` | `connections_` (fd to `shared_ptr`) | `HandleNewConn`, `HandleClose`, `HandleCloseInLoop` | base loop only, queues to I/O loops |
| `EventLoopThreadPool`, `EventLoopThread`, `Thread`, `Latch` | `loops_`, `next_`, start latches | `StartLoop`, `NextLoop` | start-up handshake |
| `TcpConnection` | `state_`, `input_buffer_`, `output_buffer_`, fd | `ConnectionEstablished`, `HandleMessage`, `HandleWrite`, `HandleClose`, `Send`, `Shutdown`, `ConnectionDestructor` | lives on one I/O loop, kept alive by `shared_ptr`s in `connections_` and in queued functors |
| `HttpServer` | `auto_close_idleconnection_` | `ConnectionCallback`, `MessageCallback`, `HandleIdleConnection` | the last one from the base thread on a connection of another |
| `HttpContent`, `HttpRequest` | parse state of one connection | `ParseContent` | reads `input_buffer_` line by line |
| `HttpResponse` | status, body, `close_connection_` | setters, `AppendToBuffer` | filled in by `main`'s callback |
| `Buffer` | vector, `read_index_`, `write_index_` | `MakeEnough`, `Append`, `Retrieve*`, `ReadFd` | |
| `TimerQueue`, `Timer` | ordered set of timers, one timerfd | `AddTimer`, `HandleRead`, `ResetTimers` | runs callbacks in the base loop |
| `AsyncLogging`, `LogFile` | `current_`, `next_`, `buffers_to_write_` (under `mutex_`), the log thread's spares | `Append`, `ThreadFunc`, `Write` | every thread logs; a new `LogFile` takes an fd |
| `Logger`, `LogStream` | a 4096-byte line buffer | `FormattedTime`, `<<`, `Finish` | `g_Output`, which `main` sets to `AsyncLogging::Append` |

What makes each correct, and what is hard about it:

* **EventLoop**: a queued functor runs once, in order, and soon; the push and the
  decision to wake the loop are not atomic, and functors queue functors.
* **Epoller, Channel, TcpServer, TcpConnection (lifetime)**: a connection closes
  through three functors queued over two threads, while the kernel reuses fd
  numbers and epoll holds raw `Channel*`; both maps are keyed by fd.
* **TcpConnection (output)**: a response leaves by a direct `send` or by
  `HandleWrite`; `Shutdown` must wait for the rest, and the idle timer calls it
  from another thread without a lock.
* **Logger, AsyncLogging**: a line is cut to a fixed buffer; lines are kept in order
  through a swap of buffers whose recycling has a slip.
* **Acceptor**: a full fd table, met with a reserve fd in four system calls that other
  threads' opens and closes come between.
* **Buffer, HttpContent, TimerQueue, start-up**: index arithmetic, resumption at
  any cut of the stream, re-arming of one timerfd for many timers, a condition
  variable that may be signalled before it is waited on.

All hazards, at their lines, are in `PROJECT.json` under `hazards`, those that no
property covers yet with the reason.

## 2. The modules

| Module | Models | Abstracts |
|---|---|---|
| `TaskQueue` | what an `EventLoop` promises: a FIFO of tasks | |
| `EventLoop` | one loop, its eventfd, its queue, the threads that use it | what callbacks do |
| `EventLoopProofs` | the proofs about `EventLoop` | |
| `Epoller` | `Update`, `UpdateChannel`, `Remove` on the four cells they touch, with `epoll_ctl`'s refusals | |
| `TcpServer`, `TcpServerProofs` | the life of connections over a base loop and any number of I/O loops; the proofs about it | bytes; `Send` is its effect on the write interest |
| `ByteStream` | what a connection promises its handler | |
| `TcpConnection`, `TcpConnectionProofs` | the output path of one connection, and the idle timer with time and its race with it; the proofs about them | parsing; the text of responses |
| `LogSink` | what the log promises | |
| `AsyncLogging` | the log's double buffering | the text of lines |
| `LogStream` | the line one `Logger` makes in its fixed buffer | characters: a piece is a text or an integer with a length |
| `Logger`, `LoggerProofs` | the log from a LOG_* statement to the file: `LogStream` and `AsyncLogging` together; the proofs about the three | |
| `Acceptor` | the process's fds around `NewConn` when they run out | sockets but for their fds |
| `ByteQueue` | what a `Buffer` promises | |
| `Buffer`, `BufferProofs` | a vector of chars and its two indexes; the proofs about them | |
| `HttpService` | the answers to the requests as they lie in the stream | |
| `HttpServer`, `HttpServerProofs` | from the bytes that arrive to the answers given to `Send`: parser, `MessageCallback`, `DealWithRequest`, `main`'s callback, `HttpResponse`; the proofs about them | characters: a line is a text known by its words and its colon |
| `TimerQueue`, `TimerQueueProofs` | the timers of a loop, their timerfd and both clocks; the proofs about them | callbacks, but for the timers they add |
| `ThreadStart` | `TcpServer::Start`: `Latch`, `Thread`, `EventLoopThread`, `EventLoopThreadPool` | what the loops then do |
| `BaseThreadProofs` | the proofs about `ThreadStart` and `Acceptor`, the base thread's work before and while it serves | |
| `MC*` | the values of the constants for TLC | |

`TcpServer` instantiates `Epoller`; `Logger` composes `AsyncLogging` and `LogStream`.  `EventLoop` implements `TaskQueue`,
`TcpConnection` implements `ByteStream`, `AsyncLogging` implements `LogSink`, `Buffer`
implements `ByteQueue` and `HttpServer` implements `HttpService`, each
by `INSTANCE ... WITH` a refinement mapping (in `HttpServer` the service's variables are
those of the same names) that is checked as a property.  In
`TcpServer` each loop's queue is used as `TaskQueue` promises (`EpollWait` returns
when the queue is not empty); that it may be is what `EventLoop` shows.  `Acceptor` opens up
what `TcpServer` calls `RefuseConn`; `TcpConnection` takes from `TimerQueue` that a
timer that has expired is run.

### EventLoop

`pc` is the place in `Loop()`: `wait` (in `epoll_wait`), `dispatch` (handlers of
`ActiveChannel_`), `functors` (`DoToDoList`).  `QueueOneFunc` is two actions:
`QueueOneFunc` (the push, under `mutex_`) and `WakeUp` (test and write, after
it); a thread between the two is in `pushed`.  The loop's own thread may be there
too, from a handler or a functor (`executing`).  `SwapToDoList` is `DoToDoList`'s
critical section with the store to `calling_functors_`, which only the loop's own
thread reads to effect.  `FillActiveChannels` returns everything ready, or any
`MaxEvents` of it.

### TcpServer

A client goes from `remote` through `backlog` to `alive` (its `TcpConnection`
exists) and `destroyed`.  `connfd_`, `loop_`, `state_`, `event_`, `chState` are
fields of the connection and its channel; `channelmap_` and `registered` (the
kernel's set) belong to the loops and are indexed by fd.  A functor is a record
naming the member function and the connection whose `shared_ptr` it holds.
`HandleMessage` and `HandleWrite` are the two halves of `HandleEvent`, and other
threads may run in between.  `EndDoToDoList` is where the vector of functors is
destroyed: connections that nothing refers to any more die there, and their fds
become free.  Idle timers expire at any time; `HandleIdleConnections` stores to
`state_` of connections that belong to other threads.  `Pools` are the values `StartLoop` may give `loops_`;
with `<<>>` (`thread_num_` is 0) the base loop owns the connections and `RunOneFunc`
establishes them in place.

### TcpConnection

One connection, the client at the other end, and the kernel's socket buffer with
`Room` bytes.  `Send` is `SendNow` (up to `send(2)`) and `KeepRest`; `Shutdown` in
the connection's thread is part of `EndOfCallback` and `Drained`; in the base
loop's thread it is `IdleStore` (to `state_`) and `IdleTest` (of `event_`), which
race with the other thread without synchronisation and so are seen in either
order.  `send` on a half-closed socket raises SIGPIPE, which nothing handles: the
process, and the behaviour, ends (`killed`).  With `auto_close`, `quiet` is the age of
`timestamp_` and `due` what is left of the one timer `ConnectionCallback` sets, both in
ticks; the timer is set after the connection was made, so `quiet` is ahead of it at first.

### AsyncLogging, LogStream, Logger

`AppendLine` is `Append`; a line that does not fit hands the full buffer over and is
itself in `lost`.  `WaitForFewSeconds` releases `mutex_` and always comes back
(`WaitEnds`): its deadline is taken from CLOCK_MONOTONIC while the condition variable
goes by CLOCK_REALTIME, so it is in the past (`base/condition.h:19-30`).  `SwapBuffers`
is the rest of the critical section, `Recycle` the two tests after the write.  The
second one assigns `newbuffer_current` where it means `newbuffer_next`
(`log/asynclogging.cc:71`), so once the spare is gone it is never replaced, and the
next round with a single buffer calls `back()` on an empty vector: undefined, and
in practice a wild pointer, so the process ends (`crashed`).

`LogStream` is one `Logger` after the other: `Begin` its constructor, `Put` one `<<` (a
text is cut to what fits, an integer is left out unless the longest one would fit),
`Output` its destructor.  A byte is known by its line and its place in what was to be
logged, so a gap shows.  `Logger` gives each line to `AppendLine` as it is.  `Bytes` is
what lines may consist of: the proofs about `AsyncLogging` take any set, those about
`Logger` any set with all bytes of the first `MaxLines` lines in it (`LinesOfBytes`); TLC's
`MCBytes` is finite and has the places that the statements of the run can reach.

### Acceptor

`table` says whose each fd is: free, the reserve, the log's or a connection's.  `NewConn`
is one action per system call once `accept4` has failed: `NewConnFull`, `CloseReserve`,
`AcceptReserve`, `Drop`, `Reopen`.  Connections end in between, in any thread
(`CloseConnection`); the log thread opens its next file before it closes the last
(`OpenLog`, `CloseLog`), and a `LogFile` that got none dies at its next `Write`
(`WriteLog`).  `close(-1)` is a failing call and changes nothing.  `newconn` is the place in
`NewConn`, `backlog` the clients not accepted yet.  The specification's own names begin with
`Acceptor`, because the proofs about it and about `ThreadStart` share a module.

### Buffer

`buf` is the object: its elements from 0, its size and its indexes.  Every operation is an
operator from a Buffer to a Buffer, in the code's order (`ReadFd` stores what fits and
appends the rest from `extrabuf`).  `Copy` drops what would fall outside the vector, so
an overrun shows as a lost byte and as an index beyond the size.  `Next` offers the
calls the server makes with the arguments it may make them with. `call`
remembers what the last call put in or how much it took out, so that `ByteQueue` holds
each call to its arguments.

### HttpServer

The stream's tokens are texts, CR and LF, and a read takes any number of them, so a cut may fall
between CR and LF.  Texts are given by what the parser's `find` and comparisons make of
them (`Words`, `Key`, `Value`, `PathOf`).  `ParseLine` is one round of `ParseContent`'s loop.
One action is one readable event: read, parse, answer.  `Rounds` is the parser after
each round of the loop, as a function, of which `ParseContent` takes the last; a round more
than there are tokens is more than the loop ever makes.  The history variable `answered`
says how much of the stream the responses are for.

`HttpService` is written from the other end and keeps no parser: each time something has
been read it looks afresh at all that is not answered yet, wherever the requests lie
in it.  A request is its first line and, up to the first later line without a colon, its
headers, of which the last `Connection` counts.  A step may send the next answer due, one at
most.  What is sent is what stands on the wire: `AppendToBuffer` gives a response its
Content-Length or, if it closes, none, and an answer without one must be the last.

`ParseRequestLine` looks for the `?` up to the end of the line and ends the query at the
second space.  If the first `?` of the path and version stands behind that space (`LateQuery`),
`query_.assign(query + 1, space)` gets a reversed range and throws `std::length_error`
(`http/httprequest.cc:60-63`); nothing up to the thread function catches it, and the process
ends.  In `ParseLine` the round `Throws`; `Terminate` sets `killed`, after which nothing
happens.  The service says when that may be (`Die`): only for a request line that begins
with a method, has its two spaces and such a `?`, and only when it is that line's turn to be answered.  A `?`
between the two spaces is a query and leaves `path_` in front of it; with two spaces and no
method the line is refused before the `?` is looked for.

`Streams` are assumed to be lines of at most one text (`HttpAssumption`): a bare CR or LF
within a line is left out.

### TimerQueue

Times are relative to now, so that time has no bound: `at` counts down on the wall
clock, `deadline` on the monotonic one.  `ClockStep` moves only the first.  `EpollWait`
and `HandleRead` are apart because a handler of the same round may add a timer and set
the timerfd in between; `Run` is one callback, which may add one too.
`MaxLate` says how long a runnable loop may be kept waiting, in ticks.

### ThreadStart

`pc` is the base thread's place in `StartLoop`; an I/O thread's place is in `thread`.  A
critical section that ends in `cond_.Wait()` or by unlocking is one action.  A notify
moves the base thread from sleep to its test only if it sleeps there; `SpuriousWakeup`
does so at any time.

## 3. The runs

| Run | Instance | What it shows |
|---|---|---|
| `event_loop` (`MCEventLoop.cfg`) | 3 tasks, 2 foreign threads, 1 I/O channel, `MaxEvents` 1 | no lost wakeup, the read of the eventfd succeeds, the eventfd is drained though the channel competes for the only slot, and the loop implements `TaskQueue` with its liveness |
| `tcp_server` (`MCTcpServer.cfg`) | 2 connections, 2 fds, 2 I/O loops, idle timers | no dangling `Channel*`, every assertion of `Epoller` and of `HandleCloseInLoop`, no overwritten `shared_ptr`, closed connections stay out of epoll, the kernel's interest is what the `Channel` believes |
| `tcp_server_reuse` (`MCTcpServerReuse.cfg`) | 2 connections, 1 fd, 2 I/O loops, 1 or none | a connection whose peer has left is destroyed in the end, so that the fd's second owner comes to it |
| `tcp_connection` (`MCTcpConnection.cfg`) | responses of 3, 1, 2 bytes, `Room` 2, with and without the idle timer | `ByteStream`, FIN after the last byte, write interest exactly while output waits, everything flushed, `Shutdown` completes, a silent connection is shut down |
| `send_drops` (`MCTcpConnectionDrop.cfg`) | no idle timer | **violated**: `Send` loses a message on EWOULDBLOCK |
| `idle_shutdown_race` (`MCTcpConnectionIdle.cfg`) | with the idle timer | **violated**: `HandleWrite`'s assertion that `send` succeeds |
| `async_logging` (`MCAsyncLogging.cfg`) | 4 lines of 3 to 5 bytes in line buffers of 5, large buffers of 7 | a line is whole unless its buffer is full, `LogSink`, every kept line written unless the process dies, and dying takes a large buffer that has run full |
| `acceptor` (`MCAcceptor.cfg`) | 3 fds, 4 clients, any number of changes of log file | the server closes no fd but its own, loses its reserve to the log only, and leaves no client in the backlog |
| `buffer` (`MCBuffer.cfg`) | every message of up to 4 bytes of 2, a vector of 4 that may grow to 8, 1 byte kept in front, `extrabuf` of 2 | `ByteQueue`, indexes inside the vector |
| `http_server` (`MCHttpServer.cfg`) | all streams of 3 requests out of 10, all cuts | `HttpService`: the cuts do not matter, requests do not mix, one answer for each read, and the process ends at a misplaced `?` only |
| `timer_queue` (`MCTimerQueue.cfg`) | one timer that runs once, two that repeat, one of them with less than a second; the wall clock set once, by 3 ticks either way | one owner for each Timer, the timerfd armed (in time, until the clock is set) whenever a timer waits, every timer runs |
| `thread_start` (`MCThreadStart.cfg`) | the 4 I/O threads of `main`, spurious wakeups | no lost signal, live loops in the pool, the server comes to serve |

**Bounds.**  Three tasks let one be in `to_do_list_`, one in `DoToDoList`'s vector and
one running; two foreign threads let two pushes overlap.  Two connections and one fd
force an fd to be reused while its former owner is being closed; two fds and two
I/O loops let the second owner be on the other loop.  The round robin gives the two
connections to different loops, so same-loop reuse is in `tcp_server_reuse`, with pools of
one I/O loop and of none.  Each client connects once and leaves
once, which bounds every run.  Responses of 3, 1 and 2 bytes over a socket of 2 give
every case of `Send`: taken whole, in part, not at all.  A connection's
idle timeout is one tick, which a request may come before, within or after.  A line
of 3 bytes fits its `LogStream`, one of 5 loses its number and keeps its newline, one of 8
loses its end; a large buffer of 7 holds one line or two, and four lines make two
rotations before a swap (three buffers are written, and one is dropped by `resize(2)`)
or one in each of two rounds.  Three fds are the reserve, the log's and one more, so
that every change of log file empties the table; four clients fill it, are turned
away, and come again after the reserve is lost and after it is won back.
A vector of 4 with messages of up to 4 has every case of `MakeEnough` (room behind, room in
all, exactly enough of either, too little) and of `ReadFd` (within the vector, to its end,
beyond it), and growing to 8 lets each happen again after a resize.  Three requests
put one behind another that is still waiting and one that comes too late to matter.  A second
is 2 ticks, so that an interval may be less than a second; expirations more than 6 ticks
(`Overdue`) in the past are not told apart; steps of 3 ticks are longer than the shorter interval and
shorter than the longer one.
`MCTcpServer.cfg` uses symmetry in clients and fds; it has no liveness property.
Deadlock is not checked: clients and tasks are finite in number, so the
system rightly comes to rest.

**Fairness.**  Loop threads and the log thread are weakly fair: they are ordinary
threads whose blocking calls return when they can.  In `EventLoop` the reports of the
eventfd are strongly fair, because the kernel's ready list rotates: what one
`epoll_wait` of `MAX_EVENTS` leaves out comes earlier in the next.  In `TcpConnection` the client is
weakly fair in reading, since nothing is flushed to one that never reads.  In
`Acceptor` the base loop is weakly fair, the log and the connections are not.  In
`TimerQueue` running functors is strongly fair, because every round of `Loop` comes
to them after its handlers, and time is weakly fair.  Nothing is assumed of spurious wakeups, of
clients otherwise, of threads that queue or log, or of timers.

## 4. The findings

* `Send` drops the message when the socket has no room at all
  (`util/tcpconnection.cc:116-121`), against its comment at line 96.  It takes a
  client that pipelines requests, since otherwise the socket is not full when `Send`
  finds `output_buffer_` empty.
* The idle timer's `Shutdown` in the base thread half-closes a connection between
  another thread's `send` and `EnableWrite`; the next `HandleWrite` fails, against the
  assertion at line 75.

Slips that contradict no statement of the repository are in the models, and those that are
not plain from the code in the hazards: the line lost at each rotation and the null
`newbuffer_next` of `AsyncLogging`, the request line whose late `?` ends the process,
SIGPIPE, output discarded when a client half-closes, the idle timer that is never re-armed, the
integers missing from long lines, the reserve fd that a change of log file can take, and
the null `FILE*` that it can leave.  The properties are stated around the lost line
(`LogSink` lets a line be dropped) and around that null `FILE*`.

## 5. The proofs

`EventLoopProofs` proves, for every set of tasks, threads and channels and every
`MAX_EVENTS` allowed by `EventLoopAssumption` (the loop thread is not one of the
others, the wakeup channel is not an I/O channel, `Nothing` is neither task nor
channel, `MaxEvents` is positive):

* `Invariance`: `SafeSpec => []IInv`.  `NoLostWakeup` alone is not inductive.  `IInv`
  adds that `calling_functors_` is up exactly in `functors`; that user code runs only
  in `dispatch` and `functors`, and only it can be half way through `QueueOneFunc` in
  the loop thread; `WakeupOwed`, which extends `NoLostWakeup` to every place but
  `dispatch`, whose swap is still to come; that events and batch are empty
  outside their phases; and `WakeupReadSucceeds`.
* `TypeCorrect`, `WakeupNeverLost`, `WakeupReadNeverFails`: the three invariants
  of the run `event_loop`.
* `ImplementsQueueSafety`: every step is a `Submit`, `RunNow` or `RunOldest` of
  `TaskQueue` or leaves it alone, under the mapping `waiting <- funclists \o
  to_do_list_`.  The swap is a stutter because the batch is empty then.

`BufferProofs` proves, for all messages, sizes and alphabets allowed by
`BufferAssumption`, `AlwaysWellFormed`: every operation takes a `WellFormed` Buffer to a
`WellFormed` one, one lemma for each.  `TypeCorrect` and `IndexesStayInBounds` (the
invariants of the run `buffer`) follow.  The lemma on `MakeEnough` gives the room that
`Append` needs from each of its three outcomes; `ReadFd` uses it twice over.

`BaseThreadProofs` proves about `ThreadStart`, for any number of I/O threads, `Invariance`:
`SafeSpec => []IInv`.  `NoLostSignal` needs to know how far every thread is:
`Progress` says that threads before the one being started have handed their loops over, that
those after it do not exist, and what a thread's place says of its count and `loop_`;
`Place` says what the base thread's place says of the thread it starts.
`TypeCorrect`, `SignalNeverLost` and `PoolHoldsLoops` (the invariants of the run
`thread_start`) follow.

`TimerQueueProofs` proves, for any timers, intervals and settings of the clock,
`TypeCorrect`, `AlwaysOneOwner` and `AlwaysArmed`.  `ArmedWhilePending` speaks of the
idle loop only; `IInv` extends it to the place between `epoll_wait` and `HandleRead`, where
other handlers add timers, and states it without `Earliest`.  That `Earliest` of a set of
entries exists is a lemma of its own (the integers from `-Overdue` on are well founded).

`BaseThreadProofs` proves about `Acceptor`, for any fds and clients, `AcceptorTypeCorrect`,
`AlwaysClosesItsOwn` and `ReserveKept`, from `AcceptorInvariance`.  The last one needs to know that between `CloseReserve` and `Reopen` some fd stays free, or
is the reserve's, unless the log has taken it (`RoomToReopen`); the former is what makes
closing `idlefd_` give one back.

`TcpServerProofs` proves, for any clients, fds, I/O loops and pools,
`Invariance`: `SafeSpec => []IInv`, and from it the run's invariants (`TypeCorrect`,
`NoneDangle`, `EpollersMatch`, `ClosesFindEntry`, `ClosedStaysQuiet`) and its action property
(`EntriesNotOverwritten`).  None of them is inductive, because each depends on which
functor is still to come.  `IInv` says

* who owns what (`Ownership`, `NoStrangers`): a live connection has an fd that no other
  live one has, and whatever an `Epoller` or `connections_` holds under an fd is its
  live owner's; `EpollerMatches` and `Channels` tie that slot to the `Channel`'s own
  fields;
* what a loop may have in hand (`Handlers`, `Places`): an event not handled yet belongs to
  a connection still open, and the write half that is pending to one that
  `ConnectionDestructor` has not been called on;
* how far a connection has come (`FunctorsDue`): a waiting functor is `Due`, that is,
  `ConnectionEstablished` only before the channel is added, `HandleCloseInLoop` only between
  `DisableAll` and the `erase`, `ConnectionDestructor` only after it; and a connection that
  `connections_` has let go of has its `ConnectionDestructor` waiting until it has had it;
* that no functor waits twice (`NoRepeat`), without which the second run of one would
  find its connection further on than `Due` says.

The `shared_ptr` in the functor is what makes `Due` claim that its connection is live;
`EndDoToDoList` destroys only connections that no functor, no `connections_` entry and
no handler names, and so keeps all of it.  The lemmas `SetSlotBecomes` to `RemoveDeleted`
state what `Epoller`'s operations do to one slot when their assertions hold, `QueueGrows` and
`FunctorLeaves` what a push and a run do to what waits; each action is then a lemma of its own.

`TcpConnectionProofs` proves, for responses and socket buffers of any size, `FinComesLast`,
`InterestAlwaysMatches` and `StreamImplemented`, the refinement of `ByteStream`.  `IInv` adds
that a channel once disabled is past the read half for good (`ClosedRests`), that
without `auto_close` only the connection's own thread ends the stream, having said so in
`state_` (`EndsItself`), and what the places between `send(2)` and the rest of
`Send` or `HandleWrite` hold (`InHand`).  In the refinement the bytes accepted are those
received, in the socket, in `output_buffer_` and about to be kept by `Send`, one behind the
other, so that `KeepRest` and `HandleWrite` are stutters: `SendSplits` and `SplitAt` say that
what is taken and what is left are together what there was.

`BufferProofs` goes on to `QueueImplemented`, the refinement of `ByteQueue`: the readable
part (`Holding`) is kept by `MakeEnough` in each of its outcomes, also when it moves the
bytes to the front over themselves, grows by what `Append`, or `ReadFd` with its two
places to read to, was given, and shrinks from the front by what is retrieved.

`LoggerProofs` is about the log from end to end.  Its first part is about `FlattenSeq`, which
the library defines by recursion on the list: that it exists, takes `\o` to `\o` and
leaves out empty lists follows from there being a shortest counterexample (`LeastNat`).
Then, for any capacity and lines, `TypeCorrect`, `BuffersCorrect`, by which `Append` never
dereferences a pointer that has been moved from, and `CrashNeedsFullBuffer`; `AsyncInv` adds
that `newbuffer_current` is there until the swap, that there are buffers to recycle after it,
and that a missing `next_`, too, has cost a line.  For any statements and any buffer size, nothing is
written past the `LogStream`'s buffer (`StaysInBuffer`) and a line is whole or its buffer full
(`LinesWholeOrFull`).  For both together (`LoggerInvariance`), `LoggedWholeOrFull` and
`SinkImplemented`, the refinement of `LogSink`.  What that needs beyond the parts'
invariants is `SparesEmpty`, that a buffer put back into use is empty, so that nothing
old is written again, and `LinesInv`'s account of which statements the bytes handed over come
from: a line just made has none in common with them, so a line that is lost can be
told from those that are kept.

`HttpServerProofs` proves, for any streams allowed by `HttpAssumption`, any texts (those at
which the parser throws included) and pages and any cuts, `TypeCorrect` and
`ServiceImplemented`, the refinement of `HttpService`.  What has to be shown is that a parser
resumed at every cut, with what it remembers in `parse_state_` and `request_`, finds the
requests that one sees who looks at the whole stream.

* A place in the stream is a `Boundary` if it is where the last answer ends or behind the
  CR LF of a line after that.  `Tracks` says what the parser knows at one: at
  the request line nothing has been taken and the request is new; among headers the first
  line is a request, no line taken since is without a colon, and method, path, version and
  `headers_` are what the service reads in those lines (of the headers, what
  `GetHeader("Connection")` yields is the service's `Asked`); at the end the line just taken
  is the first without a colon, or the first line was no request.
* `ParseLineTracks` keeps `Tracks` over one round of the loop, to the next boundary, by
  `NextLine` and `NextText` (what `FindCRLF` finds in `input_buffer_` is the next line
  end of the stream, and its text the line's).  `ParseTracks` carries it over the loop, which
  is over after `MaxRounds` because every round but the last takes a line.  That the function
  in `Rounds` exists (`RoundsExist`), and that a property every round keeps is kept by all of
  them, follows from there being a shortest counterexample (`LeastNat`).
* `SameLines`, `SameRequest` and `TracksMore`: more of the stream changes no line before a
  boundary, nor where a request that is complete ends or what its answer is, so what
  the parser knew before a read is still true after it.
* `GotRequestIs`, `GotNoneIs`, `GotNothingIs` and `GotFatalIs`: the four outcomes of
  `MessageCallback` are the service's (`Complete` and its `Answer`, `Complete` and its refusal,
  not `Complete`, `Complete` and `Fatal`).

`IInv` is then: `input_buffer_` is the rest of what was received; a connection is
`kDisconnecting` exactly if its last answer has no length; and until it is, the parser
`Tracks` the stream and has left no complete line behind among headers, unless the process
has ended (`Killed`).  `Invariance` and the
refinement come from one lemma, `StepInv`, with one for the reads that are ignored
(`IgnoreStep`) and one for those that are parsed (`ParseStep`).

With these, every invariant and every action property that a run checks is proved, and every
refinement but for the fairness of `TaskQueue`.

Only model-checked: all liveness, since TLAPS does not reason about fairness or ENABLED here.
That is `WakeupDrained` and the fairness in `ImplementsTaskQueue` (`event_loop`),
`PeerCloseReleases` (`tcp_server_reuse`), `OutputFlushed`, `ShutdownCompletes` and
`SilentIsShutDown` (`tcp_connection`), `KeptIsWritten` (`async_logging`), `BacklogAccepted`
(`acceptor`), `EveryTimerRuns` (`timer_queue`) and `StartCompletes` (`thread_start`).

## 6. Not modelled

Destructors of `EventLoop`, `TcpServer`, `TimerQueue`, `Acceptor` and
`AsyncLogging::Stop`: `main` never returns from `Loop()`.  Texts of responses,
pages, log lines and addresses.  What stdio does with what it has been given
(`LogFile::Flush`), and a disk that fills up.  `Address`, `NonCopyAble` and the callback
types have no state of their own.  Socket options (`SetSockoptTcpNoDelay` sets
SO_KEEPALIVE's number at level IPPROTO_TCP, which changes no control).  A client's
RST and the failing `read` and `send` that it brings about.  Failure of
`epoll_wait`, `timerfd_*`, `pthread_*` and of allocation, which the code does not handle.
The assertions are compiled out of the default Release build (`-DNDEBUG`); the
invariants that state them say that they would hold in any build.

## 7. Plan

Every component with state of its own is modelled.  A composition of `TcpServer` with the
handshake of `ThreadStart` would add nothing: `Listen` comes after the last `TakeLoop`,
and a loop that is not in `Loop()` yet only finds its functors queued when it is.

Every safety property of the runs has its theorem; what stays with TLC is liveness.  When the
code changes, the mapped lines in `PROJECT.json` say which definitions, and so which
lemmas (mostly one for each action), are concerned.
