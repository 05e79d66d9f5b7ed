---------------------------- MODULE TcpConnection ---------------------------
(***************************************************************************)
(* The output path of one TcpConnection (src/util/tcpconnection.cc): Send, *)
(* HandleWrite and Shutdown around output_buffer_, the write interest and  *)
(* the socket, driven by HttpServer's MessageCallback and HandleEvent.     *)
(* The connection's loop thread runs all of it; when HttpServer closes     *)
(* idle connections (auto_close) the base loop's thread calls Shutdown     *)
(* too, with no lock, so each access either thread makes to the state they *)
(* share is an action of its own.                                          *)
(***************************************************************************)
EXTENDS Naturals, Sequences, Functions

CONSTANTS
    Sizes,          \* the length of the response to each request the client sends
    Room,           \* how many bytes the kernel's socket buffer holds
    AutoClose,      \* the values auto_close_idleconnection_ may have
    Timeout         \* kIdleConnectionTimeOuts, in ticks

ASSUME TcpConnectionAssumption ==
    /\ Sizes \in Seq(Nat \ {0})
    /\ Room \in Nat \ {0}
    /\ AutoClose \subseteq BOOLEAN
    /\ Timeout \in Nat

Response(m) == [i \in 1..Sizes[m] |-> <<m, i>>]

Responses == {Response(m) : m \in DOMAIN Sizes}

Bytes == UNION {Range(r) : r \in Responses}

VARIABLES
    state_, finSent,    \* shutdown(SHUT_WR) has been called
    event_,             \* the channel's interest
    output_buffer_,     \* its readable bytes
    socket,             \* bytes the kernel has taken and the client has not read
    received,           \* bytes the client has read
    asked,              \* how many requests it has sent
    clientLeft,         \* it has closed its side
    nextRequest,        \* the first request not read yet
    message,            \* Send's argument, or what is left of it
    close,              \* whether MessageCallback will call Shutdown after Send
    pc, revent_,        \* where the connection's thread is, its last epoll_wait
    auto_close,         \* HttpServer::auto_close_idleconnection_
    quiet,              \* how long ago timestamp_ is, as far as it matters
    due,                \* how long the idle timer has still to run
    idleTimer           \* what HandleIdleConnection has still to do: "check" the
                        \* timestamp, "store" state_, "test" IsWriting

endVars    == <<state_, finSent>>
outVars    == <<output_buffer_, socket, event_>>
clientVars == <<received, asked, clientLeft>>
sendVars   == <<nextRequest, message, close>>
pollVars   == <<pc, revent_>>
idleVars   == <<auto_close, quiet, due, idleTimer>>

vars == <<endVars, outVars, clientVars, sendVars, pollVars, idleVars>>

Init ==
    /\ state_ = "kConnected" /\ finSent = FALSE
    /\ event_ = {"EPOLLIN"}
    /\ output_buffer_ = <<>> /\ socket = <<>>
    /\ received = <<>> /\ asked = 0 /\ clientLeft = FALSE
    /\ nextRequest = 1 /\ message = <<>> /\ close = FALSE
    /\ pc = "poll" /\ revent_ = {}
    /\ auto_close \in AutoClose
    /\ quiet = 1                        \* the timer was set after timestamp_
    /\ due = Timeout
    /\ idleTimer = IF auto_close THEN {"check"} ELSE {}

IsWriting == "EPOLLOUT" \in event_

Free == Room - Len(socket)

Least(a, b) == IF a < b THEN a ELSE b

\* send(2) on the nonblocking socket takes what it has room for.
Taken(bytes) == SubSeq(bytes, 1, Least(Free, Len(bytes)))
Left(bytes)  == SubSeq(bytes, Least(Free, Len(bytes)) + 1, Len(bytes))

\* On a socket whose write side is shut down send raises SIGPIPE, which
\* nothing in the program handles: the process ends.
Killed ==
    /\ pc' = "killed"
    /\ UNCHANGED <<outVars, message>>

-----------------------------------------------------------------------------
(* The client and the network.                                             *)

ClientAsks ==
    /\ ~clientLeft /\ asked < Len(Sizes)
    /\ asked' = asked + 1
    /\ UNCHANGED <<endVars, outVars, received, clientLeft, sendVars, pollVars, idleVars>>

ClientReads ==
    /\ socket # <<>>
    /\ received' = Append(received, Head(socket))
    /\ socket' = Tail(socket)
    /\ UNCHANGED <<endVars, event_, output_buffer_, asked, clientLeft, sendVars,
                   pollVars, idleVars>>

ClientLeaves ==
    /\ ~clientLeft
    /\ clientLeft' = TRUE
    /\ UNCHANGED <<endVars, outVars, received, asked, sendVars, pollVars, idleVars>>

-----------------------------------------------------------------------------
(* HandleEvent: the read half.                                             *)

Request == nextRequest <= asked

\* epoll_wait: level-triggered, and masked by the interest.
EpollWait ==
    /\ pc = "poll"
    /\ revent_' = {ev \in event_ : \/ ev = "EPOLLIN" /\ (Request \/ clientLeft)
                                   \/ ev = "EPOLLOUT" /\ Free > 0}
    /\ revent_' # {}
    /\ pc' = "read"
    /\ UNCHANGED <<endVars, outVars, clientVars, sendVars, idleVars>>

SkipRead ==
    /\ pc = "read" /\ "EPOLLIN" \notin revent_
    /\ pc' = "write"
    /\ UNCHANGED <<endVars, outVars, clientVars, sendVars, revent_, idleVars>>

\* HttpServer::MessageCallback with a complete or a bad request: it is
\* answered by Send, and Shutdown follows if the response says so.  That of a
\* connection being shut down is left in input_buffer_.
MessageCallback ==
    /\ pc = "read" /\ "EPOLLIN" \in revent_ /\ Request
    /\ nextRequest' = nextRequest + 1
    /\ quiet' = IF auto_close THEN 0 ELSE quiet
    /\ \/ /\ state_ # "kDisconnecting"
          /\ message' = Response(nextRequest)
          /\ close' \in BOOLEAN
          /\ pc' = "send"
       \/ state_ = "kDisconnecting" /\ pc' = "write" /\ UNCHANGED <<message, close>>
    /\ UNCHANGED <<endVars, outVars, clientVars, revent_, auto_close, due, idleTimer>>

\* read returns 0: the connection is closed, with whatever it had to send.
HandleClose ==
    /\ pc = "read" /\ "EPOLLIN" \in revent_ /\ ~Request
    /\ state_' = "kDisconnected"
    /\ event_' = {}
    /\ pc' = "write"
    /\ UNCHANGED <<output_buffer_, socket, clientVars, finSent, revent_, sendVars,
                   idleVars>>

-----------------------------------------------------------------------------
(* Send.                                                                   *)

\* Wrong variant: what is already waiting in output_buffer_ is not looked at.
MaySendNowAlways == TRUE

\* Send writes to the socket itself only when nothing is waiting before it.
MaySendNow == ~IsWriting /\ output_buffer_ = <<>>

\* Wrong variant: send's -1 is taken for a count, which moves the rest of the
\* message back to the byte before it.
RestUnchecked(bytes) == IF Free = 0 THEN <<<<0, 0>>>> \o bytes ELSE Left(bytes)

\* What Send still has of bytes after its send(2): a socket with no room at all
\* is EWOULDBLOCK, and Send returns; the message is gone.
Rest(bytes) == IF Free = 0 THEN <<>> ELSE Left(bytes)

SendNow ==
    /\ pc = "send"
    /\ \/ ~MaySendNow /\ pc' = "keep" /\ UNCHANGED <<socket, message>>
       \/ /\ MaySendNow /\ ~finSent
          /\ socket' = socket \o Taken(message)
          /\ message' = Rest(message)
          /\ pc' = IF Free = 0 THEN "sent" ELSE "keep"
       \/ MaySendNow /\ finSent /\ Killed
    /\ UNCHANGED <<endVars, event_, output_buffer_, clientVars, nextRequest, close,
                   revent_, idleVars>>

\* Wrong variant: the write interest is not raised.
InterestWithNoRaise(rest) == event_

InterestWith(rest) == IF rest = <<>> THEN event_ ELSE event_ \cup {"EPOLLOUT"}

\* Send's remainder goes to output_buffer_, to be sent by HandleWrite.
KeepRest ==
    /\ pc = "keep"
    /\ output_buffer_' = output_buffer_ \o message
    /\ event_' = InterestWith(message)
    /\ message' = <<>>
    /\ pc' = "sent"
    /\ UNCHANGED <<endVars, socket, clientVars, nextRequest, close, revent_, idleVars>>

\* Wrong variant: the write side is shut down with output still waiting.
CanEndAlways == TRUE

\* Shutdown half-closes at once if no output is waiting; otherwise HandleWrite
\* calls it again when the output has drained.
CanEnd == ~IsWriting

\* MessageCallback returns, through Shutdown if the response closes.
EndOfCallback ==
    /\ pc = "sent"
    /\ state_' = IF close THEN "kDisconnecting" ELSE state_
    /\ finSent' = (finSent \/ (close /\ CanEnd))
    /\ close' = FALSE
    /\ pc' = "write"
    /\ UNCHANGED <<outVars, clientVars, nextRequest, message, revent_, idleVars>>

-----------------------------------------------------------------------------
(* HandleEvent: the write half.                                            *)

SkipWrite ==
    /\ pc = "write"
    /\ "EPOLLOUT" \notin revent_ \/ ~IsWriting
    /\ pc' = "poll"
    /\ UNCHANGED <<endVars, outVars, clientVars, sendVars, revent_, idleVars>>

\* HandleWrite up to DisableWrite.
HandleWrite ==
    /\ pc = "write"
    /\ "EPOLLOUT" \in revent_ /\ IsWriting
    /\ \/ /\ ~finSent
          /\ socket' = socket \o Taken(output_buffer_)
          /\ output_buffer_' = Left(output_buffer_)
          /\ event_' = IF output_buffer_' = <<>> THEN event_ \ {"EPOLLOUT"} ELSE event_
          /\ pc' = IF output_buffer_' = <<>> THEN "drained" ELSE "poll"
          /\ UNCHANGED message
       \/ finSent /\ Killed
    /\ UNCHANGED <<endVars, clientVars, nextRequest, close, revent_, idleVars>>

\* Wrong variant: a Shutdown that had to wait is forgotten.
ShutdownWaitsNever == FALSE

ShutdownWaits == state_ = "kDisconnecting"

\* HandleWrite after DisableWrite: the Shutdown that had to wait.
Drained ==
    /\ pc = "drained"
    /\ finSent' = (finSent \/ ShutdownWaits)
    /\ pc' = "poll"
    /\ UNCHANGED <<state_, outVars, clientVars, sendVars, revent_, idleVars>>

-----------------------------------------------------------------------------
(* The idle timer, in the base loop's thread.                              *)

\* Time passes between two rounds of the loop: no handler takes a tick.
Tick ==
    /\ auto_close /\ pc = "poll"
    /\ quiet' = IF quiet > Timeout THEN quiet ELSE quiet + 1
    /\ due' = IF due = 0 THEN 0 ELSE due - 1
    /\ UNCHANGED <<endVars, outVars, clientVars, sendVars, pollVars, auto_close, idleTimer>>

\* Wrong variant: a connection on which nothing ever came counts as active.
InactiveOnceActive == quiet > Timeout /\ nextRequest > 1

\* AddTime(timestamp(), kIdleConnectionTimeOuts) < Now().
Inactive == quiet > Timeout

\* The timer has expired.  It is not set again, whatever it finds.
IdleCheck ==
    /\ "check" \in idleTimer /\ due = 0
    /\ pc # "killed"
    /\ idleTimer' = IF Inactive THEN {"store", "test"} ELSE {}
    /\ UNCHANGED <<endVars, outVars, clientVars, sendVars, pollVars, auto_close, quiet, due>>

\* Shutdown's store to state_ and its load of event_ race with the other
\* thread's and nothing orders the two for it, so they are seen in either order.
IdleStore ==
    /\ "store" \in idleTimer
    /\ pc # "killed"
    /\ state_' = "kDisconnecting"
    /\ idleTimer' = idleTimer \ {"store"}
    /\ UNCHANGED <<outVars, clientVars, finSent, sendVars, pollVars, auto_close, quiet, due>>

IdleTest ==
    /\ "test" \in idleTimer
    /\ pc # "killed"
    /\ finSent' = (finSent \/ CanEnd)
    /\ idleTimer' = idleTimer \ {"test"}
    /\ UNCHANGED <<state_, outVars, clientVars, sendVars, pollVars, auto_close, quiet, due>>

-----------------------------------------------------------------------------

LoopThread ==
    \/ EpollWait
    \/ SkipRead \/ MessageCallback \/ HandleClose
    \/ SendNow \/ KeepRest \/ EndOfCallback
    \/ SkipWrite \/ HandleWrite \/ Drained

BaseThread == IdleCheck \/ IdleStore \/ IdleTest

Next ==
    \/ LoopThread \/ BaseThread \/ Tick
    \/ ClientAsks \/ ClientReads \/ ClientLeaves

\* The loops' threads run (that the idle timer fires is TimerQueue's), time
\* goes on, and a client that has bytes to read reads them.
Fairness ==
    /\ WF_vars(LoopThread) /\ WF_vars(BaseThread) /\ WF_vars(Tick)
    /\ WF_vars(ClientReads)

SafeSpec == Init /\ [][Next]_vars

Spec == SafeSpec /\ Fairness

-----------------------------------------------------------------------------
(* Properties.                                                             *)

\* The shape of the state.
TypeOK ==
    /\ state_ \in {"kConnected", "kDisconnected", "kDisconnecting"}
    /\ event_ \subseteq {"EPOLLIN", "EPOLLOUT"}
    /\ revent_ \subseteq {"EPOLLIN", "EPOLLOUT"}
    /\ output_buffer_ \in Seq(Bytes) /\ message \in Seq(Bytes)
    /\ socket \in Seq(Bytes) /\ Len(socket) <= Room
    /\ received \in Seq(Bytes)
    /\ finSent \in BOOLEAN /\ clientLeft \in BOOLEAN /\ close \in BOOLEAN
    /\ asked \in 0 .. Len(Sizes) /\ nextRequest \in 1 .. asked + 1
    /\ pc \in {"poll", "read", "send", "keep", "sent", "write", "drained", "killed"}
    /\ auto_close \in BOOLEAN
    /\ quiet \in 0 .. Timeout + 1 /\ due \in 0 .. Timeout
    /\ idleTimer \in {{"check"}} \cup SUBSET {"store", "test"}

\* Every byte of every response Send has accepted, wherever it is now.
Accepted == received \o socket \o output_buffer_
            \o (IF pc = "keep" THEN message ELSE <<>>)

\* The responses Send accepts reach the client whole, in order and once,
\* across the direct send, the rest kept in output_buffer_ and the partial
\* writes of HandleWrite; and none is accepted after the end of the stream,
\* unless it was the idle timer that ended it behind the handler's back.
Stream == INSTANCE ByteStream WITH stream <- Accepted,
                                   ended <- finSent /\ ~auto_close

ImplementsByteStream == Stream!Spec

\* The end of the stream is announced (Shutdown's SHUT_WR) only after all the
\* output has been handed to the socket, also when Shutdown was called with
\* output waiting; send is never called after it.  (With the idle timer it
\* is: HandleWriteSends.)
FinAfterFlush ==
    finSent /\ ~auto_close => output_buffer_ = <<>> /\ pc \notin {"send", "keep"}

\* The channel asks for EPOLLOUT exactly while output is waiting: without the
\* interest the output would never leave, with it and no output the
\* level-triggered loop would spin.  Only HandleClose breaks the tie.
WriteInterestMatches == event_ # {} => (IsWriting <=> output_buffer_ # <<>>)

\* HandleWrite's assertion, tcpconnection.cc:75: the send it is about to make
\* succeeds, although its revent_ is as old as the epoll_wait that set it.
HandleWriteSends ==
    pc = "write" /\ "EPOLLOUT" \in revent_ /\ IsWriting => Free > 0 /\ ~finSent

\* What tcpconnection.cc:96 says of Send: the message goes into output_buffer_
\* and out from there when the socket is writable.  So no message is lost in
\* Send: when Send is done with it, it is part of what the client will get.
SendKeepsMessage ==
    [][pc = "send" /\ pc' \in {"keep", "sent"} => Accepted' = Accepted \o message]_vars

Over == state_ = "kDisconnected" \/ event_ = {} \/ pc = "killed"

\* Waiting output is flushed, unless the client closes first or SIGPIPE ends
\* the process, as long as the client keeps reading.
OutputFlushed == output_buffer_ # <<>> ~> output_buffer_ = <<>> \/ Over

\* A connection its handler has shut down gets its FIN, whichever side of the
\* drain Shutdown was called on, unless the client closes first.
ShutdownCompletes == state_ = "kDisconnecting" /\ ~auto_close ~> finSent \/ Over

\* A client that connects and never asks for anything is shut down in the end,
\* when idle connections are closed.  (One that was active in its first 8
\* seconds is not: its timer is spent.)
SilentIsShutDown == auto_close /\ asked = 0 ~> asked > 0 \/ finSent \/ Over
=============================================================================
