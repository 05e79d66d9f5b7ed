------------------------- MODULE TcpConnectionProofs ------------------------
(***************************************************************************)
(* That a TcpConnection ends its stream only after the output, asks for    *)
(* EPOLLOUT just as long as output is waiting, and delivers each response  *)
(* that Send accepts whole, in order and once, for responses and socket    *)
(* buffers of any size.                                                    *)
(***************************************************************************)
EXTENDS TcpConnection, SequenceTheorems, TLAPS

\* A channel that is enabled wants input; one that has been disabled is past
\* the read half for good.
ClosedRests ==
    /\ event_ = {} \/ "EPOLLIN" \in event_
    /\ event_ = {} => pc \in {"poll", "write"}
    /\ state_ = "kDisconnected" => event_ = {}

\* Without the closing of idle connections only the connection's own thread
\* ends the stream, and says so in state_.
EndsItself == ~auto_close => idleTimer = {} /\ (finSent => state_ # "kConnected")

\* What Send and HandleWrite have at hand.
InHand ==
    /\ pc = "send" => message \in Responses
    /\ pc = "drained" => output_buffer_ = <<>>

IInv == TypeOK /\ FinAfterFlush /\ WriteInterestMatches /\ ClosedRests /\ EndsItself /\ InHand

-----------------------------------------------------------------------------
(* Sequences of bytes.                                                     *)

\* A sequence is what its first k elements and the rest are together.
LEMMA SplitAt ==
    ASSUME NEW S, NEW s \in Seq(S), NEW k \in 0 .. Len(s)
    PROVE  /\ SubSeq(s, 1, k) \in Seq(S) /\ Len(SubSeq(s, 1, k)) = k
           /\ SubSeq(s, k + 1, Len(s)) \in Seq(S)
           /\ SubSeq(s, 1, k) \o SubSeq(s, k + 1, Len(s)) = s
<1>1. Len(s) \in Nat /\ k \in Nat
  OBVIOUS
<1>2. SubSeq(s, 1, k) \in Seq(S) /\ Len(SubSeq(s, 1, k)) = k
  <2>1. \A i \in 1 .. k : s[i] \in S
    BY <1>1, ElementOfSeq
  <2> QED BY <1>1, <2>1, SubSeqProperties
<1>3. SubSeq(s, k + 1, Len(s)) \in Seq(S)
  <2>1. \A i \in k + 1 .. Len(s) : s[i] \in S
    BY <1>1, ElementOfSeq
  <2> QED BY <1>1, <2>1, SubSeqProperties
<1>4. SubSeq(s, 1, k) \o SubSeq(s, k + 1, Len(s)) = SubSeq(s, 1, Len(s))
  <2>1. 1 \in 1 .. Len(s) + 1 /\ k \in 1 - 1 .. Len(s) /\ Len(s) \in k .. Len(s)
    BY <1>1
  <2> QED BY <2>1, ConcatAdjacentSubSeq
<1> QED BY <1>2, <1>3, <1>4, SubSeqFull

\* The head of a sequence moved behind another one.
LEMMA HeadMoves ==
    ASSUME NEW S, NEW s \in Seq(S), NEW t \in Seq(S), t # <<>>
    PROVE  /\ Append(s, Head(t)) \in Seq(S) /\ Tail(t) \in Seq(S) /\ Len(Tail(t)) = Len(t) - 1
           /\ Append(s, Head(t)) \o Tail(t) = s \o t
           /\ Len(s) + 1 \in 1 .. Len(s \o t) /\ (s \o t)[Len(s) + 1] = Head(t)
<1>1. Head(t) \in S /\ Tail(t) \in Seq(S) /\ Len(Tail(t)) = Len(t) - 1
  BY HeadTailProperties
<1>2. Len(s) \in Nat /\ Len(t) \in Nat \ {0}
  BY EmptySeq
<1>3. /\ Len(s \o t) = Len(s) + Len(t)
      /\ \A i \in 1 .. Len(s) + Len(t) : (s \o t)[i] = IF i <= Len(s) THEN s[i] ELSE t[i - Len(s)]
  BY ConcatProperties
<1>4. Len(s) + 1 \in 1 .. Len(s \o t) /\ (s \o t)[Len(s) + 1] = t[1]
  BY <1>2, <1>3
<1>5. Append(s, Head(t)) \in Seq(S) /\ Append(s, Head(t)) = s \o <<Head(t)>>
  BY <1>1, AppendProperties, AppendIsConcat
<1>6. t = <<Head(t)>> \o Tail(t)
  <2>1. 1 \in 1 .. Len(t) /\ Len(t) \in 1 .. Len(t) /\ t[1] = Head(t)
    BY <1>2
  <2>2. SubSeq(t, 1, Len(t)) = <<t[1]>> \o SubSeq(t, 2, Len(t))
    BY <2>1, SubSeqRecursiveFirst
  <2> QED BY <2>1, <2>2, SubSeqFull, TailIsSubSeq
<1>7. (s \o <<Head(t)>>) \o Tail(t) = s \o (<<Head(t)>> \o Tail(t))
  BY <1>1, ConcatAssociative
<1> QED BY <1>1, <1>4, <1>5, <1>6, <1>7

\* Concatenations of bytes associate.
LEMMA Associates ==
    \A s, t, u \in Seq(Bytes) : (s \o t) \o u = s \o (t \o u)
BY ConcatAssociative

\* A response is a sequence of bytes.
LEMMA ResponseTyped ==
    ASSUME NEW m \in 1 .. Len(Sizes)
    PROVE  Response(m) \in Responses /\ Response(m) \in Seq(Bytes)
<1>1. Sizes[m] \in Nat /\ m \in DOMAIN Sizes
  BY TcpConnectionAssumption DEF TcpConnectionAssumption
<1>2. Response(m) \in Responses
  BY <1>1 DEF Responses
<1>3. Range(Response(m)) \subseteq Bytes
  BY <1>2 DEF Bytes
<1>4. \A i \in 1 .. Sizes[m] : <<m, i>> \in Bytes
  BY <1>3 DEF Response, Range
<1>5. Response(m) \in Seq(Bytes)
  BY <1>1, <1>4 DEF Response
<1> QED BY <1>2, <1>5

\* What send(2) takes fits into the socket, and it takes from the front.
LEMMA SendSplits ==
    ASSUME TypeOK, NEW bytes \in Seq(Bytes)
    PROVE  /\ Taken(bytes) \in Seq(Bytes) /\ Left(bytes) \in Seq(Bytes)
           /\ Taken(bytes) \o Left(bytes) = bytes
           /\ socket \o Taken(bytes) \in Seq(Bytes) /\ Len(socket \o Taken(bytes)) <= Room
           /\ Free = 0 => Taken(bytes) = <<>>
<1> DEFINE k == Least(Free, Len(bytes))
<1>1. /\ socket \in Seq(Bytes) /\ Len(socket) \in Nat /\ Len(socket) <= Room /\ Room \in Nat
      /\ Len(bytes) \in Nat
  BY TcpConnectionAssumption DEF TcpConnectionAssumption, TypeOK
<1>2. k \in 0 .. Len(bytes) /\ k <= Free /\ Len(socket) + k <= Room /\ (Free = 0 => k = 0)
  BY <1>1 DEF Free, Least
<1>3. /\ Taken(bytes) = SubSeq(bytes, 1, k) /\ Left(bytes) = SubSeq(bytes, k + 1, Len(bytes))
  BY DEF Taken, Left
<1> HIDE DEF k
<1>4. /\ Taken(bytes) \in Seq(Bytes) /\ Len(Taken(bytes)) = k /\ Left(bytes) \in Seq(Bytes)
      /\ Taken(bytes) \o Left(bytes) = bytes
  <2>1. /\ SubSeq(bytes, 1, k) \in Seq(Bytes) /\ Len(SubSeq(bytes, 1, k)) = k
        /\ SubSeq(bytes, k + 1, Len(bytes)) \in Seq(Bytes)
        /\ SubSeq(bytes, 1, k) \o SubSeq(bytes, k + 1, Len(bytes)) = bytes
    BY <1>2, SplitAt
  <2> QED BY <1>3, <2>1
<1>5. socket \o Taken(bytes) \in Seq(Bytes) /\ Len(socket \o Taken(bytes)) = Len(socket) + k
  BY <1>1, <1>4, ConcatProperties
<1>6. Free = 0 => Taken(bytes) = <<>>
  BY <1>2, <1>4, EmptySeq
<1> QED BY <1>2, <1>4, <1>5, <1>6

-----------------------------------------------------------------------------
(* The steps.                                                              *)

\* The state a connection starts in satisfies the invariant.
LEMMA InitIInv == Init => IInv
<1> SUFFICES ASSUME Init PROVE IInv
  OBVIOUS
<1>1. <<>> \in Seq(Bytes) /\ Len(<<>>) = 0 /\ Room \in Nat /\ Timeout \in Nat /\ Len(Sizes) \in Nat
  BY TcpConnectionAssumption DEF TcpConnectionAssumption
<1>2. TypeOK
  <2>1. asked \in 0 .. Len(Sizes) /\ nextRequest \in 1 .. asked + 1
    BY <1>1 DEF Init
  <2>2. quiet \in 0 .. Timeout + 1 /\ due \in 0 .. Timeout
    BY <1>1 DEF Init
  <2>3. auto_close \in BOOLEAN
    BY TcpConnectionAssumption DEF TcpConnectionAssumption, Init
  <2>4. idleTimer \in {{"check"}} \cup SUBSET {"store", "test"}
    BY DEF Init
  <2>5. Len(socket) <= Room
    BY <1>1 DEF Init
  <2>6. /\ output_buffer_ \in Seq(Bytes) /\ message \in Seq(Bytes)
        /\ socket \in Seq(Bytes) /\ received \in Seq(Bytes)
    BY <1>1 DEF Init
  <2>7. /\ state_ \in {"kConnected", "kDisconnected", "kDisconnecting"}
        /\ event_ \subseteq {"EPOLLIN", "EPOLLOUT"} /\ revent_ \subseteq {"EPOLLIN", "EPOLLOUT"}
        /\ finSent \in BOOLEAN /\ clientLeft \in BOOLEAN /\ close \in BOOLEAN
        /\ pc \in {"poll", "read", "send", "keep", "sent", "write", "drained", "killed"}
    BY DEF Init
  <2> QED BY <2>1, <2>2, <2>3, <2>4, <2>5, <2>6, <2>7 DEF TypeOK
<1>3. FinAfterFlush /\ WriteInterestMatches /\ ClosedRests /\ EndsItself /\ InHand
  BY DEF Init, FinAfterFlush, WriteInterestMatches, IsWriting, ClosedRests, EndsItself, InHand
<1> QED BY <1>2, <1>3 DEF IInv

\* Each step keeps the state's shape.
LEMMA StepTypeOK == ASSUME IInv, [Next]_vars PROVE TypeOK'
<1> USE DEF endVars, outVars, clientVars, sendVars, pollVars, idleVars
<1>0. /\ TypeOK /\ InHand
      /\ Room \in Nat /\ Timeout \in Nat /\ Len(Sizes) \in Nat /\ asked \in Nat
      /\ nextRequest \in Nat /\ <<>> \in Seq(Bytes)
  BY TcpConnectionAssumption DEF TcpConnectionAssumption, IInv, TypeOK
<1>1. CASE ClientAsks
  <2>1. asked' \in 0 .. Len(Sizes) /\ nextRequest' \in 1 .. asked' + 1
    BY <1>0, <1>1 DEF ClientAsks, TypeOK
  <2> QED BY <1>0, <1>1, <2>1 DEF ClientAsks, TypeOK
<1>2. CASE ClientReads
  <2>1. socket # <<>> /\ socket \in Seq(Bytes) /\ received \in Seq(Bytes) /\ Len(socket) \in Nat
    BY <1>0, <1>2 DEF ClientReads, TypeOK
  <2>2. /\ received' \in Seq(Bytes) /\ socket' \in Seq(Bytes)
        /\ Len(socket') = Len(socket) - 1
    BY <1>2, <2>1, HeadMoves DEF ClientReads
  <2>3. Len(socket') <= Room
    BY <1>0, <2>1, <2>2 DEF TypeOK
  <2> QED BY <1>0, <1>2, <2>2, <2>3 DEF ClientReads, TypeOK
<1>3. CASE ClientLeaves
  BY <1>0, <1>3 DEF ClientLeaves, TypeOK
<1>4. CASE EpollWait \/ SkipRead \/ HandleClose \/ EndOfCallback \/ SkipWrite \/ Drained
  <2>1. finSent' \in BOOLEAN /\ close' \in BOOLEAN
    BY <1>0, <1>4 DEF EpollWait, SkipRead, HandleClose, EndOfCallback, SkipWrite, Drained,
                      TypeOK, CanEnd, IsWriting, ShutdownWaits
  <2> QED BY <1>0, <1>4, <2>1 DEF EpollWait, SkipRead, HandleClose, EndOfCallback, SkipWrite,
                                  Drained, TypeOK
<1>5. CASE MessageCallback
  <2>1. nextRequest \in 1 .. Len(Sizes) /\ nextRequest' \in 1 .. asked' + 1
    BY <1>0, <1>5 DEF MessageCallback, Request, TypeOK
  <2>2. message' \in Seq(Bytes) /\ close' \in BOOLEAN
    BY <1>0, <1>5, <2>1, ResponseTyped DEF MessageCallback, TypeOK
  <2>3. quiet' \in 0 .. Timeout + 1
    BY <1>0, <1>5 DEF MessageCallback, TypeOK
  <2> QED BY <1>0, <1>5, <2>1, <2>2, <2>3 DEF MessageCallback, TypeOK
<1>6. CASE SendNow
  <2>1. message' \in Seq(Bytes) /\ socket' \in Seq(Bytes) /\ Len(socket') <= Room
    <3>1. CASE UNCHANGED <<socket, message>>
      BY <1>0, <3>1 DEF TypeOK
    <3>2. CASE socket' = socket \o Taken(message) /\ message' = Rest(message)
      <4>1. message \in Seq(Bytes)
        BY <1>0 DEF TypeOK
      <4> QED BY <1>0, <3>2, <4>1, SendSplits DEF Rest
    <3> QED BY <1>6, <3>1, <3>2 DEF SendNow, Killed
  <2> QED BY <1>0, <1>6, <2>1 DEF SendNow, Killed, TypeOK
<1>7. CASE KeepRest
  <2>1. output_buffer_' \in Seq(Bytes)
    BY <1>0, <1>7, ConcatProperties DEF KeepRest, TypeOK
  <2>2. event_' \subseteq {"EPOLLIN", "EPOLLOUT"}
    BY <1>0, <1>7 DEF KeepRest, InterestWith, TypeOK
  <2> QED BY <1>0, <1>7, <2>1, <2>2 DEF KeepRest, TypeOK
<1>8. CASE HandleWrite
  <2>1. output_buffer_' \in Seq(Bytes) /\ socket' \in Seq(Bytes) /\ Len(socket') <= Room
    <3>1. CASE UNCHANGED <<socket, output_buffer_>>
      BY <1>0, <3>1 DEF TypeOK
    <3>2. CASE socket' = socket \o Taken(output_buffer_) /\ output_buffer_' = Left(output_buffer_)
      <4>1. output_buffer_ \in Seq(Bytes)
        BY <1>0 DEF TypeOK
      <4> QED BY <1>0, <3>2, <4>1, SendSplits
    <3> QED BY <1>8, <3>1, <3>2 DEF HandleWrite, Killed
  <2> QED BY <1>0, <1>8, <2>1 DEF HandleWrite, Killed, TypeOK
<1>9. CASE Tick
  <2>1. quiet' \in 0 .. Timeout + 1 /\ due' \in 0 .. Timeout
    BY <1>0, <1>9 DEF Tick, TypeOK
  <2> QED BY <1>0, <1>9, <2>1 DEF Tick, TypeOK
<1>10. CASE IdleCheck \/ IdleStore \/ IdleTest
  <2>1. idleTimer' \in {{"check"}} \cup SUBSET {"store", "test"}
    BY <1>0, <1>10 DEF IdleCheck, IdleStore, IdleTest, TypeOK
  <2>2. finSent' \in BOOLEAN
    BY <1>0, <1>10 DEF IdleCheck, IdleStore, IdleTest, TypeOK, CanEnd, IsWriting
  <2> QED BY <1>0, <1>10, <2>1, <2>2 DEF IdleCheck, IdleStore, IdleTest, TypeOK
<1>11. CASE UNCHANGED vars
  BY <1>0, <1>11 DEF vars, TypeOK
<1> QED BY <1>1, <1>2, <1>3, <1>4, <1>5, <1>6, <1>7, <1>8, <1>9, <1>10, <1>11
        DEF Next, LoopThread, BaseThread

\* Each step keeps the rest of the invariant.
LEMMA StepRest ==
    ASSUME IInv, [Next]_vars
    PROVE  FinAfterFlush' /\ WriteInterestMatches' /\ ClosedRests' /\ EndsItself' /\ InHand'
<1> DEFINE Rest1 == FinAfterFlush /\ WriteInterestMatches /\ ClosedRests /\ EndsItself /\ InHand
<1> USE DEF endVars, outVars, clientVars, sendVars, pollVars, idleVars,
            FinAfterFlush, WriteInterestMatches, ClosedRests, EndsItself, InHand, IsWriting
<1>0. TypeOK /\ Rest1
  BY DEF IInv
<1>1. CASE ClientAsks \/ ClientReads \/ ClientLeaves \/ Tick
  BY <1>0, <1>1 DEF ClientAsks, ClientReads, ClientLeaves, Tick
<1>2. CASE EpollWait \/ SkipRead \/ SkipWrite
  BY <1>0, <1>2 DEF EpollWait, SkipRead, SkipWrite
<1>3. CASE HandleClose
  BY <1>0, <1>3 DEF HandleClose
<1>4. CASE MessageCallback
  <2>1. state_ # "kDisconnecting" => Response(nextRequest) \in Responses
    <3>1. nextRequest \in 1 .. Len(Sizes)
      BY <1>0, <1>4, TcpConnectionAssumption
         DEF MessageCallback, Request, TypeOK, TcpConnectionAssumption
    <3> QED BY <3>1, ResponseTyped
  <2>2. state_ \in {"kConnected", "kDisconnecting"}
    BY <1>0, <1>4 DEF MessageCallback, TypeOK
  <2> QED BY <1>0, <1>4, <2>1, <2>2 DEF MessageCallback
<1>5. CASE SendNow
  BY <1>0, <1>5 DEF SendNow, Killed
<1>6. CASE KeepRest
  <2>1. /\ event_ # {} /\ "EPOLLIN" \in event_
        /\ event_' = IF message = <<>> THEN event_ ELSE event_ \cup {"EPOLLOUT"}
        /\ output_buffer_' = output_buffer_ \o message
    BY <1>0, <1>6 DEF KeepRest, InterestWith
  <2>2. output_buffer_' = <<>> <=> output_buffer_ = <<>> /\ message = <<>>
    BY <1>0, <2>1, ConcatEqualIffEmpty DEF TypeOK
  <2> QED BY <1>0, <1>6, <2>1, <2>2 DEF KeepRest
<1>7. CASE EndOfCallback
  BY <1>0, <1>7 DEF EndOfCallback, CanEnd
<1>8. CASE HandleWrite
  BY <1>0, <1>8 DEF HandleWrite, Killed
<1>9. CASE Drained
  BY <1>0, <1>9 DEF Drained, ShutdownWaits
<1>10. CASE IdleCheck \/ IdleStore \/ IdleTest
  <2>1. auto_close /\ auto_close'
    BY <1>0, <1>10 DEF IdleCheck, IdleStore, IdleTest, TypeOK
  <2> QED BY <1>0, <1>10, <2>1 DEF IdleCheck, IdleStore, IdleTest
<1>11. CASE UNCHANGED vars
  BY <1>0, <1>11 DEF vars
<1> QED BY <1>1, <1>2, <1>3, <1>4, <1>5, <1>6, <1>7, <1>8, <1>9, <1>10, <1>11
        DEF Next, LoopThread, BaseThread

-----------------------------------------------------------------------------
(* The theorems.                                                           *)

\* The invariant the theorems below come from.
THEOREM Invariance == SafeSpec => []IInv
<1>1. IInv /\ [Next]_vars => IInv'
  BY StepTypeOK, StepRest DEF IInv
<1> QED BY <1>1, InitIInv, PTL DEF SafeSpec

\* The state keeps its shape: no more is in the socket than it has room for.
THEOREM TypeCorrect == SafeSpec => []TypeOK
<1>1. IInv => TypeOK
  BY DEF IInv
<1> QED BY <1>1, Invariance, PTL

\* The end of the stream is announced after all the output, and nothing is sent
\* after it.
THEOREM FinComesLast == SafeSpec => []FinAfterFlush
<1>1. IInv => FinAfterFlush
  BY DEF IInv
<1> QED BY <1>1, Invariance, PTL

\* The channel asks for EPOLLOUT exactly while output is waiting.
THEOREM InterestAlwaysMatches == SafeSpec => []WriteInterestMatches
<1>1. IInv => WriteInterestMatches
  BY DEF IInv
<1> QED BY <1>1, Invariance, PTL

-----------------------------------------------------------------------------
(* The byte stream.                                                        *)

\* What Send is going to keep.
Kept == IF pc = "keep" THEN message ELSE <<>>

\* The stream is made of sequences of bytes.
LEMMA Streams ==
    ASSUME TypeOK
    PROVE  /\ received \in Seq(Bytes) /\ socket \in Seq(Bytes) /\ output_buffer_ \in Seq(Bytes)
           /\ message \in Seq(Bytes) /\ Kept \in Seq(Bytes) /\ <<>> \in Seq(Bytes)
           /\ received \o socket \in Seq(Bytes)
           /\ received \o socket \o output_buffer_ \in Seq(Bytes)
           /\ Accepted = received \o socket \o output_buffer_ \o Kept
           /\ Accepted \in Seq(Bytes)
<1>1. /\ received \in Seq(Bytes) /\ socket \in Seq(Bytes) /\ output_buffer_ \in Seq(Bytes)
      /\ message \in Seq(Bytes) /\ <<>> \in Seq(Bytes)
  BY DEF TypeOK
<1>2. Kept \in Seq(Bytes)
  BY <1>1 DEF Kept
<1>3. received \o socket \in Seq(Bytes)
  BY <1>1, ConcatProperties
<1>4. received \o socket \o output_buffer_ \in Seq(Bytes)
  BY <1>1, <1>3, ConcatProperties
<1>5. Accepted = received \o socket \o output_buffer_ \o Kept
  BY DEF Accepted, Kept
<1> QED BY <1>1, <1>2, <1>3, <1>4, <1>5, ConcatProperties

\* A response that SendNow takes up is accepted: what the socket takes of it and
\* what KeepRest is to keep are all of it.
LEMMA SendAccepts ==
    ASSUME IInv, SendNow, TypeOK'
    PROVE  \/ \E response \in Responses : Stream!Accept(response)
           \/ UNCHANGED Stream!vars
<1> USE DEF endVars, outVars, clientVars, sendVars, pollVars, idleVars
<1>1. /\ TypeOK /\ pc = "send" /\ message \in Responses /\ ~(finSent /\ ~auto_close)
      /\ UNCHANGED <<received, output_buffer_, finSent, auto_close>>
  BY DEF IInv, SendNow, InHand, FinAfterFlush
<1>2. /\ received \in Seq(Bytes) /\ socket \in Seq(Bytes) /\ output_buffer_ \in Seq(Bytes)
      /\ message \in Seq(Bytes)
      /\ received \o socket \in Seq(Bytes)
      /\ received \o socket \o output_buffer_ \in Seq(Bytes)
  BY <1>1, Streams
<1>3. Accepted = received \o socket \o output_buffer_
  BY <1>1, <1>2, ConcatEmptySeq DEF Accepted
<1>4. CASE pc' = "keep" /\ UNCHANGED <<socket, message>>
  <2>1. Accepted' = Accepted \o message
    BY <1>1, <1>3, <1>4 DEF Accepted
  <2> QED BY <1>1, <2>1 DEF Stream!Accept
<1>5. CASE pc' = "killed" /\ UNCHANGED <<socket, message>>
  <2>1. Accepted' = Accepted
    BY <1>1, <1>5 DEF Accepted
  <2> QED BY <1>1, <2>1 DEF Stream!vars
<1>6. CASE /\ MaySendNow /\ socket' = socket \o Taken(message) /\ message' = Rest(message)
           /\ pc' = IF Free = 0 THEN "sent" ELSE "keep"
  <2>1. output_buffer_ = <<>> /\ Accepted = received \o socket
    BY <1>2, <1>3, <1>6, ConcatEmptySeq DEF MaySendNow
  <2>2. /\ Taken(message) \in Seq(Bytes) /\ Left(message) \in Seq(Bytes)
        /\ Taken(message) \o Left(message) = message
        /\ socket \o Taken(message) \in Seq(Bytes)
        /\ Free = 0 => Taken(message) = <<>>
    BY <1>1, <1>2, SendSplits
  <2>3. Accepted' = (received \o (socket \o Taken(message))) \o <<>>
                    \o (IF Free = 0 THEN <<>> ELSE Left(message))
    BY <1>1, <1>6, <2>1 DEF Accepted, Rest
  <2>4. received \o (socket \o Taken(message)) \in Seq(Bytes)
    BY <1>2, <2>2, ConcatProperties
  <2>5. CASE Free = 0
    <3>1. socket \o Taken(message) = socket
      BY <1>2, <2>2, <2>5, ConcatEmptySeq
    <3>2. Accepted' = Accepted
      BY <1>2, <2>1, <2>3, <2>4, <2>5, <3>1, ConcatEmptySeq
    <3> QED BY <1>1, <3>2 DEF Stream!vars
  <2>6. CASE Free # 0
    <3>1. Accepted' = (received \o (socket \o Taken(message))) \o Left(message)
      BY <2>3, <2>4, <2>6, ConcatEmptySeq
    <3>2. (received \o socket) \o Taken(message) = received \o (socket \o Taken(message))
      <4>1. received \in Seq(Bytes) /\ socket \in Seq(Bytes) /\ Taken(message) \in Seq(Bytes)
        BY <1>2, <2>2
      <4> QED BY <4>1, Associates
    <3>3. ((received \o socket) \o Taken(message)) \o Left(message)
             = (received \o socket) \o (Taken(message) \o Left(message))
      BY <1>2, <2>2, Associates, Zenon
    <3>4. Accepted' = Accepted \o message
      BY <2>1, <2>2, <3>1, <3>2, <3>3
    <3> QED BY <1>1, <3>4 DEF Stream!Accept
  <2> QED BY <2>5, <2>6
<1> QED BY <1>4, <1>5, <1>6 DEF SendNow, Killed

\* Each step delivers one byte, accepts one response, ends the stream or leaves
\* all of it alone.
LEMMA StepRefines == ASSUME IInv, [Next]_vars PROVE [Stream!Next]_(Stream!vars)
<1> USE DEF endVars, outVars, clientVars, sendVars, pollVars, idleVars
<1>1. TypeOK /\ TypeOK'
  BY StepTypeOK DEF IInv
<1>2. /\ received \in Seq(Bytes) /\ socket \in Seq(Bytes) /\ output_buffer_ \in Seq(Bytes)
      /\ message \in Seq(Bytes) /\ Kept \in Seq(Bytes)
      /\ received \o socket \in Seq(Bytes)
      /\ received \o socket \o output_buffer_ \in Seq(Bytes)
      /\ Accepted = received \o socket \o output_buffer_ \o Kept
  BY <1>1, Streams
<1>3. CASE ClientReads
  <2>1. /\ socket # <<>> /\ received' = Append(received, Head(socket)) /\ socket' = Tail(socket)
        /\ UNCHANGED <<output_buffer_, message, pc, finSent, auto_close>>
    BY <1>3 DEF ClientReads
  <2>2. /\ received' \o socket' = received \o socket
        /\ Len(received) + 1 \in 1 .. Len(received \o socket)
        /\ (received \o socket)[Len(received) + 1] = Head(socket)
    <3>1. /\ Append(received, Head(socket)) \o Tail(socket) = received \o socket
          /\ Len(received) + 1 \in 1 .. Len(received \o socket)
          /\ (received \o socket)[Len(received) + 1] = Head(socket)
      BY <1>2, <2>1, HeadMoves, Zenon
    <3> QED BY <2>1, <3>1
  <2>3. Accepted' = Accepted
    BY <2>1, <2>2 DEF Accepted
  <2>4. Len(received) < Len(Accepted) /\ Accepted[Len(received) + 1] = Head(socket)
    <3> DEFINE front == received \o socket
               mid == front \o output_buffer_
    <3>1. front \in Seq(Bytes) /\ mid \in Seq(Bytes) /\ Accepted = mid \o Kept
      BY <1>2
    <3> HIDE DEF front, mid
    <3>2. /\ Len(mid) = Len(front) + Len(output_buffer_)
          /\ \A i \in 1 .. Len(front) + Len(output_buffer_) :
                mid[i] = IF i <= Len(front) THEN front[i] ELSE output_buffer_[i - Len(front)]
      BY <1>2, <3>1, ConcatProperties DEF mid
    <3>3. /\ Len(Accepted) = Len(mid) + Len(Kept)
          /\ \A i \in 1 .. Len(mid) + Len(Kept) :
                Accepted[i] = IF i <= Len(mid) THEN mid[i] ELSE Kept[i - Len(mid)]
      BY <1>2, <3>1, ConcatProperties
    <3>4. /\ Len(front) \in Nat /\ Len(mid) \in Nat /\ Len(Kept) \in Nat
          /\ Len(output_buffer_) \in Nat /\ Len(received) \in Nat
          /\ Len(received) + 1 \in 1 .. Len(front) /\ front[Len(received) + 1] = Head(socket)
      BY <1>2, <2>2, <3>1, LenProperties DEF front
    <3>5. /\ Len(received) + 1 \in 1 .. Len(mid) + Len(Kept) /\ Len(received) + 1 <= Len(mid)
          /\ Len(received) + 1 \in 1 .. Len(front) + Len(output_buffer_)
          /\ Len(received) < Len(Accepted)
      BY <3>2, <3>3, <3>4
    <3> QED BY <3>2, <3>3, <3>4, <3>5
  <2> QED BY <2>1, <2>3, <2>4 DEF Stream!Next, Stream!Deliver
<1>4. CASE SendNow
  BY <1>1, <1>4, SendAccepts DEF Stream!Next
<1>5. CASE KeepRest
  <2>1. /\ Kept = message /\ output_buffer_' = output_buffer_ \o message /\ pc' = "sent"
        /\ UNCHANGED <<received, socket, finSent, auto_close>>
    BY <1>5 DEF KeepRest, Kept
  <2>2. Accepted' = received \o socket \o (output_buffer_ \o message) \o <<>>
    BY <2>1 DEF Accepted
  <2>3. output_buffer_ \o message \in Seq(Bytes)
    BY <1>2, ConcatProperties
  <2>4. received \o socket \o (output_buffer_ \o message) \in Seq(Bytes)
    BY <1>2, <2>3, ConcatProperties
  <2>5. Accepted' = (received \o socket) \o (output_buffer_ \o message)
    BY <2>2, <2>4, ConcatEmptySeq
  <2>6. Accepted = ((received \o socket) \o output_buffer_) \o message
    BY <1>2, <2>1
  <2>7. Accepted' = Accepted
    <3>1. ((received \o socket) \o output_buffer_) \o message
             = (received \o socket) \o (output_buffer_ \o message)
      BY <1>2, Associates, Zenon
    <3> QED BY <2>5, <2>6, <3>1
  <2> QED BY <2>1, <2>7 DEF Stream!vars
<1>6. CASE HandleWrite
  <2>1. pc # "keep" /\ pc' # "keep" /\ UNCHANGED <<received, finSent, auto_close>>
    BY <1>6 DEF HandleWrite, Killed
  <2>2. CASE UNCHANGED <<socket, output_buffer_>>
    <3>1. Accepted' = Accepted
      BY <2>1, <2>2 DEF Accepted
    <3> QED BY <2>1, <3>1 DEF Stream!vars
  <2>3. CASE socket' = socket \o Taken(output_buffer_) /\ output_buffer_' = Left(output_buffer_)
    <3>1. /\ Taken(output_buffer_) \in Seq(Bytes) /\ Left(output_buffer_) \in Seq(Bytes)
          /\ Taken(output_buffer_) \o Left(output_buffer_) = output_buffer_
      BY <1>1, <1>2, SendSplits
    <3>2. (received \o socket) \o Taken(output_buffer_)
             = received \o (socket \o Taken(output_buffer_))
      <4>1. /\ received \in Seq(Bytes) /\ socket \in Seq(Bytes)
            /\ Taken(output_buffer_) \in Seq(Bytes)
        BY <1>2, <3>1
      <4> QED BY <4>1, Associates
    <3>3. ((received \o socket) \o Taken(output_buffer_)) \o Left(output_buffer_)
             = (received \o socket) \o (Taken(output_buffer_) \o Left(output_buffer_))
      BY <1>2, <3>1, Associates, Zenon
    <3>4. received' \o socket' \o output_buffer_' = received \o socket \o output_buffer_
      BY <2>1, <2>3, <3>1, <3>2, <3>3
    <3>5. Accepted' = Accepted
      BY <2>1, <3>4 DEF Accepted
    <3> QED BY <2>1, <3>5 DEF Stream!vars
  <2> QED BY <1>6, <2>2, <2>3 DEF HandleWrite, Killed
<1>7. CASE /\ UNCHANGED <<received, socket, output_buffer_, auto_close>> /\ Kept' = Kept
           /\ finSent => finSent'
  <2>1. Accepted' = Accepted
    BY <1>7 DEF Accepted, Kept
  <2>2. CASE UNCHANGED finSent
    BY <1>7, <2>1, <2>2 DEF Stream!vars
  <2>3. CASE ~finSent /\ finSent' /\ ~auto_close
    BY <1>7, <2>1, <2>3 DEF Stream!Next, Stream!End
  <2>4. CASE auto_close
    BY <1>7, <2>1, <2>4 DEF Stream!vars
  <2> QED BY <1>1, <1>7, <2>2, <2>3, <2>4 DEF TypeOK
<1>8. CASE ClientAsks \/ ClientLeaves \/ Tick
  BY <1>7, <1>8 DEF ClientAsks, ClientLeaves, Tick, Kept
<1>9. CASE EpollWait \/ SkipRead \/ MessageCallback \/ HandleClose
  BY <1>7, <1>9 DEF EpollWait, SkipRead, MessageCallback, HandleClose, Kept
<1>10. CASE EndOfCallback \/ SkipWrite \/ Drained
  BY <1>7, <1>10 DEF EndOfCallback, SkipWrite, Drained, Kept
<1>11. CASE IdleCheck \/ IdleStore \/ IdleTest
  BY <1>7, <1>11 DEF IdleCheck, IdleStore, IdleTest, Kept
<1>12. CASE UNCHANGED vars
  BY <1>7, <1>12 DEF vars, Kept
<1> QED BY <1>3, <1>4, <1>5, <1>6, <1>8, <1>9, <1>10, <1>11, <1>12
        DEF Next, LoopThread, BaseThread

\* The responses Send accepts reach the client whole, in order and once, through
\* the direct send, output_buffer_ and HandleWrite's partial writes; none is
\* accepted after the end of the stream.
THEOREM StreamImplemented == SafeSpec => ImplementsByteStream
<1>1. Init => Stream!Init
  <2> SUFFICES ASSUME Init PROVE Stream!Init
    OBVIOUS
  <2>1. <<>> \o <<>> = <<>>
    BY ConcatEmptySeq, EmptySeq
  <2>2. Accepted = <<>> \o <<>> \o <<>> \o <<>>
    BY DEF Init, Accepted
  <2> QED BY <2>1, <2>2 DEF Init, Stream!Init
<1>2. IInv /\ [Next]_vars => [Stream!Next]_(Stream!vars)
  BY StepRefines
<1> QED BY <1>1, <1>2, Invariance, PTL DEF SafeSpec, ImplementsByteStream, Stream!Spec
=============================================================================
