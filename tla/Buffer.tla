------------------------------- MODULE Buffer -------------------------------
(***************************************************************************)
(* Buffer (src/util/buffer.{h,cc}): a vector of chars with a read and a    *)
(* write index, which is the input_buffer_ and the output_buffer_ of a     *)
(* TcpConnection.  The whole arithmetic of MakeEnough, Append, ReadFd and  *)
(* the Retrieves is kept; every byte has its place, so that a byte         *)
(* overwritten, skipped or copied past the vector's end is seen.           *)
(***************************************************************************)
EXTENDS Integers, Sequences

CONSTANTS
    Bytes,          \* the chars
    NUL,            \* '\0', what a vector's new elements are
    Messages,       \* what is appended, and what one readv delivers
    pre_index_,
    kInitialSize,
    ExtraSize,      \* sizeof(extrabuf)
    MaxSize         \* bound: how far the vector grows

ASSUME BufferAssumption ==
    /\ NUL \in Bytes
    /\ Messages \subseteq Seq(Bytes)
    /\ pre_index_ \in Nat /\ ExtraSize \in Nat /\ MaxSize \in Nat
    /\ kInitialSize \in Nat /\ pre_index_ <= kInitialSize

VARIABLES
    buf,            \* the Buffer: its vector's elements and size, its indexes
    call            \* what the last call put in, and how many bytes it took out

vars == <<buf, call>>

\* The members of a Buffer; size is buffer_.size().
BufferOf(elements, size, read_index, write_index) ==
    [buffer_ |-> elements, size |-> size,
     read_index_ |-> read_index, write_index_ |-> write_index]

Init ==
    /\ buf = BufferOf([i \in 0 .. kInitialSize - 1 |-> NUL],
                      kInitialSize, pre_index_, pre_index_)
    /\ call = [in |-> <<>>, out |-> 0]

readable(b)  == b.write_index_ - b.read_index_
writeable(b) == b.size - b.write_index_
preable(b)   == b.read_index_

-----------------------------------------------------------------------------
(* Putting bytes in.                                                       *)

\* std::copy of message to the place at; what would fall outside the vector
\* is not stored anywhere.
Copy(b, at, message) ==
    [i \in 0 .. b.size - 1 |->
        IF i \in at .. at + Len(message) - 1 THEN message[i - at + 1] ELSE b.buffer_[i]]

\* message is copied to begin_write and write_index_ moves beyond it.
Store(b, message) ==
    BufferOf(Copy(b, b.write_index_, message), b.size,
             b.read_index_, b.write_index_ + Len(message))

\* std::copy of the readable bytes to pre_index_.
Moved(b) ==
    [i \in 0 .. b.size - 1 |->
        IF i \in pre_index_ .. pre_index_ + readable(b) - 1
        THEN b.buffer_[b.read_index_ + i - pre_index_]
        ELSE b.buffer_[i]]

\* Wrong variant: write_index_ does not count the room kept in front.
MoveToFrontShort(b) ==
    BufferOf(Moved(b), b.size, pre_index_, readable(b) - pre_index_)

\* The readable bytes go back to pre_index_.
MoveToFront(b) ==
    BufferOf(Moved(b), b.size, pre_index_, readable(b) + pre_index_)

\* std::vector::resize(size + len): NULs behind what is there.
Extended(b, len) ==
    [i \in 0 .. b.size + len - 1 |-> IF i < b.size THEN b.buffer_[i] ELSE NUL]

Resize(b, len) ==
    BufferOf(Extended(b, len), b.size + len, b.read_index_, b.write_index_)

\* Wrong variant: pre_index_ is not counted when the free room is added up.
MakeEnoughNoPre(b, len) ==
    IF writeable(b) > len THEN b
    ELSE IF writeable(b) + preable(b) >= len THEN MoveToFront(b)
    ELSE Resize(b, len)

MakeEnough(b, len) ==
    IF writeable(b) > len THEN b
    ELSE IF writeable(b) + preable(b) >= pre_index_ + len THEN MoveToFront(b)
    ELSE Resize(b, len)

\* Append(const char*, int).
AppendBytes(b, message) == Store(MakeEnough(b, Len(message)), message)

\* What readv may return: both areas filled, or only the vector's free part
\* when that alone is at least as large as the other.
CanRead(b, data) ==
    Len(data) <= writeable(b) + (IF writeable(b) < ExtraSize THEN ExtraSize ELSE 0)

\* ReadFd, after its readv has delivered data.
ReadFd(b, data) ==
    IF Len(data) <= writeable(b) THEN Store(b, data)
    ELSE AppendBytes(Store(b, SubSeq(data, 1, writeable(b))),
                     SubSeq(data, writeable(b) + 1, Len(data)))

-----------------------------------------------------------------------------
(* Taking bytes out.                                                       *)

RetrieveAll(b) == BufferOf(b.buffer_, b.size, pre_index_, pre_index_)

\* RetrieveUntilIndex, for an index len bytes beyond begin_read.
RetrieveUntilIndex(b, len) ==
    BufferOf(b.buffer_, b.size, b.read_index_ + len, b.write_index_)

\* Wrong variant: the last byte is taken along.
RetrieveOneTooMany(b, len) ==
    IF len + 1 + b.read_index_ < b.write_index_
    THEN RetrieveUntilIndex(b, len)
    ELSE RetrieveAll(b)

Retrieve(b, len) ==
    IF len + b.read_index_ < b.write_index_
    THEN RetrieveUntilIndex(b, len)
    ELSE RetrieveAll(b)

-----------------------------------------------------------------------------
(* How the server uses it: Append of a response, ReadFd of a socket,       *)
(* Retrieve of what send(2) has taken, RetrieveUntilIndex of a parsed line *)
(* and its CRLF, RetrieveAll of what Send has been given.                  *)

Puts(message, b) ==
    /\ b.size <= MaxSize
    /\ buf' = b /\ call' = [in |-> message, out |-> 0]

Takes(len, b) == buf' = b /\ call' = [in |-> <<>>, out |-> len]

Next ==
    \/ \E message \in Messages :
          \/ Puts(message, AppendBytes(buf, message))
          \/ CanRead(buf, message) /\ Puts(message, ReadFd(buf, message))
    \/ \E len \in 0..readable(buf) :
          Takes(len, Retrieve(buf, len)) \/ Takes(len, RetrieveUntilIndex(buf, len))
    \/ Takes(readable(buf), RetrieveAll(buf))

Spec == Init /\ [][Next]_vars

-----------------------------------------------------------------------------
(* Properties.                                                             *)

\* The shape of a Buffer.
TypeOK ==
    /\ buf.size \in Nat
    /\ buf.read_index_ \in Nat /\ buf.write_index_ \in Nat
    /\ buf.buffer_ \in [0 .. buf.size - 1 -> Bytes]

\* The indexes stay in order and inside the vector through any sequence of
\* calls: nothing is ever copied, read or sent beyond its end, and there is
\* always room for pre_index_ bytes in front.
IndexesInBounds ==
    /\ pre_index_ <= buf.read_index_
    /\ buf.read_index_ <= buf.write_index_
    /\ buf.write_index_ <= buf.size

\* A Buffer is a queue: every call puts just its message behind what the
\* readable part holds, or takes just so many bytes from its front, whether or not it
\* was moved to the front, the vector was
\* resized, or a read was spread over the vector and extrabuf.
Contents == [i \in 1..readable(buf) |-> buf.buffer_[buf.read_index_ + i - 1]]

Queue == INSTANCE ByteQueue WITH queue <- Contents

ImplementsByteQueue == Queue!Spec
=============================================================================
