---------------------------- MODULE BufferProofs -----------------------------
(***************************************************************************)
(* Proofs about Buffer for every alphabet, every initial size, every room  *)
(* kept in front and every length of message: the shape of the vector, the *)
(* order of the indexes, and that a Buffer implements a queue of bytes.    *)
(***************************************************************************)
EXTENDS Buffer, SequenceTheorems, TLAPS

\* The members of a Buffer between two calls.
WellFormed(b) ==
    /\ b.size \in Nat /\ b.read_index_ \in Nat /\ b.write_index_ \in Nat
    /\ b.buffer_ \in [0 .. b.size - 1 -> Bytes]
    /\ pre_index_ <= b.read_index_
    /\ b.read_index_ <= b.write_index_
    /\ b.write_index_ <= b.size

-----------------------------------------------------------------------------
(* What each operation makes of a well-formed Buffer.                      *)

\* The members of a Buffer are those it is made of.
LEMMA Members ==
  ASSUME NEW f, NEW n, NEW r, NEW w
  PROVE  /\ BufferOf(f, n, r, w).buffer_ = f
         /\ BufferOf(f, n, r, w).size = n
         /\ BufferOf(f, n, r, w).read_index_ = r
         /\ BufferOf(f, n, r, w).write_index_ = w
  BY DEF BufferOf

\* What a well-formed Buffer satisfies, with the room kept in front.
LEMMA Facts ==
  ASSUME NEW b, WellFormed(b)
  PROVE  /\ b.size \in Nat /\ b.read_index_ \in Nat /\ b.write_index_ \in Nat
         /\ b.buffer_ \in [0 .. b.size - 1 -> Bytes]
         /\ pre_index_ <= b.read_index_
         /\ b.read_index_ <= b.write_index_
         /\ b.write_index_ <= b.size
         /\ pre_index_ \in Nat /\ pre_index_ <= b.size
  BY BufferAssumption DEF WellFormed

\* A Buffer made of a vector and indexes in order is well-formed.
LEMMA Fits ==
  ASSUME NEW n \in Nat, NEW f \in [0 .. n - 1 -> Bytes],
         NEW r \in Nat, NEW w \in Nat, pre_index_ <= r, r <= w, w <= n
  PROVE  WellFormed(BufferOf(f, n, r, w))
  BY DEF WellFormed, BufferOf

\* Storing a message for which there is room keeps the Buffer well-formed.
LEMMA StoreKeeps ==
  ASSUME NEW b, WellFormed(b), NEW message \in Seq(Bytes),
         b.write_index_ + Len(message) <= b.size
  PROVE  WellFormed(Store(b, message))
  <1> DEFINE f == Copy(b, b.write_index_, message)
             w == b.write_index_ + Len(message)
  <1>1. ASSUME NEW i \in 0 .. b.size - 1, i \in b.write_index_ .. w - 1
        PROVE  message[i - b.write_index_ + 1] \in Bytes
    <2>1. i - b.write_index_ + 1 \in 1..Len(message)
      BY <1>1 DEF WellFormed
    <2>2. QED
      BY <2>1
  <1>2. f \in [0 .. b.size - 1 -> Bytes]
    BY <1>1 DEF Copy, WellFormed
  <1>3. /\ w \in Nat /\ b.read_index_ <= w /\ w <= b.size
        /\ b.size \in Nat /\ b.read_index_ \in Nat /\ pre_index_ <= b.read_index_
    BY Facts
  <1>4. Store(b, message) = BufferOf(f, b.size, b.read_index_, w)
    BY DEF Store
  <1> HIDE DEF f, w
  <1>5. QED
    BY <1>2, <1>3, <1>4, Fits

\* The readable part moved to the front leaves the vector's type alone.
LEMMA MovedType ==
  ASSUME NEW b, WellFormed(b)
  PROVE  Moved(b) \in [0 .. b.size - 1 -> Bytes]
  <1>1. ASSUME NEW i \in pre_index_ .. pre_index_ + readable(b) - 1
        PROVE  b.buffer_[b.read_index_ + i - pre_index_] \in Bytes
    <2>1. b.read_index_ + i - pre_index_ \in 0 .. b.size - 1
      BY <1>1, BufferAssumption DEF readable, WellFormed
    <2>2. QED
      BY <2>1 DEF WellFormed
  <1>2. QED
    BY <1>1 DEF Moved, WellFormed

\* MakeEnough keeps the order of the indexes and the readable part's length,
\* and leaves room for len more bytes: the three branches together, with
\* their > and >=, never leave too little.
LEMMA MakeEnoughSuffices ==
  ASSUME NEW b, WellFormed(b), NEW len \in Nat
  PROVE  /\ WellFormed(MakeEnough(b, len))
         /\ MakeEnough(b, len).write_index_ + len <= MakeEnough(b, len).size
         /\ readable(MakeEnough(b, len)) = readable(b)
  <1>1. CASE writeable(b) > len
    BY <1>1 DEF MakeEnough, writeable, WellFormed
  <1>2. CASE ~(writeable(b) > len) /\ writeable(b) + preable(b) >= pre_index_ + len
    <2> DEFINE w == readable(b) + pre_index_
    <2>1. /\ w \in Nat /\ pre_index_ <= w /\ w + len <= b.size /\ w <= b.size
          /\ w - pre_index_ = readable(b)
      BY <1>2, BufferAssumption DEF readable, writeable, preable, WellFormed
    <2>2. MakeEnough(b, len) = BufferOf(Moved(b), b.size, pre_index_, w)
      BY <1>2 DEF MakeEnough, MoveToFront
    <2> HIDE DEF w
    <2>3. WellFormed(MakeEnough(b, len))
      <3>1. /\ Moved(b) \in [0 .. b.size - 1 -> Bytes]
            /\ b.size \in Nat /\ pre_index_ \in Nat /\ pre_index_ <= pre_index_
        BY MovedType, Facts
      <3>2. WellFormed(BufferOf(Moved(b), b.size, pre_index_, w))
        BY <2>1, <3>1, Fits
      <3>3. QED
        BY <2>2, <3>2
    <2>4. QED
      BY <2>1, <2>2, <2>3, Members DEF readable
  <1>3. CASE ~(writeable(b) > len) /\ ~(writeable(b) + preable(b) >= pre_index_ + len)
    <2> DEFINE n == b.size + len
    <2>1. n \in Nat /\ b.write_index_ + len <= n /\ b.write_index_ <= n
      BY DEF WellFormed
    <2>2. Extended(b, len) \in [0 .. n - 1 -> Bytes]
      BY BufferAssumption DEF Extended, WellFormed
    <2>3. MakeEnough(b, len) =
            BufferOf(Extended(b, len), n, b.read_index_, b.write_index_)
      BY <1>3 DEF MakeEnough, Resize
    <2> HIDE DEF n
    <2>4. WellFormed(MakeEnough(b, len))
      BY <2>1, <2>2, <2>3, Facts, Fits
    <2>5. QED
      BY <2>1, <2>3, <2>4, Members DEF readable
  <1>4. QED
    BY <1>1, <1>2, <1>3

\* Append keeps the Buffer well-formed.
LEMMA AppendBytesKeeps ==
  ASSUME NEW b, WellFormed(b), NEW message \in Seq(Bytes)
  PROVE  WellFormed(AppendBytes(b, message))
  <1>1. /\ WellFormed(MakeEnough(b, Len(message)))
        /\ MakeEnough(b, Len(message)).write_index_ + Len(message)
             <= MakeEnough(b, Len(message)).size
    BY MakeEnoughSuffices
  <1>2. QED
    BY <1>1, StoreKeeps DEF AppendBytes

\* ReadFd does too, however much readv delivers and whichever area it lands in.
LEMMA ReadFdKeeps ==
  ASSUME NEW b, WellFormed(b), NEW data \in Seq(Bytes)
  PROVE  WellFormed(ReadFd(b, data))
  <1>1. CASE Len(data) <= writeable(b)
    <2>1. b.write_index_ + Len(data) <= b.size
      BY <1>1 DEF writeable, WellFormed
    <2>2. QED
      BY <1>1, <2>1, StoreKeeps DEF ReadFd
  <1>2. CASE ~(Len(data) <= writeable(b))
    <2> DEFINE front == SubSeq(data, 1, writeable(b))
               back  == SubSeq(data, writeable(b) + 1, Len(data))
    <2>1. ReadFd(b, data) = AppendBytes(Store(b, front), back)
      BY <1>2 DEF ReadFd
    <2>2. writeable(b) \in Nat /\ writeable(b) < Len(data)
      BY <1>2 DEF writeable, WellFormed
    <2>3. front \in Seq(Bytes) /\ Len(front) = writeable(b) /\ back \in Seq(Bytes)
      BY <2>2
    <2> HIDE DEF front, back
    <2>4. b.write_index_ + Len(front) <= b.size
      BY <2>3 DEF writeable, WellFormed
    <2>5. QED
      BY <2>1, <2>3, <2>4, StoreKeeps, AppendBytesKeeps
  <1>3. QED
    BY <1>1, <1>2

\* So do the Retrieves, for any number of the readable bytes.
LEMMA RetrievesKeep ==
  ASSUME NEW b, WellFormed(b), NEW len \in 0..readable(b)
  PROVE  /\ WellFormed(RetrieveAll(b))
         /\ WellFormed(Retrieve(b, len))
         /\ WellFormed(RetrieveUntilIndex(b, len))
  <1>1. WellFormed(RetrieveAll(b))
    BY Facts, Fits DEF RetrieveAll
  <1>2. WellFormed(RetrieveUntilIndex(b, len))
    <2>1. /\ b.read_index_ + len \in Nat
          /\ pre_index_ <= b.read_index_ + len
          /\ b.read_index_ + len <= b.write_index_
      BY BufferAssumption DEF readable, WellFormed
    <2>2. QED
      BY <2>1, Facts, Fits DEF RetrieveUntilIndex
  <1>3. QED
    BY <1>1, <1>2 DEF Retrieve

-----------------------------------------------------------------------------
(* The invariants.                                                         *)

Inv == WellFormed(buf)

\* A Buffer is well-formed from its constructor on, whatever is called.
THEOREM AlwaysWellFormed == Spec => []Inv
  <1>1. Init => Inv
    <2>1. [i \in 0 .. kInitialSize - 1 |-> NUL] \in [0 .. kInitialSize - 1 -> Bytes]
      BY BufferAssumption
    <2>2. QED
      BY <2>1, BufferAssumption, Fits DEF Init, Inv
  <1>2. ASSUME Inv, [Next]_vars
        PROVE  Inv'
    <2>1. ASSUME NEW message \in Messages, Puts(message, AppendBytes(buf, message))
          PROVE  Inv'
      BY <1>2, <2>1, AppendBytesKeeps, BufferAssumption DEF Puts, Inv
    <2>2. ASSUME NEW message \in Messages, Puts(message, ReadFd(buf, message))
          PROVE  Inv'
      BY <1>2, <2>2, ReadFdKeeps, BufferAssumption DEF Puts, Inv
    <2>3. ASSUME NEW len \in 0..readable(buf),
                 \/ Takes(len, Retrieve(buf, len))
                 \/ Takes(len, RetrieveUntilIndex(buf, len))
          PROVE  Inv'
      BY <1>2, <2>3, RetrievesKeep DEF Takes, Inv
    <2>4. CASE Takes(readable(buf), RetrieveAll(buf))
      <3>1. 0 \in 0..readable(buf)
        BY <1>2, BufferAssumption DEF readable, Inv, WellFormed
      <3>2. QED
        BY <1>2, <2>4, <3>1, RetrievesKeep DEF Takes, Inv
    <2>5. CASE UNCHANGED vars
      BY <1>2, <2>5 DEF vars, Inv
    <2>6. QED
      BY <1>2, <2>1, <2>2, <2>3, <2>4, <2>5 DEF Next
  <1>3. QED
    BY <1>1, <1>2, PTL DEF Spec

\* The vector keeps its shape and its indexes their type.
THEOREM TypeCorrect == Spec => []TypeOK
  <1>1. Inv => TypeOK
    BY DEF Inv, WellFormed, TypeOK
  <1>2. QED
    BY <1>1, AlwaysWellFormed, PTL

\* The indexes never leave the vector, for every pre_index_, initial size,
\* size of extrabuf and length of message.
THEOREM IndexesStayInBounds == Spec => []IndexesInBounds
  <1>1. Inv => IndexesInBounds
    BY DEF Inv, WellFormed, IndexesInBounds
  <1>2. QED
    BY <1>1, AlwaysWellFormed, PTL

-----------------------------------------------------------------------------
(* A Buffer implements a queue of bytes.                                   *)

\* The readable part of a Buffer.
Holding(b) == [i \in 1..readable(b) |-> b.buffer_[b.read_index_ + i - 1]]

\* The readable part of a well-formed Buffer is a sequence of bytes.
LEMMA HoldingType ==
  ASSUME NEW b, WellFormed(b)
  PROVE  /\ readable(b) \in Nat
         /\ Holding(b) \in Seq(Bytes)
         /\ Len(Holding(b)) = readable(b)
  <1>1. readable(b) \in Nat
    BY DEF WellFormed, readable
  <1>2. ASSUME NEW i \in 1..readable(b)
        PROVE  b.buffer_[b.read_index_ + i - 1] \in Bytes
    <2>1. b.read_index_ + i - 1 \in 0 .. b.size - 1
      BY <1>2 DEF WellFormed, readable
    <2>2. QED
      BY <2>1 DEF WellFormed
  <1>3. QED
    BY <1>1, <1>2 DEF Holding

\* Two Buffers with the same bytes in their readable parts hold the same.
LEMMA SameHolding ==
  ASSUME NEW b, NEW c, readable(b) \in Nat, readable(c) = readable(b),
         \A i \in 1..readable(b) :
            c.buffer_[c.read_index_ + i - 1] = b.buffer_[b.read_index_ + i - 1]
  PROVE  Holding(c) = Holding(b)
  BY DEF Holding

\* MakeEnough neither loses nor changes a readable byte: the move to the front
\* reads what it copies before that is overwritten, and resize keeps it.
LEMMA MakeEnoughHolds ==
  ASSUME NEW b, WellFormed(b), NEW len \in Nat
  PROVE  Holding(MakeEnough(b, len)) = Holding(b)
  <1> DEFINE c == MakeEnough(b, len)
  <1>1. readable(b) \in Nat /\ readable(c) = readable(b)
    BY MakeEnoughSuffices, HoldingType
  <1>2. CASE writeable(b) > len
    BY <1>2 DEF MakeEnough
  <1>3. CASE ~(writeable(b) > len) /\ writeable(b) + preable(b) >= pre_index_ + len
    <2>1. c.read_index_ = pre_index_ /\ c.buffer_ = Moved(b)
      BY <1>3, Members DEF MakeEnough, MoveToFront
    <2>2. ASSUME NEW i \in 1..readable(b)
          PROVE  c.buffer_[c.read_index_ + i - 1] = b.buffer_[b.read_index_ + i - 1]
      <3>1. /\ pre_index_ + i - 1 \in 0 .. b.size - 1
            /\ pre_index_ + i - 1 \in pre_index_ .. pre_index_ + readable(b) - 1
            /\ b.read_index_ + (pre_index_ + i - 1) - pre_index_ = b.read_index_ + i - 1
        BY <2>2, Facts DEF readable
      <3> HIDE DEF c
      <3>2. QED
        BY <2>1, <3>1 DEF Moved
    <2> HIDE DEF c
    <2>3. Holding(c) = Holding(b)
      BY <1>1, <2>2, SameHolding
    <2>4. QED
      BY <2>3 DEF c
  <1>4. CASE ~(writeable(b) > len) /\ ~(writeable(b) + preable(b) >= pre_index_ + len)
    <2>1. c.read_index_ = b.read_index_ /\ c.buffer_ = Extended(b, len)
      BY <1>4, Members DEF MakeEnough, Resize
    <2>2. ASSUME NEW i \in 1..readable(b)
          PROVE  c.buffer_[c.read_index_ + i - 1] = b.buffer_[b.read_index_ + i - 1]
      <3>1. /\ b.read_index_ + i - 1 \in 0 .. b.size + len - 1
            /\ b.read_index_ + i - 1 < b.size
        BY <2>2, Facts DEF readable
      <3> HIDE DEF c
      <3>2. QED
        BY <2>1, <3>1 DEF Extended
    <2> HIDE DEF c
    <2>3. Holding(c) = Holding(b)
      BY <1>1, <2>2, SameHolding
    <2>4. QED
      BY <2>3 DEF c
  <1>5. QED
    BY <1>2, <1>3, <1>4

\* What is stored comes behind what was readable.
LEMMA StoreAppends ==
  ASSUME NEW b, WellFormed(b), NEW message \in Seq(Bytes),
         b.write_index_ + Len(message) <= b.size
  PROVE  Holding(Store(b, message)) = Holding(b) \o message
  <1> DEFINE c == Store(b, message)
             s == Holding(b) \o message
  <1>1. /\ b.size \in Nat /\ b.read_index_ \in Nat /\ b.write_index_ \in Nat
        /\ b.read_index_ <= b.write_index_ /\ Len(message) \in Nat
    BY Facts
  <1>2. /\ c.read_index_ = b.read_index_
        /\ c.write_index_ = b.write_index_ + Len(message)
        /\ c.buffer_ = Copy(b, b.write_index_, message)
    BY Members DEF Store
  <1>3. readable(c) = readable(b) + Len(message) /\ WellFormed(c)
    BY <1>1, <1>2, StoreKeeps DEF readable
  <1>4. /\ Holding(b) \in Seq(Bytes) /\ Len(Holding(b)) = readable(b)
        /\ readable(b) \in Nat
        /\ Holding(c) \in Seq(Bytes) /\ Len(Holding(c)) = readable(c)
    BY <1>3, HoldingType
  <1>5. /\ s \in Seq(Bytes) /\ Len(s) = readable(b) + Len(message)
        /\ \A i \in 1 .. readable(b) + Len(message) :
              s[i] = IF i <= readable(b) THEN Holding(b)[i] ELSE message[i - readable(b)]
    <2> DEFINE h == Holding(b)
    <2>1. h \in Seq(Bytes) /\ Len(h) = readable(b)
      BY <1>4
    <2> HIDE DEF h
    <2>2. /\ h \o message \in Seq(Bytes) /\ Len(h \o message) = Len(h) + Len(message)
          /\ \A i \in 1 .. Len(h) + Len(message) :
                (h \o message)[i] = IF i <= Len(h) THEN h[i] ELSE message[i - Len(h)]
      BY <2>1, ConcatProperties
    <2>3. QED
      BY <2>1, <2>2 DEF h
  <1> HIDE DEF c, s
  <1>6. ASSUME NEW i \in 1 .. readable(b) + Len(message)
        PROVE  Holding(c)[i] = s[i]
    <2>1. Holding(c)[i] = c.buffer_[b.read_index_ + i - 1]
      BY <1>2, <1>3 DEF Holding
    <2>2. b.read_index_ + i - 1 \in 0 .. b.size - 1
      BY <1>1 DEF readable
    <2>3. CASE i <= readable(b)
      <3>1. ~(b.read_index_ + i - 1 \in b.write_index_ .. b.write_index_ + Len(message) - 1)
        BY <1>1, <2>3 DEF readable
      <3>2. Holding(c)[i] = b.buffer_[b.read_index_ + i - 1]
        BY <1>2, <2>1, <2>2, <3>1 DEF Copy
      <3>3. Holding(b)[i] = b.buffer_[b.read_index_ + i - 1]
        BY <1>4, <2>3 DEF Holding
      <3>4. QED
        BY <1>5, <2>3, <3>2, <3>3
    <2>4. CASE ~(i <= readable(b))
      <3>1. PICK at \in 0 .. b.size - 1 : at = b.read_index_ + i - 1
        BY <2>2
      <3>2. /\ at \in b.write_index_ .. b.write_index_ + Len(message) - 1
            /\ at - b.write_index_ + 1 = i - readable(b)
        BY <1>1, <2>4, <3>1 DEF readable
      <3>3. Copy(b, b.write_index_, message)[at] = message[at - b.write_index_ + 1]
        BY <3>2 DEF Copy
      <3>4. Holding(c)[i] = message[i - readable(b)]
        BY <1>2, <2>1, <3>1, <3>2, <3>3
      <3>5. QED
        BY <1>5, <2>4, <3>4
    <2>5. QED
      BY <2>3, <2>4
  <1>7. QED
    BY <1>3, <1>4, <1>5, <1>6, SeqEqual DEF c, s

\* Append puts the message behind what was readable, made room for or not.
LEMMA AppendBytesAppends ==
  ASSUME NEW b, WellFormed(b), NEW message \in Seq(Bytes)
  PROVE  Holding(AppendBytes(b, message)) = Holding(b) \o message
  <1>1. Len(message) \in Nat
    OBVIOUS
  <1>2. /\ WellFormed(MakeEnough(b, Len(message)))
        /\ MakeEnough(b, Len(message)).write_index_ + Len(message)
             <= MakeEnough(b, Len(message)).size
        /\ Holding(MakeEnough(b, Len(message))) = Holding(b)
    BY <1>1, MakeEnoughSuffices, MakeEnoughHolds
  <1>3. QED
    BY <1>2, StoreAppends DEF AppendBytes

\* ReadFd does the same with what readv delivers, spread over the vector's end
\* and extrabuf or not.
LEMMA ReadFdAppends ==
  ASSUME NEW b, WellFormed(b), NEW data \in Seq(Bytes)
  PROVE  Holding(ReadFd(b, data)) = Holding(b) \o data
  <1>1. CASE Len(data) <= writeable(b)
    <2>1. b.write_index_ + Len(data) <= b.size
      BY <1>1 DEF writeable, WellFormed
    <2>2. QED
      BY <1>1, <2>1, StoreAppends DEF ReadFd
  <1>2. CASE ~(Len(data) <= writeable(b))
    <2> DEFINE n     == writeable(b)
               front == SubSeq(data, 1, n)
               back  == SubSeq(data, n + 1, Len(data))
    <2>1. ReadFd(b, data) = AppendBytes(Store(b, front), back)
      BY <1>2 DEF ReadFd
    <2>2. n \in Nat /\ n < Len(data) /\ n \in 1 - 1 .. Len(data)
      BY <1>2 DEF writeable, WellFormed
    <2>3. front \in Seq(Bytes) /\ Len(front) = n /\ back \in Seq(Bytes)
      BY <2>2
    <2>4. front \o back = data
      <3>1. 1 \in 1 .. Len(data) + 1 /\ n \in 1 - 1 .. Len(data) /\ Len(data) \in n .. Len(data)
        BY <2>2
      <3>2. front \o back = SubSeq(data, 1, Len(data))
        BY <3>1, ConcatAdjacentSubSeq
      <3>3. SubSeq(data, 1, Len(data)) = data
        BY SubSeqFull
      <3>4. QED
        BY <3>2, <3>3
    <2>5. Holding(b) \in Seq(Bytes)
      BY HoldingType
    <2> HIDE DEF front, back
    <2>6. b.write_index_ + Len(front) <= b.size
      BY <2>3 DEF writeable, WellFormed
    <2>7. /\ WellFormed(Store(b, front))
          /\ Holding(Store(b, front)) = Holding(b) \o front
      BY <2>3, <2>6, StoreKeeps, StoreAppends
    <2>8. Holding(ReadFd(b, data)) = (Holding(b) \o front) \o back
      BY <2>1, <2>3, <2>7, AppendBytesAppends
    <2>9. (Holding(b) \o front) \o back = Holding(b) \o (front \o back)
      BY <2>3, <2>5, ConcatAssociative
    <2>10. QED
      BY <2>4, <2>8, <2>9
  <1>3. QED
    BY <1>1, <1>2

\* The Retrieves take just what they were asked for from the front; taking
\* everything also sends both indexes back to pre_index_.
LEMMA RetrievesTake ==
  ASSUME NEW b, WellFormed(b), NEW len \in 0..readable(b)
  PROVE  /\ Holding(RetrieveUntilIndex(b, len)) = SubSeq(Holding(b), len + 1, readable(b))
         /\ Holding(RetrieveAll(b)) = SubSeq(Holding(b), readable(b) + 1, readable(b))
         /\ Holding(Retrieve(b, len)) = SubSeq(Holding(b), len + 1, readable(b))
  <1>1. /\ b.size \in Nat /\ b.read_index_ \in Nat /\ b.write_index_ \in Nat
        /\ b.read_index_ <= b.write_index_ /\ pre_index_ \in Nat
        /\ readable(b) \in Nat /\ readable(b) = b.write_index_ - b.read_index_
    BY Facts DEF readable
  <1>2. Holding(b) \in Seq(Bytes) /\ Len(Holding(b)) = readable(b)
    BY HoldingType
  <1>3. Holding(RetrieveAll(b)) = <<>>
    <2>1. readable(RetrieveAll(b)) = 0
      BY <1>1, Members DEF RetrieveAll, readable
    <2>2. QED
      BY <2>1 DEF Holding
  <1>4. SubSeq(Holding(b), readable(b) + 1, readable(b)) = <<>>
    BY <1>1, <1>2
  <1>5. Holding(RetrieveUntilIndex(b, len)) = SubSeq(Holding(b), len + 1, readable(b))
    <2> DEFINE c == RetrieveUntilIndex(b, len)
               s == SubSeq(Holding(b), len + 1, readable(b))
    <2>1. /\ c.read_index_ = b.read_index_ + len /\ c.write_index_ = b.write_index_
          /\ c.buffer_ = b.buffer_ /\ WellFormed(c)
      BY Members, RetrievesKeep DEF RetrieveUntilIndex
    <2>2. readable(c) = readable(b) - len
      BY <1>1, <2>1 DEF readable
    <2>3. Holding(c) \in Seq(Bytes) /\ Len(Holding(c)) = readable(b) - len
      BY <2>1, <2>2, HoldingType
    <2>4. /\ s \in Seq(Bytes) /\ Len(s) = readable(b) - len
          /\ \A i \in 1 .. readable(b) - len : s[i] = Holding(b)[len + i]
      BY <1>1, <1>2
    <2> HIDE DEF c, s
    <2>5. ASSUME NEW i \in 1 .. readable(b) - len
          PROVE  Holding(c)[i] = s[i]
      <3>1. Holding(c)[i] = b.buffer_[b.read_index_ + len + i - 1]
        BY <2>1, <2>2 DEF Holding
      <3>2. len + i \in 1..readable(b) /\ b.read_index_ + (len + i) - 1 = b.read_index_ + len + i - 1
        BY <1>1
      <3>3. Holding(b)[len + i] = b.buffer_[b.read_index_ + len + i - 1]
        BY <3>2 DEF Holding
      <3>4. QED
        BY <2>4, <3>1, <3>3
    <2>6. QED
      BY <2>3, <2>4, <2>5, SeqEqual DEF c, s
  <1>6. CASE len + b.read_index_ < b.write_index_
    BY <1>3, <1>4, <1>5, <1>6 DEF Retrieve
  <1>7. CASE ~(len + b.read_index_ < b.write_index_)
    <2>1. len = readable(b)
      BY <1>1, <1>7
    <2>2. QED
      BY <1>3, <1>4, <1>5, <1>7, <2>1 DEF Retrieve
  <1>8. QED
    BY <1>6, <1>7

\* Every call is a call of the queue.
LEMMA StepsImplement ==
  ASSUME Inv, [Next]_vars
  PROVE  [Queue!Next]_<<Contents, call>>
  <1>1. /\ WellFormed(buf) /\ Contents = Holding(buf) /\ Contents' = Holding(buf')
        /\ readable(buf) \in Nat /\ Len(Contents) = readable(buf)
    BY HoldingType DEF Inv, Contents, Holding
  <1>2. ASSUME NEW message \in Messages, NEW b, Puts(message, b),
               Holding(b) = Holding(buf) \o message
        PROVE  Queue!Next
    <2>1. Queue!Put(message)
      BY <1>1, <1>2 DEF Puts, Queue!Put
    <2>2. QED
      BY <2>1 DEF Queue!Next
  <1>3. ASSUME NEW len \in 0..readable(buf), NEW b, Takes(len, b),
               Holding(b) = SubSeq(Holding(buf), len + 1, readable(buf))
        PROVE  Queue!Next
    <2>1. Queue!Take(len)
      BY <1>1, <1>3 DEF Takes, Queue!Take
    <2>2. QED
      BY <1>1, <2>1 DEF Queue!Next
  <1>4. ASSUME NEW message \in Messages,
               \/ Puts(message, AppendBytes(buf, message))
               \/ Puts(message, ReadFd(buf, message))
        PROVE  Queue!Next
    <2>1. message \in Seq(Bytes)
      BY BufferAssumption
    <2>2. QED
      BY <1>1, <1>2, <1>4, <2>1, AppendBytesAppends, ReadFdAppends
  <1>5. ASSUME NEW len \in 0..readable(buf),
               \/ Takes(len, Retrieve(buf, len))
               \/ Takes(len, RetrieveUntilIndex(buf, len))
        PROVE  Queue!Next
    BY <1>1, <1>3, <1>5, RetrievesTake
  <1>6. CASE Takes(readable(buf), RetrieveAll(buf))
    <2>1. readable(buf) \in 0..readable(buf)
      BY <1>1
    <2>2. QED
      BY <1>1, <1>3, <1>6, <2>1, RetrievesTake
  <1>7. CASE UNCHANGED vars
    BY <1>7 DEF vars, Contents, readable
  <1>8. QED
    BY <1>4, <1>5, <1>6, <1>7 DEF Next

\* A Buffer is a queue of bytes, for every pre_index_, initial size, size of
\* extrabuf and length of message: whatever was moved, resized or spread over
\* two areas, bytes come out as they went in.
THEOREM QueueImplemented == Spec => ImplementsByteQueue
  <1>1. Init => Queue!Init
    <2>1. SUFFICES ASSUME Init PROVE Contents = <<>> /\ call = [in |-> <<>>, out |-> 0]
      BY DEF Queue!Init
    <2>2. readable(buf) = 0
      BY <2>1, Members, BufferAssumption DEF Init, readable
    <2>3. Contents = <<>>
      BY <2>2 DEF Contents
    <2>4. QED
      BY <2>1, <2>3 DEF Init
  <1>2. Inv /\ [Next]_vars => [Queue!Next]_<<Contents, call>>
    BY StepsImplement
  <1>3. QED
    BY <1>1, <1>2, AlwaysWellFormed, PTL DEF Spec, Queue!Spec, ImplementsByteQueue
=============================================================================
