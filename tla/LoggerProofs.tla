---------------------------- MODULE LoggerProofs ----------------------------
(***************************************************************************)
(* Of the log, for all statements, lines and sizes: a LogStream never      *)
(* writes past its buffer and a line which leaves room for one more        *)
(* integer lacks nothing; AsyncLogging's threads never use a buffer that   *)
(* has been moved from under mutex_, and the crash of its recycling takes  *)
(* a buffer that ran full; and the lines that Append keeps reach the file  *)
(* whole, once each and in order (LogSink).                                *)
(***************************************************************************)
EXTENDS Logger, SequenceTheorems, WellFoundedInduction, TLAPS

-----------------------------------------------------------------------------
(* LogStream: one line.                                                    *)

\* The first n bytes of what statement c was to log.
Line(c, n) == [i \in 1..n |-> <<c, i>>]

StreamInv ==
    /\ count \in Nat /\ wanted \in Nat
    /\ todo \in Seq(Piece)
    /\ buf_ \in Seq({count} \X Nat) /\ Len(buf_) <= SmallSize
    /\ WholeOrFull

\* How a concatenation is recognised.
LEMMA Concatenation ==
    ASSUME NEW S, NEW s \in Seq(S), NEW t \in Seq(S), NEW u \in Seq(S),
           Len(u) = Len(s) + Len(t),
           \A i \in 1..Len(s) : u[i] = s[i],
           \A i \in 1..Len(t) : u[Len(s) + i] = t[i]
    PROVE  s \o t = u
<1>1. s \o t \in Seq(S) /\ Len(s \o t) = Len(s) + Len(t)
  BY ConcatProperties
<1>2. \A i \in 1 .. Len(s) + Len(t) :
         (s \o t)[i] = IF i <= Len(s) THEN s[i] ELSE t[i - Len(s)]
  BY ConcatProperties
<1>3. Len(s) \in Nat /\ Len(t) \in Nat
  OBVIOUS
<1>4. ASSUME NEW i \in 1 .. Len(s) + Len(t)
      PROVE  (s \o t)[i] = u[i]
  <2>1. CASE i <= Len(s)
    BY <2>1, <1>2, <1>3
  <2>2. CASE i > Len(s)
    <3>1. i - Len(s) \in 1..Len(t) /\ Len(s) + (i - Len(s)) = i
      BY <2>2, <1>3
    <3>2. u[i] = t[i - Len(s)]
      BY <3>1
    <3> QED BY <3>2, <2>2, <1>2, <1>3
  <2> QED BY <2>1, <2>2, <1>3
<1> QED BY <1>1, <1>4, SeqEqual

\* A line followed by its next n bytes is a longer line.
LEMMA LineExtends ==
    ASSUME NEW c, NEW w \in Nat, NEW n \in Nat
    PROVE  Line(c, w) \o [i \in 1..n |-> <<c, w + i>>] = Line(c, w + n)
<1> DEFINE S == {c} \X Nat
           s == Line(c, w)
           t == [i \in 1..n |-> <<c, w + i>>]
           u == Line(c, w + n)
<1>1. s \in Seq(S) /\ Len(s) = w /\ \A i \in 1..w : s[i] = <<c, i>>
  BY DEF Line
<1>2. t \in Seq(S) /\ Len(t) = n /\ \A i \in 1..n : t[i] = <<c, w + i>>
  OBVIOUS
<1>3. /\ u \in Seq(S) /\ Len(u) = w + n
      /\ \A i \in 1..(w + n) : u[i] = <<c, i>>
  BY DEF Line
<1>4. s \o t = u
  <2> HIDE DEF S, s, t, u
  <2>1. \A i \in 1..n : w + i \in 1..(w + n)
    OBVIOUS
  <2>2. \A i \in 1..w : i \in 1..(w + n)
    OBVIOUS
  <2>3. (\A i \in 1..Len(s) : u[i] = s[i]) /\ \A i \in 1..Len(t) : u[Len(s) + i] = t[i]
    BY <1>1, <1>2, <1>3, <2>1, <2>2
  <2>4. Len(u) = Len(s) + Len(t)
    BY <1>1, <1>2, <1>3
  <2> QED BY <1>1, <1>2, <1>3, <2>3, <2>4, Concatenation
<1> QED BY <1>4

\* The number of bytes of a piece that are put.
Length(piece) == IF piece.kind = "text" THEN Fitting(piece.length)
                ELSE Formatted(piece.length)

\* What is put of a piece fits; it is the whole piece, or the line is full, or
\* nothing is put on a line without room for an integer.
LEMMA LengthFits ==
    ASSUME LogStreamAssumption, StreamInv, NEW piece \in Piece
    PROVE  /\ Length(piece) \in Nat
           /\ Len(buf_) + Length(piece) <= SmallSize
           /\ \/ Length(piece) = piece.length
              \/ Len(buf_) + Length(piece) + NumLength > SmallSize
<1>1. /\ SmallSize \in Nat /\ NumLength \in Nat /\ NumLength > 0
      /\ Len(buf_) \in Nat /\ Len(buf_) <= SmallSize
  BY DEF StreamInv, LogStreamAssumption
<1>2. piece.length \in Nat
  BY DEF Piece
<1>3. CASE piece.kind = "text"
  BY <1>1, <1>2, <1>3 DEF Length, Fitting, writablebytes
<1>4. CASE piece.kind # "text"
  <2>1. piece.length < NumLength
    BY <1>4 DEF Piece
  <2> QED BY <1>1, <1>2, <1>4, <2>1 DEF Length, Formatted, writablebytes
<1> QED BY <1>3, <1>4

\* Each step preserves the invariant.
LEMMA StreamPreserves ==
    ASSUME LogStreamAssumption, StreamInv, [StreamNext]_streamVars
    PROVE  StreamInv'
<1>0. /\ count \in Nat /\ wanted \in Nat /\ todo \in Seq(Piece)
      /\ buf_ \in Seq({count} \X Nat) /\ Len(buf_) <= SmallSize
      /\ SmallSize \in Nat /\ NumLength \in Nat /\ NumLength > 0
  BY DEF StreamInv, LogStreamAssumption
<1>1. ASSUME NEW statement \in Statements, Begin(statement)
      PROVE  StreamInv'
  <2>1. count' \in Nat /\ wanted' = 0 /\ buf_' = <<>>
    BY <1>0, <1>1 DEF Begin
  <2>2. todo' \in Seq(Piece)
    <3>1. statement \in Seq(Piece) /\ Header \in Seq(Piece) /\ Ending \in Seq(Piece)
      BY <1>1 DEF LogStreamAssumption
    <3>2. Pieces(statement) \in Seq(Piece)
      BY <3>1 DEF Pieces
    <3> QED BY <1>1, <3>2 DEF Begin
  <2>3. buf_' \in Seq({count'} \X Nat) /\ Len(buf_') = 0
    BY <2>1
  <2>4. buf_' = [i \in 1..wanted' |-> <<count', i>>]
    BY <2>1
  <2> QED BY <1>0, <2>1, <2>2, <2>3, <2>4 DEF StreamInv, WholeOrFull
<1>2. CASE Put
  <2> DEFINE piece == Head(todo)
             n == Length(piece)
  <2>1. /\ count' = count /\ wanted' = wanted + piece.length
        /\ buf_' = buf_ \o Streamed(n) /\ todo' = Tail(todo) /\ todo # <<>>
    BY <1>2 DEF Put, Length
  <2>2. piece \in Piece /\ todo' \in Seq(Piece)
    BY <1>0, <2>1
  <2>3. /\ n \in Nat /\ Len(buf_) + n <= SmallSize
        /\ n = piece.length \/ Len(buf_) + n + NumLength > SmallSize
    BY <2>2, LengthFits
  <2>4. piece.length \in Nat
    BY <2>2 DEF Piece
  <2> HIDE DEF n, piece
  <2>5. Streamed(n) \in Seq({count} \X Nat) /\ Len(Streamed(n)) = n
    BY <1>0, <2>3 DEF Streamed
  <2>6. buf_' \in Seq({count'} \X Nat) /\ Len(buf_') = Len(buf_) + n
    <3>1. buf_ \in Seq({count} \X Nat) /\ Streamed(n) \in Seq({count} \X Nat)
      BY <1>0, <2>5
    <3>2. /\ buf_ \o Streamed(n) \in Seq({count} \X Nat)
          /\ Len(buf_ \o Streamed(n)) = Len(buf_) + Len(Streamed(n))
      BY <3>1, ConcatProperties
    <3> QED BY <3>2, <2>1, <2>5
  <2>7. WholeOrFull'
    <3>1. CASE Len(buf_) + NumLength > SmallSize \/ n # piece.length
      <4>1. Len(buf_') + NumLength > SmallSize
        BY <1>0, <2>3, <2>6, <3>1
      <4> QED BY <4>1 DEF WholeOrFull
    <3>2. CASE buf_ = Line(count, wanted) /\ n = piece.length
      <4>1. buf_' = Line(count, wanted + n)
        BY <1>0, <2>1, <2>3, <3>2, LineExtends DEF Streamed
      <4> QED BY <2>1, <3>2, <4>1 DEF WholeOrFull, Line
    <3> QED BY <3>1, <3>2 DEF StreamInv, WholeOrFull, Line
  <2> QED BY <1>0, <2>1, <2>2, <2>3, <2>4, <2>6, <2>7 DEF StreamInv
<1>3. CASE Output \/ UNCHANGED streamVars
  BY <1>0, <1>3 DEF StreamInv, WholeOrFull, Output, streamVars
<1> QED BY <1>1, <1>2, <1>3 DEF StreamNext

\* The first statement's line is empty before it begins.
LEMMA StreamStarts == StreamInit => StreamInv
<1>1. SUFFICES ASSUME StreamInit PROVE StreamInv
  OBVIOUS
<1>2. buf_ = [i \in 1..wanted |-> <<count, i>>]
  BY <1>1 DEF StreamInit
<1> QED BY <1>1, <1>2, LogStreamAssumption
        DEF StreamInit, StreamInv, WholeOrFull, LogStreamAssumption

\* The inductive invariant.
THEOREM StreamInvariance == StreamSpec => []StreamInv
<1>1. StreamInv /\ [StreamNext]_streamVars => StreamInv'
  BY StreamPreserves, LogStreamAssumption
<1> QED BY <1>1, StreamStarts, PTL DEF StreamSpec

\* FixedBuffer::Append and FormatInteger stay inside buf_.
THEOREM StaysInBuffer == StreamSpec => [](Len(buf_) <= SmallSize)
<1>1. StreamInv => Len(buf_) <= SmallSize
  BY DEF StreamInv
<1> QED BY <1>1, StreamInvariance, PTL

\* What a statement streams is in its line whole and in order, unless the line
\* has no room for another integer.
THEOREM LinesWholeOrFull == StreamSpec => []WholeOrFull
<1>1. StreamInv => WholeOrFull
  BY DEF StreamInv
<1> QED BY <1>1, StreamInvariance, PTL

-----------------------------------------------------------------------------
(* FlattenSeq of the community modules, of which nothing is known yet.     *)

\* A set of naturals that is not empty has a least element.
LEMMA LeastNat ==
    ASSUME NEW T, T \subseteq Nat, T # {}
    PROVE  \E x \in T : \A y \in T : x <= y
<1> DEFINE R == OpToRel(<, Nat)
<1>1. PICK x \in T : \A y \in T : <<y, x>> \notin R
  <2> HIDE DEF R
  <2> QED BY WFMin, NatLessThanWellFounded DEF R
<1>2. ASSUME NEW y \in T PROVE x <= y
  <2>1. x \in Nat /\ y \in Nat /\ ~(y < x)
    BY <1>1 DEF OpToRel
  <2> QED BY <2>1
<1> QED BY <1>2

\* f[i] is the first i sequences of s put together, for the first n of them.
Flattens(f, s, n) ==
    f = [i \in 1..n |-> IF i = 1 THEN s[i] ELSE f[i - 1] \o s[i]]

\* What the function is at one place.
LEMMA FlattensAt ==
    ASSUME NEW f, NEW s, NEW n, Flattens(f, s, n), NEW i \in 1..n
    PROVE  f[i] = IF i = 1 THEN s[i] ELSE f[i - 1] \o s[i]
  BY DEF Flattens

\* There is such a function for any sequence of sequences.
LEMMA FlattensExists ==
    ASSUME NEW S, NEW s \in Seq(Seq(S)), NEW n \in 0..Len(s)
    PROVE  \E f : Flattens(f, s, n) /\ \A i \in 1..n : f[i] \in Seq(S)
<1> DEFINE P(m) == \E f : Flattens(f, s, m) /\ \A i \in 1..m : f[i] \in Seq(S)
           T == {m \in 0..Len(s) : ~P(m)}
<1>1. SUFFICES ASSUME T # {} PROVE FALSE
  BY <1>1
<1>2. T \subseteq Nat
  OBVIOUS
<1>3. PICK m \in T : \A k \in T : m <= k
  <2> HIDE DEF T
  <2> QED BY <1>1, <1>2, LeastNat
<1>4. m \in 0..Len(s) /\ ~P(m)
  OBVIOUS
<1>5. m # 0
  <2>1. P(0)
    <3> DEFINE f == [i \in 1..0 |-> <<>>]
    <3>1. Flattens(f, s, 0)
      BY DEF Flattens
    <3> QED BY <3>1
  <2> QED BY <1>4, <2>1
<1>6. m - 1 \in 0..Len(s) /\ m - 1 \notin T
  <2>1. m - 1 \in 0..Len(s) /\ ~(m <= m - 1)
    BY <1>4, <1>5
  <2> HIDE DEF T
  <2> QED BY <2>1, <1>3
<1>7. PICK g : Flattens(g, s, m - 1) /\ \A i \in 1 .. m - 1 : g[i] \in Seq(S)
  BY <1>6
<1> DEFINE f == [i \in 1..m |-> IF i < m THEN g[i]
                                ELSE IF i = 1 THEN s[i] ELSE g[i - 1] \o s[i]]
<1>8. \A i \in 1..m : s[i] \in Seq(S)
  BY <1>4
<1>9. \A i \in 1..m : f[i] \in Seq(S)
  BY <1>4, <1>5, <1>7, <1>8
<1>10. ASSUME NEW i \in 1..m
       PROVE  f[i] = IF i = 1 THEN s[i] ELSE f[i - 1] \o s[i]
  <2>1. m \in Nat /\ i \in Nat
    BY <1>4
  <2>2. i # 1 => i - 1 \in 1..m /\ i - 1 < m /\ f[i - 1] = g[i - 1]
    BY <2>1
  <2>3. CASE i < m
    <3>1. i \in 1 .. m - 1
      BY <2>1, <2>3
    <3>2. g[i] = IF i = 1 THEN s[i] ELSE g[i - 1] \o s[i]
      BY <3>1, <1>7 DEF Flattens
    <3>3. f[i] = g[i]
      BY <2>3
    <3> QED BY <3>2, <3>3, <2>2
  <2>4. CASE i = m
    <3>1. f[i] = IF i = 1 THEN s[i] ELSE g[i - 1] \o s[i]
      BY <2>1, <2>4
    <3> QED BY <3>1, <2>2
  <2> QED BY <2>1, <2>3, <2>4
<1>11. Flattens(f, s, m)
  <2>1. f = [i \in 1..m |-> f[i]]
    OBVIOUS
  <2> HIDE DEF f
  <2> QED BY <2>1, <1>10 DEF Flattens
<1>12. P(m)
  <2> HIDE DEF f
  <2> QED BY <1>9, <1>11
<1> QED BY <1>4, <1>12

\* And only one, which goes by the sequences put together alone.
LEMMA FlattensUnique ==
    ASSUME NEW k \in Nat, NEW n \in Nat, k <= n,
           NEW f, NEW s, Flattens(f, s, k), NEW g, NEW t, Flattens(g, t, n),
           \A i \in 1..k : s[i] = t[i]
    PROVE  \A i \in 1..k : f[i] = g[i]
<1> DEFINE T == {i \in 1..k : f[i] # g[i]}
<1>1. SUFFICES ASSUME T # {} PROVE FALSE
  BY <1>1
<1>2. T \subseteq Nat
  OBVIOUS
<1>3. PICK i \in T : \A j \in T : i <= j
  <2> HIDE DEF T
  <2> QED BY <1>1, <1>2, LeastNat
<1>4. i \in 1..k /\ f[i] # g[i] /\ i \in 1..n /\ s[i] = t[i]
  OBVIOUS
<1>5. /\ f[i] = IF i = 1 THEN s[i] ELSE f[i - 1] \o s[i]
      /\ g[i] = IF i = 1 THEN t[i] ELSE g[i - 1] \o t[i]
  BY <1>4, FlattensAt
<1>6. CASE i = 1
  BY <1>4, <1>5, <1>6
<1>7. CASE i # 1
  <2>1. i - 1 \in 1..k /\ ~(i <= i - 1)
    BY <1>4, <1>7
  <2>2. f[i - 1] = g[i - 1]
    BY <2>1, <1>3
  <2> QED BY <2>2, <1>4, <1>5, <1>7
<1> QED BY <1>6, <1>7

\* FlattenSeq is the last value of that function.
LEMMA FlattenIs ==
    ASSUME NEW S, NEW s \in Seq(Seq(S)), s # <<>>
    PROVE  \E f : /\ Flattens(f, s, Len(s)) /\ FlattenSeq(s) = f[Len(s)]
                  /\ \A i \in 1..Len(s) : f[i] \in Seq(S)
<1>1. Len(s) \in Nat /\ Len(s) # 0 /\ Len(s) \in 0..Len(s)
  BY EmptySeq
<1> DEFINE f == CHOOSE f :
                   f = [i \in 1..Len(s) |-> IF i = 1 THEN s[i] ELSE f[i - 1] \o s[i]]
<1>2. FlattenSeq(s) = f[Len(s)]
  BY <1>1, Zenon DEF FlattenSeq
<1>3. PICK g : Flattens(g, s, Len(s)) /\ \A i \in 1..Len(s) : g[i] \in Seq(S)
  BY <1>1, FlattensExists
<1>4. Flattens(f, s, Len(s))
  BY <1>3, Zenon DEF Flattens
<1> HIDE DEF f
<1>5. \A i \in 1..Len(s) : f[i] = g[i]
  <2>1. Len(s) <= Len(s) /\ \A i \in 1..Len(s) : s[i] = s[i]
    BY <1>1
  <2> DEFINE n == Len(s)
  <2>2. n \in Nat /\ n <= n /\ Flattens(f, s, n) /\ Flattens(g, s, n)
        /\ \A i \in 1..n : s[i] = s[i]
    BY <2>1, <1>1, <1>3, <1>4
  <2> HIDE DEF n
  <2>3. \A i \in 1..n : f[i] = g[i]
    BY <2>2, FlattensUnique
  <2> QED BY <2>3 DEF n
<1> QED BY <1>2, <1>3, <1>4, <1>5

\* Nothing put together is nothing.
LEMMA FlattenEmpty == FlattenSeq(<<>>) = <<>>
  BY DEF FlattenSeq

\* Sequences put together are a sequence.
LEMMA FlattenType ==
    ASSUME NEW S, NEW s \in Seq(Seq(S))
    PROVE  FlattenSeq(s) \in Seq(S)
<1>1. CASE s = <<>>
  <2>1. <<>> \in Seq(S)
    OBVIOUS
  <2> QED BY <1>1, <2>1, FlattenEmpty
<1>2. CASE s # <<>>
  <2>1. Len(s) \in 1..Len(s)
    BY <1>2, EmptySeq
  <2> QED BY <1>2, <2>1, FlattenIs
<1> QED BY <1>1, <1>2

\* One sequence more comes behind what the others make.
LEMMA FlattenAppend ==
    ASSUME NEW S, NEW s \in Seq(Seq(S)), NEW x \in Seq(S)
    PROVE  FlattenSeq(Append(s, x)) = FlattenSeq(s) \o x
<1>1. PICK n \in Nat : n = Len(s)
  BY EmptySeq
<1>2. PICK t : t = Append(s, x)
  OBVIOUS
<1>3. /\ t \in Seq(Seq(S)) /\ Len(t) = n + 1 /\ t # <<>>
      /\ (\A i \in 1..n : t[i] = s[i]) /\ t[n + 1] = x
  <2>1. t \in Seq(Seq(S)) /\ Len(t) = Len(s) + 1 /\ \A i \in 1..Len(s) : t[i] = s[i]
    BY <1>2, AppendProperties
  <2>2. t[Len(s) + 1] = x
    BY <1>2, AppendProperties
  <2> QED BY <1>1, <2>1, <2>2, EmptySeq
<1>4. PICK g : Flattens(g, t, n + 1) /\ FlattenSeq(t) = g[n + 1]
  BY <1>3, FlattenIs
<1>5. g[n + 1] = IF n + 1 = 1 THEN t[n + 1] ELSE g[n + 1 - 1] \o t[n + 1]
  BY <1>4, FlattensAt
<1>6. CASE s = <<>>
  <2>1. n = 0
    BY <1>1, <1>6
  <2>2. g[n + 1] = x
    BY <1>3, <1>5, <2>1
  <2>3. <<>> \o x = x
    BY ConcatEmptySeq
  <2> QED BY <1>2, <1>4, <1>6, <2>2, <2>3, FlattenEmpty
<1>7. CASE s # <<>>
  <2>1. n # 0 /\ n \in 1..n /\ n + 1 - 1 = n /\ n + 1 # 1
    BY <1>1, <1>7, EmptySeq
  <2>2. PICK f : Flattens(f, s, n) /\ FlattenSeq(s) = f[n]
    BY <1>1, <1>7, FlattenIs
  <2>3. n + 1 \in Nat /\ n <= n + 1 /\ \A i \in 1..n : s[i] = t[i]
    BY <1>3
  <2>4. \A i \in 1..n : f[i] = g[i]
    BY <1>4, <2>2, <2>3, FlattensUnique
  <2>5. g[n + 1] = g[n] \o x
    BY <1>3, <1>5, <2>1
  <2> QED BY <1>2, <1>4, <2>1, <2>2, <2>4, <2>5
<1> QED BY <1>6, <1>7

-----------------------------------------------------------------------------
(* AsyncLogging: the double buffer.                                        *)

Step == (\E line \in Seq(Bytes) : AppendLine(line)) \/ ThreadFunc

\* The thread's newbuffer_current is there until the swap, and from then on
\* there is a buffer to recycle.
SparesInv ==
    /\ pc \in {"test", "waited"} => newbuffer_current # Null
    /\ pc \in {"write", "recycle"} => buffers # <<>>

AsyncInv == BuffersOK /\ SparesInv /\ CrashTakesFullBuffer /\ (next_ = Null => lost # {})

\* A new or a zeroed buffer is a buffer.
LEMMA EmptyBuffer == AsyncLoggingAssumption => <<>> \in Buffer /\ <<>> # Null
<1>1. <<>> \in Seq(Bytes) /\ Len(<<>>) = 0
  OBVIOUS
<1>2. AsyncLoggingAssumption => Capacity \in Nat /\ <<>> # Null
  BY <1>1 DEF AsyncLoggingAssumption
<1>3. Capacity \in Nat => 0 <= Capacity
  OBVIOUS
<1> QED BY <1>1, <1>2, <1>3 DEF Buffer

\* Append of any line preserves the invariant.
LEMMA AppendPreserves ==
    ASSUME AsyncLoggingAssumption, AsyncInv, NEW line \in Seq(Bytes), AppendLine(line)
    PROVE  AsyncInv'
<1>1. BuffersOK /\ (next_ = Null => lost # {})
  BY DEF AsyncInv
<1>2. UNCHANGED <<newbuffer_current, newbuffer_next, buffers, pc>>
  BY DEF AppendLine, threadVars
<1>3. CASE Len(current_) + Len(line) <= Capacity
  <2>1. /\ current_' = current_ \o line
        /\ UNCHANGED <<next_, buffers_to_write_, lost>>
    BY <1>3 DEF AppendLine
  <2>2. current_' \in Buffer
    BY <1>1, <1>3, <2>1 DEF BuffersOK, Buffer
  <2> QED BY <1>1, <1>2, <2>1, <2>2 DEF AsyncInv, BuffersOK, SparesInv, CrashTakesFullBuffer
<1>4. CASE ~(Len(current_) + Len(line) <= Capacity)
  <2>1. /\ buffers_to_write_' = Append(buffers_to_write_, current_)
        /\ current_' = Spare /\ next_' = Null /\ lost' = lost \cup {line}
    BY <1>4 DEF AppendLine
  <2>2. current_' \in Buffer
    BY <1>1, <2>1, EmptyBuffer DEF BuffersOK, Spare
  <2>3. buffers_to_write_' \in Seq(Buffer) /\ lost' # {}
    BY <1>1, <2>1 DEF BuffersOK
  <2> QED BY <1>1, <1>2, <2>1, <2>2, <2>3
          DEF AsyncInv, BuffersOK, SparesInv, CrashTakesFullBuffer
<1> QED BY <1>3, <1>4

\* Each step of ThreadFunc preserves the invariant.
LEMMA ThreadPreserves ==
    ASSUME AsyncLoggingAssumption, AsyncInv, ThreadFunc
    PROVE  AsyncInv'
<1>1. /\ BuffersOK /\ SparesInv
      /\ pc = "crashed" \/ newbuffer_next = Null \/ next_ = Null => lost # {}
  BY DEF AsyncInv, CrashTakesFullBuffer
<1>2. CASE WaitForFewSeconds
  BY <1>1, <1>2 DEF WaitForFewSeconds, AsyncInv, BuffersOK, SparesInv,
                    CrashTakesFullBuffer, sharedVars, threadVars
<1>3. CASE SwapBuffers
  <2>1. /\ pc \in {"test", "waited"} /\ pc' = "write"
        /\ buffers' = Append(buffers_to_write_, current_)
        /\ buffers_to_write_' = <<>>
        /\ current_' = newbuffer_current /\ newbuffer_current' = Null
        /\ next_' = IF next_ = Null THEN newbuffer_next ELSE next_
        /\ newbuffer_next' = IF next_ = Null THEN Null ELSE newbuffer_next
        /\ lost' = lost
    BY <1>3 DEF SwapBuffers, Taken, NextMissing
  <2>2. buffers' \in Seq(Buffer) /\ buffers' # <<>> /\ buffers_to_write_' \in Seq(Buffer)
    BY <1>1, <2>1 DEF BuffersOK
  <2>3. current_' \in Buffer
    BY <1>1, <2>1 DEF BuffersOK, SparesInv
  <2>4. BuffersOK'
    BY <1>1, <2>1, <2>2, <2>3 DEF BuffersOK
  <2>5. newbuffer_next' = Null \/ next_' = Null => lost' # {}
    BY <1>1, <2>1
  <2> QED BY <2>1, <2>2, <2>4, <2>5 DEF AsyncInv, SparesInv, CrashTakesFullBuffer
<1>4. CASE WriteBuffers
  BY <1>1, <1>4 DEF WriteBuffers, AsyncInv, BuffersOK, SparesInv,
                    CrashTakesFullBuffer, sharedVars, threadVars
<1>5. CASE Recycle
  <2>1. /\ pc = "recycle" /\ pc' \in {"crashed", "test"}
        /\ newbuffer_current' = <<>> /\ buffers' = <<>>
        /\ UNCHANGED <<current_, next_, buffers_to_write_, newbuffer_next, lost>>
    BY <1>5 DEF Recycle, sharedVars
  <2>2. pc' = "crashed" => newbuffer_next = Null
    <3>1. SUFFICES ASSUME newbuffer_next # Null PROVE pc' # "crashed"
      OBVIOUS
    <3>2. Len(buffers) \in Nat /\ Len(buffers) >= 1
      BY <1>1, <2>1 DEF BuffersOK, SparesInv
    <3>3. Least(Len(buffers), 2) >= 1
      BY <3>2 DEF Least
    <3>4. Least(Len(buffers), 2) \in Nat
      BY <3>2 DEF Least
    <3> QED BY <1>5, <3>1, <3>3, <3>4 DEF Recycle
  <2>3. BuffersOK'
    BY <1>1, <2>1, EmptyBuffer DEF BuffersOK
  <2> QED BY <1>1, <2>1, <2>2, <2>3, EmptyBuffer DEF AsyncInv, SparesInv, CrashTakesFullBuffer
<1> QED BY <1>2, <1>3, <1>4, <1>5 DEF ThreadFunc

\* Buffers are sequences of bytes, and so is what lists of them make.
LEMMA BuffersFlatten ==
    ASSUME NEW list \in Seq(Buffer)
    PROVE  list \in Seq(Seq(Bytes)) /\ FlattenSeq(list) \in Seq(Bytes)
<1>1. Buffer \subseteq Seq(Bytes)
  BY DEF Buffer
<1>2. list \in Seq(Seq(Bytes))
  <2> HIDE DEF Buffer
  <2> QED BY <1>1
<1> QED BY <1>2, FlattenType

\* Each step leaves the state in shape.
LEMMA AsyncTypePreserves ==
    ASSUME AsyncLoggingAssumption, AsyncInv, TypeOK, [Step]_vars
    PROVE  AsyncInv' /\ TypeOK'
<1>1. AsyncInv'
  <2>1. CASE UNCHANGED vars
    BY <2>1 DEF vars, AsyncInv, BuffersOK, SparesInv, CrashTakesFullBuffer
  <2> QED BY <2>1, AppendPreserves, ThreadPreserves DEF Step
<1>2. BuffersOK'
  BY <1>1 DEF AsyncInv
<1>3. /\ pc \in {"test", "waited", "write", "recycle", "crashed"}
      /\ file \in Seq(Bytes) /\ lost \subseteq Seq(Bytes) /\ buffers \in Seq(Buffer)
  BY DEF TypeOK, BuffersOK
<1>4. ASSUME NEW line \in Seq(Bytes), AppendLine(line)
      PROVE  TypeOK'
  <2>1. UNCHANGED <<pc, file>> /\ lost' \subseteq lost \cup {line}
    BY <1>4 DEF AppendLine
  <2> QED BY <1>1, <1>2, <1>3, <2>1 DEF TypeOK
<1>5. CASE WriteBuffers
  <2>1. file' = file \o FlattenSeq(buffers) /\ pc' = "recycle" /\ lost' = lost
    BY <1>5 DEF WriteBuffers
  <2>2. FlattenSeq(buffers) \in Seq(Bytes)
    BY <1>3, BuffersFlatten
  <2>3. file' \in Seq(Bytes)
    BY <1>3, <2>1, <2>2, ConcatProperties
  <2> QED BY <1>1, <1>2, <1>3, <2>1, <2>3 DEF TypeOK
<1>6. CASE WaitForFewSeconds \/ SwapBuffers \/ Recycle
  <2>1. UNCHANGED <<file, lost>> /\ pc' \in {"waited", "write", "crashed", "test"}
    BY <1>6 DEF WaitForFewSeconds, SwapBuffers, Recycle
  <2> QED BY <1>1, <1>2, <1>3, <2>1 DEF TypeOK
<1>7. CASE UNCHANGED vars
  BY <1>1, <1>2, <1>3, <1>7 DEF TypeOK, vars
<1> QED BY <1>1, <1>4, <1>5, <1>6, <1>7 DEF Step, ThreadFunc

\* Empty buffers everywhere, to begin with.
LEMMA AsyncStarts == Init => AsyncInv /\ TypeOK
<1>1. Init => AsyncInv
  BY AsyncLoggingAssumption, EmptyBuffer
     DEF Init, AsyncInv, BuffersOK, SparesInv, CrashTakesFullBuffer
<1>2. AsyncInv => BuffersOK
  BY DEF AsyncInv
<1> QED BY <1>1, <1>2 DEF Init, TypeOK

\* The inductive invariant.
THEOREM AsyncInvariance == SafeSpec => [](AsyncInv /\ TypeOK)
<1>1. (AsyncInv /\ TypeOK) /\ [Step]_vars => (AsyncInv /\ TypeOK)'
  BY AsyncTypePreserves, AsyncLoggingAssumption
<1> QED BY <1>1, AsyncStarts, PTL DEF SafeSpec, Step

\* The shape of the state, for all lines and sizes of buffers.
THEOREM TypeCorrect == SafeSpec => []TypeOK
  BY AsyncInvariance, PTL

\* current_ is a buffer whenever mutex_ is free: Append does not dereference a
\* pointer that has been moved from.
THEOREM BuffersCorrect == SafeSpec => []BuffersOK
<1>1. AsyncInv => BuffersOK
  BY DEF AsyncInv
<1> QED BY <1>1, AsyncInvariance, PTL

\* The crash in ThreadFunc's recycling takes a buffer that has run full and
\* the line that was lost then.
THEOREM CrashNeedsFullBuffer == SafeSpec => []CrashTakesFullBuffer
<1>1. AsyncInv => CrashTakesFullBuffer
  BY DEF AsyncInv
<1> QED BY <1>1, AsyncInvariance, PTL

-----------------------------------------------------------------------------
(* Logger: from the statement to the file.                                 *)

\* Bytes are those of the lines, at least: what lines may consist of is no
\* less than what LogStream puts into them, however much a statement streams.
LinesOfBytes == (1..MaxLines) \X Nat \subseteq Bytes

\* A buffer that is given back is empty.
SparesEmpty == {next_, newbuffer_current, newbuffer_next} \subseteq {<<>>, Null}

\* All that has been handed to Append.
Handed == Range(Waiting) \cup Range(file) \cup UNION {Range(line) : line \in lost}

\* The bytes of the statements that have ended.
Ended == (1 .. IF logging THEN count - 1 ELSE count) \X Nat

\* What is handed over is of statements that have ended: the line being made
\* has nothing in common with it.
LinesInv ==
    /\ SparesEmpty
    /\ logging \in BOOLEAN /\ count <= MaxLines /\ (logging => count >= 1)
    /\ Handed \subseteq Ended

LoggerInv == StreamInv /\ AsyncInv /\ TypeOK /\ LinesInv

\* What a range is, and that of two sequences put together.
LEMMA RangeOfConcat ==
    ASSUME NEW S, NEW s \in Seq(S), NEW t \in Seq(S)
    PROVE  /\ Range(s \o t) = Range(s) \cup Range(t)
           /\ Range(t) \subseteq S
<1>1. /\ s \o t \in Seq(S) /\ Len(s) \in Nat /\ Len(t) \in Nat
      /\ Len(s \o t) = Len(s) + Len(t)
      /\ \A i \in 1 .. Len(s) + Len(t) :
            (s \o t)[i] = IF i <= Len(s) THEN s[i] ELSE t[i - Len(s)]
  BY ConcatProperties
<1>2. /\ DOMAIN s = 1..Len(s) /\ DOMAIN t = 1..Len(t)
      /\ DOMAIN (s \o t) = 1 .. Len(s) + Len(t)
  BY <1>1
<1>3. ASSUME NEW x \in Range(s \o t)
      PROVE  x \in Range(s) \cup Range(t)
  <2>1. PICK i \in 1 .. Len(s) + Len(t) : x = (s \o t)[i]
    BY <1>2 DEF Range
  <2>2. CASE i <= Len(s)
    <3>1. i \in DOMAIN s /\ x = s[i]
      BY <1>1, <1>2, <2>1, <2>2
    <3> QED BY <3>1 DEF Range
  <2>3. CASE ~(i <= Len(s))
    <3>1. i - Len(s) \in DOMAIN t /\ x = t[i - Len(s)]
      BY <1>1, <1>2, <2>1, <2>3
    <3> QED BY <3>1 DEF Range
  <2> QED BY <2>2, <2>3
<1>4. ASSUME NEW x \in Range(s)
      PROVE  x \in Range(s \o t)
  <2>1. PICK i \in 1..Len(s) : x = s[i]
    BY <1>2 DEF Range
  <2>2. i \in DOMAIN (s \o t) /\ x = (s \o t)[i]
    BY <1>1, <1>2, <2>1
  <2> QED BY <2>2 DEF Range
<1>5. ASSUME NEW x \in Range(t)
      PROVE  x \in Range(s \o t)
  <2>1. PICK i \in 1..Len(t) : x = t[i]
    BY <1>2 DEF Range
  <2>2. Len(s) + i \in DOMAIN (s \o t) /\ x = (s \o t)[Len(s) + i]
    BY <1>1, <1>2, <2>1
  <2> QED BY <2>2 DEF Range
<1>6. Range(t) \subseteq S
  BY <1>2 DEF Range
<1> QED BY <1>3, <1>4, <1>5, <1>6

\* Putting together does not depend on the order in which it is done.
LEMMA Associates ==
    \A s, t, u \in Seq(Bytes) : (s \o t) \o u = s \o (t \o u)
<1> TAKE s, t, u \in Seq(Bytes)
<1> QED BY ConcatAssociative

\* The line being made consists of bytes, and of none handed over before.
LEMMA LineIsNew ==
    ASSUME LinesOfBytes, LoggerInv, logging
    PROVE  /\ buf_ \in Seq(Bytes)
           /\ Range(buf_) \subseteq {count} \X Nat
           /\ Range(buf_) \cap Handed = {}
<1>1. buf_ \in Seq({count} \X Nat) /\ count \in 1..MaxLines
  BY LoggerAssumption DEF LoggerInv, LinesInv, StreamInv
<1>2. {count} \X Nat \subseteq Bytes
  BY <1>1 DEF LinesOfBytes
<1>3. buf_ \in Seq(Bytes)
  BY <1>1, <1>2
<1>4. Range(buf_) \subseteq {count} \X Nat
  BY <1>1, RangeOfConcat
<1>5. Handed \subseteq (1 .. count - 1) \X Nat
  BY DEF LoggerInv, LinesInv, Ended
<1>6. ({count} \X Nat) \cap ((1 .. count - 1) \X Nat) = {}
  BY <1>1
<1> QED BY <1>3, <1>4, <1>5, <1>6

\* The parts of what is kept and not written yet.
Written == IF pc = "write" THEN FlattenSeq(buffers) ELSE <<>>

\* All these parts are sequences of bytes.
LEMMA Parts ==
    ASSUME AsyncLoggingAssumption, TypeOK
    PROVE  /\ buffers \in Seq(Seq(Bytes)) /\ buffers_to_write_ \in Seq(Seq(Bytes))
           /\ FlattenSeq(buffers) \in Seq(Bytes)
           /\ Written \in Seq(Bytes)
           /\ FlattenSeq(buffers_to_write_) \in Seq(Bytes)
           /\ current_ \in Seq(Bytes)
           /\ Waiting \in Seq(Bytes) /\ file \in Seq(Bytes)
           /\ Waiting = (Written \o FlattenSeq(buffers_to_write_)) \o current_
<1>1. /\ buffers \in Seq(Buffer) /\ buffers_to_write_ \in Seq(Buffer)
      /\ current_ \in Seq(Bytes) /\ file \in Seq(Bytes)
  BY DEF TypeOK, BuffersOK, Buffer
<1>2. /\ buffers \in Seq(Seq(Bytes)) /\ buffers_to_write_ \in Seq(Seq(Bytes))
      /\ FlattenSeq(buffers) \in Seq(Bytes)
      /\ FlattenSeq(buffers_to_write_) \in Seq(Bytes)
  BY <1>1, BuffersFlatten
<1>3. Written \in Seq(Bytes)
  <2>1. <<>> \in Seq(Bytes)
    OBVIOUS
  <2> QED BY <1>2, <2>1 DEF Written
<1>4. Waiting = (Written \o FlattenSeq(buffers_to_write_)) \o current_
  BY DEF Waiting, Written
<1>5. Written \o FlattenSeq(buffers_to_write_) \in Seq(Bytes)
  BY <1>2, <1>3, ConcatProperties
<1>6. Waiting \in Seq(Bytes)
  BY <1>1, <1>4, <1>5, ConcatProperties
<1> QED BY <1>1, <1>2, <1>3, <1>4, <1>6

\* What Append makes of what is waiting: the line comes behind it, or is lost.
LEMMA AppendEffect ==
    ASSUME AsyncLoggingAssumption, TypeOK, SparesEmpty,
           NEW line \in Seq(Bytes), AppendLine(line)
    PROVE  /\ SparesEmpty' /\ file' = file
           /\ \/ Waiting' = Waiting \o line /\ lost' = lost
              \/ Waiting' = Waiting /\ lost' = lost \cup {line}
<1>1. UNCHANGED <<newbuffer_current, newbuffer_next, buffers, pc, file>>
  BY DEF AppendLine, threadVars
<1> DEFINE full == FlattenSeq(buffers_to_write_)
<1>2. /\ Written \in Seq(Bytes) /\ full \in Seq(Bytes) /\ current_ \in Seq(Bytes)
      /\ buffers_to_write_ \in Seq(Seq(Bytes))
      /\ Waiting = (Written \o full) \o current_
  BY Parts
<1>3. Waiting' = (Written \o FlattenSeq(buffers_to_write_')) \o current_'
  BY <1>1 DEF Waiting, Written
<1>4. Written \o full \in Seq(Bytes)
  BY <1>2, ConcatProperties
<1>5. CASE Len(current_) + Len(line) <= Capacity
  <2>1. /\ current_' = current_ \o line
        /\ UNCHANGED <<next_, buffers_to_write_, lost>>
    BY <1>5 DEF AppendLine
  <2>2. Waiting' = (Written \o full) \o (current_ \o line)
    BY <1>3, <2>1
  <2>3. ((Written \o full) \o current_) \o line = (Written \o full) \o (current_ \o line)
    BY <1>2, <1>4, Associates
  <2>4. SparesEmpty'
    BY <1>1, <2>1 DEF SparesEmpty
  <2> QED BY <1>1, <1>2, <2>1, <2>2, <2>3, <2>4
<1>6. CASE ~(Len(current_) + Len(line) <= Capacity)
  <2>1. /\ buffers_to_write_' = Append(buffers_to_write_, current_)
        /\ current_' = <<>> /\ next_' = Null /\ lost' = lost \cup {line}
    BY <1>6 DEF AppendLine, Spare, SparesEmpty
  <2>2. FlattenSeq(buffers_to_write_') = full \o current_
    BY <1>2, <2>1, FlattenAppend
  <2>3. full \o current_ \in Seq(Bytes) /\ Written \o (full \o current_) \in Seq(Bytes)
    BY <1>2, ConcatProperties
  <2>4. Waiting' = Written \o (full \o current_)
    BY <1>3, <2>1, <2>2, <2>3, ConcatEmptySeq
  <2>5. (Written \o full) \o current_ = Written \o (full \o current_)
    BY <1>2, Associates
  <2>6. SparesEmpty'
    BY <1>1, <2>1 DEF SparesEmpty
  <2> QED BY <1>1, <1>2, <2>1, <2>4, <2>5, <2>6
<1> QED BY <1>5, <1>6

\* What the log thread makes of what is waiting and of the file: nothing, or
\* the file takes some of it from the front.
LEMMA ThreadEffect ==
    ASSUME AsyncLoggingAssumption, AsyncInv, TypeOK, SparesEmpty, ThreadFunc
    PROVE  /\ SparesEmpty' /\ lost' = lost
           /\ \/ Waiting' = Waiting /\ file' = file
              \/ \E s, t \in Seq(Bytes) :
                    Waiting = s \o t /\ Waiting' = t /\ file' = file \o s
<1> DEFINE full == FlattenSeq(buffers_to_write_)
<1>1. /\ Written \in Seq(Bytes) /\ full \in Seq(Bytes) /\ current_ \in Seq(Bytes)
      /\ buffers_to_write_ \in Seq(Seq(Bytes)) /\ FlattenSeq(buffers) \in Seq(Bytes)
      /\ Waiting = (Written \o full) \o current_
  BY Parts
<1>2. Waiting' = (Written' \o FlattenSeq(buffers_to_write_')) \o current_'
  BY DEF Waiting, Written
<1>3. <<>> \o full = full /\ full \o current_ \in Seq(Bytes)
  BY <1>1, ConcatProperties, ConcatEmptySeq
<1>4. CASE WaitForFewSeconds
  <2>1. /\ pc = "test" /\ pc' = "waited"
        /\ UNCHANGED <<sharedVars, threadVars, file, lost>>
    BY <1>4 DEF WaitForFewSeconds
  <2>2. Written' = Written /\ SparesEmpty'
    BY <2>1 DEF Written, SparesEmpty, sharedVars, threadVars
  <2> QED BY <1>1, <1>2, <2>1, <2>2 DEF sharedVars
<1>5. CASE SwapBuffers
  <2>1. /\ pc \in {"test", "waited"} /\ pc' = "write"
        /\ buffers' = Append(buffers_to_write_, current_)
        /\ buffers_to_write_' = <<>> /\ UNCHANGED <<file, lost>>
        /\ current_' = newbuffer_current /\ newbuffer_current' = Null
        /\ next_' = IF next_ = Null THEN newbuffer_next ELSE next_
        /\ newbuffer_next' = IF next_ = Null THEN Null ELSE newbuffer_next
    BY <1>5 DEF SwapBuffers, Taken, NextMissing
  <2>2. current_' = <<>>
    BY <2>1 DEF AsyncInv, SparesInv, SparesEmpty
  <2>3. Written = <<>> /\ Written' = full \o current_
    BY <1>1, <2>1, FlattenAppend DEF Written
  <2>4. Waiting' = full \o current_
    BY <1>2, <1>3, <2>1, <2>2, <2>3, FlattenEmpty, ConcatEmptySeq
  <2>5. Waiting = full \o current_
    BY <1>1, <1>3, <2>3
  <2>6. SparesEmpty'
    BY <2>1 DEF SparesEmpty
  <2> QED BY <2>1, <2>4, <2>5, <2>6
<1>6. CASE WriteBuffers
  <2>1. /\ pc = "write" /\ pc' = "recycle" /\ file' = file \o FlattenSeq(buffers)
        /\ UNCHANGED <<sharedVars, threadVars, lost>>
    BY <1>6 DEF WriteBuffers
  <2>2. Written = FlattenSeq(buffers) /\ Written' = <<>>
    BY <2>1 DEF Written
  <2>3. Waiting' = full \o current_
    BY <1>2, <1>3, <2>1, <2>2 DEF sharedVars
  <2>4. (Written \o full) \o current_ = Written \o (full \o current_)
    BY <1>1, Associates
  <2>5. SparesEmpty'
    BY <2>1 DEF SparesEmpty, sharedVars, threadVars
  <2>6. Waiting = Written \o (full \o current_) /\ file' = file \o Written
    BY <1>1, <2>1, <2>2, <2>4
  <2> QED BY <1>1, <1>3, <2>1, <2>3, <2>5, <2>6
<1>7. CASE Recycle
  <2>1. /\ pc = "recycle" /\ pc' \in {"crashed", "test"}
        /\ newbuffer_current' = <<>>
        /\ UNCHANGED <<current_, next_, buffers_to_write_, newbuffer_next, lost, file>>
    BY <1>7 DEF Recycle, sharedVars
  <2>2. Written' = Written
    BY <2>1 DEF Written
  <2>3. SparesEmpty'
    BY <2>1 DEF SparesEmpty
  <2> QED BY <1>1, <1>2, <2>1, <2>2, <2>3
<1> QED BY <1>4, <1>5, <1>6, <1>7 DEF ThreadFunc

\* Each step of the Logger is one of its LogStream's.
LEMMA StreamSteps ==
    ASSUME [LoggerNext]_allVars
    PROVE  [StreamNext]_streamVars
<1>1. CASE MakeLine
  BY <1>1 DEF MakeLine, StreamNext
<1>2. CASE AsyncOutputFunc
  BY <1>2 DEF AsyncOutputFunc, StreamNext
<1>3. CASE ThreadFunc /\ UNCHANGED streamVars
  BY <1>3
<1>4. CASE UNCHANGED allVars
  BY <1>4 DEF allVars, streamVars
<1> QED BY <1>1, <1>2, <1>3, <1>4 DEF LoggerNext

\* And one of AsyncLogging's, to which the line comes as a sequence of bytes.
LEMMA AsyncSteps ==
    ASSUME LinesOfBytes, LoggerInv, [LoggerNext]_allVars
    PROVE  [Step]_vars
<1>1. CASE MakeLine
  BY <1>1 DEF MakeLine
<1>2. CASE AsyncOutputFunc
  <2>1. logging /\ AppendLine(buf_)
    BY <1>2 DEF AsyncOutputFunc, Output
  <2>2. buf_ \in Seq(Bytes)
    BY <2>1, LineIsNew
  <2> QED BY <2>1, <2>2 DEF Step
<1>3. CASE ThreadFunc /\ UNCHANGED streamVars
  BY <1>3 DEF Step
<1>4. CASE UNCHANGED allVars
  BY <1>4 DEF allVars, vars
<1> QED BY <1>1, <1>2, <1>3, <1>4 DEF LoggerNext

\* Each step preserves what is known of the lines.
LEMMA LinesPreserve ==
    ASSUME LinesOfBytes, LoggerInv, [LoggerNext]_allVars
    PROVE  LinesInv'
<1>1. /\ SparesEmpty /\ logging \in BOOLEAN /\ count \in Nat /\ count <= MaxLines
      /\ (logging => count >= 1) /\ Handed \subseteq Ended
      /\ AsyncInv /\ TypeOK /\ MaxLines \in Nat
  BY LoggerAssumption DEF LoggerInv, LinesInv, StreamInv
<1>2. Waiting \in Seq(Bytes) /\ file \in Seq(Bytes)
  BY <1>1, Parts, AsyncLoggingAssumption
<1>3. CASE MakeLine
  <2>1. SparesEmpty' /\ Handed' = Handed
    BY <1>1, <1>3 DEF MakeLine, vars, SparesEmpty, Handed, Waiting
  <2>2. logging' \in BOOLEAN /\ count' <= MaxLines /\ (logging' => count' >= 1)
    <3>1. CASE Put
      <4>1. logging' = logging /\ count' = count
        BY <3>1 DEF Put
      <4> QED BY <1>1, <4>1
    <3>2. CASE count < MaxLines /\ \E statement \in Statements : Begin(statement)
      <4>1. logging' = TRUE /\ count' = count + 1 /\ count < MaxLines
        BY <3>2 DEF Begin
      <4> QED BY <1>1, <4>1
    <3> QED BY <1>3, <3>1, <3>2 DEF MakeLine
  <2>3. Ended' = Ended
    <3>1. CASE Put
      BY <3>1 DEF Put, Ended
    <3>2. CASE \E statement \in Statements : Begin(statement)
      <4>1. ~logging /\ logging' /\ count' - 1 = count
        BY <1>1, <3>2 DEF Begin
      <4> QED BY <4>1 DEF Ended
    <3> QED BY <1>3, <3>1, <3>2 DEF MakeLine
  <2> QED BY <1>1, <2>1, <2>2, <2>3 DEF LinesInv
<1>4. CASE AsyncOutputFunc
  <2>1. /\ logging /\ ~logging' /\ logging' \in BOOLEAN /\ count' = count
        /\ AppendLine(buf_)
    BY <1>4 DEF AsyncOutputFunc, Output
  <2>2. buf_ \in Seq(Bytes) /\ Range(buf_) \subseteq {count} \X Nat
    BY <2>1, LineIsNew
  <2>3. /\ SparesEmpty' /\ file' = file
        /\ \/ Waiting' = Waiting \o buf_ /\ lost' = lost
           \/ Waiting' = Waiting /\ lost' = lost \cup {buf_}
    BY <1>1, <2>1, <2>2, AppendEffect, AsyncLoggingAssumption
  <2>4. Range(Waiting \o buf_) = Range(Waiting) \cup Range(buf_)
    BY <1>2, <2>2, RangeOfConcat
  <2>5. Handed' \subseteq Handed \cup Range(buf_)
    <3>1. Handed' = Range(Waiting') \cup Range(file') \cup UNION {Range(line) : line \in lost'}
      BY DEF Handed
    <3>2. Range(Waiting') \subseteq Range(Waiting) \cup Range(buf_)
      BY <2>3, <2>4
    <3>3. UNION {Range(line) : line \in lost'}
            \subseteq (UNION {Range(line) : line \in lost}) \cup Range(buf_)
      BY <2>3
    <3> QED BY <2>3, <3>1, <3>2, <3>3 DEF Handed
  <2>6. Ended = (1 .. count - 1) \X Nat /\ Ended' = (1..count) \X Nat
    BY <2>1 DEF Ended
  <2>7. count \in 1..count /\ 1 .. count - 1 \subseteq 1..count
    BY <1>1, <2>1
  <2>8. Handed' \subseteq Ended'
    BY <1>1, <2>2, <2>5, <2>6, <2>7
  <2> QED BY <1>1, <2>1, <2>3, <2>8 DEF LinesInv
<1>5. CASE ThreadFunc /\ UNCHANGED streamVars
  <2>1. logging' = logging /\ count' = count
    BY <1>5 DEF streamVars
  <2>2. /\ SparesEmpty' /\ lost' = lost
        /\ \/ Waiting' = Waiting /\ file' = file
           \/ \E s, t \in Seq(Bytes) :
                 Waiting = s \o t /\ Waiting' = t /\ file' = file \o s
    BY <1>1, <1>5, ThreadEffect, AsyncLoggingAssumption
  <2>3. Range(Waiting') \cup Range(file') \subseteq Range(Waiting) \cup Range(file)
    <3>1. ASSUME NEW s \in Seq(Bytes), NEW t \in Seq(Bytes),
                 Waiting = s \o t, Waiting' = t, file' = file \o s
          PROVE  Range(Waiting') \cup Range(file') \subseteq Range(Waiting) \cup Range(file)
      <4>1. /\ Range(s \o t) = Range(s) \cup Range(t)
            /\ Range(file \o s) = Range(file) \cup Range(s)
        BY <1>2, RangeOfConcat
      <4> QED BY <3>1, <4>1
    <3> QED BY <2>2, <3>1
  <2>4. Handed' \subseteq Handed
    BY <2>2, <2>3 DEF Handed
  <2>5. Ended' = Ended
    BY <2>1 DEF Ended
  <2> QED BY <1>1, <2>1, <2>2, <2>4, <2>5 DEF LinesInv
<1>6. CASE UNCHANGED allVars
  <2>1. SparesEmpty' /\ Handed' = Handed /\ Ended' = Ended
    BY <1>1, <1>6 DEF allVars, vars, streamVars, SparesEmpty, Handed, Waiting, Ended
  <2>2. logging' = logging /\ count' = count
    BY <1>6 DEF allVars, streamVars
  <2> QED BY <1>1, <2>1, <2>2 DEF LinesInv
<1> QED BY <1>3, <1>4, <1>5, <1>6 DEF LoggerNext

\* The initial state.
LEMMA LoggerStarts == LoggerInit => LoggerInv
<1>1. SUFFICES ASSUME LoggerInit PROVE LoggerInv
  OBVIOUS
<1>2. /\ Init /\ StreamInit
      /\ next_ = <<>> /\ newbuffer_current = <<>> /\ newbuffer_next = <<>>
      /\ current_ = <<>> /\ buffers_to_write_ = <<>> /\ pc = "test"
      /\ file = <<>> /\ lost = {} /\ logging = FALSE /\ count = 0
  BY <1>1 DEF LoggerInit, Init, StreamInit
<1>3. StreamInv
  BY <1>2, StreamStarts
<1>4. AsyncInv /\ TypeOK
  BY <1>2, AsyncStarts
<1>5. Waiting = <<>>
  <2>1. <<>> \in Seq(Bytes)
    OBVIOUS
  <2>2. (<<>> \o <<>>) \o <<>> = <<>>
    BY <2>1, ConcatEmptySeq
  <2> QED BY <1>2, <2>2, FlattenEmpty DEF Waiting
<1>6. Handed = {}
  <2>1. Range(<<>>) = {}
    BY DEF Range
  <2> QED BY <1>2, <1>5, <2>1 DEF Handed
<1>7. 0 <= MaxLines
  BY LoggerAssumption
<1> QED BY <1>2, <1>3, <1>4, <1>6, <1>7 DEF LoggerInv, LinesInv, SparesEmpty

\* The inductive invariant of the whole log.
THEOREM LoggerInvariance == ASSUME LinesOfBytes PROVE LoggerSpec => []LoggerInv
<1>1. LoggerInv /\ [LoggerNext]_allVars => LoggerInv'
  <2>1. SUFFICES ASSUME LoggerInv, [LoggerNext]_allVars PROVE LoggerInv'
    OBVIOUS
  <2>2. StreamInv'
    BY <2>1, StreamSteps, StreamPreserves, LogStreamAssumption DEF LoggerInv
  <2>3. AsyncInv' /\ TypeOK'
    BY <2>1, AsyncSteps, AsyncTypePreserves, AsyncLoggingAssumption DEF LoggerInv
  <2> QED BY <2>1, <2>2, <2>3, LinesPreserve DEF LoggerInv
<1> QED BY <1>1, LoggerStarts, PTL DEF LoggerSpec

\* What two sequences put together begin with, and what they consist of.
LEMMA ConcatParts ==
    ASSUME NEW S, NEW s \in Seq(S), NEW t \in Seq(S)
    PROVE  /\ SubSeq(s \o t, 1, Len(s)) = s
           /\ SubSeq(s \o t, Len(s) + 1, Len(s) + Len(t)) = t
<1> DEFINE n == Len(s)
           m == Len(t)
           u == s \o t
<1>1. /\ n \in Nat /\ m \in Nat /\ u \in Seq(S) /\ Len(u) = n + m
      /\ \A i \in 1 .. n + m : u[i] = IF i <= n THEN s[i] ELSE t[i - n]
  BY ConcatProperties
<1>2. Len(s) = n /\ Len(t) = m
  OBVIOUS
<1> HIDE DEF n, m, u
<1>3. SubSeq(u, 1, n) = s
  <2>1. /\ SubSeq(u, 1, n) \in Seq(S) /\ Len(SubSeq(u, 1, n)) = n
        /\ \A i \in 1..n : SubSeq(u, 1, n)[i] = u[i]
    BY <1>1
  <2>2. \A i \in 1..n : SubSeq(u, 1, n)[i] = s[i]
    BY <1>1, <2>1
  <2> QED BY <1>2, <2>1, <2>2, SeqEqual
<1>4. SubSeq(u, n + 1, n + m) = t
  <2> DEFINE v == SubSeq(u, n + 1, n + m)
  <2>1. /\ v \in Seq(S) /\ Len(v) = m
        /\ \A i \in 1..m : v[i] = u[n + i]
    BY <1>1
  <2> HIDE DEF v
  <2>2. ASSUME NEW i \in 1..m PROVE v[i] = t[i]
    <3>1. n + i \in 1 .. n + m /\ ~(n + i <= n) /\ (n + i) - n = i
      BY <1>1
    <3> QED BY <1>1, <2>1, <3>1
  <2> QED BY <1>2, <2>1, <2>2, SeqEqual DEF v
<1> QED BY <1>3, <1>4 DEF n, m, u

\* A sequence is a strict prefix of itself with something behind it.
LEMMA ConcatIsPrefix ==
    ASSUME NEW S, NEW s \in Seq(S), NEW t \in Seq(S), t # <<>>
    PROVE  IsStrictPrefix(s, s \o t)
<1>1. Len(s) \in Nat /\ Len(t) \in Nat /\ Len(t) # 0 /\ Len(s \o t) = Len(s) + Len(t)
  BY ConcatProperties, EmptySeq
<1>2. SubSeq(s \o t, 1, Len(s)) = s /\ SubSeq(s, 1, Len(s)) = s
  BY ConcatParts, SubSeqFull
<1>3. Len(s) <= Len(s \o t) /\ Len(s) # Len(s \o t)
  BY <1>1
<1>4. s # s \o t
  BY <1>3
<1> QED BY <1>2, <1>3, <1>4 DEF IsStrictPrefix, IsPrefix

\* What a statement streams is in its line, whatever becomes of the lines.
THEOREM LoggedWholeOrFull == LoggerSpec => []WholeOrFull
<1>1. LoggerSpec => StreamSpec
  <2>1. LoggerInit => StreamInit
    BY DEF LoggerInit
  <2>2. [LoggerNext]_allVars => [StreamNext]_streamVars
    BY StreamSteps
  <2> QED BY <2>1, <2>2, PTL DEF LoggerSpec, StreamSpec
<1> QED BY <1>1, LinesWholeOrFull, PTL

\* The lines that are logged are lines for AsyncLogging: the shape of the
\* buffers and what the crash takes hold of the whole log.
THEOREM LoggedSafely ==
    ASSUME LinesOfBytes
    PROVE  LoggerSpec => [](TypeOK /\ CrashTakesFullBuffer)
<1>1. LoggerInv => TypeOK /\ CrashTakesFullBuffer
  BY DEF LoggerInv, AsyncInv
<1> QED BY <1>1, LoggerInvariance, PTL

\* The sink's operators on sequences are those of the log.
LEMMA SinkOperators ==
    /\ \A f : Sink!Range(f) = Range(f)
    /\ \A s, t : Sink!IsStrictPrefix(s, t) = IsStrictPrefix(s, t)
  BY DEF Sink!Range, Range, Sink!IsStrictPrefix, Sink!IsPrefix, IsStrictPrefix, IsPrefix

\* What has not been handed over is not to be seen in the sink.
LEMMA UnseenInSink ==
    ASSUME NEW bytes, bytes \cap Handed = {}
    PROVE  Sink!Unseen(bytes)
  BY SinkOperators DEF Sink!Unseen, Handed

\* What Append does is Keep or Drop of the sink.
LEMMA AppendImplements ==
    ASSUME LinesOfBytes, LoggerInv, AsyncOutputFunc
    PROVE  \/ Sink!Keep \/ Sink!Drop
           \/ UNCHANGED <<Waiting, file, lost>>
<1>1. logging /\ AppendLine(buf_) /\ TypeOK /\ SparesEmpty
  BY DEF AsyncOutputFunc, Output, LoggerInv, LinesInv
<1>2. buf_ \in Seq(Bytes) /\ Range(buf_) \cap Handed = {}
  BY <1>1, LineIsNew
<1>3. /\ file' = file
      /\ \/ Waiting' = Waiting \o buf_ /\ lost' = lost
         \/ Waiting' = Waiting /\ lost' = lost \cup {buf_}
  BY <1>1, <1>2, AppendEffect, AsyncLoggingAssumption
<1>4. Waiting \in Seq(Bytes)
  BY <1>1, Parts, AsyncLoggingAssumption
<1>5. CASE Waiting' = Waiting \o buf_ /\ lost' = lost
  <2>1. Range(Waiting \o buf_) = Range(Waiting) \cup Range(buf_)
    BY <1>2, <1>4, RangeOfConcat
  <2>2. Sink!Unseen(Range(Waiting') \ Range(Waiting))
    BY <1>2, <1>5, <2>1, UnseenInSink
  <2>3. CASE buf_ = <<>>
    <3>1. Waiting \o <<>> = Waiting
      BY <1>4, ConcatEmptySeq
    <3> QED BY <1>3, <1>5, <2>3, <3>1
  <2>4. CASE buf_ # <<>>
    <3>1. IsStrictPrefix(Waiting, Waiting \o buf_)
      BY <1>2, <1>4, <2>4, ConcatIsPrefix
    <3> QED BY <1>3, <1>5, <2>2, <3>1, SinkOperators DEF Sink!Keep
  <2> QED BY <2>3, <2>4
<1>6. CASE Waiting' = Waiting /\ lost' = lost \cup {buf_}
  <2>1. Sink!Unseen(Range(buf_))
    BY <1>2, UnseenInSink
  <2>2. \A line \in lost' \ lost : Sink!Unseen(Range(line))
    BY <1>6, <2>1
  <2>3. lost \subseteq lost'
    BY <1>6
  <2> QED BY <1>3, <1>6, <2>2, <2>3, SinkOperators DEF Sink!Drop
<1> QED BY <1>3, <1>5, <1>6

\* What the log thread does is Write of the sink, or nothing.
LEMMA ThreadImplements ==
    ASSUME LoggerInv, ThreadFunc
    PROVE  Sink!Write \/ UNCHANGED <<Waiting, file, lost>>
<1>1. AsyncInv /\ TypeOK /\ SparesEmpty
  BY DEF LoggerInv, LinesInv
<1>2. Waiting \in Seq(Bytes) /\ file \in Seq(Bytes)
  BY <1>1, Parts, AsyncLoggingAssumption
<1>3. /\ lost' = lost
      /\ \/ Waiting' = Waiting /\ file' = file
         \/ \E s, t \in Seq(Bytes) :
               Waiting = s \o t /\ Waiting' = t /\ file' = file \o s
  BY <1>1, ThreadEffect, AsyncLoggingAssumption
<1>4. ASSUME NEW s \in Seq(Bytes), NEW t \in Seq(Bytes),
             Waiting = s \o t, Waiting' = t, file' = file \o s
      PROVE  Sink!Write \/ UNCHANGED <<Waiting, file, lost>>
  <2>1. CASE s = <<>>
    <3>1. <<>> \o t = t /\ file \o <<>> = file
      BY <1>2, ConcatEmptySeq
    <3> QED BY <1>3, <1>4, <2>1, <3>1
  <2>2. CASE s # <<>>
    <3>1. Len(s) \in Nat /\ Len(s) # 0 /\ Len(t) \in Nat
      BY <2>2, EmptySeq
    <3>2. Len(Waiting) = Len(s) + Len(t)
      BY <1>4, ConcatProperties
    <3>3. Len(s) \in 1..Len(Waiting)
      BY <3>1, <3>2
    <3>4. /\ SubSeq(Waiting, 1, Len(s)) = s
          /\ SubSeq(Waiting, Len(s) + 1, Len(Waiting)) = t
      BY <1>4, <3>2, ConcatParts
    <3> QED BY <1>3, <1>4, <3>3, <3>4 DEF Sink!Write
  <2> QED BY <2>1, <2>2
<1> QED BY <1>3, <1>4

\* The log keeps its promise to the threads that log: the lines that Append
\* keeps are in the file whole, once each and in the order of the Appends,
\* for all statements, buffer sizes and numbers of lines.
THEOREM SinkImplemented ==
    ASSUME LinesOfBytes
    PROVE  LoggerSpec => ImplementsLogSink
<1>1. LoggerInit => Sink!Init
  <2>1. SUFFICES ASSUME LoggerInit PROVE Sink!Init
    OBVIOUS
  <2>2. /\ current_ = <<>> /\ buffers_to_write_ = <<>> /\ pc = "test"
        /\ file = <<>> /\ lost = {}
    BY <2>1 DEF LoggerInit, Init
  <2>3. <<>> \in Seq(Bytes)
    OBVIOUS
  <2>4. (<<>> \o <<>>) \o <<>> = <<>>
    BY <2>3, ConcatEmptySeq
  <2>5. Waiting = <<>>
    BY <2>2, <2>4, FlattenEmpty DEF Waiting
  <2> QED BY <2>2, <2>5 DEF Sink!Init
<1>2. LoggerInv /\ [LoggerNext]_allVars
        => [Sink!Keep \/ Sink!Drop \/ Sink!Write]_(Sink!vars)
  <2>1. SUFFICES ASSUME LoggerInv, [LoggerNext]_allVars
                 PROVE  \/ Sink!Keep \/ Sink!Drop \/ Sink!Write
                        \/ UNCHANGED <<Waiting, file, lost>>
    BY DEF Sink!vars
  <2>2. CASE UNCHANGED vars
    BY <2>2 DEF vars, Waiting
  <2>3. CASE AsyncOutputFunc
    BY <2>1, <2>3, AppendImplements
  <2>4. CASE ThreadFunc
    BY <2>1, <2>4, ThreadImplements
  <2> QED BY <2>1, <2>2, <2>3, <2>4 DEF LoggerNext, MakeLine, allVars
<1> QED BY <1>1, <1>2, LoggerInvariance, PTL
        DEF LoggerSpec, ImplementsLogSink, Sink!SafeSpec
=============================================================================
