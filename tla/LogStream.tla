----------------------------- MODULE LogStream ------------------------------
(***************************************************************************)
(* One LOG_* statement after the other (src/log/logging.{h,cc}): a Logger  *)
(* puts the time, the thread and the level, what the statement streams,    *)
(* and Finish's " - file:line\n" into the fixed buffer of its LogStream    *)
(* (src/log/logstream.h), and its destructor hands that to g_Output.  A    *)
(* statement is known by its pieces and their lengths; its bytes by the    *)
(* statement and their place in what was to be logged.                     *)
(***************************************************************************)
EXTENDS Naturals, Sequences

CONSTANTS
    Statements,     \* sequences of pieces
    Header, Ending, \* the pieces of FormattedTime, those of Finish
    SmallSize,      \* kSmallSize
    NumLength       \* kNum2MaxStringLength

\* An integer and its terminating NUL are at most NumLength long.
Piece == [kind : {"text"}, length : Nat]
         \cup [kind : {"integer"}, length : {n \in Nat : n < NumLength}]

ASSUME LogStreamAssumption ==
    /\ SmallSize \in Nat /\ NumLength \in Nat \ {0}
    /\ Statements \subseteq Seq(Piece)
    /\ Header \in Seq(Piece) /\ Ending \in Seq(Piece)

VARIABLES
    logging,        \* whether a Logger exists
    count,          \* which one it is
    todo,           \* the pieces still to be streamed
    buf_,           \* buf_ up to cur_
    wanted          \* history: how much has been streamed

streamVars == <<logging, count, todo, buf_, wanted>>

StreamInit ==
    /\ logging = FALSE /\ count = 0
    /\ todo = <<>> /\ buf_ = <<>> /\ wanted = 0

\* FormattedTime, the statement's own pieces, Finish.
Pieces(statement) == Header \o statement \o Ending

Begin(statement) ==
    /\ ~logging /\ logging' = TRUE
    /\ count' = count + 1
    /\ todo' = Pieces(statement)
    /\ buf_' = <<>> /\ wanted' = 0

writablebytes == SmallSize - Len(buf_)

\* Wrong variant: what does not fit is not put at all.
FittingOrNone(length) == IF writablebytes < length THEN 0 ELSE length

\* FixedBuffer::Append takes of a text what fits.
Fitting(length) == IF writablebytes < length THEN writablebytes ELSE length

\* FormatInteger puts an integer only if the longest one would fit.
Formatted(length) == IF writablebytes >= NumLength THEN length ELSE 0

\* The next n bytes of those to be logged.
Streamed(n) == [i \in 1..n |-> <<count, wanted + i>>]

Put ==
    /\ logging /\ todo # <<>>
    /\ LET piece == Head(todo) IN
       /\ buf_' = buf_ \o Streamed(IF piece.kind = "text" THEN Fitting(piece.length)
                                   ELSE Formatted(piece.length))
       /\ wanted' = wanted + piece.length
    /\ todo' = Tail(todo)
    /\ UNCHANGED <<logging, count>>

\* ~Implement, after Finish: buf_ is given to g_Output.
Output ==
    /\ logging /\ todo = <<>>
    /\ logging' = FALSE
    /\ UNCHANGED <<count, todo, buf_, wanted>>

StreamNext == (\E statement \in Statements : Begin(statement)) \/ Put \/ Output

StreamSpec == StreamInit /\ [][StreamNext]_streamVars

-----------------------------------------------------------------------------
(* Properties.                                                             *)

\* The shape of the state; nothing is written past the end of the buffer.
StreamTypeOK ==
    /\ logging \in BOOLEAN /\ count \in Nat
    /\ todo \in Seq(Piece)
    /\ buf_ \in Seq({count} \X Nat) /\ Len(buf_) <= SmallSize
    /\ wanted \in Nat

\* What a statement streams is in its line whole and in order, the end of the
\* line included, as long as the line leaves room for one more integer in its
\* buffer; only fuller ones lose texts or integers, which nobody is told.
WholeOrFull ==
    \/ buf_ = [i \in 1..wanted |-> <<count, i>>]
    \/ Len(buf_) + NumLength > SmallSize
=============================================================================
