--------------------------- MODULE MCAsyncLogging ---------------------------
(***************************************************************************)
(* Logger for TLC.  A line of a statement without pieces takes 3 of the 5  *)
(* bytes of its LogStream; with two bytes more it loses its line number,   *)
(* with more its newline too, and then its own end.  A large buffer holds  *)
(* one line or two, and there are enough lines to fill two buffers between *)
(* two swaps (so that one of the three then written is not recycled) or    *)
(* one in each of two rounds.                                              *)
(***************************************************************************)
EXTENDS Logger

Text(n) == [kind |-> "text", length |-> n]
Integer == [kind |-> "integer", length |-> 1]

MCStatements == {<<>>, <<Text(2)>>, <<Text(5)>>}
MCHeader     == <<Text(1)>>
MCEnding     == <<Integer, Text(1)>>

MCBytes == (1..MaxLines) \X (1..7)
=============================================================================
