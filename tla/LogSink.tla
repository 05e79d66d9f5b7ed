------------------------------- MODULE LogSink ------------------------------
(***************************************************************************)
(* What the log promises the threads that log: a line is kept or lost at   *)
(* the moment it is handed over, and the lines that are kept reach the     *)
(* file once each, in the order in which they were handed over.            *)
(***************************************************************************)
EXTENDS Naturals, Sequences, Functions, SequencesExt

VARIABLES
    kept,               \* bytes kept and not in the file yet, oldest first
    written,            \* the bytes in the file
    dropped             \* the lines that were lost

vars == <<kept, written, dropped>>

Init ==
    /\ kept = <<>>
    /\ written = <<>>
    /\ dropped = {}

Unseen(bytes) ==
    bytes \cap (Range(kept) \cup Range(written) \cup UNION {Range(line) : line \in dropped}) = {}

Keep ==
    /\ IsStrictPrefix(kept, kept')
    /\ Unseen(Range(kept') \ Range(kept))
    /\ UNCHANGED <<written, dropped>>

Drop ==
    /\ dropped \subseteq dropped'
    /\ \A line \in dropped' \ dropped : Unseen(Range(line))
    /\ UNCHANGED <<kept, written>>

\* The file takes the oldest n bytes.
Write == \E n \in 1..Len(kept) :
    /\ written' = written \o SubSeq(kept, 1, n)
    /\ kept' = SubSeq(kept, n + 1, Len(kept))
    /\ UNCHANGED dropped

SafeSpec == Init /\ [][Keep \/ Drop \/ Write]_vars
=============================================================================
