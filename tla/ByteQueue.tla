------------------------------ MODULE ByteQueue -----------------------------
(***************************************************************************)
(* What a Buffer promises: a queue of bytes.  Bytes go in at one end and   *)
(* come out at the other, whole and in order, and only when asked for.     *)
(***************************************************************************)
EXTENDS Naturals, Sequences

CONSTANT Messages       \* the byte sequences that may be put in

VARIABLES
    queue,
    call            \* what the last call put in, and how many bytes it took

Init == queue = <<>> /\ call = [in |-> <<>>, out |-> 0]

Put(message) ==
    /\ call' = [in |-> message, out |-> 0]
    /\ queue' = queue \o message

Take(n) ==
    /\ call' = [in |-> <<>>, out |-> n]
    /\ queue' = SubSeq(queue, n + 1, Len(queue))

Next ==
    \/ \E message \in Messages : Put(message)
    \/ \E n \in 0..Len(queue) : Take(n)

Spec == Init /\ [][Next]_<<queue, call>>
=============================================================================
