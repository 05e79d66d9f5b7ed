----------------------------- MODULE ByteStream -----------------------------
(***************************************************************************)
(* What a TcpConnection promises the handler that answers requests on it:  *)
(* each response that is accepted reaches the client as a whole, in order  *)
(* and once, and nothing is accepted after the end has been announced.     *)
(***************************************************************************)
EXTENDS Naturals, Sequences

CONSTANT Responses      \* the byte sequences the handler may send

VARIABLES
    stream,             \* every byte accepted for the client
    received,           \* the bytes the client has
    ended               \* the end of the stream has been announced

vars == <<stream, received, ended>>

Init ==
    /\ stream = <<>>
    /\ received = <<>>
    /\ ended = FALSE

Accept(response) ==
    /\ ~ended
    /\ stream' = stream \o response
    /\ UNCHANGED <<received, ended>>

Deliver ==
    /\ Len(received) < Len(stream)
    /\ received' = Append(received, stream[Len(received) + 1])
    /\ UNCHANGED <<stream, ended>>

End ==
    /\ ended' = TRUE
    /\ UNCHANGED <<stream, received>>

Next ==
    \/ \E response \in Responses : Accept(response)
    \/ Deliver
    \/ End

Spec == Init /\ [][Next]_vars
=============================================================================
