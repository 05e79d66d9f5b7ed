------------------------------ MODULE MCBuffer ------------------------------
(***************************************************************************)
(* Buffer for TLC: a small vector, and every message of up to four bytes   *)
(* of an alphabet of two, which fits, exactly fits or does not fit into    *)
(* what is free behind, or free in all.                                    *)
(***************************************************************************)
EXTENDS Buffer

ShortMessages == UNION {[1..n -> Bytes] : n \in 0..4}
=============================================================================
