--------------------------- MODULE MCFlushEngine ---------------------------
(* Instances of FlushEngine for TLC. *)
EXTENDS FlushEngine, TLC

CONSTANTS r1, r2, b1, p1, p2

MCPartOf == [r \in Rec |-> IF r = r1 THEN p1 ELSE p2]
============================================================================
