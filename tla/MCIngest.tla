----------------------------- MODULE MCIngest -----------------------------
(***************************************************************************)
(* Instances of Ingest for TLC: records of which the last has twice the    *)
(* size, and a limit that is lowered at the second start.                  *)
(***************************************************************************)
EXTENDS Ingest, TLC

CONSTANTS r1, r3

MCSize == [r \in Rec |-> IF r = r3 THEN 2 ELSE 1]

MCLimits == {<<4, 2>>, <<3, 2>>}
=============================================================================
