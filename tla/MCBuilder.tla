------------------------------ MODULE MCBuilder ------------------------------
(* Two images of which one is accepted, two versions that pin two packs.     *)
EXTENDS Builder
CONSTANTS i1, i2, v1, v2, k1, k2, d1, d2
PinValue == [v \in {v1, v2} |-> IF v = v1 THEN k1 ELSE k2]
=============================================================================
