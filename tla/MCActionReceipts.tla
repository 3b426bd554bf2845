------------------------- MODULE MCActionReceipts -------------------------
(* Two processes on one ledger; the keys and the values are symmetric.    *)
EXTENDS ActionReceipts, TLC
CONSTANTS p1, p2, k1, k2, t1, t2, u1, u2
Symmetry == Permutations({p1, p2}) \cup Permutations({k1, k2})
                \cup Permutations({t1, t2}) \cup Permutations({u1, u2})
===========================================================================
