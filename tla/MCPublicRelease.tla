--------------------------- MODULE MCPublicRelease ---------------------------
(* Two shells of a maintainer, which no action tells apart.                  *)
EXTENDS PublicRelease, TLC
CONSTANTS s1, s2
Shells == Permutations(Shell)
=============================================================================
