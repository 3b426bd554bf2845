--------------------------- MODULE MCRetroInstall ---------------------------
(* Instances of RetroInstall: two requests, two executions, two activities. *)
EXTENDS RetroInstall, TLC
CONSTANTS T1, T2, E1, E2, Chooser, Game, S0, S1

\* no action prefers a request or an execution to another; for safety only
Interchangeable == Permutations(Token) \cup Permutations(Exec)
=============================================================================
