-------------------------- MODULE MCGuestScheduler --------------------------
(* Instances of GuestScheduler: two equal threads and a less urgent one.     *)
EXTENDS GuestScheduler
CONSTANTS A, B, C, Q, R1, R2

MCPrio == [t \in Id |-> IF t = C THEN 2 ELSE 1]
=============================================================================
