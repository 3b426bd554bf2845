----------------------------- MODULE MCOSThread -----------------------------
(* Instances of OSThread: an urgent thread A and two equal ones, B and C; or *)
(* three equal ones, where no thread can starve another by its priority.     *)
EXTENDS OSThread
CONSTANTS A, B, C, Q

MCBase == [t \in Thread |-> IF t = A THEN 1 ELSE 2]
MCEqual == [t \in Thread |-> 1]

\* Every sleep of A ends.  With MCEqual the three threads are interchangeable
\* from Init on, so this is SleeperWakes at a third of its cost.
SleeperAWakes == Wakes(A)
=============================================================================
