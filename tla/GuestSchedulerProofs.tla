------------------------ MODULE GuestSchedulerProofs ------------------------
(***************************************************************************)
(* Proofs about GuestScheduler for every set of threads, queues and host   *)
(* runners; all but the last for hosts that may resume running threads too.*)
(***************************************************************************)
EXTENDS GuestScheduler, TLAPS

(***************************************************************************)
(* What MarkReady, WakeJoiners and WakeDueAlarms leave in the records of   *)
(* the threads they touch has the records' types.                          *)
(***************************************************************************)
LEMMA ReadiedType ==
    ASSUME TypeOK, NEW W \in SUBSET Id, NEW o \in MarkOrders(W),
           NEW w \in [Id -> 0..MaxDelay]
    PROVE  /\ Sequenced(W, o) \in [Id -> SUBSET Id]
           /\ Readied(W) \in [Id -> ThreadState]
           /\ Unslept(W, w) \in [Id -> 0..MaxDelay]
           /\ Unwaited(W) \in [Id -> Id \cup Queue \cup {None}]
<1>1. Sequenced(W, o) \in [Id -> SUBSET Id]
  BY DEF TypeOK, Sequenced
<1>2. Readied(W) \in [Id -> ThreadState]
  BY DEF TypeOK, Readied, ThreadState
<1>3. Unslept(W, w) \in [Id -> 0..MaxDelay]
  <2>1. 0 \in 0..MaxDelay
    BY SchedulerAssumption DEF SchedulerAssumption
  <2> QED BY <2>1 DEF Unslept
<1>4. Unwaited(W) \in [Id -> Id \cup Queue \cup {None}]
  BY DEF TypeOK, Unwaited
<1> QED BY <1>1, <1>2, <1>3, <1>4

LEMMA MarkReadyType ==
    ASSUME TypeOK, NEW W \in SUBSET Id, MarkReady(W)
    PROVE  /\ ahead' \in [Id -> SUBSET Id]
           /\ state' \in [Id -> ThreadState]
           /\ wake' \in [Id -> 0..MaxDelay]
           /\ wait' \in [Id -> Id \cup Queue \cup {None}]
<1>1. PICK o \in MarkOrders(W) : ahead' = Sequenced(W, o)
  BY DEF MarkReady
<1>2. wake \in [Id -> 0..MaxDelay]
  BY DEF TypeOK
<1> QED BY <1>1, <1>2, ReadiedType DEF MarkReady

LEMMA DieType ==
    ASSUME TypeOK, NEW t \in Id, NEW s \in Dead, Die(t, s),
           NEW w \in [Id -> 0..MaxDelay]
    PROVE  /\ ahead' \in [Id -> SUBSET Id]
           /\ state' \in [Id -> ThreadState]
           /\ wait' \in [Id -> Id \cup Queue \cup {None}]
           /\ Unslept(Joiners(t) \ {t}, w) \in [Id -> 0..MaxDelay]
<1> DEFINE W == Joiners(t) \ {t}
<1>1. W \in SUBSET Id
  BY DEF Joiners, TypeOK
<1>2. PICK o \in MarkOrders(W) : ahead' = Sequenced(W, o)
  BY DEF Die
<1>3. state' = [Readied(W) EXCEPT ![t] = s] /\ wait' = Unwaited(W)
  BY DEF Die
<1>4. s \in ThreadState
  BY DEF ThreadState
<1> HIDE DEF W
<1>5. state' \in [Id -> ThreadState]
  <2>1. Readied(W) \in [Id -> ThreadState]
    BY <1>1, <1>2, ReadiedType
  <2> QED BY <2>1, <1>3, <1>4
<1>6. /\ ahead' \in [Id -> SUBSET Id]
      /\ wait' \in [Id -> Id \cup Queue \cup {None}]
      /\ Unslept(W, w) \in [Id -> 0..MaxDelay]
  BY <1>1, <1>2, <1>3, ReadiedType
<1> QED BY <1>5, <1>6 DEF W

LEMMA TickedType ==
    ASSUME TypeOK PROVE Ticked \in [Id -> 0..MaxDelay]
<1>1. \A n \in 0..MaxDelay : (IF n > 0 THEN n - 1 ELSE 0) \in 0..MaxDelay
  BY SchedulerAssumption DEF SchedulerAssumption
<1> QED BY <1>1 DEF TypeOK, Ticked

LEMMA CommitType ==
    ASSUME TypeOK, NEW t \in created,
           \/ CommitYield(t) \/ CommitSleep(t) \/ CommitWaitQueue(t)
           \/ CommitWaitJoin(t) \/ CommitExit(t) \/ CommitShutdown(t)
    PROVE  /\ ahead' \in [Id -> SUBSET Id]
           /\ state' \in [Id -> ThreadState]
           /\ wake' \in [Id -> 0..MaxDelay]
           /\ wait' \in [Id -> Id \cup Queue \cup {None}]
<1>1. t \in Id
  BY DEF TypeOK
<1>2. Ticked \in [Id -> 0..MaxDelay]
  BY TickedType
<1> DEFINE Goal == /\ ahead' \in [Id -> SUBSET Id]
                  /\ state' \in [Id -> ThreadState]
                  /\ wake' \in [Id -> 0..MaxDelay]
                  /\ wait' \in [Id -> Id \cup Queue \cup {None}]
<1>3. ASSUME CommitYield(t) PROVE Goal
  <2>1. PICK o \in MarkOrders({t}) : ahead' = Sequenced({t}, o)
    BY <1>3 DEF CommitYield
  <2> QED BY <1>1, <1>2, <1>3, <2>1, ReadiedType DEF CommitYield
<1>4. CASE CommitSleep(t)
  BY <1>1, <1>2, <1>4 DEF CommitSleep, TypeOK, ThreadState
<1>5. CASE CommitWaitQueue(t)
  BY <1>1, <1>2, <1>5 DEF CommitWaitQueue, TypeOK, ThreadState
<1>6. CASE CommitWaitJoin(t)
  BY <1>1, <1>2, <1>3, <1>6 DEF CommitWaitJoin, TypeOK, ThreadState
<1>7. CASE CommitExit(t)
  BY <1>1, <1>2, <1>7, DieType DEF CommitExit, Dead
<1>8. CASE CommitShutdown(t)
  BY <1>1, <1>2, <1>8 DEF CommitShutdown, TypeOK, ThreadState, Dead
<1> QED BY <1>3, <1>4, <1>5, <1>6, <1>7, <1>8

LEMMA TypeOKInit == Init => TypeOK
<1>1. 0 \in 0..MaxDelay /\ 0 \in 0..MaxPeriod
  BY SchedulerAssumption DEF SchedulerAssumption
<1> QED BY <1>1 DEF Init, TypeOK, ThreadState

LEMMA TypeOKStep == TypeOK /\ [Next]_vars => TypeOK'
<1> SUFFICES ASSUME TypeOK, [Next]_vars PROVE TypeOK'
  OBVIOUS
<1> USE DEF Unrecorded, records, vi
<1>1. ASSUME NEW t \in Id, NEW b \in BOOLEAN, Create(t, b) PROVE TypeOK'
  <2>1. ASSUME NEW o \in MarkOrders({t})
        PROVE Sequenced({t}, o) \in [Id -> SUBSET Id]
    BY <2>1 DEF TypeOK, Sequenced
  <2>2. ahead' \in [Id -> SUBSET Id]
    <3>1. CASE b
      BY <1>1, <3>1 DEF TypeOK, Create
    <3>2. CASE ~b
      <4>1. PICK o \in MarkOrders({t}) : ahead' = Sequenced({t}, o)
        BY <1>1, <3>2 DEF Create
      <4> QED BY <2>1, <4>1
    <3> QED BY <3>1, <3>2
  <2>3. state' \in [Id -> ThreadState]
    BY <1>1 DEF TypeOK, Create, ThreadState
  <2>4. created' \subseteq Id /\ live' \subseteq created' /\ created \subseteq created'
    BY <1>1 DEF TypeOK, Create
  <2> QED BY <1>1, <2>2, <2>3, <2>4 DEF TypeOK, Create
<1>2. ASSUME NEW t \in Id, Resume(t) PROVE TypeOK'
  BY <1>2, MarkReadyType DEF TypeOK, Resume
<1>3. ASSUME NEW t \in Id, Suspend(t) PROVE TypeOK'
  BY <1>3 DEF TypeOK, Suspend, ThreadState
<1>4. ASSUME NEW t \in Id, Cancel(t) PROVE TypeOK'
  <2>1. Die(t, "Cancelled") /\ wake \in [Id -> 0..MaxDelay] /\ "Cancelled" \in Dead
    BY <1>4 DEF Cancel, TypeOK, Dead
  <2> QED BY <1>4, <2>1, DieType DEF TypeOK, Cancel
<1>5. ASSUME NEW q \in Queue, Send(q) PROVE TypeOK'
  <2>1. PICK t \in In("WaitingQueue") : MarkReady({t}) /\ UNCHANGED Unrecorded
    BY <1>5 DEF Send
  <2> QED BY <2>1, MarkReadyType DEF TypeOK, In
<1>6. ASSUME NEW b \in BOOLEAN, SetBackgrounded(b) PROVE TypeOK'
  BY <1>6 DEF TypeOK, SetBackgrounded
<1>7. ASSUME NEW p \in 0..MaxPeriod, ConfigureViRetrace(p) PROVE TypeOK'
  BY <1>7 DEF TypeOK, ConfigureViRetrace
<1>8. ASSUME Shutdown PROVE TypeOK'
  BY <1>8 DEF TypeOK, Shutdown, ThreadState, Dead
<1>9. ASSUME ReapTerminated PROVE TypeOK'
  BY <1>9 DEF TypeOK, ReapTerminated
<1>10. ASSUME NEW r \in Runner, RunSelect(r) PROVE TypeOK'
  <2>1. Due \in SUBSET Id /\ wake \in [Id -> 0..MaxDelay]
    BY DEF Due, In, TypeOK
  <2>2. PICK o \in MarkOrders(Due), t \in In("Ready") \cup Due :
           /\ ahead' = Sequenced(Due, o)
           /\ state' = [Readied(Due) EXCEPT ![t] = "Running"]
           /\ step' = [step EXCEPT ![r] = t]
    BY <1>10 DEF RunSelect
  <2>3. /\ Sequenced(Due, o) \in [Id -> SUBSET Id]
        /\ Readied(Due) \in [Id -> ThreadState]
        /\ Unslept(Due, wake) \in [Id -> 0..MaxDelay]
        /\ Unwaited(Due) \in [Id -> Id \cup Queue \cup {None}]
    BY <2>1, ReadiedType
  <2>4. t \in created
    BY DEF Due, In, TypeOK
  <2>5. wake' = Unslept(Due, wake) /\ wait' = Unwaited(Due)
        /\ UNCHANGED <<created, live, retrace, vi, backgrounded, shutdown>>
    BY <1>10 DEF RunSelect
  <2>6. state' \in [Id -> ThreadState]
    BY <2>2, <2>3 DEF ThreadState
  <2> QED BY <2>2, <2>3, <2>4, <2>5, <2>6 DEF TypeOK
<1>11. ASSUME NEW r \in Runner, RunAdvance(r) PROVE TypeOK'
  <2>1. PICK n \in In("Sleeping") :
          LET W == {t \in In("Sleeping") : wake[t] = wake[n]} IN
           /\ \E o \in MarkOrders(W) : ahead' = Sequenced(W, o)
           /\ state' = Readied(W)
           /\ wait' = Unwaited(W)
           /\ wake' = Unslept(W, [t \in Id |-> IF wake[t] > wake[n]
                                              THEN wake[t] - wake[n] ELSE 0])
    BY <1>11 DEF RunAdvance
  <2> DEFINE W == {t \in In("Sleeping") : wake[t] = wake[n]}
             w == [t \in Id |-> IF wake[t] > wake[n] THEN wake[t] - wake[n] ELSE 0]
  <2>2. W \in SUBSET Id /\ n \in Id
    BY DEF In, TypeOK
  <2>3. w \in [Id -> 0..MaxDelay]
    <3>1. \A a, b \in 0..MaxDelay : (IF a > b THEN a - b ELSE 0) \in 0..MaxDelay
      BY SchedulerAssumption DEF SchedulerAssumption
    <3> QED BY <2>2, <3>1 DEF TypeOK
  <2>4. /\ \E o \in MarkOrders(W) : ahead' = Sequenced(W, o)
        /\ state' = Readied(W) /\ wait' = Unwaited(W) /\ wake' = Unslept(W, w)
    BY <2>1
  <2> HIDE DEF W, w
  <2>5. /\ ahead' \in [Id -> SUBSET Id]
        /\ state' \in [Id -> ThreadState]
        /\ wake' \in [Id -> 0..MaxDelay]
        /\ wait' \in [Id -> Id \cup Queue \cup {None}]
    BY <2>2, <2>3, <2>4, ReadiedType
  <2> QED BY <1>11, <2>5 DEF TypeOK, RunAdvance
<1>12. ASSUME NEW r \in Runner, RunCommit(r) PROVE TypeOK'
  <2>1. step[r] \in created
    BY <1>12 DEF RunCommit, TypeOK
  <2>2. /\ ahead' \in [Id -> SUBSET Id]
        /\ state' \in [Id -> ThreadState]
        /\ wake' \in [Id -> 0..MaxDelay]
        /\ wait' \in [Id -> Id \cup Queue \cup {None}]
    BY <1>12, <2>1, CommitType DEF RunCommit
  <2>3. retrace' \in [Runner -> BOOLEAN] /\ period' = period /\ left' \in 0..MaxPeriod
    BY <1>12, SchedulerAssumption
    DEF RunCommit, CountOperation, TypeOK, SchedulerAssumption
  <2> QED BY <1>12, <2>2, <2>3 DEF TypeOK, RunCommit
<1>13. ASSUME NEW r \in Runner, RunRetrace(r) PROVE TypeOK'
  BY <1>13 DEF TypeOK, RunRetrace
<1>14. CASE UNCHANGED vars
  BY <1>14 DEF TypeOK, vars
<1> QED
  BY <1>1, <1>2, <1>3, <1>4, <1>5, <1>6, <1>7, <1>8, <1>9, <1>10, <1>11,
     <1>12, <1>13, <1>14 DEF Next, RunOne

(***************************************************************************)
(* Every reachable state of the scheduler is well typed.                   *)
(***************************************************************************)
THEOREM TypeCorrect == Spec => []TypeOK
<1>1. Init => TypeOK
  BY TypeOKInit
<1>2. TypeOK /\ [Next]_vars => TypeOK'
  BY TypeOKStep
<1> QED BY <1>1, <1>2, PTL DEF Spec
-----------------------------------------------------------------------------
(***************************************************************************)
(* The three safety invariants of the scheduler.  JoinTargetAlive is not   *)
(* inductive by itself: a step that commits after Shutdown ends its thread *)
(* without waking the joiners, and only NoRunnableAfterShutdown says that  *)
(* there are none left.                                                    *)
(***************************************************************************)
SafetyInv ==
    /\ TypeOK
    /\ RunningHasRunner
    /\ JoinTargetAlive
    /\ NoRunnableAfterShutdown

\* every commit but the one that follows Shutdown
Commit(t) == \/ CommitYield(t) \/ CommitSleep(t) \/ CommitWaitQueue(t)
             \/ CommitWaitJoin(t) \/ CommitExit(t)

(***************************************************************************)
(* What a commit may do to the states: it moves its own thread out of      *)
(* Running, and of the others it can only ready those joining it.          *)
(***************************************************************************)
LEMMA CommitState ==
    ASSUME TypeOK, NEW t \in created, Commit(t)
    PROVE  /\ state'[t] # "Running"
           /\ \A u \in Id \ {t} : \/ state'[u] = state[u] /\ wait'[u] = wait[u]
                                  \/ state'[u] = "Ready" /\ u \in Joiners(t)
           /\ \/ state'[t] \notin Dead
              \/ \A u \in Joiners(t) \ {t} : state'[u] = "Ready"
           /\ state'[t] = "WaitingJoin" =>
                 \/ wait'[t] = t
                 \/ wait'[t] \in live /\ state'[wait'[t]] \notin Dead
<1>1. t \in Id /\ live \subseteq Id
  BY DEF TypeOK
<1>2. CASE CommitYield(t)
  BY <1>1, <1>2 DEF CommitYield, Readied, Unwaited, TypeOK, Dead
<1>3. CASE CommitSleep(t)
  BY <1>1, <1>3 DEF CommitSleep, TypeOK, Dead
<1>4. CASE CommitWaitQueue(t)
  BY <1>1, <1>4 DEF CommitWaitQueue, TypeOK, Dead
<1>5. CASE CommitWaitJoin(t)
  <2>1. PICK g \in Id : IF g \notin live \/ state[g] \in Dead
                        THEN CommitYield(t)
                        ELSE /\ state' = [state EXCEPT ![t] = "WaitingJoin"]
                             /\ wait' = [wait EXCEPT ![t] = g]
    BY <1>5 DEF CommitWaitJoin
  <2>2. CASE g \notin live \/ state[g] \in Dead
    BY <1>2, <2>1, <2>2
  <2>3. CASE g \in live /\ state[g] \notin Dead
    BY <1>1, <2>1, <2>3 DEF TypeOK, Dead
  <2> QED BY <2>2, <2>3
<1>6. CASE CommitExit(t)
  <2>1. /\ state' = [Readied(Joiners(t) \ {t}) EXCEPT ![t] = "Terminated"]
        /\ wait' = Unwaited(Joiners(t) \ {t})
    BY <1>6 DEF CommitExit, Die
  <2>2. \A u \in Id \ {t} : /\ state'[u] = Readied(Joiners(t) \ {t})[u]
                           /\ wait'[u] = Unwaited(Joiners(t) \ {t})[u]
    BY <1>1, <2>1 DEF Readied
  <2>3. state'[t] = "Terminated"
    BY <1>1, <2>1 DEF Readied
  <2>4. \A u \in Joiners(t) \ {t} : state'[u] = "Ready"
    BY <1>1, <2>2 DEF Readied, Joiners
  <2> QED BY <2>2, <2>3, <2>4 DEF Readied, Unwaited
<1> QED BY <1>2, <1>3, <1>4, <1>5, <1>6 DEF Commit

LEMMA RunningStep == TypeOK /\ RunningHasRunner /\ [Next]_vars => RunningHasRunner'
<1> SUFFICES ASSUME TypeOK, RunningHasRunner, [Next]_vars,
                    NEW u \in live', state'[u] = "Running"
             PROVE  InFlight(u)'
  BY DEF RunningHasRunner
<1> USE DEF Unrecorded, records, vi, RunningHasRunner, InFlight
<1>1. ASSUME NEW t \in Id, NEW b \in BOOLEAN, Create(t, b) PROVE InFlight(u)'
  BY <1>1 DEF TypeOK, Create
<1>2. ASSUME NEW t \in Id, Resume(t) PROVE InFlight(u)'
  BY <1>2 DEF TypeOK, Resume, MarkReady, Readied
<1>3. ASSUME NEW t \in Id, Suspend(t) PROVE InFlight(u)'
  BY <1>3 DEF TypeOK, Suspend
<1>4. ASSUME NEW t \in Id, Cancel(t) PROVE InFlight(u)'
  BY <1>4 DEF TypeOK, Cancel, Die, Readied
<1>5. ASSUME NEW q \in Queue, Send(q) PROVE InFlight(u)'
  BY <1>5 DEF TypeOK, Send, MarkReady, Readied
<1>6. ASSUME NEW b \in BOOLEAN, SetBackgrounded(b) PROVE InFlight(u)'
  BY <1>6 DEF SetBackgrounded
<1>7. ASSUME NEW p \in 0..MaxPeriod, ConfigureViRetrace(p) PROVE InFlight(u)'
  BY <1>7 DEF ConfigureViRetrace
<1>8. ASSUME Shutdown PROVE InFlight(u)'
  BY <1>8 DEF TypeOK, Shutdown
<1>9. ASSUME ReapTerminated PROVE InFlight(u)'
  BY <1>9 DEF ReapTerminated
<1>10. ASSUME NEW r \in Runner, RunSelect(r) PROVE InFlight(u)'
  <2>1. PICK t \in In("Ready") \cup Due :
           /\ state' = [Readied(Due) EXCEPT ![t] = "Running"]
           /\ step' = [step EXCEPT ![r] = t]
    BY <1>10 DEF RunSelect
  <2>2. live' = live /\ step[r] = None /\ u \in Id /\ t \in Id /\ None \notin Id
    BY <1>10, SchedulerAssumption
    DEF RunSelect, MayRun, Inside, In, Due, TypeOK, SchedulerAssumption
  <2>3. CASE u = t
    BY <2>1, <2>3 DEF TypeOK
  <2>4. CASE u # t
    <3>1. state[u] = "Running"
      BY <2>1, <2>2, <2>4 DEF Readied
    <3> QED BY <2>1, <2>2, <3>1 DEF TypeOK
  <2> QED BY <2>3, <2>4
<1>11. ASSUME NEW r \in Runner, RunAdvance(r) PROVE InFlight(u)'
  BY <1>11 DEF TypeOK, RunAdvance, Readied
<1>12. ASSUME NEW r \in Runner, RunCommit(r) PROVE InFlight(u)'
  <2>1. step[r] \in created /\ live' = live /\ step' = [step EXCEPT ![r] = None]
    BY <1>12 DEF RunCommit, TypeOK
  <2>2. state'[step[r]] # "Running" /\ (u # step[r] => state[u] = "Running")
    <3>1. CASE shutdown
      BY <1>12, <2>1, <3>1 DEF RunCommit, CommitShutdown, TypeOK
    <3>2. CASE ~shutdown
      BY <1>12, <2>1, <3>2, CommitState DEF RunCommit, Commit, TypeOK
    <3> QED BY <3>1, <3>2
  <2> QED BY <2>1, <2>2 DEF TypeOK
<1>13. ASSUME NEW r \in Runner, RunRetrace(r) PROVE InFlight(u)'
  BY <1>13 DEF RunRetrace
<1>14. CASE UNCHANGED vars
  BY <1>14 DEF vars
<1> QED
  BY <1>1, <1>2, <1>3, <1>4, <1>5, <1>6, <1>7, <1>8, <1>9, <1>10, <1>11,
     <1>12, <1>13, <1>14 DEF Next, RunOne

LEMMA ShutdownStep ==
    TypeOK /\ NoRunnableAfterShutdown /\ [Next]_vars => NoRunnableAfterShutdown'
<1> SUFFICES ASSUME TypeOK, NoRunnableAfterShutdown, [Next]_vars,
                    shutdown', NEW u \in live'
             PROVE  state'[u] \in Dead
  BY DEF NoRunnableAfterShutdown
<1> USE DEF Unrecorded, records, vi, NoRunnableAfterShutdown, Dead
<1>1. ASSUME NEW t \in Id, NEW b \in BOOLEAN, Create(t, b) PROVE state'[u] \in Dead
  BY <1>1 DEF Create
<1>2. ASSUME NEW t \in Id, Resume(t) PROVE state'[u] \in Dead
  BY <1>2 DEF Resume
<1>3. ASSUME NEW t \in Id, Suspend(t) PROVE state'[u] \in Dead
  BY <1>3 DEF Suspend
<1>4. ASSUME NEW t \in Id, Cancel(t) PROVE state'[u] \in Dead
  BY <1>4 DEF Cancel
<1>5. ASSUME NEW q \in Queue, Send(q) PROVE state'[u] \in Dead
  BY <1>5 DEF Send, In
<1>6. ASSUME NEW b \in BOOLEAN, SetBackgrounded(b) PROVE state'[u] \in Dead
  BY <1>6 DEF SetBackgrounded
<1>7. ASSUME NEW p \in 0..MaxPeriod, ConfigureViRetrace(p) PROVE state'[u] \in Dead
  BY <1>7 DEF ConfigureViRetrace
<1>8. ASSUME Shutdown PROVE state'[u] \in Dead
  BY <1>8 DEF Shutdown, TypeOK
<1>9. ASSUME ReapTerminated PROVE state'[u] \in Dead
  BY <1>9 DEF ReapTerminated
<1>10. ASSUME NEW r \in Runner, RunSelect(r) PROVE state'[u] \in Dead
  BY <1>10 DEF RunSelect, MayRun
<1>11. ASSUME NEW r \in Runner, RunAdvance(r) PROVE state'[u] \in Dead
  BY <1>11 DEF RunAdvance, MayRun
<1>12. ASSUME NEW r \in Runner, RunCommit(r) PROVE state'[u] \in Dead
  BY <1>12 DEF RunCommit, CommitShutdown, TypeOK
<1>13. ASSUME NEW r \in Runner, RunRetrace(r) PROVE state'[u] \in Dead
  BY <1>13 DEF RunRetrace
<1>14. CASE UNCHANGED vars
  BY <1>14 DEF vars
<1> QED
  BY <1>1, <1>2, <1>3, <1>4, <1>5, <1>6, <1>7, <1>8, <1>9, <1>10, <1>11,
     <1>12, <1>13, <1>14 DEF Next, RunOne

LEMMA JoinStep ==
    TypeOK /\ NoRunnableAfterShutdown /\ JoinTargetAlive /\ [Next]_vars
        => JoinTargetAlive'
<1> SUFFICES ASSUME TypeOK, NoRunnableAfterShutdown, JoinTargetAlive, [Next]_vars,
                    NEW u \in live', state'[u] = "WaitingJoin"
             PROVE  wait'[u] \in live' /\ state'[wait'[u]] \notin Dead
  BY DEF JoinTargetAlive, In
<1> DEFINE Goal == wait'[u] \in live' /\ state'[wait'[u]] \notin Dead
<1> USE DEF Unrecorded, records, vi, JoinTargetAlive, In, Dead
<1>0. live \subseteq Id /\ live \subseteq created
  BY DEF TypeOK
<1>1. ASSUME NEW t \in Id, NEW b \in BOOLEAN, Create(t, b) PROVE Goal
  BY <1>0, <1>1 DEF TypeOK, Create
<1>2. ASSUME NEW t \in Id, Resume(t) PROVE Goal
  BY <1>0, <1>2 DEF TypeOK, Resume, MarkReady, Readied, Unwaited
<1>3. ASSUME NEW t \in Id, Suspend(t) PROVE Goal
  BY <1>0, <1>3 DEF TypeOK, Suspend
<1>4. ASSUME NEW t \in Id, Cancel(t) PROVE Goal
  <2>1. /\ state' = [Readied(Joiners(t) \ {t}) EXCEPT ![t] = "Cancelled"]
        /\ wait' = Unwaited(Joiners(t) \ {t}) /\ live' = live
    BY <1>4 DEF Cancel, Die
  <2>2. \A x \in Id \ {t} : /\ state'[x] = Readied(Joiners(t) \ {t})[x]
                           /\ wait'[x] = Unwaited(Joiners(t) \ {t})[x]
    BY <2>1 DEF Readied
  <2>3. u # t
    BY <1>4, <2>1 DEF Readied
  <2>4. u \notin Joiners(t) /\ state[u] = "WaitingJoin" /\ wait'[u] = wait[u]
    BY <1>0, <2>1, <2>2, <2>3 DEF Readied, Unwaited, Joiners
  <2>5. wait[u] \in live \ {t} /\ state[wait[u]] \notin Dead
    BY <2>1, <2>4 DEF Joiners
  <2>6. state'[wait[u]] \notin Dead
    BY <1>0, <2>2, <2>5 DEF Readied
  <2> QED BY <2>1, <2>4, <2>5, <2>6
<1>5. ASSUME NEW q \in Queue, Send(q) PROVE Goal
  <2>1. PICK t \in In("WaitingQueue") : MarkReady({t}) /\ UNCHANGED Unrecorded
    BY <1>5 DEF Send
  <2> QED BY <1>0, <2>1 DEF TypeOK, MarkReady, Readied, Unwaited
<1>6. ASSUME NEW b \in BOOLEAN, SetBackgrounded(b) PROVE Goal
  BY <1>6 DEF SetBackgrounded
<1>7. ASSUME NEW p \in 0..MaxPeriod, ConfigureViRetrace(p) PROVE Goal
  BY <1>7 DEF ConfigureViRetrace
<1>8. ASSUME Shutdown PROVE Goal
  BY <1>0, <1>8 DEF Shutdown, TypeOK
<1>9. ASSUME ReapTerminated PROVE Goal
  BY <1>9 DEF ReapTerminated
<1>10. ASSUME NEW r \in Runner, RunSelect(r) PROVE Goal
  <2>1. PICK t \in In("Ready") \cup Due :
           state' = [Readied(Due) EXCEPT ![t] = "Running"]
    BY <1>10 DEF RunSelect
  <2>2. live' = live /\ wait' = Unwaited(Due)
    BY <1>10 DEF RunSelect
  <2>3. state[u] = "WaitingJoin" /\ wait'[u] = wait[u]
    BY <1>0, <2>1, <2>2 DEF Readied, Unwaited, Due
  <2>4. wait[u] \in live /\ state[wait[u]] \notin Dead
    BY <2>2, <2>3
  <2>5. state'[wait[u]] \notin Dead
    BY <1>0, <2>1, <2>4 DEF Readied
  <2> QED BY <2>2, <2>3, <2>4, <2>5
<1>11. ASSUME NEW r \in Runner, RunAdvance(r) PROVE Goal
  <2>1. PICK W \in SUBSET In("Sleeping") : state' = Readied(W) /\ wait' = Unwaited(W)
    BY <1>11 DEF RunAdvance
  <2> QED BY <1>0, <1>11, <2>1 DEF RunAdvance, Readied, Unwaited
<1>12. ASSUME NEW r \in Runner, RunCommit(r) PROVE Goal
  <2>1. step[r] \in created /\ live' = live /\ step[r] \in Id
    BY <1>12 DEF RunCommit, TypeOK
  <2>2. CASE shutdown
    BY <1>0, <1>12, <2>1, <2>2
    DEF RunCommit, CommitShutdown, TypeOK, NoRunnableAfterShutdown
  <2>3. CASE ~shutdown
    <3>1. Commit(step[r])
      BY <1>12, <2>3 DEF RunCommit, Commit
    <3>2. CASE u = step[r]
      BY <1>0, <2>1, <3>1, <3>2, CommitState
    <3>3. CASE u # step[r]
      <4>1. state[u] = "WaitingJoin" /\ wait'[u] = wait[u]
        BY <1>0, <2>1, <3>1, <3>3, CommitState
      <4>2. wait[u] \in live /\ state[wait[u]] \notin Dead
        BY <2>1, <4>1
      <4>3. CASE wait[u] = step[r]
        BY <1>0, <2>1, <3>1, <3>3, <4>1, <4>2, <4>3, CommitState DEF Joiners
      <4>4. CASE wait[u] # step[r]
        BY <1>0, <2>1, <3>1, <4>1, <4>2, <4>4, CommitState
      <4> QED BY <4>3, <4>4
    <3> QED BY <3>2, <3>3
  <2> QED BY <2>2, <2>3
<1>13. ASSUME NEW r \in Runner, RunRetrace(r) PROVE Goal
  BY <1>13 DEF RunRetrace
<1>14. CASE UNCHANGED vars
  BY <1>14 DEF vars
<1> QED
  BY <1>1, <1>2, <1>3, <1>4, <1>5, <1>6, <1>7, <1>8, <1>9, <1>10, <1>11,
     <1>12, <1>13, <1>14 DEF Next, RunOne

LEMMA SafetyInvariant == Spec => []SafetyInv
<1>1. Init => SafetyInv
  BY TypeOKInit
  DEF Init, SafetyInv, RunningHasRunner, JoinTargetAlive, NoRunnableAfterShutdown, In
<1>2. SafetyInv /\ [Next]_vars => SafetyInv'
  BY TypeOKStep, RunningStep, ShutdownStep, JoinStep DEF SafetyInv
<1> QED BY <1>1, <1>2, PTL DEF Spec

(***************************************************************************)
(* A thread in state Running always has a runner inside its step.          *)
(***************************************************************************)
THEOREM NoStrandedRunning == Spec => []RunningHasRunner
<1>1. SafetyInv => RunningHasRunner
  BY DEF SafetyInv
<1> QED BY <1>1, SafetyInvariant, PTL

(***************************************************************************)
(* No thread waits to join one that has ended or was reaped.               *)
(***************************************************************************)
THEOREM NoStrandedJoiner == Spec => []JoinTargetAlive
<1>1. SafetyInv => JoinTargetAlive
  BY DEF SafetyInv
<1> QED BY <1>1, SafetyInvariant, PTL

(***************************************************************************)
(* Shutdown is final for every thread, in flight or not.                   *)
(***************************************************************************)
THEOREM ShutdownIsFinal == Spec => []NoRunnableAfterShutdown
<1>1. SafetyInv => NoRunnableAfterShutdown
  BY DEF SafetyInv
<1> QED BY <1>1, SafetyInvariant, PTL

LEMMA EndedStep ==
    ASSUME TypeOK, [Next]_vars, NEW u \in live, state[u] \in Dead, ~InFlight(u)
    PROVE  state'[u] \in Dead
<1> USE DEF Unrecorded, records, vi, Dead, In
<1>0. u \in Id /\ live \subseteq created
  BY DEF TypeOK
<1>1. ASSUME NEW t \in Id, NEW b \in BOOLEAN, Create(t, b) PROVE state'[u] \in Dead
  BY <1>0, <1>1 DEF TypeOK, Create
<1>2. ASSUME NEW t \in Id, Resume(t) PROVE state'[u] \in Dead
  BY <1>0, <1>2 DEF Resume, MarkReady, Readied
<1>3. ASSUME NEW t \in Id, Suspend(t) PROVE state'[u] \in Dead
  BY <1>0, <1>3 DEF TypeOK, Suspend
<1>4. ASSUME NEW t \in Id, Cancel(t) PROVE state'[u] \in Dead
  BY <1>0, <1>4 DEF Cancel, Die, Readied, Joiners
<1>5. ASSUME NEW q \in Queue, Send(q) PROVE state'[u] \in Dead
  BY <1>0, <1>5 DEF Send, MarkReady, Readied
<1>6. ASSUME NEW b \in BOOLEAN, SetBackgrounded(b) PROVE state'[u] \in Dead
  BY <1>6 DEF SetBackgrounded
<1>7. ASSUME NEW p \in 0..MaxPeriod, ConfigureViRetrace(p) PROVE state'[u] \in Dead
  BY <1>7 DEF ConfigureViRetrace
<1>8. ASSUME Shutdown PROVE state'[u] \in Dead
  BY <1>0, <1>8 DEF Shutdown, TypeOK
<1>9. ASSUME ReapTerminated PROVE state'[u] \in Dead
  BY <1>9 DEF ReapTerminated
<1>10. ASSUME NEW r \in Runner, RunSelect(r) PROVE state'[u] \in Dead
  <2>1. PICK t \in In("Ready") \cup Due :
           state' = [Readied(Due) EXCEPT ![t] = "Running"]
    BY <1>10 DEF RunSelect
  <2> QED BY <1>0, <2>1 DEF Readied, Due
<1>11. ASSUME NEW r \in Runner, RunAdvance(r) PROVE state'[u] \in Dead
  <2>1. PICK W \in SUBSET In("Sleeping") : state' = Readied(W)
    BY <1>11 DEF RunAdvance
  <2> QED BY <1>0, <2>1 DEF Readied
<1>12. ASSUME NEW r \in Runner, RunCommit(r) PROVE state'[u] \in Dead
  <2>1. step[r] \in created /\ step[r] # u
    BY <1>12 DEF RunCommit, TypeOK, InFlight
  <2>2. CASE shutdown
    BY <1>0, <1>12, <2>1, <2>2 DEF RunCommit, CommitShutdown, TypeOK
  <2>3. CASE ~shutdown
    BY <1>0, <1>12, <2>1, <2>3, CommitState DEF RunCommit, Commit, Joiners
  <2> QED BY <2>2, <2>3
<1>13. ASSUME NEW r \in Runner, RunRetrace(r) PROVE state'[u] \in Dead
  BY <1>13 DEF RunRetrace
<1>14. CASE UNCHANGED vars
  BY <1>14 DEF vars
<1> QED
  BY <1>1, <1>2, <1>3, <1>4, <1>5, <1>6, <1>7, <1>8, <1>9, <1>10, <1>11,
     <1>12, <1>13, <1>14 DEF Next, RunOne

(***************************************************************************)
(* No late Send, Resume, alarm or join wake-up brings back a thread that   *)
(* ended and has no step in flight.                                        *)
(***************************************************************************)
THEOREM EndedIsFinal == Spec => EndedStaysEnded
<1>1. TypeOK /\ [Next]_vars =>
        [\A t \in live : state[t] \in Dead /\ ~InFlight(t) => state'[t] \in Dead]_vars
  BY EndedStep
<1> QED BY <1>1, TypeCorrect, PTL DEF Spec, EndedStaysEnded
-----------------------------------------------------------------------------
(***************************************************************************)
(* Steps are exclusive as long as no host resumes a running thread.  The   *)
(* invariant needs the types (a thread that is created now has no step yet)*)
(* and nothing else: every operation but Resume leaves a Running thread    *)
(* alone, and only Shutdown cancels one.                                   *)
(***************************************************************************)
LEMMA ExclusiveStep ==
    ASSUME ~ResumeRunning, TypeOK, StepExclusive, [Next]_vars
    PROVE  StepExclusive'
<1> USE DEF Unrecorded, records, vi, In
<1>0. /\ live \subseteq created /\ created \subseteq Id /\ None \notin Id
      /\ \A r \in Runner : step[r] # None => step[r] \in created
  BY SchedulerAssumption DEF TypeOK, SchedulerAssumption
\* a step that moves no runner in or out and keeps the running threads so
<1>a. ASSUME step' = step, shutdown => shutdown',
             \A u \in created : u \in live /\ state[u] = "Running" =>
                \/ u \in live' /\ state'[u] = "Running"
                \/ shutdown'
      PROVE  StepExclusive'
  BY <1>0, <1>a DEF StepExclusive
<1>1. ASSUME NEW t \in Id, NEW b \in BOOLEAN, Create(t, b) PROVE StepExclusive'
  BY <1>0, <1>1, <1>a DEF TypeOK, Create
<1>2. ASSUME NEW t \in Id, Resume(t) PROVE StepExclusive'
  <2>1. state[t] # "Running" /\ state' = Readied({t})
    BY <1>2 DEF Resume, MarkReady
  <2> QED BY <1>0, <1>2, <1>a, <2>1 DEF Resume, Readied
<1>3. ASSUME NEW t \in Id, Suspend(t) PROVE StepExclusive'
  BY <1>0, <1>3, <1>a DEF TypeOK, Suspend, Dead
<1>4. ASSUME NEW t \in Id, Cancel(t) PROVE StepExclusive'
  <2>1. state' = [Readied(Joiners(t) \ {t}) EXCEPT ![t] = "Cancelled"]
    BY <1>4 DEF Cancel, Die
  <2>2. \A u \in Id : state[u] = "Running" => state'[u] = "Running"
    BY <1>4, <2>1 DEF Cancel, Dead, Readied, Joiners
  <2> QED BY <1>0, <1>4, <1>a, <2>2 DEF Cancel
<1>5. ASSUME NEW q \in Queue, Send(q) PROVE StepExclusive'
  <2>1. PICK t \in In("WaitingQueue") : MarkReady({t}) /\ UNCHANGED Unrecorded
    BY <1>5 DEF Send
  <2> QED BY <1>0, <1>a, <2>1 DEF MarkReady, Readied
<1>6. ASSUME NEW b \in BOOLEAN, SetBackgrounded(b) PROVE StepExclusive'
  BY <1>6, <1>a DEF SetBackgrounded
<1>7. ASSUME NEW p \in 0..MaxPeriod, ConfigureViRetrace(p) PROVE StepExclusive'
  BY <1>7, <1>a DEF ConfigureViRetrace
<1>8. ASSUME Shutdown PROVE StepExclusive'
  BY <1>8, <1>a DEF Shutdown
<1>9. ASSUME ReapTerminated PROVE StepExclusive'
  BY <1>9, <1>a DEF ReapTerminated, Dead
<1>10. ASSUME NEW r \in Runner, RunSelect(r) PROVE StepExclusive'
  <2>1. PICK t \in In("Ready") \cup Due :
           /\ state' = [Readied(Due) EXCEPT ![t] = "Running"]
           /\ step' = [step EXCEPT ![r] = t]
    BY <1>10 DEF RunSelect
  <2>2. /\ live' = live /\ ~shutdown /\ t \in live /\ t \in Id
        /\ state[t] # "Running" /\ Due \subseteq {u \in Id : state[u] # "Running"}
    BY <1>0, <1>10 DEF RunSelect, MayRun, Due
  <2>3. \A s \in Runner : step[s] # None =>
           step[s] \in live /\ state[step[s]] = "Running" /\ step[s] # t
    BY <2>2 DEF StepExclusive
  <2>4. \A u \in Id : state[u] = "Running" => state'[u] = "Running"
    BY <2>1, <2>2 DEF Readied
  <2>5. \A s \in Runner : step'[s] = IF s = r THEN t ELSE step[s]
    BY <2>1 DEF TypeOK
  <2>6. state'[t] = "Running"
    BY <2>1, <2>2 DEF Readied
  <2> QED BY <1>0, <2>2, <2>3, <2>4, <2>5, <2>6 DEF StepExclusive
<1>11. ASSUME NEW r \in Runner, RunAdvance(r) PROVE StepExclusive'
  <2>1. PICK W \in SUBSET In("Sleeping") : state' = Readied(W)
    BY <1>11 DEF RunAdvance
  <2> QED BY <1>0, <1>11, <1>a, <2>1 DEF RunAdvance, Readied
<1>12. ASSUME NEW r \in Runner, RunCommit(r) PROVE StepExclusive'
  <2>1. /\ step[r] \in created /\ step[r] # None
        /\ live' = live /\ shutdown' = shutdown
        /\ step' = [step EXCEPT ![r] = None]
    BY <1>12 DEF RunCommit, TypeOK
  <2>2. \A s \in Runner : step'[s] = IF s = r THEN None ELSE step[s]
    BY <2>1 DEF TypeOK
  <2>3. CASE shutdown
    BY <2>1, <2>2, <2>3 DEF StepExclusive
  <2>4. CASE ~shutdown
    <3>1. Commit(step[r])
      BY <1>12, <2>4 DEF RunCommit, Commit
    <3>2. \A u \in Id \ {step[r]} : state[u] = "Running" => state'[u] = "Running"
      BY <2>1, <3>1, CommitState DEF Joiners
    <3> QED BY <1>0, <2>1, <2>2, <2>4, <3>2 DEF StepExclusive
  <2> QED BY <2>3, <2>4
<1>13. ASSUME NEW r \in Runner, RunRetrace(r) PROVE StepExclusive'
  BY <1>13, <1>a DEF RunRetrace
<1>14. CASE UNCHANGED vars
  BY <1>14, <1>a DEF vars
<1> QED
  BY <1>1, <1>2, <1>3, <1>4, <1>5, <1>6, <1>7, <1>8, <1>9, <1>10, <1>11,
     <1>12, <1>13, <1>14 DEF Next, RunOne

(***************************************************************************)
(* With hosts that leave running threads alone, no thread is executed by   *)
(* two runners, and until its own commit no other operation than Shutdown  *)
(* takes a thread out of Running or out of threads_.                       *)
(***************************************************************************)
THEOREM StepsAreExclusive == ASSUME ~ResumeRunning PROVE Spec => []StepExclusive
<1>1. Init => StepExclusive
  BY DEF Init, StepExclusive
<1>2. TypeOK /\ StepExclusive /\ [Next]_vars => StepExclusive'
  BY ExclusiveStep
<1> QED BY <1>1, <1>2, TypeCorrect, PTL DEF Spec
=============================================================================
