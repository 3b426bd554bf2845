--------------------------- MODULE GuestScheduler ---------------------------
(***************************************************************************)
(* The cooperative guest scheduler of runtime/src/scheduler.               *)
(*                                                                         *)
(* Every public operation takes the scheduler's mutex, so each one is one  *)
(* action.  RunOne is the exception: it selects a thread under the mutex,  *)
(* runs the guest step with the mutex RELEASED, and takes it again to      *)
(* commit what the step asked for.  A runner is a host thread inside       *)
(* RunOne; between RunSelect and RunCommit any operation may run, called   *)
(* by another host thread or by the guest step itself.                     *)
(*                                                                         *)
(* Two unbounded counters are represented by what the code compares:       *)
(*   ready_sequence as ahead[t], the threads with a smaller one than t;    *)
(*   wake_tick and tick_ as wake[t], the ticks still to go, 0 when due.    *)
(***************************************************************************)
EXTENDS Integers, FiniteSets

CONSTANTS
    Id,             \* thread ids Create can hand out, each at most once
    Queue,          \* message queues a step can wait on
    Runner,         \* host threads that call RunOne
    Prio,           \* the priority Create gives each id, smaller is more urgent
    MaxDelay,       \* longest sleep, in ticks
    MaxPeriod,      \* longest VI period, in operations; 0 switches VI off
    ResumeRunning,  \* do hosts call Resume on a thread whose step is running?
    None

ASSUME SchedulerAssumption ==
    /\ Prio \in [Id -> Int]
    /\ MaxDelay \in Nat
    /\ MaxPeriod \in Nat
    /\ ResumeRunning \in BOOLEAN
    /\ Id \cap Queue = {}
    /\ None \notin Id \cup Queue

VARIABLES
    created,        \* ids below next_id_
    live,           \* keys of threads_
    state, ahead, wake, wait,   \* the ThreadRecords
    step,           \* step[r]: the thread whose step runner r is executing
    retrace,        \* retrace[r]: runner r owes the VI callback
    period, left,   \* vi_period_, and next_vi_operation_ - operations_
    backgrounded, shutdown

records == <<state, ahead, wake, wait>>
vi == <<period, left>>
vars == <<created, live, records, step, retrace, vi, backgrounded, shutdown>>

Dead == {"Terminated", "Cancelled"}
ThreadState == Dead \cup {"Suspended", "Ready", "Running", "Sleeping",
                          "WaitingQueue", "WaitingJoin"}

TypeOK ==
    /\ created \subseteq Id
    /\ live \subseteq created
    /\ state \in [Id -> ThreadState]
    /\ ahead \in [Id -> SUBSET Id]
    /\ wake \in [Id -> 0..MaxDelay]
    /\ wait \in [Id -> Id \cup Queue \cup {None}]
    /\ step \in [Runner -> created \cup {None}]
    /\ retrace \in [Runner -> BOOLEAN]
    /\ period \in 0..MaxPeriod /\ left \in 0..MaxPeriod
    /\ backgrounded \in BOOLEAN /\ shutdown \in BOOLEAN

In(s) == {t \in live : state[t] = s}
InFlight(t) == \E r \in Runner : step[r] = t

Init ==
    /\ created = {} /\ live = {}
    /\ state = [t \in Id |-> "Suspended"]
    /\ ahead = [t \in Id |-> {}]
    /\ wake = [t \in Id |-> 0]
    /\ wait = [t \in Id |-> None]
    /\ step = [r \in Runner |-> None]
    /\ retrace = [r \in Runner |-> FALSE]
    /\ period = 0 /\ left = 0
    /\ backgrounded = FALSE /\ shutdown = FALSE
-----------------------------------------------------------------------------
(***************************************************************************)
(* The order in which threads_ hands several threads to MarkReady is that  *)
(* of an unordered_map: any of them.                                       *)
(***************************************************************************)
MarkOrders(W) == {o \in [W -> 1..Cardinality(W)] :
                    \A t, u \in W : o[t] = o[u] => t = u}

\* fault: a thread made ready goes to the front of the line
LifoSequenced(W, o) ==
    [t \in Id |-> IF t \in W THEN {} ELSE ahead[t] \cup W]

\* ready_sequence after the threads of W took new numbers in the order o
Sequenced(W, o) ==
    [t \in Id |-> IF t \in W THEN (Id \ W) \cup {u \in W : o[u] < o[t]}
                             ELSE ahead[t] \ W]

\* the records' fields after MarkReady of every thread of W
Readied(W) == [t \in Id |-> IF t \in W THEN "Ready" ELSE state[t]]
Unslept(W, w) == [t \in Id |-> IF t \in W THEN 0 ELSE w[t]]
Unwaited(W) == [t \in Id |-> IF t \in W THEN None ELSE wait[t]]

MarkReady(W) ==
    /\ \E o \in MarkOrders(W) : ahead' = Sequenced(W, o)
    /\ state' = Readied(W)
    /\ wake' = Unslept(W, wake)
    /\ wait' = Unwaited(W)

\* fault: wait_value is compared whatever the state of the thread
StaleJoiners(t) == {u \in live : wait[u] = t}

Joiners(t) == {u \in live : state[u] = "WaitingJoin" /\ wait[u] = t}

\* t leaves its state for the dead state s and WakeJoiners readies the rest
Die(t, s) ==
    LET W == Joiners(t) \ {t} IN
    /\ \E o \in MarkOrders(W) : ahead' = Sequenced(W, o)
    /\ state' = [Readied(W) EXCEPT ![t] = s]
    /\ wait' = Unwaited(W)

\* the most urgent thread of S, the one longest in line among equals
Selects(S, t, seq) ==
    /\ t \in S
    /\ \A u \in S \ {t} : \/ Prio[t] < Prio[u]
                          \/ Prio[t] = Prio[u] /\ u \notin seq[t]
-----------------------------------------------------------------------------
Create(t, suspended) ==
    /\ t \notin created /\ ~shutdown
    /\ created' = created \cup {t}
    /\ live' = live \cup {t}
    /\ IF suspended
       THEN /\ state' = [state EXCEPT ![t] = "Suspended"]
            /\ UNCHANGED ahead
       ELSE /\ state' = [state EXCEPT ![t] = "Ready"]
            /\ \E o \in MarkOrders({t}) : ahead' = Sequenced({t}, o)
    /\ UNCHANGED <<wake, wait, step, retrace, vi, backgrounded, shutdown>>

Unrecorded == <<created, live, step, retrace, vi, backgrounded, shutdown>>

Resume(t) ==
    /\ t \in live /\ state[t] \notin Dead
    /\ state[t] = "Running" => ResumeRunning
    /\ MarkReady({t})
    /\ UNCHANGED Unrecorded

Suspend(t) ==
    /\ t \in live /\ state[t] \notin Dead \cup {"Running"}
    /\ state' = [state EXCEPT ![t] = "Suspended"]
    /\ UNCHANGED <<ahead, wake, wait, Unrecorded>>

\* fault: Cancel accepts a running thread
CancelRunning(t) ==
    /\ t \in live /\ state[t] \notin Dead
    /\ Die(t, "Cancelled")
    /\ wake' = Unslept(Joiners(t) \ {t}, wake)
    /\ UNCHANGED Unrecorded

Cancel(t) ==
    /\ t \in live /\ state[t] \notin Dead \cup {"Running"}
    /\ Die(t, "Cancelled")
    /\ wake' = Unslept(Joiners(t) \ {t}, wake)
    /\ UNCHANGED Unrecorded

Send(q) ==
    \E t \in In("WaitingQueue") :
        /\ wait[t] = q
        /\ Selects({u \in In("WaitingQueue") : wait[u] = q}, t, ahead)
        /\ MarkReady({t})
        /\ UNCHANGED Unrecorded

SetBackgrounded(b) ==
    /\ backgrounded' = b
    /\ UNCHANGED <<created, live, records, step, retrace, vi, shutdown>>

ConfigureViRetrace(p) ==
    /\ period' = p /\ left' = p
    /\ UNCHANGED <<created, live, records, step, retrace, backgrounded, shutdown>>

Shutdown ==
    /\ shutdown' = TRUE
    /\ state' = [t \in Id |-> IF t \in live /\ state[t] # "Terminated"
                              THEN "Cancelled" ELSE state[t]]
    /\ UNCHANGED <<created, live, ahead, wake, wait, step, retrace, vi,
                   backgrounded>>

ReapTerminated ==
    /\ live' = {t \in live : state[t] \notin Dead}
    /\ UNCHANGED <<created, records, step, retrace, vi, backgrounded, shutdown>>
-----------------------------------------------------------------------------
Inside(r) == step[r] # None \/ retrace[r]
MayRun(r) == ~Inside(r) /\ ~shutdown /\ ~backgrounded

Due == {t \in In("Sleeping") : wake[t] = 0}

(***************************************************************************)
(* RunOne up to the unlock: WakeDueAlarms, then ChooseReady.  A call that  *)
(* returns Idle, Suspended or Shutdown changes nothing.                    *)
(***************************************************************************)
RunSelect(r) ==
    /\ MayRun(r)
    /\ \E o \in MarkOrders(Due), t \in In("Ready") \cup Due :
        LET seq == Sequenced(Due, o) IN
        /\ Selects(In("Ready") \cup Due, t, seq)
        /\ ahead' = seq
        /\ state' = [Readied(Due) EXCEPT ![t] = "Running"]
        /\ step' = [step EXCEPT ![r] = t]
    /\ wake' = Unslept(Due, wake)
    /\ wait' = Unwaited(Due)
    /\ UNCHANGED <<created, live, retrace, vi, backgrounded, shutdown>>

\* nothing is ready: time jumps to the nearest alarm (NextWakeTick)
RunAdvance(r) ==
    /\ MayRun(r)
    /\ In("Ready") = {} /\ Due = {}
    /\ \E next \in In("Sleeping") :
        /\ \A t \in In("Sleeping") : wake[next] <= wake[t]
        /\ LET W == {t \in In("Sleeping") : wake[t] = wake[next]} IN
           /\ \E o \in MarkOrders(W) : ahead' = Sequenced(W, o)
           /\ state' = Readied(W)
           /\ wait' = Unwaited(W)
           /\ wake' = Unslept(W, [t \in Id |-> IF wake[t] > wake[next]
                                              THEN wake[t] - wake[next] ELSE 0])
    /\ UNCHANGED Unrecorded
-----------------------------------------------------------------------------
\* fault: tick_ passes the wake tick of a thread that is not asleep
UnflooredTicked == [t \in Id |-> wake[t] - 1]
\* fault: only idle time moves the clock
FrozenTicked == wake

\* ++tick_: one tick less to go for everyone
Ticked == [t \in Id |-> IF wake[t] > 0 THEN wake[t] - 1 ELSE 0]

\* what the step's StepAction does to the record of its thread t
CommitYield(t) ==
    /\ \E o \in MarkOrders({t}) : ahead' = Sequenced({t}, o)
    /\ state' = Readied({t})
    /\ wake' = Unslept({t}, Ticked)
    /\ wait' = Unwaited({t})

CommitSleep(t) ==
    /\ \E d \in 0..MaxDelay : wake' = [Ticked EXCEPT ![t] = d]
    /\ state' = [state EXCEPT ![t] = "Sleeping"]
    /\ UNCHANGED <<ahead, wait>>

CommitWaitQueue(t) ==
    /\ \E q \in Queue : wait' = [wait EXCEPT ![t] = q]
    /\ state' = [state EXCEPT ![t] = "WaitingQueue"]
    /\ wake' = Ticked
    /\ UNCHANGED ahead

\* fault: a join of a thread that is gone changes nothing
CommitLostJoin(t) ==
    \E target \in Id :
        IF target \notin live \/ state[target] \in Dead
        THEN wake' = Ticked /\ UNCHANGED <<state, ahead, wait>>
        ELSE /\ state' = [state EXCEPT ![t] = "WaitingJoin"]
             /\ wait' = [wait EXCEPT ![t] = target]
             /\ wake' = Ticked
             /\ UNCHANGED ahead

\* fault: only a missing target counts as finished
CommitLateJoin(t) ==
    \E target \in Id :
        IF target \notin live
        THEN CommitYield(t)
        ELSE /\ state' = [state EXCEPT ![t] = "WaitingJoin"]
             /\ wait' = [wait EXCEPT ![t] = target]
             /\ wake' = Ticked
             /\ UNCHANGED ahead

CommitWaitJoin(t) ==
    \E target \in Id :
        IF target \notin live \/ state[target] \in Dead
        THEN CommitYield(t)
        ELSE /\ state' = [state EXCEPT ![t] = "WaitingJoin"]
             /\ wait' = [wait EXCEPT ![t] = target]
             /\ wake' = Ticked
             /\ UNCHANGED ahead

CommitExit(t) ==
    /\ Die(t, "Terminated")
    /\ wake' = Unslept(Joiners(t) \ {t}, Ticked)

\* the step returned after Shutdown: whatever it asked for, it is cancelled
CommitShutdown(t) ==
    /\ state' = [state EXCEPT ![t] = "Cancelled"]
    /\ wake' = Ticked
    /\ UNCHANGED <<ahead, wait>>

CountOperation(r) ==
    LET fires == period # 0 /\ left <= 1 IN
    /\ retrace' = [retrace EXCEPT ![r] = fires]
    /\ left' = IF period = 0 THEN 0 ELSE IF fires THEN period ELSE left - 1
    /\ UNCHANGED period

RunCommit(r) ==
    /\ step[r] # None
    /\ IF shutdown
       THEN CommitShutdown(step[r])
       ELSE \/ CommitYield(step[r])
            \/ CommitSleep(step[r])
            \/ CommitWaitQueue(step[r])
            \/ CommitWaitJoin(step[r])
            \/ CommitExit(step[r])
    /\ step' = [step EXCEPT ![r] = None]
    /\ CountOperation(r)
    /\ UNCHANGED <<created, live, backgrounded, shutdown>>

\* the VI callback, outside the mutex, and the return of RunOne
RunRetrace(r) ==
    /\ retrace[r]
    /\ retrace' = [retrace EXCEPT ![r] = FALSE]
    /\ UNCHANGED <<created, live, records, step, vi, backgrounded, shutdown>>

RunOne(r) == RunSelect(r) \/ RunAdvance(r) \/ RunCommit(r) \/ RunRetrace(r)
-----------------------------------------------------------------------------
Next ==
    \/ \E t \in Id, suspended \in BOOLEAN : Create(t, suspended)
    \/ \E t \in Id : Resume(t) \/ Suspend(t) \/ Cancel(t)
    \/ \E q \in Queue : Send(q)
    \/ \E b \in BOOLEAN : SetBackgrounded(b)
    \/ \E p \in 0..MaxPeriod : ConfigureViRetrace(p)
    \/ Shutdown
    \/ ReapTerminated
    \/ \E r \in Runner : RunOne(r)

Spec == Init /\ [][Next]_vars

\* a host loop keeps calling RunOne and every guest step returns
Fairness == \A r \in Runner : WF_vars(RunOne(r))
FairSpec == Spec /\ Fairness
-----------------------------------------------------------------------------
(***************************************************************************)
(* No thread is ever left in state Running without a runner inside its     *)
(* step: Suspend and Cancel refuse a Running thread, so one that was left  *)
(* behind could never be moved again.                                      *)
(***************************************************************************)
RunningHasRunner == \A t \in live : state[t] = "Running" => InFlight(t)

(***************************************************************************)
(* A thread waiting in WaitJoin waits for a thread that still exists and   *)
(* can still finish.  Exit, Cancel, Shutdown and ReapTerminated may fall   *)
(* anywhere between the joiner's step and its commit, and a wake-up that   *)
(* came before the commit is not remembered.                               *)
(***************************************************************************)
JoinTargetAlive ==
    \A t \in In("WaitingJoin") : wait[t] \in live /\ state[wait[t]] \notin Dead

(***************************************************************************)
(* After Shutdown no thread is runnable again, not even one whose step was *)
(* in flight and asks to yield (docs: "no state becomes runnable           *)
(* afterward").                                                            *)
(***************************************************************************)
NoRunnableAfterShutdown == shutdown => \A t \in live : state[t] \in Dead

(***************************************************************************)
(* A thread that has ended and has no step in flight stays ended: no late  *)
(* Send, Resume, alarm or join wake-up brings it back.                     *)
(***************************************************************************)
EndedStaysEnded ==
    [][\A t \in live : state[t] \in Dead /\ ~InFlight(t) => state'[t] \in Dead]_vars

(***************************************************************************)
(* When hosts do not Resume a thread whose step is running, a step is      *)
(* executed by one runner at a time and the thread stays Running (or is    *)
(* cancelled by Shutdown) until the step's own commit: no wake-up, Cancel  *)
(* or Reap of a thread in flight is undone by that commit.                 *)
(***************************************************************************)
StepExclusive ==
    /\ \A r, s \in Runner : step[r] = step[s] /\ step[r] # None => r = s
    /\ \A r \in Runner : step[r] # None =>
          \/ step[r] \in live /\ state[step[r]] = "Running"
          \/ shutdown

(***************************************************************************)
(* Every sleeper wakes: while the scheduler is in the foreground, other    *)
(* threads' operations and the jump to the nearest alarm both move time.   *)
(***************************************************************************)
SleeperWakes ==
    <>[]~backgrounded =>
        \A t \in Id : t \in In("Sleeping") ~> t \notin In("Sleeping")

MostUrgent(t) ==
    /\ t \in In("Ready") /\ ~shutdown /\ ~backgrounded
    /\ \A u \in In("Ready") \cup In("Running") : Prio[t] <= Prio[u]

(***************************************************************************)
(* No starvation among equals: a ready thread that stays the most urgent   *)
(* is run, whatever its equals yield, exit or are woken by; only a host    *)
(* that keeps calling Resume on it sends it back to the end of the line.   *)
(***************************************************************************)
RoundRobin ==
    \A t \in Id : <>[]MostUrgent(t) => []<><<Resume(t)>>_vars
=============================================================================
