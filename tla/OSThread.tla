------------------------------ MODULE OSThread ------------------------------
(***************************************************************************)
(* The guest kernel's threads as the runtime emulates them: the run queues *)
(* and wait queues of runtime/src/hle/os, OSSuspendThread/OSResumeThread,  *)
(* OSSleepThread/OSWakeupThread, and OSSleepTicks with its host timers.    *)
(*                                                                         *)
(* Guest threads are fibers of one host thread.  A call runs until it      *)
(* reaches SelectThread, which may resume sleepers, and a resume calls     *)
(* SelectThread again: a fiber can be switched out in the middle of any of *)
(* these loops, with what it still meant to do in its local variables.     *)
(* stack[t] is that unfinished business, the innermost call first; a fiber *)
(* whose stack is empty is running guest code.                             *)
(***************************************************************************)
EXTENDS Integers, FiniteSets, Sequences, SequencesExt

CONSTANTS
    Thread,
    WaitQueue,      \* the guest queues OSSleepThread is called with
    Base,           \* base priority of a thread, smaller is more urgent
    Calls,          \* what the guest program does (a subset of AllCalls)
    MaxSuspend,     \* bound on a suspension count
    MaxDisable,     \* bound on the nesting of OSDisableScheduler
    MaxNest,        \* bound on the loops of one fiber that wait for a resume
    None

AllCalls == {"sleepTicks", "sleepThread", "wakeup", "suspend", "resume",
             "yield", "disable", "callback"}
Lowest == 32        \* kSuspendedWaitPriority, below every run queue

ASSUME ThreadAssumption ==
    /\ Base \in [Thread -> 0..Lowest - 1]
    /\ Calls \subseteq AllCalls
    /\ MaxSuspend \in Nat \ {0} /\ MaxDisable \in Nat /\ MaxNest \in Nat
    /\ Thread # {} /\ IsFiniteSet(Thread)
    /\ WaitQueue \cap (0..Lowest) = {}
    /\ None \notin Thread \cup WaitQueue \cup (0..Lowest)

Level == {Base[t] : t \in Thread}       \* the run queues in use
Queue == Level \cup WaitQueue

VARIABLES
    os,         \* the threads' fields, the queues, the sleep timers
    running,    \* kOSRunningContextAddr; None while the idle loop runs
    fiber,      \* the guest thread whose fiber is executing
    disabled,   \* the scheduler's disable count
    seen,       \* strandFirstSeen
    astray,     \* history: who suspended itself where no switch is allowed and
                \* has not been made Running since
    stack

vars == <<os, running, fiber, disabled, seen, astray, stack>>

Kernel == [state : [Thread -> {"ready", "running", "waiting"}],
           suspend : [Thread -> 0..MaxSuspend],
           prio : [Thread -> Level \cup {Lowest}],
           link : [Thread -> Queue \cup {None}],
           queue : [Queue -> Seq(Thread)],
           pending : SUBSET Level,
           resched : BOOLEAN,
           timers : Seq(Thread),            \* gSleepTimers, in arming order
           parks : SUBSET Thread]           \* gOutstandingParks

Frame == [at : {"poll", "idle", "parked", "torn"}]
         \cup [at : {"timers", "heal"}, list : Seq(Thread)]
         \cup [at : {"pick"}, force : BOOLEAN]
         \cup [at : {"slept"}, queue : WaitQueue]

TypeOK ==
    /\ os \in Kernel
    /\ running \in Thread \cup {None}
    /\ fiber \in Thread
    /\ disabled \in 0..MaxDisable
    /\ seen \subseteq Thread /\ astray \subseteq Thread
    /\ stack \in [Thread -> Seq(Frame)]
-----------------------------------------------------------------------------
(* The list and queue primitives, as functions of the kernel's memory       *)

\* the members of s that are in S, in their order
Kept(s, S) ==
    LET kept[i \in 0..Len(s)] ==
            IF i = 0 THEN <<>>
            ELSE IF s[i] \in S THEN Append(kept[i - 1], s[i]) ELSE kept[i - 1]
    IN kept[Len(s)]

Without(s, t) == Kept(s, Thread \ {t})

\* RemoveThreadFromQueue with UpdatePendingMaskForQueue
Unlinked(o, t) ==
    LET q == o.link[t]
        rest == Without(o.queue[q], t)
    IN IF q = None THEN o
       ELSE [o EXCEPT !.queue[q] = rest, !.link[t] = None,
                      !.pending = IF rest = <<>> THEN @ \ {q} ELSE @]

\* InsertThreadIntoQueueByPriority: behind the equals, ahead of the less urgent
Linked(o, q, t) ==
    LET i == SelectInSeq(o.queue[q], LAMBDA u : o.prio[u] > o.prio[t])
    IN [o EXCEPT !.queue[q] = IF i = 0 THEN Append(@, t) ELSE InsertAt(@, i, t),
                 !.link[t] = q,
                 !.pending = IF q \in Level THEN @ \cup {q} ELSE @]

\* LinkThreadOnRunQueue with MarkRunQueuePending
Enqueued(o, t) ==
    LET p == o.prio[t]
    IN [o EXCEPT !.state[t] = "ready", !.queue[p] = Append(@, t), !.link[t] = p,
                 !.pending = @ \cup {p}, !.resched = TRUE]

\* a waiting thread moves in its queue when its priority changes
Requeued(o, t, p) ==
    LET out == [Unlinked(o, t) EXCEPT !.prio[t] = p]
    IN IF o.link[t] = None THEN out ELSE Linked(out, o.link[t], t)

Disarmed(o, t) == [o EXCEPT !.timers = Without(@, t), !.parks = @ \ {t}]

Suspended(o, t) ==
    LET up == [o EXCEPT !.suspend[t] = @ + 1]
    IN IF o.suspend[t] > 0 THEN up
       ELSE CASE o.state[t] = "ready"   -> Unlinked(up, t)
              [] o.state[t] = "running" -> [up EXCEPT !.state[t] = "ready",
                                                      !.resched = TRUE]
              [] o.state[t] = "waiting" -> Requeued(up, t, Lowest)

\* fault: a resume of a thread that is not suspended counts
ResumedBelow(o, t) ==
    LET down == [o EXCEPT !.suspend[t] = @ - 1]
        free == Disarmed(down, t)
    IN IF o.suspend[t] # 1 THEN down
       ELSE IF o.state[t] = "waiting" THEN Requeued(free, t, Base[t])
       ELSE Linked([free EXCEPT !.state[t] = "ready", !.prio[t] = Base[t],
                                !.resched = TRUE], Base[t], t)

\* a Running thread reaching count 0 is recovered as Ready
Resumed(o, t) ==
    LET down == [o EXCEPT !.suspend[t] = IF @ = 0 THEN 0 ELSE @ - 1]
        free == Disarmed(down, t)
    IN IF o.suspend[t] # 1 THEN down
       ELSE IF o.state[t] = "waiting" THEN Requeued(free, t, Base[t])
       ELSE Linked([free EXCEPT !.state[t] = "ready", !.prio[t] = Base[t],
                                !.resched = TRUE], Base[t], t)

\* The drain of a wait queue: its threads become ready, and those in `up' join
\* the run queues of their priorities, one behind the other.
Drained(o, q, up) ==
    LET ready == ToSet(o.queue[q])
        runs == {t \in ready : t \in up}
    IN [o EXCEPT
          !.state = [t \in Thread |-> IF t \in ready THEN "ready" ELSE @[t]],
          !.link = [t \in Thread |-> IF t \in runs THEN o.prio[t] ELSE @[t]],
          !.queue = [p \in Queue |->
              IF p = q THEN <<>>
              ELSE IF p \in Level THEN @[p] \o Kept(@[q], {t \in up : o.prio[t] = p})
              ELSE @[p]],
          !.pending = @ \cup {o.prio[t] : t \in runs},
          !.resched = @ \/ runs # {}]

\* fault: a suspended thread is made runnable too
WokenAll(o, q) ==
    Drained([o EXCEPT !.prio = [t \in Thread |-> IF o.link[t] = q THEN Base[t] ELSE @[t]]],
            q, Thread)

\* WakeupThreadQueue: a suspended thread becomes ready only
Woken(o, q) == Drained(o, q, {t \in Thread : o.suspend[t] = 0})
WakesAny(q) == \E i \in 1..Len(os.queue[q]) : os.suspend[os.queue[q][i]] = 0
-----------------------------------------------------------------------------
(* Calls and returns of the executing fiber                                 *)

Select(force) == <<[at |-> "poll"], [at |-> "pick", force |-> force]>>
AfterSuspend(o, t) ==
    IF o.suspend[t] = 0 /\ Suspended(o, t).resched THEN Select(FALSE) ELSE <<>>
\* fault: the reschedule flag is read before the thread is made runnable
AfterResumeStale(o, t) ==
    IF o.suspend[t] = 1 /\ o.resched THEN Select(FALSE) ELSE <<>>
AfterResume(o, t) ==
    IF o.suspend[t] = 1 /\ Resumed(o, t).resched THEN Select(FALSE) ELSE <<>>

InGuestCode == stack[fiber] = <<>> /\ running = fiber
At(at) == stack[fiber] # <<>> /\ Head(stack[fiber]).at = at
Frm == Head(stack[fiber])
Rest == Tail(stack[fiber])

\* guest code calls; the innermost call goes on as `frames', or returns
Calling(frames) == stack' = [stack EXCEPT ![fiber] = frames]
Becomes(frames) == stack' = [stack EXCEPT ![fiber] = frames \o Tail(@)]
Return == Becomes(<<>>)
-----------------------------------------------------------------------------
(* What guest code may call                                                 *)

SleepTicks ==
    /\ InGuestCode /\ "sleepTicks" \in Calls
    /\ disabled = 0 /\ os.suspend[fiber] = 0
    /\ LET armed == [os EXCEPT !.timers = Append(Without(@, fiber), fiber),
                               !.parks = @ \cup {fiber}]
       IN /\ os' = Suspended(armed, fiber)
          /\ Calling(AfterSuspend(armed, fiber) \o <<[at |-> "parked"]>>)
    /\ UNCHANGED <<running, fiber, disabled, seen, astray>>

\* a caller that is suspended is only counted once more, which is taken back
SleepSuspended ==
    /\ InGuestCode /\ "sleepTicks" \in Calls
    /\ disabled = 0 /\ os.suspend[fiber] > 0
    /\ os' = Disarmed(os, fiber)
    /\ UNCHANGED <<running, fiber, disabled, seen, astray, stack>>

\* OSSleepThread does not ask whether its caller is in a queue already
IsLinked(t) == \E q \in Queue : Contains(os.queue[q], t)

SleepThread(q) ==
    /\ InGuestCode /\ "sleepThread" \in Calls
    /\ disabled = 0 /\ ~ IsLinked(fiber)
    /\ os' = [Linked([os EXCEPT !.state[fiber] = "waiting"], q, fiber)
                 EXCEPT !.resched = TRUE]
    /\ Calling(Select(FALSE) \o <<[at |-> "slept", queue |-> q]>>)
    /\ UNCHANGED <<running, fiber, disabled, seen, astray>>

\* The node of a thread that is still in its run queue goes into a second list
\* and tears both.  The model ends here: it has no lists that are not sequences.
SleepTwice(q) ==
    /\ InGuestCode /\ "sleepThread" \in Calls
    /\ disabled = 0 /\ IsLinked(fiber)
    /\ Calling(<<[at |-> "torn"]>>)
    /\ UNCHANGED <<os, running, fiber, disabled, seen, astray>>

Torn == At("torn")
TornStays == Torn /\ UNCHANGED vars

Wakeup(q) ==
    /\ InGuestCode /\ "wakeup" \in Calls
    /\ os' = Woken(os, q)
    /\ Calling(IF WakesAny(q) THEN Select(FALSE) ELSE <<>>)
    /\ UNCHANGED <<running, fiber, disabled, seen, astray>>

SuspendThread(t) ==
    /\ InGuestCode /\ "suspend" \in Calls
    /\ os.suspend[t] < MaxSuspend
    /\ os' = Suspended(os, t)
    /\ astray' = IF t = fiber /\ disabled > 0 THEN astray \cup {t} ELSE astray
    /\ Calling(AfterSuspend(os, t))
    /\ UNCHANGED <<running, fiber, disabled, seen>>

ResumeThread(t) ==
    /\ InGuestCode /\ "resume" \in Calls
    /\ os' = Resumed(os, t)
    /\ Calling(AfterResume(os, t))
    /\ UNCHANGED <<running, fiber, disabled, seen, astray>>

Yield ==
    /\ InGuestCode /\ "yield" \in Calls
    /\ Calling(Select(TRUE))
    /\ UNCHANGED <<os, running, fiber, disabled, seen, astray>>

DisableScheduler ==
    /\ InGuestCode /\ "disable" \in Calls
    /\ disabled < MaxDisable
    /\ disabled' = disabled + 1
    /\ UNCHANGED <<os, running, fiber, seen, astray, stack>>

EnableScheduler ==
    /\ InGuestCode /\ disabled > 0
    /\ disabled' = disabled - 1
    /\ UNCHANGED <<os, running, fiber, seen, astray, stack>>

Call ==
    \/ SleepTicks \/ SleepSuspended \/ Yield \/ DisableScheduler \/ EnableScheduler
    \/ \E q \in WaitQueue : SleepThread(q) \/ SleepTwice(q) \/ Wakeup(q)
    \/ \E t \in Thread : SuspendThread(t) \/ ResumeThread(t)
-----------------------------------------------------------------------------
(* ProcessSleepTimers                                                       *)

\* deeper than MaxNest no timer is due and nothing is stranded
Nested == Len(SelectSeq(Tail(stack[fiber]), LAMBDA f : f.at \in {"timers", "heal"}))

\* the due timers leave the table for a local list
Poll(due) ==
    /\ At("poll") /\ due \subseteq ToSet(os.timers)
    /\ due # {} => Nested < MaxNest
    /\ os' = [os EXCEPT !.timers = Kept(@, Thread \ due)]
    /\ Becomes(<<[at |-> "timers", list |-> Kept(os.timers, due)]>>)
    /\ UNCHANGED <<running, fiber, disabled, seen, astray>>

FireTop == At("timers") /\ Frm.list # <<>>
Sleeper == Head(Frm.list)
Parked(o, t) == o.state[t] = "ready" /\ o.suspend[t] >= 1
Later == [Frm EXCEPT !.list = Tail(@)]

FireDue ==
    /\ FireTop /\ Parked(os, Sleeper)
    /\ LET o == [os EXCEPT !.parks = @ \ {Sleeper}]
       IN os' = Resumed(o, Sleeper) /\ Becomes(AfterResume(o, Sleeper) \o <<Later>>)
    /\ UNCHANGED <<running, fiber, disabled, seen, astray>>

\* taken for a thread still on its way to its suspension: armed again
FireRunning ==
    /\ FireTop /\ os.state[Sleeper] = "running"
    /\ os' = IF Contains(os.timers, Sleeper) THEN os
             ELSE [os EXCEPT !.timers = Append(@, Sleeper)]
    /\ Becomes(<<Later>>)
    /\ UNCHANGED <<running, fiber, disabled, seen, astray>>

FireStale ==
    /\ FireTop /\ os.state[Sleeper] # "running" /\ ~ Parked(os, Sleeper)
    /\ os' = [os EXCEPT !.parks = @ \ {Sleeper}]
    /\ Becomes(<<Later>>)
    /\ UNCHANGED <<running, fiber, disabled, seen, astray>>

NoScan ==
    /\ At("timers") /\ Frm.list = <<>>
    /\ Return
    /\ UNCHANGED <<os, running, fiber, disabled, seen, astray>>

\* fault: every scan starts the debounce again
ScanAnew(late) ==
    /\ At("timers") /\ Frm.list = <<>> /\ Nested < MaxNest
    /\ seen' = {}
    /\ Becomes(<<[at |-> "heal", list |-> <<>>]>>)
    /\ UNCHANGED <<os, running, fiber, disabled, astray>>

\* the reconciler: a park-shaped thread without a timer is healed when its
\* record is `late', 100ms old; the set of parks is unordered
Scan(late) ==
    /\ At("timers") /\ Frm.list = <<>> /\ Nested < MaxNest
    /\ LET armed == os.parks \cap ToSet(os.timers)
           stranded == {t \in os.parks \ armed : Parked(os, t)}
           heal == stranded \cap late
       IN /\ os' = [os EXCEPT !.parks = armed \cup (stranded \ heal)]
          /\ seen' = stranded \ heal
          /\ \E list \in SetToSeqs(heal) : Becomes(<<[at |-> "heal", list |-> list]>>)
    /\ UNCHANGED <<running, fiber, disabled, astray>>

Heal ==
    /\ At("heal") /\ Frm.list # <<>>
    /\ os' = Resumed(os, Sleeper)
    /\ Becomes(AfterResume(os, Sleeper) \o <<Later>>)
    /\ UNCHANGED <<running, fiber, disabled, seen, astray>>

Healed ==
    /\ At("heal") /\ Frm.list = <<>>
    /\ Return
    /\ UNCHANGED <<os, running, fiber, disabled, seen, astray>>
-----------------------------------------------------------------------------
(* SelectThread                                                             *)

Urgent(o) == CHOOSE p \in o.pending : \A x \in o.pending : p <= x

\* pop the head of the most urgent run queue and switch to its fiber
Dispatch(o) ==
    LET p == Urgent(o)
        next == Head(o.queue[p])
        rest == Tail(o.queue[p])
    IN /\ os' = [o EXCEPT !.queue[p] = rest, !.link[next] = None,
                          !.pending = IF rest = <<>> THEN @ \ {p} ELSE @,
                          !.state[next] = "running", !.resched = FALSE]
       /\ running' = next /\ fiber' = next /\ astray' = astray \ {next}
       /\ Return

Keeps == /\ running # None /\ os.state[running] = "running" /\ ~ Frm.force
         /\ \A p \in os.pending : os.prio[running] <= p
Preempted == IF os.state[running] = "running" THEN Enqueued(os, running) ELSE os

PickNothing ==
    /\ At("pick") /\ (disabled > 0 \/ running = None \/ Keeps)
    /\ Return
    /\ UNCHANGED <<os, running, fiber, disabled, seen, astray>>

PickNext ==
    /\ At("pick") /\ disabled = 0 /\ running # None /\ ~ Keeps
    /\ Preempted.pending # {}
    /\ Dispatch(Preempted)
    /\ UNCHANGED <<disabled, seen>>

PickIdle ==
    /\ At("pick") /\ disabled = 0 /\ running # None /\ ~ Keeps
    /\ Preempted.pending = {}
    /\ running' = None
    /\ Becomes(<<[at |-> "idle"]>>)
    /\ UNCHANGED <<os, fiber, disabled, seen, astray>>

Idle ==
    /\ At("idle") /\ os.pending = {}
    /\ Becomes(<<[at |-> "poll"], [at |-> "idle"]>>)
    /\ UNCHANGED <<os, running, fiber, disabled, seen, astray>>

\* an alarm, a retrace or a completion wakes a queue from inside the idle loop
IdleCallback(q, reschedule) ==
    /\ At("idle") /\ os.pending = {} /\ "callback" \in Calls
    /\ os.queue[q] # <<>>
    /\ os' = Woken(os, q)
    /\ Becomes((IF reschedule /\ WakesAny(q) THEN Select(FALSE) ELSE <<>>)
               \o <<[at |-> "idle"]>>)
    /\ UNCHANGED <<running, fiber, disabled, seen, astray>>

IdleDone ==
    /\ At("idle") /\ os.pending # {}
    /\ Dispatch(os)
    /\ UNCHANGED <<disabled, seen>>
-----------------------------------------------------------------------------
(* Back in OSSleepTicks and OSSleepThread                                   *)

\* still suspended: the park failed and is taken back
Unpark ==
    /\ At("parked")
    /\ LET n == os.suspend[fiber]
       IN os' = IF n = 0 THEN os
                ELSE [Disarmed(os, fiber) EXCEPT
                        !.suspend[fiber] = n - 1,
                        !.state[fiber] = IF n = 1 /\ @ = "ready" /\ os.link[fiber] = None
                                         THEN "running" ELSE @]
    /\ Return
    /\ UNCHANGED <<running, fiber, disabled, seen, astray>>

\* still waiting: the queue is left
Unsleep ==
    /\ At("slept")
    /\ os' = IF os.state[fiber] = "waiting" /\ os.link[fiber] = Frm.queue
             THEN [Unlinked(os, fiber) EXCEPT !.state[fiber] = "running"]
             ELSE os
    /\ Return
    /\ UNCHANGED <<running, fiber, disabled, seen, astray>>
-----------------------------------------------------------------------------
Init ==
    \E main \in Thread : \E started \in SUBSET (Thread \ {main}) :
        /\ \A t \in started : Base[main] <= Base[t]
        /\ \E order \in SetToSeqs(started) :
             os = [state |-> [t \in Thread |-> IF t = main THEN "running" ELSE "ready"],
                   suspend |-> [t \in Thread |->
                                  IF t \in started \cup {main} THEN 0 ELSE 1],
                   prio |-> Base,
                   link |-> [t \in Thread |-> IF t \in started THEN Base[t] ELSE None],
                   queue |-> [q \in Queue |->
                                IF q \in Level
                                THEN Kept(order, {t \in Thread : Base[t] = q}) ELSE <<>>],
                   pending |-> {Base[t] : t \in started},
                   resched |-> FALSE, timers |-> <<>>, parks |-> {}]
        /\ running = main /\ fiber = main
        /\ disabled = 0 /\ seen = {} /\ astray = {}
        /\ stack = [t \in Thread |-> <<>>]

Timers == FireDue \/ FireRunning \/ FireStale \/ NoScan \/ Heal \/ Healed
Pick == PickNothing \/ PickNext \/ PickIdle \/ IdleDone
Resumption == Unpark \/ Unsleep

Next ==
    \/ Call
    \/ \E due \in SUBSET Thread : Poll(due)
    \/ \E late \in SUBSET seen : Scan(late)
    \/ Timers \/ Pick \/ Idle \/ Resumption \/ TornStays
    \/ \E q \in WaitQueue, reschedule \in BOOLEAN : IdleCallback(q, reschedule)

Spec == Init /\ [][Next]_vars

\* guest code goes on calling; deadlines pass while timers are polled, the
\* reconciler's scan comes due again and again, and its records age
Fairness ==
    /\ WF_vars(Next)
    /\ \A t \in Thread : SF_vars(\E due \in SUBSET Thread : t \in due /\ Poll(due))
    /\ \A t \in Thread :
         SF_vars(\E late \in SUBSET seen : (t \in seen => t \in late) /\ Scan(late))
FairSpec == Spec /\ Fairness
-----------------------------------------------------------------------------
(* Properties                                                               *)

Asleep(t) == \E i \in 1..Len(stack[t]) : stack[t][i].at = "parked"

\* Every runnable thread is in the run queue of its priority and every waiting
\* one in its wait queue, once; a suspended or running one is in none.  The
\* queues are ordered and the pending mask tells which run queues are not
\* empty.  This is what lets UnlinkGuestListNode trust a thread's link.
QueuesSound ==
    /\ \A t \in Thread :
         {q \in Queue : Contains(os.queue[q], t)} =
            CASE os.state[t] = "running" -> {}
              [] os.state[t] = "waiting" -> {os.link[t]} \cap WaitQueue
              [] os.state[t] = "ready"   -> IF os.suspend[t] = 0 THEN {Base[t]} ELSE {}
    /\ \A t \in Thread : os.state[t] = "waiting" => os.link[t] \in WaitQueue
    /\ \A q \in Queue : \A i, j \in 1..Len(os.queue[q]) :
         i < j => /\ os.queue[q][i] # os.queue[q][j]
                  /\ os.prio[os.queue[q][i]] <= os.prio[os.queue[q][j]]
    /\ os.pending = {p \in Level : os.queue[p] # <<>>}

\* Guest code runs only on the fiber of the one thread that is Running, and
\* never under a suspension; the fiber that hosts the idle loop runs none.  The
\* one exception is a thread that suspended itself with the scheduler disabled:
\* it goes on as Ready, and the switch it was refused stays requested.
OneRunning ==
    /\ \A t \in Thread : os.state[t] = "running" =>
                            running = t /\ os.suspend[t] = 0
    /\ running # None => running = fiber
    /\ stack[fiber] = <<>> =>
         \/ os.state[fiber] = "running"
         \/ fiber \in astray /\ os.state[fiber] = "ready" /\ os.resched

\* Both at once, after any call and in the middle of every interrupted loop: the
\* queues, the states and the fiber that executes never tell different stories,
\* until a thread that went astray blocks while it is in a run queue.
KernelSound == Torn \/ (QueuesSound /\ OneRunning)

\* The lists are never torn: OSSleepThread is not reached by a thread that is in
\* a queue.
NeverTorn == ~ Torn

\* No call made with the scheduler enabled that moves a thread into or out of
\* a run queue, or reaches SelectThread, returns to guest code past a more
\* urgent runnable thread; also not after calls that were refused a switch, nor
\* to a thread that went astray.
RunQueues == [p \in Level |-> os.queue[p]]
Urgency ==
    [][disabled = 0 /\ stack'[fiber'] = <<>> /\ <<RunQueues, stack>>' # <<RunQueues, stack>>
       => \A p \in os'.pending : os'.prio[fiber'] <= p]_vars

\* A due timer ends only a sleep: a suspension that OSSuspendThread made is
\* left to its own OSResumeThread.
ForeignSuspensionKept == FireTop /\ Parked(os, Sleeper) => Asleep(Sleeper)

Wakes(t) == (Asleep(t) /\ Parked(os, t)) ~> (os.suspend[t] = 0)

\* The sleep of every thread that called OSSleepTicks ends.
SleeperWakes == \A t \in Thread : Wakes(t)
=============================================================================
