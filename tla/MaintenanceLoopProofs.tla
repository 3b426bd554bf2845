------------------------ MODULE MaintenanceLoopProofs ------------------------
(* What the lock of the maintenance loop guarantees, for every set of      *)
(* processes, issues and pieces of work and any number of edits and hours. *)
EXTENDS MaintenanceLoop, FiniteSetTheorems, WellFoundedInduction, TLAPS

\* Where an invocation holds the lock.
Inside == {"test", "save", "mirror"}

\* The variables that are functions of the processes are just that.
Functional ==
    /\ DOMAIN pc = Proc /\ DOMAIN next = Proc
    /\ DOMAIN job = Proc /\ DOMAIN fp = Proc

\* An invocation that computes, tests or saves holds the lock.
LockHeld == \A p \in Proc : pc[p] \in Inside => lock = p

\* Apart from the contract it runs, an invocation saves the results on file.
OthersAsOnFile ==
    \A p \in Proc : pc[p] \in {"test", "save"} =>
        \A i \in Issue : i # job[p] => next[p].results[i] = file.results[i]

\* The hours of a gate hold every window in which it was counted: the second
\* count of a gate has seen a second hour.
Counted(a) ==
    a # None =>
        /\ a.cycles \in Nat
        /\ IsFiniteSet(a.hours)
        /\ a.window \in a.hours
        /\ a.cycles > 1 => \E g, h \in a.hours : g # h

GatesCounted == Counted(file.active) /\ \A p \in Proc : Counted(next[p].active)

\* The fields of a state that the loop replaces one at a time.
Fields == {"reviews", "pending", "selected", "active", "results", "families"}
StateShaped ==
    /\ DOMAIN file = Fields
    /\ \A p \in Proc : DOMAIN next[p] = Fields

LoopInv ==
    /\ Functional
    /\ StateShaped
    /\ LockHeld
    /\ OthersAsOnFile
    /\ GatesCounted
    /\ NoUnchangedRerun

LEMMA NewStateFits ==
    /\ DOMAIN NewState = Fields
    /\ NewState.active = None
  BY DEF NewState, Fields

LEMMA LoopInit == Init => LoopInv
<1> SUFFICES ASSUME Init PROVE LoopInv
  OBVIOUS
<1>1. Functional /\ StateShaped
  BY NewStateFits DEF Init, Functional, StateShaped
<1>2. LockHeld /\ OthersAsOnFile /\ NoUnchangedRerun
  BY DEF Init, LockHeld, Inside, OthersAsOnFile, NoUnchangedRerun
<1>3. GatesCounted
  BY NewStateFits DEF Init, GatesCounted, Counted
<1> QED
  BY <1>1, <1>2, <1>3 DEF LoopInv

\* Selecting a piece of work keeps the count of its gate.
LEMMA SelectionCounted ==
  ASSUME NEW s, NEW w, NEW q, NEW h, Counted(s.active)
  PROVE  Counted(RecordSelection(s, w, q, h))
<1> DEFINE previous == s.active
           sameGate == previous # None /\ previous.work = w /\ previous.gate = q[w].gate
           fresh == sameGate => NewWindow(previous, h)
           cycles == (IF sameGate THEN previous.cycles ELSE 0) + (IF fresh THEN 1 ELSE 0)
           hours == (IF sameGate THEN previous.hours ELSE {}) \cup {h}
           new == [work |-> w, gate |-> q[w].gate, cycles |-> cycles, window |-> h,
                   hours |-> hours]
<1>1. RecordSelection(s, w, q, h) = IF w = None THEN None ELSE new
  BY DEF RecordSelection
<1>2. cycles \in Nat
  BY DEF Counted
<1>3. IsFiniteSet(hours) /\ h \in hours
  <2>1. IsFiniteSet(IF sameGate THEN previous.hours ELSE {})
    BY FS_EmptySet DEF Counted
  <2>2. QED
    BY <2>1, FS_AddElement
<1>4. cycles > 1 => \E f, g \in hours : f # g
  <2>1. CASE ~sameGate
    BY <2>1
  <2>2. CASE sameGate /\ NewWindow(previous, h)
    <3>1. previous.window \in hours /\ previous.window # h
      BY <2>2 DEF Counted, NewWindow
    <3>2. QED
      BY <3>1, <1>3
  <2>3. CASE sameGate /\ ~NewWindow(previous, h)
    <3>1. cycles = previous.cycles /\ previous.hours \subseteq hours
      BY <2>3 DEF Counted
    <3>2. QED
      BY <3>1, <2>3 DEF Counted
  <2>4. QED
    BY <2>1, <2>2, <2>3
<1>5. Counted(new)
  <2>1. new.cycles = cycles /\ new.hours = hours /\ new.window = h
    OBVIOUS
  <2> HIDE DEF cycles, hours, new
  <2>2. QED
    BY <2>1, <1>2, <1>3, <1>4 DEF Counted
<1> QED
  BY <1>1, <1>5 DEF Counted

\* A step that only reads the world, or changes it, before any lock is held.
Outside(p) ==
    /\ \/ pc' = pc
       \/ \E label \in {"load", "read", "lock"} : pc' = [pc EXCEPT ![p] = label]
    /\ UNCHANGED <<file, lock, job, fp, next>>

LEMMA OutsideKeeps ==
  ASSUME NEW p \in Proc, LoopInv, Outside(p)
  PROVE  LoopInv'
<1>1. Functional' /\ StateShaped' /\ GatesCounted'
  BY DEF LoopInv, Outside, Functional, StateShaped, GatesCounted, Counted
<1>2. \A q \in Proc : pc'[q] \in Inside => pc'[q] = pc[q]
  BY DEF LoopInv, Outside, Functional, Inside
<1>3. LockHeld'
  BY <1>2 DEF LoopInv, LockHeld, Outside
<1>4. OthersAsOnFile'
  BY <1>2 DEF LoopInv, OthersAsOnFile, Outside, Inside
<1>5. NoUnchangedRerun'
  BY <1>2 DEF LoopInv, NoUnchangedRerun, Outside, Inside
<1> QED
  BY <1>1, <1>3, <1>4, <1>5 DEF LoopInv

\* What is computed from the file, before the contract's result is added.
LEMMA RefreshedFits ==
  ASSUME NEW p \in Proc, NEW s, DOMAIN s = Fields
  PROVE  /\ DOMAIN Refreshed(p, s) = Fields
         /\ Refreshed(p, s).results = s.results
         /\ Refreshed(p, s).active = s.active
  BY DEF Refreshed, Fields

\* An invocation takes the free lock, with the results on file and a gate that
\* is counted; if it goes on to test, no result is on record for its bytes.
Entering(p, s, label) ==
    /\ lock = None /\ lock' = p
    /\ DOMAIN s = Fields /\ s.results = file.results /\ Counted(s.active)
    /\ label \in Inside
    /\ pc' = [pc EXCEPT ![p] = label]
    /\ next' = [next EXCEPT ![p] = s]
    /\ file' = file
    /\ DOMAIN job' = Proc /\ DOMAIN fp' = Proc
    /\ label = "test" =>
         ~Repeats(file.families[IssueFamily(job'[p])][TestPlan(job'[p])], fp'[p])

LEMMA EnteringKeeps ==
  ASSUME NEW p \in Proc, NEW s, NEW label, LoopInv, Entering(p, s, label)
  PROVE  LoopInv'
<1>1. \A q \in Proc \ {p} : pc'[q] = pc[q] /\ pc[q] \notin Inside
  BY LoopAssumption DEF LoopInv, Functional, LockHeld, Entering
<1>2. pc'[p] = label /\ next'[p] = s
  BY DEF LoopInv, Functional, Entering
<1>3. \A q \in Proc \ {p} : next'[q] = next[q]
  BY DEF LoopInv, Functional, Entering
<1>4. Functional'
  BY DEF LoopInv, Functional, Entering
<1>5. StateShaped' /\ GatesCounted'
  BY <1>2, <1>3 DEF LoopInv, StateShaped, GatesCounted, Entering, Counted
<1>6. LockHeld'
  BY <1>1, <1>2 DEF LockHeld, Entering
<1>7. OthersAsOnFile'
  BY <1>1, <1>2 DEF OthersAsOnFile, Entering, Inside
<1>8. NoUnchangedRerun'
  BY <1>1, <1>2 DEF NoUnchangedRerun, Entering, Inside
<1> QED
  BY <1>4, <1>5, <1>6, <1>7, <1>8 DEF LoopInv

LEMMA SelectKeeps ==
  ASSUME NEW p \in Proc, LoopInv, SelectOne(p)
  PROVE  LoopInv'
<1> DEFINE s == Refreshed(p, LoadState)
           t == [s EXCEPT !.active = RecordSelection(s, s.selected, plan[p], wake[p])]
<1>1. DOMAIN s = Fields /\ s.results = file.results /\ s.active = file.active
  BY RefreshedFits DEF LoopInv, StateShaped, LoadState
<1>2. Counted(s.active)
  BY <1>1 DEF LoopInv, GatesCounted
<1>3. next' = [next EXCEPT ![p] = t]
  BY DEF SelectOne
<1> HIDE DEF s
<1>4. DOMAIN t = Fields /\ t.results = file.results
  BY <1>1 DEF Fields
<1>5. t.active = RecordSelection(s, s.selected, plan[p], wake[p])
  BY <1>1 DEF Fields
<1>6. Counted(t.active)
  BY <1>2, <1>5, SelectionCounted
<1> HIDE DEF t
<1>7. Entering(p, t, "save")
  BY <1>3, <1>4, <1>6 DEF Entering, SelectOne, Acquire, LockFree, Goto, Inside,
    world, LoopInv, Functional
<1> QED
  BY <1>7, EnteringKeeps

LEMMA ReviewKeeps ==
  ASSUME NEW p \in Proc, NEW i \in Issue, LoopInv, Review(p, i)
  PROVE  LoopInv'
<1> DEFINE r == [LoadState EXCEPT !.reviews[i] = Revision(view[p][i])]
           s == Refreshed(p, r)
<1>1. DOMAIN r = Fields /\ r.results = file.results /\ r.active = file.active
  BY DEF LoopInv, StateShaped, LoadState, Fields
<1>2. next' = [next EXCEPT ![p] = s]
  BY DEF Review
<1> HIDE DEF r
<1>3. DOMAIN s = Fields /\ s.results = file.results /\ s.active = file.active
  BY <1>1, RefreshedFits
<1> HIDE DEF s
<1>4. Entering(p, s, "save")
  BY <1>2, <1>3 DEF Entering, Review, Acquire, LockFree, Goto, Inside,
    world, LoopInv, Functional, GatesCounted
<1> QED
  BY <1>4, EnteringKeeps

LEMMA ExecuteKeeps ==
  ASSUME NEW p \in Proc, NEW i \in Issue, LoopInv, ExecuteTest(p, i)
  PROVE  LoopInv'
<1> DEFINE s == Refreshed(p, LoadState)
<1>1. DOMAIN s = Fields /\ s.results = file.results /\ s.active = file.active
  BY RefreshedFits DEF LoopInv, StateShaped, LoadState
<1>2. /\ next' = [next EXCEPT ![p] = s]
      /\ lock = None /\ lock' = p /\ file' = file
  BY DEF ExecuteTest, Acquire, LockFree, world
<1> HIDE DEF s
<1>3. CASE RepeatGuard(LoadState, i, TestFingerprint(i))
  <2>1. pc' = [pc EXCEPT ![p] = "save"] /\ job' = job /\ fp' = fp
    BY <1>3 DEF ExecuteTest, Goto
  <2>2. Entering(p, s, "save")
    BY <1>1, <1>2, <2>1 DEF Entering, Inside, LoopInv, Functional, GatesCounted
  <2> QED
    BY <2>2, EnteringKeeps
<1>4. CASE ~RepeatGuard(LoadState, i, TestFingerprint(i))
  <2>1. /\ pc' = [pc EXCEPT ![p] = "test"]
        /\ job' = [job EXCEPT ![p] = i]
        /\ fp' = [fp EXCEPT ![p] = TestFingerprint(i)]
    BY <1>4 DEF ExecuteTest, Goto
  <2>2. /\ DOMAIN job' = Proc /\ DOMAIN fp' = Proc
        /\ job'[p] = i /\ fp'[p] = TestFingerprint(i)
    BY <2>1 DEF LoopInv, Functional
  <2>3. ~Repeats(file.families[IssueFamily(i)][TestPlan(i)], TestFingerprint(i))
    BY <1>4 DEF RepeatGuard, LoadState
  <2>4. Entering(p, s, "test")
    BY <1>1, <1>2, <2>1, <2>2, <2>3 DEF Entering, Inside, LoopInv, GatesCounted
  <2> QED
    BY <2>4, EnteringKeeps
<1> QED
  BY <1>3, <1>4

\* While one invocation is inside, no other one is.
LEMMA AloneInside ==
  ASSUME LoopInv, NEW p \in Proc, pc[p] \in Inside, NEW q \in Proc \ {p}
  PROVE  pc[q] \notin Inside
  BY LoopAssumption DEF LoopInv, LockHeld

LEMMA FinishKeeps ==
  ASSUME NEW p \in Proc, LoopInv, FinishTest(p)
  PROVE  LoopInv'
<1>1. pc[p] = "test" /\ pc' = [pc EXCEPT ![p] = "save"]
      /\ UNCHANGED <<file, lock, job, fp>>
  BY DEF FinishTest, Goto
<1> DEFINE i == job[p]
           result == [fp |-> Recorded(p), since |-> begun[p], until |-> made]
           kept == [next[p] EXCEPT !.results[i] = result]
           done == [kept EXCEPT !.families[IssueFamily(i)][TestPlan(i)] = result]
<1>2. next' = [next EXCEPT ![p].results[i] = result,
                           ![p].families[IssueFamily(i)][TestPlan(i)] = result]
  BY DEF FinishTest
<1> HIDE DEF result
<1>3. next' = [next EXCEPT ![p] = done]
  BY <1>2 DEF LoopInv, Functional
<1>4. DOMAIN next[p] = Fields
  BY DEF LoopInv, StateShaped
<1>5. /\ DOMAIN kept = Fields /\ kept.active = next[p].active
      /\ kept.results = [next[p].results EXCEPT ![i] = result]
  BY <1>4 DEF Fields
<1> HIDE DEF kept
<1>6. DOMAIN done = Fields /\ done.active = next[p].active /\ done.results = kept.results
  BY <1>5 DEF Fields
<1> HIDE DEF done
<1>7. \A q \in Proc : next'[q] = IF q = p THEN done ELSE next[q]
  BY <1>3 DEF LoopInv, Functional
<1>8. \A q \in Proc : pc'[q] = IF q = p THEN "save" ELSE pc[q]
  BY <1>1 DEF LoopInv, Functional
<1>9. Functional' /\ StateShaped' /\ GatesCounted'
  <2>1. Functional'
    BY <1>1, <1>3 DEF LoopInv, Functional
  <2>2. StateShaped'
    BY <1>1, <1>6, <1>7 DEF LoopInv, StateShaped
  <2>3. \A q \in Proc : next'[q].active = next[q].active
    BY <1>6, <1>7
  <2>4. GatesCounted'
    BY <1>1, <2>3 DEF LoopInv, GatesCounted
  <2> QED
    BY <2>1, <2>2, <2>4
<1>10. LockHeld'
  BY <1>1, <1>8 DEF LoopInv, LockHeld, Inside
<1>11. OthersAsOnFile'
  <2>1. \A j \in Issue : j # i => done.results[j] = next[p].results[j]
    BY <1>5, <1>6
  <2>2. \A j \in Issue : j # job[p] => next[p].results[j] = file.results[j]
    BY <1>1 DEF LoopInv, OthersAsOnFile
  <2>3. next'[p] = done /\ job'[p] = job[p]
    BY <1>1, <1>7
  <2>4. \A q \in Proc \ {p} : pc'[q] \notin {"test", "save"}
    BY <1>1, <1>8, AloneInside DEF Inside
  <2> QED
    BY <1>1, <2>1, <2>2, <2>3, <2>4 DEF OthersAsOnFile
<1>12. NoUnchangedRerun'
  BY <1>1, <1>8 DEF LoopInv, NoUnchangedRerun
<1> QED
  BY <1>9, <1>10, <1>11, <1>12 DEF LoopInv

LEMMA SaveKeeps ==
  ASSUME NEW p \in Proc, LoopInv, SaveState(p)
  PROVE  LoopInv'
<1>1. /\ pc[p] = "save" /\ pc' = [pc EXCEPT ![p] = "mirror"]
      /\ file' = next[p]
      /\ UNCHANGED <<lock, job, fp, next>>
  BY DEF SaveState, Goto, run
<1>2. \A q \in Proc : pc'[q] = IF q = p THEN "mirror" ELSE pc[q]
  BY <1>1 DEF LoopInv, Functional
<1>3. \A q \in Proc : pc'[q] \notin {"test", "save"}
  BY <1>1, <1>2, AloneInside DEF Inside
<1>4. Functional' /\ StateShaped' /\ GatesCounted'
  BY <1>1 DEF LoopInv, Functional, StateShaped, GatesCounted, Counted
<1>5. LockHeld'
  BY <1>1, <1>2 DEF LoopInv, LockHeld, Inside
<1>6. OthersAsOnFile' /\ NoUnchangedRerun'
  BY <1>3 DEF OthersAsOnFile, NoUnchangedRerun
<1> QED
  BY <1>4, <1>5, <1>6 DEF LoopInv

LEMMA FinishedKeeps ==
  ASSUME NEW p \in Proc, LoopInv, Finished(p), UNCHANGED file
  PROVE  LoopInv'
<1>1. /\ pc' = [pc EXCEPT ![p] = "idle"]
      /\ lock' = IF lock = p THEN None ELSE lock
      /\ job' = [job EXCEPT ![p] = None]
      /\ fp' = [fp EXCEPT ![p] = NoPrint]
      /\ next' = [next EXCEPT ![p] = NewState]
  BY DEF Finished, Goto
<1>2. Functional'
  BY <1>1 DEF LoopInv, Functional
<1>3. \A q \in Proc : /\ pc'[q] = IF q = p THEN "idle" ELSE pc[q]
                      /\ job'[q] = IF q = p THEN None ELSE job[q]
                      /\ fp'[q] = IF q = p THEN NoPrint ELSE fp[q]
                      /\ next'[q] = IF q = p THEN NewState ELSE next[q]
  BY <1>1 DEF LoopInv, Functional
<1>4. StateShaped' /\ GatesCounted'
  BY <1>3, NewStateFits DEF LoopInv, StateShaped, GatesCounted, Counted
<1>5. LockHeld'
  BY <1>1, <1>3 DEF LoopInv, LockHeld, Inside
<1>6. OthersAsOnFile'
  BY <1>3 DEF LoopInv, OthersAsOnFile
<1>7. NoUnchangedRerun'
  BY <1>3 DEF LoopInv, NoUnchangedRerun
<1> QED
  BY <1>2, <1>4, <1>5, <1>6, <1>7 DEF LoopInv

\* Every step keeps the invariant.
LEMMA LoopStep == LoopInv /\ [Next]_vars => LoopInv'
<1> SUFFICES ASSUME LoopInv, [Next]_vars PROVE LoopInv'
  OBVIOUS
<1>1. CASE World
  <2>1. Outside(CHOOSE p \in Proc : TRUE)
    BY <1>1 DEF World, Outside, run
  <2>2. CASE Proc = {}
    BY <1>1, <2>2 DEF World, run, LoopInv, Functional, StateShaped, LockHeld,
      OthersAsOnFile, GatesCounted, Counted, NoUnchangedRerun
  <2>3. CASE Proc # {}
    BY <2>1, <2>3, OutsideKeeps
  <2> QED
    BY <2>2, <2>3
<1>2. ASSUME NEW p \in Proc, Step(p) PROVE LoopInv'
  <2>1. CASE Start(p)
    <3>1. Outside(p)
      BY <2>1 DEF Start, Goto, Outside
    <3> QED
      BY <3>1, OutsideKeeps
  <2>2. CASE LoadIssues(p)
    <3>1. Outside(p)
      BY <2>2 DEF LoadIssues, Goto, Outside
    <3> QED
      BY <3>1, OutsideKeeps
  <2>3. CASE LoadPriorities(p)
    <3>1. Outside(p)
      BY <2>3 DEF LoadPriorities, Goto, Outside
    <3> QED
      BY <3>1, OutsideKeeps
  <2>4. CASE FinishTest(p)
    BY <2>4, FinishKeeps
  <2>5. CASE SaveState(p)
    BY <2>5, SaveKeeps
  <2>6. CASE WriteMirror(p)
    BY <2>6, FinishedKeeps DEF WriteMirror
  <2> QED
    BY <1>2, <2>1, <2>2, <2>3, <2>4, <2>5, <2>6 DEF Step
<1>3. ASSUME NEW p \in Proc, Enter(p) PROVE LoopInv'
  BY <1>3, SelectKeeps, ReviewKeeps, ExecuteKeeps DEF Enter
<1>4. ASSUME NEW p \in Proc, Die(p) PROVE LoopInv'
  BY <1>4, FinishedKeeps DEF Die
<1>5. CASE UNCHANGED vars
  BY <1>5 DEF vars, run, LoopInv, Functional, StateShaped, LockHeld,
    OthersAsOnFile, GatesCounted, Counted, NoUnchangedRerun
<1> QED
  BY <1>1, <1>2, <1>3, <1>4, <1>5 DEF Next

\* The lock is held by whoever computes, tests or saves, and what a save will
\* write still agrees with the file but for the contract it ran.
THEOREM LoopInductive == Spec => []LoopInv
  BY LoopInit, LoopStep, PTL DEF Spec

\* For any number of overlapping invocations: no contract runs on bytes for
\* which a result of its command and family is on record.
THEOREM NothingRerun == Spec => []NoUnchangedRerun
<1>1. LoopInv => NoUnchangedRerun
  BY DEF LoopInv
<1> QED
  BY <1>1, LoopInductive, PTL

\* A gate that needs a decision was seen in two different hours, however often
\* and in whatever order invocations counted it.
THEOREM StallsTakeTwoHours == Spec => []StallNeedsTwoHours
<1>1. LoopInv => StallNeedsTwoHours
  <2> SUFFICES ASSUME LoopInv, file.active # None, RequiresDecision(file.active)
               PROVE  Cardinality(file.active.hours) > 1
    BY DEF StallNeedsTwoHours
  <2> DEFINE hours == file.active.hours
  <2>1. IsFiniteSet(hours) /\ \E g, h \in hours : g # h
    BY DEF LoopInv, GatesCounted, Counted, RequiresDecision
  <2>2. PICK g \in hours, h \in hours : g # h
    BY <2>1
  <2>3. IsFiniteSet({g}) /\ Cardinality({g}) = 1
    BY FS_Singleton
  <2>4. Cardinality({g} \cup {h}) = 2
    <3>1. h \notin {g}
      BY <2>2
    <3>2. Cardinality({g} \cup {h}) = Cardinality({g}) + 1
      BY <2>3, <3>1, FS_AddElement
    <3> QED
      BY <2>3, <3>2
  <2>5. Cardinality({g} \cup {h}) <= Cardinality(hours)
    BY <2>1, <2>2, FS_Subset
  <2>6. Cardinality(hours) \in Nat
    BY <2>1, FS_CardinalityType
  <2> QED
    BY <2>4, <2>5, <2>6
<1> QED
  BY <1>1, LoopInductive, PTL

\* A save changes the result of no contract but the one its invocation ran.
THEOREM RecordsSurvive == Spec => SavesKeepOthers
<1> DEFINE Only == \A i \in Issue : file'.results[i] # file.results[i]
              => \E p \in Proc : pc[p] = "save" /\ pc'[p] = "mirror" /\ job[p] = i
<1>1. ASSUME LoopInv, [Next]_vars PROVE Only
  <2>1. CASE \E p \in Proc : SaveState(p)
    <3>1. PICK p \in Proc : SaveState(p)
      BY <2>1
    <3>2. pc[p] = "save" /\ pc'[p] = "mirror" /\ file' = next[p]
      BY <1>1, <3>1 DEF SaveState, Goto, LoopInv, Functional
    <3> QED
      BY <1>1, <3>2 DEF LoopInv, OthersAsOnFile
  <2>2. CASE ~\E p \in Proc : SaveState(p)
    <3>1. file' = file
      BY <1>1, <2>2 DEF Next, World, Step, Enter, Die, Start, LoadIssues, LoadPriorities,
        FinishTest, WriteMirror, SelectOne, Review, ExecuteTest, vars
    <3> QED
      BY <3>1
  <2> QED
    BY <2>1, <2>2
<1>2. LoopInv /\ [Next]_vars => [Only]_vars
  BY <1>1
<1> QED
  BY <1>2, LoopInductive, PTL DEF Spec, SavesKeepOthers
-----------------------------------------------------------------------------
\* A set of naturals that is not empty has a least element.
LEMMA NatMin ==
  ASSUME NEW T, T \subseteq Nat, T # {}
  PROVE  \E n \in T : \A m \in T : n <= m
<1>1. \A x, y \in Nat : x < y => <<x, y>> \in OpToRel(<,Nat)
  BY ZenonT(30) DEF OpToRel
<1>2. \E n \in T : \A m \in T : ~ (<<m,n>> \in OpToRel(<,Nat))
  BY NatLessThanWellFounded, WFMin, Zenon
<1>3. \E n \in T : \A m \in T : ~ (m < n)
  BY <1>1, <1>2, ZenonT(30)
<1> QED BY <1>3
-----------------------------------------------------------------------------
(* The types.  What is acknowledged, recorded or selected has its type      *)
(* because an invocation that holds the lock has read every page, and runs *)
(* the contract of an issue that has one.                                  *)
TypeInv ==
    /\ TypeOK
    /\ \A p \in Proc : pc[p] \notin {"idle", "load"} =>
          view[p] \in [Issue -> Nat \cup {Closed}]
    /\ \A p \in Proc : pc[p] = "test" =>
          /\ job[p] \in Issue /\ TestPlan(job[p]) # None
          /\ fp[p].scope = FingerprintScope(job[p])

\* Among the pieces of work that are ready there is a first.
LEMMA FirstIsReady ==
  ASSUME NEW ready \in SUBSET Work, ready # {}
  PROVE  First(ready) \in ready
<1>0. Work \subseteq Nat /\ \A w \in Work : Priority[w] \in Nat
  BY LoopAssumption DEF LoopAssumption
<1> DEFINE P == {Priority[w] : w \in ready}
<1>1. PICK m \in P : \A n \in P : m <= n
  <2>1. P \subseteq Nat /\ P # {}
    BY <1>0
  <2> HIDE DEF P
  <2> QED BY <2>1, NatMin
<1> DEFINE U == {w \in ready : Priority[w] = m}
<1>2. PICK f \in U : \A w \in U : f <= w
  <2>1. U \subseteq Nat /\ U # {}
    BY <1>0, <1>1
  <2> HIDE DEF U
  <2> QED BY <2>1, NatMin
<1>3. ASSUME NEW o \in ready \ {f} PROVE Before(f, o)
  <2>1. f \in Nat /\ o \in Nat /\ Priority[o] \in Nat /\ Priority[f] = m /\ m \in Nat
    BY <1>0
  <2>2. m <= Priority[o] /\ (Priority[o] = m => f <= o)
    BY <1>1, <1>2
  <2>3. o # f
    OBVIOUS
  <2> HIDE DEF P, U
  <2> QED BY <2>1, <2>2, <2>3 DEF Before
<1>4. \E w \in ready : \A o \in ready \ {w} : Before(w, o)
  BY <1>3
<1> QED BY <1>4, Zenon DEF First

LEMMA SelectWorkType ==
  ASSUME NEW q, NEW v, NEW s
  PROVE  SelectWork(q, v, s) \in Work \cup {None}
<1> DEFINE ready == Ready(q, v)
<1>1. ready \in SUBSET Work
  BY DEF Ready
<1>2. ready # {} => First(ready) \in Work
  BY <1>1, FirstIsReady
<1> HIDE DEF ready
<1>3. \A active : (IF ready = {} THEN None
                   ELSE IF active \in ready /\ ~Preempts(First(ready), active) THEN active
                   ELSE First(ready)) \in Work \cup {None}
  BY <1>1, <1>2
<1> QED BY <1>3 DEF SelectWork, ready

LEMMA RefreshedType ==
  ASSUME NEW p \in Proc, NEW s \in State
  PROVE  Refreshed(p, s) \in State
<1>1. Unreviewed(s, view[p]) \in SUBSET Issue
  BY DEF Unreviewed
<1>2. SelectWork(plan[p], view[p], s) \in Work \cup {None}
  BY SelectWorkType
<1> HIDE DEF Result, Active
<1> QED BY <1>1, <1>2 DEF Refreshed, State

LEMMA SelectionType ==
  ASSUME NEW s \in State, NEW w \in Work \cup {None}, NEW q \in Queue, NEW h \in Nat
  PROVE  RecordSelection(s, w, q, h) \in Active \cup {None}
<1> DEFINE previous == s.active
           sameGate == previous # None /\ previous.work = w /\ previous.gate = q[w].gate
           fresh == sameGate => NewWindow(previous, h)
           cycles == (IF sameGate THEN previous.cycles ELSE 0) + (IF fresh THEN 1 ELSE 0)
           hours == (IF sameGate THEN previous.hours ELSE {}) \cup {h}
<1>1. previous = None \/ (previous.cycles \in Nat /\ previous.hours \in SUBSET Nat)
  BY DEF State, Active
<1>2. cycles \in Nat /\ hours \in SUBSET Nat
  BY <1>1
<1>3. RecordSelection(s, w, q, h) =
        IF w = None THEN None
        ELSE [work |-> w, gate |-> q[w].gate, cycles |-> cycles, window |-> h,
              hours |-> hours]
  BY DEF RecordSelection
<1>4. w # None => w \in Work /\ q[w].gate \in Nat
  BY DEF Queue
<1> HIDE DEF cycles, hours
<1> QED BY <1>2, <1>3, <1>4 DEF Active

LEMMA FingerprintType ==
  ASSUME source \in [File -> Version], NEW i \in Issue
  PROVE  TestFingerprint(i) \in Fingerprint
<1> DEFINE s == FingerprintScope(i)
           prints == [scope : {s}, bytes : [Edited(ScopePaths(s)) -> Version]]
<1>1. s \in Scope
  BY DEF Scope
<1>2. BytesOf(ScopePaths(s)) \in [Edited(ScopePaths(s)) -> Version]
  BY DEF BytesOf, Edited
<1>3. TestFingerprint(i) \in prints
  BY <1>2 DEF TestFingerprint
<1> HIDE DEF s
<1> QED BY <1>1, <1>3 DEF Fingerprint

\* What stands where there is no fingerprint is one, too.
LEMMA NoPrintType == NoPrint \in Fingerprint
<1> DEFINE wide == "maintenance-wide"
<1>1. Edited(ScopePaths(wide)) = File
  BY DEF ScopePaths, Edited
<1>2. NoPrint \in [scope : {wide}, bytes : [Edited(ScopePaths(wide)) -> Version]]
  BY <1>1, LoopAssumption DEF LoopAssumption, NoPrint
<1>3. wide \in Scope
  BY DEF Scope
<1> HIDE DEF wide
<1> QED BY <1>2, <1>3 DEF Fingerprint

LEMMA TypeInit == Init => TypeInv
<1> SUFFICES ASSUME Init PROVE TypeInv
  OBVIOUS
<1>1. NewState \in State
  BY DEF NewState, State
<1>2. NewQueue \in Queue
  BY DEF NewQueue, Queue
<1>3. NothingRead \in [Issue -> Nat \cup {Unread, Closed}]
  BY DEF NothingRead
<1>4. NoPrint \in Fingerprint /\ NoEdits \in [File -> Nat]
  BY NoPrintType DEF NoEdits
<1>5. 0 \in 0 .. MaxHour /\ 0 \in 0 .. MaxEvents /\ 0 \in Version
  BY LoopAssumption DEF LoopAssumption
<1> QED BY <1>1, <1>2, <1>3, <1>4, <1>5 DEF Init, TypeInv, TypeOK

\* What an invocation that ends leaves behind.
LEMMA FinishedType ==
  ASSUME TypeInv, NEW p \in Proc, Finished(p), UNCHANGED <<world, file>>,
         mirror' \in Work \cup {None}
  PROVE  TypeInv'
<1>1. /\ NewState \in State /\ NewQueue \in Queue /\ NoPrint \in Fingerprint
      /\ NothingRead \in [Issue -> Nat \cup {Unread, Closed}]
      /\ NoEdits \in [File -> Nat] /\ 0 \in 0 .. MaxHour
  BY NoPrintType, LoopAssumption DEF LoopAssumption, NewState, State, NewQueue, Queue, NoEdits,
    NothingRead
<1>2. TypeOK'
  BY <1>1 DEF TypeInv, TypeOK, Finished, Goto, world
<1>3. \A q \in Proc : pc'[q] # "idle" => /\ pc'[q] = pc[q] /\ view'[q] = view[q]
                                        /\ job'[q] = job[q] /\ fp'[q] = fp[q]
  BY DEF TypeInv, TypeOK, Finished, Goto
<1> QED BY <1>2, <1>3 DEF TypeInv

\* What is taken from the file under the lock has its type.
LEMMA EnterType ==
  ASSUME TypeInv, NEW p \in Proc, Enter(p)
  PROVE  TypeInv'
<1>0. /\ file \in State /\ plan[p] \in Queue /\ wake[p] \in Nat
      /\ UNCHANGED <<world, file, mirror, view, plan, wake>>
      /\ lock' = p /\ pc[p] = "lock"
      /\ \A i \in Issue : view[p][i] # Closed => view[p][i] \in Nat
  <2>1. /\ UNCHANGED <<world, file, mirror, view, plan, wake>>
        /\ lock' = p /\ pc[p] = "lock"
    BY DEF Enter, SelectOne, Review, ExecuteTest, Acquire
  <2>2. view[p] \in [Issue -> Nat \cup {Closed}]
    BY <2>1 DEF TypeInv
  <2>3. file \in State /\ plan[p] \in Queue /\ wake[p] \in 0 .. MaxHour
    BY DEF TypeInv, TypeOK
  <2>4. wake[p] \in Nat
    BY <2>3, LoopAssumption DEF LoopAssumption
  <2> QED BY <2>1, <2>2, <2>3, <2>4
<1> DEFINE Entered(s, label) ==
             /\ next' = [next EXCEPT ![p] = s]
             /\ pc' = [pc EXCEPT ![p] = label]
<1>a. ASSUME NEW s \in State, NEW label \in {"save", "test"}, Entered(s, label),
             job' \in [Proc -> Issue \cup {None}], fp' \in [Proc -> Fingerprint],
             begun' \in [Proc -> [File -> Nat]],
             \A q \in Proc \ {p} : job'[q] = job[q] /\ fp'[q] = fp[q],
             label = "test" => /\ job'[p] \in Issue /\ TestPlan(job'[p]) # None
                               /\ fp'[p].scope = FingerprintScope(job'[p])
      PROVE  TypeInv'
  <2>1. TypeOK'
    BY <1>0, <1>a DEF TypeInv, TypeOK, world
  <2>2. \A q \in Proc \ {p} : /\ pc'[q] = pc[q] /\ view'[q] = view[q]
                              /\ job'[q] = job[q] /\ fp'[q] = fp[q]
    BY <1>0, <1>a DEF TypeInv, TypeOK
  <2>3. pc'[p] = label /\ view'[p] \in [Issue -> Nat \cup {Closed}]
    BY <1>0, <1>a DEF TypeInv, TypeOK
  <2> QED BY <1>a, <2>1, <2>2, <2>3 DEF TypeInv
<1>1. CASE SelectOne(p)
  <2> DEFINE s == Refreshed(p, file)
             t == [s EXCEPT !.active = RecordSelection(s, s.selected, plan[p], wake[p])]
  <2>1. s \in State /\ s.selected \in Work \cup {None}
    BY <1>0, RefreshedType DEF State
  <2>2. RecordSelection(s, s.selected, plan[p], wake[p]) \in Active \cup {None}
    BY <1>0, <2>1, SelectionType
  <2> HIDE DEF s
  <2>3. t \in State
    BY <2>1, <2>2 DEF State
  <2>4. Entered(t, "save") /\ UNCHANGED <<job, fp, begun>>
    BY <1>1 DEF SelectOne, LoadState, Goto, s
  <2> HIDE DEF t, Entered
  <2> QED BY <1>a, <2>3, <2>4 DEF TypeInv, TypeOK
<1>2. ASSUME NEW i \in Issue, Review(p, i) PROVE TypeInv'
  <2> DEFINE r == [file EXCEPT !.reviews[i] = view[p][i]]
  <2>1. r \in State
    BY <1>0, <1>2 DEF State, Review
  <2>2. Refreshed(p, r) \in State
    BY <2>1, RefreshedType
  <2>3. Entered(Refreshed(p, r), "save") /\ UNCHANGED <<job, fp, begun>>
    BY <1>2 DEF Review, LoadState, Revision, Goto
  <2>4. /\ job' \in [Proc -> Issue \cup {None}] /\ fp' \in [Proc -> Fingerprint]
        /\ begun' \in [Proc -> [File -> Nat]]
    BY <2>3 DEF TypeInv, TypeOK
  <2> HIDE DEF r, Entered
  <2> QED BY <1>a, <2>2, <2>3, <2>4
<1>3. ASSUME NEW i \in Issue, ExecuteTest(p, i) PROVE TypeInv'
  <2>1. Refreshed(p, file) \in State /\ TestFingerprint(i) \in Fingerprint
    BY <1>0, RefreshedType, FingerprintType DEF TypeInv, TypeOK
  <2>2. \/ Entered(Refreshed(p, file), "save") /\ UNCHANGED <<job, fp, begun>>
        \/ /\ Entered(Refreshed(p, file), "test")
           /\ job' = [job EXCEPT ![p] = i]
           /\ fp' = [fp EXCEPT ![p] = TestFingerprint(i)]
           /\ begun' = [begun EXCEPT ![p] = made]
           /\ TestPlan(i) # None
    BY <1>3 DEF ExecuteTest, LoadState, Goto
  <2>3. /\ job \in [Proc -> Issue \cup {None}] /\ fp \in [Proc -> Fingerprint]
        /\ [job EXCEPT ![p] = i] \in [Proc -> Issue \cup {None}]
        /\ [fp EXCEPT ![p] = TestFingerprint(i)] \in [Proc -> Fingerprint]
        /\ [job EXCEPT ![p] = i][p] = i
        /\ \A q \in Proc \ {p} : /\ [job EXCEPT ![p] = i][q] = job[q]
                                 /\ [fp EXCEPT ![p] = TestFingerprint(i)][q] = fp[q]
        /\ [fp EXCEPT ![p] = TestFingerprint(i)][p].scope = FingerprintScope(i)
        /\ begun \in [Proc -> [File -> Nat]]
        /\ [begun EXCEPT ![p] = made] \in [Proc -> [File -> Nat]]
    BY <2>1 DEF TypeInv, TypeOK, TestFingerprint
  <2> HIDE DEF Entered
  <2>4. CASE Entered(Refreshed(p, file), "save") /\ UNCHANGED <<job, fp, begun>>
    BY <1>a, <2>1, <2>3, <2>4
  <2>5. CASE /\ Entered(Refreshed(p, file), "test")
             /\ job' = [job EXCEPT ![p] = i]
             /\ fp' = [fp EXCEPT ![p] = TestFingerprint(i)]
             /\ begun' = [begun EXCEPT ![p] = made]
             /\ TestPlan(i) # None
    BY <1>a, <2>1, <2>3, <2>5
  <2> QED BY <2>2, <2>4, <2>5
<1> QED BY <1>1, <1>2, <1>3 DEF Enter

\* A contract's result has its type, and its place among the families.
LEMMA FinishType ==
  ASSUME TypeInv, NEW p \in Proc, FinishTest(p)
  PROVE  TypeInv'
<1> DEFINE i == job[p]
           outcome == [fp |-> fp[p], since |-> begun[p], until |-> made]
           kept == [next[p] EXCEPT !.results[i] = outcome]
           done == [kept EXCEPT !.families[IssueFamily(i)][TestPlan(i)] = outcome]
<1>1. /\ i \in Issue /\ TestPlan(i) \in Plan /\ IssueFamily(i) \in Family
      /\ next[p] \in State
  BY DEF TypeInv, TypeOK, FinishTest, Plan, Family
<1>2. next' = [next EXCEPT ![p].results[i] = outcome,
                           ![p].families[IssueFamily(i)][TestPlan(i)] = outcome]
  BY DEF FinishTest, Recorded
<1>3. outcome \in Result
  BY DEF TypeInv, TypeOK, Result
<1> HIDE DEF i, outcome
<1>4. next' = [next EXCEPT ![p] = done]
  <2>1. DOMAIN next = Proc
    BY DEF TypeInv, TypeOK
  <2> QED BY <1>2, <2>1
<1>5. kept \in State
  BY <1>1, <1>3 DEF State
<1> HIDE DEF kept
<1>6. done \in State
  BY <1>1, <1>3, <1>5 DEF State
<1> HIDE DEF done
<1>7. TypeOK'
  <2>1. /\ UNCHANGED <<world, file, mirror, lock, view, plan, wake, job, fp, begun>>
        /\ pc' = [pc EXCEPT ![p] = "save"]
    BY DEF FinishTest, Goto
  <2> QED BY <1>4, <1>6, <2>1 DEF TypeInv, TypeOK, world
<1>8. \A q \in Proc : /\ pc'[q] \in {pc[q], "save"} /\ (q # p => pc'[q] = pc[q])
                      /\ view'[q] = view[q] /\ job'[q] = job[q] /\ fp'[q] = fp[q]
  BY DEF TypeInv, TypeOK, FinishTest, Goto
<1> QED BY <1>7, <1>8 DEF TypeInv, FinishTest

LEMMA TypeStep == TypeInv /\ [Next]_vars => TypeInv'
<1> SUFFICES ASSUME TypeInv, [Next]_vars PROVE TypeInv'
  OBVIOUS
<1>1. CASE World
  <2>1. UNCHANGED <<file, mirror, lock, pc, view, plan, wake, job, fp, begun, next>>
    BY <1>1 DEF World, run
  <2>2. /\ news' \in [Issue -> Nat] /\ open' \subseteq Issue /\ source' \in [File -> Version]
        /\ made' \in [File -> Nat] /\ queue' \in Queue
        /\ hour' \in 0 .. MaxHour /\ edits' \in 0 .. MaxEvents
    <3>1. CASE HourPasses
      BY <1>1, <3>1, LoopAssumption DEF HourPasses, TypeInv, TypeOK, LoopAssumption
    <3>2. CASE Edit
      <4>1. hour' \in 0 .. MaxHour /\ edits' \in 0 .. MaxEvents
        <5>1. /\ hour \in 0 .. MaxHour /\ edits \in 0 .. MaxEvents
              /\ MaxHour \in Nat /\ MaxEvents \in Nat
          BY LoopAssumption DEF TypeInv, TypeOK, LoopAssumption
        <5>2. hour' = hour /\ edits' = edits + 1 /\ edits + hour < MaxEvents
          BY <3>2 DEF Edit
        <5> QED BY <5>1, <5>2
      <4>2. ASSUME NEW i \in Issue, CloseIssue(i) \/ \E c \in Comment : Report(i, c)
            PROVE  /\ news' \in [Issue -> Nat] /\ open' \subseteq Issue
                   /\ UNCHANGED <<source, made, queue>>
        <5>1. /\ news \in [Issue -> Nat] /\ open \subseteq Issue
              /\ news[i] + 1 \in Nat
          BY DEF TypeInv, TypeOK
        <5>2. \/ open' = open \ {i} /\ UNCHANGED <<news, source, made, queue>>
              \/ news' = [news EXCEPT ![i] = news[i] + 1] /\ UNCHANGED <<open, source, made, queue>>
          BY <4>2 DEF CloseIssue, Report
        <5> QED BY <5>1, <5>2
      <4>3. ASSUME NEW f \in File, EditSource(f)
            PROVE  /\ source' \in [File -> Version] /\ made' \in [File -> Nat]
                   /\ UNCHANGED <<news, open, queue>>
        <5>1. source \in [File -> Version] /\ made \in [File -> Nat] /\ made[f] + 1 \in Nat
          BY DEF TypeInv, TypeOK
        <5>2. PICK v \in Version : source' = [source EXCEPT ![f] = v]
          BY <4>3 DEF EditSource
        <5>3. made' = [made EXCEPT ![f] = made[f] + 1] /\ UNCHANGED <<news, open, queue>>
          BY <4>3 DEF EditSource
        <5> QED BY <5>1, <5>2, <5>3
      <4>4. ASSUME NEW w \in Work, NextGate(w) \/ Park(w)
            PROVE  queue' \in Queue /\ UNCHANGED <<news, open, source, made>>
        <5>1. /\ queue \in Queue /\ queue[w].gate + 1 \in Nat
              /\ queue[w].ready \in BOOLEAN
          BY DEF TypeInv, TypeOK, Queue
        <5>2. CASE NextGate(w)
          BY <5>1, <5>2 DEF NextGate, Queue
        <5>3. CASE Park(w)
          <6>1. (~queue[w].ready) \in BOOLEAN
            OBVIOUS
          <6>2. queue' = [queue EXCEPT ![w] = [queue[w] EXCEPT !.ready = ~queue[w].ready]]
            BY <5>3, Zenon DEF Park
          <6> QED BY <5>1, <5>3, <6>1 DEF Park, Queue
        <5> QED BY <4>4, <5>2, <5>3
      <4> QED BY <3>2, <4>1, <4>2, <4>3, <4>4 DEF Edit, TypeInv, TypeOK
    <3> QED BY <1>1, <3>1, <3>2 DEF World
  <2> QED BY <2>1, <2>2 DEF TypeInv, TypeOK
<1>2. ASSUME NEW p \in Proc, Step(p) PROVE TypeInv'
  <2>1. CASE Start(p)
    <3>1. TypeOK'
      BY <2>1 DEF Start, Goto, world, TypeInv, TypeOK
    <3> QED BY <2>1, <3>1 DEF Start, Goto, TypeInv, TypeOK
  <2>2. CASE LoadIssues(p)
    <3> DEFINE v == [i \in Issue |-> IF i \in open THEN news[i] ELSE Closed]
    <3>1. /\ v \in [Issue -> Nat \cup {Closed}]
          /\ v \in [Issue -> Nat \cup {Unread, Closed}]
      BY DEF TypeInv, TypeOK
    <3>2. view' = [view EXCEPT ![p] = v] /\ pc' = [pc EXCEPT ![p] = "read"]
      BY <2>2 DEF LoadIssues, Goto
    <3> HIDE DEF v
    <3>3. TypeOK'
      BY <2>2, <3>1, <3>2 DEF LoadIssues, world, TypeInv, TypeOK
    <3>4. job' = job /\ fp' = fp /\ pc \in [Proc -> {"idle", "load", "read", "lock", "test", "save", "mirror"}]
          /\ view \in [Proc -> [Issue -> Nat \cup {Unread, Closed}]]
      BY <2>2 DEF LoadIssues, TypeInv, TypeOK
    <3> QED BY <3>1, <3>2, <3>3, <3>4 DEF TypeInv
  <2>3. CASE LoadPriorities(p)
    <3>1. TypeOK'
      BY <2>3 DEF LoadPriorities, Goto, world, TypeInv, TypeOK
    <3> QED BY <2>3, <3>1 DEF LoadPriorities, Goto, TypeInv, TypeOK
  <2>4. CASE FinishTest(p)
    BY <2>4, FinishType
  <2>5. CASE SaveState(p)
    <3>1. TypeOK'
      BY <2>5 DEF SaveState, Goto, world, run, TypeInv, TypeOK
    <3> QED BY <2>5, <3>1 DEF SaveState, Goto, run, TypeInv, TypeOK
  <2>6. CASE WriteMirror(p)
    <3>1. mirror' \in Work \cup {None}
      BY <2>6 DEF WriteMirror, TypeInv, TypeOK, State
    <3> QED BY <2>6, <3>1, FinishedType DEF WriteMirror
  <2> QED
    BY <1>2, <2>1, <2>2, <2>3, <2>4, <2>5, <2>6 DEF Step
<1>3. ASSUME NEW p \in Proc, Enter(p) PROVE TypeInv'
  BY <1>3, EnterType
<1>4. ASSUME NEW p \in Proc, Die(p) PROVE TypeInv'
  BY <1>4, FinishedType DEF Die, TypeInv, TypeOK
<1>5. CASE UNCHANGED vars
  BY <1>5 DEF vars, world, run, TypeInv, TypeOK
<1> QED
  BY <1>1, <1>2, <1>3, <1>4, <1>5 DEF Next

LEMMA TypeInductive == Spec => []TypeInv
  BY TypeInit, TypeStep, PTL DEF Spec

\* Every reachable state of the loop, its file and its invocations is well typed.
THEOREM LoopTyped == Spec => []TypeOK
<1>1. TypeInv => TypeOK
  BY DEF TypeInv
<1> QED
  BY <1>1, TypeInductive, PTL
-----------------------------------------------------------------------------
(* The bytes of results.  Whoever noted the bytes of a file before its last *)
(* edit holds others than the file has: only a second edit can bring them  *)
(* back.  So bytes that still are what was noted, with at most one edit    *)
(* since, were never touched, and what ran on them ran on nothing else.    *)
(* src and n stand for source and made, of a state or of the one after it. *)
Noted(bytes, since, files, src, n) ==
    \A f \in files :
        /\ since[f] <= n[f]
        /\ n[f] = since[f] => src[f] = bytes[f]
        /\ n[f] = since[f] + 1 => src[f] # bytes[f]

Within(since, until, files, n) ==
    \A f \in files : since[f] <= until[f] /\ until[f] <= n[f]

FilesOf(f) == Edited(ScopePaths(f.scope))

Honest(r, src, n) ==
    r # None => /\ r.since \in [File -> Nat] /\ r.until \in [File -> Nat]
                /\ Noted(r.fp.bytes, r.since, FilesOf(r.fp), src, n)
                /\ Within(r.since, r.until, FilesOf(r.fp), n)

BytesInv ==
    /\ \A i \in Issue : Honest(file.results[i], source, made)
    /\ \A p \in Proc, i \in Issue : Honest(next[p].results[i], source, made)
    /\ \A p \in Proc : pc[p] = "test" =>
          Noted(fp[p].bytes, begun[p], FilesOf(fp[p]), source, made)

\* A step leaves the files alone or edits one of them.
LEMMA EditsCount ==
  ASSUME TypeInv, [Next]_vars
  PROVE  /\ source \in [File -> Version] /\ made \in [File -> Nat]
         /\ \A f \in File : \/ source'[f] = source[f] /\ made'[f] = made[f]
                            \/ source'[f] # source[f] /\ made'[f] = made[f] + 1
<1>1. source \in [File -> Version] /\ made \in [File -> Nat]
  BY DEF TypeInv, TypeOK
<1>2. ASSUME NEW f \in File, EditSource(f), NEW g \in File
      PROVE  \/ source'[g] = source[g] /\ made'[g] = made[g]
             \/ source'[g] # source[g] /\ made'[g] = made[g] + 1
  <2>1. PICK v \in Version \ {source[f]} : source' = [source EXCEPT ![f] = v]
    BY <1>2 DEF EditSource
  <2>2. made' = [made EXCEPT ![f] = @ + 1]
    BY <1>2 DEF EditSource
  <2> QED BY <1>1, <2>1, <2>2
<1>3. \/ source' = source /\ made' = made
      \/ \E f \in File : EditSource(f)
  <2>1. CASE World
    BY <2>1 DEF World, Edit, HourPasses, CloseIssue, Report, NextGate, Park
  <2>2. CASE UNCHANGED world
    BY <2>2 DEF world
  <2>3. World \/ UNCHANGED world
    BY DEF Next, Step, Enter, Die, Start, LoadIssues, LoadPriorities, FinishTest, SaveState,
      WriteMirror, SelectOne, Review, ExecuteTest, vars
  <2> QED BY <2>1, <2>2, <2>3
<1> QED BY <1>1, <1>2, <1>3

\* So what was noted stays noted, and an honest result honest.
LEMMA HonestStays ==
  ASSUME TypeInv, [Next]_vars
  PROVE  /\ \A r : Honest(r, source, made) => Honest(r, source', made')
         /\ \A b, files, since :
              /\ files \subseteq File /\ since \in [File -> Nat]
              /\ Noted(b, since, files, source, made)
              => Noted(b, since, files, source', made')
<1>1. ASSUME NEW b, NEW files, NEW since, files \subseteq File, since \in [File -> Nat],
             Noted(b, since, files, source, made), NEW f \in files
      PROVE  /\ since[f] <= made'[f]
             /\ made'[f] = since[f] => source'[f] = b[f]
             /\ made'[f] = since[f] + 1 => source'[f] # b[f]
  <2>1. /\ since[f] \in Nat /\ made[f] \in Nat /\ since[f] <= made[f]
        /\ made[f] = since[f] => source[f] = b[f]
        /\ made[f] = since[f] + 1 => source[f] # b[f]
    BY <1>1, EditsCount DEF Noted
  <2>2. \/ source'[f] = source[f] /\ made'[f] = made[f]
        \/ source'[f] # source[f] /\ made'[f] = made[f] + 1
    BY <1>1, EditsCount
  <2>3. CASE source'[f] = source[f] /\ made'[f] = made[f]
    BY <2>1, <2>3
  <2>4. CASE source'[f] # source[f] /\ made'[f] = made[f] + 1
    <3>1. CASE made[f] = since[f]
      BY <2>1, <2>4, <3>1
    <3>2. CASE made[f] # since[f]
      BY <2>1, <2>4, <3>2
    <3> QED BY <3>1, <3>2
  <2> QED BY <2>2, <2>3, <2>4
<1>2. \A b, files, since :
         /\ files \subseteq File /\ since \in [File -> Nat]
         /\ Noted(b, since, files, source, made)
         => Noted(b, since, files, source', made')
  BY <1>1 DEF Noted
<1>3. ASSUME NEW r, r # None, Honest(r, source, made) PROVE Honest(r, source', made')
  <2>1. FilesOf(r.fp) \subseteq File
    BY DEF FilesOf, Edited
  <2>2. Noted(r.fp.bytes, r.since, FilesOf(r.fp), source', made')
    BY <1>2, <1>3, <2>1 DEF Honest
  <2>3. \A f \in FilesOf(r.fp) : /\ r.until[f] \in Nat /\ made[f] \in Nat
                                 /\ made'[f] = made[f] \/ made'[f] = made[f] + 1
    BY <1>3, <2>1, EditsCount DEF Honest
  <2>4. Within(r.since, r.until, FilesOf(r.fp), made')
    BY <1>3, <2>3 DEF Honest, Within
  <2> QED BY <1>3, <2>2, <2>4 DEF Honest
<1> QED BY <1>2, <1>3 DEF Honest

LEMMA BytesInit == Init => BytesInv
  BY DEF Init, BytesInv, NewState, Honest

LEMMA BytesStep == TypeInv /\ BytesInv /\ [Next]_vars => BytesInv'
<1> SUFFICES ASSUME TypeInv, BytesInv, [Next]_vars PROVE BytesInv'
  OBVIOUS
<1>0. /\ pc \in [Proc -> {"idle", "load", "read", "lock", "test", "save", "mirror"}]
      /\ fp \in [Proc -> Fingerprint] /\ next \in [Proc -> State] /\ file \in State
      /\ begun \in [Proc -> [File -> Nat]] /\ made \in [File -> Nat]
  BY DEF TypeInv, TypeOK
<1>h. \A r : Honest(r, source, made) => Honest(r, source', made')
  BY HonestStays
<1>n. ASSUME NEW f, NEW since \in [File -> Nat],
             Noted(f.bytes, since, FilesOf(f), source, made)
      PROVE  Noted(f.bytes, since, FilesOf(f), source', made')
  <2>1. FilesOf(f) \subseteq File
    BY DEF FilesOf, Edited
  <2> QED BY <1>n, <2>1, HonestStays
\* a step of p that leaves the file alone and computes honest results
<1>a. ASSUME NEW p \in Proc, NEW s, NEW label, NEW f, NEW since, file' = file,
             next' = [next EXCEPT ![p] = s], pc' = [pc EXCEPT ![p] = label],
             fp' = [fp EXCEPT ![p] = f], begun' = [begun EXCEPT ![p] = since],
             \A i \in Issue : Honest(s.results[i], source, made),
             label = "test" => /\ since \in [File -> Nat]
                               /\ Noted(f.bytes, since, FilesOf(f), source, made)
      PROVE  BytesInv'
  <2>1. \A q \in Proc : /\ next'[q] = IF q = p THEN s ELSE next[q]
                        /\ pc'[q] = IF q = p THEN label ELSE pc[q]
                        /\ fp'[q] = IF q = p THEN f ELSE fp[q]
                        /\ begun'[q] = IF q = p THEN since ELSE begun[q]
    BY <1>0, <1>a
  <2>2. \A i \in Issue : Honest(file'.results[i], source', made')
    BY <1>a, <1>h DEF BytesInv
  <2>3. ASSUME NEW q \in Proc, NEW i \in Issue
        PROVE  Honest(next'[q].results[i], source', made')
    <3>1. Honest(next'[q].results[i], source, made)
      BY <1>a, <2>1 DEF BytesInv
    <3> QED BY <1>h, <3>1
  <2>4. ASSUME NEW q \in Proc, pc'[q] = "test"
        PROVE  Noted(fp'[q].bytes, begun'[q], FilesOf(fp'[q]), source', made')
    <3>1. CASE q = p
      BY <1>a, <1>n, <2>1, <2>4, <3>1
    <3>2. CASE q # p
      <4>1. pc[q] = "test" /\ fp'[q] = fp[q] /\ begun'[q] = begun[q] /\ begun[q] \in [File -> Nat]
        BY <1>0, <2>1, <2>4, <3>2
      <4>2. Noted(fp[q].bytes, begun[q], FilesOf(fp[q]), source, made)
        BY <4>1 DEF BytesInv
      <4>3. Noted(fp[q].bytes, begun[q], FilesOf(fp[q]), source', made')
        BY <1>n, <4>1, <4>2
      <4> QED BY <4>1, <4>3
    <3> QED BY <3>1, <3>2
  <2> QED BY <2>2, <2>3, <2>4 DEF BytesInv, FilesOf
\* a step that changes no result and no fingerprint
<1>b. ASSUME UNCHANGED <<next, fp, begun>>,
             file' = file \/ \E p \in Proc : file' = next[p],
             \A q \in Proc : pc'[q] = "test" => pc[q] = "test"
      PROVE  BytesInv'
  <2>1. \A i \in Issue : Honest(file'.results[i], source', made')
    BY <1>b, <1>h DEF BytesInv
  <2>2. \A q \in Proc, i \in Issue : Honest(next'[q].results[i], source', made')
    BY <1>b, <1>h DEF BytesInv
  <2>3. ASSUME NEW q \in Proc, pc'[q] = "test"
        PROVE  Noted(fp'[q].bytes, begun'[q], FilesOf(fp'[q]), source', made')
    <3>1. Noted(fp[q].bytes, begun[q], FilesOf(fp[q]), source, made) /\ begun[q] \in [File -> Nat]
      BY <1>0, <1>b, <2>3 DEF BytesInv
    <3>2. Noted(fp[q].bytes, begun[q], FilesOf(fp[q]), source', made')
      BY <1>n, <3>1
    <3> QED BY <1>b, <3>2
  <2> QED BY <2>1, <2>2, <2>3 DEF BytesInv, FilesOf
<1>1. CASE World
  BY <1>1, <1>b DEF World, run
<1>2. ASSUME NEW p \in Proc, Start(p) \/ LoadIssues(p) \/ LoadPriorities(p) PROVE BytesInv'
  <2>1. /\ UNCHANGED <<file, next, fp, begun>>
        /\ \A q \in Proc : pc'[q] = "test" => pc[q] = "test"
    BY <1>0, <1>2 DEF Start, LoadIssues, LoadPriorities, Goto
  <2> QED BY <1>b, <2>1
<1>3. ASSUME NEW p \in Proc, FinishTest(p) PROVE BytesInv'
  <2> DEFINE i == job[p]
             outcome == [fp |-> fp[p], since |-> begun[p], until |-> made]
             kept == [next[p] EXCEPT !.results[i] = outcome]
             done == [kept EXCEPT !.families[IssueFamily(i)][TestPlan(i)] = outcome]
  <2>1. next' = [next EXCEPT ![p].results[i] = outcome,
                             ![p].families[IssueFamily(i)][TestPlan(i)] = outcome]
    BY <1>3 DEF FinishTest, Recorded
  <2>2. Honest(outcome, source, made)
    <3>1. Noted(fp[p].bytes, begun[p], FilesOf(fp[p]), source, made) /\ begun[p] \in [File -> Nat]
      BY <1>0, <1>3 DEF BytesInv, FinishTest
    <3>2. \A f \in FilesOf(fp[p]) : begun[p][f] <= made[f] /\ made[f] \in Nat
      BY <1>0, <3>1 DEF Noted, FilesOf, Edited
    <3>3. Within(begun[p], made, FilesOf(fp[p]), made)
      BY <3>2 DEF Within
    <3> QED BY <1>0, <3>1, <3>3 DEF Honest
  <2> HIDE DEF i, outcome
  <2>3. next' = [next EXCEPT ![p] = done]
    <3>1. DOMAIN next = Proc
      BY <1>0
    <3> QED BY <2>1, <3>1
  <2>4. /\ DOMAIN kept = Fields /\ DOMAIN next[p].results = Issue
        /\ kept.results = [next[p].results EXCEPT ![i] = outcome]
    <3>1. next[p] \in State
      BY <1>0
    <3>2. DOMAIN next[p] = Fields /\ DOMAIN next[p].results = Issue
      BY <3>1 DEF State, Fields
    <3> QED BY <3>2 DEF Fields
  <2>5. done.results = kept.results
    BY <2>4 DEF Fields
  <2> HIDE DEF done, kept
  <2>6. \A j \in Issue : Honest(done.results[j], source, made)
    BY <2>2, <2>4, <2>5 DEF BytesInv
  <2>7. /\ pc' = [pc EXCEPT ![p] = "save"] /\ fp' = [fp EXCEPT ![p] = fp[p]] /\ file' = file
        /\ begun' = [begun EXCEPT ![p] = begun[p]]
    BY <1>0, <1>3 DEF FinishTest, Goto
  <2> QED BY <1>a, <2>3, <2>6, <2>7
<1>4. ASSUME NEW p \in Proc, SaveState(p) PROVE BytesInv'
  <2>1. /\ file' = next[p] /\ UNCHANGED <<next, fp, begun>>
        /\ \A q \in Proc : pc'[q] = "test" => pc[q] = "test"
    BY <1>0, <1>4 DEF SaveState, Goto, run
  <2> QED BY <1>b, <2>1
<1>5. ASSUME NEW p \in Proc, Finished(p), file' = file PROVE BytesInv'
  <2>1. \A i \in Issue : Honest(NewState.results[i], source, made)
    BY DEF NewState, Honest
  <2> QED BY <1>5, <1>a, <2>1 DEF Finished, Goto
<1>6. ASSUME NEW p \in Proc, SelectOne(p) PROVE BytesInv'
  <2> DEFINE s == Refreshed(p, LoadState)
             t == [s EXCEPT !.active = RecordSelection(s, s.selected, plan[p], wake[p])]
  <2>1. s.results = file.results /\ DOMAIN s = Fields
    <3>1. DOMAIN file = Fields
      BY <1>0 DEF State, Fields
    <3> QED BY <3>1, RefreshedFits DEF LoadState
  <2>2. next' = [next EXCEPT ![p] = t]
    BY <1>6 DEF SelectOne
  <2> HIDE DEF s
  <2>3. t.results = file.results
    BY <2>1 DEF Fields
  <2> HIDE DEF t
  <2>4. /\ pc' = [pc EXCEPT ![p] = "save"] /\ fp' = [fp EXCEPT ![p] = fp[p]] /\ file' = file
        /\ begun' = [begun EXCEPT ![p] = begun[p]]
    BY <1>0, <1>6 DEF SelectOne, Goto
  <2> QED BY <1>a, <2>2, <2>3, <2>4 DEF BytesInv
<1>7. ASSUME NEW p \in Proc, NEW i \in Issue, Review(p, i) PROVE BytesInv'
  <2> DEFINE r == [LoadState EXCEPT !.reviews[i] = Revision(view[p][i])]
             s == Refreshed(p, r)
  <2>1. DOMAIN file = Fields
    BY <1>0 DEF State, Fields
  <2>2. DOMAIN r = Fields /\ r.results = file.results
    BY <2>1 DEF LoadState, Fields
  <2>3. next' = [next EXCEPT ![p] = s]
    BY <1>7 DEF Review
  <2> HIDE DEF r
  <2>4. s.results = file.results
    BY <2>2, RefreshedFits
  <2> HIDE DEF s
  <2>5. /\ pc' = [pc EXCEPT ![p] = "save"] /\ fp' = [fp EXCEPT ![p] = fp[p]] /\ file' = file
        /\ begun' = [begun EXCEPT ![p] = begun[p]]
    BY <1>0, <1>7 DEF Review, Goto
  <2> QED BY <1>a, <2>3, <2>4, <2>5 DEF BytesInv
<1>8. ASSUME NEW p \in Proc, NEW i \in Issue, ExecuteTest(p, i) PROVE BytesInv'
  <2> DEFINE s == Refreshed(p, LoadState)
  <2>1. s.results = file.results
    <3>1. DOMAIN file = Fields
      BY <1>0 DEF State, Fields
    <3> QED BY <3>1, RefreshedFits DEF LoadState
  <2>2. next' = [next EXCEPT ![p] = s] /\ file' = file
    BY <1>8 DEF ExecuteTest
  <2>3. \/ /\ pc' = [pc EXCEPT ![p] = "save"] /\ fp' = [fp EXCEPT ![p] = fp[p]]
           /\ begun' = [begun EXCEPT ![p] = begun[p]]
        \/ /\ pc' = [pc EXCEPT ![p] = "test"]
           /\ fp' = [fp EXCEPT ![p] = TestFingerprint(i)]
           /\ begun' = [begun EXCEPT ![p] = made]
    BY <1>0, <1>8 DEF ExecuteTest, Goto
  <2> DEFINE now == TestFingerprint(i)
  <2>4. Noted(now.bytes, made, FilesOf(now), source, made)
    <3>1. \A f \in FilesOf(now) : now.bytes[f] = source[f] /\ made[f] \in Nat
      BY <1>0 DEF TestFingerprint, FilesOf, BytesOf, Edited
    <3> HIDE DEF now
    <3> QED BY <3>1 DEF Noted
  <2>5. \A j \in Issue : Honest(s.results[j], source, made)
    BY <2>1 DEF BytesInv
  <2> HIDE DEF s, now
  <2>6. CASE pc' = [pc EXCEPT ![p] = "save"]
    <3>1. "save" # "test"
      OBVIOUS
    <3>2. PICK f, since : /\ fp' = [fp EXCEPT ![p] = f]
                          /\ begun' = [begun EXCEPT ![p] = since]
      BY <2>3
    <3> QED BY <1>a, <2>2, <2>5, <2>6, <3>1, <3>2
  <2>7. CASE /\ pc' = [pc EXCEPT ![p] = "test"]
             /\ fp' = [fp EXCEPT ![p] = now]
             /\ begun' = [begun EXCEPT ![p] = made]
    BY <1>0, <1>a, <2>2, <2>4, <2>5, <2>7
  <2> QED BY <2>3, <2>6, <2>7 DEF now
<1>9. CASE UNCHANGED vars
  BY <1>9, <1>b DEF vars, run
<1> QED
  BY <1>1, <1>2, <1>3, <1>4, <1>5, <1>6, <1>7, <1>8, <1>9 DEF Next, Step, Enter, Die, WriteMirror

LEMMA BytesInductive == Spec => []BytesInv
  BY BytesInit, BytesStep, TypeInductive, PTL DEF Spec

\* A result on record for the bytes that the files hold was obtained on just
\* these bytes, whatever is edited and restored while contracts run and however
\* many invocations overlap; only a file edited twice since may be an exception.
THEOREM ResultsAreOfTheseBytes == Spec => []PassIsOfTheseBytes
<1>1. TypeInv /\ BytesInv => PassIsOfTheseBytes
  <2> SUFFICES ASSUME TypeInv, BytesInv, NEW i \in Issue, file.results[i] # None,
                      file.results[i].fp = TestFingerprint(i),
                      NEW f \in Edited(ScopePaths(FingerprintScope(i)))
               PROVE  \/ file.results[i].until[f] = file.results[i].since[f]
                      \/ made[f] > file.results[i].since[f] + 1
    BY DEF PassIsOfTheseBytes, Repeats
  <2> DEFINE r == file.results[i]
  <2>1. f \in FilesOf(r.fp) /\ r.fp.bytes[f] = source[f] /\ f \in File
    BY DEF TestFingerprint, FilesOf, BytesOf, Edited
  <2>2. /\ r.since[f] \in Nat /\ r.until[f] \in Nat /\ made[f] \in Nat
        /\ r.since[f] <= r.until[f] /\ r.until[f] <= made[f]
        /\ made[f] # r.since[f] + 1
    BY <2>1 DEF BytesInv, Honest, Noted, Within, TypeInv, TypeOK
  <2> HIDE DEF r
  <2> QED BY <2>2 DEF r
<1> QED
  BY <1>1, TypeInductive, BytesInductive, PTL
=============================================================================
