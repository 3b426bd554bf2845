-------------------------- MODULE MaintenanceLoop --------------------------
(***************************************************************************)
(* scripts/maintenance-loop.py: one invocation refreshes the evidence of   *)
(* the open issues and selects one piece of work, or acknowledges one      *)
(* reporter's revision, or runs one registered contract test.              *)
(*                                                                         *)
(* An invocation notes the hour, reads the issues from GitHub one page     *)
(* after another and the priority file, and only then takes the lock and   *)
(* reads its state file: what it saw can be older than what the holder of  *)
(* the lock before it saw.  The state is written atomically and the mirror *)
(* PRIORITIES.md after it.  Reporters, the owner, the coordinator who      *)
(* edits the priorities, and whoever edits the sources work meanwhile.     *)
(*                                                                         *)
(* A report is the number of its actionable comments and edits.  A file has *)
(* one of a few contents, and an edit may restore earlier ones; made counts *)
(* the edits of each file, for the properties.  Scores, reasons and texts, *)
(* which only order or fill the output, are left out; --preview takes no   *)
(* lock and writes nothing.                                                *)
(***************************************************************************)
EXTENDS Integers, FiniteSets

CONSTANTS
    Proc, Issue,
    Work,           \* the ids of the priority file, in their order: naturals
    Priority,       \* Priority[w]
    IssuesOf,       \* IssuesOf[w]: the issues of w
    File, Version,  \* the files that somebody edits, and their contents
    MaxEvents, MaxHour, \* bounds on what the world does
    None, Unread, Closed

ASSUME LoopAssumption ==
    /\ Work \subseteq Nat /\ IsFiniteSet(Work) /\ Priority \in [Work -> Nat]
    /\ IssuesOf \in [Work -> SUBSET Issue]
    /\ Issue \subseteq Nat
    /\ {MaxEvents, MaxHour} \subseteq Nat
    /\ None \notin Proc /\ 0 \in Version

VARIABLES
    news, open,     \* the issues: actionable content, and which are open
    source, made,   \* the bytes of each file, and how often it was edited
    queue,          \* maintenance-priorities.json
    hour,
    edits,          \* what the coordinator and the developers have changed
    file,           \* loop-state.json
    mirror,         \* the active objective in PRIORITIES.md
    lock,
    pc, view,       \* view[p][i]: what p read of issue i
    plan,           \* plan[p]: the priorities p read
    wake,           \* wake[p]: the hour in which p started
    job,            \* job[p]: the issue p runs the contract of, or None
    fp,             \* fp[p]: the fingerprint p took before the test
    begun,          \* begun[p]: the edits made when it took it
    next            \* next[p]: the state p is going to save

world == <<news, open, source, made, queue, hour, edits>>
run == <<view, plan, wake, job, fp, begun, next>>
vars == <<world, file, mirror, lock, pc, run>>

(* --------------------- the registered contracts ------------------------ *)

\* Reports with one source hypothesis.  No result is recorded for an issue
\* without a contract, whatever its family in the table.
IssueFamily(i) ==
    CASE i \in {102, 104, 120, 137, 166, 193, 211} -> "android-renderer-geometry"
      [] i = 119 -> "android-input-and-system-bars"
      [] i = 184 -> "android-controller-input"
      [] i = 200 -> "android-launch-exit"
      [] OTHER -> "unclustered"

\* The command, or None: 123, whose host contract proved nothing, and every
\* issue that waits on a device or a reporter.
TestPlan(i) ==
    CASE i = 200 -> "network"
      [] i \in {166, 193, 211} -> "draw and pnmtx"
      [] i \in {102, 104, 120, 137} -> "draw"
      [] i = 188 -> "identity"
      [] i = 119 -> "touch"
      [] i = 184 -> "controller mapping"
      [] OTHER -> None

FingerprintScope(i) ==
    CASE i = 123 -> "android-network-receive-window"
      [] i = 200 -> "android-launch-runtime"
      [] i = 119 -> "android-touch"
      [] i = 184 -> "android-controller"
      [] i \in {102, 104, 120, 137, 166, 193, 211} -> "android-renderer-pnmtx"
      [] OTHER -> "maintenance-wide"

\* Their files: the ones two scopes share by name, all others of a scope as one.
ScopePaths(scope) ==
    CASE scope = "android-network-receive-window" -> {"receive window", "socket"}
      [] scope = "android-launch-runtime" -> {"launch", "socket", "prepare"}
      [] scope = "android-renderer-pnmtx" -> {"renderer", "prepare"}
      [] scope = "android-touch" -> {"activity", "touch tests"}
      [] scope = "android-controller" -> {"mapping", "touch tests"}
      [] OTHER -> File

\* The files that a contract reads: for the touch contract these are many more.
Reads(i) ==
    IF TestPlan(i) = "touch" THEN {"activity", "touch tests", "overlay"}
    ELSE ScopePaths(FingerprintScope(i))

Family == {IssueFamily(i) : i \in Issue}
Plan == {TestPlan(i) : i \in Issue} \ {None}
Scope == {FingerprintScope(i) : i \in Issue} \cup {"maintenance-wide"}
Edited(files) == files \cap File                     \* the others stay as they are
BytesOf(files) == [f \in Edited(files) |-> source[f]]

(* ------------------------------ the state ------------------------------ *)

Fingerprint ==
    UNION {[scope : {s}, bytes : [Edited(ScopePaths(s)) -> Version]] : s \in Scope}
\* since and until: the edits made when the contract was started and when it
\* ended.  Passed or failed is left out: either keeps it from running again.
Result == [fp : Fingerprint, since : [File -> Nat], until : [File -> Nat]]
\* hours: the wake windows in which this gate was counted
Active == [work : Work, gate : Nat, cycles : Nat, window : Nat, hours : SUBSET Nat]
State == [reviews : [Issue -> Nat \cup {None}],
          pending : SUBSET Issue,
          selected : Work \cup {None},
          active : Active \cup {None},
          results : [Issue -> Result \cup {None}],
          families : [Family -> [Plan -> Result \cup {None}]]]
Queue == [Work -> [ready : BOOLEAN, gate : Nat]]

NewState ==
    [reviews |-> [i \in Issue |-> None], pending |-> {}, selected |-> None,
     active |-> None, results |-> [i \in Issue |-> None],
     families |-> [f \in Family |-> [c \in Plan |-> None]]]
NewQueue == [w \in Work |-> [ready |-> TRUE, gate |-> 0]]
NothingRead == [i \in Issue |-> Unread]
NoPrint == [scope |-> "maintenance-wide", bytes |-> [f \in File |-> 0]]
NoEdits == [f \in File |-> 0]

Init ==
    /\ news = [i \in Issue |-> 0]
    /\ open = Issue
    /\ source = [f \in File |-> 0]
    /\ made = NoEdits
    /\ queue = NewQueue
    /\ hour = 0
    /\ edits = 0
    /\ file = NewState
    /\ mirror = None
    /\ lock = None
    /\ pc = [p \in Proc |-> "idle"]
    /\ view = [p \in Proc |-> NothingRead]
    /\ plan = [p \in Proc |-> NewQueue]
    /\ wake = [p \in Proc |-> 0]
    /\ job = [p \in Proc |-> None]
    /\ fp = [p \in Proc |-> NoPrint]
    /\ begun = [p \in Proc |-> NoEdits]
    /\ next = [p \in Proc |-> NewState]

(* ------------------------------- the world ----------------------------- *)

Comment == {"thanks", "result"}
Actionable(comment) == comment # "thanks"

Report(i, comment) ==
    /\ i \in open /\ Actionable(comment)
    /\ news' = [news EXCEPT ![i] = @ + 1] /\ UNCHANGED <<open, source, made, queue>>
CloseIssue(i) == open' = open \ {i} /\ UNCHANGED <<news, source, made, queue>>
NextGate(w) == queue' = [queue EXCEPT ![w].gate = @ + 1] /\ UNCHANGED <<news, open, source, made>>
Park(w) == queue' = [queue EXCEPT ![w].ready = ~@] /\ UNCHANGED <<news, open, source, made>>

\* Any other bytes, also ones that were there before: an undo, a checkout.
EditSource(f) ==
    /\ \E v \in Version \ {source[f]} : source' = [source EXCEPT ![f] = v]
    /\ made' = [made EXCEPT ![f] = @ + 1]
    /\ UNCHANGED <<news, open, queue>>

Edit ==
    /\ edits + hour < MaxEvents
    /\ edits' = edits + 1
    /\ UNCHANGED hour
    /\ \/ \E i \in Issue : CloseIssue(i) \/ \E comment \in Comment : Report(i, comment)
       \/ \E f \in File : EditSource(f)
       \/ \E w \in Work : NextGate(w) \/ Park(w)

HourPasses ==
    /\ hour < MaxHour /\ edits + hour < MaxEvents
    /\ hour' = hour + 1
    /\ UNCHANGED <<news, open, source, made, queue, edits>>

World ==
    /\ Edit \/ HourPasses
    /\ UNCHANGED <<file, mirror, lock, pc, run>>

(* ------------------------------- operators ----------------------------- *)

\* The content a review acknowledges: any actionable change makes it another.
Revision(content) == content

Unreviewed(s, v) ==
    {i \in Issue : v[i] # Closed /\ s.reviews[i] # Revision(v[i])}

Before(v, w) == Priority[v] < Priority[w] \/ (Priority[v] = Priority[w] /\ v < w)
Ready(q, v) == {w \in Work : q[w].ready /\ \E i \in IssuesOf[w] : v[i] # Closed}
First(ready) == CHOOSE w \in ready : \A o \in ready \ {w} : Before(w, o)
Preempts(w, active) == Priority[w] <= 2 /\ Priority[w] < Priority[active]

SelectWork(q, v, s) ==
    LET ready == Ready(q, v)
        active == IF s.active = None THEN None ELSE s.active.work
    IN  IF ready = {} THEN None
        ELSE IF active \in ready /\ ~Preempts(First(ready), active) THEN active
        ELSE First(ready)

EverySelection(previous, h) == TRUE                  \* mutant of NewWindow
NewWindow(previous, h) == previous.window # h

RecordSelection(s, w, q, h) ==
    LET previous == s.active
        sameGate == previous # None /\ previous.work = w /\ previous.gate = q[w].gate
        counted == sameGate => NewWindow(previous, h)
        cycles == (IF sameGate THEN previous.cycles ELSE 0) + (IF counted THEN 1 ELSE 0)
        hours == (IF sameGate THEN previous.hours ELSE {}) \cup {h}
    IN  IF w = None THEN None
        ELSE [work |-> w, gate |-> q[w].gate, cycles |-> cycles, window |-> h,
              hours |-> hours]

RequiresDecision(active) == active.cycles > 2

\* mutant of TestFingerprint: a wrong root, under which every file is missing
FilesMissing(i) == [scope |-> FingerprintScope(i), bytes |-> [f \in {} |-> 0]]

\* The files that a contract depends on, whatever else changes.
TestFingerprint(i) ==
    [scope |-> FingerprintScope(i), bytes |-> BytesOf(ScopePaths(FingerprintScope(i)))]

Repeats(result, f) == result # None /\ result.fp = f
IssueGuard(s, i, f) == Repeats(s.results[i], f)     \* mutant of RepeatGuard
RepeatGuard(s, i, f) ==
    Repeats(s.results[i], f) \/ Repeats(s.families[IssueFamily(i)][TestPlan(i)], f)

(* ------------------------------ one invocation ------------------------- *)

Goto(p, label) == pc' = [pc EXCEPT ![p] = label]

Start(p) ==
    /\ pc[p] = "idle"
    /\ Goto(p, "load")
    /\ wake' = [wake EXCEPT ![p] = hour]
    /\ UNCHANGED <<world, file, mirror, lock, view, plan, job, fp, begun, next>>

\* Every page or none: a failed or repeated page ends the invocation (Die).
LoadIssues(p) ==
    /\ pc[p] = "load"
    /\ view' = [view EXCEPT ![p] = [i \in Issue |-> IF i \in open THEN news[i] ELSE Closed]]
    /\ Goto(p, "read")
    /\ UNCHANGED <<world, file, mirror, lock, plan, wake, job, fp, begun, next>>

LoadPriorities(p) ==
    /\ pc[p] = "read"
    /\ plan' = [plan EXCEPT ![p] = queue]
    /\ Goto(p, "lock")
    /\ UNCHANGED <<world, file, mirror, lock, view, wake, job, fp, begun, next>>

Unlocked == TRUE                                     \* mutant of LockFree
LockFree == lock = None
Acquire(p) == pc[p] = "lock" /\ LockFree /\ lock' = p
LoadState == file

\* What every invocation that writes puts in the state.
Refreshed(p, s) ==
    [s EXCEPT !.pending = Unreviewed(s, view[p]),
              !.selected = SelectWork(plan[p], view[p], s)]

SelectOne(p) ==
    /\ Acquire(p)
    /\ LET s == Refreshed(p, LoadState)
       IN  next' = [next EXCEPT ![p] =
               [s EXCEPT !.active = RecordSelection(s, s.selected, plan[p], wake[p])]]
    /\ Goto(p, "save")
    /\ UNCHANGED <<world, file, mirror, view, plan, wake, job, fp, begun>>

Review(p, i) ==
    /\ Acquire(p)
    /\ view[p][i] # Closed
    /\ next' = [next EXCEPT ![p] =
           Refreshed(p, [LoadState EXCEPT !.reviews[i] = Revision(view[p][i])])]
    /\ Goto(p, "save")
    /\ UNCHANGED <<world, file, mirror, view, plan, wake, job, fp, begun>>

ExecuteTest(p, i) ==
    /\ Acquire(p)
    /\ view[p][i] # Closed
    /\ TestPlan(i) # None
    /\ next' = [next EXCEPT ![p] = Refreshed(p, LoadState)]
    /\ IF RepeatGuard(LoadState, i, TestFingerprint(i))
       THEN Goto(p, "save") /\ UNCHANGED <<job, fp, begun>>
       ELSE /\ Goto(p, "test")
            /\ job' = [job EXCEPT ![p] = i]
            /\ fp' = [fp EXCEPT ![p] = TestFingerprint(i)]
            /\ begun' = [begun EXCEPT ![p] = made]
    /\ UNCHANGED <<world, file, mirror, view, plan, wake>>

RecordedAfter(p) == TestFingerprint(job[p])          \* mutant of Recorded
Recorded(p) == fp[p]

FinishTest(p) ==
    /\ pc[p] = "test"
    /\ LET i == job[p]
           result == [fp |-> Recorded(p), since |-> begun[p], until |-> made]
       IN  next' = [next EXCEPT ![p].results[i] = result,
                                ![p].families[IssueFamily(i)][TestPlan(i)] = result]
    /\ Goto(p, "save")
    /\ UNCHANGED <<world, file, mirror, lock, view, plan, wake, job, fp, begun>>

SaveState(p) ==
    /\ pc[p] = "save"
    /\ file' = next[p]
    /\ Goto(p, "mirror")
    /\ UNCHANGED <<world, mirror, lock, run>>

Finished(p) ==
    /\ Goto(p, "idle")
    /\ lock' = IF lock = p THEN None ELSE lock
    /\ view' = [view EXCEPT ![p] = NothingRead]
    /\ plan' = [plan EXCEPT ![p] = NewQueue]
    /\ wake' = [wake EXCEPT ![p] = 0]
    /\ job' = [job EXCEPT ![p] = None]
    /\ fp' = [fp EXCEPT ![p] = NoPrint]
    /\ begun' = [begun EXCEPT ![p] = NoEdits]
    /\ next' = [next EXCEPT ![p] = NewState]

WriteMirror(p) ==
    /\ pc[p] = "mirror"
    /\ mirror' = next[p].selected
    /\ Finished(p)
    /\ UNCHANGED <<world, file>>

\* Killed, or ended by an error of GitHub, of a file or of the arguments.
Die(p) ==
    /\ pc[p] # "idle"
    /\ Finished(p)
    /\ UNCHANGED <<world, file, mirror>>

Enter(p) == SelectOne(p) \/ \E i \in Issue : Review(p, i) \/ ExecuteTest(p, i)

Step(p) ==
    \/ Start(p)
    \/ LoadIssues(p)
    \/ LoadPriorities(p)
    \/ FinishTest(p)
    \/ SaveState(p)
    \/ WriteMirror(p)

Next == World \/ \E p \in Proc : Step(p) \/ Enter(p) \/ Die(p)

Spec == Init /\ [][Next]_vars

(* ------------------------------ properties ----------------------------- *)

TypeOK ==
    /\ news \in [Issue -> Nat] /\ open \subseteq Issue
    /\ source \in [File -> Version] /\ made \in [File -> Nat] /\ queue \in Queue
    /\ hour \in 0 .. MaxHour /\ edits \in 0 .. MaxEvents
    /\ file \in State /\ mirror \in Work \cup {None}
    /\ lock \in Proc \cup {None}
    /\ pc \in [Proc -> {"idle", "load", "read", "lock", "test", "save", "mirror"}]
    /\ view \in [Proc -> [Issue -> Nat \cup {Unread, Closed}]]
    /\ plan \in [Proc -> Queue] /\ wake \in [Proc -> 0 .. MaxHour]
    /\ job \in [Proc -> Issue \cup {None}]
    /\ fp \in [Proc -> Fingerprint] /\ begun \in [Proc -> [File -> Nat]]
    /\ next \in [Proc -> State]

\* While a contract runs, no result of the same command for the same family is
\* on record for the bytes it was started on: neither its own issue's nor one
\* that another invocation, for another issue of the family, has saved since.
NoUnchangedRerun ==
    \A p \in Proc : pc[p] = "test" =>
        LET i == job[p]
        IN  ~Repeats(file.families[IssueFamily(i)][TestPlan(i)], fp[p])

\* A result on record for the bytes of now was obtained on just these bytes: a
\* file that was edited while the test ran never passes for tested, unless it
\* has been edited again since, which may have brought its bytes back.
PassIsOfTheseBytes ==
    \A i \in Issue : Repeats(file.results[i], TestFingerprint(i)) =>
        LET r == file.results[i]
        IN  \A f \in Edited(ScopePaths(FingerprintScope(i))) :
                r.until[f] = r.since[f] \/ made[f] > r.since[f] + 1

\* Even then.  (It need not be: the fingerprint is taken once, before the test,
\* and bytes that are restored make the result of others count as theirs.)
PassIsNeverOfOthers ==
    \A i \in Issue : Repeats(file.results[i], TestFingerprint(i)) =>
        \A f \in Edited(ScopePaths(FingerprintScope(i))) :
            file.results[i].until[f] = file.results[i].since[f]

\* A contract is not run again only if nothing it reads was edited since.  (It
\* need not: the touch contract reads many files, its scope has two of them.)
BlockedIsUnchanged ==
    \A i \in Issue : Repeats(file.results[i], TestFingerprint(i))
        => \A f \in Edited(Reads(i)) : made[f] = file.results[i].until[f]

\* A save changes the result of no contract but the one its own invocation
\* ran: overlapping invocations, which all write the whole state, lose
\* nobody's record.
SavesKeepOthers ==
    [][\A i \in Issue : file'.results[i] # file.results[i]
          => \E p \in Proc : pc[p] = "save" /\ pc'[p] = "mirror" /\ job[p] = i]_vars

\* A gate is declared stalled only after it was seen in two different hours,
\* however many invocations select it again within one.
StallNeedsTwoHours ==
    file.active # None /\ RequiresDecision(file.active) => Cardinality(file.active.hours) > 1
=============================================================================
