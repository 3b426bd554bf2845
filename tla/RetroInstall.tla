---------------------------- MODULE RetroInstall ----------------------------
(***************************************************************************)
(* The Android Retro Rewind install transaction: RetroRewindInstallStorage *)
(* (lease, recovery, staging, activation), the pipeline and the durable    *)
(* worker that drive it, and the activities that also run the recovery.    *)
(*                                                                         *)
(* WorkManager persists a request with its token and executes it again     *)
(* after a process death, a retry or a lost constraint, with the SAME      *)
(* token.  Stopping an execution only raises its isStopped: its blocking   *)
(* code runs on, beside the next execution or the next request.            *)
(*                                                                         *)
(* The game, once launched, goes on saving whatever the installer does: no *)
(* code keeps it quiet while a transaction holds the lease.                *)
(*                                                                         *)
(* A tree is abstracted to the pack it holds, whether all its files are    *)
(* there, and the save files under riivolution/save.  Moves are atomic     *)
(* renames; deleteTree is not atomic.                                      *)
(***************************************************************************)
EXTENDS Integers

CONSTANTS
    Token,          \* install requests
    Exec,           \* executions of the worker that can exist at once
    Opener,         \* activities that recover: the chooser, the game's launch
    Launcher,       \* those of them in the :launcher process
    Save,           \* things the player can save
    OldSave,        \* what is saved before the first request
    MaxFaults,      \* bound on process deaths and failed file operations
    None, Absent

ASSUME InstallAssumption ==
    /\ OldSave \subseteq Save
    /\ MaxFaults \in Nat
    /\ Launcher \subseteq Opener
    /\ Exec \cap Opener = {}
    /\ None \notin Token \cup Exec \cup Opener

Tree == [pack : {"old", "new", "stub"}, whole : BOOLEAN, saves : SUBSET Save]
Actor == Exec \cup Opener

ASSUME AbsentAssumption ==
    /\ Absent \notin Tree
    /\ \A saves \in SUBSET Save : saves # None

VARIABLES
    installed,      \* RetroRewind
    staging,        \* staging[t]: RetroRewind.import-t
    rollback,       \* rollback[t]: RetroRewind.rollback-t
    lock,           \* holder of RetroRewind.transaction.lock
    pc,             \* where each execution and each activity is
    token,          \* token[e]: the request e executes
    current,        \* WorkManager: the unfinished request, kept by KEEP
    used,           \* tokens already handed to a request
    stopped,        \* executions whose isStopped is raised
    playing,        \* the game was launched and its process lives
    saved,          \* what the player has saved so far
    late,           \* history: saves made after their pack's saves were copied
    torn,           \* history: a save was made while no pack had its name
    faults

trees == <<installed, staging, rollback>>
work == <<token, current, used, stopped>>
player == <<playing, saved, late, torn>>
vars == <<trees, lock, pc, work, player, faults>>

\* steps inside the lease; in Staged the transaction owns its staging tree
Staged == {"extract", "copy", "moveOld", "moveNew", "moveFirst", "restore"}
Locked == Staged \cup {"sweep", "stage", "unlink", "unlinkRest", "discard"}
Step == Locked \cup {"idle", "recover", "download", "verify", "root"}

TypeOK ==
    /\ installed \in Tree \cup {Absent}
    /\ staging \in [Token -> Tree \cup {Absent}]
    /\ rollback \in [Token -> Tree \cup {Absent}]
    /\ lock \in Actor \cup {None}
    /\ pc \in [Actor -> Step]
    /\ token \in [Exec -> Token \cup {None}]
    /\ current \in Token \cup {None}
    /\ used \subseteq Token
    /\ stopped \subseteq Exec
    /\ playing \in BOOLEAN /\ torn \in BOOLEAN
    /\ late \subseteq saved /\ saved \subseteq Save
    /\ faults \in 0..MaxFaults
    /\ \A o \in Opener : pc[o] \in {"idle", "recover", "sweep"}
    /\ \A e \in Exec : pc[e] = "idle" <=> token[e] = None

OldTree == [pack |-> "old", whole |-> TRUE, saves |-> OldSave]
FreshTree == [pack |-> "new", whole |-> FALSE, saves |-> {}]
StubTree(s) == [pack |-> "stub", whole |-> FALSE, saves |-> {s}]

Init ==
    /\ \/ installed = Absent /\ saved = {}
       \/ installed = OldTree /\ saved = OldSave
    /\ staging = [t \in Token |-> Absent]
    /\ rollback = [t \in Token |-> Absent]
    /\ lock = None
    /\ pc = [a \in Actor |-> "idle"]
    /\ token = [e \in Exec |-> None]
    /\ current = None /\ used = {} /\ stopped = {}
    /\ playing = FALSE /\ late = {} /\ torn = FALSE
    /\ faults = 0

Goto(a, s) == pc' = [pc EXCEPT ![a] = s]
Fault == faults < MaxFaults /\ faults' = faults + 1

\* execution e returns; a stopped one has nobody left to report to, and after
\* Result.retry() (again) the request stays with WorkManager
Leave(e, again) ==
    /\ Goto(e, "idle")
    /\ token' = [token EXCEPT ![e] = None]
    /\ stopped' = stopped \ {e}
    /\ current' = IF e \in stopped \/ again THEN current ELSE None
    /\ UNCHANGED used
-----------------------------------------------------------------------------
(* Recovery *)

\* fault: the worker returns instead of going on
RecoverOnly(a) == Goto(a, "idle")

\* where an actor goes when its recover() returns
AfterRecover(a) == Goto(a, IF a \in Opener THEN "idle" ELSE "download")

\* fault: the lease is not consulted before recovering
RecoverUnlocked(a) ==
    /\ pc[a] = "recover"
    /\ lock' = a /\ Goto(a, "sweep")
    /\ UNCHANGED <<trees, work, player, faults>>

\* tryInstallLock does not wait: a busy lease skips the recovery
RecoverStart(a) ==
    /\ pc[a] = "recover"
    /\ IF lock = None THEN lock' = a /\ Goto(a, "sweep")
                      ELSE AfterRecover(a) /\ UNCHANGED lock
    /\ UNCHANGED <<trees, work, player, faults>>

RecoverSweep(a) ==
    /\ pc[a] = "sweep"
    /\ \E t \in Token : /\ staging[t] # Absent
                        /\ staging' = [staging EXCEPT ![t] = Absent]
    /\ UNCHANGED <<installed, rollback, lock, pc, work, player, faults>>

Rollbacks == {t \in Token : rollback[t] # Absent}
\* faults: some rollback is always restored; none ever is
AlwaysGuess == FALSE
NeverRestore == TRUE

Ambiguous == \A t \in Token : Rollbacks # {t}

RecoverFinish(a) ==
    /\ pc[a] = "sweep"
    /\ \A t \in Token : staging[t] = Absent
    /\ IF installed = Absent /\ Rollbacks # {} /\ ~ Ambiguous
       THEN \E t \in Rollbacks :
              /\ installed' = rollback[t]
              /\ rollback' = [rollback EXCEPT ![t] = Absent]
       ELSE UNCHANGED <<installed, rollback>>
    /\ lock' = None
    /\ AfterRecover(a)
    /\ UNCHANGED <<staging, work, player, faults>>

\* fault: the lease is not closed on the way out
RecoverFailHeld(a) ==
    /\ pc[a] = "sweep" /\ Fault
    /\ IF a \in Opener THEN Goto(a, "idle") /\ UNCHANGED work ELSE Leave(a, FALSE)
    /\ UNCHANGED <<trees, lock, player>>

\* an IOException inside recover(): the worker fails, an activity shrugs
RecoverFail(a) ==
    /\ pc[a] = "sweep" /\ Fault
    /\ lock' = None
    /\ IF a \in Opener THEN Goto(a, "idle") /\ UNCHANGED work ELSE Leave(a, FALSE)
    /\ UNCHANGED <<trees, player>>

\* the chooser refreshes, or the game is launched
Open(o) ==
    /\ pc[o] = "idle"
    /\ Goto(o, "recover")
    /\ UNCHANGED <<trees, lock, work, player, faults>>
-----------------------------------------------------------------------------
(* WorkManager, and the worker up to the transaction *)

Enqueue(t) ==
    /\ current = None /\ t \notin used
    /\ current' = t /\ used' = used \cup {t}
    /\ UNCHANGED <<trees, lock, pc, token, stopped, player, faults>>

Executing == {e \in Exec : token[e] # None /\ e \notin stopped}

DoWork(e) ==
    /\ current # None /\ Executing = {} /\ token[e] = None
    /\ token' = [token EXCEPT ![e] = current]
    /\ Goto(e, "recover")
    /\ UNCHANGED <<trees, lock, current, used, stopped, player, faults>>

\* the player cancels (forget), or the network constraint is lost for a while
Stop(forget) ==
    /\ current # None
    /\ stopped' = stopped \cup Executing
    /\ current' = IF forget THEN None ELSE current
    /\ UNCHANGED <<trees, lock, pc, token, used, player, faults>>

\* version check, space preflight and download: go on, retry later, or fail
Download(e) ==
    /\ pc[e] = "download"
    /\ \/ Goto(e, "verify") /\ UNCHANGED work
       \/ \E again \in BOOLEAN : Leave(e, again)
    /\ UNCHANGED <<trees, lock, player, faults>>

\* the archive is verified again, then the lease is taken; both may refuse
TakeLease(e) ==
    /\ pc[e] = "verify"
    /\ \/ lock = None /\ lock' = e /\ Goto(e, "stage") /\ UNCHANGED work
       \/ Leave(e, FALSE) /\ UNCHANGED lock
    /\ UNCHANGED <<trees, player, faults>>
-----------------------------------------------------------------------------
(* installLocked *)

\* createDirectory refuses a staging tree that is already there
Stage(e) ==
    /\ pc[e] = "stage"
    /\ IF staging[token[e]] = Absent
       THEN /\ staging' = [staging EXCEPT ![token[e]] = FreshTree]
            /\ Goto(e, "extract") /\ UNCHANGED <<lock, work>>
       ELSE lock' = None /\ Leave(e, FALSE) /\ UNCHANGED staging
    /\ UNCHANGED <<installed, rollback, player, faults>>

\* fault: an incomplete extraction is not told from a complete one
ExtractUnchecked(e) ==
    /\ pc[e] = "extract"
    /\ Goto(e, "copy")
    /\ UNCHANGED <<trees, lock, work, player, faults>>

\* extraction and validation: complete, or cancelled, corrupt or out of space
Extract(e) ==
    /\ pc[e] = "extract"
    /\ \/ /\ staging[token[e]] # Absent
          /\ staging' = [staging EXCEPT ![token[e]].whole = TRUE]
          /\ Goto(e, "copy")
       \/ Goto(e, "discard") /\ UNCHANGED staging
    /\ UNCHANGED <<installed, rollback, lock, work, player, faults>>

\* what activateValidatedStaging refuses before it touches anything
Refused(e) == staging[token[e]] = Absent \/ rollback[token[e]] # Absent

\* fault: replacement without preserveRedirectedSaves
CopyNothing(e) ==
    /\ pc[e] = "copy" /\ ~ Refused(e) /\ installed # Absent
    /\ Goto(e, "moveOld")
    /\ UNCHANGED <<trees, lock, work, player, faults>>

\* preserveRedirectedSaves, when there is a pack to preserve them from
CopySaves(e) ==
    /\ pc[e] = "copy" /\ ~ Refused(e) /\ installed # Absent
    /\ \/ /\ staging' = [staging EXCEPT ![token[e]].saves = @ \cup installed.saves]
          /\ Goto(e, "moveOld") /\ UNCHANGED faults
          /\ late' = late \ installed.saves
       \/ Fault /\ Goto(e, "discard") /\ UNCHANGED <<staging, late>>
    /\ UNCHANGED <<installed, rollback, lock, work, playing, saved, torn>>

CopyNone(e) ==
    /\ pc[e] = "copy" /\ (Refused(e) \/ installed = Absent)
    /\ Goto(e, IF Refused(e) THEN "discard" ELSE "moveFirst")
    /\ UNCHANGED <<trees, lock, work, player, faults>>

MoveOld(e) ==
    /\ pc[e] = "moveOld"
    /\ \/ /\ rollback' = [rollback EXCEPT ![token[e]] = installed]
          /\ installed' = Absent
          /\ Goto(e, "moveNew") /\ UNCHANGED faults
       \/ Fault /\ Goto(e, "discard") /\ UNCHANGED <<rollback, installed>>
    /\ UNCHANGED <<staging, lock, work, player>>

\* a rename to the active name fails, as it does where a directory that is not
\* empty has that name
MoveFails == Fault \/ (installed # Absent /\ UNCHANGED faults)

\* staging gets the active name: in the old pack's place, or as the first one
MoveNew(e) ==
    /\ pc[e] \in {"moveNew", "moveFirst"}
    /\ \/ /\ installed = Absent /\ installed' = staging[token[e]]
          /\ staging' = [staging EXCEPT ![token[e]] = Absent]
          /\ Goto(e, IF pc[e] = "moveNew" THEN "unlink" ELSE "root")
          /\ lock' = IF pc[e] = "moveNew" THEN lock ELSE None
          /\ UNCHANGED faults
       \/ /\ MoveFails
          /\ Goto(e, IF pc[e] = "moveNew" THEN "restore" ELSE "discard")
          /\ UNCHANGED <<installed, staging, lock>>
    /\ UNCHANGED <<rollback, work, player>>

\* the second move failed: put the old pack back, or leave it to recovery
Restore(e) ==
    /\ pc[e] = "restore"
    /\ \/ /\ installed = Absent /\ installed' = rollback[token[e]]
          /\ rollback' = [rollback EXCEPT ![token[e]] = Absent]
          /\ UNCHANGED faults
       \/ /\ MoveFails
          /\ UNCHANGED <<installed, rollback>>
    /\ Goto(e, "discard")
    /\ UNCHANGED <<staging, lock, work, player>>

\* deleteTree half done: files go one by one
Gutted(tree) == [tree EXCEPT !.whole = FALSE, !.saves = {}]

\* deleteTree(rollback): a failure ends it early
Unlink(e) ==
    /\ pc[e] = "unlink"
    /\ \/ /\ rollback' = [rollback EXCEPT ![token[e]] = Gutted(@)]
          /\ Goto(e, "unlinkRest") /\ UNCHANGED faults
       \/ Fault /\ Goto(e, "discard") /\ UNCHANGED rollback
    /\ UNCHANGED <<installed, staging, lock, work, player>>

UnlinkRest(e) ==
    /\ pc[e] = "unlinkRest"
    /\ \/ /\ rollback' = [rollback EXCEPT ![token[e]] = Absent]
          /\ lock' = None
          /\ Goto(e, "root") /\ UNCHANGED faults
       \/ Fault /\ Goto(e, "discard") /\ UNCHANGED <<rollback, lock>>
    /\ UNCHANGED <<installed, staging, work, player>>

\* not activated: discardStagingDirectory, whose own failure is ignored
Discard(e) ==
    /\ pc[e] = "discard"
    /\ \/ staging' = [staging EXCEPT ![token[e]] = Absent] /\ UNCHANGED faults
       \/ Fault /\ UNCHANGED staging
    /\ lock' = None
    /\ Leave(e, FALSE)
    /\ UNCHANGED <<installed, rollback, player>>

\* ensureRetroRewindRoot, the archive's removal and the report
Report(e) ==
    /\ pc[e] = "root"
    /\ Leave(e, FALSE)
    /\ UNCHANGED <<trees, lock, player, faults>>
-----------------------------------------------------------------------------
(* The player and the processes *)

Ready == installed # Absent /\ installed.pack = "new" /\ installed.whole

\* the chooser has validated the pack: from now on the game may run, and save
Launch ==
    /\ Ready /\ ~ playing
    /\ playing' = TRUE
    /\ UNCHANGED <<trees, lock, pc, work, saved, late, torn, faults>>

\* executions that have begun to copy the saves and not yet moved their pack
Copying == {e \in Exec : pc[e] = "moveOld"}

\* a save under the active name, where the walk that copies the saves may still
\* meet it, or may have passed
Play ==
    /\ playing /\ installed # Absent
    /\ \E s \in Save \ saved :
        /\ saved' = saved \cup {s}
        /\ installed' = [installed EXCEPT !.saves = @ \cup {s}]
        /\ late' = IF Copying # {} THEN late \cup {s} ELSE late
        /\ \/ UNCHANGED staging
           \/ \E e \in Copying :
                staging' = [staging EXCEPT ![token[e]].saves = @ \cup {s}]
    /\ UNCHANGED <<rollback, lock, pc, work, playing, torn, faults>>

\* a save while nothing has the active name: the parents of the file are created
PlayTorn ==
    /\ playing /\ installed = Absent
    /\ \E s \in Save \ saved :
        /\ saved' = saved \cup {s}
        /\ installed' = StubTree(s)
    /\ torn' = TRUE
    /\ UNCHANGED <<staging, rollback, lock, pc, work, playing, late, faults>>

\* a process dies: the lease it holds is free, its executions are forgotten
Die(killed) ==
    /\ Fault
    /\ pc' = [a \in Actor |-> IF a \in killed THEN "idle" ELSE pc[a]]
    /\ lock' = IF lock \in killed THEN None ELSE lock
    /\ token' = [e \in Exec |-> IF e \in killed THEN None ELSE token[e]]
    /\ stopped' = stopped \ killed
    /\ UNCHANGED <<trees, current, used, saved, late, torn>>

\* the main process, with the game in it, or the chooser's
Crash ==
    \/ Die(Actor \ Launcher) /\ playing' = FALSE
    \/ Die(Launcher) /\ UNCHANGED playing
-----------------------------------------------------------------------------
Recover(a) == RecoverStart(a) \/ RecoverSweep(a) \/ RecoverFinish(a) \/ RecoverFail(a)

Install(e) ==
    \/ Stage(e) \/ Extract(e) \/ CopySaves(e) \/ CopyNone(e)
    \/ MoveOld(e) \/ MoveNew(e) \/ Restore(e)
    \/ Unlink(e) \/ UnlinkRest(e) \/ Discard(e) \/ Report(e)

Next ==
    \/ \E a \in Actor : Recover(a)
    \/ \E o \in Opener : Open(o)
    \/ \E t \in Token : Enqueue(t)
    \/ \E e \in Exec : DoWork(e) \/ Download(e) \/ TakeLease(e) \/ Install(e)
    \/ \E forget \in BOOLEAN : Stop(forget)
    \/ Launch \/ Play \/ PlayTorn \/ Crash

Spec == Init /\ [][Next]_vars

\* code that has started runs on, and the chooser is opened again and again
Fairness ==
    /\ \A a \in Actor : WF_vars(Recover(a))
    /\ \A e \in Exec : WF_vars(Download(e)) /\ WF_vars(TakeLease(e) \/ Install(e))
    /\ \A o \in Opener : WF_vars(Open(o))
FairSpec == Spec /\ Fairness
-----------------------------------------------------------------------------
(***************************************************************************)
(* Whatever was interrupted, and whatever the game saved meanwhile, a pack *)
(* under the active name has all its files: never one half extracted and   *)
(* never one half deleted.  What a save in the gap leaves is no pack.      *)
(***************************************************************************)
ActiveIsWhole == installed # Absent => installed.whole \/ installed.pack = "stub"

Kept(tree) == IF tree = Absent THEN {} ELSE tree.saves

(***************************************************************************)
(* The only saves that can be gone are those made between the copy of a    *)
(* pack's saves and its move aside: every other one is in the active tree  *)
(* or in a rollback, at every instant of every interrupted install.        *)
(***************************************************************************)
NothingLost ==
    \A s \in saved \ late : \/ s \in Kept(installed)
                            \/ \E t \in Token : s \in Kept(rollback[t])

(***************************************************************************)
(* A transaction's staging tree stays until the transaction itself moves   *)
(* or discards it: no recovery by an activity, by a later request or by a  *)
(* second execution of the same request sweeps it away.                    *)
(***************************************************************************)
LiveStagingKept ==
    \A e \in Exec : pc[e] \in Staged => lock = e /\ staging[token[e]] # Absent

(***************************************************************************)
(* When the pipeline reports success the new pack is the active one.       *)
(***************************************************************************)
SuccessMeansReady ==
    [][\A e \in Exec : pc[e] # "root" /\ pc'[e] = "root" => Ready']_vars

\* rollbacks that hold the old pack while it is being replaced, else all
SetAside ==
    LET moving == {token[e] : e \in {x \in Exec : pc[x] \in {"moveNew", "restore"}}}
    IN  IF moving # {} THEN moving ELSE Rollbacks

\* the active pack, or the one that would be put back
Effective ==
    IF installed # Absent \/ Rollbacks = {} THEN installed
    ELSE rollback[CHOOSE t \in SetAside : TRUE]

\* the saves of the replacement that is under way
Replacing == {e \in Exec : pc[e] \in {"moveOld", "moveNew", "moveFirst", "restore"}}
Copied ==
    IF Replacing = {} THEN None ELSE staging[token[CHOOSE e \in Replacing : TRUE]].saves

Promise == INSTANCE RetroPack WITH
    pack <- IF Effective = Absent THEN "none" ELSE Effective.pack,
    saves <- IF Effective = Absent THEN {} ELSE Effective.saves,
    copied <- Copied

(***************************************************************************)
(* Every step of the transaction, the recovery and the crashes is, seen    *)
(* from the pack that is active or would be restored, one replacement with *)
(* the saves copied for it, one save by the player, or nothing at all: no  *)
(* step loses or forks progress but for what was saved since the copying   *)
(* began, until a save falls in the gap between the two moves.             *)
(***************************************************************************)
ReplacesAtomically == Promise!Spec

(***************************************************************************)
(* A restoration that fails leaves the old pack where the next recovery    *)
(* restores it (docs: it "remains recoverable on the next startup").       *)
(***************************************************************************)
FailedRestoreRecoverable ==
    [][\A e \in Exec : Restore(e) /\ installed' = Absent => ~ Ambiguous']_vars

(***************************************************************************)
(* The lease is never kept for good, whatever fails while it is held.      *)
(***************************************************************************)
LeaseReturned == \A a \in Actor : lock = a ~> lock # a

(***************************************************************************)
(* A pack set aside by an interrupted install comes back by itself, unless *)
(* the running game saves before it does.                                  *)
(***************************************************************************)
PackComesBack == installed = Absent /\ Rollbacks # {} ~> (torn \/ installed # Absent)
=============================================================================
