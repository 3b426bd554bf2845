------------------------- MODULE RetroInstallProofs -------------------------
(***************************************************************************)
(* The safety of the install transaction, for any number of requests,      *)
(* executions, activities, saves and faults; and, for any number of them   *)
(* but a single fault, that it implements RetroPack.                       *)
(***************************************************************************)
EXTENDS RetroInstall, TLAPS

Holder == \A a \in Actor : pc[a] \in Locked => lock = a

Owned(e) == staging[token[e]]
Behind(e) == rollback[token[e]]

\* what an execution inside the lease knows about the trees, step by step
At(e) ==
    /\ pc[e] \in Staged => Owned(e) # Absent
    /\ pc[e] \in Staged \ {"extract"} => Owned(e).whole
    /\ pc[e] \in {"moveFirst", "moveNew", "restore"} => torn \/ installed = Absent
    /\ pc[e] = "moveOld" => /\ installed # Absent /\ Behind(e) = Absent
                            /\ installed.saves \subseteq Owned(e).saves \cup late
    /\ pc[e] \in {"moveNew", "restore"} =>
            /\ Behind(e) # Absent /\ (Behind(e).whole \/ Behind(e).pack = "stub")
            /\ Behind(e).saves \subseteq Owned(e).saves \cup late
    /\ pc[e] \in {"unlink", "unlinkRest"} =>
            installed # Absent /\ installed.whole /\ Behind(e) # Absent
    /\ pc[e] = "unlink" => Behind(e).saves \subseteq installed.saves \cup late
    /\ pc[e] = "unlinkRest" => Behind(e).saves = {}

TreeInv == \A e \in Exec : At(e)

\* a half deleted rollback is never the only tree there is
PartialInv == \A t \in Token :
    rollback[t] # Absent /\ ~ rollback[t].whole =>
        \/ installed # Absent
        \/ \E u \in Token \ {t} : rollback[u] # Absent

\* where the game runs without a pack, or on what a save in the gap has left,
\* a pack is set aside
GapInv ==
    \/ ~ playing /\ installed = Absent
    \/ installed # Absent /\ installed.whole
    \/ Rollbacks # {}

PackInv == PartialInv /\ GapInv /\ ActiveIsWhole /\ NothingLost
Inv == TypeOK /\ Holder /\ TreeInv /\ PackInv
-----------------------------------------------------------------------------
(***************************************************************************)
(* An execution that returns leaves WorkManager's state and the program    *)
(* counters well typed.                                                    *)
(***************************************************************************)
LEMMA LeaveType ==
    ASSUME TypeOK, NEW e \in Exec, NEW again \in BOOLEAN, Leave(e, again)
    PROVE  /\ pc' \in [Actor -> Step]
           /\ token' \in [Exec -> Token \cup {None}]
           /\ current' \in Token \cup {None}
           /\ used' \subseteq Token
           /\ stopped' \subseteq Exec
           /\ \A o \in Opener : pc'[o] \in {"idle", "recover", "sweep"}
           /\ \A x \in Exec : pc'[x] = "idle" <=> token'[x] = None
BY InstallAssumption DEF InstallAssumption, TypeOK, Leave, Goto, Step, Actor

LEMMA AfterRecoverType ==
    ASSUME TypeOK, NEW a \in Actor, pc[a] \in {"recover", "sweep"}, AfterRecover(a)
    PROVE  /\ pc' \in [Actor -> Step]
           /\ \A o \in Opener : pc'[o] \in {"idle", "recover", "sweep"}
           /\ \A x \in Exec : pc'[x] = "idle" <=> token[x] = None
BY InstallAssumption
DEF InstallAssumption, TypeOK, AfterRecover, Goto, Step, Actor

LEMMA GotoType ==
    ASSUME TypeOK, NEW e \in Exec, pc[e] # "idle",
           NEW s \in Step \ {"idle"}, Goto(e, s)
    PROVE  /\ pc' \in [Actor -> Step]
           /\ \A o \in Opener : pc'[o] \in {"idle", "recover", "sweep"}
           /\ \A x \in Exec : pc'[x] = "idle" <=> token[x] = None
BY InstallAssumption DEF InstallAssumption, TypeOK, Goto, Actor

LEMMA FaultType == ASSUME TypeOK, Fault PROVE faults' \in 0..MaxFaults
BY InstallAssumption DEF InstallAssumption, TypeOK, Fault

LEMMA TypeOKInit == Init => TypeOK
<1>1. OldTree \in Tree
  BY InstallAssumption DEF InstallAssumption, OldTree, Tree
<1>2. 0 \in 0..MaxFaults
  BY InstallAssumption DEF InstallAssumption
<1> QED BY <1>1, <1>2, InstallAssumption
        DEF InstallAssumption, Init, TypeOK, Step, Actor

LEMMA RecoverTypeOK ==
    ASSUME TypeOK, NEW a \in Actor, Recover(a) PROVE TypeOK'
<1> USE DEF trees, work, player
<1>1. CASE RecoverStart(a)
  <2>1. CASE AfterRecover(a) /\ UNCHANGED lock
    BY <1>1, <2>1, AfterRecoverType DEF TypeOK, RecoverStart
  <2>2. CASE lock' = a /\ Goto(a, "sweep")
    BY <1>1, <2>2, InstallAssumption
    DEF InstallAssumption, TypeOK, RecoverStart, Goto, Actor, Step, Locked
  <2> QED BY <1>1, <2>1, <2>2 DEF RecoverStart
<1>2. CASE RecoverSweep(a)
  BY <1>2 DEF TypeOK, RecoverSweep
<1>3. CASE RecoverFinish(a)
  <2>1. installed' \in Tree \cup {Absent} /\ rollback' \in [Token -> Tree \cup {Absent}]
    BY <1>3 DEF TypeOK, RecoverFinish, Rollbacks
  <2> QED BY <1>3, <2>1, AfterRecoverType DEF TypeOK, RecoverFinish
<1>4. CASE RecoverFail(a)
  <2>1. CASE a \in Opener
    BY <1>4, <2>1, FaultType, InstallAssumption
    DEF InstallAssumption, TypeOK, RecoverFail, Goto, Actor, Step
  <2>2. CASE a \notin Opener
    <3>1. a \in Exec /\ Leave(a, FALSE)
      BY <1>4, <2>2 DEF RecoverFail, Actor
    <3> QED BY <1>4, <3>1, LeaveType, FaultType DEF TypeOK, RecoverFail
  <2> QED BY <2>1, <2>2
<1> QED BY <1>1, <1>2, <1>3, <1>4 DEF Recover

\* a tree stays a tree when its files or its saves change
LEMMA TreeEdit ==
    ASSUME NEW tree \in Tree
    PROVE  /\ [tree EXCEPT !.whole = TRUE] \in Tree
           /\ Gutted(tree) \in Tree
BY DEF Tree, Gutted

LEMMA InstallTypeOK ==
    ASSUME TypeOK, TreeInv, NEW e \in Exec,
           DoWork(e) \/ Download(e) \/ TakeLease(e) \/ Install(e)
    PROVE  TypeOK'
<1> USE DEF trees, work, player
<1>a. e \in Actor /\ {"recover", "download", "verify", "root"} \cup Locked \subseteq Step
  BY DEF Actor, Step
<1>b. "idle" \notin {"recover", "download", "verify", "root"} \cup Locked
  BY DEF Locked, Staged
<1>1. CASE DoWork(e)
  BY <1>1, <1>a, InstallAssumption
  DEF InstallAssumption, TypeOK, DoWork, Goto, Actor
<1>2. CASE Download(e)
  <2>1. CASE Goto(e, "verify") /\ UNCHANGED work
    BY <1>2, <2>1, <1>a, <1>b, GotoType DEF TypeOK, Download
  <2>2. ASSUME NEW again \in BOOLEAN, Leave(e, again) PROVE TypeOK'
    BY <1>2, <2>2, LeaveType DEF TypeOK, Download
  <2> QED BY <1>2, <2>1, <2>2 DEF Download
<1>3. CASE TakeLease(e)
  <2>1. CASE lock' = e /\ Goto(e, "stage") /\ UNCHANGED work
    BY <1>3, <2>1, <1>a, <1>b, GotoType DEF TypeOK, TakeLease, Locked
  <2>2. CASE Leave(e, FALSE) /\ UNCHANGED lock
    BY <1>3, <2>2, LeaveType DEF TypeOK, TakeLease
  <2> QED BY <1>3, <2>1, <2>2 DEF TakeLease
<1>4. CASE Stage(e)
  <2>1. CASE staging[token[e]] = Absent
    <3>1. FreshTree \in Tree
      BY DEF FreshTree, Tree
    <3> QED BY <1>4, <2>1, <3>1, <1>a, <1>b, GotoType
            DEF TypeOK, Stage, Locked, Staged
  <2>2. CASE staging[token[e]] # Absent
    BY <1>4, <2>2, LeaveType DEF TypeOK, Stage
  <2> QED BY <2>1, <2>2
<1>5. CASE Extract(e)
  <2>1. token[e] \in Token
    BY <1>5 DEF TypeOK, Extract
  <2>2. CASE Goto(e, "discard") /\ UNCHANGED staging
    BY <1>5, <2>2, <1>a, <1>b, GotoType DEF TypeOK, Extract, Locked
  <2>3. CASE Goto(e, "copy") /\ staging[token[e]] # Absent
             /\ staging' = [staging EXCEPT ![token[e]].whole = TRUE]
    <3>1. [staging[token[e]] EXCEPT !.whole = TRUE] \in Tree
      BY <2>1, <2>3, TreeEdit DEF TypeOK
    <3>2. staging' \in [Token -> Tree \cup {Absent}]
      BY <2>1, <2>3, <3>1 DEF TypeOK
    <3> QED BY <1>5, <2>3, <3>2, <1>a, <1>b, GotoType DEF TypeOK, Extract, Locked, Staged
  <2> QED BY <1>5, <2>2, <2>3 DEF Extract
<1>6. CASE CopySaves(e)
  <2>1. staging' \in [Token -> Tree \cup {Absent}]
    BY <1>6 DEF TypeOK, CopySaves, Refused, Tree
  <2>2. faults' \in 0..MaxFaults
    BY <1>6, FaultType DEF TypeOK, CopySaves
  <2>3. UNCHANGED <<playing, saved, torn>> /\ late' \subseteq saved'
    BY <1>6 DEF TypeOK, CopySaves
  <2> QED BY <1>6, <2>1, <2>2, <2>3, <1>a, <1>b, GotoType
          DEF TypeOK, CopySaves, Locked, Staged
<1>7. CASE CopyNone(e)
  BY <1>7, <1>a, <1>b, GotoType DEF TypeOK, CopyNone, Locked, Staged
<1>8. CASE MoveOld(e)
  <2>1. faults' \in 0..MaxFaults
    BY <1>8, FaultType DEF TypeOK, MoveOld
  <2> QED BY <1>8, <2>1, <1>a, <1>b, GotoType DEF TypeOK, MoveOld, Locked, Staged
<1>9. CASE MoveNew(e)
  <2>1. faults' \in 0..MaxFaults
    BY <1>9, FaultType DEF TypeOK, MoveNew, MoveFails
  <2>2. token[e] \in Token
    BY <1>9 DEF TypeOK, MoveNew
  <2>3. lock' \in Actor \cup {None}
    BY <1>9 DEF TypeOK, MoveNew
  <2>4. PICK s \in Step \ {"idle"} : Goto(e, s)
    BY <1>9, <1>a, <1>b DEF MoveNew, Locked, Staged
  <2>5. installed' \in Tree \cup {Absent} /\ staging' \in [Token -> Tree \cup {Absent}]
    BY <1>9, <2>2 DEF TypeOK, MoveNew
  <2> QED BY <1>9, <2>1, <2>3, <2>4, <2>5, GotoType DEF TypeOK, MoveNew
<1>10. CASE Restore(e)
  <2>1. faults' \in 0..MaxFaults
    BY <1>10, FaultType DEF TypeOK, Restore, MoveFails
  <2>2. installed' \in Tree \cup {Absent} /\ rollback' \in [Token -> Tree \cup {Absent}]
    BY <1>10 DEF TypeOK, Restore
  <2> QED BY <1>10, <2>1, <2>2, <1>a, <1>b, GotoType DEF TypeOK, Restore, Locked, Staged
<1>11. CASE Unlink(e)
  <2>1. faults' \in 0..MaxFaults
    BY <1>11, FaultType DEF TypeOK, Unlink
  <2>2. token[e] \in Token /\ rollback[token[e]] \in Tree
    BY <1>11 DEF TypeOK, Unlink, TreeInv, At, Behind
  <2>3. Gutted(rollback[token[e]]) \in Tree
    BY <2>2, TreeEdit
  <2>4. rollback' \in [Token -> Tree \cup {Absent}]
    <3>1. rollback \in [Token -> Tree \cup {Absent}]
      BY DEF TypeOK
    <3>2. CASE rollback' = [rollback EXCEPT ![token[e]] = Gutted(rollback[token[e]])]
      BY <2>2, <2>3, <3>1, <3>2
    <3>3. CASE UNCHANGED rollback
      BY <3>1, <3>3
    <3> QED BY <1>11, <3>2, <3>3 DEF Unlink
  <2> QED BY <1>11, <2>1, <2>4, <1>a, <1>b, GotoType DEF TypeOK, Unlink, Locked, Staged
<1>12. CASE UnlinkRest(e)
  <2>1. faults' \in 0..MaxFaults
    BY <1>12, FaultType DEF TypeOK, UnlinkRest
  <2> QED BY <1>12, <2>1, <1>a, <1>b, GotoType DEF TypeOK, UnlinkRest, Locked, Staged
<1>13. CASE Discard(e)
  <2>1. faults' \in 0..MaxFaults
    BY <1>13, FaultType DEF TypeOK, Discard
  <2> QED BY <1>13, <2>1, LeaveType DEF TypeOK, Discard
<1>14. CASE Report(e)
  BY <1>14, LeaveType DEF TypeOK, Report
<1> QED BY <1>1, <1>2, <1>3, <1>4, <1>5, <1>6, <1>7, <1>8, <1>9, <1>10,
           <1>11, <1>12, <1>13, <1>14 DEF Install

\* a tree gains a save: the same tree, with one more save
LEMMA TreeGains ==
    ASSUME NEW tree \in Tree, NEW s \in Save
    PROVE  /\ [tree EXCEPT !.saves = @ \cup {s}] \in Tree
           /\ [tree EXCEPT !.saves = @ \cup {s}] # Absent
           /\ [tree EXCEPT !.saves = @ \cup {s}].saves = tree.saves \cup {s}
           /\ [tree EXCEPT !.saves = @ \cup {s}].whole = tree.whole
           /\ [tree EXCEPT !.saves = @ \cup {s}].pack = tree.pack
<1>1. [tree EXCEPT !.saves = @ \cup {s}] \in Tree
  BY DEF Tree
<1> QED BY <1>1, AbsentAssumption DEF Tree

LEMMA StubIs ==
    ASSUME NEW s \in Save
    PROVE  /\ StubTree(s) \in Tree /\ StubTree(s) # Absent
           /\ StubTree(s).saves = {s} /\ StubTree(s).pack = "stub"
<1>1. StubTree(s) \in Tree
  BY DEF StubTree, Tree
<1> QED BY <1>1, AbsentAssumption DEF StubTree

(***************************************************************************)
(* A save under the active name, said tree by tree.                        *)
(***************************************************************************)
Gains(tree, new, s) ==
    /\ new \in Tree /\ new # Absent
    /\ new.saves = tree.saves \cup {s}
    /\ new.whole = tree.whole /\ new.pack = tree.pack

PlaySays(s) ==
    /\ s \notin saved /\ saved' = saved \cup {s}
    /\ installed # Absent /\ Gains(installed, installed', s)
    /\ late' = IF Copying # {} THEN late \cup {s} ELSE late
    /\ \A t \in Token :
         \/ staging'[t] = staging[t]
         \/ /\ \E e \in Copying : t = token[e]
            /\ staging[t] # Absent /\ Gains(staging[t], staging'[t], s)
    /\ staging' \in [Token -> Tree \cup {Absent}]
    /\ UNCHANGED <<rollback, lock, pc, work, playing, torn, faults>>

LEMMA PlayIs ==
    ASSUME TypeOK, TreeInv, Play
    PROVE  \E s \in Save : PlaySays(s)
<1>1. PICK s \in Save \ saved :
        /\ saved' = saved \cup {s}
        /\ installed' = [installed EXCEPT !.saves = @ \cup {s}]
        /\ late' = IF Copying # {} THEN late \cup {s} ELSE late
        /\ \/ UNCHANGED staging
           \/ \E e \in Copying :
                staging' = [staging EXCEPT ![token[e]].saves = @ \cup {s}]
  BY DEF Play
<1>2. installed # Absent /\ UNCHANGED <<rollback, lock, pc, work, playing, torn, faults>>
  BY DEF Play, work
<1>3. installed \in Tree
  BY <1>2 DEF TypeOK
<1>4. Gains(installed, installed', s)
  BY <1>1, <1>3, TreeGains DEF Gains
<1>5. CASE UNCHANGED staging
  BY <1>1, <1>2, <1>4, <1>5 DEF PlaySays, TypeOK
<1>6. ASSUME NEW e \in Copying, staging' = [staging EXCEPT ![token[e]].saves = @ \cup {s}]
      PROVE  PlaySays(s)
  <2>1. e \in Exec /\ pc[e] = "moveOld"
    BY <1>6 DEF Copying
  <2>2. token[e] \in Token
    BY <2>1 DEF TypeOK
  <2>3. staging[token[e]] \in Tree /\ staging[token[e]] # Absent
    BY <2>1, <2>2 DEF TypeOK, TreeInv, At, Owned, Staged
  <2> DEFINE new == [staging[token[e]] EXCEPT !.saves = @ \cup {s}]
  <2>4. Gains(staging[token[e]], new, s)
    BY <2>3, TreeGains DEF Gains
  <2>5. staging' = [staging EXCEPT ![token[e]] = new]
    BY <1>6
  <2> HIDE DEF new
  <2>6. /\ staging'[token[e]] = new
        /\ \A t \in Token \ {token[e]} : staging'[t] = staging[t]
        /\ staging' \in [Token -> Tree \cup {Absent}]
    BY <2>2, <2>4, <2>5 DEF TypeOK, Gains
  <2> QED BY <1>1, <1>2, <1>4, <2>3, <2>4, <2>6 DEF PlaySays
<1> QED BY <1>1, <1>5, <1>6

LEMMA PlayerTypeOK ==
    ASSUME TypeOK, TreeInv, Launch \/ Play \/ PlayTorn PROVE TypeOK'
<1> USE DEF trees, work, player
<1>1. CASE Launch
  BY <1>1 DEF TypeOK, Launch
<1>2. CASE Play
  <2>1. PICK s \in Save : PlaySays(s)
    BY <1>2, PlayIs
  <2>2. installed' \in Tree /\ late' \subseteq saved' /\ saved' \subseteq Save
    BY <2>1 DEF TypeOK, PlaySays, Gains
  <2> QED BY <2>1, <2>2 DEF TypeOK, PlaySays
<1>3. CASE PlayTorn
  <2>1. PICK s \in Save : saved' = saved \cup {s} /\ installed' = StubTree(s)
    BY <1>3 DEF PlayTorn
  <2>2. installed' \in Tree /\ late' \subseteq saved' /\ saved' \subseteq Save
    BY <1>3, <2>1, StubIs DEF TypeOK, PlayTorn
  <2> QED BY <1>3, <2>2 DEF TypeOK, PlayTorn
<1> QED BY <1>1, <1>2, <1>3

LEMMA TypeOKStep == TypeOK /\ TreeInv /\ [Next]_vars => TypeOK'
<1> SUFFICES ASSUME TypeOK, TreeInv, [Next]_vars PROVE TypeOK'
  OBVIOUS
<1> USE DEF trees, work, player
<1>1. ASSUME NEW a \in Actor, Recover(a) PROVE TypeOK'
  BY <1>1, RecoverTypeOK
<1>2. ASSUME NEW o \in Opener, Open(o) PROVE TypeOK'
  BY <1>2, InstallAssumption
  DEF InstallAssumption, TypeOK, Open, Goto, Actor, Step
<1>3. ASSUME NEW t \in Token, Enqueue(t) PROVE TypeOK'
  BY <1>3 DEF TypeOK, Enqueue
<1>4. ASSUME NEW e \in Exec, DoWork(e) \/ Download(e) \/ TakeLease(e) \/ Install(e)
      PROVE  TypeOK'
  BY <1>4, InstallTypeOK
<1>5. ASSUME NEW forget \in BOOLEAN, Stop(forget) PROVE TypeOK'
  BY <1>5 DEF TypeOK, Stop, Executing
<1>6. CASE Launch \/ Play \/ PlayTorn
  BY <1>6, PlayerTypeOK
<1>7. ASSUME NEW killed \in SUBSET Actor, Die(killed), playing' \in BOOLEAN
      PROVE  TypeOK'
  BY <1>7, FaultType DEF TypeOK, Die, Step, Actor
<1>8. CASE UNCHANGED vars
  BY <1>8 DEF TypeOK, vars
<1>9. Launcher \subseteq Actor
  BY InstallAssumption DEF InstallAssumption, Actor
<1>10. CASE Crash
  <2>1. PICK killed \in SUBSET Actor : Die(killed)
    BY <1>9, <1>10 DEF Crash
  <2>2. playing' \in BOOLEAN
    BY <1>10 DEF TypeOK, Crash
  <2> QED BY <2>1, <2>2, <1>7
<1> QED BY <1>1, <1>2, <1>3, <1>4, <1>5, <1>6, <1>8, <1>10 DEF Next
-----------------------------------------------------------------------------
(***************************************************************************)
(* One actor at a time is inside the lease.                                *)
(***************************************************************************)
LEMMA Alone ==
    ASSUME Holder, NEW a \in Actor, pc[a] \in Locked
    PROVE  lock = a /\ \A x \in Actor \ {a} : pc[x] \notin Locked
BY DEF Holder

(***************************************************************************)
(* A step of the lease's holder e keeps the lease exclusive, and then only *)
(* what e knows about the trees remains to be shown.                       *)
(***************************************************************************)
LEMMA HolderMoves ==
    ASSUME TypeOK, Holder, NEW e \in Exec, pc[e] \in Locked,
           NEW s \in Step, Goto(e, s), s \in Locked => lock' = e
    PROVE  /\ Holder' /\ pc'[e] = s
           /\ At(e)' => TreeInv'
<1>1. e \in Actor /\ pc'[e] = s /\ \A x \in Actor \ {e} : pc'[x] = pc[x]
  BY DEF TypeOK, Goto, Actor
<1>2. \A x \in Actor \ {e} : pc'[x] \notin Locked
  BY <1>1, Alone
<1>3. Holder'
  BY <1>1, <1>2 DEF Holder
<1>4. \A x \in Exec \ {e} : At(x)'
  BY <1>2 DEF At, Locked, Staged, Actor
<1> QED BY <1>1, <1>3, <1>4 DEF TreeInv

(***************************************************************************)
(* A step that leaves the trees and the saves alone, and takes nobody      *)
(* further into the transaction, keeps what is known about them.           *)
(***************************************************************************)
LEMMA TreesKept ==
    ASSUME TreeInv, PackInv, UNCHANGED <<trees, saved, late, torn>>,
           playing' => playing \/ Ready,
           \A x \in Exec : pc'[x] \in Locked \ {"stage", "discard"} =>
                               pc'[x] = pc[x] /\ token'[x] = token[x]
    PROVE  TreeInv' /\ PackInv'
<1>1. ASSUME NEW x \in Exec PROVE At(x)'
  <2>1. CASE pc'[x] \in Locked \ {"stage", "discard"}
    <3>1. At(x) /\ pc'[x] = pc[x] /\ token'[x] = token[x]
      BY <2>1 DEF TreeInv
    <3>2. UNCHANGED <<installed, staging, rollback>>
      BY DEF trees
    <3> QED BY <3>1, <3>2 DEF At, Owned, Behind
  <2>2. CASE pc'[x] \notin Locked \ {"stage", "discard"}
    BY <2>2 DEF At, Locked, Staged
  <2> QED BY <2>1, <2>2
<1>2. PackInv'
  <2>1. PartialInv' /\ ActiveIsWhole' /\ NothingLost'
    BY DEF PackInv, PartialInv, ActiveIsWhole, NothingLost, Kept, trees
  <2>2. GapInv'
    BY DEF PackInv, GapInv, Ready, Rollbacks, trees
  <2> QED BY <2>1, <2>2 DEF PackInv
<1> QED BY <1>1, <1>2 DEF TreeInv

LEMMA InvInit == Init => Inv
<1> SUFFICES ASSUME Init PROVE Inv
  OBVIOUS
<1>1. Holder
  BY DEF Init, Holder, Locked, Staged
<1>2. TreeInv
  BY DEF Init, TreeInv, At, Locked, Staged, Actor
<1>3. PartialInv /\ GapInv /\ ActiveIsWhole
  BY DEF Init, PartialInv, GapInv, ActiveIsWhole, OldTree
<1>4. NothingLost
  <2>1. CASE saved = {}
    BY <2>1 DEF NothingLost
  <2>2. CASE installed = OldTree /\ saved = OldSave
    <3>1. OldTree \in Tree
      BY InstallAssumption DEF InstallAssumption, OldTree, Tree
    <3>2. OldTree # Absent /\ OldTree.whole /\ OldTree.saves = OldSave
      BY <3>1, AbsentAssumption DEF OldTree
    <3>3. Kept(installed) = saved
      BY <2>2, <3>2 DEF Kept
    <3> QED BY <3>3 DEF NothingLost
  <2> QED BY <2>1, <2>2 DEF Init
<1> QED BY <1>1, <1>2, <1>3, <1>4, TypeOKInit DEF Inv, PackInv

(***************************************************************************)
(* Recovery: only an unambiguous rollback, hence a whole one, is restored. *)
(***************************************************************************)
LEMMA RecoverInv ==
    ASSUME Inv, NEW a \in Actor, Recover(a)
    PROVE  Holder' /\ TreeInv' /\ PackInv'
<1>1. \A x \in Exec : x \in Actor
  BY DEF Actor
<1>2. CASE RecoverStart(a)
  <2>1. \A x \in Actor \ {a} : pc'[x] = pc[x]
    BY <1>2 DEF Inv, TypeOK, RecoverStart, AfterRecover, Goto
  <2>2. /\ pc'[a] \in {"sweep", "idle", "download"}
        /\ pc'[a] = "sweep" => lock = None /\ lock' = a
        /\ pc'[a] # "sweep" => lock' = lock
    BY <1>2 DEF Inv, TypeOK, RecoverStart, AfterRecover, Goto
  <2>3. Holder'
    <3>1. ASSUME NEW x \in Actor \ {a}, pc'[x] \in Locked PROVE lock' = x
      <4>1. lock = x
        BY <2>1, <3>1 DEF Inv, Holder
      <4> QED BY <2>2, <4>1, InstallAssumption DEF InstallAssumption, Actor
    <3>2. pc'[a] \in Locked => lock' = a
      BY <2>2 DEF Locked, Staged
    <3> QED BY <3>1, <3>2 DEF Holder
  <2>4. \A x \in Exec : pc'[x] \in Locked \ {"sweep"} => pc'[x] = pc[x]
    BY <1>1, <2>1, <2>2 DEF Locked, Staged
  <2>5. TreeInv' /\ PackInv'
    <3>1. UNCHANGED <<installed, staging, rollback, token, playing, saved, late, torn>>
      BY <1>2 DEF RecoverStart, trees, work, player
    <3>2. ASSUME NEW x \in Exec PROVE At(x)'
      <4>1. CASE pc'[x] \in Locked \ {"sweep"}
        BY <2>4, <3>1, <4>1 DEF Inv, TreeInv, At, Owned, Behind
      <4>2. CASE pc'[x] \notin Locked \ {"sweep"}
        BY <4>2 DEF At, Locked, Staged
      <4> QED BY <4>1, <4>2
    <3>3. PackInv'
      BY <3>1 DEF Inv, PackInv, PartialInv, GapInv, ActiveIsWhole, NothingLost, Kept, Rollbacks
    <3> QED BY <3>2, <3>3 DEF TreeInv
  <2> QED BY <2>3, <2>5
<1>3. CASE pc[a] = "sweep" /\ ~ RecoverStart(a)
  <2>1. pc[a] \in Locked
    BY <1>3 DEF Locked
  <2>2. lock = a /\ \A x \in Actor \ {a} : pc[x] \notin Locked
    BY <2>1, Alone DEF Inv
  <2>3. \A x \in Actor \ {a} : pc'[x] = pc[x]
    BY <1>3 DEF Inv, TypeOK, Recover, RecoverSweep, RecoverFinish, RecoverFail,
                AfterRecover, Goto, Leave
  <2>4. pc'[a] \in {"sweep", "idle", "download"} /\ (pc'[a] = "sweep" => lock' = lock)
    BY <1>3 DEF Inv, TypeOK, Recover, RecoverSweep, RecoverFinish, RecoverFail,
                AfterRecover, Goto, Leave
  <2>5. \A x \in Actor : pc'[x] \in Locked => x = a /\ pc'[a] = "sweep"
    BY <2>2, <2>3, <2>4 DEF Locked, Staged
  <2>6. Holder'
    BY <2>2, <2>4, <2>5 DEF Holder
  <2>7. TreeInv'
    BY <1>1, <2>5 DEF TreeInv, At, Locked, Staged
  <2>8. PackInv'
    <3>0. UNCHANGED <<playing, saved, late>>
      BY <1>3 DEF Recover, RecoverSweep, RecoverFinish, RecoverFail, player
    <3>1. CASE UNCHANGED <<installed, rollback>>
      BY <3>0, <3>1
      DEF Inv, PackInv, PartialInv, GapInv, ActiveIsWhole, NothingLost, Kept, Rollbacks
    <3>2. CASE ~ UNCHANGED <<installed, rollback>>
      <4>1. RecoverFinish(a) /\ saved' = saved /\ late' = late
        BY <1>3, <3>0, <3>2 DEF Recover, RecoverSweep, RecoverFinish, RecoverFail, trees
      <4>2. PICK t \in Rollbacks : /\ installed = Absent
                                   /\ installed' = rollback[t]
                                   /\ rollback' = [rollback EXCEPT ![t] = Absent]
        BY <3>2, <4>1 DEF RecoverFinish
      <4>3. Rollbacks = {t}
        BY <3>2, <4>1, <4>2 DEF RecoverFinish, Ambiguous, Rollbacks
      <4>4. rollback[t].whole
        BY <4>2, <4>3 DEF Inv, PackInv, PartialInv, Rollbacks
      <4>5. \A u \in Token : rollback'[u] = Absent
        BY <4>2, <4>3 DEF Inv, TypeOK, Rollbacks
      <4>6. \A u \in Token \ {t} : rollback[u] = Absent
        BY <4>3 DEF Rollbacks
      <4>7. NothingLost'
        BY <4>1, <4>2, <4>6 DEF Inv, PackInv, NothingLost, Kept
      <4>8. installed' # Absent
        BY <4>2 DEF Rollbacks
      <4> QED BY <4>2, <4>4, <4>5, <4>7, <4>8 DEF PackInv, PartialInv, GapInv, ActiveIsWhole
    <3> QED BY <3>1, <3>2
  <2> QED BY <2>6, <2>7, <2>8
<1> QED BY <1>2, <1>3 DEF Recover, RecoverSweep, RecoverFinish, RecoverFail

(***************************************************************************)
(* The staging half of the transaction: installed and rollback are as they *)
(* were, and staging is filled, with the player's saves when there are any.*)
(***************************************************************************)
LEMMA StagingInv ==
    ASSUME Inv, NEW e \in Exec,
           Stage(e) \/ Extract(e) \/ CopySaves(e) \/ CopyNone(e) \/ Discard(e)
    PROVE  Holder' /\ TreeInv' /\ PackInv'
<1>1. PackInv'
  <2>1. UNCHANGED <<installed, rollback, playing, saved>>
        /\ \/ late' = late
           \/ installed # Absent /\ late' = late \ installed.saves
    BY DEF Stage, Extract, CopySaves, CopyNone, Discard, trees, player
  <2>2. PartialInv' /\ GapInv' /\ ActiveIsWhole'
    BY <2>1 DEF Inv, PackInv, PartialInv, GapInv, ActiveIsWhole, Rollbacks
  <2>3. \A s \in saved' \ late' : s \in saved \ late \/ s \in Kept(installed)
    BY <2>1 DEF Kept
  <2>4. NothingLost'
    BY <2>1, <2>3 DEF Inv, PackInv, NothingLost, Kept
  <2> QED BY <2>2, <2>4 DEF PackInv
<1>2. /\ TypeOK /\ Holder /\ At(e) /\ pc[e] \in Locked
      /\ e \in Actor /\ token[e] \in Token
      /\ lock = e
  <2>1. pc[e] \in Locked
    BY DEF Stage, Extract, CopySaves, CopyNone, Discard, Locked, Staged
  <2>2. e \in Actor /\ pc[e] # "idle"
    BY <2>1 DEF Actor, Locked, Staged
  <2> QED BY <2>1, <2>2, Alone DEF Inv, TypeOK, TreeInv
<1>3. ASSUME NEW s \in Step, Goto(e, s), s \in Locked => lock' = e, At(e)'
      PROVE  Holder' /\ TreeInv' /\ PackInv'
  BY <1>1, <1>2, <1>3, HolderMoves
<1>4. ASSUME NEW s \in {"idle", "discard", "stage"}, pc'[e] = s PROVE At(e)'
  BY <1>4 DEF At, Staged
<1>5. \A s \in Step : Goto(e, s) => pc'[e] = s
  BY <1>2 DEF TypeOK, Goto
<1>6. {"idle", "discard", "extract", "copy", "moveOld", "moveFirst"} \subseteq Step
  BY DEF Step, Locked, Staged
<1>7. CASE Stage(e)
  <2>1. CASE staging[token[e]] # Absent
    <3>1. Goto(e, "idle")
      BY <1>7, <2>1 DEF Stage, Leave
    <3> QED BY <1>3, <1>4, <1>5, <1>6, <3>1 DEF Locked, Staged
  <2>2. CASE staging[token[e]] = Absent
    <3>1. /\ Goto(e, "extract") /\ UNCHANGED <<lock, token>>
          /\ staging'[token[e]] = FreshTree
      BY <1>2, <1>7, <2>2 DEF TypeOK, Stage, work
    <3>2. FreshTree # Absent
      <4>1. FreshTree \in Tree
        BY DEF FreshTree, Tree
      <4> QED BY <4>1, AbsentAssumption
    <3>3. At(e)'
      BY <1>5, <1>6, <3>1, <3>2 DEF At, Owned, Staged
    <3> QED BY <1>2, <1>3, <1>6, <3>1, <3>3
  <2> QED BY <2>1, <2>2
<1>8. CASE Extract(e)
  <2>1. UNCHANGED <<lock, token>>
    BY <1>8 DEF Extract, work
  <2>2. CASE Goto(e, "discard")
    BY <1>2, <1>3, <1>4, <1>5, <1>6, <2>1, <2>2
  <2>3. CASE /\ Goto(e, "copy") /\ staging[token[e]] # Absent
             /\ staging' = [staging EXCEPT ![token[e]].whole = TRUE]
    <3>1. staging[token[e]] \in Tree
      BY <1>2, <2>3 DEF TypeOK
    <3>2. staging'[token[e]] = [staging[token[e]] EXCEPT !.whole = TRUE]
      BY <1>2, <2>3 DEF TypeOK
    <3>3. staging'[token[e]] # Absent /\ staging'[token[e]].whole
      <4>1. staging'[token[e]] \in Tree
        BY <3>1, <3>2, TreeEdit
      <4>2. staging'[token[e]].whole = TRUE
        BY <3>1, <3>2 DEF Tree
      <4> QED BY <4>1, <4>2, AbsentAssumption
    <3>4. At(e)'
      BY <1>5, <1>6, <2>1, <2>3, <3>3 DEF At, Owned, Staged
    <3> QED BY <1>2, <1>3, <1>6, <2>1, <2>3, <3>4
  <2> QED BY <1>8, <2>2, <2>3 DEF Extract
<1>9. CASE CopySaves(e)
  <2>1. UNCHANGED <<lock, token, installed, rollback>>
    BY <1>9 DEF CopySaves, work
  <2>2. CASE Goto(e, "discard")
    BY <1>2, <1>3, <1>4, <1>5, <1>6, <2>1, <2>2
  <2>3. CASE Goto(e, "moveOld")
    <3>1. /\ staging[token[e]] \in Tree /\ staging[token[e]].whole
          /\ installed \in Tree /\ installed # Absent
          /\ rollback[token[e]] = Absent
      BY <1>2, <1>9 DEF TypeOK, CopySaves, Refused, At, Owned, Staged
    <3>2. staging' = [staging EXCEPT ![token[e]].saves = @ \cup installed.saves]
      <4>1. pc'[e] = "moveOld"
        BY <1>5, <1>6, <2>3
      <4> QED BY <1>5, <1>6, <1>9, <4>1 DEF CopySaves
    <3>3. staging'[token[e]] =
            [staging[token[e]] EXCEPT !.saves = @ \cup installed.saves]
      BY <1>2, <3>2 DEF TypeOK
    <3>4. /\ staging'[token[e]] \in Tree
          /\ staging'[token[e]].whole
          /\ installed.saves \subseteq staging'[token[e]].saves
      BY <3>1, <3>3 DEF Tree
    <3>5. staging'[token[e]] # Absent
      BY <3>4, AbsentAssumption
    <3>6. At(e)'
      BY <1>5, <1>6, <2>1, <2>3, <3>1, <3>4, <3>5 DEF At, Owned, Behind, Staged
    <3> QED BY <1>2, <1>3, <1>6, <2>1, <2>3, <3>6
  <2> QED BY <1>9, <2>2, <2>3 DEF CopySaves
<1>10. CASE CopyNone(e)
  <2>1. UNCHANGED <<lock, token, installed, staging>>
    BY <1>10 DEF CopyNone, trees, work
  <2>2. CASE Refused(e)
    BY <1>2, <1>3, <1>4, <1>5, <1>6, <1>10, <2>1, <2>2 DEF CopyNone
  <2>3. CASE ~ Refused(e)
    <3>1. Goto(e, "moveFirst") /\ installed = Absent /\ pc[e] = "copy"
      BY <1>10, <2>3 DEF CopyNone
    <3>2. At(e)'
      BY <1>2, <1>5, <1>6, <2>1, <3>1 DEF At, Owned, Staged
    <3> QED BY <1>2, <1>3, <1>6, <2>1, <3>1, <3>2
  <2> QED BY <2>2, <2>3
<1>11. CASE Discard(e)
  <2>1. Goto(e, "idle")
    BY <1>11 DEF Discard, Leave
  <2> QED BY <1>3, <1>4, <1>5, <1>6, <2>1 DEF Locked, Staged
<1> QED BY <1>7, <1>8, <1>9, <1>10, <1>11

(***************************************************************************)
(* The activating half: at every step the player's saves, but for the late *)
(* ones, are in the active tree or aside, and what gets the active name is *)
(* whole, or what a save in the gap had left there.                        *)
(***************************************************************************)
LEMMA ActivationInv ==
    ASSUME Inv, NEW e \in Exec,
           MoveOld(e) \/ MoveNew(e) \/ Restore(e) \/ Unlink(e) \/ UnlinkRest(e)
    PROVE  Holder' /\ TreeInv' /\ PackInv'
<1> DEFINE t == token[e]
<1>1. pc[e] \in Locked /\ pc[e] # "idle"
  BY DEF MoveOld, MoveNew, Restore, Unlink, UnlinkRest, Locked, Staged
<1>2. /\ TypeOK /\ Holder /\ At(e) /\ PackInv /\ lock = e
      /\ e \in Actor /\ token[e] \in Token
  <2>1. e \in Actor
    BY DEF Actor
  <2> QED BY <1>1, <2>1, Alone DEF Inv, TypeOK, TreeInv
<1>3. ASSUME NEW s \in Step, Goto(e, s), s \in Locked => lock' = e, At(e)', PackInv'
      PROVE  Holder' /\ TreeInv' /\ PackInv'
  BY <1>1, <1>2, <1>3, HolderMoves
<1>4. \A s \in Step : Goto(e, s) => pc'[e] = s
  BY <1>2 DEF TypeOK, Goto
<1>5. {"idle", "discard", "moveNew", "unlink", "unlinkRest", "root", "restore"}
          \subseteq Step
  BY DEF Step, Locked, Staged
<1>6. UNCHANGED <<token, playing, saved, late, torn>>
  BY DEF MoveOld, MoveNew, Restore, Unlink, UnlinkRest, work, player
<1>7. ASSUME UNCHANGED <<installed, rollback>> PROVE PackInv'
  BY <1>2, <1>6, <1>7
  DEF PackInv, PartialInv, GapInv, ActiveIsWhole, NothingLost, Kept, Rollbacks
<1>8. CASE MoveOld(e)
  <2>1. UNCHANGED <<staging, lock>> /\ pc[e] = "moveOld"
    BY <1>8 DEF MoveOld
  <2>2. CASE Goto(e, "discard") /\ UNCHANGED <<rollback, installed>>
    <3>1. At(e)'
      BY <1>4, <1>5, <2>2 DEF At, Staged
    <3> QED BY <1>2, <1>3, <1>5, <1>7, <2>1, <2>2, <3>1
  <2>3. CASE /\ rollback' = [rollback EXCEPT ![t] = installed]
             /\ installed' = Absent /\ Goto(e, "moveNew")
    <3>1. rollback'[t] = installed /\ \A u \in Token \ {t} : rollback'[u] = rollback[u]
      BY <1>2, <2>3 DEF TypeOK
    <3>2. /\ installed # Absent /\ rollback[t] = Absent
          /\ installed.whole \/ installed.pack = "stub"
          /\ staging[t] # Absent /\ staging[t].whole
          /\ installed.saves \subseteq staging[t].saves \cup late
      BY <1>2, <2>1 DEF At, Owned, Behind, Staged, PackInv, ActiveIsWhole
    <3>3. At(e)'
      BY <1>4, <1>5, <1>6, <2>1, <2>3, <3>1, <3>2 DEF At, Owned, Behind, Staged
    <3>4. PartialInv' /\ GapInv'
      <4>1. ASSUME ~ installed.whole PROVE \E u \in Token \ {t} : rollback[u] # Absent
        BY <1>2, <3>2, <4>1 DEF PackInv, GapInv, Rollbacks
      <4>2. t \in Rollbacks'
        BY <1>2, <3>1, <3>2 DEF Rollbacks
      <4>3. ASSUME NEW u \in Token, rollback'[u] # Absent, ~ rollback'[u].whole
            PROVE  \E w \in Token \ {u} : rollback'[w] # Absent
        <5>1. CASE u = t
          BY <3>1, <4>1, <4>3, <5>1
        <5>2. CASE u # t
          BY <1>2, <3>1, <3>2, <5>2
        <5> QED BY <5>1, <5>2
      <4> QED BY <4>2, <4>3 DEF PartialInv, GapInv
    <3>5. NothingLost'
      <4>1. ASSUME NEW s \in saved \ late
            PROVE  \E u \in Token : s \in Kept(rollback'[u])
        BY <1>2, <3>1, <3>2 DEF PackInv, NothingLost, Kept
      <4> QED BY <1>6, <4>1 DEF NothingLost, Kept
    <3> QED BY <1>2, <1>3, <1>5, <2>1, <2>3, <3>3, <3>4, <3>5 DEF PackInv, ActiveIsWhole
  <2> QED BY <1>8, <2>2, <2>3 DEF MoveOld
<1>9. CASE MoveNew(e)
  <2>1. rollback' = rollback /\ pc[e] \in {"moveNew", "moveFirst"}
    BY <1>9 DEF MoveNew
  <2>2. CASE UNCHANGED <<installed, staging, lock>>
             /\ Goto(e, IF pc[e] = "moveNew" THEN "restore" ELSE "discard")
    <3>1. At(e)'
      BY <1>2, <1>4, <1>5, <1>6, <2>1, <2>2 DEF At, Owned, Behind, Staged
    <3> QED BY <1>2, <1>3, <1>5, <1>7, <2>1, <2>2, <3>1
  <2>3. CASE /\ installed = Absent /\ installed' = staging[t]
             /\ Goto(e, IF pc[e] = "moveNew" THEN "unlink" ELSE "root")
             /\ lock' = IF pc[e] = "moveNew" THEN lock ELSE None
    <3>1. /\ installed = Absent /\ staging[t] # Absent /\ staging[t].whole
          /\ pc[e] = "moveNew" => /\ rollback[t] # Absent
                                  /\ rollback[t].saves \subseteq staging[t].saves \cup late
      BY <1>2, <2>1, <2>3 DEF At, Owned, Behind, Staged
    <3>2. At(e)'
      BY <1>4, <1>5, <1>6, <2>1, <2>3, <3>1 DEF At, Owned, Behind, Staged
    <3>3. NothingLost'
      BY <1>2, <1>6, <2>1, <3>1 DEF PackInv, NothingLost, Kept
    <3>4. PartialInv' /\ GapInv' /\ ActiveIsWhole'
      BY <2>3, <3>1 DEF PartialInv, GapInv, ActiveIsWhole
    <3> QED BY <1>2, <1>3, <1>5, <2>1, <2>3, <3>2, <3>3, <3>4
            DEF PackInv, Locked, Staged
  <2> QED BY <1>9, <2>2, <2>3 DEF MoveNew
<1>10. CASE Restore(e)
  <2>1. UNCHANGED <<staging, lock>> /\ Goto(e, "discard") /\ pc[e] = "restore"
    BY <1>10 DEF Restore
  <2>2. At(e)'
    BY <1>4, <1>5, <2>1 DEF At, Staged
  <2>3. CASE UNCHANGED <<installed, rollback>>
    BY <1>2, <1>3, <1>5, <1>7, <2>1, <2>2, <2>3
  <2>4. CASE /\ installed = Absent /\ installed' = rollback[t]
             /\ rollback' = [rollback EXCEPT ![t] = Absent]
    <3>1. /\ installed = Absent /\ rollback[t] # Absent
          /\ rollback[t].whole \/ rollback[t].pack = "stub"
      BY <1>2, <2>1, <2>4 DEF At, Behind
    <3>2. \A u \in Token \ {t} : rollback'[u] = rollback[u]
      BY <1>2, <2>4 DEF TypeOK
    <3>3. NothingLost'
      BY <1>2, <1>6, <2>4, <3>1, <3>2 DEF PackInv, NothingLost, Kept
    <3>4. PartialInv' /\ ActiveIsWhole'
      BY <2>4, <3>1 DEF PartialInv, ActiveIsWhole
    <3>5. GapInv'
      <4>1. CASE rollback[t].whole
        BY <2>4, <3>1, <4>1 DEF GapInv
      <4>2. CASE ~ rollback[t].whole
        <5>1. PICK u \in Token \ {t} : rollback[u] # Absent
          BY <1>2, <3>1, <4>2 DEF PackInv, PartialInv
        <5> QED BY <3>2, <5>1 DEF GapInv, Rollbacks
      <4> QED BY <4>1, <4>2
    <3> QED BY <1>2, <1>3, <1>5, <2>1, <2>2, <3>3, <3>4, <3>5 DEF PackInv
  <2> QED BY <1>10, <2>3, <2>4 DEF Restore
<1>11. CASE Unlink(e)
  <2>1. UNCHANGED <<installed, staging, lock>> /\ pc[e] = "unlink"
    BY <1>11 DEF Unlink
  <2>2. CASE Goto(e, "discard") /\ UNCHANGED rollback
    <3>1. At(e)'
      BY <1>4, <1>5, <2>2 DEF At, Staged
    <3> QED BY <1>2, <1>3, <1>5, <1>7, <2>1, <2>2, <3>1
  <2>3. CASE /\ rollback' = [rollback EXCEPT ![t] = Gutted(rollback[t])]
             /\ Goto(e, "unlinkRest")
    <3>1. /\ installed # Absent /\ installed.whole
          /\ rollback[t] \in Tree
          /\ rollback[t].saves \subseteq installed.saves \cup late
      BY <1>2, <2>1 DEF TypeOK, At, Behind
    <3>2. /\ rollback'[t] \in Tree /\ rollback'[t].saves = {}
          /\ \A u \in Token \ {t} : rollback'[u] = rollback[u]
      <4>1. rollback'[t] = Gutted(rollback[t])
        BY <1>2, <2>3 DEF TypeOK
      <4>2. rollback'[t] \in Tree
        BY <3>1, <4>1, TreeEdit
      <4>3. rollback'[t].saves = {}
        BY <3>1, <4>1 DEF Tree, Gutted
      <4> QED BY <1>2, <2>3, <4>2, <4>3 DEF TypeOK
    <3>3. At(e)'
      BY <1>4, <1>5, <1>6, <2>1, <2>3, <3>1, <3>2, AbsentAssumption
      DEF At, Behind, Staged
    <3>4. NothingLost'
      BY <1>2, <1>6, <2>1, <3>1, <3>2 DEF PackInv, NothingLost, Kept
    <3>5. PartialInv' /\ GapInv' /\ ActiveIsWhole'
      BY <2>1, <3>1 DEF PartialInv, GapInv, ActiveIsWhole
    <3> QED BY <1>2, <1>3, <1>5, <2>1, <2>3, <3>3, <3>4, <3>5 DEF PackInv
  <2> QED BY <1>11, <2>2, <2>3 DEF Unlink
<1>12. CASE UnlinkRest(e)
  <2>1. UNCHANGED <<installed, staging>> /\ pc[e] = "unlinkRest"
    BY <1>12 DEF UnlinkRest
  <2>2. CASE Goto(e, "discard") /\ UNCHANGED <<rollback, lock>>
    <3>1. At(e)'
      BY <1>4, <1>5, <2>2 DEF At, Staged
    <3> QED BY <1>2, <1>3, <1>5, <1>7, <2>1, <2>2, <3>1
  <2>3. CASE rollback' = [rollback EXCEPT ![t] = Absent] /\ Goto(e, "root")
    <3>1. installed # Absent /\ installed.whole /\ rollback[t].saves = {}
      BY <1>2, <2>1 DEF At, Behind
    <3>2. \A u \in Token \ {t} : rollback'[u] = rollback[u]
      BY <1>2, <2>3 DEF TypeOK
    <3>3. At(e)'
      BY <1>4, <1>5, <2>3 DEF At, Staged
    <3>4. NothingLost'
      BY <1>2, <1>6, <2>1, <3>1, <3>2 DEF PackInv, NothingLost, Kept
    <3>5. PartialInv' /\ GapInv' /\ ActiveIsWhole'
      BY <2>1, <3>1 DEF PartialInv, GapInv, ActiveIsWhole
    <3> QED BY <1>3, <1>5, <2>3, <3>3, <3>4, <3>5 DEF PackInv, Locked, Staged
  <2> QED BY <1>12, <2>2, <2>3 DEF UnlinkRest
<1> QED BY <1>8, <1>9, <1>10, <1>11, <1>12

(***************************************************************************)
(* Taking the lease: nobody else is inside, and nothing is staged yet.     *)
(***************************************************************************)
LEMMA OutsideInv ==
    ASSUME Inv, NEW e \in Exec,
           DoWork(e) \/ Download(e) \/ TakeLease(e) \/ Report(e)
    PROVE  Holder' /\ TreeInv' /\ PackInv'
<1>1. e \in Actor /\ TypeOK /\ Holder
  BY DEF Inv, Actor
<1>2. pc[e] \in {"idle", "download", "verify", "root"}
  BY DEF Inv, TypeOK, DoWork, Download, TakeLease, Report
<1>3. \A x \in Actor \ {e} : pc'[x] = pc[x]
  BY <1>1 DEF TypeOK, DoWork, Download, TakeLease, Report, Leave, Goto
<1>4. \A x \in Exec \ {e} : token'[x] = token[x]
  BY <1>1 DEF TypeOK, DoWork, Download, TakeLease, Report, Leave, work
<1>5. /\ pc'[e] \in {"recover", "verify", "idle", "stage"}
      /\ pc'[e] = "stage" => lock = None /\ lock' = e
      /\ pc'[e] # "stage" => lock' = lock
  BY <1>1 DEF TypeOK, DoWork, Download, TakeLease, Report, Leave, Goto
<1>6. Holder'
  <2>1. ASSUME NEW x \in Actor \ {e}, pc'[x] \in Locked PROVE lock' = x
    <3>1. lock = x
      BY <1>1, <1>3, <2>1 DEF Holder
    <3> QED BY <1>5, <3>1, InstallAssumption DEF InstallAssumption, Actor
  <2>2. pc'[e] \in Locked => lock' = e
    BY <1>5 DEF Locked, Staged
  <2> QED BY <2>1, <2>2 DEF Holder
<1>7. UNCHANGED <<trees, playing, saved, late, torn>>
  BY DEF DoWork, Download, TakeLease, Report, player
<1>8. \A x \in Exec : pc'[x] \in Locked \ {"stage", "discard"} =>
          pc'[x] = pc[x] /\ token'[x] = token[x]
  BY <1>3, <1>4, <1>5 DEF Locked, Staged, Actor
<1> QED BY <1>6, <1>7, <1>8, TreesKept DEF Inv

(***************************************************************************)
(* What the player does reaches both what the copy has already taken and   *)
(* what it has not: late remembers the difference.                         *)
(***************************************************************************)
LEMMA PlayerInv ==
    ASSUME Inv, Launch \/ Play \/ PlayTorn
    PROVE  Holder' /\ TreeInv' /\ PackInv'
<1>1. TypeOK /\ TreeInv /\ PackInv
  BY DEF Inv
<1>2. UNCHANGED <<pc, lock, rollback, token>>
  BY DEF Launch, Play, PlayTorn, trees, work
<1>3. Holder'
  BY <1>2 DEF Inv, Holder
<1>4. CASE Launch
  BY <1>1, <1>2, <1>3, <1>4, TreesKept DEF Launch
<1>5. CASE Play
  <2>1. PICK s \in Save : PlaySays(s)
    BY <1>1, <1>5, PlayIs
  <2>2. ASSUME NEW e \in Exec PROVE At(e)'
    <3>1. At(e) /\ (pc[e] # "idle" => token[e] \in Token)
      BY <1>1 DEF TreeInv, TypeOK
    <3>2. pc[e] \in Staged =>
            /\ Owned(e)' # Absent /\ Owned(e)'.whole = Owned(e).whole
            /\ Owned(e).saves \subseteq Owned(e)'.saves
      BY <1>2, <2>1, <3>1 DEF PlaySays, Gains, At, Owned, Staged
    <3>3. Behind(e)' = Behind(e) /\ late \subseteq late' /\ torn' = torn
      BY <1>2, <2>1 DEF PlaySays, Behind
    <3>4. /\ installed # Absent /\ installed' # Absent
          /\ installed'.whole = installed.whole
          /\ installed'.saves = installed.saves \cup {s}
      BY <2>1 DEF PlaySays, Gains
    <3>5. pc[e] = "moveOld" => s \in late'
      BY <2>1 DEF PlaySays, Copying
    <3> QED BY <1>2, <3>1, <3>2, <3>3, <3>4, <3>5 DEF At, Staged
  <2>3. PartialInv' /\ GapInv' /\ ActiveIsWhole'
    BY <1>1, <1>2, <2>1
    DEF PackInv, PartialInv, GapInv, ActiveIsWhole, PlaySays, Gains, Rollbacks
  <2>4. NothingLost'
    BY <1>1, <1>2, <2>1 DEF PackInv, NothingLost, Kept, PlaySays, Gains
  <2> QED BY <1>3, <2>2, <2>3, <2>4 DEF TreeInv, PackInv
<1>6. CASE PlayTorn
  <2>1. PICK s \in Save : saved' = saved \cup {s} /\ installed' = StubTree(s)
    BY <1>6 DEF PlayTorn
  <2>2. /\ installed' # Absent /\ installed'.pack = "stub" /\ installed'.saves = {s}
        /\ installed = Absent /\ playing /\ torn' /\ UNCHANGED <<staging, late>>
    BY <1>6, <2>1, StubIs DEF PlayTorn
  <2>3. ASSUME NEW e \in Exec PROVE At(e)'
    BY <1>1, <1>2, <2>2 DEF TreeInv, At, Owned, Behind, Staged
  <2>4. PartialInv' /\ GapInv' /\ ActiveIsWhole'
    BY <1>1, <1>2, <2>2 DEF PackInv, PartialInv, GapInv, ActiveIsWhole, Rollbacks
  <2>5. NothingLost'
    BY <1>1, <1>2, <2>1, <2>2 DEF PackInv, NothingLost, Kept
  <2> QED BY <1>3, <2>3, <2>4, <2>5 DEF TreeInv, PackInv
<1> QED BY <1>4, <1>5, <1>6

LEMMA InvStep == Inv /\ [Next]_vars => Inv'
<1> SUFFICES ASSUME Inv, [Next]_vars PROVE Inv'
  OBVIOUS
<1>1. TypeOK'
  BY TypeOKStep DEF Inv
<1> SUFFICES Holder' /\ TreeInv' /\ PackInv'
  BY <1>1 DEF Inv
<1>2. ASSUME NEW a \in Actor, Recover(a) PROVE Holder' /\ TreeInv' /\ PackInv'
  BY <1>2, RecoverInv
<1>3. ASSUME NEW o \in Opener, Open(o) PROVE Holder' /\ TreeInv' /\ PackInv'
  <2>1. o \in Actor /\ pc'[o] = "recover" /\ \A x \in Actor \ {o} : pc'[x] = pc[x]
    BY <1>3 DEF Inv, TypeOK, Open, Goto, Actor
  <2>2. Holder'
    BY <1>3, <2>1 DEF Inv, Holder, Open, Locked, Staged
  <2>3. \A x \in Exec : pc'[x] = pc[x] /\ token'[x] = token[x]
    BY <1>3, <2>1, InstallAssumption DEF InstallAssumption, Open, work, Actor
  <2> QED BY <1>3, <2>2, <2>3, TreesKept DEF Inv, Open, player
<1>4. ASSUME NEW t \in Token, Enqueue(t) PROVE Holder' /\ TreeInv' /\ PackInv'
  BY <1>4, TreesKept DEF Inv, Holder, Enqueue, player
<1>5. ASSUME NEW e \in Exec, DoWork(e) \/ Download(e) \/ TakeLease(e) \/ Install(e)
      PROVE  Holder' /\ TreeInv' /\ PackInv'
  BY <1>5, OutsideInv, StagingInv, ActivationInv DEF Install
<1>6. ASSUME NEW forget \in BOOLEAN, Stop(forget)
      PROVE  Holder' /\ TreeInv' /\ PackInv'
  BY <1>6, TreesKept DEF Inv, Holder, Stop, player
<1>7. CASE Launch \/ Play \/ PlayTorn
  BY <1>7, PlayerInv
<1>8. ASSUME NEW killed \in SUBSET Actor, Die(killed), playing' => playing
      PROVE  Holder' /\ TreeInv' /\ PackInv'
  <2>1. \A x \in Actor : pc'[x] = IF x \in killed THEN "idle" ELSE pc[x]
    BY <1>8 DEF Die
  <2>2. \A x \in Exec : x \notin killed => token'[x] = token[x]
    BY <1>8 DEF Die
  <2>3. Holder'
    BY <1>8, <2>1 DEF Inv, Holder, Die, Locked, Staged
  <2>4. \A x \in Exec : pc'[x] \in Locked \ {"stage", "discard"} =>
            pc'[x] = pc[x] /\ token'[x] = token[x]
    BY <2>1, <2>2 DEF Locked, Staged, Actor
  <2> QED BY <1>8, <2>3, <2>4, TreesKept DEF Inv, Die
<1>9. CASE UNCHANGED vars
  BY <1>9, TreesKept DEF Inv, Holder, vars, work, player
<1>10. CASE Crash
  <2>1. Launcher \subseteq Actor
    BY InstallAssumption DEF InstallAssumption, Actor
  <2>2. PICK killed \in SUBSET Actor : Die(killed) /\ (playing' => playing)
    BY <1>10, <2>1 DEF Crash
  <2> QED BY <1>8, <2>2
<1> QED BY <1>2, <1>3, <1>4, <1>5, <1>6, <1>7, <1>9, <1>10 DEF Next

(***************************************************************************)
(* The inductive invariant holds of every execution of the transaction.    *)
(***************************************************************************)
LEMMA InstallInvariant == Spec => []Inv
BY InvInit, InvStep, PTL DEF Spec

(***************************************************************************)
(* Every step leaves the transaction's state well typed.                   *)
(***************************************************************************)
THEOREM InstallTypeCorrect == Spec => []TypeOK
<1>1. Inv => TypeOK
  BY DEF Inv
<1> QED BY <1>1, InstallInvariant, PTL

(***************************************************************************)
(* However many requests, executions, activities and crashes interleave,   *)
(* and whatever the game saves meanwhile, the pack under the active name   *)
(* has all its files.                                                      *)
(***************************************************************************)
THEOREM ActivePackWhole == Spec => []ActiveIsWhole
<1>1. Inv => ActiveIsWhole
  BY DEF Inv, PackInv
<1> QED BY <1>1, InstallInvariant, PTL

(***************************************************************************)
(* What the player saved is in the active tree or set aside, but for what  *)
(* was saved between the copy of a pack's saves and its move aside.        *)
(***************************************************************************)
THEOREM SavesSurvive == Spec => []NothingLost
<1>1. Inv => NothingLost
  BY DEF Inv, PackInv
<1> QED BY <1>1, InstallInvariant, PTL

(***************************************************************************)
(* No recovery sweeps the staging tree of a running transaction.           *)
(***************************************************************************)
THEOREM StagingExclusive == Spec => []LiveStagingKept
<1>1. Inv => LiveStagingKept
  BY DEF Inv, Holder, TreeInv, At, Owned, LiveStagingKept, Locked, Staged, Actor
<1> QED BY <1>1, InstallInvariant, PTL
-----------------------------------------------------------------------------
(***************************************************************************)
(* The new pack, and what a reported success means.                        *)
(***************************************************************************)
Inside == Staged \cup {"unlink", "unlinkRest"}

\* what an execution inside the lease knows of the new pack and its saves
Fresh(e) ==
    /\ pc[e] \in Staged => Owned(e).pack = "new"
    /\ pc[e] \in {"extract", "copy", "moveFirst"} => Owned(e).saves = {}
    /\ pc[e] \in {"unlink", "unlinkRest"} => installed.pack = "new"

FreshInv == \A e \in Exec : Fresh(e)

\* a step that neither touches a tree nor takes anybody inside
Outside == /\ UNCHANGED <<trees, saved, late, torn>>
           /\ playing' => playing \/ Ready
           /\ \A x \in Exec : pc'[x] \in Inside => pc'[x] = pc[x] /\ token'[x] = token[x]

Acts(e) ==
    \/ Stage(e) \/ Extract(e) \/ CopySaves(e) \/ CopyNone(e) \/ Discard(e)
    \/ MoveOld(e) \/ MoveNew(e) \/ Restore(e) \/ Unlink(e) \/ UnlinkRest(e)
Sweeps(a) == RecoverSweep(a) \/ RecoverFinish(a) \/ RecoverFail(a)

(***************************************************************************)
(* Every step is one of the lease's holder, the player's, or outside.      *)
(***************************************************************************)
LEMMA StepKinds ==
    ASSUME TypeOK, [Next]_vars
    PROVE  \/ \E e \in Exec : Acts(e)
           \/ \E a \in Actor : Sweeps(a)
           \/ Play \/ PlayTorn
           \/ Outside
<1> USE DEF Inside, Staged, player
<1>1. ASSUME NEW a \in Actor, RecoverStart(a) PROVE Outside
  <2>1. \A x \in Actor : pc'[x] # pc[x] => pc'[x] \notin Inside
    BY <1>1 DEF TypeOK, RecoverStart, AfterRecover, Goto
  <2> QED BY <1>1, <2>1 DEF RecoverStart, Outside, work, Actor
<1>2. ASSUME NEW o \in Opener, Open(o) PROVE Outside
  BY <1>2 DEF TypeOK, Open, Goto, Outside, work, Actor
<1>3. ASSUME NEW t \in Token, Enqueue(t) PROVE Outside
  BY <1>3 DEF Enqueue, Outside
<1>4. ASSUME NEW e \in Exec, DoWork(e) \/ Download(e) \/ TakeLease(e) \/ Report(e)
      PROVE  Outside
  <2>1. e \in Actor /\ \A x \in Exec \ {e} : pc'[x] = pc[x] /\ token'[x] = token[x]
    BY <1>4 DEF TypeOK, DoWork, Download, TakeLease, Report, Leave, Goto, work, Actor
  <2>2. pc'[e] \in {"recover", "verify", "idle", "stage"}
    BY <1>4, <2>1 DEF TypeOK, DoWork, Download, TakeLease, Report, Leave, Goto
  <2>3. UNCHANGED <<trees, playing, saved, late, torn>>
    BY <1>4 DEF DoWork, Download, TakeLease, Report
  <2> QED BY <2>1, <2>2, <2>3 DEF Outside
<1>5. ASSUME NEW forget \in BOOLEAN, Stop(forget) PROVE Outside
  BY <1>5 DEF Stop, Outside
<1>6. CASE Crash
  <2>1. Launcher \subseteq Actor
    BY InstallAssumption DEF InstallAssumption, Actor
  <2>2. PICK killed \in SUBSET Actor : Die(killed) /\ (playing' => playing)
    BY <1>6, <2>1 DEF Crash
  <2> QED BY <2>2 DEF Die, Outside, Actor
<1>7. CASE UNCHANGED vars
  BY <1>7 DEF vars, Outside, work
<1>8. CASE Launch
  BY <1>8 DEF Launch, Outside, work
<1> QED BY <1>1, <1>2, <1>3, <1>4, <1>5, <1>6, <1>7, <1>8
        DEF Next, Recover, Install, Acts, Sweeps

(***************************************************************************)
(* A step of the holder e: nobody else is inside, before or after it.      *)
(***************************************************************************)
LEMMA ActsAlone ==
    ASSUME TypeOK, Holder, NEW e \in Exec, Acts(e)
    PROVE  /\ e \in Actor /\ token[e] \in Token /\ pc[e] \in Locked /\ lock = e
           /\ \A x \in Actor \ {e} : pc[x] \notin Locked /\ pc'[x] = pc[x]
           /\ \A x \in Exec \ {e} : token'[x] = token[x]
           /\ \A s : Goto(e, s) => pc'[e] = s
<1>1. e \in Actor /\ pc[e] \in Locked /\ pc[e] # "idle"
  BY DEF Acts, Stage, Extract, CopySaves, CopyNone, Discard, MoveOld, MoveNew,
         Restore, Unlink, UnlinkRest, Locked, Staged, Actor
<1>2. token[e] \in Token
  BY <1>1 DEF TypeOK
<1>3. \A s : Goto(e, s) => pc' = [pc EXCEPT ![e] = s]
  BY DEF Goto
<1>4. pc' = [pc EXCEPT ![e] = pc'[e]]
  <2>1. \E s : Goto(e, s)
    BY DEF Acts, Stage, Extract, CopySaves, CopyNone, Discard, MoveOld, MoveNew,
           Restore, Unlink, UnlinkRest, Leave
  <2> QED BY <1>1, <2>1 DEF Goto, TypeOK
<1>5. \A x \in Exec \ {e} : token'[x] = token[x]
  BY DEF TypeOK, Acts, Stage, Extract, CopySaves, CopyNone, Discard, MoveOld, MoveNew,
         Restore, Unlink, UnlinkRest, Leave, work
<1> QED BY <1>1, <1>2, <1>3, <1>4, <1>5, Alone DEF TypeOK

LEMMA SweepsAlone ==
    ASSUME TypeOK, Holder, NEW a \in Actor, Sweeps(a)
    PROVE  /\ pc[a] = "sweep" /\ lock = a
           /\ \A x \in Actor \ {a} : pc[x] \notin Locked /\ pc'[x] = pc[x]
           /\ pc'[a] \in {"sweep", "idle", "download"}
           /\ \A x \in Exec \ {a} : token'[x] = token[x]
<1>1. pc[a] = "sweep" /\ pc[a] \in Locked
  BY DEF Sweeps, RecoverSweep, RecoverFinish, RecoverFail, Locked
<1>2. /\ \A x \in Actor \ {a} : pc'[x] = pc[x]
      /\ pc'[a] \in {"sweep", "idle", "download"}
  BY <1>1 DEF TypeOK, Sweeps, RecoverSweep, RecoverFinish, RecoverFail,
              AfterRecover, Goto, Leave
<1>3. \A x \in Exec \ {a} : token'[x] = token[x]
  BY DEF TypeOK, Sweeps, RecoverSweep, RecoverFinish, RecoverFail, Leave, work
<1> QED BY <1>1, <1>2, <1>3, Alone

LEMMA FreshInit == Init => FreshInv
BY DEF Init, FreshInv, Fresh, Staged, Actor

LEMMA FreshStep == Inv /\ FreshInv /\ [Next]_vars => FreshInv'
<1> SUFFICES ASSUME Inv, FreshInv, [Next]_vars PROVE FreshInv'
  OBVIOUS
<1> USE DEF Inside, Staged
<1>1. TypeOK /\ Holder /\ TreeInv
  BY DEF Inv
<1>2. CASE Outside
  <2>1. UNCHANGED <<installed, staging, rollback>>
    BY <1>2 DEF Outside, trees
  <2>2. ASSUME NEW x \in Exec PROVE Fresh(x)'
    <3>1. CASE pc'[x] \in Inside
      <4>1. Fresh(x) /\ pc'[x] = pc[x] /\ token'[x] = token[x]
        BY <1>2, <3>1 DEF Outside, FreshInv
      <4> QED BY <2>1, <4>1 DEF Fresh, Owned, Behind
    <3>2. CASE pc'[x] \notin Inside
      BY <3>2 DEF Fresh
    <3> QED BY <3>1, <3>2
  <2> QED BY <2>2 DEF FreshInv
<1>3. CASE Play \/ PlayTorn
  <2>1. UNCHANGED <<pc, token>>
    BY <1>3 DEF Play, PlayTorn, work
  <2>2. ASSUME NEW x \in Exec, PlayTorn PROVE Fresh(x)'
    <3>1. installed = Absent /\ staging' = staging
      BY <2>2 DEF PlayTorn
    <3>2. At(x) /\ Fresh(x)
      BY <1>1 DEF TreeInv, FreshInv
    <3> QED BY <2>1, <3>1, <3>2 DEF At, Fresh, Owned
  <2>3. ASSUME NEW x \in Exec, NEW s \in Save, PlaySays(s) PROVE Fresh(x)'
    <3>1. Fresh(x) /\ At(x) /\ (pc[x] # "idle" => token[x] \in Token)
      BY <1>1 DEF TreeInv, FreshInv, TypeOK
    <3>2. installed'.pack = installed.pack
      BY <2>3 DEF PlaySays, Gains
    <3>3. pc[x] \in Staged => Owned(x)'.pack = Owned(x).pack
      BY <2>1, <2>3, <3>1 DEF PlaySays, Gains, Owned
    <3>4. ASSUME pc[x] \in {"extract", "copy", "moveFirst"}
          PROVE  Owned(x)'.saves = Owned(x).saves
      <4>1. x \in Actor /\ pc[x] \in Locked
        BY <3>4 DEF Actor, Locked
      <4>2. Copying = {}
        BY <1>1, <3>4, <4>1, Alone DEF Copying, Actor, Locked
      <4> QED BY <2>1, <2>3, <3>1, <3>4, <4>2 DEF PlaySays, Owned
    <3> QED BY <2>1, <3>1, <3>2, <3>3, <3>4 DEF Fresh
  <2> QED BY <1>1, <1>3, <2>2, <2>3, PlayIs DEF FreshInv
<1>4. ASSUME NEW a \in Actor, Sweeps(a) PROVE FreshInv'
  <2>1. \A x \in Exec : pc'[x] \notin Inside
    BY <1>1, <1>4, SweepsAlone DEF Actor, Locked
  <2> QED BY <2>1 DEF FreshInv, Fresh
<1>5. ASSUME NEW e \in Exec, Acts(e) PROVE FreshInv'
  <2> DEFINE t == token[e]
  <2>1. /\ e \in Actor /\ t \in Token
        /\ \A s : Goto(e, s) => pc'[e] = s
        /\ \A x \in Exec \ {e} : pc'[x] \notin Inside
    BY <1>1, <1>5, ActsAlone DEF Actor, Locked
  <2>2. SUFFICES Fresh(e)'
    BY <2>1, <2>2 DEF FreshInv, Fresh
  <2>3. At(e) /\ Fresh(e)
    BY <1>1 DEF TreeInv, FreshInv
  <2>4. CASE pc'[e] \notin Inside
    BY <2>4 DEF Fresh
  <2>5. CASE Stage(e) /\ pc'[e] \in Inside
    <3>1. staging' = [staging EXCEPT ![t] = FreshTree] /\ Goto(e, "extract")
          /\ token' = token
      BY <2>1, <2>5 DEF Stage, Leave, work
    <3>2. staging'[t] = FreshTree
      BY <1>1, <2>1, <3>1 DEF TypeOK
    <3> QED BY <2>1, <3>1, <3>2 DEF Fresh, Owned, FreshTree
  <2>6. CASE Extract(e) /\ pc'[e] \in Inside
    <3>1. /\ staging' = [staging EXCEPT ![t].whole = TRUE] /\ Goto(e, "copy")
          /\ staging[t] \in Tree /\ pc[e] = "extract" /\ token' = token
      BY <1>1, <2>1, <2>6 DEF TypeOK, Extract, work
    <3>2. /\ staging'[t].pack = staging[t].pack /\ staging'[t].saves = staging[t].saves
      BY <1>1, <2>1, <3>1 DEF TypeOK, Tree
    <3> QED BY <2>1, <2>3, <3>1, <3>2 DEF Fresh, Owned
  <2>7. CASE CopySaves(e) /\ pc'[e] \in Inside
    <3>1. /\ staging' = [staging EXCEPT ![t].saves = @ \cup installed.saves]
          /\ Goto(e, "moveOld") /\ pc[e] = "copy" /\ token' = token
          /\ staging[t] \in Tree
      BY <1>1, <2>1, <2>7 DEF TypeOK, CopySaves, Refused, work
    <3>2. staging'[t].pack = staging[t].pack
      BY <1>1, <2>1, <3>1 DEF TypeOK, Tree
    <3> QED BY <2>1, <2>3, <3>1, <3>2 DEF Fresh, Owned
  <2>8. CASE CopyNone(e) /\ pc'[e] \in Inside
    <3>1. Goto(e, "moveFirst") /\ pc[e] = "copy" /\ UNCHANGED <<staging, token>>
      BY <2>1, <2>8 DEF CopyNone, trees, work
    <3> QED BY <2>1, <2>3, <3>1 DEF Fresh, Owned
  <2>9. CASE MoveOld(e) /\ pc'[e] \in Inside
    <3>1. Goto(e, "moveNew") /\ pc[e] = "moveOld" /\ UNCHANGED <<staging, token>>
      BY <2>1, <2>9 DEF MoveOld, work
    <3> QED BY <2>1, <2>3, <3>1 DEF Fresh, Owned
  <2>10. CASE MoveNew(e) /\ pc'[e] \in Inside
    <3>1. CASE installed' = staging[t] /\ Goto(e, "unlink") /\ pc[e] = "moveNew"
      BY <2>1, <2>3, <3>1 DEF Fresh, Owned
    <3>2. CASE UNCHANGED <<installed, staging>> /\ Goto(e, "restore") /\ pc[e] = "moveNew"
      <4>1. token' = token
        BY <2>10 DEF MoveNew, work
      <4> QED BY <2>1, <2>3, <3>2, <4>1 DEF Fresh, Owned
    <3> QED BY <2>1, <2>10, <3>1, <3>2 DEF MoveNew
  <2>11. CASE Unlink(e) /\ pc'[e] \in Inside
    <3>1. Goto(e, "unlinkRest") /\ pc[e] = "unlink" /\ installed' = installed
      BY <2>1, <2>11 DEF Unlink
    <3> QED BY <2>1, <2>3, <3>1 DEF Fresh
  <2>12. CASE Discard(e) \/ Restore(e) \/ UnlinkRest(e)
    <3>1. pc'[e] \in {"idle", "discard", "root"}
      BY <2>1, <2>12 DEF Discard, Restore, UnlinkRest, Leave
    <3> QED BY <2>4, <3>1
  <2> QED BY <1>5, <2>4, <2>5, <2>6, <2>7, <2>8, <2>9, <2>10, <2>11, <2>12 DEF Acts
<1> QED BY <1>1, <1>2, <1>3, <1>4, <1>5, StepKinds

(***************************************************************************)
(* When the pipeline reports success the new pack is the active one,       *)
(* complete, whatever other executions, activities and faults came before. *)
(***************************************************************************)
THEOREM SuccessIsReady == Spec => SuccessMeansReady
<1>1. ASSUME Inv, FreshInv, [Next]_vars, NEW e \in Exec, pc[e] # "root", pc'[e] = "root"
      PROVE  Ready'
  <2>1. TypeOK /\ Holder /\ At(e) /\ Fresh(e) /\ ActiveIsWhole /\ e \in Actor
    BY <1>1 DEF Inv, TreeInv, PackInv, FreshInv, Actor
  <2>2. CASE MoveNew(e)
    <3>1. installed' = staging[token[e]]
      BY <1>1, <2>1, <2>2 DEF TypeOK, MoveNew, Goto
    <3> QED BY <2>1, <2>2, <3>1 DEF MoveNew, At, Fresh, Owned, Staged, Ready
  <2>3. CASE UnlinkRest(e)
    BY <2>1, <2>3 DEF UnlinkRest, At, Fresh, ActiveIsWhole, Ready
  <2>4. ASSUME NEW x \in Exec, x # e, DoWork(x) \/ Download(x) \/ TakeLease(x) \/ Install(x)
        PROVE  FALSE
    <3>1. \E s : Goto(x, s)
      BY <2>4 DEF Install, DoWork, Download, TakeLease, Stage, Extract, CopySaves, CopyNone,
                  Discard, MoveOld, MoveNew, Restore, Unlink, UnlinkRest, Report, Leave
    <3> QED BY <1>1, <2>1, <2>4, <3>1 DEF TypeOK, Goto
  <2>5. CASE \/ DoWork(e) \/ Download(e) \/ TakeLease(e) \/ Stage(e) \/ Extract(e)
             \/ CopySaves(e) \/ CopyNone(e) \/ Discard(e) \/ MoveOld(e) \/ Restore(e)
             \/ Unlink(e) \/ Report(e)
    <3>1. \E s : Goto(e, s) /\ s # "root"
      BY <2>5 DEF DoWork, Download, TakeLease, Stage, Extract, CopySaves, CopyNone,
                  Discard, MoveOld, Restore, Unlink, Report, Leave
    <3> QED BY <1>1, <2>1, <3>1 DEF TypeOK, Goto
  <2>6. ASSUME NEW a \in Actor, Recover(a) PROVE FALSE
    <3>1. (\E s : Goto(a, s) /\ s # "root") \/ UNCHANGED pc
      BY <2>6 DEF Recover, RecoverStart, RecoverSweep, RecoverFinish, RecoverFail,
                  AfterRecover, Leave
    <3> QED BY <1>1, <2>1, <3>1 DEF TypeOK, Goto
  <2>7. ASSUME NEW o \in Opener, Open(o) PROVE FALSE
    BY <1>1, <2>1, <2>7 DEF TypeOK, Open, Goto
  <2>8. CASE \/ \E t \in Token : Enqueue(t)
             \/ \E forget \in BOOLEAN : Stop(forget)
             \/ Launch \/ Play \/ PlayTorn
    BY <1>1, <2>8 DEF Enqueue, Stop, Launch, Play, PlayTorn
  <2>9. CASE Crash
    BY <1>1, <2>1, <2>9 DEF Crash, Die
  <2>10. CASE UNCHANGED vars
    BY <1>1, <2>10 DEF vars
  <2> QED BY <1>1, <2>2, <2>3, <2>4, <2>5, <2>6, <2>7, <2>8, <2>9, <2>10 DEF Next, Install
<1>2. Inv /\ FreshInv /\ [Next]_vars =>
        [\A e \in Exec : pc[e] # "root" /\ pc'[e] = "root" => Ready']_vars
  BY <1>1
<1>3. Spec => []FreshInv
  BY FreshInit, FreshStep, InstallInvariant, PTL DEF Spec
<1> QED BY <1>2, <1>3, InstallInvariant, PTL DEF Spec, SuccessMeansReady
-----------------------------------------------------------------------------
(***************************************************************************)
(* The refinement.  No tree has a save the player did not make.            *)
(***************************************************************************)
SavedInv ==
    /\ installed # Absent => installed.saves \subseteq saved
    /\ \A t \in Token : rollback[t] # Absent => rollback[t].saves \subseteq saved
    /\ \A t \in Token : staging[t] # Absent => staging[t].saves \subseteq saved

LEMMA SavedInit == Init => SavedInv
<1>1. OldTree.saves = OldSave
  BY DEF OldTree
<1> QED BY <1>1 DEF Init, SavedInv

LEMMA SavedStep == Inv /\ SavedInv /\ [Next]_vars => SavedInv'
<1> SUFFICES ASSUME Inv, SavedInv, [Next]_vars PROVE SavedInv'
  OBVIOUS
<1>1. TypeOK /\ Holder /\ TreeInv
  BY DEF Inv
<1>2. CASE Outside
  BY <1>2 DEF Outside, trees, SavedInv
<1>3. CASE Play
  <2>1. PICK s \in Save : PlaySays(s)
    BY <1>1, <1>3, PlayIs
  <2>2. \A t \in Token : staging'[t] # Absent =>
            staging[t] # Absent /\ staging'[t].saves \subseteq staging[t].saves \cup {s}
    BY <2>1 DEF PlaySays, Gains
  <2> QED BY <2>1, <2>2 DEF SavedInv, PlaySays, Gains
<1>4. CASE PlayTorn
  <2>1. PICK s \in Save : saved' = saved \cup {s} /\ installed' = StubTree(s)
    BY <1>4 DEF PlayTorn
  <2> QED BY <1>4, <2>1, StubIs DEF PlayTorn, SavedInv
<1>5. ASSUME NEW a \in Actor, Sweeps(a) PROVE SavedInv'
  <2>1. saved' = saved
        /\ \A t \in Token : staging'[t] # Absent => staging'[t] = staging[t]
    BY <1>1, <1>5
    DEF TypeOK, Sweeps, RecoverSweep, RecoverFinish, RecoverFail, player, trees
  <2>2. CASE UNCHANGED <<installed, rollback>>
    BY <2>1, <2>2 DEF SavedInv
  <2>3. ASSUME NEW t \in Rollbacks, installed' = rollback[t],
               rollback' = [rollback EXCEPT ![t] = Absent]
        PROVE  SavedInv'
    BY <1>1, <2>1, <2>3 DEF TypeOK, SavedInv, Rollbacks
  <2> QED BY <1>5, <2>2, <2>3 DEF Sweeps, RecoverSweep, RecoverFinish, RecoverFail, trees
<1>6. ASSUME NEW e \in Exec, Acts(e) PROVE SavedInv'
  <2> DEFINE t == token[e]
  <2>1. t \in Token /\ At(e) /\ saved' = saved
    BY <1>1, <1>6, ActsAlone
    DEF TreeInv, Acts, Stage, Extract, CopySaves, CopyNone, Discard, MoveOld,
        MoveNew, Restore, Unlink, UnlinkRest, player
  <2>2. CASE Stage(e) \/ Extract(e) \/ CopySaves(e) \/ CopyNone(e) \/ Discard(e)
    <3>1. UNCHANGED <<installed, rollback>>
      BY <2>2 DEF Stage, Extract, CopySaves, CopyNone, Discard, trees
    <3>2. \A u \in Token \ {t} : staging'[u] = staging[u]
      BY <1>1, <2>1, <2>2 DEF TypeOK, Stage, Extract, CopySaves, CopyNone, Discard, trees
    <3>3. staging'[t] # Absent => staging'[t].saves \subseteq saved
      <4>1. CASE Stage(e)
        <5>1. CASE UNCHANGED staging
          BY <2>1, <5>1 DEF SavedInv
        <5>2. CASE staging' = [staging EXCEPT ![t] = FreshTree]
          BY <1>1, <2>1, <5>2 DEF TypeOK, FreshTree
        <5> QED BY <4>1, <5>1, <5>2 DEF Stage
      <4>2. CASE Extract(e)
        <5>1. CASE UNCHANGED staging
          BY <2>1, <5>1 DEF SavedInv
        <5>2. CASE /\ staging[t] # Absent
                   /\ staging' = [staging EXCEPT ![t].whole = TRUE]
          <6>1. staging[t] \in Tree
            BY <1>1, <2>1, <5>2 DEF TypeOK
          <6>2. staging'[t].saves = staging[t].saves
            BY <1>1, <2>1, <5>2, <6>1 DEF TypeOK, Tree
          <6> QED BY <2>1, <5>2, <6>2 DEF SavedInv
        <5> QED BY <4>2, <5>1, <5>2 DEF Extract
      <4>3. CASE CopySaves(e)
        <5>1. CASE UNCHANGED staging
          BY <2>1, <5>1 DEF SavedInv
        <5>2. CASE staging' = [staging EXCEPT ![t].saves = @ \cup installed.saves]
          <6>1. staging[t] \in Tree /\ staging[t] # Absent /\ installed # Absent
            BY <1>1, <2>1, <4>3 DEF TypeOK, CopySaves, Refused
          <6>2. staging'[t].saves = staging[t].saves \cup installed.saves
            BY <1>1, <2>1, <5>2, <6>1 DEF TypeOK, Tree
          <6> QED BY <2>1, <6>1, <6>2 DEF SavedInv
        <5> QED BY <4>3, <5>1, <5>2 DEF CopySaves
      <4>4. CASE CopyNone(e) \/ Discard(e)
        BY <1>1, <2>1, <4>4 DEF TypeOK, CopyNone, Discard, SavedInv, trees
      <4> QED BY <2>2, <4>1, <4>2, <4>3, <4>4
    <3> QED BY <2>1, <3>1, <3>2, <3>3 DEF SavedInv
  <2>3. CASE MoveOld(e)
    BY <1>1, <2>1, <2>3 DEF TypeOK, MoveOld, At, Staged, SavedInv
  <2>4. CASE MoveNew(e)
    <3>1. rollback' = rollback /\ (installed' = installed \/ installed' = staging[t])
          /\ \A u \in Token : staging'[u] # Absent => staging'[u] = staging[u]
      BY <1>1, <2>1, <2>4 DEF TypeOK, MoveNew
    <3> QED BY <2>1, <3>1 DEF SavedInv
  <2>5. CASE Restore(e)
    BY <1>1, <2>1, <2>5 DEF TypeOK, Restore, At, Behind, SavedInv
  <2>6. CASE Unlink(e)
    <3>1. rollback[t] \in Tree /\ installed' = installed /\ staging' = staging
      BY <1>1, <2>1, <2>6 DEF TypeOK, Unlink, At, Behind
    <3>2. Gutted(rollback[t]).saves = {}
      BY <3>1 DEF Gutted, Tree
    <3> QED BY <1>1, <2>1, <2>6, <3>1, <3>2 DEF TypeOK, SavedInv, Unlink
  <2>7. CASE UnlinkRest(e)
    BY <1>1, <2>1, <2>7 DEF TypeOK, UnlinkRest, SavedInv
  <2> QED BY <1>6, <2>2, <2>3, <2>4, <2>5, <2>6, <2>7 DEF Acts
<1> QED BY <1>1, <1>2, <1>3, <1>4, <1>5, <1>6, StepKinds

(***************************************************************************)
(* A pack that is set aside, with nobody about to move the new one in its  *)
(* place: after a single fault it is the only one, and no install starts   *)
(* before a recovery has put it back.                                      *)
(***************************************************************************)
Movers == {x \in Exec : pc[x] \in {"moveNew", "restore"}}
Interrupted == installed = Absent /\ Rollbacks # {} /\ Movers = {}

Sound == \A e \in Exec : pc[e] # "restore"
Attended == \A t \in Rollbacks : \E e \in Exec :
                token[e] = t /\ pc[e] \in {"moveNew", "unlink", "unlinkRest"}
Waiting ==
    /\ ~ Ambiguous
    /\ \A e \in Exec : pc[e] \in Locked => pc[e] = "sweep"
    /\ \A e \in Exec : pc[e] \in {"download", "verify"} => lock # None

\* what a single fault can do, until a save falls in the gap
OneFault ==
    /\ faults = 0 => Sound /\ Attended
    /\ Interrupted => Waiting
    /\ playing /\ installed = Absent => Movers # {}

FaultInv == ~ torn => OneFault

Inv1 == Inv /\ FreshInv /\ SavedInv /\ FaultInv

LEMMA FaultInit == Init => FaultInv
BY DEF Init, FaultInv, OneFault, Sound, Attended, Waiting, Interrupted, Rollbacks, Actor

\* nobody is inside but e, who is past the first move and has the pack aside
LEMMA MoverAlone ==
    ASSUME TypeOK, Holder, NEW e \in Exec, pc[e] \in {"moveNew", "restore"}
    PROVE  Movers = {e} /\ lock = e /\ e \in Actor
<1>1. e \in Actor /\ pc[e] \in Locked
  BY DEF Actor, Locked, Staged
<1>2. lock = e /\ \A x \in Actor \ {e} : pc[x] \notin Locked
  BY <1>1, Alone
<1> QED BY <1>1, <1>2 DEF Movers, Actor, Locked, Staged

\* the promise ends once: nothing takes torn back
LEMMA TornStays == ASSUME [Next]_vars PROVE torn' = torn \/ PlayTorn
BY DEF Next, Recover, RecoverStart, RecoverSweep, RecoverFinish, RecoverFail, Open,
       Enqueue, Stop, DoWork, Download, TakeLease, Install, Stage, Extract, CopySaves,
       CopyNone, Discard, MoveOld, MoveNew, Restore, Unlink, UnlinkRest, Report,
       Launch, Play, Crash, Die, player, vars

LEMMA FaultStep ==
    ASSUME MaxFaults <= 1, Inv1, [Next]_vars PROVE FaultInv'
<1> USE DEF Staged, Locked
<1>t. PlayTorn => torn'
  BY DEF PlayTorn
<1>u. torn' = torn \/ PlayTorn
  BY TornStays
<1> SUFFICES ASSUME ~ torn' PROVE OneFault'
  BY DEF FaultInv
<1>0. ~ torn /\ ~ PlayTorn
  BY <1>t, <1>u
<1>1. /\ TypeOK /\ Holder /\ TreeInv /\ OneFault
      /\ None \notin Actor /\ \A e \in Exec : e \in Actor
      /\ faults \in {0, 1} /\ MaxFaults \in {0, 1}
  BY <1>0, InstallAssumption DEF Inv1, Inv, FaultInv, TypeOK, InstallAssumption, Actor
<1>2. Fault => faults = 0 /\ faults' = 1
  BY <1>1 DEF Fault
<1>3. ASSUME NEW e \in Exec, Acts(e) PROVE OneFault'
  <2> DEFINE t == token[e]
  <2>1. /\ lock = e /\ e \in Actor /\ t \in Token /\ pc[e] \in Locked
        /\ \A s : Goto(e, s) => pc'[e] = s
        /\ \A x \in Exec \ {e} : /\ pc[x] \notin Locked /\ pc'[x] = pc[x]
                                 /\ token'[x] = token[x]
    BY <1>1, <1>3, ActsAlone
  <2>2. /\ At(e) /\ playing' = playing
        /\ pc[e] \in {"moveFirst", "moveNew", "restore"} => installed = Absent
    BY <1>0, <1>1, <1>3
    DEF TreeInv, At, Acts, Stage, Extract, CopySaves, CopyNone, Discard, MoveOld,
        MoveNew, Restore, Unlink, UnlinkRest, player
  <2>3. pc[e] \notin {"moveNew", "restore"} => Movers = {} /\ ~ Interrupted
    <3>1. ASSUME pc[e] \notin {"moveNew", "restore"} PROVE Movers = {}
      BY <2>1, <3>1 DEF Movers
    <3>2. pc[e] # "sweep"
      BY <1>3 DEF Acts, Stage, Extract, CopySaves, CopyNone, Discard, MoveOld, MoveNew,
                  Restore, Unlink, UnlinkRest
    <3>3. ~ Interrupted
      BY <1>1, <2>1, <3>2 DEF OneFault, Waiting
    <3> QED BY <3>1, <3>3
  <2>4. faults = 0 => pc[e] # "restore" /\ \A u \in Rollbacks :
                        u = t /\ pc[e] \in {"moveNew", "unlink", "unlinkRest"}
    <3>1. ASSUME faults = 0, NEW u \in Rollbacks
          PROVE  u = t /\ pc[e] \in {"moveNew", "unlink", "unlinkRest"}
      <4>1. PICK x \in Exec : token[x] = u /\ pc[x] \in {"moveNew", "unlink", "unlinkRest"}
        BY <1>1, <3>1 DEF OneFault, Attended
      <4> QED BY <2>1, <4>1
    <3> QED BY <1>1, <3>1 DEF OneFault, Sound
  <2>5. CASE MoveOld(e) /\ faults' = faults
    <3>1. /\ rollback' = [rollback EXCEPT ![t] = installed] /\ Goto(e, "moveNew")
          /\ pc[e] = "moveOld" /\ token' = token
      BY <1>1, <2>5 DEF MoveOld, Fault, work
    <3>2. pc'[e] = "moveNew" /\ \A u \in Token \ {t} : rollback'[u] = rollback[u]
      BY <1>1, <2>1, <3>1 DEF TypeOK
    <3>3. e \in Movers'
      BY <3>2 DEF Movers
    <3>4. faults' = 0 => Sound' /\ Attended'
      <4>1. ASSUME faults' = 0 PROVE Sound'
        BY <1>1, <2>1, <2>5, <3>2, <4>1 DEF Sound
      <4>2. ASSUME faults' = 0 PROVE Attended'
        BY <2>1, <2>4, <2>5, <3>1, <3>2, <4>2 DEF Attended, Rollbacks
      <4> QED BY <4>1, <4>2
    <3> QED BY <3>3, <3>4 DEF OneFault, Interrupted
  <2>6. CASE MoveNew(e) /\ faults' = faults
    <3>1. /\ installed' = staging[t] /\ staging[t] # Absent
          /\ pc[e] \in {"moveNew", "moveFirst"} /\ UNCHANGED <<rollback, token>>
          /\ pc'[e] = IF pc[e] = "moveNew" THEN "unlink" ELSE "root"
      BY <1>1, <2>1, <2>2, <2>6 DEF MoveNew, MoveFails, Fault, work, At, Owned
    <3>2. faults' = 0 => Sound' /\ Attended'
      BY <2>1, <2>4, <2>6, <3>1 DEF Sound, Attended, Rollbacks
    <3> QED BY <3>1, <3>2 DEF OneFault, Interrupted
  <2>7. CASE MoveNew(e) /\ faults' # faults
    <3>1. /\ Fault /\ UNCHANGED <<installed, rollback, token>>
          /\ pc'[e] = IF pc[e] = "moveNew" THEN "restore" ELSE "discard"
          /\ pc[e] \in {"moveNew", "moveFirst"}
      BY <2>1, <2>2, <2>7 DEF MoveNew, MoveFails, work
    <3>2. ~ Interrupted' /\ (playing' /\ installed' = Absent => Movers' # {})
      <4>1. CASE pc[e] = "moveNew"
        BY <3>1, <4>1 DEF Interrupted, Movers
      <4>2. CASE pc[e] = "moveFirst"
        <5>1. Rollbacks' = Rollbacks /\ installed' = installed
          BY <3>1 DEF Rollbacks
        <5>2. ~ Interrupted /\ Movers = {} /\ ~ (playing /\ installed = Absent)
          BY <1>1, <2>3, <4>2 DEF OneFault
        <5> QED BY <2>2, <5>1, <5>2 DEF Interrupted
      <4> QED BY <3>1, <4>1, <4>2
    <3> QED BY <1>2, <3>1, <3>2 DEF OneFault
  <2>8. CASE Restore(e)
    <3>1. faults = 1 /\ faults' = 1 /\ installed' = rollback[t]
      BY <1>1, <1>2, <2>2, <2>4, <2>8 DEF Restore, MoveFails
    <3>2. installed' # Absent
      BY <2>2, <2>8, <3>1 DEF Restore, At, Behind
    <3> QED BY <3>1, <3>2 DEF OneFault, Interrupted
  <2>9. CASE Unlink(e) \/ UnlinkRest(e)
    <3>1. installed' = installed /\ installed # Absent
      BY <2>2, <2>9 DEF Unlink, UnlinkRest, At
    <3>2. CASE faults' = faults
      <4>1. /\ token' = token /\ pc[e] \in {"unlink", "unlinkRest"}
            /\ pc'[e] \in {"unlinkRest", "root"}
            /\ pc'[e] = "root" => rollback' = [rollback EXCEPT ![t] = Absent]
            /\ \A u \in Token \ {t} : rollback'[u] = rollback[u]
        BY <1>1, <2>1, <2>9, <3>2 DEF TypeOK, Unlink, UnlinkRest, Fault, work
      <4>2. faults' = 0 => Sound'
        BY <1>1, <2>1, <3>2, <4>1 DEF OneFault, Sound
      <4>3. ASSUME faults' = 0, NEW u \in Rollbacks' PROVE u = t /\ pc'[e] = "unlinkRest"
        BY <1>1, <2>1, <2>4, <3>2, <4>1, <4>3 DEF TypeOK, Rollbacks
      <4>4. faults' = 0 => Attended'
        BY <4>1, <4>3 DEF Attended
      <4> QED BY <3>1, <4>2, <4>4 DEF OneFault, Interrupted
    <3>3. CASE faults' # faults
      <4>1. Fault
        BY <2>9, <3>3 DEF Unlink, UnlinkRest
      <4> QED BY <1>2, <3>1, <4>1 DEF OneFault, Interrupted
    <3> QED BY <3>2, <3>3
  <2>10. CASE \/ Stage(e) \/ Extract(e) \/ CopySaves(e) \/ CopyNone(e) \/ Discard(e)
              \/ MoveOld(e) /\ faults' # faults
    <3>1. UNCHANGED <<installed, rollback>>
      BY <2>10 DEF Stage, Extract, CopySaves, CopyNone, Discard, MoveOld, trees
    <3>2. /\ pc[e] \in {"stage", "extract", "copy", "discard", "moveOld"}
          /\ pc'[e] \in {"idle", "extract", "copy", "discard", "moveOld", "moveFirst"}
      BY <2>1, <2>10 DEF Stage, Extract, CopySaves, CopyNone, Discard, MoveOld, Leave
    <3>3. Rollbacks' = Rollbacks
      BY <3>1 DEF Rollbacks
    <3>4. ~ Interrupted' /\ ~ (playing' /\ installed' = Absent)
      BY <1>1, <2>2, <2>3, <3>1, <3>2, <3>3 DEF Interrupted, OneFault
    <3>5. faults' = 0 => faults = 0
      BY <1>1, <1>2, <2>10 DEF Stage, Extract, CopySaves, CopyNone, Discard, MoveOld
    <3>6. faults' = 0 => Sound' /\ Attended'
      BY <1>1, <2>1, <2>4, <3>2, <3>3, <3>5 DEF OneFault, Sound, Attended
    <3> QED BY <3>4, <3>6 DEF OneFault
  <2> QED BY <1>3, <2>5, <2>6, <2>7, <2>8, <2>9, <2>10 DEF Acts
<1>4. ASSUME NEW a \in Actor, Sweeps(a) PROVE OneFault'
  <2>1. /\ pc[a] = "sweep" /\ lock = a
        /\ \A x \in Actor \ {a} : pc[x] \notin Locked /\ pc'[x] = pc[x]
        /\ pc'[a] \in {"sweep", "idle", "download"}
        /\ \A x \in Exec \ {a} : token'[x] = token[x]
    BY <1>1, <1>4, SweepsAlone
  <2>2. /\ \A x \in Exec : pc[x] \notin Locked \/ pc[x] = "sweep"
        /\ \A x \in Exec : pc'[x] \notin Locked \/ pc'[x] = "sweep"
    BY <1>1, <2>1
  <2>3. Movers = {} /\ Movers' = {} /\ Sound' /\ playing' = playing
    BY <1>4, <2>2
    DEF Movers, Sound, Sweeps, RecoverSweep, RecoverFinish, RecoverFail, player
  <2>4. faults = 0 => Rollbacks = {}
    BY <1>1, <2>2 DEF OneFault, Attended
  <2>5. CASE RecoverSweep(a)
    <3>1. UNCHANGED <<installed, rollback, pc, lock, faults>>
      BY <2>5 DEF RecoverSweep
    <3>2. Rollbacks' = Rollbacks
      BY <3>1 DEF Rollbacks
    <3>3. faults' = 0 => Attended'
      BY <2>4, <3>1, <3>2 DEF Attended
    <3>4. Interrupted' => Waiting'
      BY <1>1, <3>1, <3>2 DEF OneFault, Interrupted, Waiting, Movers, Ambiguous
    <3> QED BY <1>1, <2>3, <3>1, <3>3, <3>4 DEF OneFault
  <2>6. CASE RecoverFinish(a)
    <3>1. faults' = faults
      BY <2>6 DEF RecoverFinish
    <3>2. CASE Interrupted
      <4>1. ~ Ambiguous /\ installed = Absent /\ Rollbacks # {}
        BY <1>1, <3>2 DEF OneFault, Waiting, Interrupted
      <4>2. PICK t \in Rollbacks : installed' = rollback[t]
        BY <2>6, <4>1 DEF RecoverFinish
      <4>3. installed' # Absent /\ faults # 0
        BY <2>4, <4>1, <4>2 DEF Rollbacks
      <4> QED BY <3>1, <4>3 DEF OneFault, Interrupted
    <3>3. CASE ~ Interrupted
      <4>1. installed # Absent \/ Rollbacks = {}
        BY <2>3, <3>3 DEF Interrupted
      <4>2. UNCHANGED <<installed, rollback>>
        BY <2>6, <4>1 DEF RecoverFinish
      <4>3. Rollbacks' = Rollbacks
        BY <4>2 DEF Rollbacks
      <4>4. ~ Interrupted' /\ (faults' = 0 => Attended')
        BY <2>4, <3>1, <4>1, <4>2, <4>3 DEF Interrupted, Attended
      <4> QED BY <1>1, <2>3, <4>2, <4>4 DEF OneFault
    <3> QED BY <3>2, <3>3
  <2>7. CASE RecoverFail(a)
    <3>1. faults = 0 /\ faults' = 1 /\ UNCHANGED <<installed, rollback>>
      BY <1>2, <2>7 DEF RecoverFail, trees
    <3>2. Rollbacks' = {}
      BY <2>4, <3>1 DEF Rollbacks
    <3> QED BY <1>1, <2>3, <3>1, <3>2 DEF OneFault, Interrupted
  <2> QED BY <1>4, <2>5, <2>6, <2>7 DEF Sweeps
<1>5. ASSUME UNCHANGED <<installed, rollback, faults>>,
             \A x \in Exec : /\ pc[x] \in Locked \ {"sweep"} =>
                                  pc'[x] = pc[x] /\ token'[x] = token[x]
                             /\ pc'[x] \in Locked => pc'[x] = pc[x]
                                                       \/ pc'[x] \in {"sweep", "stage"},
             Interrupted => Waiting', playing' => playing \/ installed # Absent
      PROVE  OneFault'
  <2>1. Rollbacks' = Rollbacks /\ Movers' = Movers
    BY <1>5 DEF Rollbacks, Movers
  <2>2. Interrupted' => Waiting'
    BY <1>5, <2>1 DEF Interrupted
  <2>3. faults' = 0 => Sound'
    BY <1>1, <1>5 DEF OneFault, Sound
  <2>4. faults' = 0 => Attended'
    BY <1>1, <1>5, <2>1 DEF OneFault, Attended
  <2> QED BY <1>1, <1>5, <2>1, <2>2, <2>3, <2>4 DEF OneFault
<1>6. ASSUME NEW a \in Actor, RecoverStart(a) PROVE OneFault'
  <2>1. /\ UNCHANGED <<installed, rollback, token, playing, faults>> /\ pc[a] = "recover"
        /\ \A x \in Actor \ {a} : pc'[x] = pc[x]
        /\ \/ lock = None /\ lock' = a /\ pc'[a] = "sweep"
           \/ lock # None /\ lock' = lock /\ pc'[a] \in {"idle", "download"}
    BY <1>1, <1>6 DEF TypeOK, RecoverStart, AfterRecover, Goto, trees, work, player
  <2>2. Interrupted => Waiting'
    BY <1>1, <2>1 DEF OneFault, Waiting, Ambiguous, Rollbacks
  <2> QED BY <1>1, <1>5, <2>1, <2>2
<1>7. ASSUME NEW o \in Opener, Open(o) PROVE OneFault'
  <2>1. /\ UNCHANGED <<installed, rollback, token, playing, faults, lock>>
        /\ \A x \in Exec : pc'[x] = pc[x]
    BY <1>1, <1>7, InstallAssumption
    DEF InstallAssumption, TypeOK, Open, Goto, trees, work, player
  <2>2. Interrupted => Waiting'
    BY <1>1, <2>1 DEF OneFault, Waiting, Ambiguous, Rollbacks
  <2> QED BY <1>5, <2>1, <2>2
<1>8. ASSUME NEW e \in Exec, DoWork(e) \/ Download(e) \/ TakeLease(e) \/ Report(e)
      PROVE  OneFault'
  <2>1. /\ UNCHANGED <<installed, rollback, playing, faults>>
        /\ \A x \in Exec \ {e} : pc'[x] = pc[x] /\ token'[x] = token[x]
    BY <1>1, <1>8
    DEF TypeOK, DoWork, Download, TakeLease, Report, Leave, Goto, trees, work, player
  <2>2. pc[e] \in {"idle", "download", "verify", "root"}
    BY <1>1, <1>8 DEF TypeOK, DoWork, Download, TakeLease, Report
  <2>3. /\ \/ pc'[e] \in {"recover", "idle"}
           \/ pc[e] = "download" /\ pc'[e] = "verify"
           \/ pc[e] = "verify" /\ lock = None /\ pc'[e] = "stage"
        /\ pc'[e] # "stage" => lock' = lock
    BY <1>1, <1>8 DEF TypeOK, DoWork, Download, TakeLease, Report, Leave, Goto
  <2>4. Interrupted => Waiting'
    BY <1>1, <2>1, <2>3 DEF OneFault, Waiting, Ambiguous, Rollbacks
  <2> QED BY <1>5, <2>1, <2>2, <2>3, <2>4
<1>9. CASE \/ \E t \in Token : Enqueue(t)
           \/ \E forget \in BOOLEAN : Stop(forget)
           \/ UNCHANGED vars
           \/ Launch
  <2>1. /\ UNCHANGED <<installed, rollback, faults, pc, token, lock>>
        /\ playing' => playing \/ installed # Absent
    BY <1>9 DEF Enqueue, Stop, Launch, Ready, vars, trees, work, player
  <2>2. Interrupted => Waiting'
    BY <1>1, <2>1 DEF OneFault, Waiting, Ambiguous, Rollbacks
  <2> QED BY <1>5, <2>1, <2>2
<1>10. CASE Play
  <2>1. UNCHANGED <<rollback, pc, token, faults>>
    BY <1>10 DEF Play, work
  <2>2. installed' # Absent
    BY <1>1, <1>10, PlayIs DEF PlaySays, Gains
  <2>3. faults' = 0 => Sound' /\ Attended'
    BY <1>1, <2>1 DEF OneFault, Sound, Attended, Rollbacks
  <2> QED BY <2>2, <2>3 DEF OneFault, Interrupted
<1>11. CASE Crash
  <2>1. faults = 0 /\ faults' = 1 /\ UNCHANGED <<installed, rollback>>
    BY <1>2, <1>11 DEF Crash, Die, trees
  <2>2. Rollbacks' = Rollbacks
    BY <2>1 DEF Rollbacks
  <2>3. ASSUME Interrupted' PROVE Waiting'
    <3>1. PICK t \in Rollbacks : TRUE
      BY <2>2, <2>3 DEF Interrupted
    <3>2. PICK e \in Exec : token[e] = t /\ pc[e] \in {"moveNew", "unlink", "unlinkRest"}
      BY <1>1, <2>1 DEF OneFault, Attended
    <3>3. pc[e] = "moveNew"
      BY <1>1, <2>1, <2>3, <3>2 DEF Interrupted, TreeInv, At
    <3>4. lock = e /\ \A x \in Actor \ {e} : pc[x] \notin Locked
      BY <1>1, <3>3, Alone
    <3>5. Rollbacks = {t}
      BY <1>1, <2>1, <3>2, <3>4 DEF OneFault, Attended
    <3>6. CASE Die(Launcher)
      <4>1. pc'[e] = pc[e]
        BY <1>1, <3>6, InstallAssumption DEF InstallAssumption, Die
      <4> QED BY <2>3, <3>3, <4>1 DEF Interrupted, Movers
    <3>7. CASE Die(Actor \ Launcher)
      <4>1. \A x \in Exec : pc'[x] = "idle"
        BY <1>1, <3>7, InstallAssumption DEF InstallAssumption, Die
      <4>2. ~ Ambiguous'
        BY <2>2, <3>5 DEF Ambiguous, Rollbacks
      <4> QED BY <4>1, <4>2 DEF Waiting
    <3> QED BY <1>11, <3>6, <3>7 DEF Crash
  <2>4. playing' /\ installed' = Absent => Movers' # {}
    <3>1. CASE Die(Actor \ Launcher) /\ playing' = FALSE
      BY <3>1
    <3>2. CASE Die(Launcher) /\ UNCHANGED playing
      <4>1. \A x \in Exec : pc'[x] = pc[x]
        BY <1>1, <3>2, InstallAssumption DEF InstallAssumption, Die
      <4>2. Movers' = Movers
        BY <4>1 DEF Movers
      <4> QED BY <1>1, <2>1, <3>2, <4>2 DEF OneFault
    <3> QED BY <1>11, <3>1, <3>2 DEF Crash
  <2> QED BY <2>1, <2>3, <2>4 DEF OneFault
<1> QED BY <1>0, <1>3, <1>4, <1>6, <1>7, <1>8, <1>9, <1>10, <1>11
        DEF Next, Recover, Install, Acts, Sweeps
-----------------------------------------------------------------------------
(***************************************************************************)
(* The pack the player has: the active one, or the one that is aside while *)
(* it is replaced, or the only one that is aside.                          *)
(***************************************************************************)
LEMMA EffectiveIs ==
    /\ installed # Absent \/ Rollbacks = {} => Effective = installed
    /\ \A e \in Exec : installed = Absent /\ Movers = {e} /\ token[e] \in Rollbacks
                         => Effective = rollback[token[e]]
    /\ \A t \in Token : installed = Absent /\ Movers = {} /\ Rollbacks = {t}
                          => Effective = rollback[t]
<1>1. ASSUME NEW e \in Exec, Movers = {e} PROVE SetAside = {token[e]}
  BY <1>1 DEF SetAside, Movers
<1>2. ASSUME Movers = {} PROVE SetAside = Rollbacks
  BY <1>2 DEF SetAside, Movers
<1>3. \A t : (CHOOSE u \in {t} : TRUE) = t
  OBVIOUS
<1> QED BY <1>1, <1>2, <1>3 DEF Effective

\* the same of the state after a step
LEMMA EffectiveIsThen ==
    /\ installed' # Absent \/ Rollbacks' = {} => Effective' = installed'
    /\ \A e \in Exec : installed' = Absent /\ Movers' = {e} /\ token'[e] \in Rollbacks'
                         => Effective' = rollback'[token'[e]]
    /\ \A t \in Token : installed' = Absent /\ Movers' = {} /\ Rollbacks' = {t}
                          => Effective' = rollback'[t]
<1>1. ASSUME NEW e \in Exec, Movers' = {e} PROVE SetAside' = {token'[e]}
  BY <1>1 DEF SetAside, Movers
<1>2. ASSUME Movers' = {} PROVE SetAside' = Rollbacks'
  BY <1>2 DEF SetAside, Movers
<1>3. \A t : (CHOOSE u \in {t} : TRUE) = t
  OBVIOUS
<1> QED BY <1>1, <1>2, <1>3 DEF Effective

Midway == {"moveOld", "moveNew", "moveFirst", "restore"}

(***************************************************************************)
(* The saves the replacement under way will bring, before and after.       *)
(***************************************************************************)
LEMMA CopiedIs ==
    /\ Replacing = {} => Copied = None
    /\ \A e \in Exec : Replacing = {e} => Copied = staging[token[e]].saves
<1>1. \A t : (CHOOSE u \in {t} : TRUE) = t
  OBVIOUS
<1> QED BY <1>1 DEF Copied

LEMMA CopiedIsThen ==
    /\ Replacing' = {} => Copied' = None
    /\ \A e \in Exec : Replacing' = {e} => Copied' = staging'[token'[e]].saves
<1>1. \A t : (CHOOSE u \in {t} : TRUE) = t
  OBVIOUS
<1> QED BY <1>1 DEF Copied

\* what a step is to the pack that is active or would be restored
Same == Effective' = Effective
Stays == Same /\ Copied' = Copied
Began == Same /\ Copied = None /\ Copied' = Kept(Effective)
Abandoned == Same /\ Copied # None /\ Copied' = None
Replaced == /\ Effective' \in Tree /\ Effective'.pack = "new"
            /\ Copied # None /\ Effective'.saves = Copied /\ Copied' = None
Brings(s) == \/ Copied' = Copied
             \/ Copied # None /\ Copied' = Copied \cup {s}
Played == /\ Effective \in Tree /\ Effective' \in Tree
          /\ Effective'.pack = Effective.pack
          /\ \E s \in Save \ Effective.saves :
               Effective'.saves = Effective.saves \cup {s} /\ Brings(s)
Torn == torn' /\ (torn \/ Copied # None)

(***************************************************************************)
(* A step of the transaction itself.                                       *)
(***************************************************************************)
LEMMA ActsEffect ==
    ASSUME MaxFaults <= 1, Inv1, ~ torn, NEW e \in Exec, Acts(e)
    PROVE  Stays \/ Began \/ Abandoned \/ Replaced
<1> USE DEF Staged, Locked
<1> DEFINE t == token[e]
<1>1. /\ TypeOK /\ Holder /\ TreeInv /\ FreshInv /\ OneFault
      /\ faults \in {0, 1} /\ MaxFaults \in {0, 1}
  BY InstallAssumption DEF Inv1, Inv, FaultInv, TypeOK, InstallAssumption
<1>2. Fault => faults = 0 /\ faults' = 1
  BY <1>1 DEF Fault
<1>3. /\ e \in Actor /\ t \in Token /\ pc[e] \in Locked
      /\ \A s : Goto(e, s) => pc'[e] = s
      /\ \A x \in Exec \ {e} : /\ x \in Actor /\ pc[x] \notin Locked /\ pc'[x] = pc[x]
                               /\ token'[x] = token[x]
  BY <1>1, ActsAlone DEF Actor
<1>4. /\ At(e) /\ Fresh(e)
      /\ pc[e] \in {"moveFirst", "moveNew", "restore"} => installed = Absent
  BY <1>1 DEF TreeInv, FreshInv, At
<1>5. /\ pc[e] \in {"moveNew", "restore"} => Movers = {e}
      /\ pc[e] \notin {"moveNew", "restore"} => Movers = {}
      /\ pc'[e] \in {"moveNew", "restore"} => Movers' = {e}
      /\ pc'[e] \notin {"moveNew", "restore"} => Movers' = {}
  BY <1>3 DEF Movers
<1>6. /\ pc[e] \in Midway => Copied = staging[t].saves /\ Copied # None
      /\ pc[e] \notin Midway => Copied = None
      /\ pc'[e] \in Midway => Copied' = staging'[token'[e]].saves
      /\ pc'[e] \notin Midway => Copied' = None
  <2>1. /\ pc[e] \in Midway => Replacing = {e}
        /\ pc[e] \notin Midway => Replacing = {}
        /\ pc'[e] \in Midway => Replacing' = {e}
        /\ pc'[e] \notin Midway => Replacing' = {}
    BY <1>3 DEF Replacing, Midway
  <2>2. ASSUME pc[e] \in Midway PROVE staging[t].saves # None
    <3>1. staging[t] \in Tree
      BY <1>1, <1>3, <1>4, <2>2 DEF TypeOK, At, Owned, Midway
    <3> QED BY <3>1, AbsentAssumption DEF Tree
  <2> QED BY <2>1, <2>2, CopiedIs, CopiedIsThen
<1>7. pc[e] \notin {"moveNew", "restore"} => ~ Interrupted
  <2>1. pc[e] # "sweep"
    BY DEF Acts, Stage, Extract, CopySaves, CopyNone, Discard, MoveOld, MoveNew,
           Restore, Unlink, UnlinkRest
  <2> QED BY <1>1, <1>3, <1>5, <2>1 DEF OneFault, Waiting
<1>8. ASSUME UNCHANGED <<installed, rollback, token>>,
             pc[e] \in {"moveNew", "restore"} <=> pc'[e] \in {"moveNew", "restore"}
      PROVE  Same
  <2>1. Rollbacks' = Rollbacks /\ Movers' = Movers
    BY <1>5, <1>8 DEF Rollbacks
  <2>2. SetAside' = SetAside
    BY <1>8, <2>1 DEF SetAside, Movers
  <2> QED BY <1>8, <2>1, <2>2 DEF Effective, Same
<1>9. ASSUME UNCHANGED <<installed, rollback>>,
             pc[e] \notin {"moveNew", "restore"}, pc'[e] \notin {"moveNew", "restore"}
      PROVE  Same
  <2>1. installed # Absent \/ Rollbacks = {}
    BY <1>5, <1>7, <1>9 DEF Interrupted
  <2>2. Rollbacks' = Rollbacks
    BY <1>9 DEF Rollbacks
  <2> QED BY <1>9, <2>1, <2>2, EffectiveIs, EffectiveIsThen DEF Same
<1>10. CASE Stage(e) \/ Extract(e) \/ Discard(e)
  <2>1. /\ UNCHANGED <<installed, rollback>>
        /\ pc[e] \in {"stage", "extract", "discard"}
        /\ pc'[e] \in {"idle", "extract", "copy", "discard"}
    BY <1>3, <1>10 DEF Stage, Extract, Discard, Leave
  <2> QED BY <1>6, <1>9, <2>1 DEF Midway, Stays
<1>11. CASE CopySaves(e)
  <2>1. /\ UNCHANGED <<installed, rollback, token>> /\ installed # Absent /\ pc[e] = "copy"
        /\ staging[t] \in Tree
    BY <1>1, <1>3, <1>11 DEF TypeOK, CopySaves, Refused, work
  <2>2. CASE Goto(e, "discard")
    BY <1>3, <1>6, <1>9, <2>1, <2>2 DEF Midway, Stays
  <2>3. CASE /\ Goto(e, "moveOld")
             /\ staging' = [staging EXCEPT ![t].saves = @ \cup installed.saves]
    <3>1. staging'[t].saves = staging[t].saves \cup installed.saves
      BY <1>1, <1>3, <2>1, <2>3 DEF TypeOK, Tree
    <3>2. Copied' = installed.saves /\ Copied = None
      BY <1>3, <1>4, <1>6, <2>1, <2>3, <3>1 DEF Midway, Fresh, Owned
    <3>3. Same /\ Effective = installed
      BY <1>3, <1>9, <2>1, <2>3, EffectiveIs
    <3> QED BY <2>1, <3>2, <3>3 DEF Began, Kept
  <2> QED BY <1>11, <2>2, <2>3 DEF CopySaves
<1>12. CASE CopyNone(e)
  <2>1. /\ UNCHANGED <<installed, rollback, staging, token>> /\ pc[e] = "copy"
        /\ pc'[e] = IF Refused(e) THEN "discard" ELSE "moveFirst"
    BY <1>3, <1>12 DEF CopyNone, trees, work
  <2>2. Same
    BY <1>9, <2>1
  <2>3. CASE Refused(e)
    BY <1>6, <2>1, <2>2, <2>3 DEF Midway, Stays
  <2>4. CASE ~ Refused(e)
    <3>1. installed = Absent
      BY <1>12, <2>4 DEF CopyNone
    <3>2. Rollbacks = {}
      BY <1>5, <1>7, <2>1, <3>1 DEF Interrupted
    <3>3. Effective = Absent
      BY <3>1, <3>2, EffectiveIs
    <3>4. Copied = None /\ Copied' = {}
      BY <1>4, <1>6, <2>1, <2>4 DEF Midway, Fresh, Owned
    <3> QED BY <2>2, <3>3, <3>4 DEF Began, Kept
  <2> QED BY <2>3, <2>4
<1>13. CASE MoveOld(e)
  <2>1. UNCHANGED <<staging, token>> /\ pc[e] = "moveOld"
    BY <1>13 DEF MoveOld, work
  <2>2. CASE UNCHANGED <<rollback, installed>> /\ Goto(e, "discard")
    BY <1>3, <1>6, <1>9, <2>1, <2>2 DEF Midway, Abandoned
  <2>3. CASE /\ rollback' = [rollback EXCEPT ![t] = installed]
             /\ installed' = Absent /\ Goto(e, "moveNew")
    <3>1. rollback'[t] = installed /\ installed # Absent
      BY <1>1, <1>3, <1>4, <2>1, <2>3 DEF TypeOK, At
    <3>2. Movers' = {e} /\ pc'[e] = "moveNew"
      BY <1>3, <1>5, <2>3
    <3>3. t \in Rollbacks'
      BY <1>3, <3>1 DEF Rollbacks
    <3>4. Effective' = installed
      BY <2>1, <2>3, <3>1, <3>2, <3>3, EffectiveIsThen
    <3>5. Copied' = Copied
      BY <1>6, <2>1, <3>2 DEF Midway
    <3> QED BY <3>1, <3>4, <3>5, EffectiveIs DEF Stays, Same
  <2> QED BY <1>13, <2>2, <2>3 DEF MoveOld
<1>14. CASE MoveNew(e)
  <2>1. /\ UNCHANGED <<rollback, token>> /\ installed = Absent
        /\ pc[e] \in {"moveNew", "moveFirst"}
        /\ staging[t] \in Tree /\ staging[t] # Absent
    BY <1>1, <1>3, <1>4, <1>14 DEF TypeOK, MoveNew, At, Owned, work
  <2>2. CASE /\ installed' = staging[t]
             /\ Goto(e, IF pc[e] = "moveNew" THEN "unlink" ELSE "root")
    <3>1. Effective' = staging[t] /\ staging[t].pack = "new"
      BY <1>4, <2>1, <2>2, EffectiveIsThen DEF Fresh, Owned
    <3>2. Copied = staging[t].saves /\ Copied # None /\ Copied' = None
      BY <1>3, <1>6, <2>1, <2>2 DEF Midway
    <3> QED BY <2>1, <3>1, <3>2 DEF Replaced
  <2>3. CASE UNCHANGED <<installed, staging>> /\ pc[e] = "moveNew" /\ Goto(e, "restore")
    BY <1>3, <1>6, <1>8, <2>1, <2>3 DEF Midway, Stays
  <2>4. CASE UNCHANGED <<installed, staging>> /\ pc[e] = "moveFirst" /\ Goto(e, "discard")
    BY <1>3, <1>6, <1>8, <2>1, <2>4 DEF Midway, Abandoned
  <2> QED BY <1>14, <2>1, <2>2, <2>3, <2>4 DEF MoveNew
<1>15. CASE Restore(e)
  <2>1. /\ installed = Absent /\ pc[e] = "restore" /\ pc'[e] = "discard"
        /\ rollback[t] # Absent
    BY <1>3, <1>4, <1>15 DEF Restore, At, Behind
  <2>2. faults = 1
    BY <1>1, <2>1 DEF OneFault, Sound
  <2>3. installed' = rollback[t]
    BY <1>1, <1>2, <1>15, <2>1, <2>2 DEF Restore, MoveFails
  <2>4. t \in Rollbacks /\ Movers = {e}
    BY <1>3, <1>5, <2>1 DEF Rollbacks
  <2>5. Effective = rollback[t] /\ Effective' = rollback[t]
    BY <2>1, <2>3, <2>4, EffectiveIs, EffectiveIsThen
  <2> QED BY <1>6, <2>1, <2>5 DEF Midway, Abandoned, Same
<1>16. CASE Unlink(e) \/ UnlinkRest(e)
  <2>1. /\ installed' = installed /\ installed # Absent
        /\ pc[e] \in {"unlink", "unlinkRest"}
        /\ pc'[e] \in {"unlinkRest", "discard", "root"}
    BY <1>3, <1>4, <1>16 DEF Unlink, UnlinkRest, At
  <2>2. Same
    BY <2>1, EffectiveIs, EffectiveIsThen DEF Same
  <2> QED BY <1>6, <2>1, <2>2 DEF Midway, Stays
<1> QED BY <1>10, <1>11, <1>12, <1>13, <1>14, <1>15, <1>16 DEF Acts

(***************************************************************************)
(* A step of a recovery: the only pack aside is the one put back.          *)
(***************************************************************************)
LEMMA SweepsEffect ==
    ASSUME Inv1, NEW a \in Actor, Sweeps(a) PROVE Stays
<1> USE DEF Staged, Locked
<1>1. TypeOK /\ Holder /\ \A x \in Exec : x \in Actor
  BY DEF Inv1, Inv, Actor
<1>2. /\ pc[a] = "sweep"
      /\ \A x \in Actor \ {a} : pc[x] \notin Locked /\ pc'[x] = pc[x]
      /\ pc'[a] \in {"sweep", "idle", "download"}
  BY <1>1, SweepsAlone
<1>3. Movers = {} /\ Movers' = {} /\ Replacing = {} /\ Replacing' = {}
  BY <1>1, <1>2 DEF Movers, Replacing
<1>4. Copied' = Copied
  BY <1>3, CopiedIs, CopiedIsThen
<1>5. CASE UNCHANGED <<installed, rollback>>
  <2>1. Rollbacks' = Rollbacks
    BY <1>5 DEF Rollbacks
  <2>2. SetAside' = SetAside
    BY <1>3, <2>1 DEF SetAside, Movers
  <2> QED BY <1>4, <1>5, <2>1, <2>2 DEF Effective, Stays, Same
<1>6. CASE ~ UNCHANGED <<installed, rollback>>
  <2>1. RecoverFinish(a)
    BY <1>6 DEF Sweeps, RecoverSweep, RecoverFinish, RecoverFail, trees
  <2>2. installed = Absent /\ ~ Ambiguous
    BY <1>6, <2>1 DEF RecoverFinish
  <2>3. PICK t \in Token : Rollbacks = {t}
    BY <2>2 DEF Ambiguous
  <2>4. installed' = rollback[t] /\ rollback[t] # Absent
    BY <1>6, <2>1, <2>3 DEF RecoverFinish, Rollbacks
  <2> QED BY <1>3, <1>4, <2>2, <2>3, <2>4, EffectiveIs, EffectiveIsThen DEF Stays, Same
<1> QED BY <1>5, <1>6

(***************************************************************************)
(* A save by the player, and a save in the gap.                            *)
(***************************************************************************)
LEMMA PlayEffect ==
    ASSUME Inv1, Play PROVE Played
<1> USE DEF Staged, Locked
<1>1. TypeOK /\ Holder /\ TreeInv /\ SavedInv /\ \A x \in Exec : x \in Actor
  BY DEF Inv1, Inv, Actor
<1>2. PICK s \in Save : PlaySays(s)
  BY <1>1, PlayIs
<1>3. installed \in Tree /\ installed # Absent /\ installed' # Absent
  BY <1>1, <1>2 DEF TypeOK, PlaySays, Gains
<1>4. Effective = installed /\ Effective' = installed'
  BY <1>3, EffectiveIs, EffectiveIsThen
<1>5. s \notin installed.saves
  BY <1>1, <1>2, <1>3 DEF SavedInv, PlaySays
<1>6. Replacing' = Replacing /\ token' = token /\ pc' = pc
  BY <1>2 DEF PlaySays, work, Replacing
<1>7. Brings(s)
  <2>1. CASE Replacing = {}
    BY <1>6, <2>1, CopiedIs, CopiedIsThen DEF Brings
  <2>2. ASSUME NEW e \in Replacing PROVE Brings(s)
    <3>1. e \in Exec /\ pc[e] \in Locked /\ token[e] \in Token
          /\ staging[token[e]] \in Tree
      BY <1>1, <2>2 DEF Replacing, TypeOK, TreeInv, At, Owned
    <3>2. Replacing = {e}
      BY <1>1, <2>2, <3>1, Alone DEF Replacing
    <3>3. /\ Copied = staging[token[e]].saves
          /\ Copied' = staging'[token[e]].saves
      BY <1>6, <3>1, <3>2, CopiedIs, CopiedIsThen
    <3>4. Copied # None
      BY <3>1, <3>3, AbsentAssumption DEF Tree
    <3>5. \/ staging'[token[e]].saves = staging[token[e]].saves
          \/ staging'[token[e]].saves = staging[token[e]].saves \cup {s}
      <4>1. CASE staging'[token[e]] = staging[token[e]]
        BY <4>1
      <4>2. CASE Gains(staging[token[e]], staging'[token[e]], s)
        BY <4>2 DEF Gains
      <4> QED BY <1>2, <3>1, <4>1, <4>2 DEF PlaySays
    <3> QED BY <3>3, <3>4, <3>5 DEF Brings
  <2> QED BY <2>1, <2>2
<1> QED BY <1>2, <1>3, <1>4, <1>5, <1>7 DEF Played, PlaySays, Gains

LEMMA TornEffect ==
    ASSUME Inv1, ~ torn, PlayTorn PROVE Torn
<1> USE DEF Staged, Locked
<1>1. TypeOK /\ Holder /\ TreeInv /\ OneFault /\ \A x \in Exec : x \in Actor
  BY DEF Inv1, Inv, FaultInv, Actor
<1>2. torn' /\ playing /\ installed = Absent
  BY DEF PlayTorn
<1>3. PICK e \in Movers : TRUE
  BY <1>1, <1>2 DEF OneFault
<1>4. /\ e \in Exec /\ pc[e] \in {"moveNew", "restore"}
      /\ token[e] \in Token /\ staging[token[e]] \in Tree
  BY <1>1, <1>3 DEF Movers, TypeOK, TreeInv, At, Owned
<1>5. Replacing = {e}
  BY <1>1, <1>4, Alone DEF Replacing
<1>6. Copied = staging[token[e]].saves
  BY <1>4, <1>5, CopiedIs
<1>7. Copied # None
  BY <1>4, <1>6, AbsentAssumption DEF Tree
<1> QED BY <1>2, <1>7 DEF Torn

(***************************************************************************)
(* A step outside the lease: the death of the holder can only end a        *)
(* replacement that has not taken effect.                                  *)
(***************************************************************************)
LEMMA OutsideEffect ==
    ASSUME Inv1, FaultInv', ~ torn, Outside, TypeOK' PROVE Stays \/ Abandoned
<1> USE DEF Staged, Locked
<1>1. TypeOK /\ Holder /\ TreeInv /\ \A x \in Exec : x \in Actor
  BY DEF Inv1, Inv, Actor
<1>2. UNCHANGED <<installed, rollback, staging, torn>> /\ OneFault'
  BY DEF Outside, trees, FaultInv
<1>3. Rollbacks' = Rollbacks
  BY <1>2 DEF Rollbacks
<1>4. CASE Replacing = {}
  <2>1. Replacing' = {} /\ Movers = {} /\ Movers' = {}
    BY <1>4 DEF Outside, Inside, Replacing, Movers
  <2>2. SetAside' = SetAside
    BY <1>3, <2>1 DEF SetAside, Movers
  <2>3. Copied' = Copied
    BY <1>4, <2>1, CopiedIs, CopiedIsThen
  <2> QED BY <1>2, <1>3, <2>2, <2>3 DEF Effective, Stays, Same
<1>5. ASSUME NEW e \in Replacing PROVE Stays \/ Abandoned
  <2>1. /\ e \in Exec /\ pc[e] \in Midway /\ token[e] \in Token
        /\ staging[token[e]] \in Tree
    BY <1>1, <1>5 DEF Replacing, Midway, TypeOK, TreeInv, At, Owned
  <2>2. \A x \in Exec \ {e} : pc[x] \notin Locked
    BY <1>1, <2>1, Alone DEF Midway
  <2>3. \A x \in Exec \ {e} : pc'[x] \notin Midway
    BY <2>2 DEF Outside, Inside, Midway
  <2>4. Replacing = {e} /\ Copied = staging[token[e]].saves
    <3>1. Replacing = {e}
      BY <1>5, <2>2 DEF Replacing
    <3> QED BY <2>1, <3>1, CopiedIs
  <2>5. Copied # None
    BY <2>1, <2>4, AbsentAssumption DEF Tree
  <2>6. CASE pc'[e] \in Midway
    <3>1. pc'[e] = pc[e] /\ token'[e] = token[e]
      BY <2>1, <2>6 DEF Outside, Inside, Midway
    <3>2. Replacing' = {e} /\ Movers' = Movers /\ Movers \subseteq {e}
      BY <2>1, <2>2, <2>3, <3>1 DEF Replacing, Movers, Midway
    <3>3. Copied' = Copied
      BY <1>2, <2>1, <2>4, <3>1, <3>2, CopiedIsThen
    <3>4. SetAside' = SetAside
      BY <1>3, <3>1, <3>2 DEF SetAside, Movers
    <3> QED BY <1>2, <1>3, <3>3, <3>4 DEF Effective, Stays, Same
  <2>7. CASE pc'[e] \notin Midway
    <3>1. Replacing' = {} /\ Movers' = {}
      BY <2>3, <2>7 DEF Replacing, Movers, Midway
    <3>2. Copied' = None
      BY <3>1, CopiedIsThen
    <3>3. CASE installed # Absent \/ Rollbacks = {}
      BY <1>2, <1>3, <2>5, <3>2, <3>3, EffectiveIs, EffectiveIsThen DEF Abandoned, Same
    <3>4. CASE installed = Absent /\ Rollbacks # {}
      <4>1. Interrupted'
        BY <1>2, <1>3, <3>1, <3>4 DEF Interrupted
      <4>2. PICK u \in Token : Rollbacks' = {u}
        BY <1>2, <4>1 DEF OneFault, Waiting, Ambiguous
      <4>3. Effective' = rollback[u]
        BY <1>2, <3>1, <3>4, <4>2, EffectiveIsThen
      <4>4. CASE pc[e] \in {"moveNew", "restore"}
        <5>1. token[e] \in Rollbacks /\ Movers = {e}
          BY <1>1, <2>1, <2>2, <4>4 DEF TreeInv, At, Behind, Rollbacks, Movers
        <5> QED BY <1>3, <2>1, <2>5, <3>2, <3>4, <4>2, <4>3, <5>1, EffectiveIs
                DEF Abandoned, Same
      <4>5. CASE pc[e] \notin {"moveNew", "restore"}
        <5>1. Movers = {}
          BY <2>2, <4>5 DEF Movers
        <5> QED BY <1>3, <2>5, <3>2, <3>4, <4>2, <4>3, <5>1, EffectiveIs
                DEF Abandoned, Same
      <4> QED BY <4>4, <4>5
    <3> QED BY <3>3, <3>4
  <2> QED BY <2>6, <2>7
<1> QED BY <1>4, <1>5

(***************************************************************************)
(* With at most one process death or failed file operation, the whole      *)
(* transaction, its recoveries, its overlapping executions and the saves   *)
(* of the running game implement RetroPack: the pack is replaced in one    *)
(* step, with what was saved when its replacement began, until a save      *)
(* falls between the two moves.                                            *)
(***************************************************************************)
THEOREM TransactionIsAtomic ==
    ASSUME MaxFaults <= 1 PROVE Spec => ReplacesAtomically
<1>1. Init => Inv1
  BY InvInit, FreshInit, SavedInit, FaultInit DEF Inv1
<1>2. Inv1 /\ [Next]_vars => Inv1'
  BY InvStep, FreshStep, SavedStep, FaultStep DEF Inv1
<1>3. Init => Promise!Init
  <2> SUFFICES ASSUME Init PROVE Promise!Init
    OBVIOUS
  <2>1. Rollbacks = {}
    BY DEF Init, Rollbacks
  <2>2. Effective = installed
    BY <2>1, EffectiveIs
  <2>3. Copied = None /\ torn = FALSE
    <3>1. Replacing = {}
      BY DEF Init, Replacing, Actor
    <3> QED BY <3>1, CopiedIs DEF Init
  <2>4. CASE installed = Absent
    BY <2>2, <2>3, <2>4 DEF Promise!Init
  <2>5. CASE installed = OldTree
    <3>1. OldTree \in Tree
      BY InstallAssumption DEF InstallAssumption, OldTree, Tree
    <3>2. OldTree # Absent /\ OldTree.pack = "old" /\ OldTree.saves = OldSave
      BY <3>1, AbsentAssumption DEF OldTree
    <3> QED BY <2>2, <2>3, <2>5, <3>2 DEF Promise!Init
  <2> QED BY <2>4, <2>5 DEF Init
<1>4. Inv1 /\ Inv1' /\ [Next]_vars =>
        [Promise!Next]_<<IF Effective = Absent THEN "none" ELSE Effective.pack,
                         IF Effective = Absent THEN {} ELSE Effective.saves, Copied, torn>>
  <2> SUFFICES ASSUME Inv1, Inv1', [Next]_vars
               PROVE  [Promise!Next]_<<IF Effective = Absent THEN "none" ELSE Effective.pack,
                                       IF Effective = Absent THEN {} ELSE Effective.saves,
                                       Copied, torn>>
    OBVIOUS
  <2> USE DEF Promise!Next
  <2>1. (torn' = torn \/ PlayTorn) /\ (PlayTorn => torn')
    BY TornStays DEF PlayTorn
  <2>2. CASE torn
    BY <2>1, <2>2
  <2>3. CASE ~ torn /\ PlayTorn
    BY <2>3, TornEffect DEF Torn, Promise!Tear
  <2>4. CASE ~ torn /\ torn' = torn
    <3>1. CASE Stays
      BY <2>4, <3>1 DEF Stays, Same
    <3>2. CASE Began
      BY <2>4, <3>2 DEF Began, Same, Kept, Promise!Begin
    <3>3. CASE Abandoned
      BY <2>4, <3>3 DEF Abandoned, Same, Promise!Abandon
    <3>4. CASE Replaced
      BY <2>4, <3>4, AbsentAssumption DEF Replaced, Promise!Replace
    <3>5. CASE Played
      <4>1. Effective # Absent /\ Effective' # Absent /\ Effective.pack # "none"
        BY <3>5, AbsentAssumption DEF Played, Tree
      <4>2. PICK s \in Save \ Effective.saves :
              Effective'.saves = Effective.saves \cup {s} /\ Brings(s)
        BY <3>5 DEF Played
      <4>3. Effective'.pack = Effective.pack
        BY <3>5 DEF Played
      <4>4. Promise!Play
        BY <2>4, <4>1, <4>2, <4>3 DEF Brings, Promise!Play
      <4> QED BY <4>4
    <3>6. ASSUME NEW a \in Actor, Sweeps(a) PROVE Stays
      BY <3>6, SweepsEffect
    <3>7. ASSUME NEW e \in Exec, Acts(e) PROVE Stays \/ Began \/ Abandoned \/ Replaced
      BY <2>4, <3>7, ActsEffect
    <3>8. Inv1 /\ FaultInv' /\ TypeOK /\ TypeOK'
      BY DEF Inv1, Inv
    <3>9. CASE Play
      BY <3>5, <3>9, PlayEffect
    <3>10. CASE Outside
      BY <2>4, <3>1, <3>3, <3>8, <3>10, OutsideEffect
    <3>11. CASE PlayTorn
      BY <2>3, <2>4, <3>11
    <3> QED BY <3>1, <3>2, <3>3, <3>4, <3>6, <3>7, <3>8, <3>9, <3>10, <3>11, StepKinds
  <2> QED BY <2>1, <2>2, <2>3, <2>4
<1> QED BY <1>1, <1>2, <1>3, <1>4, PTL DEF Spec, ReplacesAtomically, Promise!Spec
=============================================================================
