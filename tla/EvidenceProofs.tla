--------------------------- MODULE EvidenceProofs ---------------------------
(***************************************************************************)
(* Evidence and its readers.  First the ledger of the maintenance runs,    *)
(* where an action is complete once its receipt has evidence: its          *)
(* properties hold for every set of processes, keys and tokens.  Then the  *)
(* scripts that read evidence: what they conclude is true of all that they *)
(* have read, for traces, logs, ghosts, sessions and patches of any size.  *)
(*                                                                         *)
(* The two specifications share no variable; each part of the module is    *)
(* about one of them.                                                      *)
(***************************************************************************)
EXTENDS ActionReceipts, EvidenceReaders, FiniteSetTheorems, SequenceTheorems,
        WellFoundedInduction, TLAPS

-----------------------------------------------------------------------------
(* The ledger of receipts                                                   *)

\* A process inside a command holds the lock, so there is at most one.
LockHeld == \A p \in Proc : pc[p] # "idle" => lock = p

\* new keeps every receipt that is complete in old.
Kept(old, new) ==
    \A k \in Key : old.actions[k] # Absent /\ old.actions[k].evidence # None
                      => new.actions[k] = old.actions[k]

\* What a process writes is still based on the ledger that it replaces.
CallFits ==
    \A p \in Proc :
        /\ pc[p] = "write" => call[p].token = disk.owner /\ Kept(disk, call[p].ledger)
        /\ pc[p] = "sync" => disk = call[p].ledger

DiskKeeps == Kept(durable, disk)

\* In s, the attempt b of k has been superseded.
Past(s, k, b) == s.actions[k] # Absent /\ s.actions[k].startedAt # b

WonIsPast ==
    \A k \in Key, b \in Base : wins[k][b] # 0 =>
        /\ Past(disk, k, b)
        /\ Past(durable, k, b)
        /\ \A p \in Proc : pc[p] # "idle" => Past(call[p].ledger, k, b)

GrantIsFirst ==
    \A p \in Proc : pc[p] # "idle" /\ call[p].grant # None =>
        /\ wins[call[p].grant.key][call[p].grant.base] = 0
        /\ Past(call[p].ledger, call[p].grant.key, call[p].grant.base)

IInv ==
    /\ TypeOK
    /\ LockHeld
    /\ CallFits
    /\ DiskKeeps
    /\ WonIsPast
    /\ GrantIsFirst
    /\ OneGrantPerAttempt

\* What a command may enter with: a ledger that is well formed, that keeps the
\* complete receipts and the superseded attempts, and a grant not given before.
Fitting(token, ledger, grant) ==
    /\ token \in Token \cup {None}
    /\ token = disk.owner
    /\ ledger \in Ledger
    /\ grant \in Grant \cup {None}
    /\ Kept(disk, ledger)
    /\ \A k \in Key, b \in Base : wins[k][b] # 0 => Past(ledger, k, b)
    /\ grant # None => /\ wins[grant.key][grant.base] = 0
                       /\ Past(ledger, grant.key, grant.base)

LEMMA InitHolds == Init => IInv
  BY ReceiptsAssumption, AbsentAssumption DEF Init, IInv, TypeOK, LockHeld, CallFits,
    DiskKeeps, Kept, WonIsPast, GrantIsFirst, OneGrantPerAttempt, NewLedger, NoCall,
    Ledger, Call

LEMMA EnterKeeps ==
  ASSUME IInv, NEW p \in Proc, NEW token, NEW ledger, NEW grant,
         Enter(p, token, ledger, grant), Fitting(token, ledger, grant),
         issued' \subseteq Token
  PROVE  IInv'
<1> USE DEF Enter, Fitting
<1>1. lock = None /\ None \notin Proc
  BY ReceiptsAssumption DEF LockFree
<1>2. \A q \in Proc : pc[q] = "idle"
  BY <1>1 DEF IInv, LockHeld
<1>3. /\ call' \in [Proc -> Call]
      /\ pc' \in [Proc -> {"idle", "write", "sync"}]
  BY DEF IInv, TypeOK, Call
<1>4. TypeOK'
  BY <1>3 DEF IInv, TypeOK
<1>5. /\ call'[p] = [token |-> token, ledger |-> ledger, grant |-> grant]
      /\ pc'[p] = "write"
      /\ \A q \in Proc \ {p} : pc'[q] = "idle"
  BY <1>2 DEF IInv, TypeOK
<1>6. LockHeld' /\ CallFits' /\ DiskKeeps'
  BY <1>5 DEF IInv, LockHeld, CallFits, DiskKeeps, Kept
<1>7. WonIsPast'
  BY <1>5 DEF IInv, WonIsPast, Past
<1>8. GrantIsFirst'
  BY <1>5 DEF GrantIsFirst, Past
<1>9. OneGrantPerAttempt'
  BY DEF IInv, OneGrantPerAttempt
<1> QED BY <1>4, <1>6, <1>7, <1>8, <1>9 DEF IInv

\* No reply follows the latest attempt of a key yet.
LEMMA LatestNotWon ==
  ASSUME IInv, NEW k \in Key
  PROVE  /\ disk.actions[k] = Absent => \A b \in Base : wins[k][b] = 0
         /\ disk.actions[k] # Absent => wins[k][disk.actions[k].startedAt] = 0
<1>1. disk.actions[k] \in Receipt \cup {Absent}
  BY DEF IInv, TypeOK, Ledger
<1>2. \A b \in Base : wins[k][b] # 0 => Past(disk, k, b)
  BY DEF IInv, WonIsPast
<1> QED BY <1>1, <1>2 DEF Past, Receipt, Base

LEMMA WonIsPastOnDisk ==
  ASSUME IInv
  PROVE  \A k \in Key, b \in Base : wins[k][b] # 0 => Past(disk, k, b)
  BY DEF IInv, WonIsPast

LEMMA RotateKeeps ==
  ASSUME IInv, NEW p \in Proc, NEW token \in Token \cup {None},
         RequireOwner(token), Rotate(p, token)
  PROVE  IInv'
<1>1. PICK fresh \in Token \ issued :
        /\ Enter(p, token, [disk EXCEPT !.owner = fresh], None)
        /\ issued' = issued \cup {fresh}
  BY DEF Rotate
<1> DEFINE ledger == [disk EXCEPT !.owner = fresh]
<1>2. ledger \in Ledger /\ ledger.actions = disk.actions
  BY DEF IInv, TypeOK, Ledger
<1>3. Fitting(token, ledger, None)
  BY <1>2, WonIsPastOnDisk DEF Fitting, RequireOwner, Kept, Past
<1>4. issued' \subseteq Token
  BY <1>1 DEF IInv, TypeOK
<1> QED BY <1>1, <1>3, <1>4, EnterKeeps

LEMMA ReleaseKeeps ==
  ASSUME IInv, NEW p \in Proc, NEW token \in Token, Release(p, token)
  PROVE  IInv'
<1> DEFINE ledger == [disk EXCEPT !.owner = None]
<1>1. ledger \in Ledger /\ ledger.actions = disk.actions
  BY DEF IInv, TypeOK, Ledger
<1>2. Fitting(token, ledger, None)
  BY <1>1, WonIsPastOnDisk DEF Release, Fitting, RequireOwner, Kept, Past
<1>3. issued' \subseteq Token /\ Enter(p, token, ledger, None)
  BY DEF IInv, TypeOK, Release
<1> QED BY <1>2, <1>3, EnterKeeps

\* A ledger with one receipt replaced is well formed and differs only there.
LEMMA ReceiptReplaced ==
  ASSUME IInv, NEW k \in Key, NEW receipt \in Receipt
  PROVE  LET ledger == [disk EXCEPT !.actions[k] = receipt]
         IN  /\ ledger \in Ledger
             /\ ledger.owner = disk.owner
             /\ ledger.actions[k] = receipt
             /\ \A j \in Key : j # k => ledger.actions[j] = disk.actions[j]
  BY DEF IInv, TypeOK, Ledger

LEMMA BeginKeeps ==
  ASSUME IInv, NEW p \in Proc, NEW token \in Token, NEW k \in Key, Begin(p, token, k)
  PROVE  IInv'
<1>1. PICK t \in Clock(k) :
        Enter(p, token, [disk EXCEPT !.actions[k] = [startedAt |-> t, evidence |-> None]],
              [key |-> k, base |-> None])
  BY DEF Begin
<1> DEFINE receipt == [startedAt |-> t, evidence |-> None]
           ledger == [disk EXCEPT !.actions[k] = receipt]
           grant == [key |-> k, base |-> None]
<1>2. receipt \in Receipt /\ t \in Nat
  BY ReceiptsAssumption DEF Receipt, Clock, Stamp, Marker
<1>3. /\ ledger \in Ledger
      /\ ledger.actions[k] = receipt
      /\ \A j \in Key : j # k => ledger.actions[j] = disk.actions[j]
  BY <1>2, ReceiptReplaced
<1>4. disk.actions[k] = Absent /\ \A b \in Base : wins[k][b] = 0
  BY LatestNotWon DEF Begin
<1>5. Kept(disk, ledger)
  BY <1>3, <1>4 DEF Kept
<1>6. \A j \in Key, b \in Base : wins[j][b] # 0 => Past(ledger, j, b)
  <2> TAKE j \in Key, b \in Base
  <2>1. CASE j = k
    BY <2>1, <1>4
  <2>2. CASE j # k
    BY <2>2, <1>3, WonIsPastOnDisk DEF Past
  <2> QED BY <2>1, <2>2
<1>7. Past(ledger, k, None)
  BY <1>2, <1>3, AbsentAssumption, ReceiptsAssumption DEF Past
<1>8. grant \in Grant /\ wins[k][None] = 0
  BY <1>4 DEF Grant, Base
<1> HIDE DEF ledger
<1>9. Fitting(token, ledger, grant)
  BY <1>3, <1>5, <1>6, <1>7, <1>8 DEF Fitting, Begin, RequireOwner
<1> QED BY <1>1, <1>9, EnterKeeps DEF Begin, IInv, TypeOK, ledger

LEMMA RetryKeeps ==
  ASSUME IInv, NEW p \in Proc, NEW token \in Token, NEW k \in Key,
         NEW attempt \in Marker, Retry(p, token, k, attempt)
  PROVE  IInv'
<1>1. PICK t \in Clock(k) :
        Enter(p, token,
              [disk EXCEPT !.actions[k].startedAt =
                  Replacement(t, disk.actions[k].startedAt)],
              [key |-> k, base |-> attempt])
  BY DEF Retry
<1> DEFINE old == disk.actions[k]
           marker == Replacement(t, attempt)
           receipt == [startedAt |-> marker, evidence |-> None]
           ledger == [disk EXCEPT !.actions[k] = receipt]
           grant == [key |-> k, base |-> attempt]
<1>2. /\ old \in Receipt
      /\ old.startedAt = attempt
      /\ old.evidence = None
  BY DEF Retry, Pending, SameAttempt, IInv, TypeOK, Ledger
<1>3. /\ marker \in Marker
      /\ marker # attempt
      /\ wins[k][marker] = 0
      /\ marker # None
  BY ReceiptsAssumption DEF Replacement, Clock, Stamp, Marker
<1>4. [old EXCEPT !.startedAt = marker] = receipt
  BY <1>2 DEF Receipt
<1>5. ledger = [disk EXCEPT !.actions[k].startedAt = Replacement(t, disk.actions[k].startedAt)]
  BY <1>2, <1>4 DEF IInv, TypeOK, Ledger
<1>6. receipt \in Receipt
  BY <1>3 DEF Receipt
<1>7. /\ ledger \in Ledger
      /\ ledger.actions[k] = receipt
      /\ \A j \in Key : j # k => ledger.actions[j] = disk.actions[j]
  BY <1>6, ReceiptReplaced
<1> HIDE DEF ledger
<1>8. Kept(disk, ledger)
  BY <1>2, <1>7 DEF Kept
<1>9. \A j \in Key, b \in Base : wins[j][b] # 0 => Past(ledger, j, b)
  <2> TAKE j \in Key, b \in Base
  <2> HAVE wins[j][b] # 0
  <2>1. CASE j = k
    BY <2>1, <1>3, <1>6, <1>7, AbsentAssumption DEF Past
  <2>2. CASE j # k
    BY <2>2, <1>7, WonIsPastOnDisk DEF Past
  <2> QED BY <2>1, <2>2
<1>10. Past(ledger, k, attempt)
  BY <1>3, <1>6, <1>7, AbsentAssumption DEF Past
<1>11. grant \in Grant /\ wins[k][attempt] = 0
  BY <1>2, AbsentAssumption, LatestNotWon DEF Grant, Base
<1>12. Fitting(token, ledger, grant)
  BY <1>7, <1>8, <1>9, <1>10, <1>11 DEF Fitting, Retry, RequireOwner
<1>13. Enter(p, token, ledger, grant)
  BY <1>1, <1>5
<1> QED BY <1>12, <1>13, EnterKeeps DEF Retry, IInv, TypeOK

LEMMA CompleteKeeps ==
  ASSUME IInv, NEW p \in Proc, NEW token \in Token, NEW k \in Key,
         NEW evidence \in Evidence, Complete(p, token, k, evidence)
  PROVE  IInv'
<1> DEFINE old == disk.actions[k]
           receipt == [startedAt |-> old.startedAt, evidence |-> evidence]
           ledger == [disk EXCEPT !.actions[k] = receipt]
<1>1. old \in Receipt /\ old.evidence = None
  BY DEF Complete, Recordable, Pending, IInv, TypeOK, Ledger
<1>2. [old EXCEPT !.evidence = evidence] = receipt /\ receipt \in Receipt
  BY <1>1 DEF Receipt
<1>3. ledger = [disk EXCEPT !.actions[k].evidence = evidence]
  BY <1>2 DEF IInv, TypeOK, Ledger
<1>4. /\ ledger \in Ledger
      /\ ledger.actions[k] = receipt
      /\ \A j \in Key : j # k => ledger.actions[j] = disk.actions[j]
  BY <1>2, ReceiptReplaced
<1> HIDE DEF ledger
<1>5. Kept(disk, ledger)
  BY <1>1, <1>4 DEF Kept
<1>6. \A j \in Key, b \in Base : wins[j][b] # 0 => Past(ledger, j, b)
  BY <1>2, <1>4, WonIsPastOnDisk, AbsentAssumption DEF Past
<1>7. Fitting(token, ledger, None)
  BY <1>4, <1>5, <1>6 DEF Fitting, Complete, RequireOwner
<1>8. Enter(p, token, ledger, None)
  BY <1>3 DEF Complete
<1> QED BY <1>7, <1>8, EnterKeeps DEF Complete, IInv, TypeOK

LEMMA ReplaceKeeps ==
  ASSUME IInv, NEW p \in Proc, Replace(p)
  PROVE  IInv'
<1> USE DEF Replace
<1>1. lock = p /\ \A q \in Proc \ {p} : pc[q] = "idle"
  BY DEF IInv, LockHeld
<1>2. call[p] \in Call /\ disk' = call[p].ledger /\ Kept(disk, disk')
  BY DEF IInv, TypeOK, CallFits
<1>3. /\ pc' \in [Proc -> {"idle", "write", "sync"}]
      /\ pc'[p] = "sync"
      /\ \A q \in Proc \ {p} : pc'[q] = "idle"
  BY <1>1 DEF IInv, TypeOK
<1>4. TypeOK'
  BY <1>2, <1>3 DEF IInv, TypeOK, Call
<1>5. LockHeld' /\ CallFits'
  BY <1>1, <1>2, <1>3 DEF LockHeld, CallFits
<1>6. DiskKeeps'
  BY <1>2 DEF IInv, DiskKeeps, Kept
<1>7. WonIsPast'
  BY <1>2, <1>3 DEF IInv, WonIsPast, Past
<1>8. GrantIsFirst'
  BY <1>3 DEF IInv, GrantIsFirst, Past
<1>9. OneGrantPerAttempt'
  BY DEF IInv, OneGrantPerAttempt
<1> QED BY <1>4, <1>5, <1>6, <1>7, <1>8, <1>9 DEF IInv

\* After the reply or the death of p nobody is inside a command.
LEMMA LeaveEmpties ==
  ASSUME IInv, NEW p \in Proc, pc[p] # "idle", Leave(p)
  PROVE  /\ \A q \in Proc : pc'[q] = "idle"
         /\ pc' \in [Proc -> {"idle", "write", "sync"}]
         /\ call' \in [Proc -> Call]
         /\ lock' \in Proc \cup {None}
<1>1. NoCall \in Call
  BY DEF NoCall, Call, NewLedger, Ledger
<1> QED BY <1>1 DEF Leave, IInv, TypeOK, LockHeld

LEMMA ReplyKeeps ==
  ASSUME IInv, NEW p \in Proc, Reply(p)
  PROVE  IInv'
<1> USE DEF Reply
<1> DEFINE grant == call[p].grant
<1>1. /\ \A q \in Proc : pc'[q] = "idle"
      /\ pc' \in [Proc -> {"idle", "write", "sync"}]
      /\ call' \in [Proc -> Call]
      /\ lock' \in Proc \cup {None}
  BY LeaveEmpties
<1>2. call[p] \in Call /\ disk = call[p].ledger
  BY DEF IInv, TypeOK, CallFits
<1>3. wins \in [Key -> [Base -> Nat]]
  BY DEF IInv, TypeOK
<1>4. CASE grant = None
  <2>1. wins' = wins
    BY <1>4 DEF Delivered
  <2>2. TypeOK'
    BY <1>1, <2>1 DEF IInv, TypeOK
  <2>3. LockHeld' /\ CallFits' /\ DiskKeeps' /\ WonIsPast' /\ GrantIsFirst'
    BY <1>1, <2>1 DEF LockHeld, CallFits, DiskKeeps, Kept, IInv, WonIsPast, Past,
      GrantIsFirst
  <2> QED BY <2>1, <2>2, <2>3 DEF IInv, OneGrantPerAttempt
<1>5. CASE grant # None
  <2>1. /\ grant.key \in Key /\ grant.base \in Base
        /\ wins[grant.key][grant.base] = 0
        /\ Past(disk, grant.key, grant.base)
    BY <1>2, <1>5 DEF Call, Grant, IInv, GrantIsFirst
  <2>2. wins' = [wins EXCEPT ![grant.key][grant.base] = @ + 1]
    BY <1>5 DEF Delivered
  <2>3. /\ wins' \in [Key -> [Base -> Nat]]
        /\ wins'[grant.key][grant.base] = 1
        /\ \A k \in Key, b \in Base :
              k # grant.key \/ b # grant.base => wins'[k][b] = wins[k][b]
    BY <1>3, <2>1, <2>2
  <2>4. TypeOK'
    BY <1>1, <2>3 DEF IInv, TypeOK
  <2>5. LockHeld' /\ CallFits' /\ DiskKeeps' /\ GrantIsFirst'
    BY <1>1 DEF LockHeld, CallFits, DiskKeeps, Kept, GrantIsFirst
  <2>6. WonIsPast'
    BY <1>1, <2>1, <2>3 DEF IInv, WonIsPast, Past
  <2>7. OneGrantPerAttempt'
    BY <2>1, <2>3 DEF IInv, OneGrantPerAttempt
  <2> QED BY <2>4, <2>5, <2>6, <2>7 DEF IInv
<1> QED BY <1>4, <1>5

LEMMA DieKeeps ==
  ASSUME IInv, NEW p \in Proc, Die(p)
  PROVE  IInv'
<1>1. /\ \A q \in Proc : pc'[q] = "idle"
      /\ pc' \in [Proc -> {"idle", "write", "sync"}]
      /\ call' \in [Proc -> Call]
      /\ lock' \in Proc \cup {None}
  BY LeaveEmpties DEF Die
<1>2. TypeOK'
  BY <1>1 DEF Die, IInv, TypeOK
<1>3. LockHeld' /\ CallFits' /\ DiskKeeps' /\ WonIsPast' /\ GrantIsFirst'
  BY <1>1 DEF Die, LockHeld, CallFits, DiskKeeps, Kept, IInv, WonIsPast, Past, GrantIsFirst
<1> QED BY <1>2, <1>3 DEF Die, IInv, OneGrantPerAttempt

LEMMA WriteBackKeeps == IInv /\ WriteBack => IInv'
  BY DEF WriteBack, IInv, TypeOK, LockHeld, CallFits, DiskKeeps, Kept, WonIsPast, Past,
    GrantIsFirst, OneGrantPerAttempt

LEMMA PowerLossKeeps ==
  ASSUME IInv, PowerLoss
  PROVE  IInv'
<1>1. NoCall \in Call
  BY DEF NoCall, Call, NewLedger, Ledger
<1>2. TypeOK'
  BY <1>1 DEF PowerLoss, IInv, TypeOK
<1>3. LockHeld' /\ CallFits' /\ DiskKeeps' /\ WonIsPast' /\ GrantIsFirst'
  BY DEF PowerLoss, LockHeld, CallFits, DiskKeeps, Kept, IInv, WonIsPast, Past, GrantIsFirst
<1> QED BY <1>2, <1>3 DEF PowerLoss, IInv, OneGrantPerAttempt

LEMMA NextKeeps == IInv /\ [Next]_vars => IInv'
<1> SUFFICES ASSUME IInv, [Next]_vars PROVE IInv'
  OBVIOUS
<1>1. CASE UNCHANGED vars
  BY <1>1 DEF vars, IInv, TypeOK, LockHeld, CallFits, DiskKeeps, Kept, WonIsPast, Past,
    GrantIsFirst, OneGrantPerAttempt
<1>2. ASSUME NEW p \in Proc, Command(p) PROVE IInv'
  BY <1>2, RotateKeeps, ReleaseKeeps, BeginKeeps, RetryKeeps, CompleteKeeps
    DEF Command, Claim, Recover
<1>3. ASSUME NEW p \in Proc, Replace(p) \/ Reply(p) \/ Die(p) PROVE IInv'
  BY <1>3, ReplaceKeeps, ReplyKeeps, DieKeeps
<1> QED BY <1>1, <1>2, <1>3, WriteBackKeeps, PowerLossKeeps DEF Next

THEOREM Inductive == Spec => []IInv
<1>1. Init => IInv
  BY InitHolds
<1>2. IInv /\ [Next]_vars => IInv'
  BY NextKeeps
<1> QED BY <1>1, <1>2, PTL DEF Spec

\* The ledger, on disk and in every call, is always well formed.
THEOREM LedgerTyped == Spec => []TypeOK
<1>1. IInv => TypeOK
  BY DEF IInv
<1> QED BY <1>1, Inductive, PTL

\* No attempt is followed by two replies that permit its action: the lock, the
\* comparison with the named attempt and the sync before the reply suffice.
THEOREM GrantsAreUnique == Spec => []OneGrantPerAttempt
<1>1. IInv => OneGrantPerAttempt
  BY DEF IInv
<1> QED BY <1>1, Inductive, PTL

\* Only the current owner's calls replace the ledger.
THEOREM WritesAreOwned == Spec => OwnedWrites
<1> DEFINE A == \A p \in Proc : pc[p] = "write" /\ pc'[p] = "sync" => call[p].token = disk.owner
<1>1. IInv => A
  BY DEF IInv, CallFits
<1>2. IInv /\ [Next]_vars => [A]_vars
  BY <1>1
<1> QED BY <1>2, Inductive, PTL DEF Spec, OwnedWrites

\* A complete receipt that is synced stays as it is.
THEOREM ReceiptsAreImmutable == Spec => ReceiptImmutable
<1> DEFINE A == \A k \in Key :
                  durable.actions[k] # Absent /\ durable.actions[k].evidence # None
                      => durable'.actions[k] = durable.actions[k]
<1>1. ASSUME IInv, Next PROVE A
  <2>1. durable' = durable \/ durable' = disk
    BY <1>1 DEF Next, Command, Claim, Recover, Rotate, Release, Begin, Retry, Complete,
      Enter, Replace, Reply, Die, WriteBack, PowerLoss
  <2> QED BY <1>1, <2>1 DEF IInv, DiskKeeps, Kept
<1>2. IInv /\ [Next]_vars => [A]_vars
  BY <1>1
<1> QED BY <1>2, Inductive, PTL DEF Spec, ReceiptImmutable

-----------------------------------------------------------------------------
(* Induction, and the readers                                               *)

\* A set of naturals that is not empty has a least element.
LEMMA NatMin ==
  ASSUME NEW T, T \subseteq Nat, T # {}
  PROVE  \E n \in T : \A m \in T : n <= m
<1>1. \A x, y \in Nat : x < y => <<x, y>> \in OpToRel(<,Nat)
  BY ZenonT(30) DEF OpToRel
<1>2. \E n \in T : \A m \in T : ~ (<<m,n>> \in OpToRel(<,Nat))
  BY NatLessThanWellFounded, WFMin, Zenon
<1>3. \E n \in T : \A m \in T : ~ (m < n)
  BY <1>1, <1>2, ZenonT(30)
<1> QED BY <1>3

\* Induction, for a set: a set that has 0 and every successor has every natural.
LEMMA Induct ==
  ASSUME NEW T, 0 \in T, \A n \in Nat : n \in T => n + 1 \in T
  PROVE  Nat \subseteq T
<1> SUFFICES ASSUME Nat \ T # {} PROVE FALSE OBVIOUS
<1>1. PICK n \in Nat \ T : \A m \in Nat \ T : n <= m
  <2> Nat \ T \subseteq Nat OBVIOUS
  <2> QED BY NatMin, Zenon
<1>2. n # 0 OBVIOUS
<1>3. n - 1 \in Nat BY <1>2
<1> QED BY <1>1, <1>3

\* What Append adds, and what it leaves.
LEMMA AppendIs ==
  ASSUME NEW R, NEW s \in Seq(R), NEW x \in R
  PROVE  /\ Append(s, x) \in Seq(R) /\ Len(Append(s, x)) = Len(s) + 1
         /\ Append(s, x)[Len(s) + 1] = x
         /\ \A i \in 1 .. Len(s) : Append(s, x)[i] = s[i]
  BY AppendProperties

\* A step of the readers is a step of at most one of them.
LEMMA StepOfOne ==
  ASSUME [ReadersNext]_readers
  PROVE  /\ UNCHANGED trace \/ \E row \in Row : ReadRow(row)
         /\ \/ UNCHANGED audio
            \/ \E sample \in Sample : ReadSample(sample)
            \/ ReadMalformed \/ NextLog \/ Summarize
         /\ [GhostNext]_ghost /\ [ComparisonNext]_comparison
         /\ [SessionNext]_session /\ [PatchNext]_patch
         /\ UNCHANGED <<input, step>>
<1>1. ASSUME NEW row \in Row, ReadRow(row)
      PROVE  UNCHANGED <<input, step, audio, ghost, comparison, session, patch>>
  BY <1>1 DEF ReadRow, others, ReadSegment
<1>2. CASE \E row \in Row : ReadRow(row)
  BY <1>1, <1>2
<1>3. ASSUME \/ \E sample \in Sample : ReadSample(sample)
             \/ ReadMalformed \/ NextLog \/ Summarize
      PROVE  UNCHANGED <<trace, ghost, comparison, session, patch>>
  BY <1>3 DEF ReadSample, ReadMalformed, NextLog, Summarize, others
<1>4. CASE \/ \E sample \in Sample : ReadSample(sample)
           \/ ReadMalformed \/ NextLog \/ Summarize
  BY <1>3, <1>4 DEF trace
<1>5. CASE UNCHANGED readers
  BY <1>5 DEF readers, others, trace
<1> QED BY <1>2, <1>4, <1>5 DEF ReadersNext, trace

-----------------------------------------------------------------------------
(* The audio summary                                                        *)

\* While nothing was rejected, the counters of the last sample of each log are
\* the most that was counted in it, so that if those say that nothing was
\* dropped, nothing ever was.
AudioInv ==
    /\ log \in Seq(Sample) /\ logs \in Seq(Sample) /\ worst \in Nat
    /\ status \in {"reading", "rejected", "clean", "dirty"}
    /\ status = "clean" => worst = 0
    /\ (/\ status = "reading"
        /\ \A i \in 1 .. Len(logs) : logs[i].dropped = 0
        /\ log # <<>> => log[Len(log)].dropped = 0) => worst = 0

\* No log was read.
LEMMA AudioInit == ReadersInit => AudioInv
BY DEF ReadersInit, AudioInv

\* A sample, a bad line, the next log and the summary.
LEMMA AudioStep == AudioInv /\ [ReadersNext]_readers => AudioInv'
<1> SUFFICES ASSUME AudioInv, [ReadersNext]_readers PROVE AudioInv'
  OBVIOUS
<1>0. \A s \in Sample : s.dropped \in Nat /\ s.submitted \in Nat
  BY ReadersAssumption DEF Sample, ReadersAssumption
<1>1. CASE UNCHANGED audio
  BY <1>1 DEF audio, AudioInv
<1>2. ASSUME NEW sample \in Sample, ReadSample(sample) PROVE AudioInv'
  <2>1. log \in Seq(Sample) /\ sample \in Sample
    BY DEF AudioInv
  <2>2. /\ Append(log, sample) \in Seq(Sample) /\ Append(log, sample) # <<>>
        /\ Append(log, sample)[Len(Append(log, sample))] = sample
    BY <2>1
  <2>3. log # <<>> => log[Len(log)] \in Sample
    BY <2>1
  <2>4. worst' \in Nat /\ (sample.dropped = 0 => worst' = worst)
    BY <1>0, <1>2 DEF ReadSample, AudioInv
  <2>5. CASE Monotone(sample)
    <3>1. log' = Append(log, sample) /\ UNCHANGED <<status, logs>>
      BY <1>2, <2>5 DEF ReadSample
    <3>2. log # <<>> /\ sample.dropped = 0 => log[Len(log)].dropped = 0
      BY <1>0, <2>3, <2>5 DEF Monotone
    <3>3. status = "reading"
      BY <1>2 DEF ReadSample
    <3> QED BY <2>2, <2>4, <3>1, <3>2, <3>3 DEF AudioInv
  <2>6. CASE ~Monotone(sample)
    BY <1>2, <2>4, <2>6 DEF ReadSample, AudioInv
  <2> QED BY <2>5, <2>6
<1>3. CASE ReadMalformed
  BY <1>3 DEF ReadMalformed, AudioInv
<1>4. CASE NextLog
  <2>1. CASE log = <<>>
    BY <1>4, <2>1 DEF NextLog, AudioInv
  <2>2. CASE log # <<>>
    <3>1. logs' = Append(logs, log[Len(log)]) /\ log' = <<>> /\ UNCHANGED <<status, worst>>
      BY <1>4, <2>2 DEF NextLog
    <3>2. log[Len(log)] \in Sample /\ logs \in Seq(Sample)
      BY <2>2 DEF AudioInv
    <3>3. /\ logs' \in Seq(Sample) /\ Len(logs') = Len(logs) + 1 /\ Len(logs) \in Nat
          /\ \A i \in 1 .. Len(logs) : logs'[i] = logs[i]
          /\ logs'[Len(logs')] = log[Len(log)]
      BY <3>1, <3>2
    <3> QED BY <3>1, <3>3, <1>4 DEF AudioInv, NextLog
  <2> QED BY <2>1, <2>2
<1>5. CASE Summarize
  BY <1>5 DEF Summarize, AudioInv
<1> QED BY <1>1, <1>2, <1>3, <1>4, <1>5, StepOfOne

-----------------------------------------------------------------------------
(* The signals of a session                                                 *)

\* What a launch leaves in the log, and how far the counts go with the cycle.
SessionInv ==
    /\ app \in {"stopped", "running", "paused"}
    /\ launches \in Nat /\ cycle \in 0 .. 3 /\ count \in [Signal -> Nat]
    /\ launches = 0 => app = "stopped" /\ cycle = 0 /\ count["created"] = 0
    /\ launches > 0 => count["created"] > 0
    /\ app = "paused" => count["paused"] > 0
    /\ app # "stopped" /\ launches = 1 /\ ~surface => cycle >= 1
    /\ cycle >= 1 => count["destroyed"] > 0
    /\ cycle >= 2 => count["created"] >= 2 /\ count["paused"] > 0
    /\ cycle = 3 => count["resumed"] > 0
    /\ launches = 1 /\ count["created"] >= 2 => cycle >= 2

\* Before the first launch.
LEMMA SessionStarts == ReadersInit => SessionInv
<1> SUFFICES ASSUME ReadersInit PROVE SessionInv
  OBVIOUS
<1>1. "created" \in Signal
  BY DEF Signal
<1>2. /\ count = [m \in Signal |-> 0] /\ app = "stopped" /\ surface = FALSE
      /\ launches = 0 /\ cycle = 0
  BY DEF ReadersInit, SessionInit
<1>3. count \in [Signal -> Nat] /\ count["created"] = 0
  BY <1>1, <1>2
<1> QED BY <1>2, <1>3 DEF SessionInv

\* Each line of the app and of the summary.
LEMMA SessionStep == SessionInv /\ [ReadersNext]_readers => SessionInv'
<1> SUFFICES ASSUME SessionInv, [SessionNext]_session PROVE SessionInv'
  BY StepOfOne
<1> USE DEF SessionInv
<1>0. ASSUME NEW m \in Signal, ReadLine(m)
      PROVE  /\ count' \in [Signal -> Nat] /\ count'[m] = count[m] + 1
             /\ \A n \in Signal \ {m} : count'[n] = count[n]
  BY <1>0 DEF ReadLine
<1>a. \A m \in {"created", "destroyed", "paused", "resumed", "suspended", "unsuspended",
                "playback", "audible", "connected", "fatal"} : m \in Signal
  BY DEF Signal
<1>1. CASE Launch
  <2>1. /\ count' \in [Signal -> Nat] /\ count'["created"] = count["created"] + 1
        /\ \A n \in Signal \ {"created"} : count'[n] = count[n]
    BY <1>1, <1>0, <1>a DEF Launch
  <2>2. app' = "running" /\ surface' = TRUE /\ launches' = launches + 1
        /\ cycle' = IF cycle = 3 THEN 3 ELSE 0
    BY <1>1 DEF Launch
  <2>3. /\ count["created"] \in Nat
        /\ count'["destroyed"] = count["destroyed"] /\ count'["paused"] = count["paused"]
        /\ count'["resumed"] = count["resumed"]
    BY <2>1, <1>a
  <2> QED BY <2>1, <2>2, <2>3
<1>2. CASE Kill
  BY <1>2 DEF Kill
<1>3. CASE Pause
  BY <1>3, <1>0, <1>a DEF Pause
<1>4. CASE LoseSurface
  <2>1. /\ count' \in [Signal -> Nat] /\ count'["destroyed"] = count["destroyed"] + 1
        /\ \A n \in Signal \ {"destroyed"} : count'[n] = count[n]
    BY <1>4, <1>0, <1>a DEF LoseSurface
  <2>2. /\ app # "stopped" /\ surface' = FALSE
        /\ cycle' = (IF cycle = 0 THEN 1 ELSE cycle) /\ UNCHANGED <<app, launches>>
    BY <1>4 DEF LoseSurface
  <2>3. /\ count["destroyed"] \in Nat
        /\ count'["created"] = count["created"] /\ count'["paused"] = count["paused"]
        /\ count'["resumed"] = count["resumed"]
    BY <2>1, <1>a
  <2> QED BY <2>1, <2>2, <2>3
<1>5. CASE RegainSurface
  <2>1. /\ count' \in [Signal -> Nat] /\ count'["created"] = count["created"] + 1
        /\ \A n \in Signal \ {"created"} : count'[n] = count[n]
    BY <1>5, <1>0, <1>a DEF RegainSurface
  <2>2. /\ app = "paused" /\ ~surface /\ surface' = TRUE
        /\ cycle' = (IF cycle = 1 THEN 2 ELSE cycle) /\ UNCHANGED <<app, launches>>
    BY <1>5 DEF RegainSurface
  <2>3. /\ count["created"] \in Nat
        /\ count'["destroyed"] = count["destroyed"] /\ count'["paused"] = count["paused"]
        /\ count'["resumed"] = count["resumed"]
    BY <2>1, <1>a
  <2> QED BY <2>1, <2>2, <2>3
<1>6. CASE Resume
  BY <1>6, <1>0, <1>a DEF Resume
<1>7. CASE TurnGamepads
  BY <1>7, <1>0, <1>a DEF TurnGamepads
<1>8. ASSUME NEW m \in {"playback", "audible", "connected", "fatal"}, Report(m)
      PROVE  SessionInv'
  BY <1>8, <1>0, <1>a DEF Report
<1>9. ASSUME NEW bytes \in {0, 1}, ReadQueue(bytes) PROVE SessionInv'
  BY <1>9 DEF ReadQueue
<1>10. CASE RefuseQueue
  BY <1>10 DEF RefuseQueue
<1>11. CASE UNCHANGED session
  BY <1>11 DEF session
<1> QED BY <1>1, <1>2, <1>3, <1>4, <1>5, <1>6, <1>7, <1>8, <1>9, <1>10, <1>11 DEF SessionNext

\* What the counts say of the one launch there was.
LEMMA SignalsFollow == SessionInv => SignalsAreTrue
<1> SUFFICES ASSUME SessionInv PROVE SignalsAreTrue
  OBVIOUS
<1>1. \A m \in Once : m \in Signal
  BY DEF Once, Signal
<1>2. SignalsComplete /\ launches = 1 => cycle >= 2
  BY DEF SignalsComplete, SessionInv
<1>3. ASSUME capture = "reading", cycle = 3, submitted > 0, count["fatal"] = 0,
             \A m \in Once \ {"destroyed", "paused", "resumed"} : count[m] > 0
      PROVE  SignalsComplete
  BY <1>3, <1>1 DEF SignalsComplete, SessionInv
<1> QED BY <1>2, <1>3 DEF SignalsAreTrue

-----------------------------------------------------------------------------
(* The longest race of a trace                                              *)

\* Reads is the equation of the fold of LongestRace, on the subsets of 1 .. n.
Longer(run, row) ==
    IF row.stage # "race" THEN <<>>
    ELSE IF run # <<>> /\ row.time # Last(run).time + 1 THEN <<row>>
    ELSE Append(run, row)
Read(acc, row) ==
    [current |-> Longer(acc.current, row),
     best |-> IF Len(Longer(acc.current, row)) > Len(acc.best)
              THEN Longer(acc.current, row) ELSE acc.best]
NoneRead == [current |-> <<>>, best |-> <<>>]
Reads(h, s, D) ==
    h = [S \in SUBSET D |-> IF S = {} THEN NoneRead ELSE Read(h[S \ {Max(S)}], s[Max(S)])]

\* LongestRace is what such an equation, if there is one, says of all rows.
LEMMA LongestReads ==
  ASSUME NEW s
  PROVE  LongestRace(s) = (CHOOSE h : Reads(h, s, DOMAIN s))[DOMAIN s].best
BY DEF LongestRace, FoldLeft, MapThenFoldSet, Reads, NoneRead, Read, Longer

\* Max is the greatest element of a set of positions.
LEMMA MaxIn ==
  ASSUME NEW n \in Nat, NEW S \in SUBSET (1 .. n), S # {}
  PROVE  Max(S) \in S /\ \A y \in S : y <= Max(S)
<1> DEFINE T == {n - x : x \in S}
<1>1. T \subseteq Nat /\ T # {}
  <2>1. \A x \in S : n - x \in Nat
    OBVIOUS
  <2> QED BY <2>1
<1>2. PICK t \in T : \A m \in T : t <= m
  <2> HIDE DEF T
  <2> QED BY <1>1, NatMin
<1>3. PICK x \in S : t = n - x
  BY <1>2
<1>4. \A y \in S : x >= y
  <2> TAKE y \in S
  <2>1. n - y \in T
    OBVIOUS
  <2> QED BY <1>2, <1>3, <2>1
<1> QED BY <1>3, <1>4, Zenon DEF Max

\* There is one, for every number of rows.
LEMMA ReadsDefined ==
  ASSUME NEW s
  PROVE  \A n \in Nat : \E h : Reads(h, s, 1 .. n)
<1> DEFINE N == {n \in Nat : \E h : Reads(h, s, 1 .. n)}
<1>1. 0 \in N
  <2>1. Reads([S \in SUBSET (1 .. 0) |-> NoneRead], s, 1 .. 0)
    <3>1. \A S \in SUBSET (1 .. 0) : S = {}
      OBVIOUS
    <3> QED BY <3>1 DEF Reads
  <2> QED BY <2>1
<1>2. ASSUME NEW n \in Nat, n \in N PROVE n + 1 \in N
  <2>1. PICK h : Reads(h, s, 1 .. n)
    BY <1>2
  <2> DEFINE k == [S \in SUBSET (1 .. n + 1) |->
                     IF S = {} THEN NoneRead ELSE Read(h[S \ {Max(S)}], s[Max(S)])]
  <2>2. ASSUME NEW S \in SUBSET (1 .. n + 1), S # {}
        PROVE  S \ {Max(S)} \in SUBSET (1 .. n)
    <3> HIDE DEF N
    <3>1. n + 1 \in Nat
      OBVIOUS
    <3>2. Max(S) \in S /\ \A y \in S : y <= Max(S)
      BY <2>2, <3>1, MaxIn
    <3>3. \A y \in S : y \in 1 .. n + 1
      BY <2>2
    <3>4. ASSUME NEW y \in S, y # Max(S) PROVE y \in 1 .. n
      <4>1. y <= Max(S) /\ y \in 1 .. n + 1 /\ Max(S) \in 1 .. n + 1
        BY <3>2, <3>3
      <4> QED BY <3>4, <4>1
    <3> QED BY <3>4
  <2>3. ASSUME NEW S \in SUBSET (1 .. n)
        PROVE  h[S] = IF S = {} THEN NoneRead ELSE Read(h[S \ {Max(S)}], s[Max(S)])
    BY <2>1 DEF Reads
  <2>4. \A S \in SUBSET (1 .. n) : k[S] = h[S]
    <3> TAKE S \in SUBSET (1 .. n)
    <3>1. S \in SUBSET (1 .. n + 1)
      OBVIOUS
    <3> QED BY <2>3, <3>1
  <2>5. ASSUME NEW S \in SUBSET (1 .. n + 1)
        PROVE  k[S] = IF S = {} THEN NoneRead ELSE Read(k[S \ {Max(S)}], s[Max(S)])
    <3>1. S # {} => k[S \ {Max(S)}] = h[S \ {Max(S)}]
      BY <2>2, <2>4
    <3>2. k[S] = IF S = {} THEN NoneRead ELSE Read(h[S \ {Max(S)}], s[Max(S)])
      OBVIOUS
    <3> HIDE DEF k
    <3> QED BY <3>1, <3>2
  <2>6. k = [S \in SUBSET (1 .. n + 1) |-> k[S]]
    OBVIOUS
  <2>7. Reads(k, s, 1 .. n + 1)
    <3> HIDE DEF k
    <3> QED BY <2>5, <2>6 DEF Reads
  <2> HIDE DEF k
  <2> QED BY <2>7
<1> HIDE DEF N
<1>3. Nat \subseteq N
  BY <1>1, <1>2, Induct
<1> QED BY <1>3 DEF N

\* q is the part a .. b of s.
IsCut(q, s, a, b) ==
    /\ Len(q) = b - a + 1
    /\ \A i \in 1 .. Len(q) : q[i] = s[a + i - 1]

\* What was read of the first n rows of s: the race that is open since c, and
\* the first of the longest races.
IsFirstLongest(s, n, a, b) ==
    /\ a \in 1 .. n /\ b \in a .. n /\ IsRun(s, a, b)
    /\ \A c \in 1 .. n : \A d \in c .. n : IsRun(s, c, d) =>
           d - c < b - a \/ (d - c = b - a /\ a <= c)

OpenSince(current, s, n, c) ==
    /\ c \in 1 .. n /\ IsRun(s, c, n) /\ IsCut(current, s, c, n)
    /\ \A e \in 1 .. n : IsRun(s, e, n) => c <= e

IsBest(best, s, n) ==
    \/ best = <<>> /\ \A i \in 1 .. n : s[i].stage # "race"
    \/ \E a \in 1 .. n : \E b \in a .. n :
           IsFirstLongest(s, n, a, b) /\ IsCut(best, s, a, b)

HasRead(acc, R, s, n) ==
    /\ acc.current \in Seq(R) /\ acc.best \in Seq(R)
    /\ \/ acc.current = <<>> /\ (n > 0 => s[n].stage # "race")
       \/ \E c \in 1 .. n : OpenSince(acc.current, s, n, c)
    /\ IsBest(acc.best, s, n)

\* A run up to the next row is that row alone or a run up to the last one.
LEMMA RunGrows ==
  ASSUME NEW R, \A r \in R : r.time \in Nat, NEW s \in Seq(R),
         NEW n \in 0 .. Len(s) - 1, NEW c \in 1 .. n + 1
  PROVE  IsRun(s, c, n + 1) <=>
             /\ s[n + 1].stage = "race"
             /\ c <= n => IsRun(s, c, n) /\ s[n + 1].time = s[n].time + 1
<1>1. Len(s) \in Nat
  OBVIOUS
<1>2. ASSUME IsRun(s, c, n + 1), c <= n
      PROVE  IsRun(s, c, n) /\ s[n + 1].time = s[n].time + 1
  <2>1. \A i \in c .. n : i \in c .. n + 1
    BY <1>1
  <2>2. (\A i \in c .. n - 1 : i \in c .. (n + 1) - 1) /\ n \in c .. (n + 1) - 1
    BY <1>1, <1>2
  <2> QED BY <1>2, <2>1, <2>2 DEF IsRun
<1>3. ASSUME s[n + 1].stage = "race", c <= n => IsRun(s, c, n) /\ s[n + 1].time = s[n].time + 1
      PROVE  IsRun(s, c, n + 1)
  <2>1. CASE c = n + 1
    BY <1>1, <1>3, <2>1 DEF IsRun
  <2>2. CASE c <= n
    <3>1. \A i \in c .. n + 1 : i \in c .. n \/ i = n + 1
      BY <1>1
    <3>2. \A i \in c .. (n + 1) - 1 : i \in c .. n - 1 \/ i = n
      BY <1>1
    <3> QED BY <1>1, <1>3, <2>2, <3>1, <3>2 DEF IsRun
  <2> QED BY <1>1, <2>1, <2>2
<1>4. IsRun(s, c, n + 1) => s[n + 1].stage = "race"
  BY <1>1 DEF IsRun
<1> QED BY <1>2, <1>3, <1>4

\* One row more, and the race that is read: it goes on, begins or ends.
LEMMA OpenGrows ==
  ASSUME NEW R, \A r \in R : r.time \in Nat, NEW s \in Seq(R),
         NEW n \in 0 .. Len(s) - 1, NEW acc, HasRead(acc, R, s, n)
  PROVE  LET now == Longer(acc.current, s[n + 1])
         IN  /\ now \in Seq(R)
             /\ \/ now = <<>> /\ s[n + 1].stage # "race"
                \/ \E c \in 1 .. n + 1 : OpenSince(now, s, n + 1, c)
<1> DEFINE row == s[n + 1]
           run == acc.current
<1>1. Len(s) \in Nat /\ row \in R /\ run \in Seq(R) /\ (n > 0 => s[n] \in R)
  BY DEF HasRead
<1>2. CASE row.stage # "race"
  BY <1>2 DEF Longer
<1>3. ASSUME row.stage = "race", n > 0 => ~ (s[n].stage = "race" /\ row.time = s[n].time + 1)
      PROVE  /\ OpenSince(<<row>>, s, n + 1, n + 1) /\ <<row>> \in Seq(R)
  <2>1. \A c \in 1 .. n : ~IsRun(s, c, n + 1)
    <3> TAKE c \in 1 .. n
    <3>1. IsRun(s, c, n + 1) => IsRun(s, c, n) /\ row.time = s[n].time + 1
      BY RunGrows
    <3>2. IsRun(s, c, n) => s[n].stage = "race"
      BY <1>1 DEF IsRun
    <3> QED BY <1>3, <3>1, <3>2
  <2>2. IsRun(s, n + 1, n + 1)
    BY <1>1, <1>3, RunGrows
  <2>3. \A e \in 1 .. n + 1 : IsRun(s, e, n + 1) => n + 1 <= e
    BY <1>1, <2>1
  <2>4. IsCut(<<row>>, s, n + 1, n + 1)
    BY <1>1 DEF IsCut
  <2> QED BY <1>1, <2>2, <2>3, <2>4 DEF OpenSince
<1>4. CASE row.stage = "race" /\ run = <<>>
  <2>1. ~ \E c \in 1 .. n : OpenSince(run, s, n, c)
    BY <1>1, <1>4 DEF OpenSince, IsCut
  <2>2. n > 0 => s[n].stage # "race"
    BY <2>1 DEF HasRead
  <2>3. Longer(run, row) = <<row>>
    BY <1>1, <1>4 DEF Longer
  <2>4. OpenSince(<<row>>, s, n + 1, n + 1) /\ <<row>> \in Seq(R) /\ n + 1 \in 1 .. n + 1
    BY <1>1, <1>3, <1>4, <2>2
  <2> QED BY <2>3, <2>4
<1>5. CASE row.stage = "race" /\ run # <<>>
  <2>1. PICK c \in 1 .. n : OpenSince(run, s, n, c)
    BY <1>5 DEF HasRead
  <2>2. Last(run) = s[n] /\ Len(run) = n - c + 1 /\ n > 0
    <3>1. Len(run) = n - c + 1 /\ run[Len(run)] = s[c + Len(run) - 1]
      BY <1>1, <2>1 DEF OpenSince, IsCut
    <3> QED BY <1>1, <3>1 DEF Last
  <2>3. CASE row.time # s[n].time + 1
    <3>1. Longer(run, row) = <<row>>
      BY <1>5, <2>2, <2>3 DEF Longer
    <3> QED BY <1>1, <1>3, <1>5, <2>2, <2>3, <3>1
  <2>4. CASE row.time = s[n].time + 1
    <3> DEFINE now == Append(run, row)
    <3>1. Longer(run, row) = now
      BY <1>5, <2>2, <2>4 DEF Longer
    <3>2. now \in Seq(R) /\ Len(now) = n + 1 - c + 1
      BY <1>1, <2>2
    <3>3. \A i \in 1 .. Len(now) : now[i] = s[c + i - 1]
      <4> TAKE i \in 1 .. Len(now)
      <4>1. i \in 1 .. Len(run) => run[i] = s[c + i - 1] /\ now[i] = run[i]
        <5>1. \A j \in 1 .. Len(run) : now[j] = run[j]
          BY <1>1, AppendIs
        <5>2. \A j \in 1 .. Len(run) : run[j] = s[c + j - 1]
          BY <2>1 DEF OpenSince, IsCut
        <5> QED BY <5>1, <5>2
      <4>2. i = Len(run) + 1 => now[i] = row /\ c + i - 1 = n + 1
        <5>1. now[Len(run) + 1] = row
          BY <1>1, AppendIs
        <5>2. c + (Len(run) + 1) - 1 = n + 1
          BY <1>1, <2>2
        <5> QED BY <5>1, <5>2
      <4> QED BY <1>1, <2>2, <3>2, <4>1, <4>2
    <3>4. IsRun(s, c, n + 1)
      <4>1. c \in 1 .. n + 1 /\ IsRun(s, c, n) /\ row.stage = "race"
        BY <1>5, <2>1 DEF OpenSince
      <4> QED BY <2>4, <4>1, RunGrows
    <3>5. ASSUME NEW e \in 1 .. n + 1, IsRun(s, e, n + 1) PROVE c <= e
      BY <1>1, <2>1, <3>5, RunGrows DEF OpenSince
    <3> HIDE DEF now
    <3>6. OpenSince(now, s, n + 1, c)
      BY <1>1, <3>2, <3>3, <3>4, <3>5 DEF OpenSince, IsCut
    <3>7. c \in 1 .. n + 1
      OBVIOUS
    <3> QED BY <3>1, <3>2, <3>6, <3>7
  <2> QED BY <2>3, <2>4
<1> QED BY <1>2, <1>4, <1>5

\* What the fold knows of n rows it knows of one more.
LEMMA ReadKeeps ==
  ASSUME NEW R, \A r \in R : r.time \in Nat, NEW s \in Seq(R),
         NEW n \in 0 .. Len(s) - 1, NEW acc, HasRead(acc, R, s, n)
  PROVE  HasRead(Read(acc, s[n + 1]), R, s, n + 1)
<1> DEFINE now == Longer(acc.current, s[n + 1])
           new == Read(acc, s[n + 1])
<1>a. acc.best \in Seq(R) /\ IsBest(acc.best, s, n) /\ Len(s) \in Nat
  BY DEF HasRead
<1>c. /\ now \in Seq(R)
      /\ \/ now = <<>> /\ s[n + 1].stage # "race"
         \/ \E c \in 1 .. n + 1 : OpenSince(now, s, n + 1, c)
  BY OpenGrows
<1>1. /\ now \in Seq(R) /\ acc.best \in Seq(R) /\ Len(s) \in Nat
      /\ \/ now = <<>> /\ s[n + 1].stage # "race"
         \/ \E c \in 1 .. n + 1 : OpenSince(now, s, n + 1, c)
  BY <1>a, <1>c
<1>2. new.current = now /\ new.best = IF Len(now) > Len(acc.best) THEN now ELSE acc.best
  BY DEF Read
<1>3. Len(now) \in Nat /\ Len(acc.best) \in Nat /\ new.best \in Seq(R)
  BY <1>1, <1>2
<1> HIDE DEF now, new
<1>4. ASSUME NEW d \in 1 .. n + 1, NEW c \in 1 .. d, IsRun(s, c, d), d = n + 1
      PROVE  s[n + 1].stage = "race"
  BY <1>1, <1>4 DEF IsRun
<1>5. ASSUME now = <<>> /\ s[n + 1].stage # "race"
      PROVE  IsBest(new.best, s, n + 1)
  <2>1. new.best = acc.best
    BY <1>2, <1>3, <1>5
  <2>2. CASE acc.best = <<>> /\ \A i \in 1 .. n : s[i].stage # "race"
    <3>1. \A i \in 1 .. n + 1 : i \in 1 .. n \/ i = n + 1
      BY <1>1
    <3> QED BY <1>5, <2>1, <2>2, <3>1 DEF IsBest
  <2>3. ASSUME NEW a \in 1 .. n, NEW b \in a .. n,
               IsFirstLongest(s, n, a, b) /\ IsCut(acc.best, s, a, b)
        PROVE  IsBest(new.best, s, n + 1)
    <3>1. IsFirstLongest(s, n + 1, a, b)
      <4>1. ASSUME NEW c \in 1 .. n + 1, NEW d \in c .. n + 1, IsRun(s, c, d)
            PROVE  c \in 1 .. n /\ d \in c .. n
        <5>1. d # n + 1
          BY <1>4, <1>5, <4>1
        <5> QED BY <5>1
      <4> QED BY <2>3, <4>1 DEF IsFirstLongest
    <3>2. a \in 1 .. n + 1 /\ b \in a .. n + 1
      OBVIOUS
    <3> QED BY <2>1, <2>3, <3>1, <3>2 DEF IsBest
  <2> QED BY <1>a, <2>2, <2>3 DEF IsBest
<1>6. ASSUME NEW c \in 1 .. n + 1, OpenSince(now, s, n + 1, c)
      PROVE  IsBest(new.best, s, n + 1)
  <2>1. Len(now) = n + 1 - c + 1 /\ IsRun(s, c, n + 1) /\ IsCut(now, s, c, n + 1)
    BY <1>6 DEF OpenSince, IsCut
  <2>2. \A e \in 1 .. n + 1 : IsRun(s, e, n + 1) => c <= e
    BY <1>6 DEF OpenSince
  <2>3. CASE Len(now) > Len(acc.best)
    <3>1. ASSUME NEW e \in 1 .. n + 1, NEW d \in e .. n + 1, IsRun(s, e, d)
          PROVE  d - e < n + 1 - c \/ (d - e = n + 1 - c /\ c <= e)
      <4>1. CASE d = n + 1
        BY <2>2, <3>1, <4>1
      <4>2. CASE d # n + 1
        <5>1. e \in 1 .. n /\ d \in e .. n
          BY <4>2
        <5>2. s[e].stage = "race"
          BY <1>1, <3>1, <5>1 DEF IsRun
        <5>3. PICK a \in 1 .. n : \E b \in a .. n :
                  IsFirstLongest(s, n, a, b) /\ IsCut(acc.best, s, a, b)
          BY <1>a, <5>1, <5>2 DEF IsBest
        <5>4. PICK b \in a .. n : IsFirstLongest(s, n, a, b) /\ IsCut(acc.best, s, a, b)
          BY <5>3
        <5>5. d - e <= b - a /\ Len(acc.best) = b - a + 1
          BY <1>1, <3>1, <5>1, <5>4 DEF IsFirstLongest, IsCut
        <5> QED BY <1>1, <2>1, <2>3, <5>1, <5>5
      <4> QED BY <4>1, <4>2
    <3>2. IsFirstLongest(s, n + 1, c, n + 1)
      BY <2>1, <3>1 DEF IsFirstLongest
    <3>3. new.best = now
      BY <1>2, <2>3
    <3>4. n + 1 \in c .. n + 1
      OBVIOUS
    <3> QED BY <2>1, <3>2, <3>3, <3>4 DEF IsBest
  <2>4. CASE ~ (Len(now) > Len(acc.best))
    <3>1. acc.best # <<>>
      BY <1>1, <2>1, <2>4
    <3>2. PICK a \in 1 .. n : \E b \in a .. n :
              IsFirstLongest(s, n, a, b) /\ IsCut(acc.best, s, a, b)
      BY <1>a, <3>1 DEF IsBest
    <3>3. PICK b \in a .. n : IsFirstLongest(s, n, a, b) /\ IsCut(acc.best, s, a, b)
      BY <3>2
    <3>4. Len(acc.best) = b - a + 1 /\ b - a >= n + 1 - c
      BY <1>3, <2>1, <2>4, <3>3 DEF IsCut
    <3>5. ASSUME NEW e \in 1 .. n + 1, NEW d \in e .. n + 1, IsRun(s, e, d)
          PROVE  d - e < b - a \/ (d - e = b - a /\ a <= e)
      <4>1. CASE d = n + 1
        BY <2>2, <3>4, <3>5, <4>1
      <4>2. CASE d # n + 1
        <5>1. e \in 1 .. n /\ d \in e .. n
          BY <4>2
        <5> QED BY <3>3, <3>5, <5>1 DEF IsFirstLongest
      <4> QED BY <4>1, <4>2
    <3>6. a \in 1 .. n + 1 /\ b \in a .. n + 1
      OBVIOUS
    <3>7. IsFirstLongest(s, n + 1, a, b)
      BY <3>3, <3>5, <3>6 DEF IsFirstLongest
    <3>8. new.best = acc.best
      BY <1>2, <2>4
    <3> QED BY <3>3, <3>6, <3>7, <3>8 DEF IsBest
  <2> QED BY <2>3, <2>4
<1>7. IsBest(new.best, s, n + 1)
  BY <1>1, <1>5, <1>6
<1> QED BY <1>1, <1>2, <1>3, <1>7 DEF HasRead, new

\* The longest race, as longest_race_segment finds it in one pass, is the first
\* of the longest gapless races of the whole trace.
LEMMA LongestIsFirst ==
  ASSUME NEW R, \A r \in R : r.time \in Nat, NEW s \in Seq(R)
  PROVE  \/ LongestRace(s) = <<>> /\ \A i \in 1 .. Len(s) : s[i].stage # "race"
         \/ \E a \in 1 .. Len(s) : \E b \in a .. Len(s) :
                IsFirstLongest(s, Len(s), a, b) /\ LongestRace(s) = SubSeq(s, a, b)
<1> DEFINE h == CHOOSE h : Reads(h, s, DOMAIN s)
<1>1. Len(s) \in Nat /\ DOMAIN s = 1 .. Len(s)
  OBVIOUS
<1>2. Reads(h, s, 1 .. Len(s)) /\ LongestRace(s) = h[1 .. Len(s)].best
  <2>1. \E k : Reads(k, s, DOMAIN s)
    BY <1>1, ReadsDefined
  <2>2. Reads(h, s, DOMAIN s)
    BY <2>1
  <2> HIDE DEF h
  <2>3. LongestRace(s) = h[DOMAIN s].best
    BY LongestReads DEF h
  <2> QED BY <1>1, <2>2, <2>3
<1> HIDE DEF h
<1> DEFINE N == {n \in Nat : n <= Len(s) => HasRead(h[1 .. n], R, s, n)}
<1>3. 0 \in N
  <2>1. h[{}] = NoneRead
    <3>1. {} \in SUBSET (1 .. Len(s))
      OBVIOUS
    <3> QED BY <1>2, <3>1 DEF Reads
  <2>2. 1 .. 0 = {}
    OBVIOUS
  <2>3. HasRead(NoneRead, R, s, 0)
    BY DEF HasRead, IsBest, NoneRead
  <2> QED BY <2>1, <2>2, <2>3
<1>4. ASSUME NEW n \in Nat, n \in N PROVE n + 1 \in N
  <2> SUFFICES ASSUME n + 1 <= Len(s) PROVE HasRead(h[1 .. n + 1], R, s, n + 1)
    OBVIOUS
  <2> DEFINE S == 1 .. n + 1
  <2>0. n + 1 \in 1 .. Len(s)
    BY <1>1
  <2>a. n + 1 \in S /\ \A y \in S : y \in 1 .. Len(s)
    BY <1>1, <2>0
  <2>1. S \in SUBSET (1 .. Len(s)) /\ S # {} /\ n + 1 \in S
    BY <2>a
  <2>2. Max(S) = n + 1 /\ S \ {n + 1} = 1 .. n
    <3>1. Max(S) \in S /\ \A y \in S : y <= Max(S)
      BY <2>1, <1>1, MaxIn
    <3> QED BY <2>1, <3>1
  <2>3. h[S] = Read(h[S \ {Max(S)}], s[Max(S)])
    <3> HIDE DEF S
    <3> QED BY <1>2, <2>1 DEF Reads
  <2>4. HasRead(h[1 .. n], R, s, n)
    BY <1>1, <1>4
  <2> HIDE DEF S
  <2>5. h[S] = Read(h[1 .. n], s[n + 1])
    BY <2>2, <2>3
  <2>6. n \in 0 .. Len(s) - 1
    BY <1>1
  <2> QED BY <2>4, <2>5, <2>6, ReadKeeps DEF S
<1> HIDE DEF N
<1>5. Len(s) \in N
  BY <1>1, <1>3, <1>4, Induct
<1>6. HasRead(h[1 .. Len(s)], R, s, Len(s))
  BY <1>1, <1>5 DEF N
<1>7. ASSUME NEW a \in 1 .. Len(s), NEW b \in a .. Len(s), NEW q \in Seq(R), IsCut(q, s, a, b)
      PROVE  q = SubSeq(s, a, b)
  <2>1. a \in Int /\ b \in Int /\ \A i \in a .. b : s[i] \in R
    BY <1>1
  <2>2. /\ SubSeq(s, a, b) \in Seq(R) /\ Len(SubSeq(s, a, b)) = b - a + 1
        /\ \A i \in 1 .. b - a + 1 : SubSeq(s, a, b)[i] = s[a + i - 1]
    BY <1>1, <2>1, SubSeqProperties
  <2> QED BY <1>7, <2>2, SeqEqual DEF IsCut
<1> QED BY <1>2, <1>6, <1>7 DEF HasRead, IsBest

-----------------------------------------------------------------------------
(* The races of the trace                                                   *)

\* Row i of s goes on with the race of the row before it.
Joined(s, d, i) ==
    /\ i \in 2 .. Len(s) /\ s[i - 1].stage = "race" /\ s[i].stage = "race"
    /\ s[i].time = s[i - 1].time + d

\* The rows a .. b are one race, and it does not begin before a.
Run(s, d, a, b) ==
    /\ a \in 1 .. Len(s) /\ b \in a .. Len(s)
    /\ \A i \in a .. b : s[i].stage = "race"
    /\ \A i \in a + 1 .. b : Joined(s, d, i)
    /\ ~Joined(s, d, a)

\* Each closed span is a race that could not go on, they are in their order,
\* the open one goes up to the last row, and no row of a race was missed.
TraceInv ==
    /\ rows \in Seq(Row) /\ step \in Nat /\ start \in 0 .. Len(rows)
    /\ spans \in Seq(Nat \X Nat)
    /\ \A n \in 1 .. Len(spans) :
           /\ Run(rows, step, spans[n][1], spans[n][2])
           /\ spans[n][2] < Len(rows) /\ ~Joined(rows, step, spans[n][2] + 1)
           /\ start # 0 => spans[n][2] < start
    /\ \A m, n \in 1 .. Len(spans) : m < n => spans[m][2] < spans[n][1]
    /\ start # 0 => Run(rows, step, start, Len(rows))
    /\ \A i \in 1 .. Len(rows) : rows[i].stage = "race" =>
           \/ start # 0 /\ start <= i
           \/ \E n \in 1 .. Len(spans) : i \in spans[n][1] .. spans[n][2]

\* Nothing was read.
LEMMA TraceInit == ReadersInit => TraceInv
<1> SUFFICES ASSUME ReadersInit PROVE TraceInv
  OBVIOUS
<1>1. step \in Nat
  BY ReadersAssumption DEF ReadersInit, ReadersAssumption
<1>2. rows = <<>> /\ start = 0 /\ spans = <<>>
  BY DEF ReadersInit
<1> QED BY <1>1, <1>2 DEF TraceInv

\* What one row more changes: t is s with the row.
Added(R, s, row, d, t) ==
    /\ t \in Seq(R) /\ Len(t) = Len(s) + 1 /\ Len(s) \in Nat
    /\ t[Len(s) + 1] = row
    /\ \A i \in 1 .. Len(s) : t[i] = s[i] /\ s[i] \in R
    /\ \A i \in 1 .. Len(s) : Joined(t, d, i) <=> Joined(s, d, i)
    /\ Joined(t, d, Len(s) + 1) <=>
           /\ Len(s) > 0 /\ row.stage = "race" /\ s[Len(s)].stage = "race"
           /\ row.time = s[Len(s)].time + d

\* Append adds the row and changes no other.
LEMMA RowAdded ==
  ASSUME NEW R, NEW s \in Seq(R), NEW row \in R, NEW d
  PROVE  Added(R, s, row, d, Append(s, row))
<1> DEFINE t == Append(s, row)
<1>1. /\ t \in Seq(R) /\ Len(t) = Len(s) + 1 /\ Len(s) \in Nat
      /\ t[Len(s) + 1] = row
      /\ \A i \in 1 .. Len(s) : t[i] = s[i] /\ s[i] \in R
  OBVIOUS
<1> HIDE DEF t
<1>2. ASSUME NEW i \in 1 .. Len(s) PROVE Joined(t, d, i) <=> Joined(s, d, i)
  BY <1>1 DEF Joined
<1>3. Joined(t, d, Len(s) + 1) <=>
          /\ Len(s) > 0 /\ row.stage = "race" /\ s[Len(s)].stage = "race"
          /\ row.time = s[Len(s)].time + d
  BY <1>1 DEF Joined
<1>4. Added(R, s, row, d, t)
  BY <1>1, <1>2, <1>3 DEF Added
<1> QED BY <1>4 DEF t

\* A race stays one when a row is added.
LEMMA RunStays ==
  ASSUME NEW R, NEW s \in Seq(R), NEW row \in R, NEW d, NEW a, NEW b, Run(s, d, a, b)
  PROVE  Run(Append(s, row), d, a, b)
<1> DEFINE t == Append(s, row)
<1>0. a \in 1 .. Len(s) /\ b \in a .. Len(s)
  BY DEF Run
<1>1. /\ Len(s) \in Nat /\ Len(t) = Len(s) + 1
      /\ \A i \in 1 .. Len(s) : t[i] = s[i]
      /\ \A i \in 1 .. Len(s) : Joined(t, d, i) <=> Joined(s, d, i)
  <2>1. Added(R, s, row, d, t)
    BY RowAdded
  <2> HIDE DEF t
  <2> QED BY <2>1 DEF Added
<1> HIDE DEF t
<1>2. \A i \in a .. b : i \in 1 .. Len(s)
  BY <1>0, <1>1
<1>3. \A i \in a + 1 .. b : i \in 1 .. Len(s)
  BY <1>0, <1>1
<1>4. a \in 1 .. Len(t) /\ b \in a .. Len(t)
  BY <1>0, <1>1
<1>5. \A i \in a .. b : t[i].stage = "race"
  BY <1>0, <1>1, <1>2 DEF Run
<1>6. (\A i \in a + 1 .. b : Joined(t, d, i)) /\ ~Joined(t, d, a)
  BY <1>0, <1>1, <1>3 DEF Run
<1> QED BY <1>4, <1>5, <1>6 DEF Run, t

\* ReadSegment, for a row that goes on with the open race and for one that does not.
LEMMA RowStep ==
  ASSUME TraceInv, NEW row \in Row, ReadRow(row)
  PROVE  TraceInv'
<1> DEFINE last == Len(rows)
           index == Len(rows) + 1
           closed == IF start = 0 THEN spans ELSE Append(spans, <<start, last>>)
<1>0. /\ rows' \in Seq(Row) /\ Len(rows') = index /\ last \in Nat
      /\ rows'[index] = row /\ step' = step /\ step \in Nat /\ index \in Nat
      /\ \A i \in 1 .. last : rows'[i] = rows[i] /\ rows[i] \in Row
      /\ \A i \in 1 .. last : Joined(rows', step, i) <=> Joined(rows, step, i)
      /\ Joined(rows', step, index) <=> row.stage = "race" /\ Follows(row)
  <2>1. rows' = Append(rows, row) /\ rows \in Seq(Row) /\ step \in Nat /\ step' = step
    BY DEF TraceInv, ReadRow
  <2>2. /\ rows' \in Seq(Row) /\ Len(rows') = index /\ last \in Nat /\ rows'[index] = row
        /\ \A i \in 1 .. last : rows'[i] = rows[i] /\ rows[i] \in Row
        /\ \A i \in 1 .. last : Joined(rows', step, i) <=> Joined(rows, step, i)
        /\ Joined(rows', step, index) <=>
              /\ last > 0 /\ row.stage = "race" /\ rows[last].stage = "race"
              /\ row.time = rows[last].time + step
    <3>1. Added(Row, rows, row, step, Append(rows, row))
      BY <2>1, RowAdded
    <3>2. Added(Row, rows, row, step, rows')
      BY <2>1, <3>1
    <3> QED BY <3>2 DEF Added
  <2>3. rows # <<>> <=> last > 0
    BY <2>1
  <2> QED BY <2>1, <2>2, <2>3 DEF Follows
<1>a. \A a, b : Run(rows, step, a, b) => Run(rows', step, a, b)
  <2>1. rows' = Append(rows, row) /\ rows \in Seq(Row)
    BY DEF TraceInv, ReadRow
  <2> QED BY <2>1, RunStays
<1>1. /\ start \in 0 .. last /\ spans \in Seq(Nat \X Nat) /\ Len(spans) \in Nat
      /\ \A n \in 1 .. Len(spans) :
           /\ spans[n][1] \in 1 .. last /\ spans[n][2] \in spans[n][1] .. last
           /\ spans[n] \in Nat \X Nat
  BY DEF TraceInv, Run
<1>2. start = 0 => last = 0 \/ rows[last].stage # "race"
  <2> SUFFICES ASSUME start = 0, last # 0, rows[last].stage = "race" PROVE FALSE
    OBVIOUS
  <2>1. PICK n \in 1 .. Len(spans) : last \in spans[n][1] .. spans[n][2]
    <3>1. last \in 1 .. Len(rows)
      BY <1>0
    <3>2. \A i \in 1 .. Len(rows) : rows[i].stage = "race" =>
             start # 0 \/ \E n \in 1 .. Len(spans) : i \in spans[n][1] .. spans[n][2]
      BY DEF TraceInv
    <3> QED BY <3>1, <3>2
  <2>2. spans[n][2] < last
    BY DEF TraceInv
  <2> QED BY <1>0, <1>1, <2>1, <2>2
\* the closed spans, before the row and after it
<1>3. \A n \in 1 .. Len(spans) :
         /\ Run(rows', step, spans[n][1], spans[n][2])
         /\ spans[n][2] < last /\ ~Joined(rows', step, spans[n][2] + 1)
         /\ start # 0 => spans[n][2] < start
  <2> TAKE n \in 1 .. Len(spans)
  <2>1. Run(rows, step, spans[n][1], spans[n][2])
    BY DEF TraceInv
  <2>2. /\ spans[n][2] < last /\ ~Joined(rows, step, spans[n][2] + 1)
        /\ start # 0 => spans[n][2] < start
    BY DEF TraceInv
  <2>3. spans[n][2] + 1 \in 1 .. last
    BY <1>0, <1>1, <2>2
  <2> QED BY <1>0, <1>a, <2>1, <2>2, <2>3
<1>4. CASE row.stage = "race" /\ start # 0 /\ Follows(row)
  <2>1. start' = start /\ spans' = spans
    BY <1>4 DEF ReadRow, ReadSegment
  <2>2. Run(rows, step, start, last)
    BY <1>4 DEF TraceInv
  <2>3. Run(rows', step, start, index)
    <3>1. \A i \in start .. index : i \in start .. last \/ i = index
      BY <1>0, <1>1
    <3>2. \A i \in start + 1 .. index : i \in start + 1 .. last \/ i = index
      BY <1>0, <1>1
    <3>3. \A i \in start .. last : i \in 1 .. last
      BY <1>0, <1>1, <2>2 DEF Run
    <3>4. \A i \in start .. index : rows'[i].stage = "race"
      BY <1>0, <1>4, <2>2, <3>1, <3>3 DEF Run
    <3>5. \A i \in start + 1 .. index : Joined(rows', step, i)
      BY <1>0, <1>1, <1>4, <2>2, <3>2, <3>3 DEF Run
    <3>6. ~Joined(rows', step, start) /\ start \in 1 .. index /\ index \in start .. index
      BY <1>0, <1>1, <1>4, <2>2 DEF Run
    <3> QED BY <1>0, <2>1, <3>4, <3>5, <3>6 DEF Run
  <2>4. \A i \in 1 .. index : rows'[i].stage = "race" =>
           \/ start # 0 /\ start <= i
           \/ \E n \in 1 .. Len(spans) : i \in spans[n][1] .. spans[n][2]
    <3> TAKE i \in 1 .. index
    <3>1. CASE i = index
      BY <1>0, <1>1, <1>4, <3>1
    <3>2. CASE i \in 1 .. last
      BY <1>0, <3>2 DEF TraceInv
    <3> QED BY <1>0, <3>1, <3>2
  <2>5. \A m, n \in 1 .. Len(spans) : m < n => spans[m][2] < spans[n][1]
    BY DEF TraceInv
  <2> QED BY <1>0, <1>1, <1>3, <2>1, <2>3, <2>4, <2>5 DEF TraceInv
<1>5. CASE ~ (row.stage = "race" /\ start # 0 /\ Follows(row))
  <2>1. /\ start' = IF row.stage = "race" THEN index ELSE 0
        /\ spans' = closed
    BY <1>5 DEF ReadRow, ReadSegment
  <2>2. ~Joined(rows', step, index)
    <3>1. Follows(row) => last # 0 /\ rows[last].stage = "race"
      <4>1. rows # <<>> => last # 0
        BY <1>0 DEF TraceInv
      <4> QED BY <4>1 DEF Follows
    <3> QED BY <1>0, <1>2, <1>5, <3>1
  <2>3. start # 0 => Run(rows', step, start, last)
    BY <1>a DEF TraceInv
  <2>4. /\ closed \in Seq(Nat \X Nat)
        /\ Len(closed) = IF start = 0 THEN Len(spans) ELSE Len(spans) + 1
        /\ \A n \in 1 .. Len(spans) : closed[n] = spans[n]
        /\ start # 0 => closed[Len(spans) + 1] = <<start, last>>
    <3>1. <<start, last>> \in Nat \X Nat
      BY <1>0, <1>1
    <3> QED BY <1>1, <3>1
  <2>5. \A n \in 1 .. Len(closed) :
           \/ n \in 1 .. Len(spans) /\ closed[n] = spans[n]
           \/ start # 0 /\ n = Len(spans) + 1 /\ closed[n] = <<start, last>>
    BY <1>1, <2>4
  <2> HIDE DEF closed
  <2>6. ASSUME NEW n \in 1 .. Len(closed)
        PROVE  /\ Run(rows', step, closed[n][1], closed[n][2])
               /\ closed[n][2] < index /\ ~Joined(rows', step, closed[n][2] + 1)
    <3>1. CASE n \in 1 .. Len(spans) /\ closed[n] = spans[n]
      BY <1>0, <1>1, <1>3, <3>1
    <3>2. CASE start # 0 /\ closed[n] = <<start, last>>
      BY <1>0, <2>2, <2>3, <3>2
    <3> QED BY <2>5, <3>1, <3>2
  <2>7. ASSUME NEW m \in 1 .. Len(closed), NEW n \in 1 .. Len(closed), m < n
        PROVE  closed[m][2] < closed[n][1]
    <3>1. m \in 1 .. Len(spans) /\ closed[m] = spans[m]
      <4>1. m < Len(closed) /\ Len(spans) \in Nat
        BY <1>1, <2>4, <2>7
      <4>2. m <= Len(spans)
        BY <2>4, <4>1
      <4>3. \A k \in 1 .. Len(spans) : closed[k] = spans[k]
        BY <2>4
      <4> QED BY <4>1, <4>2, <4>3
    <3>2. CASE n \in 1 .. Len(spans) /\ closed[n] = spans[n]
      BY <2>7, <3>1, <3>2 DEF TraceInv
    <3>3. CASE start # 0 /\ closed[n] = <<start, last>>
      BY <1>3, <3>1, <3>3
    <3> QED BY <2>5, <3>2, <3>3
  <2>8. row.stage = "race" => Run(rows', step, index, index)
    <3>1. row.stage = "race" => /\ \A i \in index .. index : rows'[i].stage = "race"
                                /\ \A i \in index + 1 .. index : Joined(rows', step, i)
      BY <1>0
    <3>2. index \in 1 .. index /\ index \in index .. index
      BY <1>0
    <3> HIDE DEF index
    <3> QED BY <1>0, <2>2, <3>1, <3>2 DEF Run
  <2>9. ASSUME NEW i \in 1 .. index, rows'[i].stage = "race"
        PROVE  \/ start' # 0 /\ start' <= i
               \/ \E n \in 1 .. Len(closed) : i \in closed[n][1] .. closed[n][2]
    <3>1. CASE i = index
      BY <1>0, <2>1, <2>9, <3>1
    <3>2. CASE i \in 1 .. last /\ start # 0 /\ start <= i
      <4> DEFINE m == Len(spans) + 1
      <4>1. /\ i \in start .. last /\ m \in 1 .. Len(closed)
            /\ closed[m][1] = start /\ closed[m][2] = last
        BY <1>0, <1>1, <2>4, <3>2
      <4> HIDE DEF m
      <4> QED BY <4>1
    <3>3. ASSUME NEW n \in 1 .. Len(spans), i \in spans[n][1] .. spans[n][2]
          PROVE  \E m \in 1 .. Len(closed) : i \in closed[m][1] .. closed[m][2]
      <4>1. n \in 1 .. Len(closed) /\ closed[n] = spans[n]
        BY <1>1, <2>4
      <4> QED BY <3>3, <4>1
    <3>4. i \in 1 .. last => \/ start # 0 /\ start <= i
                             \/ \E n \in 1 .. Len(spans) : i \in spans[n][1] .. spans[n][2]
      BY <1>0, <2>9 DEF TraceInv
    <3> QED BY <1>0, <3>1, <3>2, <3>3, <3>4
  <2>10. start' \in 0 .. index /\ (start' # 0 => start' = index /\ Run(rows', step, index, index))
    BY <1>0, <2>1, <2>8
  <2> HIDE DEF index
  <2> QED BY <1>0, <2>1, <2>4, <2>6, <2>7, <2>9, <2>10 DEF TraceInv
<1> QED BY <1>4, <1>5

\* No other step changes what was read of a trace.
LEMMA TraceStep == TraceInv /\ [ReadersNext]_readers => TraceInv'
<1> SUFFICES ASSUME TraceInv, [ReadersNext]_readers PROVE TraceInv'
  OBVIOUS
<1>1. CASE UNCHANGED trace
  BY <1>1 DEF trace, TraceInv, Run, Joined
<1>2. ASSUME NEW row \in Row, ReadRow(row) PROVE TraceInv'
  BY <1>2, RowStep
<1> QED BY <1>1, <1>2, StepOfOne

\* The segments are runs that cannot be made longer, in their order, and hold
\* every row of a race.
Tiled ==
    /\ Len(Segments) \in Nat /\ Len(rows) \in Nat
    /\ \A n \in 1 .. Len(Segments) :
           /\ Segments[n] \in Nat \X Nat
           /\ Run(rows, step, Segments[n][1], Segments[n][2])
           /\ ~Joined(rows, step, Segments[n][2] + 1)
    /\ \A m, n \in 1 .. Len(Segments) : m < n => Segments[m][2] < Segments[n][1]
    /\ \A i \in 1 .. Len(rows) : rows[i].stage = "race" =>
           \E n \in 1 .. Len(Segments) : i \in Segments[n][1] .. Segments[n][2]

\* Segments are the closed spans and the open one.
LEMMA SegmentsTile == TraceInv => Tiled
<1> SUFFICES ASSUME TraceInv PROVE Tiled
  OBVIOUS
<1>1. /\ rows \in Seq(Row) /\ Len(rows) \in Nat /\ start \in 0 .. Len(rows)
      /\ spans \in Seq(Nat \X Nat) /\ Len(spans) \in Nat
      /\ \A n \in 1 .. Len(spans) : spans[n] \in Nat \X Nat
  BY DEF TraceInv
<1>2. CASE start = 0
  <2>1. Segments = spans
    BY <1>2 DEF Segments
  <2> QED BY <1>1, <1>2, <2>1 DEF TraceInv, Tiled
<1>3. CASE start # 0
  <2> DEFINE G == Segments
             k == Len(spans) + 1
  <2>1. <<start, Len(rows)>> \in Nat \X Nat
    BY <1>1
  <2>2. /\ G = Append(spans, <<start, Len(rows)>>)
        /\ Len(G) = k /\ G[k] = <<start, Len(rows)>> /\ k \in 1 .. Len(G)
        /\ \A n \in 1 .. Len(spans) : G[n] = spans[n] /\ n \in 1 .. Len(G)
    BY <1>1, <1>3, <2>1 DEF Segments
  <2>3. \A n \in 1 .. Len(G) : (n \in 1 .. Len(spans) /\ G[n] = spans[n])
                                 \/ (n = k /\ G[n] = <<start, Len(rows)>>)
    BY <1>1, <2>2
  <2> HIDE DEF G, k
  <2>4. ~Joined(rows, step, Len(rows) + 1)
    BY <1>1 DEF Joined
  <2>5. ASSUME NEW n \in 1 .. Len(G)
        PROVE  /\ G[n] \in Nat \X Nat
               /\ Run(rows, step, G[n][1], G[n][2]) /\ ~Joined(rows, step, G[n][2] + 1)
    <3>1. CASE n \in 1 .. Len(spans) /\ G[n] = spans[n]
      BY <1>1, <3>1 DEF TraceInv
    <3>2. CASE G[n] = <<start, Len(rows)>>
      BY <1>3, <2>1, <2>4, <3>2 DEF TraceInv
    <3> QED BY <2>3, <3>1, <3>2
  <2>6. ASSUME NEW m \in 1 .. Len(G), NEW n \in 1 .. Len(G), m < n
        PROVE  G[m][2] < G[n][1]
    <3>1. m \in 1 .. Len(spans) /\ G[m] = spans[m]
      BY <1>1, <2>2, <2>3, <2>6 DEF k
    <3>2. CASE n \in 1 .. Len(spans) /\ G[n] = spans[n]
      BY <2>6, <3>1, <3>2 DEF TraceInv
    <3>3. CASE G[n] = <<start, Len(rows)>>
      BY <1>3, <3>1, <3>3 DEF TraceInv
    <3> QED BY <2>3, <3>2, <3>3
  <2>7. ASSUME NEW i \in 1 .. Len(rows), rows[i].stage = "race"
        PROVE  \E n \in 1 .. Len(G) : i \in G[n][1] .. G[n][2]
    <3>1. CASE start <= i
      <4>1. G[k][1] = start /\ G[k][2] = Len(rows) /\ i \in start .. Len(rows)
        BY <1>1, <2>2, <3>1
      <4> QED BY <2>2, <4>1
    <3>2. ASSUME NEW n \in 1 .. Len(spans), i \in spans[n][1] .. spans[n][2]
          PROVE  \E m \in 1 .. Len(G) : i \in G[m][1] .. G[m][2]
      BY <2>2, <3>2
    <3> QED BY <2>7, <3>1, <3>2 DEF TraceInv
  <2>8. Len(G) \in Nat
    BY <1>1, <2>2 DEF k
  <2> QED BY <1>1, <2>5, <2>6, <2>7, <2>8 DEF Tiled, G
<1> QED BY <1>2, <1>3

\* IsRace, in the words of the invariant.
LEMMA RaceIs ==
  ASSUME TraceInv, NEW a \in Int, NEW b \in Int
  PROVE  IsRace(a, b) <=>
             /\ a \in 1 .. Len(rows) /\ b \in a .. Len(rows)
             /\ \A i \in a .. b : rows[i].stage = "race"
             /\ \A i \in a + 1 .. b : Joined(rows, step, i)
<1>1. Len(rows) \in Nat /\ \A i \in 1 .. Len(rows) : rows[i] \in Row
  BY DEF TraceInv
<1>2. ASSUME IsRace(a, b), NEW i \in a + 1 .. b PROVE Joined(rows, step, i)
  <2>1. i - 1 \in a .. b - 1 /\ i - 1 \in a .. b /\ i \in a .. b /\ (i - 1) + 1 = i
        /\ i \in 2 .. Len(rows)
    BY <1>1, <1>2 DEF IsRace
  <2>2. rows[(i - 1) + 1].time = rows[i - 1].time + step
    BY <1>2, <2>1 DEF IsRace
  <2> QED BY <1>2, <2>1, <2>2 DEF IsRace, Joined
<1>3. ASSUME a \in 1 .. Len(rows), b \in a .. Len(rows),
             \A i \in a .. b : rows[i].stage = "race",
             \A i \in a + 1 .. b : Joined(rows, step, i)
      PROVE  IsRace(a, b)
  <2>1. ASSUME NEW i \in a .. b - 1 PROVE rows[i + 1].time = rows[i].time + step
    <3>1. i + 1 \in a + 1 .. b /\ (i + 1) - 1 = i
      BY <1>1, <1>3
    <3>2. Joined(rows, step, i + 1)
      BY <1>3, <3>1
    <3> QED BY <3>1, <3>2 DEF Joined
  <2> QED BY <1>1, <1>3, <2>1 DEF IsRace
<1> QED BY <1>1, <1>2, <1>3 DEF IsRace

\* So are the longest races.
LEMMA RaceSet ==
  ASSUME TraceInv
  PROVE  Races = {r \in (1 .. Len(rows)) \X (1 .. Len(rows)) :
                     Run(rows, step, r[1], r[2]) /\ ~Joined(rows, step, r[2] + 1)}
<1>1. Len(rows) \in Nat
  BY DEF TraceInv
<1> SUFFICES ASSUME NEW a \in 1 .. Len(rows), NEW b \in 1 .. Len(rows)
             PROVE  IsRace(a, b) /\ ~IsRace(a - 1, b) /\ ~IsRace(a, b + 1)
                    <=> Run(rows, step, a, b) /\ ~Joined(rows, step, b + 1)
  BY DEF Races
<1>2. a \in Int /\ b \in Int /\ a - 1 \in Int /\ b + 1 \in Int
  OBVIOUS
<1>3. ASSUME IsRace(a, b) PROVE IsRace(a - 1, b) <=> Joined(rows, step, a)
  <2>1. ASSUME IsRace(a - 1, b) PROVE Joined(rows, step, a)
    <3>1. a \in (a - 1) + 1 .. b
      BY <1>2, <1>3, RaceIs
    <3> QED BY <1>2, <2>1, <3>1, RaceIs
  <2>2. ASSUME Joined(rows, step, a) PROVE IsRace(a - 1, b)
    <3>1. a - 1 \in 1 .. Len(rows) /\ b \in a - 1 .. Len(rows) /\ rows[a - 1].stage = "race"
      BY <1>1, <1>2, <1>3, <2>2, RaceIs DEF Joined
    <3>2. \A i \in a - 1 .. b : i = a - 1 \/ i \in a .. b
      BY <1>2
    <3>3. \A i \in (a - 1) + 1 .. b : i = a \/ i \in a + 1 .. b
      BY <1>2
    <3>4. \A i \in a - 1 .. b : rows[i].stage = "race"
      BY <1>2, <1>3, <3>1, <3>2, RaceIs
    <3>5. \A i \in (a - 1) + 1 .. b : Joined(rows, step, i)
      BY <1>2, <1>3, <2>2, <3>3, RaceIs
    <3> QED BY <1>2, <3>1, <3>4, <3>5, RaceIs
  <2> QED BY <2>1, <2>2
<1>4. ASSUME IsRace(a, b) PROVE IsRace(a, b + 1) <=> Joined(rows, step, b + 1)
  <2>1. ASSUME IsRace(a, b + 1) PROVE Joined(rows, step, b + 1)
    <3>1. b + 1 \in a + 1 .. b + 1
      BY <1>2, <1>3, <1>4, RaceIs
    <3> QED BY <1>2, <2>1, <3>1, RaceIs
  <2>2. ASSUME Joined(rows, step, b + 1) PROVE IsRace(a, b + 1)
    <3>1. b + 1 \in a .. Len(rows) /\ a \in 1 .. Len(rows) /\ rows[b + 1].stage = "race"
      BY <1>1, <1>2, <1>4, <2>2, RaceIs DEF Joined
    <3>2. \A i \in a .. b + 1 : i = b + 1 \/ i \in a .. b
      BY <1>2
    <3>3. \A i \in a + 1 .. b + 1 : i = b + 1 \/ i \in a + 1 .. b
      BY <1>2
    <3>4. \A i \in a .. b + 1 : rows[i].stage = "race"
      BY <1>2, <1>4, <3>1, <3>2, RaceIs
    <3>5. \A i \in a + 1 .. b + 1 : Joined(rows, step, i)
      BY <1>2, <1>4, <2>2, <3>3, RaceIs
    <3> QED BY <1>2, <3>1, <3>4, <3>5, RaceIs
  <2> QED BY <2>1, <2>2
<1>5. Run(rows, step, a, b) <=> IsRace(a, b) /\ ~Joined(rows, step, a)
  BY <1>2, RaceIs DEF Run
<1> QED BY <1>3, <1>4, <1>5

\* Every segment is such a race, and every such race is the segment of its rows.
LEMMA SegmentsOfRaces ==
  ASSUME TraceInv
  PROVE  {Segments[n] : n \in 1 .. Len(Segments)} = Races
<1>1. Tiled
  BY SegmentsTile
<1>2. ASSUME NEW n \in 1 .. Len(Segments) PROVE Segments[n] \in Races
  <2> DEFINE s == Segments[n]
  <2>1. /\ s \in Nat \X Nat /\ Len(rows) \in Nat
        /\ Run(rows, step, s[1], s[2]) /\ ~Joined(rows, step, s[2] + 1)
    BY <1>1 DEF Tiled
  <2> HIDE DEF s
  <2>2. s[1] \in 1 .. Len(rows) /\ s[2] \in 1 .. Len(rows)
    BY <2>1 DEF Run
  <2>3. s \in (1 .. Len(rows)) \X (1 .. Len(rows))
    BY <2>1, <2>2
  <2>4. s \in Races
    BY <2>1, <2>3, RaceSet
  <2> QED BY <2>4 DEF s
<1>3. ASSUME NEW r \in Races PROVE \E n \in 1 .. Len(Segments) : r = Segments[n]
  <2>1. /\ r \in (1 .. Len(rows)) \X (1 .. Len(rows)) /\ Len(rows) \in Nat
        /\ Run(rows, step, r[1], r[2]) /\ ~Joined(rows, step, r[2] + 1)
    BY <1>1, RaceSet DEF Tiled
  <2>2. r[1] \in 1 .. Len(rows) /\ r[2] \in r[1] .. Len(rows) /\ rows[r[1]].stage = "race"
    BY <2>1 DEF Run
  <2>3. PICK n \in 1 .. Len(Segments) : r[1] \in Segments[n][1] .. Segments[n][2]
    BY <1>1, <2>2 DEF Tiled
  <2> DEFINE s == Segments[n]
  <2>4. /\ s \in Nat \X Nat /\ Run(rows, step, s[1], s[2]) /\ ~Joined(rows, step, s[2] + 1)
        /\ r[1] \in s[1] .. s[2]
    BY <1>1, <2>3 DEF Tiled
  <2> HIDE DEF s
  <2>5. s[1] \in Nat /\ s[2] \in Nat
    BY <2>4
  <2>6. r[1] = s[1]
    <3>1. ~Joined(rows, step, r[1])
      BY <2>1 DEF Run
    <3>2. r[1] \notin s[1] + 1 .. s[2]
      BY <2>4, <3>1 DEF Run
    <3> QED BY <2>2, <2>4, <2>5, <3>2
  <2>7. ~ (r[2] < s[2])
    <3>1. r[2] + 1 \notin s[1] + 1 .. s[2]
      BY <2>1, <2>4 DEF Run
    <3> QED BY <2>2, <2>5, <2>6, <3>1
  <2>8. ~ (r[2] > s[2])
    <3>1. s[2] + 1 \notin r[1] + 1 .. r[2]
      BY <2>1, <2>4 DEF Run
    <3> QED BY <2>2, <2>4, <2>5, <2>6, <3>1
  <2>9. r[2] = s[2]
    BY <2>2, <2>5, <2>7, <2>8
  <2>10. r = s
    BY <2>1, <2>4, <2>6, <2>9
  <2> QED BY <2>10 DEF s
<1> QED BY <1>2, <1>3

\* With the fold of longest_race_segment, this is the property.
LEMMA SegmentsFollow == TraceInv => SegmentsAreRaces
<1> SUFFICES ASSUME TraceInv PROVE SegmentsAreRaces
  OBVIOUS
<1>1. {Segments[n] : n \in 1 .. Len(Segments)} = Races
  BY SegmentsOfRaces
<1>2. \A n \in 2 .. Len(Segments) : Segments[n - 1][2] < Segments[n][1]
  <2> TAKE n \in 2 .. Len(Segments)
  <2>1. Tiled
    BY SegmentsTile
  <2>2. n - 1 \in 1 .. Len(Segments) /\ n \in 1 .. Len(Segments) /\ n - 1 < n
    BY <2>1 DEF Tiled
  <2> QED BY <2>1, <2>2 DEF Tiled
<1>3. ASSUME step = 1
      PROVE  LET best == LongestRace(rows) IN
               \/ Races = {} /\ best = <<>>
               \/ \E r \in Races :
                      /\ best = SubSeq(rows, r[1], r[2])
                      /\ \A o \in Races : \/ Length(o) < Length(r)
                                          \/ Length(o) = Length(r) /\ r[1] <= o[1]
  <2>1. /\ rows \in Seq(Row) /\ Len(rows) \in Nat
        /\ \A r \in Row : r.time \in Nat
    BY ReadersAssumption DEF TraceInv, Row, Stage, ReadersAssumption
  <2>2. ASSUME NEW a \in Int, NEW b \in Int
        PROVE  IsRace(a, b) <=> a \in 1 .. Len(rows) /\ b \in a .. Len(rows) /\ IsRun(rows, a, b)
    <3>1. a \in 1 .. Len(rows) /\ b \in a .. Len(rows) <=> 1 <= a /\ a <= b /\ b <= Len(rows)
      BY <2>1
    <3>2. ASSUME IsRun(rows, a, b)
          PROVE  /\ \A i \in a .. b : rows[i].stage = "race"
                 /\ \A i \in a .. b - 1 : rows[i + 1].time = rows[i].time + step
      BY <1>3, <3>2 DEF IsRun
    <3>3. ASSUME IsRace(a, b) PROVE IsRun(rows, a, b)
      BY <1>3, <3>3 DEF IsRun, IsRace
    <3> QED BY <3>1, <3>2, <3>3 DEF IsRace
  <2>3. \A o \in Races : /\ o[1] \in 1 .. Len(rows) /\ o[2] \in o[1] .. Len(rows)
                         /\ IsRun(rows, o[1], o[2]) /\ rows[o[1]].stage = "race"
    <3> TAKE o \in Races
    <3>1. IsRace(o[1], o[2]) /\ o[1] \in Int /\ o[2] \in Int
      BY DEF Races
    <3>2. /\ o[1] \in 1 .. Len(rows) /\ o[2] \in o[1] .. Len(rows)
          /\ IsRun(rows, o[1], o[2])
      BY <2>2, <3>1
    <3>3. rows[o[1]].stage = "race"
      BY <3>2 DEF IsRun
    <3> QED BY <3>2, <3>3
  <2>4. CASE LongestRace(rows) = <<>> /\ \A i \in 1 .. Len(rows) : rows[i].stage # "race"
    BY <2>3, <2>4
  <2>5. ASSUME NEW a \in 1 .. Len(rows), NEW b \in a .. Len(rows),
               IsFirstLongest(rows, Len(rows), a, b), LongestRace(rows) = SubSeq(rows, a, b)
        PROVE  \E r \in Races :
                      /\ LongestRace(rows) = SubSeq(rows, r[1], r[2])
                      /\ \A o \in Races : \/ Length(o) < Length(r)
                                          \/ Length(o) = Length(r) /\ r[1] <= o[1]
    <3>0. a \in Int /\ b \in Int /\ a - 1 \in Int /\ b + 1 \in Int
      BY <2>1
    <3>1. IsRace(a, b)
      BY <2>2, <2>5, <3>0 DEF IsFirstLongest
    <3>2. ~IsRace(a - 1, b)
      <4> SUFFICES ASSUME IsRace(a - 1, b) PROVE FALSE
        OBVIOUS
      <4>1. a - 1 \in 1 .. Len(rows) /\ b \in a - 1 .. Len(rows) /\ IsRun(rows, a - 1, b)
        BY <2>2, <3>0
      <4>2. b - (a - 1) < b - a \/ (b - (a - 1) = b - a /\ a <= a - 1)
        BY <2>5, <4>1 DEF IsFirstLongest
      <4> QED BY <3>0, <4>2
    <3>3. ~IsRace(a, b + 1)
      <4> SUFFICES ASSUME IsRace(a, b + 1) PROVE FALSE
        OBVIOUS
      <4>1. b + 1 \in a .. Len(rows) /\ IsRun(rows, a, b + 1)
        BY <2>2, <3>0
      <4>2. (b + 1) - a < b - a \/ ((b + 1) - a = b - a /\ a <= a)
        BY <2>5, <4>1 DEF IsFirstLongest
      <4> QED BY <3>0, <4>2
    <3>4. <<a, b>> \in Races
      BY <2>1, <3>0, <3>1, <3>2, <3>3 DEF Races
    <3>5. ASSUME NEW o \in Races
          PROVE  \/ Length(o) < Length(<<a, b>>)
                 \/ Length(o) = Length(<<a, b>>) /\ a <= o[1]
      <4>1. /\ o[1] \in 1 .. Len(rows) /\ o[2] \in o[1] .. Len(rows)
            /\ IsRun(rows, o[1], o[2])
        BY <2>3
      <4>2. o[2] - o[1] < b - a \/ (o[2] - o[1] = b - a /\ a <= o[1])
        BY <2>5, <4>1 DEF IsFirstLongest
      <4> QED BY <2>1, <3>0, <4>1, <4>2 DEF Length
    <3> DEFINE r == <<a, b>>
    <3>6. r \in Races /\ r[1] = a /\ r[2] = b
      BY <3>4
    <3>7. \A o \in Races : Length(o) < Length(r) \/ (Length(o) = Length(r) /\ r[1] <= o[1])
      BY <3>5
    <3> HIDE DEF r
    <3> QED BY <2>5, <3>6, <3>7
  <2> QED BY <2>1, <2>4, <2>5, LongestIsFirst
<1> QED BY <1>1, <1>2, <1>3 DEF SegmentsAreRaces

-----------------------------------------------------------------------------
(* The verdict on a trace                                                   *)

\* The times of a gapless race are those from its first on.
LEMMA RaceTimes ==
  ASSUME TraceInv, step = 1, NEW a, NEW b, Run(rows, step, a, b)
  PROVE  /\ a \in Nat /\ b \in Nat /\ a <= b /\ rows[a].time \in Nat
         /\ \A i \in a .. b : rows[i].time = rows[a].time + (i - a)
<1>1. /\ a \in 1 .. Len(rows) /\ b \in a .. Len(rows) /\ Len(rows) \in Nat
      /\ a \in Nat /\ b \in Nat /\ rows[a] \in Row
  BY DEF TraceInv, Run
<1>2. rows[a].time \in Nat
  BY <1>1, ReadersAssumption DEF Row, ReadersAssumption
<1> DEFINE Told(k) == a + k <= b => rows[a + k].time = rows[a].time + k
           T == {k \in Nat : Told(k)}
<1>3. 0 \in T
  BY <1>1, <1>2
<1>4. ASSUME NEW k \in Nat, k \in T PROVE k + 1 \in T
  <2>1. ASSUME a + (k + 1) <= b PROVE rows[a + (k + 1)].time = rows[a].time + (k + 1)
    <3>1. a + (k + 1) \in a + 1 .. b /\ (a + (k + 1)) - 1 = a + k /\ a + k <= b
      BY <1>1, <2>1
    <3>2. Joined(rows, step, a + (k + 1))
      BY <3>1 DEF Run
    <3>3. rows[a + (k + 1)].time = rows[a + k].time + 1
      BY <3>1, <3>2 DEF Joined
    <3> QED BY <1>2, <1>4, <3>1, <3>3
  <2> QED BY <2>1
<1>5. Nat \subseteq T
  <2> HIDE DEF T
  <2> QED BY <1>3, <1>4, Induct
<1>6. ASSUME NEW i \in a .. b PROVE rows[i].time = rows[a].time + (i - a)
  <2>1. i - a \in T /\ a + (i - a) = i /\ i <= b
    BY <1>1, <1>5
  <2> QED BY <2>1
<1> QED BY <1>1, <1>2, <1>6

\* A race that has the times of the input, and as many rows, has each once.
LEMMA ExactTimes ==
  ASSUME TraceInv, step = 1, NEW s, Run(rows, step, s[1], s[2])
  PROVE  Exact(s) <=> {rows[i].time : i \in s[1] .. s[2]} = Countdown .. InputFrames - 1
<1> DEFINE a == s[1]
           b == s[2]
           t == rows[a].time
           Times == {rows[i].time : i \in a .. b}
<1>1. /\ a \in Nat /\ b \in Nat /\ a <= b /\ t \in Nat
      /\ \A i \in a .. b : rows[i].time = t + (i - a)
  BY RaceTimes, Zenon
<1>2. /\ Countdown \in Nat /\ InputFrames \in Nat /\ Countdown < InputFrames
  BY ReadersAssumption DEF ReadersAssumption
<1>3. a \in a .. b /\ b \in a .. b
  BY <1>1
<1>4. Exact(s) <=> /\ rows[a].time = Countdown /\ rows[b].time = InputFrames - 1
                   /\ b - a + 1 = InputFrames - Countdown
  BY DEF Exact, Length
<1> HIDE DEF a, b
<1>5. rows[b].time = t + (b - a)
  BY <1>1, <1>3
<1>6. Times = t .. t + (b - a)
  <2>1. ASSUME NEW x \in Times PROVE x \in t .. t + (b - a)
    <3>1. PICK i \in a .. b : x = rows[i].time
      OBVIOUS
    <3> QED BY <1>1, <3>1
  <2>2. ASSUME NEW x \in t .. t + (b - a) PROVE x \in Times
    <3> DEFINE i == a + (x - t)
    <3>1. i \in a .. b /\ t + (i - a) = x
      BY <1>1
    <3>2. rows[i].time = x
      BY <1>1, <3>1
    <3> QED BY <3>1, <3>2
  <2> QED BY <2>1, <2>2
<1> HIDE DEF Times
<1>7. ASSUME Exact(s) PROVE Times = Countdown .. InputFrames - 1
  BY <1>4, <1>5, <1>6, <1>7
<1>8. ASSUME Times = Countdown .. InputFrames - 1 PROVE Exact(s)
  <2>1. t \in Times /\ t + (b - a) \in Times
    BY <1>1, <1>6
  <2>2. Countdown \in Times /\ InputFrames - 1 \in Times
    BY <1>2, <1>8
  <2>3. t = Countdown /\ t + (b - a) = InputFrames - 1
    BY <1>1, <1>2, <1>6, <1>8, <2>1, <2>2
  <2> HIDE DEF t
  <2> QED BY <1>1, <1>2, <1>4, <1>5, <2>3 DEF t
<1> QED BY <1>7, <1>8 DEF Times, a, b

\* What the reader takes for the finish of a race comes before any other race.
FinishedAt(b) ==
    \E f \in 1 .. Len(rows) :
        /\ b < f /\ rows[f].stage = "finish"
        /\ \A i \in b + 1 .. f : rows[i].stage # "race"

\* ReachedFinish looks for a finish up to the next segment only.
LEMMA FinishFound ==
  ASSUME TraceInv, NEW n \in 1 .. Len(Segments)
  PROVE  ReachedFinish(n) <=> FinishedAt(Segments[n][2])
<1> DEFINE N == Len(Segments)
           next == IF n < N THEN Segments[n + 1][1] ELSE Len(rows) + 1
           b == Segments[n][2]
<1>1. Tiled /\ N \in Nat /\ Len(rows) \in Nat /\ n \in 1 .. N
  BY SegmentsTile DEF Tiled
<1>2. \A m \in 1 .. N : /\ Segments[m][1] \in 1 .. Len(rows)
                        /\ Segments[m][2] \in Segments[m][1] .. Len(rows)
                        /\ rows[Segments[m][1]].stage = "race"
  BY <1>1 DEF Tiled, Run
<1>3. \A m, k \in 1 .. N : m < k => Segments[m][2] < Segments[k][1]
  BY <1>1 DEF Tiled
<1>4. ReachedFinish(n) <=> \E i \in b + 1 .. next - 1 : rows[i].stage = "finish"
  BY DEF ReachedFinish
<1>5. b \in 1 .. Len(rows) /\ next \in Nat /\ b < next /\ next <= Len(rows) + 1
  <2>1. CASE n < N
    <3>1. n + 1 \in 1 .. N
      BY <1>1, <2>1
    <3> QED BY <1>1, <1>2, <1>3, <2>1, <3>1
  <2>2. CASE ~ (n < N)
    BY <1>1, <1>2, <2>2
  <2> QED BY <2>1, <2>2
<1>6. ASSUME NEW i \in b + 1 .. next - 1, rows[i].stage = "race" PROVE FALSE
  <2>1. i \in 1 .. Len(rows)
    BY <1>1, <1>5
  <2>2. PICK m \in 1 .. N : i \in Segments[m][1] .. Segments[m][2]
    BY <1>1, <1>6, <2>1 DEF Tiled
  <2>3. Segments[m][1] <= i /\ i <= Segments[m][2] /\ b < i /\ i < next
    <3>1. Segments[m][1] \in Int /\ Segments[m][2] \in Int
      BY <1>1, <1>2
    <3>2. b \in Int /\ next \in Int
      BY <1>1, <1>5
    <3> HIDE DEF b, next
    <3> QED BY <2>2, <3>1, <3>2
  <2>4. ~ (m < n)
    <3> SUFFICES ASSUME m < n PROVE FALSE
      OBVIOUS
    <3>1. Segments[m][2] < Segments[n][1]
      BY <1>3
    <3>2. Segments[n][1] <= b /\ Segments[n][1] \in Int /\ b \in Int /\ Segments[m][2] \in Int
      BY <1>1, <1>2
    <3> HIDE DEF b
    <3> QED BY <1>1, <1>2, <2>3, <3>1, <3>2
  <2>5. m # n
    BY <1>1, <1>2, <1>5, <2>3
  <2>6. n < m /\ n < N /\ n + 1 \in 1 .. N /\ (n + 1 < m \/ n + 1 = m)
    BY <1>1, <2>4, <2>5
  <2>7. next = Segments[n + 1][1]
    BY <2>6
  <2>8. Segments[n + 1][1] <= Segments[m][1]
    <3>1. /\ Segments[n + 1][1] \in Int /\ Segments[n + 1][2] \in Int
          /\ Segments[n + 1][1] <= Segments[n + 1][2] /\ Segments[m][1] \in Int
      BY <1>1, <1>2, <2>6
    <3>2. n + 1 < m => Segments[n + 1][2] < Segments[m][1]
      BY <1>3, <2>6
    <3> QED BY <2>6, <3>1, <3>2
  <2> QED BY <1>1, <1>2, <1>5, <2>3, <2>6, <2>7, <2>8
<1>7. ASSUME NEW f \in b + 1 .. next - 1, rows[f].stage = "finish" PROVE FinishedAt(b)
  <2>1. f \in 1 .. Len(rows) /\ b < f
    BY <1>1, <1>5
  <2>2. \A i \in b + 1 .. f : i \in b + 1 .. next - 1
    BY <1>1, <1>5
  <2> HIDE DEF b, next
  <2> QED BY <1>6, <1>7, <2>1, <2>2 DEF FinishedAt
<1>8. ASSUME FinishedAt(b) PROVE \E i \in b + 1 .. next - 1 : rows[i].stage = "finish"
  <2>1. PICK f \in 1 .. Len(rows) : /\ b < f /\ rows[f].stage = "finish"
                                    /\ \A i \in b + 1 .. f : rows[i].stage # "race"
    BY <1>8 DEF FinishedAt
  <2>2. f < next
    <3>1. CASE n < N
      <4>1. n + 1 \in 1 .. N /\ n < n + 1
        BY <1>1, <3>1
      <4>2. next = Segments[n + 1][1] /\ rows[next].stage = "race" /\ b < next
        BY <1>2, <1>5, <3>1, <4>1
      <4>3. next \notin b + 1 .. f
        BY <2>1, <4>2
      <4> QED BY <1>1, <1>5, <2>1, <4>2, <4>3
    <3>2. CASE ~ (n < N)
      BY <1>1, <2>1, <3>2
    <3> QED BY <3>1, <3>2
  <2>3. f \in b + 1 .. next - 1
    BY <1>1, <1>5, <2>1, <2>2
  <2> QED BY <2>1, <2>3
<1> QED BY <1>4, <1>7, <1>8

\* require_completion finds a segment if there is one.
LEMMA AcceptedIsGood ==
  ASSUME TraceInv
  PROVE  AcceptedSegment # 0 <=>
             \E n \in 1 .. Len(Segments) : ReachedFinish(n) /\ Exact(Segments[n])
<1> DEFINE good == {n \in 1 .. Len(Segments) : ReachedFinish(n) /\ Exact(Segments[n])}
<1>1. Len(Segments) \in Nat
  BY SegmentsTile DEF Tiled
<1>2. good \subseteq Nat /\ 0 \notin good
  BY <1>1
<1>3. AcceptedSegment = IF good = {} THEN 0
                        ELSE CHOOSE n \in good : \A m \in good : n <= m
  BY DEF AcceptedSegment
<1>4. good # {} <=> \E n \in 1 .. Len(Segments) : ReachedFinish(n) /\ Exact(Segments[n])
  BY Zenon
<1> HIDE DEF good
<1>5. ASSUME good # {} PROVE AcceptedSegment # 0
  <2>1. \E n \in good : \A m \in good : n <= m
    BY <1>2, <1>5, NatMin, Zenon
  <2>2. AcceptedSegment \in good
    BY <1>3, <1>5, <2>1
  <2> QED BY <1>2, <2>2
<1>6. ASSUME good = {} PROVE AcceptedSegment = 0
  BY <1>3, <1>6
<1> QED BY <1>4, <1>5, <1>6

\* The verdict on a trace is that some race of it has every frame of the
\* input, and was finished.
TraceVerdict ==
    AcceptedSegment # 0 <=> \E r \in Races, f \in 1 .. Len(rows) :
        /\ {rows[i].time : i \in r[1] .. r[2]} = Countdown .. InputFrames - 1
        /\ r[2] < f /\ rows[f].stage = "finish"
        /\ \A i \in r[2] + 1 .. f : rows[i].stage # "race"

\* A segment that is good is such a race, and such a race is a good segment.
LEMMA TraceVerdictFollows == TraceInv /\ step = 1 => TraceVerdict
<1> SUFFICES ASSUME TraceInv, step = 1 PROVE TraceVerdict
  OBVIOUS
<1>1. Tiled
  BY SegmentsTile
<1>2. \A n \in 1 .. Len(Segments) :
          ReachedFinish(n) /\ Exact(Segments[n]) <=>
              /\ {rows[i].time : i \in Segments[n][1] .. Segments[n][2]}
                     = Countdown .. InputFrames - 1
              /\ FinishedAt(Segments[n][2])
  <2> TAKE n \in 1 .. Len(Segments)
  <2>1. Run(rows, step, Segments[n][1], Segments[n][2])
    BY <1>1 DEF Tiled
  <2>2. Exact(Segments[n]) <=> {rows[i].time : i \in Segments[n][1] .. Segments[n][2]}
                                   = Countdown .. InputFrames - 1
    BY <2>1, ExactTimes
  <2> QED BY <2>2, FinishFound
<1> DEFINE Good(s) == /\ {rows[i].time : i \in s[1] .. s[2]} = Countdown .. InputFrames - 1
                      /\ FinishedAt(s[2])
<1>3. AcceptedSegment # 0 <=> \E n \in 1 .. Len(Segments) : Good(Segments[n])
  BY <1>2, AcceptedIsGood
<1>4. (\E n \in 1 .. Len(Segments) : Good(Segments[n])) <=> \E r \in Races : Good(r)
  <2> HIDE DEF Good
  <2> QED BY SegmentsOfRaces, Zenon
<1>5. (\E r \in Races : Good(r)) <=> \E r \in Races, f \in 1 .. Len(rows) :
        /\ {rows[i].time : i \in r[1] .. r[2]} = Countdown .. InputFrames - 1
        /\ r[2] < f /\ rows[f].stage = "finish"
        /\ \A i \in r[2] + 1 .. f : rows[i].stage # "race"
  BY Zenon DEF FinishedAt
<1> QED BY <1>3, <1>4, <1>5, Zenon DEF TraceVerdict

-----------------------------------------------------------------------------
(* The hunks of a patch                                                     *)

\* CountOf and Ends, of any sequence of lines.
Counted(s, kinds, a, b) == Cardinality({i \in a .. b : s[i].kind \in kinds})
EndsIn(s, h) ==
    {e \in h .. Len(s) :
        /\ <<Counted(s, Old, h + 1, e), Counted(s, New, h + 1, e)>> = s[h].declared
        /\ \A i \in h + 1 .. e : s[i].kind \notin {"@@", "other"}}

\* Line i belongs to a hunk that ends.
Closed(s, i) ==
    \E h \in 1 .. Len(s) :
        /\ s[h].kind = "@@" /\ EndsIn(s, h) # {}
        /\ h < i /\ i <= Min(EndsIn(s, h))

AllClosed(s, m) ==
    /\ \A h \in 1 .. m : s[h].kind = "@@" => EndsIn(s, h) # {}
    /\ \A i \in 1 .. m : s[i].kind \in Stray => Closed(s, i)

\* The hunk of the header p has read these many lines, and none ends it.
OpenHunk(s, p, read) ==
    /\ p \in 1 .. Len(s) /\ s[p].kind = "@@"
    /\ read = <<Counted(s, Old, p + 1, Len(s)), Counted(s, New, p + 1, Len(s))>>
    /\ \A i \in p + 1 .. Len(s) : s[i].kind \notin {"@@", "other"}
    /\ \A e \in p .. Len(s) :
           <<Counted(s, Old, p + 1, e), Counted(s, New, p + 1, e)>> # s[p].declared

\* Everything before an open hunk is closed.
PatchInv ==
    /\ lines \in Seq(Line)
    /\ decision = "reading" /\ Inside =>
           \E p \in 1 .. Len(lines) :
               /\ OpenHunk(lines, p, actual) /\ expected = lines[p].declared
               /\ AllClosed(lines, p - 1)
    /\ decision = "reading" /\ ~Inside => AllClosed(lines, Len(lines))
    /\ decision = "verified" => AllClosed(lines, Len(lines))
    /\ decision = "refused" => ~Whole

\* No line was read.
LEMMA PatchStarts == ReadersInit => PatchInv
<1> SUFFICES ASSUME ReadersInit PROVE PatchInv
  OBVIOUS
<1>1. lines = <<>> /\ ~Inside /\ decision = "reading"
  BY DEF ReadersInit, PatchInit, Inside
<1>2. lines \in Seq(Line) /\ Len(lines) = 0
  BY <1>1
<1>3. 1 .. 0 = {}
  OBVIOUS
<1> QED BY <1>1, <1>2, <1>3 DEF PatchInv, AllClosed

\* Whole, in the words of the invariant.
LEMMA WholeIs == lines \in Seq(Line) => (Whole <=> AllClosed(lines, Len(lines)))
<1> SUFFICES ASSUME lines \in Seq(Line) PROVE Whole <=> AllClosed(lines, Len(lines))
  OBVIOUS
<1>1. DOMAIN lines = 1 .. Len(lines)
  OBVIOUS
<1>2. \A h : Ends(h) = EndsIn(lines, h)
  BY DEF Ends, EndsIn, CountOf, Counted
<1>3. Whole <=> /\ \A h \in 1 .. Len(lines) : lines[h].kind = "@@" => EndsIn(lines, h) # {}
                /\ \A i \in 1 .. Len(lines) : lines[i].kind \in Stray =>
                       \E h \in 1 .. Len(lines) : /\ lines[h].kind = "@@"
                                                  /\ h < i /\ i <= Min(EndsIn(lines, h))
  BY <1>1, <1>2, Zenon DEF Whole
<1> QED BY <1>3, Zenon DEF AllClosed, Closed

\* One line more does not change the counts up to the lines before it.
LEMMA CountedOne ==
  ASSUME NEW s \in Seq(Line), NEW line \in Line, NEW kinds, NEW a \in Nat \ {0}
  PROVE  /\ \A b \in 0 .. Len(s) :
                Counted(Append(s, line), kinds, a, b) = Counted(s, kinds, a, b)
         /\ a <= Len(s) + 1 =>
                Counted(Append(s, line), kinds, a, Len(s) + 1)
                    = Counted(s, kinds, a, Len(s)) + One(kinds, line)
         /\ Counted(s, kinds, a, Len(s)) \in Nat
<1> DEFINE t == Append(s, line)
           n == Len(s)
           In(b) == {i \in a .. b : t[i].kind \in kinds}
<1>1. /\ n \in Nat /\ Len(t) = n + 1 /\ t[n + 1] = line
      /\ \A i \in 1 .. n : t[i] = s[i]
  OBVIOUS
<1> HIDE DEF t
<1>2. ASSUME NEW b \in 0 .. n PROVE In(b) = {i \in a .. b : s[i].kind \in kinds}
  <2>1. \A i \in a .. b : i \in 1 .. n
    BY <1>1
  <2> QED BY <1>1, <2>1
<1>3. Counted(t, kinds, a, n) = Counted(s, kinds, a, n)
  <2>1. n \in 0 .. n
    BY <1>1
  <2> QED BY <1>2, <2>1 DEF Counted
<1>4. IsFiniteSet(In(n))
  <2>1. IsFiniteSet(a .. n)
    BY <1>1, FS_Interval
  <2> QED BY <2>1, FS_Subset
<1>5. Cardinality(In(n)) \in Nat
  BY <1>4, FS_CardinalityType
<1>6. ASSUME a <= n + 1 PROVE Counted(t, kinds, a, n + 1) = Cardinality(In(n)) + One(kinds, line)
  <2>1. \A i : i \in a .. n + 1 <=> i \in a .. n \/ i = n + 1
    BY <1>1, <1>6
  <2>2. n + 1 \notin In(n)
    BY <1>1
  <2>3. CASE line.kind \in kinds
    <3>1. In(n + 1) = In(n) \cup {n + 1}
      BY <1>1, <2>1, <2>3
    <3>2. Cardinality(In(n) \cup {n + 1}) = Cardinality(In(n)) + 1
      BY <1>4, <2>2, FS_AddElement
    <3> QED BY <2>3, <3>1, <3>2 DEF Counted, One
  <2>4. CASE line.kind \notin kinds
    <3>1. In(n + 1) = In(n)
      BY <1>1, <2>1, <2>4
    <3>2. Counted(t, kinds, a, n + 1) = Cardinality(In(n))
      BY <3>1 DEF Counted
    <3>3. One(kinds, line) = 0
      BY <2>4 DEF One
    <3> QED BY <1>5, <3>2, <3>3
  <2> QED BY <2>3, <2>4
<1>7. Counted(t, kinds, a, n) = Cardinality(In(n))
  BY DEF Counted
<1>8. \A b \in 0 .. n : Counted(t, kinds, a, b) = Counted(s, kinds, a, b)
  BY <1>2 DEF Counted
<1> QED BY <1>3, <1>5, <1>6, <1>7, <1>8 DEF t

\* So the ends of a hunk among them are the same.
LEMMA EndsStay ==
  ASSUME NEW s \in Seq(Line), NEW line \in Line, NEW h \in 1 .. Len(s)
  PROVE  \A e \in h .. Len(s) : e \in EndsIn(Append(s, line), h) <=> e \in EndsIn(s, h)
<1> DEFINE t == Append(s, line)
<1>1. /\ Len(s) \in Nat /\ Len(t) = Len(s) + 1 /\ \A i \in 1 .. Len(s) : t[i] = s[i]
      /\ h + 1 \in Nat \ {0}
  OBVIOUS
<1>2. \A b \in 0 .. Len(s) : /\ Counted(t, Old, h + 1, b) = Counted(s, Old, h + 1, b)
                             /\ Counted(t, New, h + 1, b) = Counted(s, New, h + 1, b)
  <2>1. \A kinds : \A b \in 0 .. Len(s) : Counted(t, kinds, h + 1, b) = Counted(s, kinds, h + 1, b)
    BY <1>1, CountedOne
  <2> HIDE DEF t
  <2> QED BY <2>1
<1> HIDE DEF t
<1> SUFFICES ASSUME NEW e \in h .. Len(s) PROVE e \in EndsIn(t, h) <=> e \in EndsIn(s, h)
  BY DEF t
<1>3. e \in 0 .. Len(s) /\ e \in h .. Len(t) /\ t[h] = s[h]
  BY <1>1
<1>4. \A i \in h + 1 .. e : t[i] = s[i]
  BY <1>1
<1>5. (\A i \in h + 1 .. e : t[i].kind \notin {"@@", "other"})
      <=> \A i \in h + 1 .. e : s[i].kind \notin {"@@", "other"}
  BY <1>4
<1> QED BY <1>2, <1>3, <1>5 DEF EndsIn

\* The least end of a hunk that has one.
LEMMA MinIs ==
  ASSUME NEW S, S \subseteq Nat, NEW m \in S, \A x \in S : m <= x
  PROVE  Min(S) = m
<1>1. Min(S) \in S /\ \A x \in S : Min(S) <= x
  BY Zenon DEF Min
<1>2. Min(S) <= m /\ m <= Min(S) /\ Min(S) \in Nat /\ m \in Nat
  BY <1>1
<1> QED BY <1>2

\* A hunk that ends has a first end, which no later line moves.
LEMMA FirstEnd ==
  ASSUME NEW s \in Seq(Line), NEW h \in 1 .. Len(s), EndsIn(s, h) # {}
  PROVE  /\ Min(EndsIn(s, h)) \in EndsIn(s, h) /\ Min(EndsIn(s, h)) \in h .. Len(s)
         /\ \A e \in EndsIn(s, h) : Min(EndsIn(s, h)) <= e
         /\ \A line \in Line : /\ EndsIn(Append(s, line), h) # {}
                               /\ Min(EndsIn(Append(s, line), h)) = Min(EndsIn(s, h))
<1>1. Len(s) \in Nat /\ \A e \in EndsIn(s, h) : e \in h .. Len(s)
  BY DEF EndsIn
<1>2. EndsIn(s, h) \subseteq Nat
  BY <1>1
<1>3. PICK m \in EndsIn(s, h) : \A e \in EndsIn(s, h) : m <= e
  BY <1>2, NatMin, Zenon
<1>4. Min(EndsIn(s, h)) = m
  BY <1>2, <1>3, MinIs
<1>5. ASSUME NEW line \in Line
      PROVE  /\ EndsIn(Append(s, line), h) # {}
             /\ Min(EndsIn(Append(s, line), h)) = m
  <2> DEFINE t == Append(s, line)
  <2>1. Len(t) = Len(s) + 1
    OBVIOUS
  <2>2. \A e \in EndsIn(t, h) : e \in h .. Len(t)
    BY DEF EndsIn
  <2>3. m \in EndsIn(t, h)
    BY <1>1, <1>3, EndsStay
  <2>4. ASSUME NEW e \in EndsIn(t, h) PROVE m <= e
    <3>1. e \in h .. Len(s) \/ e = Len(s) + 1
      BY <1>1, <2>1, <2>2, <2>4
    <3>2. CASE e \in h .. Len(s)
      BY <1>3, <2>4, <3>2, EndsStay
    <3>3. CASE e = Len(s) + 1
      BY <1>1, <1>3, <3>3
    <3> QED BY <3>1, <3>2, <3>3
  <2>5. EndsIn(t, h) \subseteq Nat
    BY <1>1, <2>1, <2>2
  <2>6. Min(EndsIn(t, h)) = m
    <3> HIDE DEF t
    <3> QED BY <2>3, <2>4, <2>5, MinIs
  <2> QED BY <2>3, <2>6
<1> QED BY <1>1, <1>3, <1>4, <1>5

\* What is closed stays closed.
LEMMA ClosedStays ==
  ASSUME NEW s \in Seq(Line), NEW line \in Line, NEW m \in 0 .. Len(s), AllClosed(s, m)
  PROVE  AllClosed(Append(s, line), m)
<1> DEFINE t == Append(s, line)
<1>1. /\ Len(s) \in Nat /\ Len(t) = Len(s) + 1 /\ \A i \in 1 .. Len(s) : t[i] = s[i]
  OBVIOUS
<1>2. ASSUME NEW h \in 1 .. Len(s), EndsIn(s, h) # {}
      PROVE  EndsIn(t, h) # {} /\ Min(EndsIn(t, h)) = Min(EndsIn(s, h))
  BY <1>2, FirstEnd
<1> HIDE DEF t
<1>3. ASSUME NEW h \in 1 .. m, t[h].kind = "@@" PROVE EndsIn(t, h) # {}
  <2>1. h \in 1 .. Len(s) /\ t[h] = s[h]
    BY <1>1
  <2> QED BY <1>2, <1>3, <2>1 DEF AllClosed
<1>4. ASSUME NEW i \in 1 .. m, t[i].kind \in Stray PROVE Closed(t, i)
  <2>1. i \in 1 .. Len(s) /\ t[i] = s[i]
    BY <1>1
  <2>2. PICK h \in 1 .. Len(s) : /\ s[h].kind = "@@" /\ EndsIn(s, h) # {}
                                 /\ h < i /\ i <= Min(EndsIn(s, h))
    BY <1>4, <2>1 DEF AllClosed, Closed
  <2>3. EndsIn(t, h) # {} /\ Min(EndsIn(t, h)) = Min(EndsIn(s, h))
    BY <1>2, <2>2
  <2>4. h \in 1 .. Len(t) /\ t[h] = s[h]
    BY <1>1
  <2> QED BY <2>2, <2>3, <2>4 DEF Closed
<1>5. AllClosed(t, m)
  BY <1>3, <1>4 DEF AllClosed
<1> QED BY <1>5 DEF t

\* A line outside of a hunk is a header, a stray one or text.
LEMMA OutsideStep ==
  ASSUME PatchInv, decision = "reading", NEW line \in Line,
         lines' = Append(lines, line), ReadOutside(line)
  PROVE  PatchInv'
<1> DEFINE n == Len(lines)
<1>1. /\ lines \in Seq(Line) /\ n \in Nat /\ lines' \in Seq(Line) /\ Len(lines') = n + 1
      /\ lines'[n + 1] = line /\ \A i \in 1 .. n : lines'[i] = lines[i]
  BY DEF PatchInv
<1>2. ~Inside /\ AllClosed(lines, n) /\ n \in 0 .. n
  BY <1>1 DEF ReadOutside, PatchInv
<1>3. AllClosed(lines', n)
  BY <1>1, <1>2, ClosedStays
<1>4. CASE line.kind \in Stray
  <2>1. decision' = "refused"
    BY <1>4 DEF ReadOutside, Refuse
  <2>2. ASSUME Closed(lines', n + 1) PROVE FALSE
    <3>1. PICK h \in 1 .. n + 1 : /\ lines'[h].kind = "@@" /\ EndsIn(lines', h) # {}
                                  /\ h < n + 1 /\ n + 1 <= Min(EndsIn(lines', h))
      BY <1>1, <2>2 DEF Closed
    <3>2. h \in 1 .. n /\ lines[h].kind = "@@"
      BY <1>1, <3>1
    <3>3. EndsIn(lines, h) # {}
      BY <1>2, <3>2 DEF AllClosed
    <3>4. Min(EndsIn(lines', h)) = Min(EndsIn(lines, h)) /\ Min(EndsIn(lines, h)) \in h .. n
      BY <1>1, <3>2, <3>3, FirstEnd
    <3> QED BY <1>1, <3>1, <3>4
  <2>3. n + 1 \in 1 .. n + 1
    BY <1>1
  <2>4. ~AllClosed(lines', n + 1)
    BY <1>1, <1>4, <2>2, <2>3 DEF AllClosed
  <2>5. (lines \in Seq(Line) => (Whole <=> AllClosed(lines, Len(lines))))'
    BY WholeIs, PTL
  <2>6. ~Whole'
    BY <1>1, <2>4, <2>5
  <2> QED BY <1>1, <2>1, <2>6 DEF PatchInv
<1>5. CASE line.kind \notin Stray /\ line.kind # "@@"
  <2>1. UNCHANGED <<expected, actual, decision>>
    BY <1>5 DEF ReadOutside
  <2>2. \A i \in 1 .. n + 1 : i \in 1 .. n \/ i = n + 1
    BY <1>1
  <2>3. AllClosed(lines', n + 1)
    BY <1>1, <1>3, <1>5, <2>2 DEF AllClosed
  <2>4. ~Inside' /\ decision' = "reading"
    BY <1>2, <2>1 DEF Inside
  <2> QED BY <1>1, <2>3, <2>4 DEF PatchInv
<1>6. CASE line.kind = "@@"
  <2>0. line.kind \notin Stray
    BY <1>6 DEF Stray
  <2>1. expected' = line.declared /\ actual' = <<0, 0>> /\ decision' = "reading"
    BY <1>6, <2>0 DEF ReadOutside
  <2>2. \A i \in 1 .. n + 1 : i \in 1 .. n \/ i = n + 1
    BY <1>1
  <2>3. \A kinds : Counted(lines', kinds, (n + 1) + 1, n + 1) = 0
    <3>1. (n + 1) + 1 .. n + 1 = {}
      BY <1>1
    <3> QED BY <3>1, FS_EmptySet DEF Counted
  <2>4. n + 1 \in 1 .. n + 1 /\ \A e \in n + 1 .. n + 1 : e = n + 1
    BY <1>1
  <2>5. \A i \in (n + 1) + 1 .. n + 1 : FALSE
    BY <1>1
  <2>6. CASE line.declared = <<0, 0>>
    <3>1. n + 1 \in n + 1 .. Len(lines')
      BY <1>1
    <3>2. n + 1 \in EndsIn(lines', n + 1)
      BY <1>1, <2>3, <2>5, <2>6, <3>1 DEF EndsIn
    <3>3. AllClosed(lines', n + 1)
      BY <1>1, <1>3, <2>0, <2>2, <3>2 DEF AllClosed
    <3>4. ~Inside'
      BY <2>1, <2>6 DEF Inside
    <3> QED BY <1>1, <2>1, <3>3, <3>4 DEF PatchInv
  <2>7. CASE line.declared # <<0, 0>>
    <3>1. OpenHunk(lines', n + 1, actual')
      BY <1>1, <1>6, <2>1, <2>3, <2>4, <2>5, <2>7 DEF OpenHunk
    <3>2. AllClosed(lines', (n + 1) - 1)
      <4>1. (n + 1) - 1 = n
        BY <1>1
      <4> QED BY <1>3, <4>1
    <3>3. Inside'
      BY <2>1, <2>7 DEF Inside
    <3> QED BY <1>1, <2>1, <2>4, <3>1, <3>2, <3>3 DEF PatchInv
  <2> QED BY <2>6, <2>7
<1> QED BY <1>4, <1>5, <1>6

\* A line inside counts, and may be the last one.
LEMMA InsideStep ==
  ASSUME PatchInv, decision = "reading", NEW line \in Line,
         lines' = Append(lines, line), ReadInside(line)
  PROVE  PatchInv'
<1> DEFINE n == Len(lines)
           now == <<actual[1] + One(Old, line), actual[2] + One(New, line)>>
<1>1. /\ lines \in Seq(Line) /\ n \in Nat /\ lines' \in Seq(Line) /\ Len(lines') = n + 1
      /\ lines'[n + 1] = line /\ \A i \in 1 .. n : lines'[i] = lines[i]
  BY DEF PatchInv
<1>2. PICK p \in 1 .. n : /\ OpenHunk(lines, p, actual) /\ expected = lines[p].declared
                          /\ AllClosed(lines, p - 1)
  BY DEF ReadInside, PatchInv
<1>3. AllClosed(lines', p - 1)
  <2>1. p - 1 \in 0 .. n
    BY <1>1
  <2> QED BY <1>1, <1>2, <2>1, ClosedStays
<1>4. /\ p \in 1 .. n + 1 /\ p + 1 \in Nat \ {0} /\ p + 1 <= n + 1 /\ lines'[p] = lines[p]
      /\ lines[p].kind = "@@" /\ lines[p].kind \notin Stray
  BY <1>1, <1>2 DEF OpenHunk, Stray
<1>5. now = <<Counted(lines', Old, p + 1, n + 1), Counted(lines', New, p + 1, n + 1)>>
  <2>1. /\ actual[1] = Counted(lines, Old, p + 1, n)
        /\ actual[2] = Counted(lines, New, p + 1, n)
    BY <1>2 DEF OpenHunk
  <2> QED BY <1>1, <1>4, <2>1, CountedOne
<1>6. \A e \in p .. n :
          <<Counted(lines', Old, p + 1, e), Counted(lines', New, p + 1, e)>> # lines[p].declared
  <2> TAKE e \in p .. n
  <2>1. e \in 0 .. n
    BY <1>1
  <2> QED BY <1>1, <1>2, <1>4, <2>1, CountedOne DEF OpenHunk
<1>7. \A e \in p .. n + 1 : e \in p .. n \/ e = n + 1
  BY <1>1
<1>8. \A i \in p + 1 .. n + 1 : i \in p + 1 .. n \/ i = n + 1
  BY <1>1
<1>9. \A i \in p + 1 .. n : lines'[i].kind \notin {"@@", "other"}
  BY <1>1, <1>2 DEF OpenHunk
<1>10. \A i \in 1 .. n + 1 : i \in 1 .. p - 1 \/ i = p \/ i \in p + 1 .. n + 1
  BY <1>1
<1>11. CASE \/ line.kind \in {"@@", "other"} \/ now[1] > expected[1] \/ now[2] > expected[2]
  <2>1. decision' = "refused"
    BY <1>11 DEF ReadInside, Refuse
  <2>2. ASSUME NEW e \in EndsIn(lines', p) PROVE FALSE
    <3>1. /\ e \in p .. n + 1
          /\ <<Counted(lines', Old, p + 1, e), Counted(lines', New, p + 1, e)>>
                 = lines[p].declared
          /\ \A i \in p + 1 .. e : lines'[i].kind \notin {"@@", "other"}
      BY <1>1, <1>4, <2>2 DEF EndsIn
    <3>2. e = n + 1 /\ n + 1 \in p + 1 .. n + 1
      BY <1>1, <1>6, <1>7, <3>1
    <3>3. line.kind \notin {"@@", "other"}
      BY <1>1, <3>1, <3>2
    <3>4. now = expected
      BY <1>2, <1>5, <3>1, <3>2
    <3>5. now[1] \in Nat /\ now[2] \in Nat
      <4>1. /\ Counted(lines, Old, p + 1, n) \in Nat /\ Counted(lines, New, p + 1, n) \in Nat
        BY <1>1, <1>4, CountedOne
      <4>2. One(Old, line) \in Nat /\ One(New, line) \in Nat
        BY DEF One
      <4> QED BY <1>2, <4>1, <4>2 DEF OpenHunk
    <3> HIDE DEF now
    <3> QED BY <1>11, <3>3, <3>4, <3>5
  <2>3. ~AllClosed(lines', n + 1)
    BY <1>4, <2>2 DEF AllClosed
  <2>4. (lines \in Seq(Line) => (Whole <=> AllClosed(lines, Len(lines))))'
    BY WholeIs, PTL
  <2>5. ~Whole'
    BY <1>1, <2>3, <2>4
  <2> QED BY <1>1, <2>1, <2>5 DEF PatchInv
<1>12. CASE ~ \/ line.kind \in {"@@", "other"} \/ now[1] > expected[1] \/ now[2] > expected[2]
  <2>1. actual' = now /\ expected' = expected /\ decision' = "reading"
    BY <1>12 DEF ReadInside
  <2>2. \A i \in p + 1 .. n + 1 : lines'[i].kind \notin {"@@", "other"}
    BY <1>1, <1>8, <1>9, <1>12
  <2>3. expected = lines'[p].declared
    BY <1>2, <1>4
  <2> HIDE DEF now
  <2>4. CASE now = expected
    <3>1. n + 1 \in p .. Len(lines')
      BY <1>1
    <3>2. n + 1 \in EndsIn(lines', p)
      BY <1>5, <2>2, <2>3, <2>4, <3>1 DEF EndsIn
    <3>3. \A e \in EndsIn(lines', p) : e = n + 1
      BY <1>1, <1>4, <1>6, <1>7 DEF EndsIn
    <3>4. Min(EndsIn(lines', p)) = n + 1
      <4>1. EndsIn(lines', p) \subseteq Nat
        BY <1>1, <3>3
      <4> QED BY <1>1, <3>2, <3>3, <4>1, MinIs
    <3>5. ASSUME NEW h \in 1 .. n + 1, lines'[h].kind = "@@" PROVE EndsIn(lines', h) # {}
      BY <1>3, <1>10, <2>2, <3>2, <3>5 DEF AllClosed
    <3>6. ASSUME NEW i \in 1 .. n + 1, lines'[i].kind \in Stray PROVE Closed(lines', i)
      <4>1. CASE i \in 1 .. p - 1
        BY <1>3, <3>6, <4>1 DEF AllClosed
      <4>2. CASE i \in p + 1 .. n + 1
        <5>1. p < i /\ i <= n + 1 /\ p \in 1 .. Len(lines')
          BY <1>1, <4>2
        <5> QED BY <1>4, <3>2, <3>4, <5>1 DEF Closed
      <4> QED BY <1>4, <1>10, <3>6, <4>1, <4>2
    <3>7. ~Inside'
      BY <2>1, <2>4 DEF Inside
    <3> QED BY <1>1, <2>1, <3>5, <3>6, <3>7 DEF PatchInv, AllClosed
  <2>5. CASE now # expected
    <3>1. \A e \in p .. n + 1 :
          <<Counted(lines', Old, p + 1, e), Counted(lines', New, p + 1, e)>>
              # lines'[p].declared
      BY <1>4, <1>5, <1>6, <1>7, <2>3, <2>5
    <3>2. OpenHunk(lines', p, actual')
      BY <1>1, <1>4, <1>5, <2>1, <2>2, <3>1 DEF OpenHunk
    <3>3. Inside'
      BY <2>1, <2>5 DEF Inside
    <3> QED BY <1>1, <1>3, <1>4, <2>1, <2>3, <3>2, <3>3 DEF PatchInv
  <2> QED BY <2>4, <2>5
<1> QED BY <1>11, <1>12

LEMMA WholeStays == UNCHANGED lines => (Whole' <=> Whole)
<1> SUFFICES ASSUME UNCHANGED lines PROVE Whole' <=> Whole
  OBVIOUS
<1>1. \A h : Ends(h)' = Ends(h)
  BY DEF Ends, CountOf
<1> QED BY <1>1, Zenon DEF Whole

\* The end of the patch changes no line.
LEMMA PatchStep == PatchInv /\ [ReadersNext]_readers => PatchInv'
<1> SUFFICES ASSUME PatchInv, [PatchNext]_patch PROVE PatchInv'
  BY StepOfOne
<1>1. CASE UNCHANGED patch
  <2>1. UNCHANGED <<lines, expected, actual, decision>>
    BY <1>1 DEF patch
  <2>2. Whole' <=> Whole
    BY <2>1, WholeStays
  <2> QED BY <2>1, <2>2 DEF PatchInv, Inside
<1>2. ASSUME decision = "reading", NEW line \in Line, ReadPatch(line) PROVE PatchInv'
  BY <1>2, OutsideStep, InsideStep DEF ReadPatch
<1>3. CASE decision = "reading" /\ EndPatch
  <2>1. UNCHANGED <<lines, expected, actual>> /\ lines \in Seq(Line)
    BY <1>3 DEF EndPatch, PatchInv
  <2>2. CASE Inside
    <3>1. decision' = "refused"
      BY <1>3, <2>2 DEF EndPatch
    <3>2. PICK p \in 1 .. Len(lines) : OpenHunk(lines, p, actual)
      BY <1>3, <2>2 DEF PatchInv
    <3>3. EndsIn(lines, p) = {} /\ lines[p].kind = "@@"
      BY <3>2 DEF OpenHunk, EndsIn
    <3>4. ~Whole
      BY <2>1, <3>3, WholeIs DEF AllClosed
    <3>5. ~Whole'
      BY <2>1, <3>4, WholeStays
    <3> QED BY <2>1, <3>1, <3>5 DEF PatchInv
  <2>3. CASE ~Inside
    <3>1. decision' = "verified" /\ AllClosed(lines, Len(lines))
      BY <1>3, <2>3 DEF EndPatch, PatchInv
    <3> QED BY <2>1, <3>1 DEF PatchInv
  <2> QED BY <2>2, <2>3
<1> QED BY <1>1, <1>2, <1>3 DEF PatchNext

\* The decision on a patch is that of its lines.
LEMMA PatchFollows == PatchInv => PatchIsWhole
BY WholeIs DEF PatchInv, PatchIsWhole

-----------------------------------------------------------------------------
(* The comparison of two traces                                             *)

\* A frame is its values, and none of them is Unseen.
LEMMA FrameIs ==
  ASSUME NEW f \in Frame
  PROVE  /\ f.time \in Nat /\ f = [a \in Address |-> f[a]]
         /\ \A a \in Address : f[a] # Unseen
BY ComparisonAssumption DEF Frame, Address, ComparisonAssumption

\* The race that the fold keeps is the first of the longest ones.
LEMMA LongestIsChosen ==
  ASSUME NEW s \in Seq(Frame)
  PROVE  LongestRace(s) = FirstLongest(s)
<1> DEFINE runs == {r \in (DOMAIN s) \X (DOMAIN s) : r[1] <= r[2] /\ IsRun(s, r[1], r[2])}
           Before(r, o) == \/ o[2] - o[1] < r[2] - r[1]
                           \/ o[2] - o[1] = r[2] - r[1] /\ r[1] <= o[1]
<1>0. DOMAIN s = 1 .. Len(s) /\ Len(s) \in Nat
  OBVIOUS
<1>1. FirstLongest(s) = IF runs = {} THEN <<>>
                        ELSE LET r == CHOOSE r \in runs : \A o \in runs : Before(r, o)
                             IN  SubSeq(s, r[1], r[2])
  BY DEF FirstLongest
<1>2. \/ LongestRace(s) = <<>> /\ \A i \in 1 .. Len(s) : s[i].stage # "race"
      \/ \E a \in 1 .. Len(s) : \E b \in a .. Len(s) :
             IsFirstLongest(s, Len(s), a, b) /\ LongestRace(s) = SubSeq(s, a, b)
  BY FrameIs, LongestIsFirst
<1>3. CASE LongestRace(s) = <<>> /\ \A i \in 1 .. Len(s) : s[i].stage # "race"
  <2>1. runs = {}
    <3> SUFFICES ASSUME NEW r \in runs PROVE FALSE
      OBVIOUS
    <3>1. r[1] \in 1 .. Len(s) /\ r[1] \in r[1] .. r[2]
      BY <1>0
    <3> QED BY <1>3, <3>1 DEF IsRun
  <2> QED BY <1>1, <1>3, <2>1
<1>4. ASSUME NEW a \in 1 .. Len(s), NEW b \in a .. Len(s),
             IsFirstLongest(s, Len(s), a, b), LongestRace(s) = SubSeq(s, a, b)
      PROVE  LongestRace(s) = FirstLongest(s)
  <2> DEFINE p == <<a, b>>
  <2>1. p \in runs
    BY <1>0, <1>4 DEF IsFirstLongest
  <2>2. \A o \in runs : /\ o[1] \in 1 .. Len(s) /\ o[2] \in o[1] .. Len(s)
                        /\ o = <<o[1], o[2]>> /\ IsRun(s, o[1], o[2])
    BY <1>0
  <2>3. \A o \in runs : Before(p, o)
    <3> TAKE o \in runs
    <3>1. o[2] - o[1] < b - a \/ (o[2] - o[1] = b - a /\ a <= o[1])
      BY <1>4, <2>2 DEF IsFirstLongest
    <3> QED BY <3>1
  <2> DEFINE r == CHOOSE r \in runs : \A o \in runs : Before(r, o)
  <2>4. r \in runs /\ \A o \in runs : Before(r, o)
    <3> HIDE DEF runs, Before, p
    <3> QED BY <2>1, <2>3, Zenon
  <2>5. Before(r, p) /\ Before(p, r)
    BY <2>1, <2>3, <2>4
  <2>6. FirstLongest(s) = SubSeq(s, r[1], r[2])
    <3> HIDE DEF runs, Before
    <3> QED BY <1>1, <2>1
  <2>7. r[1] \in Int /\ r[2] \in Int /\ a \in Int /\ b \in Int
    <3>1. r[1] \in 1 .. Len(s) /\ r[2] \in r[1] .. Len(s)
      <4> HIDE DEF runs, Before, r
      <4> QED BY <2>2, <2>4
    <3> HIDE DEF r
    <3> QED BY <1>0, <3>1
  <2> HIDE DEF r
  <2>8. r[1] = a /\ r[2] = b
    BY <2>5, <2>7
  <2> QED BY <1>4, <2>6, <2>8
<1> QED BY <1>2, <1>3, <1>4

\* The frames of s that a time begins with; the rank of one of them among them.
Begun(s) == {i \in 1 .. Len(s) : i = 1 \/ s[i].time # s[i - 1].time}
Rank(s, i) == Cardinality({j \in Begun(s) : j <= i})
TicksOf(s) ==
    [n \in 1 .. Cardinality(Begun(s)) |-> s[CHOOSE i \in Begun(s) : Rank(s, i) = n]]

\* Each rank is that of one frame.
Ranked(s) ==
    /\ IsFiniteSet(Begun(s)) /\ Cardinality(Begun(s)) \in Nat
    /\ \A n \in 1 .. Cardinality(Begun(s)) :
           \E i \in Begun(s) : Rank(s, i) = n /\ \A j \in Begun(s) : Rank(s, j) = n => j = i

\* A frame that begins a time is a tick, and another one is none.
LEMMA TickAdded ==
  ASSUME NEW s \in Seq(Frame), NEW f \in Frame, Ranked(s)
  PROVE  /\ Ranked(Append(s, f))
         /\ TicksOf(Append(s, f)) =
                IF s = <<>> \/ f.time # s[Len(s)].time
                THEN Append(TicksOf(s), f) ELSE TicksOf(s)
<1> DEFINE t == Append(s, f)
           N == Len(s)
           c == Cardinality(Begun(s))
           Begins == s = <<>> \/ f.time # s[Len(s)].time
<1>1. /\ N \in Nat /\ Len(t) = N + 1 /\ t[N + 1] = f /\ \A i \in 1 .. N : t[i] = s[i]
      /\ s = <<>> <=> N = 0
  OBVIOUS
<1>2. c \in Nat /\ IsFiniteSet(Begun(s)) /\ Begun(s) \subseteq 1 .. N
  BY DEF Ranked, Begun
<1> HIDE DEF t
<1>3. ASSUME NEW i \in 1 .. N PROVE i \in Begun(t) <=> i \in Begun(s)
  <2>1. i \in 1 .. N + 1 /\ (i # 1 => i - 1 \in 1 .. N)
    BY <1>1
  <2> QED BY <1>1, <2>1 DEF Begun
<1>4. N + 1 \in Begun(t) <=> Begins
  <2>1. N + 1 \in 1 .. N + 1 /\ (N + 1) - 1 = N /\ (N # 0 => N \in 1 .. N)
    BY <1>1
  <2> QED BY <1>1, <2>1 DEF Begun
<1>5. \A i \in Begun(t) : i \in 1 .. N \/ i = N + 1
  BY <1>1 DEF Begun
<1>6. Begun(t) = IF Begins THEN Begun(s) \cup {N + 1} ELSE Begun(s)
  <2>1. CASE Begins
    <3>1. \A i : i \in Begun(t) <=> i \in Begun(s) \/ i = N + 1
      BY <1>2, <1>3, <1>4, <1>5, <2>1
    <3> QED BY <2>1, <3>1
  <2>2. CASE ~Begins
    <3>1. \A i : i \in Begun(t) <=> i \in Begun(s)
      BY <1>2, <1>3, <1>4, <1>5, <2>2
    <3> QED BY <2>2, <3>1
  <2> QED BY <2>1, <2>2
<1>7. N + 1 \notin Begun(s)
  BY <1>1, <1>2
<1>8. /\ IsFiniteSet(Begun(t))
      /\ Cardinality(Begun(t)) = IF Begins THEN c + 1 ELSE c
  <2>1. CASE Begins
    <3>1. /\ IsFiniteSet(Begun(s) \cup {N + 1})
          /\ Cardinality(Begun(s) \cup {N + 1}) = c + 1
      BY <1>2, <1>7, FS_AddElement
    <3> QED BY <1>6, <2>1, <3>1
  <2>2. CASE ~Begins
    BY <1>2, <1>6, <2>2
  <2> QED BY <2>1, <2>2
<1>9. ASSUME NEW i \in Begun(s)
      PROVE  Rank(t, i) = Rank(s, i) /\ Rank(s, i) <= c /\ Rank(s, i) \in Nat
  <2>1. {j \in Begun(t) : j <= i} = {j \in Begun(s) : j <= i}
    BY <1>1, <1>2, <1>6
  <2>2. {j \in Begun(s) : j <= i} \subseteq Begun(s)
    OBVIOUS
  <2>3. /\ Cardinality({j \in Begun(s) : j <= i}) <= c
        /\ Cardinality({j \in Begun(s) : j <= i}) \in Nat
    BY <1>2, <2>2, FS_Subset, FS_CardinalityType
  <2> QED BY <2>1, <2>3 DEF Rank
<1>10. ASSUME Begins PROVE Rank(t, N + 1) = c + 1
  <2>1. {j \in Begun(t) : j <= N + 1} = Begun(t)
    BY <1>1, <1>5
  <2> QED BY <1>8, <1>10, <2>1 DEF Rank
<1>11. ASSUME NEW n \in 1 .. c
       PROVE  \E i \in Begun(s) : /\ Rank(s, i) = n /\ i \in Begun(t) /\ Rank(t, i) = n
                                  /\ \A j \in Begun(s) : Rank(s, j) = n => j = i
                                  /\ \A j \in Begun(t) : Rank(t, j) = n => j = i
  <2>1. PICK i \in Begun(s) : Rank(s, i) = n /\ \A j \in Begun(s) : Rank(s, j) = n => j = i
    BY DEF Ranked
  <2>2. i \in Begun(t) /\ Rank(t, i) = n
    BY <1>2, <1>3, <1>9, <2>1
  <2>3. ASSUME NEW j \in Begun(t), Rank(t, j) = n PROVE j = i
    <3>1. CASE j \in Begun(s)
      BY <1>9, <2>1, <2>3, <3>1
    <3>2. CASE j \notin Begun(s)
      <4>1. Begins /\ j = N + 1
        BY <1>6, <3>2
      <4> QED BY <1>2, <1>10, <2>3, <4>1
    <3> QED BY <3>1, <3>2
  <2> QED BY <2>1, <2>2, <2>3
<1>12. ASSUME Begins
       PROVE  /\ N + 1 \in Begun(t) /\ Rank(t, N + 1) = c + 1
              /\ \A j \in Begun(t) : Rank(t, j) = c + 1 => j = N + 1
  <2>1. \A j \in Begun(t) : j \in Begun(s) \/ j = N + 1
    BY <1>6
  <2>2. \A j \in Begun(s) : Rank(t, j) # c + 1
    BY <1>2, <1>9
  <2> QED BY <1>4, <1>10, <1>12, <2>1, <2>2
<1>13. Ranked(t)
  <2>1. ASSUME NEW n \in 1 .. Cardinality(Begun(t))
        PROVE  \E i \in Begun(t) : Rank(t, i) = n /\ \A j \in Begun(t) : Rank(t, j) = n => j = i
    <3>1. n \in 1 .. c \/ (Begins /\ n = c + 1)
      BY <1>2, <1>8
    <3> QED BY <1>11, <1>12, <3>1
  <2>2. Cardinality(Begun(t)) \in Nat
    BY <1>2, <1>8
  <2> QED BY <1>8, <2>1, <2>2 DEF Ranked
<1> DEFINE At(u, n) == CHOOSE i \in Begun(u) : Rank(u, i) = n
<1>14. ASSUME NEW n \in 1 .. c PROVE At(t, n) = At(s, n) /\ t[At(t, n)] = s[At(s, n)]
  <2>1. PICK i \in Begun(s) : /\ Rank(s, i) = n /\ i \in Begun(t) /\ Rank(t, i) = n
                              /\ \A j \in Begun(s) : Rank(s, j) = n => j = i
                              /\ \A j \in Begun(t) : Rank(t, j) = n => j = i
    BY <1>11
  <2>2. At(s, n) \in Begun(s) /\ Rank(s, At(s, n)) = n
    BY <2>1, Zenon
  <2>3. At(t, n) \in Begun(t) /\ Rank(t, At(t, n)) = n
    BY <2>1, Zenon
  <2> HIDE DEF At
  <2>4. At(s, n) = i /\ At(t, n) = i
    BY <2>1, <2>2, <2>3
  <2> QED BY <1>1, <1>2, <2>4
<1>15. ASSUME Begins PROVE t[At(t, c + 1)] = f
  <2>1. N + 1 \in Begun(t) /\ Rank(t, N + 1) = c + 1
    BY <1>12, <1>15
  <2>2. At(t, c + 1) \in Begun(t) /\ Rank(t, At(t, c + 1)) = c + 1
    BY <2>1, Zenon
  <2> HIDE DEF At
  <2>3. At(t, c + 1) = N + 1
    BY <1>12, <1>15, <2>2
  <2> QED BY <1>1, <2>3
<1>16. \A u : TicksOf(u) = [n \in 1 .. Cardinality(Begun(u)) |-> u[At(u, n)]]
  BY DEF TicksOf
<1> HIDE DEF At
<1>17. CASE ~Begins
  <2>1. TicksOf(t) = [n \in 1 .. c |-> t[At(t, n)]] /\ TicksOf(s) = [n \in 1 .. c |-> s[At(s, n)]]
    BY <1>8, <1>16, <1>17
  <2>2. TicksOf(t) = TicksOf(s)
    BY <1>14, <2>1
  <2> QED BY <1>13, <1>17, <2>2 DEF t
<1>18. CASE Begins
  <2> DEFINE q == TicksOf(s)
  <2>1. TicksOf(t) = [n \in 1 .. c + 1 |-> t[At(t, n)]] /\ q = [n \in 1 .. c |-> s[At(s, n)]]
    BY <1>8, <1>16, <1>18
  <2>2. \A n \in 1 .. c : s[At(s, n)] \in Frame
    <3> TAKE n \in 1 .. c
    <3>1. PICK i \in Begun(s) : Rank(s, i) = n
      BY <1>11
    <3>2. At(s, n) \in Begun(s)
      BY <3>1, Zenon DEF At
    <3> QED BY <1>1, <1>2, <3>2
  <2>3. q \in Seq(Frame) /\ Len(q) = c
    <3>1. q \in [1 .. c -> Frame]
      BY <2>1, <2>2
    <3> QED BY <1>2, <3>1
  <2> HIDE DEF q
  <2>4. /\ Append(q, f) \in Seq(Frame) /\ Len(Append(q, f)) = c + 1
        /\ \A n \in 1 .. c : Append(q, f)[n] = q[n]
        /\ Append(q, f)[c + 1] = f
    BY <1>2, <2>3
  <2>5. Append(q, f) = [n \in 1 .. c + 1 |-> Append(q, f)[n]]
    <3> DEFINE z == Append(q, f)
    <3>1. z \in Seq(Frame) /\ Len(z) = c + 1
      BY <2>4
    <3> HIDE DEF z
    <3>2. z = [n \in 1 .. c + 1 |-> z[n]]
      BY <3>1
    <3> QED BY <3>2 DEF z
  <2>6. ASSUME NEW n \in 1 .. c + 1 PROVE t[At(t, n)] = Append(q, f)[n]
    <3>1. n \in 1 .. c \/ n = c + 1
      BY <1>2
    <3>2. CASE n \in 1 .. c
      BY <1>14, <2>1, <2>4, <3>2
    <3>3. CASE n = c + 1
      BY <1>15, <1>18, <2>4, <3>3
    <3> QED BY <3>1, <3>2, <3>3
  <2>7. TicksOf(t) = Append(q, f)
    BY <2>1, <2>5, <2>6
  <2> QED BY <1>13, <1>18, <2>7 DEF t, q
<1> QED BY <1>17, <1>18

\* While no datagram was lost, the watcher has told the last frame, and the
\* oracle has a row of each time.
ComparisonInv ==
    /\ frames \in Seq(Frame) /\ lost \in Nat /\ Ranked(frames)
    /\ TicksOf(frames) \in Seq(Frame)
    /\ lost = 0 => /\ frames # <<>> => seen = frames[Len(frames)]
                   /\ oracle = TicksOf(frames)

\* Nothing was sampled.
LEMMA ComparisonStarts == ReadersInit => ComparisonInv
<1> SUFFICES ASSUME ReadersInit PROVE ComparisonInv
  OBVIOUS
<1>1. frames = <<>> /\ oracle = <<>> /\ lost = 0
  BY DEF ReadersInit, ComparisonInit
<1>2. Begun(<<>>) = {}
  BY DEF Begun
<1>3. Cardinality(Begun(<<>>)) = 0 /\ IsFiniteSet(Begun(<<>>))
  BY <1>2, FS_EmptySet
<1>4. Ranked(<<>>)
  BY <1>3 DEF Ranked
<1>5. TicksOf(<<>>) = <<>>
  BY <1>3 DEF TicksOf
<1>6. frames \in Seq(Frame) /\ lost \in Nat
  BY <1>1
<1>7. Ranked(frames) /\ TicksOf(frames) = <<>>
  BY <1>1, <1>4, <1>5
<1>8. <<>> \in Seq(Frame)
  OBVIOUS
<1> QED BY <1>1, <1>6, <1>7, <1>8 DEF ComparisonInv

\* A frame that is told or lost, and the end of the comparison.
LEMMA ComparisonStep == ComparisonInv /\ [ReadersNext]_readers => ComparisonInv'
<1> SUFFICES ASSUME ComparisonInv, [ComparisonNext]_comparison PROVE ComparisonInv'
  BY StepOfOne
<1>1. CASE UNCHANGED comparison
  BY <1>1 DEF comparison, ComparisonInv
<1>2. ASSUME NEW f \in Frame, WatchFrame(f) PROVE ComparisonInv'
  <2> DEFINE t == Append(frames, f)
             now == [a \in Address |-> IF a \in Changed(f) THEN f[a] ELSE seen[a]]
             q == TicksOf(frames)
  <2>1. /\ frames \in Seq(Frame) /\ q \in Seq(Frame) /\ lost \in Nat
        /\ frames' = t /\ t \in Seq(Frame) /\ Len(t) = Len(frames) + 1
        /\ t[Len(frames) + 1] = f /\ t # <<>>
    BY <1>2 DEF ComparisonInv, WatchFrame
  <2>2. /\ Ranked(t)
        /\ TicksOf(t) = IF frames = <<>> \/ f.time # frames[Len(frames)].time
                        THEN Append(q, f) ELSE q
    BY <2>1, TickAdded DEF ComparisonInv
  <2>3. TicksOf(t) \in Seq(Frame)
    BY <2>1, <2>2
  <2>4. lost' \in Nat /\ (lost' = 0 => lost = 0 /\ ReadDatagram(f))
    BY <1>2, <2>1 DEF WatchFrame
  <2>5. ASSUME lost' = 0 PROVE seen' = f /\ oracle' = TicksOf(t)
    <3>1. lost = 0 /\ ReadDatagram(f)
      BY <2>4, <2>5
    <3>2. (frames # <<>> => seen = frames[Len(frames)]) /\ oracle = q
      BY <3>1 DEF ComparisonInv
    <3>3. \A a \in Address : a \notin Changed(f) => seen[a] = f[a]
      BY <3>2 DEF Changed
    <3>4. f = [a \in Address |-> f[a]] /\ \A a \in Address : f[a] # Unseen
      BY FrameIs
    <3>5. now = f
      BY <3>3, <3>4
    <3>6. "time" \in Changed(f) <=> frames = <<>> \/ f.time # frames[Len(frames)].time
      BY DEF Changed, Address
    <3>7. seen' = f
      BY <3>1, <3>5 DEF ReadDatagram
    <3>8. oracle' = IF "time" \in Changed(f) /\ \A a \in Address : now[a] # Unseen
                    THEN Append(oracle, now) ELSE oracle
      BY <3>1 DEF ReadDatagram
    <3> HIDE DEF now, t, q
    <3>9. oracle' = IF "time" \in Changed(f) THEN Append(oracle, f) ELSE oracle
      BY <3>4, <3>5, <3>8
    <3> QED BY <2>2, <3>2, <3>6, <3>7, <3>9
  <2>6. Len(frames') = Len(frames) + 1 /\ frames'[Len(frames) + 1] = f
    BY <2>1
  <2> HIDE DEF t, q
  <2> QED BY <2>1, <2>2, <2>3, <2>4, <2>5, <2>6 DEF ComparisonInv
<1> QED BY <1>1, <1>2 DEF ComparisonNext

\* Ticks are those frames, whatever the recursive definition chooses.
LEMMA TicksAre == ComparisonInv => Ticks = TicksOf(frames)
<1> SUFFICES ASSUME ComparisonInv PROVE Ticks = TicksOf(frames)
  OBVIOUS
<1>1. DOMAIN frames = 1 .. Len(frames)
  BY DEF ComparisonInv
<1> QED BY <1>1 DEF Ticks, TicksOf, Begun, Rank

\* The oracle is then the ticks, and the comparison that of the traces.
LEMMA ComparisonFollows == ComparisonInv => MatchIsTrue
<1> SUFFICES ASSUME ComparisonInv, lost = 0, NEW native \in Natives
             PROVE  LET game == FirstLongest(Ticks)
                        own == FirstLongest(native)
                    IN  Matches(native) <=>
                          /\ own # <<>> /\ game # <<>>
                          /\ \A i \in DOMAIN own, j \in DOMAIN game :
                                 own[i].time = game[j].time => own[i].word = game[j].word
  BY DEF MatchIsTrue
<1>1. LongestRace(native) = FirstLongest(native)
  BY LongestIsChosen, ComparisonAssumption DEF ComparisonAssumption
<1>2. oracle = Ticks /\ Ticks \in Seq(Frame)
  BY TicksAre DEF ComparisonInv
<1>3. LongestRace(oracle) = FirstLongest(Ticks)
  BY <1>2, LongestIsChosen
<1> DEFINE n == FirstLongest(native)
           o == FirstLongest(Ticks)
<1>4. Matches(native) <=>
          /\ n # <<>> /\ o # <<>>
          /\ \A c \in {c \in (DOMAIN n) \X (DOMAIN o) : n[c[1]].time = o[c[2]].time} :
                 n[c[1]].word = o[c[2]].word
  BY <1>1, <1>3 DEF Matches
<1> HIDE DEF n, o
<1>5. (\A c \in {c \in (DOMAIN n) \X (DOMAIN o) : n[c[1]].time = o[c[2]].time} :
                 n[c[1]].word = o[c[2]].word)
      <=> \A i \in DOMAIN n, j \in DOMAIN o : n[i].time = o[j].time => n[i].word = o[j].word
  <2> DEFINE common == {c \in (DOMAIN n) \X (DOMAIN o) : n[c[1]].time = o[c[2]].time}
  <2>1. ASSUME \A c \in common : n[c[1]].word = o[c[2]].word,
               NEW i \in DOMAIN n, NEW j \in DOMAIN o, n[i].time = o[j].time
        PROVE  n[i].word = o[j].word
    <3>1. <<i, j>> \in common
      BY <2>1
    <3>2. n[<<i, j>>[1]].word = o[<<i, j>>[2]].word
      BY <2>1, <3>1, Zenon
    <3> QED BY <3>2
  <2>2. ASSUME \A i \in DOMAIN n, j \in DOMAIN o : n[i].time = o[j].time => n[i].word = o[j].word,
               NEW c \in common
        PROVE  n[c[1]].word = o[c[2]].word
    <3>1. c[1] \in DOMAIN n /\ c[2] \in DOMAIN o /\ n[c[1]].time = o[c[2]].time
      OBVIOUS
    <3> QED BY <2>2, <3>1
  <2> QED BY <2>1, <2>2, Zenon
<1> QED BY <1>4, <1>5 DEF n, o

-----------------------------------------------------------------------------
(* Sums over the tokens and the records                                     *)

\* The sums of the ghost reader add up one chosen element after another: Adds
\* is the equation of their recursive function, on the sets of D.
Pick(s) == CHOOSE x \in s : TRUE
Adds(h, g, D) == h = [s \in D |-> IF s = {} THEN 0 ELSE g[Pick(s)] + h[s \ {Pick(s)}]]

\* The rest of a set, without the element that was picked.
LEMMA Smaller ==
  ASSUME NEW S, IsFiniteSet(S), NEW s \in SUBSET S, s # {}
  PROVE  /\ Pick(s) \in s /\ s \ {Pick(s)} \in SUBSET S
         /\ Cardinality(s) \in Nat /\ Cardinality(s \ {Pick(s)}) \in Nat
         /\ Cardinality(s \ {Pick(s)}) = Cardinality(s) - 1
<1>1. Pick(s) \in s
  BY DEF Pick
<1>2. IsFiniteSet(s)
  BY FS_Subset
<1>3. /\ Cardinality(s) \in Nat
      /\ Cardinality(s \ {Pick(s)}) = Cardinality(s) - 1 /\ IsFiniteSet(s \ {Pick(s)})
  BY <1>1, <1>2, FS_CardinalityType, FS_RemoveElement
<1> QED BY <1>1, <1>3, FS_CardinalityType

\* The equation has a solution on the sets of up to n elements, for every n.
Upto(S, n) == {s \in SUBSET S : Cardinality(s) <= n}

LEMMA AddsDefined ==
  ASSUME NEW S, IsFiniteSet(S), NEW g
  PROVE  \E h : Adds(h, g, SUBSET S)
<1> DEFINE T == {n \in Nat : \E h : Adds(h, g, Upto(S, n))}
<1>1. \A s \in SUBSET S : Cardinality(s) \in Nat /\ (Cardinality(s) <= 0 => s = {})
  <2> TAKE s \in SUBSET S
  <2> IsFiniteSet(s) BY FS_Subset
  <2> QED BY FS_CardinalityType, FS_EmptySet
<1>2. 0 \in T
  <2>1. Adds([s \in Upto(S, 0) |-> 0], g, Upto(S, 0))
    BY <1>1 DEF Adds, Upto
  <2> QED BY <2>1
<1>3. ASSUME NEW n \in Nat, n \in T PROVE n + 1 \in T
  <2>1. PICK h : Adds(h, g, Upto(S, n))
    BY <1>3
  <2> DEFINE k == [s \in Upto(S, n + 1) |->
                     IF s \in Upto(S, n) THEN h[s] ELSE g[Pick(s)] + h[s \ {Pick(s)}]]
  <2>2. ASSUME NEW s \in Upto(S, n + 1)
        PROVE  k[s] = IF s = {} THEN 0 ELSE g[Pick(s)] + k[s \ {Pick(s)}]
    <3>1. CASE s = {}
      <4>1. {} \in Upto(S, n)
        BY FS_EmptySet DEF Upto
      <4> QED BY <2>1, <2>2, <3>1, <4>1 DEF Adds
    <3>2. CASE s # {}
      <4>1. s \in SUBSET S BY DEF Upto
      <4>2. s \ {Pick(s)} \in Upto(S, n)
        BY <2>2, <3>2, <4>1, Smaller DEF Upto
      <4>3. s \ {Pick(s)} \in Upto(S, n + 1) /\ k[s \ {Pick(s)}] = h[s \ {Pick(s)}]
        BY <4>2, <1>1 DEF Upto
      <4>4. CASE s \in Upto(S, n)
        BY <2>1, <2>2, <3>2, <4>3, <4>4 DEF Adds
      <4>5. CASE s \notin Upto(S, n)
        BY <2>2, <3>2, <4>3, <4>5
      <4> QED BY <4>4, <4>5
    <3> QED BY <3>1, <3>2
  <2>3. Adds(k, g, Upto(S, n + 1))
    <3>1. DOMAIN k = Upto(S, n + 1) /\ k = [s \in Upto(S, n + 1) |-> k[s]]
      OBVIOUS
    <3> HIDE DEF k
    <3> QED BY <2>2, <3>1 DEF Adds
  <2> HIDE DEF k
  <2> QED BY <2>3
<1> HIDE DEF T
<1>4. Nat \subseteq T
  BY <1>2, <1>3, Induct
<1>5. Cardinality(S) \in T
  BY <1>4, FS_CardinalityType
<1>6. Upto(S, Cardinality(S)) = SUBSET S
  BY FS_Subset DEF Upto
<1> QED BY <1>5, <1>6 DEF T

\* v is the sum of g over S.
IsSum(v, g, S) == \E h : Adds(h, g, SUBSET S) /\ v = h[S]

\* The equation, where it is used.
Unfolds(h, g, D) ==
    \A s \in SUBSET D :
        /\ s = {} => h[s] = 0
        /\ s # {} => /\ h[s] = g[Pick(s)] + h[s \ {Pick(s)}]
                     /\ Pick(s) \in s /\ s \ {Pick(s)} \in SUBSET D
                     /\ Cardinality(s) \in Nat
                     /\ Cardinality(s \ {Pick(s)}) = Cardinality(s) - 1

\* A solution says so of each set.
LEMMA SumUnfolds ==
  ASSUME NEW D, IsFiniteSet(D), NEW g, NEW h, Adds(h, g, SUBSET D)
  PROVE  Unfolds(h, g, D)
BY Smaller DEF Adds, Unfolds

\* Two sums of what is the same on a set are the same.
LEMMA SameSum ==
  ASSUME NEW D, IsFiniteSet(D), NEW E, IsFiniteSet(E), NEW f, NEW g, NEW a, NEW b,
         Adds(a, f, SUBSET D), Adds(b, g, SUBSET E),
         NEW S, S \subseteq D, S \subseteq E, \A x \in S : f[x] = g[x]
  PROVE  a[S] = b[S]
<1>0. Unfolds(a, f, D) /\ Unfolds(b, g, E)
  BY SumUnfolds
<1> DEFINE T == {n \in Nat : \A s \in SUBSET S : Cardinality(s) = n => a[s] = b[s]}
<1>1. 0 \in T
  <2> SUFFICES ASSUME NEW s \in SUBSET S, Cardinality(s) = 0 PROVE a[s] = b[s]
    OBVIOUS
  <2>1. s \in SUBSET D /\ s \in SUBSET E /\ s = {}
    BY FS_Subset, FS_EmptySet
  <2> QED BY <1>0, <2>1 DEF Unfolds
<1>2. ASSUME NEW n \in Nat, n \in T PROVE n + 1 \in T
  <2> SUFFICES ASSUME NEW s \in SUBSET S, Cardinality(s) = n + 1 PROVE a[s] = b[s]
    OBVIOUS
  <2>1. s \in SUBSET D /\ s \in SUBSET E /\ s # {}
    BY FS_EmptySet
  <2> DEFINE x == Pick(s)
             r == s \ {Pick(s)}
  <2>2. a[s] = f[x] + a[r] /\ b[s] = g[x] + b[r] /\ x \in s /\ Cardinality(r) = n
    BY <1>0, <2>1 DEF Unfolds
  <2>3. r \in SUBSET S /\ x \in S
    BY <2>2
  <2>4. a[r] = b[r]
    BY <1>2, <2>2, <2>3
  <2> HIDE DEF x, r
  <2> QED BY <2>2, <2>3, <2>4
<1> HIDE DEF T
<1>3. Nat \subseteq T
  BY <1>1, <1>2, Induct
<1>4. Cardinality(S) \in Nat
  BY FS_Subset, FS_CardinalityType
<1> QED BY <1>3, <1>4 DEF T

\* Any element may be the one that is added last.
AnyOrder(h, g, D) ==
    \A S \in SUBSET D : h[S] \in Int /\ \A x \in S : h[S] = g[x] + h[S \ {x}]

LEMMA AnyLast ==
  ASSUME NEW D, IsFiniteSet(D), NEW g, \A x \in D : g[x] \in Int,
         NEW h, Adds(h, g, SUBSET D)
  PROVE  AnyOrder(h, g, D)
<1> DEFINE Ok(s) == h[s] \in Int /\ \A x \in s : h[s] = g[x] + h[s \ {x}]
           T == {n \in Nat : \A s \in SUBSET D : Cardinality(s) <= n => Ok(s)}
<1>0. \A s \in SUBSET D : IsFiniteSet(s) /\ Cardinality(s) \in Nat
  BY FS_Subset, FS_CardinalityType
<1>9. Unfolds(h, g, D)
  BY SumUnfolds
<1>1. 0 \in T
  <2> SUFFICES ASSUME NEW s \in SUBSET D, Cardinality(s) <= 0 PROVE Ok(s)
    OBVIOUS
  <2>1. s = {}
    BY <1>0, FS_EmptySet
  <2>2. h[s] = 0
    BY <1>9, <2>1 DEF Unfolds
  <2> QED BY <2>1, <2>2
<1>2. ASSUME NEW n \in Nat, n \in T PROVE n + 1 \in T
  <2>0. \A s \in SUBSET D : Cardinality(s) <= n => Ok(s)
    BY <1>2
  <2> HIDE DEF T
  <2>1. ASSUME NEW s \in SUBSET D, Cardinality(s) <= n + 1 PROVE Ok(s)
    <3>1. CASE s = {}
      <4>1. Cardinality(s) <= n
        BY <3>1, FS_EmptySet
      <4> QED BY <2>0, <4>1
    <3>2. CASE s # {}
      <4> DEFINE p == Pick(s)
                 r == s \ {p}
      <4>1. h[s] = g[p] + h[r] /\ p \in s /\ r \in SUBSET D /\ Cardinality(r) = Cardinality(s) - 1
        BY <1>9, <3>2 DEF Unfolds
      <4>2. Ok(r)
        <5>1. Cardinality(r) <= n
          BY <1>0, <2>1, <4>1
        <5> HIDE DEF Ok, r
        <5> QED BY <2>0, <4>1, <5>1
      <4>3. g[p] \in Int /\ h[r] \in Int /\ h[s] \in Int
        BY <4>1, <4>2
      <4>4. ASSUME NEW x \in s PROVE h[s] = g[x] + h[s \ {x}]
        <5>1. CASE x = p
          BY <4>1, <5>1
        <5>2. CASE x # p
          <6> DEFINE q == s \ {x}
                     w == r \ {x}
          <6>1. x \in r /\ p \in q /\ q \in SUBSET D /\ q \ {p} = w /\ w \in SUBSET D
            BY <4>1, <5>2
          <6>2. Cardinality(q) = Cardinality(s) - 1
            BY <1>0, FS_RemoveElement
          <6>3. Ok(q)
            <7>1. Cardinality(q) <= n
              BY <1>0, <2>1, <6>2
            <7> HIDE DEF Ok, q
            <7> QED BY <2>0, <6>1, <7>1
          <6>4. h[r] = g[x] + h[w]
            BY <4>2, <6>1
          <6>5. h[q] = g[p] + h[w]
            BY <6>1, <6>3
          <6>6. Cardinality(w) <= n
            <7>1. IsFiniteSet(r) /\ x \in r
              BY <1>0, <4>1, <6>1
            <7>2. Cardinality(w) = Cardinality(r) - 1
              BY <7>1, FS_RemoveElement
            <7> QED BY <1>0, <2>1, <4>1, <7>2
          <6>7. h[w] \in Int /\ g[x] \in Int
            BY <2>0, <6>1, <6>6
          <6> HIDE DEF p, r, q, w, Ok
          <6>8. h[s] = g[x] + h[q]
            BY <4>1, <4>3, <6>4, <6>5, <6>7
          <6> QED BY <6>8 DEF q
        <5> QED BY <5>1, <5>2
      <4> QED BY <4>3, <4>4
    <3> QED BY <3>1, <3>2
  <2> QED BY <2>1 DEF T
<1> HIDE DEF T
<1>3. Nat \subseteq T
  BY <1>1, <1>2, Induct
<1>4. ASSUME NEW S \in SUBSET D PROVE Ok(S)
  <2>1. Cardinality(S) \in T /\ Cardinality(S) <= Cardinality(S)
    BY <1>0, <1>3
  <2> QED BY <2>1 DEF T
<1> QED BY <1>4 DEF AnyOrder

\* One element more adds its own value.
OneMore(S, x, D) == IsFiniteSet(S) /\ x \notin S /\ D = S \cup {x}

LEMMA SumOfOneMore ==
  ASSUME NEW S, NEW x, NEW D, OneMore(S, x, D), NEW f, NEW g, NEW v, NEW w,
         \A y \in S : f[y] = g[y] /\ f[y] \in Int, g[x] \in Int,
         IsSum(v, f, S), IsSum(w, g, D)
  PROVE  v \in Int /\ w = v + g[x]
<1>0. IsFiniteSet(S) /\ x \notin S /\ D = S \cup {x}
  BY DEF OneMore
<1>1. IsFiniteSet(D)
  BY <1>0, FS_AddElement
<1>2. PICK a : Adds(a, f, SUBSET S) /\ v = a[S]
  BY DEF IsSum
<1>3. PICK b : Adds(b, g, SUBSET D) /\ w = b[D]
  BY DEF IsSum
<1>4. a[S] = b[S]
  <2>1. S \subseteq D /\ S \subseteq S
    BY <1>0
  <2>2. IsFiniteSet(S) /\ \A y \in S : f[y] = g[y]
    BY <1>0
  <2> QED BY <1>1, <1>2, <1>3, <2>1, <2>2, SameSum
<1>5. \A y \in D : g[y] \in Int
  BY <1>0
<1>6. x \in D /\ D \ {x} = S /\ D \in SUBSET D /\ S \in SUBSET D
  BY <1>0
<1>7. b[S] \in Int /\ b[D] = g[x] + b[S]
  <2>1. AnyOrder(b, g, D)
    BY <1>1, <1>3, <1>5, AnyLast
  <2> QED BY <1>6, <2>1 DEF AnyOrder
<1> QED BY <1>2, <1>3, <1>4, <1>7

\* A sum of positive numbers is at least their number.
LEMMA SumOfPositive ==
  ASSUME NEW S, IsFiniteSet(S), NEW g, \A x \in S : g[x] \in Nat /\ g[x] >= 1,
         NEW v, IsSum(v, g, S)
  PROVE  v \in Nat /\ v >= Cardinality(S)
<1>1. PICK h : Adds(h, g, SUBSET S) /\ v = h[S]
  BY DEF IsSum
<1>8. Unfolds(h, g, S)
  BY <1>1, SumUnfolds
<1> DEFINE T == {n \in Nat : \A s \in SUBSET S : Cardinality(s) = n => h[s] \in Nat /\ h[s] >= n}
<1>2. 0 \in T
  <2> SUFFICES ASSUME NEW s \in SUBSET S, Cardinality(s) = 0 PROVE h[s] = 0
    OBVIOUS
  <2>1. s = {}
    BY FS_Subset, FS_EmptySet
  <2> QED BY <1>8, <2>1 DEF Unfolds
<1>3. ASSUME NEW n \in Nat, n \in T PROVE n + 1 \in T
  <2> SUFFICES ASSUME NEW s \in SUBSET S, Cardinality(s) = n + 1
               PROVE  h[s] \in Nat /\ h[s] >= n + 1
    OBVIOUS
  <2> HIDE DEF T
  <2>1. s # {}
    <3>1. Cardinality({}) = 0 /\ n + 1 # 0
      BY FS_EmptySet
    <3> QED BY <3>1
  <2> DEFINE x == Pick(s)
             r == s \ {Pick(s)}
  <2>2. h[s] = g[x] + h[r] /\ x \in s /\ r \in SUBSET S /\ Cardinality(r) = n
    BY <1>8, <2>1 DEF Unfolds
  <2>3. h[r] \in Nat /\ h[r] >= n /\ g[x] \in Nat /\ g[x] >= 1
    BY <1>3, <2>2 DEF T
  <2> HIDE DEF x, r
  <2> QED BY <2>2, <2>3
<1> HIDE DEF T
<1>4. Cardinality(S) \in T
  BY <1>2, <1>3, Induct, FS_CardinalityType
<1> QED BY <1>1, <1>4 DEF T

\* Two sums of the same values are the same.
LEMMA SumsAgree ==
  ASSUME NEW S, IsFiniteSet(S), NEW f, NEW g, \A x \in S : f[x] = g[x],
         NEW v, NEW w, IsSum(v, f, S), IsSum(w, g, S)
  PROVE  v = w
<1>1. PICK a : Adds(a, f, SUBSET S) /\ v = a[S]
  BY DEF IsSum
<1>2. PICK b : Adds(b, g, SUBSET S) /\ w = b[S]
  BY DEF IsSum
<1> QED BY <1>1, <1>2, SameSum

\* The sum of nothing.
LEMMA EmptySum == ASSUME NEW v, NEW g, IsSum(v, g, {}) PROVE v = 0
<1>1. PICK h : Adds(h, g, SUBSET {}) /\ v = h[{}]
  BY DEF IsSum
<1>2. IsFiniteSet({}) /\ {} \in SUBSET {}
  BY FS_EmptySet
<1>3. Unfolds(h, g, {})
  BY <1>1, <1>2, SumUnfolds
<1> QED BY <1>1, <1>2, <1>3 DEF Unfolds

\* The sums of the lengths and of the bytes of the tokens t, over S.
LengthOf(t, S) == MapThenSumSet(LAMBDA n : t[n].length, S)
CostOf(t, S) == MapThenSumSet(LAMBDA n : TokenBytes(t[n]), S)
Lengths(t) == [n \in 1 .. Len(t) |-> t[n].length]
Costs(t) == [n \in 1 .. Len(t) |-> TokenBytes(t[n])]

\* The lengths of the tokens are such a sum.
LEMMA LengthIsSum ==
  ASSUME NEW t, NEW S, IsFiniteSet(S), S \subseteq 1 .. Len(t)
  PROVE  IsSum(LengthOf(t, S), Lengths(t), S)
<1> DEFINE Solves(h) == h = [s \in SUBSET S |->
                               IF s = {} THEN 0 ELSE t[Pick(s)].length + h[s \ {Pick(s)}]]
<1>1. LengthOf(t, S) = (CHOOSE h : Solves(h))[S]
  BY DEF LengthOf, MapThenSumSet, MapThenFoldSet, Pick
<1>2. \A s \in SUBSET S : s # {} => Lengths(t)[Pick(s)] = t[Pick(s)].length
  BY DEF Lengths, Pick
<1>3. \A h : Solves(h) <=> Adds(h, Lengths(t), SUBSET S)
  BY <1>2 DEF Adds
<1>4. \E h : Solves(h)
  BY <1>3, AddsDefined
<1> HIDE DEF Solves
<1>5. Solves(CHOOSE h : Solves(h))
  BY <1>4, Zenon
<1> QED BY <1>1, <1>3, <1>5 DEF IsSum

\* So are their bytes.
\* TokenBytes is a number.
LEMMA CostIsSum ==
  ASSUME NEW t, NEW S, IsFiniteSet(S), S \subseteq 1 .. Len(t)
  PROVE  IsSum(CostOf(t, S), Costs(t), S)
<1> DEFINE Solves(h) == h = [s \in SUBSET S |->
                               IF s = {} THEN 0 ELSE TokenBytes(t[Pick(s)]) + h[s \ {Pick(s)}]]
<1>1. CostOf(t, S) = (CHOOSE h : Solves(h))[S]
  BY DEF CostOf, MapThenSumSet, MapThenFoldSet, Pick
<1>2. \A s \in SUBSET S : s # {} => Costs(t)[Pick(s)] = TokenBytes(t[Pick(s)])
  BY DEF Costs, Pick
<1>3. \A h : Solves(h) <=> Adds(h, Costs(t), SUBSET S)
  BY <1>2 DEF Adds
<1>4. \E h : Solves(h)
  BY <1>3, AddsDefined
<1> HIDE DEF Solves
<1>5. Solves(CHOOSE h : Solves(h))
  BY <1>4, Zenon
<1> QED BY <1>1, <1>3, <1>5 DEF IsSum

GhostToken == [first : Nat, length : Nat, distance : Nat, byte : Nat]

LEMMA CostIs == ASSUME NEW t \in GhostToken PROVE TokenBytes(t) \in Nat /\ t.length \in Nat
BY DEF TokenBytes, GhostToken

\* What one token more adds to the sums.
OneTokenMore(t, u, token) ==
    /\ \A n \in 0 .. Len(t) : LengthOf(u, 1 .. n) = LengthOf(t, 1 .. n)
    /\ LengthOf(t, 1 .. Len(t)) \in Int /\ CostOf(t, 1 .. Len(t)) \in Int
    /\ LengthOf(u, 1 .. Len(t) + 1) = LengthOf(t, 1 .. Len(t)) + token.length
    /\ CostOf(u, 1 .. Len(t) + 1) = CostOf(t, 1 .. Len(t)) + TokenBytes(token)

\* Both sums grow by what the last token says.
LEMMA SumsGrow ==
  ASSUME NEW t \in Seq(GhostToken), NEW token \in GhostToken
  PROVE  OneTokenMore(t, Append(t, token), token)
<1> DEFINE u == Append(t, token)
           N == Len(t)
<1>1. /\ N \in Nat /\ Len(u) = N + 1 /\ u[N + 1] = token
      /\ \A n \in 1 .. N : u[n] = t[n] /\ t[n] \in GhostToken
  OBVIOUS
<1> HIDE DEF u
<1>2. /\ \A n \in 1 .. N : /\ Lengths(u)[n] = Lengths(t)[n] /\ Lengths(t)[n] \in Int
                           /\ Costs(u)[n] = Costs(t)[n] /\ Costs(t)[n] \in Int
      /\ Lengths(u)[N + 1] = token.length /\ token.length \in Int
      /\ Costs(u)[N + 1] = TokenBytes(token) /\ TokenBytes(token) \in Int
  <2>1. \A n \in 1 .. N : n \in 1 .. Len(u) /\ t[n].length \in Int /\ TokenBytes(t[n]) \in Int
    BY <1>1, CostIs
  <2>2. N + 1 \in 1 .. Len(u) /\ token.length \in Int /\ TokenBytes(token) \in Int
    BY <1>1, CostIs
  <2> QED BY <1>1, <2>1, <2>2 DEF Lengths, Costs
<1>3. ASSUME NEW n \in 0 .. N PROVE LengthOf(u, 1 .. n) = LengthOf(t, 1 .. n)
  <2>1. IsFiniteSet(1 .. n) /\ 1 .. n \subseteq 1 .. Len(t) /\ 1 .. n \subseteq 1 .. Len(u)
    BY <1>1, FS_Interval
  <2>2. /\ IsSum(LengthOf(u, 1 .. n), Lengths(u), 1 .. n)
        /\ IsSum(LengthOf(t, 1 .. n), Lengths(t), 1 .. n)
    BY <2>1, LengthIsSum
  <2>3. \A x \in 1 .. n : Lengths(u)[x] = Lengths(t)[x]
    BY <1>2, <2>1
  <2> QED BY <2>1, <2>2, <2>3, SumsAgree
<1>4. /\ IsFiniteSet(1 .. N) /\ 1 .. N \subseteq 1 .. Len(t) /\ N + 1 \notin 1 .. N
      /\ 1 .. N + 1 = (1 .. N) \cup {N + 1}
      /\ IsFiniteSet(1 .. N + 1) /\ 1 .. N + 1 \subseteq 1 .. Len(u)
  <2>1. 1 \in Int /\ N \in Int /\ N + 1 \in Int
    BY <1>1
  <2>2. IsFiniteSet(1 .. N) /\ IsFiniteSet(1 .. N + 1)
    BY <2>1, FS_Interval, Zenon
  <2>3. \A x : x \in 1 .. N + 1 <=> x \in 1 .. N \/ x = N + 1
    BY <1>1
  <2>4. 1 .. N + 1 = (1 .. N) \cup {N + 1}
    BY <2>3
  <2> QED BY <1>1, <2>2, <2>4
<1>5. /\ LengthOf(t, 1 .. N) \in Int
      /\ LengthOf(u, 1 .. N + 1) = LengthOf(t, 1 .. N) + Lengths(u)[N + 1]
  <2>1. /\ IsSum(LengthOf(t, 1 .. N), Lengths(t), 1 .. N)
        /\ IsSum(LengthOf(u, 1 .. N + 1), Lengths(u), (1 .. N) \cup {N + 1})
    BY <1>4, LengthIsSum
  <2> DEFINE S == 1 .. N
             x == N + 1
             f == Lengths(t)
             g == Lengths(u)
             v == LengthOf(t, 1 .. N)
             w == LengthOf(u, 1 .. N + 1)
  <2>2. (\A y \in S : f[y] = g[y] /\ f[y] \in Int) /\ g[x] \in Int
    BY <1>2
  <2>3. OneMore(S, x, 1 .. N + 1)
    BY <1>4 DEF OneMore
  <2>4. IsSum(v, f, S) /\ IsSum(w, g, 1 .. N + 1)
    BY <1>4, <2>1
  <2> HIDE DEF S, x, f, g, v, w
  <2>5. v \in Int /\ w = v + g[x]
    BY <2>2, <2>3, <2>4, SumOfOneMore
  <2> QED BY <2>5 DEF S, x, f, g, v, w
<1>6. /\ CostOf(t, 1 .. N) \in Int
      /\ CostOf(u, 1 .. N + 1) = CostOf(t, 1 .. N) + Costs(u)[N + 1]
  <2>1. /\ IsSum(CostOf(t, 1 .. N), Costs(t), 1 .. N)
        /\ IsSum(CostOf(u, 1 .. N + 1), Costs(u), (1 .. N) \cup {N + 1})
    BY <1>4, CostIsSum
  <2> DEFINE S == 1 .. N
             x == N + 1
             f == Costs(t)
             g == Costs(u)
             v == CostOf(t, 1 .. N)
             w == CostOf(u, 1 .. N + 1)
  <2>2. (\A y \in S : f[y] = g[y] /\ f[y] \in Int) /\ g[x] \in Int
    BY <1>2
  <2>3. OneMore(S, x, 1 .. N + 1)
    BY <1>4 DEF OneMore
  <2>4. IsSum(v, f, S) /\ IsSum(w, g, 1 .. N + 1)
    BY <1>4, <2>1
  <2> HIDE DEF S, x, f, g, v, w
  <2>5. v \in Int /\ w = v + g[x]
    BY <2>2, <2>3, <2>4, SumOfOneMore
  <2> QED BY <2>5 DEF S, x, f, g, v, w
<1> QED BY <1>2, <1>3, <1>5, <1>6 DEF OneTokenMore, u

-----------------------------------------------------------------------------
(* The tokens of a ghost                                                    *)

\* What CopyRun returns: the output goes on, with what was distance before.
IsCopy(output, distance, size, r) ==
    /\ r \in Seq(Byte) /\ Len(r) = Len(output) + size
    /\ \A i \in 1 .. Len(output) : r[i] = output[i]
    /\ \A i \in Len(output) + 1 .. Len(output) + size : r[i] = r[i - distance]

Copies(f, output, distance, size) ==
    f = [k \in 0 .. size |->
            IF k = 0 THEN output
            ELSE Append(f[k - 1], f[k - 1][Len(f[k - 1]) + 1 - distance])]

\* The recursive function of CopyRun exists, for every count.
LEMMA CopiesDefined ==
  ASSUME NEW output, NEW distance
  PROVE  \A n \in Nat : \E f : Copies(f, output, distance, n)
<1> DEFINE T == {n \in Nat : \E f : Copies(f, output, distance, n)}
<1>1. 0 \in T
  <2>1. Copies([k \in 0 .. 0 |-> output], output, distance, 0)
    BY DEF Copies
  <2> QED BY <2>1
<1>2. ASSUME NEW n \in Nat, n \in T PROVE n + 1 \in T
  <2>1. PICK f : Copies(f, output, distance, n)
    BY <1>2
  <2> DEFINE Copied(k) == Append(f[k - 1], f[k - 1][Len(f[k - 1]) + 1 - distance])
             g == [k \in 0 .. n + 1 |-> IF k = 0 THEN output ELSE Copied(k)]
  <2>2. \A k \in 0 .. n : f[k] = IF k = 0 THEN output ELSE Copied(k)
    BY <2>1 DEF Copies
  <2>3. \A k \in 0 .. n : g[k] = f[k]
    <3> HIDE DEF Copied
    <3> QED BY <2>2
  <2>4. ASSUME NEW k \in 0 .. n + 1
        PROVE  g[k] = IF k = 0 THEN output
                      ELSE Append(g[k - 1], g[k - 1][Len(g[k - 1]) + 1 - distance])
    <3>1. k # 0 => k - 1 \in 0 .. n
      OBVIOUS
    <3>2. k # 0 => g[k - 1] = f[k - 1]
      BY <2>3, <3>1
    <3>3. g[k] = IF k = 0 THEN output ELSE Copied(k)
      OBVIOUS
    <3> HIDE DEF g
    <3> QED BY <3>2, <3>3
  <2>5. g = [k \in 0 .. n + 1 |-> g[k]]
    OBVIOUS
  <2>6. Copies(g, output, distance, n + 1)
    <3> HIDE DEF g
    <3> QED BY <2>4, <2>5 DEF Copies
  <2> HIDE DEF g
  <2> QED BY <2>6
<1> HIDE DEF T
<1>3. Nat \subseteq T
  BY <1>1, <1>2, Induct
<1> QED BY <1>3 DEF T

\* The bytes that a reference copies may be among those that it writes.
LEMMA CopyRunIs ==
  ASSUME NEW output \in Seq(Byte), NEW distance \in 1 .. Len(output), NEW size \in Nat
  PROVE  IsCopy(output, distance, size, CopyRun(output, distance, size))
<1> DEFINE f == CHOOSE f : Copies(f, output, distance, size)
           T == {k \in Nat : k <= size => IsCopy(output, distance, k, f[k])}
<1>1. CopyRun(output, distance, size) = f[size]
  BY DEF CopyRun, Copies
<1>2. Copies(f, output, distance, size)
  BY CopiesDefined, Zenon
<1> HIDE DEF f
<1>3. \A k \in 0 .. size :
          f[k] = IF k = 0 THEN output
                 ELSE Append(f[k - 1], f[k - 1][Len(f[k - 1]) + 1 - distance])
  BY <1>2 DEF Copies
<1>4. 0 \in T
  <2>1. f[0] = output
    BY <1>3
  <2> QED BY <2>1 DEF IsCopy
<1>5. ASSUME NEW k \in Nat, k \in T PROVE k + 1 \in T
  <2> SUFFICES ASSUME k + 1 <= size PROVE IsCopy(output, distance, k + 1, f[k + 1])
    OBVIOUS
  <2> DEFINE p == f[k]
             L == Len(output)
             byte == p[Len(p) + 1 - distance]
             r == f[k + 1]
  <2>1. IsCopy(output, distance, k, p)
    BY <1>5
  <2>2. /\ p \in Seq(Byte) /\ Len(p) = L + k /\ L \in Nat /\ distance \in 1 .. L
        /\ \A i \in 1 .. L : p[i] = output[i]
        /\ \A i \in L + 1 .. L + k : p[i] = p[i - distance]
    BY <2>1 DEF IsCopy
  <2>3. r = Append(p, byte)
    <3>1. k + 1 \in 0 .. size /\ k + 1 # 0 /\ (k + 1) - 1 = k
      OBVIOUS
    <3> QED BY <1>3, <3>1
  <2> HIDE DEF p, r, L
  <2>4. L + k + 1 - distance \in 1 .. L + k /\ byte = p[L + k + 1 - distance]
    BY <2>2
  <2>5. byte \in Byte
    BY <2>2, <2>4
  <2> HIDE DEF byte
  <2>6. /\ r \in Seq(Byte) /\ Len(r) = L + k + 1 /\ r[L + k + 1] = byte
        /\ \A i \in 1 .. L + k : r[i] = p[i]
    <3>1. /\ Append(p, byte) \in Seq(Byte) /\ Len(Append(p, byte)) = Len(p) + 1
          /\ Append(p, byte)[Len(p) + 1] = byte
          /\ \A i \in 1 .. Len(p) : Append(p, byte)[i] = p[i]
      <4>1. p \in Seq(Byte)
        BY <2>2
      <4> QED BY <2>5, <4>1, AppendIs
    <3>2. L + k + 1 = Len(p) + 1 /\ L + k = Len(p)
      BY <2>2
    <3> QED BY <2>3, <3>1, <3>2
  <2>7. \A i \in 1 .. L : r[i] = output[i]
    BY <2>2, <2>6
  <2>8. ASSUME NEW i \in L + 1 .. L + (k + 1) PROVE r[i] = r[i - distance]
    <3>1. i - distance \in 1 .. L + k /\ (i \in L + 1 .. L + k \/ i = L + k + 1)
      BY <2>2
    <3>2. r[i - distance] = p[i - distance]
      BY <2>6, <3>1
    <3>3. CASE i \in L + 1 .. L + k
      BY <2>2, <2>6, <3>2, <3>3
    <3>4. CASE i = L + k + 1
      <4>1. i - distance = L + k + 1 - distance
        BY <2>2, <3>4
      <4> QED BY <2>4, <2>6, <3>2, <3>4, <4>1
    <3> QED BY <3>1, <3>3, <3>4
  <2>9. Len(r) = L + (k + 1)
    BY <2>2, <2>6
  <2> QED BY <2>6, <2>7, <2>8, <2>9 DEF IsCopy, L, r
<1> HIDE DEF T
<1>6. size \in T
  BY <1>4, <1>5, Induct
<1> QED BY <1>1, <1>6 DEF T

\* Token n of t says what the output o has at its place.
Says(t, o, n) ==
    /\ t[n].first = 1 + LengthOf(t, 1 .. n - 1)
    /\ t[n].first \in Nat \ {0} /\ t[n].first + t[n].length - 1 <= Len(o)
    /\ t[n].distance < t[n].first
    /\ \A i \in t[n].first .. t[n].first + t[n].length - 1 :
           o[i] = IF t[n].distance = 0 THEN t[n].byte ELSE o[i - t[n].distance]

\* The bytes that y[2] is the number of: what is left and what was read.
ReadOf(t, rest) == rest + CostOf(t, 1 .. Len(t)) + (Len(t) + 7) \div 8

\* What was expanded so far is what the tokens say, and a flag byte was read
\* for every eight of them that were read or are announced.
GhostInv ==
    /\ header.expanded \in Nat /\ out \in Seq(Byte) /\ tokens \in Seq(GhostToken)
    /\ left \in Int /\ flags \in 0 .. 7 /\ \E q \in Nat : flags + Len(tokens) = 8 * q
    /\ tokens # <<>> => header.expanded > 0
    /\ header.expanded > 0 =>
           /\ Len(out) = LengthOf(tokens, 1 .. Len(tokens))
           /\ ReadOf(tokens, left) \in {y[2] : y \in Yaz}
    /\ \A n \in 1 .. Len(tokens) : Says(tokens, out, n)
    /\ verdict = "accepted" => Len(out) >= 8 /\ Fits

\* A token is well formed.
LEMMA TokenIs ==
  ASSUME NEW t \in GhostToken
  PROVE  t.first \in Nat /\ t.length \in Nat /\ t.distance \in Nat /\ t.byte \in Nat
BY DEF GhostToken

\* Nothing was read, and the sums are 0.
LEMMA NoTokens ==
  /\ <<>> \in Seq(GhostToken) /\ Len(<<>>) = 0
  /\ LengthOf(<<>>, 1 .. 0) = 0 /\ CostOf(<<>>, 1 .. 0) = 0
  /\ \A rest \in Int : ReadOf(<<>>, rest) = rest
<1>1. <<>> \in Seq(GhostToken) /\ Len(<<>>) = 0
  OBVIOUS
<1>2. 1 .. 0 = {} /\ IsFiniteSet({}) /\ {} \subseteq 1 .. Len(<<>>)
  BY FS_EmptySet
<1>3. LengthOf(<<>>, {}) = 0 /\ CostOf(<<>>, {}) = 0
  BY <1>2, LengthIsSum, CostIsSum, EmptySum
<1>4. LengthOf(<<>>, 1 .. 0) = 0 /\ CostOf(<<>>, 1 .. 0) = 0
  BY <1>2, <1>3
<1> QED BY <1>1, <1>4 DEF ReadOf

\* Nothing was expanded.
LEMMA GhostStarts == ReadersInit => GhostInv
<1> SUFFICES ASSUME ReadersInit PROVE GhostInv
  OBVIOUS
<1>1. GhostInit \/ LibraryInit \/ GhostNone
  BY DEF ReadersInit
<1>2. /\ out = <<>> /\ tokens = <<>> /\ flags = 0 /\ verdict # "accepted"
  BY <1>1 DEF GhostInit, LibraryInit, GhostNone
<1>3. /\ header.expanded \in Nat /\ left \in Int
      /\ header.expanded > 0 => left \in {y[2] : y \in Yaz}
  <2>1. CASE GhostInit
    <3>1. PICK size \in Sizes, y \in Yaz \cup {<<0, 0>>} :
              header = [inputs |-> size, expanded |-> y[1]] /\ left = y[2]
      BY <2>1 DEF GhostInit
    <3>2. y[1] \in Nat /\ y[2] \in Nat /\ (y[1] > 0 => y \in Yaz)
      BY GhostAssumption DEF GhostAssumption
    <3> QED BY <3>1, <3>2
  <2>2. CASE LibraryInit \/ GhostNone
    BY <2>2 DEF LibraryInit, GhostNone
  <2> QED BY <1>1, <2>1, <2>2
<1>4. out \in Seq(Byte) /\ Len(out) = 0 /\ Len(tokens) = 0 /\ tokens \in Seq(GhostToken)
  BY <1>2, NoTokens
<1>5. LengthOf(tokens, 1 .. Len(tokens)) = 0 /\ ReadOf(tokens, left) = left
  BY <1>2, <1>3, NoTokens
<1>6. flags \in 0 .. 7 /\ 0 \in Nat /\ flags + Len(tokens) = 8 * 0
  BY <1>2, <1>4
<1>7. \A n \in 1 .. Len(tokens) : FALSE
  BY <1>4
<1> QED BY <1>2, <1>3, <1>4, <1>5, <1>6, <1>7 DEF GhostInv

\* What a token says stays true while the output and the tokens only grow.
LEMMA SaysStays ==
  ASSUME NEW t \in Seq(GhostToken), NEW token \in GhostToken,
         NEW o \in Seq(Byte), NEW p \in Seq(Byte), Len(o) <= Len(p),
         \A i \in 1 .. Len(o) : p[i] = o[i],
         NEW n \in 1 .. Len(t), Says(t, o, n)
  PROVE  Says(Append(t, token), p, n)
<1> DEFINE u == Append(t, token)
           a == t[n].first
           b == t[n].first + t[n].length - 1
           d == t[n].distance
<1>1. /\ u[n] = t[n] /\ t[n] \in GhostToken /\ n - 1 \in 0 .. Len(t)
      /\ Len(o) \in Nat /\ Len(p) \in Nat
  OBVIOUS
<1>2. LengthOf(u, 1 .. n - 1) = LengthOf(t, 1 .. n - 1)
  BY <1>1, SumsGrow DEF OneTokenMore
<1>3. /\ a = 1 + LengthOf(t, 1 .. n - 1) /\ a \in Nat \ {0} /\ b <= Len(o) /\ d < a
      /\ \A i \in a .. b : o[i] = IF d = 0 THEN t[n].byte ELSE o[i - d]
  BY DEF Says
<1>4. t[n].length \in Nat /\ d \in Nat /\ b \in Int
  BY <1>1, <1>3, TokenIs
<1>5. ASSUME NEW i \in a .. b PROVE p[i] = IF d = 0 THEN t[n].byte ELSE p[i - d]
  <2>1. i \in 1 .. Len(o) /\ i - d \in 1 .. Len(o)
    BY <1>1, <1>3, <1>4
  <2> QED BY <1>3, <2>1
<1> HIDE DEF u
<1>6. b <= Len(p)
  BY <1>1, <1>3, <1>4
<1>7. Says(u, p, n)
  BY <1>1, <1>2, <1>3, <1>5, <1>6 DEF Says
<1> QED BY <1>7 DEF u

\* One flag byte announces eight tokens.
FlagsGo(f, n, q) ==
    /\ (IF f = 0 THEN 7 ELSE f - 1) + (n + 1) = 8 * (IF f = 0 THEN q + 1 ELSE q)
    /\ (IF f = 0 THEN q + 1 ELSE q) \in Nat
    /\ (n + 1 + 7) \div 8 = (n + 7) \div 8 + (IF f = 0 THEN 1 ELSE 0)

LEMMA FlagsCount ==
  ASSUME NEW f \in 0 .. 7, NEW n \in Nat, NEW q \in Nat, f + n = 8 * q
  PROVE  FlagsGo(f, n, q)
<1>1. n + 7 = 8 * q + (7 - f) /\ 7 - f \in 0 .. 7
  OBVIOUS
<1>2. (n + 7) \div 8 = q
  BY <1>1
<1>3. CASE f = 0
  <2>1. n + 1 + 7 = 8 * (q + 1)
    BY <1>3
  <2>2. (n + 1 + 7) \div 8 = q + 1
    BY <2>1
  <2> QED BY <1>2, <1>3, <2>1, <2>2 DEF FlagsGo
<1>4. CASE f # 0
  <2>1. n + 1 + 7 = 8 * q + (8 - f) /\ 8 - f \in 0 .. 7
    BY <1>4
  <2>2. (n + 1 + 7) \div 8 = q
    BY <2>1
  <2> QED BY <1>2, <1>4, <2>2 DEF FlagsGo
<1> QED BY <1>3, <1>4

\* A token that is read, with the output it writes, keeps all of it.
LEMMA TokenStep ==
  ASSUME GhostInv, Expanding, NEW length \in Nat, NEW distance \in 0 .. Len(out), NEW byte \in Nat,
         NEW output \in Seq(Byte), Len(output) = Len(out) + length,
         \A i \in 1 .. Len(out) : output[i] = out[i],
         \A i \in Len(out) + 1 .. Len(out) + length :
             output[i] = IF distance = 0 THEN byte ELSE output[i - distance],
         NEW bytes, ReadToken(bytes, Len(out) + 1, length, distance, byte, output),
         bytes = IF distance = 0 THEN 1 ELSE IF length > 17 THEN 3 ELSE 2
  PROVE  GhostInv'
<1> DEFINE token == [first |-> Len(out) + 1, length |-> length,
                     distance |-> distance, byte |-> byte]
           N == Len(tokens)
           u == Append(tokens, token)
<1>1. /\ out \in Seq(Byte) /\ Len(out) \in Nat /\ tokens \in Seq(GhostToken) /\ N \in Nat
      /\ left \in Int /\ flags \in 0 .. 7 /\ header.expanded \in Nat
      /\ verdict = "decoding" /\ header.expanded > 0
  BY DEF GhostInv, Expanding
<1>2. /\ out' = output /\ tokens' = u /\ UNCHANGED <<header, verdict>>
      /\ left' = left - FlagByte - bytes /\ flags' = Announced - 1
  BY DEF ReadToken
<1>3. token \in GhostToken /\ TokenBytes(token) = bytes /\ bytes \in Nat
  BY <1>1 DEF GhostToken, TokenBytes
<1>4. /\ token.first = Len(out) + 1 /\ token.length = length
      /\ token.distance = distance /\ token.byte = byte
  OBVIOUS
<1> HIDE DEF token
<1>5. OneTokenMore(tokens, u, token)
  BY <1>1, <1>3, SumsGrow
<1>6. /\ u \in Seq(GhostToken) /\ Len(u) = N + 1 /\ u[N + 1] = token
      /\ \A n \in 1 .. N : u[n] = tokens[n]
  <2>1. tokens \in Seq(GhostToken) /\ token \in GhostToken
    BY <1>1, <1>3
  <2>2. /\ u \in Seq(GhostToken) /\ Len(u) = N + 1 /\ u[N + 1] = token
        /\ \A n \in 1 .. N : u[n] = tokens[n]
    BY <2>1
  <2> QED BY <2>2
<1> HIDE DEF u
<1>7. /\ LengthOf(u, 1 .. N) = LengthOf(tokens, 1 .. N)
      /\ LengthOf(u, 1 .. N + 1) = LengthOf(tokens, 1 .. N) + length
      /\ CostOf(u, 1 .. N + 1) = CostOf(tokens, 1 .. N) + bytes
      /\ CostOf(tokens, 1 .. N) \in Int
  <2>1. N \in 0 .. N
    BY <1>1
  <2> QED BY <1>3, <1>4, <1>5, <2>1 DEF OneTokenMore
<1>8. /\ Len(out) = LengthOf(tokens, 1 .. N)
      /\ ReadOf(tokens, left) \in {y[2] : y \in Yaz}
  BY <1>1 DEF GhostInv
<1>9. Len(output) = LengthOf(u, 1 .. N + 1)
  BY <1>7, <1>8
<1>10. /\ flags' \in 0 .. 7 /\ left' \in Int /\ (\E q \in Nat : flags' + (N + 1) = 8 * q)
       /\ (N + 1 + 7) \div 8 = (N + 7) \div 8 + FlagByte
  <2>1. PICK q \in Nat : flags + N = 8 * q
    BY DEF GhostInv
  <2>2. FlagsGo(flags, N, q)
    BY <1>1, <2>1, FlagsCount
  <2>3. flags' = (IF flags = 0 THEN 7 ELSE flags - 1) /\ FlagByte = IF flags = 0 THEN 1 ELSE 0
    BY <1>1, <1>2 DEF Announced, FlagByte
  <2>4. flags' \in 0 .. 7 /\ left' \in Int
    <3>1. FlagByte \in Int /\ bytes \in Int /\ left \in Int /\ flags \in 0 .. 7
      BY <1>1, <1>3, <2>3
    <3>2. left - FlagByte - bytes \in Int
      BY <3>1
    <3>3. flags # 0 => flags - 1 \in 0 .. 7
      BY <3>1
    <3>4. left' \in Int
      BY <1>2, <3>2, Zenon
    <3>5. flags' \in 0 .. 7
      BY <2>3, <3>3
    <3> QED BY <3>4, <3>5
  <2> QED BY <2>1, <2>2, <2>3, <2>4 DEF FlagsGo
<1>11. ReadOf(u, left') = ReadOf(tokens, left)
  <2>1. FlagByte \in Int /\ (N + 7) \div 8 \in Int
    BY <1>1 DEF FlagByte
  <2> DEFINE c == CostOf(tokens, 1 .. N)
             k == (N + 7) \div 8
  <2>2. ReadOf(u, left') = left' + CostOf(u, 1 .. N + 1) + (N + 1 + 7) \div 8
    BY <1>6 DEF ReadOf
  <2>3. ReadOf(tokens, left) = left + c + k
    BY DEF ReadOf
  <2>4. /\ left' = left - FlagByte - bytes /\ CostOf(u, 1 .. N + 1) = c + bytes
        /\ (N + 1 + 7) \div 8 = k + FlagByte
    BY <1>2, <1>7, <1>10
  <2>5. c \in Int /\ k \in Int /\ bytes \in Int /\ left \in Int
    BY <1>1, <1>3, <1>7, <2>1
  <2> HIDE DEF c, k
  <2>6. left - FlagByte - bytes + (c + bytes) + (k + FlagByte) = left + c + k
    BY <2>1, <2>5
  <2> QED BY <2>2, <2>3, <2>4, <2>6
<1>12. ASSUME NEW n \in 1 .. N + 1 PROVE Says(u, output, n)
  <2>1. CASE n = N + 1
    <3>1. (N + 1) - 1 = N
      BY <1>1
    <3>2. u[n].first = 1 + LengthOf(u, 1 .. n - 1)
      BY <1>1, <1>4, <1>6, <1>7, <1>8, <2>1, <3>1
    <3>3. u[n].first + u[n].length - 1 = Len(out) + length
      BY <1>1, <1>4, <1>6, <2>1
    <3>4. /\ u[n].first = Len(out) + 1 /\ u[n].length = length
          /\ u[n].distance = distance /\ u[n].byte = byte
      BY <1>4, <1>6, <2>1
    <3>5. /\ u[n].first \in Nat \ {0} /\ u[n].first + u[n].length - 1 <= Len(output)
          /\ u[n].distance < u[n].first
      BY <1>1, <3>3, <3>4
    <3>6. \A i \in u[n].first .. u[n].first + u[n].length - 1 :
              output[i] = IF u[n].distance = 0 THEN u[n].byte ELSE output[i - u[n].distance]
      BY <3>3, <3>4
    <3> QED BY <3>2, <3>5, <3>6 DEF Says
  <2>2. CASE n # N + 1
    <3>1. n \in 1 .. N /\ n \in 1 .. Len(tokens)
      <4>1. n \in 1 .. N + 1 /\ N \in Nat
        BY <1>1
      <4> HIDE DEF N
      <4>2. n \in 1 .. N
        BY <2>2, <4>1
      <4> QED BY <4>2 DEF N
    <3>2. Says(tokens, out, n)
      BY <3>1 DEF GhostInv
    <3>3. Len(out) <= Len(output)
      BY <1>1
    <3> QED BY <1>1, <1>3, <3>1, <3>2, <3>3, SaysStays DEF u
  <2> QED BY <2>1, <2>2
<1>13. /\ out' \in Seq(Byte) /\ Len(out') = LengthOf(tokens', 1 .. Len(tokens'))
       /\ tokens' \in Seq(GhostToken) /\ Len(tokens') = N + 1 /\ header' = header
       /\ verdict' # "accepted"
  BY <1>1, <1>2, <1>6, <1>9
<1>14. ReadOf(tokens', left') \in {y[2] : y \in Yaz}
  BY <1>2, <1>8, <1>11
<1>15. \A n \in 1 .. Len(tokens') : Says(tokens', out', n)
  BY <1>2, <1>12, <1>13
<1> QED BY <1>1, <1>10, <1>13, <1>14, <1>15 DEF GhostInv

\* A verdict alone changes nothing of what was read.
LEMMA Stays ==
  ASSUME GhostInv, UNCHANGED <<header, left, flags, out, tokens>>, verdict' # "accepted"
  PROVE  GhostInv'
BY DEF GhostInv, Fits, Counts, Word

\* Literals, references, stored inputs and the two ends.
LEMMA GhostStep == GhostInv /\ [ReadersNext]_readers => GhostInv'
<1> SUFFICES ASSUME GhostInv, [GhostNext]_ghost PROVE GhostInv'
  BY StepOfOne
<1>0. out \in Seq(Byte) /\ Len(out) \in Nat /\ header.expanded \in Nat
  BY DEF GhostInv
<1>1. CASE Reject
  BY <1>1, Stays DEF Reject
<1>2. ASSUME NEW byte \in Byte, Literal(byte) PROVE GhostInv'
  <2>1. CASE left < FlagByte + 1
    BY <1>1, <1>2, <2>1 DEF Literal
  <2>2. CASE ~ (left < FlagByte + 1)
    <3> DEFINE output == Append(out, byte)
    <3>1. Expanding /\ ReadToken(1, Len(out) + 1, 1, 0, byte, output)
      BY <1>2, <2>2 DEF Literal
    <3>2. /\ output \in Seq(Byte) /\ Len(output) = Len(out) + 1
          /\ \A i \in 1 .. Len(out) : output[i] = out[i]
          /\ output[Len(out) + 1] = byte
      BY <1>0
    <3> HIDE DEF output
    <3>3. \A i \in Len(out) + 1 .. Len(out) + 1 : output[i] = IF 0 = 0 THEN byte ELSE output[i - 0]
      BY <1>0, <3>2
    <3>4. byte \in Nat /\ 0 \in 0 .. Len(out) /\ 1 \in Nat
      BY <1>0, GhostAssumption DEF GhostAssumption
    <3>5. 1 = IF 0 = 0 THEN 1 ELSE IF 1 > 17 THEN 3 ELSE 2
      OBVIOUS
    <3> QED BY <3>1, <3>2, <3>3, <3>4, <3>5, TokenStep
  <2> QED BY <2>1, <2>2
<1>3. ASSUME NEW distance \in 1 .. Len(out) + 1, NEW size \in 3 .. header.expanded + 1,
             Reference(distance, size)
      PROVE  GhostInv'
  <2> DEFINE bytes == IF size > 17 THEN 3 ELSE 2
             output == CopyRun(out, distance, size)
  <2>1. CASE \/ left < FlagByte + bytes \/ distance > Len(out)
             \/ Len(out) + size > header.expanded
    BY <1>1, <1>3, <2>1 DEF Reference
  <2>2. CASE ~ \/ left < FlagByte + bytes \/ distance > Len(out)
               \/ Len(out) + size > header.expanded
    <3>1. Expanding /\ ReadToken(bytes, Len(out) + 1, size, distance, 0, output)
      BY <1>3, <2>2 DEF Reference
    <3>2. distance \in 1 .. Len(out) /\ size \in Nat /\ distance # 0 /\ distance \in 0 .. Len(out)
      BY <1>0, <2>2
    <3>3. IsCopy(out, distance, size, output)
      BY <1>0, <3>2, CopyRunIs
    <3> HIDE DEF output
    <3>4. /\ output \in Seq(Byte) /\ Len(output) = Len(out) + size
          /\ \A i \in 1 .. Len(out) : output[i] = out[i]
          /\ \A i \in Len(out) + 1 .. Len(out) + size :
                 output[i] = IF distance = 0 THEN 0 ELSE output[i - distance]
      BY <3>2, <3>3 DEF IsCopy
    <3>5. bytes = IF distance = 0 THEN 1 ELSE IF size > 17 THEN 3 ELSE 2
      BY <3>2
    <3> HIDE DEF bytes
    <3>6. 0 \in Nat
      OBVIOUS
    <3> QED BY <3>1, <3>2, <3>4, <3>5, <3>6, TokenStep
  <2> QED BY <2>1, <2>2
<1>4. ASSUME NEW size \in Stored, NEW bytes \in [1 .. size -> Byte], ReadStored(bytes)
      PROVE  GhostInv'
  <2>1. CASE Len(bytes) # header.inputs
    BY <1>1, <1>4, <2>1 DEF ReadStored
  <2>2. CASE Len(bytes) = header.inputs
    <3>1. /\ out' = bytes /\ verdict' = "expanded" /\ header.expanded = 0
          /\ UNCHANGED <<header, left, flags, tokens>>
      BY <1>4, <2>2 DEF ReadStored
    <3>2. tokens = <<>>
      BY <1>0, <3>1 DEF GhostInv
    <3>3. bytes \in Seq(Byte)
      BY GhostAssumption DEF GhostAssumption
    <3>4. \A n \in 1 .. Len(tokens) : FALSE
      BY <3>2, NoTokens
    <3> QED BY <3>1, <3>2, <3>3, <3>4 DEF GhostInv
  <2> QED BY <2>1, <2>2
<1>5. CASE Expanded
  BY <1>5, Stays DEF Expanded
<1>6. CASE Inspect
  <2>1. CASE Len(out) = header.inputs /\ Len(out) >= 8 /\ Fits
    <3>1. UNCHANGED <<header, left, flags, out, tokens>>
      BY <1>6, <2>1 DEF Inspect
    <3>2. Len(out') >= 8 /\ Fits'
      BY <2>1, <3>1 DEF Fits, Counts, Word
    <3> QED BY <3>1, <3>2 DEF GhostInv
  <2>2. CASE ~ (Len(out) = header.inputs /\ Len(out) >= 8 /\ Fits)
    BY <1>1, <1>6, <2>2 DEF Inspect
  <2> QED BY <2>1, <2>2
<1>7. CASE UNCHANGED ghost
  BY <1>7 DEF ghost, GhostInv, Fits, Counts, Word
<1> QED BY <1>2, <1>3, <1>4, <1>5, <1>6, <1>7 DEF GhostNext

-----------------------------------------------------------------------------
(* The inputs of a ghost                                                    *)

\* What the sums and the places of the tokens come to, in the words of the
\* property.
LEMMA TokensFollow ==
  GhostInv /\ tokens # <<>> =>
      /\ Len(out) = MapThenSumSet(LAMBDA n : tokens[n].length, DOMAIN tokens)
      /\ \A n \in DOMAIN tokens : LET t == tokens[n] IN
          /\ t.first = 1 + MapThenSumSet(LAMBDA m : tokens[m].length, 1 .. n - 1)
          /\ \A i \in t.first .. t.first + t.length - 1 :
                 out[i] = IF t.distance = 0 THEN t.byte ELSE out[i - t.distance]
      /\ left + MapThenSumSet(LAMBDA n : TokenBytes(tokens[n]), DOMAIN tokens)
              + (Len(tokens) + 7) \div 8 \in {y[2] : y \in Yaz}
<1> SUFFICES ASSUME GhostInv, tokens # <<>>
             PROVE  /\ Len(out) = LengthOf(tokens, DOMAIN tokens)
                    /\ \A n \in DOMAIN tokens : LET t == tokens[n] IN
                        /\ t.first = 1 + LengthOf(tokens, 1 .. n - 1)
                        /\ \A i \in t.first .. t.first + t.length - 1 :
                               out[i] = IF t.distance = 0 THEN t.byte ELSE out[i - t.distance]
                    /\ left + CostOf(tokens, DOMAIN tokens)
                            + (Len(tokens) + 7) \div 8 \in {y[2] : y \in Yaz}
  BY DEF LengthOf, CostOf
<1>1. DOMAIN tokens = 1 .. Len(tokens) /\ header.expanded > 0
  BY DEF GhostInv
<1>2. Len(out) = LengthOf(tokens, DOMAIN tokens)
  BY <1>1 DEF GhostInv
<1>3. ReadOf(tokens, left) \in {y[2] : y \in Yaz}
  BY <1>1 DEF GhostInv
<1>4. \A n \in DOMAIN tokens : Says(tokens, out, n)
  BY <1>1 DEF GhostInv
<1> QED BY <1>1, <1>2, <1>3, <1>4 DEF Says, ReadOf

OneToOne(f, S, T) ==
    /\ f \in [S -> T]
    /\ \A x, y \in S : f[x] = f[y] => x = y
    /\ \A z \in T : \E x \in S : f[x] = z

\* Sets that are mapped one to one have the same size.
LEMMA SameSize ==
  ASSUME NEW S, IsFiniteSet(S), NEW T, NEW f, OneToOne(f, S, T)
  PROVE  IsFiniteSet(T) /\ Cardinality(T) = Cardinality(S)
<1>1. f \in Bijection(S, T)
  BY DEF OneToOne, Bijection, Injection, Surjection, IsInjective
<1>2. ExistsBijection(S, T)
  BY <1>1 DEF ExistsBijection
<1> QED BY <1>2, FS_Bijection

\* The numbers of records, or of courses.
LEMMA SizeFromZero ==
  ASSUME NEW n \in Nat
  PROVE  IsFiniteSet(0 .. n - 1) /\ Cardinality(0 .. n - 1) = n
<1>1. 0 \in Int /\ n - 1 \in Int
  OBVIOUS
<1>2. IsFiniteSet(0 .. n - 1)
  BY <1>1, FS_Interval
<1>3. Cardinality(0 .. n - 1) = IF 0 > n - 1 THEN 0 ELSE (n - 1) - 0 + 1
  BY <1>1, FS_Interval
<1> QED BY <1>2, <1>3

\* The table of accepted inputs, whose streams follow each other to the end.
LEMMA Table ==
  ASSUME GhostInv, verdict = "accepted"
  PROVE  /\ Len(out) \in Nat /\ Len(out) = 8 + 2 * (Counts[1] + Counts[2] + Counts[3])
         /\ \A n \in 1 .. 3 : Counts[n] \in Nat
         /\ \A i \in 1 .. Len(out) : out[i] \in Nat
         /\ StreamStart(1) = 9 /\ StreamStart(2) = 9 + 2 * Counts[1]
         /\ StreamStart(3) = 9 + 2 * (Counts[1] + Counts[2])
<1>1. out \in Seq(Byte) /\ Len(out) >= 8 /\ Fits /\ Byte \subseteq Nat
  <2>1. Byte \subseteq Nat
    BY GhostAssumption DEF GhostAssumption
  <2> QED BY <2>1 DEF GhostInv
<1>2. Len(out) \in Nat /\ \A i \in 1 .. Len(out) : out[i] \in Nat
  <2>1. Len(out) \in Nat /\ out \in [1 .. Len(out) -> Byte]
    BY <1>1, LenProperties
  <2> QED BY <1>1, <2>1
<1>3. \A i \in 1 .. 6 : i \in 1 .. Len(out)
  BY <1>1, <1>2
<1>4. Word(1) \in Nat /\ Word(3) \in Nat /\ Word(5) \in Nat
  <2>1. /\ out[1] \in Nat /\ out[2] \in Nat /\ out[3] \in Nat
        /\ out[4] \in Nat /\ out[5] \in Nat /\ out[6] \in Nat
    BY <1>2, <1>3
  <2> QED BY <2>1 DEF Word
<1>5. Counts[1] = Word(1) /\ Counts[2] = Word(3) /\ Counts[3] = Word(5)
  BY DEF Counts
<1>6. /\ StreamStart(1) = 9 /\ StreamStart(2) = 9 + 2 * Counts[1]
      /\ StreamStart(3) = 9 + 2 * (Counts[1] + Counts[2])
  BY <1>4, <1>5 DEF StreamStart
<1>7. \A n \in 1 .. 3 : n = 1 \/ n = 2 \/ n = 3
  OBVIOUS
<1>8. Len(out) = 8 + 2 * (Counts[1] + Counts[2] + Counts[3])
  BY <1>1 DEF Fits
<1> QED BY <1>2, <1>4, <1>5, <1>6, <1>7, <1>8

\* Every second place after the table is that of one record of one stream.
LEMMA RecordsPart ==
  ASSUME GhostInv, verdict = "accepted"
  PROVE  {i \in 9 .. Len(out) : i % 2 = 1} = Records(1) \cup Records(2) \cup Records(3)
<1> DEFINE a == Counts[1]
           b == Counts[2]
           c == Counts[3]
           N == Len(out)
<1>1. /\ a \in Nat /\ b \in Nat /\ c \in Nat /\ N \in Nat /\ N = 8 + 2 * (a + b + c)
      /\ Records(1) = {9 + 2 * k : k \in 0 .. a - 1}
      /\ Records(2) = {9 + 2 * a + 2 * k : k \in 0 .. b - 1}
      /\ Records(3) = {9 + 2 * (a + b) + 2 * k : k \in 0 .. c - 1}
  <2>1. /\ a \in Nat /\ b \in Nat /\ c \in Nat /\ N \in Nat /\ N = 8 + 2 * (a + b + c)
        /\ StreamStart(1) = 9 /\ StreamStart(2) = 9 + 2 * a /\ StreamStart(3) = 9 + 2 * (a + b)
    BY Table
  <2>2. \A n : Records(n) = {StreamStart(n) + 2 * k : k \in 0 .. Counts[n] - 1}
    BY DEF Records
  <2>3. /\ Records(1) = {StreamStart(1) + 2 * k : k \in 0 .. a - 1}
        /\ Records(2) = {StreamStart(2) + 2 * k : k \in 0 .. b - 1}
        /\ Records(3) = {StreamStart(3) + 2 * k : k \in 0 .. c - 1}
    BY <2>2
  <2> HIDE DEF a, b, c, N
  <2> QED BY <2>1, <2>3
<1> HIDE DEF a, b, c, N
<1>2. ASSUME NEW i \in Records(1) \cup Records(2) \cup Records(3) PROVE i \in 9 .. N /\ i % 2 = 1
  <2>1. CASE i \in Records(1)
    <3>1. PICK k \in 0 .. a - 1 : i = 2 * (4 + k) + 1
      BY <1>1, <2>1
    <3> QED BY <1>1, <3>1
  <2>2. CASE i \in Records(2)
    <3>1. PICK k \in 0 .. b - 1 : i = 2 * (4 + a + k) + 1
      BY <1>1, <2>2
    <3> QED BY <1>1, <3>1
  <2>3. CASE i \in Records(3)
    <3>1. PICK k \in 0 .. c - 1 : i = 2 * (4 + a + b + k) + 1
      BY <1>1, <2>3
    <3> QED BY <1>1, <3>1
  <2> QED BY <2>1, <2>2, <2>3
<1>3. ASSUME NEW i \in 9 .. N, i % 2 = 1 PROVE i \in Records(1) \cup Records(2) \cup Records(3)
  <2> DEFINE m == (i \div 2) - 4
  <2>1. i = 9 + 2 * m /\ m \in Nat
    BY <1>1, <1>3
  <2> HIDE DEF m
  <2>2. m < a + b + c
    BY <1>1, <2>1
  <2>3. CASE m < a
    <3>1. m \in 0 .. a - 1
      BY <1>1, <2>1, <2>3
    <3> QED BY <1>1, <2>1, <3>1
  <2>4. CASE a <= m /\ m < a + b
    <3>1. m - a \in 0 .. b - 1 /\ i = 9 + 2 * a + 2 * (m - a)
      BY <1>1, <2>1, <2>4
    <3> QED BY <1>1, <3>1
  <2>5. CASE a + b <= m
    <3>1. m - (a + b) \in 0 .. c - 1 /\ i = 9 + 2 * (a + b) + 2 * (m - (a + b))
      BY <1>1, <2>1, <2>2, <2>5
    <3> QED BY <1>1, <3>1
  <2> QED BY <1>1, <2>1, <2>3, <2>4, <2>5
<1> QED BY <1>2, <1>3 DEF N

\* The frames that the record at i of the stream n counts for.
FrameOf(n, i) == IF n = 3 THEN Word(i) % 4096 ELSE out[i + 1]
AtLeastOne(n, i) == IF FrameOf(n, i) = 0 THEN 1 ELSE FrameOf(n, i)

\* FramesOf adds up the frames of the records.
LEMMA FramesAreSum ==
  ASSUME NEW n, IsFiniteSet(Records(n))
  PROVE  IsSum(FramesOf(n), [i \in Records(n) |-> AtLeastOne(n, i)], Records(n))
<1> DEFINE S == Records(n)
           g == [i \in S |-> AtLeastOne(n, i)]
           Solves(h) == h = [s \in SUBSET S |->
                               IF s = {} THEN 0 ELSE AtLeastOne(n, Pick(s)) + h[s \ {Pick(s)}]]
<1>1. FramesOf(n) = (CHOOSE h : Solves(h))[S]
  BY DEF FramesOf, MapThenSumSet, MapThenFoldSet, Pick, AtLeastOne, FrameOf
<1>2. \A s \in SUBSET S : s # {} => g[Pick(s)] = AtLeastOne(n, Pick(s))
  BY DEF Pick
<1>3. \A h : Solves(h) <=> Adds(h, g, SUBSET S)
  <2> HIDE DEF g
  <2> QED BY <1>2 DEF Adds
<1>4. \E h : Solves(h)
  BY <1>3, AddsDefined
<1> HIDE DEF Solves
<1>5. Solves(CHOOSE h : Solves(h))
  BY <1>4, Zenon
<1> QED BY <1>1, <1>3, <1>5 DEF IsSum

\* Each record counts for at least one frame.
LEMMA FramesFollow ==
  ASSUME GhostInv, verdict = "accepted", NEW n \in 1 .. 3
  PROVE  FramesOf(n) >= Counts[n]
<1> DEFINE S == Records(n)
           g == [i \in S |-> AtLeastOne(n, i)]
           c == Counts[n]
           a == StreamStart(n)
<1>1. /\ c \in Nat /\ a \in Nat /\ S = {a + 2 * k : k \in 0 .. c - 1}
  <2>1. n = 1 \/ n = 2 \/ n = 3
    OBVIOUS
  <2>2. c \in Nat /\ a \in Nat
    <3>1. /\ Counts[1] \in Nat /\ Counts[2] \in Nat /\ Counts[3] \in Nat
          /\ StreamStart(1) = 9 /\ StreamStart(2) = 9 + 2 * Counts[1]
          /\ StreamStart(3) = 9 + 2 * (Counts[1] + Counts[2])
      BY Table
    <3>2. StreamStart(1) \in Nat /\ StreamStart(2) \in Nat /\ StreamStart(3) \in Nat
      BY <3>1
    <3> QED BY <2>1, <3>1, <3>2
  <2> QED BY <2>2 DEF Records
<1>2. \A i \in S : i \in 1 .. Len(out) /\ i + 1 \in 1 .. Len(out)
  <2> TAKE i \in S
  <2>1. i \in 9 .. Len(out) /\ i % 2 = 1
    <3>1. n = 1 \/ n = 2 \/ n = 3
      OBVIOUS
    <3>2. i \in Records(1) \cup Records(2) \cup Records(3)
      BY <3>1
    <3> QED BY <3>2, RecordsPart
  <2>2. Len(out) % 2 = 0 /\ Len(out) \in Nat
    <3>1. /\ Len(out) = 8 + 2 * (Counts[1] + Counts[2] + Counts[3])
          /\ Counts[1] \in Nat /\ Counts[2] \in Nat /\ Counts[3] \in Nat
      BY Table
    <3>2. PICK q \in Nat : q = Counts[1] + Counts[2] + Counts[3]
      BY <3>1
    <3>3. Len(out) = 2 * (4 + q)
      BY <3>1, <3>2
    <3> QED BY <3>2, <3>3
  <2> QED BY <2>1, <2>2
<1>3. IsFiniteSet(S) /\ Cardinality(S) = c
  <2> DEFINE f == [k \in 0 .. c - 1 |-> a + 2 * k]
  <2>1. f \in [0 .. c - 1 -> S]
    BY <1>1
  <2>2. IsFiniteSet(0 .. c - 1) /\ Cardinality(0 .. c - 1) = c
    BY <1>1, SizeFromZero
  <2>3. \A x, y \in 0 .. c - 1 : f[x] = f[y] => x = y
    BY <1>1
  <2>4. \A z \in S : \E x \in 0 .. c - 1 : f[x] = z
    BY <1>1
  <2>5. OneToOne(f, 0 .. c - 1, S)
    BY <2>1, <2>3, <2>4 DEF OneToOne
  <2> HIDE DEF f, S, c, a
  <2> QED BY <2>2, <2>5, SameSize
<1>4. \A i \in S : g[i] \in Nat /\ g[i] >= 1
  <2> TAKE i \in S
  <2>1. out[i] \in Nat /\ out[i + 1] \in Nat
    BY <1>2, Table
  <2>2. Word(i) \in Nat
    BY <2>1 DEF Word
  <2>3. FrameOf(n, i) \in Nat
    BY <2>1, <2>2 DEF FrameOf
  <2>4. AtLeastOne(n, i) \in Nat /\ AtLeastOne(n, i) >= 1
    BY <2>3 DEF AtLeastOne
  <2> QED BY <2>4
<1>5. IsSum(FramesOf(n), g, S)
  BY <1>3, FramesAreSum
<1> HIDE DEF g, S, c
<1>6. FramesOf(n) >= Cardinality(S)
  BY <1>3, <1>4, <1>5, SumOfPositive
<1> QED BY <1>3, <1>6 DEF c

\* All three parts of the property.
LEMMA InputsFollow == GhostInv => InputsAreExact
<1> SUFFICES ASSUME GhostInv PROVE InputsAreExact
  OBVIOUS
<1>1. ASSUME verdict = "accepted"
      PROVE  /\ {i \in 9 .. Len(out) : i % 2 = 1} = Records(1) \cup Records(2) \cup Records(3)
             /\ Len(out) = 8 + 2 * (Counts[1] + Counts[2] + Counts[3])
             /\ \A n \in 1 .. 3 : FramesOf(n) >= Counts[n]
  BY <1>1, RecordsPart, Table, FramesFollow
<1> QED BY <1>1, TokensFollow DEF InputsAreExact

-----------------------------------------------------------------------------
(* The course matrix                                                        *)

\* The library is read before the matrix, and does not change.
LibraryInv == library \in Seq(Summary)

\* Any library of up to MaxGhosts files.
LEMMA LibraryStarts == ReadersInit => LibraryInv
<1> SUFFICES ASSUME ReadersInit PROVE LibraryInv
  OBVIOUS
<1>1. GhostInit \/ LibraryInit \/ GhostNone
  BY DEF ReadersInit
<1>2. CASE LibraryInit
  <2>1. PICK n \in 0 .. MaxGhosts : library \in [1 .. n -> Summary]
    BY <1>2 DEF LibraryInit
  <2>2. n \in Nat
    BY GhostAssumption DEF GhostAssumption
  <2>3. library \in Seq(Summary)
    BY <2>1, <2>2, SeqDef
  <2> QED BY <2>3 DEF LibraryInv
<1>3. CASE GhostInit \/ GhostNone
  <2>1. library = <<>>
    BY <1>3 DEF GhostInit, GhostNone
  <2>2. <<>> \in Seq(Summary)
    OBVIOUS
  <2> QED BY <2>1, <2>2 DEF LibraryInv
<1> QED BY <1>1, <1>2, <1>3

\* No step changes it.
LEMMA LibraryStep == LibraryInv /\ [ReadersNext]_readers => LibraryInv'
<1> SUFFICES ASSUME [GhostNext]_ghost PROVE library' = library
  BY StepOfOne DEF LibraryInv
<1> USE DEF Reject, ReadToken
<1>1. ASSUME NEW byte \in Byte, Literal(byte) PROVE library' = library
  BY <1>1 DEF Literal
<1>2. ASSUME NEW distance, NEW size, Reference(distance, size) PROVE library' = library
  BY <1>2 DEF Reference
<1>3. ASSUME NEW bytes, ReadStored(bytes) PROVE library' = library
  BY <1>3 DEF ReadStored
<1>4. CASE Expanded \/ Inspect
  BY <1>4 DEF Expanded, Inspect
<1>5. CASE UNCHANGED ghost
  BY <1>5 DEF ghost
<1> QED BY <1>1, <1>2, <1>3, <1>4, <1>5 DEF GhostNext

\* The matrix is accepted exactly if each course has one ghost: no two of them
\* have the same course, so that there are as many as courses, and none is missing.
LEMMA MatrixFollows == LibraryInv => (MatrixAccepted <=> OneGhostPerCourse)
<1> SUFFICES ASSUME LibraryInv PROVE MatrixAccepted <=> OneGhostPerCourse
  OBVIOUS
<1> DEFINE C == 0 .. Courses - 1
           D == DOMAIN library
<1>1. /\ D = 1 .. Len(library) /\ Len(library) \in Nat /\ Courses \in Nat
      /\ \A n \in D : library[n] \in Summary
  BY GhostAssumption DEF LibraryInv, GhostAssumption
<1>2. \A n \in D : /\ library[n].course \in 0 .. Courses
                   /\ library[n].frames \in SUBSET {1, 2}
  BY <1>1 DEF Summary
<1>3. \A n \in D : Cardinality(library[n].frames) = 1 <=> \E f \in 1 .. 2 : library[n].frames = {f}
  <2> TAKE n \in D
  <2>1. IsFiniteSet({1, 2})
    <3>1. IsFiniteSet({1} \cup {2})
      BY FS_Singleton, FS_AddElement
    <3>2. {1} \cup {2} = {1, 2}
      OBVIOUS
    <3> QED BY <3>1, <3>2
  <2>2. IsFiniteSet(library[n].frames)
    BY <1>2, <2>1, FS_Subset
  <2>3. Cardinality(library[n].frames) = 1 <=> \E f : library[n].frames = {f}
    BY <2>2, FS_Singleton
  <2>4. \A f : library[n].frames = {f} => f \in 1 .. 2
    BY <1>2
  <2> QED BY <2>3, <2>4
<1>4. ASSUME MatrixAccepted PROVE OneGhostPerCourse
  <2> DEFINE observed == {library[n].course : n \in D}
  <2>1. /\ \A m, n \in D : library[m].course = library[n].course => m = n
        /\ C \subseteq observed /\ observed \subseteq C
        /\ \A n \in D : ~library[n].empty /\ Cardinality(library[n].frames) = 1
    BY <1>4 DEF MatrixAccepted
  <2>2. ASSUME NEW c \in C
        PROVE  \E n \in D : library[n].course = c /\ \A m \in D \ {n} : library[m].course # c
    <3>1. PICK n \in D : library[n].course = c
      BY <2>1
    <3> QED BY <2>1, <3>1
  <2>3. ASSUME NEW n \in D PROVE library[n].course < Courses
    <3>1. library[n].course \in C
      BY <2>1
    <3> QED BY <1>1, <3>1
  <2> QED BY <1>3, <2>1, <2>2, <2>3 DEF OneGhostPerCourse
<1>5. ASSUME OneGhostPerCourse PROVE MatrixAccepted
  <2>1. /\ \A c \in C : \E n \in D :
               library[n].course = c /\ \A m \in D \ {n} : library[m].course # c
        /\ \A n \in D : /\ library[n].course < Courses /\ ~library[n].empty
                        /\ \E f \in 1 .. 2 : library[n].frames = {f}
    BY <1>5 DEF OneGhostPerCourse
  <2>2. \A n \in D : library[n].course \in C
    BY <1>1, <1>2, <2>1
  <2>3. \A m, n \in D : library[m].course = library[n].course => m = n
    <3> TAKE m, n \in D
    <3>1. PICK k \in D : /\ library[k].course = library[n].course
                         /\ \A j \in D \ {k} : library[j].course # library[n].course
      BY <2>1, <2>2
    <3> QED BY <3>1
  <2> DEFINE f == [n \in D |-> library[n].course]
  <2>4. /\ f \in [D -> C] /\ \A x, y \in D : f[x] = f[y] => x = y
        /\ \A z \in C : \E x \in D : f[x] = z
    BY <2>1, <2>2, <2>3
  <2>5. IsFiniteSet(D) /\ Cardinality(D) = Len(library) /\ Cardinality(C) = Courses
    <3>1. IsFiniteSet(1 .. Len(library)) /\ Cardinality(1 .. Len(library)) = Len(library)
      <4>1. 1 \in Int /\ Len(library) \in Int
        BY <1>1
      <4>2. IsFiniteSet(1 .. Len(library))
        BY <4>1, FS_Interval
      <4>3. Cardinality(1 .. Len(library))
              = IF 1 > Len(library) THEN 0 ELSE Len(library) - 1 + 1
        BY <4>1, FS_Interval
      <4> QED BY <1>1, <4>2, <4>3
    <3> QED BY <1>1, <3>1, SizeFromZero
  <2>6. Len(library) = Courses
    <3>1. OneToOne(f, D, C)
      BY <2>4 DEF OneToOne
    <3> HIDE DEF f, C, D
    <3> QED BY <2>5, <3>1, SameSize
  <2>7. C \subseteq {library[n].course : n \in D} /\ {library[n].course : n \in D} \subseteq C
    BY <2>1, <2>2
  <2> QED BY <1>3, <2>1, <2>3, <2>6, <2>7 DEF MatrixAccepted
<1> QED BY <1>4, <1>5

-----------------------------------------------------------------------------
(* The theorems                                                             *)

\* What each reader knows of what it has read so far.
ReadersInv ==
    /\ TraceInv /\ AudioInv /\ GhostInv /\ LibraryInv
    /\ ComparisonInv /\ SessionInv /\ PatchInv

\* The readers keep all of it.
LEMMA ReadersHold == ReadersSpec => []ReadersInv
<1>1. ReadersInit => ReadersInv
  BY TraceInit, AudioInit, GhostStarts, LibraryStarts, ComparisonStarts, SessionStarts, PatchStarts
     DEF ReadersInv
<1>2. ReadersInv /\ [ReadersNext]_readers => ReadersInv'
  BY TraceStep, AudioStep, GhostStep, LibraryStep, ComparisonStep, SessionStep, PatchStep
     DEF ReadersInv
<1> QED BY <1>1, <1>2, PTL DEF ReadersSpec

\* The segments of race_segments are exactly the longest gapless races of the
\* trace, in their order, and longest_race_segment chooses the first of the
\* longest ones, for traces of any length.
THEOREM TraceSegments == ReadersSpec => []SegmentsAreRaces
<1>1. ReadersInv => SegmentsAreRaces
  BY SegmentsFollow DEF ReadersInv
<1> QED BY <1>1, ReadersHold, PTL

\* decode_yaz writes what its tokens say, reads one flag byte for every eight of
\* them, and the streams of accepted inputs leave nothing over: for inputs of
\* any size and references of any distance and length.
THEOREM ExactInputs == ReadersSpec => []InputsAreExact
<1>1. ReadersInv => InputsAreExact
  BY InputsFollow DEF ReadersInv
<1> QED BY <1>1, ReadersHold, PTL

\* The verdicts on a trace, on audio logs, on a library of ghosts, on two
\* traces, on a session and on a patch are true of all that was read.
THEOREM TrueVerdicts == ReadersSpec => []VerdictIsTrue
<1>1. ReadersInv => VerdictIsTrue
  <2> SUFFICES ASSUME ReadersInv PROVE VerdictIsTrue
    OBVIOUS
  <2>1. step = 1 => TraceVerdict
    BY TraceVerdictFollows DEF ReadersInv
  <2>2. status = "clean" => worst = 0
    BY DEF ReadersInv, AudioInv
  <2>3. MatrixAccepted <=> OneGhostPerCourse
    BY MatrixFollows DEF ReadersInv
  <2>4. MatchIsTrue /\ SignalsAreTrue /\ PatchIsWhole
    BY ComparisonFollows, SignalsFollow, PatchFollows DEF ReadersInv
  <2> QED BY <2>1, <2>2, <2>3, <2>4 DEF VerdictIsTrue, TraceVerdict
<1> QED BY <1>1, ReadersHold, PTL
=============================================================================
