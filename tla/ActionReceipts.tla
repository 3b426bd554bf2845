--------------------------- MODULE ActionReceipts ---------------------------
(***************************************************************************)
(* scripts/maintenance-state.py: the ledger of the maintenance runs.  One  *)
(* run owns the ledger by a token; every public action (a GitHub comment,  *)
(* a test request) has a receipt under a stable key, and only the reply    *)
(* "dispatch: true" permits its caller to act.                             *)
(*                                                                         *)
(* Every command is a process of its own.  It takes state.lock, reads      *)
(* state.json, computes the next ledger, writes it to a temporary file,    *)
(* renames that over state.json, syncs the directory and only then         *)
(* replies.  A process may be killed or fail at each of these steps, and a *)
(* power loss takes the directory back to what was synced.                 *)
(*                                                                         *)
(* A receipt is the startedAt of its latest attempt and the evidence of    *)
(* its completion; its status is "complete" when it has evidence.  Labels, *)
(* notes and the times nothing compares are left out.  A command the code  *)
(* refuses, or answers without writing, changes nothing here.              *)
(***************************************************************************)
EXTENDS Naturals

CONSTANTS Proc, Key, Token, Evidence, MaxStamp, None, Absent

ASSUME ReceiptsAssumption ==
    /\ MaxStamp \in Nat \ {0}
    /\ None \notin Proc \cup Key \cup Token \cup Evidence \cup Nat

Stamp == 1 .. MaxStamp          \* readings of the clock
Marker == 1 .. MaxStamp + 1     \* a startedAt, possibly one past the reading
Receipt == [startedAt : Marker, evidence : Evidence \cup {None}]
Ledger == [owner : Token \cup {None}, actions : [Key -> Receipt \cup {Absent}]]

ASSUME AbsentAssumption == Absent \notin Receipt

\* What a dispatch follows: no attempt (begin) or the one it names (retry).
Base == Marker \cup {None}
Grant == [key : Key, base : Base]
Call == [token : Token \cup {None}, ledger : Ledger, grant : Grant \cup {None}]

VARIABLES
    disk,       \* state.json as the next process reads it
    durable,    \* state.json as a power loss leaves it
    lock,       \* the process that holds state.lock
    pc,
    call,       \* call[p]: the token p showed, what it writes, what it grants
    issued,     \* tokens handed out so far
    wins        \* wins[k][b]: replies "dispatch: true" for k that follow b

vars == <<disk, durable, lock, pc, call, issued, wins>>

NewLedger == [owner |-> None, actions |-> [k \in Key |-> Absent]]
NoCall == [token |-> None, ledger |-> NewLedger, grant |-> None]

Init ==
    /\ disk = NewLedger
    /\ durable = NewLedger
    /\ lock = None
    /\ pc = [p \in Proc |-> "idle"]
    /\ call = [p \in Proc |-> NoCall]
    /\ issued = {}
    /\ wins = [k \in Key |-> [b \in Base |-> 0]]

(* ------------------------------- commands ------------------------------ *)

Unlocked == TRUE                                        \* mutant of LockFree
LockFree == lock = None
RequireOwner(token) == token = disk.owner

\* A clock that never shows again the microsecond of an attempt retried before.
Clock(k) == {t \in Stamp : wins[k][t] = 0 /\ wins[k][t + 1] = 0}
Pending(k) == disk.actions[k] # Absent /\ disk.actions[k].evidence = None
SameAttempt(k, expected) == disk.actions[k].startedAt = expected
ReplacementAsRead(t, previous) == t                     \* mutants of Replacement
ReplacementOfMillis(t, previous) == IF t = previous THEN t + 1000 ELSE t
Replacement(t, previous) == IF t = previous THEN t + 1 ELSE t
RecordableAgain(k, evidence) == disk.actions[k] # Absent   \* mutant of Recordable
Recordable(k, evidence) == Pending(k)

Enter(p, token, ledger, grant) ==
    /\ pc[p] = "idle"
    /\ LockFree
    /\ lock' = p
    /\ pc' = [pc EXCEPT ![p] = "write"]
    /\ call' = [call EXCEPT ![p] = [token |-> token, ledger |-> ledger, grant |-> grant]]
    /\ UNCHANGED <<disk, durable, wins>>

Rotate(p, token) ==
    \E fresh \in Token \ issued :
        /\ Enter(p, token, [disk EXCEPT !.owner = fresh], None)
        /\ issued' = issued \cup {fresh}

Claim(p) == RequireOwner(None) /\ Rotate(p, None)

Recover(p, token) == RequireOwner(token) /\ Rotate(p, token)

Release(p, token) ==
    /\ RequireOwner(token)
    /\ Enter(p, token, [disk EXCEPT !.owner = None], None)
    /\ UNCHANGED issued

Begin(p, token, k) ==
    /\ RequireOwner(token)
    /\ disk.actions[k] = Absent
    /\ \E t \in Clock(k) :
        Enter(p, token, [disk EXCEPT !.actions[k] = [startedAt |-> t, evidence |-> None]],
              [key |-> k, base |-> None])
    /\ UNCHANGED issued

Retry(p, token, k, expected) ==
    /\ RequireOwner(token)
    /\ Pending(k)
    /\ SameAttempt(k, expected)
    /\ \E t \in Clock(k) :
        Enter(p, token,
              [disk EXCEPT !.actions[k].startedAt =
                  Replacement(t, disk.actions[k].startedAt)],
              [key |-> k, base |-> expected])
    /\ UNCHANGED issued

Complete(p, token, k, evidence) ==
    /\ RequireOwner(token)
    /\ Recordable(k, evidence)
    /\ Enter(p, token, [disk EXCEPT !.actions[k].evidence = evidence], None)
    /\ UNCHANGED issued

(* ------------------------ the write and the reply ---------------------- *)

Leave(p) ==
    /\ lock' = None
    /\ pc' = [pc EXCEPT ![p] = "idle"]
    /\ call' = [call EXCEPT ![p] = NoCall]

\* os.replace of the written and synced temporary file
Replace(p) ==
    /\ pc[p] = "write"
    /\ disk' = call[p].ledger
    /\ pc' = [pc EXCEPT ![p] = "sync"]
    /\ UNCHANGED <<durable, lock, call, issued, wins>>

Delivered(grant) ==
    IF grant = None THEN wins
    ELSE [wins EXCEPT ![grant.key][grant.base] = @ + 1]

Reply(p) ==
    /\ pc[p] = "sync"
    /\ durable' = disk
    /\ wins' = Delivered(call[p].grant)
    /\ Leave(p)
    /\ UNCHANGED <<disk, issued>>

\* The process is killed, or a write, rename or sync of its fails: no reply.
Die(p) ==
    /\ pc[p] \in {"write", "sync"}
    /\ Leave(p)
    /\ UNCHANGED <<disk, durable, issued, wins>>

WriteBack ==
    /\ durable # disk
    /\ durable' = disk
    /\ UNCHANGED <<disk, lock, pc, call, issued, wins>>

PowerLoss ==
    /\ disk' = durable
    /\ lock' = None
    /\ pc' = [p \in Proc |-> "idle"]
    /\ call' = [p \in Proc |-> NoCall]
    /\ UNCHANGED <<durable, issued, wins>>

Command(p) ==
    \/ Claim(p)
    \/ \E token \in Token :
        \/ Recover(p, token)
        \/ Release(p, token)
        \/ \E k \in Key :
            \/ Begin(p, token, k)
            \/ \E expected \in Marker : Retry(p, token, k, expected)
            \/ \E evidence \in Evidence : Complete(p, token, k, evidence)

Next ==
    \/ \E p \in Proc : Command(p) \/ Replace(p) \/ Reply(p) \/ Die(p)
    \/ WriteBack
    \/ PowerLoss

Spec == Init /\ [][Next]_vars

(* ------------------------------ properties ----------------------------- *)

TypeOK ==
    /\ disk \in Ledger
    /\ durable \in Ledger
    /\ lock \in Proc \cup {None}
    /\ pc \in [Proc -> {"idle", "write", "sync"}]
    /\ call \in [Proc -> Call]
    /\ issued \subseteq Token
    /\ wins \in [Key -> [Base -> Nat]]

\* Two begins of a key, or two retries that name the same attempt, never both
\* reply "dispatch: true", whatever is killed or lost in between.
OneGrantPerAttempt == \A k \in Key, b \in Base : wins[k][b] <= 1

\* A ledger is replaced only by a process whose token is the owner's at that
\* moment (for a claim: while nobody owns it), so a token that was rotated
\* away writes nothing, not even with a check that it passed before.
OwnedWrites ==
    [][\A p \in Proc : pc[p] = "write" /\ pc'[p] = "sync" => call[p].token = disk.owner]_vars

\* A receipt that is complete and synced is never changed again.
ReceiptImmutable ==
    [][\A k \in Key :
        durable.actions[k] # Absent /\ durable.actions[k].evidence # None
            => durable'.actions[k] = durable.actions[k]]_vars
=============================================================================
