-------------------------- MODULE ArchiveDownload --------------------------
(***************************************************************************)
(* RetroRewindArchiveDownload: the resumable download of the one pinned    *)
(* release archive into the app's cache, as the install worker runs it.    *)
(*                                                                         *)
(* Every execution of the worker uses the same partial file.  A stopped    *)
(* execution notices only where the code asks isCancelled, so it can be    *)
(* blocked on the network, with the partial open, while the next one runs. *)
(*                                                                         *)
(* The archive is Size chunks; chunk i of the release is the number i.  A  *)
(* file is the sequence of its chunks; an open stream is what it refers    *)
(* to: the file now named partial, now named archive, or one unlinked.     *)
(***************************************************************************)
EXTENDS Integers, Sequences

CONSTANTS
    Exec,           \* executions of the worker that can exist at once
    Size,           \* ARCHIVE_BYTES, in chunks
    MaxFaults,      \* bound on losses, refusals, bad chunks, stops, crashes
    Absent, None

ASSUME DownloadAssumption == Size \in Nat \ {0} /\ MaxFaults \in Nat

VARIABLES
    archive, part,  \* the published file and the partial one
    wanted,         \* WorkManager has an unfinished request
    stopped,        \* executions whose isStopped is raised
    pc,
    offset,         \* offset[e]: resumeOffset, then transferOffset
    total,          \* total[e]: bytes of the transfer so far, prefix included
    clean,          \* clean[e]: the digest so far is the release's
    fd,             \* fd[e]: the file behind the open output stream
    installed,      \* some execution has installed from the archive
    faults

files == <<archive, part>>
work == <<wanted, stopped>>
locals == <<offset, total, clean>>
vars == <<files, work, pc, locals, fd, installed, faults>>

Garbled == -1       \* a chunk the server sent wrong
Hole == -2          \* what a write beyond the end of a file leaves before it

Step == {"idle", "check", "prepare", "connect", "prefix", "open", "loop",
         "read", "digest", "verify", "publish", "ready"}
File == Seq(1..Size \cup {Garbled, Hole})
ASSUME AbsentAssumption == Absent \notin File /\ None \notin {"part", "archive", "orphan"}

Running == {e \in Exec : pc[e] # "idle"}

TypeOK ==
    /\ archive \in File \cup {Absent} /\ part \in File \cup {Absent}
    /\ wanted \in BOOLEAN /\ installed \in BOOLEAN
    /\ stopped \subseteq Running
    /\ pc \in [Exec -> Step]
    /\ offset \in [Exec -> 0..Size] /\ total \in [Exec -> 0..Size]
    /\ clean \in [Exec -> BOOLEAN]
    /\ fd \in [Exec -> {"part", "archive", "orphan", None}]
    /\ \A e \in Exec : fd[e] # None <=> pc[e] \in {"loop", "read", "digest"}
    /\ faults \in 0..MaxFaults

Init ==
    /\ archive = Absent /\ part = Absent
    /\ wanted = FALSE /\ stopped = {}
    /\ pc = [e \in Exec |-> "idle"]
    /\ offset = [e \in Exec |-> 0] /\ total = [e \in Exec |-> 0]
    /\ clean = [e \in Exec |-> TRUE]
    /\ fd = [e \in Exec |-> None]
    /\ installed = FALSE /\ faults = 0

Release == [i \in 1..Size |-> i]
Goto(e, s) == pc' = [pc EXCEPT ![e] = s]
Fault == faults < MaxFaults /\ faults' = faults + 1

\* the streams once e's is closed and the files under these names are unlinked
Closed(e, unlinked) ==
    [x \in Exec |-> IF x = e THEN None
                    ELSE IF fd[x] \in unlinked THEN "orphan" ELSE fd[x]]

\* e returns; after Result.retry() (again) its request stays
Leave(e, again) ==
    /\ Goto(e, "idle")
    /\ stopped' = stopped \ {e}
    /\ wanted' = IF e \in stopped \/ again THEN wanted ELSE FALSE
    /\ offset' = [offset EXCEPT ![e] = 0]
    /\ total' = [total EXCEPT ![e] = 0]
    /\ clean' = [clean EXCEPT ![e] = TRUE]

\* fault: a failure path leaves the stream open
KeepOpen(e, again) == Leave(e, again) /\ UNCHANGED <<files, fd, installed>>

\* failures that keep the partial, and those that delete it
Keep(e, again) ==
    Leave(e, again) /\ fd' = Closed(e, {}) /\ UNCHANGED <<files, installed>>
Drop(e) ==
    /\ Leave(e, FALSE) /\ part' = Absent /\ fd' = Closed(e, {"part"})
    /\ UNCHANGED <<archive, installed>>
-----------------------------------------------------------------------------
(* WorkManager *)

Enqueue ==
    /\ ~ wanted /\ ~ installed /\ wanted' = TRUE
    /\ UNCHANGED <<files, stopped, pc, locals, fd, installed, faults>>

DoWork(e) ==
    /\ wanted /\ pc[e] = "idle" /\ Running \subseteq stopped
    /\ Goto(e, "check")
    /\ UNCHANGED <<files, work, locals, fd, installed, faults>>

\* the player cancels (forget), or the network constraint is lost for a while
Stop(forget) ==
    /\ wanted /\ Fault
    /\ stopped' = Running
    /\ wanted' = ~ forget
    /\ UNCHANGED <<files, pc, locals, fd, installed>>

Crash ==
    /\ Fault
    /\ pc' = [e \in Exec |-> "idle"] /\ stopped' = {}
    /\ offset' = [e \in Exec |-> 0] /\ total' = [e \in Exec |-> 0]
    /\ clean' = [e \in Exec |-> TRUE] /\ fd' = [e \in Exec |-> None]
    /\ UNCHANGED <<files, wanted, installed>>
-----------------------------------------------------------------------------
(* downloadRelease, up to the connection *)

\* fault: an archive that exists is not verified again
CheckExists(e) ==
    /\ pc[e] = "check"
    /\ Goto(e, IF archive # Absent THEN "ready" ELSE "prepare")
    /\ UNCHANGED <<files, work, locals, fd, installed, faults>>

Check(e) ==
    /\ pc[e] = "check"
    /\ IF archive = Release
       THEN /\ part' = Absent /\ fd' = Closed(e, {"part"}) /\ Goto(e, "ready")
       ELSE Goto(e, "prepare") /\ UNCHANGED <<part, fd>>
    /\ UNCHANGED <<archive, work, locals, installed, faults>>

\* fault: a complete partial is not verified
TooLong == part # Absent /\ Len(part) > Size

\* a partial that is too long, or complete and wrong, is not resumed
Hopeless == part # Absent /\ (Len(part) > Size \/ (Len(part) = Size /\ part # Release))

Prepare(e) ==
    /\ pc[e] = "prepare"
    /\ IF part = Absent \/ Hopeless
       THEN /\ part' = << >> /\ fd' = Closed(e, {"part"})
            /\ Goto(e, "connect") /\ UNCHANGED offset
       ELSE /\ offset' = [offset EXCEPT ![e] = Len(part)]
            /\ Goto(e, IF Len(part) = Size THEN "publish" ELSE "connect")
            /\ UNCHANGED <<part, fd>>
    /\ UNCHANGED <<archive, work, total, clean, installed, faults>>

\* 206 continues, 200 starts over; the rest is the network's or the server's no
Connect(e) ==
    /\ pc[e] = "connect"
    /\ \/ /\ \E o \in {0, offset[e]} : offset' = [offset EXCEPT ![e] = o]
          /\ Goto(e, "prefix")
          /\ UNCHANGED <<files, work, total, clean, fd, installed, faults>>
       \/ Fault /\ (Keep(e, TRUE) \/ Drop(e))
-----------------------------------------------------------------------------
(* transferResuming *)

\* the partial is as long as the resumed response assumes
Resumable(e) == part # Absent /\ (offset[e] = 0 \/ Len(part) = offset[e])

\* fault: the whole response to a range request is appended to the prefix
PrefixForgotten(e) ==
    /\ pc[e] = "prefix" /\ Resumable(e)
    /\ Goto(e, "open")
    /\ UNCHANGED <<files, work, locals, fd, installed, faults>>

\* isCancelled is only asked here when there is a prefix to hash
Prefix(e) ==
    /\ pc[e] = "prefix"
    /\ \/ /\ Resumable(e) /\ (offset[e] = 0 \/ e \notin stopped)
          /\ total' = [total EXCEPT ![e] = offset[e]]
          /\ clean' = [clean EXCEPT ![e] = \A i \in 1..offset[e] : part[i] = i]
          /\ Goto(e, "open")
          /\ UNCHANGED <<files, work, offset, fd, installed>>
       \/ /\ ~ Resumable(e) \/ (offset[e] # 0 /\ e \in stopped)
          /\ Keep(e, FALSE)
    /\ UNCHANGED faults

\* fault: the partial is truncated when it is resumed, too
OpenTruncating(e) ==
    /\ pc[e] = "open" /\ part # Absent
    /\ part' = << >> /\ fd' = [fd EXCEPT ![e] = "part"]
    /\ Goto(e, "loop")
    /\ UNCHANGED <<archive, work, locals, installed, faults>>

OpenOutput(e) ==
    /\ pc[e] = "open"
    /\ IF part = Absent THEN Keep(e, FALSE)
       ELSE /\ part' = IF offset[e] = 0 THEN << >> ELSE part
            /\ fd' = [fd EXCEPT ![e] = "part"]
            /\ Goto(e, "loop")
            /\ UNCHANGED <<archive, work, locals, installed>>
    /\ UNCHANGED faults

Loop(e) ==
    /\ pc[e] = "loop"
    /\ IF e \in stopped THEN Keep(e, FALSE)
       ELSE Goto(e, "read") /\ UNCHANGED <<files, work, locals, fd, installed>>
    /\ UNCHANGED faults

\* APPEND writes at the end; otherwise the stream has a position of its own
Written(file, e, chunk) ==
    LET at == total[e] + 1
    IN  IF offset[e] > 0 THEN Append(file, chunk)
        ELSE [i \in 1..(IF Len(file) < at THEN at ELSE Len(file)) |->
                IF i = at THEN chunk ELSE IF i <= Len(file) THEN file[i] ELSE Hole]

Receive(e, chunk) ==
    /\ total[e] < Size
    /\ part' = IF fd[e] = "part" THEN Written(part, e, chunk) ELSE part
    /\ archive' = IF fd[e] = "archive" THEN Written(archive, e, chunk) ELSE archive
    /\ total' = [total EXCEPT ![e] = @ + 1]
    /\ clean' = [clean EXCEPT ![e] = @ /\ chunk = total[e] + 1]
    /\ Goto(e, "loop")
    /\ UNCHANGED <<work, offset, fd, installed>>

EndOfInput(e) ==
    Goto(e, "digest") /\ UNCHANGED <<files, work, locals, fd, installed>>

\* a chunk or the end of the response; a bad chunk, an early end, one chunk too
\* many, the loss of the connection (again), a failed write
Read(e) ==
    /\ pc[e] = "read"
    /\ \/ Receive(e, total[e] + 1) /\ UNCHANGED faults
       \/ total[e] = Size /\ EndOfInput(e) /\ UNCHANGED faults
       \/ Fault /\ \/ Receive(e, Garbled) \/ EndOfInput(e)
                   \/ total[e] = Size /\ Drop(e)
                   \/ \E again \in BOOLEAN : Keep(e, again)

Digest(e) ==
    /\ pc[e] = "digest"
    /\ IF total[e] = Size /\ clean[e]
       THEN /\ Goto(e, "verify") /\ fd' = Closed(e, {})
            /\ UNCHANGED <<files, work, locals, installed>>
       ELSE Drop(e)
    /\ UNCHANGED faults
-----------------------------------------------------------------------------
(* downloadRelease, after the transfer, and the worker after it *)

Verify(e) ==
    /\ pc[e] = "verify"
    /\ IF part = Release
       THEN Goto(e, "publish") /\ UNCHANGED <<files, work, locals, fd, installed>>
       ELSE Drop(e)
    /\ UNCHANGED faults

\* the atomic move replaces the archive; open streams follow their files
Publish(e) ==
    /\ pc[e] = "publish"
    /\ IF part = Absent THEN Keep(e, FALSE)
       ELSE /\ archive' = part /\ part' = Absent
            /\ fd' = [x \in Exec |-> CASE fd[x] = "part" -> "archive"
                                       [] fd[x] = "archive" -> "orphan"
                                       [] OTHER -> fd[x]]
            /\ Goto(e, "ready")
            /\ UNCHANGED <<work, locals, installed>>
    /\ UNCHANGED faults

\* the pipeline verifies once more and installs; the worker deletes the archive
Install(e) ==
    /\ pc[e] = "ready"
    /\ \/ /\ archive = Release
          /\ archive' = Absent /\ installed' = TRUE
          /\ Leave(e, FALSE) /\ fd' = Closed(e, {"archive"})
          /\ UNCHANGED <<part, faults>>
       \/ (IF archive = Release THEN Fault ELSE UNCHANGED faults) /\ Keep(e, FALSE)
-----------------------------------------------------------------------------
Work(e) ==
    \/ Check(e) \/ Prepare(e) \/ Connect(e) \/ Prefix(e) \/ OpenOutput(e)
    \/ Loop(e) \/ Read(e) \/ Digest(e) \/ Verify(e) \/ Publish(e) \/ Install(e)

Next ==
    \/ \E e \in Exec : DoWork(e) \/ Work(e)
    \/ Enqueue \/ Crash
    \/ \E forget \in BOOLEAN : Stop(forget)

Spec == Init /\ [][Next]_vars

\* the player asks again, WorkManager runs a request, blocking calls time out
Fairness ==
    /\ WF_vars(Enqueue)
    /\ \A e \in Exec : WF_vars(DoWork(e)) /\ WF_vars(Work(e))
FairSpec == Spec /\ Fairness
-----------------------------------------------------------------------------
(***************************************************************************)
(* The file under the archive's name is the release, whole and unaltered   *)
(* (docs: publication "requires a complete streamed SHA-256 and byte-count *)
(* check followed by an atomic move").                                     *)
(***************************************************************************)
PublishedIsRelease == archive # Absent => archive = Release

(***************************************************************************)
(* The partial only ever holds a prefix of what the server sent: no resume *)
(* repeats, skips or misplaces a chunk.                                    *)
(***************************************************************************)
PartIsPrefix ==
    part # Absent => /\ Len(part) <= Size
                     /\ \A i \in 1..Len(part) : part[i] \in {i, Garbled}

(***************************************************************************)
(* Every byte a transfer has reported is in the partial, so that a loss, a *)
(* cancellation or a crash at any point leaves it for the next transfer to *)
(* resume (docs: "Network loss and cancellation preserve the partial").    *)
(***************************************************************************)
ReportedIsKept ==
    \A e \in Exec : pc[e] \in {"loop", "read"} /\ total[e] > 0 =>
        part # Absent /\ Len(part) >= total[e]

Alone == \A d, e \in Exec : d # e => "idle" \in {pc[d], pc[e]}

(***************************************************************************)
(* As long as no stopped execution is still at work beside its successor,  *)
(* through any number of losses, resumes and crashes, the three hold.      *)
(***************************************************************************)
SoundWhenAlone == []Alone => [](PublishedIsRelease /\ PartIsPrefix /\ ReportedIsKept)

Lost(e) == pc[e] = "read" /\ Keep(e, TRUE)

(***************************************************************************)
(* What the execution at work has reported is kept when its connection is  *)
(* lost, whatever stopped ones do.                                         *)
(***************************************************************************)
LossKeepsPartial ==
    [][\A e \in Exec \ stopped : Lost(e) /\ total[e] > 0 =>
            part # Absent /\ Len(part) >= total[e]]_vars

(***************************************************************************)
(* No sequence of losses, bad data, stops and crashes leaves files behind  *)
(* that defeat every later attempt.                                        *)
(***************************************************************************)
EventuallyInstalled == <>installed
=============================================================================
