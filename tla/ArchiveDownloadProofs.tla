----------------------- MODULE ArchiveDownloadProofs -----------------------
(* What the resumable download keeps, for an archive of any size, any       *)
(* number of executions and of faults.                                      *)
EXTENDS ArchiveDownload, SequenceTheorems, TLAPS

\* A stream that refers to a name refers to a file.
StreamsOpen ==
    \A e \in Exec : /\ fd[e] = "part" => part # Absent
                    /\ fd[e] = "archive" => archive # Absent

Typed == TypeOK /\ StreamsOpen

Chunk == 1..Size \cup {Garbled, Hole}

\* A function on 1..n is a sequence of length n.
LEMMA FunctionsAreSequences ==
  ASSUME NEW S, NEW n \in Nat, NEW f \in [1..n -> S]
  PROVE  f \in Seq(S) /\ Len(f) = n
  OBVIOUS

LEMMA FilesAreFiles ==
  /\ << >> \in File /\ << >> # Absent /\ Len(<< >>) = 0
  /\ Release \in File /\ Release # Absent /\ Len(Release) = Size
  /\ \A i \in 1..Size : Release[i] = i
<1>1. << >> \in File /\ Len(<< >>) = 0
  BY DEF File
<1>2. Release \in [1..Size -> Chunk] /\ Size \in Nat /\ \A i \in 1..Size : Release[i] = i
  BY DownloadAssumption DEF Release, Chunk
<1>3. Release \in Seq(Chunk) /\ Len(Release) = Size
  BY <1>2, FunctionsAreSequences
<1> QED
  BY <1>1, <1>2, <1>3, AbsentAssumption DEF File, Chunk

\* A write lengthens the file by the chunk or replaces one of its chunks, and
\* leaves holes between.
LEMMA WrittenIsFile ==
  ASSUME NEW file \in File, NEW e \in Exec, NEW chunk \in Chunk,
         offset \in [Exec -> 0..Size], total \in [Exec -> 0..Size]
  PROVE  Written(file, e, chunk) \in File /\ Written(file, e, chunk) # Absent
<1> DEFINE at == total[e] + 1
           long == IF Len(file) < at THEN at ELSE Len(file)
           over == [i \in 1..long |-> IF i = at THEN chunk ELSE IF i <= Len(file) THEN file[i] ELSE Hole]
<1>1. file \in Seq(Chunk) /\ Len(file) \in Nat /\ \A i \in 1..Len(file) : file[i] \in Chunk
  BY DEF File, Chunk
<1>2. at \in Nat /\ long \in Nat
  BY <1>1, DownloadAssumption
<1>3. over \in [1..long -> Chunk]
  BY <1>1, <1>2 DEF Chunk
<1>4. over \in Seq(Chunk)
  <2> HIDE DEF over, long
  <2> QED
    BY <1>2, <1>3, FunctionsAreSequences
<1>5. Append(file, chunk) \in Seq(Chunk)
  BY <1>1
<1>6. Written(file, e, chunk) \in {Append(file, chunk), over}
  BY DEF Written
<1> QED
  BY <1>4, <1>5, <1>6, AbsentAssumption DEF File, Chunk

LEMMA DownloadInit == Init => Typed
<1> SUFFICES ASSUME Init PROVE Typed
  OBVIOUS
<1>1. \A e \in Exec : pc[e] = "idle" /\ fd[e] = None
  BY DEF Init
<1>2. StreamsOpen
  BY <1>1, AbsentAssumption DEF StreamsOpen
<1>3. pc \in [Exec -> Step] /\ fd \in [Exec -> {"part", "archive", "orphan", None}]
  BY DEF Init, Step
<1>4. offset \in [Exec -> 0..Size] /\ total \in [Exec -> 0..Size] /\ clean \in [Exec -> BOOLEAN]
      /\ faults \in 0..MaxFaults
  BY DownloadAssumption DEF Init
<1> QED
  BY <1>1, <1>2, <1>3, <1>4 DEF Init, TypeOK, Typed

\* Closing a stream, and unlinking what others are open on.
LEMMA ClosedTyped ==
  ASSUME Typed, NEW e \in Exec, NEW unlinked \in SUBSET {"part", "archive"}
  PROVE  /\ Closed(e, unlinked) \in [Exec -> {"part", "archive", "orphan", None}]
         /\ \A x \in Exec : /\ Closed(e, unlinked)[x] # None <=> x # e /\ fd[x] # None
                            /\ Closed(e, unlinked)[x] \in unlinked => Closed(e, unlinked)[x] \in {None, "orphan"}
                            /\ Closed(e, unlinked)[x] \in {None, "orphan", fd[x]}
<1>1. fd \in [Exec -> {"part", "archive", "orphan", None}]
  BY DEF Typed, TypeOK
<1>2. \A x \in Exec : Closed(e, unlinked)[x] = IF x = e THEN None
                                              ELSE IF fd[x] \in unlinked THEN "orphan" ELSE fd[x]
  BY DEF Closed
<1>3. Closed(e, unlinked) \in [Exec -> {"part", "archive", "orphan", None}]
  BY <1>1 DEF Closed
<1>4. ASSUME NEW x \in Exec
      PROVE  /\ Closed(e, unlinked)[x] # None <=> x # e /\ fd[x] # None
             /\ Closed(e, unlinked)[x] \in unlinked => Closed(e, unlinked)[x] \in {None, "orphan"}
             /\ Closed(e, unlinked)[x] \in {None, "orphan", fd[x]}
  <2>1. CASE x = e
    BY <1>2, <2>1
  <2>2. CASE x # e /\ fd[x] \in unlinked /\ fd[x] # None
    BY <1>2, <2>2, AbsentAssumption
  <2>3. CASE x # e /\ fd[x] \notin unlinked
    BY <1>2, <2>3
  <2> QED
    BY <2>1, <2>2, <2>3, AbsentAssumption
<1> QED
  BY <1>3, <1>4

Transfer == {"loop", "read", "digest"}

\* A return resets what the execution remembered.
LEMMA LeaveTyped ==
  ASSUME Typed, NEW e \in Exec, NEW again \in BOOLEAN, Leave(e, again),
         NEW unlinked \in SUBSET {"part", "archive"}, fd' = Closed(e, unlinked)
  PROVE  /\ wanted' \in BOOLEAN
         /\ stopped' \subseteq Running'
         /\ pc' \in [Exec -> Step]
         /\ offset' \in [Exec -> 0..Size] /\ total' \in [Exec -> 0..Size]
         /\ clean' \in [Exec -> BOOLEAN]
         /\ fd' \in [Exec -> {"part", "archive", "orphan", None}]
         /\ \A x \in Exec : fd'[x] # None <=> pc'[x] \in Transfer
<1>1. pc' = [pc EXCEPT ![e] = "idle"] /\ stopped' = stopped \ {e}
  BY DEF Leave, Goto
<1>2. stopped' \subseteq Running'
  BY <1>1 DEF Typed, TypeOK, Running
<1>3. \A x \in Exec : fd'[x] # None <=> pc'[x] \in Transfer
  BY <1>1, ClosedTyped DEF Typed, TypeOK, Transfer
<1>4. offset' \in [Exec -> 0..Size] /\ total' \in [Exec -> 0..Size]
  BY DownloadAssumption DEF Typed, TypeOK, Leave
<1>6. wanted' \in BOOLEAN
  BY DEF Typed, TypeOK, Leave
<1>7. clean' \in [Exec -> BOOLEAN]
  BY DEF Typed, TypeOK, Leave
<1>5. pc' \in [Exec -> Step]
  BY <1>1 DEF Typed, TypeOK, Step
<1> QED
  BY <1>2, <1>3, <1>4, <1>5, <1>6, <1>7, ClosedTyped

LEMMA KeepTyped ==
  ASSUME Typed, NEW e \in Exec, NEW again \in BOOLEAN, Keep(e, again), faults' \in 0..MaxFaults
  PROVE  Typed'
<1>1. fd' = Closed(e, {}) /\ Leave(e, again) /\ UNCHANGED <<archive, part, installed>>
  BY DEF Keep, files
<1>2. \A x \in Exec : fd'[x] \in {None, "orphan", fd[x]}
  BY <1>1, ClosedTyped
<1>3. StreamsOpen'
  BY <1>1, <1>2, AbsentAssumption DEF Typed, StreamsOpen
<1> QED
  BY <1>1, <1>3, LeaveTyped DEF Typed, TypeOK, Transfer

LEMMA DropTyped ==
  ASSUME Typed, NEW e \in Exec, Drop(e), faults' \in 0..MaxFaults
  PROVE  Typed'
<1>1. fd' = Closed(e, {"part"}) /\ Leave(e, FALSE) /\ part' = Absent /\ UNCHANGED <<archive, installed>>
  BY DEF Drop
<1>2. \A x \in Exec : fd'[x] \in {None, "orphan", fd[x]} /\ fd'[x] # "part"
  BY <1>1, ClosedTyped, AbsentAssumption
<1>3. StreamsOpen'
  BY <1>1, <1>2, AbsentAssumption DEF Typed, StreamsOpen
<1> QED
  BY <1>1, <1>3, LeaveTyped DEF Typed, TypeOK, Transfer

\* Going on to another step, as long as the stream is open where it should be.
LEMMA GotoTyped ==
  ASSUME Typed, NEW e \in Exec, NEW s \in Step, Goto(e, s), s # "idle",
         UNCHANGED <<wanted, stopped, installed>>, faults' \in 0..MaxFaults,
         archive' \in File \cup {Absent}, part' \in File \cup {Absent},
         offset' \in [Exec -> 0..Size], total' \in [Exec -> 0..Size],
         clean' \in [Exec -> BOOLEAN],
         fd' \in [Exec -> {"part", "archive", "orphan", None}],
         fd'[e] # None <=> s \in Transfer,
         \A x \in Exec \ {e} : fd'[x] # None <=> fd[x] # None,
         StreamsOpen'
  PROVE  Typed'
<1>1. pc' = [pc EXCEPT ![e] = s]
  BY DEF Goto
<1>2. stopped' \subseteq Running'
  BY <1>1 DEF Typed, TypeOK, Running
<1>3. \A x \in Exec : fd'[x] # None <=> pc'[x] \in Transfer
  BY <1>1 DEF Typed, TypeOK, Transfer
<1> QED
  BY <1>1, <1>2, <1>3 DEF Typed, TypeOK, Transfer

\* Every execution that runs keeps the files files, and a stream is open
\* exactly while a transfer writes.
LEMMA WorkTyped ==
  ASSUME Typed, NEW e \in Exec, Work(e)
  PROVE  Typed'
<1> USE DEF files, work, locals
<1>1. UNCHANGED faults => faults' \in 0..MaxFaults
  BY DEF Typed, TypeOK
<1>2. Fault => faults' \in 0..MaxFaults
  BY DownloadAssumption DEF Typed, TypeOK, Fault
<1>3. {"check", "prepare", "connect", "prefix", "open", "loop", "read", "digest", "verify", "publish",
       "ready"} \subseteq Step \ {"idle"}
  BY DEF Step
<1>4. UNCHANGED <<archive, part, fd>> => StreamsOpen'
  BY DEF Typed, StreamsOpen
<1>5. CASE Check(e)
  <2>1. CASE archive = Release
    <3>1. /\ fd' = Closed(e, {"part"}) /\ part' = Absent /\ Goto(e, "ready")
          /\ UNCHANGED <<archive, wanted, stopped, offset, total, clean, installed, faults>>
      BY <1>5, <2>1 DEF Check
    <3>2. \A x \in Exec : /\ fd'[x] \in {None, "orphan", fd[x]} /\ fd'[x] # "part"
                          /\ fd'[x] # None <=> x # e /\ fd[x] # None
      BY <3>1, ClosedTyped, AbsentAssumption
    <3>3. StreamsOpen'
      BY <3>1, <3>2, AbsentAssumption DEF Typed, StreamsOpen
    <3> QED
      BY <1>1, <1>3, <3>1, <3>2, <3>3, ClosedTyped, GotoTyped DEF Typed, TypeOK, Transfer
  <2>2. CASE archive # Release
    BY <1>1, <1>3, <1>4, <1>5, <2>2, GotoTyped DEF Check, Typed, TypeOK, Transfer
  <2> QED
    BY <2>1, <2>2
<1>6. CASE Prepare(e)
  <2>1. CASE part = Absent \/ Hopeless
    <3>1. /\ fd' = Closed(e, {"part"}) /\ part' = << >> /\ Goto(e, "connect")
          /\ UNCHANGED <<archive, wanted, stopped, offset, total, clean, installed, faults>>
      BY <1>6, <2>1 DEF Prepare
    <3>2. \A x \in Exec : /\ fd'[x] \in {None, "orphan", fd[x]} /\ fd'[x] # "part"
                          /\ fd'[x] # None <=> x # e /\ fd[x] # None
      BY <3>1, ClosedTyped, AbsentAssumption
    <3>3. StreamsOpen'
      BY <3>1, <3>2, AbsentAssumption DEF Typed, StreamsOpen
    <3> QED
      BY <1>1, <1>3, <3>1, <3>2, <3>3, ClosedTyped, GotoTyped, FilesAreFiles DEF Typed, TypeOK, Transfer
  <2>2. CASE ~(part = Absent \/ Hopeless)
    <3>1. part \in File /\ Len(part) \in 0..Size
      BY <2>2, DownloadAssumption DEF Typed, TypeOK, File, Hopeless
    <3>2. /\ offset' = [offset EXCEPT ![e] = Len(part)]
          /\ UNCHANGED <<archive, part, fd, wanted, stopped, total, clean, installed, faults>>
          /\ pc[e] = "prepare"
      BY <1>6, <2>2 DEF Prepare
    <3>3. offset' \in [Exec -> 0..Size]
      BY <3>1, <3>2 DEF Typed, TypeOK
    <3>4. PICK s \in {"publish", "connect"} : Goto(e, s)
      BY <1>6, <2>2 DEF Prepare
    <3> QED
      BY <1>1, <1>3, <1>4, <3>2, <3>3, <3>4, GotoTyped DEF Typed, TypeOK, Transfer
  <2> QED
    BY <2>1, <2>2
<1>7. CASE Connect(e)
  <2>1. CASE Keep(e, TRUE) /\ Fault
    BY <1>2, <2>1, KeepTyped
  <2>2. CASE Drop(e) /\ Fault
    BY <1>2, <2>2, DropTyped
  <2>3. CASE ~(Fault /\ (Keep(e, TRUE) \/ Drop(e)))
    <3>1. /\ Goto(e, "prefix")
          /\ UNCHANGED <<archive, part, fd, wanted, stopped, total, clean, installed, faults>>
          /\ pc[e] = "connect"
      BY <1>7, <2>3 DEF Connect
    <3>2. offset' \in [Exec -> 0..Size]
      <4>1. PICK o \in {0, offset[e]} : offset' = [offset EXCEPT ![e] = o]
        BY <1>7, <2>3 DEF Connect
      <4>2. o \in 0..Size
        BY DownloadAssumption DEF Typed, TypeOK
      <4> QED
        BY <4>1, <4>2 DEF Typed, TypeOK
    <3> QED
      BY <1>1, <1>3, <1>4, <3>1, <3>2, GotoTyped DEF Typed, TypeOK, Transfer
  <2> QED
    BY <2>1, <2>2, <2>3
<1>8. CASE Prefix(e)
  <2>1. CASE Keep(e, FALSE)
    BY <1>1, <1>8, <2>1, KeepTyped DEF Prefix
  <2>2. CASE ~Keep(e, FALSE)
    <3>1. /\ Goto(e, "open")
          /\ UNCHANGED <<archive, part, fd, wanted, stopped, offset, installed, faults>>
          /\ pc[e] = "prefix"
          /\ total' = [total EXCEPT ![e] = offset[e]]
          /\ clean' = [clean EXCEPT ![e] = \A i \in 1..offset[e] : part[i] = i]
      BY <1>8, <2>2 DEF Prefix
    <3>2. total' \in [Exec -> 0..Size]
      BY <3>1 DEF Typed, TypeOK
    <3>3. clean' \in [Exec -> BOOLEAN]
      <4> DEFINE c == \A i \in 1..offset[e] : part[i] = i
      <4>1. c \in BOOLEAN
        OBVIOUS
      <4>2. clean' = [clean EXCEPT ![e] = c]
        BY <3>1
      <4> QED
        BY <4>1, <4>2 DEF Typed, TypeOK
    <3> QED
      BY <1>1, <1>3, <1>4, <3>1, <3>2, <3>3, GotoTyped DEF Typed, TypeOK, Transfer
  <2> QED
    BY <2>1, <2>2
<1>9. CASE OpenOutput(e)
  <2>1. CASE part = Absent
    BY <1>1, <1>9, <2>1, KeepTyped DEF OpenOutput
  <2>2. CASE part # Absent
    <3>1. /\ Goto(e, "loop") /\ fd' = [fd EXCEPT ![e] = "part"]
          /\ part' \in {<< >>, part}
          /\ UNCHANGED <<archive, wanted, stopped, offset, total, clean, installed, faults>>
          /\ pc[e] = "open"
      BY <1>9, <2>2 DEF OpenOutput
    <3>2. fd' \in [Exec -> {"part", "archive", "orphan", None}]
          /\ fd'[e] = "part" /\ \A x \in Exec \ {e} : fd'[x] = fd[x]
      BY <3>1 DEF Typed, TypeOK
    <3>3. part' \in File /\ part' # Absent
      BY <2>2, <3>1, FilesAreFiles DEF Typed, TypeOK
    <3>4. StreamsOpen'
      BY <3>1, <3>2, <3>3 DEF Typed, StreamsOpen
    <3> QED
      BY <1>1, <1>3, <3>1, <3>2, <3>3, <3>4, GotoTyped, AbsentAssumption DEF Typed, TypeOK, Transfer
  <2> QED
    BY <2>1, <2>2
<1>10. CASE Loop(e)
  <2>1. CASE e \in stopped
    BY <1>1, <1>10, <2>1, KeepTyped DEF Loop
  <2>2. CASE e \notin stopped
    BY <1>1, <1>3, <1>4, <1>10, <2>2, GotoTyped DEF Loop, Typed, TypeOK, Transfer
  <2> QED
    BY <2>1, <2>2
<1>11. CASE Read(e)
  <2>1. pc[e] = "read" /\ faults' \in 0..MaxFaults
    BY <1>1, <1>2, <1>11 DEF Read
  <2>2. ASSUME NEW chunk \in Chunk, Receive(e, chunk)
        PROVE  Typed'
    <3>1. /\ Goto(e, "loop") /\ UNCHANGED <<fd, wanted, stopped, offset, installed>>
          /\ total' = [total EXCEPT ![e] = @ + 1] /\ total[e] < Size
          /\ clean' = [clean EXCEPT ![e] = @ /\ chunk = total[e] + 1]
          /\ part' = IF fd[e] = "part" THEN Written(part, e, chunk) ELSE part
          /\ archive' = IF fd[e] = "archive" THEN Written(archive, e, chunk) ELSE archive
      BY <2>2 DEF Receive
    <3>2. /\ fd[e] = "part" => part \in File
          /\ fd[e] = "archive" => archive \in File
      BY DEF Typed, TypeOK, StreamsOpen
    <3>3. /\ fd[e] = "part" => part' \in File /\ part' # Absent
          /\ fd[e] = "archive" => archive' \in File /\ archive' # Absent
          /\ fd[e] # "part" => part' = part
          /\ fd[e] # "archive" => archive' = archive
      BY <3>1, <3>2, WrittenIsFile DEF Typed, TypeOK
    <3>4. StreamsOpen' /\ part' \in File \cup {Absent} /\ archive' \in File \cup {Absent}
      BY <3>1, <3>3 DEF Typed, TypeOK, StreamsOpen
    <3>5. total' \in [Exec -> 0..Size]
      BY <3>1, DownloadAssumption DEF Typed, TypeOK
    <3>6. clean' \in [Exec -> BOOLEAN]
      <4>1. (clean[e] /\ chunk = total[e] + 1) \in BOOLEAN
        OBVIOUS
      <4>2. clean' = [clean EXCEPT ![e] = clean[e] /\ chunk = total[e] + 1]
        BY <3>1
      <4> QED
        BY <4>1, <4>2 DEF Typed, TypeOK
    <3> QED
      BY <1>3, <2>1, <3>1, <3>4, <3>5, <3>6, GotoTyped DEF Typed, TypeOK, Transfer
  <2>3. CASE \/ Receive(e, total[e] + 1) \/ Receive(e, Garbled)
    <3>1. total[e] < Size
      BY <2>3 DEF Receive
    <3>2. total[e] + 1 \in Chunk /\ Garbled \in Chunk
      BY <3>1, DownloadAssumption DEF Typed, TypeOK, Chunk
    <3> QED
      BY <2>2, <2>3, <3>2
  <2>4. CASE EndOfInput(e)
    BY <1>3, <1>4, <2>1, <2>4, GotoTyped DEF EndOfInput, Typed, TypeOK, Transfer
  <2>5. CASE Drop(e)
    BY <2>1, <2>5, DropTyped
  <2>6. CASE \E again \in BOOLEAN : Keep(e, again)
    BY <2>1, <2>6, KeepTyped
  <2> QED
    BY <1>11, <2>3, <2>4, <2>5, <2>6 DEF Read
<1>12. CASE Digest(e)
  <2>1. CASE total[e] = Size /\ clean[e]
    <3>1. /\ Goto(e, "verify") /\ fd' = Closed(e, {})
          /\ UNCHANGED <<archive, part, wanted, stopped, offset, total, clean, installed, faults>>
      BY <1>12, <2>1 DEF Digest
    <3>2. \A x \in Exec : fd'[x] \in {None, "orphan", fd[x]} /\ (fd'[x] # None <=> x # e /\ fd[x] # None)
      BY <3>1, ClosedTyped
    <3>3. StreamsOpen'
      BY <3>1, <3>2, AbsentAssumption DEF Typed, StreamsOpen
    <3> QED
      BY <1>1, <1>3, <3>1, <3>2, <3>3, ClosedTyped, GotoTyped DEF Typed, TypeOK, Transfer
  <2>2. CASE ~(total[e] = Size /\ clean[e])
    BY <1>1, <1>12, <2>2, DropTyped DEF Digest
  <2> QED
    BY <2>1, <2>2
<1>13. CASE Verify(e)
  <2>1. CASE part = Release
    BY <1>1, <1>3, <1>4, <1>13, <2>1, GotoTyped DEF Verify, Typed, TypeOK, Transfer
  <2>2. CASE part # Release
    BY <1>1, <1>13, <2>2, DropTyped DEF Verify
  <2> QED
    BY <2>1, <2>2
<1>14. CASE Publish(e)
  <2>1. CASE part = Absent
    BY <1>1, <1>14, <2>1, KeepTyped DEF Publish
  <2>2. CASE part # Absent
    <3>1. /\ Goto(e, "ready") /\ archive' = part /\ part' = Absent /\ pc[e] = "publish"
          /\ UNCHANGED <<wanted, stopped, offset, total, clean, installed, faults>>
          /\ fd' = [x \in Exec |-> CASE fd[x] = "part" -> "archive"
                                     [] fd[x] = "archive" -> "orphan"
                                     [] OTHER -> fd[x]]
      BY <1>14, <2>2 DEF Publish
    <3>2. \A x \in Exec : fd[x] \in {"part", "archive", "orphan", None}
      BY DEF Typed, TypeOK
    <3>3. \A x \in Exec : fd'[x] \in {"archive", "orphan", None} /\ (fd'[x] # None <=> fd[x] # None)
      BY <3>1, <3>2, AbsentAssumption
    <3>4. fd' \in [Exec -> {"part", "archive", "orphan", None}]
      BY <3>1, <3>3
    <3>5. StreamsOpen'
      BY <2>2, <3>1, <3>3, AbsentAssumption DEF StreamsOpen
    <3> QED
      BY <1>1, <1>3, <2>2, <3>1, <3>3, <3>4, <3>5, GotoTyped DEF Typed, TypeOK, Transfer
  <2> QED
    BY <2>1, <2>2
<1>15. CASE Install(e)
  <2>1. CASE Keep(e, FALSE) /\ faults' \in 0..MaxFaults
    BY <2>1, KeepTyped
  <2>2. CASE ~(Keep(e, FALSE) /\ faults' \in 0..MaxFaults)
    <3>1. /\ archive' = Absent /\ installed' = TRUE /\ Leave(e, FALSE) /\ fd' = Closed(e, {"archive"})
          /\ UNCHANGED <<part, faults>>
      BY <1>1, <1>2, <1>15, <2>2 DEF Install
    <3>2. \A x \in Exec : fd'[x] \in {None, "orphan", fd[x]} /\ fd'[x] # "archive"
      BY <3>1, ClosedTyped, AbsentAssumption
    <3>3. StreamsOpen'
      BY <3>1, <3>2, AbsentAssumption DEF Typed, StreamsOpen
    <3> QED
      BY <1>1, <3>1, <3>3, LeaveTyped DEF Typed, TypeOK, Transfer
  <2> QED
    BY <2>1, <2>2
<1> QED
  BY <1>5, <1>6, <1>7, <1>8, <1>9, <1>10, <1>11, <1>12, <1>13, <1>14, <1>15 DEF Work

LEMMA TypedStep ==
  ASSUME Typed, [Next]_vars
  PROVE  Typed'
<1> USE DEF files, work, locals
<1>1. CASE \E e \in Exec : DoWork(e)
  <2>1. PICK e \in Exec : DoWork(e)
    BY <1>1
  <2>2. /\ Goto(e, "check") /\ pc[e] = "idle" /\ "check" \in Step \ {"idle"}
        /\ UNCHANGED <<archive, part, wanted, stopped, offset, total, clean, fd, installed, faults>>
    BY <2>1 DEF DoWork, Step
  <2>3. StreamsOpen'
    BY <2>2 DEF Typed, StreamsOpen
  <2> QED
    BY <2>2, <2>3, GotoTyped DEF Typed, TypeOK, Transfer
<1>2. CASE \E e \in Exec : Work(e)
  BY <1>2, WorkTyped
<1>3. CASE Enqueue
  BY <1>3 DEF Enqueue, Typed, TypeOK, StreamsOpen, Running
<1>4. CASE Crash
  <2>1. \A e \in Exec : pc'[e] = "idle" /\ fd'[e] = None
    BY <1>4 DEF Crash
  <2>2. StreamsOpen' /\ stopped' = {}
    BY <1>4, <2>1, AbsentAssumption DEF StreamsOpen, Crash
  <2>3. /\ pc' \in [Exec -> Step] /\ fd' \in [Exec -> {"part", "archive", "orphan", None}]
        /\ offset' \in [Exec -> 0..Size] /\ total' \in [Exec -> 0..Size]
        /\ clean' \in [Exec -> BOOLEAN] /\ faults' \in 0..MaxFaults
    BY <1>4, DownloadAssumption DEF Crash, Fault, Typed, TypeOK, Step
  <2> QED
    BY <1>4, <2>1, <2>2, <2>3 DEF Typed, TypeOK, Crash
<1>5. CASE \E forget \in BOOLEAN : Stop(forget)
  <2>1. PICK forget \in BOOLEAN : Stop(forget)
    BY <1>5
  <2>2. /\ stopped' = Running /\ UNCHANGED <<archive, part, pc, offset, total, clean, fd, installed>>
        /\ faults' \in 0..MaxFaults /\ wanted' \in BOOLEAN
    BY <2>1, DownloadAssumption DEF Stop, Fault, Typed, TypeOK
  <2> QED
    BY <2>2 DEF Typed, TypeOK, StreamsOpen, Running
<1>6. CASE UNCHANGED vars
  BY <1>6 DEF vars, Typed, TypeOK, StreamsOpen, Running
<1> QED
  BY <1>1, <1>2, <1>3, <1>4, <1>5, <1>6 DEF Next

\* The files, the streams and what each execution remembers stay well typed,
\* also beside stopped executions that are still at work.
THEOREM DownloadTyped == Spec => []TypeOK
<1>1. Typed => TypeOK
  BY DEF Typed
<1> QED
  BY <1>1, DownloadInit, TypedStep, PTL DEF Spec

(* ------------------- no execution beside a stopped one ----------------- *)

\* What an execution that is alone knows of the partial file at each step: it
\* writes at the end of it, and publishes nothing but the release.
Knows(e) ==
    /\ pc[e] = "open" =>
          part # Absent /\ total[e] = offset[e] /\ (offset[e] = 0 \/ Len(part) = offset[e])
    /\ pc[e] \in Transfer => fd[e] = "part" /\ Len(part) = total[e]
    /\ pc[e] = "publish" => part = Release

DownloadInv ==
    /\ Typed
    /\ PublishedIsRelease
    /\ PartIsPrefix
    /\ \A e \in Exec : Knows(e)

\* A write of a transfer at the end of the file only lengthens it.
LEMMA WrittenAtEnd ==
  ASSUME NEW file \in File, NEW e \in Exec, NEW chunk \in Chunk,
         offset \in [Exec -> 0..Size], total \in [Exec -> 0..Size], Len(file) = total[e]
  PROVE  /\ Len(Written(file, e, chunk)) = total[e] + 1
         /\ \A i \in 1..total[e] : Written(file, e, chunk)[i] = file[i]
         /\ Written(file, e, chunk)[total[e] + 1] = chunk
<1> DEFINE at == total[e] + 1
           over == [i \in 1..at |-> IF i = at THEN chunk ELSE IF i <= Len(file) THEN file[i] ELSE Hole]
<1>1. file \in Seq(Chunk) /\ Len(file) \in Nat /\ \A i \in 1..Len(file) : file[i] \in Chunk
  BY DEF File, Chunk
<1>2. total[e] \in Nat /\ at \in Nat /\ Len(file) < at
  BY DownloadAssumption
<1>3. CASE offset[e] > 0
  <2>1. Written(file, e, chunk) = Append(file, chunk)
    BY <1>3 DEF Written
  <2> QED
    BY <1>1, <1>2, <2>1
<1>4. CASE ~(offset[e] > 0)
  <2>1. Written(file, e, chunk) = over
    BY <1>2, <1>4 DEF Written
  <2>2. over \in [1..at -> Chunk]
    BY <1>1, <1>2
  <2>3. Len(over) = at
    <3> HIDE DEF over, at
    <3> QED
      BY <1>2, <2>2, FunctionsAreSequences
  <2> QED
    BY <1>1, <1>2, <2>1, <2>3
<1> QED
  BY <1>3, <1>4

LEMMA DownloadSoundInit == Init => DownloadInv
<1> SUFFICES ASSUME Init PROVE DownloadInv
  OBVIOUS
<1>1. \A e \in Exec : pc[e] = "idle"
  BY DEF Init
<1>2. \A e \in Exec : Knows(e)
  BY <1>1 DEF Knows, Transfer
<1> QED
  BY <1>2, DownloadInit DEF Init, DownloadInv, PublishedIsRelease, PartIsPrefix

\* The others are idle while one that is alone works.
LEMMA OthersIdle ==
  ASSUME DownloadInv, Alone, NEW e \in Exec, Work(e)
  PROVE  \A x \in Exec \ {e} : Knows(x)'
<1>1. pc[e] # "idle"
  BY DEF Work, Check, Prepare, Connect, Prefix, OpenOutput, Loop, Read, Digest, Verify, Publish, Install
<1>2. \A x \in Exec \ {e} : pc[x] = "idle"
  BY <1>1 DEF Alone
<1>3. \E s : pc' = [pc EXCEPT ![e] = s]
  BY DEF Work, Check, Prepare, Connect, Prefix, OpenOutput, Loop, Read, Digest, Verify, Publish, Install,
    Keep, Drop, Leave, Receive, EndOfInput, Goto
<1>4. \A x \in Exec \ {e} : pc'[x] = "idle"
  BY <1>2, <1>3 DEF DownloadInv, Typed, TypeOK
<1> QED
  BY <1>4 DEF Knows, Transfer

\* A return leaves the partial as it is, or removes it.
LEMMA LeavingKeeps ==
  ASSUME DownloadInv, NEW e \in Exec, NEW again \in BOOLEAN, Keep(e, again) \/ Drop(e)
  PROVE  PublishedIsRelease' /\ PartIsPrefix' /\ Knows(e)'
<1>1. archive' = archive /\ part' \in {part, Absent}
  BY DEF Keep, Drop, files
<1>2. pc'[e] = "idle"
  BY DEF Keep, Drop, Leave, Goto, DownloadInv, Typed, TypeOK
<1> QED
  BY <1>1, <1>2 DEF DownloadInv, PublishedIsRelease, PartIsPrefix, Knows, Transfer

LEMMA WorkSound ==
  ASSUME DownloadInv, Alone, NEW e \in Exec, Work(e)
  PROVE  PublishedIsRelease' /\ PartIsPrefix' /\ Knows(e)'
<1> USE DEF files, work, locals
<1>1. pc \in [Exec -> Step] /\ offset \in [Exec -> 0..Size] /\ total \in [Exec -> 0..Size]
      /\ fd \in [Exec -> {"part", "archive", "orphan", None}]
  BY DEF DownloadInv, Typed, TypeOK
<1>2. UNCHANGED <<archive, part>> => PublishedIsRelease' /\ PartIsPrefix'
  BY DEF DownloadInv, PublishedIsRelease, PartIsPrefix
<1>3. CASE (\E again \in BOOLEAN : Keep(e, again)) \/ Drop(e)
  BY <1>3, LeavingKeeps
<1>4. CASE Check(e)
  <2>1. archive' = archive /\ part' \in {part, Absent} /\ pc'[e] \in {"ready", "prepare"}
    BY <1>1, <1>4 DEF Check, Goto
  <2> QED
    BY <2>1 DEF DownloadInv, PublishedIsRelease, PartIsPrefix, Knows, Transfer
<1>5. CASE Prepare(e)
  <2>1. CASE part = Absent \/ Hopeless
    <3>1. archive' = archive /\ part' = << >> /\ pc'[e] = "connect"
      BY <1>1, <1>5, <2>1 DEF Prepare, Goto
    <3> QED
      BY <3>1, DownloadAssumption DEF DownloadInv, PublishedIsRelease, PartIsPrefix, Knows, Transfer
  <2>2. CASE ~(part = Absent \/ Hopeless)
    <3>1. UNCHANGED <<archive, part>> /\ pc'[e] \in {"publish", "connect"}
          /\ (pc'[e] = "publish" => Len(part) = Size)
      BY <1>1, <1>5, <2>2 DEF Prepare, Goto
    <3>2. Len(part) = Size => part = Release
      BY <2>2 DEF Hopeless
    <3> QED
      BY <1>2, <3>1, <3>2 DEF Knows, Transfer
  <2> QED
    BY <2>1, <2>2
<1>6. CASE Connect(e) /\ pc'[e] = "prefix" /\ UNCHANGED <<archive, part>>
  BY <1>2, <1>6 DEF Knows, Transfer
<1>7. CASE Prefix(e) /\ ~Keep(e, FALSE)
  <2>1. /\ Resumable(e) /\ pc'[e] = "open" /\ total'[e] = offset[e]
        /\ UNCHANGED <<archive, part, offset>>
    BY <1>1, <1>7 DEF Prefix, Goto
  <2> QED
    BY <1>2, <2>1 DEF Knows, Transfer, Resumable
<1>8. CASE OpenOutput(e) /\ ~Keep(e, FALSE)
  <2>1. /\ part # Absent /\ pc[e] = "open" /\ pc'[e] = "loop" /\ fd'[e] = "part"
        /\ UNCHANGED <<archive, offset, total>>
        /\ part' = IF offset[e] = 0 THEN << >> ELSE part
    BY <1>1, <1>8 DEF OpenOutput, Goto
  <2>2. Len(part') = total[e]
    BY <2>1, FilesAreFiles DEF DownloadInv, Knows
  <2>3. PartIsPrefix'
    BY <2>1, DownloadAssumption DEF DownloadInv, PartIsPrefix
  <2> QED
    BY <2>1, <2>2, <2>3 DEF DownloadInv, PublishedIsRelease, Knows, Transfer
<1>9. CASE (Loop(e) \/ Read(e)) /\ UNCHANGED <<archive, part, total, fd>> /\ pc'[e] \in {"read", "digest"}
  <2>1. pc[e] \in Transfer
    BY <1>9 DEF Loop, Read, Transfer
  <2> QED
    BY <1>2, <1>9, <2>1 DEF DownloadInv, Knows, Transfer
<1>10. ASSUME pc[e] = "read", NEW chunk \in {total[e] + 1, Garbled}, Receive(e, chunk)
       PROVE  PublishedIsRelease' /\ PartIsPrefix' /\ Knows(e)'
  <2>1. fd[e] = "part" /\ Len(part) = total[e] /\ total[e] < Size /\ total[e] \in Nat
    BY <1>1, <1>10, DownloadAssumption DEF DownloadInv, Knows, Transfer, Receive
  <2>2. part \in File /\ chunk \in Chunk
    BY <2>1, DownloadAssumption DEF DownloadInv, Typed, TypeOK, StreamsOpen, Chunk
  <2>3. /\ part' = Written(part, e, chunk) /\ archive' = archive
        /\ total'[e] = total[e] + 1 /\ fd' = fd /\ pc'[e] = "loop"
    BY <1>1, <1>10, <2>1 DEF Receive, Goto
  <2>4. /\ Len(part') = total[e] + 1
        /\ \A i \in 1..total[e] : part'[i] = part[i]
        /\ part'[total[e] + 1] = chunk
    BY <1>1, <2>1, <2>2, <2>3, WrittenAtEnd
  <2>5. PartIsPrefix'
    <3>1. \A i \in 1..total[e] : part[i] \in {i, Garbled}
      BY <2>1, <2>2, AbsentAssumption DEF DownloadInv, PartIsPrefix
    <3> QED
      BY <1>10, <2>1, <2>4, <3>1, DownloadAssumption DEF PartIsPrefix
  <2> QED
    BY <2>1, <2>3, <2>4, <2>5 DEF DownloadInv, PublishedIsRelease, Knows, Transfer
<1>11. CASE (Digest(e) \/ Verify(e)) /\ ~Drop(e)
  <2>1. /\ UNCHANGED <<archive, part>> /\ pc'[e] \in {"verify", "publish"}
        /\ pc'[e] = "publish" => part = Release
    BY <1>1, <1>11 DEF Digest, Verify, Goto
  <2> QED
    BY <1>2, <2>1 DEF Knows, Transfer
<1>12. CASE Publish(e) /\ ~Keep(e, FALSE)
  <2>1. pc[e] = "publish" /\ archive' = part /\ part' = Absent /\ pc'[e] = "ready"
    BY <1>1, <1>12 DEF Publish, Goto
  <2> QED
    BY <2>1 DEF DownloadInv, PublishedIsRelease, PartIsPrefix, Knows, Transfer
<1>13. CASE Install(e) /\ ~Keep(e, FALSE)
  <2>1. archive' = Absent /\ part' = part /\ pc'[e] = "idle"
    BY <1>1, <1>13 DEF Install, Leave, Goto
  <2> QED
    BY <2>1 DEF DownloadInv, PublishedIsRelease, PartIsPrefix, Knows, Transfer
<1>14. Connect(e) => Keep(e, TRUE) \/ Drop(e) \/ (pc'[e] = "prefix" /\ UNCHANGED <<archive, part>>)
  BY <1>1 DEF Connect, Goto
<1>15. Loop(e) => Keep(e, FALSE) \/ (pc'[e] = "read" /\ UNCHANGED <<archive, part, total, fd>>)
  BY <1>1 DEF Loop, Goto
<1>16. Read(e) => \/ \E again \in BOOLEAN : Keep(e, again)
                  \/ Drop(e)
                  \/ pc[e] = "read" /\ \E chunk \in {total[e] + 1, Garbled} : Receive(e, chunk)
                  \/ pc'[e] = "digest" /\ UNCHANGED <<archive, part, total, fd>>
  BY <1>1 DEF Read, EndOfInput, Goto
<1> QED
  BY <1>3, <1>4, <1>5, <1>6, <1>7, <1>8, <1>9, <1>10, <1>11, <1>12, <1>13, <1>14, <1>15, <1>16 DEF Work

LEMMA DownloadStep ==
  ASSUME DownloadInv, Alone, [Next]_vars
  PROVE  DownloadInv'
<1> USE DEF files, work, locals
<1>1. Typed'
  BY TypedStep DEF DownloadInv
<1>2. CASE \E e \in Exec : Work(e)
  BY <1>1, <1>2, OthersIdle, WorkSound DEF DownloadInv
<1>3. CASE \/ \E e \in Exec : DoWork(e)
           \/ Enqueue \/ Crash \/ \E forget \in BOOLEAN : Stop(forget)
           \/ UNCHANGED vars
  <2>1. UNCHANGED <<archive, part>>
    BY <1>3 DEF DoWork, Enqueue, Crash, Stop, vars
  <2>2. \A e \in Exec : \/ pc'[e] \in {"idle", "check"}
                        \/ pc'[e] = pc[e] /\ fd'[e] = fd[e] /\ total'[e] = total[e] /\ offset'[e] = offset[e]
    <3>1. CASE Crash
      BY <3>1 DEF Crash
    <3>2. CASE \E x \in Exec : DoWork(x)
      BY <3>2 DEF DoWork, Goto, DownloadInv, Typed, TypeOK
    <3>3. CASE Enqueue \/ (\E forget \in BOOLEAN : Stop(forget)) \/ UNCHANGED vars
      BY <3>3 DEF Enqueue, Stop, vars
    <3> QED
      BY <1>3, <3>1, <3>2, <3>3
  <2> QED
    BY <1>1, <2>1, <2>2 DEF DownloadInv, PublishedIsRelease, PartIsPrefix, Knows, Transfer
<1> QED
  BY <1>2, <1>3 DEF Next

\* As long as no stopped execution works beside its successor, the published
\* file is the release, a resume continues exactly, and what a transfer has
\* reported is in the partial, through any number of losses, bad chunks, stops
\* and crashes.
THEOREM AloneIsSound == Spec => SoundWhenAlone
<1>1. DownloadInv => PublishedIsRelease /\ PartIsPrefix /\ ReportedIsKept
  <2>1. ASSUME DownloadInv, NEW e \in Exec, pc[e] \in {"loop", "read"}, total[e] > 0
        PROVE  part # Absent /\ Len(part) >= total[e]
    BY <2>1, DownloadAssumption DEF DownloadInv, Typed, TypeOK, StreamsOpen, Knows, Transfer
  <2> QED
    BY <2>1 DEF DownloadInv, ReportedIsKept
<1>2. Init /\ [][Next]_vars /\ []Alone => []DownloadInv
  BY DownloadSoundInit, DownloadStep, PTL
<1> QED
  BY <1>1, <1>2, PTL DEF Spec, SoundWhenAlone
=============================================================================
