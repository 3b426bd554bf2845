# A verification project for KartPad Shadow

KartPad Shadow runs a console kart racer as a native application: the game's
PowerPC code is translated ahead of time, and a runtime replaces the console's
operating system, storage, network and devices. The repository's own code is
that runtime, the Android and Apple applications around it, the builder, and the
Python tools by which it is built, released and maintained. This directory
holds TLA+ models of the parts whose correctness depends on order, concurrency
and failure; TLC checks them on small instances and TLAPS
proves the most important invariants for instances of any size.

Contents

1. Inventory of the system
2. Modules
3. Runs, bounds, what they show
4. Fairness
5. Proofs
6. What is only model-checked, what is not modelled
7. Where the code and its documents disagree
8. Plan

## 1. Inventory of the system

`PROJECT.json` lists every component with its sources and every hazard with its
line. In short:

| component | state | operations | what is hard | what makes it correct |
|---|---|---|---|---|
| guest scheduler, `runtime/src/scheduler` | thread records, ready order, ticks, VI period, shutdown and background flags | Create, Resume, Suspend, Cancel, Send, RunOne, Shutdown, ReapTerminated, SetBackgrounded, ConfigureViRetrace | the guest step runs with the mutex released, so any operation falls between a step and its commit | nobody stranded, the dead stay dead, equals take turns, sleepers wake |
| install transaction, `RetroRewindInstall*.java/.kt` | the pack directory, staging and rollback directories per request token, a file lock | recover, stage, extract, validate, activate, discard; enqueue, cancel, run of the worker | process death between any two file operations, failed operations, requests executed again with the same token, recovery from two other activities in two processes, a game that saves while its pack is replaced | the active pack is complete, no save is lost but in the time from their copying to the move aside, replacement looks atomic, the lease is returned |
| archive download, `RetroRewindArchiveDownload.java` | one partial file, one published archive | check, resume, transfer, verify, publish | a stopped execution's blocking code runs beside the next one on the same partial; losses, bad data, crashes | only the release is installed, resumes continue exactly, some attempt succeeds |
| guest threads, scheduler, sleep timers, `hle/os/os_thread.cpp`, `os_scheduler.cpp`, `os_sleep.cpp` | OSThread structures in guest memory, run queues with a pending mask, wait queues, host sleep timers, outstanding parks, the fibers' host stacks | suspend, resume, sleep, wake, SelectThread, OSSleepTicks, the reconciler; create, exit, cancel, join, detach | every call may process timers and switch fibers in the middle of a loop over a local list; timers fire before the park; the scheduler can be disabled, and only some calls ask | no thread lost or linked twice, guest code only on the running thread, urgent threads first, every sleep ends |
| guest mutexes and message queues, `os_scheduler.cpp`, `os_message.cpp` | ownership, inherited priorities, message rings | lock, unlock, send, jam, receive | retry loops around OSSleepThread | one owner, right priorities, no message lost |
| alarms, interrupts, deferred network and NAND calls | callback queues, host fibers, worker threads | arm, fire, complete | completions delivered from host threads | each completion delivered once |
| user-file storages (Android) | saves, Miis, identities, ratings, game data, pending copies | import, export, replace | interrupted replacement | the old or the new file, never neither |
| iOS installer | the same pack directories | the same transaction | the same | the same |
| action receipts, `scripts/maintenance-state.py` | a ledger file with one owner token and one receipt per public action; a lock file | claim, recover, release, begin, retry, complete | each command is a process that may be killed between its write, its sync and its reply; power losses; tokens that were rotated away | no attempt is granted twice, only the owner writes, a completed receipt stays |
| maintenance loop, `scripts/maintenance-loop.py` | issues read from GitHub, a priority file, one state file with reviews, results and the active gate, a mirror | select, review, execute a contract | what an invocation read is older than what the previous lock holder read; sources are edited, and restored, while a contract runs | no contract runs twice on the same bytes, a result is of the bytes it names, a gate stalls only after two hours, no record is lost |
| game builder, `builder/kartpad_builder` and the scripts it calls | clones, archives, extracted discs, translations, runtime sources, the app, the IPA | bootstrap, build, shadow, profile update | a chain of caches, interrupted anywhere, while the repository is edited | nothing half done is used, an IPA names its sources |
| public releases, `refresh-ios-release`, `package-public-*`, `audit-public-*` | the app at its path, one partial file, the archive, the git tree and HEAD | refresh, package, audit | several shells on the same paths, edits and commits in between | what an audit passes is what was accepted |
| evidence readers, `summarize-mkw-state-trace`, `compare-mkw-state-traces`, `summarize-audio-queue`, `inspect-mkw-rkg`, the ghost matrix, `summarize-android-a2-session`, `verify-patch-hunks` | what has been read of a log, a compressed ghost or a patch | one step per line, byte or ghost | gaps, restarts, counters set back, rows put together from datagrams, signals of several launches, overlapping back-references, padding, changes that look like headers | the verdict is what the whole input says |
| shells, overlays, renderer, audio, input, translator | user interface and data transformation | | | not modelled |

How they interact: the install worker runs the download, then the transaction;
both keep their state in the file system only, shared by executions of the
worker that may overlap and by the chooser (in the `:launcher` process) and the
game's launch, which both call `recoverForLaunch`, and by the running game,
which writes its saves into the active pack. The guest scheduler is called by a
host loop and, re-entrantly, by the guest steps it runs. The guest OS calls
itself through guest memory and switches fibers inside its own functions. The
Python tools meet only in files: a build leaves the app that a release packages,
the maintenance loop runs the repository's tests and reads the priority file a
coordinator edits, and the receipts decide which of several maintenance runs may
act in public.

## 2. Modules

| module | models | state and actions against the code |
|---|---|---|
| `GuestScheduler` | `guest_scheduler.cpp`, `.h` | One action per public operation (each holds the mutex throughout). `RunOne` is `RunSelect` (wake due alarms, choose, mark Running), the unlocked guest step, `RunCommit` (one disjunct per `StepAction` kind, and the shutdown branch), `RunRetrace` (the VI callback after the second unlock); `RunAdvance` is the idle jump to the nearest alarm. `step[r]` is the thread whose step host thread `r` is in. |
| `GuestSchedulerProofs` | | theorems about it |
| `RetroInstall` | storage, pipeline, validator, worker, work policy | `installed`, `staging[t]`, `rollback[t]` are the directories, `lock` the file lock, `pc` where each execution and activity stands. One action per file operation that a crash can fall before or after: sweep, restore from recovery, stage, extract, copy saves, move old, move new, restore, the two halves of `deleteTree`, discard. `Enqueue`, `DoWork`, `Stop`, `Crash` are WorkManager and Android. `Launch` starts the game; from then on `Play` and `PlayTorn` save at any time, under the active name or where nothing has it. `late` and `torn` remember the saves made behind the copying and whether one fell between the two moves. |
| `RetroPack` | the promise | an abstract pack with its saves: a replacement begins with the saves of that moment (`Begin`), takes effect in one step (`Replace`) or is given up (`Abandon`); the player saves (`Play`), and a save that meets no pack during a replacement ends the promise (`Tear`) |
| `RetroInstallProofs` | | theorems about `RetroInstall` |
| `ArchiveDownload` | `RetroRewindArchiveDownload.java` | `archive` and `part` are files, `fd[e]` what an execution's open stream refers to (a stream follows its file through a rename or unlink), `offset`, `total`, `clean` the locals of `transferResuming`. One action per point where the code reads or changes a file or asks `isCancelled`. |
| `ArchiveDownloadProofs` | | theorems about it |
| `OSThread` | `os_thread.cpp`, `os_scheduler.cpp`, `os_sleep.cpp` | `os` is the guest kernel's memory with the host's timer table and park set; `running` is `kOSRunningContextAddr`; `fiber` the fiber that executes; `stack[t]` the calls that fiber has not finished, innermost first. Guest code calls (`SleepTicks` and, of a thread that is suspended already, `SleepSuspended`; `SleepThread` and, of one that is in a queue already, `SleepTwice`; `Wakeup`, `SuspendThread`, `ResumeThread`, `Yield`, `EnableScheduler`, `DisableScheduler`); then each loop iteration in which `SelectThread` may be re-entered is one action: `Poll` takes the due timers, `FireDue`/`FireRunning`/`FireStale` handle one of them, `Scan` is the reconciler's decision under its lock, `Heal` one of its resumes, `PickNothing`/`PickNext`/`PickIdle`/`IdleDone` the ways SelectThread ends, `Unpark`/`Unsleep` what its callers do when it returns. `astray` remembers who suspended itself while no switch was allowed. |
| `OSThreadProofs` | | theorems about it |
| `ActionReceipts` | `maintenance-state.py` | `disk` is `state.json`, `durable` what a power loss leaves of it, `lock` the `flock`, `call[p]` what a process read and computed. One action per command, which takes the lock, reads and computes; then `Replace` (the rename), `Reply` (the directory is synced, the answer printed), `Die` in between. `wins` counts the answers `dispatch: true`. |
| `MaintenanceLoop` | `maintenance-loop.py` | `file` is the state file, `mirror` the objective in `PRIORITIES.md`; `view`, `plan`, `wake` what an invocation read before it had the lock. `SelectOne`, `Review`, `ExecuteTest` are the three modes of `main`, under the lock; `FinishTest`, `SaveState`, `WriteMirror` their ends; `World` is everybody else. The contracts and the files they depend on are the code's tables. |
| `MaintenanceLoopProofs` | | theorems about it |
| `Builder` | `pipeline.py`, `shadow.py`, `retro_rewind.py`, `cli.py`, `profiles.py`, `disc.py`, the preparation, staging and provenance scripts, the profile update | one variable per cache, each naming the version of the sources it was made from; one action per step of a command that an interruption can fall before or after; `TranslationValid`, `RuntimeVerified` are what the code looks at before it reuses or compiles |
| `BuilderProofs` | | theorems about it |
| `PublicRelease` | `refresh-ios-release.py`, `ios_release.py`, the three packagers, the three audits | `app`, `partial`, `archive` are the files at the fixed paths, `seen[s]` what the command in shell `s` has read, one action per read or write of a file others may change |
| `PublicReleaseProofs` | | theorems about it |
| `EvidenceReaders` | the state-trace and audio-queue scripts | one action per row or sample; `start`, `spans`, `log`, `logs` are the loops' variables; `input` says which of the readers is at work |
| `GhostInputs` | `inspect-mkw-rkg.py`, the ghost matrix | the Yaz decoder one operation at a time, then the three input streams, the padding and the per-course table; extended by `EvidenceReaders` |
| `TraceComparison` | `compare-mkw-state-traces.py` | `frames` is what Dolphin played, `seen` the values its datagrams told, `oracle` the rows made of them; `LongestRace` and `Matches` are the functions of those names and `main` |
| `SessionSignals` | `summarize-android-a2-session.py` | `count` and `submitted` are the summary's; `app`, `surface`, `gamepads` the app that writes the log, `cycle` how far one of its processes got |
| `PatchHunks` | `verify-patch-hunks.py` | `expected` and `actual` of the hunk that is read, one action per line |
| `EvidenceProofs` | | theorems about `ActionReceipts`, and about `EvidenceReaders` with the readers it extends; the two share no variable |
| `MC*` | | model values, priorities, one property on a single thread |

Representations worth knowing. `ready_sequence` grows for ever and is only
compared, so `ahead[t]` holds the threads with a smaller number than `t`;
`wake_tick` and `tick_` become the ticks still to go. The order in which an
`unordered_map` yields several threads is any order. A directory tree is the
pack it holds, whether it is complete, and the saves in it; a chunk of the
archive is its number, or `Garbled`, or `Hole` where a write went beyond the
end of a truncated file. Operators whose comment begins with "fault:" or says
"mutant of" are not part of the specification: each is a definition with a
plausible bug in it, and `PROJECT.json` says which property catches it.

In `OSThread` a guest list is a sequence, so that a node is in a queue or not;
that no thread is ever in two of them is then what `QueuesSound` (half of
`KernelSound`, the other is `OneRunning`) has to show, from `link`, as in the
code. Host time is abstract: any subset of the timers may be due when the table
is polled, and a reconciler record is old or not as the environment pleases. All
guest threads share one host thread (`FiberManager` switches, it does not run
two fibers at once), so the mutexes around the timer table and the parks are
never contended. No thread owns a mutex, hence `ComputeThreadEffectivePriority`
is the base priority and `PropagateMutexOwnerPriority` returns at once; every
context is preemptible (mode bit 2), and no thread ends. With the scheduler
disabled `SleepTicks` and `SleepThread` refuse, but OSSuspendThread asks
nothing: a thread that suspends itself there is Ready, suspended and in no
queue, and goes on in guest code (`astray`) until a call that reaches
SelectThread with the scheduler enabled. If it is resumed in the meantime it is
in a run queue while it executes, and OSSleepThread, which does not look whether
its node is linked, then puts it into a second list (`SleepTwice`). What such
lists do afterwards is not modelled: the kernel is `Torn` and the behaviour ends
there. The model follows `vendor/runtimes/ios/runtime/src/hle/os`; the copy
under `vendor/wiicompiled` differs in nothing that is modelled.

In `ArchiveDownload` a stopped execution may go on to install, as its code does
when the stop arrives after its last suspension point. In `RetroInstall` nothing
keeps the game quiet during a transaction, as
`docs/artifacts/2026-09-10/android-retro-pack-save-preservation.md:72-75` says.
A save goes to its file by path, so it lands in whatever directory has the
active name then; it is one step, since a file that exists is rewritten through
a shadow that is renamed over it when it is closed (`nand_api.cpp:87-138`).
While the saves are copied it may fall before or behind the walk. A save that
finds nothing under the active name creates its parents (`StubTree`). A game
that has quit is one that saves no more.

In the Python modules a version of the repository, a commit or a file is a
number or a model value, and what was made from it carries it along: an
executable is what it was linked from, a translation the versions of its parts.
So "stale" means that two such values differ. A version edit in `Builder` may go
back to an earlier version, as a checkout does; so may an edit in
`MaintenanceLoop`, where `made` counts the edits of a file and tells bytes that
were restored from bytes that nobody touched. In `ActionReceipts` the clock may
repeat a microsecond, but not one of an attempt that was retried before. In
`PublicRelease` the iOS release compares with pinned constants and the others
pin nothing, so only iOS distinguishes the overlay from the hosts.

## 3. Runs, bounds, what they show

| run | instance | checks | distinct states |
|---|---|---|---|
| `scheduler_race` | 2 threads of equal priority, 2 host threads, 1 queue, sleeps and VI period up to 1, hosts that Resume running threads | `TypeOK`, `RunningHasRunner`, `JoinTargetAlive`, `NoRunnableAfterShutdown`, `EndedStaysEnded` | 187,420 |
| `scheduler_live` | 3 threads of two priorities, 2 host threads that do not Resume a running thread, VI off, fair | `StepExclusive`, `SleeperWakes`, `RoundRobin` | 293,282 |
| `install_crash` | 2 requests, 2 executions, chooser and game, 1 old and 1 new save of a game that saves at any time, 2 faults | `TypeOK`, `ActiveIsWhole`, `NothingLost`, `LiveStagingKept`, `SuccessMeansReady` | 5,993,756 |
| `install_one_fault` | chooser only, 1 save, old or new, 1 fault, fair | `ReplacesAtomically` (implements `RetroPack`), `LeaseReturned`, `PackComesBack` | 469,511 |
| `download` | 2 executions that may overlap, 4 chunks, 3 faults, fair | `TypeOK`, `SoundWhenAlone`, `EventuallyInstalled` | 164,470 |
| `kernel_calls` | 2 threads of two priorities, every call, suspension counts up to 2, one level of disabling | `TypeOK`, `KernelSound`, `Urgency` | 221,180 |
| `kernel_sleep_live` | 3 equal threads that sleep, fair | `SleeperAWakes` | 68,961 |
| `receipts` | 2 processes, 2 keys, 2 tokens, 2 clock readings, power losses | `TypeOK`, `OneGrantPerAttempt`, `OwnedWrites`, `ReceiptImmutable` | 309,642 |
| `loop` | 2 invocations, 2 issues of one family with one contract, 2 pieces of work, 2 contents of the file, 2 edits or an edit and a passing hour | `TypeOK`, `NoUnchangedRerun`, `PassIsOfTheseBytes`, `StallNeedsTwoHours`, `SavesKeepOthers` | 1,596,715 |
| `builder` | 2 images of which 1 is accepted, 2 versions with different packs, 2 clones, 2 edits | `TypeOK`, `OnlyWholeIsUsed`, `IpaTruthful` | 8,383,196 |
| `release` | 2 shells, 3 platforms, 2 edits | `PassedIsAccepted`, `ListsWhatWasLinked` | 7,132,375 |
| `readers` | traces of up to 7 rows, 2 audio logs of 3 samples, ghosts of up to 20 bytes, libraries of 3 ghosts for 2 courses, 4 frames of the oracle against 15 native traces, 1 lost datagram, 2 lines of each kind of a session, patches of 5 lines | `SegmentsAreRaces`, `VerdictIsTrue`, `InputsAreExact` | 937,296 |

All hold.

Why the bounds are enough. Two host threads are the least that put one operation
between another's step and commit, and a third adds only more of the same pair;
two threads are the least with a join and a wait, and the third of
`scheduler_live` gives equals a less urgent competitor. In `RetroInstall` a
fault is a process death or a failed file operation: two of them reach a failure
inside the handling of another, and the runs with one and three show exactly
where the guarantees end: atomicity and automatic return hold for one fault, and
until a save falls between the two moves, not for two faults, since a failed
move and a failed restoration, or a death in `deleteTree`, can leave a rollback
that the next recovery finds ambiguous. One save is enough for the refinement,
whose steps move one save each; two in `install_crash` put one in the old pack
and one made at any moment. What the code can not keep is named in the
properties, not left out of the model: `NothingLost` excepts the saves made
between the copying and the move aside, which go with the old pack when that is
deleted, and `ReplacesAtomically` and `PackComesBack` end with a save that fell
between the moves. In `install_crash` requests and executions are interchangeable
(`SYMMETRY`), and so are the invocations of `loop`; both runs check safety only.
`SoundWhenAlone` speaks of the states up to the first overlap of two executions:
a resume continues exactly, a failure keeps the partial it reports, only the
release is published. After an overlap none of this holds (section 7), and only
the pipeline's own verification refuses such an archive; `EventuallyInstalled`
holds all the same. Four chunks allow a resume at the start, in the middle, at
the last chunk and at the end. `MaxFaults` bounds behaviours, not data: without
it the liveness properties would ask for progress under endless failure. The
proofs of section 5 drop these bounds.

For `OSThread` two threads reach every action (a caller and another one), three
put two sleepers in the local list of a third, and two priorities make a resume
preempt or not. `MaxNest` bounds how many interrupted loops one fiber may carry;
the code bounds it only by how often timers come due meanwhile. One interrupted
loop is what a stale list needs, and `kernel_calls` has two. `MaxSuspend` 2
tells the park's own suspension from a foreign one. `kernel_calls` with three
threads has tens of millions of states and is too long for a regular run. The
liveness runs give all threads one priority, for a more urgent thread whose
sleeps are always over at once starves the others by design; `SleeperAWakes` is
then `SleeperWakes` for one of three interchangeable threads.

In `ActionReceipts` two processes are a holder and a contender, and two tokens a
rotated one and its successor; with two clock readings the second attempt may
show the microsecond of the first, which is what the replacement marker is for.
In `MaintenanceLoop` a third sighting of a gate within two hours comes from an
invocation that noted the earlier hour before it waited for the lock. Two edits
are one that is undone while a contract runs, or one before and one during it;
an hour that passes counts as one of them. In `Builder` two versions, two packs
and two edits allow an edit and its reversal; two clones are one that is left at
its default branch and one that is then missing. Two shells in `PublicRelease`
put one command between any two steps of the other; two edits are one that is
reverted or one in each file. The traces of `readers` hold two races with a gap,
a restart and a finish, under time steps of one and two; the compressed ghosts
hold a back-reference that overlaps what it writes, the two lengths of its
coding, a stream that ends early, and padding. Four frames of the oracle hold a
pause, a restart and a word that changes with or without the time; a session
holds two pauses of one process or two launches; five lines of a patch hold two
hunks or one beside a stray line.

`CHECK_DEADLOCK FALSE` is set for the installer and the download, which stop
when every request has been handled, and for the readers, which stop at the end
of their input; the scheduler's host can always act, so
its runs keep the deadlock check, and so do the guest kernel, whose idle loop
never stops, and the tools, which can always be called again.

## 4. Fairness

`GuestScheduler`: `WF(RunOne(r))`: the host loop keeps calling `RunOne` and
every guest step returns; no fairness is assumed of host calls such as Resume.
`RetroInstall`: an execution that has started runs on (its code blocks only in
operations that end or time out), an activity that recovers finishes, and the
chooser is opened again and again; nothing forces a request, an execution or a
fault. `ArchiveDownload`: the same for executions, and the player asks again
until the pack is installed, since a download that was cancelled for good must
not count against the code. `OSThread`: `WF(Next)`: the host thread
keeps executing, so guest code goes on calling and every loop on iterating; for
each thread, strong fairness of its timer being due when the table is polled,
since deadlines pass; and for each thread, strong fairness of the reconciler's
scan finding no record of it or an old one, since the scan is claimed every
50 ms and a record that is not erased is 100 ms old a few scans later. No order
of calls is fair: a thread may block for good. The modules of the Python tools
assume no fairness: nobody has to run them, and only safety is asked of them.

## 5. Proofs

Eight modules of theorems, for every value of the constants that satisfies the
named assumptions (`SchedulerAssumption`, `InstallAssumption`,
`DownloadAssumption`, `ThreadAssumption`, `ReceiptsAssumption`,
`LoopAssumption`, `BuilderAssumption`, `ReleaseAssumption`, `ReadersAssumption`,
`GhostAssumption`, `ComparisonAssumption` and each `AbsentAssumption`): they
type the constants, and say that `Absent` is no tree, no file or no receipt,
that `None` is nobody or nothing, that the threads of the guest and the pieces
of work of the maintenance loop are finitely many, that a file has contents,
that a wait queue is not a run queue, that a value no datagram has told is none
that one tells, and that the countdown is shorter than the input of a race.
Every safety property of every run is a theorem; two theorems have a hypothesis
of their own, stated below where it is used.

| theorem | says |
|---|---|
| `TypeCorrect`, `NoStrandedRunning`, `NoStrandedJoiner`, `ShutdownIsFinal`, `EndedIsFinal` | the five properties of `scheduler_race`, for any number of threads, queues, priorities and host threads |
| `StepsAreExclusive` | `StepExclusive` of `scheduler_live`, for hosts that do not Resume a running thread |
| `InstallTypeCorrect`, `ActivePackWhole`, `SavesSurvive`, `StagingExclusive`, `SuccessIsReady` | the five properties of `install_crash`, for any number of requests, executions, activities, saves and faults |
| `TransactionIsAtomic` | the refinement of `RetroPack` that `install_one_fault` checks, for at most one fault and any number of the others |
| `DownloadTyped`, `AloneIsSound` | the type invariant and `SoundWhenAlone` of `download`, for an archive of any size and any number of executions and faults |
| `KernelInductive`, `KernelTyped`, `KernelIsSound`, `UrgentFirst` | the inductive invariant and the three properties of `kernel_calls`, for any number of threads, priorities, wait queues and interrupted loops |
| `Inductive`, `LedgerTyped`, `GrantsAreUnique`, `WritesAreOwned`, `ReceiptsAreImmutable` | the inductive invariant and the four properties of `receipts`, for any number of processes, keys, tokens and clock readings |
| `LoopInductive`, `LoopTyped`, `NothingRerun`, `ResultsAreOfTheseBytes`, `StallsTakeTwoHours`, `RecordsSurvive` | the inductive invariant and the five properties of `loop`, for any number of invocations, issues, files, pieces of work, edits and hours |
| `BuilderInductive`, `BuilderTyped`, `WholeInputsAreUsed`, `ProvenanceIsTrue` | the inductive invariant and the three properties of `builder`, for any number of images, packs, source dependencies, versions and edits |
| `ReleaseInductive`, `AuditsAreRight`, `CompositionsAreRight` | the inductive invariant and the two properties of `release`, for any number of shells, edits and commits, on each platform |
| `TraceSegments`, `TrueVerdicts`, `ExactInputs` | the three properties of `readers`, for traces, logs, libraries, sessions and patches of any length, and ghosts of any size |

The scheduler. `RunningHasRunner` and `NoRunnableAfterShutdown` are not
inductive on their own: the commit of a step in flight touches a thread whose
state another operation may have changed. The invariant adds that a thread in
flight was created, that a thread that waits for a join has its wait value set,
and that after Shutdown every live thread is dead already, so that the commit's
shutdown branch is the only one left. `EndedStaysEnded` follows action by
action from that invariant. `StepsAreExclusive` assumes `~ ResumeRunning`: a
host that resumes a Running thread makes it Ready while its step is still in
flight, and a second runner may take it. Otherwise a thread in flight stays
Running, and `RunSelect` takes only the Ready and the woken.

The installer. The inductive invariant `Inv` is `TypeOK`, `Holder` (whoever
stands inside the transaction or the recovery holds the lease), `TreeInv` (what
the program counter of an execution says of its three directories) and
`PackInv`: beside `ActiveIsWhole` and `NothingLost` it says that a rollback that
is not complete exists only beside another tree, active or rolled back
(`PartialInv`), and that where the game runs without a whole pack a rollback is
there (`GapInv`). `Holder` makes the rest possible: but for the saves of the
game, the trees only change under the lease, so each action has one actor to
consider. The interesting cases are `RecoverFinish`, which may activate a
rollback only because an incomplete one implies a second tree, hence that
nothing is restored or that it is ambiguous; and `Play` beside `MoveOld`, where
a save is exactly as safe as the walk that copies the saves lets it be (`late`).
TLC also checks `Inv` itself on the instance of `install_crash`.

`SuccessIsReady` needs what an execution knows of the pack it is making
(`FreshInv`: from staging on it is the new one, before `moveOld` it has the
active pack's saves but the late ones, from then on those of the pack that is
set aside), so that what it reports is still what it activated. Two lemmas spare
most of the cases: `StepKinds` (a step is an operation of the one execution
inside the lease, a recovery under it, or changes no tree) and
`ActsAlone`/`SweepsAlone`.

The refinement. `RetroPack` sees the pack that is active, or the one that would
be put back. That there is always exactly one answer is the invariant's matter:
`SavedInv` (a tree holds only saves the player made) and `FaultInv`, which
speaks of the time until a save falls between the moves (`~ torn`). Before the
first fault no restoration is under way and each rollback belongs to an
execution that is about to move the new pack in, or to delete the old one. A
fault may leave a pack aside with nobody to move another in its place
(`Interrupted`); then it is the only rollback, and no execution is past the
lease until a recovery has put it back (`Waiting`). From there each action is a
replacement, its beginning or its end, a save by the player or nothing, seen
from `RetroPack`; the saves it will bring (`copied`) are those in the staging
tree of the one execution between the copying and its end. A second fault can
break `Waiting`, and then the promise; hence the hypothesis `MaxFaults <= 1`,
which is where the guarantee ends (section 3).

The download. `DownloadTyped` holds without conditions: `StreamsOpen` (a stream
that refers to a name refers to a file) is what keeps a write through an old
stream well typed. `AloneIsSound` is proved as `SoundWhenAlone` states it, for
behaviours in which at most one execution works at a time: the invariant
`DownloadInv` adds `Knows(e)`, what each program counter says of the partial and
of the numbers `offset`, `total`, `clean`. While an execution writes, `total` is
the length of the partial, so that a write at its own position and an append
come to the same; past the digest the partial is the release. Two executions
break exactly that, as `LossKeepsPartial` shows (section 7).

The guest kernel. `KernelInv` is `TypeOK`, `KernelOK(os)`, `RunInv` and
`StackInv`. `KernelOK` is `QueuesSound` in a form that can be kept call by call:
every thread is in the one queue that its state, suspension count and link name
(`Home`), each queue is in the order of priorities without repetition, and the
pending mask is exact. Each list primitive has a lemma that says it moves one
thread and disturbs no other (`Moves`); a call is a chain of them. `RunInv` says
that a Running thread is the one of the running context, on its own fiber, and
that a fiber that disabled the scheduler executes on: it is Running, or it went
astray, and then it is Ready and the switch it was refused is still requested
(`OnFiber`). `StackInv` is about the unfinished business of the fibers that were
switched out: a loop over timers stands inside SelectThread or the idle loop, a
sleep is the outermost call, only the executing fiber hosts the idle loop, and
only while no thread runs; a fiber comes back to the end of its sleep only as
the Running thread, and to guest code as that or astray. Without `StackInv` a
return from SelectThread could reach guest code on any suspended thread. It has
a consequence worth knowing: a sleep that SelectThread was called for ends
Running, so that the branches in which OSSleepTicks and OSSleepThread take a
failed park or wait back (`Unpark`, `Unsleep`) change nothing there; the one
park that does fail is that of a thread already suspended, which never reaches
SelectThread (`SleepSuspended`). `KernelIsSound` ends where the lists are torn.

`UrgentFirst` adds `UrgentInv`: a Running thread outranks the run queues while
the reschedule flag is clear (a thread that went astray is not Running, and its
flag is set), and so does one that comes back from its sleep while the scheduler
is enabled. Each kernel operation is `Calm`: it sets the flag, or adds no
pending queue and changes the priority of nobody who runs. A step then owes the
thread that it brings back (`Owed`) that it outranks the others, that the flag
is clear, or that nothing was changed; the flag is what the code itself tests
before it calls SelectThread.

What the recursive function `Kept` (the members of a list that are in a set)
computes is proved by induction over the naturals, in a form without an operator
parameter: a set of numbers that holds 0 and the successor of each member holds
them all (`Induct`, from the least number principle of the library).

The receipts. `OneGrantPerAttempt` counts answers already given, and the danger
is an answer whose write was lost: a process dies after the rename, the power
fails before the sync, and another process finds the old attempt again. The
invariant `IInv` is `TypeOK`, `LockHeld` (only the holder of the lock is inside
a command), `CallFits` (what it is going to write was computed from the ledger
that is on disk, by the owner's token), `DiskKeeps` (the disk is ahead of what
is durable: no receipt disappears, none that is complete changes), `WonIsPast`
(an attempt that was answered for is durably behind), `GrantIsFirst` (the one
about to be answered was not answered before) and `OneGrantPerAttempt`. The
answer comes after the sync: that is what makes `WonIsPast` survive
`PowerLoss`, and `LockHeld` what makes `CallFits` survive the other processes.

The maintenance loop. `NoUnchangedRerun` compares what an invocation is about to
save with what is on file, and the result on file may be of another invocation
that ended a moment ago. `LoopInv` adds `LockHeld`, `OthersAsOnFile` (what an
invocation will save agrees with the file in every result but its own
contract's, so that no save takes an older result back) and `GatesCounted` (the
hours of a gate contain the window that was counted last, and a second count has
seen a second hour), which is `StallNeedsTwoHours` before the stall. `LoopTyped`
adds to the types that an invocation under the lock has read every page and runs
the contract of an issue that has one. `ResultsAreOfTheseBytes` rests on
`BytesInv`: what a result or a running test noted of a file, its bytes and how
often it had been edited, is right of the file as it was; while nothing was
edited since, the bytes are the same, and after one edit they are others
(`Noted`). A fingerprint that matches again after an edit has therefore seen two
of them, which is the exception the property makes. It is a real one: that an
edit may be undone while the contract runs, and the result then counts for bytes
it never saw, is what section 7 shows.

The builder. `OnlyWholeIsUsed` is about a workspace that any number of
interrupted commands have left: `PartsOrdered` says that the shards exist only
after everything they are made of and the seal only after the shards, also
where an old seal was followed by a new translation; `PartsMade` says the same
of the command at work; `TreesWhole` and `InputsStay` say that trees appear
whole under their final names and that nobody else removes them; `RuntimeOfOne`
that the comparison with the working tree was passed. `CachesOfOne` makes
`IpaTruthful` inductive: a workspace in which no build was busy during an edit
holds one version, which is the one its key names. Shadow's workspace never is a
build's.

The releases. `ReleaseInv` is `TypeOK`, `OneRefresh`, `CompiledIsNow` (what a
refresh has compiled is the working tree unless it was edited meanwhile),
`LinkedIsCompiled` (nobody relinks an app between its link and its composition)
and `AuditFits` (an audit past its checks has read a closed archive whose
digests and commit are the ones it expects), from which `PassedIsAccepted`
follows.

The readers. A step of `EvidenceReaders` is a step of one reader (`StepOfOne`),
so each has an invariant of its own, which says of what was read so far what the
property says of everything; `ReadersInv` is all of them. The properties look at
the input as a whole, hence each invariant has a part about what the next line
cannot change. `TraceInv`: every closed span is a gapless race that cannot go on
to the next row, the open one reaches the last row, and no row of a race is
outside of them; a race that could have begun earlier would join two spans, which
their order forbids, so that the segments are the longest races (`RaceSet`) and
an exact one has each frame of the input once (`ExactTimes`). `AudioInv`: while
nothing was rejected, the last counters are the most that was counted.
`SessionInv`: what the launches leave in the counts, with how far one process
got. `PatchInv`: everything before the hunk that is read is whole, and the hunk
has counted its lines; a refusal is final because the end of a hunk never moves
once it is there (`FirstEnd`). `ComparisonInv`: while no datagram was lost the
oracle is the frames at which a time begins (`TickAdded`). `GhostInv`: the output
is as long as the tokens say, each token tells its own bytes (`Says`, which no
later token touches since the output only grows), and the bytes read are theirs
and a flag byte for every eight. `LibraryInv` types the library; that the
reader's counts of a library come to one ghost of each course is the size of two
sets that are mapped one to one (`SameSize`).

Three definitions are folds or recursive functions: the race that
`LongestRace` keeps, the sums over tokens and records, and the run that
`CopyRun` writes. For each, the function is shown to exist for every number of
steps (`ReadsDefined`, `AddsDefined`, `CopiesDefined`), by induction over a set
of numbers as above; then what it holds after n steps is carried to n + 1
(`ReadKeeps`, `SumOfOneMore`, `CopyRunIs`). The library's sum takes the elements of a set in an order that is not known;
`AnyLast` shows that any of them may be taken last, so that the sums grow by what
the newest token says.

## 6. What is only model-checked, what is not modelled

Only model-checked: all liveness (`SleeperWakes`, `RoundRobin`, `LeaseReturned`,
`PackComesBack`, `EventuallyInstalled`, `SleeperAWakes`), which is beyond the
proof system.

Left out of the modelled components: trace and progress reports, exit codes,
notification text, the space estimate, HTTP headers and redirects, the contents
of files beyond what the properties tell apart, runtime exceptions. In
`RetroInstall`: a save written in place through a second handle of an open file,
and writes that go on through a handle opened before the two moves. In
`OSThread`: OSExitThread, OSCancelThread, OSJoinThread and OSDetachThread,
mutexes, message queues, callbacks other than a wake-up inside the idle loop,
the lists after one of them was torn, memory faults, the boot before the first
thread is registered as a fiber. In `ActionReceipts`: labels, notes, times that
nothing compares, a state file that is not JSON (the code refuses to go on). In
`MaintenanceLoop`: scores, reasons and texts, the order of external activity,
`--preview`, which writes nothing, and the helpers that no invocation calls; an
invocation that both reviews and runs a contract is one of each; the pages of
GitHub are read in one step. In `Builder`: the overrides of finished parts,
shadow's partial commands; the compiler is deterministic, a profile and its
fingerprint are read in one step, and versions agree on the four files of the
DiscIO key. The app is compiled in one step, between the stamp that names the
tree and the packaging. In `PublicRelease`: what notices, versions and
signatures say (a failed check is `Stop`); one refresh at a time writes to an
output directory, which the scripts do not enforce. In `EvidenceReaders`:
MemoryWatcher lines that do not parse, the statistics that are only printed, the
other fields of a ghost's header, a Yaz header shorter than 16 bytes, and
controller disconnections, which decide nothing. A comparison in which the two
races have no time in common reports no mismatch and exits 0; `MatchIsTrue` says
so.

Not modelled: the components with status `not_modelled`, each with its reason
in `PROJECT.json`.

## 7. Where the code and its documents disagree

Each is a property that states what a document says, with a configuration that
lets TLC reproduce the counterexample by hand, for instance
`tlc -config MCKernelStrand.cfg MCOSThread`. They are not among the runs of
section 3, which all pass.

* `MCInstallStuckRollback.cfg`, `FailedRestoreRecoverable`.
  `docs/artifacts/2026-09-04/android/a3-install-storage-recovery.md:31-33`: "a
  failed restoration is retained as a suppressed error and remains recoverable on
  the next startup." Not after three faults: a rollback that an interrupted
  deletion left behind is never swept and makes the second one ambiguous, and the
  recovery restores a rollback only when it is the only one. (It holds for two.)
* `MCDownloadOverlap.cfg`, `LossKeepsPartial`.
  `docs/artifacts/2026-09-04/android/a3-resumable-download.md:31-32`: "Network loss
  and cancellation preserve the partial". A stopped execution that waited for
  its response truncates the partial that its successor is writing.
* `MCKernelStrand.cfg`, `SleeperWakes`. `os_sleep.cpp:143-145`: "heals a thread
  whose park has no pending wake timer (lost to a race) by resuming it once that
  shape persists for 100ms, sampled every 50ms so no strand is missed." The
  reconciler forgets every strand it is about to heal before it resumes the
  first; if that resume switches the healing fiber out on its way into
  OSSleepThread, the others sleep until that fiber is woken, which may be
  never, and no later scan knows them.
* `MCKernelSteal.cfg`, `ForeignSuspensionKept`. `os_sleep.cpp:138-139`: "remaining
  suspensions after the park's own are foreign ones woken by their own
  OSResumeThread." A due timer in the local list of a fiber that was switched out
  is stale when the fiber goes on. If its thread has since been woken by the
  reconciler and suspended by OSSuspendThread, the timer ends that suspension.
* `MCKernelTorn.cfg`, `NeverTorn`. `os_sleep.cpp:447-450` guards the ways in which
  SelectThread returns without a switch: "None of them may leave this thread
  WAITING and linked, or the caller's retry loop inserts the same node twice".
  There is another way to a node that is inserted twice: a thread that disables
  the scheduler, suspends itself, resumes itself and enables the scheduler
  executes while it is in a run queue, and OSSleepThread does not look.
* `MCLoopRestore.cfg`, `PassIsNeverOfOthers`. `maintenance-loop.py:582`: "Identify
  the source/test state that makes a local result reusable". The fingerprint is
  taken once, before the contract runs (lines 934-942): a file that is edited
  after it, tested so, and then restored passes for tested.
* `MCLoopTouch.cfg`, `BlockedIsUnchanged`. The same sentence: the touch contract reads
  many files, its fingerprint two of them, so that it is not run again when the
  others change.
* `MCReadersCycle.cfg`, `MatrixIsOneCycle`.
  `docs/artifacts/2026-09-04/android/a2-runtime-signal-sanitizer.md:31-35`: a strict
  pass requires "one complete surface pause/resume cycle". The script counts: an
  app that was paused and resumed with its surface, and then lost its surface,
  got another one and never resumed on it, passes; so does one that was launched
  again (which `a2-uid-scoped-capture.md` expects within one capture).
* `PublicRelease` states two more that no document promises but a reader may
  expect, and that TLC refutes when they are put into `MCRelease.cfg`:
  `NamedCommitIsAccepted` (the commit an iOS archive names holds the accepted
  overlay: it is compared in the working tree instead) and `PrintedIsAudited`
  (the digest an audit prints is read from the path again).

## 8. Plan

In order, the most important first.

1. Done: `GuestScheduler`, `RetroInstall`, `ArchiveDownload`, `ActionReceipts`,
   `MaintenanceLoop`, `Builder`, `PublicRelease`, `OSThread`, `EvidenceReaders`
   with the readers it extends, all with theorems.
2. The rest of the guest kernel: thread termination (OSExitThread, OSCancelThread
   and OSJoinThread switch fibers while they unlock mutexes, before the joiners
   are woken, `os_thread.cpp:224-244`); `OSMutex` (priority inheritance) and
   `OSMessageQueue` (blocking send, jam and receive) on the same kernel. Abstract
   specifications: a mutex with one owner; a bounded FIFO with jam.
3. Theorems: for two faults, what `RetroInstall` still promises of the pack that
   would be put back.
4. The Android storages and the iOS installer, as further refinements of one
   abstract replacement.
5. Alarms and callback dispatch, deferred network and NAND completions.
