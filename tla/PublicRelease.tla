---------------------------- MODULE PublicRelease ----------------------------
(***************************************************************************)
(* Publishing a build: refresh-ios-release relinks the accepted app with   *)
(* the current sources, package-public-* puts an app into the public       *)
(* archive with its provenance, audit-public-* checks the archive that is  *)
(* to be uploaded.  Maintainers run them from several shells, while the    *)
(* repository is edited and committed; any of them may fail or be killed.  *)
(*                                                                         *)
(* The iOS release pins its executable, its composition and its sources in *)
(* ios_release.py; the tvOS and macOS releases pin nothing.  A commit is   *)
(* what it holds of two files: the host sources and assets (PRODUCTION_    *)
(* PATHS) and the settings overlay of the maintained runtime.  An          *)
(* executable is what it was linked from.                                  *)
(*                                                                         *)
(* The packagers differ in order: for iOS and tvOS a leftover partial file *)
(* is unlinked before the app is read, for macOS after.  A notice that is  *)
(* missing, a version or a signature that is wrong ends them (Stop).       *)
(***************************************************************************)
EXTENDS Naturals

CONSTANTS
    Shell,
    Platform,       \* a subset of {"ios", "tvos", "macos"}
    MaxEdits, None

ASSUME ReleaseAssumption ==
    /\ Platform \subseteq {"ios", "tvos", "macos"}
    /\ MaxEdits \in Nat
    /\ None \notin Shell

Content == {"accepted", "other"}
File == {"hosts", "fps"}
Tree == [File -> Content]
Accepted == [f \in File |-> "accepted"]     \* the constants of ios_release.py

VARIABLES
    platform,
    head, work,     \* the commit that is checked out, the working tree
    edits,
    app,            \* the app at its path: what it was linked from and lists
    partial,        \* the shells that write the file at output.partial
    archive,        \* the file at output
    report,         \* the last audit that passed
    pc,
    seen            \* seen[s]: what the command of s has read so far

repo == <<platform, head, work, edits>>
files == <<app, partial, archive, report>>
vars == <<repo, files, pc, seen>>

NoApp == [exe |-> None, lists |-> None]
App == [exe : Tree \cup {None}, lists : Tree \cup {None}]
NoArchive == [open |-> "none", app |-> NoApp, commit |-> None, hash |-> None]
Archive == [open : {"none", "closed", "torn"} \cup Shell, app : App,
            commit : Tree \cup {None}, hash : Tree \cup {None}]
Blank == [app |-> NoApp, commit |-> None, hash |-> None, archive |-> NoArchive, calm |-> TRUE]

Pinned == platform = "ios"

Init ==
    /\ platform \in Platform
    /\ head \in (IF Pinned THEN Tree ELSE {Accepted}) /\ work = head
    /\ edits = 0
    /\ app = [exe |-> Accepted, lists |-> Accepted]
    /\ partial = {} /\ archive = NoArchive /\ report = None
    /\ pc = [s \in Shell |-> "idle"] /\ seen = [s \in Shell |-> Blank]

At(s, label) == pc[s] = label
Goto(s, label) == pc' = [pc EXCEPT ![s] = label] /\ UNCHANGED repo
Keep(s, record) == seen' = [seen EXCEPT ![s] = record]

(* ------------------------- the repository, failures -------------------- *)

\* Only iOS tells the overlay from the rest of what an app is built from.
Edit(f, content) ==
    /\ edits < MaxEdits /\ work[f] # content
    /\ Pinned \/ f = "hosts"
    /\ work' = [work EXCEPT ![f] = content]
    /\ edits' = edits + 1
    /\ seen' = [s \in Shell |-> IF At(s, "idle") THEN Blank ELSE [seen[s] EXCEPT !.calm = FALSE]]
    /\ UNCHANGED <<platform, head, files, pc>>

Commit ==
    /\ head # work
    /\ head' = work
    /\ UNCHANGED <<platform, work, edits, files, pc, seen>>

\* The tvOS and macOS apps are built as a whole, by another command.
Rebuild ==
    /\ ~Pinned /\ app.exe # work
    /\ app' = [NoApp EXCEPT !.exe = work]
    /\ UNCHANGED <<repo, partial, archive, report, pc, seen>>

\* A check failed, or the shell was killed; what it was writing stays torn.
Stop(s) ==
    /\ ~At(s, "idle")
    /\ Goto(s, "idle") /\ Keep(s, Blank)
    /\ partial' = IF s \in partial THEN (partial \ {s}) \cup {"torn"} ELSE partial
    /\ archive' = IF archive.open = s THEN [archive EXCEPT !.open = "torn"] ELSE archive
    /\ UNCHANGED <<app, report>>

(* ------------------------- refresh-ios-release ------------------------- *)

Refreshing == {"overlay", "replace", "link", "record"}

\* One refresh writes to an output directory at a time.
CompileHosts(s) ==
    /\ At(s, "idle") /\ Pinned
    /\ \A t \in Shell : pc[t] \notin Refreshing
    /\ Keep(s, [Blank EXCEPT !.app.exe = work])
    /\ Goto(s, "overlay")
    /\ UNCHANGED files

\* The overlay is copied, and the copy is compiled and later hashed.
CompileOverlay(s) ==
    /\ At(s, "overlay")
    /\ Keep(s, [seen[s] EXCEPT !.app.exe["fps"] = work["fps"]])
    /\ Goto(s, "replace")
    /\ UNCHANGED files

\* The app is removed and the base app copied, which has no composition.
ReplaceApp(s) ==
    /\ At(s, "replace")
    /\ app' = NoApp
    /\ Goto(s, "link")
    /\ UNCHANGED <<partial, archive, report, seen>>

Link(s) ==
    /\ At(s, "link")
    /\ app' = [app EXCEPT !.exe = seen[s].app.exe]
    /\ Goto(s, "record")
    /\ UNCHANGED <<partial, archive, report, seen>>

Hashed(s) == work                                   \* mutants of Refreshed
HostsOnly(s) == [hosts |-> work["hosts"]]
Refreshed(s) == [hosts |-> work["hosts"], fps |-> seen[s].app.exe["fps"]]

RecordComposition(s) ==
    /\ At(s, "record")
    /\ app' = [app EXCEPT !.lists = Refreshed(s)]
    /\ Goto(s, "idle") /\ Keep(s, Blank)
    /\ UNCHANGED <<partial, archive, report>>

(* ---------------------------- package-public-* ------------------------- *)

\* accepted_build: the executable and the composition are the pinned ones
ManifestsOnly(a) == a.lists = Accepted              \* mutant of AcceptedBuild
AcceptedBuild(a) == a = [exe |-> Accepted, lists |-> Accepted]

\* verify_source_equivalence: the blobs of the commit, but the overlay of the
\* working tree
SourceEquivalent(commit) ==
    /\ commit["hosts"] = "accepted"
    /\ work["fps"] = "accepted"

StartPackage(s) ==
    /\ At(s, "idle") /\ work = head
    /\ Goto(s, "head") /\ Keep(s, Blank)
    /\ UNCHANGED files

ReadHead(s) ==
    /\ At(s, "head")
    /\ Keep(s, [seen[s] EXCEPT !.commit = head])
    /\ Goto(s, "hash")
    /\ UNCHANGED files

AuditApp(s) ==
    /\ At(s, "hash") /\ platform # "macos" /\ app.exe # None
    /\ Keep(s, [seen[s] EXCEPT !.hash = app.exe])
    /\ Goto(s, "accept")
    /\ UNCHANGED files

UnlinkPartial == partial' = {}

AcceptIos(s) ==
    /\ At(s, "accept") /\ Pinned
    /\ AcceptedBuild(app) /\ SourceEquivalent(seen[s].commit)
    /\ UnlinkPartial
    /\ Goto(s, "read")
    /\ UNCHANGED <<app, archive, report, seen>>

\* Only what the app says of itself is checked, and nothing is pinned.
AcceptTvos(s) ==
    /\ At(s, "accept") /\ platform = "tvos"
    /\ UnlinkPartial
    /\ Goto(s, "read")
    /\ UNCHANGED <<app, archive, report, seen>>

\* The files are listed, then read in their order: the executable is the first
\* of the two.  What was listed and is gone when its turn comes ends the shell.
ReadEntries(s) ==
    /\ At(s, "read") /\ app.exe # None
    /\ Keep(s, [seen[s] EXCEPT !.app = app])
    /\ Goto(s, "list")
    /\ UNCHANGED files

ReadComposition(s) ==
    /\ At(s, "list")
    /\ \/ seen[s].app.lists = None /\ UNCHANGED seen
       \/ /\ seen[s].app.lists # None /\ app.lists # None
          /\ Keep(s, [seen[s] EXCEPT !.app.lists = app.lists])
    /\ Goto(s, "open")
    /\ UNCHANGED files

HashMac(s) ==
    /\ At(s, "hash") /\ platform = "macos"
    /\ Keep(s, [seen[s] EXCEPT !.hash = app.exe])
    /\ Goto(s, "mac read")
    /\ UNCHANGED files

ReadMacEntries(s) ==
    /\ At(s, "mac read")
    /\ Keep(s, [seen[s] EXCEPT !.app = app])
    /\ Goto(s, "unlink")
    /\ UNCHANGED files

UnlinkMac(s) ==
    /\ At(s, "unlink")
    /\ UnlinkPartial
    /\ Goto(s, "open")
    /\ UNCHANGED <<app, archive, report, seen>>

\* Opened for writing, which truncates the file another shell has there.
OpenPartial(s) ==
    /\ At(s, "open")
    /\ partial' = {t \in partial \ {"torn"} : At(t, "write")} \cup {s}
    /\ Goto(s, "write")
    /\ UNCHANGED <<app, archive, report, seen>>

Packed(s) == [open |-> "closed", app |-> seen[s].app,
              commit |-> seen[s].commit, hash |-> seen[s].hash]

\* The file may have been renamed to the output meanwhile, by another shell.
CloseArchive(s) ==
    /\ At(s, "write")
    /\ archive' = IF archive.open = s THEN Packed(s) ELSE archive
    /\ Goto(s, "rename")
    /\ UNCHANGED <<app, partial, report, seen>>

\* os.replace moves whatever file has the partial name by now.
Moved ==
    IF \E t \in Shell : partial = {t}
    THEN LET t == CHOOSE t \in Shell : partial = {t}
         IN  IF At(t, "rename") THEN Packed(t) ELSE [NoArchive EXCEPT !.open = t]
    ELSE [NoArchive EXCEPT !.open = "torn"]

Publish(s) ==
    /\ At(s, "rename") /\ partial # {}
    /\ archive' = Moved
    /\ partial' = {}
    /\ Goto(s, "test")
    /\ UNCHANGED <<app, report, seen>>

TestArchive(s) ==
    /\ At(s, "test") /\ archive.open = "closed"
    /\ Goto(s, "idle") /\ Keep(s, Blank)
    /\ UNCHANGED files

(* ----------------------------- audit-public-* -------------------------- *)

\* Against HEAD, or by --source-commit the commit of an earlier release.
StartAudit(s, commit) ==
    /\ At(s, "idle")
    /\ Pinned => SourceEquivalent(commit)
    /\ Keep(s, [Blank EXCEPT !.commit = commit])
    /\ Goto(s, "inspect")
    /\ UNCHANGED files

\* testzip, the required and the forbidden entries, the app that is extracted
Intact == archive.open = "closed"
\* the provenance of the archive names the expected commit
NamesCommit(s) == archive.commit = seen[s].commit
\* the extracted executable has the hash that the provenance names
HashAgrees == archive.hash = archive.app.exe

\* The file is opened once; what is renamed over it later is not seen.
Passes(s) ==
    /\ At(s, "inspect")
    /\ Intact /\ NamesCommit(s) /\ HashAgrees
    /\ Keep(s, [seen[s] EXCEPT !.archive = archive])
    /\ Goto(s, "report")
    /\ UNCHANGED files

InspectIos(s) == Pinned /\ AcceptedBuild(archive.app) /\ Passes(s)
InspectUnpinned(s) == ~Pinned /\ Passes(s)

\* The digest that is printed is read from the path once more.
Report(s) ==
    /\ At(s, "report")
    /\ report' = [audited |-> seen[s].archive, printed |-> archive,
                  expected |-> seen[s].commit]
    /\ Goto(s, "idle") /\ Keep(s, Blank)
    /\ UNCHANGED <<app, partial, archive>>

Refresh(s) ==
    \/ CompileHosts(s) \/ CompileOverlay(s) \/ ReplaceApp(s)
    \/ Link(s) \/ RecordComposition(s)
Package(s) ==
    \/ StartPackage(s) \/ ReadHead(s)
    \/ AuditApp(s) \/ AcceptIos(s) \/ AcceptTvos(s)
    \/ ReadEntries(s) \/ ReadComposition(s)
    \/ HashMac(s) \/ ReadMacEntries(s) \/ UnlinkMac(s)
    \/ OpenPartial(s) \/ CloseArchive(s) \/ Publish(s) \/ TestArchive(s)
Audit(s) ==
    \/ \E c \in {head, Accepted} : StartAudit(s, c)
    \/ InspectIos(s) \/ InspectUnpinned(s) \/ Report(s)

Next ==
    \/ \E s \in Shell : Refresh(s) \/ Package(s) \/ Audit(s) \/ Stop(s)
    \/ \E f \in File, c \in Content : Edit(f, c)
    \/ Commit \/ Rebuild

Spec == Init /\ [][Next]_vars

(* ------------------------------ properties ----------------------------- *)

Label == {"idle", "overlay", "replace", "link", "record",
          "head", "hash", "accept", "read", "list", "mac read", "unlink", "open",
          "write", "rename", "test", "inspect", "report"}

TypeOK ==
    /\ platform \in Platform /\ head \in Tree /\ work \in Tree
    /\ edits \in 0 .. MaxEdits
    /\ app \in App
    /\ partial \subseteq Shell \cup {"torn"}
    /\ archive \in Archive
    /\ report \in [audited : Archive, printed : Archive, expected : Tree] \cup {None}
    /\ pc \in [Shell -> Label]
    /\ seen \in [Shell -> [app : App, commit : Tree \cup {None}, hash : Tree \cup {None},
                          archive : Archive, calm : BOOLEAN]]

\* An audit passes only for a complete archive whose provenance has the hash
\* of its own executable and names the expected commit; for iOS, one linked
\* from the accepted sources, which the commit holds too - whatever was
\* edited, committed, relinked or packaged meanwhile by other shells.
PassedIsAccepted ==
    report # None =>
        /\ report.audited.open = "closed"
        /\ report.audited.hash = report.audited.app.exe
        /\ report.audited.commit = report.expected
        /\ Pinned =>
            /\ report.audited.app.exe = Accepted
            /\ report.expected["hosts"] = Accepted["hosts"]

\* The composition lists the overlay that was linked, even when it was edited
\* meanwhile, and all that was linked when nothing was edited.
ListsWhatWasLinked ==
    [][\A s \in Shell : At(s, "record") /\ app'.lists # app.lists =>
          /\ app'.lists["fps"] = app'.exe["fps"]
          /\ seen[s].calm => app'.lists = app'.exe]_vars

\* What an iOS archive names as its source holds every refreshed input, the
\* overlay included.  (It need not: the overlay is read from the working
\* tree, which may have been edited since it was found clean.)
NamedCommitIsAccepted ==
    Pinned /\ archive.open = "closed" => archive.commit = Accepted

\* The digest an audit prints is of the archive it audited.  (It need not be.)
PrintedIsAudited == report # None => report.printed = report.audited
=============================================================================
