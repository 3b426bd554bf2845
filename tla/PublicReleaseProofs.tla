------------------------- MODULE PublicReleaseProofs -------------------------
(* What audits and compositions say is right, for any number of shells and *)
(* of edits.                                                               *)
EXTENDS PublicRelease, TLAPS

\* One shell refreshes the app at a time, and only the app that is pinned.
OneRefresh ==
    \A s \in Shell : pc[s] \in Refreshing =>
        /\ Pinned
        /\ \A t \in Shell : pc[t] \in Refreshing => t = s

\* What a refresh has compiled are the sources of now, unless they were edited.
CompiledIsNow ==
    \A s \in Shell : pc[s] \in Refreshing =>
        /\ seen[s].app.exe \in Tree
        /\ seen[s].calm => seen[s].app.exe = work

\* Nobody relinks or removes an app between its link and its composition.
LinkedIsCompiled ==
    \A s \in Shell : pc[s] = "record" => app.exe = seen[s].app.exe

\* An audit that has gone through its checks: what it read and what it expects.
AuditFits ==
    \A s \in Shell :
        /\ pc[s] \in {"inspect", "report"} =>
              /\ seen[s].commit \in Tree
              /\ Pinned => seen[s].commit["hosts"] = Accepted["hosts"]
        /\ pc[s] = "report" =>
              /\ seen[s].archive.open = "closed"
              /\ seen[s].archive.hash = seen[s].archive.app.exe
              /\ seen[s].archive.commit = seen[s].commit
              /\ Pinned => seen[s].archive.app.exe = Accepted

ReleaseInv ==
    /\ TypeOK
    /\ OneRefresh
    /\ CompiledIsNow
    /\ LinkedIsCompiled
    /\ AuditFits
    /\ PassedIsAccepted

LEMMA Types ==
  /\ Accepted \in Tree
  /\ NoApp \in App
  /\ NoArchive \in Archive
  /\ Blank \in [app : App, commit : Tree \cup {None}, hash : Tree \cup {None},
                archive : Archive, calm : BOOLEAN]
  /\ Blank.commit = None /\ Blank.app = NoApp /\ Blank.archive = NoArchive
  /\ NoArchive.open = "none"
<1>1. Accepted \in Tree
  BY DEF Accepted, Tree, File, Content
<1>2. NoApp \in App
  BY DEF NoApp, App
<1>3. NoArchive \in Archive /\ NoArchive.open = "none"
  BY <1>2 DEF NoArchive, Archive
<1> QED
  BY <1>1, <1>2, <1>3 DEF Blank

LEMMA ReleaseInit == Init => ReleaseInv
<1> SUFFICES ASSUME Init PROVE ReleaseInv
  OBVIOUS
<1>1. TypeOK
  <2>1. platform \in Platform /\ head \in Tree /\ work \in Tree
    BY Types DEF Init
  <2>2. app \in App
    BY Types DEF Init, App
  <2> QED
    BY <2>1, <2>2, Types, ReleaseAssumption DEF Init, TypeOK, Label
<1>2. OneRefresh /\ CompiledIsNow /\ LinkedIsCompiled /\ AuditFits /\ PassedIsAccepted
  BY DEF Init, OneRefresh, CompiledIsNow, LinkedIsCompiled, AuditFits, PassedIsAccepted,
    Refreshing
<1> QED
  BY <1>1, <1>2 DEF ReleaseInv

(* ------------------------------- the types ----------------------------- *)

Seen == [app : App, commit : Tree \cup {None}, hash : Tree \cup {None},
         archive : Archive, calm : BOOLEAN]

\* What a command remembers and where it goes, without the files.
LEMMA TypesOfStep ==
  ASSUME NEW s \in Shell, NEW label \in Label, NEW record \in Seen, TypeOK,
         Goto(s, label), Keep(s, record) \/ seen' = seen,
         app' \in App, partial' \subseteq Shell \cup {"torn"}, archive' \in Archive,
         report' = report
  PROVE  TypeOK'
  BY DEF Goto, Keep, TypeOK, repo, Seen

LEMMA TypesOfRefresh ==
  ASSUME NEW s \in Shell, ReleaseInv, Refresh(s)
  PROVE  TypeOK'
<1> USE DEF Goto, Keep, At, repo, files, Label
<1>0. TypeOK /\ (pc[s] \in Refreshing => seen[s].app.exe \in Tree)
  BY DEF ReleaseInv, CompiledIsNow
<1>1. CASE CompileHosts(s)
  <2>1. [Blank EXCEPT !.app.exe = work] \in Seen
    BY <1>0, Types DEF TypeOK, Seen, App
  <2> QED
    BY <1>0, <1>1, <2>1 DEF CompileHosts, TypeOK, Seen
<1>2. CASE CompileOverlay(s)
  <2>1. seen[s] \in Seen /\ work["fps"] \in Content /\ seen[s].app.exe \in Tree
    BY <1>0, <1>2 DEF CompileOverlay, Refreshing, TypeOK, Seen, Tree, File
  <2> DEFINE exe == [seen[s].app.exe EXCEPT !["fps"] = work["fps"]]
             after == [seen[s] EXCEPT !.app.exe = exe]
  <2>2. exe \in Tree
    BY <2>1 DEF Tree
  <2> HIDE DEF exe
  <2>3. after \in Seen
    BY <2>1, <2>2 DEF Seen, App
  <2>4. seen' = [seen EXCEPT ![s] = after]
    BY <1>2 DEF CompileOverlay, exe
  <2> HIDE DEF after
  <2> QED
    BY <1>0, <1>2, <2>3, <2>4, TypesOfStep DEF CompileOverlay, TypeOK
<1>3. CASE ReplaceApp(s)
  BY <1>0, <1>3, Types DEF ReplaceApp, TypeOK
<1>4. CASE Link(s)
  <2>1. seen[s].app.exe \in Tree \cup {None}
    BY <1>0 DEF TypeOK, App
  <2> QED
    BY <1>0, <1>4, <2>1 DEF Link, TypeOK, App
<1>5. CASE RecordComposition(s)
  <2>1. Refreshed(s) \in Tree
    <3>1. seen[s].app.exe \in Tree
      BY <1>0, <1>5 DEF RecordComposition, Refreshing
    <3>2. seen[s].app.exe["fps"] \in Content /\ work["hosts"] \in Content
      BY <1>0, <3>1 DEF TypeOK, Tree, File
    <3> QED
      BY <3>2 DEF Refreshed, Tree, File
  <2>2. [app EXCEPT !.lists = Refreshed(s)] \in App
    BY <1>0, <2>1 DEF TypeOK, App
  <2> QED
    BY <1>0, <1>5, <2>2, Types DEF RecordComposition, TypeOK
<1> QED
  BY <1>1, <1>2, <1>3, <1>4, <1>5 DEF Refresh

LEMMA TypesOfArchive ==
  ASSUME NEW s \in Shell, TypeOK, UNCHANGED <<app, report>>,
         \/ Stop(s) \/ CloseArchive(s) \/ Publish(s)
  PROVE  TypeOK'
<1> USE DEF Label, At
<1>1. Blank \in Seen /\ seen[s] \in Seen
  BY Types DEF TypeOK, Seen
<1>2. Packed(s) \in Archive
  BY DEF TypeOK, Packed, Archive
<1>3. CASE Stop(s)
  <2>1. archive' \in Archive
    BY <1>3 DEF Stop, TypeOK, Archive
  <2>2. partial' \subseteq Shell \cup {"torn"}
    BY <1>3 DEF Stop, TypeOK
  <2> QED
    BY <1>1, <1>3, <2>1, <2>2, TypesOfStep DEF Stop, TypeOK
<1>4. CASE CloseArchive(s)
  BY <1>1, <1>2, <1>4, TypesOfStep DEF CloseArchive, TypeOK
<1>5. CASE Publish(s)
  <2>1. Moved \in Archive
    <3>1. \A t \in Shell : Packed(t) \in Archive
      BY DEF TypeOK, Packed, Archive
    <3>2. \A t \in Shell \cup {"torn"} : [NoArchive EXCEPT !.open = t] \in Archive
      BY Types DEF Archive
    <3> QED
      BY <3>1, <3>2 DEF Moved
  <2> QED
    BY <1>1, <1>5, <2>1, TypesOfStep DEF Publish, TypeOK
<1> QED
  BY <1>3, <1>4, <1>5

LEMMA TypesOfPackage ==
  ASSUME NEW s \in Shell, TypeOK, Package(s)
  PROVE  TypeOK'
<1> USE DEF Label, At, files
<1>0. /\ Blank \in Seen /\ seen[s] \in Seen /\ app \in App /\ archive \in Archive
      /\ partial \subseteq Shell \cup {"torn"} /\ head \in Tree
      /\ app.exe \in Tree \cup {None}
  BY Types DEF TypeOK, Seen, App
<1>1. CASE StartPackage(s)
  BY <1>0, <1>1, TypesOfStep DEF StartPackage
<1>2. CASE ReadHead(s)
  <2>1. [seen[s] EXCEPT !.commit = head] \in Seen
    BY <1>0 DEF Seen
  <2> QED
    BY <1>0, <1>2, <2>1, TypesOfStep DEF ReadHead
<1>3. CASE AuditApp(s) \/ HashMac(s)
  <2>1. [seen[s] EXCEPT !.hash = app.exe] \in Seen
    BY <1>0 DEF Seen
  <2> QED
    BY <1>0, <1>3, <2>1, TypesOfStep DEF AuditApp, HashMac
<1>4. CASE AcceptIos(s) \/ AcceptTvos(s) \/ UnlinkMac(s)
  BY <1>0, <1>4, TypesOfStep DEF AcceptIos, AcceptTvos, UnlinkMac, UnlinkPartial
<1>5. CASE ReadEntries(s) \/ ReadMacEntries(s)
  <2>1. [seen[s] EXCEPT !.app = app] \in Seen
    BY <1>0 DEF Seen
  <2> QED
    BY <1>0, <1>5, <2>1, TypesOfStep DEF ReadEntries, ReadMacEntries
<1>9. CASE ReadComposition(s)
  <2>1. [seen[s] EXCEPT !.app.lists = app.lists] \in Seen
    BY <1>0 DEF Seen, App
  <2> QED
    BY <1>0, <1>9, <2>1, TypesOfStep DEF ReadComposition
<1>6. CASE OpenPartial(s)
  BY <1>0, <1>6, TypesOfStep DEF OpenPartial
<1>7. CASE CloseArchive(s) \/ Publish(s)
  BY <1>7, TypesOfArchive DEF CloseArchive, Publish
<1>8. CASE TestArchive(s)
  BY <1>0, <1>8, TypesOfStep DEF TestArchive
<1> QED
  BY <1>1, <1>2, <1>3, <1>4, <1>5, <1>9, <1>6, <1>7, <1>8 DEF Package

LEMMA TypesOfAudit ==
  ASSUME NEW s \in Shell, ReleaseInv, Audit(s)
  PROVE  TypeOK'
<1> USE DEF Label, At, files
<1>0. /\ TypeOK
      /\ Blank \in Seen /\ seen[s] \in Seen /\ app \in App /\ archive \in Archive
      /\ partial \subseteq Shell \cup {"torn"}
  BY Types DEF ReleaseInv, TypeOK, Seen
<1>1. ASSUME NEW c \in {head, Accepted}, StartAudit(s, c) PROVE TypeOK'
  <2>1. [Blank EXCEPT !.commit = c] \in Seen
    BY <1>0, Types DEF Seen, TypeOK
  <2> QED
    BY <1>0, <1>1, <2>1, TypesOfStep DEF StartAudit
<1>2. CASE Passes(s)
  <2>1. [seen[s] EXCEPT !.archive = archive] \in Seen
    BY <1>0 DEF Seen
  <2> QED
    BY <1>0, <1>2, <2>1, TypesOfStep DEF Passes
<1>3. CASE Report(s)
  <2>1. /\ pc' = [pc EXCEPT ![s] = "idle"] /\ seen' = [seen EXCEPT ![s] = Blank]
        /\ UNCHANGED <<repo, app, partial, archive>>
        /\ report' = [audited |-> seen[s].archive, printed |-> archive,
                      expected |-> seen[s].commit]
    BY <1>3 DEF Report, Goto, Keep
  <2>2. seen[s].commit \in Tree
    BY <1>3 DEF Report, ReleaseInv, AuditFits
  <2> QED
    BY <1>0, <2>1, <2>2 DEF TypeOK, Seen, repo
<1> QED
  BY <1>1, <1>2, <1>3 DEF Audit, InspectIos, InspectUnpinned

LEMMA TypesOfWorld ==
  ASSUME TypeOK, \/ \E f \in File, c \in Content : Edit(f, c)
                 \/ Commit \/ Rebuild
  PROVE  TypeOK'
<1>1. ASSUME NEW f \in File, NEW c \in Content, Edit(f, c) PROVE TypeOK'
  <2>1. work' \in Tree /\ edits' \in 0 .. MaxEdits
    BY <1>1, ReleaseAssumption DEF Edit, TypeOK, Tree
  <2>2. \A s \in Shell : Blank \in Seen /\ [seen[s] EXCEPT !.calm = FALSE] \in Seen
    BY Types DEF TypeOK, Seen
  <2>3. seen' \in [Shell -> Seen]
    BY <1>1, <2>2 DEF Edit
  <2> QED
    BY <1>1, <2>1, <2>3 DEF Edit, TypeOK, files, Seen
<1>2. CASE Commit
  BY <1>2 DEF Commit, TypeOK, files
<1>3. CASE Rebuild
  <2>1. app' \in App
    BY <1>3, Types DEF Rebuild, TypeOK, App
  <2> QED
    BY <1>3, <2>1 DEF Rebuild, TypeOK, repo
<1> QED
  BY <1>1, <1>2, <1>3

(* ------------------------------ the steps ------------------------------ *)

\* A step of s that touches neither the app nor the report, and after which s
\* neither refreshes nor audits.
Elsewhere(s) ==
    /\ \E label : label \notin Refreshing \cup {"inspect", "report"} /\ Goto(s, label)
    /\ \A t \in Shell \ {s} : seen'[t] = seen[t]
    /\ UNCHANGED <<app, report>>

LEMMA ElsewhereKeeps ==
  ASSUME NEW s \in Shell, ReleaseInv, Elsewhere(s), TypeOK'
  PROVE  ReleaseInv'
<1>1. /\ pc'[s] \notin Refreshing \cup {"inspect", "report"}
      /\ \A t \in Shell \ {s} : pc'[t] = pc[t] /\ seen'[t] = seen[t]
      /\ UNCHANGED <<repo, app, report>>
  BY DEF ReleaseInv, TypeOK, Elsewhere, Goto
<1>2. OneRefresh'
  BY <1>1 DEF ReleaseInv, OneRefresh, Pinned, repo
<1>3. CompiledIsNow'
  BY <1>1 DEF ReleaseInv, CompiledIsNow, repo
<1>4. LinkedIsCompiled'
  BY <1>1 DEF ReleaseInv, LinkedIsCompiled, Refreshing
<1>5. AuditFits'
  BY <1>1 DEF ReleaseInv, AuditFits, Pinned, repo
<1>6. PassedIsAccepted'
  BY <1>1 DEF ReleaseInv, PassedIsAccepted, Pinned, repo
<1> QED
  BY <1>2, <1>3, <1>4, <1>5, <1>6 DEF ReleaseInv

LEMMA StopKeeps ==
  ASSUME NEW s \in Shell, ReleaseInv, Stop(s)
  PROVE  ReleaseInv'
<1>1. TypeOK'
  BY TypesOfArchive DEF ReleaseInv, Stop
<1>2. Elsewhere(s)
  BY DEF Elsewhere, Stop, Keep, Refreshing, ReleaseInv, TypeOK
<1> QED
  BY <1>1, <1>2, ElsewhereKeeps

LEMMA PackageKeeps ==
  ASSUME NEW s \in Shell, ReleaseInv, Package(s)
  PROVE  ReleaseInv'
<1>1. TypeOK'
  BY TypesOfPackage DEF ReleaseInv
<1>2. \A record, t : Keep(s, record) /\ t \in Shell \ {s} => seen'[t] = seen[t]
  BY DEF Keep, ReleaseInv, TypeOK
<1>3. \/ StartPackage(s) \/ ReadHead(s) \/ AuditApp(s) \/ HashMac(s)
      \/ ReadEntries(s) \/ ReadComposition(s) \/ ReadMacEntries(s) \/ TestArchive(s)
      => Elsewhere(s)
  BY <1>2 DEF Elsewhere, Refreshing, StartPackage, ReadHead, AuditApp, HashMac,
    ReadEntries, ReadComposition, ReadMacEntries, TestArchive, files
<1>4. \/ AcceptIos(s) \/ AcceptTvos(s) \/ UnlinkMac(s)
      \/ OpenPartial(s) \/ CloseArchive(s) \/ Publish(s)
      => Elsewhere(s)
  BY DEF Elsewhere, Refreshing, AcceptIos, AcceptTvos, UnlinkMac,
    OpenPartial, CloseArchive, Publish
<1> QED
  BY <1>1, <1>3, <1>4, ElsewhereKeeps DEF Package

LEMMA AuditKeeps ==
  ASSUME NEW s \in Shell, ReleaseInv, Audit(s)
  PROVE  ReleaseInv'
<1> USE DEF At, files, Pinned, repo
<1>0. TypeOK /\ TypeOK'
  BY TypesOfAudit DEF ReleaseInv
<1>1. ASSUME NEW c \in {head, Accepted}, StartAudit(s, c) PROVE ReleaseInv'
  <2>1. /\ pc' = [pc EXCEPT ![s] = "inspect"] /\ seen'[s].commit = c
        /\ \A t \in Shell \ {s} : seen'[t] = seen[t]
        /\ UNCHANGED <<repo, files>>
    BY <1>0, <1>1 DEF StartAudit, Goto, Keep, TypeOK, Blank
  <2>2. c \in Tree /\ (Pinned => c["hosts"] = Accepted["hosts"])
    <3>1. Accepted["hosts"] = "accepted"
      BY DEF Accepted, File
    <3> QED
      BY <1>0, <1>1, <3>1, Types DEF StartAudit, SourceEquivalent, TypeOK
  <2>3. \A t \in Shell : pc'[t] = IF t = s THEN "inspect" ELSE pc[t]
    BY <1>0, <2>1 DEF TypeOK
  <2>4. OneRefresh' /\ CompiledIsNow' /\ LinkedIsCompiled'
    BY <2>1, <2>3 DEF ReleaseInv, OneRefresh, CompiledIsNow, LinkedIsCompiled, Refreshing
  <2>5. AuditFits'
    BY <2>1, <2>2, <2>3 DEF ReleaseInv, AuditFits
  <2>6. PassedIsAccepted'
    BY <2>1 DEF ReleaseInv, PassedIsAccepted
  <2> QED
    BY <1>0, <2>4, <2>5, <2>6 DEF ReleaseInv
<1>2. CASE Passes(s) /\ (Pinned => AcceptedBuild(archive.app))
  <2>1. /\ pc[s] = "inspect" /\ pc' = [pc EXCEPT ![s] = "report"]
        /\ seen'[s].archive = archive /\ seen'[s].commit = seen[s].commit
        /\ \A t \in Shell \ {s} : seen'[t] = seen[t]
        /\ UNCHANGED <<repo, files>>
    BY <1>0, <1>2 DEF Passes, Goto, Keep, TypeOK
  <2>2. \A t \in Shell : pc'[t] = IF t = s THEN "report" ELSE pc[t]
    BY <1>0, <2>1 DEF TypeOK
  <2>3. /\ archive.open = "closed" /\ archive.hash = archive.app.exe
        /\ archive.commit = seen[s].commit
        /\ Pinned => archive.app.exe = Accepted
    BY <1>2 DEF Passes, Intact, HashAgrees, NamesCommit, AcceptedBuild
  <2>4. OneRefresh' /\ CompiledIsNow' /\ LinkedIsCompiled'
    BY <2>1, <2>2 DEF ReleaseInv, OneRefresh, CompiledIsNow, LinkedIsCompiled, Refreshing
  <2>5. AuditFits'
    BY <2>1, <2>2, <2>3 DEF ReleaseInv, AuditFits
  <2>6. PassedIsAccepted'
    BY <2>1 DEF ReleaseInv, PassedIsAccepted
  <2> QED
    BY <1>0, <2>4, <2>5, <2>6 DEF ReleaseInv
<1>3. CASE Report(s)
  <2>1. /\ pc[s] = "report" /\ pc' = [pc EXCEPT ![s] = "idle"]
        /\ \A t \in Shell \ {s} : seen'[t] = seen[t]
        /\ UNCHANGED <<repo, app>>
        /\ report' = [audited |-> seen[s].archive, printed |-> archive,
                      expected |-> seen[s].commit]
    BY <1>0, <1>3 DEF Report, Goto, Keep, TypeOK
  <2>2. \A t \in Shell : pc'[t] = IF t = s THEN "idle" ELSE pc[t]
    BY <1>0, <2>1 DEF TypeOK
  <2>3. OneRefresh' /\ CompiledIsNow' /\ LinkedIsCompiled'
    BY <2>1, <2>2 DEF ReleaseInv, OneRefresh, CompiledIsNow, LinkedIsCompiled, Refreshing
  <2>4. AuditFits'
    BY <2>1, <2>2 DEF ReleaseInv, AuditFits
  <2>5. PassedIsAccepted'
    BY <2>1 DEF ReleaseInv, AuditFits, PassedIsAccepted
  <2> QED
    BY <1>0, <2>3, <2>4, <2>5 DEF ReleaseInv
<1> QED
  BY <1>1, <1>2, <1>3 DEF Audit, InspectIos, InspectUnpinned

LEMMA RefreshKeeps ==
  ASSUME NEW s \in Shell, ReleaseInv, Refresh(s)
  PROVE  ReleaseInv'
<1> USE DEF At, files, repo
<1>0. TypeOK /\ TypeOK'
  BY TypesOfRefresh DEF ReleaseInv
<1>1. ASSUME NEW label \in Refreshing \cup {"idle"},
             pc[s] \in Refreshing \/ (Pinned /\ \A t \in Shell : pc[t] \notin Refreshing),
             pc' = [pc EXCEPT ![s] = label],
             UNCHANGED <<repo, report>>,
             \A t \in Shell \ {s} : seen'[t] = seen[t]
      PROVE  /\ OneRefresh' /\ AuditFits' /\ PassedIsAccepted'
             /\ \A t \in Shell \ {s} : pc'[t] = pc[t] /\ pc[t] \notin Refreshing
  <2>1. \A t \in Shell : pc'[t] = IF t = s THEN label ELSE pc[t]
    BY <1>0, <1>1 DEF TypeOK
  <2>2. Pinned /\ \A t \in Shell \ {s} : pc[t] \notin Refreshing
    BY <1>1 DEF ReleaseInv, OneRefresh
  <2>3. OneRefresh'
    BY <1>1, <2>1, <2>2 DEF OneRefresh, Pinned
  <2>4. label \notin {"inspect", "report"}
    BY DEF Refreshing
  <2>5. AuditFits'
    BY <1>1, <2>1, <2>4 DEF ReleaseInv, AuditFits, Pinned
  <2>6. PassedIsAccepted'
    BY <1>1 DEF ReleaseInv, PassedIsAccepted, Pinned
  <2> QED
    BY <2>1, <2>2, <2>3, <2>5, <2>6
<1>2. CASE CompileHosts(s)
  <2>1. /\ pc' = [pc EXCEPT ![s] = "overlay"] /\ UNCHANGED <<repo, files>>
        /\ Pinned /\ \A t \in Shell : pc[t] \notin Refreshing
        /\ seen' = [seen EXCEPT ![s] = [Blank EXCEPT !.app.exe = work]]
    BY <1>2 DEF CompileHosts, Goto, Keep
  <2>2. /\ pc'[s] = "overlay" /\ seen'[s].app.exe = work
        /\ \A t \in Shell \ {s} : seen'[t] = seen[t]
    BY <1>0, <2>1 DEF TypeOK, Blank, NoApp
  <2>3. /\ OneRefresh' /\ AuditFits' /\ PassedIsAccepted'
        /\ \A t \in Shell \ {s} : pc'[t] = pc[t] /\ pc[t] \notin Refreshing
    BY <1>1, <2>1, <2>2 DEF Refreshing
  <2>4. CompiledIsNow' /\ LinkedIsCompiled'
    BY <1>0, <2>1, <2>2, <2>3 DEF CompiledIsNow, LinkedIsCompiled, Refreshing, TypeOK
  <2> QED
    BY <1>0, <2>3, <2>4 DEF ReleaseInv
<1>3. CASE CompileOverlay(s)
  <2>1. /\ pc[s] = "overlay" /\ pc' = [pc EXCEPT ![s] = "replace"] /\ UNCHANGED <<repo, files>>
        /\ seen' = [seen EXCEPT ![s] = [seen[s] EXCEPT !.app.exe["fps"] = work["fps"]]]
    BY <1>3 DEF CompileOverlay, Goto, Keep
  <2>2. seen[s].app.exe \in Tree /\ (seen[s].calm => seen[s].app.exe = work)
    BY <2>1 DEF ReleaseInv, CompiledIsNow, Refreshing
  <2>3. /\ pc'[s] = "replace"
        /\ seen'[s].app.exe = [seen[s].app.exe EXCEPT !["fps"] = work["fps"]]
        /\ seen'[s].calm = seen[s].calm
        /\ \A t \in Shell \ {s} : seen'[t] = seen[t]
    BY <1>0, <2>1 DEF TypeOK, App
  <2>4. [seen[s].app.exe EXCEPT !["fps"] = work["fps"]] \in Tree
    BY <1>0, <2>2 DEF TypeOK, Tree, File
  <2>5. seen'[s].calm => seen'[s].app.exe = work
    BY <1>0, <2>2, <2>3 DEF TypeOK, Tree
  <2>6. /\ OneRefresh' /\ AuditFits' /\ PassedIsAccepted'
        /\ \A t \in Shell \ {s} : pc'[t] = pc[t] /\ pc[t] \notin Refreshing
    BY <1>1, <2>1, <2>3 DEF Refreshing
  <2>7. CompiledIsNow' /\ LinkedIsCompiled'
    BY <2>1, <2>3, <2>4, <2>5, <2>6 DEF CompiledIsNow, LinkedIsCompiled, Refreshing
  <2> QED
    BY <1>0, <2>6, <2>7 DEF ReleaseInv
<1>4. CASE ReplaceApp(s)
  <2>1. /\ pc[s] = "replace" /\ pc' = [pc EXCEPT ![s] = "link"]
        /\ UNCHANGED <<repo, report, seen>>
    BY <1>4 DEF ReplaceApp, Goto
  <2>2. pc'[s] = "link"
    BY <1>0, <2>1 DEF TypeOK
  <2>3. /\ OneRefresh' /\ AuditFits' /\ PassedIsAccepted'
        /\ \A t \in Shell \ {s} : pc'[t] = pc[t] /\ pc[t] \notin Refreshing
    BY <1>1, <2>1 DEF Refreshing
  <2>4. CompiledIsNow' /\ LinkedIsCompiled'
    BY <2>1, <2>2, <2>3 DEF ReleaseInv, CompiledIsNow, LinkedIsCompiled, Refreshing
  <2> QED
    BY <1>0, <2>3, <2>4 DEF ReleaseInv
<1>5. CASE Link(s)
  <2>1. /\ pc[s] = "link" /\ pc' = [pc EXCEPT ![s] = "record"]
        /\ UNCHANGED <<repo, report, seen>>
        /\ app' = [app EXCEPT !.exe = seen[s].app.exe]
    BY <1>5 DEF Link, Goto
  <2>2. pc'[s] = "record" /\ app'.exe = seen'[s].app.exe
    BY <1>0, <2>1 DEF TypeOK, App
  <2>3. /\ OneRefresh' /\ AuditFits' /\ PassedIsAccepted'
        /\ \A t \in Shell \ {s} : pc'[t] = pc[t] /\ pc[t] \notin Refreshing
    BY <1>1, <2>1 DEF Refreshing
  <2>4. CompiledIsNow'
    BY <2>1, <2>2, <2>3 DEF ReleaseInv, CompiledIsNow, Refreshing
  <2>5. LinkedIsCompiled'
    BY <2>2, <2>3 DEF LinkedIsCompiled, Refreshing
  <2> QED
    BY <1>0, <2>3, <2>4, <2>5 DEF ReleaseInv
<1>6. CASE RecordComposition(s)
  <2>1. /\ pc[s] = "record" /\ pc' = [pc EXCEPT ![s] = "idle"]
        /\ UNCHANGED <<repo, report>>
        /\ seen' = [seen EXCEPT ![s] = Blank]
    BY <1>6 DEF RecordComposition, Goto, Keep
  <2>2. pc'[s] = "idle" /\ \A t \in Shell \ {s} : seen'[t] = seen[t]
    BY <1>0, <2>1 DEF TypeOK
  <2>3. /\ OneRefresh' /\ AuditFits' /\ PassedIsAccepted'
        /\ \A t \in Shell \ {s} : pc'[t] = pc[t] /\ pc[t] \notin Refreshing
    BY <1>1, <2>1, <2>2 DEF Refreshing
  <2>4. CompiledIsNow' /\ LinkedIsCompiled'
    BY <2>2, <2>3 DEF CompiledIsNow, LinkedIsCompiled, Refreshing
  <2> QED
    BY <1>0, <2>3, <2>4 DEF ReleaseInv
<1> QED
  BY <1>2, <1>3, <1>4, <1>5, <1>6 DEF Refresh

LEMMA WorldKeeps ==
  ASSUME ReleaseInv, \/ \E f \in File, c \in Content : Edit(f, c)
                     \/ Commit \/ Rebuild
  PROVE  ReleaseInv'
<1>0. TypeOK /\ TypeOK'
  BY TypesOfWorld DEF ReleaseInv
<1>1. ASSUME NEW f \in File, NEW c \in Content, Edit(f, c) PROVE ReleaseInv'
  <2>1. /\ UNCHANGED <<platform, files, pc>>
        /\ \A s \in Shell : seen'[s] = IF pc[s] = "idle" THEN Blank
                                       ELSE [seen[s] EXCEPT !.calm = FALSE]
    BY <1>1 DEF Edit, At
  <2>2. \A s \in Shell : pc[s] # "idle" =>
           /\ seen'[s].app = seen[s].app /\ seen'[s].calm = FALSE
           /\ seen'[s].commit = seen[s].commit /\ seen'[s].archive = seen[s].archive
    BY <1>0, <2>1 DEF TypeOK
  <2>3. OneRefresh' /\ PassedIsAccepted'
    BY <2>1 DEF ReleaseInv, OneRefresh, PassedIsAccepted, Pinned, files
  <2>4. CompiledIsNow'
    BY <2>1, <2>2 DEF ReleaseInv, CompiledIsNow, Refreshing
  <2>5. LinkedIsCompiled'
    BY <2>1, <2>2 DEF ReleaseInv, LinkedIsCompiled, files
  <2>6. AuditFits'
    BY <2>1, <2>2 DEF ReleaseInv, AuditFits, Pinned
  <2> QED
    BY <1>0, <2>3, <2>4, <2>5, <2>6 DEF ReleaseInv
<1>2. CASE Commit
  BY <1>0, <1>2 DEF Commit, ReleaseInv, OneRefresh, PassedIsAccepted, CompiledIsNow,
    LinkedIsCompiled, AuditFits, Pinned, files
<1>3. CASE Rebuild
  <2>1. ~Pinned /\ UNCHANGED <<repo, report, pc, seen>>
    BY <1>3 DEF Rebuild
  <2>2. LinkedIsCompiled'
    BY <2>1 DEF ReleaseInv, OneRefresh, LinkedIsCompiled, Refreshing
  <2>3. OneRefresh' /\ PassedIsAccepted' /\ CompiledIsNow' /\ AuditFits'
    BY <2>1 DEF ReleaseInv, OneRefresh, PassedIsAccepted, CompiledIsNow, AuditFits, Pinned,
      repo
  <2> QED
    BY <1>0, <2>2, <2>3 DEF ReleaseInv
<1> QED
  BY <1>1, <1>2, <1>3

\* Every step keeps the invariant.
LEMMA ReleaseStep == ReleaseInv /\ [Next]_vars => ReleaseInv'
<1> SUFFICES ASSUME ReleaseInv, [Next]_vars PROVE ReleaseInv'
  OBVIOUS
<1>1. CASE UNCHANGED vars
  BY <1>1 DEF vars, repo, files, ReleaseInv, TypeOK, OneRefresh, CompiledIsNow,
    LinkedIsCompiled, AuditFits, PassedIsAccepted, Pinned
<1> QED
  BY <1>1, RefreshKeeps, PackageKeeps, AuditKeeps, StopKeeps, WorldKeeps DEF Next

\* The files, the working tree and what the shells have read stay well typed;
\* one shell at a time refreshes, and what it has compiled is what it says.
THEOREM ReleaseInductive == Spec => []ReleaseInv
  BY ReleaseInit, ReleaseStep, PTL DEF Spec

\* An audit that passes is right about the archive it read, for any number of
\* shells and edits.
THEOREM AuditsAreRight == Spec => []PassedIsAccepted
<1>1. ReleaseInv => PassedIsAccepted
  BY DEF ReleaseInv
<1> QED
  BY <1>1, ReleaseInductive, PTL

\* A composition lists the overlay that was linked, and all that was linked
\* when nothing was edited meanwhile.
THEOREM CompositionsAreRight == Spec => ListsWhatWasLinked
<1> DEFINE Lists == \A s \in Shell : At(s, "record") /\ app'.lists # app.lists =>
                        /\ app'.lists["fps"] = app'.exe["fps"]
                        /\ seen[s].calm => app'.lists = app'.exe
<1>1. ASSUME ReleaseInv, [Next]_vars PROVE Lists
  <2> SUFFICES ASSUME NEW s \in Shell, pc[s] = "record", app'.lists # app.lists
               PROVE  /\ app'.lists["fps"] = app'.exe["fps"]
                      /\ seen[s].calm => app'.lists = app'.exe
    BY DEF At
  <2>1. Pinned /\ \A t \in Shell : pc[t] \in Refreshing => t = s
    BY <1>1 DEF ReleaseInv, OneRefresh, Refreshing
  <2>2. \A t \in Shell : ~Link(t)
    BY <2>1 DEF Link, At, Refreshing
  <2>3. \A t \in Shell : ~ReplaceApp(t)
    BY <2>1 DEF ReplaceApp, At, Refreshing
  <2>4. \A t \in Shell : Package(t) \/ Audit(t) \/ Stop(t) => app' = app
    BY DEF Package, StartPackage, ReadHead, AuditApp, AcceptIos, AcceptTvos, ReadEntries,
      ReadComposition, HashMac, ReadMacEntries, UnlinkMac, OpenPartial, CloseArchive, Publish, TestArchive,
      Audit, StartAudit, InspectIos, InspectUnpinned, Passes, Report, Stop, files
  <2>5. (\E f \in File, c \in Content : Edit(f, c)) \/ Commit \/ Rebuild => app' = app
    BY <2>1 DEF Edit, Commit, Rebuild, files
  <2>6. PICK t \in Shell : RecordComposition(t)
    BY <1>1, <2>2, <2>3, <2>4, <2>5 DEF Next, Refresh, CompileHosts, CompileOverlay, files,
      vars
  <2>7. t = s
    BY <2>1, <2>6 DEF RecordComposition, At, Refreshing
  <2>8. /\ app.exe = seen[s].app.exe /\ app.exe \in Tree
        /\ seen[s].calm => app.exe = work
    BY <1>1 DEF ReleaseInv, LinkedIsCompiled, CompiledIsNow, Refreshing
  <2>9. app'.lists = Refreshed(s) /\ app'.exe = app.exe
    BY <1>1, <2>6, <2>7 DEF RecordComposition, ReleaseInv, TypeOK, App
  <2>10. Refreshed(s)["fps"] = app.exe["fps"] /\ Refreshed(s)["hosts"] = work["hosts"]
    BY <2>8 DEF Refreshed
  <2>11. seen[s].calm => Refreshed(s) = app.exe
    <3> SUFFICES ASSUME seen[s].calm PROVE Refreshed(s) = app.exe
      OBVIOUS
    <3>1. app.exe["hosts"] = work["hosts"]
      BY <2>8
    <3>2. app.exe = [f \in File |-> app.exe[f]]
      BY <2>8 DEF Tree
    <3>3. Refreshed(s) = [f \in File |-> Refreshed(s)[f]]
      BY DEF Refreshed, File
    <3>4. \A f \in File : Refreshed(s)[f] = app.exe[f]
      BY <2>10, <3>1 DEF File
    <3> QED
      BY <3>2, <3>3, <3>4
  <2> QED
    BY <2>9, <2>10, <2>11
<1>2. ReleaseInv /\ [Next]_vars => [Lists]_vars
  BY <1>1
<1> QED
  BY <1>2, ReleaseInductive, PTL DEF Spec, ListsWhatWasLinked
=============================================================================
