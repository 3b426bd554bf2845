---------------------------- MODULE BuilderProofs ----------------------------
(* What the builder uses and what it stamps, for every set of images,      *)
(* packs and source dependencies, any number of versions and of edits.     *)
EXTENDS Builder, Sequences, TLAPS

\* The labels of a translation in the making, and those past its validation.
Making == {"translate", "functions", "inject", "generate", "emit", "seal", "check"}
Late ==
    {"prepare", "fetch", "submodules", "discio", "stage", "verify", "stamp", "compile", "package"}

\* Which command can be where, and what it was started for.
CmdFits ==
    /\ pc \in {"clone", "checkout", "pack", "unpack"} => cmd = "bootstrap"
    /\ pc \in {"inputs", "extract", "publish"} => cmd = "build"
    /\ pc = "place" => cmd \in {"bootstrap", "build"}
    /\ pc = "pin" => cmd = "update"
    /\ pc \in Making \cup Late => cmd \in {"build", "shadow"}
    /\ cmd \in {"bootstrap", "build", "shadow"} => job.version \in Version
    /\ cmd = "build" => job.image \in Accepted

\* No tree is ever half filled under its final name.
TreesWhole ==
    /\ \A k \in Pack : root[k] \in {"none", "whole"}
    /\ \A i \in Accepted : disc[i] \in {"none", "whole"}

\* A build that is past its checks still has the inputs that it checked.
InputsStay ==
    cmd = "build" /\ pc \in {"extract", "publish"} \cup Making \cup Late =>
        /\ root[Pin] = "whole" /\ payload = Pin
        /\ pc \in Making \cup Late => disc[job.image] = "whole"

\* The order in which the parts of a translation come to be, in every
\* workspace, whatever was interrupted there.
PartsOrdered ==
    \A w \in Workspace :
        /\ part[w]["seal"] # None => part[w]["shards"] # None
        /\ part[w]["shards"] # None =>
              \A x \in {"translator", "functions", "hooks", "data"} : part[w][x] # None

\* What the running command has made so far.
PartsMade ==
    /\ pc \in {"functions", "inject", "generate", "emit"} =>
          part[Here]["translator"] # None /\ part[Here]["shards"] = None
    /\ pc \in {"inject", "generate", "emit"} => part[Here]["functions"] # None
    /\ pc \in {"generate", "emit"} => part[Here]["hooks"] # None
    /\ pc = "emit" => part[Here]["data"] # None
    /\ pc = "seal" => part[Here]["shards"] # None
    /\ pc \in Late => part[Here]["seal"] # None

\* What is compiled was verified.
RuntimeOfOne ==
    pc \in {"stamp", "compile", "package"} =>
        \E v \in Version : \A f \in RuntimeFile : runtime[Here][f] = v

\* A workspace in which no build was busy during an edit holds one version.
Calm(w) == w \in Key /\ w \notin disturbed
CachesOfOne ==
    /\ \A w \in Key : Calm(w) =>
          /\ \A x \in Part : part[w][x] \in {None, w[2]}
          /\ \A f \in RuntimeFile : runtime[w][f] \in {None, w[2]}
    /\ cmd = "build" /\ Calm(Here) =>
          /\ source = job.version
          /\ pc = "stage" => staged["runtime"] = job.version
          /\ pc = "compile" => app.names = job.version
          /\ pc = "package" => app = [from |-> {job.version}, names |-> job.version]

BuilderInv ==
    /\ TypeOK /\ CmdFits
    /\ TreesWhole /\ InputsStay
    /\ PartsOrdered /\ PartsMade /\ RuntimeOfOne
    /\ CachesOfOne /\ IpaTruthful

\* The workspace of a command, and that shadow's is not a build's.
LEMMA Workspaces ==
  ASSUME TypeOK, CmdFits, cmd \in {"build", "shadow"}
  PROVE  /\ Here \in Workspace
         /\ cmd = "build" => Here = <<job.image, job.version>> /\ Here \in Key
         /\ cmd = "shadow" => Here = Shadow /\ Here \notin Key
<1>1. Shadow \notin Key
  <2>1. ASSUME NEW i, NEW v PROVE Shadow # <<i, v>>
    <3>1. Len(Shadow) = 1 /\ Len(<<i, v>>) = 2
      BY DEF Shadow
    <3> QED
      BY <3>1
  <2> QED
    BY <2>1 DEF Key
<1>2. CASE cmd = "build"
  BY <1>2 DEF Here, CacheKey, Workspace, Key, CmdFits
<1>3. CASE cmd = "shadow"
  BY <1>1, <1>3 DEF Here, Workspace
<1> QED
  BY <1>2, <1>3

LEMMA BuilderInit == Init => BuilderInv
<1> SUFFICES ASSUME Init PROVE BuilderInv
  OBVIOUS
<1>1. TypeOK
  <2>1. NoParts \in [Part -> Version \cup {None}] /\ NoFiles \in [RuntimeFile -> Version \cup {None}]
    BY DEF NoParts, NoFiles
  <2>2. NoApp \in App /\ NoJob \in Job
    BY DEF NoApp, App, NoJob, Job
  <2>3. part \in [Workspace -> [Part -> Version \cup {None}]]
        /\ runtime \in [Workspace -> [RuntimeFile -> Version \cup {None}]]
    BY <2>1 DEF Init
  <2>4. clone \in [Clone -> {"none", "empty", "default", "bare", "pinned"}]
        /\ root \in [Pack -> Tree] /\ disc \in [Accepted -> Tree]
    BY DEF Init, Tree
  <2>5. edits \in 0 .. MaxEdits
    BY BuilderAssumption DEF Init
  <2> QED
    BY <2>1, <2>2, <2>3, <2>4, <2>5 DEF Init, TypeOK
<1>5. CmdFits
  BY DEF Init, CmdFits, Making, Late
<1>2. TreesWhole /\ InputsStay
  BY DEF Init, TreesWhole, InputsStay
<1>3. PartsOrdered /\ PartsMade /\ RuntimeOfOne
  BY DEF Init, PartsOrdered, PartsMade, RuntimeOfOne, NoParts, Part, Late
<1>4. CachesOfOne /\ IpaTruthful
  BY DEF Init, CachesOfOne, IpaTruthful, NoParts, NoFiles, Workspace
<1> QED
  BY <1>1, <1>5, <1>2, <1>3, <1>4 DEF BuilderInv

(* --------------------- types, and where commands are ------------------- *)

\* The steps that only move on, and those that change one kind of thing.
MoveOn ==
    \/ InputsReady \/ ReuseDisc \/ ReuseTranslation \/ CheckTranslation
    \/ ReuseRuntime \/ VerifyRuntime
Fetching ==
    \/ \E d \in Clone : CloneOne(d) \/ CheckoutOne(d)
    \/ FetchDawn \/ InitDolphin \/ FetchDolphin \/ FetchSubmodules \/ BuildDiscio \/ FinishDiscio
Filling == DownloadPack \/ UnpackArchive \/ PlacePack \/ ExtractDisc \/ PublishDisc
Translating ==
    \/ StageTranslator \/ TranslateFunctions \/ InjectHooks \/ GenerateData
    \/ EmitShards \/ SealShards
Compiling == StageRuntime \/ PublishRuntime \/ BuildApp \/ StampApp
Leaving == Stop \/ FetchPayload \/ PackageIpa
Starting == StartBootstrap \/ StartShadow \/ \E i \in Image : StartBuild(i)
Outside == \/ \E k \in Pack : FetchLatest(k)
           \/ \E v \in Version : EditSource(v) \/ PinLatest(v)

LEMMA StepCases ==
  Next => \/ MoveOn \/ Fetching \/ Filling \/ Translating \/ Compiling
          \/ Leaving \/ Starting \/ Outside
  BY DEF Next, Bootstrap, Build, MoveOn, Fetching, Filling, Translating, Compiling,
    Leaving, Starting, Outside

\* What is written into the workspace of a command keeps its type.
LEMMA PartTyped ==
  ASSUME TypeOK, NEW w \in Workspace, NEW x \in Part
  PROVE  [part EXCEPT ![w][x] = source] \in [Workspace -> [Part -> Version \cup {None}]]
<1>1. [part[w] EXCEPT ![x] = source] \in [Part -> Version \cup {None}]
  BY DEF TypeOK
<1> QED
  BY <1>1 DEF TypeOK

LEMMA MoveOnTyped ==
  ASSUME TypeOK, CmdFits, MoveOn
  PROVE  TypeOK' /\ CmdFits'
<1>1. UNCHANGED <<repo, inputs, outputs, cmd, job>>
  BY DEF MoveOn, InputsReady, ReuseDisc, ReuseTranslation, CheckTranslation, ReuseRuntime,
    VerifyRuntime, Goto
<1>2. TypeOK'
  BY <1>1 DEF TypeOK, repo, inputs, outputs, work
<1>3. \/ pc \in {"inputs", "extract"} \cup Making \cup Late
         /\ pc' \in {"extract"} \cup Making \cup Late /\ pc' # "fetch"
  BY DEF MoveOn, InputsReady, ReuseDisc, ReuseTranslation, CheckTranslation, ReuseRuntime,
    VerifyRuntime, Goto, At, Making, Late
<1>4. pc' = "extract" => cmd = "build"
  BY DEF MoveOn, InputsReady, ReuseDisc, ReuseTranslation, CheckTranslation, ReuseRuntime,
    VerifyRuntime, Goto, At, CmdFits
<1> QED
  BY <1>1, <1>2, <1>3, <1>4 DEF CmdFits, Making, Late

LEMMA FetchingTyped ==
  ASSUME TypeOK, CmdFits, Fetching
  PROVE  TypeOK' /\ CmdFits'
<1>1. UNCHANGED <<repo, archive, root, payload, disc, outputs, cmd, job>>
  BY DEF Fetching, CloneOne, CheckoutOne, FetchDawn, InitDolphin, FetchDolphin, FetchSubmodules,
    BuildDiscio, FinishDiscio, Goto
<1>2. /\ clone' \in [Clone -> {"none", "empty", "default", "bare", "pinned"}]
      /\ dawn' \in BOOLEAN /\ discio' \in {"none", "half", "built"}
  BY BuilderAssumption DEF TypeOK, Fetching, CloneOne, CheckoutOne, FetchDawn, InitDolphin,
    FetchDolphin, FetchSubmodules, BuildDiscio, FinishDiscio, Goto
<1>3. CmdFits'
  BY <1>1 DEF CmdFits, Fetching, CloneOne, CheckoutOne, FetchDawn, InitDolphin, FetchDolphin,
    FetchSubmodules, BuildDiscio, FinishDiscio, Goto, At, Making, Late
<1> QED
  BY <1>1, <1>2, <1>3 DEF TypeOK, repo, outputs, work

LEMMA FillingTyped ==
  ASSUME TypeOK, CmdFits, Filling
  PROVE  TypeOK' /\ CmdFits'
<1>1. UNCHANGED <<repo, clone, dawn, discio, payload, outputs, cmd, job>>
  BY DEF Filling, DownloadPack, UnpackArchive, PlacePack, ExtractDisc, PublishDisc, Goto
<1>2. CmdFits'
  BY <1>1 DEF CmdFits, Filling, DownloadPack, UnpackArchive, PlacePack, ExtractDisc,
    PublishDisc, Goto, At, Making, Late
<1>3. Pin \in Pack
  BY BuilderAssumption DEF CmdFits, Filling, DownloadPack, UnpackArchive, PlacePack, ExtractDisc,
    PublishDisc, At, Pin
<1>4. archive' \subseteq Pack /\ root' \in [Pack -> Tree] /\ disc' \in [Accepted -> Tree]
  BY <1>3 DEF TypeOK, Filling, DownloadPack, UnpackArchive, PlacePack, ExtractDisc,
    PublishDisc, Staged, Tree
<1> QED
  BY <1>1, <1>2, <1>4 DEF TypeOK, repo, outputs, work

LEMMA TranslatingTyped ==
  ASSUME TypeOK, CmdFits, Translating
  PROVE  TypeOK' /\ CmdFits'
<1>1. UNCHANGED <<repo, inputs, runtime, ipa, work, cmd, job>> /\ pc \in Making /\ pc' \in Making
  BY DEF Translating, StageTranslator, TranslateFunctions, InjectHooks, GenerateData,
    EmitShards, SealShards, Make, Goto, At, Making
<1>2. CmdFits'
  BY <1>1 DEF CmdFits, Making, Late
<1>3. Here \in Workspace
  BY <1>1, Workspaces DEF CmdFits
<1>4. source \in Version \cup {None} /\ part[Here] \in [Part -> Version \cup {None}]
  BY <1>3 DEF TypeOK
<1>5. part' \in [Workspace -> [Part -> Version \cup {None}]]
  <2>1. CASE StageTranslator
    <3>1. (IF cmd = "shadow" THEN NoParts ELSE part[Here]) \in [Part -> Version \cup {None}]
      BY <1>4 DEF NoParts
    <3>2. [(IF cmd = "shadow" THEN NoParts ELSE part[Here]) EXCEPT !["translator"] = source]
            \in [Part -> Version \cup {None}]
      BY <1>4, <3>1
    <3> QED
      BY <2>1, <3>2 DEF StageTranslator, TypeOK
  <2>2. CASE TranslateFunctions
    <3>1. [part[Here] EXCEPT !["functions"] = source, !["hooks"] = None]
            \in [Part -> Version \cup {None}]
      BY <1>4
    <3>2. part' = [part EXCEPT ![Here] =
                      [part[Here] EXCEPT !["functions"] = source, !["hooks"] = None]]
      BY <1>3, <2>2 DEF TranslateFunctions, Manifest, TypeOK
    <3> QED
      BY <3>1, <3>2 DEF TypeOK
  <2>3. CASE InjectHooks \/ GenerateData \/ EmitShards \/ SealShards
    BY <1>3, <2>3, PartTyped DEF InjectHooks, GenerateData, EmitShards, SealShards, Make,
      Manifest, Part
  <2> QED
    BY <2>1, <2>2, <2>3 DEF Translating
<1> QED
  BY <1>1, <1>2, <1>5 DEF TypeOK, repo, inputs, work

\* Past its validation a translation has all its parts.
LEMMA WholeWhenLate ==
  ASSUME TypeOK, CmdFits, PartsOrdered, PartsMade, pc \in Late, NEW x \in Part
  PROVE  part[Here][x] # None /\ part[Here][x] \in Version
<1>1. Here \in Workspace
  BY Workspaces DEF CmdFits
<1>2. part[Here]["seal"] # None /\ part[Here]["shards"] # None
      /\ \A y \in {"translator", "functions", "hooks", "data"} : part[Here][y] # None
  BY <1>1 DEF PartsMade, PartsOrdered
<1>3. part[Here][x] # None
  BY <1>2 DEF Part
<1> QED
  BY <1>1, <1>3 DEF TypeOK

LEMMA CompilingTyped ==
  ASSUME TypeOK, CmdFits, PartsOrdered, PartsMade, RuntimeOfOne, Compiling
  PROVE  TypeOK' /\ CmdFits'
<1>1. UNCHANGED <<repo, inputs, part, ipa, cmd, job>> /\ pc \in Late /\ pc' \in Late
  BY DEF Compiling, StageRuntime, PublishRuntime, BuildApp, StampApp, Goto, At, Late
<1>2. CmdFits'
  BY <1>1 DEF CmdFits, Making, Late
<1>3. Here \in Workspace
  BY <1>1, Workspaces DEF CmdFits
<1>4. staged' \in [RuntimeFile -> Version \cup {None}]
  BY DEF TypeOK, Compiling, StageRuntime, PublishRuntime, BuildApp, StampApp, NoFiles
<1>5. runtime' \in [Workspace -> [RuntimeFile -> Version \cup {None}]]
  <2>1. CASE PublishRuntime
    BY <1>3, <1>4, <2>1 DEF TypeOK, PublishRuntime
  <2>2. CASE ~PublishRuntime
    BY <2>2 DEF TypeOK, Compiling, StageRuntime, BuildApp, StampApp
  <2> QED
    BY <2>1, <2>2
<1>6. app' \in App
  <2>1. CASE BuildApp
    <3> DEFINE made == {part[Here][x] : x \in Part}
               run == {runtime[Here][f] : f \in RuntimeFile}
    <3>1. made \subseteq Version
      BY <1>1, WholeWhenLate
    <3>2. run \subseteq Version
      BY <2>1 DEF BuildApp, At, RuntimeOfOne
    <3>3. {source} \cup made \cup run \in SUBSET Version
      BY <3>1, <3>2 DEF TypeOK
    <3>4. app' = [app EXCEPT !.from = {source} \cup made \cup run] /\ app \in App
      BY <2>1 DEF BuildApp, TypeOK
    <3> HIDE DEF made, run
    <3> QED
      BY <3>3, <3>4 DEF App
  <2>2. CASE StampApp
    BY <2>2 DEF TypeOK, StampApp, NoApp, App
  <2>3. CASE StageRuntime \/ PublishRuntime
    BY <2>3 DEF TypeOK, StageRuntime, PublishRuntime
  <2> QED
    BY <2>1, <2>2, <2>3 DEF Compiling
<1> QED
  BY <1>1, <1>2, <1>4, <1>5, <1>6 DEF TypeOK, repo, inputs

LEMMA LeavingTyped ==
  ASSUME TypeOK, CmdFits, InputsStay, Leaving
  PROVE  TypeOK' /\ CmdFits'
<1>1. /\ UNCHANGED <<repo, clone, dawn, discio, archive, root, disc, part, runtime>>
      /\ pc' = "idle" /\ cmd' = "none" /\ job' = NoJob /\ staged' = NoFiles /\ app' = NoApp
  BY DEF Leaving, Stop, FetchPayload, PackageIpa, End, inputs
<1>2. payload' \in Pack \cup {None}
  <2>1. CASE FetchPayload
    BY <2>1, BuilderAssumption DEF FetchPayload, At, CmdFits, Pin
  <2>2. CASE Stop \/ PackageIpa
    BY <2>2 DEF TypeOK, Stop, PackageIpa, inputs
  <2> QED
    BY <2>1, <2>2 DEF Leaving
<1>3. ipa' \in Ipa \cup {None}
  <2>1. CASE PackageIpa /\ cmd = "build"
    <3>1. pc \in Late /\ Pin \in Pack
      BY <2>1, BuilderAssumption DEF PackageIpa, At, Late, CmdFits, Pin
    <3>2. <<job.image, job.version>> \in Key /\ payload \in Pack
      BY <2>1, <3>1 DEF CmdFits, InputsStay, Key
    <3>3. ipa' = [key |-> <<job.image, job.version>>, app |-> app, pack |-> payload,
                  calm |-> Here \notin disturbed]
      BY <2>1 DEF PackageIpa
    <3> QED
      BY <3>2, <3>3 DEF Ipa, TypeOK
  <2>2. CASE PackageIpa /\ cmd # "build"
    BY <2>2 DEF PackageIpa, At, CmdFits, Late
  <2>3. CASE Stop \/ FetchPayload
    BY <2>3 DEF TypeOK, Stop, FetchPayload
  <2> QED
    BY <2>1, <2>2, <2>3 DEF Leaving
<1>4. NoJob \in Job /\ NoApp \in App /\ NoFiles \in [RuntimeFile -> Version \cup {None}]
  BY DEF NoJob, Job, NoApp, App, NoFiles
<1>5. CmdFits'
  BY <1>1 DEF CmdFits, Making, Late
<1> QED
  BY <1>1, <1>2, <1>3, <1>4, <1>5 DEF TypeOK, repo

LEMMA StartingTyped ==
  ASSUME TypeOK, CmdFits, Starting
  PROVE  TypeOK' /\ CmdFits'
<1>1. PICK command, first, image :
        /\ Launch(command, first, image)
        /\ \/ command = "bootstrap" /\ first = "clone" /\ image = None
           \/ command = "shadow" /\ first = "translate" /\ image = None
           \/ command = "build" /\ first = "inputs" /\ image \in Accepted
  BY DEF Starting, StartBootstrap, StartShadow, StartBuild, SelectProfile
<1>2. job' \in Job /\ job'.version \in Version /\ job'.image = image
  BY <1>1 DEF Launch, Job, TypeOK
<1>3. UNCHANGED <<repo, inputs, outputs>> /\ cmd' = command /\ pc' = first
  BY <1>1 DEF Launch
<1>4. CmdFits'
  BY <1>1, <1>2, <1>3 DEF CmdFits, Making, Late
<1> QED
  BY <1>1, <1>2, <1>3, <1>4 DEF TypeOK, repo, inputs, outputs, work

LEMMA OutsideTyped ==
  ASSUME TypeOK, CmdFits, Outside
  PROVE  TypeOK' /\ CmdFits'
<1>1. UNCHANGED <<clone, dawn, discio, root, payload, disc, outputs, job>>
  BY DEF Outside, FetchLatest, EditSource, PinLatest, inputs
<1>2. archive' \subseteq Pack /\ source' \in Version
      /\ cmd' \in {"none", "bootstrap", "build", "shadow", "update"}
  BY DEF TypeOK, Outside, FetchLatest, EditSource, PinLatest, inputs, repo
<1>3. edits' \in 0 .. MaxEdits
  BY BuilderAssumption DEF TypeOK, Outside, FetchLatest, EditSource, PinLatest, repo
<1>4. disturbed' \subseteq Key
  BY Workspaces DEF TypeOK, Outside, FetchLatest, EditSource, PinLatest, repo
<1>5. CmdFits'
  BY DEF CmdFits, Outside, FetchLatest, EditSource, PinLatest, At, Making, Late
<1> QED
  BY <1>1, <1>2, <1>3, <1>4, <1>5 DEF TypeOK, outputs, work

LEMMA StepTyped ==
  ASSUME BuilderInv, Next
  PROVE  TypeOK' /\ CmdFits'
  BY StepCases, MoveOnTyped, FetchingTyped, FillingTyped, TranslatingTyped, CompilingTyped,
    LeavingTyped, StartingTyped, OutsideTyped DEF BuilderInv

(* ------------------------------- the inputs ---------------------------- *)

\* No command but its own touches what a build has checked, and trees are
\* filled elsewhere and put in place whole.
LEMMA InputsStep ==
  ASSUME BuilderInv, Next
  PROVE  TreesWhole' /\ InputsStay'
<1> USE DEF BuilderInv
<1>1. CASE MoveOn
  <2>1. UNCHANGED <<root, disc, payload, cmd, job>>
    BY <1>1 DEF MoveOn, InputsReady, ReuseDisc, ReuseTranslation, CheckTranslation, ReuseRuntime,
      VerifyRuntime, Goto, inputs
  <2>2. TreesWhole' /\ Pin' = Pin
    BY <2>1 DEF TreesWhole, Pin
  <2>3. CASE InputsReady
    <3>1. root[Pin] = "whole" /\ payload = Pin /\ pc' = "extract"
      BY <2>3, BuilderAssumption DEF InputsReady, PackValid, PayloadValid, TreesWhole, Pin, At,
        CmdFits, Goto
    <3> QED
      BY <2>1, <2>2, <3>1 DEF InputsStay, Making, Late
  <2>4. CASE ReuseDisc
    <3>1. disc[job.image] = "whole"
      BY <2>4 DEF ReuseDisc, TreesWhole, At, CmdFits
    <3> QED
      BY <2>1, <2>2, <2>4, <3>1 DEF InputsStay, ReuseDisc, At, Goto
  <2>5. CASE ReuseTranslation \/ CheckTranslation \/ ReuseRuntime \/ VerifyRuntime
    <3>1. pc \in Making \cup Late
      BY <2>5 DEF ReuseTranslation, CheckTranslation, ReuseRuntime, VerifyRuntime, At, Making, Late
    <3> QED
      BY <2>1, <2>2, <3>1 DEF InputsStay
  <2> QED
    BY <1>1, <2>3, <2>4, <2>5 DEF MoveOn
<1>2. CASE Fetching
  <2>1. UNCHANGED <<root, disc, payload, cmd, job>>
    BY <1>2 DEF Fetching, CloneOne, CheckoutOne, FetchDawn, InitDolphin, FetchDolphin,
      FetchSubmodules, BuildDiscio, FinishDiscio, Goto
  <2>2. cmd = "build" => pc \in Making \cup Late
    BY <1>2 DEF Fetching, CloneOne, CheckoutOne, FetchDawn, InitDolphin, FetchDolphin,
      FetchSubmodules, BuildDiscio, FinishDiscio, At, CmdFits, Late
  <2> QED
    BY <2>1, <2>2 DEF TreesWhole, InputsStay, Pin
<1>3. CASE Filling
  <2>1. UNCHANGED <<payload, cmd, job>> /\ Pin' = Pin
    BY <1>3 DEF Filling, DownloadPack, UnpackArchive, PlacePack, ExtractDisc, PublishDisc, Goto,
      Pin
  <2>2. CASE DownloadPack \/ UnpackArchive \/ PlacePack
    <3>1. UNCHANGED disc /\ \A k \in Pack : root'[k] \in {root[k], "whole"}
      BY <2>2 DEF TypeOK, DownloadPack, UnpackArchive, PlacePack, Staged
    <3>2. cmd = "build" => pc' \in {"place", "inputs"}
      BY <2>2 DEF DownloadPack, UnpackArchive, PlacePack, At, CmdFits, Goto
    <3> QED
      BY <2>1, <3>1, <3>2 DEF TreesWhole, InputsStay, Making, Late
  <2>3. CASE ExtractDisc \/ PublishDisc
    <3>1. UNCHANGED root /\ \A i \in Accepted : disc'[i] \in {disc[i], "whole"}
      BY <2>3 DEF TypeOK, ExtractDisc, PublishDisc, Staged
    <3>2. pc \in {"extract", "publish"} /\ (pc' # "publish" => disc'[job.image] = "whole")
      BY <2>3 DEF TypeOK, ExtractDisc, PublishDisc, At, CmdFits, Goto
    <3>3. pc' \in {"publish", "translate"}
      BY <2>3 DEF ExtractDisc, PublishDisc, Goto
    <3> QED
      BY <2>1, <3>1, <3>2, <3>3 DEF TreesWhole, InputsStay, Making, Late
  <2> QED
    BY <1>3, <2>2, <2>3 DEF Filling
<1>4. CASE Translating \/ Compiling
  <2>1. UNCHANGED <<root, disc, payload, cmd, job>> /\ pc \in Making \cup Late
    BY <1>4 DEF Translating, StageTranslator, TranslateFunctions, InjectHooks, GenerateData,
      EmitShards, SealShards, Make, Compiling, StageRuntime, PublishRuntime, BuildApp, StampApp,
      Goto, At, inputs, Making, Late
  <2> QED
    BY <2>1 DEF TreesWhole, InputsStay, Pin
<1>5. CASE Leaving
  <2>1. UNCHANGED <<root, disc>> /\ cmd' = "none"
    BY <1>5 DEF Leaving, Stop, FetchPayload, PackageIpa, End, inputs
  <2> QED
    BY <2>1 DEF TreesWhole, InputsStay
<1>6. CASE Starting
  <2>1. UNCHANGED <<root, disc>> /\ (cmd' = "build" => pc' = "inputs")
    BY <1>6 DEF Starting, StartBootstrap, StartShadow, StartBuild, Launch, inputs
  <2> QED
    BY <2>1 DEF TreesWhole, InputsStay, Making, Late
<1>7. CASE Outside
  <2>1. UNCHANGED <<root, disc, payload, job>> /\ Pin' = Pin
        /\ (cmd' = "build" => cmd = "build" /\ pc' = pc)
    BY <1>7 DEF Outside, FetchLatest, EditSource, PinLatest, inputs, Pin
  <2> QED
    BY <2>1 DEF TreesWhole, InputsStay
<1> QED
  BY <1>1, <1>2, <1>3, <1>4, <1>5, <1>6, <1>7, StepCases

(* ----------------------------- the translation ------------------------- *)

\* The parts of a translation come to be in one order, also in a workspace
\* that an interrupted command left, and a passed check needs the last one.
LEMMA PartsStep ==
  ASSUME BuilderInv, Next
  PROVE  PartsOrdered' /\ PartsMade'
<1> USE DEF BuilderInv
<1>1. CASE MoveOn
  <2>1. UNCHANGED <<part, cmd, job>> /\ Here' = Here
    BY <1>1 DEF MoveOn, InputsReady, ReuseDisc, ReuseTranslation, CheckTranslation, ReuseRuntime,
      VerifyRuntime, Goto, outputs, Here, CacheKey
  <2>2. PartsOrdered'
    BY <2>1 DEF PartsOrdered
  <2>3. CASE ReuseTranslation \/ CheckTranslation
    <3>1. part[Here]["seal"] # None /\ pc' = "prepare"
      BY <2>3 DEF ReuseTranslation, CheckTranslation, TranslationValid, GuardVerified,
        HeaderRewritten, Goto
    <3> QED
      BY <2>1, <2>2, <3>1 DEF PartsMade
  <2>4. CASE InputsReady \/ ReuseDisc
    <3>1. pc' \in {"extract", "translate"}
      BY <2>4 DEF InputsReady, ReuseDisc, Goto
    <3> QED
      BY <2>1, <2>2, <3>1 DEF PartsMade, Late
  <2>5. CASE ReuseRuntime \/ VerifyRuntime
    <3>1. pc \in Late /\ pc' \in {"verify", "stamp"}
      BY <2>5 DEF ReuseRuntime, VerifyRuntime, At, Goto, Late
    <3> QED
      BY <2>1, <2>2, <3>1 DEF PartsMade
  <2> QED
    BY <1>1, <2>3, <2>4, <2>5 DEF MoveOn
<1>2. CASE Fetching \/ Filling
  <2>1. UNCHANGED <<part, cmd, job>> /\ Here' = Here
    BY <1>2 DEF Fetching, CloneOne, CheckoutOne, FetchDawn, InitDolphin, FetchDolphin,
      FetchSubmodules, BuildDiscio, FinishDiscio, Filling, DownloadPack, UnpackArchive,
      PlacePack, ExtractDisc, PublishDisc, Goto, outputs, Here, CacheKey
  <2>2. \/ pc \in Late /\ pc' \in Late
        \/ pc' \in {"clone", "checkout", "pack", "unpack", "place", "inputs", "publish", "translate"}
    BY <1>2 DEF Fetching, CloneOne, CheckoutOne, FetchDawn, InitDolphin, FetchDolphin,
      FetchSubmodules, BuildDiscio, FinishDiscio, Filling, DownloadPack, UnpackArchive,
      PlacePack, ExtractDisc, PublishDisc, Goto, At, Late
  <2> QED
    BY <2>1, <2>2 DEF PartsOrdered, PartsMade, Late
<1>3. CASE Translating
  <2>1. UNCHANGED <<cmd, job>> /\ Here' = Here /\ pc \in Making
    BY <1>3 DEF Translating, StageTranslator, TranslateFunctions, InjectHooks, GenerateData,
      EmitShards, SealShards, Make, Goto, Here, CacheKey, At, Making
  <2>2. Here \in Workspace /\ source # None
    BY <2>1, Workspaces, BuilderAssumption DEF CmdFits, TypeOK
  <2>3. part \in [Workspace -> [Part -> Version \cup {None}]]
        /\ part[Here] \in [Part -> Version \cup {None}]
    BY <2>2 DEF TypeOK
  <2>4. CASE StageTranslator
    <3>1. /\ \A w \in Workspace \ {Here} : part'[w] = part[w]
          /\ part'[Here]["translator"] = source
          /\ part'[Here]["shards"] = None /\ part'[Here]["seal"] = None
          /\ pc' = "functions"
      <4>1. part[Here]["shards"] = None /\ part[Here]["seal"] = None
        BY <2>2, <2>4 DEF StageTranslator, PartsOrdered
      <4> DEFINE from == IF cmd = "shadow" THEN NoParts ELSE part[Here]
      <4>2. from \in [Part -> Version \cup {None}] /\ from["shards"] = None /\ from["seal"] = None
        BY <2>3, <4>1 DEF NoParts, Part
      <4>3. part' = [part EXCEPT ![Here] = [from EXCEPT !["translator"] = source]]
        BY <2>4 DEF StageTranslator
      <4>4. part'[Here] = [from EXCEPT !["translator"] = source]
        BY <2>2, <2>3, <4>3
      <4> QED
        BY <2>2, <2>3, <2>4, <4>2, <4>3, <4>4 DEF StageTranslator, Goto, Part
    <3> QED
      BY <2>1, <2>2, <3>1 DEF PartsOrdered, PartsMade, Late
  <2>5. CASE TranslateFunctions
    <3>1. /\ \A w \in Workspace \ {Here} : part'[w] = part[w]
          /\ part'[Here] = [part[Here] EXCEPT !["functions"] = source, !["hooks"] = None]
          /\ pc = "functions" /\ pc' = "inject"
      BY <2>2, <2>3, <2>5 DEF TranslateFunctions, Manifest, At, Goto
    <3>2. /\ part'[Here]["functions"] = source
          /\ \A x \in Part \ {"functions", "hooks"} : part'[Here][x] = part[Here][x]
      BY <2>3, <3>1 DEF Part
    <3>3. part[Here]["shards"] = None /\ part[Here]["translator"] # None
      BY <3>1 DEF PartsMade
    <3>4. part'[Here]["shards"] = None /\ part'[Here]["seal"] = None
          /\ part'[Here]["translator"] # None
      BY <2>2, <3>2, <3>3 DEF PartsOrdered, Part
    <3>5. PartsOrdered'
      BY <2>2, <3>1, <3>4 DEF PartsOrdered
    <3>6. PartsMade'
      <4>1. Here' = Here /\ pc' = "inject"
        BY <2>1, <3>1
      <4> QED
        BY <2>2, <3>2, <3>4, <4>1 DEF PartsMade, Late
    <3> QED
      BY <3>5, <3>6
  <2>6. ASSUME NEW x \in Part, Make(x)
        PROVE  /\ \A w \in Workspace \ {Here} : part'[w] = part[w]
               /\ part'[Here][x] = source
               /\ \A y \in Part \ {x} : part'[Here][y] = part[Here][y]
    BY <2>2, <2>3, <2>6 DEF Make, Manifest
  <2>7. CASE InjectHooks
    <3>1. Make("hooks") /\ pc = "inject" /\ pc' = "generate"
      BY <2>7 DEF InjectHooks, At, Goto
    <3> QED
      BY <2>1, <2>2, <2>6, <3>1 DEF PartsOrdered, PartsMade, Late, Part
  <2>8. CASE GenerateData
    <3>1. Make("data") /\ pc = "generate" /\ pc' = "emit"
      BY <2>8 DEF GenerateData, At, Goto
    <3> QED
      BY <2>1, <2>2, <2>6, <3>1 DEF PartsOrdered, PartsMade, Late, Part
  <2>9. CASE EmitShards
    <3>1. Make("shards") /\ pc = "emit" /\ pc' = "seal"
      BY <2>9 DEF EmitShards, At, Goto
    <3> QED
      BY <2>1, <2>2, <2>6, <3>1 DEF PartsOrdered, PartsMade, Late, Part
  <2>10. CASE SealShards
    <3>1. Make("seal") /\ pc = "seal" /\ pc' = "check"
      BY <2>10 DEF SealShards, At, Goto
    <3> QED
      BY <2>1, <2>2, <2>6, <3>1 DEF PartsOrdered, PartsMade, Late, Part
  <2> QED
    BY <1>3, <2>4, <2>5, <2>7, <2>8, <2>9, <2>10 DEF Translating
<1>4. CASE Compiling
  <2>1. UNCHANGED <<part, cmd, job>> /\ Here' = Here /\ pc \in Late
        /\ pc' \in {"stage", "verify", "compile", "package"}
    BY <1>4 DEF Compiling, StageRuntime, PublishRuntime, BuildApp, StampApp, Goto, At, Late, Here,
      CacheKey
  <2> QED
    BY <2>1 DEF PartsOrdered, PartsMade
<1>5. CASE Leaving \/ Starting
  <2>1. UNCHANGED part /\ pc' \in {"idle", "clone", "translate", "inputs"}
    BY <1>5 DEF Leaving, Stop, FetchPayload, PackageIpa, End, Starting, StartBootstrap,
      StartShadow, StartBuild, Launch, outputs
  <2> QED
    BY <2>1 DEF PartsOrdered, PartsMade, Late
<1>6. CASE Outside
  <2>1. UNCHANGED part /\ (pc' \in {"pin", "idle"} \/ (UNCHANGED <<pc, cmd, job>> /\ Here' = Here))
    BY <1>6 DEF Outside, FetchLatest, EditSource, PinLatest, outputs, Here, CacheKey
  <2> QED
    BY <2>1 DEF PartsOrdered, PartsMade, Late
<1> QED
  BY <1>1, <1>2, <1>3, <1>4, <1>5, <1>6, StepCases

(* ------------------------ the runtime and the app ---------------------- *)

\* The source that is compiled passed the comparison, and only staging it
\* anew writes it, which a command that compiles is past.
LEMMA RuntimeStep ==
  ASSUME BuilderInv, Next
  PROVE  RuntimeOfOne'
<1> USE DEF BuilderInv
<1>1. CASE VerifyRuntime
  <2>1. UNCHANGED <<runtime, cmd, job>> /\ Here' = Here
    BY <1>1 DEF VerifyRuntime, Goto, outputs, Here, CacheKey
  <2>2. source \in Version /\ \A f \in RuntimeFile : runtime[Here][f] = source
    BY <1>1 DEF VerifyRuntime, RuntimeVerified, TypeOK
  <2> QED
    BY <2>1, <2>2 DEF RuntimeOfOne
<1>2. CASE BuildApp \/ StampApp
  <2>1. UNCHANGED <<runtime, cmd, job>> /\ Here' = Here /\ pc \in {"stamp", "compile"}
    BY <1>2 DEF BuildApp, StampApp, Goto, At, Here, CacheKey
  <2> QED
    BY <2>1 DEF RuntimeOfOne
<1>3. CASE \E v \in Version : EditSource(v)
  <2>1. UNCHANGED <<runtime, cmd, job, pc>> /\ Here' = Here
    BY <1>3 DEF EditSource, outputs, Here, CacheKey
  <2> QED
    BY <2>1 DEF RuntimeOfOne
<1>4. CASE ~VerifyRuntime /\ ~BuildApp /\ ~StampApp /\ ~\E v \in Version : EditSource(v)
  <2>1. pc' \notin {"stamp", "compile", "package"}
    BY <1>4, StepCases DEF MoveOn, InputsReady, ReuseDisc, ReuseTranslation, CheckTranslation,
      ReuseRuntime, Fetching, CloneOne, CheckoutOne, FetchDawn, InitDolphin, FetchDolphin,
      FetchSubmodules, BuildDiscio, FinishDiscio, Filling, DownloadPack, UnpackArchive,
      PlacePack, ExtractDisc, PublishDisc, Translating, StageTranslator, TranslateFunctions,
      InjectHooks, GenerateData, EmitShards, SealShards, Compiling, StageRuntime, PublishRuntime,
      Leaving, Stop, FetchPayload, PackageIpa, End, Starting, StartBootstrap, StartShadow,
      StartBuild, Launch, Outside, FetchLatest, PinLatest, Goto
  <2> QED
    BY <2>1 DEF RuntimeOfOne
<1> QED
  BY <1>1, <1>2, <1>3, <1>4

\* A part or a file that a calm build makes, and the shadow's workspace.
LEMMA CalmBuilds ==
  ASSUME BuilderInv, cmd = "build", Calm(Here)
  PROVE  Here \in Key /\ Here[2] = job.version /\ source = Here[2]
  BY Workspaces DEF BuilderInv, CachesOfOne

\* What the running command leaves in a workspace is of its version, if it
\* was of its version before and the command writes the version at hand.
LEMMA CachesStep ==
  ASSUME BuilderInv, Next
  PROVE  CachesOfOne'
<1> USE DEF BuilderInv
<1>1. CASE MoveOn \/ Fetching \/ Filling
  <2>1. UNCHANGED <<source, disturbed, outputs, cmd, job>> /\ Here' = Here
    BY <1>1 DEF MoveOn, InputsReady, ReuseDisc, ReuseTranslation, CheckTranslation, ReuseRuntime,
      VerifyRuntime, Fetching, CloneOne, CheckoutOne, FetchDawn, InitDolphin, FetchDolphin,
      FetchSubmodules, BuildDiscio, FinishDiscio, Filling, DownloadPack, UnpackArchive,
      PlacePack, ExtractDisc, PublishDisc, Goto, repo, Here, CacheKey
  <2>2. pc' \notin {"stage", "compile", "package"}
    BY <1>1 DEF MoveOn, InputsReady, ReuseDisc, ReuseTranslation, CheckTranslation, ReuseRuntime,
      VerifyRuntime, Fetching, CloneOne, CheckoutOne, FetchDawn, InitDolphin, FetchDolphin,
      FetchSubmodules, BuildDiscio, FinishDiscio, Filling, DownloadPack, UnpackArchive,
      PlacePack, ExtractDisc, PublishDisc, Goto
  <2> QED
    BY <2>1, <2>2 DEF CachesOfOne, Calm, outputs
<1>2. CASE Translating
  <2>1. UNCHANGED <<source, disturbed, runtime, cmd, job>> /\ Here' = Here /\ pc \in Making
        /\ pc' \in Making
    BY <1>2 DEF Translating, StageTranslator, TranslateFunctions, InjectHooks, GenerateData,
      EmitShards, SealShards, Make, Goto, repo, Here, CacheKey, At, Making
  <2>2. Here \in Workspace /\ (cmd = "shadow" => Here \notin Key)
    BY <2>1, Workspaces DEF CmdFits
  <2>3. part \in [Workspace -> [Part -> Version \cup {None}]]
        /\ part[Here] \in [Part -> Version \cup {None}]
    BY <2>2 DEF TypeOK
  <2>4. /\ \A w \in Workspace \ {Here} : part'[w] = part[w]
        /\ cmd = "build" => \A x \in Part : part'[Here][x] \in {part[Here][x], None, source}
    <3>1. CASE StageTranslator
      <4> DEFINE from == IF cmd = "shadow" THEN NoParts ELSE part[Here]
      <4>1. part' = [part EXCEPT ![Here] = [from EXCEPT !["translator"] = source]]
        BY <3>1 DEF StageTranslator
      <4>2. from \in [Part -> Version \cup {None}]
        BY <2>3 DEF NoParts
      <4>3. part'[Here] = [from EXCEPT !["translator"] = source]
        BY <2>2, <2>3, <4>1
      <4> QED
        BY <2>2, <2>3, <4>1, <4>2, <4>3
    <3>2. CASE TranslateFunctions
      <4>1. part' = [part EXCEPT ![Here] =
                        [part[Here] EXCEPT !["functions"] = source, !["hooks"] = None]]
        BY <2>2, <2>3, <3>2 DEF TranslateFunctions, Manifest
      <4> QED
        BY <2>2, <2>3, <4>1
    <3>3. ASSUME NEW x \in Part, Make(x)
          PROVE  /\ \A w \in Workspace \ {Here} : part'[w] = part[w]
                 /\ \A y \in Part : part'[Here][y] \in {part[Here][y], source}
      BY <2>2, <2>3, <3>3 DEF Make, Manifest
    <3> QED
      BY <1>2, <3>1, <3>2, <3>3 DEF Translating, InjectHooks, GenerateData, EmitShards, SealShards,
        Part
  <2>5. ASSUME NEW w \in Key, Calm(w), NEW x \in Part
        PROVE  part'[w][x] \in {None, w[2]}
    <3>1. CASE w # Here
      BY <2>4, <2>5, <3>1 DEF CachesOfOne, Workspace
    <3>2. CASE w = Here
      <4>1. cmd = "build"
        BY <2>1, <2>2, <2>5, <3>2 DEF CmdFits
      <4> QED
        BY <2>4, <2>5, <3>2, <4>1, CalmBuilds DEF CachesOfOne
    <3> QED
      BY <3>1, <3>2
  <2> QED
    BY <2>1, <2>5 DEF CachesOfOne, Calm, Making
<1>3. CASE Compiling
  <2>1. UNCHANGED <<source, disturbed, part, cmd, job>> /\ Here' = Here /\ pc \in Late
    BY <1>3 DEF Compiling, StageRuntime, PublishRuntime, BuildApp, StampApp, Goto, At, Late, repo,
      Here, CacheKey
  <2>2. Here \in Workspace /\ (cmd = "shadow" => Here \notin Key)
    BY <2>1, Workspaces DEF CmdFits
  <2>3. runtime \in [Workspace -> [RuntimeFile -> Version \cup {None}]]
        /\ staged \in [RuntimeFile -> Version \cup {None}]
    BY DEF TypeOK
  <2>4. ASSUME NEW w \in Key, Calm(w), NEW f \in RuntimeFile
        PROVE  runtime'[w][f] \in {None, w[2]}
    <3>1. CASE PublishRuntime /\ w = Here
      <4>1. cmd = "build" /\ pc = "stage"
        BY <2>1, <2>2, <2>4, <3>1 DEF CmdFits, PublishRuntime, At
      <4>2. source = w[2] /\ staged["runtime"] = w[2]
        BY <2>4, <3>1, <4>1, CalmBuilds DEF CachesOfOne
      <4>3. runtime'[w] = [staged EXCEPT !["aurora"] = source]
        BY <2>2, <2>3, <3>1 DEF PublishRuntime
      <4> QED
        BY <2>3, <4>2, <4>3 DEF RuntimeFile
    <3>2. CASE ~(PublishRuntime /\ w = Here)
      <4>1. runtime'[w] = runtime[w]
        BY <1>3, <2>3, <3>2 DEF Compiling, StageRuntime, PublishRuntime, BuildApp, StampApp,
          Workspace
      <4> QED
        BY <2>4, <4>1 DEF CachesOfOne
    <3> QED
      BY <3>1, <3>2
  <2>5. ASSUME cmd = "build", Calm(Here)
        PROVE  /\ source = job.version
               /\ pc' = "stage" => staged'["runtime"] = job.version
               /\ pc' = "compile" => app'.names = job.version
               /\ pc' = "package" => app' = [from |-> {job.version}, names |-> job.version]
    <3>1. source = job.version /\ Here \in Key /\ Here[2] = job.version
      BY <2>5, CalmBuilds
    <3>2. CASE StageRuntime
      <4>1. staged'["runtime"] = source /\ pc' = "stage"
        BY <3>2 DEF StageRuntime, NoFiles, RuntimeFile, Goto
      <4> QED
        BY <3>1, <4>1
    <3>3. CASE PublishRuntime
      BY <3>1, <3>3 DEF PublishRuntime, Goto
    <3>4. CASE BuildApp
      <4> DEFINE made == {part[Here][x] : x \in Part}
                 run == {runtime[Here][f] : f \in RuntimeFile}
      <4>1. made \subseteq {source}
        BY <2>1, <2>5, <3>1, WholeWhenLate DEF CachesOfOne
      <4>2. \A f \in RuntimeFile : runtime[Here][f] = source
        <5>1. pc = "compile"
          BY <3>4 DEF BuildApp, At
        <5>2. \A f \in RuntimeFile : runtime[Here][f] \in Version
          BY <5>1 DEF RuntimeOfOne
        <5> QED
          BY <2>5, <3>1, <5>2, BuilderAssumption DEF CachesOfOne
      <4>3. {source} \cup made \cup run = {source}
        BY <4>1, <4>2
      <4>4. /\ app' = [app EXCEPT !.from = {source} \cup made \cup run]
            /\ pc = "compile" /\ pc' = "package"
        BY <3>4 DEF BuildApp, At, Goto
      <4>5. app.names = job.version /\ app \in App
        BY <2>5, <4>4 DEF CachesOfOne, TypeOK
      <4> HIDE DEF made, run
      <4> QED
        BY <3>1, <4>3, <4>4, <4>5 DEF App
    <3>5. CASE StampApp
      <4>1. pc' = "compile" /\ app' = [NoApp EXCEPT !.names = source]
        BY <3>5 DEF StampApp, Goto
      <4> QED
        BY <3>1, <4>1 DEF NoApp
    <3> QED
      BY <1>3, <3>2, <3>3, <3>4, <3>5 DEF Compiling
  <2>6. \A w : Calm(w)' <=> Calm(w)
    BY <2>1 DEF Calm
  <2> QED
    BY <2>1, <2>4, <2>5, <2>6 DEF CachesOfOne
<1>4. CASE Leaving
  <2>1. UNCHANGED <<disturbed, part, runtime>> /\ cmd' = "none"
    BY <1>4 DEF Leaving, Stop, FetchPayload, PackageIpa, End, repo
  <2> QED
    BY <2>1 DEF CachesOfOne, Calm
<1>5. CASE Starting
  <2>1. UNCHANGED <<source, disturbed, part, runtime>> /\ job'.version = source
        /\ pc' \in {"clone", "translate", "inputs"}
    BY <1>5 DEF Starting, StartBootstrap, StartShadow, StartBuild, Launch, repo, outputs
  <2> QED
    BY <2>1 DEF CachesOfOne, Calm
<1>6. CASE Outside
  <2>1. UNCHANGED <<part, runtime, job>> /\ disturbed \subseteq disturbed'
        /\ (cmd' = "build" => Here \in disturbed' /\ Here' = Here)
    BY <1>6 DEF Outside, FetchLatest, EditSource, PinLatest, outputs, repo, Here, CacheKey
  <2> QED
    BY <2>1 DEF CachesOfOne, Calm
<1> QED
  BY <1>1, <1>2, <1>3, <1>4, <1>5, <1>6, StepCases

\* The provenance is written while the app is stamped, and packaged after.
LEMMA IpaStep ==
  ASSUME BuilderInv, Next
  PROVE  IpaTruthful'
<1> USE DEF BuilderInv
<1>1. CASE PackageIpa /\ cmd = "build"
  <2>1. pc = "package" /\ payload = Pin /\ Here = <<job.image, job.version>> /\ Here \in Key
    BY <1>1, Workspaces DEF PackageIpa, At, InputsStay, Late
  <2>2. ipa' = [key |-> <<job.image, job.version>>, app |-> app, pack |-> payload,
                calm |-> Here \notin disturbed]
    BY <1>1 DEF PackageIpa
  <2>3. Here \notin disturbed => app = [from |-> {job.version}, names |-> job.version]
    BY <1>1, <2>1 DEF CachesOfOne, Calm
  <2> QED
    BY <2>1, <2>2, <2>3 DEF IpaTruthful, Pin
<1>2. CASE PackageIpa /\ cmd # "build"
  BY <1>2 DEF PackageIpa, At, CmdFits, Late, IpaTruthful
<1>3. CASE ~PackageIpa
  <2>1. UNCHANGED ipa
    BY <1>3, StepCases DEF MoveOn, InputsReady, ReuseDisc, ReuseTranslation, CheckTranslation,
      ReuseRuntime, VerifyRuntime, Fetching, CloneOne, CheckoutOne, FetchDawn, InitDolphin,
      FetchDolphin, FetchSubmodules, BuildDiscio, FinishDiscio, Filling, DownloadPack,
      UnpackArchive, PlacePack, ExtractDisc, PublishDisc, Translating, StageTranslator,
      TranslateFunctions, InjectHooks, GenerateData, EmitShards, SealShards, Make, Compiling,
      StageRuntime, PublishRuntime, BuildApp, StampApp, Leaving, Stop, FetchPayload, Starting,
      StartBootstrap, StartShadow, StartBuild, Launch, Outside, FetchLatest, EditSource,
      PinLatest, outputs
  <2> QED
    BY <2>1 DEF IpaTruthful
<1> QED
  BY <1>1, <1>2, <1>3

(* ------------------------------- theorems ------------------------------ *)

LEMMA BuilderStutter ==
  ASSUME BuilderInv, UNCHANGED vars
  PROVE  BuilderInv'
<1>1. UNCHANGED <<source, edits, disturbed, clone, dawn, discio, archive, root, payload, disc,
                  part, runtime, ipa, staged, app, cmd, pc, job>>
  BY DEF vars, repo, inputs, outputs, work
<1>2. TypeOK' /\ CmdFits' /\ TreesWhole' /\ InputsStay'
  BY <1>1 DEF BuilderInv, TypeOK, CmdFits, TreesWhole, InputsStay, Pin
<1>3. PartsOrdered' /\ PartsMade' /\ RuntimeOfOne'
  BY <1>1 DEF BuilderInv, PartsOrdered, PartsMade, RuntimeOfOne, Here, CacheKey
<1>4. CachesOfOne' /\ IpaTruthful'
  BY <1>1 DEF BuilderInv, CachesOfOne, Calm, IpaTruthful, Here, CacheKey
<1> QED
  BY <1>2, <1>3, <1>4 DEF BuilderInv

\* The inductive invariant: the types, where each command can be, and how the
\* parts, the inputs and the versions in the caches of every workspace relate.
THEOREM BuilderInductive == Spec => []BuilderInv
<1>1. BuilderInv /\ [Next]_vars => BuilderInv'
  BY StepTyped, InputsStep, PartsStep, RuntimeStep, CachesStep, IpaStep, BuilderStutter
    DEF BuilderInv
<1> QED
  BY <1>1, BuilderInit, PTL DEF Spec

\* Every command of the builder keeps its state well-formed.
THEOREM BuilderTyped == Spec => []TypeOK
<1>1. BuilderInv => TypeOK
  BY DEF BuilderInv
<1> QED
  BY <1>1, BuilderInductive, PTL

\* Whatever was interrupted before, a command that is past the validation of
\* its translation has every part of it, a whole disc tree and a whole pack,
\* and what it compiles is of one version.
THEOREM WholeInputsAreUsed == Spec => []OnlyWholeIsUsed
<1>1. BuilderInv => OnlyWholeIsUsed
  <2> SUFFICES ASSUME BuilderInv PROVE OnlyWholeIsUsed
    OBVIOUS
  <2>1. pc \in Late =>
          /\ \A x \in Part : part[Here][x] # None
          /\ cmd = "build" => disc[job.image] = "whole" /\ root[Pin] = "whole"
    BY WholeWhenLate DEF BuilderInv, InputsStay
  <2> QED
    BY <2>1 DEF BuilderInv, OnlyWholeIsUsed, RuntimeOfOne, Late
<1> QED
  BY <1>1, BuilderInductive, PTL

\* The provenance of an IPA names the sources all of it was made from, for
\* any history of caches, unless a build was busy in its workspace meanwhile.
THEOREM ProvenanceIsTrue == Spec => []IpaTruthful
<1>1. BuilderInv => IpaTruthful
  BY DEF BuilderInv
<1> QED
  BY <1>1, BuilderInductive, PTL
=============================================================================
