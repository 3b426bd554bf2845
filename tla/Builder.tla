------------------------------- MODULE Builder -------------------------------
(***************************************************************************)
(* The personal builder (builder/kartpad_builder): bootstrap fetches the   *)
(* pinned inputs, build turns a disc image into an unsigned IPA through a  *)
(* chain of caches, and shadow does the same for an extracted main.dol and *)
(* StaticR.rel.  One command runs at a time; it may be interrupted or fail *)
(* between any two steps, and the repository may be edited meanwhile, also *)
(* back to an earlier version.                                             *)
(*                                                                         *)
(* A version of the repository fixes the profiles, the pinned Retro Rewind *)
(* pack and every script.  A finished file is known by what it was made    *)
(* from, a directory that is filled in place by its parts.  The translator,*)
(* Xcode and the package formats are external; which of their inputs they  *)
(* read is not.                                                            *)
(***************************************************************************)
EXTENDS Integers, FiniteSets

CONSTANTS
    Image,          \* disc images
    Accepted,       \* those that exactly one profile accepts
    Version,        \* versions of the repository
    Pack, PinOf,    \* PinOf[v]: the pack and payload that version v pins
    Clone, Dolphin, \* pinned source dependencies of the profile; one of them
    MaxEdits, None

ASSUME BuilderAssumption ==
    /\ Accepted \subseteq Image
    /\ PinOf \in [Version -> Pack]
    /\ Dolphin \in Clone
    /\ MaxEdits \in Nat
    /\ None \notin Version \cup Pack \cup Image

Key == Accepted \X Version          \* cache_key: the image and the sources
Shadow == <<"shadow">>              \* shadow's only workspace
Workspace == Key \cup {Shadow}
Part == {"translator", "functions", "hooks", "data", "shards", "seal"}
RuntimeFile == {"runtime", "aurora"}

VARIABLES
    source,         \* the version in the working tree
    edits,
    clone,          \* clone[d]: none, empty, default (its branch), bare (pinned,
                    \* but without its submodules), pinned
    dawn,           \* the pinned Dawn archive is in place
    discio,         \* libdiscio.a: none, half, built
    archive,        \* the packs whose archives are in the cache
    root,           \* root[k]: the extracted tree of pack k
    payload,        \* the pack whose payload is in the cache
    disc,           \* disc[i]: the extracted tree of image i
    part,           \* part[w][x]: the version part x was made from, or None
    runtime,        \* runtime[w][f]: likewise for ios-runtime-source
    staged,         \* the tracked runtime files this command has copied
    app,            \* the versions the app came from, and the one it names
    ipa,            \* the file at --output
    cmd,            \* the command that runs
    pc,
    job,            \* its image and the version it was started on
    disturbed       \* workspaces a command was busy in during an edit

inputs == <<clone, dawn, discio, archive, root, payload, disc>>
work == <<staged, app>>
outputs == <<part, runtime, ipa, work>>
repo == <<source, edits, disturbed>>
vars == <<repo, inputs, outputs, cmd, pc, job>>

Tree == {"none", "half", "whole"}
Job == [image : Accepted \cup {None}, version : Version \cup {None}]
NoJob == [image |-> None, version |-> None]
App == [from : SUBSET Version, names : Version \cup {None}]
Ipa == [key : Key, app : App, pack : Pack, calm : BOOLEAN]
NoParts == [x \in Part |-> None]
NoFiles == [f \in RuntimeFile |-> None]
NoApp == [from |-> {}, names |-> None]

Init ==
    /\ source \in Version
    /\ edits = 0
    /\ clone = [d \in Clone |-> "none"] /\ dawn = FALSE /\ discio = "none"
    /\ archive = {} /\ root = [k \in Pack |-> "none"] /\ payload = None
    /\ disc = [i \in Accepted |-> "none"]
    /\ part = [w \in Workspace |-> NoParts]
    /\ runtime = [w \in Workspace |-> NoFiles]
    /\ staged = NoFiles /\ app = NoApp
    /\ ipa = None
    /\ cmd = "none" /\ pc = "idle" /\ job = NoJob
    /\ disturbed = {}

(* ---------------------- commands, edits, interruptions ----------------- *)

AnyImage(image) == image \in Image                  \* mutant of SelectProfile

\* The one profile that accepts the image; no other profile may claim it.
SelectProfile(image) == image \in Accepted

\* the commit, its tree and no local change; submodules nobody fetched are none
CloneReady(d) == clone[d] \in {"bare", "pinned"}
PackValid(k) == root[k] # "none"
PayloadValid(k) == payload = k
Pin == PinOf[job.version]

\* doctor, and what every build checks before it starts
DependenciesReady == dawn /\ \A d \in Clone : CloneReady(d)

Launch(command, first, image) ==
    /\ pc = "idle"
    /\ cmd' = command
    /\ pc' = first
    /\ job' = [image |-> image, version |-> source]
    /\ UNCHANGED <<repo, inputs, outputs>>

StartBootstrap == Launch("bootstrap", "clone", None)
StartShadow == Launch("shadow", "translate", None)
StartBuild(image) ==
    /\ SelectProfile(image)
    /\ DependenciesReady
    /\ Launch("build", "inputs", image)

End ==
    /\ pc' = "idle" /\ cmd' = "none" /\ job' = NoJob
    /\ staged' = NoFiles /\ app' = NoApp
    /\ UNCHANGED repo

\* Interrupted, killed, or ended by the error of a step.
Stop ==
    /\ pc # "idle"
    /\ End
    /\ UNCHANGED <<inputs, part, runtime, ipa>>

ImageKey(image, version) == <<image, CHOOSE v \in Version : TRUE>>  \* mutant of CacheKey
CacheKey(image, version) == <<image, version>>
Here == IF cmd = "shadow" THEN Shadow ELSE CacheKey(job.image, job.version)

EditSource(v) ==
    /\ edits < MaxEdits
    /\ v # source
    /\ source' = v
    /\ edits' = edits + 1
    /\ disturbed' = IF cmd = "build" THEN disturbed \cup {Here} ELSE disturbed
    /\ UNCHANGED <<inputs, outputs, cmd, pc, job>>

At(label) == pc = label
Goto(label) == pc' = label /\ UNCHANGED <<repo, cmd, job>>

(* ------------------- update-retro-rewind-profile ----------------------- *)

\* The archive of the newest pack goes to the cache the builder uses; it is a
\* resumed download that nothing but its being a ZIP is known of.
FetchLatest(k) ==
    /\ pc = "idle"
    /\ archive' = archive \cup {k}
    /\ cmd' = "update" /\ pc' = "pin"
    /\ UNCHANGED <<repo, clone, dawn, discio, root, payload, disc, outputs, job>>

\* The pins in the profile become those of an archive.
PinLatest(v) ==
    /\ At("pin") /\ PinOf[v] \in archive
    /\ edits < MaxEdits
    /\ source' = v /\ edits' = edits + 1 /\ UNCHANGED disturbed
    /\ pc' = "idle" /\ cmd' = "none"
    /\ UNCHANGED <<inputs, outputs, job>>

(* ------------------------------- bootstrap ----------------------------- *)

\* In the order of the profile, so one left at its default branch stops all.
CloneOne(d) ==
    /\ At("clone") /\ clone[d] = "none"
    /\ \A e \in Clone : clone[e] # "default"
    /\ clone' = [clone EXCEPT ![d] = "default"]
    /\ Goto("checkout")
    /\ UNCHANGED <<dawn, discio, archive, root, payload, disc, outputs>>

\* A checkout that was interrupted before is only verified, so this step is
\* taken in the invocation that cloned d or never.
CheckoutOne(d) ==
    /\ At("checkout") /\ clone[d] = "default"
    /\ clone' = [clone EXCEPT ![d] = "pinned"]
    /\ Goto("clone")
    /\ UNCHANGED <<dawn, discio, archive, root, payload, disc, outputs>>

FetchDawn ==
    /\ \/ At("clone") /\ (\A d \in Clone : CloneReady(d)) /\ Goto("pack")
       \/ At("prepare") /\ ~dawn /\ Goto("prepare")
    /\ dawn' = TRUE
    /\ UNCHANGED <<clone, discio, archive, root, payload, disc, outputs>>

\* The archive is verified, and a download verified and renamed into place.
DownloadPack ==
    /\ At("pack") /\ ~PackValid(Pin)
    /\ archive' = archive \cup {Pin}
    /\ Goto("unpack")
    /\ UNCHANGED <<clone, dawn, discio, root, payload, disc, outputs>>

\* What a tree's final path holds while the tree is being filled: nothing
\* new, because it is filled in a .partial directory of this process.
InPlace(dir) == "half"                             \* mutant of Staged
Staged(dir) == dir

\* A build, which downloads nothing, also unpacks an archive that is there.
UnpackArchive ==
    /\ At("unpack") \/ (At("inputs") /\ ~PackValid(Pin))
    /\ Pin \in archive
    /\ root' = [root EXCEPT ![Pin] = Staged(@)]
    /\ Goto("place")
    /\ UNCHANGED <<clone, dawn, discio, archive, payload, disc, outputs>>

PlacePack ==
    /\ At("place")
    /\ root' = [root EXCEPT ![Pin] = "whole"]
    /\ Goto(IF cmd = "build" THEN "inputs" ELSE "pack")
    /\ UNCHANGED <<clone, dawn, discio, archive, payload, disc, outputs>>

FetchPayload ==
    /\ At("pack") /\ PackValid(Pin)
    /\ payload' = Pin
    /\ End
    /\ UNCHANGED <<clone, dawn, discio, archive, root, disc, part, runtime, ipa>>

(* --------------------------- build: the disc --------------------------- *)

\* prepare_inputs, which the dependency check and the build itself both call
InputsReady ==
    /\ At("inputs") /\ PackValid(Pin) /\ PayloadValid(Pin)
    /\ Goto("extract")
    /\ UNCHANGED <<inputs, outputs>>

\* the extraction or its reuse
ReuseDisc ==
    /\ At("extract")
    /\ disc[job.image] # "none"
    /\ Goto("translate")
    /\ UNCHANGED <<inputs, outputs>>

ExtractDisc ==
    /\ At("extract")
    /\ disc[job.image] = "none"
    /\ disc' = [disc EXCEPT ![job.image] = Staged(@)]
    /\ Goto("publish")
    /\ UNCHANGED <<clone, dawn, discio, archive, root, payload, outputs>>

PublishDisc ==
    /\ At("publish")
    /\ disc' = [disc EXCEPT ![job.image] = "whole"]
    /\ Goto("translate")
    /\ UNCHANGED <<clone, dawn, discio, archive, root, payload, outputs>>

(* -------------------------- the translation ---------------------------- *)

\* What validation looks at: the counts of the functions and of the shard
\* graph; of a dual translation the guard in its function and in the shard that
\* is compiled; of a shadow translation the rewritten region header.
CountsValid(w) == part[w]["functions"] # None /\ part[w]["shards"] # None
GuardVerified(w) == part[w]["hooks"] # None /\ part[w]["seal"] # None
HeaderRewritten(w) == part[w]["seal"] # None
TranslationValid(w) ==
    CountsValid(w) /\ IF w = Shadow THEN HeaderRewritten(w) ELSE GuardVerified(w)

\* A part is made of what the project manifest names: the tracked tables and
\* ABI sources, as they are now; the disc and the pack are the profile's.
Manifest == source

Make(x) ==
    /\ part' = [part EXCEPT ![Here][x] = Manifest]
    /\ UNCHANGED <<inputs, runtime, ipa, work>>

ReuseTranslation ==
    /\ At("translate") /\ part[Here]["shards"] # None
    /\ TranslationValid(Here)
    /\ Goto("prepare")
    /\ UNCHANGED <<inputs, outputs>>

\* The translator is staged from the tracked files and built for every
\* translation; shadow removes the whole directory before.
StageTranslator ==
    /\ At("translate") /\ part[Here]["shards"] = None
    /\ part' = [part EXCEPT ![Here] =
           [(IF cmd = "shadow" THEN NoParts ELSE @) EXCEPT !["translator"] = source]]
    /\ Goto("functions")
    /\ UNCHANGED <<inputs, runtime, ipa, work>>

\* The functions are generated anew, which drops the injected hooks.
TranslateFunctions ==
    /\ At("functions")
    /\ part' = [part EXCEPT ![Here]["functions"] = Manifest, ![Here]["hooks"] = None]
    /\ Goto("inject")
    /\ UNCHANGED <<inputs, runtime, ipa, work>>

InjectHooks == At("inject") /\ Make("hooks") /\ Goto("generate")
GenerateData == At("generate") /\ Make("data") /\ Goto("emit")
EmitShards == At("emit") /\ Make("shards") /\ Goto("seal")
SealShards == At("seal") /\ Make("seal") /\ Goto("check")

CheckTranslation ==
    /\ At("check") /\ TranslationValid(Here)
    /\ Goto("prepare")
    /\ UNCHANGED <<inputs, outputs>>

(* ------------------------- shadow's dependencies ----------------------- *)

InitDolphin ==
    /\ cmd = "shadow" /\ At("prepare") /\ discio # "built" /\ clone[Dolphin] = "none"
    /\ clone' = [clone EXCEPT ![Dolphin] = "empty"]
    /\ Goto("fetch")
    /\ UNCHANGED <<dawn, discio, archive, root, payload, disc, outputs>>

FetchDolphin ==
    /\ At("fetch")
    /\ clone' = [clone EXCEPT ![Dolphin] = "bare"]
    /\ Goto("submodules")
    /\ UNCHANGED <<dawn, discio, archive, root, payload, disc, outputs>>

FetchSubmodules ==
    /\ At("submodules")
    /\ clone' = [clone EXCEPT ![Dolphin] = "pinned"]
    /\ Goto("prepare")
    /\ UNCHANGED <<dawn, discio, archive, root, payload, disc, outputs>>

\* Built once for both pipelines, from the pinned Dolphin with its submodules
\* only.  What an interrupted build left is removed by shadow and stops the
\* other pipeline.
BuildDiscio ==
    /\ At("prepare")
    /\ discio = "none" \/ (cmd = "shadow" /\ discio = "half")
    /\ clone[Dolphin] = "pinned"
    /\ discio' = "half"
    /\ Goto("discio")
    /\ UNCHANGED <<clone, dawn, archive, root, payload, disc, outputs>>

FinishDiscio ==
    /\ At("discio")
    /\ discio' = "built"
    /\ Goto("prepare")
    /\ UNCHANGED <<clone, dawn, archive, root, payload, disc, outputs>>

(* ------------------------ runtime, app and package --------------------- *)

\* Dual reuses a runtime source that is there; shadow removes it first.
ReuseRuntime ==
    /\ At("prepare") /\ discio = "built"
    /\ cmd = "build" /\ runtime[Here] # NoFiles
    /\ Goto("verify")
    /\ UNCHANGED <<inputs, outputs>>

\* The tracked files are copied one after the other, into a directory that
\* must not exist: dual's .partial, which is removed when a step fails.
StageRuntime ==
    /\ At("prepare") /\ dawn /\ discio = "built"
    /\ cmd = "shadow" \/ runtime[Here] = NoFiles
    /\ staged' = [NoFiles EXCEPT !["runtime"] = source]
    /\ Goto("stage")
    /\ UNCHANGED <<inputs, part, runtime, ipa, app>>

PublishRuntime ==
    /\ At("stage")
    /\ staged' = [staged EXCEPT !["aurora"] = source]
    /\ runtime' = [runtime EXCEPT ![Here] = staged']
    /\ Goto("verify")
    /\ UNCHANGED <<inputs, part, ipa, app>>

\* --verify: the prepared files are the ones of the working tree, byte by byte
RuntimeVerified(w) == \A f \in RuntimeFile : runtime[w][f] = source

VerifyRuntime ==
    /\ At("verify") /\ RuntimeVerified(Here)
    /\ Goto("stamp")
    /\ UNCHANGED <<inputs, outputs>>

\* write-build-provenance: kartpad-build.json names the tree as it is now; it
\* is copied into the app when that is built.
StampApp ==
    /\ At("stamp")
    /\ app' = [NoApp EXCEPT !.names = source]
    /\ Goto("compile")
    /\ UNCHANGED <<inputs, part, runtime, ipa, staged>>

BuildApp ==
    /\ At("compile")
    /\ app' = [app EXCEPT !.from = {source} \cup
           {part[Here][x] : x \in Part} \cup {runtime[Here][f] : f \in RuntimeFile}]
    /\ Goto("package")
    /\ UNCHANGED <<inputs, part, runtime, ipa, staged>>

\* audit_app and package_unsigned_ipa: a .partial file renamed to --output
PackageIpa ==
    /\ At("package")
    /\ ipa' = IF cmd = "shadow" THEN None
              ELSE [key |-> <<job.image, job.version>>, app |-> app,
                    pack |-> payload, calm |-> Here \notin disturbed]
    /\ End
    /\ UNCHANGED <<inputs, part, runtime>>

Bootstrap ==
    \/ \E d \in Clone : CloneOne(d) \/ CheckoutOne(d)
    \/ FetchDawn \/ DownloadPack \/ UnpackArchive \/ PlacePack \/ FetchPayload

Build ==
    \/ InputsReady \/ ReuseDisc \/ ExtractDisc \/ PublishDisc
    \/ ReuseTranslation \/ StageTranslator \/ TranslateFunctions \/ InjectHooks \/ GenerateData
    \/ EmitShards \/ SealShards \/ CheckTranslation
    \/ InitDolphin \/ FetchDolphin \/ FetchSubmodules \/ BuildDiscio \/ FinishDiscio
    \/ ReuseRuntime \/ StageRuntime \/ PublishRuntime \/ VerifyRuntime
    \/ StampApp \/ BuildApp \/ PackageIpa

Next ==
    \/ StartBootstrap \/ StartShadow \/ \E i \in Image : StartBuild(i)
    \/ Bootstrap \/ Build
    \/ Stop
    \/ \E k \in Pack : FetchLatest(k)
    \/ \E v \in Version : EditSource(v) \/ PinLatest(v)

Spec == Init /\ [][Next]_vars
(* ------------------------------ properties ----------------------------- *)

TypeOK ==
    /\ source \in Version /\ edits \in 0 .. MaxEdits /\ disturbed \subseteq Key
    /\ clone \in [Clone -> {"none", "empty", "default", "bare", "pinned"}]
    /\ dawn \in BOOLEAN /\ discio \in {"none", "half", "built"}
    /\ archive \subseteq Pack /\ payload \in Pack \cup {None}
    /\ root \in [Pack -> Tree] /\ disc \in [Accepted -> Tree]
    /\ part \in [Workspace -> [Part -> Version \cup {None}]]
    /\ runtime \in [Workspace -> [RuntimeFile -> Version \cup {None}]]
    /\ staged \in [RuntimeFile -> Version \cup {None}]
    /\ app \in App
    /\ ipa \in Ipa \cup {None}
    /\ cmd \in {"none", "bootstrap", "build", "shadow", "update"}
    /\ job \in Job

\* Past its validation a translation has all its parts, whatever interrupted
\* the commands that filled it, and the pack and the disc it was made of are
\* complete, and the runtime source that is compiled is of one version even
\* when the tree was edited while it was staged: nothing half done is used.
OnlyWholeIsUsed ==
    /\ pc \in {"prepare", "fetch", "submodules", "discio", "stage", "verify", "stamp",
               "compile", "package"} =>
        /\ \A x \in Part : part[Here][x] # None
        /\ cmd = "build" => disc[job.image] = "whole" /\ root[Pin] = "whole"
    /\ pc \in {"stamp", "compile", "package"} =>
        \E v \in Version : \A f \in RuntimeFile : runtime[Here][f] = v

\* The sources an IPA's provenance names are the ones all its parts were made
\* from, whatever earlier builds left in the caches - unless a build was busy
\* in that workspace while the sources were edited.
IpaTruthful ==
    ipa # None /\ ipa.calm =>
        /\ ipa.app = [from |-> {ipa.key[2]}, names |-> ipa.key[2]]
        /\ ipa.pack = PinOf[ipa.key[2]]
=============================================================================
