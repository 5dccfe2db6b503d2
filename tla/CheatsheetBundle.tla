-------------------------- MODULE CheatsheetBundle --------------------------
(***************************************************************************)
(* The files between the two newsletter scripts.                           *)
(* scripts/generate-monthly-cheatsheet.ts renders one version of the       *)
(* change facts into a staging directory and moves the files one by one    *)
(* into a new output directory, the manifest last.  The bundle is signed   *)
(* on deployment, and create-brevo-campaign-draft.ts reads it back, file   *)
(* by file, before it prepares a campaign.                                 *)
(*                                                                         *)
(* The content of a file is the version of the facts it was made from; a   *)
(* digest is the content it was taken of.                                  *)
(***************************************************************************)
EXTENDS Naturals, FiniteSets

CONSTANTS
    Generator,       \* processes that run the generator
    MaxVersion,      \* versions of the change facts
    ArtifactCount,       \* number of files that the manifest lists
    MaxBundleFaults  \* bound on crashes, failed file operations and cleanups

ASSUME ArtifactsAreSome ==
    ArtifactCount \in Nat \ {0} /\ MaxVersion \in Nat \ {0} /\ MaxBundleFaults \in Nat

VARIABLES
    facts,        \* version of the inputs: snapshot, catalog, changes envelope
    genAt,        \* genAt[g]: the next step of generator g
    genVersion,   \* genVersion[g]: the version g has read
    moved,        \* moved[g]: how many files g has moved to the output
    outLock,      \* the generators that hold outDir.lock, at most one
    outDir,       \* the generators that made the directory there now
    out,          \* out[f]: version of file f in it, 0 if absent
    signed,       \* version of the deployment receipt, 0 before the first
    readerAt,     \* the next step of the campaign script
    input,        \* version of each input it has read, 0 if not yet
    loaded,       \* version of each artifact it has read, 0 if not yet
    bundleFaults

sheetVars == <<facts, genAt, genVersion, moved, outLock, outDir, out, signed,
                readerAt, input, loaded, bundleFaults>>
genVars == <<genAt, genVersion, moved, outLock, outDir, out>>
readerVars == <<readerAt, input, loaded>>

Manifest == ArtifactCount + 1
File == 1..Manifest
Version == 1..MaxVersion
Input == {"manifest", "changes", "receipt"}

GenOver == {"ended", "crashed"}

SheetTypeOK ==
    /\ facts \in Version
    /\ genAt \in [Generator -> GenOver \cup {"read", "lock", "check", "render", "output",
                                             "move", "unstage", "undo", "leave"}]
    /\ genVersion \in [Generator -> 0..MaxVersion]
    /\ moved \in [Generator -> 0..Manifest]
    /\ outLock \subseteq Generator /\ outDir \subseteq Generator
    /\ Cardinality(outLock) <= 1 /\ Cardinality(outDir) <= 1
    /\ out \in [File -> 0..MaxVersion]
    /\ signed \in 0..MaxVersion
    /\ readerAt \in {"inputs", "artifacts", "accepted", "refused"}
    /\ input \in [Input -> 0..MaxVersion]
    /\ loaded \in [1..ArtifactCount -> 0..MaxVersion]
    /\ bundleFaults \in 0..MaxBundleFaults

SheetInit ==
    /\ facts = 1
    /\ genAt = [g \in Generator |-> "read"]
    /\ genVersion = [g \in Generator |-> 0]
    /\ moved = [g \in Generator |-> 0]
    /\ outLock = {} /\ outDir = {}
    /\ out = [f \in File |-> 0]
    /\ signed = 0
    /\ readerAt = "inputs"
    /\ input = [i \in Input |-> 0]
    /\ loaded = [f \in 1..ArtifactCount |-> 0]
    /\ bundleFaults = 0

GenGoes(g, from, to) == genAt[g] = from /\ genAt' = [genAt EXCEPT ![g] = to]

BundleFault == bundleFaults < MaxBundleFaults /\ bundleFaults' = bundleFaults + 1

-----------------------------------------------------------------------------
(* generateMonthlyCheatsheet *)

ReadFacts(g) ==
    /\ GenGoes(g, "read", "lock")
    /\ genVersion' = [genVersion EXCEPT ![g] = facts]
    /\ UNCHANGED <<facts, moved, outLock, outDir, out, signed, readerVars, bundleFaults>>

(* Slip: the lock file is opened without O_EXCL. *)
SlipLockOutput(g) ==
    /\ GenGoes(g, "lock", "check") /\ outLock' = outLock \cup {g}
    /\ UNCHANGED <<facts, genVersion, moved, outDir, out, signed, readerVars, bundleFaults>>

LockOutput(g) ==
    /\ IF outLock = {}
         THEN GenGoes(g, "lock", "check") /\ outLock' = {g}
         ELSE GenGoes(g, "lock", "ended") /\ UNCHANGED outLock
    /\ UNCHANGED <<facts, genVersion, moved, outDir, out, signed, readerVars, bundleFaults>>

CheckAbsent(g) ==
    /\ GenGoes(g, "check", IF outDir = {} THEN "render" ELSE "leave")
    /\ UNCHANGED <<facts, genVersion, moved, outLock, outDir, out, signed, readerVars, bundleFaults>>

(* Everything is rendered to the staging directory, or the browser fails. *)
RenderStaging(g) ==
    /\ \/ GenGoes(g, "render", "output") /\ UNCHANGED bundleFaults
       \/ GenGoes(g, "render", "leave") /\ BundleFault
    /\ UNCHANGED <<facts, genVersion, moved, outLock, outDir, out, signed, readerVars>>

MakeOutput(g) ==
    /\ IF outDir = {}
         THEN GenGoes(g, "output", "move") /\ outDir' = {g}
         ELSE GenGoes(g, "output", "leave") /\ UNCHANGED outDir
    /\ UNCHANGED <<facts, genVersion, moved, outLock, out, signed, readerVars, bundleFaults>>

(* Slip: a file is rendered from what the inputs hold by now. *)
SlipMoveFresh(g) ==
    /\ moved[g] < Manifest
    /\ GenGoes(g, "move", IF moved[g] + 1 = Manifest THEN "unstage" ELSE "move")
    /\ moved' = [moved EXCEPT ![g] = @ + 1]
    /\ out' = [out EXCEPT ![moved[g] + 1] = facts]
    /\ UNCHANGED <<facts, genVersion, outLock, outDir, signed, readerVars, bundleFaults>>

(* Slip: the manifest is moved first. *)
SlipManifestFirst(g) ==
    /\ moved[g] < Manifest
    /\ GenGoes(g, "move", IF moved[g] + 1 = Manifest THEN "unstage" ELSE "move")
    /\ moved' = [moved EXCEPT ![g] = @ + 1]
    /\ out' = [out EXCEPT ![Manifest - moved[g]] = genVersion[g]]
    /\ UNCHANGED <<facts, genVersion, outLock, outDir, signed, readerVars, bundleFaults>>

MoveFile(g) ==
    /\ moved[g] < Manifest
    /\ GenGoes(g, "move", IF moved[g] + 1 = Manifest THEN "unstage" ELSE "move")
    /\ moved' = [moved EXCEPT ![g] = @ + 1]
    /\ out' = [out EXCEPT ![moved[g] + 1] = genVersion[g]]
    /\ UNCHANGED <<facts, genVersion, outLock, outDir, signed, readerVars, bundleFaults>>

RemoveStaging(g) ==
    /\ GenGoes(g, "unstage", "leave")
    /\ UNCHANGED <<facts, genVersion, moved, outLock, outDir, out, signed, readerVars, bundleFaults>>

(* A rename, or the rmdir of the staging directory, throws. *)
PublishFails(g) ==
    /\ BundleFault
    /\ genAt[g] \in {"move", "unstage"}
    /\ genAt' = [genAt EXCEPT ![g] = "undo"]
    /\ UNCHANGED <<facts, genVersion, moved, outLock, outDir, out, signed, readerVars>>

(* Files go back in reverse order; one that cannot be moved stays. *)
UndoMove(g) ==
    /\ genAt[g] = "undo" /\ moved[g] > 0
    /\ moved' = [moved EXCEPT ![g] = @ - 1]
    /\ \/ out' = [out EXCEPT ![moved[g]] = 0] /\ UNCHANGED bundleFaults
       \/ UNCHANGED out /\ BundleFault
    /\ UNCHANGED <<facts, genAt, genVersion, outLock, outDir, signed, readerVars>>

UndoOutput(g) ==
    /\ moved[g] = 0
    /\ GenGoes(g, "undo", "leave")
    /\ outDir' = IF \A f \in File : out[f] = 0 THEN {} ELSE outDir
    /\ UNCHANGED <<facts, genVersion, moved, outLock, out, signed, readerVars, bundleFaults>>

(* The finally block: staging is removed, the lock only if it is still ours. *)
LeaveOutput(g) ==
    /\ GenGoes(g, "leave", "ended")
    /\ outLock' = outLock \ {g}
    /\ UNCHANGED <<facts, genVersion, moved, outDir, out, signed, readerVars, bundleFaults>>

Generates(g) ==
    \/ ReadFacts(g) \/ LockOutput(g) \/ CheckAbsent(g) \/ RenderStaging(g)
    \/ MakeOutput(g) \/ MoveFile(g) \/ RemoveStaging(g) \/ PublishFails(g)
    \/ UndoMove(g) \/ UndoOutput(g) \/ LeaveOutput(g)

-----------------------------------------------------------------------------
(* Operators and the deployment that signs what it finds. *)

NewFacts ==
    /\ facts < MaxVersion
    /\ facts' = facts + 1
    /\ UNCHANGED <<genVars, signed, readerVars, bundleFaults>>

GeneratorCrashes(g) ==
    /\ BundleFault
    /\ genAt[g] \notin GenOver
    /\ genAt' = [genAt EXCEPT ![g] = "crashed"]
    /\ UNCHANGED <<facts, genVersion, moved, outLock, outDir, out, signed, readerVars>>

(* An operator removes the output and a lock that was left behind, so that
   the directory can be generated again; no generator is working in it. *)
OperatorCleans ==
    /\ BundleFault
    /\ outDir # {} \/ outLock # {}
    /\ \A g \in Generator : genAt[g] \in GenOver \cup {"read", "lock"}
    /\ outLock' = {} /\ outDir' = {}
    /\ out' = [f \in File |-> 0]
    /\ UNCHANGED <<facts, genAt, genVersion, moved, signed, readerVars>>

DeploymentSigns ==
    /\ \E v \in Version : (\A f \in File : out[f] = v) /\ signed' = v
    /\ UNCHANGED <<facts, genVars, readerVars, bundleFaults>>

-----------------------------------------------------------------------------
(* createNewsletterCampaignDraft, up to campaignFromArtifacts. *)

Current(i) == CASE i = "manifest" -> out[Manifest]
                [] i = "changes" -> facts
                [] i = "receipt" -> signed

(* Three files, read at the same time; a missing one ends the script. *)
ReadInput(i) ==
    /\ readerAt = "inputs" /\ input[i] = 0
    /\ input' = [input EXCEPT ![i] = Current(i)]
    /\ readerAt' = IF Current(i) = 0 THEN "refused" ELSE "inputs"
    /\ UNCHANGED <<facts, genVars, signed, loaded, bundleFaults>>

(* verifySignedDeploymentReceipt: the version that the signature covers. *)
Signed == input["receipt"]

InputsMatch == input["manifest"] = Signed /\ input["changes"] = Signed

CompareInputs ==
    /\ readerAt = "inputs" /\ \A i \in Input : input[i] # 0
    /\ readerAt' = IF InputsMatch THEN "artifacts" ELSE "refused"
    /\ UNCHANGED <<facts, genVars, signed, input, loaded, bundleFaults>>

LoadArtifact(f) ==
    /\ readerAt = "artifacts"
    /\ \A h \in 1..ArtifactCount : (loaded[h] # 0) = (h < f)
    /\ loaded' = [loaded EXCEPT ![f] = out[f]]
    /\ readerAt' = IF out[f] = 0 THEN "refused" ELSE "artifacts"
    /\ UNCHANGED <<facts, genVars, signed, input, bundleFaults>>

(* Slip: only the first artifact is compared. *)
SlipDigestsMatch == loaded[1] = input["manifest"]

(* campaignFromArtifacts: every artifact has the digest the manifest lists. *)
DigestsMatch == \A f \in 1..ArtifactCount : loaded[f] = input["manifest"]

AcceptBundle ==
    /\ readerAt = "artifacts" /\ \A f \in 1..ArtifactCount : loaded[f] # 0
    /\ readerAt' = IF DigestsMatch THEN "accepted" ELSE "refused"
    /\ UNCHANGED <<facts, genVars, signed, input, loaded, bundleFaults>>

ReadsBundle ==
    \/ \E i \in Input : ReadInput(i)
    \/ CompareInputs
    \/ \E f \in 1..ArtifactCount : LoadArtifact(f)
    \/ AcceptBundle

SheetNext ==
    \/ \E g \in Generator : Generates(g) \/ GeneratorCrashes(g)
    \/ NewFacts \/ OperatorCleans \/ DeploymentSigns
    \/ ReadsBundle

SheetSpec == SheetInit /\ [][SheetNext]_sheetVars

-----------------------------------------------------------------------------
(* Properties. *)

(* The files in an output directory were made by one generator from one
   version of the facts, whatever raced, failed or was taken back. *)
OneVersionPerOutput ==
    \A f, h \in File : out[f] # 0 /\ out[h] # 0 => out[f] = out[h]

(* The manifest is the completion marker: while no more than one operation
   has failed, a directory that shows it holds every artifact it lists. *)
ManifestIsMarker ==
    out[Manifest] # 0 /\ bundleFaults <= 1 => \A f \in File : out[f] = out[Manifest]

(* A campaign is prepared from one version only, and that one was signed,
   although its five files are read one after another and may be replaced
   in between. *)
AcceptedIsSigned ==
    readerAt = "accepted" =>
        \E v \in Version : /\ \A i \in Input : input[i] = v
                          /\ \A f \in 1..ArtifactCount : loaded[f] = v

(* Whatever raced, failed or was replaced, a directory holds one version, its *)
(* manifest comes last, and a campaign is made of what was signed.            *)
BundleIsOneVersion ==
    /\ SheetTypeOK
    /\ OneVersionPerOutput
    /\ ManifestIsMarker
    /\ AcceptedIsSigned
=============================================================================
