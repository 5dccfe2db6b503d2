------------------------- MODULE CatalogPublication -------------------------
(***************************************************************************)
(* The catalog's publication tables in D1 and the guarded batches that     *)
(* write them (workers/catalog-ingest/src/catalog-cycle.ts, migrations     *)
(* 0001, 0005 and 0011).  Any number of cycles may be anywhere in their    *)
(* work: nothing here assumes that a coordinator keeps them apart.         *)
(*                                                                         *)
(* A candidate revision is named after the content and the cycle that      *)
(* built it, so a cycle owns at most one and the cycle's identifier stands *)
(* for it.  A cache revision is `<revision>+cache-<cycle>`, written here   *)
(* as the pair <<revision, cycle>>.                                        *)
(***************************************************************************)
EXTENDS CheckpointedIngestion, Nothing

CONSTANT Cycle   \* cycle identifiers (randomUUID)

\* What the final manifest says of the candidate, "none" before it is written.
Final == {"none", "changed", "unchanged"}

Manifest == [frozen : Cycle \cup {None}, final : Final]

ASSUME CatalogNone ==
    None \notin Cycle /\ None \notin Cycle \X Cycle /\ None \notin Manifest

VARIABLES
    revision,        \* catalog_revisions: publication_state of each cycle's revision
    cached,          \* api_response_revisions with all their entries
    catalogPointer,  \* catalog_publication_state.active_revision
    cachePointer,    \* api_response_publication_state.active_revision
    manifest,        \* the R2 manifest of each cycle, as far as publication reads it
    everServed       \* history: every <<revision, cycle>> readers were ever given

publicationVars ==
    <<revision, cached, catalogPointer, cachePointer, manifest, everServed>>

RevisionState == {"absent", "pending", "published", "superseded"}

PublicationTypeOK ==
    /\ revision \in [Cycle -> RevisionState]
    /\ cached \subseteq Cycle \X Cycle
    /\ catalogPointer \in Cycle \cup {None}
    /\ cachePointer \in (Cycle \X Cycle) \cup {None}
    /\ manifest \in [Cycle -> Manifest \cup {None}]
    /\ everServed \subseteq Cycle \X Cycle

PublicationInit ==
    /\ revision = [c \in Cycle |-> "absent"]
    /\ cached = {}
    /\ catalogPointer = None
    /\ cachePointer = None
    /\ manifest = [c \in Cycle |-> None]
    /\ everServed = {}
-----------------------------------------------------------------------------
(***************************************************************************)
(* The steps of a cycle that write the manifest or the tables.             *)
(***************************************************************************)

\* Slip: the cache revision is frozen instead of the catalog revision.
Baseline_OfCache == cachePointer

\* acquireStep: the baseline is the active revision if it is published.
Baseline ==
    IF catalogPointer # None /\ revision[catalogPointer] = "published"
    THEN catalogPointer ELSE None

FreezeBaseline(c) ==
    /\ manifest' = [manifest EXCEPT ![c] = [frozen |-> Baseline, final |-> "none"]]
    /\ UNCHANGED <<revision, cached, catalogPointer, cachePointer, everServed>>

\* The revision that a cycle's candidate is about.
CandidateRevision(c, final) ==
    IF final = "changed" THEN c ELSE manifest[c].frozen

\* Slip: INSERT OR REPLACE.
StageCandidate_Replaces(c, final) ==
    /\ final = "unchanged" => manifest[c].frozen # None
    /\ revision' = IF final = "changed" THEN [revision EXCEPT ![c] = "pending"] ELSE revision
    /\ cached' = cached \cup {<<CandidateRevision(c, final), c>>}
    /\ UNCHANGED <<catalogPointer, cachePointer, manifest, everServed>>

(* stageStep's batch.  INSERT OR IGNORE: a replay leaves existing rows     *)
(* as they are.                                                            *)
StageCandidate(c, final) ==
    /\ final = "unchanged" => manifest[c].frozen # None
    /\ revision' = IF final = "changed" /\ revision[c] = "absent"
                   THEN [revision EXCEPT ![c] = "pending"] ELSE revision
    /\ cached' = cached \cup {<<CandidateRevision(c, final), c>>}
    /\ UNCHANGED <<catalogPointer, cachePointer, manifest, everServed>>

WriteFinalManifest(c, final) ==
    /\ manifest' = [manifest EXCEPT ![c].final = final]
    /\ UNCHANGED <<revision, cached, catalogPointer, cachePointer, everServed>>

\* The counts that validateStep insists on.
CandidateComplete(c) ==
    /\ manifest[c].final = "changed" => revision[c] = "pending"
    /\ <<CandidateRevision(c, manifest[c].final), c>> \in cached
-----------------------------------------------------------------------------
(***************************************************************************)
(* The publication batches: every statement sees what the ones before it   *)
(* in the batch wrote.                                                     *)
(***************************************************************************)

\* Statement 1: the frozen revision is superseded while it is still active.
Supersede(f) ==
    [r \in Cycle |->
        IF r = f /\ catalogPointer = f /\ revision[r] = "published"
        THEN "superseded" ELSE revision[r]]

\* Slip: statement 2 without its compare-and-swap.
PublishPending_Unguarded(states, c, f) ==
    [states EXCEPT ![c] = IF @ = "pending" THEN "published" ELSE @]

\* Statement 2: the pending revision of this cycle is published.
PublishPending(states, c, f) ==
    [states EXCEPT ![c] =
        IF @ = "pending" /\ catalogPointer = f THEN "published" ELSE @]

\* Statement 3: the pointer moves from the frozen revision to the candidate.
MovePointer(states, c, f) ==
    IF states[c] = "published" /\ catalogPointer = f THEN c ELSE catalogPointer

\* Slip: statement 4 is missing.
MoveCachePointer_Missing(pointer, r, c) == cachePointer

\* Statement 4: the cache pointer follows once the candidate's revision is active.
MoveCachePointer(pointer, r, c) ==
    IF pointer = r THEN <<r, c>> ELSE cachePointer

(* What buildCatalogPublicationStatements leaves behind, or for an         *)
(* unchanged candidate buildUnchangedPublicationStatements, which only     *)
(* moves the cache pointer.                                                *)
Published(c) ==
    LET f       == manifest[c].frozen
        changed == manifest[c].final = "changed"
        states  == IF changed THEN PublishPending(Supersede(f), c, f) ELSE revision
        pointer == IF changed THEN MovePointer(states, c, f) ELSE catalogPointer
        r       == CandidateRevision(c, manifest[c].final)
    IN  [states |-> states, pointer |-> pointer, cache |-> MoveCachePointer(pointer, r, c)]

(* The triggers of migration 0011 and the foreign key of migration 0005:   *)
(* a batch that breaks one of them is rolled back.                         *)
PointersAllowed(after) ==
    /\ after.pointer # catalogPointer => after.states[after.pointer] = "published"
    /\ after.cache # cachePointer =>
          after.cache \in cached /\ after.cache[1] = after.pointer

\* publishStep's batch.
PublishBatch(c) ==
    LET after == Published(c)
    IN  /\ manifest[c].final # "none"
        /\ PointersAllowed(after)
        /\ revision' = after.states
        /\ catalogPointer' = after.pointer
        /\ cachePointer' = after.cache
        /\ everServed' = IF after.cache = None THEN everServed
                         ELSE everServed \cup {after.cache}
        /\ UNCHANGED <<cached, manifest>>

\* publishStep's check after the batch: both pointers are this candidate's.
PointersMatch(c) ==
    LET r == CandidateRevision(c, manifest[c].final)
    IN  catalogPointer = r /\ cachePointer = <<r, c>>
-----------------------------------------------------------------------------
\* What stageStep's batch leaves behind, whoever replays it.
CandidateStaged(c, final) ==
    /\ final = "changed" => revision[c] # "absent"
    /\ <<CandidateRevision(c, final), c>> \in cached

(* A cycle acquires before it stages, and writes the final manifest after  *)
(* its batch; beyond that, cycles take these steps in any order and any    *)
(* number of times, whatever became of the coordinator that ran them.      *)
PublicationNext ==
    \E c \in Cycle :
        \/ revision[c] = "absent" /\ FreezeBaseline(c)
        \/ /\ manifest[c] # None
           /\ \/ PublishBatch(c)
              \/ \E final \in Final \ {"none"} :
                    \/ StageCandidate(c, final)
                    \/ CandidateStaged(c, final) /\ WriteFinalManifest(c, final)

PublicationSpec == PublicationInit /\ [][PublicationNext]_publicationVars
-----------------------------------------------------------------------------
(***************************************************************************)
(* Properties.                                                             *)
(***************************************************************************)

(* Both read paths of functions/api/catalog.ts agree: the catalog pointer  *)
(* is on a published revision, and the cache pointer is on a complete set  *)
(* of responses of that same revision.                                     *)
ReadersAgree ==
    IF catalogPointer = None
    THEN cachePointer = None
    ELSE /\ revision[catalogPointer] = "published"
         /\ cachePointer # None
         /\ cachePointer[1] = catalogPointer
         /\ cachePointer \in cached

(* Migration 0001: "only one revision is published", whichever cycles race *)
(* to publish and however often a batch is replayed.                       *)
OnePublished ==
    \A r \in Cycle : revision[r] = "published" <=> catalogPointer = r

(* At every moment the tables serve one view: whichever cycles race, one    *)
(* published revision, with its own complete responses, on both read paths. *)
OneViewIsServed ==
    /\ PublicationTypeOK
    /\ ReadersAgree
    /\ OnePublished

(* The compare-and-swap on the frozen revision: the pointer only ever      *)
(* moves away from the revision the publishing cycle read at its start.    *)
PointerMovesFromFrozen ==
    [][catalogPointer' # catalogPointer =>
         /\ catalogPointer' # None
         /\ manifest[catalogPointer'].frozen = catalogPointer]_publicationVars

\* What a reader of the public API is given.
View == INSTANCE PublishedView WITH
    Revision <- Cycle,
    Owner    <- Cycle,
    served   <- IF ReadersAgree THEN cachePointer ELSE None,
    retired  <- {r \in Cycle : revision[r] = "superseded"}

(* The tables implement the published view: no gap, no mixed revisions, no *)
(* return of a replaced revision.                                          *)
ImplementsView == View!ViewSpec
=============================================================================
