------------------------ MODULE CatalogIngest_proofs ------------------------
(***************************************************************************)
(* Proofs about the catalog tables and their coordinator: whatever         *)
(* crashes, overlaps, replays and rejections the coordinator meets, it     *)
(* keeps the protocol of CatalogPublication, so what is proved of the      *)
(* tables holds under it.                                                  *)
(*                                                                         *)
(* None of the coordinator's guarantees is inductive alone, because a      *)
(* cycle is recorded in up to five places (storage, its row, the handler,  *)
(* the handler's next record and a start() call) that a crash leaves out   *)
(* of step.  The inductive invariant says, of each record, that the        *)
(* completion markers reach its cursor (Marked), that the tables and R2    *)
(* hold what the steps before the cursor have left there (Reached), and    *)
(* that no other cycle that could still write has begun to (Untouched).    *)
(* Two more invariants, in the second half, say what faults may cost: one  *)
(* of the alarm (WakeInv) and one of the requests (RequestInv).            *)
(***************************************************************************)
EXTENDS CatalogIngest, SequenceTheorems, TLAPS
-----------------------------------------------------------------------------
(***************************************************************************)
(* THE PUBLICATION TABLES, for any set of cycles.                          *)
(*                                                                         *)
(* What readers see is safe because a publication batch either does        *)
(* nothing to the catalog pointer or performs a whole replacement          *)
(* (PublishBatchEffect).  That a batch never does half of one, superseding *)
(* the active revision without publishing its own, needs the history of    *)
(* the baselines: BaselinesBehind and FrozenWasPublished.                  *)
(***************************************************************************)

\* A baseline was public when it was frozen, and was at most superseded since.
FrozenWasPublished ==
    \A c \in Cycle :
        manifest[c] # None /\ manifest[c].frozen # None =>
            revision[manifest[c].frozen] \in {"published", "superseded"}

\* The baseline of a revision that was published is no longer active.
BaselinesBehind ==
    \A c \in Cycle :
        revision[c] \in {"published", "superseded"} =>
            manifest[c] # None /\ manifest[c].frozen # catalogPointer

\* A final manifest that announces a new revision was written after its rows.
FinalWasStaged ==
    \A c \in Cycle :
        manifest[c] # None /\ manifest[c].final = "changed" => revision[c] # "absent"

PublicationInv ==
    /\ PublicationTypeOK
    /\ ReadersAgree
    /\ OnePublished
    /\ FrozenWasPublished
    /\ BaselinesBehind
    /\ FinalWasStaged
-----------------------------------------------------------------------------
\* The batch of cycle c leaves revisions and catalog pointer as they are.
OnlyResponses(c) ==
    /\ revision' = revision
    /\ catalogPointer' = catalogPointer
    /\ \/ cachePointer' = cachePointer
       \/ /\ catalogPointer # None
          /\ cachePointer' = <<catalogPointer, c>>
          /\ cachePointer' \in cached

\* The batch of cycle c replaces the active revision, which c had frozen.
Replacement(c) ==
    /\ revision[c] = "pending"
    /\ manifest[c].frozen = catalogPointer
    /\ revision' = [r \in Cycle |->
                      IF r = c THEN "published"
                      ELSE IF r = catalogPointer THEN "superseded"
                      ELSE revision[r]]
    /\ catalogPointer' = c
    /\ cachePointer' = <<c, c>>
    /\ cachePointer' \in cached

\* An unchanged candidate only refreshes the responses of an unmoved baseline.
LEMMA UnchangedPublishes ==
    ASSUME NEW c \in Cycle, manifest[c].final = "unchanged"
    PROVE  /\ Published(c).states = revision
           /\ Published(c).pointer = catalogPointer
           /\ Published(c).cache = IF catalogPointer = manifest[c].frozen
                                   THEN <<manifest[c].frozen, c>> ELSE cachePointer
BY DEF Published, MoveCachePointer, CandidateRevision

\* The batch of a candidate whose baseline has moved publishes nothing.
LEMMA StalePublishes ==
    ASSUME PublicationInv, NEW c \in Cycle, manifest[c] # None,
           manifest[c].final = "changed", catalogPointer # manifest[c].frozen
    PROVE  /\ Published(c).states = revision
           /\ Published(c).pointer = catalogPointer
           /\ Published(c).cache = IF catalogPointer = c THEN <<c, c>> ELSE cachePointer
<1> DEFINE f == manifest[c].frozen
<1>1. manifest[c] \in Manifest /\ revision \in [Cycle -> RevisionState]
  BY DEF PublicationInv, PublicationTypeOK
<1>2. Supersede(f) = revision
  BY <1>1 DEF Supersede
<1>3. PublishPending(revision, c, f) = revision
  BY <1>1 DEF PublishPending
<1> QED
  BY <1>2, <1>3 DEF Published, MovePointer, MoveCachePointer, CandidateRevision

\* The batch of a candidate whose baseline is still active replaces it.
LEMMA CurrentPublishes ==
    ASSUME PublicationInv, NEW c \in Cycle, manifest[c] # None,
           manifest[c].final = "changed", catalogPointer = manifest[c].frozen
    PROVE  /\ revision[c] = "pending" /\ catalogPointer # c
           /\ Published(c).states = [r \in Cycle |->
                                       IF r = c THEN "published"
                                       ELSE IF r = catalogPointer THEN "superseded"
                                       ELSE revision[r]]
           /\ Published(c).pointer = c
           /\ Published(c).cache = <<c, c>>
<1> DEFINE f == manifest[c].frozen
<1>1. manifest[c] \in Manifest /\ revision \in [Cycle -> RevisionState] /\ c # None
  BY CatalogNone DEF PublicationInv, PublicationTypeOK
<1>2. revision[c] = "pending"
  BY <1>1 DEF PublicationInv, BaselinesBehind, FinalWasStaged, RevisionState
<1>3. f # c
  BY <1>1, <1>2 DEF PublicationInv, FrozenWasPublished
<1>4. f # None => revision[f] = "published"
  BY DEF PublicationInv, ReadersAgree
<1>5. Supersede(f) = [s \in Cycle |-> IF s = f THEN "superseded" ELSE revision[s]]
  BY <1>1, <1>4, CatalogNone DEF Supersede
<1>6. PublishPending(Supersede(f), c, f) =
          [s \in Cycle |-> IF s = c THEN "published"
                           ELSE IF s = f THEN "superseded" ELSE revision[s]]
  BY <1>2, <1>3, <1>5 DEF PublishPending
<1>7. /\ Published(c).states = PublishPending(Supersede(f), c, f)
      /\ Published(c).pointer = c
      /\ Published(c).cache = <<c, c>>
  BY <1>6 DEF Published, MovePointer, MoveCachePointer, CandidateRevision
<1> QED
  BY <1>2, <1>3, <1>6, <1>7

\* What a batch that is not rolled back leaves in the tables.
LEMMA BatchWrites ==
    ASSUME NEW c \in Cycle, PublishBatch(c)
    PROVE  /\ revision' = Published(c).states
           /\ catalogPointer' = Published(c).pointer
           /\ cachePointer' = Published(c).cache
           /\ cachePointer' # cachePointer => cachePointer' \in cached
BY DEF PublishBatch, PointersAllowed

\* The batch of an unchanged cycle.
LEMMA UnchangedBatchEffect ==
    ASSUME PublicationInv, NEW c \in Cycle, manifest[c] # None,
           manifest[c].final = "unchanged", PublishBatch(c)
    PROVE  /\ OnlyResponses(c)
           /\ catalogPointer = manifest[c].frozen =>
                 cachePointer' = <<manifest[c].frozen, c>>
<1>1. manifest[c].frozen \in Cycle \cup {None} /\ cached \subseteq Cycle \X Cycle
  BY DEF PublicationInv, PublicationTypeOK, Manifest
<1>2. cachePointer' # cachePointer => manifest[c].frozen \in Cycle
  <2> SUFFICES ASSUME cachePointer' # cachePointer PROVE manifest[c].frozen \in Cycle
    OBVIOUS
  <2>1. cachePointer' = Published(c).cache /\ cachePointer' \in cached
    BY BatchWrites
  <2>2. cachePointer' = <<manifest[c].frozen, c>>
    BY <2>1, UnchangedPublishes
  <2> QED
    BY <1>1, <2>1, <2>2
<1> QED
  BY <1>2, BatchWrites, UnchangedPublishes, CatalogNone DEF OnlyResponses

\* The batch of a changed cycle whose baseline is no longer active.
LEMMA StaleBatchEffect ==
    ASSUME PublicationInv, NEW c \in Cycle, manifest[c] # None,
           manifest[c].final = "changed", catalogPointer # manifest[c].frozen, PublishBatch(c)
    PROVE  /\ OnlyResponses(c)
           /\ catalogPointer = c => cachePointer' = <<c, c>>
BY BatchWrites, StalePublishes, CatalogNone DEF OnlyResponses

\* A batch whose baseline is still active.
LEMMA CurrentBatchEffect ==
    ASSUME PublicationInv, NEW c \in Cycle, manifest[c] # None,
           manifest[c].final = "changed", catalogPointer = manifest[c].frozen, PublishBatch(c)
    PROVE  Replacement(c)
<1>1. revision[c] = "pending" /\ catalogPointer # c /\ cachePointer' = <<c, c>>
  BY BatchWrites, CurrentPublishes
<1>2. cachePointer' \in cached
  <2>1. CASE cachePointer' = cachePointer
    <3>1. cachePointer = <<c, c>> /\ cachePointer[1] = c
      BY <1>1, <2>1
    <3>2. catalogPointer # None
      BY <3>1, CatalogNone DEF PublicationInv, ReadersAgree
    <3> QED
      BY <1>1, <3>1, <3>2 DEF PublicationInv, ReadersAgree
  <2>2. CASE cachePointer' # cachePointer
    BY <2>2, BatchWrites
  <2> QED
    BY <2>1, <2>2
<1> QED
  BY <1>1, <1>2, BatchWrites, CurrentPublishes DEF Replacement

(* A publication batch moves both pointers and both states, or neither:    *)
(* the statements of buildCatalogPublicationStatements never fire in part. *)
LEMMA PublishBatchEffect ==
    ASSUME PublicationInv, NEW c \in Cycle, manifest[c] # None, PublishBatch(c)
    PROVE  OnlyResponses(c) \/ Replacement(c)
<1>1. manifest[c].final \in {"changed", "unchanged"}
  BY DEF PublicationInv, PublicationTypeOK, Manifest, Final, PublishBatch
<1> QED
  BY <1>1, UnchangedBatchEffect, StaleBatchEffect, CurrentBatchEffect
-----------------------------------------------------------------------------
\* Nothing is published at first.
LEMMA InitPublicationInv == PublicationInit => PublicationInv
<1> SUFFICES ASSUME PublicationInit PROVE PublicationInv
  OBVIOUS
<1>1. PublicationTypeOK
  BY DEF PublicationInit, PublicationTypeOK, RevisionState
<1>2. ReadersAgree
  BY DEF PublicationInit, ReadersAgree
<1>3. OnePublished
  BY CatalogNone DEF PublicationInit, OnePublished
<1>4. FrozenWasPublished /\ BaselinesBehind /\ FinalWasStaged
  BY DEF PublicationInit, FrozenWasPublished, BaselinesBehind, FinalWasStaged
<1> QED
  BY <1>1, <1>2, <1>3, <1>4 DEF PublicationInv

\* acquireStep freezes a revision that is public at that moment.
LEMMA FreezeBaselinePreserves ==
    ASSUME PublicationInv, NEW c \in Cycle, revision[c] = "absent", FreezeBaseline(c)
    PROVE  PublicationInv'
<1>1. /\ manifest' = [manifest EXCEPT ![c] = [frozen |-> Baseline, final |-> "none"]]
      /\ UNCHANGED <<revision, cached, catalogPointer, cachePointer, everServed>>
  BY DEF FreezeBaseline
<1>2. Baseline \in Cycle \cup {None} /\ (Baseline # None => revision[Baseline] = "published")
  BY DEF Baseline, PublicationInv, PublicationTypeOK
<1>3. [frozen |-> Baseline, final |-> "none"] \in Manifest
  BY <1>2 DEF Manifest, Final
<1>4. PublicationTypeOK'
  BY <1>1, <1>3 DEF PublicationInv, PublicationTypeOK
<1>5. ReadersAgree' /\ OnePublished'
  BY <1>1 DEF PublicationInv, ReadersAgree, OnePublished
<1>6. \A d \in Cycle : manifest'[d] = IF d = c THEN [frozen |-> Baseline, final |-> "none"]
                                     ELSE manifest[d]
  BY <1>1 DEF PublicationInv, PublicationTypeOK
<1>7. FrozenWasPublished'
  BY <1>1, <1>2, <1>6 DEF PublicationInv, FrozenWasPublished
<1>8. BaselinesBehind'
  BY <1>1, <1>6 DEF PublicationInv, BaselinesBehind
<1>9. FinalWasStaged'
  BY <1>1, <1>6 DEF PublicationInv, FinalWasStaged
<1> QED
  BY <1>4, <1>5, <1>7, <1>8, <1>9 DEF PublicationInv

\* stageStep's batch only adds rows: nothing that readers see changes.
LEMMA StageCandidatePreserves ==
    ASSUME PublicationInv, NEW c \in Cycle, manifest[c] # None,
           NEW final \in {"changed", "unchanged"}, StageCandidate(c, final)
    PROVE  PublicationInv'
<1>1. /\ cached' = cached \cup {<<CandidateRevision(c, final), c>>}
      /\ UNCHANGED <<catalogPointer, cachePointer, manifest, everServed>>
  BY DEF StageCandidate
<1>2. \A d \in Cycle : \/ revision'[d] = revision[d]
                       \/ revision[d] = "absent" /\ revision'[d] = "pending"
  BY DEF StageCandidate, PublicationInv, PublicationTypeOK
<1>3. revision' \in [Cycle -> RevisionState]
  BY DEF StageCandidate, PublicationInv, PublicationTypeOK, RevisionState
<1>4. CandidateRevision(c, final) \in Cycle
  BY DEF StageCandidate, CandidateRevision, PublicationInv, PublicationTypeOK, Manifest
<1>5. PublicationTypeOK'
  BY <1>1, <1>3, <1>4 DEF PublicationInv, PublicationTypeOK
<1>6. ReadersAgree'
  BY <1>1, <1>2 DEF PublicationInv, PublicationTypeOK, ReadersAgree
<1>7. OnePublished'
  BY <1>1, <1>2 DEF PublicationInv, OnePublished
<1>8. FrozenWasPublished'
  BY <1>1, <1>2 DEF PublicationInv, PublicationTypeOK, Manifest, FrozenWasPublished
<1>9. BaselinesBehind'
  BY <1>1, <1>2 DEF PublicationInv, BaselinesBehind
<1>10. FinalWasStaged'
  BY <1>1, <1>2 DEF PublicationInv, FinalWasStaged
<1> QED
  BY <1>5, <1>6, <1>7, <1>8, <1>9, <1>10 DEF PublicationInv

\* A final manifest names a candidate that is staged.
LEMMA WriteFinalManifestPreserves ==
    ASSUME PublicationInv, NEW c \in Cycle, manifest[c] # None,
           NEW final \in {"changed", "unchanged"}, CandidateStaged(c, final),
           WriteFinalManifest(c, final)
    PROVE  PublicationInv'
<1>1. /\ manifest' = [manifest EXCEPT ![c].final = final]
      /\ UNCHANGED <<revision, cached, catalogPointer, cachePointer, everServed>>
  BY DEF WriteFinalManifest
<1>2. manifest[c] \in Manifest
  BY DEF PublicationInv, PublicationTypeOK
<1>3. \A d \in Cycle \ {c} : manifest'[d] = manifest[d]
  BY <1>1 DEF PublicationInv, PublicationTypeOK
<1>4. manifest'[c] = [frozen |-> manifest[c].frozen, final |-> final]
  BY <1>1, <1>2 DEF PublicationInv, PublicationTypeOK, Manifest
<1>5. manifest' \in [Cycle -> Manifest \cup {None}]
  BY <1>1, <1>2 DEF PublicationInv, PublicationTypeOK, Manifest, Final
<1>6. PublicationTypeOK'
  BY <1>1, <1>5 DEF PublicationInv, PublicationTypeOK
<1>7. ReadersAgree' /\ OnePublished'
  BY <1>1 DEF PublicationInv, ReadersAgree, OnePublished
<1>8. \A d \in Cycle : manifest'[d] # None =>
          manifest[d] # None /\ manifest'[d].frozen = manifest[d].frozen
  BY <1>3, <1>4
<1>9. \A d \in Cycle : manifest[d] # None => manifest'[d] # None
  <2>1. manifest'[c] \in Manifest
    BY <1>2, <1>4 DEF Manifest, Final
  <2> QED
    BY <1>3, <2>1, CatalogNone
<1>10. FrozenWasPublished'
  BY <1>1, <1>8 DEF PublicationInv, FrozenWasPublished
<1>11. BaselinesBehind'
  BY <1>1, <1>8, <1>9 DEF PublicationInv, BaselinesBehind
<1>12. FinalWasStaged'
  BY <1>1, <1>3, <1>4 DEF PublicationInv, FinalWasStaged, CandidateStaged
<1> QED
  BY <1>6, <1>7, <1>10, <1>11, <1>12 DEF PublicationInv

\* The guarded batch keeps the invariant, whichever of the three it is.
LEMMA PublishBatchPreserves ==
    ASSUME PublicationInv, NEW c \in Cycle, manifest[c] # None, PublishBatch(c)
    PROVE  PublicationInv'
<1>1. UNCHANGED <<cached, manifest>>
  BY DEF PublishBatch
<1>2. everServed' = IF cachePointer' = None THEN everServed
                    ELSE everServed \cup {cachePointer'}
  BY DEF PublishBatch
<1>3. CASE OnlyResponses(c)
  <2>1. PublicationTypeOK'
    BY <1>1, <1>2, <1>3 DEF OnlyResponses, PublicationInv, PublicationTypeOK
  <2>2. ReadersAgree'
    BY <1>1, <1>3, CatalogNone
    DEF OnlyResponses, PublicationInv, PublicationTypeOK, ReadersAgree
  <2>3. OnePublished' /\ FrozenWasPublished' /\ BaselinesBehind' /\ FinalWasStaged'
    BY <1>1, <1>3 DEF OnlyResponses, PublicationInv, OnePublished, FrozenWasPublished,
                      BaselinesBehind, FinalWasStaged
  <2> QED
    BY <2>1, <2>2, <2>3 DEF PublicationInv
<1>4. CASE Replacement(c)
  <2>1. \A d \in Cycle : revision'[d] = IF d = c THEN "published"
                                        ELSE IF d = catalogPointer THEN "superseded"
                                        ELSE revision[d]
    BY <1>4 DEF Replacement
  <2>2. /\ catalogPointer' = c
        /\ cachePointer' = <<c, c>>
        /\ cachePointer' \in cached
        /\ catalogPointer # c
    BY <1>4, CatalogNone DEF Replacement, PublicationInv, ReadersAgree
  <2>3. revision' \in [Cycle -> RevisionState]
    BY <1>4 DEF Replacement, PublicationInv, PublicationTypeOK, RevisionState
  <2>4. PublicationTypeOK'
    BY <1>1, <1>2, <2>2, <2>3, CatalogNone DEF PublicationInv, PublicationTypeOK
  <2>5. ReadersAgree'
    BY <1>1, <2>1, <2>2, CatalogNone DEF ReadersAgree
  <2>6. OnePublished'
    BY <2>1, <2>2 DEF PublicationInv, OnePublished
  <2>7. FrozenWasPublished'
    BY <1>1, <2>1 DEF PublicationInv, PublicationTypeOK, Manifest, FrozenWasPublished
  <2>8. BaselinesBehind'
    <3> SUFFICES ASSUME NEW d \in Cycle, revision'[d] \in {"published", "superseded"}
                 PROVE  manifest[d] # None /\ manifest[d].frozen # c
      BY <1>1, <2>2 DEF BaselinesBehind
    <3>1. CASE d = c
      BY <3>1, <1>4, <2>2, manifest[c] # None DEF Replacement
    <3>2. CASE d # c
      <4>1. revision[d] \in {"published", "superseded"}
        BY <3>2, <2>1 DEF PublicationInv, ReadersAgree, OnePublished
      <4>2. manifest[d] # None
        BY <4>1 DEF PublicationInv, BaselinesBehind
      <4>3. manifest[d].frozen # None => revision[manifest[d].frozen] # "pending"
        BY <4>2 DEF PublicationInv, FrozenWasPublished
      <4> QED
        BY <4>2, <4>3, <1>4, CatalogNone DEF Replacement
    <3> QED
      BY <3>1, <3>2
  <2>9. FinalWasStaged'
    BY <1>1, <2>1 DEF PublicationInv, FinalWasStaged
  <2> QED
    BY <2>4, <2>5, <2>6, <2>7, <2>8, <2>9 DEF PublicationInv
<1> QED
  BY <1>3, <1>4, PublishBatchEffect

\* Every step of the protocol, whoever takes it, preserves the invariant.
LEMMA PublicationStep ==
    ASSUME PublicationInv, [PublicationNext]_publicationVars
    PROVE  PublicationInv'
<1>1. CASE UNCHANGED publicationVars
  BY <1>1 DEF publicationVars, PublicationInv, PublicationTypeOK, ReadersAgree,
              OnePublished, FrozenWasPublished, BaselinesBehind, FinalWasStaged
<1>2. ASSUME NEW c \in Cycle, revision[c] = "absent", FreezeBaseline(c)
      PROVE  PublicationInv'
  BY <1>2, FreezeBaselinePreserves
<1>3. ASSUME NEW c \in Cycle, manifest[c] # None, PublishBatch(c)
      PROVE  PublicationInv'
  BY <1>3, PublishBatchPreserves
<1>4. ASSUME NEW c \in Cycle, manifest[c] # None,
             NEW final \in Final \ {"none"}, StageCandidate(c, final)
      PROVE  PublicationInv'
  BY <1>4, StageCandidatePreserves DEF Final
<1>5. ASSUME NEW c \in Cycle, manifest[c] # None, NEW final \in Final \ {"none"},
             CandidateStaged(c, final), WriteFinalManifest(c, final)
      PROVE  PublicationInv'
  BY <1>5, WriteFinalManifestPreserves DEF Final
<1> QED
  BY <1>1, <1>2, <1>3, <1>4, <1>5 DEF PublicationNext

(* The invariant holds in every reachable state.                           *)
THEOREM PublicationInvariance == PublicationSpec => []PublicationInv
BY PublicationStep, InitPublicationInv, PTL DEF PublicationSpec

\* Every variable keeps its type: manifests, rows and pointers name cycles.
THEOREM PublicationTypeCorrect == PublicationSpec => []PublicationTypeOK
BY PublicationInvariance, PTL DEF PublicationInv

(* Whichever cycles race, the two read paths of functions/api/catalog.ts   *)
(* agree on one published revision with its own complete responses.        *)
THEOREM ReadersAlwaysAgree == PublicationSpec => []ReadersAgree
BY PublicationInvariance, PTL DEF PublicationInv

\* At most one revision is published, and it is the one the pointer is on.
THEOREM OneRevisionPublished == PublicationSpec => []OnePublished
BY PublicationInvariance, PTL DEF PublicationInv

(* The three together, as the run checks them on three cycles.             *)
THEOREM OneViewAlwaysServed == PublicationSpec => []OneViewIsServed
<1>1. PublicationInv => OneViewIsServed
  BY DEF PublicationInv, OneViewIsServed
<1> QED
  BY <1>1, PublicationInvariance, PTL

(* The compare-and-swap of buildCatalogPublicationStatements: the pointer  *)
(* moves only from the revision that the publishing cycle had frozen.      *)
THEOREM PointerCompareAndSwap == PublicationSpec => PointerMovesFromFrozen
<1> DEFINE Swap ==
      catalogPointer' # catalogPointer =>
         /\ catalogPointer' # None
         /\ manifest[catalogPointer'].frozen = catalogPointer
<1>1. PublicationInv /\ [PublicationNext]_publicationVars => [Swap]_publicationVars
  <2> SUFFICES ASSUME PublicationInv, PublicationNext,
                      catalogPointer' # catalogPointer
               PROVE  Swap
    BY DEF publicationVars
  <2>1. PICK c \in Cycle : manifest[c] # None /\ PublishBatch(c)
    BY DEF PublicationNext, FreezeBaseline, StageCandidate, WriteFinalManifest
  <2>2. Replacement(c)
    BY <2>1, PublishBatchEffect DEF OnlyResponses
  <2> QED
    BY <2>2, CatalogNone DEF Replacement
<1> QED
  BY <1>1, PublicationInvariance, PTL DEF PublicationSpec, PointerMovesFromFrozen
-----------------------------------------------------------------------------
(* The tables implement the published view: a batch is a replacement, a    *)
(* refresh of the responses, or nothing that a reader can see.             *)
THEOREM PublicationImplementsView == PublicationSpec => ImplementsView
<1> DEFINE served  == IF ReadersAgree THEN cachePointer ELSE None
           retired == {r \in Cycle : revision[r] = "superseded"}
<1>1. PublicationInit => View!ViewInit
  BY DEF PublicationInit, ReadersAgree, View!ViewInit
<1>2. PublicationInv /\ PublicationInv' /\ [PublicationNext]_publicationVars
        => [View!ViewNext]_<<served, retired>>
  <2> SUFFICES ASSUME PublicationInv, PublicationInv', [PublicationNext]_publicationVars
               PROVE  View!ViewNext \/ (served' = served /\ retired' = retired)
    OBVIOUS
  <2>1. served = cachePointer /\ served' = cachePointer'
    BY DEF PublicationInv
  <2>2. CASE UNCHANGED <<catalogPointer, cachePointer>> /\ retired' = retired
    BY <2>1, <2>2
  <2>3. ASSUME NEW c \in Cycle, StageCandidate(c, "changed") \/ StageCandidate(c, "unchanged")
        PROVE  retired' = retired /\ UNCHANGED <<catalogPointer, cachePointer>>
    BY <2>3 DEF StageCandidate, PublicationInv, PublicationTypeOK
  <2>4. ASSUME NEW c \in Cycle, OnlyResponses(c)
        PROVE  View!ViewNext \/ (served' = served /\ retired' = retired)
    <3>1. retired' = retired
      BY <2>4 DEF OnlyResponses
    <3>2. CASE cachePointer' = cachePointer
      BY <2>1, <3>1, <3>2
    <3>3. CASE cachePointer' # cachePointer
      <4>1. served # None /\ served' = <<served[1], c>>
        BY <2>1, <2>4, <3>3 DEF OnlyResponses, PublicationInv, ReadersAgree
      <4>2. View!Refresh(c)
        BY <3>1, <4>1 DEF View!Refresh
      <4> QED
        BY <4>2 DEF View!ViewNext
    <3> QED
      BY <3>2, <3>3
  <2>5. ASSUME NEW c \in Cycle, Replacement(c)
        PROVE  View!ViewNext
    <3>1. c \notin retired
      BY <2>5 DEF Replacement
    <3>2. served' = <<c, c>>
      BY <2>1, <2>5 DEF Replacement
    <3>3. served # None =>
            served[1] = catalogPointer /\ catalogPointer \in Cycle /\ catalogPointer # c
      BY <2>1, <2>5 DEF Replacement, PublicationInv, ReadersAgree, PublicationTypeOK
    <3>4. served = None => catalogPointer = None
      BY <2>1 DEF PublicationInv, ReadersAgree
    <3>5. retired' = IF served = None THEN retired ELSE retired \cup {served[1]}
      BY <2>5, <3>3, <3>4, CatalogNone DEF Replacement
    <3>6. View!Replace(c, c)
      BY <3>1, <3>2, <3>3, <3>5 DEF View!Replace
    <3> QED
      BY <3>6 DEF View!ViewNext
  <2>6. ASSUME NEW c \in Cycle, FreezeBaseline(c) \/ \E final \in Final : WriteFinalManifest(c, final)
        PROVE  retired' = retired /\ UNCHANGED <<catalogPointer, cachePointer>>
    BY <2>6 DEF FreezeBaseline, WriteFinalManifest
  <2>7. CASE UNCHANGED publicationVars
    BY <2>2, <2>7 DEF publicationVars
  <2>8. CASE PublicationNext
    <3>1. PICK c \in Cycle :
             \/ FreezeBaseline(c)
             \/ manifest[c] # None /\ PublishBatch(c)
             \/ StageCandidate(c, "changed") \/ StageCandidate(c, "unchanged")
             \/ \E final \in Final : WriteFinalManifest(c, final)
      BY <2>8 DEF PublicationNext, Final
    <3> QED
      BY <3>1, <2>2, <2>3, <2>4, <2>5, <2>6, PublishBatchEffect
  <2> QED
    BY <2>7, <2>8
<1> QED
  BY <1>1, <1>2, PublicationInvariance, PTL DEF PublicationSpec, ImplementsView, View!ViewSpec

-----------------------------------------------------------------------------
(***************************************************************************)
(* THE COORDINATOR.                                                        *)
(***************************************************************************)

(***************************************************************************)
(* Where a cycle is.                                                       *)
(***************************************************************************)
StageCursor    == Len(Source) + 2
ValidateCursor == Len(Source) + 3
PublishCursor  == Len(Source) + 4
ReceiptCursor  == Len(Source) + 5

\* The batch of cycle c replaced the active revision.
Replaced(c) ==
    /\ manifest[c].final = "changed"
    /\ catalogPointer = c
    /\ <<c, c>> \in cached

(* What cycle c has left in the tables and in R2 when it is at step k, and *)
(* what no other cycle has done meanwhile.                                 *)
Reached(c, k) ==
    /\ k = 0 => revision[c] = "absent"
    /\ k > 0 => manifest[c] # None
    /\ \A j \in 1 .. Len(Source) + 1 : j < k => Steps[j + 1] \in artifacts[c]
    /\ k \in 1 .. ValidateCursor =>
          manifest[c].frozen = catalogPointer /\ revision[c] \in {"absent", "pending"}
    /\ k >= ValidateCursor => HasFinal(c)
    /\ k = ValidateCursor => CandidateComplete(c)
    /\ k = PublishCursor =>
          \/ CandidateComplete(c) /\ manifest[c].frozen = catalogPointer
          \/ Replaced(c)
    /\ k > PublishCursor => Served(c)

\* The completion markers of cycle c reach up to step k, or one beyond.
Marked(c, k) ==
    \A j \in Cursor :
        /\ j < k => receipt[c][j] = "done"
        /\ receipt[c][j] = "done" => j <= k

Stands(c, k) == Marked(c, k) /\ Reached(c, k)

\* The row of cycle c, unless over, is not behind step k.
RowFollows(c, k) ==
    \A r \in {row[c]} \ {None} :
        ~ IsOver(r) => r.cursor >= k /\ Stands(c, r.cursor)

\* Cycle c has done nothing.
Untouched(c) ==
    revision[c] = "absent" /\ \A k \in Cursor : receipt[c][k] # "done"

(* What holds of every record of a cycle, wherever it is kept.  Attempts   *)
(* are counted in retrievals only.                                         *)
Sound(r) ==
    /\ ~ IsOver(r) => r.attempt < MaxRequests
    /\ r.attempt # 0 => r.cursor \in 1 .. Len(Source)
    /\ r.state = "published" => Served(r.id)
    /\ r.state = "retry_wait" => r.retryAt # None
-----------------------------------------------------------------------------
(***************************************************************************)
(* The inductive invariant.                                                *)
(***************************************************************************)

\* The records in storage, in the handler and in the calls of start().
InStorage == {stored} \ {None}
InHand    == IF handler = None THEN {} ELSE {handler.cycle}
Begun(s)  == {starter[s]} \ {None}

RowsAreSound ==
    \A c \in Cycle :
        /\ row[c] = None => Untouched(c)
        /\ \A r \in {row[c]} \ {None} : r.id = c /\ Sound(r)

StoredIsSound ==
    \A r \in InStorage :
        /\ row[r.id] # None
        /\ Sound(r)
        /\ ~ IsOver(r) => Stands(r.id, r.cursor) /\ RowFollows(r.id, r.cursor)

\* The cycle that a start() is about to store is nowhere else.
IsFresh(x) ==
    /\ Untouched(x.id)
    /\ row[x.id] = None <=> x.pc # "put"
    /\ x.pc = "put" => row[x.id] = NewCycle(x.id, x.at)
    /\ \A r \in InStorage \cup InHand : r.id # x.id

\* The cycle that it found in storage is an older one.
FoundIsSound(x) ==
    /\ x.pc = "expire" => x.existing # None
    /\ x.existing # None => row[x.existing.id] # None /\ Sound(x.existing)

StartersAreSound ==
    \A s \in Starter : \A x \in Begun(s) :
        /\ IsFresh(x)
        /\ FoundIsSound(x)
        /\ \A t \in Starter : \A y \in Begun(t) :
              /\ t # s => y.id # x.id
              /\ x.existing # None => x.existing.id # y.id

(* Storage holds the cycle the handler is working on, where the handler    *)
(* found it, or a cycle that start() put there since.                      *)
HandlerIsAlone ==
    \A h \in InHand :
        /\ row[h.id] # None
        /\ stored # None
        /\ stored.id = h.id => stored.cursor = h.cursor
        /\ \A r \in InStorage : r.id # h.id => r.cursor = 0 /\ Untouched(r.id)

HandlerIsSound ==
    \A h \in InHand :
        Sound(h) /\ ~ IsOver(h) /\ Stands(h.id, h.cursor) /\ RowFollows(h.id, h.cursor)

\* The result of a step that is being persisted.
ResultIsSound(h, n) ==
    /\ n.cursor = IF handler.mark = "done" THEN h.cursor + 1 ELSE h.cursor
    /\ ~ IsOver(n) => Reached(n.id, n.cursor)
    /\ handler.pc = "persist-retrieval" => h.cursor \in 1 .. Len(Source)

\* What the handler is about to put into the row or into storage.
NextIsSound ==
    \A h \in InHand :
        handler.pc \in {"persist", "persist-retrieval", "put", "fail-row"} =>
            /\ handler.next # None
            /\ \A n \in {handler.next} :
                  /\ n.id = h.id /\ Sound(n)
                  /\ handler.pc = "fail-row" => IsOver(n)
                  /\ handler.pc = "put" /\ ~ IsOver(n) =>
                        Stands(n.id, n.cursor) /\ RowFollows(n.id, n.cursor)
                  /\ handler.pc \in {"persist", "persist-retrieval"} => ResultIsSound(h, n)

StepIsNotDone ==
    \A h \in InHand :
        handler.pc \in {"step", "write-manifest", "confirm"} =>
            /\ receipt[h.id][h.cursor] # "done"
            /\ handler.pc = "write-manifest" =>
                  h.cursor = StageCursor /\ CandidateStaged(h.id, Candidate(h.id))
            /\ handler.pc = "confirm" =>
                  h.cursor = PublishCursor /\ PointersMatch(h.id) /\ Served(h.id)

IngestInv ==
    /\ TypeOK
    /\ PublicationInv
    /\ RowsAreSound
    /\ StoredIsSound
    /\ StartersAreSound
    /\ HandlerIsAlone
    /\ HandlerIsSound
    /\ NextIsSound
    /\ StepIsNotDone
    /\ CheckpointsInOrder
-----------------------------------------------------------------------------
\* The steps, by number.
LEMMA StepsShape ==
    /\ Len(Source) \in Nat
    /\ Len(Steps) = Len(Source) + 6
    /\ Cursor = 0 .. Len(Source) + 5
    /\ Steps[1] = "acquire"
    /\ \A i \in 1 .. Len(Source) : Steps[i + 1] = Source[i]
    /\ Steps[Len(Source) + 2] = "prepare-manual"
    /\ Steps[Len(Source) + 3] = "stage"
    /\ Steps[Len(Source) + 4] = "validate"
    /\ Steps[Len(Source) + 5] = "publish"
    /\ Steps[Len(Source) + 6] = "receipt"
<1> DEFINE n     == Len(Source)
           Step  == Retrieval \cup {"acquire", "prepare-manual", "stage", "validate", "publish", "receipt"}
           one   == <<"acquire">>
           last  == <<"prepare-manual", "stage", "validate", "publish", "receipt">>
           first == one \o Source
<1>1. Source \in Seq(Step) /\ n \in Nat
  <2>1. n \in Nat /\ Source \in [1 .. n -> STRING]
    BY IngestBounds, LenProperties
  <2>2. Source \in [1 .. n -> Step]
    BY <2>1 DEF Retrieval
  <2> QED
    BY <2>1, <2>2, SeqDef
<1>2. one \in Seq(Step) /\ Len(one) = 1 /\ one[1] = "acquire"
  OBVIOUS
<1>3. last \in Seq(Step)
  OBVIOUS
<1>4. Len(last) = 5
  OBVIOUS
<1>5. /\ last[1] = "prepare-manual" /\ last[2] = "stage" /\ last[3] = "validate"
      /\ last[4] = "publish" /\ last[5] = "receipt"
  OBVIOUS
<1>6. Steps = first \o last
  BY DEF Steps
<1> HIDE DEF one, last, Step
<1>7. first \in Seq(Step) /\ Len(first) = n + 1
  <2>1. first \in Seq(Step) /\ Len(first) = Len(one) + Len(Source)
    BY <1>1, <1>2, ConcatProperties
  <2> QED
    BY <1>1, <1>2, <2>1
<1>8. first[1] = "acquire" /\ \A i \in 1 .. n : first[i + 1] = Source[i]
  BY <1>1, <1>2, ConcatProperties
<1> HIDE DEF first
<1>9a. /\ Len(first \o last) = Len(first) + Len(last)
       /\ \A i \in 1 .. Len(first) + Len(last) :
             (first \o last)[i] = IF i <= Len(first) THEN first[i] ELSE last[i - Len(first)]
  BY <1>3, <1>7, ConcatProperties
<1>9. Len(Steps) = n + 6 /\ \A i \in 1 .. n + 6 : Steps[i] = IF i <= n + 1 THEN first[i] ELSE last[i - (n + 1)]
  BY <1>1, <1>4, <1>6, <1>7, <1>9a
<1>10. Cursor = 0 .. n + 5
  BY <1>1, <1>9 DEF Cursor
<1> HIDE DEF n
<1>11. Steps[1] = "acquire"
  BY <1>1, <1>8, <1>9
<1>12. \A i \in 1 .. n : Steps[i + 1] = Source[i]
  BY <1>1, <1>8, <1>9
<1>13. \A j \in 1 .. 5 : Steps[n + 1 + j] = last[j]
  <2> TAKE j \in 1 .. 5
  <2>1. n + 1 + j \in 1 .. n + 6 /\ ~ (n + 1 + j <= n + 1) /\ (n + 1 + j) - (n + 1) = j
    BY <1>1
  <2> QED
    BY <2>1, <1>9
<1>14. /\ Steps[n + 1 + 1] = last[1] /\ Steps[n + 1 + 2] = last[2] /\ Steps[n + 1 + 3] = last[3]
       /\ Steps[n + 1 + 4] = last[4] /\ Steps[n + 1 + 5] = last[5]
  BY <1>13
<1>15. n + 1 + 1 = n + 2 /\ n + 1 + 2 = n + 3 /\ n + 1 + 3 = n + 4 /\ n + 1 + 4 = n + 5 /\ n + 1 + 5 = n + 6
  BY <1>1
<1> QED
  BY <1>1, <1>5, <1>9, <1>10, <1>11, <1>12, <1>14, <1>15 DEF n

\* Each phase is at one cursor only.
LEMMA StepAt ==
    ASSUME NEW k \in Cursor
    PROVE  /\ Steps[k + 1] = "acquire" <=> k = 0
           /\ Steps[k + 1] \in Retrieval <=> k \in 1 .. Len(Source)
           /\ Steps[k + 1] = "prepare-manual" <=> k = Len(Source) + 1
           /\ Steps[k + 1] = "stage" <=> k = Len(Source) + 2
           /\ Steps[k + 1] = "validate" <=> k = Len(Source) + 3
           /\ Steps[k + 1] = "publish" <=> k = Len(Source) + 4
           /\ Steps[k + 1] = "receipt" <=> k = Len(Source) + 5
<1> DEFINE n == Len(Source)
           s == Steps[k + 1]
<1>1. k \in Nat /\ n \in Nat /\ k \in 0 .. n + 5
  BY StepsShape
<1>2. CASE k = 0
  <2>1. s = "acquire"
    BY <1>2, StepsShape
  <2> QED
    BY <1>1, <1>2, <2>1, SourceNames
<1>3. CASE k \in 1 .. n
  <2>1. s = Source[k]
    BY <1>3, StepsShape
  <2>2. s \in Retrieval
    BY <1>3, <2>1 DEF Retrieval
  <2> QED
    BY <1>1, <1>3, <2>2, SourceNames
<1>4. CASE k = n + 1
  <2>1. s = "prepare-manual"
    BY <1>1, <1>4, StepsShape
  <2> QED
    BY <1>1, <1>4, <2>1, SourceNames
<1>5. CASE k = n + 2
  <2>1. s = "stage"
    BY <1>1, <1>5, StepsShape
  <2> QED
    BY <1>1, <1>5, <2>1, SourceNames
<1>6. CASE k = n + 3
  <2>1. s = "validate"
    BY <1>1, <1>6, StepsShape
  <2> QED
    BY <1>1, <1>6, <2>1, SourceNames
<1>7. CASE k = n + 4
  <2>1. s = "publish"
    BY <1>1, <1>7, StepsShape
  <2> QED
    BY <1>1, <1>7, <2>1, SourceNames
<1>8. CASE k = n + 5
  <2>1. s = "receipt"
    BY <1>1, <1>8, StepsShape
  <2> QED
    BY <1>1, <1>8, <2>1, SourceNames
<1> QED
  BY <1>1, <1>2, <1>3, <1>4, <1>5, <1>6, <1>7, <1>8
-----------------------------------------------------------------------------
\* A record that moves on stays a record, one step further.
LEMMA AdvancedEffect ==
    ASSUME NEW cycle \in CycleRecord, cycle.cursor + 1 \in Cursor, NEW state \in CycleState
    PROVE  /\ Advanced(cycle, state) \in CycleRecord
           /\ Advanced(cycle, state).id = cycle.id
           /\ Advanced(cycle, state).state = state
           /\ Advanced(cycle, state).cursor = cycle.cursor + 1
           /\ Advanced(cycle, state).attempt = 0
<1> DEFINE k == cycle.cursor + 1
<1>1. Advanced(cycle, state) = [cycle EXCEPT !.state = state, !.cursor = k, !.attempt = 0, !.retryAt = None]
  BY DEF Advanced, CycleRecord
<1>2. k \in Cursor /\ 0 \in 0 .. MaxRequests
  BY DEF MaxRequests
<1> HIDE DEF k
<1>3. Advanced(cycle, state) \in CycleRecord
  BY <1>1, <1>2 DEF CycleRecord
<1>4. /\ Advanced(cycle, state).id = cycle.id
           /\ Advanced(cycle, state).state = state
           /\ Advanced(cycle, state).cursor = k
           /\ Advanced(cycle, state).attempt = 0
  BY <1>1, <1>2 DEF CycleRecord
<1> QED BY <1>3, <1>4 DEF k
\* A record that changes its state stays where it is.
LEMMA EndedEffect ==
    ASSUME NEW cycle \in CycleRecord, NEW state \in CycleState
    PROVE  /\ Ended(cycle, state) \in CycleRecord
           /\ Ended(cycle, state).id = cycle.id
           /\ Ended(cycle, state).state = state
           /\ Ended(cycle, state).cursor = cycle.cursor
           /\ Ended(cycle, state).attempt = cycle.attempt
BY DEF Ended, CycleRecord

\* A new cycle is sound and at its first step.
LEMMA NewCycleEffect ==
    ASSUME NEW c \in Cycle, NEW at \in Nat
    PROVE  /\ NewCycle(c, at) \in CycleRecord
           /\ NewCycle(c, at).id = c
           /\ NewCycle(c, at).state = "running"
           /\ NewCycle(c, at).cursor = 0
           /\ NewCycle(c, at).attempt = 0
<1>1. 0 \in 0 .. MaxRequests /\ 0 \in Cursor
  BY StepsShape DEF MaxRequests
<1> QED BY <1>1 DEF NewCycle, CycleRecord, CycleState

\* What the end of a step writes into the handler.
LEMMA ResultEffect ==
    ASSUME handler \in HandlerRecord, NEW pc \in HandlerPc, NEW next \in CycleRecord,
           NEW mark \in StepStatus, NEW at \in Nat \cup {None},
           Result(pc, next, mark, at)
    PROVE  /\ handler' \in HandlerRecord
           /\ handler'.pc = pc
           /\ handler'.cycle = handler.cycle
           /\ handler'.now = handler.now
           /\ handler'.next = next
           /\ handler'.mark = mark
           /\ handler'.alarmAt = at
BY DEF Result, HandlerRecord
-----------------------------------------------------------------------------
\* The record in the handler, and what is known of its type.
LEMMA InHandIs ==
    ASSUME TypeOK, NEW h \in InHand
    PROVE  /\ handler # None /\ handler.cycle = h /\ handler \in HandlerRecord
           /\ h \in CycleRecord /\ h.id \in Cycle /\ h.cursor \in Cursor /\ h.attempt \in 0 .. MaxRequests
           /\ h.state \in CycleState
BY DEF TypeOK, InHand, HandlerRecord, CycleRecord

\* A handler in flight has a record in hand.
LEMMA HandlerInHand ==
    ASSUME TypeOK, handler # None
    PROVE  handler.cycle \in InHand
BY DEF InHand

\* A record of a cycle names a cycle and a step.
LEMMA RecordIs ==
    ASSUME NEW r \in CycleRecord
    PROVE  /\ r.id \in Cycle /\ r.cursor \in Cursor /\ r.cursor \in Nat
           /\ r.cursor <= Len(Source) + 5
           /\ r.state \in CycleState /\ r.attempt \in 0 .. MaxRequests /\ r # None
<1>1. r.id \in Cycle /\ r.cursor \in Cursor /\ r.state \in CycleState /\ r.attempt \in 0 .. MaxRequests
  BY DEF CycleRecord
<1>2. r.cursor \in Nat /\ r.cursor <= Len(Source) + 5
  BY <1>1, StepsShape
<1> QED
  BY <1>1, <1>2, IngestNone

\* What a step leaves of the places and markers it does not touch.
LEMMA ReachedKept ==
    ASSUME NEW c, NEW k, UNCHANGED <<publicationVars, artifacts>>
    PROVE  Reached(c, k) <=> Reached(c, k)'
BY DEF publicationVars, Reached, HasFinal, CandidateComplete, CandidateRevision, Replaced, Served

\* Receipts that are kept mark the same steps.
LEMMA MarkedKept ==
    ASSUME NEW c, NEW k, receipt'[c] = receipt[c]
    PROVE  Marked(c, k) <=> Marked(c, k)'
BY DEF Marked

\* A sound record stays one.
LEMMA SoundKept ==
    ASSUME NEW r, Sound(r), everServed \subseteq everServed'
    PROVE  Sound(r)'
BY DEF Sound, Served

\* A cycle nothing is written for stays untouched.
LEMMA UntouchedKept ==
    ASSUME NEW c, Untouched(c), receipt'[c] = receipt[c], revision[c] = "absent" => revision'[c] = "absent"
    PROVE  Untouched(c)'
BY DEF Untouched

\* So do all of them when neither tables nor receipts change.
LEMMA QuietKeeps ==
    ASSUME UNCHANGED <<publicationVars, artifacts, receipt>>
    PROVE  /\ \A r : Sound(r) => Sound(r)'
           /\ \A c : Untouched(c) => Untouched(c)'
           /\ \A c, k : Reached(c, k) => Reached(c, k)'
           /\ \A c, k : Stands(c, k) => Stands(c, k)'
           /\ \A c, k : row'[c] = row[c] /\ RowFollows(c, k) => RowFollows(c, k)'
<1>1. everServed' = everServed /\ revision' = revision
  BY DEF publicationVars
<1>2. \A c, k : Stands(c, k) => Stands(c, k)'
  BY ReachedKept, MarkedKept DEF Stands
<1> QED
  BY <1>1, <1>2, SoundKept, UntouchedKept, ReachedKept DEF RowFollows

(* The calls of start() keep what they know: the handler and storage hold  *)
(* no cycle of theirs, and touch none but their own.                       *)
LEMMA StartersKept ==
    ASSUME TypeOK, StartersAreSound, starter' = starter,
           \A c \in Cycle : (\A r \in InStorage \cup InHand : r.id # c) =>
               row'[c] = row[c] /\ (Untouched(c) => Untouched(c)'),
           \A c \in Cycle : row[c] # None => row'[c] # None,
           \A r : Sound(r) => Sound(r)',
           \A r \in InStorage' \cup InHand' : \E q \in InStorage \cup InHand : q.id = r.id
    PROVE  StartersAreSound'
<1> SUFFICES ASSUME NEW s \in Starter, NEW x \in Begun(s)
             PROVE  IsFresh(x)' /\ FoundIsSound(x)'
  BY DEF StartersAreSound, Begun
<1>1. /\ x \in StarterRecord /\ x.id \in Cycle /\ IsFresh(x) /\ FoundIsSound(x)
      /\ x.existing # None => x.existing.id \in Cycle
  BY DEF StartersAreSound, Begun, TypeOK, StarterRecord, CycleRecord
<1>2. row'[x.id] = row[x.id] /\ Untouched(x.id)'
  BY <1>1 DEF IsFresh
<1>3. IsFresh(x)'
  BY <1>1, <1>2 DEF IsFresh
<1>4. FoundIsSound(x)'
  BY <1>1 DEF FoundIsSound
<1> QED
  BY <1>3, <1>4

\* A cycle that has done nothing is at its first step.
LEMMA UntouchedStands ==
    ASSUME NEW c \in Cycle
    PROVE  (Untouched(c) => Stands(c, 0)) /\ (Untouched(c) => Stands(c, 0))'
<1>1. \A j \in Cursor : j >= 0 /\ ~ (j < 0)
  BY StepsShape
<1>2. (Untouched(c) => Marked(c, 0)) /\ (Untouched(c) => Marked(c, 0))'
  BY <1>1 DEF Untouched, Marked
<1>3. (Untouched(c) => Reached(c, 0)) /\ (Untouched(c) => Reached(c, 0))'
  BY StepsShape DEF Untouched, Reached, ValidateCursor, PublishCursor
<1> QED
  BY <1>2, <1>3 DEF Stands

\* A record that an untouched cycle is marked up to is at its first step.
LEMMA MarkedUntouched ==
    ASSUME NEW c \in Cycle, Untouched(c), NEW k \in Cursor, Marked(c, k)
    PROVE  k = 0
<1>1. k \in Nat /\ Len(Source) \in Nat /\ k <= Len(Source) + 5
  BY StepsShape
<1>2. SUFFICES ASSUME k # 0 PROVE FALSE
  OBVIOUS
<1>3. 0 \in Cursor /\ 0 < k
  BY <1>1, <1>2, StepsShape
<1> QED
  BY <1>3 DEF Marked, Untouched
-----------------------------------------------------------------------------
\* A step of the handler's cycle that leaves receipts, rows and storage as they are.
WorksOn(h) ==
    /\ handler' \in HandlerRecord
    /\ handler'.cycle = h
    /\ UNCHANGED <<storageVars, receiptVars, starter, clock>>
    /\ everServed \subseteq everServed'
    /\ \A d \in Cycle \ {h.id} : revision[d] = "absent" => revision'[d] = "absent"

\* The types of what such a step may change besides the publication tables.
WorkTypes ==
    /\ artifacts \in [Cycle -> SUBSET Artifact]
    /\ differs \in [Cycle -> BOOLEAN]
    /\ requests \in [Cycle -> Nat]
    /\ faults \in 0 .. MaxFaults

(* A step of the handler's cycle that keeps what the cycle has reached     *)
(* disturbs no other record.                                               *)
LEMMA WorkPreserves ==
    ASSUME IngestInv, NEW h \in InHand, receipt[h.id][h.cursor] # "done",
           WorksOn(h), WorkTypes', PublicationInv', Reached(h.id, h.cursor)',
           NextIsSound', StepIsNotDone'
    PROVE  IngestInv'
<1> DEFINE c == h.id
           k == h.cursor
<1>1. /\ handler # None /\ handler.cycle = h /\ h \in CycleRecord
      /\ c \in Cycle /\ k \in Cursor
  BY InHandIs DEF IngestInv
<1>2. /\ TypeOK /\ RowsAreSound /\ StoredIsSound /\ StartersAreSound
      /\ HandlerIsAlone /\ HandlerIsSound /\ CheckpointsInOrder
  BY DEF IngestInv
<1>3. /\ stored' = stored /\ alarm' = alarm /\ row' = row /\ receipt' = receipt
      /\ starter' = starter /\ clock' = clock
      /\ handler' \in HandlerRecord /\ handler' # None
      /\ InHand' = InHand /\ InHand = {h}
  BY <1>1, IngestNone DEF WorksOn, storageVars, receiptVars, InHand
<1>4. TypeOK'
  BY <1>2, <1>3 DEF TypeOK, WorkTypes, PublicationInv
<1>5. \A r : Sound(r) => Sound(r)'
  BY SoundKept DEF WorksOn
<1>6. \A d \in Cycle : d # c /\ Untouched(d) => Untouched(d)'
  BY <1>3, UntouchedKept DEF WorksOn
<1>7. \A d, j : Marked(d, j) => Marked(d, j)'
  BY <1>3, MarkedKept
<1>8. row[c] # None /\ Stands(c, k) /\ RowFollows(c, k)
  BY <1>2, <1>3 DEF HandlerIsAlone, HandlerIsSound
<1>9. Stands(c, k)'
  BY <1>7, <1>8 DEF Stands
<1>10. RowFollows(c, k)'
  <2> SUFFICES ASSUME NEW r \in {row[c]} \ {None}, ~ IsOver(r)
               PROVE  r.cursor >= k /\ Stands(c, r.cursor)'
    BY <1>3 DEF RowFollows
  <2>1. r \in CycleRecord /\ r.cursor >= k /\ Marked(c, r.cursor)
    BY <1>1, <1>2, <1>8 DEF RowFollows, Stands, TypeOK
  <2>2. r.cursor = k
    BY <2>1, <1>1, RecordIs, receipt[h.id][h.cursor] # "done" DEF Marked
  <2> QED
    BY <2>1, <2>2, <1>9
<1>11. RowsAreSound'
  BY <1>2, <1>3, <1>5, <1>6, <1>8 DEF RowsAreSound
<1>12. StoredIsSound'
  <2> SUFFICES ASSUME NEW r \in InStorage
               PROVE  /\ row[r.id] # None
                      /\ Sound(r)'
                      /\ ~ IsOver(r) => Stands(r.id, r.cursor)' /\ RowFollows(r.id, r.cursor)'
    BY <1>3 DEF StoredIsSound, InStorage
  <2>1. r \in CycleRecord /\ r.id \in Cycle /\ row[r.id] # None /\ Sound(r)'
    BY <1>2, <1>5, RecordIs DEF TypeOK, StoredIsSound, InStorage
  <2>2. CASE r.id = c
    BY <2>1, <2>2, <1>1, <1>2, <1>3, <1>9, <1>10 DEF HandlerIsAlone, InStorage
  <2>3. CASE r.id # c
    <3>1. r.cursor = 0 /\ Untouched(r.id)
      BY <2>3, <1>2, <1>3 DEF HandlerIsAlone
    <3>2. Untouched(r.id)' /\ Stands(r.id, 0)'
      <4>1. Untouched(r.id)'
        BY <2>1, <2>3, <3>1, <1>6
      <4> QED
        BY <4>1, <2>1, UntouchedStands
    <3>3. ~ IsOver(r) => RowFollows(r.id, 0)'
      <4> SUFFICES ASSUME ~ IsOver(r), NEW q \in {row[r.id]} \ {None}, ~ IsOver(q)
                   PROVE  q.cursor >= 0 /\ Stands(r.id, q.cursor)'
        BY <1>3 DEF RowFollows
      <4>1. q \in CycleRecord /\ q.cursor >= 0 /\ Marked(r.id, q.cursor)
        BY <1>2, <2>1, <3>1 DEF StoredIsSound, RowFollows, Stands, TypeOK
      <4>2. q.cursor = 0
        BY <4>1, <2>1, <3>1, RecordIs, MarkedUntouched
      <4> QED
        BY <4>1, <4>2, <3>2
    <3> QED
      BY <2>1, <3>1, <3>2, <3>3
  <2> QED
    BY <2>2, <2>3
<1>13. StartersAreSound'
  BY <1>1, <1>2, <1>3, <1>5, <1>6, StartersKept DEF InStorage
<1>14. HandlerIsAlone'
  <2>1. \A r \in InStorage : r.id # c => Untouched(r.id)'
    BY <1>2, <1>3, <1>6, RecordIs DEF HandlerIsAlone, InStorage, TypeOK
  <2> QED
    BY <2>1, <1>2, <1>3 DEF HandlerIsAlone, InStorage
<1>15. HandlerIsSound'
  BY <1>2, <1>3, <1>5, <1>9, <1>10 DEF HandlerIsSound
<1>16. CheckpointsInOrder'
  BY <1>2, <1>3 DEF CheckpointsInOrder
<1> QED
  BY <1>4, <1>11, <1>12, <1>13, <1>14, <1>15, <1>16 DEF IngestInv
-----------------------------------------------------------------------------
\* A step of the coordinator that keeps the invariant and the protocol.
SafeStep == IngestInv' /\ [PublicationNext]_publicationVars

\* What a step in progress knows of its cycle.
LEMMA StepFacts ==
    ASSUME IngestInv, NEW h \in InHand, handler.pc \in {"step", "write-manifest", "confirm"}
    PROVE  /\ handler # None /\ handler.cycle = h /\ handler \in HandlerRecord
           /\ h \in CycleRecord /\ h.id \in Cycle /\ h.cursor \in Cursor /\ h.cursor \in Nat
           /\ TypeOK /\ PublicationInv
           /\ receipt[h.id][h.cursor] # "done"
           /\ Reached(h.id, h.cursor)
           /\ Sound(h)
<1>1. TypeOK /\ PublicationInv /\ HandlerIsSound /\ StepIsNotDone
  BY DEF IngestInv
<1>2. /\ handler # None /\ handler.cycle = h /\ handler \in HandlerRecord
      /\ h \in CycleRecord /\ h.id \in Cycle /\ h.cursor \in Cursor /\ h.cursor \in Nat
  BY <1>1, InHandIs, StepsShape
<1>3. receipt[h.id][h.cursor] # "done"
  BY <1>1 DEF StepIsNotDone
<1>4. Reached(h.id, h.cursor) /\ Sound(h)
  BY <1>1 DEF HandlerIsSound, Stands
<1> QED
  BY <1>1, <1>2, <1>3, <1>4

\* A step that completes, and so moves its cycle one step on.
LEMMA CompletesPreserves ==
    ASSUME IngestInv, NEW h \in InHand, receipt[h.id][h.cursor] # "done",
           NEW pc \in {"persist", "persist-retrieval"},
           NEW state \in {"running", "ready_to_publish", "published"},
           Completes(pc, state),
           h.cursor < Len(Source) + 5,
           everServed \subseteq everServed',
           \A d \in Cycle \ {h.id} : revision[d] = "absent" => revision'[d] = "absent",
           WorkTypes', PublicationInv',
           Reached(h.id, h.cursor)', Reached(h.id, h.cursor + 1)',
           state = "published" => Served(h.id)',
           pc = "persist-retrieval" => h.cursor \in 1 .. Len(Source)
    PROVE  IngestInv'
<1>1. /\ handler # None /\ handler.cycle = h /\ handler \in HandlerRecord
      /\ h \in CycleRecord /\ h.id \in Cycle /\ h.cursor \in Cursor /\ h.cursor + 1 \in Cursor
  BY InHandIs, StepsShape DEF IngestInv
<1> DEFINE n == Advanced(h, state)
<1>2. /\ n \in CycleRecord /\ n.id = h.id /\ n.cursor = h.cursor + 1
      /\ n.state = state /\ n.attempt = 0 /\ n # None
  BY <1>1, AdvancedEffect, IngestNone DEF CycleState
<1>3. Result(pc, n, "done", handler.now)
  BY <1>1 DEF Completes
<1> HIDE DEF n
<1>4. handler.now \in Nat /\ pc \in HandlerPc /\ "done" \in StepStatus
  BY <1>1 DEF HandlerRecord, HandlerPc, StepStatus
<1>5. /\ handler' \in HandlerRecord /\ handler'.cycle = h /\ handler'.pc = pc
      /\ handler'.next = n /\ handler'.mark = "done"
  BY <1>1, <1>2, <1>3, <1>4, ResultEffect
<1>6. InHand' = {h} /\ handler' # None
  BY <1>5, IngestNone DEF InHand
<1>7. WorksOn(h)
  BY <1>3, <1>5 DEF WorksOn, Result
<1>8. Sound(n)'
  BY <1>2 DEF Sound, MaxRequests
<1>9. ResultIsSound(h, n)'
  BY <1>2, <1>5 DEF ResultIsSound
<1>10. NextIsSound'
  BY <1>2, <1>5, <1>6, <1>8, <1>9 DEF NextIsSound
<1>11. StepIsNotDone'
  BY <1>5, <1>6 DEF StepIsNotDone
<1> QED
  BY <1>7, <1>10, <1>11, WorkPreserves

\* The catch block of alarm(): the cycle in storage is over, whatever it was.
LEMMA CatchPreserves ==
    ASSUME IngestInv, handler # None, Catch, faults' \in 0 .. MaxFaults
    PROVE  SafeStep
<1> PICK h \in InHand : TRUE
  BY HandlerInHand DEF IngestInv
<1>1. /\ handler.cycle = h /\ handler \in HandlerRecord
      /\ h \in CycleRecord /\ h.id \in Cycle /\ h.cursor \in Cursor
      /\ InHand = {h}
  BY InHandIs DEF IngestInv, InHand
<1> DEFINE n == Ended(h, "failed")
<1>2. /\ n \in CycleRecord /\ n.id = h.id /\ n.cursor = h.cursor /\ n # None
      /\ n.state = "failed" /\ n.attempt = h.attempt
  BY <1>1, EndedEffect, IngestNone DEF CycleState
<1>3. IsOver(n)
  BY <1>2 DEF IsOver
<1>4. /\ stored' = n /\ handler' = [handler EXCEPT !.pc = "fail-row", !.next = n]
      /\ UNCHANGED <<publicationVars, alarm, receiptVars, sourceVars, starter, clock>>
  BY <1>1 DEF Catch
<1> HIDE DEF n
<1>5. /\ handler' \in HandlerRecord /\ handler'.cycle = h /\ handler'.pc = "fail-row"
      /\ handler'.next = n
  BY <1>1, <1>2, <1>4 DEF HandlerRecord, HandlerPc
<1>6. InHand' = {h} /\ handler' # None /\ InStorage' = {n}
  BY <1>2, <1>4, <1>5, IngestNone DEF InHand, InStorage
<1>7. /\ TypeOK /\ PublicationInv /\ RowsAreSound /\ StoredIsSound /\ StartersAreSound
      /\ HandlerIsAlone /\ HandlerIsSound /\ CheckpointsInOrder
  BY DEF IngestInv
<1>8. /\ row' = row /\ receipt' = receipt /\ starter' = starter
      /\ UNCHANGED <<publicationVars, artifacts>>
      /\ everServed' = everServed /\ revision' = revision
  BY <1>4 DEF receiptVars, sourceVars, publicationVars
<1>9. [PublicationNext]_publicationVars /\ PublicationInv'
  BY <1>7, <1>8, PublicationStep
<1>10. TypeOK'
  BY <1>2, <1>4, <1>5, <1>7, <1>9 DEF TypeOK, receiptVars, sourceVars, PublicationInv
<1>11. /\ \A r : Sound(r) => Sound(r)'
       /\ \A d : Untouched(d) => Untouched(d)'
       /\ \A d, j : Stands(d, j) => Stands(d, j)'
       /\ \A d, j : RowFollows(d, j) => RowFollows(d, j)'
  BY <1>8, QuietKeeps
<1>12. Sound(h) /\ row[h.id] # None
  BY <1>1, <1>7 DEF HandlerIsSound, HandlerIsAlone
<1>13. Sound(n)'
  BY <1>2, <1>3, <1>12 DEF Sound
<1>14. RowsAreSound'
  BY <1>7, <1>8, <1>11 DEF RowsAreSound
<1>15. StoredIsSound'
  BY <1>2, <1>3, <1>6, <1>8, <1>12, <1>13 DEF StoredIsSound
<1>16. StartersAreSound'
  BY <1>1, <1>2, <1>6, <1>7, <1>8, <1>11, StartersKept
<1>17. HandlerIsAlone'
  BY <1>2, <1>4, <1>6, <1>8, <1>12 DEF HandlerIsAlone
<1>18. HandlerIsSound'
  BY <1>1, <1>6, <1>7, <1>11 DEF HandlerIsSound
<1>19. NextIsSound'
  BY <1>2, <1>3, <1>5, <1>6, <1>13 DEF NextIsSound
<1>20. StepIsNotDone'
  BY <1>5, <1>6 DEF StepIsNotDone
<1>21. CheckpointsInOrder'
  BY <1>7, <1>8 DEF CheckpointsInOrder
<1> QED
  BY <1>9, <1>10, <1>14, <1>15, <1>16, <1>17, <1>18, <1>19, <1>20, <1>21 DEF IngestInv, SafeStep
-----------------------------------------------------------------------------
\* acquireStep: the cycle freezes the revision that is being served.
LEMMA AcquirePreserves ==
    ASSUME IngestInv, Acquire
    PROVE  SafeStep
<1> PICK h \in InHand : TRUE
  BY HandlerInHand DEF IngestInv, Acquire, InStep, At
<1> DEFINE c == h.id
<1>1. handler.pc = "step" /\ Steps[h.cursor + 1] = "acquire" /\ handler.cycle = h
  BY InHandIs DEF IngestInv, Acquire, InStep, At, Phase
<1>2. /\ h \in CycleRecord /\ c \in Cycle /\ h.cursor \in Cursor /\ TypeOK /\ PublicationInv
      /\ receipt[c][h.cursor] # "done" /\ Reached(c, h.cursor)
  BY <1>1, StepFacts
<1>3. h.cursor = 0 /\ Len(Source) \in Nat
  BY <1>1, <1>2, StepAt, StepsShape
<1>4. revision[c] = "absent"
  BY <1>2, <1>3 DEF Reached
<1>5. /\ FreezeBaseline(c)
      /\ artifacts' = [artifacts EXCEPT ![c] = {}]
      /\ differs' = [differs EXCEPT ![c] = FALSE]
      /\ Completes("persist", "running")
      /\ UNCHANGED <<requests, faults>>
  BY <1>1 DEF Acquire
<1>6. PublicationNext /\ PublicationInv'
  BY <1>2, <1>4, <1>5, PublicationStep DEF PublicationNext
<1>7. /\ manifest'[c] = [frozen |-> Baseline, final |-> "none"] /\ manifest'[c] # None
      /\ revision' = revision /\ catalogPointer' = catalogPointer /\ everServed' = everServed
  <2>1. manifest'[c] = [frozen |-> Baseline, final |-> "none"]
    BY <1>2, <1>5 DEF FreezeBaseline, TypeOK, PublicationTypeOK
  <2>2. Baseline \in Cycle \cup {None}
    BY <1>2 DEF Baseline, TypeOK, PublicationTypeOK
  <2>3. [frozen |-> Baseline, final |-> "none"] \in Manifest
    BY <2>2 DEF Manifest, Final
  <2> QED
    BY <2>1, <2>3, <1>5, CatalogNone DEF FreezeBaseline
<1>8. Baseline = catalogPointer
  BY <1>2 DEF Baseline, PublicationInv, ReadersAgree
<1>9. Reached(c, 0)' /\ Reached(c, 1)'
  BY <1>3, <1>4, <1>7, <1>8 DEF Reached, ValidateCursor, PublishCursor
<1>10. WorkTypes'
  BY <1>2, <1>5 DEF WorkTypes, TypeOK
<1>11. IngestInv'
  BY <1>2, <1>3, <1>5, <1>6, <1>7, <1>9, <1>10, CompletesPreserves
<1> QED
  BY <1>6, <1>11 DEF SafeStep

\* A retrieval that fails is counted, and waits or ends the cycle.
LEMMA RetrievalFailsPreserves ==
    ASSUME IngestInv, NEW h \in InHand, h.cursor \in 1 .. Len(Source),
           handler.pc \in {"step", "persist-retrieval"},
           handler.pc = "step" => receipt[h.id][h.cursor] # "done",
           RetrievalFails, UNCHANGED <<publicationVars, artifacts, differs>>,
           requests' \in [Cycle -> Nat], faults' \in 0 .. MaxFaults
    PROVE  IngestInv'
<1>1. /\ handler # None /\ handler.cycle = h /\ handler \in HandlerRecord
      /\ h \in CycleRecord /\ h.id \in Cycle /\ h.cursor \in Cursor /\ h.attempt \in 0 .. MaxRequests
      /\ h.state \in CycleState /\ InHand = {h}
  BY InHandIs DEF IngestInv, InHand
<1> DEFINE attempt == h.attempt + 1
           cycle   == [h EXCEPT !.attempt = attempt]
<1>2. /\ TypeOK /\ PublicationInv /\ RowsAreSound /\ StoredIsSound /\ StartersAreSound
      /\ HandlerIsAlone /\ HandlerIsSound /\ CheckpointsInOrder /\ Sound(h) /\ ~ IsOver(h)
  BY DEF IngestInv, HandlerIsSound
<1>3. h.attempt < MaxRequests /\ attempt \in 0 .. MaxRequests
  BY <1>1, <1>2 DEF Sound, MaxRequests
<1>4. PICK n \in CycleRecord, mark \in {"failed", "retry_wait"}, at \in Nat \cup {None} :
          /\ Result("persist", n, mark, at)
          /\ n.id = h.id /\ n.cursor = h.cursor /\ n.attempt = attempt
          /\ \/ n.state = "failed"
             \/ n.state = "retry_wait" /\ n.retryAt # None /\ attempt < MaxRequests
  <2>1. /\ cycle \in CycleRecord /\ cycle.id = h.id /\ cycle.cursor = h.cursor
        /\ cycle.attempt = attempt
    <3> HIDE DEF attempt
    <3> QED
      BY <1>1, <1>3 DEF CycleRecord
  <2>2. CASE attempt >= MaxRequests
    <3> DEFINE n == Ended(cycle, "failed")
    <3>1. /\ n \in CycleRecord /\ n.id = h.id /\ n.cursor = h.cursor /\ n.attempt = attempt
          /\ n.state = "failed"
      <4> HIDE DEF cycle
      <4> QED
        BY <2>1, EndedEffect DEF CycleState
    <3>2. Result("persist", n, "failed", None)
      BY <1>1, <2>2 DEF RetrievalFails
    <3> QED
      BY <3>1, <3>2
  <2>3. CASE ~ (attempt >= MaxRequests)
    <3>1. PICK reset \in {handler.now, handler.now + 1} :
            Result("persist", [cycle EXCEPT !.state = "retry_wait", !.retryAt = reset],
                   "retry_wait", reset)
      BY <1>1, <2>3 DEF RetrievalFails
    <3>2. reset \in Nat /\ reset # None
      BY <1>1, IngestNone DEF HandlerRecord
    <3> DEFINE n == [cycle EXCEPT !.state = "retry_wait", !.retryAt = reset]
    <3>3. /\ n \in CycleRecord /\ n.id = h.id /\ n.cursor = h.cursor /\ n.attempt = attempt
          /\ n.state = "retry_wait" /\ n.retryAt = reset
      <4> HIDE DEF cycle, attempt
      <4> QED
        BY <2>1, <3>2 DEF CycleRecord, CycleState
    <3>4. attempt < MaxRequests
      BY <1>3, <2>3 DEF MaxRequests
    <3>5. Result("persist", n, "retry_wait", reset)
      BY <3>1
    <3> HIDE DEF n, attempt
    <3> QED
      BY <3>2, <3>3, <3>4, <3>5
  <2> QED
    BY <2>2, <2>3
<1> HIDE DEF attempt, cycle
<1>5. /\ handler' \in HandlerRecord /\ handler'.cycle = h /\ handler'.pc = "persist"
      /\ handler'.next = n /\ handler'.mark = mark
  <2>1. "persist" \in HandlerPc /\ mark \in StepStatus
    BY DEF HandlerPc, StepStatus
  <2> QED
    BY <1>1, <1>4, <2>1, ResultEffect
<1>6. InHand' = {h} /\ handler' # None /\ n # None
  BY <1>5, IngestNone DEF InHand
<1>7. /\ stored' = stored /\ alarm' = alarm /\ row' = row /\ receipt' = receipt
      /\ starter' = starter /\ clock' = clock
      /\ UNCHANGED <<publicationVars, artifacts>> /\ everServed' = everServed /\ revision' = revision
  BY <1>4 DEF Result, storageVars, receiptVars, publicationVars
<1>8. PublicationInv'
  BY <1>2, <1>7, PublicationStep
<1>9. TypeOK'
  BY <1>2, <1>5, <1>7, <1>8, UNCHANGED <<publicationVars, artifacts, differs>>,
     requests' \in [Cycle -> Nat], faults' \in 0 .. MaxFaults
  DEF TypeOK, PublicationInv
<1>10. /\ \A r : Sound(r) => Sound(r)'
       /\ \A d : Untouched(d) => Untouched(d)'
       /\ \A d, j : Reached(d, j) => Reached(d, j)'
       /\ \A d, j : Stands(d, j) => Stands(d, j)'
       /\ \A d, j : RowFollows(d, j) => RowFollows(d, j)'
  BY <1>7, QuietKeeps
<1>11. Sound(n)' /\ ResultIsSound(h, n)'
  <2>1. Sound(n)'
    BY <1>4, h.cursor \in 1 .. Len(Source) DEF Sound, IsOver
  <2>2. Reached(h.id, h.cursor)'
    BY <1>2, <1>10 DEF HandlerIsSound, Stands
  <2> QED
    BY <2>1, <2>2, <1>4, <1>5 DEF ResultIsSound
<1>12. RowsAreSound'
  BY <1>2, <1>7, <1>10 DEF RowsAreSound
<1>13. StoredIsSound'
  BY <1>2, <1>7, <1>10 DEF StoredIsSound, InStorage
<1>14. StartersAreSound'
  BY <1>1, <1>2, <1>6, <1>7, <1>10, StartersKept DEF InStorage
<1>15. HandlerIsAlone'
  BY <1>1, <1>2, <1>6, <1>7, <1>10, RecordIs DEF HandlerIsAlone, InStorage, TypeOK
<1>16. HandlerIsSound'
  BY <1>1, <1>2, <1>6, <1>10 DEF HandlerIsSound
<1>17. NextIsSound'
  BY <1>4, <1>5, <1>6, <1>11 DEF NextIsSound
<1>18. StepIsNotDone'
  BY <1>5, <1>6 DEF StepIsNotDone
<1>19. CheckpointsInOrder'
  BY <1>2, <1>7 DEF CheckpointsInOrder
<1> QED
  BY <1>8, <1>9, <1>12, <1>13, <1>14, <1>15, <1>16, <1>17, <1>18, <1>19 DEF IngestInv
-----------------------------------------------------------------------------
\* An artifact more does not take a cycle back.
LEMMA ArtifactKept ==
    ASSUME NEW c \in Cycle, NEW k, Reached(c, k), UNCHANGED publicationVars,
           artifacts[c] \subseteq artifacts'[c]
    PROVE  Reached(c, k)'
BY DEF publicationVars, Reached, HasFinal, CandidateComplete, CandidateRevision, Replaced, Served

\* The step that stores the artifact it is named after is behind the cycle.
LEMMA ArtifactReached ==
    ASSUME NEW c \in Cycle, NEW k \in 1 .. Len(Source) + 1, Reached(c, k)', Steps[k + 1] \in artifacts'[c]
    PROVE  Reached(c, k + 1)'
<1>1. /\ Len(Source) \in Nat /\ k + 1 > 0 /\ k > 0 /\ k + 1 # 0
      /\ k + 1 \in 1 .. ValidateCursor /\ k \in 1 .. ValidateCursor
      /\ ~ (k + 1 >= ValidateCursor) /\ k + 1 # ValidateCursor
      /\ k + 1 # PublishCursor /\ ~ (k + 1 > PublishCursor)
  BY StepsShape DEF ValidateCursor, PublishCursor
<1>2. \A j \in 1 .. Len(Source) + 1 : j < k + 1 => Steps[j + 1] \in artifacts'[c]
  <2> TAKE j \in 1 .. Len(Source) + 1
  <2>1. CASE j = k
    BY <2>1, Steps[k + 1] \in artifacts'[c]
  <2>2. CASE j # k
    <3>1. j < k + 1 => j < k
      BY <1>1, <2>2
    <3> QED
      BY <3>1, Reached(c, k)' DEF Reached
  <2> QED
    BY <2>1, <2>2
<1>3. manifest'[c] # None /\ manifest'[c].frozen = catalogPointer' /\ revision'[c] \in {"absent", "pending"}
  BY <1>1, Reached(c, k)' DEF Reached
<1> QED
  BY <1>1, <1>2, <1>3 DEF Reached

\* What storing an artifact does to the two variables of R2.
LEMMA StoreArtifactEffect ==
    ASSUME TypeOK, NEW c \in Cycle, NEW artifact \in Artifact, StoreArtifact(c, artifact)
    PROVE  /\ artifacts' \in [Cycle -> SUBSET Artifact]
           /\ differs' \in [Cycle -> BOOLEAN]
           /\ artifacts[c] \subseteq artifacts'[c] /\ artifact \in artifacts'[c]
<1>1. artifacts' \in [Cycle -> SUBSET Artifact] /\ artifacts'[c] = artifacts[c] \cup {artifact}
  BY DEF TypeOK, StoreArtifact
<1>2. differs' \in [Cycle -> BOOLEAN]
  BY DEF TypeOK, StoreArtifact
<1> QED
  BY <1>1, <1>2

\* retrievalStep
LEMMA RetrievePreserves ==
    ASSUME IngestInv, Retrieve
    PROVE  SafeStep
<1> PICK h \in InHand : TRUE
  BY HandlerInHand DEF IngestInv, Retrieve, At
<1> DEFINE c == h.id
           artifact == Steps[h.cursor + 1]
<1>1. handler.pc = "step" /\ artifact \in Retrieval /\ handler.cycle = h /\ handler # None
  BY InHandIs DEF IngestInv, Retrieve, At, Phase
<1>2. /\ h \in CycleRecord /\ c \in Cycle /\ h.cursor \in Cursor /\ TypeOK /\ PublicationInv
      /\ receipt[c][h.cursor] # "done" /\ Reached(c, h.cursor)
  BY <1>1, StepFacts
<1>3. h.cursor \in 1 .. Len(Source) /\ h.cursor \in 1 .. Len(Source) + 1 /\ h.cursor < Len(Source) + 5
  BY <1>1, <1>2, StepAt, StepsShape
<1>4. artifact \in Artifact
  BY <1>1 DEF Artifact
<1>5. CASE manifest[c] = None
  <2>1. Catch /\ faults' = faults
    BY <1>1, <1>5 DEF Retrieve, Throw
  <2> QED
    BY <1>1, <1>2, <2>1, CatchPreserves DEF TypeOK
<1>6. CASE manifest[c] # None
  <2>1. RetrieveArtifact(c, artifact) /\ UNCHANGED <<publicationVars, faults>>
    BY <1>1, <1>6 DEF Retrieve, Phase
  <2>2. /\ UNCHANGED publicationVars /\ everServed' = everServed /\ revision' = revision
        /\ faults' \in 0 .. MaxFaults /\ PublicationInv' /\ [PublicationNext]_publicationVars
    BY <1>2, <2>1, PublicationStep DEF publicationVars, TypeOK
  <2>3. ASSUME NEW pc \in {"persist", "persist-retrieval"}, Completes(pc, "running"),
               artifacts[c] \subseteq artifacts'[c], artifact \in artifacts'[c], WorkTypes'
        PROVE  IngestInv'
    <3>1. Reached(c, h.cursor)' /\ Reached(c, h.cursor + 1)'
      BY <1>2, <1>3, <2>2, <2>3, ArtifactKept, ArtifactReached
    <3> QED
      BY <1>2, <1>3, <2>2, <2>3, <3>1, CompletesPreserves
  <2>4. CASE /\ artifact \in artifacts[c] /\ Completes("persist", "running") /\ UNCHANGED sourceVars
    <3>1. WorkTypes'
      BY <1>2, <2>2, <2>4 DEF WorkTypes, TypeOK, sourceVars
    <3>2. artifacts' = artifacts
      BY <2>4 DEF sourceVars
    <3> QED
      BY <2>2, <2>3, <2>4, <3>1, <3>2 DEF SafeStep
  <2>5. CASE /\ StoreArtifact(c, artifact) /\ requests' = [requests EXCEPT ![c] = 0]
             /\ Completes("persist-retrieval", "running")
    <3>1. WorkTypes' /\ artifacts[c] \subseteq artifacts'[c] /\ artifact \in artifacts'[c]
      BY <1>2, <1>4, <2>2, <2>5, StoreArtifactEffect DEF WorkTypes, TypeOK
    <3> QED
      BY <2>2, <2>3, <2>5, <3>1 DEF SafeStep
  <2>6. CASE /\ requests' = [requests EXCEPT ![c] = @ + 1] /\ RetrievalFails
             /\ UNCHANGED <<artifacts, differs>>
    <3>1. requests' \in [Cycle -> Nat]
      BY <1>2, <2>6 DEF TypeOK
    <3> QED
      BY <1>1, <1>2, <1>3, <2>2, <2>6, <3>1, RetrievalFailsPreserves DEF SafeStep
  <2> QED
    BY <2>1, <2>4, <2>5, <2>6 DEF RetrieveArtifact
<1> QED
  BY <1>5, <1>6

\* manualStep
LEMMA PrepareManualPreserves ==
    ASSUME IngestInv, PrepareManual
    PROVE  SafeStep
<1> PICK h \in InHand : TRUE
  BY HandlerInHand DEF IngestInv, PrepareManual, InStep, At
<1> DEFINE c == h.id
<1>1. handler.pc = "step" /\ Steps[h.cursor + 1] = "prepare-manual" /\ handler.cycle = h /\ handler # None
  BY InHandIs DEF IngestInv, PrepareManual, InStep, At, Phase
<1>2. /\ h \in CycleRecord /\ c \in Cycle /\ h.cursor \in Cursor /\ TypeOK /\ PublicationInv
      /\ receipt[c][h.cursor] # "done" /\ Reached(c, h.cursor)
  BY <1>1, StepFacts
<1>3. h.cursor = Len(Source) + 1 /\ h.cursor \in 1 .. Len(Source) + 1 /\ h.cursor < Len(Source) + 5
  BY <1>1, <1>2, StepAt, StepsShape
<1>4. CASE manifest[c] = None
  <2>1. Catch /\ faults' = faults
    BY <1>1, <1>4 DEF PrepareManual, Throw
  <2> QED
    BY <1>1, <1>2, <2>1, CatchPreserves DEF TypeOK
<1>5. CASE manifest[c] # None
  <2>1. PrepareArtifact(c)
    BY <1>1, <1>5 DEF PrepareManual
  <2>2. /\ UNCHANGED publicationVars /\ everServed' = everServed /\ revision' = revision
        /\ Completes("persist", "running")
        /\ faults' \in 0 .. MaxFaults /\ PublicationInv' /\ [PublicationNext]_publicationVars
        /\ requests' \in [Cycle -> Nat]
    BY <1>2, <2>1, PublicationStep DEF PrepareArtifact, publicationVars, TypeOK
  <2>3. /\ artifacts' \in [Cycle -> SUBSET Artifact] /\ differs' \in [Cycle -> BOOLEAN]
        /\ artifacts[c] \subseteq artifacts'[c] /\ "prepare-manual" \in artifacts'[c]
    <3>1. CASE "prepare-manual" \in artifacts[c]
      BY <1>2, <2>1, <3>1 DEF PrepareArtifact, TypeOK
    <3>2. CASE "prepare-manual" \notin artifacts[c]
      <4>1. "prepare-manual" \in Artifact
        BY DEF Artifact
      <4> QED
        BY <1>2, <2>1, <3>2, <4>1, StoreArtifactEffect DEF PrepareArtifact
    <3> QED
      BY <3>1, <3>2
  <2>4. WorkTypes'
    BY <2>2, <2>3 DEF WorkTypes
  <2>5. Reached(c, h.cursor)' /\ Reached(c, h.cursor + 1)'
    BY <1>1, <1>2, <1>3, <2>2, <2>3, ArtifactKept, ArtifactReached
  <2>6. IngestInv'
    BY <1>2, <1>3, <2>2, <2>4, <2>5, CompletesPreserves
  <2> QED
    BY <2>2, <2>6 DEF SafeStep
<1> QED
  BY <1>4, <1>5
-----------------------------------------------------------------------------
\* stageStep's batch: the candidate's rows, before the manifest says so.
LEMMA StagePreserves ==
    ASSUME IngestInv, Stage
    PROVE  SafeStep
<1> PICK h \in InHand : TRUE
  BY HandlerInHand DEF IngestInv, Stage, InStep, At
<1> DEFINE c == h.id
           final == Candidate(c)
<1>1. handler.pc = "step" /\ Steps[h.cursor + 1] = "stage" /\ handler.cycle = h /\ handler # None
  BY InHandIs DEF IngestInv, Stage, InStep, At, Phase
<1>2. /\ h \in CycleRecord /\ c \in Cycle /\ h.cursor \in Cursor /\ TypeOK /\ PublicationInv
      /\ receipt[c][h.cursor] # "done" /\ Reached(c, h.cursor) /\ handler \in HandlerRecord
  BY <1>1, StepFacts
<1>3. /\ h.cursor = StageCursor /\ StageCursor = Len(Source) + 2
      /\ Len(Source) \in Nat /\ StageCursor > 0 /\ StageCursor \in 1 .. ValidateCursor
      /\ ~ (StageCursor >= ValidateCursor) /\ StageCursor # ValidateCursor
      /\ StageCursor # PublishCursor /\ ~ (StageCursor > PublishCursor)
  BY <1>1, <1>2, StepAt, StepsShape DEF StageCursor, ValidateCursor, PublishCursor
<1>4. CASE ~ CanStage(c)
  <2>1. Catch /\ faults' = faults
    BY <1>1, <1>4 DEF Stage, Throw
  <2> QED
    BY <1>1, <1>2, <2>1, CatchPreserves DEF TypeOK
<1>5. CASE CanStage(c)
  <2>1. /\ StageCandidate(c, final)
        /\ handler' = [handler EXCEPT !.pc = "write-manifest"]
        /\ UNCHANGED <<storageVars, receiptVars, sourceVars, starter, clock, faults>>
        /\ manifest[c] # None
    BY <1>1, <1>5 DEF Stage, CanStage
  <2>2. final \in Final \ {"none"}
    BY DEF Candidate, Final
  <2>3. PublicationNext /\ PublicationInv'
    BY <1>2, <2>1, <2>2, PublicationStep DEF PublicationNext
  <2>4. /\ handler' \in HandlerRecord /\ handler'.cycle = h /\ handler'.pc = "write-manifest"
    BY <1>1, <1>2, <2>1 DEF HandlerRecord, HandlerPc
  <2>5. InHand' = {h}
    BY <2>4, IngestNone DEF InHand
  <2>6. /\ manifest' = manifest /\ catalogPointer' = catalogPointer /\ everServed' = everServed
        /\ cached' = cached \cup {<<CandidateRevision(c, final), c>>}
        /\ artifacts' = artifacts /\ differs' = differs /\ receipt' = receipt
    BY <2>1 DEF StageCandidate, sourceVars, receiptVars
  <2>7. /\ revision[c] \in {"absent", "pending"} /\ revision'[c] \in {"absent", "pending"}
        /\ final = "changed" => revision'[c] # "absent"
        /\ \A d \in Cycle \ {c} : revision'[d] = revision[d]
    <3>1. revision[c] \in {"absent", "pending"} /\ revision \in [Cycle -> RevisionState]
      BY <1>2, <1>3 DEF Reached, TypeOK, PublicationTypeOK
    <3> HIDE DEF final
    <3> QED
      BY <1>2, <2>1, <3>1 DEF StageCandidate
  <2>8. Reached(c, StageCursor)'
    BY <1>2, <1>3, <2>6, <2>7 DEF Reached
  <2>9. CandidateStaged(c, final)'
    BY <2>6, <2>7 DEF CandidateStaged, CandidateRevision, Candidate
  <2>10. WorksOn(h)
    BY <2>1, <2>4, <2>6, <2>7 DEF WorksOn
  <2>11. WorkTypes'
    BY <1>2, <2>1 DEF WorkTypes, TypeOK, sourceVars
  <2>12. NextIsSound'
    BY <2>4 DEF NextIsSound
  <2>13. StepIsNotDone'
    BY <1>2, <1>3, <2>4, <2>5, <2>6, <2>9 DEF StepIsNotDone
  <2>14. IngestInv'
    BY <1>2, <1>3, <2>3, <2>8, <2>10, <2>11, <2>12, <2>13, WorkPreserves
  <2> QED
    BY <2>3, <2>14 DEF SafeStep
<1> QED
  BY <1>4, <1>5

\* The rest of stageStep.
LEMMA StageManifestPreserves ==
    ASSUME IngestInv, StageManifest
    PROVE  SafeStep
<1> PICK h \in InHand : TRUE
  BY HandlerInHand DEF IngestInv, StageManifest, At
<1> DEFINE c == h.id
           final == Candidate(c)
<1>1. handler.pc = "write-manifest" /\ handler.cycle = h /\ handler # None
  BY InHandIs DEF IngestInv, StageManifest, At
<1>2. /\ h \in CycleRecord /\ c \in Cycle /\ h.cursor \in Cursor /\ TypeOK /\ PublicationInv
      /\ receipt[c][h.cursor] # "done" /\ Reached(c, h.cursor)
      /\ h.cursor = StageCursor /\ CandidateStaged(c, final)
  BY <1>1, StepFacts DEF IngestInv, StepIsNotDone
<1>3. /\ StageCursor = Len(Source) + 2 /\ Len(Source) \in Nat
      /\ StageCursor > 0 /\ StageCursor \in 1 .. ValidateCursor
      /\ ~ (StageCursor >= ValidateCursor) /\ StageCursor # ValidateCursor
      /\ StageCursor # PublishCursor /\ ~ (StageCursor > PublishCursor)
      /\ StageCursor + 1 = ValidateCursor /\ ValidateCursor \in 1 .. ValidateCursor
      /\ ValidateCursor # 0 /\ ValidateCursor > 0 /\ ValidateCursor # PublishCursor
      /\ ValidateCursor >= ValidateCursor /\ ~ (ValidateCursor > PublishCursor)
      /\ StageCursor < Len(Source) + 5
      /\ \A j \in 1 .. Len(Source) + 1 : j < StageCursor
  BY StepsShape DEF StageCursor, ValidateCursor, PublishCursor
<1>4. /\ manifest[c] # None /\ manifest[c].frozen = catalogPointer
      /\ revision[c] \in {"absent", "pending"}
      /\ \A j \in 1 .. Len(Source) + 1 : Steps[j + 1] \in artifacts[c]
  BY <1>2, <1>3 DEF Reached
<1>5. /\ WriteFinalManifest(c, final) /\ Completes("persist", "running")
      /\ UNCHANGED <<sourceVars, faults>>
  BY <1>1 DEF StageManifest
<1>6. final \in Final \ {"none"}
  BY DEF Candidate, Final
<1>7. PublicationNext /\ PublicationInv'
  BY <1>2, <1>4, <1>5, <1>6, PublicationStep DEF PublicationNext
<1>8. /\ revision' = revision /\ cached' = cached /\ catalogPointer' = catalogPointer
      /\ everServed' = everServed /\ artifacts' = artifacts
  BY <1>5 DEF WriteFinalManifest, sourceVars
<1>9. /\ manifest'[c].frozen = manifest[c].frozen /\ manifest'[c].final = final
      /\ manifest'[c] # None
  <2>1. manifest[c] \in Manifest /\ manifest \in [Cycle -> Manifest \cup {None}]
    BY <1>2, <1>4 DEF TypeOK, PublicationTypeOK
  <2>2. manifest'[c] = [manifest[c] EXCEPT !.final = final]
    BY <1>2, <1>5, <2>1 DEF WriteFinalManifest
  <2>3. manifest'[c] \in Manifest
    BY <1>6, <2>1, <2>2 DEF Manifest
  <2> QED
    BY <2>1, <2>2, <2>3, CatalogNone DEF Manifest
<1> HIDE DEF final
<1>10. HasFinal(c)' /\ CandidateComplete(c)'
  BY <1>2, <1>4, <1>6, <1>8, <1>9
  DEF HasFinal, CandidateComplete, CandidateStaged, CandidateRevision
<1>11. Reached(c, h.cursor)' /\ Reached(c, h.cursor + 1)'
  BY <1>2, <1>3, <1>4, <1>8, <1>9, <1>10 DEF Reached
<1>12. WorkTypes'
  BY <1>2, <1>5 DEF WorkTypes, TypeOK, sourceVars
<1>13. IngestInv'
  BY <1>2, <1>3, <1>5, <1>7, <1>8, <1>11, <1>12, CompletesPreserves
<1> QED
  BY <1>7, <1>13 DEF SafeStep

\* validateStep
LEMMA ValidatePreserves ==
    ASSUME IngestInv, Validate
    PROVE  SafeStep
<1> PICK h \in InHand : TRUE
  BY HandlerInHand DEF IngestInv, Validate, InStep, At
<1> DEFINE c == h.id
<1>1. handler.pc = "step" /\ Steps[h.cursor + 1] = "validate" /\ handler.cycle = h /\ handler # None
  BY InHandIs DEF IngestInv, Validate, InStep, At, Phase
<1>2. /\ h \in CycleRecord /\ c \in Cycle /\ h.cursor \in Cursor /\ TypeOK /\ PublicationInv
      /\ receipt[c][h.cursor] # "done" /\ Reached(c, h.cursor)
  BY <1>1, StepFacts
<1>3. /\ h.cursor = ValidateCursor /\ ValidateCursor + 1 = PublishCursor /\ Len(Source) \in Nat
      /\ h.cursor < Len(Source) + 5
      /\ ValidateCursor \in 1 .. ValidateCursor /\ ValidateCursor > 0
      /\ PublishCursor # 0 /\ PublishCursor > 0 /\ PublishCursor \notin 1 .. ValidateCursor
      /\ PublishCursor >= ValidateCursor /\ PublishCursor # ValidateCursor
      /\ ~ (PublishCursor > PublishCursor)
      /\ \A j \in 1 .. Len(Source) + 1 : j < ValidateCursor
  BY <1>1, <1>2, StepAt, StepsShape DEF ValidateCursor, PublishCursor
<1>4. CASE ~ (HasFinal(c) /\ CandidateComplete(c))
  <2>1. Catch /\ faults' = faults
    BY <1>1, <1>4 DEF Validate, Throw
  <2> QED
    BY <1>1, <1>2, <2>1, CatchPreserves DEF TypeOK
<1>5. CASE HasFinal(c) /\ CandidateComplete(c)
  <2>1. /\ Completes("persist", "ready_to_publish")
        /\ UNCHANGED <<publicationVars, sourceVars, faults>>
    BY <1>1, <1>5 DEF Validate
  <2>2. /\ UNCHANGED <<publicationVars, artifacts>> /\ everServed' = everServed /\ revision' = revision
        /\ PublicationInv' /\ [PublicationNext]_publicationVars
    BY <1>2, <2>1, PublicationStep DEF publicationVars, sourceVars
  <2>3. Reached(c, h.cursor + 1)
    BY <1>2, <1>3, <1>5 DEF Reached
  <2>4. Reached(c, h.cursor)' /\ Reached(c, h.cursor + 1)'
    BY <1>2, <2>2, <2>3, ReachedKept
  <2>5. WorkTypes'
    BY <1>2, <2>1 DEF WorkTypes, TypeOK, sourceVars
  <2>6. IngestInv'
    BY <1>2, <1>3, <2>1, <2>2, <2>4, <2>5, CompletesPreserves
  <2> QED
    BY <2>2, <2>6 DEF SafeStep
<1> QED
  BY <1>4, <1>5
-----------------------------------------------------------------------------
\* publishStep's batch leaves the candidate of its cycle in front of readers.
LEMMA PublishEffect ==
    ASSUME PublicationInv, NEW c \in Cycle, manifest[c] # None, HasFinal(c), PublishBatch(c),
           \/ CandidateComplete(c) /\ manifest[c].frozen = catalogPointer
           \/ Replaced(c)
    PROVE  /\ HasFinal(c)'
           /\ \/ CandidateComplete(c)' /\ manifest'[c].frozen = catalogPointer'
              \/ Replaced(c)'
           /\ PointersMatch(c)'
           /\ Served(c)'
<1> DEFINE f == manifest[c].frozen
<1>1. /\ manifest[c] \in Manifest /\ manifest' = manifest /\ cached' = cached
      /\ cached \subseteq Cycle \X Cycle /\ c # None
      /\ everServed' = IF cachePointer' = None THEN everServed ELSE everServed \cup {cachePointer'}
  BY CatalogNone DEF PublicationInv, PublicationTypeOK, PublishBatch
<1>2. manifest[c].final \in {"changed", "unchanged"}
  BY <1>1 DEF HasFinal, Manifest, Final
<1>3. HasFinal(c)'
  BY <1>1 DEF HasFinal
<1>4. \A r \in Cycle : cachePointer' = <<r, c>> => Served(c)'
  <2> SUFFICES ASSUME NEW r \in Cycle, cachePointer' = <<r, c>>
               PROVE  Served(c)'
    OBVIOUS
  <2>1. <<r, c>> # None
    BY CatalogNone
  <2> QED
    BY <2>1, <1>1 DEF Served
<1>5. CASE manifest[c].final = "unchanged"
  <2>1. /\ CandidateComplete(c) /\ f = catalogPointer
    BY <1>5 DEF Replaced
  <2>2. f \in Cycle /\ <<f, c>> \in cached
    BY <1>1, <1>5, <2>1 DEF CandidateComplete, CandidateRevision
  <2>3. /\ catalogPointer' = catalogPointer /\ cachePointer' = <<f, c>>
    BY <1>5, <2>1, UnchangedBatchEffect DEF OnlyResponses
  <2>4. CandidateComplete(c)' /\ manifest'[c].frozen = catalogPointer'
    BY <1>1, <1>5, <2>1, <2>2, <2>3 DEF CandidateComplete, CandidateRevision
  <2>5. PointersMatch(c)'
    BY <1>1, <1>5, <2>1, <2>3 DEF PointersMatch, CandidateRevision
  <2> QED
    BY <1>3, <1>4, <2>2, <2>3, <2>4, <2>5
<1>6. CASE manifest[c].final = "changed"
  <2>1. catalogPointer' = c /\ cachePointer' = <<c, c>> /\ <<c, c>> \in cached
    <3>1. CASE CandidateComplete(c) /\ f = catalogPointer
      <4>1. Replacement(c)
        BY <1>6, <3>1, CurrentBatchEffect
      <4>2. <<c, c>> \in cached
        BY <1>6, <3>1 DEF CandidateComplete, CandidateRevision
      <4> QED
        BY <4>1, <4>2 DEF Replacement
    <3>2. CASE Replaced(c)
      <4>1. revision[c] = "published"
        BY <1>1, <3>2 DEF Replaced, PublicationInv, ReadersAgree
      <4>2. f # catalogPointer
        BY <4>1 DEF PublicationInv, BaselinesBehind
      <4> QED
        BY <1>6, <3>2, <4>2, StaleBatchEffect DEF Replaced, OnlyResponses
    <3> QED
      BY <3>1, <3>2
  <2>2. Replaced(c)'
    BY <1>1, <1>6, <2>1 DEF Replaced
  <2>3. PointersMatch(c)'
    BY <1>1, <1>6, <2>1 DEF PointersMatch, CandidateRevision
  <2> QED
    BY <1>3, <1>4, <2>1, <2>2, <2>3
<1> QED
  BY <1>2, <1>5, <1>6

\* A batch publishes no revision but its cycle's, and supersedes a published one.
LEMMA PublishSparesOthers ==
    ASSUME PublicationInv, NEW c \in Cycle, manifest[c] # None, PublishBatch(c)
    PROVE  /\ \A d \in Cycle \ {c} : revision[d] = "absent" => revision'[d] = "absent"
           /\ everServed \subseteq everServed'
<1>1. everServed \subseteq everServed'
  BY DEF PublishBatch
<1>2. CASE OnlyResponses(c)
  BY <1>1, <1>2 DEF OnlyResponses
<1>3. CASE Replacement(c)
  <2>1. catalogPointer # None => revision[catalogPointer] = "published"
    BY DEF PublicationInv, ReadersAgree
  <2> QED
    BY <1>1, <1>3, <2>1, CatalogNone DEF Replacement
<1> QED
  BY <1>2, <1>3, PublishBatchEffect

\* publishStep's batch
LEMMA PublishPreserves ==
    ASSUME IngestInv, Publish
    PROVE  SafeStep
<1> PICK h \in InHand : TRUE
  BY HandlerInHand DEF IngestInv, Publish, InStep, At
<1> DEFINE c == h.id
<1>1. handler.pc = "step" /\ Steps[h.cursor + 1] = "publish" /\ handler.cycle = h /\ handler # None
  BY InHandIs DEF IngestInv, Publish, InStep, At, Phase
<1>2. /\ h \in CycleRecord /\ c \in Cycle /\ h.cursor \in Cursor /\ TypeOK /\ PublicationInv
      /\ receipt[c][h.cursor] # "done" /\ Reached(c, h.cursor) /\ handler \in HandlerRecord
  BY <1>1, StepFacts
<1>3. /\ h.cursor = PublishCursor /\ PublishCursor # 0 /\ PublishCursor > 0
      /\ PublishCursor \notin 1 .. ValidateCursor
      /\ PublishCursor >= ValidateCursor /\ PublishCursor # ValidateCursor
      /\ ~ (PublishCursor > PublishCursor)
      /\ \A j \in 1 .. Len(Source) + 1 : j < PublishCursor
  BY <1>1, <1>2, StepAt, StepsShape DEF ValidateCursor, PublishCursor
<1>4. CASE ~ (HasFinal(c) /\ PointersAllowed(Published(c)))
  <2>1. Catch /\ faults' = faults
    BY <1>1, <1>4 DEF Publish, Throw
  <2> QED
    BY <1>1, <1>2, <2>1, CatchPreserves DEF TypeOK
<1>5. CASE HasFinal(c) /\ PointersAllowed(Published(c))
  <2>1. /\ PublishBatch(c)
        /\ handler' = [handler EXCEPT !.pc = "confirm"]
        /\ UNCHANGED <<storageVars, receiptVars, sourceVars, starter, clock, faults>>
        /\ manifest[c] # None
    BY <1>1, <1>5 DEF Publish, HasFinal
  <2>2. PublicationNext /\ PublicationInv'
    BY <1>2, <2>1, PublicationStep DEF PublicationNext
  <2>3. handler' \in HandlerRecord /\ handler'.cycle = h /\ handler'.pc = "confirm"
    BY <1>1, <1>2, <2>1 DEF HandlerRecord, HandlerPc
  <2>4. InHand' = {h}
    BY <2>3, IngestNone DEF InHand
  <2>5. /\ \/ CandidateComplete(c) /\ manifest[c].frozen = catalogPointer
           \/ Replaced(c)
        /\ \A j \in 1 .. Len(Source) + 1 : Steps[j + 1] \in artifacts[c]
    BY <1>2, <1>3 DEF Reached
  <2>6. /\ HasFinal(c)'
        /\ \/ CandidateComplete(c)' /\ manifest'[c].frozen = catalogPointer'
           \/ Replaced(c)'
        /\ PointersMatch(c)'
        /\ Served(c)'
    BY <1>2, <1>5, <2>1, <2>5, PublishEffect
  <2>7. manifest' = manifest /\ artifacts' = artifacts /\ receipt' = receipt
    BY <2>1 DEF PublishBatch, sourceVars, receiptVars
  <2>8. Reached(c, PublishCursor)'
    BY <1>3, <2>1, <2>5, <2>6, <2>7 DEF Reached
  <2>9. WorksOn(h)
    BY <1>2, <2>1, <2>3, PublishSparesOthers DEF WorksOn
  <2>10. WorkTypes'
    BY <1>2, <2>1 DEF WorkTypes, TypeOK, sourceVars
  <2>11. NextIsSound'
    BY <2>3 DEF NextIsSound
  <2>12. StepIsNotDone'
    BY <1>2, <1>3, <2>3, <2>4, <2>6, <2>7 DEF StepIsNotDone
  <2>13. IngestInv'
    BY <1>2, <1>3, <2>2, <2>8, <2>9, <2>10, <2>11, <2>12, WorkPreserves
  <2> QED
    BY <2>2, <2>13 DEF SafeStep
<1> QED
  BY <1>4, <1>5

\* The rest of publishStep.
LEMMA ConfirmPublicationPreserves ==
    ASSUME IngestInv, ConfirmPublication
    PROVE  SafeStep
<1> PICK h \in InHand : TRUE
  BY HandlerInHand DEF IngestInv, ConfirmPublication, At
<1> DEFINE c == h.id
<1>1. handler.pc = "confirm" /\ handler.cycle = h /\ handler # None
  BY InHandIs DEF IngestInv, ConfirmPublication, At
<1>2. /\ h \in CycleRecord /\ c \in Cycle /\ h.cursor \in Cursor /\ TypeOK /\ PublicationInv
      /\ receipt[c][h.cursor] # "done" /\ Reached(c, h.cursor)
      /\ h.cursor = PublishCursor /\ PointersMatch(c) /\ Served(c)
  BY <1>1, StepFacts DEF IngestInv, StepIsNotDone
<1>3. /\ Len(Source) \in Nat /\ PublishCursor > 0 /\ PublishCursor >= ValidateCursor
      /\ h.cursor < Len(Source) + 5
      /\ PublishCursor + 1 > 0 /\ PublishCursor + 1 # 0
      /\ PublishCursor + 1 \notin 1 .. ValidateCursor
      /\ PublishCursor + 1 # ValidateCursor /\ PublishCursor + 1 # PublishCursor
      /\ \A j \in 1 .. Len(Source) + 1 : j < PublishCursor
  BY <1>2, StepsShape DEF ValidateCursor, PublishCursor
<1>4. Completes("persist", "published") /\ UNCHANGED <<publicationVars, sourceVars, faults>>
  BY <1>1, <1>2 DEF ConfirmPublication
<1>5. /\ UNCHANGED <<publicationVars, artifacts>> /\ everServed' = everServed /\ revision' = revision
      /\ PublicationInv' /\ [PublicationNext]_publicationVars
  BY <1>2, <1>4, PublicationStep DEF publicationVars, sourceVars
<1>6. Reached(c, h.cursor + 1)
  <2>1. HasFinal(c) /\ manifest[c] # None /\ \A j \in 1 .. Len(Source) + 1 : Steps[j + 1] \in artifacts[c]
    BY <1>2, <1>3 DEF Reached
  <2> QED
    BY <1>2, <1>3, <2>1 DEF Reached
<1>7. Reached(c, h.cursor)' /\ Reached(c, h.cursor + 1)'
  BY <1>2, <1>5, <1>6, ReachedKept
<1>8. Served(c)'
  BY <1>2, <1>5 DEF Served
<1>9. WorkTypes'
  BY <1>2, <1>4 DEF WorkTypes, TypeOK, sourceVars
<1>10. IngestInv'
  BY <1>2, <1>3, <1>4, <1>5, <1>7, <1>8, <1>9, CompletesPreserves
<1> QED
  BY <1>5, <1>10 DEF SafeStep
-----------------------------------------------------------------------------
\* completedStepResult: the cycle moves on to what its row says.
LEMMA ReplayPreserves ==
    ASSUME IngestInv, Replay
    PROVE  SafeStep
<1> PICK h \in InHand : TRUE
  BY HandlerInHand DEF IngestInv, Replay, At
<1> DEFINE c == h.id
<1>1. /\ handler.pc = "replay" /\ handler.cycle = h /\ handler # None /\ handler \in HandlerRecord
      /\ h \in CycleRecord /\ c \in Cycle /\ h.cursor \in Cursor /\ InHand = {h}
  BY InHandIs DEF IngestInv, Replay, At, InHand
<1>2. /\ TypeOK /\ PublicationInv /\ RowsAreSound /\ StoredIsSound /\ StartersAreSound
      /\ HandlerIsAlone /\ HandlerIsSound /\ CheckpointsInOrder
  BY DEF IngestInv
<1>3. UNCHANGED <<publicationVars, storageVars, receiptVars, sourceVars, starter, clock, faults>>
  BY DEF Replay
<1>4. /\ UNCHANGED <<publicationVars, artifacts, receipt>>
      /\ stored' = stored /\ alarm' = alarm /\ row' = row /\ starter' = starter /\ clock' = clock
      /\ differs' = differs /\ requests' = requests /\ faults' = faults
  BY <1>3 DEF storageVars, receiptVars, sourceVars
<1>5. [PublicationNext]_publicationVars /\ PublicationInv'
  BY <1>2, <1>4, PublicationStep
<1>6. /\ row[c] \in CycleRecord /\ row[c].id = c /\ Sound(row[c]) /\ row[c] # None
      /\ ~ IsOver(row[c]) => Stands(c, row[c].cursor)
  BY <1>1, <1>2 DEF HandlerIsAlone, HandlerIsSound, RowFollows, RowsAreSound, TypeOK
<1>7. \/ /\ receipt[c][h.cursor] # "done"
         /\ handler' = [handler EXCEPT !.pc = "step"]
      \/ \E at \in Nat \cup {None} :
            handler' = [handler EXCEPT !.pc = "put", !.next = row[c], !.alarmAt = at]
  BY <1>1 DEF Replay, HandlerRecord
<1>8. /\ handler' \in HandlerRecord /\ handler'.cycle = h
      /\ \/ handler'.pc = "step" /\ receipt[c][h.cursor] # "done"
         \/ handler'.pc = "put" /\ handler'.next = row[c]
  BY <1>1, <1>6, <1>7 DEF HandlerRecord, HandlerPc
<1>9. InHand' = {h} /\ handler' # None
  BY <1>8, IngestNone DEF InHand
<1>10. /\ \A r : Sound(r) => Sound(r)'
       /\ \A d : Untouched(d) => Untouched(d)'
       /\ \A d, j : Stands(d, j) => Stands(d, j)'
       /\ \A d, j : RowFollows(d, j) => RowFollows(d, j)'
  BY <1>4, QuietKeeps
<1>11. TypeOK'
  BY <1>2, <1>4, <1>5, <1>8 DEF TypeOK, PublicationInv
<1>12. RowsAreSound' /\ StoredIsSound'
  BY <1>2, <1>4, <1>10 DEF RowsAreSound, StoredIsSound, InStorage
<1>13. StartersAreSound'
  BY <1>1, <1>2, <1>4, <1>9, <1>10, StartersKept DEF InStorage
<1>14. HandlerIsAlone' /\ HandlerIsSound'
  BY <1>1, <1>2, <1>4, <1>9, <1>10 DEF HandlerIsAlone, HandlerIsSound, InStorage
<1>15. StepIsNotDone'
  BY <1>4, <1>8, <1>9 DEF StepIsNotDone
<1>16. ASSUME NEW n, n = row[c], handler'.pc = "put"
       PROVE  n.id = c /\ Sound(n)' /\ (~ IsOver(n) => Stands(n.id, n.cursor)' /\ RowFollows(n.id, n.cursor)')
  <2>1. ~ IsOver(n) => Stands(c, n.cursor)'
    BY <1>6, <1>10, <1>16
  <2>2. ~ IsOver(n) => RowFollows(c, n.cursor)'
    BY <2>1, <1>4, <1>6, <1>16, RecordIs DEF RowFollows
  <2> QED
    BY <2>1, <2>2, <1>6, <1>10, <1>16
<1>17. NextIsSound'
  BY <1>6, <1>8, <1>9, <1>16 DEF NextIsSound
<1>18. CheckpointsInOrder'
  BY <1>2, <1>4 DEF CheckpointsInOrder
<1> QED
  BY <1>5, <1>11, <1>12, <1>13, <1>14, <1>15, <1>17, <1>18 DEF IngestInv, SafeStep

\* receiptStep: the receipt of the last step, and a row that is published.
LEMMA ReceiptPreserves ==
    ASSUME IngestInv, Receipt
    PROVE  SafeStep
<1> PICK h \in InHand : TRUE
  BY HandlerInHand DEF IngestInv, Receipt, InStep, At
<1> DEFINE c == h.id
           k == h.cursor
<1>1. handler.pc = "step" /\ Steps[h.cursor + 1] = "receipt" /\ handler.cycle = h /\ handler # None
  BY InHandIs DEF IngestInv, Receipt, InStep, At, Phase
<1>2. /\ h \in CycleRecord /\ c \in Cycle /\ k \in Cursor /\ TypeOK /\ PublicationInv
      /\ receipt[c][k] # "done" /\ Reached(c, k) /\ handler \in HandlerRecord /\ InHand = {h}
  BY <1>1, StepFacts DEF InHand
<1>3. k = ReceiptCursor /\ k = Len(Source) + 5 /\ k > PublishCursor /\ Len(Source) \in Nat
  BY <1>1, <1>2, StepAt, StepsShape DEF ReceiptCursor, PublishCursor
<1>4. /\ RowsAreSound /\ StoredIsSound /\ StartersAreSound
      /\ HandlerIsAlone /\ HandlerIsSound /\ CheckpointsInOrder
      /\ Sound(h) /\ ~ IsOver(h) /\ Stands(c, k) /\ RowFollows(c, k) /\ Served(c)
  BY <1>2, <1>3 DEF IngestInv, HandlerIsSound, Reached
<1>5. CASE ~ HasFinal(c)
  <2>1. Catch /\ faults' = faults
    BY <1>1, <1>5 DEF Receipt, Throw
  <2> QED
    BY <1>1, <1>2, <2>1, CatchPreserves DEF TypeOK
<1>6. CASE HasFinal(c)
  <2>1. /\ receipt' = [receipt EXCEPT ![c][k] = "done"]
        /\ row' = [row EXCEPT ![c] = Ended(row[c], "published")]
        /\ handler' = [handler EXCEPT !.pc = "put", !.next = h]
        /\ UNCHANGED <<publicationVars, storageVars, sourceVars, starter, clock, faults>>
    BY <1>1, <1>6 DEF Receipt
  <2>2. /\ UNCHANGED <<publicationVars, artifacts>>
        /\ stored' = stored /\ alarm' = alarm /\ starter' = starter /\ clock' = clock
        /\ differs' = differs /\ requests' = requests /\ faults' = faults
        /\ everServed' = everServed /\ revision' = revision
    BY <2>1 DEF storageVars, sourceVars, publicationVars
  <2>3. [PublicationNext]_publicationVars /\ PublicationInv'
    BY <1>2, <2>2, PublicationStep
  <2>4. handler' \in HandlerRecord /\ handler'.cycle = h /\ handler'.pc = "put" /\ handler'.next = h
    BY <1>1, <1>2, <2>1 DEF HandlerRecord, HandlerPc
  <2>5. InHand' = {h} /\ handler' # None
    BY <2>4, IngestNone DEF InHand
  <2>6. row[c] \in CycleRecord /\ row[c].id = c /\ Sound(row[c]) /\ row[c] # None
    BY <1>2, <1>4 DEF HandlerIsAlone, RowsAreSound, TypeOK
  <2>7. PICK n : /\ n = Ended(row[c], "published")
                 /\ n \in CycleRecord /\ n.id = c /\ n.state = "published" /\ n # None
                 /\ n.cursor = row[c].cursor /\ n.attempt = row[c].attempt
    BY <2>6, EndedEffect, IngestNone DEF CycleState
  <2>8. /\ row'[c] = n /\ \A d \in Cycle \ {c} : row'[d] = row[d]
        /\ row' \in [Cycle -> CycleRecord \cup {None}]
    BY <1>2, <2>1, <2>7 DEF TypeOK
  <2>9. /\ receipt' \in [Cycle -> [Cursor -> StepStatus]]
        /\ \A d \in Cycle \ {c} : receipt'[d] = receipt[d]
        /\ receipt'[c][k] = "done" /\ \A j \in Cursor \ {k} : receipt'[c][j] = receipt[c][j]
    <3>1. "done" \in StepStatus
      BY DEF StepStatus
    <3> QED
      BY <1>2, <2>1, <3>1 DEF TypeOK
  <2>10. TypeOK'
    BY <1>2, <2>2, <2>3, <2>4, <2>8, <2>9 DEF TypeOK, PublicationInv
  <2>11. /\ \A r : Sound(r) => Sound(r)'
         /\ \A d \in Cycle \ {c} : Untouched(d) => Untouched(d)'
         /\ \A d, j : Reached(d, j) => Reached(d, j)'
         /\ \A d \in Cycle \ {c} : \A j : Marked(d, j) => Marked(d, j)'
    BY <2>2, <2>9, SoundKept, UntouchedKept, ReachedKept, MarkedKept
  <2>12. Stands(c, k)'
    <3>1. Marked(c, k) /\ Cursor = 0 .. Len(Source) + 5 /\ Len(Source) \in Nat /\ k \in Nat
      BY <1>2, <1>4, StepsShape DEF Stands
    <3>2. Marked(c, k)'
      BY <1>2, <2>9, <3>1 DEF Marked
    <3>3. Reached(c, k)'
      BY <1>2, <2>11
    <3> QED
      BY <3>2, <3>3 DEF Stands
  <2>13. Sound(n)'
    <3>1. ~ IsOver(n) => n.attempt < MaxRequests
      <4> SUFFICES ASSUME ~ IsOver(n) PROVE n.attempt < MaxRequests
        OBVIOUS
      <4>1. Steps[n.cursor + 1] = "receipt" /\ n.cursor \in Cursor
        BY <2>7, RecordIs DEF IsOver, Phase
      <4>2. n.cursor \notin 1 .. Len(Source)
        BY <4>1, <1>3, StepAt
      <4>3. n.attempt = 0
        BY <4>2, <2>6, <2>7 DEF Sound
      <4> QED
        BY <4>3 DEF MaxRequests
    <3>2. Served(c)'
      BY <1>4, <2>2 DEF Served
    <3> QED
      BY <2>6, <2>7, <3>1, <3>2 DEF Sound
  <2>14. RowFollows(c, k)'
    <3> SUFFICES ASSUME ~ IsOver(n) PROVE n.cursor = k
      BY <1>2, <2>8, <2>12, StepsShape DEF RowFollows
    <3>1. Steps[n.cursor + 1] = "receipt" /\ n.cursor \in Cursor
      BY <2>7, RecordIs DEF IsOver, Phase
    <3> QED
      BY <3>1, <1>3, StepAt
  <2>15. RowsAreSound'
    BY <1>4, <2>7, <2>8, <2>11, <2>13 DEF RowsAreSound
  <2>16. \A d \in Cycle : row[d] # None => row'[d] # None
    BY <2>7, <2>8
  <2>17. StoredIsSound'
    <3> SUFFICES ASSUME NEW r \in InStorage
                 PROVE  /\ row'[r.id] # None /\ Sound(r)'
                        /\ ~ IsOver(r) => Stands(r.id, r.cursor)' /\ RowFollows(r.id, r.cursor)'
      BY <2>2 DEF StoredIsSound, InStorage
    <3>1. r \in CycleRecord /\ r.id \in Cycle /\ row'[r.id] # None /\ Sound(r)'
      BY <1>2, <1>4, <2>11, <2>16, RecordIs DEF TypeOK, StoredIsSound, InStorage
    <3>2. CASE r.id = c
      BY <3>1, <3>2, <1>2, <1>4, <2>12, <2>14 DEF HandlerIsAlone, InStorage
    <3>3. CASE r.id # c
      <4>1. ~ IsOver(r) => Stands(r.id, r.cursor)' /\ RowFollows(r.id, r.cursor)'
        BY <3>1, <3>3, <1>4, <2>8, <2>11 DEF StoredIsSound, RowFollows, Stands
      <4> QED
        BY <3>1, <4>1
    <3> QED
      BY <3>2, <3>3
  <2>18. StartersAreSound'
    BY <1>2, <1>4, <2>2, <2>5, <2>8, <2>11, <2>16, StartersKept DEF InStorage
  <2>19. HandlerIsAlone'
    BY <1>2, <1>4, <2>2, <2>5, <2>7, <2>8, <2>11, RecordIs DEF HandlerIsAlone, InStorage, TypeOK
  <2>20. HandlerIsSound'
    BY <1>4, <2>5, <2>11, <2>12, <2>14 DEF HandlerIsSound
  <2>21. NextIsSound'
    <3>1. h # None
      BY <1>2, IngestNone
    <3> QED
      BY <3>1, <1>4, <2>4, <2>5, <2>11, <2>12, <2>14 DEF NextIsSound
  <2>22. StepIsNotDone'
    BY <2>4, <2>5 DEF StepIsNotDone
  <2>23. CheckpointsInOrder'
    <3>1. \A j \in 0 .. k - 1 : receipt'[c][j] = "done"
      <4> TAKE j \in 0 .. k - 1
      <4>1. j \in Cursor /\ j < k /\ j # k
        BY <1>3, StepsShape
      <4> QED
        BY <4>1, <1>4, <2>9 DEF Stands, Marked
    <3> QED
      BY <1>2, <1>3, <1>4, <2>9, <3>1, StepsShape DEF CheckpointsInOrder
  <2> QED
    BY <2>3, <2>10, <2>15, <2>17, <2>18, <2>19, <2>20, <2>21, <2>22, <2>23 DEF IngestInv, SafeStep
<1> QED
  BY <1>5, <1>6
-----------------------------------------------------------------------------
\* persistStep's batch: the receipt of the step and the row it leads to.
LEMMA PersistPreserves ==
    ASSUME IngestInv, Persist
    PROVE  SafeStep
<1> PICK h \in InHand : TRUE
  BY HandlerInHand DEF IngestInv, Persist, At
<1> DEFINE c == h.id
           k == h.cursor
<1>1. /\ handler.pc \in {"persist", "persist-retrieval"} /\ handler.cycle = h /\ handler # None
      /\ handler \in HandlerRecord /\ h \in CycleRecord /\ c \in Cycle /\ k \in Cursor /\ InHand = {h}
  BY InHandIs DEF IngestInv, Persist, At, InHand
<1>2. /\ TypeOK /\ PublicationInv /\ RowsAreSound /\ StoredIsSound /\ StartersAreSound
      /\ HandlerIsAlone /\ HandlerIsSound /\ NextIsSound /\ CheckpointsInOrder
      /\ Sound(h) /\ ~ IsOver(h) /\ Stands(c, k) /\ RowFollows(c, k)
  BY DEF IngestInv, HandlerIsSound
<1>3. PICK n : /\ n = handler.next /\ n \in CycleRecord /\ n # None
               /\ n.id = c /\ Sound(n) /\ ResultIsSound(h, n)
  BY <1>1, <1>2 DEF NextIsSound, HandlerRecord
<1>4. PICK mark : mark = handler.mark /\ mark \in StepStatus
  BY <1>1 DEF HandlerRecord
<1>5. /\ n.cursor = IF mark = "done" THEN k + 1 ELSE k
      /\ ~ IsOver(n) => Reached(c, n.cursor)
  BY <1>3, <1>4 DEF ResultIsSound
<1>6. /\ receipt' = [receipt EXCEPT ![c][k] = mark]
      /\ row' = [row EXCEPT ![c] = n]
      /\ handler' = [handler EXCEPT !.pc = "put"]
      /\ UNCHANGED <<publicationVars, artifacts>>
      /\ stored' = stored /\ alarm' = alarm /\ starter' = starter /\ clock' = clock
      /\ differs' = differs /\ requests' = requests /\ faults' = faults
      /\ everServed' = everServed /\ revision' = revision
  BY <1>1, <1>3, <1>4 DEF Persist, storageVars, sourceVars, publicationVars
<1>7. [PublicationNext]_publicationVars /\ PublicationInv'
  BY <1>2, <1>6, PublicationStep
<1>8. handler' \in HandlerRecord /\ handler'.cycle = h /\ handler'.pc = "put" /\ handler'.next = n
  BY <1>1, <1>3, <1>6 DEF HandlerRecord, HandlerPc
<1>9. InHand' = {h} /\ handler' # None
  BY <1>8, IngestNone DEF InHand
<1>10. /\ row'[c] = n /\ \A d \in Cycle \ {c} : row'[d] = row[d]
       /\ row' \in [Cycle -> CycleRecord \cup {None}]
  BY <1>1, <1>2, <1>3, <1>6 DEF TypeOK
<1>11. /\ receipt' \in [Cycle -> [Cursor -> StepStatus]]
       /\ \A d \in Cycle \ {c} : receipt'[d] = receipt[d]
       /\ receipt'[c][k] = mark /\ \A j \in Cursor \ {k} : receipt'[c][j] = receipt[c][j]
  BY <1>1, <1>2, <1>4, <1>6 DEF TypeOK
<1>12. TypeOK'
  BY <1>2, <1>6, <1>7, <1>8, <1>10, <1>11 DEF TypeOK, PublicationInv
<1>13. /\ \A r : Sound(r) => Sound(r)'
       /\ \A d \in Cycle \ {c} : Untouched(d) => Untouched(d)'
       /\ \A d, j : Reached(d, j) => Reached(d, j)'
       /\ \A d \in Cycle \ {c} : \A j : Marked(d, j) => Marked(d, j)'
  BY <1>6, <1>11, SoundKept, UntouchedKept, ReachedKept, MarkedKept
<1>14. \A j \in Cursor : (j < k => receipt'[c][j] = "done") /\ (receipt'[c][j] = "done" => j <= k)
  BY <1>1, <1>2, <1>11, StepsShape DEF Stands, Marked
<1>15. Stands(c, k)'
  BY <1>2, <1>13, <1>14 DEF Stands, Marked
<1>16. ~ IsOver(n) => Stands(c, n.cursor)'
  <2>1. Marked(c, n.cursor)'
    <3>1. CASE mark = "done"
      <4>1. n.cursor = k + 1 /\ k \in Nat
        BY <1>1, <1>5, <3>1, StepsShape
      <4>2. \A j \in Cursor : (j < k + 1 => j < k \/ j = k) /\ (j <= k => j <= k + 1)
        BY <4>1, StepsShape
      <4> QED
        BY <1>11, <1>14, <3>1, <4>1, <4>2 DEF Marked
    <3>2. CASE mark # "done"
      BY <1>5, <1>14, <3>2 DEF Marked
    <3> QED
      BY <3>1, <3>2
  <2> QED
    BY <1>5, <1>13, <2>1 DEF Stands
<1>17. n.cursor >= k /\ n.cursor >= n.cursor
  BY <1>1, <1>3, <1>5, RecordIs, StepsShape
<1>18. RowFollows(c, k)' /\ RowFollows(c, n.cursor)'
  BY <1>3, <1>10, <1>16, <1>17 DEF RowFollows
<1>19. \A d \in Cycle : row[d] # None => row'[d] # None
  BY <1>3, <1>10
<1>20. RowsAreSound'
  BY <1>2, <1>3, <1>10, <1>13 DEF RowsAreSound
<1>21. StoredIsSound'
  <2> SUFFICES ASSUME NEW r \in InStorage
               PROVE  /\ row'[r.id] # None /\ Sound(r)'
                      /\ ~ IsOver(r) => Stands(r.id, r.cursor)' /\ RowFollows(r.id, r.cursor)'
    BY <1>6 DEF StoredIsSound, InStorage
  <2>1. r \in CycleRecord /\ r.id \in Cycle /\ row'[r.id] # None /\ Sound(r)'
    BY <1>2, <1>13, <1>19, RecordIs DEF TypeOK, StoredIsSound, InStorage
  <2>2. CASE r.id = c
    BY <2>1, <2>2, <1>1, <1>2, <1>15, <1>18 DEF HandlerIsAlone, InStorage
  <2>3. CASE r.id # c
    BY <2>1, <2>3, <1>2, <1>10, <1>13 DEF StoredIsSound, RowFollows, Stands
  <2> QED
    BY <2>2, <2>3
<1>22. StartersAreSound'
  BY <1>1, <1>2, <1>6, <1>9, <1>10, <1>13, <1>19, StartersKept DEF InStorage
<1>23. HandlerIsAlone'
  BY <1>1, <1>2, <1>3, <1>6, <1>9, <1>10, <1>13, RecordIs DEF HandlerIsAlone, InStorage, TypeOK
<1>24. HandlerIsSound'
  BY <1>2, <1>9, <1>13, <1>15, <1>18 DEF HandlerIsSound
<1>25. NextIsSound'
  BY <1>3, <1>8, <1>9, <1>13, <1>16, <1>18 DEF NextIsSound
<1>26. StepIsNotDone'
  BY <1>8, <1>9 DEF StepIsNotDone
<1>27. CheckpointsInOrder'
  <2>1. \A j \in Cursor : receipt'[c][j] = "done" => \A i \in 0 .. j - 1 : receipt'[c][i] = "done"
    <3> SUFFICES ASSUME NEW j \in Cursor, receipt'[c][j] = "done", NEW i \in 0 .. j - 1
                 PROVE  receipt'[c][i] = "done"
      OBVIOUS
    <3>1. i \in Cursor /\ j <= k /\ (j <= k => i < k)
      BY <1>1, <1>14, StepsShape
    <3> QED
      BY <3>1, <1>14
  <2> QED
    BY <1>2, <1>11, <2>1 DEF CheckpointsInOrder
<1> QED
  BY <1>7, <1>12, <1>20, <1>21, <1>22, <1>23, <1>24, <1>25, <1>26, <1>27 DEF IngestInv, SafeStep

\* The tail of alarm(): storage takes the record, and the handler returns.
LEMMA PutPreserves ==
    ASSUME IngestInv, Put
    PROVE  SafeStep
<1> PICK h \in InHand : TRUE
  BY HandlerInHand DEF IngestInv, Put, At
<1>1. /\ handler.pc = "put" /\ handler.cycle = h /\ handler # None
      /\ handler \in HandlerRecord /\ h \in CycleRecord /\ h.id \in Cycle /\ InHand = {h}
  BY InHandIs DEF IngestInv, Put, At, InHand
<1>2. /\ TypeOK /\ PublicationInv /\ RowsAreSound /\ StartersAreSound
      /\ HandlerIsAlone /\ NextIsSound /\ CheckpointsInOrder
  BY DEF IngestInv
<1>3. PICK n : /\ n = handler.next /\ n \in CycleRecord /\ n # None
               /\ n.id = h.id /\ Sound(n)
               /\ ~ IsOver(n) => Stands(n.id, n.cursor) /\ RowFollows(n.id, n.cursor)
  BY <1>1, <1>2 DEF NextIsSound, HandlerRecord
<1>4. /\ stored' = n /\ alarm' = handler.alarmAt /\ handler' = None
      /\ UNCHANGED <<publicationVars, artifacts, receipt>>
      /\ row' = row /\ starter' = starter /\ clock' = clock
      /\ differs' = differs /\ requests' = requests /\ faults' = faults
  BY <1>3 DEF Put, receiptVars, sourceVars
<1>5. [PublicationNext]_publicationVars /\ PublicationInv'
  BY <1>2, <1>4, PublicationStep
<1>6. InHand' = {} /\ InStorage' = {n} /\ alarm' \in Nat \cup {None}
  BY <1>1, <1>3, <1>4 DEF InHand, InStorage, HandlerRecord
<1>7. TypeOK'
  BY <1>2, <1>3, <1>4, <1>5, <1>6 DEF TypeOK, PublicationInv
<1>8. /\ \A r : Sound(r) => Sound(r)'
      /\ \A d : Untouched(d) => Untouched(d)'
      /\ \A d, j : Stands(d, j) => Stands(d, j)'
      /\ \A d, j : RowFollows(d, j) => RowFollows(d, j)'
  BY <1>4, QuietKeeps
<1>9. RowsAreSound'
  BY <1>2, <1>4, <1>8 DEF RowsAreSound
<1>10. StoredIsSound'
  BY <1>1, <1>2, <1>3, <1>4, <1>6, <1>8 DEF StoredIsSound, HandlerIsAlone
<1>11. StartersAreSound'
  BY <1>1, <1>2, <1>3, <1>4, <1>6, <1>8, StartersKept
<1>12. HandlerIsAlone' /\ HandlerIsSound' /\ NextIsSound' /\ StepIsNotDone'
  BY <1>6 DEF HandlerIsAlone, HandlerIsSound, NextIsSound, StepIsNotDone
<1>13. CheckpointsInOrder'
  BY <1>2, <1>4 DEF CheckpointsInOrder
<1> QED
  BY <1>5, <1>7, <1>9, <1>10, <1>11, <1>12, <1>13 DEF IngestInv, SafeStep

\* The rest of alarm()'s catch block.
LEMMA FailRowPreserves ==
    ASSUME IngestInv, FailRow
    PROVE  SafeStep
<1> PICK h \in InHand : TRUE
  BY HandlerInHand DEF IngestInv, FailRow, At
<1> DEFINE c == h.id
<1>1. /\ handler.pc = "fail-row" /\ handler.cycle = h /\ handler # None
      /\ handler \in HandlerRecord /\ h \in CycleRecord /\ c \in Cycle /\ InHand = {h}
  BY InHandIs DEF IngestInv, FailRow, At, InHand
<1>2. /\ TypeOK /\ PublicationInv /\ RowsAreSound /\ StoredIsSound /\ StartersAreSound
      /\ HandlerIsAlone /\ NextIsSound /\ CheckpointsInOrder
  BY DEF IngestInv
<1>3. PICK n : /\ n = handler.next /\ n \in CycleRecord /\ n # None
               /\ n.id = c /\ Sound(n) /\ IsOver(n)
  BY <1>1, <1>2 DEF NextIsSound, HandlerRecord
<1>4. /\ row' = [row EXCEPT ![c] = n] /\ alarm' = None /\ handler' = None
      /\ UNCHANGED <<publicationVars, artifacts, receipt>>
      /\ stored' = stored /\ starter' = starter /\ clock' = clock
      /\ differs' = differs /\ requests' = requests /\ faults' = faults
  BY <1>1, <1>3 DEF FailRow, sourceVars
<1>5. [PublicationNext]_publicationVars /\ PublicationInv'
  BY <1>2, <1>4, PublicationStep
<1>6. /\ row'[c] = n /\ \A d \in Cycle \ {c} : row'[d] = row[d]
      /\ row' \in [Cycle -> CycleRecord \cup {None}]
      /\ InHand' = {}
  BY <1>1, <1>2, <1>3, <1>4 DEF TypeOK, InHand
<1>7. TypeOK'
  BY <1>2, <1>4, <1>5, <1>6 DEF TypeOK, PublicationInv
<1>8. /\ \A r : Sound(r) => Sound(r)'
      /\ \A d : Untouched(d) => Untouched(d)'
      /\ \A d, j : Stands(d, j) => Stands(d, j)'
      /\ \A d, j : row'[d] = row[d] /\ RowFollows(d, j) => RowFollows(d, j)'
  BY <1>4, QuietKeeps
<1>9. \A j : RowFollows(c, j)'
  BY <1>3, <1>6 DEF RowFollows
<1>10. RowsAreSound'
  BY <1>2, <1>3, <1>6, <1>8 DEF RowsAreSound
<1>11. \A d \in Cycle : row[d] # None => row'[d] # None
  BY <1>3, <1>6
<1>12. StoredIsSound'
  <2> SUFFICES ASSUME NEW r \in InStorage
               PROVE  /\ row'[r.id] # None /\ Sound(r)'
                      /\ ~ IsOver(r) => Stands(r.id, r.cursor)' /\ RowFollows(r.id, r.cursor)'
    BY <1>4 DEF StoredIsSound, InStorage
  <2>1. r \in CycleRecord /\ r.id \in Cycle /\ row'[r.id] # None /\ Sound(r)'
    BY <1>2, <1>8, <1>11, RecordIs DEF TypeOK, StoredIsSound, InStorage
  <2>2. ~ IsOver(r) => RowFollows(r.id, r.cursor)'
    BY <2>1, <1>2, <1>6, <1>8, <1>9 DEF StoredIsSound
  <2> QED
    BY <2>1, <2>2, <1>2, <1>8 DEF StoredIsSound
<1>13. StartersAreSound'
  BY <1>1, <1>2, <1>4, <1>6, <1>8, <1>11, StartersKept DEF InStorage
<1>14. HandlerIsAlone' /\ HandlerIsSound' /\ NextIsSound' /\ StepIsNotDone'
  BY <1>6 DEF HandlerIsAlone, HandlerIsSound, NextIsSound, StepIsNotDone
<1>15. CheckpointsInOrder'
  BY <1>2, <1>4 DEF CheckpointsInOrder
<1> QED
  BY <1>5, <1>7, <1>10, <1>12, <1>13, <1>14, <1>15 DEF IngestInv, SafeStep
-----------------------------------------------------------------------------
\* What alarm() starts with, for the cycle r that it finds in storage.
LEMMA FirstCallIs ==
    ASSUME TypeOK, stored \in CycleRecord, ~ IsOver(stored), Sound(stored)
    PROVE  \E i \in HandlerRecord :
              /\ FirstCall = i
              /\ i.cycle.id = stored.id /\ i.cycle.cursor = stored.cursor
              /\ i.cycle.attempt = stored.attempt
              /\ ~ IsOver(i.cycle) /\ Sound(i.cycle)
              /\ \/ i.pc = "replay"
                 \/ i.pc = "put" /\ i.next = stored
                 \/ /\ i.pc = "persist" /\ i.mark = "failed"
                    /\ i.next \in CycleRecord /\ i.next.id = stored.id /\ i.next.cursor = stored.cursor
                    /\ i.next.state = "expired" /\ i.next.attempt = stored.attempt
<1> DEFINE over == Ended(stored, "expired")
           on   == Ended(stored, "running")
<1>1. /\ over \in CycleRecord /\ over.id = stored.id /\ over.cursor = stored.cursor
      /\ over.state = "expired" /\ over.attempt = stored.attempt
      /\ on \in CycleRecord /\ on.id = stored.id /\ on.cursor = stored.cursor
      /\ on.state = "running" /\ on.attempt = stored.attempt
  BY EndedEffect DEF CycleState
<1>2. ~ IsOver(on) /\ Sound(on)
  BY <1>1 DEF IsOver, Sound
<1>3. clock \in Nat /\ stored.retryAt \in Nat \cup {None}
  BY IngestBounds DEF TypeOK, CycleRecord
<1> HIDE DEF over, on
<1>4. {"persist", "replay", "put"} \subseteq HandlerPc /\ {"failed", "none"} \subseteq StepStatus
  BY DEF HandlerPc, StepStatus
<1>5. CASE FirstCall = Invocation("persist", stored, over, "failed", None)
  <2> DEFINE i == Invocation("persist", stored, over, "failed", None)
  <2>1. i \in HandlerRecord /\ i.pc = "persist" /\ i.cycle = stored /\ i.next = over /\ i.mark = "failed"
    BY <1>1, <1>3, <1>4 DEF Invocation, HandlerRecord
  <2> HIDE DEF i
  <2> QED
    BY <1>1, <1>2, <1>5, <2>1 DEF i
<1>6. CASE FirstCall = Invocation("replay", stored, None, "none", None)
  <2> DEFINE i == Invocation("replay", stored, None, "none", None)
  <2>1. i \in HandlerRecord /\ i.pc = "replay" /\ i.cycle = stored /\ i.next = None /\ i.mark = "none"
    BY <1>1, <1>3, <1>4 DEF Invocation, HandlerRecord
  <2> HIDE DEF i
  <2> QED
    BY <1>1, <1>2, <1>6, <2>1 DEF i
<1>7. CASE FirstCall = Invocation("put", stored, stored, "none", stored.retryAt)
  <2> DEFINE i == Invocation("put", stored, stored, "none", stored.retryAt)
  <2>1. i \in HandlerRecord /\ i.pc = "put" /\ i.cycle = stored /\ i.next = stored /\ i.mark = "none"
    BY <1>1, <1>3, <1>4 DEF Invocation, HandlerRecord
  <2> HIDE DEF i
  <2> QED
    BY <1>1, <1>2, <1>7, <2>1 DEF i
<1>8. CASE FirstCall = Invocation("replay", on, None, "none", None)
  <2> DEFINE i == Invocation("replay", on, None, "none", None)
  <2>1. i \in HandlerRecord /\ i.pc = "replay" /\ i.cycle = on /\ i.next = None /\ i.mark = "none"
    BY <1>1, <1>3, <1>4 DEF Invocation, HandlerRecord
  <2> HIDE DEF i
  <2> QED
    BY <1>1, <1>2, <1>8, <2>1 DEF i
<1> QED
  BY <1>5, <1>6, <1>7, <1>8 DEF FirstCall, over, on

\* An alarm, delivered once or twice, finds the coordinator idle.
LEMMA DeliverPreserves ==
    ASSUME IngestInv, NEW pending \in Nat \cup {None}, Deliver(pending), faults' \in 0 .. MaxFaults
    PROVE  SafeStep
<1>1. /\ TypeOK /\ PublicationInv /\ RowsAreSound /\ StoredIsSound /\ StartersAreSound
      /\ CheckpointsInOrder
  BY DEF IngestInv
<1>2. /\ handler = None /\ InHand = {}
      /\ UNCHANGED <<publicationVars, artifacts, receipt>>
      /\ stored' = stored /\ row' = row /\ starter' = starter /\ clock' = clock
      /\ differs' = differs /\ requests' = requests
  BY DEF Deliver, receiptVars, sourceVars, InHand
<1>3. [PublicationNext]_publicationVars /\ PublicationInv'
  BY <1>1, <1>2, PublicationStep
<1>4. /\ \A r : Sound(r) => Sound(r)'
      /\ \A d : Untouched(d) => Untouched(d)'
      /\ \A d, j : Reached(d, j) => Reached(d, j)'
      /\ \A d, j : Stands(d, j) => Stands(d, j)'
      /\ \A d, j : RowFollows(d, j) => RowFollows(d, j)'
  BY <1>2, QuietKeeps
<1>5. RowsAreSound' /\ StoredIsSound' /\ CheckpointsInOrder'
  BY <1>1, <1>2, <1>4 DEF RowsAreSound, StoredIsSound, InStorage, CheckpointsInOrder
<1>6. CASE stored = None \/ IsOver(stored)
  <2>1. handler' = None /\ alarm' = None
    BY <1>6 DEF Deliver
  <2>2. InHand' = {} /\ TypeOK'
    BY <1>1, <1>2, <1>3, <2>1, faults' \in 0 .. MaxFaults DEF InHand, TypeOK, PublicationInv
  <2>3. StartersAreSound'
    BY <1>1, <1>2, <1>4, <2>2, StartersKept DEF InStorage
  <2>4. HandlerIsAlone' /\ HandlerIsSound' /\ NextIsSound' /\ StepIsNotDone'
    BY <2>2 DEF HandlerIsAlone, HandlerIsSound, NextIsSound, StepIsNotDone
  <2> QED
    BY <1>3, <1>5, <2>2, <2>3, <2>4 DEF IngestInv, SafeStep
<1>7. CASE stored # None /\ ~ IsOver(stored)
  <2>1. PICK r \in InStorage : /\ r = stored /\ r \in CycleRecord /\ r # None /\ ~ IsOver(r) /\ Sound(r)
                               /\ InStorage = {r}
                               /\ row[r.id] # None /\ Stands(r.id, r.cursor) /\ RowFollows(r.id, r.cursor)
    BY <1>1, <1>7 DEF InStorage, TypeOK, StoredIsSound
  <2>2. PICK i \in HandlerRecord :
              /\ FirstCall = i
              /\ i.cycle.id = r.id /\ i.cycle.cursor = r.cursor
              /\ ~ IsOver(i.cycle) /\ Sound(i.cycle)
              /\ \/ i.pc = "replay"
                 \/ i.pc = "put" /\ i.next = r
                 \/ /\ i.pc = "persist" /\ i.mark = "failed"
                    /\ i.next \in CycleRecord /\ i.next.id = r.id /\ i.next.cursor = r.cursor
                    /\ i.next.state = "expired" /\ i.next.attempt = r.attempt
    BY <1>1, <2>1, FirstCallIs
  <2>3. handler' = i /\ alarm' = pending
    BY <1>7, <2>2 DEF Deliver
  <2>4. i # None /\ i.cycle \in CycleRecord /\ InHand' = {i.cycle}
    BY <2>3, IngestNone DEF InHand, HandlerRecord
  <2>5. TypeOK'
    BY <1>1, <1>2, <1>3, <2>3, faults' \in 0 .. MaxFaults DEF TypeOK, PublicationInv
  <2>6. StartersAreSound'
    BY <1>1, <1>2, <1>4, <2>1, <2>2, <2>4, StartersKept DEF InStorage
  <2>7. HandlerIsAlone'
    BY <1>2, <2>1, <2>2, <2>4 DEF HandlerIsAlone, InStorage
  <2>8. HandlerIsSound'
    BY <1>4, <2>1, <2>2, <2>4 DEF HandlerIsSound
  <2>9. NextIsSound'
    <3>1. CASE i.pc = "replay"
      BY <2>3, <3>1 DEF NextIsSound
    <3>2. CASE i.pc = "put" /\ i.next = r
      BY <1>4, <2>1, <2>2, <2>3, <2>4, <3>2 DEF NextIsSound
    <3>3. CASE i.pc = "persist" /\ i.mark = "failed"
      <4>1. /\ i.next \in CycleRecord /\ i.next.id = r.id /\ i.next.cursor = r.cursor
            /\ i.next.state = "expired" /\ i.next.attempt = r.attempt /\ i.next # None
        BY <2>2, <3>3, IngestNone
      <4>2. IsOver(i.next) /\ Sound(i.next)'
        BY <2>1, <4>1 DEF IsOver, Sound
      <4>3. ResultIsSound(i.cycle, i.next)'
        BY <2>2, <2>3, <3>3, <4>1, <4>2 DEF ResultIsSound
      <4> QED
        BY <2>2, <2>3, <2>4, <3>3, <4>1, <4>2, <4>3 DEF NextIsSound
    <3> QED
      BY <2>2, <3>1, <3>2, <3>3
  <2>10. StepIsNotDone'
    BY <2>2, <2>3 DEF StepIsNotDone
  <2> QED
    BY <1>3, <1>5, <2>5, <2>6, <2>7, <2>8, <2>9, <2>10 DEF IngestInv, SafeStep
<1> QED
  BY <1>6, <1>7

\* Storage, handler and rows are as they were, and no call of start() is new.
LEMMA IdlePreserves ==
    ASSUME IngestInv, UNCHANGED <<publicationVars, stored, receiptVars, sourceVars>>,
           alarm' \in Nat \cup {None}, clock' \in 0 .. MaxClock, faults' \in 0 .. MaxFaults,
           handler' \in {handler, None}, starter' \in [Starter -> StarterRecord \cup {None}],
           \A s \in Starter : starter'[s] \in {starter[s], None}
    PROVE  SafeStep
<1>1. /\ TypeOK /\ PublicationInv /\ RowsAreSound /\ StoredIsSound /\ StartersAreSound
      /\ HandlerIsAlone /\ HandlerIsSound /\ NextIsSound /\ StepIsNotDone /\ CheckpointsInOrder
  BY DEF IngestInv
<1>2. /\ UNCHANGED <<publicationVars, artifacts, receipt>>
      /\ stored' = stored /\ row' = row /\ differs' = differs /\ requests' = requests
  BY DEF receiptVars, sourceVars
<1>3. [PublicationNext]_publicationVars /\ PublicationInv'
  BY <1>1, <1>2, PublicationStep
<1>4. /\ \A r : Sound(r) => Sound(r)'
      /\ \A d : Untouched(d) => Untouched(d)'
      /\ \A d, j : Reached(d, j) => Reached(d, j)'
      /\ \A d, j : Stands(d, j) => Stands(d, j)'
      /\ \A d, j : RowFollows(d, j) => RowFollows(d, j)'
  BY <1>2, QuietKeeps
<1>5. RowsAreSound' /\ StoredIsSound' /\ CheckpointsInOrder'
  BY <1>1, <1>2, <1>4 DEF RowsAreSound, StoredIsSound, InStorage, CheckpointsInOrder
<1>6. TypeOK'
  BY <1>1, <1>2, <1>3 DEF TypeOK, PublicationInv
<1>7. \A h \in InHand' : h \in InHand /\ handler' = handler
  BY DEF InHand
<1>8. StartersAreSound'
  <2> SUFFICES ASSUME NEW s \in Starter, NEW x \in Begun(s)'
               PROVE  /\ IsFresh(x)' /\ FoundIsSound(x)'
                      /\ \A t \in Starter : \A y \in Begun(t)' :
                            /\ t # s => y.id # x.id
                            /\ x.existing # None => x.existing.id # y.id
    BY DEF StartersAreSound
  <2>1. \A t \in Starter : Begun(t)' \subseteq Begun(t)
    BY DEF Begun
  <2>2. IsFresh(x) /\ FoundIsSound(x)
    BY <1>1, <2>1 DEF StartersAreSound
  <2>3. IsFresh(x)'
    BY <1>2, <1>4, <1>7, <2>2 DEF IsFresh, InStorage
  <2>4. FoundIsSound(x)'
    BY <1>2, <1>4, <2>2 DEF FoundIsSound
  <2> QED
    BY <1>1, <2>1, <2>3, <2>4 DEF StartersAreSound
<1>9. HandlerIsAlone' /\ HandlerIsSound'
  BY <1>1, <1>2, <1>4, <1>7 DEF HandlerIsAlone, HandlerIsSound, InStorage
<1>10. NextIsSound'
  BY <1>1, <1>4, <1>7 DEF NextIsSound, ResultIsSound
<1>11. StepIsNotDone'
  BY <1>1, <1>2, <1>7 DEF StepIsNotDone, CandidateStaged, CandidateRevision, Candidate,
                          PointersMatch, Served, publicationVars
<1> QED
  BY <1>3, <1>5, <1>6, <1>8, <1>9, <1>10, <1>11 DEF IngestInv, SafeStep
-----------------------------------------------------------------------------
\* What a call of start() knows when it goes on.
LEMMA StarterIs ==
    ASSUME TypeOK, NEW s \in Starter, starter[s] # None
    PROVE  /\ starter[s] \in Begun(s) /\ starter[s] \in StarterRecord
           /\ Begun(s) = {starter[s]}
BY DEF TypeOK, Begun

\* start() up to its first await: a cycle that nothing knows of.
LEMMA StartBeginPreserves ==
    ASSUME IngestInv, NEW s \in Starter, StartBegin(s)
    PROVE  SafeStep
<1>1. /\ TypeOK /\ PublicationInv /\ RowsAreSound /\ StoredIsSound /\ StartersAreSound
      /\ HandlerIsAlone /\ HandlerIsSound /\ NextIsSound /\ StepIsNotDone /\ CheckpointsInOrder
  BY DEF IngestInv
<1>2. PICK x \in StarterRecord :
          /\ x.pc \in {"expire", "insert"}
          /\ x.pc = "expire" => stored # None
          /\ x.existing = stored /\ FreshId(x.id)
          /\ starter' = [starter EXCEPT ![s] = x]
  <2>1. PICK c \in Cycle, pc \in {"expire", "insert"} :
            /\ FreshId(c) /\ (pc = "expire" => stored # None)
            /\ starter' = [starter EXCEPT ![s] =
                             [pc |-> pc, at |-> clock, existing |-> stored, id |-> c]]
    BY DEF StartBegin
  <2>2. PICK x : x = [pc |-> pc, at |-> clock, existing |-> stored, id |-> c]
    OBVIOUS
  <2>3. clock \in Nat /\ stored \in CycleRecord \cup {None}
    BY <1>1, IngestBounds DEF TypeOK
  <2>4. x \in StarterRecord /\ x.pc = pc /\ x.existing = stored /\ x.id = c
    BY <2>2, <2>3 DEF StarterRecord
  <2>5. starter' = [starter EXCEPT ![s] = x]
    BY <2>1, <2>2
  <2> QED
    BY <2>1, <2>4, <2>5
<1> DEFINE c == x.id
<1>3. /\ UNCHANGED <<publicationVars, artifacts, receipt>>
      /\ stored' = stored /\ alarm' = alarm /\ row' = row /\ handler' = handler /\ clock' = clock
      /\ differs' = differs /\ requests' = requests /\ faults' = faults
  BY DEF StartBegin, storageVars, receiptVars, sourceVars
<1>4. c \in Cycle /\ row[c] = None /\ x # None
      /\ \A t \in Starter : starter[t] # None => starter[t].id # c
  BY <1>2, IngestNone DEF FreshId, StarterRecord
<1>5. /\ starter' \in [Starter -> StarterRecord \cup {None}] /\ starter'[s] = x
      /\ \A t \in Starter \ {s} : starter'[t] = starter[t]
  BY <1>1, <1>2 DEF TypeOK
<1>6. [PublicationNext]_publicationVars /\ PublicationInv'
  BY <1>1, <1>3, PublicationStep
<1>7. TypeOK'
  BY <1>1, <1>3, <1>5, <1>6 DEF TypeOK, PublicationInv
<1>8. /\ \A r : Sound(r) => Sound(r)'
      /\ \A d : Untouched(d) => Untouched(d)'
      /\ \A d, j : Reached(d, j) => Reached(d, j)'
      /\ \A d, j : Stands(d, j) => Stands(d, j)'
      /\ \A d, j : RowFollows(d, j) => RowFollows(d, j)'
  BY <1>3, QuietKeeps
<1>9. /\ InHand' = InHand /\ InStorage' = InStorage
      /\ \A r \in InStorage \cup InHand : row[r.id] # None
  BY <1>1, <1>3 DEF InHand, InStorage, HandlerIsAlone, StoredIsSound
<1>10. /\ RowsAreSound' /\ StoredIsSound' /\ HandlerIsAlone' /\ HandlerIsSound' /\ NextIsSound'
       /\ CheckpointsInOrder'
  BY <1>1, <1>3, <1>8, <1>9 DEF RowsAreSound, StoredIsSound, HandlerIsAlone, HandlerIsSound,
     NextIsSound, ResultIsSound, CheckpointsInOrder
<1>11. StepIsNotDone'
  BY <1>1, <1>3, <1>9 DEF StepIsNotDone, CandidateStaged, CandidateRevision, Candidate,
                          PointersMatch, Served, publicationVars
<1>12. IsFresh(x)' /\ FoundIsSound(x)'
  <2>1. Untouched(c)'
    BY <1>1, <1>4, <1>8 DEF RowsAreSound
  <2>2. \A r \in InStorage \cup InHand : r.id # c
    BY <1>4, <1>9
  <2>3. stored # None => row[stored.id] # None /\ Sound(stored)
    BY <1>1 DEF StoredIsSound, InStorage
  <2> QED
    BY <1>2, <1>3, <1>4, <1>8, <1>9, <2>1, <2>2, <2>3 DEF IsFresh, FoundIsSound
<1>13. StartersAreSound'
  <2> SUFFICES ASSUME NEW u \in Starter, NEW y \in Begun(u)'
               PROVE  /\ IsFresh(y)' /\ FoundIsSound(y)'
                      /\ \A t \in Starter : \A z \in Begun(t)' :
                            /\ t # u => z.id # y.id
                            /\ y.existing # None => y.existing.id # z.id
    BY DEF StartersAreSound
  <2>1. Begun(s)' = {x} /\ \A t \in Starter \ {s} : Begun(t)' = Begun(t)
    BY <1>4, <1>5 DEF Begun
  <2>2. CASE u = s
    <3>1. y = x
      BY <2>1, <2>2
    <3>2. \A t \in Starter \ {s} : \A z \in Begun(t) : z.id # c
      BY <1>4 DEF Begun
    <3>3. x.existing # None => x.existing \in InStorage /\ x.existing.id # c
      BY <1>2, <1>4, <1>9 DEF InStorage
    <3>4. \A t \in Starter \ {s} : \A z \in Begun(t) : x.existing # None => x.existing.id # z.id
      BY <1>1, <3>3 DEF StartersAreSound, IsFresh
    <3> QED
      BY <1>12, <2>1, <2>2, <3>1, <3>2, <3>3, <3>4
  <2>3. CASE u # s
    <3>1. y \in Begun(u) /\ IsFresh(y) /\ FoundIsSound(y)
      BY <1>1, <2>1, <2>3 DEF StartersAreSound
    <3>2. IsFresh(y)' /\ FoundIsSound(y)'
      BY <3>1, <1>3, <1>8, <1>9 DEF IsFresh, FoundIsSound
    <3>3. y.id # c
      BY <1>4, <3>1 DEF Begun
    <3>4. y.existing # None => y.existing.id # c
      BY <1>4, <3>1 DEF FoundIsSound
    <3> QED
      BY <1>1, <2>1, <2>3, <3>1, <3>2, <3>3, <3>4 DEF StartersAreSound
  <2> QED
    BY <2>2, <2>3
<1> QED
  BY <1>6, <1>7, <1>10, <1>11, <1>13 DEF IngestInv, SafeStep

\* The unfinished cycle of an older cadence is expired, as it was when read.
LEMMA StartExpirePreserves ==
    ASSUME IngestInv, NEW s \in Starter, StartExpire(s)
    PROVE  SafeStep
<1>1. /\ TypeOK /\ PublicationInv /\ RowsAreSound /\ StoredIsSound /\ StartersAreSound
      /\ HandlerIsAlone /\ HandlerIsSound /\ NextIsSound /\ StepIsNotDone /\ CheckpointsInOrder
  BY DEF IngestInv
<1>2. PICK x \in StarterRecord : /\ x = starter[s] /\ x \in Begun(s) /\ x.pc = "expire"
                                 /\ IsFresh(x) /\ FoundIsSound(x) /\ x # None
                                 /\ x.existing # None /\ x.existing \in CycleRecord
  BY <1>1, StarterIs DEF StartExpire, Starting, StartersAreSound, FoundIsSound, StarterRecord
<1> DEFINE d == x.existing.id
<1>3. PICK n \in CycleRecord : /\ n = Ended(x.existing, "expired")
                               /\ n.id = d /\ n.state = "expired" /\ n # None
                               /\ n.cursor = x.existing.cursor /\ n.attempt = x.existing.attempt
  BY <1>2, EndedEffect, IngestNone DEF CycleState
<1>4. /\ row' = [row EXCEPT ![d] = n]
      /\ starter' = [starter EXCEPT ![s].pc = "insert"]
      /\ UNCHANGED <<publicationVars, artifacts, receipt>>
      /\ stored' = stored /\ alarm' = alarm /\ handler' = handler /\ clock' = clock
      /\ differs' = differs /\ requests' = requests /\ faults' = faults
  BY <1>2, <1>3 DEF StartExpire, storageVars, sourceVars
<1>5. d \in Cycle /\ row[d] # None /\ IsOver(n)
  BY <1>2, <1>3 DEF FoundIsSound, CycleRecord, IsOver
<1>6. /\ row'[d] = n /\ \A e \in Cycle \ {d} : row'[e] = row[e]
      /\ row' \in [Cycle -> CycleRecord \cup {None}]
      /\ \A e \in Cycle : row[e] # None => row'[e] # None
      /\ \A e \in Cycle : row'[e] # None => row[e] # None
  BY <1>1, <1>3, <1>4, <1>5 DEF TypeOK
<1>7. PICK y : y = [x EXCEPT !.pc = "insert"]
  OBVIOUS
<1>8. /\ y \in StarterRecord /\ y # None
       /\ y.id = x.id /\ y.existing = x.existing /\ y.pc = "insert"
  BY <1>7, IngestNone DEF StarterRecord
<1>9. /\ starter' \in [Starter -> StarterRecord \cup {None}] /\ starter'[s] = y
      /\ \A t \in Starter \ {s} : starter'[t] = starter[t]
  BY <1>1, <1>2, <1>4, <1>7, <1>8 DEF TypeOK
<1>10. [PublicationNext]_publicationVars /\ PublicationInv'
  BY <1>1, <1>4, PublicationStep
<1>11. TypeOK'
  BY <1>1, <1>4, <1>6, <1>9, <1>10 DEF TypeOK, PublicationInv
<1>12. /\ \A r : Sound(r) => Sound(r)'
       /\ \A e : Untouched(e) => Untouched(e)'
       /\ \A e, j : Reached(e, j) => Reached(e, j)'
       /\ \A e, j : Stands(e, j) => Stands(e, j)'
       /\ \A e, j : row'[e] = row[e] /\ RowFollows(e, j) => RowFollows(e, j)'
  BY <1>4, QuietKeeps
<1>13. \A e \in Cycle : \A j : RowFollows(e, j) => RowFollows(e, j)'
  <2>1. \A j : RowFollows(d, j)'
    BY <1>5, <1>6 DEF RowFollows
  <2> QED
    BY <2>1, <1>6, <1>12
<1>14. Sound(n)'
  BY <1>2, <1>3, <1>5, <1>12 DEF FoundIsSound, Sound
<1>15. RowsAreSound'
  BY <1>1, <1>3, <1>6, <1>12, <1>14 DEF RowsAreSound
<1>16. /\ InHand' = InHand /\ InStorage' = InStorage
       /\ \A r \in InStorage \cup InHand : r.id \in Cycle /\ r \in CycleRecord
  <2>1. InHand' = InHand /\ InStorage' = InStorage
    BY <1>4 DEF InHand, InStorage
  <2>2. \A r \in InStorage \cup InHand : r \in CycleRecord
    BY <1>1 DEF TypeOK, InStorage, InHand, HandlerRecord
  <2> QED
    BY <2>1, <2>2, RecordIs
<1>17. StoredIsSound'
  BY <1>1, <1>6, <1>12, <1>13, <1>16 DEF StoredIsSound
<1>18. HandlerIsAlone'
  BY <1>1, <1>4, <1>6, <1>12, <1>16 DEF HandlerIsAlone
<1>19. HandlerIsSound'
  BY <1>1, <1>12, <1>13, <1>16 DEF HandlerIsSound
<1>20. NextIsSound'
  <2> SUFFICES ASSUME NEW h \in InHand,
                      handler.pc \in {"persist", "persist-retrieval", "put", "fail-row"},
                      NEW n2 \in {handler.next}
               PROVE  /\ handler.next # None
                      /\ n2.id = h.id /\ Sound(n2)'
                      /\ handler.pc = "fail-row" => IsOver(n2)
                      /\ handler.pc = "put" /\ ~ IsOver(n2) =>
                             Stands(n2.id, n2.cursor)' /\ RowFollows(n2.id, n2.cursor)'
                      /\ handler.pc \in {"persist", "persist-retrieval"} => ResultIsSound(h, n2)'
    BY <1>4, <1>16 DEF NextIsSound
  <2> QED
    BY <1>1, <1>4, <1>12, <1>13, <1>16 DEF NextIsSound, ResultIsSound
<1>21. StepIsNotDone'
  BY <1>1, <1>4, <1>16 DEF StepIsNotDone, CandidateStaged, CandidateRevision, Candidate,
                           PointersMatch, Served, publicationVars
<1>22. CheckpointsInOrder'
  BY <1>1, <1>4 DEF CheckpointsInOrder
<1>23. StartersAreSound'
  <2>1. Begun(s)' = {y} /\ \A t \in Starter \ {s} : Begun(t)' = Begun(t)
    BY <1>8, <1>9 DEF Begun
  <2>2. ASSUME NEW t \in Starter, NEW z \in Begun(t)
        PROVE  /\ z.id \in Cycle /\ IsFresh(z) /\ FoundIsSound(z) /\ d # z.id
               /\ z.existing # None => z.existing.id \in Cycle
    BY <1>1, <1>2, <2>2 DEF StartersAreSound, Begun, TypeOK, StarterRecord, CycleRecord
  <2>3. ASSUME NEW t \in Starter, NEW z \in Begun(t)
        PROVE  IsFresh(z)' /\ FoundIsSound(z)'
    <3>1. IsFresh(z)'
      BY <2>2, <2>3, <1>6, <1>12, <1>16 DEF IsFresh
    <3>2. FoundIsSound(z)'
      BY <2>2, <2>3, <1>6, <1>12 DEF FoundIsSound
    <3> QED
      BY <3>1, <3>2
  <2>4. IsFresh(y)' /\ FoundIsSound(y)'
    <3>1. IsFresh(x)' /\ FoundIsSound(x)'
      BY <1>2, <2>3
    <3> QED
      BY <3>1, <1>2, <1>8 DEF IsFresh, FoundIsSound
  <2>5. ASSUME NEW t \in Starter, NEW z \in Begun(t), NEW u \in Starter, NEW w \in Begun(u)
        PROVE  (u # t => w.id # z.id) /\ (z.existing # None => z.existing.id # w.id)
    BY <1>1, <2>5 DEF StartersAreSound
  <2>6. ASSUME NEW t \in Starter, NEW z \in Begun(t)', NEW u \in Starter, NEW w \in Begun(u)'
        PROVE  (u # t => w.id # z.id) /\ (z.existing # None => z.existing.id # w.id)
    <3>1. PICK z0 \in Begun(t) : z0.id = z.id /\ z0.existing = z.existing
      BY <1>2, <1>8, <2>1, <2>6
    <3>2. PICK w0 \in Begun(u) : w0.id = w.id
      BY <1>2, <1>8, <2>1, <2>6
    <3> QED
      BY <2>5, <3>1, <3>2
  <2>7. ASSUME NEW t \in Starter, NEW z \in Begun(t)'
        PROVE  IsFresh(z)' /\ FoundIsSound(z)'
    BY <2>1, <2>3, <2>4, <2>7
  <2> QED
    BY <2>6, <2>7 DEF StartersAreSound
<1> QED
  BY <1>10, <1>11, <1>15, <1>17, <1>18, <1>19, <1>20, <1>21, <1>23, <1>22 DEF IngestInv, SafeStep

\* The insert of the new cycle's row.
LEMMA StartInsertPreserves ==
    ASSUME IngestInv, NEW s \in Starter, StartInsert(s)
    PROVE  SafeStep
<1>1. /\ TypeOK /\ PublicationInv /\ RowsAreSound /\ StoredIsSound /\ StartersAreSound
      /\ HandlerIsAlone /\ HandlerIsSound /\ NextIsSound /\ StepIsNotDone /\ CheckpointsInOrder
  BY DEF IngestInv
<1>2. PICK x \in StarterRecord : /\ x = starter[s] /\ x \in Begun(s) /\ x.pc = "insert"
                                 /\ IsFresh(x) /\ FoundIsSound(x) /\ x # None
  BY <1>1, StarterIs DEF StartInsert, Starting, StartersAreSound
<1> DEFINE c == x.id
<1>3. /\ c \in Cycle /\ row[c] = None /\ Untouched(c)
      /\ \A r \in InStorage \cup InHand : r.id # c
  BY <1>2 DEF IsFresh, StarterRecord
<1>4. PICK n \in CycleRecord : /\ n = NewCycle(c, x.at) /\ n.id = c /\ n.state = "running"
                               /\ n.attempt = 0 /\ n # None
  BY <1>2, <1>3, NewCycleEffect, IngestNone DEF StarterRecord
<1>5. /\ row' = [row EXCEPT ![c] = n]
      /\ starter' = [starter EXCEPT ![s].pc = "put"]
      /\ UNCHANGED <<publicationVars, artifacts, receipt>>
      /\ stored' = stored /\ alarm' = alarm /\ handler' = handler /\ clock' = clock
      /\ differs' = differs /\ requests' = requests /\ faults' = faults
  BY <1>2, <1>4 DEF StartInsert, storageVars, sourceVars
<1>6. /\ row'[c] = n /\ \A e \in Cycle \ {c} : row'[e] = row[e]
      /\ row' \in [Cycle -> CycleRecord \cup {None}]
      /\ \A e \in Cycle : row[e] # None => row'[e] # None
  BY <1>1, <1>3, <1>4, <1>5 DEF TypeOK
<1>7. PICK y : y = [x EXCEPT !.pc = "put"]
  OBVIOUS
<1>8. /\ y \in StarterRecord /\ y # None
      /\ y.id = x.id /\ y.existing = x.existing /\ y.at = x.at /\ y.pc = "put"
  BY <1>7, IngestNone DEF StarterRecord
<1>9. /\ starter' \in [Starter -> StarterRecord \cup {None}] /\ starter'[s] = y
      /\ \A t \in Starter \ {s} : starter'[t] = starter[t]
  BY <1>1, <1>2, <1>5, <1>7, <1>8 DEF TypeOK
<1>10. [PublicationNext]_publicationVars /\ PublicationInv'
  BY <1>1, <1>5, PublicationStep
<1>11. TypeOK'
  BY <1>1, <1>5, <1>6, <1>9, <1>10 DEF TypeOK, PublicationInv
<1>12. /\ \A r : Sound(r) => Sound(r)'
       /\ \A e : Untouched(e) => Untouched(e)'
       /\ \A e, j : Reached(e, j) => Reached(e, j)'
       /\ \A e, j : Stands(e, j) => Stands(e, j)'
       /\ \A e, j : row'[e] = row[e] /\ RowFollows(e, j) => RowFollows(e, j)'
  BY <1>5, QuietKeeps
<1>13. Sound(n)'
  BY <1>4 DEF Sound, MaxRequests
<1>14. RowsAreSound'
  BY <1>1, <1>4, <1>6, <1>12, <1>13 DEF RowsAreSound
<1>15. /\ InHand' = InHand /\ InStorage' = InStorage
       /\ \A r \in InStorage \cup InHand : r.id \in Cycle /\ r \in CycleRecord /\ row'[r.id] = row[r.id]
  <2>1. InHand' = InHand /\ InStorage' = InStorage
    BY <1>5 DEF InHand, InStorage
  <2>2. \A r \in InStorage \cup InHand : r \in CycleRecord
    BY <1>1 DEF TypeOK, InStorage, InHand, HandlerRecord
  <2> QED
    BY <2>1, <2>2, <1>3, <1>6, RecordIs
<1>16. StoredIsSound'
  BY <1>1, <1>6, <1>12, <1>15 DEF StoredIsSound
<1>17. HandlerIsAlone'
  BY <1>1, <1>5, <1>6, <1>12, <1>15 DEF HandlerIsAlone
<1>18. HandlerIsSound'
  BY <1>1, <1>12, <1>15 DEF HandlerIsSound
<1>19. NextIsSound'
  <2> SUFFICES ASSUME NEW h \in InHand,
                      handler.pc \in {"persist", "persist-retrieval", "put", "fail-row"},
                      NEW n2 \in {handler.next}
               PROVE  /\ handler.next # None
                      /\ n2.id = h.id /\ Sound(n2)'
                      /\ handler.pc = "fail-row" => IsOver(n2)
                      /\ handler.pc = "put" /\ ~ IsOver(n2) =>
                             Stands(n2.id, n2.cursor)' /\ RowFollows(n2.id, n2.cursor)'
                      /\ handler.pc \in {"persist", "persist-retrieval"} => ResultIsSound(h, n2)'
    BY <1>5, <1>15 DEF NextIsSound
  <2> QED
    BY <1>1, <1>5, <1>12, <1>15 DEF NextIsSound, ResultIsSound
<1>20. StepIsNotDone'
  BY <1>1, <1>5, <1>15 DEF StepIsNotDone, CandidateStaged, CandidateRevision, Candidate,
                           PointersMatch, Served, publicationVars
<1>21. CheckpointsInOrder'
  BY <1>1, <1>5 DEF CheckpointsInOrder
<1>22. StartersAreSound'
  <2>1. Begun(s)' = {y} /\ \A t \in Starter \ {s} : Begun(t)' = Begun(t)
    BY <1>8, <1>9 DEF Begun
  <2>2. ASSUME NEW t \in Starter \ {s}, NEW z \in Begun(t)
        PROVE  /\ z.id \in Cycle /\ IsFresh(z) /\ FoundIsSound(z) /\ c # z.id
               /\ z.existing # None => z.existing.id \in Cycle
    BY <1>1, <1>2, <2>2 DEF StartersAreSound, Begun, TypeOK, StarterRecord, CycleRecord
  <2>3. ASSUME NEW t \in Starter \ {s}, NEW z \in Begun(t)
        PROVE  IsFresh(z)' /\ FoundIsSound(z)'
    <3>1. IsFresh(z)'
      BY <2>2, <2>3, <1>6, <1>12, <1>15 DEF IsFresh
    <3>2. FoundIsSound(z)'
      BY <2>2, <2>3, <1>6, <1>12 DEF FoundIsSound
    <3> QED
      BY <3>1, <3>2
  <2>4. IsFresh(y)' /\ FoundIsSound(y)'
    <3>1. x.existing # None => x.existing.id \in Cycle
      BY DEF StarterRecord, CycleRecord
    <3>2. IsFresh(y)'
      BY <1>3, <1>4, <1>6, <1>8, <1>12, <1>15 DEF IsFresh
    <3>3. FoundIsSound(y)'
      BY <1>2, <1>6, <1>8, <1>12, <3>1 DEF FoundIsSound
    <3> QED
      BY <3>2, <3>3
  <2>5. ASSUME NEW t \in Starter, NEW z \in Begun(t), NEW u \in Starter, NEW w \in Begun(u)
        PROVE  (u # t => w.id # z.id) /\ (z.existing # None => z.existing.id # w.id)
    BY <1>1, <2>5 DEF StartersAreSound
  <2>6. ASSUME NEW t \in Starter, NEW z \in Begun(t)', NEW u \in Starter, NEW w \in Begun(u)'
        PROVE  (u # t => w.id # z.id) /\ (z.existing # None => z.existing.id # w.id)
    <3>1. PICK z0 \in Begun(t) : z0.id = z.id /\ z0.existing = z.existing
      BY <1>2, <1>8, <2>1, <2>6
    <3>2. PICK w0 \in Begun(u) : w0.id = w.id
      BY <1>2, <1>8, <2>1, <2>6
    <3> QED
      BY <2>5, <3>1, <3>2
  <2>7. ASSUME NEW t \in Starter, NEW z \in Begun(t)'
        PROVE  IsFresh(z)' /\ FoundIsSound(z)'
    BY <2>1, <2>3, <2>4, <2>7
  <2> QED
    BY <2>6, <2>7 DEF StartersAreSound
<1> QED
  BY <1>10, <1>11, <1>14, <1>16, <1>17, <1>18, <1>19, <1>20, <1>21, <1>22 DEF IngestInv, SafeStep

\* The tail of start(): storage takes the new cycle and its first alarm.
LEMMA StartPutPreserves ==
    ASSUME IngestInv, NEW s \in Starter, StartPut(s)
    PROVE  SafeStep
<1>1. /\ TypeOK /\ PublicationInv /\ RowsAreSound /\ StoredIsSound /\ StartersAreSound
      /\ HandlerIsAlone /\ HandlerIsSound /\ NextIsSound /\ StepIsNotDone /\ CheckpointsInOrder
  BY DEF IngestInv
<1>2. PICK x \in StarterRecord : /\ x = starter[s] /\ x \in Begun(s) /\ x.pc = "put"
                                 /\ IsFresh(x) /\ FoundIsSound(x) /\ x # None
  BY <1>1, StarterIs DEF StartPut, Starting, StartersAreSound
<1> DEFINE c == x.id
<1>3. /\ c \in Cycle /\ x.at \in Nat /\ row[c] # None /\ row[c] = NewCycle(c, x.at) /\ Untouched(c)
      /\ \A r \in InStorage \cup InHand : r.id # c
  BY <1>2 DEF IsFresh, StarterRecord
<1>4. PICK n \in CycleRecord : /\ n = NewCycle(c, x.at) /\ n.id = c /\ n.state = "running"
                               /\ n.attempt = 0 /\ n # None /\ n.cursor = 0
  BY <1>3, NewCycleEffect, IngestNone
<1>5. /\ stored' = n /\ alarm' = x.at
      /\ starter' = [starter EXCEPT ![s] = None]
      /\ UNCHANGED <<publicationVars, artifacts, receipt>>
      /\ row' = row /\ handler' = handler /\ clock' = clock
      /\ differs' = differs /\ requests' = requests /\ faults' = faults
  BY <1>2, <1>4 DEF StartPut, receiptVars, sourceVars
<1>6. /\ starter' \in [Starter -> StarterRecord \cup {None}] /\ starter'[s] = None
      /\ \A t \in Starter \ {s} : starter'[t] = starter[t]
  BY <1>1, <1>5 DEF TypeOK
<1>7. [PublicationNext]_publicationVars /\ PublicationInv'
  BY <1>1, <1>5, PublicationStep
<1>8. TypeOK'
  BY <1>1, <1>3, <1>4, <1>5, <1>6, <1>7 DEF TypeOK, PublicationInv
<1>9. /\ \A r : Sound(r) => Sound(r)'
      /\ \A e : Untouched(e) => Untouched(e)'
      /\ \A e, j : Reached(e, j) => Reached(e, j)'
      /\ \A e, j : Stands(e, j) => Stands(e, j)'
      /\ \A e, j : RowFollows(e, j) => RowFollows(e, j)'
  BY <1>5, QuietKeeps
<1>10. InHand' = InHand /\ InStorage' = {n}
  BY <1>4, <1>5 DEF InHand, InStorage
<1>11. RowsAreSound' /\ HandlerIsSound' /\ CheckpointsInOrder'
  BY <1>1, <1>5, <1>9, <1>10 DEF RowsAreSound, HandlerIsSound, CheckpointsInOrder
<1>12. StoredIsSound'
  <2>1. Stands(c, 0)'
    BY <1>3, <1>9, UntouchedStands
  <2>2. RowFollows(c, 0)'
    BY <1>3, <1>4, <1>5, <2>1 DEF RowFollows
  <2>3. Sound(n)'
    BY <1>4 DEF Sound, MaxRequests
  <2> QED
    BY <1>3, <1>4, <1>5, <1>10, <2>1, <2>2, <2>3 DEF StoredIsSound
<1>13. HandlerIsAlone'
  BY <1>1, <1>3, <1>4, <1>5, <1>9, <1>10 DEF HandlerIsAlone
<1>14. NextIsSound'
  BY <1>1, <1>5, <1>9, <1>10 DEF NextIsSound, ResultIsSound
<1>15. StepIsNotDone'
  BY <1>1, <1>5, <1>10 DEF StepIsNotDone, CandidateStaged, CandidateRevision, Candidate,
                           PointersMatch, Served, publicationVars
<1>16. StartersAreSound'
  <2> SUFFICES ASSUME NEW u \in Starter, NEW y \in Begun(u)'
               PROVE  /\ IsFresh(y)' /\ FoundIsSound(y)'
                      /\ \A t \in Starter : \A z \in Begun(t)' :
                            /\ t # u => z.id # y.id
                            /\ y.existing # None => y.existing.id # z.id
    BY DEF StartersAreSound
  <2>1. Begun(s)' = {} /\ \A t \in Starter \ {s} : Begun(t)' = Begun(t)
    BY <1>6 DEF Begun
  <2>2. u # s /\ y \in Begun(u) /\ IsFresh(y) /\ FoundIsSound(y) /\ y.id # c
    BY <1>1, <1>2, <2>1 DEF StartersAreSound
  <2>3. IsFresh(y)'
    BY <2>2, <1>4, <1>5, <1>9, <1>10 DEF IsFresh
  <2>4. FoundIsSound(y)'
    BY <2>2, <1>5, <1>9 DEF FoundIsSound
  <2> QED
    BY <1>1, <2>1, <2>2, <2>3, <2>4 DEF StartersAreSound
<1> QED
  BY <1>7, <1>8, <1>11, <1>12, <1>13, <1>14, <1>15, <1>16 DEF IngestInv, SafeStep
-----------------------------------------------------------------------------
\* Nothing is recorded at first.
LEMMA InitIngestInv == Init => IngestInv /\ PublicationInit
<1> SUFFICES ASSUME Init PROVE IngestInv /\ PublicationInit
  OBVIOUS
<1>1. /\ PublicationInit /\ stored = None /\ alarm = None /\ handler = None /\ clock = 0 /\ faults = 0
      /\ row = [c \in Cycle |-> None] /\ starter = [s \in Starter |-> None]
      /\ receipt = [c \in Cycle |-> [k \in Cursor |-> "none"]]
      /\ artifacts = [c \in Cycle |-> {}] /\ differs = [c \in Cycle |-> FALSE]
      /\ requests = [c \in Cycle |-> 0]
  BY DEF Init
<1>2. PublicationInv
  BY <1>1, InitPublicationInv
<1>3. TypeOK
  BY <1>1, <1>2, IngestBounds DEF TypeOK, PublicationInv, StepStatus
<1>4. \A c \in Cycle : Untouched(c)
  BY <1>1 DEF Untouched, PublicationInit
<1>5. RowsAreSound
  BY <1>1, <1>4 DEF RowsAreSound
<1>6. StoredIsSound /\ StartersAreSound
  BY <1>1 DEF StoredIsSound, InStorage, StartersAreSound, Begun
<1>7. HandlerIsAlone /\ HandlerIsSound /\ NextIsSound /\ StepIsNotDone
  BY <1>1 DEF InHand, HandlerIsAlone, HandlerIsSound, NextIsSound, StepIsNotDone
<1>8. CheckpointsInOrder
  BY <1>1 DEF CheckpointsInOrder
<1> QED
  BY <1>1, <1>2, <1>3, <1>5, <1>6, <1>7, <1>8 DEF IngestInv

\* A call to D1 or R2 that rejects.
LEMMA CallRejectsPreserves ==
    ASSUME IngestInv, CallRejects
    PROVE  SafeStep
<1>1. TypeOK /\ faults' \in 0 .. MaxFaults
  BY IngestBounds DEF CallRejects, Fault, IngestInv, TypeOK
<1>2. CASE handler # None /\ Catch
  BY <1>1, <1>2, CatchPreserves
<1>3. CASE /\ At("persist-retrieval") /\ RetrievalFails
           /\ UNCHANGED <<publicationVars, sourceVars>>
  <2> PICK h \in InHand : TRUE
    BY <1>1, <1>3, HandlerInHand DEF At
  <2>1. h.cursor \in 1 .. Len(Source) /\ handler.pc = "persist-retrieval"
    BY <1>3 DEF At, IngestInv, NextIsSound, ResultIsSound
  <2>2. UNCHANGED <<publicationVars, artifacts, differs>> /\ requests' \in [Cycle -> Nat]
    BY <1>1, <1>3 DEF sourceVars, TypeOK
  <2>3. [PublicationNext]_publicationVars
    BY <1>3
  <2> QED
    BY <1>1, <1>3, <2>1, <2>2, <2>3, RetrievalFailsPreserves DEF SafeStep
<1>4. CASE /\ handler' = None /\ alarm' = Redelivered
           /\ UNCHANGED <<publicationVars, stored, receiptVars, sourceVars, starter, clock>>
  <2>1. alarm' \in Nat \cup {None} /\ clock' \in 0 .. MaxClock
    BY <1>1, <1>4, IngestBounds DEF Redelivered, TypeOK
  <2> QED
    BY <1>1, <1>4, <2>1, IdlePreserves DEF TypeOK
<1>5. ASSUME NEW s \in Starter, starter' = [starter EXCEPT ![s] = None],
             UNCHANGED <<publicationVars, storageVars, receiptVars, sourceVars, handler, clock>>
      PROVE  SafeStep
  <2>1. stored' = stored /\ alarm' = alarm
    BY <1>5 DEF storageVars
  <2>2. /\ starter' \in [Starter -> StarterRecord \cup {None}]
        /\ \A t \in Starter : starter'[t] \in {starter[t], None}
    BY <1>1, <1>5 DEF TypeOK
  <2> QED
    BY <1>1, <1>5, <2>1, <2>2, IdlePreserves DEF TypeOK
<1> QED
  BY <1>2, <1>3, <1>4, <1>5 DEF CallRejects

\* Whatever the coordinator and its callers do next keeps invariant and protocol.
LEMMA IngestStep ==
    ASSUME IngestInv, [Next]_vars
    PROVE  SafeStep
<1>1. TypeOK
  BY DEF IngestInv
<1>2. CASE UNCHANGED vars
  BY <1>1, <1>2, IdlePreserves DEF vars, TypeOK, storageVars
<1>3. CASE AlarmFires
  BY <1>1, <1>3, DeliverPreserves DEF AlarmFires, TypeOK
<1>4. CASE DuplicateAlarm
  <2>1. faults' \in 0 .. MaxFaults
    BY <1>1, <1>4, IngestBounds DEF DuplicateAlarm, Fault, TypeOK
  <2> QED
    BY <1>1, <1>4, <2>1, DeliverPreserves DEF DuplicateAlarm, TypeOK
<1>5. CASE HandlerNext
  BY <1>5, ReplayPreserves, AcquirePreserves, RetrievePreserves, PrepareManualPreserves,
     StagePreserves, StageManifestPreserves, ValidatePreserves, PublishPreserves,
     ConfirmPublicationPreserves, ReceiptPreserves, PersistPreserves, PutPreserves, FailRowPreserves
  DEF HandlerNext
<1>6. ASSUME NEW s \in Starter, StarterNext(s)
      PROVE  SafeStep
  BY <1>6, StartBeginPreserves, StartExpirePreserves, StartInsertPreserves, StartPutPreserves
  DEF StarterNext
<1>7. CASE Tick
  <2>1. clock' \in 0 .. MaxClock
    BY <1>1, <1>7, IngestBounds DEF Tick, TypeOK
  <2> QED
    BY <1>1, <1>7, <2>1, IdlePreserves DEF Tick, TypeOK, storageVars
<1>8. CASE Crash
  <2>1. faults' \in 0 .. MaxFaults /\ alarm' \in Nat \cup {None}
    BY <1>1, <1>8, IngestBounds DEF Crash, Fault, Redelivered, TypeOK
  <2>2. starter' = [s \in Starter |-> None] /\ handler' = None
        /\ UNCHANGED <<publicationVars, stored, receiptVars, sourceVars, clock>>
    BY <1>8 DEF Crash
  <2> QED
    BY <1>1, <2>1, <2>2, IdlePreserves DEF TypeOK
<1>9. CASE CallRejects
  BY <1>9, CallRejectsPreserves
<1> QED
  BY <1>2, <1>3, <1>4, <1>5, <1>6, <1>7, <1>8, <1>9 DEF Next
-----------------------------------------------------------------------------
(* The invariant of the coordinator, over any sources, any number of calls *)
(* of start() and of faults, and any length of time.                       *)
THEOREM IngestInvariance == Spec => []IngestInv
<1>1. IngestInv /\ [Next]_vars => IngestInv'
  BY IngestStep DEF SafeStep
<1> QED
  BY <1>1, InitIngestInv, PTL DEF Spec

(* Every record of a cycle, wherever the coordinator keeps it, stays a     *)
(* record that coordinator.ts could have written.                          *)
THEOREM IngestTypeCorrect == Spec => []TypeOK
BY IngestInvariance, PTL DEF IngestInv

(* However it is crashed, overlapped, replayed or rejected, the coordinator *)
(* acts on the publication tables by the protocol of CatalogPublication.    *)
THEOREM IngestKeepsProtocol == Spec => KeepsProtocol
<1>1. IngestInv /\ [Next]_vars => [PublicationNext]_publicationVars
  BY IngestStep DEF SafeStep
<1> QED
  BY <1>1, InitIngestInv, IngestInvariance, PTL DEF Spec, KeepsProtocol, PublicationSpec

(* So what is proved of the tables holds for the coordinator: one view is  *)
(* served at every moment, with no gap and no return to an older one.      *)
THEOREM IngestServesOneView == Spec => []OneViewIsServed
BY IngestKeepsProtocol, OneViewAlwaysServed, PTL DEF KeepsProtocol

(* And readers of a coordinator's tables see a published view: each        *)
(* revision is served with its own responses, and never after a later one. *)
THEOREM IngestImplementsView == Spec => ImplementsView
BY IngestKeepsProtocol, PublicationImplementsView, PTL DEF KeepsProtocol

(* A cycle is recorded as published, in D1 or in storage, only after       *)
(* readers were given its responses.                                       *)
THEOREM PublishedWasAlwaysServed == Spec => []PublishedWasServed
<1>1. IngestInv => PublishedWasServed
  <2> SUFFICES ASSUME IngestInv, NEW c \in Cycle,
                      \/ row[c] # None /\ row[c].state = "published"
                      \/ stored # None /\ stored.id = c /\ stored.state = "published"
               PROVE  Served(c)
    BY DEF PublishedWasServed
  <2>1. CASE row[c] # None /\ row[c].state = "published"
    BY <2>1 DEF IngestInv, RowsAreSound, Sound
  <2>2. CASE stored # None /\ stored.id = c /\ stored.state = "published"
    BY <2>2 DEF IngestInv, StoredIsSound, InStorage, Sound
  <2> QED
    BY <2>1, <2>2
<1> QED
  BY <1>1, IngestInvariance, PTL

(* The completion markers of a cycle form a prefix of its steps, and an    *)
(* idle coordinator resumes at its end.                                    *)
THEOREM CheckpointsStayInOrder == Spec => [](CheckpointsInOrder /\ ResumesWhereItStopped)
<1>1. IngestInv => CheckpointsInOrder
  BY DEF IngestInv
<1>2. IngestInv => ResumesWhereItStopped
  BY DEF IngestInv, StoredIsSound, InStorage, ResumesWhereItStopped, IsActive, ActiveState, IsOver,
         Stands, Marked
<1> QED
  BY <1>1, <1>2, IngestInvariance, PTL

\* The batch of a cycle that holds its baseline is never rolled back.
LEMMA BatchIsAllowed ==
    ASSUME PublicationInv, NEW c \in Cycle, manifest[c] # None, HasFinal(c),
           \/ CandidateComplete(c) /\ manifest[c].frozen = catalogPointer
           \/ Replaced(c)
    PROVE  PointersAllowed(Published(c))
<1>1. /\ manifest[c] \in Manifest /\ cached \subseteq Cycle \X Cycle
      /\ manifest[c].final \in {"changed", "unchanged"}
  BY DEF PublicationInv, PublicationTypeOK, HasFinal, Manifest, Final
<1>2. CASE manifest[c].final = "unchanged"
  <2>1. <<manifest[c].frozen, c>> \in cached /\ manifest[c].frozen = catalogPointer
    BY <1>2 DEF Replaced, CandidateComplete, CandidateRevision
  <2> QED
    BY <1>2, <2>1, UnchangedPublishes DEF PointersAllowed
<1>3. CASE manifest[c].final = "changed" /\ manifest[c].frozen = catalogPointer
  <2>1. revision[c] = "pending"
    BY <1>3, CurrentPublishes
  <2>2. <<c, c>> \in cached
    BY <1>3, <2>1 DEF CandidateComplete, CandidateRevision, Replaced
  <2> QED
    <3>1. Published(c).pointer = c /\ Published(c).cache = <<c, c>>
      BY <1>3, CurrentPublishes
    <3>2. Published(c).states[c] = "published"
      BY <1>3, CurrentPublishes
    <3> QED
      BY <2>2, <3>1, <3>2 DEF PointersAllowed
<1>4. CASE manifest[c].final = "changed" /\ manifest[c].frozen # catalogPointer
  <2>1. catalogPointer = c /\ <<c, c>> \in cached
    BY <1>4 DEF Replaced, CandidateRevision
  <2>2. Published(c).pointer = catalogPointer /\ Published(c).cache = <<c, c>>
    BY <1>4, <2>1, StalePublishes
  <2> QED
    BY <2>1, <2>2 DEF PointersAllowed
<1> QED
  BY <1>1, <1>2, <1>3, <1>4

(* No step of the coordinator's cycle finds its baseline moved, its        *)
(* candidate gone or its compare-and-swap lost.                            *)
THEOREM BaselineAlwaysHolds == Spec => []BaselineHolds
<1>1. IngestInv => BaselineHolds
  <2> SUFFICES ASSUME IngestInv, handler # None
               PROVE  BaselineHolds
    BY DEF BaselineHolds, InStep, At
  <2>1. PICK h \in InHand : h = handler.cycle
    BY HandlerInHand DEF IngestInv
  <2> DEFINE c == h.id
  <2>2. ASSUME handler.pc \in {"step", "confirm"}
        PROVE  /\ c \in Cycle /\ h.cursor \in Cursor /\ Reached(c, h.cursor)
               /\ TypeOK /\ PublicationInv
    BY <2>1, <2>2, StepFacts
  <2>3. ASSUME InStep("stage") PROVE CanStage(c)
    <3>1. c \in Cycle /\ h.cursor \in Cursor /\ Reached(c, h.cursor) /\ TypeOK /\ PublicationInv
      BY <2>2, <2>3 DEF InStep, At
    <3>2. h.cursor = Len(Source) + 2
      BY <2>1, <2>3, <3>1, StepAt DEF InStep, Phase
    <3>3. /\ Len(Source) \in Nat /\ h.cursor > 0 /\ h.cursor \in 1 .. ValidateCursor
          /\ \A j \in 1 .. Len(Source) + 1 : j < h.cursor
      BY <3>2, StepsShape DEF ValidateCursor
    <3>4. /\ manifest[c] # None /\ manifest[c].frozen = catalogPointer
          /\ \A j \in 1 .. Len(Source) + 1 : Steps[j + 1] \in artifacts[c]
      BY <3>1, <3>3 DEF Reached
    <3>5. Baseline = catalogPointer
      BY <3>1 DEF Baseline, PublicationInv, ReadersAgree
    <3>6. \A j \in 1 .. Len(Source) : j \in 1 .. Len(Source) + 1 /\ Source[j] = Steps[j + 1]
      BY <3>3, StepsShape
    <3>7. "prepare-manual" \in artifacts[c]
      <4>1. Len(Source) + 1 \in 1 .. Len(Source) + 1 /\ Steps[(Len(Source) + 1) + 1] = "prepare-manual"
        BY <3>3, StepsShape
      <4> QED
        BY <3>4, <4>1
    <3>8. Artifact \subseteq artifacts[c]
      BY <3>4, <3>6, <3>7 DEF Artifact, Retrieval
    <3>9. artifacts[c] \subseteq Artifact
      BY <3>1 DEF TypeOK
    <3> QED
      BY <3>4, <3>5, <3>8, <3>9 DEF CanStage
  <2>4. ASSUME InStep("validate") PROVE HasFinal(c) /\ CandidateComplete(c)
    <3>1. c \in Cycle /\ h.cursor \in Cursor /\ Reached(c, h.cursor)
      BY <2>2, <2>4 DEF InStep, At
    <3>2. h.cursor = ValidateCursor
      BY <2>1, <2>4, <3>1, StepAt DEF InStep, Phase, ValidateCursor
    <3>3. ValidateCursor >= ValidateCursor
      BY StepsShape DEF ValidateCursor
    <3> QED
      BY <3>1, <3>2, <3>3 DEF Reached
  <2>5. ASSUME InStep("publish") PROVE PointersAllowed(Published(c))
    <3>1. c \in Cycle /\ h.cursor \in Cursor /\ Reached(c, h.cursor) /\ PublicationInv
      BY <2>2, <2>5 DEF InStep, At
    <3>2. h.cursor = PublishCursor
      BY <2>1, <2>5, <3>1, StepAt DEF InStep, Phase, PublishCursor
    <3>3. PublishCursor >= ValidateCursor /\ PublishCursor > 0
      BY StepsShape DEF PublishCursor, ValidateCursor
    <3> QED
      BY <3>1, <3>2, <3>3, BatchIsAllowed DEF Reached
  <2>6. ASSUME At("confirm") PROVE PointersMatch(c)
    BY <2>1, <2>6 DEF IngestInv, StepIsNotDone, At
  <2> QED
    BY <2>1, <2>3, <2>4, <2>5, <2>6 DEF BaselineHolds
<1> QED
  BY <1>1, IngestInvariance, PTL
-----------------------------------------------------------------------------
(***************************************************************************)
(* What faults may cost.                                                   *)
(*                                                                         *)
(* As long as no call to D1 or R2 rejects, an unfinished cycle always has  *)
(* an alarm to wake it, and storage and D1 agree on which cycles are over. *)
(* The model has a reason for the condition: a rejected call makes alarm() *)
(* record the failure in storage first and in D1 second, and delete an     *)
(* alarm that start() set.  By BaselineHolds no step throws on what it     *)
(* reads, so without rejections the catch block of alarm() is dead code;   *)
(* the invariant WakeInv follows the alarm from the result of a step to    *)
(* the put that sets it.                                                   *)
(*                                                                         *)
(* Whatever the faults, an upstream is asked for an artifact three times   *)
(* and once more for each of them; the invariant RequestInv accounts for   *)
(* every request in every record of the cycle.                             *)
(***************************************************************************)
NoCallRejects == "io_error" \notin FaultKinds

\* A cycle at its last step has been published, or is over.
Settled(r) == r.cursor = ReceiptCursor => ~ IsActive(r)

RowIsOver(c) == row[c] # None /\ row[c].state \in TerminalState

\* What an invocation is about to write leaves its cycle over, or with an alarm.
WritesAlarm(i) ==
    /\ i.pc # "fail-row"
    /\ i.pc \in {"persist", "persist-retrieval", "put"} =>
          /\ Settled(i.next)
          /\ IsActive(i.next) => i.alarmAt # None
    /\ i.pc = "put" /\ IsOver(i.next) => RowIsOver(i.cycle.id)

Invoked == {handler} \ {None}

RowsAreSettled == \A c \in Cycle : \A r \in {row[c]} \ {None} : Settled(r)

StoredIsAwake ==
    \A r \in InStorage :
        /\ Settled(r)
        /\ IsOver(r) => RowIsOver(r.id)
        /\ handler = None /\ IsActive(r) => alarm # None

InvokedIsAwake ==
    \A i \in Invoked :
        /\ Settled(i.cycle)
        /\ \A r \in InStorage : r.id = i.cycle.id => ~ IsOver(r)
        /\ WritesAlarm(i)

WakeInv == RowsAreSettled /\ StoredIsAwake /\ InvokedIsAwake
-----------------------------------------------------------------------------
\* A step that writes nothing outside the handler.
LEMMA WorkWakes ==
    ASSUME IngestInv, WakeInv, handler # None, NEW i \in HandlerRecord, handler' = i,
           i.cycle = handler.cycle, stored' = stored, row' = row, WritesAlarm(i)'
    PROVE  WakeInv'
<1>1. i # None /\ Invoked' = {i} /\ InStorage' = InStorage
  BY IngestNone DEF Invoked, InStorage
<1>2. Settled(i.cycle) /\ \A r \in InStorage : r.id = i.cycle.id => ~ IsOver(r)
  BY DEF WakeInv, InvokedIsAwake, Invoked
<1>3. InvokedIsAwake'
  BY <1>1, <1>2 DEF InvokedIsAwake
<1>4. RowsAreSettled' /\ StoredIsAwake'
  BY <1>1 DEF WakeInv, RowsAreSettled, StoredIsAwake, RowIsOver
<1> QED
  BY <1>3, <1>4 DEF WakeInv

\* A completed step has the next one woken at once.
LEMMA CompletesWakes ==
    ASSUME IngestInv, WakeInv, NEW h \in InHand,
           NEW pc \in {"persist", "persist-retrieval"},
           NEW state \in {"running", "ready_to_publish", "published"},
           Completes(pc, state), h.cursor < Len(Source) + 5,
           h.cursor = PublishCursor => state = "published"
    PROVE  WakeInv'
<1>1. /\ handler # None /\ handler.cycle = h /\ handler \in HandlerRecord
      /\ h \in CycleRecord /\ h.id \in Cycle /\ h.cursor \in Cursor /\ h.cursor + 1 \in Cursor
  BY InHandIs, StepsShape DEF IngestInv
<1> DEFINE n == Advanced(h, state)
<1>2. n \in CycleRecord /\ n.cursor = h.cursor + 1 /\ n.state = state
  BY <1>1, AdvancedEffect DEF CycleState
<1>3. Result(pc, n, "done", handler.now)
  BY <1>1 DEF Completes
<1>4. Settled(n)
  BY <1>1, <1>2, StepsShape DEF Settled, ReceiptCursor, PublishCursor, IsActive, ActiveState
<1> HIDE DEF n
<1>5. handler.now \in Nat /\ handler.now # None /\ pc \in HandlerPc /\ "done" \in StepStatus
  BY <1>1, IngestNone DEF HandlerRecord, HandlerPc, StepStatus
<1>6. PICK i \in HandlerRecord : /\ handler' = i /\ i.cycle = h /\ i.pc = pc
                                 /\ i.next = n /\ i.alarmAt = handler.now
  BY <1>1, <1>2, <1>3, <1>5, ResultEffect
<1>7. WritesAlarm(i)'
  BY <1>4, <1>5, <1>6 DEF WritesAlarm
<1>8. stored' = stored /\ row' = row
  BY <1>3 DEF Result, storageVars, receiptVars
<1> QED
  BY <1>1, <1>6, <1>7, <1>8, WorkWakes

\* A retrieval that fails ends its cycle or waits for an alarm.
LEMMA RetrievalFailsWakes ==
    ASSUME IngestInv, WakeInv, NEW h \in InHand, h.cursor \in 1 .. Len(Source), RetrievalFails
    PROVE  WakeInv'
<1>1. /\ handler # None /\ handler.cycle = h /\ handler \in HandlerRecord
      /\ h \in CycleRecord /\ h.attempt \in 0 .. MaxRequests /\ h.cursor \in Cursor
  BY InHandIs DEF IngestInv
<1>2. h.attempt < MaxRequests /\ h.cursor # ReceiptCursor
  BY StepsShape DEF IngestInv, HandlerIsSound, Sound, ReceiptCursor
<1> DEFINE attempt == h.attempt + 1
           cycle   == [h EXCEPT !.attempt = attempt]
<1>3. attempt \in 0 .. MaxRequests
  BY <1>1, <1>2 DEF MaxRequests
<1>4. PICK n \in CycleRecord, mark \in {"failed", "retry_wait"}, at \in Nat \cup {None} :
          /\ Result("persist", n, mark, at)
          /\ n.cursor = h.cursor
          /\ n.state = "failed" \/ at # None
  <2>1. cycle \in CycleRecord /\ cycle.cursor = h.cursor
    <3> HIDE DEF attempt
    <3> QED
      BY <1>1, <1>3 DEF CycleRecord
  <2>2. CASE attempt >= MaxRequests
    <3> DEFINE n == Ended(cycle, "failed")
    <3>1. n \in CycleRecord /\ n.cursor = h.cursor /\ n.state = "failed"
      <4> HIDE DEF cycle
      <4> QED
        BY <2>1, EndedEffect DEF CycleState
    <3>2. Result("persist", n, "failed", None)
      BY <1>1, <2>2 DEF RetrievalFails
    <3> QED
      BY <3>1, <3>2
  <2>3. CASE ~ (attempt >= MaxRequests)
    <3>1. PICK reset \in {handler.now, handler.now + 1} :
            Result("persist", [cycle EXCEPT !.state = "retry_wait", !.retryAt = reset],
                   "retry_wait", reset)
      BY <1>1, <2>3 DEF RetrievalFails
    <3>2. reset \in Nat /\ reset # None
      BY <1>1, IngestNone DEF HandlerRecord
    <3> DEFINE n == [cycle EXCEPT !.state = "retry_wait", !.retryAt = reset]
    <3>3. n \in CycleRecord /\ n.cursor = h.cursor
      <4> HIDE DEF cycle, attempt
      <4> QED
        BY <2>1, <3>2 DEF CycleRecord, CycleState
    <3>4. Result("persist", n, "retry_wait", reset)
      BY <3>1
    <3> HIDE DEF n, attempt
    <3> QED
      BY <3>2, <3>3, <3>4
  <2> QED
    BY <2>2, <2>3
<1> HIDE DEF attempt, cycle
<1>5. "persist" \in HandlerPc /\ mark \in StepStatus
  BY DEF HandlerPc, StepStatus
<1>6. PICK i \in HandlerRecord : /\ handler' = i /\ i.cycle = h /\ i.pc = "persist"
                                 /\ i.next = n /\ i.alarmAt = at
  BY <1>1, <1>4, <1>5, ResultEffect
<1>7. WritesAlarm(i)'
  BY <1>2, <1>4, <1>6 DEF WritesAlarm, Settled, IsActive, ActiveState
<1>8. stored' = stored /\ row' = row
  BY <1>4 DEF Result, storageVars, receiptVars
<1> QED
  BY <1>1, <1>6, <1>7, <1>8, WorkWakes

\* A step that goes on to a second await.
LEMMA GoesOnWakes ==
    ASSUME IngestInv, WakeInv, NEW pc \in {"step", "write-manifest", "confirm"}, handler # None,
           handler' = [handler EXCEPT !.pc = pc], stored' = stored, row' = row
    PROVE  WakeInv'
<1>1. handler \in HandlerRecord /\ pc \in HandlerPc
  BY DEF IngestInv, TypeOK, HandlerPc
<1>2. PICK i : i = [handler EXCEPT !.pc = pc]
  OBVIOUS
<1>3. i \in HandlerRecord /\ i.cycle = handler.cycle /\ i.pc = pc /\ handler' = i
  BY <1>1, <1>2 DEF HandlerRecord
<1>4. WritesAlarm(i)'
  BY <1>3 DEF WritesAlarm
<1> QED
  BY <1>3, <1>4, WorkWakes
-----------------------------------------------------------------------------
\* A step that is not run again leaves what its row says, or is run.
LEMMA ReplayWakes ==
    ASSUME IngestInv, WakeInv, Replay
    PROVE  WakeInv'
<1> PICK h \in InHand : TRUE
  BY HandlerInHand DEF IngestInv, Replay, At
<1> DEFINE c == h.id
<1>1. /\ handler.pc = "replay" /\ handler.cycle = h /\ handler # None /\ handler \in HandlerRecord
      /\ h \in CycleRecord /\ c \in Cycle
  BY InHandIs DEF IngestInv, Replay, At
<1>2. stored' = stored /\ row' = row
  BY DEF Replay, storageVars, receiptVars
<1>3. CASE receipt[c][h.cursor] # "done"
  BY <1>1, <1>2, <1>3, GoesOnWakes DEF Replay
<1>4. CASE receipt[c][h.cursor] = "done"
  <2>1. PICK r \in CycleRecord : r = row[c] /\ r # None /\ Settled(r)
    BY <1>1 DEF IngestInv, HandlerIsAlone, TypeOK, WakeInv, RowsAreSettled
  <2>2. PICK at : at = IF IsOver(r) THEN None ELSE handler.now
    OBVIOUS
  <2>3. handler.now \in Nat /\ handler.now # None /\ at \in Nat \cup {None}
    BY <1>1, <2>2, IngestNone DEF HandlerRecord
  <2>4. PICK i : i = [handler EXCEPT !.pc = "put", !.next = r, !.alarmAt = at]
    OBVIOUS
  <2>5. handler' = i
    BY <1>1, <1>4, <2>1, <2>2, <2>4 DEF Replay
  <2>6. /\ i \in HandlerRecord /\ i.cycle = h /\ i.pc = "put" /\ i.next = r /\ i.alarmAt = at
    BY <1>1, <2>1, <2>3, <2>4 DEF HandlerRecord, HandlerPc
  <2>7. IsActive(r) => at # None
    BY <2>2, <2>3 DEF IsActive, ActiveState, IsOver
  <2>8. IsOver(r) => RowIsOver(c)'
    BY <1>2, <2>1 DEF IsOver, RowIsOver, TerminalState
  <2>9. WritesAlarm(i)'
    BY <2>1, <2>6, <2>7, <2>8 DEF WritesAlarm
  <2> QED
    BY <1>1, <1>2, <2>5, <2>6, <2>9, WorkWakes
<1> QED
  BY <1>3, <1>4

\* By BaselineHolds, and by what its cycle has reached, no step throws.
LEMMA StepsWake ==
    ASSUME IngestInv, BaselineHolds, WakeInv,
           \/ Acquire \/ Retrieve \/ PrepareManual
           \/ Stage \/ StageManifest \/ Validate \/ Publish \/ ConfirmPublication
    PROVE  WakeInv'
<1> PICK h \in InHand : h = handler.cycle /\ handler # None
                        /\ handler.pc \in {"step", "write-manifest", "confirm"}
  BY HandlerInHand DEF IngestInv, Acquire, Retrieve, PrepareManual, Stage, StageManifest,
     Validate, Publish, ConfirmPublication, InStep, At
<1>1. h \in CycleRecord /\ h.id \in Cycle /\ h.cursor \in Cursor /\ Reached(h.id, h.cursor)
  BY StepFacts
<1>2. /\ Len(Source) \in Nat /\ PublishCursor = Len(Source) + 4 /\ h.cursor \in Nat
      /\ StageCursor = Len(Source) + 2 /\ ValidateCursor = Len(Source) + 3
  BY <1>1, StepsShape DEF PublishCursor, StageCursor, ValidateCursor
<1>3. ASSUME NEW pc \in {"persist", "persist-retrieval"}, Completes(pc, "running"),
             h.cursor <= Len(Source) + 2
      PROVE  WakeInv'
  BY <1>2, <1>3, CompletesWakes
<1>4. CASE Acquire
  <2>1. h.cursor = 0
    BY <1>1, <1>4, StepAt DEF Acquire, InStep, Phase
  <2> QED
    BY <1>2, <1>3, <1>4, <2>1 DEF Acquire
<1>5. CASE Retrieve
  <2>1. h.cursor \in 1 .. Len(Source) /\ h.cursor <= Len(Source) + 2 /\ h.cursor > 0
    BY <1>1, <1>2, <1>5, StepAt DEF Retrieve, Phase
  <2>2. RetrieveArtifact(h.id, Phase(handler.cycle))
    BY <1>1, <1>5, <2>1 DEF Retrieve, Reached
  <2>3. Completes("persist", "running") \/ Completes("persist-retrieval", "running") \/ RetrievalFails
    BY <2>2 DEF RetrieveArtifact
  <2> QED
    BY <1>3, <2>1, <2>3, RetrievalFailsWakes
<1>6. CASE PrepareManual
  <2>1. h.cursor = Len(Source) + 1 /\ h.cursor <= Len(Source) + 2 /\ h.cursor > 0
    BY <1>1, <1>2, <1>6, StepAt DEF PrepareManual, InStep, Phase
  <2>2. PrepareArtifact(h.id)
    BY <1>1, <1>6, <2>1 DEF PrepareManual, Reached
  <2> QED
    BY <1>3, <2>1, <2>2 DEF PrepareArtifact
<1>7. CASE Stage
  <2>1. CanStage(h.id)
    BY <1>7 DEF Stage, BaselineHolds
  <2>2. /\ handler' = [handler EXCEPT !.pc = "write-manifest"]
        /\ stored' = stored /\ row' = row
    BY <1>7, <2>1 DEF Stage, storageVars, receiptVars
  <2> QED
    BY <2>2, GoesOnWakes
<1>8. CASE StageManifest
  <2>1. h.cursor = StageCursor
    BY <1>8 DEF StageManifest, At, IngestInv, StepIsNotDone
  <2>2. Completes("persist", "running")
    BY <1>8 DEF StageManifest
  <2> QED
    BY <1>2, <1>3, <2>1, <2>2
<1>9. CASE Validate
  <2>1. h.cursor = Len(Source) + 3 /\ h.cursor < Len(Source) + 5 /\ h.cursor # PublishCursor
    BY <1>1, <1>2, <1>9, StepAt DEF Validate, InStep, Phase
  <2>2. Completes("persist", "ready_to_publish")
    BY <1>9 DEF Validate, BaselineHolds
  <2> QED
    BY <2>1, <2>2, CompletesWakes
<1>10. CASE Publish
  <2>1. h.cursor = PublishCursor
    BY <1>1, <1>2, <1>10, StepAt DEF Publish, InStep, Phase
  <2>2. HasFinal(h.id)
    BY <1>1, <1>2, <2>1 DEF Reached
  <2>3. /\ handler' = [handler EXCEPT !.pc = "confirm"]
        /\ stored' = stored /\ row' = row
    BY <1>10, <2>2 DEF Publish, BaselineHolds, storageVars, receiptVars
  <2> QED
    BY <2>3, GoesOnWakes
<1>11. CASE ConfirmPublication
  <2>1. h.cursor = PublishCursor
    BY <1>11 DEF ConfirmPublication, At, IngestInv, StepIsNotDone
  <2>2. Completes("persist", "published")
    BY <1>11 DEF ConfirmPublication, BaselineHolds
  <2> QED
    BY <1>2, <2>1, <2>2, CompletesWakes
<1> QED
  BY <1>4, <1>5, <1>6, <1>7, <1>8, <1>9, <1>10, <1>11

\* receiptStep: the row is over, and so is the handler's cycle but for its receipt.
LEMMA ReceiptWakes ==
    ASSUME IngestInv, WakeInv, Receipt
    PROVE  WakeInv'
<1> PICK h \in InHand : TRUE
  BY HandlerInHand DEF IngestInv, Receipt, InStep, At
<1> DEFINE c == h.id
<1>1. /\ handler.pc = "step" /\ handler.cycle = h /\ handler # None /\ handler \in HandlerRecord
      /\ h \in CycleRecord /\ c \in Cycle /\ h.cursor \in Cursor
      /\ Phase(h) = "receipt" /\ Reached(c, h.cursor) /\ TypeOK
  BY StepFacts DEF Receipt, InStep, At
<1>2. h.cursor = ReceiptCursor /\ h.cursor >= ValidateCursor
  BY <1>1, StepAt, StepsShape DEF Phase, ReceiptCursor, ValidateCursor
<1>3. HasFinal(c)
  BY <1>1, <1>2 DEF Reached
<1>4. ~ IsActive(h) /\ ~ IsOver(h)
  BY <1>1, <1>2 DEF WakeInv, InvokedIsAwake, Invoked, Settled, IngestInv, HandlerIsSound
<1>5. row[c] \in CycleRecord /\ row[c] # None
  BY <1>1 DEF IngestInv, HandlerIsAlone, TypeOK
<1>6. PICK n \in CycleRecord : n = Ended(row[c], "published") /\ n.state = "published" /\ n # None
  BY <1>5, EndedEffect, IngestNone DEF CycleState
<1>7. row' = [row EXCEPT ![c] = n] /\ handler' = [handler EXCEPT !.pc = "put", !.next = h]
      /\ stored' = stored /\ alarm' = alarm
  BY <1>1, <1>3, <1>6 DEF Receipt, storageVars
<1>8. row'[c] = n /\ \A d \in Cycle \ {c} : row'[d] = row[d]
  BY <1>1, <1>7 DEF TypeOK
<1>9. PICK i : i = [handler EXCEPT !.pc = "put", !.next = h]
  OBVIOUS
<1>10. /\ i \in HandlerRecord /\ i.cycle = h /\ i.pc = "put" /\ i.next = h /\ handler' = i /\ i # None
  BY <1>1, <1>7, <1>9, IngestNone DEF HandlerRecord, HandlerPc
<1>11. Settled(n) /\ RowIsOver(c)' /\ \A d \in Cycle : RowIsOver(d) => RowIsOver(d)'
  BY <1>6, <1>8 DEF Settled, IsActive, ActiveState, RowIsOver, TerminalState
<1>12. Invoked' = {i} /\ InStorage' = InStorage /\ \A r \in InStorage : r.id \in Cycle
  BY <1>1, <1>7, <1>10, RecordIs DEF Invoked, InStorage, TypeOK
<1>13. RowsAreSettled'
  BY <1>8, <1>11 DEF WakeInv, RowsAreSettled
<1>14. StoredIsAwake'
  BY <1>10, <1>11, <1>12 DEF WakeInv, StoredIsAwake
<1>15. InvokedIsAwake'
  BY <1>1, <1>4, <1>10, <1>12 DEF WakeInv, InvokedIsAwake, Invoked, WritesAlarm, Settled
<1> QED
  BY <1>13, <1>14, <1>15 DEF WakeInv

\* persistStep: the row of the cycle is over from here on if its record is.
LEMMA PersistWakes ==
    ASSUME IngestInv, WakeInv, Persist
    PROVE  WakeInv'
<1> PICK h \in InHand : TRUE
  BY HandlerInHand DEF IngestInv, Persist, At
<1> DEFINE c == h.id
<1>1. /\ handler.pc \in {"persist", "persist-retrieval"} /\ handler.cycle = h /\ handler # None
      /\ handler \in HandlerRecord /\ h \in CycleRecord /\ c \in Cycle /\ TypeOK
  BY InHandIs DEF IngestInv, Persist, At
<1>2. PICK n \in CycleRecord : n = handler.next /\ n # None
  BY <1>1 DEF IngestInv, NextIsSound, HandlerRecord
<1>3. Settled(n) /\ (IsActive(n) => handler.alarmAt # None) /\ Settled(h)
      /\ \A r \in InStorage : r.id = c => ~ IsOver(r)
  BY <1>1, <1>2 DEF WakeInv, InvokedIsAwake, Invoked, WritesAlarm
<1>4. row' = [row EXCEPT ![c] = n] /\ handler' = [handler EXCEPT !.pc = "put"] /\ stored' = stored
  BY <1>1, <1>2 DEF Persist, storageVars
<1>5. row'[c] = n /\ \A d \in Cycle \ {c} : row'[d] = row[d]
  BY <1>1, <1>4 DEF TypeOK
<1>6. PICK i : i = [handler EXCEPT !.pc = "put"]
  OBVIOUS
<1>7. /\ i \in HandlerRecord /\ i.cycle = h /\ i.pc = "put" /\ i.next = n
      /\ i.alarmAt = handler.alarmAt /\ handler' = i /\ i # None
  BY <1>1, <1>2, <1>4, <1>6, IngestNone DEF HandlerRecord, HandlerPc
<1>8. IsOver(n) => RowIsOver(c)'
  BY <1>2, <1>5 DEF IsOver, RowIsOver, TerminalState
<1>9. Invoked' = {i} /\ InStorage' = InStorage /\ \A r \in InStorage : r.id \in Cycle
  BY <1>1, <1>4, <1>7, RecordIs DEF Invoked, InStorage, TypeOK
<1>10. RowsAreSettled'
  BY <1>3, <1>5 DEF WakeInv, RowsAreSettled
<1>11. StoredIsAwake'
  BY <1>3, <1>5, <1>7, <1>9 DEF WakeInv, StoredIsAwake, RowIsOver
<1>12. WritesAlarm(i)'
  BY <1>3, <1>7, <1>8 DEF WritesAlarm
<1>13. InvokedIsAwake'
  BY <1>3, <1>7, <1>9, <1>12 DEF InvokedIsAwake
<1> QED
  BY <1>10, <1>11, <1>13 DEF WakeInv

\* The tail of alarm(): an unfinished cycle goes to storage with its alarm.
LEMMA PutWakes ==
    ASSUME IngestInv, WakeInv, Put
    PROVE  WakeInv'
<1>1. handler # None /\ handler.pc = "put" /\ handler \in Invoked /\ handler \in HandlerRecord
      /\ handler.cycle \in InHand
  BY HandlerInHand DEF Put, At, Invoked, IngestInv, TypeOK
<1>2. PICK n \in CycleRecord : n = handler.next /\ n # None /\ n.id = handler.cycle.id
  BY <1>1 DEF IngestInv, NextIsSound, HandlerRecord
<1>3. Settled(n) /\ (IsActive(n) => handler.alarmAt # None) /\ (IsOver(n) => RowIsOver(n.id))
  BY <1>1, <1>2 DEF WakeInv, InvokedIsAwake, WritesAlarm
<1>4. stored' = n /\ alarm' = handler.alarmAt /\ handler' = None /\ row' = row
  BY <1>2 DEF Put, receiptVars
<1>5. Invoked' = {} /\ InStorage' = {n}
  BY <1>2, <1>4 DEF Invoked, InStorage
<1> QED
  BY <1>3, <1>4, <1>5 DEF WakeInv, RowsAreSettled, StoredIsAwake, InvokedIsAwake, RowIsOver
-----------------------------------------------------------------------------
\* An alarm lets go of storage only if there is nothing left to do.
LEMMA DeliverWakes ==
    ASSUME IngestInv, WakeInv, NEW pending, Deliver(pending)
    PROVE  WakeInv'
<1>1. handler = None /\ stored' = stored /\ row' = row /\ InStorage' = InStorage /\ TypeOK
  BY DEF Deliver, receiptVars, InStorage, IngestInv
<1>2. RowsAreSettled'
  BY <1>1 DEF WakeInv, RowsAreSettled
<1>3. CASE stored = None \/ IsOver(stored)
  <2>1. handler' = None /\ Invoked' = {}
    BY <1>3 DEF Deliver, Invoked
  <2>2. \A r \in InStorage : IsOver(r) /\ ~ IsActive(r)
    BY <1>3 DEF InStorage, IsOver, IsActive, ActiveState
  <2> QED
    BY <1>1, <1>2, <2>1, <2>2 DEF WakeInv, StoredIsAwake, InvokedIsAwake, RowIsOver
<1>4. CASE stored # None /\ ~ IsOver(stored)
  <2>1. PICK r \in CycleRecord : r = stored /\ r # None /\ ~ IsOver(r) /\ Sound(r) /\ Settled(r)
                                 /\ InStorage = {r}
    BY <1>1, <1>4 DEF InStorage, TypeOK, IngestInv, StoredIsSound, WakeInv, StoredIsAwake
  <2>2. handler' = FirstCall
    BY <1>4 DEF Deliver
  <2> DEFINE over == Ended(r, "expired")
             on   == Ended(r, "running")
  <2>3. over \in CycleRecord /\ over.state = "expired" /\ on \in CycleRecord
        /\ on.state = "running" /\ on.cursor = r.cursor /\ on.id = r.id
    BY EndedEffect DEF CycleState
  <2>4. clock \in Nat /\ r.retryAt \in Nat \cup {None}
    BY <1>1, IngestBounds DEF TypeOK, CycleRecord
  <2>5. r.state = "retry_wait" => Settled(on) /\ r.retryAt # None
    BY <2>1, <2>3 DEF Settled, IsActive, ActiveState, Sound
  <2>6. Settled(over) /\ ~ IsActive(over) /\ ~ IsOver(on)
    BY <2>3 DEF Settled, IsActive, ActiveState, IsOver
  <2> HIDE DEF over, on
  <2>7. ASSUME NEW i, handler' = i, i # None, i.cycle.id = r.id, Settled(i.cycle), WritesAlarm(i)'
        PROVE  WakeInv'
    <3>1. Invoked' = {i}
      BY <2>7 DEF Invoked
    <3>2. InvokedIsAwake'
      BY <1>1, <2>1, <2>7, <3>1 DEF InvokedIsAwake
    <3>3. StoredIsAwake'
      BY <1>1, <2>7 DEF WakeInv, StoredIsAwake, RowIsOver
    <3> QED
      BY <1>2, <3>2, <3>3 DEF WakeInv
  <2>8. CASE handler' = Invocation("persist", r, over, "failed", None)
    <3> DEFINE i == Invocation("persist", r, over, "failed", None)
    <3>1. i.pc = "persist" /\ i.cycle = r /\ i.next = over /\ i \in HandlerRecord
      BY <2>1, <2>3, <2>4 DEF Invocation, HandlerRecord, HandlerPc, StepStatus
    <3>2. WritesAlarm(i)
      BY <2>6, <3>1 DEF WritesAlarm
    <3> QED
      <4> PICK j : j = i
        OBVIOUS
      <4>1. WritesAlarm(j)' /\ j # None /\ handler' = j /\ j.cycle = r
        BY <2>6, <2>8, <3>1, IngestNone DEF WritesAlarm
      <4> QED
        BY <2>1, <2>7, <4>1
  <2>9. CASE handler' = Invocation("replay", r, None, "none", None)
    <3> PICK j : j = Invocation("replay", r, None, "none", None)
      OBVIOUS
    <3>1. j.pc = "replay" /\ j.cycle = r /\ j \in HandlerRecord /\ j # None
      BY <2>1, <2>4, IngestNone DEF Invocation, HandlerRecord, HandlerPc, StepStatus
    <3>2. WritesAlarm(j)'
      BY <3>1 DEF WritesAlarm
    <3> QED
      BY <2>1, <2>7, <2>9, <3>1, <3>2
  <2>10. CASE r.state = "retry_wait" /\ handler' = Invocation("put", r, r, "none", r.retryAt)
    <3> PICK j : j = Invocation("put", r, r, "none", r.retryAt)
      OBVIOUS
    <3>1. j.pc = "put" /\ j.cycle = r /\ j.next = r /\ j.alarmAt = r.retryAt
          /\ j \in HandlerRecord /\ j # None
      BY <2>1, <2>4, IngestNone DEF Invocation, HandlerRecord, HandlerPc, StepStatus
    <3>2. WritesAlarm(j)'
      BY <2>1, <2>5, <2>10, <3>1 DEF WritesAlarm
    <3> QED
      BY <2>1, <2>7, <2>10, <3>1, <3>2
  <2>11. CASE r.state = "retry_wait" /\ handler' = Invocation("replay", on, None, "none", None)
    <3> PICK j : j = Invocation("replay", on, None, "none", None)
      OBVIOUS
    <3>1. j.pc = "replay" /\ j.cycle = on /\ j \in HandlerRecord /\ j # None
      BY <2>3, <2>4, IngestNone DEF Invocation, HandlerRecord, HandlerPc, StepStatus
    <3>2. WritesAlarm(j)'
      BY <3>1 DEF WritesAlarm
    <3> QED
      BY <2>3, <2>5, <2>7, <2>11, <3>1, <3>2
  <2> QED
    BY <2>1, <2>2, <2>8, <2>9, <2>10, <2>11 DEF FirstCall, over, on
<1> QED
  BY <1>3, <1>4

\* The handler is as it was, or gone and its alarm set again.
LEMMA IdleWakes ==
    ASSUME WakeInv, stored' = stored, row' = row,
           \/ handler' = handler /\ alarm' = alarm
           \/ handler' = None /\ alarm' # None
    PROVE  WakeInv'
<1>1. Invoked' \subseteq Invoked /\ InStorage' = InStorage
  BY DEF Invoked, InStorage
<1>2. RowsAreSettled' /\ StoredIsAwake'
  BY <1>1 DEF WakeInv, RowsAreSettled, StoredIsAwake, RowIsOver
<1>3. InvokedIsAwake'
  BY <1>1 DEF WakeInv, InvokedIsAwake, WritesAlarm, RowIsOver
<1> QED
  BY <1>2, <1>3 DEF WakeInv

\* start() writes one row: that of a new cycle, or of an old one that is over.
LEMMA RowWakes ==
    ASSUME IngestInv, WakeInv, NEW c \in Cycle, NEW n \in CycleRecord, row' = [row EXCEPT ![c] = n],
           UNCHANGED <<stored, alarm, handler>>, Settled(n),
           n.state \in TerminalState \/ \A r \in InStorage \cup InHand : r.id # c
    PROVE  WakeInv'
<1>1. row'[c] = n /\ (\A d \in Cycle \ {c} : row'[d] = row[d]) /\ n # None
  BY IngestNone DEF IngestInv, TypeOK
<1>2. Invoked' = Invoked /\ InStorage' = InStorage
  BY DEF Invoked, InStorage
<1>3. RowsAreSettled'
  BY <1>1 DEF WakeInv, RowsAreSettled
<1>4. \A r \in InStorage \cup InHand : r.id \in Cycle
  <2>1. \A r \in InStorage \cup InHand : r \in CycleRecord
    BY DEF IngestInv, TypeOK, InStorage, InHand, HandlerRecord
  <2> QED
    BY <2>1, RecordIs
<1>5. \A r \in InStorage \cup InHand : RowIsOver(r.id) => RowIsOver(r.id)'
  BY <1>1, <1>4 DEF RowIsOver
<1>6. StoredIsAwake'
  BY <1>2, <1>5 DEF WakeInv, StoredIsAwake
<1>7. \A i \in Invoked : i.cycle \in InHand
  BY DEF Invoked, InHand
<1>8. InvokedIsAwake'
  BY <1>2, <1>5, <1>7 DEF WakeInv, InvokedIsAwake, WritesAlarm
<1> QED
  BY <1>3, <1>6, <1>8 DEF WakeInv

\* start() puts a cycle with its alarm, or writes only rows.
LEMMA StarterWakes ==
    ASSUME IngestInv, WakeInv, NEW s \in Starter, StarterNext(s)
    PROVE  WakeInv'
<1>1. CASE StartBegin(s)
  BY <1>1, IdleWakes DEF StartBegin, storageVars, receiptVars
<1>2. CASE StartExpire(s)
  <2>1. PICK x \in StarterRecord : /\ x = starter[s] /\ FoundIsSound(x)
                                   /\ x.existing # None /\ x.existing \in CycleRecord
    BY <1>2, StarterIs DEF StartExpire, Starting, IngestInv, StartersAreSound, FoundIsSound, StarterRecord
  <2>2. PICK n \in CycleRecord : n = Ended(x.existing, "expired") /\ n.state = "expired"
    BY <2>1, EndedEffect DEF CycleState
  <2>3. x.existing.id \in Cycle /\ Settled(n) /\ n.state \in TerminalState
    BY <2>1, <2>2 DEF CycleRecord, Settled, IsActive, ActiveState, TerminalState
  <2>4. row' = [row EXCEPT ![x.existing.id] = n] /\ UNCHANGED <<stored, alarm, handler>>
    BY <1>2, <2>1, <2>2 DEF StartExpire, storageVars
  <2> QED
    BY <2>3, <2>4, RowWakes
<1>3. CASE StartInsert(s)
  <2>1. PICK x \in StarterRecord : x = starter[s] /\ IsFresh(x)
    BY <1>3, StarterIs DEF StartInsert, Starting, IngestInv, StartersAreSound
  <2>2. PICK n \in CycleRecord : n = NewCycle(x.id, x.at) /\ n.cursor = 0
    BY NewCycleEffect DEF StarterRecord
  <2>3. /\ x.id \in Cycle /\ Settled(n) /\ \A r \in InStorage \cup InHand : r.id # x.id
    BY <2>1, <2>2, StepsShape DEF StarterRecord, Settled, ReceiptCursor, IsFresh
  <2>4. row' = [row EXCEPT ![x.id] = n] /\ UNCHANGED <<stored, alarm, handler>>
    BY <1>3, <2>1, <2>2 DEF StartInsert, storageVars
  <2> QED
    BY <2>3, <2>4, RowWakes
<1>4. CASE StartPut(s)
  <2>1. PICK x \in StarterRecord : x = starter[s] /\ IsFresh(x)
    BY <1>4, StarterIs DEF StartPut, Starting, IngestInv, StartersAreSound
  <2>2. PICK n \in CycleRecord : /\ n = NewCycle(x.id, x.at) /\ n.cursor = 0 /\ n.id = x.id
                                 /\ n.state = "running" /\ n # None
    BY NewCycleEffect, IngestNone DEF StarterRecord
  <2>3. stored' = n /\ alarm' = x.at /\ handler' = handler /\ row' = row
    BY <1>4, <2>1, <2>2 DEF StartPut, receiptVars
  <2>4. alarm' # None /\ Settled(n) /\ ~ IsOver(n)
    BY <2>2, <2>3, StepsShape, IngestNone DEF StarterRecord, Settled, ReceiptCursor, IsOver
  <2>5. InStorage' = {n} /\ Invoked' = Invoked
    BY <2>2, <2>3 DEF InStorage, Invoked
  <2>6. RowsAreSettled' /\ StoredIsAwake'
    BY <2>3, <2>4, <2>5 DEF WakeInv, RowsAreSettled, StoredIsAwake
  <2>7. InvokedIsAwake'
    BY <2>3, <2>4, <2>5 DEF WakeInv, InvokedIsAwake, WritesAlarm, RowIsOver
  <2> QED
    BY <2>6, <2>7 DEF WakeInv
<1> QED
  BY <1>1, <1>2, <1>3, <1>4 DEF StarterNext

\* Without rejected calls every step keeps WakeInv.
LEMMA WakeStep ==
    ASSUME NoCallRejects, IngestInv, BaselineHolds, WakeInv, [Next]_vars
    PROVE  WakeInv'
<1>1. TypeOK
  BY DEF IngestInv
<1>2. CASE UNCHANGED vars
  BY <1>2, IdleWakes DEF vars, storageVars, receiptVars
<1>3. CASE AlarmFires
  BY <1>3, DeliverWakes DEF AlarmFires
<1>4. CASE DuplicateAlarm
  BY <1>4, DeliverWakes DEF DuplicateAlarm
<1>5. CASE HandlerNext
  <2>1. ~ FailRow
    BY DEF FailRow, At, WakeInv, InvokedIsAwake, Invoked, WritesAlarm
  <2> QED
    BY <1>5, <2>1, ReplayWakes, StepsWake, ReceiptWakes, PersistWakes, PutWakes DEF HandlerNext
<1>6. ASSUME NEW s \in Starter, StarterNext(s)
      PROVE  WakeInv'
  BY <1>6, StarterWakes
<1>7. CASE Tick
  BY <1>7, IdleWakes DEF Tick, storageVars, receiptVars
<1>8. CASE Crash
  <2>1. clock \in Nat /\ clock # None
    BY <1>1, IngestBounds, IngestNone DEF TypeOK
  <2> QED
    BY <1>8, <2>1, IdleWakes DEF Crash, Redelivered, receiptVars
<1>9. ~ CallRejects
  BY DEF CallRejects, Fault, NoCallRejects
<1> QED
  BY <1>2, <1>3, <1>4, <1>5, <1>6, <1>7, <1>8, <1>9 DEF Next
-----------------------------------------------------------------------------
\* Nothing is kept at first.
LEMMA InitWakeInv == Init => WakeInv
BY DEF Init, WakeInv, RowsAreSettled, StoredIsAwake, InStorage, InvokedIsAwake, Invoked

\* The invariant that follows the alarm, for any crashes and duplicates.
THEOREM WakeInvariance == NoCallRejects => (Spec => []WakeInv)
<1> SUFFICES ASSUME NoCallRejects PROVE Spec => []WakeInv
  OBVIOUS
<1>1. IngestInv /\ BaselineHolds /\ WakeInv /\ [Next]_vars => WakeInv'
  BY WakeStep
<1> QED
  BY <1>1, InitWakeInv, IngestInvariance, BaselineAlwaysHolds, PTL DEF Spec

(* An unfinished cycle always has an alarm to wake it, however its         *)
(* invocations crash, are delivered twice or overlap with start().         *)
THEOREM WakeupIsNeverLost == NoCallRejects => (Spec => []NoLostWakeup)
<1>1. WakeInv => NoLostWakeup
  BY DEF WakeInv, StoredIsAwake, InStorage, NoLostWakeup
<1> QED
  BY <1>1, WakeInvariance, PTL

(* The completion markers, the row in D1 and the cycle in storage agree on *)
(* how far a cycle is, and on whether it is over.                          *)
THEOREM CheckpointsAlwaysAgree == NoCallRejects => (Spec => []CheckpointsAgree)
<1>1. WakeInv => EndsTogether
  BY DEF WakeInv, StoredIsAwake, InStorage, EndsTogether, RowIsOver
<1> QED
  BY <1>1, WakeInvariance, CheckpointsStayInOrder, PTL DEF CheckpointsAgree
-----------------------------------------------------------------------------
(***************************************************************************)
(* What faults cost: an upstream is asked for an artifact at most three    *)
(* times, and once more for each fault, rejected calls included.  The      *)
(* cycle in storage may be one request behind while the handler that made  *)
(* it has not put its record.                                              *)
(***************************************************************************)
IsSource(k) == k \in 1 .. Len(Source)

Lacks(r) == IsSource(r.cursor) /\ Steps[r.cursor + 1] \notin artifacts[r.id]

\* The attempts of r, and a number of faults, account for its requests.
Accounts(r, debt) ==
    requests[r.id] # 0 => Lacks(r) /\ requests[r.id] <= r.attempt + debt

Writing == {"persist", "persist-retrieval", "put", "fail-row"}

RequestTotals ==
    \A c \in Cycle :
        /\ requests[c] <= MaxRequests + faults
        /\ row[c] = None => requests[c] = 0

BegunAsksNothing == \A s \in Starter : \A x \in Begun(s) : requests[x.id] = 0

ReceiptsHaveArtifacts ==
    \A c \in Cycle : \A k \in 1 .. Len(Source) :
        receipt[c][k] = "done" => Steps[k + 1] \in artifacts[c]

StoredAccounts ==
    \A r \in InStorage : ~ IsOver(r) =>
        /\ Accounts(r, faults + 1)
        /\ (\A h \in InHand : h.id = r.id => handler.pc \notin Writing) => Accounts(r, faults)

HandlerAccounts ==
    \A h \in InHand :
        /\ handler.pc \notin Writing => Accounts(h, faults)
        /\ \A n \in {handler.next} :
              handler.pc \in Writing /\ ~ IsOver(n) => Accounts(n, faults)
        /\ handler.pc = "persist-retrieval" => requests[h.id] = 0
        /\ handler.pc = "fail-row" => \A r \in InStorage : r.id = h.id => IsOver(r)
        /\ /\ handler.pc \in {"persist", "persist-retrieval"}
           /\ handler.mark = "done" /\ IsSource(h.cursor)
           => Steps[h.cursor + 1] \in artifacts[h.id]

RequestInv ==
    /\ RequestTotals
    /\ BegunAsksNothing
    /\ ReceiptsHaveArtifacts
    /\ StoredAccounts
    /\ HandlerAccounts
-----------------------------------------------------------------------------
\* The records that are kept, and the numbers that account for them.
LEMMA AccountTypes ==
    ASSUME IngestInv
    PROVE  /\ faults \in Nat /\ MaxRequests = 3
           /\ \A c \in Cycle : requests[c] \in Nat
           /\ \A r \in InStorage \cup InHand :
                 r \in CycleRecord /\ r.id \in Cycle /\ r.attempt \in Nat /\ r.cursor \in Cursor
<1>1. TypeOK
  BY DEF IngestInv
<1>2. faults \in Nat /\ MaxRequests = 3 /\ \A c \in Cycle : requests[c] \in Nat
  BY <1>1, IngestBounds DEF TypeOK, MaxRequests
<1>3. \A r \in InStorage \cup InHand : r \in CycleRecord
  BY <1>1 DEF TypeOK, InStorage, InHand, HandlerRecord
<1>4. \A r \in CycleRecord : r.id \in Cycle /\ r.attempt \in Nat /\ r.cursor \in Cursor
  BY DEF CycleRecord, MaxRequests
<1> QED
  BY <1>2, <1>3, <1>4

\* A step of the handler that leaves storage, rows and receipts alone.
LEMMA WorkAccounts ==
    ASSUME IngestInv, RequestInv, NEW h \in InHand, NEW i \in HandlerRecord,
           handler' = i, i.cycle = h, faults' = faults \/ faults' = faults + 1,
           stored' = stored, row' = row, receipt' = receipt, starter' = starter,
           \A d \in Cycle \ {h.id} : requests'[d] = requests[d] /\ artifacts'[d] = artifacts[d],
           requests'[h.id] <= MaxRequests + faults',
           \A k \in 1 .. Len(Source) :
              receipt[h.id][k] = "done" => Steps[k + 1] \in artifacts'[h.id],
           \A r \in InStorage : r.id = h.id /\ ~ IsOver(r) =>
              Accounts(r, faults + 1)' /\ (i.pc \notin Writing => Accounts(r, faults)'),
           HandlerAccounts'
    PROVE  RequestInv'
<1>1. /\ faults \in Nat /\ MaxRequests = 3 /\ h.id \in Cycle
      /\ \A c \in Cycle : requests[c] \in Nat
      /\ \A r \in InStorage : r.id \in Cycle /\ r.attempt \in Nat
  BY AccountTypes
<1>2. i # None /\ InHand' = {h} /\ InHand = {h} /\ InStorage' = InStorage
  BY IngestNone DEF InHand, InStorage
<1>3. row[h.id] # None /\ \A s \in Starter : \A x \in Begun(s) : x.id \in Cycle \ {h.id}
  BY DEF IngestInv, HandlerIsAlone, StartersAreSound, IsFresh, TypeOK, Begun, StarterRecord
<1>4. RequestTotals'
  <2> SUFFICES ASSUME NEW c \in Cycle
               PROVE  requests'[c] <= MaxRequests + faults' /\ (row'[c] = None => requests'[c] = 0)
    BY DEF RequestTotals
  <2>1. requests[c] <= MaxRequests + faults /\ (row[c] = None => requests[c] = 0)
    BY DEF RequestInv, RequestTotals
  <2> QED
    BY <1>1, <1>3, <2>1
<1>5. BegunAsksNothing'
  BY <1>3 DEF RequestInv, BegunAsksNothing, Begun
<1>6. ReceiptsHaveArtifacts'
  <2> SUFFICES ASSUME NEW c \in Cycle, NEW k \in 1 .. Len(Source), receipt[c][k] = "done"
               PROVE  Steps[k + 1] \in artifacts'[c]
    BY StepsShape DEF ReceiptsHaveArtifacts, Steps
  <2> QED
    BY DEF RequestInv, ReceiptsHaveArtifacts
<1>7. StoredAccounts'
  <2> SUFFICES ASSUME NEW r \in InStorage, ~ IsOver(r)
               PROVE  /\ Accounts(r, faults + 1)'
                      /\ (h.id = r.id => i.pc \notin Writing) => Accounts(r, faults)'
    BY <1>2 DEF StoredAccounts
  <2>1. CASE r.id = h.id
    BY <2>1
  <2>2. CASE r.id # h.id
    <3>1. Accounts(r, faults)
      BY <1>2, <2>2 DEF RequestInv, StoredAccounts
    <3> QED
      BY <1>1, <2>2, <3>1 DEF Accounts, Lacks
  <2> QED
    BY <2>1, <2>2
<1> QED
  BY <1>4, <1>5, <1>6, <1>7 DEF RequestInv

\* A step that completes: nothing more is asked for.
LEMMA CompletesAccounts ==
    ASSUME IngestInv, RequestInv, NEW h \in InHand,
           NEW pc \in {"persist", "persist-retrieval"},
           NEW state \in {"running", "ready_to_publish", "published"},
           Completes(pc, state), h.cursor < Len(Source) + 5, faults' = faults,
           \A d \in Cycle \ {h.id} : requests'[d] = requests[d] /\ artifacts'[d] = artifacts[d],
           requests'[h.id] = 0,
           \A k \in 1 .. Len(Source) :
              receipt[h.id][k] = "done" => Steps[k + 1] \in artifacts'[h.id],
           IsSource(h.cursor) => Steps[h.cursor + 1] \in artifacts'[h.id]
    PROVE  RequestInv'
<1>1. /\ handler # None /\ handler.cycle = h /\ handler \in HandlerRecord
      /\ h \in CycleRecord /\ h.id \in Cycle /\ h.cursor \in Cursor /\ h.cursor + 1 \in Cursor
  BY InHandIs, StepsShape DEF IngestInv
<1> DEFINE n == Advanced(h, state)
<1>2. n \in CycleRecord /\ n.id = h.id
  BY <1>1, AdvancedEffect DEF CycleState
<1>3. Result(pc, n, "done", handler.now)
  BY <1>1 DEF Completes
<1> HIDE DEF n
<1>4. handler.now \in Nat /\ pc \in HandlerPc /\ "done" \in StepStatus
  BY <1>1 DEF HandlerRecord, HandlerPc, StepStatus
<1>5. PICK i \in HandlerRecord : handler' = i /\ i.cycle = h /\ i.pc = pc /\ i.next = n
  BY <1>1, <1>2, <1>3, <1>4, ResultEffect
<1>6. stored' = stored /\ row' = row /\ receipt' = receipt /\ starter' = starter
  BY <1>3 DEF Result, storageVars, receiptVars
<1>7. i # None /\ InHand' = {h}
  BY <1>5, IngestNone DEF InHand
<1>8. HandlerAccounts'
  <2>1. pc \in Writing
    BY DEF Writing
  <2> QED
    BY <1>2, <1>5, <1>7, <2>1 DEF HandlerAccounts, Accounts
<1>9. \A r \in InStorage : r.id = h.id => Accounts(r, faults + 1)'
  BY DEF Accounts
<1>10. i.pc \in Writing
  BY <1>5 DEF Writing
<1>11. requests'[h.id] <= MaxRequests + faults'
  BY AccountTypes
<1> QED
  BY <1>5, <1>6, <1>8, <1>9, <1>10, <1>11, WorkAccounts

\* A retrieval that fails has asked once more, or is a fault.
LEMMA RetrievalFailsAccounts ==
    ASSUME IngestInv, RequestInv, NEW h \in InHand, h.cursor \in 1 .. Len(Source), RetrievalFails,
           artifacts' = artifacts,
           \/ /\ handler.pc = "step" /\ faults' = faults /\ Lacks(h)
              /\ requests' = [requests EXCEPT ![h.id] = @ + 1]
           \/ /\ handler.pc = "persist-retrieval" /\ faults' = faults + 1
              /\ requests' = requests
    PROVE  RequestInv'
<1>1. /\ handler # None /\ handler.cycle = h /\ handler \in HandlerRecord
      /\ h \in CycleRecord /\ h.id \in Cycle /\ h.attempt \in 0 .. MaxRequests /\ h.cursor \in Cursor
      /\ h.attempt \in Nat /\ InHand = {h} /\ faults \in Nat /\ MaxRequests = 3
      /\ requests \in [Cycle -> Nat]
  BY InHandIs, AccountTypes DEF IngestInv, InHand, TypeOK
<1>2. h.attempt < MaxRequests
  BY DEF IngestInv, HandlerIsSound, Sound
<1> DEFINE attempt == h.attempt + 1
           cycle   == [h EXCEPT !.attempt = attempt]
<1>3. attempt \in 0 .. MaxRequests
  BY <1>1, <1>2
<1>4. PICK n \in CycleRecord, mark \in {"failed", "retry_wait"}, at \in Nat \cup {None} :
          /\ Result("persist", n, mark, at)
          /\ n.id = h.id /\ n.cursor = h.cursor /\ n.attempt = attempt
  <2>1. cycle \in CycleRecord /\ cycle.cursor = h.cursor /\ cycle.id = h.id /\ cycle.attempt = attempt
    <3> HIDE DEF attempt
    <3> QED
      BY <1>1, <1>3 DEF CycleRecord
  <2>2. CASE attempt >= MaxRequests
    <3> DEFINE n == Ended(cycle, "failed")
    <3>1. n \in CycleRecord /\ n.cursor = h.cursor /\ n.id = h.id /\ n.attempt = attempt
      <4> HIDE DEF cycle
      <4> QED
        BY <2>1, EndedEffect DEF CycleState
    <3>2. Result("persist", n, "failed", None)
      BY <1>1, <2>2 DEF RetrievalFails
    <3> QED
      BY <3>1, <3>2
  <2>3. CASE ~ (attempt >= MaxRequests)
    <3>1. PICK reset \in {handler.now, handler.now + 1} :
            Result("persist", [cycle EXCEPT !.state = "retry_wait", !.retryAt = reset],
                   "retry_wait", reset)
      BY <1>1, <2>3 DEF RetrievalFails
    <3>2. reset \in Nat
      BY <1>1 DEF HandlerRecord
    <3> DEFINE n == [cycle EXCEPT !.state = "retry_wait", !.retryAt = reset]
    <3>3. n \in CycleRecord /\ n.cursor = h.cursor /\ n.id = h.id /\ n.attempt = attempt
      <4> HIDE DEF cycle, attempt
      <4> QED
        BY <2>1, <3>2 DEF CycleRecord, CycleState
    <3>4. Result("persist", n, "retry_wait", reset)
      BY <3>1
    <3> HIDE DEF n, attempt
    <3> QED
      BY <3>2, <3>3, <3>4
  <2> QED
    BY <2>2, <2>3
<1>5. n.attempt = h.attempt + 1
  BY <1>4
<1> HIDE DEF attempt, cycle
<1>6. "persist" \in HandlerPc /\ mark \in StepStatus
  BY DEF HandlerPc, StepStatus
<1>7. PICK i \in HandlerRecord : /\ handler' = i /\ i.cycle = h /\ i.pc = "persist"
                                 /\ i.next = n /\ i.mark = mark
  BY <1>1, <1>4, <1>6, ResultEffect
<1>8. stored' = stored /\ row' = row /\ receipt' = receipt /\ starter' = starter
  BY <1>4 DEF Result, storageVars, receiptVars
<1>9. i # None /\ InHand' = {h}
  BY <1>7, IngestNone DEF InHand
<1>10. /\ \A d \in Cycle \ {h.id} : requests'[d] = requests[d]
       /\ \/ requests'[h.id] = requests[h.id] + 1 /\ faults' = faults /\ Lacks(h)
          \/ requests'[h.id] = 0 /\ faults' = faults + 1
       /\ handler.pc = "step" \/ requests'[h.id] = 0
       /\ faults' \in Nat
  BY <1>1 DEF RequestInv, HandlerAccounts
<1>11. handler.pc = "step" => Accounts(h, faults)
  BY DEF RequestInv, HandlerAccounts, Writing
<1>12. requests[h.id] \in Nat /\ (handler.pc = "step" => requests[h.id] <= h.attempt + faults)
  BY <1>1, <1>11 DEF Accounts
<1>13. requests'[h.id] <= MaxRequests + faults'
  BY <1>1, <1>2, <1>10, <1>12
<1>14. Accounts(n, faults)'
  <2> SUFFICES ASSUME requests'[h.id] # 0
               PROVE  Lacks(n)' /\ requests'[h.id] <= n.attempt + faults'
    BY <1>4 DEF Accounts
  <2>1. Lacks(n)'
    BY <1>4, <1>10 DEF Lacks
  <2> QED
    BY <1>1, <1>5, <1>10, <1>12, <2>1
<1>15. HandlerAccounts'
  BY <1>7, <1>9, <1>14 DEF HandlerAccounts, Writing
<1>16. ASSUME NEW r \in InStorage, r.id = h.id, ~ IsOver(r)
       PROVE  Accounts(r, faults + 1)'
  <2> SUFFICES ASSUME requests'[h.id] # 0
               PROVE  Lacks(r)' /\ requests'[h.id] <= r.attempt + (faults' + 1)
    BY <1>16 DEF Accounts
  <2>1. handler.pc \notin Writing /\ faults' = faults /\ requests'[h.id] = requests[h.id] + 1 /\ Lacks(h)
    BY <1>10 DEF Writing
  <2>2. r.attempt \in Nat /\ r.cursor = h.cursor
    BY <1>16, AccountTypes DEF IngestInv, HandlerIsAlone, InStorage
  <2>3. Accounts(r, faults)
    BY <1>1, <1>16, <2>1 DEF RequestInv, StoredAccounts
  <2>4. requests[h.id] <= r.attempt + faults
    BY <1>1, <1>16, <2>2, <2>3, <1>12 DEF Accounts
  <2>5. Lacks(r)'
    BY <1>16, <2>1, <2>2 DEF Lacks
  <2> QED
    BY <1>1, <1>12, <2>1, <2>2, <2>4, <2>5
<1>17. i.pc \in Writing
  BY <1>7 DEF Writing
<1>18. \A k \in 1 .. Len(Source) :
              receipt[h.id][k] = "done" => Steps[k + 1] \in artifacts'[h.id]
  BY <1>1 DEF RequestInv, ReceiptsHaveArtifacts
<1> QED
  BY <1>7, <1>8, <1>10, <1>13, <1>15, <1>16, <1>17, <1>18, WorkAccounts

\* A step that goes on to a second await.
LEMMA GoesOnAccounts ==
    ASSUME IngestInv, RequestInv, NEW pc \in {"step", "write-manifest", "confirm"},
           handler # None, handler.pc \notin Writing,
           handler' = [handler EXCEPT !.pc = pc],
           UNCHANGED <<stored, receiptVars, sourceVars, starter, faults>>
    PROVE  RequestInv'
<1> PICK h \in InHand : h = handler.cycle
  BY HandlerInHand DEF IngestInv
<1>1. handler \in HandlerRecord /\ pc \in HandlerPc /\ InHand = {h} /\ pc \notin Writing
  BY DEF IngestInv, TypeOK, HandlerPc, InHand, Writing
<1>2. PICK i : i = [handler EXCEPT !.pc = pc]
  OBVIOUS
<1>3. i \in HandlerRecord /\ i.cycle = h /\ i.pc = pc /\ handler' = i /\ i # None
  BY <1>1, <1>2, IngestNone DEF HandlerRecord
<1>4. /\ stored' = stored /\ row' = row /\ receipt' = receipt /\ starter' = starter
      /\ requests' = requests /\ artifacts' = artifacts /\ faults' = faults
  BY DEF receiptVars, sourceVars
<1>5. h.id \in Cycle
  BY AccountTypes
<1>6. requests'[h.id] <= MaxRequests + faults'
  BY <1>4, <1>5 DEF RequestInv, RequestTotals
<1>7. Accounts(h, faults)' /\ InHand' = {h}
  BY <1>1, <1>3, <1>4 DEF RequestInv, HandlerAccounts, Accounts, Lacks, InHand
<1>8. HandlerAccounts'
  BY <1>1, <1>3, <1>7 DEF HandlerAccounts, Writing
<1>9. \A r \in InStorage : r.id = h.id /\ ~ IsOver(r) =>
              Accounts(r, faults + 1)' /\ Accounts(r, faults)'
  BY <1>1, <1>4 DEF RequestInv, StoredAccounts, Accounts, Lacks
<1>10. \A k \in 1 .. Len(Source) :
              receipt[h.id][k] = "done" => Steps[k + 1] \in artifacts'[h.id]
  BY <1>4, <1>5 DEF RequestInv, ReceiptsHaveArtifacts
<1> QED
  BY <1>3, <1>4, <1>6, <1>8, <1>9, <1>10, WorkAccounts
-----------------------------------------------------------------------------
\* A cycle that does not lack the artifact of its step owes no request.
LEMMA NothingAsked ==
    ASSUME RequestInv, NEW h \in InHand, handler.pc \notin Writing, ~ Lacks(h)
    PROVE  requests[h.id] = 0
BY DEF RequestInv, HandlerAccounts, Accounts

\* A step that is not run again has nothing left to ask for.
LEMMA ReplayAccounts ==
    ASSUME IngestInv, RequestInv, Replay
    PROVE  RequestInv'
<1> PICK h \in InHand : TRUE
  BY HandlerInHand DEF IngestInv, Replay, At
<1> DEFINE c == h.id
<1>1. /\ handler.pc = "replay" /\ handler.cycle = h /\ handler # None /\ handler \in HandlerRecord
      /\ h \in CycleRecord /\ c \in Cycle /\ handler.pc \notin Writing /\ InHand = {h}
  BY InHandIs DEF IngestInv, Replay, At, Writing, InHand
<1>2. UNCHANGED <<stored, receiptVars, sourceVars, starter, faults>>
  BY DEF Replay, storageVars
<1>3. CASE receipt[c][h.cursor] # "done"
  BY <1>1, <1>2, <1>3, GoesOnAccounts DEF Replay
<1>4. CASE receipt[c][h.cursor] = "done"
  <2>1. PICK r \in CycleRecord : r = row[c] /\ r # None /\ r.id = c
    BY <1>1 DEF IngestInv, HandlerIsAlone, TypeOK, RowsAreSound
  <2>2. PICK at : at = IF IsOver(r) THEN None ELSE handler.now
    OBVIOUS
  <2>3. at \in Nat \cup {None}
    BY <1>1, <2>2 DEF HandlerRecord
  <2>4. PICK i : i = [handler EXCEPT !.pc = "put", !.next = r, !.alarmAt = at]
    OBVIOUS
  <2>5. handler' = i
    BY <1>1, <1>4, <2>1, <2>2, <2>4 DEF Replay
  <2>6. i \in HandlerRecord /\ i.cycle = h /\ i.pc = "put" /\ i.next = r /\ i # None
    BY <1>1, <2>1, <2>3, <2>4, IngestNone DEF HandlerRecord, HandlerPc
  <2>7. ~ Lacks(h)
    BY <1>1, <1>4 DEF RequestInv, ReceiptsHaveArtifacts, Lacks, IsSource
  <2>8. requests[c] = 0
    BY <1>1, <2>7, NothingAsked
  <2>9. /\ stored' = stored /\ row' = row /\ receipt' = receipt /\ starter' = starter
        /\ requests' = requests /\ artifacts' = artifacts /\ faults' = faults
    BY <1>2 DEF receiptVars, sourceVars
  <2>10. InHand' = {h} /\ HandlerAccounts'
    BY <2>1, <2>5, <2>6, <2>8, <2>9 DEF InHand, HandlerAccounts, Accounts, Writing
  <2>11. \A q \in InStorage : q.id = c => Accounts(q, faults + 1)'
    BY <2>8, <2>9 DEF Accounts
  <2>12. i.pc \in Writing /\ requests'[c] <= MaxRequests + faults'
    BY <2>6, <2>8, <2>9, AccountTypes DEF Writing
  <2>13. \A k \in 1 .. Len(Source) :
              receipt[c][k] = "done" => Steps[k + 1] \in artifacts'[c]
    BY <1>1, <2>9 DEF RequestInv, ReceiptsHaveArtifacts
  <2> QED
    BY <2>5, <2>6, <2>9, <2>10, <2>11, <2>12, <2>13, WorkAccounts
<1> QED
  BY <1>3, <1>4

\* alarm()'s catch block ends the cycle in storage, and asks for nothing.
LEMMA CatchAccounts ==
    ASSUME IngestInv, RequestInv, handler # None, Catch, faults' = faults \/ faults' = faults + 1
    PROVE  RequestInv'
<1> PICK h \in InHand : h = handler.cycle
  BY HandlerInHand DEF IngestInv
<1>1. h \in CycleRecord /\ handler \in HandlerRecord /\ InHand = {h} /\ faults \in Nat
      /\ \A c \in Cycle : requests[c] \in Nat
  BY AccountTypes DEF InHand, IngestInv, TypeOK
<1>2. PICK n \in CycleRecord : n = Ended(h, "failed") /\ n.state = "failed" /\ n # None
  BY <1>1, EndedEffect, IngestNone DEF CycleState
<1>3. /\ stored' = n /\ handler' = [handler EXCEPT !.pc = "fail-row", !.next = n]
      /\ row' = row /\ receipt' = receipt /\ requests' = requests /\ artifacts' = artifacts
      /\ starter' = starter
  BY <1>2 DEF Catch, receiptVars, sourceVars
<1>4. PICK i : i = [handler EXCEPT !.pc = "fail-row", !.next = n]
  OBVIOUS
<1>5. i \in HandlerRecord /\ i.cycle = h /\ i.pc = "fail-row" /\ i.next = n /\ i # None /\ handler' = i
  BY <1>1, <1>2, <1>3, <1>4, IngestNone DEF HandlerRecord, HandlerPc
<1>6. InHand' = {h} /\ InStorage' = {n} /\ IsOver(n)
  BY <1>2, <1>3, <1>5 DEF InHand, InStorage, IsOver
<1>7. StoredAccounts' /\ HandlerAccounts'
  BY <1>5, <1>6 DEF StoredAccounts, HandlerAccounts, Writing
<1>8. RequestTotals'
  BY <1>1, <1>3, AccountTypes DEF RequestInv, RequestTotals
<1>9. BegunAsksNothing' /\ ReceiptsHaveArtifacts'
  BY <1>3 DEF RequestInv, BegunAsksNothing, Begun, ReceiptsHaveArtifacts
<1> QED
  BY <1>7, <1>8, <1>9 DEF RequestInv

\* Each step of the cycle asks at most once, and accounts for it.
LEMMA StepsAccount ==
    ASSUME IngestInv, RequestInv,
           \/ Acquire \/ Retrieve \/ PrepareManual
           \/ Stage \/ StageManifest \/ Validate \/ Publish \/ ConfirmPublication
    PROVE  RequestInv'
<1> PICK h \in InHand : h = handler.cycle /\ handler # None
                        /\ handler.pc \in {"step", "write-manifest", "confirm"}
  BY HandlerInHand DEF IngestInv, Acquire, Retrieve, PrepareManual, Stage, StageManifest,
     Validate, Publish, ConfirmPublication, InStep, At
<1> DEFINE c == h.id
<1>1. /\ h \in CycleRecord /\ c \in Cycle /\ h.cursor \in Cursor /\ handler.pc \notin Writing
      /\ TypeOK
  BY StepFacts DEF Writing
<1>2. Len(Source) \in Nat /\ h.cursor \in Nat
  BY <1>1, StepsShape
<1>3. ASSUME Throw PROVE RequestInv'
  BY <1>3, CatchAccounts DEF Throw
<1>4. \A k \in 1 .. Len(Source) : receipt[c][k] = "done" => Steps[k + 1] \in artifacts[c]
  BY <1>1 DEF RequestInv, ReceiptsHaveArtifacts
<1>5. ASSUME NEW pc \in {"persist", "persist-retrieval"},
             NEW state \in {"running", "ready_to_publish", "published"},
             Completes(pc, state), h.cursor > Len(Source), h.cursor < Len(Source) + 5,
             faults' = faults, requests' = requests,
             \A d \in Cycle \ {c} : artifacts'[d] = artifacts[d],
             artifacts[c] \subseteq artifacts'[c]
      PROVE  RequestInv'
  <2>1. ~ IsSource(h.cursor)
    BY <1>2, <1>5 DEF IsSource
  <2>2. requests'[c] = 0
    BY <1>1, <1>5, <2>1, NothingAsked DEF Lacks
  <2>3. \A k \in 1 .. Len(Source) : receipt[c][k] = "done" => Steps[k + 1] \in artifacts'[c]
    BY <1>4, <1>5
  <2> QED
    BY <1>5, <2>1, <2>2, <2>3, CompletesAccounts
<1>6. CASE Acquire
  <2>1. h.cursor = 0 /\ ~ IsSource(h.cursor) /\ h.cursor < Len(Source) + 5
    BY <1>1, <1>2, <1>6, StepAt DEF Acquire, InStep, Phase, IsSource
  <2>2. Completes("persist", "running") /\ artifacts' = [artifacts EXCEPT ![c] = {}]
        /\ requests' = requests /\ faults' = faults
    BY <1>6 DEF Acquire
  <2>3. requests'[c] = 0
    BY <1>1, <2>1, <2>2, NothingAsked DEF Lacks
  <2>4. \A k \in 1 .. Len(Source) : receipt[c][k] # "done"
    <3>1. Marked(c, 0) /\ \A k \in 1 .. Len(Source) : k \in Cursor /\ ~ (k <= 0)
      BY <2>1, StepsShape DEF IngestInv, HandlerIsSound, Stands
    <3> QED
      BY <3>1 DEF Marked
  <2>5. \A d \in Cycle \ {c} : requests'[d] = requests[d] /\ artifacts'[d] = artifacts[d]
    BY <1>1, <2>2 DEF TypeOK
  <2> QED
    BY <2>1, <2>2, <2>3, <2>4, <2>5, CompletesAccounts
<1>7. CASE Retrieve
  <2> DEFINE artifact == Steps[h.cursor + 1]
  <2>1. h.cursor \in 1 .. Len(Source) /\ IsSource(h.cursor) /\ h.cursor < Len(Source) + 5
    BY <1>1, <1>2, <1>7, StepAt DEF Retrieve, Phase, IsSource
  <2>2. CASE Throw
    BY <1>3, <2>2
  <2>3. CASE RetrieveArtifact(c, artifact) /\ faults' = faults
    <3>1. CASE artifact \in artifacts[c] /\ Completes("persist", "running") /\ UNCHANGED sourceVars
      <4>1. requests' = requests /\ artifacts' = artifacts
        BY <3>1 DEF sourceVars
      <4>2. requests'[c] = 0
        BY <1>1, <3>1, <4>1, NothingAsked DEF Lacks
      <4> QED
        BY <1>4, <2>1, <2>3, <3>1, <4>1, <4>2, CompletesAccounts
    <3>2. CASE /\ StoreArtifact(c, artifact) /\ requests' = [requests EXCEPT ![c] = 0]
               /\ Completes("persist-retrieval", "running")
      <4>1. artifacts' = [artifacts EXCEPT ![c] = @ \cup {artifact}]
        BY <3>2 DEF StoreArtifact
      <4>2. /\ requests'[c] = 0 /\ artifact \in artifacts'[c] /\ artifacts[c] \subseteq artifacts'[c]
            /\ \A d \in Cycle \ {c} : requests'[d] = requests[d] /\ artifacts'[d] = artifacts[d]
        BY <1>1, <3>2, <4>1 DEF TypeOK
      <4>3. \A k \in 1 .. Len(Source) : receipt[c][k] = "done" => Steps[k + 1] \in artifacts'[c]
        BY <1>4, <4>2
      <4> QED
        BY <2>1, <2>3, <3>2, <4>2, <4>3, CompletesAccounts
    <3>3. CASE /\ artifact \notin artifacts[c]
               /\ requests' = [requests EXCEPT ![c] = @ + 1] /\ RetrievalFails
               /\ UNCHANGED <<artifacts, differs>>
      <4>1. Lacks(h) /\ handler.pc = "step"
        BY <1>7, <2>1, <3>3 DEF Lacks, Retrieve, At
      <4> QED
        BY <2>1, <2>3, <3>3, <4>1, RetrievalFailsAccounts
    <3> QED
      BY <2>3, <3>1, <3>2, <3>3 DEF RetrieveArtifact
  <2> QED
    BY <1>7, <2>2, <2>3 DEF Retrieve, Phase
<1>8. CASE PrepareManual
  <2>1. h.cursor > Len(Source) /\ h.cursor < Len(Source) + 5
    BY <1>1, <1>2, <1>8, StepAt DEF PrepareManual, InStep, Phase
  <2>2. CASE Throw
    BY <1>3, <2>2
  <2>3. CASE PrepareArtifact(c)
    <3>1. /\ Completes("persist", "running") /\ faults' = faults /\ requests' = requests
          /\ artifacts' = artifacts
             \/ artifacts' = [artifacts EXCEPT ![c] = @ \cup {"prepare-manual"}]
      BY <2>3 DEF PrepareArtifact, StoreArtifact
    <3>2. artifacts[c] \subseteq artifacts'[c] /\ \A d \in Cycle \ {c} : artifacts'[d] = artifacts[d]
      BY <1>1, <3>1 DEF TypeOK
    <3> QED
      BY <1>5, <2>1, <3>1, <3>2
  <2> QED
    BY <1>8, <2>2, <2>3 DEF PrepareManual
<1>9. CASE Stage
  BY <1>1, <1>3, <1>9, GoesOnAccounts DEF Stage, storageVars
<1>10. CASE StageManifest
  <2>1. h.cursor > Len(Source) /\ h.cursor < Len(Source) + 5
    BY <1>2, <1>10, StepsShape DEF StageManifest, At, IngestInv, StepIsNotDone, StageCursor
  <2>2. Completes("persist", "running") /\ UNCHANGED <<sourceVars, faults>>
    BY <1>10 DEF StageManifest
  <2> QED
    BY <1>5, <2>1, <2>2 DEF sourceVars
<1>11. CASE Validate
  <2>1. h.cursor > Len(Source) /\ h.cursor < Len(Source) + 5
    BY <1>1, <1>2, <1>11, StepAt DEF Validate, InStep, Phase
  <2>2. Throw \/ (Completes("persist", "ready_to_publish") /\ UNCHANGED <<sourceVars, faults>>)
    BY <1>11 DEF Validate
  <2> QED
    BY <1>3, <1>5, <2>1, <2>2 DEF sourceVars
<1>12. CASE Publish
  BY <1>1, <1>3, <1>12, GoesOnAccounts DEF Publish, storageVars
<1>13. CASE ConfirmPublication
  <2>1. h.cursor > Len(Source) /\ h.cursor < Len(Source) + 5
    BY <1>2, <1>13, StepsShape DEF ConfirmPublication, At, IngestInv, StepIsNotDone, PublishCursor
  <2>2. Throw \/ (Completes("persist", "published") /\ UNCHANGED <<sourceVars, faults>>)
    BY <1>13 DEF ConfirmPublication
  <2> QED
    BY <1>3, <1>5, <2>1, <2>2 DEF sourceVars
<1> QED
  BY <1>6, <1>7, <1>8, <1>9, <1>10, <1>11, <1>12, <1>13

\* persistStep and receiptStep: the accounts of the handler's record stand.
LEMMA PersistAccounts ==
    ASSUME IngestInv, RequestInv, Persist \/ Receipt
    PROVE  RequestInv'
<1> PICK h \in InHand : h = handler.cycle /\ handler # None
  BY HandlerInHand DEF IngestInv, Persist, Receipt, InStep, At
<1> DEFINE c == h.id
           k == h.cursor
<1>1. /\ handler \in HandlerRecord /\ h \in CycleRecord /\ c \in Cycle /\ k \in Cursor
      /\ InHand = {h} /\ TypeOK /\ row[c] # None
  BY InHandIs DEF IngestInv, InHand, HandlerIsAlone
<1>2. CASE Receipt /\ ~ HasFinal(c)
  BY <1>2, CatchAccounts DEF Receipt, Throw
<1>3. ASSUME NEW mark \in StepStatus, NEW n \in CycleRecord, NEW r, r # None,
             mark = "done" /\ IsSource(k) => Steps[k + 1] \in artifacts[c],
             ~ IsOver(n) => Accounts(n, faults),
             receipt' = [receipt EXCEPT ![c][k] = mark],
             row' = [row EXCEPT ![c] = r],
             handler' = [handler EXCEPT !.pc = "put", !.next = n],
             UNCHANGED <<storageVars, sourceVars, starter, faults>>
      PROVE  RequestInv'
  <2>1. PICK i : i = [handler EXCEPT !.pc = "put", !.next = n]
    OBVIOUS
  <2>2. /\ i \in HandlerRecord /\ i.cycle = h /\ i.pc = "put" /\ i.next = n /\ i # None
        /\ handler' = i
    BY <1>1, <1>3, <2>1, IngestNone DEF HandlerRecord, HandlerPc
  <2>3. /\ stored' = stored /\ requests' = requests /\ artifacts' = artifacts
        /\ starter' = starter /\ faults' = faults
    BY <1>3 DEF storageVars, sourceVars
  <2>4. InHand' = {h} /\ InStorage' = InStorage /\ "put" \in Writing
    BY <2>2, <2>3 DEF InHand, InStorage, Writing
  <2>5. HandlerAccounts'
    BY <1>3, <2>2, <2>3, <2>4 DEF HandlerAccounts, Accounts, Lacks, Writing
  <2>6. StoredAccounts'
    <3>1. \A q \in InStorage : ~ IsOver(q) => Accounts(q, faults + 1)
      BY DEF RequestInv, StoredAccounts
    <3>2. \A q \in InStorage : ~ IsOver(q) /\ q.id # c => Accounts(q, faults)
      BY <1>1 DEF RequestInv, StoredAccounts
    <3> QED
      BY <2>2, <2>3, <2>4, <3>1, <3>2 DEF StoredAccounts, Accounts, Lacks
  <2>7. /\ \A d \in Cycle : row'[d] = None => row[d] = None
        /\ \A d \in Cycle \ {c} : receipt'[d] = receipt[d]
        /\ receipt'[c][k] = mark /\ \A j \in Cursor \ {k} : receipt'[c][j] = receipt[c][j]
    BY <1>1, <1>3 DEF TypeOK
  <2>8. RequestTotals' /\ BegunAsksNothing'
    BY <2>3, <2>7 DEF RequestInv, RequestTotals, BegunAsksNothing, Begun
  <2>9. ReceiptsHaveArtifacts'
    <3>1. \A j \in 1 .. Len(Source) : j \in Cursor
      BY StepsShape
    <3> SUFFICES ASSUME NEW d \in Cycle, NEW j \in 1 .. Len(Source), receipt'[d][j] = "done"
                 PROVE  Steps[j + 1] \in artifacts[d]
      BY <2>3 DEF ReceiptsHaveArtifacts
    <3>2. CASE d = c /\ j = k
      BY <1>3, <2>7, <3>2 DEF IsSource
    <3>3. CASE ~ (d = c /\ j = k)
      BY <2>7, <3>1, <3>3 DEF RequestInv, ReceiptsHaveArtifacts
    <3> QED
      BY <3>2, <3>3
  <2> QED
    BY <2>5, <2>6, <2>8, <2>9 DEF RequestInv
<1>4. CASE Persist
  <2>1. PICK n \in CycleRecord : n = handler.next /\ n # None /\ n.id = c
    BY <1>1, <1>4 DEF Persist, At, IngestInv, NextIsSound, HandlerRecord
  <2>2. PICK mark \in StepStatus : mark = handler.mark
    BY <1>1 DEF HandlerRecord
  <2>3. /\ receipt' = [receipt EXCEPT ![c][k] = mark] /\ row' = [row EXCEPT ![c] = n]
        /\ handler' = [handler EXCEPT !.pc = "put"]
        /\ UNCHANGED <<storageVars, sourceVars, starter, faults>>
    BY <1>4, <2>1, <2>2 DEF Persist
  <2>4. [handler EXCEPT !.pc = "put"] = [handler EXCEPT !.pc = "put", !.next = n]
    BY <1>1, <2>1 DEF HandlerRecord
  <2>5. /\ mark = "done" /\ IsSource(k) => Steps[k + 1] \in artifacts[c]
        /\ ~ IsOver(n) => Accounts(n, faults)
    BY <1>4, <2>1, <2>2 DEF Persist, At, RequestInv, HandlerAccounts, Writing
  <2> QED
    BY <1>3, <2>1, <2>3, <2>4, <2>5
<1>5. CASE Receipt /\ HasFinal(c)
  <2>1. k = Len(Source) + 5 /\ handler.pc = "step" /\ ~ IsSource(k)
    BY <1>1, <1>5, StepAt, StepsShape DEF Receipt, InStep, At, Phase, IsSource
  <2>2. PICK r : r = Ended(row[c], "published") /\ r # None
    BY <1>1, EndedEffect, IngestNone DEF TypeOK, CycleState
  <2>3. /\ receipt' = [receipt EXCEPT ![c][k] = "done"] /\ row' = [row EXCEPT ![c] = r]
        /\ handler' = [handler EXCEPT !.pc = "put", !.next = h]
        /\ UNCHANGED <<storageVars, sourceVars, starter, faults>>
    BY <1>5, <2>2 DEF Receipt
  <2>4. Accounts(h, faults) /\ "done" \in StepStatus
    BY <2>1 DEF RequestInv, HandlerAccounts, Writing, StepStatus
  <2> QED
    BY <1>1, <1>3, <2>1, <2>2, <2>3, <2>4
<1> QED
  BY <1>2, <1>4, <1>5
-----------------------------------------------------------------------------
\* Nothing is asked for, and no row is removed: a fault pays for one request.
LEMMA QuietAccounts ==
    ASSUME IngestInv, RequestInv, UNCHANGED <<receipt, requests, artifacts>>,
           faults' = faults \/ faults' = faults + 1,
           \A c \in Cycle : row[c] # None => row'[c] # None
    PROVE  /\ RequestTotals' /\ ReceiptsHaveArtifacts'
           /\ \A r \in CycleRecord :
                 /\ Accounts(r, faults) => Accounts(r, faults)'
                 /\ Accounts(r, faults + 1) => Accounts(r, faults + 1)'
                 /\ faults' = faults + 1 /\ Accounts(r, faults + 1) => Accounts(r, faults)'
<1>1. faults \in Nat /\ MaxRequests = 3 /\ \A c \in Cycle : requests[c] \in Nat
  BY AccountTypes
<1>2. RequestTotals'
  BY <1>1 DEF RequestInv, RequestTotals
<1>3. ReceiptsHaveArtifacts'
  BY DEF RequestInv, ReceiptsHaveArtifacts
<1>4. ASSUME NEW r \in CycleRecord
      PROVE  /\ Accounts(r, faults) => Accounts(r, faults)'
             /\ Accounts(r, faults + 1) => Accounts(r, faults + 1)'
             /\ faults' = faults + 1 /\ Accounts(r, faults + 1) => Accounts(r, faults)'
  <2>1. r.id \in Cycle /\ r.attempt \in Nat
    BY <1>1 DEF CycleRecord
  <2>2. requests[r.id] \in Nat
    BY <1>1, <2>1
  <2>3. Lacks(r)' <=> Lacks(r)
    BY DEF Lacks
  <2> QED
    BY <1>1, <2>1, <2>2, <2>3 DEF Accounts
<1> QED
  BY <1>2, <1>3, <1>4

\* The records in storage and in hand are records of cycles.
LEMMA KeptRecords ==
    ASSUME IngestInv
    PROVE  /\ \A r \in InStorage \cup InHand : r \in CycleRecord
           /\ handler # None => handler.next \in CycleRecord \cup {None}
BY DEF IngestInv, TypeOK, InStorage, InHand, HandlerRecord

\* The tail of alarm(): storage catches up with the handler.
LEMMA PutAccounts ==
    ASSUME IngestInv, RequestInv, Put
    PROVE  RequestInv'
<1> PICK h \in InHand : h = handler.cycle /\ handler # None /\ handler.pc = "put"
  BY HandlerInHand DEF IngestInv, Put, At
<1>1. PICK n \in CycleRecord : n = handler.next /\ n # None
  BY KeptRecords DEF IngestInv, NextIsSound
<1>2. /\ stored' = n /\ handler' = None /\ starter' = starter /\ faults' = faults
      /\ row' = row /\ UNCHANGED <<receipt, requests, artifacts>>
  BY <1>1 DEF Put, receiptVars, sourceVars
<1>3. RequestTotals' /\ ReceiptsHaveArtifacts' /\ (Accounts(n, faults) => Accounts(n, faults)')
  BY <1>2, QuietAccounts
<1>4. InHand' = {} /\ InStorage' = {n}
  BY <1>1, <1>2 DEF InHand, InStorage
<1>5. ~ IsOver(n) => Accounts(n, faults)'
  BY <1>1, <1>3 DEF RequestInv, HandlerAccounts, Writing
<1>6. Accounts(n, faults)' => Accounts(n, faults + 1)'
  <2>1. /\ faults' \in Nat /\ n.attempt \in Nat /\ n.id \in Cycle
        /\ \A c \in Cycle : requests'[c] \in Nat
    BY <1>2, AccountTypes DEF CycleRecord
  <2>2. requests'[n.id] \in Nat
    BY <2>1
  <2> QED
    BY <2>1, <2>2 DEF Accounts
<1>7. StoredAccounts' /\ HandlerAccounts'
  BY <1>4, <1>5, <1>6 DEF StoredAccounts, HandlerAccounts
<1>8. BegunAsksNothing'
  BY <1>2 DEF RequestInv, BegunAsksNothing, Begun
<1> QED
  BY <1>3, <1>7, <1>8 DEF RequestInv

\* The coordinator is interrupted: a fault, unless it had nothing to write.
LEMMA IdleAccounts ==
    ASSUME IngestInv, RequestInv, UNCHANGED <<stored, receipt, requests, artifacts>>,
           faults' = faults \/ faults' = faults + 1,
           \A c \in Cycle : row[c] # None => row'[c] # None,
           \A s \in Starter : Begun(s)' \subseteq Begun(s),
           \/ handler' = handler
           \/ handler' = None /\ (handler.pc = "fail-row" \/ faults' = faults + 1)
    PROVE  RequestInv'
<1>1. /\ RequestTotals' /\ ReceiptsHaveArtifacts'
      /\ \A r \in CycleRecord :
            /\ Accounts(r, faults) => Accounts(r, faults)'
            /\ Accounts(r, faults + 1) => Accounts(r, faults + 1)'
            /\ faults' = faults + 1 /\ Accounts(r, faults + 1) => Accounts(r, faults)'
  BY QuietAccounts
<1>2. BegunAsksNothing'
  BY DEF RequestInv, BegunAsksNothing
<1>3. InStorage' = InStorage
  BY DEF InStorage
<1>4. CASE handler' = handler
  <2>1. InHand' = InHand
    BY <1>4 DEF InHand
  <2>2. StoredAccounts'
    BY <1>1, <1>3, <1>4, <2>1, KeptRecords DEF RequestInv, StoredAccounts
  <2>3. HandlerAccounts'
    <3> SUFFICES ASSUME NEW h \in InHand
                 PROVE  /\ handler.pc \notin Writing => Accounts(h, faults)'
                        /\ \A n \in {handler.next} :
                              handler.pc \in Writing /\ ~ IsOver(n) => Accounts(n, faults)'
      BY <1>3, <1>4, <2>1 DEF RequestInv, HandlerAccounts
    <3>1. handler # None /\ h \in CycleRecord
      BY KeptRecords DEF InHand
    <3>2. handler.pc \in Writing => handler.next \in CycleRecord
      BY <3>1, KeptRecords DEF IngestInv, NextIsSound, Writing
    <3> QED
      BY <1>1, <3>1, <3>2 DEF RequestInv, HandlerAccounts
  <2> QED
    BY <1>1, <1>2, <2>2, <2>3 DEF RequestInv
<1>5. CASE handler' = None /\ (handler.pc = "fail-row" \/ faults' = faults + 1)
  <2>1. InHand' = {}
    BY <1>5 DEF InHand
  <2>2. ASSUME NEW r \in InStorage, ~ IsOver(r)
        PROVE  Accounts(r, faults + 1)' /\ Accounts(r, faults)'
    <3>1. r \in CycleRecord /\ Accounts(r, faults + 1)
      BY <2>2, KeptRecords DEF RequestInv, StoredAccounts
    <3>2. handler.pc = "fail-row" => Accounts(r, faults)
      BY <2>2 DEF RequestInv, StoredAccounts, HandlerAccounts
    <3> QED
      BY <1>1, <1>5, <3>1, <3>2
  <2>3. StoredAccounts' /\ HandlerAccounts'
    BY <1>3, <2>1, <2>2 DEF StoredAccounts, HandlerAccounts
  <2> QED
    BY <1>1, <1>2, <2>3 DEF RequestInv
<1> QED
  BY <1>4, <1>5

\* alarm() starts with the cycle in storage, for which nobody else is writing.
LEMMA DeliverAccounts ==
    ASSUME IngestInv, RequestInv, NEW pending, Deliver(pending),
           faults' = faults \/ faults' = faults + 1
    PROVE  RequestInv'
<1>1. /\ handler = None /\ stored' = stored /\ row' = row /\ starter' = starter
      /\ UNCHANGED <<receipt, requests, artifacts>> /\ TypeOK
  BY DEF Deliver, receiptVars, sourceVars, IngestInv
<1>2. CASE stored = None \/ IsOver(stored)
  <2>1. handler' = handler
    BY <1>1, <1>2 DEF Deliver
  <2> QED
    BY <1>1, <2>1, IdleAccounts DEF Begun
<1>3. CASE stored # None /\ ~ IsOver(stored)
  <2>1. PICK r \in CycleRecord : r = stored /\ r # None /\ ~ IsOver(r) /\ Sound(r) /\ InStorage = {r}
    BY <1>1, <1>3 DEF InStorage, TypeOK, IngestInv, StoredIsSound
  <2>2. PICK i \in HandlerRecord :
              /\ FirstCall = i
              /\ i.cycle.id = r.id /\ i.cycle.cursor = r.cursor
              /\ i.cycle.attempt = r.attempt
              /\ \/ i.pc = "replay"
                 \/ i.pc = "put" /\ i.next = r
                 \/ i.pc = "persist" /\ i.mark = "failed" /\ i.next.state = "expired"
    BY <1>1, <2>1, FirstCallIs
  <2>3. handler' = i /\ i # None /\ InHand' = {i.cycle} /\ InStorage' = {r}
    BY <1>1, <1>3, <2>1, <2>2, IngestNone DEF Deliver, InHand, InStorage
  <2>4. /\ RequestTotals' /\ ReceiptsHaveArtifacts'
        /\ Accounts(r, faults) => Accounts(r, faults)'
        /\ Accounts(r, faults + 1) => Accounts(r, faults + 1)'
    BY <1>1, QuietAccounts
  <2>5. InHand = {}
    BY <1>1 DEF InHand
  <2>6. Accounts(r, faults)' /\ Accounts(r, faults + 1)'
    BY <2>1, <2>4, <2>5 DEF RequestInv, StoredAccounts
  <2>7. Accounts(i.cycle, faults)'
    BY <2>2, <2>6 DEF Accounts, Lacks
  <2>8. IsOver(i.next) \/ i.pc # "persist"
    BY <2>2 DEF IsOver
  <2>9. HandlerAccounts'
    BY <2>2, <2>3, <2>6, <2>7, <2>8 DEF HandlerAccounts, Writing
  <2>10. StoredAccounts'
    BY <2>3, <2>6 DEF StoredAccounts
  <2>11. BegunAsksNothing'
    BY <1>1 DEF RequestInv, BegunAsksNothing, Begun
  <2> QED
    BY <2>4, <2>9, <2>10, <2>11 DEF RequestInv
<1> QED
  BY <1>2, <1>3

\* start() brings in cycles for which nothing has been asked.
LEMMA StarterAccounts ==
    ASSUME IngestInv, RequestInv, NEW s \in Starter, StarterNext(s)
    PROVE  RequestInv'
<1>1. TypeOK /\ \A c \in Cycle : row[c] \in CycleRecord \cup {None}
  BY DEF IngestInv, TypeOK
<1>2. ASSUME NEW c, NEW n \in CycleRecord, row' = [row EXCEPT ![c] = n]
      PROVE  \A d \in Cycle : row[d] # None => row'[d] # None
  BY <1>1, <1>2, IngestNone DEF TypeOK
<1>3. CASE StartBegin(s)
  <2>1. /\ UNCHANGED <<receipt, requests, artifacts>> /\ stored' = stored /\ row' = row
        /\ handler' = handler /\ faults' = faults
    BY <1>3 DEF StartBegin, storageVars, receiptVars, sourceVars
  <2>2. PICK x : /\ x.id \in Cycle /\ row[x.id] = None
                 /\ starter' = [starter EXCEPT ![s] = x]
    <3>1. PICK c \in Cycle, pc \in {"expire", "insert"} :
              /\ FreshId(c)
              /\ starter' = [starter EXCEPT ![s] =
                               [pc |-> pc, at |-> clock, existing |-> stored, id |-> c]]
      BY <1>3 DEF StartBegin
    <3>2. PICK x : x = [pc |-> pc, at |-> clock, existing |-> stored, id |-> c]
      OBVIOUS
    <3> QED
      BY <3>1, <3>2 DEF FreshId
  <2>3. requests[x.id] = 0
    BY <2>2 DEF RequestInv, RequestTotals
  <2>4. BegunAsksNothing'
    <3>1. starter'[s] = x /\ \A t \in Starter \ {s} : starter'[t] = starter[t]
      BY <1>1, <2>2 DEF TypeOK
    <3> QED
      BY <2>1, <2>3, <3>1 DEF RequestInv, BegunAsksNothing, Begun
  <2>5. InHand' = InHand /\ InStorage' = InStorage
    BY <2>1 DEF InHand, InStorage
  <2> QED
    BY <2>1, <2>4, <2>5 DEF RequestInv, RequestTotals, ReceiptsHaveArtifacts, StoredAccounts,
                            HandlerAccounts, Accounts, Lacks
<1>4. ASSUME NEW c, NEW n \in CycleRecord, row' = [row EXCEPT ![c] = n],
             starter' = [starter EXCEPT ![s] = starter'[s]],
             starter'[s].id = starter[s].id, starter[s] # None,
             UNCHANGED <<stored, receipt, requests, artifacts, handler, faults>>
      PROVE  RequestInv'
  <2>1. \A t \in Starter \ {s} : starter'[t] = starter[t]
    BY <1>1, <1>4 DEF TypeOK
  <2>2. BegunAsksNothing'
    <3> SUFFICES ASSUME NEW t \in Starter, NEW x \in Begun(t)'
                 PROVE  requests[x.id] = 0
      BY <1>4 DEF BegunAsksNothing
    <3>1. starter[t] # None /\ starter[t].id = x.id
      BY <1>4, <2>1 DEF Begun
    <3> QED
      BY <3>1 DEF RequestInv, BegunAsksNothing, Begun
  <2>3. /\ RequestTotals' /\ ReceiptsHaveArtifacts'
    BY <1>2, <1>4, QuietAccounts
  <2>4. InHand' = InHand /\ InStorage' = InStorage
    BY <1>4 DEF InHand, InStorage
  <2>5. StoredAccounts' /\ HandlerAccounts'
    BY <1>4, <2>4 DEF RequestInv, StoredAccounts, HandlerAccounts, Accounts, Lacks
  <2> QED
    BY <2>2, <2>3, <2>5 DEF RequestInv
<1>5. CASE StartExpire(s)
  <2>1. PICK x \in StarterRecord : /\ x = starter[s] /\ x # None
                                   /\ x.existing # None /\ x.existing \in CycleRecord
    BY <1>1, <1>5, StarterIs DEF StartExpire, Starting, IngestInv, StartersAreSound, FoundIsSound, StarterRecord
  <2>2. PICK n \in CycleRecord : n = Ended(x.existing, "expired")
    BY <2>1, EndedEffect DEF CycleState
  <2>3. /\ row' = [row EXCEPT ![x.existing.id] = n]
        /\ starter' = [starter EXCEPT ![s].pc = "insert"]
        /\ UNCHANGED <<stored, receipt, requests, artifacts, handler, faults>>
    BY <1>5, <2>1, <2>2 DEF StartExpire, storageVars, sourceVars
  <2>4. starter' = [starter EXCEPT ![s] = starter'[s]] /\ starter'[s].id = starter[s].id
    BY <1>1, <2>1, <2>3 DEF TypeOK, StarterRecord
  <2> QED
    BY <1>4, <2>1, <2>3, <2>4
<1>6. CASE StartInsert(s)
  <2>1. PICK x \in StarterRecord : x = starter[s] /\ x # None
    BY <1>1, <1>6, StarterIs DEF StartInsert, Starting
  <2>2. PICK n \in CycleRecord : n = NewCycle(x.id, x.at)
    BY NewCycleEffect DEF StarterRecord
  <2>3. /\ row' = [row EXCEPT ![x.id] = n]
        /\ starter' = [starter EXCEPT ![s].pc = "put"]
        /\ UNCHANGED <<stored, receipt, requests, artifacts, handler, faults>>
    BY <1>6, <2>1, <2>2 DEF StartInsert, storageVars, sourceVars
  <2>4. starter' = [starter EXCEPT ![s] = starter'[s]] /\ starter'[s].id = starter[s].id
    BY <1>1, <2>1, <2>3 DEF TypeOK, StarterRecord
  <2> QED
    BY <1>4, <2>1, <2>3, <2>4
<1>7. CASE StartPut(s)
  <2>1. PICK x \in StarterRecord : x = starter[s] /\ x # None /\ x \in Begun(s) /\ IsFresh(x)
    BY <1>1, <1>7, StarterIs DEF StartPut, Starting, IngestInv, StartersAreSound
  <2>2. PICK n \in CycleRecord : n = NewCycle(x.id, x.at) /\ n.id = x.id /\ n # None
    BY NewCycleEffect, IngestNone DEF StarterRecord
  <2>3. /\ stored' = n /\ starter' = [starter EXCEPT ![s] = None]
        /\ handler' = handler /\ faults' = faults /\ row' = row
        /\ UNCHANGED <<receipt, requests, artifacts>>
    BY <1>7, <2>1, <2>2 DEF StartPut, receiptVars, sourceVars
  <2>4. requests[n.id] = 0 /\ \A h \in InHand : h.id # n.id
    BY <2>1, <2>2 DEF RequestInv, BegunAsksNothing, IsFresh
  <2>5. InHand' = InHand /\ InStorage' = {n}
    BY <2>2, <2>3 DEF InHand, InStorage
  <2>6. BegunAsksNothing'
    <3>1. \A t \in Starter : starter'[t] = starter[t] \/ starter'[t] = None
      BY <1>1, <2>3 DEF TypeOK
    <3> QED
      BY <2>3, <3>1 DEF RequestInv, BegunAsksNothing, Begun
  <2>7. StoredAccounts'
    BY <2>3, <2>4, <2>5 DEF StoredAccounts, Accounts
  <2>8. HandlerAccounts'
    BY <2>3, <2>4, <2>5 DEF RequestInv, HandlerAccounts, Accounts, Lacks
  <2> QED
    BY <2>3, <2>6, <2>7, <2>8 DEF RequestInv, RequestTotals, ReceiptsHaveArtifacts
<1> QED
  BY <1>3, <1>5, <1>6, <1>7 DEF StarterNext

\* A call that rejects: a fault.
LEMMA CallRejectsAccounts ==
    ASSUME IngestInv, RequestInv, CallRejects
    PROVE  RequestInv'
<1>1. TypeOK /\ faults' = faults + 1
  BY DEF CallRejects, Fault, IngestInv
<1>2. CASE handler # None /\ Catch
  BY <1>1, <1>2, CatchAccounts
<1>3. CASE At("persist-retrieval") /\ RetrievalFails /\ UNCHANGED sourceVars
  <2> PICK h \in InHand : TRUE
    BY <1>1, <1>3, HandlerInHand DEF At
  <2>1. h.cursor \in 1 .. Len(Source) /\ handler.pc = "persist-retrieval"
    BY <1>3 DEF At, IngestInv, NextIsSound, ResultIsSound
  <2>2. artifacts' = artifacts /\ requests' = requests
    BY <1>3 DEF sourceVars
  <2> QED
    BY <1>1, <1>3, <2>1, <2>2, RetrievalFailsAccounts
<1>4. CASE handler' = None /\ UNCHANGED <<stored, receiptVars, sourceVars, starter>>
  <2>1. UNCHANGED <<receipt, requests, artifacts>> /\ row' = row /\ stored' = stored
    BY <1>4 DEF receiptVars, sourceVars
  <2> QED
    BY <1>1, <1>4, <2>1, IdleAccounts DEF Begun
<1>5. ASSUME NEW s \in Starter, starter' = [starter EXCEPT ![s] = None],
             UNCHANGED <<storageVars, receiptVars, sourceVars, handler>>
      PROVE  RequestInv'
  <2>1. UNCHANGED <<receipt, requests, artifacts>> /\ row' = row /\ stored' = stored
    BY <1>5 DEF storageVars, receiptVars, sourceVars
  <2>2. \A t \in Starter : Begun(t)' \subseteq Begun(t)
    BY <1>1, <1>5 DEF TypeOK, Begun
  <2> QED
    BY <1>1, <1>5, <2>1, <2>2, IdleAccounts
<1> QED
  BY <1>2, <1>3, <1>4, <1>5 DEF CallRejects

\* Every step keeps RequestInv, whichever faults it meets.
LEMMA RequestStep ==
    ASSUME IngestInv, RequestInv, [Next]_vars
    PROVE  RequestInv'
<1>1. TypeOK
  BY DEF IngestInv
<1>2. CASE UNCHANGED vars
  BY <1>2, IdleAccounts DEF vars, storageVars, receiptVars, sourceVars, Begun
<1>3. CASE AlarmFires
  BY <1>3, DeliverAccounts DEF AlarmFires
<1>4. CASE DuplicateAlarm
  BY <1>4, DeliverAccounts DEF DuplicateAlarm, Fault
<1>5. CASE HandlerNext
  <2>1. CASE FailRow
    <3> PICK h \in InHand : h = handler.cycle /\ handler # None /\ handler.pc = "fail-row"
      BY <1>1, <2>1, HandlerInHand DEF FailRow, At
    <3>1. PICK n \in CycleRecord : n = handler.next /\ n # None
      BY KeptRecords DEF IngestInv, NextIsSound
    <3>2. /\ row' = [row EXCEPT ![h.id] = n] /\ handler' = None
          /\ UNCHANGED <<stored, receipt, requests, artifacts>> /\ starter' = starter /\ faults' = faults
      BY <2>1, <3>1 DEF FailRow, sourceVars
    <3>3. \A c \in Cycle : row[c] # None => row'[c] # None
      BY <1>1, <3>1, <3>2 DEF TypeOK
    <3> QED
      BY <3>2, <3>3, IdleAccounts DEF Begun
  <2> QED
    BY <1>5, <2>1, ReplayAccounts, StepsAccount, PersistAccounts, PutAccounts DEF HandlerNext
<1>6. ASSUME NEW s \in Starter, StarterNext(s)
      PROVE  RequestInv'
  BY <1>6, StarterAccounts
<1>7. CASE Tick
  BY <1>7, IdleAccounts DEF Tick, storageVars, receiptVars, sourceVars, Begun
<1>8. CASE Crash
  <2>1. \A s \in Starter : Begun(s)' = {}
    BY <1>8 DEF Crash, Begun
  <2> QED
    BY <1>8, <2>1, IdleAccounts DEF Crash, Fault, receiptVars, sourceVars
<1>9. CASE CallRejects
  BY <1>9, CallRejectsAccounts
<1> QED
  BY <1>2, <1>3, <1>4, <1>5, <1>6, <1>7, <1>8, <1>9 DEF Next

\* Nothing is asked for at first.
LEMMA InitRequestInv == Init => RequestInv
<1> SUFFICES ASSUME Init PROVE RequestInv
  OBVIOUS
<1>1. /\ stored = None /\ handler = None /\ faults = 0
      /\ requests = [c \in Cycle |-> 0] /\ starter = [s \in Starter |-> None]
      /\ receipt = [c \in Cycle |-> [k \in Cursor |-> "none"]]
  BY DEF Init
<1>2. InStorage = {} /\ InHand = {} /\ \A s \in Starter : Begun(s) = {}
  BY <1>1 DEF InStorage, InHand, Begun
<1>3. RequestTotals /\ BegunAsksNothing
  BY <1>1, <1>2 DEF RequestTotals, BegunAsksNothing, MaxRequests
<1>4. ReceiptsHaveArtifacts
  <2>1. \A c \in Cycle : \A k \in 1 .. Len(Source) : receipt[c][k] = "none"
    BY <1>1, StepsShape
  <2> QED
    BY <2>1 DEF ReceiptsHaveArtifacts
<1>5. StoredAccounts /\ HandlerAccounts
  BY <1>2 DEF StoredAccounts, HandlerAccounts
<1> QED
  BY <1>3, <1>4, <1>5 DEF RequestInv
-----------------------------------------------------------------------------
(* The invariant behind the bound, whichever faults there are.             *)
THEOREM RequestInvariance == Spec => []RequestInv
<1>1. IngestInv /\ RequestInv /\ [Next]_vars => RequestInv'
  BY RequestStep
<1> QED
  BY <1>1, InitRequestInv, IngestInvariance, PTL DEF Spec

(* However often a cycle is retried, replayed or delivered twice, an       *)
(* upstream is asked for an artifact three times at most, and once more    *)
(* for each fault.                                                         *)
THEOREM RequestsStayBounded == Spec => []RequestsBounded
<1>1. RequestInv => RequestsBounded
  BY DEF RequestInv, RequestTotals, RequestsBounded
<1> QED
  BY <1>1, RequestInvariance, PTL
=============================================================================
