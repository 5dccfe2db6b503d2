------------------------ MODULE BenchmarkPublication ------------------------
(***************************************************************************)
(* The benchmark publication tables in D1 and every statement that writes  *)
(* them: the staging steps, validation and final batch of a weekly cycle   *)
(* (workers/benchmark-ingest/src), and the cache-only republication that   *)
(* runs next to it.  A cycle may stop anywhere, and repeat what it writes  *)
(* until its phase is over; nothing here assumes that the coordinator      *)
(* keeps two cycles apart, except in the final step.                       *)
(*                                                                         *)
(* A revision is named after its content and the catalog revision it was   *)
(* derived from (deriveCandidatePartitions), here a pair.  Timestamps are  *)
(* the order in which cycles started.  Response sets are named after their *)
(* revision and the attempt that wrote them; an attempt writes one.        *)
(***************************************************************************)
EXTENDS Naturals, Nothing

CONSTANTS
    Cycle,        \* identifiers of benchmark cycles
    Republisher,  \* publication attempts of republishCache
    MaxCatalog,   \* bound on catalog publications
    Content,      \* what the sources say: all the other hashes of the fingerprint
    Fact,         \* the fact partitions of a candidate
    Models,       \* the fact partitions that hold benchmark_models
    Profile,      \* the profile and membership batches
    Key,          \* required cache keys
    Ranks,        \* how many Popular Models ranks each content supports
    Week          \* ISO weeks

Attempt == Cycle \cup Republisher

\* Catalog revisions are numbered: a published catalog revision never returns.
Revision == (1 .. MaxCatalog) \X Content

ASSUME BenchmarkConstants ==
    /\ MaxCatalog \in Nat
    /\ Models \subseteq Fact
    /\ Ranks \in [Content -> Nat]
    /\ Cycle \cap Republisher = {}   \* both are drawn by crypto.randomUUID

VARIABLES
    catalog,       \* the active catalog revision; 0 before the first
    revisions,     \* benchmark_revisions
    stored,        \* the fact and profile partitions in D1, by revision
    cached,        \* api_response_revisions and entries, by attempt
    pointer,       \* benchmark_publication_state.active_revision
    cachePointer,  \* api_response_publication_state.active_revision
    weeks,         \* ranks published for each week
    receipts,      \* the cycles whose final batch was applied
    work,          \* what each cycle froze and derived, and the phase it has reached
    publishing,    \* publishBenchmarkCandidate between its reads and its batch
    republish,     \* the snapshot republishCache read, by attempt
    started        \* how many cycles have acquired

publicationVars ==
    <<catalog, revisions, stored, cached, pointer, cachePointer, weeks, receipts,
      work, publishing, republish, started>>

EntryState == {"none", "part", "all"}

RevisionRow ==
    [state : {"pending", "published", "superseded"}, owner : Cycle, checked : Nat]

CacheRow == [of : Revision, stamp : Nat, keys : [Key -> EntryState]]

Phase == {"derive", "stage-facts", "stage-profiles", "stage-cache",
          "validate-candidate", "publish"}

Work == [frozen : 1 .. MaxCatalog, previous : Revision \cup {None},
         candidate : Revision \cup {None}, stamp : Nat, week : Week, phase : Phase]

Publishing == [cycle : Cycle, unchanged : BOOLEAN, week : Nat \cup {None}]

Republication == [of : Revision, checked : Nat, at : {"staging", "sent", "closed"}]

\* NULL is not a value, and no row at all is not a row.
ASSUME BenchmarkNone ==
    /\ None \notin Attempt \cup Revision \cup Nat \cup (Revision \X Attempt)
    /\ None \notin RevisionRow \cup CacheRow \cup Work \cup Publishing \cup Republication

PublicationTypeOK ==
    /\ catalog \in 0 .. MaxCatalog
    /\ revisions \in [Revision -> RevisionRow \cup {None}]
    /\ stored \in [Revision -> SUBSET (Fact \cup Profile)]
    /\ cached \in [Attempt -> CacheRow \cup {None}]
    /\ pointer \in Revision \cup {None}
    /\ cachePointer \in Attempt \cup {None}
    /\ weeks \in [Week -> Nat \cup {None}]
    /\ receipts \subseteq Cycle
    /\ work \in [Cycle -> Work \cup {None}]
    /\ publishing \in Publishing \cup {None}
    /\ republish \in [Republisher -> Republication \cup {None}]
    /\ started \in Nat

PublicationInit ==
    /\ catalog = 0
    /\ revisions = [r \in Revision |-> None]
    /\ stored = [r \in Revision |-> {}]
    /\ cached = [a \in Attempt |-> None]
    /\ pointer = None
    /\ cachePointer = None
    /\ weeks = [w \in Week |-> None]
    /\ receipts = {}
    /\ work = [c \in Cycle |-> None]
    /\ publishing = None
    /\ republish = [p \in Republisher |-> None]
    /\ started = 0
-----------------------------------------------------------------------------
(***************************************************************************)
(* Staging.                                                                *)
(***************************************************************************)

\* The catalog Worker publishes a new revision.
CatalogPublishes ==
    /\ catalog < MaxCatalog
    /\ catalog' = catalog + 1
    /\ UNCHANGED <<revisions, stored, cached, pointer, cachePointer, weeks, receipts,
                   work, publishing, republish, started>>

InPhase(c, phase) == work[c] # None /\ work[c].phase = phase

\* Only the durable record of c changes.
Advance(c, record) ==
    /\ work' = [work EXCEPT ![c] = record]
    /\ UNCHANGED <<catalog, revisions, stored, cached, pointer, cachePointer, weeks,
                   receipts, publishing, republish>>

\* Slip: the cache revision is frozen instead.
ActiveRevision_OfCache == cachePointer

\* acquireStep reads the active benchmark revision if it is published.
ActiveRevision ==
    IF pointer # None /\ revisions[pointer].state = "published" THEN pointer ELSE None

\* acquireStep: a replay keeps the start time of the cycle.
Freeze(c, week) ==
    LET stamp == IF work[c] = None THEN started + 1 ELSE work[c].stamp
    IN  /\ catalog > 0
        /\ work[c] # None =>
              work[c].phase = "derive" /\ work[c].candidate = None /\ work[c].week = week
        /\ Advance(c, [frozen |-> catalog, previous |-> ActiveRevision, candidate |-> None,
                       stamp |-> stamp, week |-> week, phase |-> "derive"])
        /\ started' = IF work[c] = None THEN started + 1 ELSE started

\* deriveStep: an unchanged candidate goes straight to its responses.
Derive(c, content) ==
    LET r == <<work[c].frozen, content>>
    IN  /\ InPhase(c, "derive")
        /\ Advance(c, [work[c] EXCEPT
                !.candidate = r,
                !.phase = IF r = work[c].previous THEN "stage-cache" ELSE "stage-facts"])
        /\ UNCHANGED started

\* assertOwnedPendingRevision, and the guard of every staging statement.
Owned(c) ==
    LET row == revisions[work[c].candidate]
    IN  row # None /\ row.state = "pending" /\ row.owner = c

\* ensurePendingBenchmarkRevision: INSERT OR IGNORE.
EnsurePending(c) ==
    /\ InPhase(c, "stage-facts")
    /\ revisions[work[c].candidate] = None
    /\ revisions' = [revisions EXCEPT ![work[c].candidate] =
            [state |-> "pending", owner |-> c, checked |-> work[c].stamp]]
    /\ UNCHANGED <<catalog, stored, cached, pointer, cachePointer, weeks, receipts,
                   work, publishing, republish, started>>

\* One partition of the pending revision; a primary key makes a replay a no-op.
StorePartition(c, part) ==
    /\ stored' = [stored EXCEPT ![work[c].candidate] = @ \cup {part}]
    /\ UNCHANGED <<catalog, revisions, cached, pointer, cachePointer, weeks, receipts,
                   work, publishing, republish, started>>

StageFact(c, part) ==
    InPhase(c, "stage-facts") /\ Owned(c) /\ StorePartition(c, part)

StageProfile(c, part) ==
    InPhase(c, "stage-profiles") /\ Owned(c) /\ StorePartition(c, part)

\* Slip: the step after the last partition does not count the rows.
FactsComplete_Uncounted(c) == Owned(c)

\* validateStagedBenchmarkFacts.
FactsComplete(c) ==
    /\ Owned(c)
    /\ pointer # work[c].candidate
    /\ Fact \subseteq stored[work[c].candidate]

FactsStaged(c) ==
    /\ InPhase(c, "stage-facts")
    /\ FactsComplete(c)
    /\ Advance(c, [work[c] EXCEPT !.phase = "stage-profiles"])
    /\ UNCHANGED started

\* The cursor is past the last batch of models.
ProfilesStaged(c) ==
    /\ InPhase(c, "stage-profiles")
    /\ Profile \subseteq stored[work[c].candidate]
    /\ Advance(c, [work[c] EXCEPT !.phase = "stage-cache"])
    /\ UNCHANGED started
-----------------------------------------------------------------------------
(***************************************************************************)
(* Response sets.  The statements of a key run one by one.                 *)
(***************************************************************************)

\* Upserts the row of the response set and deletes the entries of one key.
OpenEntries(a, r, stamp, k) ==
    LET keys == IF cached[a] = None THEN [j \in Key |-> "none"] ELSE cached[a].keys
    IN  /\ cached' = [cached EXCEPT ![a] =
                [of |-> r, stamp |-> stamp, keys |-> [keys EXCEPT ![k] = "none"]]]
        /\ UNCHANGED <<catalog, revisions, stored, pointer, cachePointer, weeks,
                       receipts, work, publishing, republish, started>>

(* Inserts entries of one key: all of them, or as many as fit in the first *)
(* statement.  The foreign key needs the row.                              *)
WriteEntries(a, k, amount) ==
    /\ cached[a] # None
    /\ \/ cached[a].keys[k] = "none" /\ amount \in {"part", "all"}
       \/ cached[a].keys[k] = "part" /\ amount = "all"
    /\ cached' = [cached EXCEPT ![a].keys[k] = amount]
    /\ UNCHANGED <<catalog, revisions, stored, pointer, cachePointer, weeks, receipts,
                   work, publishing, republish, started>>

\* The revision the responses are made from is published or about to be.
CanStageCache(c) ==
    LET row == revisions[work[c].candidate]
    IN  row # None /\ (row.state = "published" \/ Owned(c))

\* stageBenchmarkCachePartition, its first two statements.
StageCacheKey(c, k) ==
    /\ InPhase(c, "stage-cache")
    /\ CanStageCache(c)
    /\ OpenEntries(c, work[c].candidate, work[c].stamp, k)

\* Its INSERT statements.
FillCacheKey(c, k, amount) ==
    InPhase(c, "stage-cache") /\ WriteEntries(c, k, amount)

(* The cursor is past the last key.  A retention pass may have deleted the *)
(* rows of an earlier one: validation finds out.                           *)
CacheStaged(c) ==
    /\ InPhase(c, "stage-cache")
    /\ Advance(c, [work[c] EXCEPT !.phase = "validate-candidate"])
    /\ UNCHANGED started

\* Every required key has both variants, with all their chunks.
CacheComplete(a) ==
    cached[a] # None /\ \A k \in Key : cached[a].keys[k] = "all"

\* validateCompleteBenchmarkCandidate.
CandidateComplete(c) ==
    LET w   == work[c]
        row == revisions[w.candidate]
    IN  /\ row # None
        /\ \/ row.state = "published" /\ w.candidate = w.previous
           \/ Owned(c)
        /\ catalog = w.frozen
        /\ Models \cup Profile \subseteq stored[w.candidate]
        /\ CacheComplete(c)

ValidateCandidate(c) ==
    /\ InPhase(c, "validate-candidate")
    /\ CandidateComplete(c)
    /\ Advance(c, [work[c] EXCEPT !.phase = "publish"])
    /\ UNCHANGED started
-----------------------------------------------------------------------------
(***************************************************************************)
(* publishBenchmarkCandidate reads the active revision and the week's rank *)
(* count, and then sends one batch built from what it read.  The           *)
(* coordinator runs one alarm at a time: only one cycle is in between.     *)
(***************************************************************************)

PublishReads(c) ==
    /\ InPhase(c, "publish")
    /\ publishing = None
    /\ publishing' = [cycle     |-> c,
                      unchanged |-> pointer = work[c].candidate,
                      week      |-> weeks[work[c].week]]
    /\ UNCHANGED <<catalog, revisions, stored, cached, pointer, cachePointer, weeks,
                   receipts, work, republish, started>>

\* Slip: the published revision is not superseded.
StatesAfter_KeepsOld(c, unchanged) ==
    LET r == work[c].candidate
    IN  IF unchanged
        THEN [revisions EXCEPT ![r].checked = work[c].stamp]
        ELSE [revisions EXCEPT ![r].state = IF Owned(c) THEN "published" ELSE @]

\* Slip: UPDATE ... WHERE revision = ?, without the pending state and the owner.
StatesAfter_AnyState(c, unchanged) ==
    LET r == work[c].candidate
    IN  IF unchanged
        THEN [revisions EXCEPT ![r].checked = work[c].stamp]
        ELSE [q \in Revision |->
                IF revisions[q] = None THEN None
                ELSE [revisions[q] EXCEPT !.state =
                        IF q = r THEN "published"
                        ELSE IF @ = "published" THEN "superseded" ELSE @]]

(* The revision rows after the first statements: checked again, or         *)
(* everything published is superseded and the owned pending row published. *)
StatesAfter(c, unchanged) ==
    LET r == work[c].candidate
    IN  IF unchanged
        THEN [revisions EXCEPT ![r].checked = work[c].stamp]
        ELSE [q \in Revision |->
                IF revisions[q] = None THEN None
                ELSE [revisions[q] EXCEPT !.state =
                        IF @ = "published" THEN "superseded"
                        ELSE IF q = r /\ Owned(c) THEN "published" ELSE @]]

\* Slip: the number of ranks in the week is not looked at.
WeekAfter_Replaces(c, seen) == Ranks[work[c].candidate[2]]

\* A week is created, or replaced by one with more ranks than were read.
WeekAfter(c, seen) ==
    LET ranks == Ranks[work[c].candidate[2]]
    IN  IF seen = None \/ seen < ranks THEN ranks ELSE weeks[work[c].week]

\* Slip: without the triggers.
PointersAllowed_NoTriggers(states, to, a) == cached[a] # None

(* The triggers of migration 0006 and the foreign keys: a batch that       *)
(* breaks one of them is rolled back.                                      *)
PointersAllowed(states, to, a) ==
    /\ to # pointer => states[to] # None /\ states[to].state = "published"
    /\ cached[a] # None
    /\ cached[a].of = to

PointerAfter == IF publishing.unchanged THEN pointer ELSE work[publishing.cycle].candidate

\* No statement of the batch fails.
BatchAllowed(c) ==
    /\ publishing.week = None => weeks[work[c].week] = None
    /\ PointersAllowed(StatesAfter(c, publishing.unchanged), PointerAfter, c)

PublishBatch(c) ==
    /\ publishing # None
    /\ publishing.cycle = c
    /\ BatchAllowed(c)
    /\ revisions' = StatesAfter(c, publishing.unchanged)
    /\ weeks' = [weeks EXCEPT ![work[c].week] = WeekAfter(c, publishing.week)]
    /\ pointer' = PointerAfter
    /\ cachePointer' = c
    /\ receipts' = receipts \cup {c}
    /\ publishing' = None
    /\ UNCHANGED <<catalog, stored, cached, work, republish, started>>

\* The batch is rejected, or the Worker stops before it.
PublishEnds ==
    /\ publishing # None
    /\ publishing' = None
    /\ UNCHANGED <<catalog, revisions, stored, cached, pointer, cachePointer, weeks,
                   receipts, work, republish, started>>
-----------------------------------------------------------------------------
(***************************************************************************)
(* republishCache, for the revision that is active when it reads.          *)
(***************************************************************************)

RepublishReads(p) ==
    /\ republish[p] = None
    /\ pointer # None
    /\ republish' = [republish EXCEPT ![p] =
            [of |-> pointer, checked |-> revisions[pointer].checked, at |-> "staging"]]
    /\ UNCHANGED <<catalog, revisions, stored, cached, pointer, cachePointer, weeks,
                   receipts, work, publishing, started>>

Republishing(p) == republish[p] # None /\ republish[p].at = "staging"

(* Its staging batches, stamped with the time the revision was last        *)
(* checked.                                                                *)
RepublishOpens(p) ==
    /\ Republishing(p)
    /\ cached[p] = None
    /\ cached' = [cached EXCEPT ![p] = [of    |-> republish[p].of,
                                        stamp |-> republish[p].checked,
                                        keys  |-> [k \in Key |-> "none"]]]
    /\ UNCHANGED <<catalog, revisions, stored, pointer, cachePointer, weeks, receipts,
                   work, publishing, republish, started>>

RepublishFills(p, k, amount) == Republishing(p) /\ WriteEntries(p, k, amount)

\* Slip: LIMIT 1.
Retained_Active(active) == {{active}}

(* benchmarkApiResponseRetentionStatements: the active response set and    *)
(* the newest other one; revision names break a tie.                       *)
Retained(active) ==
    LET others == {a \in Attempt \ {active} : cached[a] # None}
        newest == {a \in others : \A b \in others : cached[b].stamp <= cached[a].stamp}
    IN  IF others = {} THEN {{active}} ELSE {{active, a} : a \in newest}

\* The commit batch: the cache pointer and the retention pass.  Its reply may be lost.
RepublishCommits(p) ==
    /\ Republishing(p)
    /\ CacheComplete(p)
    /\ PointersAllowed(revisions, pointer, p)
    /\ cachePointer' = p
    /\ \E kept \in Retained(p) :
            cached' = [a \in Attempt |-> IF a \in kept THEN cached[a] ELSE None]
    /\ \E at \in {"sent", "closed"} : republish' = [republish EXCEPT ![p].at = at]
    /\ UNCHANGED <<catalog, revisions, stored, pointer, weeks, receipts, work,
                   publishing, started>>

\* inactiveApiResponseRevisionCleanupStatement.
CleanedUp(p) == IF cachePointer = p THEN cached ELSE [cached EXCEPT ![p] = None]

(* A batch was rejected, or so it seems; the cleanup is best-effort.       *)
RepublishFails(p) ==
    /\ republish[p] # None
    /\ republish[p].at # "closed"
    /\ republish' = [republish EXCEPT ![p].at = "closed"]
    /\ cached' \in {cached, CleanedUp(p)}
    /\ UNCHANGED <<catalog, revisions, stored, pointer, cachePointer, weeks, receipts,
                   work, publishing, started>>
-----------------------------------------------------------------------------
CycleStep(c) ==
    \/ \E week \in Week : Freeze(c, week)
    \/ \E content \in Content : Derive(c, content)
    \/ EnsurePending(c)
    \/ \E part \in Fact : StageFact(c, part)
    \/ FactsStaged(c)
    \/ \E part \in Profile : StageProfile(c, part)
    \/ ProfilesStaged(c)
    \/ \E k \in Key : StageCacheKey(c, k) \/ \E amount \in EntryState : FillCacheKey(c, k, amount)
    \/ CacheStaged(c)
    \/ ValidateCandidate(c)
    \/ PublishReads(c)
    \/ PublishBatch(c)

RepublishStep(p) ==
    \/ RepublishReads(p)
    \/ RepublishOpens(p)
    \/ \E k \in Key, amount \in EntryState : RepublishFills(p, k, amount)
    \/ RepublishCommits(p)
    \/ RepublishFails(p)

PublicationNext ==
    \/ CatalogPublishes
    \/ \E c \in Cycle : CycleStep(c)
    \/ PublishEnds
    \/ \E p \in Republisher : RepublishStep(p)

PublicationSpec == PublicationInit /\ [][PublicationNext]_publicationVars
-----------------------------------------------------------------------------
(***************************************************************************)
(* Properties.                                                             *)
(***************************************************************************)

(* Readers of the tables and readers of the response sets agree: the       *)
(* benchmark pointer is on a published revision and the cache pointer on   *)
(* responses made from that very revision, whoever published last.         *)
ReadersAgree ==
    IF pointer = None
    THEN cachePointer = None
    ELSE /\ revisions[pointer] # None
         /\ revisions[pointer].state = "published"
         /\ cachePointer # None
         /\ cached[cachePointer] # None
         /\ cached[cachePointer].of = pointer

\* Only the active revision is in state published.
OnePublished ==
    \A r \in Revision :
        (revisions[r] # None /\ revisions[r].state = "published") <=> pointer = r

(* What is published is complete: every fact and profile partition of the  *)
(* active revision is stored, and every response of the active set has all *)
(* its chunks.  The batch checks neither; the steps before it do.          *)
PublishedIsComplete ==
    /\ pointer # None => Fact \cup Profile \subseteq stored[pointer]
    /\ cachePointer # None => CacheComplete(cachePointer)

(* The retention pass of a republication never takes the responses that    *)
(* the newest cycle has staged and not yet published.                      *)
CandidateCacheSurvives ==
    [][\A c \in Cycle :
         /\ cached[c] # None
         /\ work[c].stamp = started
         /\ c \notin receipts
         => cached'[c] # None]_publicationVars

(* final-publication.ts: a published week "is immutable when it already    *)
(* contains at least as much source-rank-safe evidence as this candidate". *)
WeekOnlyGrows ==
    [][\A w \in Week :
         weeks[w] # None /\ weeks'[w] # weeks[w] => weeks'[w] # None /\ weeks'[w] > weeks[w]
      ]_publicationVars

\* What a reader of the public API is given.
View == INSTANCE PublishedView WITH
    Revision <- Revision,
    Owner    <- Attempt,
    served   <- IF ReadersAgree /\ pointer # None THEN <<pointer, cachePointer>> ELSE None,
    retired  <- {r \in Revision : revisions[r] # None /\ revisions[r].state = "superseded"}

(* The tables implement the published view: no gap, no mixed revisions, no *)
(* return of a replaced revision, with republications in between.          *)
ImplementsView == View!ViewSpec

(* The response sets NEWEST_COMPLETE_STALE_CACHE_QUERY may choose for k:   *)
(* its chunk numbers start at 0 and have no hole.                          *)
Fallback(k) ==
    LET rows == {a \in Attempt : cached[a] # None /\ cached[a].keys[k] # "none"}
    IN  {a \in rows : \A b \in rows : cached[b].stamp <= cached[a].stamp}

(* catalog-deployment.md: "A response with missing chunks [...] is never   *)
(* selected", by the fallback either, while a whole one is published.      *)
FallbackIsWhole ==
    pointer # None => \A k \in Key : \A a \in Fallback(k) : cached[a].keys[k] = "all"

(* Whoever published last, readers of the tables and of the response sets are *)
(* given the one published revision.                                          *)
OneViewIsServed ==
    /\ PublicationTypeOK
    /\ ReadersAgree
    /\ OnePublished
=============================================================================
