---------------------------- MODULE LegacyRefresh ----------------------------
(***************************************************************************)
(* refreshBenchmarkRevision of workers/benchmark-ingest/src/index.ts: one  *)
(* invocation that fetches everything, derives a revision and publishes    *)
(* it.  Invocations overlap: one of them does the daily BenchLM check under*)
(* a lease in D1, the others wait for its result, and the publications     *)
(* race in D1.  Any invocation may be killed at any await, any call may be *)
(* rejected, and any write may be applied and its reply lost: the run then *)
(* goes on in its catch blocks as if the write had not happened.           *)
(*                                                                         *)
(* Contents are numbered: each change upstream gives a source its next     *)
(* number.  A revision is named after the contents it was made from.       *)
(* Every start takes a tick of the clock, so checkedAt tells runs apart.   *)
(***************************************************************************)
EXTENDS Naturals, Nothing

CONSTANTS
    Refreshes,    \* invocations, each with its publication attempt
    LPages,       \* pages of the LMArena subsets
    MaxChanges,   \* bound on upstream changes
    Lease,        \* ticks of BENCHLM_DAILY_LEASE_MS
    Window,       \* ticks of BENCHMARK_PUBLICATION_OWNERSHIP_WINDOW_MS
    Day,          \* ticks of a UTC day
    MaxClock,     \* bound on the clock
    MaxPolls,     \* BENCHLM_DAILY_WAIT_ATTEMPTS
    MaxLegacyFaults  \* kills and lost or rejected calls

ASSUME LegacyBounds ==
    /\ LPages \in Nat /\ MaxChanges \in Nat /\ Day \in Nat \ {0}
    /\ Lease \in Nat /\ Window \in Nat
    /\ MaxClock \in Nat \ {0} /\ MaxPolls \in Nat /\ MaxLegacyFaults \in Nat

VARIABLES
    served,   \* what the sources serve now
    catalog,    \* the active catalog revision
    daily,      \* the daily-network-check row of benchmark_refresh_state
    manifest,   \* BenchLM daily manifests in R2, by the checkedAt in their key
    snapshots,  \* immutable snapshots in R2
    rows,       \* benchmark_revisions with their facts
    active,     \* benchmark_publication_state
    responses,  \* api_response_revisions, by attempt
    cacheSet,   \* api_response_publication_state
    invocation, \* the local variables of each invocation
    clock, faults

legacyVars == <<served, catalog, daily, manifest, snapshots, rows, active, responses,
                cacheSet, invocation, clock, faults>>
tables == <<rows, active, responses, cacheSet>>
outside == <<served, catalog>>

Version == 1 .. MaxChanges + 1
LPage == 1 .. LPages

\* combinedContentHash and revisionIdForContentHash.
LegacyRevision == [catalog : Version, benchlm : Version, litellm : Version,
                   page : [LPage -> Version]]

ASSUME LegacyNone ==
    /\ None \notin Nat \cup Refreshes \cup LegacyRevision \cup (LegacyRevision \X Refreshes)
    /\ None \notin [until : Nat, owner : Refreshes] \cup [content : Version, dataset : Version]

Today(t) == t \div Day

\* The snapshots of the sources of a revision.
Sources(r) == {<<"benchlm", 0, r.benchlm>>, <<"litellm", 0, r.litellm>>}
              \cup {<<"lmarena", p, r.page[p]>> : p \in LPage}

\* A table or a bucket with one more row or object, or another one in its place.
Put(table, key, value) ==
    [k \in DOMAIN table \cup {key} |-> IF k = key THEN value ELSE table[k]]

Idle == [pc |-> "new", at |-> 0, catalog |-> 0, previous |-> None, benchlm |-> 0,
         seen |-> 0, litellm |-> 0, page |-> [p \in LPage |-> None], polls |-> 0,
         left |-> FALSE]  \* history: its claim's reply was lost, or its release failed

LegacyInit ==
    /\ served = [benchlm |-> 1, litellm |-> 1, dataset |-> 1, page |-> [p \in LPage |-> 1]]
    /\ catalog = 1
    /\ daily = [success |-> None, error |-> None]
    /\ manifest = << >>
    /\ snapshots = {}
    /\ rows = << >>
    /\ active = None
    /\ responses = << >>
    /\ cacheSet = None
    /\ invocation = [r \in Refreshes |-> Idle]
    /\ clock = 1
    /\ faults = 0

At(r, pc) == invocation[r].pc = pc
Go(r, pc) == invocation' = [invocation EXCEPT ![r].pc = pc]
Local(r, record) == invocation' = [invocation EXCEPT ![r] = record]

\* The invocation is over; the time of its start lives on in what it wrote.
Ends(r, pc) == Local(r, [Idle EXCEPT !.pc = pc, !.at = invocation[r].at,
                                     !.left = invocation[r].left])

\* Where the catch blocks lead when the call at a place is rejected.
Busy == [active |-> "record", claim |-> "record", await |-> "record", persist |-> "release",
         complete |-> "release", evidence |-> "record", row |-> "cleanup",
         facts |-> "cleanup", responses |-> "cleanup", commit |-> "cleanup"]

\* A write was applied; without its reply it counts as rejected.
Replied(r, pc, lost) == Go(r, IF lost THEN Busy[invocation[r].pc] ELSE pc)
Loses(lost) ==
    /\ lost => faults < MaxLegacyFaults
    /\ faults' = IF lost THEN faults + 1 ELSE faults

\* fetchWithRetry: the last attempt decides; only its transient failures are told apart.
Outcome == {"answered", "transient", "refused"}
-----------------------------------------------------------------------------
(***************************************************************************)
(* The daily check of BenchLM.                                             *)
(***************************************************************************)

Start(r) ==
    /\ At(r, "new") /\ clock < MaxClock
    /\ Local(r, [Idle EXCEPT !.pc = "active", !.at = clock, !.catalog = catalog])
    /\ clock' = clock + 1
    /\ UNCHANGED <<outside, daily, manifest, snapshots, tables, faults>>

\* benchLmFetchDue: the snapshots of the active revision were observed on another day.
FetchDue(r, revision) ==
    revision = None \/ Today(rows[revision].seen) # Today(invocation[r].at)

\* readActiveBenchmarkRevision and its sources; without a due check they are read again.
ReadActive(r) ==
    /\ At(r, "active")
    /\ Local(r, IF FetchDue(r, active)
                THEN [invocation[r] EXCEPT !.pc = "claim", !.previous = active]
                ELSE [invocation[r] EXCEPT !.pc = "litellm", !.previous = active,
                          !.benchlm = active.benchlm, !.seen = rows[active].seen])
    /\ UNCHANGED <<outside, daily, manifest, snapshots, tables, clock, faults>>

\* CLAIM_BENCHLM_DAILY_CHECK: today's check is neither done nor leased, as of checkedAt.
Claimable(at) ==
    /\ daily.success = None \/ Today(daily.success) # Today(at)
    /\ daily.error = None \/ daily.error.until <= at

\* claimBenchLmDailyCheck; benchLmLeaseId is set only when its reply arrives.
ClaimDailyCheck(r, lost) ==
    LET at == invocation[r].at
    IN  /\ At(r, "claim") /\ Loses(lost)
        /\ IF Claimable(at)
           THEN /\ daily' = [daily EXCEPT !.error = [until |-> at + Lease, owner |-> r]]
                /\ Local(r, IF lost THEN [invocation[r] EXCEPT !.pc = "record", !.left = TRUE]
                                    ELSE [invocation[r] EXCEPT !.pc = "fetch"])
           ELSE ~lost /\ Go(r, "await") /\ UNCHANGED daily
        /\ UNCHANGED <<outside, manifest, snapshots, tables, clock>>

\* Slip: the check of any day will do.
Completed_AnyDay(r) == daily.success # None /\ daily.error = None

\* prepareCompletedBenchLmDailySource: the check of the same day is done.
Completed(r) ==
    /\ daily.success # None /\ daily.error = None
    /\ Today(daily.success) = Today(invocation[r].at)

AwaitCompleted(r) ==
    LET i == invocation[r]
    IN  /\ At(r, "await")
        /\ Local(r, CASE Completed(r) /\ daily.success \in DOMAIN manifest ->
                             [i EXCEPT !.pc = "litellm", !.benchlm = manifest[daily.success],
                                       !.seen = daily.success]
                      [] Completed(r) /\ daily.success \notin DOMAIN manifest ->
                             [i EXCEPT !.pc = "record"]
                      [] ~Completed(r) /\ i.polls < MaxPolls ->
                             [i EXCEPT !.pc = "claim", !.polls = @ + 1]
                      [] OTHER -> [i EXCEPT !.pc = "record"])
        /\ UNCHANGED <<outside, daily, manifest, snapshots, tables, clock, faults>>

\* Slip: a failed check keeps its lease.
FetchBenchLm_KeepsLease(r, outcome) ==
    /\ At(r, "fetch")
    /\ Local(r, IF outcome = "answered"
                THEN [invocation[r] EXCEPT !.pc = "persist", !.benchlm = served.benchlm,
                                           !.seen = invocation[r].at]
                ELSE [invocation[r] EXCEPT !.pc = "record"])
    /\ UNCHANGED <<outside, daily, manifest, snapshots, tables, clock, faults>>

\* prepareBenchLmSource: the six artifacts, fresh or rehydrated after a 304.
FetchBenchLm(r, outcome) ==
    /\ At(r, "fetch")
    /\ Local(r, IF outcome = "answered"
                THEN [invocation[r] EXCEPT !.pc = "persist", !.benchlm = served.benchlm,
                                           !.seen = invocation[r].at]
                ELSE [invocation[r] EXCEPT !.pc = "release"])
    /\ UNCHANGED <<outside, daily, manifest, snapshots, tables, clock, faults>>

\* persistBenchLmDailySource: the snapshots, then the manifest.
PersistDaily(r, lost) ==
    LET i == invocation[r]
    IN  /\ At(r, "persist") /\ Replied(r, "complete", lost) /\ Loses(lost)
        /\ snapshots' = snapshots \cup {<<"benchlm", 0, i.benchlm>>}
        /\ \/ manifest' = Put(manifest, i.at, i.benchlm)
           \/ lost /\ UNCHANGED manifest
        /\ UNCHANGED <<outside, daily, tables, clock>>

\* Slip: whoever finishes completes the check.
CompleteDailyCheck_Anyone(r, lost) ==
    /\ At(r, "complete") /\ Replied(r, "litellm", lost) /\ Loses(lost)
    /\ daily' = [success |-> invocation[r].at, error |-> None]
    /\ UNCHANGED <<outside, manifest, snapshots, tables, clock>>

\* completeBenchLmDailyCheck: only under the lease that was claimed.
CompleteDailyCheck(r, lost) ==
    /\ At(r, "complete") /\ Loses(lost)
    /\ IF daily.error # None /\ daily.error.owner = r
       THEN /\ daily' = [success |-> invocation[r].at, error |-> None]
            /\ Replied(r, "litellm", lost)
       ELSE Go(r, "release") /\ UNCHANGED daily
    /\ UNCHANGED <<outside, manifest, snapshots, tables, clock>>

\* releaseBenchLmDailyCheck, in the catch block.  Its own failure is caught: applied or
\* not, the run goes on to record what it failed of.
ReleaseDailyCheck(r, lost) ==
    /\ At(r, "release") /\ Loses(lost)
    /\ \/ daily' = IF daily.error # None /\ daily.error.owner = r
                   THEN [daily EXCEPT !.error = None] ELSE daily
       \/ lost /\ UNCHANGED daily
    /\ Local(r, [invocation[r] EXCEPT !.pc = "record", !.left = lost])
    /\ UNCHANGED <<outside, manifest, snapshots, tables, clock>>

\* Slip: the failure is recorded where it occurred.
RecordFailure_InPlace(r) ==
    /\ At(r, "record") /\ Ends(r, "failed")
    /\ daily' = IF invocation[r].polls = MaxPolls
                THEN [daily EXCEPT !.error = [until |-> 0, owner |-> None]] ELSE daily
    /\ UNCHANGED <<outside, manifest, snapshots, tables, clock, faults>>

\* recordFailure: never on the row of the daily check, which another run may own.
RecordFailure(r) ==
    /\ At(r, "record") /\ Ends(r, "failed")
    /\ UNCHANGED <<outside, daily, manifest, snapshots, tables, clock, faults>>
-----------------------------------------------------------------------------
(***************************************************************************)
(* The other sources, and what is derived from them.                       *)
(***************************************************************************)

\* prepareLiteLlmSource; a 304 gives the content of the stored snapshot.
FetchLiteLlm(r, outcome) ==
    /\ At(r, "litellm")
    /\ Local(r, IF outcome = "answered"
                THEN [invocation[r] EXCEPT !.pc = "lmarena", !.litellm = served.litellm]
                ELSE [invocation[r] EXCEPT !.pc = "record"])
    /\ UNCHANGED <<outside, daily, manifest, snapshots, tables, clock, faults>>

\* fetchLmArenaSubset, one page: a 304 answers with the stored page and its x-revision.
FetchPage(r, p, outcome, notModified) ==
    LET i == invocation[r]
        dataset == IF notModified THEN rows[i.previous].dataset[p] ELSE served.dataset
    IN  /\ At(r, "lmarena") /\ i.page[p] = None /\ \A q \in 1 .. p - 1 : i.page[q] # None
        /\ notModified => i.previous # None /\ i.previous.page[p] = served.page[p]
        /\ Local(r, CASE outcome = "answered" ->
                            [i EXCEPT !.page[p] = [content |-> served.page[p], dataset |-> dataset]]
                      [] outcome = "transient" -> [i EXCEPT !.pc = "hub"]
                      [] outcome = "refused" -> [i EXCEPT !.pc = "record"])
        /\ UNCHANGED <<outside, daily, manifest, snapshots, tables, clock, faults>>

\* fetchLmArenaHubParquetPages: every page at one pinned revision of the dataset.
FetchHub(r, outcome) ==
    /\ At(r, "hub")
    /\ Local(r, IF outcome = "answered"
                THEN [invocation[r] EXCEPT !.pc = "lmarena", !.page =
                        [p \in LPage |-> [content |-> served.page[p], dataset |-> served.dataset]]]
                ELSE [invocation[r] EXCEPT !.pc = "record"])
    /\ UNCHANGED <<outside, daily, manifest, snapshots, tables, clock, faults>>

\* The pages share one x-revision.
OneDataset(r) == \A p, q \in LPage : invocation[r].page[p].dataset = invocation[r].page[q].dataset

Candidate(r) ==
    LET i == invocation[r]
    IN  [catalog |-> i.catalog, benchlm |-> i.benchlm, litellm |-> i.litellm,
         page |-> [p \in LPage |-> i.page[p].content]]

Unchanged(r) == Candidate(r) = invocation[r].previous

\* The merge, the revision's name, and the branch for an unchanged one.
DeriveRevision(r) ==
    /\ At(r, "lmarena") /\ \A p \in LPage : invocation[r].page[p] # None
    /\ Go(r, CASE ~OneDataset(r) -> "record"
               [] OneDataset(r) /\ Unchanged(r) -> "responses"
               [] OneDataset(r) /\ ~Unchanged(r) -> "evidence")
    /\ UNCHANGED <<outside, daily, manifest, snapshots, tables, clock, faults>>

\* Slip: only what was fetched under the lease is written.
WriteEvidence_BenchLm(r, lost) ==
    /\ At(r, "evidence") /\ Replied(r, "row", lost) /\ Loses(lost)
    /\ UNCHANGED <<outside, daily, manifest, snapshots, tables, clock>>

\* writeEvidence: every snapshot the revision refers to is in R2 before its row is in D1.
\* Nothing refers to what an interrupted run wrote of them.
WriteEvidence(r, lost) ==
    /\ At(r, "evidence") /\ Replied(r, "row", lost) /\ Loses(lost)
    /\ snapshots' = snapshots \cup (Sources(Candidate(r)) \ {<<"benchlm", 0, invocation[r].benchlm>>})
    /\ UNCHANGED <<outside, daily, manifest, tables, clock>>
-----------------------------------------------------------------------------
(***************************************************************************)
(* executePublicationStatementPlan: staging batches, one commit, cleanup.  *)
(***************************************************************************)

\* A pending row nobody has touched for the ownership window is taken over.
Expired(r) ==
    LET new == Candidate(r)
    IN  /\ new \in DOMAIN rows /\ rows[new].state = "pending"
        /\ rows[new].checked + Window < invocation[r].at

Pending(r) ==
    [state |-> "pending", owner |-> r, checked |-> invocation[r].at, facts |-> FALSE,
     seen |-> invocation[r].seen, dataset |-> [p \in LPage |-> invocation[r].page[p].dataset]]

\* Slip: an existing row is replaced.
StageRow_Replaces(r, lost) ==
    /\ At(r, "row") /\ Replied(r, "facts", lost) /\ Loses(lost)
    /\ rows' = Put(rows, Candidate(r), Pending(r))
    /\ UNCHANGED <<outside, daily, manifest, snapshots, active, responses, cacheSet, clock>>

\* The first staging batch: the insertion fails if the revision exists.
StageRow(r, lost) ==
    /\ At(r, "row") /\ Loses(lost)
    /\ IF Candidate(r) \in DOMAIN rows /\ ~Expired(r)
       THEN Go(r, "cleanup") /\ UNCHANGED rows
       ELSE Replied(r, "facts", lost) /\ rows' = Put(rows, Candidate(r), Pending(r))
    /\ UNCHANGED <<outside, daily, manifest, snapshots, active, responses, cacheSet, clock>>

\* The facts are inserted under the name of the revision, whoever owns its row.
StageFacts(r, lost) ==
    /\ At(r, "facts") /\ Loses(lost)
    /\ IF Candidate(r) \in DOMAIN rows /\ ~rows[Candidate(r)].facts
       THEN Replied(r, "responses", lost) /\ rows' = [rows EXCEPT ![Candidate(r)].facts = TRUE]
       ELSE Go(r, "cleanup") /\ UNCHANGED rows
    /\ UNCHANGED <<outside, daily, manifest, snapshots, active, responses, cacheSet, clock>>

\* The response set is named after the revision, checkedAt and the attempt.
StageResponses(r, lost) ==
    /\ At(r, "responses") /\ Replied(r, "commit", lost) /\ Loses(lost)
    /\ responses' = Put(responses, r, Candidate(r))
    /\ UNCHANGED <<outside, daily, manifest, snapshots, rows, active, cacheSet, clock>>

\* Slip: the attempt is not asked for.
Owns_ByName(r) == Candidate(r) \in DOMAIN rows

\* UPDATE ... WHERE revision = ? AND publication_attempt_id = ?
Owns(r) == Candidate(r) \in DOMAIN rows /\ rows[Candidate(r)].owner = r

\* A pointer needs its response set, which a retention in between may have removed.
HasResponses(r) == r \in DOMAIN responses

\* The pointer triggers of migration 0006 let the commit batch through.
Commits(r) ==
    /\ HasResponses(r)
    /\ IF Unchanged(r) THEN active = Candidate(r) ELSE Owns(r)

\* Response sets that survive: the active one and the newest other one.
Kept(r) ==
    {a \in DOMAIN responses : a = r \/ \A b \in DOMAIN responses \ {r, a} :
                                            invocation[b].at < invocation[a].at}

CommittedRows(r) ==
    [c \in DOMAIN rows |->
        CASE c = Candidate(r) /\ Unchanged(r) -> [rows[c] EXCEPT !.checked = invocation[r].at]
          [] c = Candidate(r) /\ ~Unchanged(r) -> [rows[c] EXCEPT !.state = "published"]
          [] c # Candidate(r) /\ ~Unchanged(r) /\ rows[c].state = "published" ->
                 [rows[c] EXCEPT !.state = "superseded"]
          [] OTHER -> rows[c]]

\* The commit batch; its reply may be lost.
Commit(r, lost) ==
    /\ At(r, "commit") /\ Loses(lost)
    /\ IF Commits(r)
       THEN /\ rows' = CommittedRows(r)
            /\ active' = IF Unchanged(r) THEN active ELSE Candidate(r)
            /\ cacheSet' = r
            /\ responses' = [a \in Kept(r) |-> responses[a]]
            /\ IF lost THEN Go(r, "cleanup") ELSE Ends(r, "done")
       ELSE ~lost /\ Go(r, "cleanup") /\ UNCHANGED tables
    /\ UNCHANGED <<outside, daily, manifest, snapshots, clock>>

OwnedPending(r) ==
    {c \in DOMAIN rows : c = Candidate(r) /\ rows[c].state = "pending" /\ rows[c].owner = r}

\* The cleanup batch removes what this attempt staged and nobody published; applied or
\* not, its failure is not reported.
CleanUp(r, lost) ==
    /\ At(r, "cleanup") /\ Go(r, "record") /\ Loses(lost)
    /\ \/ /\ rows' = [c \in DOMAIN rows \ (IF Unchanged(r) THEN {} ELSE OwnedPending(r)) |-> rows[c]]
          /\ responses' = [a \in DOMAIN responses \ ({r} \ {cacheSet}) |-> responses[a]]
       \/ lost /\ UNCHANGED <<rows, responses>>
    /\ UNCHANGED <<outside, daily, manifest, snapshots, active, cacheSet, clock>>
-----------------------------------------------------------------------------
(***************************************************************************)
(* The environment.                                                        *)
(***************************************************************************)

LegacyTick ==
    /\ clock < MaxClock /\ clock' = clock + 1
    /\ UNCHANGED <<outside, daily, manifest, snapshots, tables, invocation, faults>>

Changes == served.benchlm + served.litellm + served.dataset + catalog - 4

UpstreamChanges ==
    /\ Changes < MaxChanges
    /\ \/ served' = [served EXCEPT !.benchlm = @ + 1] /\ UNCHANGED catalog
       \/ served' = [served EXCEPT !.litellm = @ + 1] /\ UNCHANGED catalog
       \/ catalog' = catalog + 1 /\ UNCHANGED served
       \/ \E changed \in SUBSET LPage :
             /\ served' = [served EXCEPT !.dataset = @ + 1, !.page = [p \in LPage |->
                                IF p \in changed THEN served.dataset + 1 ELSE @[p]]]
             /\ UNCHANGED catalog
    /\ UNCHANGED <<daily, manifest, snapshots, tables, invocation, clock, faults>>

\* A call is rejected without effect, or the invocation is killed.
InvocationFails(r) ==
    /\ faults < MaxLegacyFaults /\ faults' = faults + 1
    /\ \/ invocation[r].pc \in DOMAIN Busy /\ Go(r, Busy[invocation[r].pc])
       \/ ~(invocation[r].pc \in {"new", "done", "failed", "dead"}) /\ Ends(r, "dead")
    /\ UNCHANGED <<outside, daily, manifest, snapshots, tables, clock>>

LegacyNext ==
    \/ LegacyTick \/ UpstreamChanges
    \/ \E r \in Refreshes :
          \/ Start(r) \/ ReadActive(r) \/ AwaitCompleted(r) \/ DeriveRevision(r)
          \/ RecordFailure(r) \/ InvocationFails(r)
          \/ \E lost \in BOOLEAN :
                \/ ClaimDailyCheck(r, lost) \/ PersistDaily(r, lost)
                \/ CompleteDailyCheck(r, lost) \/ ReleaseDailyCheck(r, lost)
                \/ WriteEvidence(r, lost) \/ StageRow(r, lost) \/ StageFacts(r, lost)
                \/ StageResponses(r, lost) \/ Commit(r, lost) \/ CleanUp(r, lost)
          \/ \E outcome \in Outcome :
                \/ FetchBenchLm(r, outcome) \/ FetchLiteLlm(r, outcome) \/ FetchHub(r, outcome)
                \/ \E p \in LPage, notModified \in BOOLEAN : FetchPage(r, p, outcome, notModified)

LegacySpec == LegacyInit /\ [][LegacyNext]_legacyVars
-----------------------------------------------------------------------------
LegacyTypeOK ==
    /\ daily.success \in 1 .. MaxClock \cup {None}
    /\ daily.error = None \/ daily.error.owner \in Refreshes
    /\ \A c \in DOMAIN rows : c \in LegacyRevision /\ rows[c].owner \in Refreshes
    /\ active \in LegacyRevision \cup {None}
    /\ cacheSet \in Refreshes \cup {None} /\ DOMAIN responses \subseteq Refreshes
    /\ \A r \in Refreshes : invocation[r].benchlm \in 0 .. MaxChanges + 1

(* Two checks that complete one after the other are of different days: the *)
(* lease keeps a second run of the day away, and one that lost its lease   *)
(* while it fetched cannot complete over the run that took it.             *)
OneCheckPerDay ==
    [][daily'.success # daily.success /\ daily.success # None
          => Today(daily'.success) # Today(daily.success)]_legacyVars

(* A run publishes BenchLM facts that were checked on its own day, also    *)
(* when another run made the check.                                        *)
FactsAreOfToday ==
    \A r \in Refreshes : invocation[r].pc \in {"lmarena", "evidence", "row", "facts", "commit"}
        => Today(invocation[r].seen) = Today(invocation[r].at)

(* A run that succeeded has given its lease back, and one that failed too, *)
(* unless it never learnt of its claim or its release failed as well.  What*)
(* is left behind keeps the others away no longer than the lease it is.    *)
NoLeaseLeftBehind ==
    daily.error # None =>
        LET owner == invocation[daily.error.owner]
        IN  /\ owner.pc # "done"
            /\ owner.pc = "failed" => owner.left
            /\ daily.error.until = owner.at + Lease

(* A 304 and a waiting run can always be answered: what the rows and the   *)
(* completed check refer to is in R2 before they refer to it.              *)
EvidenceFirst ==
    /\ \A c \in DOMAIN rows : Sources(c) \subseteq snapshots
    /\ daily.success # None => /\ daily.success \in DOMAIN manifest
                               /\ <<"benchlm", 0, manifest[daily.success]>> \in snapshots

(* What is published was assembled from one revision of the LMArena        *)
(* dataset, with all its facts, and has its own response set.              *)
PublishedIsWhole ==
    active # None => /\ rows[active].state = "published" /\ rows[active].facts
                     /\ \A p, q \in LPage : rows[active].dataset[p] = rows[active].dataset[q]
                     /\ cacheSet \in DOMAIN responses /\ responses[cacheSet] = active

Served == IF active = None THEN None ELSE <<active, cacheSet>>
Retired == {c \in DOMAIN rows : rows[c].state = "superseded"}

LegacyView == INSTANCE PublishedView WITH
    Revision <- LegacyRevision,
    Owner    <- Refreshes,
    served   <- Served,
    retired  <- Retired

(* Refreshes that overlap, expire and lose replies change what is served   *)
(* as PublishedView allows: no gap, and no return of a replaced revision.  *)
(* The first disjunct adds nothing to the subscript: it is quick to decide. *)
LegacyKeepsView ==
    [][UNCHANGED <<active, cacheSet, rows>> \/ LegacyView!ViewNext]_<<Served, Retired>>

(* However invocations overlap and are killed, the daily check is shared, what *)
(* is referred to is in R2, and what is published is whole.                    *)
RefreshIsSafe ==
    /\ LegacyTypeOK
    /\ FactsAreOfToday
    /\ NoLeaseLeftBehind
    /\ EvidenceFirst
    /\ PublishedIsWhole
=============================================================================
