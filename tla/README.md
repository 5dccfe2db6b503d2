# TokenBench: models and proofs

TokenBench (Cloudflare Workers, D1, R2, Durable Objects, Pages functions and a
React front end) publishes a catalog of AI plans and API prices and a set of
benchmark leaderboards. Two ingestion Workers refresh the data in small
checkpointed steps; the public API serves whatever was published last. This
directory holds TLA+ models of that machinery, TLC runs on small instances and
TLAPS proofs for instances of every size. Paths below are relative to `src/`.

## 1. Inventory

| Part | Source | State | Operations | What is hard about it |
| --- | --- | --- | --- | --- |
| Shared contracts | `workers/_shared/checkpointed-ingestion.ts`, `src/ingestion/cadence.ts` | none | legal transitions, retry time, cadence keys | boundaries of time arithmetic |
| Catalog coordinator | `workers/catalog-ingest/src/coordinator.ts` | cycle record and alarm in Durable Object storage | `start`, `status`, `alarm` | `start` runs at the awaits of `alarm`; at-least-once alarms; crashes |
| Catalog cycle | `workers/catalog-ingest/src/catalog-cycle.ts` | R2 manifest and artifacts, D1 cycle row and step receipts | nine steps, one per alarm | D1, R2 and storage are written one after the other |
| Catalog publication | same file, migrations 0001, 0005, 0011 | revisions, response sets, two pointers | candidate batch, two publication batches | pointers must move together and only from the frozen baseline |
| Benchmark coordinator | `workers/benchmark-ingest/src/coordinator.ts` | cycle record, checkpoint, alarm | twelve phases, one step per alarm | two storage keys, storage before D1, cursor loops, retries |
| Benchmark sources | `workers/benchmark-ingest/src/source-steps.ts` | checkpoint, content-addressed R2 objects | conditional requests, assembly, LMArena pages by two transports | upstream publishes while the cycle retrieves; bytes reused from old cycles |
| Benchmark facts | `benchlm.ts`, `benchlm-public-leaderboard.ts`, `lmarena.ts`, `litellm.ts`, `openrouter-normalization.ts`, `normalized-merge.ts`, `comparison-derivation.ts`, `candidate-derivation.ts` | none | parse, project, join by name, merge, pair, partition, read back | a guess at an ambiguous name; what a projection loses; order |
| Benchmark publication | `candidate-storage.ts`, `partitioned-publication.ts`, `model-directory-publication.ts`, `cache-partitions.ts`, `final-publication.ts`, migrations 0004, 0006, 0009 | revisions owned by an attempt, facts, profiles, response partitions, three pointers | staging, validation, final batch, cleanup | ownership of identical content, catalog changing underneath, retention |
| Legacy refresh | `workers/benchmark-ingest/src/index.ts` | daily check lease, revisions, R2 evidence | claim, fetch, wait, derive, publish, clean up; `republishCache` | lease expiry, overlapping invocations, retention of response sets |
| Benchmark read path | `functions/api/benchmarks/**`, `functions/_shared/**`, `functions/sitemaps`, `functions/compare` | none (reads D1) | stored response, active facts, newest complete set, directory, profiles, pages | several queries to one answer while revisions move |
| Catalog read path | `functions/api/catalog.ts`, `src/frontend/catalog-cache.ts`, `use-catalog.ts` | one entry of browser storage | stored, rebuilt and checked-in responses; loads of many tabs | late loads, 304 against what another tab stored |
| Rows of a leaderboard | `src/benchmarks/leaderboards.ts`, `value.ts`, `api-projections.ts`, `leaderboard-query.ts`, `functions/_shared/benchmark-leaderboard-projection.ts` | none | build, project, read back, filter, sort, page, accept | three programs decide what a row may be |
| Leaderboard pages | `src/frontend/use-benchmarks.ts`, `benchmark-cache.ts`, `src/pages/leaderboards-page.tsx` | requests, two caches, URL and page state | filters, cursors, retry, recovery | answers out of order, aborted bodies, a list that is replaced |
| Newsletter | `src/frontend/newsletter-signup.tsx`, `functions/api/newsletter/subscribe.ts`, `functions/_shared/brevo.ts` | Brevo contacts | subscribe | a call given up that is accepted later |
| Campaign scripts | `scripts/create-brevo-campaign-draft.ts`, `scripts/generate-monthly-cheatsheet.ts` | lock, pending record, receipt, bundle files, Brevo drafts | prepare, lock, post, reconcile; generate | stale locks, crashes around the POST, files read one by one |
| Calculator | `src/App.tsx`, `src/frontend/calculator-state.ts`, `calculator-share-state.ts`, `src/catalog/calculator.ts`, `subscription-api-calculator.ts` | selection, mapping mode, flags of its two effects, address | choose, mix, price, share, open a link, repair after a catalog | effects that run one render late; figures rounded apart from each other; links that outlive their catalog |
| Other pure logic | the rest of `src/catalog/*` | none | validation, filters | limits of fields |

The cron trigger calls `start()` of a singleton Durable Object. `start()` inserts
a cycle row in D1, stores the cycle and sets an alarm. Each alarm runs one step
of the cycle, persists its receipt and the cycle row in D1 and the cycle record
and the next alarm in Durable Object storage. The last steps validate the
candidate, move the public pointers in one guarded D1 batch, and write the
receipt. The read path only ever looks at D1, and the pages only at the read
path; the scripts take the published facts from files.

What makes each part correct:

* publication: one published revision; catalog pointer and response pointer
  always agree; nothing replaced comes back; a batch has its whole effect or none;
* coordinators: a cycle resumes where it stopped, is never published without
  readers having been given it, has an alarm while it has work, and ends;
* sources and facts: what is published was served together, everything once, and
  nobody's figures are given to somebody else;
* legacy refresh: one check a day however many run, evidence before reference;
* readers: an answer is of one revision, called fresh only when it is, and
  continued or revalidated only against itself;
* pages: what is shown belongs to what is asked now, and every wait ends; what the
  calculator recommends, shows and shares is one computation;
* scripts: one draft for a revision pair, whatever crashes, and no fact in it that
  two published revisions do not show.

## 2. Modules

| Module | Models | Role |
| --- | --- | --- |
| `Nothing` | | the value `None` |
| `CheckpointedIngestion` | shared contracts | states, legal transitions, cadence; constant operators |
| `PublishedView` | what a reader is promised | abstract specification |
| `CatalogPublication` | D1 publication tables and the batches of the catalog | implements `PublishedView`, for any number of racing cycles |
| `CatalogIngest` | coordinator and cycle of the catalog | extends `CatalogPublication`; shown to act on the tables by its protocol |
| `CatalogIngest_proofs` | | proofs about the two: the tables, what the coordinator keeps whatever happens, and what faults may cost |
| `BenchmarkPublication` | D1 publication tables of the benchmarks, every statement that writes them, and `republishCache` | implements `PublishedView`, for cycles and republications in any order |
| `BenchmarkPublication_proofs` | | proofs about it |
| `BenchmarkIngest` | coordinator and phases of a benchmark cycle | extends `BenchmarkPublication`; shown to act on the tables by its protocol |
| `BenchmarkIngest_proofs` | | proofs about it, and through the protocol what is proved of the tables |
| `SourceSteps` | retrieval and normalisation against upstreams that move | state machine with faults |
| `SourceSteps_proofs` | | proofs about it |
| `BenchLmBundle` | what BenchLM publishes, its projections and its batch | pure algorithm over enumerated publications |
| `CandidateFacts` | from all batches to the facts of a revision | pure algorithm over enumerated publications |
| `LegacyRefresh` | `refreshBenchmarkRevision` | state machine; implements `PublishedView` |
| `LegacyRefresh_proofs` | | proofs about it |
| `RequestReaders` | the benchmark endpoints, query by query | state machine over tables that move |
| `RequestReaders_proofs` | | proofs about it |
| `LeaderboardRows` | from the facts to the page a browser accepts | pure algorithm over enumerated facts |
| `LeaderboardBrowsing` | a leaderboard page and its requests | state machine with liveness |
| `CatalogReading` | `GET /api/catalog` and the pages that load it | state machine with liveness |
| `Signup` | newsletter form, endpoint and Brevo | state machine with liveness |
| `SubscriptionArithmetic` | what the calculator computes, with its rounding | constant operators |
| `CalculatorPage` | the calculator page, its effects and its links | state machine with liveness |
| `Site_proofs` | | proofs about what a visitor meets: `LeaderboardBrowsing`, `CatalogReading`, `Signup`, the calculator |
| `CampaignOnce` | announce, create, record | abstract specification |
| `CampaignDraft` | the campaign script over its state directory | implements `CampaignOnce` |
| `CheatsheetBundle` | generator, deployment and readers of the bundle | state machine with crashes |
| `RevisionFacts` | the diff of two revisions, from their receipts to the newsletter | state machine over enumerated revisions |
| `Campaign_proofs` | | proofs about the scripts: `CampaignDraft`, `CheatsheetBundle`, `RevisionFacts` |
| `MCCatalogIngest`, `MCBenchmarkPublication`, `MCBenchmarkTables`, `MCBenchmarkIngest`, `MCRefresh`, `MCRequests`, `MCSite`, `MCCalculator`, `MCCampaign` | | instances for TLC |

`Slip:` operators are deliberate errors kept next to the definition they spoil;
substituting one for its definition must make a property fail.

`MCBenchmarkTables`, `MCRefresh`, `MCRequests`, `MCSite` and `MCCampaign` hold several
parts that share no state; a variable `part` says which of them moves in a behaviour, and a part that stays as
it is has one initial state. That is the product of the parts as far as
any of their properties can tell, without its states.

### CatalogPublication

A revision is named after its content and its cycle
(`catalog_<hash>_<cycle>`), so the cycle identifier stands for it; a response set
is `<revision>+cache-<cycle>`, here a pair. `revision` is `publication_state`,
`cached` the complete response sets, the two pointers are the two publication
state tables, and `manifest` keeps what publication reads from the R2 manifest:
the frozen baseline and whether the candidate changed. `Published` computes a
batch statement by statement; `PointersAllowed` is the triggers of migration 0011
and the foreign key of 0005, and a batch that breaks them has no effect.
`PublicationNext` lets cycles act in any order: it does not rely on the
coordinator.

### CatalogIngest

One action is the code between two awaits that other code can observe:

| Code | Actions |
| --- | --- |
| `alarm()` until its first D1 call, head of `runCatalogCycleStep` | `AlarmFires`, `DuplicateAlarm` (`Deliver`, `FirstCall`) |
| `completedStepResult` | `Replay` |
| the nine steps | `Acquire`, `Retrieve`, `PrepareManual`, `Stage`, `StageManifest`, `Validate`, `Publish`, `ConfirmPublication`, `Receipt` |
| `persistStep` | `Persist` |
| `storage.put` and `setAlarm`/`deleteAlarm` | `Put` (Durable Object storage coalesces them) |
| the catch block of `alarm()` | `Catch`, `FailRow` |
| `start()` | `StartBegin`, `StartExpire`, `StartInsert`, `StartPut` |
| environment | `Tick`, `Crash`, `CallRejects` |

`handler` is the one alarm invocation in flight, `starter` the `start()` calls.
A crash forgets both; the platform delivers the alarm of an unfinished handler
again. `requests` and `everServed` are history variables.

Abstractions. A tick is twelve hours: the step delay and the fallback back-off are
less than a tick, a provider reset falls in this tick or the next, and an
invocation sees at most one tick go by. The three retrieval steps are a constant
sequence, `Source`; a run uses all three or one. A 304 and a 200 with the same
content are one outcome; whether a candidate `differs` from its baseline is chosen
when an artifact is stored, so it is the same on a replay. `start()` may be called
at any tick, any number of times: cron, its duplicates, and the one-shot
maintenance trigger of `workers/benchmark-ingest/wrangler.toml`. The `force` flag
has no caller in the repository and is left out. The allowlist check of
`retrievalStep` has the outcome of a failed request. A rejected call has no
effect; one whose reply is lost is covered by a rejection of the call after it.

### BenchmarkPublication

A revision is named after what it was made from
(`deriveCandidatePartitions` hashes the fingerprint), here the pair of a catalog
revision and a content. Two cycles can therefore derive the same revision, and
most of the guards are about who owns it.

| Code | Definitions |
| --- | --- |
| `acquireStep`, `deriveStep` | `Freeze`, `Derive` |
| `ensurePendingBenchmarkRevision`, `assertOwnedPendingRevision` | `EnsurePending`, `Owned` |
| `stageBenchmarkFactPartition`, `validateStagedBenchmarkFacts` | `StageFact`, `FactsStaged` |
| `stageProfileBatch` | `StageProfile`, `ProfilesStaged` |
| `stageBenchmarkCachePartition` | `StageCacheKey`, `FillCacheKey`, `CacheStaged` |
| `validateCompleteBenchmarkCandidate` | `CandidateComplete`, `ValidateCandidate` |
| `publishBenchmarkCandidate` | `PublishReads`, then `PublishBatch` or `PublishEnds` |
| triggers of migration 0006, foreign keys of 0005 | `PointersAllowed` |
| `republishCache` | `RepublishReads`, `RepublishOpens`, `RepublishFills`, `RepublishCommits`, `RepublishFails` |
| retention of response sets | `Retained`, `CleanedUp` |
| `NEWEST_COMPLETE_STALE_CACHE_QUERY` | `Fallback` |

`work` is what a cycle froze and derived and the phase it has reached; it changes
when the step establishes the fact. The publish step reads first and sends a
batch built from what it read, so it is two actions, and other batches may come
between. The statements that stage a response key run one after the other:
`"part"` is the key after the first of them when it did not hold all chunks.
Only the number of Popular Models ranks matters of a week's publication.
`CatalogPublishes` moves the catalog underneath.

### BenchmarkIngest

| Code | Actions |
| --- | --- |
| `alarm()` and head of `runStep` | `AlarmFires`, `DuplicateAlarm` (`Deliver`, `FirstCall`) |
| `acquireStep` | `Acquire` |
| `retrieveBenchLmStep`, `assembleBenchLmStepHandler`, `retrieveLiteLlmStepHandler`, `retrieveLmArenaRevisionStepHandler` | `RetrieveBenchLm`, `AssembleBenchLm`, `RetrieveLiteLlm`, `RetrieveLmArenaRevision`, `SourceFails` |
| the LMArena pages step | `RetrieveViewerPage`, `ResolveParquet`, `DownloadParquet`, `ViewerFallsBack`, `PageFails`, `PagesAreThere` |
| `normalizeSourcesStep` | `NormalizeSources` |
| `deriveStep`, `requireManifest` | `DeriveCandidate`, `ManifestMismatch` |
| `stageFactsStep`, `stageProfilesStep`, `stageCacheStep` | `EnsurePendingRevision`, `StageFacts`, `StageProfiles`, `StageCache`, `FillCache` |
| `validateCandidateStep`, `publishCandidateStep` | `Validate`, `PublishStep`, `PublishCandidate` |
| `persist` | `Put` (storage), `Persist` (D1 and the alarm) |
| `retryOrFail`, the catch block of `alarm()` | `RetryOrFail`, `Catch`, `FailRow` |
| `start()` | `StartBegin`, `StartReceipt`, `StartExpire`, `StartInsert`, `StartPut` |
| `scheduled()` calling `republishCache`; the catalog Worker | `Others` |
| environment | `NextWeek`, `GrowsOld`, `Crash`, `TornPut`, `CallRejects` |

The benchmark coordinator writes storage first and D1 second, the catalog
coordinator the other way round; both orders are kept, since most of what can go
wrong lies between the two writes. A Durable Object makes the writes between two
awaits atomic only when no await lies in between; `persist` awaits the write of
the checkpoint before the write of the cycle, so `TornPut` lets a crash keep the
first alone.

Abstractions. A content hash is the content: `manifestObject` and the `hash` of
a checkpoint are manifests, and a manifest is the artifacts, pages and
partitions it lists. Time is the week in which `start()` is called (`week`), the
cycles that are older than a day (`overdue`), and a retry that is due when its
alarm fires. Whether a page is the last of its subset is up to the viewer.
Sources fail only in the phases of `FlakyPhase`, and a failure there may happen
any number of times: only the attempt counter stops it.

### SourceSteps

| Code | Actions |
| --- | --- |
| `freezeInputs`, `acquireStep` | `StartCycle` |
| `retrieveBenchLmArtifactStep`, `requestHeaders`, the 304 branch | `RetrieveBenchLm` (`NotModified`, `Reuse`) |
| `assembleBenchLmStep` | `AssembleBenchLm`, `AssembleTorn` (`Whole`) |
| `retrieveLiteLlmStep`, `retrieveLmArenaRevisionStep` | `RetrieveLiteLlm`, `RetrieveRevision` |
| the LMArena pages step: Dataset Viewer, then the parquet file of the Hub | `ViewerPage`, `ViewerFails`, `ResolveParquet`, `DownloadParquet` |
| `normalizationWorklist`, `normalizeSourceStep` | `Worklist`, `NormalizeSource` |
| the attempt counter; a crash after R2 and before the checkpoint | `RequestFails`, `Fail` |
| later phases; upstreams | `PublishCandidate`; `UpstreamPublishes`, `DatasetMoves`, `ViewerFollows` |

`BenchmarkIngest` models when these steps run, overlap and fail; this module
models what they bring. Bytes are named by the generation they hold, a digest is
the bytes, a key is content under the prefix of a cycle. Reading `Public`'s own
date apart from the bundle's is part of `Whole`.

### BenchLmBundle and CandidateFacts

A run enumerates the publications of the instance, one initial state each, and
takes each through the code: `Project` for `projectBenchLmArtifact`,
`ParseBenchLm` with its joins for `parseBenchLm`, and `FirstCycle` and `NextCycle`
for two cycles of which the second has any subset of the artifacts answered 304. `CandidateFacts` then normalizes LMArena,
LiteLLM and OpenRouter (`NormalizeLmArena`, `NormalizeLiteLlm`, `NormalizeOpenRouter`),
and merges (`Merge`), pairs (`ComparisonPairs`), partitions (`Derive`) and reads
back (`ReadBack`) them, with the public leaderboard (`Rejoined`) and the weekly list
(`PopularRanks`) that publication makes of the result. The constant `Publications`
varies what a name, a slug, a rank, an evidence class and a date may be, the
duplicates included; wording, scores and URLs are left out. The merge takes its
partitions in the order of the work list, since the result depends on it (section 6).

### LegacyRefresh

| Code | Actions |
| --- | --- |
| `refreshBenchmarkRevision`, its reads | `Start`, `ReadActive` |
| `CLAIM_BENCHLM_DAILY_CHECK` and its callers | `ClaimDailyCheck`, `AwaitCompleted` |
| `prepareBenchLmSource`, `persistBenchLmDailySource`, completion and release | `FetchBenchLm`, `PersistDaily`, `CompleteDailyCheck`, `ReleaseDailyCheck`, `RecordFailure` |
| LiteLLM, LMArena pages and parquet | `FetchLiteLlm`, `FetchPage`, `FetchHub` |
| assembling the candidate, R2 evidence | `DeriveRevision` (`OneDataset`, `Candidate`, `Unchanged`), `WriteEvidence` |
| `executePublicationStatementPlan` | `StageRow`, `StageFacts`, `StageResponses`, `Commit`, `CleanUp` |
| clock, upstreams; a kill, or a call that is rejected without effect | `LegacyTick`, `UpstreamChanges`, `InvocationFails` |

An action that writes has a parameter `lost`: the write is applied and its reply is not
received, so the run goes on in the catch block of that place (`Busy`, `Replied`) as if
nothing had been written. In the catch blocks themselves, `ReleaseDailyCheck` and
`CleanUp`, the write may also not be applied: they swallow their own failure, and the
run goes on to record what it failed of. Two ways of ending leave the daily check
leased: a claim that was applied and whose reply was lost leaves `benchLmLeaseId` null, so
nothing is released (`index.ts:2521-2531`), and a release that is rejected is caught
(`index.ts:2649-2654`). The history field `left` marks both. `NoLeaseLeftBehind` says that
there is no third: a run that succeeded has no lease, a run that failed only then, and
what is left keeps others away no longer than one lease from the start of the run.

No trigger of the deployed Workers calls this function; it is exported and tested,
and shares its statements with `republishCache`. `Commit` asks for the response set
that it points to (`HasResponses`): the foreign key of migration 0005 refuses the
pointer of a set that retention has taken. The model first left the key out; the
proof of `RefreshIsSafe` did not go through without it.

### RequestReaders and LeaderboardRows

`RequestReaders` has one action per query (`ReadCache`, `ReadProjection`,
`ReadOldProjection`, `ReadHistorical`, `ReadRevision`, `ReadFacts`, `ReadArchivedRows`,
`ReadArchivedProfiles`, `ReadEntry`, `ReadProfiles`, `ReadAlias`, `ReadModel`,
`ReadRoute`, `ReadPairs`, `ReadRelated`, `ReadWeek`, `ReadRows`, `ReadRowProfiles`,
`ReadSitemapPage`, `ReadSitemapProfiles`), each with the choice that the handler makes
of its result or of its failure; `Begin` is what it does before its first query. Eight
values of `endpoint` stand for the ways through the handlers: a board
that is stored whole, one with cursors, price-performance with archived routes,
a profile, the popular models, the model list, the model sitemap and a
comparison. Between two queries `Stage`, `Abandon`, `Publish`, `Recheck` and the batches
of `republishCache` move the tables: `RepublishReads`, `RepublishStages`,
`RepublishCommits` and `RepublishFails`, whose reply may be lost and whose cleanup may fail.
These are the statements of `BenchmarkPublication`; a set is complete or absent here, so
that the fallback of this module chooses among complete ones (`benchmark_torn_fallback` is
the run about the others). A republication dates its set by the snapshot that it has read,
so it may move the pointer to an earlier date than the revision's last check, and
`MayPointTo` (the foreign key and the trigger of migration 0006) is all that it must pass.
Its retention pass (`Retained`) leaves the active set and the newest other one, so sets
also go away. The set of a candidate that a newer check has overtaken may be among them, and
`Publish` then does not happen (the newest cycle's is never taken, `CandidateCacheSurvives`).
`PathsAgree` says what is left of the agreement of the two
paths: the stored response is of the active revision and never called fresh when the
rebuilt one would not be, and it agrees exactly while the set is one that a cycle made.
A directory
row carries the date of the publication that wrote it (`updated`), and the tag of a
profile page names that date and not the row: that the date tells the row is what the
proof of `RevalidationIsTrue` turns on.

A republication is made by the same derivation as the set it replaces: a response is
determined by revision, date and parameters. That is an assumption about the deployment
and not about the code. A Worker with a corrected derivation republishes other rows under
the same revision and date, and the tag (`functions/_shared/benchmark-db.ts:909-922`)
names revision, date, freshness and parameters and nothing else; such a republication is outside the model, and section 6 says what it
would do to `RevalidationIsTrue` and `ChainIsOneList`.

`LeaderboardRows` takes sets of facts through `buildLeaderboard` and
`cachedLeaderboardPaginationProjection` (`Ranked`, `Projected`),
`parseCompleteLeaderboardProjection` (`IsReadable`), the query (`Listed`, `Arranged`,
`PageOf`) and `isLeaderboardEnvelope` (`IsValid`). Money is an integer number of
twentieths, with which the three workload profiles are exact; text order is the
order of model numbers.

### LeaderboardBrowsing, CatalogReading, Signup

| Code | Actions |
| --- | --- |
| a render of `LeaderboardPage` with its effects | `RunEffects` |
| `load` of `useBenchmarkLeaderboard`, at its two awaits | `Reply`, `ReplyFails`, `Body`, `BodyFails`, `Rejected` |
| the visitor: filters, history, pages, retry | `Choose`, `PopState`, `GoToNextPage`, `GoToPreviousPage`, `Retry` |
| `GET /api/catalog` | `ReadStored`, `ReadEmpty`, `ReadPublished` |
| `loadCatalog`, `useCatalog` | `Open`, `RetryLoad`, `Receive`, `LoadFails` |
| a client of `?provider=` | `AskProvider` |
| `NewsletterSignup`, `submitSignup` | `Type`, `Refuse`, `Submit`, `Leave`, `Answer`, `ReceiveAnswer`, `Disconnect` |
| `subscribe.ts`, `brevo.ts` | `Handle`, `GiveUp`; Brevo: `Decide`, `LoseCall` |

Going back or forward moves the address first and then fires `popstate`: `PopState` sets
`address` to that of the entry, reads the filters from it (`Restored`), and renders only if
they differ from those chosen. The effect that writes the address runs when the filters
or the rows are others than before (`due`), so after a step back to an entry whose provider
is no longer offered the address keeps that provider over controls and rows that show All. `ControlsMatchRows`
therefore does not say that the address is the filter: it says that the address, read
again, gives the filter that controls and rows show.

A publication is one action in these modules. Of the filters one
that depends on published rows is kept, of the catalog which revision, which
provider and how old; of an address whether both sides accept it.

### SubscriptionArithmetic and CalculatorPage

| Code | Definitions |
| --- | --- |
| `deriveConversationWorkload`, `calculateApiEquivalentCost`, `compareSubscriptionWithApi` | `Derived`, `ApiCost`, `Compared` |
| `defaultApiEquivalentForPlan`, `defaultOfferForProvider`, `selectionForPlan` | `DefaultApiEquivalent`, `DefaultOffer`, `DefaultSelection` |
| `createEvenMix`, `redistributeModelMix`, `normalizeWeights` | `EvenMix`, `Redistribute`, `NormalizedMix` |
| `buildCalculatorSnapshot`, `capacityEvidenceFor` | `Priced`, `Rates`, `Capacity`, `Result`; `Throws` when a number is not safe |
| `encodeCalculatorShareState`, `decodeCalculatorShareState` | `Encode`, `Decode` |
| the two effects of `CalculatorPage` | `Hydrated` and `Reconciled`, together `RunsEffects` |
| the visitor | `OpensPage`, `ChangesProvider`, `ChangesPlan`, `TogglesModel`, `MovesSlider`, `EntersWorkload`, `OpensMapping`, `SharesLink` |
| `useCatalog`; the publication | `ReceivesCatalog`, `PublishesCatalog` |

React runs the effects of a commit before the next event of the visitor, so he
acts on a page that waits for none; an effect that changes something ends there
and runs again after the next render. A catalog may come between two of them.
Numbers are exact: `Rounded` is `roundedRatio`, halves up; the ratios of
`redistributeModelMix` and of the efficiency are floating-point in the code and may
differ from the exact ones at an exact half. Text of plans that decides whether
one is for a single person is the flag `individual`.

### CampaignDraft, CheatsheetBundle and RevisionFacts

Each file-system call or request that another run or a crash can come before is
an action: `CreateLock`, `InspectLock`, `JudgeLock`, `ClaimLock`, `RecoverLock`,
`UnlinkStale`, `RestoreLock`, `WriteLock`, `ConfirmLock`, `ReleaseLock`, `DropLock`
(`acquireReceiptLock` and its callees), `ReadReceipt`, `ListDrafts`, `VerifyDraft`,
`ReadPending`, `WritePending`, `PostDraft`, `PostReply`, `WriteReceipt`,
`RemovePending`, `SyncDirectory` (`createNewsletterCampaignDraft`). Inodes are given
out again, pids too; `PowerFails` loses directory entries that were not synced.
`putBack` is a history variable: the runs whose lock another run took for a stale one
and put back while they relied on it (`restoreClaimedLock`).
`CheatsheetBundle` does the same for `generateMonthlyCheatsheet`, whose files are moved
one by one, the signing deployment, and the script that reads the
five files one after another.

`RevisionFacts` has `PublishRevision` (a revision and its signed receipt),
`GenerateBundle` (`Readable`, `Verified`, `Acceptable`, `Diff`: `diffPublishedRevisions`
and the checks of its inputs) and `PrepareCampaign` (the envelopes and files an
operator hands to the script, its canonical checks and the dedupe key). A revision
holds its models and its price rows; no two sources share a route today, but the
validators and the diff admit rows that conflict, and the instance has them.

## 3. Plan

| Step | Modules | State |
| --- | --- | --- |
| 1 | `CheckpointedIngestion`, `PublishedView`, `CatalogPublication`, its proofs | done |
| 2 | `CatalogIngest` | model and runs done |
| 3 | `BenchmarkPublication`, `BenchmarkIngest` | model and runs done |
| 4 | `CampaignOnce`, `CampaignDraft`, `CheatsheetBundle` | model and run done |
| 5 | `RequestReaders`, `CatalogReading`: the queries of one request, the age of what is served | model and runs done |
| 6 | `LeaderboardBrowsing`: requests, aborts, caches, the walk through pages | model and run done |
| 7 | `LeaderboardRows`, `BenchLmBundle`, `CandidateFacts`: operators against what the next program accepts | model and runs done |
| 8 | `SourceSteps`, `LegacyRefresh`, `Signup` | models and runs done |
| 9 | `CatalogIngest_proofs`, `BenchmarkPublication_proofs`, `LegacyRefresh_proofs` | done |
| 10 | `RevisionFacts`, `SubscriptionArithmetic`, `CalculatorPage` | models and runs done |
| 11 | `SourceSteps_proofs`, `Site_proofs`, `Campaign_proofs`, `BenchmarkIngest_proofs`, `RequestReaders_proofs` | done |
| 12 | a schedule of retries; the other hooks of `use-benchmarks.ts` | not begun (section 7) |

What could still be proved is listed at the end of section 5.

## 4. Runs

Each run is one question about one part of the system, or about parts that are
checked side by side. The three violation runs check one statement of a document
each that the code does not keep (section 6).

Properties that are about one part of the system and one instance are conjuncts of
one property, with a name of their own; a counterexample shows which
of them is false. Each conjunct has a mutant.

| Property | Conjuncts |
| --- | --- |
| `CheckpointsAgree` | `CheckpointsInOrder`, `ResumesWhereItStopped`, `EndsTogether` |
| `OneViewIsServed` | `PublicationTypeOK`, `ReadersAgree`, `OnePublished` |
| `CandidateIsWhole` | `SourceTypeOK`, `EvidenceExists`, `RetrievedWasServed`, `PagesAreWhole`, `NormalizedOnce` |
| `RecordsAreTrue` | `DraftTypeOK`, `OneDraftPerLock`, `DraftIsOnRecord`, `ReceiptIsTrue` |
| `BundleIsOneVersion` | `SheetTypeOK`, `OneVersionPerOutput`, `ManifestIsMarker`, `AcceptedIsSigned` |
| `RefreshIsSafe` | `LegacyTypeOK`, `FactsAreOfToday`, `NoLeaseLeftBehind`, `EvidenceFirst`, `PublishedIsWhole` |
| `FactsAreWhole` | `BundleTypeOK`, `ReuseChangesNothing`, `RefusedForACause`, `NobodyGuessed`, `EligibleIsRanked`; `FactTypeOK`, `MergeRefusesRepeatsOnly`, `DerivedIsComplete`, `PairsHaveAddresses`, `WeeklyListIsPublic`, `LeaderboardRejoins` |
| `AnswersAreTrue` | `ReadersTypeOK`, `PathsAgree`, `FreshNamesCurrent`, `FactsOfOneRevision`, `RevalidationIsTrue`, `FailuresAreCovered`, `ChainIsOneList` |
| `WalksAreWhole` | `ListingIsComplete`, `SitemapMissesNothing` |
| `BoardsAreUnderstood` | `RowsTypeOK`, `ProjectionIsReadable`, `PageIsAccepted`, `WalkIsWhole`, `DefaultsChangeNothing`, `ControlsFindRows`, `FrontierDominates` |
| `ShowsWhatIsAsked` | `BrowsingTypeOK`, `EndsAsAsked`, `ControlsMatchRows`, `RanksArePlaced`, `WalkIsOneList`, `FailureKeepsRows`, `RefusedForItsFilter` |
| `LoadsAreTrue` | `ReadingTypeOK`, `LoadIsCurrent`, `RevalidationIsExact`, `LatestIsShown` |
| `SignupIsTrue` | `SignupTypeOK`, `ConfirmedIsContact`, `TrapIsSilent` |
| `CalculatorIsTrue` | `CalculatorTypeOK`, `MixIsWhole`, `PlanBelongs`, `ModelBelongs`, `LinkShowsTheSame`, `ResultAgrees` |
| `NewsIsTrue` | `FactsTypeOK`, `DropsAreBacked`, `ChangesAreAllTold`, `KeyNamesFacts`, `StoriesJoin`, `DropsWereOffered` |
| `NobodyWaitsForever` | `SomethingIsShown`, `SubmissionEnds`, and the rest of a leaderboard page and of the calculator |

| Run | Question | Instance |
| --- | --- | --- |
| `catalog_checkpoints` | Are checkpoints ordered, do storage and D1 agree on where to resume, does every cycle end? | 2 cycles, 2 days, all three sources, 1 crash or duplicate alarm, fair alarms |
| `catalog_faults` | Does the coordinator keep the publication protocol when `start()` overlaps and calls fail; is "published" ever recorded without effect; are requests bounded? | 2 cycles, 2 starters, 1 source, 2 faults of any kind |
| `benchmark_tables` | Do cycles of one week and republications keep the readers together, over a catalog that moves? Is what was retrieved of one publication, complete, and still there, while upstreams publish? | 2 cycles, 2 republications, 2 catalog revisions, 2 contents of 1 and 2 ranks; 3 BenchLM artifacts, 2 LMArena subsets of 1 and of 2 pages, then 1, 2 generations, 2 cycles, 2 attempts, 1 fault |
| `benchmark_faults` | Does a candidate consist of everything once, through failing sources and faults, and does the cycle end? | 1 cycle, 1 republication, every phase flaky, 2 artifacts, up to 2 pages, 2 faults, fair alarms |
| `benchmark_owners` | Do the steps keep to their own checkpoint and to the protocol when the next week begins? | 2 cycles, 2 weeks, 1 crash |
| `refresh` | Do overlapping legacy refreshes check once a day and publish whole revisions? Does normalisation guess, lose or refuse what it must not? | 3 invocations, one of them over at the start or never begun, lease and ownership of one tick, a day of 3, 5 ticks, 2 pages, 1 change, 1 fault (a kill, a rejected call or a lost reply); all publications of `MCPublications`, partitions of 2 rows, 3 popular ranks |
| `requests` | Is an answer of one revision, fresh only when it is, and continued and revalidated against itself? Do builder, reader and page agree on a row? | 8 endpoints, 3 revisions of up to 3 models, 1 republication, pages of 1, 2 requests, 2 ticks, 1 failed query; 108 sets of facts, 6 boards, pages of 2 |
| `site` | Does a page show what is asked now, and does it come to rest? Is a load of the catalog what the site could answer? Is who is confirmed a contact? Do the selection, the results and the links of the calculator hold together? Do three racing cycles keep the catalog tables together? | 3 revisions of up to 3 pages, 3 clicks, 1 trouble; 2 catalog revisions, 1 tab, 3 loads, 1 tick, 1 fault; 3 addresses, 2 submissions, 2 failures; 2 catalogs of 4 providers, 5 old links, 2 visits, 1 edit, 2 answers; 3 cycles |
| `campaign` | One draft whatever crashes? A bundle of one version? Are the facts of a newsletter those of the revisions it names? | 3 runs of 2 campaigns, 3 inodes, 1 fault; 2 generators, 2 versions, 2 artifacts, 2 faults; 3 revisions of 4 kinds, 3 answers of the catalog, 2 bundles, 1 campaign |
| `benchmark_torn_fallback`, `stale_evidence`, `calculator_mix` | violations, section 6 | the tables of `benchmark_tables` with one republication, the instance of `site`, and one provider with six models |

Bounds, and why they are enough. `Cycle`: an interleaving hazard needs two
owners; the third cycle of `site` adds a baseline that was itself
replaced. `Starter`: two calls are a cron trigger and its duplicate. `Source`: one where
order does not matter, three where it does. `MaxClock`, `MaxWeek`: the first
instant at which a cycle of an older cadence is found. `MaxCatalog = 2`: one
change underneath. `Fact`, `Profile`, `Key`: a first and a last element of
each cursor. `MaxPages = 2` and `PageCount`: a subset with a page that is not its
last, and one that shrinks. `MaxFaults`: two lets a fault hit the recovery from
another; runs with more actors have one. `FlakyPhase`: the retryable phases or none.
`MaxRequests = 3` of the catalog is the code's own constant. `BenchLm`: the artifact
with a date of its own and two that share one. `Refreshes`: one invocation that
publishes while another waits, after a third that has left something to replace.
`Run`: one that holds a lock, one that finds it stale, one that comes in between
(a second draft takes four, section 6; `Campaign_proofs` has any number);
`Inode`: one more than two locks need, so that one is given out again.
`LastRevision = 3`: a model that is there, goes and is found again under its
address. `Republishers`: one, which is enough for an older date in the cache and a set that
is gone; a behaviour of `requests` has it, or a third revision or profiles that cannot be parsed, and only for the three endpoints that read
response sets (`RepublicationMatters`), because all of it together takes too long;
`RequestReaders_proofs` has any number of both. `PageSize = 1`: each model is a page.
`MaxClicks = 3`: next page, another filter, and back to an entry of the history (a walk that
joins two lists takes five, section 6). `Offered`: a provider that leaves the list while it is chosen.
`MaxRevision = 3`: two successive diffs, of which the second begins where the first
ends. `MaxBundles = 2`: both are announced. `Catalogs`: the second drops plans, models
and a provider of the first, gives one a plan and makes one plan's models unsold.
`MaxVisits = 2`, `MaxEdits = 1`: who shares, after a change or an old link, and who opens.
`BasisPoints = 10`, `Million = 10`: shares that do not divide evenly, costs that round.

`CHECK_DEADLOCK FALSE` stands in every run because every instance really stops: cron
has nothing left to start once the instance's cycles have ended and its time is used up, a script or an
invocation ends, a visitor leaves. Symmetry is over
cycles, starters, republications, invocations and runs of the scripts, which no definition
names or orders; liveness runs use none.

`NoLostWakeup` is checked without rejected calls: with them the catch block of the catalog
coordinator's `alarm()` can lose the alarm that a `start()` has just set (section 6).

Fairness. `FairSpec` of the coordinators assumes that an alarm that is set is
delivered, that an invocation which was let in goes on to its next await, and
that a `start()` that has begun does too: the platform guarantees alarms at least
once and the coordinators catch every rejection. `CatalogIngest` has a clock, and
there time passes. `SiteSpec` assumes that React runs the effects of a render, that an
aborted request is rejected and one that is open is answered or fails, that the
queries of a catalog load end, and that the endpoint of the form answers, which
its own time limit for Brevo sees to. For the effects of the calculator that is weak
fairness of `RunsEffects`; `CalculatorFairness` writes out when that action is enabled and
changes something, because TLC's search for its successors does not end in reasonable
time where it evaluates `ENABLED`. The parts of an instance exclude each other, so one WF
of their disjunction is the conjunction of theirs. Nothing is assumed of cron, of sources,
publishers, visitors, Brevo, new weeks or faults.

## 5. Proofs

`CatalogIngest_proofs` begins with the tables of `CatalogPublication`, for every set
`Cycle` and with `None` outside it as the only assumption (`CatalogNone`):

* `PublicationInvariance`: `PublicationInv` is an invariant. `ReadersAgree` and
  `OnePublished` are not inductive: nothing in them keeps a batch from superseding
  the active revision without publishing its own, as when a cycle's frozen
  baseline is the very revision it has already replaced. That needs the history of
  the baselines: a baseline was public when it was frozen (`FrozenWasPublished`),
  the baseline of a published revision is no longer active (`BaselinesBehind`), and
  a final manifest that announces a new revision was written after its rows
  (`FinalWasStaged`). There is one lemma per action; `PublishBatchEffect` reduces
  the five statements of the batch to two outcomes, new responses of the same
  revision or a whole replacement, and the other proofs use only that.
* `PublicationTypeCorrect`, `ReadersAlwaysAgree` and `OneRevisionPublished` follow, and
  together `OneViewAlwaysServed`, which the run `site` checks on three cycles.
* `PointerCompareAndSwap`: an action property, from the same invariant. No run checks it.
* `PublicationImplementsView`: refinement of `PublishedView`, step by step.

It goes on with the coordinator, for any sources, cycles, `start()` calls, faults and
length of time. Assumptions: the bounds are positive (`IngestBounds`), no source is named like
another step (`SourceNames`), and `None` is none of the values (`IngestNone`).

* `IngestInvariance`: `IngestInv` is an invariant. A cycle is recorded in up to five
  places (storage, its row in D1, the handler, the handler's next record, a
  `start()` call) that a crash leaves out of step, so nothing the coordinator promises
  is inductive. The invariant says of each record that the completion markers reach
  its cursor (`Marked`), that the tables and R2 hold what the steps before the cursor
  left there (`Reached`), and that no other cycle which can still write has begun to
  (`Untouched`); and that one handler at most is in flight.
* From it: `IngestKeepsProtocol` (each step is one of `PublicationNext` or changes no
  table), and through it `IngestServesOneView` and `IngestImplementsView` from the
  theorems about the tables; `PublishedWasAlwaysServed`, `BaselineAlwaysHolds`,
  `IngestTypeCorrect`, `CheckpointsStayInOrder`.
* The second half separates what needs a hypothesis. With `NoCallRejects` (crashes,
  duplicates and overlaps, but no rejected call): `WakeInv` is an invariant, which
  follows the alarm from the result of a step to the put that sets it, and from it
  `WakeupIsNeverLost` and `CheckpointsAlwaysAgree`. The hypothesis is that of the run
  `catalog_checkpoints`; without it both are false (section 6). With any
  faults: `RequestsStayBounded`, by `RequestInv`, which accounts for every request in
  every record of the cycle.

`BenchmarkPublication_proofs`, for any sets of cycles, republications, contents, parts,
keys and weeks (`BenchmarkConstants`, `BenchmarkNone`):

* `TablesInvariance`: the final batch checks little of what it publishes, so
  `TablesInv` says what the steps before it left: the record of a cycle is sound
  (`WorkIsSound`), only its own steps touch its responses (`CyclesOwnResponses`), what
  `publishBenchmarkCandidate` read is still true when the batch arrives
  (`BatchIsCurrent`), and every time that a republication stamps is the start of a
  published cycle (`ChecksWerePublished`).
* From it: `OneViewAlwaysServed`, `PublishedAlwaysComplete`, the action properties
  `WeeksOnlyGrow` and `CandidateCacheAlwaysSurvives`, and `PublicationImplementsView`.

`BenchmarkIngest_proofs`, for any sources, cycles, republications, `start()` calls, pages,
faults (rejected calls and torn writes included) and weeks. Assumptions: the bounds are
positive and the weeks are numbered (`IngestBounds`), a candidate has finitely many
partitions, batches and responses (`CandidateIsFinite`), and `None` is no record
(`IngestNone`).

* `IngestInvariance`: `IngestInv` is `TablesInv` of the tables and `CoordinatorInv`.
  Storage has the cycle and the checkpoint under two keys; `start()` replaces one, a torn
  put keeps one, a rejected call lets `alarm()` fail a cycle whose checkpoint has gone on.
  `Fits` says how far apart the two can be: the checkpoint is that of the cycle, or one
  step ahead of it, or has something in it twice, and then no manifest is made of it
  (`parseBenchmarkCandidateManifest`), so the cycle cannot be published. Pages are counted
  in the checkpoint alone and are never repeated (`PagesSoFar`). `StorageIsRead` relates
  storage to what a handler has read, `ResultIsTrue` to what it will write, and
  `NamesAreFresh` keeps the identifier that a `start()` has drawn away from everything else.
  What a manifest in R2 says of a published cycle is never overwritten, because that
  cycle can no longer be at an earlier phase (`IsTrue`).
* From it: `IngestTypesAlwaysOK`, `PublishedWasAlwaysServed`, `CheckpointIsAlwaysOwn`,
  `EverythingAlwaysOnce`, and `CoordinatorKeepsProtocol`: each step is one of
  `PublicationNext` or changes no table. So `CoordinatorServesOneView` carries
  `OneViewIsServed`, `PublishedIsComplete` and `ImplementsView` over from the tables.
* There is a lemma for each kind of result (`CompletesKeep`, `EndsKeep`, `GoesOn`,
  `HandlerStops`, `AroundKeeps`), and one for each action that reduces it to these.

`SourceSteps_proofs`, for any artifacts, subsets, page counts, generations, cycles,
attempts and faults (`SourceAssumption`, `SourceNames`: the lists are of different names;
`SourceNone`):

* `SourceInvariance`: `SourceInv` is an invariant. A 304 is an answer about bytes that an
  earlier cycle stored, perhaps in an older projection, so every record that is kept
  anywhere has to be genuine (`RecordsAreGenuine`: its etag is that of the bytes its key
  names; and they are in R2, `Stored`). What is published is of one cycle (`OfOneCycle`), the
  records of a checkpoint were served during its cycle (`ServedSoFar`), and its fields say what the steps before
  have left (`PhasesInOrder`, `PagesSoFar`, `PartitionsSoFar`, `CursorInRange`).
* `NeverMixed` (`NeverTorn`) and `CandidateAlwaysWhole` follow.

`LegacyRefresh_proofs`, for any set of invocations, any pages and any lengths of
lease, window and day (`LegacyBounds`, `LegacyNone`):

* `LegacyInvariance`: `LegacyInv` is `LegacyTypes` and three parts that are proved
  apart. `LeaseInv`: who holds the daily check, or has left it leased for a cause, until
  when, and of which day the facts in hand are.
  `EvidenceInv`: what is already in R2. `TablesInv`: whose pending rows are staged how far.
* From it: `LegacyIsSafe`, `LegacyChecksOncePerDay`, `LegacyViewKept` and
  `LegacyImplementsView`. The last two say the same with and without the cold start.

`Campaign_proofs`, for any number of runs, campaigns, inodes and faults (`NoneIsNoRun`,
`FaultsAreCounted`), of generators, versions and artifacts (`ArtifactsAreSome`), and any
revisions, answers of the catalog and envelopes (`RevisionAssumption`: what
`validateNormalizedSourceBatch` sees to, that a row names a model of its revision and no
source prices a route of a model twice):

* `DraftInvariance`: `DraftInv` has two layers. The files hold each other up: a receipt on
  disk stays and a pending record is removed only after it (`ReceiptStays`), a receipt names
  a draft that was created (`FoundFirst`), and who posts has a pending record or a receipt on disk
  (`PendingStays`). None of that needs the lock. The lock protects what a run has read (`LockIsTrusted`), and only as long as no lock was
  put back under its owner (`putBack = {}`).
* `DraftRecordsAreTrue`: `RecordsAreTrue` for any number of runs. `DraftImplementsOnce`:
  each step is one of `CampaignOnce` or changes nothing it shows, while `putBack = {}`.
  The first attempt was at `AtMostOneDraft` without the condition; the step of the lock
  that is put back did not go through, and for a reason (section 6).
* `BundleInvariance` and `BundleIsAlwaysOneVersion`: one generator works in the directory
  (`OneGenerator`), its files lead up to the manifest (`FilesAreMoved`), and a reader goes on
  only with what it has compared (`ReaderCompared`).
* `FactsInvariance`: announced facts are the diff of the two revisions they name, and
  both stood the comparison with their catalog. A campaign joins that because manifest
  and newsletter together fix every field of the facts. `DropsAreReal`, `NothingIsLeftOut`,
  `KeysNameFacts`, `StoriesFit` and their union `NewsIsAlwaysTrue` follow.

`RequestReaders_proofs`, for any lists and slugs of the revisions, windows, page sizes,
clients, publications and failures. Assumptions: sizes are positive (`ReaderSizes`), the
lists are sequences of models and the endpoints are the eight (`ReaderLists`), and
`None` is no edition, row or status (`ReaderNone`).

* `RequestInvariance`: the tables agree (`TablesHold`): the pointer is to a set of the active
  revision, of its last check unless a republication made it (`PointerHolds`), and a
  republication holds a snapshot of something that was published (`RepublicationHolds`).
  Candidates are staged one at a time (`InOrder`), so a publication is later than everything in the directory
  (`RowsFollow`) and a row that is replaced gets a later date (`DirectoryMoves`). A request
  knows, at each query, an edition that was public since it began, the revision of the
  facts it has read, how many queries failed before it came there, and a row from which
  the directory can only have moved on (`ReadHolds`). What a client holds is determined by
  its tag, or by its tag and a row that the directory has passed since (`HeldHolds`,
  `SameTagSameBody`). One lemma says what a query must be sent with (`ContinueKeeps`), one
  what an answer must satisfy (`RespondKeeps`), and there is a short one for each action.
* From it: `AnswersStayTrue`, the property `AnswersAreTrue` of the run `requests`, and
  `AddressesStay`, the action property `AddressesAreKept`.

`Site_proofs` is about four parts that share no state.

* Newsletter, for every set of addresses, any part of which is accepted, and any bounds on
  submissions and failures (`Typable`: `None` is neither an address nor a number).
  `SignupInvariance`: that who is confirmed is a contact is not inductive; it needs that
  the answer a form acts on is the answer of the request it sent. So requests and
  calls keep the number they were given (`Numbered`), a call asks for what its request did
  (`CallsAreTheirs`), the form remembers what its active request was sent with
  (`RememberedInForm`), and an answer that is under way is true and awaited
  (`AnswersHold`). `SignupIsAlwaysTrue` follows.
* Catalog loads, for any revisions, providers, tabs, windows and faults (`Numbered`,
  `ReadingAssumption`, `ReadingNone`). `ReadingInvariance`: what browser storage holds is
  something a 304 may confirm (`IsConfirmable`), since a tag names a body and nothing else; a load that
  still asks has seen all that the site could answer (`LoadHolds`); the latest load of
  a tab is there until its outcome is shown (`TabHolds`). `LoadsAreAlwaysTrue` follows.
* Leaderboard pages, for any lists, pages, publications, troubles and clicks (`Listed`:
  each list gives its filters a number of pages; `BrowsingNone`). `BrowsingInvariance`: an
  aborted request leaves an open one behind it, which asks what the effect of the hook
  last saw (`RequestsAsk`), so what is at rest answers that (`OutcomeIsShown`). One run of the
  effects leaves nothing that a second would change (`Steady`), so controls
  and page agree before anyone clicks, and a change aborts at most two requests
  (`AbortedAreFew`). While the effect of the address has nothing to do, the address, read
  again, gives the controls (`AddressGives`): that is the invariant that a step back through
  the history keeps, and that the address is the filter is not.
  `LeaderboardShowsWhatIsAsked` follows.
* Calculator, for any catalogs, workloads and links (`CatalogsAssumption`: there is a
  catalog; `ArithmeticAssumption`: the two scales are positive and even). About the
  arithmetic: `RoundedIsNear`, `ApiCostIsNear`, `BreakEvenIsLeast`, `CheaperMeetsBreakEven`,
  `GivenShareFits`, and `ComparisonAgrees`: the four figures of a comparison never
  contradict each other, for every plan, cost and day, as `ResultAgrees` says of the
  result of a page.
* `PlanAlwaysBelongs` and `CalculatorTypeCorrect`, by the invariant `PageInv`: a page that
  waits for no effect has its plan, shown or crashed; each handler either keeps provider and
  plan or leaves an effect to run. The hypothesis `EachHasProviders` says that each
  catalog has a provider to choose. It is needed: a link that is opened under a
  catalog without one leaves the flag that skips the second effect set, and the next
  catalog is then not repaired (`App.tsx:121`, `App.tsx:141`). The catalog that the
  repository ships has providers.

`None` is a value of its own in every assumption; the code has `null` for it.

Only model-checked:

* liveness: `CycleEnds` of the coordinators and the parts of `NobodyWaitsForever`. It
  needs fairness and `ENABLED`, which the installed provers do not reason about;
* what folds and recursive functions compute for every input, which is induction
  over data: most of `BenchLmBundle`, `CandidateFacts` and `LeaderboardRows`, and of the
  calculator `MixIsWhole` (a sum of shares), `ModelBelongs` and `LinkShowsTheSame` (what
  is left of a sequence that was selected from);
* `WalksAreWhole` of `RequestReaders`: that a listing and the sitemap leave nothing out is
  about rows that are selected from and sorted, which is induction over data too.

## 6. Where documents and code differ

| Run | What happens |
| --- | --- |
| `benchmark_torn_fallback` | the fallback takes a prefix of the chunks for a whole response |
| `stale_evidence` | a stored catalog response says fresh although an observation in it is older than its window |
| `calculator_mix` | a slider moved twice gives the last of six models a share of -1; every later change is refused and the shared link opens to nothing |

The quoted lines are in `PROJECT.json` under `findings`. The models have more
behaviours that a reader of the documents would not expect. No run isolates these.

Coordinators:

* A redelivered last alarm of the catalog replays the receipt step and sets its alarm
  again (`catalog-cycle.ts:605`); the plan says that a terminal cycle leaves no alarm.
* A call that rejects after the batch fails a cycle whose revision is public
  (catalog `coordinator.ts:250`), and an overtaken handler writes a row from expired
  back to running (`catalog-cycle.ts:544`).
* An alarm is lost when `start()` comes between the last D1 write and the deletion of the
  alarm (catalog `coordinator.ts:265`, in the catch block; benchmark `coordinator.ts:1549`, without any
  fault). The catalog coordinator can hold two cycles at once, and make one more
  request for each crash (`RequestsBounded` says no more than that).
* A crash in the derive step makes the benchmark cycle fail on its next run
  (`coordinator.ts:1019`).
* The benchmark coordinator can leave a step without its marker, publish over a
  catalog that moved after validation, serve a candidate's responses from the
  fallback, and fail a cycle on the pending revision of an earlier one. When the
  sources return to the content of a superseded revision, every cycle fails
  (`partitioned-publication.ts:159`). An older republication may move the
  cache pointer back to an older `checked_at` (`index.ts:2478`).

Scripts:

* Brevo can be given two drafts for one revision pair, against the test "serializes
  concurrent attempts with an exclusive no-follow lock"
  (`create-brevo-campaign-draft.test.ts:851`) and the docstring of `ts:1401`. A run dies and
  leaves its lock. Two others judge it stale; the first recovers it, makes its own and
  reads receipt and drafts; the second then claims that new lock in place of the old one
  and notices that the inode is another. Before it links the lock back
  (`restoreClaimedLock`, `ts:958-989`) a fourth run finds no lock, does the whole job and
  leaves; the first finds its lock where it was and posts as well. It takes four runs, and
  no run here has as many; the proof of `AtMostOneDraft` failed at this
  step, and `putBack` in `OneDraftPerLock` is that step.

Sources and facts:

* The counts of a merged model depend on the order of the partitions
  (`normalized-merge.ts:25`); a comment of `candidate-derivation.ts` calls the order irrelevant.
* A name that two pages of an LMArena subset repeat fails the cycle; within a
  page it is dropped.
* Publication joins the public leaderboard by name once more, over the models of
  all sources (`final-publication.ts:67`).
* An editorial record replaces BenchLM's seed of the same pair with its featured rank.
* No step checks slug conflicts of models; the plan of 2026-08-11 asks for it.

Legacy refresh:

* A page that is answered 304 keeps the dataset revision it was stored under, so a
  refresh fails until the page itself changes.
* A straggler of the day before can make a second check of the day it ends in.
* A claim whose reply is lost, and a release that is rejected, leave the daily check leased
  by a run that has reported its failure (`index.ts:2521`, `index.ts:2649`); the next run waits
  out the lease.
* A waiting run compares the lease's end with its own `checkedAt`, not with the clock.

Read path:

* The ETag of `price-performance?includeArchived=1` depends on revision and
  freshness only, not on the archived rows. Within it a model can be both current
  and archived, which the page rejects.
* A comment of the tag (`benchmark-db.ts:909`) says that it includes every body field that can
  change; after a republication by a Worker with another derivation, the correction that
  `republishCache` is for, revision and date are what they were. A client that revalidates
  is then told 304 although the body is another, and a cursor, which binds only to the
  revision, may continue into the corrected list. No run shows it: the models have one derivation.
* A republication that has read its snapshot before a check leaves the earlier date in the
  cache, and its retention pass may take the set of a candidate that a newer check has overtaken.
* The cursor of the model list is an offset: pages repeat or skip rows after a publication.
* Fallbacks for profiles choose the newest snapshot, published or not.
* The model sitemap ends at the first page with unparsable rows, which are
  dropped before the page is compared with its length.
* The digest of a model list names neither status nor profile fallback, so a 304
  can confirm a stale status.
* A cursor is refused while the fallback serves a set of another revision.
* The profiles of a model keep their `checkedAt` after an unchanged refresh.
* The catalog's rebuilt answer ages by source observations, which an unchanged
  publication does not renew; the stored one says fresh. Its stale message about evidence is
  overwritten on the way out.
* `/api/catalog?provider=` reads twice: it can miss a provider in one
  revision and then find the empty answer of the next (`LoadIsCurrent` excepts it).

Pages:

* After a step back to an entry whose provider is no longer offered, the address names that
  provider and everything else on the page shows All (`leaderboards-page.tsx:335`).
* The rows of an aborted request can be shown (`use-benchmarks.ts:717` does not look at
  the signal), against the test "ignores an aborted stale response after the
  route changes". Whoever leaves them for their next page, twice, has a walk through two
  lists, which the site then refuses or continues; the proof of `WalkIsOneList` failed
  there, and it and `RanksArePlaced` except pages that strayed so.
* A refusal of a first page stays until the filter changes.
* A catalog load that was replaced still writes its older catalog into the storage.
* A comment of the contracts lets stale evidence block a recommendation; the calculator's
  recommendation looks at no evidence, which is shown next to it.
* The largest workload at an expensive model exceeds the safe integers, and the page
  throws in its render with no error boundary around it (`Throws`).
* A link of a provider that has left is repaired to another provider and keeps the
  old models; `Retry` may leave the default mode to a model that is gone, and the link
  shared then does not show the same (`LinkShowsTheSame` excepts pages whose catalog was
  replaced or whose models are not all of the provider).
* A known contact who newly chooses the alerts list is confirmed, and not added to it;
  a test intends this.

## 7. Not modelled

`PROJECT.json` lists every part with its reason. In short: retry arithmetic (its outcome is
a choice in the models); the validation of the catalog contract and the older per-token calculator, which no page calls; rendering of HTML, XML and PDF, generators and preview tools (no
state that matters); the legacy publication of the catalog, which no trigger calls and
whose tables and batches are those of `CatalogPublication`; the other hooks of
`use-benchmarks.ts`, which have the request handling of the leaderboard hook
without its cursors; decision picks; decoding of parquet files; limits of size and
time of single requests, whose outcome is the failure the models have.
