--------------------------- MODULE BenchmarkIngest ---------------------------
(***************************************************************************)
(* The benchmark coordinator (workers/benchmark-ingest/src/coordinator.ts):*)
(* start(), alarm(), every phase of the weekly cycle, retries and expiry.  *)
(* One Durable Object runs one alarm handler at a time, but lets start()   *)
(* in at every await of D1, R2 or an upstream source; awaits of its own    *)
(* storage let nothing in.  What survives a crash is what storage, D1 and  *)
(* R2 hold.  Unlike the catalog coordinator, this one writes storage first *)
(* and D1 second.                                                          *)
(*                                                                         *)
(* Instants matter in three ways only: the week in which start() is called,*)
(* whether a cycle is older than 24 hours, and whether a retry is due.     *)
(* A content hash is the content itself.                                   *)
(***************************************************************************)
EXTENDS BenchmarkPublication, CheckpointedIngestion, SequencesExt

CONSTANTS
    Artifacts,    \* BENCHLM_ARTIFACTS, in the order they are retrieved
    Subsets,      \* how many LMARENA_SUBSETS there are
    MaxPages,     \* bound on the pages of a subset
    Starter,      \* concurrent calls of start()
    MaxWeek,      \* bound on time
    FlakyPhase,   \* the phases whose sources may fail in a run
    FaultKinds,   \* the faults of a run
    MaxFaults     \* bound on their number

\* torn_put: of two writes to storage, the second is lost in a crash.
ASSUME IngestBounds ==
    /\ Artifacts \in Seq(STRING)
    /\ Artifacts # <<>>
    /\ Subsets \in Nat
    /\ MaxPages \in Nat \ {0}
    /\ MaxWeek \in Nat \ {0}
    /\ Week = 1..MaxWeek
    /\ MaxFaults \in Nat
    /\ FlakyPhase \subseteq STRING
    /\ FaultKinds \subseteq {"crash", "torn_put", "io_error", "duplicate_alarm"}

\* A candidate has finitely many partitions, batches and responses.
ASSUME CandidateIsFinite == IsFiniteSet(Fact) /\ IsFiniteSet(Profile) /\ IsFiniteSet(Key)

VARIABLES
    benchmarkCycle,      \* Durable Object storage: the cycle record, or None
    benchmarkCheckpoint, \* Durable Object storage: the checkpoint, or None
    alarm,               \* an alarm is set
    row,                 \* ingestion_cycles, scope benchmarks
    marks,               \* ingestion_cycle_steps: the completed steps of each cycle
    manifestObject,      \* R2: manifest.json of each cycle
    handler,             \* the alarm handler in flight, or None
    starter,             \* each start() call in flight, or None
    week,                \* the current ISO week
    overdue,             \* the cycles past their expiry
    faults               \* faults so far

storageVars == <<benchmarkCycle, benchmarkCheckpoint, alarm>>
receiptVars == <<row, marks>>
timeVars    == <<week, overdue>>

vars == <<publicationVars, storageVars, receiptVars, manifestObject, handler, starter,
          timeVars, faults>>
-----------------------------------------------------------------------------
(***************************************************************************)
(* Cycle records, checkpoints and manifests.                               *)
(***************************************************************************)
CyclePhase ==
    {"acquire", "retrieve-benchlm", "assemble-benchlm", "retrieve-litellm",
     "retrieve-lmarena-revision", "retrieve-lmarena-pages", "normalize-sources"}
        \cup Phase \cup {"receipt"}

\* RETRYABLE_PHASES
RetryablePhase ==
    {"retrieve-benchlm", "retrieve-litellm", "retrieve-lmarena-revision",
     "retrieve-lmarena-pages", "normalize-sources"}

CycleRecord ==
    [id : Cycle, week : Week, state : CycleState, phase : CyclePhase,
     cursor : Nat, attempt : 0 .. MaxRequests]

\* A page of a subset: BenchmarkCheckpoint.lmArena
Page == (0 .. Subsets - 1) \X (0 .. MaxPages - 1)

Manifest ==
    [benchLm : Seq(ToSet(Artifacts)), pages : Seq(Page), normalized : Seq(Nat),
     derived : BOOLEAN]

(* derived and cacheRevision are work[id].candidate and the phase; hash is *)
(* manifestContentHash.                                                    *)
Checkpoint ==
    [id : Cycle, benchLm : Seq(ToSet(Artifacts)), subset : 0 .. Subsets,
     page : 0 .. MaxPages, transport : {"viewer", "resolve", "download"},
     pages : Seq(Page), normalized : Seq(Nat), hash : Manifest \cup {None}]

\* createBenchmarkCycle
NewCycle(c, at) ==
    [id |-> c, week |-> at, state |-> "running", phase |-> "acquire",
     cursor |-> 0, attempt |-> 0]

\* The checkpoint acquireStep makes.
NewCheckpoint(c) ==
    [id |-> c, benchLm |-> <<>>, subset |-> 0, page |-> 0, transport |-> "viewer",
     pages |-> <<>>, normalized |-> <<>>, hash |-> None]

IsActive(cycle) == cycle.state \in ActiveState

Moved(cycle, phase, cursor) ==
    [cycle EXCEPT !.state = "running", !.phase = phase, !.cursor = cursor, !.attempt = 0]

Ended(cycle, state) == [cycle EXCEPT !.state = state]

\* buildManifest
ManifestOf(checkpoint, derived) ==
    [benchLm    |-> checkpoint.benchLm,
     pages      |-> checkpoint.pages,
     normalized |-> checkpoint.normalized,
     derived    |-> derived]

\* Slip: a partition may be listed twice.
ValidManifest_Repeats(m) ==
    /\ Len(m.benchLm) = Len(Artifacts)
    /\ IsInjective(m.benchLm)
    /\ IsInjective(m.pages)

(* parseBenchmarkCandidateManifest: six distinct artifacts, and no page or *)
(* partition twice.                                                        *)
ValidManifest(m) ==
    /\ Len(m.benchLm) = Len(Artifacts)
    /\ IsInjective(m.benchLm)
    /\ IsInjective(m.pages)
    /\ IsInjective(m.normalized)
-----------------------------------------------------------------------------
(***************************************************************************)
(* The alarm handler.                                                      *)
(***************************************************************************)
HandlerPc == {"step", "stage", "fill", "batch", "put", "persist", "fail-row"}

\* cycle and checkpoint: read at the start; next, saved, mark: the result.
HandlerRecord ==
    [pc : HandlerPc, cycle : CycleRecord, checkpoint : Checkpoint \cup {None},
     next : CycleRecord \cup {None}, saved : Checkpoint \cup {None},
     mark : {"none", "completed", "retry_wait", "failed"}]

StarterRecord ==
    [pc : {"receipt", "expire", "insert", "put"}, at : Week,
     existing : CycleRecord \cup {None}, id : Cycle]

\* No record is a missing one.
ASSUME IngestNone ==
    /\ None \notin CycleRecord \cup Checkpoint \cup Manifest
    /\ None \notin HandlerRecord \cup StarterRecord

TypeOK ==
    /\ PublicationTypeOK
    /\ benchmarkCycle \in CycleRecord \cup {None}
    /\ benchmarkCheckpoint \in Checkpoint \cup {None}
    /\ alarm \in BOOLEAN
    /\ row \in [Cycle -> CycleRecord \cup {None}]
    /\ marks \in [Cycle -> SUBSET (CyclePhase \X Nat)]
    /\ manifestObject \in [Cycle -> Manifest \cup {None}]
    /\ handler \in HandlerRecord \cup {None}
    /\ starter \in [Starter -> StarterRecord \cup {None}]
    /\ week \in Week
    /\ overdue \subseteq Cycle
    /\ faults \in 0 .. MaxFaults

Init ==
    /\ PublicationInit
    /\ benchmarkCycle = None
    /\ benchmarkCheckpoint = None
    /\ alarm = FALSE
    /\ row = [c \in Cycle |-> None]
    /\ marks = [c \in Cycle |-> {}]
    /\ manifestObject = [c \in Cycle |-> None]
    /\ handler = None
    /\ starter = [s \in Starter |-> None]
    /\ week = 1
    /\ overdue = {}
    /\ faults = 0

(* alarm() and the head of runStep: expiry wins over a retry that is due.  *)
FirstCall ==
    LET call == [pc |-> "step", cycle |-> benchmarkCycle, checkpoint |-> benchmarkCheckpoint,
                 next |-> None, saved |-> None, mark |-> "none"]
    IN  IF benchmarkCycle.id \in overdue
        THEN [call EXCEPT !.pc = "put", !.mark = "failed",
                          !.next = Ended(benchmarkCycle, "expired")]
        ELSE [call EXCEPT !.cycle.state =
                            IF @ = "retry_wait" THEN "running" ELSE @]

\* pending: the alarm that is still set while the handler runs.
Deliver(pending) ==
    /\ handler = None
    /\ IF benchmarkCycle = None \/ benchmarkCycle.state \in TerminalState
       THEN handler' = None /\ alarm' = FALSE
       ELSE handler' = FirstCall /\ alarm' = pending
    /\ UNCHANGED <<publicationVars, benchmarkCycle, benchmarkCheckpoint, receiptVars,
                   manifestObject, starter, timeVars>>

\* An alarm that was set for a retry fires when the retry is due.
AlarmFires ==
    /\ alarm
    /\ Deliver(FALSE)
    /\ UNCHANGED faults

At(pc) == handler # None /\ handler.pc = pc
InStep(pc, phase) == At(pc) /\ handler.cycle.phase = phase

\* What the actions of the handler up to its put leave alone.
outside == <<storageVars, receiptVars, starter, timeVars, faults>>

\* The result of a step, next to be written to storage.
Result(next, saved, mark) ==
    handler' = [handler EXCEPT !.pc = "put", !.next = next, !.saved = saved, !.mark = mark]

Completes(phase, cursor, checkpoint) ==
    Result(Moved(handler.cycle, phase, cursor), checkpoint, "completed")

\* A step throws that may not be retried.
Fails == Result(Ended(handler.cycle, "failed"), None, "failed")

\* Slip: one attempt too many.
RetryOrFail_OneMore ==
    LET attempt == handler.cycle.attempt + 1
        cycle   == [handler.cycle EXCEPT !.attempt = attempt]
    IN  IF attempt > MaxRequests
        THEN Result(Ended(cycle, "failed"), None, "failed")
        ELSE Result([cycle EXCEPT !.state = "retry_wait"], None, "retry_wait")

\* retryOrFail; expiry was ruled out when the invocation began.
RetryOrFail ==
    LET attempt == handler.cycle.attempt + 1
        cycle   == [handler.cycle EXCEPT !.attempt = attempt]
    IN  IF attempt >= MaxRequests
        THEN Result(Ended(cycle, "failed"), None, "failed")
        ELSE Result([cycle EXCEPT !.state = "retry_wait"], None, "retry_wait")

(* The catch block of alarm(), with the cycle read at the start; it writes *)
(* storage at once.                                                        *)
Catch ==
    LET failed == Ended(handler.cycle, "failed")
    IN  /\ benchmarkCycle' = failed
        /\ handler' = [handler EXCEPT !.pc = "fail-row", !.next = failed]
-----------------------------------------------------------------------------
(***************************************************************************)
(* The phases that talk to the sources.                                    *)
(***************************************************************************)

\* Slip: a checkpoint that is there is kept.
FirstCheckpoint_Kept(c) ==
    IF handler.checkpoint # None THEN handler.checkpoint ELSE NewCheckpoint(c)

FirstCheckpoint(c) == NewCheckpoint(c)

\* acquireStep
Acquire ==
    LET c == handler.cycle.id
    IN  /\ InStep("step", "acquire")
        /\ IF catalog = 0
           THEN Fails /\ UNCHANGED publicationVars
           ELSE /\ Freeze(c, handler.cycle.week)
                /\ Completes("retrieve-benchlm", 0, FirstCheckpoint(c))
        /\ UNCHANGED <<outside, manifestObject>>

\* An upstream source is unreachable, limits the rate or answers nonsense.
SourceFails ==
    /\ At("step")
    /\ handler.cycle.phase \in FlakyPhase \cap RetryablePhase
    /\ handler.cycle.phase # "retrieve-lmarena-pages"
    /\ RetryOrFail
    /\ UNCHANGED <<publicationVars, outside, manifestObject>>

\* retrieveBenchLmStep
RetrieveBenchLm ==
    LET k == handler.cycle.cursor
        checkpoint == [handler.checkpoint EXCEPT !.benchLm = Append(@, Artifacts[k + 1])]
    IN  /\ InStep("step", "retrieve-benchlm")
        /\ IF k + 1 < Len(Artifacts)
           THEN Completes("retrieve-benchlm", k + 1, checkpoint)
           ELSE Completes("assemble-benchlm", 0, checkpoint)
        /\ UNCHANGED <<publicationVars, outside, manifestObject>>

\* manifest.json is overwritten in place.
WriteManifest(checkpoint, derived) ==
    manifestObject' = [manifestObject EXCEPT
        ![checkpoint.id] = ManifestOf(checkpoint, derived)]

(* writeManifestIfReady and the end of the step.  It leaves the old hash   *)
(* while there are fewer artifacts than in the bundle.                     *)
ManifestThenCompletes(phase, cursor, checkpoint) ==
    LET m == ManifestOf(checkpoint, FALSE)
    IN  IF Len(checkpoint.benchLm) < Len(Artifacts)
        THEN /\ Completes(phase, cursor, checkpoint)
             /\ UNCHANGED manifestObject
        ELSE IF ValidManifest(m)
        THEN /\ WriteManifest(checkpoint, FALSE)
             /\ Completes(phase, cursor, [checkpoint EXCEPT !.hash = m])
        ELSE /\ IF handler.cycle.phase \in RetryablePhase THEN RetryOrFail ELSE Fails
             /\ UNCHANGED manifestObject

\* assembleBenchLmStepHandler
AssembleBenchLm ==
    /\ InStep("step", "assemble-benchlm")
    /\ ManifestThenCompletes("retrieve-litellm", 0, handler.checkpoint)
    /\ UNCHANGED <<publicationVars, outside>>

\* retrieveLiteLlmStepHandler
RetrieveLiteLlm ==
    /\ InStep("step", "retrieve-litellm")
    /\ ManifestThenCompletes("retrieve-lmarena-revision", 0, handler.checkpoint)
    /\ UNCHANGED <<publicationVars, outside>>

\* retrieveLmArenaRevisionStepHandler
RetrieveLmArenaRevision ==
    /\ InStep("step", "retrieve-lmarena-revision")
    /\ Completes("retrieve-lmarena-pages", 0, handler.checkpoint)
    /\ UNCHANGED <<publicationVars, outside, manifestObject>>

NextSubset(checkpoint) ==
    [checkpoint EXCEPT !.subset = @ + 1, !.page = 0, !.transport = "viewer"]

\* The pages phase after a call that returned pages.
PagesThenCompletes(checkpoint) ==
    IF checkpoint.subset >= Subsets
    THEN ManifestThenCompletes("normalize-sources", 0, checkpoint)
    ELSE ManifestThenCompletes("retrieve-lmarena-pages", handler.cycle.cursor + 1, checkpoint)

InPages ==
    InStep("step", "retrieve-lmarena-pages") /\ handler.checkpoint.subset < Subsets

(* One page of the dataset viewer; whether it is the last is up to what    *)
(* the viewer declares.                                                    *)
RetrieveViewerPage ==
    LET cp   == handler.checkpoint
        with == [cp EXCEPT !.pages = Append(@, <<cp.subset, cp.page>>)]
    IN  /\ InPages
        /\ cp.transport = "viewer"
        /\ \/ PagesThenCompletes(NextSubset(with))
           \/ /\ cp.page + 1 < MaxPages
              /\ PagesThenCompletes([with EXCEPT !.page = @ + 1])
        /\ UNCHANGED <<publicationVars, outside>>

\* The parquet file of a subset is resolved in one step and read in the next.
ResolveParquet ==
    /\ InPages
    /\ handler.checkpoint.transport = "resolve"
    /\ Completes("retrieve-lmarena-pages", handler.cycle.cursor + 1,
                 [handler.checkpoint EXCEPT !.transport = "download"])
    /\ UNCHANGED <<publicationVars, outside, manifestObject>>

DownloadParquet ==
    LET cp == handler.checkpoint
    IN  /\ InPages
        /\ cp.transport = "download"
        /\ \E n \in 1 .. MaxPages :
              PagesThenCompletes(NextSubset([cp EXCEPT
                  !.pages = @ \o [i \in 1 .. n |-> <<cp.subset, i - 1>>]]))
        /\ UNCHANGED <<publicationVars, outside>>

\* A rate limit, or a failure the fallback is not for.
PageFails ==
    /\ InPages
    /\ handler.cycle.phase \in FlakyPhase
    /\ RetryOrFail
    /\ UNCHANGED <<publicationVars, outside, manifestObject>>

(* Any other failure at the head of a subset turns to the parquet file; no *)
(* attempt is counted.                                                     *)
ViewerFallsBack ==
    /\ InPages
    /\ handler.cycle.phase \in FlakyPhase
    /\ handler.checkpoint.transport = "viewer"
    /\ handler.checkpoint.page = 0
    /\ Result([handler.cycle EXCEPT !.state = "retry_wait"],
              [handler.checkpoint EXCEPT !.transport = "resolve"], "retry_wait")
    /\ UNCHANGED <<publicationVars, outside, manifestObject>>

\* All pages were stored, and the cycle record was not.
PagesAreThere ==
    /\ InStep("step", "retrieve-lmarena-pages")
    /\ handler.checkpoint.subset >= Subsets
    /\ Completes("normalize-sources", 0, handler.checkpoint)
    /\ UNCHANGED <<publicationVars, outside, manifestObject>>

\* normalizationWorklist: BenchLM, LiteLLM, OpenRouter, and each page.
WorklistLength(checkpoint) == 3 + Len(checkpoint.pages)

\* normalizeSourcesStep
NormalizeSources ==
    LET k    == handler.cycle.cursor
        with == [handler.checkpoint EXCEPT !.normalized = Append(@, k)]
    IN  /\ InStep("step", "normalize-sources")
        /\ IF k + 1 < WorklistLength(handler.checkpoint)
           THEN ManifestThenCompletes("normalize-sources", k + 1, with)
           ELSE ManifestThenCompletes("derive", 0, with)
        /\ UNCHANGED <<publicationVars, outside>>
-----------------------------------------------------------------------------
(***************************************************************************)
(* The phases that build the candidate.                                    *)
(***************************************************************************)
FactOrder    == SetToSeq(Fact)
ProfileOrder == SetToSeq(Profile)
KeyOrder     == SetToSeq(Key)

\* requireManifest: the object still has the hash of the checkpoint.
ManifestMatches ==
    /\ handler.checkpoint.hash # None
    /\ manifestObject[handler.cycle.id] = handler.checkpoint.hash

\* A step whose manifest does not match fails before it does anything.
ManifestMismatch ==
    /\ At("step")
    /\ handler.cycle.phase \in Phase
    /\ ~ManifestMatches
    /\ Fails
    /\ UNCHANGED <<publicationVars, outside, manifestObject>>

Building(phase) == InStep("step", phase) /\ ManifestMatches

(* A phase of the publication tables that is over is over: a replay of its *)
(* last step checks again and changes nothing.                             *)
Once(c, phase, LastStep) ==
    IF InPhase(c, phase) THEN LastStep ELSE UNCHANGED publicationVars

\* deriveStep: a replay finds the same objects and derives the same revision.
DeriveCandidate ==
    LET c  == handler.cycle.id
        cp == handler.checkpoint
    IN  /\ Building("derive")
        /\ \E content \in Content : Once(c, "derive", Derive(c, content))
        /\ WriteManifest(cp, TRUE)
        /\ Completes(work'[c].phase, 0, [cp EXCEPT !.hash = ManifestOf(cp, TRUE)])
        /\ UNCHANGED outside

\* Slip: INSERT OR REPLACE, which takes the partitions of the revision along.
EnsurePendingRevision_Replaces ==
    LET c == handler.cycle.id
        r == work[c].candidate
    IN  /\ Building("stage-facts")
        /\ revisions' = [revisions EXCEPT ![r] =
                [state |-> "pending", owner |-> c, checked |-> work[c].stamp]]
        /\ stored' = [stored EXCEPT ![r] = {}]
        /\ handler' = [handler EXCEPT !.pc = "stage"]
        /\ UNCHANGED <<catalog, cached, pointer, cachePointer, weeks, receipts, work,
                       publishing, republish, started, outside, manifestObject>>

\* stageFactsStep up to the ownership check.
EnsurePendingRevision ==
    LET c == handler.cycle.id
    IN  /\ Building("stage-facts")
        /\ IF revisions[work[c].candidate] = None
           THEN EnsurePending(c)
           ELSE UNCHANGED publicationVars
        /\ handler' = [handler EXCEPT !.pc = "stage"]
        /\ UNCHANGED <<outside, manifestObject>>

\* The rest of stageFactsStep.
StageFacts ==
    LET c == handler.cycle.id
        k == handler.cycle.cursor
        staging == k < Len(FactOrder)
    IN  /\ InStep("stage", "stage-facts")
        /\ IF ~(IF staging THEN Owned(c) ELSE FactsComplete(c))
           THEN Fails /\ UNCHANGED publicationVars
           ELSE IF staging
           THEN /\ StageFact(c, FactOrder[k + 1])
                /\ Completes("stage-facts", k + 1, handler.checkpoint)
           ELSE /\ Once(c, "stage-facts", FactsStaged(c))
                /\ Completes("stage-profiles", 0, handler.checkpoint)
        /\ UNCHANGED <<outside, manifestObject>>

\* stageProfilesStep
StageProfiles ==
    LET c == handler.cycle.id
        k == handler.cycle.cursor
    IN  /\ Building("stage-profiles")
        /\ IF k >= Len(ProfileOrder)
           THEN /\ Once(c, "stage-profiles", ProfilesStaged(c))
                /\ Completes("stage-cache", 0, handler.checkpoint)
           ELSE IF Owned(c)
           THEN /\ StageProfile(c, ProfileOrder[k + 1])
                /\ Completes("stage-profiles", k + 1, handler.checkpoint)
           ELSE Fails /\ UNCHANGED publicationVars
        /\ UNCHANGED <<outside, manifestObject>>

\* stageCacheStep up to the INSERT statements of a key.
StageCache ==
    LET c == handler.cycle.id
        k == handler.cycle.cursor
    IN  /\ Building("stage-cache")
        /\ IF k >= Len(KeyOrder)
           THEN /\ Once(c, "stage-cache", CacheStaged(c))
                /\ Completes("validate-candidate", 0, handler.checkpoint)
           ELSE IF CanStageCache(c)
           THEN /\ StageCacheKey(c, KeyOrder[k + 1])
                /\ handler' = [handler EXCEPT !.pc = "fill"]
           ELSE Fails /\ UNCHANGED publicationVars
        /\ UNCHANGED <<outside, manifestObject>>

\* The INSERT statements; the foreign key needs the row of the response set.
FillCache ==
    LET c == handler.cycle.id
        k == handler.cycle.cursor
    IN  /\ InStep("fill", "stage-cache")
        /\ IF cached[c] = None
           THEN Fails /\ UNCHANGED publicationVars
           ELSE \E amount \in EntryState :
                   /\ FillCacheKey(c, KeyOrder[k + 1], amount)
                   /\ IF amount = "all"
                      THEN Completes("stage-cache", k + 1, handler.checkpoint)
                      ELSE UNCHANGED handler
        /\ UNCHANGED <<outside, manifestObject>>

\* validateCandidateStep
Validate ==
    LET c == handler.cycle.id
    IN  /\ Building("validate-candidate")
        /\ IF CandidateComplete(c)
           THEN /\ Once(c, "validate-candidate", ValidateCandidate(c))
                /\ Result([Moved(handler.cycle, "publish", 0) EXCEPT !.state = "ready_to_publish"],
                          handler.checkpoint, "completed")
           ELSE Fails /\ UNCHANGED publicationVars
        /\ UNCHANGED <<outside, manifestObject>>

Received(cycle) ==
    [cycle EXCEPT !.state = "published", !.phase = "receipt", !.cursor = 0, !.attempt = 0]

\* Slip: the publication is not awaited.
PublishStep_NotAwaited ==
    /\ Building("publish")
    /\ PublishReads(handler.cycle.id)
    /\ Result(Received(handler.cycle), None, "completed")
    /\ UNCHANGED <<outside, manifestObject>>

\* publishCandidateStep up to its batch.
PublishStep ==
    /\ Building("publish")
    /\ PublishReads(handler.cycle.id)
    /\ handler' = [handler EXCEPT !.pc = "batch"]
    /\ UNCHANGED <<outside, manifestObject>>

\* The batch also writes the receipts of the step and of the cycle.
PublishCandidate ==
    LET c == handler.cycle.id
    IN  /\ InStep("batch", "publish")
        /\ IF BatchAllowed(c)
           THEN /\ PublishBatch(c)
                /\ row' = [row EXCEPT ![c].state = "published", ![c].phase = "receipt"]
                /\ marks' = [marks EXCEPT ![c] = @ \cup {<<"publish", 0>>}]
                /\ Result(Received(handler.cycle), None, "completed")
           ELSE /\ PublishEnds
                /\ Fails
                /\ UNCHANGED receiptVars
        /\ UNCHANGED <<storageVars, starter, timeVars, faults, manifestObject>>
-----------------------------------------------------------------------------
(***************************************************************************)
(* The end of an invocation.                                               *)
(***************************************************************************)

SavedCheckpoint ==
    IF handler.saved = None THEN benchmarkCheckpoint ELSE handler.saved

\* persist: the checkpoint and the cycle record, no other await in between.
Put ==
    /\ At("put")
    /\ benchmarkCheckpoint' = SavedCheckpoint
    /\ benchmarkCycle' = handler.next
    /\ handler' = [handler EXCEPT !.pc = "persist"]
    /\ UNCHANGED <<publicationVars, alarm, receiptVars, manifestObject, starter,
                   timeVars, faults>>

\* persistStep: one batch for the step receipt and the cycle row.
Receipts(c) ==
    LET step == <<handler.cycle.phase, handler.cycle.cursor>>
    IN  /\ marks' = [marks EXCEPT ![c] = IF handler.mark = "completed"
                                         THEN @ \cup {step} ELSE @ \ {step}]
        /\ row' = [row EXCEPT ![c] = handler.next]

\* Slip: a retry leaves no alarm behind.
Persist_NoRetryAlarm ==
    /\ At("persist")
    /\ Receipts(handler.cycle.id)
    /\ alarm' = (handler.mark = "completed" /\ handler.next.state # "published")
    /\ handler' = None
    /\ UNCHANGED <<publicationVars, benchmarkCycle, benchmarkCheckpoint, manifestObject,
                   starter, timeVars, faults>>

\* The rest of persist: D1, and the alarm of the next step or of none.
Persist ==
    /\ At("persist")
    /\ Receipts(handler.cycle.id)
    /\ alarm' = (handler.next.state \notin TerminalState)
    /\ handler' = None
    /\ UNCHANGED <<publicationVars, benchmarkCycle, benchmarkCheckpoint, manifestObject,
                   starter, timeVars, faults>>

\* The rest of the catch block.
FailRow ==
    /\ At("fail-row")
    /\ row' = [row EXCEPT ![handler.cycle.id] = handler.next]
    /\ alarm' = FALSE
    /\ handler' = None
    /\ UNCHANGED <<publicationVars, benchmarkCycle, benchmarkCheckpoint, marks,
                   manifestObject, starter, timeVars, faults>>

HandlerNext ==
    \/ Acquire
    \/ RetrieveBenchLm \/ AssembleBenchLm \/ RetrieveLiteLlm
    \/ RetrieveLmArenaRevision
    \/ RetrieveViewerPage \/ ResolveParquet \/ DownloadParquet \/ PagesAreThere
    \/ SourceFails \/ PageFails \/ ViewerFallsBack
    \/ NormalizeSources \/ ManifestMismatch \/ DeriveCandidate
    \/ EnsurePendingRevision \/ StageFacts \/ StageProfiles
    \/ StageCache \/ FillCache
    \/ Validate \/ PublishStep \/ PublishCandidate
    \/ Put \/ Persist \/ FailRow
-----------------------------------------------------------------------------
(***************************************************************************)
(* start(), called by the weekly cron trigger.  Its early returns change   *)
(* nothing.                                                                *)
(***************************************************************************)

AlreadyRunning ==
    benchmarkCycle # None /\ benchmarkCycle.week = week /\ IsActive(benchmarkCycle)

AlreadyCompleted ==
    benchmarkCycle # None /\ benchmarkCycle.week = week /\ benchmarkCycle.state = "published"

\* randomUUID
FreshId(c) == row[c] = None /\ \A s \in Starter : starter[s] # None => starter[s].id # c

aroundStart == <<publicationVars, manifestObject, handler, timeVars, faults>>

\* start() up to its first await of D1.
StartBegin(s) ==
    /\ starter[s] = None
    /\ ~AlreadyRunning
    /\ ~AlreadyCompleted
    /\ \E c \in Cycle :
          /\ FreshId(c)
          /\ starter' = [starter EXCEPT ![s] =
                [pc |-> "receipt", at |-> week, existing |-> benchmarkCycle, id |-> c]]
    /\ UNCHANGED <<aroundStart, storageVars, receiptVars>>

Starting(s, pc) == starter[s] # None /\ starter[s].pc = pc

PublishedIn(w) == \E c \in Cycle : row[c] # None /\ row[c].state = "published" /\ row[c].week = w

\* hasPublishedReceipt
StartReceipt(s) ==
    LET existing == starter[s].existing
        expires  == /\ existing # None
                    /\ existing.week # starter[s].at
                    /\ IsActive(existing)
    IN  /\ Starting(s, "receipt")
        /\ starter' = [starter EXCEPT ![s] =
              IF PublishedIn(starter[s].at) THEN None
              ELSE [@ EXCEPT !.pc = IF expires THEN "expire" ELSE "insert"]]
        /\ UNCHANGED <<aroundStart, storageVars, receiptVars>>

\* The unfinished cycle of an older week is expired, as it was when read.
StartExpire(s) ==
    LET old == starter[s].existing
    IN  /\ Starting(s, "expire")
        /\ row' = [row EXCEPT ![old.id] = Ended(old, "expired")]
        /\ starter' = [starter EXCEPT ![s].pc = "insert"]
        /\ UNCHANGED <<aroundStart, storageVars, marks>>

StartInsert(s) ==
    LET c == starter[s].id
    IN  /\ Starting(s, "insert")
        /\ row' = [row EXCEPT ![c] = NewCycle(c, starter[s].at)]
        /\ starter' = [starter EXCEPT ![s].pc = "put"]
        /\ UNCHANGED <<aroundStart, storageVars, marks>>

\* The checkpoint of the previous cycle stays where it is.
StartPut(s) ==
    /\ Starting(s, "put")
    /\ benchmarkCycle' = NewCycle(starter[s].id, starter[s].at)
    /\ alarm' = TRUE
    /\ starter' = [starter EXCEPT ![s] = None]
    /\ UNCHANGED <<aroundStart, benchmarkCheckpoint, receiptVars>>

StarterGoesOn(s) == StartReceipt(s) \/ StartExpire(s) \/ StartInsert(s) \/ StartPut(s)
-----------------------------------------------------------------------------
(***************************************************************************)
(* Time, the rest of the system, and faults.                               *)
(***************************************************************************)
NextWeek ==
    /\ week < MaxWeek
    /\ \A s \in Starter : starter[s] = None
    /\ week' = week + 1
    /\ UNCHANGED <<publicationVars, storageVars, receiptVars, manifestObject, handler,
                   starter, overdue, faults>>

\* Twenty-four hours have passed since the cycle started.
GrowsOld(c) ==
    /\ benchmarkCycle # None
    /\ benchmarkCycle.id = c
    /\ IsActive(benchmarkCycle)
    /\ overdue' = overdue \cup {c}
    /\ UNCHANGED <<publicationVars, storageVars, receiptVars, manifestObject, handler,
                   starter, week, faults>>

\* The catalog Worker, and republishCache, which start() and alarm() do not stop.
Others ==
    /\ CatalogPublishes \/ \E p \in Republisher : RepublishStep(p)
    /\ UNCHANGED <<storageVars, receiptVars, manifestObject, handler, starter, timeVars, faults>>

Fault(kind) ==
    /\ kind \in FaultKinds
    /\ faults < MaxFaults
    /\ faults' = faults + 1

\* A batch that was not applied before a crash never is.
Forgotten == IF publishing = None THEN UNCHANGED publicationVars ELSE PublishEnds

(* The platform delivers an alarm again whose handler did not return.      *)
Crash ==
    /\ Fault("crash")
    /\ handler # None \/ \E s \in Starter : starter[s] # None
    /\ Forgotten
    /\ handler' = None
    /\ alarm' = (alarm \/ handler # None)
    /\ starter' = [s \in Starter |-> None]
    /\ UNCHANGED <<benchmarkCycle, benchmarkCheckpoint, receiptVars, manifestObject, timeVars>>

\* A crash in which only the first of the two writes of Put survives.
TornPut ==
    /\ Fault("torn_put")
    /\ At("put")
    /\ benchmarkCheckpoint' = SavedCheckpoint
    /\ handler' = None
    /\ alarm' = TRUE
    /\ starter' = [s \in Starter |-> None]
    /\ UNCHANGED <<publicationVars, benchmarkCycle, receiptVars, manifestObject, timeVars>>

\* Alarms are delivered at least once; before a retry is due this does nothing.
DuplicateAlarm == Fault("duplicate_alarm") /\ Deliver(alarm)

(* A call to D1 or R2 rejects, before or after it had its effect.          *)
StepRejects ==
    /\ handler # None
    /\ \/ handler.pc \in {"step", "stage", "fill", "batch"}
       \/ handler.pc = "put" /\ handler.mark = "completed"
    /\ IF handler.cycle.phase = "acquire"
       THEN Catch
       ELSE /\ IF handler.cycle.phase \in RetryablePhase THEN RetryOrFail ELSE Fails
            /\ UNCHANGED benchmarkCycle
    /\ Forgotten
    /\ UNCHANGED <<alarm, receiptVars, starter>>

PersistRejects ==
    /\ At("persist")
    /\ Catch
    /\ Receipts(handler.cycle.id) \/ UNCHANGED receiptVars
    /\ UNCHANGED <<publicationVars, alarm, starter>>

FailRowRejects ==
    /\ At("fail-row")
    /\ handler' = None
    /\ alarm' = TRUE
    /\ UNCHANGED <<publicationVars, benchmarkCycle, receiptVars, starter>>

StartRejects ==
    \E s \in Starter :
        /\ starter[s] # None
        /\ starter[s].pc # "put"
        /\ starter' = [starter EXCEPT ![s] = None]
        /\ UNCHANGED <<publicationVars, benchmarkCycle, alarm, receiptVars, handler>>

CallRejects ==
    /\ Fault("io_error")
    /\ StepRejects \/ PersistRejects \/ FailRowRejects \/ StartRejects
    /\ UNCHANGED <<benchmarkCheckpoint, manifestObject, timeVars>>

Next ==
    \/ AlarmFires
    \/ HandlerNext
    \/ \E s \in Starter : StartBegin(s) \/ StarterGoesOn(s)
    \/ NextWeek
    \/ \E c \in Cycle : GrowsOld(c)
    \/ Others
    \/ Crash \/ TornPut \/ DuplicateAlarm \/ CallRejects

Spec == Init /\ [][Next]_vars

(* The platform delivers an alarm that is set, and an invocation that was  *)
(* let in goes on.  Nothing obliges cron to call start(), the week to end  *)
(* or a source to answer.                                                  *)
Fairness ==
    /\ WF_vars(AlarmFires)
    /\ WF_vars(HandlerNext)
    /\ \A s \in Starter : WF_vars(StarterGoesOn(s))

FairSpec == Spec /\ Fairness
-----------------------------------------------------------------------------
(***************************************************************************)
(* Properties that hold.                                                   *)
(***************************************************************************)

(* However the coordinator is interrupted, overlapped or replayed, it acts *)
(* on the publication tables by the protocol of BenchmarkPublication alone.*)
KeepsProtocol == PublicationSpec

(* A cycle is recorded as published, in D1 or in storage, only if its      *)
(* batch was applied: no failed or replayed step claims a publication.     *)
PublishedWasServed ==
    \A c \in Cycle :
        \/ row[c] # None /\ row[c].state = "published"
        \/ /\ benchmarkCycle # None
           /\ benchmarkCycle.id = c
           /\ benchmarkCycle.state = "published"
        => c \in receipts

(* Storage keeps the cycle and its checkpoint under two keys, and start()  *)
(* replaces one of them: a step never works with the checkpoint of another *)
(* cycle.                                                                  *)
CheckpointIsOwn ==
    handler # None /\ handler.cycle.phase # "acquire" =>
        handler.checkpoint # None /\ handler.checkpoint.id = handler.cycle.id

(* What is published was made from every artifact, every page and every    *)
(* normalized partition exactly once and in order, whatever was retrieved  *)
(* again, stored twice or read from the parquet file.                      *)
EverythingOnce ==
    \A c \in receipts :
        LET m == manifestObject[c]
        IN  /\ m.benchLm = Artifacts
            /\ IsInjective(m.pages)
            /\ \A p \in ToSet(m.pages) : \A j \in 0 .. p[2] : <<p[1], j>> \in ToSet(m.pages)
            /\ {p[1] : p \in ToSet(m.pages)} = 0 .. Subsets - 1
            /\ m.normalized = [i \in 1 .. 3 + Len(m.pages) |-> i - 1]

(* A cycle that has an alarm ends: retries, crashes and duplicate alarms   *)
(* do not keep it going for ever.                                          *)
CycleEnds ==
    \A c \in Cycle :
        LET live == benchmarkCycle # None /\ benchmarkCycle.id = c /\ IsActive(benchmarkCycle)
        IN  (live /\ alarm /\ handler = None) ~> ~live
=============================================================================
