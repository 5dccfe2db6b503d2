---------------------------- MODULE CatalogIngest ----------------------------
(***************************************************************************)
(* The catalog coordinator and the cycle it checkpoints                    *)
(* (workers/catalog-ingest/src/coordinator.ts and catalog-cycle.ts).  One  *)
(* Durable Object runs one alarm handler at a time, but lets start() in at *)
(* every await of that handler.  An action is the code between two awaits  *)
(* that other code can observe; what survives a crash is what storage, D1  *)
(* and R2 hold.                                                            *)
(*                                                                         *)
(* A clock tick is twelve hours.  The delay between two steps (15 s) and   *)
(* the fallback back-off (at most 30 min) are less than a tick.            *)
(***************************************************************************)
EXTENDS CatalogPublication, Sequences

CONSTANTS
    Source,       \* the upstream sources, in the order they are retrieved
    Starter,      \* concurrent calls of start()
    TicksPerDay,  \* a catalog cadence is a UTC day
    ExpiryTicks,  \* CATALOG_CYCLE_EXPIRY_MS
    MaxClock,     \* bound on time
    FaultKinds,   \* the faults of a run: crash, io_error, duplicate_alarm
    MaxFaults     \* bound on their number

ASSUME IngestBounds ==
    /\ Source \in Seq(STRING)
    /\ TicksPerDay \in Nat \ {0}
    /\ ExpiryTicks \in Nat \ {0}
    /\ MaxClock \in Nat
    /\ MaxFaults \in Nat
    /\ FaultKinds \subseteq {"crash", "io_error", "duplicate_alarm"}

VARIABLES
    stored,    \* Durable Object storage: the cycle record, or None
    alarm,     \* the tick the alarm is set for, or None
    row,       \* ingestion_cycles
    receipt,   \* ingestion_cycle_steps: status of each step of each cycle
    artifacts, \* R2: the artifacts each cycle's manifest lists
    differs,   \* some artifact of the cycle differs from its baseline
    handler,   \* the alarm handler in flight, or None
    starter,   \* each start() call in flight, or None
    clock,
    faults,    \* faults so far
    requests   \* history: upstream requests for the artifact a cycle still lacks

storageVars == <<stored, alarm>>
receiptVars == <<row, receipt>>
sourceVars  == <<artifacts, differs, requests>>

vars == <<publicationVars, storageVars, receiptVars, sourceVars,
          handler, starter, clock, faults>>
-----------------------------------------------------------------------------
(***************************************************************************)
(* Cycle records.                                                          *)
(***************************************************************************)

\* Slip: the receipt before the publication.
Steps_ReceiptFirst ==
    <<"acquire">> \o Source \o
        <<"prepare-manual", "stage", "validate", "receipt", "publish">>

(* CATALOG_CYCLE_STEPS; a cursor counts from zero.  The code retrieves     *)
(* openrouter, opencode-models and opencode-pricing, one step each.        *)
Steps ==
    <<"acquire">> \o Source \o
        <<"prepare-manual", "stage", "validate", "publish", "receipt">>

Cursor == 0..Len(Steps) - 1

Retrieval == {Source[i] : i \in 1..Len(Source)}

\* CATALOG_CYCLE_STEPS has no name twice.
ASSUME SourceNames ==
    Retrieval \cap {"acquire", "prepare-manual", "stage", "validate", "publish", "receipt"} = {}

\* A step that produces an artifact names it.
Artifact == Retrieval \cup {"prepare-manual"}

CycleRecord ==
    [id : Cycle, startedAt : Nat, state : CycleState, cursor : Cursor,
     attempt : 0..MaxRequests, retryAt : Nat \cup {None}]

Phase(cycle) == Steps[cycle.cursor + 1]
IsActive(cycle) == cycle.state \in ActiveState

\* Nothing is left to do: alarm() and runCatalogCycleStep return at once.
IsOver(cycle) ==
    \/ cycle.state \in {"failed", "expired"}
    \/ cycle.state = "published" /\ Phase(cycle) # "receipt"

CadenceOf(cycle) == Cadence(cycle.startedAt, TicksPerDay)
ExpiresAt(cycle) == cycle.startedAt + ExpiryTicks

\* Slip: the cursor of the previous cycle is kept.
NewCycle_KeepsCursor(c, at) ==
    [id |-> c, startedAt |-> at, state |-> "running",
     cursor |-> IF stored = None THEN 0 ELSE stored.cursor,
     attempt |-> 0, retryAt |-> None]

\* createCatalogCycle
NewCycle(c, at) ==
    [id |-> c, startedAt |-> at, state |-> "running", cursor |-> 0,
     attempt |-> 0, retryAt |-> None]

\* advance
Advanced(cycle, state) ==
    [cycle EXCEPT !.state = state, !.cursor = @ + 1, !.attempt = 0, !.retryAt = None]

Ended(cycle, state) == [cycle EXCEPT !.state = state, !.retryAt = None]
-----------------------------------------------------------------------------
(***************************************************************************)
(* The alarm handler.                                                      *)
(***************************************************************************)
HandlerPc == {"replay", "step", "write-manifest", "confirm",
              "persist", "persist-retrieval", "put", "fail-row"}

\* cycle: read at the start; next, mark and alarmAt: the result of the step.
HandlerRecord ==
    [pc : HandlerPc, cycle : CycleRecord, now : Nat,
     next : CycleRecord \cup {None}, mark : StepStatus, alarmAt : Nat \cup {None}]

StarterRecord ==
    [pc : {"expire", "insert", "put"}, at : Nat,
     existing : CycleRecord \cup {None}, id : Cycle]

ASSUME IngestNone ==
    /\ None \notin Nat
    /\ None \notin CycleRecord
    /\ None \notin HandlerRecord
    /\ None \notin StarterRecord

TypeOK ==
    /\ PublicationTypeOK
    /\ stored \in CycleRecord \cup {None}
    /\ alarm \in Nat \cup {None}
    /\ row \in [Cycle -> CycleRecord \cup {None}]
    /\ receipt \in [Cycle -> [Cursor -> StepStatus]]
    /\ artifacts \in [Cycle -> SUBSET Artifact]
    /\ differs \in [Cycle -> BOOLEAN]
    /\ handler \in HandlerRecord \cup {None}
    /\ starter \in [Starter -> StarterRecord \cup {None}]
    /\ clock \in 0..MaxClock
    /\ faults \in 0..MaxFaults
    /\ requests \in [Cycle -> Nat]

Init ==
    /\ PublicationInit
    /\ stored = None
    /\ alarm = None
    /\ row = [c \in Cycle |-> None]
    /\ receipt = [c \in Cycle |-> [k \in Cursor |-> "none"]]
    /\ artifacts = [c \in Cycle |-> {}]
    /\ differs = [c \in Cycle |-> FALSE]
    /\ handler = None
    /\ starter = [s \in Starter |-> None]
    /\ clock = 0
    /\ faults = 0
    /\ requests = [c \in Cycle |-> 0]

Invocation(pc, cycle, next, mark, alarmAt) ==
    [pc |-> pc, cycle |-> cycle, now |-> clock,
     next |-> next, mark |-> mark, alarmAt |-> alarmAt]

\* Slip: an early alarm does not set the retry's alarm again.
FirstCall_DropsRetry ==
    IF clock >= ExpiresAt(stored) /\ stored.state \notin TerminalState
    THEN Invocation("persist", stored, Ended(stored, "expired"), "failed", None)
    ELSE IF stored.state # "retry_wait"
    THEN Invocation("replay", stored, None, "none", None)
    ELSE IF clock < stored.retryAt
    THEN Invocation("put", stored, stored, "none", None)
    ELSE Invocation("replay", Ended(stored, "running"), None, "none", None)

(* alarm() and the head of runCatalogCycleStep: expiry wins over a retry   *)
(* that is due, and a retry that is not due yet is put back.               *)
FirstCall ==
    IF clock >= ExpiresAt(stored) /\ stored.state \notin TerminalState
    THEN Invocation("persist", stored, Ended(stored, "expired"), "failed", None)
    ELSE IF stored.state # "retry_wait"
    THEN Invocation("replay", stored, None, "none", None)
    ELSE IF clock < stored.retryAt
    THEN Invocation("put", stored, stored, "none", stored.retryAt)
    ELSE Invocation("replay", Ended(stored, "running"), None, "none", None)

\* pending: the alarm that is still set while the handler runs.
Deliver(pending) ==
    /\ handler = None
    /\ IF stored = None \/ IsOver(stored)
       THEN handler' = None /\ alarm' = None
       ELSE handler' = FirstCall /\ alarm' = pending
    /\ UNCHANGED <<publicationVars, stored, receiptVars, sourceVars, starter, clock>>

AlarmFires ==
    /\ alarm # None
    /\ alarm <= clock
    /\ Deliver(None)
    /\ UNCHANGED faults

At(pc) == handler # None /\ handler.pc = pc
InStep(phase) == At("step") /\ Phase(handler.cycle) = phase

(* completedStepResult: a step whose receipt is done is not run again; the *)
(* cycle moves on to what its row says.                                    *)
Replay ==
    /\ At("replay")
    /\ LET c == handler.cycle.id
       IN  handler' =
              IF receipt[c][handler.cycle.cursor] # "done"
              THEN [handler EXCEPT !.pc = "step"]
              ELSE [handler EXCEPT
                      !.pc = "put", !.next = row[c],
                      !.alarmAt = IF IsOver(row[c]) THEN None ELSE handler.now]
    /\ UNCHANGED <<publicationVars, storageVars, receiptVars, sourceVars, starter, clock, faults>>

(* The result of a step, next to be persisted.                             *)
Result(pc, next, mark, alarmAt) ==
    /\ LegalTransition(handler.cycle.state, next.state)
    /\ handler' = [handler EXCEPT !.pc = pc, !.next = next,
                                  !.mark = mark, !.alarmAt = alarmAt]
    /\ UNCHANGED <<storageVars, receiptVars, starter, clock>>

Completes(pc, state) == Result(pc, Advanced(handler.cycle, state), "done", handler.now)

(* The catch block of alarm(), with the cycle read at the start.  It does  *)
(* not go through copyCycle, so no transition is illegal to it.            *)
Catch ==
    LET failed == Ended(handler.cycle, "failed")
    IN  /\ stored' = failed
        /\ handler' = [handler EXCEPT !.pc = "fail-row", !.next = failed]
        /\ UNCHANGED <<publicationVars, alarm, receiptVars, sourceVars, starter, clock>>

\* A step that throws on what it reads.
Throw == Catch /\ UNCHANGED faults

Acquire ==
    LET c == handler.cycle.id
    IN  /\ InStep("acquire")
        /\ FreezeBaseline(c)
        /\ artifacts' = [artifacts EXCEPT ![c] = {}]
        /\ differs' = [differs EXCEPT ![c] = FALSE]
        /\ Completes("persist", "running")
        /\ UNCHANGED <<requests, faults>>

\* storeArtifact or markUnchanged, then the manifest that lists the artifact.
StoreArtifact(c, artifact) ==
    /\ artifacts' = [artifacts EXCEPT ![c] = @ \cup {artifact}]
    /\ \E different \in BOOLEAN :
          differs' = [differs EXCEPT ![c] = @ \/ different]

\* Slip: one attempt too many.
RetrievalFails_OneMore ==
    LET attempt == handler.cycle.attempt + 1
        cycle   == [handler.cycle EXCEPT !.attempt = attempt]
    IN  IF attempt > MaxRequests
        THEN Result("persist", Ended(cycle, "failed"), "failed", None)
        ELSE \E reset \in {handler.now, handler.now + 1} :
                /\ reset <= MaxClock
                /\ Result("persist", [cycle EXCEPT !.state = "retry_wait", !.retryAt = reset],
                          "retry_wait", reset)

(* retrievalFailure: the last permitted attempt fails the cycle; any other *)
(* waits for the provider's reset, which falls in this tick or the next.   *)
RetrievalFails ==
    LET attempt == handler.cycle.attempt + 1
        cycle   == [handler.cycle EXCEPT !.attempt = attempt]
    IN  IF attempt >= MaxRequests
        THEN Result("persist", Ended(cycle, "failed"), "failed", None)
        ELSE \E reset \in {handler.now, handler.now + 1} :
                /\ reset <= MaxClock
                /\ Result("persist", [cycle EXCEPT !.state = "retry_wait", !.retryAt = reset],
                          "retry_wait", reset)

(* retrievalStep: an artifact that an earlier invocation stored is not     *)
(* requested again.                                                        *)
RetrieveArtifact(c, artifact) ==
    \/ /\ artifact \in artifacts[c]
       /\ Completes("persist", "running")
       /\ UNCHANGED sourceVars
    \/ /\ artifact \notin artifacts[c]
       /\ StoreArtifact(c, artifact)
       /\ requests' = [requests EXCEPT ![c] = 0]
       /\ Completes("persist-retrieval", "running")
    \/ /\ artifact \notin artifacts[c]
       /\ requests' = [requests EXCEPT ![c] = @ + 1]
       /\ RetrievalFails
       /\ UNCHANGED <<artifacts, differs>>

Retrieve ==
    LET c == handler.cycle.id
    IN  /\ At("step")
        /\ Phase(handler.cycle) \in Retrieval
        /\ IF manifest[c] # None
           THEN /\ RetrieveArtifact(c, Phase(handler.cycle))
                /\ UNCHANGED <<publicationVars, faults>>
           ELSE Throw

PrepareArtifact(c) ==
    /\ IF "prepare-manual" \in artifacts[c]
       THEN UNCHANGED <<artifacts, differs>>
       ELSE StoreArtifact(c, "prepare-manual")
    /\ Completes("persist", "running")
    /\ UNCHANGED <<publicationVars, requests, faults>>

\* manualStep
PrepareManual ==
    LET c == handler.cycle.id
    IN  /\ InStep("prepare-manual")
        /\ IF manifest[c] # None THEN PrepareArtifact(c) ELSE Throw

\* The candidate's content is the baseline's unless an artifact differs.
Candidate(c) ==
    IF manifest[c].frozen = None \/ differs[c] THEN "changed" ELSE "unchanged"

\* stageStep up to its batch.
CanStage(c) ==
    /\ manifest[c] # None
    /\ Baseline = manifest[c].frozen
    /\ artifacts[c] = Artifact

\* Slip: the final manifest before the batch.
Stage_ManifestFirst ==
    LET c == handler.cycle.id
    IN  /\ InStep("stage")
        /\ CanStage(c)
        /\ WriteFinalManifest(c, Candidate(c))
        /\ handler' = [handler EXCEPT !.pc = "write-manifest"]
        /\ UNCHANGED <<storageVars, receiptVars, sourceVars, starter, clock, faults>>

Stage ==
    LET c == handler.cycle.id
    IN  /\ InStep("stage")
        /\ IF CanStage(c)
           THEN /\ StageCandidate(c, Candidate(c))
                /\ handler' = [handler EXCEPT !.pc = "write-manifest"]
                /\ UNCHANGED <<storageVars, receiptVars, sourceVars, starter, clock, faults>>
           ELSE Throw

\* The rest of stageStep.
StageManifest ==
    LET c == handler.cycle.id
    IN  /\ At("write-manifest")
        /\ WriteFinalManifest(c, Candidate(c))
        /\ Completes("persist", "running")
        /\ UNCHANGED <<sourceVars, faults>>

HasFinal(c) == manifest[c] # None /\ manifest[c].final # "none"

Validate ==
    LET c == handler.cycle.id
    IN  /\ InStep("validate")
        /\ IF HasFinal(c) /\ CandidateComplete(c)
           THEN /\ Completes("persist", "ready_to_publish")
                /\ UNCHANGED <<publicationVars, sourceVars, faults>>
           ELSE Throw

\* publishStep's batch
Publish ==
    LET c == handler.cycle.id
    IN  /\ InStep("publish")
        /\ IF HasFinal(c) /\ PointersAllowed(Published(c))
           THEN /\ PublishBatch(c)
                /\ handler' = [handler EXCEPT !.pc = "confirm"]
                /\ UNCHANGED <<storageVars, receiptVars, sourceVars, starter, clock, faults>>
           ELSE Throw

\* The rest of publishStep.
ConfirmPublication ==
    /\ At("confirm")
    /\ IF PointersMatch(handler.cycle.id)
       THEN /\ Completes("persist", "published")
            /\ UNCHANGED <<publicationVars, sourceVars, faults>>
       ELSE Throw

\* receiptStep: its batch sets the row's state and leaves phase and cursor.
Receipt ==
    LET c == handler.cycle.id
    IN  /\ InStep("receipt")
        /\ IF HasFinal(c)
           THEN /\ receipt' = [receipt EXCEPT ![c][handler.cycle.cursor] = "done"]
                /\ row' = [row EXCEPT ![c] = Ended(row[c], "published")]
                /\ handler' = [handler EXCEPT !.pc = "put", !.next = handler.cycle]
                /\ UNCHANGED <<publicationVars, storageVars, sourceVars,
                               starter, clock, faults>>
           ELSE Throw

\* Slip: the receipt is written for the next step instead of the finished one.
Persist_NextStep ==
    LET c == handler.cycle.id
    IN  /\ At("persist") \/ At("persist-retrieval")
        /\ receipt' = [receipt EXCEPT ![c][handler.next.cursor] = handler.mark]
        /\ row' = [row EXCEPT ![c] = handler.next]
        /\ handler' = [handler EXCEPT !.pc = "put"]
        /\ UNCHANGED <<publicationVars, storageVars, sourceVars, starter, clock, faults>>

\* Slip: a failed step leaves the cycle's row alone.
Persist_KeepsRow ==
    LET c == handler.cycle.id
    IN  /\ At("persist") \/ At("persist-retrieval")
        /\ receipt' = [receipt EXCEPT ![c][handler.cycle.cursor] = handler.mark]
        /\ row' = IF handler.mark = "failed" THEN row ELSE [row EXCEPT ![c] = handler.next]
        /\ handler' = [handler EXCEPT !.pc = "put"]
        /\ UNCHANGED <<publicationVars, storageVars, sourceVars, starter, clock, faults>>

\* persistStep: one batch for the step receipt and the cycle row.
Persist ==
    LET c == handler.cycle.id
    IN  /\ At("persist") \/ At("persist-retrieval")
        /\ receipt' = [receipt EXCEPT ![c][handler.cycle.cursor] = handler.mark]
        /\ row' = [row EXCEPT ![c] = handler.next]
        /\ handler' = [handler EXCEPT !.pc = "put"]
        /\ UNCHANGED <<publicationVars, storageVars, sourceVars, starter, clock, faults>>

\* Slip: no alarm for the next step.
Put_NoAlarm ==
    /\ At("put")
    /\ stored' = handler.next
    /\ handler' = None
    /\ UNCHANGED <<publicationVars, alarm, receiptVars, sourceVars, starter, clock, faults>>

(* The tail of alarm(): Durable Object storage takes the record and the    *)
(* alarm together.                                                         *)
Put ==
    /\ At("put")
    /\ stored' = handler.next
    /\ alarm' = handler.alarmAt
    /\ handler' = None
    /\ UNCHANGED <<publicationVars, receiptVars, sourceVars, starter, clock, faults>>

FailRow ==
    /\ At("fail-row")
    /\ row' = [row EXCEPT ![handler.cycle.id] = handler.next]
    /\ alarm' = None
    /\ handler' = None
    /\ UNCHANGED <<publicationVars, stored, receipt, sourceVars, starter, clock, faults>>

HandlerNext ==
    \/ Replay \/ Acquire \/ Retrieve \/ PrepareManual
    \/ Stage \/ StageManifest \/ Validate \/ Publish \/ ConfirmPublication \/ Receipt
    \/ Persist \/ Put \/ FailRow
-----------------------------------------------------------------------------
(***************************************************************************)
(* start(), called by the daily cron trigger.                              *)
(***************************************************************************)
AlreadyRunning(at) ==
    stored # None /\ IsActive(stored) /\ CadenceOf(stored) = Cadence(at, TicksPerDay)

AlreadyCompleted(at) ==
    /\ stored # None
    /\ stored.state = "published"
    /\ ~CycleDue(CadenceOf(stored), Cadence(at, TicksPerDay))

\* randomUUID
FreshId(c) == row[c] = None /\ \A s \in Starter : starter[s] # None => starter[s].id # c

\* start() up to its first await of D1.
StartBegin(s) ==
    /\ starter[s] = None
    /\ ~AlreadyRunning(clock)
    /\ ~AlreadyCompleted(clock)
    /\ \E c \in Cycle :
          /\ FreshId(c)
          /\ starter' = [starter EXCEPT ![s] =
                [pc |-> IF stored # None /\ IsActive(stored) THEN "expire" ELSE "insert",
                 at |-> clock, existing |-> stored, id |-> c]]
    /\ UNCHANGED <<publicationVars, storageVars, receiptVars, sourceVars, handler, clock, faults>>

Starting(s, pc) == starter[s] # None /\ starter[s].pc = pc

\* The unfinished cycle of an older cadence is expired, as it was when read.
StartExpire(s) ==
    LET old == starter[s].existing
    IN  /\ Starting(s, "expire")
        /\ row' = [row EXCEPT ![old.id] = Ended(old, "expired")]
        /\ starter' = [starter EXCEPT ![s].pc = "insert"]
        /\ UNCHANGED <<publicationVars, storageVars, receipt, sourceVars, handler, clock, faults>>

StartInsert(s) ==
    LET c == starter[s].id
    IN  /\ Starting(s, "insert")
        /\ row' = [row EXCEPT ![c] = NewCycle(c, starter[s].at)]
        /\ starter' = [starter EXCEPT ![s].pc = "put"]
        /\ UNCHANGED <<publicationVars, storageVars, receipt, sourceVars, handler, clock, faults>>

StartPut(s) ==
    /\ Starting(s, "put")
    /\ stored' = NewCycle(starter[s].id, starter[s].at)
    /\ alarm' = starter[s].at
    /\ starter' = [starter EXCEPT ![s] = None]
    /\ UNCHANGED <<publicationVars, receiptVars, sourceVars, handler, clock, faults>>

StarterNext(s) == StartBegin(s) \/ StartExpire(s) \/ StartInsert(s) \/ StartPut(s)
-----------------------------------------------------------------------------
(***************************************************************************)
(* Time and faults.                                                        *)
(***************************************************************************)

\* An invocation sees at most one tick go by.
Tick ==
    /\ clock < MaxClock
    /\ handler # None => handler.now = clock
    /\ \A s \in Starter : starter[s] # None => starter[s].at = clock
    /\ clock' = clock + 1
    /\ UNCHANGED <<publicationVars, storageVars, receiptVars, sourceVars, handler, starter, faults>>

Fault(kind) ==
    /\ kind \in FaultKinds
    /\ faults < MaxFaults
    /\ faults' = faults + 1

\* The platform delivers an alarm again whose handler did not return.
Redelivered == IF alarm = None THEN clock ELSE alarm

Crash ==
    /\ Fault("crash")
    /\ handler # None \/ \E s \in Starter : starter[s] # None
    /\ handler' = None
    /\ alarm' = IF handler = None THEN alarm ELSE Redelivered
    /\ starter' = [s \in Starter |-> None]
    /\ UNCHANGED <<publicationVars, stored, receiptVars, sourceVars, clock>>

\* Alarms are delivered at least once.
DuplicateAlarm == Fault("duplicate_alarm") /\ Deliver(alarm)

(* A call to D1 or R2 rejects.  Only retrievalStep catches what the step   *)
(* receipt of a stored artifact throws; the rest reaches alarm().          *)
CallRejects ==
    /\ Fault("io_error")
    /\ \/ /\ handler # None /\ handler.pc \notin {"put", "fail-row", "persist-retrieval"}
          /\ Catch
       \/ /\ At("persist-retrieval")
          /\ RetrievalFails
          /\ UNCHANGED <<publicationVars, sourceVars>>
       \/ /\ At("fail-row")
          /\ handler' = None
          /\ alarm' = Redelivered
          /\ UNCHANGED <<publicationVars, stored, receiptVars, sourceVars, starter, clock>>
       \/ \E s \in Starter :
          /\ Starting(s, "expire") \/ Starting(s, "insert")
          /\ starter' = [starter EXCEPT ![s] = None]
          /\ UNCHANGED <<publicationVars, storageVars, receiptVars, sourceVars, handler, clock>>

Next ==
    \/ AlarmFires
    \/ HandlerNext
    \/ \E s \in Starter : StarterNext(s)
    \/ Tick
    \/ Crash \/ DuplicateAlarm \/ CallRejects

Spec == Init /\ [][Next]_vars

(* The platform delivers an alarm that is due, an invocation that was let  *)
(* in goes on, and time passes.  Nothing obliges cron to call start(), and *)
(* nothing obliges a fault to happen.                                      *)
Fairness ==
    /\ WF_vars(AlarmFires)
    /\ WF_vars(HandlerNext)
    /\ \A s \in Starter : WF_vars(StartExpire(s) \/ StartInsert(s) \/ StartPut(s))
    /\ WF_vars(Tick)

FairSpec == Spec /\ Fairness
-----------------------------------------------------------------------------
(***************************************************************************)
(* Properties that hold.                                                   *)
(***************************************************************************)

(* However the coordinator is interrupted, overlapped or replayed, it acts *)
(* on the publication tables by the protocol of CatalogPublication alone:  *)
(* baseline before candidate, candidate before final manifest, and the     *)
(* guarded batch last.                                                     *)
KeepsProtocol == PublicationSpec

(* The completion markers of a cycle form a prefix of its steps: no crash, *)
(* retry or overlap lets a step complete before an earlier one.            *)
CheckpointsInOrder ==
    \A c \in Cycle : \A k \in Cursor :
        receipt[c][k] = "done" => \A j \in 0..k - 1 : receipt[c][j] = "done"

(* Between invocations the cycle in storage resumes at the first step that *)
(* has no completion marker, or at the one before it (a crash between D1   *)
(* and storage, which the replay check of the next alarm repairs).         *)
ResumesWhereItStopped ==
    handler = None /\ stored # None /\ IsActive(stored) =>
        \A k \in Cursor :
            /\ k < stored.cursor => receipt[stored.id][k] = "done"
            /\ receipt[stored.id][k] = "done" => k <= stored.cursor

(* When storage says that a cycle is over, so does its row in D1.          *)
EndsTogether ==
    handler = None /\ stored # None /\ IsOver(stored) =>
        row[stored.id].state \in TerminalState

(* An unfinished cycle always has an alarm to wake it, as long as no call  *)
(* to D1 rejects.                                                          *)
NoLostWakeup ==
    handler = None /\ stored # None /\ IsActive(stored) => alarm # None

Served(c) == \E pair \in everServed : pair[2] = c

(* A cycle is recorded as published, in D1 or in storage, only if readers  *)
(* were really given its responses.                                        *)
PublishedWasServed ==
    \A c \in Cycle :
        \/ row[c] # None /\ row[c].state = "published"
        \/ stored # None /\ stored.id = c /\ stored.state = "published"
        => Served(c)

(* Every fault costs at most one request beyond the three of a step.       *)
RequestsBounded == \A c \in Cycle : requests[c] <= MaxRequests + faults

(* No step finds the baseline moved, its candidate gone or its compare-    *)
(* and-swap lost, whichever start() calls overlap it.                      *)
BaselineHolds ==
    LET c == handler.cycle.id
    IN  /\ InStep("stage") => CanStage(c)
        /\ InStep("validate") => HasFinal(c) /\ CandidateComplete(c)
        /\ InStep("publish") => PointersAllowed(Published(c))
        /\ At("confirm") => PointersMatch(c)

(* Every cycle that storage holds ends or is replaced: retries, crashes    *)
(* and duplicate alarms do not keep it going for ever.                     *)
CycleEnds ==
    \A c \in Cycle :
        (stored # None /\ stored.id = c /\ IsActive(stored))
            ~> ~(stored # None /\ stored.id = c /\ IsActive(stored))

(* Crashes, redelivered alarms and overlaps leave the completion markers, the *)
(* row in D1 and the cycle in storage in agreement on how far a cycle is.     *)
CheckpointsAgree ==
    /\ CheckpointsInOrder
    /\ ResumesWhereItStopped
    /\ EndsTogether
=============================================================================
