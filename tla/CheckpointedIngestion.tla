----------------------- MODULE CheckpointedIngestion -----------------------
(***************************************************************************)
(* The contracts both ingestion coordinators share                         *)
(* (workers/_shared/checkpointed-ingestion.ts, src/ingestion/cadence.ts):  *)
(* the states of a cycle, the transitions between them that are legal, and *)
(* the cadence a cycle belongs to.  Constant operators only.               *)
(***************************************************************************)
EXTENDS Naturals

CycleState ==
    {"idle", "running", "retry_wait", "ready_to_publish",
     "published", "failed", "expired"}

\* States in which a coordinator still has work to do for a cycle.
ActiveState == {"running", "retry_wait", "ready_to_publish"}

\* isTerminalState
TerminalState == {"published", "failed", "expired"}

LegalSuccessors ==
    [idle             |-> {"running", "expired"},
     running          |-> {"running", "retry_wait", "ready_to_publish", "failed", "expired"},
     retry_wait       |-> {"running", "failed", "expired"},
     ready_to_publish |-> {"published", "failed", "expired"},
     published        |-> {},
     failed           |-> {"expired"},
     expired          |-> {}]

\* assertCycleTransition does not throw.
LegalTransition(previous, next) ==
    previous = next \/ next \in LegalSuccessors[previous]

\* Requests one bounded step may make; the failure of the last is terminal.
MaxRequests == 3

(* Step receipts (ingestion_cycle_steps).  "done" stands for the two       *)
(* completion markers, completed and skipped, that a replay recognises.    *)
StepStatus == {"none", "done", "retry_wait", "failed"}

\* A cadence is a whole number of ticks: a UTC day, or an ISO week.
Cadence(tick, ticksPerCadence) == tick \div ticksPerCadence

\* Only a strictly newer cadence than the last completed one is due.
CycleDue(lastCompleted, next) == next > lastCompleted
=============================================================================
