---------------------------- MODULE CampaignDraft ----------------------------
(***************************************************************************)
(* scripts/create-brevo-campaign-draft.ts: runs of the script for one      *)
(* dedupe key share a state directory with draft.lock, pending.json and    *)
(* receipt.json, and one remote service.  An action is one file-system or  *)
(* network call that another run, or a crash, can come before.             *)
(*                                                                         *)
(* A lock file is named after the run that created it.  sameIdentity       *)
(* compares inode numbers, which the file system gives out again once a    *)
(* file is neither linked nor open.  Drafts are named after the run that   *)
(* posted them: a run posts at most once.                                  *)
(***************************************************************************)
EXTENDS Naturals, FiniteSets, Nothing

CONSTANTS
    Run,        \* processes that run the script
    Campaign,   \* what a run may have prepared; its name holds its fingerprint
    Inode,      \* inode numbers of lock files
    MaxDraftFaults   \* bound on crashes, power failures and failed calls

ASSUME NoneIsNoRun == None \notin Run \cup Campaign \cup Inode
ASSUME FaultsAreCounted == MaxDraftFaults \in Nat

VARIABLES
    campaign,   \* campaign[r]: what run r prepared from its signed inputs
    at,         \* at[r]: the next call of run r
    lock,       \* whose file is at draft.lock, or None
    ino,        \* ino[r]: the inode of the lock file r created, or None
    written,    \* runs whose lock record is in their file
    old,        \* runs whose lock record is past LOCK_STALE_AFTER_MS
    seen,       \* seen[r]: the lock file r inspected
    claim,      \* claim[r]: the lock file under a claim name of r
    recovered,  \* runs that have removed a stale lock
    putBack,    \* runs whose lock was taken from draft.lock and put back while they relied on it
    pending,    \* pending.json as the running system sees it
    receipt,    \* receipt.json as the running system sees it
    disk,       \* both as a power failure would leave them
    posted,     \* posted[r]: what became of the request r posted
    draftFaults

lockVars == <<lock, ino, written, old, seen, claim, recovered, putBack>>
stateVars == <<pending, receipt, disk>>
draftVars == <<campaign, at, lock, ino, written, old, seen, claim, recovered, putBack,
          pending, receipt, disk, posted, draftFaults>>

RunOver == {"over", "dead"}
LockStep == {"open", "inspect", "judge", "recover", "unlink", "record", "confirm"}
HeldStep == {"own", "readReceipt", "list", "verify", "readPending", "ownPending",
    "writePending", "syncPending", "ownPost", "post", "reply", "ownReceipt",
    "writeReceipt", "syncReceipt", "ownRemoval", "removePending", "syncRemoval"}
LeaveStep == {"release", "drop", "restore"}
RunAt == LockStep \cup HeldStep \cup LeaveStep

DraftState == {"none", "sent", "refused", "draft", "handled"}

(* Each run prepares one campaign from the inputs it was signed with. *)
Prepared == [Run -> Campaign]

DraftTypeOK ==
    /\ campaign \in Prepared
    /\ at \in [Run -> RunAt \cup RunOver]
    /\ lock \in Run \cup {None}
    /\ ino \in [Run -> Inode \cup {None}]
    /\ written \subseteq Run /\ old \subseteq written /\ recovered \cup putBack \subseteq Run
    /\ seen \in [Run -> Run \cup {None}]
    /\ claim \in [Run -> Run \cup {None}]
    /\ {pending, receipt, disk.pending, disk.receipt} \subseteq Campaign \cup {None}
    /\ posted \in [Run -> DraftState]
    /\ draftFaults \in 0..MaxDraftFaults

DraftInit ==
    /\ campaign \in Prepared
    /\ at = [r \in Run |-> "open"]
    /\ lock = None
    /\ ino = [r \in Run |-> None]
    /\ written = {} /\ old = {} /\ recovered = {} /\ putBack = {}
    /\ seen = [r \in Run |-> None]
    /\ claim = [r \in Run |-> None]
    /\ pending = None /\ receipt = None
    /\ disk = [pending |-> None, receipt |-> None]
    /\ posted = [r \in Run |-> "none"]
    /\ draftFaults = 0

RunAlive(r) == at[r] \notin RunOver

Goes(r, from, to) == at[r] = from /\ at' = [at EXCEPT ![r] = to]

SameIdentity(f, g) == ino[f] = ino[g]

(* A file keeps its inode while it has a name, or its creator holds it open. *)
InodesInUse ==
    {ino[f] : f \in {f \in Run : \/ lock = f
                                 \/ \E r \in Run : claim[r] = f
                                 \/ RunAlive(f) /\ at[f] \notin LeaveStep}}

-----------------------------------------------------------------------------
(* The lock. *)

CreateLock(r) ==
    /\ lock = None
    /\ Goes(r, "open", "record")
    /\ \E n \in Inode \ InodesInUse : ino' = [ino EXCEPT ![r] = n]
    /\ lock' = r
    /\ UNCHANGED <<campaign, written, old, seen, claim, recovered, putBack, posted, draftFaults, stateVars>>

LockExists(r) ==
    /\ lock # None
    /\ Goes(r, "open", IF r \in recovered THEN "over" ELSE "inspect")
    /\ UNCHANGED <<campaign, lockVars, posted, draftFaults, stateVars>>

(* An empty or missing file is taken for a lock that is held. *)
InspectLock(r) ==
    /\ IF lock \in written
         THEN Goes(r, "inspect", "judge") /\ seen' = [seen EXCEPT ![r] = lock]
         ELSE Goes(r, "inspect", "over") /\ UNCHANGED seen
    /\ UNCHANGED <<campaign, lock, ino, written, old, claim, recovered, putBack, posted, draftFaults, stateVars>>

(* The pid of a dead owner may have been given to another process. *)
JudgeLock(r) ==
    /\ \/ seen[r] \in old /\ ~RunAlive(seen[r]) /\ Goes(r, "judge", "recover")
       \/ Goes(r, "judge", "over")
    /\ UNCHANGED <<campaign, lockVars, posted, draftFaults, stateVars>>

(* claimLockPath renames whatever is at draft.lock now, then compares it. *)
ClaimLock(r, from, expected, absent, other) ==
    IF lock = None
    THEN Goes(r, from, absent) /\ UNCHANGED lockVars
    ELSE /\ Goes(r, from, IF SameIdentity(lock, expected)
                          THEN IF from = "recover" THEN "unlink" ELSE "drop"
                          ELSE other)
         /\ claim' = [claim EXCEPT ![r] = lock]
         /\ lock' = None
         /\ UNCHANGED <<ino, written, old, seen, recovered, putBack>>

RecoverLock(r) ==
    /\ ClaimLock(r, "recover", seen[r], "over", "restore")
    /\ UNCHANGED <<campaign, posted, draftFaults, stateVars>>

UnlinkStale(r) ==
    /\ Goes(r, "unlink", "open")
    /\ claim' = [claim EXCEPT ![r] = None]
    /\ recovered' = recovered \cup {r}
    /\ UNCHANGED <<campaign, lock, ino, written, old, seen, putBack, posted, draftFaults, stateVars>>

(* restoreClaimedLock links the file back unless another is there by now. *)
RestoreLock(r) ==
    /\ Goes(r, "restore", "over")
    /\ lock' = IF lock = None THEN claim[r] ELSE lock
    /\ claim' = [claim EXCEPT ![r] = None]
    /\ putBack' = IF lock = None /\ at[claim[r]] \in HeldStep THEN putBack \cup {claim[r]} ELSE putBack
    /\ UNCHANGED <<campaign, ino, written, old, seen, recovered, posted, draftFaults, stateVars>>

WriteLock(r) ==
    /\ Goes(r, "record", "confirm")
    /\ written' = written \cup {r}
    /\ UNCHANGED <<campaign, lock, ino, old, seen, claim, recovered, putBack, posted, draftFaults, stateVars>>

ConfirmLock(r) ==
    /\ Goes(r, "confirm", IF lock # None /\ SameIdentity(lock, r) THEN "own" ELSE "release")
    /\ UNCHANGED <<campaign, lockVars, posted, draftFaults, stateVars>>

ReleaseLock(r) ==
    /\ ClaimLock(r, "release", r, "over", "restore")
    /\ UNCHANGED <<campaign, posted, draftFaults, stateVars>>

DropLock(r) ==
    /\ Goes(r, "drop", "over")
    /\ claim' = [claim EXCEPT ![r] = None]
    /\ UNCHANGED <<campaign, lock, ino, written, old, seen, recovered, putBack, posted, draftFaults, stateVars>>

AcquireReceiptLock(r) ==
    \/ CreateLock(r) \/ LockExists(r) \/ InspectLock(r) \/ JudgeLock(r)
    \/ RecoverLock(r) \/ UnlinkStale(r) \/ WriteLock(r) \/ ConfirmLock(r)

LeaveLock(r) == ReleaseLock(r) \/ DropLock(r) \/ RestoreLock(r)

-----------------------------------------------------------------------------
(* createNewsletterCampaignDraft, while the lock is held. *)

Owned == [own |-> "readReceipt", ownPending |-> "writePending", ownPost |-> "post",
          ownReceipt |-> "writeReceipt", ownRemoval |-> "removePending"]

(* assertOwned compares the inode and the whole record, token included. *)
AssertOwned(r) ==
    /\ at[r] \in DOMAIN Owned
    /\ at' = [at EXCEPT ![r] = IF lock = r THEN Owned[@] ELSE "release"]
    /\ UNCHANGED <<campaign, lockVars, posted, draftFaults, stateVars>>

ReadReceipt(r) ==
    /\ Goes(r, "readReceipt", IF receipt = None THEN "list" ELSE "release")
    /\ UNCHANGED <<campaign, lockVars, posted, draftFaults, stateVars>>

(* The drafts that the list shows under the name of r's campaign. *)
Matching(r) == {d \in Run : posted[d] = "draft" /\ campaign[d] = campaign[r]}

ListDrafts(r) ==
    /\ Goes(r, "list", CASE Cardinality(Matching(r)) = 0 -> "readPending"
                         [] Cardinality(Matching(r)) = 1 -> "verify"
                         [] OTHER -> "release")
    /\ UNCHANGED <<campaign, lockVars, posted, draftFaults, stateVars>>

(* verifyCampaignById of the one draft that was found, or of the one created. *)
VerifyDraft(r) ==
    /\ Goes(r, "verify", IF Matching(r) # {} THEN "ownReceipt" ELSE "release")
    /\ UNCHANGED <<campaign, lockVars, posted, draftFaults, stateVars>>

(* Slip: a pending record is taken as leave to post again. *)
SlipReadPending(r) ==
    /\ Goes(r, "readPending", IF pending = None THEN "ownPending" ELSE "ownPost")
    /\ UNCHANGED <<campaign, lockVars, posted, draftFaults, stateVars>>

ReadPending(r) ==
    /\ Goes(r, "readPending", IF pending = None THEN "ownPending" ELSE "release")
    /\ UNCHANGED <<campaign, lockVars, posted, draftFaults, stateVars>>

(* writeStateFile installs the synced temporary file with link(), which
   refuses to replace a file; the directory is synced afterwards. *)
WritePending(r) ==
    /\ IF pending = None
         THEN Goes(r, "writePending", "syncPending") /\ pending' = campaign[r]
         ELSE Goes(r, "writePending", "release") /\ UNCHANGED pending
    /\ UNCHANGED <<campaign, lockVars, receipt, disk, posted, draftFaults>>

WriteReceipt(r) ==
    /\ IF receipt = None
         THEN Goes(r, "writeReceipt", "syncReceipt") /\ receipt' = campaign[r]
         ELSE Goes(r, "writeReceipt", "release") /\ UNCHANGED receipt
    /\ UNCHANGED <<campaign, lockVars, pending, disk, posted, draftFaults>>

RemovePending(r) ==
    /\ Goes(r, "removePending", IF pending = None THEN "release" ELSE "syncRemoval")
    /\ pending' = None
    /\ UNCHANGED <<campaign, lockVars, receipt, disk, posted, draftFaults>>

Synced == [syncPending |-> "ownPost", syncReceipt |-> "ownRemoval", syncRemoval |-> "release"]

(* Slip: the directory is not synced after pending.json is linked into it. *)
SlipSyncDirectory(r) ==
    /\ at[r] \in DOMAIN Synced
    /\ at' = [at EXCEPT ![r] = Synced[@]]
    /\ disk' = IF at[r] = "syncPending" THEN disk ELSE [pending |-> pending, receipt |-> receipt]
    /\ UNCHANGED <<campaign, lockVars, pending, receipt, posted, draftFaults>>

SyncDirectory(r) ==
    /\ at[r] \in DOMAIN Synced
    /\ at' = [at EXCEPT ![r] = Synced[@]]
    /\ disk' = [pending |-> pending, receipt |-> receipt]
    /\ UNCHANGED <<campaign, lockVars, pending, receipt, posted, draftFaults>>

PostDraft(r) ==
    /\ Goes(r, "post", "reply")
    /\ posted' = [posted EXCEPT ![r] = "sent"]
    /\ UNCHANGED <<campaign, lockVars, draftFaults, stateVars>>

(* Slip: any answer counts as created. *)
SlipPostReply(r) ==
    /\ posted[r] # "sent"
    /\ Goes(r, "reply", "ownReceipt")
    /\ UNCHANGED <<campaign, lockVars, posted, draftFaults, stateVars>>

(* Slip: pending.json is removed before receipt.json is written. *)
SlipPendingFirst(r) ==
    /\ posted[r] # "sent"
    /\ Goes(r, "reply", IF posted[r] = "refused" THEN "release" ELSE "ownRemoval")
    /\ UNCHANGED <<campaign, lockVars, posted, draftFaults, stateVars>>

PostReply(r) ==
    /\ posted[r] # "sent"
    /\ Goes(r, "reply", IF posted[r] = "refused" THEN "release" ELSE "verify")
    /\ UNCHANGED <<campaign, lockVars, posted, draftFaults, stateVars>>

HoldLock(r) ==
    \/ AssertOwned(r) \/ ReadReceipt(r) \/ ListDrafts(r) \/ VerifyDraft(r)
    \/ ReadPending(r) \/ WritePending(r) \/ WriteReceipt(r) \/ RemovePending(r)
    \/ SyncDirectory(r) \/ PostDraft(r) \/ PostReply(r)

RunStep(r) == AcquireReceiptLock(r) \/ HoldLock(r) \/ LeaveLock(r)

-----------------------------------------------------------------------------
(* Brevo, its editors, the clock and failures. *)

BrevoAnswers(r) ==
    /\ posted[r] = "sent"
    /\ \E s \in {"draft", "refused"} : posted' = [posted EXCEPT ![r] = s]
    /\ UNCHANGED <<campaign, at, lockVars, draftFaults, stateVars>>

(* An editor sends, changes or deletes the draft. *)
EditorHandles(r) ==
    /\ posted[r] = "draft"
    /\ posted' = [posted EXCEPT ![r] = "handled"]
    /\ UNCHANGED <<campaign, at, lockVars, draftFaults, stateVars>>

(* Slip: the age is that of the file, not of the record in it. *)
SlipLockGrowsOld(r) ==
    /\ lock = r /\ r \notin old
    /\ old' = old \cup {r}
    /\ UNCHANGED <<campaign, at, lock, ino, written, seen, claim, recovered, putBack, posted, draftFaults, stateVars>>

LockGrowsOld(r) ==
    /\ lock = r /\ r \in written \ old
    /\ old' = old \cup {r}
    /\ UNCHANGED <<campaign, at, lock, ino, written, seen, claim, recovered, putBack, posted, draftFaults, stateVars>>

DraftFault == draftFaults < MaxDraftFaults /\ draftFaults' = draftFaults + 1

(* A call to Brevo times out, or a file operation throws: the script releases
   its lock.  The request it gave up on is still on its way. *)
BrevoCallFails(r) ==
    /\ DraftFault
    /\ at[r] \in HeldStep
    /\ at' = [at EXCEPT ![r] = "release"]
    /\ UNCHANGED <<campaign, lockVars, posted, stateVars>>

RunCrashes(r) ==
    /\ DraftFault
    /\ RunAlive(r)
    /\ at' = [at EXCEPT ![r] = "dead"]
    /\ UNCHANGED <<campaign, lockVars, posted, stateVars>>

(* Directory entries that were not synced may or may not have reached the disk. *)
PowerFails ==
    /\ DraftFault
    /\ at' = [r \in Run |-> IF RunAlive(r) /\ at[r] # "open" THEN "dead" ELSE at[r]]
    /\ pending' \in {pending, disk.pending}
    /\ receipt' \in {receipt, disk.receipt}
    /\ disk' = [pending |-> pending', receipt |-> receipt']
    /\ UNCHANGED <<campaign, lockVars, posted>>

DraftEnvironment ==
    \/ \E r \in Run : BrevoAnswers(r) \/ EditorHandles(r) \/ LockGrowsOld(r)
                      \/ BrevoCallFails(r) \/ RunCrashes(r)
    \/ PowerFails

DraftNext == (\E r \in Run : RunStep(r)) \/ DraftEnvironment

DraftSpec == DraftInit /\ [][DraftNext]_draftVars

-----------------------------------------------------------------------------
(* Properties. *)

CreatedDrafts == {r \in Run : posted[r] \in {"draft", "handled"}}

(* However often the script runs, crashes and loses its lock, Brevo is given
   one campaign draft for the revision pair.  It does not hold: while a lock
   that was taken by mistake is not yet put back, another run can do all of its
   work, and the first one goes on with what it read before
   (restoreClaimedLock). *)
AtMostOneDraft == Cardinality(CreatedDrafts) <= 1

(* That is the only way to a second draft. *)
OneDraftPerLock == putBack = {} => AtMostOneDraft

(* A draft that exists, or may still come to exist, is on disk as pending or
   as drafted: a power failure cannot make the script forget it. *)
DraftIsOnRecord ==
    (\E r \in Run : posted[r] \in {"sent", "draft", "handled"})
        => (disk.pending # None \/ disk.receipt # None)

(* The receipt names a draft that really was created. *)
ReceiptIsTrue == receipt # None => \E r \in CreatedDrafts : campaign[r] = receipt

Once == INSTANCE CampaignOnce WITH
            announced <- disk.pending,
            created <- {campaign[r] : r \in CreatedDrafts},
            recorded <- disk.receipt

OnceVars == Once!onceVars

(* Unless a lock is put back, the records and the remote service go through *)
(* announce, create, record: they are changed as CampaignOnce changes them. *)
ImplementsOnce == Once!OnceInit /\ [][putBack = {} => Once!OnceNext]_OnceVars

(* Runs, crashes and power failures leave one draft at most, on record, and a *)
(* receipt that tells the truth about it.                                     *)
RecordsAreTrue ==
    /\ DraftTypeOK
    /\ OneDraftPerLock
    /\ DraftIsOnRecord
    /\ ReceiptIsTrue
=============================================================================
