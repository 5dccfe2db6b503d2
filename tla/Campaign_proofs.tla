-------------------------- MODULE Campaign_proofs --------------------------
(***************************************************************************)
(* The newsletter's scripts, for every value of the constants.             *)
(*                                                                         *)
(* create-brevo-campaign-draft.ts: however many runs overlap, crash and    *)
(* lose power, a draft is on record and the receipt tells the truth; and   *)
(* unless a lock is put back under its owner, there is one draft at most,  *)
(* and records and drafts change as CampaignOnce lets them.  The invariant *)
(* has two layers.  The files hold each other up: a receipt on disk never  *)
(* goes away, and a pending record on disk goes only after a receipt.  The *)
(* lock then protects what a run has read: while it is still the file that *)
(* the run made, nobody who holds up the run's conclusions can act.        *)
(*                                                                         *)
(* CheatsheetBundle: one generator works in the output directory, because  *)
(* the lock is its own; the files it has moved lead up to the manifest.    *)
(*                                                                         *)
(* RevisionFacts: announced facts are the diff of the two revisions they   *)
(* name, and both revisions stood the comparison with their catalog.  A    *)
(* published revision never changes, so this stays true; a campaign joins  *)
(* it because a manifest and a newsletter together fix every field of the  *)
(* facts.                                                                  *)
(***************************************************************************)
EXTENDS CampaignDraft, CheatsheetBundle, RevisionFacts, FiniteSetTheorems, TLAPS

(* What a run does with what it has read under its lock. *)
Busy == HeldStep \ {"own", "readReceipt", "verify", "reply"}

Posters == {r \in Run : at[r] = "post" \/ posted[r] # "none"}

ClaimsAreHeld == \A r \in Run : at[r] \in {"unlink", "restore", "drop"} => claim[r] # None

ReceiptStays ==
    /\ disk.receipt # None => receipt = disk.receipt
    /\ \A r \in Run : at[r] = "syncReceipt" => receipt # None
    /\ \A r \in Run : at[r] \in {"ownRemoval", "removePending", "syncRemoval"} => disk.receipt # None

HasDraft(c) == \E d \in CreatedDrafts : campaign[d] = c

FoundFirst ==
    /\ receipt # None => HasDraft(receipt)
    /\ \A r \in Run : at[r] \in {"ownReceipt", "writeReceipt"} => HasDraft(campaign[r])

OnRecord == disk.pending # None \/ disk.receipt # None

PendingStays ==
    /\ disk.pending # None /\ disk.receipt = None => pending = disk.pending
    /\ \A r \in Run : at[r] = "syncPending" => pending # None \/ disk.receipt # None
    /\ \A r \in Run : at[r] = "ownPost" \/ r \in Posters => OnRecord

(* A run whose lock is in place, from its look for a receipt to its request. *)
Relies(r) == lock = r /\ at[r] \in {"list", "readPending", "ownPending", "writePending", "syncPending", "ownPost"}

LockIsTrusted ==
    /\ \A r, s \in Run : Relies(r) => at[s] # "removePending"
    /\ \A r \in Run : Relies(r) /\ at[r] \in {"list", "readPending"} /\ Posters # {} => pending # None
    /\ \A r \in Run : Relies(r) /\ at[r] \notin {"list", "readPending"} => Posters = {}
    /\ \A r \in Run : Relies(r) /\ at[r] \in {"syncPending", "ownPost"} => pending = campaign[r]
    /\ \A r, s \in Posters : r = s
    /\ \A r \in Posters : disk.receipt = None => pending = campaign[r]

DraftInv ==
    /\ DraftTypeOK /\ ClaimsAreHeld
    /\ ReceiptStays /\ FoundFirst /\ PendingStays
    /\ putBack = {} => LockIsTrusted

---------------------------------------------------------------------------
(* Steps that leave the records alone. *)

LEMMA Moved ==
    ASSUME DraftTypeOK, NEW r \in Run, NEW to \in RunAt \cup RunOver, at' = [at EXCEPT ![r] = to]
    PROVE  /\ at' \in [Run -> RunAt \cup RunOver]
           /\ at'[r] = to
           /\ \A q \in Run : q # r => at'[q] = at[q]
BY DEF DraftTypeOK

(* A step that brings no run to a busy place, and no busy run to its lock. *)
LEMMA QuietKeeps ==
    ASSUME DraftInv, DraftTypeOK', ClaimsAreHeld', UNCHANGED <<campaign, posted, stateVars>>,
           putBack \subseteq putBack',
           \A q \in Run : at'[q] \in Busy => at'[q] = at[q],
           \A q \in Run : lock' = q /\ at'[q] \in Busy => lock = q \/ putBack' # {}
    PROVE  DraftInv'
<1>1. pending' = pending /\ receipt' = receipt /\ disk' = disk /\ campaign' = campaign /\ posted' = posted
  BY DEF stateVars
<1>2. \A q \in Run : at'[q] \in {"list", "readPending", "ownPending", "writePending", "syncPending", "ownPost", "post",
                                 "ownReceipt", "writeReceipt", "syncReceipt", "ownRemoval", "removePending", "syncRemoval"}
                     => at'[q] = at[q]
  BY DEF Busy, HeldStep
<1>3. Posters' \subseteq Posters
  BY <1>1, <1>2 DEF Posters
<1>4. \A c : HasDraft(c) => HasDraft(c)'
  BY <1>1 DEF HasDraft, CreatedDrafts
<1>5. ReceiptStays'
  BY <1>1, <1>2 DEF DraftInv, ReceiptStays
<1>6. FoundFirst'
  <2>1. FoundFirst
    BY DEF DraftInv
  <2>2. \A q \in Run : at'[q] \in {"ownReceipt", "writeReceipt"} => at[q] \in {"ownReceipt", "writeReceipt"}
    BY <1>2
  <2> QED
    BY <1>1, <2>1, <2>2 DEF FoundFirst, HasDraft, CreatedDrafts
<1>7. PendingStays'
  BY <1>1, <1>2, <1>3 DEF DraftInv, PendingStays, OnRecord
<1>8. ASSUME putBack' = {} PROVE LockIsTrusted'
  <2>1. LockIsTrusted
    BY <1>8 DEF DraftInv
  <2>2. \A q \in Run : Relies(q)' => Relies(q) /\ at'[q] = at[q]
    BY <1>2, <1>8 DEF Relies, Busy, HeldStep
  <2> QED
    BY <1>1, <1>2, <1>3, <2>1, <2>2 DEF LockIsTrusted
<1> QED
  BY <1>5, <1>6, <1>7, <1>8 DEF DraftInv

(* The usual case: one run moves on, and the lock is its own, the same or gone. *)
LEMMA LeavesRecords ==
    ASSUME DraftInv, NEW r \in Run, NEW to \in (RunAt \cup RunOver) \ Busy, at' = [at EXCEPT ![r] = to],
           DraftTypeOK', UNCHANGED <<campaign, posted, stateVars, putBack>>,
           lock' \in {lock, None, r},
           \A q \in Run : q # r => claim'[q] = claim[q],
           to \in {"unlink", "restore", "drop"} => claim'[r] # None
    PROVE  DraftInv'
<1>1. at'[r] = to /\ \A q \in Run : q # r => at'[q] = at[q]
  BY Moved DEF DraftInv
<1>2. ClaimsAreHeld'
  BY <1>1 DEF DraftInv, ClaimsAreHeld
<1>3. \A q \in Run : at'[q] \in Busy => at'[q] = at[q] /\ q # r
  BY <1>1
<1>4. \A q \in Run : lock' = q /\ at'[q] \in Busy => lock = q
  BY <1>3, NoneIsNoRun
<1> QED
  BY <1>2, <1>3, <1>4, QuietKeeps

LEMMA Places == /\ {"open", "inspect", "judge", "recover", "unlink", "record", "confirm", "own", "readReceipt", "verify",
                    "reply", "release", "drop", "restore", "over", "dead"} \subseteq (RunAt \cup RunOver) \ Busy
                /\ Busy \subseteq HeldStep /\ HeldStep \subseteq RunAt
BY DEF RunAt, RunOver, Busy, LockStep, HeldStep, LeaveStep

LEMMA LockKeeps ==
    ASSUME DraftInv, NEW r \in Run, AcquireReceiptLock(r) \/ ReleaseLock(r) \/ DropLock(r)
    PROVE  DraftInv'
<1> USE DEF stateVars, lockVars
<1>1. DraftTypeOK
  BY DEF DraftInv
<1>2. CASE CreateLock(r)
  <2>1. at' = [at EXCEPT ![r] = "record"] /\ lock' = r /\ ino' \in [Run -> Inode \cup {None}]
    BY <1>1, <1>2 DEF CreateLock, Goes, DraftTypeOK
  <2>2. UNCHANGED <<campaign, written, old, seen, claim, recovered, putBack, posted, draftFaults, stateVars>>
    BY <1>2 DEF CreateLock
  <2>3. DraftTypeOK'
    BY <1>1, <2>1, <2>2, Moved, Places DEF DraftTypeOK
  <2> QED
    BY <2>1, <2>2, <2>3, Places, LeavesRecords
<1>3. CASE LockExists(r)
  <2>1. PICK to \in {"over", "inspect"} : at' = [at EXCEPT ![r] = to]
    BY <1>3 DEF LockExists, Goes
  <2>2. UNCHANGED <<campaign, lockVars, posted, draftFaults, stateVars>>
    BY <1>3 DEF LockExists
  <2>3. DraftTypeOK'
    BY <1>1, <2>1, <2>2, Moved, Places DEF DraftTypeOK
  <2> QED
    BY <2>1, <2>2, <2>3, Places, LeavesRecords
<1>4. CASE InspectLock(r)
  <2>1. PICK to \in {"over", "judge"} : at' = [at EXCEPT ![r] = to]
    BY <1>4 DEF InspectLock, Goes
  <2>2. /\ UNCHANGED <<campaign, lock, ino, written, old, claim, recovered, putBack, posted, draftFaults, stateVars>>
        /\ seen' = seen \/ seen' = [seen EXCEPT ![r] = lock]
    BY <1>4 DEF InspectLock
  <2>3. DraftTypeOK'
    BY <1>1, <2>1, <2>2, Moved, Places DEF DraftTypeOK
  <2> QED
    BY <2>1, <2>2, <2>3, Places, LeavesRecords
<1>5. CASE JudgeLock(r)
  <2>1. PICK to \in {"over", "recover"} : at' = [at EXCEPT ![r] = to]
    BY <1>5 DEF JudgeLock, Goes
  <2>2. UNCHANGED <<campaign, lockVars, posted, draftFaults, stateVars>>
    BY <1>5 DEF JudgeLock
  <2>3. DraftTypeOK'
    BY <1>1, <2>1, <2>2, Moved, Places DEF DraftTypeOK
  <2> QED
    BY <2>1, <2>2, <2>3, Places, LeavesRecords
<1>6. CASE RecoverLock(r) \/ ReleaseLock(r)
  <2>1. PICK from \in {"recover", "release"}, expected \in Run \cup {None} : ClaimLock(r, from, expected, "over", "restore")
    BY <1>1, <1>6 DEF RecoverLock, ReleaseLock, DraftTypeOK
  <2>2. UNCHANGED <<campaign, posted, draftFaults, stateVars>>
    BY <1>1, <1>6 DEF RecoverLock, ReleaseLock, DraftTypeOK
  <2>3. CASE lock = None
    <3>1. at' = [at EXCEPT ![r] = "over"] /\ UNCHANGED lockVars
      BY <2>1, <2>3 DEF ClaimLock, Goes
    <3>2. DraftTypeOK'
      BY <1>1, <2>2, <3>1, Moved, Places DEF DraftTypeOK
    <3> QED
      BY <2>2, <3>1, <3>2, Places, LeavesRecords
  <2>4. CASE lock # None
    <3>1. PICK to \in {"unlink", "drop", "restore"} : at' = [at EXCEPT ![r] = to]
      BY <2>1, <2>4 DEF ClaimLock, Goes
    <3>2. /\ claim' = [claim EXCEPT ![r] = lock] /\ lock' = None
          /\ UNCHANGED <<ino, written, old, seen, recovered, putBack>>
      BY <2>1, <2>4 DEF ClaimLock
    <3>3. claim'[r] = lock /\ \A q \in Run : q # r => claim'[q] = claim[q]
      BY <1>1, <3>2 DEF DraftTypeOK
    <3>4. DraftTypeOK'
      BY <1>1, <2>2, <3>1, <3>2, Moved, Places DEF DraftTypeOK
    <3> QED
      BY <2>2, <2>4, <3>1, <3>2, <3>3, <3>4, Places, LeavesRecords
  <2> QED
    BY <2>3, <2>4
<1>7. CASE UnlinkStale(r) \/ DropLock(r)
  <2>1. PICK to \in {"open", "over"} : at' = [at EXCEPT ![r] = to]
    BY <1>7 DEF UnlinkStale, DropLock, Goes
  <2>2. /\ UNCHANGED <<campaign, lock, ino, written, old, seen, putBack, posted, draftFaults, stateVars>>
        /\ claim' = [claim EXCEPT ![r] = None] /\ recovered' \in {recovered, recovered \cup {r}}
    BY <1>7 DEF UnlinkStale, DropLock
  <2>3. \A q \in Run : q # r => claim'[q] = claim[q]
    BY <1>1, <2>2 DEF DraftTypeOK
  <2>4. DraftTypeOK'
    BY <1>1, <2>1, <2>2, Moved, Places DEF DraftTypeOK
  <2> QED
    BY <2>1, <2>2, <2>3, <2>4, Places, LeavesRecords
<1>8. CASE WriteLock(r) \/ ConfirmLock(r)
  <2>1. PICK to \in {"confirm", "own", "release"} : at' = [at EXCEPT ![r] = to]
    BY <1>8 DEF WriteLock, ConfirmLock, Goes
  <2>2. /\ UNCHANGED <<campaign, lock, ino, old, seen, claim, recovered, putBack, posted, draftFaults, stateVars>>
        /\ written' \in {written, written \cup {r}}
    BY <1>8 DEF WriteLock, ConfirmLock
  <2>3. DraftTypeOK'
    BY <1>1, <2>1, <2>2, Moved, Places DEF DraftTypeOK
  <2> QED
    BY <2>1, <2>2, <2>3, Places, LeavesRecords
<1> QED
  BY <1>2, <1>3, <1>4, <1>5, <1>6, <1>7, <1>8 DEF AcquireReceiptLock

(* A lock that is put back under a busy owner is remembered. *)
LEMMA RestoreKeeps == ASSUME DraftInv, NEW r \in Run, RestoreLock(r) PROVE DraftInv'
<1>1. DraftTypeOK /\ at[r] = "restore" /\ claim[r] \in Run
  BY DEF RestoreLock, Goes, DraftInv, ClaimsAreHeld, DraftTypeOK
<1>2. /\ at' = [at EXCEPT ![r] = "over"]
      /\ lock' = IF lock = None THEN claim[r] ELSE lock
      /\ claim' = [claim EXCEPT ![r] = None]
      /\ putBack' = IF lock = None /\ at[claim[r]] \in HeldStep THEN putBack \cup {claim[r]} ELSE putBack
      /\ UNCHANGED <<campaign, ino, written, old, seen, recovered, posted, draftFaults, stateVars>>
  BY DEF RestoreLock, Goes
<1>3. at'[r] = "over" /\ \A q \in Run : q # r => at'[q] = at[q] /\ claim'[q] = claim[q]
  BY <1>1, <1>2, Moved, Places DEF DraftTypeOK
<1>4. DraftTypeOK'
  BY <1>1, <1>2, Moved, Places DEF DraftTypeOK, stateVars
<1>5. ClaimsAreHeld'
  BY <1>3 DEF DraftInv, ClaimsAreHeld
<1>6. \A q \in Run : at'[q] \in Busy => at'[q] = at[q] /\ at[q] \in HeldStep
  BY <1>3, Places
<1>7. \A q \in Run : lock' = q /\ at'[q] \in Busy => lock = q \/ putBack' # {}
  BY <1>1, <1>2, <1>6
<1> QED
  BY <1>2, <1>4, <1>5, <1>6, <1>7, QuietKeeps
---------------------------------------------------------------------------
(* The work under the lock. *)

(* Where the lock is asserted, the step is quiet unless the run goes on. *)
LEMMA AssertKeeps == ASSUME DraftInv, NEW r \in Run, AssertOwned(r) PROVE DraftInv'
<1>1. DraftTypeOK /\ UNCHANGED <<campaign, lockVars, posted, draftFaults, stateVars>>
  BY DEF AssertOwned, DraftInv
<1>2. UNCHANGED <<lock, ino, written, old, seen, claim, recovered, putBack, pending, receipt, disk>>
  BY <1>1 DEF lockVars, stateVars
<1>3. PICK to \in {"release", "readReceipt", "writePending", "post", "writeReceipt", "removePending"} :
          /\ at' = [at EXCEPT ![r] = to]
          /\ to # "release" => lock = r
          /\ to = "writePending" => at[r] = "ownPending"
          /\ to = "post" => at[r] = "ownPost"
          /\ to = "writeReceipt" => at[r] = "ownReceipt"
          /\ to = "removePending" => at[r] = "ownRemoval"
  <2>1. at[r] \in {"own", "ownPending", "ownPost", "ownReceipt", "ownRemoval"}
    BY DEF AssertOwned, Owned
  <2>2. at' = [at EXCEPT ![r] = IF lock = r THEN Owned[at[r]] ELSE "release"]
    BY <1>1 DEF AssertOwned, DraftTypeOK
  <2>3. /\ at[r] = "own" => Owned[at[r]] = "readReceipt"
        /\ at[r] = "ownPending" => Owned[at[r]] = "writePending"
        /\ at[r] = "ownPost" => Owned[at[r]] = "post"
        /\ at[r] = "ownReceipt" => Owned[at[r]] = "writeReceipt"
        /\ at[r] = "ownRemoval" => Owned[at[r]] = "removePending"
    BY DEF Owned
  <2> QED
    BY <2>1, <2>2, <2>3
<1>4. to \in RunAt \cup RunOver
  BY <1>3, Places DEF HeldStep
<1>5. at'[r] = to /\ \A q \in Run : q # r => at'[q] = at[q]
  BY <1>1, <1>3, <1>4, Moved
<1>6. DraftTypeOK' /\ ClaimsAreHeld'
  <2>1. DraftTypeOK'
    BY <1>1, <1>2, <1>3, <1>4, Moved DEF DraftTypeOK
  <2>2. ClaimsAreHeld'
    BY <1>2, <1>3, <1>5 DEF DraftInv, ClaimsAreHeld
  <2> QED
    BY <2>1, <2>2
<1>7. \A c : HasDraft(c)' <=> HasDraft(c)
  BY <1>1 DEF HasDraft, CreatedDrafts
<1>8. ReceiptStays' /\ FoundFirst'
  <2>1. ReceiptStays'
    BY <1>2, <1>3, <1>5 DEF DraftInv, ReceiptStays
  <2>2. FoundFirst'
    BY <1>1, <1>2, <1>3, <1>5, <1>7 DEF DraftInv, FoundFirst
  <2> QED
    BY <2>1, <2>2
<1>9. Posters' = IF to = "post" THEN Posters \cup {r} ELSE Posters \ {q \in {r} : posted[r] = "none"}
  BY <1>1, <1>3, <1>5 DEF Posters
<1>10. PendingStays'
  BY <1>1, <1>2, <1>3, <1>5, <1>9 DEF DraftInv, PendingStays, OnRecord
<1>11. ASSUME putBack' = {} PROVE LockIsTrusted'
  <2>1. LockIsTrusted
    BY <1>2, <1>11 DEF DraftInv
  <2>2. \A q \in Run : Relies(q)' => Relies(q)
    BY <1>2, <1>3, <1>5 DEF Relies
  <2>3. \A q \in Run : q # r => at'[q] = at[q]
    BY <1>5
  <2>4. CASE to = "post"
    <3>1. Relies(r) /\ at[r] = "ownPost" /\ Posters = {} /\ pending = campaign[r] /\ Posters' = {r}
      BY <1>3, <1>9, <2>1, <2>4 DEF Relies, LockIsTrusted
    <3>2. \A q \in Run : ~Relies(q)'
      BY <1>2, <1>3, <1>5, <2>4, <3>1 DEF Relies
    <3> QED
      BY <1>1, <1>2, <3>1, <3>2 DEF LockIsTrusted
  <2>5. CASE to = "removePending"
    <3>1. \A q \in Run : ~Relies(q)'
      BY <1>2, <1>3, <1>5, <2>5 DEF Relies
    <3> QED
      BY <1>1, <1>2, <1>9, <2>1, <2>5, <3>1 DEF LockIsTrusted
  <2>6. CASE to \notin {"post", "removePending"}
    <3>1. Posters' \subseteq Posters
      BY <1>9, <2>6
    <3>2. \A q \in Run : Relies(q)' => at[q] = at'[q] \/ (at[q] = "ownPending" /\ at'[q] = "writePending")
      BY <1>3, <1>5, <2>6 DEF Relies
    <3>3. \A s \in Run : at'[s] = "removePending" => at[s] = "removePending"
      BY <1>5, <2>6
    <3> QED
      BY <1>1, <1>2, <2>1, <2>2, <3>1, <3>2, <3>3 DEF LockIsTrusted
  <2> QED
    BY <2>4, <2>5, <2>6
<1> QED
  BY <1>6, <1>8, <1>10, <1>11 DEF DraftInv

(* Reading moves the run alone; only what it has read is new. *)
LEMMA ReadsKeep ==
    ASSUME DraftInv, NEW r \in Run, ReadReceipt(r) \/ ListDrafts(r) \/ VerifyDraft(r) \/ ReadPending(r)
    PROVE  DraftInv'
<1>1. DraftTypeOK /\ UNCHANGED <<campaign, lockVars, posted, draftFaults, stateVars>>
  BY DEF ReadReceipt, ListDrafts, VerifyDraft, ReadPending, DraftInv
<1>2. UNCHANGED <<lock, ino, written, old, seen, claim, recovered, putBack, pending, receipt, disk>>
  BY <1>1 DEF lockVars, stateVars
<1>3. PICK to \in {"release", "verify", "list", "readPending", "ownReceipt", "ownPending"} :
          /\ at' = [at EXCEPT ![r] = to]
          /\ at[r] \in {"readReceipt", "list", "verify", "readPending"}
          /\ to = "list" => at[r] = "readReceipt" /\ receipt = None
          /\ to = "readPending" => at[r] = "list"
          /\ to = "ownReceipt" => HasDraft(campaign[r])
          /\ to = "ownPending" => at[r] = "readPending" /\ pending = None
  <2>1. CASE ReadReceipt(r)
    BY <2>1 DEF ReadReceipt, Goes
  <2>2. CASE ListDrafts(r)
    <3>1. PICK to \in {"release", "verify", "readPending"} : Goes(r, "list", to)
      BY <2>2 DEF ListDrafts
    <3> QED
      BY <3>1 DEF Goes
  <2>3. CASE VerifyDraft(r)
    <3>1. Matching(r) # {} => HasDraft(campaign[r])
      BY DEF Matching, HasDraft, CreatedDrafts
    <3> QED
      BY <2>3, <3>1 DEF VerifyDraft, Goes
  <2>4. CASE ReadPending(r)
    BY <2>4 DEF ReadPending, Goes
  <2> QED
    BY <2>1, <2>2, <2>3, <2>4
<1>4. to \in RunAt \cup RunOver
  BY <1>3, Places DEF HeldStep
<1>5. at'[r] = to /\ \A q \in Run : q # r => at'[q] = at[q]
  BY <1>1, <1>3, <1>4, Moved
<1>6. DraftTypeOK' /\ ClaimsAreHeld'
  <2>1. DraftTypeOK'
    BY <1>1, <1>2, <1>3, <1>4, Moved DEF DraftTypeOK
  <2>2. ClaimsAreHeld'
    BY <1>2, <1>3, <1>5 DEF DraftInv, ClaimsAreHeld
  <2> QED
    BY <2>1, <2>2
<1>7. Posters' = Posters
  BY <1>1, <1>3, <1>5 DEF Posters
<1>8. \A c : HasDraft(c)' <=> HasDraft(c)
  BY <1>1 DEF HasDraft, CreatedDrafts
<1>9. ReceiptStays' /\ FoundFirst' /\ PendingStays'
  <2>1. ReceiptStays'
    BY <1>2, <1>3, <1>5 DEF DraftInv, ReceiptStays
  <2>2. FoundFirst'
    BY <1>1, <1>2, <1>3, <1>5, <1>8 DEF DraftInv, FoundFirst
  <2>3. PendingStays'
    BY <1>2, <1>3, <1>5, <1>7 DEF DraftInv, PendingStays, OnRecord
  <2> QED
    BY <2>1, <2>2, <2>3
<1>10. ASSUME putBack' = {} PROVE LockIsTrusted'
  <2>1. LockIsTrusted
    BY <1>2, <1>10 DEF DraftInv
  <2>2. \A s \in Run : at'[s] = "removePending" => at[s] = "removePending"
    BY <1>3, <1>5
  <2>3. \A q \in Run : q # r => (Relies(q)' <=> Relies(q)) /\ at'[q] = at[q]
    BY <1>2, <1>5 DEF Relies
  <2>4. Relies(r)' => lock = r /\ to \in {"list", "readPending", "ownPending"}
    BY <1>2, <1>3, <1>5 DEF Relies
  <2>5. CASE to = "list"
    <3>1. receipt = None /\ disk.receipt = None
      BY <1>3, <2>5 DEF DraftInv, ReceiptStays
    <3>2. \A s \in Run : at[s] # "removePending"
      BY <3>1 DEF DraftInv, ReceiptStays
    <3>3. Posters # {} => pending # None
      BY <3>1 DEF DraftInv, PendingStays, OnRecord, Posters
    <3> QED
      BY <1>1, <1>2, <1>5, <1>7, <2>1, <2>2, <2>3, <2>5, <3>2, <3>3 DEF LockIsTrusted
  <2>6. CASE to = "readPending"
    <3>1. Relies(r)' => Relies(r) /\ at[r] = "list"
      BY <1>3, <2>4, <2>6 DEF Relies
    <3> QED
      BY <1>1, <1>2, <1>5, <1>7, <2>1, <2>2, <2>3, <2>6, <3>1 DEF LockIsTrusted
  <2>7. CASE to = "ownPending"
    <3>1. Relies(r)' => Relies(r) /\ at[r] = "readPending" /\ pending = None
      BY <1>3, <2>4, <2>7 DEF Relies
    <3> QED
      BY <1>1, <1>2, <1>5, <1>7, <2>1, <2>2, <2>3, <2>7, <3>1 DEF LockIsTrusted
  <2>8. CASE to \notin {"list", "readPending", "ownPending"}
    BY <1>1, <1>2, <1>5, <1>7, <2>1, <2>2, <2>3, <2>4, <2>8 DEF LockIsTrusted
  <2> QED
    BY <2>5, <2>6, <2>7, <2>8
<1> QED
  BY <1>6, <1>9, <1>10 DEF DraftInv

(* A step that gives up, or ends the work, is quiet. *)
LEMMA ReleaseIsQuiet ==
    ASSUME DraftInv, NEW r \in Run, NEW to \in {"release", "reply", "verify", "dead", "over"},
           at' = [at EXCEPT ![r] = to], draftFaults' \in 0..MaxDraftFaults,
           UNCHANGED <<campaign, lockVars, posted, stateVars>>
    PROVE  DraftInv'
<1>1. to \in (RunAt \cup RunOver) \ Busy /\ DraftTypeOK
  BY Places DEF DraftInv
<1>2. UNCHANGED <<lock, ino, written, old, seen, claim, recovered, putBack, pending, receipt, disk>>
  BY DEF lockVars, stateVars
<1>3. DraftTypeOK'
  BY <1>1, <1>2, Moved DEF DraftTypeOK
<1> QED
  BY <1>1, <1>2, <1>3, LeavesRecords

LEMMA FilesKeep ==
    ASSUME DraftInv, NEW r \in Run, WritePending(r) \/ WriteReceipt(r) \/ RemovePending(r)
    PROVE  DraftInv'
<1>1. /\ DraftTypeOK /\ campaign[r] \in Campaign /\ None \notin Campaign
      /\ UNCHANGED <<campaign, lockVars, disk, posted, draftFaults>>
  BY NoneIsNoRun DEF WritePending, WriteReceipt, RemovePending, DraftInv, DraftTypeOK, Prepared
<1>2. UNCHANGED <<lock, ino, written, old, seen, claim, recovered, putBack>>
  BY <1>1 DEF lockVars
<1>3. CASE UNCHANGED <<pending, receipt>>
  <2>1. at' = [at EXCEPT ![r] = "release"]
    BY <1>1, <1>3 DEF WritePending, WriteReceipt, RemovePending, Goes
  <2> QED
    BY <1>1, <1>3, <2>1, ReleaseIsQuiet DEF stateVars, DraftTypeOK
<1>4. CASE pending = None /\ pending' = campaign[r] /\ receipt' = receipt /\ Goes(r, "writePending", "syncPending")
  <2>1. at[r] = "writePending" /\ at'[r] = "syncPending" /\ \A q \in Run : q # r => at'[q] = at[q]
    BY <1>1, <1>4, Moved, Places DEF Goes, HeldStep
  <2>2. at' \in [Run -> RunAt \cup RunOver]
    BY <1>1, <1>4, Moved, Places DEF Goes, HeldStep
  <2>3. DraftTypeOK' /\ ClaimsAreHeld'
    BY <1>1, <1>2, <1>4, <2>1, <2>2 DEF DraftInv, ClaimsAreHeld, DraftTypeOK
  <2>4. Posters' = Posters /\ \A c : HasDraft(c)' <=> HasDraft(c)
    BY <1>1, <2>1 DEF Posters, HasDraft, CreatedDrafts
  <2>5. ReceiptStays' /\ FoundFirst'
    BY <1>1, <1>4, <2>1, <2>4 DEF DraftInv, ReceiptStays, FoundFirst
  <2>6. PendingStays'
    BY <1>1, <1>4, <2>1, <2>4 DEF DraftInv, PendingStays, OnRecord
  <2>7. ASSUME putBack' = {} PROVE LockIsTrusted'
    <3>1. LockIsTrusted
      BY <1>2, <2>7 DEF DraftInv
    <3>2. \A q \in Run : (Relies(q)' <=> Relies(q)) /\ (q # r => at'[q] = at[q])
      BY <1>2, <2>1 DEF Relies
    <3>3. \A q \in Run : campaign[q] # None /\ pending # campaign[q]
      BY <1>1, <1>4 DEF DraftTypeOK, Prepared
    <3>4. \A q \in Posters : disk.receipt # None
      BY <3>1, <3>3 DEF LockIsTrusted, Posters
    <3>5. \A q \in Run : Relies(q) /\ q # r => at[q] \notin {"syncPending", "ownPost"}
      BY <3>1, <3>3 DEF LockIsTrusted
    <3>6. Relies(r) => Posters = {}
      BY <2>1, <3>1 DEF LockIsTrusted
    <3> QED
      BY <1>1, <1>4, <2>1, <2>4, <3>1, <3>2, <3>4, <3>5, <3>6 DEF LockIsTrusted
  <2> QED
    BY <2>3, <2>5, <2>6, <2>7 DEF DraftInv
<1>5. CASE receipt = None /\ receipt' = campaign[r] /\ pending' = pending /\ Goes(r, "writeReceipt", "syncReceipt")
  <2>1. at[r] = "writeReceipt" /\ at'[r] = "syncReceipt" /\ \A q \in Run : q # r => at'[q] = at[q]
    BY <1>1, <1>5, Moved, Places DEF Goes, HeldStep
  <2>2. at' \in [Run -> RunAt \cup RunOver]
    BY <1>1, <1>5, Moved, Places DEF Goes, HeldStep
  <2>3. DraftTypeOK' /\ ClaimsAreHeld'
    BY <1>1, <1>2, <1>5, <2>1, <2>2 DEF DraftInv, ClaimsAreHeld, DraftTypeOK
  <2>4. Posters' = Posters /\ \A c : HasDraft(c)' <=> HasDraft(c)
    BY <1>1, <2>1 DEF Posters, HasDraft, CreatedDrafts
  <2>5. ReceiptStays' /\ FoundFirst'
    BY <1>1, <1>5, <2>1, <2>4 DEF DraftInv, ReceiptStays, FoundFirst
  <2>6. PendingStays'
    BY <1>1, <1>5, <2>1, <2>4 DEF DraftInv, PendingStays, OnRecord
  <2>7. ASSUME putBack' = {} PROVE LockIsTrusted'
    <3>1. LockIsTrusted
      BY <1>2, <2>7 DEF DraftInv
    <3>2. \A q \in Run : (Relies(q)' <=> Relies(q)) /\ (Relies(q) => at'[q] = at[q])
      BY <1>2, <2>1 DEF Relies
    <3>3. \A q \in Run : at'[q] = "removePending" => at[q] = "removePending"
      BY <2>1
    <3> QED
      BY <1>1, <1>5, <2>4, <3>1, <3>2, <3>3 DEF LockIsTrusted
  <2> QED
    BY <2>3, <2>5, <2>6, <2>7 DEF DraftInv
<1>6. CASE pending' = None /\ receipt' = receipt /\ Goes(r, "removePending", "syncRemoval")
  <2>1. at[r] = "removePending" /\ at'[r] = "syncRemoval" /\ \A q \in Run : q # r => at'[q] = at[q]
    BY <1>1, <1>6, Moved, Places DEF Goes, HeldStep
  <2>2. at' \in [Run -> RunAt \cup RunOver]
    BY <1>1, <1>6, Moved, Places DEF Goes, HeldStep
  <2>3. DraftTypeOK' /\ ClaimsAreHeld'
    BY <1>1, <1>2, <1>6, <2>1, <2>2 DEF DraftInv, ClaimsAreHeld, DraftTypeOK
  <2>4. Posters' = Posters /\ \A c : HasDraft(c)' <=> HasDraft(c)
    BY <1>1, <2>1 DEF Posters, HasDraft, CreatedDrafts
  <2>5. disk.receipt # None
    BY <2>1 DEF DraftInv, ReceiptStays
  <2>6. ReceiptStays' /\ FoundFirst'
    BY <1>1, <1>6, <2>1, <2>4, <2>5 DEF DraftInv, ReceiptStays, FoundFirst
  <2>7. PendingStays'
    BY <1>1, <2>5 DEF PendingStays, OnRecord
  <2>8. ASSUME putBack' = {} PROVE LockIsTrusted'
    <3>1. LockIsTrusted
      BY <1>2, <2>8 DEF DraftInv
    <3>2. \A q \in Run : ~Relies(q)'
      BY <1>2, <2>1, <3>1 DEF Relies, LockIsTrusted
    <3> QED
      BY <1>1, <2>4, <2>5, <3>1, <3>2 DEF LockIsTrusted
  <2> QED
    BY <2>3, <2>6, <2>7, <2>8 DEF DraftInv
<1>7. \/ UNCHANGED <<pending, receipt>>
      \/ pending = None /\ pending' = campaign[r] /\ receipt' = receipt /\ Goes(r, "writePending", "syncPending")
      \/ receipt = None /\ receipt' = campaign[r] /\ pending' = pending /\ Goes(r, "writeReceipt", "syncReceipt")
      \/ pending' = None /\ receipt' = receipt /\ Goes(r, "removePending", "syncRemoval")
  BY DEF WritePending, WriteReceipt, RemovePending
<1> QED
  BY <1>3, <1>4, <1>5, <1>6, <1>7

(* What is synced was true already. *)
LEMMA SyncKeeps == ASSUME DraftInv, NEW r \in Run, SyncDirectory(r) PROVE DraftInv'
<1>1. DraftTypeOK /\ UNCHANGED <<campaign, lockVars, pending, receipt, posted, draftFaults>>
  BY DEF SyncDirectory, DraftInv
<1>2. UNCHANGED <<lock, ino, written, old, seen, claim, recovered, putBack>>
  BY <1>1 DEF lockVars
<1>3. disk'.pending = pending /\ disk'.receipt = receipt
  BY DEF SyncDirectory
<1>4. PICK to \in {"ownPost", "ownRemoval", "release"} :
          /\ at' = [at EXCEPT ![r] = to]
          /\ to = "ownPost" => at[r] = "syncPending"
          /\ to = "ownRemoval" => at[r] = "syncReceipt"
          /\ at[r] \in {"syncPending", "syncReceipt", "syncRemoval"}
  <2>1. at[r] \in {"syncPending", "syncReceipt", "syncRemoval"} /\ at' = [at EXCEPT ![r] = Synced[at[r]]]
    BY <1>1 DEF SyncDirectory, Synced, DraftTypeOK
  <2>2. /\ at[r] = "syncPending" => Synced[at[r]] = "ownPost"
        /\ at[r] = "syncReceipt" => Synced[at[r]] = "ownRemoval"
        /\ at[r] = "syncRemoval" => Synced[at[r]] = "release"
    BY DEF Synced
  <2> QED
    BY <2>1, <2>2
<1>5. to \in RunAt \cup RunOver
  BY <1>4, Places DEF HeldStep
<1>6. at'[r] = to /\ \A q \in Run : q # r => at'[q] = at[q]
  BY <1>1, <1>4, <1>5, Moved
<1>7. DraftTypeOK' /\ ClaimsAreHeld'
  <2>1. DraftTypeOK'
    BY <1>1, <1>2, <1>3, <1>4, <1>5, Moved DEF DraftTypeOK
  <2>2. ClaimsAreHeld'
    BY <1>2, <1>4, <1>6 DEF DraftInv, ClaimsAreHeld
  <2> QED
    BY <2>1, <2>2
<1>8. Posters' = Posters /\ \A c : HasDraft(c)' <=> HasDraft(c)
  BY <1>1, <1>4, <1>6 DEF Posters, HasDraft, CreatedDrafts
<1>9. ReceiptStays' /\ FoundFirst' /\ PendingStays'
  <2>1. ReceiptStays'
    BY <1>1, <1>3, <1>4, <1>6 DEF DraftInv, ReceiptStays
  <2>2. FoundFirst'
    BY <1>1, <1>4, <1>6, <1>8 DEF DraftInv, FoundFirst
  <2>3. OnRecord => OnRecord'
    BY <1>3 DEF DraftInv, ReceiptStays, PendingStays, OnRecord
  <2>4. disk.receipt # None => disk'.receipt # None
    BY <1>3 DEF DraftInv, ReceiptStays
  <2>5. to = "ownPost" => OnRecord'
    BY <1>3, <1>4, <2>4 DEF DraftInv, PendingStays, OnRecord
  <2>6. PendingStays
    BY DEF DraftInv
  <2> QED
    BY <1>1, <1>3, <1>4, <1>6, <1>8, <2>1, <2>2, <2>3, <2>4, <2>5, <2>6 DEF PendingStays
<1>10. ASSUME putBack' = {} PROVE LockIsTrusted'
  <2>1. LockIsTrusted
    BY <1>2, <1>10 DEF DraftInv
  <2>2. \A q \in Run : Relies(q)' => Relies(q) /\ (at'[q] = at[q] \/ (at[q] = "syncPending" /\ at'[q] = "ownPost"))
    BY <1>2, <1>4, <1>6 DEF Relies
  <2>3. \A s \in Run : at'[s] = "removePending" => at[s] = "removePending"
    BY <1>4, <1>6
  <2>4. disk'.receipt = None => disk.receipt = None
    BY <1>3 DEF DraftInv, ReceiptStays
  <2> QED
    BY <1>1, <1>8, <2>1, <2>2, <2>3, <2>4 DEF LockIsTrusted
<1> QED
  BY <1>7, <1>9, <1>10 DEF DraftInv

---------------------------------------------------------------------------
(* Requests and answers. *)

(* A run posts once: before it does, nothing of it is at Brevo. *)
Early == LockStep \cup {"own", "readReceipt", "list", "readPending", "ownPending", "writePending", "syncPending",
                        "ownPost", "post"}

PostsOnce == \A r \in Run : at[r] \in Early => posted[r] = "none"

(* A change of what became of one request, which leaves it known. *)
LEMMA PostedKeeps ==
    ASSUME DraftInv, NEW r \in Run, NEW to \in DraftState \ {"none"}, posted' = [posted EXCEPT ![r] = to],
           r \in Posters, UNCHANGED <<campaign, lockVars, stateVars, draftFaults>>,
           posted[r] \in {"draft", "handled"} => to \in {"draft", "handled"},
           at' = at \/ (at[r] = "post" /\ at' = [at EXCEPT ![r] = "reply"])
    PROVE  DraftInv'
<1>1. DraftTypeOK
  BY DEF DraftInv
<1>2. UNCHANGED <<lock, ino, written, old, seen, claim, recovered, putBack, pending, receipt, disk>>
  BY DEF lockVars, stateVars
<1>3. posted'[r] = to /\ \A q \in Run : q # r => posted'[q] = posted[q]
  BY <1>1 DEF DraftTypeOK
<1>4. /\ at' \in [Run -> RunAt \cup RunOver]
      /\ \A q \in Run : at'[q] = at[q] \/ (q = r /\ at[q] = "post" /\ at'[q] = "reply")
  BY <1>1, Moved, Places DEF DraftTypeOK
<1>5. Posters' = Posters /\ \A c : HasDraft(c) => HasDraft(c)'
  <2>1. Posters' = Posters
    BY <1>3, <1>4 DEF Posters
  <2>2. CreatedDrafts \subseteq CreatedDrafts'
    BY <1>3 DEF CreatedDrafts
  <2> QED
    BY <2>1, <2>2 DEF HasDraft
<1>6. DraftTypeOK' /\ ClaimsAreHeld'
  <2>1. DraftTypeOK'
    BY <1>1, <1>2, <1>4 DEF DraftTypeOK
  <2>2. ClaimsAreHeld'
    BY <1>2, <1>4 DEF DraftInv, ClaimsAreHeld
  <2> QED
    BY <2>1, <2>2
<1>7. ReceiptStays' /\ FoundFirst' /\ PendingStays'
  <2>1. ReceiptStays'
    BY <1>2, <1>4 DEF DraftInv, ReceiptStays
  <2>2. FoundFirst'
    BY <1>2, <1>4, <1>5 DEF DraftInv, FoundFirst
  <2>3. PendingStays'
    BY <1>2, <1>4, <1>5 DEF DraftInv, PendingStays, OnRecord
  <2> QED
    BY <2>1, <2>2, <2>3
<1>8. ASSUME putBack' = {} PROVE LockIsTrusted'
  <2>1. LockIsTrusted
    BY <1>2, <1>8 DEF DraftInv
  <2>2. \A q \in Run : Relies(q)' => Relies(q) /\ at'[q] = at[q]
    BY <1>2, <1>4 DEF Relies
  <2>3. \A s \in Run : at'[s] = "removePending" => at[s] = "removePending"
    BY <1>4
  <2> QED
    BY <1>2, <1>5, <2>1, <2>2, <2>3 DEF LockIsTrusted
<1> QED
  BY <1>6, <1>7, <1>8 DEF DraftInv

LEMMA RequestsKeep ==
    ASSUME DraftInv, PostsOnce, NEW r \in Run, PostDraft(r) \/ PostReply(r) \/ BrevoAnswers(r) \/ EditorHandles(r)
    PROVE  DraftInv'
<1>1. DraftTypeOK /\ posted \in [Run -> DraftState] /\ {"sent", "refused", "draft", "handled"} \subseteq DraftState \ {"none"}
  BY DEF DraftInv, DraftTypeOK, DraftState
<1>2. CASE PostDraft(r)
  <2>1. at[r] = "post" /\ posted[r] = "none"
    BY <1>2 DEF PostDraft, Goes, PostsOnce, Early
  <2> QED
    BY <1>1, <1>2, <2>1, PostedKeeps DEF PostDraft, Goes, Posters
<1>3. CASE PostReply(r)
  <2>1. PICK to \in {"release", "verify"} : at' = [at EXCEPT ![r] = to]
    BY <1>3 DEF PostReply, Goes
  <2> QED
    BY <1>1, <1>3, <2>1, ReleaseIsQuiet DEF PostReply, DraftTypeOK
<1>4. CASE BrevoAnswers(r)
  <2>1. PICK s \in {"draft", "refused"} : posted' = [posted EXCEPT ![r] = s]
    BY <1>4 DEF BrevoAnswers
  <2> QED
    BY <1>1, <1>4, <2>1, PostedKeeps DEF BrevoAnswers, Posters
<1>5. CASE EditorHandles(r)
  BY <1>1, <1>5, PostedKeeps DEF EditorHandles, Posters
<1> QED
  BY <1>2, <1>3, <1>4, <1>5

---------------------------------------------------------------------------
(* Power failures, and all steps together. *)

LEMMA FaultIsCounted == ASSUME DraftTypeOK, DraftFault PROVE draftFaults' \in 0..MaxDraftFaults
<1>1. draftFaults \in 0..MaxDraftFaults /\ draftFaults < MaxDraftFaults /\ draftFaults' = draftFaults + 1
  BY DEF DraftTypeOK, DraftFault
<1> QED
  BY <1>1, FaultsAreCounted

LEMMA PowerKeeps == ASSUME DraftInv, PowerFails PROVE DraftInv'
<1>1. DraftTypeOK /\ UNCHANGED <<campaign, lockVars, posted>> /\ draftFaults' \in 0..MaxDraftFaults
  BY FaultIsCounted DEF PowerFails, DraftInv
<1>2. UNCHANGED <<lock, ino, written, old, seen, claim, recovered, putBack>>
  BY <1>1 DEF lockVars
<1>3. /\ pending' \in {pending, disk.pending} /\ receipt' \in {receipt, disk.receipt}
      /\ disk'.pending = pending' /\ disk'.receipt = receipt'
  BY DEF PowerFails
<1>4. at' \in [Run -> RunAt \cup RunOver] /\ \A q \in Run : at'[q] \in {"open", "over", "dead"}
  BY <1>1, Places DEF PowerFails, DraftTypeOK, RunAlive, RunOver
<1>5. DraftTypeOK' /\ ClaimsAreHeld'
  <2>1. DraftTypeOK'
    BY <1>1, <1>2, <1>3, <1>4 DEF DraftTypeOK
  <2>2. ClaimsAreHeld'
    BY <1>4 DEF ClaimsAreHeld
  <2> QED
    BY <2>1, <2>2
<1>6. Posters' \subseteq Posters /\ \A c : HasDraft(c)' <=> HasDraft(c)
  BY <1>1, <1>4 DEF Posters, HasDraft, CreatedDrafts
<1>7. disk.receipt # None => receipt' = disk.receipt /\ receipt = disk.receipt
  BY <1>3 DEF DraftInv, ReceiptStays
<1>8. disk.receipt = None /\ disk.pending # None => pending' = pending /\ pending = disk.pending
  BY <1>3 DEF DraftInv, PendingStays
<1>9. ReceiptStays' /\ FoundFirst' /\ PendingStays'
  <2>1. ReceiptStays'
    BY <1>3, <1>4 DEF ReceiptStays
  <2>2. FoundFirst'
    BY <1>3, <1>4, <1>6, <1>7 DEF DraftInv, FoundFirst
  <2>3. OnRecord => OnRecord'
    BY <1>3, <1>7, <1>8 DEF OnRecord
  <2>4. PendingStays'
    BY <1>3, <1>4, <1>6, <2>3 DEF DraftInv, PendingStays
  <2> QED
    BY <2>1, <2>2, <2>4
<1>10. ASSUME putBack' = {} PROVE LockIsTrusted'
  <2>1. LockIsTrusted
    BY <1>2, <1>10 DEF DraftInv
  <2>2. \A q \in Run : ~Relies(q)'
    BY <1>4 DEF Relies
  <2>3. \A q \in Posters : disk'.receipt = None => pending' = campaign[q]
    <3>1. SUFFICES ASSUME NEW q \in Posters, disk'.receipt = None PROVE pending' = campaign[q]
      OBVIOUS
    <3>2. disk.receipt = None
      BY <1>3, <1>7, <3>1
    <3>3. disk.pending # None
      BY <3>2 DEF DraftInv, PendingStays, OnRecord, Posters
    <3> QED
      BY <1>8, <2>1, <3>2, <3>3 DEF LockIsTrusted
  <2> QED
    BY <1>1, <1>6, <2>1, <2>2, <2>3 DEF LockIsTrusted
<1> QED
  BY <1>5, <1>9, <1>10 DEF DraftInv

LEMMA PostsOnceKeeps == ASSUME DraftTypeOK, PostsOnce, DraftNext PROVE PostsOnce'
<1>1. PowerFails => PostsOnce'
  BY DEF PowerFails, PostsOnce, DraftTypeOK, Early, LockStep
<1>2. ASSUME NEW r \in Run, NEW to, at' = [at EXCEPT ![r] = to], posted' = posted, to \in Early => at[r] \in Early
      PROVE  PostsOnce'
  BY <1>2 DEF PostsOnce, DraftTypeOK
<1>3. ASSUME NEW r \in Run, RunStep(r) PROVE PostsOnce'
  <2>1. CASE AcquireReceiptLock(r)
    <3>1. posted' = posted /\ at[r] \in Early
      BY <2>1 DEF AcquireReceiptLock, CreateLock, LockExists, InspectLock, JudgeLock, RecoverLock, UnlinkStale,
                  WriteLock, ConfirmLock, ClaimLock, Goes, Early, LockStep
    <3>2. \E to : at' = [at EXCEPT ![r] = to]
      BY <2>1 DEF AcquireReceiptLock, CreateLock, LockExists, InspectLock, JudgeLock, RecoverLock, UnlinkStale,
                  WriteLock, ConfirmLock, ClaimLock, Goes
    <3> QED
      BY <1>2, <3>1, <3>2
  <2>2. CASE LeaveLock(r)
    <3>1. posted' = posted /\ \E to \in {"over", "drop", "restore"} : at' = [at EXCEPT ![r] = to]
      BY <2>2 DEF LeaveLock, ReleaseLock, DropLock, RestoreLock, ClaimLock, Goes
    <3> QED
      BY <1>2, <3>1 DEF Early, LockStep
  <2>3. CASE AssertOwned(r)
    <3>1. at' = [at EXCEPT ![r] = IF lock = r THEN Owned[at[r]] ELSE "release"] /\ posted' = posted
      BY <2>3 DEF AssertOwned, DraftTypeOK
    <3>2. at[r] \in {"own", "ownPending", "ownPost"} => at[r] \in Early
      BY DEF Early
    <3>3. /\ at[r] \in {"own", "ownPending", "ownPost", "ownReceipt", "ownRemoval"}
          /\ at[r] \in {"ownReceipt", "ownRemoval"} => Owned[at[r]] \notin Early
      BY <2>3 DEF AssertOwned, Owned, Early, LockStep
    <3> QED
      BY <1>2, <3>1, <3>2, <3>3 DEF Early, LockStep
  <2>4. CASE ReadReceipt(r) \/ ListDrafts(r) \/ VerifyDraft(r) \/ ReadPending(r)
    <3>1. \E to : /\ at' = [at EXCEPT ![r] = to]
                  /\ at[r] = "verify" => to \in {"ownReceipt", "release"}
      BY <2>4 DEF ReadReceipt, ListDrafts, VerifyDraft, ReadPending, Goes
    <3>2. posted' = posted /\ at[r] \in {"readReceipt", "list", "verify", "readPending"}
      BY <2>4 DEF ReadReceipt, ListDrafts, VerifyDraft, ReadPending, Goes
    <3> QED
      BY <1>2, <3>1, <3>2 DEF Early, LockStep
  <2>5. CASE WritePending(r) \/ WriteReceipt(r) \/ RemovePending(r) \/ PostReply(r)
    <3>1. \E to \in {"syncPending", "syncReceipt", "syncRemoval", "release", "verify"} :
             /\ at' = [at EXCEPT ![r] = to]
             /\ to = "syncPending" => at[r] = "writePending"
      BY <2>5 DEF WritePending, WriteReceipt, RemovePending, PostReply, Goes
    <3>2. posted' = posted
      BY <2>5 DEF WritePending, WriteReceipt, RemovePending, PostReply
    <3> QED
      BY <1>2, <3>1, <3>2 DEF Early, LockStep
  <2>6. CASE SyncDirectory(r)
    <3>1. at' = [at EXCEPT ![r] = Synced[at[r]]] /\ posted' = posted
      BY <2>6 DEF SyncDirectory, DraftTypeOK
    <3>2. /\ at[r] \in {"syncPending", "syncReceipt", "syncRemoval"}
          /\ at[r] # "syncPending" => Synced[at[r]] \in {"ownRemoval", "release"}
      BY <2>6 DEF SyncDirectory, Synced
    <3> QED
      BY <1>2, <3>1, <3>2 DEF Early, LockStep
  <2>7. CASE PostDraft(r)
    <3>1. at'[r] = "reply" /\ \A q \in Run : q # r => at'[q] = at[q] /\ posted'[q] = posted[q]
      BY <2>7, Moved, Places DEF PostDraft, Goes, DraftTypeOK
    <3> QED
      BY <3>1 DEF PostsOnce, Early, LockStep
  <2> QED
    BY <1>3, <2>1, <2>2, <2>3, <2>4, <2>5, <2>6, <2>7 DEF RunStep, HoldLock
<1>4. ASSUME NEW r \in Run, BrevoAnswers(r) \/ EditorHandles(r) PROVE PostsOnce'
  <2>1. at' = at /\ posted[r] # "none" /\ \A q \in Run : q # r => posted'[q] = posted[q]
    BY <1>4 DEF BrevoAnswers, EditorHandles, DraftTypeOK
  <2> QED
    BY <2>1 DEF PostsOnce
<1>5. ASSUME NEW r \in Run, LockGrowsOld(r) PROVE PostsOnce'
  BY <1>5 DEF LockGrowsOld, PostsOnce
<1>6. ASSUME NEW r \in Run, BrevoCallFails(r) \/ RunCrashes(r) PROVE PostsOnce'
  <2>1. posted' = posted /\ \E to \in {"release", "dead"} : at' = [at EXCEPT ![r] = to]
    BY <1>6 DEF BrevoCallFails, RunCrashes
  <2> QED
    BY <1>2, <2>1 DEF Early, LockStep
<1> QED
  BY <1>1, <1>3, <1>4, <1>5, <1>6 DEF DraftNext, DraftEnvironment

LEMMA DraftKeeps == ASSUME DraftInv, PostsOnce, DraftNext PROVE DraftInv'
<1>1. ASSUME NEW r \in Run, RunStep(r) PROVE DraftInv'
  BY <1>1, LockKeeps, RestoreKeeps, AssertKeeps, ReadsKeep, FilesKeep, SyncKeeps, RequestsKeep
     DEF RunStep, HoldLock, LeaveLock
<1>2. ASSUME NEW r \in Run, BrevoAnswers(r) \/ EditorHandles(r) PROVE DraftInv'
  BY <1>2, RequestsKeep
<1>3. ASSUME NEW r \in Run, LockGrowsOld(r) PROVE DraftInv'
  <2>1. /\ DraftTypeOK
        /\ UNCHANGED <<campaign, at, lock, ino, written, seen, claim, recovered, putBack, posted, draftFaults, stateVars>>
        /\ old' = old \cup {r} /\ r \in written
    BY <1>3 DEF LockGrowsOld, DraftInv
  <2>2. DraftTypeOK' /\ ClaimsAreHeld'
    BY <2>1 DEF DraftTypeOK, DraftInv, ClaimsAreHeld, stateVars
  <2> QED
    BY <2>1, <2>2, QuietKeeps
<1>4. ASSUME NEW r \in Run, BrevoCallFails(r) \/ RunCrashes(r) PROVE DraftInv'
  <2>1. \E to \in {"release", "dead"} : at' = [at EXCEPT ![r] = to]
    BY <1>4 DEF BrevoCallFails, RunCrashes
  <2>2. draftFaults' \in 0..MaxDraftFaults /\ UNCHANGED <<campaign, lockVars, posted, stateVars>>
    BY <1>4, FaultIsCounted DEF BrevoCallFails, RunCrashes, DraftInv
  <2> QED
    BY <2>1, <2>2, ReleaseIsQuiet
<1> QED
  BY <1>1, <1>2, <1>3, <1>4, PowerKeeps DEF DraftNext, DraftEnvironment

LEMMA DraftStarts == DraftInit => DraftInv /\ PostsOnce
<1> SUFFICES ASSUME DraftInit PROVE DraftInv /\ PostsOnce
  OBVIOUS
<1>1. /\ campaign \in Prepared
      /\ \A r \in Run : at[r] = "open" /\ claim[r] = None /\ posted[r] = "none"
      /\ lock = None /\ pending = None /\ receipt = None
      /\ disk.pending = None /\ disk.receipt = None
  BY DEF DraftInit
<1>2. DraftTypeOK
  <2>1. at \in [Run -> RunAt \cup RunOver] /\ posted \in [Run -> DraftState]
    BY Places DEF DraftInit, DraftState
  <2>2. draftFaults \in 0..MaxDraftFaults
    BY FaultsAreCounted DEF DraftInit
  <2> QED
    BY <1>1, <2>1, <2>2 DEF DraftInit, DraftTypeOK
<1>3. Posters = {}
  BY <1>1 DEF Posters
<1>4. ClaimsAreHeld /\ ReceiptStays /\ FoundFirst /\ PendingStays
  BY <1>1, <1>3 DEF ClaimsAreHeld, ReceiptStays, FoundFirst, PendingStays
<1>5. LockIsTrusted
  BY <1>1, <1>3 DEF LockIsTrusted, Relies
<1> QED
  BY <1>1, <1>2, <1>4, <1>5 DEF DraftInv, PostsOnce

LEMMA DraftStutters == ASSUME DraftInv, PostsOnce, UNCHANGED draftVars PROVE DraftInv' /\ PostsOnce'
<1>1. UNCHANGED <<campaign, at, lock, ino, written, old, seen, claim, recovered, putBack, pending, receipt, disk,
                  posted, draftFaults>>
  BY DEF draftVars
<1>2. DraftTypeOK' /\ ClaimsAreHeld' /\ PostsOnce'
  BY <1>1 DEF DraftInv, DraftTypeOK, ClaimsAreHeld, PostsOnce
<1> QED
  BY <1>1, <1>2, QuietKeeps DEF DraftInv, stateVars

(* However the runs overlap, crash and lose power, the records hold each    *)
(* other up, and a lock that was never put back under its owner protects    *)
(* what the owner has read.                                                 *)
THEOREM DraftInvariance == DraftSpec => [](DraftInv /\ PostsOnce)
<1>1. DraftInit => DraftInv /\ PostsOnce
  BY DraftStarts
<1>2. DraftInv /\ PostsOnce /\ [DraftNext]_draftVars => (DraftInv /\ PostsOnce)'
  BY DraftKeeps, DraftStutters, PostsOnceKeeps DEF DraftInv
<1> QED
  BY <1>1, <1>2, PTL DEF DraftSpec

(* Brevo is given a second draft only after a lock is put back; what it may *)
(* have been given is on disk whatever the power does, and the receipt names*)
(* a draft that was created.                                                *)
THEOREM DraftRecordsAreTrue == DraftSpec => []RecordsAreTrue
<1>1. ASSUME DraftInv PROVE RecordsAreTrue
  <2>1. DraftTypeOK
    BY <1>1 DEF DraftInv
  <2>2. ASSUME putBack = {} PROVE AtMostOneDraft
    <3>1. \A r, s \in CreatedDrafts : r = s
      BY <1>1, <2>2 DEF DraftInv, LockIsTrusted, Posters, CreatedDrafts
    <3>2. CASE CreatedDrafts = {}
      BY <3>2, FS_EmptySet DEF AtMostOneDraft
    <3>3. CASE CreatedDrafts # {}
      <4>1. PICK r \in CreatedDrafts : CreatedDrafts = {r}
        BY <3>1, <3>3
      <4>2. Cardinality({r}) = 1
        BY FS_Singleton
      <4> QED
        BY <4>1, <4>2 DEF AtMostOneDraft
    <3> QED
      BY <3>2, <3>3
  <2>3. DraftIsOnRecord
    BY <1>1 DEF DraftInv, PendingStays, Posters, OnRecord, DraftIsOnRecord
  <2>4. ReceiptIsTrue
    BY <1>1 DEF DraftInv, FoundFirst, HasDraft, ReceiptIsTrue
  <2> QED
    BY <2>1, <2>2, <2>3, <2>4 DEF RecordsAreTrue, OneDraftPerLock
<1> QED
  BY <1>1, DraftInvariance, PTL

---------------------------------------------------------------------------
(* The script does what CampaignOnce promises. *)

Created == {campaign[r] : r \in CreatedDrafts}

LEMMA OnceSteps ==
    /\ Once!onceVars = <<disk.pending, Created, disk.receipt>>
    /\ Once!OnceInit <=> disk.pending = None /\ Created = {} /\ disk.receipt = None
    /\ \A c \in Campaign :
          /\ /\ disk.pending = None \/ disk.receipt # None
             /\ (disk.pending)' = c /\ UNCHANGED <<Created, disk.receipt>>
             => Once!OnceNext
          /\ /\ disk.pending = c /\ Created = {}
             /\ Created' = {c} /\ UNCHANGED <<disk.pending, disk.receipt>>
             => Once!OnceNext
          /\ /\ c \in Created /\ disk.receipt = None
             /\ (disk.receipt)' = c /\ UNCHANGED <<Created, disk.pending>>
             => Once!OnceNext
    /\ /\ disk.receipt # None /\ (disk.pending)' = None /\ UNCHANGED <<Created, disk.receipt>>
       => Once!OnceNext
BY DEF Once!onceVars, Once!OnceInit, Once!OnceNext, Once!Announce, Once!Create, Once!Record, Once!Forget, Created

(* A change of what is on disk, towards what the system sees. *)
LEMMA DiskSteps ==
    ASSUME DraftInv, Created' = Created,
           disk'.pending \in {pending, disk.pending}, disk'.receipt \in {receipt, disk.receipt}
    PROVE  Once!OnceNext \/ UNCHANGED <<disk.pending, Created, disk.receipt>>
<1>1. /\ disk.receipt # None => receipt = disk.receipt
      /\ disk.receipt = None /\ disk.pending # None => pending = disk.pending
      /\ {pending, receipt, disk.pending, disk.receipt} \subseteq Campaign \cup {None}
  BY DEF DraftInv, ReceiptStays, PendingStays, DraftTypeOK
<1>2. receipt # None => receipt \in Created /\ OnRecord
  BY DEF DraftInv, FoundFirst, HasDraft, PendingStays, Created, CreatedDrafts, Posters
<1>3. CASE disk.receipt # None
  BY <1>1, <1>3, OnceSteps
<1>4. CASE disk.receipt = None /\ disk.pending # None
  BY <1>1, <1>2, <1>4, OnceSteps
<1>5. CASE disk.receipt = None /\ disk.pending = None
  BY <1>1, <1>2, <1>5, OnceSteps DEF OnRecord
<1> QED
  BY <1>3, <1>4, <1>5

(* Only a sync or a power failure changes what is on disk, only Brevo what  *)
(* was created.                                                             *)
LEMMA RunsLeaveDisk ==
    ASSUME DraftInv, PostsOnce, NEW r \in Run, RunStep(r), ~SyncDirectory(r)
    PROVE  UNCHANGED disk /\ Created' = Created
<1>1. UNCHANGED <<disk, campaign>>
  BY DEF RunStep, AcquireReceiptLock, HoldLock, LeaveLock, CreateLock, LockExists, InspectLock, JudgeLock, RecoverLock,
         UnlinkStale, WriteLock, ConfirmLock, ReleaseLock, DropLock, RestoreLock, AssertOwned, ReadReceipt, ListDrafts,
         VerifyDraft, ReadPending, WritePending, WriteReceipt, RemovePending, PostDraft, PostReply, stateVars
<1>2. CASE PostDraft(r)
  <2>1. posted[r] = "none" /\ posted' = [posted EXCEPT ![r] = "sent"] /\ posted \in [Run -> DraftState]
    BY <1>2 DEF PostDraft, Goes, PostsOnce, Early, DraftInv, DraftTypeOK
  <2>2. CreatedDrafts' = CreatedDrafts
    BY <2>1 DEF CreatedDrafts
  <2> QED
    BY <1>1, <2>2 DEF Created
<1>3. CASE ~PostDraft(r)
  <2>1. posted' = posted
    BY <1>3 DEF RunStep, AcquireReceiptLock, HoldLock, LeaveLock, CreateLock, LockExists, InspectLock, JudgeLock,
         RecoverLock, UnlinkStale, WriteLock, ConfirmLock, ReleaseLock, DropLock, RestoreLock, AssertOwned, ReadReceipt,
         ListDrafts, VerifyDraft, ReadPending, WritePending, WriteReceipt, RemovePending, SyncDirectory, PostReply
  <2> QED
    BY <1>1, <2>1 DEF Created, CreatedDrafts
<1> QED
  BY <1>2, <1>3

(* Brevo creates the draft that is announced: the poster is the only one. *)
LEMMA AnswersAreAnnounced ==
    ASSUME DraftInv, putBack = {}, NEW r \in Run, BrevoAnswers(r)
    PROVE  Once!OnceNext \/ UNCHANGED <<disk.pending, Created, disk.receipt>>
<1>1. /\ posted[r] = "sent" /\ posted \in [Run -> DraftState] /\ campaign[r] \in Campaign /\ campaign[r] # None
      /\ UNCHANGED <<campaign, pending, receipt, disk>>
  BY NoneIsNoRun DEF BrevoAnswers, DraftInv, DraftTypeOK, Prepared, stateVars
<1>2. CreatedDrafts = {} /\ OnRecord /\ (disk.receipt = None => pending = campaign[r])
  BY <1>1 DEF DraftInv, LockIsTrusted, PendingStays, Posters, CreatedDrafts
<1>3. disk.receipt = None /\ disk.pending = campaign[r]
  BY <1>1, <1>2 DEF DraftInv, FoundFirst, HasDraft, ReceiptStays, PendingStays, OnRecord
<1>4. PICK s \in {"draft", "refused"} : posted' = [posted EXCEPT ![r] = s]
  BY DEF BrevoAnswers
<1>5. CASE s = "draft"
  <2>1. CreatedDrafts' = {r}
    BY <1>1, <1>2, <1>4, <1>5 DEF CreatedDrafts
  <2>2. Created = {} /\ Created' = {campaign[r]}
    BY <1>1, <1>2, <2>1 DEF Created
  <2> QED
    BY <1>1, <1>3, <2>2, OnceSteps
<1>6. CASE s = "refused"
  <2>1. CreatedDrafts' = CreatedDrafts
    BY <1>1, <1>4, <1>6 DEF CreatedDrafts
  <2> QED
    BY <1>1, <2>1 DEF Created
<1> QED
  BY <1>5, <1>6

LEMMA StepsAreOnce ==
    ASSUME DraftInv, PostsOnce, DraftNext, putBack = {}
    PROVE  Once!OnceNext \/ UNCHANGED <<disk.pending, Created, disk.receipt>>
<1>1. ASSUME NEW r \in Run, RunStep(r), ~SyncDirectory(r) PROVE UNCHANGED <<disk.pending, Created, disk.receipt>>
  BY <1>1, RunsLeaveDisk
<1>2. ASSUME NEW r \in Run, SyncDirectory(r) PROVE Once!OnceNext \/ UNCHANGED <<disk.pending, Created, disk.receipt>>
  <2>1. Created' = Created
    BY <1>2 DEF SyncDirectory, Created, CreatedDrafts
  <2>2. disk'.pending = pending /\ disk'.receipt = receipt
    BY <1>2 DEF SyncDirectory
  <2> QED
    BY <2>1, <2>2, DiskSteps
<1>3. ASSUME NEW r \in Run, EditorHandles(r) PROVE UNCHANGED <<disk.pending, Created, disk.receipt>>
  <2>1. CreatedDrafts' = CreatedDrafts /\ UNCHANGED <<campaign, disk>>
    BY <1>3 DEF EditorHandles, CreatedDrafts, DraftInv, DraftTypeOK, stateVars
  <2> QED
    BY <2>1 DEF Created
<1>4. ASSUME NEW r \in Run, LockGrowsOld(r) \/ BrevoCallFails(r) \/ RunCrashes(r)
      PROVE  UNCHANGED <<disk.pending, Created, disk.receipt>>
  BY <1>4 DEF LockGrowsOld, BrevoCallFails, RunCrashes, stateVars, Created, CreatedDrafts
<1>5. ASSUME PowerFails PROVE Once!OnceNext \/ UNCHANGED <<disk.pending, Created, disk.receipt>>
  <2>1. Created' = Created
    BY <1>5 DEF PowerFails, Created, CreatedDrafts
  <2>2. disk'.pending \in {pending, disk.pending} /\ disk'.receipt \in {receipt, disk.receipt}
    BY <1>5 DEF PowerFails
  <2> QED
    BY <2>1, <2>2, DiskSteps
<1> QED
  BY <1>1, <1>2, <1>3, <1>4, <1>5, AnswersAreAnnounced DEF DraftNext, DraftEnvironment

(* While no lock is put back under its owner, the records on disk and the   *)
(* drafts at Brevo change only as CampaignOnce changes them.                *)
THEOREM DraftImplementsOnce == DraftSpec => ImplementsOnce
<1>1. DraftInit => Once!OnceInit
  <2>1. ASSUME DraftInit PROVE disk.pending = None /\ disk.receipt = None /\ Created = {}
    BY <2>1 DEF DraftInit, Created, CreatedDrafts
  <2> QED
    BY <2>1, OnceSteps
<1>2. DraftInv /\ PostsOnce /\ [DraftNext]_draftVars => [putBack = {} => Once!OnceNext]_OnceVars
  <2>1. UNCHANGED draftVars => UNCHANGED <<disk.pending, Created, disk.receipt>>
    BY DEF draftVars, Created, CreatedDrafts
  <2>2. UNCHANGED OnceVars <=> UNCHANGED <<disk.pending, Created, disk.receipt>>
    BY DEF OnceVars, Once!onceVars, Created
  <2> QED
    BY <2>1, <2>2, StepsAreOnce
<1> QED
  BY <1>1, <1>2, DraftInvariance, PTL DEF DraftSpec, ImplementsOnce

---------------------------------------------------------------------------
(* RevisionFacts. *)

DiffOf(c) ==
    Changes(c.from, c.to, NewModels(published[c.from], published[c.to]),
            PriceDrops(published[c.from], published[c.to]))

WasOffered(s) ==
    \A r \in s.rows : r.source = "openrouter" =>
        [route |-> r.route, input |-> r.input, output |-> r.output] \in s.offers

AnnouncedInv ==
    \A c \in bundles \cup campaigns :
        /\ c.from \in Revision /\ c.to \in Revision
        /\ c = DiffOf(c)
        /\ WasOffered(published[c.from]) /\ WasOffered(published[c.to])

FactsInv == FactsTypeOK /\ AnnouncedInv

-----------------------------------------------------------------------------
(* The operators of the comparison. *)

(* A snapshot is made of price rows whose rates are numbers or missing. *)
LEMMA SnapshotRows ==
    ASSUME NEW s \in Snapshot
    PROVE  /\ s \in [models : SUBSET Model, rows : SUBSET PriceRow, offers : SUBSET Offer]
           /\ None \notin Nat
BY RevisionAssumption

(* A drop comes from a settled row of each revision, for one route. *)
LEMMA DropHasRows ==
    ASSUME NEW prev, NEW cur, NEW d \in PriceDrops(prev, cur)
    PROVE  \E q \in Settled(prev), r \in Settled(cur) :
              /\ SameRoute(q, r) /\ Cheaper(q, r) /\ d = Drop(q, r)
<1>1. PICK m \in Settled(prev) \X Settled(cur) :
          SameRoute(m[1], m[2]) /\ Cheaper(m[1], m[2]) /\ d = Drop(m[1], m[2])
  BY DEF PriceDrops
<1>2. m[1] \in Settled(prev) /\ m[2] \in Settled(cur)
  BY <1>1
<1> QED
  BY <1>1, <1>2

(* Two settled rows of one revision agree about the route they share. *)
LEMMA SettledAgree ==
    ASSUME NEW s, NEW q \in Settled(s), NEW r \in Settled(s), SameRoute(q, r)
    PROVE  SameRates(q, r)
BY DEF Settled

(* A row that stands alone for its route is settled. *)
LEMMA AloneIsSettled ==
    ASSUME NEW s, NEW q \in s.rows, q.check = "primary",
           \A o \in s.rows : o.check = "primary" /\ SameRoute(o, q) => o = q
    PROVE  q \in Settled(s)
<1>1. q \in Primary(s)
  BY DEF Primary
<1>2. ASSUME NEW r \in Primary(s), SameRoute(q, r) PROVE SameRates(q, r)
  <2>1. r = q
    BY <1>2 DEF Primary, SameRoute
  <2> QED
    BY <2>1 DEF SameRates
<1> QED
  BY <1>1, <1>2 DEF Settled

(* A lower rate is a number below a number. *)
LEMMA LowerIsNumber ==
    ASSUME NEW x \in Rate, NEW y \in Rate, Decreases(x, y)
    PROVE  {x, y} \subseteq Nat /\ y < x
BY DEF Rate, Decreases

(* Names, key and newsletter leave no field of the facts open. *)
LEMMA FieldsFixFacts ==
    ASSUME NEW v, NEW w, NEW models, NEW drops,
           NEW x, NEW y, NEW others, NEW falls,
           NEW c, c = Changes(v, w, models, drops),
           NEW d, d = Changes(x, y, others, falls),
           MatchesManifest(c, d), NewsletterOf(c) = NewsletterOf(d)
    PROVE  c = d
<1>1. v = x /\ w = y
  BY DEF Changes, MatchesManifest
<1>2. models = others /\ drops = falls
  BY DEF Changes, NewsletterOf
<1> QED
  BY <1>1, <1>2

-----------------------------------------------------------------------------
(* The invariant. *)

LEMMA FactsInvInit == FactsInit => FactsInv
<1> SUFFICES ASSUME FactsInit PROVE FactsInv
  OBVIOUS
<1>1. published = <<>> /\ receipts = <<>> /\ bundles = {} /\ campaigns = {}
  BY DEF FactsInit
<1>2. FactsTypeOK
  BY <1>1 DEF FactsTypeOK, Revision
<1>3. AnnouncedInv
  BY <1>1 DEF AnnouncedInv
<1> QED
  BY <1>2, <1>3 DEF FactsInv

LEMMA PublishKeepsFacts ==
    ASSUME FactsInv, NEW s \in Snapshot, NEW catalog \in Response, PublishRevision(s, catalog)
    PROVE  FactsInv'
<1>1. /\ published \in Seq(Snapshot) /\ receipts \in Seq(Response)
      /\ DOMAIN receipts = DOMAIN published
  BY DEF FactsInv, FactsTypeOK, Revision
<1>2. /\ published' = Append(published, s) /\ receipts' = Append(receipts, catalog)
      /\ bundles' = bundles /\ campaigns' = campaigns
  BY DEF PublishRevision
<1>3. /\ published' \in Seq(Snapshot) /\ receipts' \in Seq(Response)
      /\ DOMAIN published' = 1..(Len(published) + 1)
      /\ DOMAIN receipts' = 1..(Len(receipts) + 1)
      /\ Len(receipts) = Len(published)
      /\ DOMAIN published = 1..Len(published)
  BY <1>1, <1>2
<1>4. \A v \in DOMAIN published : v \in DOMAIN published' /\ published'[v] = published[v]
  BY <1>1, <1>2, <1>3
<1>5. FactsTypeOK'
  BY <1>2, <1>3, <1>4 DEF FactsInv, FactsTypeOK, Revision
<1>6. ASSUME NEW c \in bundles \cup campaigns
      PROVE  /\ c.from \in DOMAIN published' /\ c.to \in DOMAIN published'
             /\ c = DiffOf(c)'
             /\ WasOffered(published'[c.from]) /\ WasOffered(published'[c.to])
  <2>1. /\ c.from \in DOMAIN published /\ c.to \in DOMAIN published
        /\ c = DiffOf(c)
        /\ WasOffered(published[c.from]) /\ WasOffered(published[c.to])
    BY DEF FactsInv, AnnouncedInv, Revision
  <2>2. published'[c.from] = published[c.from] /\ published'[c.to] = published[c.to]
    BY <2>1, <1>4
  <2> QED
    BY <2>1, <2>2, <1>4 DEF DiffOf
<1>7. AnnouncedInv'
  BY <1>2, <1>6 DEF AnnouncedInv, Revision
<1> QED
  BY <1>5, <1>7 DEF FactsInv

(* A revision that was compared with its catalog was offered by it. *)
LEMMA FrozenWasOffered ==
    ASSUME NEW s, NEW catalog, Frozen(s, catalog)
    PROVE  WasOffered(s)
BY DEF Frozen, WasOffered

LEMMA GenerateKeepsFacts ==
    ASSUME FactsInv, NEW w \in Revision, NEW catalog \in Response, GenerateBundle(w, catalog)
    PROVE  FactsInv'
<1>1. PICK envelope \in Envelopes :
          /\ Acceptable(envelope, w)
          /\ bundles' = bundles \cup {Diff(envelope.previous, w)}
  BY DEF GenerateBundle
<1>2. PICK v : v = envelope.previous
  OBVIOUS
<1>3. v \in Revision
  BY <1>2 DEF Envelopes
<1>4. published' = published /\ receipts' = receipts /\ campaigns' = campaigns
  BY DEF GenerateBundle
<1>5. WasOffered(published[v]) /\ WasOffered(published[w])
  <2>1. Frozen(published[w], catalog)
    BY DEF GenerateBundle
  <2>2. Frozen(published[v], receipts[v])
    BY <1>1, <1>2 DEF Acceptable, Verified
  <2> QED
    BY <2>1, <2>2, FrozenWasOffered
<1>6. PICK d : d = Diff(v, w)
  OBVIOUS
<1>7. d.from = v /\ d.to = w /\ d = DiffOf(d)
  BY <1>6 DEF Diff, DiffOf, Changes
<1>8. bundles' = bundles \cup {d}
  BY <1>1, <1>2, <1>6
<1>9. FactsTypeOK'
  BY <1>3, <1>4, <1>7, <1>8 DEF FactsInv, FactsTypeOK, Revision
<1>10. AnnouncedInv'
  BY <1>3, <1>4, <1>5, <1>7, <1>8 DEF FactsInv, AnnouncedInv, Revision, DiffOf
<1> QED
  BY <1>9, <1>10 DEF FactsInv

LEMMA PrepareKeepsFacts ==
    ASSUME FactsInv, NEW rendered \in bundles, PrepareCampaign(rendered)
    PROVE  FactsInv'
<1>1. PICK changes \in HandMade :
          /\ MatchesManifest(rendered, changes)
          /\ NewsletterOf(rendered) = NewsletterOf(changes)
          /\ campaigns' = campaigns \cup {changes}
  BY DEF PrepareCampaign
<1>2. published' = published /\ receipts' = receipts /\ bundles' = bundles
  BY DEF PrepareCampaign
<1>3. PICK v, w, models, drops : changes = Changes(v, w, models, drops)
  BY DEF HandMade
<1>4. PICK x, y, others, falls : rendered = Changes(x, y, others, falls)
  BY DEF FactsInv, AnnouncedInv, DiffOf
<1>5. changes = rendered
  BY <1>1, <1>3, <1>4, FieldsFixFacts
<1>6. bundles' \cup campaigns' = bundles \cup campaigns
  BY <1>1, <1>2, <1>5
<1>7. FactsTypeOK'
  BY <1>2, <1>6 DEF FactsInv, FactsTypeOK, Revision
<1>8. AnnouncedInv'
  BY <1>2, <1>6 DEF FactsInv, AnnouncedInv, Revision, DiffOf
<1> QED
  BY <1>7, <1>8 DEF FactsInv

(* Every reachable state has the invariant. *)
THEOREM FactsInvariance == FactsSpec => []FactsInv
<1>1. FactsInit => FactsInv
  BY FactsInvInit
<1>2. FactsInv /\ [FactsNext]_factVars => FactsInv'
  <2> SUFFICES ASSUME FactsInv, [FactsNext]_factVars PROVE FactsInv'
    OBVIOUS
  <2>1. CASE \E s \in Snapshot, catalog \in Response : PublishRevision(s, catalog)
    BY <2>1, PublishKeepsFacts
  <2>2. CASE \E w \in Revision, catalog \in Response : GenerateBundle(w, catalog)
    BY <2>2, GenerateKeepsFacts
  <2>3. CASE \E rendered \in bundles : PrepareCampaign(rendered)
    BY <2>3, PrepareKeepsFacts
  <2>4. CASE UNCHANGED factVars
    BY <2>4 DEF factVars, FactsInv, FactsTypeOK, AnnouncedInv, Revision, DiffOf
  <2> QED
    BY <2>1, <2>2, <2>3, <2>4 DEF FactsNext
<1> QED
  BY <1>1, <1>2, PTL DEF FactsSpec

-----------------------------------------------------------------------------
(* What the invariant says of one set of announced facts. *)

LEMMA AnnouncedFacts ==
    ASSUME FactsInv, NEW c \in Announced
    PROVE  /\ c.from \in Revision /\ c.to \in Revision
           /\ published[c.from] \in Snapshot /\ published[c.to] \in Snapshot
           /\ c.models = NewModels(published[c.from], published[c.to])
           /\ c.drops = PriceDrops(published[c.from], published[c.to])
           /\ c.key = <<c.from, c.to, FactIds(c.to, c.models, c.drops)>>
           /\ c = DiffOf(c)
           /\ WasOffered(published[c.from]) /\ WasOffered(published[c.to])
<1>1. /\ c.from \in DOMAIN published /\ c.to \in DOMAIN published
      /\ c = DiffOf(c)
      /\ WasOffered(published[c.from]) /\ WasOffered(published[c.to])
  BY DEF FactsInv, AnnouncedInv, Announced, Revision
<1>2. published \in Seq(Snapshot)
  BY DEF FactsInv, FactsTypeOK
<1>3. published[c.from] \in Snapshot /\ published[c.to] \in Snapshot
  BY <1>1, <1>2
<1>4. PICK v, w, models, drops :
          /\ v = c.from /\ w = c.to
          /\ models = NewModels(published[c.from], published[c.to])
          /\ drops = PriceDrops(published[c.from], published[c.to])
  OBVIOUS
<1>5. c = Changes(v, w, models, drops)
  BY <1>1, <1>4 DEF DiffOf
<1>6. c.models = models /\ c.drops = drops /\ c.key = DedupeKey(v, w, FactIds(w, models, drops))
  BY <1>5 DEF Changes
<1> QED
  BY <1>1, <1>3, <1>4, <1>6 DEF DedupeKey, Revision

LEMMA DropsAreBackedInv == FactsInv => DropsAreBacked
<1> SUFFICES ASSUME FactsInv, NEW c \in Announced, NEW d \in c.drops
             PROVE  /\ \E q \in published[c.from].rows :
                         /\ q.model = d.model /\ q.route = d.route /\ q.check = "primary"
                         /\ q.input = d.inputBefore /\ q.output = d.outputBefore
                    /\ \A v \in {c.from, c.to} : \A q, r \in published[v].rows :
                         /\ q.check = "primary" /\ q.model = d.model /\ q.route = d.route
                         /\ r.check = "primary" /\ r.model = d.model /\ r.route = d.route
                         => q.input = r.input /\ q.output = r.output
                    /\ \E r \in published[c.to].rows :
                         /\ r.model = d.model /\ r.route = d.route /\ r.check = "primary"
                         /\ r.input = d.inputAfter /\ r.output = d.outputAfter
                    /\ \/ {d.inputBefore, d.inputAfter} \subseteq Nat /\ d.inputAfter < d.inputBefore
                       \/ {d.outputBefore, d.outputAfter} \subseteq Nat /\ d.outputAfter < d.outputBefore
  BY DEF DropsAreBacked
<1>1. PICK prev, cur : prev = published[c.from] /\ cur = published[c.to]
  OBVIOUS
<1>2. prev \in Snapshot /\ cur \in Snapshot /\ d \in PriceDrops(prev, cur)
  BY <1>1, AnnouncedFacts
<1>3. PICK q \in Settled(prev), r \in Settled(cur) :
          SameRoute(q, r) /\ Cheaper(q, r) /\ d = Drop(q, r)
  BY <1>2, DropHasRows
<1>4. /\ q \in prev.rows /\ q.check = "primary" /\ r \in cur.rows /\ r.check = "primary"
      /\ q.model = r.model /\ q.route = r.route
  BY <1>3 DEF Settled, Primary, SameRoute
<1>5. /\ d.model = r.model /\ d.route = r.route
      /\ d.inputBefore = q.input /\ d.inputAfter = r.input
      /\ d.outputBefore = q.output /\ d.outputAfter = r.output
  BY <1>3 DEF Drop
<1>6. q \in PriceRow /\ r \in PriceRow
  BY <1>2, <1>4, SnapshotRows
<1>7. q.input \in Rate /\ r.input \in Rate /\ q.output \in Rate /\ r.output \in Rate
  BY <1>6 DEF PriceRow
<1>8. ASSUME NEW o \in prev.rows, o.check = "primary", o.model = d.model, o.route = d.route
      PROVE  o.input = q.input /\ o.output = q.output
  BY <1>3, <1>4, <1>5, <1>8 DEF Settled, Primary, SameRoute, SameRates
<1>9. ASSUME NEW o \in cur.rows, o.check = "primary", o.model = d.model, o.route = d.route
      PROVE  o.input = r.input /\ o.output = r.output
  BY <1>3, <1>4, <1>5, <1>9 DEF Settled, Primary, SameRoute, SameRates
<1>10. \A v \in {c.from, c.to} : \A x, y \in published[v].rows :
          /\ x.check = "primary" /\ x.model = d.model /\ x.route = d.route
          /\ y.check = "primary" /\ y.model = d.model /\ y.route = d.route
          => x.input = y.input /\ x.output = y.output
  BY <1>1, <1>8, <1>9
<1>11. \/ {q.input, r.input} \subseteq Nat /\ r.input < q.input
       \/ {q.output, r.output} \subseteq Nat /\ r.output < q.output
  BY <1>3, <1>7, LowerIsNumber DEF Cheaper
<1> QED
  BY <1>1, <1>4, <1>5, <1>10, <1>11

(* Readers are told of no drop that two revisions do not show: the rates of *)
(* both are those of settled primary rows, and one side is really lower.    *)
THEOREM DropsAreReal == FactsSpec => []DropsAreBacked
BY FactsInvariance, DropsAreBackedInv, PTL

LEMMA ChangesAreAllToldInv == FactsInv => ChangesAreAllTold
<1> SUFFICES ASSUME FactsInv, NEW c \in Announced
             PROVE  /\ c.models = published[c.to].models \ published[c.from].models
                    /\ \A q \in published[c.from].rows, r \in published[c.to].rows :
                         /\ q.check = "primary" /\ r.check = "primary"
                         /\ q.model = r.model /\ q.route = r.route
                         /\ \A o \in published[c.from].rows :
                              o.check = "primary" /\ SameRoute(o, q) => o = q
                         /\ \A o \in published[c.to].rows :
                              o.check = "primary" /\ SameRoute(o, r) => o = r
                         /\ \/ q.input # None /\ r.input # None /\ r.input < q.input
                            \/ q.output # None /\ r.output # None /\ r.output < q.output
                         => Drop(q, r) \in c.drops
  BY DEF ChangesAreAllTold
<1>1. PICK prev, cur : prev = published[c.from] /\ cur = published[c.to]
  OBVIOUS
<1>2. c.models = cur.models \ prev.models /\ c.drops = PriceDrops(prev, cur)
  BY <1>1, AnnouncedFacts DEF NewModels
<1>3. ASSUME NEW q \in prev.rows, NEW r \in cur.rows,
             q.check = "primary", r.check = "primary", q.model = r.model, q.route = r.route,
             \A o \in prev.rows : o.check = "primary" /\ SameRoute(o, q) => o = q,
             \A o \in cur.rows : o.check = "primary" /\ SameRoute(o, r) => o = r,
             \/ q.input # None /\ r.input # None /\ r.input < q.input
             \/ q.output # None /\ r.output # None /\ r.output < q.output
      PROVE  Drop(q, r) \in PriceDrops(prev, cur)
  <2>1. q \in Settled(prev) /\ r \in Settled(cur)
    BY <1>3, AloneIsSettled
  <2>2. SameRoute(q, r) /\ Cheaper(q, r)
    BY <1>3 DEF SameRoute, Cheaper, Decreases
  <2>3. PICK m : m = <<q, r>>
    OBVIOUS
  <2>4. m \in Settled(prev) \X Settled(cur) /\ m[1] = q /\ m[2] = r
    BY <2>1, <2>3
  <2> QED
    BY <2>2, <2>4 DEF PriceDrops
<1> QED
  BY <1>1, <1>2, <1>3

(* And nothing is left out: every model that is new and every drop between *)
(* rows that stand alone for their route is announced.                     *)
THEOREM NothingIsLeftOut == FactsSpec => []ChangesAreAllTold
BY FactsInvariance, ChangesAreAllToldInv, PTL

LEMMA KeyNamesFactsInv == FactsInv => KeyNamesFacts
<1> SUFFICES ASSUME FactsInv, NEW c \in Announced, NEW d \in Announced, c.key = d.key
             PROVE  c = d
  BY DEF KeyNamesFacts
<1>1. /\ c.key = <<c.from, c.to, FactIds(c.to, c.models, c.drops)>>
      /\ d.key = <<d.from, d.to, FactIds(d.to, d.models, d.drops)>>
  BY AnnouncedFacts
<1>2. c = DiffOf(c) /\ d = DiffOf(d)
  BY AnnouncedFacts
<1>3. PICK ids, names : ids = FactIds(c.to, c.models, c.drops) /\ names = FactIds(d.to, d.models, d.drops)
  OBVIOUS
<1>4. <<c.from, c.to, ids>> = <<d.from, d.to, names>>
  BY <1>1, <1>3
<1>5. c.from = d.from /\ c.to = d.to
  BY <1>4
<1>6. DiffOf(c) = DiffOf(d)
  BY <1>5 DEF DiffOf
<1> QED
  BY <1>2, <1>6

(* One key, one set of facts: the lock, the pending record and the receipt *)
(* of a campaign, all kept under the key, are about one set of facts.      *)
THEOREM KeysNameFacts == FactsSpec => []KeyNamesFacts
BY FactsInvariance, KeyNamesFactsInv, PTL

LEMMA StoriesJoinInv == FactsInv => StoriesJoin
<1> SUFFICES ASSUME FactsInv, NEW c \in Announced, NEW d \in Announced, c.to = d.from
             PROVE  /\ c.models \cap d.models = {}
                    /\ \A x \in c.drops, y \in d.drops :
                         x.model = y.model /\ x.route = y.route =>
                           x.inputAfter = y.inputBefore /\ x.outputAfter = y.outputBefore
  BY DEF StoriesJoin
<1>1. PICK prev, mid, cur :
          prev = published[c.from] /\ mid = published[c.to] /\ cur = published[d.to]
  OBVIOUS
<1>2. /\ c.models = mid.models \ prev.models /\ c.drops = PriceDrops(prev, mid)
      /\ d.models = cur.models \ mid.models /\ d.drops = PriceDrops(mid, cur)
  BY <1>1, AnnouncedFacts DEF NewModels
<1>3. ASSUME NEW x \in PriceDrops(prev, mid), NEW y \in PriceDrops(mid, cur),
             x.model = y.model, x.route = y.route
      PROVE  x.inputAfter = y.inputBefore /\ x.outputAfter = y.outputBefore
  <2>1. PICK q \in Settled(prev), r \in Settled(mid) : SameRoute(q, r) /\ x = Drop(q, r)
    BY DropHasRows
  <2>2. PICK s \in Settled(mid), t \in Settled(cur) : SameRoute(s, t) /\ y = Drop(s, t)
    BY DropHasRows
  <2>3. SameRoute(r, s)
    BY <1>3, <2>1, <2>2 DEF Drop, SameRoute
  <2>4. SameRates(r, s)
    BY <2>1, <2>2, <2>3, SettledAgree
  <2> QED
    BY <2>1, <2>2, <2>4 DEF Drop, SameRates
<1> QED
  BY <1>2, <1>3

(* Successive announcements tell one story of a route, and a model is new  *)
(* in one of them only.                                                    *)
THEOREM StoriesFit == FactsSpec => []StoriesJoin
BY FactsInvariance, StoriesJoinInv, PTL

LEMMA DropsWereOfferedInv == FactsInv => DropsWereOffered
<1> SUFFICES ASSUME FactsInv, NEW c \in Announced, NEW v \in {c.from, c.to},
                    NEW r \in published[v].rows, r.source = "openrouter"
             PROVE  \E o \in published[v].offers :
                        o.route = r.route /\ o.input = r.input /\ o.output = r.output
  BY DEF DropsWereOffered
<1>1. WasOffered(published[v])
  BY AnnouncedFacts
<1>2. PICK o : o = [route |-> r.route, input |-> r.input, output |-> r.output]
  OBVIOUS
<1>3. o \in published[v].offers /\ o.route = r.route /\ o.input = r.input /\ o.output = r.output
  BY <1>1, <1>2 DEF WasOffered
<1> QED
  BY <1>3

(* All of it together: what the newsletter tells is true, complete and named *)
(* by its key.                                                               *)
THEOREM NewsIsAlwaysTrue == FactsSpec => []NewsIsTrue
<1>1. FactsInv => NewsIsTrue
  BY DropsAreBackedInv, ChangesAreAllToldInv, KeyNamesFactsInv, StoriesJoinInv,
     DropsWereOfferedInv DEF FactsInv, NewsIsTrue
<1> QED
  BY <1>1, FactsInvariance, PTL

---------------------------------------------------------------------------
(* CheatsheetBundle. *)

Inside == {"move", "unstage", "undo"}
Holding == {"check", "render", "output", "leave"} \cup Inside

AtMostOne(S) == S = {} \/ \E g \in Generator : S = {g}

(* The lock keeps all others out of the directory. *)
OneGenerator ==
    /\ AtMostOne(outLock) /\ AtMostOne(outDir)
    /\ \A g \in Generator : genAt[g] \in Holding => outLock = {g} /\ genVersion[g] # 0
    /\ \A g \in Generator : genAt[g] = "lock" => genVersion[g] # 0
    /\ \A g \in Generator : genAt[g] \in Inside => outDir = {g}
    /\ \A g \in Generator : genAt[g] \in {"read", "lock", "check", "render", "output"} => moved[g] = 0

(* What a generator has moved is there, and nothing else unless a file      *)
(* could not be taken back.                                                 *)
FilesAreMoved ==
    /\ outDir = {} => \A f \in File : out[f] = 0
    /\ \A g \in Generator : genAt[g] \in Inside =>
          /\ \A f \in File : f <= moved[g] => out[f] = genVersion[g]
          /\ \A f \in File : f > moved[g] =>
                out[f] = 0 \/ (genAt[g] = "undo" /\ out[f] = genVersion[g] /\ bundleFaults > 1)
    /\ \A g \in Generator : genAt[g] = "undo" => bundleFaults > 0

ReaderCompared ==
    /\ readerAt \in {"artifacts", "accepted"} => InputsMatch /\ Signed \in Version
    /\ readerAt = "accepted" => DigestsMatch

SheetTypes ==
    /\ facts \in Version
    /\ genAt \in [Generator -> GenOver \cup {"read", "lock", "check", "render", "output",
                                             "move", "unstage", "undo", "leave"}]
    /\ genVersion \in [Generator -> 0..MaxVersion]
    /\ moved \in [Generator -> 0..Manifest]
    /\ out \in [File -> 0..MaxVersion]
    /\ signed \in 0..MaxVersion
    /\ readerAt \in {"inputs", "artifacts", "accepted", "refused"}
    /\ input \in [Input -> 0..MaxVersion]
    /\ loaded \in [1..ArtifactCount -> 0..MaxVersion]
    /\ bundleFaults \in 0..MaxBundleFaults

BundleInv ==
    /\ SheetTypes /\ OneGenerator /\ FilesAreMoved
    /\ OneVersionPerOutput /\ ManifestIsMarker /\ ReaderCompared

GenAt == GenOver \cup {"read", "lock", "check", "render", "output", "move", "unstage", "undo", "leave"}

LEMMA GenMoved ==
    ASSUME SheetTypes, NEW g \in Generator, NEW to \in GenAt, genAt' = [genAt EXCEPT ![g] = to]
    PROVE  /\ genAt' \in [Generator -> GenAt]
           /\ genAt'[g] = to
           /\ \A h \in Generator : h # g => genAt'[h] = genAt[h]
BY DEF SheetTypes, GenAt

(* A step of the reader, or of what is read, leaves the directory alone. *)
LEMMA OthersKeep ==
    ASSUME BundleInv, UNCHANGED <<genVars, bundleFaults>>, SheetTypes', ReaderCompared'
    PROVE  BundleInv'
BY DEF BundleInv, genVars, OneGenerator, AtMostOne, FilesAreMoved, OneVersionPerOutput, ManifestIsMarker

(* A step that leaves the files alone. *)
LEMMA FilesStay ==
    ASSUME BundleInv, SheetTypes', OneGenerator', UNCHANGED <<out, signed, readerVars>>,
           bundleFaults <= bundleFaults', outDir' = {} => \A f \in File : out[f] = 0,
           \A g \in Generator : genAt'[g] \in Inside =>
                 /\ moved'[g] = moved[g] /\ genVersion'[g] = genVersion[g]
                 /\ \/ genAt[g] \in Inside /\ (genAt[g] = "undo" => genAt'[g] = "undo")
                    \/ moved[g] = 0 /\ \A f \in File : out[f] = 0,
           \A g \in Generator : genAt'[g] = "undo" => bundleFaults' > 0
    PROVE  BundleInv'
<1>1. SheetTypes /\ bundleFaults \in Nat /\ bundleFaults' \in Nat
  BY DEF BundleInv, SheetTypes
<1>2. ReaderCompared'
  BY DEF BundleInv, ReaderCompared, readerVars, InputsMatch, Signed, DigestsMatch
<1>3. OneVersionPerOutput' /\ ManifestIsMarker'
  BY <1>1 DEF BundleInv, OneVersionPerOutput, ManifestIsMarker
<1>4. FilesAreMoved'
  <2>1. ASSUME NEW g \in Generator, genAt'[g] \in Inside, NEW f \in File
        PROVE  /\ f <= moved'[g] => out'[f] = genVersion'[g]
               /\ f > moved'[g] => out'[f] = 0 \/ (genAt'[g] = "undo" /\ out'[f] = genVersion'[g] /\ bundleFaults' > 1)
    <3>1. moved'[g] = moved[g] /\ genVersion'[g] = genVersion[g] /\ out'[f] = out[f]
      BY <2>1
    <3>2. CASE genAt[g] \in Inside /\ (genAt[g] = "undo" => genAt'[g] = "undo")
      BY <1>1, <2>1, <3>1, <3>2 DEF BundleInv, FilesAreMoved
    <3>3. CASE moved[g] = 0 /\ \A h \in File : out[h] = 0
      <4>1. ~(f <= 0)
        BY ArtifactsAreSome DEF File, Manifest
      <4> QED
        BY <3>1, <3>3, <4>1
    <3> QED
      BY <2>1, <3>2, <3>3
  <2> QED
    BY <2>1 DEF FilesAreMoved
<1> QED
  BY <1>2, <1>3, <1>4 DEF BundleInv

(* Before a generator works in the directory, and after. *)
LEMMA GeneratorsKeep ==
    ASSUME BundleInv, NEW g \in Generator,
           ReadFacts(g) \/ LockOutput(g) \/ CheckAbsent(g) \/ RenderStaging(g) \/ LeaveOutput(g) \/ GeneratorCrashes(g)
    PROVE  BundleInv'
<1>1. SheetTypes /\ bundleFaults \in Nat /\ MaxBundleFaults \in Nat
  BY ArtifactsAreSome DEF BundleInv, SheetTypes
<1>2. PICK to \in {"lock", "check", "ended", "render", "leave", "output", "crashed"} :
          /\ genAt' = [genAt EXCEPT ![g] = to]
          /\ to = "lock" => genAt[g] = "read" /\ genVersion' = [genVersion EXCEPT ![g] = facts]
          /\ to # "lock" => genVersion' = genVersion
          /\ to = "check" => genAt[g] = "lock" /\ outLock = {} /\ outLock' = {g}
          /\ to = "render" => genAt[g] = "check"
          /\ to = "output" => genAt[g] = "render"
          /\ to = "leave" => genAt[g] \in {"check", "render"}
          /\ to # "check" => outLock' = outLock \/ (outLock' = outLock \ {g} /\ genAt[g] = "leave")
  BY DEF ReadFacts, LockOutput, CheckAbsent, RenderStaging, LeaveOutput, GeneratorCrashes, GenGoes
<1>3. /\ UNCHANGED <<facts, moved, outDir, out, signed, readerVars>>
      /\ bundleFaults' = bundleFaults \/ (bundleFaults' = bundleFaults + 1 /\ bundleFaults < MaxBundleFaults)
  BY DEF ReadFacts, LockOutput, CheckAbsent, RenderStaging, LeaveOutput, GeneratorCrashes, BundleFault
<1>4. to \in GenAt
  BY <1>2 DEF GenAt, GenOver
<1>5. genAt' \in [Generator -> GenAt] /\ genAt'[g] = to /\ \A h \in Generator : h # g => genAt'[h] = genAt[h]
  BY <1>1, <1>2, <1>4, GenMoved
<1>6. bundleFaults' \in 0..MaxBundleFaults /\ bundleFaults <= bundleFaults'
  BY <1>1, <1>3 DEF SheetTypes
<1>7. SheetTypes'
  <2>1. facts \in 0..MaxVersion /\ genVersion \in [Generator -> 0..MaxVersion]
    BY <1>1, ArtifactsAreSome DEF SheetTypes, Version
  <2>2. genVersion' = genVersion \/ genVersion' = [genVersion EXCEPT ![g] = facts]
    BY <1>2
  <2>3. genVersion' \in [Generator -> 0..MaxVersion]
    BY <2>1, <2>2
  <2> QED
    BY <1>1, <1>3, <1>5, <1>6, <2>3 DEF SheetTypes, GenAt, readerVars
<1>8. genVersion'[g] # 0 \/ to \in {"ended", "crashed"}
  BY <1>1, <1>2 DEF BundleInv, OneGenerator, Holding, SheetTypes, Version
<1>9. \A h \in Generator : h # g => genVersion'[h] = genVersion[h]
  BY <1>1, <1>2 DEF SheetTypes
<1>10. OneGenerator'
  <2>1. AtMostOne(outLock)' /\ AtMostOne(outDir)'
    BY <1>2, <1>3 DEF BundleInv, OneGenerator, AtMostOne, Holding
  <2>2. \A h \in Generator : genAt'[h] \in Holding => outLock' = {h} /\ genVersion'[h] # 0
    <3>1. CASE to = "check"
      BY <1>2, <1>5, <1>8, <1>9, <3>1 DEF BundleInv, OneGenerator
    <3>2. CASE to # "check"
      BY <1>2, <1>5, <1>8, <1>9, <3>2 DEF BundleInv, OneGenerator, Holding, Inside
    <3> QED
      BY <3>1, <3>2
  <2>3. \A h \in Generator : genAt'[h] = "lock" => genVersion'[h] # 0
    BY <1>5, <1>8, <1>9 DEF BundleInv, OneGenerator
  <2>4. \A h \in Generator : genAt'[h] \in Inside => outDir' = {h}
    BY <1>2, <1>3, <1>5 DEF BundleInv, OneGenerator, Inside
  <2>5. \A h \in Generator : genAt'[h] \in {"read", "lock", "check", "render", "output"} => moved'[h] = 0
    BY <1>2, <1>3, <1>5 DEF BundleInv, OneGenerator
  <2> QED
    BY <2>1, <2>2, <2>3, <2>4, <2>5 DEF OneGenerator
<1>11. \A h \in Generator : genAt'[h] \in Inside => h # g /\ genAt'[h] = genAt[h]
  BY <1>2, <1>5 DEF Inside
<1>12. \A h \in Generator : genAt'[h] = "undo" => bundleFaults' > 0
  BY <1>1, <1>6, <1>11 DEF BundleInv, FilesAreMoved, Inside
<1>13. outDir' = {} => \A f \in File : out[f] = 0
  BY <1>3 DEF BundleInv, FilesAreMoved
<1> QED
  BY <1>3, <1>6, <1>7, <1>9, <1>10, <1>11, <1>12, <1>13, FilesStay

(* The directory is made and left. *)
LEMMA DirectoryKeeps ==
    ASSUME BundleInv, NEW g \in Generator,
           MakeOutput(g) \/ RemoveStaging(g) \/ PublishFails(g) \/ UndoOutput(g)
    PROVE  BundleInv'
<1>1. SheetTypes /\ bundleFaults \in Nat /\ MaxBundleFaults \in Nat
  BY ArtifactsAreSome DEF BundleInv, SheetTypes
<1>2. PICK to \in {"move", "leave", "undo"} :
          /\ genAt' = [genAt EXCEPT ![g] = to]
          /\ to = "move" => genAt[g] = "output" /\ outDir = {} /\ outDir' = {g}
          /\ to = "undo" => genAt[g] \in {"move", "unstage"} /\ bundleFaults' > 0 /\ outDir' = outDir
          /\ to = "leave" => \/ genAt[g] \in {"output", "unstage"} /\ outDir' = outDir
                             \/ /\ genAt[g] = "undo"
                                /\ outDir' = IF \A f \in File : out[f] = 0 THEN {} ELSE outDir
  BY <1>1 DEF MakeOutput, RemoveStaging, PublishFails, UndoOutput, GenGoes, BundleFault
<1>3. /\ UNCHANGED <<facts, genVersion, moved, outLock, out, signed, readerVars>>
      /\ bundleFaults' = bundleFaults \/ (bundleFaults' = bundleFaults + 1 /\ bundleFaults < MaxBundleFaults)
  BY DEF MakeOutput, RemoveStaging, PublishFails, UndoOutput, BundleFault
<1>4. genAt' \in [Generator -> GenAt] /\ genAt'[g] = to /\ \A h \in Generator : h # g => genAt'[h] = genAt[h]
  BY <1>1, <1>2, GenMoved DEF GenAt
<1>5. bundleFaults' \in 0..MaxBundleFaults /\ bundleFaults <= bundleFaults'
  BY <1>1, <1>3 DEF SheetTypes
<1>6. SheetTypes'
  BY <1>1, <1>3, <1>4, <1>5 DEF SheetTypes, GenAt, readerVars
<1>7. genAt[g] \in Holding /\ outLock = {g} /\ \A h \in Generator : h # g => genAt'[h] \notin Holding
  BY <1>2, <1>4 DEF BundleInv, OneGenerator, Holding, Inside
<1>8. outDir' = {} => \A f \in File : out[f] = 0
  BY <1>2 DEF BundleInv, FilesAreMoved
<1>9. OneGenerator'
  <2>1. AtMostOne(outLock)' /\ AtMostOne(outDir)'
    BY <1>2, <1>3 DEF BundleInv, OneGenerator, AtMostOne
  <2>2. \A h \in Generator : genAt'[h] \in Holding => h = g
    BY <1>7
  <2>3. genVersion[g] # 0
    BY <1>7 DEF BundleInv, OneGenerator
  <2>4. to \in Inside => outDir' = {g}
    BY <1>2 DEF BundleInv, OneGenerator, Inside
  <2>5. \A h \in Generator : genAt'[h] \in {"read", "lock", "check", "render", "output"} => h # g /\ genAt'[h] = genAt[h]
    BY <1>2, <1>4
  <2>6. \A h \in Generator : genAt'[h] = "lock" => genVersion[h] # 0
    BY <2>5 DEF BundleInv, OneGenerator
  <2> QED
    BY <1>3, <1>4, <1>7, <2>1, <2>2, <2>3, <2>4, <2>5, <2>6 DEF BundleInv, OneGenerator, Holding
<1>10. \A h \in Generator : genAt'[h] \in Inside => h = g
  BY <1>7 DEF Holding
<1>11. to = "move" => moved[g] = 0 /\ \A f \in File : out[f] = 0
  BY <1>2 DEF BundleInv, OneGenerator, FilesAreMoved
<1>12. to = "undo" => genAt[g] \in Inside /\ genAt[g] # "undo" /\ bundleFaults' > 0
  BY <1>2 DEF Inside
<1>13. to # "leave" \/ to \notin Inside
  BY DEF Inside
<1> QED
  BY <1>2, <1>3, <1>4, <1>5, <1>6, <1>8, <1>9, <1>10, <1>11, <1>12, <1>13, FilesStay DEF Inside

(* The generator that works in the directory changes one file. *)
LEMMA OneFileChanges ==
    ASSUME BundleInv, NEW g \in Generator, genAt[g] \in Inside,
           UNCHANGED <<facts, genVersion, outLock, outDir, signed, readerVars>>,
           NEW to \in {"move", "unstage", "undo"}, genAt' = [genAt EXCEPT ![g] = to],
           NEW n \in 0..Manifest, moved' = [moved EXCEPT ![g] = n],
           out' \in [File -> 0..MaxVersion], bundleFaults' \in 0..MaxBundleFaults,
           \A f \in File : f <= n => out'[f] = genVersion[g],
           \A f \in File : f > n => out'[f] = 0 \/ (to = "undo" /\ out'[f] = genVersion[g] /\ bundleFaults' > 1),
           to = "undo" => bundleFaults' > 0
    PROVE  BundleInv'
<1>1. SheetTypes
  BY DEF BundleInv
<1>2. genAt' \in [Generator -> GenAt] /\ genAt'[g] = to /\ \A h \in Generator : h # g => genAt'[h] = genAt[h]
  BY <1>1, GenMoved DEF GenAt
<1>3. moved' \in [Generator -> 0..Manifest] /\ moved'[g] = n /\ \A h \in Generator : h # g => moved'[h] = moved[h]
  BY <1>1 DEF SheetTypes
<1>4. SheetTypes'
  BY <1>1, <1>2, <1>3 DEF SheetTypes, GenAt, readerVars
<1>5. outLock = {g} /\ outDir = {g} /\ genVersion[g] # 0 /\ \A h \in Generator : genAt[h] \in Holding => h = g
  BY DEF BundleInv, OneGenerator, Holding
<1>6. \A h \in Generator : genAt'[h] \in Holding => h = g
  BY <1>2, <1>5
<1>7. OneGenerator'
  <2>1. AtMostOne(outLock)' /\ AtMostOne(outDir)'
    BY DEF BundleInv, OneGenerator, AtMostOne
  <2>2. \A h \in Generator : genAt'[h] \in {"lock", "read", "check", "render", "output"} => h # g /\ genAt'[h] = genAt[h]
    BY <1>2
  <2> QED
    BY <1>3, <1>5, <1>6, <2>1, <2>2 DEF BundleInv, OneGenerator, Holding
<1>8. FilesAreMoved'
  <2>1. outDir' # {}
    BY <1>5
  <2>2. \A h \in Generator : genAt'[h] \in Inside => h = g
    BY <1>6 DEF Holding
  <2>3. genVersion' = genVersion
    OBVIOUS
  <2> QED
    BY <1>2, <1>3, <2>1, <2>2, <2>3 DEF FilesAreMoved, Inside
<1>9. OneVersionPerOutput'
  <2>1. \A f \in File : out'[f] \in {0, genVersion[g]}
    <3>1. \A f \in File : f <= n \/ f > n
      BY ArtifactsAreSome DEF File, Manifest
    <3> QED
      BY <3>1
  <2> QED
    BY <2>1 DEF OneVersionPerOutput
<1>10. ManifestIsMarker'
  <2>1. SUFFICES ASSUME out'[Manifest] # 0, bundleFaults' <= 1, NEW f \in File PROVE out'[f] = out'[Manifest]
    BY DEF ManifestIsMarker
  <2>2. Manifest \in File /\ Manifest \in Nat /\ f \in Nat /\ f <= Manifest /\ n \in Nat
    BY ArtifactsAreSome DEF File, Manifest
  <2>3. ~(bundleFaults' > 1)
    BY <2>1, ArtifactsAreSome
  <2>4. ~(Manifest > n)
    BY <2>1, <2>2, <2>3
  <2>5. f <= n /\ Manifest <= n
    BY <2>2, <2>4
  <2> QED
    BY <2>2, <2>5
<1>11. ReaderCompared'
  BY DEF BundleInv, ReaderCompared, readerVars, InputsMatch, Signed, DigestsMatch
<1> QED
  BY <1>4, <1>7, <1>8, <1>9, <1>10, <1>11 DEF BundleInv

LEMMA FilesKept ==
    ASSUME BundleInv, NEW g \in Generator, MoveFile(g) \/ UndoMove(g)
    PROVE  BundleInv'
<1>1. /\ SheetTypes /\ moved[g] \in 0..Manifest /\ genVersion[g] \in 0..MaxVersion /\ Manifest \in Nat
      /\ bundleFaults \in Nat /\ MaxBundleFaults \in Nat /\ out \in [File -> 0..MaxVersion]
  BY ArtifactsAreSome DEF BundleInv, SheetTypes, Manifest
<1>2. ASSUME genAt[g] \in Inside, NEW f \in File
      PROVE  /\ f <= moved[g] => out[f] = genVersion[g]
             /\ f > moved[g] => out[f] = 0 \/ (genAt[g] = "undo" /\ out[f] = genVersion[g] /\ bundleFaults > 1)
  BY <1>2 DEF BundleInv, FilesAreMoved
<1>3. \A f \in File : f \in Nat /\ f > 0
  BY ArtifactsAreSome DEF File, Manifest
<1>4. CASE MoveFile(g)
  <2>1. /\ genAt[g] = "move" /\ genAt[g] \in Inside /\ moved[g] < Manifest
        /\ moved' = [moved EXCEPT ![g] = moved[g] + 1]
        /\ out' = [out EXCEPT ![moved[g] + 1] = genVersion[g]]
        /\ UNCHANGED <<facts, genVersion, outLock, outDir, signed, readerVars, bundleFaults>>
    BY <1>1, <1>4 DEF MoveFile, GenGoes, Inside, SheetTypes
  <2>2. PICK to \in {"move", "unstage"} : genAt' = [genAt EXCEPT ![g] = to]
    BY <1>4 DEF MoveFile, GenGoes
  <2>3. PICK n : n = moved[g] + 1
    OBVIOUS
  <2>4. n \in 0..Manifest /\ n \in File /\ moved' = [moved EXCEPT ![g] = n] /\ out' = [out EXCEPT ![n] = genVersion[g]]
    BY <1>1, <2>1, <2>3 DEF File
  <2>5. ASSUME NEW f \in File PROVE (f <= n => out'[f] = genVersion[g]) /\ (f > n => out'[f] = 0)
    <3>1. CASE f = n
      BY <1>1, <1>3, <2>4, <3>1
    <3>2. CASE f # n
      <4>1. out'[f] = out[f]
        BY <1>1, <2>4, <3>2
      <4>2. f <= n => f <= moved[g]
        BY <1>1, <1>3, <2>3, <3>2
      <4>3. f > n => f > moved[g]
        BY <1>1, <1>3, <2>3
      <4> QED
        BY <1>2, <2>1, <4>1, <4>2, <4>3
    <3> QED
      BY <3>1, <3>2
  <2>6. out' \in [File -> 0..MaxVersion] /\ bundleFaults' \in 0..MaxBundleFaults
    BY <1>1, <2>1, <2>4 DEF SheetTypes
  <2> QED
    BY <2>1, <2>2, <2>4, <2>5, <2>6, OneFileChanges
<1>5. CASE UndoMove(g)
  <2>1. /\ genAt[g] = "undo" /\ genAt[g] \in Inside /\ moved[g] > 0 /\ genAt' = [genAt EXCEPT ![g] = "undo"]
        /\ moved' = [moved EXCEPT ![g] = moved[g] - 1]
        /\ UNCHANGED <<facts, genVersion, outLock, outDir, signed, readerVars>>
        /\ bundleFaults > 0
    BY <1>1, <1>5 DEF UndoMove, Inside, SheetTypes, BundleInv, FilesAreMoved
  <2>2. PICK n : n = moved[g] - 1
    OBVIOUS
  <2>3. n \in 0..Manifest /\ moved[g] \in File /\ moved' = [moved EXCEPT ![g] = n]
    BY <1>1, <2>1, <2>2 DEF File
  <2>4. \/ out' = [out EXCEPT ![moved[g]] = 0] /\ bundleFaults' = bundleFaults
        \/ out' = out /\ bundleFaults' = bundleFaults + 1 /\ bundleFaults < MaxBundleFaults
    BY <1>5 DEF UndoMove, BundleFault
  <2>5. ASSUME NEW f \in File
        PROVE  /\ f <= n => out'[f] = genVersion[g]
               /\ f > n => out'[f] = 0 \/ (out'[f] = genVersion[g] /\ bundleFaults' > 1)
    <3>1. f <= n => f <= moved[g] /\ f # moved[g]
      BY <1>1, <1>3, <2>2
    <3>2. f > n => f = moved[g] \/ f > moved[g]
      BY <1>1, <1>3, <2>2
    <3>3. bundleFaults > 1 => bundleFaults' > 1
      BY <1>1, <2>4
    <3>4. CASE out' = [out EXCEPT ![moved[g]] = 0] /\ bundleFaults' = bundleFaults
      BY <1>1, <1>2, <2>1, <3>1, <3>2, <3>3, <3>4
    <3>5. CASE out' = out /\ bundleFaults' = bundleFaults + 1
      <4>1. bundleFaults' > 1
        BY <1>1, <2>1, <3>5
      <4>2. f = moved[g] => f <= moved[g]
        BY <1>3
      <4> QED
        BY <1>2, <2>1, <3>1, <3>2, <3>5, <4>1, <4>2
    <3> QED
      BY <2>4, <3>4, <3>5
  <2>6. out' \in [File -> 0..MaxVersion] /\ bundleFaults' \in 0..MaxBundleFaults /\ bundleFaults' > 0
    <3>1. bundleFaults' \in 0..MaxBundleFaults /\ bundleFaults' > 0
      BY <1>1, <2>1, <2>4 DEF SheetTypes
    <3>2. 0 \in 0..MaxVersion
      BY ArtifactsAreSome
    <3> QED
      BY <1>1, <2>4, <3>1, <3>2
  <2> QED
    BY <2>1, <2>3, <2>5, <2>6, OneFileChanges
<1> QED
  BY <1>4, <1>5

LEMMA OperatorKeeps == ASSUME BundleInv, OperatorCleans PROVE BundleInv'
<1>1. /\ \A g \in Generator : genAt[g] \in GenOver \cup {"read", "lock"}
      /\ outLock' = {} /\ outDir' = {} /\ out' = [f \in File |-> 0]
      /\ UNCHANGED <<facts, genAt, genVersion, moved, signed, readerVars>>
      /\ bundleFaults < MaxBundleFaults /\ bundleFaults' = bundleFaults + 1
  BY DEF OperatorCleans, BundleFault
<1>2. SheetTypes /\ bundleFaults' \in 0..MaxBundleFaults /\ 0 \in 0..MaxVersion
  BY <1>1, ArtifactsAreSome DEF BundleInv, SheetTypes
<1>3. SheetTypes'
  BY <1>1, <1>2 DEF SheetTypes, readerVars
<1>4. \A g \in Generator : genAt'[g] \notin Holding /\ genAt'[g] \notin Inside
  BY <1>1 DEF Holding, Inside, GenOver
<1>5. OneGenerator'
  BY <1>1, <1>4 DEF BundleInv, OneGenerator, AtMostOne
<1>6. \A f \in File : out'[f] = 0
  BY <1>1
<1>7. FilesAreMoved'
  BY <1>4, <1>6 DEF FilesAreMoved, Inside
<1>8. OneVersionPerOutput' /\ ManifestIsMarker'
  <2>1. Manifest \in File
    BY ArtifactsAreSome DEF File, Manifest
  <2> QED
    BY <1>6, <2>1 DEF OneVersionPerOutput, ManifestIsMarker
<1>9. ReaderCompared'
  BY <1>1 DEF BundleInv, ReaderCompared, readerVars, InputsMatch, Signed, DigestsMatch
<1> QED
  BY <1>3, <1>5, <1>7, <1>8, <1>9 DEF BundleInv

LEMMA ReaderKeeps == ASSUME BundleInv, NewFacts \/ DeploymentSigns \/ ReadsBundle PROVE BundleInv'
<1>1. SheetTypes /\ Version \subseteq 0..MaxVersion /\ Manifest \in File
  BY ArtifactsAreSome DEF BundleInv, Version, File, Manifest
<1>2. CASE NewFacts
  <2>1. facts' \in Version
    BY <1>1, <1>2, ArtifactsAreSome DEF NewFacts, SheetTypes, Version
  <2>2. SheetTypes' /\ ReaderCompared'
    BY <1>1, <1>2, <2>1 DEF NewFacts, BundleInv, SheetTypes, genVars, readerVars, ReaderCompared, InputsMatch, Signed, DigestsMatch
  <2> QED
    BY <1>2, <2>2, OthersKeep DEF NewFacts
<1>3. CASE DeploymentSigns
  <2>1. signed' \in Version /\ UNCHANGED <<facts, genVars, readerVars, bundleFaults>>
    BY <1>3 DEF DeploymentSigns
  <2>2. SheetTypes' /\ ReaderCompared'
    BY <1>1, <2>1 DEF BundleInv, SheetTypes, genVars, readerVars, ReaderCompared, InputsMatch, Signed, DigestsMatch
  <2> QED
    BY <2>1, <2>2, OthersKeep
<1>4. ASSUME NEW i \in Input, ReadInput(i) PROVE BundleInv'
  <2>1. Current(i) \in 0..MaxVersion
    BY <1>1 DEF Current, SheetTypes, Input
  <2>2. /\ readerAt' \in {"refused", "inputs"} /\ input' = [input EXCEPT ![i] = Current(i)]
        /\ UNCHANGED <<facts, genVars, signed, loaded, bundleFaults>>
    BY <1>4 DEF ReadInput
  <2>3. SheetTypes' /\ ReaderCompared'
    BY <1>1, <2>1, <2>2 DEF SheetTypes, genVars, ReaderCompared
  <2> QED
    BY <2>2, <2>3, OthersKeep
<1>5. CASE CompareInputs
  <2>1. /\ \A i \in Input : input[i] # 0
        /\ readerAt' \in {"artifacts", "refused"} /\ (readerAt' = "artifacts" => InputsMatch)
        /\ UNCHANGED <<facts, genVars, signed, input, loaded, bundleFaults>>
    BY <1>5 DEF CompareInputs
  <2>2. Signed \in Version
    BY <1>1, <2>1, ArtifactsAreSome DEF Signed, SheetTypes, Input, Version
  <2>3. SheetTypes' /\ ReaderCompared'
    BY <1>1, <2>1, <2>2 DEF SheetTypes, genVars, ReaderCompared, InputsMatch, Signed
  <2> QED
    BY <2>1, <2>3, OthersKeep
<1>6. ASSUME NEW f \in 1..ArtifactCount, LoadArtifact(f) PROVE BundleInv'
  <2>1. out[f] \in 0..MaxVersion
    <3>1. f \in File
      BY ArtifactsAreSome DEF File, Manifest
    <3> QED
      BY <1>1, <3>1 DEF SheetTypes
  <2>2. /\ readerAt = "artifacts" /\ readerAt' \in {"refused", "artifacts"} /\ loaded' = [loaded EXCEPT ![f] = out[f]]
        /\ UNCHANGED <<facts, genVars, signed, input, bundleFaults>>
    BY <1>6 DEF LoadArtifact
  <2>3. SheetTypes' /\ ReaderCompared'
    BY <1>1, <2>1, <2>2 DEF BundleInv, SheetTypes, genVars, ReaderCompared, InputsMatch, Signed
  <2> QED
    BY <2>2, <2>3, OthersKeep
<1>7. CASE AcceptBundle
  <2>1. /\ readerAt = "artifacts" /\ readerAt' \in {"accepted", "refused"} /\ (readerAt' = "accepted" => DigestsMatch)
        /\ UNCHANGED <<facts, genVars, signed, input, loaded, bundleFaults>>
    BY <1>7 DEF AcceptBundle
  <2>2. SheetTypes' /\ ReaderCompared'
    BY <1>1, <2>1 DEF BundleInv, SheetTypes, genVars, ReaderCompared, InputsMatch, Signed, DigestsMatch
  <2> QED
    BY <2>1, <2>2, OthersKeep
<1> QED
  BY <1>2, <1>3, <1>4, <1>5, <1>6, <1>7 DEF ReadsBundle

LEMMA BundleStarts == SheetInit => BundleInv
<1>1. SUFFICES ASSUME SheetInit PROVE BundleInv
  OBVIOUS
<1>2. 1 \in Version /\ 0 \in 0..MaxVersion /\ 0 \in 0..Manifest /\ 0 \in 0..MaxBundleFaults /\ Manifest \in File
  BY ArtifactsAreSome DEF Version, File, Manifest
<1>3. SheetTypes
  BY <1>1, <1>2 DEF SheetInit, SheetTypes
<1>4. OneGenerator /\ FilesAreMoved
  BY <1>1 DEF SheetInit, OneGenerator, AtMostOne, FilesAreMoved, Holding, Inside
<1>5. OneVersionPerOutput /\ ManifestIsMarker /\ ReaderCompared
  BY <1>1, <1>2 DEF SheetInit, OneVersionPerOutput, ManifestIsMarker, ReaderCompared
<1> QED
  BY <1>3, <1>4, <1>5 DEF BundleInv

(* Generators that race, fail and take back, an operator who cleans up, a   *)
(* deployment that signs and a script that reads file by file: one          *)
(* generator works in the directory, its files lead up to the manifest, and *)
(* the reader goes on only with what it has compared.                       *)
THEOREM BundleInvariance == SheetSpec => []BundleInv
<1>1. BundleInv /\ [SheetNext]_sheetVars => BundleInv'
  <2>1. ASSUME BundleInv, UNCHANGED sheetVars PROVE BundleInv'
    <3>1. SheetTypes' /\ ReaderCompared'
      BY <2>1 DEF BundleInv, SheetTypes, ReaderCompared, sheetVars, InputsMatch, Signed, DigestsMatch
    <3> QED
      BY <2>1, <3>1, OthersKeep DEF sheetVars, genVars
  <2>2. ASSUME BundleInv, SheetNext PROVE BundleInv'
    BY <2>2, GeneratorsKeep, DirectoryKeeps, FilesKept, OperatorKeeps, ReaderKeeps DEF SheetNext, Generates
  <2> QED
    BY <2>1, <2>2
<1> QED
  BY <1>1, BundleStarts, PTL DEF SheetSpec

(* The whole safety property of the bundle. *)
THEOREM BundleIsAlwaysOneVersion == SheetSpec => []BundleIsOneVersion
<1>1. ASSUME BundleInv PROVE BundleIsOneVersion
  <2>1. ASSUME NEW S, AtMostOne(S) PROVE Cardinality(S) <= 1
    <3>1. CASE S = {}
      BY <3>1, FS_EmptySet
    <3>2. ASSUME NEW g \in Generator, S = {g} PROVE Cardinality(S) <= 1
      <4>1. Cardinality({g}) = 1
        BY FS_Singleton
      <4> QED
        BY <3>2, <4>1
    <3> QED
      BY <2>1, <3>1, <3>2 DEF AtMostOne
  <2>2. SheetTypeOK
    <3>1. outLock \subseteq Generator /\ outDir \subseteq Generator
      BY <1>1 DEF BundleInv, OneGenerator, AtMostOne
    <3>2. Cardinality(outLock) <= 1 /\ Cardinality(outDir) <= 1
      BY <1>1, <2>1 DEF BundleInv, OneGenerator
    <3> QED
      BY <1>1, <3>1, <3>2 DEF BundleInv, SheetTypes, SheetTypeOK
  <2>3. AcceptedIsSigned
    <3>1. ASSUME readerAt = "accepted"
          PROVE  /\ Signed \in Version /\ \A i \in Input : input[i] = Signed
                 /\ \A f \in 1..ArtifactCount : loaded[f] = Signed
      BY <1>1, <3>1 DEF BundleInv, ReaderCompared, InputsMatch, DigestsMatch, Input, Signed
    <3> QED
      BY <3>1 DEF AcceptedIsSigned
  <2> QED
    BY <1>1, <2>2, <2>3 DEF BundleInv, BundleIsOneVersion
<1> QED
  BY <1>1, BundleInvariance, PTL
=============================================================================
