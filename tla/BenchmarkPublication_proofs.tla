--------------------- MODULE BenchmarkPublication_proofs ---------------------
(***************************************************************************)
(* Proofs about BenchmarkPublication, for any sets of cycles,              *)
(* republications, contents, partitions, keys and weeks.                   *)
(*                                                                         *)
(* The final batch checks little of what it publishes.  What makes it safe *)
(* is what the steps before it left behind: the record of a cycle is sound *)
(* (WorkIsSound), only its own steps touch its responses                   *)
(* (CyclesOwnResponses), what publishBenchmarkCandidate read is still true *)
(* when the batch arrives (BatchIsCurrent), and every time that a          *)
(* republication stamps its responses with is the start of a cycle that    *)
(* has been published (ChecksWerePublished).                               *)
(***************************************************************************)
EXTENDS BenchmarkPublication, TLAPS

AllParts == Fact \cup Profile

\* What the record of cycle c says is already true of the tables.
SoundRecord(c, record) ==
    /\ record.phase # "derive" => record.candidate \in Revision
    /\ record.previous # None => AllParts \subseteq stored[record.previous]
    /\ record.phase = "stage-profiles" => Fact \subseteq stored[record.candidate]
    /\ record.phase \in {"stage-cache", "validate-candidate", "publish"} =>
          AllParts \subseteq stored[record.candidate]
    /\ record.phase = "publish" /\ cached[c] # None => CacheComplete(c)

WorkIsSound == \A c \in Cycle : work[c] # None => SoundRecord(c, work[c])

\* No two cycles start at the same time.
StartsAreDistinct ==
    /\ \A c \in Cycle : work[c] # None => work[c].stamp <= started
    /\ \A c, d \in Cycle :
          work[c] # None /\ work[d] # None /\ work[c].stamp = work[d].stamp => c = d

\* A pending row was made by its owner, at the time its owner started.
PendingIsOwners ==
    \A r \in Revision :
        revisions[r] # None /\ revisions[r].state = "pending" =>
            /\ work[revisions[r].owner] # None
            /\ revisions[r].checked = work[revisions[r].owner].stamp

ActiveIsStored == pointer # None => AllParts \subseteq stored[pointer]

\* The responses of a cycle carry its start, and are served when it is done.
CyclesOwnResponses ==
    \A c \in Cycle :
        /\ cached[c] # None => work[c] # None /\ cached[c].stamp = work[c].stamp
        /\ cachePointer = c => InPhase(c, "publish")

\* The responses that a republication still fills are not served yet.
RepublishersOwnResponses ==
    \A p \in Republisher : cachePointer = p => republish[p] # None /\ ~ Republishing(p)

ServedIsComplete == cachePointer # None => CacheComplete(cachePointer)

\* What publishBenchmarkCandidate has read still holds.
BatchIsCurrent ==
    publishing # None =>
        LET c == publishing.cycle
        IN  /\ InPhase(c, "publish")
            /\ publishing.unchanged <=> pointer = work[c].candidate
            /\ publishing.week = weeks[work[c].week]

\* The time s is the start of a cycle whose final batch was applied.
StartOfPublished(s) == \E d \in receipts : InPhase(d, "publish") /\ work[d].stamp = s

ChecksWerePublished ==
    /\ \A d \in receipts : InPhase(d, "publish")
    /\ \A r \in Revision :
          revisions[r] # None /\ revisions[r].state # "pending" =>
              StartOfPublished(revisions[r].checked)
    /\ \A p \in Republisher :
          /\ republish[p] # None => StartOfPublished(republish[p].checked)
          /\ cached[p] # None => StartOfPublished(cached[p].stamp)

TablesInv ==
    /\ PublicationTypeOK
    /\ ReadersAgree
    /\ OnePublished
    /\ WorkIsSound
    /\ StartsAreDistinct
    /\ PendingIsOwners
    /\ ActiveIsStored
    /\ CyclesOwnResponses
    /\ RepublishersOwnResponses
    /\ ServedIsComplete
    /\ BatchIsCurrent
    /\ ChecksWerePublished
-----------------------------------------------------------------------------
\* Nothing is published at first.
LEMMA InitTablesInv == PublicationInit => TablesInv
<1> SUFFICES ASSUME PublicationInit PROVE TablesInv
  OBVIOUS
<1>1. PublicationTypeOK
  BY BenchmarkConstants DEF PublicationInit, PublicationTypeOK
<1>2. ReadersAgree /\ ActiveIsStored /\ ServedIsComplete /\ BatchIsCurrent
  BY DEF PublicationInit, ReadersAgree, ActiveIsStored, ServedIsComplete, BatchIsCurrent
<1>3. OnePublished
  BY BenchmarkNone DEF PublicationInit, OnePublished
<1>4. WorkIsSound /\ StartsAreDistinct /\ PendingIsOwners
  BY DEF PublicationInit, WorkIsSound, StartsAreDistinct, PendingIsOwners
<1>5. CyclesOwnResponses /\ RepublishersOwnResponses
  BY BenchmarkNone DEF PublicationInit, CyclesOwnResponses, RepublishersOwnResponses, Attempt
<1>6. ChecksWerePublished
  BY DEF PublicationInit, ChecksWerePublished, Attempt
<1> QED
  BY <1>1, <1>2, <1>3, <1>4, <1>5, <1>6 DEF TablesInv

(* A step that only writes the record of cycle c keeps the invariant, when *)
(* the new record is sound, keeps the start of c, and c is not done.       *)
LEMMA AdvancePreserves ==
    ASSUME TablesInv, NEW c \in Cycle, NEW record \in Work, Advance(c, record),
           SoundRecord(c, record),
           ~ InPhase(c, "publish"),
           record.stamp = (IF work[c] = None THEN started + 1 ELSE work[c].stamp),
           started' = (IF work[c] = None THEN started + 1 ELSE started)
    PROVE  TablesInv'
<1>1. /\ work' = [work EXCEPT ![c] = record]
      /\ UNCHANGED <<catalog, revisions, stored, cached, pointer, cachePointer, weeks,
                     receipts, publishing, republish>>
  BY DEF Advance
<1>2. /\ work \in [Cycle -> Work \cup {None}]
      /\ started \in Nat
      /\ record # None
  BY BenchmarkNone DEF TablesInv, PublicationTypeOK
<1>3. work'[c] = record /\ \A d \in Cycle \ {c} : work'[d] = work[d]
  BY <1>1, <1>2
<1>4. PublicationTypeOK'
  BY <1>1, <1>2 DEF TablesInv, PublicationTypeOK
<1>5. ReadersAgree' /\ OnePublished' /\ ActiveIsStored' /\ ServedIsComplete'
  BY <1>1 DEF TablesInv, ReadersAgree, OnePublished, ActiveIsStored, ServedIsComplete, CacheComplete
<1>6. RepublishersOwnResponses'
  BY <1>1 DEF TablesInv, RepublishersOwnResponses, Republishing
<1>7. WorkIsSound'
  <2>1. \A d \in Cycle : \A rec : SoundRecord(d, rec) => SoundRecord(d, rec)'
    BY <1>1 DEF SoundRecord, CacheComplete
  <2> QED
    BY <1>3, <2>1 DEF TablesInv, WorkIsSound
<1>8. \A d \in Cycle : work[d] # None => work'[d] # None /\ work'[d].stamp = work[d].stamp
  BY <1>2, <1>3
<1>9. \A d \in Cycle : InPhase(d, "publish") => work'[d] = work[d]
  BY <1>3
<1>10. StartsAreDistinct'
  <2>1. \A d \in Cycle : work[d] # None => work[d].stamp \in Nat
    BY <1>2 DEF Work
  <2> QED
    BY <1>2, <1>3, <2>1 DEF TablesInv, StartsAreDistinct
<1>11. PendingIsOwners'
  <2>1. \A r \in Revision : revisions[r] # None => revisions[r].owner \in Cycle
    BY DEF TablesInv, PublicationTypeOK, RevisionRow
  <2> QED
    BY <1>1, <1>8, <2>1 DEF TablesInv, PendingIsOwners
<1>12. CyclesOwnResponses'
  BY <1>1, <1>8, <1>9 DEF TablesInv, CyclesOwnResponses, InPhase
<1>13. BatchIsCurrent'
  <2>1. publishing # None => publishing.cycle \in Cycle
    BY DEF TablesInv, PublicationTypeOK, Publishing
  <2> QED
    BY <1>1, <1>9, <2>1 DEF TablesInv, BatchIsCurrent, InPhase
<1>14. ChecksWerePublished'
  <2>1. \A s : StartOfPublished(s) => StartOfPublished(s)'
    BY <1>1, <1>9 DEF TablesInv, PublicationTypeOK, StartOfPublished, InPhase
  <2> QED
    BY <1>1, <1>9, <2>1 DEF TablesInv, PublicationTypeOK, ChecksWerePublished, InPhase
<1> QED
  BY <1>4, <1>5, <1>6, <1>7, <1>10, <1>11, <1>12, <1>13, <1>14 DEF TablesInv

\* acquireStep freezes a revision whose parts are all stored.
LEMMA FreezePreserves ==
    ASSUME TablesInv, NEW c \in Cycle, NEW week \in Week, Freeze(c, week)
    PROVE  TablesInv'
<1> DEFINE stamp  == IF work[c] = None THEN started + 1 ELSE work[c].stamp
           record == [frozen |-> catalog, previous |-> ActiveRevision, candidate |-> None,
                      stamp |-> stamp, week |-> week, phase |-> "derive"]
<1>1. Advance(c, record) /\ started' = (IF work[c] = None THEN started + 1 ELSE started)
  BY DEF Freeze
<1>2. ~ InPhase(c, "publish")
  BY DEF Freeze, InPhase
<1>3. ActiveRevision \in Revision \cup {None} /\ (ActiveRevision # None => ActiveRevision = pointer)
  BY DEF ActiveRevision, TablesInv, PublicationTypeOK
<1>4. stamp \in Nat
  BY DEF TablesInv, PublicationTypeOK, Work
<1>5. catalog \in 1 .. MaxCatalog
  BY BenchmarkConstants DEF Freeze, TablesInv, PublicationTypeOK
<1>6. record \in Work
  BY <1>3, <1>4, <1>5 DEF Work, Phase
<1>7. SoundRecord(c, record)
  BY <1>3 DEF SoundRecord, TablesInv, ActiveIsStored
<1>8. record.stamp = stamp
  OBVIOUS
<1> HIDE DEF record
<1> QED
  BY <1>1, <1>2, <1>6, <1>7, <1>8, AdvancePreserves

\* What Advance writes when a cycle with record w enters a phase.
LEMMA EntersPhase ==
    ASSUME NEW w \in Work, NEW phase \in Phase,
           NEW record, record = [w EXCEPT !.phase = phase]
    PROVE  /\ record \in Work
           /\ record.phase = phase
           /\ record.stamp = w.stamp
           /\ record.previous = w.previous
           /\ record.candidate = w.candidate
BY DEF Work

\* deriveStep: an unchanged candidate is as complete as what was frozen.
LEMMA DerivePreserves ==
    ASSUME TablesInv, NEW c \in Cycle, NEW content \in Content, Derive(c, content)
    PROVE  TablesInv'
<1> DEFINE r      == <<work[c].frozen, content>>
           phase  == IF r = work[c].previous THEN "stage-cache" ELSE "stage-facts"
           record == [work[c] EXCEPT !.candidate = r, !.phase = phase]
<1>1. Advance(c, record) /\ started' = started /\ work[c] # None /\ work[c].phase = "derive"
  BY DEF Derive, InPhase
<1>2. work[c] \in Work /\ SoundRecord(c, work[c])
  BY <1>1 DEF TablesInv, PublicationTypeOK, WorkIsSound
<1>3. r \in Revision /\ phase \in Phase
  BY <1>2 DEF Work, Revision, Phase
<1>4. r = work[c].previous => AllParts \subseteq stored[r]
  BY <1>2, <1>3, BenchmarkNone DEF SoundRecord
<1>5. phase \in {"stage-cache", "stage-facts"} /\ (phase = "stage-cache" => r = work[c].previous)
  OBVIOUS
<1> HIDE DEF r, phase
<1>6. /\ record \in Work
      /\ record.phase = phase
      /\ record.stamp = work[c].stamp
      /\ record.previous = work[c].previous
      /\ record.candidate = r
  <2>1. work[c] \in Work
    BY <1>2
  <2> QED
    BY <1>3, <2>1 DEF Work
<1> HIDE DEF record
<1>7. SoundRecord(c, record)
  BY <1>2, <1>3, <1>4, <1>5, <1>6 DEF SoundRecord
<1> QED
  BY <1>1, <1>6, <1>7, AdvancePreserves DEF InPhase

(* The cursor of a staging phase is past its last partition, key or check: *)
(* FactsStaged, ProfilesStaged, CacheStaged and ValidateCandidate.         *)
LEMMA EndOfPhasePreserves ==
    ASSUME TablesInv, NEW c \in Cycle,
           FactsStaged(c) \/ ProfilesStaged(c) \/ CacheStaged(c) \/ ValidateCandidate(c)
    PROVE  TablesInv'
<1> DEFINE Enters(phase) == Advance(c, [work[c] EXCEPT !.phase = phase]) /\ started' = started
<1>1. /\ work[c] # None
      /\ work[c].phase \in {"stage-facts", "stage-profiles", "stage-cache", "validate-candidate"}
  BY DEF FactsStaged, ProfilesStaged, CacheStaged, ValidateCandidate, InPhase
<1>2. work[c] \in Work /\ SoundRecord(c, work[c])
  BY <1>1 DEF TablesInv, PublicationTypeOK, WorkIsSound
<1>3. PICK phase \in {"stage-profiles", "stage-cache", "validate-candidate", "publish"} :
        /\ Enters(phase)
        /\ phase = "stage-profiles" => Fact \subseteq stored[work[c].candidate]
        /\ phase # "stage-profiles" => AllParts \subseteq stored[work[c].candidate]
        /\ phase = "publish" => CacheComplete(c)
  <2>1. CASE FactsStaged(c)
    BY <2>1 DEF FactsStaged, FactsComplete
  <2>2. CASE ProfilesStaged(c)
    BY <1>2, <2>2 DEF ProfilesStaged, InPhase, SoundRecord, AllParts
  <2>3. CASE CacheStaged(c)
    BY <1>2, <2>3 DEF CacheStaged, InPhase, SoundRecord
  <2>4. CASE ValidateCandidate(c)
    BY <1>2, <2>4 DEF ValidateCandidate, CandidateComplete, InPhase, SoundRecord
  <2> QED
    BY <2>1, <2>2, <2>3, <2>4
<1>4. phase \in Phase /\ phase # "derive"
  BY DEF Phase
<1> DEFINE record == [work[c] EXCEPT !.phase = phase]
<1>5. /\ record \in Work
      /\ record.phase = phase
      /\ record.stamp = work[c].stamp
      /\ record.previous = work[c].previous
      /\ record.candidate = work[c].candidate
  BY <1>2, <1>4, EntersPhase
<1>6. Advance(c, record) /\ started' = started
  BY <1>3
<1> HIDE DEF record
<1>7. SoundRecord(c, record)
  BY <1>1, <1>2, <1>3, <1>4, <1>5 DEF SoundRecord
<1> QED
  BY <1>1, <1>5, <1>6, <1>7, AdvancePreserves DEF InPhase
-----------------------------------------------------------------------------
\* The catalog moves on under the cycles: nothing here looks at it again.
LEMMA CatalogPublishesPreserves ==
    ASSUME TablesInv, CatalogPublishes
    PROVE  TablesInv'
<1>1. /\ catalog' = catalog + 1 /\ catalog < MaxCatalog
      /\ UNCHANGED <<revisions, stored, cached, pointer, cachePointer, weeks, receipts,
                     work, publishing, republish, started>>
  BY DEF CatalogPublishes
<1>2. PublicationTypeOK'
  BY <1>1, BenchmarkConstants DEF TablesInv, PublicationTypeOK
<1>3. /\ ReadersAgree' /\ OnePublished' /\ StartsAreDistinct' /\ PendingIsOwners'
      /\ ActiveIsStored'
  BY <1>1 DEF TablesInv, ReadersAgree, OnePublished, StartsAreDistinct, PendingIsOwners,
              ActiveIsStored
<1>4. /\ WorkIsSound' /\ CyclesOwnResponses' /\ RepublishersOwnResponses'
      /\ ServedIsComplete' /\ BatchIsCurrent'
  BY <1>1 DEF TablesInv, WorkIsSound, SoundRecord, CyclesOwnResponses, InPhase,
              RepublishersOwnResponses, Republishing, ServedIsComplete, CacheComplete,
              BatchIsCurrent
<1>5. ChecksWerePublished'
  BY <1>1 DEF TablesInv, ChecksWerePublished, StartOfPublished, InPhase
<1> QED
  BY <1>2, <1>3, <1>4, <1>5 DEF TablesInv

\* ensurePendingBenchmarkRevision makes the row of a revision that had none.
LEMMA EnsurePendingPreserves ==
    ASSUME TablesInv, NEW c \in Cycle, EnsurePending(c)
    PROVE  TablesInv'
<1> DEFINE r   == work[c].candidate
           row == [state |-> "pending", owner |-> c, checked |-> work[c].stamp]
<1>1. /\ work[c] # None /\ work[c].phase = "stage-facts"
      /\ revisions[r] = None
      /\ revisions' = [revisions EXCEPT ![r] = row]
      /\ UNCHANGED <<catalog, stored, cached, pointer, cachePointer, weeks, receipts,
                     work, publishing, republish, started>>
  BY DEF EnsurePending, InPhase
<1>2. work[c] \in Work /\ r \in Revision
  BY <1>1 DEF TablesInv, PublicationTypeOK, WorkIsSound, SoundRecord
<1>3. row \in RevisionRow /\ row # None
  BY <1>2, BenchmarkNone DEF RevisionRow, Work
<1>4. row.state = "pending" /\ row.owner = c /\ row.checked = work[c].stamp
  OBVIOUS
<1> HIDE DEF row
<1>5. /\ revisions' \in [Revision -> RevisionRow \cup {None}]
      /\ revisions'[r] = row
      /\ \A q \in Revision \ {r} : revisions'[q] = revisions[q]
  BY <1>1, <1>2, <1>3 DEF TablesInv, PublicationTypeOK
<1> HIDE DEF r
<1>6. PublicationTypeOK'
  BY <1>1, <1>5 DEF TablesInv, PublicationTypeOK
<1>7. pointer # r
  BY <1>1, BenchmarkNone, <1>2 DEF TablesInv, ReadersAgree
<1>8. ReadersAgree'
  BY <1>1, <1>5, <1>7 DEF TablesInv, PublicationTypeOK, ReadersAgree
<1>9. OnePublished'
  BY <1>1, <1>4, <1>5, <1>7 DEF TablesInv, OnePublished
<1>10. PendingIsOwners'
  BY <1>1, <1>4, <1>5 DEF TablesInv, PendingIsOwners
<1>11. /\ StartsAreDistinct' /\ ActiveIsStored' /\ WorkIsSound' /\ CyclesOwnResponses'
       /\ RepublishersOwnResponses' /\ ServedIsComplete' /\ BatchIsCurrent'
  BY <1>1 DEF TablesInv, StartsAreDistinct, ActiveIsStored, WorkIsSound, SoundRecord,
              CyclesOwnResponses, InPhase, RepublishersOwnResponses, Republishing,
              ServedIsComplete, CacheComplete, BatchIsCurrent
<1>12. ChecksWerePublished'
  BY <1>1, <1>4, <1>5 DEF TablesInv, ChecksWerePublished, StartOfPublished, InPhase
<1> QED
  BY <1>6, <1>8, <1>9, <1>10, <1>11, <1>12 DEF TablesInv

\* Staging a partition: rows are only ever added.
LEMMA StorePartitionPreserves ==
    ASSUME TablesInv, NEW c \in Cycle, NEW part \in AllParts,
           StageFact(c, part) \/ StageProfile(c, part)
    PROVE  TablesInv'
<1> DEFINE r == work[c].candidate
<1>1. /\ work[c] # None /\ work[c].phase # "derive"
      /\ stored' = [stored EXCEPT ![r] = @ \cup {part}]
      /\ UNCHANGED <<catalog, revisions, cached, pointer, cachePointer, weeks, receipts,
                     work, publishing, republish, started>>
  BY DEF StageFact, StageProfile, StorePartition, InPhase
<1>2. r \in Revision
  BY <1>1 DEF TablesInv, WorkIsSound, SoundRecord
<1> HIDE DEF r
<1>3. /\ stored' \in [Revision -> SUBSET AllParts]
      /\ \A q \in Revision : stored[q] \subseteq stored'[q]
  BY <1>1, <1>2 DEF TablesInv, PublicationTypeOK, AllParts
<1>4. PublicationTypeOK'
  BY <1>1, <1>3 DEF TablesInv, PublicationTypeOK, AllParts
<1>5. ActiveIsStored'
  BY <1>1, <1>3 DEF TablesInv, PublicationTypeOK, ActiveIsStored
<1>6. WorkIsSound'
  <2> SUFFICES ASSUME NEW d \in Cycle, work[d] # None PROVE SoundRecord(d, work[d])'
    BY <1>1 DEF WorkIsSound
  <2>1. SoundRecord(d, work[d]) /\ work[d] \in Work
    BY DEF TablesInv, PublicationTypeOK, WorkIsSound
  <2>2. \A q \in Revision : \A parts : parts \subseteq stored[q] => parts \subseteq stored'[q]
    BY <1>3
  <2>3. work[d].previous \in Revision \cup {None}
    BY <2>1 DEF Work
  <2> QED
    BY <1>1, <2>1, <2>2, <2>3 DEF SoundRecord, CacheComplete
<1>7. /\ ReadersAgree' /\ OnePublished' /\ StartsAreDistinct' /\ PendingIsOwners'
      /\ CyclesOwnResponses' /\ RepublishersOwnResponses' /\ ServedIsComplete'
      /\ BatchIsCurrent'
  BY <1>1 DEF TablesInv, ReadersAgree, OnePublished, StartsAreDistinct, PendingIsOwners,
              CyclesOwnResponses, InPhase, RepublishersOwnResponses, Republishing,
              ServedIsComplete, CacheComplete, BatchIsCurrent
<1>8. ChecksWerePublished'
  BY <1>1 DEF TablesInv, ChecksWerePublished, StartOfPublished, InPhase
<1> QED
  BY <1>4, <1>5, <1>6, <1>7, <1>8 DEF TablesInv
-----------------------------------------------------------------------------
(* What every step that writes responses but no revision does: the         *)
(* responses of a finished cycle are kept or deleted whole, those of the   *)
(* served attempt are kept, and stamps are starts of published cycles.     *)
ResponsesStep ==
    /\ UNCHANGED <<catalog, revisions, stored, pointer, weeks, receipts, work,
                   publishing, started>>
    /\ cached' \in [Attempt -> CacheRow \cup {None}]
    /\ republish' \in [Republisher -> Republication \cup {None}]
    /\ cachePointer' \in Attempt \cup {None}
    /\ ReadersAgree' /\ ServedIsComplete'
    /\ \A c \in Cycle :
          /\ cached'[c] # None => work[c] # None /\ cached'[c].stamp = work[c].stamp
          /\ InPhase(c, "publish") /\ cached'[c] # None => cached'[c] = cached[c]
          /\ cachePointer' = c => cachePointer = c
    /\ \A p \in Republisher :
          /\ cached'[p] # None => StartOfPublished(cached'[p].stamp)
          /\ republish'[p] # None => StartOfPublished(republish'[p].checked)
          /\ cachePointer' = p => republish'[p] # None /\ republish'[p].at # "staging"

\* Preparing, checking and abandoning responses keeps the invariant.
LEMMA ResponsesStepPreserves ==
    ASSUME TablesInv, ResponsesStep
    PROVE  TablesInv'
<1>1. UNCHANGED <<catalog, revisions, stored, pointer, weeks, receipts, work, publishing, started>>
  BY DEF ResponsesStep
<1>2. PublicationTypeOK'
  BY <1>1 DEF ResponsesStep, TablesInv, PublicationTypeOK
<1>3. ReadersAgree' /\ ServedIsComplete'
  BY DEF ResponsesStep
<1>4. OnePublished' /\ StartsAreDistinct' /\ PendingIsOwners' /\ ActiveIsStored' /\ BatchIsCurrent'
  BY <1>1 DEF TablesInv, OnePublished, StartsAreDistinct, PendingIsOwners, ActiveIsStored,
              BatchIsCurrent, InPhase
<1>5. WorkIsSound'
  <2> SUFFICES ASSUME NEW c \in Cycle, work[c] # None PROVE SoundRecord(c, work[c])'
    BY <1>1 DEF WorkIsSound
  <2>1. SoundRecord(c, work[c])
    BY DEF TablesInv, WorkIsSound
  <2>2. work[c].phase = "publish" /\ cached'[c] # None => cached'[c] = cached[c]
    BY DEF ResponsesStep, InPhase
  <2> QED
    BY <1>1, <2>1, <2>2 DEF SoundRecord, CacheComplete
<1>6. CyclesOwnResponses'
  BY <1>1 DEF ResponsesStep, TablesInv, CyclesOwnResponses, InPhase
<1>7. RepublishersOwnResponses'
  BY <1>1 DEF ResponsesStep, RepublishersOwnResponses, Republishing
<1>8. ChecksWerePublished'
  BY <1>1 DEF ResponsesStep, TablesInv, ChecksWerePublished, StartOfPublished, InPhase
<1> QED
  BY <1>2, <1>3, <1>4, <1>5, <1>6, <1>7, <1>8 DEF TablesInv

\* Readers are served as before when the responses they are given are kept.
LEMMA ServedKept ==
    ASSUME TablesInv, UNCHANGED <<revisions, pointer, cachePointer>>,
           cachePointer # None => cached'[cachePointer] = cached[cachePointer]
    PROVE  ReadersAgree' /\ ServedIsComplete'
BY DEF TablesInv, ReadersAgree, ServedIsComplete, CacheComplete

\* A row of responses with one key changed.
LEMMA RowWithKey ==
    ASSUME NEW row \in CacheRow, NEW k \in Key, NEW amount \in EntryState
    PROVE  LET new == [row EXCEPT !.keys[k] = amount]
           IN  new \in CacheRow /\ new.stamp = row.stamp
BY DEF CacheRow

(* Only attempt a changes its responses, which are not served.             *)
LEMMA OneRowStep ==
    ASSUME TablesInv, NEW a \in Attempt, NEW row \in CacheRow,
           cached' = [cached EXCEPT ![a] = row],
           UNCHANGED <<catalog, revisions, stored, pointer, cachePointer, weeks, receipts,
                       work, publishing, republish, started>>,
           cachePointer # a,
           a \in Cycle => /\ work[a] # None /\ work[a].phase # "publish"
                          /\ row.stamp = work[a].stamp,
           a \in Republisher => StartOfPublished(row.stamp)
    PROVE  TablesInv'
<1>1. /\ cached' \in [Attempt -> CacheRow \cup {None}]
      /\ cached'[a] = row
      /\ \A b \in Attempt \ {a} : cached'[b] = cached[b]
  BY DEF TablesInv, PublicationTypeOK
<1>2. cachePointer # None => cached'[cachePointer] = cached[cachePointer]
  BY <1>1 DEF TablesInv, PublicationTypeOK
<1>3. ReadersAgree' /\ ServedIsComplete'
  BY <1>2, ServedKept
<1>4. \A c \in Cycle :
          /\ cached'[c] # None => work[c] # None /\ cached'[c].stamp = work[c].stamp
          /\ InPhase(c, "publish") /\ cached'[c] # None => cached'[c] = cached[c]
  BY <1>1 DEF TablesInv, CyclesOwnResponses, InPhase, Attempt
<1>5. \A p \in Republisher :
          /\ cached'[p] # None => StartOfPublished(cached'[p].stamp)
          /\ republish'[p] # None => StartOfPublished(republish'[p].checked)
  BY <1>1 DEF TablesInv, ChecksWerePublished, Attempt
<1>6. \A p \in Republisher :
          cachePointer' = p => republish'[p] # None /\ republish'[p].at # "staging"
  BY DEF TablesInv, RepublishersOwnResponses, Republishing
<1>7. ResponsesStep
  BY <1>1, <1>3, <1>4, <1>5, <1>6 DEF ResponsesStep, TablesInv, PublicationTypeOK
<1> QED
  BY <1>7, ResponsesStepPreserves

\* A cycle that stages its responses has not been published.
LEMMA CycleStagesPreserves ==
    ASSUME TablesInv, NEW c \in Cycle, NEW k \in Key,
           StageCacheKey(c, k) \/ \E amount \in EntryState : FillCacheKey(c, k, amount)
    PROVE  TablesInv'
<1>1. /\ work[c] # None /\ work[c].phase = "stage-cache"
      /\ UNCHANGED <<catalog, revisions, stored, pointer, cachePointer, weeks, receipts,
                     work, publishing, republish, started>>
  BY DEF StageCacheKey, OpenEntries, FillCacheKey, WriteEntries, InPhase
<1>2. /\ c \in Attempt /\ c \notin Republisher
      /\ work[c] \in Work /\ work[c].candidate \in Revision
      /\ cached \in [Attempt -> CacheRow \cup {None}]
  BY <1>1, BenchmarkConstants
  DEF Attempt, TablesInv, PublicationTypeOK, WorkIsSound, SoundRecord
<1>3. cachePointer # c
  BY <1>1 DEF TablesInv, CyclesOwnResponses, InPhase
<1>4. CASE StageCacheKey(c, k)
  <2> DEFINE keys == IF cached[c] = None THEN [j \in Key |-> "none"] ELSE cached[c].keys
             row  == [of |-> work[c].candidate, stamp |-> work[c].stamp,
                      keys |-> [keys EXCEPT ![k] = "none"]]
  <2>1. cached' = [cached EXCEPT ![c] = row]
    BY <1>4 DEF StageCacheKey, OpenEntries
  <2>2. keys \in [Key -> EntryState]
    BY <1>2 DEF CacheRow, EntryState
  <2>3. [keys EXCEPT ![k] = "none"] \in [Key -> EntryState]
    BY <2>2 DEF EntryState
  <2>4. row \in CacheRow /\ row.stamp = work[c].stamp
    BY <1>2, <2>3 DEF CacheRow, Work
  <2> HIDE DEF row
  <2> QED
    BY <1>1, <1>2, <1>3, <2>1, <2>4, OneRowStep
<1>5. CASE \E amount \in EntryState : FillCacheKey(c, k, amount)
  <2>1. PICK amount \in EntryState : FillCacheKey(c, k, amount)
    BY <1>5
  <2> DEFINE row == [cached[c] EXCEPT !.keys[k] = amount]
  <2>2. cached[c] # None /\ cached' = [cached EXCEPT ![c] = row]
    BY <1>2, <2>1 DEF FillCacheKey, WriteEntries
  <2>3. row \in CacheRow /\ row.stamp = cached[c].stamp
    BY <1>2, <2>2, RowWithKey
  <2>4. cached[c].stamp = work[c].stamp
    BY <2>2 DEF TablesInv, CyclesOwnResponses
  <2> HIDE DEF row
  <2> QED
    BY <1>1, <1>2, <1>3, <2>2, <2>3, <2>4, OneRowStep
<1> QED
  BY <1>4, <1>5

\* A republication stages responses that nobody is given yet.
LEMMA RepublisherStagesPreserves ==
    ASSUME TablesInv, NEW p \in Republisher,
           RepublishOpens(p) \/ \E k \in Key, amount \in EntryState : RepublishFills(p, k, amount)
    PROVE  TablesInv'
<1>1. /\ Republishing(p)
      /\ UNCHANGED <<catalog, revisions, stored, pointer, cachePointer, weeks, receipts,
                     work, publishing, republish, started>>
  BY DEF RepublishOpens, RepublishFills, WriteEntries
<1>2. /\ p \in Attempt /\ p \notin Cycle
      /\ republish[p] \in Republication
      /\ cached \in [Attempt -> CacheRow \cup {None}]
  BY <1>1, BenchmarkConstants DEF Attempt, TablesInv, PublicationTypeOK, Republishing
<1>3. cachePointer # p /\ StartOfPublished(republish[p].checked)
  BY <1>1 DEF TablesInv, RepublishersOwnResponses, ChecksWerePublished, Republishing
<1>4. CASE RepublishOpens(p)
  <2> DEFINE row == [of |-> republish[p].of, stamp |-> republish[p].checked,
                     keys |-> [k \in Key |-> "none"]]
  <2>1. cached' = [cached EXCEPT ![p] = row]
    BY <1>4 DEF RepublishOpens
  <2>2. row \in CacheRow /\ row.stamp = republish[p].checked
    BY <1>2 DEF CacheRow, Republication, EntryState
  <2> HIDE DEF row
  <2> QED
    BY <1>1, <1>2, <1>3, <2>1, <2>2, OneRowStep
<1>5. CASE \E k \in Key, amount \in EntryState : RepublishFills(p, k, amount)
  <2>1. PICK k \in Key, amount \in EntryState : RepublishFills(p, k, amount)
    BY <1>5
  <2> DEFINE row == [cached[p] EXCEPT !.keys[k] = amount]
  <2>2. cached[p] # None /\ cached' = [cached EXCEPT ![p] = row]
    BY <1>2, <2>1 DEF RepublishFills, WriteEntries
  <2>3. row \in CacheRow /\ row.stamp = cached[p].stamp
    BY <1>2, <2>2, RowWithKey
  <2>4. StartOfPublished(cached[p].stamp)
    BY <2>2 DEF TablesInv, ChecksWerePublished
  <2> HIDE DEF row
  <2> QED
    BY <1>1, <1>2, <1>3, <2>2, <2>3, <2>4, OneRowStep
<1> QED
  BY <1>4, <1>5

\* republishCache reads the active revision, which a cycle has checked.
LEMMA RepublishReadsPreserves ==
    ASSUME TablesInv, NEW p \in Republisher, RepublishReads(p)
    PROVE  TablesInv'
<1> DEFINE row == [of |-> pointer, checked |-> revisions[pointer].checked, at |-> "staging"]
<1>1. /\ republish[p] = None /\ pointer # None
      /\ republish' = [republish EXCEPT ![p] = row]
      /\ UNCHANGED <<catalog, revisions, stored, cached, pointer, cachePointer, weeks,
                     receipts, work, publishing, started>>
  BY DEF RepublishReads
<1>2. /\ pointer \in Revision
      /\ revisions[pointer] \in RevisionRow /\ revisions[pointer] # None
      /\ revisions[pointer].state = "published"
  BY <1>1 DEF TablesInv, PublicationTypeOK, ReadersAgree
<1>3. row \in Republication /\ row.checked = revisions[pointer].checked
  BY <1>2 DEF Republication, RevisionRow
<1> HIDE DEF row
<1>4. /\ republish' \in [Republisher -> Republication \cup {None}]
      /\ republish'[p] = row
      /\ \A q \in Republisher \ {p} : republish'[q] = republish[q]
  BY <1>1, <1>3 DEF TablesInv, PublicationTypeOK
<1>5. StartOfPublished(row.checked)
  BY <1>2, <1>3 DEF TablesInv, ChecksWerePublished
<1>6. cachePointer # p
  BY <1>1 DEF TablesInv, RepublishersOwnResponses
<1>7. ReadersAgree' /\ ServedIsComplete'
  BY <1>1, ServedKept
<1>8. \A c \in Cycle : cached'[c] # None => work[c] # None /\ cached'[c].stamp = work[c].stamp
  BY <1>1 DEF TablesInv, CyclesOwnResponses
<1>9. \A q \in Republisher :
          /\ cached'[q] # None => StartOfPublished(cached'[q].stamp)
          /\ republish'[q] # None => StartOfPublished(republish'[q].checked)
          /\ cachePointer' = q => republish'[q] # None /\ republish'[q].at # "staging"
  BY <1>1, <1>4, <1>5, <1>6
  DEF TablesInv, ChecksWerePublished, RepublishersOwnResponses, Republishing
<1>10. ResponsesStep
  BY <1>1, <1>4, <1>7, <1>8, <1>9 DEF ResponsesStep, TablesInv, PublicationTypeOK
<1> QED
  BY <1>10, ResponsesStepPreserves

\* A republication that has sent its commit batch, or given up, goes on.
LEMMA RepublicationMoves ==
    ASSUME NEW row \in Republication, NEW at \in {"sent", "closed"}
    PROVE  LET new == [row EXCEPT !.at = at]
           IN  new \in Republication /\ new.checked = row.checked /\ new.at # "staging"
BY DEF Republication

\* The commit batch: responses are kept or deleted, and its own are served.
LEMMA RepublishCommitsPreserves ==
    ASSUME TablesInv, NEW p \in Republisher, RepublishCommits(p)
    PROVE  TablesInv'
<1>1. /\ Republishing(p) /\ CacheComplete(p) /\ PointersAllowed(revisions, pointer, p)
      /\ cachePointer' = p
      /\ UNCHANGED <<catalog, revisions, stored, pointer, weeks, receipts, work,
                     publishing, started>>
  BY DEF RepublishCommits
<1>2. /\ p \in Attempt /\ p \notin Cycle
      /\ republish[p] \in Republication /\ republish[p] # None
      /\ cached \in [Attempt -> CacheRow \cup {None}]
  BY <1>1, BenchmarkConstants DEF Attempt, TablesInv, PublicationTypeOK, Republishing
<1>3. PICK kept \in Retained(p) :
          cached' = [a \in Attempt |-> IF a \in kept THEN cached[a] ELSE None]
  BY DEF RepublishCommits
<1>4. p \in kept
  BY <1>3 DEF Retained
<1>5. /\ cached' \in [Attempt -> CacheRow \cup {None}]
      /\ cached'[p] = cached[p]
      /\ \A a \in Attempt : cached'[a] # None => cached'[a] = cached[a]
  BY <1>2, <1>3, <1>4
<1>6. PICK at \in {"sent", "closed"} : republish' = [republish EXCEPT ![p].at = at]
  BY DEF RepublishCommits
<1> DEFINE row == [republish[p] EXCEPT !.at = at]
<1>7. row \in Republication /\ row.checked = republish[p].checked /\ row.at # "staging"
  BY <1>2, RepublicationMoves
<1>8. republish' = [republish EXCEPT ![p] = row]
  BY <1>2, <1>6 DEF TablesInv, PublicationTypeOK
<1> HIDE DEF row
<1>9. /\ republish' \in [Republisher -> Republication \cup {None}]
      /\ republish'[p] = row /\ row # None
      /\ \A q \in Republisher \ {p} : republish'[q] = republish[q]
  BY <1>7, <1>8, BenchmarkNone DEF TablesInv, PublicationTypeOK
<1>10. cached[p] # None /\ cached[p].of = pointer /\ cached[p] \in CacheRow
  BY <1>1, <1>2 DEF PointersAllowed
<1>11. pointer \in Revision /\ p # None
  BY <1>2, <1>10, BenchmarkNone DEF CacheRow
<1>12. ReadersAgree' /\ ServedIsComplete'
  BY <1>1, <1>5, <1>10, <1>11, BenchmarkNone
  DEF TablesInv, ReadersAgree, ServedIsComplete, CacheComplete
<1>13. \A c \in Cycle :
          /\ cached'[c] # None => work[c] # None /\ cached'[c].stamp = work[c].stamp
          /\ cached'[c] # None => cached'[c] = cached[c]
          /\ cachePointer' # c
  BY <1>1, <1>2, <1>5 DEF TablesInv, CyclesOwnResponses, Attempt
<1>14. \A q \in Republisher :
          /\ cached'[q] # None => StartOfPublished(cached'[q].stamp)
          /\ republish'[q] # None => StartOfPublished(republish'[q].checked)
          /\ cachePointer' = q => republish'[q] # None /\ republish'[q].at # "staging"
  BY <1>1, <1>2, <1>5, <1>7, <1>9 DEF TablesInv, ChecksWerePublished, Attempt
<1>15. ResponsesStep
  BY <1>1, <1>2, <1>5, <1>9, <1>12, <1>13, <1>14 DEF ResponsesStep
<1> QED
  BY <1>15, ResponsesStepPreserves

\* The best-effort cleanup deletes responses that are not served.
LEMMA RepublishFailsPreserves ==
    ASSUME TablesInv, NEW p \in Republisher, RepublishFails(p)
    PROVE  TablesInv'
<1> DEFINE row == [republish[p] EXCEPT !.at = "closed"]
<1>1. /\ republish[p] # None
      /\ republish' = [republish EXCEPT ![p].at = "closed"]
      /\ cached' = cached \/ cached' = CleanedUp(p)
      /\ UNCHANGED <<catalog, revisions, stored, pointer, cachePointer, weeks, receipts,
                     work, publishing, started>>
  BY DEF RepublishFails
<1>2. /\ p \in Attempt /\ p \notin Cycle
      /\ republish[p] \in Republication
      /\ cached \in [Attempt -> CacheRow \cup {None}]
  BY <1>1, BenchmarkConstants DEF Attempt, TablesInv, PublicationTypeOK
<1>3. /\ cached' \in [Attempt -> CacheRow \cup {None}]
      /\ \A a \in Attempt : cached'[a] # None => cached'[a] = cached[a]
      /\ cachePointer # None => cached'[cachePointer] = cached[cachePointer]
  BY <1>1, <1>2 DEF CleanedUp, TablesInv, PublicationTypeOK
<1>4. row \in Republication /\ row.checked = republish[p].checked /\ row.at # "staging"
  BY <1>2, RepublicationMoves
<1>5. republish' = [republish EXCEPT ![p] = row]
  BY <1>1, <1>2 DEF TablesInv, PublicationTypeOK
<1> HIDE DEF row
<1>6. /\ republish' \in [Republisher -> Republication \cup {None}]
      /\ republish'[p] = row /\ row # None
      /\ \A q \in Republisher \ {p} : republish'[q] = republish[q]
  BY <1>4, <1>5, BenchmarkNone DEF TablesInv, PublicationTypeOK
<1>7. ReadersAgree' /\ ServedIsComplete'
  BY <1>1, <1>3, ServedKept
<1>8. \A c \in Cycle :
          /\ cached'[c] # None => work[c] # None /\ cached'[c].stamp = work[c].stamp
          /\ cached'[c] # None => cached'[c] = cached[c]
  BY <1>3 DEF TablesInv, CyclesOwnResponses, Attempt
<1>9. \A q \in Republisher :
          /\ cached'[q] # None => StartOfPublished(cached'[q].stamp)
          /\ republish'[q] # None => StartOfPublished(republish'[q].checked)
          /\ cachePointer' = q => republish'[q] # None /\ republish'[q].at # "staging"
  BY <1>1, <1>3, <1>4, <1>6
  DEF TablesInv, ChecksWerePublished, RepublishersOwnResponses, Republishing, Attempt
<1>10. ResponsesStep
  BY <1>1, <1>3, <1>6, <1>7, <1>8, <1>9 DEF ResponsesStep, TablesInv, PublicationTypeOK
<1> QED
  BY <1>10, ResponsesStepPreserves
-----------------------------------------------------------------------------
\* publishBenchmarkCandidate reads, or ends without its batch.
LEMMA PublishReadsOrEndsPreserves ==
    ASSUME TablesInv, PublishEnds \/ \E c \in Cycle : PublishReads(c)
    PROVE  TablesInv'
<1>1. UNCHANGED <<catalog, revisions, stored, cached, pointer, cachePointer, weeks,
                  receipts, work, republish, started>>
  BY DEF PublishEnds, PublishReads
<1>2. publishing' \in Publishing \cup {None} /\ BatchIsCurrent'
  <2>1. CASE PublishEnds
    BY <2>1 DEF PublishEnds, BatchIsCurrent
  <2>2. ASSUME NEW c \in Cycle, PublishReads(c)
        PROVE  publishing' \in Publishing /\ BatchIsCurrent'
    <3> DEFINE seen == [cycle |-> c, unchanged |-> pointer = work[c].candidate,
                        week |-> weeks[work[c].week]]
    <3>1. publishing' = seen /\ work[c] # None /\ work[c].phase = "publish"
      BY <2>2 DEF PublishReads, InPhase
    <3>2. work[c] \in Work
      BY <3>1 DEF TablesInv, PublicationTypeOK
    <3>3. weeks[work[c].week] \in Nat \cup {None}
      BY <3>2 DEF TablesInv, PublicationTypeOK, Work
    <3>4. seen \in Publishing
      BY <3>3 DEF Publishing
    <3>5. /\ seen.cycle = c
          /\ seen.unchanged <=> pointer = work[c].candidate
          /\ seen.week = weeks[work[c].week]
      OBVIOUS
    <3> HIDE DEF seen
    <3>6. BatchIsCurrent'
      BY <1>1, <3>1, <3>5 DEF BatchIsCurrent, InPhase
    <3> QED
      BY <3>1, <3>4, <3>6
  <2> QED
    BY <2>1, <2>2 DEF PublishEnds
<1>3. PublicationTypeOK'
  BY <1>1, <1>2 DEF TablesInv, PublicationTypeOK
<1>4. /\ ReadersAgree' /\ OnePublished' /\ StartsAreDistinct' /\ PendingIsOwners'
      /\ ActiveIsStored'
  BY <1>1 DEF TablesInv, ReadersAgree, OnePublished, StartsAreDistinct, PendingIsOwners,
              ActiveIsStored
<1>5. /\ WorkIsSound' /\ CyclesOwnResponses' /\ RepublishersOwnResponses'
      /\ ServedIsComplete'
  BY <1>1 DEF TablesInv, WorkIsSound, SoundRecord, CyclesOwnResponses, InPhase,
              RepublishersOwnResponses, Republishing, ServedIsComplete, CacheComplete
<1>6. ChecksWerePublished'
  BY <1>1 DEF TablesInv, ChecksWerePublished, StartOfPublished, InPhase
<1> QED
  BY <1>2, <1>3, <1>4, <1>5, <1>6 DEF TablesInv

\* The batch of cycle c gives the active revision its own responses.
Refreshes(c) ==
    /\ pointer = work[c].candidate
    /\ pointer' = pointer
    /\ revisions' = [revisions EXCEPT ![pointer].checked = work[c].stamp]

\* The batch of cycle c replaces the active revision by the one it owns.
Replaces(c) ==
    LET r == work[c].candidate
    IN  /\ Owned(c)
        /\ pointer # r
        /\ pointer' = r
        /\ revisions' = [q \in Revision |->
                           IF q = r THEN [revisions[q] EXCEPT !.state = "published"]
                           ELSE IF q = pointer THEN [revisions[q] EXCEPT !.state = "superseded"]
                           ELSE revisions[q]]

(* The conditional statements of the batch and the triggers of migration   *)
(* 0006 leave two outcomes: the batch refreshes, or it replaces.           *)
LEMMA BatchEffect ==
    ASSUME TablesInv, NEW c \in Cycle, PublishBatch(c)
    PROVE  /\ InPhase(c, "publish")
           /\ work[c] \in Work /\ work[c].candidate \in Revision
           /\ cached[c] # None /\ cached[c].of = pointer'
           /\ Refreshes(c) \/ Replaces(c)
<1> DEFINE r == work[c].candidate
<1>1. /\ publishing # None /\ publishing.cycle = c
      /\ PointersAllowed(StatesAfter(c, publishing.unchanged), PointerAfter, c)
      /\ revisions' = StatesAfter(c, publishing.unchanged)
      /\ pointer' = PointerAfter
  BY DEF PublishBatch, BatchAllowed
<1>2. InPhase(c, "publish") /\ (publishing.unchanged <=> pointer = r)
  BY <1>1 DEF TablesInv, BatchIsCurrent
<1>3. work[c] \in Work /\ r \in Revision
  BY <1>2 DEF TablesInv, PublicationTypeOK, WorkIsSound, SoundRecord, InPhase
<1>4. cached[c] # None /\ cached[c].of = pointer'
  BY <1>1 DEF PointersAllowed
<1>5. CASE publishing.unchanged
  <2>1. Refreshes(c)
    BY <1>1, <1>2, <1>5 DEF PointerAfter, StatesAfter, Refreshes
  <2> QED
    BY <1>2, <1>3, <1>4, <2>1
<1>6. CASE ~ publishing.unchanged
  <2> DEFINE After(q) == [revisions[q] EXCEPT !.state =
                             IF @ = "published" THEN "superseded"
                             ELSE IF q = r /\ Owned(c) THEN "published" ELSE @]
  <2>1. pointer' = r /\ pointer # r
    BY <1>1, <1>2, <1>6 DEF PointerAfter
  <2>2. revisions' = [q \in Revision |-> IF revisions[q] = None THEN None ELSE After(q)]
    BY <1>1, <1>6 DEF StatesAfter
  <2>3. revisions \in [Revision -> RevisionRow \cup {None}]
    BY DEF TablesInv, PublicationTypeOK
  <2>4. \A q \in Revision :
           revisions[q] # None => (revisions[q].state = "published" <=> q = pointer)
    BY DEF TablesInv, OnePublished
  <2>5. revisions'[r] # None /\ revisions'[r].state = "published"
    BY <1>1, <2>1 DEF PointersAllowed
  <2>6. revisions[r] # None /\ revisions[r].state # "published"
    BY <1>3, <2>1, <2>2, <2>4, <2>5
  <2>7. Owned(c)
    <3>1. revisions'[r] = After(r)
      BY <1>3, <2>2, <2>6
    <3>2. revisions[r] \in RevisionRow
      BY <1>3, <2>3, <2>6
    <3> QED
      BY <2>5, <2>6, <3>1, <3>2 DEF RevisionRow
  <2>8. pointer # None => revisions[pointer] # None
    BY DEF TablesInv, ReadersAgree
  <2>9. \A q \in Revision :
           (IF revisions[q] = None THEN None ELSE After(q)) =
           (IF q = r THEN [revisions[q] EXCEPT !.state = "published"]
            ELSE IF q = pointer THEN [revisions[q] EXCEPT !.state = "superseded"]
            ELSE revisions[q])
    <3> SUFFICES ASSUME NEW q \in Revision
                 PROVE (IF revisions[q] = None THEN None ELSE After(q)) =
                       (IF q = r THEN [revisions[q] EXCEPT !.state = "published"]
                        ELSE IF q = pointer THEN [revisions[q] EXCEPT !.state = "superseded"]
                        ELSE revisions[q])
      OBVIOUS
    <3>1. CASE revisions[q] = None
      BY <2>6, <2>8, <3>1, BenchmarkNone
    <3>2. CASE q = r
      BY <2>6, <2>7, <3>2
    <3>3. CASE revisions[q] # None /\ q = pointer
      BY <2>1, <2>4, <3>3
    <3>4. CASE revisions[q] # None /\ q # pointer /\ q # r
      <4>1. revisions[q] \in RevisionRow /\ revisions[q].state # "published"
        BY <2>3, <2>4, <3>4
      <4>2. [revisions[q] EXCEPT !.state = @] = revisions[q]
        BY <4>1 DEF RevisionRow
      <4> QED
        BY <3>4, <4>1, <4>2
    <3> QED
      BY <3>1, <3>2, <3>3, <3>4
  <2> QED
    BY <1>2, <1>3, <1>4, <2>1, <2>2, <2>7, <2>9 DEF Replaces
<1> QED
  BY <1>2, <1>3, <1>4, <1>5, <1>6

\* What a batch of either kind does to the rows of the revisions.
LEMMA RowsAfterBatch ==
    ASSUME TablesInv, NEW c \in Cycle, InPhase(c, "publish"),
           work[c] \in Work, work[c].candidate \in Revision,
           Refreshes(c) \/ Replaces(c)
    PROVE  /\ revisions' \in [Revision -> RevisionRow \cup {None}]
           /\ pointer' = work[c].candidate
           /\ \A q \in Revision :
                 /\ revisions'[q] # None <=> revisions[q] # None
                 /\ revisions'[q] # None =>
                       /\ revisions'[q].owner = revisions[q].owner
                       /\ \/ revisions'[q].checked = revisions[q].checked
                          \/ q = pointer' /\ revisions'[q].checked = work[c].stamp
                       /\ revisions'[q].state = "published" <=> q = pointer'
                       /\ revisions'[q].state = "pending" =>
                             revisions[q].state = "pending"
           /\ revisions'[pointer'] # None /\ revisions'[pointer'].checked = work[c].stamp
<1> DEFINE r == work[c].candidate
<1>1. revisions \in [Revision -> RevisionRow \cup {None}] /\ work[c].stamp \in Nat
  BY DEF TablesInv, PublicationTypeOK, Work
<1>2. ASSUME NEW row \in RevisionRow, NEW stamp \in Nat
      PROVE  LET new == [row EXCEPT !.checked = stamp]
             IN  /\ new \in RevisionRow /\ new # None
                 /\ new.checked = stamp /\ new.owner = row.owner /\ new.state = row.state
  BY BenchmarkNone DEF RevisionRow
<1>3. ASSUME NEW row \in RevisionRow, NEW state \in {"published", "superseded"}
      PROVE  LET new == [row EXCEPT !.state = state]
             IN  /\ new \in RevisionRow /\ new # None
                 /\ new.checked = row.checked /\ new.owner = row.owner /\ new.state = state
  BY BenchmarkNone DEF RevisionRow
<1>4. CASE Refreshes(c)
  <2> DEFINE new == [revisions[r] EXCEPT !.checked = work[c].stamp]
  <2>1. pointer = r /\ pointer' = r /\ revisions[r] # None /\ revisions[r].state = "published"
    BY <1>4, BenchmarkNone DEF Refreshes, TablesInv, ReadersAgree
  <2>2. revisions' = [revisions EXCEPT ![r] = new]
    BY <1>4, <1>1 DEF Refreshes
  <2>3. /\ new \in RevisionRow /\ new # None /\ new.checked = work[c].stamp
        /\ new.owner = revisions[r].owner /\ new.state = "published"
    BY <1>1, <1>2, <2>1
  <2> HIDE DEF new
  <2>4. /\ revisions' \in [Revision -> RevisionRow \cup {None}]
        /\ revisions'[r] = new
        /\ \A q \in Revision \ {r} : revisions'[q] = revisions[q]
    BY <1>1, <2>2, <2>3
  <2>5. \A q \in Revision \ {r} : revisions[q] # None => revisions[q].state # "published"
    BY <2>1 DEF TablesInv, OnePublished
  <2> QED
    BY <2>1, <2>3, <2>4, <2>5
<1>5. CASE Replaces(c)
  <2> DEFINE new == [revisions[r] EXCEPT !.state = "published"]
             old == [revisions[pointer] EXCEPT !.state = "superseded"]
  <2>1. /\ pointer # r /\ pointer' = r
        /\ revisions[r] # None /\ revisions[r].state = "pending" /\ revisions[r].owner = c
    BY <1>5 DEF Replaces, Owned
  <2>2. revisions[r].checked = work[c].stamp
    BY <2>1 DEF TablesInv, PendingIsOwners
  <2>3. /\ new \in RevisionRow /\ new # None /\ new.checked = work[c].stamp
        /\ new.owner = revisions[r].owner /\ new.state = "published"
    BY <1>1, <1>3, <2>1, <2>2
  <2>4. pointer # None => revisions[pointer] # None /\ pointer \in Revision
    BY DEF TablesInv, ReadersAgree, PublicationTypeOK
  <2>5. pointer # None =>
          /\ old \in RevisionRow /\ old # None /\ old.checked = revisions[pointer].checked
          /\ old.owner = revisions[pointer].owner /\ old.state = "superseded"
    BY <1>1, <1>3, <2>4
  <2>6. revisions' = [q \in Revision |-> IF q = r THEN new
                                         ELSE IF q = pointer THEN old ELSE revisions[q]]
    BY <1>5 DEF Replaces
  <2> HIDE DEF new, old
  <2>7. /\ revisions' \in [Revision -> RevisionRow \cup {None}]
        /\ revisions'[r] = new
        /\ \A q \in Revision \ {r} : q = pointer => revisions'[q] = old
        /\ \A q \in Revision \ {r} : q # pointer => revisions'[q] = revisions[q]
    BY <1>1, <2>3, <2>4, <2>5, <2>6, BenchmarkNone
  <2>8. \A q \in Revision : revisions[q] # None /\ q # pointer => revisions[q].state # "published"
    BY DEF TablesInv, OnePublished
  <2> QED
    BY <2>1, <2>3, <2>4, <2>5, <2>7, <2>8, BenchmarkNone
<1> QED
  BY <1>4, <1>5

\* publishBenchmarkCandidate's batch.
LEMMA PublishBatchPreserves ==
    ASSUME TablesInv, NEW c \in Cycle, PublishBatch(c)
    PROVE  TablesInv'
<1> DEFINE r == work[c].candidate
<1>1. /\ weeks' = [weeks EXCEPT ![work[c].week] = WeekAfter(c, publishing.week)]
      /\ cachePointer' = c
      /\ receipts' = receipts \cup {c}
      /\ publishing' = None
      /\ UNCHANGED <<catalog, stored, cached, work, republish, started>>
  BY DEF PublishBatch
<1>2. /\ InPhase(c, "publish")
      /\ work[c] \in Work /\ r \in Revision
      /\ cached[c] # None /\ cached[c].of = pointer'
      /\ Refreshes(c) \/ Replaces(c)
  BY BatchEffect
<1>3. /\ revisions' \in [Revision -> RevisionRow \cup {None}]
      /\ pointer' = r
      /\ \A q \in Revision :
            /\ revisions'[q] # None <=> revisions[q] # None
            /\ revisions'[q] # None =>
                  /\ revisions'[q].owner = revisions[q].owner
                  /\ \/ revisions'[q].checked = revisions[q].checked
                     \/ q = r /\ revisions'[q].checked = work[c].stamp
                  /\ revisions'[q].state = "published" <=> q = r
                  /\ revisions'[q].state = "pending" => revisions[q].state = "pending"
      /\ revisions'[r] # None /\ revisions'[r].checked = work[c].stamp
  BY <1>2, RowsAfterBatch
<1>4. SoundRecord(c, work[c]) /\ work[c] # None /\ work[c].phase = "publish"
  BY <1>2 DEF InPhase, TablesInv, WorkIsSound
<1>5. c \in Attempt /\ c \notin Republisher /\ c # None /\ r # None
  BY <1>2, BenchmarkConstants, BenchmarkNone DEF Attempt
<1>6. WeekAfter(c, publishing.week) \in Nat \cup {None}
  <2>1. r[2] \in Content /\ work[c].week \in Week
    BY <1>2 DEF Revision, Work
  <2> QED
    BY <2>1, BenchmarkConstants DEF WeekAfter, TablesInv, PublicationTypeOK
<1>7. PublicationTypeOK'
  BY <1>1, <1>2, <1>3, <1>5, <1>6 DEF TablesInv, PublicationTypeOK
<1>8. ReadersAgree'
  BY <1>1, <1>2, <1>3, <1>5 DEF ReadersAgree
<1>9. OnePublished'
  <2>1. \A q \in Revision : revisions'[q] # None \/ q # r
    BY <1>3
  <2> QED
    BY <1>3, <2>1 DEF OnePublished
<1>10. ActiveIsStored' /\ ServedIsComplete'
  BY <1>1, <1>2, <1>3, <1>4 DEF ActiveIsStored, ServedIsComplete, SoundRecord, CacheComplete
<1>11. WorkIsSound' /\ StartsAreDistinct'
  BY <1>1 DEF TablesInv, WorkIsSound, SoundRecord, StartsAreDistinct, CacheComplete
<1>12. PendingIsOwners'
  <2> SUFFICES ASSUME NEW q \in Revision, revisions'[q] # None, revisions'[q].state = "pending"
               PROVE  /\ work[revisions'[q].owner] # None
                      /\ revisions'[q].checked = work[revisions'[q].owner].stamp
    BY <1>1 DEF PendingIsOwners
  <2>1. q # r /\ revisions[q] # None /\ revisions[q].state = "pending"
    BY <1>3
  <2> QED
    BY <1>3, <2>1 DEF TablesInv, PendingIsOwners
<1>13. CyclesOwnResponses' /\ RepublishersOwnResponses'
  BY <1>1, <1>2, <1>5
  DEF TablesInv, CyclesOwnResponses, RepublishersOwnResponses, InPhase
<1>14. BatchIsCurrent'
  BY <1>1 DEF BatchIsCurrent
<1>15. ChecksWerePublished'
  <2> DEFINE Start(s) == \E d \in receipts \cup {c} : InPhase(d, "publish") /\ work[d].stamp = s
  <2>1. \A s : StartOfPublished(s) => Start(s)
    BY DEF StartOfPublished
  <2>2. Start(work[c].stamp)
    BY <1>2
  <2>3. \A d \in receipts \cup {c} : InPhase(d, "publish")
    BY <1>2 DEF TablesInv, ChecksWerePublished
  <2> HIDE DEF Start
  <2>4. ASSUME NEW q \in Revision, revisions'[q] # None, revisions'[q].state # "pending"
        PROVE  Start(revisions'[q].checked)
    <3>1. CASE q = r
      BY <1>3, <2>2, <3>1
    <3>2. CASE q # r
      <4>1. revisions'[q].checked = revisions[q].checked /\ revisions[q] # None
        BY <1>3, <2>4, <3>2
      <4>2. revisions[q].state # "pending"
        <5>1. CASE Refreshes(c)
          BY <1>2, <2>4, <3>2, <5>1 DEF Refreshes, TablesInv, PublicationTypeOK
        <5>2. CASE Replaces(c) /\ q # pointer
          BY <1>2, <2>4, <3>2, <5>2 DEF Replaces
        <5>3. CASE q = pointer
          BY <5>3, BenchmarkNone DEF TablesInv, ReadersAgree
        <5> QED
          BY <1>2, <5>1, <5>2, <5>3
      <4> QED
        BY <2>1, <4>1, <4>2 DEF TablesInv, ChecksWerePublished
    <3> QED
      BY <3>1, <3>2
  <2>5. ASSUME NEW p \in Republisher
        PROVE  /\ republish[p] # None => Start(republish[p].checked)
               /\ cached[p] # None => Start(cached[p].stamp)
    BY <2>1 DEF TablesInv, ChecksWerePublished
  <2> QED
    BY <1>1, <2>3, <2>4, <2>5 DEF ChecksWerePublished, StartOfPublished, Start, InPhase
<1> QED
  BY <1>7, <1>8, <1>9, <1>10, <1>11, <1>12, <1>13, <1>14, <1>15 DEF TablesInv
-----------------------------------------------------------------------------
LEMMA TablesStep == TablesInv /\ [PublicationNext]_publicationVars => TablesInv'
<1> SUFFICES ASSUME TablesInv, [PublicationNext]_publicationVars
             PROVE  TablesInv'
  OBVIOUS
<1>1. ASSUME NEW c \in Cycle, CycleStep(c)
      PROVE  TablesInv'
  <2>1. CASE \E week \in Week : Freeze(c, week)
    BY <2>1, FreezePreserves
  <2>2. CASE \E content \in Content : Derive(c, content)
    BY <2>2, DerivePreserves
  <2>3. CASE EnsurePending(c)
    BY <2>3, EnsurePendingPreserves
  <2>4. CASE (\E part \in Fact : StageFact(c, part)) \/ (\E part \in Profile : StageProfile(c, part))
    BY <2>4, StorePartitionPreserves DEF AllParts
  <2>5. CASE FactsStaged(c) \/ ProfilesStaged(c) \/ CacheStaged(c) \/ ValidateCandidate(c)
    BY <2>5, EndOfPhasePreserves
  <2>6. CASE \E k \in Key :
               StageCacheKey(c, k) \/ \E amount \in EntryState : FillCacheKey(c, k, amount)
    BY <2>6, CycleStagesPreserves
  <2>7. CASE PublishReads(c)
    BY <2>7, PublishReadsOrEndsPreserves
  <2>8. CASE PublishBatch(c)
    BY <2>8, PublishBatchPreserves
  <2> QED
    BY <1>1, <2>1, <2>2, <2>3, <2>4, <2>5, <2>6, <2>7, <2>8 DEF CycleStep
<1>2. ASSUME NEW p \in Republisher, RepublishStep(p)
      PROVE  TablesInv'
  BY <1>2, RepublishReadsPreserves, RepublisherStagesPreserves, RepublishCommitsPreserves,
     RepublishFailsPreserves DEF RepublishStep
<1>3. CASE UNCHANGED publicationVars
  <2>1. UNCHANGED <<catalog, revisions, stored, cached, pointer, cachePointer, weeks,
                    receipts, work, publishing, republish, started>>
    BY <1>3 DEF publicationVars
  <2>2. /\ PublicationTypeOK' /\ ReadersAgree' /\ OnePublished' /\ StartsAreDistinct'
        /\ PendingIsOwners' /\ ActiveIsStored'
    BY <2>1 DEF TablesInv, PublicationTypeOK, ReadersAgree, OnePublished,
                StartsAreDistinct, PendingIsOwners, ActiveIsStored
  <2>3. /\ WorkIsSound' /\ CyclesOwnResponses' /\ RepublishersOwnResponses'
        /\ ServedIsComplete' /\ BatchIsCurrent'
    BY <2>1 DEF TablesInv, WorkIsSound, SoundRecord, CyclesOwnResponses, InPhase,
                RepublishersOwnResponses, Republishing, ServedIsComplete, CacheComplete,
                BatchIsCurrent
  <2>4. ChecksWerePublished'
    BY <2>1 DEF TablesInv, ChecksWerePublished, StartOfPublished, InPhase
  <2> QED
    BY <2>2, <2>3, <2>4 DEF TablesInv
<1> QED
  BY <1>1, <1>2, <1>3, CatalogPublishesPreserves, PublishReadsOrEndsPreserves
  DEF PublicationNext

(* The invariant holds in every reachable state.                           *)
THEOREM TablesInvariance == PublicationSpec => []TablesInv
BY InitTablesInv, TablesStep, PTL DEF PublicationSpec

(* Whoever published last, cycle or republication, readers of the tables   *)
(* and readers of the response sets are given the one published revision.  *)
THEOREM OneViewAlwaysServed == PublicationSpec => []OneViewIsServed
<1>1. TablesInv => OneViewIsServed
  BY DEF TablesInv, OneViewIsServed
<1> QED
  BY <1>1, TablesInvariance, PTL

(* Every part of the active revision is stored and every response that is  *)
(* served is whole, though the final batch checks neither.                 *)
THEOREM PublishedAlwaysComplete == PublicationSpec => []PublishedIsComplete
<1>1. TablesInv => PublishedIsComplete
  BY DEF TablesInv, ActiveIsStored, ServedIsComplete, AllParts, PublishedIsComplete
<1> QED
  BY <1>1, TablesInvariance, PTL
-----------------------------------------------------------------------------
\* A published week changes only in a batch.
LEMMA WeeksChangeInBatches ==
    ASSUME PublicationNext, weeks' # weeks
    PROVE  \E c \in Cycle : PublishBatch(c)
BY DEF PublicationNext, CatalogPublishes, CycleStep, Freeze, Derive, EnsurePending, StageFact,
       StageProfile, StorePartition, FactsStaged, ProfilesStaged, CacheStaged,
       ValidateCandidate, Advance, StageCacheKey, OpenEntries, FillCacheKey, WriteEntries,
       PublishReads, PublishEnds, RepublishStep, RepublishReads, RepublishOpens,
       RepublishFills, RepublishCommits, RepublishFails

(* A published week never loses ranks, although its rank count is read     *)
(* before the batch that replaces it: no other batch comes in between.     *)
THEOREM WeeksOnlyGrow == PublicationSpec => WeekOnlyGrows
<1> DEFINE Grows == \A w \in Week :
         weeks[w] # None /\ weeks'[w] # weeks[w] => weeks'[w] # None /\ weeks'[w] > weeks[w]
<1>1. TablesInv /\ [PublicationNext]_publicationVars => [Grows]_publicationVars
  <2> SUFFICES ASSUME TablesInv, PublicationNext,
                      NEW w \in Week, weeks[w] # None, weeks'[w] # weeks[w]
               PROVE  weeks'[w] # None /\ weeks'[w] > weeks[w]
    BY DEF publicationVars
  <2>1. PICK c \in Cycle : PublishBatch(c)
    BY WeeksChangeInBatches
  <2> DEFINE ranks == Ranks[work[c].candidate[2]]
  <2>2. /\ publishing # None /\ publishing.cycle = c
        /\ weeks' = [weeks EXCEPT ![work[c].week] = WeekAfter(c, publishing.week)]
    BY <2>1 DEF PublishBatch
  <2>3. /\ work[c] \in Work /\ work[c].candidate \in Revision
    BY <2>1, BatchEffect
  <2>4. publishing.week = weeks[work[c].week]
    BY <2>2 DEF TablesInv, BatchIsCurrent
  <2>5. ranks \in Nat /\ work[c].week \in Week
    BY <2>3, BenchmarkConstants DEF Revision, Work
  <2>6. w = work[c].week /\ weeks'[w] = WeekAfter(c, publishing.week)
    BY <2>2, <2>5 DEF TablesInv, PublicationTypeOK
  <2>7. weeks[w] < ranks /\ weeks'[w] = ranks
    BY <2>4, <2>6 DEF WeekAfter
  <2>8. weeks[w] \in Nat
    BY DEF TablesInv, PublicationTypeOK
  <2> QED
    BY <2>5, <2>7, <2>8, BenchmarkNone
<1> QED
  BY <1>1, TablesInvariance, PTL DEF PublicationSpec, WeekOnlyGrows

\* Responses are deleted by republications only.
LEMMA ResponsesDeletedByRepublications ==
    ASSUME TablesInv, PublicationNext,
           NEW c \in Cycle, cached[c] # None, cached'[c] = None
    PROVE  \E p \in Republisher : RepublishCommits(p) \/ RepublishFails(p)
<1>1. cached \in [Attempt -> CacheRow \cup {None}] /\ c \in Attempt /\ cached[c] \in CacheRow
  BY DEF TablesInv, PublicationTypeOK, Attempt
<1>2. ASSUME NEW d \in Attempt, NEW k \in Key, NEW r, NEW stamp, OpenEntries(d, r, stamp, k),
             r \in Revision, stamp \in Nat
      PROVE  FALSE
  <2> DEFINE keys == IF cached[d] = None THEN [j \in Key |-> "none"] ELSE cached[d].keys
             row  == [of |-> r, stamp |-> stamp, keys |-> [keys EXCEPT ![k] = "none"]]
  <2>1. cached' = [cached EXCEPT ![d] = row]
    BY <1>2 DEF OpenEntries
  <2>2. keys \in [Key -> EntryState]
    BY <1>1 DEF CacheRow, EntryState
  <2>3. [keys EXCEPT ![k] = "none"] \in [Key -> EntryState]
    BY <2>2 DEF EntryState
  <2>4. row \in CacheRow
    BY <1>2, <2>3 DEF CacheRow
  <2> HIDE DEF row
  <2> QED
    BY <1>1, <2>1, <2>4, BenchmarkNone
<1>3. ASSUME NEW d \in Attempt, NEW k \in Key, NEW amount \in EntryState, WriteEntries(d, k, amount)
      PROVE  FALSE
  <2> DEFINE row == [cached[d] EXCEPT !.keys[k] = amount]
  <2>1. cached[d] # None /\ cached' = [cached EXCEPT ![d] = row]
    BY <1>1, <1>3 DEF WriteEntries
  <2>2. row \in CacheRow
    BY <1>1, <2>1, RowWithKey
  <2> HIDE DEF row
  <2> QED
    BY <1>1, <2>1, <2>2, BenchmarkNone
<1>4. ASSUME NEW d \in Cycle, NEW k \in Key, StageCacheKey(d, k)
      PROVE  FALSE
  <2>1. work[d] # None /\ work[d].phase = "stage-cache"
    BY <1>4 DEF StageCacheKey, InPhase
  <2>2. work[d] \in Work /\ work[d].candidate \in Revision
    BY <2>1 DEF TablesInv, PublicationTypeOK, WorkIsSound, SoundRecord
  <2>3. work[d].stamp \in Nat /\ d \in Attempt
    BY <2>2 DEF Work, Attempt
  <2> QED
    BY <1>2, <1>4, <2>2, <2>3 DEF StageCacheKey
<1>5. ASSUME NEW p \in Republisher, RepublishOpens(p)
      PROVE  FALSE
  <2>1. c # p
    BY BenchmarkConstants
  <2> QED
    BY <1>1, <1>5, <2>1 DEF RepublishOpens
<1>6. ASSUME NEW d \in Cycle, NEW k \in Key, NEW amount \in EntryState, FillCacheKey(d, k, amount)
      PROVE  FALSE
  BY <1>3, <1>6 DEF FillCacheKey, Attempt
<1>7. ASSUME NEW p \in Republisher, NEW k \in Key, NEW amount \in EntryState,
             RepublishFills(p, k, amount)
      PROVE  FALSE
  BY <1>3, <1>7 DEF RepublishFills, Attempt
<1>8. cached' # cached
  OBVIOUS
<1> QED
  BY <1>4, <1>5, <1>6, <1>7, <1>8
  DEF PublicationNext, CatalogPublishes, CycleStep, Freeze, Derive, EnsurePending, StageFact,
      StageProfile, StorePartition, FactsStaged, ProfilesStaged, CacheStaged,
      ValidateCandidate, Advance, PublishReads, PublishBatch, PublishEnds, RepublishStep,
      RepublishReads

(* The retention pass of a republication never takes the responses that    *)
(* the newest cycle has staged: they carry a later start than any other.   *)
THEOREM CandidateCacheAlwaysSurvives == PublicationSpec => CandidateCacheSurvives
<1> DEFINE Survives == \A c \in Cycle :
         /\ cached[c] # None
         /\ work[c].stamp = started
         /\ c \notin receipts
         => cached'[c] # None
<1>1. TablesInv /\ [PublicationNext]_publicationVars => [Survives]_publicationVars
  <2> SUFFICES ASSUME TablesInv, PublicationNext, NEW c \in Cycle, cached[c] # None,
                      work[c].stamp = started, c \notin receipts, cached'[c] = None
               PROVE  FALSE
    BY DEF publicationVars
  <2>1. PICK p \in Republisher : RepublishCommits(p) \/ RepublishFails(p)
    BY ResponsesDeletedByRepublications
  <2>2. /\ c \in Attempt /\ p \in Attempt /\ c # p
        /\ cached \in [Attempt -> CacheRow \cup {None}]
        /\ work[c] # None /\ cached[c].stamp = started /\ started \in Nat
    BY BenchmarkConstants
    DEF Attempt, TablesInv, PublicationTypeOK, CyclesOwnResponses
  <2>3. \A d \in Cycle : work[d] # None =>
            work[d].stamp \in Nat /\ work[d].stamp <= started /\ (work[d].stamp = started => d = c)
    BY <2>2 DEF TablesInv, PublicationTypeOK, StartsAreDistinct, Work
  <2>4. \A a \in Attempt \ {c} : cached[a] # None => cached[a].stamp \in Nat /\ cached[a].stamp < started
    <3> SUFFICES ASSUME NEW a \in Attempt, a # c, cached[a] # None
                 PROVE  cached[a].stamp \in Nat /\ cached[a].stamp < started
      OBVIOUS
    <3>1. CASE a \in Cycle
      <4>1. work[a] # None /\ cached[a].stamp = work[a].stamp
        BY <3>1 DEF TablesInv, CyclesOwnResponses
      <4> QED
        BY <2>2, <2>3, <3>1, <4>1
    <3>2. CASE a \in Republisher
      <4>1. PICK d \in receipts : InPhase(d, "publish") /\ work[d].stamp = cached[a].stamp
        BY <3>2 DEF TablesInv, ChecksWerePublished, StartOfPublished
      <4>2. d \in Cycle /\ d # c /\ work[d] # None
        BY <4>1 DEF TablesInv, PublicationTypeOK, InPhase
      <4> QED
        BY <2>2, <2>3, <4>1, <4>2
    <3> QED
      BY <3>1, <3>2 DEF Attempt
  <2>5. CASE RepublishCommits(p)
    <3>1. PICK kept \in Retained(p) :
              cached' = [a \in Attempt |-> IF a \in kept THEN cached[a] ELSE None]
      BY <2>5 DEF RepublishCommits
    <3> DEFINE others == {a \in Attempt \ {p} : cached[a] # None}
               newest == {a \in others : \A b \in others : cached[b].stamp <= cached[a].stamp}
    <3>2. c \in others
      BY <2>2
    <3>3. PICK a \in newest : kept = {p, a}
      BY <3>1, <3>2 DEF Retained
    <3>4. a \in others /\ cached[c].stamp <= cached[a].stamp
      BY <3>2, <3>3
    <3>5. a = c
      BY <2>2, <2>4, <3>4
    <3> QED
      BY <2>2, <3>1, <3>3, <3>5
  <2>6. CASE RepublishFails(p)
    BY <2>2, <2>6 DEF RepublishFails, CleanedUp
  <2> QED
    BY <2>1, <2>5, <2>6
<1> QED
  BY <1>1, TablesInvariance, PTL DEF PublicationSpec, CandidateCacheSurvives
-----------------------------------------------------------------------------
\* What a reader is given, and what was replaced.
ServedNow == IF ReadersAgree /\ pointer # None THEN <<pointer, cachePointer>> ELSE None

RetiredNow == {r \in Revision : revisions[r] # None /\ revisions[r].state = "superseded"}

\* No pointer moves, and a row changes only from none to pending.
UnseenStep ==
    /\ UNCHANGED <<pointer, cachePointer>>
    /\ \A r \in Revision :
          \/ revisions'[r] = revisions[r]
          \/ revisions[r] = None /\ revisions'[r].state = "pending"

\* Steps before the batch leave alone what readers can see.
LEMMA UnseenSteps ==
    ASSUME TablesInv, TablesInv', UnseenStep
    PROVE  UNCHANGED <<ServedNow, RetiredNow>>
<1>1. ReadersAgree /\ ReadersAgree'
  BY DEF TablesInv
<1>2. ServedNow' = ServedNow
  BY <1>1 DEF ServedNow, UnseenStep
<1>3. RetiredNow' = RetiredNow
  BY DEF RetiredNow, UnseenStep
<1> QED
  BY <1>2, <1>3

\* A batch refreshes what readers are given, or replaces it.
LEMMA BatchIsViewStep ==
    ASSUME TablesInv, TablesInv', NEW c \in Cycle, PublishBatch(c)
    PROVE  View!ViewNext
<1> DEFINE r == work[c].candidate
<1>1. /\ InPhase(c, "publish")
      /\ work[c] \in Work /\ r \in Revision
      /\ Refreshes(c) \/ Replaces(c)
      /\ cachePointer' = c /\ c \in Attempt
  BY BatchEffect DEF PublishBatch, Attempt
<1>2. /\ pointer' = r
      /\ \A q \in Revision : revisions'[q] # None <=> revisions[q] # None
  BY <1>1, RowsAfterBatch
<1>3. r # None /\ ReadersAgree /\ ReadersAgree'
  BY <1>1, BenchmarkNone DEF TablesInv
<1>4. ServedNow' = <<r, c>>
  BY <1>1, <1>2, <1>3 DEF ServedNow
<1>5. revisions \in [Revision -> RevisionRow \cup {None}]
  BY DEF TablesInv, PublicationTypeOK
<1>6. CASE Refreshes(c)
  <2>1. ServedNow = <<r, cachePointer>> /\ cachePointer \in Attempt /\ r = pointer
    BY <1>3, <1>6 DEF Refreshes, ServedNow, TablesInv, PublicationTypeOK, ReadersAgree
  <2>2. ServedNow # None
    BY <1>1, <2>1, BenchmarkNone
  <2>3. \A q \in Revision : revisions[q] # None => revisions'[q].state = revisions[q].state
    BY <1>5, <1>6 DEF Refreshes, RevisionRow
  <2>4. RetiredNow' = RetiredNow
    BY <1>2, <2>3 DEF RetiredNow
  <2>5. View!Refresh(c)
    BY <1>4, <2>1, <2>2, <2>4 DEF View!Refresh, ServedNow, RetiredNow
  <2> QED
    BY <1>1, <2>5 DEF View!ViewNext
<1>7. CASE Replaces(c)
  <2>1. pointer # r /\ revisions[r] # None /\ revisions[r].state = "pending"
    BY <1>7 DEF Replaces, Owned
  <2>2. r \notin RetiredNow
    BY <2>1 DEF RetiredNow
  <2>3. pointer # None => revisions[pointer] # None /\ pointer \in Revision
    BY <1>3 DEF TablesInv, ReadersAgree, PublicationTypeOK
  <2>4. pointer # None => ServedNow = <<pointer, cachePointer>> /\ ServedNow # None
    BY <1>3, BenchmarkNone DEF ServedNow, TablesInv, PublicationTypeOK, ReadersAgree
  <2>5. pointer = None => ServedNow = None
    BY DEF ServedNow
  <2>6. \A q \in Revision : revisions[q] # None =>
           revisions'[q].state = IF q = r THEN "published"
                                 ELSE IF q = pointer THEN "superseded" ELSE revisions[q].state
    BY <1>5, <1>7 DEF Replaces, RevisionRow
  <2>7. RetiredNow' = IF pointer = None THEN RetiredNow ELSE RetiredNow \cup {pointer}
    <3>1. \A q \in Revision : q \in RetiredNow' <=> q \in RetiredNow \/ q = pointer
      BY <1>2, <2>1, <2>3, <2>6, BenchmarkNone DEF RetiredNow
    <3> QED
      BY <2>3, <3>1, BenchmarkNone DEF RetiredNow
  <2>8. View!Replace(r, c)
    BY <1>4, <2>1, <2>2, <2>4, <2>5, <2>7 DEF View!Replace, ServedNow, RetiredNow
  <2> QED
    BY <1>1, <2>8 DEF View!ViewNext
<1> QED
  BY <1>1, <1>6, <1>7

\* The commit batch of a republication refreshes what readers are given.
LEMMA CommitIsViewStep ==
    ASSUME TablesInv, TablesInv', NEW p \in Republisher, RepublishCommits(p)
    PROVE  View!ViewNext
<1>1. /\ cachePointer' = p /\ p \in Attempt
      /\ UNCHANGED <<revisions, pointer>>
      /\ cached[p] # None /\ cached[p].of = pointer
  BY DEF RepublishCommits, PointersAllowed, Attempt
<1>2. pointer \in Revision
  BY <1>1 DEF TablesInv, PublicationTypeOK, CacheRow
<1>3. ReadersAgree /\ ReadersAgree' /\ pointer # None
  BY <1>2, BenchmarkNone DEF TablesInv
<1>4. ServedNow = <<pointer, cachePointer>> /\ ServedNow' = <<pointer, p>>
  BY <1>1, <1>3 DEF ServedNow
<1>5. ServedNow # None
  BY <1>2, <1>3, <1>4, BenchmarkNone DEF TablesInv, PublicationTypeOK, ReadersAgree
<1>6. RetiredNow' = RetiredNow
  BY <1>1 DEF RetiredNow
<1>7. View!Refresh(p)
  BY <1>4, <1>5, <1>6 DEF View!Refresh, ServedNow, RetiredNow
<1> QED
  BY <1>1, <1>7 DEF View!ViewNext

\* Every other step changes no pointer, and no row but from none to pending.
LEMMA OtherStepsAreUnseen ==
    ASSUME TablesInv, PublicationNext,
           \A c \in Cycle : ~ PublishBatch(c),
           \A p \in Republisher : ~ RepublishCommits(p)
    PROVE  UnseenStep
<1>1. ASSUME NEW c \in Cycle, EnsurePending(c)
      PROVE  UnseenStep
  <2> DEFINE row == [state |-> "pending", owner |-> c, checked |-> work[c].stamp]
             new == work[c].candidate
  <2>1. /\ revisions[new] = None
        /\ revisions' = [revisions EXCEPT ![new] = row]
        /\ UNCHANGED <<pointer, cachePointer>>
    BY <1>1 DEF EnsurePending
  <2>2. row.state = "pending"
    OBVIOUS
  <2> HIDE DEF row, new
  <2>3. revisions \in [Revision -> RevisionRow \cup {None}]
    BY DEF TablesInv, PublicationTypeOK
  <2>4. \A r \in Revision : revisions'[r] = IF r = new THEN row ELSE revisions[r]
    BY <2>1, <2>3
  <2> QED
    BY <2>1, <2>2, <2>4 DEF UnseenStep
<1>2. CASE \A c \in Cycle : ~ EnsurePending(c)
  <2>1. UNCHANGED <<pointer, cachePointer, revisions>>
    BY <1>2 DEF PublicationNext, CatalogPublishes, CycleStep, Freeze, Derive, StageFact,
         StageProfile, StorePartition, FactsStaged, ProfilesStaged, CacheStaged,
         ValidateCandidate, Advance, StageCacheKey, OpenEntries, FillCacheKey, WriteEntries,
         PublishReads, PublishEnds, RepublishStep, RepublishReads, RepublishOpens,
         RepublishFills, RepublishFails
  <2> QED
    BY <2>1 DEF UnseenStep
<1> QED
  BY <1>1, <1>2

(* The tables implement the published view, with cycles and republications *)
(* in any order: no gap, no mixed revisions, no return of a replaced one.  *)
THEOREM PublicationImplementsView == PublicationSpec => ImplementsView
<1>1. PublicationInit => View!ViewInit
  BY DEF PublicationInit, View!ViewInit
<1>2. TablesInv /\ TablesInv' /\ [PublicationNext]_publicationVars
        => [View!ViewNext]_<<ServedNow, RetiredNow>>
  <2> SUFFICES ASSUME TablesInv, TablesInv', [PublicationNext]_publicationVars
               PROVE  View!ViewNext \/ UNCHANGED <<ServedNow, RetiredNow>>
    OBVIOUS
  <2>1. CASE UNCHANGED publicationVars
    BY <2>1, UnseenSteps DEF publicationVars, UnseenStep
  <2>2. CASE PublicationNext
    BY <2>2, BatchIsViewStep, CommitIsViewStep, OtherStepsAreUnseen, UnseenSteps
  <2> QED
    BY <2>1, <2>2
<1> QED
  BY <1>1, <1>2, TablesInvariance, PTL
  DEF PublicationSpec, ImplementsView, View!ViewSpec, ServedNow, RetiredNow
=============================================================================
