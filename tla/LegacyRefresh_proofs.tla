------------------------ MODULE LegacyRefresh_proofs ------------------------
(***************************************************************************)
(* Proofs about LegacyRefresh, for any set of invocations, any pages and   *)
(* any lengths of the lease, of the ownership window and of the day.       *)
(*                                                                         *)
(* What an invocation relies on is said in three parts.  The lease part    *)
(* (LeaseInv) follows who holds the daily check and of which day the facts *)
(* in hand are; the evidence part (EvidenceInv) follows what is already in *)
(* R2; the publication part (TablesInv) follows the pending rows, who owns *)
(* them and how far they are.  They rest on the types (LegacyTypes).       *)
(***************************************************************************)
EXTENDS LegacyRefresh, TLAPS

\* The places of an invocation.
Deriving == {"evidence", "row", "facts"}
Staged == {"responses", "commit"}
WithPages == Deriving \cup Staged \cup {"cleanup"}
WithLiteLlm == WithPages \cup {"lmarena", "hub"}
WithBenchLm == WithLiteLlm \cup {"litellm"}
Checking == {"persist", "complete"}
Ended == {"done", "failed", "dead"}
LegacyPc ==
    WithBenchLm \cup Checking \cup Ended
    \cup {"new", "active", "claim", "await", "fetch", "release", "record"}

Page == [content : Version, dataset : Version]
Amount == 0 .. MaxChanges + 1
Time == 0 .. MaxClock

Invocation ==
    [pc : LegacyPc, at : Time, catalog : Amount, previous : LegacyRevision \cup {None},
     benchlm : Amount, seen : Time, litellm : Amount, page : [LPage -> Page \cup {None}],
     polls : Nat, left : BOOLEAN]

RowType ==
    [state : {"pending", "published", "superseded"}, owner : Refreshes, checked : Time,
     facts : BOOLEAN, seen : Time, dataset : [LPage -> Version]]

Supply == [benchlm : Version, litellm : Version, dataset : Version, page : [LPage -> Version]]

\* What an invocation has in hand by the time it stands where it stands.
InHand(i) ==
    /\ i.pc # "new" => i.at \in 1 .. MaxClock
    /\ i.pc \notin Ended \cup {"new", "record"} => i.catalog \in Version
    /\ i.pc \in WithBenchLm \cup Checking => i.benchlm \in Version
    /\ i.pc \in WithLiteLlm => i.litellm \in Version
    /\ i.pc \in WithPages => \A p \in LPage : i.page[p] # None

OutsideTypes == served \in Supply /\ catalog \in Version /\ clock \in 1 .. MaxClock

DailyTypes ==
    /\ daily \in [success : 1 .. MaxClock \cup {None},
                  error : [until : Nat, owner : Refreshes] \cup {None}]
    /\ manifest \in [DOMAIN manifest -> Version]

TableTypes ==
    /\ DOMAIN rows \subseteq LegacyRevision /\ rows \in [DOMAIN rows -> RowType]
    /\ active \in DOMAIN rows \cup {None}
    /\ DOMAIN responses \subseteq Refreshes /\ responses \in [DOMAIN responses -> LegacyRevision]
    /\ cacheSet \in Refreshes \cup {None}

InvocationTypes ==
    /\ invocation \in [Refreshes -> Invocation]
    /\ \A r \in Refreshes : /\ InHand(invocation[r])
                            /\ invocation[r].previous \in DOMAIN rows \cup {None}

LegacyTypes == OutsideTypes /\ DailyTypes /\ TableTypes /\ InvocationTypes

LeaseOf(r) ==
    \* Who holds the lease is about to use it, was killed or could not give it back, and
    \* its day has no check yet.
    /\ daily.error # None /\ daily.error.owner = r =>
          /\ \/ invocation[r].pc \in Checking \cup {"fetch", "release", "dead"}
             \/ invocation[r].pc \in {"record", "failed"} /\ invocation[r].left
          /\ daily.error.until = invocation[r].at + Lease
          /\ daily.success # None => Today(daily.success) # Today(invocation[r].at)
    /\ invocation[r].pc \in Checking => invocation[r].seen = invocation[r].at
    \* The facts in hand are of the invocation's day.
    /\ invocation[r].pc \in WithBenchLm \ {"cleanup"} =>
          Today(invocation[r].seen) = Today(invocation[r].at)

LeaseInv == \A r \in Refreshes : LeaseOf(r)

EvidenceOf(r) ==
    /\ invocation[r].pc = "complete" => invocation[r].at \in DOMAIN manifest
    /\ invocation[r].pc \in WithBenchLm \cup {"complete"} =>
          <<"benchlm", 0, invocation[r].benchlm>> \in snapshots
    /\ invocation[r].pc = "row" => Sources(Candidate(r)) \subseteq snapshots

EvidenceInv ==
    /\ EvidenceFirst
    /\ \A at \in DOMAIN manifest : <<"benchlm", 0, manifest[at]>> \in snapshots
    /\ \A r \in Refreshes : EvidenceOf(r)

StagingOf(r) ==
    /\ invocation[r].previous # None => rows[invocation[r].previous].state # "pending"
    /\ invocation[r].pc \in Deriving \cup Staged => OneDataset(r)
    /\ invocation[r].pc \in Deriving => ~ Unchanged(r)
    \* The row it stages is pending while it owns it, and full once it says so.
    /\ invocation[r].pc \in Staged \cup {"facts"} /\ ~ Unchanged(r) /\ Owns(r) =>
          /\ rows[Candidate(r)].state = "pending"
          /\ invocation[r].pc \in Staged => rows[Candidate(r)].facts
    /\ invocation[r].pc = "commit" /\ r \in DOMAIN responses => responses[r] = Candidate(r)
    /\ cacheSet = r => invocation[r].pc \in Ended \cup {"cleanup", "record"}

RowsInv ==
    /\ \A c \in DOMAIN rows :
          /\ rows[c].state = "published" <=> c = active
          /\ \A p, q \in LPage : rows[c].dataset[p] = rows[c].dataset[q]
    /\ active # None => /\ rows[active].facts
                        /\ cacheSet \in DOMAIN responses /\ responses[cacheSet] = active

TablesInv ==
    /\ RowsInv
    /\ \A r \in Refreshes : StagingOf(r)

LegacyInv == LegacyTypes /\ LeaseInv /\ EvidenceInv /\ TablesInv
-----------------------------------------------------------------------------
(* The revision that an invocation with all its pages derives.             *)
LEMMA CandidateTyped ==
    ASSUME LegacyTypes, NEW r \in Refreshes, invocation[r].pc \in WithPages
    PROVE  Candidate(r) \in LegacyRevision
<1>1. /\ invocation[r].catalog \in Version
      /\ invocation[r].benchlm \in Version
      /\ invocation[r].litellm \in Version
  BY DEF LegacyTypes, InvocationTypes, InHand, WithPages, WithLiteLlm, WithBenchLm, Ended, Deriving, Staged
<1>2. \A p \in LPage : invocation[r].page[p] \in Page
  BY DEF LegacyTypes, InvocationTypes, InHand, Invocation
<1>3. [p \in LPage |-> invocation[r].page[p].content] \in [LPage -> Version]
  BY <1>2 DEF Page
<1> QED BY <1>1, <1>3 DEF Candidate, LegacyRevision

(* The row that an invocation with all its pages stages.                   *)
LEMMA PendingTyped ==
    ASSUME LegacyTypes, NEW r \in Refreshes, invocation[r].pc \in WithPages
    PROVE  Pending(r) \in RowType
<1>1. /\ invocation[r] \in Invocation
      /\ \A p \in LPage : invocation[r].page[p] \in Page
  BY DEF LegacyTypes, InvocationTypes, InHand, Invocation
<1>2. [p \in LPage |-> invocation[r].page[p].dataset] \in [LPage -> Version]
  BY <1>1 DEF Page
<1>3. invocation[r].at \in Time /\ invocation[r].seen \in Time
  BY <1>1 DEF Invocation
<1> QED BY <1>2, <1>3 DEF Pending, RowType

(* An invocation that only goes to another place keeps what it has.        *)
LEMMA GoTo ==
    ASSUME NEW i \in Invocation, NEW pc \in LegacyPc
    PROVE  /\ [i EXCEPT !.pc = pc] \in Invocation
           /\ [i EXCEPT !.pc = pc].pc = pc
           /\ [i EXCEPT !.pc = pc].at = i.at
           /\ [i EXCEPT !.pc = pc].catalog = i.catalog
           /\ [i EXCEPT !.pc = pc].previous = i.previous
           /\ [i EXCEPT !.pc = pc].benchlm = i.benchlm
           /\ [i EXCEPT !.pc = pc].seen = i.seen
           /\ [i EXCEPT !.pc = pc].litellm = i.litellm
           /\ [i EXCEPT !.pc = pc].page = i.page
           /\ [i EXCEPT !.pc = pc].left = i.left
BY DEF Invocation

(* An invocation that ends leaves the time of its start, and what it could *)
(* not give back.                                                          *)
LEMMA EndOf ==
    ASSUME NEW r, invocation[r] \in Invocation, NEW pc \in LegacyPc
    PROVE  LET i == [Idle EXCEPT !.pc = pc, !.at = invocation[r].at, !.left = invocation[r].left]
           IN  /\ i \in Invocation /\ i.pc = pc /\ i.at = invocation[r].at
               /\ i.catalog = 0 /\ i.previous = None /\ i.left = invocation[r].left
<1>1. 0 \in Amount /\ 0 \in Nat /\ [p \in LPage |-> None] \in [LPage -> Page \cup {None}]
  BY LegacyBounds DEF Amount
<1>2. invocation[r].at \in Time /\ invocation[r].left \in BOOLEAN
  BY DEF Invocation
<1>3. 0 \in Time
  BY LegacyBounds DEF Time
<1> QED BY <1>1, <1>2, <1>3 DEF Invocation, Idle
-----------------------------------------------------------------------------
(* An invocation that a step leaves alone.                                 *)
LEMMA LeftAlone ==
    ASSUME NEW d \in Refreshes, invocation'[d] = invocation[d]
    PROVE  /\ Candidate(d)' = Candidate(d)
           /\ Unchanged(d)' <=> Unchanged(d)
           /\ OneDataset(d)' <=> OneDataset(d)
           /\ UNCHANGED daily /\ LeaseOf(d) => LeaseOf(d)'
           /\ snapshots \subseteq snapshots' /\ DOMAIN manifest \subseteq DOMAIN manifest' /\ EvidenceOf(d)
                 => EvidenceOf(d)'
           /\ UNCHANGED tables /\ StagingOf(d) => StagingOf(d)'
<1>1. Candidate(d)' = Candidate(d) /\ (OneDataset(d)' <=> OneDataset(d))
  BY DEF Candidate, OneDataset
<1>2. Unchanged(d)' <=> Unchanged(d)
  BY <1>1 DEF Unchanged
<1>3. UNCHANGED daily /\ LeaseOf(d) => LeaseOf(d)'
  BY DEF LeaseOf
<1>4. snapshots \subseteq snapshots' /\ DOMAIN manifest \subseteq DOMAIN manifest' /\ EvidenceOf(d)
         => EvidenceOf(d)'
  BY <1>1 DEF EvidenceOf
<1>5. UNCHANGED tables /\ StagingOf(d) => StagingOf(d)'
  BY <1>1, <1>2 DEF StagingOf, tables, Owns
<1> QED BY <1>1, <1>2, <1>3, <1>4, <1>5

(* A step that gives an invocation other variables.                        *)
LEMMA Moved ==
    ASSUME LegacyTypes, NEW r \in Refreshes, NEW i \in Invocation, Local(r, i), InHand(i),
           i.previous \in DOMAIN rows' \cup {None},
           \A d \in Refreshes \ {r} : invocation[d].previous \in DOMAIN rows' \cup {None}
    PROVE  /\ InvocationTypes'
           /\ invocation'[r] = i
           /\ \A d \in Refreshes \ {r} : invocation'[d] = invocation[d]
BY DEF LegacyTypes, InvocationTypes, Local

(* A step of one invocation that changes nothing but its own variables     *)
(* keeps the invariant if it keeps what is said about that invocation.     *)
LEMMA OwnStep ==
    ASSUME LegacyInv, NEW r \in Refreshes, NEW i \in Invocation, Local(r, i), InHand(i),
           i.previous \in DOMAIN rows \cup {None},
           UNCHANGED <<outside, daily, manifest, snapshots, tables>>, clock' \in 1 .. MaxClock,
           LeaseOf(r)', EvidenceOf(r)', StagingOf(r)'
    PROVE  LegacyInv'
<1>1. LegacyTypes'
  <2>1. InvocationTypes'
    BY Moved DEF LegacyInv, LegacyTypes, InvocationTypes, tables
  <2> QED BY <2>1 DEF LegacyInv, LegacyTypes, OutsideTypes, DailyTypes, TableTypes, outside, tables
<1>2. \A d \in Refreshes \ {r} : invocation'[d] = invocation[d]
  BY DEF Local, LegacyInv, LegacyTypes, InvocationTypes
<1>3. \A d \in Refreshes : LeaseOf(d)' /\ EvidenceOf(d)' /\ StagingOf(d)'
  BY <1>2, LeftAlone DEF LegacyInv, LeaseInv, EvidenceInv, TablesInv
<1>4. EvidenceInv'
  BY <1>3 DEF LegacyInv, EvidenceInv, EvidenceFirst, tables
<1>5. TablesInv'
  BY <1>3 DEF LegacyInv, TablesInv, RowsInv, tables
<1> QED BY <1>1, <1>3, <1>4, <1>5 DEF LegacyInv, LeaseInv
-----------------------------------------------------------------------------
(***************************************************************************)
(* The steps of the daily check.                                           *)
(***************************************************************************)

(* A start has nothing in hand but the active catalog.                     *)
LEMMA StartKeeps == ASSUME LegacyInv, NEW r \in Refreshes, Start(r) PROVE LegacyInv'
<1>1. PICK i : i = [Idle EXCEPT !.pc = "active", !.at = clock, !.catalog = catalog]
  OBVIOUS
<1>2. 0 \in Amount /\ 0 \in Nat /\ 0 \in Time /\ [p \in LPage |-> None] \in [LPage -> Page \cup {None}]
  BY LegacyBounds DEF Amount, Time
<1>3. clock \in Time /\ clock \in 1 .. MaxClock /\ clock + 1 \in 1 .. MaxClock
      /\ catalog \in Amount /\ catalog \in Version
  BY LegacyBounds DEF LegacyInv, LegacyTypes, OutsideTypes, Time, Amount, Version, Start
<1>4. i \in Invocation /\ i.pc = "active" /\ i.previous = None /\ i.at = clock /\ i.catalog = catalog
  BY <1>1, <1>2, <1>3 DEF Invocation, Idle, LegacyPc
<1>5. InHand(i)
  BY <1>3, <1>4 DEF InHand, WithBenchLm, WithLiteLlm, WithPages, Checking, Ended, Deriving, Staged
<1>6. Local(r, i) /\ clock' = clock + 1
      /\ UNCHANGED <<outside, daily, manifest, snapshots, tables>> /\ invocation[r].pc = "new"
  BY <1>1 DEF Start, At
<1>7. invocation'[r] = i
  BY <1>6 DEF Local, LegacyInv, LegacyTypes, InvocationTypes
<1>8. LeaseOf(r) /\ StagingOf(r)
  BY DEF LegacyInv, LeaseInv, TablesInv
<1>9. LeaseOf(r)'
  BY <1>4, <1>6, <1>7, <1>8 DEF LeaseOf, Checking, WithBenchLm, WithLiteLlm, WithPages, Deriving, Staged
<1>10. EvidenceOf(r)'
  BY <1>4, <1>7 DEF EvidenceOf, WithBenchLm, WithLiteLlm, WithPages, Deriving, Staged
<1>11. StagingOf(r)'
  BY <1>4, <1>6, <1>7, <1>8 DEF StagingOf, tables, Deriving, Staged, Ended
<1> QED BY <1>3, <1>4, <1>5, <1>6, <1>9, <1>10, <1>11, OwnStep

(* Facts that are not due again are those of the active revision, of the   *)
(* same day and in R2.                                                     *)
LEMMA ReadActiveKeeps == ASSUME LegacyInv, NEW r \in Refreshes, ReadActive(r) PROVE LegacyInv'
<1>1. /\ invocation[r] \in Invocation /\ invocation[r].pc = "active" /\ InHand(invocation[r])
      /\ UNCHANGED <<outside, daily, manifest, snapshots, tables, clock>>
      /\ LeaseOf(r) /\ StagingOf(r) /\ clock \in 1 .. MaxClock
      /\ active \in DOMAIN rows \cup {None} /\ DOMAIN rows \subseteq LegacyRevision
  BY DEF ReadActive, At, LegacyInv, LegacyTypes, InvocationTypes, LeaseInv, TablesInv, OutsideTypes, TableTypes
<1>2. active # None => /\ active \in DOMAIN rows /\ active \in LegacyRevision
                       /\ active.benchlm \in Version /\ active.benchlm \in Amount
                       /\ rows[active].seen \in Time /\ rows[active].state = "published"
                       /\ <<"benchlm", 0, active.benchlm>> \in snapshots
  <2> SUFFICES ASSUME active # None PROVE active \in DOMAIN rows /\ active \in LegacyRevision
                       /\ active.benchlm \in Version /\ active.benchlm \in Amount
                       /\ rows[active].seen \in Time /\ rows[active].state = "published"
                       /\ <<"benchlm", 0, active.benchlm>> \in snapshots
    OBVIOUS
  <2>1. active \in DOMAIN rows /\ active \in LegacyRevision
    BY <1>1
  <2>2. rows[active] \in RowType
    BY <2>1 DEF LegacyInv, LegacyTypes, TableTypes
  <2>3. Sources(active) \subseteq snapshots
    BY <2>1 DEF LegacyInv, EvidenceInv, EvidenceFirst
  <2>4. rows[active].state = "published"
    BY <2>1 DEF LegacyInv, TablesInv, RowsInv
  <2>5. active.benchlm \in Version /\ active.benchlm \in Amount
    BY <2>1, LegacyBounds DEF LegacyRevision, Version, Amount
  <2> QED BY <2>1, <2>2, <2>3, <2>4, <2>5 DEF RowType, Sources
<1>3. CASE FetchDue(r, active)
  <2>1. PICK i : i = [invocation[r] EXCEPT !.pc = "claim", !.previous = active]
    OBVIOUS
  <2>2. i \in Invocation /\ i.pc = "claim" /\ i.previous = active /\ i.at = invocation[r].at
        /\ i.catalog = invocation[r].catalog
    BY <1>1, <2>1 DEF Invocation, LegacyPc
  <2>3. Local(r, i) /\ invocation'[r] = i
    BY <1>3, <2>1 DEF ReadActive, Local, LegacyInv, LegacyTypes, InvocationTypes
  <2>4. InHand(i)
    BY <1>1, <2>2 DEF InHand, WithBenchLm, WithLiteLlm, WithPages, Checking, Ended, Deriving, Staged
  <2>5. LeaseOf(r)'
    BY <1>1, <2>2, <2>3 DEF LeaseOf, Checking, WithBenchLm, WithLiteLlm, WithPages, Deriving, Staged
  <2>6. EvidenceOf(r)'
    BY <2>2, <2>3 DEF EvidenceOf, WithBenchLm, WithLiteLlm, WithPages, Deriving, Staged
  <2>7. StagingOf(r)'
    BY <1>1, <1>2, <2>2, <2>3 DEF StagingOf, tables, Deriving, Staged, Ended
  <2> QED BY <1>1, <2>2, <2>3, <2>4, <2>5, <2>6, <2>7, OwnStep
<1>4. CASE ~ FetchDue(r, active)
  <2>0. active # None /\ Today(rows[active].seen) = Today(invocation[r].at)
    BY <1>4 DEF FetchDue
  <2>1. PICK i : i = [invocation[r] EXCEPT !.pc = "litellm", !.previous = active,
                          !.benchlm = active.benchlm, !.seen = rows[active].seen]
    OBVIOUS
  <2>2. i \in Invocation /\ i.pc = "litellm" /\ i.previous = active /\ i.at = invocation[r].at
        /\ i.catalog = invocation[r].catalog /\ i.benchlm = active.benchlm /\ i.seen = rows[active].seen
    BY <1>1, <1>2, <2>0, <2>1 DEF Invocation, LegacyPc, WithBenchLm
  <2>3. Local(r, i) /\ invocation'[r] = i
    BY <1>4, <2>1 DEF ReadActive, Local, LegacyInv, LegacyTypes, InvocationTypes
  <2>4. InHand(i)
    BY <1>1, <1>2, <2>0, <2>2 DEF InHand, WithBenchLm, WithLiteLlm, WithPages, Checking, Ended, Deriving, Staged
  <2>5. LeaseOf(r)'
    BY <1>1, <2>0, <2>2, <2>3 DEF LeaseOf, Checking, WithBenchLm, WithLiteLlm, WithPages, Deriving, Staged
  <2>6. EvidenceOf(r)'
    BY <1>1, <1>2, <2>0, <2>2, <2>3 DEF EvidenceOf, WithBenchLm, WithLiteLlm, WithPages, Deriving, Staged
  <2>7. StagingOf(r)'
    BY <1>1, <1>2, <2>2, <2>3 DEF StagingOf, tables, Deriving, Staged, Ended
  <2> QED BY <1>1, <2>2, <2>3, <2>4, <2>5, <2>6, <2>7, OwnStep
<1> QED BY <1>3, <1>4

(* Who claims the daily check finds no check of its day; without the reply *)
(* it leaves the lease behind.                                             *)
LEMMA ClaimKeeps ==
    ASSUME LegacyInv, NEW r \in Refreshes, NEW lost \in BOOLEAN, ClaimDailyCheck(r, lost)
    PROVE  LegacyInv'
<1>1. /\ invocation[r] \in Invocation /\ invocation[r].pc = "claim" /\ InHand(invocation[r])
      /\ UNCHANGED <<outside, manifest, snapshots, tables, clock>>
      /\ LeaseOf(r) /\ StagingOf(r) /\ clock \in 1 .. MaxClock
      /\ invocation[r].previous \in DOMAIN rows \cup {None}
  BY DEF ClaimDailyCheck, At, LegacyInv, LegacyTypes, InvocationTypes, LeaseInv, TablesInv, OutsideTypes
<1>2. CASE Claimable(invocation[r].at)
  <2>1. PICK i : i = IF lost THEN [invocation[r] EXCEPT !.pc = "record", !.left = TRUE]
                             ELSE [invocation[r] EXCEPT !.pc = "fetch"]
    OBVIOUS
  <2>2. /\ i \in Invocation /\ i.previous = invocation[r].previous
        /\ \/ i.pc = "fetch"
           \/ i.pc = "record" /\ i.left
        /\ i.at = invocation[r].at /\ i.catalog = invocation[r].catalog
    <3>1. CASE lost
      BY <1>1, <2>1, <3>1 DEF Invocation, LegacyPc
    <3>2. CASE ~ lost
      BY <1>1, <2>1, <3>2 DEF Invocation, LegacyPc
    <3> QED BY <3>1, <3>2
  <2>3. Local(r, i) /\ invocation'[r] = i
    BY <1>2, <2>1 DEF ClaimDailyCheck, Local, LegacyInv, LegacyTypes, InvocationTypes
  <2>4. InHand(i)
    BY <1>1, <2>2 DEF InHand, WithBenchLm, WithLiteLlm, WithPages, Checking, Ended, Deriving, Staged
  <2>5. daily' = [daily EXCEPT !.error = [until |-> invocation[r].at + Lease, owner |-> r]]
    BY <1>2 DEF ClaimDailyCheck
  <2>6. invocation[r].at + Lease \in Nat /\ invocation[r].at \in 1 .. MaxClock
    BY <1>1, LegacyBounds DEF InHand
  <2>7. PICK lease : lease = [until |-> invocation[r].at + Lease, owner |-> r]
    OBVIOUS
  <2>8. lease \in [until : Nat, owner : Refreshes] /\ lease.owner = r /\ lease # None
        /\ lease.until = invocation[r].at + Lease
    BY <2>6, <2>7, LegacyNone
  <2>9. /\ daily' \in [success : 1 .. MaxClock \cup {None}, error : [until : Nat, owner : Refreshes] \cup {None}]
        /\ daily'.success = daily.success /\ daily'.error = lease
    BY <2>5, <2>7, <2>8 DEF LegacyInv, LegacyTypes, DailyTypes
  <2>10. LegacyTypes'
    <3>1. InvocationTypes'
      BY <1>1, <2>2, <2>3, <2>4, Moved DEF LegacyInv, LegacyTypes, InvocationTypes, tables
    <3> QED BY <1>1, <2>9, <3>1 DEF LegacyInv, LegacyTypes, OutsideTypes, DailyTypes, TableTypes, outside, tables
  <2>11. LeaseOf(r)'
    BY <1>1, <1>2, <2>2, <2>3, <2>8, <2>9 DEF LeaseOf, Claimable, Checking, WithBenchLm, WithLiteLlm, WithPages, Deriving, Staged
  <2>12. EvidenceOf(r)'
    BY <2>2, <2>3 DEF EvidenceOf, WithBenchLm, WithLiteLlm, WithPages, Deriving, Staged
  <2>13. StagingOf(r)'
    BY <1>1, <2>2, <2>3 DEF StagingOf, tables, Deriving, Staged, Ended
  <2>14. ASSUME NEW d \in Refreshes \ {r} PROVE LeaseOf(d)' /\ EvidenceOf(d)' /\ StagingOf(d)'
    <3>1. invocation'[d] = invocation[d]
      BY <2>3 DEF Local, LegacyInv, LegacyTypes, InvocationTypes
    <3>2. LeaseOf(d) /\ EvidenceOf(d) /\ StagingOf(d)
      BY DEF LegacyInv, LeaseInv, EvidenceInv, TablesInv
    <3>3. LeaseOf(d)'
      BY <2>8, <2>9, <3>1, <3>2 DEF LeaseOf
    <3> QED BY <1>1, <3>1, <3>2, <3>3, LeftAlone
  <2>15. LeaseInv'
    BY <2>11, <2>14 DEF LeaseInv
  <2>16. EvidenceInv'
    BY <1>1, <2>9, <2>12, <2>14 DEF LegacyInv, EvidenceInv, EvidenceFirst, tables
  <2>17. TablesInv'
    BY <1>1, <2>13, <2>14 DEF LegacyInv, TablesInv, RowsInv, tables
  <2> QED BY <2>10, <2>15, <2>16, <2>17 DEF LegacyInv
<1>3. CASE ~ Claimable(invocation[r].at)
  <2>1. PICK i : i = [invocation[r] EXCEPT !.pc = "await"]
    OBVIOUS
  <2>2. i \in Invocation /\ i.pc = "await" /\ i.previous = invocation[r].previous
        /\ i.at = invocation[r].at /\ i.catalog = invocation[r].catalog
    BY <1>1, <2>1 DEF Invocation, LegacyPc
  <2>3. Local(r, i) /\ invocation'[r] = i /\ UNCHANGED daily
    BY <1>3, <2>1 DEF ClaimDailyCheck, Go, Local, LegacyInv, LegacyTypes, InvocationTypes
  <2>4. InHand(i)
    BY <1>1, <2>2 DEF InHand, WithBenchLm, WithLiteLlm, WithPages, Checking, Ended, Deriving, Staged
  <2>5. LeaseOf(r)'
    BY <1>1, <2>2, <2>3 DEF LeaseOf, Checking, WithBenchLm, WithLiteLlm, WithPages, Deriving, Staged
  <2>6. EvidenceOf(r)'
    BY <2>2, <2>3 DEF EvidenceOf, WithBenchLm, WithLiteLlm, WithPages, Deriving, Staged
  <2>7. StagingOf(r)'
    BY <1>1, <2>2, <2>3 DEF StagingOf, tables, Deriving, Staged, Ended
  <2> QED BY <1>1, <2>2, <2>3, <2>4, <2>5, <2>6, <2>7, OwnStep
<1> QED BY <1>2, <1>3

(* An invocation at a place before its facts are at hand: what is said of  *)
(* it is little.                                                           *)
LEMMA EmptyHanded ==
    ASSUME NEW r \in Refreshes, NEW i \in Invocation, invocation'[r] = i, UNCHANGED <<daily, tables>>,
           LeaseOf(r), StagingOf(r), InHand(invocation[r]), invocation[r].pc \notin Ended \cup {"new", "record"},
           i.at = invocation[r].at, i.catalog = invocation[r].catalog, i.previous = invocation[r].previous,
           \/ i.pc \in {"claim", "record"} /\ invocation[r].pc \notin Checking \cup {"fetch", "release"}
           \/ i.pc = "release",
           cacheSet # r \/ i.pc = "record"
    PROVE  InHand(i) /\ LeaseOf(r)' /\ EvidenceOf(r)' /\ StagingOf(r)'
<1>1. InHand(i)
  BY DEF InHand, WithBenchLm, WithLiteLlm, WithPages, Checking, Ended, Deriving, Staged
<1>2. LeaseOf(r)'
  <2>1. CASE i.pc = "release"
    BY <2>1 DEF LeaseOf, Checking, WithBenchLm, WithLiteLlm, WithPages, Deriving, Staged, Ended
  <2>2. CASE i.pc # "release"
    BY <2>2 DEF LeaseOf, Checking, WithBenchLm, WithLiteLlm, WithPages, Deriving, Staged, Ended
  <2> QED BY <2>1, <2>2
<1>3. EvidenceOf(r)'
  BY DEF EvidenceOf, WithBenchLm, WithLiteLlm, WithPages, Deriving, Staged
<1>4. StagingOf(r)'
  BY DEF StagingOf, tables, Deriving, Staged, Ended
<1> QED BY <1>1, <1>2, <1>3, <1>4

(* A waiting run takes the check of its day with the facts in its manifest. *)
LEMMA AwaitKeeps == ASSUME LegacyInv, NEW r \in Refreshes, AwaitCompleted(r) PROVE LegacyInv'
<1>1. /\ invocation[r] \in Invocation /\ invocation[r].pc = "await" /\ InHand(invocation[r])
      /\ UNCHANGED <<outside, daily, manifest, snapshots, tables, clock>> /\ UNCHANGED <<daily, tables>>
      /\ LeaseOf(r) /\ StagingOf(r) /\ clock \in 1 .. MaxClock /\ clock' \in 1 .. MaxClock
      /\ invocation[r].previous \in DOMAIN rows \cup {None}
      /\ cacheSet # r
  <2>1. /\ invocation[r] \in Invocation /\ invocation[r].pc = "await" /\ InHand(invocation[r])
        /\ UNCHANGED <<outside, daily, manifest, snapshots, tables, clock>>
        /\ LeaseOf(r) /\ StagingOf(r) /\ clock \in 1 .. MaxClock
        /\ invocation[r].previous \in DOMAIN rows \cup {None}
    BY DEF AwaitCompleted, At, LegacyInv, LegacyTypes, InvocationTypes, LeaseInv, TablesInv, OutsideTypes
  <2> QED BY <2>1 DEF StagingOf, Ended
<1>2. CASE Completed(r) /\ daily.success \in DOMAIN manifest
  <2>1. PICK i : i = [invocation[r] EXCEPT !.pc = "litellm", !.benchlm = manifest[daily.success],
                                           !.seen = daily.success]
    OBVIOUS
  <2>2. /\ daily.success \in 1 .. MaxClock /\ Today(daily.success) = Today(invocation[r].at)
        /\ manifest[daily.success] \in Version
    BY <1>2 DEF Completed, LegacyInv, LegacyTypes, DailyTypes
  <2>3. manifest[daily.success] \in Amount /\ daily.success \in Time
    BY <2>2, LegacyBounds DEF Version, Amount, Time
  <2>4. /\ i \in Invocation /\ i.pc = "litellm" /\ i.previous = invocation[r].previous
        /\ i.at = invocation[r].at /\ i.catalog = invocation[r].catalog
        /\ i.benchlm = manifest[daily.success] /\ i.seen = daily.success
    BY <1>1, <2>1, <2>3 DEF Invocation, LegacyPc, WithBenchLm
  <2>5. Local(r, i) /\ invocation'[r] = i
    BY <1>2, <2>1 DEF AwaitCompleted, Local, LegacyInv, LegacyTypes, InvocationTypes
  <2>6. <<"benchlm", 0, manifest[daily.success]>> \in snapshots
    BY <1>2 DEF LegacyInv, EvidenceInv
  <2>7. InHand(i)
    BY <1>1, <2>2, <2>4 DEF InHand, WithBenchLm, WithLiteLlm, WithPages, Checking, Ended, Deriving, Staged
  <2>8. LeaseOf(r)'
    BY <1>1, <2>2, <2>4, <2>5 DEF LeaseOf, Checking, WithBenchLm, WithLiteLlm, WithPages, Deriving, Staged
  <2>9. EvidenceOf(r)'
    BY <1>1, <2>4, <2>5, <2>6 DEF EvidenceOf, WithBenchLm, WithLiteLlm, WithPages, Deriving, Staged
  <2>10. StagingOf(r)'
    BY <1>1, <2>4, <2>5 DEF StagingOf, tables, Deriving, Staged, Ended
  <2> QED BY <1>1, <2>4, <2>5, <2>7, <2>8, <2>9, <2>10, OwnStep
<1>3. CASE ~ (Completed(r) /\ daily.success \in DOMAIN manifest)
  <2>1. PICK i : Local(r, i) /\ (\/ i = [invocation[r] EXCEPT !.pc = "record"]
                                 \/ i = [invocation[r] EXCEPT !.pc = "claim", !.polls = @ + 1])
    <3>1. CASE Completed(r)
      <4>1. Local(r, [invocation[r] EXCEPT !.pc = "record"])
        BY <1>3, <3>1 DEF AwaitCompleted
      <4> QED BY <4>1
    <3>2. CASE ~ Completed(r) /\ invocation[r].polls < MaxPolls
      <4>1. Local(r, [invocation[r] EXCEPT !.pc = "claim", !.polls = @ + 1])
        BY <3>2 DEF AwaitCompleted
      <4> QED BY <4>1
    <3>3. CASE ~ Completed(r) /\ ~ (invocation[r].polls < MaxPolls)
      <4>1. Local(r, [invocation[r] EXCEPT !.pc = "record"])
        BY <3>3 DEF AwaitCompleted
      <4> QED BY <4>1
    <3> QED BY <3>1, <3>2, <3>3
  <2>2. /\ i \in Invocation /\ i.pc \in {"claim", "record"} /\ i.previous = invocation[r].previous
        /\ i.at = invocation[r].at /\ i.catalog = invocation[r].catalog
    <3>1. CASE i = [invocation[r] EXCEPT !.pc = "record"]
      BY <1>1, <3>1 DEF Invocation, LegacyPc
    <3>2. CASE i = [invocation[r] EXCEPT !.pc = "claim", !.polls = @ + 1]
      <4>1. invocation[r].polls + 1 \in Nat
        BY <1>1 DEF Invocation
      <4> QED BY <1>1, <3>2, <4>1 DEF Invocation, LegacyPc
    <3> QED BY <2>1, <3>1, <3>2
  <2>3. invocation'[r] = i
    BY <2>1 DEF Local, LegacyInv, LegacyTypes, InvocationTypes
  <2>4. InHand(i) /\ LeaseOf(r)' /\ EvidenceOf(r)' /\ StagingOf(r)'
    <3>1. invocation[r].pc \notin Ended \cup {"new", "record"}
          /\ invocation[r].pc \notin Checking \cup {"fetch", "release"}
      BY <1>1 DEF Ended, Checking
    <3> QED BY <1>1, <2>2, <2>3, <3>1, EmptyHanded
  <2> QED BY <1>1, <2>1, <2>2, <2>4, OwnStep
<1> QED BY <1>2, <1>3

(* The fetch of the day is of the moment the invocation started.           *)
LEMMA FetchKeeps ==
    ASSUME LegacyInv, NEW r \in Refreshes, NEW outcome \in Outcome, FetchBenchLm(r, outcome)
    PROVE  LegacyInv'
<1>1. /\ invocation[r] \in Invocation /\ invocation[r].pc = "fetch" /\ InHand(invocation[r])
      /\ UNCHANGED <<outside, daily, manifest, snapshots, tables, clock>> /\ UNCHANGED <<daily, tables>>
      /\ LeaseOf(r) /\ StagingOf(r) /\ clock \in 1 .. MaxClock /\ clock' \in 1 .. MaxClock
      /\ invocation[r].previous \in DOMAIN rows \cup {None}
      /\ cacheSet # r /\ served.benchlm \in Version
  <2>1. /\ invocation[r] \in Invocation /\ invocation[r].pc = "fetch" /\ InHand(invocation[r])
        /\ UNCHANGED <<outside, daily, manifest, snapshots, tables, clock>>
        /\ LeaseOf(r) /\ StagingOf(r) /\ clock \in 1 .. MaxClock
        /\ invocation[r].previous \in DOMAIN rows \cup {None}
    BY DEF FetchBenchLm, At, LegacyInv, LegacyTypes, InvocationTypes, LeaseInv, TablesInv, OutsideTypes
  <2>2. served.benchlm \in Version
    BY DEF LegacyInv, LegacyTypes, OutsideTypes, Supply
  <2> QED BY <2>1, <2>2 DEF StagingOf, Ended
<1>2. CASE outcome = "answered"
  <2>1. PICK i : i = [invocation[r] EXCEPT !.pc = "persist", !.benchlm = served.benchlm,
                                           !.seen = invocation[r].at]
    OBVIOUS
  <2>2. served.benchlm \in Amount
    BY <1>1, LegacyBounds DEF Version, Amount
  <2>3. /\ i \in Invocation /\ i.pc = "persist" /\ i.previous = invocation[r].previous
        /\ i.at = invocation[r].at /\ i.catalog = invocation[r].catalog
        /\ i.benchlm = served.benchlm /\ i.seen = invocation[r].at
    BY <1>1, <2>1, <2>2 DEF Invocation, LegacyPc, Checking
  <2>4. Local(r, i) /\ invocation'[r] = i
    BY <1>2, <2>1 DEF FetchBenchLm, Local, LegacyInv, LegacyTypes, InvocationTypes
  <2>5. InHand(i)
    BY <1>1, <2>3 DEF InHand, WithBenchLm, WithLiteLlm, WithPages, Checking, Ended, Deriving, Staged
  <2>6. LeaseOf(r)'
    BY <1>1, <2>3, <2>4 DEF LeaseOf, Checking, WithBenchLm, WithLiteLlm, WithPages, Deriving, Staged
  <2>7. EvidenceOf(r)'
    BY <1>1, <2>3, <2>4 DEF EvidenceOf, WithBenchLm, WithLiteLlm, WithPages, Deriving, Staged
  <2>8. StagingOf(r)'
    BY <1>1, <2>3, <2>4 DEF StagingOf, tables, Deriving, Staged, Ended
  <2> QED BY <1>1, <2>3, <2>4, <2>5, <2>6, <2>7, <2>8, OwnStep
<1>3. CASE outcome # "answered"
  <2>1. PICK i : i = [invocation[r] EXCEPT !.pc = "release"]
    OBVIOUS
  <2>2. /\ i \in Invocation /\ i.pc = "release" /\ i.previous = invocation[r].previous
        /\ i.at = invocation[r].at /\ i.catalog = invocation[r].catalog
    BY <1>1, <2>1 DEF Invocation, LegacyPc
  <2>3. Local(r, i) /\ invocation'[r] = i
    BY <1>3, <2>1 DEF FetchBenchLm, Local, LegacyInv, LegacyTypes, InvocationTypes
  <2>4. InHand(i) /\ LeaseOf(r)' /\ EvidenceOf(r)' /\ StagingOf(r)'
    BY <1>1, <2>2, <2>3, EmptyHanded DEF Ended
  <2> QED BY <1>1, <2>2, <2>3, <2>4, OwnStep
<1> QED BY <1>2, <1>3

(* The snapshots are in R2 before the manifest that names them.            *)
LEMMA PersistKeeps ==
    ASSUME LegacyInv, NEW r \in Refreshes, NEW lost \in BOOLEAN, PersistDaily(r, lost)
    PROVE  LegacyInv'
<1> PICK pc \in {"complete", "release"} :
        /\ Go(r, pc)
        /\ \/ manifest' = Put(manifest, invocation[r].at, invocation[r].benchlm)
           \/ pc = "release" /\ UNCHANGED manifest
  BY DEF PersistDaily, At, Replied, Busy
<1>1. /\ invocation[r] \in Invocation /\ invocation[r].pc = "persist" /\ InHand(invocation[r])
      /\ UNCHANGED <<outside, daily, tables, clock>>
      /\ snapshots' = snapshots \cup {<<"benchlm", 0, invocation[r].benchlm>>}
      /\ LeaseOf(r) /\ EvidenceOf(r) /\ StagingOf(r)
      /\ invocation[r].previous \in DOMAIN rows \cup {None}
  BY DEF PersistDaily, At, LegacyInv, LegacyTypes, InvocationTypes, LeaseInv, EvidenceInv, TablesInv
<1>2. PICK i : i = [invocation[r] EXCEPT !.pc = pc]
  OBVIOUS
<1>3. /\ i \in Invocation /\ i.pc = pc /\ i.previous = invocation[r].previous
      /\ i.at = invocation[r].at /\ i.catalog = invocation[r].catalog
      /\ i.benchlm = invocation[r].benchlm /\ i.seen = invocation[r].seen
  BY <1>1, <1>2 DEF Invocation, LegacyPc, Checking
<1>4. Local(r, i) /\ invocation'[r] = i
  BY <1>1, <1>2 DEF Go, Local, LegacyInv, LegacyTypes, InvocationTypes
<1>5. InHand(i)
  BY <1>1, <1>3 DEF InHand, WithBenchLm, WithLiteLlm, WithPages, Checking, Ended, Deriving, Staged
<1>6. /\ manifest' \in [DOMAIN manifest' -> Version]
      /\ DOMAIN manifest \subseteq DOMAIN manifest'
      /\ DOMAIN manifest' \subseteq DOMAIN manifest \cup {invocation[r].at}
      /\ pc = "complete" => invocation[r].at \in DOMAIN manifest'
      /\ \A at \in DOMAIN manifest' :
            \/ at \in DOMAIN manifest /\ manifest'[at] = manifest[at]
            \/ manifest'[at] = invocation[r].benchlm
  <2>1. invocation[r].benchlm \in Version
    BY <1>1 DEF InHand, Checking
  <2>2. manifest \in [DOMAIN manifest -> Version]
    BY DEF LegacyInv, LegacyTypes, DailyTypes
  <2>3. PICK new : new = Put(manifest, invocation[r].at, invocation[r].benchlm)
    OBVIOUS
  <2>4. /\ new \in [DOMAIN manifest \cup {invocation[r].at} -> Version]
        /\ DOMAIN new = DOMAIN manifest \cup {invocation[r].at}
        /\ new[invocation[r].at] = invocation[r].benchlm
        /\ \A at \in DOMAIN manifest : at # invocation[r].at => new[at] = manifest[at]
    BY <2>1, <2>2, <2>3 DEF Put
  <2>5. new \in [DOMAIN new -> Version]
    BY <2>4
  <2>6. CASE manifest' = new
    BY <2>4, <2>5, <2>6
  <2>7. CASE pc = "release" /\ manifest' = manifest
    BY <2>2, <2>7
  <2> QED BY <2>3, <2>6, <2>7
<1>7. LegacyTypes'
  <2>1. InvocationTypes'
    BY <1>1, <1>3, <1>4, <1>5, Moved DEF LegacyInv, LegacyTypes, InvocationTypes, tables
  <2> QED BY <1>1, <1>6, <2>1 DEF LegacyInv, LegacyTypes, OutsideTypes, DailyTypes, TableTypes, outside, tables
<1>8. LeaseOf(r)'
  BY <1>1, <1>3, <1>4 DEF LeaseOf, Checking, WithBenchLm, WithLiteLlm, WithPages, Deriving, Staged
<1>9. EvidenceOf(r)'
  BY <1>1, <1>3, <1>4, <1>6 DEF EvidenceOf, WithBenchLm, WithLiteLlm, WithPages, Deriving, Staged
<1>10. StagingOf(r)'
  BY <1>1, <1>3, <1>4 DEF StagingOf, tables, Checking, Deriving, Staged, Ended
<1>11. \A d \in Refreshes : LeaseOf(d)' /\ EvidenceOf(d)' /\ StagingOf(d)'
  <2> SUFFICES ASSUME NEW d \in Refreshes \ {r} PROVE LeaseOf(d)' /\ EvidenceOf(d)' /\ StagingOf(d)'
    BY <1>8, <1>9, <1>10
  <2>1. invocation'[d] = invocation[d]
    BY <1>4 DEF Local, LegacyInv, LegacyTypes, InvocationTypes
  <2>2. LeaseOf(d) /\ EvidenceOf(d) /\ StagingOf(d)
    BY DEF LegacyInv, LeaseInv, EvidenceInv, TablesInv
  <2> QED BY <1>1, <1>6, <2>1, <2>2, LeftAlone
<1>12. EvidenceInv'
  <2>1. EvidenceFirst'
    BY <1>1, <1>6 DEF LegacyInv, EvidenceInv, EvidenceFirst, tables
  <2>2. \A at \in DOMAIN manifest' : <<"benchlm", 0, manifest'[at]>> \in snapshots'
    BY <1>1, <1>6 DEF LegacyInv, EvidenceInv
  <2> QED BY <1>11, <2>1, <2>2 DEF EvidenceInv
<1>13. TablesInv'
  BY <1>1, <1>11 DEF LegacyInv, TablesInv, RowsInv, tables
<1> QED BY <1>7, <1>11, <1>12, <1>13 DEF LegacyInv, LeaseInv

(* A step on the daily row that at most ends the lease of its invocation.  *)
LEMMA LeaseEnds ==
    ASSUME LegacyInv, NEW r \in Refreshes, NEW i \in Invocation, Local(r, i), InHand(i),
           i.previous \in DOMAIN rows \cup {None},
           UNCHANGED <<outside, manifest, snapshots, tables, clock>>,
           \/ daily' = daily
           \/ daily'.error = None /\ daily' \in [success : DOMAIN manifest \cup {None}, error : {None}],
           DailyTypes', LeaseOf(r)', EvidenceOf(r)', StagingOf(r)'
    PROVE  LegacyInv'
<1>1. LegacyTypes'
  <2>1. InvocationTypes'
    BY Moved DEF LegacyInv, LegacyTypes, InvocationTypes, tables
  <2> QED BY <2>1 DEF LegacyInv, LegacyTypes, OutsideTypes, TableTypes, outside, tables
<1>2. \A d \in Refreshes : LeaseOf(d)' /\ EvidenceOf(d)' /\ StagingOf(d)'
  <2> SUFFICES ASSUME NEW d \in Refreshes \ {r} PROVE LeaseOf(d)' /\ EvidenceOf(d)' /\ StagingOf(d)'
    OBVIOUS
  <2>1. invocation'[d] = invocation[d]
    BY DEF Local, LegacyInv, LegacyTypes, InvocationTypes
  <2>2. LeaseOf(d) /\ EvidenceOf(d) /\ StagingOf(d)
    BY DEF LegacyInv, LeaseInv, EvidenceInv, TablesInv
  <2>3. LeaseOf(d)'
    BY <2>1, <2>2 DEF LeaseOf
  <2> QED BY <2>1, <2>2, <2>3, LeftAlone
<1>3. EvidenceInv'
  BY <1>2, LegacyNone DEF LegacyInv, EvidenceInv, EvidenceFirst, tables
<1>4. TablesInv'
  BY <1>2 DEF LegacyInv, TablesInv, RowsInv, tables
<1> QED BY <1>1, <1>2, <1>3, <1>4 DEF LegacyInv, LeaseInv

(* Only the holder of the lease completes the check, with its own start.   *)
LEMMA CompleteKeeps ==
    ASSUME LegacyInv, NEW r \in Refreshes, NEW lost \in BOOLEAN, CompleteDailyCheck(r, lost)
    PROVE  LegacyInv'
<1>1. /\ invocation[r] \in Invocation /\ invocation[r].pc = "complete" /\ InHand(invocation[r])
      /\ UNCHANGED <<outside, manifest, snapshots, tables, clock>>
      /\ LeaseOf(r) /\ EvidenceOf(r) /\ StagingOf(r)
      /\ invocation[r].previous \in DOMAIN rows \cup {None}
  BY DEF CompleteDailyCheck, At, LegacyInv, LegacyTypes, InvocationTypes, LeaseInv, EvidenceInv, TablesInv
<1>2. invocation[r].at \in 1 .. MaxClock /\ invocation[r].at \in DOMAIN manifest
      /\ invocation[r].seen = invocation[r].at /\ cacheSet # r
  BY <1>1 DEF InHand, EvidenceOf, LeaseOf, StagingOf, Checking, Ended
<1>3. CASE daily.error # None /\ daily.error.owner = r
  <2>0. PICK pc \in {"litellm", "release"} : Go(r, pc)
    BY <1>1, <1>3 DEF CompleteDailyCheck, Replied, Busy
  <2>1. PICK i : i = [invocation[r] EXCEPT !.pc = pc]
    OBVIOUS
  <2>2. /\ i \in Invocation /\ i.pc = pc /\ i.previous = invocation[r].previous
        /\ i.at = invocation[r].at /\ i.catalog = invocation[r].catalog
        /\ i.benchlm = invocation[r].benchlm /\ i.seen = invocation[r].seen
    BY <1>1, <2>1 DEF Invocation, LegacyPc, WithBenchLm
  <2>3. /\ Local(r, i) /\ invocation'[r] = i
        /\ daily' = [success |-> invocation[r].at, error |-> None]
    BY <1>3, <2>0, <2>1 DEF CompleteDailyCheck, Go, Local, LegacyInv, LegacyTypes, InvocationTypes
  <2>4. InHand(i)
    BY <1>1, <2>2 DEF InHand, WithBenchLm, WithLiteLlm, WithPages, Checking, Ended, Deriving, Staged
  <2>5. DailyTypes' /\ daily'.error = None
        /\ daily' \in [success : DOMAIN manifest \cup {None}, error : {None}]
    BY <1>1, <1>2, <2>3 DEF DailyTypes, LegacyInv, LegacyTypes
  <2>6. LeaseOf(r)'
    BY <1>2, <2>2, <2>3, <2>5 DEF LeaseOf, Checking, WithBenchLm, WithLiteLlm, WithPages, Deriving, Staged
  <2>7. EvidenceOf(r)'
    BY <1>1, <2>2, <2>3 DEF EvidenceOf, WithBenchLm, WithLiteLlm, WithPages, Deriving, Staged
  <2>8. StagingOf(r)'
    BY <1>1, <1>2, <2>2, <2>3 DEF StagingOf, tables, Deriving, Staged, Ended
  <2> QED BY <1>1, <2>2, <2>3, <2>4, <2>5, <2>6, <2>7, <2>8, LeaseEnds
<1>4. CASE ~ (daily.error # None /\ daily.error.owner = r)
  <2>1. PICK i : i = [invocation[r] EXCEPT !.pc = "release"]
    OBVIOUS
  <2>2. /\ i \in Invocation /\ i.pc = "release" /\ i.previous = invocation[r].previous
        /\ i.at = invocation[r].at /\ i.catalog = invocation[r].catalog
    BY <1>1, <2>1 DEF Invocation, LegacyPc
  <2>3. Local(r, i) /\ invocation'[r] = i /\ daily' = daily /\ UNCHANGED <<daily, tables>>
    BY <1>1, <1>4, <2>1 DEF CompleteDailyCheck, Go, Local, LegacyInv, LegacyTypes, InvocationTypes
  <2>4. InHand(i) /\ LeaseOf(r)' /\ EvidenceOf(r)' /\ StagingOf(r)'
    BY <1>1, <1>2, <2>2, <2>3, EmptyHanded DEF Ended
  <2>5. DailyTypes'
    BY <1>1, <2>3 DEF DailyTypes, LegacyInv, LegacyTypes
  <2> QED BY <1>1, <2>2, <2>3, <2>4, <2>5, LeaseEnds
<1> QED BY <1>3, <1>4

(* Nobody releases the lease of another; a release that fails is           *)
(* remembered.                                                             *)
LEMMA ReleaseKeeps ==
    ASSUME LegacyInv, NEW r \in Refreshes, NEW lost \in BOOLEAN, ReleaseDailyCheck(r, lost)
    PROVE  LegacyInv'
<1>1. /\ invocation[r] \in Invocation /\ invocation[r].pc = "release" /\ InHand(invocation[r])
      /\ UNCHANGED <<outside, manifest, snapshots, tables, clock>>
      /\ LeaseOf(r) /\ EvidenceOf(r) /\ StagingOf(r)
      /\ invocation[r].previous \in DOMAIN rows \cup {None}
  BY DEF ReleaseDailyCheck, At, LegacyInv, LegacyTypes, InvocationTypes, LeaseInv, EvidenceInv, TablesInv
<1>2. PICK i : i = [invocation[r] EXCEPT !.pc = "record", !.left = lost]
  OBVIOUS
<1>3. /\ i \in Invocation /\ i.pc = "record" /\ i.previous = invocation[r].previous
      /\ i.at = invocation[r].at /\ i.left = lost
  BY <1>1, <1>2 DEF Invocation, LegacyPc
<1>4. Local(r, i) /\ invocation'[r] = i
  BY <1>2 DEF ReleaseDailyCheck, Local, LegacyInv, LegacyTypes, InvocationTypes
<1>5. InHand(i)
  BY <1>1, <1>3 DEF InHand, WithBenchLm, WithLiteLlm, WithPages, Checking, Ended, Deriving, Staged
<1>6. EvidenceOf(r)' /\ StagingOf(r)'
  BY <1>1, <1>3, <1>4 DEF EvidenceOf, StagingOf, tables, WithBenchLm, WithLiteLlm, WithPages, Deriving, Staged, Ended
<1>7. CASE daily' = [daily EXCEPT !.error = None]
  <2>1. daily' = [daily EXCEPT !.error = None]
    BY <1>7
  <2>2. DailyTypes /\ EvidenceFirst
    BY DEF LegacyInv, LegacyTypes, EvidenceInv
  <2>3. DailyTypes' /\ daily'.error = None
        /\ daily' \in [success : DOMAIN manifest \cup {None}, error : {None}]
    BY <1>1, <2>1, <2>2 DEF DailyTypes, EvidenceFirst
  <2>4. LeaseOf(r)'
    BY <1>3, <1>4, <2>3 DEF LeaseOf, Checking, WithBenchLm, WithLiteLlm, WithPages, Deriving, Staged
  <2> QED BY <1>1, <1>3, <1>4, <1>5, <1>6, <2>3, <2>4, LeaseEnds
<1>8. CASE daily' = daily /\ (lost \/ ~ (daily.error # None /\ daily.error.owner = r))
  <2>1. daily' = daily
    BY <1>8
  <2>2. DailyTypes'
    BY <1>1, <2>1 DEF DailyTypes, LegacyInv, LegacyTypes
  <2>3. LeaseOf(r)'
    BY <1>1, <1>3, <1>4, <1>8, <2>1 DEF LeaseOf, Checking, WithBenchLm, WithLiteLlm, WithPages, Deriving, Staged
  <2> QED BY <1>1, <1>3, <1>4, <1>5, <1>6, <2>1, <2>2, <2>3, LeaseEnds
<1> QED BY <1>7, <1>8 DEF ReleaseDailyCheck

(* An invocation that ends, or is killed, leaves the time of its start.    *)
LEMMA EndKeeps ==
    ASSUME LegacyInv, NEW r \in Refreshes, NEW pc \in {"failed", "dead"}, Ends(r, pc),
           UNCHANGED <<outside, daily, manifest, snapshots, tables, clock>>,
           invocation[r].pc # "new",
           pc = "dead" \/ invocation[r].pc = "record"
    PROVE  LegacyInv'
<1>1. invocation[r] \in Invocation /\ InHand(invocation[r]) /\ LeaseOf(r) /\ clock \in 1 .. MaxClock
  BY DEF LegacyInv, LegacyTypes, OutsideTypes, InvocationTypes, LeaseInv
<1>2. PICK i : i = [Idle EXCEPT !.pc = pc, !.at = invocation[r].at, !.left = invocation[r].left]
  OBVIOUS
<1>3. pc \in LegacyPc
  BY DEF LegacyPc, Ended
<1>4. /\ i \in Invocation /\ i.pc = pc /\ i.at = invocation[r].at /\ i.previous = None
      /\ i.left = invocation[r].left
  BY <1>1, <1>2, <1>3, EndOf
<1>5. Local(r, i) /\ invocation'[r] = i
  BY <1>2 DEF Ends, Local, LegacyInv, LegacyTypes, InvocationTypes
<1>6. InHand(i)
  BY <1>1, <1>4 DEF InHand, WithBenchLm, WithLiteLlm, WithPages, Checking, Ended, Deriving, Staged
<1>7. LeaseOf(r)'
  BY <1>1, <1>4, <1>5 DEF LeaseOf, Checking, WithBenchLm, WithLiteLlm, WithPages, Deriving, Staged
<1>8. EvidenceOf(r)' /\ StagingOf(r)'
  BY <1>4, <1>5 DEF EvidenceOf, StagingOf, WithBenchLm, WithLiteLlm, WithPages, Deriving, Staged, Ended
<1> QED BY <1>1, <1>4, <1>5, <1>6, <1>7, <1>8, OwnStep
-----------------------------------------------------------------------------
(***************************************************************************)
(* The other sources.                                                      *)
(***************************************************************************)

(* What is said of an invocation that fetches the other sources.           *)
LEMMA Fetching ==
    ASSUME NEW r \in Refreshes, NEW i \in Invocation, invocation'[r] = i,
           UNCHANGED <<daily, manifest, snapshots, tables>>,
           LeaseOf(r), EvidenceOf(r), StagingOf(r), InHand(invocation[r]),
           invocation[r].pc \in {"litellm", "lmarena", "hub"}, i.pc \in {"lmarena", "hub"},
           i.at = invocation[r].at, i.catalog = invocation[r].catalog, i.previous = invocation[r].previous,
           i.benchlm = invocation[r].benchlm, i.seen = invocation[r].seen, i.litellm \in Version
    PROVE  InHand(i) /\ LeaseOf(r)' /\ EvidenceOf(r)' /\ StagingOf(r)'
<1>1. InHand(i)
  BY DEF InHand, WithBenchLm, WithLiteLlm, WithPages, Checking, Ended, Deriving, Staged
<1>2. LeaseOf(r)'
  BY DEF LeaseOf, Checking, WithBenchLm, WithLiteLlm, WithPages, Deriving, Staged
<1>3. EvidenceOf(r)'
  BY DEF EvidenceOf, WithBenchLm, WithLiteLlm, WithPages, Deriving, Staged
<1>4. StagingOf(r)'
  BY DEF StagingOf, tables, Deriving, Staged, Ended
<1> QED BY <1>1, <1>2, <1>3, <1>4

(* A call of a run that holds no lease fails.                              *)
LEMMA GivesUp ==
    ASSUME LegacyInv, NEW r \in Refreshes, Go(r, "record"),
           invocation[r].pc \in {"active", "claim", "await", "litellm", "lmarena", "hub", "evidence"},
           UNCHANGED <<outside, daily, manifest, snapshots, tables, clock>>
    PROVE  LegacyInv'
<1>1. /\ invocation[r] \in Invocation /\ InHand(invocation[r]) /\ LeaseOf(r) /\ StagingOf(r)
      /\ invocation[r].previous \in DOMAIN rows \cup {None} /\ clock' \in 1 .. MaxClock
      /\ UNCHANGED <<daily, tables>>
  BY DEF LegacyInv, LegacyTypes, OutsideTypes, InvocationTypes, LeaseInv, TablesInv
<1>2. PICK i : i = [invocation[r] EXCEPT !.pc = "record"]
  OBVIOUS
<1>3. /\ i \in Invocation /\ i.pc = "record" /\ i.previous = invocation[r].previous
      /\ i.at = invocation[r].at /\ i.catalog = invocation[r].catalog
  BY <1>1, <1>2 DEF Invocation, LegacyPc
<1>4. Local(r, i) /\ invocation'[r] = i
  BY <1>2 DEF Go, Local, LegacyInv, LegacyTypes, InvocationTypes
<1>5. invocation[r].pc \notin Ended \cup {"new", "record"}
      /\ invocation[r].pc \notin Checking \cup {"fetch", "release"}
  BY DEF Ended, Checking
<1>6. InHand(i) /\ LeaseOf(r)' /\ EvidenceOf(r)' /\ StagingOf(r)'
  BY <1>1, <1>3, <1>4, <1>5, EmptyHanded
<1> QED BY <1>1, <1>3, <1>4, <1>6, OwnStep

(* LiteLLM answers, or the run fails.                                      *)
LEMMA LiteLlmKeeps ==
    ASSUME LegacyInv, NEW r \in Refreshes, NEW outcome \in Outcome, FetchLiteLlm(r, outcome)
    PROVE  LegacyInv'
<1>1. /\ invocation[r] \in Invocation /\ invocation[r].pc = "litellm" /\ InHand(invocation[r])
      /\ UNCHANGED <<outside, daily, manifest, snapshots, tables, clock>>
      /\ LeaseOf(r) /\ EvidenceOf(r) /\ StagingOf(r) /\ clock' \in 1 .. MaxClock
      /\ invocation[r].previous \in DOMAIN rows \cup {None}
      /\ served.litellm \in Version /\ served.litellm \in Amount
  <2>1. /\ invocation[r] \in Invocation /\ invocation[r].pc = "litellm" /\ InHand(invocation[r])
        /\ UNCHANGED <<outside, daily, manifest, snapshots, tables, clock>>
        /\ LeaseOf(r) /\ EvidenceOf(r) /\ StagingOf(r) /\ clock \in 1 .. MaxClock
        /\ invocation[r].previous \in DOMAIN rows \cup {None}
    BY DEF FetchLiteLlm, At, LegacyInv, LegacyTypes, InvocationTypes, LeaseInv, EvidenceInv, TablesInv, OutsideTypes
  <2>2. served.litellm \in Version
    BY DEF LegacyInv, LegacyTypes, OutsideTypes, Supply
  <2>3. served.litellm \in Amount
    BY <2>2, LegacyBounds DEF Version, Amount
  <2> QED BY <2>1, <2>2, <2>3
<1>2. CASE outcome = "answered"
  <2>1. PICK i : i = [invocation[r] EXCEPT !.pc = "lmarena", !.litellm = served.litellm]
    OBVIOUS
  <2>2. /\ i \in Invocation /\ i.pc = "lmarena" /\ i.previous = invocation[r].previous
        /\ i.at = invocation[r].at /\ i.catalog = invocation[r].catalog
        /\ i.benchlm = invocation[r].benchlm /\ i.seen = invocation[r].seen /\ i.litellm = served.litellm
    BY <1>1, <2>1 DEF Invocation, LegacyPc, WithBenchLm, WithLiteLlm
  <2>3. Local(r, i) /\ invocation'[r] = i
    BY <1>2, <2>1 DEF FetchLiteLlm, Local, LegacyInv, LegacyTypes, InvocationTypes
  <2>4. InHand(i) /\ LeaseOf(r)' /\ EvidenceOf(r)' /\ StagingOf(r)'
    BY <1>1, <2>2, <2>3, Fetching
  <2> QED BY <1>1, <2>2, <2>3, <2>4, OwnStep
<1>3. CASE outcome # "answered"
  <2>1. Go(r, "record")
    BY <1>3 DEF FetchLiteLlm, Go, Local
  <2> QED BY <1>1, <2>1, GivesUp
<1> QED BY <1>2, <1>3

(* A page comes as it is served, or as it is stored with the dataset of    *)
(* the row it was stored with.                                             *)
LEMMA PageKeeps ==
    ASSUME LegacyInv, NEW r \in Refreshes, NEW outcome \in Outcome, NEW p \in LPage,
           NEW notModified \in BOOLEAN, FetchPage(r, p, outcome, notModified)
    PROVE  LegacyInv'
<1>1. /\ invocation[r] \in Invocation /\ invocation[r].pc = "lmarena" /\ InHand(invocation[r])
      /\ UNCHANGED <<outside, daily, manifest, snapshots, tables, clock>>
      /\ LeaseOf(r) /\ EvidenceOf(r) /\ StagingOf(r) /\ clock' \in 1 .. MaxClock
      /\ invocation[r].previous \in DOMAIN rows \cup {None}
      /\ invocation[r].litellm \in Version
  <2>1. /\ invocation[r] \in Invocation /\ invocation[r].pc = "lmarena" /\ InHand(invocation[r])
        /\ UNCHANGED <<outside, daily, manifest, snapshots, tables, clock>>
        /\ LeaseOf(r) /\ EvidenceOf(r) /\ StagingOf(r) /\ clock \in 1 .. MaxClock
        /\ invocation[r].previous \in DOMAIN rows \cup {None}
    BY DEF FetchPage, At, LegacyInv, LegacyTypes, InvocationTypes, LeaseInv, EvidenceInv, TablesInv, OutsideTypes
  <2>2. invocation[r].litellm \in Version
    BY <2>1 DEF InHand, WithLiteLlm
  <2> QED BY <2>1, <2>2
<1>2. CASE outcome = "answered"
  <2>1. PICK dataset : dataset = IF notModified THEN rows[invocation[r].previous].dataset[p] ELSE served.dataset
    OBVIOUS
  <2>2. dataset \in Version /\ served.page[p] \in Version
    <3>1. served \in Supply /\ rows \in [DOMAIN rows -> RowType]
      BY DEF LegacyInv, LegacyTypes, OutsideTypes, TableTypes
    <3>2. served.dataset \in Version /\ served.page[p] \in Version
      BY <3>1 DEF Supply
    <3>3. CASE notModified
      <4>1. rows[invocation[r].previous] \in RowType
        BY <1>1, <3>1, <3>3 DEF FetchPage
      <4> QED BY <2>1, <3>2, <3>3, <4>1 DEF RowType
    <3>4. CASE ~ notModified
      BY <2>1, <3>2, <3>4
    <3> QED BY <3>3, <3>4
  <2>3. PICK new : new = [content |-> served.page[p], dataset |-> dataset]
    OBVIOUS
  <2>4. new \in Page
    BY <2>2, <2>3 DEF Page
  <2>5. PICK i : i = [invocation[r] EXCEPT !.page[p] = new]
    OBVIOUS
  <2>6. /\ i \in Invocation /\ i.pc = "lmarena" /\ i.previous = invocation[r].previous
        /\ i.at = invocation[r].at /\ i.catalog = invocation[r].catalog
        /\ i.benchlm = invocation[r].benchlm /\ i.seen = invocation[r].seen
        /\ i.litellm = invocation[r].litellm
    <3>1. invocation[r].page \in [LPage -> Page \cup {None}]
      BY <1>1 DEF Invocation
    <3>2. [invocation[r].page EXCEPT ![p] = new] \in [LPage -> Page \cup {None}]
      BY <2>4, <3>1
    <3>3. i = [invocation[r] EXCEPT !.page = [invocation[r].page EXCEPT ![p] = new]]
      BY <2>5
    <3> QED BY <1>1, <3>2, <3>3 DEF Invocation
  <2>7. Local(r, i) /\ invocation'[r] = i
    <3>1. Local(r, i)
      BY <1>2, <2>1, <2>3, <2>5 DEF FetchPage
    <3> QED BY <3>1 DEF Local, LegacyInv, LegacyTypes, InvocationTypes
  <2>8. InHand(i) /\ LeaseOf(r)' /\ EvidenceOf(r)' /\ StagingOf(r)'
    BY <1>1, <2>6, <2>7, Fetching
  <2> QED BY <1>1, <2>6, <2>7, <2>8, OwnStep
<1>3. CASE outcome = "transient"
  <2>1. PICK i : i = [invocation[r] EXCEPT !.pc = "hub"]
    OBVIOUS
  <2>2. /\ i \in Invocation /\ i.pc = "hub" /\ i.previous = invocation[r].previous
        /\ i.at = invocation[r].at /\ i.catalog = invocation[r].catalog
        /\ i.benchlm = invocation[r].benchlm /\ i.seen = invocation[r].seen
        /\ i.litellm = invocation[r].litellm
    BY <1>1, <2>1 DEF Invocation, LegacyPc, WithBenchLm, WithLiteLlm
  <2>3. Local(r, i) /\ invocation'[r] = i
    BY <1>3, <2>1 DEF FetchPage, Local, LegacyInv, LegacyTypes, InvocationTypes
  <2>4. InHand(i) /\ LeaseOf(r)' /\ EvidenceOf(r)' /\ StagingOf(r)'
    BY <1>1, <2>2, <2>3, Fetching
  <2> QED BY <1>1, <2>2, <2>3, <2>4, OwnStep
<1>4. CASE outcome = "refused"
  <2>1. Go(r, "record")
    BY <1>4 DEF FetchPage, Go, Local
  <2> QED BY <1>1, <2>1, GivesUp
<1> QED BY <1>2, <1>3, <1>4 DEF Outcome

(* The pages of the hub are all of one dataset.                            *)
LEMMA HubKeeps ==
    ASSUME LegacyInv, NEW r \in Refreshes, NEW outcome \in Outcome, FetchHub(r, outcome)
    PROVE  LegacyInv'
<1>1. /\ invocation[r] \in Invocation /\ invocation[r].pc = "hub" /\ InHand(invocation[r])
      /\ UNCHANGED <<outside, daily, manifest, snapshots, tables, clock>>
      /\ LeaseOf(r) /\ EvidenceOf(r) /\ StagingOf(r) /\ clock' \in 1 .. MaxClock
      /\ invocation[r].previous \in DOMAIN rows \cup {None}
      /\ invocation[r].litellm \in Version
  <2>1. /\ invocation[r] \in Invocation /\ invocation[r].pc = "hub" /\ InHand(invocation[r])
        /\ UNCHANGED <<outside, daily, manifest, snapshots, tables, clock>>
        /\ LeaseOf(r) /\ EvidenceOf(r) /\ StagingOf(r) /\ clock \in 1 .. MaxClock
        /\ invocation[r].previous \in DOMAIN rows \cup {None}
    BY DEF FetchHub, At, LegacyInv, LegacyTypes, InvocationTypes, LeaseInv, EvidenceInv, TablesInv, OutsideTypes
  <2>2. invocation[r].litellm \in Version
    BY <2>1 DEF InHand, WithLiteLlm
  <2> QED BY <2>1, <2>2
<1>2. CASE outcome = "answered"
  <2>1. PICK page : page = [p \in LPage |-> [content |-> served.page[p], dataset |-> served.dataset]]
    OBVIOUS
  <2>2. page \in [LPage -> Page \cup {None}]
    <3>1. \A p \in LPage : [content |-> served.page[p], dataset |-> served.dataset] \in Page
      BY DEF LegacyInv, LegacyTypes, OutsideTypes, Supply, Page
    <3> QED BY <2>1, <3>1
  <2>3. PICK i : i = [invocation[r] EXCEPT !.pc = "lmarena", !.page = page]
    OBVIOUS
  <2>4. /\ i \in Invocation /\ i.pc = "lmarena" /\ i.previous = invocation[r].previous
        /\ i.at = invocation[r].at /\ i.catalog = invocation[r].catalog
        /\ i.benchlm = invocation[r].benchlm /\ i.seen = invocation[r].seen
        /\ i.litellm = invocation[r].litellm
    BY <1>1, <2>2, <2>3 DEF Invocation, LegacyPc, WithBenchLm, WithLiteLlm
  <2>5. Local(r, i) /\ invocation'[r] = i
    <3>1. Local(r, i)
      BY <1>2, <2>1, <2>3 DEF FetchHub
    <3> QED BY <3>1 DEF Local, LegacyInv, LegacyTypes, InvocationTypes
  <2>6. InHand(i) /\ LeaseOf(r)' /\ EvidenceOf(r)' /\ StagingOf(r)'
    BY <1>1, <2>4, <2>5, Fetching
  <2> QED BY <1>1, <2>4, <2>5, <2>6, OwnStep
<1>3. CASE outcome # "answered"
  <2>1. Go(r, "record")
    BY <1>3 DEF FetchHub, Go, Local
  <2> QED BY <1>1, <2>1, GivesUp
<1> QED BY <1>2, <1>3

(* What is derived from an invocation that keeps its sources.              *)
LEMMA SameContents ==
    ASSUME NEW r \in Refreshes, NEW i, invocation'[r] = i,
           i.catalog = invocation[r].catalog, i.previous = invocation[r].previous,
           i.benchlm = invocation[r].benchlm, i.litellm = invocation[r].litellm,
           i.page = invocation[r].page
    PROVE  /\ Candidate(r)' = Candidate(r)
           /\ Unchanged(r)' <=> Unchanged(r)
           /\ OneDataset(r)' <=> OneDataset(r)
<1>1. Candidate(r)' = Candidate(r) /\ (OneDataset(r)' <=> OneDataset(r))
  BY DEF Candidate, OneDataset
<1> QED BY <1>1 DEF Unchanged

(* An invocation that goes on with what it has in hand.                    *)
LEMMA GoesOn ==
    ASSUME LegacyInv, NEW r \in Refreshes, NEW pc \in WithPages, Go(r, pc),
           \/ invocation[r].pc \in WithPages
           \/ invocation[r].pc = "lmarena" /\ \A p \in LPage : invocation[r].page[p] # None
    PROVE  \E i \in Invocation :
              /\ Local(r, i) /\ invocation'[r] = i /\ InHand(i)
              /\ i = [invocation[r] EXCEPT !.pc = pc] /\ i.pc = pc
              /\ i.previous = invocation[r].previous /\ i.at = invocation[r].at /\ i.seen = invocation[r].seen
              /\ i.benchlm = invocation[r].benchlm
              /\ Candidate(r)' = Candidate(r)
              /\ Unchanged(r)' <=> Unchanged(r)
              /\ OneDataset(r)' <=> OneDataset(r)
<1>1. invocation[r] \in Invocation /\ InHand(invocation[r])
  BY DEF LegacyInv, LegacyTypes, InvocationTypes
<1>2. PICK i : i = [invocation[r] EXCEPT !.pc = pc]
  OBVIOUS
<1>3. pc \in LegacyPc
  BY DEF LegacyPc, WithBenchLm, WithLiteLlm
<1>4. /\ i \in Invocation /\ i.pc = pc /\ i.previous = invocation[r].previous
      /\ i.at = invocation[r].at /\ i.seen = invocation[r].seen /\ i.catalog = invocation[r].catalog
      /\ i.benchlm = invocation[r].benchlm /\ i.litellm = invocation[r].litellm /\ i.page = invocation[r].page
  BY <1>1, <1>2, <1>3, GoTo
<1>5. Local(r, i) /\ invocation'[r] = i
  BY <1>2 DEF Go, Local, LegacyInv, LegacyTypes, InvocationTypes
<1>6. InHand(i)
  BY <1>1, <1>4 DEF InHand, WithBenchLm, WithLiteLlm, WithPages, Checking, Ended, Deriving, Staged
<1>7. Candidate(r)' = Candidate(r) /\ (Unchanged(r)' <=> Unchanged(r)) /\ (OneDataset(r)' <=> OneDataset(r))
  BY <1>4, <1>5, SameContents
<1> QED BY <1>2, <1>4, <1>5, <1>6, <1>7

(* The facts of an invocation that goes on are still of its day.           *)
LEMMA LeaseGoesOn ==
    ASSUME NEW r \in Refreshes, NEW i, invocation'[r] = i, UNCHANGED daily, LeaseOf(r),
           invocation[r].pc \in WithBenchLm \ {"cleanup"}, i.pc \in WithPages,
           i.at = invocation[r].at, i.seen = invocation[r].seen
    PROVE  LeaseOf(r)'
BY DEF LeaseOf, Checking, WithBenchLm, WithLiteLlm, WithPages, Deriving, Staged

(* The pages are of one dataset from here on, and a new revision is new.   *)
LEMMA DeriveKeeps == ASSUME LegacyInv, NEW r \in Refreshes, DeriveRevision(r) PROVE LegacyInv'
<1>1. /\ invocation[r].pc = "lmarena" /\ \A p \in LPage : invocation[r].page[p] # None
      /\ UNCHANGED <<outside, daily, manifest, snapshots, tables, clock>> /\ UNCHANGED daily
      /\ LeaseOf(r) /\ EvidenceOf(r) /\ StagingOf(r) /\ clock' \in 1 .. MaxClock
      /\ invocation[r].previous \in DOMAIN rows \cup {None}
  BY DEF DeriveRevision, At, LegacyInv, LegacyTypes, InvocationTypes, LeaseInv, EvidenceInv, TablesInv, OutsideTypes
<1>2. CASE ~ OneDataset(r)
  <2>1. Go(r, "record")
    BY <1>2 DEF DeriveRevision, Go, Local
  <2> QED BY <1>1, <2>1, GivesUp
<1>3. CASE OneDataset(r)
  <2>1. PICK pc \in {"responses", "evidence"} : Go(r, pc) /\ (pc = "evidence" <=> ~ Unchanged(r))
    <3>1. CASE Unchanged(r)
      <4>1. Go(r, "responses")
        BY <1>3, <3>1 DEF DeriveRevision, Go, Local
      <4> QED BY <3>1, <4>1
    <3>2. CASE ~ Unchanged(r)
      <4>1. Go(r, "evidence")
        BY <1>3, <3>2 DEF DeriveRevision, Go, Local
      <4> QED BY <3>2, <4>1
    <3> QED BY <3>1, <3>2
  <2>2. pc \in WithPages
    BY DEF WithPages, Deriving, Staged
  <2>3. PICK i \in Invocation :
              /\ Local(r, i) /\ invocation'[r] = i /\ InHand(i) /\ i.pc = pc
              /\ i.previous = invocation[r].previous /\ i.at = invocation[r].at /\ i.seen = invocation[r].seen
              /\ i.benchlm = invocation[r].benchlm
              /\ Unchanged(r)' <=> Unchanged(r)
              /\ OneDataset(r)' <=> OneDataset(r)
    BY <1>1, <2>1, <2>2, GoesOn
  <2>4. LeaseOf(r)'
    BY <1>1, <2>2, <2>3, LeaseGoesOn DEF WithBenchLm, WithLiteLlm
  <2>5. EvidenceOf(r)'
    BY <1>1, <2>3 DEF EvidenceOf, WithBenchLm, WithLiteLlm
  <2>6. StagingOf(r)'
    BY <1>1, <1>3, <2>1, <2>3 DEF StagingOf, tables, Deriving, Staged, Ended
  <2> QED BY <1>1, <2>3, <2>4, <2>5, <2>6, OwnStep
<1> QED BY <1>2, <1>3
-----------------------------------------------------------------------------
(***************************************************************************)
(* Staging, commit and cleanup.                                            *)
(***************************************************************************)

(* A step of an invocation on the tables or on the evidence.               *)
LEMMA TableStep ==
    ASSUME LegacyInv, NEW r \in Refreshes, NEW i \in Invocation, Local(r, i), InHand(i),
           i.previous \in DOMAIN rows' \cup {None},
           \A d \in Refreshes \ {r} : invocation[d].previous \in DOMAIN rows' \cup {None},
           UNCHANGED <<outside, daily, manifest, clock>>, snapshots \subseteq snapshots',
           TableTypes', \A c \in DOMAIN rows' : Sources(c) \subseteq snapshots',
           RowsInv', LeaseOf(r)', EvidenceOf(r)', \A d \in Refreshes : StagingOf(d)'
    PROVE  LegacyInv'
<1>1. LegacyTypes'
  <2>1. InvocationTypes'
    BY Moved DEF LegacyInv
  <2> QED BY <2>1 DEF LegacyInv, LegacyTypes, OutsideTypes, DailyTypes, outside
<1>2. \A d \in Refreshes : LeaseOf(d)' /\ EvidenceOf(d)'
  <2> SUFFICES ASSUME NEW d \in Refreshes \ {r} PROVE LeaseOf(d)' /\ EvidenceOf(d)'
    OBVIOUS
  <2>1. invocation'[d] = invocation[d]
    BY DEF Local, LegacyInv, LegacyTypes, InvocationTypes
  <2>2. LeaseOf(d) /\ EvidenceOf(d)
    BY DEF LegacyInv, LeaseInv, EvidenceInv
  <2> QED BY <2>1, <2>2, LeftAlone
<1>3. EvidenceInv'
  BY <1>2 DEF LegacyInv, EvidenceInv, EvidenceFirst
<1>4. TablesInv'
  BY DEF TablesInv
<1> QED BY <1>1, <1>2, <1>3, <1>4 DEF LegacyInv, LeaseInv

(* The row of a revision comes after its evidence.                         *)
LEMMA EvidenceKeeps ==
    ASSUME LegacyInv, NEW r \in Refreshes, NEW lost \in BOOLEAN, WriteEvidence(r, lost)
    PROVE  LegacyInv'
<1>1. /\ invocation[r].pc = "evidence" /\ invocation[r] \in Invocation /\ InHand(invocation[r])
      /\ UNCHANGED <<outside, daily, manifest, clock>> /\ UNCHANGED tables /\ UNCHANGED daily
      /\ LeaseOf(r) /\ EvidenceOf(r) /\ StagingOf(r)
      /\ invocation[r].previous \in DOMAIN rows \cup {None}
      /\ snapshots' = snapshots \cup (Sources(Candidate(r)) \ {<<"benchlm", 0, invocation[r].benchlm>>})
  BY DEF WriteEvidence, At, LegacyInv, LegacyTypes, InvocationTypes, LeaseInv, EvidenceInv, TablesInv, OutsideTypes
<1>2. PICK i \in Invocation :
              /\ Local(r, i) /\ invocation'[r] = i /\ InHand(i)
              /\ i.previous = invocation[r].previous
              /\ LeaseOf(r)' /\ EvidenceOf(r)' /\ StagingOf(r)'
  <2>1. CASE lost
    <3>1. Go(r, "record")
      BY <1>1, <2>1 DEF WriteEvidence, Replied, Busy
    <3>2. PICK i : i = [invocation[r] EXCEPT !.pc = "record"]
      OBVIOUS
    <3>3. /\ i \in Invocation /\ i.pc = "record" /\ i.previous = invocation[r].previous
          /\ i.at = invocation[r].at /\ i.catalog = invocation[r].catalog
      BY <1>1, <3>2 DEF Invocation, LegacyPc
    <3>4. Local(r, i) /\ invocation'[r] = i
      BY <3>1, <3>2 DEF Go, Local, LegacyInv, LegacyTypes, InvocationTypes
    <3>5. InHand(i) /\ LeaseOf(r)' /\ EvidenceOf(r)' /\ StagingOf(r)'
      BY <1>1, <3>3, <3>4, EmptyHanded DEF Ended, Checking
    <3> QED BY <3>3, <3>4, <3>5
  <2>2. CASE ~ lost
    <3>1. Go(r, "row")
      BY <1>1, <2>2 DEF WriteEvidence, Replied
    <3>2. PICK i \in Invocation :
              /\ Local(r, i) /\ invocation'[r] = i /\ InHand(i) /\ i.pc = "row"
              /\ i.previous = invocation[r].previous /\ i.at = invocation[r].at /\ i.seen = invocation[r].seen
              /\ i.benchlm = invocation[r].benchlm
              /\ Candidate(r)' = Candidate(r)
              /\ Unchanged(r)' <=> Unchanged(r)
              /\ OneDataset(r)' <=> OneDataset(r)
      <4>1. invocation[r].pc \in WithPages /\ "row" \in WithPages
        BY <1>1 DEF WithPages, Deriving
      <4> QED BY <3>1, <4>1, GoesOn
    <3>3. LeaseOf(r)'
      BY <1>1, <3>2, LeaseGoesOn DEF WithBenchLm, WithLiteLlm, WithPages, Deriving
    <3>4. EvidenceOf(r)'
      <4>1. <<"benchlm", 0, invocation[r].benchlm>> \in snapshots
        BY <1>1 DEF EvidenceOf, WithBenchLm, WithLiteLlm, WithPages, Deriving
      <4>2. Sources(Candidate(r)) \subseteq snapshots'
        BY <1>1, <4>1
      <4>3. Sources(Candidate(r)') \subseteq snapshots'
        BY <3>2, <4>2
      <4>4. Sources(Candidate(r))' = Sources(Candidate(r)')
        BY DEF Sources
      <4> QED BY <1>1, <3>2, <4>1, <4>3, <4>4 DEF EvidenceOf
    <3>5. StagingOf(r)'
      BY <1>1, <3>2 DEF StagingOf, tables, Deriving, Staged, Ended
    <3> QED BY <3>2, <3>3, <3>4, <3>5
  <2> QED BY <2>1, <2>2
<1>3. \A d \in Refreshes : StagingOf(d)'
  <2> SUFFICES ASSUME NEW d \in Refreshes \ {r} PROVE StagingOf(d)'
    BY <1>2
  <2>1. invocation'[d] = invocation[d] /\ StagingOf(d)
    BY <1>2 DEF Local, LegacyInv, LegacyTypes, InvocationTypes, TablesInv
  <2> QED BY <1>1, <2>1, LeftAlone
<1>4. /\ TableTypes' /\ RowsInv' /\ \A c \in DOMAIN rows' : Sources(c) \subseteq snapshots'
      /\ \A d \in Refreshes : invocation[d].previous \in DOMAIN rows' \cup {None}
  BY <1>1 DEF LegacyInv, LegacyTypes, TableTypes, InvocationTypes, TablesInv, RowsInv, EvidenceInv, EvidenceFirst, tables
<1> QED BY <1>1, <1>2, <1>3, <1>4, TableStep

(* A batch fails: the run goes to its cleanup with what it staged.         *)
LEMMA BatchFails ==
    ASSUME LegacyInv, NEW r \in Refreshes, Go(r, "cleanup"),
           invocation[r].pc \in {"row", "facts", "responses", "commit"},
           UNCHANGED <<outside, daily, manifest, snapshots, tables, clock>>
    PROVE  LegacyInv'
<1>1. /\ LeaseOf(r) /\ EvidenceOf(r) /\ StagingOf(r) /\ clock' \in 1 .. MaxClock
      /\ invocation[r].previous \in DOMAIN rows \cup {None} /\ UNCHANGED daily
  BY DEF LegacyInv, LegacyTypes, InvocationTypes, LeaseInv, EvidenceInv, TablesInv, OutsideTypes
<1>2. PICK i \in Invocation :
              /\ Local(r, i) /\ invocation'[r] = i /\ InHand(i) /\ i.pc = "cleanup"
              /\ i.previous = invocation[r].previous /\ i.at = invocation[r].at /\ i.seen = invocation[r].seen
              /\ i.benchlm = invocation[r].benchlm
              /\ Candidate(r)' = Candidate(r)
  <2>1. invocation[r].pc \in WithPages /\ "cleanup" \in WithPages
    BY DEF WithPages, Deriving, Staged
  <2> QED BY <2>1, GoesOn
<1>3. LeaseOf(r)'
  BY <1>1, <1>2, LeaseGoesOn DEF WithBenchLm, WithLiteLlm, WithPages, Deriving, Staged
<1>4. EvidenceOf(r)'
  BY <1>1, <1>2 DEF EvidenceOf, WithBenchLm, WithLiteLlm, WithPages, Deriving, Staged
<1>5. StagingOf(r)'
  BY <1>1, <1>2 DEF StagingOf, tables, Deriving, Staged, Ended
<1> QED BY <1>1, <1>2, <1>3, <1>4, <1>5, OwnStep

(* What a step on the rows and responses leaves of another invocation.     *)
LEMMA OthersStage ==
    ASSUME NEW d \in Refreshes, invocation'[d] = invocation[d], StagingOf(d),
           invocation[d].previous # None => rows'[invocation[d].previous].state # "pending",
           \* The row that d owns is the same or fuller, and d owns no other.
           Candidate(d) \in DOMAIN rows' /\ rows'[Candidate(d)].owner = d =>
              /\ Candidate(d) \in DOMAIN rows /\ rows[Candidate(d)].owner = d
              /\ rows[Candidate(d)].state = "pending" => rows'[Candidate(d)].state = "pending"
              /\ rows[Candidate(d)].facts => rows'[Candidate(d)].facts,
           d \in DOMAIN responses' => d \in DOMAIN responses /\ responses'[d] = responses[d],
           cacheSet' = d => cacheSet = d
    PROVE  StagingOf(d)'
<1>1. Candidate(d)' = Candidate(d) /\ (OneDataset(d)' <=> OneDataset(d)) /\ (Unchanged(d)' <=> Unchanged(d))
  BY LeftAlone
<1>2. Owns(d)' => /\ Owns(d)
                  /\ rows[Candidate(d)].state = "pending" => rows'[Candidate(d)].state = "pending"
                  /\ (rows[Candidate(d)].facts => rows'[Candidate(d)].facts)
  BY <1>1 DEF Owns
<1>3. invocation[d].pc \in Staged \cup {"facts"} /\ ~ Unchanged(d) /\ Owns(d)' =>
          /\ rows'[Candidate(d)].state = "pending"
          /\ invocation[d].pc \in Staged => rows'[Candidate(d)].facts
  BY <1>2 DEF StagingOf
<1>4. invocation[d].pc = "commit" /\ d \in DOMAIN responses' => responses'[d] = Candidate(d)
  BY DEF StagingOf
<1>5. cacheSet' = d => invocation[d].pc \in Ended \cup {"cleanup", "record"}
  BY DEF StagingOf
<1>6. /\ invocation[d].pc \in Deriving \cup Staged => OneDataset(d)
      /\ invocation[d].pc \in Deriving => ~ Unchanged(d)
  BY DEF StagingOf
<1> QED BY <1>1, <1>3, <1>4, <1>5, <1>6 DEF StagingOf

(* A row is inserted where there is none, or in the place of one that      *)
(* nobody has touched for the window; its old owner owns it no more.       *)
LEMMA RowKeeps ==
    ASSUME LegacyInv, NEW r \in Refreshes, NEW lost \in BOOLEAN, StageRow(r, lost)
    PROVE  LegacyInv'
<1>1. /\ invocation[r].pc = "row" /\ invocation[r].pc \in WithPages
      /\ UNCHANGED <<outside, daily, manifest, snapshots, active, responses, cacheSet, clock>>
      /\ UNCHANGED daily
      /\ LeaseOf(r) /\ EvidenceOf(r) /\ StagingOf(r)
      /\ invocation[r].previous \in DOMAIN rows \cup {None}
      /\ TableTypes /\ RowsInv
  BY DEF StageRow, At, LegacyInv, LegacyTypes, InvocationTypes, LeaseInv, EvidenceInv, TablesInv, OutsideTypes,
         WithPages, Deriving
<1>2. PICK c : c = Candidate(r)
  OBVIOUS
<1>3. CASE c \in DOMAIN rows /\ ~ Expired(r)
  <2>1. Go(r, "cleanup") /\ UNCHANGED rows
    BY <1>2, <1>3 DEF StageRow
  <2> QED BY <1>1, <2>1, BatchFails DEF tables
<1>4. CASE ~ (c \in DOMAIN rows /\ ~ Expired(r))
  <2>1. PICK pc \in {"facts", "cleanup"} : Go(r, pc) /\ rows' = Put(rows, c, Pending(r))
    BY <1>1, <1>2, <1>4 DEF StageRow, Replied, Busy
  <2>2. PICK i \in Invocation :
              /\ Local(r, i) /\ invocation'[r] = i /\ InHand(i) /\ i.pc = pc
              /\ i.previous = invocation[r].previous /\ i.at = invocation[r].at /\ i.seen = invocation[r].seen
              /\ i.benchlm = invocation[r].benchlm
              /\ Candidate(r)' = Candidate(r)
              /\ Unchanged(r)' <=> Unchanged(r)
              /\ OneDataset(r)' <=> OneDataset(r)
    <3>1. pc \in WithPages
      BY DEF WithPages, Deriving
    <3> QED BY <1>1, <2>1, <3>1, GoesOn
  <2>3. PICK new : new = Pending(r)
    OBVIOUS
  <2>4. c \in LegacyRevision /\ new \in RowType
    BY <1>1, <1>2, <2>3, CandidateTyped, PendingTyped DEF LegacyInv
  <2>5. new.state = "pending" /\ new.owner = r /\ \A p, q \in LPage : new.dataset[p] = new.dataset[q]
    BY <1>1, <2>3 DEF Pending, StagingOf, OneDataset, Deriving
  <2>6. c \in DOMAIN rows => rows[c].state = "pending"
    BY <1>2, <1>4 DEF Expired
  <2>7. /\ DOMAIN rows' = DOMAIN rows \cup {c} /\ rows'[c] = new
        /\ \A e \in DOMAIN rows : e # c => rows'[e] = rows[e]
    BY <2>1, <2>3 DEF Put
  <2>8. c # active /\ (active # None => active \in DOMAIN rows /\ rows'[active] = rows[active])
    <3>1. active # None => active \in DOMAIN rows
      BY <1>1 DEF TableTypes
    <3>2. active # None => active # c
      BY <1>1, <2>6, <3>1 DEF RowsInv
    <3>3. c # None
      BY <2>4, LegacyNone
    <3> QED BY <2>7, <3>1, <3>2, <3>3
  <2>9. TableTypes'
    <3>1. rows \in [DOMAIN rows -> RowType] /\ DOMAIN rows \subseteq LegacyRevision
      BY <1>1 DEF TableTypes
    <3>2. rows' \in [DOMAIN rows' -> RowType]
      BY <2>1, <2>3, <2>4, <3>1 DEF Put
    <3> QED BY <1>1, <2>4, <2>7, <3>1, <3>2 DEF TableTypes
  <2>10. RowsInv'
    <3>1. \A e \in DOMAIN rows' : (rows'[e].state = "published" <=> e = active)
                                  /\ \A p, q \in LPage : rows'[e].dataset[p] = rows'[e].dataset[q]
      BY <1>1, <2>5, <2>7, <2>8 DEF RowsInv
    <3>2. active # None => rows'[active].facts /\ cacheSet \in DOMAIN responses /\ responses[cacheSet] = active
      BY <1>1, <2>8 DEF RowsInv
    <3> QED BY <1>1, <3>1, <3>2 DEF RowsInv
  <2>11. LeaseOf(r)'
    BY <1>1, <2>2, LeaseGoesOn DEF WithBenchLm, WithLiteLlm, WithPages, Deriving
  <2>12. EvidenceOf(r)'
    BY <1>1, <2>2 DEF EvidenceOf, WithBenchLm, WithLiteLlm, WithPages, Deriving
  <2>13. \A e \in DOMAIN rows' : Sources(e) \subseteq snapshots'
    <3>1. Sources(c) \subseteq snapshots
      BY <1>1, <1>2 DEF EvidenceOf
    <3> QED BY <1>1, <2>7, <3>1 DEF LegacyInv, EvidenceInv, EvidenceFirst
  <2>14. \A d \in Refreshes :
            /\ invocation[d].previous \in DOMAIN rows' \cup {None}
            /\ invocation[d].previous # None => rows'[invocation[d].previous].state # "pending"
    <3> SUFFICES ASSUME NEW d \in Refreshes, NEW q, q = invocation[d].previous
                 PROVE q \in DOMAIN rows' \cup {None} /\ (q # None => rows'[q].state # "pending")
      OBVIOUS
    <3>1. q \in DOMAIN rows \cup {None} /\ (q # None => rows[q].state # "pending")
      BY DEF LegacyInv, LegacyTypes, InvocationTypes, TablesInv, StagingOf
    <3> QED BY <2>6, <2>7, <3>1
  <2>15. StagingOf(r)'
    <3>1. rows'[c].state = "pending"
      BY <2>5, <2>7
    <3> QED BY <1>1, <1>2, <2>2, <2>14, <3>1 DEF StagingOf, Deriving, Staged, Ended
  <2>16. \A d \in Refreshes : StagingOf(d)'
    <3> SUFFICES ASSUME NEW d \in Refreshes \ {r} PROVE StagingOf(d)'
      BY <2>15
    <3>1. invocation'[d] = invocation[d] /\ StagingOf(d)
      BY <2>2 DEF Local, LegacyInv, LegacyTypes, InvocationTypes, TablesInv
    <3>2. PICK e : e = Candidate(d)
      OBVIOUS
    <3>3. e \in DOMAIN rows' /\ rows'[e].owner = d =>
              e \in DOMAIN rows /\ rows'[e] = rows[e]
      BY <2>5, <2>7
    <3> QED BY <1>1, <2>14, <3>1, <3>2, <3>3, OthersStage
  <2> QED BY <1>1, <2>2, <2>9, <2>10, <2>11, <2>12, <2>13, <2>14, <2>16, TableStep
<1> QED BY <1>3, <1>4

(* The facts fill the row, whoever owns it by now.                         *)
LEMMA FactsKeep ==
    ASSUME LegacyInv, NEW r \in Refreshes, NEW lost \in BOOLEAN, StageFacts(r, lost)
    PROVE  LegacyInv'
<1>1. /\ invocation[r].pc = "facts" /\ invocation[r].pc \in WithPages
      /\ UNCHANGED <<outside, daily, manifest, snapshots, active, responses, cacheSet, clock>>
      /\ UNCHANGED daily
      /\ LeaseOf(r) /\ EvidenceOf(r) /\ StagingOf(r)
      /\ invocation[r].previous \in DOMAIN rows \cup {None}
      /\ TableTypes /\ RowsInv
  BY DEF StageFacts, At, LegacyInv, LegacyTypes, InvocationTypes, LeaseInv, EvidenceInv, TablesInv, OutsideTypes,
         WithPages, Deriving
<1>2. PICK c : c = Candidate(r)
  OBVIOUS
<1>3. CASE ~ (c \in DOMAIN rows /\ ~ rows[c].facts)
  <2>1. Go(r, "cleanup") /\ UNCHANGED rows
    BY <1>2, <1>3 DEF StageFacts
  <2> QED BY <1>1, <2>1, BatchFails DEF tables
<1>4. CASE c \in DOMAIN rows /\ ~ rows[c].facts
  <2>1. PICK pc \in {"responses", "cleanup"} : Go(r, pc) /\ rows' = [rows EXCEPT ![c].facts = TRUE]
    BY <1>1, <1>2, <1>4 DEF StageFacts, Replied, Busy
  <2>2. PICK i \in Invocation :
              /\ Local(r, i) /\ invocation'[r] = i /\ InHand(i) /\ i.pc = pc
              /\ i.previous = invocation[r].previous /\ i.at = invocation[r].at /\ i.seen = invocation[r].seen
              /\ i.benchlm = invocation[r].benchlm
              /\ Candidate(r)' = Candidate(r)
              /\ Unchanged(r)' <=> Unchanged(r)
              /\ OneDataset(r)' <=> OneDataset(r)
    <3>1. pc \in WithPages
      BY DEF WithPages, Staged
    <3> QED BY <1>1, <2>1, <3>1, GoesOn
  <2>3. PICK new : new = [rows[c] EXCEPT !.facts = TRUE]
    OBVIOUS
  <2>4. rows \in [DOMAIN rows -> RowType] /\ rows[c] \in RowType
    BY <1>1, <1>4 DEF TableTypes
  <2>5. /\ new \in RowType /\ new.facts = TRUE /\ new.state = rows[c].state /\ new.owner = rows[c].owner
        /\ new.dataset = rows[c].dataset
    BY <2>3, <2>4 DEF RowType
  <2>6. /\ DOMAIN rows' = DOMAIN rows /\ rows'[c] = new /\ rows' \in [DOMAIN rows -> RowType]
        /\ \A e \in DOMAIN rows : e # c => rows'[e] = rows[e]
    <3>1. rows' = [rows EXCEPT ![c] = new]
      BY <2>1, <2>3
    <3> QED BY <1>4, <2>4, <2>5, <3>1
  <2>7. TableTypes'
    BY <1>1, <2>6 DEF TableTypes
  <2>8. \A e \in DOMAIN rows : /\ rows'[e].state = rows[e].state /\ rows'[e].owner = rows[e].owner
                               /\ rows'[e].dataset = rows[e].dataset /\ (rows[e].facts => rows'[e].facts)
    BY <2>5, <2>6
  <2>9. RowsInv'
    <3>1. active # None => active \in DOMAIN rows
      BY <1>1 DEF TableTypes
    <3>2. \A e \in DOMAIN rows' : (rows'[e].state = "published" <=> e = active)
                                  /\ \A p, q \in LPage : rows'[e].dataset[p] = rows'[e].dataset[q]
      BY <1>1, <2>6, <2>8 DEF RowsInv
    <3>3. active # None => rows'[active].facts
      <4>1. active # None => rows[active].facts
        BY <1>1 DEF RowsInv
      <4> QED BY <2>8, <3>1, <4>1
    <3>4. active # None => rows'[active].facts /\ cacheSet \in DOMAIN responses /\ responses[cacheSet] = active
      BY <1>1, <3>3 DEF RowsInv
    <3> QED BY <1>1, <3>2, <3>4 DEF RowsInv
  <2>10. LeaseOf(r)'
    BY <1>1, <2>2, LeaseGoesOn DEF WithBenchLm, WithLiteLlm, WithPages, Deriving, Staged
  <2>11. EvidenceOf(r)'
    BY <1>1, <2>2 DEF EvidenceOf, WithBenchLm, WithLiteLlm, WithPages, Deriving, Staged
  <2>12. \A e \in DOMAIN rows' : Sources(e) \subseteq snapshots'
    BY <1>1, <2>6 DEF LegacyInv, EvidenceInv, EvidenceFirst
  <2>13. \A d \in Refreshes :
            /\ invocation[d].previous \in DOMAIN rows' \cup {None}
            /\ invocation[d].previous # None => rows'[invocation[d].previous].state # "pending"
    <3> SUFFICES ASSUME NEW d \in Refreshes, NEW q, q = invocation[d].previous
                 PROVE q \in DOMAIN rows' \cup {None} /\ (q # None => rows'[q].state # "pending")
      OBVIOUS
    <3>1. q \in DOMAIN rows \cup {None} /\ (q # None => rows[q].state # "pending")
      BY DEF LegacyInv, LegacyTypes, InvocationTypes, TablesInv, StagingOf
    <3> QED BY <2>6, <2>8, <3>1
  <2>14. StagingOf(r)'
    <3>1. Owns(r)' => rows'[c].state = "pending" /\ rows'[c].facts
      BY <1>1, <1>2, <2>2, <2>5, <2>6 DEF StagingOf, Owns, Deriving
    <3>2. invocation[r].pc \in Deriving
      BY <1>1 DEF Deriving
    <3> QED BY <1>1, <1>2, <2>2, <2>13, <3>1, <3>2 DEF StagingOf, Deriving, Staged, Ended
  <2>15. \A d \in Refreshes : StagingOf(d)'
    <3> SUFFICES ASSUME NEW d \in Refreshes \ {r} PROVE StagingOf(d)'
      BY <2>14
    <3>1. invocation'[d] = invocation[d] /\ StagingOf(d)
      BY <2>2 DEF Local, LegacyInv, LegacyTypes, InvocationTypes, TablesInv
    <3>2. PICK e : e = Candidate(d)
      OBVIOUS
    <3> QED BY <1>1, <2>6, <2>8, <2>13, <3>1, <3>2, OthersStage
  <2> QED BY <1>1, <2>2, <2>7, <2>9, <2>10, <2>11, <2>12, <2>13, <2>15, TableStep
<1> QED BY <1>3, <1>4

(* The staged responses are of the revision the run derived.               *)
LEMMA ResponsesKeep ==
    ASSUME LegacyInv, NEW r \in Refreshes, NEW lost \in BOOLEAN, StageResponses(r, lost)
    PROVE  LegacyInv'
<1> PICK pc \in {"commit", "cleanup"} : Go(r, pc)
  BY DEF StageResponses, At, Replied, Busy
<1>1. /\ invocation[r].pc = "responses" /\ invocation[r].pc \in WithPages
      /\ UNCHANGED <<outside, daily, manifest, snapshots, rows, active, cacheSet, clock>>
      /\ UNCHANGED daily
      /\ LeaseOf(r) /\ EvidenceOf(r) /\ StagingOf(r)
      /\ invocation[r].previous \in DOMAIN rows \cup {None}
      /\ TableTypes /\ RowsInv
  BY DEF StageResponses, At, LegacyInv, LegacyTypes, InvocationTypes, LeaseInv, EvidenceInv, TablesInv, OutsideTypes,
         WithPages, Staged
<1>2. PICK c : c = Candidate(r)
  OBVIOUS
<1>3. responses' = Put(responses, r, c)
  BY <1>2 DEF StageResponses
<1>4. PICK i \in Invocation :
              /\ Local(r, i) /\ invocation'[r] = i /\ InHand(i) /\ i.pc = pc
              /\ i.previous = invocation[r].previous /\ i.at = invocation[r].at /\ i.seen = invocation[r].seen
              /\ i.benchlm = invocation[r].benchlm
              /\ Candidate(r)' = Candidate(r)
              /\ Unchanged(r)' <=> Unchanged(r)
              /\ OneDataset(r)' <=> OneDataset(r)
  <2>1. pc \in WithPages
    BY DEF WithPages, Staged
  <2> QED BY <1>1, <2>1, GoesOn
<1>5. c \in LegacyRevision
  BY <1>1, <1>2, CandidateTyped DEF LegacyInv
<1>6. /\ DOMAIN responses' = DOMAIN responses \cup {r} /\ responses'[r] = c
      /\ \A a \in DOMAIN responses : a # r => responses'[a] = responses[a]
  BY <1>3 DEF Put
<1>7. TableTypes'
  <2>1. responses \in [DOMAIN responses -> LegacyRevision] /\ DOMAIN responses \subseteq Refreshes
    BY <1>1 DEF TableTypes
  <2>2. responses' \in [DOMAIN responses' -> LegacyRevision]
    BY <1>3, <1>5, <2>1 DEF Put
  <2> QED BY <1>1, <1>6, <2>1, <2>2 DEF TableTypes
<1>8. cacheSet # r
  BY <1>1 DEF StagingOf, Ended
<1>9. RowsInv'
  BY <1>1, <1>6, <1>8 DEF RowsInv
<1>10. LeaseOf(r)'
  BY <1>1, <1>4, LeaseGoesOn DEF WithBenchLm, WithLiteLlm, WithPages, Staged
<1>11. EvidenceOf(r)'
  BY <1>1, <1>4 DEF EvidenceOf, WithBenchLm, WithLiteLlm, WithPages, Deriving, Staged
<1>12. \A e \in DOMAIN rows' : Sources(e) \subseteq snapshots'
  BY <1>1 DEF LegacyInv, EvidenceInv, EvidenceFirst
<1>13. \A d \in Refreshes :
            /\ invocation[d].previous \in DOMAIN rows' \cup {None}
            /\ invocation[d].previous # None => rows'[invocation[d].previous].state # "pending"
  BY <1>1 DEF LegacyInv, LegacyTypes, InvocationTypes, TablesInv, StagingOf
<1>14. StagingOf(r)'
  BY <1>1, <1>2, <1>4, <1>6, <1>8, <1>13 DEF StagingOf, Owns, Deriving, Staged, Ended
<1>15. \A d \in Refreshes : StagingOf(d)'
  <2> SUFFICES ASSUME NEW d \in Refreshes \ {r} PROVE StagingOf(d)'
    BY <1>14
  <2>1. invocation'[d] = invocation[d] /\ StagingOf(d)
    BY <1>4 DEF Local, LegacyInv, LegacyTypes, InvocationTypes, TablesInv
  <2> QED BY <1>1, <1>6, <1>13, <2>1, OthersStage
<1> QED BY <1>1, <1>4, <1>7, <1>9, <1>10, <1>11, <1>12, <1>13, <1>15, TableStep

(* The cleanup touches nothing that is published, and no row of another.   *)
LEMMA CleanUpKeeps ==
    ASSUME LegacyInv, NEW r \in Refreshes, NEW lost \in BOOLEAN, CleanUp(r, lost)
    PROVE  LegacyInv'
<1>1. /\ invocation[r].pc = "cleanup"
      /\ UNCHANGED <<outside, daily, manifest, snapshots, active, cacheSet, clock>>
      /\ UNCHANGED daily /\ Go(r, "record")
      /\ LeaseOf(r) /\ EvidenceOf(r) /\ StagingOf(r) /\ InHand(invocation[r]) /\ invocation[r] \in Invocation
      /\ invocation[r].previous \in DOMAIN rows \cup {None}
      /\ TableTypes /\ RowsInv
  BY DEF CleanUp, At, LegacyInv, LegacyTypes, InvocationTypes, LeaseInv, EvidenceInv, TablesInv, OutsideTypes
<1>2. PICK gone, set : /\ rows' = [c \in DOMAIN rows \ gone |-> rows[c]]
                       /\ responses' = [a \in DOMAIN responses \ set |-> responses[a]]
                       /\ gone \in {{}, OwnedPending(r)} /\ set \in {{}, {r} \ {cacheSet}}
  <2>1. CASE UNCHANGED <<rows, responses>>
    <3>1. rows = [c \in DOMAIN rows \ {} |-> rows[c]] /\ responses = [a \in DOMAIN responses \ {} |-> responses[a]]
      BY <1>1 DEF TableTypes
    <3>2. /\ rows' = [c \in DOMAIN rows \ {} |-> rows[c]]
          /\ responses' = [a \in DOMAIN responses \ {} |-> responses[a]]
      BY <2>1, <3>1
    <3>3. PICK gone, set : gone = {} /\ set = {}
      OBVIOUS
    <3>4. /\ rows' = [c \in DOMAIN rows \ gone |-> rows[c]]
          /\ responses' = [a \in DOMAIN responses \ set |-> responses[a]]
          /\ gone \in {{}, OwnedPending(r)} /\ set \in {{}, {r} \ {cacheSet}}
      BY <3>2, <3>3
    <3> QED BY <3>4
  <2>2. CASE ~ UNCHANGED <<rows, responses>>
    <3>1. PICK gone : gone = (IF Unchanged(r) THEN {} ELSE OwnedPending(r))
      OBVIOUS
    <3>2. /\ rows' = [c \in DOMAIN rows \ gone |-> rows[c]]
          /\ responses' = [a \in DOMAIN responses \ ({r} \ {cacheSet}) |-> responses[a]]
      BY <2>2, <3>1 DEF CleanUp
    <3> QED BY <3>1, <3>2
  <2> QED BY <2>1, <2>2
<1>3. \A c \in gone : rows[c].state = "pending" /\ rows[c].owner = r
  BY <1>2 DEF OwnedPending
<1>4. /\ DOMAIN rows' = DOMAIN rows \ gone
      /\ \A c \in DOMAIN rows \ gone : rows'[c] = rows[c]
  BY <1>2
<1>5. /\ DOMAIN responses' \subseteq DOMAIN responses
      /\ \A a \in DOMAIN responses : a \in DOMAIN responses' \/ a # cacheSet
      /\ \A a \in DOMAIN responses' : responses'[a] = responses[a]
  BY <1>2
<1>6. PICK i : i = [invocation[r] EXCEPT !.pc = "record"]
  OBVIOUS
<1>7. /\ i \in Invocation /\ i.pc = "record" /\ i.previous = invocation[r].previous
      /\ i.at = invocation[r].at /\ i.catalog = invocation[r].catalog
  BY <1>1, <1>6 DEF Invocation, LegacyPc
<1>8. Local(r, i) /\ invocation'[r] = i
  BY <1>1, <1>6 DEF Go, Local, LegacyInv, LegacyTypes, InvocationTypes
<1>9. InHand(i)
  BY <1>1, <1>7 DEF InHand, WithBenchLm, WithLiteLlm, WithPages, Checking, Ended, Deriving, Staged
<1>10. active # None => active \in DOMAIN rows'
  <2>1. active # None => active \in DOMAIN rows /\ rows[active].state = "published"
    BY <1>1 DEF TableTypes, RowsInv
  <2> QED BY <1>3, <1>4, <2>1
<1>11. TableTypes'
  <2>1. rows \in [DOMAIN rows -> RowType] /\ responses \in [DOMAIN responses -> LegacyRevision]
    BY <1>1 DEF TableTypes
  <2>2. rows' \in [DOMAIN rows' -> RowType]
    BY <1>2, <2>1
  <2>3. responses' \in [DOMAIN responses' -> LegacyRevision]
    BY <1>2, <2>1
  <2>4. active' \in DOMAIN rows' \cup {None}
    BY <1>1, <1>10
  <2> QED BY <1>1, <1>4, <1>5, <2>2, <2>3, <2>4 DEF TableTypes
<1>12. RowsInv'
  <2>1. \A e \in DOMAIN rows' : (rows'[e].state = "published" <=> e = active)
                                /\ \A p, q \in LPage : rows'[e].dataset[p] = rows'[e].dataset[q]
    BY <1>1, <1>4 DEF RowsInv
  <2>2. active # None => rows'[active].facts /\ cacheSet \in DOMAIN responses' /\ responses'[cacheSet] = active
    BY <1>1, <1>4, <1>5, <1>10 DEF RowsInv
  <2> QED BY <1>1, <2>1, <2>2 DEF RowsInv
<1>13. LeaseOf(r)'
  BY <1>1, <1>7, <1>8 DEF LeaseOf, Checking, WithBenchLm, WithLiteLlm, WithPages, Deriving, Staged
<1>14. EvidenceOf(r)'
  BY <1>7, <1>8 DEF EvidenceOf, WithBenchLm, WithLiteLlm, WithPages, Deriving, Staged
<1>15. \A e \in DOMAIN rows' : Sources(e) \subseteq snapshots'
  BY <1>1, <1>4 DEF LegacyInv, EvidenceInv, EvidenceFirst
<1>16. \A d \in Refreshes :
            /\ invocation[d].previous \in DOMAIN rows' \cup {None}
            /\ invocation[d].previous # None => rows'[invocation[d].previous].state # "pending"
  <2> SUFFICES ASSUME NEW d \in Refreshes, NEW q, q = invocation[d].previous
               PROVE q \in DOMAIN rows' \cup {None} /\ (q # None => rows'[q].state # "pending")
    OBVIOUS
  <2>1. q \in DOMAIN rows \cup {None} /\ (q # None => rows[q].state # "pending")
    BY DEF LegacyInv, LegacyTypes, InvocationTypes, TablesInv, StagingOf
  <2> QED BY <1>3, <1>4, <2>1
<1>17. StagingOf(r)'
  BY <1>1, <1>7, <1>8, <1>16 DEF StagingOf, Deriving, Staged, Ended
<1>18. \A d \in Refreshes : StagingOf(d)'
  <2> SUFFICES ASSUME NEW d \in Refreshes \ {r} PROVE StagingOf(d)'
    BY <1>17
  <2>1. invocation'[d] = invocation[d] /\ StagingOf(d)
    BY <1>8 DEF Local, LegacyInv, LegacyTypes, InvocationTypes, TablesInv
  <2>2. PICK e : e = Candidate(d)
    OBVIOUS
  <2> QED BY <1>1, <1>4, <1>5, <1>16, <2>1, <2>2, OthersStage
<1> QED BY <1>1, <1>7, <1>8, <1>9, <1>11, <1>12, <1>13, <1>14, <1>15, <1>16, <1>18, TableStep

\* What a commit does that the triggers let through.
Committed(r) ==
    /\ rows' = CommittedRows(r)
    /\ active' = IF Unchanged(r) THEN active ELSE Candidate(r)
    /\ cacheSet' = r
    /\ responses' = [a \in Kept(r) |-> responses[a]]

(* A commit of the active revision refreshes its responses; any other      *)
(* commit puts a pending, full row of its own in the active one's place.   *)
LEMMA CommitEffect ==
    ASSUME LegacyInv, NEW r \in Refreshes, invocation[r].pc = "commit", Commits(r), Committed(r)
    PROVE  /\ DOMAIN rows' = DOMAIN rows
           /\ Candidate(r) \in DOMAIN rows
           /\ cacheSet' = r /\ r \in DOMAIN responses' /\ responses'[r] = Candidate(r)
           /\ active' = Candidate(r)
           /\ Unchanged(r) =>
                 /\ active = Candidate(r)
                 /\ \A c \in DOMAIN rows : rows'[c].state = rows[c].state
           /\ ~ Unchanged(r) =>
                 /\ rows[Candidate(r)].state = "pending" /\ rows[Candidate(r)].facts
                 /\ rows[Candidate(r)].owner = r
                 /\ \A c \in DOMAIN rows : rows'[c].state =
                       IF c = Candidate(r) THEN "published"
                       ELSE IF c = active THEN "superseded" ELSE rows[c].state
<1>1. /\ TableTypes /\ RowsInv /\ StagingOf(r)
      /\ invocation[r].pc \in Staged
  BY DEF LegacyInv, LegacyTypes, TablesInv, Staged
<1>2. PICK c : c = Candidate(r)
  OBVIOUS
<1>3. c \in LegacyRevision /\ c # None
  <2>1. invocation[r].pc \in WithPages
    BY <1>1 DEF WithPages
  <2> QED BY <1>2, <2>1, CandidateTyped, LegacyNone DEF LegacyInv
<1>4. r \in DOMAIN responses /\ responses[r] = c
  BY <1>1, <1>2 DEF Commits, HasResponses, StagingOf
<1>5. cacheSet' = r /\ r \in DOMAIN responses' /\ responses'[r] = c
  BY <1>4 DEF Committed, Kept
<1>6. DOMAIN rows' = DOMAIN rows
  BY DEF Committed, CommittedRows
<1>7. rows \in [DOMAIN rows -> RowType]
  BY <1>1 DEF TableTypes
<1>8. CASE Unchanged(r)
  <2>1. active = c /\ active' = c /\ c \in DOMAIN rows
    BY <1>1, <1>2, <1>3, <1>8 DEF Commits, Committed, TableTypes
  <2>2. ASSUME NEW e \in DOMAIN rows PROVE rows'[e].state = rows[e].state
    <3>1. CASE e = c
      <4>1. rows'[e] = [rows[e] EXCEPT !.checked = invocation[r].at]
        BY <1>2, <1>8, <3>1 DEF Committed, CommittedRows
      <4> QED BY <1>7, <4>1 DEF RowType
    <3>2. CASE e # c
      BY <1>2, <1>8, <3>2 DEF Committed, CommittedRows
    <3> QED BY <3>1, <3>2
  <2> QED BY <1>2, <1>5, <1>6, <1>8, <2>1, <2>2
<1>9. CASE ~ Unchanged(r)
  <2>1. Owns(r) /\ active' = c
    BY <1>2, <1>9 DEF Commits, Committed
  <2>2. c \in DOMAIN rows /\ rows[c].owner = r /\ rows[c].state = "pending" /\ rows[c].facts
    BY <1>1, <1>2, <1>9, <2>1 DEF Owns, StagingOf
  <2>3. ASSUME NEW e \in DOMAIN rows
        PROVE  rows'[e].state = IF e = c THEN "published" ELSE IF e = active THEN "superseded" ELSE rows[e].state
    <3>1. rows[e] \in RowType /\ (rows[e].state = "published" <=> e = active)
      BY <1>1, <1>7 DEF RowsInv
    <3>2. CASE e = c
      <4>1. rows'[e] = [rows[e] EXCEPT !.state = "published"]
        BY <1>2, <1>9, <3>2 DEF Committed, CommittedRows
      <4> QED BY <3>1, <3>2, <4>1 DEF RowType
    <3>3. CASE e # c /\ rows[e].state = "published"
      <4>1. rows'[e] = [rows[e] EXCEPT !.state = "superseded"]
        BY <1>2, <1>9, <3>3 DEF Committed, CommittedRows
      <4> QED BY <3>1, <3>3, <4>1 DEF RowType
    <3>4. CASE e # c /\ rows[e].state # "published"
      <4>1. rows'[e] = rows[e]
        BY <1>2, <1>9, <3>4 DEF Committed, CommittedRows
      <4> QED BY <3>1, <3>4, <4>1
    <3> QED BY <3>2, <3>3, <3>4
  <2> QED BY <1>2, <1>5, <1>6, <1>9, <2>1, <2>2, <2>3
<1> QED BY <1>8, <1>9

(* The rest of a row survives a commit.                                    *)
LEMMA CommitRows ==
    ASSUME LegacyInv, NEW r \in Refreshes, Committed(r)
    PROVE  /\ rows' \in [DOMAIN rows -> RowType]
           /\ \A c \in DOMAIN rows : /\ rows'[c].owner = rows[c].owner /\ rows'[c].facts = rows[c].facts
                                     /\ rows'[c].dataset = rows[c].dataset
<1>1. rows \in [DOMAIN rows -> RowType] /\ invocation[r].at \in Time
  BY DEF LegacyInv, LegacyTypes, TableTypes, InvocationTypes, Invocation
<1>2. ASSUME NEW c \in DOMAIN rows
      PROVE  \/ rows'[c] = rows[c]
             \/ rows'[c] = [rows[c] EXCEPT !.checked = invocation[r].at]
             \/ \E state \in {"published", "superseded"} : rows'[c] = [rows[c] EXCEPT !.state = state]
  <2>1. CASE c = Candidate(r) /\ Unchanged(r)
    BY <2>1 DEF Committed, CommittedRows
  <2>2. CASE c = Candidate(r) /\ ~ Unchanged(r)
    <3>1. rows'[c] = [rows[c] EXCEPT !.state = "published"]
      BY <2>2 DEF Committed, CommittedRows
    <3> QED BY <3>1
  <2>3. CASE c # Candidate(r) /\ ~ Unchanged(r) /\ rows[c].state = "published"
    <3>1. rows'[c] = [rows[c] EXCEPT !.state = "superseded"]
      BY <2>3 DEF Committed, CommittedRows
    <3> QED BY <3>1
  <2>4. CASE c # Candidate(r) /\ (Unchanged(r) \/ rows[c].state # "published")
    BY <2>4 DEF Committed, CommittedRows
  <2> QED BY <2>1, <2>2, <2>3, <2>4
<1>3. ASSUME NEW c \in DOMAIN rows
      PROVE  /\ rows'[c] \in RowType /\ rows'[c].owner = rows[c].owner /\ rows'[c].facts = rows[c].facts
             /\ rows'[c].dataset = rows[c].dataset
  <2>1. rows[c] \in RowType
    BY <1>1
  <2>2. CASE rows'[c] = rows[c]
    BY <2>1, <2>2
  <2>3. CASE rows'[c] = [rows[c] EXCEPT !.checked = invocation[r].at]
    BY <1>1, <2>1, <2>3 DEF RowType
  <2>4. ASSUME NEW state \in {"published", "superseded"}, rows'[c] = [rows[c] EXCEPT !.state = state]
        PROVE  /\ rows'[c] \in RowType /\ rows'[c].owner = rows[c].owner /\ rows'[c].facts = rows[c].facts
               /\ rows'[c].dataset = rows[c].dataset
    BY <2>1, <2>4 DEF RowType
  <2> QED BY <1>2, <2>2, <2>3, <2>4
<1>4. rows' \in [DOMAIN rows -> RowType]
  <2>1. rows' = [c \in DOMAIN rows |-> rows'[c]]
    BY DEF Committed, CommittedRows
  <2> QED BY <1>3, <2>1
<1> QED BY <1>3, <1>4

(* A commit publishes one whole row with its own responses.                *)
LEMMA CommitKeeps ==
    ASSUME LegacyInv, NEW r \in Refreshes, NEW lost \in BOOLEAN, Commit(r, lost)
    PROVE  LegacyInv'
<1>1. /\ invocation[r].pc = "commit" /\ invocation[r].pc \in WithPages
      /\ UNCHANGED <<outside, daily, manifest, snapshots, clock>> /\ UNCHANGED daily
      /\ LeaseOf(r) /\ EvidenceOf(r) /\ StagingOf(r) /\ InHand(invocation[r]) /\ invocation[r] \in Invocation
      /\ invocation[r].previous \in DOMAIN rows \cup {None}
      /\ TableTypes /\ RowsInv
  BY DEF Commit, At, LegacyInv, LegacyTypes, InvocationTypes, LeaseInv, EvidenceInv, TablesInv, OutsideTypes,
         WithPages, Staged
<1>2. CASE ~ Commits(r)
  <2>1. Go(r, "cleanup") /\ UNCHANGED tables
    BY <1>2 DEF Commit
  <2> QED BY <1>1, <2>1, BatchFails
<1>3. CASE Commits(r)
  <2>1. Committed(r)
    BY <1>3 DEF Commit, Committed
  <2>2. PICK c : c = Candidate(r)
    OBVIOUS
  <2>3. c \in LegacyRevision /\ c # None
    BY <1>1, <2>2, CandidateTyped, LegacyNone DEF LegacyInv
  <2>4. /\ DOMAIN rows' = DOMAIN rows /\ c \in DOMAIN rows
        /\ cacheSet' = r /\ r \in DOMAIN responses' /\ responses'[r] = c /\ active' = c
        /\ Unchanged(r) => active = c /\ \A e \in DOMAIN rows : rows'[e].state = rows[e].state
        /\ ~ Unchanged(r) =>
              /\ rows[c].state = "pending" /\ rows[c].facts /\ rows[c].owner = r
              /\ \A e \in DOMAIN rows : rows'[e].state =
                       IF e = c THEN "published" ELSE IF e = active THEN "superseded" ELSE rows[e].state
    BY <1>1, <1>3, <2>1, <2>2, CommitEffect
  <2>5. /\ rows' \in [DOMAIN rows -> RowType]
        /\ \A e \in DOMAIN rows : /\ rows'[e].owner = rows[e].owner /\ rows'[e].facts = rows[e].facts
                                  /\ rows'[e].dataset = rows[e].dataset
    BY <2>1, CommitRows
  <2>6. /\ DOMAIN responses' \subseteq DOMAIN responses
        /\ \A a \in DOMAIN responses' : responses'[a] = responses[a]
        /\ responses' \in [DOMAIN responses' -> LegacyRevision]
    <3>1. responses \in [DOMAIN responses -> LegacyRevision]
      BY <1>1 DEF TableTypes
    <3> QED BY <2>1, <3>1 DEF Committed, Kept
  <2>7. TableTypes'
    BY <1>1, <2>4, <2>5, <2>6 DEF TableTypes
  <2>8. RowsInv'
    <3>1. \A e \in DOMAIN rows : rows'[e].state = "published" <=> e = c
      <4>1. \A e \in DOMAIN rows : rows[e].state = "published" <=> e = active
        BY <1>1 DEF RowsInv
      <4>2. CASE Unchanged(r)
        BY <2>4, <4>1, <4>2
      <4>3. CASE ~ Unchanged(r)
        BY <2>4, <4>1, <4>3
      <4> QED BY <4>2, <4>3
    <3>2. \A e \in DOMAIN rows : \A p, q \in LPage : rows'[e].dataset[p] = rows'[e].dataset[q]
      BY <1>1, <2>5 DEF RowsInv
    <3>3. rows'[c].facts
      <4>1. rows[c].facts
        BY <1>1, <2>3, <2>4 DEF RowsInv
      <4> QED BY <2>4, <2>5, <4>1
    <3> QED BY <2>4, <3>1, <3>2, <3>3 DEF RowsInv
  <2>9. PICK i \in Invocation :
              /\ Local(r, i) /\ invocation'[r] = i /\ InHand(i) /\ i.at = invocation[r].at
              /\ \/ i.pc = "cleanup" /\ i.previous = invocation[r].previous /\ i.seen = invocation[r].seen
                    /\ i.benchlm = invocation[r].benchlm
                 \/ i.pc = "done" /\ i.previous = None
    <3>1. CASE lost
      <4>1. Go(r, "cleanup") /\ "cleanup" \in WithPages
        BY <1>3, <3>1 DEF Commit, WithPages
      <4> QED BY <1>1, <4>1, GoesOn
    <3>2. CASE ~ lost
      <4>1. PICK i : i = [Idle EXCEPT !.pc = "done", !.at = invocation[r].at, !.left = invocation[r].left]
        OBVIOUS
      <4>2. "done" \in LegacyPc
        BY DEF LegacyPc, Ended
      <4>3. i \in Invocation /\ i.pc = "done" /\ i.at = invocation[r].at /\ i.previous = None
        BY <1>1, <4>1, <4>2, EndOf
      <4>4. Local(r, i) /\ invocation'[r] = i
        BY <1>3, <3>2, <4>1 DEF Commit, Ends, Local, LegacyInv, LegacyTypes, InvocationTypes
      <4>5. InHand(i)
        BY <1>1, <4>3 DEF InHand, WithBenchLm, WithLiteLlm, WithPages, Checking, Ended, Deriving, Staged
      <4> QED BY <4>3, <4>4, <4>5
    <3> QED BY <3>1, <3>2
  <2>10. LeaseOf(r)'
    BY <1>1, <2>9 DEF LeaseOf, Checking, WithBenchLm, WithLiteLlm, WithPages, Deriving, Staged
  <2>11. EvidenceOf(r)'
    BY <1>1, <2>9 DEF EvidenceOf, WithBenchLm, WithLiteLlm, WithPages, Deriving, Staged
  <2>12. \A e \in DOMAIN rows' : Sources(e) \subseteq snapshots'
    BY <1>1, <2>4 DEF LegacyInv, EvidenceInv, EvidenceFirst
  <2>13. \A d \in Refreshes :
            /\ invocation[d].previous \in DOMAIN rows' \cup {None}
            /\ invocation[d].previous # None => rows'[invocation[d].previous].state # "pending"
    <3> SUFFICES ASSUME NEW d \in Refreshes, NEW q, q = invocation[d].previous
                 PROVE q \in DOMAIN rows' \cup {None} /\ (q # None => rows'[q].state # "pending")
      OBVIOUS
    <3>1. q \in DOMAIN rows \cup {None} /\ (q # None => rows[q].state # "pending")
      BY DEF LegacyInv, LegacyTypes, InvocationTypes, TablesInv, StagingOf
    <3> QED BY <2>4, <3>1
  <2>14. StagingOf(r)'
    BY <2>9, <2>13 DEF StagingOf, Deriving, Staged, Ended
  <2>15. \A d \in Refreshes : StagingOf(d)'
    <3> SUFFICES ASSUME NEW d \in Refreshes \ {r} PROVE StagingOf(d)'
      BY <2>14
    <3>1. invocation'[d] = invocation[d] /\ StagingOf(d)
      BY <2>9 DEF Local, LegacyInv, LegacyTypes, InvocationTypes, TablesInv
    <3>2. PICK e : e = Candidate(d)
      OBVIOUS
    <3>3. e \in DOMAIN rows' /\ rows'[e].owner = d =>
              /\ e \in DOMAIN rows /\ rows[e].owner = d /\ rows'[e].facts = rows[e].facts
      BY <2>4, <2>5
    <3>4. e \in DOMAIN rows' /\ rows'[e].owner = d /\ rows[e].state = "pending" => rows'[e].state = "pending"
      <4>1. e \in DOMAIN rows /\ rows[e].state = "pending" => e # active
        BY <1>1 DEF RowsInv
      <4>2. CASE Unchanged(r)
        BY <2>4, <4>2
      <4>3. CASE ~ Unchanged(r)
        BY <2>4, <2>5, <3>3, <4>1, <4>3
      <4> QED BY <4>2, <4>3
    <3>5. /\ d \in DOMAIN responses' => d \in DOMAIN responses /\ responses'[d] = responses[d]
          /\ cacheSet' # d
      BY <2>4, <2>6
    <3> QED BY <2>13, <3>1, <3>2, <3>3, <3>4, <3>5, OthersStage
  <2> QED BY <1>1, <2>4, <2>7, <2>8, <2>9, <2>10, <2>11, <2>12, <2>13, <2>15, TableStep
<1> QED BY <1>2, <1>3
-----------------------------------------------------------------------------
(***************************************************************************)
(* Failures, the environment, and the induction.                           *)
(***************************************************************************)

(* A failed run records its failure.                                       *)
LEMMA RecordKeeps == ASSUME LegacyInv, NEW r \in Refreshes, RecordFailure(r) PROVE LegacyInv'
<1>1. /\ invocation[r].pc = "record" /\ Ends(r, "failed")
      /\ UNCHANGED <<outside, daily, manifest, snapshots, tables, clock>>
  BY DEF RecordFailure, At
<1> QED BY <1>1, EndKeeps

(* A rejected call is caught where the run stands; a killed run is gone.   *)
LEMMA FailureKeeps == ASSUME LegacyInv, NEW r \in Refreshes, InvocationFails(r) PROVE LegacyInv'
<1>1. UNCHANGED <<outside, daily, manifest, snapshots, tables, clock>> /\ UNCHANGED <<daily, tables>>
  BY DEF InvocationFails
<1>2. CASE ~ (invocation[r].pc \in {"new", "done", "failed", "dead"}) /\ Ends(r, "dead")
  BY <1>1, <1>2, EndKeeps
<1>3. CASE invocation[r].pc \in DOMAIN Busy /\ Go(r, Busy[invocation[r].pc])
  <2>1. CASE invocation[r].pc \in {"active", "claim", "await", "evidence"}
    <3>1. Go(r, "record")
      BY <1>3, <2>1 DEF Busy
    <3> QED BY <1>1, <2>1, <3>1, GivesUp
  <2>2. CASE invocation[r].pc \in {"row", "facts", "responses", "commit"}
    <3>1. Go(r, "cleanup")
      BY <1>3, <2>2 DEF Busy
    <3> QED BY <1>1, <2>2, <3>1, BatchFails
  <2>3. CASE invocation[r].pc \in Checking
    <3>1. Go(r, "release")
      BY <1>3, <2>3 DEF Busy, Checking
    <3>2. /\ invocation[r] \in Invocation /\ InHand(invocation[r]) /\ LeaseOf(r) /\ StagingOf(r)
          /\ invocation[r].previous \in DOMAIN rows \cup {None} /\ clock' \in 1 .. MaxClock
      BY <1>1 DEF LegacyInv, LegacyTypes, OutsideTypes, InvocationTypes, LeaseInv, TablesInv
    <3>3. cacheSet # r /\ invocation[r].pc \notin Ended \cup {"new", "record"}
      BY <2>3, <3>2 DEF StagingOf, Checking, Ended
    <3>4. PICK i : i = [invocation[r] EXCEPT !.pc = "release"]
      OBVIOUS
    <3>5. /\ i \in Invocation /\ i.pc = "release" /\ i.previous = invocation[r].previous
          /\ i.at = invocation[r].at /\ i.catalog = invocation[r].catalog
      BY <3>2, <3>4 DEF Invocation, LegacyPc
    <3>6. Local(r, i) /\ invocation'[r] = i
      BY <3>1, <3>4 DEF Go, Local, LegacyInv, LegacyTypes, InvocationTypes
    <3>7. InHand(i) /\ LeaseOf(r)' /\ EvidenceOf(r)' /\ StagingOf(r)'
      BY <1>1, <3>2, <3>3, <3>5, <3>6, EmptyHanded
    <3> QED BY <1>1, <3>2, <3>5, <3>6, <3>7, OwnStep
  <2> QED BY <1>3, <2>1, <2>2, <2>3 DEF Busy, Checking
<1> QED BY <1>2, <1>3 DEF InvocationFails

(* Nothing the outside does disturbs the invocations.                      *)
LEMMA OutsideKeeps ==
    ASSUME LegacyInv, OutsideTypes', UNCHANGED <<daily, manifest, snapshots, tables, invocation>>
    PROVE  LegacyInv'
<1>1. LegacyTypes'
  BY DEF LegacyInv, LegacyTypes, DailyTypes, TableTypes, InvocationTypes, tables
<1>2. \A d \in Refreshes : LeaseOf(d)' /\ EvidenceOf(d)' /\ StagingOf(d)'
  <2> SUFFICES ASSUME NEW d \in Refreshes PROVE LeaseOf(d)' /\ EvidenceOf(d)' /\ StagingOf(d)'
    OBVIOUS
  <2>1. LeaseOf(d) /\ EvidenceOf(d) /\ StagingOf(d) /\ invocation'[d] = invocation[d]
    BY DEF LegacyInv, LeaseInv, EvidenceInv, TablesInv
  <2> QED BY <2>1, LeftAlone
<1>3. EvidenceInv'
  BY <1>2 DEF LegacyInv, EvidenceInv, EvidenceFirst, tables
<1>4. TablesInv'
  BY <1>2 DEF LegacyInv, TablesInv, RowsInv, tables
<1> QED BY <1>1, <1>2, <1>3, <1>4 DEF LegacyInv, LeaseInv

(* The clock ticks, a source publishes, the catalog moves.                 *)
LEMMA EnvironmentKeeps == ASSUME LegacyInv, LegacyTick \/ UpstreamChanges PROVE LegacyInv'
<1>1. served \in Supply /\ catalog \in Version /\ clock \in 1 .. MaxClock
  BY DEF LegacyInv, LegacyTypes, OutsideTypes
<1>2. CASE LegacyTick
  <2>1. clock' \in 1 .. MaxClock
    BY <1>1, <1>2, LegacyBounds DEF LegacyTick
  <2>2. OutsideTypes'
    BY <1>1, <1>2, <2>1 DEF LegacyTick, OutsideTypes, outside
  <2> QED BY <1>2, <2>2, OutsideKeeps DEF LegacyTick
<1>3. CASE UpstreamChanges
  <2>1. /\ served.benchlm \in Version /\ served.litellm \in Version /\ served.dataset \in Version
        /\ served.page \in [LPage -> Version]
    BY <1>1 DEF Supply
  <2>2. served.benchlm + served.litellm + served.dataset + catalog - 4 < MaxChanges
    BY <1>3 DEF UpstreamChanges, Changes
  <2>3. /\ served.benchlm + 1 \in Version /\ served.litellm + 1 \in Version
        /\ served.dataset + 1 \in Version /\ catalog + 1 \in Version
    BY <1>1, <2>1, <2>2, LegacyBounds DEF Version
  <2>4. ASSUME NEW changed \in SUBSET LPage
        PROVE  [p \in LPage |-> IF p \in changed THEN served.dataset + 1 ELSE served.page[p]] \in [LPage -> Version]
    BY <2>1, <2>3
  <2>5. served' \in Supply /\ catalog' \in Version
    <3>1. CASE served' = [served EXCEPT !.benchlm = @ + 1] /\ UNCHANGED catalog
      BY <1>1, <2>3, <3>1 DEF Supply
    <3>2. CASE served' = [served EXCEPT !.litellm = @ + 1] /\ UNCHANGED catalog
      BY <1>1, <2>3, <3>2 DEF Supply
    <3>3. CASE catalog' = catalog + 1 /\ UNCHANGED served
      BY <1>1, <2>3, <3>3
    <3>4. ASSUME NEW changed \in SUBSET LPage, UNCHANGED catalog,
                 served' = [served EXCEPT !.dataset = @ + 1, !.page = [p \in LPage |->
                                IF p \in changed THEN served.dataset + 1 ELSE @[p]]]
          PROVE  served' \in Supply /\ catalog' \in Version
      <4>1. PICK page : page = [p \in LPage |-> IF p \in changed THEN served.dataset + 1 ELSE served.page[p]]
        OBVIOUS
      <4>2. served' = [served EXCEPT !.dataset = served.dataset + 1, !.page = page]
        BY <3>4, <4>1
      <4>3. page \in [LPage -> Version]
        BY <2>4, <4>1
      <4> QED BY <1>1, <2>3, <3>4, <4>2, <4>3 DEF Supply
    <3> QED BY <1>3, <3>1, <3>2, <3>3, <3>4 DEF UpstreamChanges
  <2>6. OutsideTypes'
    BY <1>1, <1>3, <2>5 DEF UpstreamChanges, OutsideTypes
  <2> QED BY <1>3, <2>6, OutsideKeeps DEF UpstreamChanges
<1> QED BY <1>2, <1>3

(* The cold system satisfies the invariant.                                *)
LEMMA LegacyInitially == LegacyInit => LegacyInv
<1> SUFFICES ASSUME LegacyInit PROVE LegacyInv
  OBVIOUS
<1>1. 1 \in Version /\ 0 \in Amount /\ 0 \in Time /\ 1 \in 1 .. MaxClock /\ 0 \in Nat
  BY LegacyBounds DEF Version, Amount, Time
<1>2. OutsideTypes
  BY <1>1 DEF LegacyInit, OutsideTypes, Supply
<1>3. DailyTypes
  <2>1. manifest = << >> /\ daily = [success |-> None, error |-> None]
    BY DEF LegacyInit
  <2> QED BY <2>1 DEF DailyTypes
<1>4. TableTypes
  BY DEF LegacyInit, TableTypes
<1>5. Idle \in Invocation /\ Idle.pc = "new" /\ Idle.previous = None
  <2>1. [p \in LPage |-> None] \in [LPage -> Page \cup {None}]
    OBVIOUS
  <2> QED BY <1>1, <2>1 DEF Idle, Invocation, LegacyPc
<1>6. /\ invocation \in [Refreshes -> Invocation]
      /\ \A r \in Refreshes : invocation[r].pc = "new" /\ invocation[r].previous = None
  BY <1>5 DEF LegacyInit
<1>7. InvocationTypes
  BY <1>6 DEF InvocationTypes, InHand, WithBenchLm, WithLiteLlm, WithPages, Checking, Ended, Deriving, Staged
<1>8. LeaseInv
  BY <1>6 DEF LegacyInit, LeaseInv, LeaseOf, WithBenchLm, WithLiteLlm, WithPages, Checking, Deriving, Staged
<1>9. EvidenceInv
  BY <1>6 DEF LegacyInit, EvidenceInv, EvidenceFirst, EvidenceOf, WithBenchLm, WithLiteLlm, WithPages, Deriving, Staged
<1>10. RowsInv
  BY DEF LegacyInit, RowsInv
<1>11. \A r \in Refreshes : StagingOf(r)
  <2>1. cacheSet \notin Refreshes
    BY LegacyNone DEF LegacyInit
  <2> QED BY <1>6, <2>1 DEF StagingOf, Deriving, Staged
<1> QED BY <1>2, <1>3, <1>4, <1>7, <1>8, <1>9, <1>10, <1>11 DEF LegacyInv, LegacyTypes, TablesInv

(* Every step keeps the invariant.                                         *)
LEMMA LegacyStep == LegacyInv /\ [LegacyNext]_legacyVars => LegacyInv'
<1> SUFFICES ASSUME LegacyInv, [LegacyNext]_legacyVars PROVE LegacyInv'
  OBVIOUS
<1>1. CASE UNCHANGED legacyVars
  <2>1. OutsideTypes' /\ UNCHANGED <<daily, manifest, snapshots, tables, invocation>>
    BY <1>1 DEF legacyVars, tables, LegacyInv, LegacyTypes, OutsideTypes
  <2> QED BY <2>1, OutsideKeeps
<1>2. CASE LegacyTick \/ UpstreamChanges
  BY <1>2, EnvironmentKeeps
<1>3. ASSUME NEW r \in Refreshes,
             \/ Start(r) \/ ReadActive(r) \/ AwaitCompleted(r) \/ RecordFailure(r)
             \/ DeriveRevision(r) \/ InvocationFails(r)
      PROVE  LegacyInv'
  BY <1>3, StartKeeps, ReadActiveKeeps, AwaitKeeps, RecordKeeps, DeriveKeeps, FailureKeeps
<1>5. ASSUME NEW r \in Refreshes, NEW lost \in BOOLEAN,
             \/ ClaimDailyCheck(r, lost) \/ PersistDaily(r, lost)
             \/ CompleteDailyCheck(r, lost) \/ ReleaseDailyCheck(r, lost)
             \/ WriteEvidence(r, lost) \/ StageRow(r, lost) \/ StageFacts(r, lost)
             \/ StageResponses(r, lost) \/ Commit(r, lost) \/ CleanUp(r, lost)
      PROVE  LegacyInv'
  BY <1>5, ClaimKeeps, PersistKeeps, CompleteKeeps, ReleaseKeeps, EvidenceKeeps, RowKeeps, FactsKeep,
     ResponsesKeep, CommitKeeps, CleanUpKeeps
<1>4. ASSUME NEW r \in Refreshes, NEW outcome \in Outcome,
             \/ FetchBenchLm(r, outcome) \/ FetchLiteLlm(r, outcome) \/ FetchHub(r, outcome)
             \/ \E p \in LPage, notModified \in BOOLEAN : FetchPage(r, p, outcome, notModified)
      PROVE  LegacyInv'
  BY <1>4, FetchKeeps, LiteLlmKeeps, HubKeeps, PageKeeps
<1> QED BY <1>1, <1>2, <1>3, <1>4, <1>5 DEF LegacyNext

(* The invariant of the legacy refresh holds in every reachable state,     *)
(* for any number of invocations and any interleaving of them.             *)
THEOREM LegacyInvariance == LegacySpec => []LegacyInv
BY LegacyInitially, LegacyStep, PTL DEF LegacySpec

(* However invocations overlap and are killed, the daily check is shared,  *)
(* what is referred to is in R2, and what is published is whole.           *)
THEOREM LegacyIsSafe == LegacySpec => []RefreshIsSafe
<1>1. LegacyInv => RefreshIsSafe
  <2> SUFFICES ASSUME LegacyInv PROVE RefreshIsSafe
    OBVIOUS
  <2>1. LegacyTypeOK
    <3>1. /\ daily.success \in 1 .. MaxClock \cup {None}
          /\ daily.error = None \/ daily.error.owner \in Refreshes
      BY DEF LegacyInv, LegacyTypes, DailyTypes
    <3>2. \A c \in DOMAIN rows : c \in LegacyRevision /\ rows[c].owner \in Refreshes
      BY DEF LegacyInv, LegacyTypes, TableTypes, RowType
    <3>3. /\ active \in LegacyRevision \cup {None}
          /\ cacheSet \in Refreshes \cup {None} /\ DOMAIN responses \subseteq Refreshes
      BY DEF LegacyInv, LegacyTypes, TableTypes
    <3>4. \A r \in Refreshes : invocation[r].benchlm \in 0 .. MaxChanges + 1
      BY DEF LegacyInv, LegacyTypes, InvocationTypes, Invocation, Amount
    <3> QED BY <3>1, <3>2, <3>3, <3>4 DEF LegacyTypeOK
  <2>2. FactsAreOfToday
    BY DEF LegacyInv, LeaseInv, LeaseOf, FactsAreOfToday, WithBenchLm, WithLiteLlm, WithPages, Deriving, Staged
  <2>3. NoLeaseLeftBehind
    <3>1. daily.error # None => daily.error.owner \in Refreshes
      BY DEF LegacyInv, LegacyTypes, DailyTypes
    <3> QED BY <3>1 DEF NoLeaseLeftBehind, LegacyInv, LeaseInv, LeaseOf, Checking
  <2>4. EvidenceFirst
    BY DEF LegacyInv, EvidenceInv
  <2>5. PublishedIsWhole
    <3> SUFFICES ASSUME active # None
                 PROVE  /\ rows[active].state = "published" /\ rows[active].facts
                        /\ \A p, q \in LPage : rows[active].dataset[p] = rows[active].dataset[q]
                        /\ cacheSet \in DOMAIN responses /\ responses[cacheSet] = active
      BY DEF PublishedIsWhole
    <3>1. active \in DOMAIN rows
      BY DEF LegacyInv, LegacyTypes, TableTypes
    <3> QED BY <3>1 DEF LegacyInv, TablesInv, RowsInv
  <2> QED BY <2>1, <2>2, <2>3, <2>4, <2>5 DEF RefreshIsSafe
<1> QED BY <1>1, LegacyInvariance, PTL

(* The check of a day changes in one step only: its holder completes it,   *)
(* and the day of the check before is another.                             *)
THEOREM LegacyChecksOncePerDay == LegacySpec => OneCheckPerDay
<1>1. LegacyInv /\ [LegacyNext]_legacyVars =>
        (daily'.success # daily.success /\ daily.success # None
          => Today(daily'.success) # Today(daily.success))
  <2> SUFFICES ASSUME LegacyInv, LegacyNext, daily'.success # daily.success, daily.success # None
               PROVE  Today(daily'.success) # Today(daily.success)
    BY DEF legacyVars
  <2>1. PICK r \in Refreshes, lost \in BOOLEAN :
            ClaimDailyCheck(r, lost) \/ CompleteDailyCheck(r, lost) \/ ReleaseDailyCheck(r, lost)
    <3>1. ~ (LegacyTick \/ UpstreamChanges)
      BY DEF LegacyTick, UpstreamChanges
    <3>2. ASSUME NEW r \in Refreshes
          PROVE  ~ (\/ Start(r) \/ ReadActive(r) \/ AwaitCompleted(r) \/ RecordFailure(r)
                    \/ DeriveRevision(r) \/ InvocationFails(r))
      BY DEF Start, ReadActive, AwaitCompleted, RecordFailure, DeriveRevision, InvocationFails
    <3>4. ASSUME NEW r \in Refreshes, NEW lost \in BOOLEAN
          PROVE  ~ (\/ PersistDaily(r, lost) \/ WriteEvidence(r, lost) \/ StageRow(r, lost)
                    \/ StageFacts(r, lost) \/ StageResponses(r, lost) \/ Commit(r, lost) \/ CleanUp(r, lost))
      BY DEF PersistDaily, WriteEvidence, StageRow, StageFacts, StageResponses, Commit, CleanUp
    <3>3. ASSUME NEW r \in Refreshes, NEW outcome \in Outcome
          PROVE  ~ (\/ FetchBenchLm(r, outcome) \/ FetchLiteLlm(r, outcome) \/ FetchHub(r, outcome)
                    \/ \E p \in LPage, notModified \in BOOLEAN : FetchPage(r, p, outcome, notModified))
      BY DEF FetchBenchLm, FetchLiteLlm, FetchHub, FetchPage
    <3> QED BY <3>1, <3>2, <3>3, <3>4 DEF LegacyNext
  <2>2. DailyTypes
    BY DEF LegacyInv, LegacyTypes
  <2>3. CASE ClaimDailyCheck(r, lost)
    BY <2>2, <2>3 DEF ClaimDailyCheck, DailyTypes
  <2>4. CASE ReleaseDailyCheck(r, lost)
    BY <2>2, <2>4 DEF ReleaseDailyCheck, DailyTypes
  <2>5. CASE CompleteDailyCheck(r, lost)
    <3>1. daily.error # None /\ daily.error.owner = r /\ daily'.success = invocation[r].at
      BY <2>5 DEF CompleteDailyCheck
    <3> QED BY <3>1 DEF LegacyInv, LeaseInv, LeaseOf
  <2> QED BY <2>1, <2>3, <2>4, <2>5
<1> QED BY <1>1, LegacyInvariance, PTL DEF LegacySpec, OneCheckPerDay

(* Every step is a step of the published view.                             *)
LEMMA StepShows ==
    ASSUME LegacyInv, LegacyInv', [LegacyNext]_legacyVars
    PROVE  LegacyView!ViewNext \/ (Served' = Served /\ Retired' = Retired)
<1>1. CASE UNCHANGED <<rows, active, cacheSet>>
  BY <1>1 DEF Served, Retired
<1>2. ASSUME NEW r \in Refreshes, NEW lost \in BOOLEAN,
             StageRow(r, lost) \/ StageFacts(r, lost) \/ CleanUp(r, lost)
      PROVE  Served' = Served /\ Retired' = Retired
  <2>1. Served' = Served
    BY <1>2 DEF StageRow, StageFacts, CleanUp, Served
  <2>2. ASSUME NEW c \in DOMAIN rows' \cup DOMAIN rows
        PROVE  (c \in DOMAIN rows' /\ rows'[c].state = "superseded")
                 <=> (c \in DOMAIN rows /\ rows[c].state = "superseded")
    <3>1. CASE StageRow(r, lost)
      <4>1. CASE UNCHANGED rows
        BY <4>1
      <4>2. CASE /\ rows' = Put(rows, Candidate(r), Pending(r))
                 /\ ~ (Candidate(r) \in DOMAIN rows /\ ~ Expired(r))
        <5>1. Candidate(r) \in DOMAIN rows => rows[Candidate(r)].state = "pending"
          BY <4>2 DEF Expired
        <5>2. Pending(r).state = "pending"
          BY DEF Pending
        <5> QED BY <4>2, <5>1, <5>2 DEF Put
      <4> QED BY <3>1, <4>1, <4>2 DEF StageRow
    <3>2. CASE StageFacts(r, lost)
      <4>1. CASE UNCHANGED rows
        BY <4>1
      <4>2. CASE Candidate(r) \in DOMAIN rows /\ rows' = [rows EXCEPT ![Candidate(r)].facts = TRUE]
        <5>1. rows \in [DOMAIN rows -> RowType]
          BY DEF LegacyInv, LegacyTypes, TableTypes
        <5>2. PICK new : new = [rows[Candidate(r)] EXCEPT !.facts = TRUE]
          OBVIOUS
        <5>3. new.state = rows[Candidate(r)].state
          BY <4>2, <5>1, <5>2 DEF RowType
        <5>4. rows' = [rows EXCEPT ![Candidate(r)] = new]
          BY <4>2, <5>2
        <5> QED BY <4>2, <5>1, <5>3, <5>4
      <4> QED BY <3>2, <4>1, <4>2 DEF StageFacts
    <3>3. CASE CleanUp(r, lost) /\ ~ UNCHANGED rows
      <4>1. PICK gone : /\ gone = (IF Unchanged(r) THEN {} ELSE OwnedPending(r))
                        /\ rows' = [e \in DOMAIN rows \ gone |-> rows[e]]
        BY <3>3 DEF CleanUp
      <4>2. \A e \in gone : rows[e].state = "pending"
        BY <4>1 DEF OwnedPending
      <4> QED BY <4>1, <4>2
    <3>4. CASE UNCHANGED rows
      BY <3>4
    <3> QED BY <1>2, <3>1, <3>2, <3>3, <3>4
  <2>3. Retired' = Retired
    BY <2>2 DEF Retired
  <2> QED BY <2>1, <2>3
<1>3. ASSUME NEW r \in Refreshes, NEW lost \in BOOLEAN, Commit(r, lost)
      PROVE  LegacyView!ViewNext \/ (Served' = Served /\ Retired' = Retired)
  <2>1. CASE ~ Commits(r)
    BY <1>1, <1>3, <2>1 DEF Commit, tables
  <2>2. CASE Commits(r)
    <3>1. Committed(r) /\ invocation[r].pc = "commit"
      BY <1>3, <2>2 DEF Commit, Committed, At
    <3>2. PICK c : c = Candidate(r)
      OBVIOUS
    <3>3. c \in LegacyRevision /\ c # None
      <4>1. invocation[r].pc \in WithPages
        BY <3>1 DEF WithPages, Staged
      <4> QED BY <3>2, <4>1, CandidateTyped, LegacyNone DEF LegacyInv
    <3>4. /\ DOMAIN rows' = DOMAIN rows /\ c \in DOMAIN rows /\ cacheSet' = r /\ active' = c
          /\ Unchanged(r) => active = c /\ \A e \in DOMAIN rows : rows'[e].state = rows[e].state
          /\ ~ Unchanged(r) =>
                /\ rows[c].state = "pending"
                /\ \A e \in DOMAIN rows : rows'[e].state =
                       IF e = c THEN "published" ELSE IF e = active THEN "superseded" ELSE rows[e].state
      BY <2>2, <3>1, <3>2, CommitEffect
    <3>5. Served' = <<c, r>>
      BY <3>3, <3>4 DEF Served
    <3>6. CASE Unchanged(r)
      <4>1. Served # None /\ Served[1] = c
        <5>1. Served = <<c, cacheSet>> /\ cacheSet \in Refreshes
          BY <3>3, <3>4, <3>6 DEF Served, LegacyInv, LegacyTypes, TableTypes, TablesInv, RowsInv
        <5> QED BY <3>3, <5>1, LegacyNone
      <4>2. Retired' = Retired
        BY <3>4, <3>6 DEF Retired
      <4>3. LegacyView!Refresh(r)
        BY <3>5, <4>1, <4>2 DEF LegacyView!Refresh
      <4> QED BY <4>3 DEF LegacyView!ViewNext
    <3>7. CASE ~ Unchanged(r)
      <4>1. TableTypes /\ RowsInv
        BY DEF LegacyInv, LegacyTypes, TablesInv
      <4>2. c \notin Retired /\ c # active
        BY <3>4, <3>7, <4>1 DEF Retired, RowsInv
      <4>3. CASE active = None
        <5>1. Served = None
          BY <4>3 DEF Served
        <5>2. Retired' = Retired
          <6>1. \A e \in DOMAIN rows : e # active
            BY <4>1, <4>3, LegacyNone DEF TableTypes
          <6> QED BY <3>4, <3>7, <6>1 DEF Retired
        <5>3. LegacyView!Replace(c, r)
          BY <3>5, <4>2, <5>1, <5>2 DEF LegacyView!Replace
        <5> QED BY <3>3, <5>3 DEF LegacyView!ViewNext
      <4>4. CASE active # None
        <5>1. active \in DOMAIN rows /\ active \in LegacyRevision /\ cacheSet \in Refreshes
          BY <4>1, <4>4 DEF TableTypes, RowsInv
        <5>2. Served = <<active, cacheSet>> /\ Served # None /\ Served[1] = active
          BY <4>4, <5>1, LegacyNone DEF Served
        <5>3. Retired' = Retired \cup {active}
          BY <3>4, <3>7, <4>2, <5>1 DEF Retired
        <5>4. LegacyView!Replace(c, r)
          BY <3>5, <4>2, <5>2, <5>3 DEF LegacyView!Replace
        <5> QED BY <3>3, <5>4 DEF LegacyView!ViewNext
      <4> QED BY <4>3, <4>4
    <3> QED BY <3>6, <3>7
  <2> QED BY <2>1, <2>2
<1>4. ASSUME LegacyTick \/ UpstreamChanges PROVE UNCHANGED <<rows, active, cacheSet>>
  BY <1>4 DEF LegacyTick, UpstreamChanges, tables
<1>5. ASSUME NEW r \in Refreshes,
             \/ Start(r) \/ ReadActive(r) \/ AwaitCompleted(r) \/ RecordFailure(r)
             \/ DeriveRevision(r) \/ InvocationFails(r)
      PROVE  UNCHANGED <<rows, active, cacheSet>>
  BY <1>5 DEF Start, ReadActive, AwaitCompleted, RecordFailure, DeriveRevision, InvocationFails, tables
<1>9. ASSUME NEW r \in Refreshes, NEW lost \in BOOLEAN,
             \/ ClaimDailyCheck(r, lost) \/ PersistDaily(r, lost) \/ CompleteDailyCheck(r, lost)
             \/ ReleaseDailyCheck(r, lost) \/ WriteEvidence(r, lost) \/ StageResponses(r, lost)
      PROVE  UNCHANGED <<rows, active, cacheSet>>
  BY <1>9 DEF ClaimDailyCheck, PersistDaily, CompleteDailyCheck, ReleaseDailyCheck, WriteEvidence,
              StageResponses, tables
<1>6. ASSUME NEW r \in Refreshes, NEW outcome \in Outcome,
             \/ FetchBenchLm(r, outcome) \/ FetchLiteLlm(r, outcome) \/ FetchHub(r, outcome)
             \/ \E p \in LPage, notModified \in BOOLEAN : FetchPage(r, p, outcome, notModified)
      PROVE  UNCHANGED <<rows, active, cacheSet>>
  BY <1>6 DEF FetchBenchLm, FetchLiteLlm, FetchHub, FetchPage, tables
<1>7. CASE UNCHANGED legacyVars
  BY <1>1, <1>7 DEF legacyVars
<1>8. CASE LegacyNext
  BY <1>1, <1>2, <1>3, <1>4, <1>5, <1>6, <1>8, <1>9 DEF LegacyNext
<1> QED BY <1>7, <1>8

(* Overlapping refreshes change what is served as PublishedView allows.    *)
THEOREM LegacyViewKept == LegacySpec => LegacyKeepsView
<1>1. LegacyInv /\ LegacyInv' /\ [LegacyNext]_legacyVars
        => [UNCHANGED <<active, cacheSet, rows>> \/ LegacyView!ViewNext]_<<Served, Retired>>
  BY StepShows
<1> QED BY <1>1, LegacyInvariance, PTL DEF LegacySpec, LegacyKeepsView

(* From a cold start the legacy refresh implements the published view.     *)
THEOREM LegacyImplementsView == LegacySpec => LegacyView!ViewSpec
<1>1. LegacyInit => LegacyView!ViewInit
  BY DEF LegacyInit, LegacyView!ViewInit, Served, Retired
<1>2. LegacyInv /\ LegacyInv' /\ [LegacyNext]_legacyVars => [LegacyView!ViewNext]_<<Served, Retired>>
  BY StepShows
<1> QED BY <1>1, <1>2, LegacyInvariance, PTL DEF LegacySpec, LegacyView!ViewSpec
=============================================================================
