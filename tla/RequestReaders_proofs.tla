------------------------ MODULE RequestReaders_proofs ------------------------
(***************************************************************************)
(* Proofs about the benchmark endpoints: whatever is published, rechecked, *)
(* abandoned or republished between the queries of a request, and          *)
(* whichever of them fail, its answer is of one revision, called fresh     *)
(* only when it is, and revalidated only against itself.                   *)
(*                                                                         *)
(* None of this is inductive alone.  The inductive invariant says how the  *)
(* tables agree and only move forward (TablesHold, InOrder, RowsFollow),   *)
(* what a request knows at each of its queries (ReadHolds), and what the   *)
(* tag of a held answer determines (HeldHolds).                            *)
(***************************************************************************)
EXTENDS RequestReaders, SequenceTheorems, FiniteSetTheorems, NaturalsInduction, WellFoundedInduction, TLAPS

---------------------------------------------------------------------------
(* The tables *)

(* The active responses are of the active revision, and of its last check   *)
(* unless a republication made them.                                        *)
PointerHolds ==
    /\ activeSet.rev = active
    /\ activeSet.checked <= checked[active]
    /\ activeSet.by = None => activeSet.checked = checked[active]

(* What a republication has at hand is of a revision that was published, and *)
(* no newer than its last check.                                            *)
RepublicationHolds(p) ==
    LET own == republish[p].set
    IN republish[p].phase \in {"read", "staged", "sent"} =>
          /\ own \in ResponseSets /\ own.by = p
          /\ state[own.rev] = "published" /\ own.checked <= checked[own.rev]

RepublicationsHold == DOMAIN republish = Republishers /\ \A p \in Republishers : RepublicationHolds(p)

TablesHold ==
    /\ now \in Instants
    /\ state \in [Revisions -> {"none", "pending", "abandoned", "published"}]
    /\ active \in Revisions /\ state[active] = "published"
    /\ checked \in [Revisions -> Instants]
    /\ built \in [Revisions -> Instants]
    /\ sets \subseteq ResponseSets
    /\ activeSet # None => activeSet \in sets /\ PointerHolds
    /\ RepublicationsHold

(* A candidate is staged when no older one is still open. *)
InOrder ==
    \A r, s \in Revisions : s < r /\ state[r] # "none" => state[s] \notin {"none", "pending"}

(* The later of two publications. *)
Later(u, v) == u[1] < v[1] \/ (u[1] = v[1] /\ u[2] < v[2])

(* A row is replaced only by a later publication, so that its date tells it. *)
MovesTo(row, newer) == newer = row \/ Later(row.updated, newer.updated)

RowsFollow ==
    \A m \in Models :
        LET row == directory[m]
        IN row # None =>
              /\ row \in DirectoryRows
              /\ row.updated = <<active, checked[active]>> \/ Later(row.updated, <<active, checked[active]>>)
              /\ row.status = "current" => row.latest = active

---------------------------------------------------------------------------
(* The request *)

ReadFields ==
    {"start", "failed", "cursor", "during", "rev", "checked", "rows", "week", "parts", "offset", "more",
     "items", "known", "stored"}

IsQueryOfEndpoint(query) ==
    \/ endpoint = "summary" /\ query \in {"cache", "revision", "facts", "historical"}
    \/ endpoint = "archived"
       /\ query \in {"cache", "revision", "facts", "archivedRows", "archivedProfiles", "historical"}
    \/ endpoint = "leaderboard" /\ query \in {"cache", "projection", "oldProjection", "historical"}
    \/ endpoint = "profile" /\ query \in {"entry", "profiles", "alias", "revision", "facts"}
    \/ endpoint \in Listings /\ query \in {"week", "rows", "rowProfiles"}
    \/ endpoint = "sitemap" /\ query \in {"page", "pageProfiles"}
    \/ endpoint = "comparison" /\ query \in {"revision", "facts", "pairs", "related"}

(* The queries that a revision is read for, and those after its facts. *)
OfRevision == {"facts", "archivedRows", "archivedProfiles", "pairs", "related"}
AfterFacts == OfRevision \ {"facts"}

(* The queries that only follow failures, once a set is stored. *)
FollowsFailures(query, failed) ==
    /\ endpoint = "summary" /\ query \in {"revision", "facts"} => failed >= 1
    /\ query = "oldProjection" => failed >= 1
    /\ query = "historical" => failed >= (IF endpoint = "archived" THEN 1 ELSE 2)

(* A row that is at hand comes from the directory, of a revision that was public. *)
ReadRow(m, row) ==
    /\ row \in DirectoryRows
    /\ directory[m] # None /\ MovesTo(row, directory[m])
    /\ row.status = "current" => \E d \in read.during : d.rev = row.latest

EntryHolds ==
    LET entry == Head(read.rows)
    IN entry.model \in Models /\ ReadRow(entry.model, entry.row)
       /\ entry = [model |-> entry.model, row |-> entry.row]

ReadHolds ==
    at # "idle" =>
        /\ DOMAIN read = ReadFields
        /\ IsQueryOfEndpoint(at)
        /\ read.start \in Instants /\ read.start <= now
        /\ read.failed \in Nat
        /\ read.cursor = cursor
        /\ Edition \in read.during
        /\ read.stored => activeSet # None /\ FollowsFailures(at, read.failed)
        /\ at \in OfRevision => \E d \in read.during : d.rev = read.rev
        /\ read.parts = IF at \in AfterFacts THEN {read.rev} ELSE {}
        /\ at = "profiles" => EntryHolds
        /\ answer = NoAnswer

---------------------------------------------------------------------------
(* The client *)

ChainHolds ==
    /\ ChainIsOneList
    /\ endpoint = "leaderboard" /\ cursor # None => cursor.rev \in Revisions /\ cursor.offset \in Nat
    /\ endpoint = "leaderboard" /\ cursor = None /\ at # "idle" => gathered = <<>>

(* A profile row as the client holds it. *)
HeldRow(m, row) ==
    /\ row \in DirectoryRows /\ m \in Models
    /\ directory[m] # None /\ MovesTo(row, directory[m])
    /\ at = "profiles" /\ Head(read.rows).model = m => MovesTo(row, Head(read.rows).row)

(* The answer that a tag of the endpoint can only stand for. *)
SetTag(etag, body) == etag = BenchmarkEtag(body) /\ body = Body(body.rev, body.checked, body.freshness, <<>>)

BoardTag(etag, body) ==
    /\ etag = <<BenchmarkEtag(body), None>>
    /\ body = Body(body.rev, body.checked, body.freshness, Page(Members[body.rev], 0))

RowTag(etag, body, m, row) ==
    /\ etag = <<m, row.updated, body.rev, body.checked, body.freshness>>
    /\ body = Body(body.rev, body.checked, body.freshness, <<[model |-> m, row |-> row]>>)

HeldHolds ==
    held # None =>
        /\ endpoint = "summary" => SetTag(held.etag, held.body)
        /\ endpoint = "leaderboard" => BoardTag(held.etag, held.body)
        /\ endpoint = "profile" =>
              \/ SetTag(held.etag, held.body)
              \/ \E m \in Models, row \in DirectoryRows :
                    RowTag(held.etag, held.body, m, row) /\ HeldRow(m, row)

AnswerHolds ==
    /\ answer.status \in {None, 200, 304, 400, 404, 503}
    /\ FreshNamesCurrent /\ FactsOfOneRevision /\ FailuresAreCovered
    /\ RevalidationIsTrue /\ (answer.status = 304 => held # None)



---------------------------------------------------------------------------
(* Operators of the library *)

LEMMA SizesAreNatural ==
    /\ Window \in Nat \ {0} /\ PageSize \in Nat \ {0} /\ LastRevision \in Nat \ {0} /\ LastTime \in Nat
    /\ 1 \in Revisions /\ Revisions \subseteq Nat /\ Instants \subseteq Nat /\ 0 \in Instants
BY ReaderSizes DEF Revisions, Instants

(* A set of numbers has a least one. *)
LEMMA MinIsLeast ==
    ASSUME NEW S \in SUBSET Nat, S # {}
    PROVE  Min(S) \in S /\ \A y \in S : Min(S) <= y
<1> DEFINE Below == {p \in Nat \X Nat : p[1] < p[2]}
<1>1. IsWellFoundedOn(Below, Nat)
  BY NatLessThanWellFounded DEF OpToRel, IsWellFoundedOn
<1>2. PICK x \in S : \A y \in S : <<y, x>> \notin Below
  BY <1>1, WFMin
<1>3. \A y \in S : x <= y
  <2> TAKE y \in S
  <2>1. y \in Nat /\ x \in Nat
    OBVIOUS
  <2>2. ~ (<<y, x>>[1] < <<y, x>>[2])
    BY <1>2, <2>1
  <2> QED
    BY <2>1, <2>2
<1> QED
  BY <1>3 DEF Min

LEMMA MinOfTwo ==
    ASSUME NEW a \in Nat, NEW b \in Nat
    PROVE  Min({a, b}) = IF a <= b THEN a ELSE b
<1>1. Min({a, b}) \in {a, b} /\ Min({a, b}) <= a /\ Min({a, b}) <= b
  BY MinIsLeast
<1> QED
  BY <1>1

(* There are finitely many models, so a set of them can be listed. *)
LEMMA ModelsAreFinite == IsFiniteSet(Models)
<1> DEFINE Lists == {Range(Members[r]) : r \in Revisions}
<1>1. IsFiniteSet(Revisions)
  BY FS_Interval, SizesAreNatural DEF Revisions
<1>2. IsFiniteSet(Lists)
  <2>1. [r \in Revisions |-> Range(Members[r])] \in Surjection(Revisions, Lists)
    BY DEF Surjection
  <2> QED
    BY <1>1, <2>1, FS_Surjection
<1>3. ASSUME NEW r \in Revisions PROVE IsFiniteSet(Range(Members[r]))
  <2>1. Members[r] \in Seq(Models)
    BY ReaderLists
  <2>2. DOMAIN Members[r] = 1..Len(Members[r]) /\ Len(Members[r]) \in Nat
    BY <2>1
  <2>3. IsFiniteSet(DOMAIN Members[r])
    BY <2>2, FS_Interval
  <2> QED
    <3>1. Members[r] \in Surjection(DOMAIN Members[r], Range(Members[r]))
      BY <2>1 DEF Surjection, Range
    <3> QED
      BY <2>3, <3>1, FS_Surjection
<1> QED
  BY <1>2, <1>3, FS_UNION DEF Models

LEMMA FirstOfListed ==
    ASSUME NEW S \in SUBSET Models, S # {}
    PROVE  1 \in DOMAIN SetToSeq(S) /\ SetToSeq(S)[1] \in S
<1>1. IsFiniteSet(S)
  BY ModelsAreFinite, FS_Subset
<1>2. Cardinality(S) \in Nat /\ ExistsBijection(1..Cardinality(S), S) /\ Cardinality(S) # 0
  BY <1>1, FS_CardinalityType, FS_EmptySet
<1>3. \E f \in [1..Cardinality(S) -> S] : IsInjective(f)
  BY <1>2 DEF ExistsBijection, Bijection, Injection, IsInjective
<1>4. SetToSeq(S) \in [1..Cardinality(S) -> S]
  BY <1>3 DEF SetToSeq
<1> QED
  BY <1>2, <1>4

---------------------------------------------------------------------------
(* The tables *)

LEMMA MovesToIsTransitive ==
    ASSUME NEW a \in DirectoryRows, NEW b \in DirectoryRows, NEW c \in DirectoryRows,
           MovesTo(a, b), MovesTo(b, c)
    PROVE  MovesTo(a, c)
<1>1. /\ a.updated \in Nat \X Nat /\ b.updated \in Nat \X Nat /\ c.updated \in Nat \X Nat
  BY SizesAreNatural DEF DirectoryRows
<1>2. \A u, v, w \in Nat \X Nat : Later(u, v) /\ Later(v, w) => Later(u, w)
  BY DEF Later
<1> QED
  BY <1>1, <1>2 DEF MovesTo

(* A date that tells a row tells it from every row it moves to. *)
LEMMA DateTellsRow ==
    ASSUME NEW a \in DirectoryRows, NEW b \in DirectoryRows, MovesTo(a, b), a.updated = b.updated
    PROVE  a = b
<1>1. a.updated \in Nat \X Nat
  BY SizesAreNatural DEF DirectoryRows
<1>2. ~Later(a.updated, a.updated)
  BY <1>1 DEF Later
<1> QED
  BY <1>2 DEF MovesTo

(* A later publication moves the rows forward, and leaves none out. *)
LEMMA DirectoryMoves ==
    ASSUME TablesHold, RowsFollow, NEW r \in Revisions, NEW i \in Instants,
           Later(<<active, checked[active]>>, <<r, i>>)
    PROVE  \A m \in Models :
              LET row == directory[m]
                  after == DirectoryAfter(r, i)[m]
              IN /\ row # None => after # None /\ MovesTo(row, after) /\ after.slug = row.slug
                 /\ after # None =>
                       /\ after \in DirectoryRows
                       /\ after.updated = <<r, i>> \/ Later(after.updated, <<r, i>>)
                       /\ after.status = "current" => after.latest = r
                       /\ after.latest = r \/ (row # None /\ after.latest = row.latest)
<1> SUFFICES ASSUME NEW m \in Models
             PROVE  LET row == directory[m]
                        after == DirectoryAfter(r, i)[m]
                    IN /\ row # None => after # None /\ MovesTo(row, after) /\ after.slug = row.slug
                       /\ after # None =>
                             /\ after \in DirectoryRows
                             /\ after.updated = <<r, i>> \/ Later(after.updated, <<r, i>>)
                             /\ after.status = "current" => after.latest = r
                             /\ after.latest = r \/ (row # None /\ after.latest = row.latest)
  OBVIOUS
<1> DEFINE row == directory[m]
           after == DirectoryAfter(r, i)[m]
           edition == <<active, checked[active]>>
<1>1. row # None =>
        /\ row \in DirectoryRows
        /\ row.updated = edition \/ Later(row.updated, edition)
  BY DEF RowsFollow
<1>2. edition \in Nat \X Nat /\ <<r, i>> \in Nat \X Nat
  BY SizesAreNatural DEF TablesHold
<1>3. \A u, v, w \in Nat \X Nat : Later(u, v) /\ Later(v, w) => Later(u, w)
  BY DEF Later
<1>4. row # None => Later(row.updated, <<r, i>>)
  <2> SUFFICES ASSUME row # None PROVE Later(row.updated, <<r, i>>)
    OBVIOUS
  <2>1. row.updated \in Nat \X Nat
    BY <1>1, SizesAreNatural DEF DirectoryRows
  <2> QED
    BY <1>1, <1>2, <1>3, <2>1
<1>5. None \notin DirectoryRows
  BY ReaderNone
<1>6. CASE m \in DOMAIN SlugIn[r]
  <2>1. after = Row(KeptSlug(m, r), "current", r, <<r, i>>[2])
    BY <1>6 DEF DirectoryAfter
  <2>2. SlugIn[r][m] \in Slugs
    BY <1>6 DEF Slugs, Range
  <2>3. KeptSlug(m, r) \in Slugs /\ (row # None => KeptSlug(m, r) = row.slug)
    BY <1>1, <2>2 DEF KeptSlug, DirectoryRows
  <2>4. after \in DirectoryRows
    BY <2>1, <2>3 DEF Row, DirectoryRows
  <2> QED
    BY <1>4, <1>5, <2>1, <2>3, <2>4 DEF Row, MovesTo
<1>7. CASE m \notin DOMAIN SlugIn[r] /\ (row = None \/ row.status = "archived")
  <2>1. after = row
    BY <1>7 DEF DirectoryAfter
  <2> QED
    BY <1>1, <1>4, <1>7, <2>1 DEF MovesTo
<1>8. CASE m \notin DOMAIN SlugIn[r] /\ row # None /\ row.status # "archived"
  <2>1. after = [row EXCEPT !.status = "archived", !.updated = <<r, i>>]
    BY <1>8 DEF DirectoryAfter
  <2>2. /\ after \in DirectoryRows /\ after.slug = row.slug /\ after.updated = <<r, i>>
        /\ after.status = "archived" /\ after.latest = row.latest
    <3>1. row = [slug |-> row.slug, status |-> row.status, latest |-> row.latest, updated |-> row.updated]
      BY <1>1, <1>8 DEF DirectoryRows
    <3>2. after = [slug |-> row.slug, status |-> "archived", latest |-> row.latest, updated |-> <<r, i>>]
      BY <2>1, <3>1
    <3> QED
      BY <1>1, <1>8, <3>2 DEF DirectoryRows
  <2> QED
    BY <1>4, <1>5, <1>8, <2>2 DEF MovesTo
<1> QED
  BY <1>6, <1>7, <1>8

(* What the requests may rely on when the tables are written. *)
MoveOn ==
    /\ now <= now'
    /\ activeSet # None => activeSet' # None
    /\ \A m \in Models :
          directory[m] # None =>
             directory'[m] # None /\ MovesTo(directory[m], directory'[m]) /\ directory'[m].slug = directory[m].slug
    /\ UNCHANGED <<at, answer, client, failures>>
    /\ (read' = read /\ Edition' = Edition) \/ Observe

TablesInv == TablesHold /\ InOrder /\ RowsFollow

LEMMA InitKeepsTables == ReadersInit => TablesInv
<1> SUFFICES ASSUME ReadersInit PROVE TablesInv
  OBVIOUS
<1> USE SizesAreNatural DEF ReadersInit
<1>1. TablesHold
  <2>1. OfCycle(1, 0) \in ResponseSets /\ OfCycle(1, 0).rev = 1 /\ OfCycle(1, 0).checked = 0
    BY DEF OfCycle, ResponseSets
  <2>2. RepublicationsHold
    BY DEF RepublicationsHold, RepublicationHolds
  <2>3. activeSet # None => activeSet \in sets /\ PointerHolds
    BY <2>1 DEF PointerHolds
  <2> QED
    BY <2>1, <2>2, <2>3 DEF TablesHold
<1>2. InOrder
  BY DEF InOrder, Revisions
<1>3. RowsFollow
  <2> SUFFICES ASSUME NEW m \in Models, directory[m] # None
               PROVE  /\ directory[m] \in DirectoryRows
                      /\ directory[m].updated = <<active, checked[active]>>
                      /\ directory[m].latest = active
    BY DEF RowsFollow
  <2>1. m \in DOMAIN SlugIn[1] /\ directory[m] = Row(SlugIn[1][m], "current", 1, 0)
    OBVIOUS
  <2>2. SlugIn[1][m] \in Slugs
    BY <2>1 DEF Slugs, Range
  <2> QED
    BY <2>1, <2>2 DEF Row, DirectoryRows
<1> QED
  BY <1>1, <1>2, <1>3 DEF TablesInv

LEMMA DatesAreNatural ==
    ASSUME TablesHold
    PROVE  now \in Nat /\ \A r \in Revisions : checked[r] \in Nat
BY SizesAreNatural DEF TablesHold

(* The pointer and the republications, when the dates of what is published   *)
(* only grow.                                                               *)
LEMMA PublishedStays ==
    ASSUME TablesHold, republish' = republish,
           \A r \in Revisions : state[r] = "published" => state'[r] = "published" /\ checked[r] <= checked'[r],
           checked' \in [Revisions -> Instants]
    PROVE  RepublicationsHold'
<1> SUFFICES ASSUME NEW p \in Republishers PROVE RepublicationHolds(p)'
  BY DEF TablesHold, RepublicationsHold
<1>1. RepublicationHolds(p)
  BY DEF TablesHold, RepublicationsHold
<1>2. ASSUME republish[p].set \in ResponseSets
      PROVE  LET own == republish[p].set
             IN own.rev \in Revisions /\ own.checked \in Nat /\ checked[own.rev] \in Nat /\ checked'[own.rev] \in Nat
  BY <1>2, SizesAreNatural DEF ResponseSets, TablesHold
<1> QED
  BY <1>1, <1>2 DEF RepublicationHolds

LEMMA StageMovesOn ==
    ASSUME TablesInv, NEW r \in Revisions, Stage(r)
    PROVE  TablesInv' /\ MoveOn
<1> USE SizesAreNatural DEF Stage, Reading, client, TablesInv
<1>1. r # active /\ Edition' = Edition
  BY DEF TablesHold, Edition
<1>2. TablesHold'
  <2>1. OfCycle(r, now) \in ResponseSets
    BY DEF TablesHold, OfCycle, ResponseSets
  <2>2. activeSet' # None => activeSet' \in sets' /\ PointerHolds'
    BY <1>1 DEF TablesHold, PointerHolds
  <2>3. \A q \in Revisions :
           state[q] = "published" => state'[q] = "published" /\ checked[q] <= checked'[q]
    BY DatesAreNatural DEF TablesHold
  <2>4. checked' \in [Revisions -> Instants] /\ built' \in [Revisions -> Instants]
    BY DEF TablesHold
  <2>5. RepublicationsHold'
    BY <2>3, <2>4, PublishedStays
  <2> QED
    BY <1>1, <2>1, <2>2, <2>4, <2>5 DEF TablesHold
<1>3. InOrder'
  <2> SUFFICES ASSUME NEW s \in Revisions, NEW t \in Revisions, t < s, state'[s] # "none"
               PROVE  state'[t] \notin {"none", "pending"}
    BY DEF InOrder
  <2>1. CASE s = r
    BY <2>1 DEF TablesHold, Revisions
  <2>2. CASE s # r
    BY <2>2 DEF TablesHold, InOrder
  <2> QED
    BY <2>1, <2>2
<1>4. RowsFollow'
  BY <1>1 DEF RowsFollow, TablesHold
<1>5. MoveOn
  BY <1>1 DEF MoveOn, MovesTo, TablesHold
<1> QED
  BY <1>2, <1>3, <1>4, <1>5

LEMMA AbandonMovesOn ==
    ASSUME TablesInv, NEW r \in Revisions, Abandon(r)
    PROVE  TablesInv' /\ MoveOn
<1> USE SizesAreNatural DEF Abandon, Reading, client, TablesInv
<1>1. r # active /\ Edition' = Edition
  BY DEF TablesHold, Edition
<1>2. TablesHold'
  <2>1. \A q \in Revisions :
           state[q] = "published" => state'[q] = "published" /\ checked[q] <= checked'[q]
    BY DatesAreNatural DEF TablesHold
  <2>2. RepublicationsHold'
    BY <2>1, PublishedStays DEF TablesHold
  <2> QED
    BY <1>1, <2>2 DEF TablesHold, PointerHolds
<1>3. InOrder'
  BY DEF InOrder, TablesHold
<1>4. RowsFollow'
  BY <1>1 DEF RowsFollow, TablesHold
<1>5. MoveOn
  BY <1>1 DEF MoveOn, MovesTo, TablesHold
<1> QED
  BY <1>2, <1>3, <1>4, <1>5

LEMMA TickMovesOn ==
    ASSUME TablesInv, Tick
    PROVE  TablesInv' /\ MoveOn
<1> USE SizesAreNatural DEF Tick, Reading, client, TablesInv
<1>1. Edition' = Edition
  BY DEF Edition
<1>2. TablesHold'
  BY <1>1, ReaderSizes DEF TablesHold, Instants, PointerHolds, RepublicationsHold, RepublicationHolds
<1>3. InOrder' /\ RowsFollow'
  BY DEF InOrder, RowsFollow
<1>4. MoveOn
  BY <1>1 DEF MoveOn, MovesTo, TablesHold
<1> QED
  BY <1>2, <1>3, <1>4

(* A publication, or a new check of what is published. *)
LEMMA DirectoryMovesOn ==
    ASSUME TablesInv, NEW r \in Revisions, NEW i \in Instants,
           Later(<<active, checked[active]>>, <<r, i>>),
           directory' = DirectoryAfter(r, i), active' = r, checked'[r] = i
    PROVE  /\ RowsFollow'
           /\ \A m \in Models :
                 directory[m] # None =>
                    /\ directory'[m] # None /\ MovesTo(directory[m], directory'[m])
                    /\ directory'[m].slug = directory[m].slug
<1>1. \A m \in Models :
         LET row == directory[m]
             after == directory'[m]
         IN /\ row # None => after # None /\ MovesTo(row, after) /\ after.slug = row.slug
            /\ after # None =>
                  /\ after \in DirectoryRows
                  /\ after.updated = <<r, i>> \/ Later(after.updated, <<r, i>>)
                  /\ after.status = "current" => after.latest = r
                  /\ after.latest = r \/ (row # None /\ after.latest = row.latest)
  BY DirectoryMoves DEF TablesInv
<1>2. RowsFollow'
  BY <1>1 DEF RowsFollow
<1> QED
  BY <1>1, <1>2

LEMMA PublishMovesOn ==
    ASSUME TablesInv, NEW r \in Revisions, Publish(r)
    PROVE  TablesInv' /\ MoveOn
<1> USE SizesAreNatural DEF TablesInv
<1>1. active \in Revisions /\ state[active] = "published" /\ checked \in [Revisions -> Instants]
      /\ state[r] = "pending" /\ active' = r /\ checked' = checked /\ sets' = sets
      /\ activeSet' = OfCycle(r, checked[r]) /\ activeSet' \in sets /\ sets \subseteq ResponseSets
  BY DEF TablesHold, Publish
<1>2. active < r
  BY <1>1 DEF InOrder, Revisions
<1>3. Later(<<active, checked[active]>>, <<r, checked[r]>>)
  BY <1>2 DEF Later
<1>4. /\ RowsFollow'
      /\ \A m \in Models :
            directory[m] # None =>
               /\ directory'[m] # None /\ MovesTo(directory[m], directory'[m])
               /\ directory'[m].slug = directory[m].slug
  BY <1>1, <1>3, DirectoryMovesOn DEF Publish
<1>5. TablesHold'
  <2>1. PointerHolds'
    BY <1>1, DatesAreNatural DEF PointerHolds, OfCycle
  <2>2. state' = [state EXCEPT ![r] = "published"] /\ UNCHANGED <<now, built, republish>>
    BY DEF Publish
  <2>3. \A q \in Revisions :
           state[q] = "published" => state'[q] = "published" /\ checked[q] <= checked'[q]
    BY <1>1, <2>2, DatesAreNatural DEF TablesHold
  <2>4. RepublicationsHold'
    BY <1>1, <2>2, <2>3, PublishedStays
  <2> QED
    BY <1>1, <2>1, <2>2, <2>4 DEF TablesHold
<1>6. InOrder'
  BY DEF InOrder, TablesHold, Publish
<1>7. MoveOn
  <2>1. activeSet' # None
    BY <1>1, ReaderNone
  <2> QED
    BY <1>1, <1>4, <2>1 DEF MoveOn, Publish, Reading, client, TablesHold
<1> QED
  BY <1>4, <1>5, <1>6, <1>7

LEMMA RecheckMovesOn ==
    ASSUME TablesInv, Recheck
    PROVE  TablesInv' /\ MoveOn
<1> USE SizesAreNatural DEF TablesInv
<1> DEFINE new == OfCycle(active, now)
<1>1. /\ active \in Revisions /\ now \in Instants /\ checked \in [Revisions -> Instants] /\ sets \subseteq ResponseSets
      /\ checked[active] < now /\ \A r \in Revisions : state[r] # "pending"
      /\ active' = active /\ checked' = [checked EXCEPT ![active] = now] /\ sets' = sets \cup {new}
      /\ activeSet' = new /\ UNCHANGED <<state, now, built, republish>>
  BY DEF TablesHold, Recheck
<1>2. new \in ResponseSets /\ new.rev = active /\ new.checked = now
  BY <1>1 DEF ResponseSets, OfCycle
<1>3. Later(<<active, checked[active]>>, <<active, now>>)
  BY <1>1 DEF Later
<1>4. checked'[active] = now /\ checked' \in [Revisions -> Instants]
  BY <1>1
<1>5. /\ RowsFollow'
      /\ \A m \in Models :
            directory[m] # None =>
               /\ directory'[m] # None /\ MovesTo(directory[m], directory'[m])
               /\ directory'[m].slug = directory[m].slug
  <2>1. directory' = DirectoryAfter(active, now)
    BY DEF Recheck
  <2> QED
    BY <1>1, <1>3, <1>4, <2>1, DirectoryMovesOn
<1>6. TablesHold'
  <2>1. PointerHolds'
    <3> HIDE DEF new
    <3> QED
      BY <1>1, <1>2, <1>4 DEF PointerHolds
  <2>2. \A q \in Revisions :
           state[q] = "published" => state'[q] = "published" /\ checked[q] <= checked'[q]
    BY <1>1, DatesAreNatural
  <2>3. RepublicationsHold'
    BY <1>1, <1>4, <2>2, PublishedStays
  <2> HIDE DEF new
  <2> QED
    BY <1>1, <1>2, <1>4, <2>1, <2>3 DEF TablesHold
<1>7. InOrder'
  BY <1>1 DEF InOrder
<1>8. MoveOn
  <2>1. activeSet' # None
    BY <1>1, <1>2, ReaderNone
  <2> QED
    BY <1>1, <1>5, <2>1 DEF MoveOn, Recheck, Reading, client, TablesHold
<1> QED
  BY <1>5, <1>6, <1>7, <1>8

(* A republication leaves what is published as it is: the facts about the    *)
(* response sets and their pointer are all that it could break.             *)
LEMMA RepublicationMovesOn ==
    ASSUME TablesInv, OtherTables, Reading, activeSet # None => activeSet' # None,
           sets' \subseteq ResponseSets, activeSet' # None => activeSet' \in sets' /\ PointerHolds',
           RepublicationsHold'
    PROVE  TablesInv' /\ MoveOn
<1>1. Edition' = Edition
  BY DEF OtherTables, Edition
<1>2. TablesHold'
  BY DEF TablesInv, TablesHold, OtherTables
<1>3. InOrder' /\ RowsFollow'
  BY DEF TablesInv, InOrder, RowsFollow, OtherTables
<1>4. MoveOn
  BY <1>1, SizesAreNatural DEF MoveOn, MovesTo, TablesInv, TablesHold, OtherTables, Reading, client
<1> QED
  BY <1>2, <1>3, <1>4 DEF TablesInv

LEMMA OwnSetHolds ==
    ASSUME TablesHold, OtherTables, NEW p \in Republishers, NEW phase, NEW set, Proceeds(p, phase, set),
           phase # "closed" =>
              /\ set \in ResponseSets /\ set.by = p
              /\ state[set.rev] = "published" /\ set.checked <= checked[set.rev]
    PROVE  RepublicationsHold'
<1> SUFFICES ASSUME NEW q \in Republishers PROVE RepublicationHolds(q)'
  BY DEF Proceeds, TablesHold, RepublicationsHold
<1>1. UNCHANGED <<state, checked>>
  BY DEF OtherTables
<1>2. republish' = [republish EXCEPT ![p] = [phase |-> phase, set |-> set]] /\ p \in DOMAIN republish
  BY DEF Proceeds, TablesHold, RepublicationsHold
<1>3. CASE q = p
  BY <1>1, <1>2, <1>3 DEF RepublicationHolds
<1>4. CASE q # p
  <2>1. republish'[q] = republish[q] /\ RepublicationHolds(q)
    BY <1>2, <1>4 DEF TablesHold, RepublicationsHold
  <2> QED
    BY <1>1, <2>1 DEF RepublicationHolds
<1> QED
  BY <1>3, <1>4

LEMMA RepublishMovesOn ==
    ASSUME TablesInv, NEW p \in Republishers, RepublishStep(p)
    PROVE  TablesInv' /\ MoveOn
<1> DEFINE own == republish[p].set
<1>1. /\ active \in Revisions /\ state[active] = "published" /\ checked \in [Revisions -> Instants]
      /\ sets \subseteq ResponseSets /\ (activeSet # None => activeSet \in sets /\ PointerHolds)
      /\ TablesHold
  BY DEF TablesInv, TablesHold
<1>2. republish[p].phase \in {"read", "staged", "sent"} =>
         /\ own \in ResponseSets /\ own.by = p
         /\ state[own.rev] = "published" /\ own.checked <= checked[own.rev]
  BY <1>1 DEF TablesHold, RepublicationsHold, RepublicationHolds
<1>3. ASSUME UNCHANGED <<active, checked, activeSet>>, PointerHolds
      PROVE  PointerHolds'
  BY <1>3 DEF PointerHolds
<1>4. CASE RepublishReads(p)
  <2>1. /\ Snapshot(p) \in ResponseSets /\ Snapshot(p).by = p
        /\ state[Snapshot(p).rev] = "published" /\ Snapshot(p).checked <= checked[Snapshot(p).rev]
    <3>1. checked[active] \in Nat
      BY <1>1, SizesAreNatural
    <3> QED
      BY <1>1, <3>1 DEF Snapshot, ResponseSets
  <2>2. Proceeds(p, "read", Snapshot(p)) /\ OtherTables /\ Reading /\ UNCHANGED <<sets, activeSet, active, checked>>
    BY <1>4 DEF RepublishReads, OtherTables
  <2>3. RepublicationsHold'
    BY <1>1, <2>1, <2>2, OwnSetHolds
  <2> QED
    BY <1>1, <1>3, <2>2, <2>3, RepublicationMovesOn
<1>5. CASE RepublishStages(p)
  <2>1. /\ Proceeds(p, "staged", own) /\ OtherTables /\ Reading /\ UNCHANGED <<activeSet, active, checked>>
        /\ republish[p].phase = "read" /\ sets' = sets \cup {own}
    BY <1>5 DEF RepublishStages, OtherTables
  <2>2. RepublicationsHold'
    BY <1>1, <1>2, <2>1, OwnSetHolds
  <2> QED
    BY <1>1, <1>2, <1>3, <2>1, <2>2, RepublicationMovesOn
<1>6. CASE RepublishCommits(p)
  <2>1. /\ Proceeds(p, "closed", None) \/ Proceeds(p, "sent", own)
        /\ OtherTables /\ Reading /\ UNCHANGED <<active, checked>>
        /\ republish[p].phase = "staged" /\ own \in sets /\ own.rev = active
        /\ activeSet' = own /\ sets' \in Retained(own)
    BY <1>6 DEF RepublishCommits, OtherTables, MayPointTo
  <2>2. own \in sets' /\ sets' \subseteq sets
    BY <2>1 DEF Retained
  <2>3. PointerHolds'
    <3>1. own.by # None
      BY <1>2, <2>1, ReaderNone
    <3> QED
      BY <1>2, <2>1, <3>1 DEF PointerHolds
  <2>4. RepublicationsHold'
    BY <1>1, <1>2, <2>1, OwnSetHolds
  <2>5. activeSet' # None
    BY <1>1, <2>1, ReaderNone
  <2> QED
    BY <1>1, <2>1, <2>2, <2>3, <2>4, <2>5, RepublicationMovesOn
<1>7. CASE RepublishFails(p)
  <2>1. /\ Proceeds(p, "closed", None) /\ OtherTables /\ Reading /\ UNCHANGED <<activeSet, active, checked>>
        /\ sets' \in {sets, sets \ ({own} \ {activeSet})}
    BY <1>7 DEF RepublishFails, OtherTables
  <2>2. RepublicationsHold'
    BY <1>1, <2>1, OwnSetHolds
  <2>3. sets' \subseteq sets /\ (activeSet \in sets => activeSet \in sets')
    BY <2>1
  <2> QED
    BY <1>1, <1>3, <2>1, <2>2, <2>3, RepublicationMovesOn
<1> QED
  BY <1>4, <1>5, <1>6, <1>7 DEF RepublishStep

LEMMA PublishingMovesOn ==
    ASSUME TablesInv, Publishing
    PROVE  TablesInv' /\ MoveOn
BY StageMovesOn, AbandonMovesOn, TickMovesOn, PublishMovesOn, RecheckMovesOn, RepublishMovesOn DEF Publishing

---------------------------------------------------------------------------
(* A publication between two queries *)

LEMMA RowMovesOn ==
    ASSUME RowsFollow, RowsFollow', MoveOn, NEW m \in Models, NEW row \in DirectoryRows,
           directory[m] # None, MovesTo(row, directory[m])
    PROVE  directory'[m] # None /\ MovesTo(row, directory'[m])
<1>1. directory[m] \in DirectoryRows /\ directory'[m] # None /\ MovesTo(directory[m], directory'[m])
  BY DEF RowsFollow, MoveOn
<1>2. directory'[m] \in DirectoryRows
  BY <1>1 DEF RowsFollow
<1> QED
  BY <1>1, <1>2, MovesToIsTransitive

LEMMA PublishingKeepsReading ==
    ASSUME TablesInv, TablesInv', ReadHolds, MoveOn
    PROVE  ReadHolds'
<1> SUFFICES ASSUME at' # "idle" PROVE ReadHolds'
  BY DEF ReadHolds
<1>1. UNCHANGED <<at, answer, endpoint, cursor>> /\ at # "idle"
  BY DEF MoveOn, client
<1>2. /\ DOMAIN read' = DOMAIN read /\ read'.start = read.start /\ read'.failed = read.failed
      /\ read'.cursor = read.cursor /\ read'.stored = read.stored /\ read'.rev = read.rev
      /\ read'.parts = read.parts /\ read'.rows = read.rows
      /\ read.during \subseteq read'.during /\ Edition' \in read'.during
  <2>1. DOMAIN read = ReadFields /\ Edition \in read.during
    BY <1>1 DEF ReadHolds
  <2>2. CASE read' = read /\ Edition' = Edition
    BY <2>1, <2>2
  <2>3. CASE read' = [read EXCEPT !.during = @ \cup {Edition'}]
    BY <2>1, <2>3 DEF ReadFields
  <2> QED
    BY <1>1, <2>2, <2>3 DEF MoveOn, Observe
<1>3. read.start \in Instants /\ now \in Instants /\ now' \in Instants /\ now <= now'
  BY <1>1 DEF ReadHolds, MoveOn, TablesInv, TablesHold
<1>4. read'.start <= now'
  <2>1. read.start <= now
    BY <1>1 DEF ReadHolds
  <2>2. read.start \in Nat /\ now \in Nat /\ now' \in Nat
    BY <1>3, SizesAreNatural
  <2>3. read.start <= now'
    BY <1>3, <2>1, <2>2
  <2> QED
    BY <1>2, <2>3
<1>5. /\ read.stored => activeSet' # None /\ FollowsFailures(at, read.failed)'
      /\ IsQueryOfEndpoint(at)'
  BY <1>1, <1>2 DEF ReadHolds, MoveOn, FollowsFailures, IsQueryOfEndpoint
<1>6. ASSUME at = "profiles"
      PROVE  EntryHolds'
  <2>1. PICK m, row : Head(read.rows) = [model |-> m, row |-> row]
    BY <1>1, <1>6 DEF ReadHolds, EntryHolds
  <2>2. m \in Models /\ ReadRow(m, row)
    BY <1>1, <1>6, <2>1 DEF ReadHolds, EntryHolds
  <2>3. directory'[m] # None /\ MovesTo(row, directory'[m])
    BY <2>2, RowMovesOn DEF ReadRow, TablesInv
  <2>4. ReadRow(m, row)'
    BY <1>2, <2>2, <2>3 DEF ReadRow, MoveOn
  <2>5. Head(read'.rows) = [model |-> m, row |-> row]
    BY <1>2, <2>1
  <2> QED
    BY <2>2, <2>4, <2>5 DEF EntryHolds
<1> QED
  BY <1>1, <1>2, <1>3, <1>4, <1>5, <1>6 DEF ReadHolds, MoveOn

LEMMA PublishingKeepsClient ==
    ASSUME TablesInv, TablesInv', ReadHolds, ChainHolds, HeldHolds, AnswerHolds, MoveOn
    PROVE  ChainHolds' /\ HeldHolds' /\ AnswerHolds'
<1>1. UNCHANGED <<at, answer, endpoint, cursor, held, gathered>>
  BY DEF MoveOn, client
<1>2. at # "idle" => answer = NoAnswer
  BY DEF ReadHolds
<1>3. at = "idle" => read' = read
  BY DEF MoveOn, Observe
<1>4. ChainHolds'
  BY <1>1 DEF ChainHolds, ChainIsOneList
<1>5. AnswerHolds'
  BY <1>1, <1>2, <1>3 DEF AnswerHolds, FreshNamesCurrent, FactsOfOneRevision, FailuresAreCovered,
     RevalidationIsTrue, Answered, NoAnswer
<1>6. at # "idle" => read'.rows = read.rows
  <2>1. at # "idle" => DOMAIN read = ReadFields
    BY DEF ReadHolds
  <2> QED
    BY <2>1 DEF MoveOn, Observe, ReadFields
<1>7. \A etag, body : (SetTag(etag, body)' <=> SetTag(etag, body)) /\ (BoardTag(etag, body)' <=> BoardTag(etag, body))
  BY <1>1 DEF SetTag, BoardTag, BenchmarkEtag
<1>8. ASSUME NEW m \in Models, NEW row \in DirectoryRows, HeldRow(m, row)
      PROVE  HeldRow(m, row)'
  <2>1. directory'[m] # None /\ MovesTo(row, directory'[m])
    BY <1>8, RowMovesOn DEF HeldRow, TablesInv
  <2> QED
    BY <1>1, <1>6, <1>8, <2>1 DEF HeldRow
<1>9. HeldHolds'
  BY <1>1, <1>7, <1>8 DEF HeldHolds, RowTag
<1> QED
  BY <1>4, <1>5, <1>9

---------------------------------------------------------------------------
(* The steps of a request *)

RequestInv ==
    /\ TablesInv /\ endpoint \in Endpoints /\ failures \in Nat
    /\ ReadHolds /\ ChainHolds /\ HeldHolds /\ AnswerHolds

Counted == Succeeds \/ Fails

LEMMA FailuresAreCounted ==
    ASSUME RequestInv, at # "idle", Counted
    PROVE  /\ failures' \in Nat /\ Failed \in Nat
           /\ Succeeds => Failed = read.failed
           /\ Fails => Failed = read.failed + 1
<1>1. read.failed \in Nat /\ failures \in Nat
  BY DEF RequestInv, ReadHolds
<1> QED
  BY <1>1 DEF Counted, Succeeds, Fails, Failed

(* What the next query of a request is sent with. *)
SendsWith(query, knows) ==
    /\ IsQueryOfEndpoint(query)
    /\ DOMAIN knows = ReadFields
    /\ knows.start = read.start /\ knows.cursor = read.cursor /\ knows.stored = read.stored
    /\ knows.during = read.during
    /\ query \in OfRevision => \E d \in read.during : d.rev = knows.rev
    /\ knows.parts = IF query \in AfterFacts THEN {knows.rev} ELSE {}
    /\ read.stored => FollowsFailures(query, Failed)
    /\ query = "profiles" =>
          \E m \in Models : directory[m] # None /\ Head(knows.rows) = [model |-> m, row |-> directory[m]]

LEMMA UnchangedTables ==
    ASSUME TablesInv, UNCHANGED tables
    PROVE  TablesInv' /\ Edition' = Edition
BY DEF tables, TablesInv, TablesHold, InOrder, RowsFollow, PointerHolds, RepublicationsHold,
   RepublicationHolds, Edition

LEMMA ContinueKeeps ==
    ASSUME RequestInv, at # "idle", Counted, NEW query, NEW knows, Continue(query, knows),
           SendsWith(query, knows)
    PROVE  RequestInv'
<1>1. /\ at' = query /\ read' = [knows EXCEPT !.failed = Failed]
      /\ UNCHANGED <<tables, answer, endpoint, held, cursor, gathered>>
  BY DEF Continue, client
<1>2. UNCHANGED <<now, directory, activeSet, sets>>
  BY <1>1 DEF tables
<1>3. TablesInv' /\ Edition' = Edition
  BY <1>1, UnchangedTables DEF RequestInv
<1>4. failures' \in Nat /\ Failed \in Nat
  BY FailuresAreCounted
<1>5. DOMAIN knows = ReadFields
  BY DEF SendsWith
<1>6. /\ DOMAIN read' = ReadFields /\ read'.failed = Failed
      /\ read'.start = read.start /\ read'.cursor = read.cursor /\ read'.stored = read.stored
      /\ read'.during = read.during /\ read'.rev = knows.rev /\ read'.parts = knows.parts
      /\ read'.rows = knows.rows
  BY <1>1, <1>5 DEF ReadFields, SendsWith
<1>7. IsQueryOfEndpoint(at)' /\ (read.stored => FollowsFailures(at, read.failed)') /\ query # "idle"
  BY <1>1, <1>6 DEF SendsWith, IsQueryOfEndpoint, FollowsFailures
<1>8. ASSUME query = "profiles" PROVE EntryHolds'
  <2>1. PICK m \in Models : directory[m] # None /\ Head(knows.rows) = [model |-> m, row |-> directory[m]]
    BY <1>8 DEF SendsWith
  <2>2. ReadRow(m, directory[m])'
    <3>1. directory[m] \in DirectoryRows /\ (directory[m].status = "current" => directory[m].latest = active)
      BY <2>1 DEF RequestInv, TablesInv, RowsFollow
    <3>2. \E d \in read.during : d.rev = active
      BY DEF RequestInv, ReadHolds, Edition
    <3> QED
      BY <1>2, <1>6, <2>1, <3>1, <3>2 DEF ReadRow, MovesTo
  <2> QED
    BY <1>2, <1>6, <2>1, <2>2 DEF EntryHolds
<1>9. ReadHolds'
  BY <1>1, <1>2, <1>3, <1>4, <1>6, <1>7, <1>8 DEF ReadHolds, SendsWith, RequestInv
<1>10. ChainHolds'
  BY <1>1 DEF RequestInv, ChainHolds, ChainIsOneList
<1>11. AnswerHolds'
  <2>1. answer = NoAnswer
    BY DEF RequestInv, ReadHolds
  <2> QED
    BY <1>1, <1>7, <2>1 DEF RequestInv, AnswerHolds, FreshNamesCurrent, FactsOfOneRevision, FailuresAreCovered,
       RevalidationIsTrue, Answered
<1>12. HeldHolds'
  <2>1. \A etag, body :
           (SetTag(etag, body)' <=> SetTag(etag, body)) /\ (BoardTag(etag, body)' <=> BoardTag(etag, body))
    BY <1>1 DEF SetTag, BoardTag, BenchmarkEtag
  <2>2. ASSUME NEW m \in Models, NEW row \in DirectoryRows, HeldRow(m, row)
        PROVE  HeldRow(m, row)'
    <3>1. ASSUME query = "profiles", Head(knows.rows).model = m PROVE MovesTo(row, Head(knows.rows).row)
      <4>1. PICK n \in Models : Head(knows.rows) = [model |-> n, row |-> directory[n]]
        BY <3>1 DEF SendsWith
      <4>2. n = m
        BY <3>1, <4>1
      <4> QED
        BY <2>2, <4>1, <4>2 DEF HeldRow
    <3> QED
      BY <1>1, <1>2, <1>6, <2>2, <3>1 DEF HeldRow
  <2> QED
    BY <1>1, <2>1, <2>2 DEF HeldHolds, RowTag, RequestInv
<1> QED
  BY <1>1, <1>3, <1>4, <1>9, <1>10, <1>11, <1>12 DEF RequestInv

LEMMA RefuseKeeps ==
    ASSUME RequestInv, at # "idle", Counted, NEW status \in {400, 404, 503}, Refuse(status),
           status = 503 /\ read.stored /\ endpoint \in {"summary", "archived", "leaderboard"} => Failed >= 2
    PROVE  RequestInv'
<1>1. /\ at' = "idle" /\ cursor' = None /\ UNCHANGED <<tables, read, endpoint, held, gathered>>
      /\ answer' = [status |-> status, body |-> None, etag |-> None, failed |-> Failed, during |-> read.during]
  BY DEF Refuse, Finish
<1>2. UNCHANGED <<now, directory>>
  BY <1>1 DEF tables
<1>3. TablesInv'
  BY <1>1, UnchangedTables DEF RequestInv
<1>4. failures' \in Nat
  BY FailuresAreCounted
<1>5. ReadHolds' /\ ChainHolds'
  BY <1>1 DEF RequestInv, ReadHolds, ChainHolds, ChainIsOneList
<1>6. AnswerHolds'
  BY <1>1 DEF AnswerHolds, FreshNamesCurrent, FactsOfOneRevision, FailuresAreCovered, RevalidationIsTrue, Answered
<1>7. HeldHolds'
  BY <1>1, <1>2 DEF RequestInv, HeldHolds, SetTag, BoardTag, RowTag, HeldRow, BenchmarkEtag
<1> QED
  BY <1>1, <1>3, <1>4, <1>5, <1>6, <1>7 DEF RequestInv

(* The pages of a list, joined, are a prefix of it. *)
LEMMA NextPageJoins ==
    ASSUME NEW list \in Seq(Models), NEW offset \in Nat, offset <= Len(list)
    PROVE  \E n \in Nat :
              /\ n <= Len(list)
              /\ SubSeq(list, 1, offset) \o Page(list, offset) = SubSeq(list, 1, n)
              /\ offset + PageSize < Len(list) => n = offset + PageSize
<1> DEFINE n == IF offset + PageSize <= Len(list) THEN offset + PageSize ELSE Len(list)
           last == Min({offset + PageSize, Len(list)})
<1>1. PageSize \in Nat /\ PageSize > 0 /\ Len(list) \in Nat /\ n \in Nat /\ n <= Len(list) /\ offset <= n
  BY SizesAreNatural
<1>2. last = n
  BY <1>1, MinOfTwo
<1>3. Page(list, offset) = SubSeq(list, offset + 1, n)
  BY <1>2 DEF Page
<1>4. SubSeq(list, 1, offset) \o SubSeq(list, offset + 1, n) = SubSeq(list, 1, n)
  <2>1. 1 \in 1..(Len(list) + 1) /\ offset \in (1 - 1)..Len(list) /\ n \in offset..Len(list)
    BY <1>1
  <2> QED
    BY <2>1, ConcatAdjacentSubSeq
<1>5. offset + PageSize < Len(list) => n = offset + PageSize
  BY <1>1
<1> HIDE DEF n
<1> QED
  BY <1>1, <1>3, <1>4, <1>5

LEMMA PrefixIsOne ==
    ASSUME NEW list \in Seq(Models), NEW n \in Nat, n <= Len(list)
    PROVE  IsPrefix(SubSeq(list, 1, n), list)
<1>1. Len(SubSeq(list, 1, n)) = n
  OBVIOUS
<1>2. SubSeq(SubSeq(list, 1, n), 1, n) = SubSeq(list, 1, n)
  OBVIOUS
<1> QED
  BY <1>1, <1>2 DEF IsPrefix

(* An answer that may be called fresh. *)
FreshAs(body) ==
    endpoint \in {"summary", "archived", "leaderboard", "profile"} /\ body.freshness = "fresh" =>
        (\E d \in read.during : d.rev = body.rev) /\ Fresh(body.checked, read.start)

(* The tag of an answer determines it. *)
TagFits(body, etag) ==
    /\ endpoint = "summary" => SetTag(etag, body)
    /\ endpoint = "leaderboard" =>
          etag = <<BenchmarkEtag(body), read.cursor>> /\ (read.cursor = None => BoardTag(etag, body))
    /\ endpoint = "profile" =>
          \/ SetTag(etag, body)
          \/ /\ at = "profiles"
             /\ \E m \in Models, row \in DirectoryRows :
                   /\ RowTag(etag, body, m, row) /\ Head(read.rows) = [model |-> m, row |-> row]
                   /\ directory[m] # None /\ MovesTo(row, directory[m])

(* An answer continues what the client has gathered of a list. *)
Continues(body, next) ==
    endpoint = "leaderboard" =>
        \E r \in Revisions, n \in Nat :
            /\ n <= Len(Members[r]) /\ gathered \o body.items = SubSeq(Members[r], 1, n)
            /\ next # None => next = [rev |-> r, offset |-> n]

LEMMA TagsDiffer ==
    ASSUME NEW e, NEW a, NEW b, NEW c, NEW m, NEW u, NEW x, NEW y, NEW z
    PROVE  <<e, a, b, c>> # <<m, u, x, y, z>>
<1>1. Len(<<e, a, b, c>>) = 4 /\ Len(<<m, u, x, y, z>>) = 5
  OBVIOUS
<1> QED
  BY <1>1

(* What a client holds under the tag of an answer is that answer. *)
LEMMA SameTagSameBody ==
    ASSUME RequestInv, NEW body, NEW etag, TagFits(body, etag), NotModified(etag),
           endpoint \in {"summary", "leaderboard", "profile"}
    PROVE  held.body = body
<1>1. held # None /\ held.etag = etag /\ read.cursor = None
  BY DEF NotModified
<1>2. ASSUME SetTag(etag, held.body), SetTag(etag, body)
      PROVE  held.body = body
  BY <1>2 DEF SetTag, BenchmarkEtag
<1>3. CASE endpoint = "summary"
  BY <1>1, <1>2, <1>3 DEF RequestInv, HeldHolds, TagFits
<1>4. CASE endpoint = "leaderboard"
  <2>1. BoardTag(etag, held.body) /\ BoardTag(etag, body)
    BY <1>1, <1>4 DEF RequestInv, HeldHolds, TagFits
  <2> QED
    BY <2>1 DEF BoardTag, BenchmarkEtag
<1>5. CASE endpoint = "profile"
  <2>1. \/ SetTag(etag, held.body)
        \/ \E m \in Models, row \in DirectoryRows : RowTag(etag, held.body, m, row) /\ HeldRow(m, row)
    BY <1>1, <1>5 DEF RequestInv, HeldHolds
  <2>2. \/ SetTag(etag, body)
        \/ /\ at = "profiles"
           /\ \E m \in Models, row \in DirectoryRows :
                 RowTag(etag, body, m, row) /\ Head(read.rows) = [model |-> m, row |-> row]
    BY <1>5 DEF TagFits
  <2>3. ~(SetTag(etag, held.body) /\ \E m \in Models, row \in DirectoryRows : RowTag(etag, body, m, row))
    BY TagsDiffer DEF SetTag, RowTag, BenchmarkEtag
  <2>4. ~(SetTag(etag, body) /\ \E m \in Models, row \in DirectoryRows : RowTag(etag, held.body, m, row))
    BY TagsDiffer DEF SetTag, RowTag, BenchmarkEtag
  <2>5. ASSUME at = "profiles",
               NEW m \in Models, NEW old \in DirectoryRows, RowTag(etag, held.body, m, old), HeldRow(m, old),
               NEW n \in Models, NEW row \in DirectoryRows, RowTag(etag, body, n, row),
               Head(read.rows) = [model |-> n, row |-> row]
        PROVE  held.body = body
    <3>1. m = n /\ old.updated = row.updated
      BY <2>5 DEF RowTag
    <3>2. MovesTo(old, row)
      BY <2>5, <3>1 DEF HeldRow
    <3>3. old = row
      BY <3>1, <3>2, DateTellsRow
    <3> QED
      BY <2>5, <3>1, <3>3 DEF RowTag
  <2> QED
    BY <1>2, <2>1, <2>2, <2>3, <2>4, <2>5
<1> QED
  BY <1>3, <1>4, <1>5

LEMMA RespondKeeps ==
    ASSUME RequestInv, at # "idle", Counted, NEW body, NEW etag, NEW next, Respond(body, etag, next),
           FreshAs(body), read.parts \subseteq {body.rev}, TagFits(body, etag), Continues(body, next)
    PROVE  RequestInv'
<1> DEFINE status == IF NotModified(etag) THEN 304 ELSE 200
<1>1. /\ at' = "idle" /\ UNCHANGED <<tables, read, endpoint>>
      /\ answer' = [status |-> status, body |-> body, etag |-> etag, failed |-> Failed, during |-> read.during]
  BY DEF Respond, Finish
<1>2. UNCHANGED <<now, directory>>
  BY <1>1 DEF tables
<1>3. TablesInv'
  BY <1>1, UnchangedTables DEF RequestInv
<1>4. failures' \in Nat
  BY FailuresAreCounted
<1>5. ReadHolds'
  BY <1>1 DEF ReadHolds
<1>6. ASSUME NotModified(etag)
      PROVE  ChainHolds' /\ HeldHolds' /\ RevalidationIsTrue' /\ (answer'.status = 304 => held' # None)
  <2>1. UNCHANGED <<held, cursor, gathered>>
    BY <1>6 DEF Respond
  <2>2. ChainHolds'
    BY <1>1, <2>1 DEF RequestInv, ChainHolds, ChainIsOneList
  <2>3. HeldHolds'
    BY <1>1, <1>2, <2>1 DEF RequestInv, HeldHolds, SetTag, BoardTag, RowTag, HeldRow, BenchmarkEtag
  <2>4. RevalidationIsTrue' /\ held' # None
    <3>1. endpoint \in {"summary", "leaderboard", "profile"} => held.body = body
      BY <1>6, SameTagSameBody
    <3> QED
      BY <1>1, <1>6, <2>1, <3>1 DEF RevalidationIsTrue, NotModified
  <2> QED
    BY <2>2, <2>3, <2>4
<1>7. ASSUME ~NotModified(etag)
      PROVE  ChainHolds' /\ HeldHolds' /\ RevalidationIsTrue' /\ (answer'.status = 304 => held' # None)
  <2>1. /\ cursor' = next /\ gathered' = gathered \o body.items
        /\ held' = IF read.cursor = None /\ etag # None THEN [etag |-> etag, body |-> body] ELSE held
    BY <1>7 DEF Respond
  <2>2. ChainHolds'
    <3>1. CASE endpoint = "leaderboard"
      <4>1. PICK r \in Revisions, n \in Nat :
               /\ n <= Len(Members[r]) /\ gathered' = SubSeq(Members[r], 1, n)
               /\ cursor' # None => cursor' = [rev |-> r, offset |-> n]
        BY <2>1, <3>1 DEF Continues
      <4>2. Members[r] \in Seq(Models)
        BY ReaderLists
      <4>3. IsPrefix(gathered', Members[r])
        BY <4>1, <4>2, PrefixIsOne
      <4> QED
        BY <1>1, <4>1, <4>3 DEF ChainHolds, ChainIsOneList
    <3>2. CASE endpoint # "leaderboard"
      BY <1>1, <3>2 DEF ChainHolds, ChainIsOneList
    <3> QED
      BY <3>1, <3>2
  <2>3. HeldHolds'
    <3>1. CASE held' = held
      BY <1>1, <1>2, <3>1 DEF RequestInv, HeldHolds, SetTag, BoardTag, RowTag, HeldRow, BenchmarkEtag
    <3>2. CASE held' = [etag |-> etag, body |-> body] /\ read.cursor = None
      <4>1. held'.etag = etag /\ held'.body = body
        BY <3>2
      <4>2. endpoint = "summary" => SetTag(held'.etag, held'.body)
        BY <4>1 DEF TagFits
      <4>3. endpoint = "leaderboard" => BoardTag(held'.etag, held'.body)
        BY <3>2, <4>1 DEF TagFits
      <4>4. endpoint = "profile" =>
               \/ SetTag(held'.etag, held'.body)
               \/ \E m \in Models, row \in DirectoryRows :
                     /\ RowTag(held'.etag, held'.body, m, row)
                     /\ directory[m] # None /\ MovesTo(row, directory[m])
        BY <4>1 DEF TagFits
      <4> QED
        BY <1>1, <1>2, <4>2, <4>3, <4>4 DEF HeldHolds, SetTag, BoardTag, RowTag, HeldRow, BenchmarkEtag
    <3> QED
      BY <2>1, <3>1, <3>2
  <2>4. RevalidationIsTrue' /\ answer'.status # 304
    BY <1>1, <1>7 DEF RevalidationIsTrue
  <2> QED
    BY <2>2, <2>3, <2>4
<1>8. AnswerHolds'
  <2>1. answer'.status \in {200, 304}
    BY <1>1
  <2>2. FreshNamesCurrent'
    BY <1>1 DEF FreshAs, FreshNamesCurrent
  <2>3. FactsOfOneRevision' /\ FailuresAreCovered'
    BY <1>1, <2>1 DEF FactsOfOneRevision, FailuresAreCovered
  <2> QED
    BY <1>6, <1>7, <2>1, <2>2, <2>3 DEF AnswerHolds
<1> QED
  BY <1>1, <1>3, <1>4, <1>5, <1>6, <1>7, <1>8 DEF RequestInv

(* A page that is not revalidated. *)
LEMMA FinishKeeps ==
    ASSUME RequestInv, at # "idle", Counted, NEW body, Finish(200, body, None),
           UNCHANGED <<held, cursor, gathered>>, endpoint \in {"sitemap", "comparison"},
           read.parts \subseteq {body.rev}
    PROVE  RequestInv'
<1>1. /\ at' = "idle" /\ UNCHANGED <<tables, read, endpoint>>
      /\ answer' = [status |-> 200, body |-> body, etag |-> None, failed |-> Failed, during |-> read.during]
  BY DEF Finish
<1>2. TablesInv'
  BY <1>1, UnchangedTables DEF RequestInv
<1>3. failures' \in Nat
  BY FailuresAreCounted
<1>4. ReadHolds' /\ ChainHolds' /\ HeldHolds'
  BY <1>1 DEF ReadHolds, ChainHolds, ChainIsOneList, HeldHolds
<1>5. AnswerHolds'
  BY <1>1 DEF AnswerHolds, FreshNamesCurrent, FactsOfOneRevision, FailuresAreCovered, RevalidationIsTrue, Answered
<1> QED
  BY <1>1, <1>2, <1>3, <1>4, <1>5 DEF RequestInv

LEMMA BeginKeeps ==
    ASSUME RequestInv, NEW from, Begin(from), from = None \/ from = cursor
    PROVE  RequestInv'
<1>1. /\ at = "idle" /\ UNCHANGED <<tables, endpoint, held, failures>> /\ at' = FirstQuery /\ answer' = NoAnswer
      /\ cursor' = from /\ gathered' = (IF from = None THEN <<>> ELSE gathered)
  BY DEF Begin
<1>2. UNCHANGED <<now, directory, activeSet, sets, active, checked>>
  BY <1>1 DEF tables
<1>3. TablesInv' /\ Edition' = Edition
  BY <1>1, UnchangedTables DEF RequestInv
<1>4. /\ DOMAIN read' = ReadFields /\ read'.start = now /\ read'.failed = 0 /\ read'.cursor = from
      /\ Edition \in read'.during /\ read'.parts = {} /\ read'.stored = (activeSet # None)
  BY DEF Begin, ReadFields
<1>5. /\ IsQueryOfEndpoint(FirstQuery)
      /\ FirstQuery \notin OfRevision \cup {"profiles"} /\ FollowsFailures(FirstQuery, 0)
  <2>1. \/ endpoint \in {"summary", "archived", "leaderboard"} /\ FirstQuery = "cache"
        \/ endpoint = "profile" /\ FirstQuery = "entry"
        \/ endpoint \in Listings /\ FirstQuery = "week"
        \/ endpoint = "sitemap" /\ FirstQuery = "page"
        \/ endpoint = "comparison" /\ FirstQuery = "revision"
    BY ReaderLists DEF FirstQuery, Listings, RequestInv
  <2> QED
    BY <2>1 DEF IsQueryOfEndpoint, Listings, OfRevision, FollowsFailures
<1>6. IsQueryOfEndpoint(at)' /\ FollowsFailures(at, read.failed)'
  BY <1>1, <1>5 DEF IsQueryOfEndpoint, FollowsFailures, OfRevision
<1>7. ReadHolds'
  <2>1. now \in Instants /\ now <= now
    BY SizesAreNatural DEF RequestInv, TablesInv, TablesHold
  <2>2. at' \notin OfRevision \cup AfterFacts \cup {"profiles"}
    BY <1>1, <1>5 DEF AfterFacts
  <2>3. read'.start \in Instants /\ read'.start <= now' /\ read'.failed \in Nat
    BY <1>2, <1>4, <2>1
  <2>4. read'.stored => activeSet' # None
    BY <1>2, <1>4
  <2> QED
    BY <1>1, <1>3, <1>4, <1>6, <2>2, <2>3, <2>4 DEF ReadHolds
<1>8. ChainHolds'
  <2>1. CASE from = None
    <3>1. IsPrefix(SubSeq(Members[1], 1, 0), Members[1]) /\ SubSeq(Members[1], 1, 0) = <<>> /\ 1 \in Revisions
      <4>1. Members[1] \in Seq(Models) /\ 0 <= Len(Members[1])
        BY ReaderLists, SizesAreNatural
      <4> QED
        BY <4>1, PrefixIsOne, SizesAreNatural
    <3> QED
      BY <1>1, <2>1, <3>1 DEF ChainHolds, ChainIsOneList
  <2>2. CASE from # None /\ from = cursor
    BY <1>1, <2>2 DEF RequestInv, ChainHolds, ChainIsOneList
  <2> QED
    BY <2>1, <2>2
<1>9. AnswerHolds'
  BY <1>1, ReaderNone DEF AnswerHolds, FreshNamesCurrent, FactsOfOneRevision, FailuresAreCovered,
     RevalidationIsTrue, Answered, NoAnswer
<1>10. HeldHolds'
  BY <1>1, <1>2, <1>5 DEF RequestInv, HeldHolds, SetTag, BoardTag, RowTag, HeldRow, BenchmarkEtag
<1> QED
  BY <1>1, <1>3, <1>7, <1>8, <1>9, <1>10 DEF RequestInv

---------------------------------------------------------------------------
(* Answers from the stored response sets *)

LEMMA NewestIsStored ==
    ASSUME TablesHold, sets # {}
    PROVE  NewestSet \in sets
<1>1. \A s \in sets : s.rev \in Revisions /\ s.checked \in Instants
  BY DEF TablesHold, ResponseSets
<1>2. \A s \in sets : s.rev \in Nat /\ s.checked \in Nat /\ s.checked <= LastTime /\ s.rev <= LastRevision
  BY <1>1, SizesAreNatural DEF Revisions, Instants
<1> DEFINE Ages == {LastTime - s.checked : s \in sets}
<1>3. Ages \in SUBSET Nat /\ Ages # {}
  BY <1>2, SizesAreNatural
<1>4. PICK s \in sets : \A t \in sets : LastTime - s.checked <= LastTime - t.checked
  <2>1. Min(Ages) \in Ages /\ \A y \in Ages : Min(Ages) <= y
    BY <1>3, MinIsLeast
  <2> QED
    BY <2>1
<1>5. \A t \in sets : t.checked <= s.checked
  BY <1>2, <1>4, SizesAreNatural
<1> DEFINE Latest == {t \in sets : t.checked = s.checked}
           Ranks == {LastRevision - t.rev : t \in Latest}
<1>6. Ranks \in SUBSET Nat /\ Ranks # {}
  BY <1>2, SizesAreNatural
<1>7. PICK t \in Latest : \A u \in Latest : LastRevision - t.rev <= LastRevision - u.rev
  <2>1. Min(Ranks) \in Ranks /\ \A y \in Ranks : Min(Ranks) <= y
    BY <1>6, MinIsLeast
  <2> QED
    BY <2>1
<1>8. \A u \in Latest : u.rev <= t.rev
  BY <1>2, <1>7, SizesAreNatural
<1>9. \A u \in sets : u.checked < t.checked \/ (u.checked = t.checked /\ u.rev <= t.rev)
  BY <1>2, <1>5, <1>8
<1> QED
  BY <1>9 DEF NewestSet

LEMMA ServeLeaderboardKeeps ==
    ASSUME RequestInv, at # "idle", at \notin AfterFacts, Counted, endpoint = "leaderboard",
           NEW set \in ResponseSets, NEW freshness, ServeLeaderboard(Cached(set, freshness)),
           freshness = "fresh" => set.rev = active /\ Fresh(set.checked, read.start)
    PROVE  RequestInv'
<1> DEFINE whole == Cached(set, freshness)
           list == Members[set.rev]
           offset == IF read.cursor = None THEN 0 ELSE read.cursor.offset
           body == [whole EXCEPT !.items = Page(whole.items, offset)]
           more == offset + PageSize < Len(whole.items)
           next == IF more THEN [rev |-> whole.rev, offset |-> offset + PageSize] ELSE None
           etag == <<BenchmarkEtag(body), read.cursor>>
           refused == ~CursorFits(whole.rev) \/ (read.cursor # None /\ offset >= Len(whole.items))
<1>1. /\ whole.rev = set.rev /\ whole.items = list
      /\ body = Body(set.rev, set.checked, freshness, Page(list, offset))
  BY DEF Cached, Body
<1>2. set.rev \in Revisions /\ list \in Seq(Models) /\ Len(list) \in Nat
  BY ReaderLists DEF ResponseSets
<1>3. CASE refused
  <2>1. Refuse(400)
    BY <1>3 DEF ServeLeaderboard
  <2> QED
    BY <2>1, RefuseKeeps
<1>4. CASE ~refused
  <2>1. Respond(body, etag, next)
    BY <1>4 DEF ServeLeaderboard
  <2>2. read.cursor = cursor /\ read.parts = {} /\ Edition \in read.during
    BY DEF RequestInv, ReadHolds
  <2>3. FreshAs(body)
    BY <1>1, <2>2 DEF FreshAs, Body, Edition
  <2>4. TagFits(body, etag)
    BY <1>1 DEF TagFits, BoardTag, Body, BenchmarkEtag
  <2>5. offset \in Nat /\ offset <= Len(list) /\ gathered = SubSeq(list, 1, offset)
    <3>1. CASE cursor = None
      BY <1>2, <2>2, <3>1 DEF RequestInv, ChainHolds
    <3>2. CASE cursor # None
      <4>1. cursor.rev = set.rev /\ cursor.offset \in Nat /\ gathered = SubSeq(Members[cursor.rev], 1, cursor.offset)
        BY <1>1, <1>4, <2>2, <3>2 DEF RequestInv, ChainHolds, ChainIsOneList, CursorFits
      <4> QED
        BY <1>1, <1>2, <1>4, <2>2, <3>2, <4>1
    <3> QED
      BY <3>1, <3>2
  <2>6. Continues(body, next)
    <3>1. PICK n \in Nat :
             /\ n <= Len(list) /\ SubSeq(list, 1, offset) \o Page(list, offset) = SubSeq(list, 1, n)
             /\ offset + PageSize < Len(list) => n = offset + PageSize
      <4> HIDE DEF offset
      <4> QED
        BY <1>2, <2>5, NextPageJoins
    <3>2. gathered \o body.items = SubSeq(list, 1, n)
      BY <1>1, <2>5, <3>1 DEF Body
    <3>3. next # None => next = [rev |-> set.rev, offset |-> n]
      BY <1>1, <3>1
    <3> HIDE DEF body, next
    <3> QED
      BY <1>2, <3>1, <3>2, <3>3 DEF Continues
  <2>7. read.parts \subseteq {body.rev}
    BY <2>2
  <2> HIDE DEF body, next, etag
  <2> QED
    BY <2>1, <2>3, <2>4, <2>6, <2>7, RespondKeeps
<1> QED
  BY <1>3, <1>4

LEMMA ServeSetKeeps ==
    ASSUME RequestInv, at # "idle", at \notin AfterFacts, Counted,
           endpoint \in {"summary", "archived", "leaderboard"},
           NEW set \in ResponseSets, NEW freshness, ServeSet(Cached(set, freshness)),
           freshness = "fresh" => set.rev = active /\ Fresh(set.checked, read.start)
    PROVE  RequestInv'
<1>1. CASE endpoint = "leaderboard"
  BY <1>1, ServeLeaderboardKeeps DEF ServeSet
<1>2. CASE endpoint # "leaderboard"
  <2> DEFINE body == Cached(set, freshness)
  <2>1. Respond(body, BenchmarkEtag(body), None)
    BY <1>2 DEF ServeSet
  <2>2. body = Body(set.rev, set.checked, freshness, <<>>)
    BY <1>2 DEF Cached
  <2>3. read.parts = {} /\ Edition \in read.during
    BY DEF RequestInv, ReadHolds
  <2>4. FreshAs(body)
    BY <2>2, <2>3 DEF FreshAs, Body, Edition
  <2>5. TagFits(body, BenchmarkEtag(body))
    BY <1>2, <2>2 DEF TagFits, SetTag, Body
  <2>6. Continues(body, None)
    BY <1>2 DEF Continues
  <2> HIDE DEF body
  <2> QED
    BY <2>1, <2>3, <2>4, <2>5, <2>6, RespondKeeps
<1> QED
  BY <1>1, <1>2

(* The stored answer of the active set. *)
LEMMA StoredIsCurrent ==
    ASSUME RequestInv, at # "idle", activeSet # None
    PROVE  /\ activeSet \in ResponseSets
           /\ CachedNow(read.start) = Cached(activeSet, FreshnessOf(IsFreshVariant(activeSet, read.start)))
           /\ FreshnessOf(IsFreshVariant(activeSet, read.start)) = "fresh" =>
                 activeSet.rev = active /\ Fresh(activeSet.checked, read.start)
<1>1. activeSet.rev = active /\ activeSet \in sets /\ sets \subseteq ResponseSets /\ read.start \in Instants
  BY DEF RequestInv, TablesInv, TablesHold, PointerHolds, ReadHolds
<1>2. activeSet.checked \in Nat /\ read.start \in Nat
  BY <1>1, SizesAreNatural DEF ResponseSets
<1>3. IsFreshVariant(activeSet, read.start) => Fresh(activeSet.checked, read.start)
  BY <1>2, SizesAreNatural DEF IsFreshVariant, Fresh
<1> QED
  BY <1>1, <1>3 DEF CachedNow, FreshnessOf

LEMMA ReadCacheKeeps ==
    ASSUME RequestInv, ReadCache
    PROVE  RequestInv'
<1>1. at = "cache" /\ at # "idle" /\ at \notin AfterFacts /\ Counted
  BY DEF ReadCache, AfterFacts, OfRevision, Counted
<1>2. /\ endpoint \in {"summary", "archived", "leaderboard"}
      /\ DOMAIN read = ReadFields /\ read.parts = {} /\ (read.stored => activeSet # None) /\ read.failed \in Nat
  BY <1>1 DEF RequestInv, ReadHolds, IsQueryOfEndpoint
<1>3. /\ IsQueryOfEndpoint(AfterCache) /\ AfterCache \notin OfRevision \cup {"profiles", "oldProjection", "historical"}
      /\ AfterCache = "revision" <=> endpoint # "leaderboard"
  BY <1>2 DEF AfterCache, IsQueryOfEndpoint, OfRevision
<1>4. ASSUME Continue(AfterCache, read), endpoint = "summary" => Fails \/ activeSet = None
      PROVE  RequestInv'
  <2>1. read.stored => FollowsFailures(AfterCache, Failed)
    BY <1>1, <1>2, <1>3, <1>4, FailuresAreCounted DEF FollowsFailures, OfRevision
  <2>2. SendsWith(AfterCache, read)
    BY <1>2, <1>3, <2>1 DEF SendsWith, AfterFacts
  <2> QED
    BY <1>1, <1>4, <2>2, ContinueKeeps
<1>5. ASSUME activeSet # None, ServeSet(CachedNow(read.start)) PROVE RequestInv'
  BY <1>1, <1>2, <1>5, StoredIsCurrent, ServeSetKeeps
<1> QED
  BY <1>2, <1>4, <1>5 DEF ReadCache, Materialized

LEMMA ReadProjectionKeeps ==
    ASSUME RequestInv, ReadProjection
    PROVE  RequestInv'
<1>1. at = "projection" /\ at # "idle" /\ at \notin AfterFacts /\ Counted
  BY DEF ReadProjection, AfterFacts, OfRevision, Counted
<1>2. /\ endpoint = "leaderboard"
      /\ DOMAIN read = ReadFields /\ read.parts = {} /\ (read.stored => activeSet # None) /\ read.failed \in Nat
  BY <1>1 DEF RequestInv, ReadHolds, IsQueryOfEndpoint, AfterFacts, OfRevision
<1>3. ASSUME Continue("oldProjection", read), Fails \/ activeSet = None
      PROVE  RequestInv'
  <2>1. read.stored => FollowsFailures("oldProjection", Failed)
    BY <1>1, <1>2, <1>3, FailuresAreCounted DEF FollowsFailures
  <2>2. SendsWith("oldProjection", read)
    BY <1>2, <2>1 DEF SendsWith, AfterFacts, OfRevision, IsQueryOfEndpoint
  <2> QED
    BY <1>1, <1>3, <2>2, ContinueKeeps
<1>4. ASSUME activeSet # None, ServeLeaderboard(CachedNow(read.start)) PROVE RequestInv'
  BY <1>1, <1>2, <1>4, StoredIsCurrent, ServeLeaderboardKeeps
<1> QED
  BY <1>3, <1>4 DEF ReadProjection

LEMMA ReadOldProjectionKeeps ==
    ASSUME RequestInv, ReadOldProjection
    PROVE  RequestInv'
<1>1. at = "oldProjection" /\ at # "idle" /\ at \notin AfterFacts /\ Counted
  BY DEF ReadOldProjection, AfterFacts, OfRevision, Counted
<1>2. /\ endpoint = "leaderboard"
      /\ DOMAIN read = ReadFields /\ read.parts = {} /\ (read.stored => activeSet # None) /\ read.failed \in Nat
      /\ read.stored => read.failed >= 1
  BY <1>1 DEF RequestInv, ReadHolds, IsQueryOfEndpoint, AfterFacts, OfRevision, FollowsFailures
<1>3. activeSet # None => sets # {}
  BY DEF RequestInv, TablesInv, TablesHold
<1>4. ASSUME Continue("historical", read), Fails \/ sets = {}
      PROVE  RequestInv'
  <2>1. read.stored => FollowsFailures("historical", Failed)
    BY <1>1, <1>2, <1>3, <1>4, FailuresAreCounted DEF FollowsFailures
  <2>2. SendsWith("historical", read)
    BY <1>2, <2>1 DEF SendsWith, AfterFacts, OfRevision, IsQueryOfEndpoint
  <2> QED
    BY <1>1, <1>4, <2>2, ContinueKeeps
<1>5. ASSUME sets # {}, ServeLeaderboard(Cached(NewestSet, "stale")) PROVE RequestInv'
  <2>1. NewestSet \in ResponseSets
    BY <1>5, NewestIsStored DEF RequestInv, TablesInv, TablesHold
  <2> QED
    BY <1>1, <1>2, <1>5, <2>1, ServeLeaderboardKeeps
<1> QED
  BY <1>4, <1>5 DEF ReadOldProjection

LEMMA ReadHistoricalKeeps ==
    ASSUME RequestInv, ReadHistorical
    PROVE  RequestInv'
<1>1. at = "historical" /\ at # "idle" /\ at \notin AfterFacts /\ Counted
  BY DEF ReadHistorical, AfterFacts, OfRevision, Counted
<1>2. /\ endpoint \in {"summary", "archived", "leaderboard"}
      /\ read.parts = {} /\ (read.stored => activeSet # None) /\ read.failed \in Nat
      /\ read.stored => read.failed >= (IF endpoint = "archived" THEN 1 ELSE 2)
  BY <1>1 DEF RequestInv, ReadHolds, IsQueryOfEndpoint, AfterFacts, OfRevision, FollowsFailures
<1>3. activeSet # None => sets # {}
  BY DEF RequestInv, TablesInv, TablesHold
<1>4. ASSUME Refuse(503), Fails \/ ~HasHistory
      PROVE  RequestInv'
  <2>1. read.stored => Failed >= 2
    BY <1>1, <1>2, <1>3, <1>4, FailuresAreCounted DEF HasHistory, Counted
  <2> QED
    BY <1>1, <1>4, <2>1, RefuseKeeps
<1>5. ASSUME HasHistory, ServeSet(Cached(NewestSet, HistoricalVariant)) PROVE RequestInv'
  <2>1. NewestSet \in ResponseSets /\ HistoricalVariant # "fresh"
    BY <1>5, NewestIsStored DEF RequestInv, TablesInv, TablesHold, HasHistory, HistoricalVariant
  <2> QED
    BY <1>1, <1>2, <1>5, <2>1, ServeSetKeeps
<1> QED
  BY <1>4, <1>5 DEF ReadHistorical

---------------------------------------------------------------------------
(* Answers of one revision *)

LEMMA ReadRevisionKeeps ==
    ASSUME RequestInv, ReadRevision
    PROVE  RequestInv'
<1>1. at = "revision" /\ at # "idle" /\ Counted /\ ~(Fails /\ Succeeds)
  BY DEF ReadRevision, Counted, RequestInv, Fails, Succeeds
<1>2. /\ endpoint \in {"summary", "archived", "profile", "comparison"}
      /\ DOMAIN read = ReadFields /\ read.parts = {} /\ read.failed \in Nat /\ Edition \in read.during
      /\ read.stored /\ endpoint = "summary" => read.failed >= 1
  BY <1>1 DEF RequestInv, ReadHolds, IsQueryOfEndpoint, AfterFacts, OfRevision, FollowsFailures
<1>3. CASE Fails /\ endpoint \in {"profile", "comparison"}
  <2>1. Refuse(503)
    BY <1>1, <1>3 DEF ReadRevision
  <2> QED
    BY <1>1, <1>3, <2>1, RefuseKeeps
<1>4. CASE Fails /\ endpoint \notin {"profile", "comparison"}
  <2>1. Continue("historical", read)
    BY <1>1, <1>4 DEF ReadRevision
  <2>2. read.stored => FollowsFailures("historical", Failed)
    BY <1>1, <1>2, <1>4, FailuresAreCounted DEF FollowsFailures
  <2>3. SendsWith("historical", read)
    BY <1>2, <1>4, <2>2 DEF SendsWith, AfterFacts, OfRevision, IsQueryOfEndpoint
  <2> QED
    BY <1>1, <2>1, <2>3, ContinueKeeps
<1>5. CASE Succeeds
  <2> DEFINE knows == [read EXCEPT !.rev = active, !.checked = checked[active]]
  <2>1. Continue("facts", knows)
    BY <1>1, <1>5 DEF ReadRevision
  <2>2. read.stored => FollowsFailures("facts", Failed)
    BY <1>1, <1>2, <1>5, FailuresAreCounted DEF FollowsFailures
  <2>3. DOMAIN knows = ReadFields /\ knows.rev = active /\ knows.parts = {}
        /\ knows.start = read.start /\ knows.cursor = read.cursor /\ knows.stored = read.stored
        /\ knows.during = read.during
    BY <1>2 DEF ReadFields
  <2>4. \E d \in read.during : d.rev = active
    BY <1>2 DEF Edition
  <2> HIDE DEF knows
  <2>5. SendsWith("facts", knows)
    BY <1>2, <2>2, <2>3, <2>4 DEF SendsWith, AfterFacts, OfRevision, IsQueryOfEndpoint
  <2> QED
    BY <1>1, <2>1, <2>5, ContinueKeeps
<1> QED
  BY <1>1, <1>3, <1>4, <1>5 DEF Counted

LEMMA RebuiltIsOfRevision ==
    ASSUME RequestInv, at \in OfRevision, NEW items
    PROVE  /\ FreshAs(Rebuilt(items)) /\ Rebuilt(items).rev = read.rev /\ read.parts \subseteq {read.rev}
           /\ SetTag(BenchmarkEtag(Rebuilt(<<>>)), Rebuilt(<<>>))
<1>1. at # "idle" /\ (\E d \in read.during : d.rev = read.rev) /\ read.parts \subseteq {read.rev}
  BY DEF RequestInv, ReadHolds, OfRevision
<1>2. Rebuilt(items).rev = read.rev /\ Rebuilt(items).checked = read.checked
      /\ Rebuilt(items).freshness = FreshnessOf(Fresh(read.checked, read.start))
  BY DEF Rebuilt, Body
<1>3. FreshAs(Rebuilt(items))
  BY <1>1, <1>2 DEF FreshAs, FreshnessOf
<1>4. SetTag(BenchmarkEtag(Rebuilt(<<>>)), Rebuilt(<<>>))
  BY DEF SetTag, Rebuilt, Body
<1> QED
  BY <1>1, <1>2, <1>3, <1>4

LEMMA ServePointsKeeps ==
    ASSUME RequestInv, at \in OfRevision, Counted, endpoint = "archived", NEW items, ServePoints(items)
    PROVE  RequestInv'
<1> DEFINE body == Rebuilt(CurrentPoints \o items)
<1>1. Respond(body, BenchmarkEtag(body), None)
  BY DEF ServePoints
<1>2. FreshAs(body) /\ read.parts \subseteq {body.rev}
  BY RebuiltIsOfRevision
<1>3. TagFits(body, BenchmarkEtag(body)) /\ Continues(body, None) /\ at # "idle"
  BY DEF TagFits, Continues, OfRevision
<1> HIDE DEF body
<1> QED
  BY <1>1, <1>2, <1>3, RespondKeeps

(* The queries of a revision's facts carry the revision on. *)
LEMMA WithFactsIsSent ==
    ASSUME RequestInv, at \in OfRevision, NEW query \in AfterFacts, IsQueryOfEndpoint(query)
    PROVE  SendsWith(query, WithFacts)
<1>1. /\ at # "idle" /\ (\E d \in read.during : d.rev = read.rev) /\ read.parts \subseteq {read.rev}
      /\ DOMAIN read = ReadFields
  BY DEF RequestInv, ReadHolds, OfRevision
<1>2. /\ DOMAIN WithFacts = ReadFields /\ WithFacts.rev = read.rev /\ WithFacts.parts = {read.rev}
      /\ WithFacts.start = read.start /\ WithFacts.cursor = read.cursor /\ WithFacts.stored = read.stored
      /\ WithFacts.during = read.during
  BY <1>1 DEF WithFacts, FactsRevision, ReadFields
<1>3. query \notin {"profiles", "revision", "facts", "oldProjection", "historical"}
  BY DEF AfterFacts, OfRevision
<1> QED
  BY <1>1, <1>2, <1>3 DEF SendsWith, FollowsFailures

LEMMA ReadFactsKeeps ==
    ASSUME RequestInv, ReadFacts
    PROVE  RequestInv'
<1>1. at = "facts" /\ at # "idle" /\ at \in OfRevision /\ Counted /\ endpoint \in {"summary", "archived"}
  BY DEF ReadFacts, OfRevision, Counted
<1>2. CASE Fails /\ Continue("historical", read)
  <2>1. /\ DOMAIN read = ReadFields /\ read.parts = {} /\ read.failed \in Nat
        /\ read.stored /\ endpoint = "summary" => read.failed >= 1
    BY <1>1 DEF RequestInv, ReadHolds, AfterFacts, FollowsFailures
  <2>2. read.stored => FollowsFailures("historical", Failed)
    BY <1>1, <1>2, <2>1, FailuresAreCounted DEF FollowsFailures
  <2>3. SendsWith("historical", read)
    BY <1>1, <2>1, <2>2 DEF SendsWith, AfterFacts, OfRevision, IsQueryOfEndpoint
  <2> QED
    BY <1>1, <1>2, <2>3, ContinueKeeps
<1>3. CASE endpoint = "archived" /\ Continue("archivedRows", WithFacts)
  <2>1. "archivedRows" \in AfterFacts /\ IsQueryOfEndpoint("archivedRows")
    BY <1>3 DEF AfterFacts, OfRevision, IsQueryOfEndpoint
  <2> QED
    BY <1>1, <1>3, <2>1, WithFactsIsSent, ContinueKeeps
<1>4. CASE endpoint = "summary" /\ Respond(Rebuilt(<<>>), BenchmarkEtag(Rebuilt(<<>>)), None)
  <2> DEFINE body == Rebuilt(<<>>)
  <2>1. FreshAs(body) /\ read.parts \subseteq {body.rev} /\ SetTag(BenchmarkEtag(body), body)
    BY <1>1, RebuiltIsOfRevision
  <2>2. TagFits(body, BenchmarkEtag(body)) /\ Continues(body, None)
    BY <1>4, <2>1 DEF TagFits, Continues
  <2> HIDE DEF body
  <2> QED
    BY <1>1, <1>4, <2>1, <2>2, RespondKeeps DEF body
<1> QED
  BY <1>1, <1>2, <1>3, <1>4 DEF ReadFacts

(* The rows of the archived points are only looked up. *)
LEMMA ReadArchivedRowsKeeps ==
    ASSUME RequestInv, ReadArchivedRows
    PROVE  RequestInv'
<1>1. at = "archivedRows" /\ at # "idle" /\ at \in OfRevision /\ at \in AfterFacts /\ Counted
  BY DEF ReadArchivedRows, OfRevision, AfterFacts, Counted
<1>2. /\ endpoint = "archived" /\ DOMAIN read = ReadFields /\ read.parts = {read.rev}
      /\ \E d \in read.during : d.rev = read.rev
  BY <1>1 DEF RequestInv, ReadHolds, IsQueryOfEndpoint
<1>3. ASSUME NEW rows, Continue("archivedProfiles", [read EXCEPT !.rows = rows]) PROVE RequestInv'
  <2> DEFINE knows == [read EXCEPT !.rows = rows]
  <2>1. /\ DOMAIN knows = ReadFields /\ knows.rev = read.rev /\ knows.parts = {read.rev}
        /\ knows.start = read.start /\ knows.cursor = read.cursor /\ knows.stored = read.stored
        /\ knows.during = read.during
    BY <1>2 DEF ReadFields
  <2> HIDE DEF knows
  <2>2. SendsWith("archivedProfiles", knows)
    BY <1>2, <2>1 DEF SendsWith, AfterFacts, OfRevision, IsQueryOfEndpoint, FollowsFailures
  <2> QED
    BY <1>1, <1>3, <2>2, ContinueKeeps DEF knows
<1> QED
  BY <1>1, <1>2, <1>3, ServePointsKeeps DEF ReadArchivedRows

LEMMA ReadArchivedProfilesKeeps ==
    ASSUME RequestInv, ReadArchivedProfiles
    PROVE  RequestInv'
<1>1. at = "archivedProfiles" /\ at # "idle" /\ at \in OfRevision /\ Counted
  BY DEF ReadArchivedProfiles, OfRevision, Counted
<1>2. endpoint = "archived"
  BY <1>1 DEF RequestInv, ReadHolds, IsQueryOfEndpoint
<1> QED
  BY <1>1, <1>2, ServePointsKeeps DEF ReadArchivedProfiles

LEMMA ReadModelKeeps ==
    ASSUME RequestInv, ReadModel
    PROVE  RequestInv'
<1>1. at = "facts" /\ at # "idle" /\ at \in OfRevision /\ Counted /\ endpoint = "profile"
  BY DEF ReadModel, OfRevision, Counted
<1>2. ASSUME NEW status \in {404, 503}, Refuse(status) PROVE RequestInv'
  BY <1>1, <1>2, RefuseKeeps
<1> DEFINE body == Rebuilt(<<>>)
<1>3. CASE Respond(body, BenchmarkEtag(body), None)
  <2>1. FreshAs(body) /\ read.parts \subseteq {body.rev} /\ SetTag(BenchmarkEtag(body), body)
    BY <1>1, RebuiltIsOfRevision
  <2>2. TagFits(body, BenchmarkEtag(body)) /\ Continues(body, None)
    BY <1>1, <2>1 DEF TagFits, Continues
  <2> HIDE DEF body
  <2> QED
    BY <1>1, <1>3, <2>1, <2>2, RespondKeeps
<1> QED
  BY <1>2, <1>3 DEF ReadModel

LEMMA ComparisonKeeps ==
    ASSUME RequestInv, ReadRoute \/ ReadPairs \/ ReadRelated
    PROVE  RequestInv'
<1>1. at \in {"facts", "pairs", "related"} /\ at # "idle" /\ at \in OfRevision /\ Counted
  BY DEF ReadRoute, ReadPairs, ReadRelated, OfRevision, Counted
<1>2. endpoint = "comparison"
  BY <1>1 DEF RequestInv, ReadHolds, IsQueryOfEndpoint, ReadRoute, ReadPairs, ReadRelated
<1>3. ASSUME NEW status \in {404, 503}, Refuse(status) PROVE RequestInv'
  BY <1>1, <1>2, <1>3, RefuseKeeps
<1>4. ASSUME NEW query \in {"pairs", "related"}, Continue(query, WithFacts) PROVE RequestInv'
  <2>1. query \in AfterFacts /\ IsQueryOfEndpoint(query)
    BY <1>2 DEF AfterFacts, OfRevision, IsQueryOfEndpoint
  <2> QED
    BY <1>1, <1>4, <2>1, WithFactsIsSent, ContinueKeeps
<1>5. ASSUME Finish(200, Rebuilt(<<>>), None), UNCHANGED <<held, cursor, gathered>> PROVE RequestInv'
  <2>1. read.parts \subseteq {Rebuilt(<<>>).rev}
    BY <1>1, RebuiltIsOfRevision
  <2> QED
    BY <1>1, <1>2, <1>5, <2>1, FinishKeeps
<1> QED
  BY <1>3, <1>4, <1>5 DEF ReadRoute, ReadPairs, ReadRelated

---------------------------------------------------------------------------
(* Profiles, listings, and the sitemap *)

LEMMA ReadEntryKeeps ==
    ASSUME RequestInv, ReadEntry
    PROVE  RequestInv'
<1>1. at = "entry" /\ at # "idle" /\ at \notin AfterFacts /\ Counted
  BY DEF ReadEntry, AfterFacts, OfRevision, Counted
<1>2. endpoint = "profile" /\ DOMAIN read = ReadFields /\ read.parts = {}
  BY <1>1 DEF RequestInv, ReadHolds, IsQueryOfEndpoint
<1>3. ASSUME Continue("revision", read) PROVE RequestInv'
  <2>1. SendsWith("revision", read)
    BY <1>2 DEF SendsWith, AfterFacts, OfRevision, IsQueryOfEndpoint, FollowsFailures
  <2> QED
    BY <1>1, <1>3, <2>1, ContinueKeeps
<1> DEFINE found == {m \in Models : directory[m] # None /\ directory[m].slug = Asked}
           rows == RowsOf(SetToSeq(found))
           knows == [read EXCEPT !.rows = rows]
           query == IF found = {} THEN "alias" ELSE "profiles"
<1>4. ASSUME Continue(query, knows) PROVE RequestInv'
  <2>1. DOMAIN knows = ReadFields /\ knows.parts = {} /\ knows.start = read.start /\ knows.cursor = read.cursor
        /\ knows.stored = read.stored /\ knows.during = read.during /\ knows.rows = rows
    BY <1>2 DEF ReadFields
  <2>2. ASSUME found # {}
        PROVE  \E m \in Models : directory[m] # None /\ Head(rows) = [model |-> m, row |-> directory[m]]
    <3> DEFINE listed == SetToSeq(found)
    <3>1. 1 \in DOMAIN listed /\ listed[1] \in found
      BY <2>2, FirstOfListed
    <3>2. rows[1] = [model |-> listed[1], row |-> directory[listed[1]]]
      BY <3>1 DEF RowsOf
    <3>3. Head(rows) = rows[1]
      OBVIOUS
    <3> QED
      BY <3>1, <3>2, <3>3
  <2>3. query \in {"alias", "profiles"} /\ (query = "profiles" => found # {})
    OBVIOUS
  <2> HIDE DEF knows, query, rows, found
  <2>4. SendsWith(query, knows)
    BY <1>2, <2>1, <2>2, <2>3 DEF SendsWith, AfterFacts, OfRevision, IsQueryOfEndpoint, FollowsFailures
  <2> QED
    BY <1>1, <1>4, <2>4, ContinueKeeps
<1> QED
  BY <1>1, <1>3, <1>4 DEF ReadEntry

LEMMA ReadAliasKeeps ==
    ASSUME RequestInv, ReadAlias
    PROVE  RequestInv'
<1>1. at = "alias" /\ at # "idle" /\ at \notin AfterFacts /\ Counted /\ Continue("revision", read)
  BY DEF ReadAlias, AfterFacts, OfRevision, Counted
<1>2. endpoint = "profile" /\ DOMAIN read = ReadFields /\ read.parts = {}
  BY <1>1 DEF RequestInv, ReadHolds, IsQueryOfEndpoint
<1>3. SendsWith("revision", read)
  BY <1>2 DEF SendsWith, AfterFacts, OfRevision, IsQueryOfEndpoint, FollowsFailures
<1> QED
  BY <1>1, <1>3, ContinueKeeps

(* A profile is called fresh only if the row that was read was current. *)
LEMMA ReadProfilesKeeps ==
    ASSUME RequestInv, ReadProfiles
    PROVE  RequestInv'
<1>1. at = "profiles" /\ at # "idle" /\ at \notin AfterFacts /\ Counted
  BY DEF ReadProfiles, AfterFacts, OfRevision, Counted
<1>2. endpoint = "profile" /\ DOMAIN read = ReadFields /\ read.parts = {} /\ EntryHolds
  BY <1>1 DEF RequestInv, ReadHolds, IsQueryOfEndpoint
<1>3. ASSUME NEW query \in {"revision", "alias"}, Continue(query, read) PROVE RequestInv'
  <2>1. SendsWith(query, read)
    BY <1>2 DEF SendsWith, AfterFacts, OfRevision, IsQueryOfEndpoint, FollowsFailures
  <2> QED
    BY <1>1, <1>3, <2>1, ContinueKeeps
<1> DEFINE entry == Head(read.rows)
<1>4. ASSUME NEW r, Respond(ProfileBody(entry, r), ProfileEtag(entry, ProfileBody(entry, r)), None)
      PROVE  RequestInv'
  <2> DEFINE body == ProfileBody(entry, r)
             etag == ProfileEtag(entry, body)
  <2>1. PICK m \in Models, row \in DirectoryRows : entry = [model |-> m, row |-> row] /\ ReadRow(m, row)
    BY <1>2 DEF EntryHolds, ReadRow
  <2>2. /\ body = Body(r, built[r], FreshnessOf(ProfileIsFresh(entry, r)), <<entry>>)
        /\ body.rev = r /\ body.checked = built[r] /\ body.freshness = FreshnessOf(ProfileIsFresh(entry, r))
    BY DEF ProfileBody, Body
  <2>3. FreshAs(body)
    <3> SUFFICES ASSUME ProfileIsFresh(entry, r)
                 PROVE  (\E d \in read.during : d.rev = r) /\ Fresh(built[r], read.start)
      BY <2>2 DEF FreshAs, FreshnessOf
    <3>1. r = row.latest /\ row.status = "current" /\ Fresh(built[r], now)
      BY <2>1 DEF ProfileIsFresh
    <3>2. r \in Revisions /\ \E d \in read.during : d.rev = r
      BY <2>1, <3>1 DEF ReadRow, DirectoryRows
    <3>3. built[r] \in Nat
      BY <3>2, SizesAreNatural DEF RequestInv, TablesInv, TablesHold
    <3>4. read.start \in Nat /\ now \in Nat /\ read.start <= now
      BY <1>1, SizesAreNatural DEF RequestInv, ReadHolds, TablesInv, TablesHold
    <3>5. Fresh(built[r], read.start)
      BY <3>1, <3>3, <3>4, SizesAreNatural DEF Fresh
    <3> QED
      BY <3>2, <3>5
  <2>4. RowTag(etag, body, m, row)
    BY <2>1, <2>2 DEF RowTag, ProfileEtag, Body
  <2>5. TagFits(body, etag)
    BY <1>1, <1>2, <2>1, <2>4 DEF TagFits, ReadRow
  <2>6. Continues(body, None)
    BY <1>2 DEF Continues
  <2> HIDE DEF body, etag
  <2> QED
    BY <1>1, <1>2, <1>4, <2>3, <2>5, <2>6, RespondKeeps DEF body, etag
<1> QED
  BY <1>3, <1>4 DEF ReadProfiles

(* The queries of a listing, and of the sitemap, and what they are sent with. *)
LEMMA ListingContinues ==
    ASSUME RequestInv, at # "idle", endpoint \in Listings \cup {"sitemap"}, Counted,
           NEW query \in {"rows", "rowProfiles", "page", "pageProfiles"}, IsQueryOfEndpoint(query),
           NEW knows, DOMAIN knows = ReadFields, knows.parts = read.parts, knows.start = read.start,
           knows.cursor = read.cursor, knows.stored = read.stored, knows.during = read.during,
           Continue(query, knows)
    PROVE  RequestInv'
<1>1. at \notin AfterFacts
  BY DEF RequestInv, ReadHolds, IsQueryOfEndpoint, Listings, AfterFacts, OfRevision
<1>2. read.parts = {}
  BY <1>1 DEF RequestInv, ReadHolds
<1>3. SendsWith(query, knows)
  BY <1>2 DEF SendsWith, AfterFacts, OfRevision, FollowsFailures, Listings
<1> QED
  BY <1>3, ContinueKeeps

LEMMA ListingKeeps ==
    ASSUME RequestInv, ReadWeek \/ ReadRows \/ ReadRowProfiles
    PROVE  RequestInv'
<1>1. at \in {"week", "rows", "rowProfiles"} /\ at # "idle" /\ at \notin AfterFacts /\ Counted
  BY DEF ReadWeek, ReadRows, ReadRowProfiles, AfterFacts, OfRevision, Counted
<1>2. endpoint \in Listings /\ DOMAIN read = ReadFields /\ read.parts = {}
  BY <1>1 DEF RequestInv, ReadHolds, IsQueryOfEndpoint
<1>3. ASSUME Refuse(503) PROVE RequestInv'
  BY <1>1, <1>2, <1>3, RefuseKeeps DEF Listings
<1>4. IsQueryOfEndpoint("rows") /\ IsQueryOfEndpoint("rowProfiles")
  BY <1>2 DEF IsQueryOfEndpoint
<1>5. ASSUME NEW week, NEW offset, Continue("rows", [read EXCEPT !.week = week, !.offset = offset])
      PROVE  RequestInv'
  <2> DEFINE knows == [read EXCEPT !.week = week, !.offset = offset]
  <2>1. DOMAIN knows = ReadFields /\ knows.parts = read.parts /\ knows.start = read.start
        /\ knows.cursor = read.cursor /\ knows.stored = read.stored /\ knows.during = read.during
    BY <1>2 DEF ReadFields
  <2> HIDE DEF knows
  <2> QED
    BY <1>1, <1>2, <1>4, <1>5, <2>1, ListingContinues DEF knows
<1>6. ASSUME NEW rows, NEW more, Continue("rowProfiles", [read EXCEPT !.rows = rows, !.more = more])
      PROVE  RequestInv'
  <2> DEFINE knows == [read EXCEPT !.rows = rows, !.more = more]
  <2>1. DOMAIN knows = ReadFields /\ knows.parts = read.parts /\ knows.start = read.start
        /\ knows.cursor = read.cursor /\ knows.stored = read.stored /\ knows.during = read.during
    BY <1>2 DEF ReadFields
  <2> HIDE DEF knows
  <2> QED
    BY <1>1, <1>2, <1>4, <1>6, <2>1, ListingContinues DEF knows
<1>7. ASSUME NEW body, NEW etag, NEW next, Respond(body, etag, next)
      PROVE  RequestInv'
  <2>1. FreshAs(body) /\ TagFits(body, etag) /\ Continues(body, next)
    BY <1>2 DEF FreshAs, TagFits, Continues, Listings
  <2> QED
    BY <1>1, <1>2, <1>7, <2>1, RespondKeeps
<1> QED
  BY <1>3, <1>5, <1>6, <1>7 DEF ReadWeek, ReadRows, ReadRowProfiles

LEMMA SitemapKeeps ==
    ASSUME RequestInv, ReadSitemapPage \/ ReadSitemapProfiles
    PROVE  RequestInv'
<1>1. at \in {"page", "pageProfiles"} /\ at # "idle" /\ at \notin AfterFacts /\ Counted
  BY DEF ReadSitemapPage, ReadSitemapProfiles, AfterFacts, OfRevision, Counted
<1>2. endpoint = "sitemap" /\ DOMAIN read = ReadFields /\ read.parts = {}
  BY <1>1 DEF RequestInv, ReadHolds, IsQueryOfEndpoint
<1>3. ASSUME Refuse(503) PROVE RequestInv'
  BY <1>1, <1>2, <1>3, RefuseKeeps
<1>4. IsQueryOfEndpoint("page") /\ IsQueryOfEndpoint("pageProfiles")
  BY <1>2 DEF IsQueryOfEndpoint
<1>5. ASSUME NEW rows, Continue("pageProfiles", [read EXCEPT !.rows = rows]) PROVE RequestInv'
  <2> DEFINE knows == [read EXCEPT !.rows = rows]
  <2>1. DOMAIN knows = ReadFields /\ knows.parts = read.parts /\ knows.start = read.start
        /\ knows.cursor = read.cursor /\ knows.stored = read.stored /\ knows.during = read.during
    BY <1>2 DEF ReadFields
  <2> HIDE DEF knows
  <2> QED
    BY <1>1, <1>2, <1>4, <1>5, <2>1, ListingContinues DEF knows
<1>6. ASSUME NEW items, Continue("page", [read EXCEPT !.items = items, !.offset = @ + PageSize])
      PROVE  RequestInv'
  <2> DEFINE knows == [read EXCEPT !.items = items, !.offset = @ + PageSize]
  <2>1. DOMAIN knows = ReadFields /\ knows.parts = read.parts /\ knows.start = read.start
        /\ knows.cursor = read.cursor /\ knows.stored = read.stored /\ knows.during = read.during
    BY <1>2 DEF ReadFields
  <2> HIDE DEF knows
  <2> QED
    BY <1>1, <1>2, <1>4, <1>6, <2>1, ListingContinues DEF knows
<1>7. ASSUME NEW body, Finish(200, body, None), UNCHANGED <<held, cursor, gathered>> PROVE RequestInv'
  BY <1>1, <1>2, <1>7, FinishKeeps
<1> QED
  BY <1>3, <1>5, <1>6, <1>7 DEF ReadSitemapPage, ReadSitemapProfiles

---------------------------------------------------------------------------
(* The invariant *)

LEMMA InitKeepsRequests == ReadersInit => RequestInv
<1> SUFFICES ASSUME ReadersInit PROVE RequestInv
  OBVIOUS
<1>1. /\ endpoint \in Endpoints /\ at = "idle" /\ answer = NoAnswer /\ held = None /\ cursor = None
      /\ gathered = <<>> /\ failures = 0
  BY DEF ReadersInit
<1>2. TablesInv
  BY InitKeepsTables
<1>3. IsPrefix(<<>>, Members[1]) /\ 1 \in Revisions
  <2>1. Members[1] \in Seq(Models) /\ 0 <= Len(Members[1]) /\ SubSeq(Members[1], 1, 0) = <<>>
    BY ReaderLists, SizesAreNatural
  <2> QED
    BY <2>1, PrefixIsOne, SizesAreNatural
<1>4. ReadHolds /\ ChainHolds /\ HeldHolds
  BY <1>1, <1>3 DEF ReadHolds, ChainHolds, ChainIsOneList, HeldHolds
<1>5. AnswerHolds
  BY <1>1, ReaderNone DEF AnswerHolds, FreshNamesCurrent, FactsOfOneRevision, FailuresAreCovered,
     RevalidationIsTrue, Answered, NoAnswer
<1> QED
  BY <1>1, <1>2, <1>4, <1>5 DEF RequestInv

LEMMA StutterKeeps ==
    ASSUME RequestInv, UNCHANGED readerVars
    PROVE  RequestInv'
<1>1. UNCHANGED <<tables, at, read, answer, endpoint, held, cursor, gathered, failures>>
  BY DEF readerVars, client
<1>2. TablesInv' /\ Edition' = Edition
  BY <1>1, UnchangedTables DEF RequestInv
<1>3. UNCHANGED <<now, directory, activeSet, sets>>
  BY <1>1 DEF tables
<1>4. ReadHolds'
  BY <1>1, <1>2, <1>3 DEF RequestInv, ReadHolds, EntryHolds, ReadRow, IsQueryOfEndpoint, FollowsFailures
<1>5. ChainHolds' /\ AnswerHolds'
  BY <1>1 DEF RequestInv, ChainHolds, ChainIsOneList, AnswerHolds, FreshNamesCurrent, FactsOfOneRevision,
     FailuresAreCovered, RevalidationIsTrue, Answered
<1>6. HeldHolds'
  BY <1>1, <1>3 DEF RequestInv, HeldHolds, SetTag, BoardTag, RowTag, HeldRow, BenchmarkEtag
<1> QED
  BY <1>1, <1>2, <1>4, <1>5, <1>6 DEF RequestInv

LEMMA RequestStep ==
    ASSUME RequestInv, [ReadersNext]_readerVars
    PROVE  RequestInv'
<1>1. CASE Publishing
  <2>1. TablesInv' /\ MoveOn
    BY <1>1, PublishingMovesOn DEF RequestInv
  <2>2. ReadHolds' /\ ChainHolds' /\ HeldHolds' /\ AnswerHolds'
    BY <2>1, PublishingKeepsReading, PublishingKeepsClient DEF RequestInv
  <2> QED
    BY <2>1, <2>2 DEF RequestInv, MoveOn, client
<1>2. CASE Requesting
  BY <1>2, BeginKeeps DEF Requesting
<1>3. CASE Serving
  BY <1>3, ReadCacheKeeps, ReadProjectionKeeps, ReadOldProjectionKeeps, ReadHistoricalKeeps, ReadRevisionKeeps,
     ReadFactsKeeps, ReadArchivedRowsKeeps, ReadArchivedProfilesKeeps, ReadEntryKeeps, ReadProfilesKeeps,
     ReadAliasKeeps, ReadModelKeeps, ComparisonKeeps, ListingKeeps, SitemapKeeps DEF Serving
<1>4. CASE UNCHANGED readerVars
  BY <1>4, StutterKeeps
<1> QED
  BY <1>1, <1>2, <1>3, <1>4 DEF ReadersNext

(* The tables only move forward, a request's knowledge stays true of them, *)
(* and a tag stands for one answer, whatever is published or fails.        *)
THEOREM RequestInvariance == ReadersSpec => []RequestInv
<1>1. ReadersInit => RequestInv
  BY InitKeepsRequests
<1>2. RequestInv /\ [ReadersNext]_readerVars => RequestInv'
  BY RequestStep
<1> QED
  BY <1>1, <1>2, PTL DEF ReadersSpec

(* An answer of the benchmark endpoints is of one revision, fresh only when *)
(* that revision was public during the request and checked within the       *)
(* window, revalidated only against itself, and there after one failure;    *)
(* the stored answer is never fresher than the rebuilt one, and agrees with *)
(* it unless a republication made it; and the pages of a board that a       *)
(* client collects are one list (serveBenchmarkWithFallback).               *)
THEOREM AnswersStayTrue == ReadersSpec => []AnswersAreTrue
<1>1. RequestInv => ReadersTypeOK
  <2> SUFFICES ASSUME RequestInv PROVE ReadersTypeOK
    OBVIOUS
  <2>1. at \in {"idle", "cache", "projection", "oldProjection", "historical", "revision", "facts",
               "archivedRows", "archivedProfiles", "entry", "profiles", "alias", "pairs", "related",
               "week", "rows", "rowProfiles", "page", "pageProfiles"}
    BY DEF RequestInv, ReadHolds, IsQueryOfEndpoint
  <2> QED
    BY <2>1 DEF RequestInv, TablesInv, TablesHold, AnswerHolds, ReadersTypeOK
<1>2. RequestInv => PathsAgree
  <2> SUFFICES ASSUME RequestInv, activeSet # None
               PROVE  LET stored == CachedNow(now)
                          rebuilt == FreshnessOf(Fresh(checked[active], now))
                      IN /\ stored.rev = active /\ stored.checked <= checked[active]
                         /\ stored.freshness = "fresh" => rebuilt = "fresh"
                         /\ activeSet.by = None => stored.checked = checked[active] /\ stored.freshness = rebuilt
    BY DEF PathsAgree
  <2>1. /\ PointerHolds /\ activeSet.checked \in Nat /\ checked[active] \in Nat /\ now \in Nat
    <3>1. /\ activeSet \in ResponseSets /\ active \in Revisions /\ checked \in [Revisions -> Instants]
          /\ now \in Instants /\ PointerHolds
      BY DEF RequestInv, TablesInv, TablesHold
    <3> QED
      BY <3>1, SizesAreNatural DEF ResponseSets
  <2>2. /\ IsFreshVariant(activeSet, now) => Fresh(checked[active], now)
        /\ activeSet.by = None => (IsFreshVariant(activeSet, now) <=> Fresh(checked[active], now))
    BY <2>1, SizesAreNatural DEF IsFreshVariant, Fresh, PointerHolds
  <2>3. /\ CachedNow(now).rev = activeSet.rev /\ CachedNow(now).checked = activeSet.checked
        /\ CachedNow(now).freshness = FreshnessOf(IsFreshVariant(activeSet, now))
    BY DEF CachedNow, Cached, Body
  <2> QED
    BY <2>1, <2>2, <2>3 DEF FreshnessOf, PointerHolds
<1>3. RequestInv => AnswersAreTrue
  BY <1>1, <1>2 DEF AnswersAreTrue, RequestInv, AnswerHolds, ChainHolds
<1> QED
  BY <1>3, RequestInvariance, PTL

(* No publication removes a row of the directory or changes its slug: an    *)
(* address keeps naming its model (directoryStatements).                    *)
THEOREM AddressesStay == ReadersSpec => AddressesAreKept
<1> DEFINE Kept ==
       \A m \in Models : directory[m] # None => directory'[m] # None /\ directory'[m].slug = directory[m].slug
<1>1. RequestInv /\ [ReadersNext]_readerVars => [Kept]_directory
  <2> SUFFICES ASSUME RequestInv, [ReadersNext]_readerVars PROVE Kept \/ UNCHANGED directory
    OBVIOUS
  <2>1. CASE Publishing
    BY <2>1, PublishingMovesOn DEF RequestInv, MoveOn
  <2>2. CASE Requesting
    BY <2>2 DEF Requesting, Begin, tables
  <2>3. CASE Serving
    <3>1. UNCHANGED tables
      BY <2>3 DEF Serving, ReadCache, ReadProjection, ReadOldProjection, ReadHistorical, ReadRevision, ReadFacts,
         ReadArchivedRows, ReadArchivedProfiles, ReadEntry, ReadProfiles, ReadAlias, ReadModel, ReadRoute,
         ReadPairs, ReadRelated, ReadWeek, ReadRows, ReadRowProfiles, ReadSitemapPage, ReadSitemapProfiles,
         ServeSet, ServeLeaderboard, ServePoints, Continue, Refuse, Respond, Finish
    <3> QED
      BY <3>1 DEF tables
  <2>4. CASE UNCHANGED readerVars
    BY <2>4 DEF readerVars, tables
  <2> QED
    BY <2>1, <2>2, <2>3, <2>4 DEF ReadersNext
<1> QED
  BY <1>1, RequestInvariance, PTL DEF ReadersSpec, AddressesAreKept
=============================================================================
