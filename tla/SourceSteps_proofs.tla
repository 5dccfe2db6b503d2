------------------------- MODULE SourceSteps_proofs -------------------------
(***************************************************************************)
(* Proofs about the retrieval of the benchmark sources, for any artifacts, *)
(* subsets and numbers of pages, and however often upstreams publish,      *)
(* requests fail and steps are replayed: what is published was generated   *)
(* together, and a candidate is made of all pages and all partitions.      *)
(*                                                                         *)
(* None of it is inductive.  A 304 promises something about bytes that     *)
(* another cycle stored, so every record must be Genuine: its etag is that *)
(* of the bytes its key names.  And the checkpoint must remember, phase by *)
(* phase, what the steps before it have left (PhasesInOrder, PagesSoFar,   *)
(* PartitionsSoFar).                                                       *)
(***************************************************************************)
EXTENDS SourceSteps, SequenceTheorems, TLAPS

SubsetId == Range(Subsets)

PageBytesSet == [art : SubsetId, gen : Generation, form : {"viewer", "parquet"}, page : Nat]
PageKey == [cycle : Nat, dir : {"viewer", "parquet"}, bytes : PageBytesSet]
PageRecord == [art : SubsetId, key : PageKey, etag : {None}]
AnyRecord == SourceRecord \cup PageRecord

ProgressRecord ==
    [subset : 1..Len(Subsets) + 1, offset : Nat, total : Nat \cup {None},
     transport : {"viewer", "resolve", "download"}, download : Generation \cup {None}]

Partition == [index : Nat, sources : SUBSET AnyRecord]
PartitionKey == [cycle : Nat, dir : {"normalized"}, bytes : Partition]

CheckpointRecord ==
    [validators : SUBSET AnyRecord, benchLm : Seq(SourceRecord), bundle : Seq(SourceRecord) \cup {None},
     lite : SourceRecord \cup {None}, revision : Generation \cup {None}, pages : Seq(PageRecord),
     progress : ProgressRecord, normalized : Seq(PartitionKey)]

Typed ==
    /\ upstream \in [Artifacts -> Generation] /\ hub \in Generation /\ viewer \in 1..hub
    /\ published \subseteq AnyRecord
    /\ cycle \in 0..MaxCycle /\ phase \in Phases /\ cursor \in Nat \ {0} /\ attempt \in 0..MaxAttempts-1
    /\ cp \in CheckpointRecord
    /\ served \in [Artifacts -> SUBSET Generation]
    /\ faults \in Nat

\* The etag of a record is that of the very bytes its key names.
Genuine(d) ==
    /\ d.key.bytes.art = d.art /\ d.key.bytes.gen = d.etag
    /\ d.key.dir = "v3" => d.key.bytes.form = "v3"

Bundled == IF cp.bundle = None THEN {} ELSE Range(cp.bundle)
Priced == IF cp.lite = None THEN {} ELSE {cp.lite}
Kept == published \cup cp.validators \cup Range(cp.benchLm) \cup Bundled \cup Priced

RecordsAreGenuine == \A d \in Kept : d.art \in Artifacts => Genuine(d)

ProjectionsAreNamed == \A key \in r2 : key.dir = "v3" => key.bytes.form = "v3"

Stored ==
    /\ \A d \in Range(cp.benchLm) \cup Bundled \cup Priced \cup Range(cp.pages) : d.key \in r2 /\ d.key.cycle = cycle
    /\ \A d \in published : d.key \in r2
    /\ ProjectionsAreNamed

OfOneCycle == \A d, e \in {x \in published : x.art \in Artifacts} : d.key.cycle = e.key.cycle

ServedSoFar ==
    phase # "idle" =>
        /\ \A a \in Artifacts : upstream[a] \in served[a]
        /\ \A d \in Range(cp.benchLm) \cup Priced : d.etag \in served[d.art]

Torn(records) ==
    \E d, e \in {x \in records : x.art \in Range(BenchLm) \ {Public}} : d.key.bytes.gen # e.key.bytes.gen

\* What each phase may take from those before it.
PhasesInOrder ==
    /\ phase = "benchlm" => cursor <= Len(BenchLm)
    /\ phase \in {"litellm", "revision", "pages", "normalize", "publish"} => cp.bundle # None
    /\ phase \in {"revision", "pages", "normalize", "publish"} => cp.lite # None
    /\ phase \in {"pages", "normalize", "publish"} => cp.revision # None
    /\ phase \in {"benchlm", "assemble", "litellm", "revision"} => cp.pages = <<>> /\ cp.progress = FreshProgress
    /\ phase \in {"benchlm", "assemble", "litellm", "revision", "pages"} => cp.normalized = <<>>
    /\ phase = "pages" => cp.progress.subset <= Len(Subsets)
    /\ phase \in {"benchlm", "assemble", "litellm", "revision", "pages"} => cursor <= Len(BenchLm) + 1
    /\ \A d \in Bundled : d.art \in Range(BenchLm)
    /\ \A d \in Range(cp.benchLm) : d.art \in Range(BenchLm)
    /\ \A d \in Priced : d.art = Lite

\* The last `done` pages are those that the viewer served of s so far.
SubsetBegun(pages, revision, s, done) ==
    LET lo == Len(pages) - done
    IN /\ lo >= 0
       /\ \A j \in DOMAIN pages :
             IF j > lo THEN pages[j].key.bytes = PageBytes(s, revision, j - lo - 1, "viewer")
                       ELSE pages[j].art # s

\* The pages of the subset that is being read, and of those before it.
PagesRead(pages, revision, p) ==
    /\ \A i \in 1..Len(Subsets) : i < p.subset => SubsetIsWhole(pages, revision, Subsets[i])
    /\ \A j \in DOMAIN pages : \E i \in 1..Len(Subsets) : i <= p.subset /\ pages[j].art = Subsets[i]
    /\ \A j \in DOMAIN pages : pages[j].key.bytes.art = pages[j].art
    /\ p.subset <= Len(Subsets) => SubsetBegun(pages, revision, Subsets[p.subset], p.offset)
    /\ p.offset > 0 => /\ p.subset <= Len(Subsets) /\ p.transport = "viewer" /\ revision # None
                       /\ p.offset < PageCount[revision][Subsets[p.subset]]
    /\ revision = None => pages = <<>> /\ p.subset = 1

PagesSoFar == PagesRead(cp.pages, cp.revision, cp.progress)

\* The partitions of the items that were normalized.
PartitionsSoFar ==
    /\ phase = "normalize" => Len(cp.normalized) = cursor - 1 /\ cursor <= Len(Worklist)
    /\ phase = "publish" => Len(cp.normalized) = Len(Worklist)
    /\ phase \in {"normalize", "publish"} =>
          \A i \in 1..Len(cp.normalized) : cp.normalized[i].bytes = [index |-> i, sources |-> Worklist[i]]

CursorInRange == cursor <= Len(Worklist) + Len(BenchLm)

SourceInv ==
    /\ Typed /\ RecordsAreGenuine /\ Stored /\ OfOneCycle /\ ServedSoFar
    /\ ~Torn(published) /\ ~Torn(Bundled)
    /\ PhasesInOrder /\ PagesSoFar /\ PartitionsSoFar /\ CursorInRange
---------------------------------------------------------------------------
LEMMA RangeIs == ASSUME NEW S, NEW s \in Seq(S) PROVE Range(s) \subseteq S
BY DEF Range

LEMMA RangeAppend ==
    ASSUME NEW S, NEW s \in Seq(S), NEW e \in S
    PROVE  Range(Append(s, e)) = Range(s) \cup {e}
<1>1. Append(s, e) \in Seq(S) /\ Len(Append(s, e)) = Len(s) + 1
  OBVIOUS
<1>2. \A i \in 1..Len(s) : Append(s, e)[i] = s[i]
  OBVIOUS
<1>3. Append(s, e)[Len(s) + 1] = e
  OBVIOUS
<1>4. DOMAIN s = 1..Len(s) /\ DOMAIN Append(s, e) = 1..Len(s) + 1 /\ Len(s) \in Nat
  BY <1>1
<1>5. \A i \in 1..Len(s) + 1 : i \in 1..Len(s) \/ i = Len(s) + 1
  BY <1>4
<1>6. Range(s) = {s[i] : i \in 1..Len(s)}
  BY <1>4 DEF Range
<1>7. Range(Append(s, e)) = {Append(s, e)[i] : i \in 1..Len(s) + 1}
  BY <1>4 DEF Range
<1>8. 1..Len(s) \subseteq 1..Len(s) + 1 /\ Len(s) + 1 \in 1..Len(s) + 1
  BY <1>4
<1> QED
  BY <1>2, <1>3, <1>5, <1>6, <1>7, <1>8, Zenon

\* Names of artifacts and of subsets, and the null of a record.
LEMMA Names ==
    /\ Range(BenchLm) \subseteq Artifacts /\ Lite \in Artifacts /\ Public \in Range(BenchLm)
    /\ \A i \in 1..Len(BenchLm) : BenchLm[i] \in Range(BenchLm)
    /\ \A i \in 1..Len(Subsets) : Subsets[i] \in SubsetId
    /\ Len(BenchLm) \in Nat /\ Len(Subsets) \in Nat \ {0} /\ DOMAIN Subsets = 1..Len(Subsets)
    /\ DOMAIN BenchLm = 1..Len(BenchLm)
    /\ \A d \in AnyRecord : d.art \in Artifacts => d \in SourceRecord
    /\ \A d \in SourceRecord : d.art \in Artifacts
    /\ \A d \in PageRecord : d.art \in SubsetId /\ d.art \notin Artifacts
    /\ "v3" # None
<1>1. /\ Range(BenchLm) \subseteq Artifacts /\ Lite \in Artifacts /\ Public \in Range(BenchLm)
  BY SourceAssumption DEF Artifacts
<1>2. \A i \in 1..Len(BenchLm) : BenchLm[i] \in Range(BenchLm)
  BY SourceNames DEF Range
<1>3. \A i \in 1..Len(Subsets) : Subsets[i] \in SubsetId
  BY SourceNames DEF Range, SubsetId
<1>4. /\ Len(BenchLm) \in Nat /\ Len(Subsets) \in Nat \ {0} /\ DOMAIN Subsets = 1..Len(Subsets)
      /\ DOMAIN BenchLm = 1..Len(BenchLm)
  BY SourceNames
<1>5. \A d \in SourceRecord : d.art \in Artifacts
  BY DEF SourceRecord
<1>6. \A d \in PageRecord : d.art \in SubsetId /\ d.art \notin Artifacts
  BY SourceNames DEF PageRecord, SubsetId
<1>7. "v3" # None
  BY SourceNone
<1> QED
  BY <1>1, <1>2, <1>3, <1>4, <1>5, <1>6, <1>7 DEF AnyRecord

\* What a checkpoint holds, field by field.
LEMMA CheckpointIs ==
    ASSUME Typed
    PROVE  /\ cp.validators \subseteq AnyRecord /\ cp.benchLm \in Seq(SourceRecord)
           /\ cp.bundle \in Seq(SourceRecord) \cup {None} /\ cp.lite \in SourceRecord \cup {None}
           /\ cp.revision \in Generation \cup {None} /\ cp.pages \in Seq(PageRecord)
           /\ cp.progress \in ProgressRecord /\ cp.normalized \in Seq(PartitionKey)
           /\ Range(cp.benchLm) \subseteq SourceRecord /\ Range(cp.pages) \subseteq PageRecord
           /\ Bundled \subseteq SourceRecord /\ Priced \subseteq SourceRecord
           /\ Len(cp.pages) \in Nat /\ Len(cp.benchLm) \in Nat
<1>1. /\ cp.validators \subseteq AnyRecord /\ cp.benchLm \in Seq(SourceRecord)
      /\ cp.bundle \in Seq(SourceRecord) \cup {None} /\ cp.lite \in SourceRecord \cup {None}
      /\ cp.revision \in Generation \cup {None} /\ cp.pages \in Seq(PageRecord)
      /\ cp.progress \in ProgressRecord /\ cp.normalized \in Seq(PartitionKey)
  BY DEF Typed, CheckpointRecord
<1>2. Range(cp.benchLm) \subseteq SourceRecord /\ Range(cp.pages) \subseteq PageRecord
  BY <1>1, RangeIs
<1>3. Bundled \subseteq SourceRecord
  BY <1>1, RangeIs DEF Bundled
<1>4. Priced \subseteq SourceRecord
  BY <1>1 DEF Priced
<1> QED
  BY <1>1, <1>2, <1>3, <1>4

LEMMA WorklistIs ==
    ASSUME Typed
    PROVE  /\ Worklist \in Seq(SUBSET (AnyRecord \cup {None})) /\ Len(Worklist) = 3 + Len(cp.pages)
           /\ Worklist[1] = Bundled /\ Worklist[2] = {cp.lite} /\ Worklist[3] = {}
           /\ \A i \in 1..Len(cp.pages) : Worklist[i + 3] = {cp.pages[i]}
<1> DEFINE head == <<IF cp.bundle = None THEN {} ELSE Range(cp.bundle), {cp.lite}, {}>>
           tail == [i \in DOMAIN cp.pages |-> {cp.pages[i]}]
           S == SUBSET (AnyRecord \cup {None})
<1>1. head \in Seq(S) /\ Len(head) = 3 /\ head[1] = Bundled /\ head[2] = {cp.lite} /\ head[3] = {}
  <2>1. Bundled \in S /\ {cp.lite} \in S /\ {} \in S
    BY CheckpointIs DEF AnyRecord
  <2> QED
    BY <2>1 DEF Bundled
<1>2. tail \in Seq(S) /\ Len(tail) = Len(cp.pages) /\ \A i \in 1..Len(cp.pages) : tail[i] = {cp.pages[i]}
  <2>1. cp.pages \in Seq(PageRecord)
    BY CheckpointIs
  <2>2. \A i \in 1..Len(cp.pages) : {cp.pages[i]} \in S
    BY <2>1 DEF AnyRecord
  <2>3. tail = [i \in 1..Len(cp.pages) |-> {cp.pages[i]}] /\ Len(cp.pages) \in Nat
    BY <2>1
  <2> QED
    BY <2>2, <2>3
<1>3. Worklist = head \o tail
  BY DEF Worklist
<1> HIDE DEF head, tail, S
<1>4. /\ head \o tail \in Seq(S) /\ Len(head \o tail) = Len(head) + Len(tail)
      /\ \A i \in 1..Len(head) + Len(tail) :
            (head \o tail)[i] = IF i <= Len(head) THEN head[i] ELSE tail[i - Len(head)]
  <2>1. head \in Seq(S) /\ tail \in Seq(S)
    BY <1>1, <1>2
  <2> HIDE DEF head, tail, S
  <2> QED
    BY <2>1, ConcatProperties, Zenon
<1>5. Len(cp.pages) \in Nat
  BY CheckpointIs
<1>6. \A i \in 1..Len(cp.pages) : (head \o tail)[i + 3] = tail[i]
  BY <1>1, <1>2, <1>4, <1>5
<1> QED
  BY <1>1, <1>2, <1>3, <1>4, <1>5, <1>6 DEF S
LEMMA WorklistLength == Typed => Len(Worklist) = 3 + Len(cp.pages)
BY WorklistIs

LEMMA CursorFits == Typed /\ (cursor = 1 \/ cursor <= Len(BenchLm)) => CursorInRange
<1> SUFFICES ASSUME Typed, cursor = 1 \/ cursor <= Len(BenchLm) PROVE CursorInRange
  OBVIOUS
<1>1. Len(Worklist) = 3 + Len(cp.pages) /\ Len(cp.pages) \in Nat /\ cursor \in Nat
  BY WorklistIs, CheckpointIs DEF Typed
<1> QED
  BY <1>1, Names DEF CursorInRange

---------------------------------------------------------------------------
\* Nothing is published at first, or what an earlier program left.
LEMMA SourceInitially == SourceInit => SourceInv
<1> SUFFICES ASSUME SourceInit PROVE SourceInv
  OBVIOUS
<1> DEFINE record(a) == Descriptor(a, ObjectKey(0, "legacy", Raw(a, 1)), 1)
<1>1. 1 \in Generation /\ 1 \in 1..hub /\ hub = 1 /\ 0 \in 0..MaxCycle /\ 0 \in 0..MaxAttempts-1
  BY SourceAssumption DEF SourceInit, Generation
<1>2. \A a \in Artifacts : /\ record(a) \in SourceRecord /\ Genuine(record(a))
                           /\ record(a).key.cycle = 0 /\ record(a).key.bytes.gen = 1
                           /\ record(a).key.dir # "v3"
  BY <1>1 DEF Descriptor, ObjectKey, Raw, SourceRecord, SourceKey, SourceBytes, Genuine
<1>3. /\ \A d \in published : \E a \in Artifacts : d = record(a)
      /\ r2 = {d.key : d \in published}
  BY DEF SourceInit
<1> HIDE DEF record
<1>4. \A d \in published : /\ d \in SourceRecord /\ Genuine(d) /\ d.key.cycle = 0
                           /\ d.key.bytes.gen = 1 /\ d.key.dir # "v3" /\ d.key \in r2
  BY <1>2, <1>3
<1>5. FrozenValidators(published) \subseteq published
  BY DEF FrozenValidators
<1>6. /\ cp = NewCheckpoint /\ phase = "idle" /\ cycle = 0 /\ cursor = 1 /\ attempt = 0
      /\ upstream = [a \in Artifacts |-> 1] /\ viewer = 1 /\ served = [a \in Artifacts |-> {}]
      /\ faults = MaxFaults
  BY DEF SourceInit
<1>7. FreshProgress \in ProgressRecord
  BY Names DEF FreshProgress, ProgressRecord
<1>8. NewCheckpoint \in CheckpointRecord
  BY <1>4, <1>5, <1>7 DEF NewCheckpoint, CheckpointRecord, AnyRecord
<1>9. Typed
  BY <1>1, <1>4, <1>6, <1>8, SourceAssumption DEF Typed, AnyRecord, Phases
<1>10. /\ cp.benchLm = <<>> /\ cp.bundle = None /\ cp.lite = None /\ cp.pages = <<>>
       /\ cp.progress = FreshProgress /\ cp.revision = None /\ cp.normalized = <<>>
       /\ cp.validators = FrozenValidators(published)
  BY <1>6 DEF NewCheckpoint
<1>11. Bundled = {} /\ Priced = {} /\ Range(cp.benchLm) = {} /\ Range(cp.pages) = {}
  BY <1>10 DEF Bundled, Priced, Range
<1>12. RecordsAreGenuine
  BY <1>4, <1>5, <1>10, <1>11 DEF RecordsAreGenuine, Kept
<1>13. Stored /\ OfOneCycle
  BY <1>3, <1>4, <1>11 DEF Stored, ProjectionsAreNamed, OfOneCycle
<1>14. ~Torn(published) /\ ~Torn(Bundled)
  BY <1>4, <1>11 DEF Torn
<1>15. ServedSoFar /\ PhasesInOrder /\ PartitionsSoFar
  BY <1>6, <1>11 DEF ServedSoFar, PhasesInOrder, PartitionsSoFar
<1>16. PagesSoFar
  <2>1. cp.progress.subset = 1 /\ cp.progress.offset = 0 /\ cp.revision = None /\ cp.pages = <<>>
    BY <1>10 DEF FreshProgress
  <2> QED
    BY <2>1, Names DEF PagesSoFar, PagesRead, SubsetBegun
<1>17. CursorInRange
  BY <1>6, <1>9, <1>10, WorklistIs, Names DEF CursorInRange
<1> QED
  BY <1>9, <1>12, <1>13, <1>14, <1>15, <1>16, <1>17 DEF SourceInv

\* A step that leaves the checkpoint and its cursor, and at most ends the cycle.
LEMMA CheckpointStands ==
    ASSUME SourceInv, Typed', ServedSoFar', ProjectionsAreNamed', r2 \subseteq r2',
           cp' = cp, cycle' = cycle, published' = published, cursor' = cursor, phase' \in {phase, "idle"}
    PROVE  SourceInv'
<1>1. /\ Bundled' = Bundled /\ Priced' = Priced /\ Worklist' = Worklist
      /\ Torn(published)' = Torn(published) /\ Torn(Bundled)' = Torn(Bundled)
  BY DEF Bundled, Priced, Worklist, Torn
<1>2. RecordsAreGenuine' /\ OfOneCycle'
  BY <1>1 DEF SourceInv, RecordsAreGenuine, Kept, OfOneCycle
<1>3. Stored'
  BY <1>1 DEF SourceInv, Stored
<1>4. PhasesInOrder' /\ PartitionsSoFar' /\ CursorInRange'
  BY <1>1 DEF SourceInv, PhasesInOrder, PartitionsSoFar, CursorInRange
<1>5. PagesSoFar'
  BY DEF SourceInv, PagesSoFar
<1> QED
  BY <1>1, <1>2, <1>3, <1>4, <1>5 DEF SourceInv

\* A step whose objects are written, and whose checkpoint is stored or lost.
LEMMA StoreKeeps ==
    ASSUME SourceInv, NEW objects, NEW next, NEW nextPhase, NEW nextCursor,
           Store(objects, next, nextPhase, nextCursor),
           \A key \in objects : key.dir = "v3" => key.bytes.form = "v3",
           /\ cp' = next /\ phase' = nextPhase /\ cursor' = nextCursor /\ attempt' = 0 /\ faults' = faults
           => SourceInv'
    PROVE  SourceInv'
<1>1. /\ r2' = r2 \cup objects /\ UNCHANGED <<upstreamVars, published, cycle, served>>
  BY DEF Store
<1>2. CASE faults > 0 /\ faults' = faults - 1 /\ UNCHANGED <<cp, phase, cursor, attempt>>
  <2>1. Typed' /\ ServedSoFar'
    BY <1>1, <1>2 DEF SourceInv, Typed, ServedSoFar, upstreamVars, Priced
  <2>2. ProjectionsAreNamed'
    BY <1>1 DEF SourceInv, Stored, ProjectionsAreNamed
  <2> QED
    BY <1>1, <1>2, <2>1, <2>2, CheckpointStands
<1> QED
  BY <1>2 DEF Store

\* A failed step is tried again, or ends the cycle.
LEMMA FailKeeps ==
    ASSUME SourceInv, Fail, faults' \in Nat
    PROVE  SourceInv'
<1>1. /\ UNCHANGED <<upstreamVars, r2, published, cycle, cursor, cp, served>>
      /\ attempt' \in 0..MaxAttempts-1 /\ phase' \in {phase, "idle"}
  BY SourceAssumption DEF Fail, SourceInv, Typed
<1>2. Typed' /\ ServedSoFar' /\ ProjectionsAreNamed'
  BY <1>1 DEF SourceInv, Typed, ServedSoFar, upstreamVars, Priced, Phases, Stored, ProjectionsAreNamed
<1> QED
  BY <1>1, <1>2, CheckpointStands
---------------------------------------------------------------------------
\* `longer` goes on with pages of s.
GoesOn(pages, longer, s) ==
    /\ Len(longer) >= Len(pages)
    /\ \A j \in 1..Len(pages) : longer[j] = pages[j]
    /\ \A j \in 1..Len(longer) : j > Len(pages) => longer[j].art = s /\ longer[j].key.bytes.art = s

LEMMA OthersStayWhole ==
    ASSUME NEW pages \in Seq(PageRecord), NEW longer \in Seq(PageRecord), NEW s, NEW t, s # t,
           NEW r, GoesOn(pages, longer, s), SubsetIsWhole(pages, r, t)
    PROVE  SubsetIsWhole(longer, r, t)
<1>1. PICK lo \in 0..Len(pages), w \in {"viewer", "parquet"} :
         LET own == lo + 1 .. lo + PageCount[r][t]
         IN /\ own \subseteq DOMAIN pages
            /\ \A j \in DOMAIN pages :
                  IF j \in own THEN pages[j].key.bytes = PageBytes(t, r, j - lo - 1, w)
                               ELSE pages[j].art # t
  BY DEF SubsetIsWhole
<1> DEFINE own == lo + 1 .. lo + PageCount[r][t]
<1>2. own \subseteq DOMAIN pages
  BY <1>1
<1>3. /\ DOMAIN pages = 1..Len(pages) /\ DOMAIN longer = 1..Len(longer)
      /\ Len(pages) \in Nat /\ Len(longer) \in Nat
  OBVIOUS
<1>4. ASSUME NEW j \in DOMAIN longer
      PROVE  IF j \in own THEN longer[j].key.bytes = PageBytes(t, r, j - lo - 1, w)
                          ELSE longer[j].art # t
  <2>1. CASE j \in DOMAIN pages
    BY <1>1, <1>3, <2>1 DEF GoesOn
  <2>2. CASE j \notin DOMAIN pages
    <3>1. longer[j].art = s /\ j \notin own
      BY <1>2, <1>3, <2>2 DEF GoesOn
    <3> HIDE DEF own
    <3> QED
      BY <3>1
  <2> QED
    BY <2>1, <2>2
<1>5. lo \in 0..Len(longer) /\ own \subseteq DOMAIN longer
  BY <1>2, <1>3 DEF GoesOn
<1> QED
  BY <1>4, <1>5 DEF SubsetIsWhole

\* The subset of which pages are added is begun further, or whole.
LEMMA PagesExtended ==
    ASSUME NEW pages \in Seq(PageRecord), NEW longer \in Seq(PageRecord), NEW r \in Generation,
           NEW p \in ProgressRecord, NEW q \in ProgressRecord,
           p.subset <= Len(Subsets), PagesRead(pages, r, p), GoesOn(pages, longer, Subsets[p.subset]),
           \/ /\ q.subset = p.subset + 1 /\ q.offset = 0
              /\ SubsetIsWhole(longer, r, Subsets[p.subset])
           \/ /\ q.subset = p.subset /\ q.transport = "viewer" /\ q.offset < PageCount[r][Subsets[p.subset]]
              /\ SubsetBegun(longer, r, Subsets[p.subset], q.offset)
    PROVE  PagesRead(longer, r, q)
<1> DEFINE s == Subsets[p.subset]
<1>1. /\ p.subset \in 1..Len(Subsets) /\ Len(Subsets) \in Nat /\ p.offset \in Nat /\ q.offset \in Nat
      /\ p.subset <= q.subset /\ q.subset <= p.subset + 1 /\ p.subset \in Nat /\ q.subset \in Nat
  BY Names DEF ProgressRecord
<1>2. /\ DOMAIN pages = 1..Len(pages) /\ DOMAIN longer = 1..Len(longer)
      /\ Len(pages) \in Nat /\ Len(longer) \in Nat
  OBVIOUS
<1>3. \A i \in 1..Len(Subsets) : i # p.subset => Subsets[i] # s
  BY <1>1, SourceNames, Names
<1>4. r # None
  BY SourceNone DEF Generation
<1>5. ASSUME NEW i \in 1..Len(Subsets), i < q.subset
      PROVE  SubsetIsWhole(longer, r, Subsets[i])
  <2>1. CASE i < p.subset
    <3>1. SubsetIsWhole(pages, r, Subsets[i])
      BY <2>1 DEF PagesRead
    <3>2. Subsets[i] # s
      BY <1>1, <1>3, <2>1
    <3> QED
      BY <3>1, <3>2, OthersStayWhole
  <2>2. CASE ~(i < p.subset)
    <3>1. i = p.subset /\ q.subset = p.subset + 1
      BY <1>1, <1>5, <2>2
    <3>2. SubsetIsWhole(longer, r, s)
      BY <1>1, <3>1
    <3> QED
      BY <3>1, <3>2
  <2> QED
    BY <2>1, <2>2
<1>6. ASSUME NEW j \in DOMAIN longer
      PROVE  /\ \E i \in 1..Len(Subsets) : i <= p.subset /\ longer[j].art = Subsets[i]
             /\ longer[j].key.bytes.art = longer[j].art
  <2>1. CASE j \in DOMAIN pages
    <3>1. longer[j] = pages[j]
      BY <1>2, <2>1 DEF GoesOn
    <3> QED
      BY <2>1, <3>1 DEF PagesRead
  <2>2. CASE j \notin DOMAIN pages
    <3>1. longer[j].art = s /\ longer[j].key.bytes.art = s
      BY <1>2, <2>2 DEF GoesOn
    <3> QED
      BY <1>1, <3>1
  <2> QED
    BY <2>1, <2>2
<1>7. ASSUME q.subset <= Len(Subsets)
      PROVE  SubsetBegun(longer, r, Subsets[q.subset], q.offset)
  <2>1. CASE q.subset = p.subset
    BY <1>1, <2>1
  <2>2. CASE q.subset = p.subset + 1 /\ q.offset = 0
    <3>1. ASSUME NEW j \in DOMAIN longer
          PROVE  longer[j].art # Subsets[q.subset]
      <4>1. PICK i \in 1..Len(Subsets) : i <= p.subset /\ longer[j].art = Subsets[i]
        BY <1>6
      <4>2. q.subset \in 1..Len(Subsets) /\ i # q.subset
        BY <1>1, <1>7, <2>2, <4>1
      <4> QED
        BY <4>1, <4>2, SourceNames, Names
    <3> QED
      BY <1>2, <2>2, <3>1 DEF SubsetBegun
  <2> QED
    BY <1>1, <2>1, <2>2
<1>8. q.offset > 0 => /\ q.subset <= Len(Subsets) /\ q.transport = "viewer" /\ r # None
                      /\ q.offset < PageCount[r][Subsets[q.subset]]
  BY <1>1, <1>4
<1>9. \A j \in DOMAIN longer : \E i \in 1..Len(Subsets) : i <= q.subset /\ longer[j].art = Subsets[i]
  BY <1>1, <1>6
<1> QED
  BY <1>4, <1>5, <1>6, <1>7, <1>8, <1>9 DEF PagesRead
---------------------------------------------------------------------------
\* What a 304 lets a step keep: genuine, of this cycle, and current.
LEMMA ReusedIsGenuine ==
    ASSUME SourceInv, NEW a \in Artifacts, NotModified(a)
    PROVE  /\ Reuse(a) \in SourceRecord /\ Reuse(a).art = a /\ Reuse(a).key.cycle = cycle
           /\ Reuse(a).etag = upstream[a] /\ Genuine(Reuse(a))
<1> DEFINE usable == {d \in cp.validators : d.art = a
                        /\ (a \in Range(BenchLm) => ProjectionVersionFromKey(d.key) # None)}
           v == Validator(a)
<1>1. v # None /\ v.etag = upstream[a]
  BY DEF NotModified
<1>2. usable # {} /\ v = CHOOSE d \in usable : TRUE
  BY <1>1 DEF Validator
<1>3. v \in usable
  BY <1>2
<1>4. v \in cp.validators /\ v.art = a
  BY <1>3
<1> HIDE DEF v, usable
<1>5. v \in SourceRecord /\ Genuine(v)
  BY <1>4, CheckpointIs, Names DEF SourceInv, RecordsAreGenuine, Kept
<1> DEFINE dir == CASE a = Lite -> "litellm"
                    [] ProjectionVersionFromKey(v.key) = "v3" -> "v3"
                    [] OTHER -> "raw"
           key == ObjectKey(cycle, dir, v.key.bytes)
<1>6. /\ dir \in {"litellm", "v3", "raw"}
      /\ dir = "v3" => ProjectionVersionFromKey(v.key) = "v3"
  <2>1. CASE a = Lite
    BY <2>1 DEF Lite, ProjectionVersionFromKey
  <2>2. CASE a # Lite /\ ProjectionVersionFromKey(v.key) = "v3"
    BY <2>2
  <2>3. CASE a # Lite /\ ProjectionVersionFromKey(v.key) # "v3"
    BY <2>3
  <2> QED
    BY <2>1, <2>2, <2>3
<1>7. ProjectionVersionFromKey(v.key) = "v3" => v.key.dir = "v3"
  BY Names DEF ProjectionVersionFromKey
<1>8. Reuse(a) = [v EXCEPT !.key = key]
  BY DEF Reuse, v
<1> HIDE DEF dir
<1>9. /\ key \in SourceKey /\ key.cycle = cycle /\ key.bytes = v.key.bytes /\ key.dir = dir
  BY <1>5, <1>6 DEF SourceRecord, SourceKey, ObjectKey, SourceInv, Typed
<1>10. key.dir = "v3" => key.bytes.form = "v3"
  BY <1>5, <1>6, <1>7, <1>9 DEF Genuine
<1> HIDE DEF key
<1> DEFINE d == Reuse(a)
<1>11. d = [art |-> v.art, key |-> key, etag |-> v.etag]
  BY <1>5, <1>8 DEF SourceRecord
<1>12. d \in SourceRecord /\ d.art = a /\ d.key = key /\ d.etag = v.etag
  BY <1>4, <1>5, <1>9, <1>11 DEF SourceRecord
<1>13. key.bytes.art = a /\ key.bytes.gen = v.etag
  BY <1>4, <1>5, <1>9 DEF Genuine
<1> HIDE DEF d
<1>14. Genuine(d)
  BY <1>10, <1>12, <1>13 DEF Genuine
<1> QED
  BY <1>1, <1>9, <1>12, <1>14 DEF d

\* And what a 200 lets it store.
LEMMA FreshIsGenuine ==
    ASSUME SourceInv, NEW a \in Artifacts, NEW dir \in {"raw", "litellm"},
           NEW bytes \in {Raw(a, upstream[a]), Projected(Raw(a, upstream[a]))},
           NEW d, d = Descriptor(a, ObjectKey(cycle, dir, bytes), upstream[a])
    PROVE  /\ d \in SourceRecord /\ d.art = a /\ d.key.cycle = cycle
           /\ d.etag = upstream[a] /\ Genuine(d)
<1>1. upstream[a] \in Generation /\ cycle \in Nat
  BY SourceAssumption DEF SourceInv, Typed
<1>2. PICK form \in {"raw", "v3"} : bytes = [art |-> a, gen |-> upstream[a], form |-> form]
  BY DEF Raw, Projected
<1>3. d = [art |-> a, key |-> [cycle |-> cycle, dir |-> dir,
                               bytes |-> [art |-> a, gen |-> upstream[a], form |-> form]], etag |-> upstream[a]]
  BY <1>2 DEF Descriptor, ObjectKey
<1> QED
  BY <1>1, <1>3 DEF SourceRecord, SourceKey, SourceBytes, Genuine

\* A first request of a cycle, and the ones after it.
LEMMA StartKeeps ==
    ASSUME SourceInv, StartCycle
    PROVE  SourceInv'
<1>1. /\ cycle < MaxCycle /\ cycle' = cycle + 1 /\ phase' = "benchlm" /\ cursor' = 1 /\ attempt' = 0
      /\ cp' = NewCheckpoint /\ served' = [a \in Artifacts |-> {upstream[a]}]
      /\ UNCHANGED <<upstreamVars, r2, published, faults>>
  BY DEF StartCycle
<1>2. FrozenValidators(published) \subseteq published /\ published \subseteq AnyRecord
  BY DEF FrozenValidators, SourceInv, Typed
<1>3. FreshProgress \in ProgressRecord
  BY Names DEF FreshProgress, ProgressRecord
<1>4. NewCheckpoint \in CheckpointRecord
  BY <1>2, <1>3 DEF NewCheckpoint, CheckpointRecord
<1>5. cycle' \in 0..MaxCycle /\ 0 \in 0..MaxAttempts-1
  BY <1>1, SourceAssumption DEF SourceInv, Typed
<1>6. Typed'
  BY <1>1, <1>4, <1>5 DEF SourceInv, Typed, Phases, upstreamVars
<1>7. /\ cp'.benchLm = <<>> /\ cp'.bundle = None /\ cp'.lite = None /\ cp'.pages = <<>>
      /\ cp'.progress = FreshProgress /\ cp'.revision = None /\ cp'.normalized = <<>>
      /\ cp'.validators = FrozenValidators(published)
  BY <1>1 DEF NewCheckpoint
<1>8. Bundled' = {} /\ Priced' = {} /\ Range(cp'.benchLm) = {} /\ Range(cp'.pages) = {}
  BY <1>7 DEF Bundled, Priced, Range
<1>9. RecordsAreGenuine'
  <2>1. Kept' \subseteq Kept
    BY <1>1, <1>2, <1>7, <1>8 DEF Kept
  <2> QED
    BY <2>1 DEF SourceInv, RecordsAreGenuine, Genuine
<1>10. Stored' /\ OfOneCycle'
  BY <1>1, <1>8 DEF SourceInv, Stored, ProjectionsAreNamed, OfOneCycle
<1>11. ~Torn(published)' /\ ~Torn(Bundled)'
  BY <1>1, <1>8 DEF SourceInv, Torn
<1>12. ServedSoFar'
  BY <1>1, <1>8 DEF ServedSoFar, upstreamVars
<1>13. PhasesInOrder' /\ PartitionsSoFar'
  <2>1. 1 <= Len(BenchLm)
    BY Names DEF Range
  <2> QED
    BY <1>1, <1>7, <1>8, <2>1, Names DEF PhasesInOrder, PartitionsSoFar
<1>14. PagesSoFar'
  <2>1. cp'.progress.subset = 1 /\ cp'.progress.offset = 0 /\ cp'.revision = None /\ cp'.pages = <<>>
    BY <1>7 DEF FreshProgress
  <2> QED
    BY <2>1, Names DEF PagesSoFar, PagesRead, SubsetBegun
<1>15. CursorInRange'
  <2>1. (Typed /\ cursor = 1 => CursorInRange)'
    BY CursorFits, PTL
  <2> QED
    BY <1>1, <1>6, <2>1
<1> QED
  BY <1>6, <1>9, <1>10, <1>11, <1>12, <1>13, <1>14, <1>15 DEF SourceInv
---------------------------------------------------------------------------
LEMMA RetrieveBenchLmKeeps ==
    ASSUME SourceInv, RetrieveBenchLm
    PROVE  SourceInv'
<1> DEFINE a == BenchLm[cursor]
           d == IF NotModified(a) THEN Reuse(a)
                ELSE Descriptor(a, ObjectKey(cycle, "raw", Raw(a, upstream[a])), upstream[a])
           n == [cp EXCEPT !.benchLm = Append(@, d)]
           toPhase == IF cursor < Len(BenchLm) THEN "benchlm" ELSE "assemble"
           toCursor == IF cursor < Len(BenchLm) THEN cursor + 1 ELSE 1
<1>1. phase = "benchlm" /\ Store({d.key}, n, toPhase, toCursor)
  BY DEF RetrieveBenchLm
<1>2. a \in Range(BenchLm) /\ a \in Artifacts
  BY <1>1, Names DEF SourceInv, PhasesInOrder, Typed
<1>3. /\ d \in SourceRecord /\ d.art = a /\ d.key.cycle = cycle
      /\ d.etag = upstream[a] /\ Genuine(d)
  <2>1. CASE NotModified(a)
    BY <1>2, <2>1, ReusedIsGenuine
  <2>2. CASE ~NotModified(a)
    <3>1. d = Descriptor(a, ObjectKey(cycle, "raw", Raw(a, upstream[a])), upstream[a])
      BY <2>2
    <3> HIDE DEF d, a
    <3> QED
      BY <1>2, <3>1, FreshIsGenuine
  <2> QED
    BY <2>1, <2>2
<1> HIDE DEF d, a
<1>4. \A key \in {d.key} : key.dir = "v3" => key.bytes.form = "v3"
  BY <1>3 DEF Genuine
<1>5. /\ n \in CheckpointRecord /\ n.benchLm = Append(cp.benchLm, d)
      /\ n.validators = cp.validators /\ n.bundle = cp.bundle /\ n.lite = cp.lite
      /\ n.revision = cp.revision /\ n.pages = cp.pages /\ n.progress = cp.progress
      /\ n.normalized = cp.normalized
  <2>1. cp.benchLm \in Seq(SourceRecord) /\ cp \in CheckpointRecord
    BY CheckpointIs DEF SourceInv, Typed
  <2>2. Append(cp.benchLm, d) \in Seq(SourceRecord)
    BY <1>3, <2>1
  <2> QED
    BY <2>1, <2>2 DEF CheckpointRecord
<1>6. Range(n.benchLm) = Range(cp.benchLm) \cup {d}
  BY <1>3, <1>5, CheckpointIs, RangeAppend DEF SourceInv
<1> HIDE DEF n
<1>7. ASSUME cp' = n, phase' = toPhase, cursor' = toCursor, attempt' = 0, faults' = faults
      PROVE  SourceInv'
  <2>1. /\ r2' = r2 \cup {d.key} /\ UNCHANGED <<upstreamVars, published, cycle, served>>
    BY <1>1 DEF Store
  <2>2. /\ toPhase \in {"benchlm", "assemble"} /\ toCursor \in Nat \ {0}
        /\ toPhase = "benchlm" => toCursor <= Len(BenchLm)
        /\ toCursor = 1 \/ toCursor <= Len(BenchLm)
    BY <1>1, Names DEF SourceInv, Typed, PhasesInOrder
  <2> HIDE DEF toPhase, toCursor
  <2>3. Typed'
    BY <1>5, <1>7, <2>1, <2>2, SourceAssumption DEF SourceInv, Typed, Phases, upstreamVars
  <2>4. Bundled' = Bundled /\ Priced' = Priced /\ Range(cp'.benchLm) = Range(cp.benchLm) \cup {d}
    BY <1>5, <1>6, <1>7 DEF Bundled, Priced
  <2>5. RecordsAreGenuine'
    <3>1. Kept' = Kept \cup {d}
      BY <1>5, <1>7, <2>1, <2>4 DEF Kept
    <3> QED
      BY <1>3, <3>1 DEF SourceInv, RecordsAreGenuine
  <2>6. Stored'
    BY <1>3, <1>4, <1>5, <1>7, <2>1, <2>4 DEF SourceInv, Stored, ProjectionsAreNamed
  <2>7. OfOneCycle' /\ ~Torn(published)' /\ ~Torn(Bundled)'
    BY <2>1, <2>4 DEF SourceInv, OfOneCycle, Torn
  <2>8. ServedSoFar'
    BY <1>1, <1>2, <1>3, <2>1, <2>2, <2>4 DEF SourceInv, ServedSoFar, upstreamVars
  <2>9. PhasesInOrder'
    BY <1>1, <1>2, <1>3, <1>5, <1>7, <2>2, <2>4, Names DEF SourceInv, PhasesInOrder
  <2>10. PagesSoFar'
    BY <1>5, <1>7 DEF SourceInv, PagesSoFar
  <2>11. PartitionsSoFar'
    BY <1>7, <2>2 DEF PartitionsSoFar
  <2>12. CursorInRange'
    <3>1. (Typed /\ (cursor = 1 \/ cursor <= Len(BenchLm)) => CursorInRange)'
      BY CursorFits, PTL
    <3> QED
      BY <1>7, <2>2, <2>3, <3>1
  <2> QED
    BY <2>3, <2>5, <2>6, <2>7, <2>8, <2>9, <2>10, <2>11, <2>12 DEF SourceInv
<1> HIDE DEF toPhase, toCursor
<1> QED
  BY <1>1, <1>4, <1>7, StoreKeeps

\* The bundle is made of what was generated together.
LEMMA AssembleKeeps ==
    ASSUME SourceInv, AssembleBenchLm
    PROVE  SourceInv'
<1> DEFINE bundle == [i \in DOMAIN cp.benchLm |-> ProjectedDescriptor(cp.benchLm[i])]
           all == ObjectKey(cycle, "bundle", [bundle |-> bundle])
           objects == {d.key : d \in Range(bundle)} \cup {all}
           n == [cp EXCEPT !.bundle = bundle]
<1>1. phase = "assemble" /\ Whole(cp.benchLm) /\ Store(objects, n, "litellm", 1)
  BY DEF AssembleBenchLm
<1>2. cp.benchLm \in Seq(SourceRecord) /\ DOMAIN cp.benchLm = 1..Len(cp.benchLm) /\ cycle \in Nat
  BY CheckpointIs, SourceAssumption DEF SourceInv, Typed
<1>3. ASSUME NEW i \in DOMAIN cp.benchLm
      PROVE  LET d == ProjectedDescriptor(cp.benchLm[i])
             IN /\ d \in SourceRecord /\ Genuine(d) /\ d.art = cp.benchLm[i].art
                /\ d.art \in Range(BenchLm)
                /\ d.key.cycle = cycle /\ d.key.dir = "v3"
                /\ d.key.bytes.gen = cp.benchLm[i].key.bytes.gen
  <2> DEFINE e == cp.benchLm[i]
  <2>1. e \in SourceRecord /\ e \in Range(cp.benchLm)
    BY <1>2 DEF Range
  <2>2. Genuine(e) /\ e.art \in Range(BenchLm)
    BY <2>1, Names DEF SourceInv, RecordsAreGenuine, Kept, PhasesInOrder
  <2> HIDE DEF e
  <2>3. Projected(e.key.bytes) = [art |-> e.key.bytes.art, gen |-> e.key.bytes.gen, form |-> "v3"]
    BY <2>1 DEF SourceRecord, SourceKey, SourceBytes, Projected
  <2>4. ProjectedDescriptor(e) =
           [art |-> e.art, key |-> [cycle |-> cycle, dir |-> "v3",
              bytes |-> [art |-> e.key.bytes.art, gen |-> e.key.bytes.gen, form |-> "v3"]], etag |-> e.etag]
    BY <2>3 DEF ProjectedDescriptor, Descriptor, ObjectKey
  <2>5. ProjectedDescriptor(e) \in SourceRecord
    BY <1>2, <2>1, <2>4 DEF SourceRecord, SourceKey, SourceBytes
  <2> QED
    BY <2>2, <2>4, <2>5 DEF Genuine, e
<1>4. /\ bundle \in Seq(SourceRecord)
      /\ \A d \in Range(bundle) : \E i \in DOMAIN cp.benchLm : d = ProjectedDescriptor(cp.benchLm[i])
  <2>1. bundle = [i \in 1..Len(cp.benchLm) |-> ProjectedDescriptor(cp.benchLm[i])]
    BY <1>2
  <2>2. \A i \in 1..Len(cp.benchLm) : ProjectedDescriptor(cp.benchLm[i]) \in SourceRecord
    BY <1>2, <1>3
  <2>3. bundle \in Seq(SourceRecord)
    BY <1>2, <2>1, <2>2
  <2> QED
    BY <2>3 DEF Range
<1> HIDE DEF bundle
<1>5. \A d \in Range(bundle) : /\ d \in SourceRecord /\ Genuine(d) /\ d.art \in Range(BenchLm)
                               /\ d.key.cycle = cycle /\ d.key.dir = "v3"
  BY <1>3, <1>4
<1>6. \A d, e \in Range(bundle) : d.art # Public /\ e.art # Public => d.key.bytes.gen = e.key.bytes.gen
  <2>1. SUFFICES ASSUME NEW d \in Range(bundle), NEW e \in Range(bundle), d.art # Public, e.art # Public
                 PROVE  d.key.bytes.gen = e.key.bytes.gen
    OBVIOUS
  <2>2. PICK i \in DOMAIN cp.benchLm : d = ProjectedDescriptor(cp.benchLm[i])
    BY <1>4
  <2>3. PICK j \in DOMAIN cp.benchLm : e = ProjectedDescriptor(cp.benchLm[j])
    BY <1>4
  <2>4. cp.benchLm[i] \in Range(cp.benchLm) /\ cp.benchLm[j] \in Range(cp.benchLm)
    BY DEF Range
  <2>5. cp.benchLm[i].art # Public /\ cp.benchLm[j].art # Public
    BY <1>3, <2>1, <2>2, <2>3
  <2>6. cp.benchLm[i].key.bytes.gen = cp.benchLm[j].key.bytes.gen
    BY <1>1, <2>4, <2>5 DEF Whole
  <2> QED
    BY <1>3, <2>2, <2>3, <2>6
<1>7. \A key \in objects : key.dir = "v3" => key.bytes.form = "v3"
  BY <1>5 DEF ObjectKey, Genuine
<1>8. bundle # None
  BY <1>4, SourceNone
<1>9. /\ n \in CheckpointRecord /\ n.bundle = bundle /\ n.benchLm = cp.benchLm
      /\ n.validators = cp.validators /\ n.lite = cp.lite
      /\ n.revision = cp.revision /\ n.pages = cp.pages /\ n.progress = cp.progress
      /\ n.normalized = cp.normalized
  BY <1>4 DEF SourceInv, Typed, CheckpointRecord
<1> HIDE DEF n
<1>10. ASSUME cp' = n, phase' = "litellm", cursor' = 1, attempt' = 0, faults' = faults
       PROVE  SourceInv'
  <2>1. /\ r2' = r2 \cup objects /\ UNCHANGED <<upstreamVars, published, cycle, served>>
    BY <1>1 DEF Store
  <2>2. /\ \A d \in Range(bundle) : d.key \in r2'
        /\ \A key \in r2 : key \in r2'
        /\ \A key \in r2' : key \in r2 \/ key \in objects
    BY <2>1
  <2> HIDE DEF objects
  <2>3. Typed'
    BY <1>9, <1>10, <2>1, SourceAssumption DEF SourceInv, Typed, Phases, upstreamVars
  <2>4. Bundled' = Range(bundle) /\ Priced' = Priced
    BY <1>8, <1>9, <1>10 DEF Bundled, Priced
  <2>5. RecordsAreGenuine'
    <3>1. Kept' \subseteq Kept \cup Range(bundle)
      BY <1>9, <1>10, <2>1, <2>4 DEF Kept
    <3> QED
      BY <1>5, <3>1 DEF SourceInv, RecordsAreGenuine
  <2>6. Stored'
    <3>1. ProjectionsAreNamed'
      BY <1>7, <2>2 DEF SourceInv, Stored, ProjectionsAreNamed
    <3>2. \A d \in Range(bundle) : d.key \in r2' /\ d.key.cycle = cycle'
      BY <1>5, <2>1, <2>2
    <3>3. \A d \in Range(cp.benchLm) \cup Priced \cup Range(cp.pages) : d.key \in r2' /\ d.key.cycle = cycle'
      BY <2>1, <2>2 DEF SourceInv, Stored
    <3>4. \A d \in published : d.key \in r2'
      <4>1. \A d \in published : d.key \in r2
        BY DEF SourceInv, Stored
      <4> QED
        BY <2>2, <4>1
    <3> QED
      BY <1>9, <1>10, <2>1, <2>4, <3>1, <3>2, <3>3, <3>4 DEF Stored
  <2>7. OfOneCycle' /\ ~Torn(published)'
    BY <2>1 DEF SourceInv, OfOneCycle, Torn
  <2>8. ~Torn(Bundled)'
    BY <1>6, <2>4 DEF Torn
  <2>9. ServedSoFar'
    BY <1>1, <1>9, <1>10, <2>1, <2>4 DEF SourceInv, ServedSoFar, upstreamVars
  <2>10. PhasesInOrder'
    BY <1>1, <1>5, <1>8, <1>9, <1>10, <2>4, Names DEF SourceInv, PhasesInOrder
  <2>11. PagesSoFar'
    BY <1>9, <1>10 DEF SourceInv, PagesSoFar
  <2>12. PartitionsSoFar'
    BY <1>10 DEF PartitionsSoFar
  <2>13. CursorInRange'
    <3>1. (Typed /\ cursor = 1 => CursorInRange)'
      BY CursorFits, PTL
    <3> QED
      BY <1>10, <2>3, <3>1
  <2> QED
    BY <2>3, <2>5, <2>6, <2>7, <2>8, <2>9, <2>10, <2>11, <2>12, <2>13 DEF SourceInv
<1> HIDE DEF objects
<1> QED
  BY <1>1, <1>7, <1>10, StoreKeeps
\* A change of the progress alone, or of revision and progress.
LEMMA ProgressKeeps ==
    ASSUME SourceInv, Typed', PagesSoFar',
           NEW q, NEW r, cp' = [cp EXCEPT !.progress = q, !.revision = r], r2' = r2,
           UNCHANGED <<upstreamVars, published, cycle, served>>, cursor' \in {1, cursor},
           phase \in {"revision", "pages"}, phase' = "pages", r # None, q.subset <= Len(Subsets)
    PROVE  SourceInv'
<1>1. /\ cp'.benchLm = cp.benchLm /\ cp'.validators = cp.validators /\ cp'.bundle = cp.bundle
      /\ cp'.lite = cp.lite /\ cp'.pages = cp.pages /\ cp'.normalized = cp.normalized
      /\ cp'.progress = q /\ cp'.revision = r
  BY DEF SourceInv, Typed, CheckpointRecord
<1>2. Bundled' = Bundled /\ Priced' = Priced
  BY <1>1 DEF Bundled, Priced
<1>3. RecordsAreGenuine'
  <2>1. Kept' = Kept
    BY <1>1, <1>2 DEF Kept
  <2> QED
    BY <2>1 DEF SourceInv, RecordsAreGenuine
<1>4. Stored' /\ OfOneCycle' /\ ServedSoFar'
  BY <1>1, <1>2 DEF SourceInv, Stored, ProjectionsAreNamed, OfOneCycle, ServedSoFar, upstreamVars
<1>5. ~Torn(published)' /\ ~Torn(Bundled)'
  BY <1>2 DEF SourceInv, Torn
<1>6. PhasesInOrder' /\ PartitionsSoFar'
  BY <1>1, <1>2, Names DEF SourceInv, PhasesInOrder, PartitionsSoFar
<1>7. CursorInRange'
  <2>1. (Typed /\ cursor = 1 => CursorInRange)'
    BY CursorFits, PTL
  <2>2. Worklist' = Worklist
    BY <1>1 DEF Worklist
  <2> QED
    BY <2>1, <2>2 DEF SourceInv, CursorInRange
<1> QED
  BY <1>3, <1>4, <1>5, <1>6, <1>7 DEF SourceInv

LEMMA RetrieveLiteLlmKeeps ==
    ASSUME SourceInv, RetrieveLiteLlm
    PROVE  SourceInv'
<1> DEFINE d == IF NotModified(Lite) THEN Reuse(Lite)
                ELSE Descriptor(Lite, ObjectKey(cycle, "litellm", Projected(Raw(Lite, upstream[Lite]))),
                                upstream[Lite])
           n == [cp EXCEPT !.lite = d]
<1>1. phase = "litellm" /\ Store({d.key}, n, "revision", 1)
  BY DEF RetrieveLiteLlm
<1>2. Lite \in Artifacts
  BY Names
<1>3. /\ d \in SourceRecord /\ d.art = Lite /\ d.key.cycle = cycle
      /\ d.etag = upstream[Lite] /\ Genuine(d)
  <2>1. CASE NotModified(Lite)
    BY <1>2, <2>1, ReusedIsGenuine
  <2>2. CASE ~NotModified(Lite)
    <3>1. d = Descriptor(Lite, ObjectKey(cycle, "litellm", Projected(Raw(Lite, upstream[Lite]))), upstream[Lite])
      BY <2>2
    <3> HIDE DEF d
    <3> QED
      BY <1>2, <3>1, FreshIsGenuine
  <2> QED
    BY <2>1, <2>2
<1> HIDE DEF d
<1>4. \A key \in {d.key} : key.dir = "v3" => key.bytes.form = "v3"
  BY <1>3 DEF Genuine
<1>5. /\ n \in CheckpointRecord /\ n.lite = d /\ n.benchLm = cp.benchLm
      /\ n.validators = cp.validators /\ n.bundle = cp.bundle
      /\ n.revision = cp.revision /\ n.pages = cp.pages /\ n.progress = cp.progress
      /\ n.normalized = cp.normalized
  BY <1>3 DEF SourceInv, Typed, CheckpointRecord
<1> HIDE DEF n
<1>6. d # None
  BY <1>3, SourceNone
<1>7. ASSUME cp' = n, phase' = "revision", cursor' = 1, attempt' = 0, faults' = faults
      PROVE  SourceInv'
  <2>1. /\ r2' = r2 \cup {d.key} /\ UNCHANGED <<upstreamVars, published, cycle, served>>
    BY <1>1 DEF Store
  <2>2. Typed'
    BY <1>5, <1>7, <2>1, SourceAssumption DEF SourceInv, Typed, Phases, upstreamVars
  <2>3. Bundled' = Bundled /\ Priced' = {d}
    BY <1>5, <1>6, <1>7 DEF Bundled, Priced
  <2>4. RecordsAreGenuine'
    <3>1. Kept' \subseteq Kept \cup {d}
      BY <1>5, <1>7, <2>1, <2>3 DEF Kept
    <3> QED
      BY <1>3, <3>1 DEF SourceInv, RecordsAreGenuine
  <2>5. Stored'
    BY <1>3, <1>4, <1>5, <1>7, <2>1, <2>3 DEF SourceInv, Stored, ProjectionsAreNamed
  <2>6. OfOneCycle' /\ ~Torn(published)' /\ ~Torn(Bundled)'
    BY <2>1, <2>3 DEF SourceInv, OfOneCycle, Torn
  <2>7. ServedSoFar'
    BY <1>1, <1>2, <1>3, <1>5, <1>7, <2>1, <2>3 DEF SourceInv, ServedSoFar, upstreamVars
  <2>8. PhasesInOrder' /\ PartitionsSoFar'
    BY <1>1, <1>3, <1>5, <1>6, <1>7, <2>3, Names DEF SourceInv, PhasesInOrder, PartitionsSoFar
  <2>9. PagesSoFar'
    BY <1>5, <1>7 DEF SourceInv, PagesSoFar
  <2>10. CursorInRange'
    <3>1. (Typed /\ cursor = 1 => CursorInRange)'
      BY CursorFits, PTL
    <3> QED
      BY <1>7, <2>2, <3>1
  <2> QED
    BY <2>2, <2>4, <2>5, <2>6, <2>7, <2>8, <2>9, <2>10 DEF SourceInv
<1> QED
  BY <1>1, <1>4, <1>7, StoreKeeps

LEMMA RetrieveRevisionKeeps ==
    ASSUME SourceInv, RetrieveRevision
    PROVE  SourceInv'
<1> DEFINE n == [cp EXCEPT !.revision = hub]
<1>1. phase = "revision" /\ Store({}, n, "pages", 1)
  BY DEF RetrieveRevision
<1>2. hub \in Generation /\ hub # None
  BY SourceNone DEF SourceInv, Typed, Generation
<1>3. cp.pages = <<>> /\ cp.progress = FreshProgress /\ cp.progress \in ProgressRecord
  BY <1>1, CheckpointIs DEF SourceInv, PhasesInOrder
<1>4. n \in CheckpointRecord /\ n = [cp EXCEPT !.progress = cp.progress, !.revision = hub]
      /\ n.pages = cp.pages /\ n.progress = cp.progress /\ n.revision = hub
  BY <1>2 DEF SourceInv, Typed, CheckpointRecord
<1> HIDE DEF n
<1>5. ASSUME cp' = n, phase' = "pages", cursor' = 1, attempt' = 0, faults' = faults
      PROVE  SourceInv'
  <2>1. /\ r2' = r2 /\ UNCHANGED <<upstreamVars, published, cycle, served>>
    BY <1>1 DEF Store
  <2>2. Typed'
    BY <1>4, <1>5, <2>1, SourceAssumption DEF SourceInv, Typed, Phases, upstreamVars
  <2>3. cp.progress.subset = 1 /\ cp.progress.offset = 0
    BY <1>3 DEF FreshProgress
  <2>4. PagesSoFar'
    BY <1>2, <1>3, <1>4, <1>5, <2>3, Names DEF PagesSoFar, PagesRead, SubsetBegun
  <2>5. cp.progress.subset <= Len(Subsets)
    BY <2>3, Names
  <2> QED
    BY <1>1, <1>2, <1>4, <1>5, <2>1, <2>2, <2>4, <2>5, ProgressKeeps
<1> QED
  BY <1>1, <1>5, StoreKeeps

---------------------------------------------------------------------------
\* Pages of the subset, written and appended.
LEMMA PagesKeep ==
    ASSUME SourceInv, NEW ds \in Seq(PageRecord), NEW q \in ProgressRecord,
           phase = "pages",
           Store({d.key : d \in Range(ds)}, [cp EXCEPT !.pages = @ \o ds, !.progress = q], AfterPages(q), 1),
           \A d \in Range(ds) : d.art = Subset /\ d.key.bytes.art = Subset /\ d.key.cycle = cycle,
           \/ /\ q.subset = cp.progress.subset + 1 /\ q.offset = 0
              /\ SubsetIsWhole(cp.pages \o ds, cp.revision, Subset)
           \/ /\ q.subset = cp.progress.subset /\ q.transport = "viewer"
              /\ q.offset < PageCount[cp.revision][Subset]
              /\ SubsetBegun(cp.pages \o ds, cp.revision, Subset, q.offset)
    PROVE  SourceInv'
<1> DEFINE objects == {d.key : d \in Range(ds)}
           longer == cp.pages \o ds
           n == [cp EXCEPT !.pages = longer, !.progress = q]
           toPhase == AfterPages(q)
<1>1. Store(objects, n, toPhase, 1)
  OBVIOUS
<1>2. /\ cp.pages \in Seq(PageRecord) /\ cp.progress \in ProgressRecord /\ cp.revision \in Generation
      /\ cp.progress.subset <= Len(Subsets) /\ cp.normalized = <<>> /\ cp.bundle # None /\ cp.lite # None
      /\ cp.revision # None
  BY CheckpointIs DEF SourceInv, PhasesInOrder
<1>3. /\ longer \in Seq(PageRecord) /\ Len(longer) = Len(cp.pages) + Len(ds)
      /\ \A i \in 1..Len(cp.pages) + Len(ds) : longer[i] = IF i <= Len(cp.pages) THEN cp.pages[i] ELSE ds[i - Len(cp.pages)]
      /\ Len(cp.pages) \in Nat /\ Len(ds) \in Nat
  BY <1>2, ConcatProperties
<1> HIDE DEF longer
<1>4. \A i \in 1..Len(ds) : ds[i] \in Range(ds)
  BY DEF Range
<1>5. GoesOn(cp.pages, longer, Subset)
  <2>1. PICK n1 \in Nat, n2 \in Nat : n1 = Len(cp.pages) /\ n2 = Len(ds)
    BY <1>3
  <2>2. /\ Len(longer) = n1 + n2
        /\ \A i \in 1..n1 + n2 : longer[i] = IF i <= n1 THEN cp.pages[i] ELSE ds[i - n1]
    BY <1>3, <2>1
  <2>3. \A j \in 1..n1 : longer[j] = cp.pages[j]
    BY <2>2
  <2>4. ASSUME NEW j \in 1..n1 + n2, j > n1
        PROVE  longer[j].art = Subset /\ longer[j].key.bytes.art = Subset
    <3>1. longer[j] = ds[j - n1] /\ j - n1 \in 1..n2
      BY <2>2, <2>4
    <3> QED
      BY <1>4, <2>1, <3>1
  <2> QED
    BY <2>1, <2>2, <2>3, <2>4 DEF GoesOn
<1>6. Range(longer) \subseteq Range(cp.pages) \cup Range(ds)
  BY <1>2, RangeConcatenation DEF longer
<1>7. PagesRead(longer, cp.revision, q)
  BY <1>2, <1>3, <1>5, PagesExtended DEF SourceInv, PagesSoFar, Subset, longer
<1>8. \A key \in objects : key.dir = "v3" => key.bytes.form = "v3"
  <2>1. \A d \in Range(ds) : d \in PageRecord
    BY RangeIs
  <2> QED
    BY <2>1 DEF PageRecord, PageKey
<1>9. /\ n \in CheckpointRecord /\ n.benchLm = cp.benchLm /\ n.validators = cp.validators
      /\ n.bundle = cp.bundle /\ n.lite = cp.lite /\ n.revision = cp.revision
      /\ n.pages = longer /\ n.progress = q /\ n.normalized = cp.normalized
  BY <1>3 DEF SourceInv, Typed, CheckpointRecord
<1> HIDE DEF n
<1>10. toPhase \in {"pages", "normalize"} /\ (toPhase = "pages" => q.subset <= Len(Subsets))
  BY Names DEF AfterPages, ProgressRecord
<1>11. ASSUME cp' = n, phase' = toPhase, cursor' = 1, attempt' = 0, faults' = faults
       PROVE  SourceInv'
  <2>1. /\ r2' = r2 \cup objects /\ UNCHANGED <<upstreamVars, published, cycle, served>>
    BY <1>1 DEF Store
  <2>2. /\ \A d \in Range(ds) : d.key \in r2'
        /\ \A key \in r2 : key \in r2'
        /\ \A key \in r2' : key \in r2 \/ key \in objects
    BY <2>1
  <2> HIDE DEF objects, toPhase
  <2>3. Typed'
    BY <1>9, <1>10, <1>11, <2>1, SourceAssumption DEF SourceInv, Typed, Phases, upstreamVars
  <2>4. Bundled' = Bundled /\ Priced' = Priced
    BY <1>9, <1>11 DEF Bundled, Priced
  <2>5. RecordsAreGenuine'
    <3>1. Kept' = Kept
      BY <1>9, <1>11, <2>1, <2>4 DEF Kept
    <3> QED
      BY <3>1 DEF SourceInv, RecordsAreGenuine
  <2>6. Stored'
    <3>1. ProjectionsAreNamed'
      BY <1>8, <2>2 DEF SourceInv, Stored, ProjectionsAreNamed
    <3>2. \A d \in Range(longer) : d.key \in r2' /\ d.key.cycle = cycle'
      <4>1. \A d \in Range(cp.pages) : d.key \in r2 /\ d.key.cycle = cycle
        BY DEF SourceInv, Stored
      <4> QED
        BY <1>6, <2>1, <2>2, <4>1
    <3>3. \A d \in Range(cp.benchLm) \cup Bundled \cup Priced : d.key \in r2' /\ d.key.cycle = cycle'
      BY <2>1, <2>2 DEF SourceInv, Stored
    <3>4. \A d \in published : d.key \in r2'
      BY <2>2 DEF SourceInv, Stored
    <3> QED
      BY <1>9, <1>11, <2>1, <2>4, <3>1, <3>2, <3>3, <3>4 DEF Stored
  <2>7. OfOneCycle' /\ ~Torn(published)' /\ ~Torn(Bundled)'
    BY <2>1, <2>4 DEF SourceInv, OfOneCycle, Torn
  <2>8. ServedSoFar'
    BY <1>9, <1>10, <1>11, <2>1, <2>4 DEF SourceInv, ServedSoFar, upstreamVars
  <2>9. PhasesInOrder'
    BY <1>2, <1>9, <1>10, <1>11, <2>4, Names DEF SourceInv, PhasesInOrder
  <2>10. PagesSoFar'
    BY <1>7, <1>9, <1>11 DEF PagesSoFar
  <2>11. PartitionsSoFar'
    <3>1. (Typed => Len(Worklist) = 3 + Len(cp.pages))'
      BY WorklistLength, PTL
    <3>2. Len(Worklist)' = 3 + Len(longer) /\ Len(cp'.normalized) = 0
      BY <1>2, <1>9, <1>11, <2>3, <3>1
    <3>3. \A i \in 1..Len(cp'.normalized) : FALSE
      BY <3>2
    <3> QED
      BY <1>3, <1>10, <1>11, <3>2, <3>3 DEF PartitionsSoFar
  <2>12. CursorInRange'
    <3>1. (Typed /\ cursor = 1 => CursorInRange)'
      BY CursorFits, PTL
    <3> QED
      BY <1>11, <2>3, <3>1
  <2> QED
    BY <2>3, <2>5, <2>6, <2>7, <2>8, <2>9, <2>10, <2>11, <2>12 DEF SourceInv
<1> HIDE DEF objects, toPhase
<1> QED
  BY <1>1, <1>8, <1>11, StoreKeeps
LEMMA NextSubsetIs ==
    ASSUME SourceInv, phase = "pages"
    PROVE  /\ NextSubset \in ProgressRecord
           /\ NextSubset.subset = cp.progress.subset + 1 /\ NextSubset.offset = 0
           /\ Subset \in Range(Subsets) /\ Subset = Subsets[cp.progress.subset]
           /\ PageCount[cp.revision][Subset] \in Nat \ {0}
           /\ cp.revision \in Generation /\ cp.progress.offset \in Nat
<1>1. /\ cp.progress \in ProgressRecord /\ cp.progress.subset <= Len(Subsets) /\ cp.revision \in Generation
      /\ cp.progress.subset \in 1..Len(Subsets)
  BY CheckpointIs, Names DEF SourceInv, PhasesInOrder, ProgressRecord
<1>2. NextSubset = [subset |-> cp.progress.subset + 1, offset |-> 0, total |-> None, transport |-> "viewer", download |-> None]
  BY DEF NextSubset, FreshProgress
<1>3. Subset \in Range(Subsets)
  BY <1>1, Names DEF Subset, SubsetId
<1>4. PageCount[cp.revision][Subset] \in Nat \ {0}
  BY <1>1, <1>3, SourceAssumption DEF Generation
<1> QED
  BY <1>1, <1>2, <1>3, <1>4, Names DEF ProgressRecord, Subset

LEMMA PageIs ==
    ASSUME SourceInv, phase = "pages", NEW k \in Nat, NEW t \in {"viewer", "parquet"}
    PROVE  LET d == PageDescriptor(k, t)
           IN /\ d \in PageRecord /\ d.art = Subset /\ d.key.bytes.art = Subset /\ d.key.cycle = cycle
              /\ d.key.bytes = PageBytes(Subset, cp.revision, k, t)
<1>1. Subset \in SubsetId /\ cp.revision \in Generation /\ cycle \in Nat
  BY NextSubsetIs DEF SourceInv, Typed, SubsetId
<1>2. PageDescriptor(k, t) =
         [art |-> Subset, etag |-> None,
          key |-> [cycle |-> cycle, dir |-> t,
                   bytes |-> [art |-> Subset, gen |-> cp.revision, form |-> t, page |-> k]]]
  BY DEF PageDescriptor, Descriptor, ObjectKey, PageBytes
<1> QED
  BY <1>1, <1>2 DEF PageRecord, PageKey, PageBytesSet, PageBytes

\* One more page from the viewer, the last one of its subset or not.
LEMMA ViewerGoesOn ==
    ASSUME NEW pages \in Seq(PageRecord), NEW d \in PageRecord, NEW r, NEW s, NEW k \in Nat,
           d.key.bytes = PageBytes(s, r, k, "viewer"), SubsetBegun(pages, r, s, k)
    PROVE  /\ SubsetBegun(Append(pages, d), r, s, k + 1)
           /\ PageCount[r][s] = k + 1 => SubsetIsWhole(Append(pages, d), r, s)
<1> DEFINE longer == Append(pages, d)
<1>1. PICK n \in Nat : n = Len(pages) /\ DOMAIN pages = 1..n
  OBVIOUS
<1>2. /\ longer \in Seq(PageRecord) /\ Len(longer) = n + 1 /\ DOMAIN longer = 1..n + 1
      /\ \A i \in 1..n : longer[i] = pages[i]
      /\ longer[n + 1] = d
  <2>1. longer \in Seq(PageRecord) /\ Len(longer) = Len(pages) + 1
    OBVIOUS
  <2>2. \A i \in 1..Len(pages) : longer[i] = pages[i]
    OBVIOUS
  <2>3. longer[Len(pages) + 1] = d
    OBVIOUS
  <2> HIDE DEF longer
  <2>4. DOMAIN longer = 1..n + 1
    BY <1>1, <2>1
  <2> QED
    BY <1>1, <2>1, <2>2, <2>3, <2>4
<1> HIDE DEF longer
<1>3. PICK lo \in Int : lo = n - k
  OBVIOUS
<1>4. /\ lo \in 0..n /\ lo + k = n /\ n + 1 - (k + 1) = lo /\ n + 1 - lo - 1 = k
      /\ \A j \in 1..n : IF j > lo THEN pages[j].key.bytes = PageBytes(s, r, j - lo - 1, "viewer")
                                   ELSE pages[j].art # s
  <2>1. /\ Len(pages) - k >= 0
        /\ \A j \in DOMAIN pages :
              IF j > Len(pages) - k THEN pages[j].key.bytes = PageBytes(s, r, j - (Len(pages) - k) - 1, "viewer")
                                    ELSE pages[j].art # s
    BY Zenon DEF SubsetBegun
  <2>2. Len(pages) - k = lo /\ DOMAIN pages = 1..n
    BY <1>1, <1>3
  <2>3. lo >= 0 /\ \A j \in 1..n : IF j > lo THEN pages[j].key.bytes = PageBytes(s, r, j - lo - 1, "viewer")
                                             ELSE pages[j].art # s
    BY <2>1, <2>2, Zenon
  <2>4. lo \in 0..n /\ lo + k = n /\ n + 1 - (k + 1) = lo /\ n + 1 - lo - 1 = k
    BY <1>3, <2>3
  <2> QED
    BY <2>3, <2>4
<1>5. ASSUME NEW j \in 1..n + 1
      PROVE  IF j > lo THEN longer[j].key.bytes = PageBytes(s, r, j - lo - 1, "viewer")
                       ELSE longer[j].art # s
  <2>1. CASE j \in 1..n
    BY <1>2, <1>4, <2>1
  <2>2. CASE j = n + 1
    <3>1. j - lo - 1 = k /\ j > lo /\ longer[j] = d
      BY <1>2, <1>4, <2>2
    <3> QED
      BY <3>1
  <2> QED
    BY <2>1, <2>2
<1>6. SubsetBegun(longer, r, s, k + 1)
  BY <1>2, <1>4, <1>5 DEF SubsetBegun
<1>7. ASSUME PageCount[r][s] = k + 1
      PROVE  SubsetIsWhole(longer, r, s)
  <2>1. lo + PageCount[r][s] = n + 1 /\ lo \in 0..Len(longer)
    BY <1>2, <1>4, <1>7
  <2>2. /\ lo + 1 .. n + 1 \subseteq DOMAIN longer
        /\ \A j \in DOMAIN longer : j \in lo + 1 .. n + 1 <=> j > lo
    BY <1>2, <1>4
  <2> QED
    BY <1>2, <1>5, <2>1, <2>2 DEF SubsetIsWhole
<1> QED
  BY <1>6, <1>7 DEF longer

\* All pages at once, cut from the parquet file.
LEMMA ParquetIsWhole ==
    ASSUME NEW pages \in Seq(PageRecord), NEW ds \in Seq(PageRecord), NEW r, NEW s,
           SubsetBegun(pages, r, s, 0), PageCount[r][s] = Len(ds),
           \A k \in 1..Len(ds) : ds[k].key.bytes = PageBytes(s, r, k - 1, "parquet")
    PROVE  SubsetIsWhole(pages \o ds, r, s)
<1> DEFINE longer == pages \o ds
<1>1. PICK n \in Nat, m \in Nat : n = Len(pages) /\ m = Len(ds) /\ DOMAIN pages = 1..n
  OBVIOUS
<1>2. /\ longer \in Seq(PageRecord) /\ Len(longer) = Len(pages) + Len(ds)
      /\ \A i \in 1..Len(pages) + Len(ds) : longer[i] = IF i <= Len(pages) THEN pages[i] ELSE ds[i - Len(pages)]
  BY ConcatProperties
<1> HIDE DEF longer
<1>3. DOMAIN longer = 1..n + m /\ Len(longer) = n + m
  BY <1>1, <1>2
<1>4. \A j \in 1..n : longer[j] = pages[j] /\ pages[j].art # s
  BY <1>1, <1>2 DEF SubsetBegun
<1>5. \A j \in n + 1 .. n + m : /\ longer[j] = ds[j - n] /\ j - n \in 1..m
  BY <1>1, <1>2
<1>6. \A j \in n + 1 .. n + m : longer[j].key.bytes = PageBytes(s, r, j - n - 1, "parquet")
  BY <1>1, <1>5
<1>7. /\ n + 1 .. n + m \subseteq DOMAIN longer /\ n \in 0..Len(longer)
      /\ \A j \in DOMAIN longer : j \in n + 1 .. n + m \/ j \in 1..n
      /\ \A j \in 1..n : j \notin n + 1 .. n + m
  BY <1>3
<1>8. n + PageCount[r][s] = n + m
  BY <1>1
<1>9. \A j \in DOMAIN longer :
         IF j \in n + 1 .. n + m THEN longer[j].key.bytes = PageBytes(s, r, j - n - 1, "parquet")
                                 ELSE longer[j].art # s
  BY <1>4, <1>6, <1>7
<1> QED
  BY <1>7, <1>8, <1>9 DEF SubsetIsWhole, longer

LEMMA ViewerPageKeeps ==
    ASSUME SourceInv, ViewerPage
    PROVE  SourceInv'
<1>1. /\ PageCount[cp.revision][Subset] \in Nat \ {0} /\ cp.progress.offset \in Nat
      /\ cp.pages \in Seq(PageRecord) /\ cp.progress \in ProgressRecord /\ phase = "pages"
  BY NextSubsetIs, CheckpointIs DEF SourceInv, ViewerPage
<1> PICK k \in Nat, total \in Nat : k = cp.progress.offset /\ total = PageCount[cp.revision][Subset]
  BY <1>1
<1> PICK d : d = PageDescriptor(k, "viewer")
  OBVIOUS
<1> PICK q : q = IF k + 1 >= total THEN NextSubset ELSE [cp.progress EXCEPT !.offset = k + 1, !.total = total]
  OBVIOUS
<1>2. /\ cp.progress.transport = "viewer" /\ k < total
      /\ Store({d.key}, [cp EXCEPT !.pages = Append(@, d), !.progress = q], AfterPages(q), 1)
  BY DEF ViewerPage, ViewerAnswers
<1>3. /\ d \in PageRecord /\ d.art = Subset /\ d.key.bytes.art = Subset /\ d.key.cycle = cycle
      /\ d.key.bytes = PageBytes(Subset, cp.revision, k, "viewer")
  BY <1>1, PageIs
<1>4. <<d>> \in Seq(PageRecord) /\ Range(<<d>>) = {d} /\ Append(cp.pages, d) = cp.pages \o <<d>>
  <2>1. <<d>> \in Seq(PageRecord) /\ Range(<<d>>) = {d}
    BY <1>3 DEF Range
  <2> QED
    BY <1>1, <1>3, <2>1
<1>5. SubsetBegun(cp.pages, cp.revision, Subset, k)
  BY <1>1, CheckpointIs DEF SourceInv, PagesSoFar, PagesRead, PhasesInOrder, Subset
<1>6. /\ SubsetBegun(cp.pages \o <<d>>, cp.revision, Subset, k + 1)
      /\ PageCount[cp.revision][Subset] = k + 1 => SubsetIsWhole(cp.pages \o <<d>>, cp.revision, Subset)
  <2>1. /\ SubsetBegun(Append(cp.pages, d), cp.revision, Subset, k + 1)
        /\ PageCount[cp.revision][Subset] = k + 1 => SubsetIsWhole(Append(cp.pages, d), cp.revision, Subset)
    BY <1>1, <1>3, <1>5, ViewerGoesOn, Zenon
  <2> QED
    BY <1>4, <2>1, Zenon
<1>7. /\ q \in ProgressRecord
      /\ \/ /\ q.subset = cp.progress.subset + 1 /\ q.offset = 0
            /\ SubsetIsWhole(cp.pages \o <<d>>, cp.revision, Subset)
         \/ /\ q.subset = cp.progress.subset /\ q.transport = "viewer" /\ q.offset < PageCount[cp.revision][Subset]
            /\ SubsetBegun(cp.pages \o <<d>>, cp.revision, Subset, q.offset)
  <2>1. CASE k + 1 >= total
    <3>1. q = NextSubset /\ PageCount[cp.revision][Subset] = k + 1
      BY <1>2, <2>1
    <3> QED
      BY <1>1, <1>6, <3>1, NextSubsetIs
  <2>2. CASE ~(k + 1 >= total)
    <3>1. q = [cp.progress EXCEPT !.offset = k + 1, !.total = total] /\ k + 1 \in Nat /\ k + 1 < total
      BY <2>2
    <3>2. PICK kk \in Nat : kk = k + 1
      BY <3>1
    <3>3. q = [cp.progress EXCEPT !.offset = kk, !.total = total]
      BY <3>1, <3>2
    <3>4. q \in ProgressRecord /\ q.subset = cp.progress.subset /\ q.offset = kk /\ q.transport = "viewer"
      <4>1. PICK p \in ProgressRecord : p = cp.progress /\ p.transport = "viewer"
        BY <1>1, <1>2
      <4>2. q = [p EXCEPT !.offset = kk, !.total = total]
        BY <3>3, <4>1
      <4> QED
        BY <4>1, <4>2 DEF ProgressRecord
    <3>5. kk < PageCount[cp.revision][Subset] /\ SubsetBegun(cp.pages \o <<d>>, cp.revision, Subset, kk)
      BY <1>6, <3>1, <3>2
    <3> QED
      BY <3>4, <3>5
  <2> QED
    BY <2>1, <2>2
<1>8. Store({e.key : e \in Range(<<d>>)}, [cp EXCEPT !.pages = @ \o <<d>>, !.progress = q], AfterPages(q), 1)
  <2>1. {e.key : e \in Range(<<d>>)} = {d.key}
    BY <1>4
  <2> QED
    BY <1>2, <1>4, <2>1
<1>9. \A e \in Range(<<d>>) : e.art = Subset /\ e.key.bytes.art = Subset /\ e.key.cycle = cycle
  BY <1>3, <1>4
<1> QED
  BY <1>1, <1>4, <1>7, <1>8, <1>9, PagesKeep

LEMMA DownloadParquetKeeps ==
    ASSUME SourceInv, DownloadParquet
    PROVE  SourceInv'
<1>1. phase = "pages" /\ cp.progress.transport = "download" /\ cp.progress.download = cp.revision
  BY DEF DownloadParquet
<1>2. /\ PageCount[cp.revision][Subset] \in Nat /\ cp.pages \in Seq(PageRecord)
      /\ NextSubset \in ProgressRecord /\ NextSubset.subset = cp.progress.subset + 1 /\ NextSubset.offset = 0
      /\ cp.progress.subset <= Len(Subsets) /\ cp.progress.offset \in Nat
  BY <1>1, NextSubsetIs, CheckpointIs DEF SourceInv, PhasesInOrder
<1>3. cp.progress.offset = 0
  BY <1>1, <1>2 DEF SourceInv, PagesSoFar, PagesRead
<1> PICK total \in Nat : total = PageCount[cp.revision][Subset]
  BY <1>2
<1> DEFINE ds == [k \in 1..total |-> PageDescriptor(k - 1, "parquet")]
<1>4. Store({d.key : d \in Range(ds)}, [cp EXCEPT !.pages = @ \o ds, !.progress = NextSubset], AfterPages(NextSubset), 1)
  BY <1>1 DEF DownloadParquet
<1>5. \A k \in 1..total : LET d == PageDescriptor(k - 1, "parquet")
                          IN /\ d \in PageRecord /\ d.art = Subset /\ d.key.bytes.art = Subset /\ d.key.cycle = cycle
                             /\ d.key.bytes = PageBytes(Subset, cp.revision, k - 1, "parquet")
  BY <1>1, PageIs
<1>6. ds \in Seq(PageRecord) /\ Len(ds) = total /\ \A k \in 1..total : ds[k] = PageDescriptor(k - 1, "parquet")
  BY <1>5
<1>7. \A d \in Range(ds) : d.art = Subset /\ d.key.bytes.art = Subset /\ d.key.cycle = cycle
  BY <1>5, <1>6 DEF Range
<1> HIDE DEF ds
<1>8. SubsetBegun(cp.pages, cp.revision, Subset, 0)
  BY <1>2, <1>3 DEF SourceInv, PagesSoFar, PagesRead, Subset
<1>9. \A k \in 1..Len(ds) : ds[k].key.bytes = PageBytes(Subset, cp.revision, k - 1, "parquet")
  BY <1>5, <1>6
<1>10. SubsetIsWhole(cp.pages \o ds, cp.revision, Subset)
  BY <1>2, <1>6, <1>8, <1>9, ParquetIsWhole
<1> QED
  BY <1>1, <1>2, <1>4, <1>6, <1>7, <1>10, PagesKeep

\* A failure at the head of a subset changes the transport; later it is a failure.
LEMMA ViewerFailsKeeps ==
    ASSUME SourceInv, ViewerFails
    PROVE  SourceInv'
<1>1. phase = "pages" /\ cp.progress.transport = "viewer" /\ faults' \in Nat
  BY DEF ViewerFails, SourceInv, Typed
<1>2. CASE cp.progress.offset = 0
  <2>1. /\ cp' = [cp EXCEPT !.progress.transport = "resolve"]
        /\ UNCHANGED <<upstreamVars, r2, published, cycle, phase, cursor, attempt, served>>
    BY <1>2 DEF ViewerFails
  <2> PICK q : q = [cp.progress EXCEPT !.transport = "resolve"]
    OBVIOUS
  <2>2. cp.progress \in ProgressRecord /\ cp \in CheckpointRecord
    BY CheckpointIs DEF SourceInv, Typed
  <2>3. q \in ProgressRecord /\ q.subset = cp.progress.subset /\ q.offset = 0
    BY <1>2, <2>2 DEF ProgressRecord
  <2>4. cp' = [cp EXCEPT !.progress = q, !.revision = cp.revision]
    BY <2>1, <2>2 DEF CheckpointRecord
  <2>5. cp' \in CheckpointRecord /\ cp'.pages = cp.pages /\ cp'.revision = cp.revision /\ cp'.progress = q
    BY <2>2, <2>3, <2>4 DEF CheckpointRecord
  <2>6. Typed'
    BY <1>1, <2>1, <2>5 DEF SourceInv, Typed, upstreamVars
  <2>7. PagesSoFar'
    BY <1>2, <2>3, <2>5 DEF SourceInv, PagesSoFar, PagesRead
  <2>8. cp.revision # None /\ q.subset <= Len(Subsets)
    BY <1>1, <2>3 DEF SourceInv, PhasesInOrder
  <2> QED
    BY <1>1, <2>1, <2>4, <2>6, <2>7, <2>8, ProgressKeeps
<1>3. CASE cp.progress.offset # 0
  BY <1>1, <1>3, FailKeeps DEF ViewerFails
<1> QED
  BY <1>2, <1>3

LEMMA ResolveParquetKeeps ==
    ASSUME SourceInv, ResolveParquet
    PROVE  SourceInv'
<1> PICK q : q = [cp.progress EXCEPT !.transport = "download", !.download = cp.revision]
  OBVIOUS
<1> PICK n : n = [cp EXCEPT !.progress = q]
  OBVIOUS
<1>1. phase = "pages" /\ cp.progress.transport = "resolve" /\ Store({}, n, "pages", 1)
  BY DEF ResolveParquet
<1>2. /\ cp.progress \in ProgressRecord /\ cp \in CheckpointRecord /\ cp.revision \in Generation
      /\ cp.progress.subset <= Len(Subsets) /\ cp.revision # None /\ cp.progress.offset \in Nat
  BY <1>1, CheckpointIs, NextSubsetIs DEF SourceInv, Typed, PhasesInOrder
<1>3. cp.progress.offset = 0
  BY <1>1, <1>2 DEF SourceInv, PagesSoFar, PagesRead
<1>4. q \in ProgressRecord /\ q.subset = cp.progress.subset /\ q.offset = 0
  BY <1>2, <1>3 DEF ProgressRecord
<1>5. /\ n \in CheckpointRecord
      /\ n.pages = cp.pages /\ n.revision = cp.revision /\ n.progress = q
  BY <1>2, <1>4 DEF CheckpointRecord
<1>7. n = [cp EXCEPT !.progress = q, !.revision = cp.revision]
  BY <1>2 DEF CheckpointRecord
<1>6. ASSUME cp' = n, phase' = "pages", cursor' = 1, attempt' = 0, faults' = faults
      PROVE  SourceInv'
  <2>1. /\ r2' = r2 /\ UNCHANGED <<upstreamVars, published, cycle, served>>
    BY <1>1 DEF Store
  <2>2. Typed'
    BY <1>5, <1>6, <2>1, SourceAssumption DEF SourceInv, Typed, Phases, upstreamVars
  <2>3. PagesSoFar'
    <3>1. PagesRead(cp.pages, cp.revision, q)
      BY <1>3, <1>4 DEF SourceInv, PagesSoFar, PagesRead
    <3> QED
      BY <1>5, <1>6, <3>1 DEF PagesSoFar
  <2> QED
    BY <1>1, <1>2, <1>4, <1>6, <1>7, <2>1, <2>2, <2>3, ProgressKeeps
<1> QED
  BY <1>1, <1>6, StoreKeeps

\* What was retrieved was generated apart; and a request of any other kind fails.
LEMMA FailuresKeep ==
    ASSUME SourceInv, AssembleTorn \/ RequestFails
    PROVE  SourceInv'
<1>1. Fail /\ faults' \in Nat
  BY DEF AssembleTorn, RequestFails, SourceInv, Typed
<1> QED
  BY <1>1, FailKeeps
---------------------------------------------------------------------------
\* The next item of the worklist becomes a partition.
LEMMA NormalizeSourceKeeps ==
    ASSUME SourceInv, NormalizeSource
    PROVE  SourceInv'
<1> PICK evidence : evidence = Worklist[cursor]
  OBVIOUS
<1> PICK partition : partition = ObjectKey(cycle, "normalized", [index |-> cursor, sources |-> evidence])
  OBVIOUS
<1> PICK n : n = [cp EXCEPT !.normalized = Append(@, partition)]
  OBVIOUS
<1> PICK toPhase : toPhase = IF cursor = Len(Worklist) THEN "publish" ELSE "normalize"
  OBVIOUS
<1> PICK toCursor : toCursor = IF cursor = Len(Worklist) THEN 1 ELSE cursor + 1
  OBVIOUS
<1>1. phase = "normalize" /\ Store({partition}, n, toPhase, toCursor)
  BY DEF NormalizeSource
<1>2. PICK len \in Nat : len = Len(Worklist)
  BY WorklistIs, CheckpointIs DEF SourceInv
<1>3. PICK c \in Nat \ {0} : c = cursor /\ c <= len /\ Len(cp.normalized) = c - 1
  BY <1>1, <1>2 DEF SourceInv, Typed, PartitionsSoFar
<1>4. cp.lite \in AnyRecord /\ cycle \in Nat /\ cp.normalized \in Seq(PartitionKey)
  BY <1>1, CheckpointIs, SourceAssumption DEF SourceInv, Typed, PhasesInOrder, AnyRecord
<1>5. evidence \subseteq AnyRecord
  <2>1. c = 1 \/ c = 2 \/ c = 3 \/ (c - 3 \in 1..Len(cp.pages) /\ c = (c - 3) + 3)
    <3>1. PICK np \in Nat : np = Len(cp.pages) /\ len = 3 + np
      BY <1>2, WorklistIs, CheckpointIs DEF SourceInv
    <3>2. c = 1 \/ c = 2 \/ c = 3 \/ (c - 3 \in 1..np /\ c = (c - 3) + 3)
      BY <1>3, <3>1
    <3> QED
      BY <3>1, <3>2
  <2>2. c = 1 \/ c = 2 \/ c = 3 => evidence \in {Bundled, {cp.lite}, {}}
    BY <1>3, WorklistIs DEF SourceInv
  <2>3. ASSUME NEW i \in 1..Len(cp.pages), c = i + 3
        PROVE  evidence \subseteq AnyRecord
    <3>1. evidence = {cp.pages[i]}
      BY <1>3, <2>3, WorklistIs DEF SourceInv
    <3>2. cp.pages[i] \in PageRecord
      BY CheckpointIs DEF SourceInv
    <3> QED
      BY <3>1, <3>2 DEF AnyRecord
  <2>4. Bundled \subseteq AnyRecord
    BY CheckpointIs DEF SourceInv, AnyRecord
  <2>5. CASE c = 1 \/ c = 2 \/ c = 3
    BY <1>4, <2>2, <2>4, <2>5
  <2> QED
    BY <2>1, <2>3, <2>5
<1>6. /\ partition \in PartitionKey /\ partition.dir # "v3"
      /\ partition.bytes = [index |-> c, sources |-> Worklist[c]]
  BY <1>3, <1>4, <1>5 DEF ObjectKey, PartitionKey, Partition
<1>7. /\ n.normalized = Append(cp.normalized, partition) /\ Append(cp.normalized, partition) \in Seq(PartitionKey)
      /\ n.benchLm = cp.benchLm /\ n.validators = cp.validators /\ n.bundle = cp.bundle /\ n.lite = cp.lite
      /\ n.revision = cp.revision /\ n.pages = cp.pages /\ n.progress = cp.progress
      /\ n \in CheckpointRecord
  <2>1. Append(cp.normalized, partition) \in Seq(PartitionKey) /\ cp \in CheckpointRecord
    BY <1>4, <1>6 DEF SourceInv, Typed
  <2> QED
    BY <2>1 DEF CheckpointRecord
<1>8. /\ Len(n.normalized) = c
      /\ \A i \in 1..c : n.normalized[i].bytes = [index |-> i, sources |-> Worklist[i]]
  <2>1. Len(Append(cp.normalized, partition)) = c
    BY <1>3, <1>4
  <2>2. Append(cp.normalized, partition)[c] = partition
    BY <1>3, <1>4
  <2>3. \A i \in 1..c - 1 : Append(cp.normalized, partition)[i] = cp.normalized[i]
    BY <1>3, <1>4
  <2>4. \A i \in 1..c - 1 : cp.normalized[i].bytes = [index |-> i, sources |-> Worklist[i]]
    BY <1>1, <1>3 DEF SourceInv, PartitionsSoFar
  <2>5. \A i \in 1..c : i = c \/ i \in 1..c - 1
    BY <1>3
  <2> QED
    BY <1>6, <1>7, <2>1, <2>2, <2>3, <2>4, <2>5
<1>9. /\ toPhase \in {"normalize", "publish"} /\ toCursor \in Nat \ {0}
      /\ toPhase = "normalize" => toCursor = c + 1 /\ toCursor <= len
      /\ toPhase = "publish" => toCursor = 1 /\ c = len
  BY <1>2, <1>3
<1>10. ASSUME cp' = n, phase' = toPhase, cursor' = toCursor, attempt' = 0, faults' = faults
       PROVE  SourceInv'
  <2>1. /\ r2' = r2 \cup {partition} /\ UNCHANGED <<upstreamVars, published, cycle, served>>
    BY <1>1 DEF Store
  <2>2. Typed'
    BY <1>7, <1>9, <1>10, <2>1, SourceAssumption DEF SourceInv, Typed, Phases, upstreamVars
  <2>3. Bundled' = Bundled /\ Priced' = Priced /\ Worklist' = Worklist
    BY <1>7, <1>10 DEF Bundled, Priced, Worklist
  <2>4. RecordsAreGenuine'
    <3>1. Kept' = Kept
      BY <1>7, <1>10, <2>1, <2>3 DEF Kept
    <3> QED
      BY <3>1 DEF SourceInv, RecordsAreGenuine
  <2>5. Stored'
    BY <1>6, <1>7, <1>10, <2>1, <2>3 DEF SourceInv, Stored, ProjectionsAreNamed
  <2>6. OfOneCycle' /\ ~Torn(published)' /\ ~Torn(Bundled)'
    BY <2>1, <2>3 DEF SourceInv, OfOneCycle, Torn
  <2>7. ServedSoFar'
    BY <1>1, <1>7, <1>10, <2>1, <2>3 DEF SourceInv, ServedSoFar, upstreamVars
  <2>8. PhasesInOrder'
    BY <1>1, <1>7, <1>9, <1>10, <2>3 DEF SourceInv, PhasesInOrder
  <2>9. PagesSoFar'
    BY <1>7, <1>10 DEF SourceInv, PagesSoFar
  <2>10. PartitionsSoFar'
    <3>1. Len(Worklist') = len /\ \A i \in 1..c : cp'.normalized[i].bytes = [index |-> i, sources |-> Worklist'[i]]
      BY <1>2, <1>8, <1>10, <2>3
    <3>2. Len(cp'.normalized) = c /\ phase' = toPhase /\ cursor' = toCursor
      BY <1>8, <1>10
    <3>3. toPhase = "normalize" => c = toCursor - 1
      BY <1>9
    <3> QED
      BY <1>9, <3>1, <3>2, <3>3 DEF PartitionsSoFar
  <2>11. CursorInRange'
    <3>1. Len(Worklist') = len /\ cursor' = toCursor /\ toCursor <= len + Len(BenchLm)
      BY <1>2, <1>3, <1>9, <1>10, <2>3, Names
    <3> QED
      BY <3>1 DEF CursorInRange
  <2> QED
    BY <2>2, <2>4, <2>5, <2>6, <2>7, <2>8, <2>9, <2>10, <2>11 DEF SourceInv
<1> QED
  BY <1>1, <1>6, <1>10, StoreKeeps
---------------------------------------------------------------------------
\* With one partition for each item, the candidate is all that was retrieved.
LEMMA CandidateIs ==
    ASSUME SourceInv, phase = "publish"
    PROVE  Candidate = Bundled \cup Priced \cup Range(cp.pages)
<1>1. /\ cp.normalized \in Seq(PartitionKey) /\ cp.pages \in Seq(PageRecord) /\ cp.lite # None
      /\ Len(cp.pages) \in Nat
  BY CheckpointIs DEF SourceInv, PhasesInOrder
<1> PICK len \in Nat, n \in Nat : len = Len(cp.pages) /\ n = len + 3
  BY <1>1
<1>2. /\ Len(cp.normalized) = n
      /\ \A i \in 1..n : cp.normalized[i].bytes = [index |-> i, sources |-> Worklist[i]]
  BY WorklistIs DEF SourceInv, PartitionsSoFar
<1>3. ASSUME NEW i \in 1..n
      PROVE  cp.normalized[i].bytes.sources = Worklist[i]
  <2>1. cp.normalized[i].bytes = [index |-> i, sources |-> Worklist[i]]
    BY <1>2, Zenon
  <2> QED
    BY <2>1
<1>4. DOMAIN cp.normalized = 1..n
  BY <1>1, <1>2
<1>5. Candidate = UNION {Worklist[i] : i \in 1..n}
  <2>1. \A k \in Range(cp.normalized) : \E i \in 1..n : k = cp.normalized[i]
    BY <1>4 DEF Range
  <2>2. \A i \in 1..n : cp.normalized[i] \in Range(cp.normalized)
    BY <1>4 DEF Range
  <2>3. ASSUME NEW d
        PROVE  d \in Candidate <=> \E k \in Range(cp.normalized) : d \in k.bytes.sources
    BY DEF Candidate
  <2>4. ASSUME NEW d
        PROVE  (\E k \in Range(cp.normalized) : d \in k.bytes.sources) <=> \E i \in 1..n : d \in Worklist[i]
    <3>1. ASSUME NEW k \in Range(cp.normalized), d \in k.bytes.sources
          PROVE  \E i \in 1..n : d \in Worklist[i]
      <4>1. PICK i \in 1..n : k = cp.normalized[i]
        BY <2>1, Zenon
      <4> QED
        BY <1>3, <3>1, <4>1
    <3>2. ASSUME NEW i \in 1..n, d \in Worklist[i]
          PROVE  \E k \in Range(cp.normalized) : d \in k.bytes.sources
      <4>1. d \in cp.normalized[i].bytes.sources
        BY <1>3, <3>2
      <4> QED
        BY <2>2, <4>1, Zenon
    <3> QED
      BY <3>1, <3>2, Zenon
  <2> QED
    BY <2>3, <2>4
<1>6. /\ Worklist[1] = Bundled /\ Worklist[2] = Priced /\ Worklist[3] = {}
      /\ \A i \in 1..len : Worklist[i + 3] = {cp.pages[i]}
  BY <1>1, WorklistIs DEF SourceInv, Priced
<1>7. /\ 1 \in 1..n /\ 2 \in 1..n /\ 3 \in 1..n /\ \A i \in 1..len : i + 3 \in 1..n
      /\ \A i \in 1..n : i = 1 \/ i = 2 \/ i = 3 \/ \E j \in 1..len : i = j + 3
  <2>1. \A i \in 1..n : i = 1 \/ i = 2 \/ i = 3 \/ (i - 3 \in 1..len /\ i = (i - 3) + 3)
    OBVIOUS
  <2> QED
    BY <2>1
<1>8. Range(cp.pages) = {cp.pages[i] : i \in 1..len}
  BY <1>1 DEF Range
<1>9. ASSUME NEW d \in Candidate
      PROVE  d \in Bundled \cup Priced \cup Range(cp.pages)
  <2>1. PICK i \in 1..n : d \in Worklist[i]
    BY <1>5
  <2>2. CASE i = 1 \/ i = 2 \/ i = 3
    BY <1>6, <2>1, <2>2
  <2>3. ASSUME NEW j \in 1..len, i = j + 3
        PROVE  d \in Range(cp.pages)
    BY <1>6, <1>8, <2>1, <2>3
  <2> QED
    BY <1>7, <2>2, <2>3
<1>10. ASSUME NEW d \in Bundled \cup Priced \cup Range(cp.pages)
       PROVE  d \in Candidate
  <2>1. CASE d \in Bundled \cup Priced
    BY <1>5, <1>6, <1>7, <2>1
  <2>2. CASE d \in Range(cp.pages)
    <3>1. PICK i \in 1..len : d = cp.pages[i]
      BY <1>8, <2>2
    <3>2. d \in Worklist[i + 3] /\ i + 3 \in 1..n
      BY <1>6, <1>7, <3>1
    <3> QED
      BY <1>5, <3>2
  <2> QED
    BY <2>1, <2>2
<1> QED
  BY <1>9, <1>10

LEMMA PublishKeeps ==
    ASSUME SourceInv, PublishCandidate
    PROVE  SourceInv'
<1>1. /\ phase = "publish" /\ published' \in {published, Candidate}
      /\ phase' = "idle" /\ cursor' = 1 /\ attempt' = 0
      /\ UNCHANGED <<upstreamVars, r2, cycle, cp, served, faults>>
  BY DEF PublishCandidate
<1>2. Candidate = Bundled \cup Priced \cup Range(cp.pages)
  BY <1>1, CandidateIs
<1>3. /\ Bundled \subseteq SourceRecord /\ Priced \subseteq SourceRecord /\ Range(cp.pages) \subseteq PageRecord
      /\ \A d \in Priced : d.art = Lite
  BY CheckpointIs DEF SourceInv, PhasesInOrder
<1>4. \A d \in Candidate : d \in AnyRecord /\ d.key \in r2 /\ d.key.cycle = cycle
  BY <1>2, <1>3 DEF SourceInv, Stored, AnyRecord
<1>5. /\ Bundled' = Bundled /\ Priced' = Priced /\ Worklist' = Worklist
  BY <1>1 DEF Bundled, Priced, Worklist
<1>6. Typed'
  BY <1>1, <1>4, SourceAssumption DEF SourceInv, Typed, Phases, upstreamVars
<1>7. RecordsAreGenuine'
  <2>1. \A d \in Candidate : d.art \in Artifacts => d \in Kept
    BY <1>2, <1>3, Names DEF Kept
  <2>2. \A d \in Kept' : d \in Kept \/ d \in Candidate
    BY <1>1, <1>5 DEF Kept
  <2> QED
    BY <2>1, <2>2 DEF SourceInv, RecordsAreGenuine
<1>8. Stored'
  BY <1>1, <1>4, <1>5 DEF SourceInv, Stored, ProjectionsAreNamed
<1>9. OfOneCycle'
  BY <1>1, <1>4 DEF SourceInv, OfOneCycle
<1>10. ~Torn(published)' /\ ~Torn(Bundled)'
  <2>1. \A d \in Candidate : d.art \in Range(BenchLm) => d \in Bundled
    BY <1>2, <1>3, Names, SourceNames
  <2>2. ~Torn(Candidate)
    BY <2>1 DEF SourceInv, Torn
  <2> QED
    BY <1>1, <1>5, <2>2 DEF SourceInv, Torn
<1>11. ServedSoFar' /\ PartitionsSoFar'
  BY <1>1 DEF ServedSoFar, PartitionsSoFar
<1>12. PhasesInOrder'
  BY <1>1, <1>5 DEF SourceInv, PhasesInOrder
<1>13. PagesSoFar'
  BY <1>1 DEF SourceInv, PagesSoFar
<1>14. CursorInRange'
  <2>1. (Typed /\ cursor = 1 => CursorInRange)'
    BY CursorFits, PTL
  <2> QED
    BY <1>1, <1>6, <2>1
<1> QED
  BY <1>6, <1>7, <1>8, <1>9, <1>10, <1>11, <1>12, <1>13, <1>14 DEF SourceInv

\* Upstreams publish, and the viewer follows the Hub.
LEMMA UpstreamKeeps ==
    ASSUME SourceInv, (\E a \in Artifacts : UpstreamPublishes(a)) \/ DatasetMoves \/ ViewerFollows
    PROVE  SourceInv'
<1>1. CASE \E a \in Artifacts : UpstreamPublishes(a)
  <2>1. PICK a \in Artifacts : UpstreamPublishes(a)
    BY <1>1
  <2>2. upstream[a] + 1 \in Generation /\ upstream \in [Artifacts -> Generation]
        /\ served \in [Artifacts -> SUBSET Generation]
    BY <2>1, SourceAssumption DEF UpstreamPublishes, SourceInv, Typed, Generation
  <2>3. /\ upstream' = [upstream EXCEPT ![a] = upstream[a] + 1]
        /\ served' = [served EXCEPT ![a] = served[a] \cup {upstream[a] + 1}]
        /\ UNCHANGED <<hub, viewer, r2, published, cycle, phase, cursor, attempt, cp, faults>>
    BY <2>1 DEF UpstreamPublishes
  <2> PICK g \in Generation : g = upstream[a] + 1
    BY <2>2
  <2>4. Typed'
    BY <2>2, <2>3 DEF SourceInv, Typed
  <2>5. ServedSoFar'
    <3>1. \A b \in Artifacts : served[b] \subseteq served'[b]
      BY <2>2, <2>3
    <3>2. ASSUME phase # "idle", NEW b \in Artifacts
          PROVE  upstream'[b] \in served'[b]
      BY <2>2, <2>3, <3>1, <3>2 DEF SourceInv, ServedSoFar
    <3>3. ASSUME phase # "idle", NEW d \in Range(cp.benchLm) \cup Priced
          PROVE  d.etag \in served'[d.art]
      <4>1. d.art \in Artifacts
        BY CheckpointIs, Names DEF SourceInv
      <4> QED
        BY <3>1, <3>3, <4>1 DEF SourceInv, ServedSoFar
    <3>4. Priced' = Priced /\ cp' = cp /\ phase' = phase
      BY <2>3 DEF Priced
    <3> QED
      BY <3>2, <3>3, <3>4 DEF ServedSoFar
  <2>6. ProjectionsAreNamed'
    BY <2>3 DEF SourceInv, Stored, ProjectionsAreNamed
  <2> QED
    BY <2>3, <2>4, <2>5, <2>6, CheckpointStands
<1>2. CASE DatasetMoves \/ ViewerFollows
  <2>1. /\ UNCHANGED <<upstream, r2, published, cycle, phase, cursor, attempt, cp, served, faults>>
        /\ hub' \in Generation /\ viewer' \in 1..hub'
    <3>1. hub \in 1..MaxGeneration /\ viewer \in 1..hub /\ MaxGeneration \in Nat
      BY SourceAssumption DEF SourceInv, Typed, Generation
    <3>2. \/ hub < MaxGeneration /\ hub' = hub + 1 /\ viewer' = viewer
          \/ viewer < hub /\ viewer' = hub /\ hub' = hub
      BY <1>2 DEF DatasetMoves, ViewerFollows
    <3>3. hub' \in Generation /\ viewer' \in 1..hub'
      BY <3>1, <3>2 DEF Generation
    <3> QED
      BY <1>2, <3>3 DEF DatasetMoves, ViewerFollows
  <2>2. Typed' /\ ServedSoFar' /\ ProjectionsAreNamed'
    BY <2>1 DEF SourceInv, Typed, ServedSoFar, Priced, Stored, ProjectionsAreNamed
  <2> QED
    BY <2>1, <2>2, CheckpointStands
<1> QED
  BY <1>1, <1>2

LEMMA SourceStepKeeps == SourceInv /\ [SourceNext]_sourceVars => SourceInv'
<1> SUFFICES ASSUME SourceInv, [SourceNext]_sourceVars PROVE SourceInv'
  OBVIOUS
<1>1. CASE UNCHANGED sourceVars
  <2>1. UNCHANGED <<upstream, hub, viewer, r2, published, cycle, phase, cursor, attempt, cp, served, faults>>
    BY <1>1 DEF sourceVars
  <2>2. Typed' /\ ServedSoFar' /\ ProjectionsAreNamed'
    BY <2>1 DEF SourceInv, Typed, ServedSoFar, Priced, Stored, ProjectionsAreNamed
  <2> QED
    BY <2>1, <2>2, CheckpointStands
<1>2. CASE StartCycle
  BY <1>2, StartKeeps
<1>3. CASE SourceStep
  BY <1>3, RetrieveBenchLmKeeps, AssembleKeeps, FailuresKeep, RetrieveLiteLlmKeeps, RetrieveRevisionKeeps,
     ViewerPageKeeps, ViewerFailsKeeps, ResolveParquetKeeps, DownloadParquetKeeps, NormalizeSourceKeeps,
     PublishKeeps DEF SourceStep
<1>4. CASE RequestFails
  BY <1>4, FailuresKeep
<1>5. CASE (\E a \in Artifacts : UpstreamPublishes(a)) \/ DatasetMoves \/ ViewerFollows
  BY <1>5, UpstreamKeeps
<1> QED
  BY <1>1, <1>2, <1>3, <1>4, <1>5 DEF SourceNext
---------------------------------------------------------------------------
(* The invariant itself: whatever upstreams serve and whatever is lost, the   *)
(* checkpoint remembers what the steps of its phase have done.                *)
THEOREM SourceInvariance == SourceSpec => []SourceInv
<1>1. SourceInit => SourceInv
  BY SourceInitially
<1>2. SourceInv /\ [SourceNext]_sourceVars => SourceInv'
  BY SourceStepKeeps
<1> QED
  BY <1>1, <1>2, PTL DEF SourceSpec

(* BenchLM artifacts that were generated at different times never reach a   *)
(* bundle or the published revision, however the cycles and the 304s fall   *)
(* (source-steps.ts:610-622).                                               *)
THEOREM NeverMixed == SourceSpec => []NeverTorn
<1>1. SourceInv => NeverTorn
  BY DEF SourceInv, Torn, Bundled, NeverTorn
<1> QED
  BY <1>1, SourceInvariance, PTL

(* A candidate is made of all pages of all subsets in one dataset revision, *)
(* each partition once, and of objects that exist and that their source     *)
(* served during the cycle (coordinator.ts:390-424, 840-902).               *)
THEOREM CandidateAlwaysWhole == SourceSpec => []CandidateIsWhole
<1>1. SourceInv => SourceTypeOK
  <2> SUFFICES ASSUME SourceInv PROVE SourceTypeOK
    OBVIOUS
  <2>1. cp.progress \in ProgressRecord /\ cursor \in Nat \ {0} /\ Len(Worklist) \in Nat /\ Len(BenchLm) \in Nat
    BY CheckpointIs, WorklistIs, Names DEF SourceInv, Typed
  <2>2. cursor \in 1..Len(Worklist) + Len(BenchLm)
    BY <2>1 DEF SourceInv, CursorInRange
  <2> QED
    BY <2>1, <2>2 DEF SourceInv, Typed, SourceTypeOK, ProgressRecord, Generation
<1>2. SourceInv => EvidenceExists
  BY DEF SourceInv, Stored, OfOneCycle, ProjectionsAreNamed, Bundled, Priced, EvidenceExists
<1>3. SourceInv => RetrievedWasServed
  <2> SUFFICES ASSUME SourceInv, phase # "idle", NEW d \in Range(cp.benchLm) \cup Priced
               PROVE  d.key.bytes.gen \in served[d.art]
    BY DEF RetrievedWasServed, Priced
  <2>1. d.art \in Artifacts /\ d \in Kept
    BY CheckpointIs, Names DEF SourceInv, Kept
  <2> QED
    BY <2>1 DEF SourceInv, RecordsAreGenuine, Genuine, ServedSoFar
<1>4. SourceInv => PagesAreWhole
  BY DEF SourceInv, PagesSoFar, PagesRead, PagesAreWhole
<1>5. SourceInv => NormalizedOnce
  <2> SUFFICES ASSUME SourceInv, phase = "publish"
               PROVE  /\ [i \in DOMAIN cp.normalized |-> cp.normalized[i].bytes.index] = [i \in 1..Len(Worklist) |-> i]
                      /\ \A d \in Candidate : d.key \in r2
    BY DEF NormalizedOnce
  <2>1. \A d \in Candidate : d.key \in r2
    BY CandidateIs DEF SourceInv, Stored
  <2>2. /\ DOMAIN cp.normalized = 1..Len(Worklist)
        /\ \A i \in 1..Len(Worklist) : cp.normalized[i].bytes = [index |-> i, sources |-> Worklist[i]]
    BY CheckpointIs DEF SourceInv, PartitionsSoFar
  <2>3. ASSUME NEW i \in 1..Len(Worklist)
        PROVE  cp.normalized[i].bytes.index = i
    <3>1. cp.normalized[i].bytes = [index |-> i, sources |-> Worklist[i]]
      BY <2>2, Zenon
    <3> QED
      BY <3>1
  <2> QED
    BY <2>1, <2>2, <2>3
<1>6. SourceInv => CandidateIsWhole
  BY <1>1, <1>2, <1>3, <1>4, <1>5 DEF CandidateIsWhole, RetrievedIsKept
<1> QED
  BY <1>6, SourceInvariance, PTL

=============================================================================
