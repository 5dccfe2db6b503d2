--------------------------- MODULE CandidateFacts ---------------------------
(***************************************************************************)
(* From the retrieved artifacts of one cycle to the facts of a candidate   *)
(* revision (workers/benchmark-ingest/src/lmarena.ts, litellm.ts,          *)
(* openrouter-normalization.ts, normalized-merge.ts,                       *)
(* comparison-derivation.ts, candidate-derivation.ts).  Every source is    *)
(* normalized into a partition of its own, in the order of the work list:  *)
(* BenchLM, LiteLLM, the frozen catalog, then the LMArena pages.  The      *)
(* partitions are merged, the comparison pairs derived, the rows written   *)
(* in bounded partitions; publication reads them back and rebuilds the     *)
(* public leaderboard from them.                                           *)
(***************************************************************************)
EXTENDS BenchLmBundle

CONSTANTS
    Followed,       \* the publications that the instance takes past the batch
    Documents,      \* the LiteLLM documents: sequences of entries
    Catalogs,       \* the frozen catalogs: sequences of offers
    Subsets,        \* the LMArena subsets, in the order of retrieval
    SubsetOrder,    \* SubsetOrder[s]: the place of s in binary order
    PageRows,       \* what one LMArena page may hold: sequences of rows
    PageLength,     \* rows of a full page
    Allowlist,      \* slugs of the editorial pairs
    MaxRows,        \* rows of one derived partition
    MaxPartitions,  \* derived partitions of one candidate
    PopularLimit,   \* size of the weekly list
    Absent          \* a field that a document does not have

ASSUME SizesArePositive == {PageLength, MaxRows, MaxPartitions, PopularLimit} \subseteq Nat \ {0}

VARIABLES
    work,      \* the artifacts that wait to be normalized, in order
    batches,   \* the normalized partitions
    derived,   \* the derived partitions: NoBatch, Failed or their sequence
    snapshot   \* the facts as publication reads them back

factVars == <<upstream, held, batch, firstBatch, work, batches, derived, snapshot>>

Kinds == <<"sources", "models", "metrics", "prices", "comparisons">>

(* The rows of a set, in some order. *)
AnyOrder(rows) == FoldSet(LAMBDA row, others : Append(others, row), <<>>, rows)

---------------------------------------------------------------------------
(* LMArena *)

PageArtifact(page) == <<page.subset, page.offset>>

(* The rows belong to the page that the descriptor names. *)
PageIsAccepted(page) ==
    LET rows == page.rows
    IN /\ rows # <<>>
       /\ \A r \in Range(rows) : /\ r.idx \in page.offset..(page.offset + PageLength - 1)
                                 /\ ~r.truncated /\ r.category = "overall"
       /\ \A i, j \in DOMAIN rows : i # j => rows[i].idx # rows[j].idx

(* A name that the page gives to two rows identifies neither. *)
Unambiguous(rows) ==
    SelectSeq(rows, LAMBDA r : Cardinality({i \in DOMAIN rows : rows[i].name = r.name}) = 1)

SourceModel(source, id, artifact, eligible, count) ==
    [key |-> ModelKey(source, id), slug |-> <<"source", source, id>>, name |-> id, source |-> source,
     id |-> id, artifact |-> artifact, evidence |-> "source_only", eligible |-> eligible, count |-> count]

ParseLmArena(page) ==
    LET rows == Unambiguous(page.rows)
        artifact == PageArtifact(page)
    IN IF ~PageIsAccepted(page) THEN Failed
       ELSE Accepted([outcome |-> "batch",
                      models |-> [i \in DOMAIN rows |->
                                     SourceModel("lmarena", rows[i].name, artifact, TRUE, 1)],
                      metrics |-> {[model |-> ModelKey("lmarena", r.name), key |-> page.subset,
                                    category |-> r.category, source |-> "lmarena",
                                    artifact |-> artifact, rank |-> r.rank, size |-> None,
                                    eligible |-> TRUE] : r \in Range(rows)},
                      prices |-> {}, seeds |-> {}])

---------------------------------------------------------------------------
(* LiteLLM and the frozen catalog *)

(* A limit that is declared unavailable is not replaced by the legacy one. *)
TokenLimit(primary, legacy) ==
    LET read(v) == IF v = Absent THEN Absent ELSE IF v > 0 THEN v ELSE None
    IN IF read(primary) # Absent THEN read(primary)
       ELSE IF read(legacy) # Absent THEN read(legacy) ELSE None

ParseLiteLlm(document) ==
    LET rows == SelectSeq(document, LAMBDA e : e.provider # None)
    IN IF rows = <<>> THEN Failed
       ELSE Accepted([outcome |-> "batch",
                      models |-> [i \in DOMAIN rows |->
                                     SourceModel("litellm", rows[i].id, <<"litellm">>, FALSE, 0)],
                      metrics |-> {},
                      prices |-> {[at |-> i, model |-> ModelKey("litellm", rows[i].id),
                                   source |-> "litellm",
                                   route |-> <<"litellm", rows[i].id, rows[i].provider>>,
                                   artifact |-> <<"litellm">>, input |-> rows[i].input,
                                   output |-> TokenLimit(rows[i].maxOutput, rows[i].maxTokens)]
                                  : i \in DOMAIN rows},
                      seeds |-> {}])

NormalizeCatalog(offers) ==
    Accepted([outcome |-> "batch",
              models |-> [i \in DOMAIN offers |->
                             SourceModel("openrouter", offers[i].id, <<"catalog">>, FALSE, 0)],
              metrics |-> {},
              prices |-> {[at |-> i, model |-> ModelKey("openrouter", offers[i].id),
                           source |-> "openrouter", route |-> <<"openrouter", offers[i].id>>,
                           artifact |-> <<"catalog">>, input |-> offers[i].input, output |-> None]
                          : i \in DOMAIN offers},
              seeds |-> {}])

---------------------------------------------------------------------------
(* Merge *)

Priority == [benchlm |-> 0, lmarena |-> 1, openrouter |-> 2, litellm |-> 3]

ArtifactBefore(a, b) ==
    \/ SubsetOrder[a[1]] < SubsetOrder[b[1]]
    \/ a[1] = b[1] /\ a[2] < b[2]

Supersedes(m, old) ==
    \/ Priority[m.source] < Priority[old.source]
    \/ m.source = "lmarena" /\ old.source = "lmarena" /\ ArtifactBefore(m.artifact, old.artifact)

(* One record per key.  A record that supersedes another one does not take  *)
(* over what that one has counted.                                          *)
Absorb(known, m) ==
    IF m.key \notin DOMAIN known \/ Supersedes(m, known[m.key])
    THEN [k \in DOMAIN known \cup {m.key} |-> IF k = m.key THEN m ELSE known[k]]
    ELSE IF m.source = known[m.key].source /\ m.id = known[m.key].id
         THEN [known EXCEPT ![m.key].count = @ + m.count]
         ELSE known

EmptyMap == [k \in {} |-> None]

MergedModels(bs) == FoldLeft(Absorb, EmptyMap, FlattenSeq([i \in DOMAIN bs |-> bs[i].models]))

\* Slip: a model that two LMArena subsets list is taken over twice.
Merge_Listed(bs) ==
    LET all(field) == UNION {bs[i][field] : i \in DOMAIN bs}
    IN Accepted([outcome |-> "batch",
                 models |-> FlattenSeq([i \in DOMAIN bs |-> bs[i].models]),
                 metrics |-> all("metrics"), prices |-> all("prices"), seeds |-> all("seeds")])

Merge(bs) ==
    LET models == MergedModels(bs)
        all(field) == UNION {bs[i][field] : i \in DOMAIN bs}
    IN Accepted([outcome |-> "batch",
                 models |-> AnyOrder(Range(models)),
                 metrics |-> all("metrics"), prices |-> all("prices"), seeds |-> all("seeds")])

---------------------------------------------------------------------------
(* Comparison pairs *)

\* Slip: a slug is cut at its first separator only.
Readings_First(models, slug) ==
    {<<a, b>> \in models \X models :
        a.key # b.key /\ \E i \in DOMAIN slug :
            /\ slug[i] = "vs" /\ \A j \in 1..(i - 1) : slug[j] # "vs"
            /\ a.slug = SubSeq(slug, 1, i - 1) /\ b.slug = SubSeq(slug, i + 1, Len(slug))}

(* Every way to read a pair's slug as two slugs of different models. *)
Readings(models, slug) ==
    {<<a, b>> \in models \X models :
        a.key # b.key /\ \E i \in DOMAIN slug :
            /\ slug[i] = "vs"
            /\ a.slug = SubSeq(slug, 1, i - 1) /\ b.slug = SubSeq(slug, i + 1, Len(slug))}

Resolves(models, slug, a, b) == Readings(models, slug) = {<<a, b>>}

EditorialSeeds(models) ==
    {[slug |-> a.slug \o <<"vs">> \o b.slug, modelA |-> a.key, modelB |-> b.key, featuredRank |-> None]
     : <<a, b>> \in {<<a, b>> \in models \X models :
          /\ a.key # b.key /\ a.source = b.source /\ KeyBefore(a.key, b.key)
          /\ \E pair \in Range(Allowlist) : {a.slug, b.slug} = {pair[1], pair[2]}}}

SafeCategories(metrics, m) ==
    {x.category : x \in {x \in metrics : /\ x.model = m.key /\ x.source = "benchlm"
                                         /\ x.key # "overall" /\ x.eligible}}

HasOverall(metrics, m) ==
    \E x \in metrics : x.model = m.key /\ x.source = "benchlm" /\ x.key = "overall" /\ x.eligible

PairOf(seed, models, metrics) ==
    LET a == CHOOSE m \in models : m.key = seed.modelA
        b == CHOOSE m \in models : m.key = seed.modelB
        shared == Cardinality(SafeCategories(metrics, a) \cap SafeCategories(metrics, b))
        quality == /\ \A m \in {a, b} : /\ m.evidence = "supported" /\ m.eligible
                                        /\ HasOverall(metrics, m)
                   /\ shared >= 2
    IN [slug |-> seed.slug, modelA |-> a.key, modelB |-> b.key, featuredRank |-> seed.featuredRank,
        shared |-> shared, indexable |-> quality /\ Resolves(models, seed.slug, a, b)]

(* The editorial record of a pair replaces that of BenchLM. *)
ComparisonPairs(b) ==
    LET models == Range(b.models)
        editorial == EditorialSeeds(models)
        seeds == editorial \cup {s \in b.seeds : \A e \in editorial :
                                     <<e.modelA, e.modelB>> # <<s.modelA, s.modelB>>}
    IN {PairOf(s, models, b.metrics) : s \in seeds}

---------------------------------------------------------------------------
(* Derived partitions *)

SourcesOf(b) ==
    {<<x.source, x.artifact>> : x \in Range(b.models) \cup b.metrics \cup b.prices}

RowsByKind(b) ==
    [sources |-> AnyOrder(SourcesOf(b)), models |-> b.models, metrics |-> AnyOrder(b.metrics),
     prices |-> AnyOrder(b.prices), comparisons |-> AnyOrder(ComparisonPairs(b))]

\* Slip: the last rows are written only when they fill a partition.
Chunks_Full(kind, rows) ==
    [i \in 1..(Len(rows) \div MaxRows) |->
        [kind |-> kind, index |-> i - 1, rows |-> SubSeq(rows, (i - 1) * MaxRows + 1, i * MaxRows)]]

Chunks(kind, rows) ==
    [i \in 1..((Len(rows) + MaxRows - 1) \div MaxRows) |->
        [kind |-> kind, index |-> i - 1,
         rows |-> SubSeq(rows, (i - 1) * MaxRows + 1, Min({i * MaxRows, Len(rows)}))]]

Partitions(b) ==
    LET rows == RowsByKind(b)
    IN FlattenSeq([k \in DOMAIN Kinds |-> Chunks(Kinds[k], rows[Kinds[k]])])

RowsRead(partitions, kind) ==
    FlattenSeq([i \in DOMAIN partitions |->
                   IF partitions[i].kind = kind THEN partitions[i].rows ELSE <<>>])

ReadSnapshot(partitions) ==
    [models |-> RowsRead(partitions, "models"),
     metrics |-> Range(RowsRead(partitions, "metrics")),
     prices |-> Range(RowsRead(partitions, "prices")),
     comparisons |-> Range(RowsRead(partitions, "comparisons"))]

---------------------------------------------------------------------------
(* The public leaderboard of a snapshot, and the weekly list *)

OverallRows(s) == {x \in s.metrics : /\ x.source = "benchlm" /\ x.artifact = <<"public">>
                                     /\ x.category = "overall"}

NameOf(s, key) == (CHOOSE m \in Range(s.models) : m.key = key).name

(* The row of a metric finds its model by name again, among the models of   *)
(* every source.                                                            *)
Rejoined(s, x) == Candidates(Range(s.models), [name |-> NameOf(s, x.model)])

\* Slip: two models of one rank are taken for a repeated row.
CanRejoin_Ranks(s) ==
    /\ \A x \in OverallRows(s) : x.rank # None /\ Cardinality(Rejoined(s, x)) = 1
    /\ IsInjective([x \in OverallRows(s) |-> x.rank])

CanRejoin(s) ==
    /\ \A x \in OverallRows(s) : x.rank # None /\ Cardinality(Rejoined(s, x)) = 1
    /\ IsInjective([x \in OverallRows(s) |-> x.model])

\* Slip: the first rows of the leaderboard, whatever their ranks.
PopularRanks_Rows(s) == {[rank |-> x.rank, model |-> x.model] : x \in OverallRows(s)}

(* One model per rank, the smallest key first. *)
PopularRanks(s) ==
    LET rows == {x \in OverallRows(s) : x.rank \in 1..PopularLimit}
    IN {[rank |-> x.rank, model |-> x.model] :
           x \in {x \in rows : \A y \in rows : y.rank = x.rank /\ y # x => KeyBefore(x.model, y.model)}}

---------------------------------------------------------------------------
(* Actions *)

IsDerived == derived.outcome = "derived"

Page(i) == <<"page", Subsets[(i + 1) \div 2], IF i % 2 = 1 THEN 0 ELSE PageLength>>

FactInit ==
    /\ BundleInit
    /\ work = <<<<"benchlm">>, <<"litellm">>, <<"openrouter">>>>
              \o [i \in 1..(2 * Len(Subsets)) |-> Page(i)]
    /\ batches = <<>> /\ derived = NoBatch /\ snapshot = None

Normalized(b) ==
    /\ IF b = Failed THEN derived' = Failed /\ UNCHANGED <<work, batches>>
       ELSE /\ batches' = Append(batches, b) /\ work' = Tail(work)
            /\ UNCHANGED derived
    /\ UNCHANGED <<upstream, held, batch, firstBatch, snapshot>>

Waiting(source) == derived = NoBatch /\ work # <<>> /\ Head(work)[1] = source

NormalizeBenchLm == Waiting("benchlm") /\ upstream \in Followed /\ batch # NoBatch /\ Normalized(batch)

NormalizeLiteLlm == Waiting("litellm") /\ \E d \in Documents : Normalized(ParseLiteLlm(d))

NormalizeOpenRouter == Waiting("openrouter") /\ \E c \in Catalogs : Normalized(NormalizeCatalog(c))

(* Two pages of every subset; the second one may not exist. *)
NormalizeLmArena ==
    /\ Waiting("page")
    /\ LET subset == Head(work)[2]
           offset == Head(work)[3]
       IN \/ \E rows \in PageRows :
                Normalized(ParseLmArena([subset |-> subset, offset |-> offset,
                    rows |-> [k \in DOMAIN rows |-> [rows[k] EXCEPT !.idx = @ + offset]]]))
          \/ /\ offset > 0 /\ work' = Tail(work)
             /\ UNCHANGED <<upstream, held, batch, firstBatch, batches, derived, snapshot>>

(* ACTION deriveCandidatePartitions *)
Derive ==
    /\ derived = NoBatch /\ work = <<>>
    /\ LET merged == Merge(batches)
       IN derived' = IF merged = Failed \/ Len(Partitions(merged)) > MaxPartitions
                     THEN Failed ELSE [outcome |-> "derived", partitions |-> Partitions(merged)]
    /\ UNCHANGED <<upstream, held, batch, firstBatch, work, batches, snapshot>>

(* ACTION readDerivedCandidateSnapshot *)
ReadBack ==
    /\ IsDerived /\ snapshot = None
    /\ snapshot' = ReadSnapshot(derived.partitions)
    /\ UNCHANGED <<upstream, held, batch, firstBatch, work, batches, derived>>

FactNext ==
    \/ BundleNext /\ UNCHANGED <<work, batches, derived, snapshot>>
    \/ NormalizeBenchLm \/ NormalizeLiteLlm \/ NormalizeOpenRouter \/ NormalizeLmArena
    \/ Derive \/ ReadBack

FactSpec == FactInit /\ [][FactNext]_factVars

---------------------------------------------------------------------------
(* Properties *)

FactTypeOK ==
    /\ \A i \in DOMAIN batches : batches[i].outcome = "batch" /\ Validates(batches[i])
    /\ IsDerived => \A i \in DOMAIN derived.partitions : derived.partitions[i].rows # <<>>
    /\ snapshot # None => IsDerived

(* Partitions that were each accepted are merged, unless LMArena lists one   *)
(* name on two pages of a subset: nothing else that the sources say of each  *)
(* other, no slug, price or pair, stops a candidate.                         *)
MergeRefusesRepeatsOnly ==
    work = <<>> /\ derived = Failed =>
        \/ \E i, j \in DOMAIN batches : i # j /\ \E x \in batches[i].metrics, y \in batches[j].metrics :
              x.model = y.model /\ x.key = y.key /\ x.source = "lmarena"
        \/ Merge(batches) # Failed /\ Len(Partitions(Merge(batches))) > MaxPartitions

(* What publication reads back is the merged batch, complete and once: the   *)
(* model records by key, the metrics, the prices and the pairs.              *)
DerivedIsComplete ==
    snapshot # None =>
        LET merged == Merge(batches)
        IN /\ Len(snapshot.models) = Cardinality(DOMAIN MergedModels(batches))
           /\ Range(snapshot.models) = Range(merged.models)
           /\ snapshot.metrics = merged.metrics /\ snapshot.prices = merged.prices
           /\ snapshot.comparisons = ComparisonPairs(merged)

(* An indexable pair has an address that leads back to it: its slug can be   *)
(* read in one way only, as its own two models, and no other pair shares it. *)
PairsHaveAddresses ==
    snapshot # None =>
        \A p \in snapshot.comparisons : p.indexable =>
            /\ {<<a.key, b.key>> : <<a, b>> \in
                  {<<a, b>> \in Range(snapshot.models) \X Range(snapshot.models) :
                       a # b /\ a.slug \o <<"vs">> \o b.slug = p.slug}} = {<<p.modelA, p.modelB>>}
            /\ \A q \in snapshot.comparisons : q.slug = p.slug => q = p

(* The weekly list is what the public leaderboard of this very publication   *)
(* says: a model has the rank of its row, no rank and no model comes twice,  *)
(* and only a rank that another model shares is left out.                    *)
WeeklyListIsPublic ==
    snapshot # None =>
        LET published == {[rank |-> x.rank, model |-> x.model] :
                             x \in {x \in batch.metrics : x.key = "overall"}}
            list == PopularRanks(snapshot)
        IN /\ list \subseteq published
           /\ IsInjective([e \in list |-> e.rank]) /\ IsInjective([e \in list |-> e.model])
           /\ \A e \in published : e.rank \in 1..PopularLimit => \E f \in list : f.rank = e.rank

(* Publication finds the models of the leaderboard again by name, unless     *)
(* another source has a model of exactly the same name.                      *)
LeaderboardRejoins ==
    snapshot # None /\ ~CanRejoin(snapshot) =>
        \E m, n \in Range(snapshot.models) : m.source = "benchlm" /\ n.source # "benchlm" /\ m.name = n.name

(* The facts of a candidate are those of its batches, complete, addressable and *)
(* ranked as the public leaderboard ranks them; the batches are faithful.       *)
FactsAreWhole ==
    /\ BatchIsFaithful
    /\ FactTypeOK
    /\ MergeRefusesRepeatsOnly
    /\ DerivedIsComplete
    /\ PairsHaveAddresses
    /\ WeeklyListIsPublic
    /\ LeaderboardRejoins
=============================================================================
