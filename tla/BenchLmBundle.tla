--------------------------- MODULE BenchLmBundle ---------------------------
(***************************************************************************)
(* One BenchLM publication on its way to a normalized batch                *)
(* (workers/benchmark-ingest/src/benchlm.ts and                            *)
(* benchlm-public-leaderboard.ts).  Every artifact is projected to its     *)
(* safe fields, stored, and in a later cycle that is answered 304          *)
(* rehydrated from the stored projection; the models, the public           *)
(* leaderboard, the definitions, the prices and the comparisons are then   *)
(* joined into one batch, which is accepted or refused as a whole.         *)
(*                                                                         *)
(* A score is left out unless its absence matters; a name stands for the   *)
(* pair of a name and a creator.                                           *)
(***************************************************************************)
EXTENDS Naturals, FiniteSets, Sequences, FiniteSetsExt, SequencesExt, Functions, Nothing

CONSTANTS
    Publications,  \* the upstream publications of the instance
    Spelling,      \* Spelling[n]: the name n without case and punctuation
    External       \* the category of evidence that is not BenchLM's own

ASSUME NoneIsNoNumber == None \notin Nat \cup {"supported", "estimated", "source_only"}

VARIABLES
    upstream,   \* the publication: one payload per artifact
    held,       \* held[a]: the stored projection of artifact a, or None
    batch,      \* the batch of the last cycle: NoBatch, Failed, or its rows
    firstBatch  \* history: the batch of the cycle that retrieved everything

bundleVars == <<upstream, held, batch, firstBatch>>

Artifacts == {"leaderboard", "models", "pricing", "comparisons", "benchmarks", "public"}
NoBatch == [outcome |-> "none"]
Failed == [outcome |-> "failed"]

---------------------------------------------------------------------------
(* Projection *)

Known(f) == Restrict(f, DOMAIN f \ {External})

ProjectModel(m) == [m EXCEPT !.ranks = Known(@), !.categoryEligible = Known(@)]

\* Slip: only the field of models.json is read.
ItemCount_Upstream(a) == a.counts

(* Only models.json declares the size of the corpus. *)
ItemCount(a) == IF a.itemCount # None THEN a.itemCount ELSE a.counts

ProjectRow(r) ==
    [r EXCEPT !.sourceType = IF @ = "Pending" THEN "Unknown" ELSE @,
              !.evidence = IF @ = None THEN "source_only" ELSE @]

IsPublicDefinition(d) == ~d.prohibited /\ d.category # External

Project(name, a) ==
    CASE name = "models" ->
            [a EXCEPT !.itemCount = ItemCount(a), !.counts = None,
                      !.items = [i \in DOMAIN @ |-> ProjectModel(@[i])]]
      [] name = "public" -> [a EXCEPT !.items = [i \in DOMAIN @ |-> ProjectRow(@[i])]]
      [] name = "benchmarks" -> [a EXCEPT !.items = SelectSeq(@, IsPublicDefinition)]
      [] OTHER -> a

(* A prohibited definition that counts, or a row of another methodology,    *)
(* refuses the artifact.                                                    *)
Refused(name, a) ==
    \/ name = "benchmarks" /\ \E d \in Range(a.items) : d.prohibited /\ d.weight \notin {None, 0}
    \/ name = "public" /\ \E r \in Range(a.items) : r.methodology # a.methodology

---------------------------------------------------------------------------
(* Normalisation *)

ModelKey(source, id) == <<source, id>>
KeyBefore(a, b) == a[2] < b[2]

SafeModel(m) ==
    [m EXCEPT !.sourceType = IF @ = "Pending" THEN "Unknown" ELSE @,
              !.evidence = IF @ = None THEN "source_only" ELSE @]

\* Slip: a row that several models could be is given to one of them.
Candidates_First(models, row) ==
    LET like == {m \in models : Spelling[m.name] = Spelling[row.name]}
    IN IF like = {} THEN {} ELSE {CHOOSE m \in like : TRUE}

(* The models that a row of the public leaderboard may be about. *)
Candidates(models, row) ==
    LET exact == {m \in models : m.name = row.name}
    IN IF exact # {} THEN exact
       ELSE {m \in models : Spelling[m.name] = Spelling[row.name]}

Joins(models, rows) ==
    /\ \A r \in Range(rows) : Cardinality(Candidates(models, r)) = 1
    /\ \A i, j \in DOMAIN rows :
          i # j => Candidates(models, rows[i]) # Candidates(models, rows[j])

RowOf(models, rows, m) == {r \in Range(rows) : Candidates(models, r) = {m}}

(* The published ranks of a category, as many as models carry one. *)
Ranked(models, c) == {m \in models : c \in DOMAIN m.ranks /\ m.ranks[c] \notin {None, 0}}

\* Slip: the field is the models that carry a rank, dense or not.
FieldSize_Counted(models, declared, c) ==
    IF declared = Cardinality(models) /\ Ranked(models, c) # {}
    THEN Cardinality(Ranked(models, c)) ELSE None

(* The size of a category's field, when the corpus is complete and its      *)
(* ranks are dense.                                                         *)
FieldSize(models, declared, c) ==
    LET ranked == Ranked(models, c)
        ranks == {m.ranks[c] : m \in ranked}
    IN IF /\ declared = Cardinality(models) /\ ranked # {}
          /\ ranks = 1..Cardinality(ranked)
       THEN Cardinality(ranked)
       ELSE None

CategoryRank(m, c) == IF c \in DOMAIN m.ranks /\ m.ranks[c] # 0 THEN m.ranks[c] ELSE None

OverallMetric(m, row) ==
    [model |-> ModelKey("benchlm", m.id), key |-> "overall", category |-> "overall",
     source |-> "benchlm", artifact |-> <<"public">>, rank |-> row.rank, size |-> None,
     eligible |-> m.evidence = "supported" /\ m.eligible /\ row.evidence = "supported"]

CategoryMetric(m, row, c, size) ==
    [model |-> ModelKey("benchlm", m.id), key |-> c, category |-> c,
     source |-> "benchlm", artifact |-> <<"public">>, rank |-> CategoryRank(m, c), size |-> size,
     eligible |-> /\ m.evidence = "supported" /\ row.evidence = "supported"
                  /\ c \in DOMAIN m.categoryEligible /\ m.categoryEligible[c]]

Metrics(models, rows, safe, declared) ==
    UNION {{OverallMetric(m, row)} \cup
           {CategoryMetric(m, row, c, FieldSize(models, declared, c)) :
               c \in {c \in safe \cap DOMAIN row.scores : row.scores[c] # None}}
           : <<m, row>> \in {<<m, r>> \in models \X Range(rows) : Candidates(models, r) = {m}}}

\* Slip: the eligibility of models.json is taken for the public one.
BenchmarkModel_Unjoined(m, models, rows, metrics) ==
    LET joined == Cardinality({x \in metrics : x.model = ModelKey("benchlm", m.id)})
    IN [key |-> ModelKey("benchlm", m.id), slug |-> m.slug, name |-> m.name,
        source |-> "benchlm", id |-> m.id, artifact |-> <<"models">>, evidence |-> m.evidence,
        eligible |-> m.evidence = "supported" /\ m.eligible,
        count |-> Min({m.trusted, joined})]

BenchmarkModel(m, models, rows, metrics) ==
    LET joined == Cardinality({x \in metrics : x.model = ModelKey("benchlm", m.id)})
    IN [key |-> ModelKey("benchlm", m.id), slug |-> m.slug, name |-> m.name,
        source |-> "benchlm", id |-> m.id, artifact |-> <<"models">>, evidence |-> m.evidence,
        eligible |-> /\ m.evidence = "supported" /\ m.eligible
                     /\ \E row \in RowOf(models, rows, m) : row.evidence = "supported",
        count |-> Min({m.trusted, joined})]

(* A rate of 0 for open weights says that nobody publishes one. *)
HostedRate(rate, sourceType) == IF rate = 0 /\ sourceType = "Open Weight" THEN None ELSE rate

PriceChecks(models, items) ==
    {p \in {[at |-> i, model |-> ModelKey("benchlm", m.id), source |-> "benchlm",
             route |-> <<"benchlm", m.id>>, artifact |-> <<"pricing">>,
             input |-> HostedRate(items[i].input, m.sourceType),
             output |-> HostedRate(items[i].output, m.sourceType)]
            : <<i, m>> \in {<<i, m>> \in (DOMAIN items) \X models : m.id = items[i].id}}
     : ~(p.input = None /\ p.output = None)}

(* Each unordered pair once, in the canonical order, at its first place. *)
ComparisonSeeds(models, items) ==
    LET known == {m.id : m \in models}
        pair(i) == {items[i].a, items[i].b}
        places == {i \in DOMAIN items : Cardinality(pair(i)) = 2 /\ pair(i) \subseteq known}
        slug(id) == (CHOOSE m \in models : m.id = id).slug
    IN {[slug |-> slug(Min(pair(i))) \o <<"vs">> \o slug(Max(pair(i))),
         modelA |-> ModelKey("benchlm", Min(pair(i))), modelB |-> ModelKey("benchlm", Max(pair(i))),
         featuredRank |-> i]
        : i \in {i \in places : \A j \in places : pair(j) = pair(i) => i <= j}}

(* validateNormalizedSourceBatch: the rows are distinct and refer to each   *)
(* other.                                                                   *)
Validates(b) ==
    LET models == Range(b.models)
        keys == {m.key : m \in models}
        slugs(p) == LET a == CHOOSE m \in models : m.key = p.modelA
                        z == CHOOSE m \in models : m.key = p.modelB
                    IN a.slug \o <<"vs">> \o z.slug
    IN /\ Len(b.models) = Cardinality(keys)
       /\ IsInjective([m \in models |-> m.slug])
       /\ IsInjective([x \in b.metrics |-> <<x.model, x.key>>])
       /\ \A x \in b.metrics : x.rank # None /\ x.size # None => x.rank <= x.size
       /\ IsInjective([p \in b.prices |-> <<p.model, p.source, p.route>>])
       /\ \A x \in b.metrics \cup b.prices : x.model \in keys
       /\ \A p \in b.seeds : {p.modelA, p.modelB} \subseteq keys /\ p.slug = slugs(p)
       /\ IsInjective([p \in b.seeds |-> p.slug])
       /\ IsInjective([p \in b.seeds |-> <<p.modelA, p.modelB>>])

\* Slip: the rows are not validated.
Accepted_Blind(b) == b

Accepted(b) == IF Validates(b) THEN b ELSE Failed

(* parseBenchLm.  The public leaderboard has a date of its own; all the      *)
(* other artifacts must be of one publication.                               *)
ParseBenchLm(a) ==
    LET items == a["models"].items
        models == {SafeModel(items[i]) : i \in DOMAIN items}
        rows == a["public"].items
        safe == {d.category : d \in Range(SelectSeq(a["benchmarks"].items, IsPublicDefinition))}
        metrics == Metrics(models, rows, safe, ItemCount(a["models"]))
    IN IF \/ \E n \in Artifacts \ {"public"} : a[n].generatedAt # a["leaderboard"].generatedAt
          \/ Cardinality({items[i].id : i \in DOMAIN items}) # Len(items)
          \/ ~Joins(models, rows)
       THEN Failed
       ELSE Accepted([outcome |-> "batch",
                      models |-> [i \in DOMAIN items |->
                                     BenchmarkModel(SafeModel(items[i]), models, rows, metrics)],
                      metrics |-> metrics,
                      prices |-> PriceChecks(models, a["pricing"].items),
                      seeds |-> ComparisonSeeds(models, a["comparisons"].items)])

---------------------------------------------------------------------------

BundleInit ==
    /\ upstream \in Publications
    /\ held = [n \in Artifacts |-> None]
    /\ batch = NoBatch /\ firstBatch = NoBatch

(* ACTION prepareBenchLmMixed, parseBenchLm: every artifact is retrieved,    *)
(* or those of S are answered 304 and rehydrated; a stored projection must   *)
(* be its own projection.                                                    *)
Normalize(S) ==
    /\ IF \/ \E n \in Artifacts \ S : Refused(n, upstream[n])
          \/ \E n \in S : Refused(n, held[n]) \/ Project(n, held[n]) # held[n]
       THEN batch' = Failed /\ UNCHANGED held
       ELSE /\ held' = [n \in Artifacts |-> IF n \in S THEN held[n] ELSE Project(n, upstream[n])]
            /\ batch' = ParseBenchLm(held')
    /\ UNCHANGED upstream

(* A cycle that fails leaves nothing to reuse. *)
FirstCycle == batch = NoBatch /\ Normalize({}) /\ firstBatch' = batch'

NextCycle ==
    /\ firstBatch \notin {NoBatch, Failed}
    /\ \E S \in {{n} : n \in Artifacts} \cup {Artifacts} : Normalize(S)
    /\ UNCHANGED firstBatch

BundleNext == FirstCycle \/ NextCycle
BundleSpec == BundleInit /\ [][BundleNext]_bundleVars

---------------------------------------------------------------------------
(* Properties *)

BundleTypeOK ==
    /\ DOMAIN held = Artifacts
    /\ batch \in {NoBatch, Failed} \/ (batch.outcome = "batch" /\ Validates(batch))

(* A cycle that rehydrates stored projections comes to the batch of the      *)
(* cycle that retrieved the artifacts, whichever of them are reused: nothing *)
(* that normalisation needs is lost in a projection, and a projection is     *)
(* its own projection.                                                       *)
ReuseChangesNothing == firstBatch # NoBatch => batch = firstBatch

(* A batch is refused for what BenchLM published: a name that joins no model *)
(* or several, a model, a slug or a price twice, two dates, a prohibited     *)
(* definition, a row of another methodology.  The ranks, the field sizes and *)
(* the pairs that the normaliser derives never get it refused.               *)
RefusedForACause ==
    batch = Failed =>
        LET rows == upstream["public"].items
            items == upstream["models"].items
            prices == upstream["pricing"].items
            clash(f(_)) == \E i, j \in DOMAIN items : i # j /\ f(items[i]) = f(items[j])
        IN \/ \E n \in Artifacts : Refused(n, upstream[n])
           \/ \E n \in Artifacts \ {"public"} :
                 upstream[n].generatedAt # upstream["leaderboard"].generatedAt
           \/ \E r \in Range(rows) :
                 Cardinality({i \in DOMAIN items : Spelling[items[i].name] = Spelling[r.name]}) # 1
           \/ \E i, j \in DOMAIN rows : i # j /\ Spelling[rows[i].name] = Spelling[rows[j].name]
           \/ clash(LAMBDA m : m.id) \/ clash(LAMBDA m : m.slug)
           \/ \E i, j \in DOMAIN prices : i # j /\ prices[i].id = prices[j].id

(* A row never goes to one of several models that could be meant: the model  *)
(* of every overall metric is the only one with the name of its row, or the  *)
(* only one spelt like it.                                                   *)
NobodyGuessed ==
    batch \notin {NoBatch, Failed} =>
        \A x \in batch.metrics :
            x.key = "overall" =>
                \E r \in Range(upstream["public"].items) :
                    LET items == Range(upstream["models"].items)
                        named == {m \in items : m.name = r.name}
                        spelt == {m \in items : Spelling[m.name] = Spelling[r.name]}
                    IN x.rank = r.rank
                       /\ {x.model[2]} = {m.id : m \in IF named # {} THEN named ELSE spelt}

(* A model that may be ranked has an overall metric that may be ranked, with *)
(* its rank: the pages that list the eligible models find their scores.      *)
EligibleIsRanked ==
    batch \notin {NoBatch, Failed} =>
        \A m \in Range(batch.models) :
            m.eligible <=> \E x \in batch.metrics :
                              x.model = m.key /\ x.key = "overall" /\ x.eligible

(* A BenchLM batch says what was published, of the model it was said of,        *)
(* whichever artifacts were reused, and is refused only for what was published. *)
BatchIsFaithful ==
    /\ BundleTypeOK
    /\ ReuseChangesNothing
    /\ RefusedForACause
    /\ NobodyGuessed
    /\ EligibleIsRanked
=============================================================================
