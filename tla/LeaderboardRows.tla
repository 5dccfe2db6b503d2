--------------------------- MODULE LeaderboardRows ---------------------------
(***************************************************************************)
(* The rows of a leaderboard, from the facts of a revision to the page:    *)
(* buildLeaderboard and materializeLeaderboard make the stored projection, *)
(* parseCompleteLeaderboardProjection reads it back, the filters and the   *)
(* pages of the API cut it (benchmarks/leaderboard-query.ts), and the page *)
(* accepts or drops the answer (isLeaderboardEnvelope).  Three programs    *)
(* decide separately what a row may be, and one row that the next program  *)
(* does not know makes the whole board unavailable.                        *)
(*                                                                         *)
(* A model's id is its key and its place in the order of slugs.  Prices    *)
(* are integers, and a cost counts in twentieths of a dollar, so that the  *)
(* three workload profiles are exact.                                      *)
(***************************************************************************)
EXTENDS Naturals, Sequences, SequencesExt, FiniteSets, Nothing

CONSTANTS
    Facts,    \* the facts that a revision may hold: models, metrics, prices
    Top,      \* more than every score, rank, cost and context window
    Limit     \* rows of a page

VARIABLES facts, view, projection, query, rows, page

rowVars == <<facts, view, projection, query, rows, page>>

---------------------------------------------------------------------------
(* The routes.  The other BenchLM and LMArena boards repeat these kinds.    *)

Definition ==
    [overall    |-> [kind |-> "benchlm", source |-> "benchlm", metrics |-> <<"overall">>, sort |-> "score-desc"],
     reasoning  |-> [kind |-> "benchlm", source |-> "benchlm", metrics |-> <<"reasoning">>, sort |-> "score-desc"],
     preference |-> [kind |-> "lmarena", source |-> "lmarena", metrics |-> <<"text">>, sort |-> "rank-asc"],
     value      |-> [kind |-> "value", source |-> "benchlm", metrics |-> <<"overall">>, sort |-> "pareto-score-desc"],
     pricing    |-> [kind |-> "pricing-context", source |-> "openrouter", metrics |-> <<>>, sort |-> "price-asc"],
     multimodal |-> [kind |-> "multimodal", source |-> None, metrics |-> <<"grounded", "vision">>, sort |-> "score-desc"]]

Routes == DOMAIN Definition
SourceOf(metricKey) == IF metricKey \in {"text", "vision"} THEN "lmarena" ELSE "benchlm"
Lenses == {"reasoning"}      \* and knowledge: scored without being ranked

Profiled(route) == Definition[route].kind \in {"value", "pricing-context"}
Estimable(route) == Definition[route].source = "benchlm" \/ Definition[route].kind = "multimodal"

(* Shares of input and output, in twentieths. *)
Share == [inputHeavy |-> <<18, 2>>, balanced |-> <<15, 5>>, outputHeavy |-> <<10, 10>>]

Cost(price, profile) == Share[profile][1] * price.input + Share[profile][2] * price.output

---------------------------------------------------------------------------
(* Rows from facts *)

IsHosted(price, source) ==
    /\ price.source \in {"openrouter", source} \ {None, "litellm"}
    /\ price.status = "primary"

(* The cheapest hosted route with both sides of its price. *)
HostedPrice(model, profile, source) ==
    LET routes == {p \in facts.prices : p.model = model.id /\ IsHosted(p, source) /\ None \notin {p.input, p.output}}
    IN IF routes = {} THEN None
       ELSE CHOOSE p \in routes : \A q \in routes \ {p} :
                \/ Cost(p, profile) < Cost(q, profile)
                \/ Cost(p, profile) = Cost(q, profile) /\ p.route < q.route

(* Whether a metric ranks its model: of BenchLM, and of LMArena. *)
IsSupported(model, metric) ==
    /\ model.source = "benchlm" /\ model.evidence = "supported"
    /\ metric.key = "overall" => model.eligible
    /\ metric.eligible \/ (metric.key \in Lenses /\ metric.rank = None)

IsArena(model, metric) ==
    /\ model.evidence # "estimated" /\ (model.evidence = "source_only" => model.source = "lmarena")
    /\ metric.eligible /\ metric.rank # None

Ranks(model, metric) ==
    IF SourceOf(metric.key) = "benchlm" THEN IsSupported(model, metric) ELSE IsArena(model, metric)

RankingMetrics(model, keys) ==
    LET of(key) == {m \in facts.metrics : m.model = model.id /\ m.key = key /\ Ranks(model, m)}
        some == SelectSeq(keys, LAMBDA key : of(key) # {})
    IN [i \in DOMAIN some |-> CHOOSE m \in of(some[i]) : TRUE]

RowFrom(model, metrics, price, profile) ==
    [model |-> model, metric |-> IF metrics = <<>> THEN None ELSE Head(metrics), metrics |-> metrics,
     price |-> price, cost |-> IF price = None THEN None ELSE Cost(price, profile),
     context |-> IF price = None THEN model.context ELSE price.context,
     rank |-> IF metrics = <<>> THEN None ELSE Head(metrics).rank, frontier |-> FALSE]

\* Slip: a model that only LMArena knows may be priced.
AllowsPricing_Arena(model) == model.evidence # "estimated"

AllowsPricing(model) ==
    model.evidence # "estimated" /\ ~(model.evidence = "source_only" /\ model.source = "lmarena")

(* The rows of a route without their order; only the value board and the    *)
(* pricing board need a price, and the first and the multimodal boards      *)
(* trust the prices that a model's own source publishes.                    *)
RowOf(route, model, profile) ==
    LET kind == Definition[route].kind
        metrics == RankingMetrics(model, Definition[route].metrics)
        own == IF kind \in {"lmarena", "pricing-context"} THEN None ELSE model.source
        used == IF Profiled(route) THEN profile ELSE "outputHeavy"
        price == HostedPrice(model, used, own)
    IN IF \/ kind = "pricing-context" /\ ~AllowsPricing(model)
          \/ kind # "pricing-context" /\ metrics = <<>>
          \/ Profiled(route) /\ price = None
       THEN {} ELSE {RowFrom(model, metrics, price, used)}

Score(row) == IF row.metric = None THEN None ELSE row.metric.value

\* Slip: equal rows dominate each other.
Dominates_Equal(a, b) == Score(a) >= Score(b) /\ a.cost <= b.cost

Dominates(a, b) ==
    Score(a) >= Score(b) /\ a.cost <= b.cost /\ (Score(a) > Score(b) \/ a.cost < b.cost)

(* paretoFrontier: the rows that no other row dominates. *)
Marked(set) ==
    {[row EXCEPT !.frontier = ~\E other \in set \ {row} : Dominates(other, row)] : row \in set}

---------------------------------------------------------------------------
(* Orders: what is missing comes last, and slugs break ties *)

Asc(n) == IF n = None THEN Top ELSE n
Desc(n) == IF n = None THEN Top + 1 ELSE Top - n
Position(key, keys) == IF key \in Range(keys) THEN CHOOSE i \in DOMAIN keys : keys[i] = key ELSE Len(keys) + 1

SortKey(sort, row) ==
    CASE sort = "score-desc"        -> <<Desc(Score(row)), row.model.id>>
      [] sort = "rank-asc"          -> <<Asc(row.rank), row.model.id>>
      [] sort = "price-asc"         -> <<Asc(row.cost), row.model.id>>
      [] sort = "context-desc"      -> <<Desc(row.context), row.model.id>>
      [] sort = "pareto-score-desc" -> <<IF row.frontier THEN 0 ELSE 1, Desc(Score(row)), Asc(row.cost), row.model.id>>
      [] sort = "lenses"            -> <<Position(row.metric.key, Definition.multimodal.metrics),
                                         IF SourceOf(row.metric.key) = "lmarena" THEN Asc(row.rank) ELSE Desc(Score(row)),
                                         row.model.id>>
      [] sort = "slug"              -> <<row.model.id>>

Sorted(set, sort) ==
    SetToSortSeq(set, LAMBDA a, b :
        LET k == SortKey(sort, a) l == SortKey(sort, b)
        IN \E i \in DOMAIN k : k[i] < l[i] /\ \A j \in 1..(i - 1) : k[j] = l[j])

---------------------------------------------------------------------------
(* The projection that is stored *)

IsEstimate(route, model, metric) ==
    /\ model.source = "benchlm" /\ model.evidence = "estimated" /\ ~model.eligible
    /\ metric.model = model.id /\ metric.key \in Range(Definition[route].metrics) /\ SourceOf(metric.key) = "benchlm"
    /\ ~metric.eligible /\ metric.rank = None

Estimates(route) ==
    {RowFrom(model, <<metric>>, None, "balanced") :
        <<model, metric>> \in {mm \in facts.models \X facts.metrics : IsEstimate(route, mm[1], mm[2])}}

Ranked(route, profile) ==
    LET set == UNION {RowOf(route, model, profile) : model \in facts.models}
    IN CASE Definition[route].kind = "value" -> Sorted(Marked(set), Definition[route].sort)
         [] Definition[route].kind = "multimodal" -> Sorted(set, "lenses")
         [] OTHER -> Sorted(set, Definition[route].sort)

Projected(v) ==
    Ranked(v.route, v.profile) \o (IF v.estimated THEN Sorted(Estimates(v.route), "slug") ELSE <<>>)

(* What the site accepts when it reads a projection back. *)
ReadableMetric(v, row, metric) ==
    LET estimated == row.model.evidence = "estimated"
    IN /\ metric.model = row.model.id /\ metric.key \in Range(Definition[v.route].metrics)
       /\ IF SourceOf(metric.key) = "benchlm"
          THEN /\ row.model.source = "benchlm" /\ row.model.evidence \in {"supported", "estimated"}
               /\ IF estimated THEN ~metric.eligible /\ metric.rank = None
                  ELSE metric.eligible \/ (metric.key \in Lenses /\ metric.rank = None)
          ELSE /\ ~estimated /\ metric.eligible /\ metric.rank # None
               /\ row.model.evidence = "source_only" => row.model.source = "lmarena"

ReadablePrice(v, row) ==
    IF row.price = None
    THEN ~Profiled(v.route) /\ row.cost = None /\ row.context = row.model.context
    ELSE /\ row.price.model = row.model.id /\ IsHosted(row.price, row.model.source)
         /\ None \notin {row.price.input, row.price.output}
         /\ row.cost = Cost(row.price, IF Profiled(v.route) THEN v.profile ELSE "outputHeavy")
         /\ row.context = row.price.context

ReadableRow(v, row) ==
    /\ \A i, j \in DOMAIN row.metrics : row.metrics[i].key = row.metrics[j].key => i = j
    /\ \A m \in Range(row.metrics) : ReadableMetric(v, row, m)
    /\ IF row.model.evidence = "estimated"
       THEN /\ Estimable(v.route) /\ ~row.model.eligible /\ row.metrics = <<row.metric>>
            /\ row.price = None /\ row.cost = None /\ row.rank = None /\ ~row.frontier
       ELSE /\ ReadablePrice(v, row)
            /\ IF Definition[v.route].kind = "pricing-context"
               THEN /\ row.metrics = <<>> /\ row.metric = None /\ row.rank = None
                    /\ ~(row.model.evidence = "source_only" /\ row.model.source = "lmarena")
               ELSE row.metrics # <<>> /\ row.metric = Head(row.metrics) /\ row.rank = row.metric.rank
            /\ row.frontier => Definition[v.route].kind = "value"

IsReadable(v, stored) ==
    /\ \A row \in Range(stored.base \o stored.entries) : ReadableRow(v, row)
    /\ LET rest == SubSeq(stored.entries, Len(stored.base) + 1, Len(stored.entries))
       IN /\ IsPrefix(stored.base, stored.entries) /\ (~v.estimated => rest = <<>>)
          /\ \A row \in Range(stored.base) : row.model.evidence # "estimated"
          /\ \A i \in DOMAIN rest : rest[i].model.evidence = "estimated"
                                    /\ (i > 1 => rest[i - 1].model.id < rest[i].model.id)
    /\ \A i, j \in DOMAIN stored.entries : stored.entries[i].model.id = stored.entries[j].model.id => i = j

---------------------------------------------------------------------------
(* Controls, filters and pages *)

NoFilter == [creator |-> None, type |-> None, evidence |-> None, metric |-> None, min |-> None, max |-> None]

(* What a page offers, learnt from the rows of its complete list. *)
Capabilities(v, entries) ==
    LET all == Range(entries)
        costs == {row.cost : row \in all} \ {None}
    IN [creator |-> {row.model.creator : row \in all}, type |-> {row.model.type : row \in all},
        evidence |-> {row.model.evidence : row \in all}, price |-> costs,
        metric |-> Range(Definition[v.route].metrics),
        sort |-> {Definition[v.route].sort}
                 \cup (IF \E row \in all : row.metric # None THEN {"score-desc"} ELSE {})
                 \cup (IF \E row \in all : row.rank # None THEN {"rank-asc"} ELSE {})
                 \cup (IF costs # {} THEN {"price-asc"} ELSE {})
                 \cup (IF \E row \in all : row.context # None THEN {"context-desc"} ELSE {})]

(* The API refuses what the capabilities do not offer. *)
IsAccepted(v, q) ==
    LET offered == Capabilities(v, projection.entries)
    IN /\ \A control \in {"creator", "type", "evidence", "metric"} : q.filter[control] \in {None} \cup offered[control]
       /\ q.sort \in offered.sort
       /\ {q.filter.min, q.filter.max} # {None} => offered.price # {}
       /\ None \notin {q.filter.min, q.filter.max} => q.filter.min <= q.filter.max
       /\ q.filter.evidence = "estimated" => v.estimated

Displayed(v, row) ==
    IF Profiled(v.route) THEN row
    ELSE [row EXCEPT !.cost = IF row.price = None THEN None ELSE Cost(row.price, "outputHeavy")]

\* Slip: the upper bound of the price is left out.
InRange_Below(row, f) ==
    {f.min, f.max} # {None} => row.cost # None /\ (f.min # None => f.min <= row.cost) /\ (f.max # None => row.cost < f.max)

InRange(row, f) ==
    {f.min, f.max} # {None} => row.cost # None /\ (f.min # None => f.min <= row.cost) /\ (f.max # None => row.cost <= f.max)

Matches(row, f) ==
    /\ f.creator \in {None, row.model.creator} /\ f.type \in {None, row.model.type}
    /\ f.evidence \in {None, row.model.evidence}
    /\ InRange(row, f)
    /\ f.metric \in {None} \cup {m.key : m \in Range(row.metrics)}

\* Slip: the multimodal board is sorted like the others.
KeepsOrder_Never(v, q) == FALSE

(* Lenses of different sources are not comparable: they keep their groups. *)
KeepsOrder(v, q) == v.route = "multimodal" /\ q.sort = Definition[v.route].sort

\* Slip: estimates are sorted among the rows that are ranked.
Arranged_Together(v, q, kept) == Sorted(Range(kept), q.sort)

Arranged(v, q, kept) ==
    LET ranked == SelectSeq(kept, LAMBDA row : row.model.evidence # "estimated")
        estimates == {row \in Range(kept) : row.model.evidence = "estimated"}
    IN (IF KeepsOrder(v, q) THEN ranked ELSE Sorted(Range(ranked), q.sort)) \o Sorted(estimates, "slug")

Listed(v, q) ==
    IF q = None THEN projection.entries
    ELSE Arranged(v, q, SelectSeq([i \in DOMAIN projection.entries |-> Displayed(v, projection.entries[i])],
                                  LAMBDA row : Matches(row, q.filter)))

(* Sources that a page names: of the facts it shows, or of the empty board. *)
Attribution(v, entries) ==
    IF entries # <<>>
    THEN UNION {{row.model.source} \cup {SourceOf(m.key) : m \in Range(row.metrics)}
                \cup (IF row.price = None THEN {} ELSE {row.price.source}) : row \in Range(entries)}
    ELSE CASE Definition[v.route].kind = "value" -> {"benchlm", "openrouter"}
           [] Definition[v.route].kind = "multimodal" -> {"benchlm", "lmarena"}
           [] OTHER -> {Definition[v.route].source}

\* Slip: a page begins with the last row of the page before it.
PageRows_Overlapping(list, offset) ==
    SubSeq(list, IF offset = 0 THEN 1 ELSE offset, IF offset + Limit < Len(list) THEN offset + Limit ELSE Len(list))

PageRows(list, offset) == SubSeq(list, offset + 1, IF offset + Limit < Len(list) THEN offset + Limit ELSE Len(list))

PageOf(v, q, offset) ==
    LET list == Listed(v, q)
        entries == PageRows(list, offset)
    IN [entries |-> entries, total |-> Len(list), sources |-> Attribution(v, entries),
        next |-> IF offset + Len(entries) < Len(list) THEN offset + Len(entries) ELSE None]

---------------------------------------------------------------------------
(* What the page in the browser accepts *)

ValidPrice(row, profile) ==
    /\ row.price # None /\ row.price.model = row.model.id /\ IsHosted(row.price, row.model.source)
    /\ None \notin {row.price.input, row.price.output}
    /\ row.cost = Cost(row.price, profile) /\ row.context = row.price.context

ValidMetric(v, row, metric) ==
    /\ metric.model = row.model.id /\ metric.key \in Range(Definition[v.route].metrics)
    /\ IF SourceOf(metric.key) = "benchlm"
       THEN /\ row.model.source = "benchlm"
            /\ row.model.evidence = "estimated" \/ IsSupported(row.model, metric)
       ELSE /\ row.model.evidence # "estimated" /\ (row.model.evidence = "source_only" => row.model.source = "lmarena")
            /\ metric.eligible /\ metric.rank # None

ValidRow(v, row) ==
    LET kind == Definition[v.route].kind
        estimated == row.model.evidence = "estimated"
    IN CASE kind = "pricing-context" ->
              /\ ~estimated /\ ~(row.model.evidence = "source_only" /\ row.model.source = "lmarena")
              /\ row.metrics = <<>> /\ row.metric = None /\ row.rank = None /\ ~row.frontier
              /\ ValidPrice(row, v.profile)
         [] OTHER ->
              /\ IF kind = "value" THEN estimated \/ ValidPrice(row, v.profile)
                 ELSE ~row.frontier /\ ((row.price = None /\ row.cost = None) \/ ValidPrice(row, "outputHeavy"))
              /\ row.metrics # <<>> /\ row.metric = Head(row.metrics)
              /\ row.rank = IF estimated THEN None ELSE row.metric.rank
              /\ \A i, j \in DOMAIN row.metrics : row.metrics[i].key = row.metrics[j].key => i = j
              /\ \A m \in Range(row.metrics) : ValidMetric(v, row, m)

SafeEstimate(row) ==
    /\ row.model.source = "benchlm" /\ ~row.model.eligible
    /\ row.price = None /\ row.cost = None /\ row.rank = None /\ ~row.frontier
    /\ \A m \in Range(row.metrics) : SourceOf(m.key) = "benchlm" /\ ~m.eligible /\ m.rank = None

IsValid(v, p) ==
    LET shown == (IF Definition[v.route].source = None THEN {} ELSE {Definition[v.route].source})
                 \cup UNION {{SourceOf(m.key) : m \in Range(row.metrics)}
                             \cup (IF row.price = None THEN {} ELSE {row.price.source}) : row \in Range(p.entries)}
        estimated(i) == p.entries[i].model.evidence = "estimated"
    IN /\ p.sources # {} /\ shown \subseteq p.sources
       /\ shown = {} => p.sources \cap {"benchlm", "lmarena"} # {}
       /\ Len(p.entries) <= Limit /\ Len(p.entries) <= p.total
       /\ \A row \in Range(p.entries) : ValidRow(v, row)
       /\ \A i \in DOMAIN p.entries : estimated(i) =>
             /\ v.estimated /\ SafeEstimate(p.entries[i])
             /\ \A j \in DOMAIN p.entries : j > i => estimated(j) /\ p.entries[i].model.id < p.entries[j].model.id

---------------------------------------------------------------------------
RowsInit ==
    /\ facts \in Facts
    /\ view = None /\ projection = None /\ query = None /\ rows = <<>> /\ page = None

Views ==
    {v \in [route : Routes, profile : DOMAIN Share, estimated : BOOLEAN] :
        (~Profiled(v.route) => v.profile = "balanced") /\ (v.estimated => Estimable(v.route))}

(* The publisher stores the projection of a view. *)
Store(v) ==
    /\ view = None /\ view' = v
    /\ projection' = [base |-> Ranked(v.route, v.profile), entries |-> Projected(v)]
    /\ UNCHANGED <<facts, query, rows, page>>

(* Every control alone, offered or not; also no filter at all, which is the *)
(* stored first page.                                                       *)
Queries ==
    LET sort == Definition[view.route].sort
        one(f) == [filter |-> f, sort |-> sort]
    IN {None} \cup {[filter |-> NoFilter, sort |-> s] : s \in {"score-desc", "rank-asc", "pareto-score-desc", "price-asc", "context-desc"}}
       \cup {one([NoFilter EXCEPT !.creator = m.creator]) : m \in facts.models}
       \cup {one([NoFilter EXCEPT !.type = m.type]) : m \in facts.models}
       \cup {one([NoFilter EXCEPT !.evidence = e]) : e \in {"supported", "source_only", "estimated"}}
       \cup {one([NoFilter EXCEPT !.metric = k]) : k \in Range(Definition[view.route].metrics)}
       \cup {one([NoFilter EXCEPT !.min = c, !.max = c]) : c \in {row.cost : row \in Range(projection.entries)} \ {None}}

Read(q, offset) ==
    /\ page' = PageOf(view, q, offset)
    /\ rows' = rows \o page'.entries
    /\ UNCHANGED <<facts, view, projection>>

Ask(q) ==
    /\ page = None /\ (q # None => IsAccepted(view, q))
    /\ query' = q
    /\ Read(q, 0)

NextPage ==
    /\ page # None /\ page.next # None
    /\ Read(query, page.next) /\ UNCHANGED query

RowsNext ==
    \/ \E v \in Views : Store(v)
    \/ view # None /\ \E q \in Queries : Ask(q)
    \/ NextPage

RowsSpec == RowsInit /\ [][RowsNext]_rowVars

---------------------------------------------------------------------------
(* Properties *)

RowsTypeOK ==
    /\ view = None \/ view \in Views
    /\ (view = None) = (projection = None)
    /\ page # None => Len(page.entries) <= Limit /\ Len(rows) <= page.total

(* A projection, before it is read; reading does not change it. *)
IsStored == view # None /\ page = None

(* Whatever facts were accepted, the site reads back every projection that  *)
(* was made from them: the builder of buildLeaderboard and the checks of    *)
(* parseCompleteLeaderboardProjection agree on all rows.                    *)
ProjectionIsReadable == IsStored => IsReadable(view, projection)

(* And every page that is cut from it, under any filter and order, is one   *)
(* that isLeaderboardEnvelope accepts; otherwise the visitor would see the  *)
(* board as unavailable.                                                    *)
PageIsAccepted == page # None => IsValid(view, page)

(* A walk through the pages meets every row that the filter keeps, once,    *)
(* and nothing else.                                                        *)
WalkIsWhole ==
    page # None /\ page.next = None =>
        LET kept == {row \in Range(projection.entries) : query = None \/ Matches(row, query.filter)}
        IN Len(rows) = Cardinality(kept) /\ {row.model : row \in Range(rows)} = {row.model : row \in kept}

(* Controls at their defaults, which the page always sends, change nothing: *)
(* the first page that is stored and the one that is rebuilt are the same.  *)
DefaultsChangeNothing ==
    IsStored => Listed(view, [filter |-> NoFilter, sort |-> Definition[view.route].sort]) = projection.entries

(* Every value that a control offers is accepted and leaves rows.           *)
ControlsFindRows ==
    IsStored =>
        LET offered == Capabilities(view, projection.entries)
            finds(f) == /\ IsAccepted(view, [filter |-> f, sort |-> Definition[view.route].sort])
                        /\ \E row \in Range(projection.entries) : Matches(Displayed(view, row), f)
        IN /\ \A c \in {"creator", "type", "evidence"} : \A x \in offered[c] : finds([NoFilter EXCEPT ![c] = x])
           /\ \A x \in offered.price : finds([NoFilter EXCEPT !.min = x, !.max = x])

(* Who is not on the frontier of the value board is dominated by a row that *)
(* is: a visitor who looks at the marked rows alone misses no better offer. *)
FrontierDominates ==
    IsStored /\ view.route = "value" =>
        LET ranked == {row \in Range(projection.entries) : row.model.evidence # "estimated"}
        IN \A row \in ranked : ~row.frontier =>
              \E best \in ranked : best.frontier /\ Score(best) >= Score(row) /\ best.cost <= row.cost
                                  /\ <<Score(best), best.cost>> # <<Score(row), row.cost>>

(* The builder, the reader, the query and the page agree on every row of every *)
(* board.                                                                      *)
BoardsAreUnderstood ==
    /\ RowsTypeOK
    /\ ProjectionIsReadable
    /\ PageIsAccepted
    /\ WalkIsWhole
    /\ DefaultsChangeNothing
    /\ ControlsFindRows
    /\ FrontierDominates
=============================================================================
