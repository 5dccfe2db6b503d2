----------------------------- MODULE MCRequests -----------------------------
(***************************************************************************)
(* What the site answers: the endpoints, query by query, and the rows of a *)
(* leaderboard from the facts to the page.  The two share no state, and a  *)
(* behaviour of one of them at a time is enough.                           *)
(***************************************************************************)
EXTENDS RequestReaders, LeaderboardRows

VARIABLE part

requestVars == <<readerVars, rowVars, part>>

(* Models 1..3 and their usual slugs; revision 3 renames model 2. *)
MCMembers == <<<<1, 2>>, <<2, 1, 3>>, <<3, 2>>>>
MCSlugIn ==
    <<(1 :> 10 @@ 2 :> 20), (1 :> 10 @@ 2 :> 20 @@ 3 :> 5), (2 :> 25 @@ 3 :> 5)>>
MCUnreadable == {{}, {2}}
(* Two requests where an answer can be revalidated or continued. *)
MCMaxRequests ==
    [e \in Endpoints |-> IF e \in {"archived", "sitemap", "comparison"} THEN 1 ELSE 2]

---------------------------------------------------------------------------
(* Facts of three models *)

Model(id, source, evidence, eligible) ==
    [id |-> id, source |-> source, evidence |-> evidence, eligible |-> eligible,
     creator |-> IF id = 2 THEN "b" ELSE "a", type |-> IF id = 3 THEN "Proprietary" ELSE "Open Weight",
     context |-> IF id = 1 THEN None ELSE id]

Metric(model, key, value, rank, eligible) ==
    [model |-> model, key |-> key, value |-> value, rank |-> rank, eligible |-> eligible]

Price(model, source, status, route, input, output) ==
    [model |-> model, source |-> source, status |-> status, route |-> route, input |-> input, output |-> output,
     context |-> IF route = 1 THEN None ELSE 4]

(* The first model is BenchLM's, with every standing that a bundle can give *)
(* it; the second is known to one source; the third is ranked everywhere.   *)
MCRowModels ==
    {<<Model(1, "benchlm", s[1], s[2]), t, Model(3, "benchlm", "supported", TRUE)>> :
        s \in {<<"supported", TRUE>>, <<"supported", FALSE>>, <<"estimated", FALSE>>},
        t \in {Model(2, "lmarena", "source_only", TRUE), Model(2, "openrouter", "source_only", FALSE),
               Model(2, "benchlm", "estimated", FALSE), Model(2, "benchlm", "supported", TRUE)}}

OfBenchLm(model, rank, value) ==
    {Metric(model.id, k, value, rank,
            model.evidence = "supported" /\ (k = "overall" => model.eligible) /\ (k = "reasoning" => rank # None)) :
        k \in {"overall", "reasoning", "grounded"}}

OfArena(id, rank) == {Metric(id, k, rank + 10, rank, TRUE) : k \in {"text", "vision"}}

RowFactsOf(models, rank, prices, arena) ==
    [models |-> Range(models),
     metrics |-> OfBenchLm(models[1], rank, 5) \cup OfBenchLm(models[3], 2, 4)
                 \cup (IF models[2].source = "benchlm" THEN OfBenchLm(models[2], rank, 5) ELSE {})
                 \cup UNION {OfArena(id, 1) : id \in arena},
     prices |-> prices]

MCPrices ==
    {{}, {Price(1, "openrouter", "primary", 1, 2, 4), Price(1, "benchlm", "primary", 2, 1, 1), Price(3, "benchlm", "primary", 3, 2, 4)},
     {Price(i, "openrouter", "primary", i, 2, 4) : i \in 1..3} \cup {Price(1, "litellm", "corroborating", 4, 0, 0)},
     {Price(1, "openrouter", "primary", 1, 4, 0), Price(1, "openrouter", "primary", 4, 0, 4),
      Price(2, "openrouter", "primary", 2, None, 4), Price(3, "openrouter", "conflict", 3, 1, 1)}}

(* Only the boards of LMArena change where it ranks no one. *)
MCRowFacts ==
    {RowFactsOf(models, rank, prices, {1, 2, 3}) : models \in MCRowModels, rank \in {None, 1}, prices \in MCPrices}
    \cup {RowFactsOf(models, 1, {}, {}) : models \in MCRowModels}

---------------------------------------------------------------------------
ReadsProfiles == endpoint \notin {"summary", "leaderboard", "comparison"}
ReadsResponses == endpoint \in {"summary", "archived", "leaderboard"}

RequestsInit ==
    /\ part \in {"readers", "rows"}
    /\ ReadersInit /\ RowsInit
    \* A part that stays as it is needs one initial state.
    /\ part # "readers" => endpoint = "summary" /\ sets = {}
    /\ ~ReadsProfiles => broken = {}
    /\ ~ReadsResponses => sets # {}
    /\ part # "rows" => facts = RowFactsOf(CHOOSE models \in MCRowModels : TRUE, 1, {}, {})

(* A republication writes response sets and their pointer: for endpoints    *)
(* that read neither it need not be considered, nor a site without any.  The*)
(* instance has a republication, or a third revision or profiles that the  *)
(* site cannot parse, not both.                                            *)
Republished == \E p \in Republishers : republish[p].phase # "new"
RepublicationMatters ==
    Republished' => ReadsResponses /\ broken = {} /\ state'[3] = "none"

RequestsNext ==
    \/ part = "readers" /\ ReadersNext /\ RepublicationMatters /\ UNCHANGED <<rowVars, part>>
    \/ part = "rows" /\ RowsNext /\ UNCHANGED <<readerVars, part>>

RequestsSpec == RequestsInit /\ [][RequestsNext]_requestVars
=============================================================================
