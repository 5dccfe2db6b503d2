----------------------------- MODULE MCRefresh ------------------------------
(***************************************************************************)
(* The legacy refresh as a writer of the tables, and the facts that every  *)
(* refresh, legacy or checkpointed, makes of its sources.  The two share   *)
(* no state, and a behaviour of one of them at a time is enough.           *)
(***************************************************************************)
EXTENDS LegacyRefresh, CandidateFacts

VARIABLE part

refreshVars == <<legacyVars, factVars, part>>

---------------------------------------------------------------------------
(* Two overlapping invocations of the legacy refresh, on a cold system and  *)
(* after a third one has published.                                         *)

CONSTANTS i0, i1, i2

MCRefreshes == {i0, i1, i2}

First == [catalog |-> 1, benchlm |-> 1, litellm |-> 1, page |-> [p \in LPage |-> 1]]

\* What i0 leaves when nothing else ran and served did not change.
WarmInit ==
    /\ served = [benchlm |-> 1, litellm |-> 1, dataset |-> 1, page |-> [p \in LPage |-> 1]]
    /\ catalog = 1
    /\ daily = [success |-> 1, error |-> None]
    /\ manifest = (1 :> 1)
    /\ snapshots = Sources(First)
    /\ rows = (First :> [state |-> "published", owner |-> i0, checked |-> 1, facts |-> TRUE,
                         seen |-> 1, dataset |-> [p \in LPage |-> 1]])
    /\ active = First
    /\ responses = (i0 :> First)
    /\ cacheSet = i0
    /\ invocation = [r \in Refreshes |->
                        IF r = i0 THEN [Idle EXCEPT !.pc = "done", !.at = 1] ELSE Idle]
    /\ clock = 2
    /\ faults = 0

\* On the cold system i0 never starts.
ColdInit == LegacyInit

LegacySymmetry == Permutations({i1, i2})

---------------------------------------------------------------------------
(* The publications of the sources *)

(* Two spellings of one name, and two other names. *)
A == 1
a == 2
B == 3
C == 4
MCSpelling == [n \in 1..9 |-> IF n = a THEN A ELSE n]

Model(id, slug, name, evidence, eligible, type, trusted, ranks, cat) ==
    [id |-> id, slug |-> <<slug>>, name |-> name, evidence |-> evidence, eligible |-> eligible,
     sourceType |-> type, trusted |-> trusted, ranks |-> ranks, categoryEligible |-> cat]

Row(name, rank, evidence, scores) ==
    [name |-> name, rank |-> rank, evidence |-> evidence, scores |-> scores,
     sourceType |-> "Pending", methodology |-> "v5"]

Ranks(r) == [c \in {"coding", External} |-> r]
Yes == [c \in {"coding", External} |-> TRUE]

(* Three models whose ranks are dense, doubled, sparse, absent or 0. *)
MCModels ==
    {<<Model(1, "x", A, "supported", TRUE, "Open Weight", 1, Ranks(r1), Yes),
       Model(2, "y", n2, e2, TRUE, "Proprietary", 5, Ranks(r2), Yes),
       Model(3, s3, C, None, FALSE, "Pending", 2, Ranks(r3), <<>>)>>
     : r1 \in {1, 3}, r2 \in {None, 2}, r3 \in {0, 1, 3}, n2 \in {B, a},
       e2 \in {"supported", None}, s3 \in {"z", "x"}}

MCRows ==
    LET scores == [c \in {"coding", External} |-> 1]
    IN {<<Row(A, 1, "supported", scores)>>,
        <<Row(A, 1, "estimated", scores), Row(B, 2, "supported", scores)>>,
        <<Row(a, 1, "supported", scores), Row(C, 2, None, <<>>)>>,
        <<Row(B, 1, "supported", [scores EXCEPT !["coding"] = None]), Row(a, 1, "supported", scores)>>,
        <<Row(C, 1, "supported", scores), Row(A, 2, "supported", scores), Row(A, 3, "supported", scores)>>}

Definition(c, p, w) == [category |-> c, prohibited |-> p, weight |-> w]

(* The definitions, the prices and the comparisons. *)
MCRest ==
    <<[benchmarks |-> <<Definition("coding", FALSE, 1), Definition(External, FALSE, 1), Definition("coding", TRUE, 0)>>,
      pricing |-> <<[id |-> 1, input |-> 0, output |-> 0], [id |-> 2, input |-> 0, output |-> None]>>,
      comparisons |-> <<[a |-> 2, b |-> 1], [a |-> 1, b |-> 2], [a |-> 1, b |-> 9]>>],
     [benchmarks |-> <<Definition("coding", TRUE, None)>>,
      pricing |-> <<[id |-> 3, input |-> 0, output |-> 2], [id |-> 3, input |-> 1, output |-> 2]>>,
      comparisons |-> <<>>],
     [benchmarks |-> <<Definition("coding", TRUE, 1)>>, pricing |-> <<>>, comparisons |-> <<>>]>>

Payload(items, day) == [generatedAt |-> day, items |-> items]

Publication(n, ms, public, rest, day) ==
    [leaderboard |-> Payload(<<>>, 1),
     models |-> [generatedAt |-> 1, itemCount |-> None, counts |-> n, items |-> ms],
     pricing |-> Payload(rest.pricing, day),
     comparisons |-> Payload(rest.comparisons, 1),
     benchmarks |-> Payload(rest.benchmarks, 1),
     public |-> [generatedAt |-> 2, methodology |-> "v5", items |-> public]]

(* Five supported models, of which two have slugs that contain a separator,  *)
(* and definitions for two categories.                                       *)
Supported(id, slug, name) ==
    [Model(id, "x", name, "supported", TRUE, "Proprietary", 3, [c \in {"coding", "math"} |-> id],
           [c \in {"coding", "math"} |-> TRUE]) EXCEPT !.slug = slug]

FollowedRest(pairs) ==
    [benchmarks |-> <<Definition("coding", FALSE, 1), Definition("math", FALSE, 1)>>,
     pricing |-> <<[id |-> 1, input |-> 1, output |-> 2]>>, comparisons |-> pairs]

MCFollowed ==
    LET scores == [c \in {"coding", "math"} |-> 1]
        two == <<Supported(1, <<"x">>, A), Supported(2, <<"y">>, B)>>
        four == <<Supported(1, <<"x">>, A), Supported(2, <<"x", "vs", "y">>, B),
                  Supported(3, <<"z">>, C), Supported(4, <<"y", "vs", "z">>, 5)>>
        row(n, r) == Row(n, r, "supported", scores)
    IN {Publication(2, two, public, FollowedRest(<<[a |-> 1, b |-> 2]>>), 1)
        : public \in {<<row(A, 1), row(B, 2)>>, <<row(A, 1), row(B, 1)>>, <<row(B, 9)>>}}
       \cup {Publication(4, four, <<row(A, 1), row(B, 2), row(C, 3), row(5, 4)>>,
                         FollowedRest(<<[a |-> 1, b |-> 3]>> \o more), 1)
             : more \in {<<>>, <<[a |-> 1, b |-> 4]>>, <<[a |-> 2, b |-> 3]>>}}

(* A publication without content. *)
MCEmpty == Publication(0, <<>>, <<>>, [benchmarks |-> <<>>, pricing |-> <<>>, comparisons |-> <<>>], 1)

MCPublications ==
    {MCEmpty}
    \cup {Publication(3, ms, public, MCRest[1], 1) : ms \in MCModels, public \in MCRows}
    \cup {Publication(None, ms, public, rest, day) :
             ms \in {ms \in MCModels : ms[1].ranks["coding"] = 1 /\ ms[2].ranks["coding"] = 2},
             public \in MCRows, rest \in Range(MCRest), day \in {1, 2}}
    \cup MCFollowed

Entry(id, provider, maxOutput, maxTokens) ==
    [id |-> id, provider |-> provider, input |-> 1, maxOutput |-> maxOutput, maxTokens |-> maxTokens]

MCDocuments == {<<Entry(8, "p", 0, 7), Entry(2, None, 1, 1)>>, <<Entry(1, "p", Absent, 7), Entry(2, None, 1, 1)>>, <<Entry(2, None, 1, 1)>>}

MCCatalogs == {<<[id |-> 9, input |-> 3]>>, <<[id |-> 1, input |-> 3], [id |-> 2, input |-> 4]>>,
               <<[id |-> 1, input |-> 3], [id |-> 1, input |-> 4]>>}

MCSubsets == <<"text", "agent">>
MCSubsetOrder == [text |-> 2, agent |-> 1]

ArenaRow(idx, name, rank) ==
    [idx |-> idx, name |-> name, rank |-> rank, category |-> "overall", truncated |-> FALSE]

MCPageRows ==
    {<<ArenaRow(0, 6, 1)>>, <<ArenaRow(0, 6, 1), ArenaRow(1, A, 2)>>,
     <<ArenaRow(0, 6, 1), ArenaRow(1, 6, 2)>>, <<ArenaRow(0, 6, 1), ArenaRow(2, A, 2)>>}

MCAllowlist == <<<<<<"y">>, <<"x">>>>>>

---------------------------------------------------------------------------
RefreshInit ==
    /\ part \in {"legacy", "facts"}
    /\ FactInit
    /\ IF part = "legacy" THEN WarmInit \/ ColdInit ELSE WarmInit
    \* A part that stays as it is needs one initial state.
    /\ part = "legacy" => upstream = MCEmpty

RefreshNext ==
    \/ part = "legacy" /\ LegacyNext /\ invocation'[i0] = invocation[i0] /\ UNCHANGED <<factVars, part>>
    \/ part = "facts" /\ FactNext /\ UNCHANGED <<legacyVars, part>>

RefreshSpec == RefreshInit /\ [][RefreshNext]_refreshVars
=============================================================================
