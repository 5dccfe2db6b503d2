------------------------------- MODULE MCSite -------------------------------
(***************************************************************************)
(* What a visitor meets: the catalog tables and the catalog pages, the     *)
(* leaderboard pages, the calculator and the newsletter form.  They share  *)
(* no state, and a behaviour of one of them at a time is enough; each      *)
(* keeps its fairness.                                                     *)
(***************************************************************************)
EXTENDS LeaderboardBrowsing, CatalogReading, Signup, CatalogPublication, CalculatorPage

VARIABLE part

pageVars == <<browsingVars, readingVars, signupVars, calculatorVars>>
siteVars == <<pageVars, publicationVars, part>>

(* Revision 2 has no rows of provider b, revision 3 none of provider a. *)
MCOffered == <<{"a", "b"}, {"a"}, {"b"}>>
MCPages == [r \in 1..3 |-> [f \in {"all", "a", "b"} |-> IF f = "all" THEN 3 ELSE 1]]

(* A day passes both windows of the catalog. *)
MCWindow == [openrouter |-> 0]
MCProvides == <<{}, {"p"}>>

---------------------------------------------------------------------------
(* Two catalogs of four providers: one with two plans, two that sell only by *)
(* token, one that gets a plan later.  The second catalog drops plans,       *)
(* models and a provider, sells another model of the fourth, and its first   *)
(* plan covers no offer.                                                     *)

Sells(id, provider, model, direct, input, output) ==
    [id |-> id, provider |-> provider, model |-> model, direct |-> direct, input |-> input, output |-> output]

Subscription(id, provider, cost, models, evidence, tokens) ==
    [id |-> id, provider |-> provider, cost |-> cost, individual |-> TRUE, models |-> models,
     evidence |-> evidence, tokens |-> tokens]

MCCatalogs ==
    <<[offers |-> <<Sells(11, 1, 2, TRUE, 10, 30), Sells(12, 1, 1, TRUE, 5, 5), Sells(13, 1, 3, FALSE, 7, 0),
                    Sells(21, 2, 4, TRUE, 1, 1), Sells(31, 3, 5, TRUE, 2, 2), Sells(41, 4, 6, TRUE, 3, 3)>>,
       plans |-> <<Subscription(1, 1, 0, <<>>, "verified", 100), Subscription(2, 1, 45, <<1, 2>>, "verified", 90),
                   Subscription(3, 1, 20, <<>>, "dynamic_unknown", None)>>],
      [offers |-> <<Sells(11, 1, 2, TRUE, 10, 40), Sells(13, 1, 3, FALSE, 7, 0), Sells(31, 3, 5, TRUE, 2, 2),
                    Sells(42, 4, 7, TRUE, 3, 3)>>,
       plans |-> <<Subscription(3, 1, 20, <<3>>, "verified", 90), Subscription(4, 3, 6, <<5>>, "projected", None)>>]>>

MCFew == [conversations |-> 2, messages |-> 1, input |-> 3, output |-> 1, days |-> 10]
(* At the prices of the second catalog, more than a safe integer. *)
MCMany == [MCFew EXCEPT !.conversations = 30, !.days = 30]
MCWorkloads == {MCMany}

SharedBefore(provider, plan, ids, weights, old) ==
    [provider |-> provider, plan |-> plan, workload |-> MCFew, old |-> old, ids |-> ids, weights |-> weights]

MCOldLinks ==
    {SharedBefore(1, 2, <<12, 13, 11>>, <<3, 3, 4>>, None), SharedBefore(1, 3, <<12, 13, 11>>, <<10, 0, 0>>, None),
     SharedBefore(3, None, <<31>>, <<10>>, None), SharedBefore(1, 9, <<11, 12>>, <<5, 5>>, [tokens |-> 90, input |-> 5]),
     SharedBefore(1, 2, <<12>>, <<9>>, None)}

---------------------------------------------------------------------------
SiteInit ==
    /\ part \in {"browsing", "reading", "signup", "calculator", "tables"}
    /\ BrowsingInit /\ ReadingInit /\ SignupInit /\ CalculatorInit /\ PublicationInit
    \* A part that stays as it is needs one initial state.
    /\ part # "browsing" => filters = All /\ stored = {}
    /\ part # "reading" => active.rev = 0 /\ storage = None

Browsing(step) ==
    part = "browsing" /\ step /\ UNCHANGED <<readingVars, signupVars, calculatorVars, publicationVars, part>>
Reading(step) ==
    part = "reading" /\ step /\ UNCHANGED <<browsingVars, signupVars, calculatorVars, publicationVars, part>>
Signing(step) ==
    part = "signup" /\ step /\ UNCHANGED <<browsingVars, readingVars, calculatorVars, publicationVars, part>>
Calculating(step) ==
    part = "calculator" /\ step /\ UNCHANGED <<browsingVars, readingVars, signupVars, publicationVars, part>>

SiteNext ==
    \/ Browsing(BrowsingNext) \/ Reading(ReadingNext) \/ Signing(SignupNext) \/ Calculating(CalculatorNext)
    \/ part = "tables" /\ PublicationNext /\ UNCHANGED <<pageVars, part>>

(* The part never changes: fairness of a disjunction over parts is that of each. *)
SiteFairness ==
    /\ WF_siteVars(Browsing(RunEffects) \/ Reading(\E l \in loads : Answers(l)) \/ Signing(Serve))
    /\ WF_siteVars(Browsing(Rejected)) /\ WF_siteVars(Browsing(Answering))
    /\ CalculatorFairness

SiteSpec == SiteInit /\ [][SiteNext]_siteVars /\ SiteFairness

(* Whatever is clicked, published or lost, a leaderboard page comes to rest *)
(* (useBenchmarkLeaderboard and the effects of LeaderboardPage) and so do   *)
(* the effects of the calculator (App.tsx:113-188), a catalog is shown      *)
(* (SomethingIsShown) and the form is given back (SubmissionEnds), though   *)
(* the visitor, the publishers and Brevo promise nothing.  One part moves   *)
(* and there is one tab, so that one formula says it of each.               *)
Waits ==
    \/ part = "browsing" /\ ~AtRest
    \/ part = "calculator" /\ HasEffects
    \/ part = "reading" /\ \E t \in Tabs : tabs[t].phase = "loading"
    \/ part = "signup" /\ form.active # None

NobodyWaitsForever == Waits ~> ~Waits
=============================================================================
