--------------------------- MODULE CalculatorPage ---------------------------
(***************************************************************************)
(* The calculator page (CalculatorPage of App.tsx): what the visitor        *)
(* selects, the effects that repair it whenever the catalog or the         *)
(* selection changed, the result it shows, and the link that is shared     *)
(* (frontend/calculator-share-state.ts) and opened again, later and by     *)
(* others, under another catalog.                                          *)
(*                                                                         *)
(* React runs the effects of a commit before the next event of the         *)
(* visitor, so he acts only on a page whose effects have run; the answer   *)
(* of a catalog load may come between two effects.  Providers, plans and   *)
(* models are numbered as they are sorted; the shares of a selection are a *)
(* sequence, in the order of the keys of the object.                       *)
(***************************************************************************)
EXTENDS SubscriptionArithmetic, Sequences, SequencesExt, FiniteSets

CONSTANTS
    Catalogs,         \* the catalogs that are published: [offers, plans]
    ApiOnly,          \* API_ONLY_PROVIDER_IDS
    Workloads,        \* what a visitor enters
    DefaultWorkload,
    TokensPerMessage, \* the largest message of an old link
    OldLinks,         \* addresses that were shared before
    Positions,        \* where a slider is moved to, in basis points
    MaxVisits,        \* bound on the pages that are opened
    MaxEdits,         \* bound on what the visitors change
    MaxAnswers        \* bound on the catalogs that a page receives

ASSUME CatalogsAssumption == Catalogs \in Seq(Range(Catalogs)) /\ Catalogs # <<>>

VARIABLES
    edition,  \* the catalog that is published
    tool,     \* the page
    link,     \* the last link that was shared, and what its page showed
    visits, edits, answers

calculatorVars == <<edition, tool, link, visits, edits, answers>>

OfProvider(rows, provider) == SelectSeq(rows, LAMBDA row : row.provider = provider)
Ids(rows) == [i \in DOMAIN rows |-> rows[i].id]
First(rows) == IF rows = <<>> THEN None ELSE rows[1]
Least(S) == CHOOSE x \in S : \A y \in S : x <= y

---------------------------------------------------------------------------
(* The catalog *)

(* A plan for one person: plan.individual stands for the words and the billing cycle. *)
IsPaid(plan) == plan.individual /\ plan.cost > 0

PaidPlans(catalog, provider) == SelectSeq(OfProvider(catalog.plans, provider), IsPaid)

PaidPlan(catalog, provider, id) ==
    First(SelectSeq(PaidPlans(catalog, provider), LAMBDA plan : plan.id = id))

Offers(catalog, provider) == OfProvider(catalog.offers, provider)
DirectOffers(catalog, provider) == SelectSeq(Offers(catalog, provider), LAMBDA offer : offer.direct)

LeastOffer(offers) ==
    IF offers = <<>> THEN None
    ELSE CHOOSE x \in Range(offers) : \A y \in Range(offers) :
             x.model < y.model \/ (x.model = y.model /\ x.id <= y.id)

(* The offer that stands for a plan: of its first model that is sold by the provider itself. *)
Equivalent(models, direct) ==
    LET sold == SelectSeq(models, LAMBDA m : \E i \in DOMAIN direct : direct[i].model = m)
    IN IF models = <<>> THEN LeastOffer(direct)
       ELSE IF sold = <<>> THEN None
       ELSE First(SelectSeq(direct, LAMBDA offer : offer.model = sold[1]))

DefaultApiEquivalent(catalog, plan) ==
    IF plan = None THEN None ELSE Equivalent(plan.models, DirectOffers(catalog, plan.provider))

ProviderIds(catalog) ==
    {plan.provider : plan \in {plan \in Range(catalog.plans) : IsPaid(plan)}}
    \cup {p \in ApiOnly : Offers(catalog, p) # <<>>}

(* defaultOfferForProvider: a plan is looked up among all of the provider's. *)
DefaultOffer(catalog, provider, planId) ==
    LET plan == First(SelectSeq(OfProvider(catalog.plans, provider), LAMBDA p : p.id = planId))
    IN IF plan # None THEN DefaultApiEquivalent(catalog, plan) ELSE First(DirectOffers(catalog, provider))

FirstPlanId(catalog, provider) ==
    LET plan == First(PaidPlans(catalog, provider)) IN IF plan = None THEN None ELSE plan.id

---------------------------------------------------------------------------
(* Selections and shares *)

ShareOf(mix, id) == IF id \in Range(Ids(mix)) THEN First(SelectSeq(mix, LAMBDA e : e.id = id)).share ELSE 0
Total(numbers) == FoldLeft(+, 0, numbers)
Shares(mix) == [i \in DOMAIN mix |-> mix[i].share]

IsShare(n) == n \in 0..BasisPoints
IsCompleteMix(mix) ==
    mix # <<>> /\ (\A i \in DOMAIN mix : IsShare(mix[i].share)) /\ Total(Shares(mix)) = BasisPoints

Whole(id) == <<[id |-> id, share |-> BasisPoints]>>

EvenMix(ids) ==
    LET share == BasisPoints \div Len(ids)
    IN [i \in DOMAIN ids |->
           [id |-> ids[i], share |-> IF i = Len(ids) THEN BasisPoints - (Len(ids) - 1) * share ELSE share]]

\* Slip: the last model gets its proportion as the others do.
Redistribute_Proportional(mix, id, share) ==
    LET others == SelectSeq(mix, LAMBDA e : e.id # id)
        total == Total(Shares(others))
        given == [i \in DOMAIN others |->
                     IF total = 0 THEN Rounded(BasisPoints - share, Len(others))
                     ELSE Rounded((BasisPoints - share) * others[i].share, total)]
    IN IF ~IsCompleteMix(mix) \/ id \notin Range(Ids(mix)) \/ (others = <<>> /\ share # BasisPoints) THEN mix
       ELSE <<[id |-> id, share |-> share]>> \o [i \in DOMAIN others |-> [others[i] EXCEPT !.share = given[i]]]

(* redistributeModelMix: the changed model comes first, the others share the *)
(* rest in proportion, and the last takes what is left.  A mix that it       *)
(* refuses stays as it is.                                                   *)
Redistribute(mix, id, share) ==
    LET others == SelectSeq(mix, LAMBDA e : e.id # id)
        total == Total(Shares(others))
        given == [i \in 1..(Len(others) - 1) |->
                     IF total = 0 THEN Rounded(BasisPoints - share, Len(others))
                     ELSE Rounded((BasisPoints - share) * others[i].share, total)]
        last == BasisPoints - share - Total(given)
    IN IF ~IsCompleteMix(mix) \/ id \notin Range(Ids(mix)) \/ (others = <<>> /\ share # BasisPoints) THEN mix
       ELSE <<[id |-> id, share |-> share]>>
            \o [i \in DOMAIN others |->
                   [others[i] EXCEPT !.share = IF i = Len(others) THEN last ELSE given[i]]]

NoSelection == [ids |-> <<>>, mix |-> <<>>]

(* selectionForPlan *)
DefaultSelection(catalog, provider, planId) ==
    LET offer == DefaultOffer(catalog, provider, planId)
    IN IF offer = None THEN NoSelection ELSE [ids |-> <<offer.id>>, mix |-> Whole(offer.id)]

---------------------------------------------------------------------------
(* The result *)

Plan(page) == PaidPlan(Catalogs[page.catalog], page.provider, page.plan)

(* The offers of a selection that are there. *)
OffersOf(ids, offers) ==
    LET present == SelectSeq(ids, LAMBDA id : id \in Range(Ids(offers)))
    IN [i \in DOMAIN present |-> First(SelectSeq(offers, LAMBDA o : o.id = present[i]))]

SelectedOffers(page) == OffersOf(page.ids, Offers(Catalogs[page.catalog], page.provider))

(* What is priced: the plan's own equivalent by default, else the selection. *)
PricedAs(page, default, selected) ==
    IF page.mode = "default" /\ default # None
    THEN <<[offer |-> default, share |-> BasisPoints]>>
    ELSE [i \in DOMAIN selected |-> [offer |-> selected[i], share |-> ShareOf(page.mix, selected[i].id)]]

Priced(page) == PricedAs(page, DefaultApiEquivalent(Catalogs[page.catalog], Plan(page)), SelectedOffers(page))

Rates(priced) ==
    [input |-> Rounded(Total([i \in DOMAIN priced |-> priced[i].offer.input * priced[i].share]), BasisPoints),
     output |-> Rounded(Total([i \in DOMAIN priced |-> priced[i].offer.output * priced[i].share]), BasisPoints)]

(* capacityEvidenceFor *)
Capacity(plan, priced, tokens) ==
    IF plan = None \/ ~IsCompleteMix(priced) THEN "not-verified"
    ELSE IF ~({priced[i].offer.model : i \in DOMAIN priced} \subseteq Range(plan.models)) THEN "not-verified"
    ELSE IF plan.evidence = "projected" THEN "projected"
    ELSE IF plan.evidence # "verified" \/ plan.tokens = None THEN "not-verified"
    ELSE IF plan.tokens >= tokens THEN "verified-covered" ELSE "verified-not-covered"

CostOf(derived, priced) == IF IsCompleteMix(priced) THEN ApiCost(derived, Rates(priced)) ELSE None

(* buildCalculatorSnapshot, and the recommendation that is made of it. *)
Snapshot(days, derived, plan, priced, cost) ==
    [cost |-> cost,
     comparison |-> IF cost = None \/ plan = None THEN None
                    ELSE Compared(plan.cost, derived.messages, cost, days),
     capacity |-> Capacity(plan, priced, derived.input + derived.output)]

ResultOf(days, derived, plan, priced) == Snapshot(days, derived, plan, priced, CostOf(derived, priced))
Result(page) == ResultOf(page.workload.days, Derived(page.workload), Plan(page), Priced(page))

(* A number that is not safe is an exception in the render, which nothing catches. *)
HasUnsafe(derived, result) ==
    \/ ~IsSafe(derived.messages) \/ ~IsSafe(derived.input + derived.output)
    \/ result.cost # None /\ ~IsSafe(result.cost)
    \/ result.comparison # None
       /\ (~IsSafe(result.comparison.difference)
           \/ (result.comparison.breakEven # None /\ ~IsSafe(result.comparison.breakEven)))

Throws(page) == HasUnsafe(Derived(page.workload), Result(page))

---------------------------------------------------------------------------
(* Links *)

\* Slip: the weights in the order of the shares and not of the models.
Encode_Keys(page) ==
    [provider |-> page.provider, plan |-> page.plan, workload |-> page.workload, old |-> None,
     ids |-> page.ids, weights |-> Shares(page.mix)]

(* encodeCalculatorShareState *)
Encode(page) ==
    [provider |-> page.provider, plan |-> page.plan, workload |-> page.workload, old |-> None,
     ids |-> page.ids, weights |-> [i \in DOMAIN page.ids |-> ShareOf(page.mix, page.ids[i])]]

(* An old link says the tokens of a month and the share of input. *)
OldWorkload(old) ==
    LET days == 30
        perMessage == Least({TokensPerMessage, old.tokens \div days})
        input == (perMessage * old.input) \div BasisPoints
        used == IF old.tokens = 0 THEN 0 ELSE 1
    IN [conversations |-> used, messages |-> used, input |-> input, output |-> perMessage - input, days |-> days]

(* normalizeWeights: the largest remainders are rounded up. *)
NormalizedMix(ids, weights) ==
    LET total == Total(weights)
        share == [i \in DOMAIN ids |-> (weights[i] * BasisPoints) \div total]
        left == [i \in DOMAIN ids |-> (weights[i] * BasisPoints) % total]
        before(i) == {j \in DOMAIN ids : left[j] > left[i] \/ (left[j] = left[i] /\ j < i)}
        up(i) == Cardinality(before(i)) < BasisPoints - Total(share)
    IN [i \in DOMAIN ids |-> [id |-> ids[i], share |-> share[i] + IF up(i) THEN 1 ELSE 0]]

IsReadable(address) ==
    /\ address.ids # <<>> /\ Len(address.ids) = Len(address.weights) /\ IsInjective(address.ids)
    /\ \A i \in DOMAIN address.weights : IsShare(address.weights[i])
    /\ Total(address.weights) = BasisPoints

(* The models of a link that its provider still offers. *)
Surviving(address, catalog) ==
    SelectSeq([i \in DOMAIN address.ids |-> [id |-> address.ids[i], weight |-> address.weights[i]]],
              LAMBDA e : e.id \in Range(Ids(Offers(catalog, address.provider))))

(* defaultOfferForState: without a plan, the least offer and not the first. *)
DefaultOfOther(catalog, provider, planId) ==
    LET plan == PaidPlan(catalog, provider, planId)
    IN IF plan # None THEN DefaultApiEquivalent(catalog, plan) ELSE LeastOffer(DirectOffers(catalog, provider))

InferredMode(catalog, provider, planId, mix) ==
    LET offer == DefaultOfOther(catalog, provider, planId)
    IN IF offer # None /\ mix = Whole(offer.id) THEN "default" ELSE "override"

(* decodeCalculatorShareState: what the link selects under a catalog, or None. *)
Decode(address, catalog) ==
    LET kept == Surviving(address, catalog)
        weights == [i \in DOMAIN kept |-> kept[i].weight]
        mix == NormalizedMix(Ids(kept), weights)
        plan == IF PaidPlan(catalog, address.provider, address.plan) = None THEN None ELSE address.plan
    IN IF address = None THEN None
       ELSE IF ~IsReadable(address) \/ Total(weights) = 0 THEN None
       ELSE [provider |-> address.provider, plan |-> plan,
             workload |-> IF address.old = None THEN address.workload ELSE OldWorkload(address.old),
             ids |-> Ids(kept), mix |-> mix,
             mode |-> InferredMode(catalog, address.provider, plan, mix),
             changed |-> address.old # None \/ plan # address.plan
                         \/ Ids(kept) # address.ids \/ Shares(mix) # address.weights]

---------------------------------------------------------------------------
(* The page *)

NewPage(address) ==
    [catalog |-> None, provider |-> None, plan |-> None, ids |-> <<>>, mix |-> <<>>,
     workload |-> DefaultWorkload, mode |-> "default",
     applied |-> FALSE, hydrated |-> FALSE, skip |-> FALSE, pending |-> FALSE, gone |-> FALSE,
     address |-> address, opened |-> address, touched |-> FALSE, replaced |-> FALSE]

Rendered(page) == [page EXCEPT !.gone = Throws(page)]
Shown == tool.catalog # None /\ ~tool.gone
Settled == Shown /\ ~tool.pending

CalculatorInit ==
    /\ edition = 1
    /\ tool = NewPage(None)
    /\ link = None
    /\ visits = 0 /\ edits = 0 /\ answers = 0

PublishesCatalog ==
    /\ edition < Len(Catalogs) /\ edition' = edition + 1
    /\ UNCHANGED <<tool, link, visits, edits, answers>>

(* A visitor opens the page, or loads it again. *)
OpensPage(address) ==
    /\ visits < MaxVisits /\ visits' = visits + 1
    /\ tool' = NewPage(address)
    /\ UNCHANGED <<edition, link, edits, answers>>

(* A load, also one that is retried, answers with a catalog, maybe a stored one. *)
ReceivesCatalog(c) ==
    /\ ~tool.gone /\ answers < MaxAnswers /\ answers' = answers + 1
    /\ c \in 1..edition
    /\ tool' = Rendered([tool EXCEPT !.catalog = c, !.pending = TRUE, !.replaced = tool.catalog \notin {None, c}])
    /\ UNCHANGED <<edition, link, visits, edits>>

(* The first effect, once a catalog is there: what the address selects.      *)
(* Unless there is no provider to choose, the second effect then skips once. *)
Hydrated(page, decoded) ==
    LET next == [page EXCEPT !.applied = TRUE, !.hydrated = TRUE, !.pending = TRUE,
                             !.skip = ProviderIds(Catalogs[page.catalog]) = {},
                             !.provider = decoded.provider, !.plan = decoded.plan,
                             !.ids = decoded.ids, !.mix = decoded.mix,
                             !.workload = decoded.workload, !.mode = decoded.mode]
    IN [next EXCEPT !.address = IF decoded.changed THEN Encode(next) ELSE @]

Select(page, provider, planId) ==
    LET selection == DefaultSelection(Catalogs[page.catalog], provider, planId)
    IN [page EXCEPT !.provider = provider, !.plan = planId, !.mode = "default", !.pending = TRUE,
                    !.ids = selection.ids, !.mix = selection.mix]

(* The provider to begin with: one whose first plan has an equivalent, else *)
(* one without plans, else one with models, else any.                       *)
BestProvider(catalog) ==
    LET ids == ProviderIds(catalog)
        withPlan == {p \in ids : LET plan == FirstPlanId(catalog, p)
                                 IN plan # None /\ DefaultOffer(catalog, p, plan) # None}
        withoutPlan == {p \in ids : FirstPlanId(catalog, p) = None /\ DefaultOffer(catalog, p, None) # None}
        withModels == {p \in ids : Offers(catalog, p) # <<>>}
        choices == SelectSeq(<<withPlan, withoutPlan, withModels, ids>>, LAMBDA S : S # {})
    IN Least(choices[1])

\* Slip: only an empty selection is replaced.
HasModel_Any(page) == page.ids # <<>>

(* The selection has a model of the provider. *)
HasModel(page) == Range(page.ids) \cap Range(Ids(Offers(Catalogs[page.catalog], page.provider))) # {}

\* Slip: the selection is set although it is the same.
Differs_Always(page, selection) == TRUE

(* ~selectionsMatch *)
Differs(page, selection) == <<page.ids, page.mix>> # <<selection.ids, selection.mix>>

(* The second effect: provider, plan and selection are repaired one after   *)
(* another, each in a render of its own.                                    *)
Reconciled(page) ==
    LET catalog == Catalogs[page.catalog]
        firstPlan == FirstPlanId(catalog, page.provider)
        default == Select(page, page.provider, page.plan)
        done == [page EXCEPT !.pending = FALSE]
    IN IF ProviderIds(catalog) = {} THEN done
       ELSE IF page.skip THEN [done EXCEPT !.skip = FALSE]
       ELSE IF page.provider \notin ProviderIds(catalog) THEN [page EXCEPT !.provider = BestProvider(catalog)]
       ELSE IF page.plan # None /\ PaidPlan(catalog, page.provider, page.plan) = None
         THEN Select(page, page.provider, firstPlan)
       ELSE IF page.plan = None /\ firstPlan # None /\ ~page.hydrated
         THEN Select(page, page.provider, firstPlan)
       ELSE IF ~page.hydrated /\ ~HasModel(page)
         THEN [default EXCEPT !.pending = Differs(page, default)]
       ELSE done

HasEffects == Shown /\ tool.pending

(* The page after both effects of one commit. *)
AfterEffects ==
    LET decoded == Decode(tool.address, Catalogs[tool.catalog])
    IN Rendered(IF ~tool.applied /\ decoded # None THEN Hydrated(tool, decoded)
                ELSE Reconciled([tool EXCEPT !.applied = TRUE]))

RunsEffects ==
    /\ HasEffects
    /\ tool' = AfterEffects
    /\ UNCHANGED <<edition, link, visits, edits, answers>>

Edits(page) ==
    /\ Settled /\ edits < MaxEdits /\ edits' = edits + 1
    /\ page # tool /\ tool' = Rendered([page EXCEPT !.touched = TRUE])
    /\ UNCHANGED <<edition, link, visits, answers>>

ChangesProvider(provider) ==
    /\ Settled /\ provider \in ProviderIds(Catalogs[tool.catalog]) \ {tool.provider}
    /\ Edits(Select(tool, provider, FirstPlanId(Catalogs[tool.catalog], provider)))

ChangesPlan(id) ==
    /\ Settled /\ id # tool.plan /\ id \in Range(Ids(PaidPlans(Catalogs[tool.catalog], tool.provider)))
    /\ Edits(Select(tool, tool.provider, id))

\* Slip: the shares of the other models stay.
TogglesModel_Kept(id) ==
    /\ Settled /\ id \in Range(Ids(Offers(Catalogs[tool.catalog], tool.provider)))
    /\ LET ids == IF id \in Range(tool.ids) THEN SelectSeq(tool.ids, LAMBDA i : i # id) ELSE Append(tool.ids, id)
       IN Edits([tool EXCEPT !.mode = "override", !.pending = TRUE, !.ids = ids])

TogglesModel(id) ==
    /\ Settled /\ id \in Range(Ids(Offers(Catalogs[tool.catalog], tool.provider)))
    /\ LET ids == IF id \in Range(tool.ids) THEN SelectSeq(tool.ids, LAMBDA i : i # id) ELSE Append(tool.ids, id)
       IN Edits([tool EXCEPT !.mode = "override", !.pending = TRUE, !.ids = ids, !.mix = EvenMix(ids)])

(* There is a slider for each model, if two of the provider are selected. *)
MovesSlider(id, share) ==
    /\ Settled
    /\ LET sliders == Range(tool.ids) \cap Range(Ids(Offers(Catalogs[tool.catalog], tool.provider)))
       IN id \in sliders /\ Cardinality(sliders) > 1
    /\ Edits([tool EXCEPT !.mode = "override", !.mix = Redistribute(tool.mix, id, share)])

EntersWorkload(w) == Edits([tool EXCEPT !.workload = w])

(* The details of the mapping are open: they say so when they are first shown, too. *)
OpensMapping == Edits([tool EXCEPT !.mode = "override"])

CanShare ==
    /\ Shown /\ tool.provider # None /\ tool.ids # <<>>
    /\ Total([i \in DOMAIN tool.ids |-> ShareOf(tool.mix, tool.ids[i])]) = BasisPoints

What(page) == [provider |-> page.provider, plan |-> page.plan, ids |-> page.ids, workload |-> page.workload,
               result |-> Result(page)]

SharesLink ==
    /\ Settled /\ CanShare
    /\ link' = [address |-> Encode(tool), catalog |-> tool.catalog, shows |-> What(tool),
                sound |-> ~tool.replaced /\ Range(tool.ids) \subseteq Range(Ids(SelectedOffers(tool)))]
    /\ UNCHANGED <<edition, tool, visits, edits, answers>>

CalculatorNext ==
    \/ PublishesCatalog
    \/ \E address \in OldLinks \cup {None, tool.address} \cup (IF link = None THEN {} ELSE {link.address}) :
          OpensPage(address)
    \/ \E c \in DOMAIN Catalogs : ReceivesCatalog(c)
    \/ RunsEffects
    \/ \E provider \in ProviderIds(Catalogs[edition]) \cup ProviderIds(Catalogs[1]) : ChangesProvider(provider)
    \/ \E plan \in UNION {Range(Ids(Catalogs[c].plans)) : c \in DOMAIN Catalogs} : ChangesPlan(plan)
    \/ \E id \in UNION {Range(Ids(Catalogs[c].offers)) : c \in DOMAIN Catalogs} :
          TogglesModel(id) \/ \E share \in Positions : MovesSlider(id, share)
    \/ \E w \in Workloads : EntersWorkload(w)
    \/ OpensMapping
    \/ SharesLink

(* React runs the effects of each commit: weak fairness of RunsEffects,   *)
(* with what ENABLED <<RunsEffects>>_calculatorVars means written out.     *)
CalculatorFairness ==
    []<>~(HasEffects /\ AfterEffects # tool) \/ []<><<RunsEffects>>_calculatorVars

CalculatorSpec == CalculatorInit /\ [][CalculatorNext]_calculatorVars /\ CalculatorFairness

---------------------------------------------------------------------------
(* Properties *)

(* The selection is whole: each selected model has a share, no other has,   *)
(* and the shares are a whole, however often they are divided anew          *)
(* (redistributeModelMix, createEvenMix and normalizeWeights).              *)
MixIsWhole ==
    /\ IsInjective(tool.ids) /\ IsInjective(Ids(tool.mix))
    /\ Range(Ids(tool.mix)) = Range(tool.ids)
    /\ tool.ids # <<>> => Total(Shares(tool.mix)) = BasisPoints

(* What a visitor can act on belongs together: the provider is one of the   *)
(* catalog and the plan is his (App.tsx:152-172), whatever the catalog was  *)
(* when he chose them.                                                      *)
PlanBelongs ==
    Settled /\ ~tool.skip /\ ProviderIds(Catalogs[tool.catalog]) # {} =>
        /\ tool.provider \in ProviderIds(Catalogs[tool.catalog])
        /\ tool.plan # None => PaidPlan(Catalogs[tool.catalog], tool.provider, tool.plan) # None

(* And a selection that no link brought has a model of the provider, if he  *)
(* sells one that stands for the plan (App.tsx:174-179).                    *)
ModelBelongs ==
    Settled /\ ~tool.skip /\ ~tool.hydrated /\ ProviderIds(Catalogs[tool.catalog]) # {} =>
        LET catalog == Catalogs[tool.catalog]
        IN \/ \E id \in Range(tool.ids) : id \in Range(Ids(Offers(catalog, tool.provider)))
           \/ DefaultOffer(catalog, tool.provider, tool.plan) = None

(* Who opens a shared link under the catalog of its page sees what was      *)
(* shared, and its result: whatever the page was that shared it, unless its *)
(* models are not all of its provider or the catalog was replaced under it. *)
LinkShowsTheSame ==
    (/\ link # None /\ link.sound /\ tool.opened = link.address /\ tool.catalog = link.catalog
     /\ ~tool.touched /\ ~tool.replaced /\ ~tool.pending)
    => ~tool.gone /\ tool.address = link.address /\ What(tool) = link.shows

(* The recommendation, the difference, the efficiency and the messages a    *)
(* day to break even, each computed and rounded on its own, say the same.   *)
ResultAgrees ==
    Shown /\ Result(tool).comparison # None =>
        Agrees(Result(tool).comparison, tool.workload.conversations * tool.workload.messages)

CalculatorTypeOK ==
    /\ edition \in DOMAIN Catalogs
    /\ tool.catalog \in (1..edition) \cup {None} /\ tool.mode \in {"default", "override"}
    /\ {tool.applied, tool.hydrated, tool.skip, tool.pending, tool.gone} \subseteq BOOLEAN
    /\ tool.hydrated => tool.applied

(* The page does not give up its selection, its links or its arithmetic,    *)
(* whatever is published, opened, changed and shared.                       *)
CalculatorIsTrue ==
    /\ CalculatorTypeOK
    /\ MixIsWhole
    /\ PlanBelongs
    /\ ModelBelongs
    /\ LinkShowsTheSame
    /\ ResultAgrees

(* Every share is one that a slider, a link and the arithmetic can take:    *)
(* "an integer between 0 and 10,000 basis points" (calculator.ts:21).       *)
SharesInRange == \A i \in DOMAIN tool.mix : IsShare(tool.mix[i].share)
=============================================================================
