---------------------------- MODULE RevisionFacts ----------------------------
(***************************************************************************)
(* The change facts of the newsletter.  diffPublishedRevisions             *)
(* (src/newsletter/revision-diff.ts) compares two published revisions; the *)
(* sheet generator runs it only between a revision whose receipt was       *)
(* signed and the revision it was given, and writes the dedupe key into    *)
(* its manifest; the campaign script joins a manifest and a set of change  *)
(* facts by that key, and keeps its own state under it.                    *)
(*                                                                         *)
(* Files are written by hand, so any of them may be the wrong one: another *)
(* revision's receipt, catalog, snapshot or changes.  A script that        *)
(* refuses its files leaves nothing behind and is not a step.  The signing *)
(* of a publication is not in the repository; a receipt may have been      *)
(* signed with a catalog that the revision was not built on.               *)
(*                                                                         *)
(* A route stands for the provider and the route id.  The validators have  *)
(* let no rate through that is negative or not a number, so the rows that  *)
(* normalizeRate calls invalid do not occur; a missing rate is None.       *)
(***************************************************************************)
EXTENDS Naturals, Sequences, FiniteSets, Nothing

CONSTANTS
    Model,         \* model keys
    Route,         \* provider and route id
    Snapshot,      \* what a revision may hold: models, price rows, catalog offers
    Response,      \* catalog responses: what they offer, and whether it is fresh
    MaxRevision,   \* bound on the revisions that are published
    MaxBundles,    \* bound on the bundles that are generated
    MaxPrepared    \* bound on the campaigns that are prepared

Rate == Nat \cup {None}
PriceRow == [model : Model, route : Route, source : {"openrouter", "benchlm", "litellm"},
             check : {"primary", "corroborating", "conflict"}, input : Rate, output : Rate]
Offer == [route : Route, input : Rate, output : Rate]

(* validateNormalizedSourceBatch: a price row names a model of its snapshot, *)
(* and no source prices a route of a model twice.                            *)
ASSUME RevisionAssumption ==
    /\ None \notin Nat
    /\ Response \subseteq [offers : SUBSET Offer, fresh : BOOLEAN]
    /\ \A s \in Snapshot :
         /\ s \in [models : SUBSET Model, rows : SUBSET PriceRow, offers : SUBSET Offer]
         /\ \A q \in s.rows : q.model \in s.models
         /\ \A q, r \in s.rows :
              q.model = r.model /\ q.source = r.source /\ q.route = r.route => q = r

VARIABLES
    published,    \* published[v]: what revision v holds, for the revisions so far
    receipts,     \* receipts[v]: the catalog response that v was signed with
    bundles,      \* the facts that bundles were rendered from
    campaigns     \* the facts that campaigns were prepared from

factVars == <<published, receipts, bundles, campaigns>>

FactsInit == published = <<>> /\ receipts = <<>> /\ bundles = {} /\ campaigns = {}

Revision == DOMAIN published

-----------------------------------------------------------------------------
(* revision-diff.ts *)

SameRoute(q, r) == q.model = r.model /\ q.route = r.route
SameRates(q, r) == q.input = r.input /\ q.output = r.output

(* Slip: the status of a row is not looked at. *)
SlipAnyCheck(s) == s.rows

Primary(s) == {r \in s.rows : r.check = "primary"}

(* Slip: any of several rows wins. *)
SlipSettled(s) == Primary(s)

(* primaryPricesByRoute: the rows of a route count if they all agree. *)
Settled(s) == {q \in Primary(s) : \A r \in Primary(s) : SameRoute(q, r) => SameRates(q, r)}

(* Slip: a rate that is missing now counts as zero. *)
SlipDecreases(before, after) == before # None /\ (IF after = None THEN before > 0 ELSE after < before)

Decreases(before, after) == before # None /\ after # None /\ after < before

NewModels(prev, cur) == cur.models \ prev.models

Drop(q, r) == [model |-> r.model, route |-> r.route,
               inputBefore |-> q.input, inputAfter |-> r.input,
               outputBefore |-> q.output, outputAfter |-> r.output]

(* Slip: both rates have to fall. *)
SlipCheaper(q, r) == Decreases(q.input, r.input) /\ Decreases(q.output, r.output)

Cheaper(q, r) == Decreases(q.input, r.input) \/ Decreases(q.output, r.output)

(* Slip: the rows of one model are compared, whatever their route. *)
SlipPriceDrops(prev, cur) ==
    {Drop(m[1], m[2]) : m \in {n \in Settled(prev) \X Settled(cur) :
                                 n[1].model = n[2].model /\ Cheaper(n[1], n[2])}}

PriceDrops(prev, cur) ==
    {Drop(m[1], m[2]) : m \in {n \in Settled(prev) \X Settled(cur) :
                                 SameRoute(n[1], n[2]) /\ Cheaper(n[1], n[2])}}

(* factId: the revision, the kind and the identity, without any rate. *)
FactIds(to, models, drops) ==
    {<<to, "new-model", m, None>> : m \in models}
        \cup {<<to, "price-drop", d.model, d.route>> : d \in drops}

(* Slip: the key is the ids alone. *)
SlipDedupeKey(from, to, ids) == <<to, ids>>

DedupeKey(from, to, ids) == <<from, to, ids>>

Changes(from, to, models, drops) ==
    [from |-> from, to |-> to, models |-> models, drops |-> drops,
     key |-> DedupeKey(from, to, FactIds(to, models, drops))]

(* diffPublishedRevisions *)
Diff(v, w) == Changes(v, w, NewModels(published[v], published[w]),
                            PriceDrops(published[v], published[w]))

-----------------------------------------------------------------------------
(* cheatsheet.ts, assertFrozenInputs: the catalog file is the one that the *)
(* revision was built on, it was fresh when it was fetched, and it offers  *)
(* what the OpenRouter rows say.                                           *)

(* Slip: the catalog is not compared with the revision. *)
SlipFrozen(s, catalog) == catalog.fresh

Frozen(s, catalog) ==
    /\ catalog.offers = s.offers /\ catalog.fresh
    /\ \A r \in s.rows : r.source = "openrouter" =>
         [route |-> r.route, input |-> r.input, output |-> r.output] \in catalog.offers

-----------------------------------------------------------------------------
(* generate-monthly-cheatsheet.ts *)

(* expectedCurrentRevision, in its canonical text. *)
PublishedFacts(s) ==
    [models |-> s.models,
     prices |-> {[model |-> r.model, route |-> r.route, input |-> r.input, output |-> r.output]
                   : r \in Primary(s)}]

(* parsePublishedRevisionSnapshot: one row of a status for a route.  Rows of *)
(* two sources for one route are two rows of the text, so it is refused.     *)
Readable(s) == \A q, r \in Primary(s) : SameRoute(q, r) => q = r

(* parsePreviousRevisionReceipt *)
Verified(v) == Frozen(published[v], receipts[v]) /\ published[v].models # {}

(* parseVerifiedChanges: the envelope holds a receipt, the facts of another  *)
(* revision, which are those of the snapshot file, and perhaps their diff.   *)
Acceptable(envelope, w) ==
    /\ envelope.current = w /\ envelope.previous # w
    /\ envelope.facts = PublishedFacts(published[w]) /\ Readable(published[w])
    /\ Verified(envelope.previous)
    /\ envelope.changes \in {None, Diff(envelope.previous, w)}

(* What an operator may have put into an envelope. *)
Envelopes ==
    [previous : Revision, current : Revision,
     facts : {PublishedFacts(published[v]) : v \in Revision},
     changes : {None} \cup {Diff(v, w) : v, w \in Revision}]

PublishRevision(s, catalog) ==
    /\ Len(published) < MaxRevision
    /\ published' = Append(published, s)
    /\ receipts' = Append(receipts, catalog)
    /\ UNCHANGED <<bundles, campaigns>>

(* generateMonthlyCheatsheet, given the files of a snapshot and a catalog. *)
GenerateBundle(w, catalog) ==
    /\ Cardinality(bundles) < MaxBundles
    /\ Frozen(published[w], catalog)
    /\ \E envelope \in Envelopes :
         /\ Acceptable(envelope, w)
         /\ bundles' = bundles \cup {Diff(envelope.previous, w)}
    /\ UNCHANGED <<published, receipts, campaigns>>

-----------------------------------------------------------------------------
(* campaign.ts and create-brevo-campaign-draft.ts *)

(* matchingChanges: a manifest holds the names and the key of its facts. *)
MatchesManifest(rendered, changes) ==
    rendered.from = changes.from /\ rendered.to = changes.to /\ rendered.key = changes.key

(* assertCanonicalChanges *)
Canonical(changes) ==
    changes.key = DedupeKey(changes.from, changes.to,
                            FactIds(changes.to, changes.models, changes.drops))

(* The newsletter shows every fact, and the drops in the order of their ids. *)
NewsletterOf(changes) == <<changes.models, changes.drops>>

(* The changes file need not be the generator's: its names and its facts may *)
(* be those of different revisions.                                          *)
HandMade ==
    {Changes(names[1], names[2], facts[1], facts[2]) :
        names \in Revision \X Revision,
        facts \in {<<NewModels(published[x], published[y]), PriceDrops(published[x], published[y])>> :
                     x, y \in Revision}}

(* Slip: the newsletter is not compared. *)
SlipPrepareCampaign(rendered) ==
    /\ Cardinality(campaigns) < MaxPrepared
    /\ \E changes \in HandMade :
         /\ Canonical(changes) /\ MatchesManifest(rendered, changes)
         /\ campaigns' = campaigns \cup {changes}
    /\ UNCHANGED <<published, receipts, bundles>>

(* campaignFromArtifacts, of a bundle and a changes file. *)
PrepareCampaign(rendered) ==
    /\ Cardinality(campaigns) < MaxPrepared
    /\ \E changes \in HandMade :
         /\ Canonical(changes) /\ MatchesManifest(rendered, changes)
         /\ NewsletterOf(rendered) = NewsletterOf(changes)
         /\ campaigns' = campaigns \cup {changes}
    /\ UNCHANGED <<published, receipts, bundles>>

FactsNext ==
    \/ \E s \in Snapshot, catalog \in Response : PublishRevision(s, catalog)
    \/ \E w \in Revision, catalog \in Response : GenerateBundle(w, catalog)
    \/ \E rendered \in bundles : PrepareCampaign(rendered)

FactsSpec == FactsInit /\ [][FactsNext]_factVars

-----------------------------------------------------------------------------
(* Properties. *)

FactsTypeOK ==
    /\ published \in Seq(Snapshot)
    /\ receipts \in Seq(Response) /\ DOMAIN receipts = Revision
    /\ \A c \in bundles \cup campaigns : c.from \in Revision /\ c.to \in Revision

Announced == bundles \cup campaigns

(* A drop that readers are told of was published twice: in both revisions    *)
(* a primary row says the rate, no other primary row of the route says       *)
(* anything else, and at least one side is really lower.                     *)
DropsAreBacked ==
    \A c \in Announced : \A d \in c.drops :
        /\ \E q \in published[c.from].rows :
             /\ q.model = d.model /\ q.route = d.route /\ q.check = "primary"
             /\ q.input = d.inputBefore /\ q.output = d.outputBefore
        /\ \A v \in {c.from, c.to} : \A q, r \in published[v].rows :
             /\ q.check = "primary" /\ q.model = d.model /\ q.route = d.route
             /\ r.check = "primary" /\ r.model = d.model /\ r.route = d.route
             => q.input = r.input /\ q.output = r.output
        /\ \E r \in published[c.to].rows :
             /\ r.model = d.model /\ r.route = d.route /\ r.check = "primary"
             /\ r.input = d.inputAfter /\ r.output = d.outputAfter
        /\ \/ {d.inputBefore, d.inputAfter} \subseteq Nat /\ d.inputAfter < d.inputBefore
           \/ {d.outputBefore, d.outputAfter} \subseteq Nat /\ d.outputAfter < d.outputBefore

(* Nothing is left out: a model of the later revision only, and a route that *)
(* both revisions price once and the later one lower, are announced.         *)
ChangesAreAllTold ==
    \A c \in Announced :
        /\ c.models = published[c.to].models \ published[c.from].models
        /\ \A q \in published[c.from].rows, r \in published[c.to].rows :
             /\ q.check = "primary" /\ r.check = "primary"
             /\ q.model = r.model /\ q.route = r.route
             /\ \A o \in published[c.from].rows :
                  o.check = "primary" /\ SameRoute(o, q) => o = q
             /\ \A o \in published[c.to].rows :
                  o.check = "primary" /\ SameRoute(o, r) => o = r
             /\ \/ q.input # None /\ r.input # None /\ r.input < q.input
                \/ q.output # None /\ r.output # None /\ r.output < q.output
             => Drop(q, r) \in c.drops

(* The key under which manifests, lock files and receipts are kept names one *)
(* set of facts, although it holds no rate.                                  *)
KeyNamesFacts == \A c, d \in Announced : c.key = d.key => c = d

(* What two successive announcements say of a route fits together, and no    *)
(* model is new twice.                                                       *)
StoriesJoin ==
    \A c, d \in Announced : c.to = d.from =>
        /\ c.models \cap d.models = {}
        /\ \A x \in c.drops, y \in d.drops : x.model = y.model /\ x.route = y.route =>
             x.inputAfter = y.inputBefore /\ x.outputAfter = y.outputBefore

(* A drop of an OpenRouter route is between two rates that the catalog of    *)
(* each revision offers.                                                     *)
DropsWereOffered ==
    \A c \in Announced : \A v \in {c.from, c.to} : \A r \in published[v].rows :
        r.source = "openrouter" =>
            \E o \in published[v].offers :
                o.route = r.route /\ o.input = r.input /\ o.output = r.output

(* What the newsletter tells of two revisions is true of both, complete, and *)
(* named by its key.                                                         *)
NewsIsTrue ==
    /\ FactsTypeOK
    /\ DropsAreBacked
    /\ ChangesAreAllTold
    /\ KeyNamesFacts
    /\ StoriesJoin
    /\ DropsWereOffered
=============================================================================
