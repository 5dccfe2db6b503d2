--------------------------- MODULE CatalogReading ---------------------------
(***************************************************************************)
(* The catalog as it is read: GET /api/catalog (functions/api/catalog.ts)  *)
(* with its stored responses, its rebuilt response and its checked-in      *)
(* bootstrap, and the pages that load it (frontend/catalog-cache.ts and    *)
(* use-catalog.ts) through one entry of the browser's storage, which all   *)
(* tabs share.  How a revision comes to be published is CatalogIngest.     *)
(*                                                                         *)
(* A load is never aborted: one that was replaced, or whose answer is      *)
(* late, still rewrites the storage.                                       *)
(***************************************************************************)
EXTENDS Naturals, FiniteSets, Nothing

CONSTANTS
    Sources, Window,       \* Window[s]: how long an observation of s is fresh
    RevisionWindow,        \* and how long a check of the revision is
    Provider, Provides,    \* Provides[r]: the providers with offers in revision r
    Tabs, MaxLoads, MaxNow, MaxFaults

ASSUME Numbered == Provides \in [1..Cardinality(DOMAIN Provides) -> SUBSET Provider]

Revision == DOMAIN Provides
Client == "client"      \* reads one provider, outside the pages

VARIABLES
    now,
    active,      \* the active revision and its rows, and the stored responses
    storage,     \* the entry of the browser's storage
    tabs,        \* the state of useCatalog in each tab
    loads,       \* loads that have not ended
    started, faults

readingVars == <<now, active, storage, tabs, loads, started, faults>>

ASSUME ReadingAssumption == 1 \in Revision /\ Client \notin Tabs

---------------------------------------------------------------------------
(* Responses *)

Bodies == [rev : Revision \cup {0}, offers : Revision \cup {0, None},
           status : {"fresh", "stale", "bootstrap"}]

EvidenceIsFresh(observed) == \A s \in Sources : now - observed[s] <= Window[s]

Status == IF now - active.checked <= RevisionWindow /\ EvidenceIsFresh(active.observed)
          THEN "fresh" ELSE "stale"

Bootstrap == [rev |-> 0, offers |-> 0, status |-> "bootstrap"]

OffersFor(provider) ==
    IF provider = None \/ provider \in Provides[active.rev] THEN active.rev ELSE None

Filtered(provider, status) == [rev |-> active.rev, offers |-> OffersFor(provider), status |-> status]

\* Slip: a stale body is given the tag of the fresh one.
Tag_Revision(body) == <<body.rev>>

Tag(body) == IF body.status = "stale" THEN <<body.rev, "stale">> ELSE <<body.rev>>

(* The entry of the browser's storage, and of a load that sends its tag. *)
TagName == {Tag(body) : body \in Bodies}
Entries == [tag : TagName, body : Bodies]

ASSUME ReadingNone == None \notin Nat /\ None \notin Bodies /\ None \notin Entries

(* The stored response of a key, in its fresh or its stale variant. *)
Stored(provider) ==
    Filtered(provider, IF now - active.stored.checked <= RevisionWindow THEN "fresh" ELSE "stale")

Rebuilt(provider) == IF active.rev = 0 THEN Bootstrap ELSE Filtered(provider, Status)

(* The key of a provider without offers does not exist. *)
HasKey(provider) == active.stored # None /\ OffersFor(provider) # None

(* For the properties: the offers and the status that the site can answer.  *)
Meaning(body) == <<body.offers, body.status>>

Possible ==
    [provider \in Provider \cup {None} |->
        {Meaning(body) : body \in {Rebuilt(provider), Bootstrap}
                                  \cup (IF active.stored = None THEN {} ELSE {Stored(provider)})}]

Witness ==
    loads' = {[l EXCEPT !.possible = IF l.stage = "answered" THEN @ ELSE @ \cup Possible'[l.provider]] : l \in loads}

---------------------------------------------------------------------------
(* The publisher *)

Fetched(sources) == [s \in Sources |-> IF s \in sources THEN now ELSE active.observed[s]]

(* Of an unchanged catalog only the check and the stored responses are new; *)
(* the stored responses say that it is fresh.                               *)
PublishCatalog ==
    \E sources \in SUBSET Sources :
       \E r \in {active.rev} \cup ({active.rev + 1} \cap IF sources = {} THEN {} ELSE Revision) :
          /\ r # 0
          /\ active' = [rev |-> r, checked |-> now,
                        observed |-> IF r = active.rev THEN active.observed ELSE Fetched(sources),
                        stored |-> [checked |-> now, observed |-> Fetched(sources)]]
          /\ UNCHANGED <<now, storage, tabs, started, faults>>
          /\ Witness

Tick == now < MaxNow /\ now' = now + 1 /\ UNCHANGED <<active, storage, tabs, started, faults>> /\ Witness

---------------------------------------------------------------------------
(* A request, query by query *)

Fault == faults < MaxFaults /\ faults' = faults + 1

Replace(load, new) == loads' = (loads \ {load}) \cup {new}

NotModified(load, body) == load.cached # None /\ load.cached.tag = Tag(body)

Respond(load, body, observed) ==
    Replace(load, [load EXCEPT !.stage = "answered", !.tag = Tag(body), !.meant = Meaning(body),
                               !.verified = body.status = "fresh" => EvidenceIsFresh(observed),
                               !.body = IF NotModified(load, body) THEN None ELSE body])

Serving(load, stage) == load \in loads /\ load.stage = stage /\ UNCHANGED <<now, active, storage, tabs, started>>

ReadStored(load) ==
    /\ Serving(load, "stored")
    /\ \/ HasKey(load.provider) /\ Respond(load, Stored(load.provider), active.stored.observed) /\ UNCHANGED faults
       \/ /\ ~HasKey(load.provider)
          /\ Replace(load, [load EXCEPT !.stage = IF load.provider = None THEN "rebuilt" ELSE "empty"])
          /\ UNCHANGED faults
       \/ Fault /\ Replace(load, [load EXCEPT !.stage = "rebuilt"])

(* The response of a provider without offers. *)
ReadEmpty(load) ==
    /\ Serving(load, "empty")
    /\ \/ /\ active.stored # None
          /\ Respond(load, [Stored(load.provider) EXCEPT !.offers = None], active.stored.observed) /\ UNCHANGED faults
       \/ active.stored = None /\ Replace(load, [load EXCEPT !.stage = "rebuilt"]) /\ UNCHANGED faults
       \/ Fault /\ Replace(load, [load EXCEPT !.stage = "rebuilt"])

ReadPublished(load) ==
    /\ Serving(load, "rebuilt")
    /\ \/ Respond(load, Rebuilt(load.provider), active.observed) /\ UNCHANGED faults
       \/ Fault /\ Respond(load, Bootstrap, active.observed)

---------------------------------------------------------------------------
(* A load of the page *)

NewLoad(tab, provider, cached) ==
    [id |-> started + 1, tab |-> tab, provider |-> provider, cached |-> cached, stage |-> "stored",
     tag |-> None, body |-> None, meant |-> None, verified |-> None, possible |-> Possible[provider]]

(* A load begins beside `others`, and sends the tag of what is stored; what  *)
(* cannot be validated is removed (readCache).                               *)
Begin(tab, others) ==
    /\ started < MaxLoads /\ started' = started + 1
    /\ \A l \in loads : l.tab # Client
    /\ \/ storage' = storage /\ UNCHANGED faults
       \/ storage # None /\ storage' = None /\ Fault
    /\ loads' = others \cup {NewLoad(tab, None, storage')}
    /\ UNCHANGED <<now, active>>

(* The page is opened, or opened again: what it had loaded is forgotten, and *)
(* the loads of the page that is left end with it.                           *)
Open(tab) ==
    /\ Begin(tab, {l \in loads : l.tab # tab})
    /\ tabs' = [tabs EXCEPT ![tab] = [phase |-> "loading", catalog |-> None, from |-> None, latest |-> started + 1]]

(* The previous load goes on. *)
RetryLoad(tab) ==
    /\ tabs[tab].phase # "closed"
    /\ Begin(tab, loads)
    /\ tabs' = [tabs EXCEPT ![tab].latest = started + 1,
                            ![tab].phase = IF tabs[tab].catalog = None THEN "loading" ELSE @]

(* Such a request touches nothing of a page: it is enough to see it alone. *)
AskProvider(provider) ==
    /\ started < MaxLoads /\ started' = started + 1
    /\ loads = {}
    /\ loads' = loads \cup {NewLoad(Client, provider, None)}
    /\ UNCHANGED <<now, active, storage, tabs, faults>>

\* Slip: the catalog of a 304 is read from the storage when it arrives.
Confirmed_Now(load) == storage.body

\* Slip: the catalog of a 304 is read from its body.
Confirmed_Body(load) == load.body

(* The catalog as it was stored when the load began. *)
Confirmed(load) == load.cached.body

Loaded(load) == IF load.body = None THEN Confirmed(load) ELSE load.body

\* Slip: every load sets the state of its tab.
IsLatest_Any(load) == TRUE

IsLatest(load) == tabs[load.tab].latest = load.id

(* The hook takes the outcome of its latest load only. *)
Shows(load, catalog) ==
    tabs' = IF load.tab = Client \/ ~IsLatest(load) THEN tabs
            ELSE [tabs EXCEPT ![load.tab].phase = "ready", ![load.tab].catalog = catalog, ![load.tab].from = load.id]

(* A write that the browser refuses is ignored. *)
Receive(load) ==
    /\ load \in loads /\ load.stage = "answered"
    /\ loads' = loads \ {load}
    /\ \/ storage' = (IF load.tab = Client THEN storage ELSE [tag |-> load.tag, body |-> Loaded(load)]) /\ UNCHANGED faults
       \/ load.tab # Client /\ UNCHANGED storage /\ Fault
    /\ Shows(load, Loaded(load))
    /\ UNCHANGED <<now, active, started>>

\* Slip: without a stored catalog the failure is not handled.
FailedWithout_Silent(load) == tabs' = tabs

FailedWithout(load) == Shows(load, Bootstrap)

(* The connection fails, or the body is not a catalog. *)
LoadFails(load) ==
    /\ load \in loads /\ Fault
    /\ loads' = loads \ {load}
    /\ IF load.cached = None THEN FailedWithout(load)
       ELSE Shows(load, [load.cached.body EXCEPT !.status = "stale"])
    /\ UNCHANGED <<now, active, storage, started>>

---------------------------------------------------------------------------
ReadingInit ==
    /\ now = 0
    /\ active \in {[rev |-> r, checked |-> 0, observed |-> [s \in Sources |-> 0], stored |-> None] : r \in {0, 1}}
    /\ storage \in {None} \cup {[tag |-> Tag(body), body |-> body] : body \in {Rebuilt(None)}}
    /\ tabs = [t \in Tabs |-> [phase |-> "closed", catalog |-> None, from |-> None, latest |-> None]]
    /\ loads = {} /\ started = 0 /\ faults = 0

Answers(load) == ReadStored(load) \/ ReadEmpty(load) \/ ReadPublished(load) \/ Receive(load)

ReadingNext ==
    \/ PublishCatalog \/ Tick
    \/ \E t \in Tabs : Open(t) \/ RetryLoad(t)
    \/ \E p \in Provider : AskProvider(p)
    \/ \E l \in loads : Answers(l) \/ LoadFails(l)

(* A query or a connection ends, in an answer or a failure; the browser has *)
(* no other work that holds an answer back.                                 *)
ReadingFairness == WF_readingVars(\E l \in loads : Answers(l))

ReadingSpec == ReadingInit /\ [][ReadingNext]_readingVars /\ ReadingFairness

---------------------------------------------------------------------------
(* Properties *)

ReadingTypeOK ==
    /\ storage # None => storage.body \in Bodies /\ storage.body.offers # None
    /\ \A t \in Tabs : /\ tabs[t].phase = "ready" => tabs[t].catalog \in Bodies
                      /\ tabs[t].phase \in {"closed", "loading"} => tabs[t].catalog = None
    /\ \A l \in loads : l.stage \in {"stored", "empty", "rebuilt", "answered"} /\ l.id <= started
    /\ \A k, l \in loads : k.id = l.id => k = l

(* What a load brings, in a body or by a 304 that confirms the stored one,  *)
(* are offers and a status that the site could answer while it was asked,   *)
(* whatever other tabs and late loads have stored meanwhile                *)
(* (loadCatalog).  The answer for one provider is excepted: its two reads   *)
(* can miss the provider in one revision and find "no offers" in the next.  *)
LoadIsCurrent ==
    \A l \in loads : l.stage = "answered" /\ l.tab \in Tabs => Meaning(Loaded(l)) \in l.possible

(* A 304 is given only to who holds what a 200 would have brought, stale or *)
(* fresh (the tags of onRequestGet and catalogApiCacheProjections).         *)
RevalidationIsExact ==
    \A l \in loads : l.stage = "answered" /\ l.body = None =>
        l.cached # None /\ Meaning(l.cached.body) = l.meant

(* When the latest load of a tab has ended, the tab shows what it brought,  *)
(* not what an older load brought later (the versions of useCatalog).       *)
LatestIsShown ==
    \A t \in Tabs : tabs[t].phase # "closed" /\ (\A l \in loads : l.id # tabs[t].latest)
                   => tabs[t].from = tabs[t].latest

(* A page does not stay without a catalog: every load ends, and a failure   *)
(* shows what was stored or what was checked in.                            *)
SomethingIsShown == \A t \in Tabs : tabs[t].phase = "loading" ~> tabs[t].phase # "loading"

(* docs/catalog-deployment.md: evidence is fresh only within its window.    *)
FreshIsVerified ==
    \A l \in loads : l.stage = "answered" => l.verified

(* Whatever other tabs and late loads store meanwhile, a load brings what the *)
(* site could answer, and the latest one is what is shown.                    *)
LoadsAreTrue ==
    /\ ReadingTypeOK
    /\ LoadIsCurrent
    /\ RevalidationIsExact
    /\ LatestIsShown
=============================================================================
