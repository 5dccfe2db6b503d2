------------------------ MODULE LeaderboardBrowsing ------------------------
(***************************************************************************)
(* A leaderboard page in a browser: the filters, the cursors of the pages  *)
(* visited, the capabilities it has learnt (pages/leaderboards-page.tsx)   *)
(* and the request of useBenchmarkLeaderboard with its two fallbacks, the  *)
(* last valid answer in memory and the stored one (frontend/               *)
(* benchmark-cache.ts), against a site that publishes, fails, or falls     *)
(* back to its last list.                                                  *)
(*                                                                         *)
(* React runs the effects of a render before it renders again, so a render *)
(* and its effects are one action, repeated until nothing changes.  An     *)
(* aborted request is rejected at once, before any answer of the network.  *)
(*                                                                         *)
(* Of the filters only those that depend on the published rows matter      *)
(* here, and one stands for them: a provider, or All.                      *)
(***************************************************************************)
EXTENDS Naturals, Sequences, SequencesExt, FiniteSets, Nothing

CONSTANTS
    All,           \* no provider is chosen
    Offered,       \* Offered[r]: the providers of the list of revision r
    Pages,         \* Pages[r][f]: the pages of that list under filter f
    MaxClicks,     \* bound on what the visitor does
    MaxTroubles    \* bound on failed or outdated answers

ASSUME Listed ==
    /\ Len(Offered) \in Nat \ {0} /\ DOMAIN Offered = 1..Len(Offered)
    /\ \A r \in DOMAIN Offered :
          All \notin Offered[r] /\ \A f \in Offered[r] \cup {All} : f \in DOMAIN Pages[r] /\ Pages[r][f] \in Nat

Revisions == DOMAIN Offered
Filters == {All} \cup UNION {Offered[r] : r \in Revisions}

Cursors == [rev : Revisions, filter : Filters, page : Nat]
Queries == [filter : Filters, cursor : Cursors \cup {None}]
Envelopes ==
    [query : Queries, rev : Revisions, freshness : {"fresh", "stale"}, offered : Range(Offered),
     page : Nat, next : Cursors \cup {None}]
Requests == [query : Queries, stage : {"reply", "body"}, body : Envelopes \cup {None}]
Questions == [query : Queries, tries : Nat]

(* null is none of these. *)
ASSUME BrowsingNone ==
    /\ None \notin Cursors /\ None \notin Envelopes /\ None \notin Requests /\ None \notin Questions
    /\ None \notin Range(Offered) /\ None \notin {400, 503}

VARIABLES
    current,    \* the revision that the site has published
    filters,    \* the controls of the page
    known,      \* capabilities of the complete list, once an answer has told them
    page,       \* the cursor of the page, and those of the pages before it
    shown,      \* state of the hook, and the query of the request that set it
    asked,      \* the query and the retry for which the hook's effect last ran
    tries,      \* retryVersion
    request,    \* the request of that effect, until it has ended
    aborted,    \* aborted requests that are still to be rejected
    lastValid,  \* the last valid answer, in memory
    stored,     \* the answers in the browser's storage
    address,    \* the filter in the address bar
    settled,    \* the effects of the last render have run
    due,        \* what the effect of the address depends on has changed since it ran
    strayed,    \* for the properties: an aborted request has changed what is shown
    clicks, troubles

visitor == <<filters, page, tries, clicks>>
hook == <<shown, request, aborted, lastValid, stored, strayed>>
browsingVars == <<current, visitor, hook, known, asked, address, settled, due, troubles>>

---------------------------------------------------------------------------
(* The site (see RequestReaders) *)

\* Slip: a full last page is taken for a page with a successor.
HasSuccessor_Full(r, query, place) == place <= Pages[r][query.filter]

HasSuccessor(r, query, place) == place < Pages[r][query.filter]

Envelope(r, query, freshness) ==
    LET place == IF query.cursor = None THEN 1 ELSE query.cursor.page
    IN [query |-> query, rev |-> r, freshness |-> freshness, offered |-> Offered[r], page |-> place,
        next |-> IF HasSuccessor(r, query, place)
                 THEN [rev |-> r, filter |-> query.filter, page |-> place + 1] ELSE None]

(* An unknown provider, or a cursor into another list. *)
IsRefused(r, query) ==
    \/ query.filter \notin Offered[r] \cup {All}
    \/ query.cursor # None /\ (query.cursor.rev # r \/ query.cursor.filter # query.filter)

---------------------------------------------------------------------------
(* What a render derives from the state *)

\* Slip: the first request is repeated for every filter.
RequestFilter_Bootstrap == All

(* Until the capabilities are known, filters that depend on them are left out. *)
RequestFilter == IF known # None THEN filters ELSE All

FirstPage == [identity |-> RequestFilter, cursor |-> None, previous |-> <<>>]

ActivePage == IF page.identity = RequestFilter THEN page ELSE FirstPage

Endpoint == [filter |-> RequestFilter, cursor |-> ActivePage.cursor]

Capabilities ==
    IF shown.envelope # None THEN shown.envelope.offered
    ELSE IF known # None THEN known ELSE {}

Normalized(f, offered) == IF f \in offered THEN f ELSE All

Loading(query) == [phase |-> "loading", envelope |-> None, status |-> None, fallback |-> "none", for |-> query]

BrowsingInit ==
    /\ current = 1
    /\ filters \in Filters /\ address = filters
    /\ known = None /\ asked = None /\ tries = 0
    /\ page = FirstPage
    /\ shown = Loading(None)
    /\ request = None /\ aborted = {}
    /\ lastValid = None
    /\ stored \in {{}, {Envelope(1, [filter |-> All, cursor |-> None], "fresh")}}
    /\ settled = FALSE /\ due = TRUE /\ strayed = FALSE
    /\ clicks = 0 /\ troubles = 0

---------------------------------------------------------------------------
(* Effects *)

\* Slip: the cursor is missing from the dependencies of the effect.
Changed_Filter == asked = None \/ asked.query.filter # Endpoint.filter \/ asked.tries # tries

Changed == asked = None \/ asked.query # Endpoint \/ asked.tries # tries

\* Slip: the page begins again only when it shows its first page.
IsOutdated_First == shown.phase = "error" /\ shown.status = 400 /\ ActivePage.cursor = None

(* A page that the site refuses begins again: the list has been replaced. *)
IsOutdated == shown.phase = "error" /\ shown.status = 400 /\ ActivePage.cursor # None

\* Slip: the pages before are kept.
AfterRefusal_Walk == [FirstPage EXCEPT !.previous = ActivePage.previous]

AfterRefusal == FirstPage

(* Filters that the rows offer are written over the query of the address,   *)
(* when the filters or the rows are others than before.                     *)
WritesAddress == due /\ shown.envelope # None /\ Normalized(filters, Capabilities) = filters

(* The request of the hook, and then the effects of the page. *)
RunEffects ==
    /\ ~settled
    /\ IF Changed
       THEN /\ asked' = [query |-> Endpoint, tries |-> tries]
            /\ request' = [query |-> Endpoint, stage |-> "reply", body |-> None]
            /\ aborted' = IF request = None THEN aborted ELSE aborted \cup {request}
            /\ shown' = Loading(Endpoint)
       ELSE UNCHANGED <<asked, request, aborted, shown>>
    /\ known' = IF IsOutdated THEN None
                ELSE IF shown.envelope # None THEN shown.envelope.offered ELSE known
    /\ page' = IF IsOutdated THEN AfterRefusal ELSE ActivePage
    /\ filters' = IF shown.envelope = None THEN filters ELSE Normalized(filters, Capabilities)
    /\ address' = IF WritesAddress THEN filters ELSE address
    /\ due' = (<<filters, shown>>' # <<filters, shown>>)
    /\ settled' = (<<asked, shown, known, page, filters>>' = <<asked, shown, known, page, filters>>)
    /\ UNCHANGED <<current, tries, lastValid, stored, strayed, clicks, troubles>>

---------------------------------------------------------------------------
(* The request *)

\* Slip: what is stored is not looked for.
Remembered_Memory(query) == IF lastValid # None /\ lastValid.query = query THEN lastValid ELSE None

(* The last valid answer to the same query: in memory, or stored. *)
Remembered(query) ==
    IF lastValid # None /\ lastValid.query = query THEN lastValid
    ELSE IF \E e \in stored : e.query = query THEN CHOOSE e \in stored : e.query = query
    ELSE None

Terminal(phase, status, query) ==
    [phase |-> phase, envelope |-> None, status |-> status, fallback |-> "none", for |-> query]

Recover(terminal, query) ==
    LET envelope == Remembered(query)
    IN shown' = IF terminal.status = 400 \/ envelope = None THEN terminal
                ELSE [phase |-> "stale", envelope |-> envelope, status |-> terminal.status,
                      fallback |-> "browser-cache", for |-> query]

Render == settled' = FALSE /\ due' = TRUE /\ UNCHANGED <<current, visitor, known, asked, address>>

Ends == request' = None /\ UNCHANGED <<aborted, strayed>>

Quiet == settled /\ aborted = {}

Trouble == troubles < MaxTroubles /\ troubles' = troubles + 1

(* The revision that answers: the last one, or an older list that still serves. *)
Serves(r, freshness) ==
    \/ r = current /\ freshness = "fresh" /\ UNCHANGED troubles
    \/ r \in {current, current - 1} \cap Revisions /\ freshness = "stale" /\ Trouble

Awaits(stage) == Quiet /\ request # None /\ request.stage = stage

Reply ==
    /\ Awaits("reply")
    /\ \E r \in Revisions, freshness \in {"fresh", "stale"} :
          /\ Serves(r, freshness)
          /\ IF IsRefused(r, request.query)
             THEN /\ Recover(Terminal("error", 400, request.query), request.query)
                  /\ Ends /\ Render /\ UNCHANGED <<lastValid, stored>>
             ELSE /\ request' = [request EXCEPT !.stage = "body",
                                                !.body = Envelope(r, request.query, freshness)]
                  /\ UNCHANGED <<current, visitor, known, asked, address, settled, due>>
                  /\ UNCHANGED <<shown, aborted, lastValid, stored, strayed>>

(* 404 and 503; any other status, and a failed connection. *)
ReplyFails ==
    /\ Awaits("reply") /\ Trouble
    /\ \E terminal \in {Terminal("unavailable", 503, request.query), Terminal("error", None, request.query)} :
          Recover(terminal, request.query)
    /\ Ends /\ Render /\ UNCHANGED <<lastValid, stored>>

Body ==
    /\ Awaits("body")
    /\ lastValid' = request.body
    /\ stored' = {e \in stored : e.query # request.query} \cup {request.body}
    /\ shown' = [phase |-> IF request.body.freshness = "fresh" THEN "ready" ELSE "stale",
                 envelope |-> request.body, status |-> None, fallback |-> "none", for |-> request.query]
    /\ Ends /\ Render /\ UNCHANGED troubles

\* Slip: an invalid body ends the request without an outcome.
BodyFails_Silently ==
    /\ Awaits("body") /\ Trouble
    /\ Ends /\ UNCHANGED <<current, visitor, known, asked, address, settled, due, shown, lastValid, stored>>

(* The body cannot be read, or is not a valid envelope. *)
BodyFails ==
    /\ Awaits("body") /\ Trouble
    /\ Recover(Terminal("unavailable", None, request.query), request.query)
    /\ Ends /\ Render /\ UNCHANGED <<lastValid, stored>>

(* An aborted request is ignored, unless its body was being read: the inner *)
(* catch does not look whether the request is still wanted.                 *)
Rejected ==
    \E r \in aborted :
       /\ aborted' = aborted \ {r}
       /\ IF r.stage = "body"
          THEN Recover(Terminal("unavailable", None, r.query), r.query) /\ Render /\ strayed' = TRUE
          ELSE UNCHANGED <<shown, current, visitor, known, asked, address, settled, due, strayed>>
       /\ UNCHANGED <<request, lastValid, stored, troubles>>

---------------------------------------------------------------------------
(* The visitor, and the publisher *)

Click == Quiet /\ clicks < MaxClicks /\ clicks' = clicks + 1 /\ UNCHANGED <<current, hook, known, asked, troubles>>

Choose(f) ==
    /\ Click /\ f \in Capabilities \cup {All}
    /\ filters' = f /\ settled' = FALSE /\ due' = TRUE /\ UNCHANGED <<address, page, tries>>

\* Slip: the page does not listen.
Restored_AsShown(f) == filters

(* parseLeaderboardFilters: a provider that is not offered is left out.      *)
Restored(f) == IF known = None /\ shown.envelope = None THEN f ELSE Normalized(f, Capabilities)

(* Back or forward to an entry of the history with another filter: the      *)
(* browser has moved the address.  Where that gives the filters that are    *)
(* chosen already, nothing is rendered, and the address stays.              *)
PopState(f) ==
    /\ Click /\ address' = f
    /\ filters' = Restored(f)
    /\ IF filters' = filters THEN UNCHANGED <<settled, due>> ELSE settled' = FALSE /\ due' = TRUE
    /\ UNCHANGED <<page, tries>>

Turns == Click /\ settled' = FALSE /\ UNCHANGED <<filters, address, due>>

HasRows == shown.phase \in {"ready", "stale"} /\ shown.envelope # None

GoToNextPage ==
    /\ HasRows /\ shown.envelope.next # None
    /\ Turns
    /\ page' = [identity |-> RequestFilter, cursor |-> shown.envelope.next,
                previous |-> Append(ActivePage.previous, ActivePage.cursor)]
    /\ UNCHANGED tries

\* Slip: the page that is left stays among the pages before.
PageBefore_Kept == [ActivePage EXCEPT !.cursor = Last(ActivePage.previous)]

PageBefore ==
    [ActivePage EXCEPT !.cursor = Last(ActivePage.previous), !.previous = Front(ActivePage.previous)]

GoToPreviousPage ==
    /\ HasRows /\ ActivePage.previous # <<>>
    /\ Turns
    /\ page' = PageBefore
    /\ UNCHANGED tries

Retry ==
    /\ shown.phase \in {"stale", "unavailable", "error"}
    /\ Turns
    /\ tries' = tries + 1
    /\ UNCHANGED page

Publish ==
    /\ Quiet /\ current + 1 \in Revisions /\ current' = current + 1
    /\ UNCHANGED <<visitor, hook, known, asked, address, settled, due, troubles>>

Clicking ==
    \/ \E f \in Filters : Choose(f) \/ PopState(f)
    \/ GoToNextPage \/ GoToPreviousPage \/ Retry

Answering == Reply \/ ReplyFails \/ Body \/ BodyFails

BrowsingNext == RunEffects \/ Rejected \/ Answering \/ Clicking \/ Publish

(* React runs effects, the browser rejects what is aborted and every request *)
(* ends; the visitor need do nothing.                                        *)
BrowsingFairness ==
    WF_browsingVars(RunEffects) /\ WF_browsingVars(Rejected) /\ WF_browsingVars(Answering)

BrowsingSpec == BrowsingInit /\ [][BrowsingNext]_browsingVars /\ BrowsingFairness

---------------------------------------------------------------------------
(* Properties *)

AtRest == Quiet /\ request = None

BrowsingTypeOK ==
    /\ filters \in Filters /\ address \in Filters /\ due \in BOOLEAN
    /\ shown.phase \in {"loading", "ready", "stale", "unavailable", "error"}
    /\ page.cursor # None => page.cursor.page \in 2..Pages[page.cursor.rev][page.cursor.filter]
    /\ \A e, f \in stored : e.query = f.query => e = f
    /\ Cardinality(aborted) <= 2

(* Once no request is open, the page shows an outcome of what it now asks   *)
(* for, fresh, stale or failed, and never that of a request that was        *)
(* replaced (the effect of useBenchmarkLeaderboard).                        *)
EndsAsAsked ==
    AtRest => /\ shown.phase # "loading" /\ shown.for = Endpoint
              /\ shown.envelope # None => shown.envelope.query = Endpoint

(* The rows at rest are those of the filter that the controls show, and     *)
(* that the address gives when it is read again (by a reload), although the *)
(* first request leaves it out and answers may remove it.  The address is   *)
(* that filter, unless the visitor went back to an entry of the history     *)
(* with a filter that is no longer offered: nothing writes over it then.    *)
ControlsMatchRows ==
    AtRest /\ shown.envelope # None =>
        /\ filters = shown.envelope.query.filter
        /\ Normalized(address, shown.envelope.offered) = filters

(* The position printed beside a row counts the pages before it: the rows   *)
(* shown are those of the page that the walk has reached.  The rows of an   *)
(* aborted request, while they are shown, offer a next page that is not the *)
(* next of this walk.                                                       *)
RanksArePlaced ==
    AtRest /\ ~strayed /\ shown.envelope # None => shown.envelope.page = Len(ActivePage.previous) + 1

(* A walk through the pages never joins the lists of two revisions, unless  *)
(* it went on from the rows of an aborted request.                          *)
WalkIsOneList ==
    LET cursors == (Range(page.previous) \cup {page.cursor}) \ {None}
    IN ~strayed => \A c, d \in cursors : c.rev = d.rev

(* A failure other than a refusal does not hide an answer that the browser  *)
(* still holds for the same query (recover).                                *)
FailureKeepsRows ==
    AtRest /\ shown.phase \in {"unavailable", "error"} /\ shown.status # 400 =>
        \A e \in stored \cup ({lastValid} \ {None}) : e.query # Endpoint

(* A page is left with a refusal only when its filter is not in a list that *)
(* the site serves, never for a cursor of a list that was replaced.         *)
RefusedForItsFilter ==
    AtRest /\ shown.status = 400 =>
        ActivePage.cursor = None /\ \E r \in 1..current : filters \notin Offered[r] \cup {All}

(* Once a page is at rest, its rows, positions, controls and address belong to *)
(* the same request, the one that the visitor asked for last.                  *)
ShowsWhatIsAsked ==
    /\ BrowsingTypeOK
    /\ EndsAsAsked
    /\ ControlsMatchRows
    /\ RanksArePlaced
    /\ WalkIsOneList
    /\ FailureKeepsRows
    /\ RefusedForItsFilter
=============================================================================
