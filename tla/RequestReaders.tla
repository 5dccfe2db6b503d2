--------------------------- MODULE RequestReaders ---------------------------
(***************************************************************************)
(* The benchmark endpoints of the site (functions/api/benchmarks*,         *)
(* functions/_shared, functions/sitemaps, functions/compare) as readers of *)
(* the published tables.  A request is a sequence of separate queries,     *)
(* each of which may fail, while the Workers publish: one action per       *)
(* query, with the choice the handler makes from its result.  The queries  *)
(* of one Promise.all, all of one revision, are one action: rows of a      *)
(* revision are not rewritten.                                             *)
(*                                                                         *)
(* The tables move by whole publications (see BenchmarkPublication, whose  *)
(* last batch is atomic), abandoned candidates, unchanged refreshes, and   *)
(* cache-only republications, batch by batch, with their retention.        *)
(* Revisions are numbered in the order of generated_at.                    *)
(***************************************************************************)
EXTENDS Naturals, Sequences, SequencesExt, FiniteSets, FiniteSetsExt, Nothing

CONSTANTS
    Endpoints,     \* the endpoints of the instance
    LastRevision,  \* bound on revisions
    Republishers,  \* publication attempts of republishCache
    Members,       \* Members[r]: the models of revision r, as its public list orders them
    SlugIn,        \* SlugIn[r][m]: the slug that revision r gives to m
    Unreadable,    \* sets of revisions whose profiles the deployed site cannot parse
    Window,        \* freshness window
    WeekLength,
    LastTime,      \* bound on time
    Asked,         \* the slug of the profile that is asked for
    AskedPair,     \* the models of the comparison that is asked for
    PageSize,      \* rows of one page
    HistoryLimit,  \* profiles of one model that a listing looks at
    MaxRequests,   \* bound on the requests to each endpoint
    MaxFailures    \* bound on failed queries

ASSUME ReaderSizes ==
    /\ {Window, WeekLength, PageSize, HistoryLimit, LastRevision} \subseteq Nat \ {0}
    /\ LastTime \in Nat

Revisions == 1..LastRevision
Instants == 0..LastTime
Models == UNION {Range(Members[r]) : r \in Revisions}
Slugs == UNION {Range(SlugIn[r]) : r \in Revisions}

ASSUME ReaderLists ==
    /\ Endpoints \subseteq {"summary", "archived", "leaderboard", "profile", "popular", "everything",
                            "sitemap", "comparison"}
    /\ \A r \in Revisions : Members[r] \in Seq(Models)

Editions == [rev : Revisions, checked : Instants]
(* A set of responses is made by a cycle, or by a republication: the name of *)
(* the set ends with the attempt.                                            *)
ResponseSets == [rev : Revisions, checked : Instants, by : Republishers \cup {None}]
DirectoryRows ==
    [slug : Slugs, status : {"current", "archived"}, latest : Revisions, updated : Revisions \X Instants]

(* null is none of these. *)
ASSUME ReaderNone ==
    /\ None \notin ResponseSets /\ None \notin Republishers /\ None \notin DirectoryRows
    /\ None \notin {200, 304, 400, 404, 503}

VARIABLES
    now,
    endpoint,   \* what the client asks for
    broken,     \* the revisions whose profiles do not parse
    state,      \* publication_state of each revision
    active,     \* benchmark_publication_state
    checked,    \* checked_at of each revision
    built,      \* the checked_at with which the profiles of each revision were made
    sets,       \* complete response sets
    activeSet,  \* api_response_publication_state
    directory,  \* the durable directory: a row or None for each model
    weeks,      \* popular model weeks: [rev, at], or None
    republish,  \* each republication: its phase, and the set that it makes
    at,         \* the query that the request sends next; idle between requests
    read,       \* what the request knows
    answer,     \* the last answer
    held,       \* the answer that the client may revalidate
    cursor,     \* where the client continues
    gathered,   \* what the pages of one chain contained
    requests, failures

tables == <<now, broken, state, active, checked, built, sets, activeSet, directory, weeks, republish>>
client == <<endpoint, held, cursor, gathered, requests>>
readerVars == <<tables, at, read, answer, client, failures>>

Fresh(checkedAt, instant) == instant <= checkedAt + Window
WeekOf(instant) == instant \div WeekLength

FreshnessOf(isFresh) == IF isFresh THEN "fresh" ELSE "stale"
NewestFirst(revs) == Reverse(SetToSortSeq(revs, <))
NoAnswer == [status |-> None, body |-> None, etag |-> None, failed |-> 0, during |-> {}]

---------------------------------------------------------------------------
(* The tables *)

StagedProfiles(m) == {r \in Revisions : state[r] # "none" /\ m \in DOMAIN SlugIn[r]}

Row(slug, status, r, instant) == [slug |-> slug, status |-> status, latest |-> r, updated |-> <<r, instant>>]

OfCycle(r, instant) == [rev |-> r, checked |-> instant, by |-> None]

ReadersInit ==
    /\ now = 0
    /\ endpoint \in Endpoints
    /\ broken \in Unreadable
    /\ state = [r \in Revisions |-> IF r = 1 THEN "published" ELSE "none"]
    /\ active = 1
    /\ checked = [r \in Revisions |-> 0]
    /\ built = [r \in Revisions |-> 0]
    /\ \E deployed \in BOOLEAN :   \* before the first materialized publication there is no set
          /\ sets = IF deployed THEN {OfCycle(1, 0)} ELSE {}
          /\ activeSet = IF deployed THEN OfCycle(1, 0) ELSE None
    /\ republish = [p \in Republishers |-> [phase |-> "new", set |-> None]]
    /\ directory = [m \in Models |->
                       IF m \in DOMAIN SlugIn[1]
                       THEN Row(SlugIn[1][m], "current", 1, 0) ELSE None]
    /\ weeks = [w \in 0..WeekOf(LastTime) |-> IF w = 0 THEN [rev |-> 1, at |-> 0] ELSE None]
    /\ at = "idle" /\ read = None /\ answer = NoAnswer
    /\ held = None /\ cursor = None /\ gathered = <<>>
    /\ requests = 0 /\ failures = 0

Reading == UNCHANGED <<at, answer, client, failures>>

(* A request remembers, for the properties, the editions that were public. *)
Edition == [rev |-> active, checked |-> checked[active]]
Observe == read' = IF at = "idle" THEN read ELSE [read EXCEPT !.during = @ \cup {Edition'}]

Stage(r) ==
    /\ state[r] = "none" /\ \A s \in 1..(r - 1) : state[s] \notin {"none", "pending"}
    /\ state' = [state EXCEPT ![r] = "pending"]
    /\ checked' = [checked EXCEPT ![r] = now]
    /\ built' = [built EXCEPT ![r] = now]
    /\ sets' = sets \cup {OfCycle(r, now)}
    /\ Reading /\ UNCHANGED <<now, broken, active, activeSet, directory, weeks, republish, read>>

Abandon(r) ==
    /\ state[r] = "pending"
    /\ state' = [state EXCEPT ![r] = "abandoned"]
    /\ Reading
    /\ UNCHANGED <<now, broken, active, checked, built, sets, activeSet, directory, weeks, republish, read>>

\* Slip: the row takes the slug of the revision.
KeptSlug_Excluded(m, r) == SlugIn[r][m]

(* A slug, once given, stays; what the revision says of the model is newer. *)
KeptSlug(m, r) == IF directory[m] = None THEN SlugIn[r][m] ELSE directory[m].slug

DirectoryAfter(r, instant) ==
    [m \in Models |->
        IF m \in DOMAIN SlugIn[r] THEN Row(KeptSlug(m, r), "current", r, instant)
        ELSE IF directory[m] = None \/ directory[m].status = "archived" THEN directory[m]
        ELSE [directory[m] EXCEPT !.status = "archived", !.updated = <<r, instant>>]]

SlugsAreUnique(rows) ==
    \A m, n \in Models : m # n /\ None \notin {rows[m], rows[n]} => rows[m].slug # rows[n].slug

(* A week keeps its list unless the new one ranks more models. *)
WeeksAfter(r, instant) ==
    LET w == WeekOf(instant)
    IN IF weeks[w] = None \/ Len(Members[weeks[w].rev]) < Len(Members[r])
       THEN [weeks EXCEPT ![w] = [rev |-> r, at |-> instant]] ELSE weeks

(* The pointer refers to a stored set of the active revision: the foreign   *)
(* key, and the trigger of the migration.                                   *)
Publish(r) ==
    /\ state[r] = "pending" /\ OfCycle(r, checked[r]) \in sets
    /\ SlugsAreUnique(DirectoryAfter(r, checked[r]))
    /\ state' = [state EXCEPT ![r] = "published"]
    /\ active' = r
    /\ activeSet' = OfCycle(r, checked[r])
    /\ directory' = DirectoryAfter(r, checked[r])
    /\ weeks' = WeeksAfter(r, checked[r])
    /\ Reading /\ UNCHANGED <<now, broken, checked, built, sets, republish>> /\ Observe

(* The sources have not changed: the same revision under a new check. *)
Recheck ==
    /\ checked[active] < now /\ \A r \in Revisions : state[r] # "pending"
    /\ checked' = [checked EXCEPT ![active] = now]
    /\ sets' = sets \cup {OfCycle(active, now)}
    /\ activeSet' = OfCycle(active, now)
    /\ directory' = DirectoryAfter(active, now)
    /\ weeks' = WeeksAfter(active, now)
    /\ Reading /\ UNCHANGED <<now, broken, state, active, built, republish>> /\ Observe

Tick ==
    /\ now < LastTime /\ now' = now + 1
    /\ Reading
    /\ UNCHANGED <<broken, state, active, checked, built, sets, activeSet, directory, weeks, republish, read>>

---------------------------------------------------------------------------
(* republishCache: the responses of the active revision again, by the same *)
(* version of the Worker, and nothing else.                                *)

OtherTables == UNCHANGED <<now, broken, state, active, checked, built, directory, weeks, read>>

Proceeds(p, phase, set) == republish' = [republish EXCEPT ![p] = [phase |-> phase, set |-> set]]

\* Slip: the set is dated by its republication.
Snapshot_Now(p) == [rev |-> active, checked |-> now, by |-> p]

(* A republication checks nothing: its set has the date of the snapshot. *)
Snapshot(p) == [rev |-> active, checked |-> checked[active], by |-> p]

RepublishReads(p) ==
    /\ republish[p].phase = "new"
    /\ Proceeds(p, "read", Snapshot(p))
    /\ Reading /\ OtherTables /\ UNCHANGED <<sets, activeSet>>

RepublishStages(p) ==
    /\ republish[p].phase = "read"
    /\ Proceeds(p, "staged", republish[p].set)
    /\ sets' = sets \cup {republish[p].set}
    /\ Reading /\ OtherTables /\ UNCHANGED activeSet

(* What may be left after a retention pass: the active set and the newest   *)
(* other one, whatever its revision; the names of the sets break a tie.     *)
Retained(set) ==
    LET others == sets \ {set}
        newest == {s \in others : \A t \in others : t.checked <= s.checked}
    IN IF others = {} THEN {{set}} ELSE {{set, s} : s \in newest}

\* Slip: the trigger does not look at the active revision.
MayPointTo_Stored(set) == set \in sets

MayPointTo(set) == set \in sets /\ set.rev = active

(* The last batch, whose reply may be lost. *)
RepublishCommits(p) ==
    /\ republish[p].phase = "staged" /\ MayPointTo(republish[p].set)
    /\ activeSet' = republish[p].set
    /\ sets' \in Retained(republish[p].set)
    /\ \/ Proceeds(p, "closed", None)
       \/ Proceeds(p, "sent", republish[p].set)
    /\ Reading /\ OtherTables

(* A batch is rejected, or so it seems; the cleanup, which may fail too,    *)
(* takes the set if no pointer refers to it.                                *)
RepublishFails(p) ==
    /\ republish[p].phase \in {"read", "staged", "sent"}
    /\ Proceeds(p, "closed", None)
    /\ sets' \in {sets, sets \ ({republish[p].set} \ {activeSet})}
    /\ Reading /\ OtherTables /\ UNCHANGED activeSet

RepublishStep(p) == RepublishReads(p) \/ RepublishStages(p) \/ RepublishCommits(p) \/ RepublishFails(p)

---------------------------------------------------------------------------
(* The instance ends with its last request. *)
Remaining == at # "idle" \/ requests < MaxRequests[endpoint]

Publishing == Remaining /\ (\/ \E r \in Revisions : Stage(r) \/ Abandon(r) \/ Publish(r)
                            \/ Recheck \/ Tick
                            \/ \E p \in Republishers : RepublishStep(p))

---------------------------------------------------------------------------
(* Durable profiles, and the rows that name them *)

RowsOf(models) == [i \in DOMAIN models |-> [model |-> models[i], row |-> directory[models[i]]]]

(* parseModelProfileSnapshotData, and the identity that the row expects. *)
IsValidProfile(entry, r) == r \notin broken /\ SlugIn[r][entry.model] = entry.row.slug

(* The profile of the latest revision if it is valid, else the newest that is. *)
Selected(entry, revs) ==
    LET valid == SelectSeq(revs, LAMBDA r : IsValidProfile(entry, r))
    IN IF entry.row.latest \in Range(valid) THEN entry.row.latest
       ELSE IF valid = <<>> THEN None ELSE Head(valid)

(* The newest profiles of a model, whatever became of their revisions. *)
Recent(m) ==
    LET revs == NewestFirst(StagedProfiles(m)) IN SubSeq(revs, 1, Min({HistoryLimit, Len(revs)}))

WithProfiles(entries) == SelectSeq(entries, LAMBDA e : Selected(e, Recent(e.model)) # None)

HasPage(m) == directory[m] # None /\ WithProfiles(RowsOf(<<m>>)) # <<>>

---------------------------------------------------------------------------
(* Answers *)

Body(rev, checkedAt, freshness, items) ==
    [rev |-> rev, checked |-> checkedAt, freshness |-> freshness, items |-> items]

(* etagForBenchmarkResponse; the parameters are those of the endpoint. *)
BenchmarkEtag(body) == <<endpoint, body.rev, body.checked, body.freshness>>

Succeeds == UNCHANGED failures
Fails == failures < MaxFailures /\ failures' = failures + 1
Failed == read.failed + (failures' - failures)

Continue(query, knows) ==
    /\ at' = query /\ read' = [knows EXCEPT !.failed = Failed]
    /\ UNCHANGED <<tables, answer, client>>

Finish(status, body, etag) ==
    /\ at' = "idle"
    /\ answer' = [status |-> status, body |-> body, etag |-> etag,
                  failed |-> Failed, during |-> read.during]
    /\ UNCHANGED <<tables, read, endpoint, requests>>

Refuse(status) == Finish(status, None, None) /\ cursor' = None /\ UNCHANGED <<held, gathered>>

(* The client revalidates what it holds of the first page; a page that it   *)
(* accepts extends the chain, or begins a new one.                          *)
NotModified(etag) == read.cursor = None /\ held # None /\ held.etag = etag

Respond(body, etag, next) ==
    IF NotModified(etag)
    THEN Finish(304, body, etag) /\ UNCHANGED <<held, cursor, gathered>>
    ELSE /\ Finish(200, body, etag)
         /\ cursor' = next
         /\ gathered' = gathered \o body.items
         /\ held' = IF read.cursor = None /\ etag # None THEN [etag |-> etag, body |-> body] ELSE held

Listings == {"popular", "everything"}

FirstQuery ==
    CASE endpoint \in {"summary", "archived", "leaderboard"} -> "cache"
      [] endpoint = "profile" -> "entry"
      [] endpoint \in Listings -> "week"
      [] endpoint = "sitemap" -> "page"
      [] endpoint = "comparison" -> "revision"

Begin(from) ==
    /\ at = "idle" /\ requests < MaxRequests[endpoint] /\ requests' = requests + 1
    /\ at' = FirstQuery
    /\ read' = [start |-> now, failed |-> 0, cursor |-> from,
                during |-> {Edition} \cup (IF from = None THEN {} ELSE answer.during),
                rev |-> None, checked |-> None, rows |-> <<>>, week |-> None,
                parts |-> {}, offset |-> 0, more |-> FALSE, items |-> <<>>,
                known |-> {m \in Models : HasPage(m)},
                stored |-> activeSet # None]
    /\ answer' = NoAnswer
    /\ cursor' = from /\ gathered' = IF from = None THEN <<>> ELSE gathered
    /\ UNCHANGED <<tables, endpoint, held, failures>>

---------------------------------------------------------------------------
(* Response sets *)

\* Slip: the boundary of the query is not that of freshnessFor.
IsFreshVariant_Before(set, instant) == set.checked > instant - Window

IsFreshVariant(set, instant) == set.checked >= instant - Window

Cached(set, freshness) ==
    Body(set.rev, set.checked, freshness, IF endpoint = "leaderboard" THEN Members[set.rev] ELSE <<>>)

CachedNow(instant) == Cached(activeSet, FreshnessOf(IsFreshVariant(activeSet, instant)))

(* The newest by checked_at, then by name: sets that differ in the attempt *)
(* alone hold the same responses.                                          *)
NewestSet ==
    CHOOSE s \in sets : \A t \in sets : t.checked < s.checked \/ (t.checked = s.checked /\ t.rev <= s.rev)

\* Slip: only the offset counts.
CursorFits_Offset(rev) == TRUE

(* A cursor is bound to the revision whose list it continues. *)
CursorFits(rev) == read.cursor = None \/ read.cursor.rev = rev

Page(items, offset) == SubSeq(items, offset + 1, Min({offset + PageSize, Len(items)}))

ServeLeaderboard(whole) ==
    LET offset == IF read.cursor = None THEN 0 ELSE read.cursor.offset
        body == [whole EXCEPT !.items = Page(whole.items, offset)]
        more == offset + PageSize < Len(whole.items)
    IN IF ~CursorFits(whole.rev) \/ (read.cursor # None /\ offset >= Len(whole.items))
       THEN Refuse(400)
       ELSE Respond(body, <<BenchmarkEtag(body), read.cursor>>,
                    IF more THEN [rev |-> whole.rev, offset |-> offset + PageSize] ELSE None)

ServeSet(body) ==
    IF endpoint = "leaderboard" THEN ServeLeaderboard(body) ELSE Respond(body, BenchmarkEtag(body), None)

(* Only these requests have a response of their own. *)
Materialized == endpoint = "summary" \/ (endpoint = "leaderboard" /\ read.cursor = None)

AfterCache == IF endpoint = "leaderboard" THEN "projection" ELSE "revision"

ReadCache ==
    /\ at = "cache"
    /\ \/ Fails /\ Continue(AfterCache, read)
       \/ Succeeds /\ IF Materialized /\ activeSet # None THEN ServeSet(CachedNow(read.start))
                      ELSE Continue(AfterCache, read)

ReadProjection ==
    /\ at = "projection"
    /\ \/ Fails /\ Continue("oldProjection", read)
       \/ Succeeds /\ IF activeSet # None THEN ServeLeaderboard(CachedNow(read.start))
                      ELSE Continue("oldProjection", read)

ReadOldProjection ==
    /\ at = "oldProjection"
    /\ \/ Fails /\ Continue("historical", read)
       \/ Succeeds /\ IF sets # {} THEN ServeLeaderboard(Cached(NewestSet, "stale"))
                      ELSE Continue("historical", read)

\* Slip: the variant that the window gives.
HistoricalVariant_Window == FreshnessOf(IsFreshVariant(NewestSet, read.start))

(* The variant that the last query selects. *)
HistoricalVariant == "stale"

\* Slip: only the key of the request is tried.
HasHistory_Own == sets # {} /\ Materialized

(* Archived points have no response of their own: the current ones serve. *)
HasHistory == sets # {} /\ (Materialized \/ endpoint = "archived")

\* Slip: a request without a stored response set goes on to no query.
ReadHistorical_Unguarded ==
    /\ at = "historical" /\ Succeeds
    /\ IF HasHistory THEN ServeSet(Cached(NewestSet, HistoricalVariant)) ELSE Continue("rebuild", read)

ReadHistorical ==
    /\ at = "historical"
    /\ \/ Fails /\ Refuse(503)
       \/ Succeeds /\ IF HasHistory THEN ServeSet(Cached(NewestSet, HistoricalVariant)) ELSE Refuse(503)

---------------------------------------------------------------------------
(* The active revision *)

\* Slip: every query joins the publication state.
FactsRevision_Active == active

(* The revision whose rows the queries of one request select. *)
FactsRevision == read.rev

WithFacts == [read EXCEPT !.parts = @ \cup {FactsRevision}]

ReadRevision ==
    /\ at = "revision"
    /\ \/ Fails /\ IF endpoint \in {"profile", "comparison"} THEN Refuse(503)
                   ELSE Continue("historical", read)
       \/ Succeeds /\ Continue("facts", [read EXCEPT !.rev = active, !.checked = checked[active]])

Rebuilt(items) == Body(read.rev, read.checked, FreshnessOf(Fresh(read.checked, read.start)), items)

ReadFacts ==
    /\ at = "facts" /\ endpoint \in {"summary", "archived"}
    /\ \/ Fails /\ Continue("historical", read)
       \/ /\ Succeeds
          /\ IF endpoint = "archived" THEN Continue("archivedRows", WithFacts)
             ELSE Respond(Rebuilt(<<>>), BenchmarkEtag(Rebuilt(<<>>)), None)

CurrentPoints == [i \in DOMAIN Members[read.rev] |-> [model |-> Members[read.rev][i], status |-> "current"]]

ServePoints(archived) ==
    LET body == Rebuilt(CurrentPoints \o archived) IN Respond(body, BenchmarkEtag(body), None)

BySlug(models) == SetToSortSeq(models, LAMBDA m, n : directory[m].slug < directory[n].slug)

ReadArchivedRows ==
    /\ at = "archivedRows"
    /\ \/ Fails /\ ServePoints(<<>>)
       \/ /\ Succeeds
          /\ LET archived == {m \in Models : directory[m] # None /\ directory[m].status = "archived"}
             IN Continue("archivedProfiles", [read EXCEPT !.rows = RowsOf(BySlug(archived))])

ReadArchivedProfiles ==
    /\ at = "archivedProfiles"
    /\ \/ Fails /\ ServePoints(<<>>)
       \/ /\ Succeeds
          /\ LET shown == WithProfiles(read.rows)
             IN ServePoints([i \in DOMAIN shown |-> [model |-> shown[i].model, status |-> "archived"]])

(* onRequestGet of one model: the entry, its profiles, the aliases (none is *)
(* written), and then the rows of the active revision.                      *)
ReadEntry ==
    /\ at = "entry"
    /\ \/ Fails /\ Continue("revision", read)
       \/ /\ Succeeds
          /\ LET found == {m \in Models : directory[m] # None /\ directory[m].slug = Asked}
             IN Continue(IF found = {} THEN "alias" ELSE "profiles", [read EXCEPT !.rows = RowsOf(SetToSeq(found))])

(* A profile keeps the checked_at with which it was built. *)
ProfileIsFresh(entry, r) ==
    /\ r = entry.row.latest /\ entry.row.status = "current" /\ Fresh(built[r], now)

ProfileBody(entry, r) ==
    Body(r, built[r], FreshnessOf(ProfileIsFresh(entry, r)), <<entry>>)

\* Slip: the directory row is not part of the tag.
ProfileEtag_Profile(entry, body) == <<entry.model, <<>>, body.rev, body.checked, body.freshness>>

ProfileEtag(entry, body) == <<entry.model, entry.row.updated, body.rev, body.checked, body.freshness>>

ReadProfiles ==
    /\ at = "profiles"
    /\ \/ Fails /\ Continue("revision", read)
       \/ /\ Succeeds
          /\ LET entry == Head(read.rows)
                 r == Selected(entry, <<entry.row.latest>> \o Recent(entry.model))
             IN IF r = None THEN Continue("alias", read)
                ELSE Respond(ProfileBody(entry, r), ProfileEtag(entry, ProfileBody(entry, r)), None)

ReadAlias ==
    /\ at = "alias"
    /\ \/ Fails /\ Continue("revision", read)
       \/ Succeeds /\ Continue("revision", read)

ReadModel ==
    /\ at = "facts" /\ endpoint = "profile"
    /\ \/ Fails /\ Refuse(503)
       \/ /\ Succeeds
          /\ IF Asked \in Range(SlugIn[read.rev])
             THEN LET body == Rebuilt(<<>>) IN Respond(body, BenchmarkEtag(body), None)
             ELSE Refuse(404)

(* A comparison page: the models of the route, their facts and pairs, and   *)
(* the models of related pairs.                                             *)
ReadRoute ==
    /\ at = "facts" /\ endpoint = "comparison"
    /\ \/ Fails /\ Refuse(503)
       \/ Succeeds /\ IF AskedPair \subseteq DOMAIN SlugIn[FactsRevision] THEN Continue("pairs", WithFacts)
                      ELSE Refuse(404)

ReadPairs ==
    /\ at = "pairs"
    /\ \/ Fails /\ Refuse(503)
       \/ Succeeds /\ Continue("related", WithFacts)

ReadRelated ==
    /\ at = "related"
    /\ \/ Fails /\ Refuse(503)
       \/ Succeeds /\ Finish(200, Rebuilt(<<>>), None) /\ UNCHANGED <<held, cursor, gathered>>

---------------------------------------------------------------------------
(* The directory and the sitemap *)

LatestWeek == LET written == {w \in DOMAIN weeks : weeks[w] # None} IN weeks[Max(written)]

ReadWeek ==
    /\ at = "week"
    /\ \/ Fails /\ Refuse(503)
       \/ Succeeds /\ Continue("rows", [read EXCEPT !.week = LatestWeek,
                                                    !.offset = IF read.cursor = None THEN 0 ELSE read.cursor])

(* The weekly list without the models that are archived, or every model. *)
ListingRows ==
    IF endpoint = "popular"
    THEN SelectSeq(Members[read.week.rev], LAMBDA m : directory[m].status = "current")
    ELSE BySlug({m \in Models : directory[m] # None})

\* Slip: the rows of one page are fetched, not one more.
HasMore_Page == Len(Page(ListingRows, read.offset)) > PageSize

(* One row more than the page shows whether there is another. *)
HasMore == read.offset + PageSize < Len(ListingRows)

ReadRows ==
    /\ at = "rows"
    /\ \/ Fails /\ Refuse(503)
       \/ /\ Succeeds
          /\ Continue("rowProfiles",
                      [read EXCEPT !.rows = RowsOf(Page(ListingRows, read.offset)),
                                   !.more = HasMore])

Entry(e) == [model |-> e.model, row |-> e.row, rev |-> Selected(e, Recent(e.model))]

(* modelDirectoryEnvelopeDigest *)
ListingEtag(body) ==
    <<endpoint, body.rev, body.checked, body.freshness,
      [i \in DOMAIN body.items |-> <<body.items[i].model, body.items[i].rev>>]>>

ReadRowProfiles ==
    /\ at = "rowProfiles"
    /\ \/ Fails /\ Refuse(503)
       \/ /\ Succeeds
          /\ LET shown == WithProfiles(read.rows)
                 body == Body(read.week.rev, read.week.at, FreshnessOf(Fresh(read.week.at, now)),
                              [i \in DOMAIN shown |-> Entry(shown[i])])
             IN Respond(body, ListingEtag(body), IF read.more THEN read.offset + PageSize ELSE None)

(* readSitemapEntries: pages of the whole directory, by slug. *)
ReadSitemapPage ==
    /\ at = "page"
    /\ \/ Fails /\ Refuse(503)
       \/ /\ Succeeds
          /\ Continue("pageProfiles",
                      [read EXCEPT !.rows = RowsOf(Page(BySlug({m \in Models : directory[m] # None}),
                                                        read.offset))])

\* Slip: the entries that are listed are counted.
LastPage_Listed(listed) == Len(listed) < PageSize

(* A page that is not full is the last. *)
LastPage(listed) == Len(read.rows) < PageSize

ReadSitemapProfiles ==
    /\ at = "pageProfiles"
    /\ \/ Fails /\ Refuse(503)
       \/ /\ Succeeds
          /\ LET listed == WithProfiles(read.rows)
                 items == read.items \o [i \in DOMAIN listed |-> listed[i].model]
             IN IF LastPage(listed)
                THEN /\ Finish(200, Body(None, None, None, items), None)
                     /\ UNCHANGED <<held, cursor, gathered>>
                ELSE Continue("page", [read EXCEPT !.items = items, !.offset = @ + PageSize])

---------------------------------------------------------------------------
Requesting == Begin(None) \/ (cursor # None /\ Begin(cursor))

Serving ==
    \/ ReadCache \/ ReadProjection \/ ReadOldProjection \/ ReadHistorical
    \/ ReadRevision \/ ReadFacts \/ ReadArchivedRows \/ ReadArchivedProfiles
    \/ ReadEntry \/ ReadProfiles \/ ReadAlias \/ ReadModel
    \/ ReadRoute \/ ReadPairs \/ ReadRelated
    \/ ReadWeek \/ ReadRows \/ ReadRowProfiles \/ ReadSitemapPage \/ ReadSitemapProfiles

ReadersNext == Publishing \/ Requesting \/ Serving

ReadersSpec == ReadersInit /\ [][ReadersNext]_readerVars

---------------------------------------------------------------------------
(* Properties *)

Answered == at = "idle" /\ answer.status # None

ReadersTypeOK ==
    /\ state \in [Revisions -> {"none", "pending", "abandoned", "published"}]
    /\ state[active] = "published"
    /\ sets \subseteq ResponseSets
    /\ activeSet \in sets \cup {None}
    /\ at \in {"idle", "cache", "projection", "oldProjection", "historical", "revision", "facts",
               "archivedRows", "archivedProfiles", "entry", "profiles", "alias", "pairs", "related",
               "week", "rows", "rowProfiles", "page", "pageProfiles"}
    /\ answer.status \in {None, 200, 304, 400, 404, 503}

(* The stored response and the one rebuilt from the active revision say the *)
(* same of its freshness, so that a failed read of the cache cannot be seen *)
(* (ACTIVE_CACHE_QUERY and freshnessFor).  A republication whose snapshot   *)
(* is older than the last check may leave an earlier date in the cache:     *)
(* then the stored response is never the fresher of the two.                *)
PathsAgree ==
    activeSet # None =>
        LET stored == CachedNow(now)
            rebuilt == FreshnessOf(Fresh(checked[active], now))
        IN /\ stored.rev = active /\ stored.checked <= checked[active]
           /\ stored.freshness = "fresh" => rebuilt = "fresh"
           /\ activeSet.by = None => stored.checked = checked[active] /\ stored.freshness = rebuilt

(* An answer that is called fresh names a revision that was the published   *)
(* one while the request ran, and facts that were checked within the        *)
(* window: no fallback makes old or unpublished facts fresh.                *)
FreshNamesCurrent ==
    (/\ Answered /\ answer.body # None
     /\ endpoint \in {"summary", "archived", "leaderboard", "profile"}
     /\ answer.body.freshness = "fresh")
    => (\E d \in answer.during : d.rev = answer.body.rev) /\ Fresh(answer.body.checked, read.start)

(* All that an answer rebuilt from several queries says is of the one       *)
(* revision that it names (readActiveBenchmarkSnapshot and the targeted     *)
(* readers).                                                                *)
FactsOfOneRevision ==
    Answered /\ answer.body # None /\ read.parts # {} => read.parts \subseteq {answer.body.rev}

(* The pages that a client collects by following the cursors of the         *)
(* leaderboard are one list of one revision, without gap or repetition,     *)
(* whatever is published, rechecked or fails in between.                    *)
ChainIsOneList ==
    endpoint = "leaderboard" =>
        /\ \E r \in Revisions : IsPrefix(gathered, Members[r])
        /\ cursor # None => gathered = SubSeq(Members[cursor.rev], 1, cursor.offset)

(* A client that is told that nothing changed holds what it would have been *)
(* sent.                                                                    *)
RevalidationIsTrue ==
    answer.status = 304 /\ endpoint \in {"summary", "leaderboard", "profile"} => held.body = answer.body

(* No single failed query makes an endpoint with a fallback unavailable     *)
(* once a response set is stored (serveBenchmarkWithFallback).              *)
FailuresAreCovered ==
    Answered /\ answer.status = 503 /\ read.stored /\ endpoint \in {"summary", "archived", "leaderboard"}
    => answer.failed >= 2

(* The sitemap misses no model that had a page when the request began and   *)
(* still has one, although it reads pages by offset while models are added, *)
(* and skips rows without a valid profile (readSitemapEntries).             *)
SitemapMissesNothing ==
    Answered /\ endpoint = "sitemap" /\ answer.status = 200 =>
        \A m \in read.known : HasPage(m) => m \in Range(answer.body.items)

(* A client that follows the cursors of a listing is shown every model of   *)
(* the list whose profiles are valid, once, if nothing is published in      *)
(* between; the cursor is an offset, and promises no more.                  *)
ListingIsComplete ==
    Answered /\ endpoint \in Listings /\ answer.status = 200 /\ cursor = None
    /\ answer.during = {Edition} =>
        LET models == [i \in DOMAIN gathered |-> gathered[i].model]
            listed == Range(ListingRows)
        IN /\ IsInjective(models)
           /\ \A m \in listed :
                 (\A r \in StagedProfiles(m) : r \notin broken /\ SlugIn[r][m] = directory[m].slug)
                 => m \in Range(models)

(* An address, once published, keeps naming the same model: no publication  *)
(* removes a directory row or changes its slug.                             *)
AddressesAreKept ==
    [][\A m \in Models : directory[m] # None =>
          directory'[m] # None /\ directory'[m].slug = directory[m].slug]_directory

(* Who follows the cursors of a listing, or reads the sitemap, is given each *)
(* row that the walk promises, once.                                         *)
WalksAreWhole ==
    /\ ListingIsComplete
    /\ SitemapMissesNothing

(* Whatever is published or fails between its queries, an answer is of one      *)
(* revision, fresh only when it is, revalidated only against itself, and there; *)
(* and the pages of a board that a client collects are one list.                *)
AnswersAreTrue ==
    /\ ReadersTypeOK
    /\ PathsAgree
    /\ FreshNamesCurrent
    /\ FactsOfOneRevision
    /\ RevalidationIsTrue
    /\ FailuresAreCovered
    /\ ChainIsOneList
=============================================================================
