----------------------------- MODULE SourceSteps -----------------------------
(***************************************************************************)
(* The retrieval of the benchmark sources: one upstream request per alarm, *)
(* over many alarms, while every upstream goes on publishing.              *)
(*                                                                         *)
(* A step reads the checkpoint, makes its request, writes immutable        *)
(* objects to R2 and only then stores the next checkpoint, so a crash      *)
(* between the two replays it against whatever upstream serves by then.    *)
(* Bytes are named by what they hold, a digest is the bytes themselves,    *)
(* and a key is content-addressed under the prefix of its cycle.           *)
(***************************************************************************)
EXTENDS Naturals, Sequences, FiniteSets, SequencesExt, Nothing

CONSTANTS
    BenchLm,        \* the BenchLM artifacts, in the order of retrieval
    Public,         \* the one of them that carries a date of its own
    Subsets,        \* the LMArena subsets, in the order of retrieval
    PageCount,      \* PageCount[r][s]: pages of subset s in dataset revision r
    MaxGeneration,  \* bound on what upstream publishes
    MaxCycle,       \* bound on the cycles
    MaxAttempts,    \* attempts of a step
    MaxFaults       \* bound on failed requests and on crashes between R2 and the checkpoint

ASSUME SourceAssumption ==
    /\ Public \in Range(BenchLm)
    /\ MaxGeneration \in Nat \ {0} /\ MaxCycle \in Nat /\ MaxAttempts \in Nat \ {0}
    /\ MaxFaults \in Nat
    /\ \A r \in 1..MaxGeneration : \A s \in Range(Subsets) : PageCount[r][s] \in Nat \ {0}

VARIABLES
    upstream,   \* upstream[a]: the generation of an artifact that is served now
    hub,        \* the dataset revision the Hub names
    viewer,     \* the dataset revision the Dataset Viewer serves, never ahead
    r2,         \* the keys of the stored objects
    published,  \* the source records of the published revision
    cycle,      \* the running cycle, or the last one
    phase,      \* its phase, "idle" when no cycle runs
    cursor,     \* its cursor within the phase
    attempt,    \* failed attempts of the current step
    cp,         \* the checkpoint
    served,     \* what upstream served since the cycle started
    faults      \* failures and crashes left

sourceVars == <<upstream, hub, viewer, r2, published, cycle, phase, cursor, attempt, cp, served, faults>>
upstreamVars == <<upstream, hub, viewer>>

Lite == "model-prices"
Artifacts == Range(BenchLm) \cup {Lite}
Phases == {"idle", "benchlm", "assemble", "litellm", "revision", "pages", "normalize", "publish"}

(* BENCHLM_ARTIFACTS and LMARENA_SUBSETS are lists of different names. *)
ASSUME SourceNames ==
    /\ BenchLm \in Seq(Range(BenchLm)) /\ Lite \notin Range(BenchLm)
    /\ Subsets \in Seq(Range(Subsets)) /\ Subsets # <<>> /\ Range(Subsets) \cap Artifacts = {}
    /\ \A i, j \in DOMAIN Subsets : Subsets[i] = Subsets[j] => i = j

----------------------------------------------------------------------------
(* Objects and the records that name them.                                 *)

Raw(a, g) == [art |-> a, gen |-> g, form |-> "raw"]
Projected(bytes) == [bytes EXCEPT !.form = "v3"]
PageBytes(s, r, k, t) == [art |-> s, gen |-> r, form |-> t, page |-> k]

ObjectKey(c, dir, bytes) == [cycle |-> c, dir |-> dir, bytes |-> bytes]

Generation == 1..MaxGeneration
SourceBytes == [art : Artifacts, gen : Generation, form : {"raw", "v3"}]
SourceKey == [cycle : Nat, dir : {"legacy", "raw", "v3", "litellm"}, bytes : SourceBytes]
SourceRecord == [art : Artifacts, key : SourceKey, etag : Generation]

ASSUME SourceNone ==
    None \notin Nat /\ None # "v3" /\ None \notin SourceRecord /\ None \notin Seq(SourceRecord)

(* The internal format of a BenchLM object travels in its key. *)
ProjectionVersionFromKey(key) == IF key.dir = "v3" THEN "v3" ELSE None

Descriptor(a, key, etag) == [art |-> a, key |-> key, etag |-> etag]

(* The artifact that a conditional request may name: a source record of the *)
(* published revision, and for BenchLM only one in today's projection.      *)
Validator(a) ==
    LET usable == {d \in cp.validators : d.art = a
                      /\ (a \in Range(BenchLm) => ProjectionVersionFromKey(d.key) # None)}
    IN IF usable = {} THEN None ELSE CHOOSE d \in usable : TRUE

(* All the BenchLM records or none of them are offered for reuse. *)
FrozenValidators(records) ==
    LET benchlm == {d \in records : d.art \in Range(BenchLm)}
        complete == /\ {d.art : d \in benchlm} = Range(BenchLm)
                    /\ Cardinality(benchlm) = Len(BenchLm)
                    /\ \A d \in benchlm : ProjectionVersionFromKey(d.key) # None
    IN IF complete THEN records ELSE records \ benchlm

FreshProgress == [subset |-> 1, offset |-> 0, total |-> None, transport |-> "viewer", download |-> None]

NewCheckpoint == [validators |-> FrozenValidators(published), benchLm |-> <<>>, bundle |-> None,
    lite |-> None, revision |-> None, pages |-> <<>>, progress |-> FreshProgress, normalized |-> <<>>]

(* The objects of a step are written, then its checkpoint is stored; a      *)
(* crash in between leaves only the objects.                                *)
Store(objects, next, nextPhase, nextCursor) ==
    /\ r2' = r2 \cup objects
    /\ \/ cp' = next /\ phase' = nextPhase /\ cursor' = nextCursor /\ attempt' = 0
          /\ UNCHANGED faults
       \/ faults > 0 /\ faults' = faults - 1
          /\ UNCHANGED <<cp, phase, cursor, attempt>>
    /\ UNCHANGED <<upstreamVars, published, cycle, served>>

\* Slip: attempts are counted and never run out.
Fail_Endless ==
    /\ attempt' = attempt + 1 /\ attempt < MaxAttempts
    /\ UNCHANGED <<upstreamVars, r2, published, cycle, phase, cursor, cp, served>>

(* A failed step is tried again by a later alarm, until it has had all its  *)
(* attempts and takes the cycle with it.                                    *)
Fail ==
    /\ IF attempt + 1 < MaxAttempts
       THEN attempt' = attempt + 1 /\ UNCHANGED phase
       ELSE attempt' = 0 /\ phase' = "idle"
    /\ UNCHANGED <<upstreamVars, r2, published, cycle, cursor, cp, served>>

----------------------------------------------------------------------------
SourceInit ==
    /\ upstream = [a \in Artifacts |-> 1] /\ hub = 1 /\ viewer = 1
    \* Nothing was published yet, or a revision from before the projections.
    /\ \E old \in BOOLEAN :
         LET legacy == {Descriptor(a, ObjectKey(0, "legacy", Raw(a, 1)), 1) : a \in Artifacts}
         IN /\ published = IF old THEN legacy ELSE {}
            /\ r2 = {d.key : d \in published}
    /\ cycle = 0 /\ phase = "idle" /\ cursor = 1 /\ attempt = 0
    /\ cp = NewCheckpoint
    /\ served = [a \in Artifacts |-> {}]
    /\ faults = MaxFaults

StartCycle ==
    /\ phase = "idle" /\ cycle < MaxCycle
    /\ cycle' = cycle + 1 /\ phase' = "benchlm" /\ cursor' = 1 /\ attempt' = 0
    /\ cp' = NewCheckpoint
    /\ served' = [a \in Artifacts |-> {upstream[a]}]
    /\ UNCHANGED <<upstreamVars, r2, published, faults>>

(* A conditional request is answered 304 exactly when its etag is current;  *)
(* the bytes the validator names are then copied under the own prefix.      *)
NotModified(a) == Validator(a) # None /\ Validator(a).etag = upstream[a]
\* Slip: the record of the other cycle is used as it is.
Reuse_Foreign(a) == Validator(a)
Reuse(a) == LET d == Validator(a) IN
    [d EXCEPT !.key = ObjectKey(cycle, CASE a = Lite -> "litellm"
                                   [] ProjectionVersionFromKey(d.key) = "v3" -> "v3"
                                   [] OTHER -> "raw", d.key.bytes)]

RetrieveBenchLm ==
    /\ phase = "benchlm"
    /\ LET a == BenchLm[cursor]
           d == IF NotModified(a) THEN Reuse(a)
                ELSE Descriptor(a, ObjectKey(cycle, "raw", Raw(a, upstream[a])), upstream[a])
       IN /\ NotModified(a) => Validator(a).key \in r2
          /\ Store({d.key}, [cp EXCEPT !.benchLm = Append(@, d)],
                   IF cursor < Len(BenchLm) THEN "benchlm" ELSE "assemble",
                   IF cursor < Len(BenchLm) THEN cursor + 1 ELSE 1)

\* Slip: what was answered 304 is not compared.
Whole_Fresh(ds) == \A d, e \in {x \in Range(ds) : x.key.dir = "raw"} :
    d.art # Public /\ e.art # Public => d.key.bytes.gen = e.key.bytes.gen

(* Every artifact but the public leaderboard must have been generated at    *)
(* the same time.                                                           *)
Whole(ds) == \A d, e \in Range(ds) :
    d.art # Public /\ e.art # Public => d.key.bytes.gen = e.key.bytes.gen

\* Slip: the headers of the first artifact stand for all.
ProjectedDescriptor_Etag(d) ==
    Descriptor(d.art, ObjectKey(cycle, "v3", Projected(d.key.bytes)), cp.benchLm[1].etag)

ProjectedDescriptor(d) ==
    Descriptor(d.art, ObjectKey(cycle, "v3", Projected(d.key.bytes)), d.etag)

AssembleBenchLm ==
    /\ phase = "assemble"
    /\ {d.key : d \in Range(cp.benchLm)} \subseteq r2
    /\ Whole(cp.benchLm)
    /\ LET bundle == [i \in DOMAIN cp.benchLm |-> ProjectedDescriptor(cp.benchLm[i])]
       IN Store({d.key : d \in Range(bundle)} \cup {ObjectKey(cycle, "bundle", [bundle |-> bundle])},
                [cp EXCEPT !.bundle = bundle], "litellm", 1)

(* What was retrieved is never retrieved again, so every attempt fails.     *)
AssembleTorn ==
    /\ phase = "assemble" /\ ~Whole(cp.benchLm)
    /\ Fail /\ UNCHANGED faults

RetrieveLiteLlm ==
    /\ phase = "litellm"
    /\ LET d == IF NotModified(Lite) THEN Reuse(Lite)
                ELSE Descriptor(Lite, ObjectKey(cycle, "litellm", Projected(Raw(Lite, upstream[Lite]))),
                                upstream[Lite])
       IN /\ NotModified(Lite) => Validator(Lite).key \in r2
          /\ Store({d.key}, [cp EXCEPT !.lite = d], "revision", 1)

(* The one dataset revision that every LMArena page of the cycle is pinned to. *)
RetrieveRevision ==
    /\ phase = "revision"
    /\ Store({}, [cp EXCEPT !.revision = hub], "pages", 1)

----------------------------------------------------------------------------
(* LMArena: the Dataset Viewer page by page, or the pinned parquet file.    *)

Subset == Subsets[cp.progress.subset]
NextSubset == [FreshProgress EXCEPT !.subset = cp.progress.subset + 1]
AfterPages(progress) == IF progress.subset > Len(Subsets) THEN "normalize" ELSE "pages"

PageDescriptor(k, t) ==
    Descriptor(Subset, ObjectKey(cycle, t, PageBytes(Subset, cp.revision, k, t)), None)

ViewerAnswers ==
    /\ viewer = cp.revision
    /\ cp.progress.offset < PageCount[viewer][Subset]
    /\ cp.progress.total \in {None, PageCount[viewer][Subset]}

ViewerPage ==
    /\ phase = "pages" /\ cp.progress.transport = "viewer" /\ ViewerAnswers
    /\ LET k == cp.progress.offset
           d == PageDescriptor(k, "viewer")
           total == PageCount[viewer][Subset]
           progress == IF k + 1 >= total THEN NextSubset
                       ELSE [cp.progress EXCEPT !.offset = k + 1, !.total = total]
       IN Store({d.key}, [cp EXCEPT !.pages = Append(@, d), !.progress = progress],
                AfterPages(progress), 1)

\* Slip: any failure changes the transport.
ViewerFails_Anywhere ==
    /\ phase = "pages" /\ cp.progress.transport = "viewer"
    /\ IF ViewerAnswers THEN faults > 0 /\ faults' = faults - 1 ELSE UNCHANGED faults
    /\ cp' = [cp EXCEPT !.progress.transport = "resolve"]
    /\ UNCHANGED <<upstreamVars, r2, published, cycle, phase, cursor, attempt, served>>

(* A failure at the head of a subset changes the transport; later, part of  *)
(* the subset is in the checkpoint already and only the viewer will do.     *)
ViewerFails ==
    /\ phase = "pages" /\ cp.progress.transport = "viewer"
    /\ IF ViewerAnswers THEN faults > 0 /\ faults' = faults - 1
                        ELSE UNCHANGED faults
    /\ IF cp.progress.offset = 0
       THEN /\ cp' = [cp EXCEPT !.progress.transport = "resolve"]
            /\ UNCHANGED <<upstreamVars, r2, published, cycle, phase, cursor, attempt, served>>
       ELSE Fail

(* The resolver pins the digest of the file before it is downloaded.        *)
ResolveParquet ==
    /\ phase = "pages" /\ cp.progress.transport = "resolve"
    /\ Store({}, [cp EXCEPT !.progress = [@ EXCEPT !.transport = "download", !.download = cp.revision]], "pages", 1)

(* One file holds every page of the subset, cut locally.                    *)
DownloadParquet ==
    /\ phase = "pages" /\ cp.progress.transport = "download" /\ cp.progress.download = cp.revision
    /\ LET ds == [k \in 1..PageCount[cp.progress.download][Subset] |-> PageDescriptor(k - 1, "parquet")]
       IN Store({d.key : d \in Range(ds)}, [cp EXCEPT !.pages = @ \o ds, !.progress = NextSubset],
                AfterPages(NextSubset), 1)

(* A request of any other kind fails: upstream answers with an error, too   *)
(* much, something unreadable or other bytes than the pinned ones.          *)
RequestFails ==
    /\ faults > 0 /\ faults' = faults - 1
    /\ \/ phase \in {"benchlm", "litellm", "revision"}
       \/ phase = "pages" /\ cp.progress.transport # "viewer"
    /\ Fail

----------------------------------------------------------------------------
(* Normalisation, one retrieved artifact per step.                          *)

(* The retrieved artifacts that each item reads: the bundle, the prices, the *)
(* frozen catalog (which is not retrieved here), then page after page.      *)
Worklist ==
    <<IF cp.bundle = None THEN {} ELSE Range(cp.bundle), {cp.lite}, {}>>
        \o [i \in DOMAIN cp.pages |-> {cp.pages[i]}]

\* Slip: the last item is left out.
NormalizeSource_Short ==
    /\ phase = "normalize"
    /\ LET partition == ObjectKey(cycle, "normalized", [index |-> cursor, sources |-> Worklist[cursor]])
           done == cursor + 1 = Len(Worklist)
       IN Store({partition}, [cp EXCEPT !.normalized = Append(@, partition)],
                IF done THEN "publish" ELSE "normalize", IF done THEN 1 ELSE cursor + 1)

NormalizeSource ==
    /\ phase = "normalize"
    /\ LET evidence == Worklist[cursor]
           partition == ObjectKey(cycle, "normalized", [index |-> cursor, sources |-> evidence])
           done == cursor = Len(Worklist)
       IN /\ {d.key : d \in evidence} \subseteq r2
          /\ cursor = 1 => ObjectKey(cycle, "bundle", [bundle |-> cp.bundle]) \in r2
          /\ Store({partition}, [cp EXCEPT !.normalized = Append(@, partition)],
                   IF done THEN "publish" ELSE "normalize", IF done THEN 1 ELSE cursor + 1)

(* The source records of the candidate replace those of the published       *)
(* revision, unless the content is what is published already.               *)
Candidate == UNION {k.bytes.sources : k \in Range(cp.normalized)}
Contents(records) == {<<d.art, d.key.bytes>> : d \in records}

PublishCandidate ==
    /\ phase = "publish"
    /\ published' = IF Contents(Candidate) = Contents(published) THEN published ELSE Candidate
    /\ phase' = "idle" /\ cursor' = 1 /\ attempt' = 0
    /\ UNCHANGED <<upstreamVars, r2, cycle, cp, served, faults>>

----------------------------------------------------------------------------
(* Upstream publishes, artifact by artifact; the viewer follows the Hub.    *)
(* Only while the value may still be read: publishing later in a cycle is   *)
(* the same as publishing before the next one.                              *)

UpstreamPublishes(a) ==
    /\ upstream[a] < MaxGeneration
    /\ phase = "idle" \/ (phase = "benchlm" /\ a # Lite)
    /\ upstream' = [upstream EXCEPT ![a] = @ + 1]
    /\ served' = [served EXCEPT ![a] = @ \cup {upstream[a] + 1}]
    /\ UNCHANGED <<hub, viewer, r2, published, cycle, phase, cursor, attempt, cp, faults>>

DatasetMoves ==
    /\ hub < MaxGeneration /\ phase \in {"revision", "pages"}
    /\ hub' = hub + 1
    /\ UNCHANGED <<upstream, viewer, r2, published, cycle, phase, cursor, attempt, cp, served, faults>>

ViewerFollows ==
    /\ viewer < hub /\ phase \in {"revision", "pages"}
    /\ viewer' = hub
    /\ UNCHANGED <<upstream, hub, r2, published, cycle, phase, cursor, attempt, cp, served, faults>>

SourceStep ==
    \/ RetrieveBenchLm \/ AssembleBenchLm \/ AssembleTorn \/ RetrieveLiteLlm \/ RetrieveRevision
    \/ ViewerPage \/ ViewerFails \/ ResolveParquet \/ DownloadParquet
    \/ NormalizeSource \/ PublishCandidate

SourceNext ==
    \/ StartCycle \/ SourceStep \/ RequestFails
    \/ \E a \in Artifacts : UpstreamPublishes(a)
    \/ DatasetMoves \/ ViewerFollows

SourceSpec == SourceInit /\ [][SourceNext]_sourceVars

----------------------------------------------------------------------------
(* The checkpoint and the tables hold values of their types. *)
SourceTypeOK ==
    /\ upstream \in [Artifacts -> 1..MaxGeneration] /\ hub \in 1..MaxGeneration /\ viewer \in 1..hub
    /\ cycle \in 0..MaxCycle /\ phase \in Phases /\ attempt \in 0..MaxAttempts-1
    /\ cursor \in 1..Len(Worklist) + Len(BenchLm)
    /\ cp.progress.subset \in 1..Len(Subsets) + 1
    /\ cp.progress.transport \in {"viewer", "resolve", "download"}

(* What is published was generated together: a cycle that retrieved while   *)
(* BenchLM was publishing, artifact by artifact, never gets through, also   *)
(* when some of its artifacts were answered 304 (source-steps.ts:610-622).  *)
NeverTorn ==
    \A records \in {published, IF cp.bundle = None THEN {} ELSE Range(cp.bundle)} :
        \A d, e \in {x \in records : x.art \in Range(BenchLm) \ {Public}} :
            d.key.bytes.gen = e.key.bytes.gen

(* Every record that a later step or a later cycle will rely on names an    *)
(* object that exists, under the prefix of one cycle, and a key that says   *)
(* "projected" holds a projection (coordinator.ts:390-424).                 *)
EvidenceExists ==
    LET retrieved == Range(cp.benchLm) \cup Range(cp.pages)
            \cup (IF cp.bundle = None THEN {} ELSE Range(cp.bundle))
            \cup (IF cp.lite = None THEN {} ELSE {cp.lite})
    IN /\ \A d \in retrieved \cup published : d.key \in r2
       /\ \A d \in retrieved : d.key.cycle = cycle
       /\ \A d, e \in {x \in published : x.art \in Artifacts} : d.key.cycle = e.key.cycle
       /\ \A key \in r2 : key.dir = "v3" => key.bytes.form = "v3"

(* What the checkpoint holds of a source was served by it while the cycle   *)
(* ran, however old the bytes that a 304 made it reuse.                     *)
RetrievedWasServed ==
    phase # "idle" => \A d \in Range(cp.benchLm) \cup (IF cp.lite = None THEN {} ELSE {cp.lite}) :
        d.key.bytes.gen \in served[d.art]

(* The pages of a finished subset are all of its pages in the frozen        *)
(* revision, each once and in order, from one transport, after any crashes, *)
(* replays and change of transport (coordinator.ts:840-902).                *)
SubsetIsWhole(pages, revision, s) ==
    \E lo \in 0..Len(pages), t \in {"viewer", "parquet"} :
       LET own == lo + 1 .. lo + PageCount[revision][s]
       IN /\ own \subseteq DOMAIN pages
          /\ \A j \in DOMAIN pages :
                IF j \in own THEN pages[j].key.bytes = PageBytes(s, revision, j - lo - 1, t)
                             ELSE pages[j].art # s

PagesAreWhole ==
    \A i \in 1..Len(Subsets) : i < cp.progress.subset => SubsetIsWhole(cp.pages, cp.revision, Subsets[i])

(* A candidate is published only from one partition per retrieved artifact. *)
NormalizedOnce ==
    phase = "publish" =>
        /\ [i \in DOMAIN cp.normalized |-> cp.normalized[i].bytes.index] = [i \in 1..Len(Worklist) |-> i]
        /\ {d.key : d \in Candidate} \subseteq r2

(* What the checkpoint says of a source is what that source served during the *)
(* cycle, in an object that is there for whoever relies on it.                *)
RetrievedIsKept ==
    /\ SourceTypeOK
    /\ EvidenceExists
    /\ RetrievedWasServed

(* A candidate is made of all pages and all partitions, each once, and of   *)
(* what the sources served.                                                 *)
CandidateIsWhole ==
    /\ RetrievedIsKept
    /\ PagesAreWhole
    /\ NormalizedOnce
=============================================================================
