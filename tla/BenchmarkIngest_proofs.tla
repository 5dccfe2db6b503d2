----------------------- MODULE BenchmarkIngest_proofs -----------------------
(***************************************************************************)
(* Proofs about the benchmark coordinator: whatever is interrupted,        *)
(* overlapped, repeated or refused, it works with its own checkpoint, what *)
(* it publishes was retrieved and normalized once, and it acts on the      *)
(* tables by their protocol.                                               *)
(*                                                                         *)
(* A crash can keep the checkpoint of a step and lose the cycle record, so *)
(* the two need not agree.  The invariant says how far apart they can be   *)
(* (Fits): either the step that is next has stored nothing, or it has      *)
(* stored its result once, or something is in the checkpoint twice, and no *)
(* manifest will be made of it.                                            *)
(***************************************************************************)
EXTENDS BenchmarkIngest, BenchmarkPublication_proofs, SequenceTheorems, FiniteSetTheorems

\* The phases up to the last page, and those from the manifest on.
SourcePhase ==
    {"retrieve-benchlm", "assemble-benchlm", "retrieve-litellm", "retrieve-lmarena-revision",
     "retrieve-lmarena-pages"}

CandidatePhase == Phase \cup {"receipt"}

FirstArtifacts(n) == [i \in 1 .. n |-> Artifacts[i]]
Numbers(n) == [i \in 1 .. n |-> i - 1]

(* The artifacts of a checkpoint against the cursor: up to it, or one      *)
(* further, unless one of them was stored twice.                           *)
ArtifactsFit(r, cp) ==
    IF r.phase = "retrieve-benchlm"
    THEN /\ r.cursor < Len(Artifacts)
         /\ r.cursor <= Len(cp.benchLm)
         /\ cp.hash = None
         /\ IsInjective(cp.benchLm) =>
               cp.benchLm \in {FirstArtifacts(r.cursor), FirstArtifacts(r.cursor + 1)}
    ELSE /\ Len(Artifacts) <= Len(cp.benchLm)
         /\ IsInjective(cp.benchLm) => cp.benchLm = Artifacts

\* Every page up to the one that is next, in all subsets before this one.
PagesSoFar(pages, subset, page) ==
    /\ IsInjective(pages)
    /\ \A p \in ToSet(pages) :
          /\ p[1] < subset \/ (p[1] = subset /\ p[2] < page)
          /\ \A j \in 0 .. p[2] : <<p[1], j>> \in ToSet(pages)
    /\ \A s \in 0 .. subset - 1 : <<s, 0>> \in ToSet(pages)
    /\ \A j \in 0 .. page - 1 : <<subset, j>> \in ToSet(pages)

\* Pages are counted in the checkpoint alone, so a crash repeats none.
PagesFit(r, cp) ==
    /\ PagesSoFar(cp.pages, cp.subset, cp.page)
    /\ cp.page < MaxPages
    /\ cp.transport # "viewer" => cp.page = 0
    /\ r.phase \notin SourcePhase => cp.subset = Subsets

\* The normalized partitions against the cursor, like the artifacts.
PartitionsFit(r, cp) ==
    /\ r.phase \in SourcePhase => cp.normalized = <<>>
    /\ r.phase = "normalize-sources" =>
          /\ r.cursor < WorklistLength(cp)
          /\ IsInjective(cp.normalized) =>
                cp.normalized \in {Numbers(r.cursor), Numbers(r.cursor + 1)}
    /\ r.phase \in CandidatePhase /\ IsInjective(cp.normalized) =>
          cp.normalized = Numbers(WorklistLength(cp))

\* The manifest a checkpoint names is a valid one of this very checkpoint.
HashFits(cp) ==
    cp.hash # None =>
        /\ ValidManifest(cp.hash)
        /\ \E derived \in BOOLEAN : cp.hash = ManifestOf(cp, derived)

Assembled(r, cp) ==
    cp.id = r.id /\ ArtifactsFit(r, cp) /\ PagesFit(r, cp) /\ PartitionsFit(r, cp)

\* The checkpoint cp is that of the cycle record r, or one step ahead of it.
Fits(r, cp) == r.phase # "acquire" => cp # None /\ Assembled(r, cp) /\ HashFits(cp)

\* What holds of every record of a cycle, wherever it is kept.
IsTrue(r) ==
    /\ r.state \notin TerminalState => r.attempt < MaxRequests
    /\ r.state = "published" => r.id \in receipts
    /\ r.id \in receipts => r.phase \in {"publish", "receipt"}
    /\ r.phase # "acquire" => work[r.id] # None

StorageInv ==
    benchmarkCycle # None =>
        IsTrue(benchmarkCycle) /\ Fits(benchmarkCycle, benchmarkCheckpoint)

\* The places of a step that has no result yet.
Working == {"step", "stage", "fill", "batch"}

\* The checkpoint that storage holds once the result is put.
After(i) == IF i.saved = None THEN i.checkpoint ELSE i.saved

HandlerReads ==
    /\ handler.cycle.state \notin TerminalState
    /\ IsTrue(handler.cycle)
    /\ Fits(handler.cycle, handler.checkpoint)
    /\ handler.pc = "fill" => handler.cycle.cursor < Len(KeyOrder)
    /\ handler.pc = "batch" => ManifestMatches

(* Until it writes, storage holds the cycle and the checkpoint that the    *)
(* handler has read, or a cycle that start() put there since.              *)
StorageIsRead ==
    handler.pc \in Working \cup {"put"} =>
        /\ benchmarkCycle # None
        /\ handler.checkpoint = benchmarkCheckpoint
        /\ IF benchmarkCycle.id = handler.cycle.id
           THEN /\ benchmarkCycle.phase = handler.cycle.phase
                /\ benchmarkCycle.cursor = handler.cycle.cursor
           ELSE benchmarkCycle.phase = "acquire"

ResultIsTrue ==
    handler.pc \notin Working =>
        /\ handler.next # None
        /\ handler.next.id = handler.cycle.id
        /\ IsTrue(handler.next)
        /\ handler.pc = "put" => Fits(handler.next, After(handler)) /\ Fits(handler.cycle, After(handler))
        /\ handler.pc = "persist" => Fits(handler.cycle, benchmarkCheckpoint)

HandlerInv == handler # None => HandlerReads /\ StorageIsRead /\ ResultIsTrue

\* The cycle c has been stored, read or published.
Known(c) ==
    \/ c \in receipts
    \/ benchmarkCycle # None /\ benchmarkCycle.id = c
    \/ handler # None /\ handler.cycle.id = c

\* The cycle that a start() is about to store is nowhere else.
NamesAreFresh ==
    /\ \A c \in Cycle : Known(c) => row[c] # None
    /\ \A s \in Starter : starter[s] # None =>
          /\ ~ Known(starter[s].id)
          /\ starter[s].pc = "expire" => starter[s].existing # None
          /\ starter[s].pc = "put" => row[starter[s].id] # None
          /\ \A t \in Starter : starter[t] # None /\ starter[t].id = starter[s].id => t = s

RowsAreTrue == \A c \in Cycle : row[c] # None /\ row[c].state = "published" => c \in receipts

\* TypeOK but for the tables.
CoordinatorTypes ==
    /\ benchmarkCycle \in CycleRecord \cup {None}
    /\ benchmarkCheckpoint \in Checkpoint \cup {None}
    /\ alarm \in BOOLEAN
    /\ row \in [Cycle -> CycleRecord \cup {None}]
    /\ marks \in [Cycle -> SUBSET (CyclePhase \X Nat)]
    /\ manifestObject \in [Cycle -> Manifest \cup {None}]
    /\ handler \in HandlerRecord \cup {None}
    /\ starter \in [Starter -> StarterRecord \cup {None}]
    /\ week \in Week
    /\ overdue \subseteq Cycle
    /\ faults \in 0 .. MaxFaults

CoordinatorInv ==
    /\ CoordinatorTypes
    /\ StorageInv
    /\ HandlerInv
    /\ NamesAreFresh
    /\ RowsAreTrue
    /\ EverythingOnce

IngestInv == TablesInv /\ CoordinatorInv
-----------------------------------------------------------------------------
(***************************************************************************)
(* Sequences and records.                                                  *)
(***************************************************************************)
LEMMA OrderIs ==
    ASSUME NEW S, IsFiniteSet(S)
    PROVE  /\ Len(SetToSeq(S)) \in Nat
           /\ \A k \in Nat : k < Len(SetToSeq(S)) => SetToSeq(S)[k + 1] \in S
<1> DEFINE n == Cardinality(S)
<1>1. n \in Nat /\ ExistsBijection(1 .. n, S)
  BY FS_CardinalityType
<1>2. PICK f \in [1 .. n -> S] : IsInjective(f)
  BY <1>1 DEF ExistsBijection, Bijection, Injection, IsInjective
<1>3. SetToSeq(S) \in [1 .. n -> S]
  BY <1>2 DEF SetToSeq
<1>4. SetToSeq(S) \in Seq(S) /\ Len(SetToSeq(S)) = n
  BY <1>1, <1>3
<1> QED
  BY <1>1, <1>3, <1>4

LEMMA ArtifactsAre ==
    /\ Len(Artifacts) \in Nat /\ 0 < Len(Artifacts)
    /\ Artifacts \in Seq(ToSet(Artifacts))
    /\ \A k \in Nat : k < Len(Artifacts) => Artifacts[k + 1] \in ToSet(Artifacts)
<1>1. Artifacts \in Seq(STRING) /\ Len(Artifacts) \in Nat /\ DOMAIN Artifacts = 1 .. Len(Artifacts)
  BY IngestBounds
<1>2. 0 < Len(Artifacts)
  BY <1>1, IngestBounds, EmptySeq
<1>3. \A i \in 1 .. Len(Artifacts) : Artifacts[i] \in ToSet(Artifacts)
  BY <1>1 DEF ToSet
<1>4. Artifacts \in Seq(ToSet(Artifacts))
  BY <1>1, <1>3
<1> QED
  BY <1>1, <1>2, <1>3, <1>4

LEMMA FirstArtifactsAre ==
    /\ FirstArtifacts(0) = <<>>
    /\ FirstArtifacts(Len(Artifacts)) = Artifacts
    /\ \A k \in Nat : k < Len(Artifacts) =>
          /\ FirstArtifacts(k) \in Seq(ToSet(Artifacts))
          /\ Len(FirstArtifacts(k)) = k
          /\ FirstArtifacts(k + 1) = Append(FirstArtifacts(k), Artifacts[k + 1])
<1> USE ArtifactsAre
<1>1. FirstArtifacts(0) = <<>>
  BY DEF FirstArtifacts
<1>2. FirstArtifacts(Len(Artifacts)) = Artifacts
  BY DEF FirstArtifacts
<1>3. ASSUME NEW k \in Nat, k < Len(Artifacts)
      PROVE  /\ FirstArtifacts(k) \in Seq(ToSet(Artifacts))
             /\ Len(FirstArtifacts(k)) = k
             /\ FirstArtifacts(k + 1) = Append(FirstArtifacts(k), Artifacts[k + 1])
  <2>1. \A i \in 1 .. k : Artifacts[i] \in ToSet(Artifacts)
    BY <1>3 DEF ToSet
  <2>2. FirstArtifacts(k) \in Seq(ToSet(Artifacts)) /\ Len(FirstArtifacts(k)) = k
    BY <1>3, <2>1 DEF FirstArtifacts
  <2>3. \A i \in 1 .. k : FirstArtifacts(k)[i] = Artifacts[i]
    BY <1>3 DEF FirstArtifacts
  <2>4. /\ FirstArtifacts(k + 1) \in Seq(ToSet(Artifacts)) /\ Len(FirstArtifacts(k + 1)) = k + 1
        /\ \A i \in 1 .. k + 1 : FirstArtifacts(k + 1)[i] = Artifacts[i]
    BY <1>3, <2>1 DEF FirstArtifacts
  <2>5. /\ Append(FirstArtifacts(k), Artifacts[k + 1]) \in Seq(ToSet(Artifacts))
        /\ Len(Append(FirstArtifacts(k), Artifacts[k + 1])) = k + 1
        /\ \A i \in 1 .. k + 1 : Append(FirstArtifacts(k), Artifacts[k + 1])[i] = Artifacts[i]
    BY <1>3, <2>2, <2>3
  <2> QED
    BY <1>3, <2>4, <2>5, SeqEqual
<1> QED
  BY <1>1, <1>2, <1>3

LEMMA NumbersAre ==
    /\ Numbers(0) = <<>>
    /\ \A k \in Nat :
          /\ Numbers(k) \in Seq(Nat)
          /\ Len(Numbers(k)) = k
          /\ Numbers(k + 1) = Append(Numbers(k), k)
<1>1. Numbers(0) = <<>>
  BY DEF Numbers
<1>2. \A k \in Nat : /\ Numbers(k) \in Seq(Nat)
                     /\ Len(Numbers(k)) = k
                     /\ \A i \in 1 .. k : Numbers(k)[i] = i - 1
  <2> TAKE k \in Nat
  <2> QED
    BY DEF Numbers
<1>3. ASSUME NEW k \in Nat
      PROVE  Numbers(k + 1) = Append(Numbers(k), k)
  <2>1. /\ Numbers(k + 1) \in Seq(Nat) /\ Len(Numbers(k + 1)) = k + 1
        /\ \A i \in 1 .. k + 1 : Numbers(k + 1)[i] = i - 1
    <3>1. k + 1 \in Nat
      OBVIOUS
    <3> QED
      BY <1>2, <3>1
  <2>2. /\ Append(Numbers(k), k) \in Seq(Nat)
        /\ Len(Append(Numbers(k), k)) = k + 1
        /\ \A i \in 1 .. k + 1 : Append(Numbers(k), k)[i] = i - 1
    <3>1. Numbers(k) \in Seq(Nat) /\ Len(Numbers(k)) = k /\ \A i \in 1 .. k : Numbers(k)[i] = i - 1
      BY <1>2
    <3>2. PICK s \in Seq(Nat) : s = Numbers(k)
      BY <3>1
    <3> QED
      BY <3>1, <3>2
  <2> QED
    BY <2>1, <2>2, SeqEqual
<1> QED
  BY <1>1, <1>2, <1>3

(* What is appended to a sequence that already ends with it is there       *)
(* twice; otherwise the result is one step further.                        *)
LEMMA AppendOnce ==
    ASSUME NEW S, NEW s \in Seq(S), NEW short \in Seq(S), NEW x \in S,
           IsInjective(s) => s \in {short, Append(short, x)},
           IsInjective(Append(s, x))
    PROVE  Append(s, x) = Append(short, x)
<1>1. /\ Len(s) \in Nat /\ DOMAIN s = 1 .. Len(s) /\ DOMAIN Append(s, x) = 1 .. Len(s) + 1
      /\ \A i \in 1 .. Len(s) : Append(s, x)[i] = s[i]
      /\ Append(s, x)[Len(s) + 1] = x
  OBVIOUS
<1>2. IsInjective(s)
  <2> SUFFICES ASSUME NEW a \in 1 .. Len(s), NEW b \in 1 .. Len(s), s[a] = s[b] PROVE a = b
    BY <1>1 DEF IsInjective
  <2>1. a \in 1 .. Len(s) + 1 /\ b \in 1 .. Len(s) + 1
    BY LenProperties
  <2>2. Append(s, x)[a] = Append(s, x)[b]
    BY <1>1, Zenon
  <2> QED
    BY <1>1, <2>1, <2>2, Zenon DEF IsInjective
<1>3. \A i \in 1 .. Len(s) : s[i] # x
  <2> SUFFICES ASSUME NEW i \in 1 .. Len(s), s[i] = x PROVE FALSE
    OBVIOUS
  <2>1. i \in 1 .. Len(s) + 1 /\ Len(s) + 1 \in 1 .. Len(s) + 1 /\ i # Len(s) + 1
    BY LenProperties
  <2>2. Append(s, x)[i] = Append(s, x)[Len(s) + 1]
    BY <1>1, Zenon
  <2> QED
    BY <1>1, <2>1, <2>2, Zenon DEF IsInjective
<1>4. Len(short) \in Nat /\ Len(Append(short, x)) = Len(short) + 1
      /\ Append(short, x)[Len(short) + 1] = x
  OBVIOUS
<1>5. CASE s = Append(short, x)
  BY <1>3, <1>4, <1>5
<1> QED
  BY <1>2, <1>5

LEMMA HandlerIs ==
    ASSUME CoordinatorTypes, handler # None
    PROVE  /\ handler \in HandlerRecord
           /\ handler.pc \in HandlerPc
           /\ handler.cycle \in CycleRecord
           /\ handler.cycle.id \in Cycle /\ handler.cycle.week \in Week
           /\ handler.cycle.phase \in CyclePhase /\ handler.cycle.cursor \in Nat
           /\ handler.cycle.attempt \in 0 .. MaxRequests
           /\ handler.checkpoint \in Checkpoint \cup {None}
           /\ handler.next \in CycleRecord \cup {None}
           /\ handler.saved \in Checkpoint \cup {None}
           /\ handler.mark \in {"none", "completed", "retry_wait", "failed"}
BY DEF CoordinatorTypes, HandlerRecord, CycleRecord

LEMMA TypesAre ==
    ASSUME CoordinatorInv
    PROVE  /\ alarm \in BOOLEAN
           /\ row \in [Cycle -> CycleRecord \cup {None}]
           /\ marks \in [Cycle -> SUBSET (CyclePhase \X Nat)]
           /\ starter \in [Starter -> StarterRecord \cup {None}]
           /\ \A s \in Starter : starter[s] # None =>
                 starter[s] \in StarterRecord /\ starter[s].id \in Cycle /\ starter[s].at \in Week
           /\ week \in Week /\ overdue \subseteq Cycle /\ faults \in 0 .. MaxFaults
           /\ RowsAreTrue /\ NamesAreFresh
BY DEF CoordinatorInv, CoordinatorTypes, StarterRecord
-----------------------------------------------------------------------------
(***************************************************************************)
(* The coordinator and the tables.                                         *)
(***************************************************************************)

\* A cycle that has acquired has its record for good.
WorkStays == \A c \in Cycle : work[c] # None => work'[c] # None

LEMMA ProtocolKeepsWork ==
    ASSUME TablesInv, [PublicationNext]_publicationVars
    PROVE  WorkStays
<1>1. work \in [Cycle -> Work \cup {None}]
  BY DEF TablesInv, PublicationTypeOK
<1>2. ASSUME NEW c \in Cycle, NEW record \in Work, Advance(c, record)
      PROVE  WorkStays
  <2>1. work' = [work EXCEPT ![c] = record] /\ record # None
    BY <1>2, BenchmarkNone DEF Advance
  <2> QED
    BY <1>1, <2>1 DEF WorkStays
<1>3. ASSUME NEW c \in Cycle, NEW w \in Week, Freeze(c, w)
      PROVE  WorkStays
  <2> DEFINE stamp  == IF work[c] = None THEN started + 1 ELSE work[c].stamp
             record == [frozen |-> catalog, previous |-> ActiveRevision, candidate |-> None,
                        stamp |-> stamp, week |-> w, phase |-> "derive"]
  <2>1. Advance(c, record)
    BY <1>3 DEF Freeze
  <2>2. catalog \in 1 .. MaxCatalog
    BY <1>3, BenchmarkConstants DEF Freeze, TablesInv, PublicationTypeOK
  <2>3. ActiveRevision \in Revision \cup {None}
    BY DEF TablesInv, PublicationTypeOK, ActiveRevision
  <2>4. stamp \in Nat
    BY <1>1 DEF TablesInv, PublicationTypeOK, Work
  <2>5. record \in Work
    BY <2>2, <2>3, <2>4 DEF Work, Phase
  <2> QED
    BY <1>2, <2>1, <2>5
<1>4. ASSUME NEW c \in Cycle, NEW content \in Content, Derive(c, content)
      PROVE  WorkStays
  <2> DEFINE r     == <<work[c].frozen, content>>
             phase == IF r = work[c].previous THEN "stage-cache" ELSE "stage-facts"
  <2>1. work[c] \in Work
    BY <1>1, <1>4 DEF Derive, InPhase
  <2>2. r \in Revision /\ phase \in Phase
    BY <2>1 DEF Work, Revision, Phase
  <2>3. Advance(c, [work[c] EXCEPT !.candidate = r, !.phase = phase])
    BY <1>4 DEF Derive
  <2>4. [work[c] EXCEPT !.candidate = r, !.phase = phase] \in Work
    <3> HIDE DEF r, phase
    <3> QED
      BY <2>1, <2>2 DEF Work
  <2> QED
    BY <1>2, <2>3, <2>4
<1>5. ASSUME NEW c \in Cycle, FactsStaged(c) \/ ProfilesStaged(c) \/ CacheStaged(c) \/ ValidateCandidate(c)
      PROVE  WorkStays
  <2>1. PICK phase \in Phase : Advance(c, [work[c] EXCEPT !.phase = phase])
    BY <1>5 DEF FactsStaged, ProfilesStaged, CacheStaged, ValidateCandidate, Phase
  <2>2. work[c] \in Work
    BY <1>1, <1>5 DEF FactsStaged, ProfilesStaged, CacheStaged, ValidateCandidate, InPhase
  <2> QED
    BY <1>2, <2>1, <2>2, EntersPhase
<1>6. CASE work' = work
  BY <1>6 DEF WorkStays
<1>7. ASSUME NEW c \in Cycle, CycleStep(c)
      PROVE  WorkStays
  <2>1. CASE (\E w \in Week : Freeze(c, w)) \/ (\E content \in Content : Derive(c, content))
             \/ FactsStaged(c) \/ ProfilesStaged(c) \/ CacheStaged(c) \/ ValidateCandidate(c)
    BY <2>1, <1>3, <1>4, <1>5
  <2>2. CASE EnsurePending(c) \/ (\E part \in Fact : StageFact(c, part))
             \/ (\E part \in Profile : StageProfile(c, part)) \/ PublishReads(c) \/ PublishBatch(c)
    BY <2>2, <1>6 DEF EnsurePending, StageFact, StageProfile, StorePartition, PublishReads, PublishBatch
  <2>3. CASE \E k \in Key :
                StageCacheKey(c, k) \/ \E amount \in EntryState : FillCacheKey(c, k, amount)
    BY <2>3, <1>6 DEF StageCacheKey, OpenEntries, FillCacheKey, WriteEntries
  <2> QED
    BY <1>7, <2>1, <2>2, <2>3 DEF CycleStep
<1>8. ASSUME NEW p \in Republisher, RepublishStep(p)
      PROVE  WorkStays
  BY <1>6, <1>8 DEF RepublishStep, RepublishReads, RepublishOpens, RepublishFills, WriteEntries,
     RepublishCommits, RepublishFails
<1>9. CASE CatalogPublishes \/ PublishEnds \/ UNCHANGED publicationVars
  BY <1>6, <1>9 DEF CatalogPublishes, PublishEnds, publicationVars
<1> QED
  BY <1>7, <1>8, <1>9 DEF PublicationNext

\* A step by the protocol of the tables that is not a publication.
TableStep == [PublicationNext]_publicationVars /\ receipts' = receipts

LEMMA NoTableStep ==
    UNCHANGED publicationVars \/ PublishEnds \/ CatalogPublishes
        \/ (\E p \in Republisher : RepublishStep(p)) => TableStep
<1>1. UNCHANGED publicationVars \/ PublishEnds \/ CatalogPublishes => TableStep
  BY DEF TableStep, publicationVars, PublicationNext, PublishEnds, CatalogPublishes
<1>2. ASSUME NEW p \in Republisher, RepublishStep(p)
      PROVE  TableStep
  <2>1. receipts' = receipts
    BY <1>2 DEF RepublishStep, RepublishReads, RepublishOpens, RepublishFills, WriteEntries,
       RepublishCommits, RepublishFails
  <2> QED
    BY <1>2, <2>1 DEF TableStep, PublicationNext
<1> QED
  BY <1>1, <1>2

LEMMA CycleTableStep ==
    ASSUME NEW c \in Cycle, CycleStep(c), ~ PublishBatch(c)
    PROVE  TableStep
<1>1. receipts' = receipts
  BY DEF CycleStep, Freeze, Derive, Advance, EnsurePending, StageFact, StageProfile, StorePartition,
         FactsStaged, ProfilesStaged, StageCacheKey, OpenEntries, FillCacheKey, WriteEntries,
         CacheStaged, ValidateCandidate, PublishReads
<1> QED
  BY <1>1 DEF TableStep, PublicationNext

\* A step that changes receipts is the batch.
LEMMA NotTheBatch ==
    ASSUME NEW c, receipts' = receipts, publishing' = publishing, PublishBatch(c)
    PROVE  FALSE
<1>1. publishing # None /\ publishing' = None
  BY DEF PublishBatch
<1> QED
  BY <1>1

HandlerTableStep ==
    \/ Acquire \/ DeriveCandidate \/ EnsurePendingRevision \/ StageFacts \/ StageProfiles
    \/ StageCache \/ FillCache \/ Validate \/ PublishStep

LEMMA HandlerKeepsTables ==
    ASSUME CoordinatorTypes, HandlerInv, HandlerTableStep
    PROVE  TableStep
<1> DEFINE c == handler.cycle.id
           k == handler.cycle.cursor
<1>1. handler # None
  BY DEF HandlerTableStep, Acquire, DeriveCandidate, EnsurePendingRevision, StageFacts, StageProfiles,
         StageCache, FillCache, Validate, PublishStep, Building, InStep, At
<1>2. c \in Cycle /\ handler.cycle.week \in Week /\ k \in Nat
  BY <1>1, HandlerIs
<1> HIDE DEF c, k
<1>3. CASE Acquire
  <2>1. UNCHANGED publicationVars \/ Freeze(c, handler.cycle.week)
    BY <1>3 DEF Acquire, c
  <2>2. Freeze(c, handler.cycle.week) => CycleStep(c) /\ ~ PublishBatch(c)
    BY <1>2, NotTheBatch DEF CycleStep, Freeze, Advance
  <2> QED
    BY <1>2, <2>1, <2>2, CycleTableStep, NoTableStep
<1>4. CASE DeriveCandidate
  <2>1. PICK content \in Content : UNCHANGED publicationVars \/ Derive(c, content)
    BY <1>4 DEF DeriveCandidate, Once, c
  <2>2. Derive(c, content) => CycleStep(c) /\ ~ PublishBatch(c)
    BY <1>2, NotTheBatch DEF CycleStep, Derive, Advance
  <2> QED
    BY <1>2, <2>1, <2>2, CycleTableStep, NoTableStep
<1>5. CASE EnsurePendingRevision
  <2>1. UNCHANGED publicationVars \/ EnsurePending(c)
    BY <1>5 DEF EnsurePendingRevision, c
  <2>2. EnsurePending(c) => CycleStep(c) /\ ~ PublishBatch(c)
    BY <1>2, NotTheBatch DEF CycleStep, EnsurePending
  <2> QED
    BY <1>2, <2>1, <2>2, CycleTableStep, NoTableStep
<1>6. CASE StageFacts
  <2>1. k < Len(FactOrder) => FactOrder[k + 1] \in Fact
    BY <1>2, OrderIs, CandidateIsFinite DEF FactOrder
  <2>2. \/ UNCHANGED publicationVars \/ FactsStaged(c)
        \/ k < Len(FactOrder) /\ StageFact(c, FactOrder[k + 1])
    BY <1>6 DEF StageFacts, Once, c, k
  <2>3. FactsStaged(c) => CycleStep(c) /\ ~ PublishBatch(c)
    BY <1>2, NotTheBatch DEF CycleStep, FactsStaged, Advance
  <2>4. \A part \in Fact : StageFact(c, part) => CycleStep(c) /\ ~ PublishBatch(c)
    BY <1>2, NotTheBatch DEF CycleStep, StageFact, StorePartition
  <2> QED
    BY <1>2, <2>1, <2>2, <2>3, <2>4, CycleTableStep, NoTableStep
<1>7. CASE StageProfiles
  <2>1. ~ (k >= Len(ProfileOrder)) => ProfileOrder[k + 1] \in Profile
    BY <1>2, OrderIs, CandidateIsFinite DEF ProfileOrder
  <2>2. \/ UNCHANGED publicationVars \/ ProfilesStaged(c)
        \/ ~ (k >= Len(ProfileOrder)) /\ StageProfile(c, ProfileOrder[k + 1])
    BY <1>7 DEF StageProfiles, Once, c, k
  <2>3. ProfilesStaged(c) => CycleStep(c) /\ ~ PublishBatch(c)
    BY <1>2, NotTheBatch DEF CycleStep, ProfilesStaged, Advance
  <2>4. \A part \in Profile : StageProfile(c, part) => CycleStep(c) /\ ~ PublishBatch(c)
    BY <1>2, NotTheBatch DEF CycleStep, StageProfile, StorePartition
  <2> QED
    BY <1>2, <2>1, <2>2, <2>3, <2>4, CycleTableStep, NoTableStep
<1>8. CASE StageCache
  <2>1. ~ (k >= Len(KeyOrder)) => KeyOrder[k + 1] \in Key
    BY <1>2, OrderIs, CandidateIsFinite DEF KeyOrder
  <2>2. \/ UNCHANGED publicationVars \/ CacheStaged(c)
        \/ ~ (k >= Len(KeyOrder)) /\ StageCacheKey(c, KeyOrder[k + 1])
    BY <1>8 DEF StageCache, Once, c, k
  <2>3. CacheStaged(c) => CycleStep(c) /\ ~ PublishBatch(c)
    BY <1>2, NotTheBatch DEF CycleStep, CacheStaged, Advance
  <2>4. \A key \in Key : StageCacheKey(c, key) => CycleStep(c) /\ ~ PublishBatch(c)
    BY <1>2, NotTheBatch DEF CycleStep, StageCacheKey, OpenEntries
  <2> QED
    BY <1>2, <2>1, <2>2, <2>3, <2>4, CycleTableStep, NoTableStep
<1>9. CASE FillCache
  <2>1. PICK amount \in EntryState : UNCHANGED publicationVars \/ FillCacheKey(c, KeyOrder[k + 1], amount)
    BY <1>9 DEF FillCache, EntryState, c, k
  <2>2. k < Len(KeyOrder)
    BY <1>1, <1>9 DEF FillCache, InStep, At, HandlerInv, HandlerReads, k
  <2>3. KeyOrder[k + 1] \in Key
    BY <1>2, <2>2, OrderIs, CandidateIsFinite DEF KeyOrder
  <2>4. \A key \in Key : FillCacheKey(c, key, amount) => CycleStep(c) /\ ~ PublishBatch(c)
    BY <1>2, NotTheBatch DEF CycleStep, FillCacheKey, WriteEntries
  <2> QED
    BY <1>2, <2>1, <2>3, <2>4, CycleTableStep, NoTableStep
<1>10. CASE Validate
  <2>1. UNCHANGED publicationVars \/ ValidateCandidate(c)
    BY <1>10 DEF Validate, Once, c
  <2>2. ValidateCandidate(c) => CycleStep(c) /\ ~ PublishBatch(c)
    BY <1>2, NotTheBatch DEF CycleStep, ValidateCandidate, Advance
  <2> QED
    BY <1>2, <2>1, <2>2, CycleTableStep, NoTableStep
<1>11. CASE PublishStep
  <2>1. PublishReads(c)
    BY <1>11 DEF PublishStep, c
  <2>2. PublishReads(c) => CycleStep(c) /\ ~ PublishBatch(c)
    BY <1>2, BenchmarkNone DEF CycleStep, PublishReads, PublishBatch
  <2> QED
    BY <1>2, <2>1, <2>2, CycleTableStep
<1> QED
  BY <1>3, <1>4, <1>5, <1>6, <1>7, <1>8, <1>9, <1>10, <1>11 DEF HandlerTableStep

-----------------------------------------------------------------------------
(***************************************************************************)
(* What the kinds of steps preserve.                                       *)
(***************************************************************************)
Mark == {"none", "completed", "retry_wait", "failed"}

LEMMA NoneIs ==
    /\ \A r \in CycleRecord : r # None
    /\ \A cp \in Checkpoint : cp # None
    /\ \A m \in Manifest : m # None
    /\ \A i \in HandlerRecord : i # None
    /\ \A x \in StarterRecord : x # None
BY IngestNone

LEMMA StaysTrue ==
    ASSUME WorkStays, NEW r \in CycleRecord, IsTrue(r), receipts \subseteq receipts',
           r.id \in receipts' \ receipts => r.phase \in {"publish", "receipt"}
    PROVE  IsTrue(r)'
<1>1. r.id \in Cycle
  BY DEF CycleRecord
<1> QED
  BY <1>1 DEF IsTrue, WorkStays

\* A record that differs from another in state and attempt only fits as well.
LEMMA SamePlaceFits ==
    ASSUME NEW r, NEW q, NEW cp, Fits(r, cp),
           q.id = r.id, q.phase = r.phase, q.cursor = r.cursor
    PROVE  Fits(q, cp)
BY DEF Fits, Assembled, ArtifactsFit, PagesFit, PartitionsFit

LEMMA ResultIs ==
    ASSUME CoordinatorTypes, handler # None, NEW next \in CycleRecord,
           NEW saved \in Checkpoint \cup {None}, NEW mark \in Mark, Result(next, saved, mark)
    PROVE  \E i \in HandlerRecord :
              /\ handler' = i
              /\ i.pc = "put" /\ i.cycle = handler.cycle /\ i.checkpoint = handler.checkpoint
              /\ i.next = next /\ i.saved = saved /\ i.mark = mark
<1>1. handler \in HandlerRecord
  BY HandlerIs
<1>2. PICK h1 \in HandlerRecord : h1 = [handler EXCEPT !.pc = "put", !.next = next]
  BY <1>1 DEF HandlerRecord, HandlerPc
<1>3. PICK h2 \in HandlerRecord : h2 = [h1 EXCEPT !.saved = saved, !.mark = mark]
  BY <1>2 DEF HandlerRecord, Mark
<1>4. handler' = [handler EXCEPT !.pc = "put", !.next = next, !.saved = saved, !.mark = mark]
  BY DEF Result
<1>5. handler' = h2
  BY <1>1, <1>2, <1>3, <1>4 DEF HandlerRecord
<1>6. /\ h1.pc = "put" /\ h1.cycle = handler.cycle /\ h1.checkpoint = handler.checkpoint
      /\ h1.next = next
  BY <1>1, <1>2 DEF HandlerRecord
<1>7. /\ h2.pc = h1.pc /\ h2.cycle = h1.cycle /\ h2.checkpoint = h1.checkpoint
      /\ h2.next = h1.next /\ h2.saved = saved /\ h2.mark = mark
  BY <1>3 DEF HandlerRecord
<1> QED
  BY <1>5, <1>6, <1>7

\* What a step leaves alone until its result is put.
LEMMA Concludes ==
    ASSUME CoordinatorInv, WorkStays, handler # None, handler.pc \in Working \cup {"put"},
           NEW next \in CycleRecord, NEW saved \in Checkpoint \cup {None}, NEW mark \in Mark,
           Result(next, saved, mark),
           next.id = handler.cycle.id, IsTrue(next)',
           Fits(next, IF saved = None THEN handler.checkpoint ELSE saved),
           Fits(handler.cycle, IF saved = None THEN handler.checkpoint ELSE saved),
           UNCHANGED <<storageVars, starter, timeVars>>,
           receipts \subseteq receipts',
           \A c \in receipts' \ receipts : c = handler.cycle.id /\ handler.cycle.phase = "publish",
           row' \in [Cycle -> CycleRecord \cup {None}],
           \A c \in Cycle : row[c] # None => row'[c] # None,
           RowsAreTrue',
           marks' \in [Cycle -> SUBSET (CyclePhase \X Nat)],
           manifestObject' \in [Cycle -> Manifest \cup {None}],
           faults' \in 0 .. MaxFaults,
           EverythingOnce'
    PROVE  CoordinatorInv'
<1>1. PICK i \in HandlerRecord :
              /\ handler' = i
              /\ i.pc = "put" /\ i.cycle = handler.cycle /\ i.checkpoint = handler.checkpoint
              /\ i.next = next /\ i.saved = saved /\ i.mark = mark
  BY ResultIs DEF CoordinatorInv
<1>2. /\ benchmarkCycle' = benchmarkCycle /\ benchmarkCheckpoint' = benchmarkCheckpoint
      /\ alarm' = alarm /\ starter' = starter /\ week' = week /\ overdue' = overdue
  BY DEF storageVars, timeVars
<1>3. HandlerReads /\ StorageIsRead /\ i # None /\ next # None
  BY NoneIs DEF CoordinatorInv, HandlerInv
<1>4. handler.cycle \in CycleRecord /\ benchmarkCycle \in CycleRecord \cup {None}
  BY HandlerIs DEF CoordinatorInv, CoordinatorTypes
<1>5. CoordinatorTypes'
  BY <1>1, <1>2 DEF CoordinatorInv, CoordinatorTypes
<1>6. IsTrue(handler.cycle)'
  <2>1. \A r \in CycleRecord : r = handler.cycle => IsTrue(r)'
    BY <1>3, StaysTrue DEF HandlerReads
  <2>2. PICK r \in CycleRecord : r = handler.cycle
    BY <1>4
  <2> QED
    BY <1>1, <2>1, <2>2 DEF IsTrue
<1>7. StorageInv'
  <2> SUFFICES ASSUME NEW r \in CycleRecord, r = benchmarkCycle
               PROVE  IsTrue(r)' /\ Fits(r, benchmarkCheckpoint)
    BY <1>2, <1>4 DEF StorageInv, IsTrue
  <2>1. r # None /\ IsTrue(r) /\ Fits(r, benchmarkCheckpoint)
    BY NoneIs DEF CoordinatorInv, StorageInv
  <2>2. r.id = handler.cycle.id => r.phase = handler.cycle.phase
    BY <1>3 DEF StorageIsRead
  <2> QED
    BY <2>1, <2>2, StaysTrue
<1>8. HandlerInv'
  <2>1. HandlerReads'
    BY <1>1, <1>3, <1>6 DEF HandlerReads
  <2>2. StorageIsRead'
    BY <1>1, <1>2, <1>3 DEF StorageIsRead, Working
  <2>3. ResultIsTrue'
    <3>1. IsTrue(handler.next)'
      BY <1>1 DEF IsTrue
    <3>2. After(handler)' = IF saved = None THEN handler.checkpoint ELSE saved
      BY <1>1 DEF After
    <3> QED
      BY <1>1, <1>3, <3>1, <3>2 DEF ResultIsTrue, Working
  <2> QED
    BY <2>1, <2>2, <2>3 DEF HandlerInv
<1>9. NamesAreFresh'
  <2>1. \A c \in Cycle : Known(c)' => Known(c)
    BY <1>1, <1>2 DEF Known
  <2>2. \A s \in Starter : starter[s] # None => starter[s].id \in Cycle
    BY DEF CoordinatorInv, CoordinatorTypes, StarterRecord
  <2> QED
    BY <1>2, <2>1, <2>2 DEF CoordinatorInv, NamesAreFresh
<1> QED
  BY <1>5, <1>7, <1>8, <1>9 DEF CoordinatorInv

LEMMA ManifestsStay ==
    ASSUME EverythingOnce, receipts' = receipts,
           \A c \in receipts : manifestObject'[c] = manifestObject[c]
    PROVE  EverythingOnce'
BY DEF EverythingOnce

LEMMA RowsStay ==
    ASSUME RowsAreTrue, receipts' = receipts, row' = row
    PROVE  RowsAreTrue'
BY DEF RowsAreTrue

LEMMA StandsStill ==
    ASSUME CoordinatorInv, WorkStays, receipts' = receipts,
           UNCHANGED <<benchmarkCycle, benchmarkCheckpoint, handler, manifestObject>>
    PROVE  StorageInv' /\ HandlerInv' /\ EverythingOnce'
<1>1. EverythingOnce'
  BY ManifestsStay DEF CoordinatorInv
<1>2. benchmarkCycle \in CycleRecord \cup {None} /\ handler \in HandlerRecord \cup {None}
  BY DEF CoordinatorInv, CoordinatorTypes
<1>3. \A r \in CycleRecord : IsTrue(r) => IsTrue(r)'
  BY StaysTrue
<1>4. StorageInv'
  BY <1>2, <1>3 DEF CoordinatorInv, StorageInv, IsTrue
<1>5. HandlerInv'
  <2> SUFFICES ASSUME handler # None PROVE (HandlerReads /\ StorageIsRead /\ ResultIsTrue)'
    BY DEF HandlerInv
  <2>1. HandlerReads /\ StorageIsRead /\ ResultIsTrue
    BY DEF CoordinatorInv, HandlerInv
  <2>2. handler.cycle \in CycleRecord /\ handler.next \in CycleRecord \cup {None}
    BY HandlerIs DEF CoordinatorInv
  <2>3. HandlerReads'
    BY <1>3, <2>1, <2>2 DEF HandlerReads, IsTrue, ManifestMatches
  <2>4. StorageIsRead'
    BY <2>1 DEF StorageIsRead
  <2>5. ResultIsTrue'
    BY <1>3, <2>1, <2>2 DEF ResultIsTrue, IsTrue, After
  <2> QED
    BY <2>3, <2>4, <2>5
<1> QED
  BY <1>1, <1>4, <1>5

\* A step goes on to its next call.
LEMMA GoesOn ==
    ASSUME CoordinatorInv, WorkStays, handler # None, handler.pc \in Working, NEW pc \in Working,
           handler' = [handler EXCEPT !.pc = pc],
           pc = "fill" => handler.cycle.cursor < Len(KeyOrder),
           pc = "batch" => ManifestMatches,
           receipts' = receipts, manifestObject' = manifestObject, UNCHANGED outside
    PROVE  CoordinatorInv'
<1>1. handler \in HandlerRecord /\ handler.cycle \in CycleRecord
  BY HandlerIs DEF CoordinatorInv
<1>2. PICK i \in HandlerRecord : i = [handler EXCEPT !.pc = pc]
  BY <1>1 DEF HandlerRecord, HandlerPc, Working
<1>3. /\ i.pc = pc /\ i.cycle = handler.cycle /\ i.checkpoint = handler.checkpoint /\ i # None
      /\ handler' = i
  BY <1>1, <1>2, NoneIs DEF HandlerRecord
<1>4. /\ benchmarkCycle' = benchmarkCycle /\ benchmarkCheckpoint' = benchmarkCheckpoint
      /\ alarm' = alarm /\ starter' = starter /\ week' = week /\ overdue' = overdue
      /\ row' = row /\ marks' = marks /\ faults' = faults
  BY DEF outside, storageVars, timeVars, receiptVars
<1>5. CoordinatorTypes'
  BY <1>3, <1>4 DEF CoordinatorInv, CoordinatorTypes
<1>6. EverythingOnce' /\ RowsAreTrue'
  BY <1>4, ManifestsStay, RowsStay DEF CoordinatorInv
<1>7. \A r \in CycleRecord : IsTrue(r) => IsTrue(r)'
  BY StaysTrue
<1>8. StorageInv'
  BY <1>4, <1>7 DEF CoordinatorInv, CoordinatorTypes, StorageInv, IsTrue
<1>9. HandlerInv'
  <2>1. HandlerReads /\ StorageIsRead
    BY DEF CoordinatorInv, HandlerInv
  <2>2. HandlerReads'
    BY <1>1, <1>3, <1>7, <2>1 DEF HandlerReads, IsTrue, ManifestMatches
  <2>3. StorageIsRead' /\ ResultIsTrue'
    BY <1>3, <1>4, <2>1 DEF StorageIsRead, ResultIsTrue, Working
  <2> QED
    BY <2>2, <2>3 DEF HandlerInv
<1>10. NamesAreFresh'
  <2>1. \A c \in Cycle : Known(c)' => Known(c)
    BY <1>3, <1>4 DEF Known
  <2>2. \A s \in Starter : starter[s] # None => starter[s].id \in Cycle
    BY DEF CoordinatorInv, CoordinatorTypes, StarterRecord
  <2> QED
    BY <1>4, <2>1, <2>2 DEF CoordinatorInv, NamesAreFresh
<1> QED
  BY <1>5, <1>6, <1>8, <1>9, <1>10 DEF CoordinatorInv

LEMMA EndedIs ==
    ASSUME NEW r \in CycleRecord, NEW state \in CycleState
    PROVE  /\ Ended(r, state) \in CycleRecord
           /\ Ended(r, state).id = r.id /\ Ended(r, state).state = state
           /\ Ended(r, state).phase = r.phase /\ Ended(r, state).cursor = r.cursor
           /\ Ended(r, state).attempt = r.attempt
BY DEF Ended, CycleRecord

\* A step that fails, or that is to be repeated, leaves its cycle where it is.
LEMMA EndsKeep ==
    ASSUME CoordinatorInv, WorkStays, handler # None, handler.pc \in Working \cup {"put"},
           Fails \/ RetryOrFail,
           receipts' = receipts, manifestObject' = manifestObject,
           UNCHANGED <<storageVars, receiptVars, starter, timeVars>>, faults' \in 0 .. MaxFaults
    PROVE  CoordinatorInv'
<1> DEFINE r == handler.cycle
<1>1. /\ r \in CycleRecord /\ r.attempt \in 0 .. MaxRequests
      /\ HandlerReads
  BY HandlerIs DEF CoordinatorInv, HandlerInv
<1>2. r.attempt + 1 \in 0 .. MaxRequests
  BY <1>1 DEF HandlerReads, IsTrue, MaxRequests
<1>3. PICK next \in CycleRecord, mark \in Mark :
          /\ Result(next, None, mark)
          /\ next.id = r.id /\ next.phase = r.phase /\ next.cursor = r.cursor
          /\ next.state # "published"
          /\ next.state \notin TerminalState => next.attempt < MaxRequests
  <2>1. CASE Fails
    <3>1. "failed" \in CycleState /\ "failed" \in TerminalState /\ "failed" \in Mark
      BY DEF CycleState, TerminalState, Mark
    <3> QED
      BY <1>1, <2>1, <3>1, EndedIs DEF Fails
  <2>2. CASE RetryOrFail
    <3>0. PICK attempt \in 0 .. MaxRequests : attempt = r.attempt + 1
      BY <1>2
    <3> DEFINE q(state) == [[r EXCEPT !.attempt = attempt] EXCEPT !.state = state]
    <3>1. /\ "failed" \in CycleState /\ "failed" \in TerminalState /\ "failed" \in Mark
          /\ "retry_wait" \in CycleState /\ "retry_wait" \in Mark
      BY DEF CycleState, TerminalState, Mark
    <3>2. ASSUME NEW state \in CycleState
          PROVE  /\ q(state) \in CycleRecord
                 /\ q(state).id = r.id /\ q(state).state = state /\ q(state).phase = r.phase
                 /\ q(state).cursor = r.cursor /\ q(state).attempt = attempt
      BY <1>1 DEF CycleRecord
    <3>3. \/ Result(q("failed"), None, "failed")
          \/ ~ (attempt >= MaxRequests) /\ Result(q("retry_wait"), None, "retry_wait")
      BY <2>2, <3>0 DEF RetryOrFail, Ended
    <3> HIDE DEF q, r
    <3>4. ~ (attempt >= MaxRequests) => attempt < MaxRequests
      BY DEF MaxRequests
    <3>5. CASE Result(q("failed"), None, "failed")
      BY <3>1, <3>2, <3>5
    <3>6. CASE ~ (attempt >= MaxRequests) /\ Result(q("retry_wait"), None, "retry_wait")
      BY <3>1, <3>2, <3>4, <3>6
    <3> QED
      BY <3>3, <3>5, <3>6
  <2> QED
    BY <2>1, <2>2
<1>4. IsTrue(next)'
  <2>1. IsTrue(next)
    BY <1>1, <1>3 DEF HandlerReads, IsTrue
  <2> QED
    BY <2>1, StaysTrue
<1>5. Fits(r, handler.checkpoint) /\ Fits(next, handler.checkpoint)
  BY <1>1, <1>3, SamePlaceFits DEF HandlerReads
<1>6. row' = row /\ marks' = marks /\ RowsAreTrue' /\ EverythingOnce'
  BY RowsStay, ManifestsStay DEF CoordinatorInv, receiptVars
<1>7. /\ row' \in [Cycle -> CycleRecord \cup {None}]
      /\ marks' \in [Cycle -> SUBSET (CyclePhase \X Nat)]
      /\ manifestObject' \in [Cycle -> Manifest \cup {None}]
      /\ \A c \in Cycle : row[c] # None => row'[c] # None
      /\ receipts \subseteq receipts'
      /\ receipts' \ receipts = {}
  BY <1>6 DEF CoordinatorInv, CoordinatorTypes
<1>8. UNCHANGED <<storageVars, starter, timeVars>>
  OBVIOUS
<1> QED
  BY <1>3, <1>4, <1>5, <1>6, <1>7, <1>8, Concludes

LEMMA MovedIs ==
    ASSUME NEW r \in CycleRecord, NEW phase \in CyclePhase, NEW cursor \in Nat
    PROVE  /\ Moved(r, phase, cursor) \in CycleRecord
           /\ Moved(r, phase, cursor).id = r.id
           /\ Moved(r, phase, cursor).state = "running"
           /\ Moved(r, phase, cursor).phase = phase
           /\ Moved(r, phase, cursor).cursor = cursor
           /\ Moved(r, phase, cursor).attempt = 0
<1>1. PICK r1 \in CycleRecord : r1 = [r EXCEPT !.state = "running", !.phase = phase]
  BY DEF CycleRecord, CycleState
<1>2. r1.id = r.id /\ r1.state = "running" /\ r1.phase = phase
  BY <1>1 DEF CycleRecord
<1>0. 0 \in 0 .. MaxRequests
  BY DEF MaxRequests
<1>3. PICK r2 \in CycleRecord : r2 = [r1 EXCEPT !.cursor = cursor, !.attempt = 0]
  BY <1>0 DEF CycleRecord
<1>4. /\ r2.id = r1.id /\ r2.state = r1.state /\ r2.phase = r1.phase
      /\ r2.cursor = cursor /\ r2.attempt = 0
  BY <1>3 DEF CycleRecord
<1>5. Moved(r, phase, cursor) = r2
  BY <1>1, <1>3 DEF Moved, CycleRecord
<1> QED
  BY <1>2, <1>4, <1>5

\* A step completes: its cycle moves on, with a checkpoint that fits both places.
LEMMA CompletesKeep ==
    ASSUME CoordinatorInv, WorkStays, handler # None, handler.pc \in Working,
           NEW phase \in CyclePhase, NEW cursor \in Nat, NEW cp \in Checkpoint,
           Completes(phase, cursor, cp),
           work'[handler.cycle.id] # None,
           handler.cycle.id \in receipts => phase \in {"publish", "receipt"},
           Fits(Moved(handler.cycle, phase, cursor), cp), Fits(handler.cycle, cp),
           UNCHANGED outside, receipts' = receipts,
           manifestObject' \in [Cycle -> Manifest \cup {None}], EverythingOnce'
    PROVE  CoordinatorInv'
<1>1. handler.cycle \in CycleRecord
  BY HandlerIs DEF CoordinatorInv
<1>2. PICK next \in CycleRecord : next = Moved(handler.cycle, phase, cursor)
  BY <1>1, MovedIs
<1>3. next.id = handler.cycle.id /\ next.state = "running" /\ next.phase = phase /\ next.attempt = 0
  BY <1>1, <1>2, MovedIs
<1>4. IsTrue(next)'
  BY <1>3 DEF IsTrue, MaxRequests, TerminalState
<1>5. Result(next, cp, "completed") /\ "completed" \in Mark /\ cp # None
  BY <1>2, NoneIs DEF Completes, Mark
<1>6. Fits(next, cp) /\ Fits(handler.cycle, cp)
  BY <1>2
<1>7. /\ row' = row /\ marks' = marks /\ faults' = faults /\ RowsAreTrue'
      /\ UNCHANGED <<storageVars, starter, timeVars>>
  BY RowsStay DEF CoordinatorInv, outside, receiptVars
<1>8. /\ row' \in [Cycle -> CycleRecord \cup {None}]
      /\ marks' \in [Cycle -> SUBSET (CyclePhase \X Nat)]
      /\ faults' \in 0 .. MaxFaults
      /\ \A c \in Cycle : row[c] # None => row'[c] # None
      /\ receipts \subseteq receipts'
      /\ receipts' \ receipts = {}
  BY <1>7 DEF CoordinatorInv, CoordinatorTypes
<1> QED
  BY <1>3, <1>4, <1>5, <1>6, <1>7, <1>8, Concludes

\* What is read of a handler that works in a phase.
LEMMA PlaceIs ==
    ASSUME CoordinatorInv, NEW phase,
           handler # None, handler.pc \in Working, handler.cycle.phase = phase
    PROVE  /\ handler.cycle \in CycleRecord
           /\ handler.cycle.id \in Cycle /\ handler.cycle.cursor \in Nat
           /\ IsTrue(handler.cycle)
           /\ phase # "acquire" =>
                 /\ work[handler.cycle.id] # None
                 /\ handler.checkpoint \in Checkpoint
                 /\ Assembled(handler.cycle, handler.checkpoint) /\ HashFits(handler.checkpoint)
           /\ phase \notin {"publish", "receipt"} => handler.cycle.id \notin receipts
<1>1. HandlerReads
  BY DEF CoordinatorInv, HandlerInv
<1> QED
  BY <1>1, HandlerIs DEF CoordinatorInv, HandlerReads, Fits, IsTrue

LEMMA StepIs ==
    ASSUME CoordinatorInv, NEW phase, InStep("step", phase)
    PROVE  /\ handler # None /\ handler.pc \in Working
           /\ handler.cycle.phase = phase
           /\ handler.cycle \in CycleRecord
           /\ handler.cycle.id \in Cycle /\ handler.cycle.cursor \in Nat
           /\ IsTrue(handler.cycle)
           /\ phase # "acquire" =>
                 /\ work[handler.cycle.id] # None
                 /\ handler.checkpoint \in Checkpoint
                 /\ Assembled(handler.cycle, handler.checkpoint) /\ HashFits(handler.checkpoint)
           /\ phase \notin {"publish", "receipt"} => handler.cycle.id \notin receipts
<1>1. handler # None /\ handler.pc \in Working /\ handler.cycle.phase = phase
  BY DEF InStep, At, Working
<1> QED
  BY <1>1, PlaceIs

\* Storing what was retrieved or staged does not touch the manifests.
LEMMA CompletesThere ==
    ASSUME CoordinatorInv, WorkStays, NEW here,
           handler # None, handler.pc \in Working, handler.cycle.phase = here,
           here \notin {"acquire", "publish", "receipt"},
           NEW phase \in CyclePhase, NEW cursor \in Nat, NEW cp \in Checkpoint,
           Completes(phase, cursor, cp),
           Assembled(handler.cycle, cp), Assembled(Moved(handler.cycle, phase, cursor), cp),
           HashFits(cp),
           UNCHANGED outside, receipts' = receipts, manifestObject' = manifestObject
    PROVE  CoordinatorInv'
<1>1. work[handler.cycle.id] # None /\ handler.cycle.id \in Cycle /\ handler.cycle.id \notin receipts
  BY PlaceIs
<1>2. work'[handler.cycle.id] # None
  BY <1>1 DEF WorkStays
<1>3. cp # None
  BY NoneIs
<1>4. Fits(Moved(handler.cycle, phase, cursor), cp) /\ Fits(handler.cycle, cp)
  BY <1>3 DEF Fits
<1>5. manifestObject' \in [Cycle -> Manifest \cup {None}] /\ EverythingOnce'
  BY ManifestsStay DEF CoordinatorInv, CoordinatorTypes
<1> QED
  BY <1>1, <1>2, <1>4, <1>5, CompletesKeep

LEMMA CompletesQuietly ==
    ASSUME CoordinatorInv, WorkStays, NEW here, InStep("step", here),
           here \notin {"acquire", "publish", "receipt"},
           NEW phase \in CyclePhase, NEW cursor \in Nat, NEW cp \in Checkpoint,
           Completes(phase, cursor, cp),
           Assembled(handler.cycle, cp), Assembled(Moved(handler.cycle, phase, cursor), cp),
           HashFits(cp),
           UNCHANGED outside, receipts' = receipts, manifestObject' = manifestObject
    PROVE  CoordinatorInv'
BY StepIs, CompletesThere

\* The hash of the manifest is not looked at by what has been assembled.
LEMMA HashAside ==
    ASSUME NEW cp \in Checkpoint, NEW d \in BOOLEAN, ValidManifest(ManifestOf(cp, d))
    PROVE  \E q \in Checkpoint :
              /\ q = [cp EXCEPT !.hash = ManifestOf(cp, d)]
              /\ q.id = cp.id /\ q.benchLm = cp.benchLm /\ q.pages = cp.pages
              /\ q.subset = cp.subset /\ q.page = cp.page /\ q.transport = cp.transport
              /\ q.normalized = cp.normalized
              /\ q.hash = ManifestOf(cp, d)
              /\ HashFits(q)
<1>1. PICK m \in Manifest : m = ManifestOf(cp, d)
  BY DEF Checkpoint, Manifest, ManifestOf
<1>2. PICK q \in Checkpoint : q = [cp EXCEPT !.hash = m]
  BY DEF Checkpoint
<1>3. /\ q.id = cp.id /\ q.benchLm = cp.benchLm /\ q.pages = cp.pages
      /\ q.subset = cp.subset /\ q.page = cp.page /\ q.transport = cp.transport
      /\ q.normalized = cp.normalized
      /\ q.hash = m
  BY <1>2 DEF Checkpoint
<1>4. ManifestOf(q, d) = ManifestOf(cp, d)
  BY <1>3 DEF ManifestOf
<1>5. HashFits(q)
  BY <1>1, <1>3, <1>4 DEF HashFits
<1> QED
  BY <1>1, <1>2, <1>3, <1>5

LEMMA AssembledAside ==
    ASSUME NEW r, NEW cp, NEW q, Assembled(r, cp), r.phase # "retrieve-benchlm",
           q.id = cp.id, q.benchLm = cp.benchLm, q.pages = cp.pages,
           q.subset = cp.subset, q.page = cp.page, q.transport = cp.transport,
           q.normalized = cp.normalized
    PROVE  Assembled(r, q)
<1>1. ArtifactsFit(r, q)
  BY DEF Assembled, ArtifactsFit
<1>2. PagesFit(r, q)
  BY DEF Assembled, PagesFit
<1>3. PartitionsFit(r, q)
  BY DEF Assembled, PartitionsFit, WorklistLength
<1> QED
  BY <1>1, <1>2, <1>3 DEF Assembled

\* A manifest is written only for a cycle that has not been published.
LEMMA ManifestStep ==
    ASSUME CoordinatorInv, WorkStays, NEW here, InStep("step", here),
           here \notin {"acquire", "retrieve-benchlm", "publish", "receipt"},
           NEW phase \in CyclePhase, phase # "retrieve-benchlm",
           NEW cursor \in Nat, NEW cp \in Checkpoint,
           ManifestThenCompletes(phase, cursor, cp),
           Assembled(handler.cycle, cp), Assembled(Moved(handler.cycle, phase, cursor), cp),
           UNCHANGED outside, receipts \subseteq Cycle, receipts' = receipts
    PROVE  CoordinatorInv'
<1>1. /\ handler # None /\ handler.pc \in Working /\ handler.cycle.phase = here
      /\ handler.cycle \in CycleRecord
      /\ work[handler.cycle.id] # None /\ handler.cycle.id \in Cycle
      /\ handler.cycle.id \notin receipts
  BY StepIs
<1>2. cp.id = handler.cycle.id /\ ~ (Len(cp.benchLm) < Len(Artifacts))
  BY <1>1, ArtifactsAre DEF Assembled, ArtifactsFit, Checkpoint
<1>3. CASE ValidManifest(ManifestOf(cp, FALSE))
  <2>1. PICK q \in Checkpoint :
              /\ q = [cp EXCEPT !.hash = ManifestOf(cp, FALSE)]
              /\ q.id = cp.id /\ q.benchLm = cp.benchLm /\ q.pages = cp.pages
              /\ q.subset = cp.subset /\ q.page = cp.page /\ q.transport = cp.transport
              /\ q.normalized = cp.normalized
              /\ q.hash = ManifestOf(cp, FALSE)
              /\ HashFits(q)
    BY <1>3, HashAside
  <2>2. WriteManifest(cp, FALSE) /\ Completes(phase, cursor, q)
    BY <1>2, <1>3, <2>1 DEF ManifestThenCompletes
  <2>3. Moved(handler.cycle, phase, cursor).phase = phase
    BY <1>1, MovedIs
  <2>4. \A r : Assembled(r, cp) /\ r.phase # "retrieve-benchlm" => Assembled(r, q)
    <3>1. /\ q.id = cp.id /\ q.benchLm = cp.benchLm /\ q.pages = cp.pages
          /\ q.subset = cp.subset /\ q.page = cp.page /\ q.transport = cp.transport
          /\ q.normalized = cp.normalized
      BY <2>1
    <3> QED
      BY <3>1, AssembledAside
  <2>5. Assembled(handler.cycle, q) /\ Assembled(Moved(handler.cycle, phase, cursor), q)
    BY <1>1, <2>3, <2>4
  <2>6. q # None
    BY NoneIs
  <2>7. Fits(Moved(handler.cycle, phase, cursor), q) /\ Fits(handler.cycle, q)
    BY <2>1, <2>5, <2>6 DEF Fits
  <2>8. manifestObject' = [manifestObject EXCEPT ![handler.cycle.id] = ManifestOf(cp, FALSE)]
    BY <1>2, <2>2 DEF WriteManifest
  <2>9. ManifestOf(cp, FALSE) \in Manifest
    BY DEF Checkpoint, Manifest, ManifestOf
  <2>10. manifestObject' \in [Cycle -> Manifest \cup {None}]
    BY <2>8, <2>9 DEF CoordinatorInv, CoordinatorTypes
  <2>11. \A c \in receipts : manifestObject'[c] = manifestObject[c]
    BY <1>1, <2>8 DEF CoordinatorInv, CoordinatorTypes
  <2>12. EverythingOnce'
    BY <2>11, ManifestsStay DEF CoordinatorInv
  <2>13. work'[handler.cycle.id] # None
    BY <1>1 DEF WorkStays
  <2> QED
    BY <1>1, <2>2, <2>7, <2>10, <2>12, <2>13, CompletesKeep
<1>4. CASE ~ ValidManifest(ManifestOf(cp, FALSE))
  <2>1. (Fails \/ RetryOrFail) /\ manifestObject' = manifestObject
    BY <1>2, <1>4 DEF ManifestThenCompletes
  <2>2. /\ UNCHANGED <<storageVars, receiptVars, starter, timeVars>>
        /\ faults' \in 0 .. MaxFaults
    BY DEF outside, CoordinatorInv, CoordinatorTypes
  <2> QED
    BY <1>1, <2>1, <2>2, EndsKeep
<1> QED
  BY <1>3, <1>4

-----------------------------------------------------------------------------
(***************************************************************************)
(* The pages of the subsets.                                               *)
(***************************************************************************)
LEMMA JoinedOnce ==
    ASSUME NEW S, NEW s \in Seq(S), NEW t \in Seq(S), IsInjective(s), IsInjective(t),
           ToSet(s) \cap ToSet(t) = {}
    PROVE  /\ s \o t \in Seq(S)
           /\ IsInjective(s \o t)
           /\ ToSet(s \o t) = ToSet(s) \cup ToSet(t)
<1> DEFINE n == Len(s)
           m == Len(t)
           u == s \o t
<1>1. /\ n \in Nat /\ m \in Nat /\ u \in Seq(S)
      /\ DOMAIN s = 1 .. n /\ DOMAIN t = 1 .. m /\ DOMAIN u = 1 .. n + m
      /\ \A i \in 1 .. n : u[i] = s[i]
      /\ \A i \in n + 1 .. n + m : u[i] = t[i - n]
  OBVIOUS
<1> HIDE DEF n, m, u
<1>2. /\ \A i \in 1 .. n + m : i \notin 1 .. n => i \in n + 1 .. n + m /\ i - n \in 1 .. m
      /\ \A i \in 1 .. n : i \in 1 .. n + m
      /\ \A i \in 1 .. m : i + n \in 1 .. n + m /\ i + n \in n + 1 .. n + m /\ (i + n) - n = i
      /\ \A i \in n + 1 .. n + m : i \in 1 .. n + m
      /\ \A i \in 1 .. n + m, j \in 1 .. n + m : i - n = j - n => i = j
  BY <1>1
<1>3. ToSet(s) = {s[i] : i \in 1 .. n} /\ ToSet(t) = {t[i] : i \in 1 .. m}
  BY <1>1, Zenon DEF ToSet
<1>4. ToSet(u) = {u[i] : i \in 1 .. n + m}
  BY <1>1, Zenon DEF ToSet
<1>5. ToSet(u) = ToSet(s) \cup ToSet(t)
  <2>1. ASSUME NEW i \in 1 .. n + m PROVE u[i] \in ToSet(s) \cup ToSet(t)
    <3>1. CASE i \in 1 .. n
      <4>1. u[i] = s[i]
        BY <1>1, <3>1
      <4> QED
        BY <1>3, <3>1, <4>1
    <3>2. CASE i \notin 1 .. n
      <4>1. u[i] = t[i - n] /\ i - n \in 1 .. m
        BY <1>1, <1>2, <3>2
      <4> QED
        BY <1>3, <4>1
    <3> QED
      BY <3>1, <3>2
  <2>2. ASSUME NEW i \in 1 .. n PROVE s[i] \in ToSet(u)
    <3>1. u[i] = s[i] /\ i \in 1 .. n + m
      BY <1>1, <1>2
    <3> QED
      BY <1>4, <3>1
  <2>3. ASSUME NEW i \in 1 .. m PROVE t[i] \in ToSet(u)
    <3>1. u[i + n] = t[i] /\ i + n \in 1 .. n + m
      BY <1>1, <1>2
    <3> QED
      BY <1>4, <3>1
  <2> QED
    BY <1>3, <1>4, <2>1, <2>2, <2>3, Zenon
<1>6. IsInjective(u)
  <2> SUFFICES ASSUME NEW a \in 1 .. n + m, NEW b \in 1 .. n + m, u[a] = u[b] PROVE a = b
    BY <1>1, Zenon DEF IsInjective
  <2>1. CASE a \in 1 .. n /\ b \in 1 .. n
    BY <1>1, <2>1, Zenon DEF IsInjective
  <2>2. CASE a \notin 1 .. n /\ b \notin 1 .. n
    <3>1. t[a - n] = t[b - n] /\ a - n \in 1 .. m /\ b - n \in 1 .. m
      BY <1>1, <1>2, <2>2, Zenon
    <3>2. a - n = b - n
      BY <1>1, <3>1, Zenon DEF IsInjective
    <3> QED
      BY <1>2, <3>2, Zenon
  <2>3. ASSUME NEW i \in 1 .. n, NEW j \in 1 .. n + m, j \notin 1 .. n PROVE u[i] # u[j]
    <3>0. u[i] = s[i] /\ u[j] = t[j - n] /\ j - n \in 1 .. m
      BY <1>1, <1>2, <2>3
    <3>1. u[i] \in ToSet(s) /\ u[j] \in ToSet(t)
      BY <1>3, <3>0
    <3> QED
      BY <3>1
  <2> QED
    BY <2>1, <2>2, <2>3, Zenon
<1> QED
  BY <1>1, <1>5, <1>6 DEF u

\* The next pages of a subset, in order.
LEMMA MorePages ==
    ASSUME NEW pages \in Seq(Page), NEW more \in Seq(Page), NEW s \in Nat, NEW p \in Nat, NEW n \in Nat,
           PagesSoFar(pages, s, p), IsInjective(more),
           ToSet(more) = {<<s, j>> : j \in p .. p + n - 1}
    PROVE  pages \o more \in Seq(Page) /\ PagesSoFar(pages \o more, s, p + n)
<1>1. ToSet(pages) \cap ToSet(more) = {}
  BY DEF PagesSoFar
<1>2. /\ pages \o more \in Seq(Page) /\ IsInjective(pages \o more)
      /\ ToSet(pages \o more) = ToSet(pages) \cup ToSet(more)
  BY <1>1, JoinedOnce DEF PagesSoFar
<1>3. ToSet(pages) \subseteq Page /\ ToSet(more) \subseteq Page
  BY DEF ToSet
<1> DEFINE all == ToSet(pages \o more)
<1>4. ASSUME NEW q \in all
      PROVE  /\ q[1] < s \/ (q[1] = s /\ q[2] < p + n)
             /\ \A j \in 0 .. q[2] : <<q[1], j>> \in all
  <2>1. CASE q \in ToSet(pages)
    <3>1. q \in Page /\ q[2] \in Nat
      BY <1>3, <2>1 DEF Page
    <3>2. /\ q[1] < s \/ (q[1] = s /\ q[2] < p)
          /\ \A j \in 0 .. q[2] : <<q[1], j>> \in ToSet(pages)
      BY <2>1 DEF PagesSoFar
    <3> QED
      BY <1>2, <3>1, <3>2
  <2>2. CASE q \in ToSet(more)
    <3>1. PICK i \in p .. p + n - 1 : q = <<s, i>>
      BY <2>2
    <3>2. q[1] = s /\ q[2] = i
      BY <3>1
    <3>3. \A j \in 0 .. i : <<s, j>> \in all
      <4> TAKE j \in 0 .. i
      <4>1. j \in 0 .. p - 1 \/ j \in p .. p + n - 1
        OBVIOUS
      <4>2. j \in 0 .. p - 1 => <<s, j>> \in ToSet(pages)
        BY DEF PagesSoFar
      <4>3. j \in p .. p + n - 1 => <<s, j>> \in ToSet(more)
        OBVIOUS
      <4> QED
        BY <1>2, <4>1, <4>2, <4>3
    <3> QED
      BY <3>2, <3>3
  <2> QED
    BY <1>2, <1>4, <2>1, <2>2
<1>5. \A k \in 0 .. s - 1 : <<k, 0>> \in all
  BY <1>2 DEF PagesSoFar
<1>6. \A j \in 0 .. (p + n) - 1 : <<s, j>> \in all
  <2> TAKE j \in 0 .. (p + n) - 1
  <2>1. j \in 0 .. p - 1 \/ j \in p .. p + n - 1
    OBVIOUS
  <2>2. j \in 0 .. p - 1 => <<s, j>> \in ToSet(pages)
    BY DEF PagesSoFar
  <2>3. j \in p .. p + n - 1 => <<s, j>> \in ToSet(more)
    OBVIOUS
  <2> QED
    BY <1>2, <2>1, <2>2, <2>3
<1> HIDE DEF all
<1> QED
  BY <1>2, <1>4, <1>5, <1>6 DEF PagesSoFar, all

LEMMA OnePage ==
    ASSUME NEW pages \in Seq(Page), NEW s \in Nat, NEW p \in Nat, <<s, p>> \in Page,
           PagesSoFar(pages, s, p)
    PROVE  /\ Append(pages, <<s, p>>) \in Seq(Page)
           /\ PagesSoFar(Append(pages, <<s, p>>), s, p + 1)
<1> DEFINE more == <<<<s, p>>>>
<1>1. more \in Seq(Page) /\ DOMAIN more = {1} /\ more[1] = <<s, p>>
  OBVIOUS
<1>2. p .. p + 1 - 1 = {p}
  OBVIOUS
<1>3. IsInjective(more) /\ ToSet(more) = {<<s, p>>}
  BY <1>1, Zenon DEF IsInjective, ToSet
<1>4. pages \o more \in Seq(Page) /\ PagesSoFar(pages \o more, s, p + 1)
  <2>1. ToSet(more) = {<<s, j>> : j \in p .. p + 1 - 1}
    BY <1>2, <1>3
  <2> HIDE DEF more
  <2> QED
    BY <1>1, <1>3, <2>1, MorePages
<1>5. Append(pages, <<s, p>>) = pages \o more
  OBVIOUS
<1> QED
  BY <1>4, <1>5

\* A subset that has its first page is followed by the next one.
LEMMA SubsetIsDone ==
    ASSUME NEW pages \in Seq(Page), NEW s \in Nat, NEW p \in Nat \ {0}, PagesSoFar(pages, s, p)
    PROVE  PagesSoFar(pages, s + 1, 0)
<1>1. \A q \in ToSet(pages) : q[1] \in Nat /\ q[2] \in Nat
  BY DEF ToSet, Page
<1>2. \A k \in 0 .. s : <<k, 0>> \in ToSet(pages)
  <2> TAKE k \in 0 .. s
  <2>1. k \in 0 .. s - 1 \/ k = s
    OBVIOUS
  <2>2. 0 \in 0 .. p - 1
    OBVIOUS
  <2> QED
    BY <2>1, <2>2 DEF PagesSoFar
<1>3. 0 .. (s + 1) - 1 = 0 .. s
  OBVIOUS
<1>4. \A q \in ToSet(pages) : q[1] < s + 1
  BY <1>1 DEF PagesSoFar
<1> QED
  BY <1>2, <1>3, <1>4 DEF PagesSoFar

LEMMA WholeFile ==
    ASSUME NEW pages \in Seq(Page), NEW s \in 0 .. Subsets - 1, NEW n \in 1 .. MaxPages,
           PagesSoFar(pages, s, 0)
    PROVE  LET all == pages \o [i \in 1 .. n |-> <<s, i - 1>>]
           IN  all \in Seq(Page) /\ PagesSoFar(all, s + 1, 0)
<1> DEFINE more == [i \in 1 .. n |-> <<s, i - 1>>]
<1>1. s \in Nat /\ n \in Nat \ {0} /\ 0 \in Nat
  BY IngestBounds
<1>2. \A i \in 1 .. n : <<s, i - 1>> \in Page
  BY IngestBounds DEF Page
<1>3. more \in Seq(Page)
  BY <1>1, <1>2
<1>4. IsInjective(more)
  BY <1>1 DEF IsInjective
<1>5. ToSet(more) = {<<s, j>> : j \in 0 .. 0 + n - 1}
  <2>1. ToSet(more) = {<<s, i - 1>> : i \in 1 .. n}
    BY DEF ToSet
  <2>2. /\ \A i \in 1 .. n : i - 1 \in 0 .. 0 + n - 1
        /\ \A j \in 0 .. 0 + n - 1 : j + 1 \in 1 .. n /\ (j + 1) - 1 = j
    BY <1>1
  <2> QED
    BY <2>1, <2>2
<1> HIDE DEF more
<1>6. pages \o more \in Seq(Page) /\ PagesSoFar(pages \o more, s, 0 + n)
  BY <1>1, <1>3, <1>4, <1>5, MorePages
<1>7. PagesSoFar(pages \o more, s + 1, 0)
  <2>1. 0 + n = n
    BY <1>1
  <2>2. PICK all \in Seq(Page) : all = pages \o more
    BY <1>6
  <2>3. PagesSoFar(all, s, n)
    BY <1>6, <2>1, <2>2
  <2> QED
    BY <1>1, <2>2, <2>3, SubsetIsDone
<1> QED
  BY <1>6, <1>7 DEF more

-----------------------------------------------------------------------------
(***************************************************************************)
(* The phases that talk to the sources.                                    *)
(***************************************************************************)
LEMMA FreezeWorks ==
    ASSUME TablesInv, NEW c \in Cycle, NEW w \in Week, Freeze(c, w)
    PROVE  work'[c] # None
<1> DEFINE stamp  == IF work[c] = None THEN started + 1 ELSE work[c].stamp
           record == [frozen |-> catalog, previous |-> ActiveRevision, candidate |-> None,
                      stamp |-> stamp, week |-> w, phase |-> "derive"]
<1>1. work \in [Cycle -> Work \cup {None}]
  BY DEF TablesInv, PublicationTypeOK
<1>2. catalog \in 1 .. MaxCatalog
  BY BenchmarkConstants DEF Freeze, TablesInv, PublicationTypeOK
<1>3. ActiveRevision \in Revision \cup {None}
  BY DEF TablesInv, PublicationTypeOK, ActiveRevision
<1>4. stamp \in Nat
  BY <1>1 DEF TablesInv, PublicationTypeOK, Work
<1>5. record \in Work
  BY <1>2, <1>3, <1>4 DEF Work, Phase
<1>6. work' = [work EXCEPT ![c] = record]
  BY DEF Freeze, Advance
<1> QED
  BY <1>1, <1>5, <1>6, BenchmarkNone

LEMMA FirstCheckpointFits ==
    ASSUME NEW r, NEW c \in Cycle, r.id = c, r.phase = "retrieve-benchlm", r.cursor = 0
    PROVE  FirstCheckpoint(c) \in Checkpoint /\ Fits(r, FirstCheckpoint(c))
<1>1. PICK cp \in Checkpoint :
         /\ cp = FirstCheckpoint(c)
         /\ cp.id = c /\ cp.benchLm = <<>> /\ cp.subset = 0 /\ cp.page = 0
         /\ cp.transport = "viewer" /\ cp.pages = <<>> /\ cp.normalized = <<>> /\ cp.hash = None
  <2>1. 0 \in 0 .. Subsets /\ 0 \in 0 .. MaxPages
    BY IngestBounds
  <2>2. <<>> \in Seq(ToSet(Artifacts)) /\ <<>> \in Seq(Page) /\ <<>> \in Seq(Nat)
    OBVIOUS
  <2>3. FirstCheckpoint(c) \in Checkpoint
    BY <2>1, <2>2 DEF FirstCheckpoint, NewCheckpoint, Checkpoint
  <2> QED
    BY <2>3 DEF FirstCheckpoint, NewCheckpoint
<1>2. ArtifactsFit(r, cp)
  <2>1. Len(cp.benchLm) = 0
    BY <1>1
  <2>2. cp.benchLm = FirstArtifacts(0)
    BY <1>1, FirstArtifactsAre
  <2> QED
    BY <1>1, <2>1, <2>2, ArtifactsAre DEF ArtifactsFit
<1>3. PagesFit(r, cp)
  <2>1. ToSet(<<>>) = {} /\ IsInjective(<<>>)
    BY DEF ToSet, IsInjective
  <2>2. PagesSoFar(cp.pages, cp.subset, cp.page)
    BY <1>1, <2>1 DEF PagesSoFar
  <2> QED
    BY <1>1, <2>2, IngestBounds DEF PagesFit, SourcePhase
<1>4. PartitionsFit(r, cp)
  BY <1>1 DEF PartitionsFit, SourcePhase, CandidatePhase, Phase
<1>5. HashFits(cp) /\ cp # None
  BY <1>1, NoneIs DEF HashFits
<1> QED
  BY <1>1, <1>2, <1>3, <1>4, <1>5 DEF Fits, Assembled

\* What UNCHANGED publicationVars says of the receipts.
LEMMA TablesStand == UNCHANGED publicationVars => receipts' = receipts
BY DEF publicationVars

\* A step that fails on what it has found.
LEMMA FailsKeep ==
    ASSUME CoordinatorInv, WorkStays, handler # None, handler.pc \in Working,
           Fails \/ RetryOrFail, UNCHANGED <<outside, manifestObject>>, receipts' = receipts
    PROVE  CoordinatorInv'
<1>1. /\ UNCHANGED <<storageVars, receiptVars, starter, timeVars>>
      /\ manifestObject' = manifestObject
      /\ faults' \in 0 .. MaxFaults
  BY DEF outside, CoordinatorInv, CoordinatorTypes
<1> QED
  BY <1>1, EndsKeep

LEMMA AcquireKeeps ==
    ASSUME TablesInv, CoordinatorInv, WorkStays, Acquire
    PROVE  CoordinatorInv'
<1> DEFINE c == handler.cycle.id
<1>1. InStep("step", "acquire") /\ UNCHANGED <<outside, manifestObject>>
  BY DEF Acquire
<1>2. /\ handler # None /\ handler.pc \in Working /\ handler.cycle.phase = "acquire"
      /\ handler.cycle \in CycleRecord /\ c \in Cycle /\ c \notin receipts
  BY <1>1, StepIs
<1>3. handler.cycle.week \in Week
  BY <1>2, HandlerIs DEF CoordinatorInv
<1>4. CASE catalog = 0
  BY <1>1, <1>2, <1>4, FailsKeep, TablesStand DEF Acquire
<1>5. CASE catalog # 0
  <2>1. Freeze(c, handler.cycle.week) /\ Completes("retrieve-benchlm", 0, FirstCheckpoint(c))
    BY <1>5 DEF Acquire
  <2>2. work'[c] # None /\ receipts' = receipts
    BY <1>2, <1>3, <2>1, FreezeWorks DEF Freeze, Advance
  <2>3. "retrieve-benchlm" \in CyclePhase /\ 0 \in Nat
    BY DEF CyclePhase
  <2>4. PICK r \in CycleRecord :
            /\ r = Moved(handler.cycle, "retrieve-benchlm", 0)
            /\ r.id = c /\ r.phase = "retrieve-benchlm" /\ r.cursor = 0
    BY <1>2, <2>3, MovedIs
  <2>5. FirstCheckpoint(c) \in Checkpoint /\ Fits(r, FirstCheckpoint(c))
    BY <1>2, <2>4, FirstCheckpointFits
  <2>6. Fits(handler.cycle, FirstCheckpoint(c))
    BY <1>2 DEF Fits
  <2>7. UNCHANGED outside /\ manifestObject' = manifestObject
    BY <1>1
  <2>8. manifestObject' \in [Cycle -> Manifest \cup {None}] /\ EverythingOnce'
    BY <2>2, <2>7, ManifestsStay DEF CoordinatorInv, CoordinatorTypes
  <2> QED
    BY <1>2, <2>1, <2>2, <2>3, <2>4, <2>5, <2>6, <2>7, <2>8, CompletesKeep
<1> QED
  BY <1>4, <1>5

LEMMA SourceFailsKeeps ==
    ASSUME CoordinatorInv, WorkStays, SourceFails \/ PageFails \/ ManifestMismatch
    PROVE  CoordinatorInv'
<1>1. /\ At("step")
      /\ Fails \/ RetryOrFail
      /\ UNCHANGED <<publicationVars, outside, manifestObject>>
  BY DEF SourceFails, PageFails, ManifestMismatch, InPages, InStep
<1>2. handler # None /\ handler.pc \in Working
  BY <1>1 DEF At, Working
<1> QED
  BY <1>1, <1>2, FailsKeep, TablesStand

\* Nothing about pages and partitions depends on which source phase it is.
LEMMA SourcePhasesFit ==
    ASSUME NEW r, NEW q, NEW cp, NEW d, Assembled(r, cp),
           r.phase \in SourcePhase, q.phase \in SourcePhase, q.id = r.id,
           d.id = cp.id, d.pages = cp.pages, d.subset = cp.subset, d.page = cp.page,
           d.transport = cp.transport, d.normalized = cp.normalized,
           ArtifactsFit(q, d)
    PROVE  Assembled(q, d)
<1>1. PagesFit(q, d)
  BY DEF Assembled, PagesFit
<1>2. PartitionsFit(q, d)
  BY DEF Assembled, PartitionsFit, SourcePhase, CandidatePhase, Phase
<1> QED
  BY <1>1, <1>2 DEF Assembled

LEMMA RetrieveBenchLmKeeps ==
    ASSUME CoordinatorInv, WorkStays, RetrieveBenchLm
    PROVE  CoordinatorInv'
<1> DEFINE r == handler.cycle
           k == handler.cycle.cursor
           cp == handler.checkpoint
           x == Artifacts[k + 1]
<1>1. /\ InStep("step", "retrieve-benchlm")
      /\ UNCHANGED <<publicationVars, outside, manifestObject>>
  BY DEF RetrieveBenchLm
<1>2. /\ r.phase = "retrieve-benchlm" /\ r \in CycleRecord /\ k \in Nat
      /\ cp \in Checkpoint /\ Assembled(r, cp)
  BY <1>1, StepIs
<1>3. /\ k < Len(Artifacts) /\ k <= Len(cp.benchLm) /\ cp.hash = None
      /\ IsInjective(cp.benchLm) => cp.benchLm \in {FirstArtifacts(k), FirstArtifacts(k + 1)}
      /\ cp.benchLm \in Seq(ToSet(Artifacts))
  BY <1>2 DEF Assembled, ArtifactsFit, Checkpoint
<1>4. /\ x \in ToSet(Artifacts)
      /\ FirstArtifacts(k) \in Seq(ToSet(Artifacts))
      /\ FirstArtifacts(k + 1) = Append(FirstArtifacts(k), x)
  BY <1>2, <1>3, ArtifactsAre, FirstArtifactsAre
<1>5. PICK s \in Seq(ToSet(Artifacts)) : s = Append(cp.benchLm, x)
  <2>1. PICK b \in Seq(ToSet(Artifacts)) : b = cp.benchLm
    BY <1>3
  <2>2. PICK y \in ToSet(Artifacts) : y = x
    BY <1>4
  <2>3. Append(b, y) \in Seq(ToSet(Artifacts))
    OBVIOUS
  <2> QED
    BY <2>1, <2>2, <2>3
<1>6. Len(s) = Len(cp.benchLm) + 1 /\ Len(cp.benchLm) \in Nat
  BY <1>3, <1>4, <1>5
<1>7. IsInjective(s) => s = FirstArtifacts(k + 1)
  BY <1>3, <1>4, <1>5, AppendOnce
<1>8. PICK d \in Checkpoint : d = [cp EXCEPT !.benchLm = s]
  BY <1>2 DEF Checkpoint
<1>9. /\ d.id = cp.id /\ d.pages = cp.pages /\ d.subset = cp.subset /\ d.page = cp.page
      /\ d.transport = cp.transport /\ d.normalized = cp.normalized
      /\ d.benchLm = s /\ d.hash = cp.hash
  BY <1>2, <1>8 DEF Checkpoint
<1>10. d = [cp EXCEPT !.benchLm = Append(@, x)]
  BY <1>2, <1>5, <1>8 DEF Checkpoint
<1>11. HashFits(d)
  BY <1>3, <1>9 DEF HashFits
<1> DEFINE ends == ~ (k + 1 < Len(Artifacts))
           phase == IF ends THEN "assemble-benchlm" ELSE "retrieve-benchlm"
           cursor == IF ends THEN 0 ELSE k + 1
<1>12. Completes(phase, cursor, d)
  BY <1>10 DEF RetrieveBenchLm
<1>13. phase \in CyclePhase /\ phase \in SourcePhase /\ cursor \in Nat
  BY <1>2 DEF CyclePhase, SourcePhase
<1> HIDE DEF ends, phase, cursor, r, k, cp, x
<1>14. PICK q \in CycleRecord :
            q = Moved(r, phase, cursor) /\ q.id = r.id /\ q.phase = phase /\ q.cursor = cursor
  BY <1>2, <1>13, MovedIs
<1>15. ArtifactsFit(r, d)
  BY <1>2, <1>3, <1>6, <1>7, <1>9 DEF ArtifactsFit, k, r
<1>16. ArtifactsFit(q, d)
  <2>1. CASE ends
    <3>1. k + 1 = Len(Artifacts)
      BY <1>2, <1>3, <2>1, ArtifactsAre DEF ends
    <3>2. IsInjective(s) => s = Artifacts
      BY <1>7, <3>1, FirstArtifactsAre
    <3>3. Len(Artifacts) <= Len(s)
      BY <1>3, <1>6, <3>1, <1>2
    <3>4. q.phase = "assemble-benchlm"
      BY <1>14, <2>1 DEF phase
    <3> QED
      BY <1>9, <3>2, <3>3, <3>4 DEF ArtifactsFit
  <2>2. CASE ~ ends
    <3>1. k + 1 < Len(Artifacts) /\ k + 1 <= Len(s)
      BY <1>2, <1>3, <1>6, <2>2 DEF ends
    <3>2. q.phase = "retrieve-benchlm" /\ q.cursor = k + 1
      BY <1>14, <2>2 DEF phase, cursor
    <3> QED
      BY <1>3, <1>7, <1>9, <3>1, <3>2 DEF ArtifactsFit
  <2> QED
    BY <2>1, <2>2
<1>17. Assembled(r, d)
  BY <1>2, <1>9, <1>15, SourcePhasesFit DEF SourcePhase
<1>18. Assembled(q, d)
  BY <1>2, <1>9, <1>13, <1>14, <1>16, SourcePhasesFit DEF SourcePhase
<1>19. UNCHANGED outside /\ receipts' = receipts /\ manifestObject' = manifestObject
  BY <1>1, TablesStand
<1> QED
  BY <1>1, <1>11, <1>12, <1>13, <1>14, <1>17, <1>18, <1>19, CompletesQuietly DEF r

\* From the bundle on, nothing depends on which source phase it is.
LEMMA LaterPhasesFit ==
    ASSUME NEW r, NEW q, NEW cp, NEW d, Assembled(r, cp), q.id = r.id,
           r.phase \in SourcePhase \ {"retrieve-benchlm"},
           q.phase \in SourcePhase \ {"retrieve-benchlm"},
           d.id = cp.id, d.benchLm = cp.benchLm, d.pages = cp.pages, d.subset = cp.subset,
           d.page = cp.page, d.transport = cp.transport, d.normalized = cp.normalized
    PROVE  Assembled(q, d)
<1>1. ArtifactsFit(q, d)
  BY DEF Assembled, ArtifactsFit
<1> QED
  BY <1>1, SourcePhasesFit

\* The bundle, the LiteLLM and the revision of the dataset.
LEMMA BundlePhasesKeep ==
    ASSUME TablesInv, CoordinatorInv, WorkStays,
           AssembleBenchLm \/ RetrieveLiteLlm \/ RetrieveLmArenaRevision
    PROVE  CoordinatorInv'
<1> DEFINE r == handler.cycle
           cp == handler.checkpoint
<1>1. PICK here \in {"assemble-benchlm", "retrieve-litellm", "retrieve-lmarena-revision"},
           phase \in {"retrieve-litellm", "retrieve-lmarena-revision", "retrieve-lmarena-pages"} :
         /\ InStep("step", here)
         /\ \/ ManifestThenCompletes(phase, 0, cp)
            \/ Completes(phase, 0, cp) /\ manifestObject' = manifestObject
         /\ UNCHANGED <<publicationVars, outside>>
  BY DEF AssembleBenchLm, RetrieveLiteLlm, RetrieveLmArenaRevision
<1>2. /\ r.phase = here /\ r \in CycleRecord
      /\ cp \in Checkpoint /\ Assembled(r, cp) /\ HashFits(cp)
  BY <1>1, StepIs
<1>3. phase \in CyclePhase /\ phase # "retrieve-benchlm" /\ 0 \in Nat
  BY DEF CyclePhase
<1>4. Moved(r, phase, 0).id = r.id /\ Moved(r, phase, 0).phase = phase
  BY <1>2, <1>3, MovedIs
<1>5. Assembled(Moved(r, phase, 0), cp)
  <2>1. /\ r.phase \in SourcePhase \ {"retrieve-benchlm"}
        /\ Moved(r, phase, 0).phase \in SourcePhase \ {"retrieve-benchlm"}
    BY <1>2, <1>4 DEF SourcePhase
  <2> QED
    BY <1>2, <1>4, <2>1, LaterPhasesFit
<1>6. UNCHANGED outside /\ receipts' = receipts /\ receipts \subseteq Cycle
  BY <1>1, TablesStand DEF TablesInv, PublicationTypeOK
<1>7. here \notin {"acquire", "retrieve-benchlm", "publish", "receipt"}
  OBVIOUS
<1>8. CASE ManifestThenCompletes(phase, 0, cp)
  BY <1>1, <1>2, <1>3, <1>5, <1>6, <1>7, <1>8, ManifestStep
<1>9. CASE Completes(phase, 0, cp) /\ manifestObject' = manifestObject
  BY <1>1, <1>2, <1>3, <1>5, <1>6, <1>7, <1>9, CompletesQuietly
<1> QED
  BY <1>1, <1>8, <1>9

\* The pages of every subset are there, and nothing has been normalized yet.
LEMMA PagesAreDone ==
    ASSUME NEW r, NEW q, NEW cp, NEW d \in Checkpoint, Assembled(r, cp), q.id = r.id,
           r.phase = "retrieve-lmarena-pages", q.phase = "normalize-sources", q.cursor = 0,
           d.id = cp.id, d.benchLm = cp.benchLm, d.normalized = cp.normalized,
           PagesSoFar(d.pages, d.subset, d.page), d.page < MaxPages,
           d.transport # "viewer" => d.page = 0, d.subset >= Subsets
    PROVE  Assembled(q, d)
<1>1. ArtifactsFit(q, d)
  BY DEF Assembled, ArtifactsFit
<1>2. d.subset = Subsets
  BY IngestBounds DEF Checkpoint
<1>3. PagesFit(q, d)
  BY <1>2 DEF PagesFit
<1>4. d.normalized = Numbers(0)
  BY NumbersAre DEF Assembled, PartitionsFit, SourcePhase
<1>5. 0 < WorklistLength(d)
  BY DEF WorklistLength, Checkpoint
<1>6. PartitionsFit(q, d)
  BY <1>4, <1>5 DEF PartitionsFit, SourcePhase, CandidatePhase, Phase
<1> QED
  BY <1>1, <1>3, <1>6 DEF Assembled

LEMMA PagesStep ==
    ASSUME TablesInv, CoordinatorInv, WorkStays, InStep("step", "retrieve-lmarena-pages"),
           NEW d \in Checkpoint, PagesThenCompletes(d),
           d.id = handler.checkpoint.id, d.benchLm = handler.checkpoint.benchLm,
           d.normalized = handler.checkpoint.normalized,
           PagesSoFar(d.pages, d.subset, d.page), d.page < MaxPages,
           d.transport # "viewer" => d.page = 0,
           UNCHANGED <<publicationVars, outside>>
    PROVE  CoordinatorInv'
<1> DEFINE r == handler.cycle
           cp == handler.checkpoint
<1>1. /\ r.phase = "retrieve-lmarena-pages" /\ r \in CycleRecord /\ r.cursor \in Nat
      /\ cp \in Checkpoint /\ Assembled(r, cp)
  BY StepIs
<1>2. UNCHANGED outside /\ receipts' = receipts /\ receipts \subseteq Cycle
  BY TablesStand DEF TablesInv, PublicationTypeOK
<1>3. \A q : q.id = r.id /\ q.phase = "retrieve-lmarena-pages" => Assembled(q, d)
  <2> SUFFICES ASSUME NEW q, q.id = r.id, q.phase = "retrieve-lmarena-pages" PROVE Assembled(q, d)
    OBVIOUS
  <2>1. ArtifactsFit(q, d)
    BY <1>1 DEF Assembled, ArtifactsFit
  <2>2. PagesFit(q, d)
    BY DEF PagesFit, SourcePhase
  <2>3. PartitionsFit(q, d)
    BY <1>1 DEF Assembled, PartitionsFit, SourcePhase, CandidatePhase, Phase
  <2> QED
    BY <1>1, <2>1, <2>2, <2>3 DEF Assembled
<1>4. Assembled(r, d)
  BY <1>1, <1>3
<1>5. PICK phase \in {"normalize-sources", "retrieve-lmarena-pages"}, cursor \in Nat :
         /\ ManifestThenCompletes(phase, cursor, d)
         /\ phase = "normalize-sources" => cursor = 0 /\ d.subset >= Subsets
  <2>1. 0 \in Nat /\ r.cursor + 1 \in Nat
    BY <1>1
  <2> QED
    BY <2>1 DEF PagesThenCompletes
<1>6. phase \in CyclePhase /\ phase # "retrieve-benchlm"
  BY DEF CyclePhase
<1>7. PICK q \in CycleRecord :
          q = Moved(r, phase, cursor) /\ q.id = r.id /\ q.phase = phase /\ q.cursor = cursor
  BY <1>1, <1>6, MovedIs
<1>8. Assembled(q, d)
  <2>1. CASE phase = "normalize-sources"
    BY <1>1, <1>5, <1>7, <2>1, PagesAreDone
  <2>2. CASE phase = "retrieve-lmarena-pages"
    BY <1>3, <1>7, <2>2
  <2> QED
    BY <2>1, <2>2
<1> QED
  BY <1>2, <1>4, <1>5, <1>6, <1>7, <1>8, ManifestStep

LEMMA InPagesIs ==
    ASSUME CoordinatorInv, InPages
    PROVE  /\ handler.cycle.phase = "retrieve-lmarena-pages"
           /\ handler.cycle \in CycleRecord /\ handler.cycle.cursor \in Nat
           /\ handler.checkpoint \in Checkpoint
           /\ Assembled(handler.cycle, handler.checkpoint) /\ HashFits(handler.checkpoint)
           /\ handler.checkpoint.pages \in Seq(Page)
           /\ handler.checkpoint.subset \in 0 .. Subsets - 1
           /\ handler.checkpoint.page \in 0 .. MaxPages - 1
           /\ PagesSoFar(handler.checkpoint.pages, handler.checkpoint.subset, handler.checkpoint.page)
           /\ handler.checkpoint.transport # "viewer" => handler.checkpoint.page = 0
<1>1. /\ handler.cycle.phase = "retrieve-lmarena-pages"
      /\ handler.cycle \in CycleRecord /\ handler.cycle.cursor \in Nat
      /\ handler.checkpoint \in Checkpoint
      /\ Assembled(handler.cycle, handler.checkpoint) /\ HashFits(handler.checkpoint)
      /\ handler.checkpoint.subset < Subsets
  BY StepIs DEF InPages
<1>2. /\ handler.checkpoint.pages \in Seq(Page)
      /\ handler.checkpoint.subset \in 0 .. Subsets
      /\ handler.checkpoint.page \in 0 .. MaxPages
  BY <1>1 DEF Checkpoint
<1>3. /\ handler.checkpoint.page < MaxPages
      /\ PagesSoFar(handler.checkpoint.pages, handler.checkpoint.subset, handler.checkpoint.page)
      /\ handler.checkpoint.transport # "viewer" => handler.checkpoint.page = 0
  BY <1>1 DEF Assembled, PagesFit
<1> QED
  BY <1>1, <1>2, <1>3, IngestBounds

LEMMA NextSubsetIs ==
    ASSUME NEW cp \in Checkpoint, NEW pages \in Seq(Page), cp.subset \in 0 .. Subsets - 1
    PROVE  \E d \in Checkpoint :
              /\ d = NextSubset([cp EXCEPT !.pages = pages])
              /\ d.id = cp.id /\ d.benchLm = cp.benchLm /\ d.normalized = cp.normalized
              /\ d.pages = pages /\ d.subset = cp.subset + 1 /\ d.page = 0
              /\ d.transport = "viewer"
<1>1. PICK c1 \in Checkpoint : c1 = [cp EXCEPT !.pages = pages]
  BY DEF Checkpoint
<1>2. /\ c1.id = cp.id /\ c1.benchLm = cp.benchLm /\ c1.normalized = cp.normalized
      /\ c1.pages = pages /\ c1.subset = cp.subset
  BY <1>1 DEF Checkpoint
<1>3. PICK next \in 0 .. Subsets : next = cp.subset + 1
  BY IngestBounds
<1>4. PICK none \in 0 .. MaxPages : none = 0
  BY IngestBounds
<1>5. PICK d \in Checkpoint : d = [c1 EXCEPT !.subset = next, !.page = none, !.transport = "viewer"]
  BY DEF Checkpoint
<1>6. /\ d.id = c1.id /\ d.benchLm = c1.benchLm /\ d.normalized = c1.normalized
      /\ d.pages = c1.pages /\ d.subset = next /\ d.page = none /\ d.transport = "viewer"
  BY <1>5 DEF Checkpoint
<1>7. NextSubset(c1) = d
  BY <1>2, <1>3, <1>4, <1>5 DEF NextSubset
<1> QED
  BY <1>1, <1>2, <1>3, <1>4, <1>6, <1>7

LEMMA RetrieveViewerPageKeeps ==
    ASSUME TablesInv, CoordinatorInv, WorkStays, RetrieveViewerPage
    PROVE  CoordinatorInv'
<1>1. PICK cp \in Checkpoint : cp = handler.checkpoint
  BY InPagesIs DEF RetrieveViewerPage
<1>2. /\ cp.pages \in Seq(Page) /\ cp.subset \in 0 .. Subsets - 1 /\ cp.page \in 0 .. MaxPages - 1
      /\ PagesSoFar(cp.pages, cp.subset, cp.page)
      /\ cp.transport = "viewer"
      /\ InStep("step", "retrieve-lmarena-pages") /\ UNCHANGED <<publicationVars, outside>>
  BY <1>1, InPagesIs DEF RetrieveViewerPage, InPages
<1>3. PICK pages \in Seq(Page) :
          /\ pages = Append(cp.pages, <<cp.subset, cp.page>>)
          /\ PagesSoFar(pages, cp.subset, cp.page + 1)
  <2>1. <<cp.subset, cp.page>> \in Page /\ cp.subset \in Nat /\ cp.page \in Nat
    BY <1>2 DEF Page
  <2> QED
    BY <1>2, <2>1, OnePage
<1>4. [cp EXCEPT !.pages = Append(@, <<cp.subset, cp.page>>)] = [cp EXCEPT !.pages = pages]
  BY <1>3 DEF Checkpoint
<1>5. \/ PagesThenCompletes(NextSubset([cp EXCEPT !.pages = pages]))
      \/ /\ cp.page + 1 < MaxPages
         /\ PagesThenCompletes([[cp EXCEPT !.pages = pages] EXCEPT !.page = @ + 1])
  BY <1>1, <1>4 DEF RetrieveViewerPage
<1>6. CASE PagesThenCompletes(NextSubset([cp EXCEPT !.pages = pages]))
  <2>1. PICK d \in Checkpoint :
              /\ d = NextSubset([cp EXCEPT !.pages = pages])
              /\ d.id = cp.id /\ d.benchLm = cp.benchLm /\ d.normalized = cp.normalized
              /\ d.pages = pages /\ d.subset = cp.subset + 1 /\ d.page = 0
              /\ d.transport = "viewer"
    BY <1>2, NextSubsetIs
  <2>2. cp.subset \in Nat /\ cp.page + 1 \in Nat \ {0}
    BY <1>2
  <2>3. PagesSoFar(pages, cp.subset + 1, 0)
    BY <1>3, <2>2, SubsetIsDone
  <2>4. 0 < MaxPages
    BY IngestBounds
  <2> QED
    BY <1>1, <1>2, <1>6, <2>1, <2>3, <2>4, PagesStep
<1>7. CASE /\ cp.page + 1 < MaxPages
           /\ PagesThenCompletes([[cp EXCEPT !.pages = pages] EXCEPT !.page = @ + 1])
  <2>1. PICK page \in 0 .. MaxPages : page = cp.page + 1
    BY <1>2, IngestBounds
  <2>2. PICK d \in Checkpoint : d = [cp EXCEPT !.pages = pages, !.page = page]
    BY DEF Checkpoint
  <2>3. /\ d.id = cp.id /\ d.benchLm = cp.benchLm /\ d.normalized = cp.normalized
        /\ d.pages = pages /\ d.subset = cp.subset /\ d.page = page /\ d.transport = cp.transport
    BY <2>2 DEF Checkpoint
  <2>4. [[cp EXCEPT !.pages = pages] EXCEPT !.page = @ + 1] = d
    BY <2>1, <2>2 DEF Checkpoint
  <2>5. page < MaxPages /\ PagesSoFar(pages, cp.subset, page)
    BY <1>3, <1>7, <2>1
  <2> QED
    BY <1>1, <1>2, <1>7, <2>3, <2>4, <2>5, PagesStep
<1> QED
  BY <1>5, <1>6, <1>7

LEMMA DownloadParquetKeeps ==
    ASSUME TablesInv, CoordinatorInv, WorkStays, DownloadParquet
    PROVE  CoordinatorInv'
<1>1. PICK cp \in Checkpoint : cp = handler.checkpoint
  BY InPagesIs DEF DownloadParquet
<1>2. /\ cp.pages \in Seq(Page) /\ cp.subset \in 0 .. Subsets - 1
      /\ PagesSoFar(cp.pages, cp.subset, 0)
      /\ InStep("step", "retrieve-lmarena-pages") /\ UNCHANGED <<publicationVars, outside>>
  <2>1. cp.transport # "viewer"
    BY <1>1 DEF DownloadParquet
  <2> QED
    BY <1>1, <2>1, InPagesIs DEF DownloadParquet, InPages
<1>3. PICK n \in 1 .. MaxPages :
        PagesThenCompletes(NextSubset([cp EXCEPT
            !.pages = @ \o [i \in 1 .. n |-> <<cp.subset, i - 1>>]]))
  BY <1>1 DEF DownloadParquet
<1>4. PICK pages \in Seq(Page) :
          /\ pages = cp.pages \o [i \in 1 .. n |-> <<cp.subset, i - 1>>]
          /\ PagesSoFar(pages, cp.subset + 1, 0)
  BY <1>2, WholeFile
<1>5. [cp EXCEPT !.pages = @ \o [i \in 1 .. n |-> <<cp.subset, i - 1>>]] = [cp EXCEPT !.pages = pages]
  BY <1>4 DEF Checkpoint
<1>6. PICK d \in Checkpoint :
            /\ d = NextSubset([cp EXCEPT !.pages = pages])
            /\ d.id = cp.id /\ d.benchLm = cp.benchLm /\ d.normalized = cp.normalized
            /\ d.pages = pages /\ d.subset = cp.subset + 1 /\ d.page = 0
            /\ d.transport = "viewer"
  BY <1>2, NextSubsetIs
<1>7. 0 < MaxPages
  BY IngestBounds
<1> QED
  BY <1>1, <1>2, <1>3, <1>4, <1>5, <1>6, <1>7, PagesStep

\* The transport of a subset is none of the pages' business.
LEMMA TransportAside ==
    ASSUME NEW cp \in Checkpoint, NEW transport \in {"resolve", "download"}, cp.page = 0,
           NEW r, r.phase = "retrieve-lmarena-pages", Assembled(r, cp), HashFits(cp)
    PROVE  \E d \in Checkpoint :
              /\ d = [cp EXCEPT !.transport = transport]
              /\ \A q : q.id = r.id /\ q.phase = r.phase => Assembled(q, d)
              /\ HashFits(d)
<1>1. PICK d \in Checkpoint : d = [cp EXCEPT !.transport = transport]
  BY DEF Checkpoint
<1>2. /\ d.id = cp.id /\ d.benchLm = cp.benchLm /\ d.normalized = cp.normalized
      /\ d.pages = cp.pages /\ d.subset = cp.subset /\ d.page = cp.page /\ d.hash = cp.hash
  BY <1>1 DEF Checkpoint
<1>3. HashFits(d)
  BY <1>2 DEF HashFits, ManifestOf
<1>4. ASSUME NEW q, q.id = r.id, q.phase = r.phase PROVE Assembled(q, d)
  <2>1. ArtifactsFit(q, d)
    BY <1>2, <1>4 DEF Assembled, ArtifactsFit
  <2>2. PagesFit(q, d)
    BY <1>2, <1>4 DEF Assembled, PagesFit
  <2>3. PartitionsFit(q, d)
    BY <1>2, <1>4 DEF Assembled, PartitionsFit, SourcePhase, CandidatePhase, Phase
  <2> QED
    BY <1>2, <1>4, <2>1, <2>2, <2>3 DEF Assembled
<1> QED
  BY <1>1, <1>3, <1>4

LEMMA ResolveParquetKeeps ==
    ASSUME TablesInv, CoordinatorInv, WorkStays, ResolveParquet
    PROVE  CoordinatorInv'
<1>1. PICK cp \in Checkpoint : cp = handler.checkpoint
  BY InPagesIs DEF ResolveParquet
<1>2. PICK r \in CycleRecord : r = handler.cycle
  BY InPagesIs DEF ResolveParquet
<1>3. /\ cp.page = 0 /\ Assembled(r, cp) /\ HashFits(cp) /\ r.phase = "retrieve-lmarena-pages"
      /\ r.cursor + 1 \in Nat
      /\ InStep("step", "retrieve-lmarena-pages")
      /\ UNCHANGED <<publicationVars, outside, manifestObject>>
  <2>1. cp.transport # "viewer"
    BY <1>1 DEF ResolveParquet
  <2> QED
    BY <1>1, <1>2, <2>1, InPagesIs DEF ResolveParquet, InPages
<1>4. PICK d \in Checkpoint :
              /\ d = [cp EXCEPT !.transport = "download"]
              /\ \A q : q.id = r.id /\ q.phase = r.phase => Assembled(q, d)
              /\ HashFits(d)
  BY <1>3, TransportAside
<1>5. Completes("retrieve-lmarena-pages", r.cursor + 1, d)
  BY <1>1, <1>2, <1>4 DEF ResolveParquet
<1>6. "retrieve-lmarena-pages" \in CyclePhase
  BY DEF CyclePhase
<1>7. PICK q \in CycleRecord :
          /\ q = Moved(r, "retrieve-lmarena-pages", r.cursor + 1)
          /\ q.id = r.id /\ q.phase = "retrieve-lmarena-pages"
  BY <1>3, <1>6, MovedIs
<1>8. Assembled(r, d) /\ Assembled(q, d)
  BY <1>3, <1>4, <1>7
<1>9. UNCHANGED outside /\ receipts' = receipts /\ manifestObject' = manifestObject
  BY <1>3, TablesStand
<1> QED
  BY <1>2, <1>3, <1>4, <1>5, <1>6, <1>7, <1>8, <1>9, CompletesQuietly

LEMMA ViewerFallsBackKeeps ==
    ASSUME TablesInv, CoordinatorInv, WorkStays, ViewerFallsBack
    PROVE  CoordinatorInv'
<1>1. PICK cp \in Checkpoint : cp = handler.checkpoint
  BY InPagesIs DEF ViewerFallsBack
<1>2. PICK r \in CycleRecord : r = handler.cycle
  BY InPagesIs DEF ViewerFallsBack
<1>3. /\ cp.page = 0 /\ Assembled(r, cp) /\ HashFits(cp) /\ r.phase = "retrieve-lmarena-pages"
      /\ InStep("step", "retrieve-lmarena-pages")
      /\ UNCHANGED <<publicationVars, outside, manifestObject>>
  BY <1>1, <1>2, InPagesIs DEF ViewerFallsBack, InPages
<1>4. handler # None /\ handler.pc \in Working /\ IsTrue(r) /\ r.attempt \in 0 .. MaxRequests
      /\ r.state \notin TerminalState
  BY <1>2, <1>3, StepIs, HandlerIs DEF CoordinatorInv, HandlerInv, HandlerReads
<1>5. PICK d \in Checkpoint :
              /\ d = [cp EXCEPT !.transport = "resolve"]
              /\ \A q : q.id = r.id /\ q.phase = r.phase => Assembled(q, d)
              /\ HashFits(d)
  BY <1>3, TransportAside
<1>6. PICK next \in CycleRecord : next = [r EXCEPT !.state = "retry_wait"]
  BY DEF CycleRecord, CycleState
<1>7. /\ next.id = r.id /\ next.state = "retry_wait" /\ next.phase = r.phase
      /\ next.cursor = r.cursor /\ next.attempt = r.attempt
  BY <1>6 DEF CycleRecord
<1>8. Result(next, d, "retry_wait") /\ "retry_wait" \in Mark
  BY <1>1, <1>2, <1>5, <1>6 DEF ViewerFallsBack, Mark
<1>9. IsTrue(next)'
  <2>1. IsTrue(next)
    BY <1>4, <1>7 DEF IsTrue
  <2>2. receipts' = receipts
    BY <1>3, TablesStand
  <2> QED
    BY <2>1, <2>2, StaysTrue
<1>10. d # None /\ Fits(next, d) /\ Fits(r, d)
  BY <1>3, <1>5, <1>7, NoneIs DEF Fits
<1>11. /\ row' = row /\ marks' = marks /\ faults' = faults /\ receipts' = receipts
       /\ manifestObject' = manifestObject
       /\ UNCHANGED <<storageVars, starter, timeVars>>
  BY <1>3, TablesStand DEF outside, receiptVars
<1>12. /\ row' \in [Cycle -> CycleRecord \cup {None}]
       /\ marks' \in [Cycle -> SUBSET (CyclePhase \X Nat)]
       /\ manifestObject' \in [Cycle -> Manifest \cup {None}]
       /\ faults' \in 0 .. MaxFaults
       /\ \A c \in Cycle : row[c] # None => row'[c] # None
       /\ receipts \subseteq receipts'
       /\ receipts' \ receipts = {}
  BY <1>11 DEF CoordinatorInv, CoordinatorTypes
<1>13. RowsAreTrue' /\ EverythingOnce'
  BY <1>11, RowsStay, ManifestsStay DEF CoordinatorInv
<1> QED
  BY <1>2, <1>4, <1>7, <1>8, <1>9, <1>10, <1>11, <1>12, <1>13, Concludes

LEMMA PagesAreThereKeeps ==
    ASSUME TablesInv, CoordinatorInv, WorkStays, PagesAreThere
    PROVE  CoordinatorInv'
<1> DEFINE here == "retrieve-lmarena-pages"
<1>1. /\ InStep("step", here) /\ handler.checkpoint.subset >= Subsets
      /\ Completes("normalize-sources", 0, handler.checkpoint)
      /\ UNCHANGED <<publicationVars, outside, manifestObject>>
  BY DEF PagesAreThere
<1>2. PICK cp \in Checkpoint, r \in CycleRecord :
          /\ cp = handler.checkpoint /\ r = handler.cycle
          /\ r.phase = here /\ Assembled(r, cp) /\ HashFits(cp)
  BY <1>1, StepIs
<1>3. "normalize-sources" \in CyclePhase /\ 0 \in Nat
  BY DEF CyclePhase
<1>4. PICK q \in CycleRecord :
          /\ q = Moved(r, "normalize-sources", 0)
          /\ q.id = r.id /\ q.phase = "normalize-sources" /\ q.cursor = 0
  BY <1>3, MovedIs
<1>5. /\ PagesSoFar(cp.pages, cp.subset, cp.page) /\ cp.page < MaxPages
      /\ cp.transport # "viewer" => cp.page = 0
  BY <1>2 DEF Assembled, PagesFit
<1>6. Assembled(q, cp)
  BY <1>1, <1>2, <1>4, <1>5, PagesAreDone
<1>7. UNCHANGED outside /\ receipts' = receipts /\ manifestObject' = manifestObject
  BY <1>1, TablesStand
<1> QED
  BY <1>1, <1>2, <1>3, <1>4, <1>6, <1>7, CompletesQuietly

LEMMA NormalizeSourcesKeeps ==
    ASSUME TablesInv, CoordinatorInv, WorkStays, NormalizeSources
    PROVE  CoordinatorInv'
<1> DEFINE here == "normalize-sources"
<1>1. InStep("step", here) /\ UNCHANGED <<publicationVars, outside>>
  BY DEF NormalizeSources
<1>2. PICK cp \in Checkpoint, r \in CycleRecord :
          /\ cp = handler.checkpoint /\ r = handler.cycle
          /\ r.phase = here /\ Assembled(r, cp)
  BY <1>1, StepIs
<1>3. PICK k \in Nat : k = r.cursor
  BY DEF CycleRecord
<1>4. PICK length \in Nat : length = WorklistLength(cp)
  BY DEF WorklistLength, Checkpoint
<1>5. /\ k < length /\ cp.normalized \in Seq(Nat)
      /\ IsInjective(cp.normalized) => cp.normalized \in {Numbers(k), Numbers(k + 1)}
  BY <1>2, <1>3, <1>4 DEF Assembled, PartitionsFit, Checkpoint
<1>6. PICK s \in Seq(Nat) : s = Append(cp.normalized, k)
  <2>1. PICK b \in Seq(Nat) : b = cp.normalized
    BY <1>5
  <2>2. Append(b, k) \in Seq(Nat)
    OBVIOUS
  <2> QED
    BY <2>1, <2>2
<1>7. IsInjective(s) => s = Numbers(k + 1)
  BY <1>5, <1>6, NumbersAre, AppendOnce
<1>8. PICK d \in Checkpoint : d = [cp EXCEPT !.normalized = s]
  BY DEF Checkpoint
<1>9. /\ d.id = cp.id /\ d.pages = cp.pages /\ d.subset = cp.subset /\ d.page = cp.page
      /\ d.transport = cp.transport /\ d.benchLm = cp.benchLm
      /\ d.normalized = s /\ d.hash = cp.hash
  BY <1>8 DEF Checkpoint
<1>10. d = [cp EXCEPT !.normalized = Append(@, k)]
  BY <1>6, <1>8 DEF Checkpoint
<1>11. PICK phase \in CyclePhase, cursor \in Nat :
         /\ ManifestThenCompletes(phase, cursor, d)
         /\ \/ phase = here /\ cursor = k + 1 /\ k + 1 < length
            \/ phase = "derive" /\ ~ (k + 1 < length)
  <2>1. here \in CyclePhase /\ "derive" \in CyclePhase /\ 0 \in Nat /\ k + 1 \in Nat
    BY DEF CyclePhase, Phase
  <2>2. IF k + 1 < length
        THEN ManifestThenCompletes(here, k + 1, d)
        ELSE ManifestThenCompletes("derive", 0, d)
    BY <1>2, <1>3, <1>4, <1>10 DEF NormalizeSources
  <2> HIDE DEF here
  <2> QED
    BY <2>1, <2>2
<1>12. PICK q \in CycleRecord :
          q = Moved(r, phase, cursor) /\ q.id = r.id /\ q.phase = phase /\ q.cursor = cursor
  BY MovedIs
<1>13. ASSUME NEW p, p.id = r.id, p.phase \in {here, "derive"},
              p.phase = here => /\ p.cursor \in {k, k + 1} /\ p.cursor < length,
              p.phase = "derive" => k + 1 = length
       PROVE  Assembled(p, d)
  <2>1. ArtifactsFit(p, d)
    BY <1>2, <1>9, <1>13 DEF Assembled, ArtifactsFit
  <2>2. PagesFit(p, d)
    BY <1>2, <1>9, <1>13 DEF Assembled, PagesFit, SourcePhase
  <2>3. WorklistLength(d) = length
    BY <1>4, <1>9 DEF WorklistLength
  <2>4. ASSUME p.phase = here PROVE PartitionsFit(p, d)
    <3>1. p.phase = "normalize-sources" /\ p.phase \notin SourcePhase /\ p.phase \notin CandidatePhase
      BY <2>4 DEF SourcePhase, CandidatePhase, Phase
    <3>2. p.cursor < WorklistLength(d)
      BY <1>13, <2>3, <2>4
    <3>3. IsInjective(d.normalized) => d.normalized \in {Numbers(p.cursor), Numbers(p.cursor + 1)}
      <4>1. p.cursor = k \/ p.cursor = k + 1
        BY <1>13, <2>4
      <4> QED
        BY <1>7, <1>9, <4>1
    <3> QED
      BY <3>1, <3>2, <3>3 DEF PartitionsFit
  <2>5. ASSUME p.phase = "derive" PROVE PartitionsFit(p, d)
    <3>1. p.phase # "normalize-sources" /\ p.phase \notin SourcePhase
      BY <2>5 DEF SourcePhase
    <3>2. WorklistLength(d) = k + 1
      BY <1>13, <2>3, <2>5
    <3> QED
      BY <1>7, <1>9, <3>1, <3>2 DEF PartitionsFit
  <2> QED
    BY <1>2, <1>9, <1>13, <2>1, <2>2, <2>4, <2>5 DEF Assembled
<1>14. Assembled(r, d)
  BY <1>2, <1>3, <1>5, <1>13
<1>15. Assembled(q, d)
  <2>1. ~ (k + 1 < length) => k + 1 = length
    BY <1>5
  <2> QED
    BY <1>11, <1>12, <1>13, <2>1
<1>16. UNCHANGED outside /\ receipts' = receipts /\ receipts \subseteq Cycle
  BY <1>1, TablesStand DEF TablesInv, PublicationTypeOK
<1>17. phase # "retrieve-benchlm"
  BY <1>11
<1> QED
  BY <1>1, <1>2, <1>11, <1>12, <1>14, <1>15, <1>16, <1>17, ManifestStep

-----------------------------------------------------------------------------
(***************************************************************************)
(* The phases that build the candidate.                                    *)
(***************************************************************************)

\* From the derivation on, nothing depends on which phase it is.
LEMMA CandidatePhasesFit ==
    ASSUME NEW r, NEW q, NEW cp, Assembled(r, cp), q.id = r.id,
           r.phase \in CandidatePhase, q.phase \in CandidatePhase
    PROVE  Assembled(q, cp)
<1>1. /\ r.phase \notin SourcePhase /\ r.phase # "normalize-sources" /\ r.phase # "retrieve-benchlm"
      /\ q.phase \notin SourcePhase /\ q.phase # "normalize-sources" /\ q.phase # "retrieve-benchlm"
  BY DEF CandidatePhase, Phase, SourcePhase
<1>2. ArtifactsFit(q, cp)
  BY <1>1 DEF Assembled, ArtifactsFit
<1>3. PagesFit(q, cp)
  BY <1>1 DEF Assembled, PagesFit
<1>4. PartitionsFit(q, cp)
  BY <1>1 DEF Assembled, PartitionsFit
<1> QED
  BY <1>2, <1>3, <1>4 DEF Assembled

\* A staging step completes with the checkpoint as it was.
LEMMA StagedKeeps ==
    ASSUME CoordinatorInv, WorkStays, NEW here \in Phase \ {"publish"}, NEW phase \in Phase,
           NEW cursor \in Nat,
           handler # None, handler.pc \in Working, handler.cycle.phase = here,
           Completes(phase, cursor, handler.checkpoint),
           UNCHANGED <<outside, manifestObject>>, receipts' = receipts
    PROVE  CoordinatorInv'
<1>1. here \notin {"acquire", "publish", "receipt"} /\ here \in CandidatePhase
  BY DEF Phase, CandidatePhase
<1>2. phase \in CyclePhase /\ phase \in CandidatePhase
  BY DEF Phase, CandidatePhase, CyclePhase
<1>3. PICK r \in CycleRecord, cp \in Checkpoint :
         /\ r = handler.cycle /\ cp = handler.checkpoint /\ r.phase = here
         /\ Assembled(r, cp) /\ HashFits(cp)
  BY <1>1, PlaceIs
<1>4. PICK q \in CycleRecord : q = Moved(r, phase, cursor) /\ q.id = r.id /\ q.phase = phase
  BY <1>2, MovedIs
<1>5. Assembled(q, cp)
  BY <1>1, <1>2, <1>3, <1>4, CandidatePhasesFit
<1>6. UNCHANGED outside /\ manifestObject' = manifestObject
  OBVIOUS
<1> QED
  BY <1>1, <1>2, <1>3, <1>4, <1>5, <1>6, CompletesThere

LEMMA DeriveCandidateKeeps ==
    ASSUME TablesInv, TablesInv', CoordinatorInv, WorkStays, receipts' = receipts, DeriveCandidate
    PROVE  CoordinatorInv'
<1>1. /\ InStep("step", "derive") /\ ManifestMatches /\ UNCHANGED outside
      /\ WriteManifest(handler.checkpoint, TRUE)
      /\ Completes(work'[handler.cycle.id].phase, 0,
                   [handler.checkpoint EXCEPT !.hash = ManifestOf(handler.checkpoint, TRUE)])
  BY DEF DeriveCandidate, Building
<1>2. PICK r \in CycleRecord, cp \in Checkpoint :
         /\ r = handler.cycle /\ cp = handler.checkpoint /\ r.phase = "derive"
         /\ Assembled(r, cp) /\ HashFits(cp)
         /\ r.id \in Cycle /\ work[r.id] # None /\ r.id \notin receipts
         /\ handler # None /\ handler.pc \in Working
  BY <1>1, StepIs
<1>3. work'[r.id] # None
  BY <1>2 DEF WorkStays
<1>4. PICK phase \in Phase : phase = work'[r.id].phase
  <2>1. work'[r.id] \in Work
    BY <1>2, <1>3 DEF TablesInv, PublicationTypeOK
  <2> QED
    BY <2>1 DEF Work
<1>5. ValidManifest(ManifestOf(cp, TRUE))
  <2>1. PICK d \in BOOLEAN : cp.hash = ManifestOf(cp, d) /\ ValidManifest(ManifestOf(cp, d))
    BY <1>1, <1>2 DEF ManifestMatches, HashFits
  <2> QED
    BY <2>1 DEF ValidManifest, ManifestOf
<1>6. PICK q \in Checkpoint :
         /\ q = [cp EXCEPT !.hash = ManifestOf(cp, TRUE)]
         /\ q.id = cp.id /\ q.benchLm = cp.benchLm /\ q.pages = cp.pages
         /\ q.subset = cp.subset /\ q.page = cp.page /\ q.transport = cp.transport
         /\ q.normalized = cp.normalized
         /\ q.hash = ManifestOf(cp, TRUE)
         /\ HashFits(q)
  BY <1>5, HashAside
<1>7. phase \in CyclePhase /\ phase \in CandidatePhase /\ "derive" \in CandidatePhase /\ 0 \in Nat
  BY DEF CyclePhase, CandidatePhase, Phase
<1>8. PICK next \in CycleRecord : next = Moved(r, phase, 0) /\ next.id = r.id /\ next.phase = phase
  BY <1>7, MovedIs
<1>9. Assembled(r, q)
  <2>1. /\ q.id = cp.id /\ q.benchLm = cp.benchLm /\ q.pages = cp.pages
        /\ q.subset = cp.subset /\ q.page = cp.page /\ q.transport = cp.transport
        /\ q.normalized = cp.normalized
    BY <1>6
  <2> QED
    BY <1>2, <2>1, AssembledAside
<1>10. Assembled(next, q)
  BY <1>2, <1>7, <1>8, <1>9, CandidatePhasesFit
<1>11. Fits(r, q) /\ Fits(next, q)
  BY <1>6, <1>9, <1>10, NoneIs DEF Fits
<1>12. manifestObject' = [manifestObject EXCEPT ![r.id] = ManifestOf(cp, TRUE)]
  BY <1>1, <1>2 DEF WriteManifest, Assembled
<1>13. ManifestOf(cp, TRUE) \in Manifest
  BY DEF Checkpoint, Manifest, ManifestOf
<1>14. manifestObject' \in [Cycle -> Manifest \cup {None}]
  BY <1>12, <1>13 DEF CoordinatorInv, CoordinatorTypes
<1>15. \A c \in receipts : manifestObject'[c] = manifestObject[c]
  BY <1>2, <1>12 DEF CoordinatorInv, CoordinatorTypes, TablesInv, PublicationTypeOK
<1>16. EverythingOnce'
  BY <1>15, ManifestsStay DEF CoordinatorInv
<1>17. Completes(phase, 0, q)
  BY <1>1, <1>2, <1>4, <1>6
<1> QED
  BY <1>1, <1>2, <1>3, <1>7, <1>8, <1>11, <1>14, <1>16, <1>17, CompletesKeep

\* Nothing but the tables changes.
LEMMA TablesAloneKeep ==
    ASSUME CoordinatorInv, WorkStays, receipts' = receipts,
           UNCHANGED <<outside, handler, manifestObject>>
    PROVE  CoordinatorInv'
<1>1. /\ benchmarkCycle' = benchmarkCycle /\ benchmarkCheckpoint' = benchmarkCheckpoint
      /\ alarm' = alarm /\ starter' = starter /\ week' = week /\ overdue' = overdue
      /\ row' = row /\ marks' = marks /\ faults' = faults /\ handler' = handler
      /\ manifestObject' = manifestObject
  BY DEF outside, storageVars, timeVars, receiptVars
<1>2. StorageInv' /\ HandlerInv' /\ EverythingOnce'
  BY <1>1, StandsStill
<1>3. RowsAreTrue' /\ CoordinatorTypes' /\ NamesAreFresh'
  BY <1>1 DEF CoordinatorInv, RowsAreTrue, CoordinatorTypes, NamesAreFresh, Known
<1> QED
  BY <1>2, <1>3 DEF CoordinatorInv

LEMMA StagingKeeps ==
    ASSUME CoordinatorInv, WorkStays, receipts' = receipts,
           EnsurePendingRevision \/ StageFacts \/ StageProfiles \/ StageCache \/ FillCache
    PROVE  CoordinatorInv'
<1> DEFINE k == handler.cycle.cursor
           cp == handler.checkpoint
<1>1. PICK here \in {"stage-facts", "stage-profiles", "stage-cache"}, pc \in {"step", "stage", "fill"} :
         InStep(pc, here)
  BY DEF EnsurePendingRevision, StageFacts, StageProfiles, StageCache, FillCache, Building
<1>2. handler # None /\ handler.pc \in Working /\ handler.cycle.phase = here
  BY <1>1 DEF InStep, At, Working
<1>3. UNCHANGED <<outside, manifestObject>>
  BY DEF EnsurePendingRevision, StageFacts, StageProfiles, StageCache, FillCache
<1>4. k \in Nat /\ k + 1 \in Nat /\ 0 \in Nat
  BY <1>2, PlaceIs
<1>5. \/ Fails
      \/ \E phase \in {"stage-facts", "stage-profiles", "stage-cache", "validate-candidate"},
            cursor \in {0, k + 1} : Completes(phase, cursor, cp)
      \/ handler' = [handler EXCEPT !.pc = "stage"]
      \/ handler' = [handler EXCEPT !.pc = "fill"] /\ ~ (k >= Len(KeyOrder))
      \/ UNCHANGED handler
  <2>1. CASE EnsurePendingRevision
    BY <2>1, Zenon DEF EnsurePendingRevision
  <2>2. CASE StageFacts
    <3>1. Fails \/ Completes("stage-facts", k + 1, cp) \/ Completes("stage-profiles", 0, cp)
      BY <2>2, Zenon DEF StageFacts
    <3> QED
      BY <3>1, Zenon
  <2>3. CASE StageProfiles
    <3>1. Fails \/ Completes("stage-profiles", k + 1, cp) \/ Completes("stage-cache", 0, cp)
      BY <2>3, Zenon DEF StageProfiles
    <3> QED
      BY <3>1, Zenon
  <2>4. CASE StageCache
    <3>1. \/ Fails \/ Completes("validate-candidate", 0, cp)
          \/ handler' = [handler EXCEPT !.pc = "fill"] /\ ~ (k >= Len(KeyOrder))
      BY <2>4, Zenon DEF StageCache
    <3> QED
      BY <3>1, Zenon
  <2>5. CASE FillCache
    <3>1. Fails \/ Completes("stage-cache", k + 1, cp) \/ UNCHANGED handler
      BY <2>5, Zenon DEF FillCache
    <3> QED
      BY <3>1, Zenon
  <2> QED
    BY <2>1, <2>2, <2>3, <2>4, <2>5
<1> HIDE DEF k, cp
<1>6. CASE Fails
  BY <1>2, <1>3, <1>6, FailsKeep
<1>7. CASE \E phase \in {"stage-facts", "stage-profiles", "stage-cache", "validate-candidate"},
              cursor \in {0, k + 1} : Completes(phase, cursor, cp)
  <2>1. PICK phase \in Phase, cursor \in Nat : Completes(phase, cursor, handler.checkpoint)
    BY <1>4, <1>7 DEF Phase, cp
  <2>2. here \in Phase \ {"publish"}
    BY DEF Phase
  <2> QED
    BY <1>2, <1>3, <2>1, <2>2, StagedKeeps
<1>8. CASE handler' = [handler EXCEPT !.pc = "stage"]
  <2>1. "stage" \in Working /\ UNCHANGED outside /\ manifestObject' = manifestObject
    BY <1>3 DEF Working
  <2> QED
    BY <1>2, <1>8, <2>1, GoesOn
<1>9. CASE handler' = [handler EXCEPT !.pc = "fill"] /\ ~ (k >= Len(KeyOrder))
  <2>1. "fill" \in Working /\ UNCHANGED outside /\ manifestObject' = manifestObject
    BY <1>3 DEF Working
  <2>2. Len(KeyOrder) \in Nat
    BY CandidateIsFinite, OrderIs DEF KeyOrder
  <2>3. handler.cycle.cursor < Len(KeyOrder)
    BY <1>4, <1>9, <2>2 DEF k
  <2> QED
    BY <1>2, <1>9, <2>1, <2>3, GoesOn
<1>10. CASE UNCHANGED handler
  <2>1. UNCHANGED <<outside, handler, manifestObject>>
    BY <1>3, <1>10
  <2> QED
    BY <2>1, TablesAloneKeep
<1> QED
  BY <1>5, <1>6, <1>7, <1>8, <1>9, <1>10

LEMMA ValidateKeeps ==
    ASSUME CoordinatorInv, WorkStays, receipts' = receipts, Validate
    PROVE  CoordinatorInv'
<1>1. InStep("step", "validate-candidate") /\ UNCHANGED <<outside, manifestObject>>
  BY DEF Validate, Building
<1>2. PICK r \in CycleRecord, cp \in Checkpoint :
         /\ r = handler.cycle /\ cp = handler.checkpoint /\ r.phase = "validate-candidate"
         /\ Assembled(r, cp) /\ HashFits(cp)
         /\ r.id \in Cycle /\ work[r.id] # None /\ r.id \notin receipts
         /\ handler # None /\ handler.pc \in Working
  BY <1>1, StepIs
<1>3. CASE Fails
  BY <1>1, <1>2, <1>3, FailsKeep
<1>4. CASE Result([Moved(handler.cycle, "publish", 0) EXCEPT !.state = "ready_to_publish"],
                  handler.checkpoint, "completed")
  <2>1. "publish" \in CyclePhase /\ 0 \in Nat /\ {"publish", "validate-candidate"} \subseteq CandidatePhase
    BY DEF CyclePhase, CandidatePhase, Phase
  <2>2. PICK q \in CycleRecord :
            q = Moved(r, "publish", 0) /\ q.id = r.id /\ q.phase = "publish" /\ q.attempt = 0
    BY <2>1, MovedIs
  <2>3. PICK next \in CycleRecord : next = [q EXCEPT !.state = "ready_to_publish"]
    BY DEF CycleRecord, CycleState
  <2>4. /\ next.id = r.id /\ next.phase = "publish" /\ next.attempt = 0
        /\ next.state = "ready_to_publish"
    BY <2>2, <2>3 DEF CycleRecord
  <2>5. Result(next, cp, "completed") /\ "completed" \in Mark /\ cp # None
    BY <1>2, <1>4, <2>2, <2>3, NoneIs DEF Mark
  <2>6. work'[r.id] # None
    BY <1>2 DEF WorkStays
  <2>7. IsTrue(next)'
    BY <1>2, <2>4, <2>6 DEF IsTrue, MaxRequests
  <2>8. Assembled(next, cp)
    BY <1>2, <2>1, <2>4, CandidatePhasesFit
  <2>9. Fits(next, cp) /\ Fits(r, cp)
    BY <1>2, <2>5, <2>8 DEF Fits
  <2>10. /\ row' = row /\ marks' = marks /\ faults' = faults /\ manifestObject' = manifestObject
         /\ UNCHANGED <<storageVars, starter, timeVars>>
    BY <1>1 DEF outside, receiptVars
  <2>11. /\ row' \in [Cycle -> CycleRecord \cup {None}]
         /\ marks' \in [Cycle -> SUBSET (CyclePhase \X Nat)]
         /\ manifestObject' \in [Cycle -> Manifest \cup {None}]
         /\ faults' \in 0 .. MaxFaults
         /\ \A c \in Cycle : row[c] # None => row'[c] # None
         /\ receipts \subseteq receipts'
         /\ receipts' \ receipts = {}
    BY <2>10 DEF CoordinatorInv, CoordinatorTypes
  <2>12. RowsAreTrue' /\ EverythingOnce'
    BY <2>10, RowsStay, ManifestsStay DEF CoordinatorInv
  <2> QED
    BY <1>2, <2>4, <2>5, <2>7, <2>9, <2>10, <2>11, <2>12, Concludes
<1> QED
  BY <1>3, <1>4 DEF Validate

LEMMA PublishStepKeeps ==
    ASSUME CoordinatorInv, WorkStays, receipts' = receipts, PublishStep
    PROVE  CoordinatorInv'
<1>1. /\ InStep("step", "publish") /\ ManifestMatches /\ UNCHANGED outside
      /\ manifestObject' = manifestObject /\ handler' = [handler EXCEPT !.pc = "batch"]
  BY DEF PublishStep, Building
<1>2. handler # None /\ handler.pc \in Working /\ "batch" \in Working
  BY <1>1 DEF InStep, At, Working
<1> QED
  BY <1>1, <1>2, GoesOn

\* The manifest of a cycle that is about to be published is whole.
LEMMA ManifestIsWhole ==
    ASSUME NEW r, NEW cp \in Checkpoint, Assembled(r, cp), HashFits(cp), cp.hash # None,
           r.phase \in CandidatePhase
    PROVE  /\ cp.hash.benchLm = Artifacts
           /\ IsInjective(cp.hash.pages)
           /\ \A p \in ToSet(cp.hash.pages) : \A j \in 0 .. p[2] : <<p[1], j>> \in ToSet(cp.hash.pages)
           /\ {p[1] : p \in ToSet(cp.hash.pages)} = 0 .. Subsets - 1
           /\ cp.hash.normalized = [i \in 1 .. 3 + Len(cp.hash.pages) |-> i - 1]
<1>1. /\ r.phase \notin SourcePhase /\ r.phase # "retrieve-benchlm"
  BY DEF CandidatePhase, Phase, SourcePhase
<1>2. PICK d \in BOOLEAN : cp.hash = ManifestOf(cp, d)
  BY DEF HashFits
<1>3. /\ cp.hash.benchLm = cp.benchLm /\ cp.hash.pages = cp.pages
      /\ cp.hash.normalized = cp.normalized
  BY <1>2 DEF ManifestOf
<1>4. IsInjective(cp.benchLm) /\ IsInjective(cp.pages) /\ IsInjective(cp.normalized)
  BY <1>3 DEF HashFits, ValidManifest
<1>5. cp.benchLm = Artifacts
  BY <1>1, <1>4 DEF Assembled, ArtifactsFit
<1>6. PagesSoFar(cp.pages, Subsets, cp.page) /\ (cp.page = 0 \/ cp.page # 0)
  BY <1>1 DEF Assembled, PagesFit
<1>7. \A p \in ToSet(cp.pages) : \A j \in 0 .. p[2] : <<p[1], j>> \in ToSet(cp.pages)
  BY <1>6 DEF PagesSoFar
<1>8. {p[1] : p \in ToSet(cp.pages)} = 0 .. Subsets - 1
  <2>1. cp.pages \in Seq(Page)
    BY DEF Checkpoint
  <2>2. \A p \in ToSet(cp.pages) : p[1] \in 0 .. Subsets - 1
    BY <2>1 DEF ToSet, Page
  <2>3. ASSUME NEW s \in 0 .. Subsets - 1
        PROVE  s \in {p[1] : p \in ToSet(cp.pages)}
    <3>1. <<s, 0>> \in ToSet(cp.pages)
      BY <1>6 DEF PagesSoFar
    <3>2. <<s, 0>>[1] = s
      OBVIOUS
    <3> QED
      BY <3>1, <3>2
  <2> QED
    BY <2>2, <2>3
<1>9. cp.normalized = [i \in 1 .. 3 + Len(cp.pages) |-> i - 1]
  BY <1>4 DEF Assembled, PartitionsFit, Numbers, WorklistLength
<1> QED
  BY <1>3, <1>4, <1>5, <1>7, <1>8, <1>9

LEMMA ReceivedIs ==
    ASSUME NEW r \in CycleRecord
    PROVE  /\ Received(r) \in CycleRecord
           /\ Received(r).id = r.id /\ Received(r).state = "published"
           /\ Received(r).phase = "receipt" /\ Received(r).attempt = 0
<1>1. PICK r1 \in CycleRecord : r1 = [r EXCEPT !.state = "published", !.phase = "receipt"]
  BY DEF CycleRecord, CycleState, CyclePhase
<1>2. r1.id = r.id /\ r1.state = "published" /\ r1.phase = "receipt"
  BY <1>1 DEF CycleRecord
<1>0. 0 \in 0 .. MaxRequests
  BY DEF MaxRequests
<1>3. PICK r2 \in CycleRecord : r2 = [r1 EXCEPT !.cursor = 0, !.attempt = 0]
  BY <1>0 DEF CycleRecord
<1>4. r2.id = r1.id /\ r2.state = r1.state /\ r2.phase = r1.phase /\ r2.attempt = 0
  BY <1>3 DEF CycleRecord
<1>5. Received(r) = r2
  BY <1>1, <1>3 DEF Received, CycleRecord
<1> QED
  BY <1>2, <1>4, <1>5

LEMMA PublishCandidateKeeps ==
    ASSUME TablesInv, CoordinatorInv, WorkStays, PublishCandidate
    PROVE  CoordinatorInv'
<1>1. /\ InStep("batch", "publish")
      /\ UNCHANGED <<storageVars, starter, timeVars, faults, manifestObject>>
  BY DEF PublishCandidate
<1>2. handler # None /\ handler.pc = "batch" /\ handler.pc \in Working /\ handler.cycle.phase = "publish"
  BY <1>1 DEF InStep, At, Working
<1>3. PICK r \in CycleRecord, cp \in Checkpoint :
         /\ r = handler.cycle /\ cp = handler.checkpoint /\ r.phase = "publish"
         /\ Assembled(r, cp) /\ HashFits(cp)
         /\ r.id \in Cycle /\ work[r.id] # None
  BY <1>2, PlaceIs
<1>4. /\ manifestObject' = manifestObject /\ faults' = faults
      /\ manifestObject' \in [Cycle -> Manifest \cup {None}]
      /\ faults' \in 0 .. MaxFaults
  BY <1>1 DEF CoordinatorInv, CoordinatorTypes
<1>5. CASE BatchAllowed(r.id)
  <2>1. /\ PublishBatch(r.id)
        /\ row' = [row EXCEPT ![r.id].state = "published", ![r.id].phase = "receipt"]
        /\ marks' = [marks EXCEPT ![r.id] = @ \cup {<<"publish", 0>>}]
        /\ Result(Received(r), None, "completed")
    BY <1>3, <1>5 DEF PublishCandidate
  <2>2. receipts' = receipts \cup {r.id}
    BY <2>1 DEF PublishBatch
  <2>3. PICK next \in CycleRecord :
          /\ next = Received(r) /\ next.id = r.id /\ next.state = "published"
          /\ next.phase = "receipt" /\ next.attempt = 0
    BY ReceivedIs
  <2>4. work'[r.id] # None
    BY <1>3 DEF WorkStays
  <2>5. IsTrue(next)'
    BY <2>2, <2>3, <2>4 DEF IsTrue, TerminalState
  <2>6. "receipt" \in CandidatePhase /\ "publish" \in CandidatePhase
    BY DEF CandidatePhase, Phase
  <2>7. Assembled(next, cp)
    BY <1>3, <2>3, <2>6, CandidatePhasesFit
  <2>8. Fits(next, cp) /\ Fits(r, cp)
    BY <1>3, <2>7, NoneIs DEF Fits
  <2>9. row[r.id] \in CycleRecord
    BY <1>2, <1>3 DEF CoordinatorInv, NamesAreFresh, Known, CoordinatorTypes
  <2>10. PICK published \in CycleRecord :
            row' = [row EXCEPT ![r.id] = published]
    <3>1. [row[r.id] EXCEPT !.state = "published", !.phase = "receipt"] \in CycleRecord
      BY <2>9 DEF CycleRecord, CycleState, CyclePhase
    <3>2. row' = [row EXCEPT ![r.id] = [row[r.id] EXCEPT !.state = "published", !.phase = "receipt"]]
      BY <1>3, <2>1 DEF CoordinatorInv, CoordinatorTypes
    <3> QED
      BY <3>1, <3>2
  <2>11. /\ row' \in [Cycle -> CycleRecord \cup {None}]
         /\ \A c \in Cycle : row[c] # None => row'[c] # None
         /\ \A c \in Cycle \ {r.id} : row'[c] = row[c]
    BY <1>3, <2>10, NoneIs DEF CoordinatorInv, CoordinatorTypes
  <2>12. RowsAreTrue'
    BY <2>2, <2>11 DEF CoordinatorInv, RowsAreTrue
  <2>13. marks' \in [Cycle -> SUBSET (CyclePhase \X Nat)]
    <3>1. <<"publish", 0>> \in CyclePhase \X Nat
      BY DEF CyclePhase, Phase
    <3>2. marks \in [Cycle -> SUBSET (CyclePhase \X Nat)]
      BY DEF CoordinatorInv, CoordinatorTypes
    <3> QED
      BY <1>3, <2>1, <3>1, <3>2
  <2>14. EverythingOnce'
    <3>1. cp.hash # None /\ manifestObject[r.id] = cp.hash
      BY <1>2, <1>3 DEF CoordinatorInv, HandlerInv, HandlerReads, ManifestMatches
    <3>2. /\ cp.hash.benchLm = Artifacts
          /\ IsInjective(cp.hash.pages)
          /\ \A p \in ToSet(cp.hash.pages) :
                \A j \in 0 .. p[2] : <<p[1], j>> \in ToSet(cp.hash.pages)
          /\ {p[1] : p \in ToSet(cp.hash.pages)} = 0 .. Subsets - 1
          /\ cp.hash.normalized = [i \in 1 .. 3 + Len(cp.hash.pages) |-> i - 1]
      BY <1>3, <2>6, <3>1, ManifestIsWhole
    <3>3. \A c \in receipts' : c \in receipts \/ c = r.id
      BY <2>2
    <3>4. EverythingOnce
      BY DEF CoordinatorInv
    <3> QED
      BY <1>4, <3>1, <3>2, <3>3, <3>4, Zenon DEF EverythingOnce
  <2>15. "completed" \in Mark
    BY DEF Mark
  <2>16. /\ receipts \subseteq receipts'
         /\ \A c \in receipts' \ receipts : c = handler.cycle.id /\ handler.cycle.phase = "publish"
    BY <1>3, <2>2
  <2>17. UNCHANGED <<storageVars, starter, timeVars>>
    BY <1>1
  <2>18. Result(next, None, "completed")
    BY <2>1, <2>3
  <2> QED
    BY <1>2, <1>3, <1>4, <2>3, <2>5, <2>8, <2>11, <2>12, <2>13, <2>14, <2>15, <2>16, <2>17, <2>18,
       Concludes
<1>6. CASE ~ BatchAllowed(r.id)
  <2>1. PublishEnds /\ Fails /\ UNCHANGED receiptVars
    BY <1>3, <1>6 DEF PublishCandidate
  <2>2. receipts' = receipts
    BY <2>1 DEF PublishEnds
  <2>3. UNCHANGED <<storageVars, receiptVars, starter, timeVars>>
    BY <1>1, <2>1
  <2> QED
    BY <1>2, <1>4, <2>1, <2>2, <2>3, EndsKeep
<1> QED
  BY <1>5, <1>6

-----------------------------------------------------------------------------
(***************************************************************************)
(* The end of an invocation, and its beginning.                            *)
(***************************************************************************)

\* A field of a handler that has a result.
LEMMA NextPlaceIs ==
    ASSUME NEW i \in HandlerRecord, NEW pc \in HandlerPc
    PROVE  \E j \in HandlerRecord :
               /\ j = [i EXCEPT !.pc = pc] /\ j # None
               /\ j.pc = pc /\ j.cycle = i.cycle /\ j.checkpoint = i.checkpoint
               /\ j.next = i.next /\ j.saved = i.saved /\ j.mark = i.mark
<1>1. PICK j \in HandlerRecord : j = [i EXCEPT !.pc = pc]
  BY DEF HandlerRecord
<1>2. /\ j.pc = pc /\ j.cycle = i.cycle /\ j.checkpoint = i.checkpoint
      /\ j.next = i.next /\ j.saved = i.saved /\ j.mark = i.mark
  BY <1>1 DEF HandlerRecord
<1> QED
  BY <1>1, <1>2, NoneIs

\* Where the handler is, when it has a result.
LEMMA HasResult ==
    ASSUME CoordinatorInv, handler # None, handler.pc \in {"put", "persist", "fail-row"}
    PROVE  /\ handler \in HandlerRecord
           /\ handler.cycle \in CycleRecord /\ handler.cycle.id \in Cycle
           /\ handler.next \in CycleRecord /\ handler.next.id = handler.cycle.id
           /\ IsTrue(handler.next)
           /\ row[handler.cycle.id] # None
           /\ HandlerReads /\ ResultIsTrue /\ StorageIsRead
<1>1. HandlerReads /\ ResultIsTrue /\ StorageIsRead
  BY DEF CoordinatorInv, HandlerInv
<1>2. handler \in HandlerRecord /\ handler.cycle \in CycleRecord /\ handler.cycle.id \in Cycle
  BY HandlerIs DEF CoordinatorInv
<1>3. handler.next \in CycleRecord /\ handler.next.id = handler.cycle.id /\ IsTrue(handler.next)
  BY <1>1, HandlerIs DEF CoordinatorInv, ResultIsTrue, Working
<1>4. row[handler.cycle.id] # None
  BY <1>2 DEF CoordinatorInv, NamesAreFresh, Known
<1> QED
  BY <1>1, <1>2, <1>3, <1>4

LEMMA PutKeeps ==
    ASSUME CoordinatorInv, WorkStays, Put
    PROVE  CoordinatorInv'
<1>1. /\ handler # None /\ handler.pc = "put"
      /\ benchmarkCheckpoint' = SavedCheckpoint /\ benchmarkCycle' = handler.next
      /\ handler' = [handler EXCEPT !.pc = "persist"]
      /\ receipts' = receipts /\ alarm' = alarm /\ row' = row /\ marks' = marks
      /\ manifestObject' = manifestObject /\ starter' = starter /\ week' = week
      /\ overdue' = overdue /\ faults' = faults
  BY DEF Put, At, publicationVars, receiptVars, timeVars
<1>2. /\ handler \in HandlerRecord /\ handler.next \in CycleRecord
      /\ handler.cycle \in CycleRecord
      /\ handler.next.id = handler.cycle.id /\ IsTrue(handler.next)
      /\ HandlerReads /\ ResultIsTrue /\ StorageIsRead
  BY <1>1, HasResult
<1>3. PICK i \in HandlerRecord :
         /\ handler' = i /\ i # None /\ i.pc = "persist" /\ i.cycle = handler.cycle
         /\ i.checkpoint = handler.checkpoint /\ i.next = handler.next
  <2>1. "persist" \in HandlerPc
    BY DEF HandlerPc
  <2>2. handler \in HandlerRecord /\ handler' = [handler EXCEPT !.pc = "persist"]
    BY <1>1, <1>2
  <2> QED
    BY <2>1, <2>2, NextPlaceIs
<1>4. benchmarkCheckpoint' = After(handler)
  BY <1>1, <1>2 DEF SavedCheckpoint, After, StorageIsRead
<1>5. Fits(handler.next, benchmarkCheckpoint') /\ Fits(handler.cycle, benchmarkCheckpoint')
  BY <1>1, <1>2, <1>4 DEF ResultIsTrue, Working
<1>6. \A r \in CycleRecord : IsTrue(r) => IsTrue(r)'
  BY <1>1, StaysTrue
<1>7. benchmarkCheckpoint' \in Checkpoint \cup {None}
  BY <1>1, <1>2, <1>4, HandlerIs DEF After, CoordinatorInv
<1>8. CoordinatorTypes'
  BY <1>1, <1>2, <1>3, <1>7 DEF CoordinatorInv, CoordinatorTypes
<1>9. StorageInv'
  BY <1>1, <1>2, <1>5, <1>6 DEF StorageInv, IsTrue
<1>10. HandlerInv'
  <2>1. HandlerReads'
    BY <1>2, <1>3, <1>6 DEF HandlerReads, IsTrue
  <2>2. StorageIsRead'
    BY <1>3 DEF StorageIsRead, Working
  <2>3. ResultIsTrue'
    <3>1. IsTrue(handler.next)'
      BY <1>2, <1>3, <1>6 DEF IsTrue
    <3> QED
      BY <1>2, <1>3, <1>5, <3>1, NoneIs DEF ResultIsTrue
  <2> QED
    BY <2>1, <2>2, <2>3 DEF HandlerInv
<1>11. NamesAreFresh'
  <2>1. \A c \in Cycle : Known(c)' => Known(c)
    BY <1>1, <1>2, <1>3 DEF Known
  <2>2. \A s \in Starter : starter[s] # None => starter[s].id \in Cycle
    BY DEF CoordinatorInv, CoordinatorTypes, StarterRecord
  <2> QED
    BY <1>1, <2>1, <2>2 DEF CoordinatorInv, NamesAreFresh
<1>12. EverythingOnce' /\ RowsAreTrue'
  BY <1>1, ManifestsStay, RowsStay DEF CoordinatorInv
<1> QED
  BY <1>8, <1>9, <1>10, <1>11, <1>12 DEF CoordinatorInv

\* A row that is written over tells the truth.
LEMMA RowWritten ==
    ASSUME CoordinatorInv, NEW c \in Cycle, NEW r \in CycleRecord,
           row' = [row EXCEPT ![c] = r], r.state = "published" => c \in receipts,
           receipts' = receipts
    PROVE  /\ row' \in [Cycle -> CycleRecord \cup {None}]
           /\ \A b \in Cycle : row[b] # None => row'[b] # None
           /\ row'[c] # None
           /\ RowsAreTrue'
<1>1. row \in [Cycle -> CycleRecord \cup {None}] /\ RowsAreTrue
  BY DEF CoordinatorInv, CoordinatorTypes
<1>2. r # None
  BY NoneIs
<1> QED
  BY <1>1, <1>2 DEF RowsAreTrue

\* The handler is gone, and calls of start() may be, too.
LEMMA HandlerStops ==
    ASSUME CoordinatorInv, WorkStays, handler' = None, receipts' = receipts,
           benchmarkCycle' = benchmarkCycle, StorageInv',
           benchmarkCheckpoint' \in Checkpoint \cup {None},
           UNCHANGED <<manifestObject, timeVars>>,
           alarm' \in BOOLEAN, faults' \in 0 .. MaxFaults,
           marks' \in [Cycle -> SUBSET (CyclePhase \X Nat)],
           row' \in [Cycle -> CycleRecord \cup {None}], RowsAreTrue',
           \A b \in Cycle : row[b] # None => row'[b] # None,
           starter' \in [Starter -> StarterRecord \cup {None}],
           \A s \in Starter : starter'[s] \in {starter[s], None}
    PROVE  CoordinatorInv'
<1>1. manifestObject' = manifestObject /\ week' = week /\ overdue' = overdue
  BY DEF timeVars
<1>2. CoordinatorTypes' /\ HandlerInv'
  BY <1>1 DEF CoordinatorInv, CoordinatorTypes, HandlerInv
<1>3. EverythingOnce'
  BY <1>1, ManifestsStay DEF CoordinatorInv
<1>4. NamesAreFresh'
  <2>1. \A c \in Cycle : Known(c)' => Known(c)
    BY DEF Known
  <2>2. \A s \in Starter : starter[s] # None => starter[s].id \in Cycle
    BY DEF CoordinatorInv, CoordinatorTypes, StarterRecord
  <2>3. \A s \in Starter : starter'[s] # None => starter'[s] = starter[s]
    OBVIOUS
  <2>4. \A c \in Cycle : Known(c)' => row'[c] # None
    BY <2>1 DEF CoordinatorInv, NamesAreFresh
  <2>5. ASSUME NEW s \in Starter, starter'[s] # None
        PROVE  /\ ~ Known(starter[s].id)'
               /\ starter'[s].pc = "expire" => starter'[s].existing # None
               /\ starter'[s].pc = "put" => row'[starter'[s].id] # None
               /\ \A t \in Starter : starter'[t] # None /\ starter'[t].id = starter'[s].id => t = s
    <3>1. starter'[s] = starter[s] /\ starter[s] # None /\ starter[s].id \in Cycle
      BY <2>2, <2>3, <2>5
    <3>2. \A t \in Starter : starter'[t] # None /\ starter'[t].id = starter'[s].id => t = s
      BY <2>3, <3>1 DEF CoordinatorInv, NamesAreFresh
    <3>3. PICK id \in Cycle : id = starter[s].id
      BY <3>1
    <3>4. ~ Known(id)'
      BY <2>1, <3>1, <3>3 DEF CoordinatorInv, NamesAreFresh
    <3>5. ~ Known(starter[s].id)'
      BY <3>1, <3>3, <3>4 DEF Known
    <3> QED
      BY <3>1, <3>2, <3>5 DEF CoordinatorInv, NamesAreFresh
  <2> QED
    BY <2>4, <2>5 DEF NamesAreFresh, Known
<1> QED
  BY <1>2, <1>3, <1>4 DEF CoordinatorInv

\* The receipts of a step are those of its result, or what they were.
LEMMA ReceiptsKeep ==
    ASSUME CoordinatorInv, handler # None, handler.pc = "persist", receipts' = receipts,
           Receipts(handler.cycle.id) \/ UNCHANGED receiptVars
    PROVE  /\ row' \in [Cycle -> CycleRecord \cup {None}] /\ RowsAreTrue'
           /\ \A b \in Cycle : row[b] # None => row'[b] # None
           /\ marks' \in [Cycle -> SUBSET (CyclePhase \X Nat)]
<1> DEFINE c == handler.cycle.id
<1>1. CASE UNCHANGED receiptVars
  <2>1. row' = row /\ marks' = marks
    BY <1>1 DEF receiptVars
  <2> QED
    BY <2>1, TypesAre, RowsStay
<1>2. CASE Receipts(c)
  <2>1. /\ c \in Cycle /\ handler.next \in CycleRecord
        /\ handler.cycle.phase \in CyclePhase /\ handler.cycle.cursor \in Nat
        /\ handler.next.state = "published" => c \in receipts
    BY HasResult, HandlerIs DEF CoordinatorInv, IsTrue
  <2>2. /\ row' \in [Cycle -> CycleRecord \cup {None}] /\ RowsAreTrue'
        /\ \A b \in Cycle : row[b] # None => row'[b] # None
    BY <1>2, <2>1, RowWritten DEF Receipts
  <2>3. PICK step \in CyclePhase \X Nat : step = <<handler.cycle.phase, handler.cycle.cursor>>
    BY <2>1
  <2>4. marks' = [marks EXCEPT ![c] = IF handler.mark = "completed" THEN @ \cup {step} ELSE @ \ {step}]
    BY <1>2, <2>3 DEF Receipts
  <2>5. marks \in [Cycle -> SUBSET (CyclePhase \X Nat)]
    BY TypesAre
  <2> HIDE DEF c
  <2>6. marks' \in [Cycle -> SUBSET (CyclePhase \X Nat)]
    BY <2>1, <2>4, <2>5 DEF c
  <2> QED
    BY <2>2, <2>6
<1> QED
  BY <1>1, <1>2

LEMMA PersistKeeps ==
    ASSUME CoordinatorInv, WorkStays, Persist \/ FailRow
    PROVE  CoordinatorInv'
<1> DEFINE c == handler.cycle.id
<1>1. /\ handler # None /\ handler.pc \in {"put", "persist", "fail-row"}
      /\ handler' = None /\ receipts' = receipts
      /\ benchmarkCycle' = benchmarkCycle /\ benchmarkCheckpoint' = benchmarkCheckpoint
      /\ manifestObject' = manifestObject /\ starter' = starter /\ UNCHANGED timeVars
      /\ faults' = faults /\ alarm' \in BOOLEAN
  BY DEF Persist, FailRow, At, publicationVars
<1>2. /\ row' \in [Cycle -> CycleRecord \cup {None}] /\ RowsAreTrue'
      /\ \A b \in Cycle : row[b] # None => row'[b] # None
      /\ marks' \in [Cycle -> SUBSET (CyclePhase \X Nat)]
  <2>1. CASE Persist
    BY <1>1, <2>1, ReceiptsKeep DEF Persist, At
  <2>2. CASE FailRow
    <3>1. /\ c \in Cycle /\ handler.next \in CycleRecord
          /\ handler.next.state = "published" => c \in receipts
      BY <1>1, HasResult, HandlerIs DEF CoordinatorInv, IsTrue
    <3>2. row' = [row EXCEPT ![c] = handler.next] /\ marks' = marks
      BY <2>2 DEF FailRow
    <3> QED
      BY <1>1, <3>1, <3>2, RowWritten, TypesAre
  <2> QED
    BY <2>1, <2>2
<1>3. StorageInv'
  <2>1. \A r \in CycleRecord : IsTrue(r) => IsTrue(r)'
    BY <1>1, StaysTrue
  <2> QED
    BY <1>1, <2>1 DEF CoordinatorInv, CoordinatorTypes, StorageInv, IsTrue
<1>4. /\ benchmarkCheckpoint' \in Checkpoint \cup {None} /\ faults' \in 0 .. MaxFaults
      /\ starter' \in [Starter -> StarterRecord \cup {None}]
      /\ \A s \in Starter : starter'[s] \in {starter[s], None}
      /\ UNCHANGED <<manifestObject, timeVars>>
  BY <1>1 DEF CoordinatorInv, CoordinatorTypes
<1> QED
  BY <1>1, <1>2, <1>3, <1>4, HandlerStops

LEMMA FirstCallIs ==
    ASSUME CoordinatorInv, benchmarkCycle # None, benchmarkCycle.state \notin TerminalState
    PROVE  \E i \in HandlerRecord :
              /\ i = FirstCall
              /\ i.checkpoint = benchmarkCheckpoint /\ i.saved = None
              /\ i.cycle \in CycleRecord
              /\ i.cycle.id = benchmarkCycle.id /\ i.cycle.phase = benchmarkCycle.phase
              /\ i.cycle.cursor = benchmarkCycle.cursor /\ i.cycle.attempt = benchmarkCycle.attempt
              /\ i.cycle.state \notin TerminalState
              /\ \/ i.pc = "step"
                 \/ /\ i.pc = "put" /\ i.cycle = benchmarkCycle
                    /\ i.next = Ended(benchmarkCycle, "expired")
<1> DEFINE call == [pc |-> "step", cycle |-> benchmarkCycle, checkpoint |-> benchmarkCheckpoint,
                    next |-> None, saved |-> None, mark |-> "none"]
           b == benchmarkCycle
<1>1. b \in CycleRecord /\ benchmarkCheckpoint \in Checkpoint \cup {None}
  BY DEF CoordinatorInv, CoordinatorTypes
<1>2. PICK i \in HandlerRecord : i = call
  BY <1>1 DEF HandlerRecord, HandlerPc
<1>3. /\ i.pc = "step" /\ i.cycle = b /\ i.checkpoint = benchmarkCheckpoint
      /\ i.next = None /\ i.saved = None /\ i.mark = "none"
  BY <1>2
<1>4. CASE b.id \in overdue
  <2>1. Ended(b, "expired") \in CycleRecord
    BY <1>1, EndedIs DEF CycleState
  <2>2. PICK j \in HandlerRecord :
            j = [i EXCEPT !.pc = "put", !.mark = "failed", !.next = Ended(b, "expired")]
    BY <2>1 DEF HandlerRecord, HandlerPc
  <2>3. /\ j.pc = "put" /\ j.cycle = b /\ j.checkpoint = benchmarkCheckpoint
        /\ j.next = Ended(b, "expired") /\ j.saved = None
    BY <1>3, <2>2 DEF HandlerRecord
  <2>4. j = FirstCall
    BY <1>2, <1>4, <2>2 DEF FirstCall
  <2> QED
    BY <1>1, <2>3, <2>4
<1>5. CASE b.id \notin overdue
  <2>1. PICK state \in CycleState : state = IF b.state = "retry_wait" THEN "running" ELSE b.state
    BY <1>1 DEF CycleRecord, CycleState
  <2>2. state \notin TerminalState
    BY <2>1 DEF TerminalState
  <2>3. PICK r \in CycleRecord : r = [b EXCEPT !.state = state]
    BY <1>1 DEF CycleRecord
  <2>4. /\ r.id = b.id /\ r.phase = b.phase /\ r.cursor = b.cursor /\ r.attempt = b.attempt
        /\ r.state = state
    BY <1>1, <2>3 DEF CycleRecord
  <2>5. PICK j \in HandlerRecord : j = [i EXCEPT !.cycle = r]
    BY DEF HandlerRecord
  <2>6. /\ j.pc = "step" /\ j.cycle = r /\ j.checkpoint = benchmarkCheckpoint /\ j.saved = None
    BY <1>3, <2>5 DEF HandlerRecord
  <2>7. j = FirstCall
    <3>1. FirstCall = [call EXCEPT !.cycle.state = IF @ = "retry_wait" THEN "running" ELSE @]
      BY <1>5 DEF FirstCall
    <3>2. [call EXCEPT !.cycle.state = IF @ = "retry_wait" THEN "running" ELSE @]
             = [call EXCEPT !.cycle = [b EXCEPT !.state = IF b.state = "retry_wait" THEN "running" ELSE b.state]]
      BY <1>1 DEF CycleRecord
    <3> QED
      BY <1>2, <2>1, <2>3, <2>5, <3>1, <3>2
  <2> QED
    BY <2>2, <2>4, <2>6, <2>7
<1> QED
  BY <1>4, <1>5

LEMMA DeliverKeeps ==
    ASSUME CoordinatorInv, WorkStays, NEW pending \in BOOLEAN, Deliver(pending),
           faults' \in 0 .. MaxFaults
    PROVE  CoordinatorInv'
<1>1. /\ handler = None /\ receipts' = receipts
      /\ benchmarkCycle' = benchmarkCycle /\ benchmarkCheckpoint' = benchmarkCheckpoint
      /\ row' = row /\ marks' = marks
      /\ manifestObject' = manifestObject /\ starter' = starter
      /\ week' = week /\ overdue' = overdue
      /\ alarm' \in BOOLEAN
  BY DEF Deliver, publicationVars, receiptVars, timeVars
<1>2. \A r \in CycleRecord : IsTrue(r) => IsTrue(r)'
  BY <1>1, StaysTrue
<1>3. StorageInv'
  BY <1>1, <1>2 DEF CoordinatorInv, CoordinatorTypes, StorageInv, IsTrue
<1>4. CASE benchmarkCycle = None \/ benchmarkCycle.state \in TerminalState
  <2>1. handler' = None
    BY <1>4 DEF Deliver
  <2>2. /\ UNCHANGED <<manifestObject, timeVars>> /\ RowsAreTrue'
        /\ benchmarkCheckpoint' \in Checkpoint \cup {None}
        /\ marks' \in [Cycle -> SUBSET (CyclePhase \X Nat)]
        /\ row' \in [Cycle -> CycleRecord \cup {None}]
        /\ \A b \in Cycle : row[b] # None => row'[b] # None
        /\ starter' \in [Starter -> StarterRecord \cup {None}]
        /\ \A s \in Starter : starter'[s] \in {starter[s], None}
    BY <1>1, RowsStay DEF CoordinatorInv, CoordinatorTypes, timeVars
  <2> QED
    BY <1>1, <1>3, <2>1, <2>2, HandlerStops
<1>5. CASE ~ (benchmarkCycle = None \/ benchmarkCycle.state \in TerminalState)
  <2>1. PICK b \in CycleRecord :
           /\ b = benchmarkCycle /\ b # None /\ IsTrue(b) /\ Fits(b, benchmarkCheckpoint)
           /\ b.state \notin TerminalState /\ b.id \in Cycle
    BY <1>5, NoneIs DEF CoordinatorInv, CoordinatorTypes, StorageInv, CycleRecord
  <2>2. PICK i \in HandlerRecord :
              /\ i = FirstCall /\ i # None
              /\ i.checkpoint = benchmarkCheckpoint /\ i.saved = None
              /\ i.cycle \in CycleRecord
              /\ i.cycle.id = b.id /\ i.cycle.phase = b.phase
              /\ i.cycle.cursor = b.cursor /\ i.cycle.attempt = b.attempt
              /\ i.cycle.state \notin TerminalState
              /\ \/ i.pc = "step"
                 \/ /\ i.pc = "put" /\ i.cycle = b
                    /\ i.next = Ended(b, "expired")
    BY <2>1, FirstCallIs, NoneIs
  <2>3. handler' = i
    BY <1>5, <2>2 DEF Deliver
  <2>4. PICK r \in CycleRecord : r = i.cycle
    BY <2>2
  <2>5. IsTrue(r)' /\ Fits(r, benchmarkCheckpoint)
    <3>1. IsTrue(r)
      BY <2>1, <2>2, <2>4 DEF IsTrue, TerminalState
    <3> QED
      BY <1>2, <2>1, <2>2, <2>4, <3>1, SamePlaceFits
  <2>6. HandlerReads'
    BY <1>1, <2>2, <2>3, <2>4, <2>5 DEF HandlerReads, IsTrue
  <2>7. StorageIsRead'
    BY <1>1, <2>1, <2>2, <2>3 DEF StorageIsRead
  <2>8. ResultIsTrue'
    <3>1. CASE i.pc = "step"
      BY <2>3, <3>1 DEF ResultIsTrue, Working
    <3>2. CASE i.pc = "put" /\ i.next = Ended(b, "expired")
      <4>1. PICK e \in CycleRecord :
              /\ e = i.next /\ e # None /\ e.id = b.id /\ e.state = "expired"
              /\ e.phase = b.phase /\ e.cursor = b.cursor
        BY <3>2, EndedIs, NoneIs DEF CycleState
      <4>2. IsTrue(e)'
        <5>1. IsTrue(e)
          BY <2>1, <4>1 DEF IsTrue, TerminalState
        <5> QED
          BY <1>2, <5>1
      <4>3. Fits(e, benchmarkCheckpoint) /\ Fits(i.cycle, benchmarkCheckpoint)
        BY <2>1, <2>4, <2>5, <4>1, SamePlaceFits
      <4>4. After(handler)' = benchmarkCheckpoint
        BY <2>2, <2>3 DEF After
      <4>5. IsTrue(handler.next)'
        BY <2>3, <4>1, <4>2 DEF IsTrue
      <4> QED
        BY <2>2, <2>3, <3>2, <4>1, <4>3, <4>4, <4>5 DEF ResultIsTrue
    <3> QED
      BY <2>2, <3>1, <3>2
  <2>9. CoordinatorTypes'
    BY <1>1, <2>3 DEF CoordinatorInv, CoordinatorTypes
  <2>10. NamesAreFresh'
    <3>1. \A c \in Cycle : Known(c)' => Known(c)
      BY <1>1, <2>1, <2>2, <2>3 DEF Known
    <3>2. \A s \in Starter : starter[s] # None => starter[s].id \in Cycle
      BY DEF CoordinatorInv, CoordinatorTypes, StarterRecord
    <3> QED
      BY <1>1, <3>1, <3>2 DEF CoordinatorInv, NamesAreFresh
  <2>11. EverythingOnce' /\ RowsAreTrue' /\ HandlerInv'
    BY <1>1, <2>6, <2>7, <2>8, ManifestsStay, RowsStay DEF CoordinatorInv, HandlerInv
  <2> QED
    BY <1>3, <2>9, <2>10, <2>11 DEF CoordinatorInv
<1> QED
  BY <1>4, <1>5

-----------------------------------------------------------------------------
(***************************************************************************)
(* start(), time, and the rest of the system.                              *)
(***************************************************************************)

\* What the coordinator has in flight stands; rows, starts and time change.
LEMMA AroundKeeps ==
    ASSUME CoordinatorInv, WorkStays, receipts' = receipts,
           UNCHANGED <<benchmarkCycle, benchmarkCheckpoint, handler, manifestObject>>,
           alarm' \in BOOLEAN,
           row' \in [Cycle -> CycleRecord \cup {None}],
           marks' \in [Cycle -> SUBSET (CyclePhase \X Nat)],
           starter' \in [Starter -> StarterRecord \cup {None}],
           week' \in Week, overdue' \subseteq Cycle, faults' \in 0 .. MaxFaults,
           RowsAreTrue', NamesAreFresh'
    PROVE  CoordinatorInv'
<1>1. StorageInv' /\ HandlerInv' /\ EverythingOnce'
  BY StandsStill
<1>2. CoordinatorTypes'
  BY DEF CoordinatorInv, CoordinatorTypes
<1> QED
  BY <1>1, <1>2 DEF CoordinatorInv

LEMMA NewCycleIs ==
    ASSUME NEW c \in Cycle, NEW w \in Week
    PROVE  /\ NewCycle(c, w) \in CycleRecord
           /\ NewCycle(c, w).id = c /\ NewCycle(c, w).state = "running"
           /\ NewCycle(c, w).phase = "acquire" /\ NewCycle(c, w).attempt = 0
BY DEF NewCycle, CycleRecord, CycleState, CyclePhase, MaxRequests

\* A start that goes on to its next call, or gives up.
LEMMA StarterMoves ==
    ASSUME CoordinatorInv, NEW s \in Starter, starter[s] # None, NEW pc \in {"expire", "insert", "put"},
           starter' \in {[starter EXCEPT ![s] = None], [starter EXCEPT ![s].pc = pc]},
           pc = "expire" => starter[s].existing # None,
           pc = "put" => row'[starter[s].id] # None,
           \A b \in Cycle : row[b] # None => row'[b] # None,
           UNCHANGED <<benchmarkCycle, handler>>, receipts' = receipts
    PROVE  starter' \in [Starter -> StarterRecord \cup {None}] /\ NamesAreFresh'
<1>1. PICK x \in StarterRecord : x = starter[s] /\ x.id \in Cycle
  BY TypesAre
<1>2. PICK y \in StarterRecord : y = [x EXCEPT !.pc = pc]
  BY DEF StarterRecord
<1>3. y.pc = pc /\ y.id = x.id /\ y.existing = x.existing /\ y # None
  BY <1>2, NoneIs DEF StarterRecord
<1>4. starter' = [starter EXCEPT ![s] = None] \/ starter' = [starter EXCEPT ![s] = y]
  BY <1>1, <1>2, TypesAre
<1>5. /\ starter' \in [Starter -> StarterRecord \cup {None}]
      /\ \A t \in Starter : t # s => starter'[t] = starter[t]
      /\ starter'[s] = None \/ starter'[s] = y
  BY <1>4, TypesAre
<1>6. \A c \in Cycle : Known(c)' <=> Known(c)
  BY DEF Known
<1>7. \A t \in Starter : starter'[t] # None => starter[t] # None /\ starter'[t].id = starter[t].id
  BY <1>1, <1>3, <1>5
<1>8. NamesAreFresh
  BY TypesAre
<1>9. NamesAreFresh'
  <2>1. \A c \in Cycle : Known(c)' => row'[c] # None
    BY <1>6, <1>8 DEF NamesAreFresh
  <2>2. ASSUME NEW t \in Starter, starter'[t] # None
        PROVE  /\ ~ Known(starter[t].id)'
               /\ starter'[t].pc = "expire" => starter'[t].existing # None
               /\ starter'[t].pc = "put" => row'[starter'[t].id] # None
               /\ \A u \in Starter : starter'[u] # None /\ starter'[u].id = starter'[t].id => u = t
    <3>1. starter[t] # None /\ starter'[t].id = starter[t].id
      BY <1>7, <2>2
    <3>2. PICK id \in Cycle : id = starter[t].id
      BY <3>1, TypesAre
    <3>3. ~ Known(id)'
      BY <1>6, <1>8, <3>1, <3>2 DEF NamesAreFresh
    <3>4. ~ Known(starter[t].id)'
      BY <3>1, <3>2, <3>3 DEF Known
    <3>5. \A u \in Starter : starter'[u] # None /\ starter'[u].id = starter'[t].id => u = t
      BY <1>7, <1>8, <3>1 DEF NamesAreFresh
    <3>6. CASE t = s
      BY <1>1, <1>3, <1>5, <2>2, <3>1, <3>4, <3>5, <3>6
    <3>7. CASE t # s
      BY <1>5, <1>8, <3>1, <3>2, <3>4, <3>5, <3>7 DEF NamesAreFresh
    <3> QED
      BY <3>6, <3>7
  <2> QED
    BY <2>1, <2>2 DEF NamesAreFresh, Known
<1> QED
  BY <1>5, <1>9

LEMMA StartBeginKeeps ==
    ASSUME CoordinatorInv, WorkStays, NEW s \in Starter, StartBegin(s)
    PROVE  CoordinatorInv'
<1>1. PICK c \in Cycle :
          /\ FreshId(c)
          /\ starter' = [starter EXCEPT ![s] =
                [pc |-> "receipt", at |-> week, existing |-> benchmarkCycle, id |-> c]]
  BY DEF StartBegin
<1>2. /\ UNCHANGED <<benchmarkCycle, benchmarkCheckpoint, handler, manifestObject>>
      /\ receipts' = receipts /\ alarm' = alarm /\ row' = row /\ marks' = marks
      /\ week' = week /\ overdue' = overdue /\ faults' = faults
      /\ benchmarkCycle' = benchmarkCycle /\ handler' = handler
  BY DEF StartBegin, aroundStart, storageVars, receiptVars, timeVars, publicationVars
<1>3. PICK x \in StarterRecord :
          /\ x = [pc |-> "receipt", at |-> week, existing |-> benchmarkCycle, id |-> c]
          /\ x # None
  <2>1. week \in Week /\ benchmarkCycle \in CycleRecord \cup {None}
    BY DEF CoordinatorInv, CoordinatorTypes
  <2>2. [pc |-> "receipt", at |-> week, existing |-> benchmarkCycle, id |-> c] \in StarterRecord
    BY <2>1 DEF StarterRecord
  <2> QED
    BY <2>2, NoneIs
<1>4. x.pc = "receipt" /\ x.id = c
  BY <1>3
<1>5. /\ starter' \in [Starter -> StarterRecord \cup {None}]
      /\ \A t \in Starter : t # s => starter'[t] = starter[t]
      /\ starter'[s] = x
  BY <1>1, <1>3, TypesAre
<1>6. row[c] = None /\ \A t \in Starter : starter[t] # None => starter[t].id # c
  BY <1>1 DEF FreshId
<1>7. \A b \in Cycle : Known(b)' <=> Known(b)
  BY <1>2 DEF Known
<1>8. NamesAreFresh
  BY TypesAre
<1>9. NamesAreFresh'
  <2>1. \A b \in Cycle : Known(b)' => row'[b] # None
    BY <1>2, <1>7, <1>8 DEF NamesAreFresh
  <2>2. ASSUME NEW t \in Starter, starter'[t] # None
        PROVE  /\ ~ Known(starter[t].id)'
               /\ starter'[t].pc = "expire" => starter'[t].existing # None
               /\ starter'[t].pc = "put" => row'[starter'[t].id] # None
               /\ \A u \in Starter : starter'[u] # None /\ starter'[u].id = starter'[t].id => u = t
    <3>1. CASE t = s
      <4>1. ~ Known(c)'
        BY <1>6, <1>7, <1>8 DEF NamesAreFresh
      <4>2. ~ Known(starter[t].id)'
        BY <1>4, <1>5, <3>1, <4>1 DEF Known
      <4>3. \A u \in Starter : u # s /\ starter'[u] # None => starter'[u].id # c
        BY <1>5, <1>6
      <4> QED
        BY <1>4, <1>5, <3>1, <4>2, <4>3
    <3>2. CASE t # s
      <4>1. starter'[t] = starter[t] /\ starter[t] # None
        BY <1>5, <2>2, <3>2
      <4>2. PICK id \in Cycle : id = starter[t].id
        BY <4>1, TypesAre
      <4>3. ~ Known(id)' /\ id # c
        BY <1>6, <1>7, <1>8, <4>1, <4>2 DEF NamesAreFresh
      <4>4. ~ Known(starter[t].id)'
        BY <4>1, <4>2, <4>3 DEF Known
      <4>5. \A u \in Starter : starter'[u] # None /\ starter'[u].id = starter'[t].id => u = t
        BY <1>4, <1>5, <1>8, <4>1, <4>2, <4>3 DEF NamesAreFresh
      <4> QED
        BY <1>2, <1>8, <4>1, <4>4, <4>5 DEF NamesAreFresh
    <3> QED
      BY <3>1, <3>2
  <2> QED
    BY <2>1, <2>2 DEF NamesAreFresh, Known
<1>10. RowsAreTrue'
  BY <1>2, RowsStay DEF CoordinatorInv
<1> QED
  BY <1>2, <1>5, <1>9, <1>10, TypesAre, AroundKeeps

LEMMA StartGoesOnKeeps ==
    ASSUME CoordinatorInv, WorkStays, NEW s \in Starter,
           StartReceipt(s) \/ StartExpire(s) \/ StartInsert(s)
    PROVE  CoordinatorInv'
<1>1. /\ starter[s] # None
      /\ UNCHANGED <<benchmarkCycle, benchmarkCheckpoint, handler, manifestObject>>
      /\ receipts' = receipts /\ alarm' = alarm /\ marks' = marks
      /\ week' = week /\ overdue' = overdue /\ faults' = faults
      /\ benchmarkCycle' = benchmarkCycle /\ handler' = handler
  BY DEF StartReceipt, StartExpire, StartInsert, Starting, aroundStart, storageVars, receiptVars,
         timeVars, publicationVars
<1>2. PICK x \in StarterRecord : x = starter[s] /\ x.id \in Cycle /\ x.at \in Week
  BY <1>1, TypesAre
<1>3. NamesAreFresh /\ RowsAreTrue /\ row \in [Cycle -> CycleRecord \cup {None}]
  BY TypesAre
<1>4. CASE StartReceipt(s)
  <2>1. row' = row
    BY <1>4 DEF StartReceipt, receiptVars
  <2>2. \/ starter' = [starter EXCEPT ![s] = None]
        \/ starter' = [starter EXCEPT ![s].pc = "expire"] /\ x.existing # None
        \/ starter' = [starter EXCEPT ![s].pc = "insert"]
    BY <1>2, <1>4, TypesAre DEF StartReceipt
  <2>3. starter' \in [Starter -> StarterRecord \cup {None}] /\ NamesAreFresh'
    <3>1. \A b \in Cycle : row[b] # None => row'[b] # None
      BY <2>1
    <3>2. CASE starter' \in {[starter EXCEPT ![s] = None], [starter EXCEPT ![s].pc = "insert"]}
      BY <1>1, <3>1, <3>2, StarterMoves
    <3>3. CASE starter' = [starter EXCEPT ![s].pc = "expire"] /\ x.existing # None
      BY <1>1, <1>2, <3>1, <3>3, StarterMoves
    <3> QED
      BY <2>2, <3>2, <3>3
  <2>4. RowsAreTrue' /\ row' \in [Cycle -> CycleRecord \cup {None}]
    BY <1>1, <1>3, <2>1, RowsStay
  <2> QED
    BY <1>1, <2>3, <2>4, TypesAre, AroundKeeps
<1>5. CASE StartExpire(s)
  <2>1. x.existing # None
    BY <1>1, <1>2, <1>3, <1>5 DEF NamesAreFresh, StartExpire, Starting
  <2>2. PICK old \in CycleRecord : old = x.existing /\ old.id \in Cycle
    BY <2>1 DEF StarterRecord, CycleRecord
  <2>3. PICK e \in CycleRecord : e = Ended(old, "expired") /\ e.state = "expired"
    BY EndedIs DEF CycleState
  <2>4. /\ row' = [row EXCEPT ![old.id] = e]
        /\ starter' = [starter EXCEPT ![s].pc = "insert"]
    BY <1>2, <1>5, <2>2, <2>3 DEF StartExpire
  <2>5. /\ row' \in [Cycle -> CycleRecord \cup {None}]
        /\ \A b \in Cycle : row[b] # None => row'[b] # None
        /\ RowsAreTrue'
    BY <1>1, <2>2, <2>3, <2>4, RowWritten
  <2>6. starter' \in [Starter -> StarterRecord \cup {None}] /\ NamesAreFresh'
    BY <1>1, <2>4, <2>5, StarterMoves
  <2> QED
    BY <1>1, <2>5, <2>6, TypesAre, AroundKeeps
<1>6. CASE StartInsert(s)
  <2>1. PICK n \in CycleRecord : n = NewCycle(x.id, x.at) /\ n.state = "running"
    BY <1>2, NewCycleIs
  <2>2. /\ row' = [row EXCEPT ![x.id] = n]
        /\ starter' = [starter EXCEPT ![s].pc = "put"]
    BY <1>2, <1>6, <2>1 DEF StartInsert
  <2>3. /\ row' \in [Cycle -> CycleRecord \cup {None}]
        /\ \A b \in Cycle : row[b] # None => row'[b] # None
        /\ row'[x.id] # None
        /\ RowsAreTrue'
    BY <1>1, <1>2, <2>1, <2>2, RowWritten
  <2>4. starter' \in [Starter -> StarterRecord \cup {None}] /\ NamesAreFresh'
    BY <1>1, <1>2, <2>2, <2>3, StarterMoves
  <2> QED
    BY <1>1, <2>3, <2>4, TypesAre, AroundKeeps
<1> QED
  BY <1>4, <1>5, <1>6

\* A new cycle replaces the record that a handler has read, and no other's.
LEMMA StartPutKeeps ==
    ASSUME CoordinatorInv, WorkStays, NEW s \in Starter, StartPut(s)
    PROVE  CoordinatorInv'
<1>1. /\ starter[s] # None /\ starter[s].pc = "put"
      /\ benchmarkCycle' = NewCycle(starter[s].id, starter[s].at) /\ alarm' = TRUE
      /\ starter' = [starter EXCEPT ![s] = None]
      /\ benchmarkCheckpoint' = benchmarkCheckpoint /\ row' = row /\ marks' = marks
      /\ manifestObject' = manifestObject /\ handler' = handler
      /\ receipts' = receipts /\ week' = week /\ overdue' = overdue /\ faults' = faults
  BY DEF StartPut, Starting, aroundStart, receiptVars, timeVars, publicationVars
<1>2. PICK c \in Cycle, w \in Week : c = starter[s].id /\ w = starter[s].at
  BY <1>1, TypesAre
<1>3. PICK n \in CycleRecord :
         /\ n = NewCycle(c, w) /\ n # None
         /\ n.id = c /\ n.state = "running" /\ n.phase = "acquire" /\ n.attempt = 0
  BY NewCycleIs, NoneIs
<1>4. benchmarkCycle' = n
  BY <1>1, <1>2, <1>3
<1>5. /\ ~ Known(c) /\ row[c] # None
      /\ \A t \in Starter : starter[t] # None /\ starter[t].id = c => t = s
  BY <1>1, <1>2 DEF CoordinatorInv, NamesAreFresh
<1>6. c \notin receipts /\ (handler # None => handler.cycle.id # c)
  BY <1>5 DEF Known
<1>7. CoordinatorTypes'
  BY <1>1, <1>4 DEF CoordinatorInv, CoordinatorTypes
<1>8. StorageInv'
  BY <1>1, <1>3, <1>4, <1>6 DEF StorageInv, IsTrue, Fits, MaxRequests
<1>9. HandlerInv'
  <2> SUFFICES ASSUME handler # None PROVE (HandlerReads /\ StorageIsRead /\ ResultIsTrue)'
    BY <1>1 DEF HandlerInv
  <2>1. HandlerReads /\ StorageIsRead /\ ResultIsTrue
    BY DEF CoordinatorInv, HandlerInv
  <2>2. handler.cycle \in CycleRecord /\ handler.next \in CycleRecord \cup {None}
    BY HandlerIs DEF CoordinatorInv
  <2>3. \A r \in CycleRecord : IsTrue(r) => IsTrue(r)'
    BY <1>1, StaysTrue
  <2>4. HandlerReads'
    BY <1>1, <2>1, <2>2, <2>3 DEF HandlerReads, IsTrue, ManifestMatches
  <2>5. StorageIsRead'
    BY <1>1, <1>3, <1>4, <1>6, <2>1 DEF StorageIsRead
  <2>6. ResultIsTrue'
    BY <1>1, <2>1, <2>2, <2>3 DEF ResultIsTrue, IsTrue, After
  <2> QED
    BY <2>4, <2>5, <2>6
<1>10. NamesAreFresh'
  <2>1. \A b \in Cycle : Known(b)' => Known(b) \/ b = c
    BY <1>1, <1>3, <1>4 DEF Known
  <2>2. \A b \in Cycle : Known(b)' => row'[b] # None
    BY <1>1, <1>5, <2>1 DEF CoordinatorInv, NamesAreFresh
  <2>3. \A t \in Starter : starter'[t] # None => starter'[t] = starter[t] /\ t # s
    BY <1>1, TypesAre
  <2>4. ASSUME NEW t \in Starter, starter'[t] # None
        PROVE  /\ ~ Known(starter[t].id)'
               /\ starter'[t].pc = "expire" => starter'[t].existing # None
               /\ starter'[t].pc = "put" => row'[starter'[t].id] # None
               /\ \A u \in Starter : starter'[u] # None /\ starter'[u].id = starter'[t].id => u = t
    <3>1. starter'[t] = starter[t] /\ starter[t] # None /\ t # s
      BY <2>3, <2>4
    <3>2. PICK id \in Cycle : id = starter[t].id
      BY <3>1, TypesAre
    <3>3. ~ Known(id)' /\ id # c
      BY <1>5, <2>1, <3>1, <3>2 DEF CoordinatorInv, NamesAreFresh
    <3>4. ~ Known(starter[t].id)'
      BY <3>1, <3>2, <3>3 DEF Known
    <3>5. \A u \in Starter : starter'[u] # None /\ starter'[u].id = starter'[t].id => u = t
      BY <2>3, <3>1 DEF CoordinatorInv, NamesAreFresh
    <3> QED
      BY <1>1, <3>1, <3>4, <3>5 DEF CoordinatorInv, NamesAreFresh
  <2> QED
    BY <2>2, <2>4 DEF NamesAreFresh, Known
<1>11. EverythingOnce' /\ RowsAreTrue'
  BY <1>1, ManifestsStay, RowsStay DEF CoordinatorInv
<1> QED
  BY <1>7, <1>8, <1>9, <1>10, <1>11 DEF CoordinatorInv

LEMMA TimeKeeps ==
    ASSUME CoordinatorInv, WorkStays, NextWeek \/ \E c \in Cycle : GrowsOld(c)
    PROVE  CoordinatorInv'
<1>1. /\ UNCHANGED <<benchmarkCycle, benchmarkCheckpoint, handler, manifestObject>>
      /\ receipts' = receipts /\ alarm' = alarm /\ row' = row /\ marks' = marks
      /\ starter' = starter /\ faults' = faults
      /\ benchmarkCycle' = benchmarkCycle /\ handler' = handler
  BY DEF NextWeek, GrowsOld, storageVars, receiptVars, publicationVars
<1>2. week' \in Week /\ overdue' \subseteq Cycle
  <2>1. CASE NextWeek
    <3>1. week \in 1 .. MaxWeek /\ week < MaxWeek /\ week' = week + 1 /\ overdue' = overdue
      BY <2>1, IngestBounds, TypesAre DEF NextWeek
    <3> QED
      BY <3>1, IngestBounds, TypesAre
  <2>2. CASE \E c \in Cycle : GrowsOld(c)
    BY <2>2, TypesAre DEF GrowsOld
  <2> QED
    BY <2>1, <2>2
<1>3. NamesAreFresh' /\ RowsAreTrue'
  BY <1>1, TypesAre, RowsStay DEF NamesAreFresh, Known
<1> QED
  BY <1>1, <1>2, <1>3, TypesAre, AroundKeeps

LEMMA OthersKeep ==
    ASSUME CoordinatorInv, WorkStays, receipts' = receipts, Others
    PROVE  CoordinatorInv'
BY TablesAloneKeep DEF Others, outside
-----------------------------------------------------------------------------
(***************************************************************************)
(* Faults.                                                                 *)
(***************************************************************************)
LEMMA FaultCounts ==
    ASSUME CoordinatorInv, NEW kind, Fault(kind)
    PROVE  faults' \in 0 .. MaxFaults
BY IngestBounds, TypesAre DEF Fault

LEMMA ForgottenIs == Forgotten => TableStep
BY NoTableStep DEF Forgotten

LEMMA CrashKeeps ==
    ASSUME CoordinatorInv, WorkStays, receipts' = receipts, Crash \/ TornPut
    PROVE  CoordinatorInv'
<1>1. /\ handler' = None /\ benchmarkCycle' = benchmarkCycle
      /\ starter' = [s \in Starter |-> None]
      /\ row' = row /\ marks' = marks /\ manifestObject' = manifestObject
      /\ UNCHANGED <<manifestObject, timeVars>>
      /\ alarm' \in BOOLEAN
  BY TypesAre DEF Crash, TornPut, receiptVars
<1>2. faults' \in 0 .. MaxFaults
  BY FaultCounts DEF Crash, TornPut
<1>3. /\ row' \in [Cycle -> CycleRecord \cup {None}]
      /\ \A b \in Cycle : row[b] # None => row'[b] # None
      /\ marks' \in [Cycle -> SUBSET (CyclePhase \X Nat)]
      /\ starter' \in [Starter -> StarterRecord \cup {None}]
      /\ \A s \in Starter : starter'[s] \in {starter[s], None}
      /\ RowsAreTrue'
  BY <1>1, TypesAre, RowsStay
<1>4. \A r \in CycleRecord : IsTrue(r) => IsTrue(r)'
  BY StaysTrue
<1>5. benchmarkCheckpoint' \in Checkpoint \cup {None} /\ StorageInv'
  <2>1. CASE Crash
    <3>1. benchmarkCheckpoint' = benchmarkCheckpoint
      BY <2>1 DEF Crash
    <3> QED
      BY <1>1, <1>4, <3>1 DEF CoordinatorInv, CoordinatorTypes, StorageInv, IsTrue
  <2>2. CASE TornPut
    <3>1. handler # None /\ handler.pc = "put" /\ benchmarkCheckpoint' = SavedCheckpoint
      BY <2>2 DEF TornPut, At
    <3>2. StorageIsRead /\ ResultIsTrue
      BY <3>1, HasResult
    <3>3. benchmarkCheckpoint' = After(handler)
      BY <3>1, <3>2 DEF SavedCheckpoint, After, StorageIsRead
    <3>4. benchmarkCheckpoint' \in Checkpoint \cup {None}
      BY <3>1, <3>3, HandlerIs DEF After, CoordinatorInv
    <3>5. PICK b \in CycleRecord : b = benchmarkCycle /\ IsTrue(b)
      BY <3>1, <3>2 DEF StorageIsRead, CoordinatorInv, CoordinatorTypes, StorageInv
    <3>6. Fits(b, benchmarkCheckpoint')
      <4>1. CASE b.id = handler.cycle.id
        <5>1. b.phase = handler.cycle.phase /\ b.cursor = handler.cycle.cursor
          BY <3>1, <3>2, <3>5, <4>1 DEF StorageIsRead
        <5>2. Fits(handler.cycle, After(handler))
          BY <3>1, <3>2 DEF ResultIsTrue, Working
        <5>3. Fits(b, After(handler))
          BY <4>1, <5>1, <5>2, SamePlaceFits
        <5> QED
          BY <3>3, <5>3
      <4>2. CASE b.id # handler.cycle.id
        <5>1. b.phase = "acquire"
          BY <3>1, <3>2, <3>5, <4>2 DEF StorageIsRead
        <5> QED
          BY <5>1 DEF Fits
      <4> QED
        BY <4>1, <4>2
    <3> QED
      BY <1>1, <1>4, <3>4, <3>5, <3>6 DEF StorageInv, IsTrue
  <2> QED
    BY <2>1, <2>2
<1> QED
  BY <1>1, <1>2, <1>3, <1>5, HandlerStops

\* The catch block writes a failed record of the cycle it has read.
LEMMA CatchKeeps ==
    ASSUME CoordinatorInv, WorkStays, receipts' = receipts, handler # None, Catch,
           Fits(handler.cycle, benchmarkCheckpoint),
           UNCHANGED <<benchmarkCheckpoint, alarm, starter, manifestObject, timeVars>>,
           row' \in [Cycle -> CycleRecord \cup {None}], RowsAreTrue',
           \A b \in Cycle : row[b] # None => row'[b] # None,
           marks' \in [Cycle -> SUBSET (CyclePhase \X Nat)],
           faults' \in 0 .. MaxFaults
    PROVE  CoordinatorInv'
<1>1. /\ handler \in HandlerRecord /\ handler.cycle.id \in Cycle /\ HandlerReads
  BY HandlerIs DEF CoordinatorInv, HandlerInv
<1>2. PICK r \in CycleRecord : r = handler.cycle
  BY HandlerIs DEF CoordinatorInv
<1>3. PICK e \in CycleRecord :
         /\ e = Ended(r, "failed") /\ e # None /\ e.id = r.id /\ e.state = "failed"
         /\ e.phase = r.phase /\ e.cursor = r.cursor
  BY EndedIs, NoneIs DEF CycleState
<1>4. benchmarkCycle' = e /\ handler' = [handler EXCEPT !.pc = "fail-row", !.next = e]
  BY <1>2, <1>3 DEF Catch
<1>5. PICK i \in HandlerRecord : i = [handler EXCEPT !.pc = "fail-row", !.next = e]
  BY <1>1 DEF HandlerRecord, HandlerPc
<1>6. /\ i.pc = "fail-row" /\ i.next = e /\ i.cycle = r /\ i.checkpoint = handler.checkpoint
      /\ i # None
  BY <1>1, <1>2, <1>5, NoneIs DEF HandlerRecord
<1>7. handler' = i
  BY <1>4, <1>5
<1>8. \A q \in CycleRecord : IsTrue(q) => IsTrue(q)'
  BY StaysTrue
<1>9. IsTrue(r)' /\ IsTrue(e)'
  <2>1. IsTrue(r)
    BY <1>1, <1>2 DEF HandlerReads
  <2>2. IsTrue(e)
    BY <1>3, <2>1 DEF IsTrue, TerminalState
  <2> QED
    BY <1>8, <2>1, <2>2
<1>10. Fits(e, benchmarkCheckpoint)
  BY <1>2, <1>3, SamePlaceFits
<1>11. /\ benchmarkCheckpoint' = benchmarkCheckpoint /\ alarm' = alarm /\ starter' = starter
       /\ manifestObject' = manifestObject /\ week' = week /\ overdue' = overdue
  BY DEF timeVars
<1>12. CoordinatorTypes'
  BY <1>4, <1>7, <1>11 DEF CoordinatorInv, CoordinatorTypes
<1>13. StorageInv'
  BY <1>4, <1>9, <1>10, <1>11 DEF StorageInv, IsTrue
<1>14. HandlerInv'
  <2>1. HandlerReads'
    BY <1>1, <1>2, <1>6, <1>7, <1>9 DEF HandlerReads, IsTrue
  <2>2. StorageIsRead'
    BY <1>6, <1>7 DEF StorageIsRead, Working
  <2>3. ResultIsTrue'
    <3>1. IsTrue(handler.next)'
      BY <1>6, <1>7, <1>9 DEF IsTrue
    <3> QED
      BY <1>3, <1>6, <1>7, <3>1 DEF ResultIsTrue
  <2> QED
    BY <2>1, <2>2, <2>3 DEF HandlerInv
<1>15. NamesAreFresh'
  <2>1. \A c \in Cycle : Known(c)' => Known(c)
    BY <1>2, <1>3, <1>4, <1>6, <1>7 DEF Known
  <2>2. \A s \in Starter : starter[s] # None => starter[s].id \in Cycle
    BY TypesAre
  <2> QED
    BY <1>11, <2>1, <2>2 DEF CoordinatorInv, NamesAreFresh
<1>16. EverythingOnce'
  BY <1>11, ManifestsStay DEF CoordinatorInv
<1> QED
  BY <1>12, <1>13, <1>14, <1>15, <1>16 DEF CoordinatorInv

LEMMA StepRejectsKeeps ==
    ASSUME CoordinatorInv, WorkStays, receipts' = receipts, faults' \in 0 .. MaxFaults,
           StepRejects, UNCHANGED <<benchmarkCheckpoint, manifestObject, timeVars>>
    PROVE  CoordinatorInv'
<1>1. /\ handler # None /\ handler.pc \in Working \cup {"put"}
      /\ alarm' = alarm /\ row' = row /\ marks' = marks /\ starter' = starter
      /\ benchmarkCheckpoint' = benchmarkCheckpoint /\ manifestObject' = manifestObject
  BY DEF StepRejects, Working, receiptVars
<1>2. CASE handler.cycle.phase = "acquire"
  <2>1. Catch /\ Fits(handler.cycle, benchmarkCheckpoint)
    BY <1>2 DEF StepRejects, Fits
  <2>2. /\ row' \in [Cycle -> CycleRecord \cup {None}] /\ RowsAreTrue'
        /\ \A b \in Cycle : row[b] # None => row'[b] # None
        /\ marks' \in [Cycle -> SUBSET (CyclePhase \X Nat)]
    BY <1>1, TypesAre, RowsStay
  <2>3. UNCHANGED <<benchmarkCheckpoint, alarm, starter, manifestObject, timeVars>>
    BY <1>1
  <2> QED
    BY <1>1, <2>1, <2>2, <2>3, CatchKeeps
<1>3. CASE handler.cycle.phase # "acquire"
  <2>1. (Fails \/ RetryOrFail) /\ benchmarkCycle' = benchmarkCycle
    BY <1>3 DEF StepRejects
  <2>2. UNCHANGED <<storageVars, receiptVars, starter, timeVars>>
    BY <1>1, <2>1 DEF storageVars, receiptVars
  <2> QED
    BY <1>1, <2>1, <2>2, EndsKeep
<1> QED
  BY <1>2, <1>3

LEMMA StartRejectsKeeps ==
    ASSUME CoordinatorInv, WorkStays, receipts' = receipts, faults' \in 0 .. MaxFaults,
           StartRejects, UNCHANGED <<benchmarkCheckpoint, manifestObject, timeVars>>
    PROVE  CoordinatorInv'
<1>1. PICK s \in Starter : starter[s] # None /\ starter' = [starter EXCEPT ![s] = None]
  BY DEF StartRejects
<1>2. /\ benchmarkCycle' = benchmarkCycle /\ handler' = handler /\ alarm' = alarm
      /\ row' = row /\ marks' = marks /\ week' = week /\ overdue' = overdue
  BY DEF StartRejects, receiptVars, timeVars
<1>3. starter' \in [Starter -> StarterRecord \cup {None}] /\ NamesAreFresh'
  <2>1. starter' \in {[starter EXCEPT ![s] = None], [starter EXCEPT ![s].pc = "insert"]}
    BY <1>1
  <2>2. "insert" \in {"expire", "insert", "put"} /\ "insert" # "expire" /\ "insert" # "put"
    OBVIOUS
  <2>3. \A b \in Cycle : row[b] # None => row'[b] # None
    BY <1>2
  <2>4. UNCHANGED <<benchmarkCycle, handler>>
    BY <1>2
  <2> QED
    BY <1>1, <2>1, <2>2, <2>3, <2>4, StarterMoves
<1>4. /\ alarm' \in BOOLEAN /\ row' \in [Cycle -> CycleRecord \cup {None}] /\ RowsAreTrue'
      /\ marks' \in [Cycle -> SUBSET (CyclePhase \X Nat)]
      /\ week' \in Week /\ overdue' \subseteq Cycle
  BY <1>2, TypesAre, RowsStay
<1>5. UNCHANGED <<benchmarkCycle, benchmarkCheckpoint, handler, manifestObject>>
  BY <1>2
<1> QED
  BY <1>3, <1>4, <1>5, AroundKeeps

LEMMA CallRejectsKeeps ==
    ASSUME CoordinatorInv, WorkStays, receipts' = receipts, CallRejects
    PROVE  CoordinatorInv'
<1>1. faults' \in 0 .. MaxFaults
  BY FaultCounts DEF CallRejects
<1>2. UNCHANGED <<benchmarkCheckpoint, manifestObject, timeVars>>
  BY DEF CallRejects
<1>3. CASE StepRejects
  BY <1>1, <1>2, <1>3, StepRejectsKeeps
<1>4. CASE PersistRejects
  <2>1. /\ handler # None /\ handler.pc = "persist" /\ Catch
        /\ Receipts(handler.cycle.id) \/ UNCHANGED receiptVars
        /\ UNCHANGED <<benchmarkCheckpoint, alarm, starter, manifestObject, timeVars>>
    BY <1>2, <1>4 DEF PersistRejects, At
  <2>2. Fits(handler.cycle, benchmarkCheckpoint)
    BY <2>1, HasResult DEF ResultIsTrue, Working
  <2>3. /\ row' \in [Cycle -> CycleRecord \cup {None}] /\ RowsAreTrue'
        /\ \A b \in Cycle : row[b] # None => row'[b] # None
        /\ marks' \in [Cycle -> SUBSET (CyclePhase \X Nat)]
    BY <2>1, ReceiptsKeep
  <2> QED
    BY <1>1, <2>1, <2>2, <2>3, CatchKeeps
<1>5. CASE FailRowRejects
  <2>1. /\ handler' = None /\ alarm' = TRUE /\ benchmarkCycle' = benchmarkCycle
        /\ row' = row /\ marks' = marks /\ starter' = starter
        /\ benchmarkCheckpoint' = benchmarkCheckpoint
        /\ UNCHANGED <<manifestObject, timeVars>>
    BY <1>2, <1>5 DEF FailRowRejects, receiptVars
  <2>2. /\ row' \in [Cycle -> CycleRecord \cup {None}] /\ RowsAreTrue'
        /\ \A b \in Cycle : row[b] # None => row'[b] # None
        /\ marks' \in [Cycle -> SUBSET (CyclePhase \X Nat)]
        /\ starter' \in [Starter -> StarterRecord \cup {None}]
        /\ \A s \in Starter : starter'[s] \in {starter[s], None}
        /\ alarm' \in BOOLEAN
    BY <2>1, TypesAre, RowsStay
  <2>3. StorageInv' /\ benchmarkCheckpoint' \in Checkpoint \cup {None}
    <3>1. \A r \in CycleRecord : IsTrue(r) => IsTrue(r)'
      BY StaysTrue
    <3> QED
      BY <2>1, <3>1 DEF CoordinatorInv, CoordinatorTypes, StorageInv, IsTrue
  <2> QED
    BY <1>1, <2>1, <2>2, <2>3, HandlerStops
<1>6. CASE StartRejects
  BY <1>1, <1>2, <1>6, StartRejectsKeeps
<1> QED
  BY <1>3, <1>4, <1>5, <1>6 DEF CallRejects

-----------------------------------------------------------------------------
(***************************************************************************)
(* Every step.                                                             *)
(***************************************************************************)

\* The steps that leave the tables as they are.
LEMMA TablesAside ==
    ASSUME \/ RetrieveBenchLm \/ AssembleBenchLm \/ RetrieveLiteLlm \/ RetrieveLmArenaRevision
           \/ RetrieveViewerPage \/ ResolveParquet \/ DownloadParquet \/ PagesAreThere
           \/ SourceFails \/ PageFails \/ ViewerFallsBack
           \/ NormalizeSources \/ ManifestMismatch
           \/ Put \/ Persist \/ FailRow \/ AlarmFires \/ DuplicateAlarm \/ NextWeek \/ TornPut
           \/ (\E s \in Starter : StartBegin(s) \/ StarterGoesOn(s))
           \/ (\E c \in Cycle : GrowsOld(c))
    PROVE  UNCHANGED publicationVars
BY DEF RetrieveBenchLm, AssembleBenchLm, RetrieveLiteLlm, RetrieveLmArenaRevision,
       RetrieveViewerPage, ResolveParquet, DownloadParquet, PagesAreThere, SourceFails, PageFails,
       ViewerFallsBack, NormalizeSources, ManifestMismatch, Put, Persist, FailRow, AlarmFires,
       DuplicateAlarm, Deliver, NextWeek, TornPut, StartBegin, StarterGoesOn, StartReceipt,
       StartExpire, StartInsert, StartPut, aroundStart, GrowsOld

LEMMA BatchKeepsProtocol ==
    ASSUME CoordinatorInv, PublishCandidate
    PROVE  [PublicationNext]_publicationVars
<1> DEFINE c == handler.cycle.id
<1>1. handler # None
  BY DEF PublishCandidate, InStep, At
<1>2. c \in Cycle
  BY <1>1, HandlerIs DEF CoordinatorInv
<1>3. PublishBatch(c) \/ PublishEnds
  BY DEF PublishCandidate
<1> QED
  BY <1>2, <1>3 DEF PublicationNext, CycleStep

\* The coordinator acts on the tables by their protocol alone.
LEMMA StepKeepsProtocol ==
    ASSUME CoordinatorInv, [Next]_vars
    PROVE  [PublicationNext]_publicationVars /\ (receipts' = receipts \/ PublishCandidate)
<1>1. CASE UNCHANGED vars
  BY <1>1, TablesStand DEF vars
<1>2. CASE PublishCandidate
  BY <1>2, BatchKeepsProtocol
<1>3. CASE HandlerTableStep
  BY <1>3, HandlerKeepsTables DEF CoordinatorInv, TableStep
<1>4. CASE Others \/ Crash
  <2>1. TableStep
    BY <1>4, NoTableStep, ForgottenIs DEF Others, Crash
  <2> QED
    BY <2>1 DEF TableStep
<1>5. CASE CallRejects
  <2>1. UNCHANGED publicationVars \/ Forgotten
    BY <1>5 DEF CallRejects, StepRejects, PersistRejects, FailRowRejects, StartRejects
  <2>2. TableStep
    BY <2>1, NoTableStep, ForgottenIs
  <2> QED
    BY <2>2 DEF TableStep
<1>6. \/ UNCHANGED publicationVars
      \/ PublishCandidate \/ HandlerTableStep \/ Others \/ Crash \/ CallRejects
      \/ UNCHANGED vars
  BY TablesAside DEF Next, HandlerNext, HandlerTableStep
<1> QED
  BY <1>1, <1>2, <1>3, <1>4, <1>5, <1>6, TablesStand

LEMMA HandlerNextKeeps ==
    ASSUME IngestInv, TablesInv', WorkStays, receipts' = receipts \/ PublishCandidate, HandlerNext
    PROVE  CoordinatorInv'
<1>1. TablesInv /\ CoordinatorInv
  BY DEF IngestInv
<1>2. CASE \/ Acquire \/ RetrieveBenchLm
           \/ AssembleBenchLm \/ RetrieveLiteLlm \/ RetrieveLmArenaRevision
           \/ SourceFails \/ PageFails \/ ManifestMismatch
  BY <1>1, <1>2, AcquireKeeps, RetrieveBenchLmKeeps, BundlePhasesKeep, SourceFailsKeeps
<1>3. CASE \/ RetrieveViewerPage \/ ResolveParquet \/ DownloadParquet \/ PagesAreThere
           \/ ViewerFallsBack \/ NormalizeSources
  BY <1>1, <1>3, RetrieveViewerPageKeeps, ResolveParquetKeeps, DownloadParquetKeeps,
     PagesAreThereKeeps, ViewerFallsBackKeeps, NormalizeSourcesKeeps
<1>4. CASE PublishCandidate
  BY <1>1, <1>4, PublishCandidateKeeps
<1>5. CASE \/ DeriveCandidate
           \/ EnsurePendingRevision \/ StageFacts \/ StageProfiles \/ StageCache \/ FillCache
           \/ Validate \/ PublishStep
  <2>1. receipts' = receipts \/ PublishCandidate
    OBVIOUS
  <2> QED
    BY <1>1, <1>4, <1>5, <2>1, DeriveCandidateKeeps, StagingKeeps, ValidateKeeps, PublishStepKeeps
<1>6. CASE Put \/ Persist \/ FailRow
  BY <1>1, <1>6, PutKeeps, PersistKeeps
<1> QED
  BY <1>2, <1>3, <1>4, <1>5, <1>6 DEF HandlerNext

LEMMA IngestStep == IngestInv /\ [Next]_vars => IngestInv'
<1> SUFFICES ASSUME IngestInv, [Next]_vars PROVE IngestInv'
  OBVIOUS
<1>1. TablesInv /\ CoordinatorInv
  BY DEF IngestInv
<1>2. [PublicationNext]_publicationVars /\ (receipts' = receipts \/ PublishCandidate)
  BY <1>1, StepKeepsProtocol
<1>3. TablesInv'
  BY <1>1, <1>2, TablesStep
<1>4. WorkStays
  BY <1>1, <1>2, ProtocolKeepsWork
<1> SUFFICES CoordinatorInv'
  BY <1>3 DEF IngestInv
<1>5. CASE PublishCandidate
  BY <1>1, <1>4, <1>5, PublishCandidateKeeps
<1>6. CASE ~ PublishCandidate
  <2>1. receipts' = receipts
    BY <1>2, <1>6
  <2>2. CASE UNCHANGED vars
    <3>1. UNCHANGED <<outside, handler, manifestObject>>
      BY <2>2 DEF vars, outside
    <3> QED
      BY <1>1, <1>4, <2>1, <3>1, TablesAloneKeep
  <2>3. CASE AlarmFires \/ DuplicateAlarm
    <3>1. PICK pending \in BOOLEAN : Deliver(pending)
      BY <1>1, <2>3, TypesAre DEF AlarmFires, DuplicateAlarm
    <3>2. faults' \in 0 .. MaxFaults
      BY <1>1, <2>3, TypesAre, FaultCounts DEF AlarmFires, DuplicateAlarm
    <3> QED
      BY <1>1, <1>4, <3>1, <3>2, DeliverKeeps
  <2>4. CASE HandlerNext
    BY <1>2, <1>3, <1>4, <2>4, HandlerNextKeeps
  <2>5. ASSUME NEW s \in Starter, StartBegin(s) \/ StarterGoesOn(s)
        PROVE  CoordinatorInv'
    BY <1>1, <1>4, <2>5, StartBeginKeeps, StartGoesOnKeeps, StartPutKeeps DEF StarterGoesOn
  <2>6. CASE NextWeek \/ \E c \in Cycle : GrowsOld(c)
    BY <1>1, <1>4, <2>6, TimeKeeps
  <2>7. CASE Others
    BY <1>1, <1>4, <2>1, <2>7, OthersKeep
  <2>8. CASE Crash \/ TornPut
    BY <1>1, <1>4, <2>1, <2>8, CrashKeeps
  <2>9. CASE CallRejects
    BY <1>1, <1>4, <2>1, <2>9, CallRejectsKeeps
  <2> QED
    BY <2>2, <2>3, <2>4, <2>5, <2>6, <2>7, <2>8, <2>9 DEF Next
<1> QED
  BY <1>5, <1>6

LEMMA InitIngestInv == Init => IngestInv
<1> SUFFICES ASSUME Init PROVE IngestInv
  OBVIOUS
<1>1. TablesInv
  BY InitTablesInv DEF Init
<1>2. receipts = {}
  BY DEF Init, PublicationInit
<1>3. 1 \in Week /\ 0 \in 0 .. MaxFaults
  BY IngestBounds
<1>4. CoordinatorTypes
  BY <1>3 DEF Init, CoordinatorTypes
<1>5. StorageInv /\ HandlerInv
  BY DEF Init, StorageInv, HandlerInv
<1>6. NamesAreFresh /\ RowsAreTrue /\ EverythingOnce
  BY <1>2 DEF Init, NamesAreFresh, Known, RowsAreTrue, EverythingOnce
<1> QED
  BY <1>1, <1>4, <1>5, <1>6 DEF IngestInv, CoordinatorInv
-----------------------------------------------------------------------------
(* The invariant holds in every reachable state of the coordinator.        *)
THEOREM IngestInvariance == Spec => []IngestInv
BY InitIngestInv, IngestStep, PTL DEF Spec

-----------------------------------------------------------------------------
(* The values of storage, D1, R2 and of every invocation have their types. *)
THEOREM IngestTypesAlwaysOK == Spec => []TypeOK
<1>1. IngestInv => TypeOK
  BY DEF IngestInv, TablesInv, CoordinatorInv, CoordinatorTypes, TypeOK
<1> QED
  BY <1>1, IngestInvariance, PTL

(* However the coordinator is interrupted, overlapped or replayed, it acts *)
(* on the publication tables by their protocol alone.                      *)
THEOREM CoordinatorKeepsProtocol == Spec => KeepsProtocol
<1>1. Init => PublicationInit
  BY DEF Init
<1>2. IngestInv /\ [Next]_vars => [PublicationNext]_publicationVars
  BY StepKeepsProtocol DEF IngestInv
<1> QED
  BY <1>1, <1>2, IngestInvariance, PTL DEF Spec, KeepsProtocol, PublicationSpec

(* So what readers are given is one view, whole, and changes as the view   *)
(* may: the theorems about the tables hold of the coordinator.             *)
THEOREM CoordinatorServesOneView ==
    Spec => []OneViewIsServed /\ []PublishedIsComplete /\ ImplementsView
BY CoordinatorKeepsProtocol, OneViewAlwaysServed, PublishedAlwaysComplete,
   PublicationImplementsView, PTL DEF KeepsProtocol

(* A cycle is recorded as published, in D1 or in storage, only if its      *)
(* batch was applied.                                                      *)
THEOREM PublishedWasAlwaysServed == Spec => []PublishedWasServed
<1>1. IngestInv => PublishedWasServed
  BY DEF IngestInv, CoordinatorInv, RowsAreTrue, StorageInv, IsTrue, PublishedWasServed
<1> QED
  BY <1>1, IngestInvariance, PTL

(* A step never works with the checkpoint of another cycle, though start() *)
(* replaces the cycle record and leaves the checkpoint behind.             *)
THEOREM CheckpointIsAlwaysOwn == Spec => []CheckpointIsOwn
<1>1. IngestInv => CheckpointIsOwn
  BY DEF IngestInv, CoordinatorInv, HandlerInv, HandlerReads, Fits, Assembled, CheckpointIsOwn
<1> QED
  BY <1>1, IngestInvariance, PTL

(* What is published was made from every artifact, every page and every    *)
(* normalized partition exactly once and in order.                         *)
THEOREM EverythingAlwaysOnce == Spec => []EverythingOnce
<1>1. IngestInv => EverythingOnce
  BY DEF IngestInv, CoordinatorInv
<1> QED
  BY <1>1, IngestInvariance, PTL
=============================================================================
