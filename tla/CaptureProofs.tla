---------------------------- MODULE CaptureProofs ----------------------------
(***************************************************************************)
(* Proofs about Capture, for any groups, modems, channels, snapshots,      *)
(* requests and bounds, and for each of the ten measurement services.      *)
(***************************************************************************)
EXTENDS Capture, TLAPS, FiniteSetTheorems, SequenceTheorems, WellFoundedInduction

-----------------------------------------------------------------------------
(* The scope of a request *)

\* SetToSeq lists a finite set, each element once.
LEMMA ListOfSet ==
    ASSUME NEW S, IsFiniteSet(S)
    PROVE  /\ SetToSeq(S) \in Seq(S)
           /\ Len(SetToSeq(S)) = Cardinality(S)
           /\ S = {SetToSeq(S)[i] : i \in DOMAIN SetToSeq(S)}
           /\ SetToSeq(S) = <<>> <=> S = {}
<1> DEFINE n == Cardinality(S)
           s == SetToSeq(S)
<1>1. n \in Nat /\ ExistsBijection(1..n, S)
  BY FS_CardinalityType
<1>2. \E f \in [1..n -> S] : IsInjective(f)
  BY <1>1 DEF ExistsBijection, Bijection, Injection
<1>3. s \in [1..n -> S] /\ IsInjective(s)
  <2> HIDE DEF n
  <2>1. SetToSeq(S) = CHOOSE f \in [1..n -> S] : IsInjective(f)
    BY DEF SetToSeq, n
  <2>2. QED
    BY <2>1, <1>2
<1>4. s \in Surjection(1..n, S)
  <2>1. IsFiniteSet(1..n) /\ Cardinality(1..n) = n
    BY <1>1, FS_Interval
  <2>2. s \in Injection(1..n, S)
    BY <1>3 DEF Injection
  <2>3. QED
    BY <2>1, <2>2, FS_Injection
<1>5. s \in Seq(S) /\ Len(s) = n /\ DOMAIN s = 1..n
  BY <1>1, <1>3, SeqDef
<1>6. S = {s[i] : i \in 1..n}
  BY <1>3, <1>4 DEF Surjection
<1>7. s = <<>> <=> S = {}
  BY <1>1, <1>5, FS_EmptySet, EmptySeq
<1> HIDE DEF n, s
<1>8. QED
  BY <1>5, <1>6, <1>7 DEF n, s

LEMMA ItemsFinite == IsFiniteSet(Item)
<1> DEFINE f == [p \in Modem \X SG |-> [mac |-> p[1], sg |-> p[2]]]
<1>1. f \in Surjection(Modem \X SG, Item)
  <2>1. f \in [Modem \X SG -> Item]
    BY DEF Item
  <2>2. ASSUME NEW i \in Item PROVE \E p \in Modem \X SG : f[p] = i
    <3>1. <<i.mac, i.sg>> \in Modem \X SG /\ i = [mac |-> i.mac, sg |-> i.sg]
      BY DEF Item
    <3>2. f[<<i.mac, i.sg>>] = i
      BY <3>1
    <3>3. QED
      BY <3>1, <3>2
  <2> HIDE DEF f
  <2>3. QED
    BY <2>1, <2>2 DEF Surjection
<1>2. IsFiniteSet(Modem \X SG)
  BY ScopeAssumption, FS_Product
<1>3. QED
  BY <1>1, <1>2, FS_Surjection

\* Pairing the two lists of an expansion gives back the pairs it was made from, although the
\* pairing takes the groups round by round.
LEMMA PairingInvertsExpansion ==
    ASSUME NEW pairs \in SUBSET Item
    PROVE  BuildWorkItems(Parallel(pairs).sgs, Parallel(pairs).macs) = pairs
<1> DEFINE p == SetToSeq(pairs)
           n == Len(p)
<1>1. IsFiniteSet(pairs)
  BY ItemsFinite, FS_Subset
<1>2. p \in Seq(pairs) /\ pairs = {p[i] : i \in DOMAIN p} /\ (p = <<>> <=> pairs = {})
  BY <1>1, ListOfSet
<1>3. n \in Nat /\ DOMAIN p = 1..n /\ \A i \in 1..n : p[i] \in Item
  BY <1>2
<1> HIDE DEF p
<1>4. /\ Parallel(pairs).sgs = [i \in 1..n |-> p[i].sg]
      /\ Parallel(pairs).macs = [i \in 1..n |-> p[i].mac]
  BY <1>3 DEF Parallel, p
<1>5. /\ Len(Parallel(pairs).sgs) = n
      /\ Parallel(pairs).sgs = <<>> <=> pairs = {}
  BY <1>2, <1>3, <1>4
<1>6. ASSUME pairs # {}
      PROVE  \A i \in 1..n : [mac |-> Parallel(pairs).macs[i],
                              sg |-> Parallel(pairs).sgs[((i - 1) % n) + 1]] = p[i]
  <2> SUFFICES ASSUME NEW i \in 1..n
               PROVE  [mac |-> Parallel(pairs).macs[i],
                       sg |-> Parallel(pairs).sgs[((i - 1) % n) + 1]] = p[i]
    OBVIOUS
  <2>1. (i - 1) % n = i - 1
    BY <1>3
  <2>2. QED
    BY <2>1, <1>3, <1>4 DEF Item
<1>7. CASE pairs = {}
  BY <1>5, <1>7 DEF BuildWorkItems
<1>8. CASE pairs # {}
  <2>1. DOMAIN Parallel(pairs).macs = 1..n
    BY <1>4
  <2>2. BuildWorkItems(Parallel(pairs).sgs, Parallel(pairs).macs) =
            {[mac |-> Parallel(pairs).macs[i],
              sg |-> Parallel(pairs).sgs[((i - 1) % n) + 1]] : i \in 1..n}
    BY <2>1, <1>5, <1>8, Zenon DEF BuildWorkItems
  <2>3. {[mac |-> Parallel(pairs).macs[i],
          sg |-> Parallel(pairs).sgs[((i - 1) % n) + 1]] : i \in 1..n} = {p[i] : i \in 1..n}
    BY <1>6, <1>8, Zenon
  <2>4. QED
    BY <2>2, <2>3, <1>2, <1>3, Zenon
<1>9. QED
  BY <1>7, <1>8

\* An expanded request becomes what its snapshots list.
LEMMA ExpansionCovers ==
    ASSUME NEW store, NEW sgs \in Seq(SG), NEW macs \in Seq(Modem), sgs = <<>> \/ macs = <<>>
    PROVE  LET scope == ResolveScope(store, sgs, macs)
           IN  BuildWorkItems(scope.sgs, scope.macs) = Covered(store, sgs, macs)
<1> DEFINE pairs == {i \in Item : /\ i.mac \in (IF macs = <<>> THEN Modem ELSE ToSet(macs))
                                  /\ i.sg \in (IF sgs = <<>> THEN SG ELSE ToSet(sgs))
                                  /\ Lists(store, i.sg, i.mac)}
<1>1. ResolveScope(store, sgs, macs) = Parallel(pairs)
  BY DEF ResolveScope, Expand
<1>2. pairs = Covered(store, sgs, macs)
  BY DEF Covered, Item
<1>3. QED
  BY <1>1, <1>2, PairingInvertsExpansion

LEMMA ScopeTyped ==
    ASSUME TypeOK, NEW r \in Request
    PROVE  Scope(r).sgs \in Seq(SG) /\ Scope(r).macs \in Seq(Modem)
<1>1. r.sgs \in Seq(SG) /\ r.macs \in Seq(Modem)
  BY RequestAssumption
<1>2. ASSUME NEW pairs \in SUBSET Item
      PROVE  Parallel(pairs).sgs \in Seq(SG) /\ Parallel(pairs).macs \in Seq(Modem)
  <2> DEFINE p == SetToSeq(pairs)
  <2>1. p \in Seq(pairs)
    BY ItemsFinite, FS_Subset, ListOfSet
  <2>2. Len(p) \in Nat /\ DOMAIN p = 1..Len(p) /\ \A i \in 1..Len(p) : p[i] \in Item
    BY <2>1
  <2>3. /\ Parallel(pairs).sgs = [i \in DOMAIN p |-> p[i].sg]
        /\ Parallel(pairs).macs = [i \in DOMAIN p |-> p[i].mac]
    BY DEF Parallel
  <2> HIDE DEF p
  <2>4. QED
    BY <2>2, <2>3 DEF Item
<1>3. \A store, groups, macs : Expand(store, groups, macs).sgs \in Seq(SG)
                               /\ Expand(store, groups, macs).macs \in Seq(Modem)
  <2> TAKE store, groups, macs
  <2>1. {i \in Item : i.mac \in macs /\ i.sg \in groups /\ Lists(store, i.sg, i.mac)} \in SUBSET Item
    OBVIOUS
  <2>2. QED
    BY <2>1, <1>2, Zenon DEF Expand
<1>4. QED
  BY <1>1, <1>3 DEF Scope, ResolveScope

\* An accepted request keeps its scope; one service drops its channels.
LEMMA SummaryFacts ==
    ASSUME NEW s \in Services, NEW store, NEW scope, NEW channels
    PROVE  LET summary == RequestOf(s, store, scope, channels)
           IN  /\ summary.accepted \in BOOLEAN
               /\ summary.channels \in {{}, channels}
               /\ summary.accepted => summary.sgs = scope.sgs /\ summary.macs = scope.macs
BY DEF Services, Viewed, RequestOf, RxMerRequest, ConstDisplayRequest, FecSummaryRequest, ChannelEstRequest,
       ModProfileRequest, PreEqRequest, HistogramRequest, SpectrumRequest, ScQamSpectrumRequest,
       OfdmSpectrumRequest, Summary, Refused

LEMMA WorkItemsTyped ==
    ASSUME NEW sgs \in Seq(SG), NEW macs \in Seq(Modem)
    PROVE  BuildWorkItems(sgs, macs) \in SUBSET Item
<1>1. CASE sgs = <<>>
  BY <1>1 DEF BuildWorkItems
<1>2. CASE sgs # <<>>
  <2>1. Len(sgs) \in Nat \ {0}
    BY <1>2
  <2>2. \A i \in DOMAIN macs : ((i - 1) % Len(sgs)) + 1 \in 1..Len(sgs)
    BY <2>1
  <2>3. QED
    BY <1>2, <2>2 DEF BuildWorkItems, Item
<1>3. QED
  BY <1>1, <1>2

-----------------------------------------------------------------------------
(* Types *)

LEMMA TypeInit == Init => TypeOK
<1> SUFFICES ASSUME Init PROVE TypeOK
  OBVIOUS
<1>1. EmptyStore \in Store
  BY DEF EmptyStore, Store, Listing
<1>2. op \in Operation
  BY CaptureBounds DEF Init, NoOperation, Operation
<1>3. file \in [SG -> Seq(Record)]
  BY DEF Init
<1>4. QED
  BY <1>1, <1>2, <1>3, CaptureBounds DEF Init, TypeOK

\* What a service records of a capture.
LEMMA OutcomesTyped ==
    ASSUME NEW stage \in Stages, NEW status \in Statuses
    PROVE  StageOutcome(stage, status) \in StageResult
BY DEF StageOutcome, StageResult, Stages

LEMMA CaptureTyped ==
    ASSUME NEW r \in Response, NEW c \in Channel \cup {NoChannel}, NEW txns \in Seq(Transaction)
    PROVE  CaptureOutcome(r, c, txns) \in StageResult
<1>1. ResponseStatus(r) \in Statuses
  BY ResponseAssumption DEF ResponseStatus, Responses, Statuses
<1>2. (IF r = "file" THEN txns ELSE <<>>) \in Seq(Transaction)
  OBVIOUS
<1>3. \A t \in Seq(Transaction), u \in Statuses :
         [stage |-> "capture", channel |-> c, status |-> u, txns |-> t] \in StageResult
  BY DEF StageResult, Stages
<1>4. QED
  BY <1>1, <1>2, <1>3 DEF CaptureOutcome

LEMMA ChannelsTyped ==
    ASSUME NEW channels \in SUBSET Channel
    PROVE  /\ RequestedChannel(channels) \in Channel \cup {NoChannel}
           /\ RequestedChannel(channels) # NoChannel => channels = {RequestedChannel(channels)}
           /\ Answered(channels) \in SUBSET Channel
<1>1. IsFiniteSet(channels)
  BY ScopeAssumption, FS_Subset
<1>2. Cardinality(channels) = 1 <=> \E c : channels = {c}
  BY <1>1, FS_Singleton
<1>3. QED
  BY <1>2 DEF RequestedChannel, Answered

LEMMA FileTyped ==
    ASSUME NEW i \in Item, NEW c \in Channel \cup {NoChannel}, NEW n \in 1..2
    PROVE  File(i, c, n) \in Transaction
BY DEF File, Transaction, Item

\* A non-empty set of numbers has a least one.
LEMMA LeastNumber ==
    ASSUME NEW S \in SUBSET Nat, S # {}
    PROVE  \E m \in S : \A k \in S : m <= k
<1>1. \E m \in S : \A k \in S : ~ (<<k, m>> \in OpToRel(<, Nat))
  BY NatLessThanWellFounded, WFMin
<1>2. \A m, k \in Nat : ~ (<<k, m>> \in OpToRel(<, Nat)) => m <= k
  BY DEF OpToRel
<1>3. QED
  BY <1>1, <1>2

LEMMA ChannelwiseTyped ==
    ASSUME NEW i \in Item, NEW channels \in SUBSET Channel, NEW c \in ChannelwiseCaptures(i, channels)
    PROVE  c \in StageResult /\ c.stage = "capture"
<1> DEFINE order == SetToSeq(Answered(channels))
           Bad(rs) == {k \in DOMAIN order : rs[k] \in {"none", "error", "malformed"}}
           Filed(rs) == {k \in DOMAIN order : rs[k] = "file" /\ \A j \in Bad(rs) : k < j}
           Files(rs) == {File(i, order[k], 1) : k \in Filed(rs)}
           Status(rs) == IF Bad(rs) # {}
                         THEN ResponseStatus(rs[CHOOSE k \in Bad(rs) : \A j \in Bad(rs) : k <= j])
                         ELSE IF Filed(rs) = {} THEN "TRANSACTION_NOT_FOUND" ELSE "SUCCESS"
<1>1. IsFiniteSet(Answered(channels)) /\ Answered(channels) \in SUBSET Channel
  BY ScopeAssumption, ChannelsTyped, FS_Subset
<1>2. order \in Seq(Channel) /\ Len(order) \in Nat /\ DOMAIN order = 1..Len(order)
  BY <1>1, ListOfSet
<1> HIDE DEF order
<1>3. ASSUME NEW rs \in [DOMAIN order -> Response] PROVE Status(rs) \in Statuses
  <2>1. CASE Bad(rs) # {}
    <3>1. \E k \in Bad(rs) : \A j \in Bad(rs) : k <= j
      <4>1. Bad(rs) \in SUBSET Nat
        BY <1>2
      <4> HIDE DEF Bad
      <4>2. QED
        BY <2>1, <4>1, LeastNumber
    <3>2. (CHOOSE k \in Bad(rs) : \A j \in Bad(rs) : k <= j) \in Bad(rs)
      BY <3>1
    <3>3. \A k \in Bad(rs) : ResponseStatus(rs[k]) \in Statuses
      BY DEF ResponseStatus, Statuses
    <3>4. Status(rs) = ResponseStatus(rs[CHOOSE k \in Bad(rs) : \A j \in Bad(rs) : k <= j])
      BY <2>1
    <3> HIDE DEF Bad, Status
    <3>5. QED
      BY <3>2, <3>3, <3>4
  <2>2. CASE Bad(rs) = {}
    BY <2>2 DEF Statuses
  <2>3. QED
    BY <2>1, <2>2
<1>4. ASSUME NEW rs \in [DOMAIN order -> Response] PROVE SetToSeq(Files(rs)) \in Seq(Transaction)
  <2>1. Files(rs) \in SUBSET Transaction
    BY <1>2, FileTyped
  <2>2. IsFiniteSet(Files(rs))
    <3> DEFINE f == [k \in Filed(rs) |-> File(i, order[k], 1)]
    <3>1. f \in Surjection(Filed(rs), Files(rs))
      <4> HIDE DEF Filed
      <4>1. QED
        BY DEF Surjection
    <3>2. IsFiniteSet(Filed(rs))
      <4>1. IsFiniteSet(1..Len(order)) /\ Filed(rs) \in SUBSET (1..Len(order))
        BY <1>2, FS_Interval
      <4>2. QED
        BY <4>1, FS_Subset
    <3>3. QED
      BY <3>1, <3>2, FS_Surjection
  <2> HIDE DEF Files
  <2>3. QED
    BY <2>1, <2>2, ListOfSet
<1>5. CASE c = StageOutcome("capture", "FAILURE")
  BY <1>5, OutcomesTyped DEF Stages, Statuses, StageOutcome
<1>6. ASSUME NEW rs \in [DOMAIN order -> Response],
             c = [stage |-> "capture", channel |-> NoChannel, txns |-> SetToSeq(Files(rs)), status |-> Status(rs)]
      PROVE  c \in StageResult /\ c.stage = "capture"
  <2>1. \A t \in Seq(Transaction), u \in Statuses :
          [stage |-> "capture", channel |-> NoChannel, txns |-> t, status |-> u] \in StageResult
    BY DEF StageResult, Stages
  <2> HIDE DEF Files, Status
  <2>2. QED
    BY <1>3, <1>4, <1>6, <2>1
<1>7. c = StageOutcome("capture", "FAILURE") \/
      \E rs \in [DOMAIN order -> Response] :
        c = [stage |-> "capture", channel |-> NoChannel, txns |-> SetToSeq(Files(rs)), status |-> Status(rs)]
  BY DEF ChannelwiseCaptures, order
<1> HIDE DEF Files, Status
<1>8. QED
  BY <1>5, <1>6, <1>7

\* The files of one response.
LEMMA OneResponseTyped ==
    ASSUME NEW i \in Item, NEW channels \in SUBSET Channel
    PROVE  /\ \A c \in ChannelCaptures(i, channels) : c \in StageResult /\ c.stage = "capture"
           /\ \A c \in PlainCaptures(i) : c \in StageResult /\ c.stage = "capture"
           /\ \A c \in PreEqCaptures(i, channels) : c \in StageResult /\ c.stage = "capture"
<1>1. \A r, c, txns : CaptureOutcome(r, c, txns).stage = "capture"
  BY DEF CaptureOutcome
<1>2. \A c \in Answered(channels) : c \in Channel \cup {NoChannel}
  BY ChannelsTyped
<1>3. \A c \in Channel \cup {NoChannel} : <<File(i, c, 1)>> \in Seq(Transaction)
  BY FileTyped
<1>4. ASSUME NEW c \in Channel \cup {NoChannel}, NEW k \in 1..2
      PROVE  SubSeq(<<File(i, c, 1), File(i, c, 2)>>, 1, k) \in Seq(Transaction)
  <2>1. <<File(i, c, 1), File(i, c, 2)>> \in Seq(Transaction)
    BY FileTyped
  <2>2. QED
    BY <2>1
<1>5. ASSUME NEW r \in Response, NEW c \in Answered(channels), NEW k \in 1..2
      PROVE  /\ CaptureOutcome(r, RequestedChannel(channels), <<File(i, c, 1)>>) \in StageResult
             /\ CaptureOutcome(r, RequestedChannel(channels),
                               SubSeq(<<File(i, c, 1), File(i, c, 2)>>, 1, k)) \in StageResult
  <2>1. RequestedChannel(channels) \in Channel \cup {NoChannel}
    BY ChannelsTyped
  <2>2. QED
    BY <1>2, <1>3, <1>4, <2>1, CaptureTyped
<1>6. ASSUME NEW r \in Response
      PROVE  CaptureOutcome(r, NoChannel, <<File(i, NoChannel, 1)>>) \in StageResult
  BY <1>3, CaptureTyped
<1>7. \A c \in ChannelCaptures(i, channels) : c \in StageResult /\ c.stage = "capture"
  <2> SUFFICES ASSUME NEW c \in ChannelCaptures(i, channels)
               PROVE  c \in StageResult /\ c.stage = "capture"
    OBVIOUS
  <2>1. PICK r \in Response, x \in Answered(channels) :
            c = CaptureOutcome(r, RequestedChannel(channels), <<File(i, x, 1)>>)
    BY DEF ChannelCaptures
  <2>2. CaptureOutcome(r, RequestedChannel(channels), <<File(i, x, 1)>>) \in StageResult
    BY <1>5, 1 \in 1..2
  <2>3. QED
    BY <1>1, <2>1, <2>2
<1>8. \A c \in PlainCaptures(i) : c \in StageResult /\ c.stage = "capture"
  BY <1>1, <1>6 DEF PlainCaptures
<1>9. \A c \in PreEqCaptures(i, channels) : c \in StageResult /\ c.stage = "capture"
  <2> SUFFICES ASSUME NEW c \in PreEqCaptures(i, channels)
               PROVE  c \in StageResult /\ c.stage = "capture"
    OBVIOUS
  <2>1. PICK r \in Response, x \in Answered(channels), k \in 1..2 :
            c = CaptureOutcome(r, RequestedChannel(channels),
                               SubSeq(<<File(i, x, 1), File(i, x, 2)>>, 1, k))
    BY DEF PreEqCaptures
  <2>2. CaptureOutcome(r, RequestedChannel(channels),
                       SubSeq(<<File(i, x, 1), File(i, x, 2)>>, 1, k)) \in StageResult
    BY <1>5
  <2>3. QED
    BY <1>1, <2>1, <2>2
<1>10. QED
  BY <1>7, <1>8, <1>9

LEMMA CapturesTyped ==
    ASSUME NEW s \in Services, NEW i \in Item, NEW channels \in SUBSET Channel,
           NEW c \in CapturesOf(s, i, channels)
    PROVE  c \in StageResult /\ c.stage = "capture"
BY OneResponseTyped, ChannelwiseTyped
   DEF Services, Viewed, CapturesOf, RxMerCaptures, ConstDisplayCaptures, FecSummaryCaptures,
       ChannelEstCaptures, ModProfileCaptures, PreEqCaptures, HistogramCaptures, SpectrumCaptures,
       ScQamSpectrumCaptures, OfdmSpectrumCaptures

\* What is persisted of an item: the stages up to the one that failed, or all three.
LEMMA ResultShapes ==
    ASSUME NEW i \in Item, NEW stages \in WorkerResults(i) \cup {SynthesizedResult}
    PROVE  \/ stages = <<StageOutcome("eligibility", "INVALID_PARAMETERS")>>
           \/ stages = <<Passed("eligibility"), StageOutcome("precheck", "UNREACHABLE")>>
           \/ \E c \in CapturesOf(svc, i, op.channels) \cup {StageOutcome("capture", "TIMEOUT")} :
                 stages = <<Passed("eligibility"), Passed("precheck"), c>>
BY DEF WorkerResults, SynthesizedResult

LEMMA ResultsTyped ==
    ASSUME TypeOK, NEW i \in Item, NEW stages \in WorkerResults(i) \cup {SynthesizedResult}
    PROVE  stages \in Seq(StageResult) \ {<<>>}
<1>1. \A stage \in Stages, status \in Statuses : StageOutcome(stage, status) \in StageResult
  BY OutcomesTyped
<1>2. \A c \in CapturesOf(svc, i, op.channels) : c \in StageResult
  BY ServiceAssumption, CapturesTyped DEF TypeOK, Operation
<1>3. \A x, y, z \in StageResult : /\ <<x>> \in Seq(StageResult) \ {<<>>}
                                   /\ <<x, y>> \in Seq(StageResult) \ {<<>>}
                                   /\ <<x, y, z>> \in Seq(StageResult) \ {<<>>}
  OBVIOUS
<1>4. {"eligibility", "precheck", "capture"} \subseteq Stages
      /\ {"SUCCESS", "INVALID_PARAMETERS", "UNREACHABLE", "TIMEOUT"} \subseteq Statuses
  BY DEF Stages, Statuses
<1>5. /\ StageOutcome("eligibility", "INVALID_PARAMETERS") \in StageResult
      /\ StageOutcome("precheck", "UNREACHABLE") \in StageResult
      /\ StageOutcome("capture", "TIMEOUT") \in StageResult
      /\ Passed("eligibility") \in StageResult /\ Passed("precheck") \in StageResult
  BY <1>1, <1>4 DEF Passed
<1>6. CASE stages = <<StageOutcome("eligibility", "INVALID_PARAMETERS")>>
  BY <1>3, <1>5, <1>6
<1>7. CASE stages = <<Passed("eligibility"), StageOutcome("precheck", "UNREACHABLE")>>
  BY <1>3, <1>5, <1>7
<1>8. ASSUME NEW c \in CapturesOf(svc, i, op.channels) \cup {StageOutcome("capture", "TIMEOUT")},
             stages = <<Passed("eligibility"), Passed("precheck"), c>>
      PROVE  stages \in Seq(StageResult) \ {<<>>}
  <2>1. c \in StageResult
    BY <1>2, <1>5
  <2>2. QED
    BY <1>3, <1>5, <1>8, <2>1
<1>9. QED
  BY <1>6, <1>7, <1>8, ResultShapes

LEMMA StartTyped ==
    ASSUME TypeOK, NEW r \in Request, StartCapture(r)
    PROVE  op' \in Operation /\ scopeStore' \in 0..active
<1> DEFINE summary == SummaryOf(r)
<1>1. /\ op' = [state |-> "running", request |-> r, expandedFrom |-> IF Given(r) THEN 0 ELSE Seen(scopeStore),
                channels |-> summary.channels, items |-> BuildWorkItems(summary.sgs, summary.macs)]
      /\ summary.accepted
      /\ scopeStore' = IF NeedsStore(r) THEN Seen(scopeStore) ELSE scopeStore
  BY DEF StartCapture
<1>2. summary.sgs \in Seq(SG) /\ summary.macs \in Seq(Modem) /\ summary.channels \in {{}, r.channels}
  BY <1>1, ServiceAssumption, SummaryFacts, ScopeTyped DEF SummaryOf, TypeOK
<1>3. r \in [sgs : Seq(SG), macs : Seq(Modem), channels : SUBSET Channel]
  BY RequestAssumption
<1>4. BuildWorkItems(summary.sgs, summary.macs) \in SUBSET Item
  BY <1>2, WorkItemsTyped
<1>5. Seen(scopeStore) \in 0..active /\ 0..active \in SUBSET (0..MaxStores)
  BY CaptureBounds DEF Seen, TypeOK
<1>6. summary.channels \in SUBSET Channel
  BY <1>2, <1>3
<1>7. \A e \in 0..MaxStores, c \in SUBSET Channel, items \in SUBSET Item :
        [state |-> "running", request |-> r, expandedFrom |-> e, channels |-> c, items |-> items] \in Operation
  BY <1>3 DEF Operation
<1>8. (IF Given(r) THEN 0 ELSE Seen(scopeStore)) \in 0..MaxStores
  BY <1>5, CaptureBounds
<1> HIDE DEF summary
<1>9. op' \in Operation
  BY <1>1, <1>4, <1>6, <1>7, <1>8, Zenon
<1>10. QED
  BY <1>1, <1>5, <1>9 DEF TypeOK

LEMMA TypeNext == TypeOK /\ [Next]_vars => TypeOK'
<1> SUFFICES ASSUME TypeOK, [Next]_vars PROVE TypeOK'
  OBVIOUS
<1> USE DEF TypeOK, inventory, kept, operation
<1>1. CASE PublishStore
  BY <1>1, CaptureBounds DEF PublishStore
<1>2. ASSUME NEW sg \in SG, NEW s \in Snapshot, Poll(sg, s) PROVE TypeOK'
  <2>1. s.modems \in [Modem -> Listing] /\ s.channels \in SUBSET Channel
    BY SnapshotAssumption
  <2>2. active \in 1..MaxStores /\ stores[active] \in Store
    BY <1>2 DEF Poll
  <2>3. [stores[active] EXCEPT !.modems[sg] = s.modems, !.channels[sg] = s.channels] \in Store
    BY <2>1, <2>2 DEF Store
  <2>4. stores' = [stores EXCEPT ![active] =
                     [stores[active] EXCEPT !.modems[sg] = s.modems, !.channels[sg] = s.channels]]
    BY <1>2, <2>2 DEF Poll, Store
  <2>5. stores' \in [1..MaxStores -> Store]
    BY <2>3, <2>4
  <2>6. QED
    BY <1>2, <2>5, CaptureBounds DEF Poll
<1>3. ASSUME NEW r \in Request, StartCapture(r) PROVE TypeOK'
  <2>1. op' \in Operation /\ scopeStore' \in 0..active
    BY <1>3, StartTyped
  <2>2. progress' \in [Item -> {"none", "queued", "found", "missing", "writing", "recorded"}]
    BY <1>3 DEF StartCapture
  <2>3. file' \in [SG -> Seq(Record)] /\ writing' = NotWriting /\ ops' \in 0..MaxOps
    BY <1>3, CaptureBounds DEF StartCapture
  <2>4. QED
    BY <1>3, <2>1, <2>2, <2>3 DEF StartCapture
<1>4. ASSUME NEW r \in Request, RefuseCapture(r) PROVE TypeOK'
  BY <1>4 DEF RefuseCapture, Seen
<1>5. ASSUME NEW i \in Item, ResolveModem(i) PROVE TypeOK'
  BY <1>5 DEF ResolveModem, Seen
<1>6. ASSUME NEW i \in Item, TakeResult(i) PROVE TypeOK'
  <2>1. PICK stages \in WorkerResults(i) \cup {SynthesizedResult} : writing' = [item |-> i, rest |-> stages]
    BY <1>6 DEF TakeResult
  <2>2. stages \in Seq(StageResult) \ {<<>>}
    BY ResultsTyped
  <2>3. writing' \in [item : Item, rest : Seq(StageResult) \ {<<>>}]
    BY <2>1, <2>2
  <2>4. QED
    BY <1>6, <2>3 DEF TakeResult
<1>7. CASE AppendRecord
  <2> DEFINE i == writing.item
  <2>1. writing \in [item : Item, rest : Seq(StageResult) \ {<<>>}]
    BY <1>7 DEF AppendRecord
  <2>2. i \in Item /\ i.sg \in SG /\ Len(writing.rest) \in Nat \ {0} /\ Head(writing.rest) \in StageResult
    BY <2>1 DEF Item
  <2>3. Stamped(i, Head(writing.rest)) \in Record
    BY <2>2 DEF Stamped, Record, StageResult, Item
  <2>4. file' \in [SG -> Seq(Record)]
    <3>1. Append(file[i.sg], Stamped(i, Head(writing.rest))) \in Seq(Record)
      BY <2>2, <2>3
    <3>2. file' = [file EXCEPT ![i.sg] = Append(file[i.sg], Stamped(i, Head(writing.rest)))]
      BY <1>7 DEF AppendRecord
    <3> HIDE DEF i
    <3>3. QED
      BY <2>2, <3>1, <3>2
  <2>5. progress' \in [Item -> {"none", "queued", "found", "missing", "writing", "recorded"}]
    <3>1. progress' = progress \/ progress' = [progress EXCEPT ![i] = "recorded"]
      BY <1>7, Zenon DEF AppendRecord
    <3> HIDE DEF i
    <3>2. QED
      BY <3>1
  <2>6. writing' = NotWriting \/ writing' \in [item : Item, rest : Seq(StageResult) \ {<<>>}]
    <3>1. CASE Len(writing.rest) = 1
      BY <1>7, <3>1, Zenon DEF AppendRecord
    <3>2. CASE Len(writing.rest) # 1
      <4>1. writing.rest \in Seq(StageResult)
        BY <2>1
      <4>2. Tail(writing.rest) \in Seq(StageResult) /\ Len(Tail(writing.rest)) # 0
        BY <2>2, <3>2, <4>1
      <4>3. writing' = [writing EXCEPT !.rest = Tail(writing.rest)]
        BY <1>7, <3>2, Zenon DEF AppendRecord
      <4>4. Tail(writing.rest) \in Seq(StageResult) \ {<<>>}
        BY <4>2, Zenon, Len(<<>>) = 0
      <4>5. \A w \in [item : Item, rest : Seq(StageResult) \ {<<>>}], t \in Seq(StageResult) \ {<<>>} :
              [w EXCEPT !.rest = t] \in [item : Item, rest : Seq(StageResult) \ {<<>>}]
        OBVIOUS
      <4>6. QED
        BY <2>1, <4>3, <4>4, <4>5
    <3>3. QED
      BY <3>1, <3>2
  <2>7. UNCHANGED <<svc, stores, active, polls, scopeStore, workerStore, op, ops>>
    BY <1>7 DEF AppendRecord
  <2>8. QED
    BY <2>4, <2>5, <2>6, <2>7
<1>8. CASE AppendRaises \/ EndOperation
  <2>1. op' \in Operation
    BY <1>8 DEF AppendRaises, EndOperation, Operation
  <2>2. QED
    BY <1>8, <2>1 DEF AppendRaises, EndOperation
<1>9. CASE UNCHANGED vars
  BY <1>9 DEF vars
<1>10. QED
  BY <1>1, <1>2, <1>3, <1>4, <1>5, <1>6, <1>7, <1>8, <1>9 DEF Next

\* The variables keep their types: what is recorded are stage results of the modems asked for, and
\* the stores that are remembered have been published.
THEOREM TypeCorrect == Spec => []TypeOK
<1> QED
  BY TypeInit, TypeNext, PTL DEF Spec

-----------------------------------------------------------------------------
(* The scope *)

\* Expanding a request's scope and pairing the lists into work items yields exactly the modems in
\* the groups that list them, for any snapshots and however many there are of both.
THEOREM WildcardsAreCovered == Spec => WildcardScope
<1>1. ASSUME TypeOK, Next, op' # op, op'.expandedFrom # 0, op'.state = "running"
      PROVE  op'.items = Covered(stores[op'.expandedFrom], op'.request.sgs, op'.request.macs)
  <2>1. CASE \E r \in Request : StartCapture(r)
    <3>1. PICK r \in Request : StartCapture(r)
      BY <2>1
    <3> DEFINE summary == SummaryOf(r)
    <3>2. /\ op' = [state |-> "running", request |-> r,
                    expandedFrom |-> IF Given(r) THEN 0 ELSE Seen(scopeStore),
                    channels |-> summary.channels, items |-> BuildWorkItems(summary.sgs, summary.macs)]
          /\ summary.accepted
      BY <3>1 DEF StartCapture
    <3> HIDE DEF summary
    <3>3. /\ ~Given(r) /\ Seen(scopeStore) # 0 /\ op'.expandedFrom = Seen(scopeStore)
          /\ op'.request = r /\ op'.items = BuildWorkItems(summary.sgs, summary.macs)
      BY <1>1, <3>2
    <3>4. Scope(r) = ResolveScope(stores[Seen(scopeStore)], r.sgs, r.macs)
      BY <3>3 DEF Scope
    <3>5. summary.sgs = Scope(r).sgs /\ summary.macs = Scope(r).macs
      BY <1>1, <3>2, ServiceAssumption, SummaryFacts DEF summary, SummaryOf, TypeOK
    <3>6. r.sgs \in Seq(SG) /\ r.macs \in Seq(Modem) /\ (r.sgs = <<>> \/ r.macs = <<>>)
      BY <3>3, RequestAssumption DEF Given
    <3>7. QED
      BY <3>3, <3>4, <3>5, <3>6, ExpansionCovers
  <2>2. CASE AppendRaises \/ EndOperation
    BY <1>1, <2>2 DEF AppendRaises, EndOperation, TypeOK, Operation
  <2>3. CASE \/ PublishStore
             \/ \E sg \in SG, s \in Snapshot : Poll(sg, s)
             \/ \E r \in Request : RefuseCapture(r)
             \/ \E i \in Item : ResolveModem(i) \/ TakeResult(i)
             \/ AppendRecord
    BY <1>1, <2>3 DEF PublishStore, Poll, RefuseCapture, ResolveModem, TakeResult, AppendRecord, operation
  <2>4. QED
    BY <1>1, <2>1, <2>2, <2>3 DEF Next
<1>2. TypeOK /\ [Next]_vars =>
        [op' # op /\ op'.expandedFrom # 0 /\ op'.state = "running" =>
           op'.items = Covered(stores[op'.expandedFrom], op'.request.sgs, op'.request.macs)]_vars
  BY <1>1
<1>3. QED
  BY <1>2, TypeInit, TypeNext, PTL DEF Spec, WildcardScope

-----------------------------------------------------------------------------
(* The inductive invariant *)

LEMMA SetOfAppend ==
    ASSUME NEW S, NEW s \in Seq(S), NEW e \in S
    PROVE  ToSet(Append(s, e)) = ToSet(s) \cup {e}
<1>1. Len(Append(s, e)) = Len(s) + 1 /\ DOMAIN Append(s, e) = 1..(Len(s) + 1) /\ DOMAIN s = 1..Len(s)
  OBVIOUS
<1>2. \A k \in 1..(Len(s) + 1) : Append(s, e)[k] = IF k <= Len(s) THEN s[k] ELSE e
  OBVIOUS
<1>3. Len(s) \in Nat
  OBVIOUS
<1>4. QED
  BY <1>1, <1>2, <1>3 DEF ToSet

LEMMA SetOfTail ==
    ASSUME NEW S, NEW s \in Seq(S), s # <<>>
    PROVE  ToSet(s) = {Head(s)} \cup ToSet(Tail(s))
<1>1. Len(s) \in Nat \ {0} /\ DOMAIN s = 1..Len(s) /\ Head(s) = s[1]
  OBVIOUS
<1>2. DOMAIN Tail(s) = 1..(Len(s) - 1) /\ \A k \in 1..(Len(s) - 1) : Tail(s)[k] = s[k + 1]
  OBVIOUS
<1>3. ASSUME NEW k \in 1..Len(s), k # 1 PROVE s[k] \in ToSet(Tail(s))
  <2>1. k - 1 \in 1..(Len(s) - 1) /\ s[k] = Tail(s)[k - 1]
    BY <1>1, <1>2, <1>3
  <2>2. QED
    BY <1>2, <2>1 DEF ToSet
<1>4. \A k \in 1..(Len(s) - 1) : Tail(s)[k] \in ToSet(s)
  BY <1>1, <1>2 DEF ToSet
<1>5. Head(s) \in ToSet(s)
  BY <1>1 DEF ToSet
<1>6. ToSet(s) \subseteq {Head(s)} \cup ToSet(Tail(s))
  BY <1>1, <1>3 DEF ToSet
<1>7. ToSet(Tail(s)) \subseteq ToSet(s)
  BY <1>2, <1>4 DEF ToSet
<1>8. QED
  BY <1>5, <1>6, <1>7

\* Nothing is pending when nothing is written.
LEMMA NothingPending == writing = NotWriting => \A i : Pending(i) = {}
BY DEF Pending, NotWriting, ToSet

LEMMA IInvInit == Init => IInv
<1> SUFFICES ASSUME Init PROVE IInv
  OBVIOUS
<1>1. TypeOK /\ \A i : Pending(i) = {}
  BY TypeInit, NothingPending DEF Init
<1>2. \A sg \in SG : file[sg] = <<>> /\ ToSet(file[sg]) = {}
  BY DEF Init, ToSet
<1>3. \A i \in Item : Written(i) = {}
  BY <1>2 DEF Written, Item
<1>4. writing = NotWriting /\ writing.rest = <<>> /\ \A i \in Item : progress[i] = "none"
  BY DEF Init, NotWriting
<1>5. QED
  BY <1>1, <1>2, <1>3, <1>4 DEF IInv, OfItems, SoundRecords, Staged, Complete

LEMMA StartKeepsIInv ==
    ASSUME IInv, TypeOK', NEW r \in Request, StartCapture(r)
    PROVE  IInv'
<1>1. writing' = NotWriting /\ writing'.rest = <<>>
  BY DEF StartCapture, NotWriting
<1>2. \A i : Pending(i)' = {}
  BY <1>1 DEF Pending, ToSet
<1>3. \A sg \in SG : file'[sg] = <<>> /\ ToSet(file'[sg]) = {}
  BY DEF StartCapture, ToSet
<1>4. \A i \in Item : Written(i)' = {}
  BY <1>3 DEF Written, Item
<1>5. \A i \in Item : progress'[i] = IF i \in op'.items THEN "queued" ELSE "none"
  BY DEF StartCapture
<1>6. OfItems'
  BY <1>1, <1>3, <1>5 DEF OfItems
<1>7. SoundRecords'
  BY <1>2, <1>3 DEF SoundRecords
<1>8. Staged'
  BY <1>1, <1>2, <1>3, <1>4 DEF Staged
<1>9. Complete'
  BY <1>1, <1>5 DEF Complete
<1>10. QED
  BY <1>6, <1>7, <1>8, <1>9 DEF IInv

\* A step that writes nothing.
LEMMA QuietKeepsIInv ==
    ASSUME IInv, TypeOK', UNCHANGED <<svc, file>>,
           UNCHANGED writing \/ writing' = NotWriting,
           op' = op \/ (op' = [op EXCEPT !.state = "ended"] /\ writing' = NotWriting),
           \A i \in Item : \/ progress'[i] = progress[i]
                           \/ progress[i] = "queued" /\ progress'[i] \in {"found", "missing"}
    PROVE  IInv'
<1>1. op'.items = op.items /\ op'.channels = op.channels
  BY DEF IInv, TypeOK, Operation
<1>2. writing # NotWriting /\ writing' # NotWriting => UNCHANGED writing /\ UNCHANGED op
  OBVIOUS
<1>3. \A i \in Item : Pending(i)' \subseteq Pending(i)
  BY NothingPending DEF Pending, NotWriting, ToSet
<1>4. \A i : Written(i)' = Written(i)
  BY DEF Written
<1>5. \A r : Sound(r)' <=> Sound(r)
  BY <1>1 DEF Sound
<1>6. OfItems'
  BY <1>1, <1>2 DEF IInv, OfItems
<1>7. SoundRecords'
  BY <1>3, <1>5 DEF IInv, SoundRecords
<1>8. Staged'
  <2>1. \A j, k \in DOMAIN writing'.rest : j < k => Rank(writing'.rest[j].stage) < Rank(writing'.rest[k].stage)
    BY DEF IInv, Staged, NotWriting
  <2>2. QED
    BY <1>3, <1>4, <2>1 DEF IInv, Staged
<1>9. Complete'
  <2>1. ASSUME NEW i \in Item, writing' # NotWriting, writing'.item = i
        PROVE  progress'[i] = "writing" /\ Continued(Written(i)' \cup Pending(i)')
    <3>1. UNCHANGED writing /\ progress[i] = "writing" /\ Continued(Written(i) \cup Pending(i))
      BY <2>1 DEF IInv, Complete
    <3>2. Pending(i)' = Pending(i)
      BY <3>1 DEF Pending
    <3>3. QED
      BY <3>1, <3>2, <1>4
  <2>2. ASSUME NEW i \in Item, progress'[i] = "recorded"
        PROVE  Continued(Written(i)')
    BY <2>2, <1>4 DEF IInv, Complete
  <2>3. QED
    BY <2>1, <2>2 DEF Complete
<1>10. QED
  BY <1>6, <1>7, <1>8, <1>9 DEF IInv

\* What a device's response becomes agrees with itself.
LEMMA OutcomeSound ==
    ASSUME NEW i \in Item, NEW r \in Response, NEW c, NEW txns, txns # <<>>,
           c \in {NoChannel, RequestedChannel(op.channels)},
           svc # "histogram" => c = RequestedChannel(op.channels),
           \A t \in ToSet(txns) : t.mac = i.mac /\ (c # NoChannel => t.channel = c)
    PROVE  Sound(Stamped(i, CaptureOutcome(r, c, txns)))
<1> DEFINE rec == Stamped(i, CaptureOutcome(r, c, txns))
<1>1. /\ rec.mac = i.mac /\ rec.stage = "capture" /\ rec.channel = c
      /\ rec.status = ResponseStatus(r) /\ rec.txns = IF r = "file" THEN txns ELSE <<>>
  BY DEF Stamped, CaptureOutcome
<1>2. ResponseStatus(r) = "SUCCESS" <=> r = "file"
  BY ResponseAssumption DEF ResponseStatus, Responses
<1>3. ToSet(<<>>) = {}
  BY DEF ToSet
<1> HIDE DEF rec
<1>4. rec.txns # <<>> <=> r = "file"
  BY <1>1
<1>5. \A t \in ToSet(rec.txns) : t.mac = rec.mac /\ (rec.channel # NoChannel => t.channel = rec.channel)
  BY <1>1, <1>3
<1>6. Sound(rec)
  BY <1>1, <1>2, <1>4, <1>5 DEF Sound, IsCapture
<1>7. QED
  BY <1>6 DEF rec

LEMMA CapturesAreSound ==
    ASSUME TypeOK, svc \in Viewed, NEW i \in Item, NEW c \in CapturesOf(svc, i, op.channels)
    PROVE  Sound(Stamped(i, c))
<1> DEFINE channels == op.channels
           x == RequestedChannel(channels)
<1>1. channels \in SUBSET Channel
  BY DEF TypeOK, Operation
<1> HIDE DEF channels
<1>2. \A d \in Answered(channels) : x # NoChannel => d = x
  BY <1>1, ChannelsTyped DEF Answered
<1>3. \A d, n : File(i, d, n).mac = i.mac /\ File(i, d, n).channel = d
  BY DEF File
<1>4. ASSUME NEW r \in Response, NEW d \in Answered(channels), svc # "histogram",
             c = CaptureOutcome(r, x, <<File(i, d, 1)>>)
      PROVE  Sound(Stamped(i, c))
  <2>1. ToSet(<<File(i, d, 1)>>) = {File(i, d, 1)} /\ <<File(i, d, 1)>> # <<>>
    BY DEF ToSet
  <2>2. QED
    BY <1>2, <1>3, <1>4, <2>1, OutcomeSound DEF channels
<1>5. ASSUME NEW r \in Response, NEW d \in Answered(channels), NEW k \in 1..2, svc # "histogram",
             c = CaptureOutcome(r, x, SubSeq(<<File(i, d, 1), File(i, d, 2)>>, 1, k))
      PROVE  Sound(Stamped(i, c))
  <2> DEFINE files == SubSeq(<<File(i, d, 1), File(i, d, 2)>>, 1, k)
  <2>1. Len(files) = k /\ \A j \in 1..k : files[j] = File(i, d, j)
    OBVIOUS
  <2>2. DOMAIN files = 1..k
    OBVIOUS
  <2> HIDE DEF files
  <2>3. files # <<>> /\ \A t \in ToSet(files) : \E j \in 1..k : t = File(i, d, j)
    BY <2>1, <2>2 DEF ToSet
  <2>4. \A t \in ToSet(files) : t.mac = i.mac /\ (x # NoChannel => t.channel = x)
    BY <1>2, <1>3, <2>3
  <2>5. Sound(Stamped(i, CaptureOutcome(r, x, files)))
    BY <2>3, <2>4, OutcomeSound DEF channels
  <2>6. QED
    BY <1>5, <2>5 DEF files
<1>6. ASSUME NEW r \in Response, svc = "histogram",
             c = CaptureOutcome(r, NoChannel, <<File(i, NoChannel, 1)>>)
      PROVE  Sound(Stamped(i, c))
  <2>1. ToSet(<<File(i, NoChannel, 1)>>) = {File(i, NoChannel, 1)} /\ <<File(i, NoChannel, 1)>> # <<>>
    BY DEF ToSet
  <2>2. QED
    BY <1>3, <1>6, <2>1, OutcomeSound
<1>7. CASE svc = "histogram"
  <2>1. c \in PlainCaptures(i)
    BY <1>7 DEF CapturesOf, HistogramCaptures
  <2>2. QED
    BY <1>6, <1>7, <2>1 DEF PlainCaptures
<1>8. CASE svc = "pre_equalization"
  <2>1. c \in PreEqCaptures(i, channels)
    BY <1>8 DEF CapturesOf, channels
  <2>2. PICK r \in Response, d \in Answered(channels), k \in 1..2 :
            c = CaptureOutcome(r, x, SubSeq(<<File(i, d, 1), File(i, d, 2)>>, 1, k))
    BY <2>1 DEF PreEqCaptures
  <2>3. QED
    BY <1>5, <1>8, <2>2
<1>9. CASE svc \notin {"histogram", "pre_equalization"}
  <2>1. c \in ChannelCaptures(i, channels)
    BY <1>9 DEF Viewed, CapturesOf, RxMerCaptures, ConstDisplayCaptures, FecSummaryCaptures,
                ChannelEstCaptures, ModProfileCaptures, channels
  <2>2. PICK r \in Response, d \in Answered(channels) : c = CaptureOutcome(r, x, <<File(i, d, 1)>>)
    BY <2>1 DEF ChannelCaptures
  <2>3. QED
    BY <1>4, <1>9, <2>2
<1>10. QED
  BY <1>7, <1>8, <1>9

\* The results of one item: stage after stage, the failed one or the capture last.
LEMMA ResultsInOrder ==
    ASSUME TypeOK, NEW i \in Item, NEW stages \in WorkerResults(i) \cup {SynthesizedResult}
    PROVE  /\ \A j, k \in DOMAIN stages : j < k => Rank(stages[j].stage) < Rank(stages[k].stage)
           /\ Continued({Stamped(i, s) : s \in ToSet(stages)})
           /\ svc \in Viewed => \A s \in ToSet(stages) : Sound(Stamped(i, s))
<1>1. /\ Rank("eligibility") = 1 /\ Rank("precheck") = 2 /\ Rank("capture") = 3
      /\ \A stage, status : /\ StageOutcome(stage, status).stage = stage
                            /\ StageOutcome(stage, status).status = status
      /\ \A s : Stamped(i, s).stage = s.stage /\ Stamped(i, s).status = s.status
  BY DEF Rank, StageOutcome, Stamped
<1>2. \A stage, status : stage # "capture" \/ status # "SUCCESS" =>
        Sound(Stamped(i, StageOutcome(stage, status)))
  BY DEF StageOutcome, Stamped, Sound, IsCapture, ToSet
<1>3. CASE stages = <<StageOutcome("eligibility", "INVALID_PARAMETERS")>>
  <2>1. ToSet(stages) = {StageOutcome("eligibility", "INVALID_PARAMETERS")} /\ DOMAIN stages = 1..1
    BY <1>3 DEF ToSet
  <2>2. Continued({Stamped(i, s) : s \in ToSet(stages)})
    BY <1>1, <2>1 DEF Continued
  <2>3. QED
    BY <1>2, <2>1, <2>2
<1>4. CASE stages = <<Passed("eligibility"), StageOutcome("precheck", "UNREACHABLE")>>
  <2>1. /\ ToSet(stages) = {Passed("eligibility"), StageOutcome("precheck", "UNREACHABLE")}
        /\ DOMAIN stages = 1..2
        /\ stages[1] = Passed("eligibility") /\ stages[2] = StageOutcome("precheck", "UNREACHABLE")
    BY <1>4 DEF ToSet
  <2>2. Continued({Stamped(i, s) : s \in ToSet(stages)})
    BY <1>1, <2>1 DEF Continued, Passed
  <2>3. \A j, k \in DOMAIN stages : j < k => Rank(stages[j].stage) < Rank(stages[k].stage)
    BY <1>1, <2>1 DEF Passed
  <2>4. QED
    BY <1>2, <2>1, <2>2, <2>3 DEF Passed
<1>5. ASSUME NEW c \in CapturesOf(svc, i, op.channels) \cup {StageOutcome("capture", "TIMEOUT")},
             stages = <<Passed("eligibility"), Passed("precheck"), c>>
      PROVE  /\ \A j, k \in DOMAIN stages : j < k => Rank(stages[j].stage) < Rank(stages[k].stage)
             /\ Continued({Stamped(i, s) : s \in ToSet(stages)})
             /\ svc \in Viewed => \A s \in ToSet(stages) : Sound(Stamped(i, s))
  <2>1. /\ ToSet(stages) = {Passed("eligibility"), Passed("precheck"), c}
        /\ DOMAIN stages = 1..3
        /\ stages[1] = Passed("eligibility") /\ stages[2] = Passed("precheck") /\ stages[3] = c
    BY <1>5 DEF ToSet
  <2>2. c.stage = "capture"
    <3>1. svc \in Services /\ op.channels \in SUBSET Channel
      BY ServiceAssumption DEF TypeOK, Operation
    <3>2. \A d \in CapturesOf(svc, i, op.channels) : d.stage = "capture"
      BY <3>1, CapturesTyped
    <3>3. QED
      BY <1>1, <3>2
  <2>3. Continued({Stamped(i, s) : s \in ToSet(stages)})
    BY <1>1, <2>1, <2>2 DEF Continued, Passed, IsCapture
  <2>4. \A j, k \in DOMAIN stages : j < k => Rank(stages[j].stage) < Rank(stages[k].stage)
    BY <1>1, <2>1, <2>2 DEF Passed
  <2>5. svc \in Viewed => Sound(Stamped(i, c))
    BY <1>2, CapturesAreSound
  <2>6. QED
    BY <1>2, <2>1, <2>3, <2>4, <2>5 DEF Passed
<1>6. QED
  BY <1>3, <1>4, <1>5, ResultShapes

LEMMA TakeKeepsIInv ==
    ASSUME IInv, TypeOK', NEW i \in Item, TakeResult(i)
    PROVE  IInv'
<1>1. PICK stages \in WorkerResults(i) \cup {SynthesizedResult} : writing' = [item |-> i, rest |-> stages]
  BY DEF TakeResult
<1>2. stages \in Seq(StageResult) \ {<<>>} /\ writing'.item = i /\ writing'.rest = stages
  BY <1>1, ResultsTyped DEF IInv
<1>3. /\ writing = NotWriting /\ op.state = "running" /\ progress[i] \in {"queued", "found", "missing"}
      /\ progress' = [progress EXCEPT ![i] = "writing"]
      /\ UNCHANGED <<svc, op, file>>
  BY DEF TakeResult, Running, inventory, kept
<1>4. \A j \in Item : progress'[j] = IF j = i THEN "writing" ELSE progress[j]
  BY <1>3 DEF IInv, TypeOK
<1>5. \A j \in Item : Pending(j)' = IF j = i THEN {Stamped(i, s) : s \in ToSet(stages)} ELSE {}
  BY <1>2 DEF Pending
<1>6. \A j : Written(j)' = Written(j)
  BY <1>3 DEF Written
<1>7. \A r : Sound(r)' <=> Sound(r)
  BY <1>3 DEF Sound
<1>8. Written(i) = {}
  BY <1>3 DEF IInv, Staged
<1>9. OfItems'
  BY <1>2, <1>3, <1>4 DEF IInv, OfItems
<1>10. SoundRecords'
  <2>1. svc \in Viewed => \A s \in ToSet(stages) : Sound(Stamped(i, s))
    BY ResultsInOrder DEF IInv
  <2>2. QED
    BY <1>3, <1>5, <1>7, <2>1 DEF IInv, SoundRecords
<1>11. Staged'
  <2>1. \A j, k \in DOMAIN writing'.rest : j < k => Rank(writing'.rest[j].stage) < Rank(writing'.rest[k].stage)
    BY <1>2, ResultsInOrder DEF IInv
  <2>2. \A j \in Item : \A r \in Written(j)', p \in Pending(j)' : Rank(r.stage) < Rank(p.stage)
    BY <1>5, <1>6, <1>8
  <2>3. \A j \in Item : progress'[j] \in {"none", "queued", "found", "missing"} => Written(j)' = {}
    BY <1>4, <1>6 DEF IInv, Staged
  <2>4. QED
    BY <1>3, <2>1, <2>2, <2>3 DEF IInv, Staged
<1>12. Complete'
  <2>1. Continued({Stamped(i, s) : s \in ToSet(stages)})
    BY ResultsInOrder DEF IInv
  <2>2. Continued(Written(i)' \cup Pending(i)')
    BY <1>5, <1>6, <1>8, <2>1
  <2>3. \A j \in Item : progress'[j] = "recorded" => Continued(Written(j)')
    BY <1>4, <1>6 DEF IInv, Complete
  <2>4. QED
    BY <1>2, <1>4, <2>2, <2>3 DEF Complete
<1>13. QED
  BY <1>9, <1>10, <1>11, <1>12 DEF IInv

\* What an append moves: one record from what is pending to what is written.
LEMMA AppendMoves ==
    ASSUME IInv, AppendRecord
    PROVE  LET i == writing.item
               rec == Stamped(i, Head(writing.rest))
           IN  /\ i \in Item /\ rec.mac = i.mac /\ rec.sg = i.sg /\ rec \in Record
               /\ writing.rest \in Seq(StageResult) \ {<<>>}
               /\ file' = [file EXCEPT ![i.sg] = Append(file[i.sg], rec)]
               /\ Len(writing.rest) = 1 => writing' = NotWriting /\ progress' = [progress EXCEPT ![i] = "recorded"]
               /\ Len(writing.rest) # 1 => writing' = [item |-> i, rest |-> Tail(writing.rest)]
                                           /\ UNCHANGED progress
               /\ UNCHANGED <<svc, op>>
<1> DEFINE i == writing.item
           rec == Stamped(i, Head(writing.rest))
<1>1. writing \in [item : Item, rest : Seq(StageResult) \ {<<>>}]
  BY DEF IInv, TypeOK, AppendRecord
<1>2. i \in Item /\ Head(writing.rest) \in StageResult
  BY <1>1
<1>3. rec \in Record /\ rec.mac = i.mac /\ rec.sg = i.sg
  BY <1>2 DEF Stamped, Record, StageResult, Item
<1>4. file' = [file EXCEPT ![i.sg] = Append(file[i.sg], rec)]
  BY DEF AppendRecord
<1>5. Len(writing.rest) = 1 => writing' = NotWriting /\ progress' = [progress EXCEPT ![i] = "recorded"]
  BY DEF AppendRecord
<1>6. Len(writing.rest) # 1 => writing' = [item |-> i, rest |-> Tail(writing.rest)] /\ UNCHANGED progress
  <2>1. Len(writing.rest) # 1 => writing' = [writing EXCEPT !.rest = Tail(writing.rest)] /\ UNCHANGED progress
    BY DEF AppendRecord
  <2>2. \A t : \A w \in [item : Item, rest : Seq(StageResult) \ {<<>>}] :
            [w EXCEPT !.rest = t] = [item |-> w.item, rest |-> t]
    OBVIOUS
  <2>3. QED
    BY <1>1, <2>1, <2>2
<1>7. UNCHANGED <<svc, op>>
  BY DEF AppendRecord, inventory, kept
<1> HIDE DEF i, rec
<1>8. QED
  BY <1>1, <1>2, <1>3, <1>4, <1>5, <1>6, <1>7 DEF i, rec

LEMMA AppendKeepsIInv ==
    ASSUME IInv, TypeOK', AppendRecord
    PROVE  IInv'
<1> DEFINE rest == writing.rest
<1>1. PICK i \in Item : i = writing.item
  BY AppendMoves
<1>2. PICK rec \in Record : rec = Stamped(i, Head(rest))
  BY <1>1, AppendMoves
<1>3. /\ rec.mac = i.mac /\ rec.sg = i.sg /\ rec.stage = Head(rest).stage
      /\ rest \in Seq(StageResult) \ {<<>>} /\ UNCHANGED <<svc, op>>
      /\ file' = [file EXCEPT ![i.sg] = Append(file[i.sg], rec)]
  BY <1>1, <1>2, AppendMoves DEF Stamped
<1>4. writing # NotWriting /\ i.sg \in SG /\ file \in [SG -> Seq(Record)]
  BY <1>1 DEF AppendRecord, IInv, TypeOK, Item
<1>5. Len(rest) \in Nat \ {0} /\ DOMAIN rest = 1..Len(rest) /\ Head(rest) = rest[1]
  BY <1>3
<1>6. /\ Len(rest) = 1 => writing' = NotWriting /\ progress' = [progress EXCEPT ![i] = "recorded"]
      /\ Len(rest) # 1 => writing' = [item |-> i, rest |-> Tail(rest)] /\ UNCHANGED progress
  BY <1>1, AppendMoves
<1> HIDE DEF rest
<1>7. /\ progress[i] = "writing" /\ Continued(Written(i) \cup Pending(i))
      /\ i \in op.items /\ op.state = "running"
  BY <1>1, <1>4 DEF IInv, Complete, OfItems
<1>8. \A j \in Item : progress'[j] = IF j = i /\ Len(rest) = 1 THEN "recorded" ELSE progress[j]
  BY <1>6 DEF IInv, TypeOK
<1>9. writing'.rest = Tail(rest)
  <2>1. Len(rest) = 1 => Tail(rest) = <<>>
    <3>1. \A t \in Seq(StageResult) : Len(t) = 1 => Len(Tail(t)) = 0 /\ Tail(t) \in Seq(StageResult)
      OBVIOUS
    <3>2. QED
      BY <1>3, <3>1, EmptySeq
  <2>2. CASE Len(rest) = 1
    <3>1. NotWriting.rest = <<>>
      BY DEF NotWriting
    <3>2. QED
      BY <1>6, <2>1, <2>2, <3>1, Zenon
  <2>3. CASE Len(rest) # 1
    BY <1>6, <2>3
  <2>4. QED
    BY <2>2, <2>3
<1>10. /\ DOMAIN Tail(rest) = 1..(Len(rest) - 1)
       /\ \A k \in 1..(Len(rest) - 1) : Tail(rest)[k] = rest[k + 1]
  BY <1>3
<1>11. /\ Pending(i) = {rec} \cup Pending(i)'
       /\ \A p \in Pending(i)' : Rank(rec.stage) < Rank(p.stage)
       /\ \A j \in Item : j # i => Pending(j) = {} /\ Pending(j)' = {}
  <2>1. ToSet(rest) = {Head(rest)} \cup ToSet(Tail(rest))
    BY <1>3, SetOfTail
  <2>2. Pending(i)' = {Stamped(i, s) : s \in ToSet(Tail(rest))}
    <3>1. CASE Len(rest) = 1
      <4>1. ToSet(Tail(rest)) = {}
        BY <1>10, <3>1 DEF ToSet
      <4>2. Pending(i)' = {}
        BY <1>6, <3>1 DEF Pending, NotWriting, ToSet
      <4>3. QED
        BY <4>1, <4>2
    <3>2. CASE Len(rest) # 1
      <4>1. writing'.item = i /\ writing'.rest = Tail(rest)
        BY <1>6, <1>9, <3>2
      <4>2. QED
        BY <4>1 DEF Pending
    <3>3. QED
      BY <3>1, <3>2
  <2>3. Pending(i) = {Stamped(i, s) : s \in ToSet(rest)}
    BY <1>1 DEF Pending, rest
  <2>4. ASSUME NEW p \in Pending(i)' PROVE Rank(rec.stage) < Rank(p.stage)
    <3>1. PICK k \in 1..(Len(rest) - 1) : p = Stamped(i, rest[k + 1])
      BY <1>10, <2>2 DEF ToSet
    <3>2. k + 1 \in DOMAIN rest /\ 1 \in DOMAIN rest /\ 1 < k + 1
      BY <1>5
    <3>3. Rank(rest[1].stage) < Rank(rest[k + 1].stage)
      BY <3>2 DEF IInv, Staged, rest
    <3>4. p.stage = rest[k + 1].stage
      BY <3>1 DEF Stamped
    <3>5. QED
      BY <1>3, <1>5, <3>3, <3>4
  <2>5. \A j \in Item : j # i => Pending(j) = {} /\ Pending(j)' = {}
    BY <1>1, <1>6 DEF Pending, NotWriting, ToSet
  <2>6. QED
    BY <1>2, <2>1, <2>2, <2>3, <2>4, <2>5
<1>12. \A sg \in SG : ToSet(file'[sg]) = IF sg = i.sg THEN ToSet(file[sg]) \cup {rec} ELSE ToSet(file[sg])
  <2>1. file[i.sg] \in Seq(Record)
    BY <1>4
  <2>2. ToSet(Append(file[i.sg], rec)) = ToSet(file[i.sg]) \cup {rec}
    BY <2>1, SetOfAppend
  <2>3. \A sg \in SG : file'[sg] = IF sg = i.sg THEN Append(file[i.sg], rec) ELSE file[sg]
    BY <1>3, <1>4
  <2>4. QED
    BY <2>2, <2>3
<1>13. /\ Written(i)' = Written(i) \cup {rec}
       /\ \A j \in Item : j # i => Written(j)' = Written(j)
  <2>1. \A j \in Item : j.sg \in SG /\ (j.sg = i.sg /\ j.mac = i.mac => j = i)
    BY DEF Item
  <2>2. QED
    <3>1. ASSUME NEW j \in Item
          PROVE  Written(j)' = {r \in ToSet(file'[j.sg]) : r.mac = j.mac}
      BY DEF Written
    <3>2. Written(i)' = Written(i) \cup {rec}
      BY <1>3, <1>4, <1>12, <3>1 DEF Written
    <3>3. ASSUME NEW j \in Item, j # i PROVE Written(j)' = Written(j)
      <4>1. j.sg \in SG /\ (j.sg = i.sg => rec.mac # j.mac)
        BY <1>3, <2>1, <3>3
      <4>2. QED
        BY <1>12, <3>1, <4>1 DEF Written
    <3>4. QED
      BY <3>2, <3>3
<1>14. \A r : Sound(r)' <=> Sound(r)
  BY <1>3 DEF Sound
<1>15. OfItems'
  <2>1. i = [mac |-> i.mac, sg |-> i.sg]
    BY DEF Item
  <2>2. \A sg \in SG : \A r \in ToSet(file'[sg]) : r.sg = sg /\ [mac |-> r.mac, sg |-> sg] \in op'.items
    <3>1. \A sg \in SG : \A r \in ToSet(file[sg]) : r.sg = sg /\ [mac |-> r.mac, sg |-> sg] \in op.items
      BY DEF IInv, OfItems
    <3>2. rec.sg = i.sg /\ [mac |-> rec.mac, sg |-> i.sg] \in op.items /\ op' = op
      BY <1>3, <1>7, <2>1
    <3>3. \A sg \in SG : \A r \in ToSet(file'[sg]) : r \in ToSet(file[sg]) \/ (sg = i.sg /\ r = rec)
      BY <1>12
    <3>4. QED
      BY <3>1, <3>2, <3>3, Zenon
  <2>3. writing' # NotWriting => writing'.item \in op'.items /\ op'.state = "running"
    BY <1>3, <1>6, <1>7
  <2>4. \A j \in Item : progress'[j] # "none" => j \in op'.items
    BY <1>3, <1>7, <1>8 DEF IInv, OfItems
  <2>5. QED
    BY <2>2, <2>3, <2>4 DEF OfItems
<1>16. SoundRecords'
  <2>1. svc' = svc /\ (svc \in Viewed => Sound(rec))
    BY <1>3, <1>11 DEF IInv, SoundRecords
  <2>2. \A j \in Item : Pending(j)' \subseteq Pending(j)
    BY <1>11
  <2>3. svc \in Viewed => \A sg \in SG : \A r \in ToSet(file'[sg]) : Sound(r)'
    BY <1>12, <1>14, <2>1 DEF IInv, SoundRecords
  <2>4. svc \in Viewed => \A j \in Item : \A r \in Pending(j)' : Sound(r)'
    BY <1>14, <2>2 DEF IInv, SoundRecords
  <2>5. QED
    BY <2>1, <2>3, <2>4 DEF SoundRecords
<1>17. Staged'
  <2>1. ASSUME NEW sg \in SG, NEW j \in DOMAIN file'[sg], NEW k \in DOMAIN file'[sg],
               j < k, file'[sg][j].mac = file'[sg][k].mac
        PROVE  Rank(file'[sg][j].stage) < Rank(file'[sg][k].stage)
    <3>1. CASE sg # i.sg
      BY <1>3, <1>4, <2>1, <3>1 DEF IInv, Staged
    <3>2. CASE sg = i.sg
      <4> DEFINE f == file[sg]
      <4>1. f \in Seq(Record) /\ file'[sg] = Append(f, rec)
        BY <1>3, <1>4, <3>2
      <4>2. Len(f) \in Nat /\ DOMAIN f = 1..Len(f) /\ DOMAIN file'[sg] = 1..(Len(f) + 1)
        BY <4>1
      <4>3. /\ \A l \in 1..Len(f) : file'[sg][l] = f[l]
            /\ file'[sg][Len(f) + 1] = rec
        BY <4>1
      <4>4. CASE k <= Len(f)
        <5>1. j \in DOMAIN f /\ k \in DOMAIN f /\ file'[sg][j] = f[j] /\ file'[sg][k] = f[k]
          BY <2>1, <4>2, <4>3, <4>4
        <5>2. QED
          BY <2>1, <5>1 DEF IInv, Staged
      <4>5. CASE k = Len(f) + 1
        <5>1. j \in DOMAIN f /\ file'[sg][j] = f[j] /\ file'[sg][k] = rec
          BY <2>1, <4>2, <4>3, <4>5
        <5>2. f[j] \in Written(i)
          BY <1>3, <2>1, <3>2, <5>1 DEF Written, ToSet
        <5>3. rec \in Pending(i)
          BY <1>11
        <5>4. QED
          BY <5>1, <5>2, <5>3 DEF IInv, Staged
      <4>6. QED
        BY <4>2, <4>4, <4>5
    <3>3. QED
      BY <3>1, <3>2
  <2>2. ASSUME NEW j \in DOMAIN writing'.rest, NEW k \in DOMAIN writing'.rest, j < k
        PROVE  Rank(writing'.rest[j].stage) < Rank(writing'.rest[k].stage)
    <3>1. /\ j \in 1..(Len(rest) - 1) /\ k \in 1..(Len(rest) - 1)
          /\ writing'.rest[j] = rest[j + 1] /\ writing'.rest[k] = rest[k + 1]
      BY <1>9, <1>10, <2>2
    <3>2. j + 1 \in DOMAIN rest /\ k + 1 \in DOMAIN rest /\ j + 1 < k + 1
      BY <1>5, <2>2, <3>1
    <3>3. QED
      BY <3>1, <3>2 DEF IInv, Staged, rest
  <2>3. \A j \in Item : \A r \in Written(j)', p \in Pending(j)' : Rank(r.stage) < Rank(p.stage)
    BY <1>11, <1>13 DEF IInv, Staged
  <2>4. \A j \in Item : progress'[j] \in {"none", "queued", "found", "missing"} => Written(j)' = {}
    BY <1>7, <1>8, <1>13 DEF IInv, Staged
  <2>5. QED
    BY <2>1, <2>2, <2>3, <2>4 DEF Staged
<1>18. Complete'
  <2>1. Written(i)' \cup Pending(i)' = Written(i) \cup Pending(i)
    BY <1>11, <1>13
  <2>2. ASSUME NEW j \in Item, progress'[j] = "recorded" PROVE Continued(Written(j)')
    <3>1. CASE j = i
      <4>1. Len(rest) = 1
        BY <1>7, <1>8, <2>2, <3>1
      <4>2. Pending(i)' = {}
        BY <1>6, <4>1 DEF Pending, NotWriting, ToSet
      <4>3. QED
        BY <1>7, <2>1, <3>1, <4>2
    <3>2. CASE j # i
      BY <1>8, <1>13, <2>2, <3>2 DEF IInv, Complete
    <3>3. QED
      BY <3>1, <3>2
  <2>3. ASSUME NEW j \in Item, writing' # NotWriting, writing'.item = j
        PROVE  progress'[j] = "writing" /\ Continued(Written(j)' \cup Pending(j)')
    <3>1. Len(rest) # 1 /\ j = i
      BY <1>6, <2>3
    <3>2. QED
      BY <1>7, <1>8, <2>1, <3>1
  <2>4. QED
    BY <2>2, <2>3 DEF Complete
<1>19. QED
  BY <1>15, <1>16, <1>17, <1>18 DEF IInv

LEMMA IInvNext == IInv /\ [Next]_vars => IInv'
<1> SUFFICES ASSUME IInv, [Next]_vars PROVE IInv'
  OBVIOUS
<1>1. TypeOK'
  BY TypeNext DEF IInv
<1> USE DEF inventory, kept, operation
<1>2. CASE PublishStore
  BY <1>1, <1>2, QuietKeepsIInv DEF PublishStore
<1>3. ASSUME NEW sg \in SG, NEW s \in Snapshot, Poll(sg, s) PROVE IInv'
  BY <1>1, <1>3, QuietKeepsIInv DEF Poll
<1>4. ASSUME NEW r \in Request, StartCapture(r) PROVE IInv'
  BY <1>1, <1>4, StartKeepsIInv
<1>5. ASSUME NEW r \in Request, RefuseCapture(r) PROVE IInv'
  BY <1>1, <1>5, QuietKeepsIInv DEF RefuseCapture
<1>6. ASSUME NEW i \in Item, ResolveModem(i) PROVE IInv'
  <2>1. \A j \in Item : \/ progress'[j] = progress[j]
                        \/ progress[j] = "queued" /\ progress'[j] \in {"found", "missing"}
    BY <1>6 DEF ResolveModem, IInv, TypeOK
  <2>2. QED
    BY <1>1, <1>6, <2>1, QuietKeepsIInv DEF ResolveModem
<1>7. ASSUME NEW i \in Item, TakeResult(i) PROVE IInv'
  BY <1>1, <1>7, TakeKeepsIInv
<1>8. CASE AppendRecord
  BY <1>1, <1>8, AppendKeepsIInv
<1>9. CASE AppendRaises
  BY <1>1, <1>9, QuietKeepsIInv DEF AppendRaises
<1>10. CASE EndOperation
  BY <1>1, <1>10, QuietKeepsIInv DEF EndOperation
<1>11. CASE UNCHANGED vars
  BY <1>1, <1>11, QuietKeepsIInv DEF vars
<1>12. QED
  BY <1>2, <1>3, <1>4, <1>5, <1>6, <1>7, <1>8, <1>9, <1>10, <1>11 DEF Next

\* The results files hold, of each work item and of nothing else, records of later and later stages
\* that agree with themselves; an item that is recorded ends with the stage that failed or the
\* capture.
THEOREM Invariant == Spec => []IInv
<1> QED
  BY IInvInit, IInvNext, PTL DEF Spec

-----------------------------------------------------------------------------
(* The order of what is listed *)

\* A finite set has an element that none of the others follows, in any order R.
LEMMA LastOfFinite ==
    ASSUME NEW S, IsFiniteSet(S), S # {}, NEW R,
           \A x \in S : <<x, x>> \notin R,
           \A x, y, z \in S : <<x, y>> \in R /\ <<y, z>> \in R => <<x, z>> \in R
    PROVE  \E x \in S : \A y \in S : <<x, y>> \notin R
<1> DEFINE After(x) == {y \in S : <<x, y>> \in R}
           N == {Cardinality(After(x)) : x \in S}
<1>1. ASSUME NEW x \in S PROVE IsFiniteSet(After(x)) /\ Cardinality(After(x)) \in Nat
  <2>1. After(x) \in SUBSET S
    OBVIOUS
  <2> HIDE DEF After
  <2>2. QED
    BY <2>1, FS_Subset, FS_CardinalityType
<1>2. PICK x \in S : \A y \in S : Cardinality(After(x)) <= Cardinality(After(y))
  <2> HIDE DEF After
  <2>1. N \in SUBSET Nat /\ N # {}
    BY <1>1
  <2>2. \A y \in S : Cardinality(After(y)) \in N
    OBVIOUS
  <2>3. PICK m \in N : \A k \in N : m <= k
    <3> HIDE DEF N
    <3>1. QED
      BY <2>1, LeastNumber
  <2>4. PICK y \in S : m = Cardinality(After(y))
    OBVIOUS
  <2> HIDE DEF N
  <2>5. QED
    BY <2>2, <2>3, <2>4
<1>3. ASSUME NEW y \in S, <<x, y>> \in R PROVE FALSE
  <2>1. After(y) \in SUBSET After(x) /\ After(y) # After(x)
    BY <1>3
  <2> HIDE DEF After
  <2>2. Cardinality(After(y)) <= Cardinality(After(x)) /\ Cardinality(After(y)) # Cardinality(After(x))
    BY <1>1, <2>1, FS_Subset
  <2>3. Cardinality(After(x)) <= Cardinality(After(y))
    BY <1>2
  <2>4. QED
    BY <1>1, <2>2, <2>3
<1>4. QED
  BY <1>3

\* Places of one length are totally ordered.
LEMMA PlacesOrdered ==
    ASSUME NEW n \in Nat
    PROVE  /\ \A p \in [1..n -> Nat] : ~Before(p, p)
           /\ \A p, q, r \in [1..n -> Nat] : Before(p, q) /\ Before(q, r) => Before(p, r)
           /\ \A p, q \in [1..n -> Nat] : p # q => Before(p, q) \/ Before(q, p)
<1>1. ASSUME NEW p \in [1..n -> Nat] PROVE ~Before(p, p)
  BY DEF Before
<1>2. ASSUME NEW p \in [1..n -> Nat], NEW q \in [1..n -> Nat], NEW r \in [1..n -> Nat],
             Before(p, q), Before(q, r)
      PROVE  Before(p, r)
  <2>1. PICK i \in 1..n : p[i] < q[i] /\ \A k \in 1..(i - 1) : p[k] = q[k]
    BY <1>2 DEF Before
  <2>2. PICK j \in 1..n : q[j] < r[j] /\ \A k \in 1..(j - 1) : q[k] = r[k]
    BY <1>2 DEF Before
  <2>3. CASE i <= j
    <3>1. p[i] < r[i]
      BY <2>1, <2>2, <2>3
    <3>2. \A k \in 1..(i - 1) : p[k] = r[k]
      BY <2>1, <2>2, <2>3
    <3>3. QED
      BY <3>1, <3>2 DEF Before
  <2>4. CASE j < i
    <3>1. p[j] < r[j]
      BY <2>1, <2>2, <2>4
    <3>2. \A k \in 1..(j - 1) : p[k] = r[k]
      BY <2>1, <2>2, <2>4
    <3>3. QED
      BY <3>1, <3>2 DEF Before
  <2>5. QED
    BY <2>3, <2>4
<1>3. ASSUME NEW p \in [1..n -> Nat], NEW q \in [1..n -> Nat], p # q
      PROVE  Before(p, q) \/ Before(q, p)
  <2> DEFINE D == {k \in 1..n : p[k] # q[k]}
  <2>1. D \in SUBSET Nat /\ D # {}
    BY <1>3
  <2>2. PICK i \in D : \A k \in D : i <= k
    <3> HIDE DEF D
    <3>1. QED
      BY <2>1, LeastNumber
  <2>3. \A k \in 1..(i - 1) : p[k] = q[k]
    BY <2>2
  <2>4. p[i] < q[i] \/ q[i] < p[i]
    BY <2>2
  <2>5. QED
    BY <2>2, <2>3, <2>4 DEF Before
<1>4. QED
  BY <1>1, <1>2, <1>3

\* What is listed at distinct places has a first element.
LEMMA FirstIsListed ==
    ASSUME NEW L, IsFiniteSet(L), L # {}, NEW n \in Nat,
           \A x \in L : x.at \in [1..n -> Nat],
           \A x, y \in L : x.at = y.at => x = y
    PROVE  First(L) \in Listed(L)
<1> DEFINE R == {p \in L \X L : Before(p[2].at, p[1].at)}
<1>1. \A x \in L : <<x, x>> \notin R
  BY PlacesOrdered
<1>2. \A x, y, z \in L : <<x, y>> \in R /\ <<y, z>> \in R => <<x, z>> \in R
  BY PlacesOrdered
<1>3. \A x, y \in L : <<x, y>> \in R <=> Before(y.at, x.at)
  OBVIOUS
<1> HIDE DEF R
<1>4. PICK x \in L : \A y \in L : <<x, y>> \notin R
  BY <1>1, <1>2, LastOfFinite
<1>5. \A y \in L \ {x} : Before(x.at, y.at)
  BY <1>3, <1>4, PlacesOrdered
<1>6. (CHOOSE z \in L : \A y \in L \ {z} : Before(z.at, y.at)) \in L
  BY <1>5
<1>7. QED
  BY <1>6 DEF First, Listed

\* The final record is one of the latest stage that was recorded.
LEMMA FinalIsLast ==
    ASSUME NEW L, IsFiniteSet(L), L # {}, NEW n \in Nat,
           \A x \in L : x.at \in [1..n -> Nat] /\ x.is.stage \in Stages,
           \A x, y \in L : x.at = y.at => x = y
    PROVE  /\ FinalRecord(L) \in Listed(L)
           /\ \A r \in Listed(L) : Rank(r.stage) <= Rank(FinalRecord(L).stage)
<1> DEFINE Later(x, y) == Rank(x.is.stage) < Rank(y.is.stage)
                            \/ (x.is.stage = y.is.stage /\ Before(x.at, y.at))
           R == {p \in L \X L : Later(p[1], p[2])}
<1>1. \A s, t \in Stages : Rank(s) \in 1..3 /\ (Rank(s) = Rank(t) => s = t)
  BY DEF Stages, Rank
<1>2. \A x \in L : ~Later(x, x)
  <2> TAKE x \in L
  <2>1. Rank(x.is.stage) \in 1..3 /\ ~Before(x.at, x.at)
    BY <1>1, PlacesOrdered
  <2>2. QED
    BY <2>1
<1>3. \A x, y, z \in L : Later(x, y) /\ Later(y, z) => Later(x, z)
  <2> TAKE x, y, z \in L
  <2>1. /\ Rank(x.is.stage) \in 1..3 /\ Rank(y.is.stage) \in 1..3 /\ Rank(z.is.stage) \in 1..3
        /\ Before(x.at, y.at) /\ Before(y.at, z.at) => Before(x.at, z.at)
    BY <1>1, PlacesOrdered
  <2>2. QED
    BY <2>1
<1>4. \A x, y \in L : x # y => Later(x, y) \/ Later(y, x)
  <2> TAKE x, y \in L
  <2>1. /\ Rank(x.is.stage) \in 1..3 /\ Rank(y.is.stage) \in 1..3
        /\ Rank(x.is.stage) = Rank(y.is.stage) => x.is.stage = y.is.stage
        /\ x # y => Before(x.at, y.at) \/ Before(y.at, x.at)
    BY <1>1, PlacesOrdered
  <2>2. QED
    BY <2>1
<1>5. \A x, y \in L : <<x, y>> \in R <=> Later(x, y)
  OBVIOUS
<1> HIDE DEF R, Later
<1>6. PICK x \in L : \A y \in L : <<x, y>> \notin R
  <2>1. /\ \A x \in L : <<x, x>> \notin R
        /\ \A x, y, z \in L : <<x, y>> \in R /\ <<y, z>> \in R => <<x, z>> \in R
    BY <1>2, <1>3, <1>5
  <2>2. QED
    BY <2>1, LastOfFinite
<1>7. \A y \in L \ {x} : Later(y, x)
  BY <1>4, <1>5, <1>6
<1> DEFINE z == CHOOSE z \in L : \A y \in L \ {z} : Later(y, z)
<1>8. z \in L /\ \A y \in L \ {z} : Later(y, z)
  BY <1>7
<1>9. FinalRecord(L) = z.is
  BY DEF FinalRecord, Later
<1> HIDE DEF z
<1>10. ASSUME NEW y \in L PROVE Rank(y.is.stage) <= Rank(z.is.stage)
  <2>1. Rank(y.is.stage) \in 1..3 /\ Rank(z.is.stage) \in 1..3
    BY <1>1, <1>8
  <2>2. y = z \/ Later(y, z)
    BY <1>8
  <2>3. QED
    BY <2>1, <2>2 DEF Later
<1>11. QED
  BY <1>8, <1>9, <1>10 DEF Listed

\* Finitely many lists have finitely many rows.
LEMMA RowsFinite ==
    ASSUME NEW I, IsFiniteSet(I), NEW len \in [I -> Nat]
    PROVE  IsFiniteSet({p \in I \X (Nat \ {0}) : p[2] <= len[p[1]]})
<1> DEFINE rows == {p \in I \X (Nat \ {0}) : p[2] <= len[p[1]]}
           R == {p \in I \X I : len[p[1]] < len[p[2]]}
<1>1. CASE I = {}
  <2>1. rows = {}
    BY <1>1
  <2>2. QED
    BY <2>1, FS_EmptySet
<1>2. CASE I # {}
  <2>1. /\ \A x \in I : <<x, x>> \notin R
        /\ \A x, y, z \in I : <<x, y>> \in R /\ <<y, z>> \in R => <<x, z>> \in R
        /\ \A x, y \in I : <<x, y>> \notin R => len[y] <= len[x]
    OBVIOUS
  <2> HIDE DEF R
  <2>2. PICK x \in I : \A y \in I : len[y] <= len[x]
    <3>1. PICK x \in I : \A y \in I : <<x, y>> \notin R
      BY <1>2, <2>1, LastOfFinite
    <3>2. QED
      BY <2>1, <3>1
  <2>3. IsFiniteSet(1..len[x]) /\ len[x] \in Nat
    BY FS_Interval
  <2>4. IsFiniteSet(I \X (1..len[x]))
    BY <2>3, FS_Product
  <2>5. rows \in SUBSET (I \X (1..len[x]))
    <3>1. \A p \in rows : p \in I \X (Nat \ {0}) /\ p[2] <= len[x]
      BY <2>2, <2>3
    <3> HIDE DEF rows
    <3>2. QED
      BY <2>3, <3>1
  <2>6. QED
    BY <2>4, <2>5, FS_Subset
<1>3. QED
  BY <1>1, <1>2

-----------------------------------------------------------------------------
(* The records of an operation *)

\* The records are listed at distinct places; each is of a work item, and agrees with itself.
LEMMA RecordFacts ==
    ASSUME IInv
    PROVE  /\ \A x \in Records :
                /\ x.at \in [1..2 -> Nat] /\ x.is \in Record
                /\ [mac |-> x.is.mac, sg |-> x.is.sg] \in op.items
                /\ x.is \in Written([mac |-> x.is.mac, sg |-> x.is.sg])
                /\ svc \in Viewed => Sound(x.is)
           /\ \A x, y \in Records : x.at = y.at => x = y
           /\ \A x, y \in Records :
                x # y /\ x.is.mac = y.is.mac /\ x.is.sg = y.is.sg => Rank(x.is.stage) # Rank(y.is.stage)
           /\ \A i \in Item : \A r \in Written(i) : \E x \in Records : x.is = r /\ r.mac = i.mac
<1>1. \A x : x \in Records <=> \E sg \in SG : \E k \in DOMAIN file[sg] :
                                  x = [at |-> <<NameOrder[sg], k>>, is |-> file[sg][k]]
  BY DEF Records, AllRecords
<1>2. file \in [SG -> Seq(Record)]
  BY DEF IInv, TypeOK
<1>3. \A sg \in SG : NameOrder[sg] \in Nat /\ \A t \in SG : NameOrder[sg] = NameOrder[t] => sg = t
  BY OrderAssumption
<1>4. ASSUME NEW x \in Records
      PROVE  \E sg \in SG : \E k \in DOMAIN file[sg] :
                /\ x.at = <<NameOrder[sg], k>> /\ x.is = file[sg][k] /\ k \in Nat
                /\ x.is \in Record /\ x.is \in ToSet(file[sg]) /\ x.is.sg = sg
                /\ x = [at |-> <<NameOrder[sg], k>>, is |-> file[sg][k]]
  <2>1a. PICK sg \in SG : \E k \in DOMAIN file[sg] : x = [at |-> <<NameOrder[sg], k>>, is |-> file[sg][k]]
    BY <1>1
  <2>1. PICK k \in DOMAIN file[sg] : x = [at |-> <<NameOrder[sg], k>>, is |-> file[sg][k]]
    BY <2>1a
  <2>2. file[sg] \in Seq(Record)
    BY <1>2
  <2>3. k \in Nat /\ file[sg][k] \in Record /\ file[sg][k] \in ToSet(file[sg])
    BY <2>2 DEF ToSet
  <2>4. file[sg][k].sg = sg
    BY <2>3 DEF IInv, OfItems
  <2>5. QED
    BY <2>1, <2>3, <2>4
<1>5. ASSUME NEW x \in Records
      PROVE  /\ x.at \in [1..2 -> Nat] /\ x.is \in Record
             /\ [mac |-> x.is.mac, sg |-> x.is.sg] \in op.items
             /\ x.is \in Written([mac |-> x.is.mac, sg |-> x.is.sg])
             /\ svc \in Viewed => Sound(x.is)
  <2>1a. PICK sg \in SG : \E k \in DOMAIN file[sg] :
            /\ x.at = <<NameOrder[sg], k>> /\ k \in Nat
            /\ x.is \in Record /\ x.is \in ToSet(file[sg]) /\ x.is.sg = sg
    BY <1>4
  <2>1. PICK k \in DOMAIN file[sg] :
            /\ x.at = <<NameOrder[sg], k>> /\ k \in Nat
            /\ x.is \in Record /\ x.is \in ToSet(file[sg]) /\ x.is.sg = sg
    BY <2>1a
  <2>2. x.at \in [1..2 -> Nat]
    BY <1>3, <2>1
  <2>3. [mac |-> x.is.mac, sg |-> x.is.sg] \in op.items
    BY <2>1 DEF IInv, OfItems
  <2>4. x.is \in Written([mac |-> x.is.mac, sg |-> x.is.sg])
    BY <2>1 DEF Written
  <2>5. svc \in Viewed => Sound(x.is)
    BY <2>1 DEF IInv, SoundRecords
  <2>6. QED
    BY <2>1, <2>2, <2>3, <2>4, <2>5
<1>6. ASSUME NEW x \in Records, NEW y \in Records
      PROVE  /\ x.at = y.at => x = y
             /\ x # y /\ x.is.mac = y.is.mac /\ x.is.sg = y.is.sg => Rank(x.is.stage) # Rank(y.is.stage)
  <2>1a. PICK sg \in SG : \E k \in DOMAIN file[sg] :
            /\ x.at = <<NameOrder[sg], k>> /\ x.is = file[sg][k] /\ k \in Nat /\ x.is.sg = sg
            /\ x = [at |-> <<NameOrder[sg], k>>, is |-> file[sg][k]] /\ x.is \in Record
    BY <1>4
  <2>1. PICK k \in DOMAIN file[sg] :
            /\ x.at = <<NameOrder[sg], k>> /\ x.is = file[sg][k] /\ k \in Nat /\ x.is.sg = sg
            /\ x = [at |-> <<NameOrder[sg], k>>, is |-> file[sg][k]] /\ x.is \in Record
    BY <2>1a
  <2>2a. PICK t \in SG : \E l \in DOMAIN file[t] :
            /\ y.at = <<NameOrder[t], l>> /\ y.is = file[t][l] /\ l \in Nat /\ y.is.sg = t
            /\ y = [at |-> <<NameOrder[t], l>>, is |-> file[t][l]] /\ y.is \in Record
    BY <1>4
  <2>2. PICK l \in DOMAIN file[t] :
            /\ y.at = <<NameOrder[t], l>> /\ y.is = file[t][l] /\ l \in Nat /\ y.is.sg = t
            /\ y = [at |-> <<NameOrder[t], l>>, is |-> file[t][l]] /\ y.is \in Record
    BY <2>2a
  <2>3. x.at = y.at => sg = t /\ k = l
    BY <1>3, <2>1, <2>2
  <2>4. ASSUME x # y, x.is.mac = y.is.mac, x.is.sg = y.is.sg
        PROVE  Rank(x.is.stage) # Rank(y.is.stage)
    <3>1. sg = t /\ k # l
      BY <2>1, <2>2, <2>4
    <3>2. Rank(x.is.stage) < Rank(y.is.stage) \/ Rank(y.is.stage) < Rank(x.is.stage)
      BY <2>1, <2>2, <2>4, <3>1 DEF IInv, Staged
    <3>3. Rank(x.is.stage) \in Nat /\ Rank(y.is.stage) \in Nat
      BY <2>1, <2>2 DEF Record, Stages, Rank
    <3>4. QED
      BY <3>2, <3>3
  <2>5. QED
    BY <2>1, <2>2, <2>3, <2>4
<1>7. ASSUME NEW i \in Item, NEW r \in Written(i)
      PROVE  \E x \in Records : x.is = r /\ r.mac = i.mac
  <2>1. i.sg \in SG /\ r \in ToSet(file[i.sg]) /\ r.mac = i.mac
    BY DEF Written, Item
  <2>2. PICK k \in DOMAIN file[i.sg] : r = file[i.sg][k]
    BY <2>1 DEF ToSet
  <2>3. [at |-> <<NameOrder[i.sg], k>>, is |-> file[i.sg][k]] \in Records
    BY <1>1, <2>1
  <2>4. QED
    BY <2>1, <2>2, <2>3
<1>8. QED
  BY <1>5, <1>6, <1>7

LEMMA RecordsFinite ==
    ASSUME TypeOK
    PROVE  IsFiniteSet(Records)
<1> DEFINE len == [sg \in SG |-> Len(file[sg])]
           rows == {p \in SG \X (Nat \ {0}) : p[2] <= len[p[1]]}
           f == [p \in rows |-> [at |-> <<NameOrder[p[1]], p[2]>>, is |-> file[p[1]][p[2]]]]
<1>1. file \in [SG -> Seq(Record)] /\ len \in [SG -> Nat]
  BY DEF TypeOK
<1>2. \A sg \in SG : DOMAIN file[sg] = 1..len[sg]
  BY <1>1
<1> HIDE DEF len
<1>3. IsFiniteSet(rows)
  BY <1>1, ScopeAssumption, RowsFinite
<1>4. \A p : p \in rows <=> p \in SG \X (Nat \ {0}) /\ p[2] <= len[p[1]]
  OBVIOUS
<1>5. ASSUME NEW x \in Records PROVE \E p \in rows : f[p] = x
  <2>1a. PICK sg \in SG : \E k \in DOMAIN file[sg] : x = [at |-> <<NameOrder[sg], k>>, is |-> file[sg][k]]
    BY DEF Records, AllRecords
  <2>1. PICK k \in DOMAIN file[sg] : x = [at |-> <<NameOrder[sg], k>>, is |-> file[sg][k]]
    BY <2>1a
  <2>2. <<sg, k>> \in rows
    BY <1>1, <1>2, <1>4
  <2> HIDE DEF rows
  <2>3. f[<<sg, k>>] = x
    BY <2>1, <2>2
  <2>4. QED
    BY <2>2, <2>3
<1>6. ASSUME NEW p \in rows PROVE f[p] \in Records
  <2>1. p[1] \in SG /\ p[2] \in DOMAIN file[p[1]]
    BY <1>1, <1>2, <1>4
  <2>2. f[p] = [at |-> <<NameOrder[p[1]], p[2]>>, is |-> file[p[1]][p[2]]]
    OBVIOUS
  <2> HIDE DEF rows, f
  <2>3. QED
    BY <2>1, <2>2 DEF Records, AllRecords
<1>7. f \in Surjection(rows, Records)
  <2>1. DOMAIN f = rows /\ f = [p \in rows |-> f[p]]
    OBVIOUS
  <2> HIDE DEF rows, f
  <2>2. f \in [rows -> Records]
    BY <1>6, <2>1
  <2>3. QED
    BY <1>5, <2>2 DEF Surjection
<1>8. QED
  BY <1>3, <1>7, FS_Surjection

-----------------------------------------------------------------------------
(* What is shown of a modem *)

\* A modem's entry: one service hides the channel.
Shown(rs, decoded, lost) ==
    IF svc = "histogram" THEN HistogramModem(rs, decoded, lost) ELSE ModemEntry(rs, decoded, lost)

\* The records that a request for results selects, and a modem's among them.
Chosen(sel) == {x \in Records : IsSelected(svc, x.is, sel)}
RowsOf(rows, m) == {x \in rows : x.is.mac = m}

\* The view has an entry for each modem with a record that is selected.
LEMMA ViewShown ==
    ASSUME svc \in Viewed, NEW selected, NEW decoded, NEW lost
    PROVE  ViewOf(svc, selected, decoded, lost) =
             {Shown(RowsOf(selected, x.is.mac), decoded, lost) : x \in selected}
<1>1. ViewOf(svc, selected, decoded, lost) = {Shown(rs, decoded, lost) : rs \in ByModem(selected)}
  <2>1. CASE svc = "histogram"
    BY <2>1 DEF ViewOf, Shown, HistogramView
  <2>2. CASE svc # "histogram"
    BY <2>2 DEF Viewed, ViewOf, Shown, RxMerView, RxMerModem, ConstDisplayView, ConstDisplayModem,
                FecSummaryView, FecSummaryModem, ChannelEstView, ChannelEstModem, ModProfileView,
                ModProfileModem, PreEqView, PreEqModem
  <2>3. QED
    BY <2>1, <2>2
<1>2. \A rs : rs \in ByModem(selected) <=> \E x \in selected : rs = RowsOf(selected, x.is.mac)
  BY DEF ByModem, Listed, RowsOf
<1>3. \A e : e \in ViewOf(svc, selected, decoded, lost)
              <=> \E rs \in ByModem(selected) : e = Shown(rs, decoded, lost)
  BY <1>1
<1>4. QED
  BY <1>2, <1>3

\* What is decoded depends on whether an analysis is asked for.
LEMMA ViewsOf ==
    ASSUME NEW sel, NEW lost
    PROVE  /\ View(sel, FALSE, lost) = ViewOf(svc, Chosen(sel), {}, lost)
           /\ View(sel, TRUE, lost) = ViewOf(svc, Chosen(sel), DecodedBy(Chosen(sel)), lost)
BY DEF View, Results, Chosen

\* Without a filter every record is selected.
LEMMA EverythingSelected == svc \in Viewed => Chosen(Everything) = Records
<1>1. svc \in Viewed => \A r : IsSelected(svc, r, Everything)
  BY DEF Viewed, IsSelected, Everything, RxMerSelected, ConstDisplaySelected, FecSummarySelected,
         ChannelEstSelected, ModProfileSelected, PreEqSelected, HistogramSelected, Selected, SelectedModem
<1>2. QED
  BY <1>1 DEF Chosen

LEMMA ShownFields ==
    ASSUME NEW rs, NEW decoded, NEW lost
    PROVE  LET e == Shown(rs, decoded, lost)
               ok == FinalRecord(rs).status = "SUCCESS"
               analysed == Analysed(ok, TransactionsOf(rs), decoded)
           IN  /\ e.mac = First(rs).mac /\ e.sg = First(rs).sg /\ e.ok = ok
               /\ e.txns = Listed(TransactionsOf(rs))
               /\ e.analysed = analysed /\ e.file = FileLink(TransactionsOf(rs), analysed)
               /\ svc # "histogram" =>
                    e.channel = IF ChannelOf(rs) = NoChannel /\ analysed \notin lost
                                THEN analysed.channel ELSE ChannelOf(rs)
<1> DEFINE ok == FinalRecord(rs).status = "SUCCESS"
           txns == TransactionsOf(rs)
           analysed == Analysed(ok, txns, decoded)
           channel == IF ChannelOf(rs) = NoChannel /\ analysed \notin lost
                      THEN analysed.channel ELSE ChannelOf(rs)
<1>1. ModemEntry(rs, decoded, lost) =
        [mac |-> First(rs).mac, sg |-> First(rs).sg, ok |-> ok, codes |-> StageCodes(rs),
         txns |-> Listed(txns), analysed |-> analysed, file |-> FileLink(txns, analysed),
         channel |-> channel]
  BY DEF ModemEntry
<1>2. Shown(rs, decoded, lost) =
        [mac |-> First(rs).mac, sg |-> First(rs).sg, ok |-> ok, codes |-> StageCodes(rs),
         txns |-> Listed(txns), analysed |-> analysed, file |-> FileLink(txns, analysed),
         channel |-> IF svc = "histogram" THEN NoChannel ELSE channel]
  BY <1>1 DEF Shown, HistogramModem
<1> HIDE DEF ok, txns, analysed, channel
<1>3. LET e == Shown(rs, decoded, lost)
      IN  /\ e.mac = First(rs).mac /\ e.sg = First(rs).sg /\ e.ok = ok /\ e.txns = Listed(txns)
          /\ e.analysed = analysed /\ e.file = FileLink(txns, analysed)
          /\ svc # "histogram" => e.channel = channel
  BY <1>2
<1>4. QED
  BY <1>3 DEF ok, txns, analysed, channel

\* Without an analysis an entry is made of six things read from the records.
PlainOf(mac, sg, ok, codes, txns, channel) ==
    [mac |-> mac, sg |-> sg, ok |-> ok, codes |-> codes, txns |-> Listed(txns),
     analysed |-> NoTransaction, file |-> FileLink(txns, NoTransaction),
     channel |-> IF svc = "histogram" THEN NoChannel ELSE channel]

LEMMA PlainShown ==
    ASSUME NEW rs
    PROVE  Shown(rs, {}, {}) = PlainOf(First(rs).mac, First(rs).sg, FinalRecord(rs).status = "SUCCESS",
                                       StageCodes(rs), TransactionsOf(rs), ChannelOf(rs))
<1> DEFINE ok == FinalRecord(rs).status = "SUCCESS"
           txns == TransactionsOf(rs)
<1>1. Analysed(ok, txns, {}) = NoTransaction
  BY DEF Analysed
<1>2. NoTransaction.channel = NoChannel
  BY DEF NoTransaction
<1>3. (IF ChannelOf(rs) = NoChannel /\ NoTransaction \notin {} THEN NoTransaction.channel
       ELSE ChannelOf(rs)) = ChannelOf(rs)
  BY <1>2
<1>4. ModemEntry(rs, {}, {}) =
        [mac |-> First(rs).mac, sg |-> First(rs).sg, ok |-> ok, codes |-> StageCodes(rs),
         txns |-> Listed(txns), analysed |-> NoTransaction, file |-> FileLink(txns, NoTransaction),
         channel |-> ChannelOf(rs)]
  <2> HIDE DEF ok, txns
  <2>1. ModemEntry(rs, {}, {}) =
          [mac |-> First(rs).mac, sg |-> First(rs).sg, ok |-> ok, codes |-> StageCodes(rs),
           txns |-> Listed(txns), analysed |-> Analysed(ok, txns, {}),
           file |-> FileLink(txns, Analysed(ok, txns, {})),
           channel |-> IF ChannelOf(rs) = NoChannel /\ Analysed(ok, txns, {}) \notin {}
                       THEN Analysed(ok, txns, {}).channel ELSE ChannelOf(rs)]
    BY DEF ModemEntry, ok, txns
  <2>2. QED
    BY <1>1, <1>3, <2>1
<1> HIDE DEF ok, txns
<1>5. Shown(rs, {}, {}) = PlainOf(First(rs).mac, First(rs).sg, ok, StageCodes(rs), txns, ChannelOf(rs))
  BY <1>4 DEF Shown, HistogramModem, PlainOf
<1>6. QED
  BY <1>5 DEF ok, txns

\* The first and the final record of a modem are among its records.
LEMMA RecordsOfModem ==
    ASSUME IInv, svc \in Viewed, NEW rs \in SUBSET Records, rs # {}, NEW m, \A x \in rs : x.is.mac = m
    PROVE  /\ First(rs) \in Listed(rs) /\ First(rs).mac = m
           /\ FinalRecord(rs) \in Listed(rs) /\ FinalRecord(rs) \in Record
           /\ \A x \in rs : Rank(x.is.stage) <= Rank(FinalRecord(rs).stage)
<1>1. IsFiniteSet(rs)
  BY RecordsFinite, FS_Subset DEF IInv
<1>2. /\ \A x \in rs : x.at \in [1..2 -> Nat] /\ x.is \in Record
      /\ \A x, y \in rs : x.at = y.at => x = y
  BY RecordFacts
<1>3. \A x \in rs : x.is.stage \in Stages
  BY <1>2 DEF Record
<1>4. First(rs) \in Listed(rs)
  BY <1>1, <1>2, FirstIsListed, 2 \in Nat
<1>5. FinalRecord(rs) \in Listed(rs) /\ \A r \in Listed(rs) : Rank(r.stage) <= Rank(FinalRecord(rs).stage)
  BY <1>1, <1>2, <1>3, FinalIsLast, 2 \in Nat
<1>6. QED
  BY <1>2, <1>4, <1>5 DEF Listed

\* The transactions of a modem are those of its captures that succeeded.
LEMMA TransactionsOfModem ==
    ASSUME IInv, svc \in Viewed, NEW rs \in SUBSET Records, NEW m, \A x \in rs : x.is.mac = m
    PROVE  /\ \A t \in Listed(TransactionsOf(rs)) :
                /\ t \in Transaction /\ t.mac = m
                /\ \E x \in rs : IsCapture(x.is) /\ t \in ToSet(x.is.txns)
           /\ \A x \in rs : IsCapture(x.is) => \A t \in ToSet(x.is.txns) : t \in Listed(TransactionsOf(rs))
<1> DEFINE captures == {x \in rs : IsCapture(x.is)}
           source == IF captures # {} THEN captures ELSE rs
<1>1. \A t : t \in Listed(TransactionsOf(rs)) <=> \E x \in source : \E k \in DOMAIN x.is.txns : t = x.is.txns[k]
  <2> DEFINE T(x) == {[at |-> Append(x.at, k), is |-> x.is.txns[k]] : k \in DOMAIN x.is.txns}
  <2>1. TransactionsOf(rs) = UNION {T(x) : x \in source}
    BY DEF TransactionsOf
  <2>2. ASSUME NEW t, t \in Listed(TransactionsOf(rs))
        PROVE  \E x \in source : \E k \in DOMAIN x.is.txns : t = x.is.txns[k]
    <3>1. PICK y \in TransactionsOf(rs) : t = y.is
      BY <2>2 DEF Listed
    <3> HIDE DEF source
    <3>2. PICK x \in source : y \in T(x)
      BY <2>1, <3>1
    <3>3. QED
      BY <3>1, <3>2
  <2>3. ASSUME NEW x \in source, NEW k \in DOMAIN x.is.txns
        PROVE  x.is.txns[k] \in Listed(TransactionsOf(rs))
    <3>1. [at |-> Append(x.at, k), is |-> x.is.txns[k]] \in T(x)
      OBVIOUS
    <3> HIDE DEF T, source
    <3>2. [at |-> Append(x.at, k), is |-> x.is.txns[k]] \in TransactionsOf(rs)
      BY <2>1, <3>1
    <3>3. QED
      BY <3>2 DEF Listed
  <2>4. QED
    BY <2>2, <2>3
<1>2. \A x \in rs : x.is \in Record /\ Sound(x.is)
  BY RecordFacts
<1>3. ASSUME NEW t \in Listed(TransactionsOf(rs))
      PROVE  /\ t \in Transaction /\ t.mac = m
             /\ \E x \in rs : IsCapture(x.is) /\ t \in ToSet(x.is.txns)
  <2>1. PICK x \in source : \E k \in DOMAIN x.is.txns : t = x.is.txns[k]
    BY <1>1
  <2>2. x \in rs /\ x.is.txns \in Seq(Transaction) /\ t \in ToSet(x.is.txns)
    BY <1>2, <2>1 DEF Record, ToSet
  <2>3. x.is.txns # <<>> /\ t \in Transaction
    BY <2>2 DEF ToSet
  <2>4. IsCapture(x.is) /\ t.mac = m
    BY <1>2, <2>2, <2>3 DEF Sound
  <2>5. QED
    BY <2>2, <2>3, <2>4
<1>4. ASSUME NEW x \in rs, IsCapture(x.is), NEW t \in ToSet(x.is.txns)
      PROVE  t \in Listed(TransactionsOf(rs))
  <2>1. x \in source /\ \E k \in DOMAIN x.is.txns : t = x.is.txns[k]
    BY <1>4 DEF ToSet
  <2>2. QED
    BY <1>1, <2>1
<1>5. QED
  BY <1>3, <1>4

\* Without a filter, an entry is made of all the records of its modem.
LEMMA UnfilteredEntry ==
    ASSUME IInv, svc \in Viewed, NEW decoded, NEW lost,
           NEW e \in ViewOf(svc, Chosen(Everything), decoded, lost)
    PROVE  /\ RowsOf(Records, e.mac) \in SUBSET Records /\ RowsOf(Records, e.mac) # {}
           /\ e = Shown(RowsOf(Records, e.mac), decoded, lost)
<1>1. PICK x \in Records : e = Shown(RowsOf(Records, x.is.mac), decoded, lost)
  BY EverythingSelected, ViewShown
<1> DEFINE m == x.is.mac
           rs == RowsOf(Records, m)
<1>2. rs \in SUBSET Records /\ rs # {} /\ \A y \in rs : y.is.mac = m
  BY DEF RowsOf
<1>3. e.mac = First(rs).mac
  BY <1>1, ShownFields
<1> HIDE DEF rs, m
<1>4. First(rs).mac = m
  BY <1>2, RecordsOfModem
<1>5. QED
  BY <1>1, <1>2, <1>3, <1>4 DEF rs, m

LEMMA SettledNow ==
    ASSUME IInv
    PROVE  SettledVerdict
<1> SUFFICES ASSUME svc \in Viewed, NEW e \in View(Everything, FALSE, {}),
                    \A i \in ItemsOf(e.mac) : progress[i] = "recorded"
             PROVE  LET captures == {r \in Listed(Records) : r.mac = e.mac /\ IsCapture(r)}
                    IN  /\ e.ok => e.txns # {}
                        /\ \A t \in e.txns : t.mac = e.mac /\ \E r \in captures : t \in ToSet(r.txns)
                        /\ captures # {} /\ (\A r \in captures : r.status = "SUCCESS") => e.ok
  BY DEF SettledVerdict
<1> DEFINE m == e.mac
           rs == RowsOf(Records, m)
           captures == {r \in Listed(Records) : r.mac = m /\ IsCapture(r)}
           final == FinalRecord(rs)
<1>0. rs \in SUBSET Records /\ rs # {} /\ e = Shown(rs, {}, {})
  <2>1. e \in ViewOf(svc, Chosen(Everything), {}, {})
    BY ViewsOf
  <2>2. QED
    BY <2>1, UnfilteredEntry
<1>1. rs \in SUBSET Records /\ rs # {} /\ \A x \in rs : x.is.mac = m
  BY <1>0 DEF RowsOf
<1>2. /\ e.ok <=> final.status = "SUCCESS"
      /\ e.txns = Listed(TransactionsOf(rs))
  <2> HIDE DEF rs
  <2>1. Shown(rs, {}, {}).ok = (FinalRecord(rs).status = "SUCCESS")
    BY ShownFields, Zenon
  <2>2. e.txns = Listed(TransactionsOf(rs))
    BY <1>0, ShownFields
  <2>3. QED
    BY <1>0, <2>1, <2>2
<1>3. \A x \in Records : x.is.mac = m => x \in rs
  BY DEF RowsOf
<1>4. \A r : r \in captures <=> \E x \in rs : r = x.is /\ IsCapture(r)
  BY <1>1, <1>3 DEF Listed
<1> HIDE DEF m, rs, captures
<1>5. PICK f \in rs : final = f.is
  BY <1>1, RecordsOfModem DEF Listed
<1>6. \A x \in rs : Rank(x.is.stage) <= Rank(f.is.stage)
  BY <1>1, <1>5, RecordsOfModem
<1> HIDE DEF final
<1>7. \A x \in rs : x.is \in Record /\ Sound(x.is)
  BY <1>1, RecordFacts
<1>8. \A s \in Stages : Rank(s) \in 1..3 /\ (Rank(s) >= 3 <=> s = "capture")
  BY DEF Stages, Rank
<1>9. ASSUME e.ok PROVE e.txns # {}
  <2> DEFINE i == [mac |-> m, sg |-> f.is.sg]
  <2>1. f.is.status = "SUCCESS" /\ i \in op.items /\ f.is \in Written(i) /\ f.is.mac = m
    BY <1>1, <1>2, <1>5, <1>9, RecordFacts
  <2>2. i \in Item /\ i \in ItemsOf(m)
    BY <2>1 DEF ItemsOf, IInv, TypeOK, Operation
  <2>3. progress[i] = "recorded"
    BY <2>2 DEF m
  <2> HIDE DEF i
  <2>4. Continued(Written(i))
    BY <2>2, <2>3 DEF IInv, Complete
  <2>5. IsCapture(f.is)
    <3>1. SUFFICES ASSUME ~IsCapture(f.is) PROVE FALSE
      OBVIOUS
    <3>2. PICK q \in Written(i) : Rank(f.is.stage) < Rank(q.stage)
      BY <2>1, <2>4, <3>1 DEF Continued
    <3>3. PICK x \in Records : x.is = q /\ q.mac = m
      BY <2>2, RecordFacts DEF i
    <3>4. x \in rs
      BY <1>3, <3>3
    <3>5. Rank(q.stage) <= Rank(f.is.stage) /\ q.stage \in Stages /\ f.is.stage \in Stages
      BY <1>6, <1>7, <3>3, <3>4 DEF Record
    <3>6. QED
      BY <1>8, <3>2, <3>5
  <2>6. f.is.txns # <<>> /\ f.is.txns \in Seq(Transaction)
    BY <1>7, <2>1, <2>5 DEF Sound, Record
  <2>7. f.is.txns[1] \in ToSet(f.is.txns)
    BY <2>6 DEF ToSet
  <2>8. QED
    BY <1>1, <1>2, <2>5, <2>7, TransactionsOfModem
<1>10. ASSUME NEW t \in e.txns PROVE t.mac = m /\ \E r \in captures : t \in ToSet(r.txns)
  BY <1>1, <1>2, <1>4, TransactionsOfModem
<1>11. ASSUME captures # {}, \A r \in captures : r.status = "SUCCESS" PROVE e.ok
  <2>1. PICK x \in rs : IsCapture(x.is)
    BY <1>4, <1>11
  <2>2. Rank(x.is.stage) = 3 /\ f.is.stage \in Stages
    BY <1>7, <1>8, <2>1 DEF IsCapture, Record
  <2>3. IsCapture(f.is)
    BY <1>6, <1>8, <2>2 DEF IsCapture
  <2>4. QED
    BY <1>2, <1>4, <1>5, <1>11, <2>3
<1>12. QED
  BY <1>9, <1>10, <1>11 DEF m, captures

\* Once a modem's items are recorded, what is shown of it is true: success only with a file, its
\* own files, and success when each of its captures succeeded.
THEOREM VerdictsAreTrue == Spec => []SettledVerdict
<1>1. IInv => SettledVerdict
  BY SettledNow
<1>2. QED
  BY <1>1, Invariant, PTL

\* An entry without an analysis, by its fields.
LEMMA PlainEntry ==
    ASSUME IInv, svc \in Viewed, NEW sel, NEW e \in View(sel, FALSE, {})
    PROVE  \E rs \in SUBSET Records :
             /\ rs = RowsOf(Chosen(sel), e.mac) /\ rs # {} /\ e = Shown(rs, {}, {})
             /\ e.sg = First(rs).sg /\ e.ok = (FinalRecord(rs).status = "SUCCESS")
             /\ e.txns = Listed(TransactionsOf(rs))
<1>0. e \in ViewOf(svc, Chosen(sel), {}, {})
  BY ViewsOf
<1>1. PICK x \in Chosen(sel) : e = Shown(RowsOf(Chosen(sel), x.is.mac), {}, {})
  BY <1>0, ViewShown
<1> DEFINE m == x.is.mac
           rs == RowsOf(Chosen(sel), m)
<1>2. e = Shown(rs, {}, {})
  BY <1>1
<1>3. rs \in SUBSET Records /\ x \in rs /\ \A y \in rs : y.is.mac = m
  BY DEF RowsOf, Chosen
<1> HIDE DEF m
<1>4. rs = RowsOf(Chosen(sel), m)
  OBVIOUS
<1> HIDE DEF rs
<1>5. e.mac = First(rs).mac /\ e.sg = First(rs).sg /\ e.txns = Listed(TransactionsOf(rs))
  BY <1>2, ShownFields
<1>6. e.ok = (FinalRecord(rs).status = "SUCCESS")
  <2>1. Shown(rs, {}, {}).ok = (FinalRecord(rs).status = "SUCCESS")
    BY ShownFields, Zenon
  <2>2. QED
    BY <1>2, <2>1
<1>7. e.mac = m
  BY <1>3, <1>5, RecordsOfModem
<1>8. QED
  BY <1>2, <1>3, <1>4, <1>5, <1>6, <1>7

\* The records of a modem with one item are of one group, and one of them at most is a capture.
LEMMA SingleItem ==
    ASSUME IInv, NEW m, Cardinality(ItemsOf(m)) = 1
    PROVE  \A x, y \in RowsOf(Records, m) :
              x.is.sg = y.is.sg /\ (IsCapture(x.is) /\ IsCapture(y.is) => x = y)
<1>1. ItemsOf(m) \in SUBSET Item
  BY DEF ItemsOf, IInv, TypeOK, Operation
<1>2. PICK i \in Item : ItemsOf(m) = {i}
  BY <1>1, ItemsFinite, FS_Subset, FS_Singleton
<1>3. ASSUME NEW x \in RowsOf(Records, m) PROVE x \in Records /\ x.is.mac = m /\ x.is.sg = i.sg
  <2>1. x \in Records /\ x.is.mac = m /\ [mac |-> x.is.mac, sg |-> x.is.sg] \in op.items
    BY RecordFacts DEF RowsOf
  <2>2. [mac |-> x.is.mac, sg |-> x.is.sg] = i
    BY <1>2, <2>1 DEF ItemsOf
  <2>3. QED
    BY <2>1, <2>2
<1>4. ASSUME NEW x \in RowsOf(Records, m), NEW y \in RowsOf(Records, m), IsCapture(x.is), IsCapture(y.is)
      PROVE  x = y
  BY <1>3, <1>4, RecordFacts DEF IsCapture
<1>5. QED
  BY <1>3, <1>4

\* How the services filter: by groups and modems, and all but two of them by channels.
LEMMA Filters ==
    ASSUME svc \in Viewed
    PROVE  /\ \A g, m, r : IsSelected(svc, r, [sgs |-> {g}, channels |-> {}, macs |-> {m}])
                             <=> r.sg = g /\ r.mac = m
           /\ \A c, r : IsSelected(svc, r, [Everything EXCEPT !.channels = {c}])
                          <=> svc \in IgnoresChannels \/ r.channel = c
<1>1. ASSUME NEW r, NEW sel
      PROVE  IsSelected(svc, r, sel) = IF svc = "rxmer" \/ svc = "histogram"
                                       THEN SelectedModem(r, sel) ELSE Selected(r, sel)
  BY DEF Viewed, IsSelected, RxMerSelected, ConstDisplaySelected, FecSummarySelected,
         ChannelEstSelected, ModProfileSelected, PreEqSelected, HistogramSelected
<1> DEFINE OfOne(g, m) == [sgs |-> {g}, channels |-> {}, macs |-> {m}]
           OfChannel(c) == [Everything EXCEPT !.channels = {c}]
<1>2. \A g, m, r : /\ SelectedModem(r, OfOne(g, m)) <=> r.sg = g /\ r.mac = m
                   /\ Selected(r, OfOne(g, m)) <=> r.sg = g /\ r.mac = m
  BY DEF SelectedModem, Selected
<1>3. \A c, r : /\ SelectedModem(r, OfChannel(c))
                /\ Selected(r, OfChannel(c)) <=> r.channel = c
  BY DEF SelectedModem, Selected, Everything
<1> HIDE DEF OfOne, OfChannel
<1>4. CASE svc = "rxmer" \/ svc = "histogram"
  <2>1. \A r, sel : IsSelected(svc, r, sel) = SelectedModem(r, sel)
    BY <1>1, <1>4, Zenon
  <2>2. /\ \A g, m, r : IsSelected(svc, r, OfOne(g, m)) <=> r.sg = g /\ r.mac = m
        /\ \A c, r : IsSelected(svc, r, OfChannel(c))
    BY <1>2, <1>3, <2>1
  <2>3. QED
    BY <1>4, <2>2 DEF OfOne, OfChannel, IgnoresChannels
<1>5. CASE ~(svc = "rxmer" \/ svc = "histogram")
  <2>1. \A r, sel : IsSelected(svc, r, sel) = Selected(r, sel)
    BY <1>1, <1>5, Zenon
  <2>2. /\ \A g, m, r : IsSelected(svc, r, OfOne(g, m)) <=> r.sg = g /\ r.mac = m
        /\ \A c, r : IsSelected(svc, r, OfChannel(c)) <=> r.channel = c
    BY <1>2, <1>3, <2>1
  <2>3. QED
    BY <1>5, <2>2 DEF OfOne, OfChannel, IgnoresChannels
<1>6. QED
  BY <1>4, <1>5

\* The codes of a single capture record are those of its modem, but for the stages before.
LEMMA CodesOfCapture ==
    ASSUME NEW rs, NEW y, IsCapture(y.is), {x \in rs : IsCapture(x.is)} = {y}
    PROVE  StageCodes({y}) = [stage \in Stages |-> IF stage = "capture" THEN StageCodes(rs)[stage]
                                                   ELSE "none"]
<1> DEFINE Of(qs, stage) == {x \in qs : x.is.stage = stage}
           Code(qs, stage) ==
               IF Of(qs, stage) = {} THEN "none"
               ELSE (CHOOSE x \in Of(qs, stage) :
                        \A z \in Of(qs, stage) \ {x} : Before(z.at, x.at)).is.status
<1>1. \A qs : StageCodes(qs) = [stage \in Stages |-> Code(qs, stage)]
  BY DEF StageCodes
<1>2. Of({y}, "capture") = Of(rs, "capture")
  BY DEF IsCapture
<1>3. \A stage \in Stages : stage # "capture" => Of({y}, stage) = {}
  BY DEF IsCapture
<1>4. Code({y}, "capture") = Code(rs, "capture")
  BY <1>2
<1>5. \A stage \in Stages : stage # "capture" => Code({y}, stage) = "none"
  BY <1>3
<1> HIDE DEF Code
<1>6. \A stage \in Stages :
        Code({y}, stage) = IF stage = "capture" THEN StageCodes(rs)[stage] ELSE "none"
  BY <1>1, <1>4, <1>5
<1>7. QED
  BY <1>1, <1>6

LEMMA FilteredNow ==
    ASSUME IInv
    PROVE  FilterKeepsVerdict
<1>1. ASSUME svc \in Viewed, NEW e \in View(Everything, FALSE, {}), Cardinality(ItemsOf(e.mac)) = 1
      PROVE  /\ e \in View([sgs |-> {e.sg}, channels |-> {}, macs |-> {e.mac}], FALSE, {})
             /\ \A c \in Channel : \A f \in View([Everything EXCEPT !.channels = {c}], FALSE, {}) :
                  f.mac = e.mac => f = IF svc \in IgnoresChannels THEN e ELSE CaptureOnly(e)
  <2> DEFINE m == e.mac
             rs == RowsOf(Records, m)
  <2>1. /\ e = Shown(rs, {}, {}) /\ rs \in SUBSET Records /\ rs # {}
        /\ e.sg = First(rs).sg /\ e.ok = (FinalRecord(rs).status = "SUCCESS")
        /\ e.txns = Listed(TransactionsOf(rs))
    <3>1. PICK q \in SUBSET Records :
            /\ q = RowsOf(Chosen(Everything), e.mac) /\ q # {} /\ e = Shown(q, {}, {})
            /\ e.sg = First(q).sg /\ e.ok = (FinalRecord(q).status = "SUCCESS")
            /\ e.txns = Listed(TransactionsOf(q))
      BY <1>1, PlainEntry, Zenon
    <3>2. q = rs
      BY <1>1, <3>1, EverythingSelected
    <3>3. QED
      BY <3>1, <3>2
  <2>2. \A y \in rs : y.is.mac = m
    BY DEF RowsOf
  <2>3. \A y, z \in rs : y.is.sg = z.is.sg /\ (IsCapture(y.is) /\ IsCapture(z.is) => y = z)
    BY <1>1, SingleItem
  <2> DEFINE g == e.sg
  <2> HIDE DEF m, rs, g
  <2>4. \A y \in rs : y.is.sg = g
    <3>1. First(rs) \in Listed(rs)
      BY <1>1, <2>1, <2>2, RecordsOfModem
    <3>2. QED
      BY <2>1, <2>3, <3>1 DEF Listed, g
  <2>5. e \in View([sgs |-> {g}, channels |-> {}, macs |-> {m}], FALSE, {})
    <3> DEFINE sel == [sgs |-> {g}, channels |-> {}, macs |-> {m}]
    <3>1. \A r : IsSelected(svc, r, sel) <=> r.sg = g /\ r.mac = m
      BY <1>1, Filters
    <3> HIDE DEF sel
    <3>2. Chosen(sel) = rs
      BY <2>1, <2>2, <2>4, <3>1 DEF Chosen, RowsOf, rs
    <3>3. RowsOf(rs, m) = rs
      BY <2>2 DEF RowsOf
    <3>4. \E x \in Chosen(sel) : e = Shown(RowsOf(Chosen(sel), x.is.mac), {}, {})
      BY <2>1, <2>2, <3>2, <3>3
    <3>5. e \in ViewOf(svc, Chosen(sel), {}, {})
      BY <1>1, <3>4, ViewShown
    <3>6. QED
      BY <3>5, ViewsOf DEF sel
  <2>6. ASSUME NEW c \in Channel, NEW f \in View([Everything EXCEPT !.channels = {c}], FALSE, {}), f.mac = m
        PROVE  f = IF svc \in IgnoresChannels THEN e ELSE CaptureOnly(e)
    <3> DEFINE sel == [Everything EXCEPT !.channels = {c}]
               qs == RowsOf(Chosen(sel), m)
    <3>1. \A r : IsSelected(svc, r, sel) <=> svc \in IgnoresChannels \/ r.channel = c
      BY <1>1, Filters
    <3> HIDE DEF sel
    <3>2. /\ f = Shown(qs, {}, {}) /\ qs \in SUBSET Records /\ qs # {}
          /\ f.sg = First(qs).sg /\ f.ok = (FinalRecord(qs).status = "SUCCESS")
          /\ f.txns = Listed(TransactionsOf(qs))
      <4>1. f \in View(sel, FALSE, {})
        BY DEF sel
      <4>2. PICK q \in SUBSET Records :
              /\ q = RowsOf(Chosen(sel), f.mac) /\ q # {} /\ f = Shown(q, {}, {})
              /\ f.sg = First(q).sg /\ f.ok = (FinalRecord(q).status = "SUCCESS")
              /\ f.txns = Listed(TransactionsOf(q))
        BY <1>1, <4>1, PlainEntry, Zenon
      <4>3. q = qs
        BY <2>6, <4>2
      <4>4. QED
        BY <4>2, <4>3
    <3>3. qs \subseteq rs
      BY DEF Chosen, RowsOf, rs
    <3>4. CASE svc \in IgnoresChannels
      <4>1. qs = rs
        BY <3>1, <3>4 DEF Chosen, RowsOf, rs
      <4>2. QED
        BY <2>1, <3>2, <3>4, <4>1
    <3>5. CASE svc \notin IgnoresChannels
      <4>1. PICK y \in qs : y \in rs /\ y.is.channel = c /\ c # NoChannel
        BY <3>1, <3>2, <3>3, <3>5, ScopeAssumption DEF Chosen, RowsOf
      <4>2. IsCapture(y.is)
        BY <1>1, <2>1, <4>1, RecordFacts DEF Sound
      <4>3. qs = {y}
        <5>1. \A z \in qs : z \in rs /\ z.is.channel = c
          BY <3>1, <3>3, <3>5 DEF Chosen, RowsOf
        <5>2. \A z \in qs : IsCapture(z.is)
          BY <1>1, <2>1, <4>1, <5>1, RecordFacts DEF Sound
        <5> HIDE DEF qs
        <5>3. QED
          BY <2>3, <3>2, <4>1, <4>2, <5>1, <5>2
      <4> HIDE DEF qs
      <4>4. FinalRecord(qs) = y.is /\ First(qs) = y.is
        <5>1. qs # {} /\ \A z \in qs : z.is.mac = m
          BY <2>2, <4>1, <4>3
        <5>2. FinalRecord(qs) \in Listed(qs) /\ First(qs) \in Listed(qs)
          BY <1>1, <3>2, <5>1, RecordsOfModem
        <5>3. QED
          BY <4>3, <5>2 DEF Listed
      <4>5. FinalRecord(rs) = y.is
        <5>1. PICK z \in rs : FinalRecord(rs) = z.is /\ Rank(y.is.stage) <= Rank(z.is.stage)
          BY <1>1, <2>1, <2>2, <4>1, RecordsOfModem DEF Listed
        <5>2. z.is.stage \in Stages
          BY <2>1, RecordFacts DEF Record
        <5>3. IsCapture(z.is)
          BY <4>2, <5>1, <5>2 DEF IsCapture, Stages, Rank
        <5>4. QED
          BY <2>3, <4>1, <4>2, <5>1, <5>3
      <4>6. First(rs).mac = m
        BY <1>1, <2>1, <2>2, RecordsOfModem
      <4>7. {x \in rs : IsCapture(x.is)} = {y} /\ {x \in qs : IsCapture(x.is)} = {y}
        BY <2>3, <4>1, <4>2, <4>3
      <4>8. TransactionsOf(qs) = TransactionsOf(rs)
        BY <4>7 DEF TransactionsOf
      <4>9. ChannelOf(qs) = ChannelOf(rs)
        <5>1. /\ {r \in Listed(rs) : IsCapture(r)} = {y.is}
              /\ {r \in Listed(qs) : IsCapture(r)} = {y.is}
          BY <4>7 DEF Listed
        <5> DEFINE Named(q) == {r.channel : r \in {x \in Listed(q) : IsCapture(x)}} \ {NoChannel}
                   Only(n) == IF Cardinality(n) = 1 THEN CHOOSE k \in n : TRUE ELSE NoChannel
        <5>2. ChannelOf(qs) = Only(Named(qs)) /\ ChannelOf(rs) = Only(Named(rs))
          BY DEF ChannelOf
        <5>3. Named(qs) = Named(rs)
          BY <5>1
        <5> HIDE DEF Named, Only
        <5>4. QED
          BY <5>2, <5>3
      <4>10. StageCodes(qs) = [stage \in Stages |-> IF stage = "capture" THEN StageCodes(rs)[stage]
                                                    ELSE "none"]
        BY <4>2, <4>3, <4>7, CodesOfCapture
      <4>11. f = PlainOf(m, y.is.sg, y.is.status = "SUCCESS", StageCodes(qs), TransactionsOf(rs),
                         ChannelOf(rs))
        <5>1. y.is.mac = m
          BY <2>2, <4>1
        <5>2. QED
          BY <3>2, <4>4, <4>8, <4>9, <5>1, PlainShown
      <4>12. e = PlainOf(m, g, y.is.status = "SUCCESS", StageCodes(rs), TransactionsOf(rs),
                         ChannelOf(rs))
        <5>1. First(rs).sg = g
          BY <2>1 DEF g
        <5>2. QED
          BY <2>1, <4>5, <4>6, <5>1, PlainShown
      <4>13. y.is.sg = g
        BY <2>4, <4>1
      <4>14. e.codes = StageCodes(rs) /\ f = [e EXCEPT !.codes = StageCodes(qs)]
        BY <4>11, <4>12, <4>13 DEF PlainOf
      <4>15. f = CaptureOnly(e)
        BY <4>10, <4>14 DEF CaptureOnly
      <4>16. QED
        BY <3>5, <4>15
    <3>6. QED
      BY <3>4, <3>5
  <2>7. QED
    BY <2>5, <2>6 DEF m, g
<1>2. QED
  BY <1>1 DEF FilterKeepsVerdict

\* What is said of a modem with one work item does not depend on the filter: its entry under its
\* group and address is the whole entry, and a channel filter takes nothing from it but the codes of
\* the stages before the capture, for any records an operation may have left and every service.
THEOREM FiltersKeepVerdicts == Spec => []FilterKeepsVerdict
<1>1. IInv => FilterKeepsVerdict
  BY FilteredNow
<1>2. QED
  BY <1>1, Invariant, PTL

-----------------------------------------------------------------------------
(* The file that an entry links to *)

\* A modem's transactions are finitely many, at distinct places.
LEMMA TransactionPlaces ==
    ASSUME IInv, NEW rs \in SUBSET Records
    PROVE  /\ IsFiniteSet(TransactionsOf(rs))
           /\ \A y \in TransactionsOf(rs) : y.at \in [1..3 -> Nat]
           /\ \A y, z \in TransactionsOf(rs) : y.at = z.at => y = z
<1> DEFINE captures == {x \in rs : IsCapture(x.is)}
           source == IF captures # {} THEN captures ELSE rs
           T(x) == {[at |-> Append(x.at, k), is |-> x.is.txns[k]] : k \in DOMAIN x.is.txns}
           len == [x \in source |-> Len(x.is.txns)]
           rows == {p \in source \X (Nat \ {0}) : p[2] <= len[p[1]]}
           f == [p \in rows |-> [at |-> Append(p[1].at, p[2]), is |-> p[1].is.txns[p[2]]]]
<1>1. TransactionsOf(rs) = UNION {T(x) : x \in source}
  BY DEF TransactionsOf
<1>2. source \in SUBSET Records
  OBVIOUS
<1>3. IsFiniteSet(source)
  BY <1>2, RecordsFinite, FS_Subset DEF IInv
<1> HIDE DEF source
<1>4. \A x \in source : x.at \in [1..2 -> Nat] /\ x.is.txns \in Seq(Transaction)
  BY <1>2, RecordFacts DEF Record
<1>5. ASSUME NEW p \in [1..2 -> Nat], NEW k \in Nat
      PROVE  /\ Append(p, k) \in [1..3 -> Nat] /\ Append(p, k)[3] = k
             /\ Append(p, k)[1] = p[1] /\ Append(p, k)[2] = p[2]
  <2>1. p \in Seq(Nat)
    BY SeqDef, 2 \in Nat
  <2>2. DOMAIN p = 1..2 /\ p[1] \in Nat /\ p[2] \in Nat
    OBVIOUS
  <2>3. Len(p) = 2
    BY <2>1, <2>2, LenProperties
  <2>4. /\ Append(p, k) \in Seq(Nat) /\ Len(Append(p, k)) = Len(p) + 1
        /\ \A i \in 1..Len(p) : Append(p, k)[i] = p[i]
        /\ Append(p, k)[Len(p) + 1] = k
    BY <2>1, AppendProperties
  <2> DEFINE a == Append(p, k)
  <2> HIDE DEF a
  <2>5. a \in Seq(Nat) /\ Len(a) = 3 /\ a[1] = p[1] /\ a[2] = p[2] /\ a[3] = k
    BY <2>3, <2>4 DEF a
  <2>6. a \in [1..3 -> Nat]
    BY <2>5, LenProperties
  <2>7. QED
    BY <2>5, <2>6 DEF a
<1>6. \A y : y \in TransactionsOf(rs) <=>
               \E x \in source : \E k \in 1..Len(x.is.txns) :
                  y = [at |-> Append(x.at, k), is |-> x.is.txns[k]]
  <2>1. \A x \in source : DOMAIN x.is.txns = 1..Len(x.is.txns)
    BY <1>4
  <2>2. \A y : \A x \in source :
          y \in T(x) <=> \E k \in 1..Len(x.is.txns) : y = [at |-> Append(x.at, k), is |-> x.is.txns[k]]
    BY <2>1
  <2> HIDE DEF T
  <2>3. \A y : y \in TransactionsOf(rs) <=> \E x \in source : y \in T(x)
    BY <1>1
  <2>4. QED
    BY <2>2, <2>3
<1>7. ASSUME NEW y \in TransactionsOf(rs)
      PROVE  \E x \in source : \E k \in Nat :
               /\ y = [at |-> Append(x.at, k), is |-> x.is.txns[k]]
               /\ y.at \in [1..3 -> Nat] /\ y.at[3] = k /\ y.at[1] = x.at[1] /\ y.at[2] = x.at[2]
  <2>1. PICK x \in source : \E k \in 1..Len(x.is.txns) : y = [at |-> Append(x.at, k), is |-> x.is.txns[k]]
    BY <1>6
  <2>2. PICK k \in 1..Len(x.is.txns) : y = [at |-> Append(x.at, k), is |-> x.is.txns[k]]
    BY <2>1
  <2>3. k \in Nat /\ x.at \in [1..2 -> Nat] /\ y.at = Append(x.at, k)
    BY <1>4, <2>2
  <2>4. y.at \in [1..3 -> Nat] /\ y.at[3] = k /\ y.at[1] = x.at[1] /\ y.at[2] = x.at[2]
    <3>1. PICK p \in [1..2 -> Nat], l \in Nat : p = x.at /\ l = k
      BY <2>3
    <3>2. /\ Append(p, l) \in [1..3 -> Nat] /\ Append(p, l)[3] = l
          /\ Append(p, l)[1] = p[1] /\ Append(p, l)[2] = p[2]
      BY <1>5, Zenon
    <3>3. y.at = Append(p, l)
      BY <2>3, <3>1
    <3>4. QED
      BY <3>1, <3>2, <3>3, Zenon
  <2>5. QED
    BY <2>2, <2>3, <2>4
<1>8. ASSUME NEW y \in TransactionsOf(rs), NEW z \in TransactionsOf(rs), y.at = z.at
      PROVE  y = z
  <2>1. PICK x \in source : \E k \in Nat :
           /\ y = [at |-> Append(x.at, k), is |-> x.is.txns[k]]
           /\ y.at[3] = k /\ y.at[1] = x.at[1] /\ y.at[2] = x.at[2]
    BY <1>7
  <2>2. PICK w \in source : \E k \in Nat :
           /\ z = [at |-> Append(w.at, k), is |-> w.is.txns[k]]
           /\ z.at[3] = k /\ z.at[1] = w.at[1] /\ z.at[2] = w.at[2]
    BY <1>7
  <2>3. x.at = w.at
    <3>1. x.at[1] = w.at[1] /\ x.at[2] = w.at[2]
      BY <1>8, <2>1, <2>2
    <3>2. \A p, q \in [1..2 -> Nat] : p[1] = q[1] /\ p[2] = q[2] => p = q
      OBVIOUS
    <3>3. QED
      BY <1>4, <3>1, <3>2
  <2>4. x = w
    BY <1>2, <2>3, RecordFacts
  <2>5. QED
    BY <1>8, <2>1, <2>2, <2>4
<1>9. IsFiniteSet(TransactionsOf(rs))
  <2>1. len \in [source -> Nat] /\ \A x \in source : len[x] = Len(x.is.txns) /\ len[x] \in Nat
    BY <1>4
  <2> HIDE DEF len
  <2>2. IsFiniteSet(rows)
    BY <1>3, <2>1, RowsFinite
  <2>3. \A p : p \in rows <=> p \in source \X (Nat \ {0}) /\ p[2] <= len[p[1]]
    OBVIOUS
  <2>4. ASSUME NEW p \in rows PROVE f[p] \in TransactionsOf(rs)
    <3>1. p[1] \in source /\ p[2] \in 1..Len(p[1].is.txns)
      BY <2>1, <2>3
    <3>2. f[p] = [at |-> Append(p[1].at, p[2]), is |-> p[1].is.txns[p[2]]]
      OBVIOUS
    <3> HIDE DEF rows, f
    <3>3. QED
      BY <1>6, <3>1, <3>2
  <2>5. ASSUME NEW y \in TransactionsOf(rs) PROVE \E p \in rows : f[p] = y
    <3>1. PICK x \in source : \E k \in 1..Len(x.is.txns) : y = [at |-> Append(x.at, k), is |-> x.is.txns[k]]
      BY <1>6
    <3>2. PICK k \in 1..Len(x.is.txns) : y = [at |-> Append(x.at, k), is |-> x.is.txns[k]]
      BY <3>1
    <3>3. <<x, k>> \in rows
      BY <2>1, <2>3
    <3> HIDE DEF rows
    <3>4. f[<<x, k>>] = y
      BY <3>2, <3>3
    <3>5. QED
      BY <3>3, <3>4
  <2>6. f \in Surjection(rows, TransactionsOf(rs))
    <3>1. f = [p \in rows |-> f[p]]
      OBVIOUS
    <3> HIDE DEF rows, f
    <3>2. f \in [rows -> TransactionsOf(rs)]
      BY <2>4, <3>1
    <3>3. QED
      BY <2>5, <3>2 DEF Surjection
  <2>7. QED
    BY <2>2, <2>6, FS_Surjection
<1>10. QED
  BY <1>7, <1>8, <1>9

LEMMA FirstTransaction ==
    ASSUME IInv, NEW rs \in SUBSET Records, NEW K \in SUBSET TransactionsOf(rs), K # {}
    PROVE  First(K) \in Listed(K)
<1>1. IsFiniteSet(K)
  BY TransactionPlaces, FS_Subset
<1>2. /\ \A y \in K : y.at \in [1..3 -> Nat]
      /\ \A y, z \in K : y.at = z.at => y = z
  BY TransactionPlaces
<1>3. QED
  BY <1>1, <1>2, FirstIsListed, 3 \in Nat

\* The channel of a modem is the one its captures were asked for, if there was one.
LEMMA ChannelOfModem ==
    ASSUME IInv, svc \in Viewed, NEW rs \in SUBSET Records,
           NEW x \in rs, IsCapture(x.is), x.is.channel = RequestedChannel(op.channels)
    PROVE  ChannelOf(rs) = RequestedChannel(op.channels)
<1> DEFINE q == RequestedChannel(op.channels)
           named == {r.channel : r \in {y \in Listed(rs) : IsCapture(y)}} \ {NoChannel}
<1>1. \A y \in rs : y.is.channel \in {NoChannel, q}
  BY RecordFacts DEF Sound
<1>2. \A r \in Listed(rs) : r.channel \in {NoChannel, q}
  BY <1>1 DEF Listed
<1>3. x.is \in Listed(rs)
  BY DEF Listed
<1>4. ChannelOf(rs) = IF Cardinality(named) = 1 THEN CHOOSE c \in named : TRUE ELSE NoChannel
  BY DEF ChannelOf
<1> HIDE DEF q
<1>5. named = IF q = NoChannel THEN {} ELSE {q}
  BY <1>2, <1>3 DEF q
<1> HIDE DEF named
<1>6. CASE q = NoChannel
  BY <1>4, <1>5, <1>6, FS_EmptySet DEF q
<1>7. CASE q # NoChannel
  BY <1>4, <1>5, <1>7, FS_Singleton DEF q
<1>8. QED
  BY <1>6, <1>7

LEMMA AnalysedNow ==
    ASSUME IInv
    PROVE  AnalysedFile
<1>1. ASSUME svc \in Viewed, NEW lost, NEW e \in View(Everything, TRUE, lost)
      PROVE  /\ e.txns # {} => e.file \in e.txns /\ e.file.mac = e.mac
             /\ e.analysed # NoTransaction =>
                  /\ e.ok /\ e.file = e.analysed
                  /\ svc = "histogram" \/ e.channel = e.analysed.channel
                       \/ (e.analysed \in lost /\ e.channel = NoChannel)
  <2> DEFINE m == e.mac
             rs == RowsOf(Records, m)
             decoded == DecodedBy(Chosen(Everything))
             txns == TransactionsOf(rs)
             ok == FinalRecord(rs).status = "SUCCESS"
             known == {x \in txns : x.is \in decoded}
             analysed == Analysed(ok, txns, decoded)
  <2>1. rs \in SUBSET Records /\ rs # {} /\ e = Shown(rs, decoded, lost)
    <3>1. e \in ViewOf(svc, Chosen(Everything), decoded, lost)
      BY ViewsOf
    <3> HIDE DEF decoded
    <3>2. QED
      BY <1>1, <3>1, UnfilteredEntry
  <2>2. \A x \in rs : x.is.mac = m
    BY DEF RowsOf
  <2> HIDE DEF m, rs, decoded
  <2>3. /\ e.txns = Listed(txns) /\ e.analysed = analysed /\ e.file = FileLink(txns, analysed)
        /\ svc # "histogram" => e.channel = IF ChannelOf(rs) = NoChannel /\ analysed \notin lost
                                           THEN analysed.channel ELSE ChannelOf(rs)
    BY <2>1, ShownFields
  <2>4. Shown(rs, decoded, lost).ok = ok
    BY ShownFields, Zenon
  <2>5. e.ok = ok
    BY <2>1, <2>4
  <2>6. \A t \in e.txns : /\ t.mac = m
                          /\ \E x \in rs : IsCapture(x.is) /\ t \in ToSet(x.is.txns)
    BY <1>1, <2>1, <2>2, <2>3, TransactionsOfModem
  <2>7. analysed = IF ~ok \/ known = {} THEN NoTransaction ELSE First(known)
    BY DEF Analysed
  <2>8. known \in SUBSET txns
    OBVIOUS
  <2> HIDE DEF txns, ok, known, analysed
  <2>9. analysed # NoTransaction => ok /\ analysed \in e.txns
    <3>1. SUFFICES ASSUME analysed # NoTransaction PROVE ok /\ analysed \in e.txns
      OBVIOUS
    <3>2. ok /\ known # {} /\ analysed = First(known)
      BY <2>7, <3>1
    <3>3. First(known) \in Listed(known)
      BY <2>1, <2>8, <3>2, FirstTransaction DEF txns
    <3>4. QED
      BY <2>3, <2>8, <3>2, <3>3 DEF Listed
  <2>10. e.txns # {} => e.file = IF analysed = NoTransaction THEN First(txns) ELSE analysed
    <3>1. e.txns # {} => txns # {}
      BY <2>3 DEF Listed
    <3>2. QED
      BY <2>3, <3>1 DEF FileLink
  <2>11. ASSUME e.txns # {} PROVE e.file \in e.txns /\ e.file.mac = m
    <3>1. txns # {}
      BY <2>3, <2>11 DEF Listed
    <3>2. First(txns) \in e.txns
      BY <2>1, <2>3, <3>1, FirstTransaction DEF txns
    <3>3. e.file \in e.txns
      BY <2>9, <2>10, <2>11, <3>2
    <3>4. QED
      BY <2>6, <3>3
  <2>12. ASSUME analysed # NoTransaction, svc # "histogram"
         PROVE  e.channel = analysed.channel \/ (analysed \in lost /\ e.channel = NoChannel)
    <3>1. PICK x \in rs : IsCapture(x.is) /\ analysed \in ToSet(x.is.txns)
      BY <2>6, <2>9, <2>12
    <3>2. Sound(x.is) /\ x.is.txns # <<>>
      <4>1. Sound(x.is)
        BY <1>1, <2>1, RecordFacts
      <4>2. ToSet(<<>>) = {}
        BY DEF ToSet
      <4>3. QED
        BY <3>1, <4>1, <4>2
    <3>3. x.is.channel = RequestedChannel(op.channels)
      BY <2>12, <3>2 DEF Sound
    <3>4. ChannelOf(rs) = x.is.channel
      BY <1>1, <2>1, <3>1, <3>3, ChannelOfModem
    <3>5. x.is.channel # NoChannel => analysed.channel = x.is.channel
      BY <3>1, <3>2 DEF Sound
    <3>6. QED
      BY <2>3, <2>12, <3>4, <3>5
  <2>13. analysed # NoTransaction => e.ok /\ e.file = analysed
    BY <2>5, <2>9, <2>10
  <2>14. QED
    BY <2>3, <2>11, <2>12, <2>13 DEF m
<1>2. QED
  BY <1>1 DEF AnalysedFile

\* The file an entry links to is its modem's, the analysed one if there is one, and the entry's
\* channel is that file's; whatever the records, and whichever files cannot be read.
THEOREM LinksAreTrue == Spec => []AnalysedFile
<1>1. IInv => AnalysedFile
  BY AnalysedNow
<1>2. QED
  BY <1>1, Invariant, PTL

=============================================================================
