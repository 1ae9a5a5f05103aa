-------------------------- MODULE MegaLayoutProofs --------------------------
(***************************************************************************)
(* Why the scheduler, the model runner and the attention backend agree on  *)
(* the layout of a mega request, for every prefix, width, number of steps, *)
(* block size, budget and chunking.                                        *)
(*                                                                         *)
(* LayoutInv follows where a running mega request started: what it did not *)
(* compute itself came from the prefix cache, which the patched            *)
(* get_computed_blocks cuts at the last whole block of the prefix.  Only a *)
(* chunk that ends inside the beams can then trip the assertion of         *)
(* _build_mega_mappings.                                                   *)
(*                                                                         *)
(* The loop over the beams in _process_mega_decode_request and the one in  *)
(* _build_mega_mappings spend the chunk alike: after b rounds it has as    *)
(* many tokens as Filled says.  From there follow the positions and rows   *)
(* of the first loop and the keys of the second; AnswerInv carries the     *)
(* rows of a step to what the requests are answered with.                  *)
(***************************************************************************)
EXTENDS MegaLayout, SequenceFacts, FiniteSetTheorems, TLAPS

Counters ==
    /\ computed \in [Request -> Int]
    /\ fresh \in [Request -> Nat]
    /\ status \in [Request -> {"waiting", "running", "finished"}]

\* A running request started where the cache ended: within the prefix.
StartsInPrefix ==
    \A r \in Mega : status[r] = "running" => computed[r] - fresh[r] <= PrefixLen[r]

\* A request of the step has computed at least its chunk of the step.
BatchIsRunning ==
    \A i \in DOMAIN batch :
        /\ status[batch[i].req] = "running"
        /\ batch[i].n <= fresh[batch[i].req]

\* Until the metadata is built, cache_len is what was computed before the step.
CacheLenIsStart ==
    phase \in {"schedule", "build"} =>
        /\ mega_data \in Seq(Int)
        /\ Len(mega_data) = Len(batch)
        /\ \A i \in DOMAIN batch : mega_data[i] = CacheLen(batch[i])

Entry == [req : Request, n : Nat \ {0}]

LayoutInv ==
    /\ Counters
    /\ batch \in Seq(Entry)
    /\ StartsInPrefix
    /\ BatchIsRunning
    /\ CacheLenIsStart
    /\ FailsOnlyOnSplitBeams

-----------------------------------------------------------------------------

LEMMA MinOfTwo ==
    ASSUME NEW a \in Int, NEW b \in Int
    PROVE  /\ Min({a, b}) \in Int
           /\ Min({a, b}) <= a
           /\ Min({a, b}) <= b
<1>1. \E x \in {a, b} : \A y \in {a, b} : x <= y
  OBVIOUS
<1> QED BY <1>1 DEF Min

\* Whole blocks of the prefix do not exceed the prefix.
LEMMA BlocksFit ==
    ASSUME NEW p \in Nat, NEW size \in Nat \ {0}
    PROVE  /\ (p \div size) * size \in Nat
           /\ (p \div size) * size <= p
<1>1. p = size * (p \div size) + (p % size) /\ p % size \in 0..(size - 1)
  OBVIOUS
<1>2. p \div size \in Nat
  OBVIOUS
<1> QED BY <1>1, <1>2

\* A mega request starts inside its prefix, whatever the prefix cache holds.
LEMMA CacheHitStaysInPrefix ==
    ASSUME NEW r \in Request, NEW hit \in Nat
    PROVE  /\ ComputedBlocks(r, hit) \in Nat
           /\ r \in Mega => ComputedBlocks(r, hit) <= PrefixLen[r]
<1>1. CASE r \notin Mega
  BY <1>1 DEF ComputedBlocks
<1>2. CASE r \in Mega
  <2> DEFINE pn == (PrefixLen[r] \div BlockSize) * BlockSize
  <2>1. pn \in Nat /\ pn <= PrefixLen[r] /\ PrefixLen[r] \in Nat
    BY <1>2, BlocksFit, MegaAssumption, SizeAssumption
  <2>2. ComputedBlocks(r, hit) = IF hit > pn THEN pn ELSE hit
    BY <1>2 DEF ComputedBlocks
  <2> HIDE DEF pn
  <2> QED BY <2>1, <2>2
<1> QED BY <1>1, <1>2

-----------------------------------------------------------------------------
(* The steps *)

LEMMA InitLayout == Init => LayoutInv
<1> QED BY DEF Init, LayoutInv, Counters, StartsInPrefix, BatchIsRunning,
               CacheLenIsStart, FailsOnlyOnSplitBeams, Request

LEMMA ScheduleKeepsLayout ==
    ASSUME LayoutInv, NEW r \in Request, ScheduleRequest(r)
    PROVE  LayoutInv'
<1>1. PICK start \in IF status[r] = "waiting"
                     THEN {ComputedBlocks(r, hit) : hit \in CacheHits(r)}
                     ELSE {computed[r]},
           n \in 1..TokenBudget :
          /\ status' = [status EXCEPT ![r] = "running"]
          /\ computed' = [computed EXCEPT ![r] = start + n]
          /\ fresh' = [fresh EXCEPT ![r] = @ + n]
          /\ batch' = Append(batch, [req |-> r, n |-> n])
          /\ mega_data' = Append(mega_data, start)
  BY DEF ScheduleRequest
<1>2. n \in Nat \ {0}
  BY SizeAssumption
<1>3. /\ phase = "schedule" /\ phase' = "schedule"
      /\ status[r] \in {"waiting", "running"}
      /\ \A i \in DOMAIN batch : batch[i].req # r
  BY DEF ScheduleRequest, Scheduled, LayoutInv, Counters
<1>4. /\ start \in Int
      /\ r \in Mega /\ status[r] = "waiting" => start <= PrefixLen[r]
      /\ status[r] = "running" => start = computed[r]
  <2>1. CASE status[r] = "waiting"
    <3>1. PICK hit \in Nat : start = ComputedBlocks(r, hit)
      BY <1>1, <2>1 DEF CacheHits
    <3> QED BY <2>1, <3>1, CacheHitStaysInPrefix
  <2>2. CASE status[r] = "running"
    BY <2>2 DEF LayoutInv, Counters
  <2> QED BY <1>3, <2>1, <2>2
<1>5. Counters'
  BY <1>1, <1>2, <1>4 DEF LayoutInv, Counters
<1>6. /\ batch' \in Seq(Entry)
      /\ Len(batch') = Len(batch) + 1
      /\ \A i \in DOMAIN batch : batch'[i] = batch[i]
      /\ batch'[Len(batch) + 1] = [req |-> r, n |-> n]
      /\ DOMAIN batch' = DOMAIN batch \cup {Len(batch) + 1}
  <2>1. [req |-> r, n |-> n] \in Entry
    BY <1>2 DEF Entry
  <2> QED BY <1>1, <2>1 DEF LayoutInv
<1>7. /\ computed'[r] = start + n
      /\ fresh'[r] = fresh[r] + n
      /\ status'[r] = "running"
      /\ \A q \in Request \ {r} : /\ computed'[q] = computed[q]
                                /\ fresh'[q] = fresh[q]
                                /\ status'[q] = status[q]
  BY <1>1 DEF LayoutInv, Counters
<1>11. ASSUME NEW i \in DOMAIN batch
       PROVE  batch[i].req \in Request \ {r} /\ batch[i].n \in Nat \ {0}
  <2>1. batch \in Seq(Entry)
    BY DEF LayoutInv
  <2>2. batch[i] \in Entry
    BY <2>1
  <2> QED BY <1>3, <2>2 DEF Entry
<1>8. StartsInPrefix'
  <2> SUFFICES ASSUME NEW q \in Mega, status'[q] = "running"
               PROVE  computed'[q] - fresh'[q] <= PrefixLen[q]
    BY DEF StartsInPrefix
  <2>1. q \in Request /\ PrefixLen[q] \in Nat /\ fresh[q] \in Nat /\ computed[q] \in Int
    BY MegaAssumption DEF Request, LayoutInv, Counters
  <2>2. CASE q = r
    <3>1. start - fresh[r] <= PrefixLen[r]
      <4>1. CASE status[r] = "waiting"
        BY <1>4, <2>1, <2>2, <4>1
      <4>2. CASE status[r] = "running"
        BY <1>4, <2>2, <4>2 DEF LayoutInv, StartsInPrefix
      <4> QED BY <1>3, <4>1, <4>2
    <3>2. computed'[q] - fresh'[q] = start - fresh[r]
      BY <1>2, <1>4, <1>7, <2>1, <2>2
    <3> QED BY <2>2, <3>1, <3>2
  <2>3. CASE q # r
    BY <1>7, <2>1, <2>3 DEF LayoutInv, StartsInPrefix
  <2> QED BY <2>2, <2>3
<1>9. BatchIsRunning'
  <2> SUFFICES ASSUME NEW i \in DOMAIN batch'
               PROVE  /\ status'[batch'[i].req] = "running"
                      /\ batch'[i].n <= fresh'[batch'[i].req]
    BY DEF BatchIsRunning
  <2>1. CASE i = Len(batch) + 1
    BY <1>2, <1>6, <1>7, <2>1 DEF LayoutInv, Counters
  <2>2. CASE i \in DOMAIN batch
    BY <1>6, <1>7, <1>11, <2>2 DEF LayoutInv, BatchIsRunning
  <2> QED BY <1>6, <2>1, <2>2
<1>10. CacheLenIsStart'
  <2>1. /\ mega_data \in Seq(Int)
        /\ Len(mega_data) = Len(batch)
        /\ \A i \in DOMAIN batch : mega_data[i] = computed[batch[i].req] - batch[i].n
    BY <1>3 DEF LayoutInv, CacheLenIsStart, CacheLen
  <2>2. /\ mega_data' \in Seq(Int)
        /\ Len(mega_data') = Len(batch')
        /\ \A i \in DOMAIN batch : mega_data'[i] = mega_data[i]
        /\ mega_data'[Len(batch) + 1] = start
    BY <1>1, <1>4, <1>6, <2>1 DEF LayoutInv
  <2>3. ASSUME NEW i \in DOMAIN batch'
        PROVE  mega_data'[i] = computed'[batch'[i].req] - batch'[i].n
    <3>1. CASE i = Len(batch) + 1
      <4>1. mega_data'[i] = start /\ batch'[i].req = r /\ batch'[i].n = n
        BY <1>6, <2>2, <3>1
      <4> QED BY <1>2, <1>4, <1>7, <4>1
    <3>2. CASE i \in DOMAIN batch
      <4>1. mega_data'[i] = computed[batch[i].req] - batch[i].n /\ batch'[i] = batch[i]
        BY <1>6, <2>1, <2>2, <3>2
      <4> QED BY <1>7, <1>11, <3>2, <4>1
    <3> QED BY <1>6, <3>1, <3>2
  <2> QED BY <2>2, <2>3 DEF CacheLenIsStart, CacheLen
<1> QED BY <1>3, <1>5, <1>6, <1>8, <1>9, <1>10 DEF LayoutInv, FailsOnlyOnSplitBeams

\* What LayoutInv says of the i-th request of the step.
LEMMA BatchEntry ==
    ASSUME LayoutInv, NEW i \in DOMAIN batch
    PROVE  /\ batch[i].req \in Request
           /\ batch[i].n \in Nat \ {0}
           /\ computed[batch[i].req] \in Int
           /\ fresh[batch[i].req] \in Nat
           /\ status[batch[i].req] = "running"
           /\ batch[i].n <= fresh[batch[i].req]
<1>1. batch \in Seq(Entry)
  BY DEF LayoutInv
<1>2. batch[i] \in Entry
  BY <1>1
<1>3. batch[i].req \in Request /\ batch[i].n \in Nat \ {0}
  BY <1>2 DEF Entry
<1> QED BY <1>3 DEF LayoutInv, Counters, BatchIsRunning

LEMMA PreemptKeepsLayout ==
    ASSUME LayoutInv, NEW r \in Request, Preempt(r)
    PROVE  LayoutInv'
<1>1. /\ phase = "schedule" /\ phase' = "schedule"
      /\ batch' = batch /\ mega_data' = mega_data
      /\ status' = [status EXCEPT ![r] = "waiting"]
      /\ computed' = [computed EXCEPT ![r] = 0]
      /\ fresh' = [fresh EXCEPT ![r] = 0]
      /\ \A i \in DOMAIN batch : batch[i].req # r
  BY DEF Preempt, step, Scheduled
<1>2. /\ status'[r] = "waiting"
      /\ \A q \in Request \ {r} : /\ computed'[q] = computed[q]
                                /\ fresh'[q] = fresh[q]
                                /\ status'[q] = status[q]
  BY <1>1 DEF LayoutInv, Counters
<1>3. Counters'
  BY <1>1 DEF LayoutInv, Counters
<1>4. StartsInPrefix'
  BY <1>2 DEF LayoutInv, StartsInPrefix, Request
<1>5. ASSUME NEW i \in DOMAIN batch
      PROVE  /\ batch[i].req \in Request \ {r}
             /\ status[batch[i].req] = "running"
             /\ batch[i].n <= fresh[batch[i].req]
  BY <1>1, BatchEntry
<1>6. BatchIsRunning'
  BY <1>1, <1>2, <1>5 DEF BatchIsRunning
<1>7. /\ mega_data \in Seq(Int)
      /\ Len(mega_data) = Len(batch)
      /\ \A i \in DOMAIN batch : mega_data[i] = computed[batch[i].req] - batch[i].n
  BY <1>1 DEF LayoutInv, CacheLenIsStart, CacheLen
<1>8. \A i \in DOMAIN batch : mega_data[i] = computed'[batch[i].req] - batch[i].n
  BY <1>2, <1>5, <1>7
<1>9. CacheLenIsStart'
  BY <1>1, <1>7, <1>8 DEF CacheLenIsStart, CacheLen
<1> QED BY <1>1, <1>3, <1>4, <1>6, <1>9 DEF LayoutInv, FailsOnlyOnSplitBeams

LEMMA PrepareKeepsLayout ==
    ASSUME LayoutInv, PrepareInputs
    PROVE  LayoutInv'
<1>1. /\ phase = "schedule" /\ phase' = "build"
      /\ UNCHANGED <<computed, fresh, status, batch, mega_data>>
  BY DEF PrepareInputs, scheduler
<1> QED BY <1>1 DEF LayoutInv, Counters, StartsInPrefix, BatchIsRunning,
               CacheLenIsStart, CacheLen, FailsOnlyOnSplitBeams

LEMMA BuildKeepsLayout ==
    ASSUME LayoutInv, BuildMetadata
    PROVE  LayoutInv'
<1>1. phase' = "sample" /\ UNCHANGED <<computed, fresh, status, batch>>
  BY DEF BuildMetadata, scheduler
<1> QED BY <1>1 DEF LayoutInv, Counters, StartsInPrefix, BatchIsRunning,
               CacheLenIsStart, FailsOnlyOnSplitBeams

\* The assertion fails only past the prefix, and the prefix cache does not
\* reach there: the request has computed more than this chunk.
LEMMA BuildFailsKeepsLayout ==
    ASSUME LayoutInv, BuildFails
    PROVE  LayoutInv'
<1>1. phase = "build" /\ UNCHANGED <<computed, fresh, status, batch, mega_data>>
  BY DEF BuildFails, scheduler
<1>2. PICK i \in DOMAIN batch : MegaLen(i) > 0 /\ ~(RemainingPrefix(i) >= 0)
  BY DEF BuildFails, LayoutAssertion
<1> DEFINE r == batch[i].req
          n == batch[i].n
          cache_len == mega_data[i]
          delta == PrefixLen[r] - cache_len
<1>3. /\ r \in Request /\ n \in Nat \ {0} /\ computed[r] \in Int /\ fresh[r] \in Nat
      /\ status[r] = "running"
  BY BatchEntry
<1>4. cache_len = computed[r] - n
  BY <1>1 DEF LayoutInv, CacheLenIsStart, CacheLen
<1>5. r \in Mega
  <2>1. CASE r \notin Mega
    <3>1. MegaLen(i) = n - n
      BY <2>1 DEF MegaLen, StandardLen
    <3> QED BY <1>2, <1>3, <3>1
  <2> QED BY <2>1
<1>6. PrefixLen[r] \in Nat /\ BlockSize \in Nat \ {0} /\ delta \in Int
  BY <1>3, <1>4, <1>5, MegaAssumption, SizeAssumption
<1>7. ~(delta >= 2 * BlockSize)
  <2> SUFFICES ASSUME delta >= 2 * BlockSize PROVE FALSE
    OBVIOUS
  <2>1. RemainingPrefix(i) = PrefixLen[r] - (cache_len + Min({delta, n}))
    BY <1>5 DEF RemainingPrefix, SegmentedCacheLen, StandardLen
  <2> HIDE DEF delta, n
  <2>2. Min({delta, n}) \in Int /\ Min({delta, n}) <= delta
    <3>1. n \in Int /\ delta \in Int
      BY <1>3, <1>6
    <3> QED BY <3>1, MinOfTwo, Zenon
  <2>3. PrefixLen[r] - (cache_len + Min({delta, n})) >= 0
    BY <1>3, <1>4, <1>6, <2>2 DEF delta
  <2> QED BY <1>2, <2>1, <2>3
<1>8. RemainingPrefix(i) = PrefixLen[r] - (cache_len + 0)
  BY <1>5, <1>7 DEF RemainingPrefix, SegmentedCacheLen, StandardLen
<1>9. CacheLen(batch[i]) > PrefixLen[r] /\ fresh[r] > n
  <2>1. computed[r] - fresh[r] <= PrefixLen[r]
    BY <1>3, <1>5 DEF LayoutInv, StartsInPrefix
  <2>2. computed[r] - n > PrefixLen[r]
    BY <1>2, <1>3, <1>4, <1>6, <1>8
  <2> QED BY <1>3, <1>6, <2>1, <2>2 DEF CacheLen
<1>10. FailsOnlyOnSplitBeams'
  BY <1>1, <1>5, <1>9 DEF FailsOnlyOnSplitBeams, CacheLen
<1>11. phase' = "failed"
  BY DEF BuildFails
<1> QED BY <1>1, <1>10, <1>11 DEF LayoutInv, Counters, StartsInPrefix,
               BatchIsRunning, CacheLenIsStart

LEMMA SampleKeepsLayout ==
    ASSUME LayoutInv, Sample
    PROVE  LayoutInv'
<1>1. /\ phase' = "schedule" /\ batch' = <<>> /\ mega_data' = <<>>
      /\ UNCHANGED <<computed, fresh>>
  BY DEF Sample
<1>2. /\ status' \in [Request -> {"waiting", "running", "finished"}]
      /\ \A r \in Request : status'[r] = "running" => status[r] = "running"
  BY DEF Sample, LayoutInv, Counters
<1> QED BY <1>1, <1>2 DEF LayoutInv, Counters, StartsInPrefix, BatchIsRunning,
               CacheLenIsStart, FailsOnlyOnSplitBeams, Request

-----------------------------------------------------------------------------

\* In every reachable state a mega request of the step started within its
\* prefix, and cache_len says where its chunk starts.
THEOREM LayoutInvariant == Spec => []LayoutInv
<1>1. Init => LayoutInv
  BY InitLayout
<1>2. LayoutInv /\ [Next]_vars => LayoutInv'
  <2> SUFFICES ASSUME LayoutInv, [Next]_vars PROVE LayoutInv'
    OBVIOUS
  <2>1. ASSUME NEW r \in Request, ScheduleRequest(r) PROVE LayoutInv'
    BY <2>1, ScheduleKeepsLayout
  <2>2. ASSUME NEW r \in Request, Preempt(r) PROVE LayoutInv'
    BY <2>2, PreemptKeepsLayout
  <2>3. CASE UNCHANGED vars
    BY <2>3 DEF vars, scheduler, step, LayoutInv, Counters, StartsInPrefix,
        BatchIsRunning, CacheLenIsStart, CacheLen, FailsOnlyOnSplitBeams
  <2> QED BY <2>1, <2>2, <2>3, PrepareKeepsLayout, BuildKeepsLayout,
        BuildFailsKeepsLayout, SampleKeepsLayout DEF Next, Terminated
<1> QED BY <1>1, <1>2, PTL DEF Spec

\* The layout assertion of build fails only on a mega request that an earlier
\* chunk of its own left inside the beams, never on what the prefix cache holds
\* nor on the prefix that standard attention takes over.
THEOREM FailureNeedsSplit == Spec => []FailsOnlyOnSplitBeams
<1>1. LayoutInv => FailsOnlyOnSplitBeams
  BY DEF LayoutInv
<1> QED BY <1>1, LayoutInvariant, PTL

-----------------------------------------------------------------------------
(* Minima, blocks and chunks *)

LEMMA MinIs ==
    ASSUME NEW a \in Int, NEW b \in Int
    PROVE  Min({a, b}) = IF a <= b THEN a ELSE b
<1>1. \E x \in {a, b} : \A y \in {a, b} : x <= y
  OBVIOUS
<1> QED BY <1>1 DEF Min

LEMMA MaxIs ==
    ASSUME NEW a \in Int, NEW b \in Int
    PROVE  Max({a, b}) = IF a >= b THEN a ELSE b
<1>1. \E x \in {a, b} : \A y \in {a, b} : x >= y
  OBVIOUS
<1> QED BY <1>1 DEF Max

\* The sizes of a mega request.
LEMMA MegaSizes ==
    ASSUME NEW r \in Mega
    PROVE  /\ PrefixLen[r] \in Nat \ {0} /\ BeamWidth[r] \in Nat \ {0}
           /\ DecodeSteps[r] \in Nat \ {0}
           /\ NumPrompt(r) = PrefixLen[r] + BeamWidth[r] * DecodeSteps[r]
           /\ NumPrompt(r) \in Nat
<1>1. PrefixLen[r] \in Nat \ {0} /\ BeamWidth[r] \in Nat \ {0}
      /\ DecodeSteps[r] \in Nat \ {0}
  BY MegaAssumption
<1>2. BeamWidth[r] * DecodeSteps[r] \in Nat
  BY <1>1
<1> QED BY <1>1, <1>2 DEF NumPrompt

\* The beams of a mega request lie one behind the other.
LEMMA BeamOffsets ==
    ASSUME NEW d \in Nat, NEW b \in Nat, NEW w \in Nat
    PROVE  /\ b * d \in Nat
           /\ (b + 1) * d = b * d + d
           /\ b <= w => b * d <= w * d
<1>1. b * d \in Nat /\ (b + 1) * d = b * d + d
  OBVIOUS
<1>2. ASSUME b <= w PROVE b * d <= w * d
  <2>1. PICK e \in Nat : w = b + e
    BY <1>2
  <2>2. w * d = b * d + e * d /\ e * d \in Nat
    BY <2>1
  <2> QED BY <1>1, <2>2
<1> QED BY <1>1, <1>2

\* The k-th token of beam b is in a beam that starts where beam b starts.
LEMMA BeamStartOf ==
    ASSUME NEW r \in Mega, NEW b \in Nat, NEW k \in 0..(DecodeSteps[r] - 1)
    PROVE  BeamStart(r, PrefixLen[r] + b * DecodeSteps[r] + k)
             = PrefixLen[r] + b * DecodeSteps[r]
<1>1. PICK p \in Nat, d \in Nat \ {0} : p = PrefixLen[r] /\ d = DecodeSteps[r]
  BY MegaSizes
<1>2. PICK x \in Nat : x = b * d
  BY <1>1, BeamOffsets
<1>3. k \in Nat /\ k < d
  BY <1>1
<1>4. PICK q \in Nat : q = (x + k) \div d
  BY <1>1, <1>2, <1>3
<1>5. x + k = d * q + ((x + k) % d) /\ (x + k) % d \in 0..(d - 1)
  BY <1>1, <1>2, <1>3, <1>4
<1>6. PICK y \in 0..(d - 1) : x + k = d * q + y
  BY <1>5
<1>7. q = b
  <2>1. ASSUME q < b PROVE FALSE
    <3>1. PICK e \in Nat : b = q + 1 + e
      BY <2>1
    <3>2. b * d = d * q + d + e * d /\ e * d \in Nat /\ d * q \in Nat
      BY <3>1
    <3> QED BY <1>2, <1>3, <1>6, <3>2
  <2>2. ASSUME b < q PROVE FALSE
    <3>1. PICK e \in Nat : q = b + 1 + e
      BY <2>2
    <3>2. d * q = b * d + d + e * d /\ e * d \in Nat /\ b * d \in Nat
      BY <3>1
    <3> QED BY <1>2, <1>3, <1>6, <3>2
  <2> QED BY <2>1, <2>2
<1>8. ((p + b * d + k) - p) \div d = b
  <2>1. (p + b * d + k) - p = x + k
    BY <1>2, <1>3
  <2> QED BY <1>4, <1>7, <2>1
<1> QED BY <1>1, <1>8 DEF BeamStart

-----------------------------------------------------------------------------

Token == Request \X Int

LEMMA RangeType ==
    ASSUME NEW first \in Int, NEW count \in Nat
    PROVE  /\ FromTo(first, count) \in Seq(Int)
           /\ Len(FromTo(first, count)) = count
           /\ \A j \in 1..count : FromTo(first, count)[j] = first + j - 1
<1>1. FromTo(first, count) = [j \in 1..count |-> first + j - 1]
  BY DEF FromTo
<1>2. \A j \in 1..count : first + j - 1 \in Int
  OBVIOUS
<1> QED BY <1>1, <1>2

LEMMA TokensType ==
    ASSUME NEW e, e.req \in Request, NEW first \in Int, NEW count \in Nat
    PROVE  /\ TokensOf(e, first, count) \in Seq(Token)
           /\ Len(TokensOf(e, first, count)) = count
           /\ \A j \in 1..count : TokensOf(e, first, count)[j] = <<e.req, first + j - 1>>
<1>1. TokensOf(e, first, count) = [j \in 1..count |-> <<e.req, first + j - 1>>]
  BY DEF TokensOf
<1>2. \A j \in 1..count : <<e.req, first + j - 1>> \in Token
  BY DEF Token
<1>3. PICK t : t = TokensOf(e, first, count)
  OBVIOUS
<1>4. t \in [1..count -> Token]
  BY <1>1, <1>2, <1>3
<1>5. t \in Seq(Token) /\ Len(t) = count
  BY <1>4
<1> QED BY <1>1, <1>3, <1>5

\* Sum adds up its sequence from the left.
LEMMA SumLoops ==
    ASSUME NEW s \in Seq(Int)
    PROVE  \E g : /\ g[0] = 0
                  /\ \A k \in 1..Len(s) : g[k] = g[k - 1] + s[k]
                  /\ \A k \in 0..Len(s) : g[k] \in Int
                  /\ Sum(s) = g[Len(s)]
<1> DEFINE N == Len(s)
           F == [k \in 1..N |-> [x \in Int |-> x + s[k]]]
<1>1. N \in Nat /\ \A k \in 1..N : s[k] \in Int
  OBVIOUS
<1>2. Loop(N, Int, 0, F)
  BY <1>1 DEF Loop
<1>3. PICK g : LoopValues(g, N, Int, 0, F)
  <2> HIDE DEF F, N
  <2> QED BY <1>2, LoopExists
<1>4. g \in [0..N -> Int] /\ g[0] = 0
  BY <1>3 DEF LoopValues
<1>5. ASSUME NEW k \in 1..N PROVE g[k] = g[k - 1] + s[k]
  <2>1. g[k] = F[k][g[k - 1]]
    BY <1>3 DEF LoopValues
  <2>2. k - 1 \in 0..N
    BY <1>1
  <2>3. g[k - 1] \in Int
    BY <1>4, <2>2
  <2> QED BY <2>1, <2>3
<1> HIDE DEF F
<1> DEFINE f == CHOOSE f : f = [k \in 0..N |-> IF k = 0 THEN 0 ELSE f[k - 1] + s[k]]
<1>6. g = [k \in 0..N |-> IF k = 0 THEN 0 ELSE g[k - 1] + s[k]]
  <2>1. ASSUME NEW k \in 0..N PROVE g[k] = IF k = 0 THEN 0 ELSE g[k - 1] + s[k]
    <3>1. CASE k = 0
      BY <1>4, <3>1
    <3>2. CASE k # 0
      BY <1>1, <1>5, <3>2
    <3> QED BY <3>1, <3>2
  <2> QED BY <1>4, <2>1
<1>7. f = [k \in 0..N |-> IF k = 0 THEN 0 ELSE f[k - 1] + s[k]]
  BY <1>6
<1>8. Sum(s) = f[N]
  BY DEF Sum
<1> HIDE DEF f
<1>9. \A k \in 0..N : f[k] = g[k]
  <2> DEFINE A == {k \in 0..N : f[k] = g[k]}
  <2>1. 0 \in A
    BY <1>1, <1>4, <1>7
  <2>2. ASSUME NEW k \in 1..N, k - 1 \in A PROVE k \in A
    <3>1. k \in 0..N /\ k # 0
      BY <1>1
    <3>2. f[k] = f[k - 1] + s[k]
      BY <1>7, <3>1
    <3>3. g[k] = g[k - 1] + s[k]
      BY <1>5
    <3> QED BY <2>2, <3>1, <3>2, <3>3
  <2>3. \A k \in 0..N : k \in A
    <3> HIDE DEF A
    <3> QED BY <1>1, <2>1, <2>2, InductionTo
  <2> QED BY <2>3
<1>10. Sum(s) = g[N]
  BY <1>1, <1>8, <1>9
<1> QED BY <1>4, <1>5, <1>10

-----------------------------------------------------------------------------
(* The positions and the rows of a mega request's chunk *)

\* How many tokens of a chunk of n tokens belong to the first b beams.
Filled(r, cache_len, n, b) ==
    LET end == PrefixLen[r] + b * DecodeSteps[r] - cache_len
    IN  IF b = 0 \/ end <= 0 THEN 0 ELSE IF end <= n THEN end ELSE n

\* Where beam b continues when `fill` tokens of the chunk are laid out: it has
\* `past` tokens in earlier chunks and `un` in this one.
BeamPlace(r, c, b, past, fill, un) ==
    IF b = 0 /\ c <= PrefixLen[r]
    THEN fill = 0 /\ past = 0 /\ un <= PrefixLen[r] - c + DecodeSteps[r]
    ELSE /\ c + fill = PrefixLen[r] + b * DecodeSteps[r] + past
         /\ past + un <= DecodeSteps[r]
         /\ c <= PrefixLen[r] => past = 0

\* The bounds of beam b take from the chunk what fills the beam.
BoundsFit(r, c, n, b, bounds) ==
    /\ bounds.past \in Nat /\ bounds.uncached \in Nat
    /\ Filled(r, c, n, b) \in Nat /\ Filled(r, c, n, b + 1) \in Nat
    /\ bounds.uncached = Filled(r, c, n, b + 1) - Filled(r, c, n, b)
    /\ Filled(r, c, n, b + 1) <= n
    /\ bounds.uncached > 0 =>
         BeamPlace(r, c, b, bounds.past, Filled(r, c, n, b), bounds.uncached)

LEMMA BoundsFill ==
    ASSUME NEW r \in Mega, NEW c \in Nat, NEW n \in Nat, NEW b \in Nat
    PROVE  BoundsFit(r, c, n, b, BeamBounds(r, b, c, n - Filled(r, c, n, b)))
<1>22. PICK bounds : bounds = BeamBounds(r, b, c, n - Filled(r, c, n, b))
  OBVIOUS
<1>1. PICK p \in Nat, d \in Nat \ {0} : p = PrefixLen[r] /\ d = DecodeSteps[r]
  BY MegaSizes
<1>2. PICK x \in Nat : x = b * d /\ (b + 1) * d = x + d
  BY <1>1, BeamOffsets
<1>3. b = 0 => x = 0
  BY <1>1, <1>2
<1>4. b > 0 => x >= d
  <2>1. ASSUME b > 0 PROVE x >= d
    <3>1. PICK e \in Nat : b = e + 1
      BY <2>1
    <3>2. e * d \in Nat /\ (e + 1) * d = e * d + d
      BY <1>1, BeamOffsets
    <3> QED BY <1>1, <1>2, <3>1, <3>2
  <2> QED BY <2>1
<1>5. PICK fill, next : fill = Filled(r, c, n, b) /\ next = Filled(r, c, n, b + 1)
  OBVIOUS
<1>6. /\ fill = IF b = 0 \/ p + x - c <= 0 THEN 0
                ELSE IF p + x - c <= n THEN p + x - c ELSE n
      /\ next = IF p + x + d - c <= 0 THEN 0
                ELSE IF p + x + d - c <= n THEN p + x + d - c ELSE n
  <2>1. b + 1 # 0 /\ PrefixLen[r] + (b + 1) * DecodeSteps[r] - c = p + x + d - c
    BY <1>1, <1>2
  <2>2. PrefixLen[r] + b * DecodeSteps[r] - c = p + x - c
    BY <1>1, <1>2
  <2>3. next = IF p + x + d - c <= 0 THEN 0
               ELSE IF p + x + d - c <= n THEN p + x + d - c ELSE n
    BY <1>5, <2>1 DEF Filled
  <2>4. fill = IF b = 0 \/ p + x - c <= 0 THEN 0
               ELSE IF p + x - c <= n THEN p + x - c ELSE n
    BY <1>5, <2>2 DEF Filled
  <2> QED BY <2>3, <2>4
<1>7. fill \in Nat /\ next \in Nat
  BY <1>1, <1>2, <1>6
<1> DEFINE delta == Max({0, c - p})
           past  == Max({0, Min({d, delta - b * d})})
           wants == IF p < c THEN d - past
                    ELSE IF b = 0 THEN p - c + d ELSE d
<1>8. bounds = [uncached |-> Min({n - fill, wants}), past |-> past]
  BY <1>1, <1>5, <1>22 DEF BeamBounds
<1>9. delta = IF p >= c THEN 0 ELSE c - p
  BY <1>1, MaxIs
<1>10. delta \in Int
  BY <1>1, <1>9
<1> HIDE DEF delta
<1>11. PICK low \in Int : low = Min({d, delta - b * d})
                          /\ low = IF d <= delta - x THEN d ELSE delta - x
  <2>1. delta - b * d \in Int /\ delta - b * d = delta - x
    BY <1>2, <1>10
  <2>2. Min({d, delta - b * d}) = IF d <= delta - x THEN d ELSE delta - x
    BY <2>1, MinIs
  <2> QED BY <2>1, <2>2
<1>12. past = IF 0 >= low THEN 0 ELSE low
  <2>1. Max({0, low}) = IF 0 >= low THEN 0 ELSE low
    BY MaxIs
  <2> QED BY <1>11, <2>1
<1>13. past \in Nat
  BY <1>11, <1>12
<1> HIDE DEF past
<1>14. wants \in Int
  BY <1>1, <1>13
<1>15. PICK some \in Int : some = wants
  BY <1>14
<1>16. some = IF p < c THEN d - past ELSE IF b = 0 THEN p - c + d ELSE d
  BY <1>15
<1> HIDE DEF wants
<1>17. bounds.past = past /\ bounds.uncached = Min({n - fill, some})
  BY <1>8, <1>15
<1>18. PICK un \in Int : un = bounds.uncached
                         /\ un = IF n - fill <= some THEN n - fill ELSE some
  <2>1. n - fill \in Int
    BY <1>7
  <2> QED BY <1>17, <2>1, MinIs
<1>19. PICK t \in Nat : t = past
  BY <1>13
<1>20. /\ un = next - fill /\ un \in Nat
       /\ next <= n
       /\ c <= p => t = 0
       /\ un > 0 => IF b = 0 /\ c <= p
                    THEN fill = 0 /\ un <= p - c + d
                    ELSE c + fill = p + x + t /\ t + un <= d
  <2>1. CASE c <= p /\ b = 0
    BY <1>3, <1>6, <1>9, <1>11, <1>12, <1>16, <1>18, <1>19, <2>1
  <2>2. CASE c <= p /\ b > 0
    BY <1>4, <1>6, <1>9, <1>11, <1>12, <1>16, <1>18, <1>19, <2>2
  <2>3. CASE c > p /\ b = 0
    BY <1>3, <1>6, <1>9, <1>11, <1>12, <1>16, <1>18, <1>19, <2>3
  <2>4. CASE c > p /\ b > 0
    BY <1>4, <1>6, <1>9, <1>11, <1>12, <1>16, <1>18, <1>19, <2>4
  <2> QED BY <2>1, <2>2, <2>3, <2>4
<1>21. un > 0 => BeamPlace(r, c, b, t, fill, un)
  BY <1>1, <1>2, <1>20 DEF BeamPlace
<1> QED BY <1>5, <1>7, <1>17, <1>18, <1>19, <1>20, <1>21, <1>22 DEF BoundsFit

\* The first position of a beam's tokens, and where they stand from there.
LEMMA OwnPositionsOfBeam ==
    ASSUME NEW r \in Mega, NEW c \in Nat, NEW b \in Nat, NEW past \in Nat,
           NEW fill \in Nat, NEW un \in Nat \ {0},
           BeamPlace(r, c, b, past, fill, un), NEW j \in 1..un
    PROVE  FirstPosition(r, b, c, past) + j - 1 = OwnPosition(r, c + (fill + j) - 1)
<1>1. PICK p \in Nat, d \in Nat \ {0} : p = PrefixLen[r] /\ d = DecodeSteps[r]
  BY MegaSizes
<1>2. PICK x \in Nat : x = b * d
  BY <1>1, BeamOffsets
<1>6. IF b = 0 /\ c <= p THEN fill = 0 /\ past = 0 /\ un <= p - c + d
      ELSE c + fill = p + x + past /\ past + un <= d /\ (c <= p => past = 0)
  BY <1>1, <1>2 DEF BeamPlace
<1>3. FirstPosition(r, b, c, past) = IF p < c THEN p + past
                                     ELSE IF b = 0 THEN c ELSE p
  BY <1>1 DEF FirstPosition
<1>4. FirstPosition(r, b, c, past) + j - 1 = OwnPosition(r, c + (fill + j) - 1)
  <2>1. PICK i \in Nat : i = c + (fill + j) - 1
    OBVIOUS
  <2>2. CASE b = 0 /\ c <= p
    <3>1. i = c + j - 1 /\ i < p + d /\ FirstPosition(r, b, c, past) = c
      BY <1>3, <1>6, <2>1, <2>2
    <3>2. CASE i < p
      <4>1. OwnPosition(r, i) = i
        BY <1>1, <3>2 DEF OwnPosition, InBeams
      <4> QED BY <2>1, <3>1, <4>1
    <3>3. CASE i >= p
      <4>1. PICK k \in 0..(d - 1) : i = p + 0 + k
        <5>1. i - p \in 0..(d - 1) /\ i = p + 0 + (i - p)
          BY <3>1, <3>3
        <5> QED BY <5>1
      <4>2. BeamStart(r, p + 0 * d + k) = p + 0 * d
        BY <1>1, BeamStartOf
      <4>3. p + 0 * d = p /\ p + 0 * d + k = i
        BY <4>1
      <4>4. BeamStart(r, i) = p
        BY <4>2, <4>3
      <4>5. OwnPosition(r, i) = p + i - p
        BY <1>1, <3>3, <4>4 DEF OwnPosition, InBeams
      <4> QED BY <2>1, <3>1, <4>5
    <3> QED BY <3>2, <3>3
  <2>3. CASE ~(b = 0 /\ c <= p)
    <3>1. c + fill = p + x + past /\ past + un <= d
      BY <1>6, <2>3
    <3>2. PICK k \in 0..(d - 1) : k = past + j - 1
      BY <3>1
    <3>3. i = p + x + k
      BY <2>1, <3>1, <3>2
    <3>4. BeamStart(r, i) = p + x
      <4>1. BeamStart(r, p + b * d + k) = p + b * d
        BY <1>1, BeamStartOf
      <4> QED BY <1>2, <3>3, <4>1
    <3>5. OwnPosition(r, i) = p + i - (p + x)
      <4>1. i >= p
        BY <3>3
      <4> QED BY <1>1, <3>4, <4>1 DEF OwnPosition, InBeams
    <3>6. OwnPosition(r, i) = p + k
      BY <3>3, <3>5
    <3>7. FirstPosition(r, b, c, past) = p + past
      BY <1>3, <1>6, <2>3
    <3> QED BY <2>1, <3>2, <3>6, <3>7
  <2> QED BY <2>2, <2>3
<1> QED BY <1>4

LEMMA FirstPositionType ==
    ASSUME NEW r \in Mega, NEW c \in Nat, NEW b \in Nat, NEW past \in Nat
    PROVE  FirstPosition(r, b, c, past) \in Int
BY MegaSizes DEF FirstPosition

ChunkState == [positions : Seq(Int), rows : Seq(Token)]

\* One round of _process_mega_decode_request.
LEMMA ChunkBeamType ==
    ASSUME NEW r \in Mega, NEW c \in Nat, NEW n \in Nat, NEW b \in Nat,
           NEW s \in ChunkState
    PROVE  ChunkBeam(r, c, n, b, s) \in ChunkState
<1> DEFINE bounds == BeamBounds(r, b, c, n - Len(s.positions))
           first == FirstPosition(r, b, c, bounds.past)
<1>1. PICK p \in Nat, d \in Nat \ {0} : p = PrefixLen[r] /\ d = DecodeSteps[r]
  BY MegaSizes
<1>2. s.positions \in Seq(Int) /\ s.rows \in Seq(Token) /\ Len(s.positions) \in Nat
  BY DEF ChunkState
<1>3. bounds.past \in Int /\ bounds.uncached \in Int
  <2> DEFINE delta == Max({0, c - p})
             past  == Max({0, Min({d, delta - b * d})})
             wants == IF p < c THEN d - past
                      ELSE IF b = 0 THEN p - c + d ELSE d
  <2>1. bounds = [uncached |-> Min({n - Len(s.positions), wants}), past |-> past]
    BY <1>1 DEF BeamBounds
  <2>2. delta \in Int
    BY <1>1, MaxIs
  <2> HIDE DEF delta
  <2>3. b * d \in Nat
    BY <1>1, BeamOffsets
  <2>4. PICK low \in Int : low = Min({d, delta - b * d})
    <3>1. delta - b * d \in Int /\ d \in Int
      BY <2>2, <2>3
    <3> QED BY <3>1, MinOfTwo
  <2>5. past \in Int
    <3>1. Max({0, low}) \in Int
      BY MaxIs
    <3> QED BY <2>4, <3>1
  <2> HIDE DEF past
  <2>6. wants \in Int
    BY <1>1, <2>5
  <2> HIDE DEF wants
  <2>7. n - Len(s.positions) \in Int
    BY <1>2
  <2>8. Min({n - Len(s.positions), wants}) \in Int
    BY <2>6, <2>7, MinOfTwo
  <2> QED BY <2>1, <2>5, <2>8
<1>4. first \in Int
  BY <1>1, <1>3 DEF FirstPosition
<1>5. CASE bounds.uncached <= 0
  BY <1>5 DEF ChunkBeam
<1>6. CASE ~(bounds.uncached <= 0)
  <2>1. PICK un \in Nat : un = bounds.uncached
    BY <1>3, <1>6
  <2>2. s.positions \o FromTo(first, un) \in Seq(Int)
    BY <1>2, <1>4, RangeType, ConcatProperties
  <2>3. <<r, c + (Len(s.positions) + un) - 1>> \in Token
    BY <1>2 DEF Token, Request
  <2>4. PICK tok \in Token : tok = <<r, c + (Len(s.positions) + un) - 1>>
    BY <2>3
  <2>5. Append(s.rows, tok) \in Seq(Token)
    BY <1>2, AppendProperties
  <2>6. ChunkBeam(r, c, n, b, s)
          = [positions |-> s.positions \o FromTo(first, un),
             rows |-> IF BeamIsComplete(r, bounds) THEN Append(s.rows, tok) ELSE s.rows]
    BY <1>6, <2>1, <2>4 DEF ChunkBeam
  <2> HIDE DEF bounds, first
  <2> QED BY <1>2, <2>2, <2>5, <2>6 DEF ChunkState
<1> QED BY <1>5, <1>6

\* After b beams the tokens laid out stand where they would in a sequence of
\* their own.
LaidOut(r, c, n, b, s) ==
    /\ s \in ChunkState
    /\ Len(s.positions) = Filled(r, c, n, b)
    /\ \A j \in 1..Len(s.positions) : s.positions[j] = OwnPosition(r, c + j - 1)

LEMMA ChunkBeamFills ==
    ASSUME NEW r \in Mega, NEW c \in Nat, NEW n \in Nat, NEW b \in Nat,
           NEW s, LaidOut(r, c, n, b, s)
    PROVE  LaidOut(r, c, n, b + 1, ChunkBeam(r, c, n, b, s))
<1>1. PICK fill, next : fill = Filled(r, c, n, b) /\ next = Filled(r, c, n, b + 1)
  OBVIOUS
<1>2. PICK bounds : bounds = BeamBounds(r, b, c, n - fill)
  OBVIOUS
<1>3. /\ bounds.past \in Nat /\ bounds.uncached \in Nat
      /\ fill \in Nat /\ next \in Nat
      /\ bounds.uncached = next - fill
      /\ bounds.uncached > 0 =>
           BeamPlace(r, c, b, bounds.past, fill, bounds.uncached)
  <2>1. BoundsFit(r, c, n, b, BeamBounds(r, b, c, n - Filled(r, c, n, b)))
    BY BoundsFill
  <2> QED BY <1>1, <1>2, <2>1 DEF BoundsFit
<1>4. PICK un \in Nat, past \in Nat : un = bounds.uncached /\ past = bounds.past
  BY <1>3
<1>5. PICK pos, s2 : pos = s.positions /\ s2 = ChunkBeam(r, c, n, b, s)
  OBVIOUS
<1>6. /\ s \in ChunkState /\ pos \in Seq(Int) /\ Len(pos) = fill
      /\ \A j \in 1..fill : pos[j] = OwnPosition(r, c + j - 1)
  BY <1>1, <1>5 DEF LaidOut, ChunkState
<1>7. s2 \in ChunkState
  BY <1>5, <1>6, ChunkBeamType
<1>8. /\ Len(s2.positions) = next
      /\ \A j \in 1..next : s2.positions[j] = OwnPosition(r, c + j - 1)
  <2>1. CASE un = 0
    <3>1. s2 = s
      <4>1. Len(s.positions) = fill /\ bounds.uncached <= 0
        BY <1>4, <1>5, <1>6, <2>1
      <4> QED BY <1>2, <1>5, <4>1 DEF ChunkBeam
    <3>2. next = fill
      BY <1>3, <1>4, <2>1
    <3> QED BY <1>5, <1>6, <3>1, <3>2
  <2>2. CASE un # 0
    <3>1. PICK first : first = FirstPosition(r, b, c, past)
      OBVIOUS
    <3>2. s2.positions = pos \o FromTo(first, un)
      <4>1. Len(s.positions) = fill /\ ~(bounds.uncached <= 0)
        BY <1>4, <1>5, <1>6, <2>2
      <4> QED BY <1>2, <1>4, <1>5, <3>1, <4>1 DEF ChunkBeam
    <3>3. /\ first \in Int
          /\ \A j \in 1..un : first + j - 1 = OwnPosition(r, c + (fill + j) - 1)
      <4>1. un \in Nat \ {0} /\ un > 0
        BY <2>2
      <4>2. BeamPlace(r, c, b, past, fill, un)
        BY <1>3, <1>4, <4>1
      <4>3. fill \in Nat
        BY <1>3
      <4>4. FirstPosition(r, b, c, past) \in Int
        BY FirstPositionType
      <4>5. ASSUME NEW j \in 1..un
            PROVE  FirstPosition(r, b, c, past) + j - 1
                     = OwnPosition(r, c + (fill + j) - 1)
        BY <4>1, <4>2, <4>3, OwnPositionsOfBeam
      <4> QED BY <3>1, <4>4, <4>5
    <3>4. PICK e : e = FromTo(first, un)
      OBVIOUS
    <3>5. /\ e \in Seq(Int) /\ Len(e) = un /\ \A j \in 1..un : e[j] = first + j - 1
      BY <3>3, <3>4, RangeType
    <3>6. /\ Len(pos \o e) = fill + un
          /\ \A j \in 1..(fill + un) :
               (pos \o e)[j] = IF j <= fill THEN pos[j] ELSE e[j - fill]
      <4>1. pos \in Seq(Int) /\ Len(pos) = fill
        BY <1>6
      <4> QED BY <3>5, <4>1, ConcatProperties
    <3>7. ASSUME NEW j \in 1..(fill + un)
          PROVE  (pos \o e)[j] = OwnPosition(r, c + j - 1)
      <4>1. fill \in Nat
        BY <1>3
      <4>2. CASE j <= fill
        <5>1. j \in 1..fill
          BY <4>1, <4>2
        <5> QED BY <1>6, <3>6, <4>2, <5>1
      <4>3. CASE ~(j <= fill)
        <5>1. PICK k \in 1..un : k = j - fill
          <6>1. j - fill \in 1..un
            BY <4>1, <4>3
          <6> QED BY <6>1
        <5>2. (pos \o e)[j] = first + k - 1
          BY <3>5, <3>6, <4>3, <5>1
        <5>3. fill + k = j
          BY <4>1, <5>1
        <5>4. first + k - 1 = OwnPosition(r, c + (fill + k) - 1)
          BY <3>3
        <5> QED BY <5>2, <5>3, <5>4
      <4> QED BY <4>2, <4>3
    <3>8. fill + un = next
      BY <1>3, <1>4
    <3> QED BY <3>2, <3>4, <3>6, <3>7, <3>8
  <2> QED BY <2>1, <2>2
<1> QED BY <1>1, <1>5, <1>7, <1>8 DEF LaidOut

\* The chunk that completes the prompt, started within the prefix, has all of
\* every beam.
LastChunk(r, c, n) == c <= PrefixLen[r] /\ c + n = NumPrompt(r)

\* Its rounds gather the row of the beam's last token.
LEMMA ChunkBeamRow ==
    ASSUME NEW r \in Mega, NEW c \in Nat, NEW n \in Nat, NEW b \in Nat,
           NEW s, LaidOut(r, c, n, b, s), LastChunk(r, c, n), b < BeamWidth[r]
    PROVE  ChunkBeam(r, c, n, b, s).rows
             = Append(s.rows, BeamEnd(r, b + 1))
<1>1. PICK p \in Nat, d \in Nat \ {0}, w \in Nat \ {0} :
          p = PrefixLen[r] /\ d = DecodeSteps[r] /\ w = BeamWidth[r]
  BY MegaSizes
<1>2. b + 1 \in Nat /\ b + 1 <= w
  BY <1>1
<1>3. PICK x \in Nat, y \in Nat, z \in Nat : x = b * d /\ y = (b + 1) * d /\ z = w * d
  BY <1>1, <1>2, BeamOffsets
<1>4. y = x + d
  BY <1>1, <1>3, BeamOffsets
<1>5. y <= z
  BY <1>1, <1>2, <1>3, BeamOffsets
<1>6. c + n = p + z /\ c <= p
  BY <1>1, <1>3, MegaSizes DEF LastChunk
<1>7. PICK fill, next : fill = Filled(r, c, n, b) /\ next = Filled(r, c, n, b + 1)
  OBVIOUS
<1>8. next = p + y - c
  <2>1. b + 1 # 0 /\ ~(p + y - c <= 0) /\ p + y - c <= n
    BY <1>4, <1>5, <1>6
  <2>2. PrefixLen[r] + (b + 1) * DecodeSteps[r] - c = p + y - c
    BY <1>1, <1>3
  <2> QED BY <1>7, <2>1, <2>2 DEF Filled
<1>9. fill = IF b = 0 THEN 0 ELSE p + x - c
  <2>1. CASE b = 0
    BY <1>7, <2>1 DEF Filled
  <2>2. CASE b # 0
    <3>1. x >= d
      <4>1. PICK e \in Nat : b = e + 1
        <5>1. b - 1 \in Nat /\ b = (b - 1) + 1
          BY <2>2
        <5> QED BY <5>1
      <4>2. e * d \in Nat /\ (e + 1) * d = e * d + d
        BY <1>1, BeamOffsets
      <4> QED BY <1>1, <1>3, <4>1, <4>2
    <3>2. ~(p + x - c <= 0) /\ p + x - c <= n
      BY <1>4, <1>5, <1>6, <3>1
    <3>3. PrefixLen[r] + b * DecodeSteps[r] - c = p + x - c
      BY <1>1, <1>3
    <3> QED BY <1>7, <2>2, <3>2, <3>3 DEF Filled
  <2> QED BY <2>1, <2>2
<1>10. PICK bounds : bounds = BeamBounds(r, b, c, n - fill)
  OBVIOUS
<1>11. bounds.past \in Nat /\ bounds.uncached = next - fill
  <2>1. BoundsFit(r, c, n, b, BeamBounds(r, b, c, n - Filled(r, c, n, b)))
    BY BoundsFill
  <2> QED BY <1>7, <1>10, <2>1 DEF BoundsFit
<1>12. PICK un \in Int : un = bounds.uncached /\ un = next - fill /\ un >= d
  <2>1. next - fill \in Int /\ next - fill >= d
    <3>1. CASE b = 0
      <4>1. x = 0
        BY <1>1, <1>3, <3>1
      <4> QED BY <1>4, <1>6, <1>8, <1>9, <3>1, <4>1
    <3>2. CASE b # 0
      BY <1>4, <1>8, <1>9, <3>2
    <3> QED BY <3>1, <3>2
  <2> QED BY <1>11, <2>1
<1>13. BeamIsComplete(r, bounds) /\ ~(bounds.uncached <= 0)
  <2>1. bounds.past + bounds.uncached >= d
    BY <1>11, <1>12
  <2>2. ~(bounds.uncached <= 0)
    BY <1>12
  <2> QED BY <1>1, <2>1, <2>2 DEF BeamIsComplete
<1>14. Len(s.positions) = fill
  BY <1>7 DEF LaidOut
<1>15. ChunkBeam(r, c, n, b, s).rows
         = Append(s.rows, <<r, c + (fill + bounds.uncached) - 1>>)
  BY <1>10, <1>13, <1>14 DEF ChunkBeam
<1>16. fill \in Int
  BY <1>9
<1>17. fill + un = next
  BY <1>8, <1>12, <1>16
<1>18. c + (fill + bounds.uncached) - 1 = p + y - 1
  BY <1>8, <1>12, <1>17
<1>19. BeamEnd(r, b + 1) = <<r, p + y - 1>>
  BY <1>1, <1>3 DEF BeamEnd
<1> QED BY <1>15, <1>18, <1>19

\* g[b] is what the first b rounds of _process_mega_decode_request lay out.
ChunkRounds(g, r, c, n) ==
    /\ g[0] = [positions |-> <<>>, rows |-> <<>>]
    /\ \A k \in 1..BeamWidth[r] : g[k] = ChunkBeam(r, c, n, k - 1, g[k - 1])
    /\ \A k \in 0..BeamWidth[r] : g[k] \in ChunkState
    /\ MegaChunk(r, c, n) = g[BeamWidth[r]]

LEMMA MegaChunkLoops ==
    ASSUME NEW r \in Mega, NEW c \in Nat, NEW n \in Nat
    PROVE  \E g : ChunkRounds(g, r, c, n)
<1>1. PICK N \in Nat : N = BeamWidth[r]
  BY MegaSizes
<1> DEFINE base == [positions |-> <<>>, rows |-> <<>>]
           F == [k \in 1..N |-> [s \in ChunkState |-> ChunkBeam(r, c, n, k - 1, s)]]
<1>2. base \in ChunkState
  BY EmptySeq DEF ChunkState
<1>3. ASSUME NEW k \in 1..N, NEW s \in ChunkState
      PROVE  ChunkBeam(r, c, n, k - 1, s) \in ChunkState
  BY ChunkBeamType
<1>4. Loop(N, ChunkState, base, F)
  BY <1>2, <1>3 DEF Loop
<1>5. PICK g : LoopValues(g, N, ChunkState, base, F)
  <2> HIDE DEF F, base
  <2> QED BY <1>4, LoopExists
<1>6. g \in [0..N -> ChunkState] /\ g[0] = base
  BY <1>5 DEF LoopValues
<1>7. ASSUME NEW k \in 1..N PROVE g[k] = ChunkBeam(r, c, n, k - 1, g[k - 1])
  <2>1. g[k] = F[k][g[k - 1]]
    BY <1>5 DEF LoopValues
  <2>2. k - 1 \in 0..N
    OBVIOUS
  <2>3. g[k - 1] \in ChunkState
    BY <1>6, <2>2
  <2> QED BY <2>1, <2>3
<1> HIDE DEF F
<1> DEFINE f == CHOOSE f : f = [b \in 0..N |-> IF b = 0 THEN base
                                              ELSE ChunkBeam(r, c, n, b - 1, f[b - 1])]
<1>8. g = [b \in 0..N |-> IF b = 0 THEN base ELSE ChunkBeam(r, c, n, b - 1, g[b - 1])]
  <2>1. ASSUME NEW k \in 0..N
        PROVE  g[k] = IF k = 0 THEN base ELSE ChunkBeam(r, c, n, k - 1, g[k - 1])
    <3>1. CASE k = 0
      BY <1>6, <3>1
    <3>2. CASE k # 0
      <4>1. k \in 1..N
        BY <3>2
      <4> QED BY <1>7, <3>2, <4>1
    <3> QED BY <3>1, <3>2
  <2> HIDE DEF base
  <2> QED BY <1>6, <2>1
<1>9. f = [b \in 0..N |-> IF b = 0 THEN base ELSE ChunkBeam(r, c, n, b - 1, f[b - 1])]
  <2> HIDE DEF base
  <2> QED BY <1>8
<1>10. MegaChunk(r, c, n) = f[N]
  BY <1>1 DEF MegaChunk
<1> HIDE DEF f
<1>11. \A k \in 0..N : f[k] = g[k]
  <2> DEFINE A == {k \in 0..N : f[k] = g[k]}
  <2>1. 0 \in A
    <3>1. 0 \in 0..N
      OBVIOUS
    <3> HIDE DEF base
    <3>2. f[0] = base
      BY <1>9, <3>1
    <3> QED BY <1>6, <3>1, <3>2
  <2>2. ASSUME NEW k \in 1..N, k - 1 \in A PROVE k \in A
    <3>1. k \in 0..N /\ k # 0
      OBVIOUS
    <3> HIDE DEF base
    <3>2. f[k] = ChunkBeam(r, c, n, k - 1, f[k - 1])
      BY <1>9, <3>1
    <3>3. g[k] = ChunkBeam(r, c, n, k - 1, g[k - 1])
      BY <1>7
    <3> QED BY <2>2, <3>1, <3>2, <3>3
  <2>3. \A k \in 0..N : k \in A
    <3> HIDE DEF A
    <3> QED BY <2>1, <2>2, InductionTo
  <2> QED BY <2>3
<1>12. MegaChunk(r, c, n) = g[N]
  BY <1>10, <1>11
<1>13. \A k \in 0..N : g[k] \in ChunkState
  BY <1>6
<1>14. ChunkRounds(g, r, c, n)
  BY <1>1, <1>6, <1>7, <1>12, <1>13 DEF ChunkRounds
<1> QED BY <1>14

LEMMA MegaChunkType ==
    ASSUME NEW r \in Mega, NEW c \in Nat, NEW n \in Nat
    PROVE  MegaChunk(r, c, n) \in ChunkState
<1>1. PICK g : ChunkRounds(g, r, c, n)
  BY MegaChunkLoops
<1>2. BeamWidth[r] \in 0..BeamWidth[r]
  BY MegaSizes
<1> QED BY <1>1, <1>2 DEF ChunkRounds

\* Wherever the scheduler cuts the prompt, each token of the chunk stands where
\* it would in a sequence of its own.
LEMMA MegaChunkPositions ==
    ASSUME NEW r \in Mega, NEW c \in Nat, NEW n \in Nat, c + n <= NumPrompt(r)
    PROVE  /\ Len(MegaChunk(r, c, n).positions) = n
           /\ \A j \in 1..n :
                MegaChunk(r, c, n).positions[j] = OwnPosition(r, c + j - 1)
<1>1. PICK p \in Nat, d \in Nat \ {0}, N \in Nat \ {0} :
          p = PrefixLen[r] /\ d = DecodeSteps[r] /\ N = BeamWidth[r]
  BY MegaSizes
<1>10. PICK g : ChunkRounds(g, r, c, n)
  BY MegaChunkLoops
<1>2. /\ g[0] = [positions |-> <<>>, rows |-> <<>>]
      /\ \A k \in 1..N : g[k] = ChunkBeam(r, c, n, k - 1, g[k - 1])
      /\ MegaChunk(r, c, n) = g[N]
  BY <1>1, <1>10 DEF ChunkRounds
<1> DEFINE A == {b \in 0..N : LaidOut(r, c, n, b, g[b])}
<1>3. 0 \in A
  <2>1. g[0] \in ChunkState /\ Len(g[0].positions) = 0
    BY <1>2, EmptySeq DEF ChunkState
  <2>2. Filled(r, c, n, 0) = 0
    BY DEF Filled
  <2>3. LaidOut(r, c, n, 0, g[0])
    BY <2>1, <2>2 DEF LaidOut
  <2> QED BY <2>3
<1>4. ASSUME NEW k \in 1..N, k - 1 \in A PROVE k \in A
  <2>1. PICK b \in Nat : b = k - 1 /\ b + 1 = k
    OBVIOUS
  <2>2. LaidOut(r, c, n, b, g[b])
    BY <1>4, <2>1
  <2>3. g[k] = ChunkBeam(r, c, n, b, g[b])
    BY <1>2, <2>1
  <2>4. LaidOut(r, c, n, b + 1, ChunkBeam(r, c, n, b, g[b]))
    BY <2>2, ChunkBeamFills
  <2>5. LaidOut(r, c, n, k, g[k])
    BY <2>1, <2>3, <2>4
  <2> QED BY <2>5
<1>5. \A k \in 0..N : k \in A
  <2> HIDE DEF A
  <2> QED BY <1>3, <1>4, InductionTo
<1>6. LaidOut(r, c, n, N, MegaChunk(r, c, n))
  BY <1>2, <1>5
<1>7. Filled(r, c, n, N) = n
  <2>1. PICK z \in Nat : z = N * d
    BY <1>1, BeamOffsets
  <2>2. c + n <= p + z
    BY <1>1, <2>1, MegaSizes
  <2>3. p + z - c >= n /\ n \in Int
    BY <2>2
  <2>4. PrefixLen[r] + N * DecodeSteps[r] - c = p + z - c
    BY <1>1, <2>1
  <2>5. Filled(r, c, n, N) = IF N = 0 \/ p + z - c <= 0 THEN 0
                             ELSE IF p + z - c <= n THEN p + z - c ELSE n
    BY <2>4 DEF Filled
  <2> QED BY <2>3, <2>5
<1> QED BY <1>6, <1>7 DEF LaidOut

\* The chunk that completes the prompt, started within the prefix, gathers the
\* row of the last token of each beam, in beam order.
BeamEnds(r) == [b \in 1..BeamWidth[r] |-> BeamEnd(r, b)]

LEMMA MegaChunkRows ==
    ASSUME NEW r \in Mega, NEW c \in Nat, NEW n \in Nat, LastChunk(r, c, n)
    PROVE  MegaChunk(r, c, n).rows = BeamEnds(r)
<1>1. PICK p \in Nat, d \in Nat \ {0}, N \in Nat \ {0} :
          p = PrefixLen[r] /\ d = DecodeSteps[r] /\ N = BeamWidth[r]
  BY MegaSizes
<1>10. PICK g : ChunkRounds(g, r, c, n)
  BY MegaChunkLoops
<1>2. /\ g[0] = [positions |-> <<>>, rows |-> <<>>]
      /\ \A k \in 1..N : g[k] = ChunkBeam(r, c, n, k - 1, g[k - 1])
      /\ MegaChunk(r, c, n) = g[N]
  BY <1>1, <1>10 DEF ChunkRounds
<1> DEFINE ends(k) == [b \in 1..k |-> BeamEnd(r, b)]
           A == {b \in 0..N : LaidOut(r, c, n, b, g[b]) /\ g[b].rows = ends(b)}
<1>3. 0 \in A
  <2>1. g[0] \in ChunkState /\ Len(g[0].positions) = 0 /\ g[0].rows = <<>>
    BY <1>2, EmptySeq DEF ChunkState
  <2>2. Filled(r, c, n, 0) = 0
    BY DEF Filled
  <2>3. LaidOut(r, c, n, 0, g[0])
    BY <2>1, <2>2 DEF LaidOut
  <2>4. ends(0) = <<>>
    OBVIOUS
  <2> HIDE DEF ends
  <2> QED BY <2>1, <2>3, <2>4
<1>4. ASSUME NEW k \in 1..N, k - 1 \in A PROVE k \in A
  <2>1. PICK b \in Nat : b = k - 1 /\ b + 1 = k
    OBVIOUS
  <2>2. LaidOut(r, c, n, b, g[b]) /\ g[b].rows = ends(b)
    BY <1>4, <2>1
  <2>3. g[k] = ChunkBeam(r, c, n, b, g[b])
    BY <1>2, <2>1
  <2>4. LaidOut(r, c, n, b + 1, ChunkBeam(r, c, n, b, g[b]))
    BY <2>2, ChunkBeamFills
  <2>5. LaidOut(r, c, n, k, g[k])
    BY <2>1, <2>3, <2>4
  <2>6. b < BeamWidth[r]
    BY <1>1, <2>1
  <2>7. g[k].rows = Append(g[b].rows, BeamEnd(r, b + 1))
    <3> HIDE DEF ends, A
    <3>1. ASSUME NEW s, LaidOut(r, c, n, b, s)
          PROVE  ChunkBeam(r, c, n, b, s).rows = Append(s.rows, BeamEnd(r, b + 1))
      BY <2>6, <3>1, ChunkBeamRow
    <3>2. ChunkBeam(r, c, n, b, g[b]).rows = Append(g[b].rows, BeamEnd(r, b + 1))
      BY <2>2, <3>1
    <3> QED BY <2>3, <3>2
  <2>8. g[k].rows = Append(ends(b), BeamEnd(r, k))
    BY <2>1, <2>2, <2>7
  <2>9. Append(ends(b), BeamEnd(r, k)) = ends(k)
    <3>1. ends(b) = [i \in 1..b |-> BeamEnd(r, i)] /\ ends(k) = [i \in 1..(b + 1) |-> BeamEnd(r, i)]
      BY <2>1
    <3> QED BY <2>1, <3>1
  <2> HIDE DEF ends
  <2>10. k \in 0..N
    OBVIOUS
  <2> QED BY <2>5, <2>8, <2>9, <2>10
<1>5. \A k \in 0..N : k \in A
  <2> HIDE DEF A
  <2> QED BY <1>3, <1>4, InductionTo
<1>6. MegaChunk(r, c, n).rows = ends(N)
  <2> HIDE DEF ends
  <2>1. N \in 0..N
    OBVIOUS
  <2> QED BY <1>2, <1>5, <2>1
<1> QED BY <1>1, <1>6 DEF BeamEnds

-----------------------------------------------------------------------------
(* What a step and the answers are made of *)

\* An answer is read in segments of log-probabilities.
LogprobEntry == Token \X Nat
Answer == Seq(Seq(LogprobEntry))

Counts ==
    /\ result \in [Request -> Seq(Answer)]
    /\ preemptions \in [Request -> Nat]
    /\ \A r \in Request : preemptions[r] <= MaxPreemptions[r]
    /\ \A r \in Request : fresh[r] <= computed[r] /\ computed[r] <= NumTokens(r)
    /\ \A r \in Request : status[r] = "waiting" => fresh[r] = 0

\* A request has one entry in a step, and its tokens are among those computed.
BatchFits ==
    /\ DOMAIN mega_data = DOMAIN batch
    /\ \A i \in DOMAIN batch :
          /\ batch[i].n <= TokenBudget
          /\ mega_data[i] \in 0..computed[batch[i].req]
          /\ \A j \in DOMAIN batch : batch[i].req = batch[j].req => i = j

\* The layout of the i-th chunk, when cache_len says where it starts.
LaidOutChunk(i) ==
    LET r == batch[i].req
        c == CacheLen(batch[i])
    IN  IF ~HasMega THEN VllmChunk(r, c, batch[i].n)
        ELSE IF r \in Mega THEN MegaChunk(r, c, batch[i].n)
        ELSE PlainChunk(r, c, batch[i].n)

RowsAreLaidOut ==
    phase \in {"build", "sample"} =>
        /\ rows = FlattenSeq([i \in DOMAIN batch |-> LaidOutChunk(i).rows])
        /\ row_configs = [i \in DOMAIN batch |-> Len(LaidOutChunk(i).rows)]

\* A step with a mega chunk that starts inside the beams is never sampled.
AssertionHeld ==
    phase = "sample" =>
        \A i \in DOMAIN batch :
            batch[i].req \in Mega => CacheLen(batch[i]) <= PrefixLen[batch[i].req]

\* What can be read of the logits of r itself, or of no row.
OwnEntries(r) == ({r} \X (-1..(NumTokens(r) - 1))) \X Nat

\* What is due to a mega request, and to an ordinary one as its k-th answer.
MegaDue(r) == [b \in 1..BeamWidth[r] |-> Entries(BeamEnd(r, b), 1 + BeamWidth[r])]
PlainDue(r, k) == << Entries(<<r, PromptLen[r] + k - 2>>, 1 + Logprobs[r]) >>

Wider(r) == {m \in Mega : BeamWidth[m] > BeamWidth[r]}

\* A finished mega request was answered once: with what is due to it, or, next
\* to a wider one, at least to its first beam.
MegaIsOwn(r) ==
    /\ status[r] # "finished" => result[r] = <<>>
    /\ status[r] = "finished" =>
          /\ Len(result[r]) = 1
          /\ result[r][1] = MegaDue(r) \/ Wider(r) # {}
          /\ result[r][1][1] = MegaDue(r)[1]

\* The first answer of an ordinary request is its own, and all are where there
\* are no mega requests it could decode among.
PlainIsOwn(r) ==
    /\ Len(result[r]) <= MaxTokens[r]
    /\ status[r] = "finished" <=> Len(result[r]) = MaxTokens[r]
    /\ \A k \in DOMAIN result[r] :
          k = 1 \/ Mega = {} => result[r][k] = PlainDue(r, k)

AnswersAreOwn ==
    /\ \A r \in Mega : MegaIsOwn(r)
    /\ \A r \in Plain : PlainIsOwn(r)
    /\ \A r \in Request : result[r] \in Seq(Seq(Seq(OwnEntries(r))))

AnswerInv ==
    /\ LayoutInv
    /\ Counts
    /\ BatchFits
    /\ RowsAreLaidOut
    /\ AssertionHeld
    /\ AnswersAreOwn
    /\ phase \in {"schedule", "build", "sample", "failed"}

-----------------------------------------------------------------------------

LEMMA NumPromptType ==
    ASSUME NEW r \in Request
    PROVE  NumPrompt(r) \in Nat \ {0}
<1>1. CASE r \in Mega
  <2>1. PICK p \in Nat \ {0}, z \in Nat : NumPrompt(r) = p + z
    <3>1. PrefixLen[r] \in Nat \ {0} /\ BeamWidth[r] * DecodeSteps[r] \in Nat
      BY <1>1, MegaSizes, BeamOffsets
    <3> QED BY <1>1, <3>1 DEF NumPrompt
  <2> QED BY <2>1
<1>2. CASE r \notin Mega
  BY <1>2, PlainAssumption DEF NumPrompt, Request
<1> QED BY <1>1, <1>2

\* Where the i-th chunk of a step starts and ends.
LEMMA ChunkBounds ==
    ASSUME AnswerInv, NEW i \in DOMAIN batch
    PROVE  /\ CacheLen(batch[i]) \in Nat
           /\ CacheLen(batch[i]) + batch[i].n = computed[batch[i].req]
           /\ computed[batch[i].req] <= NumTokens(batch[i].req)
           /\ batch[i].req \in Mega => NumTokens(batch[i].req) = NumPrompt(batch[i].req)
<1>1. PICK r \in Request, n \in Nat \ {0}, c \in Int, f \in Nat :
          /\ r = batch[i].req /\ n = batch[i].n /\ c = computed[r] /\ f = fresh[r]
          /\ status[r] = "running" /\ n <= f
  <2>1. LayoutInv
    BY DEF AnswerInv
  <2> QED BY <2>1, BatchEntry
<1>2. f <= c /\ c <= NumTokens(r)
  BY <1>1 DEF AnswerInv, Counts
<1>3. CacheLen(batch[i]) = c - n
  BY <1>1 DEF CacheLen
<1>4. ASSUME r \in Mega PROVE NumTokens(r) = NumPrompt(r)
  <2>1. result[r] = <<>>
    BY <1>1, <1>4 DEF AnswerInv, AnswersAreOwn, MegaIsOwn
  <2> QED BY <2>1, NumPromptType, EmptySeq DEF NumTokens
<1> QED BY <1>1, <1>2, <1>3, <1>4

\* vLLM's own layout, and that of an ordinary request among mega requests.
LEMMA OrdinaryChunk ==
    ASSUME NEW r \in Request, r \notin Mega, NEW c \in Nat, NEW n \in Nat \ {0}
    PROVE  /\ VllmChunk(r, c, n) \in ChunkState
           /\ PlainChunk(r, c, n) \in ChunkState
           /\ VllmChunk(r, c, n).positions = FromTo(c, n)
           /\ PlainChunk(r, c, n).positions = FromTo(c, n)
<1>1. FromTo(c, n) \in Seq(Int)
  BY RangeType
<1>2. PICK tok \in Token : tok = <<r, c + n - 1>>
  <2>1. <<r, c + n - 1>> \in Token
    BY DEF Token
  <2> QED BY <2>1
<1>3. << tok >> \in Seq(Token) /\ <<>> \in Seq(Token)
  BY <1>2, EmptySeq
<1> QED BY <1>1, <1>2, <1>3 DEF VllmChunk, PlainChunk, ChunkState

\* Each token of the i-th chunk is laid out where it would stand in a sequence
\* of its own.
LEMMA LaidOutPositions ==
    ASSUME AnswerInv, NEW i \in DOMAIN batch
    PROVE  /\ LaidOutChunk(i) \in ChunkState
           /\ Len(LaidOutChunk(i).positions) = batch[i].n
           /\ \A j \in 1..batch[i].n :
                LaidOutChunk(i).positions[j]
                  = OwnPosition(batch[i].req, CacheLen(batch[i]) + j - 1)
<1>1. PICK r \in Request, n \in Nat \ {0}, c \in Nat :
          /\ r = batch[i].req /\ n = batch[i].n /\ c = CacheLen(batch[i])
          /\ r \in Mega => c + n <= NumPrompt(r)
  <2>1. LayoutInv
    BY DEF AnswerInv
  <2>2. batch[i].req \in Request /\ batch[i].n \in Nat \ {0}
    BY <2>1, BatchEntry
  <2> QED BY <2>2, ChunkBounds
<1>2. CASE r \in Mega
  <2>1. HasMega
    BY <1>1, <1>2 DEF HasMega, Scheduled
  <2>2. LaidOutChunk(i) = MegaChunk(r, c, n)
    BY <1>1, <1>2, <2>1 DEF LaidOutChunk
  <2>3. c + n <= NumPrompt(r)
    BY <1>1, <1>2
  <2>4. PICK m : m = MegaChunk(r, c, n)
    OBVIOUS
  <2>5. m \in ChunkState
    BY <1>2, <2>4, MegaChunkType
  <2>6. Len(m.positions) = n /\ \A j \in 1..n : m.positions[j] = OwnPosition(r, c + j - 1)
    BY <1>2, <2>3, <2>4, MegaChunkPositions
  <2> QED BY <1>1, <2>2, <2>4, <2>5, <2>6
<1>3. CASE r \notin Mega
  <2>1. LaidOutChunk(i) \in {VllmChunk(r, c, n), PlainChunk(r, c, n)}
    BY <1>1, <1>3 DEF LaidOutChunk
  <2>2. LaidOutChunk(i) \in ChunkState /\ LaidOutChunk(i).positions = FromTo(c, n)
    BY <1>3, <2>1, OrdinaryChunk
  <2>3. \A j \in 1..n : OwnPosition(r, c + j - 1) = c + j - 1
    BY <1>3 DEF OwnPosition, InBeams
  <2>4. PICK p : p = FromTo(c, n)
    OBVIOUS
  <2>5. Len(p) = n /\ \A j \in 1..n : p[j] = c + j - 1
    BY <2>4 DEF FromTo
  <2> QED BY <1>1, <2>2, <2>3, <2>4, <2>5
<1> QED BY <1>2, <1>3

LEMMA ChunkIsLaidOut ==
    ASSUME AnswerInv, phase = "schedule", NEW i \in DOMAIN batch
    PROVE  Chunk(i) = LaidOutChunk(i)
<1>1. mega_data[i] = CacheLen(batch[i])
  BY DEF AnswerInv, LayoutInv, CacheLenIsStart
<1> QED BY <1>1 DEF Chunk, LaidOutChunk

\* patched_prepare_inputs gives every token of the step its own position.
LEMMA PreparePositions ==
    ASSUME AnswerInv, PrepareInputs
    PROVE  PositionsAreTheBeams'
<1> DEFINE ps == [i \in DOMAIN batch |-> LaidOutChunk(i).positions]
           ts == [i \in DOMAIN batch |->
                    TokensOf(batch[i], CacheLen(batch[i]), batch[i].n)]
<1>1. PICK N \in Nat : N = Len(batch) /\ DOMAIN batch = 1..N
  BY DEF AnswerInv, LayoutInv
<1>2. ASSUME NEW i \in DOMAIN batch
      PROVE  /\ batch[i].req \in Request /\ batch[i].n \in Nat
             /\ CacheLen(batch[i]) \in Nat
  BY BatchEntry, ChunkBounds DEF AnswerInv
<1>3. ps \in Seq(Seq(Int)) /\ Len(ps) = N
  <2>1. \A i \in 1..N : LaidOutChunk(i).positions \in Seq(Int)
    BY <1>1, LaidOutPositions DEF ChunkState
  <2> QED BY <1>1, <2>1
<1>4. ts \in Seq(Seq(Token)) /\ Len(ts) = N
  <2>1. \A i \in 1..N : TokensOf(batch[i], CacheLen(batch[i]), batch[i].n) \in Seq(Token)
    BY <1>1, <1>2, TokensType
  <2> QED BY <1>1, <2>1
<1>5. ASSUME NEW i \in 1..N
      PROVE  /\ Len(ps[i]) = batch[i].n /\ Len(ts[i]) = batch[i].n
             /\ \A j \in 1..batch[i].n :
                  /\ ts[i][j] = <<batch[i].req, CacheLen(batch[i]) + j - 1>>
                  /\ ps[i][j] = OwnPosition(batch[i].req, CacheLen(batch[i]) + j - 1)
  <2>1. i \in DOMAIN batch
    BY <1>1
  <2>2. ps[i] = LaidOutChunk(i).positions
        /\ ts[i] = TokensOf(batch[i], CacheLen(batch[i]), batch[i].n)
    BY <2>1
  <2> HIDE DEF ps, ts
  <2> QED BY <1>2, <2>1, <2>2, TokensType, LaidOutPositions
<1>6. Tokens = FlattenSeq(ts)
  BY DEF Tokens
<1>7. positions' = FlattenSeq(ps) /\ Tokens' = Tokens
  <2>1. /\ phase = "schedule"
        /\ positions' = FlattenSeq([i \in DOMAIN batch |->
                          [k \in DOMAIN batch |-> Chunk(k)][i].positions])
        /\ batch' = batch /\ computed' = computed
    BY DEF PrepareInputs, scheduler
  <2>2. [i \in DOMAIN batch |-> [k \in DOMAIN batch |-> Chunk(k)][i].positions] = ps
    <3>1. \A i \in DOMAIN batch : Chunk(i) = LaidOutChunk(i)
      BY <2>1, ChunkIsLaidOut
    <3> QED BY <3>1
  <2>3. Tokens' = Tokens
    BY <2>1 DEF Tokens, CacheLen
  <2> QED BY <2>1, <2>2, <2>3
<1> HIDE DEF ps, ts
<1>8. PlaceByPlace(FlattenSeq(ps), FlattenSeq(ts), ps, ts)
  <2>1. SameShape(ps, ts)
    BY <1>3, <1>4, <1>5 DEF SameShape
  <2> QED BY <1>3, <1>4, <2>1, FlattenTogether
<1>9. PICK P, T : P = FlattenSeq(ps) /\ T = FlattenSeq(ts)
  OBVIOUS
<1>14. PlaceByPlace(P, T, ps, ts)
  BY <1>8, <1>9
<1>10. P \in Seq(Int) /\ T \in Seq(Token) /\ Len(P) = Len(T)
  BY <1>3, <1>4, <1>9, <1>14, FlattenType DEF PlaceByPlace
<1>11. ASSUME NEW t \in DOMAIN T
       PROVE  P[t] = OwnPosition(T[t][1], T[t][2])
  <2>1. t \in 1..Len(P)
    BY <1>10
  <2>2. PICK i \in 1..N : \E j \in 1..Len(ps[i]) : P[t] = ps[i][j] /\ T[t] = ts[i][j]
    BY <1>3, <1>14, <2>1 DEF PlaceByPlace
  <2>3. PICK j \in 1..batch[i].n : P[t] = ps[i][j] /\ T[t] = ts[i][j]
    BY <1>5, <2>2
  <2>4. /\ T[t] = <<batch[i].req, CacheLen(batch[i]) + j - 1>>
        /\ P[t] = OwnPosition(batch[i].req, CacheLen(batch[i]) + j - 1)
    BY <1>5, <2>3
  <2> QED BY <2>4
<1>12. P = [t \in DOMAIN T |-> OwnPosition(T[t][1], T[t][2])]
  BY <1>10, <1>11
<1>13. positions' = P /\ Tokens' = T
  BY <1>6, <1>7, <1>9
<1> QED BY <1>12, <1>13 DEF PositionsAreTheBeams

-----------------------------------------------------------------------------
(* What a request is answered with *)

\* A stretch of a sequence.
LEMMA StretchIs ==
    ASSUME NEW S, NEW s \in Seq(S), NEW a \in Nat, NEW m \in Nat, a + m <= Len(s)
    PROVE  /\ SubSeq(s, a + 1, a + m) \in Seq(S)
           /\ Len(SubSeq(s, a + 1, a + m)) = m
           /\ \A j \in 1..m : SubSeq(s, a + 1, a + m)[j] = s[a + j]
<1>1. PICK l \in Nat : l = Len(s) /\ DOMAIN s = 1..l
  OBVIOUS
<1>2. PICK u : u = SubSeq(s, a + 1, a + m)
  OBVIOUS
<1>3. u = [j \in 1..m |-> s[a + j]]
  <2>1. u = [j \in 1..((a + m) - (a + 1) + 1) |-> s[(a + 1) + j - 1]]
    BY <1>2
  <2>2. (a + m) - (a + 1) + 1 = m /\ \A j \in 1..m : (a + 1) + j - 1 = a + j
    OBVIOUS
  <2> QED BY <2>1, <2>2
<1>4. \A j \in 1..m : s[a + j] \in S
  BY <1>1
<1>5. u \in Seq(S) /\ Len(u) = m /\ \A j \in 1..m : u[j] = s[a + j]
  BY <1>3, <1>4
<1> QED BY <1>2, <1>5

\* The places of a concatenation.
LEMMA JoinIs ==
    ASSUME NEW S, NEW x \in Seq(S), NEW y \in Seq(S)
    PROVE  /\ x \o y \in Seq(S) /\ Len(x \o y) = Len(x) + Len(y)
           /\ \A t \in 1..Len(x) : (x \o y)[t] = x[t]
           /\ \A t \in 1..Len(y) : (x \o y)[Len(x) + t] = y[t]
<1> PICK l \in Nat, n \in Nat : l = Len(x) /\ n = Len(y)
  OBVIOUS
<1>1. \A t \in 1..(Len(x) + Len(y)) : (x \o y)[t] = IF t <= Len(x) THEN x[t] ELSE y[t - Len(x)]
  BY ConcatProperties
<1>2. \A t \in 1..(l + n) : (x \o y)[t] = IF t <= l THEN x[t] ELSE y[t - l]
  BY <1>1
<1>3. ASSUME NEW t \in 1..l PROVE (x \o y)[t] = x[t]
  <2>1. t \in 1..(l + n) /\ t <= l
    OBVIOUS
  <2> QED BY <1>2, <2>1
<1>4. ASSUME NEW t \in 1..n PROVE (x \o y)[l + t] = y[t]
  <2>1. l + t \in 1..(l + n) /\ ~(l + t <= l) /\ (l + t) - l = t
    OBVIOUS
  <2> QED BY <1>2, <2>1
<1>5. x \o y \in Seq(S) /\ Len(x \o y) = Len(x) + Len(y)
  BY ConcatProperties
<1> QED BY <1>3, <1>4, <1>5

LEMMA LargestOf ==
    ASSUME NEW N \in Nat \ {0}, NEW f, \A k \in 1..N : f[k] \in Int
    PROVE  \E k \in 1..N : /\ Max({f[j] : j \in 1..N}) = f[k]
                           /\ \A j \in 1..N : f[j] <= f[k]
<1> DEFINE Largest(n) == \E k \in 1..n : \A j \in 1..n : f[j] <= f[k]
           A == {n \in 0..N : n = 0 \/ Largest(n)}
<1>1. 0 \in A
  OBVIOUS
<1>2. ASSUME NEW n \in 1..N, n - 1 \in A PROVE n \in A
  <2>1. CASE n = 1
    <3>1. \A j \in 1..n : j = n
      BY <2>1
    <3>2. n \in 1..n /\ f[n] <= f[n]
      OBVIOUS
    <3> QED BY <3>1, <3>2
  <2>2. CASE n # 1
    <3>1. PICK k \in 1..(n - 1) : \A j \in 1..(n - 1) : f[j] <= f[k]
      BY <1>2, <2>2
    <3>2. k \in 1..N /\ k \in 1..n /\ n \in 1..n /\ n \in 0..N
      OBVIOUS
    <3>3. \A j \in 1..n : j \in 1..(n - 1) \/ j = n
      OBVIOUS
    <3>4. CASE f[k] <= f[n]
      <4>1. ASSUME NEW j \in 1..n PROVE f[j] <= f[n]
        <5>1. j \in 1..N /\ f[j] \in Int /\ f[k] \in Int /\ f[n] \in Int
          BY <3>2
        <5>2. j = n \/ f[j] <= f[k]
          BY <3>1, <3>3
        <5> QED BY <3>4, <5>1, <5>2
      <4> QED BY <3>2, <4>1
    <3>5. CASE ~(f[k] <= f[n])
      <4>1. ASSUME NEW j \in 1..n PROVE f[j] <= f[k]
        <5>1. f[k] \in Int /\ f[n] \in Int
          BY <3>2
        <5>2. j = n \/ f[j] <= f[k]
          BY <3>1, <3>3
        <5> QED BY <3>5, <5>1, <5>2
      <4> QED BY <3>2, <4>1
    <3> QED BY <3>4, <3>5
  <2> QED BY <2>1, <2>2
<1>3. \A n \in 0..N : n \in A
  <2> HIDE DEF A
  <2> QED BY <1>1, <1>2, InductionTo
<1>4. PICK k \in 1..N : \A j \in 1..N : f[j] <= f[k]
  <2>1. N \in 0..N /\ N # 0
    OBVIOUS
  <2> QED BY <1>3, <2>1
<1>5. PICK S : S = {f[j] : j \in 1..N}
  OBVIOUS
<1>6. f[k] \in S /\ S \subseteq Int /\ \A y \in S : y <= f[k]
  BY <1>4, <1>5
<1>7. f[k] \in S /\ \A y \in S : f[k] >= y
  BY <1>6
<1>8. Max(S) \in S /\ \A y \in S : Max(S) >= y
  BY <1>7 DEF Max
<1>9. Max(S) = f[k]
  <2>1. PICK x \in Int, y \in Int : x = Max(S) /\ y = f[k]
    BY <1>6, <1>8
  <2>2. x >= y /\ y >= x
    BY <1>6, <1>7, <1>8, <2>1
  <2> QED BY <2>1, <2>2
<1> QED BY <1>4, <1>5, <1>9

\* There are columns for the sampled token and what any request asks for.
LEMMA ColumnsAre ==
    ASSUME AnswerInv, NEW i \in DOMAIN batch
    PROVE  /\ Columns \in Nat
           /\ NumLogprobs(batch[i].req) \in Nat
           /\ 1 + NumLogprobs(batch[i].req) <= Columns
<1>1. PICK N \in Nat \ {0} : N = Len(batch) /\ DOMAIN batch = 1..N /\ i \in 1..N
  BY DEF AnswerInv, LayoutInv
<1>2. PICK f : f = [k \in 1..N |-> NumLogprobs(batch[k].req)]
  OBVIOUS
<1>3. ASSUME NEW k \in 1..N PROVE f[k] \in Nat
  <2>1. batch[k].req \in Request
    BY <1>1, BatchEntry DEF AnswerInv
  <2>2. NumLogprobs(batch[k].req) \in Nat
    BY <2>1, MegaAssumption, PlainAssumption DEF NumLogprobs, Request
  <2> QED BY <1>2, <2>2
<1>4. {NumLogprobs(r) : r \in Scheduled} = {f[j] : j \in 1..N}
  BY <1>1, <1>2 DEF Scheduled
<1>5. PICK k \in 1..N : Max({f[j] : j \in 1..N}) = f[k] /\ \A j \in 1..N : f[j] <= f[k]
  <2>1. \A j \in 1..N : f[j] \in Int
    BY <1>3
  <2> QED BY <2>1, LargestOf
<1>6. Columns = 1 + f[k]
  BY <1>4, <1>5 DEF Columns
<1>7. f[k] \in Nat /\ f[i] \in Nat /\ f[i] <= f[k]
  BY <1>1, <1>3, <1>5
<1> QED BY <1>1, <1>2, <1>6, <1>7

\* The rows of the k-th request, and the longest answer of the step.
LEMMA RowConfigsAre ==
    ASSUME AnswerInv, phase = "sample", NEW k \in DOMAIN batch
    PROVE  /\ LaidOutChunk(k).rows \in Seq(Token)
           /\ row_configs[k] = Len(LaidOutChunk(k).rows)
           /\ row_configs[k] \in Nat
<1>1. LaidOutChunk(k).rows \in Seq(Token)
  BY LaidOutPositions DEF ChunkState
<1>2. row_configs[k] = Len(LaidOutChunk(k).rows)
  BY DEF AnswerInv, RowsAreLaidOut
<1> QED BY <1>1, <1>2

LEMMA ChainedDimIs ==
    ASSUME AnswerInv, phase = "sample", batch # <<>>
    PROVE  \E k \in DOMAIN batch :
              /\ ChainedDim = row_configs[k] * Columns
              /\ \A j \in DOMAIN batch : row_configs[j] <= row_configs[k]
<1>1. PICK N \in Nat \ {0} : N = Len(batch) /\ DOMAIN batch = 1..N
  <2>1. batch \in Seq(Entry)
    BY DEF AnswerInv, LayoutInv
  <2> QED BY <2>1
<1>2. PICK C \in Nat : C = Columns
  <2>1. 1 \in DOMAIN batch
    BY <1>1
  <2> QED BY <2>1, ColumnsAre
<1>3. PICK f : f = [j \in 1..N |-> row_configs[j]]
  OBVIOUS
<1>4. \A j \in 1..N : f[j] = row_configs[j] /\ f[j] \in Nat
  BY <1>1, <1>3, RowConfigsAre
<1>5. PICK k \in 1..N : \A j \in 1..N : f[j] <= f[k]
  <2>1. \A j \in 1..N : f[j] \in Int
    BY <1>4
  <2> QED BY <2>1, LargestOf
<1>6. PICK S : S = {row_configs[j] * Columns : j \in DOMAIN batch}
  OBVIOUS
<1>7. ASSUME NEW j \in 1..N
      PROVE  row_configs[j] * C \in Nat /\ row_configs[j] * C <= row_configs[k] * C
  <2>1. PICK a \in Nat, b \in Nat : a = row_configs[j] /\ b = row_configs[k] /\ a <= b
    BY <1>4, <1>5
  <2>2. a * C <= b * C /\ a * C \in Nat
    BY <2>1, Below2
  <2> QED BY <2>1, <2>2
<1>8. PICK m \in Nat : m = row_configs[k] * C
  BY <1>7
<1>9. m \in S /\ \A y \in S : y \in Nat /\ y <= m
  BY <1>1, <1>2, <1>6, <1>7, <1>8
<1>10. Max(S) \in S /\ \A y \in S : Max(S) >= y
  <2>1. \A y \in S : m >= y
    BY <1>9
  <2> QED BY <1>9, <2>1 DEF Max
<1>11. Max(S) = m
  <2>1. PICK x \in Nat : x = Max(S)
    BY <1>9, <1>10
  <2>2. x <= m /\ x >= m
    BY <1>9, <1>10, <2>1
  <2> QED BY <2>1, <2>2
<1>12. ChainedDim = row_configs[k] * Columns
  BY <1>2, <1>6, <1>8, <1>11 DEF ChainedDim
<1> QED BY <1>1, <1>4, <1>5, <1>12

\* _remux_logprobs_tensors finds the rows of the i-th request among those of
\* the requests before it.
LEMMA CursorFinds ==
    ASSUME AnswerInv, phase = "sample", NEW i \in DOMAIN batch
    PROVE  /\ \A j \in 1..row_configs[i] :
                rows[Sum(SubSeq(row_configs, 1, i - 1)) + j] = LaidOutChunk(i).rows[j]
           /\ rows \in Seq(Token) /\ row_configs[i] <= Len(rows)
           /\ rows # <<>> => \E k \in DOMAIN batch : row_configs[k] > 0
<1> DEFINE rs == [k \in DOMAIN batch |-> LaidOutChunk(k).rows]
           before == SubSeq(row_configs, 1, i - 1)
<1>1. PICK N \in Nat : N = Len(batch) /\ DOMAIN batch = 1..N /\ i \in 1..N
  BY DEF AnswerInv, LayoutInv
<1>2. rs \in Seq(Seq(Token)) /\ Len(rs) = N /\ \A k \in 1..N : rs[k] \in Seq(Token)
  <2>1. \A k \in 1..N : LaidOutChunk(k).rows \in Seq(Token)
    BY <1>1, RowConfigsAre
  <2> QED BY <1>1, <2>1
<1>3. /\ rows = FlattenSeq(rs)
      /\ row_configs = [k \in 1..N |-> Len(LaidOutChunk(k).rows)]
  BY <1>1 DEF AnswerInv, RowsAreLaidOut
<1>4. rs[i] = LaidOutChunk(i).rows
  BY <1>1
<1>5. \A k \in 1..N : row_configs[k] = Len(rs[k])
  BY <1>1, <1>3
<1> HIDE DEF rs
<1>6. row_configs \in Seq(Int) /\ Len(row_configs) = N
  <2>1. \A k \in 1..N : Len(LaidOutChunk(k).rows) \in Int
    BY <1>1, RowConfigsAre
  <2> QED BY <1>3, <2>1
<1>7. /\ before \in Seq(Int) /\ Len(before) = i - 1
      /\ \A k \in 1..(i - 1) : before[k] = row_configs[k]
  BY <1>1, <1>6
<1> HIDE DEF before
<1>8. PICK g : /\ g[0] = 0
               /\ \A k \in 1..Len(before) : g[k] = g[k - 1] + before[k]
               /\ Sum(before) = g[Len(before)]
  BY <1>7, SumLoops
<1>9. \A k \in 1..(i - 1) : g[k] = g[k - 1] + Len(rs[k])
  <2> SUFFICES ASSUME NEW k \in 1..(i - 1) PROVE g[k] = g[k - 1] + Len(rs[k])
    OBVIOUS
  <2>1. g[k] = g[k - 1] + before[k]
    BY <1>7, <1>8
  <2>2. before[k] = row_configs[k]
    BY <1>7
  <2>3. k \in 1..N
    BY <1>1
  <2> QED BY <1>5, <2>1, <2>2, <2>3
<1>10. /\ g[i - 1] \in Nat
       /\ g[i - 1] + Len(rs[i]) <= Len(FlattenSeq(rs))
       /\ \A j \in 1..Len(rs[i]) : FlattenSeq(rs)[g[i - 1] + j] = rs[i][j]
  BY <1>1, <1>2, <1>8, <1>9, FlattenPlace DEF SumsUp
<1>11. Sum(before) = g[i - 1]
  BY <1>1, <1>7, <1>8
<1>12. \A j \in 1..row_configs[i] : rows[Sum(before) + j] = LaidOutChunk(i).rows[j]
  BY <1>1, <1>3, <1>4, <1>5, <1>10, <1>11
<1>13. rows \in Seq(Token)
  BY <1>2, <1>3, FlattenType
<1>14. row_configs[i] <= Len(rows)
  <2>1. PICK l \in Nat, m \in Nat : l = row_configs[i] /\ m = Len(rows)
    BY <1>1, <1>13, RowConfigsAre
  <2>2. g[i - 1] + l <= m /\ g[i - 1] \in Nat
    BY <1>1, <1>3, <1>5, <1>10, <2>1
  <2> QED BY <2>1, <2>2
<1>15. ASSUME rows # <<>> PROVE \E k \in DOMAIN batch : row_configs[k] > 0
  <2>1. SameShape(rs, rs)
    BY DEF SameShape
  <2>2. PlaceByPlace(rows, rows, rs, rs)
    BY <1>2, <1>3, <2>1, FlattenTogether
  <2>3. 1 \in 1..Len(rows)
    BY <1>13, <1>15
  <2>4. PICK k \in 1..Len(rs) : \E j \in 1..Len(rs[k]) : rows[1] = rs[k][j]
    BY <2>2, <2>3 DEF PlaceByPlace
  <2>5. k \in 1..N /\ k \in DOMAIN batch
    BY <1>1, <1>2, <2>4
  <2>6. Len(rs[k]) \in Nat /\ Len(rs[k]) > 0
    BY <1>2, <2>4, <2>5
  <2> QED BY <1>5, <2>5, <2>6
<1> QED BY <1>12, <1>13, <1>14, <1>15 DEF before

\* flat has C entries of each row of own, and is padded to D of them.
FlatIs(flat, r, own, C, D) ==
    /\ flat \in Seq(OwnEntries(r)) /\ Len(flat) = D
    /\ \A b \in 1..Len(own) : \A j \in 1..C : flat[(b - 1) * C + j] = <<own[b], j>>
    /\ \A t \in (Len(own) * C + 1)..D : flat[t] = <<NoRow(r), 0>>

OwnRows(r) == {r} \X (-1..(NumTokens(r) - 1))

LEMMA PaddedIs ==
    ASSUME NEW r \in Request, NumTokens(r) \in Nat, NEW own \in Seq(OwnRows(r)),
           NEW C \in Nat, NEW D \in Nat, Len(own) * C <= D, NEW entries,
           entries = FlattenSeq([k \in 1..Len(own) |-> Entries(own[k], C)])
    PROVE  FlatIs(entries \o Padding(r, D - Len(entries)), r, own, C, D)
<1>1. PICK L \in Nat : L = Len(own) /\ \A b \in 1..L : own[b] \in OwnRows(r)
  OBVIOUS
<1>2. PICK ss : ss = [k \in 1..L |-> Entries(own[k], C)]
  OBVIOUS
<1>3. ASSUME NEW k \in 1..L
      PROVE  /\ ss[k] \in Seq(OwnEntries(r)) /\ Len(ss[k]) = C
             /\ \A j \in 1..C : ss[k][j] = <<own[k], j>>
  <2>1. PICK e : e = Entries(own[k], C)
    OBVIOUS
  <2>2. e = [j \in 1..C |-> <<own[k], j>>]
    BY <2>1 DEF Entries
  <2>3. \A j \in 1..C : <<own[k], j>> \in OwnEntries(r)
    BY <1>1 DEF OwnEntries, OwnRows
  <2>4. e \in Seq(OwnEntries(r)) /\ Len(e) = C /\ \A j \in 1..C : e[j] = <<own[k], j>>
    BY <2>2, <2>3
  <2> QED BY <1>2, <2>1, <2>4
<1>4. ss \in Seq(Seq(OwnEntries(r))) /\ Len(ss) = L
  BY <1>2, <1>3
<1>5. entries = FlattenSeq(ss)
  BY <1>1, <1>2
<1>6. entries \in Seq(OwnEntries(r)) /\ EvenlyCut(entries, ss, C)
  <2>1. \A b \in 1..Len(ss) : Len(ss[b]) = C
    BY <1>3, <1>4
  <2> QED BY <1>4, <1>5, <2>1, FlattenType, FlattenEven
<1>7. PICK l \in Nat : l = L * C
  OBVIOUS
<1>8. Len(entries) = l /\ l <= D
  BY <1>1, <1>4, <1>6, <1>7 DEF EvenlyCut
<1>9. PICK n \in Nat : n = D - l /\ l + n = D
  BY <1>8
<1>10. PICK pad : pad = Padding(r, n)
  OBVIOUS
<1>11. /\ pad \in Seq(OwnEntries(r)) /\ Len(pad) = n
       /\ \A t \in 1..n : pad[t] = <<NoRow(r), 0>>
  <2>1. pad = [k \in 1..n |-> <<NoRow(r), 0>>]
    BY <1>10 DEF Padding
  <2>2. <<NoRow(r), 0>> \in OwnEntries(r)
    BY DEF NoRow, OwnEntries
  <2> QED BY <2>1, <2>2
<1>12. PICK flat : flat = entries \o pad
  OBVIOUS
<1>13. /\ flat \in Seq(OwnEntries(r)) /\ Len(flat) = D
       /\ \A t \in 1..l : flat[t] = entries[t]
       /\ \A t \in 1..n : flat[l + t] = pad[t]
  <2>1. entries \in Seq(OwnEntries(r)) /\ Len(entries) = l
    BY <1>6, <1>8
  <2>2. /\ entries \o pad \in Seq(OwnEntries(r)) /\ Len(entries \o pad) = l + n
        /\ \A t \in 1..l : (entries \o pad)[t] = entries[t]
        /\ \A t \in 1..n : (entries \o pad)[l + t] = pad[t]
    <3>1. pad \in Seq(OwnEntries(r)) /\ Len(pad) = n
      BY <1>11
    <3>2. PICK E : E = OwnEntries(r)
      OBVIOUS
    <3>3. ASSUME NEW x \in Seq(E), NEW y \in Seq(E)
          PROVE  /\ x \o y \in Seq(E) /\ Len(x \o y) = Len(x) + Len(y)
                 /\ \A t \in 1..Len(x) : (x \o y)[t] = x[t]
                 /\ \A t \in 1..Len(y) : (x \o y)[Len(x) + t] = y[t]
      BY JoinIs
    <3>4. entries \in Seq(E) /\ pad \in Seq(E)
      BY <2>1, <3>1, <3>2
    <3>5. /\ entries \o pad \in Seq(E) /\ Len(entries \o pad) = Len(entries) + Len(pad)
          /\ \A t \in 1..Len(entries) : (entries \o pad)[t] = entries[t]
          /\ \A t \in 1..Len(pad) : (entries \o pad)[Len(entries) + t] = pad[t]
      BY <3>3, <3>4
    <3> QED BY <2>1, <3>1, <3>2, <3>5
  <2> QED BY <1>9, <1>12, <2>2
<1>14. ASSUME NEW b \in 1..L, NEW j \in 1..C
       PROVE  flat[(b - 1) * C + j] = <<own[b], j>>
  <2>1. C \in Nat \ {0}
    OBVIOUS
  <2>2. (b - 1) * C + j \in 1..l
    BY <1>7, <2>1, PlaceAtIs DEF PlaceAt
  <2>3. entries[(b - 1) * C + j] = ss[b][j]
    BY <1>4, <1>6 DEF EvenlyCut
  <2> QED BY <1>3, <1>13, <2>2, <2>3
<1>15. ASSUME NEW t \in (l + 1)..D PROVE flat[t] = <<NoRow(r), 0>>
  <2>1. t - l \in 1..n /\ l + (t - l) = t
    BY <1>9
  <2> QED BY <1>11, <1>13, <2>1
<1>16. flat = entries \o Padding(r, D - Len(entries))
  BY <1>8, <1>9, <1>10, <1>12
<1> QED BY <1>1, <1>7, <1>13, <1>14, <1>15, <1>16 DEF FlatIs

\* The rows of a mega request whose prompt is complete are the last tokens of
\* its beams.
LEMMA MegaRows ==
    ASSUME AnswerInv, phase = "sample", NEW i \in DOMAIN batch,
           batch[i].req \in Mega, Answered(i)
    PROVE  LaidOutChunk(i).rows = BeamEnds(batch[i].req)
<1>1. PICK r \in Mega, n \in Nat \ {0}, c \in Nat :
          /\ r = batch[i].req /\ n = batch[i].n /\ c = CacheLen(batch[i])
          /\ c + n = NumPrompt(r)
  <2>1. batch[i].n \in Nat \ {0}
    BY BatchEntry DEF AnswerInv
  <2>2. computed[batch[i].req] = NumTokens(batch[i].req)
    BY DEF Answered
  <2> QED BY <2>1, <2>2, ChunkBounds
<1>2. c <= PrefixLen[r]
  BY <1>1 DEF AnswerInv, AssertionHeld
<1>3. LastChunk(r, c, n)
  BY <1>1, <1>2 DEF LastChunk
<1>4. MegaChunk(r, c, n).rows = BeamEnds(r)
  BY <1>3, MegaChunkRows
<1>5. HasMega
  BY <1>1 DEF HasMega, Scheduled
<1>6. LaidOutChunk(i) = MegaChunk(r, c, n)
  BY <1>1, <1>5 DEF LaidOutChunk
<1> QED BY <1>1, <1>4, <1>6

\* An ordinary request has the row it should have, or none when it decodes among
\* mega requests.
LEMMA PlainRows ==
    ASSUME AnswerInv, phase = "sample", NEW i \in DOMAIN batch,
           batch[i].req \notin Mega, Answered(i)
    PROVE  /\ LaidOutChunk(i).rows
                = IF Undisturbed(i)
                  THEN << <<batch[i].req, NumTokens(batch[i].req) - 1>> >> ELSE <<>>
           /\ result[batch[i].req] = <<>> \/ Mega = {} => Undisturbed(i)
<1>1. PICK r \in Plain, n \in Nat \ {0}, c \in Nat, k \in Nat :
          /\ r = batch[i].req /\ n = batch[i].n /\ c = CacheLen(batch[i])
          /\ k = Len(result[r]) /\ c + n = NumTokens(r) /\ r \in Request
  <2>1. batch[i].n \in Nat \ {0} /\ batch[i].req \in Plain /\ batch[i].req \in Request
    BY BatchEntry DEF AnswerInv, Request
  <2>2. computed[batch[i].req] = NumTokens(batch[i].req)
    BY DEF Answered
  <2>3. Len(result[batch[i].req]) \in Nat
    BY <2>1 DEF AnswerInv, Counts
  <2> QED BY <2>1, <2>2, <2>3, ChunkBounds
<1>2. PICK p \in Nat \ {0} : p = PromptLen[r] /\ NumPrompt(r) = p /\ NumTokens(r) = p + k
  BY <1>1, PlainAssumption, MegaAssumption DEF NumPrompt, NumTokens
<1>3. r \notin Mega
  BY <1>1
<1>4. Undisturbed(i) <=> (c < p \/ ~HasMega)
  BY <1>1, <1>2, <1>3 DEF Undisturbed
<1>5. c + n >= p
  BY <1>1, <1>2
<1>6. LaidOutChunk(i).rows = IF Undisturbed(i) THEN << <<r, c + n - 1>> >> ELSE <<>>
  <2>1. CASE ~HasMega
    BY <1>1, <1>4, <2>1 DEF LaidOutChunk, VllmChunk
  <2>2. CASE HasMega
    <3>1. LaidOutChunk(i).rows = IF c < p /\ c + n >= p THEN << <<r, c + n - 1>> >> ELSE <<>>
      BY <1>1, <1>2, <1>3, <2>2 DEF LaidOutChunk, PlainChunk
    <3> QED BY <1>4, <1>5, <2>2, <3>1
  <2> QED BY <2>1, <2>2
<1>7. ASSUME result[r] = <<>> PROVE Undisturbed(i)
  <2>1. k = 0
    BY <1>1, <1>7
  <2> QED BY <1>1, <1>2, <1>4, <2>1
<1>8. ASSUME Mega = {} PROVE Undisturbed(i)
  BY <1>4, <1>8 DEF HasMega
<1> QED BY <1>1, <1>6, <1>7, <1>8

LEMMA AnsweredRows ==
    ASSUME AnswerInv, phase = "sample", NEW i \in DOMAIN batch, Answered(i)
    PROVE  /\ NumTokens(batch[i].req) \in Nat
           /\ LaidOutChunk(i).rows \in Seq(OwnRows(batch[i].req))
<1>1. PICK r \in Request : r = batch[i].req
  BY BatchEntry DEF AnswerInv
<1>2. PICK m \in Nat : m = NumTokens(r) /\ m >= 1 /\ NumPrompt(r) <= m
  <2>1. Len(result[r]) \in Nat
    BY DEF AnswerInv, Counts
  <2> QED BY <2>1, NumPromptType DEF NumTokens
<1>3. CASE r \in Mega
  <2>1. PICK p \in Nat \ {0}, w \in Nat \ {0}, d \in Nat \ {0} :
            p = PrefixLen[r] /\ w = BeamWidth[r] /\ d = DecodeSteps[r]
    BY <1>3, MegaSizes
  <2>2. ASSUME NEW b \in 1..w PROVE BeamEnd(r, b) \in OwnRows(r)
    <3>1. PICK y \in Nat, z \in Nat : y = b * d /\ z = w * d /\ y <= z
      BY <2>1, BeamOffsets
    <3>2. BeamEnd(r, b) = <<r, p + y - 1>>
      BY <2>1, <3>1 DEF BeamEnd
    <3>3. p + z <= m
      BY <1>2, <1>3, <2>1, <3>1 DEF NumPrompt
    <3>4. p + y - 1 \in -1..(m - 1)
      BY <3>1, <3>3
    <3> QED BY <1>2, <3>2, <3>4 DEF OwnRows
  <2>3. BeamEnds(r) = [b \in 1..w |-> BeamEnd(r, b)]
    BY <2>1 DEF BeamEnds
  <2>4. BeamEnds(r) \in Seq(OwnRows(r))
    BY <2>2, <2>3
  <2> QED BY <1>1, <1>2, <1>3, <2>4, MegaRows
<1>4. CASE r \notin Mega
  <2>1. PICK tok : tok = <<r, m - 1>>
    OBVIOUS
  <2>2. tok \in OwnRows(r)
    BY <1>2, <2>1 DEF OwnRows
  <2>3. << tok >> \in Seq(OwnRows(r)) /\ <<>> \in Seq(OwnRows(r))
    BY <2>2, EmptySeq
  <2>4. LaidOutChunk(i).rows = IF Undisturbed(i) THEN << tok >> ELSE <<>>
    BY <1>1, <1>2, <1>4, <2>1, PlainRows
  <2> QED BY <1>1, <1>2, <2>3, <2>4
<1> QED BY <1>3, <1>4

\* What _remux_logprobs_tensors answers a request with.
LEMMA RemuxIs ==
    ASSUME AnswerInv, phase = "sample", NEW i \in DOMAIN batch, Answered(i)
    PROVE  FlatIs(Remux(i), batch[i].req, LaidOutChunk(i).rows, Columns, ChainedDim)
<1>1. PICK r \in Request : r = batch[i].req
  BY BatchEntry DEF AnswerInv
<1>2. PICK own : own = LaidOutChunk(i).rows
  OBVIOUS
<1>3. PICK L \in Nat : L = Len(own) /\ row_configs[i] = L
  BY <1>2, RowConfigsAre
<1>4. own \in Seq(OwnRows(r)) /\ NumTokens(r) \in Nat
  BY <1>1, <1>2, AnsweredRows
<1>5. PICK C \in Nat : C = Columns
  BY ColumnsAre
<1>6. PICK D \in Nat : D = ChainedDim /\ L * C <= D
  <2>1. PICK k \in DOMAIN batch :
            /\ ChainedDim = row_configs[k] * Columns
            /\ \A j \in DOMAIN batch : row_configs[j] <= row_configs[k]
    <3>1. batch # <<>>
      OBVIOUS
    <3> QED BY <3>1, ChainedDimIs
  <2>2. PICK K \in Nat : K = row_configs[k] /\ L <= K
    BY <1>3, <2>1, RowConfigsAre
  <2>3. K * C \in Nat /\ L * C <= K * C
    BY <2>2, Below2
  <2> QED BY <1>5, <2>1, <2>2, <2>3
<1>7. PICK cursor : cursor = Sum(SubSeq(row_configs, 1, i - 1))
  OBVIOUS
<1>8. \A k \in 1..L : rows[cursor + k] = own[k]
  BY <1>2, <1>3, <1>7, CursorFinds
<1>9. PICK entries : entries = FlattenSeq([k \in 1..L |-> Entries(own[k], C)])
  OBVIOUS
<1>10. [k \in 1..row_configs[i] |-> Entries(rows[cursor + k], Columns)]
         = [k \in 1..L |-> Entries(own[k], C)]
  BY <1>3, <1>5, <1>8
<1>11. Remux(i) = entries \o Padding(r, D - Len(entries))
  BY <1>1, <1>6, <1>7, <1>9, <1>10 DEF Remux
<1>12. FlatIs(entries \o Padding(r, D - Len(entries)), r, own, C, D)
  BY <1>3, <1>4, <1>6, <1>9, PaddedIs
<1> QED BY <1>1, <1>2, <1>5, <1>6, <1>11, <1>12

\* How the reader divides D entries among W beams.
LEMMA StrideIs ==
    ASSUME NEW D \in Nat, NEW W \in Nat \ {0}, NEW C \in Nat, W * C <= D
    PROVE  /\ D \div W \in Nat /\ C <= D \div W
           /\ \A b \in 1..W : /\ (b - 1) * (D \div W) \in Nat
                              /\ (b - 1) * (D \div W) + (D \div W) <= D
           /\ D = W * C => D \div W = C
           /\ (W + 1) * C <= D /\ W < C => C < D \div W
<1>1. PICK s \in Nat : s = D \div W
  OBVIOUS
<1>2. D = W * s + (D % W) /\ D % W \in 0..(W - 1)
  BY <1>1
<1>3. PICK y \in Nat : y = D % W /\ y < W
  BY <1>2
<1>4. PICK ws \in Nat : ws = W * s
  OBVIOUS
<1>5. D = ws + y
  BY <1>2, <1>3, <1>4
<1>6. PICK wc \in Nat : wc = W * C
  OBVIOUS
<1>7. ASSUME s < C PROVE ws + W <= wc
  <2>1. PICK e \in Nat : C = s + 1 + e
    <3>1. C - (s + 1) \in Nat /\ C = s + 1 + (C - (s + 1))
      BY <1>7
    <3> QED BY <3>1
  <2>2. W * C = W * s + W + W * e /\ W * e \in Nat
    BY <2>1
  <2> QED BY <1>4, <1>6, <2>2
<1>8. C <= s
  BY <1>3, <1>5, <1>6, <1>7
<1>9. ASSUME NEW b \in 1..W PROVE (b - 1) * s \in Nat /\ (b - 1) * s + s <= D
  <2>1. (b - 1) * s \in Nat /\ b * s = (b - 1) * s + s
    BY Steps
  <2>2. b * s <= W * s
    BY Below2
  <2> QED BY <1>4, <1>5, <2>1, <2>2
<1>10. ASSUME D = W * C PROVE s = C
  <2>1. 0 \in 0..(W - 1) /\ D = C * W + 0
    BY <1>10
  <2> QED BY <1>1, <2>1, Quotient
<1>11. ASSUME (W + 1) * C <= D, W < C PROVE C < s
  <2>1. (W + 1) * C = wc + C
    BY <1>6
  <2>2. CASE s = C
    BY <1>3, <1>4, <1>5, <1>6, <1>11, <2>1, <2>2
  <2> QED BY <1>8, <2>2
<1> QED BY <1>1, <1>8, <1>9, <1>10, <1>11

\* The rounds of a chunk gather at most one row for each beam.
LEMMA MegaRowCount ==
    ASSUME NEW r \in Mega, NEW c \in Nat, NEW n \in Nat
    PROVE  Len(MegaChunk(r, c, n).rows) <= BeamWidth[r]
<1>1. PICK N \in Nat \ {0} : N = BeamWidth[r]
  BY MegaSizes
<1>2. PICK g : ChunkRounds(g, r, c, n)
  BY MegaChunkLoops
<1>3. /\ g[0] = [positions |-> <<>>, rows |-> <<>>]
      /\ \A k \in 1..N : g[k] = ChunkBeam(r, c, n, k - 1, g[k - 1])
      /\ \A k \in 0..N : g[k] \in ChunkState
      /\ MegaChunk(r, c, n) = g[N]
  BY <1>1, <1>2 DEF ChunkRounds
<1> DEFINE A == {k \in 0..N : Len(g[k].rows) <= k}
<1>4. 0 \in A
  <2>1. g[0].rows = <<>>
    BY <1>3
  <2>2. Len(g[0].rows) = 0
    BY <2>1, EmptySeq
  <2> QED BY <2>2
<1>5. ASSUME NEW k \in 1..N, k - 1 \in A PROVE k \in A
  <2>1. PICK s : s = g[k - 1]
    OBVIOUS
  <2>2. s.rows \in Seq(Token) /\ Len(s.rows) <= k - 1
    BY <1>3, <1>5, <2>1 DEF ChunkState
  <2>3. g[k].rows = s.rows \/ \E row \in Token : g[k].rows = Append(s.rows, row)
    <3>1. g[k] = ChunkBeam(r, c, n, k - 1, s) /\ g[k] \in ChunkState
      BY <1>3, <2>1
    <3>2. PICK idx : g[k].rows = s.rows \/ g[k].rows = Append(s.rows, <<r, idx>>)
      BY <3>1 DEF ChunkBeam
    <3>3. CASE g[k].rows = Append(s.rows, <<r, idx>>)
      <4>1. Append(s.rows, <<r, idx>>) \in Seq(Token)
        BY <3>1, <3>3 DEF ChunkState
      <4>2. Len(s.rows) + 1 \in 1..Len(Append(s.rows, <<r, idx>>))
            /\ Append(s.rows, <<r, idx>>)[Len(s.rows) + 1] = <<r, idx>>
        BY <2>2
      <4>3. <<r, idx>> \in Token
        BY <4>1, <4>2
      <4> QED BY <3>3, <4>3
    <3> QED BY <3>2, <3>3
  <2>4. Len(g[k].rows) <= Len(s.rows) + 1
    <3>1. \A row \in Token : Len(Append(s.rows, row)) = Len(s.rows) + 1
      BY <2>2, AppendProperties
    <3>2. Len(s.rows) \in Nat
      BY <2>2
    <3> QED BY <2>3, <3>1, <3>2
  <2>5. Len(s.rows) \in Nat /\ Len(g[k].rows) \in Nat /\ k \in 0..N
    BY <1>3, <2>2 DEF ChunkState
  <2> QED BY <2>2, <2>4, <2>5
<1>6. \A k \in 0..N : k \in A
  <2> HIDE DEF A
  <2> QED BY <1>4, <1>5, InductionTo
<1>7. Len(g[N].rows) <= N
  BY <1>6
<1> QED BY <1>1, <1>3, <1>7

\* Only a mega request has more than one row.
LEMMA ManyRowsAreMega ==
    ASSUME AnswerInv, phase = "sample", NEW j \in DOMAIN batch, row_configs[j] > 1
    PROVE  batch[j].req \in Mega /\ row_configs[j] <= BeamWidth[batch[j].req]
<1>1. PICK q \in Request, n \in Nat \ {0}, c \in Nat :
          q = batch[j].req /\ n = batch[j].n /\ c = CacheLen(batch[j])
  BY BatchEntry, ChunkBounds DEF AnswerInv
<1>2. row_configs[j] = Len(LaidOutChunk(j).rows)
  BY RowConfigsAre
<1>3. q \in Mega
  <2> SUFFICES ASSUME q \notin Mega PROVE FALSE
    OBVIOUS
  <2>1. PICK tok : tok = <<q, c + n - 1>>
    OBVIOUS
  <2>2. LaidOutChunk(j).rows \in {<< tok >>, <<>>}
    BY <1>1, <2>1 DEF LaidOutChunk, VllmChunk, PlainChunk
  <2>3. Len(<< tok >>) = 1 /\ Len(<<>>) = 0
    OBVIOUS
  <2>4. Len(LaidOutChunk(j).rows) \in {1, 0}
    BY <2>2, <2>3
  <2>5. row_configs[j] \in {1, 0}
    BY <1>2, <2>4
  <2> QED BY <2>5
<1>4. HasMega
  BY <1>1, <1>3 DEF HasMega, Scheduled
<1>5. LaidOutChunk(j) = MegaChunk(q, c, n)
  BY <1>1, <1>3, <1>4 DEF LaidOutChunk
<1> QED BY <1>1, <1>2, <1>3, <1>5, MegaRowCount

\* The beams of a request end at different tokens.
LEMMA BeamEndsDiffer ==
    ASSUME NEW r \in Mega, NEW b \in Nat \ {0}, NEW e \in Nat \ {0},
           BeamEnd(r, b) = BeamEnd(r, e)
    PROVE  b = e
<1>1. PICK p \in Nat, d \in Nat \ {0} : p = PrefixLen[r] /\ d = DecodeSteps[r]
  BY MegaSizes
<1>2. PICK x \in Nat, y \in Nat : x = b * d /\ y = e * d
  BY <1>1, BeamOffsets
<1>3. x = y
  <2>1. p + x - 1 = p + y - 1
    BY <1>1, <1>2 DEF BeamEnd
  <2> QED BY <2>1
<1>4. ASSUME NEW u \in Nat, NEW v \in Nat, u < v PROVE u * d < v * d
  <2>1. (u + 1) * d = u * d + d /\ u * d \in Nat
    BY <1>1, BeamOffsets
  <2>2. (u + 1) * d <= v * d
    BY <1>1, <1>4, Below2
  <2>3. v * d \in Nat
    BY <1>1, BeamOffsets
  <2> QED BY <1>1, <2>1, <2>2, <2>3
<1>5. ~(b < e) /\ ~(e < b)
  BY <1>2, <1>3, <1>4
<1> QED BY <1>5

\* A mega request reads what is due to it, unless a request with more rows is in
\* the step; its first beam always gets its own.
LEMMA MegaReads ==
    ASSUME AnswerInv, phase = "sample", NEW i \in DOMAIN batch, Answered(i),
           NEW r \in Mega, r = batch[i].req, NEW read, read = ReadBack(r, Remux(i))
    PROVE  /\ rows # <<>>
           /\ read \in Seq(Seq(OwnEntries(r)))
           /\ read[1] = MegaDue(r)[1]
           /\ read = MegaDue(r) <=> Undisturbed(i)
           /\ ~Undisturbed(i) => Wider(r) # {}
<1>1. PICK W \in Nat \ {0} : W = BeamWidth[r]
  BY MegaSizes
<1>2. PICK C \in Nat : C = Columns /\ 1 + W <= C
  BY <1>1, ColumnsAre DEF NumLogprobs
<1>3. BeamEnds(r) = [b \in 1..W |-> BeamEnd(r, b)] /\ Len(BeamEnds(r)) = W
  BY <1>1 DEF BeamEnds
<1>4. LaidOutChunk(i).rows = BeamEnds(r) /\ row_configs[i] = W
  BY <1>3, MegaRows, RowConfigsAre
<1>5. rows # <<>>
  <2>1. W <= Len(rows) /\ rows \in Seq(Token)
    BY <1>4, CursorFinds
  <2>2. Len(rows) # 0
    BY <2>1
  <2> QED BY <2>2, EmptySeq
<1>6. PICK k \in DOMAIN batch :
          /\ ChainedDim = row_configs[k] * Columns
          /\ \A j \in DOMAIN batch : row_configs[j] <= row_configs[k]
  <2>1. batch # <<>>
    OBVIOUS
  <2> QED BY <2>1, ChainedDimIs
<1>7. PICK K \in Nat : K = row_configs[k] /\ W <= K
  BY <1>4, <1>6, RowConfigsAre
<1>8. PICK D \in Nat : D = ChainedDim /\ D = K * C /\ W * C <= D
  BY <1>2, <1>6, <1>7, Below2
<1>9. PICK flat : flat = Remux(i)
  OBVIOUS
<1>10. /\ flat \in Seq(OwnEntries(r)) /\ Len(flat) = D
       /\ \A b \in 1..W : \A j \in 1..C : flat[(b - 1) * C + j] = <<BeamEnd(r, b), j>>
       /\ \A t \in (W * C + 1)..D : flat[t] = <<NoRow(r), 0>>
  <2>1. FlatIs(flat, r, BeamEnds(r), C, D)
    BY <1>2, <1>4, <1>8, <1>9, RemuxIs
  <2> QED BY <1>3, <2>1 DEF FlatIs
<1>11. PICK s \in Nat : s = D \div W /\ C <= s
  BY <1>8, StrideIs
<1>12. PICK m \in Nat : m = 1 + W /\ m <= C /\ m <= s
  BY <1>2, <1>11
<1>13. Min({s, m}) = m
  <2>1. Min({s, m}) = IF s <= m THEN s ELSE m
    BY MinIs
  <2> QED BY <1>12, <2>1
<1>14. read = [b \in 1..W |-> SubSeq(flat, (b - 1) * s + 1, (b - 1) * s + m)]
  <2>1. Len(flat) \div BeamWidth[r] = s /\ 1 + NumLogprobs(r) = m
    BY <1>1, <1>10, <1>11, <1>12 DEF NumLogprobs
  <2> QED BY <1>1, <1>9, <1>13, <2>1 DEF ReadBack
<1>15. ASSUME NEW b \in 1..W
       PROVE  /\ read[b] \in Seq(OwnEntries(r)) /\ Len(read[b]) = m
              /\ \A j \in 1..m : read[b][j] = flat[(b - 1) * s + j]
  <2>1. PICK a \in Nat : a = (b - 1) * s /\ a + s <= D
    BY <1>8, <1>11, StrideIs
  <2>2. a + m <= Len(flat)
    BY <1>10, <1>12, <2>1
  <2>3. read[b] = SubSeq(flat, a + 1, a + m)
    BY <1>14, <2>1
  <2>4. flat \in Seq(OwnEntries(r))
    BY <1>10
  <2>5. /\ SubSeq(flat, a + 1, a + m) \in Seq(OwnEntries(r))
        /\ Len(SubSeq(flat, a + 1, a + m)) = m
        /\ \A j \in 1..m : SubSeq(flat, a + 1, a + m)[j] = flat[a + j]
    BY <2>2, <2>4, StretchIs
  <2> QED BY <2>1, <2>3, <2>4, <2>5
<1>16. read \in Seq(Seq(OwnEntries(r)))
  <2>1. PICK T : T = Seq(OwnEntries(r))
    OBVIOUS
  <2>2. read = [b \in 1..W |-> read[b]] /\ \A b \in 1..W : read[b] \in T
    BY <1>14, <1>15, <2>1
  <2>3. read \in Seq(T)
    BY <2>2
  <2> QED BY <2>1, <2>3
<1>17. PICK due : /\ due = MegaDue(r)
                  /\ due = [b \in 1..W |-> Entries(BeamEnd(r, b), m)]
  BY <1>1, <1>12 DEF MegaDue
<1>18. ASSUME NEW b \in 1..W, (b - 1) * s = (b - 1) * C
       PROVE  read[b] = due[b]
  <2>1. \A j \in 1..m : read[b][j] = <<BeamEnd(r, b), j>>
    <3> SUFFICES ASSUME NEW j \in 1..m PROVE read[b][j] = <<BeamEnd(r, b), j>>
      OBVIOUS
    <3>1. j \in 1..C
      BY <1>12
    <3>2. flat[(b - 1) * C + j] = <<BeamEnd(r, b), j>>
      BY <1>10, <3>1
    <3> QED BY <1>15, <1>18, <3>2
  <2>2. PICK e : e = read[b] /\ e \in Seq(OwnEntries(r)) /\ Len(e) = m
    BY <1>15
  <2>3. e = [j \in 1..m |-> e[j]]
    BY <2>2
  <2>4. e = [j \in 1..m |-> <<BeamEnd(r, b), j>>]
    BY <2>1, <2>2, <2>3
  <2> QED BY <1>17, <2>2, <2>4 DEF Entries
<1>19. read[1] = due[1]
  <2>1. 1 \in 1..W /\ (1 - 1) * s = 0 /\ (1 - 1) * C = 0
    OBVIOUS
  <2> QED BY <1>18, <2>1
<1>20. Undisturbed(i) <=> (W = 1 \/ K <= W)
  <2>1. Undisturbed(i) <=> (W = 1 \/ \A j \in DOMAIN batch : row_configs[j] <= W)
    BY <1>1 DEF Undisturbed
  <2>2. (\A j \in DOMAIN batch : row_configs[j] <= W) <=> K <= W
    <3>1. \A j \in DOMAIN batch : row_configs[j] \in Nat
      BY RowConfigsAre
    <3> QED BY <1>6, <1>7, <3>1
  <2> QED BY <2>1, <2>2
<1>21. ASSUME Undisturbed(i) PROVE read = due
  <2>1. ASSUME NEW b \in 1..W PROVE read[b] = due[b]
    <3>1. CASE W = 1
      BY <1>19, <3>1
    <3>2. CASE K <= W
      <4>1. D = W * C
        BY <1>7, <1>8, <3>2
      <4>2. s = C
        BY <1>8, <1>11, <4>1, StrideIs
      <4> QED BY <1>18, <4>2
    <3> QED BY <1>20, <1>21, <3>1, <3>2
  <2>2. read = [b \in 1..W |-> read[b]] /\ due = [b \in 1..W |-> due[b]]
    BY <1>14, <1>17
  <2> QED BY <2>1, <2>2
<1>22. ASSUME ~Undisturbed(i) PROVE read # due
  <2>1. W >= 2 /\ W + 1 <= K
    BY <1>7, <1>20, <1>22
  <2>2. (W + 1) * C <= D
    BY <1>8, <2>1, Below2
  <2>3. C < s
    <3>1. W < C
      BY <1>12
    <3> QED BY <1>8, <1>11, <2>2, <3>1, StrideIs
  <2>4. 2 \in 1..W /\ 1 \in 1..m /\ (2 - 1) * s + 1 = s + 1
    BY <1>12, <2>1
  <2>5. read[2][1] = flat[s + 1]
    <3>1. \A j \in 1..m : read[2][j] = flat[(2 - 1) * s + j]
      BY <1>15, <2>4
    <3> QED BY <2>4, <3>1
  <2>6. s + 1 \in 1..D
    <3>1. (2 - 1) * s + s <= D
      BY <1>8, <1>11, <2>4, StrideIs
    <3>2. s + s <= D /\ s >= 1
      BY <1>12, <3>1
    <3> QED BY <3>2
  <2>7. flat[s + 1] # <<BeamEnd(r, 2), 1>>
    <3>1. CASE s + 1 <= W * C
      <4>1. C \in Nat \ {0} /\ s + 1 \in 1..(W * C)
        BY <1>12, <3>1
      <4>2. PICK b \in 1..W, j \in 1..C : (b - 1) * C + j = s + 1
        <5>1. PICK b \in 1..W, j \in 1..C : PlaceAt(C, b, j) = s + 1
          <6>1. /\ OwnerAt(C, s + 1) \in 1..W /\ RankAt(C, s + 1) \in 1..C
                /\ PlaceAt(C, OwnerAt(C, s + 1), RankAt(C, s + 1)) = s + 1
            BY <4>1, PlaceAtOf
          <6> QED BY <6>1
        <5> QED BY <5>1 DEF PlaceAt
      <4>3. flat[s + 1] = <<BeamEnd(r, b), j>>
        BY <1>10, <4>2
      <4>4. ASSUME BeamEnd(r, b) = BeamEnd(r, 2), j = 1 PROVE FALSE
        <5>1. b = 2
          BY <4>4, BeamEndsDiffer
        <5>2. (2 - 1) * C + 1 = s + 1
          BY <4>2, <4>4, <5>1
        <5>3. (2 - 1) * C = C
          OBVIOUS
        <5> QED BY <2>3, <5>2, <5>3
      <4> QED BY <4>3, <4>4
    <3>2. CASE ~(s + 1 <= W * C)
      <4>1. PICK x \in Nat : x = W * C
        OBVIOUS
      <4>2. s + 1 \in (W * C + 1)..D
        BY <2>6, <3>2, <4>1
      <4>3. flat[s + 1] = <<NoRow(r), 0>>
        BY <1>10, <4>2
      <4> QED BY <4>3
    <3> QED BY <3>1, <3>2
  <2>8. due[2][1] = <<BeamEnd(r, 2), 1>>
    BY <1>17, <2>4 DEF Entries
  <2> QED BY <2>5, <2>7, <2>8
<1>23. ASSUME ~Undisturbed(i) PROVE Wider(r) # {}
  <2>1. K > 1 /\ K > W
    BY <1>7, <1>20, <1>23
  <2>2. batch[k].req \in Mega /\ row_configs[k] <= BeamWidth[batch[k].req]
    BY <1>7, <2>1, ManyRowsAreMega
  <2>3. BeamWidth[batch[k].req] > BeamWidth[r]
    <3>1. BeamWidth[batch[k].req] \in Nat
      BY <2>2, MegaSizes
    <3> QED BY <1>1, <1>7, <2>1, <2>2, <3>1
  <2> QED BY <2>2, <2>3 DEF Wider
<1> QED BY <1>5, <1>16, <1>17, <1>19, <1>21, <1>22, <1>23

\* An ordinary request reads what is due to it, unless it has no row.
LEMMA PlainReads ==
    ASSUME AnswerInv, phase = "sample", NEW i \in DOMAIN batch, Answered(i),
           NEW r \in Plain, r = batch[i].req, NEW read, read = ReadBack(r, Remux(i))
    PROVE  /\ Undisturbed(i) => rows # <<>>
           /\ rows # <<>> => /\ read \in Seq(Seq(OwnEntries(r)))
                             /\ read = PlainDue(r, Len(result[r]) + 1) <=> Undisturbed(i)
<1>1. r \notin Mega /\ r \in Request
  BY MegaAssumption DEF Request
<1>2. PICK n \in Nat \ {0}, C \in Nat : n = 1 + Logprobs[r] /\ C = Columns /\ n <= C
  BY <1>1, ColumnsAre DEF NumLogprobs
<1>3. PICK tok : tok = <<r, NumTokens(r) - 1>>
  OBVIOUS
<1>4. LaidOutChunk(i).rows = IF Undisturbed(i) THEN << tok >> ELSE <<>>
  BY <1>1, <1>3, PlainRows
<1>5. ASSUME Undisturbed(i) PROVE rows # <<>>
  <2>1. row_configs[i] = Len(<< tok >>) /\ row_configs[i] <= Len(rows) /\ rows \in Seq(Token)
    BY <1>4, <1>5, RowConfigsAre, CursorFinds
  <2>2. Len(rows) # 0
    BY <2>1
  <2> QED BY <2>2, EmptySeq
<1>6. ASSUME rows # <<>>
      PROVE  /\ read \in Seq(Seq(OwnEntries(r)))
             /\ read = PlainDue(r, Len(result[r]) + 1) <=> Undisturbed(i)
  <2>1. PICK k \in DOMAIN batch :
            /\ ChainedDim = row_configs[k] * Columns
            /\ \A j \in DOMAIN batch : row_configs[j] <= row_configs[k]
    <3>1. batch # <<>>
      OBVIOUS
    <3> QED BY <3>1, ChainedDimIs
  <2>2. PICK K \in Nat : K = row_configs[k] /\ 1 <= K
    <3>1. PICK j \in DOMAIN batch : row_configs[j] > 0
      BY <1>6, CursorFinds
    <3>2. row_configs[j] \in Nat /\ row_configs[k] \in Nat /\ row_configs[j] <= row_configs[k]
      BY <2>1, <3>1, RowConfigsAre
    <3> QED BY <3>1, <3>2
  <2>3. PICK D \in Nat : D = ChainedDim /\ n <= D
    <3>1. 1 * C <= K * C /\ K * C \in Nat /\ 1 * C = C
      BY <2>2, Below2
    <3>2. PICK D \in Nat : D = K * C
      BY <3>1
    <3> QED BY <1>2, <2>1, <2>2, <3>1, <3>2
  <2>4. PICK flat : flat = Remux(i)
    OBVIOUS
  <2>5. FlatIs(flat, r, LaidOutChunk(i).rows, C, D)
    BY <1>2, <2>3, <2>4, RemuxIs
  <2>6. flat \in Seq(OwnEntries(r)) /\ Len(flat) = D
    BY <2>5 DEF FlatIs
  <2>7. PICK seg : /\ seg = SubSeq(flat, 1, n) /\ read = << seg >>
                   /\ seg \in Seq(OwnEntries(r)) /\ Len(seg) = n
                   /\ \A j \in 1..n : seg[j] = flat[j]
    <3>1. read = << SubSeq(flat, 1, n) >>
      BY <1>1, <1>2, <2>4 DEF ReadBack, NumLogprobs
    <3>2. 0 + n <= Len(flat) /\ 0 + 1 = 1 /\ 0 + n = n
      BY <2>3, <2>6
    <3>3. PICK z \in Nat : z = 0
      OBVIOUS
    <3>4. /\ SubSeq(flat, z + 1, z + n) \in Seq(OwnEntries(r))
          /\ Len(SubSeq(flat, z + 1, z + n)) = n
          /\ \A j \in 1..n : SubSeq(flat, z + 1, z + n)[j] = flat[z + j]
      BY <2>6, <3>2, <3>3, StretchIs
    <3>5. z + 1 = 1 /\ z + n = n /\ \A j \in 1..n : z + j = j
      BY <3>3
    <3> QED BY <3>1, <3>4, <3>5
  <2>8. PlainDue(r, Len(result[r]) + 1) = << Entries(tok, n) >>
    <3>1. PICK l \in Nat, p \in Nat : l = Len(result[r]) /\ p = PromptLen[r]
      BY <1>1, PlainAssumption DEF AnswerInv, Counts
    <3>2. NumTokens(r) - 1 = p + (l + 1) - 2
      BY <1>1, <3>1 DEF NumTokens, NumPrompt
    <3> QED BY <1>2, <1>3, <3>1, <3>2 DEF PlainDue
  <2>9. ASSUME Undisturbed(i) PROVE seg = Entries(tok, n)
    <3>2. \A j \in 1..C : flat[(1 - 1) * C + j] = << << tok >>[1], j>>
      <4>1. 1 \in 1..Len(<< tok >>)
        OBVIOUS
      <4> QED BY <1>4, <2>5, <2>9, <4>1 DEF FlatIs
    <3>3. \A j \in 1..n : (1 - 1) * C + j = j /\ j \in 1..C
      BY <1>2
    <3>4. \A j \in 1..n : seg[j] = <<tok, j>>
      BY <2>7, <3>2, <3>3
    <3>5. seg = [j \in 1..n |-> seg[j]]
      BY <2>7
    <3>6. seg = [j \in 1..n |-> <<tok, j>>]
      BY <3>4, <3>5
    <3> QED BY <3>6 DEF Entries
  <2>10. ASSUME ~Undisturbed(i) PROVE seg # Entries(tok, n)
    <3>1. 1 \in (Len(<<>>) * C + 1)..D /\ 1 \in 1..n
      BY <1>2, <2>3
    <3>2. flat[1] = <<NoRow(r), 0>>
      BY <1>4, <2>5, <2>10, <3>1 DEF FlatIs
    <3>3. Entries(tok, n)[1] = <<tok, 1>>
      BY <3>1 DEF Entries
    <3> QED BY <2>7, <3>1, <3>2, <3>3
  <2>11. read \in Seq(Seq(OwnEntries(r)))
    BY <2>7
  <2>12. read = << Entries(tok, n) >> <=> seg = Entries(tok, n)
    BY <2>7
  <2> QED BY <2>8, <2>9, <2>10, <2>11, <2>12
<1> QED BY <1>5, <1>6

IsRead(i) == Answered(i) /\ rows # <<>>

\* What sampling changes for request r: nothing, or its answer is read.
Reads(r, i) ==
    /\ result'[r] = Append(result[r], ReadBack(r, Remux(i)))
    /\ status'[r] = IF r \in Mega \/ Len(result[r]) + 1 >= MaxTokens[r] THEN "finished"
                    ELSE "running"

LEMMA SampleReads ==
    ASSUME AnswerInv, Sample, NEW i \in DOMAIN batch
    PROVE  /\ phase = "sample"
           /\ IsRead(i) => Reads(batch[i].req, i)
           /\ ~IsRead(i) => /\ result'[batch[i].req] = result[batch[i].req]
                            /\ status'[batch[i].req] = status[batch[i].req]
<1>1. PICK r \in Request : r = batch[i].req /\ status[r] = "running"
  BY BatchEntry DEF AnswerInv
<1> DEFINE answer == IF r \in Scheduled /\ Answered(Place(r)) /\ rows # <<>>
                     THEN << ReadBack(r, Remux(Place(r))) >> ELSE <<>>
<1>2. /\ phase = "sample"
      /\ result'[r] = result[r] \o answer
      /\ status'[r] = IF answer # <<>> /\ (r \in Mega \/ Len(result[r]) + 1 >= MaxTokens[r])
                      THEN "finished" ELSE status[r]
  BY DEF Sample
<1>3. r \in Scheduled
  BY <1>1 DEF Scheduled
<1>4. Place(r) = i
  <2>1. Place(r) \in DOMAIN batch /\ batch[Place(r)].req = r
    BY <1>1 DEF Place
  <2> QED BY <1>1, <2>1 DEF AnswerInv, BatchFits
<1>5. PICK read : read = ReadBack(r, Remux(i))
  OBVIOUS
<1>6. answer = IF IsRead(i) THEN << read >> ELSE <<>>
  BY <1>3, <1>4, <1>5 DEF IsRead
<1> HIDE DEF answer
<1>7. result[r] \in Seq(Answer)
  BY DEF AnswerInv, Counts
<1>8. result[r] \o <<>> = result[r] /\ result[r] \o << read >> = Append(result[r], read)
  <2>1. result[r] \in Seq(Answer \cup {read}) /\ read \in Answer \cup {read}
    BY <1>7
  <2> QED BY <2>1
<1>9. << read >> # <<>>
  OBVIOUS
<1> QED BY <1>1, <1>2, <1>5, <1>6, <1>8, <1>9 DEF Reads

LEMMA SampleSkips ==
    ASSUME AnswerInv, Sample, NEW r \in Request, \A i \in DOMAIN batch : batch[i].req # r
    PROVE  result'[r] = result[r] /\ status'[r] = status[r]
<1>1. r \notin Scheduled
  BY DEF Scheduled
<1>2. result'[r] = result[r] \o <<>> /\ status'[r] = status[r]
  BY <1>1 DEF Sample
<1>3. result[r] \in Seq(Answer)
  BY DEF AnswerInv, Counts
<1> QED BY <1>2, <1>3

MegaIsAnswered(r) ==
    r \in Mega /\ \E read \in Seq(Seq(OwnEntries(r))) :
        /\ result'[r] = << read >>
        /\ read = MegaDue(r) \/ Wider(r) # {}
        /\ read[1] = MegaDue(r)[1]
        /\ status'[r] = "finished"
PlainIsAnswered(r) ==
    r \in Plain /\ \E read \in Seq(Seq(OwnEntries(r))) :
        /\ result'[r] = Append(result[r], read)
        /\ result[r] = <<>> \/ Mega = {} => read = PlainDue(r, Len(result[r]) + 1)
        /\ status'[r] = IF Len(result[r]) + 1 >= MaxTokens[r] THEN "finished"
                        ELSE "running"
SampledAs(r) ==
    \/ result'[r] = result[r] /\ status'[r] = status[r]
    \/ status[r] = "running" /\ MegaIsAnswered(r)
    \/ status[r] = "running" /\ PlainIsAnswered(r)

LEMMA SampleAnswers ==
    ASSUME AnswerInv, Sample, NEW r \in Request
    PROVE  SampledAs(r)
<1>1. CASE \A i \in DOMAIN batch : batch[i].req # r
  BY <1>1, SampleSkips DEF SampledAs
<1>2. CASE \E i \in DOMAIN batch : batch[i].req = r
  <2>1. PICK i \in DOMAIN batch : batch[i].req = r
    BY <1>2
  <2>2. CASE ~IsRead(i)
    BY <2>1, <2>2, SampleReads DEF SampledAs
  <2>3. CASE IsRead(i)
    <3>1. PICK read : read = ReadBack(r, Remux(i))
      OBVIOUS
    <3>2. /\ phase = "sample" /\ Answered(i) /\ rows # <<>>
          /\ result'[r] = Append(result[r], read)
          /\ status'[r] = IF r \in Mega \/ Len(result[r]) + 1 >= MaxTokens[r]
                          THEN "finished" ELSE "running"
      BY <2>1, <2>3, <3>1, SampleReads DEF Reads, IsRead
    <3>3. status[r] = "running"
      BY <2>1, BatchEntry DEF AnswerInv
    <3>4. CASE r \in Mega
      <4>1. /\ read \in Seq(Seq(OwnEntries(r)))
            /\ read[1] = MegaDue(r)[1]
            /\ read = MegaDue(r) \/ Wider(r) # {}
        BY <2>1, <3>1, <3>2, <3>4, MegaReads
      <4>2. result[r] = <<>>
        BY <3>3, <3>4 DEF AnswerInv, AnswersAreOwn, MegaIsOwn
      <4>3. Append(<<>>, read) = << read >>
        OBVIOUS
      <4> QED BY <3>2, <3>3, <3>4, <4>1, <4>2, <4>3 DEF SampledAs, MegaIsAnswered
    <3>5. CASE r \notin Mega
      <4>1. r \in Plain
        BY <3>5 DEF Request
      <4>2. /\ read \in Seq(Seq(OwnEntries(r)))
            /\ Undisturbed(i) => read = PlainDue(r, Len(result[r]) + 1)
        BY <2>1, <3>1, <3>2, <4>1, PlainReads
      <4>3. result[r] = <<>> \/ Mega = {} => Undisturbed(i)
        BY <2>1, <3>2, <3>5, PlainRows
      <4> QED BY <3>2, <3>3, <3>5, <4>1, <4>2, <4>3 DEF SampledAs, PlainIsAnswered
    <3> QED BY <3>4, <3>5
  <2> QED BY <2>2, <2>3
<1> QED BY <1>1, <1>2

\* The tokens of a request only grow, and with them what it may have read.
LEMMA EntriesGrow ==
    ASSUME NEW r \in Request, NEW a \in Nat, NEW b \in Nat, a <= b,
           NumTokens(r) = a, NumTokens(r)' = b
    PROVE  Seq(Seq(Seq(OwnEntries(r)))) \subseteq Seq(Seq(Seq(OwnEntries(r)')))
<1>1. PICK E, F : E = OwnEntries(r) /\ F = OwnEntries(r)'
  OBVIOUS
<1>2. E \subseteq F
  <2>1. E = ({r} \X (-1..(a - 1))) \X Nat /\ F = ({r} \X (-1..(b - 1))) \X Nat
    BY <1>1 DEF OwnEntries
  <2>2. -1..(a - 1) \subseteq -1..(b - 1)
    OBVIOUS
  <2> QED BY <2>1, <2>2
<1>3. Seq(E) \subseteq Seq(F)
  BY <1>2
<1>4. Seq(Seq(E)) \subseteq Seq(Seq(F))
  BY <1>3
<1>5. Seq(Seq(Seq(E))) \subseteq Seq(Seq(Seq(F)))
  BY <1>4
<1> QED BY <1>1, <1>5

LEMMA SampleKeepsAnswers ==
    ASSUME AnswerInv, Sample
    PROVE  AnswerInv'
<1>1. /\ phase' = "schedule" /\ batch' = <<>> /\ mega_data' = <<>>
      /\ UNCHANGED <<computed, fresh, preemptions>>
      /\ DOMAIN result' = Request /\ result' = [r \in Request |-> result'[r]]
  BY DEF Sample
<1>2. LayoutInv'
  BY SampleKeepsLayout DEF AnswerInv
<1>3. ASSUME NEW r \in Request
      PROVE  /\ Len(result'[r]) \in Nat /\ Len(result[r]) \in Nat
             /\ Len(result[r]) <= Len(result'[r])
             /\ result'[r] \in Seq(Seq(Seq(OwnEntries(r)')))
  <2>1. PICK S : S = Seq(Seq(OwnEntries(r)))
    OBVIOUS
  <2>2. PICK s \in Seq(S), l \in Nat : s = result[r] /\ l = Len(s)
    BY <2>1 DEF AnswerInv, AnswersAreOwn
  <2>3. SampledAs(r)
    BY SampleAnswers
  <2>4. result'[r] = s \/ \E read \in S : result'[r] = Append(s, read)
    <3>1. CASE MegaIsAnswered(r) /\ status[r] = "running"
      <4>1. PICK read \in S : result'[r] = << read >> /\ r \in Mega
        BY <2>1, <3>1 DEF MegaIsAnswered
      <4>2. s = <<>>
        BY <2>2, <3>1, <4>1 DEF AnswerInv, AnswersAreOwn, MegaIsOwn
      <4>3. Append(<<>>, read) = << read >>
        OBVIOUS
      <4> QED BY <4>1, <4>2, <4>3
    <3>2. CASE PlainIsAnswered(r)
      BY <2>1, <2>2, <3>2 DEF PlainIsAnswered
    <3> QED BY <2>2, <2>3, <3>1, <3>2 DEF SampledAs
  <2>5. PICK m \in Nat : result'[r] \in Seq(S) /\ m = Len(result'[r]) /\ l <= m
    <3>1. CASE result'[r] = s
      BY <2>2, <3>1
    <3>2. CASE \E read \in S : result'[r] = Append(s, read)
      <4>1. PICK read \in S : result'[r] = Append(s, read)
        BY <3>2
      <4>2. Append(s, read) \in Seq(S) /\ Len(Append(s, read)) = l + 1
        BY <2>2, AppendProperties
      <4> QED BY <4>1, <4>2
    <3> QED BY <2>4, <3>1, <3>2
  <2>6. PICK k \in Nat : k = NumPrompt(r) /\ NumPrompt(r)' = k
    BY NumPromptType DEF NumPrompt
  <2>7. NumTokens(r) = k + l /\ NumTokens(r)' = k + m
    BY <2>2, <2>5, <2>6 DEF NumTokens
  <2>8. Seq(S) \subseteq Seq(Seq(Seq(OwnEntries(r)')))
    <3>1. k + l \in Nat /\ k + m \in Nat /\ k + l <= k + m
      BY <2>5
    <3> QED BY <2>1, <2>7, <3>1, EntriesGrow
  <2> QED BY <2>2, <2>5, <2>8
<1>4. Counts'
  <2>1. result' \in [Request -> Seq(Answer)]
    <3>1. ASSUME NEW r \in Request PROVE result'[r] \in Seq(Answer)
      <4>1. PICK E : E = OwnEntries(r)' /\ result'[r] \in Seq(Seq(Seq(E)))
        BY <1>3
      <4>2. E \subseteq LogprobEntry
        <5>1. PICK m \in Int : m = NumTokens(r)' - 1
          <6>1. NumPrompt(r)' \in Nat
            BY NumPromptType DEF NumPrompt
          <6> QED BY <1>3, <6>1 DEF NumTokens
        <5>2. E = ({r} \X (-1..m)) \X Nat
          BY <4>1, <5>1 DEF OwnEntries
        <5> QED BY <5>2 DEF LogprobEntry, Token
      <4>3. Seq(E) \subseteq Seq(LogprobEntry)
        BY <4>2
      <4>4. Seq(Seq(E)) \subseteq Seq(Seq(LogprobEntry))
        BY <4>3
      <4>5. Seq(Seq(Seq(E))) \subseteq Seq(Answer)
        BY <4>4 DEF Answer
      <4> QED BY <4>1, <4>5
    <3> QED BY <1>1, <3>1
  <2>2. preemptions' \in [Request -> Nat]
        /\ \A r \in Request : preemptions'[r] <= MaxPreemptions[r]
    BY <1>1 DEF AnswerInv, Counts
  <2>3. ASSUME NEW r \in Request
        PROVE  fresh'[r] <= computed'[r] /\ computed'[r] <= NumTokens(r)'
    <3>1. PICK a \in Nat, b \in Nat, m \in Nat :
              a = Len(result[r]) /\ b = Len(result'[r]) /\ a <= b /\ m = NumPrompt(r)
      BY <1>3, NumPromptType
    <3>2. computed[r] \in Int /\ fresh[r] <= computed[r] /\ computed[r] <= m + a
      BY <3>1 DEF AnswerInv, Counts, LayoutInv, Counters, NumTokens
    <3>3. NumTokens(r)' = m + b
      BY <3>1 DEF NumTokens, NumPrompt
    <3> QED BY <1>1, <3>1, <3>2, <3>3
  <2>4. ASSUME NEW r \in Request, status'[r] = "waiting" PROVE fresh'[r] = 0
    <3>1. SampledAs(r)
      BY SampleAnswers
    <3>2. status[r] = "waiting"
      BY <2>4, <3>1 DEF SampledAs, MegaIsAnswered, PlainIsAnswered
    <3> QED BY <1>1, <3>2 DEF AnswerInv, Counts
  <2> QED BY <2>1, <2>2, <2>3, <2>4 DEF Counts
<1>5. BatchFits' /\ RowsAreLaidOut' /\ AssertionHeld'
  BY <1>1 DEF BatchFits, RowsAreLaidOut, AssertionHeld
<1>6. ASSUME NEW r \in Mega
      PROVE  MegaIsOwn(r)'
  <2>1. r \in Request /\ r \notin Plain
    BY MegaAssumption DEF Request
  <2>2. SampledAs(r)
    BY <2>1, SampleAnswers
  <2>3. MegaIsOwn(r)
    BY DEF AnswerInv, AnswersAreOwn
  <2>4. MegaDue(r)' = MegaDue(r) /\ Wider(r)' = Wider(r)
    OBVIOUS
  <2>5. CASE result'[r] = result[r] /\ status'[r] = status[r]
    BY <2>3, <2>4, <2>5 DEF MegaIsOwn
  <2>6. CASE MegaIsAnswered(r)
    <3>1. PICK read : /\ result'[r] = << read >> /\ status'[r] = "finished"
                      /\ read = MegaDue(r) \/ Wider(r) # {}
                      /\ read[1] = MegaDue(r)[1]
      BY <2>6 DEF MegaIsAnswered
    <3>2. Len(<< read >>) = 1 /\ << read >>[1] = read
      OBVIOUS
    <3> QED BY <2>4, <3>1, <3>2 DEF MegaIsOwn
  <2> QED BY <2>1, <2>2, <2>5, <2>6 DEF SampledAs, PlainIsAnswered
<1>7. ASSUME NEW r \in Plain
      PROVE  PlainIsOwn(r)'
  <2>1. r \in Request /\ r \notin Mega
    BY MegaAssumption DEF Request
  <2>2. SampledAs(r)
    BY <2>1, SampleAnswers
  <2>3. PICK s \in Seq(Answer), l \in Nat, m \in Nat \ {0} :
            s = result[r] /\ l = Len(s) /\ m = MaxTokens[r]
    <3>1. result[r] \in Seq(Answer)
      BY <2>1 DEF AnswerInv, Counts
    <3>2. MaxTokens[r] \in Nat \ {0}
      BY PlainAssumption
    <3>3. Len(result[r]) \in Nat
      BY <3>1
    <3> QED BY <3>1, <3>2, <3>3
  <2>4. /\ l <= m
        /\ status[r] = "finished" <=> l = m
        /\ \A k \in DOMAIN s : k = 1 \/ Mega = {} => s[k] = PlainDue(r, k)
    BY <2>3 DEF AnswerInv, AnswersAreOwn, PlainIsOwn
  <2>5. CASE result'[r] = result[r] /\ status'[r] = status[r]
    BY <2>3, <2>4, <2>5 DEF PlainIsOwn
  <2>6. CASE status[r] = "running" /\ PlainIsAnswered(r)
    <3>1. PICK read :
              /\ s = <<>> \/ Mega = {} => read = PlainDue(r, l + 1)
              /\ result'[r] = Append(s, read)
              /\ status'[r] = IF l + 1 >= m THEN "finished" ELSE "running"
      BY <2>3, <2>6 DEF PlainIsAnswered
    <3>2. l < m
      BY <2>4, <2>6
    <3>3. PICK t : t = Append(s, read)
      OBVIOUS
    <3>4. /\ Len(t) = l + 1 /\ DOMAIN t = 1..(l + 1)
          /\ t[l + 1] = read /\ \A k \in 1..l : t[k] = s[k]
      <4>1. s \in Seq(Answer \cup {read}) /\ read \in Answer \cup {read}
        BY <2>3
      <4> QED BY <2>3, <3>3, <4>1, AppendProperties
    <3>5. ASSUME NEW k \in DOMAIN t, k = 1 \/ Mega = {} PROVE t[k] = PlainDue(r, k)
      <4>1. CASE k = l + 1
        <5>1. s = <<>> \/ Mega = {}
          <6>1. ASSUME k = 1 PROVE s = <<>>
            <7>1. l = 0
              BY <4>1, <6>1
            <7> QED BY <2>3, <7>1, EmptySeq
          <6> QED BY <3>5, <6>1
        <5> QED BY <3>1, <3>4, <4>1, <5>1
      <4>2. CASE k \in 1..l
        <5>1. k \in DOMAIN s
          BY <2>3, <4>2
        <5> QED BY <2>4, <3>4, <3>5, <4>2, <5>1
      <4> QED BY <3>4, <4>1, <4>2
    <3>6. /\ Len(t) <= m
          /\ status'[r] = "finished" <=> Len(t) = m
      BY <3>1, <3>2, <3>4
    <3> QED BY <2>3, <3>1, <3>3, <3>5, <3>6 DEF PlainIsOwn
  <2> QED BY <2>1, <2>2, <2>5, <2>6 DEF SampledAs, MegaIsAnswered
<1>8. AnswersAreOwn'
  BY <1>3, <1>6, <1>7 DEF AnswersAreOwn
<1> QED BY <1>1, <1>2, <1>4, <1>5, <1>8 DEF AnswerInv

LEMMA InitAnswers == Init => AnswerInv
<1> SUFFICES ASSUME Init PROVE AnswerInv
  OBVIOUS
<1>1. /\ computed = [r \in Request |-> 0] /\ fresh = [r \in Request |-> 0]
      /\ preemptions = [r \in Request |-> 0] /\ batch = <<>> /\ mega_data = <<>>
      /\ phase = "schedule" /\ result = [r \in Request |-> <<>>]
      /\ status = [r \in Request |-> "waiting"]
  BY DEF Init
<1>2. Counts
  <2>1. result \in [Request -> Seq(Answer)] /\ \A r \in Request : Len(result[r]) = 0
    BY <1>1, EmptySeq
  <2>2. preemptions \in [Request -> Nat]
        /\ \A r \in Request : preemptions[r] <= MaxPreemptions[r]
    BY <1>1, SizeAssumption
  <2>3. ASSUME NEW r \in Request PROVE fresh[r] <= computed[r] /\ computed[r] <= NumTokens(r)
    BY <1>1, <2>1, NumPromptType DEF NumTokens
  <2>4. \A r \in Request : fresh[r] = 0
    BY <1>1
  <2> QED BY <2>1, <2>2, <2>3, <2>4 DEF Counts
<1>3. BatchFits /\ RowsAreLaidOut /\ AssertionHeld
  BY <1>1 DEF BatchFits, RowsAreLaidOut, AssertionHeld
<1>4. AnswersAreOwn
  <2>1. \A r \in Mega : result[r] = <<>> /\ status[r] = "waiting"
    BY <1>1 DEF Request
  <2>2. \A r \in Plain : /\ result[r] = <<>> /\ status[r] = "waiting"
                         /\ MaxTokens[r] \in Nat \ {0}
    BY <1>1, PlainAssumption DEF Request
  <2>3. \A r \in Mega : MegaIsOwn(r)
    BY <2>1 DEF MegaIsOwn
  <2>4. ASSUME NEW r \in Plain PROVE PlainIsOwn(r)
    <3>1. Len(result[r]) = 0 /\ DOMAIN result[r] = {}
      BY <2>2
    <3> QED BY <2>2, <3>1 DEF PlainIsOwn
  <2>5. \A r \in Request : result[r] \in Seq(Seq(Seq(OwnEntries(r))))
    BY <1>1, EmptySeq
  <2> QED BY <2>3, <2>4, <2>5 DEF AnswersAreOwn
<1> QED BY <1>1, <1>2, <1>3, <1>4, InitLayout DEF AnswerInv

\* Who is answered with what does not depend on who is scheduled.
LEMMA SameAnswers ==
    ASSUME AnswersAreOwn, result' = result,
           \A r \in Request : status'[r] = "finished" <=> status[r] = "finished"
    PROVE  AnswersAreOwn'
<1>1. ASSUME NEW r \in Mega PROVE MegaIsOwn(r)'
  <2>1. MegaIsOwn(r) /\ r \in Request
    BY DEF AnswersAreOwn, Request
  <2> QED BY <2>1 DEF MegaIsOwn
<1>2. ASSUME NEW r \in Plain PROVE PlainIsOwn(r)'
  <2>1. PlainIsOwn(r) /\ r \in Request
    BY DEF AnswersAreOwn, Request
  <2> QED BY <2>1 DEF PlainIsOwn
<1>3. ASSUME NEW r \in Request PROVE OwnEntries(r)' = OwnEntries(r)
  BY DEF OwnEntries, NumTokens, NumPrompt
<1> QED BY <1>1, <1>2, <1>3 DEF AnswersAreOwn

LEMMA ScheduleKeepsAnswers ==
    ASSUME AnswerInv, NEW r \in Request, ScheduleRequest(r)
    PROVE  AnswerInv'
<1>1. PICK start \in IF status[r] = "waiting"
                     THEN {ComputedBlocks(r, hit) : hit \in CacheHits(r)}
                     ELSE {computed[r]},
           n \in 1..TokenBudget :
          /\ start + n <= NumTokens(r)
          /\ status' = [status EXCEPT ![r] = "running"]
          /\ computed' = [computed EXCEPT ![r] = start + n]
          /\ fresh' = [fresh EXCEPT ![r] = @ + n]
          /\ batch' = Append(batch, [req |-> r, n |-> n])
          /\ mega_data' = Append(mega_data, start)
  BY DEF ScheduleRequest
<1>2. n \in Nat \ {0} /\ n <= TokenBudget
  BY SizeAssumption
<1>3. /\ phase = "schedule" /\ phase' = "schedule"
      /\ status[r] \in {"waiting", "running"}
      /\ \A i \in DOMAIN batch : batch[i].req # r
      /\ UNCHANGED <<preemptions, result>>
  BY DEF ScheduleRequest, Scheduled, AnswerInv, LayoutInv, Counters
<1>4. LayoutInv'
  BY ScheduleKeepsLayout DEF AnswerInv
<1>5. PICK f \in Nat, c \in Nat : /\ f = fresh[r] /\ c = computed[r] /\ f <= c
                                  /\ status[r] = "waiting" => f = 0
  BY DEF AnswerInv, LayoutInv, Counters, Counts
<1>6. PICK m \in Nat : m = NumTokens(r) /\ NumTokens(r)' = m
  <2>1. Len(result[r]) \in Nat /\ result' = result
    BY <1>3 DEF AnswerInv, Counts
  <2> QED BY <2>1, NumPromptType DEF NumTokens, NumPrompt
<1>7. start \in Nat /\ start + n <= m /\ f <= start
  <2>1. CASE status[r] = "waiting"
    <3>1. PICK hit \in Nat : start = ComputedBlocks(r, hit)
      BY <1>1, <2>1 DEF CacheHits
    <3> QED BY <1>1, <1>5, <1>6, <2>1, <3>1, CacheHitStaysInPrefix
  <2>2. CASE status[r] = "running"
    BY <1>1, <1>5, <1>6, <2>2
  <2> QED BY <1>3, <2>1, <2>2
<1>8. /\ computed'[r] = start + n /\ fresh'[r] = f + n /\ status'[r] = "running"
      /\ \A q \in Request \ {r} : /\ computed'[q] = computed[q] /\ fresh'[q] = fresh[q]
                                  /\ status'[q] = status[q]
  BY <1>1, <1>5 DEF AnswerInv, LayoutInv, Counters
<1>9. Counts'
  <2>1. ASSUME NEW q \in Request
        PROVE  /\ fresh'[q] <= computed'[q] /\ computed'[q] <= NumTokens(q)'
               /\ status'[q] = "waiting" => fresh'[q] = 0
    <3>1. CASE q = r
      BY <1>2, <1>5, <1>6, <1>7, <1>8, <3>1
    <3>2. CASE q # r
      <4>1. NumTokens(q)' = NumTokens(q)
        BY <1>3 DEF NumTokens, NumPrompt
      <4> QED BY <1>8, <3>2, <4>1 DEF AnswerInv, Counts
    <3> QED BY <3>1, <3>2
  <2> QED BY <1>3, <2>1 DEF AnswerInv, Counts
<1>10. PICK l \in Nat : /\ DOMAIN batch = 1..l /\ DOMAIN batch' = 1..(l + 1)
                        /\ DOMAIN mega_data' = 1..(l + 1)
                        /\ \A i \in 1..l : /\ batch'[i] = batch[i]
                                           /\ mega_data'[i] = mega_data[i]
                        /\ batch'[l + 1] = [req |-> r, n |-> n]
                        /\ mega_data'[l + 1] = start
  <2>1. PICK e \in Entry : e = [req |-> r, n |-> n]
    <3>1. [req |-> r, n |-> n] \in Entry
      BY <1>2 DEF Entry
    <3> QED BY <3>1
  <2>2. PICK l \in Nat : l = Len(batch)
    BY DEF AnswerInv, LayoutInv
  <2>3. batch \in Seq(Entry) /\ mega_data \in Seq(Int) /\ Len(mega_data) = l
    BY <1>3, <2>2 DEF AnswerInv, LayoutInv, CacheLenIsStart
  <2>4. /\ DOMAIN batch = 1..l /\ DOMAIN batch' = 1..(l + 1)
        /\ \A i \in 1..l : batch'[i] = batch[i]
        /\ batch'[l + 1] = e
    BY <1>1, <2>1, <2>2, <2>3, AppendProperties
  <2>5. /\ DOMAIN mega_data' = 1..(l + 1)
        /\ \A i \in 1..l : mega_data'[i] = mega_data[i]
        /\ mega_data'[l + 1] = start
    <3>1. start \in Int
      BY <1>7
    <3> QED BY <1>1, <2>3, <3>1, AppendProperties
  <2> QED BY <2>1, <2>4, <2>5
<1>11. ASSUME NEW i \in 1..l
       PROVE  batch[i].req \in Request \ {r}
  BY <1>3, <1>10, BatchEntry DEF AnswerInv
<1>12. BatchFits'
  <2>1. ASSUME NEW i \in 1..(l + 1)
        PROVE  /\ batch'[i].n <= TokenBudget
               /\ mega_data'[i] \in 0..computed'[batch'[i].req]
    <3>1. CASE i = l + 1
      <4>1. batch'[i].n = n /\ batch'[i].req = r /\ mega_data'[i] = start
        BY <1>10, <3>1
      <4> QED BY <1>2, <1>7, <1>8, <4>1
    <3>2. CASE i \in 1..l
      <4>1. batch'[i] = batch[i] /\ mega_data'[i] = mega_data[i]
        BY <1>10, <3>2
      <4>2. computed'[batch[i].req] = computed[batch[i].req]
        BY <1>8, <1>11, <3>2
      <4>3. batch[i].n <= TokenBudget /\ mega_data[i] \in 0..computed[batch[i].req]
        BY <1>10, <3>2 DEF AnswerInv, BatchFits
      <4> QED BY <4>1, <4>2, <4>3
    <3> QED BY <3>1, <3>2
  <2>2. ASSUME NEW i \in 1..(l + 1), NEW j \in 1..(l + 1), batch'[i].req = batch'[j].req
        PROVE  i = j
    <3>1. CASE i \in 1..l /\ j \in 1..l
      <4>1. batch[i].req = batch[j].req
        BY <1>10, <2>2, <3>1
      <4> QED BY <1>10, <3>1, <4>1 DEF AnswerInv, BatchFits
    <3>2. CASE ~(i \in 1..l) /\ j \in 1..l
      <4>1. i = l + 1 /\ batch'[i].req = r /\ batch'[j].req = batch[j].req
        BY <1>10, <3>2
      <4> QED BY <1>11, <2>2, <3>2, <4>1
    <3>3. CASE i \in 1..l /\ ~(j \in 1..l)
      <4>1. j = l + 1 /\ batch'[j].req = r /\ batch'[i].req = batch[i].req
        BY <1>10, <3>3
      <4> QED BY <1>11, <2>2, <3>3, <4>1
    <3> QED BY <3>1, <3>2, <3>3
  <2> QED BY <1>10, <2>1, <2>2 DEF BatchFits
<1>13. RowsAreLaidOut' /\ AssertionHeld'
  BY <1>3 DEF RowsAreLaidOut, AssertionHeld
<1>14. AnswersAreOwn'
  <2>1. status[r] # "finished" /\ result' = result
    BY <1>3
  <2>2. ASSUME NEW q \in Request
        PROVE  status'[q] = "finished" <=> status[q] = "finished"
    BY <1>8, <2>1
  <2>3. AnswersAreOwn
    BY DEF AnswerInv
  <2> QED BY <2>1, <2>2, <2>3, SameAnswers
<1> QED BY <1>3, <1>4, <1>9, <1>12, <1>13, <1>14 DEF AnswerInv

LEMMA PreemptKeepsAnswers ==
    ASSUME AnswerInv, NEW r \in Request, Preempt(r)
    PROVE  AnswerInv'
<1>1. /\ phase = "schedule" /\ phase' = "schedule"
      /\ UNCHANGED <<batch, mega_data, result>>
      /\ status[r] = "running"
      /\ status' = [status EXCEPT ![r] = "waiting"]
      /\ computed' = [computed EXCEPT ![r] = 0]
      /\ fresh' = [fresh EXCEPT ![r] = 0]
      /\ preemptions[r] < MaxPreemptions[r]
      /\ preemptions' = [preemptions EXCEPT ![r] = @ + 1]
      /\ \A i \in DOMAIN batch : batch[i].req # r
  BY DEF Preempt, step, Scheduled
<1>2. /\ computed'[r] = 0 /\ fresh'[r] = 0 /\ status'[r] = "waiting"
      /\ \A q \in Request \ {r} : /\ computed'[q] = computed[q] /\ fresh'[q] = fresh[q]
                                  /\ status'[q] = status[q]
  BY <1>1 DEF AnswerInv, LayoutInv, Counters
<1>3. LayoutInv'
  BY PreemptKeepsLayout DEF AnswerInv
<1>4. Counts'
  <2>1. preemptions' \in [Request -> Nat]
        /\ \A q \in Request : preemptions'[q] <= MaxPreemptions[q]
    <3>1. preemptions[r] \in Nat /\ MaxPreemptions[r] \in Nat
      BY SizeAssumption DEF AnswerInv, Counts
    <3>2. preemptions[r] + 1 \in Nat /\ preemptions[r] + 1 <= MaxPreemptions[r]
      BY <1>1, <3>1
    <3> QED BY <1>1, <3>2 DEF AnswerInv, Counts
  <2>2. ASSUME NEW q \in Request
        PROVE  /\ fresh'[q] <= computed'[q] /\ computed'[q] <= NumTokens(q)'
               /\ status'[q] = "waiting" => fresh'[q] = 0
    <3>1. NumTokens(q)' = NumTokens(q) /\ NumTokens(q) \in Nat
      <4>1. Len(result[q]) \in Nat
        BY DEF AnswerInv, Counts
      <4> QED BY <1>1, <4>1, NumPromptType DEF NumTokens, NumPrompt
    <3>2. CASE q = r
      BY <1>2, <3>1, <3>2
    <3>3. CASE q # r
      BY <1>2, <3>1, <3>3 DEF AnswerInv, Counts
    <3> QED BY <3>2, <3>3
  <2> QED BY <1>1, <2>1, <2>2 DEF AnswerInv, Counts
<1>5. BatchFits'
  <2>1. \A i \in DOMAIN batch : computed'[batch[i].req] = computed[batch[i].req]
    BY <1>1, <1>2, BatchEntry DEF AnswerInv
  <2> QED BY <1>1, <2>1 DEF AnswerInv, BatchFits
<1>6. RowsAreLaidOut' /\ AssertionHeld'
  BY <1>1 DEF RowsAreLaidOut, AssertionHeld
<1>7. AnswersAreOwn'
  <2>1. ASSUME NEW q \in Request
        PROVE  status'[q] = "finished" <=> status[q] = "finished"
    BY <1>1, <1>2
  <2>2. AnswersAreOwn
    BY DEF AnswerInv
  <2> QED BY <1>1, <2>1, <2>2, SameAnswers
<1> QED BY <1>1, <1>3, <1>4, <1>5, <1>6, <1>7 DEF AnswerInv

LEMMA PrepareKeepsAnswers ==
    ASSUME AnswerInv, PrepareInputs
    PROVE  AnswerInv'
<1>1. /\ phase = "schedule" /\ phase' = "build"
      /\ UNCHANGED <<status, computed, fresh, preemptions, batch, mega_data, result>>
      /\ rows' = FlattenSeq([i \in DOMAIN batch |->
                      [k \in DOMAIN batch |-> Chunk(k)][i].rows])
      /\ row_configs' = [i \in DOMAIN batch |->
                      Len([k \in DOMAIN batch |-> Chunk(k)][i].rows)]
  BY DEF PrepareInputs, scheduler
<1>2. LayoutInv'
  BY PrepareKeepsLayout DEF AnswerInv
<1>3. RowsAreLaidOut'
  <2>1. \A i \in DOMAIN batch : Chunk(i) = LaidOutChunk(i)
    BY <1>1, ChunkIsLaidOut
  <2>2. \A i \in DOMAIN batch : LaidOutChunk(i)' = LaidOutChunk(i)
    BY <1>1 DEF LaidOutChunk, CacheLen, HasMega, Scheduled
  <2>3. rows' = FlattenSeq([i \in DOMAIN batch |-> LaidOutChunk(i).rows])
    <3>1. [i \in DOMAIN batch |-> [k \in DOMAIN batch |-> Chunk(k)][i].rows]
            = [i \in DOMAIN batch |-> LaidOutChunk(i).rows]
      BY <2>1
    <3> QED BY <1>1, <3>1
  <2>4. row_configs' = [i \in DOMAIN batch |-> Len(LaidOutChunk(i).rows)]
    BY <1>1, <2>1
  <2>5. /\ [i \in DOMAIN batch |-> LaidOutChunk(i).rows]'
             = [i \in DOMAIN batch |-> LaidOutChunk(i).rows]
        /\ [i \in DOMAIN batch |-> Len(LaidOutChunk(i).rows)]'
             = [i \in DOMAIN batch |-> Len(LaidOutChunk(i).rows)]
    BY <1>1, <2>2
  <2> QED BY <2>3, <2>4, <2>5 DEF RowsAreLaidOut
<1>4. Counts' /\ BatchFits' /\ AnswersAreOwn'
  BY <1>1, SameAnswers DEF AnswerInv, Counts, BatchFits, NumTokens, NumPrompt
<1>5. AssertionHeld' /\ phase' \in {"schedule", "build", "sample", "failed"}
  BY <1>1 DEF AssertionHeld
<1> QED BY <1>2, <1>3, <1>4, <1>5 DEF AnswerInv

\* _segment_requests keeps standard attention within the prefix and the chunk.
LEMMA StandardFits ==
    ASSUME LayoutInv, NEW i \in DOMAIN batch, mega_data[i] \in Nat
    PROVE  /\ StandardLen(i) \in 0..batch[i].n
           /\ batch[i].req \in Mega /\ StandardLen(i) > 0 =>
                mega_data[i] + StandardLen(i) <= PrefixLen[batch[i].req]
<1>1. PICK n \in Nat \ {0}, c \in Nat : n = batch[i].n /\ c = mega_data[i]
  BY BatchEntry
<1>2. PICK r : r = batch[i].req
  OBVIOUS
<1>3. CASE r \notin Mega
  BY <1>1, <1>2, <1>3 DEF StandardLen
<1>4. CASE r \in Mega
  <2>1. PICK p \in Nat, size \in Nat \ {0} : p = PrefixLen[r] /\ size = BlockSize
    BY <1>4, MegaSizes, SizeAssumption
  <2>2. PICK low \in Int : low = Min({p - c, n}) /\ low = IF p - c <= n THEN p - c ELSE n
    <3>1. p - c \in Int /\ n \in Int
      OBVIOUS
    <3>2. PICK a \in Int, b \in Int : a = p - c /\ b = n
      BY <3>1
    <3>3. Min({a, b}) = IF a <= b THEN a ELSE b
      BY MinIs
    <3> QED BY <3>2, <3>3
  <2>3. StandardLen(i) = IF p - c >= 2 * size THEN low ELSE 0
    BY <1>1, <1>2, <1>4, <2>1, <2>2 DEF StandardLen
  <2> QED BY <1>1, <1>2, <2>1, <2>2, <2>3
<1> QED BY <1>3, <1>4

LEMMA BuildKeepsAnswers ==
    ASSUME AnswerInv, BuildMetadata
    PROVE  AnswerInv'
<1>1. /\ phase = "build" /\ phase' = "sample" /\ LayoutAssertion
      /\ UNCHANGED <<status, computed, fresh, preemptions, batch, rows, row_configs, result>>
      /\ mega_data' = [i \in DOMAIN batch |-> SegmentedCacheLen(i)]
  BY DEF BuildMetadata, scheduler
<1>2. LayoutInv'
  BY BuildKeepsLayout DEF AnswerInv
<1>3. ASSUME NEW i \in DOMAIN batch
      PROVE  /\ mega_data[i] = CacheLen(batch[i]) /\ mega_data[i] \in Nat
             /\ batch[i].n \in Nat \ {0} /\ StandardLen(i) \in 0..batch[i].n
             /\ mega_data[i] + batch[i].n = computed[batch[i].req]
  <2>1. mega_data[i] = CacheLen(batch[i])
    BY <1>1 DEF AnswerInv, LayoutInv, CacheLenIsStart
  <2>2. batch[i].n \in Nat \ {0}
    BY BatchEntry DEF AnswerInv
  <2>3. CacheLen(batch[i]) \in Nat /\ CacheLen(batch[i]) + batch[i].n = computed[batch[i].req]
    BY ChunkBounds
  <2>4. mega_data[i] \in Nat /\ LayoutInv
    BY <2>1, <2>3 DEF AnswerInv
  <2>5. StandardLen(i) \in 0..batch[i].n
    BY <2>4, StandardFits
  <2> QED BY <2>1, <2>2, <2>3, <2>5
<1>4. BatchFits'
  <2>1. ASSUME NEW i \in DOMAIN batch
        PROVE  SegmentedCacheLen(i) \in 0..computed[batch[i].req]
    <3>1. PICK c \in Nat, n \in Nat, std \in Nat :
              /\ std <= n /\ c = mega_data[i] /\ n = batch[i].n /\ std = StandardLen(i)
              /\ c + n = computed[batch[i].req]
      BY <1>3
    <3>2. SegmentedCacheLen(i) = c + IF batch[i].req \in Mega THEN std ELSE 0
      BY <3>1 DEF SegmentedCacheLen
    <3> QED BY <3>1, <3>2
  <2> QED BY <1>1, <2>1 DEF AnswerInv, BatchFits
<1>5. RowsAreLaidOut'
  <2>1. \A i \in DOMAIN batch : LaidOutChunk(i)' = LaidOutChunk(i)
    BY <1>1 DEF LaidOutChunk, CacheLen, HasMega, Scheduled
  <2>2. /\ [i \in DOMAIN batch |-> LaidOutChunk(i).rows]'
             = [i \in DOMAIN batch |-> LaidOutChunk(i).rows]
        /\ [i \in DOMAIN batch |-> Len(LaidOutChunk(i).rows)]'
             = [i \in DOMAIN batch |-> Len(LaidOutChunk(i).rows)]
    BY <1>1, <2>1
  <2> QED BY <1>1, <2>2 DEF AnswerInv, RowsAreLaidOut
<1>6. AssertionHeld'
  <2>1. ASSUME NEW i \in DOMAIN batch, batch[i].req \in Mega
        PROVE  CacheLen(batch[i]) <= PrefixLen[batch[i].req]
    <3>1. PICK c \in Nat, n \in Nat \ {0}, std \in Nat, p \in Nat :
              /\ std <= n /\ c = mega_data[i] /\ n = batch[i].n /\ std = StandardLen(i)
              /\ p = PrefixLen[batch[i].req] /\ c = CacheLen(batch[i])
      BY <1>3, <2>1, MegaSizes
    <3>2. CASE std > 0
      <4>1. c + std <= p
        BY <1>3, <2>1, <3>1, <3>2, StandardFits DEF AnswerInv
      <4> QED BY <3>1, <4>1
    <3>3. CASE std = 0
      <4>1. MegaLen(i) > 0 /\ SegmentedCacheLen(i) = c
        BY <2>1, <3>1, <3>3 DEF MegaLen, SegmentedCacheLen
      <4>2. RemainingPrefix(i) >= 0
        BY <1>1, <4>1 DEF LayoutAssertion
      <4> QED BY <3>1, <4>1, <4>2 DEF RemainingPrefix
    <3> QED BY <3>1, <3>2, <3>3
  <2>2. \A i \in DOMAIN batch : CacheLen(batch[i])' = CacheLen(batch[i])
    BY <1>1 DEF CacheLen
  <2> QED BY <1>1, <2>1, <2>2 DEF AssertionHeld
<1>7. Counts' /\ AnswersAreOwn'
  BY <1>1, SameAnswers DEF AnswerInv, Counts, NumTokens, NumPrompt
<1> QED BY <1>1, <1>2, <1>4, <1>5, <1>6, <1>7 DEF AnswerInv

LEMMA BuildFailsKeepsAnswers ==
    ASSUME AnswerInv, BuildFails
    PROVE  AnswerInv'
<1>1. /\ phase' = "failed"
      /\ UNCHANGED <<status, computed, fresh, preemptions, batch, mega_data, result>>
  BY DEF BuildFails, scheduler
<1>2. LayoutInv'
  BY BuildFailsKeepsLayout DEF AnswerInv
<1>3. Counts' /\ BatchFits' /\ AnswersAreOwn' /\ RowsAreLaidOut' /\ AssertionHeld'
  BY <1>1, SameAnswers DEF AnswerInv, Counts, BatchFits, NumTokens, NumPrompt,
              RowsAreLaidOut, AssertionHeld
<1> QED BY <1>1, <1>2, <1>3 DEF AnswerInv

-----------------------------------------------------------------------------

\* In every reachable state the rows of a step are those of its chunks, what is
\* sampled starts within the prefix, and what a request has read is its own or
\* padding: all of it for the widest mega requests, the first beam for the
\* narrower ones (the stride of serving_engine.beam_search), and the first answer
\* for ordinary requests.
THEOREM AnswerInvariant == Spec => []AnswerInv
<1>1. Init => AnswerInv
  BY InitAnswers
<1>2. AnswerInv /\ [Next]_vars => AnswerInv'
  <2> SUFFICES ASSUME AnswerInv, [Next]_vars PROVE AnswerInv'
    OBVIOUS
  <2>1. ASSUME NEW r \in Request, ScheduleRequest(r) PROVE AnswerInv'
    BY <2>1, ScheduleKeepsAnswers
  <2>2. ASSUME NEW r \in Request, Preempt(r) PROVE AnswerInv'
    BY <2>2, PreemptKeepsAnswers
  <2>3. CASE UNCHANGED vars
    <3>1. UNCHANGED <<status, computed, fresh, preemptions, batch, mega_data, phase,
                      rows, row_configs, result>>
      BY <2>3 DEF vars, scheduler, step
    <3>2. LayoutInv'
      BY <3>1 DEF AnswerInv, LayoutInv, Counters, StartsInPrefix,
          BatchIsRunning, CacheLenIsStart, CacheLen, FailsOnlyOnSplitBeams
    <3>3. Counts' /\ BatchFits' /\ AnswersAreOwn' /\ AssertionHeld'
      BY <3>1, SameAnswers DEF AnswerInv, Counts, BatchFits, NumTokens, NumPrompt,
          AssertionHeld, CacheLen
    <3>4. RowsAreLaidOut'
      <4>1. \A i \in DOMAIN batch : LaidOutChunk(i)' = LaidOutChunk(i)
        BY <3>1 DEF LaidOutChunk, CacheLen, HasMega, Scheduled
      <4>2. /\ [i \in DOMAIN batch |-> LaidOutChunk(i).rows]'
                 = [i \in DOMAIN batch |-> LaidOutChunk(i).rows]
            /\ [i \in DOMAIN batch |-> Len(LaidOutChunk(i).rows)]'
                 = [i \in DOMAIN batch |-> Len(LaidOutChunk(i).rows)]
        BY <3>1, <4>1
      <4> QED BY <3>1, <4>2 DEF AnswerInv, RowsAreLaidOut
    <3> QED BY <3>1, <3>2, <3>3, <3>4 DEF AnswerInv
  <2> QED BY <2>1, <2>2, <2>3, PrepareKeepsAnswers, BuildKeepsAnswers,
        BuildFailsKeepsAnswers, SampleKeepsAnswers DEF Next, Terminated
<1> QED BY <1>1, <1>2, PTL DEF Spec

\* Whatever the scheduler cuts the prompts into, every token of a step gets the
\* position it would have in a sequence of its own.
THEOREM PositionsOfTheBeams == Spec => []PositionsAreTheBeams
<1>1. Init => PositionsAreTheBeams
  BY DEF Init, PositionsAreTheBeams
<1>2. AnswerInv /\ PositionsAreTheBeams /\ [Next]_vars => PositionsAreTheBeams'
  <2> SUFFICES ASSUME AnswerInv, PositionsAreTheBeams, [Next]_vars
               PROVE  PositionsAreTheBeams'
    OBVIOUS
  <2>1. CASE phase' = "schedule"
    BY <2>1 DEF PositionsAreTheBeams
  <2>2. CASE PrepareInputs
    BY <2>2, PreparePositions
  <2>3. CASE BuildMetadata \/ BuildFails \/ UNCHANGED vars
    <3>1. UNCHANGED <<batch, computed, positions>>
      BY <2>3 DEF BuildMetadata, BuildFails, vars, scheduler, step
    <3>2. phase' # "schedule" => phase # "schedule"
      BY <2>3 DEF BuildMetadata, BuildFails, vars, step
    <3>3. Tokens' = Tokens
      BY <3>1 DEF Tokens, CacheLen
    <3>4. CASE phase' # "schedule"
      <4>1. positions = [t \in DOMAIN Tokens |-> OwnPosition(Tokens[t][1], Tokens[t][2])]
        BY <3>2, <3>4 DEF PositionsAreTheBeams
      <4> QED BY <3>1, <3>3, <4>1 DEF PositionsAreTheBeams
    <3> QED BY <2>1, <3>4
  <2>4. (\E r \in Request : ScheduleRequest(r) \/ Preempt(r)) \/ Sample
          => phase' = "schedule"
    BY DEF ScheduleRequest, Preempt, Sample, step
  <2> QED BY <2>1, <2>2, <2>3, <2>4 DEF Next, Terminated
<1> QED BY <1>1, <1>2, AnswerInvariant, PTL DEF Spec

\* The states of MegaLayout are well formed.
THEOREM TypeCorrect == Spec => []TypeOK
<1>1. ASSUME AnswerInv PROVE TypeOK
  <2>1. status \in [Request -> {"waiting", "running", "finished"}]
    BY <1>1 DEF AnswerInv, LayoutInv, Counters
  <2>2. ASSUME NEW r \in Request
        PROVE  /\ fresh[r] \in 0..computed[r]
               /\ computed[r] \in 0..NumTokens(r)
               /\ preemptions[r] \in 0..MaxPreemptions[r]
    <3>1. PICK f \in Nat, c \in Int, m \in Nat :
              f = fresh[r] /\ c = computed[r] /\ m = NumTokens(r)
      <4>1. Len(result[r]) \in Nat
        BY <1>1 DEF AnswerInv, Counts
      <4>2. NumTokens(r) \in Nat
        BY <4>1, NumPromptType DEF NumTokens
      <4> QED BY <1>1, <4>2 DEF AnswerInv, LayoutInv, Counters
    <3>2. f <= c /\ c <= m /\ preemptions[r] \in 0..MaxPreemptions[r]
      <4>1. MaxPreemptions[r] \in Nat
        BY SizeAssumption
      <4> QED BY <1>1, <3>1, <4>1 DEF AnswerInv, Counts
    <3> QED BY <3>1, <3>2
  <2>3. ASSUME NEW r \in Request, NEW k \in DOMAIN result[r], NEW b \in DOMAIN result[r][k]
        PROVE  ToSet(result[r][k][b]) \subseteq ({r} \X (-1..(NumTokens(r) - 1))) \X Nat
    <3>1. PICK E : E = OwnEntries(r) /\ result[r] \in Seq(Seq(Seq(E)))
      BY <1>1 DEF AnswerInv, AnswersAreOwn
    <3>2. result[r][k] \in Seq(Seq(E))
      BY <3>1
    <3>3. result[r][k][b] \in Seq(E)
      BY <3>2
    <3>4. ToSet(result[r][k][b]) \subseteq E
      BY <3>3 DEF ToSet
    <3> QED BY <3>1, <3>4 DEF OwnEntries
  <2>4. ASSUME NEW i \in DOMAIN batch
        PROVE  /\ status[batch[i].req] = "running"
               /\ batch[i].n \in 1..TokenBudget
               /\ mega_data[i] \in 0..computed[batch[i].req]
    <3>1. batch[i].n \in Nat \ {0} /\ status[batch[i].req] = "running"
      BY <1>1, BatchEntry DEF AnswerInv
    <3>2. batch[i].n <= TokenBudget /\ mega_data[i] \in 0..computed[batch[i].req]
      BY <1>1 DEF AnswerInv, BatchFits
    <3> QED BY <3>1, <3>2, SizeAssumption
  <2>5. DOMAIN mega_data = DOMAIN batch
        /\ phase \in {"schedule", "build", "sample", "failed"}
    BY <1>1 DEF AnswerInv, BatchFits
  <2> QED BY <2>1, <2>2, <2>3, <2>4, <2>5 DEF TypeOK
<1> QED BY <1>1, AnswerInvariant, PTL

\* A finished mega request that no wider one exists for has read, beam by beam,
\* the log-probabilities of the last token of each of its beams, whatever chunks
\* its prompt ran in and whatever shared them; any other at least those of its
\* first beam.  The first answer of an ordinary request is its own.
MegaAnswersAreComplete ==
    /\ \A r \in Mega : status[r] = "finished" =>
          LET due == [b \in 1..BeamWidth[r] |->
                        Entries(<<r, PrefixLen[r] + b * DecodeSteps[r] - 1>>,
                                1 + BeamWidth[r])]
          IN  /\ (\A m \in Mega : BeamWidth[m] <= BeamWidth[r]) => result[r] = << due >>
              /\ result[r][1][1] = due[1]
    /\ \A r \in Plain : result[r] # <<>> =>
          result[r][1] = << Entries(<<r, PromptLen[r] - 1>>, 1 + Logprobs[r]) >>

THEOREM MegaAnswers == Spec => []MegaAnswersAreComplete
<1>1. ASSUME AnswerInv PROVE MegaAnswersAreComplete
  <2>1. ASSUME NEW r \in Mega, status[r] = "finished"
        PROVE  LET due == [b \in 1..BeamWidth[r] |->
                             Entries(<<r, PrefixLen[r] + b * DecodeSteps[r] - 1>>,
                                     1 + BeamWidth[r])]
               IN  /\ (\A m \in Mega : BeamWidth[m] <= BeamWidth[r]) => result[r] = << due >>
                   /\ result[r][1][1] = due[1]
    <3> DEFINE due == [b \in 1..BeamWidth[r] |->
                         Entries(<<r, PrefixLen[r] + b * DecodeSteps[r] - 1>>,
                                 1 + BeamWidth[r])]
    <3>1. due = MegaDue(r)
      BY <2>1 DEF MegaDue, BeamEnd
    <3> HIDE DEF due
    <3>2. /\ Len(result[r]) = 1
          /\ result[r][1] = due \/ Wider(r) # {}
          /\ result[r][1][1] = due[1]
      BY <1>1, <2>1, <3>1 DEF AnswerInv, AnswersAreOwn, MegaIsOwn
    <3>3. ASSUME \A m \in Mega : BeamWidth[m] <= BeamWidth[r] PROVE result[r] = << due >>
      <4>1. Wider(r) = {}
        <5>1. ASSUME NEW m \in Mega PROVE ~(BeamWidth[m] > BeamWidth[r])
          <6>1. BeamWidth[m] \in Nat /\ BeamWidth[r] \in Nat
            BY MegaSizes
          <6> QED BY <3>3, <6>1
        <5> QED BY <5>1 DEF Wider
      <4>2. PICK s \in Seq(Answer) : s = result[r]
        BY <1>1 DEF AnswerInv, Counts, Request
      <4>3. Len(s) = 1 /\ s[1] = due
        BY <3>2, <4>1, <4>2
      <4>4. s = << s[1] >>
        BY <4>3
      <4> QED BY <4>2, <4>3, <4>4
    <3> QED BY <3>2, <3>3 DEF due
  <2>2. ASSUME NEW r \in Plain, result[r] # <<>>
        PROVE  result[r][1] = << Entries(<<r, PromptLen[r] - 1>>, 1 + Logprobs[r]) >>
    <3>1. result[r] \in Seq(Answer)
      BY <1>1 DEF AnswerInv, Counts, Request
    <3>2. 1 \in DOMAIN result[r]
      BY <2>2, <3>1
    <3>3. PICK p \in Nat : p = PromptLen[r] /\ p + 1 - 2 = p - 1
      BY PlainAssumption
    <3>4. result[r][1] = PlainDue(r, 1)
      BY <1>1, <3>2 DEF AnswerInv, AnswersAreOwn, PlainIsOwn
    <3> QED BY <3>3, <3>4 DEF PlainDue
  <2> QED BY <2>1, <2>2 DEF MegaAnswersAreComplete
<1>2. Spec => []AnswerInv
  BY AnswerInvariant
<1> QED BY <1>1, <1>2, PTL

\* What is due is what AnswersAreComplete asks for.
LEMMA DueIs ==
    ASSUME AnswerInv, NEW r \in Request
    PROVE  /\ r \in Mega => Due(r) = MegaDue(r)
           /\ r \notin Mega => Due(r) = PlainDue(r, Len(result[r]) + 1)
<1>1. CASE r \in Mega
  BY <1>1 DEF Due, MegaDue, NumLogprobs
<1>2. CASE r \notin Mega
  <2>1. PICK l \in Nat, p \in Nat : l = Len(result[r]) /\ p = PromptLen[r] /\ r \in Plain
    BY <1>2, PlainAssumption DEF AnswerInv, Counts, Request
  <2>2. NumTokens(r) - 1 = p + (l + 1) - 2
    BY <1>2, <2>1 DEF NumTokens, NumPrompt
  <2> QED BY <1>2, <2>1, <2>2 DEF Due, PlainDue, NumLogprobs
<1> QED BY <1>1, <1>2

LEMMA SampleIsComplete ==
    ASSUME AnswerInv, Sample, NEW i \in DOMAIN batch, Answered(i),
           NEW r, r = batch[i].req
    PROVE  /\ result'[r] = Append(result[r], Due(r)) <=> Undisturbed(i)
           /\ Undisturbed(i) =>
                 (status'[r] = "finished" <=>
                    Len(result'[r]) = IF r \in Mega THEN 1 ELSE MaxTokens[r])
<1>1. r \in Request /\ status[r] = "running" /\ phase = "sample"
  BY BatchEntry, SampleReads DEF AnswerInv
<1>2. PICK read : read = ReadBack(r, Remux(i))
  OBVIOUS
<1>3. PICK s \in Seq(Answer), l \in Nat : s = result[r] /\ l = Len(s)
  BY <1>1 DEF AnswerInv, Counts
<1>4. ASSUME NEW a, NEW b
      PROVE  /\ Append(s, a) = Append(s, b) => a = b
             /\ Append(s, a) # s
             /\ Len(Append(s, a)) = l + 1
  <2>1. s \in Seq(Answer \cup {a, b}) /\ a \in Answer \cup {a, b} /\ b \in Answer \cup {a, b}
    BY <1>3
  <2>2. /\ Len(Append(s, a)) = l + 1
        /\ Append(s, a)[l + 1] = a /\ Append(s, b)[l + 1] = b
    BY <1>3, <2>1, AppendProperties
  <2> QED BY <1>3, <2>2
<1>5. /\ Undisturbed(i) => rows # <<>>
      /\ rows # <<>> => (read = Due(r) <=> Undisturbed(i))
  <2>1. CASE r \in Mega
    BY <1>1, <1>2, <2>1, MegaReads, DueIs
  <2>2. CASE r \notin Mega
    <3>1. r \in Plain
      BY <1>1, <2>2 DEF Request
    <3> QED BY <1>1, <1>2, <2>2, <3>1, PlainReads, DueIs
  <2> QED BY <2>1, <2>2
<1>6. CASE rows = <<>>
  <2>1. ~IsRead(i) /\ ~Undisturbed(i)
    BY <1>5, <1>6 DEF IsRead
  <2>2. result'[r] = s
    BY <1>3, <2>1, SampleReads
  <2> QED BY <1>3, <1>4, <2>1, <2>2
<1>7. CASE rows # <<>>
  <2>1. IsRead(i)
    BY <1>7 DEF IsRead
  <2>2. /\ result'[r] = Append(s, read)
        /\ status'[r] = IF r \in Mega \/ l + 1 >= MaxTokens[r] THEN "finished" ELSE "running"
    BY <1>2, <1>3, <2>1, SampleReads DEF Reads
  <2>3. result'[r] = Append(s, Due(r)) <=> Undisturbed(i)
    BY <1>4, <1>5, <1>7, <2>2
  <2>4. Len(result'[r]) = l + 1
    BY <1>4, <2>2
  <2>5. CASE r \in Mega
    <3>1. s = <<>>
      BY <1>1, <1>3, <2>5 DEF AnswerInv, AnswersAreOwn, MegaIsOwn
    <3>2. l = 0
      BY <1>3, <3>1
    <3> QED BY <1>3, <2>2, <2>3, <2>4, <2>5, <3>2
  <2>6. CASE r \notin Mega
    <3>1. r \in Plain
      BY <1>1, <2>6 DEF Request
    <3>2. PICK m \in Nat : m = MaxTokens[r] /\ l < m
      <4>1. MaxTokens[r] \in Nat /\ l <= MaxTokens[r] /\ l # MaxTokens[r]
        BY <1>1, <1>3, <3>1, PlainAssumption DEF AnswerInv, AnswersAreOwn, PlainIsOwn
      <4> QED BY <4>1
    <3>3. status'[r] = "finished" <=> l + 1 = m
      BY <2>2, <2>6, <3>2
    <3> QED BY <1>3, <2>3, <2>4, <2>6, <3>2, <3>3
  <2> QED BY <2>5, <2>6
<1> QED BY <1>6, <1>7

\* A request whose tokens are all computed reads exactly its own log-probabilities
\* of its answer (_remux_logprobs_tensors and the stride of beam_search), if and
\* only if no request of the step has more rows than it has beams, and it does not
\* itself decode among mega requests.
THEOREM CompleteAnswers == Spec => AnswersAreComplete
<1>1. AnswerInv /\ [Next]_vars =>
        [phase = "sample" =>
          \A i \in DOMAIN batch : Answered(i) =>
             LET r == batch[i].req
             IN  /\ result'[r] = Append(result[r], Due(r)) <=> Undisturbed(i)
                 /\ Undisturbed(i) =>
                       (status'[r] = "finished" <=>
                          Len(result'[r]) = IF r \in Mega THEN 1 ELSE MaxTokens[r])
        ]_vars
  <2>1. ASSUME AnswerInv, Next, phase = "sample" PROVE Sample \/ UNCHANGED vars
    BY <2>1 DEF Next, Terminated, ScheduleRequest, Preempt, PrepareInputs, BuildMetadata,
                BuildFails
  <2> QED BY <2>1, SampleIsComplete
<1>2. Spec => []AnswerInv
  BY AnswerInvariant
<1> QED BY <1>1, <1>2, PTL DEF Spec, AnswersAreComplete

-----------------------------------------------------------------------------
(* The keys of a token, in the order attention reads them *)

KeyOf(r, i, k) ==
    IF InBeams(r, i) /\ k > PrefixLen[r]
    THEN <<r, BeamStart(r, i) + k - PrefixLen[r] - 1>>
    ELSE <<r, k - 1>>
NumKeys(r, i) ==
    IF InBeams(r, i) THEN PrefixLen[r] + i - BeamStart(r, i) + 1 ELSE i + 1
Keys(r, i) == [k \in 1..NumKeys(r, i) |-> KeyOf(r, i, k)]

\* A token in the beams is at or behind the start of its beam.
LEMMA BeamStartBounds ==
    ASSUME NEW r \in Mega, NEW i \in Nat, i >= PrefixLen[r]
    PROVE  BeamStart(r, i) \in Nat /\ PrefixLen[r] <= BeamStart(r, i) /\ BeamStart(r, i) <= i
<1>1. PICK p \in Nat \ {0}, d \in Nat \ {0} : p = PrefixLen[r] /\ d = DecodeSteps[r]
  BY MegaSizes
<1>2. PICK x \in Nat : x = i - p
  BY <1>1
<1>3. PICK y \in Nat : y = (x \div d) * d /\ y <= x
  BY <1>1, BlocksFit
<1>4. BeamStart(r, i) = p + y
  BY <1>1, <1>2, <1>3 DEF BeamStart
<1> QED BY <1>1, <1>2, <1>3, <1>4

\* Those keys are the token's own, each of them once.
LEMMA KeysAreOwn ==
    ASSUME NEW r \in Request, NEW i \in Nat
    PROVE  /\ Keys(r, i) \in Seq(Token)
           /\ ToSet(Keys(r, i)) = {r} \X OwnKeys(r, i)
           /\ Len(Keys(r, i)) = Cardinality(OwnKeys(r, i))
<1>1. CASE ~InBeams(r, i)
  <2>1. Keys(r, i) = [k \in 1..(i + 1) |-> <<r, k - 1>>] /\ OwnKeys(r, i) = 0..i
    BY <1>1 DEF Keys, NumKeys, KeyOf, OwnKeys
  <2>2. PICK s : s = [k \in 1..(i + 1) |-> <<r, k - 1>>]
    OBVIOUS
  <2>3. s \in Seq(Token) /\ Len(s) = i + 1
    <3>1. \A k \in 1..(i + 1) : <<r, k - 1>> \in Token
      BY DEF Token
    <3> QED BY <2>2, <3>1
  <2>4. ToSet(s) = {r} \X (0..i)
    <3>1. ASSUME NEW k \in 0..i PROVE <<r, k>> \in ToSet(s)
      <4>1. k + 1 \in 1..(i + 1) /\ s[k + 1] = <<r, k>>
        BY <2>2
      <4> QED BY <2>2, <4>1 DEF ToSet
    <3>2. ASSUME NEW x \in ToSet(s) PROVE x \in {r} \X (0..i)
      BY <2>2 DEF ToSet
    <3> QED BY <3>1, <3>2
  <2>5. Cardinality(0..i) = i + 1
    BY FS_Interval
  <2> QED BY <2>1, <2>2, <2>3, <2>4, <2>5
<1>2. CASE InBeams(r, i)
  <2>1. PICK p \in Nat \ {0}, b \in Nat : /\ r \in Mega /\ p = PrefixLen[r]
                                          /\ b = BeamStart(r, i) /\ p <= b /\ b <= i
    BY <1>2, MegaSizes, BeamStartBounds DEF InBeams
  <2>2. PICK n \in Nat : n = p + i - b + 1 /\ n > p
    BY <2>1
  <2>3. PICK s : s = [k \in 1..n |-> IF k > p THEN <<r, b + k - p - 1>> ELSE <<r, k - 1>>]
    OBVIOUS
  <2>4. Keys(r, i) = s /\ OwnKeys(r, i) = 0..(p - 1) \cup b..i
    BY <1>2, <2>1, <2>2, <2>3 DEF Keys, NumKeys, KeyOf, OwnKeys
  <2>5. s \in Seq(Token) /\ Len(s) = n
    <3>1. \A k \in 1..n : (IF k > p THEN <<r, b + k - p - 1>> ELSE <<r, k - 1>>) \in Token
      BY DEF Token
    <3> QED BY <2>3, <3>1
  <2>6. ToSet(s) = {r} \X (0..(p - 1) \cup b..i)
    <3>1. ASSUME NEW k \in 0..(p - 1) PROVE <<r, k>> \in ToSet(s)
      <4>1. k + 1 \in 1..n /\ s[k + 1] = <<r, k>>
        BY <2>2, <2>3
      <4> QED BY <2>3, <4>1 DEF ToSet
    <3>2. ASSUME NEW k \in b..i PROVE <<r, k>> \in ToSet(s)
      <4>1. PICK j \in 1..n : j = k - b + p + 1 /\ j > p
        BY <2>1, <2>2
      <4>2. s[j] = <<r, k>>
        <5>1. b + j - p - 1 = k
          BY <4>1
        <5> QED BY <2>3, <4>1, <5>1
      <4> QED BY <2>3, <4>1, <4>2 DEF ToSet
    <3>3. ASSUME NEW x \in ToSet(s) PROVE x \in {r} \X (0..(p - 1) \cup b..i)
      <4>1. PICK k \in 1..n : x = s[k]
        BY <2>3 DEF ToSet
      <4>2. CASE k > p
        <5>1. b + k - p - 1 \in b..i
          BY <2>2, <4>2
        <5> QED BY <2>3, <4>1, <4>2, <5>1
      <4>3. CASE ~(k > p)
        <5>1. k - 1 \in 0..(p - 1)
          BY <4>3
        <5> QED BY <2>3, <4>1, <4>3, <5>1
      <4> QED BY <4>2, <4>3
    <3> QED BY <3>1, <3>2, <3>3
  <2>7. Cardinality(0..(p - 1) \cup b..i) = n
    <3>1. /\ IsFiniteSet(0..(p - 1)) /\ Cardinality(0..(p - 1)) = p
          /\ IsFiniteSet(b..i) /\ Cardinality(b..i) = i - b + 1
      <4>1. p - 1 \in Int /\ ~(0 > p - 1) /\ ~(b > i) /\ (p - 1) - 0 + 1 = p
        BY <2>1
      <4> QED BY <4>1, FS_Interval
    <3>2. 0..(p - 1) \cap b..i = {}
      BY <2>1
    <3>3. Cardinality(0..(p - 1) \cup b..i)
            = Cardinality(0..(p - 1)) + Cardinality(b..i) - Cardinality(0..(p - 1) \cap b..i)
      BY <3>1, FS_Union
    <3>4. Cardinality(0..(p - 1) \cap b..i) = 0
      BY <3>2, FS_EmptySet
    <3> QED BY <2>2, <3>1, <3>3, <3>4
  <2> QED BY <2>4, <2>5, <2>6, <2>7
<1> QED BY <1>1, <1>2

\* Standard attention over a stretch of the prefix, or of an ordinary request.
LEMMA StandardKeys ==
    ASSUME NEW e, NEW r \in Request, r = e.req, NEW c \in Nat, NEW len \in Nat,
           r \in Mega /\ len > 0 => c + len <= PrefixLen[r]
    PROVE  /\ CausalKeys(len, TokensOf(e, 0, c + len)) \in Seq(Seq(Token))
           /\ Len(CausalKeys(len, TokensOf(e, 0, c + len))) = len
           /\ \A j \in 1..len :
                CausalKeys(len, TokensOf(e, 0, c + len))[j] = Keys(r, c + j - 1)
<1>1. PICK keys : keys = TokensOf(e, 0, c + len)
  OBVIOUS
<1>2. /\ keys \in Seq(Token) /\ Len(keys) = c + len
      /\ \A k \in 1..(c + len) : keys[k] = <<r, 0 + k - 1>>
  <2>1. e.req \in Request /\ c + len \in Nat /\ 0 \in Int
    OBVIOUS
  <2> QED BY <1>1, <2>1, TokensType
<1>3. CausalKeys(len, keys) = [j \in 1..len |-> SubSeq(keys, 1, Len(keys) - len + j)]
  BY DEF CausalKeys
<1>4. ASSUME NEW j \in 1..len
      PROVE  /\ SubSeq(keys, 1, Len(keys) - len + j) = Keys(r, c + j - 1)
             /\ Keys(r, c + j - 1) \in Seq(Token)
  <2>1. PICK i \in Nat : i = c + j - 1 /\ i + 1 = c + j /\ i + 1 <= c + len
    OBVIOUS
  <2>2. ~InBeams(r, i)
    <3>1. CASE r \in Mega
      <4>1. PICK p \in Nat : p = PrefixLen[r]
        BY <3>1, MegaSizes
      <4> QED BY <2>1, <3>1, <4>1 DEF InBeams
    <3> QED BY <3>1 DEF InBeams
  <2>3. PICK t : t = [k \in 1..(i + 1) |-> <<r, k - 1>>]
    OBVIOUS
  <2>4. Keys(r, i) = t
    BY <2>2, <2>3 DEF Keys, NumKeys, KeyOf
  <2>5. t \in Seq(Token) /\ Len(t) = i + 1
    BY <2>4, KeysAreOwn, <2>3
  <2>6. \A k \in 1..(i + 1) : keys[0 + k] = t[k]
    BY <1>2, <2>1, <2>3
  <2>7. SubSeq(keys, 0 + 1, 0 + Len(t)) = t
    <3>1. 0 + Len(t) <= Len(keys) /\ \A k \in 1..Len(t) : keys[0 + k] = t[k]
      BY <1>2, <2>1, <2>5, <2>6
    <3> QED BY <1>2, <2>5, <3>1, CutIs
  <2>8. Len(keys) - len + j = 0 + Len(t) /\ 0 + 1 = 1
    BY <1>2, <2>1, <2>5
  <2>9. SubSeq(keys, 1, Len(keys) - len + j) = t
    BY <2>7, <2>8
  <2>10. Keys(r, c + j - 1) = t
    BY <2>1, <2>4
  <2> QED BY <2>5, <2>9, <2>10
<1>5. CausalKeys(len, keys) \in Seq(Seq(Token)) /\ Len(CausalKeys(len, keys)) = len
  <2>1. \A j \in 1..len : SubSeq(keys, 1, Len(keys) - len + j) \in Seq(Token)
    BY <1>4
  <2>2. CausalKeys(len, keys) \in [1..len -> Seq(Token)]
    BY <1>3, <2>1
  <2> QED BY <2>2
<1>6. \A j \in 1..len : CausalKeys(len, keys)[j] = Keys(r, c + j - 1)
  BY <1>3, <1>4
<1> QED BY <1>1, <1>5, <1>6

-----------------------------------------------------------------------------
(* The segments of a mega chunk *)

\* What _build_mega_mappings has of the i-th chunk: tokens that continue the
\* prefix or the first beam, each in the slot the mappings give it.
Mapped(i) ==
    /\ batch[i].req \in Mega
    /\ SegmentedCacheLen(i) \in Nat
    /\ MegaLen(i) \in Nat \ {0}
    /\ RemainingPrefix(i) \in Nat
    /\ OutSlot(i) \in Nat
    /\ SegmentedCacheLen(i) + MegaLen(i) <= NumPrompt(batch[i].req)
    /\ \A j \in 1..MegaLen(i) :
          MegaTokens[OutSlot(i) - 1 + j] = <<batch[i].req, SegmentedCacheLen(i) + j - 1>>

\* How many tokens of the chunk the segments of the first b beams have.
Segmented(i, b) == Filled(batch[i].req, SegmentedCacheLen(i), MegaLen(i), b)

Wants(i, b) == IF b = 0 THEN RemainingPrefix(i) + DecodeSteps[batch[i].req]
               ELSE DecodeSteps[batch[i].req]

\* Beam b has the `un` tokens of the chunk that follow the first `fill`.
SegmentFits(i, b, fill, un) ==
    /\ fill \in Nat /\ un \in Nat
    /\ fill = Segmented(i, b)
    /\ fill + un = Segmented(i, b + 1)
    /\ fill + un <= MegaLen(i)
    /\ un = Min({MegaLen(i) - fill, Wants(i, b)})
    /\ un <= Wants(i, b)
    /\ un > 0 => fill = IF b = 0 THEN 0
                        ELSE RemainingPrefix(i) + b * DecodeSteps[batch[i].req]

LEMMA SegmentFill ==
    ASSUME NEW i, Mapped(i), NEW b \in Nat
    PROVE  \E fill, un : SegmentFits(i, b, fill, un)
<1>1. PICK r \in Mega : r = batch[i].req
  BY DEF Mapped
<1>2. PICK p \in Nat, d \in Nat \ {0} : p = PrefixLen[r] /\ d = DecodeSteps[r]
  BY MegaSizes
<1>3. PICK s \in Nat, m \in Nat \ {0}, rest \in Nat :
          /\ s = SegmentedCacheLen(i) /\ m = MegaLen(i) /\ rest = RemainingPrefix(i)
          /\ rest = p - s
  BY <1>1, <1>2 DEF Mapped, RemainingPrefix
<1>4. PICK x \in Nat : x = b * d /\ (b + 1) * d = x + d
  BY <1>2, BeamOffsets
<1>5. b = 0 => x = 0
  BY <1>2, <1>4
<1>6. b > 0 => x >= d
  <2>1. ASSUME b > 0 PROVE x >= d
    <3>1. PICK e \in Nat : b = e + 1
      BY <2>1
    <3>2. e * d \in Nat /\ (e + 1) * d = e * d + d
      BY <1>2, BeamOffsets
    <3> QED BY <1>2, <1>4, <3>1, <3>2
  <2> QED BY <2>1
<1>7. PICK fill, next : fill = Segmented(i, b) /\ next = Segmented(i, b + 1)
  OBVIOUS
<1>8. /\ fill = IF b = 0 THEN 0 ELSE IF rest + x <= m THEN rest + x ELSE m
      /\ next = IF rest + x + d <= m THEN rest + x + d ELSE m
  <2>1. b + 1 # 0 /\ PrefixLen[r] + (b + 1) * DecodeSteps[r] - s = rest + x + d
    BY <1>2, <1>3, <1>4
  <2>2. PrefixLen[r] + b * DecodeSteps[r] - s = rest + x
    BY <1>2, <1>3, <1>4
  <2>3. next = IF rest + x + d <= 0 THEN 0
               ELSE IF rest + x + d <= m THEN rest + x + d ELSE m
    BY <1>1, <1>3, <1>7, <2>1 DEF Filled, Segmented
  <2>4. fill = IF b = 0 \/ rest + x <= 0 THEN 0
               ELSE IF rest + x <= m THEN rest + x ELSE m
    BY <1>1, <1>3, <1>7, <2>2 DEF Filled, Segmented
  <2>5. ~(rest + x + d <= 0) /\ (b > 0 => ~(rest + x <= 0))
    BY <1>6
  <2> QED BY <2>3, <2>4, <2>5
<1>9. PICK wants \in Nat : wants = Wants(i, b) /\ wants = IF b = 0 THEN rest + d ELSE d
  BY <1>1, <1>2, <1>3 DEF Wants
<1>10. PICK un \in Nat : /\ un = next - fill
                         /\ un = IF m - fill <= wants THEN m - fill ELSE wants
                         /\ fill \in Nat /\ fill + un = next /\ next <= m
  <2>1. CASE b = 0
    BY <1>5, <1>8, <1>9, <2>1
  <2>2. CASE b # 0
    BY <1>6, <1>8, <1>9, <2>2
  <2> QED BY <2>1, <2>2
<1>11. un = Min({m - fill, wants}) /\ un <= wants
  <2>1. PICK left \in Int : left = m - fill
    BY <1>10
  <2>2. Min({left, wants}) = IF left <= wants THEN left ELSE wants
    BY MinIs
  <2> QED BY <1>10, <2>1, <2>2
<1>12. un > 0 => fill = IF b = 0 THEN 0 ELSE rest + x
  BY <1>6, <1>8, <1>9, <1>10
<1>13. SegmentFits(i, b, fill, un)
  BY <1>1, <1>2, <1>3, <1>4, <1>7, <1>9, <1>10, <1>11, <1>12 DEF SegmentFits
<1> QED BY <1>13

\* The suffix keys of a segment, as indices into the tokens of the mappings:
\* for a beam but the first, the missing prefix; then the beam's own.
SegmentOf(i, b, fill, un) ==
    [queries |-> un,
     keys |-> IF b = 0 THEN FromTo(OutSlot(i) + fill, un)
              ELSE FromTo(OutSlot(i), RemainingPrefix(i)) \o FromTo(OutSlot(i) + fill, un)]

\* How many of a segment's suffix keys are of the missing prefix, and the k-th.
Lead(i, b) == IF b = 0 THEN 0 ELSE RemainingPrefix(i)
SuffixPlace(i, b, fill, k) == IF k <= Lead(i, b) THEN k ELSE fill + k - Lead(i, b)

SegmentKeysAre(i, b, fill, un, keys) ==
    /\ Lead(i, b) \in Nat /\ keys \in Seq(Int) /\ Len(keys) = Lead(i, b) + un
    /\ \A k \in 1..(Lead(i, b) + un) :
          keys[k] = OutSlot(i) - 1 + SuffixPlace(i, b, fill, k)

LEMMA SegmentKeys ==
    ASSUME NEW i, Mapped(i), NEW b \in Nat, NEW fill \in Nat, NEW un \in Nat
    PROVE  SegmentKeysAre(i, b, fill, un, SegmentOf(i, b, fill, un).keys)
<1>6. PICK lead, keys : /\ lead = Lead(i, b)
                        /\ keys = SegmentOf(i, b, fill, un).keys
  OBVIOUS
<1>1. PICK out \in Nat, rest \in Nat : out = OutSlot(i) /\ rest = RemainingPrefix(i)
  BY DEF Mapped
<1>2. PICK own : own = FromTo(out + fill, un)
  OBVIOUS
<1>3. /\ own \in Seq(Int) /\ Len(own) = un
      /\ \A k \in 1..un : own[k] = out + fill + k - 1
  <2>1. out + fill \in Int
    OBVIOUS
  <2> QED BY <1>2, <2>1, RangeType
<1>4. CASE b = 0
  <2>1. keys = own /\ lead = 0
    BY <1>1, <1>2, <1>4, <1>6 DEF SegmentOf, Lead
  <2>2. \A k \in 1..(0 + un) :
            own[k] = out - 1 + IF k <= 0 THEN k ELSE fill + k - 0
    BY <1>3
  <2>3. \A k \in 1..(0 + un) :
            keys[k] = OutSlot(i) - 1 + SuffixPlace(i, b, fill, k)
    BY <1>1, <1>6, <2>1, <2>2 DEF SuffixPlace
  <2> QED BY <1>3, <1>6, <2>1, <2>3 DEF SegmentKeysAre
<1>5. CASE b # 0
  <2>1. PICK shared : shared = FromTo(out, rest)
    OBVIOUS
  <2>2. /\ shared \in Seq(Int) /\ Len(shared) = rest
        /\ \A k \in 1..rest : shared[k] = out + k - 1
    <3>1. out \in Int
      OBVIOUS
    <3>2. FromTo(out, rest) \in Seq(Int) /\ Len(FromTo(out, rest)) = rest
      BY <3>1, RangeType
    <3> QED BY <2>1, <3>2 DEF FromTo
  <2>3. keys = shared \o own /\ lead = rest
    BY <1>1, <1>2, <1>5, <1>6, <2>1 DEF SegmentOf, Lead
  <2>4. PICK all : all = shared \o own
    OBVIOUS
  <2>5. /\ all \in Seq(Int) /\ Len(all) = rest + un
        /\ \A k \in 1..(rest + un) :
             all[k] = IF k <= rest THEN shared[k] ELSE own[k - rest]
    BY <1>3, <2>2, <2>4, ConcatProperties
  <2>6. ASSUME NEW k \in 1..(rest + un)
        PROVE  all[k] = out - 1 + IF k <= rest THEN k ELSE fill + k - rest
    <3>1. CASE k <= rest
      <4>1. k \in 1..rest
        BY <3>1
      <4>2. all[k] = out + k - 1
        BY <2>2, <2>5, <3>1, <4>1
      <4> QED BY <3>1, <4>2
    <3>2. CASE ~(k <= rest)
      <4>1. PICK l \in 1..un : l = k - rest
        BY <3>2
      <4>2. all[k] = out + fill + l - 1
        BY <1>3, <2>5, <3>2, <4>1
      <4> QED BY <3>2, <4>1, <4>2
    <3> QED BY <3>1, <3>2
  <2>7. \A k \in 1..(rest + un) :
            keys[k] = OutSlot(i) - 1 + SuffixPlace(i, b, fill, k)
    BY <1>1, <1>6, <2>3, <2>4, <2>6 DEF SuffixPlace
  <2> QED BY <1>6, <2>3, <2>4, <2>5, <2>7 DEF SegmentKeysAre
<1> QED BY <1>4, <1>5

\* The tokens the j-th query of a segment attends to through the slot mapping.
CausalIs(i, b, fill, j, c) ==
    /\ DOMAIN c = 1..(Lead(i, b) + j)
    /\ \A k \in 1..(Lead(i, b) + j) :
          MegaTokens[c[k]]
            = <<batch[i].req, SegmentedCacheLen(i) + SuffixPlace(i, b, fill, k) - 1>>

LEMMA SuffixTokens ==
    ASSUME NEW i, Mapped(i), NEW b \in Nat, NEW fill, NEW un,
           SegmentFits(i, b, fill, un), NEW j \in 1..un, NEW keys,
           SegmentKeysAre(i, b, fill, un, keys)
    PROVE  CausalIs(i, b, fill, j, SubSeq(keys, 1, Len(keys) - un + j))
<1>1. PICK r \in Mega : r = batch[i].req
  BY DEF Mapped
<1>2. PICK out \in Nat, m \in Nat, s \in Nat :
          out = OutSlot(i) /\ m = MegaLen(i) /\ s = SegmentedCacheLen(i)
  BY DEF Mapped
<1>3. \A k \in 1..m : MegaTokens[out - 1 + k] = <<r, s + k - 1>>
  BY <1>1, <1>2 DEF Mapped
<1>4. fill \in Nat /\ un \in Nat \ {0} /\ fill + un <= m
  BY <1>2 DEF SegmentFits
<1>5. PICK lead \in Nat : lead = Lead(i, b)
  BY DEF SegmentKeysAre
<1>6. /\ keys \in Seq(Int) /\ Len(keys) = lead + un
      /\ \A k \in 1..(lead + un) : keys[k] = out - 1 + SuffixPlace(i, b, fill, k)
  BY <1>2, <1>5 DEF SegmentKeysAre
<1>7. PICK c : c = SubSeq(keys, 1, Len(keys) - un + j)
  OBVIOUS
<1>8. c = [k \in 1..(lead + j) |-> keys[k]]
  <2>1. Len(keys) - un + j = lead + j /\ lead + j \in 0..Len(keys)
    BY <1>4, <1>6
  <2> QED BY <1>6, <1>7, <2>1, PrefixIs
<1>9. lead <= fill \/ lead = 0
  <2>1. ASSUME lead > 0 PROVE lead <= fill
    <3>1. b # 0 /\ lead = RemainingPrefix(i)
      BY <1>5, <2>1 DEF Lead
    <3>2. fill = lead + b * DecodeSteps[r]
      BY <1>1, <1>4, <3>1 DEF SegmentFits
    <3>3. b * DecodeSteps[r] \in Nat
      BY MegaSizes, BeamOffsets
    <3> QED BY <3>2, <3>3
  <2> QED BY <2>1
<1>10. ASSUME NEW k \in 1..(lead + j)
       PROVE  MegaTokens[c[k]] = <<r, s + SuffixPlace(i, b, fill, k) - 1>>
  <2>1. PICK l \in Int : l = SuffixPlace(i, b, fill, k)
                         /\ l = IF k <= lead THEN k ELSE fill + k - lead
    BY <1>4, <1>5 DEF SuffixPlace
  <2>2. k \in 1..(lead + un)
    BY <1>4
  <2>3. l \in 1..m
    BY <1>4, <1>9, <2>1, <2>2
  <2>4. c[k] = out - 1 + l
    BY <1>6, <1>8, <2>1, <2>2
  <2>5. MegaTokens[out - 1 + l] = <<r, s + l - 1>>
    BY <1>3, <2>3
  <2> QED BY <2>1, <2>4, <2>5
<1>11. DOMAIN c = 1..(lead + j)
  BY <1>8
<1>12. CausalIs(i, b, fill, j, c)
  BY <1>1, <1>2, <1>5, <1>10, <1>11 DEF CausalIs
<1> QED BY <1>7, <1>12

ThroughSlots(c) == [k \in DOMAIN c |-> MegaTokens[c[k]]]

\* Behind the cached prefix they are the token's own keys.
LEMMA SuffixIsKeys ==
    ASSUME NEW i, Mapped(i), NEW b \in Nat, NEW fill, NEW un,
           SegmentFits(i, b, fill, un), NEW j \in 1..un, NEW c,
           CausalIs(i, b, fill, j, c)
    PROVE  TokensOf(batch[i], 0, SegmentedCacheLen(i)) \o ThroughSlots(c)
             = Keys(batch[i].req, SegmentedCacheLen(i) + fill + j - 1)
<1>1. PICK r \in Mega : r = batch[i].req /\ r \in Request
  BY DEF Mapped, Request
<1>2. PICK p \in Nat \ {0}, d \in Nat \ {0} : p = PrefixLen[r] /\ d = DecodeSteps[r]
  BY MegaSizes
<1>3. PICK s \in Nat, rest \in Nat : /\ s = SegmentedCacheLen(i)
                                     /\ rest = RemainingPrefix(i) /\ s + rest = p
  BY <1>1, <1>2 DEF Mapped, RemainingPrefix
<1>4. PICK x \in Nat : x = b * d
  BY <1>2, BeamOffsets
<1>5. /\ fill \in Nat /\ j \in Nat \ {0}
      /\ IF b = 0 THEN fill = 0 /\ j <= rest + d ELSE fill = rest + x /\ j <= d
  <2>1. un \in Nat /\ fill \in Nat /\ un > 0
    BY DEF SegmentFits
  <2>2. un <= Wants(i, b) /\ fill = IF b = 0 THEN 0 ELSE rest + x
    BY <1>1, <1>2, <1>3, <1>4, <2>1 DEF SegmentFits
  <2>3. Wants(i, b) = IF b = 0 THEN rest + d ELSE d
    BY <1>1, <1>2, <1>3 DEF Wants
  <2> QED BY <2>1, <2>2, <2>3
<1>6. PICK lead \in Nat : lead = Lead(i, b) /\ lead = IF b = 0 THEN 0 ELSE rest
  BY <1>3 DEF Lead
<1>7. PICK t \in Nat : t = s + fill + j - 1
  BY <1>5
<1>8. PICK cached : cached = TokensOf(batch[i], 0, s)
  OBVIOUS
<1>9. /\ cached \in Seq(Token) /\ Len(cached) = s
      /\ \A k \in 1..s : cached[k] = <<r, k - 1>>
  <2>1. TokensOf(batch[i], 0, s) \in Seq(Token) /\ Len(TokensOf(batch[i], 0, s)) = s
    <3>1. PICK e : e = batch[i] /\ e.req \in Request
      BY <1>1
    <3>2. 0 \in Int
      OBVIOUS
    <3>3. TokensOf(e, 0, s) \in Seq(Token) /\ Len(TokensOf(e, 0, s)) = s
      BY <3>1, <3>2, TokensType
    <3> QED BY <3>1, <3>3
  <2>2. \A k \in 1..s : TokensOf(batch[i], 0, s)[k] = <<r, 0 + k - 1>>
    BY <1>1 DEF TokensOf
  <2> QED BY <1>8, <2>1, <2>2
<1>10. PICK suffix : suffix = [k \in DOMAIN c |-> MegaTokens[c[k]]] /\ suffix = ThroughSlots(c)
  BY DEF ThroughSlots
<1>11. /\ suffix \in Seq(Token) /\ Len(suffix) = lead + j
       /\ \A k \in 1..(lead + j) :
            suffix[k] = <<r, s + (IF k <= lead THEN k ELSE fill + k - lead) - 1>>
  <2>1. DOMAIN c = 1..(lead + j)
    BY <1>6 DEF CausalIs
  <2>2. ASSUME NEW k \in 1..(lead + j)
        PROVE  suffix[k] = <<r, s + (IF k <= lead THEN k ELSE fill + k - lead) - 1>>
    <3>1. MegaTokens[c[k]] = <<r, s + SuffixPlace(i, b, fill, k) - 1>>
      BY <1>1, <1>3, <1>6 DEF CausalIs
    <3>2. SuffixPlace(i, b, fill, k) = IF k <= lead THEN k ELSE fill + k - lead
      BY <1>6 DEF SuffixPlace
    <3>3. suffix[k] = MegaTokens[c[k]]
      BY <1>10, <2>1
    <3> QED BY <3>1, <3>2, <3>3
  <2>3. suffix \in [1..(lead + j) -> Token]
    <3>1. \A k \in 1..(lead + j) :
              <<r, s + (IF k <= lead THEN k ELSE fill + k - lead) - 1>> \in Token
      BY <1>1, <1>5 DEF Token
    <3>2. \A k \in 1..(lead + j) : suffix[k] \in Token
      BY <2>2, <3>1
    <3>3. suffix = [k \in 1..(lead + j) |-> suffix[k]]
      BY <1>10, <2>1
    <3> QED BY <3>2, <3>3
  <2>4. lead + j \in Nat
    BY <1>5
  <2> QED BY <2>2, <2>3, <2>4
<1>12. PICK all : all = cached \o suffix
  OBVIOUS
<1>13. /\ all \in Seq(Token) /\ Len(all) = s + lead + j
       /\ \A k \in 1..(s + lead + j) : all[k] = IF k <= s THEN cached[k] ELSE suffix[k - s]
  <2>1. PICK n \in Nat : n = Len(suffix) /\ s + n = s + lead + j
    BY <1>5, <1>11
  <2>2. cached \in Seq(Token) /\ suffix \in Seq(Token) /\ Len(cached) = s
    BY <1>9, <1>11
  <2>3. /\ all \in Seq(Token) /\ Len(all) = s + n
        /\ \A k \in 1..(s + n) : all[k] = IF k <= s THEN cached[k] ELSE suffix[k - s]
    BY <1>12, <2>1, <2>2, ConcatProperties
  <2> QED BY <2>1, <2>3
\* the k-th key, counted from the start of the sequence
<1>14. ASSUME NEW k \in 1..(s + lead + j)
       PROVE  all[k] = IF b # 0 /\ k > p THEN <<r, s + fill + (k - p) - 1>> ELSE <<r, k - 1>>
  <2>1. CASE k <= s
    <3>1. all[k] = <<r, k - 1>>
      <4>1. k \in 1..s
        BY <2>1
      <4> QED BY <1>9, <1>13, <2>1, <4>1
    <3> QED BY <1>3, <2>1, <3>1
  <2>2. CASE ~(k <= s)
    <3>1. PICK l \in 1..(lead + j) : l = k - s
      <4>1. k - s \in 1..(lead + j)
        BY <1>5, <2>2
      <4> QED BY <4>1
    <3>2. all[k] = <<r, s + (IF l <= lead THEN l ELSE fill + l - lead) - 1>>
      BY <1>11, <1>13, <2>2, <3>1
    <3>3. CASE b = 0
      <4>1. s + (IF l <= lead THEN l ELSE fill + l - lead) - 1 = k - 1
        BY <1>5, <1>6, <3>1, <3>3
      <4> QED BY <3>2, <3>3, <4>1
    <3>4. CASE b # 0
      <4>1. s + (IF l <= lead THEN l ELSE fill + l - lead) - 1
              = IF k > p THEN s + fill + (k - p) - 1 ELSE k - 1
        BY <1>3, <1>5, <1>6, <3>1, <3>4
      <4> QED BY <3>2, <3>4, <4>1
    <3> QED BY <3>3, <3>4
  <2> QED BY <2>1, <2>2
<1>15. NumKeys(r, t) = s + lead + j
       /\ \A k \in 1..(s + lead + j) :
            KeyOf(r, t, k) = IF b # 0 /\ k > p THEN <<r, s + fill + (k - p) - 1>>
                             ELSE <<r, k - 1>>
  <2>1. CASE ~(t >= p)
    <3>1. ~InBeams(r, t)
      BY <1>2, <2>1 DEF InBeams
    <3>2. b = 0
      BY <1>3, <1>5, <1>7, <2>1
    <3>3. s + lead + j = t + 1
      BY <1>5, <1>6, <1>7, <3>2
    <3> QED BY <3>1, <3>2, <3>3 DEF NumKeys, KeyOf
  <2>2. CASE t >= p
    <3>1. InBeams(r, t)
      BY <1>2, <2>2 DEF InBeams
    <3>2. CASE b = 0
      <4>1. PICK y \in 0..(d - 1) : t = p + 0 + y
        <5>1. t - p \in 0..(d - 1) /\ t = p + 0 + (t - p)
          BY <1>3, <1>5, <1>7, <2>2, <3>2
        <5> QED BY <5>1
      <4>2. BeamStart(r, p + 0 * d + y) = p + 0 * d
        BY <1>2, BeamStartOf
      <4>3. p + 0 * d = p /\ p + 0 * d + y = t
        BY <4>1
      <4>4. BeamStart(r, t) = p
        BY <4>2, <4>3
      <4>5. s + lead + j = p + t - p + 1
        BY <1>5, <1>6, <1>7, <3>2
      <4>6. \A k \in 1..(s + lead + j) : p + k - p - 1 = k - 1
        OBVIOUS
      <4> QED BY <1>2, <3>1, <3>2, <4>4, <4>5, <4>6 DEF NumKeys, KeyOf
    <3>3. CASE b # 0
      <4>1. PICK y \in 0..(d - 1) : y = j - 1
        BY <1>5, <3>3
      <4>2. t = p + x + y
        BY <1>3, <1>5, <1>7, <3>3, <4>1
      <4>3. BeamStart(r, p + b * d + y) = p + b * d
        BY <1>2, BeamStartOf
      <4>4. PICK start \in Nat : start = p + x /\ BeamStart(r, t) = start
        BY <1>4, <4>2, <4>3
      <4>5. s + lead + j = p + t - start + 1
        BY <1>3, <1>5, <1>6, <3>3, <4>1, <4>2, <4>4
      <4>6. \A k \in 1..(s + lead + j) : start + k - p - 1 = s + fill + (k - p) - 1
        BY <1>3, <1>5, <3>3, <4>4
      <4> QED BY <1>2, <3>1, <3>3, <4>4, <4>5, <4>6 DEF NumKeys, KeyOf
    <3> QED BY <3>2, <3>3
  <2> QED BY <2>1, <2>2
<1>16. PICK keys : keys = Keys(r, t) /\ keys = [k \in 1..(s + lead + j) |-> KeyOf(r, t, k)]
  BY <1>15 DEF Keys
<1>17. all = keys
  <2>1. all = [k \in 1..(s + lead + j) |-> all[k]]
    BY <1>13
  <2>2. \A k \in 1..(s + lead + j) : all[k] = KeyOf(r, t, k)
    BY <1>14, <1>15
  <2> QED BY <1>16, <2>1, <2>2
<1> QED BY <1>1, <1>3, <1>7, <1>8, <1>10, <1>12, <1>16, <1>17

\* q has the keys of the `count` tokens that follow the first `fill` of the
\* chunk's tokens in the mappings.
SuffixIs(i, fill, count, q) ==
    /\ q \in Seq(Seq(Token)) /\ Len(q) = count
    /\ \A j \in 1..count : q[j] = Keys(batch[i].req, SegmentedCacheLen(i) + fill + j - 1)

LEMMA SegmentAttends ==
    ASSUME NEW i, Mapped(i), NEW b \in Nat, NEW fill, NEW un,
           SegmentFits(i, b, fill, un), un > 0
    PROVE  SuffixIs(i, fill, un, SuffixKeys(i, SegmentOf(i, b, fill, un)))
<1>1. fill \in Nat /\ un \in Nat
  BY DEF SegmentFits
<1>2. PICK r \in Request, s \in Nat : r = batch[i].req /\ s = SegmentedCacheLen(i)
  BY DEF Mapped, Request
<1>3. PICK keys, cached : /\ keys = SegmentOf(i, b, fill, un).keys
                          /\ cached = TokensOf(batch[i], 0, s)
  OBVIOUS
<1> DEFINE c(j) == SubSeq(keys, 1, Len(keys) - un + j)
           suffix(j) == ThroughSlots(c(j))
<1>4. SuffixKeys(i, SegmentOf(i, b, fill, un)) = [j \in 1..un |-> cached \o suffix(j)]
  <2>1. SegmentOf(i, b, fill, un).queries = un
    BY DEF SegmentOf
  <2>2. CausalKeys(un, keys) = [j \in 1..un |-> c(j)]
    BY DEF CausalKeys
  <2>3. PICK seg : /\ seg = SegmentOf(i, b, fill, un) /\ seg.queries = un /\ seg.keys = keys
    BY <1>3, <2>1
  <2>4. PICK causal : causal = CausalKeys(un, keys) /\ causal = [j \in 1..un |-> c(j)]
    BY <2>2
  <2>5. SuffixKeys(i, seg) = [j \in DOMAIN causal |->
                                cached \o [k \in DOMAIN causal[j] |-> MegaTokens[causal[j][k]]]]
    BY <1>2, <1>3, <2>3, <2>4 DEF SuffixKeys
  <2>6. [j \in DOMAIN causal |->
            cached \o [k \in DOMAIN causal[j] |-> MegaTokens[causal[j][k]]]]
          = [j \in 1..un |-> cached \o suffix(j)]
    <3>1. DOMAIN causal = 1..un /\ \A j \in 1..un : causal[j] = c(j)
      BY <2>4
    <3> HIDE DEF c
    <3> QED BY <3>1 DEF ThroughSlots
  <2> QED BY <2>3, <2>5, <2>6
<1>5. ASSUME NEW j \in 1..un
      PROVE  /\ cached \o suffix(j) = Keys(r, s + fill + j - 1)
             /\ cached \o suffix(j) \in Seq(Token)
  <2>1. SegmentKeysAre(i, b, fill, un, keys)
    BY <1>1, <1>3, SegmentKeys
  <2>2. CausalIs(i, b, fill, j, c(j))
    BY <2>1, SuffixTokens
  <2>3. PICK d : d = c(j)
    OBVIOUS
  <2>4. TokensOf(batch[i], 0, SegmentedCacheLen(i)) \o ThroughSlots(d)
          = Keys(batch[i].req, SegmentedCacheLen(i) + fill + j - 1)
    <3>1. CausalIs(i, b, fill, j, d)
      BY <2>2, <2>3
    <3> HIDE DEF c, suffix
    <3> QED BY <3>1, SuffixIsKeys
  <2>5. cached \o suffix(j) = Keys(r, s + fill + j - 1)
    BY <1>2, <1>3, <2>3, <2>4
  <2>6. s + fill + j - 1 \in Nat
    BY <1>1
  <2>7. Keys(r, s + fill + j - 1) \in Seq(Token)
    BY <2>6, KeysAreOwn
  <2> QED BY <2>5, <2>7
<1> HIDE DEF suffix
<1>6. PICK q : q = [j \in 1..un |-> cached \o suffix(j)]
  OBVIOUS
<1>7. q \in [1..un -> Seq(Token)]
  BY <1>5, <1>6
<1>8. q \in Seq(Seq(Token)) /\ Len(q) = un
  BY <1>1, <1>7
<1>9. \A j \in 1..un : q[j] = Keys(r, s + fill + j - 1)
  BY <1>5, <1>6
<1>10. SuffixIs(i, fill, un, q)
  BY <1>2, <1>8, <1>9 DEF SuffixIs
<1> QED BY <1>4, <1>6, <1>10

-----------------------------------------------------------------------------
(* The loop over the beams *)

Segment == [queries : Nat, keys : Seq(Int)]
SegmentState == [segments : Seq(Segment), budget : Int]

LEMMA SegmentBeamType ==
    ASSUME NEW i, Mapped(i), NEW b \in Nat, NEW s \in SegmentState
    PROVE  SegmentBeam(i, b, s) \in SegmentState
<1>1. PICK out \in Nat, m \in Nat, rest \in Nat, d \in Nat :
          /\ out = OutSlot(i) /\ m = MegaLen(i) /\ rest = RemainingPrefix(i)
          /\ d = DecodeSteps[batch[i].req]
  BY MegaSizes DEF Mapped
<1>2. s.segments \in Seq(Segment) /\ s.budget \in Int
  BY DEF SegmentState
<1>3. PICK budget \in Int : budget = s.budget
  BY <1>2
<1>4. PICK wants \in Nat : wants = IF b = 0 THEN rest + d ELSE d
  OBVIOUS
<1>5. PICK un \in Int : un = Min({budget, wants})
  <2>1. wants \in Int
    OBVIOUS
  <2>2. Min({budget, wants}) \in Int
    BY <2>1, MinOfTwo
  <2> QED BY <2>2
<1>6. PICK own, shared : /\ own = FromTo(out + m - budget, un)
                         /\ shared = FromTo(out, rest)
  OBVIOUS
<1>7. SegmentBeam(i, b, s)
        = IF un <= 0 THEN s
          ELSE [segments |-> Append(s.segments,
                               [queries |-> un, keys |-> IF b = 0 THEN own ELSE shared \o own]),
                budget |-> budget - un]
  BY <1>1, <1>3, <1>4, <1>5, <1>6 DEF SegmentBeam
<1>8. CASE un <= 0
  BY <1>7, <1>8
<1>9. CASE ~(un <= 0)
  <2>1. un \in Nat /\ out + m - budget \in Int /\ out \in Int
    BY <1>9
  <2>2. own \in Seq(Int) /\ shared \in Seq(Int)
    BY <1>6, <2>1, RangeType
  <2>3. shared \o own \in Seq(Int)
    BY <2>2, ConcatProperties
  <2>4. PICK seg \in Segment :
            seg = [queries |-> un, keys |-> IF b = 0 THEN own ELSE shared \o own]
    <3>1. PICK keys \in Seq(Int) : keys = IF b = 0 THEN own ELSE shared \o own
      BY <2>2, <2>3
    <3>2. [queries |-> un, keys |-> keys] \in Segment
      BY <2>1 DEF Segment
    <3> QED BY <3>1, <3>2
  <2>5. Append(s.segments, seg) \in Seq(Segment)
    BY <1>2, AppendProperties
  <2>6. SegmentBeam(i, b, s) = [segments |-> Append(s.segments, seg), budget |-> budget - un]
    BY <1>7, <1>9, <2>4
  <2> QED BY <2>5, <2>6 DEF SegmentState
<1> QED BY <1>8, <1>9

\* The segments of the first b beams attend to the keys of their tokens.
SegmentSuffixes(i, segments) == [k \in DOMAIN segments |-> SuffixKeys(i, segments[k])]

Attends(i, b, s) ==
    /\ s \in SegmentState
    /\ s.budget = MegaLen(i) - Segmented(i, b)
    /\ SegmentSuffixes(i, s.segments) \in Seq(Seq(Seq(Token)))
    /\ SuffixIs(i, 0, Segmented(i, b), FlattenSeq(SegmentSuffixes(i, s.segments)))

LEMMA SegmentBeamAttends ==
    ASSUME NEW i, Mapped(i), NEW b \in Nat, NEW s, Attends(i, b, s)
    PROVE  Attends(i, b + 1, SegmentBeam(i, b, s))
<1>1. PICK fill, un : SegmentFits(i, b, fill, un)
  BY SegmentFill
<1>2. PICK r \in Request, c \in Nat, m \in Nat, out \in Nat :
          /\ r = batch[i].req /\ c = SegmentedCacheLen(i) /\ m = MegaLen(i)
          /\ out = OutSlot(i)
  BY DEF Mapped, Request
<1>3. fill \in Nat /\ un \in Nat /\ fill = Segmented(i, b) /\ fill + un = Segmented(i, b + 1)
  BY <1>1 DEF SegmentFits
<1>4. PICK done, budget : done = s.segments /\ budget = s.budget
  OBVIOUS
<1>5. /\ done \in Seq(Segment) /\ budget = m - fill
      /\ SegmentSuffixes(i, done) \in Seq(Seq(Seq(Token)))
      /\ SuffixIs(i, 0, fill, FlattenSeq(SegmentSuffixes(i, done)))
  BY <1>2, <1>3, <1>4 DEF Attends, SegmentState
<1>6. PICK seg : seg = SegmentOf(i, b, fill, un)
  OBVIOUS
<1>7. SegmentBeam(i, b, s) = IF un <= 0 THEN s
                             ELSE [segments |-> Append(done, seg), budget |-> budget - un]
  <2>1. Min({budget, Wants(i, b)}) = un
    BY <1>1, <1>2, <1>5 DEF SegmentFits
  <2>2. PICK first : first = out + m - budget /\ first = out + fill
    BY <1>2, <1>3, <1>5
  <2>3. seg = [queries |-> un,
               keys |-> IF b = 0 THEN FromTo(first, un)
                        ELSE FromTo(out, RemainingPrefix(i)) \o FromTo(first, un)]
    BY <1>2, <1>6, <2>2 DEF SegmentOf
  <2> QED BY <1>2, <1>4, <2>1, <2>2, <2>3 DEF SegmentBeam, Wants
<1>8. SegmentBeam(i, b, s) \in SegmentState
  BY SegmentBeamType DEF Attends
<1>9. CASE un <= 0
  <2>1. fill = Segmented(i, b + 1) /\ SegmentBeam(i, b, s) = s
    BY <1>3, <1>7, <1>9
  <2> QED BY <1>3, <2>1 DEF Attends
<1>10. CASE ~(un <= 0)
  <2>1. SuffixIs(i, fill, un, SuffixKeys(i, seg))
    <3>1. un > 0
      BY <1>3, <1>10
    <3> QED BY <1>1, <1>6, <3>1, SegmentAttends
  <2>2. PICK more : more = SuffixKeys(i, seg)
    OBVIOUS
  <2>3. PICK all : all = Append(done, seg)
    OBVIOUS
  <2>4. PICK old : old = SegmentSuffixes(i, done)
    OBVIOUS
  <2>5. more \in Seq(Seq(Token)) /\ old \in Seq(Seq(Seq(Token)))
    BY <1>5, <2>1, <2>2, <2>4 DEF SuffixIs
  <2>6. SegmentSuffixes(i, all) = Append(old, more)
    <3>1. PICK n \in Nat : n = Len(done) /\ DOMAIN done = 1..n
      BY <1>5
    <3>2. /\ DOMAIN all = 1..(n + 1) /\ all[n + 1] = seg
          /\ \A k \in 1..n : all[k] = done[k]
      BY <2>3, <3>1, <1>5
    <3>3. old = [k \in 1..n |-> SuffixKeys(i, done[k])]
      BY <2>4, <3>1 DEF SegmentSuffixes
    <3>4. SegmentSuffixes(i, all) = [k \in 1..(n + 1) |-> SuffixKeys(i, all[k])]
      BY <3>2 DEF SegmentSuffixes
    <3>5. Append(old, more) = [k \in 1..(n + 1) |-> IF k = n + 1 THEN more ELSE old[k]]
      <4>1. Len(old) = n
        BY <2>5, <3>3
      <4>2. PICK w : w = Append(old, more)
        OBVIOUS
      <4>3. /\ w \in Seq(Seq(Seq(Token))) /\ Len(w) = n + 1 /\ w[n + 1] = more
            /\ \A k \in 1..n : w[k] = old[k]
        BY <2>5, <4>1, <4>2, AppendProperties
      <4>4. w = [k \in 1..(n + 1) |-> w[k]]
        BY <3>1, <4>3
      <4>5. ASSUME NEW k \in 1..(n + 1) PROVE w[k] = IF k = n + 1 THEN more ELSE old[k]
        <5>1. k = n + 1 \/ (k # n + 1 /\ k \in 1..n)
          BY <3>1
        <5> QED BY <4>3, <5>1
      <4> QED BY <4>2, <4>4, <4>5
    <3>6. ASSUME NEW k \in 1..(n + 1)
          PROVE  SuffixKeys(i, all[k]) = IF k = n + 1 THEN more ELSE old[k]
      <4>1. CASE k = n + 1
        BY <2>2, <3>2, <4>1
      <4>2. CASE k # n + 1
        <5>1. k \in 1..n
          BY <3>1, <4>2
        <5> QED BY <3>2, <3>3, <4>2, <5>1
      <4> QED BY <4>1, <4>2
    <3> QED BY <3>4, <3>5, <3>6
  <2>7. FlattenSeq(Append(old, more)) = FlattenSeq(old) \o more
    BY <2>5, FlattenAppend
  <2>8. PICK u : u = FlattenSeq(old)
    OBVIOUS
  <2>9. /\ u \in Seq(Seq(Token)) /\ Len(u) = fill
        /\ \A j \in 1..fill : u[j] = Keys(r, c + 0 + j - 1)
    BY <1>2, <1>5, <2>4, <2>8 DEF SuffixIs
  <2>10. /\ Len(more) = un
         /\ \A j \in 1..un : more[j] = Keys(r, c + fill + j - 1)
    BY <1>2, <2>1, <2>2 DEF SuffixIs
  <2>11. PICK v : v = u \o more
    OBVIOUS
  <2>12. /\ v \in Seq(Seq(Token)) /\ Len(v) = fill + un
         /\ \A j \in 1..(fill + un) : v[j] = IF j <= fill THEN u[j] ELSE more[j - fill]
    BY <2>5, <2>9, <2>10, <2>11, ConcatProperties
  <2>13. ASSUME NEW j \in 1..(fill + un) PROVE v[j] = Keys(r, c + 0 + j - 1)
    <3>1. CASE j <= fill
      <4>1. j \in 1..fill
        BY <1>3, <3>1
      <4> QED BY <2>9, <2>12, <3>1, <4>1
    <3>2. CASE ~(j <= fill)
      <4>1. PICK l \in 1..un : l = j - fill
        <5>1. j - fill \in 1..un
          BY <1>3, <3>2
        <5> QED BY <5>1
      <4>2. v[j] = Keys(r, c + fill + l - 1)
        BY <2>10, <2>12, <3>2, <4>1
      <4>3. c + fill + l - 1 = c + 0 + j - 1
        BY <1>2, <1>3, <4>1
      <4> QED BY <4>2, <4>3
    <3> QED BY <3>1, <3>2
  <2>14. SuffixIs(i, 0, Segmented(i, b + 1), v)
    BY <1>2, <1>3, <2>12, <2>13 DEF SuffixIs
  <2>15. Append(old, more) \in Seq(Seq(Seq(Token)))
    BY <2>5, AppendProperties
  <2>16. PICK t : t = SegmentBeam(i, b, s) /\ t.segments = all /\ t.budget = budget - un
    BY <1>7, <1>10, <2>3
  <2>17. budget - un = m - Segmented(i, b + 1)
    BY <1>2, <1>3, <1>5
  <2>18. FlattenSeq(SegmentSuffixes(i, all)) = v
    BY <2>6, <2>7, <2>8, <2>11
  <2>19. Attends(i, b + 1, t)
    BY <1>2, <1>8, <2>6, <2>14, <2>15, <2>16, <2>17, <2>18 DEF Attends
  <2> QED BY <2>16, <2>19
<1> QED BY <1>9, <1>10

\* g[b] is what the first b rounds of _build_mega_mappings leave.
SegmentRounds(g, i) ==
    /\ g[0] = [segments |-> <<>>, budget |-> MegaLen(i)]
    /\ \A k \in 1..BeamWidth[batch[i].req] : g[k] = SegmentBeam(i, k - 1, g[k - 1])
    /\ BeamSegments(i) = g[BeamWidth[batch[i].req]].segments

LEMMA BeamSegmentsLoops ==
    ASSUME NEW i, Mapped(i)
    PROVE  \E g : SegmentRounds(g, i)
<1>1. PICK N \in Nat : N = BeamWidth[batch[i].req]
  BY MegaSizes DEF Mapped
<1> DEFINE base == [segments |-> <<>>, budget |-> MegaLen(i)]
           F == [k \in 1..N |-> [s \in SegmentState |-> SegmentBeam(i, k - 1, s)]]
<1>2. base \in SegmentState
  <2>1. MegaLen(i) \in Int
    BY DEF Mapped
  <2> QED BY <2>1, EmptySeq DEF SegmentState
<1>3. ASSUME NEW k \in 1..N, NEW s \in SegmentState
      PROVE  SegmentBeam(i, k - 1, s) \in SegmentState
  BY SegmentBeamType
<1>4. Loop(N, SegmentState, base, F)
  BY <1>2, <1>3 DEF Loop
<1>5. PICK g : LoopValues(g, N, SegmentState, base, F)
  <2> HIDE DEF F, base
  <2> QED BY <1>4, LoopExists
<1>6. g \in [0..N -> SegmentState] /\ g[0] = base
  BY <1>5 DEF LoopValues
<1>7. ASSUME NEW k \in 1..N PROVE g[k] = SegmentBeam(i, k - 1, g[k - 1])
  <2>1. g[k] = F[k][g[k - 1]]
    BY <1>5 DEF LoopValues
  <2>2. k - 1 \in 0..N
    OBVIOUS
  <2>3. g[k - 1] \in SegmentState
    BY <1>6, <2>2
  <2> QED BY <2>1, <2>3
<1> HIDE DEF F
<1> DEFINE f == CHOOSE f : f = [b \in 0..N |-> IF b = 0 THEN base
                                              ELSE SegmentBeam(i, b - 1, f[b - 1])]
<1>8. g = [b \in 0..N |-> IF b = 0 THEN base ELSE SegmentBeam(i, b - 1, g[b - 1])]
  <2>1. ASSUME NEW k \in 0..N
        PROVE  g[k] = IF k = 0 THEN base ELSE SegmentBeam(i, k - 1, g[k - 1])
    <3>1. CASE k = 0
      BY <1>6, <3>1
    <3>2. CASE k # 0
      <4>1. k \in 1..N
        BY <3>2
      <4> QED BY <1>7, <3>2, <4>1
    <3> QED BY <3>1, <3>2
  <2> HIDE DEF base
  <2> QED BY <1>6, <2>1
<1>9. f = [b \in 0..N |-> IF b = 0 THEN base ELSE SegmentBeam(i, b - 1, f[b - 1])]
  <2> HIDE DEF base
  <2> QED BY <1>8
<1>10. BeamSegments(i) = f[N].segments
  BY <1>1 DEF BeamSegments
<1> HIDE DEF f
<1>11. \A k \in 0..N : f[k] = g[k]
  <2> DEFINE A == {k \in 0..N : f[k] = g[k]}
  <2>1. 0 \in A
    <3>1. 0 \in 0..N
      OBVIOUS
    <3> HIDE DEF base
    <3>2. f[0] = base
      BY <1>9, <3>1
    <3> QED BY <1>6, <3>1, <3>2
  <2>2. ASSUME NEW k \in 1..N, k - 1 \in A PROVE k \in A
    <3>1. k \in 0..N /\ k # 0
      OBVIOUS
    <3> HIDE DEF base
    <3>2. f[k] = SegmentBeam(i, k - 1, f[k - 1])
      BY <1>9, <3>1
    <3>3. g[k] = SegmentBeam(i, k - 1, g[k - 1])
      BY <1>7
    <3> QED BY <2>2, <3>1, <3>2, <3>3
  <2>3. \A k \in 0..N : k \in A
    <3> HIDE DEF A
    <3> QED BY <2>1, <2>2, InductionTo
  <2> QED BY <2>3
<1>12. BeamSegments(i) = g[N].segments
  BY <1>10, <1>11
<1>13. SegmentRounds(g, i)
  BY <1>1, <1>6, <1>7, <1>12 DEF SegmentRounds
<1> QED BY <1>13

\* Together the segments of a chunk attend to the keys of all its tokens.
LEMMA SegmentsAttend ==
    ASSUME NEW i, Mapped(i)
    PROVE  SuffixIs(i, 0, MegaLen(i), FlattenSeq(SegmentSuffixes(i, BeamSegments(i))))
<1>1. PICK r \in Mega : r = batch[i].req
  BY DEF Mapped
<1>2. PICK p \in Nat, d \in Nat \ {0}, N \in Nat \ {0} :
          p = PrefixLen[r] /\ d = DecodeSteps[r] /\ N = BeamWidth[r]
  BY MegaSizes
<1>3. PICK s \in Nat, m \in Nat \ {0} :
          s = SegmentedCacheLen(i) /\ m = MegaLen(i) /\ s + m <= NumPrompt(r)
  BY <1>1 DEF Mapped
<1>4. PICK g : SegmentRounds(g, i)
  BY BeamSegmentsLoops
<1>5. /\ g[0] = [segments |-> <<>>, budget |-> m]
      /\ \A k \in 1..N : g[k] = SegmentBeam(i, k - 1, g[k - 1])
      /\ BeamSegments(i) = g[N].segments
  BY <1>1, <1>2, <1>3, <1>4 DEF SegmentRounds
<1> DEFINE A == {b \in 0..N : Attends(i, b, g[b])}
<1>6. 0 \in A
  <2>1. Segmented(i, 0) = 0
    BY DEF Segmented, Filled
  <2>2. SegmentSuffixes(i, <<>>) = <<>>
    BY DEF SegmentSuffixes
  <2>3. SuffixIs(i, 0, 0, <<>>)
    BY EmptySeq DEF SuffixIs
  <2>4. g[0] \in SegmentState /\ g[0].segments = <<>> /\ g[0].budget = m
    BY <1>5, EmptySeq DEF SegmentState
  <2>5. <<>> \in Seq(Seq(Seq(Token)))
    BY EmptySeq
  <2>6. m = MegaLen(i) - 0
    BY <1>3
  <2>7. Attends(i, 0, g[0])
    BY <2>1, <2>2, <2>3, <2>4, <2>5, <2>6, FlattenEmpty DEF Attends
  <2> QED BY <2>7
<1>7. ASSUME NEW k \in 1..N, k - 1 \in A PROVE k \in A
  <2>1. PICK b \in Nat : b = k - 1 /\ b + 1 = k
    OBVIOUS
  <2>2. Attends(i, b, g[b])
    BY <1>7, <2>1
  <2>3. g[k] = SegmentBeam(i, b, g[b])
    BY <1>5, <2>1
  <2>4. Attends(i, b + 1, SegmentBeam(i, b, g[b]))
    BY <2>2, SegmentBeamAttends
  <2>5. Attends(i, k, g[k])
    BY <2>1, <2>3, <2>4
  <2> QED BY <2>5
<1>8. \A k \in 0..N : k \in A
  <2> HIDE DEF A
  <2> QED BY <1>6, <1>7, InductionTo
<1>9. Attends(i, N, g[N])
  BY <1>8
<1>10. Segmented(i, N) = m
  <2>1. PICK z \in Nat : z = N * d
    BY <1>2, BeamOffsets
  <2>2. s + m <= p + z
    BY <1>2, <1>3, <2>1, MegaSizes
  <2>3. p + z - s >= m /\ m \in Int
    BY <2>2
  <2>4. PrefixLen[r] + N * DecodeSteps[r] - s = p + z - s
    BY <1>2, <2>1
  <2>5. Segmented(i, N) = IF N = 0 \/ p + z - s <= 0 THEN 0
                          ELSE IF p + z - s <= m THEN p + z - s ELSE m
    BY <1>1, <1>3, <2>4 DEF Filled, Segmented
  <2> QED BY <2>3, <2>5
<1> QED BY <1>3, <1>5, <1>9, <1>10 DEF Attends

-----------------------------------------------------------------------------
(* The metadata of a step *)

\* The build phase knows of every mega chunk what _build_mega_mappings needs.
LEMMA ChunkIsMapped ==
    ASSUME AnswerInv, phase = "build", LayoutAssertion, NEW i \in DOMAIN batch,
           MegaLen(i) # 0
    PROVE  Mapped(i)
<1>1. LayoutInv
  BY DEF AnswerInv
<1>2. ASSUME NEW k \in DOMAIN batch
      PROVE  /\ batch[k].req \in Request
             /\ mega_data[k] \in Nat /\ SegmentedCacheLen(k) \in Nat
             /\ MegaLen(k) \in Nat
             /\ batch[k].req \in Mega =>
                  SegmentedCacheLen(k) + MegaLen(k) <= NumPrompt(batch[k].req)
             /\ batch[k].req \notin Mega => MegaLen(k) = 0
  <2>1. PICK n \in Nat \ {0} : n = batch[k].n
    BY <1>1, BatchEntry
  <2>2. mega_data[k] = CacheLen(batch[k])
    BY DEF AnswerInv, LayoutInv, CacheLenIsStart
  <2>3. PICK c \in Nat : /\ c = mega_data[k]
                         /\ c + n <= NumTokens(batch[k].req)
                         /\ batch[k].req \in Mega => c + n <= NumPrompt(batch[k].req)
    BY <2>1, <2>2, ChunkBounds
  <2>4. PICK len \in 0..n : len = StandardLen(k)
    BY <1>1, <2>1, <2>3, StandardFits
  <2>5. MegaLen(k) = n - len
        /\ SegmentedCacheLen(k) = c + (IF batch[k].req \in Mega THEN len ELSE 0)
    BY <2>1, <2>3, <2>4 DEF MegaLen, SegmentedCacheLen
  <2>6. batch[k].req \notin Mega => len = n
    BY <2>1, <2>4 DEF StandardLen
  <2>7. batch[k].req \in Mega =>
            SegmentedCacheLen(k) + MegaLen(k) <= NumPrompt(batch[k].req)
    <3>1. batch[k].req \in Mega => SegmentedCacheLen(k) + MegaLen(k) = c + n
      BY <2>4, <2>5
    <3> QED BY <2>3, <3>1
  <2>8. MegaLen(k) \in Nat /\ SegmentedCacheLen(k) \in Nat
    BY <2>4, <2>5
  <2> QED BY <1>1, <2>3, <2>5, <2>6, <2>7, <2>8, BatchEntry
<1>3. PICK N \in Nat : N = Len(batch) /\ DOMAIN batch = 1..N /\ i \in 1..N
  BY <1>1 DEF LayoutInv
<1> DEFINE ts == [k \in DOMAIN batch |-> TokensOf(batch[k], SegmentedCacheLen(k), MegaLen(k))]
           before == [k \in 1..(i - 1) |-> MegaLen(k)]
<1>4. ASSUME NEW k \in 1..N
      PROVE  /\ TokensOf(batch[k], SegmentedCacheLen(k), MegaLen(k)) \in Seq(Token)
             /\ Len(TokensOf(batch[k], SegmentedCacheLen(k), MegaLen(k))) = MegaLen(k)
  <2>1. k \in DOMAIN batch
    BY <1>3
  <2>2. /\ batch[k].req \in Request /\ SegmentedCacheLen(k) \in Int
        /\ MegaLen(k) \in Nat
    BY <1>2, <2>1
  <2> QED BY <2>2, TokensType
<1>5. ts \in Seq(Seq(Token)) /\ Len(ts) = N /\ \A k \in 1..N : Len(ts[k]) = MegaLen(k)
  <2>1. ts \in [1..N -> Seq(Token)]
    BY <1>3, <1>4
  <2>2. \A k \in 1..N : ts[k] = TokensOf(batch[k], SegmentedCacheLen(k), MegaLen(k))
    BY <1>3
  <2> HIDE DEF ts
  <2> QED BY <1>4, <2>1, <2>2
<1>6. ts[i] = TokensOf(batch[i], SegmentedCacheLen(i), MegaLen(i))
  OBVIOUS
<1>7. before \in Seq(Int) /\ Len(before) = i - 1
      /\ \A k \in 1..(i - 1) : before[k] = MegaLen(k)
  <2>1. \A k \in 1..(i - 1) : MegaLen(k) \in Int
    BY <1>2, <1>3
  <2> QED BY <1>3, <2>1
<1>8. MegaTokens = FlattenSeq(ts) /\ OutSlot(i) = 1 + Sum(before)
  BY DEF MegaTokens, OutSlot
<1> HIDE DEF ts, before
<1>9. PICK g : /\ g[0] = 0
               /\ \A k \in 1..Len(before) : g[k] = g[k - 1] + before[k]
               /\ Sum(before) = g[Len(before)]
  BY <1>7, SumLoops
<1>10. \A k \in 1..(i - 1) : g[k] = g[k - 1] + Len(ts[k])
  <2> SUFFICES ASSUME NEW k \in 1..(i - 1) PROVE g[k] = g[k - 1] + Len(ts[k])
    OBVIOUS
  <2>1. g[k] = g[k - 1] + before[k] /\ before[k] = MegaLen(k)
    BY <1>7, <1>9
  <2>2. k \in 1..N
    BY <1>3
  <2> QED BY <1>5, <2>1, <2>2
<1>11. /\ g[i - 1] \in Nat
       /\ \A j \in 1..Len(ts[i]) : FlattenSeq(ts)[g[i - 1] + j] = ts[i][j]
  BY <1>3, <1>5, <1>9, <1>10, FlattenPlace DEF SumsUp
<1>12. PICK off \in Nat : off = g[i - 1] /\ OutSlot(i) = 1 + off
  BY <1>7, <1>8, <1>9, <1>11
<1>13. \A j \in 1..MegaLen(i) :
          MegaTokens[OutSlot(i) - 1 + j] = <<batch[i].req, SegmentedCacheLen(i) + j - 1>>
  <2> SUFFICES ASSUME NEW j \in 1..MegaLen(i)
               PROVE  MegaTokens[OutSlot(i) - 1 + j]
                        = <<batch[i].req, SegmentedCacheLen(i) + j - 1>>
    OBVIOUS
  <2>1. j \in 1..Len(ts[i])
    BY <1>3, <1>5
  <2>2. FlattenSeq(ts)[off + j] = ts[i][j]
    BY <1>11, <1>12, <2>1
  <2>3. OutSlot(i) - 1 + j = off + j
    BY <1>2, <1>12
  <2>4. ts[i][j] = <<batch[i].req, SegmentedCacheLen(i) + j - 1>>
    BY <1>6 DEF TokensOf
  <2> QED BY <1>8, <2>2, <2>3, <2>4
<1>14. batch[i].req \in Mega /\ MegaLen(i) \in Nat \ {0}
  BY <1>2
<1>15. RemainingPrefix(i) \in Nat
  <2>1. RemainingPrefix(i) >= 0
    BY <1>14 DEF LayoutAssertion
  <2>2. PrefixLen[batch[i].req] \in Int /\ SegmentedCacheLen(i) \in Int
    BY <1>2, <1>14, MegaSizes
  <2> QED BY <2>1, <2>2 DEF RemainingPrefix
<1> QED BY <1>2, <1>12, <1>13, <1>14, <1>15 DEF Mapped

\* Every token of the i-th chunk attends to its own keys, in the order of Keys.
LEMMA ChunkAttends ==
    ASSUME AnswerInv, phase = "build", LayoutAssertion, NEW i \in DOMAIN batch
    PROVE  /\ AttendedBy(i) \in Seq(Seq(Token))
           /\ Len(AttendedBy(i)) = batch[i].n
           /\ \A j \in 1..batch[i].n :
                AttendedBy(i)[j] = Keys(batch[i].req, CacheLen(batch[i]) + j - 1)
<1>1. LayoutInv
  BY DEF AnswerInv
<1>2. PICK r \in Request, n \in Nat \ {0}, c \in Nat :
          r = batch[i].req /\ n = batch[i].n /\ c = CacheLen(batch[i])
  BY <1>1, BatchEntry, ChunkBounds
<1>3. mega_data[i] = c
  BY <1>2 DEF AnswerInv, LayoutInv, CacheLenIsStart
<1>4. PICK len \in 0..n : len = StandardLen(i)
  BY <1>1, <1>2, <1>3, StandardFits
<1>5. r \in Mega /\ len > 0 => c + len <= PrefixLen[r]
  BY <1>1, <1>2, <1>3, <1>4, StandardFits
<1>6. MegaLen(i) = n - len
      /\ SegmentedCacheLen(i) = c + (IF r \in Mega THEN len ELSE 0)
  BY <1>2, <1>3, <1>4 DEF MegaLen, SegmentedCacheLen
<1>7. PICK std : std = CausalKeys(len, TokensOf(batch[i], 0, c + len))
  OBVIOUS
<1>8. /\ std \in Seq(Seq(Token)) /\ Len(std) = len
      /\ \A j \in 1..len : std[j] = Keys(r, c + j - 1)
  <2>1. len \in Nat
    OBVIOUS
  <2> QED BY <1>2, <1>5, <1>7, <2>1, StandardKeys
<1>9. CASE MegaLen(i) = 0
  <2>1. AttendedBy(i) = std
    BY <1>3, <1>4, <1>7, <1>9 DEF AttendedBy
  <2>2. len = n
    BY <1>6, <1>9
  <2> QED BY <1>2, <1>8, <2>1, <2>2
<1>10. CASE MegaLen(i) # 0
  <2>1. Mapped(i)
    BY <1>10, ChunkIsMapped
  <2>2. PICK q : q = FlattenSeq(SegmentSuffixes(i, BeamSegments(i)))
    OBVIOUS
  <2>3. SuffixIs(i, 0, MegaLen(i), q)
    BY <2>1, <2>2, SegmentsAttend
  <2>4. AttendedBy(i) = std \o q
    BY <1>3, <1>4, <1>7, <1>10, <2>2 DEF AttendedBy, SegmentSuffixes
  <2>5. r \in Mega
    BY <1>2, <2>1 DEF Mapped
  <2>6. PICK m \in Nat, s \in Nat : m = n - len /\ s = c + len
    OBVIOUS
  <2>7. MegaLen(i) = m /\ SegmentedCacheLen(i) = s
    BY <1>6, <2>5, <2>6
  <2>8. /\ q \in Seq(Seq(Token)) /\ Len(q) = m
        /\ \A j \in 1..m : q[j] = Keys(r, s + 0 + j - 1)
    BY <1>2, <2>3, <2>7 DEF SuffixIs
  <2>9. PICK all : all = std \o q
    OBVIOUS
  <2>10. /\ all \in Seq(Seq(Token)) /\ Len(all) = len + m
         /\ \A j \in 1..(len + m) :
              all[j] = IF j <= len THEN std[j] ELSE q[j - len]
    BY <1>8, <2>8, <2>9, ConcatProperties
  <2>11. len + m = n
    BY <2>6
  <2>12. ASSUME NEW j \in 1..n PROVE all[j] = Keys(r, c + j - 1)
    <3>1. CASE j <= len
      <4>1. j \in 1..len
        BY <3>1
      <4> QED BY <1>8, <2>10, <2>11, <3>1, <4>1
    <3>2. CASE ~(j <= len)
      <4>1. j - len \in 1..m /\ s + 0 + (j - len) - 1 = c + j - 1
        BY <2>6, <3>2
      <4>2. q[j - len] = Keys(r, s + 0 + (j - len) - 1)
        BY <2>8, <4>1
      <4>3. all[j] = q[j - len]
        BY <2>10, <2>11, <3>2
      <4> QED BY <4>1, <4>2, <4>3
    <3> QED BY <3>1, <3>2
  <2> QED BY <1>2, <2>4, <2>9, <2>10, <2>11, <2>12
<1> QED BY <1>9, <1>10

\* No token's keys were cached before the request computed its own beams.
LEMMA BeamKeysAreFresh ==
    ASSUME AnswerInv, NEW i \in DOMAIN batch, NEW k \in Int, InBeams(batch[i].req, k)
    PROVE  k >= computed[batch[i].req] - fresh[batch[i].req]
<1>1. PICK r \in Mega : r = batch[i].req /\ k >= PrefixLen[r]
  BY DEF InBeams
<1>2. PICK c \in Int, f \in Nat, p \in Nat :
          c = computed[r] /\ f = fresh[r] /\ p = PrefixLen[r] /\ status[r] = "running"
  BY <1>1, BatchEntry, MegaSizes DEF AnswerInv
<1>3. c - f <= p
  BY <1>2 DEF AnswerInv, LayoutInv, StartsInPrefix
<1> QED BY <1>1, <1>2, <1>3

\* The metadata of a step lets every token attend to its own keys.
LEMMA BuildAttention ==
    ASSUME AnswerInv, BuildMetadata
    PROVE  AttentionIsPerBeam'
<1> DEFINE as == [i \in DOMAIN batch |-> AttendedBy(i)]
           ts == [i \in DOMAIN batch |->
                    TokensOf(batch[i], CacheLen(batch[i]), batch[i].n)]
<1>1. PICK N \in Nat : N = Len(batch) /\ DOMAIN batch = 1..N
  BY DEF AnswerInv, LayoutInv
<1>2. ASSUME NEW i \in DOMAIN batch
      PROVE  /\ batch[i].req \in Request /\ batch[i].n \in Nat
             /\ CacheLen(batch[i]) \in Nat
  BY BatchEntry, ChunkBounds DEF AnswerInv
<1>3. phase = "build" /\ LayoutAssertion
  BY DEF BuildMetadata
<1>4. as \in Seq(Seq(Seq(Token))) /\ Len(as) = N
  <2>1. \A i \in 1..N : AttendedBy(i) \in Seq(Seq(Token))
    BY <1>1, <1>3, ChunkAttends
  <2> QED BY <1>1, <2>1
<1>5. ts \in Seq(Seq(Token)) /\ Len(ts) = N
  <2>1. \A i \in 1..N : TokensOf(batch[i], CacheLen(batch[i]), batch[i].n) \in Seq(Token)
    BY <1>1, <1>2, TokensType
  <2> QED BY <1>1, <2>1
<1>6. ASSUME NEW i \in 1..N
      PROVE  /\ Len(as[i]) = batch[i].n /\ Len(ts[i]) = batch[i].n
             /\ \A j \in 1..batch[i].n :
                  /\ ts[i][j] = <<batch[i].req, CacheLen(batch[i]) + j - 1>>
                  /\ as[i][j] = Keys(batch[i].req, CacheLen(batch[i]) + j - 1)
  <2>1. i \in DOMAIN batch
    BY <1>1
  <2>2. as[i] = AttendedBy(i)
        /\ ts[i] = TokensOf(batch[i], CacheLen(batch[i]), batch[i].n)
    BY <2>1
  <2> HIDE DEF as, ts
  <2> QED BY <1>2, <1>3, <2>1, <2>2, TokensType, ChunkAttends
<1>7. attended' = FlattenSeq(as) /\ Tokens' = FlattenSeq(ts)
  <2>1. batch' = batch /\ computed' = computed
    BY DEF BuildMetadata, scheduler
  <2> QED BY <2>1 DEF BuildMetadata, Tokens, CacheLen
<1> HIDE DEF as, ts
<1>8. PICK A, T : A = FlattenSeq(as) /\ T = FlattenSeq(ts)
  OBVIOUS
<1>9. PlaceByPlace(A, T, as, ts)
  <2>1. SameShape(as, ts)
    BY <1>4, <1>5, <1>6 DEF SameShape
  <2>2. as \in Seq(Seq(Seq(Token)))
    BY <1>4
  <2> QED BY <1>5, <1>8, <2>1, <2>2, FlattenTogether
<1>10. A \in Seq(Seq(Token)) /\ T \in Seq(Token) /\ Len(A) = Len(T)
  BY <1>4, <1>5, <1>8, <1>9, FlattenType DEF PlaceByPlace
<1>11. ASSUME NEW t \in DOMAIN T
       PROVE  \E i \in DOMAIN batch : \E pos \in Nat :
                 T[t] = <<batch[i].req, pos>> /\ A[t] = Keys(batch[i].req, pos)
  <2>1. t \in 1..Len(A)
    BY <1>10
  <2>2. PICK i \in 1..N : \E j \in 1..Len(as[i]) : A[t] = as[i][j] /\ T[t] = ts[i][j]
    BY <1>4, <1>9, <2>1 DEF PlaceByPlace
  <2>3. PICK j \in 1..batch[i].n : A[t] = as[i][j] /\ T[t] = ts[i][j]
    BY <1>6, <2>2
  <2>4. PICK c \in Nat : c = CacheLen(batch[i]) /\ i \in DOMAIN batch /\ j \in 1..batch[i].n
    BY <1>1, <1>2
  <2>5. c + j - 1 \in Nat
    BY <1>2, <2>4
  <2>6. T[t] = <<batch[i].req, c + j - 1>> /\ A[t] = Keys(batch[i].req, c + j - 1)
    BY <1>6, <2>3, <2>4
  <2> QED BY <2>4, <2>5, <2>6
<1>12. ASSUME NEW t \in DOMAIN T
       PROVE  /\ ToSet(A[t]) = {T[t][1]} \X OwnKeys(T[t][1], T[t][2])
              /\ Len(A[t]) = Cardinality(OwnKeys(T[t][1], T[t][2]))
              /\ \A k \in OwnKeys(T[t][1], T[t][2]) :
                   InBeams(T[t][1], k) => k >= computed[T[t][1]] - fresh[T[t][1]]
  <2>1. PICK i \in DOMAIN batch, pos \in Nat :
            T[t] = <<batch[i].req, pos>> /\ A[t] = Keys(batch[i].req, pos)
    BY <1>11
  <2>2. PICK r \in Request : r = batch[i].req /\ T[t][1] = r /\ T[t][2] = pos
    BY <1>2, <2>1
  <2>3. ToSet(A[t]) = {r} \X OwnKeys(r, pos) /\ Len(A[t]) = Cardinality(OwnKeys(r, pos))
    BY <2>1, <2>2, KeysAreOwn
  <2>4. ASSUME NEW k \in OwnKeys(r, pos), InBeams(r, k)
        PROVE  k >= computed[r] - fresh[r]
    <3>1. k \in Int
      BY DEF OwnKeys
    <3> QED BY <2>2, <2>4, <3>1, BeamKeysAreFresh
  <2> QED BY <2>2, <2>3, <2>4
<1>13. computed' = computed /\ fresh' = fresh
  BY DEF BuildMetadata, scheduler
<1>14. attended' = A /\ Tokens' = T
  BY <1>7, <1>8
<1> QED BY <1>12, <1>13, <1>14 DEF AttentionIsPerBeam

\* However the scheduler cuts a mega prompt and whatever shares the step, every
\* sampled token attended exactly once to each key of the sequence it stands
\* for, and to nothing else.
THEOREM AttentionOfTheBeams == Spec => []AttentionIsPerBeam
<1>1. Init => AttentionIsPerBeam
  BY DEF Init, AttentionIsPerBeam
<1>2. AnswerInv /\ AttentionIsPerBeam /\ [Next]_vars => AttentionIsPerBeam'
  <2> SUFFICES ASSUME AnswerInv, AttentionIsPerBeam, [Next]_vars
               PROVE  AttentionIsPerBeam'
    OBVIOUS
  <2>1. CASE phase' # "sample"
    BY <2>1 DEF AttentionIsPerBeam
  <2>2. CASE BuildMetadata
    BY <2>2, BuildAttention
  <2>3. CASE UNCHANGED vars
    <3>1. UNCHANGED <<phase, batch, computed, fresh, attended>>
      BY <2>3 DEF vars, scheduler, step
    <3>2. Tokens' = Tokens
      BY <3>1 DEF Tokens, CacheLen
    <3> QED BY <3>1, <3>2 DEF AttentionIsPerBeam
  <2>4. ASSUME phase' = "sample",
               \/ \E r \in Request : ScheduleRequest(r) \/ Preempt(r)
               \/ PrepareInputs \/ BuildFails \/ Sample
        PROVE  FALSE
    BY <2>4 DEF ScheduleRequest, Preempt, PrepareInputs, BuildFails, Sample, step
  <2> QED BY <2>1, <2>2, <2>3, <2>4 DEF Next, Terminated
<1> QED BY <1>1, <1>2, AnswerInvariant, PTL DEF Spec

=============================================================================
