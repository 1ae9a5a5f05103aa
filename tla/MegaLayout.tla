----------------------------- MODULE MegaLayout -----------------------------
(***************************************************************************)
(* One mega request stands for beam_width sequences: its prompt is the     *)
(* prefix followed by decode_steps tokens of each beam.  Three patches     *)
(* must agree on that layout while vLLM's scheduler cuts the prompt into   *)
(* chunks:                                                                 *)
(*                                                                         *)
(*   scheduler     engine_core_patch.apply_scheduler_patch                 *)
(*   model runner  engine_core_patch.patched_prepare_inputs and            *)
(*                 patched_bookkeeping_sync (positions, logits rows)       *)
(*   attention     beam_attn.BeamAttentionMetadataBuilder.build (which     *)
(*                 keys each query token attends to)                       *)
(*                                                                         *)
(* A token is <<r, i>>: the i-th token (from 0) of the prompt of request   *)
(* r, which is also the KV slot vLLM stores it in.                         *)
(***************************************************************************)
EXTENDS Integers, SequencesExt

CONSTANTS
    Mega,           \* mega requests in their decode stage
    Plain,          \* ordinary requests (the prefills of searches included)
    PrefixLen, BeamWidth, DecodeSteps,  \* of each mega request
    PromptLen, MaxTokens, Logprobs,     \* of each ordinary request
    BlockSize,      \* cache_config.block_size
    TokenBudget,    \* max_num_batched_tokens
    MaxPreemptions  \* bound: preemptions of one request

Request == Mega \cup Plain

ASSUME MegaAssumption == /\ Mega \cap Plain = {}
                         /\ PrefixLen \in [Mega -> Nat \ {0}]
                         /\ BeamWidth \in [Mega -> Nat \ {0}]
                         /\ DecodeSteps \in [Mega -> Nat \ {0}]
ASSUME PlainAssumption == /\ PromptLen \in [Plain -> Nat \ {0}]
                          /\ MaxTokens \in [Plain -> Nat \ {0}]
                          /\ Logprobs \in [Plain -> Nat]
ASSUME SizeAssumption == /\ BlockSize \in Nat \ {0}
                         /\ TokenBudget \in Nat \ {0}
                         /\ MaxPreemptions \in [Request -> Nat]

VARIABLES
    \* the scheduler
    status,       \* "waiting", "running" or "finished"
    computed,     \* num_computed_tokens
    fresh,        \* how many of those the request computed itself
    preemptions,
    batch,        \* the step being built or executed: <<[req, n]>>
    mega_data,    \* cache_len of each request of the batch
    \* the model runner, one entry per token of the batch where it says so
    phase,        \* "schedule", "build", "sample", or "failed"
    positions,    \* per token: its position id
    rows,         \* the tokens whose logits are gathered, in order
    row_configs,  \* per request of the batch: its number of logits rows
    attended,     \* per token: the keys it attends to, in order
    \* the API server
    result        \* what was read of each answer: segments of log-probabilities

scheduler == <<status, computed, fresh, preemptions>>
step == <<batch, mega_data, phase, positions, rows, row_configs, attended>>
vars == <<scheduler, step, result>>

NumPrompt(r) == IF r \in Mega
                THEN PrefixLen[r] + BeamWidth[r] * DecodeSteps[r]
                ELSE PromptLen[r]

\* prompt and output tokens; every answer adds an output token
NumTokens(r) == NumPrompt(r) + Len(result[r])

Sum(s) == LET sum[k \in 0..Len(s)] == IF k = 0 THEN 0 ELSE sum[k - 1] + s[k]
          IN  sum[Len(s)]
FromTo(first, count) == [j \in 1..count |-> first + j - 1]
Scheduled == {batch[i].req : i \in DOMAIN batch}
CacheLen(e) == computed[e.req] - e.n
HasMega == Scheduled \cap Mega # {}

\* the tokens of the step, in the order of the batch
TokensOf(e, first, count) == [j \in 1..count |-> <<e.req, first + j - 1>>]
Tokens == FlattenSeq([i \in DOMAIN batch |->
                        TokensOf(batch[i], CacheLen(batch[i]), batch[i].n)])

Init ==
    /\ status = [r \in Request |-> "waiting"]
    /\ computed = [r \in Request |-> 0]
    /\ fresh = [r \in Request |-> 0]
    /\ preemptions = [r \in Request |-> 0]
    /\ batch = <<>>
    /\ mega_data = <<>>
    /\ phase = "schedule"
    /\ positions = <<>>
    /\ rows = <<>>
    /\ row_configs = <<>>
    /\ attended = <<>>
    /\ result = [r \in Request |-> <<>>]

-----------------------------------------------------------------------------
(* The scheduler *)

\* vLLM's prefix cache holds whole blocks and never the whole prompt
CacheHits(r) == {h \in 0..(NumTokens(r) - 1) : h % BlockSize = 0}

\* slip: a hit is cut at the block the prefix ends in, beams and all
ComputedBlocks_RoundsUp(r, hit) ==
    LET pn == ((PrefixLen[r] + BlockSize - 1) \div BlockSize) * BlockSize
    IN  IF r \in Mega /\ hit > pn THEN pn ELSE hit

\* patch_get_computed_blocks: a hit must not reach into the beams
ComputedBlocks(r, hit) ==
    LET pn == (PrefixLen[r] \div BlockSize) * BlockSize
    IN  IF r \in Mega /\ hit > pn THEN pn ELSE hit

\* schedule() takes request r into the step: a waiting one with what the
\* prefix cache has of it, and any chunk the limits of the step allow
ScheduleRequest(r) ==
    /\ phase = "schedule"
    /\ r \notin Scheduled
    /\ status[r] # "finished"
    /\ \E start \in IF status[r] = "waiting"
                    THEN {ComputedBlocks(r, hit) : hit \in CacheHits(r)}
                    ELSE {computed[r]} :
       \E n \in 1..TokenBudget :
          /\ n + Sum([i \in DOMAIN batch |-> batch[i].n]) <= TokenBudget
          /\ start + n <= NumTokens(r)
          /\ status' = [status EXCEPT ![r] = "running"]
          /\ computed' = [computed EXCEPT ![r] = start + n]
          /\ fresh' = [fresh EXCEPT ![r] = @ + n]
          /\ batch' = Append(batch, [req |-> r, n |-> n])
          /\ mega_data' = Append(mega_data, start)
    /\ UNCHANGED <<preemptions, phase, positions, rows, row_configs, attended,
                   result>>

\* schedule() frees the blocks of a running request
Preempt(r) ==
    /\ phase = "schedule"
    /\ r \notin Scheduled
    /\ status[r] = "running"
    /\ preemptions[r] < MaxPreemptions[r]
    /\ status' = [status EXCEPT ![r] = "waiting"]
    /\ computed' = [computed EXCEPT ![r] = 0]
    /\ fresh' = [fresh EXCEPT ![r] = 0]
    /\ preemptions' = [preemptions EXCEPT ![r] = @ + 1]
    /\ UNCHANGED <<step, result>>

-----------------------------------------------------------------------------
(* The model runner: position ids and logits rows *)

\* _compute_beam_bounds: how many tokens of beam b are in the chunk, and how
\* many were in earlier ones
BeamBounds(r, b, cache_len, chunk_budget) ==
    LET delta == Max({0, cache_len - PrefixLen[r]})
        past  == Max({0, Min({DecodeSteps[r], delta - b * DecodeSteps[r]})})
        wants == IF PrefixLen[r] < cache_len THEN DecodeSteps[r] - past
                 ELSE IF b = 0 THEN PrefixLen[r] - cache_len + DecodeSteps[r]
                 ELSE DecodeSteps[r]
    IN  [uncached |-> Min({chunk_budget, wants}), past |-> past]

\* slip: a beam that resumes in a later chunk starts over
FirstPosition_StartsOver(r, b, cache_len, past) ==
    IF b = 0 /\ PrefixLen[r] >= cache_len THEN cache_len ELSE PrefixLen[r]

\* the position of the first token of beam b in the chunk
FirstPosition(r, b, cache_len, past) ==
    IF PrefixLen[r] < cache_len THEN PrefixLen[r] + past
    ELSE IF b = 0 THEN cache_len ELSE PrefixLen[r]

\* "past_suffix_b + b_uncached >= decode_steps"
BeamIsComplete(r, bounds) == bounds.past + bounds.uncached >= DecodeSteps[r]

\* one round of _process_mega_decode_request: beam b of the chunk, after s
ChunkBeam(r, cache_len, n, b, s) ==
    LET bounds == BeamBounds(r, b, cache_len, n - Len(s.positions))
        first  == FirstPosition(r, b, cache_len, bounds.past)
        end    == Len(s.positions) + bounds.uncached
    IN  IF bounds.uncached <= 0 THEN s
        ELSE [positions |-> s.positions \o FromTo(first, bounds.uncached),
              rows |-> IF BeamIsComplete(r, bounds)
                       THEN Append(s.rows, <<r, cache_len + end - 1>>)
                       ELSE s.rows]

\* _process_mega_decode_request: one pass over the beams, spending the chunk
MegaChunk(r, cache_len, n) ==
    LET after[b \in 0..BeamWidth[r]] ==
            IF b = 0 THEN [positions |-> <<>>, rows |-> <<>>]
            ELSE ChunkBeam(r, cache_len, n, b - 1, after[b - 1])
    IN  after[BeamWidth[r]]

\* an ordinary request in a batch with mega requests: one row, for the chunk
\* that completes its prompt
PlainChunk(r, cache_len, n) ==
    [positions |-> FromTo(cache_len, n),
     rows |-> IF cache_len < NumPrompt(r) /\ cache_len + n >= NumPrompt(r)
              THEN << <<r, cache_len + n - 1>> >>
              ELSE <<>>]

\* vLLM's own layout: the last token of every chunk has a row
VllmChunk(r, cache_len, n) ==
    [positions |-> FromTo(cache_len, n), rows |-> << <<r, cache_len + n - 1>> >>]

Chunk(i) ==
    LET r == batch[i].req
    IN  IF ~HasMega THEN VllmChunk(r, CacheLen(batch[i]), batch[i].n)
        ELSE IF r \in Mega THEN MegaChunk(r, mega_data[i], batch[i].n)
        ELSE PlainChunk(r, CacheLen(batch[i]), batch[i].n)

PrepareInputs ==
    /\ phase = "schedule"
    /\ batch # <<>>
    /\ LET chunks == [i \in DOMAIN batch |-> Chunk(i)]
       IN  /\ positions' = FlattenSeq([i \in DOMAIN batch |-> chunks[i].positions])
           /\ rows' = FlattenSeq([i \in DOMAIN batch |-> chunks[i].rows])
           /\ row_configs' = [i \in DOMAIN batch |-> Len(chunks[i].rows)]
    /\ phase' = "build"
    /\ UNCHANGED <<scheduler, batch, mega_data, attended, result>>

-----------------------------------------------------------------------------
(* The attention metadata *)

\* slip: the chunk may end before the prefix does
StandardLen_Unclipped(i) ==
    LET r == batch[i].req
        delta == PrefixLen[r] - mega_data[i]
    IN  IF r \notin Mega THEN batch[i].n
        ELSE IF delta >= 2 * BlockSize THEN delta
        ELSE 0

\* _segment_requests: standard attention runs over the missing prefix when at
\* least two blocks of it are missing
StandardLen(i) ==
    LET r == batch[i].req
        delta == PrefixLen[r] - mega_data[i]
    IN  IF r \notin Mega THEN batch[i].n
        ELSE IF delta >= 2 * BlockSize THEN Min({delta, batch[i].n})
        ELSE 0

\* slip: the split-off prefix is still missing for the beams
SegmentedCacheLen_Stale(i) == mega_data[i]

\* the cache_len it leaves in mega_data
SegmentedCacheLen(i) ==
    mega_data[i] + IF batch[i].req \in Mega THEN StandardLen(i) ELSE 0

MegaLen(i) == batch[i].n - StandardLen(i)

\* the query tokens of the mega mappings; a suffix key is an index into them
MegaTokens ==
    FlattenSeq([i \in DOMAIN batch |->
                  TokensOf(batch[i], SegmentedCacheLen(i), MegaLen(i))])

OutSlot(i) == 1 + Sum([k \in 1..(i - 1) |-> MegaLen(k)])

\* "assert remaining_prefix>=0"
RemainingPrefix(i) == PrefixLen[batch[i].req] - SegmentedCacheLen(i)
LayoutAssertion ==
    \A i \in DOMAIN batch : MegaLen(i) > 0 => RemainingPrefix(i) >= 0

\* one round of _build_mega_mappings: the queries of beam b of the chunk and
\* their suffix keys, as indices into MegaTokens
SegmentBeam(i, b, s) ==
    LET r == batch[i].req
        wants    == IF b = 0 THEN RemainingPrefix(i) + DecodeSteps[r]
                    ELSE DecodeSteps[r]
        uncached == Min({s.budget, wants})
        own      == FromTo(OutSlot(i) + MegaLen(i) - s.budget, uncached)
        shared   == FromTo(OutSlot(i), RemainingPrefix(i))
    IN  IF uncached <= 0 THEN s
        ELSE [segments |-> Append(s.segments,
                                  [queries |-> uncached,
                                   keys |-> IF b = 0 THEN own ELSE shared \o own]),
              budget |-> s.budget - uncached]

\* _build_mega_mappings: a segment for every beam with tokens in the chunk
BeamSegments(i) ==
    LET width == BeamWidth[batch[i].req]
        after[b \in 0..width] ==
            IF b = 0 THEN [segments |-> <<>>, budget |-> MegaLen(i)]
            ELSE SegmentBeam(i, b - 1, after[b - 1])
    IN  after[width].segments

\* causal attention of `queries` tokens over a longer sequence of keys is
\* aligned at the end
CausalKeys(queries, keys) ==
    [j \in 1..queries |-> SubSeq(keys, 1, Len(keys) - queries + j)]

\* cascade_attention: a query of a segment attends to the cached prefix, and to
\* its suffix through the slot mapping
SuffixKeys(i, segment) ==
    LET cached == TokensOf(batch[i], 0, SegmentedCacheLen(i))
        causal == CausalKeys(segment.queries, segment.keys)
        tokens == MegaTokens
    IN  [j \in DOMAIN causal |->
           cached \o [k \in DOMAIN causal[j] |-> tokens[causal[j][k]]]]

\* standard attention over what the request has of its prefix, then the segments
AttendedBy(i) ==
    LET len == StandardLen(i)
        standard == CausalKeys(len, TokensOf(batch[i], 0, mega_data[i] + len))
        segments == BeamSegments(i)
    IN  IF MegaLen(i) = 0 THEN standard
        ELSE standard \o
             FlattenSeq([k \in DOMAIN segments |-> SuffixKeys(i, segments[k])])

BuildMetadata ==
    /\ phase = "build"
    /\ LayoutAssertion
    /\ attended' = FlattenSeq([i \in DOMAIN batch |-> AttendedBy(i)])
    /\ mega_data' = [i \in DOMAIN batch |-> SegmentedCacheLen(i)]
    /\ phase' = "sample"
    /\ UNCHANGED <<scheduler, batch, positions, rows, row_configs, result>>

\* the AssertionError ends the engine core
BuildFails ==
    /\ phase = "build"
    /\ ~LayoutAssertion
    /\ phase' = "failed"
    /\ UNCHANGED <<scheduler, batch, mega_data, positions, rows, row_configs,
                   attended, result>>

-----------------------------------------------------------------------------
(* Sampling and the answers *)

\* the column of the sampled token, and as many as the batch asks for at most
NumLogprobs(r) == IF r \in Mega THEN BeamWidth[r] ELSE Logprobs[r]
Columns == 1 + Max({NumLogprobs(r) : r \in Scheduled})

\* <<row, k>> stands for the k-th log-probability of the row, and its token
Entries(row, n) == [k \in 1..n |-> <<row, k>>]

\* -inf and token id 0, which belong to no row
NoRow(r) == <<r, -1>>
Padding(r, n) == [k \in 1..n |-> <<NoRow(r), 0>>]

\* max_chained_dim
ChainedDim == Max({row_configs[k] * Columns : k \in DOMAIN batch})

\* slip: the cursor moves by one row for a request, not by all of them
Remux_OneRowEach(i) ==
    LET cursor == Sum([k \in 1..(i - 1) |-> Min({1, row_configs[k]})])
        own == FlattenSeq([k \in 1..row_configs[i] |->
                             Entries(rows[cursor + k], Columns)])
    IN  own \o Padding(batch[i].req, ChainedDim - Len(own))

\* _remux_logprobs_tensors: the rows of the i-th request one after the other,
\* padded to the longest answer of the step.  A request without rows gets
\* nothing but padding; when there is no row in the whole step, nothing.  With no
\* mega request all have one row, and this is the answer vLLM gives them.
Remux(i) ==
    LET cursor == Sum(SubSeq(row_configs, 1, i - 1))
        own == FlattenSeq([k \in 1..row_configs[i] |->
                             Entries(rows[cursor + k], Columns)])
    IN  own \o Padding(batch[i].req, ChainedDim - Len(own))

\* serving_engine.beam_search divides the answer of a mega request among its
\* beams, and reads no more of a segment than it asked for
ReadBack(r, flat) ==
    IF r \in Mega
    THEN LET stride == Len(flat) \div BeamWidth[r]
         IN  [b \in 1..BeamWidth[r] |->
                SubSeq(flat, (b - 1) * stride + 1,
                       (b - 1) * stride + Min({stride, 1 + NumLogprobs(r)}))]
    ELSE << SubSeq(flat, 1, 1 + NumLogprobs(r)) >>

\* vLLM discards what a request samples before its tokens are all computed
Answered(i) == computed[batch[i].req] = NumTokens(batch[i].req)

Place(r) == CHOOSE i \in DOMAIN batch : batch[i].req = r

\* patched_bookkeeping_sync, vLLM's update_from_output, and the reader.  A step
\* without any row (the early return) yields no token: a request whose tokens
\* are all computed then has nothing left to schedule.
Sample ==
    LET answer(r) ==
            IF r \in Scheduled /\ Answered(Place(r)) /\ rows # <<>>
            THEN << ReadBack(r, Remux(Place(r))) >> ELSE <<>>
        ends(r) == r \in Mega \/ Len(result[r]) + 1 >= MaxTokens[r]
    IN  /\ phase = "sample"
        /\ result' = [r \in Request |-> result[r] \o answer(r)]
        /\ status' = [r \in Request |->
                        IF answer(r) # <<>> /\ ends(r) THEN "finished"
                        ELSE status[r]]
        /\ batch' = <<>>
        /\ mega_data' = <<>>
        /\ phase' = "schedule"
        /\ positions' = <<>>
        /\ rows' = <<>>
        /\ row_configs' = <<>>
        /\ attended' = <<>>
        /\ UNCHANGED <<computed, fresh, preemptions>>

-----------------------------------------------------------------------------

\* nothing left to schedule, or no engine left to do it
Terminated ==
    /\ \/ phase = "failed"
       \/ /\ phase = "schedule" /\ batch = <<>>
          /\ \A r \in Request : status[r] = "finished" \/ computed[r] = NumTokens(r)
    /\ UNCHANGED vars

Next ==
    \/ \E r \in Request : ScheduleRequest(r) \/ Preempt(r)
    \/ PrepareInputs
    \/ BuildMetadata
    \/ BuildFails
    \/ Sample
    \/ Terminated

Spec == Init /\ [][Next]_vars

-----------------------------------------------------------------------------
(* Properties *)

TypeOK ==
    /\ status \in [Request -> {"waiting", "running", "finished"}]
    /\ \A r \in Request :
          /\ fresh[r] \in 0..computed[r]
          /\ computed[r] \in 0..NumTokens(r)
          /\ preemptions[r] \in 0..MaxPreemptions[r]
          /\ \A k \in DOMAIN result[r] : \A b \in DOMAIN result[r][k] :
                ToSet(result[r][k][b]) \subseteq
                    ({r} \X (-1..(NumTokens(r) - 1))) \X Nat
    /\ \A i \in DOMAIN batch :
          /\ status[batch[i].req] = "running"
          /\ batch[i].n \in 1..TokenBudget
          /\ mega_data[i] \in 0..computed[batch[i].req]
    /\ DOMAIN mega_data = DOMAIN batch
    /\ phase \in {"schedule", "build", "sample", "failed"}

\* The reference: where a token stands and what it may look at if every beam
\* were a sequence of its own.
BeamStart(r, i) ==
    PrefixLen[r] + ((i - PrefixLen[r]) \div DecodeSteps[r]) * DecodeSteps[r]
InBeams(r, i) == r \in Mega /\ i >= PrefixLen[r]
OwnPosition(r, i) ==
    IF InBeams(r, i) THEN PrefixLen[r] + i - BeamStart(r, i) ELSE i
OwnKeys(r, i) ==
    IF InBeams(r, i) THEN 0..(PrefixLen[r] - 1) \cup BeamStart(r, i)..i ELSE 0..i

\* Every token of a step gets the position it would have in a sequence of its
\* own, wherever the scheduler cut the mega request and whatever shares the
\* batch (_overwrite_position_ids writes into the positions of the batch).
PositionsAreTheBeams ==
    phase # "schedule" =>
        positions = [t \in DOMAIN Tokens |-> OwnPosition(Tokens[t][1], Tokens[t][2])]

\* Every query token attends exactly once to each key of its own sequence and
\* to nothing else: not to another beam, another request, or twice to the
\* prefix (build), and none of those keys is a cached block of beam tokens
\* (patch_get_computed_blocks).
AttentionIsPerBeam ==
    phase = "sample" =>
        \A t \in DOMAIN Tokens :
            LET r == Tokens[t][1]
                own == OwnKeys(r, Tokens[t][2])
            IN  /\ ToSet(attended[t]) = {r} \X own
                /\ Len(attended[t]) = Cardinality(own)
                /\ \A k \in own : InBeams(r, k) => k >= computed[r] - fresh[r]

\* The last token of beam b, whose logits continue that beam.
BeamEnd(r, b) == <<r, PrefixLen[r] + b * DecodeSteps[r] - 1>>

\* What r should read of its next answer, were each beam a request of its own.
Due(r) ==
    IF r \in Mega
    THEN [b \in 1..BeamWidth[r] |-> Entries(BeamEnd(r, b), 1 + NumLogprobs(r))]
    ELSE << Entries(<<r, NumTokens(r) - 1>>, 1 + NumLogprobs(r)) >>

\* What a mega request reads is shifted by the rows of one with more of them in
\* the step; an ordinary request has no row when it decodes among mega requests.
Undisturbed(i) ==
    LET r == batch[i].req
    IN  IF r \in Mega
        THEN BeamWidth[r] = 1 \/ \A k \in DOMAIN batch : row_configs[k] <= BeamWidth[r]
        ELSE CacheLen(batch[i]) < PromptLen[r] \/ ~HasMega

\* A request whose tokens are all computed reads, for each of its beams and in
\* beam order, the log-probabilities of that beam's last token, although its
\* prompt may have run in several chunks and among other requests
\* (_remux_logprobs_tensors, and the stride of serving_engine.beam_search):
\* exactly when it is undisturbed, in which case it also ends when it should.
AnswersAreComplete ==
    [][phase = "sample" =>
          \A i \in DOMAIN batch : Answered(i) =>
             LET r == batch[i].req
             IN  /\ result'[r] = Append(result[r], Due(r)) <=> Undisturbed(i)
                 /\ Undisturbed(i) =>
                       (status'[r] = "finished" <=>
                          Len(result'[r]) = IF r \in Mega THEN 1 ELSE MaxTokens[r])
      ]_vars

\* The layout assertion of build only ever fails on a mega request that the
\* scheduler itself cut inside the beams; what the prefix cache and
\* _segment_requests leave behind never trips it.
FailsOnlyOnSplitBeams ==
    phase = "failed" =>
        \E i \in DOMAIN batch :
            LET r == batch[i].req
            IN  /\ r \in Mega
                /\ fresh[r] > batch[i].n
                /\ CacheLen(batch[i]) > PrefixLen[r]

\* "assert remaining_prefix>=0" of _build_mega_mappings.
BuildNeverFails == phase # "failed"

=============================================================================
