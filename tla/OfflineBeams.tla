----------------------------- MODULE OfflineBeams -----------------------------
(***************************************************************************)
(* The offline beam search, LLM.beam_search: several prompts in one call.  *)
(* The beams of the prompts of a batch go to the model as one flat list    *)
(* and come back as one; every prompt then keeps the best of its slice.    *)
(*                                                                         *)
(* A beam's tokens start with its prompt, a single name here; its steps    *)
(* are the log-probabilities along the chain of _lp_parent pointers.       *)
(***************************************************************************)
EXTENDS Integers, SequencesExt, Orders

CONSTANTS
    PromptLen,      \* the lengths of the prompts, each of which is a name
    Token, Eos,
    NegInf,         \* -inf, below every sum of the log-probabilities of a call
    Calls           \* the calls that may be made, a sequence of records

VARIABLES
    call,           \* the call, an index into Calls
    prompt_start,   \* prompts before the current batch
    token,          \* the loop variable
    beams,          \* instance.beams of every prompt
    completed,      \* instance.completed
    all_beams,      \* the flat list that went to the model
    pos,            \* where the slices of the instances begin in it, and end
    output,         \* the rows that came back
    instance,       \* the instance of the batch whose slice is next
    phase,          \* "generate", "select", "done" or "raised"
    outputs,        \* the answer
    said            \* history: the model's opinion by the tokens it was given

vars == <<call, prompt_start, token, beams, completed, all_beams, pos, output,
          instance, phase, outputs, said>>

Prompts == Calls[call].prompts
concurrency_limit == Calls[call].concurrency_limit
BeamWidth == Calls[call].beam_width
BeginTokens == Calls[call].begin_token      \* none or one
EndTokens == Calls[call].end_token
IgnoreEos == Calls[call].ignore_eos
Greedy == Calls[call].greedy                \* temperature = 0
\* what the model may say at each step, [Token -> Int]s, and whether a row may
\* come without log-probabilities
Opinions == Calls[call].opinions
MayMiss == Calls[call].may_miss

logprobs_num == BeamWidth
StepsOfCall(c) ==
    LET pre_calc == Len(c.begin_token) + Len(c.end_token)
    IN  Max({c.max_tokens, pre_calc}) - pre_calc
NumSteps == StepsOfCall(Calls[call])

ASSUME TokenAssumption == IsFiniteSet(Token) /\ Eos \in Token
ASSUME CallAssumption ==
    \A c \in Range(Calls) :
        /\ c.prompts \in Seq(DOMAIN PromptLen \ {Eos}) /\ IsInjective(c.prompts)
        /\ \A p \in ToSet(c.prompts) : PromptLen[p] \in Nat \ {0}
        /\ c.concurrency_limit \in Nat \ {0} /\ c.max_tokens \in Nat
        /\ c.beam_width \in 1..(Cardinality(Token) - 1)
        /\ \A special \in {c.begin_token, c.end_token} :
              special \in Seq(ToSet(special)) /\ Len(special) <= 1
        /\ {c.ignore_eos, c.greedy, c.may_miss} \subseteq BOOLEAN
\* Which of two equally likely tokens vLLM lists first is no question here.
ASSUME OpinionAssumption ==
    /\ NegInf \in Int /\ NegInf < 0
    /\ \A c \in Range(Calls) : \A n \in 1..StepsOfCall(c) : \A f \in c.opinions[n] :
          /\ f \in [Token -> Int] /\ IsInjective(f)
          /\ \A t \in Token : f[t] <= 0 /\ StepsOfCall(c) * f[t] > NegInf

Plus(x, y) == IF x = NegInf \/ y = NegInf THEN NegInf ELSE x + y

Certain(tokens) == [k \in DOMAIN tokens |-> << [token |-> tokens[k], lp |-> 0] >>]

Init ==
    /\ call \in DOMAIN Calls
    /\ prompt_start = 0 /\ token = 0 /\ instance = 0
    /\ beams = [i \in DOMAIN Prompts |->
                  << [tokens |-> <<Prompts[i]>> \o BeginTokens, cum |-> 0,
                      steps |-> <<>>, reason |-> "length"] >>]
    /\ completed = [i \in DOMAIN Prompts |-> <<>>]
    /\ all_beams = <<>> /\ pos = <<0>> /\ output = <<>>
    /\ phase = "generate" /\ outputs = <<>> /\ said = <<>>

----------------------------------------------------------------------------
(* One step of the model for all beams of the batch.                       *)

\* instances[prompt_start : prompt_start + concurrency_limit], as indices
InstancesBatch ==
    [k \in 1..Min({concurrency_limit, Len(Prompts) - prompt_start}) |->
       prompt_start + k]

\* [0] + accumulate of the lengths
Offsets(lists) ==
    [k \in 1..(Len(lists) + 1) |-> Len(FlattenSeq(SubSeq(lists, 1, k - 1)))]

Entry(f, t) == [token |-> t, lp |-> f[t]]

\* vLLM's row: the sampled token, then the logprobs_num most likely ones
Row(f, sampled) ==
    LET best == InOrder(Token, {p \in Token \X Token : f[p[1]] > f[p[2]]})
    IN  << Entry(f, sampled) >>
            \o [k \in 1..logprobs_num |-> Entry(f, best[k])]

MayBeSampled(f) == IF Greedy THEN {t \in Token : \A u \in Token : f[u] <= f[t]}
                   ELSE Token

Says == UNION {{[says |-> f, row |-> Row(f, t)] : t \in MayBeSampled(f)} :
                    f \in Opinions[token + 1]}

Missing == <<>>

\* generate() answers in the order of its prompts.
Generate ==
    /\ phase = "generate" /\ token < NumSteps
    /\ LET lists == [k \in DOMAIN InstancesBatch |-> beams[InstancesBatch[k]]]
       IN  all_beams' = FlattenSeq(lists) /\ pos' = Offsets(lists)
    /\ all_beams' # <<>>
    /\ \E answer \in [DOMAIN all_beams' -> Says],
          missing \in {{}} \cup IF MayMiss THEN {{j} : j \in DOMAIN all_beams'}
                                ELSE {} :
          /\ output' = [j \in DOMAIN answer |->
                          IF j \in missing THEN Missing ELSE answer[j].row]
          /\ LET asked == {b.tokens : b \in ToSet(all_beams')}
             IN  said' = [tokens \in asked \cup DOMAIN said |->
                            IF tokens \notin asked THEN said[tokens]
                            ELSE answer[CHOOSE j \in DOMAIN answer :
                                           all_beams'[j].tokens = tokens].says]
    /\ phase' = "select" /\ instance' = 1
    /\ UNCHANGED <<call, prompt_start, token, beams, completed, outputs>>

----------------------------------------------------------------------------
(* The beams of one instance, from its slice.                              *)

Slice(list) == SubSeq(list, pos[instance] + 1, pos[instance + 1])

\* extract_and_dedup_flat_logprobs
Dedup(row) ==
    IF \E j \in 2..(logprobs_num + 1) : row[j].token = row[1].token
    THEN SubSeq(row, 2, logprobs_num + 1)
    ELSE SubSeq(row, 1, logprobs_num)

\* beam_flat_cache
FlatCache(rows) == [b \in DOMAIN rows |-> Dedup(rows[b])]

\* all_beams_token_id with all_beams_logprob
Candidates(current, cache) ==
    FlattenSeq([b \in DOMAIN cache |->
        [k \in DOMAIN cache[b] |->
           [token |-> cache[b][k].token,
            cum |-> Plus(current[b].cum, cache[b][k].lp)]]])

\* Slip: the slice forgotten, the beam looked up in the whole list.
Child_OfAllBeams(current, cache, candidates, idx, reason) ==
    LET beam_idx == 1 + (idx - 1) \div logprobs_num
        current_beam == all_beams[beam_idx]
    IN  [tokens |-> Append(current_beam.tokens, candidates[idx].token),
         cum |-> candidates[idx].cum, reason |-> reason,
         steps |-> Append(current_beam.steps, cache[beam_idx])]

\* beam_idx = idx // logprobs_num
Child(current, cache, candidates, idx, reason) ==
    LET beam_idx == 1 + (idx - 1) \div logprobs_num
        current_beam == current[beam_idx]
    IN  [tokens |-> Append(current_beam.tokens, candidates[idx].token),
         cum |-> candidates[idx].cum, reason |-> reason,
         steps |-> Append(current_beam.steps, cache[beam_idx])]

\* eos_idx, in order
EosIdx(candidates) ==
    LET ends == {i \in DOMAIN candidates : ~IgnoreEos /\ candidates[i].token = Eos}
    IN  InOrder(ends, {p \in ends \X ends : p[1] < p[2]})

\* all_beams_logprob[eos_idx] = -inf
WithoutEos(candidates) ==
    [i \in DOMAIN candidates |->
       IF i \in ToSet(EosIdx(candidates))
       THEN [candidates[i] EXCEPT !.cum = NegInf] ELSE candidates[i]]

\* argpartition leaves the order open, and the choice among equals.
TopN(candidates) ==
    IF Len(candidates) <= BeamWidth THEN {[i \in DOMAIN candidates |-> i]}
    ELSE {idx \in [1..BeamWidth -> DOMAIN candidates] :
            /\ IsInjective(idx)
            /\ \A i \in DOMAIN candidates \ Range(idx) :
                  \A j \in Range(idx) : candidates[i].cum <= candidates[j].cum}

Select ==
    /\ phase = "select" /\ Missing \notin ToSet(Slice(output))
    /\ LET i == InstancesBatch[instance]
           current == Slice(all_beams)
           cache == FlatCache(Slice(output))
           candidates == Candidates(current, cache)
           eos_idx == EosIdx(candidates)
           masked == WithoutEos(candidates)
       IN  \E topn_idx \in TopN(masked) :
              /\ completed' = [completed EXCEPT ![i] = @ \o
                     [k \in DOMAIN eos_idx |->
                        Child(current, cache, candidates, eos_idx[k], "stop")]]
              /\ beams' = [beams EXCEPT ![i] =
                     [k \in DOMAIN topn_idx |->
                        Child(current, cache, masked, topn_idx[k], "length")]]
    /\ IF instance < Len(InstancesBatch)
       THEN instance' = instance + 1 /\ UNCHANGED <<phase, token>>
       ELSE instance' = 0 /\ phase' = "generate" /\ token' = token + 1
    /\ UNCHANGED <<call, prompt_start, all_beams, pos, output, outputs, said>>

\* ValueError, for the whole call
NoLogprobs ==
    /\ phase = "select" /\ Missing \in ToSet(Slice(output))
    /\ phase' = "raised"
    /\ UNCHANGED <<call, prompt_start, token, beams, completed, all_beams, pos,
                   output, instance, outputs, said>>

----------------------------------------------------------------------------
(* From batch to batch, and the answer.                                    *)

EndOfBatch ==
    /\ phase = "generate"
    /\ token = NumSteps \/ \A k \in DOMAIN InstancesBatch :
                              beams[InstancesBatch[k]] = <<>>

NextBatch ==
    /\ EndOfBatch
    /\ prompt_start + concurrency_limit < Len(Prompts)
    /\ prompt_start' = prompt_start + concurrency_limit
    /\ token' = 0
    /\ UNCHANGED <<call, beams, completed, all_beams, pos, output, instance, phase,
                   outputs, said>>

\* vLLM's sort key, cum_logprob / seq_len^length_penalty with the default
\* penalty of 1; an end-of-sentence token is not counted.
SeqLen(tokens) == PromptLen[tokens[1]] + Len(tokens) - 1
                     - (IF Last(tokens) = Eos THEN 1 ELSE 0)
Better(x, y) ==
    IF NegInf \in {x.cum, y.cum} THEN x.cum # NegInf /\ y.cum = NegInf
    ELSE x.cum * SeqLen(y.tokens) > y.cum * SeqLen(x.tokens)

\* reconstruct_beam_logprobs
Logprobs(beam) ==
    Certain(BeginTokens) \o beam.steps
        \o IF beam.reason = "stop" THEN <<>> ELSE Certain(EndTokens)

\* Slip: what has ended is forgotten.
Finals_ActiveOnly(i) ==
    [k \in DOMAIN beams[i] |-> [beams[i][k] EXCEPT !.tokens = @ \o EndTokens]]

\* the completed beams, and the active ones with the end token
Finals(i) ==
    completed[i] \o [k \in DOMAIN beams[i] |->
                       [beams[i][k] EXCEPT !.tokens = @ \o EndTokens]]

\* sorted(..., reverse=True) leaves equals in their order.
Earlier(list) ==
    {p \in (DOMAIN list) \X (DOMAIN list) :
       \/ Better(list[p[1]], list[p[2]])
       \/ ~Better(list[p[2]], list[p[1]]) /\ p[1] < p[2]}

BestBeams(i) ==
    LET finals == Finals(i)
        sorted == InOrder(DOMAIN finals, Earlier(finals))
    IN  [k \in 1..Min({BeamWidth, Len(finals)}) |-> finals[sorted[k]]]

Finish ==
    /\ EndOfBatch
    /\ prompt_start + concurrency_limit >= Len(Prompts)
    /\ outputs' = [i \in DOMAIN Prompts |->
                     [k \in DOMAIN BestBeams(i) |->
                        [tokens |-> BestBeams(i)[k].tokens,
                         cum |-> BestBeams(i)[k].cum,
                         reason |-> BestBeams(i)[k].reason,
                         logprobs |-> Logprobs(BestBeams(i)[k])]]]
    /\ phase' = "done"
    /\ UNCHANGED <<call, prompt_start, token, beams, completed, all_beams, pos,
                   output, instance, said>>

Terminated == phase \in {"done", "raised"} /\ UNCHANGED vars

Next == Generate \/ Select \/ NoLogprobs \/ NextBatch \/ Finish \/ Terminated

Spec == Init /\ [][Next]_vars

----------------------------------------------------------------------------
(* Properties.                                                             *)

\* The search of one prompt with nobody beside it, by sets: every step keeps
\* the BeamWidth best continuations.  With ignore_eos they are chosen among
\* all; otherwise every beam offers the BeamWidth best of its own.
Offered(tokens) ==
    {t \in Token : IgnoreEos \/ Cardinality({u \in Token :
                       said[tokens][u] > said[tokens][t]}) < BeamWidth}

Continuations(live) ==
    UNION {{[tokens |-> Append(b.tokens, t), cum |-> b.cum + said[b.tokens][t]] :
               t \in Offered(b.tokens)} : b \in live}

Ended(found) == {x \in found : ~IgnoreEos /\ Last(x.tokens) = Eos}

Likelier(S) == {p \in S \X S : p[1].cum > p[2].cum}
BetterOf(S) == {p \in S \X S : Better(p[1], p[2])}

\* What a search may be after a step, once the model has said what it thinks of
\* its beams: argpartition decides which of the equally likely ones it keeps.
AfterStep(search) ==
    LET next == Continuations(search.live)
        open == next \ Ended(next)
    IN  IF \A b \in search.live : b.tokens \in DOMAIN said
        THEN {[live |-> L, ended |-> search.ended \cup Ended(next)] :
                 L \in Bests(open, BeamWidth, Likelier(open))}
        ELSE {}

Start(i) == [live |-> {[tokens |-> <<Prompts[i]>> \o BeginTokens, cum |-> 0]},
             ended |-> {}]

Closed(search) ==
    search.ended \cup {[b EXCEPT !.tokens = @ \o EndTokens] : b \in search.live}

\* The answers a prompt may get, as sets of sequences with their scores.
Alone(i) ==
    LET searches[n \in 0..NumSteps] ==
          IF n = 0 THEN {Start(i)} ELSE UNION {AfterStep(s) : s \in searches[n - 1]}
    IN  UNION {Bests(Closed(s), BeamWidth, BetterOf(Closed(s))) :
                  s \in searches[NumSteps]}

\* However the prompts are put into batches and their beams strung together,
\* every prompt is answered as if it were alone: with the best sequences of
\* its own search, best first (temperature 0).
AnswersAreOfTheSearchAlone ==
    phase = "done" /\ Greedy =>
        \A i \in DOMAIN Prompts :
            LET answer == outputs[i]
            IN  /\ {[tokens |-> a.tokens, cum |-> a.cum] : a \in ToSet(answer)}
                      \in Alone(i)
                /\ \A k, l \in DOMAIN answer :
                      k < l => answer[k] # answer[l] /\ ~Better(answer[l], answer[k])

Total(s) ==
    LET total[k \in 0..Len(s)] == IF k = 0 THEN 0 ELSE Plus(total[k - 1], s[k])
    IN  total[Len(s)]

\* A beam that was told to stop is no beam any more: it goes on with -inf.
WentOn(b) ==
    /\ ~IgnoreEos
    /\ \E k \in (2 + Len(BeginTokens))..Len(b.tokens) :
          b.tokens[k] = Eos /\ (b.reason = "stop" => k < Len(b.tokens))

\* What a beam is charged, and the log-probabilities it is answered with, are
\* what the model said of its own prompt and tokens, one step after the other,
\* whichever beams of whichever prompt stood next to it in the list.
ChargedForItself ==
    \A i \in DOMAIN Prompts : \A b \in ToSet(beams[i] \o completed[i]) :
        LET first == 1 + Len(BeginTokens)
            lp(k) == said[SubSeq(b.tokens, 1, first + k - 1)][b.tokens[first + k]]
        IN  /\ Len(b.steps) = Len(b.tokens) - first
            /\ \A k \in DOMAIN b.steps :
                  {e \in ToSet(b.steps[k]) : e.token = b.tokens[first + k]}
                      = {[token |-> b.tokens[first + k], lp |-> lp(k)]}
            /\ b.cum = IF WentOn(b) THEN NegInf
                       ELSE Total([k \in DOMAIN b.steps |-> lp(k)])

\* Every prompt gets beam_width sequences of finite score, though a beam that
\* ends takes the place of a candidate; and each sequence has one entry of
\* log-probabilities for every token after the prompt.
AnswersAreReal ==
    phase = "done" /\ NumSteps > 0 =>
        \A i \in DOMAIN Prompts :
            /\ Len(outputs[i]) = BeamWidth
            /\ \A a \in ToSet(outputs[i]) :
                  /\ a.cum # NegInf
                  /\ Len(a.logprobs) = Len(a.tokens) - 1

=============================================================================
