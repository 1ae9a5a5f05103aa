------------------------------ MODULE BeamSelect ------------------------------
(***************************************************************************)
(* The selection of serving_engine.beam_search: from the log-probabilities *)
(* of a step to the next beams, and from the last beams to the answer.     *)
(*                                                                         *)
(* Beams are nodes of a tree.  A beam does not copy its log-probabilities; *)
(* it points to its parent (_lp_parent) and to the data of the step that   *)
(* made it (_lp_step_data), and the whole is put together at the end.      *)
(* `tokens' of a beam are those after the prompt.                          *)
(*                                                                         *)
(* A step without log-probabilities, which leaves no beam, is the subject  *)
(* of MegaSession (ReceiveStep, NoBeamsLeft).                              *)
(***************************************************************************)
EXTENDS Integers, SequencesExt, Orders

CONSTANTS
    Token, Eos,
    NegInf,     \* -inf, below every sum of the log-probabilities of a call
    Catalog,    \* the items, sequences of tokens
    Requests    \* the calls that may be made, a sequence of records

VARIABLES
    request,    \* the call, an index into Requests
    token,      \* the loop variable
    tree,       \* every beam ever made, a parent before its children
    all_beams,  \* the current beams, as indices into tree
    completed,  \* beams that ended in the end-of-sentence token
    scored,     \* history: what the model said of each beam, in the last step
    phase,      \* "loop" or "done"
    outputs     \* the answer

vars == <<request, token, tree, all_beams, completed, scored, phase, outputs>>

BeamWidth == Requests[request].beam_width
MaxTokens == Requests[request].max_tokens
BeginTokens == Requests[request].begin_token    \* none or one
EndTokens == Requests[request].end_token
IgnoreEos == Requests[request].ignore_eos
IncludeStop == Requests[request].include_stop_str_in_output
Greedy == Requests[request].greedy              \* temperature = 0
HasCatalog == Requests[request].has_catalog
\* what the model may say in the course of the call: [Token -> Int]s
LogProbs == Requests[request].log_probs

logprobs_num == BeamWidth
StepsOfRequest(r) == r.max_tokens - Len(r.begin_token) - Len(r.end_token)
NumSteps == StepsOfRequest(Requests[request])

ASSUME TokenAssumption == IsFiniteSet(Token) /\ Eos \in Token
ASSUME RequestAssumption ==
    \A r \in Range(Requests) :
        /\ r.beam_width \in 1..(Cardinality(Token) - 1)
        /\ r.max_tokens \in Nat /\ StepsOfRequest(r) >= 0
        /\ \A special \in {r.begin_token, r.end_token} :
              special \in Seq(ToSet(special)) /\ Len(special) <= 1
        /\ {r.ignore_eos, r.include_stop_str_in_output, r.greedy, r.has_catalog}
              \subseteq BOOLEAN
\* No two tokens of a row are equally likely: which of them vLLM would list
\* first is then no question.
ASSUME LogProbAssumption ==
    /\ NegInf \in Int /\ NegInf < 0
    /\ \A r \in Range(Requests) : \A f \in r.log_probs :
          /\ f \in [Token -> Int] /\ IsInjective(f)
          /\ \A t \in Token : f[t] <= 0 /\ StepsOfRequest(r) * f[t] > NegInf
ASSUME CatalogAssumption == \A item \in Catalog : item \in Seq(ToSet(item))

Plus(x, y) == IF x = NegInf \/ y = NegInf THEN NegInf ELSE x + y

Init ==
    /\ request \in DOMAIN Requests
    /\ token = 0
    /\ tree = << [parent |-> 0, data |-> <<>>, tokens |-> BeginTokens,
                  cum |-> 0, reason |-> "length"] >>
    /\ all_beams = <<1>>
    /\ completed = <<>>
    /\ scored = <<>>
    /\ phase = "loop"
    /\ outputs = <<>>

-----------------------------------------------------------------------------
(* The catalog: the trie is the set of its paths *)

Trie == UNION {{SubSeq(item, 1, n) : n \in 0..Len(item)} : item \in Catalog}

Valid(path) == {t \in Token : Append(path, t) \in Trie}

-----------------------------------------------------------------------------
(* The candidates of a step *)

Entry(f, t) == [token |-> t, lp |-> f[t]]

\* vLLM's row: the sampled token, then the logprobs_num most likely ones
Row(f, sampled) ==
    LET best == InOrder(Token, {p \in Token \X Token : f[p[1]] > f[p[2]]})
    IN  << Entry(f, sampled) >>
            \o [k \in 1..logprobs_num |-> Entry(f, best[k])]

MayBeSampled(f) == IF Greedy THEN {t \in Token : \A u \in Token : f[u] <= f[t]}
                   ELSE Token

\* slip: keeps the sampled token although it is among the best
Dedup_KeepsBoth(row) == SubSeq(row, 1, logprobs_num)

\* slip: the slice ends one early
Dedup_CutsShort(row) ==
    IF \E j \in 2..(logprobs_num + 1) : row[j].token = row[1].token
    THEN SubSeq(row, 2, logprobs_num)
    ELSE SubSeq(row, 1, logprobs_num)

\* _extract_and_dedup_segment, extract_and_dedup_flat_logprobs
Dedup(row) ==
    IF Len(row) <= logprobs_num THEN row
    ELSE IF \E j \in 2..(logprobs_num + 1) : row[j].token = row[1].token
         THEN SubSeq(row, 2, logprobs_num + 1)
         ELSE SubSeq(row, 1, logprobs_num)

\* The rows of all beams come in one flat list, cut by a common stride.
Segment(flat, b) ==
    LET stride == Len(flat) \div Len(all_beams)
    IN  Dedup(SubSeq(flat, (b - 1) * stride + 1, b * stride))

\* slip: the filter of the first beam for all of them
Masked_FirstOnly(segment, b) ==
    LET valid == Valid(tree[all_beams[1]].tokens)
    IN  [k \in DOMAIN segment |->
           IF HasCatalog /\ segment[k].token \notin valid
           THEN [segment[k] EXCEPT !.lp = NegInf] ELSE segment[k]]

\* what the catalog does not go on with gets -inf
Masked(segment, b) ==
    LET valid == Valid(tree[all_beams[b]].tokens)
    IN  [k \in DOMAIN segment |->
           IF HasCatalog /\ segment[k].token \notin valid
           THEN [segment[k] EXCEPT !.lp = NegInf] ELSE segment[k]]

\* beam_flat_cache
StepData(flat) == [b \in DOMAIN all_beams |-> Masked(Segment(flat, b), b)]

\* idx // logprobs_num
ParentOf(i) == 1 + (i - 1) \div logprobs_num

\* all_beams_token_id with all_beams_logprob
Candidates(data) ==
    FlattenSeq([b \in DOMAIN all_beams |->
        [k \in DOMAIN data[b] |->
           [token |-> data[b][k].token,
            cum |-> Plus(tree[all_beams[b]].cum, data[b][k].lp)]]])

-----------------------------------------------------------------------------
(* A step of the search *)

EosBeam(data, candidates, i) ==
    LET current == tree[all_beams[ParentOf(i)]]
    IN  [parent |-> all_beams[ParentOf(i)], data |-> data[ParentOf(i)],
         tokens |-> IF IncludeStop THEN Append(current.tokens, Eos)
                    ELSE current.tokens,
         cum |-> candidates[i].cum, reason |-> "stop"]

NewBeam(data, candidates, i) ==
    [parent |-> all_beams[ParentOf(i)], data |-> data[ParentOf(i)],
     tokens |-> Append(tree[all_beams[ParentOf(i)]].tokens, candidates[i].token),
     cum |-> candidates[i].cum, reason |-> "length"]

\* eos_idx, in order
EosIdx(candidates) ==
    LET ends == {i \in DOMAIN candidates : ~IgnoreEos /\ candidates[i].token = Eos}
    IN  InOrder(ends, {p \in ends \X ends : p[1] < p[2]})

\* all_beams_logprob[eos_idx] = -inf
WithoutEos(candidates) ==
    [i \in DOMAIN candidates |->
       IF i \in ToSet(EosIdx(candidates))
       THEN [candidates[i] EXCEPT !.cum = NegInf] ELSE candidates[i]]

\* slip: one too many
TopN_OneMore(candidates) ==
    IF Len(candidates) <= BeamWidth THEN {[i \in DOMAIN candidates |-> i]}
    ELSE {idx \in [1..(BeamWidth + 1) -> DOMAIN candidates] : IsInjective(idx)}

\* topn_idx: argpartition leaves the order open, and the choice among equals
TopN(candidates) ==
    IF Len(candidates) <= BeamWidth THEN {[i \in DOMAIN candidates |-> i]}
    ELSE {idx \in [1..BeamWidth -> DOMAIN candidates] :
            /\ IsInjective(idx)
            /\ \A i \in DOMAIN candidates \ Range(idx) :
                  \A j \in Range(idx) : candidates[i].cum <= candidates[j].cum}

Step ==
    /\ phase = "loop" /\ token < NumSteps
    /\ \E f \in [DOMAIN all_beams -> LogProbs] :
       \E sampled \in [DOMAIN all_beams -> Token] :
          /\ \A b \in DOMAIN all_beams : sampled[b] \in MayBeSampled(f[b])
          /\ LET data == StepData(FlattenSeq([b \in DOMAIN all_beams |->
                                                Row(f[b], sampled[b])]))
                 candidates == Candidates(data)
                 eos_idx == EosIdx(candidates)
                 masked == WithoutEos(candidates)
             IN  \E topn_idx \in TopN(masked) :
                    /\ tree' = tree
                          \o [k \in DOMAIN eos_idx |->
                                EosBeam(data, candidates, eos_idx[k])]
                          \o [k \in DOMAIN topn_idx |->
                                NewBeam(data, masked, topn_idx[k])]
                    /\ completed' = completed
                          \o [k \in DOMAIN eos_idx |-> Len(tree) + k]
                    /\ all_beams' = [k \in DOMAIN topn_idx |->
                                       Len(tree) + Len(eos_idx) + k]
          /\ scored' = f
    /\ token' = token + 1
    /\ UNCHANGED <<request, phase, outputs>>

-----------------------------------------------------------------------------
(* The answer *)

\* slip: goes on to the parent before it takes the step's data
StepsOf_FromParent ==
    LET steps[n \in DOMAIN tree] ==
            IF tree[n].parent = 0 THEN <<>>
            ELSE Append(steps[tree[n].parent], tree[tree[n].parent].data)
    IN  steps

\* reconstruct_beam_logprobs: the data along the chain of parents
StepsOf ==
    LET steps[n \in DOMAIN tree] ==
            IF tree[n].parent = 0 THEN <<>>
            ELSE Append(steps[tree[n].parent], tree[n].data)
    IN  steps

Certain(tokens) == [k \in DOMAIN tokens |-> << [token |-> tokens[k], lp |-> 0] >>]

Logprobs(n) == Certain(BeginTokens) \o StepsOf[n]
                  \o IF tree[n].reason = "stop" THEN <<>> ELSE Certain(EndTokens)

\* slip: only what ran to the end
Finals_LastOnly == all_beams

Finals == completed \o all_beams

\* sorted(..., reverse=True) leaves equals in their order
BestBeams ==
    LET indices == DOMAIN Finals
        cum(i) == tree[Finals[i]].cum
        sorted == InOrder(indices, {p \in indices \X indices :
                                      \/ cum(p[1]) > cum(p[2])
                                      \/ cum(p[1]) = cum(p[2]) /\ p[1] < p[2]})
    IN  [k \in 1..Min({BeamWidth, Len(Finals)}) |-> Finals[sorted[k]]]

Answer(n) ==
    [tokens |-> tree[n].tokens \o IF n \in ToSet(all_beams) THEN EndTokens ELSE <<>>,
     cum |-> tree[n].cum, logprobs |-> Logprobs(n), reason |-> tree[n].reason]

Finish ==
    /\ phase = "loop" /\ token = NumSteps
    /\ outputs' = [k \in DOMAIN BestBeams |-> Answer(BestBeams[k])]
    /\ phase' = "done"
    /\ UNCHANGED <<request, token, tree, all_beams, completed, scored>>

Terminated == phase = "done" /\ UNCHANGED vars

Next == Step \/ Finish \/ Terminated

Spec == Init /\ [][Next]_vars

-----------------------------------------------------------------------------
(* Properties *)

Live == ToSet(all_beams) \cup ToSet(completed)

\* the tokens a beam was charged for, the end-of-sentence token included
Path(n) == tree[n].tokens \o IF tree[n].reason = "stop" /\ ~IncludeStop
                             THEN <<Eos>> ELSE <<>>

TypeOK ==
    /\ request \in DOMAIN Requests
    /\ token \in 0..NumSteps
    /\ \A n \in DOMAIN tree :
          /\ tree[n].parent \in 0..(n - 1)
          /\ tree[n].cum = NegInf \/ tree[n].cum \in (NegInf + 1)..0
          /\ tree[n].tokens \in Seq(Token \cup ToSet(BeginTokens))
          /\ Len(Path(n)) <= Len(BeginTokens) + token
    /\ Len(all_beams) <= BeamWidth
    /\ Live \subseteq DOMAIN tree
    /\ phase \in {"loop", "done"}
    /\ Len(outputs) <= BeamWidth

\* A beam that was told to stop is no beam any more: it goes on with -inf.
WentOn(n) ==
    /\ ~IgnoreEos
    /\ \E k \in (Len(BeginTokens) + 1)..Len(Path(n)) :
          /\ Path(n)[k] = Eos
          /\ tree[n].reason = "stop" => k < Len(Path(n))

Total(s) ==
    LET total[k \in 0..Len(s)] == IF k = 0 THEN 0 ELSE Plus(total[k - 1], s[k])
    IN  total[Len(s)]

\* Whatever the order of top-n, the pruning and the shared step data, the
\* log-probabilities a beam is answered with (reconstruct_beam_logprobs) are
\* one entry per token, each holds that token once, and the beam's score is
\* their sum.
EveryBeamOwnsItsLogprobs ==
    \A n \in Live :
        LET path == Path(n) \o IF tree[n].reason = "stop" THEN <<>> ELSE EndTokens
            lps == Logprobs(n)
            own(k) == {e \in ToSet(lps[k]) : e.token = path[k]}
        IN  /\ Len(lps) = Len(path)
            /\ \A k \in DOMAIN path :
                  Cardinality({j \in DOMAIN lps[k] : lps[k][j].token = path[k]}) = 1
            /\ tree[n].cum =
                  IF WentOn(n) THEN NegInf
                  ELSE Total([k \in DOMAIN path |-> (CHOOSE e \in own(k) : TRUE).lp])

\* No continuation is searched, or answered, twice: the sampled token that
\* vLLM lists on top of the best ones must not make a second beam.
BeamsAreDistinct ==
    \A n, o \in Live :
        n # o /\ tree[n].cum # NegInf /\ tree[o].cum # NegInf => Path(n) # Path(o)

\* Without a catalog the answer has beam_width sequences of finite score,
\* although a finished beam takes up a candidate: it counts as completed.
AnswersAreReal ==
    phase = "done" /\ NumSteps > 0 /\ ~HasCatalog =>
        /\ Len(outputs) = BeamWidth
        /\ \A k \in DOMAIN outputs : outputs[k].cum # NegInf

\* The beam_width candidates asked of every beam are enough: every step keeps
\* beam_width beams, and no continuation of a beam by any token of the
\* vocabulary beats one of them.  It is stated of ignore_eos, temperature 0 and
\* no catalog.
BeamsAreBest ==
    [][token' = token + 1 /\ IgnoreEos /\ Greedy /\ ~HasCatalog =>
         /\ Len(all_beams') = BeamWidth
         /\ \A b \in DOMAIN all_beams, t \in Token :
               LET current == tree[all_beams[b]]
                   kept == ToSet(all_beams')
               IN  \/ \E n \in kept : tree'[n].tokens = Append(current.tokens, t)
                   \/ \A n \in kept :
                         tree'[n].cum >= current.cum + scored'[b][t]]_vars

\* The items are as long as the answers, end in the end token, and an answer
\* that is complete is no beam that was stopped.
CatalogFits ==
    \A r \in Range(Requests) : r.has_catalog =>
        /\ StepsOfRequest(r) > 0
        /\ \A item \in Catalog :
              /\ Len(item) = r.max_tokens
              /\ r.end_token \in {<<>>, <<Last(item)>>}
              /\ ~r.ignore_eos => Eos \notin ToSet(item)

\* An answer of finite score is an item of the catalog (when CatalogFits, which
\* is so of the calls of the runs), begin and end token included.
CatalogIsRespected ==
    \A k \in DOMAIN outputs :
        HasCatalog /\ outputs[k].cum # NegInf => outputs[k].tokens \in Catalog

=============================================================================
