---------------------------- MODULE MCOfflineBeams ----------------------------
(* OfflineBeams for TLC.  An opinion is a ranking of the tokens and how far *)
(* apart the ranks are.  No two sums of First and Second are equal; First   *)
(* and Level make continuations of different beams that are.                *)
EXTENDS OfflineBeams

CONSTANTS a, b, eos, begin, end, p, q, r

Tokens == {a, b, eos}

Opinion(x, y, z, lp) == x :> lp[1] @@ y :> lp[2] @@ z :> lp[3]
First == << -100, -120, -190 >>
Second == << -1, -50, -83 >>
Level == << -1, -21, -83 >>

Cycles(lp) ==
    {Opinion(a, b, eos, lp), Opinion(b, eos, a, lp), Opinion(eos, a, b, lp)}
TwoCycles == <<Cycles(First), Cycles(Second)>>
Few == <<Cycles(First), {Opinion(a, b, eos, Level), Opinion(eos, b, a, Level)}>>
Pairs == <<{Opinion(a, eos, b, First), Opinion(eos, b, a, First)},
             {Opinion(a, eos, b, Second)}>>

PromptLenMC == p :> 1 @@ q :> 3 @@ r :> 2

Call == [prompts |-> <<p, q>>, concurrency_limit |-> 2, beam_width |-> 2,
         max_tokens |-> 3, begin_token |-> <<>>, end_token |-> <<end>>,
         ignore_eos |-> FALSE, greedy |-> TRUE, opinions |-> <<>>,
         may_miss |-> FALSE]

Together == [Call EXCEPT !.opinions = TwoCycles]
InBatches == [Call EXCEPT !.prompts = <<p, q, r>>, !.begin_token = <<begin>>,
                          !.end_token = <<>>, !.ignore_eos = TRUE,
                          !.opinions = Few]
Sampled == [Call EXCEPT !.greedy = FALSE, !.opinions = Pairs, !.may_miss = TRUE]

MinusInf == -100000

CallsMC == <<Together, InBatches, Sampled>>
=============================================================================
