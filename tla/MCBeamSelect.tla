----------------------------- MODULE MCBeamSelect -----------------------------
(* BeamSelect for TLC.  A model's opinion is a ranking of the tokens and a   *)
(* profile: how far apart the ranks are.                                     *)
EXTENDS BeamSelect

CONSTANTS a, b, c, eos, begin, end

Tokens == {a, b, c, eos}
MinusInf == -1000

Opinions(rankings, profiles) ==
    {[t \in Token |-> profile[CHOOSE k \in DOMAIN ranking : ranking[k] = t]] :
        ranking \in rankings, profile \in profiles}

\* c comes last in the calls that are about the other three.
Threes == {<<x[1], x[2], x[3], c>> : x \in {<<a, b, eos>>, <<a, eos, b>>, <<b, a, eos>>,
                                            <<b, eos, a>>, <<eos, a, b>>, <<eos, b, a>>}}
Cycles == {<<a, b, eos, c>>, <<b, eos, a, c>>, <<eos, a, b, c>>}
Fours == {x \in [1..4 -> Tokens] : IsInjective(x)}

Flat == << -1, -2, -4, -5 >>
Steep == << -1, -6, -7, -9 >>

Call == [beam_width |-> 2, max_tokens |-> 2, begin_token |-> <<>>, end_token |-> <<>>,
         ignore_eos |-> FALSE, include_stop_str_in_output |-> FALSE,
         greedy |-> TRUE, has_catalog |-> FALSE, log_probs |-> {}]

Sampled == [Call EXCEPT !.greedy = FALSE, !.log_probs = Opinions(Cycles, {Flat})]
Deep == [Call EXCEPT !.max_tokens = 3,
                     !.log_probs = Opinions(Cycles, {Flat})
                                      \cup Opinions({<<a, b, eos, c>>}, {Steep})]
Best == [Call EXCEPT !.ignore_eos = TRUE, !.log_probs = Opinions(Fours, {Flat})]
WithCatalog ==
    [Call EXCEPT !.max_tokens = 4, !.begin_token = <<begin>>, !.end_token = <<end>>,
                 !.include_stop_str_in_output = TRUE, !.has_catalog = TRUE,
                 !.log_probs = Opinions(Threes, {Flat, Steep})]

RequestsMC == <<Sampled, Deep, Best, WithCatalog>>
Items == {<<begin, a, a, end>>, <<begin, a, b, end>>, <<begin, b, a, end>>}

ASSUME ItemsFit == CatalogFits
=============================================================================
