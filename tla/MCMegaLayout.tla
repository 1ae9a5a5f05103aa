---------------------------- MODULE MCMegaLayout ----------------------------
(* MegaLayout for TLC: m1 has a prefix of more than two blocks, m2 one that *)
(* does not fill a block; p1 is an ordinary request.  A preempted m2 is the *)
(* same as a preempted m1, on a smaller scale.                              *)
EXTENDS MegaLayout

CONSTANTS m1, m2, p1

TwoMega == {m1, m2}
OneMega == {m1}
OnePlain == {p1}

PrefixSizes == [r \in Mega |-> IF r = m1 THEN 5 ELSE 1]
Widths == [r \in Mega |-> IF r = m1 THEN 3 ELSE 2]
Steps == [r \in Mega |-> IF r = m1 THEN 2 ELSE 1]
Prompts == [r \in Plain |-> 2]
NoPreemptions == [r \in Request |-> 0]
OneToken == [r \in Plain |-> 1]
TwoTokens == [r \in Plain |-> 2]
PlainLogprobs == [r \in Plain |-> 1]
Preemptions == [r \in Request |-> IF r = m2 THEN 0 ELSE 1]
=============================================================================
