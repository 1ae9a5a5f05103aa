------------------------------ MODULE MCMinHeap ------------------------------
(* MinHeap for TLC: calls of every shape that fits the bounds.              *)
EXTENDS MinHeap, SequencesExt

CONSTANTS Scores, MaxChunks, MaxChunk, MaxCandidates, MaxEos

SortedSeqs(n) == {s \in [1..n -> Scores] : \A k \in 1..(n - 1) : s[k] >= s[k + 1]}

Shapes == {x \in (1..MaxChunk) \X (1..MaxChunks) : x[1] * x[2] <= MaxCandidates}

EosSets(n) == {S \in SUBSET (0..(n - 1)) : Cardinality(S) <= MaxEos}

InVain == {[scores |-> <<>>, eos |-> {}, chunk_size |-> 0],
           [scores |-> <<1, 1>>, eos |-> {}, chunk_size |-> 0],
           [scores |-> <<1, 1, 1>>, eos |-> {}, chunk_size |-> 2]}

ArgumentsMC ==
    InVain \cup
    UNION {{[scores |-> FlattenSeq(chunks), eos |-> E, chunk_size |-> shape[1]] :
              chunks \in [1..shape[2] -> SortedSeqs(shape[1])],
              E \in EosSets(shape[1] * shape[2])} : shape \in Shapes}

ListsMC == UNION {[1..n -> Scores] : n \in 1..3}
=============================================================================
