-------------------------------- MODULE MinHeap --------------------------------
(***************************************************************************)
(* The bounded min-heap of csrc/minheap.cpp: candidates come in chunks,    *)
(* one per beam, each sorted by score; the best max_size are kept.  The    *)
(* chunks are gone through side by side, a row at a time, and a chunk is   *)
(* left at its first candidate that is not good enough.                    *)
(*                                                                         *)
(* The heap is its set of items; which of several items of the lowest      *)
(* score is at its top is open.                                            *)
(***************************************************************************)
EXTENDS Integers, Sequences, FiniteSets

CONSTANTS
    max_size,
    Arguments,  \* of push_candidates_striped: scores, eos (the positions whose
                \* token is eos_token_id) and chunk_size
    Lists,      \* of push_list, lists of scores; push is a list of one
    MaxCalls    \* bounds the history

\* A heap of no size reads the top of an empty one; every chunk is sorted.
ASSUME SizeAssumption == max_size \in Nat \ {0} /\ MaxCalls \in Nat
ASSUME ArgumentAssumption ==
    \A a \in Arguments :
        a.scores \in Seq(Int) /\ a.eos \subseteq Nat /\ a.chunk_size \in Int
ASSUME ListAssumption == Lists \subseteq Seq(Int)

Chunks(a) == 0..((Len(a.scores) \div a.chunk_size) - 1)
Rows(a) == 0..(a.chunk_size - 1)
Idx(a, c, i) == c * a.chunk_size + i

\* the arguments the call does not throw at
Divisible(a) == a.chunk_size > 0 /\ Len(a.scores) % a.chunk_size = 0

Score(a, c, i) == a.scores[Idx(a, c, i) + 1]
Sorted(a) ==
    \A c \in Chunks(a), r, q \in Rows(a) :
        /\ Score(a, c, r) \in Int
        /\ r <= q => Score(a, c, q) <= Score(a, c, r)

ASSUME SortedAssumption == \A a \in Arguments : Divisible(a) => Sorted(a)

VARIABLES
    heap,           \* items in the queue
    calls,          \* calls made
    args,           \* the arguments of the call that runs
    i,              \* its row
    todo,           \* active chunks the row has yet to come to
    active,         \* chunks that stay active, written so far
    list,           \* items push_list has yet to push
    running,        \* "no", "striped" or "list"
    offered         \* history: the candidates of all calls

vars == <<heap, calls, args, i, todo, active, list, running, offered>>

Item(a, n, c, r) == [call |-> n, idx |-> Idx(a, c, r), score |-> Score(a, c, r)]
Candidates(a, n) ==
    {Item(a, n, x[1], x[2]) : x \in {y \in Chunks(a) \X Rows(a) :
                                        Idx(a, y[1], y[2]) \notin a.eos}}

None == [scores |-> <<>>, eos |-> {}, chunk_size |-> 1]

Init ==
    /\ heap = {} /\ calls = 0 /\ args = None /\ i = 0
    /\ todo = {} /\ active = {} /\ list = <<>>
    /\ running = "no" /\ offered = {}

----------------------------------------------------------------------------
(* push and push_inplace                                                   *)

Full == Cardinality(heap) >= max_size
Lowest(top) == top \in heap /\ \A x \in heap : top.score <= x.score

Keep(item) ==
    \/ ~Full /\ heap' = heap \cup {item}
    \/ Full /\ \E top \in heap :
          /\ Lowest(top) /\ item.score > top.score
          /\ heap' = (heap \ {top}) \cup {item}

Reject(item) ==
    /\ Full /\ \E top \in heap : Lowest(top) /\ ~(item.score > top.score)
    /\ UNCHANGED heap

----------------------------------------------------------------------------
(* push_candidates_striped                                                 *)

\* Nothing to push, or invalid_argument: the heap is as before.
CallInVain ==
    /\ running = "no" /\ calls < MaxCalls
    /\ \E a \in Arguments : Len(a.scores) = 0 \/ ~Divisible(a)
    /\ calls' = calls + 1
    /\ UNCHANGED <<heap, args, i, todo, active, list, running, offered>>

Call ==
    /\ running = "no" /\ calls < MaxCalls
    /\ \E a \in Arguments :
          /\ Len(a.scores) > 0 /\ Divisible(a)
          /\ args' = a /\ todo' = Chunks(a)
          /\ offered' = offered \cup Candidates(a, calls)
    /\ i' = 0 /\ active' = {}
    /\ running' = "striped"
    /\ UNCHANGED <<heap, calls, list>>

Chunk == CHOOSE c \in todo : \A d \in todo : c <= d
Current == Item(args, calls, Chunk, i)
IsEos == Idx(args, Chunk, i) \in args.eos

\* Slip: a chunk that comes to the end-of-sentence token is left.
SkipEos_Drops ==
    /\ IsEos
    /\ active' = active
    /\ UNCHANGED heap

SkipEos ==
    /\ IsEos
    /\ active' = active \cup {Chunk}
    /\ UNCHANGED heap

Accept == ~IsEos /\ Keep(Current) /\ active' = active \cup {Chunk}

Drop == ~IsEos /\ Reject(Current) /\ UNCHANGED active

Visit ==
    /\ running = "striped" /\ todo # {}
    /\ todo' = todo \ {Chunk}
    /\ SkipEos \/ Accept \/ Drop
    /\ UNCHANGED <<calls, args, i, list, running, offered>>

\* Slip: leaves out the last row.
LastRow_OneEarly == active = {} \/ i + 2 >= args.chunk_size

LastRow == active = {} \/ i + 1 = args.chunk_size

NextRow ==
    /\ running = "striped" /\ todo = {} /\ ~LastRow
    /\ i' = i + 1 /\ todo' = active /\ active' = {}
    /\ UNCHANGED <<heap, calls, args, list, running, offered>>

Return ==
    /\ running = "striped" /\ todo = {} /\ LastRow
    /\ running' = "no" /\ calls' = calls + 1
    /\ UNCHANGED <<heap, args, i, todo, active, list, offered>>

----------------------------------------------------------------------------
(* push_list: every item is tried.                                         *)

ListItem(scores, n, k) == [call |-> n, idx |-> k, score |-> scores[k]]

CallList ==
    /\ running = "no" /\ calls < MaxCalls
    /\ \E scores \in Lists :
          /\ list' = [k \in DOMAIN scores |-> ListItem(scores, calls, k)]
          /\ offered' = offered \cup {list'[k] : k \in DOMAIN scores}
    /\ running' = "list"
    /\ UNCHANGED <<heap, calls, args, i, todo, active>>

Push ==
    /\ running = "list" /\ list # <<>>
    /\ Keep(Head(list)) \/ Reject(Head(list))
    /\ list' = Tail(list)
    /\ UNCHANGED <<calls, args, i, todo, active, running, offered>>

ReturnList ==
    /\ running = "list" /\ list = <<>>
    /\ running' = "no" /\ calls' = calls + 1
    /\ UNCHANGED <<heap, args, i, todo, active, list, offered>>

Terminated == running = "no" /\ calls = MaxCalls /\ UNCHANGED vars

Next ==
    \/ CallInVain \/ Call \/ Visit \/ NextRow \/ Return
    \/ CallList \/ Push \/ ReturnList
    \/ Terminated

Spec == Init /\ [][Next]_vars

----------------------------------------------------------------------------
(* Properties.                                                             *)

Candidate == [call : Nat, idx : Int, score : Int]

TypeOK ==
    /\ heap \subseteq offered /\ offered \subseteq Candidate
    /\ IsFiniteSet(heap)
    /\ calls \in Nat
    /\ Divisible(args) /\ Sorted(args)
    /\ args.chunk_size \in Int /\ args.scores \in Seq(Int)
    /\ i \in Nat /\ (running = "striped" => i \in Rows(args))
    /\ todo \subseteq Chunks(args) /\ active \subseteq Chunks(args)
    /\ list \in Seq(Candidate)
    /\ running \in {"no", "striped", "list"}

\* A heap is never longer than max_size, in the middle of a call either.
NeverLonger == Cardinality(heap) <= max_size

\* H is the best max_size of S: nothing left out is better than anything kept,
\* and nothing is left out as long as there is room.
Best(S, H) ==
    /\ \A x \in S \ H, y \in H : x.score <= y.score
    /\ S \subseteq H \/ Cardinality(H) = max_size

\* After every call the heap holds the best of what it was ever offered,
\* although chunks are left at their first rejected candidate and the end-of-
\* sentence token is stepped over in the middle of a chunk.
KeepsTheBest == running = "no" => heap \subseteq offered /\ Best(offered, heap)

----------------------------------------------------------------------------
(* What makes it so in the middle of a call: the heap holds the best of all *)
(* candidates but those the call will still come to.                       *)

Coming(a, n, row, left, on) ==
    {x \in Candidates(a, n) :
        \E c \in Chunks(a), r \in Rows(a) :
            /\ x = Item(a, n, c, r)
            /\ (c \in left /\ r >= row) \/ (c \in on /\ r > row)}

Ahead ==
    CASE running = "striped" -> Coming(args, calls, i, todo, active)
      [] running = "list" -> {list[k] : k \in DOMAIN list}
      [] OTHER -> {}

\* A candidate has a place of its own, in the calls and in its call.
PlacesOK ==
    /\ \A x \in offered : x.call <= calls /\ (running = "no" => x.call < calls)
    /\ \A k \in DOMAIN list :
          running = "list" =>
              /\ list[k].call = calls
              /\ \A l \in DOMAIN list : l < k => list[l].idx < list[k].idx

HeapInv ==
    /\ TypeOK /\ NeverLonger /\ PlacesOK
    /\ Ahead \subseteq offered \ heap
    /\ Best(offered \ Ahead, heap)
    /\ todo \cap active = {}

=============================================================================
