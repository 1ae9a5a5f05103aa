----------------------------- MODULE MinHeapProofs -----------------------------
(***************************************************************************)
(* The heap keeps the best of what it was offered, for every size, every   *)
(* number and shape of calls whose chunks are sorted, and every order of   *)
(* equals.                                                                 *)
(***************************************************************************)
EXTENDS MinHeap, FiniteSetTheorems, WellFoundedInduction, TLAPS

----------------------------------------------------------------------------
(* Places in a call.                                                       *)

\* Within its call an item says where it is from.
LEMMA OwnItem ==
    ASSUME NEW a, Divisible(a), a.chunk_size \in Int, NEW n,
           NEW c \in Chunks(a), NEW d \in Chunks(a),
           NEW r \in Rows(a), NEW q \in Rows(a),
           Item(a, n, c, r) = Item(a, n, d, q)
    PROVE  c = d /\ r = q
<1>1. a.chunk_size \in Nat \ {0} /\ c \in Int /\ d \in Int
    BY DEF Divisible, Chunks
<1>2. r \in 0..(a.chunk_size - 1) /\ q \in 0..(a.chunk_size - 1)
    BY DEF Rows
<1>3. Item(a, n, c, r).idx = Item(a, n, d, q).idx
    OBVIOUS
<1>4. PICK k \in Nat \ {0} : k = a.chunk_size
    BY <1>1
<1>5. c * k + r = d * k + q
    BY <1>3, <1>4 DEF Item, Idx
<1>6. r \in 0..(k - 1) /\ q \in 0..(k - 1)
    BY <1>2, <1>4
<1>7. c \in Int /\ d \in Int
    BY <1>1
<1>8. k \in Nat \ {0}
    BY <1>4
<1>9. c * k \in Int /\ d * k \in Int
    BY <1>7, <1>8
<1>10. ~(c < d)
    <2>1. SUFFICES ASSUME c < d PROVE FALSE
        OBVIOUS
    <2>2. PICK e \in Nat : d = c + 1 + e
        BY <1>7, <2>1
    <2>3. d * k = c * k + k + e * k /\ e * k >= 0 /\ e * k \in Int
        BY <1>7, <1>8, <2>2
    <2>4. QED BY <1>5, <1>6, <1>8, <1>9, <2>3
<1>11. ~(d < c)
    <2>1. SUFFICES ASSUME d < c PROVE FALSE
        OBVIOUS
    <2>2. PICK e \in Nat : c = d + 1 + e
        BY <1>7, <2>1
    <2>3. c * k = d * k + k + e * k /\ e * k >= 0 /\ e * k \in Int
        BY <1>7, <1>8, <2>2
    <2>4. QED BY <1>5, <1>6, <1>8, <1>9, <2>3
<1>12. c = d
    BY <1>7, <1>10, <1>11
<1>13. QED BY <1>5, <1>6, <1>9, <1>12

LEMMA ItemType ==
    ASSUME NEW a, Sorted(a), a.chunk_size \in Int, NEW n \in Nat,
           NEW c \in Chunks(a), NEW r \in Rows(a)
    PROVE  Item(a, n, c, r) \in Candidate
<1>1. c \in Int /\ r \in Int
    BY DEF Chunks, Rows
<1>2. Idx(a, c, r) \in Int
    BY <1>1 DEF Idx
<1>3. Score(a, c, r) \in Int
    BY DEF Sorted
<1>4. QED BY <1>2, <1>3 DEF Item, Candidate

LEMMA CandidatesAreItems ==
    ASSUME NEW a, NEW n, NEW c \in Chunks(a), NEW r \in Rows(a),
           Idx(a, c, r) \notin a.eos
    PROVE  Item(a, n, c, r) \in Candidates(a, n)
<1>1. <<c, r>> \in {y \in Chunks(a) \X Rows(a) : Idx(a, y[1], y[2]) \notin a.eos}
    OBVIOUS
<1>2. QED BY <1>1 DEF Candidates

LEMMA ItemsAreCandidates ==
    ASSUME NEW a, NEW n, NEW x \in Candidates(a, n)
    PROVE  \E c \in Chunks(a), r \in Rows(a) :
               x = Item(a, n, c, r) /\ Idx(a, c, r) \notin a.eos
<1>1. PICK y \in Chunks(a) \X Rows(a) :
          x = Item(a, n, y[1], y[2]) /\ Idx(a, y[1], y[2]) \notin a.eos
    BY DEF Candidates
<1>2. QED BY <1>1

LEMMA CandidateType ==
    ASSUME NEW a, Sorted(a), a.chunk_size \in Int, NEW n \in Nat
    PROVE  Candidates(a, n) \subseteq Candidate
BY ItemsAreCandidates, ItemType

\* An item that is no end of a sentence is coming if its chunk and row are.
LEMMA ItemIsComing ==
    ASSUME NEW a, NEW n, NEW row, NEW left, NEW on,
           Divisible(a), a.chunk_size \in Int,
           NEW c \in Chunks(a), NEW r \in Rows(a)
    PROVE  Item(a, n, c, r) \in Coming(a, n, row, left, on)
               <=> /\ Idx(a, c, r) \notin a.eos
                   /\ (c \in left /\ r >= row) \/ (c \in on /\ r > row)
<1>1. ASSUME Item(a, n, c, r) \in Candidates(a, n)
      PROVE  Idx(a, c, r) \notin a.eos
    <2>1. PICK d \in Chunks(a), q \in Rows(a) :
              Item(a, n, c, r) = Item(a, n, d, q) /\ Idx(a, d, q) \notin a.eos
        BY <1>1, ItemsAreCandidates
    <2>2. c = d /\ r = q
        BY <2>1, OwnItem
    <2>3. QED BY <2>1, <2>2
<1>2. ASSUME Item(a, n, c, r) \in Coming(a, n, row, left, on)
      PROVE  (c \in left /\ r >= row) \/ (c \in on /\ r > row)
    <2>1. PICK d \in Chunks(a), q \in Rows(a) :
              /\ Item(a, n, c, r) = Item(a, n, d, q)
              /\ (d \in left /\ q >= row) \/ (d \in on /\ q > row)
        BY <1>2 DEF Coming
    <2>2. c = d /\ r = q
        BY <2>1, OwnItem
    <2>3. QED BY <2>1, <2>2
<1>3. Item(a, n, c, r) \in Coming(a, n, row, left, on)
          => Item(a, n, c, r) \in Candidates(a, n)
    BY DEF Coming
<1>4. QED BY <1>1, <1>2, <1>3, CandidatesAreItems DEF Coming

LEMMA ComingAreItems ==
    ASSUME NEW a, NEW n, NEW row, NEW left, NEW on,
           NEW x \in Coming(a, n, row, left, on)
    PROVE  \E c \in Chunks(a), r \in Rows(a) : x = Item(a, n, c, r)
BY DEF Coming

----------------------------------------------------------------------------
(* One item: kept or rejected.                                             *)

LEMMA KeepBest ==
    ASSUME NEW H, NEW H2, NEW x, NEW S,
           IsFiniteSet(H), H \subseteq Candidate, x \in Candidate, x \notin H,
           S \subseteq Candidate,
           Cardinality(H) <= max_size, Best(S, H),
           \/ Cardinality(H) < max_size /\ H2 = H \cup {x}
           \/ /\ ~(Cardinality(H) < max_size)
              /\ \E top \in H : /\ \A y \in H : top.score <= y.score
                                /\ x.score > top.score
                                /\ H2 = (H \ {top}) \cup {x}
    PROVE  /\ IsFiniteSet(H2) /\ Cardinality(H2) <= max_size
           /\ Best(S \cup {x}, H2)
<1>1. Cardinality(H) \in Nat /\ max_size \in Nat
    BY FS_CardinalityType, SizeAssumption
<1>2. CASE Cardinality(H) < max_size /\ H2 = H \cup {x}
    <2>1. IsFiniteSet(H2) /\ Cardinality(H2) = Cardinality(H) + 1
        BY <1>2, FS_AddElement
    <2>2. S \subseteq H
        BY <1>1, <1>2 DEF Best
    <2>3. S \cup {x} \subseteq H2
        BY <1>2, <2>2
    <2>4. QED BY <1>1, <1>2, <2>1, <2>3 DEF Best
<1>3. ASSUME ~(Cardinality(H) < max_size), NEW top \in H,
             \A y \in H : top.score <= y.score, x.score > top.score,
             H2 = (H \ {top}) \cup {x}
      PROVE  /\ IsFiniteSet(H2) /\ Cardinality(H2) <= max_size
             /\ Best(S \cup {x}, H2)
    <2>1. Cardinality(H) = max_size
        BY <1>1, <1>3
    <2>2. IsFiniteSet(H \ {top}) /\ Cardinality(H \ {top}) = max_size - 1
        BY <1>3, <2>1, FS_RemoveElement
    <2>3. IsFiniteSet(H2) /\ Cardinality(H2) = max_size
        <3>1. IsFiniteSet(H2)
              /\ Cardinality(H2) = Cardinality(H \ {top}) + 1
            BY <1>3, <2>2, FS_AddElement
        <3>2. QED BY <1>1, <2>2, <3>1
    <2>4. ASSUME NEW y \in (S \cup {x}) \ H2, NEW z \in H2
          PROVE  y.score <= z.score
        <3>1. /\ y = top \/ y \in S \ H
              /\ z = x \/ z \in H
            BY <1>3
        <3>2. top.score \in Int /\ x.score \in Int /\ y.score \in Int
              /\ z.score \in Int
            BY <1>3, <3>1 DEF Candidate
        <3>3. y.score <= top.score
            BY <1>3, <3>1, <3>2 DEF Best
        <3>4. top.score <= z.score
            BY <1>3, <3>1, <3>2
        <3>5. QED BY <3>2, <3>3, <3>4
    <2>5. QED BY <1>1, <2>3, <2>4 DEF Best
<1>4. QED BY <1>2, <1>3

\* Keep and Reject as they are used: S is settled before the item comes.
LEMMA KeepStep ==
    ASSUME TypeOK, NeverLonger, NEW x \in Candidate, x \notin heap,
           NEW S \in SUBSET Candidate, Best(S, heap), Keep(x)
    PROVE  /\ IsFiniteSet(heap') /\ NeverLonger' /\ Best(S \cup {x}, heap')
           /\ heap' \subseteq heap \cup {x}
<1>1. Cardinality(heap) \in Nat /\ max_size \in Nat
    BY FS_CardinalityType, SizeAssumption DEF TypeOK
<1>2. heap \subseteq Candidate
    BY DEF TypeOK
<1>3. \/ Cardinality(heap) < max_size /\ heap' = heap \cup {x}
      \/ /\ ~(Cardinality(heap) < max_size)
         /\ \E top \in heap : /\ \A y \in heap : top.score <= y.score
                              /\ x.score > top.score
                              /\ heap' = (heap \ {top}) \cup {x}
    BY <1>1 DEF Keep, Full, Lowest
<1>4. /\ IsFiniteSet(heap') /\ Cardinality(heap') <= max_size
      /\ Best(S \cup {x}, heap')
    BY <1>2, <1>3, KeepBest DEF TypeOK, NeverLonger
<1>5. QED BY <1>3, <1>4 DEF NeverLonger

\* What is no better than a rejected item is rejected with it.
LEMMA RejectStep ==
    ASSUME TypeOK, NeverLonger, NEW x \in Candidate,
           NEW S \in SUBSET Candidate, Best(S, heap), Reject(x),
           NEW T \in SUBSET Candidate, \A y \in T : y.score <= x.score
    PROVE  heap' = heap /\ Best(S \cup T, heap)
<1>1. Cardinality(heap) \in Nat /\ max_size \in Nat
    BY FS_CardinalityType, SizeAssumption DEF TypeOK
<1>2. Cardinality(heap) = max_size /\ heap' = heap
    BY <1>1 DEF Reject, Full, NeverLonger
<1>3. PICK top \in heap : /\ \A z \in heap : top.score <= z.score
                          /\ ~(x.score > top.score)
    BY DEF Reject, Lowest
<1>4. ASSUME NEW y \in (S \cup T) \ heap, NEW z \in heap
      PROVE  y.score <= z.score
    <2>1. x.score \in Int /\ y.score \in Int /\ z.score \in Int
          /\ top.score \in Int
        BY DEF TypeOK, Candidate
    <2>2. CASE y \in S
        BY <2>2 DEF Best
    <2>3. CASE y \in T
        BY <1>3, <2>1, <2>3
    <2>4. QED BY <2>2, <2>3
<1>5. QED BY <1>2, <1>4 DEF Best

LEMMA BestOfFewer ==
    ASSUME NEW H, NEW S, NEW T \in SUBSET S, Best(S, H)
    PROVE  Best(T, H)
BY DEF Best

----------------------------------------------------------------------------
(* The striped call.                                                       *)

LEMMA ChunkIsLeast ==
    ASSUME TypeOK, todo # {}
    PROVE  Chunk \in todo
<1>1. todo \subseteq Nat
    BY DEF TypeOK, Chunks
<1>2. \E c \in todo : \A d \in todo : <<d, c>> \notin OpToRel(<, Nat)
    BY <1>1, NatLessThanWellFounded, WFMin
<1>3. \A c, d \in todo : <<d, c>> \notin OpToRel(<, Nat) => c <= d
    BY <1>1 DEF OpToRel
<1>4. \E c \in todo : \A d \in todo : c <= d
    BY <1>2, <1>3
<1>5. QED BY <1>4 DEF Chunk

LEMMA VisitStep == HeapInv /\ Visit => HeapInv'
<1>1. SUFFICES ASSUME HeapInv, Visit PROVE HeapInv'
    OBVIOUS
<1> DEFINE S == offered \ Ahead
<1>2. /\ TypeOK /\ NeverLonger /\ Best(S, heap)
      /\ running = "striped" /\ Divisible(args) /\ args.chunk_size \in Int
      /\ Sorted(args) /\ calls \in Nat /\ i \in Rows(args) /\ i \in Nat
      /\ S \in SUBSET Candidate /\ heap \subseteq offered
      /\ todo \subseteq Chunks(args) /\ active \subseteq Chunks(args)
      /\ todo \cap active = {}
    BY <1>1 DEF HeapInv, Visit, TypeOK
<1>3. Chunk \in todo /\ Chunk \in Chunks(args)
    BY <1>1, <1>2, ChunkIsLeast DEF Visit
<1>4. /\ todo' = todo \ {Chunk}
      /\ UNCHANGED <<calls, args, i, list, running, offered>>
    BY <1>1 DEF Visit
<1>5. /\ Ahead = Coming(args, calls, i, todo, active)
      /\ Ahead' = Coming(args, calls, i, todo', active')
    BY <1>2, <1>4 DEF Ahead
<1>6. Current \in Candidate
    BY <1>2, <1>3, ItemType DEF Current
<1>7. active' \subseteq active \cup {Chunk}
    BY <1>1 DEF Visit, SkipEos, Accept, Drop
<1>8. Ahead' \subseteq Ahead \ {Current}
    <2>1. SUFFICES ASSUME NEW x \in Ahead' PROVE x \in Ahead /\ x # Current
        OBVIOUS
    <2>2. PICK c \in Chunks(args), r \in Rows(args) : x = Item(args, calls, c, r)
        BY <1>5, ComingAreItems
    <2>3. /\ Idx(args, c, r) \notin args.eos
          /\ (c \in todo' /\ r >= i) \/ (c \in active' /\ r > i)
        BY <1>2, <1>5, <2>2, ItemIsComing
    <2>4. (c \in todo /\ r >= i) \/ (c \in active /\ r > i)
        <3>1. r \in Int /\ i \in Int
            BY <1>2 DEF Rows
        <3>2. QED BY <1>3, <1>4, <1>7, <2>3, <3>1
    <2>5. x \in Ahead
        BY <1>2, <1>5, <2>2, <2>3, <2>4, ItemIsComing
    <2>6. ~(c = Chunk /\ r = i)
        BY <1>2, <1>3, <1>4, <2>3
    <2>7. x # Current
        BY <1>2, <1>3, <2>2, <2>6, OwnItem DEF Current
    <2>8. QED BY <2>5, <2>7
\* What the step settles.
<1>9. ASSUME NEW x \in Ahead, x \notin Ahead'
      PROVE  \E r \in Rows(args) :
                 /\ x = Item(args, calls, Chunk, r) /\ r >= i
                 /\ Idx(args, Chunk, r) \notin args.eos
                 /\ Chunk \in active' => r = i
    <2>1. PICK c \in Chunks(args), r \in Rows(args) : x = Item(args, calls, c, r)
        BY <1>5, <1>9, ComingAreItems
    <2>2. /\ Idx(args, c, r) \notin args.eos
          /\ (c \in todo /\ r >= i) \/ (c \in active /\ r > i)
        BY <1>2, <1>5, <1>9, <2>1, ItemIsComing
    <2>3. ~((c \in todo' /\ r >= i) \/ (c \in active' /\ r > i))
        BY <1>2, <1>5, <1>9, <2>1, <2>2, ItemIsComing
    <2>4. active \subseteq active'
        BY <1>1 DEF Visit, SkipEos, Accept, Drop
    <2>5. c = Chunk /\ r >= i
        BY <1>2, <1>4, <2>2, <2>3, <2>4
    <2>6. Chunk \in active' => r = i
        <3>1. r \in Int /\ i \in Int
            BY <1>2 DEF Rows
        <3>2. QED BY <2>3, <2>5, <3>1
    <2>7. QED BY <2>1, <2>2, <2>5, <2>6
<1>10. /\ todo' \subseteq Chunks(args) /\ active' \subseteq Chunks(args)
       /\ todo' \cap active' = {}
    BY <1>2, <1>3, <1>4, <1>7
<1>11. PlacesOK'
    BY <1>1, <1>4 DEF HeapInv, PlacesOK
<1>12. ASSUME heap' \subseteq heap \cup (Ahead \cap {Current}),
              IsFiniteSet(heap'), NeverLonger', Best(offered \ Ahead', heap')
       PROVE  HeapInv'
    <2>1. Ahead \subseteq offered \ heap
        BY <1>1 DEF HeapInv
    <2>2. heap' \subseteq offered' /\ Ahead' \subseteq offered' \ heap'
        BY <1>2, <1>4, <1>8, <1>12, <2>1
    <2>3. TypeOK'
        BY <1>2, <1>4, <1>10, <1>12, <2>2 DEF TypeOK
    <2>4. QED BY <1>4, <1>10, <1>11, <1>12, <2>2, <2>3 DEF HeapInv
<1>13. CASE SkipEos
    <2>1. Chunk \in active' /\ IsEos /\ heap' = heap
        BY <1>13 DEF SkipEos
    <2>2. Ahead \subseteq Ahead'
        BY <1>9, <2>1 DEF IsEos
    <2>3. Best(offered \ Ahead', heap)
        BY <1>2, <2>2, BestOfFewer
    <2>4. QED BY <1>2, <1>12, <2>1, <2>3 DEF TypeOK, NeverLonger
<1>14. CASE Accept
    <2>1. Chunk \in active' /\ ~IsEos /\ Keep(Current)
        BY <1>14 DEF Accept
    <2>2. Current \in Ahead
        <3>1. Idx(args, Chunk, i) \notin args.eos /\ i >= i
            BY <1>2, <2>1 DEF IsEos
        <3>2. Item(args, calls, Chunk, i) \in Coming(args, calls, i, todo, active)
            <4>1. Item(args, calls, Chunk, i) \in Candidates(args, calls)
                BY <1>2, <1>3, <3>1, CandidatesAreItems
            <4>2. \E c \in Chunks(args), r \in Rows(args) :
                      /\ Item(args, calls, Chunk, i) = Item(args, calls, c, r)
                      /\ (c \in todo /\ r >= i) \/ (c \in active /\ r > i)
                <5>1. Chunk \in Chunks(args) /\ i \in Rows(args) /\ Chunk \in todo
                    BY <1>2, <1>3
                <5>2. QED BY <3>1, <5>1
            <4>3. QED BY <4>1, <4>2 DEF Coming
        <3>3. QED BY <1>5, <3>2 DEF Current
    <2>3. Current \notin heap
        BY <1>1, <2>2 DEF HeapInv
    <2>4. /\ IsFiniteSet(heap') /\ NeverLonger'
          /\ Best(S \cup {Current}, heap')
          /\ heap' \subseteq heap \cup {Current}
        BY <1>2, <1>6, <2>1, <2>3, KeepStep
    <2>5. offered \ Ahead' \subseteq S \cup {Current}
        BY <1>9, <2>1 DEF Current
    <2>6. Best(offered \ Ahead', heap')
        BY <2>4, <2>5, BestOfFewer
    <2>7. QED BY <1>12, <2>2, <2>4, <2>6
<1>15. CASE Drop
    <2>1. Reject(Current)
        BY <1>15 DEF Drop
    <2> DEFINE T == {x \in Candidates(args, calls) :
                       \E r \in Rows(args) :
                           x = Item(args, calls, Chunk, r) /\ r >= i}
    <2>2. T \in SUBSET Candidate
        BY <1>2, CandidateType
    <2>3. \A x \in T : x.score <= Current.score
        BY <1>2, <1>3 DEF Sorted, Item, Current
    <2>4. heap' = heap /\ Best(S \cup T, heap)
        BY <1>2, <1>6, <2>1, <2>2, <2>3, RejectStep
    <2>5. offered \ Ahead' \subseteq S \cup T
        <3>1. SUFFICES ASSUME NEW x \in Ahead, x \notin Ahead' PROVE x \in T
            OBVIOUS
        <3>2. PICK r \in Rows(args) : /\ x = Item(args, calls, Chunk, r) /\ r >= i
                                      /\ Idx(args, Chunk, r) \notin args.eos
            BY <1>9, <3>1
        <3>3. x \in Candidates(args, calls)
            BY <1>3, <3>2, CandidatesAreItems
        <3>4. QED BY <3>2, <3>3
    <2>6. Best(offered \ Ahead', heap)
        BY <2>4, <2>5, BestOfFewer
    <2>7. QED BY <1>2, <1>12, <2>4, <2>6 DEF TypeOK, NeverLonger
<1>16. QED BY <1>1, <1>13, <1>14, <1>15 DEF Visit

----------------------------------------------------------------------------
(* The other steps.                                                        *)

\* A step that moves nothing but where the call is.
LEMMA CallStays ==
    ASSUME HeapInv, UNCHANGED <<heap, offered>>, Ahead' \subseteq offered \ heap,
           offered \ Ahead' \subseteq offered \ Ahead,
           TypeOK', PlacesOK', (todo \cap active = {})'
    PROVE  HeapInv'
<1>1. Best(offered \ Ahead', heap)
    BY BestOfFewer DEF HeapInv
<1>2. QED BY <1>1 DEF HeapInv, NeverLonger

LEMMA CallStep == HeapInv /\ Call => HeapInv'
<1>1. SUFFICES ASSUME HeapInv, Call PROVE HeapInv'
    OBVIOUS
<1>2. PICK a \in Arguments :
          /\ Divisible(a) /\ args' = a /\ todo' = Chunks(a)
          /\ offered' = offered \cup Candidates(a, calls)
    BY <1>1 DEF Call
<1>3. /\ i' = 0 /\ active' = {} /\ running = "no" /\ running' = "striped"
      /\ UNCHANGED <<heap, calls, list>>
    BY <1>1 DEF Call
<1>4. /\ a.chunk_size \in Int /\ a.chunk_size > 0 /\ a.scores \in Seq(Int)
      /\ Sorted(a) /\ calls \in Nat
    BY <1>1, <1>2, ArgumentAssumption, SortedAssumption
       DEF Divisible, HeapInv, TypeOK
<1>5. Candidates(a, calls) \subseteq Candidate
    BY <1>4, CandidateType
<1>6. TypeOK'
    <2>1. 0 \in Rows(a)
        BY <1>4 DEF Rows
    <2>2. QED BY <1>1, <1>2, <1>3, <1>4, <1>5, <2>1 DEF HeapInv, TypeOK
<1>7. \A x \in Candidates(a, calls) : x.call = calls
    BY ItemsAreCandidates DEF Item
<1>8. Ahead = {} /\ Ahead' = Coming(a, calls, 0, Chunks(a), {})
    BY <1>2, <1>3 DEF Ahead
<1>9. Ahead' = Candidates(a, calls)
    <2>1. Ahead' \subseteq Candidates(a, calls)
        BY <1>8 DEF Coming
    <2>2. ASSUME NEW x \in Candidates(a, calls) PROVE x \in Ahead'
        <3>1. PICK c \in Chunks(a), r \in Rows(a) : x = Item(a, calls, c, r)
            BY ItemsAreCandidates
        <3>2. r >= 0
            BY DEF Rows
        <3>3. QED BY <1>8, <3>1, <3>2 DEF Coming
    <2>3. QED BY <2>1, <2>2
<1>10. \A x \in heap : x.call < calls
    BY <1>1, <1>3 DEF HeapInv, TypeOK, PlacesOK
<1>11. Ahead' \subseteq offered' \ heap'
    BY <1>2, <1>3, <1>4, <1>7, <1>9, <1>10
<1>12. Best(offered' \ Ahead', heap')
    <2>1. Best(offered, heap)
        BY <1>1, <1>8 DEF HeapInv
    <2>2. offered' \ Ahead' \subseteq offered
        BY <1>2, <1>9
    <2>3. QED BY <1>3, <2>1, <2>2, BestOfFewer
<1>13. PlacesOK'
    <2>1. \A x \in offered' : x.call <= calls
        BY <1>1, <1>2, <1>4, <1>7 DEF HeapInv, PlacesOK
    <2>2. QED BY <1>3, <2>1 DEF PlacesOK
<1>14. NeverLonger'
    BY <1>1, <1>3 DEF HeapInv, NeverLonger
<1>15. QED BY <1>3, <1>6, <1>11, <1>12, <1>13, <1>14 DEF HeapInv

LEMMA NextRowStep == HeapInv /\ NextRow => HeapInv'
<1>1. SUFFICES ASSUME HeapInv, NextRow PROVE HeapInv'
    OBVIOUS
<1>2. /\ running = "striped" /\ todo = {} /\ i + 1 # args.chunk_size
      /\ i' = i + 1 /\ todo' = active /\ active' = {}
      /\ UNCHANGED <<heap, calls, args, list, running, offered>>
    BY <1>1 DEF NextRow, LastRow
<1>3. /\ Divisible(args) /\ args.chunk_size \in Int /\ i \in Rows(args)
      /\ i \in Nat
    BY <1>1, <1>2 DEF HeapInv, TypeOK
<1>4. i' \in Rows(args)
    BY <1>2, <1>3 DEF Rows
<1>5. TypeOK'
    BY <1>1, <1>2, <1>3, <1>4 DEF HeapInv, TypeOK
<1>6. Ahead = Coming(args, calls, i, {}, active)
      /\ Ahead' = Coming(args, calls, i + 1, active, {})
    BY <1>2 DEF Ahead
<1>7. Ahead' = Ahead
    <2>1. \A r \in Rows(args) : r >= i + 1 <=> r > i
        BY <1>3 DEF Rows
    <2>2. QED BY <1>6, <2>1 DEF Coming
<1>8. PlacesOK'
    BY <1>1, <1>2 DEF HeapInv, PlacesOK
<1>9. Ahead' \subseteq offered \ heap
    BY <1>1, <1>7 DEF HeapInv
<1>10. QED BY <1>1, <1>2, <1>5, <1>7, <1>8, <1>9, CallStays

\* Nothing is ahead of a call that returns, or of none.
LEMMA ReturnStep == HeapInv /\ (Return \/ ReturnList \/ CallInVain) => HeapInv'
<1>1. SUFFICES ASSUME HeapInv, Return \/ ReturnList \/ CallInVain PROVE HeapInv'
    OBVIOUS
<1>2. /\ running' = "no" /\ calls' = calls + 1 /\ calls \in Nat
      /\ UNCHANGED <<heap, args, i, todo, active, list, offered>>
    BY <1>1 DEF Return, ReturnList, CallInVain, HeapInv, TypeOK
<1>3. Ahead = {}
    <2>1. CASE Return
        <3>1. /\ running = "striped" /\ todo = {}
              /\ active = {} \/ i + 1 = args.chunk_size
              /\ args.chunk_size \in Int /\ i \in Nat
            BY <1>1, <2>1 DEF Return, LastRow, HeapInv, TypeOK
        <3>2. \A r \in Rows(args) : active = {} \/ ~(r > i)
            BY <3>1 DEF Rows
        <3>3. QED BY <3>1, <3>2 DEF Ahead, Coming
    <2>2. CASE ReturnList
        BY <2>2 DEF ReturnList, Ahead
    <2>3. CASE CallInVain
        BY <2>3 DEF CallInVain, Ahead
    <2>4. QED BY <1>1, <2>1, <2>2, <2>3
<1>4. Ahead' = {}
    BY <1>2 DEF Ahead
<1>5. TypeOK'
    BY <1>1, <1>2 DEF HeapInv, TypeOK
<1>6. PlacesOK'
    <2>1. \A x \in offered : x.call \in Nat /\ x.call <= calls
        BY <1>1 DEF HeapInv, TypeOK, PlacesOK, Candidate
    <2>2. QED BY <1>2, <2>1 DEF PlacesOK
<1>7. (todo \cap active = {})'
    BY <1>1, <1>2 DEF HeapInv
<1>8. QED BY <1>1, <1>2, <1>3, <1>4, <1>5, <1>6, <1>7, CallStays

LEMMA CallListStep == HeapInv /\ CallList => HeapInv'
<1>1. SUFFICES ASSUME HeapInv, CallList PROVE HeapInv'
    OBVIOUS
<1>2. PICK scores \in Lists :
          /\ list' = [k \in DOMAIN scores |-> ListItem(scores, calls, k)]
          /\ offered' = offered \cup {list'[k] : k \in DOMAIN scores}
    BY <1>1 DEF CallList
<1>3. /\ running = "no" /\ running' = "list"
      /\ UNCHANGED <<heap, calls, args, i, todo, active>>
    BY <1>1 DEF CallList
<1>4. scores \in Seq(Int) /\ calls \in Nat
    BY <1>1, ListAssumption DEF HeapInv, TypeOK
<1>5. /\ DOMAIN list' = DOMAIN scores /\ list' \in Seq(Candidate)
      /\ \A k \in DOMAIN scores :
            /\ list'[k] \in Candidate /\ list'[k].call = calls
            /\ list'[k].idx = k
    <2>1. \A k \in DOMAIN scores :
              /\ ListItem(scores, calls, k) \in Candidate
              /\ ListItem(scores, calls, k).call = calls
              /\ ListItem(scores, calls, k).idx = k
        BY <1>4 DEF ListItem, Candidate
    <2>2. QED BY <1>2, <1>4, <2>1
<1>6. Ahead = {} /\ Ahead' = {list'[k] : k \in DOMAIN scores}
    BY <1>3, <1>5 DEF Ahead
<1>7. TypeOK'
    BY <1>1, <1>2, <1>3, <1>5 DEF HeapInv, TypeOK
<1>8. \A x \in heap : x.call < calls
    BY <1>1, <1>3 DEF HeapInv, TypeOK, PlacesOK
<1>9. Ahead' \subseteq offered' \ heap'
    BY <1>2, <1>3, <1>4, <1>5, <1>6, <1>8
<1>10. Best(offered' \ Ahead', heap')
    <2>1. Best(offered, heap)
        BY <1>1, <1>6 DEF HeapInv
    <2>2. offered' \ Ahead' \subseteq offered
        BY <1>2, <1>6
    <2>3. QED BY <1>3, <2>1, <2>2, BestOfFewer
<1>11. PlacesOK'
    <2>1. \A x \in offered' : x.call <= calls
        BY <1>1, <1>2, <1>4, <1>5 DEF HeapInv, PlacesOK
    <2>2. QED BY <1>3, <1>5, <2>1 DEF PlacesOK
<1>12. NeverLonger' /\ (todo \cap active = {})'
    BY <1>1, <1>3 DEF HeapInv, NeverLonger
<1>13. QED BY <1>7, <1>9, <1>10, <1>11, <1>12 DEF HeapInv

LEMMA PushStep == HeapInv /\ Push => HeapInv'
<1>1. SUFFICES ASSUME HeapInv, Push PROVE HeapInv'
    OBVIOUS
<1> DEFINE x == Head(list)
           S == offered \ Ahead
<1>2. /\ running = "list" /\ list # <<>> /\ list' = Tail(list)
      /\ UNCHANGED <<calls, args, i, todo, active, running, offered>>
      /\ list \in Seq(Candidate)
    BY <1>1 DEF Push, HeapInv, TypeOK
<1>3. /\ 1 \in DOMAIN list /\ x = list[1] /\ x \in Candidate
      /\ list' \in Seq(Candidate)
      /\ \A k \in DOMAIN list' : k + 1 \in DOMAIN list /\ list'[k] = list[k + 1]
      /\ \A k \in DOMAIN list : k = 1 \/ (k - 1 \in DOMAIN list' /\ list'[k - 1] = list[k])
    BY <1>2
<1>4. /\ Ahead = {list[k] : k \in DOMAIN list}
      /\ Ahead' = {list'[k] : k \in DOMAIN list'}
    BY <1>2 DEF Ahead
<1>5. x \in Ahead /\ x \notin heap
    BY <1>1, <1>3, <1>4 DEF HeapInv
<1>6. \A k \in DOMAIN list : list[k].call = calls /\ list[k].idx \in Int
    <2>1. \A k \in DOMAIN list : list[k] \in Candidate
        BY <1>2
    <2>2. QED BY <1>1, <1>2, <2>1 DEF HeapInv, PlacesOK, Candidate
<1>7. \A k, l \in DOMAIN list : l < k => list[l].idx < list[k].idx
    BY <1>1, <1>2 DEF HeapInv, PlacesOK
<1>8. Ahead' \subseteq Ahead \ {x}
    <2>1. ASSUME NEW k \in DOMAIN list' PROVE list'[k] \in Ahead /\ list'[k] # x
        <3>1. 1 < k + 1
            BY <1>2, <1>3
        <3>2. x.idx < list[k + 1].idx
            BY <1>3, <1>7, <3>1
        <3>3. QED BY <1>3, <1>4, <1>6, <3>2
    <2>2. QED BY <1>4, <2>1
<1>9. Ahead \subseteq Ahead' \cup {x}
    BY <1>3, <1>4
<1>10. PlacesOK'
    <2>1. \A k \in DOMAIN list' : list'[k].call = calls
        BY <1>3, <1>6
    <2>2. \A k, l \in DOMAIN list' : l < k => list'[l].idx < list'[k].idx
        <3>1. \A k, l \in DOMAIN list' : l < k => l + 1 < k + 1
            BY <1>3
        <3>2. QED BY <1>3, <1>7, <3>1
    <2>3. QED BY <1>1, <1>2, <2>1, <2>2 DEF HeapInv, PlacesOK
<1>11. TypeOK /\ NeverLonger /\ Best(S, heap) /\ S \in SUBSET Candidate
       /\ Ahead \subseteq offered \ heap
    BY <1>1 DEF HeapInv, TypeOK
<1>12. /\ IsFiniteSet(heap') /\ NeverLonger' /\ Best(S \cup {x}, heap')
       /\ heap' \subseteq heap \cup {x} /\ (x \in heap' \/ heap' = heap)
    <2>1. CASE Keep(x)
        <3>1. x \in heap'
            BY <2>1 DEF Keep
        <3>2. QED BY <1>3, <1>5, <1>11, <2>1, <3>1, KeepStep
    <2>2. CASE Reject(x)
        <3>1. \A y \in {x} : y.score <= x.score
            BY <1>3 DEF Candidate
        <3>2. {x} \in SUBSET Candidate
            BY <1>3
        <3>3. heap' = heap /\ Best(S \cup {x}, heap)
            BY <1>3, <1>11, <2>2, <3>1, <3>2, RejectStep
        <3>4. QED BY <1>11, <3>3 DEF TypeOK, NeverLonger
    <2>3. QED BY <1>1, <2>1, <2>2 DEF Push
<1>13. Best(offered' \ Ahead', heap')
    <2>1. offered' \ Ahead' \subseteq S \cup {x}
        BY <1>2, <1>9
    <2>2. QED BY <1>12, <2>1, BestOfFewer
<1>14. heap' \subseteq offered' /\ Ahead' \subseteq offered' \ heap'
    BY <1>2, <1>5, <1>8, <1>11, <1>12 DEF TypeOK
<1>15. TypeOK'
    BY <1>2, <1>3, <1>11, <1>12, <1>14 DEF TypeOK
<1>16. (todo \cap active = {})'
    BY <1>1, <1>2 DEF HeapInv
<1>17. QED BY <1>10, <1>12, <1>13, <1>14, <1>15, <1>16 DEF HeapInv

LEMMA Start == Init => HeapInv
<1>1. SUFFICES ASSUME Init PROVE HeapInv
    OBVIOUS
<1>2. IsFiniteSet({}) /\ Cardinality({}) = 0
    BY FS_EmptySet
<1>3. /\ Divisible(None) /\ Sorted(None) /\ None.chunk_size \in Int
      /\ None.scores \in Seq(Int)
    <2>1. None.scores = <<>> /\ None.chunk_size = 1
        BY DEF None
    <2>2. Chunks(None) = {}
        BY <2>1 DEF Chunks
    <2>3. QED BY <2>1, <2>2 DEF Divisible, Sorted
<1>4. TypeOK
    BY <1>1, <1>2, <1>3 DEF Init, TypeOK
<1>5. Ahead = {}
    BY <1>1 DEF Init, Ahead
<1>6. QED BY <1>1, <1>2, <1>4, <1>5, SizeAssumption
          DEF Init, HeapInv, PlacesOK, NeverLonger, Best

----------------------------------------------------------------------------
(* The theorems.                                                           *)

\* What the runs check and nobody could enumerate: the strengthened invariant
\* holds of every step of every call.
THEOREM HeapInvariant == Spec => []HeapInv
<1>1. Init => HeapInv
    BY Start
<1>2. HeapInv /\ [Next]_vars => HeapInv'
    <2>1. SUFFICES ASSUME HeapInv, [Next]_vars PROVE HeapInv'
        OBVIOUS
    <2>2. CASE UNCHANGED vars
        BY <2>1, <2>2
           DEF vars, HeapInv, TypeOK, NeverLonger, PlacesOK, Ahead
    <2>3. QED BY <2>1, <2>2, CallStep, VisitStep, NextRowStep, ReturnStep,
                 CallListStep, PushStep DEF Next, Terminated
<1>3. QED BY <1>1, <1>2, PTL DEF Spec

\* The heap is never longer than max_size, in the middle of a call either.
THEOREM SizeIsBounded == Spec => []NeverLonger
<1>1. HeapInv => NeverLonger
    BY DEF HeapInv
<1>2. QED BY <1>1, HeapInvariant, PTL

\* After every call of push_candidates_striped, push and push_list the heap
\* holds the max_size best of all candidates ever offered.
THEOREM BestAreKept == Spec => []KeepsTheBest
<1>1. HeapInv => KeepsTheBest
    <2>1. SUFFICES ASSUME HeapInv, running = "no" PROVE heap \subseteq offered /\ Best(offered, heap)
        BY DEF KeepsTheBest
    <2>2. Ahead = {}
        BY <2>1 DEF Ahead
    <2>3. QED BY <2>1, <2>2 DEF HeapInv, TypeOK
<1>2. QED BY <1>1, HeapInvariant, PTL

=============================================================================
