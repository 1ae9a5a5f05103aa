--------------------------- MODULE SequenceFacts ---------------------------
(***************************************************************************)
(* Facts that the proofs of the other modules share.  Of loops over        *)
(* sequences: recursion over 0..n is well defined, and what the            *)
(* concatenation of a sequence is made of.  Of orders: InOrder has every   *)
(* element once, the earlier ones first.  Of lists that are cut at the     *)
(* multiples of a number: who owns the i-th element.                       *)
(***************************************************************************)
EXTENDS Integers, SequencesExt, Orders, SequenceTheorems, FiniteSetTheorems,
        WellFoundedInduction, TLAPS

\* Induction as a fact about sets: the smallest number outside of S has no
\* predecessor in S.
LEMMA Induction ==
    ASSUME NEW S, 0 \in S, \A n \in Nat : n \in S => n + 1 \in S
    PROVE  \A n \in Nat : n \in S
<1>1. SUFFICES ASSUME Nat \ S # {} PROVE FALSE
  OBVIOUS
<1>2. PICK n \in Nat \ S : \A m \in Nat \ S : <<m, n>> \notin OpToRel(<, Nat)
  BY <1>1, NatLessThanWellFounded, WFMin
<1>3. n # 0 /\ n \in Nat
  BY <1>2
<1>4. n - 1 \in Nat /\ (n - 1) + 1 = n
  BY <1>3
<1>5. n - 1 \notin S
  BY <1>2, <1>4
<1>6. <<n - 1, n>> \in OpToRel(<, Nat)
  BY <1>3, <1>4 DEF OpToRel
<1> QED BY <1>2, <1>4, <1>5, <1>6

\* Induction up to a bound.
LEMMA InductionTo ==
    ASSUME NEW N \in Nat, NEW S, 0 \in S,
           \A k \in 1..N : k - 1 \in S => k \in S
    PROVE  \A k \in 0..N : k \in S
<1> DEFINE T == {k \in Nat : k <= N => k \in S}
<1>1. 0 \in T
  OBVIOUS
<1>2. ASSUME NEW n \in Nat, n \in T PROVE n + 1 \in T
  <2>1. CASE n + 1 <= N
    <3>1. n + 1 \in 1..N /\ (n + 1) - 1 = n /\ n \in S
      BY <1>2, <2>1
    <3> QED BY <3>1
  <2> QED BY <2>1
<1>3. \A n \in Nat : n \in T
  <2> HIDE DEF T
  <2> QED BY <1>1, <1>2, Induction
<1> QED BY <1>3

\* A loop of N rounds starts with base and does F[k] in its k-th round.
Loop(N, T, base, F) == N \in Nat /\ base \in T /\ F \in [1..N -> [T -> T]]

\* g[k] is its value after the k-th round.
LoopValues(g, N, T, base, F) ==
    /\ g \in [0..N -> T]
    /\ g[0] = base
    /\ \A k \in 1..N : g[k] = F[k][g[k - 1]]

LEMMA LoopExists ==
    ASSUME NEW N, NEW T, NEW base, NEW F, Loop(N, T, base, F)
    PROVE  \E g : LoopValues(g, N, T, base, F)
<1> N \in Nat /\ base \in T /\ F \in [1..N -> [T -> T]]
  BY DEF Loop
<1> DEFINE S == {m \in 0..N : \E g \in [0..m -> T] :
                    g[0] = base /\ \A k \in 1..m : g[k] = F[k][g[k - 1]]}
<1>1. 0 \in S
  <2>1. [k \in 0..0 |-> base] \in [0..0 -> T]
    OBVIOUS
  <2>2. [k \in 0..0 |-> base][0] = base /\ 1..0 = {}
    OBVIOUS
  <2>3. \E g \in [0..0 -> T] : g[0] = base /\ \A k \in 1..0 : g[k] = F[k][g[k - 1]]
    BY <2>1, <2>2
  <2>4. 0 \in 0..N
    OBVIOUS
  <2> QED BY <2>3, <2>4
<1>2. ASSUME NEW m \in 1..N, m - 1 \in S PROVE m \in S
  <2>1. PICK g \in [0..(m - 1) -> T] :
            g[0] = base /\ \A k \in 1..(m - 1) : g[k] = F[k][g[k - 1]]
    BY <1>2
  <2> DEFINE h == [k \in 0..m |-> IF k = m THEN F[m][g[m - 1]] ELSE g[k]]
  <2>2. g[m - 1] \in T
    BY <2>1
  <2>3. F[m][g[m - 1]] \in T
    BY <2>2
  <2>4. ASSUME NEW k \in 0..m PROVE h[k] \in T
    <3>1. CASE k = m
      BY <2>3, <3>1
    <3>2. CASE k # m
      BY <2>1, <3>2
    <3> QED BY <3>1, <3>2
  <2>5. h \in [0..m -> T]
    BY <2>4
  <2>6. h[0] = base
    BY <2>1
  <2>7. ASSUME NEW k \in 1..m PROVE h[k] = F[k][h[k - 1]]
    <3>1. CASE k = m
      BY <3>1
    <3>2. CASE k # m
      <4>1. k \in 1..(m - 1) /\ k - 1 \in 0..m /\ k - 1 # m /\ k \in 0..m
        BY <3>2
      <4> QED BY <2>1, <3>2, <4>1
    <3> QED BY <3>1, <3>2
  <2> HIDE DEF h
  <2>8. \E f \in [0..m -> T] : f[0] = base /\ \A k \in 1..m : f[k] = F[k][f[k - 1]]
    BY <2>5, <2>6, <2>7
  <2>9. m \in 0..N
    OBVIOUS
  <2> QED BY <2>8, <2>9
<1>3. \A k \in 0..N : k \in S
  <2> HIDE DEF S
  <2> QED BY <1>1, <1>2, InductionTo
<1>4. N \in S
  BY <1>3
<1> QED BY <1>4 DEF LoopValues

-----------------------------------------------------------------------------
(* Concatenation *)

\* f is the concatenation of the first k sequences of ss, for every k.
Joined(f, ss, S) ==
    /\ f \in [0..Len(ss) -> Seq(S)]
    /\ f[0] = <<>>
    /\ \A k \in 1..Len(ss) : f[k] = f[k - 1] \o ss[k]

LEMMA FlattenJoins ==
    ASSUME NEW S, NEW ss \in Seq(Seq(S))
    PROVE  \E f : Joined(f, ss, S) /\ FlattenSeq(ss) = f[Len(ss)]
<1> DEFINE N == Len(ss)
          F == [k \in 1..N |-> [s \in Seq(S) |-> s \o ss[k]]]
<1>1. N \in Nat /\ \A k \in 1..N : ss[k] \in Seq(S)
  OBVIOUS
<1>2. F \in [1..N -> [Seq(S) -> Seq(S)]]
  BY <1>1, ConcatProperties
<1>3. <<>> \in Seq(S)
  BY EmptySeq
<1>4. PICK g \in [0..N -> Seq(S)] : /\ g[0] = <<>>
                                    /\ \A k \in 1..N : g[k] = F[k][g[k - 1]]
  <2>1. Loop(N, Seq(S), <<>>, F)
    BY <1>1, <1>2, <1>3 DEF Loop
  <2> HIDE DEF F, N
  <2>2. PICK g : LoopValues(g, N, Seq(S), <<>>, F)
    BY <2>1, LoopExists
  <2> QED BY <2>2 DEF LoopValues
<1>5. ASSUME NEW k \in 1..N PROVE g[k] = g[k - 1] \o ss[k]
  <2>1. k - 1 \in 0..N
    BY <1>1
  <2>2. g[k - 1] \in Seq(S)
    BY <1>4, <2>1
  <2>3. g[k] = F[k][g[k - 1]]
    BY <1>4
  <2> QED BY <2>2, <2>3
<1> HIDE DEF F
<1>6. CASE N = 0
  <2>1. ss = <<>>
    BY <1>6
  <2>2. FlattenSeq(ss) = <<>>
    BY <1>6, <2>1 DEF FlattenSeq
  <2> QED BY <1>4, <1>5, <1>6, <2>2 DEF Joined
<1>7. CASE N # 0
  <2> DEFINE f == CHOOSE f : f = [i \in 1..N |-> IF i = 1 THEN ss[i]
                                                ELSE f[i - 1] \o ss[i]]
             h == [i \in 1..N |-> g[i]]
  <2>1. h = [i \in 1..N |-> IF i = 1 THEN ss[i] ELSE h[i - 1] \o ss[i]]
    <3>1. ASSUME NEW i \in 1..N
          PROVE  h[i] = IF i = 1 THEN ss[i] ELSE h[i - 1] \o ss[i]
      <4>1. CASE i = 1
        <5>1. g[1] = <<>> \o ss[1] /\ ss[1] \in Seq(S)
          <6>1. g[i] = g[i - 1] \o ss[i] /\ ss[i] \in Seq(S)
            BY <1>1, <1>5
          <6>2. i - 1 = 0
            BY <4>1
          <6>3. g[i - 1] = <<>>
            BY <1>4, <6>2
          <6> QED BY <4>1, <6>1, <6>3
        <5> QED BY <4>1, <5>1, ConcatEmptySeq
      <4>2. CASE i # 1
        <5>1. i - 1 \in 1..N
          BY <1>1, <4>2
        <5> QED BY <1>5, <4>2, <5>1
      <4> QED BY <4>1, <4>2
    <3> QED BY <3>1
  <2>2. f = [i \in 1..N |-> IF i = 1 THEN ss[i] ELSE f[i - 1] \o ss[i]]
    <3> HIDE DEF h
    <3> QED BY <2>1
  <2>3. FlattenSeq(ss) = f[N]
    BY <1>7 DEF FlattenSeq
  <2> HIDE DEF f
  <2> DEFINE e == [k \in 0..N |-> IF k = 0 THEN <<>> ELSE f[k]]
             P == {k \in 0..N : e[k] \in Seq(S)}
  <2>4. ASSUME NEW k \in 1..N, e[k - 1] \in Seq(S)
        PROVE  e[k] = e[k - 1] \o ss[k] /\ e[k] \in Seq(S)
    <3>1. e[k] = IF k = 1 THEN ss[k] ELSE f[k - 1] \o ss[k]
      <4>1. k \in 0..N /\ k # 0
        BY <1>1
      <4>2. e[k] = f[k]
        BY <4>1
      <4>3. f[k] = IF k = 1 THEN ss[k] ELSE f[k - 1] \o ss[k]
        BY <2>2, Zenon
      <4> QED BY <4>2, <4>3
    <3>2. CASE k = 1
      BY <1>1, <3>1, <3>2, ConcatEmptySeq
    <3>3. CASE k # 1
      <4>1. k - 1 \in 1..N /\ e[k - 1] = f[k - 1]
        BY <1>1, <3>3
      <4>2. f[k - 1] \in Seq(S) /\ ss[k] \in Seq(S)
        BY <1>1, <2>4, <4>1
      <4>3. f[k - 1] \o ss[k] \in Seq(S)
        BY <4>2, ConcatProperties
      <4> QED BY <3>1, <3>3, <4>1, <4>3
    <3> QED BY <3>2, <3>3
  <2>5. 0 \in P
    BY <1>1, <1>3
  <2>6. ASSUME NEW k \in 1..N, k - 1 \in P PROVE k \in P
    <3>1. k \in 0..N
      BY <1>1
    <3>2. e[k - 1] \in Seq(S)
      BY <2>6
    <3> QED BY <2>4, <3>1, <3>2
  <2>7. \A k \in 0..N : k \in P
    <3> HIDE DEF P, e
    <3> QED BY <1>1, <2>5, <2>6, InductionTo
  <2>8. e \in [0..N -> Seq(S)] /\ e[0] = <<>>
    BY <1>1, <2>7
  <2>9. ASSUME NEW k \in 1..N PROVE e[k] = e[k - 1] \o ss[k]
    <3>1. k - 1 \in 0..N
      BY <1>1
    <3> QED BY <2>4, <2>8, <3>1
  <2>10. FlattenSeq(ss) = e[N]
    BY <1>1, <1>7, <2>3
  <2> HIDE DEF e
  <2> QED BY <2>8, <2>9, <2>10 DEF Joined
<1> QED BY <1>6, <1>7

\* The concatenation has the type of its parts.
LEMMA FlattenType ==
    ASSUME NEW S, NEW ss \in Seq(Seq(S))
    PROVE  FlattenSeq(ss) \in Seq(S)
<1>1. PICK f : Joined(f, ss, S) /\ FlattenSeq(ss) = f[Len(ss)]
  BY FlattenJoins
<1>2. Len(ss) \in 0..Len(ss)
  OBVIOUS
<1> QED BY <1>1, <1>2 DEF Joined

LEMMA FlattenEmpty == FlattenSeq(<<>>) = <<>>
BY DEF FlattenSeq

\* Two concatenations agree as far as their sequences do.
LEMMA JoinedAgree ==
    ASSUME NEW S, NEW ss \in Seq(Seq(S)), NEW tt \in Seq(Seq(S)),
           NEW f, NEW h, Joined(f, ss, S), Joined(h, tt, S),
           NEW n \in 0..Len(ss), n <= Len(tt), \A k \in 1..n : ss[k] = tt[k]
    PROVE  \A k \in 0..n : f[k] = h[k]
<1> DEFINE A == {k \in 0..n : f[k] = h[k]}
<1>1. 0 \in A
  BY DEF Joined
<1>2. ASSUME NEW k \in 1..n, k - 1 \in A PROVE k \in A
  <2>1. k \in 1..Len(ss) /\ k \in 1..Len(tt) /\ k \in 0..n
    OBVIOUS
  <2> QED BY <1>2, <2>1 DEF Joined
<1>3. \A k \in 0..n : k \in A
  <2>1. n \in Nat
    OBVIOUS
  <2> HIDE DEF A
  <2> QED BY <1>1, <1>2, <2>1, InductionTo
<1> QED BY <1>3

LEMMA FlattenAppend ==
    ASSUME NEW S, NEW ss \in Seq(Seq(S)), NEW x \in Seq(S)
    PROVE  FlattenSeq(Append(ss, x)) = FlattenSeq(ss) \o x
<1> DEFINE tt == Append(ss, x)
           n == Len(ss)
<1>1. /\ tt \in Seq(Seq(S)) /\ Len(tt) = n + 1 /\ n \in Nat
      /\ \A k \in 1..n : ss[k] = tt[k]
      /\ tt[n + 1] = x
  BY AppendProperties
<1>2. PICK f : Joined(f, ss, S) /\ FlattenSeq(ss) = f[n]
  BY FlattenJoins
<1>3. PICK h : Joined(h, tt, S) /\ FlattenSeq(tt) = h[n + 1]
  <2> HIDE DEF tt
  <2> QED BY <1>1, FlattenJoins
<1>4. n \in 0..Len(ss) /\ n <= Len(tt)
  BY <1>1
<1>5. \A k \in 0..n : f[k] = h[k]
  <2> HIDE DEF tt, n
  <2> QED BY <1>1, <1>2, <1>3, <1>4, JoinedAgree
<1>6. h[n + 1] = h[(n + 1) - 1] \o tt[n + 1]
  <2>1. n + 1 \in 1..Len(tt)
    BY <1>1
  <2>2. \A k \in 1..Len(tt) : h[k] = h[k - 1] \o tt[k]
    BY <1>3 DEF Joined
  <2> HIDE DEF tt, n
  <2> QED BY <2>1, <2>2
<1>7. (n + 1) - 1 = n /\ n \in 0..n
  BY <1>1
<1>8. h[n + 1] = f[n] \o x
  BY <1>1, <1>5, <1>6, <1>7
<1> QED BY <1>2, <1>3, <1>8

SameShape(ss, tt) ==
    Len(ss) = Len(tt) /\ \A i \in 1..Len(ss) : Len(ss[i]) = Len(tt[i])

\* u and v come from the same places of ss and tt.
PlaceByPlace(u, v, ss, tt) ==
    /\ Len(u) = Len(v)
    /\ \A t \in 1..Len(u) :
         \E i \in 1..Len(ss) : \E j \in 1..Len(ss[i]) : u[t] = ss[i][j] /\ v[t] = tt[i][j]

\* Sequences of the same lengths are concatenated place by place.
LEMMA FlattenTogether ==
    ASSUME NEW S, NEW T, NEW ss \in Seq(Seq(S)), NEW tt \in Seq(Seq(T)),
           SameShape(ss, tt)
    PROVE  PlaceByPlace(FlattenSeq(ss), FlattenSeq(tt), ss, tt)
<1> Len(ss) = Len(tt) /\ \A i \in 1..Len(ss) : Len(ss[i]) = Len(tt[i])
  BY DEF SameShape
<1>1. PICK n \in Nat : n = Len(ss) /\ n = Len(tt)
  OBVIOUS
<1>2. PICK f : Joined(f, ss, S) /\ FlattenSeq(ss) = f[n]
  BY <1>1, FlattenJoins
<1>3. PICK h : Joined(h, tt, T) /\ FlattenSeq(tt) = h[n]
  BY <1>1, FlattenJoins
<1> DEFINE Same(k) ==
             /\ Len(f[k]) = Len(h[k])
             /\ \A t \in 1..Len(f[k]) :
                  \E i \in 1..n : \E j \in 1..Len(ss[i]) :
                      f[k][t] = ss[i][j] /\ h[k][t] = tt[i][j]
           A == {k \in 0..n : Same(k)}
<1>4. 0 \in A
  <2>1. f[0] = <<>> /\ h[0] = <<>> /\ 1..0 = {} /\ 0 \in 0..n
    BY <1>1, <1>2, <1>3 DEF Joined
  <2>2. Len(f[0]) = 0 /\ Len(h[0]) = 0
    BY <2>1
  <2> QED BY <2>1, <2>2
<1>5. ASSUME NEW k \in 1..n, k - 1 \in A PROVE k \in A
  <2>1. PICK a, b : a = f[k - 1] /\ b = h[k - 1]
    OBVIOUS
  <2>2. k - 1 \in 0..n /\ k \in 0..n
    OBVIOUS
  <2>3. a \in Seq(S) /\ b \in Seq(T)
    BY <1>1, <1>2, <1>3, <2>1, <2>2 DEF Joined
  <2>4. f[k] = a \o ss[k] /\ h[k] = b \o tt[k]
    BY <1>1, <1>2, <1>3, <2>1 DEF Joined
  <2>5. ss[k] \in Seq(S) /\ tt[k] \in Seq(T) /\ Len(ss[k]) = Len(tt[k])
    BY <1>1
  <2>6. Len(a) = Len(b) /\ \A t \in 1..Len(a) : \E i \in 1..n : \E j \in 1..Len(ss[i]) :
                               a[t] = ss[i][j] /\ b[t] = tt[i][j]
    BY <1>5, <2>1
  <2> HIDE DEF A
  <2>7. /\ Len(a \o ss[k]) = Len(a) + Len(ss[k])
        /\ \A t \in 1..(Len(a) + Len(ss[k])) :
             (a \o ss[k])[t] = IF t <= Len(a) THEN a[t] ELSE ss[k][t - Len(a)]
    BY <2>3, <2>5, ConcatProperties
  <2>8. /\ Len(b \o tt[k]) = Len(a) + Len(ss[k])
        /\ \A t \in 1..(Len(a) + Len(ss[k])) :
             (b \o tt[k])[t] = IF t <= Len(a) THEN b[t] ELSE tt[k][t - Len(a)]
    <3>1. /\ Len(b \o tt[k]) = Len(b) + Len(tt[k])
          /\ \A t \in 1..(Len(b) + Len(tt[k])) :
               (b \o tt[k])[t] = IF t <= Len(b) THEN b[t] ELSE tt[k][t - Len(b)]
      BY <2>3, <2>5, ConcatProperties
    <3> QED BY <2>5, <2>6, <3>1
  <2>9. Len(a) \in Nat /\ Len(ss[k]) \in Nat
    BY <2>3, <2>5
  <2>10. ASSUME NEW t \in 1..(Len(a) + Len(ss[k]))
         PROVE  \E i \in 1..n : \E j \in 1..Len(ss[i]) :
                    (a \o ss[k])[t] = ss[i][j] /\ (b \o tt[k])[t] = tt[i][j]
    <3>1. CASE t <= Len(a)
      <4>1. t \in 1..Len(a)
        BY <2>9, <3>1
      <4>2. (a \o ss[k])[t] = a[t] /\ (b \o tt[k])[t] = b[t]
        BY <2>7, <2>8, <3>1
      <4> QED BY <2>6, <4>1, <4>2
    <3>2. CASE ~(t <= Len(a))
      <4>1. t - Len(a) \in 1..Len(ss[k])
        BY <2>9, <3>2
      <4>2. (a \o ss[k])[t] = ss[k][t - Len(a)] /\ (b \o tt[k])[t] = tt[k][t - Len(a)]
        BY <2>7, <2>8, <3>2
      <4> QED BY <4>1, <4>2
    <3> QED BY <3>1, <3>2
  <2>11. Same(k)
    BY <2>4, <2>7, <2>8, <2>10
  <2> QED BY <2>2, <2>11 DEF A
<1>6. \A k \in 0..n : k \in A
  <2> HIDE DEF A
  <2> QED BY <1>1, <1>4, <1>5, InductionTo
<1>7. Same(n)
  BY <1>6
<1>8. PlaceByPlace(f[n], h[n], ss, tt)
  BY <1>1, <1>7 DEF PlaceByPlace
<1> QED BY <1>2, <1>3, <1>8

\* What the first n sequences add up to.
SumsUp(sum, ss, n) ==
    sum[0] = 0 /\ \A k \in 1..n : sum[k] = sum[k - 1] + Len(ss[k])

\* The n-th sequence follows what the sequences before it add up to.
LEMMA FlattenPlace ==
    ASSUME NEW S, NEW ss \in Seq(Seq(S)), NEW n \in 1..Len(ss), NEW sum,
           SumsUp(sum, ss, n - 1)
    PROVE  /\ sum[n - 1] \in Nat
           /\ sum[n - 1] + Len(ss[n]) <= Len(FlattenSeq(ss))
           /\ \A j \in 1..Len(ss[n]) : FlattenSeq(ss)[sum[n - 1] + j] = ss[n][j]
<1>1. PICK N \in Nat : N = Len(ss) /\ n \in 1..N
  OBVIOUS
<1>2. PICK f : Joined(f, ss, S) /\ FlattenSeq(ss) = f[N]
  BY <1>1, FlattenJoins
<1>3. \A k \in 0..N : f[k] \in Seq(S)
  BY <1>1, <1>2 DEF Joined
<1>4. ASSUME NEW k \in 1..N
      PROVE  /\ ss[k] \in Seq(S) /\ f[k - 1] \in Seq(S) /\ k - 1 \in 0..N
             /\ Len(f[k]) = Len(f[k - 1]) + Len(ss[k])
             /\ \A j \in 1..Len(f[k - 1]) : f[k][j] = f[k - 1][j]
             /\ \A j \in 1..Len(ss[k]) : f[k][Len(f[k - 1]) + j] = ss[k][j]
  <2>1. k - 1 \in 0..N
    OBVIOUS
  <2>2. PICK a, b : a = f[k - 1] /\ b = ss[k]
    OBVIOUS
  <2>3. a \in Seq(S) /\ b \in Seq(S) /\ f[k] = a \o b
    <3>1. f[k] = f[k - 1] \o ss[k]
      BY <1>1, <1>2 DEF Joined
    <3>2. ss[k] \in Seq(S)
      BY <1>1
    <3> QED BY <1>3, <2>1, <2>2, <3>1, <3>2
  <2>4. Len(a) \in Nat /\ Len(b) \in Nat
    BY <2>3
  <2>5. /\ Len(a \o b) = Len(a) + Len(b)
        /\ \A t \in 1..(Len(a) + Len(b)) :
             (a \o b)[t] = IF t <= Len(a) THEN a[t] ELSE b[t - Len(a)]
    BY <2>3, ConcatProperties
  <2>6. \A j \in 1..Len(a) : (a \o b)[j] = a[j]
    BY <2>4, <2>5
  <2>7. ASSUME NEW j \in 1..Len(b) PROVE (a \o b)[Len(a) + j] = b[j]
    <3>1. Len(a) + j \in 1..(Len(a) + Len(b)) /\ ~(Len(a) + j <= Len(a))
          /\ (Len(a) + j) - Len(a) = j
      BY <2>4
    <3> QED BY <2>5, <3>1
  <2> QED BY <2>1, <2>2, <2>3, <2>5, <2>6, <2>7
<1>5. Len(f[n - 1]) = sum[n - 1]
  <2> DEFINE A == {k \in 0..(n - 1) : Len(f[k]) = sum[k]}
  <2>1. 0 \in A
    BY <1>1, <1>2 DEF Joined, SumsUp
  <2>2. ASSUME NEW k \in 1..(n - 1), k - 1 \in A PROVE k \in A
    <3>1. k \in 1..N /\ k \in 0..(n - 1)
      BY <1>1
    <3>2. Len(f[k]) = Len(f[k - 1]) + Len(ss[k]) /\ Len(f[k - 1]) = sum[k - 1]
      BY <1>4, <2>2, <3>1
    <3> QED BY <3>1, <3>2 DEF SumsUp
  <2>3. n - 1 \in Nat
    BY <1>1
  <2>4. \A k \in 0..(n - 1) : k \in A
    <3> HIDE DEF A
    <3> QED BY <2>1, <2>2, <2>3, InductionTo
  <2> QED BY <2>3, <2>4
<1>6. PICK off \in Nat : off = sum[n - 1] /\ off = Len(f[n - 1])
  <2>1. f[n - 1] \in Seq(S)
    BY <1>1, <1>4
  <2> QED BY <1>5, <2>1
<1>7. PICK m \in Nat : m = N - n
  <2>1. N - n \in Nat
    BY <1>1
  <2> QED BY <2>1
<1>8. PICK len \in Nat : len = Len(ss[n])
  BY <1>1, <1>4
<1> DEFINE Kept(k) == /\ off + len <= Len(f[n + k])
                      /\ \A j \in 1..len : f[n + k][off + j] = ss[n][j]
           B == {k \in 0..m : Kept(k)}
<1>9. 0 \in B
  <2>1. /\ Len(f[n]) = off + len
        /\ \A j \in 1..len : f[n][off + j] = ss[n][j]
    <3>1. /\ Len(f[n]) = Len(f[n - 1]) + Len(ss[n])
          /\ \A j \in 1..Len(ss[n]) : f[n][Len(f[n - 1]) + j] = ss[n][j]
      BY <1>1, <1>4
    <3> QED BY <1>6, <1>8, <3>1
  <2>2. n + 0 = n /\ 0 \in 0..m
    BY <1>1
  <2>3. off + len <= off + len
    BY <1>6, <1>8
  <2> QED BY <2>1, <2>2, <2>3
<1>10. ASSUME NEW k \in 1..m, k - 1 \in B PROVE k \in B
  <2>1. PICK l \in 1..N : l = n + k
    BY <1>1, <1>7
  <2>2. l - 1 = n + (k - 1) /\ k \in 0..m
    BY <1>1, <2>1
  <2>3. /\ off + len <= Len(f[l - 1])
        /\ \A j \in 1..len : f[l - 1][off + j] = ss[n][j]
    BY <1>10, <2>2
  <2> HIDE DEF B
  <2>4. Len(f[l]) = Len(f[l - 1]) + Len(ss[l]) /\ Len(ss[l]) \in Nat
        /\ Len(f[l - 1]) \in Nat
        /\ \A j \in 1..Len(f[l - 1]) : f[l][j] = f[l - 1][j]
    <3>1. ss[l] \in Seq(S) /\ f[l - 1] \in Seq(S)
      BY <1>4
    <3>2. Len(ss[l]) \in Nat /\ Len(f[l - 1]) \in Nat
      BY <3>1
    <3>3. Len(f[l]) = Len(f[l - 1]) + Len(ss[l])
      BY <1>4
    <3>4. \A j \in 1..Len(f[l - 1]) : f[l][j] = f[l - 1][j]
      BY <1>4
    <3> QED BY <3>2, <3>3, <3>4
  <2>8. PICK x \in Nat, y \in Nat : x = Len(f[l - 1]) /\ y = Len(ss[l])
    BY <2>4
  <2>9. off + len <= x
    BY <2>3, <2>8
  <2>5. off + len <= Len(f[l])
    <3>1. off + len <= x + y
      BY <2>9
    <3> QED BY <2>4, <2>8, <3>1
  <2>6. ASSUME NEW j \in 1..len PROVE f[l][off + j] = ss[n][j]
    <3>1. off + j \in 1..x
      BY <2>9
    <3>2. off + j \in 1..Len(f[l - 1])
      BY <2>8, <3>1
    <3> QED BY <2>3, <2>4, <3>2
  <2>7. Kept(k)
    BY <2>1, <2>5, <2>6
  <2> QED BY <2>2, <2>7 DEF B
<1>11. \A k \in 0..m : k \in B
  <2> HIDE DEF B
  <2> QED BY <1>7, <1>9, <1>10, InductionTo
<1>12. Kept(m) /\ n + m = N
  <2>1. m \in 0..m /\ n + m = N
    BY <1>1, <1>7
  <2> QED BY <1>11, <2>1
<1> QED BY <1>2, <1>6, <1>8, <1>12

\* A stretch of a sequence is the sequence that agrees with it.
LEMMA CutIs ==
    ASSUME NEW S, NEW s \in Seq(S), NEW t \in Seq(S), NEW a \in Nat,
           a + Len(t) <= Len(s), \A j \in 1..Len(t) : s[a + j] = t[j]
    PROVE  SubSeq(s, a + 1, a + Len(t)) = t
<1>1. PICK m \in Nat : m = Len(t)
  OBVIOUS
<1>2. PICK l \in Nat : l = Len(s) /\ DOMAIN s = 1..l
  OBVIOUS
<1>3. PICK u : u = SubSeq(s, a + 1, a + m)
  OBVIOUS
<1>4. u = [j \in 1..m |-> s[a + j]]
  <2>1. u = [j \in 1..((a + m) - (a + 1) + 1) |-> s[(a + 1) + j - 1]]
    BY <1>3
  <2>2. (a + m) - (a + 1) + 1 = m /\ \A j \in 1..m : (a + 1) + j - 1 = a + j
    BY <1>1
  <2> QED BY <2>1, <2>2
<1>5. t = [j \in 1..m |-> t[j]]
  BY <1>1
<1> QED BY <1>1, <1>3, <1>4, <1>5

LEMMA PrefixIs ==
    ASSUME NEW S, NEW s \in Seq(S), NEW n \in 0..Len(s)
    PROVE  /\ SubSeq(s, 1, n) \in Seq(S)
           /\ SubSeq(s, 1, n) = [k \in 1..n |-> s[k]]
<1>1. SubSeq(s, 1, n) = [k \in 1..(n - 1 + 1) |-> s[1 + k - 1]]
  OBVIOUS
<1>2. n - 1 + 1 = n /\ \A k \in 1..n : 1 + k - 1 = k
  OBVIOUS
<1>3. SubSeq(s, 1, n) = [k \in 1..n |-> s[k]]
  BY <1>1, <1>2
<1>4. \A k \in 1..n : s[k] \in S
  OBVIOUS
<1> QED BY <1>3, <1>4

\* s is cut into the sequences of ss, the n-th one behind place p[n].
CutAt(s, p, ss) ==
    /\ \A n \in 1..Len(ss) :
          /\ p[n] \in Nat /\ p[n + 1] = p[n] + Len(ss[n]) /\ p[n + 1] <= Len(s)
          /\ \A j \in 1..Len(ss[n]) : s[p[n] + j] = ss[n][j]
    /\ \A t \in 1..Len(s) :
          \E n \in 1..Len(ss) : \E j \in 1..Len(ss[n]) : t = p[n] + j

\* A concatenation is, at the lengths of what is concatenated before.
LEMMA FlattenCut ==
    ASSUME NEW S, NEW ss \in Seq(Seq(S)), NEW p,
           \A k \in 0..Len(ss) : p[k + 1] = Len(FlattenSeq(SubSeq(ss, 1, k)))
    PROVE  CutAt(FlattenSeq(ss), p, ss)
<1>1. PICK N \in Nat : N = Len(ss)
  OBVIOUS
<1>2. PICK f : Joined(f, ss, S) /\ FlattenSeq(ss) = f[N]
  BY <1>1, FlattenJoins
<1>3. ASSUME NEW k \in 0..N PROVE FlattenSeq(SubSeq(ss, 1, k)) = f[k]
  <2>1. PICK tt : tt = SubSeq(ss, 1, k)
    OBVIOUS
  <2>2. tt \in Seq(Seq(S)) /\ tt = [j \in 1..k |-> ss[j]]
    BY <1>1, <2>1, PrefixIs
  <2>3. Len(tt) = k /\ k \in Nat /\ \A j \in 1..k : ss[j] = tt[j]
    BY <2>2
  <2>4. PICK h : Joined(h, tt, S) /\ FlattenSeq(tt) = h[k]
    <3>1. PICK g : Joined(g, tt, S) /\ FlattenSeq(tt) = g[Len(tt)]
      BY <2>2, FlattenJoins
    <3> QED BY <2>3, <3>1
  <2>5. k \in 0..Len(ss) /\ k <= Len(tt)
    BY <1>1, <2>3
  <2>6. \A j \in 0..k : f[j] = h[j]
    <3>1. /\ ss \in Seq(Seq(S)) /\ tt \in Seq(Seq(S))
          /\ Joined(f, ss, S) /\ Joined(h, tt, S)
          /\ \A j \in 1..k : ss[j] = tt[j]
      BY <1>2, <2>2, <2>3, <2>4
    <3>2. \A n \in 0..Len(ss) : n <= Len(tt) /\ (\A j \in 1..n : ss[j] = tt[j])
                                 => \A j \in 0..n : f[j] = h[j]
      BY <3>1, JoinedAgree
    <3> QED BY <2>5, <3>1, <3>2
  <2> QED BY <2>1, <2>3, <2>4, <2>6
<1>4. \A k \in 0..N : p[k + 1] = Len(f[k]) /\ f[k] \in Seq(S)
  BY <1>1, <1>2, <1>3 DEF Joined
<1>5. ASSUME NEW n \in 1..N
      PROVE  /\ n \in 0..N /\ n - 1 \in 0..N /\ (n - 1) + 1 = n
             /\ f[n] = f[n - 1] \o ss[n] /\ ss[n] \in Seq(S)
             /\ Len(f[n]) = Len(f[n - 1]) + Len(ss[n])
  <2>1. n \in 0..N /\ n - 1 \in 0..N /\ (n - 1) + 1 = n
    OBVIOUS
  <2>2. f[n] = f[n - 1] \o ss[n] /\ ss[n] \in Seq(S)
    <3>1. n \in 1..Len(ss)
      BY <1>1
    <3>2. ss[n] \in Seq(S)
      BY <3>1
    <3> QED BY <1>2, <3>1, <3>2 DEF Joined
  <2>3. f[n - 1] \in Seq(S)
    BY <1>4, <2>1
  <2> QED BY <2>1, <2>2, <2>3
<1>6. ASSUME NEW n \in 1..N
      PROVE  /\ p[n] \in Nat /\ p[n + 1] = p[n] + Len(ss[n]) /\ p[n + 1] <= Len(FlattenSeq(ss))
             /\ \A j \in 1..Len(ss[n]) : FlattenSeq(ss)[p[n] + j] = ss[n][j]
  <2> DEFINE sum == [k \in 0..N |-> Len(f[k])]
  <2>1. p[n] = Len(f[n - 1]) /\ p[n + 1] = Len(f[n]) /\ p[n] \in Nat
    <3> HIDE DEF sum
    <3>1. p[(n - 1) + 1] = Len(f[n - 1]) /\ f[n - 1] \in Seq(S) /\ p[n + 1] = Len(f[n])
      BY <1>4, <1>5
    <3>2. p[n] = Len(f[n - 1])
      BY <1>5, <3>1
    <3>3. Len(f[n - 1]) \in Nat
      BY <3>1
    <3> QED BY <3>1, <3>2, <3>3
  <2>2. sum[0] = 0
    <3>1. f[0] = <<>> /\ 0 \in 0..N
      BY <1>2 DEF Joined
    <3> QED BY <3>1
  <2>3. ASSUME NEW k \in 1..(n - 1) PROVE sum[k] = sum[k - 1] + Len(ss[k])
    <3>1. k \in 1..N
      OBVIOUS
    <3> QED BY <1>5, <3>1
  <2>4. sum[n - 1] = p[n]
    BY <1>5, <2>1
  <2> HIDE DEF sum
  <2>5. /\ sum[n - 1] + Len(ss[n]) <= Len(FlattenSeq(ss))
        /\ \A j \in 1..Len(ss[n]) : FlattenSeq(ss)[sum[n - 1] + j] = ss[n][j]
    <3>1. n \in 1..Len(ss)
      BY <1>1
    <3>2. SumsUp(sum, ss, n - 1)
      BY <2>2, <2>3 DEF SumsUp
    <3> QED BY <3>1, <3>2, FlattenPlace
  <2> QED BY <1>5, <2>1, <2>4, <2>5
<1> DEFINE A == {k \in 0..N : \A t \in 1..Len(f[k]) :
                    \E n \in 1..N : \E j \in 1..Len(ss[n]) : t = p[n] + j}
<1>7. 0 \in A
  <2>1. Len(f[0]) = 0 /\ 0 \in 0..N
    BY <1>2 DEF Joined
  <2> QED BY <2>1
<1>8. ASSUME NEW k \in 1..N, k - 1 \in A PROVE k \in A
  <2> SUFFICES ASSUME NEW t \in 1..Len(f[k])
               PROVE  \E n \in 1..N : \E j \in 1..Len(ss[n]) : t = p[n] + j
    OBVIOUS
  <2>1. PICK l \in Nat, m \in Nat : l = Len(f[k - 1]) /\ m = Len(ss[k]) /\ Len(f[k]) = l + m
    <3> HIDE DEF A
    <3>1. Len(f[k - 1]) \in Nat
      <4>1. f[k - 1] \in Seq(S)
        BY <1>4, <1>5
      <4> QED BY <4>1
    <3>2. Len(ss[k]) \in Nat
      <4>1. ss[k] \in Seq(S)
        BY <1>5
      <4> QED BY <4>1
    <3> QED BY <1>5, <3>1, <3>2
  <2>2. CASE t <= l
    BY <1>8, <2>1, <2>2
  <2>3. CASE t > l
    <3>1. t - l \in 1..Len(ss[k])
      <4>1. t \in 1..(l + m) /\ t > l
        BY <2>1, <2>3
      <4>2. t - l \in 1..m
        BY <4>1
      <4> QED BY <2>1, <4>2
    <3>2. p[k] = l
      BY <1>4, <1>5, <2>1
    <3>3. t = p[k] + (t - l)
      BY <2>1, <3>2
    <3> QED BY <3>1, <3>3
  <2> QED BY <2>1, <2>2, <2>3
<1>9. \A t \in 1..Len(FlattenSeq(ss)) :
          \E n \in 1..N : \E j \in 1..Len(ss[n]) : t = p[n] + j
  <2>1. \A k \in 0..N : k \in A
    <3> HIDE DEF A
    <3> QED BY <1>7, <1>8, InductionTo
  <2>2. N \in A
    <3> HIDE DEF A
    <3> QED BY <2>1
  <2> QED BY <1>2, <2>2
<1> QED BY <1>1, <1>6, <1>9 DEF CutAt

-----------------------------------------------------------------------------
(* Orders *)

StrictOrder(S, R) ==
    /\ \A x \in S : <<x, x>> \notin R
    /\ \A x, y, z \in S : <<x, y>> \in R /\ <<y, z>> \in R => <<x, z>> \in R
    /\ \A x, y \in S : x # y => <<x, y>> \in R \/ <<y, x>> \in R

Below(S, R, x) == {y \in S : <<y, x>> \in R}

\* What comes before x is finite, x itself is not among it.
LEMMA BelowIs ==
    ASSUME NEW S, IsFiniteSet(S), NEW R, StrictOrder(S, R), NEW x \in S
    PROVE  /\ IsFiniteSet(Below(S, R, x))
           /\ Cardinality(Below(S, R, x)) \in 0..(Cardinality(S) - 1)
           /\ Cardinality(S) \in Nat
<1>1. PICK n \in Nat : n = Cardinality(S)
  BY FS_CardinalityType
<1>2. IsFiniteSet(S \ {x}) /\ Cardinality(S \ {x}) = n - 1
  BY <1>1, FS_RemoveElement
<1>3. Below(S, R, x) \in SUBSET (S \ {x})
  BY DEF Below, StrictOrder
<1>4. IsFiniteSet(Below(S, R, x)) /\ Cardinality(Below(S, R, x)) <= n - 1
  BY <1>2, <1>3, FS_Subset
<1>5. Cardinality(Below(S, R, x)) \in Nat
  BY <1>4, FS_CardinalityType
<1> QED BY <1>1, <1>4, <1>5

LEMMA BelowGrows ==
    ASSUME NEW S, IsFiniteSet(S), NEW R, StrictOrder(S, R), NEW x \in S, NEW y \in S,
           <<x, y>> \in R
    PROVE  Cardinality(Below(S, R, x)) < Cardinality(Below(S, R, y))
<1>1. PICK m \in Nat, n \in Nat :
          m = Cardinality(Below(S, R, x)) /\ n = Cardinality(Below(S, R, y))
  BY BelowIs
<1>2. x \notin Below(S, R, x)
  BY DEF Below, StrictOrder
<1>3. Cardinality(Below(S, R, x) \cup {x}) = m + 1
  BY <1>1, <1>2, BelowIs, FS_AddElement
<1>4. Below(S, R, x) \cup {x} \in SUBSET Below(S, R, y)
  BY DEF Below, StrictOrder
<1>5. Cardinality(Below(S, R, x) \cup {x}) <= n
  BY <1>1, <1>4, BelowIs, FS_Subset
<1> QED BY <1>1, <1>3, <1>5

\* A sequence that has every element of S once, the earlier ones first.
Ordered(s, S, R) ==
    /\ s \in [1..Cardinality(S) -> S]
    /\ \A x \in S : \E k \in 1..Cardinality(S) : s[k] = x
    /\ \A j, k \in 1..Cardinality(S) : s[j] = s[k] => j = k
    /\ \A j, k \in 1..Cardinality(S) : j < k => <<s[j], s[k]>> \in R

\* InOrder is one.
LEMMA InOrderIs ==
    ASSUME NEW S, IsFiniteSet(S), NEW R, StrictOrder(S, R)
    PROVE  Ordered(InOrder(S, R), S, R)
<1>1. PICK n \in Nat : n = Cardinality(S)
  BY FS_CardinalityType
<1> DEFINE rank == [x \in S |-> 1 + Cardinality(Below(S, R, x))]
<1>2. rank \in [S -> 1..n]
  <2>1. ASSUME NEW x \in S PROVE 1 + Cardinality(Below(S, R, x)) \in 1..n
    <3>1. PICK m \in Nat : m = Cardinality(Below(S, R, x)) /\ m <= n - 1
      BY <1>1, BelowIs
    <3> QED BY <3>1
  <2> QED BY <2>1
<1>3. \A x, y \in S : x # y => rank[x] # rank[y]
  <2> SUFFICES ASSUME NEW x \in S, NEW y \in S, <<x, y>> \in R PROVE rank[x] # rank[y]
    BY DEF StrictOrder
  <2>1. PICK i \in Nat, j \in Nat :
            i = Cardinality(Below(S, R, x)) /\ j = Cardinality(Below(S, R, y))
    BY BelowIs
  <2>2. i < j
    BY <2>1, BelowGrows
  <2> QED BY <2>1, <2>2
<1>4. \A k \in 1..n : \E x \in S : rank[x] = k
  <2>1. rank \in Injection(S, 1..n)
    BY <1>2, <1>3 DEF Injection, IsInjective
  <2>2. IsFiniteSet(1..n) /\ Cardinality(1..n) = n
    BY FS_Interval
  <2>3. rank \in Surjection(S, 1..n)
    <3> HIDE DEF rank
    <3> QED BY <1>1, <2>1, <2>2, FS_Injection
  <2> QED BY <2>3 DEF Surjection
<1>5. PICK s : s = InOrder(S, R)
  OBVIOUS
<1>6. s = [k \in 1..n |-> CHOOSE x \in S : Cardinality(Below(S, R, x)) = k - 1]
  BY <1>1, <1>5 DEF InOrder, Below
<1>7. ASSUME NEW k \in 1..n
      PROVE  s[k] \in S /\ Cardinality(Below(S, R, s[k])) = k - 1
  <2>1. PICK x \in S : rank[x] = k
    BY <1>4
  <2>2. PICK m \in Nat : m = Cardinality(Below(S, R, x))
    BY BelowIs
  <2>3. m = k - 1
    BY <2>1, <2>2
  <2>4. \E y \in S : Cardinality(Below(S, R, y)) = k - 1
    BY <2>2, <2>3
  <2> QED BY <1>6, <2>4
<1>8. \A j, k \in 1..n : s[j] = s[k] => j = k
  BY <1>7
<1>9. \A x \in S : \E k \in 1..n : s[k] = x
  <2> SUFFICES ASSUME NEW x \in S PROVE \E k \in 1..n : s[k] = x
    OBVIOUS
  <2>1. PICK k \in 1..n : rank[x] = k
    BY <1>2
  <2>2. PICK m \in Nat : m = Cardinality(Below(S, R, s[k])) /\ m = k - 1
    BY <1>7
  <2>3. rank[s[k]] = k
    BY <1>7, <2>2
  <2>4. s[k] = x
    <3>1. s[k] \in S
      BY <1>7
    <3> HIDE DEF rank
    <3> QED BY <1>3, <2>1, <2>3, <3>1
  <2> QED BY <2>4
<1>10. ASSUME NEW j \in 1..n, NEW k \in 1..n, j < k PROVE <<s[j], s[k]>> \in R
  <2>1. s[j] # s[k]
    BY <1>8, <1>10
  <2>2. ASSUME <<s[k], s[j]>> \in R PROVE FALSE
    <3>1. Cardinality(Below(S, R, s[k])) < Cardinality(Below(S, R, s[j]))
      BY <1>7, <2>2, BelowGrows
    <3>2. k - 1 < j - 1
      BY <1>7, <3>1
    <3> QED BY <1>10, <3>2
  <2> QED BY <1>7, <2>1, <2>2 DEF StrictOrder
<1>11. s \in [1..n -> S]
  BY <1>6, <1>7
<1> QED BY <1>1, <1>5, <1>8, <1>9, <1>10, <1>11 DEF Ordered

-----------------------------------------------------------------------------
(* Lists cut at the multiples of d *)

\* The products that places are made of.
LEMMA Steps ==
    ASSUME NEW d \in Nat, NEW b \in Nat \ {0}
    PROVE  /\ b * d \in Nat /\ (b - 1) * d \in Nat
           /\ b * d = (b - 1) * d + d
  OBVIOUS

LEMMA Times ==
    ASSUME NEW a \in Nat, NEW x \in Int, NEW y \in Int, x <= y
    PROVE  a * x <= a * y
<1>1. PICK z \in Nat : y = x + z
  <2>1. y - x \in Nat /\ y = x + (y - x)
    OBVIOUS
  <2> QED BY <2>1
<1>2. a * y = a * x + a * z /\ a * z \in Nat
  BY <1>1
<1>3. PICK p \in Int : p = a * x
  OBVIOUS
<1>4. PICK q \in Nat : q = a * z
  BY <1>2
<1> QED BY <1>2, <1>3, <1>4

LEMMA OneMore ==
    ASSUME NEW a \in Nat, NEW x \in Int, x <= 0
    PROVE  /\ (a + 1) * x = a * x + x /\ (a + 1) * x <= x /\ (a + 1) * x <= a * x
           /\ a * x \in Int
<1>1. PICK p \in Int : p = a * x
  OBVIOUS
<1>2. p <= 0
  <2>1. a * x <= a * 0
    BY Times
  <2> QED BY <1>1, <2>1
<1>3. (a + 1) * x = a * x + x
  OBVIOUS
<1> QED BY <1>1, <1>2, <1>3

LEMMA Below2 ==
    ASSUME NEW d \in Nat, NEW b \in Nat, NEW c \in Nat, b <= c
    PROVE  b * d <= c * d
<1>1. PICK e \in Nat : c = b + e
  <2>1. c - b \in Nat /\ c = b + (c - b)
    OBVIOUS
  <2> QED BY <2>1
<1>2. c * d = b * d + e * d /\ e * d \in Nat
  BY <1>1
<1>3. b * d \in Nat /\ c * d \in Nat
  OBVIOUS
<1> QED BY <1>2, <1>3

LEMMA Quotient ==
    ASSUME NEW d \in Nat \ {0}, NEW q \in Nat, NEW r \in 0..(d - 1), NEW n \in Nat,
           n = q * d + r
    PROVE  n \div d = q /\ n % d = r
<1>1. PICK x \in Nat : x = n \div d
  OBVIOUS
<1>2. n = d * x + (n % d) /\ n % d \in 0..(d - 1)
  BY <1>1
<1>3. PICK y \in Nat : y = n % d /\ y < d
  BY <1>2
<1>4. d * x + y = d * q + r
  BY <1>2, <1>3
<1>5. x = q
  <2>1. CASE x < q
    <3>1. PICK e \in Nat : q = x + 1 + e
      <4>1. q - x - 1 \in Nat /\ q = x + 1 + (q - x - 1)
        BY <2>1
      <4> QED BY <4>1
    <3>2. d * q = d * x + d + d * e /\ d * e \in Nat /\ d * x \in Nat
      BY <3>1
    <3> QED BY <1>3, <1>4, <3>2
  <2>2. CASE x > q
    <3>1. PICK e \in Nat : x = q + 1 + e
      <4>1. x - q - 1 \in Nat /\ x = q + 1 + (x - q - 1)
        BY <2>2
      <4> QED BY <4>1
    <3>2. d * x = d * q + d + d * e /\ d * e \in Nat /\ d * q \in Nat
      BY <3>1
    <3> QED BY <1>3, <1>4, <3>2
  <2> QED BY <2>1, <2>2
<1>6. y = r
  <2>1. d * x \in Nat /\ d * x = d * q
    BY <1>5
  <2>2. PICK z \in Nat : z = d * x
    BY <2>1
  <2>3. z + y = z + r
    BY <1>4, <2>1, <2>2
  <2> QED BY <2>3
<1> QED BY <1>1, <1>3, <1>5, <1>6

\* The sequences of a list are all d long: it is cut at the multiples of d.
EvenlyCut(s, ss, d) ==
    /\ Len(s) = Len(ss) * d
    /\ \A b \in 1..Len(ss) : \A k \in 1..d : s[(b - 1) * d + k] = ss[b][k]

LEMMA FlattenEven ==
    ASSUME NEW S, NEW ss \in Seq(Seq(S)), NEW d \in Nat,
           \A b \in 1..Len(ss) : Len(ss[b]) = d
    PROVE  EvenlyCut(FlattenSeq(ss), ss, d)
<1>1. PICK f : Joined(f, ss, S) /\ FlattenSeq(ss) = f[Len(ss)]
  BY FlattenJoins
<1>2. PICK N \in Nat : N = Len(ss)
  OBVIOUS
<1>3. \A k \in 1..N : ss[k] \in Seq(S) /\ Len(ss[k]) = d
  BY <1>2
<1> DEFINE Filled(n) == \A b \in 1..n : \A k \in 1..d : f[n][(b - 1) * d + k] = ss[b][k]
           A == {n \in 0..N : Len(f[n]) = n * d /\ Filled(n)}
<1>4. 0 \in A
  BY <1>1, <1>2 DEF Joined
<1>5. ASSUME NEW n \in 1..N, n - 1 \in A PROVE n \in A
  <2>1. n - 1 \in 0..N /\ n \in 0..N
    BY <1>2
  <2>2. f \in [0..N -> Seq(S)] /\ f[n] = f[n - 1] \o ss[n]
    BY <1>1, <1>2 DEF Joined
  <2>3. f[n - 1] \in Seq(S) /\ ss[n] \in Seq(S) /\ Len(ss[n]) = d
    BY <1>3, <2>1, <2>2
  <2>4. PICK x \in Nat : x = (n - 1) * d /\ x = Len(f[n - 1])
    BY <1>5, <2>3
  <2>5. n * d = x + d
    BY <2>4, Steps
  <2>6. /\ Len(f[n]) = x + d
        /\ \A i \in 1..x : f[n][i] = f[n - 1][i]
        /\ \A k \in 1..d : f[n][x + k] = ss[n][k]
    <3>1. PICK u \in Seq(S), v \in Seq(S) : u = f[n - 1] /\ v = ss[n]
      BY <2>3
    <3>2. Len(u) = x /\ Len(v) = d /\ f[n] = u \o v
      BY <2>2, <2>3, <2>4, <3>1
    <3>3. /\ Len(f[n]) = x + d
          /\ \A i \in 1..(x + d) : f[n][i] = IF i <= x THEN u[i] ELSE v[i - x]
      <4>1. /\ Len(u \o v) = Len(u) + Len(v)
            /\ \A i \in 1..(Len(u) + Len(v)) :
                  (u \o v)[i] = IF i <= Len(u) THEN u[i] ELSE v[i - Len(u)]
        BY ConcatProperties
      <4> QED BY <3>2, <4>1
    <3>4. \A i \in 1..x : f[n][i] = u[i]
      BY <3>3
    <3>5. ASSUME NEW k \in 1..d PROVE f[n][x + k] = v[k]
      <4>1. x + k \in 1..(x + d) /\ ~(x + k <= x) /\ (x + k) - x = k
        OBVIOUS
      <4> QED BY <3>3, <4>1
    <3> QED BY <3>1, <3>3, <3>4, <3>5
  <2>7. ASSUME NEW b \in 1..n, NEW k \in 1..d PROVE f[n][(b - 1) * d + k] = ss[b][k]
    <3>1. CASE b = n
      BY <2>4, <2>6, <3>1
    <3>2. CASE b # n
      <4>1. b \in 1..(n - 1) /\ b \in Nat \ {0} /\ n - 1 \in Nat /\ b <= n - 1
        BY <3>2
      <4>2. PICK y \in Nat : y = (b - 1) * d /\ b * d = y + d
        BY <4>1, Steps
      <4>3. b * d <= (n - 1) * d
        BY <4>1, Below2
      <4>4. y + k \in 1..x
        <5>1. PICK z \in Nat : z = b * d /\ z = y + d
          BY <4>2
        <5>2. z <= x
          BY <2>4, <4>3, <5>1
        <5> QED BY <5>1, <5>2
      <4>5. f[n - 1][(b - 1) * d + k] = ss[b][k]
        BY <1>5, <4>1
      <4> QED BY <2>6, <4>2, <4>4, <4>5
    <3> QED BY <3>1, <3>2
  <2> QED BY <2>1, <2>5, <2>6, <2>7
<1>6. N \in A
  <2>1. \A k \in 0..N : k \in A
    <3> HIDE DEF A
    <3> QED BY <1>4, <1>5, InductionTo
  <2> HIDE DEF A
  <2> QED BY <2>1
<1> QED BY <1>1, <1>2, <1>6 DEF EvenlyCut

\* The place of the k-th element of the b-th sequence, and back.
PlaceAt(d, b, k) == (b - 1) * d + k
OwnerAt(d, i) == 1 + (i - 1) \div d
RankAt(d, i) == i - (OwnerAt(d, i) - 1) * d

LEMMA PlaceAtIs ==
    ASSUME NEW d \in Nat \ {0}, NEW B \in Nat, NEW b \in 1..B, NEW k \in 1..d
    PROVE  /\ PlaceAt(d, b, k) \in 1..(B * d)
           /\ OwnerAt(d, PlaceAt(d, b, k)) = b
           /\ RankAt(d, PlaceAt(d, b, k)) = k
<1>1. PICK x \in Nat : x = (b - 1) * d /\ b * d = x + d
  BY Steps
<1>2. PICK y \in Nat : y = B * d
  OBVIOUS
<1>3. x + d <= y
  BY <1>1, <1>2, Below2
<1>4. PlaceAt(d, b, k) = x + k
  BY <1>1 DEF PlaceAt
<1>5. x + k \in 1..y
  BY <1>3
<1>6. PICK q \in Nat : q = b - 1
  OBVIOUS
<1>7. PICK r \in 0..(d - 1) : r = k - 1
  OBVIOUS
<1>8. PICK n \in Nat : n = x + r
  OBVIOUS
<1>9. n \div d = q
  <2>1. n = q * d + r
    BY <1>1, <1>6, <1>8
  <2> QED BY <2>1, Quotient
<1>10. PlaceAt(d, b, k) - 1 = n
  BY <1>4, <1>7, <1>8
<1>11. OwnerAt(d, PlaceAt(d, b, k)) = 1 + q
  BY <1>9, <1>10 DEF OwnerAt
<1>12. RankAt(d, PlaceAt(d, b, k)) = k
  <2>1. (1 + q) - 1 = q
    OBVIOUS
  <2>2. RankAt(d, PlaceAt(d, b, k)) = PlaceAt(d, b, k) - q * d
    BY <1>11, <2>1 DEF RankAt
  <2>3. q * d = x
    BY <1>1, <1>6
  <2> QED BY <1>4, <2>2, <2>3
<1> QED BY <1>2, <1>4, <1>5, <1>6, <1>11, <1>12

LEMMA PlaceAtOf ==
    ASSUME NEW d \in Nat \ {0}, NEW B \in Nat, NEW i \in 1..(B * d)
    PROVE  /\ OwnerAt(d, i) \in 1..B /\ RankAt(d, i) \in 1..d
           /\ PlaceAt(d, OwnerAt(d, i), RankAt(d, i)) = i
<1>1. PICK y \in Nat : y = B * d
  OBVIOUS
<1>2. PICK j \in Nat : j = i - 1 /\ j < y /\ i = j + 1
  BY <1>1
<1>3. PICK q \in Nat : q = j \div d
  OBVIOUS
<1>4. j = d * q + (j % d) /\ j % d \in 0..(d - 1)
  BY <1>3
<1>5. PICK r \in Nat : r = j % d /\ r <= d - 1
  BY <1>4
<1>6. PICK x \in Nat : x = q * d /\ j = x + r
  <2>1. q * d \in Nat /\ j = q * d + r
    BY <1>4, <1>5
  <2> QED BY <2>1
<1>7. q < B
  <2> SUFFICES ASSUME B <= q PROVE FALSE
    OBVIOUS
  <2>1. y <= x
    BY <1>1, <1>6, Below2
  <2> QED BY <1>2, <1>6, <2>1
<1>8. OwnerAt(d, i) = 1 + q /\ (1 + q) - 1 = q
  BY <1>2, <1>3 DEF OwnerAt
<1>9. RankAt(d, i) = 1 + r
  <2>1. RankAt(d, i) = i - x
    BY <1>6, <1>8 DEF RankAt
  <2> QED BY <1>2, <1>6, <2>1
<1>10. PlaceAt(d, 1 + q, 1 + r) = i
  <2>1. PlaceAt(d, 1 + q, 1 + r) = x + (1 + r)
    BY <1>6, <1>8 DEF PlaceAt
  <2> QED BY <1>2, <1>6, <2>1
<1> QED BY <1>5, <1>7, <1>8, <1>9, <1>10

===============================================================================
