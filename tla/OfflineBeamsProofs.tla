-------------------------- MODULE OfflineBeamsProofs --------------------------
(***************************************************************************)
(* Theorems about the offline beam search: what a beam is charged is what  *)
(* the model said of its own tokens, every prompt gets its beam_width      *)
(* answers of finite score, and those are the answers of a search made for *)
(* that prompt alone, whatever else is searched in the same batch.         *)
(***************************************************************************)
EXTENDS OfflineBeams, SequenceFacts, FiniteSetTheorems, TLAPS

-----------------------------------------------------------------------------
(* The call *)

CallIn == call \in DOMAIN Calls

Entries == [token : Token, lp : Int]
Words == Token \cup DOMAIN PromptLen \cup ToSet(BeginTokens) \cup ToSet(EndTokens)
Beam == [tokens : Seq(Words), cum : Int, steps : Seq(Seq(Entries)),
         reason : {"length", "stop"}]

\* Everything the model may say in the course of the call.
Said == UNION {Opinions[n] : n \in 1..NumSteps}

LEMMA MaxOfTwo ==
    ASSUME NEW x \in Int, NEW y \in Int
    PROVE  Max({x, y}) = IF x >= y THEN x ELSE y
<1>1. PICK m : m = IF x >= y THEN x ELSE y
  OBVIOUS
<1>2. m \in {x, y} /\ \A z \in {x, y} : m >= z
  BY <1>1
<1>3. \A n \in {x, y} : (\A z \in {x, y} : n >= z) => n = m
  BY <1>1
<1> QED BY <1>1, <1>2, <1>3 DEF Max

LEMMA MinOfTwo ==
    ASSUME NEW x \in Int, NEW y \in Int
    PROVE  Min({x, y}) = IF x <= y THEN x ELSE y
<1>1. PICK m : m = IF x <= y THEN x ELSE y
  OBVIOUS
<1>2. m \in {x, y} /\ \A z \in {x, y} : m <= z
  BY <1>1
<1>3. \A n \in {x, y} : (\A z \in {x, y} : n <= z) => n = m
  BY <1>1
<1> QED BY <1>1, <1>2, <1>3 DEF Min

\* What the assumptions say of the call that runs.
LEMMA TheCall ==
    ASSUME CallIn
    PROVE  /\ BeamWidth \in Nat /\ BeamWidth >= 1
           /\ BeamWidth + 1 <= Cardinality(Token) /\ Cardinality(Token) \in Nat
           /\ NumSteps \in Nat
           /\ concurrency_limit \in Nat /\ concurrency_limit >= 1
           /\ BeginTokens \in Seq(ToSet(BeginTokens)) /\ EndTokens \in Seq(ToSet(EndTokens))
           /\ Len(BeginTokens) \in 0..1 /\ Len(EndTokens) \in 0..1
           /\ IgnoreEos \in BOOLEAN /\ Greedy \in BOOLEAN /\ MayMiss \in BOOLEAN
<1>1. Calls[call] \in Range(Calls)
  BY DEF Range, CallIn
<1>2. PICK c : c = Calls[call]
  OBVIOUS
<1>3. Cardinality(Token) \in Nat
  BY TokenAssumption, FS_CardinalityType
<1>4. /\ c.concurrency_limit \in Nat \ {0} /\ c.max_tokens \in Nat
      /\ c.beam_width \in 1..(Cardinality(Token) - 1)
      /\ {c.ignore_eos, c.greedy, c.may_miss} \subseteq BOOLEAN
      /\ c.begin_token \in Seq(ToSet(c.begin_token)) /\ Len(c.begin_token) <= 1
      /\ c.end_token \in Seq(ToSet(c.end_token)) /\ Len(c.end_token) <= 1
  BY <1>1, <1>2, CallAssumption
<1>5. Len(c.begin_token) \in 0..1 /\ Len(c.end_token) \in 0..1
  <2>1. Len(c.begin_token) \in Nat /\ Len(c.end_token) \in Nat
    <3>1. ASSUME NEW S, NEW s \in Seq(S) PROVE Len(s) \in Nat
      OBVIOUS
    <3> QED BY <1>4, <3>1
  <2>2. Len(c.begin_token) <= 1 /\ Len(c.end_token) <= 1
    BY <1>4
  <2>3. \A n \in Nat : n <= 1 => n \in 0..1
    OBVIOUS
  <2> QED BY <2>1, <2>2, <2>3
<1>6. StepsOfCall(c) \in Nat
  <2>1. PICK p \in Nat : p = Len(c.begin_token) + Len(c.end_token)
    <3>1. \A m, n \in 0..1 : m + n \in Nat
      OBVIOUS
    <3> QED BY <1>5, <3>1
  <2>2. PICK t \in Nat : t = c.max_tokens
    BY <1>4
  <2>3. Max({t, p}) = IF t >= p THEN t ELSE p
    BY MaxOfTwo
  <2>4. StepsOfCall(c) = Max({t, p}) - p
    BY <2>1, <2>2 DEF StepsOfCall
  <2> QED BY <2>3, <2>4
<1>7. /\ BeamWidth = c.beam_width /\ concurrency_limit = c.concurrency_limit
      /\ BeginTokens = c.begin_token /\ EndTokens = c.end_token
      /\ IgnoreEos = c.ignore_eos /\ Greedy = c.greedy /\ MayMiss = c.may_miss
      /\ NumSteps = StepsOfCall(c)
  BY <1>2 DEF BeamWidth, concurrency_limit, BeginTokens, EndTokens, IgnoreEos, Greedy,
              MayMiss, NumSteps
<1> QED BY <1>3, <1>4, <1>5, <1>6, <1>7

\* The prompts are different names, none of them a token that ends a beam.
LEMMA ThePrompts ==
    ASSUME CallIn
    PROVE  /\ Prompts \in Seq(DOMAIN PromptLen \ {Eos}) /\ Len(Prompts) \in Nat
           /\ DOMAIN Prompts = 1..Len(Prompts)
           /\ \A i \in 1..Len(Prompts) :
                 /\ Prompts[i] \in DOMAIN PromptLen /\ Prompts[i] # Eos
                 /\ PromptLen[Prompts[i]] \in Nat /\ PromptLen[Prompts[i]] >= 1
           /\ \A i, j \in 1..Len(Prompts) : Prompts[i] = Prompts[j] => i = j
<1>1. Calls[call] \in Range(Calls)
  BY DEF Range, CallIn
<1>2. PICK c : c = Calls[call]
  OBVIOUS
<1>3. /\ c.prompts \in Seq(DOMAIN PromptLen \ {Eos}) /\ IsInjective(c.prompts)
      /\ \A p \in ToSet(c.prompts) : PromptLen[p] \in Nat \ {0}
  BY <1>1, <1>2, CallAssumption
<1>4. Prompts = c.prompts
  BY <1>2 DEF Prompts
<1>5. DOMAIN c.prompts = 1..Len(c.prompts) /\ Len(c.prompts) \in Nat
  BY <1>3
<1>6. \A i \in 1..Len(c.prompts) : c.prompts[i] \in ToSet(c.prompts)
  BY <1>5 DEF ToSet
<1>7. \A i, j \in 1..Len(c.prompts) : c.prompts[i] = c.prompts[j] => i = j
  BY <1>3, <1>5 DEF IsInjective
<1>8. \A i \in 1..Len(c.prompts) : c.prompts[i] \in DOMAIN PromptLen \ {Eos}
  BY <1>3
<1> QED BY <1>3, <1>4, <1>5, <1>6, <1>7, <1>8

\* What the model may say: log-probabilities, no two alike, whose sum over a
\* call stays above NegInf.
LEMMA OpinionsAre ==
    ASSUME CallIn, NEW f \in Said
    PROVE  /\ f \in [Token -> Int]
           /\ \A t, u \in Token : f[t] = f[u] => t = u
           /\ \A t \in Token : f[t] <= 0 /\ NumSteps * f[t] > NegInf
<1>1. Calls[call] \in Range(Calls)
  BY DEF Range, CallIn
<1>2. PICK n \in 1..NumSteps : f \in Opinions[n]
  BY DEF Said
<1>3. n \in 1..StepsOfCall(Calls[call]) /\ f \in Calls[call].opinions[n]
  BY <1>2 DEF Opinions, NumSteps
<1>4. f \in [Token -> Int] /\ IsInjective(f)
  BY <1>1, <1>3, OpinionAssumption
<1>5. ASSUME NEW t \in Token PROVE f[t] <= 0 /\ NumSteps * f[t] > NegInf
  BY <1>1, <1>3, OpinionAssumption DEF NumSteps
<1> QED BY <1>4, <1>5 DEF IsInjective

LEMMA NegInfIs == NegInf \in Int /\ NegInf < 0
BY OpinionAssumption

LEMMA PlusType ==
    ASSUME NEW x \in Int, NEW y \in Int
    PROVE  Plus(x, y) \in Int
BY NegInfIs DEF Plus

-----------------------------------------------------------------------------
(* The rows of the log-probabilities *)

\* The sampled token s, then the best tokens in order.
IsRow(row, f, s) ==
    /\ row \in Seq(Entries) /\ Len(row) = BeamWidth + 1
    /\ row[1] = Entry(f, s)
    /\ \A k \in 2..(BeamWidth + 1) : row[k].lp = f[row[k].token]
    /\ \A j, k \in 2..(BeamWidth + 1) : j < k => f[row[j].token] > f[row[k].token]
    /\ \A t \in Token : \/ \E k \in 2..(BeamWidth + 1) : row[k].token = t
                        \/ \A k \in 2..(BeamWidth + 1) : f[row[k].token] > f[t]

LEMMA RowIs ==
    ASSUME CallIn, NEW f \in Said, NEW s \in Token
    PROVE  IsRow(Row(f, s), f, s)
<1>1. PICK W \in Nat : W = BeamWidth /\ W >= 1
  BY TheCall
<1>2. PICK n \in Nat : n = Cardinality(Token) /\ W + 1 <= n
  BY <1>1, TheCall
<1>3. f \in [Token -> Int] /\ \A t, u \in Token : f[t] = f[u] => t = u
  BY OpinionsAre
<1> DEFINE R == {p \in Token \X Token : f[p[1]] > f[p[2]]}
<1>4. \A t, u \in Token : <<t, u>> \in R <=> f[t] > f[u]
  OBVIOUS
<1>5. StrictOrder(Token, R)
  <2>1. ASSUME NEW x \in Token, NEW y \in Token, NEW z \in Token,
               <<x, y>> \in R, <<y, z>> \in R
        PROVE  <<x, z>> \in R
    <3>1. f[x] > f[y] /\ f[y] > f[z] /\ f[x] \in Int /\ f[y] \in Int /\ f[z] \in Int
      BY <1>3, <1>4, <2>1
    <3> QED BY <1>4, <3>1
  <2>2. ASSUME NEW x \in Token, NEW y \in Token, x # y PROVE <<x, y>> \in R \/ <<y, x>> \in R
    <3>1. f[x] # f[y] /\ f[x] \in Int /\ f[y] \in Int
      BY <1>3, <2>2
    <3> QED BY <1>4, <3>1
  <2>3. ASSUME NEW x \in Token PROVE <<x, x>> \notin R
    <3>1. f[x] \in Int
      BY <1>3
    <3> QED BY <1>4, <3>1
  <2> HIDE DEF R
  <2> QED BY <2>1, <2>2, <2>3 DEF StrictOrder
<1>6. PICK best : best = InOrder(Token, R)
  OBVIOUS
<1>7. Ordered(best, Token, R)
  <2> HIDE DEF R
  <2> QED BY <1>5, <1>6, TokenAssumption, InOrderIs
<1>8. /\ best \in [1..n -> Token]
      /\ \A x \in Token : \E k \in 1..n : best[k] = x
      /\ \A j, k \in 1..n : j < k => f[best[j]] > f[best[k]]
  BY <1>2, <1>4, <1>7 DEF Ordered
<1> DEFINE tail == [k \in 1..W |-> Entry(f, best[k])]
<1>9. ASSUME NEW k \in 1..W PROVE best[k] \in Token /\ tail[k] \in Entries
  <2>1. k \in 1..n
    BY <1>2
  <2>2. best[k] \in Token /\ f[best[k]] \in Int
    BY <1>3, <1>8, <2>1
  <2> QED BY <2>2 DEF Entries, Entry
<1>10. tail \in Seq(Entries) /\ Len(tail) = W
  <2> HIDE DEF tail
  <2>1. tail \in [1..W -> Entries]
    BY <1>9 DEF tail
  <2> QED BY <2>1
<1>11. Entry(f, s) \in Entries
  BY <1>3 DEF Entries, Entry
<1>12. PICK row : row = << Entry(f, s) >> \o tail
  OBVIOUS
<1>13. Row(f, s) = row
  BY <1>1, <1>6, <1>12 DEF Row, logprobs_num
<1>14. /\ row \in Seq(Entries) /\ Len(row) = W + 1
       /\ row[1] = Entry(f, s)
       /\ \A k \in 2..(W + 1) : row[k] = tail[k - 1]
  <2> HIDE DEF tail
  <2> QED BY <1>10, <1>11, <1>12
<1>15. ASSUME NEW k \in 2..(W + 1)
       PROVE  /\ k - 1 \in 1..W /\ k - 1 \in 1..n
              /\ row[k].token = best[k - 1] /\ row[k].lp = f[best[k - 1]]
  <2>1. k - 1 \in 1..W /\ k - 1 \in 1..n
    BY <1>2
  <2>2. row[k] = tail[k - 1]
    BY <1>14
  <2>3. tail[k - 1] = Entry(f, best[k - 1])
    BY <2>1
  <2>4. row[k].token = best[k - 1] /\ row[k].lp = f[best[k - 1]]
    BY <2>2, <2>3 DEF Entry
  <2> QED BY <2>1, <2>4
<1>16. ASSUME NEW j \in 2..(W + 1), NEW k \in 2..(W + 1), j < k
       PROVE  f[row[j].token] > f[row[k].token]
  <2>1. j - 1 < k - 1
    BY <1>16
  <2>2. j - 1 \in 1..n /\ k - 1 \in 1..n
    BY <1>15
  <2>3. f[best[j - 1]] > f[best[k - 1]]
    BY <1>8, <2>1, <2>2
  <2>4. row[j].token = best[j - 1] /\ row[k].token = best[k - 1]
    BY <1>15
  <2> QED BY <2>3, <2>4
<1>17. ASSUME NEW t \in Token, \A k \in 2..(W + 1) : row[k].token # t, NEW k \in 2..(W + 1)
       PROVE  f[row[k].token] > f[t]
  <2>1. PICK j \in 1..n : best[j] = t
    BY <1>8
  <2>2. ~(j <= W)
    <3> SUFFICES ASSUME j <= W PROVE FALSE
      OBVIOUS
    <3>1. j + 1 \in 2..(W + 1) /\ (j + 1) - 1 = j
      OBVIOUS
    <3> QED BY <1>15, <1>17, <2>1, <3>1
  <2>3. k - 1 < j
    BY <2>2
  <2> QED BY <1>8, <1>15, <2>1, <2>3
<1>18. IsRow(row, f, s)
  <2> HIDE DEF R, tail
  <2> QED BY <1>1, <1>14, <1>15, <1>16, <1>17 DEF IsRow
<1> QED BY <1>13, <1>18

\* What is left of a row: beam_width entries of different tokens.
Offers(d, f) ==
    /\ d \in Seq(Entries) /\ Len(d) = BeamWidth
    /\ \A k \in 1..BeamWidth : d[k].lp = f[d[k].token]
    /\ \A j, k \in 1..BeamWidth : d[j].token = d[k].token => j = k

\* No token that was left out is likelier than one that was not.
OffersBest(d, f) ==
    \A t \in Token : \/ \E k \in 1..BeamWidth : d[k].token = t
                     \/ \A k \in 1..BeamWidth : f[d[k].token] >= f[t]

LEMMA DedupIs ==
    ASSUME CallIn, NEW f \in Said, NEW s \in MayBeSampled(f),
           NEW row, IsRow(row, f, s)
    PROVE  Offers(Dedup(row), f) /\ (Greedy => OffersBest(Dedup(row), f))
<1>1. PICK W \in Nat : W = BeamWidth /\ W >= 1
  BY TheCall
<1>2. f \in [Token -> Int] /\ \A t, u \in Token : f[t] = f[u] => t = u
  BY OpinionsAre
<1>3. s \in Token /\ (Greedy => \A u \in Token : f[u] <= f[s])
  BY DEF MayBeSampled
<1>4. /\ row \in Seq(Entries) /\ Len(row) = W + 1
      /\ row[1] = Entry(f, s)
      /\ \A k \in 2..(W + 1) : row[k].lp = f[row[k].token]
      /\ \A j, k \in 2..(W + 1) : j < k => f[row[j].token] > f[row[k].token]
      /\ \A t \in Token : \/ \E k \in 2..(W + 1) : row[k].token = t
                          \/ \A k \in 2..(W + 1) : f[row[k].token] > f[t]
  BY <1>1 DEF IsRow
<1>5. row[1].token = s /\ row[1].lp = f[s]
  BY <1>4 DEF Entry
<1>6. \A k \in 1..(W + 1) : row[k] \in Entries /\ row[k].token \in Token /\ f[row[k].token] \in Int
  <2> SUFFICES ASSUME NEW k \in 1..(W + 1)
               PROVE  row[k] \in Entries /\ row[k].token \in Token /\ f[row[k].token] \in Int
    OBVIOUS
  <2>1. row[k] \in Entries
    BY <1>4
  <2>2. row[k].token \in Token
    BY <2>1 DEF Entries
  <2> QED BY <1>2, <2>1, <2>2
<1>7. CASE \E j \in 2..(W + 1) : row[j].token = row[1].token
  <2>1. PICK d : d = SubSeq(row, 2, W + 1)
    OBVIOUS
  <2>2. d \in Seq(Entries) /\ Len(d) = W /\ \A k \in 1..W : d[k] = row[k + 1]
    BY <1>4, <2>1
  <2>3. Dedup(row) = d
    BY <1>1, <1>4, <1>7, <2>1 DEF Dedup, logprobs_num
  <2>4. \A k \in 1..W : k + 1 \in 2..(W + 1) /\ k + 1 \in 1..(W + 1)
    OBVIOUS
  <2>5. \A k \in 1..W : d[k].lp = f[d[k].token]
    BY <1>4, <2>2, <2>4
  <2>6. ASSUME NEW j \in 1..W, NEW k \in 1..W, d[j].token = d[k].token PROVE j = k
    <3>1. row[j + 1].token = row[k + 1].token /\ f[row[j + 1].token] \in Int
      BY <1>6, <2>2, <2>4, <2>6
    <3>2. ~(j + 1 < k + 1) /\ ~(k + 1 < j + 1)
      BY <1>4, <2>4, <3>1
    <3> QED BY <3>2
  <2>7. OffersBest(d, f)
    <3> SUFFICES ASSUME NEW t \in Token, \A k \in 1..W : d[k].token # t, NEW k \in 1..W
                 PROVE  f[d[k].token] >= f[t]
      BY <1>1 DEF OffersBest
    <3>1. \A j \in 2..(W + 1) : row[j].token # t
      <4> SUFFICES ASSUME NEW j \in 2..(W + 1) PROVE row[j].token # t
        OBVIOUS
      <4>1. j - 1 \in 1..W /\ (j - 1) + 1 = j
        OBVIOUS
      <4> QED BY <2>2, <4>1
    <3>2. f[row[k + 1].token] > f[t]
      BY <1>4, <2>4, <3>1
    <3>3. f[row[k + 1].token] \in Int /\ f[t] \in Int
      BY <1>2, <1>6, <2>4
    <3> QED BY <2>2, <3>2, <3>3
  <2> QED BY <1>1, <2>2, <2>3, <2>5, <2>6, <2>7 DEF Offers
<1>8. CASE \A j \in 2..(W + 1) : row[j].token # row[1].token
  <2>1. PICK d : d = SubSeq(row, 1, W)
    OBVIOUS
  <2>2. d \in Seq(Entries) /\ Len(d) = W /\ \A k \in 1..W : d[k] = row[k]
    BY <1>4, <2>1
  <2>3. Dedup(row) = d
    BY <1>1, <1>4, <1>8, <2>1 DEF Dedup, logprobs_num
  <2>4. \A k \in 1..W : k = 1 \/ k \in 2..(W + 1)
    OBVIOUS
  <2>5. \A k \in 1..W : d[k].lp = f[d[k].token]
    BY <1>4, <1>5, <2>2, <2>4
  <2>6. ASSUME NEW j \in 1..W, NEW k \in 1..W, d[j].token = d[k].token PROVE j = k
    <3>1. row[j].token = row[k].token
      BY <2>2, <2>6
    <3>2. CASE j = 1 \/ k = 1
      BY <1>8, <2>4, <3>1, <3>2
    <3>3. CASE j # 1 /\ k # 1
      <4>1. j \in 2..(W + 1) /\ k \in 2..(W + 1) /\ j \in 1..(W + 1)
        BY <3>3
      <4>2. ~(j < k) /\ ~(k < j)
        <5>1. f[row[j].token] \in Int
          BY <1>6, <4>1
        <5> QED BY <1>4, <3>1, <4>1, <5>1
      <4> QED BY <4>2
    <3> QED BY <3>2, <3>3
  <2>7. ~Greedy
    <3> SUFFICES ASSUME Greedy PROVE FALSE
      OBVIOUS
    <3>1. 2 \in 2..(W + 1) /\ 2 \in 1..(W + 1)
      BY <1>1
    <3>2. f[row[2].token] > f[s]
      BY <1>3, <1>4, <1>5, <1>8, <3>1
    <3>3. f[row[2].token] <= f[s]
      BY <1>3, <1>6, <3>1
    <3> QED BY <1>2, <1>3, <1>6, <3>1, <3>2, <3>3
  <2> QED BY <1>1, <2>2, <2>3, <2>5, <2>6, <2>7 DEF Offers
<1> QED BY <1>7, <1>8

-----------------------------------------------------------------------------
(* The candidates of one prompt: cur are its beams, data their rows without  *)
(* what is listed twice.  A candidate is named by its place.                 *)

Rows(cur, data) ==
    /\ cur \in Seq(Beam) /\ Len(cur) >= 1
    /\ data \in Seq(Seq(Entries)) /\ Len(data) = Len(cur)
    /\ \A b \in 1..Len(cur) : Len(data[b]) = BeamWidth

Places(cur) == 1..(Len(cur) * BeamWidth)
Owner(p) == OwnerAt(BeamWidth, p)
Rank(p) == RankAt(BeamWidth, p)

\* The token of a candidate, its score, whether a beam ends there, and the
\* score that top-n sees.
TokenAt(data, p) == data[Owner(p)][Rank(p)].token
ScoreAt(cur, data, p) == Plus(cur[Owner(p)].cum, data[Owner(p)][Rank(p)].lp)
EndsAt(data, p) == ~IgnoreEos /\ TokenAt(data, p) = Eos
KeptScoreAt(cur, data, p) == IF EndsAt(data, p) THEN NegInf ELSE ScoreAt(cur, data, p)

ChildAt(cur, data, p, cum, reason) ==
    [tokens |-> Append(cur[Owner(p)].tokens, TokenAt(data, p)), cum |-> cum,
     reason |-> reason, steps |-> Append(cur[Owner(p)].steps, data[Owner(p)])]
EndedChild(cur, data, p) == ChildAt(cur, data, p, ScoreAt(cur, data, p), "stop")
KeptChild(cur, data, p) == ChildAt(cur, data, p, KeptScoreAt(cur, data, p), "length")

Cand == [token : Token, cum : Int]

CandidatesAre(c, cur, data) ==
    /\ c \in Seq(Cand) /\ Len(c) = Len(cur) * BeamWidth
    /\ \A p \in Places(cur) : /\ c[p].token = TokenAt(data, p)
                              /\ c[p].cum = ScoreAt(cur, data, p)

LEMMA RowsFacts ==
    ASSUME CallIn, NEW cur, NEW data, Rows(cur, data)
    PROVE  /\ Len(cur) \in Nat /\ Len(cur) >= 1 /\ DOMAIN cur = 1..Len(cur)
           /\ Len(cur) * BeamWidth \in Nat /\ BeamWidth <= Len(cur) * BeamWidth
           /\ \A b \in 1..Len(cur) :
                 /\ cur[b] \in Beam /\ cur[b].cum \in Int
                 /\ data[b] \in Seq(Entries) /\ DOMAIN data[b] = 1..BeamWidth
                 /\ \A k \in 1..BeamWidth :
                       data[b][k].token \in Token /\ data[b][k].lp \in Int
<1>1. PICK W \in Nat : W = BeamWidth /\ W >= 1
  BY TheCall
<1>2. PICK B \in Nat : B = Len(cur) /\ B >= 1 /\ DOMAIN cur = 1..B
  <2>1. cur \in Seq(Beam) /\ Len(cur) >= 1
    BY DEF Rows
  <2> QED BY <2>1
<1>3. B * W \in Nat /\ W <= B * W
  <2>1. 1 * W <= B * W
    BY <1>2, Below2
  <2> QED BY <2>1
<1>4. ASSUME NEW b \in 1..B PROVE cur[b] \in Beam /\ cur[b].cum \in Int
  <2>1. cur[b] \in Beam
    BY <1>2 DEF Rows
  <2> QED BY <2>1 DEF Beam
<1>5. ASSUME NEW b \in 1..B
      PROVE  /\ data[b] \in Seq(Entries) /\ DOMAIN data[b] = 1..W
             /\ \A k \in 1..W : data[b][k].token \in Token /\ data[b][k].lp \in Int
  <2>1. data[b] \in Seq(Entries) /\ Len(data[b]) = W
    BY <1>1, <1>2 DEF Rows
  <2>2. DOMAIN data[b] = 1..W /\ \A k \in 1..W : data[b][k] \in Entries
    BY <2>1
  <2> QED BY <2>1, <2>2 DEF Entries
<1> QED BY <1>1, <1>2, <1>3, <1>4, <1>5

LEMMA PlaceFacts ==
    ASSUME CallIn, NEW cur, NEW data, Rows(cur, data), NEW p \in Places(cur)
    PROVE  /\ Owner(p) \in 1..Len(cur) /\ Rank(p) \in 1..BeamWidth
           /\ PlaceAt(BeamWidth, Owner(p), Rank(p)) = p
           /\ TokenAt(data, p) \in Token /\ ScoreAt(cur, data, p) \in Int
           /\ KeptScoreAt(cur, data, p) \in Int
           /\ cur[Owner(p)] \in Beam /\ data[Owner(p)] \in Seq(Entries)
<1>1. BeamWidth \in Nat \ {0} /\ Len(cur) \in Nat
  BY TheCall, RowsFacts
<1>2. p \in 1..(Len(cur) * BeamWidth)
  BY DEF Places
<1>3. /\ Owner(p) \in 1..Len(cur) /\ Rank(p) \in 1..BeamWidth
      /\ PlaceAt(BeamWidth, Owner(p), Rank(p)) = p
  BY <1>1, <1>2, PlaceAtOf DEF Owner, Rank
<1>4. /\ data[Owner(p)][Rank(p)].token \in Token /\ data[Owner(p)][Rank(p)].lp \in Int
      /\ cur[Owner(p)].cum \in Int /\ cur[Owner(p)] \in Beam /\ data[Owner(p)] \in Seq(Entries)
  BY <1>3, RowsFacts
<1>5. TokenAt(data, p) \in Token /\ ScoreAt(cur, data, p) \in Int
  BY <1>4, PlusType DEF TokenAt, ScoreAt
<1> QED BY <1>3, <1>4, <1>5, NegInfIs DEF KeptScoreAt

InPlace(B, W, b, r) == B \in Nat /\ W \in Nat \ {0} /\ b \in 1..B /\ r \in 1..W

LEMMA PlaceOf ==
    ASSUME NEW B, NEW W, NEW b, NEW r, InPlace(B, W, b, r)
    PROVE  /\ PlaceAt(W, b, r) \in 1..(B * W) /\ OwnerAt(W, PlaceAt(W, b, r)) = b
           /\ RankAt(W, PlaceAt(W, b, r)) = r
<1>1. ASSUME NEW d \in Nat \ {0}, NEW n \in Nat, NEW o \in 1..n, NEW k \in 1..d
      PROVE  /\ PlaceAt(d, o, k) \in 1..(n * d) /\ OwnerAt(d, PlaceAt(d, o, k)) = o
             /\ RankAt(d, PlaceAt(d, o, k)) = k
  BY PlaceAtIs
<1> QED BY <1>1 DEF InPlace

LEMMA CandidatesIs ==
    ASSUME CallIn, NEW cur, NEW data, Rows(cur, data)
    PROVE  CandidatesAre(Candidates(cur, data), cur, data)
<1>1. PICK W \in Nat : W = BeamWidth /\ W >= 1
  BY TheCall
<1>2. PICK B \in Nat : B = Len(cur) /\ DOMAIN data = 1..B
  <2>1. Len(cur) \in Nat
    BY RowsFacts
  <2>2. data \in Seq(Seq(Entries)) /\ Len(data) = Len(cur)
    BY DEF Rows
  <2> QED BY <2>1, <2>2
<1> DEFINE one(b, k) == [token |-> data[b][k].token,
                         cum |-> Plus(cur[b].cum, data[b][k].lp)]
           part(b) == [k \in 1..W |-> one(b, k)]
           parts == [b \in 1..B |-> part(b)]
<1>4. ASSUME NEW b \in 1..B, NEW k \in 1..W PROVE one(b, k) \in Cand
  <2>1. data[b][k].token \in Token /\ data[b][k].lp \in Int /\ cur[b].cum \in Int
    BY <1>1, <1>2, RowsFacts
  <2>2. Plus(cur[b].cum, data[b][k].lp) \in Int
    BY <2>1, PlusType
  <2> QED BY <2>1, <2>2 DEF Cand
<1>5. ASSUME NEW b \in 1..B
      PROVE  /\ parts[b] \in Seq(Cand) /\ Len(parts[b]) = W
             /\ \A k \in 1..W : parts[b][k] = one(b, k)
             /\ parts[b] = [k \in DOMAIN data[b] |-> one(b, k)]
  <2>1. parts[b] = part(b) /\ \A k \in 1..W : parts[b][k] = one(b, k)
    OBVIOUS
  <2>2. parts[b] = [k \in 1..W |-> one(b, k)]
    OBVIOUS
  <2>3. DOMAIN data[b] = 1..W
    BY <1>1, <1>2, RowsFacts
  <2>4. parts[b] = [k \in DOMAIN data[b] |-> one(b, k)]
    BY <2>2, <2>3
  <2> HIDE DEF one, parts
  <2>5. parts[b] \in [1..W -> Cand]
    BY <1>4, <2>2
  <2>6. parts[b] \in Seq(Cand) /\ Len(parts[b]) = W
    BY <2>5
  <2> QED BY <2>1, <2>4, <2>6
<1>6. parts = [b \in 1..B |-> [k \in DOMAIN data[b] |-> one(b, k)]]
  <2>1. parts = [b \in 1..B |-> parts[b]]
    OBVIOUS
  <2> HIDE DEF one, parts
  <2> QED BY <1>5, <2>1
<1>7. Candidates(cur, data) = FlattenSeq(parts)
  <2> HIDE DEF parts
  <2> QED BY <1>2, <1>6 DEF Candidates
<1>8. parts \in Seq(Seq(Cand)) /\ Len(parts) = B
  <2>1. parts = [b \in 1..B |-> parts[b]]
    OBVIOUS
  <2> HIDE DEF one, parts
  <2>2. parts \in [1..B -> Seq(Cand)]
    BY <1>5, <2>1
  <2> QED BY <2>2
<1>9. PICK c : c = FlattenSeq(parts)
  OBVIOUS
<1>10. c \in Seq(Cand) /\ Len(c) = B * W
       /\ \A b \in 1..B : \A k \in 1..W : c[(b - 1) * W + k] = one(b, k)
  <2> HIDE DEF one, parts
  <2>1. \A b \in 1..Len(parts) : Len(parts[b]) = W
    BY <1>5, <1>8
  <2>2. EvenlyCut(c, parts, W)
    BY <1>8, <1>9, <2>1, FlattenEven
  <2>3. c \in Seq(Cand)
    BY <1>8, <1>9, FlattenType
  <2>4. Len(c) = B * W
    BY <1>8, <2>2 DEF EvenlyCut
  <2>5. ASSUME NEW b \in 1..B, NEW k \in 1..W PROVE c[(b - 1) * W + k] = one(b, k)
    <3>1. c[(b - 1) * W + k] = parts[b][k]
      BY <1>8, <2>2 DEF EvenlyCut
    <3> QED BY <1>5, <3>1
  <2> QED BY <2>3, <2>4, <2>5
<1>11. ASSUME NEW p \in Places(cur)
       PROVE  c[p].token = TokenAt(data, p) /\ c[p].cum = ScoreAt(cur, data, p)
  <2>1. PICK b \in 1..B, k \in 1..W :
            b = Owner(p) /\ k = Rank(p) /\ PlaceAt(W, b, k) = p
    BY <1>1, <1>2, PlaceFacts
  <2>2. c[p] = one(b, k)
    BY <1>10, <2>1 DEF PlaceAt
  <2> QED BY <2>1, <2>2 DEF TokenAt, ScoreAt
<1> QED BY <1>1, <1>2, <1>7, <1>9, <1>10, <1>11 DEF CandidatesAre

\* The candidates that end.
LEMMA EosIdxIs ==
    ASSUME CallIn, NEW cur, NEW data, Rows(cur, data), NEW c, CandidatesAre(c, cur, data)
    PROVE  /\ EosIdx(c) \in Seq(Places(cur))
           /\ \A j, k \in 1..Len(EosIdx(c)) : EosIdx(c)[j] = EosIdx(c)[k] => j = k
           /\ \A i \in Places(cur) :
                 (\E k \in 1..Len(EosIdx(c)) : EosIdx(c)[k] = i) <=> EndsAt(data, i)
<1>1. PICK C \in Nat : C = Len(cur) * BeamWidth
  <2>1. Len(cur) \in Nat /\ BeamWidth \in Nat
    BY TheCall, RowsFacts
  <2> QED BY <2>1
<1>2. DOMAIN c = 1..C /\ Places(cur) = 1..C
  BY <1>1 DEF CandidatesAre, Places
<1> DEFINE ends == {i \in 1..C : ~IgnoreEos /\ c[i].token = Eos}
           R == {p \in ends \X ends : p[1] < p[2]}
<1>3. EosIdx(c) = InOrder(ends, R)
  BY <1>2 DEF EosIdx
<1>4. \A i \in 1..C : i \in ends <=> EndsAt(data, i)
  BY <1>2 DEF CandidatesAre, EndsAt
<1>5. IsFiniteSet(ends) /\ ends \in SUBSET (1..C)
  <2>1. IsFiniteSet(1..C)
    BY FS_Interval
  <2> QED BY <2>1, FS_Subset
<1>6. \A x, y \in ends : <<x, y>> \in R <=> x < y
  OBVIOUS
<1> HIDE DEF R
<1>7. StrictOrder(ends, R)
  <2>1. \A x \in ends : x \in Int
    BY <1>5
  <2> HIDE DEF ends
  <2> QED BY <1>6, <2>1 DEF StrictOrder
<1> HIDE DEF ends
<1>8. Ordered(InOrder(ends, R), ends, R)
  BY <1>5, <1>7, InOrderIs
<1>9. PICK n \in Nat : n = Cardinality(ends)
  BY <1>5, FS_CardinalityType
<1>10. PICK e : e = EosIdx(c)
  OBVIOUS
<1>11. /\ e \in [1..n -> ends]
       /\ \A x \in ends : \E k \in 1..n : e[k] = x
       /\ \A j, k \in 1..n : e[j] = e[k] => j = k
  BY <1>3, <1>8, <1>9, <1>10 DEF Ordered
<1>12. e \in Seq(Places(cur)) /\ Len(e) = n
  <2>1. e \in [1..n -> 1..C]
    BY <1>5, <1>11
  <2> QED BY <1>2, <2>1
<1>13. \A i \in Places(cur) : (\E k \in 1..n : e[k] = i) <=> EndsAt(data, i)
  BY <1>2, <1>4, <1>11
<1> QED BY <1>10, <1>11, <1>12, <1>13

\* e are the candidates that end, t those that top-n keeps.
Selected(cur, data, e, t) ==
    /\ e \in Seq(Places(cur))
    /\ \A j, k \in 1..Len(e) : e[j] = e[k] => j = k
    /\ \A i \in Places(cur) : (\E k \in 1..Len(e) : e[k] = i) <=> EndsAt(data, i)
    /\ t \in [1..BeamWidth -> Places(cur)]
    /\ \A j, k \in 1..BeamWidth : t[j] = t[k] => j = k
    /\ \A i \in Places(cur) : (\A k \in 1..BeamWidth : t[k] # i) =>
          \A k \in 1..BeamWidth : KeptScoreAt(cur, data, i) <= KeptScoreAt(cur, data, t[k])

LEMMA WithoutEosIs ==
    ASSUME CallIn, NEW cur, NEW data, Rows(cur, data), NEW c, CandidatesAre(c, cur, data)
    PROVE  /\ WithoutEos(c) = [i \in Places(cur) |-> WithoutEos(c)[i]]
           /\ DOMAIN WithoutEos(c) = Places(cur) /\ Len(WithoutEos(c)) = Len(c)
           /\ \A i \in Places(cur) : /\ WithoutEos(c)[i].token = TokenAt(data, i)
                                /\ WithoutEos(c)[i].cum = KeptScoreAt(cur, data, i)
<1>1. PICK C \in Nat : C = Len(cur) * BeamWidth
  <2>1. Len(cur) \in Nat /\ BeamWidth \in Nat
    BY TheCall, RowsFacts
  <2> QED BY <2>1
<1>2. Places(cur) = 1..C /\ Len(c) = C /\ c \in Seq(Cand)
  BY <1>1 DEF Places, CandidatesAre
<1>3. DOMAIN c = Places(cur)
  BY <1>2
<1>4. PICK m : m = WithoutEos(c)
  OBVIOUS
<1>5. m = [i \in Places(cur) |-> IF i \in ToSet(EosIdx(c)) THEN [c[i] EXCEPT !.cum = NegInf]
                            ELSE c[i]]
  BY <1>3, <1>4 DEF WithoutEos
<1>6. ASSUME NEW i \in Places(cur)
      PROVE  m[i].token = TokenAt(data, i) /\ m[i].cum = KeptScoreAt(cur, data, i)
  <2>1. c[i] \in Cand /\ c[i].token = TokenAt(data, i) /\ c[i].cum = ScoreAt(cur, data, i)
    BY <1>2 DEF CandidatesAre
  <2>2. i \in ToSet(EosIdx(c)) <=> EndsAt(data, i)
    <3>1. DOMAIN EosIdx(c) = 1..Len(EosIdx(c))
      <4>1. EosIdx(c) \in Seq(Places(cur))
        BY EosIdxIs
      <4> QED BY <4>1
    <3>2. i \in ToSet(EosIdx(c)) <=> \E k \in 1..Len(EosIdx(c)) : EosIdx(c)[k] = i
      BY <3>1 DEF ToSet
    <3> QED BY <3>2, EosIdxIs
  <2>3. CASE EndsAt(data, i)
    <3>1. m[i] = [c[i] EXCEPT !.cum = NegInf]
      BY <1>5, <2>2, <2>3
    <3> QED BY <2>1, <2>3, <3>1 DEF KeptScoreAt, Cand
  <2>4. CASE ~EndsAt(data, i)
    <3>1. m[i] = c[i]
      BY <1>5, <2>2, <2>4
    <3> QED BY <2>1, <2>4, <3>1 DEF KeptScoreAt
  <2> QED BY <2>3, <2>4
<1>7. DOMAIN m = 1..C
  BY <1>2, <1>5
<1>8. Len(m) = C
  BY <1>5, <1>2
<1>9. m = [i \in Places(cur) |-> m[i]]
  BY <1>5
<1> QED BY <1>2, <1>4, <1>6, <1>7, <1>8, <1>9

LEMMA TopNIs ==
    ASSUME CallIn, NEW cur, NEW data, Rows(cur, data), NEW c, CandidatesAre(c, cur, data),
           NEW t \in TopN(WithoutEos(c))
    PROVE  /\ t \in [1..BeamWidth -> Places(cur)]
           /\ \A j, k \in 1..BeamWidth : t[j] = t[k] => j = k
           /\ \A i \in Places(cur) : (\A k \in 1..BeamWidth : t[k] # i) =>
                 \A k \in 1..BeamWidth : KeptScoreAt(cur, data, i) <= KeptScoreAt(cur, data, t[k])
<1>1. PICK m : m = WithoutEos(c)
  OBVIOUS
<1>2. /\ DOMAIN m = Places(cur) /\ Len(m) = Len(cur) * BeamWidth
      /\ \A i \in Places(cur) : m[i].cum = KeptScoreAt(cur, data, i)
  BY <1>1, WithoutEosIs DEF CandidatesAre
<1>3. PICK W \in Nat : W = BeamWidth /\ W >= 1
  BY TheCall
<1>4. PICK C \in Nat : C = Len(cur) * W /\ W <= C
  <2>1. PICK B \in Nat : B = Len(cur) /\ 1 <= B
    BY RowsFacts
  <2>2. 1 * W <= B * W /\ B * W \in Nat
    <3>1. 1 * W <= B * W
      BY <2>1, Below2
    <3> QED BY <3>1
  <2> QED BY <2>1, <2>2
<1>5. Places(cur) = 1..C /\ Len(m) = C
  BY <1>2, <1>3, <1>4 DEF Places
<1>6. t \in TopN(m)
  BY <1>1
<1>7. CASE C <= W
  <2>1. C = W
    BY <1>4, <1>7
  <2>2. t = [i \in DOMAIN m |-> i]
    BY <1>3, <1>5, <1>6, <1>7 DEF TopN
  <2>3. t \in [1..W -> 1..W] /\ \A i \in 1..W : t[i] = i
    BY <1>2, <1>5, <2>1, <2>2
  <2> QED BY <1>3, <1>5, <2>1, <2>3
<1>8. CASE ~(C <= W)
  <2>1. /\ t \in [1..W -> DOMAIN m] /\ IsInjective(t)
        /\ \A i \in DOMAIN m \ Range(t) : \A j \in Range(t) : m[i].cum <= m[j].cum
    BY <1>3, <1>5, <1>6, <1>8 DEF TopN
  <2>2. \A j, k \in 1..W : t[j] = t[k] => j = k
    BY <2>1 DEF IsInjective
  <2>3. ASSUME NEW i \in Places(cur), \A k \in 1..W : t[k] # i, NEW k \in 1..W
        PROVE  KeptScoreAt(cur, data, i) <= KeptScoreAt(cur, data, t[k])
    <3>1. i \in DOMAIN m \ Range(t) /\ t[k] \in Range(t) /\ t[k] \in Places(cur)
      BY <1>2, <2>1, <2>3 DEF Range
    <3>2. m[i].cum <= m[t[k]].cum
      BY <2>1, <3>1
    <3> QED BY <1>2, <3>1, <3>2
  <2> QED BY <1>2, <1>3, <2>1, <2>2, <2>3
<1> QED BY <1>7, <1>8

\* The beams that Select makes of its slice.
LEMMA SelectedIs ==
    ASSUME CallIn, NEW cur, NEW data, Rows(cur, data),
           NEW c, c = Candidates(cur, data), NEW t \in TopN(WithoutEos(c))
    PROVE  /\ Selected(cur, data, EosIdx(c), t)
           /\ [k \in DOMAIN EosIdx(c) |-> Child(cur, data, c, EosIdx(c)[k], "stop")]
                 = [k \in 1..Len(EosIdx(c)) |-> EndedChild(cur, data, EosIdx(c)[k])]
           /\ [k \in DOMAIN t |-> Child(cur, data, WithoutEos(c), t[k], "length")]
                 = [k \in 1..BeamWidth |-> KeptChild(cur, data, t[k])]
<1>1. CandidatesAre(c, cur, data)
  BY CandidatesIs
<1>2. PICK e : e = EosIdx(c)
  OBVIOUS
<1>3. Selected(cur, data, e, t)
  BY <1>1, <1>2, EosIdxIs, TopNIs DEF Selected
<1>4. \A p : Owner(p) = 1 + (p - 1) \div logprobs_num
  BY DEF Owner, OwnerAt, logprobs_num
<1>5. ASSUME NEW k \in 1..Len(e)
      PROVE  Child(cur, data, c, e[k], "stop") = EndedChild(cur, data, e[k])
  <2>1. e[k] \in Places(cur)
    BY <1>3 DEF Selected
  <2>2. c[e[k]].token = TokenAt(data, e[k]) /\ c[e[k]].cum = ScoreAt(cur, data, e[k])
    BY <1>1, <2>1 DEF CandidatesAre
  <2> QED BY <1>4, <2>2 DEF Child, EndedChild, ChildAt
<1>6. ASSUME NEW k \in 1..BeamWidth
      PROVE  Child(cur, data, WithoutEos(c), t[k], "length") = KeptChild(cur, data, t[k])
  <2>1. t[k] \in Places(cur)
    BY <1>3 DEF Selected
  <2>2. /\ WithoutEos(c)[t[k]].token = TokenAt(data, t[k])
        /\ WithoutEos(c)[t[k]].cum = KeptScoreAt(cur, data, t[k])
    BY <1>1, <2>1, WithoutEosIs
  <2> QED BY <1>4, <2>2 DEF Child, KeptChild, ChildAt
<1>7. DOMAIN e = 1..Len(e) /\ DOMAIN t = 1..BeamWidth
  BY <1>3 DEF Selected
<1>8. /\ [k \in DOMAIN e |-> Child(cur, data, c, e[k], "stop")]
            = [k \in 1..Len(e) |-> EndedChild(cur, data, e[k])]
      /\ [k \in DOMAIN t |-> Child(cur, data, WithoutEos(c), t[k], "length")]
            = [k \in 1..BeamWidth |-> KeptChild(cur, data, t[k])]
  BY <1>5, <1>6, <1>7
<1> QED BY <1>2, <1>3, <1>8

-----------------------------------------------------------------------------
(* How far the prompts have come *)

BatchLen == IF concurrency_limit <= Len(Prompts) - prompt_start
            THEN concurrency_limit ELSE Len(Prompts) - prompt_start

\* The steps made of the i-th prompt: all of those before the batch, none of
\* those behind it, and one more of those whose slice is done.
Made(i) ==
    IF i <= prompt_start THEN NumSteps
    ELSE IF i <= prompt_start + concurrency_limit
         THEN token + (IF i - prompt_start < instance THEN 1 ELSE 0)
         ELSE 0

Control ==
    /\ CallIn
    /\ prompt_start \in Nat
    /\ prompt_start = 0 \/ prompt_start < Len(Prompts)
    /\ token \in 0..NumSteps
    /\ phase \in {"generate", "select", "done", "raised"}
    /\ instance \in Nat
    /\ phase \in {"generate", "done"} => instance = 0
    /\ phase \in {"select", "raised"} => instance \in 1..BatchLen /\ token < NumSteps
    /\ phase = "done" => \A i \in 1..Len(Prompts) : Made(i) = NumSteps

Shape ==
    /\ Control
    /\ beams \in [1..Len(Prompts) -> Seq(Beam)]
    /\ completed \in [1..Len(Prompts) -> Seq(Beam)]
    /\ \A i \in 1..Len(Prompts) :
          /\ Len(beams[i]) = IF Made(i) = 0 THEN 1 ELSE BeamWidth
          /\ \A k \in 1..Len(beams[i]) : beams[i][k].reason = "length"
          /\ \A k \in 1..Len(completed[i]) : completed[i][k].reason = "stop"

LEMMA BatchIs ==
    ASSUME Control
    PROVE  /\ BatchLen \in Nat /\ BatchLen <= concurrency_limit
           /\ prompt_start + BatchLen <= Len(Prompts)
           /\ prompt_start + concurrency_limit < Len(Prompts) => BatchLen = concurrency_limit
           /\ prompt_start + concurrency_limit >= Len(Prompts)
                 => prompt_start + BatchLen = Len(Prompts)
           /\ InstancesBatch = [k \in 1..BatchLen |-> prompt_start + k]
           /\ DOMAIN InstancesBatch = 1..BatchLen /\ Len(InstancesBatch) = BatchLen
           /\ \A k \in 1..BatchLen : /\ InstancesBatch[k] = prompt_start + k
                                     /\ prompt_start + k \in 1..Len(Prompts)
<1>1. CallIn /\ prompt_start \in Nat /\ (prompt_start = 0 \/ prompt_start < Len(Prompts))
  BY DEF Control
<1>2. PICK P \in Nat : P = Len(Prompts)
  BY <1>1, ThePrompts
<1>3. PICK L \in Nat : L = concurrency_limit /\ L >= 1
  BY <1>1, TheCall
<1>4. PICK m \in Nat : m = P - prompt_start /\ prompt_start + m = P
  <2>1. prompt_start <= P
    BY <1>1, <1>2
  <2> QED BY <1>1, <2>1
<1>5. PICK n \in Nat : n = (IF L <= m THEN L ELSE m)
  OBVIOUS
<1>6. n = BatchLen
  BY <1>2, <1>3, <1>4, <1>5 DEF BatchLen
<1>7. Min({L, m}) = n
  BY <1>5, MinOfTwo
<1>8. InstancesBatch = [k \in 1..n |-> prompt_start + k]
  BY <1>2, <1>3, <1>4, <1>7 DEF InstancesBatch
<1>9. Len(InstancesBatch) = n
  BY <1>8
<1>10. \A k \in 1..n : prompt_start + k \in 1..P
  BY <1>1, <1>4, <1>5
<1> QED BY <1>1, <1>2, <1>3, <1>4, <1>5, <1>6, <1>8, <1>9, <1>10

\* A slice is done.
LEMMA SelectMade ==
    ASSUME Control, Select
    PROVE  /\ instance \in 1..BatchLen /\ InstancesBatch[instance] = prompt_start + instance
           /\ prompt_start + instance \in 1..Len(Prompts)
           /\ Made(prompt_start + instance) = token /\ token < NumSteps
           /\ \A i \in 1..Len(Prompts) :
                 Made(i)' = IF i = prompt_start + instance THEN token + 1 ELSE Made(i)
<1>1. /\ instance \in 1..BatchLen /\ token < NumSteps /\ prompt_start \in Nat /\ token \in Nat
      /\ CallIn /\ instance \in Nat /\ NumSteps \in Nat
  BY TheCall DEF Control, Select
<1>2. PICK P \in Nat : P = Len(Prompts)
  BY <1>1, ThePrompts
<1>3. PICK L \in Nat : L = concurrency_limit /\ L >= 1
  BY <1>1, TheCall
<1>4. PICK n \in Nat : n = BatchLen /\ n <= L /\ prompt_start + n <= P
                       /\ (n = L \/ prompt_start + n = P) /\ Len(InstancesBatch) = n
  BY <1>1, <1>2, <1>3, BatchIs
<1>5. InstancesBatch[instance] = prompt_start + instance
  BY <1>1, BatchIs
<1>6. /\ NumSteps' = NumSteps /\ concurrency_limit' = concurrency_limit
      /\ prompt_start' = prompt_start
  BY DEF Select, NumSteps, concurrency_limit
<1>7. Made(prompt_start + instance) = token
  <2>1. prompt_start + instance > prompt_start /\ prompt_start + instance <= prompt_start + L
    BY <1>1, <1>4
  <2>2. ~((prompt_start + instance) - prompt_start < instance)
    BY <1>1
  <2> QED BY <1>1, <1>3, <2>1, <2>2 DEF Made
<1>8. ASSUME NEW i \in 1..P
      PROVE  Made(i)' = IF i = prompt_start + instance THEN token + 1 ELSE Made(i)
  <2>1. Made(i)' = IF i <= prompt_start THEN NumSteps
                   ELSE IF i <= prompt_start + L
                        THEN token' + (IF i - prompt_start < instance' THEN 1 ELSE 0)
                        ELSE 0
    BY <1>3, <1>6 DEF Made
  <2>2. Made(i) = IF i <= prompt_start THEN NumSteps
                  ELSE IF i <= prompt_start + L
                       THEN token + (IF i - prompt_start < instance THEN 1 ELSE 0)
                       ELSE 0
    BY <1>3 DEF Made
  <2>3. CASE instance < n
    <3>1. instance' = instance + 1 /\ token' = token
      BY <1>4, <2>3 DEF Select
    <3> QED BY <1>1, <1>3, <1>4, <2>1, <2>2, <3>1
  <2>4. CASE ~(instance < n)
    <3>1. instance' = 0 /\ token' = token + 1
      BY <1>4, <2>4 DEF Select
    <3>2. instance = n
      BY <1>1, <1>4, <2>4
    <3> QED BY <1>1, <1>3, <1>4, <2>1, <2>2, <3>1, <3>2
  <2> QED BY <2>3, <2>4
<1>9. prompt_start + instance \in 1..Len(Prompts)
  BY <1>1, BatchIs
<1> QED BY <1>1, <1>2, <1>5, <1>7, <1>8, <1>9

\* No step of the search is made.
Waits == Generate \/ NoLogprobs \/ NextBatch \/ Finish \/ UNCHANGED vars

\* A batch that has ended has made all its steps.
LEMMA BatchMade ==
    ASSUME Shape, EndOfBatch, Len(Prompts) >= 1
    PROVE  token = NumSteps
<1>1. Control /\ CallIn /\ prompt_start \in Nat
      /\ (prompt_start = 0 \/ prompt_start < Len(Prompts))
  BY DEF Shape, Control
<1>2. Len(Prompts) \in Nat /\ concurrency_limit \in Nat /\ concurrency_limit >= 1
      /\ BeamWidth >= 1 /\ BeamWidth \in Nat
  BY <1>1, ThePrompts, TheCall
<1>3. BatchLen >= 1 /\ BatchLen \in Nat
  BY <1>1, <1>2, BatchIs DEF BatchLen
<1>4. 1 \in DOMAIN InstancesBatch /\ InstancesBatch[1] = prompt_start + 1
      /\ prompt_start + 1 \in 1..Len(Prompts)
  BY <1>1, <1>3, BatchIs
<1>5. beams[prompt_start + 1] # <<>>
  <2>1. /\ beams[prompt_start + 1] \in Seq(Beam)
        /\ Len(beams[prompt_start + 1]) = IF Made(prompt_start + 1) = 0 THEN 1 ELSE BeamWidth
    BY <1>4 DEF Shape
  <2>2. Len(beams[prompt_start + 1]) # 0
    BY <1>2, <2>1
  <2>3. Len(<<>>) = 0
    OBVIOUS
  <2> QED BY <2>2, <2>3
<1> QED BY <1>4, <1>5 DEF EndOfBatch

LEMMA WaitMade ==
    ASSUME Shape, Waits
    PROVE  /\ Len(Prompts)' = Len(Prompts) /\ NumSteps' = NumSteps /\ BeamWidth' = BeamWidth
           /\ \A i \in 1..Len(Prompts) : Made(i)' = Made(i)
<1>1. call' = call
  BY DEF Waits, Generate, NoLogprobs, NextBatch, Finish, vars
<1>2. /\ Len(Prompts)' = Len(Prompts) /\ NumSteps' = NumSteps /\ BeamWidth' = BeamWidth
      /\ concurrency_limit' = concurrency_limit
  BY <1>1 DEF Prompts, NumSteps, BeamWidth, concurrency_limit
<1>3. /\ Control /\ CallIn /\ prompt_start \in Nat /\ token \in Nat /\ instance \in Nat
      /\ NumSteps \in Nat /\ concurrency_limit \in Nat /\ Len(Prompts) \in Nat
  BY TheCall, ThePrompts DEF Shape, Control
<1>4. ASSUME NEW i \in 1..Len(Prompts) PROVE Made(i)' = Made(i)
  <2>1. Made(i)' = IF i <= prompt_start' THEN NumSteps
                   ELSE IF i <= prompt_start' + concurrency_limit
                        THEN token' + (IF i - prompt_start' < instance' THEN 1 ELSE 0)
                        ELSE 0
    BY <1>2 DEF Made
  <2>2. CASE Generate
    <3>1. instance' = 1 /\ instance = 0 /\ token' = token /\ prompt_start' = prompt_start
      BY <1>3, <2>2 DEF Generate, Control
    <3> QED BY <1>3, <2>1, <3>1 DEF Made
  <2>3. CASE NextBatch
    <3>1. /\ token' = 0 /\ prompt_start' = prompt_start + concurrency_limit
          /\ instance' = instance /\ instance = 0 /\ EndOfBatch
      BY <1>3, <2>3 DEF NextBatch, EndOfBatch, Control
    <3>2. token = NumSteps
      BY <3>1, <1>3, BatchMade
    <3> QED BY <1>3, <2>1, <3>1, <3>2 DEF Made
  <2>4. CASE NoLogprobs \/ Finish \/ UNCHANGED vars
    <3>1. instance' = instance /\ token' = token /\ prompt_start' = prompt_start
      BY <2>4 DEF NoLogprobs, Finish, vars
    <3> QED BY <2>1, <3>1 DEF Made
  <2> QED BY <2>2, <2>3, <2>4 DEF Waits
<1> QED BY <1>2, <1>4

LEMMA NextCases ==
    ASSUME [Next]_vars
    PROVE  Select \/ Waits
BY DEF Next, Terminated, Waits

-----------------------------------------------------------------------------
(* Whose beam a beam is, and the slices of a batch *)

StartOf(i) == <<Prompts[i]>> \o BeginTokens

\* b is n steps from where its search began.
Descends(b, start, n) ==
    /\ Len(b.steps) = n /\ Len(b.tokens) = Len(start) + n
    /\ \A k \in 1..Len(start) : b.tokens[k] = start[k]
    /\ \A k \in (Len(start) + 1)..(Len(start) + n) : b.tokens[k] \in Token

Apart(list) == \A j, k \in 1..Len(list) : list[j].tokens = list[k].tokens => j = k

\* The beams and the completed beams of a search after n steps.
Traced(list, done, start, n) ==
    /\ \A k \in 1..Len(list) : Descends(list[k], start, n)
    /\ Apart(list)
    /\ \A k \in 1..Len(done) :
          \E l \in 1..n : Descends(done[k], start, l) /\ done[k].tokens[Len(start) + l] = Eos

Lineage ==
    \A i \in 1..Len(Prompts) : Traced(beams[i], completed[i], StartOf(i), Made(i))

\* What came back for the t-th of the flat list: nothing, or a row of what the
\* model said of it.
CameBack(t) ==
    LET tokens == all_beams[t].tokens
    IN  /\ tokens \in DOMAIN said /\ said[tokens] \in Opinions[token + 1]
        /\ \/ output[t] = Missing
           \/ \E s \in MayBeSampled(said[tokens]) : IsRow(output[t], said[tokens], s)

\* The n-th slice of the flat list is the beams of its prompt.
Stands(n) ==
    LET list == beams[prompt_start + n]
    IN  /\ pos[n] \in Nat /\ pos[n + 1] = pos[n] + Len(list)
        /\ pos[n + 1] <= Len(all_beams)
        /\ \A j \in 1..Len(list) : all_beams[pos[n] + j] = list[j]

\* While there are slices to select from.
Pending ==
    phase = "select" =>
       /\ all_beams \in Seq(Beam)
       /\ output \in Seq(Seq(Entries)) /\ Len(output) = Len(all_beams)
       /\ \A t \in 1..Len(all_beams) : CameBack(t)
       /\ \A n \in instance..BatchLen : Stands(n)

LEMMA StartIs ==
    ASSUME CallIn, NEW i \in 1..Len(Prompts)
    PROVE  /\ StartOf(i) \in Seq(Words) /\ Len(StartOf(i)) = 1 + Len(BeginTokens)
           /\ Len(StartOf(i)) \in Nat /\ Len(StartOf(i)) >= 1
           /\ StartOf(i)[1] = Prompts[i]
<1>1. Prompts[i] \in Words
  BY ThePrompts DEF Words
<1>2. BeginTokens \in Seq(Words)
  <2>1. BeginTokens \in Seq(ToSet(BeginTokens)) /\ ToSet(BeginTokens) \subseteq Words
    BY TheCall DEF Words
  <2>2. ASSUME NEW S, NEW T, S \subseteq T, NEW s \in Seq(S) PROVE s \in Seq(T)
    BY <2>2
  <2> QED BY <2>1, <2>2
<1>3. PICK p : p = Prompts[i]
  OBVIOUS
<1>4. PICK u : u = BeginTokens
  OBVIOUS
<1>5. /\ <<p>> \o u \in Seq(Words) /\ Len(<<p>> \o u) = 1 + Len(u) /\ Len(u) \in Nat
      /\ (<<p>> \o u)[1] = p
  BY <1>1, <1>2, <1>3, <1>4
<1> QED BY <1>3, <1>4, <1>5 DEF StartOf

\* The flat list has no two beams with the same tokens.
LEMMA AllApart ==
    ASSUME Shape, Lineage, NEW flat, NEW p, NEW lists,
           lists = [k \in 1..BatchLen |-> beams[prompt_start + k]],
           lists \in Seq(Seq(Beam)), Len(lists) = BatchLen, CutAt(flat, p, lists)
    PROVE  \A s, t \in 1..Len(flat) : flat[s].tokens = flat[t].tokens => s = t
<1> SUFFICES ASSUME NEW s \in 1..Len(flat), NEW t \in 1..Len(flat),
                    flat[s].tokens = flat[t].tokens
             PROVE  s = t
  OBVIOUS
<1>1. Control /\ CallIn /\ prompt_start \in Nat /\ BatchLen \in Nat
  BY BatchIs DEF Shape, Control
<1>2. ASSUME NEW r \in 1..Len(flat)
      PROVE  \E k \in 1..BatchLen : \E j \in 1..Len(beams[prompt_start + k]) :
                /\ r = p[k] + j /\ flat[r] = beams[prompt_start + k][j]
                /\ prompt_start + k \in 1..Len(Prompts)
                /\ flat[r].tokens[1] = Prompts[prompt_start + k]
  <2>1. PICK k \in 1..BatchLen : \E j \in 1..Len(lists[k]) : r = p[k] + j
    <3>1. \A q \in 1..Len(flat) :
             \E k \in 1..Len(lists) : \E j \in 1..Len(lists[k]) : q = p[k] + j
      BY DEF CutAt
    <3>2. PICK k \in 1..Len(lists) : \E j \in 1..Len(lists[k]) : r = p[k] + j
      BY <3>1
    <3> QED BY <3>2
  <2>2. PICK j \in 1..Len(lists[k]) : r = p[k] + j
    BY <2>1
  <2>3. lists[k] = beams[prompt_start + k] /\ flat[r] = lists[k][j]
    BY <2>2 DEF CutAt
  <2>4. prompt_start + k \in 1..Len(Prompts)
    BY <1>1, BatchIs
  <2>5. Descends(beams[prompt_start + k][j], StartOf(prompt_start + k), Made(prompt_start + k))
    BY <2>2, <2>3, <2>4 DEF Lineage, Traced
  <2>6. flat[r].tokens[1] = StartOf(prompt_start + k)[1]
    <3>1. PICK m \in Nat : m = Len(StartOf(prompt_start + k)) /\ m >= 1
      BY <1>1, <2>4, StartIs
    <3>2. 1 \in 1..m
      BY <3>1
    <3>3. PICK b, start : b = beams[prompt_start + k][j] /\ start = StartOf(prompt_start + k)
      OBVIOUS
    <3>4. \A l \in 1..m : b.tokens[l] = start[l]
      BY <2>5, <3>1, <3>3 DEF Descends
    <3>5. flat[r] = b
      BY <2>3, <3>3
    <3>6. b.tokens[1] = start[1]
      BY <3>2, <3>4
    <3> QED BY <3>3, <3>5, <3>6, Zenon
  <2>7. flat[r].tokens[1] = Prompts[prompt_start + k]
    BY <1>1, <2>4, <2>6, StartIs
  <2> QED BY <2>2, <2>3, <2>4, <2>7
<1>3. PICK k \in 1..BatchLen : \E j \in 1..Len(beams[prompt_start + k]) :
          /\ s = p[k] + j /\ flat[s] = beams[prompt_start + k][j]
          /\ prompt_start + k \in 1..Len(Prompts)
          /\ flat[s].tokens[1] = Prompts[prompt_start + k]
  BY <1>2
<1>4. PICK j \in 1..Len(beams[prompt_start + k]) :
          /\ s = p[k] + j /\ flat[s] = beams[prompt_start + k][j]
          /\ prompt_start + k \in 1..Len(Prompts)
          /\ flat[s].tokens[1] = Prompts[prompt_start + k]
  BY <1>3
<1>5. PICK l \in 1..BatchLen : \E m \in 1..Len(beams[prompt_start + l]) :
          /\ t = p[l] + m /\ flat[t] = beams[prompt_start + l][m]
          /\ prompt_start + l \in 1..Len(Prompts)
          /\ flat[t].tokens[1] = Prompts[prompt_start + l]
  BY <1>2
<1>6. PICK m \in 1..Len(beams[prompt_start + l]) :
          /\ t = p[l] + m /\ flat[t] = beams[prompt_start + l][m]
          /\ prompt_start + l \in 1..Len(Prompts)
          /\ flat[t].tokens[1] = Prompts[prompt_start + l]
  BY <1>5
<1>7. prompt_start + k = prompt_start + l
  BY <1>1, <1>4, <1>6, ThePrompts
<1>8. k = l
  BY <1>1, <1>7
<1>9. Apart(beams[prompt_start + k])
  BY <1>4 DEF Lineage, Traced
<1>10. j = m
  BY <1>4, <1>6, <1>8, <1>9 DEF Apart
<1> QED BY <1>4, <1>6, <1>8, <1>10

LEMMA SameCall ==
    ASSUME call' = call
    PROVE  /\ Prompts' = Prompts /\ concurrency_limit' = concurrency_limit
           /\ BeamWidth' = BeamWidth /\ BeginTokens' = BeginTokens /\ EndTokens' = EndTokens
           /\ IgnoreEos' = IgnoreEos /\ Greedy' = Greedy /\ MayMiss' = MayMiss
           /\ Opinions' = Opinions /\ NumSteps' = NumSteps
           /\ CallIn' = CallIn /\ Beam' = Beam /\ \A i : StartOf(i)' = StartOf(i)
BY DEF Prompts, concurrency_limit, BeamWidth, BeginTokens, EndTokens, IgnoreEos, Greedy,
       MayMiss, Opinions, NumSteps, CallIn, Beam, Words, StartOf

\* The model is given every beam of the batch, and answers each.
Asked(answer, missing) ==
    /\ answer \in [DOMAIN all_beams' -> Says]
    /\ output' = [j \in DOMAIN answer |->
                    IF j \in missing THEN Missing ELSE answer[j].row]
    /\ LET asked == {b.tokens : b \in ToSet(all_beams')}
       IN  said' = [tokens \in asked \cup DOMAIN said |->
                      IF tokens \notin asked THEN said[tokens]
                      ELSE answer[CHOOSE j \in DOMAIN answer :
                                     all_beams'[j].tokens = tokens].says]

\* Each beam of the flat list got its own row back.
LEMMA AskedIs ==
    ASSUME CallIn, token \in Nat, token < NumSteps, NEW answer, NEW missing,
           Asked(answer, missing), all_beams' \in Seq(Beam),
           \A s, t \in 1..Len(all_beams') :
              all_beams'[s].tokens = all_beams'[t].tokens => s = t
    PROVE  /\ output' \in Seq(Seq(Entries)) /\ Len(output') = Len(all_beams')
           /\ \A t \in 1..Len(all_beams') :
                 LET tokens == all_beams'[t].tokens
                 IN  /\ tokens \in DOMAIN said' /\ said'[tokens] \in Opinions[token + 1]
                     /\ \/ output'[t] = Missing
                        \/ \E s \in MayBeSampled(said'[tokens]) :
                              IsRow(output'[t], said'[tokens], s)
           /\ DOMAIN said' = {all_beams'[t].tokens : t \in 1..Len(all_beams')} \cup DOMAIN said
           /\ \A u \in DOMAIN said :
                 (\A t \in 1..Len(all_beams') : all_beams'[t].tokens # u) => said'[u] = said[u]
<1>1. PICK n \in Nat : n = Len(all_beams') /\ DOMAIN all_beams' = 1..n
  OBVIOUS
<1>2. PICK flat : flat = all_beams'
  OBVIOUS
<1>3. DOMAIN answer = 1..n /\ \A t \in 1..n : answer[t] \in Says
  BY <1>1 DEF Asked
<1> DEFINE keys == {b.tokens : b \in ToSet(flat)}
           new == [tokens \in keys |->
                     answer[CHOOSE j \in 1..n : flat[j].tokens = tokens].says]
<1>4. said' = [u \in keys \cup DOMAIN said |->
                 IF u \notin keys THEN said[u]
                 ELSE answer[CHOOSE j \in 1..n : flat[j].tokens = u].says]
  BY <1>2, <1>3 DEF Asked
<1>5. keys = {flat[t].tokens : t \in 1..n}
  BY <1>1, <1>2 DEF ToSet
<1>6. \A u \in keys : new[u] = answer[CHOOSE j \in 1..n : flat[j].tokens = u].says
  OBVIOUS
<1>7. ASSUME NEW t \in 1..n PROVE new[flat[t].tokens] = answer[t].says
  <2>1. \A j \in 1..n : flat[j].tokens = flat[t].tokens => j = t
    BY <1>1, <1>2
  <2>2. (CHOOSE j \in 1..n : flat[j].tokens = flat[t].tokens) = t
    BY <2>1
  <2>3. flat[t].tokens \in keys
    BY <1>5
  <2> QED BY <2>2, <2>3
<1> HIDE DEF new, keys
<1>8. /\ DOMAIN said' = keys \cup DOMAIN said
      /\ \A u \in keys \cup DOMAIN said : said'[u] = IF u \in keys THEN new[u] ELSE said[u]
  BY <1>4, <1>6
<1>9. ASSUME NEW t \in 1..n
      PROVE  \E f \in Opinions[token + 1] : \E s \in MayBeSampled(f) :
                answer[t].says = f /\ answer[t].row = Row(f, s) /\ IsRow(Row(f, s), f, s)
  <2>1. PICK f \in Opinions[token + 1] : \E s \in MayBeSampled(f) :
            answer[t] = [says |-> f, row |-> Row(f, s)]
    BY <1>3 DEF Says
  <2>2. PICK s \in MayBeSampled(f) : answer[t] = [says |-> f, row |-> Row(f, s)]
    BY <2>1
  <2>3. f \in Said
    <3>1. token + 1 \in 1..NumSteps
      BY TheCall
    <3> QED BY <3>1 DEF Said
  <2>4. s \in Token
    BY DEF MayBeSampled
  <2>5. IsRow(Row(f, s), f, s)
    BY <2>3, <2>4, RowIs
  <2> QED BY <2>2, <2>5
<1>10. output' = [j \in 1..n |-> IF j \in missing THEN Missing ELSE answer[j].row]
  BY <1>3 DEF Asked
<1>11. \A t \in 1..n : output'[t] = Missing \/ output'[t] = answer[t].row
  BY <1>10
<1>12. ASSUME NEW t \in 1..n
       PROVE  /\ flat[t].tokens \in DOMAIN said'
              /\ said'[flat[t].tokens] \in Opinions[token + 1]
              /\ \/ output'[t] = Missing
                 \/ \E s \in MayBeSampled(said'[flat[t].tokens]) :
                       IsRow(output'[t], said'[flat[t].tokens], s)
  <2>1. flat[t].tokens \in keys
    BY <1>5
  <2>2. said'[flat[t].tokens] = answer[t].says
    BY <1>7, <1>8, <2>1
  <2> QED BY <1>8, <1>9, <1>11, <2>1, <2>2
<1>13. output' \in Seq(Seq(Entries)) /\ Len(output') = n
  <2>1. ASSUME NEW t \in 1..n PROVE output'[t] \in Seq(Entries)
    <3>1. Missing \in Seq(Entries)
      BY DEF Missing
    <3>2. answer[t].row \in Seq(Entries)
      BY <1>9 DEF IsRow
    <3> QED BY <1>11, <3>1, <3>2
  <2>2. output' \in [1..n -> Seq(Entries)]
    BY <1>10, <2>1
  <2> QED BY <2>2
<1>14. ASSUME NEW u \in DOMAIN said, \A t \in 1..n : flat[t].tokens # u
       PROVE  said'[u] = said[u]
  <2>1. u \notin keys
    BY <1>5, <1>14
  <2> QED BY <1>8, <2>1
<1> QED BY <1>1, <1>2, <1>5, <1>8, <1>12, <1>13, <1>14

NotAsked(u) ==
    \A n \in 1..BatchLen : \A j \in 1..Len(beams[prompt_start + n]) :
        beams[prompt_start + n][j].tokens # u

LEMMA GenerateIs ==
    ASSUME Shape, Lineage, Generate
    PROVE  /\ Pending'
           /\ \A u \in DOMAIN said : u \in DOMAIN said' /\ (NotAsked(u) => said'[u] = said[u])
<1>1. /\ Control /\ CallIn /\ prompt_start \in Nat /\ token \in Nat /\ token < NumSteps
      /\ call' = call /\ prompt_start' = prompt_start /\ token' = token /\ beams' = beams
      /\ instance' = 1
  BY DEF Shape, Control, Generate
<1>2. PICK n \in Nat : n = BatchLen /\ DOMAIN InstancesBatch = 1..n
                       /\ \A k \in 1..n : InstancesBatch[k] = prompt_start + k
                                          /\ prompt_start + k \in 1..Len(Prompts)
  BY <1>1, BatchIs
<1>3. PICK lists : lists = [k \in 1..n |-> beams[prompt_start + k]]
  OBVIOUS
<1>4. lists = [k \in DOMAIN InstancesBatch |-> beams[InstancesBatch[k]]]
  BY <1>2, <1>3
<1>5. lists \in Seq(Seq(Beam)) /\ Len(lists) = n
      /\ \A k \in 1..n : lists[k] = beams[prompt_start + k] /\ lists[k] \in Seq(Beam)
  <2>1. \A k \in 1..n : lists[k] = beams[prompt_start + k] /\ lists[k] \in Seq(Beam)
    BY <1>2, <1>3 DEF Shape
  <2>2. lists \in [1..n -> Seq(Beam)]
    BY <1>3, <2>1
  <2> QED BY <2>1, <2>2
<1>6. all_beams' = FlattenSeq(lists) /\ pos' = Offsets(lists)
  BY <1>4 DEF Generate
<1>7. CutAt(all_beams', pos', lists)
  <2>1. ASSUME NEW k \in 0..Len(lists)
        PROVE  pos'[k + 1] = Len(FlattenSeq(SubSeq(lists, 1, k)))
    <3>1. k + 1 \in 1..(Len(lists) + 1) /\ (k + 1) - 1 = k
      BY <1>5
    <3>2. pos'[k + 1] = Len(FlattenSeq(SubSeq(lists, 1, (k + 1) - 1)))
      BY <1>6, <3>1 DEF Offsets
    <3> QED BY <3>1, <3>2
  <2> QED BY <1>5, <1>6, <2>1, FlattenCut
<1>8. all_beams' \in Seq(Beam)
  BY <1>5, <1>6, FlattenType
<1>9. \A s, t \in 1..Len(all_beams') :
         all_beams'[s].tokens = all_beams'[t].tokens => s = t
  BY <1>2, <1>3, <1>5, <1>7, AllApart
<1>10. PICK answer, missing : Asked(answer, missing)
  <2>1. PICK answer \in [DOMAIN all_beams' -> Says],
             missing \in {{}} \cup IF MayMiss THEN {{j} : j \in DOMAIN all_beams'} ELSE {} :
          /\ output' = [j \in DOMAIN answer |->
                          IF j \in missing THEN Missing ELSE answer[j].row]
          /\ LET asked == {b.tokens : b \in ToSet(all_beams')}
             IN  said' = [tokens \in asked \cup DOMAIN said |->
                            IF tokens \notin asked THEN said[tokens]
                            ELSE answer[CHOOSE j \in DOMAIN answer :
                                           all_beams'[j].tokens = tokens].says]
    BY Zenon DEF Generate
  <2>2. Asked(answer, missing)
    BY <2>1, Zenon DEF Asked
  <2> QED BY <2>2
<1>11. /\ output' \in Seq(Seq(Entries)) /\ Len(output') = Len(all_beams')
       /\ \A t \in 1..Len(all_beams') :
                 LET tokens == all_beams'[t].tokens
                 IN  /\ tokens \in DOMAIN said' /\ said'[tokens] \in Opinions[token + 1]
                     /\ \/ output'[t] = Missing
                        \/ \E s \in MayBeSampled(said'[tokens]) :
                              IsRow(output'[t], said'[tokens], s)
       /\ DOMAIN said' = {all_beams'[t].tokens : t \in 1..Len(all_beams')} \cup DOMAIN said
       /\ \A u \in DOMAIN said :
             (\A t \in 1..Len(all_beams') : all_beams'[t].tokens # u) => said'[u] = said[u]
  BY <1>1, <1>8, <1>9, <1>10, AskedIs
<1>12. ASSUME NEW t \in 1..Len(all_beams')
       PROVE  CameBack(t)'
  <2>1. Opinions' = Opinions /\ BeamWidth' = BeamWidth /\ Greedy' = Greedy
    BY <1>1, SameCall
  <2>2. PICK w : w = all_beams'[t].tokens
    OBVIOUS
  <2>3. PICK g, r : g = said'[w] /\ r = output'[t]
    OBVIOUS
  <2>4. /\ w \in DOMAIN said' /\ g \in Opinions[token + 1]
        /\ r = Missing \/ \E s \in MayBeSampled(g) : IsRow(r, g, s)
    BY <1>11, <2>2, <2>3
  <2> QED BY <1>1, <2>1, <2>2, <2>3, <2>4
          DEF CameBack, Missing, MayBeSampled, IsRow, Entry
<1>13. ASSUME NEW k \in 1..n PROVE Stands(k)'
  <2>1. k \in 1..Len(lists) /\ lists[k] = beams[prompt_start + k]
    BY <1>5
  <2>2. /\ pos'[k] \in Nat /\ pos'[k + 1] = pos'[k] + Len(lists[k])
        /\ pos'[k + 1] <= Len(all_beams')
        /\ \A j \in 1..Len(lists[k]) : all_beams'[pos'[k] + j] = lists[k][j]
    BY <1>7, <2>1 DEF CutAt
  <2> QED BY <1>1, <2>1, <2>2 DEF Stands
<1>14. BatchLen' = n
  <2>1. Prompts' = Prompts /\ concurrency_limit' = concurrency_limit
    BY <1>1, SameCall
  <2> QED BY <1>1, <1>2, <2>1 DEF BatchLen
<1>15. Pending'
  <2>1. output' \in Seq(Seq(Entries)) /\ Len(output') = Len(all_beams')
    BY <1>11
  <2>2. \A k \in instance'..BatchLen' : Stands(k)'
    BY <1>1, <1>13, <1>14
  <2>3. Beam' = Beam
    BY <1>1, SameCall
  <2> QED BY <1>8, <1>12, <2>1, <2>2, <2>3 DEF Pending
<1>16. ASSUME NEW u \in DOMAIN said PROVE u \in DOMAIN said' /\ (NotAsked(u) => said'[u] = said[u])
  <2>1. ASSUME NotAsked(u), NEW t \in 1..Len(all_beams') PROVE all_beams'[t].tokens # u
    <3>1. PICK k \in 1..Len(lists) : \E j \in 1..Len(lists[k]) : t = pos'[k] + j
      BY <1>7 DEF CutAt
    <3>2. PICK j \in 1..Len(lists[k]) : t = pos'[k] + j
      BY <3>1
    <3>3. all_beams'[t] = lists[k][j] /\ k \in 1..n /\ lists[k] = beams[prompt_start + k]
      BY <1>5, <1>7, <3>2 DEF CutAt
    <3> QED BY <1>2, <2>1, <3>2, <3>3 DEF NotAsked
  <2> QED BY <1>11, <2>1
<1> QED BY <1>15, <1>16

-----------------------------------------------------------------------------
(* A step of the search of one prompt *)

\* d is what the model was asked about a beam with these tokens.
Informed(d, tokens) ==
    /\ tokens \in DOMAIN said /\ said[tokens] \in Opinions[token + 1]
    /\ Offers(d, said[tokens])
    /\ Greedy => OffersBest(d, said[tokens])

\* The i-th prompt goes on from the candidates e, which end, and t.
Chosen(i, data, e, t) ==
    /\ Rows(beams[i], data)
    /\ \A b \in 1..Len(beams[i]) : Informed(data[b], beams[i][b].tokens)
    /\ Selected(beams[i], data, e, t)
    /\ completed' = [completed EXCEPT ![i] =
                       @ \o [k \in 1..Len(e) |-> EndedChild(beams[i], data, e[k])]]
    /\ beams' = [beams EXCEPT ![i] =
                       [k \in 1..BeamWidth |-> KeptChild(beams[i], data, t[k])]]

\* What Select does with the candidates c of its slice.
Grows(i, cur, cache, c, t) ==
    /\ completed' = [completed EXCEPT ![i] = @ \o
              [k \in DOMAIN EosIdx(c) |-> Child(cur, cache, c, EosIdx(c)[k], "stop")]]
    /\ beams' = [beams EXCEPT ![i] =
              [k \in DOMAIN t |-> Child(cur, cache, WithoutEos(c), t[k], "length")]]

LEMMA SelectGrows ==
    ASSUME Select
    PROVE  LET cur == Slice(all_beams)
               cache == FlatCache(Slice(output))
               c == Candidates(cur, cache)
           IN  \E t \in TopN(WithoutEos(c)) :
                  Grows(InstancesBatch[instance], cur, cache, c, t)
BY DEF Select, Grows

LEMMA SelectIs ==
    ASSUME Shape, Pending, Select
    PROVE  \E data, e, t : Chosen(prompt_start + instance, data, e, t)
<1>1. /\ Control /\ CallIn /\ token \in Nat /\ token < NumSteps /\ NumSteps \in Nat
      /\ phase = "select"
  BY TheCall DEF Shape, Control, Select
<1>2. PICK i \in 1..Len(Prompts) : i = prompt_start + instance
                                  /\ InstancesBatch[instance] = i
                                  /\ instance \in 1..BatchLen
  BY <1>1, SelectMade
<1>3. PICK cur : cur = beams[i]
  OBVIOUS
<1>4. PICK B \in Nat : B = Len(cur) /\ B >= 1 /\ cur \in Seq(Beam)
  <2>1. cur \in Seq(Beam) /\ Len(cur) = IF Made(i) = 0 THEN 1 ELSE BeamWidth
    BY <1>3 DEF Shape
  <2>2. BeamWidth \in Nat /\ BeamWidth >= 1
    BY <1>1, TheCall
  <2> QED BY <2>1, <2>2
<1>5. Stands(instance) /\ all_beams \in Seq(Beam)
      /\ output \in Seq(Seq(Entries)) /\ Len(output) = Len(all_beams)
      /\ \A s \in 1..Len(all_beams) : CameBack(s)
  <2>1. instance \in instance..BatchLen
    BY <1>1, <1>2, BatchIs
  <2> QED BY <1>1, <2>1 DEF Pending
<1>6. PICK a \in Nat : /\ a = pos[instance] /\ pos[instance + 1] = a + B
                       /\ a + B <= Len(all_beams)
                       /\ \A j \in 1..B : all_beams[a + j] = cur[j]
  <2>1. /\ pos[instance] \in Nat
        /\ pos[instance + 1] = pos[instance] + Len(beams[prompt_start + instance])
        /\ pos[instance + 1] <= Len(all_beams)
        /\ \A j \in 1..Len(beams[prompt_start + instance]) :
              all_beams[pos[instance] + j] = beams[prompt_start + instance][j]
    BY <1>5 DEF Stands
  <2>2. beams[prompt_start + instance] = cur
    BY <1>2, <1>3
  <2> QED BY <1>4, <2>1, <2>2
<1>7. Slice(all_beams) = cur
  <2>1. SubSeq(all_beams, a + 1, a + Len(cur)) = cur
    BY <1>4, <1>5, <1>6, CutIs
  <2> QED BY <1>4, <1>6, <2>1 DEF Slice
<1>8. PICK rows : rows = [j \in 1..B |-> output[a + j]]
  OBVIOUS
<1>9. PICK l \in Nat : l = Len(all_beams) /\ l = Len(output)
  BY <1>5
<1>10. \A j \in 1..B : a + j \in 1..l /\ output[a + j] \in Seq(Entries)
  <2>1. \A j \in 1..B : a + j \in 1..l
    BY <1>6, <1>9
  <2>2. \A m \in 1..l : output[m] \in Seq(Entries)
    BY <1>5, <1>9
  <2> QED BY <2>1, <2>2
<1>11. rows \in Seq(Seq(Entries)) /\ Len(rows) = B /\ DOMAIN rows = 1..B
       /\ \A j \in 1..B : rows[j] = output[a + j]
  <2>1. rows \in [1..B -> Seq(Entries)]
    BY <1>8, <1>10
  <2>2. rows \in Seq(Seq(Entries)) /\ Len(rows) = B /\ DOMAIN rows = 1..B
    BY <2>1
  <2> QED BY <1>8, <2>2
<1>12. Slice(output) = rows
  <2>1. SubSeq(output, a + 1, a + Len(rows)) = rows
    BY <1>5, <1>6, <1>9, <1>11, CutIs
  <2> QED BY <1>6, <1>11, <2>1 DEF Slice
<1>13. PICK data : data = FlatCache(rows)
  OBVIOUS
<1>14. data = [b \in 1..B |-> Dedup(rows[b])]
  BY <1>11, <1>13 DEF FlatCache
<1>15. ASSUME NEW b \in 1..B PROVE Informed(data[b], cur[b].tokens)
  <2>1. CameBack(a + b) /\ all_beams[a + b] = cur[b] /\ output[a + b] = rows[b]
    BY <1>5, <1>6, <1>9, <1>10, <1>11
  <2>2. PICK w : w = cur[b].tokens
    OBVIOUS
  <2>3. /\ w \in DOMAIN said /\ said[w] \in Opinions[token + 1]
        /\ rows[b] = Missing \/ \E s \in MayBeSampled(said[w]) : IsRow(rows[b], said[w], s)
    BY <2>1, <2>2 DEF CameBack
  <2>4. rows[b] # Missing
    <3>1. Missing \notin ToSet(rows)
      BY <1>12 DEF Select
    <3> QED BY <1>11, <3>1 DEF ToSet
  <2>5. said[w] \in Said
    <3>1. token + 1 \in 1..NumSteps
      BY <1>1
    <3> QED BY <2>3, <3>1 DEF Said
  <2>6. PICK s \in MayBeSampled(said[w]) : IsRow(rows[b], said[w], s)
    BY <2>3, <2>4
  <2>7. Offers(Dedup(rows[b]), said[w]) /\ (Greedy => OffersBest(Dedup(rows[b]), said[w]))
    BY <1>1, <2>5, <2>6, DedupIs
  <2>8. data[b] = Dedup(rows[b])
    BY <1>14
  <2> QED BY <2>2, <2>3, <2>7, <2>8 DEF Informed
<1>16. Rows(cur, data)
  <2>1. ASSUME NEW b \in 1..B PROVE data[b] \in Seq(Entries) /\ Len(data[b]) = BeamWidth
    BY <1>15 DEF Informed, Offers
  <2>2. data \in [1..B -> Seq(Entries)]
    BY <1>14, <2>1
  <2>3. data \in Seq(Seq(Entries)) /\ Len(data) = B
    BY <2>2
  <2> QED BY <1>4, <2>1, <2>3 DEF Rows
<1>17. PICK c : c = Candidates(cur, data)
  OBVIOUS
<1>18. PICK t \in TopN(WithoutEos(c)) : Grows(i, cur, data, c, t)
  BY <1>2, <1>7, <1>12, <1>13, <1>17, SelectGrows
<1>19. PICK e : e = EosIdx(c)
  OBVIOUS
<1>20. /\ Selected(cur, data, e, t)
       /\ [k \in DOMAIN EosIdx(c) |-> Child(cur, data, c, EosIdx(c)[k], "stop")]
             = [k \in 1..Len(e) |-> EndedChild(cur, data, e[k])]
       /\ [k \in DOMAIN t |-> Child(cur, data, WithoutEos(c), t[k], "length")]
             = [k \in 1..BeamWidth |-> KeptChild(cur, data, t[k])]
  BY <1>1, <1>16, <1>17, <1>19, SelectedIs
<1>21. Chosen(i, data, e, t)
  BY <1>3, <1>4, <1>15, <1>16, <1>18, <1>19, <1>20 DEF Chosen, Grows
<1> QED BY <1>2, <1>21

\* c is b with the token x and the entries d.
Longer(c, b, x, d) ==
    /\ Len(b.tokens) \in Nat /\ Len(c.tokens) = Len(b.tokens) + 1
    /\ \A k \in 1..Len(b.tokens) : c.tokens[k] = b.tokens[k]
    /\ c.tokens[Len(b.tokens) + 1] = x
    /\ Len(b.steps) \in Nat /\ Len(c.steps) = Len(b.steps) + 1
    /\ \A k \in 1..Len(b.steps) : c.steps[k] = b.steps[k]
    /\ c.steps[Len(b.steps) + 1] = d

\* A child is a beam, one token and one step longer.
LEMMA ChildIs ==
    ASSUME CallIn, NEW cur, NEW data, Rows(cur, data), NEW p \in Places(cur),
           NEW cum \in Int, NEW reason \in {"length", "stop"}, NEW c,
           c = ChildAt(cur, data, p, cum, reason)
    PROVE  /\ c \in Beam /\ c.cum = cum /\ c.reason = reason
           /\ Longer(c, cur[Owner(p)], TokenAt(data, p), data[Owner(p)])
<1>1. PICK b : b = cur[Owner(p)] /\ b \in Beam
  BY PlaceFacts
<1>2. b.tokens \in Seq(Words) /\ b.steps \in Seq(Seq(Entries))
  BY <1>1 DEF Beam
<1>3. PICK d : d = data[Owner(p)] /\ d \in Seq(Entries)
  BY PlaceFacts
<1>4. PICK t : t = TokenAt(data, p) /\ t \in Words
  <2>1. TokenAt(data, p) \in Words
    BY PlaceFacts DEF Words
  <2> QED BY <2>1
<1>5. c = [tokens |-> Append(b.tokens, t), cum |-> cum, reason |-> reason,
           steps |-> Append(b.steps, d)]
  BY <1>1, <1>3, <1>4 DEF ChildAt
<1>6. PICK u, s : u = b.tokens /\ s = b.steps
  OBVIOUS
<1>7. /\ Append(u, t) \in Seq(Words) /\ Len(u) \in Nat /\ Len(Append(u, t)) = Len(u) + 1
      /\ \A k \in 1..Len(u) : Append(u, t)[k] = u[k]
      /\ Append(u, t)[Len(u) + 1] = t
  BY <1>2, <1>4, <1>6, AppendProperties
<1>8. /\ Append(s, d) \in Seq(Seq(Entries)) /\ Len(s) \in Nat /\ Len(Append(s, d)) = Len(s) + 1
      /\ \A k \in 1..Len(s) : Append(s, d)[k] = s[k]
      /\ Append(s, d)[Len(s) + 1] = d
  BY <1>2, <1>3, <1>6, AppendProperties
<1>9. c \in Beam /\ c.cum = cum /\ c.reason = reason
      /\ c.tokens = Append(u, t) /\ c.steps = Append(s, d)
  BY <1>5, <1>6, <1>7, <1>8 DEF Beam
<1>10. Longer(c, b, t, d)
  BY <1>6, <1>7, <1>8, <1>9 DEF Longer
<1> QED BY <1>1, <1>3, <1>4, <1>9, <1>10

LEMMA ChildDescends ==
    ASSUME CallIn, NEW cur, NEW data, Rows(cur, data), NEW p \in Places(cur),
           NEW cum \in Int, NEW reason \in {"length", "stop"}, NEW c,
           c = ChildAt(cur, data, p, cum, reason),
           NEW start, Len(start) \in Nat, NEW n \in Nat, Descends(cur[Owner(p)], start, n)
    PROVE  Descends(c, start, n + 1) /\ c.tokens[Len(start) + (n + 1)] = TokenAt(data, p)
<1>1. PICK b : b = cur[Owner(p)]
  OBVIOUS
<1>2. PICK f \in Nat : f = Len(start)
  OBVIOUS
<1>3. /\ Len(b.steps) = n /\ Len(b.tokens) = f + n
      /\ \A k \in 1..f : b.tokens[k] = start[k]
      /\ \A k \in (f + 1)..(f + n) : b.tokens[k] \in Token
  BY <1>1, <1>2 DEF Descends
<1>4. /\ Len(c.tokens) = f + n + 1 /\ Len(c.steps) = n + 1
      /\ \A k \in 1..(f + n) : c.tokens[k] = b.tokens[k]
      /\ c.tokens[f + n + 1] = TokenAt(data, p)
  <2>1. Longer(c, b, TokenAt(data, p), data[Owner(p)])
    BY <1>1, ChildIs
  <2> QED BY <1>3, <2>1 DEF Longer
<1>5. TokenAt(data, p) \in Token
  BY PlaceFacts
<1>6. ASSUME NEW k \in 1..f PROVE c.tokens[k] = start[k]
  <2>1. k \in 1..(f + n)
    OBVIOUS
  <2> QED BY <1>3, <1>4, <2>1
<1>7. ASSUME NEW k \in (f + 1)..(f + (n + 1)) PROVE c.tokens[k] \in Token
  <2>1. CASE k = f + n + 1
    BY <1>4, <1>5, <2>1
  <2>2. CASE k # f + n + 1
    <3>1. k \in 1..(f + n) /\ k \in (f + 1)..(f + n)
      BY <2>2
    <3> QED BY <1>3, <1>4, <3>1
  <2> QED BY <2>1, <2>2
<1>8. f + (n + 1) = f + n + 1
  OBVIOUS
<1> QED BY <1>2, <1>4, <1>6, <1>7, <1>8 DEF Descends

\* What a step does, place by place.
LEMMA ChosenIs ==
    ASSUME Shape, NEW i \in 1..Len(Prompts), NEW data, NEW e, NEW t, Chosen(i, data, e, t)
    PROVE  /\ beams' \in [1..Len(Prompts) -> Seq(Beam)]
           /\ completed' \in [1..Len(Prompts) -> Seq(Beam)]
           /\ \A j \in 1..Len(Prompts) :
                 j # i => beams'[j] = beams[j] /\ completed'[j] = completed[j]
           /\ Len(beams'[i]) = BeamWidth
           /\ \A k \in 1..BeamWidth : /\ t[k] \in Places(beams[i])
                                      /\ beams'[i][k] = KeptChild(beams[i], data, t[k])
           /\ Len(e) \in Nat /\ Len(completed[i]) \in Nat
           /\ Len(completed'[i]) = Len(completed[i]) + Len(e)
           /\ \A k \in 1..Len(completed[i]) : completed'[i][k] = completed[i][k]
           /\ \A k \in 1..Len(e) :
                 /\ e[k] \in Places(beams[i]) /\ EndsAt(data, e[k])
                 /\ completed'[i][Len(completed[i]) + k] = EndedChild(beams[i], data, e[k])
<1>1. CallIn /\ beams \in [1..Len(Prompts) -> Seq(Beam)]
      /\ completed \in [1..Len(Prompts) -> Seq(Beam)]
  BY DEF Shape, Control
<1>2. PICK cur : cur = beams[i] /\ Rows(cur, data) /\ Selected(cur, data, e, t)
  BY DEF Chosen
<1>3. PICK W \in Nat : W = BeamWidth
  BY <1>1, TheCall
<1> DEFINE kept == [k \in 1..W |-> KeptChild(cur, data, t[k])]
           ended == [k \in 1..Len(e) |-> EndedChild(cur, data, e[k])]
<1>4. /\ completed' = [completed EXCEPT ![i] = @ \o ended]
      /\ beams' = [beams EXCEPT ![i] = kept]
  BY <1>2, <1>3 DEF Chosen
<1>5. /\ e \in Seq(Places(cur)) /\ Len(e) \in Nat
      /\ \A k \in 1..Len(e) : e[k] \in Places(cur) /\ EndsAt(data, e[k])
      /\ \A k \in 1..W : t[k] \in Places(cur)
  <2>1. e \in Seq(Places(cur))
    BY <1>2 DEF Selected
  <2>2. Len(e) \in Nat /\ \A k \in 1..Len(e) : e[k] \in Places(cur)
    BY <2>1
  <2> QED BY <1>2, <1>3, <2>1, <2>2 DEF Selected
<1>6. ASSUME NEW k \in 1..W PROVE kept[k] = KeptChild(cur, data, t[k]) /\ kept[k] \in Beam
  <2>1. kept[k] = KeptChild(cur, data, t[k])
    OBVIOUS
  <2>2. KeptScoreAt(cur, data, t[k]) \in Int
    BY <1>1, <1>2, <1>5, PlaceFacts
  <2>3. KeptChild(cur, data, t[k]) \in Beam
    BY <1>1, <1>2, <1>5, <2>2, ChildIs DEF KeptChild
  <2> QED BY <2>1, <2>3
<1>7. ASSUME NEW k \in 1..Len(e)
      PROVE  ended[k] = EndedChild(cur, data, e[k]) /\ ended[k] \in Beam
  <2>1. ended[k] = EndedChild(cur, data, e[k])
    OBVIOUS
  <2>2. ScoreAt(cur, data, e[k]) \in Int
    BY <1>1, <1>2, <1>5, PlaceFacts
  <2>3. EndedChild(cur, data, e[k]) \in Beam
    BY <1>1, <1>2, <1>5, <2>2, ChildIs DEF EndedChild
  <2> QED BY <2>1, <2>3
<1>8. /\ kept = [k \in 1..W |-> kept[k]] /\ ended = [k \in 1..Len(e) |-> ended[k]]
  OBVIOUS
<1> HIDE DEF kept, ended
<1>9. kept \in Seq(Beam) /\ Len(kept) = W
  <2>1. kept \in [1..W -> Beam]
    BY <1>6, <1>8
  <2> QED BY <2>1
<1>10. ended \in Seq(Beam) /\ Len(ended) = Len(e)
  <2>1. ended \in [1..Len(e) -> Beam]
    BY <1>7, <1>8
  <2> QED BY <1>5, <2>1
<1>11. PICK done : done = completed[i] /\ done \in Seq(Beam) /\ Len(done) \in Nat
  <2>1. completed[i] \in Seq(Beam)
    BY <1>1
  <2> QED BY <2>1
<1>12. /\ done \o ended \in Seq(Beam) /\ Len(done \o ended) = Len(done) + Len(e)
       /\ \A k \in 1..Len(done) : (done \o ended)[k] = done[k]
       /\ \A k \in 1..Len(e) : (done \o ended)[Len(done) + k] = ended[k]
  <2>1. /\ done \o ended \in Seq(Beam)
        /\ Len(done \o ended) = Len(done) + Len(e)
    BY <1>10, <1>11
  <2>2. \A k \in 1..Len(done) : (done \o ended)[k] = done[k]
    BY <1>10, <1>11
  <2>3. ASSUME NEW k \in 1..Len(e) PROVE (done \o ended)[Len(done) + k] = ended[k]
    <3>1. PICK m \in Nat, n \in Nat : m = Len(ended) /\ m = Len(e) /\ n = Len(done)
      BY <1>5, <1>10, <1>11
    <3>2. n + k \in (n + 1)..(n + m) /\ (n + k) - n = k
      BY <3>1
    <3>3. (done \o ended)[n + k] = ended[(n + k) - n]
      BY <1>10, <1>11, <3>1, <3>2, ConcatProperties
    <3> QED BY <3>1, <3>2, <3>3
  <2> QED BY <2>1, <2>2, <2>3
<1>13. beams'[i] = kept /\ completed'[i] = done \o ended
  BY <1>1, <1>4, <1>11
<1>14. /\ beams' \in [1..Len(Prompts) -> Seq(Beam)]
       /\ completed' \in [1..Len(Prompts) -> Seq(Beam)]
       /\ \A j \in 1..Len(Prompts) :
             j # i => beams'[j] = beams[j] /\ completed'[j] = completed[j]
  <2>1. done \o ended = completed[i] \o ended
    BY <1>11
  <2> QED BY <1>1, <1>4, <1>9, <1>12, <2>1
<1> QED BY <1>2, <1>3, <1>5, <1>6, <1>7, <1>9, <1>11, <1>12, <1>13, <1>14

-----------------------------------------------------------------------------
(* The beams of a prompt, and the slices that are left, as the search goes on *)

\* Candidates at different places are different beams.
LEMMA PlacesApart ==
    ASSUME CallIn, NEW cur, NEW data, Rows(cur, data), Apart(cur),
           \A b \in 1..Len(cur) : Informed(data[b], cur[b].tokens),
           NEW p \in Places(cur), NEW q \in Places(cur),
           Append(cur[Owner(p)].tokens, TokenAt(data, p))
              = Append(cur[Owner(q)].tokens, TokenAt(data, q))
    PROVE  p = q
<1>1. /\ Owner(p) \in 1..Len(cur) /\ Rank(p) \in 1..BeamWidth
      /\ PlaceAt(BeamWidth, Owner(p), Rank(p)) = p /\ TokenAt(data, p) \in Token
      /\ Owner(q) \in 1..Len(cur) /\ Rank(q) \in 1..BeamWidth
      /\ PlaceAt(BeamWidth, Owner(q), Rank(q)) = q /\ TokenAt(data, q) \in Token
      /\ cur[Owner(p)] \in Beam /\ cur[Owner(q)] \in Beam
  BY PlaceFacts
<1>2. PICK u, v : u = cur[Owner(p)].tokens /\ v = cur[Owner(q)].tokens
                  /\ u \in Seq(Words) /\ v \in Seq(Words)
  <2>1. cur[Owner(p)].tokens \in Seq(Words) /\ cur[Owner(q)].tokens \in Seq(Words)
    BY <1>1 DEF Beam
  <2> QED BY <2>1
<1>3. PICK x, y : x = TokenAt(data, p) /\ y = TokenAt(data, q) /\ x \in Words /\ y \in Words
  <2>1. TokenAt(data, p) \in Words /\ TokenAt(data, q) \in Words
    BY <1>1 DEF Words
  <2> QED BY <2>1
<1>4. Append(u, x) = Append(v, y)
  BY <1>2, <1>3
<1>5. u = v /\ x = y
  <2>1. PICK S : S = Words
    OBVIOUS
  <2>2. u \in Seq(S) /\ v \in Seq(S) /\ x \in S /\ y \in S
    BY <1>2, <1>3, <2>1
  <2> QED BY <1>4, <2>2, AppendInjective
<1>6. Owner(p) = Owner(q)
  BY <1>1, <1>2, <1>5 DEF Apart
<1>7. PICK b \in 1..Len(cur) : b = Owner(p)
  BY <1>1
<1>8. data[b][Rank(p)].token = data[b][Rank(q)].token
  BY <1>3, <1>5, <1>6, <1>7 DEF TokenAt
<1>9. \A j, k \in 1..BeamWidth : data[b][j].token = data[b][k].token => j = k
  BY DEF Informed, Offers
<1>10. Rank(p) = Rank(q)
  BY <1>1, <1>8, <1>9
<1> QED BY <1>1, <1>6, <1>10

LEMMA SelectControl ==
    ASSUME Control, Select
    PROVE  Control' /\ call' = call
<1>1. /\ instance \in 1..BatchLen /\ token < NumSteps /\ prompt_start \in Nat
      /\ CallIn /\ token \in 0..NumSteps /\ phase = "select"
      /\ (prompt_start = 0 \/ prompt_start < Len(Prompts))
  BY DEF Control, Select
<1>2. call' = call /\ prompt_start' = prompt_start
  BY DEF Select
<1>3. /\ CallIn' /\ Prompts' = Prompts /\ NumSteps' = NumSteps
      /\ concurrency_limit' = concurrency_limit
  BY <1>1, <1>2, SameCall
<1>4. BatchLen' = BatchLen /\ BatchLen \in Nat /\ Len(InstancesBatch) = BatchLen
      /\ NumSteps \in Nat
  BY <1>1, <1>2, <1>3, BatchIs, TheCall DEF BatchLen
<1>5. CASE instance < BatchLen
  <2>1. instance' = instance + 1 /\ phase' = phase /\ token' = token
    BY <1>4, <1>5 DEF Select
  <2> QED BY <1>1, <1>2, <1>3, <1>4, <1>5, <2>1 DEF Control
<1>6. CASE ~(instance < BatchLen)
  <2>1. instance' = 0 /\ phase' = "generate" /\ token' = token + 1
    BY <1>4, <1>6 DEF Select
  <2>2. token' \in 0..NumSteps
    BY <1>1, <1>4, <2>1
  <2> QED BY <1>1, <1>2, <1>3, <1>4, <2>1, <2>2 DEF Control
<1> QED BY <1>2, <1>5, <1>6

\* A search whose beams are cur and whose completed beams are done goes on with
\* the candidates e, which end, and t: to the beams list and the completed beams
\* more.
OneStep(cur, done, list, more, data, e, t) ==
    /\ Rows(cur, data) /\ Selected(cur, data, e, t)
    /\ \A b \in 1..Len(cur) : Informed(data[b], cur[b].tokens)
    /\ Len(list) = BeamWidth
    /\ \A k \in 1..BeamWidth : list[k] = KeptChild(cur, data, t[k])
    /\ Len(done) \in Nat /\ Len(more) = Len(done) + Len(e)
    /\ \A k \in 1..Len(done) : more[k] = done[k]
    /\ \A k \in 1..Len(e) : more[Len(done) + k] = EndedChild(cur, data, e[k])

\* A step takes a search one step further.
LEMMA TracedOn ==
    ASSUME CallIn, NEW cur, NEW data, NEW e, NEW t, NEW done, NEW list, NEW more,
           OneStep(cur, done, list, more, data, e, t),
           NEW start, Len(start) \in Nat, NEW m \in Nat, Traced(cur, done, start, m)
    PROVE  /\ Traced(list, more, start, m + 1)
           /\ \A k \in 1..Len(list) : list[k] \in Beam /\ list[k].reason = "length"
           /\ \A k \in 1..Len(more) :
                 (\E l \in 1..Len(done) : more[k] = done[l]) \/ more[k].reason = "stop"
<1> USE DEF OneStep
<1>1. PICK W \in Nat : W = BeamWidth /\ W >= 1
  BY TheCall
<1>2. PICK n \in Nat, x \in Nat, s \in Nat : n = Len(done) /\ x = Len(e) /\ s = Len(start)
  <2>1. e \in Seq(Places(cur))
    BY DEF Selected
  <2>2. Len(e) \in Nat
    BY <2>1
  <2> QED BY <2>2
<1>3. \A k \in 1..W : t[k] \in Places(cur)
  BY <1>1 DEF Selected
<1>4. \A k \in 1..x : e[k] \in Places(cur) /\ EndsAt(data, e[k])
  <2>1. e \in Seq(Places(cur))
    BY DEF Selected
  <2>2. \A k \in 1..x : e[k] \in Places(cur)
    BY <1>2, <2>1
  <2> QED BY <1>2, <2>2 DEF Selected
<1>5. ASSUME NEW p \in Places(cur)
      PROVE  Descends(cur[Owner(p)], start, m) /\ ScoreAt(cur, data, p) \in Int
             /\ KeptScoreAt(cur, data, p) \in Int
  <2>1. Owner(p) \in 1..Len(cur) /\ ScoreAt(cur, data, p) \in Int
        /\ KeptScoreAt(cur, data, p) \in Int
    BY PlaceFacts
  <2> QED BY <2>1 DEF Traced
<1>6. ASSUME NEW k \in 1..W
      PROVE  /\ list[k].tokens = Append(cur[Owner(t[k])].tokens, TokenAt(data, t[k]))
             /\ list[k] \in Beam /\ list[k].reason = "length"
             /\ Descends(list[k], start, m + 1)
  <2>1. PICK p \in Places(cur) : p = t[k]
    BY <1>3
  <2>2. PICK c : c = KeptChild(cur, data, p) /\ c = list[k]
    BY <1>1, <2>1
  <2>3. c = ChildAt(cur, data, p, KeptScoreAt(cur, data, p), "length")
    BY <2>2 DEF KeptChild
  <2>4. c.tokens = Append(cur[Owner(p)].tokens, TokenAt(data, p))
    BY <2>3 DEF ChildAt
  <2>5. KeptScoreAt(cur, data, p) \in Int
    BY <1>5
  <2>6. c \in Beam /\ c.reason = "length"
    BY <2>3, <2>5, ChildIs
  <2>7. Descends(c, start, m + 1)
    BY <1>5, <2>3, <2>5, ChildDescends
  <2> QED BY <2>1, <2>2, <2>4, <2>6, <2>7
<1>7. Apart(list)
  <2> SUFFICES ASSUME NEW j \in 1..W, NEW k \in 1..W, list[j].tokens = list[k].tokens
               PROVE  j = k
    BY <1>1 DEF Apart
  <2>1. Apart(cur)
    BY DEF Traced
  <2>2. PICK p \in Places(cur), q \in Places(cur) : p = t[j] /\ q = t[k]
    BY <1>3
  <2>3. Append(cur[Owner(p)].tokens, TokenAt(data, p))
           = Append(cur[Owner(q)].tokens, TokenAt(data, q))
    BY <1>6, <2>2
  <2>4. p = q
    BY <2>1, <2>3, PlacesApart
  <2> QED BY <1>1, <2>2, <2>4 DEF Selected
<1>8. ASSUME NEW k \in 1..(n + x)
      PROVE  /\ \E l \in 1..(m + 1) : /\ Descends(more[k], start, l)
                                       /\ more[k].tokens[Len(start) + l] = Eos
             /\ (\E l \in 1..Len(done) : more[k] = done[l]) \/ more[k].reason = "stop"
  <2>1. CASE k \in 1..n
    <3>1. more[k] = done[k]
      BY <1>2, <2>1
    <3>2. \A j \in 1..n : \E l \in 1..m : Descends(done[j], start, l)
                                          /\ done[j].tokens[Len(start) + l] = Eos
      BY <1>2 DEF Traced
    <3>3. PICK l \in 1..m : Descends(done[k], start, l) /\ done[k].tokens[Len(start) + l] = Eos
      BY <2>1, <3>2
    <3>4. l \in 1..(m + 1)
      OBVIOUS
    <3> QED BY <1>2, <2>1, <3>1, <3>3, <3>4
  <2>2. CASE k \notin 1..n
    <3>1. PICK j \in 1..x : k = n + j
      <4>1. k - n \in 1..x /\ k = n + (k - n)
        BY <2>2
      <4> QED BY <4>1
    <3>2. PICK p \in Places(cur) : p = e[j] /\ EndsAt(data, p)
      BY <1>4
    <3>3. PICK c : c = EndedChild(cur, data, p) /\ c = more[k]
      BY <1>2, <3>1, <3>2
    <3>4. c = ChildAt(cur, data, p, ScoreAt(cur, data, p), "stop")
      BY <3>3 DEF EndedChild
    <3>5. ScoreAt(cur, data, p) \in Int
      BY <1>5
    <3>6. Descends(c, start, m + 1) /\ c.tokens[Len(start) + (m + 1)] = TokenAt(data, p)
      BY <1>5, <3>4, <3>5, ChildDescends
    <3>7. m + 1 \in 1..(m + 1) /\ TokenAt(data, p) = Eos /\ c.reason = "stop"
      BY <3>2, <3>4 DEF EndsAt, ChildAt
    <3> QED BY <3>3, <3>6, <3>7
  <2> QED BY <2>1, <2>2
<1>9. Len(list) = W /\ Len(more) = n + x
  BY <1>1, <1>2
<1> QED BY <1>6, <1>7, <1>8, <1>9 DEF Traced

LEMMA SelectBase ==
    ASSUME Shape, Lineage, Pending, Select
    PROVE  Shape' /\ Lineage' /\ Pending'
<1>1. Control /\ CallIn /\ Control' /\ call' = call
  BY SelectControl DEF Shape, Control
<1>2. PICK i \in 1..Len(Prompts) : i = prompt_start + instance
  BY <1>1, SelectMade
<1>3. PICK data, e, t : Chosen(i, data, e, t)
  BY <1>2, SelectIs
<1>4. Len(Prompts) \in Nat
  BY <1>1, ThePrompts
<1>5. /\ Prompts' = Prompts /\ BeamWidth' = BeamWidth /\ Beam' = Beam
      /\ Opinions' = Opinions /\ Greedy' = Greedy /\ BatchLen' = BatchLen
      /\ prompt_start' = prompt_start /\ \A j : StartOf(j)' = StartOf(j)
  <2>1. prompt_start' = prompt_start
    BY DEF Select
  <2> QED BY <1>1, <2>1, SameCall DEF BatchLen
<1>6. PICK m \in Nat : m = token /\ Made(i) = m /\ Made(i)' = m + 1
                      /\ \A j \in 1..Len(Prompts) : j # i => Made(j)' = Made(j)
  <2>1. token \in Nat
    BY <1>1, TheCall DEF Control
  <2> QED BY <1>1, <1>2, <2>1, SelectMade
<1>7. PICK cur, done : cur = beams[i] /\ done = completed[i]
  OBVIOUS
<1>8. /\ Rows(cur, data) /\ Selected(cur, data, e, t)
      /\ \A b \in 1..Len(cur) : Informed(data[b], cur[b].tokens)
  BY <1>3, <1>7 DEF Chosen
<1>9. /\ beams' \in [1..Len(Prompts) -> Seq(Beam)]
      /\ completed' \in [1..Len(Prompts) -> Seq(Beam)]
      /\ \A j \in 1..Len(Prompts) :
            j # i => beams'[j] = beams[j] /\ completed'[j] = completed[j]
      /\ Len(beams'[i]) = BeamWidth
      /\ \A k \in 1..BeamWidth : /\ t[k] \in Places(beams[i])
                                 /\ beams'[i][k] = KeptChild(beams[i], data, t[k])
      /\ Len(e) \in Nat /\ Len(completed[i]) \in Nat
      /\ Len(completed'[i]) = Len(completed[i]) + Len(e)
      /\ \A k \in 1..Len(completed[i]) : completed'[i][k] = completed[i][k]
      /\ \A k \in 1..Len(e) :
            /\ e[k] \in Places(beams[i]) /\ EndsAt(data, e[k])
            /\ completed'[i][Len(completed[i]) + k] = EndedChild(beams[i], data, e[k])
  <2>1. /\ beams' \in [1..Len(Prompts) -> Seq(Beam)]
        /\ completed' \in [1..Len(Prompts) -> Seq(Beam)]
    BY <1>3, ChosenIs
  <2>2. /\ \A j \in 1..Len(Prompts) :
              j # i => beams'[j] = beams[j] /\ completed'[j] = completed[j]
        /\ Len(beams'[i]) = BeamWidth
        /\ \A k \in 1..BeamWidth : /\ t[k] \in Places(beams[i])
                                   /\ beams'[i][k] = KeptChild(beams[i], data, t[k])
    BY <1>3, ChosenIs
  <2>3. /\ Len(e) \in Nat /\ Len(completed[i]) \in Nat
        /\ Len(completed'[i]) = Len(completed[i]) + Len(e)
        /\ \A k \in 1..Len(completed[i]) : completed'[i][k] = completed[i][k]
    BY <1>3, ChosenIs
  <2>4. \A k \in 1..Len(e) :
            completed'[i][Len(completed[i]) + k] = EndedChild(beams[i], data, e[k])
    BY <1>3, ChosenIs
  <2>5. \A k \in 1..Len(e) : e[k] \in Places(beams[i]) /\ EndsAt(data, e[k])
    BY <1>3, ChosenIs
  <2> QED BY <2>1, <2>2, <2>3, <2>4, <2>5
<1>10. PICK list, more : list = beams'[i] /\ more = completed'[i]
  OBVIOUS
<1>11. PICK start : start = StartOf(i) /\ Len(start) \in Nat
  BY <1>1, StartIs
<1>12. Traced(cur, done, start, m)
  BY <1>6, <1>7, <1>11 DEF Lineage
<1>13. OneStep(cur, done, list, more, data, e, t) /\ Len(list) = BeamWidth
  BY <1>7, <1>8, <1>9, <1>10 DEF OneStep
<1>14. /\ Traced(list, more, start, m + 1)
       /\ \A k \in 1..Len(list) : list[k] \in Beam /\ list[k].reason = "length"
       /\ \A k \in 1..Len(more) :
             (\E l \in 1..Len(done) : more[k] = done[l]) \/ more[k].reason = "stop"
  BY <1>1, <1>11, <1>12, <1>13, TracedOn
<1>15. Shape'
  <2>1. \A k \in 1..Len(done) : done[k].reason = "stop"
    BY <1>7 DEF Shape
  <2>2. BeamWidth \in Nat /\ BeamWidth >= 1
    BY <1>1, TheCall
  <2>3. ASSUME NEW j \in 1..Len(Prompts)
        PROVE  /\ Len(beams'[j]) = IF Made(j)' = 0 THEN 1 ELSE BeamWidth
               /\ \A k \in 1..Len(beams'[j]) : beams'[j][k].reason = "length"
               /\ \A k \in 1..Len(completed'[j]) : completed'[j][k].reason = "stop"
    <3>1. CASE j = i
      BY <1>6, <1>10, <1>13, <1>14, <2>1, <2>2, <3>1
    <3>2. CASE j # i
      <4>1. beams'[j] = beams[j] /\ completed'[j] = completed[j] /\ Made(j)' = Made(j)
        BY <1>6, <1>9, <3>2
      <4>2. /\ Len(beams[j]) = IF Made(j) = 0 THEN 1 ELSE BeamWidth
            /\ \A k \in 1..Len(beams[j]) : beams[j][k].reason = "length"
            /\ \A k \in 1..Len(completed[j]) : completed[j][k].reason = "stop"
        BY DEF Shape
      <4> QED BY <4>1, <4>2
    <3> QED BY <3>1, <3>2
  <2> QED BY <1>1, <1>5, <1>9, <2>3 DEF Shape
<1>16. Lineage'
  <2>1. ASSUME NEW j \in 1..Len(Prompts)
        PROVE  Traced(beams'[j], completed'[j], StartOf(j), Made(j)')
    <3>1. CASE j = i
      BY <1>6, <1>10, <1>11, <1>14, <3>1
    <3>2. CASE j # i
      <4>1. beams'[j] = beams[j] /\ completed'[j] = completed[j] /\ Made(j)' = Made(j)
        BY <1>6, <1>9, <3>2
      <4> QED BY <4>1 DEF Lineage
    <3> QED BY <3>1, <3>2
  <2> QED BY <1>5, <2>1 DEF Lineage
<1>17. Pending'
  <2>1. CASE phase' # "select"
    BY <2>1 DEF Pending
  <2>2. CASE phase' = "select"
    <3>1. phase = "select" /\ instance' = instance + 1 /\ token' = token
          /\ all_beams' = all_beams /\ output' = output /\ pos' = pos /\ said' = said
      BY <2>2 DEF Select
    <3>2. ASSUME NEW s \in 1..Len(all_beams) PROVE CameBack(s)'
      <4>1. CameBack(s)
        BY <3>1 DEF Pending
      <4> QED BY <1>5, <3>1, <4>1 DEF CameBack, MayBeSampled, IsRow, Missing, Entry
    <3>3. ASSUME NEW l \in (instance + 1)..BatchLen PROVE Stands(l)'
      <4>1. l \in instance..BatchLen /\ l # instance /\ l \in 1..BatchLen
            /\ prompt_start \in Nat /\ instance \in Nat
        BY <1>1, BatchIs DEF Control
      <4>2. Stands(l)
        BY <3>1, <4>1 DEF Pending
      <4>3. prompt_start + l # i /\ prompt_start + l \in 1..Len(Prompts)
        BY <1>1, <1>2, <1>4, <4>1, BatchIs
      <4>4. beams'[prompt_start + l] = beams[prompt_start + l]
        BY <1>9, <4>3
      <4> QED BY <1>5, <3>1, <4>2, <4>4 DEF Stands
    <3> QED BY <1>5, <3>1, <3>2, <3>3 DEF Pending
  <2> QED BY <2>1, <2>2
<1> QED BY <1>15, <1>16, <1>17

\* There is a beam in a batch that is asked about.
LEMMA SomePrompt ==
    ASSUME Shape, Generate
    PROVE  BatchLen \in Nat /\ BatchLen >= 1
<1>1. Control /\ BatchLen \in Nat
  BY BatchIs DEF Shape
<1>2. CASE BatchLen = 0
  <2>1. DOMAIN InstancesBatch = {}
    <3>1. DOMAIN InstancesBatch = 1..0
      BY <1>1, <1>2, BatchIs
    <3> QED BY <3>1
  <2>2. PICK lists : lists = [k \in DOMAIN InstancesBatch |-> beams[InstancesBatch[k]]]
    OBVIOUS
  <2>3. all_beams' = FlattenSeq(lists) /\ all_beams' # <<>>
    BY <2>2 DEF Generate
  <2>4. lists = <<>>
    BY <2>1, <2>2
  <2> QED BY <2>3, <2>4, FlattenEmpty
<1> QED BY <1>1, <1>2

LEMMA WaitControl ==
    ASSUME Shape, Waits
    PROVE  Control'
<1>1. /\ Control /\ CallIn /\ prompt_start \in Nat /\ instance \in Nat
      /\ token \in 0..NumSteps /\ NumSteps \in Nat
      /\ (prompt_start = 0 \/ prompt_start < Len(Prompts)) /\ Len(Prompts) \in Nat
      /\ concurrency_limit \in Nat /\ BatchLen \in Nat
  BY TheCall, ThePrompts, BatchIs DEF Shape, Control
<1>2. call' = call
  BY DEF Waits, Generate, NoLogprobs, NextBatch, Finish, vars
<1>3. /\ CallIn' /\ Prompts' = Prompts /\ NumSteps' = NumSteps
      /\ concurrency_limit' = concurrency_limit
  BY <1>1, <1>2, SameCall
<1>4. \A i \in 1..Len(Prompts) : Made(i)' = Made(i)
  BY WaitMade
<1>5. CASE Generate
  <2>1. /\ prompt_start' = prompt_start /\ token' = token /\ instance' = 1 /\ phase' = "select"
        /\ token < NumSteps
    BY <1>5 DEF Generate
  <2>2. BatchLen' = BatchLen /\ BatchLen >= 1
    BY <1>3, <1>5, <2>1, SomePrompt DEF BatchLen
  <2> QED BY <1>1, <1>3, <2>1, <2>2 DEF Control
<1>6. CASE NoLogprobs
  <2>1. /\ prompt_start' = prompt_start /\ token' = token /\ instance' = instance
        /\ phase' = "raised" /\ phase = "select"
    BY <1>6 DEF NoLogprobs
  <2>2. BatchLen' = BatchLen
    BY <1>3, <2>1 DEF BatchLen
  <2> QED BY <1>1, <1>3, <2>1, <2>2 DEF Control
<1>7. CASE NextBatch
  <2>1. /\ prompt_start' = prompt_start + concurrency_limit /\ token' = 0
        /\ instance' = instance /\ phase' = phase /\ phase = "generate"
        /\ prompt_start + concurrency_limit < Len(Prompts)
    BY <1>7 DEF NextBatch, EndOfBatch
  <2> QED BY <1>1, <1>3, <2>1 DEF Control
<1>8. CASE Finish
  <2>1. /\ prompt_start' = prompt_start /\ token' = token /\ instance' = instance
        /\ phase' = "done" /\ phase = "generate" /\ EndOfBatch
        /\ prompt_start + concurrency_limit >= Len(Prompts)
    BY <1>8 DEF Finish, EndOfBatch
  <2>2. ASSUME NEW i \in 1..Len(Prompts) PROVE Made(i)' = NumSteps
    <3>1. token = NumSteps
      BY <1>1, <2>1, BatchMade
    <3>2. instance = 0 /\ i <= prompt_start + concurrency_limit
      BY <1>1, <2>1 DEF Control
    <3>3. Made(i) = NumSteps
      BY <1>1, <3>1, <3>2 DEF Made
    <3> QED BY <1>4, <3>3
  <2> QED BY <1>1, <1>3, <2>1, <2>2 DEF Control
<1>9. CASE UNCHANGED vars
  <2>1. BatchLen' = BatchLen
    BY <1>3, <1>9 DEF vars, BatchLen
  <2> QED BY <1>1, <1>3, <1>4, <1>9, <2>1 DEF Control, vars
<1> QED BY <1>5, <1>6, <1>7, <1>8, <1>9 DEF Waits

LEMMA WaitBase ==
    ASSUME Shape, Lineage, Pending, Waits
    PROVE  Shape' /\ Lineage' /\ Pending'
<1>1. call' = call /\ beams' = beams /\ completed' = completed
  BY DEF Waits, Generate, NoLogprobs, NextBatch, Finish, vars
<1>2. /\ Prompts' = Prompts /\ BeamWidth' = BeamWidth /\ Beam' = Beam
      /\ \A j : StartOf(j)' = StartOf(j)
  BY <1>1, SameCall
<1>3. \A i \in 1..Len(Prompts) : Made(i)' = Made(i)
  BY WaitMade
<1>4. Shape'
  BY <1>1, <1>2, <1>3, WaitControl DEF Shape
<1>5. Lineage'
  <2>1. ASSUME NEW i \in 1..Len(Prompts)
        PROVE  Traced(beams'[i], completed'[i], StartOf(i), Made(i)')
    BY <1>1, <1>3 DEF Lineage
  <2> QED BY <1>2, <2>1 DEF Lineage
<1>6. Pending'
  <2>1. CASE Generate
    BY <2>1, GenerateIs
  <2>2. CASE NoLogprobs \/ NextBatch \/ Finish
    <3>1. phase' # "select"
      BY <2>2 DEF NoLogprobs, NextBatch, Finish, EndOfBatch
    <3> QED BY <3>1 DEF Pending
  <2>3. CASE UNCHANGED vars
    <3>1. /\ phase' = phase /\ all_beams' = all_beams /\ output' = output /\ pos' = pos
          /\ said' = said /\ token' = token /\ instance' = instance
          /\ prompt_start' = prompt_start
      BY <2>3 DEF vars
    <3>2. Opinions' = Opinions /\ Greedy' = Greedy /\ BatchLen' = BatchLen
      BY <1>1, <3>1, SameCall DEF BatchLen
    <3>3. CASE phase = "select"
      <4>1. ASSUME NEW s \in 1..Len(all_beams) PROVE CameBack(s)'
        <5>1. CameBack(s)
          BY <3>3 DEF Pending
        <5> QED BY <1>2, <3>1, <3>2, <5>1 DEF CameBack, MayBeSampled, IsRow, Missing, Entry
      <4>2. ASSUME NEW l \in instance..BatchLen PROVE Stands(l)'
        <5>1. Stands(l)
          BY <3>3 DEF Pending
        <5> QED BY <1>1, <3>1, <5>1 DEF Stands
      <4> QED BY <1>2, <3>1, <3>2, <3>3, <4>1, <4>2 DEF Pending
    <3> QED BY <3>1, <3>3 DEF Pending
  <2> QED BY <2>1, <2>2, <2>3 DEF Waits
<1> QED BY <1>4, <1>5, <1>6

LEMMA InitBase ==
    ASSUME Init
    PROVE  Shape /\ Lineage /\ Pending
<1>1. CallIn /\ prompt_start = 0 /\ token = 0 /\ instance = 0 /\ phase = "generate"
  BY DEF Init, CallIn
<1>2. Len(Prompts) \in Nat /\ DOMAIN Prompts = 1..Len(Prompts) /\ NumSteps \in Nat
      /\ concurrency_limit \in Nat
  BY <1>1, ThePrompts, TheCall
<1>3. Control
  BY <1>1, <1>2 DEF Control
<1>4. ASSUME NEW i \in 1..Len(Prompts) PROVE Made(i) = 0
  BY <1>1, <1>2 DEF Made
<1> DEFINE root(i) == [tokens |-> StartOf(i), cum |-> 0, steps |-> <<>>, reason |-> "length"]
<1>5. ASSUME NEW i \in 1..Len(Prompts) PROVE root(i) \in Beam /\ <<root(i)>> \in Seq(Beam)
  <2>1. StartOf(i) \in Seq(Words)
    BY <1>1, StartIs
  <2>2. <<>> \in Seq(Seq(Entries))
    OBVIOUS
  <2>3. root(i) \in Beam
    BY <2>1, <2>2 DEF Beam
  <2> HIDE DEF root
  <2> QED BY <2>3
<1>6. /\ beams = [i \in 1..Len(Prompts) |-> <<root(i)>>]
      /\ completed = [i \in 1..Len(Prompts) |-> <<>>]
  BY <1>2 DEF Init, StartOf
<1>7. ASSUME NEW i \in 1..Len(Prompts)
      PROVE  /\ Len(beams[i]) = 1 /\ beams[i][1] = root(i) /\ Len(completed[i]) = 0
             /\ beams[i] \in Seq(Beam) /\ completed[i] \in Seq(Beam)
  <2> HIDE DEF root
  <2>1. beams[i] = <<root(i)>> /\ completed[i] = <<>>
    BY <1>6
  <2> QED BY <1>5, <2>1
<1>8. Shape
  <2>1. beams \in [1..Len(Prompts) -> Seq(Beam)] /\ completed \in [1..Len(Prompts) -> Seq(Beam)]
    <3> HIDE DEF root
    <3> QED BY <1>6, <1>7
  <2>2. ASSUME NEW i \in 1..Len(Prompts)
        PROVE  /\ Len(beams[i]) = IF Made(i) = 0 THEN 1 ELSE BeamWidth
               /\ \A k \in 1..Len(beams[i]) : beams[i][k].reason = "length"
               /\ \A k \in 1..Len(completed[i]) : completed[i][k].reason = "stop"
    <3>1. root(i).reason = "length"
      OBVIOUS
    <3>2. (\A k \in 1..1 : k = 1) /\ \A k \in 1..0 : FALSE
      OBVIOUS
    <3> HIDE DEF root
    <3> QED BY <1>4, <1>7, <3>1, <3>2
  <2> QED BY <1>3, <2>1, <2>2 DEF Shape
<1>9. Lineage
  <2>1. ASSUME NEW i \in 1..Len(Prompts)
        PROVE  Traced(beams[i], completed[i], StartOf(i), Made(i))
    <3>1. Len(StartOf(i)) \in Nat
      BY <1>1, StartIs
    <3>2. Len(<<>>) = 0
      OBVIOUS
    <3>3. Descends(root(i), StartOf(i), 0)
      BY <3>1, <3>2 DEF Descends
    <3> QED BY <1>4, <1>7, <3>3 DEF Traced, Apart
  <2> QED BY <2>1 DEF Lineage
<1>10. Pending
  BY <1>1 DEF Pending
<1> QED BY <1>8, <1>9, <1>10

\* The shape of a search, whose beam is whose, and where the slices lie.
Base == Shape /\ Lineage /\ Pending

LEMMA BaseStep ==
    ASSUME Base, [Next]_vars
    PROVE  Base'
BY NextCases, SelectBase, WaitBase DEF Base

LEMMA BaseInvariant == Spec => []Base
<1>1. Init => Base
  BY InitBase DEF Base
<1> QED BY <1>1, BaseStep, PTL DEF Spec

-----------------------------------------------------------------------------
(* What a beam is charged *)

\* g[k] is the sum of the first k.
SumsTo(g, s) ==
    /\ g \in [0..Len(s) -> Int]
    /\ g[0] = 0
    /\ \A k \in 1..Len(s) : g[k] = Plus(g[k - 1], s[k])

LEMMA TotalSums ==
    ASSUME NEW s \in Seq(Int)
    PROVE  \E g : SumsTo(g, s) /\ Total(s) = g[Len(s)]
<1>1. PICK N \in Nat : N = Len(s)
  OBVIOUS
<1> DEFINE F == [k \in 1..N |-> [x \in Int |-> Plus(x, s[k])]]
<1>2. Loop(N, Int, 0, F)
  <2>1. \A k \in 1..N : s[k] \in Int
    BY <1>1
  <2>2. F \in [1..N -> [Int -> Int]]
    BY <2>1, PlusType
  <2> QED BY <2>2 DEF Loop
<1>3. PICK g : LoopValues(g, N, Int, 0, F)
  <2> HIDE DEF F
  <2> QED BY <1>2, LoopExists
<1>4. g \in [0..N -> Int] /\ g[0] = 0
  BY <1>3 DEF LoopValues
<1>5. ASSUME NEW k \in 1..N PROVE g[k] = Plus(g[k - 1], s[k])
  <2>1. g[k] = F[k][g[k - 1]]
    BY <1>3 DEF LoopValues
  <2>2. k - 1 \in 0..N
    OBVIOUS
  <2>3. g[k - 1] \in Int
    BY <1>4, <2>2
  <2> QED BY <2>1, <2>3
<1> HIDE DEF F
<1> DEFINE f == CHOOSE f : f = [k \in 0..N |-> IF k = 0 THEN 0 ELSE Plus(f[k - 1], s[k])]
<1>6. g = [k \in 0..N |-> IF k = 0 THEN 0 ELSE Plus(g[k - 1], s[k])]
  <2>1. ASSUME NEW k \in 0..N
        PROVE  g[k] = IF k = 0 THEN 0 ELSE Plus(g[k - 1], s[k])
    <3>1. CASE k = 0
      BY <1>4, <3>1
    <3>2. CASE k # 0
      <4>1. k \in 1..N
        BY <3>2
      <4> QED BY <1>5, <3>2, <4>1
    <3> QED BY <3>1, <3>2
  <2> QED BY <1>4, <2>1
<1>7. f = [k \in 0..N |-> IF k = 0 THEN 0 ELSE Plus(f[k - 1], s[k])]
  BY <1>6
<1>8. Total(s) = f[N]
  BY <1>1 DEF Total
<1> DEFINE A == {k \in 0..N : f[k] = g[k]}
<1>9. 0 \in A
  <2>1. 0 \in 0..N
    OBVIOUS
  <2>2. f[0] = 0
    BY <1>7, <2>1
  <2> QED BY <1>4, <2>1, <2>2
<1>10. ASSUME NEW k \in 1..N, k - 1 \in A PROVE k \in A
  <2>1. k \in 0..N /\ k # 0
    OBVIOUS
  <2>2. f[k] = Plus(f[k - 1], s[k])
    BY <1>7, <2>1
  <2>3. f[k - 1] = g[k - 1]
    BY <1>10
  <2> QED BY <1>5, <2>1, <2>2, <2>3
<1>11. N \in A
  <2> HIDE DEF A
  <2>1. \A k \in 0..N : k \in A
    BY <1>9, <1>10, InductionTo
  <2> QED BY <2>1
<1>12. Total(s) = g[Len(s)]
  BY <1>1, <1>8, <1>11
<1>13. SumsTo(g, s)
  BY <1>1, <1>4, <1>5 DEF SumsTo
<1> QED BY <1>12, <1>13

LEMMA TotalEmpty == Total(<<>>) = 0
<1>1. <<>> \in Seq(Int) /\ Len(<<>>) = 0
  BY EmptySeq
<1>2. PICK g : SumsTo(g, <<>>) /\ Total(<<>>) = g[Len(<<>>)]
  BY <1>1, TotalSums
<1> QED BY <1>1, <1>2 DEF SumsTo

LEMMA TotalAppend ==
    ASSUME NEW s \in Seq(Int), NEW x \in Int
    PROVE  Total(Append(s, x)) = Plus(Total(s), x) /\ Total(s) \in Int
<1>1. PICK N \in Nat : N = Len(s)
  OBVIOUS
<1>2. PICK u : u = Append(s, x)
  OBVIOUS
<1>3. /\ u \in Seq(Int) /\ Len(u) = N + 1 /\ u[N + 1] = x
      /\ \A k \in 1..N : u[k] = s[k]
  BY <1>1, <1>2, AppendProperties
<1>4. PICK g : SumsTo(g, s) /\ Total(s) = g[N]
  BY <1>1, TotalSums
<1>5. PICK h : SumsTo(h, u) /\ Total(u) = h[N + 1]
  BY <1>3, TotalSums
<1> DEFINE A == {k \in 0..N : g[k] = h[k]}
<1>6. 0 \in A
  BY <1>4, <1>5 DEF SumsTo
<1>7. ASSUME NEW k \in 1..N, k - 1 \in A PROVE k \in A
  <2>1. g[k] = Plus(g[k - 1], s[k])
    BY <1>1, <1>4 DEF SumsTo
  <2>2. k \in 1..(N + 1)
    OBVIOUS
  <2>3. h[k] = Plus(h[k - 1], u[k])
    BY <1>3, <1>5, <2>2 DEF SumsTo
  <2>4. g[k - 1] = h[k - 1] /\ s[k] = u[k]
    BY <1>3, <1>7
  <2> QED BY <2>1, <2>3, <2>4
<1>8. N \in A
  <2> HIDE DEF A
  <2>1. \A k \in 0..N : k \in A
    BY <1>6, <1>7, InductionTo
  <2> QED BY <2>1
<1>9. h[N + 1] = Plus(h[N], x)
  <2>1. N + 1 \in 1..Len(u) /\ (N + 1) - 1 = N
    BY <1>3
  <2>2. h[N + 1] = Plus(h[(N + 1) - 1], u[N + 1])
    BY <1>5, <2>1 DEF SumsTo
  <2> QED BY <1>3, <2>1, <2>2
<1>10. Total(s) \in Int
  BY <1>1, <1>4 DEF SumsTo
<1> QED BY <1>2, <1>4, <1>5, <1>8, <1>9, <1>10

\* What the model was given before its k-th opinion of b, which had started with
\* s tokens, and what it said of the token that came next.
Heard(b, s, k) == SubSeq(b.tokens, 1, s + k - 1)
PaidAt(b, s, talk, k) == talk[Heard(b, s, k)][b.tokens[s + k]]
Paid(b, s, talk) == [k \in 1..Len(b.steps) |-> PaidAt(b, s, talk, k)]

\* Among the entries d there is one for the token of e, and it is e.
ToldOnce(d, e) == {x \in ToSet(d) : x.token = e.token} = {e}

Gone(b, s, ignore) ==
    /\ ~ignore
    /\ \E k \in (s + 1)..Len(b.tokens) :
          b.tokens[k] = Eos /\ (b.reason = "stop" => k < Len(b.tokens))

\* b is charged what the model, which said talk, thought of it.
Accounted(b, s, talk, opinions, ignore) ==
    /\ \A k \in 1..Len(b.steps) :
          /\ Heard(b, s, k) \in DOMAIN talk /\ talk[Heard(b, s, k)] \in opinions[k]
          /\ ToldOnce(b.steps[k], [token |-> b.tokens[s + k], lp |-> PaidAt(b, s, talk, k)])
    /\ b.cum = IF Gone(b, s, ignore) THEN NegInf ELSE Total(Paid(b, s, talk))

LEMMA TalkStays ==
    ASSUME NEW b, NEW s, NEW talk, NEW more, NEW opinions, NEW ignore,
           Accounted(b, s, talk, opinions, ignore),
           \A k \in 1..Len(b.steps) : /\ Heard(b, s, k) \in DOMAIN more
                                     /\ more[Heard(b, s, k)] = talk[Heard(b, s, k)]
    PROVE  Accounted(b, s, more, opinions, ignore)
<1>1. \A k \in 1..Len(b.steps) : PaidAt(b, s, more, k) = PaidAt(b, s, talk, k)
  BY DEF PaidAt
<1>2. Paid(b, s, more) = Paid(b, s, talk)
  BY <1>1 DEF Paid
<1> QED BY <1>1, <1>2 DEF Accounted

\* The entry of a token among those that a row leaves.
LEMMA OfferedOnce ==
    ASSUME CallIn, NEW d, NEW f, Offers(d, f), NEW r \in 1..BeamWidth
    PROVE  ToldOnce(d, [token |-> d[r].token, lp |-> f[d[r].token]])
<1>1. PICK W \in Nat : W = BeamWidth
  BY TheCall
<1>2. /\ d \in Seq(Entries) /\ Len(d) = W /\ \A k \in 1..W : d[k].lp = f[d[k].token]
      /\ \A j, k \in 1..W : d[j].token = d[k].token => j = k
  BY <1>1 DEF Offers
<1>3. DOMAIN d = 1..W /\ \A k \in 1..W : d[k] \in Entries
  BY <1>1, <1>2
<1>4. d[r] = [token |-> d[r].token, lp |-> f[d[r].token]]
  <2>1. d[r] \in Entries /\ d[r].lp = f[d[r].token]
    BY <1>1, <1>2, <1>3
  <2> QED BY <2>1 DEF Entries
<1>5. {x \in ToSet(d) : x.token = d[r].token} = {d[r]}
  BY <1>1, <1>2, <1>3 DEF ToSet
<1> QED BY <1>4, <1>5 DEF ToldOnce

\* What was heard of b, of its n steps, was heard of c, and b itself.
HeardAlike(c, b, s, n) ==
    /\ \A k \in 1..n : Heard(c, s, k) = Heard(b, s, k)
    /\ Heard(c, s, n + 1) = b.tokens

\* The sequence up to a token that has just come.
LEMMA LongerHeard ==
    ASSUME NEW S, NEW b, NEW c, NEW x, NEW d, Longer(c, b, x, d),
           b.tokens \in Seq(S), c.tokens \in Seq(S),
           NEW s \in Nat, NEW n \in Nat, Len(b.tokens) = s + n, Len(b.steps) = n
    PROVE  HeardAlike(c, b, s, n)
<1>1. PICK u, v : u = b.tokens /\ v = c.tokens
  OBVIOUS
<1>2. /\ u \in Seq(S) /\ v \in Seq(S) /\ Len(u) = s + n /\ Len(v) = s + n + 1
      /\ \A j \in 1..(s + n) : v[j] = u[j]
  BY <1>1 DEF Longer
<1>3. ASSUME NEW m \in 0..(s + n) PROVE SubSeq(v, 1, m) = SubSeq(u, 1, m)
  <2>1. m \in 0..Len(u) /\ m \in 0..Len(v)
    BY <1>2
  <2>2. SubSeq(u, 1, m) = [j \in 1..m |-> u[j]] /\ SubSeq(v, 1, m) = [j \in 1..m |-> v[j]]
    BY <1>2, <2>1, PrefixIs
  <2>3. \A j \in 1..m : v[j] = u[j]
    BY <1>2
  <2> QED BY <2>2, <2>3
<1>4. ASSUME NEW k \in 1..n PROVE Heard(c, s, k) = Heard(b, s, k)
  <2>1. s + k - 1 \in 0..(s + n)
    OBVIOUS
  <2> QED BY <1>1, <1>3, <2>1 DEF Heard
<1>5. SubSeq(u, 1, s + n) = u
  <2>1. s + n \in 0..Len(u)
    BY <1>2
  <2>2. SubSeq(u, 1, s + n) = [j \in 1..(s + n) |-> u[j]]
    BY <1>2, <2>1, PrefixIs
  <2>3. u = [j \in 1..(s + n) |-> u[j]]
    BY <1>2
  <2> QED BY <2>2, <2>3
<1>6. s + (n + 1) - 1 = s + n /\ s + n \in 0..(s + n)
  OBVIOUS
<1>7. Heard(c, s, n + 1) = u
  BY <1>1, <1>3, <1>5, <1>6 DEF Heard
<1> QED BY <1>1, <1>4, <1>7 DEF HeardAlike

\* A child is charged for its parent and its own token.
LEMMA ChildAccounted ==
    ASSUME CallIn, NEW cur, NEW data, Rows(cur, data), NEW p \in Places(cur),
           NEW cum, NEW reason, NEW c, c = ChildAt(cur, data, p, cum, reason),
           \/ reason = "length" /\ cum = KeptScoreAt(cur, data, p)
           \/ reason = "stop" /\ EndsAt(data, p) /\ cum = ScoreAt(cur, data, p),
           NEW s \in Nat, token \in Nat, token < NumSteps,
           Len(cur[Owner(p)].steps) = token, Len(cur[Owner(p)].tokens) = s + token,
           \A k \in (s + 1)..(s + token) : cur[Owner(p)].tokens[k] \in Token,
           cur[Owner(p)].reason = "length",
           Accounted(cur[Owner(p)], s, said, Opinions, IgnoreEos),
           Informed(data[Owner(p)], cur[Owner(p)].tokens)
    PROVE  Accounted(c, s, said, Opinions, IgnoreEos)
<1>0. PICK b, d : b = cur[Owner(p)] /\ d = data[Owner(p)]
  OBVIOUS
<1>1. PICK r \in 1..BeamWidth : b = cur[Owner(p)] /\ d = data[Owner(p)] /\ r = Rank(p)
                              /\ b \in Beam
  <2>1. Rank(p) \in 1..BeamWidth /\ cur[Owner(p)] \in Beam
    BY PlaceFacts
  <2> QED BY <1>0, <2>1
<1>2. PICK n \in Nat : n = token
  OBVIOUS
<1>3. PICK x : x = d[r].token
  OBVIOUS
<1>4. PICK f : f = said[b.tokens]
  OBVIOUS
<1>5. /\ b.tokens \in DOMAIN said /\ f \in Opinions[n + 1] /\ Offers(d, f)
      /\ d[r].lp = f[x]
  <2>1. b.tokens \in DOMAIN said /\ f \in Opinions[n + 1] /\ Offers(d, f)
    BY <1>1, <1>2, <1>4 DEF Informed
  <2> QED BY <1>3, <2>1 DEF Offers
<1>6. /\ TokenAt(data, p) = x /\ ScoreAt(cur, data, p) = Plus(b.cum, f[x])
      /\ (EndsAt(data, p) <=> ~IgnoreEos /\ x = Eos) /\ x \in Token
      /\ ScoreAt(cur, data, p) \in Int /\ KeptScoreAt(cur, data, p) \in Int
  BY <1>1, <1>3, <1>5, PlaceFacts DEF TokenAt, ScoreAt, EndsAt
<1>7. /\ c \in Beam /\ c.cum = cum /\ c.reason = reason
      /\ Longer(c, b, x, d)
  <2>1. cum \in Int /\ reason \in {"length", "stop"}
    BY <1>6
  <2> QED BY <1>1, <1>6, <2>1, ChildIs
<1>8. /\ Len(b.steps) = n /\ Len(b.tokens) = s + n /\ b.reason = "length"
      /\ \A k \in (s + 1)..(s + n) : b.tokens[k] \in Token
      /\ Accounted(b, s, said, Opinions, IgnoreEos)
  BY <1>1, <1>2
<1>9. /\ Len(c.steps) = n + 1 /\ Len(c.tokens) = s + n + 1 /\ c.tokens[s + n + 1] = x
      /\ c.steps[n + 1] = d
      /\ \A k \in 1..(s + n) : c.tokens[k] = b.tokens[k]
      /\ \A k \in 1..n : c.steps[k] = b.steps[k]
  BY <1>7, <1>8 DEF Longer
<1>10. /\ \A k \in 1..n : Heard(c, s, k) = Heard(b, s, k)
       /\ Heard(c, s, n + 1) = b.tokens
  <2>1. PICK S : S = Words
    OBVIOUS
  <2>2. b.tokens \in Seq(S) /\ c.tokens \in Seq(S)
    BY <1>1, <1>7, <2>1 DEF Beam
  <2>3. Longer(c, b, x, d) /\ Len(b.tokens) = s + n /\ Len(b.steps) = n
    BY <1>7, <1>8
  <2>4. HeardAlike(c, b, s, n)
    BY <2>2, <2>3, LongerHeard
  <2> QED BY <2>4 DEF HeardAlike
<1>11. \A k \in 1..n : PaidAt(c, s, said, k) = PaidAt(b, s, said, k)
  <2> SUFFICES ASSUME NEW k \in 1..n PROVE PaidAt(c, s, said, k) = PaidAt(b, s, said, k)
    OBVIOUS
  <2>1. s + k \in 1..(s + n)
    OBVIOUS
  <2> QED BY <1>9, <1>10, <2>1 DEF PaidAt
<1>12. PaidAt(c, s, said, n + 1) = f[x]
  <2>1. s + (n + 1) = s + n + 1
    OBVIOUS
  <2> QED BY <1>4, <1>9, <1>10, <2>1 DEF PaidAt
<1>13. ASSUME NEW k \in 1..n
       PROVE  /\ Heard(b, s, k) \in DOMAIN said /\ said[Heard(b, s, k)] \in Opinions[k]
              /\ ToldOnce(b.steps[k], [token |-> b.tokens[s + k], lp |-> PaidAt(b, s, said, k)])
              /\ PaidAt(b, s, said, k) \in Int /\ s + k \in 1..(s + n)
  <2>1. /\ Heard(b, s, k) \in DOMAIN said /\ said[Heard(b, s, k)] \in Opinions[k]
        /\ ToldOnce(b.steps[k], [token |-> b.tokens[s + k], lp |-> PaidAt(b, s, said, k)])
    BY <1>8 DEF Accounted
  <2>2. PICK g : g = said[Heard(b, s, k)] /\ g \in Said
    <3>1. k \in 1..NumSteps
      BY <1>2, TheCall
    <3> QED BY <2>1, <3>1 DEF Said
  <2>3. s + k \in (s + 1)..(s + n) /\ s + k \in 1..(s + n)
    OBVIOUS
  <2>4. g[b.tokens[s + k]] \in Int
    <3>1. g \in [Token -> Int]
      BY <2>2, OpinionsAre
    <3> QED BY <1>8, <2>3, <3>1
  <2> QED BY <2>1, <2>2, <2>3, <2>4 DEF PaidAt
<1>14. f[x] \in Int
  <2>1. n + 1 \in 1..NumSteps
    BY <1>2, TheCall
  <2>2. f \in Said
    BY <1>5, <2>1 DEF Said
  <2>3. f \in [Token -> Int]
    BY <2>2, OpinionsAre
  <2> QED BY <1>6, <2>3
<1>15. ASSUME NEW k \in 1..(n + 1)
       PROVE  /\ Heard(c, s, k) \in DOMAIN said /\ said[Heard(c, s, k)] \in Opinions[k]
              /\ ToldOnce(c.steps[k], [token |-> c.tokens[s + k], lp |-> PaidAt(c, s, said, k)])
  <2>1. CASE k \in 1..n
    BY <1>9, <1>10, <1>11, <1>13, <2>1
  <2>2. CASE k = n + 1
    <3>1. ToldOnce(d, [token |-> x, lp |-> f[x]])
      BY <1>3, <1>5, OfferedOnce
    <3>2. s + (n + 1) = s + n + 1
      OBVIOUS
    <3> QED BY <1>4, <1>5, <1>9, <1>10, <1>12, <2>2, <3>1, <3>2
  <2> QED BY <2>1, <2>2
<1>16. PICK v : v = Paid(b, s, said)
  OBVIOUS
<1>17. v \in Seq(Int) /\ Len(v) = n /\ \A k \in 1..n : v[k] = PaidAt(b, s, said, k)
  <2>1. v = [k \in 1..n |-> PaidAt(b, s, said, k)]
    BY <1>8, <1>16 DEF Paid
  <2>2. v \in [1..n -> Int]
    BY <1>13, <2>1
  <2> QED BY <2>1, <2>2
<1>18. Paid(c, s, said) = Append(v, f[x])
  <2>1. PICK y : y = f[x] /\ y \in Int
    BY <1>14
  <2>2. PICK w : w = Append(v, y)
    OBVIOUS
  <2>3. w \in Seq(Int) /\ Len(w) = n + 1 /\ w[n + 1] = y /\ \A k \in 1..n : w[k] = v[k]
    BY <1>17, <2>1, <2>2, AppendProperties
  <2>4. w = [k \in 1..(n + 1) |-> w[k]]
    BY <2>3
  <2>5. \A k \in 1..(n + 1) : w[k] = PaidAt(c, s, said, k)
    <3> SUFFICES ASSUME NEW k \in 1..(n + 1) PROVE w[k] = PaidAt(c, s, said, k)
      OBVIOUS
    <3>1. CASE k \in 1..n
      BY <1>11, <1>17, <2>3, <3>1
    <3>2. CASE k = n + 1
      BY <1>12, <2>1, <2>3, <3>2
    <3> QED BY <3>1, <3>2
  <2>6. Paid(c, s, said) = [k \in 1..(n + 1) |-> PaidAt(c, s, said, k)]
    BY <1>9 DEF Paid
  <2> QED BY <2>1, <2>2, <2>4, <2>5, <2>6
<1>19. Total(Paid(c, s, said)) = Plus(Total(v), f[x])
  BY <1>14, <1>17, <1>18, TotalAppend
<1>20. b.cum = IF Gone(b, s, IgnoreEos) THEN NegInf ELSE Total(v)
  BY <1>8, <1>16 DEF Accounted
<1>21. Gone(b, s, IgnoreEos) <=> ~IgnoreEos /\ \E k \in (s + 1)..(s + n) : b.tokens[k] = Eos
  BY <1>8 DEF Gone
<1>22. \A k \in (s + 1)..(s + n) : c.tokens[k] = b.tokens[k]
  <2> SUFFICES ASSUME NEW k \in (s + 1)..(s + n) PROVE c.tokens[k] = b.tokens[k]
    OBVIOUS
  <2>1. k \in 1..(s + n)
    OBVIOUS
  <2> QED BY <1>9, <2>1
<1>23. \A k \in (s + 1)..(s + n + 1) : k \in (s + 1)..(s + n) \/ k = s + n + 1
  OBVIOUS
<1>24. /\ \A k \in (s + 1)..(s + n) : k \in (s + 1)..(s + n + 1) /\ k < s + n + 1
       /\ s + n + 1 \in (s + 1)..(s + n + 1) /\ ~(s + n + 1 < s + n + 1)
  OBVIOUS
<1>25. CASE reason = "length" /\ cum = KeptScoreAt(cur, data, p)
  <2>1. Gone(c, s, IgnoreEos) <=> Gone(b, s, IgnoreEos) \/ EndsAt(data, p)
    <3>1. Gone(c, s, IgnoreEos)
             <=> ~IgnoreEos /\ \E k \in (s + 1)..(s + n + 1) : c.tokens[k] = Eos
      BY <1>7, <1>9, <1>25 DEF Gone
    <3> QED BY <1>6, <1>9, <1>21, <1>22, <1>23, <1>24, <3>1
  <2>2. c.cum = IF EndsAt(data, p) THEN NegInf ELSE Plus(b.cum, f[x])
    BY <1>6, <1>7, <1>25 DEF KeptScoreAt
  <2>3. c.cum = IF Gone(c, s, IgnoreEos) THEN NegInf ELSE Total(Paid(c, s, said))
    BY <1>19, <1>20, <2>1, <2>2 DEF Plus
  <2> QED BY <1>9, <1>15, <2>3 DEF Accounted
<1>26. CASE reason = "stop" /\ EndsAt(data, p) /\ cum = ScoreAt(cur, data, p)
  <2>1. Gone(c, s, IgnoreEos) <=> Gone(b, s, IgnoreEos)
    <3>1. Gone(c, s, IgnoreEos)
             <=> ~IgnoreEos /\ \E k \in (s + 1)..(s + n + 1) :
                                   c.tokens[k] = Eos /\ k < s + n + 1
      BY <1>7, <1>9, <1>26 DEF Gone
    <3> QED BY <1>21, <1>22, <1>23, <1>24, <3>1
  <2>2. c.cum = Plus(b.cum, f[x])
    BY <1>6, <1>7, <1>26
  <2>3. c.cum = IF Gone(c, s, IgnoreEos) THEN NegInf ELSE Total(Paid(c, s, said))
    BY <1>19, <1>20, <2>1, <2>2 DEF Plus
  <2> QED BY <1>9, <1>15, <2>3 DEF Accounted
<1> QED BY <1>25, <1>26

Audited(list, done, s, talk, opinions, ignore) ==
    /\ \A k \in 1..Len(list) : Accounted(list[k], s, talk, opinions, ignore)
    /\ \A k \in 1..Len(done) : Accounted(done[k], s, talk, opinions, ignore)

LEMMA AuditedOn ==
    ASSUME CallIn, token \in Nat, token < NumSteps,
           NEW cur, NEW data, NEW e, NEW t, NEW done, NEW list, NEW more,
           OneStep(cur, done, list, more, data, e, t),
           NEW start, Len(start) \in Nat, Traced(cur, done, start, token),
           \A k \in 1..Len(cur) : cur[k].reason = "length",
           Audited(cur, done, Len(start), said, Opinions, IgnoreEos)
    PROVE  Audited(list, more, Len(start), said, Opinions, IgnoreEos)
<1> USE DEF OneStep
<1>1. PICK W \in Nat : W = BeamWidth
  BY TheCall
<1>2. PICK n \in Nat, x \in Nat, s \in Nat : n = Len(done) /\ x = Len(e) /\ s = Len(start)
  <2>1. e \in Seq(Places(cur))
    BY DEF Selected
  <2>2. Len(e) \in Nat
    BY <2>1
  <2> QED BY <2>2
<1>3. ASSUME NEW p \in Places(cur), NEW cum, NEW reason, NEW c,
             c = ChildAt(cur, data, p, cum, reason),
             \/ reason = "length" /\ cum = KeptScoreAt(cur, data, p)
             \/ reason = "stop" /\ EndsAt(data, p) /\ cum = ScoreAt(cur, data, p)
      PROVE  Accounted(c, s, said, Opinions, IgnoreEos)
  <2>1. PICK o \in 1..Len(cur) : o = Owner(p)
    BY PlaceFacts
  <2>2. /\ Descends(cur[o], start, token) /\ cur[o].reason = "length"
        /\ Accounted(cur[o], s, said, Opinions, IgnoreEos)
        /\ Informed(data[o], cur[o].tokens)
    BY <1>2 DEF Traced, Audited
  <2>3. /\ Len(cur[o].steps) = token /\ Len(cur[o].tokens) = s + token
        /\ \A k \in (s + 1)..(s + token) : cur[o].tokens[k] \in Token
    BY <1>2, <2>2 DEF Descends
  <2> QED BY <1>3, <2>1, <2>2, <2>3, ChildAccounted
<1>4. ASSUME NEW k \in 1..W PROVE Accounted(list[k], s, said, Opinions, IgnoreEos)
  <2>1. PICK p \in Places(cur) : p = t[k]
    BY <1>1 DEF Selected
  <2>2. list[k] = ChildAt(cur, data, p, KeptScoreAt(cur, data, p), "length")
    BY <1>1, <2>1 DEF KeptChild
  <2> QED BY <1>3, <2>2
<1>5. ASSUME NEW k \in 1..(n + x) PROVE Accounted(more[k], s, said, Opinions, IgnoreEos)
  <2>1. CASE k \in 1..n
    BY <1>2, <2>1 DEF Audited
  <2>2. CASE k \notin 1..n
    <3>1. PICK j \in 1..x : k = n + j
      <4>1. k - n \in 1..x /\ k = n + (k - n)
        BY <2>2
      <4> QED BY <4>1
    <3>2. PICK p \in Places(cur) : p = e[j] /\ EndsAt(data, p)
      <4>1. e \in Seq(Places(cur))
        BY DEF Selected
      <4>2. e[j] \in Places(cur)
        BY <1>2, <4>1
      <4> QED BY <1>2, <4>2 DEF Selected
    <3>3. more[k] = ChildAt(cur, data, p, ScoreAt(cur, data, p), "stop")
      BY <1>2, <3>1, <3>2 DEF EndedChild
    <3> QED BY <1>3, <3>2, <3>3
  <2> QED BY <2>1, <2>2
<1>6. Len(list) = W /\ Len(more) = n + x
  BY <1>1, <1>2
<1> QED BY <1>2, <1>4, <1>5, <1>6 DEF Audited

\* What Select does to the search of the i-th prompt, and to that of no other.
Stepped(i, data, e, t) ==
    /\ Made(i) = token /\ Made(i)' = token + 1
    /\ OneStep(beams[i], completed[i], beams'[i], completed'[i], data, e, t)
    /\ \A j \in 1..Len(Prompts) : j # i =>
          beams'[j] = beams[j] /\ completed'[j] = completed[j] /\ Made(j)' = Made(j)

LEMMA SelectSteps ==
    ASSUME Base, Select
    PROVE  \E i \in 1..Len(Prompts) : \E data, e, t : Stepped(i, data, e, t)
<1>1. Shape /\ Lineage /\ Pending /\ Control
  BY DEF Base, Shape
<1>2. PICK i \in 1..Len(Prompts) :
         /\ i = prompt_start + instance /\ Made(i) = token
         /\ \A j \in 1..Len(Prompts) :
                Made(j)' = IF j = prompt_start + instance THEN token + 1 ELSE Made(j)
  BY <1>1, SelectMade
<1>3. PICK data, e, t : Chosen(i, data, e, t)
  BY <1>1, <1>2, SelectIs
<1>4. /\ Rows(beams[i], data) /\ Selected(beams[i], data, e, t)
      /\ \A b \in 1..Len(beams[i]) : Informed(data[b], beams[i][b].tokens)
  BY <1>3 DEF Chosen
<1>5. /\ \A j \in 1..Len(Prompts) :
            j # i => beams'[j] = beams[j] /\ completed'[j] = completed[j]
      /\ Len(beams'[i]) = BeamWidth
      /\ \A k \in 1..BeamWidth : beams'[i][k] = KeptChild(beams[i], data, t[k])
      /\ Len(completed[i]) \in Nat
      /\ Len(completed'[i]) = Len(completed[i]) + Len(e)
      /\ \A k \in 1..Len(completed[i]) : completed'[i][k] = completed[i][k]
      /\ \A k \in 1..Len(e) :
            completed'[i][Len(completed[i]) + k] = EndedChild(beams[i], data, e[k])
  BY <1>1, <1>3, ChosenIs
<1>6. OneStep(beams[i], completed[i], beams'[i], completed'[i], data, e, t)
  BY <1>4, <1>5 DEF OneStep
<1> QED BY <1>2, <1>5, <1>6 DEF Stepped

\* What a beam of the prompt was, when it had fewer tokens, is not asked about.
LEMMA OlderNotAsked ==
    ASSUME Base, NEW i \in 1..Len(Prompts), NEW h, h[1] = Prompts[i],
           Len(h) \in Nat, Len(h) < Len(StartOf(i)) + Made(i)
    PROVE  NotAsked(h)
<1>1. Shape /\ Lineage /\ Control /\ CallIn
  BY DEF Base, Shape, Control
<1>2. PICK s \in Nat : s = Len(StartOf(i)) /\ s >= 1 /\ s = 1 + Len(BeginTokens)
  BY <1>1, StartIs
<1>3. Made(i) \in Nat
  BY <1>1, TheCall DEF Made, Control
<1>4. ASSUME NEW m \in 1..BatchLen, NEW j \in 1..Len(beams[prompt_start + m])
      PROVE  beams[prompt_start + m][j].tokens # h
  <2>1. PICK o \in 1..Len(Prompts) : o = prompt_start + m
    BY <1>1, BatchIs
  <2>2. PICK other : other = beams[o][j]
    OBVIOUS
  <2>3. Descends(other, StartOf(o), Made(o))
    BY <1>1, <2>1, <2>2 DEF Lineage, Traced
  <2>4. Len(StartOf(o)) = s /\ StartOf(o)[1] = Prompts[o]
    BY <1>1, <1>2, <2>1, StartIs
  <2>5. Len(other.tokens) = s + Made(o) /\ other.tokens[1] = Prompts[o]
    <3>1. 1 \in 1..s
      BY <1>2
    <3> QED BY <2>3, <2>4, <3>1 DEF Descends
  <2>6. CASE o = i
    BY <1>2, <1>3, <2>1, <2>2, <2>5, <2>6
  <2>7. CASE o # i
    <3>1. Prompts[o] # Prompts[i]
      BY <1>1, <2>7, ThePrompts
    <3> QED BY <2>1, <2>2, <2>5, <3>1
  <2> QED BY <2>6, <2>7
<1> QED BY <1>4 DEF NotAsked

\* What the model was told of a beam is not what it is asked about next.
LEMMA HeardBefore ==
    ASSUME Base, NEW i \in 1..Len(Prompts), NEW b \in Beam, NEW n \in Nat, n <= Made(i),
           Descends(b, StartOf(i), n), NEW k \in 1..n
    PROVE  NotAsked(Heard(b, Len(StartOf(i)), k))
<1>1. CallIn
  BY DEF Base, Shape, Control
<1>2. PICK start : start = StartOf(i)
  OBVIOUS
<1>3. PICK s \in Nat : s = Len(start) /\ s >= 1 /\ start[1] = Prompts[i]
                      /\ s = 1 + Len(BeginTokens)
  BY <1>1, <1>2, StartIs
<1>4. PICK u : u = b.tokens /\ u \in Seq(Words) /\ Len(u) = s + n /\ u[1] = Prompts[i]
  <2>1. b.tokens \in Seq(Words) /\ Len(b.tokens) = s + n
    BY <1>2, <1>3 DEF Beam, Descends
  <2>2. 1 \in 1..s
    BY <1>3
  <2>3. b.tokens[1] = Prompts[i]
    BY <1>2, <1>3, <2>2 DEF Descends
  <2> QED BY <2>1, <2>3
<1>5. PICK h : h = SubSeq(u, 1, s + k - 1) /\ Len(h) = s + k - 1 /\ h[1] = u[1]
  <2>1. s + k - 1 \in 0..Len(u) /\ 1 \in 1..(s + k - 1) /\ s + k - 1 \in Nat
    BY <1>3, <1>4
  <2>2. SubSeq(u, 1, s + k - 1) = [j \in 1..(s + k - 1) |-> u[j]]
        /\ SubSeq(u, 1, s + k - 1) \in Seq(Words)
    BY <1>4, <2>1, PrefixIs
  <2>3. SubSeq(u, 1, s + k - 1)[1] = u[1]
    BY <2>1, <2>2
  <2>4. Len(SubSeq(u, 1, s + k - 1)) = s + k - 1
    BY <2>1, <2>2
  <2> QED BY <2>3, <2>4
<1>6. NotAsked(h)
  <2>1. Made(i) \in Nat
    BY TheCall DEF Base, Shape, Control, Made
  <2>2. Len(h) \in Nat /\ Len(h) < Len(StartOf(i)) + Made(i)
    BY <1>2, <1>3, <1>5, <2>1
  <2> QED BY <1>4, <1>5, <2>2, OlderNotAsked
<1>7. Heard(b, Len(StartOf(i)), k) = h
  BY <1>2, <1>3, <1>4, <1>5 DEF Heard
<1> QED BY <1>6, <1>7

Accounts ==
    \A i \in 1..Len(Prompts) :
       Audited(beams[i], completed[i], Len(StartOf(i)), said, Opinions, IgnoreEos)

\* Of every beam that there is: whose it is, and how far it has come.
LEMMA BeamsAre ==
    ASSUME Base, NEW i \in 1..Len(Prompts)
    PROVE  /\ Made(i) \in Nat /\ beams[i] \in Seq(Beam) /\ completed[i] \in Seq(Beam)
           /\ Len(StartOf(i)) \in Nat /\ Len(StartOf(i)) >= 1
           /\ Len(StartOf(i)) = 1 + Len(BeginTokens)
           /\ \A k \in 1..Len(beams[i]) : /\ beams[i][k] \in Beam
                                         /\ beams[i][k].reason = "length"
                                         /\ Descends(beams[i][k], StartOf(i), Made(i))
           /\ \A k \in 1..Len(completed[i]) :
                 /\ completed[i][k] \in Beam /\ completed[i][k].reason = "stop"
                 /\ \E n \in 1..Made(i) :
                       /\ Descends(completed[i][k], StartOf(i), n)
                       /\ completed[i][k].tokens[Len(StartOf(i)) + n] = Eos
<1>1. Shape /\ Lineage /\ Control /\ CallIn
  BY DEF Base, Shape, Control
<1>2. Made(i) \in Nat
  BY <1>1, TheCall DEF Made, Control
<1>3. Len(StartOf(i)) \in Nat /\ Len(StartOf(i)) >= 1 /\ Len(StartOf(i)) = 1 + Len(BeginTokens)
  BY <1>1, StartIs
<1>4. beams[i] \in Seq(Beam) /\ completed[i] \in Seq(Beam)
  BY <1>1 DEF Shape
<1>5. /\ \A k \in 1..Len(beams[i]) : beams[i][k] \in Beam
      /\ \A k \in 1..Len(completed[i]) : completed[i][k] \in Beam
  BY <1>4
<1>6. Traced(beams[i], completed[i], StartOf(i), Made(i))
  BY <1>1 DEF Lineage
<1> QED BY <1>1, <1>2, <1>3, <1>4, <1>5, <1>6 DEF Shape, Traced

LEMMA SelectAccounts ==
    ASSUME Base, Accounts, Select
    PROVE  Accounts'
<1>1. Shape /\ Lineage /\ Control /\ CallIn /\ call' = call /\ said' = said
      /\ token < NumSteps /\ token \in Nat
  <2>1. Shape /\ Lineage /\ Control
    BY DEF Base, Shape
  <2>2. CallIn /\ call' = call /\ said' = said /\ token < NumSteps /\ token \in 0..NumSteps
    BY <2>1, SelectControl DEF Control, Select
  <2> QED BY <2>1, <2>2, TheCall
<1>2. PICK i \in 1..Len(Prompts) : \E data, e, t : Stepped(i, data, e, t)
  BY SelectSteps
<1>3. PICK data, e, t : Stepped(i, data, e, t)
  BY <1>2
<1>4. PICK list, more, start : list = beams'[i] /\ more = completed'[i] /\ start = StartOf(i)
  OBVIOUS
<1>5. OneStep(beams[i], completed[i], list, more, data, e, t) /\ Made(i) = token
  BY <1>3, <1>4 DEF Stepped
<1>6. Len(start) \in Nat /\ Traced(beams[i], completed[i], start, token)
      /\ \A k \in 1..Len(beams[i]) : beams[i][k].reason = "length"
  BY <1>1, <1>4, <1>5, BeamsAre DEF Lineage
<1>7. Audited(beams[i], completed[i], Len(start), said, Opinions, IgnoreEos)
  BY <1>4 DEF Accounts
<1>8. Audited(list, more, Len(start), said, Opinions, IgnoreEos)
  BY <1>1, <1>5, <1>6, <1>7, AuditedOn
<1>9. ASSUME NEW j \in 1..Len(Prompts)
      PROVE  Audited(beams'[j], completed'[j], Len(StartOf(j)), said, Opinions, IgnoreEos)
  <2>1. CASE j = i
    BY <1>4, <1>8, <2>1
  <2>2. CASE j # i
    BY <1>3, <2>2 DEF Stepped, Accounts
  <2> QED BY <2>1, <2>2
<1> QED BY <1>1, <1>9, SameCall DEF Accounts

LEMMA WaitAccounts ==
    ASSUME Base, Accounts, Waits
    PROVE  Accounts'
<1>1. call' = call /\ beams' = beams /\ completed' = completed
  BY DEF Waits, Generate, NoLogprobs, NextBatch, Finish, vars
<1>2. ASSUME NEW i \in 1..Len(Prompts), NEW b \in Beam, NEW n \in Nat, n <= Made(i),
             Descends(b, StartOf(i), n),
             Accounted(b, Len(StartOf(i)), said, Opinions, IgnoreEos)
      PROVE  Accounted(b, Len(StartOf(i)), said', Opinions, IgnoreEos)
  <2>1. CASE Generate
    <3>1. PICK s : s = Len(StartOf(i))
      OBVIOUS
    <3>2. Len(b.steps) = n
      BY <1>2 DEF Descends
    <3>3. ASSUME NEW k \in 1..n
          PROVE  Heard(b, s, k) \in DOMAIN said' /\ said'[Heard(b, s, k)] = said[Heard(b, s, k)]
      <4>1. NotAsked(Heard(b, s, k))
        BY <1>2, <3>1, HeardBefore
      <4>2. Heard(b, s, k) \in DOMAIN said
        BY <1>2, <3>1, <3>2 DEF Accounted
      <4> QED BY <2>1, <4>1, <4>2, GenerateIs DEF Base
    <3> QED BY <1>2, <3>1, <3>2, <3>3, TalkStays
  <2>2. CASE ~Generate
    <3>1. said' = said
      BY <2>2 DEF Waits, NoLogprobs, NextBatch, Finish, vars
    <3> QED BY <1>2, <3>1
  <2> QED BY <2>1, <2>2
<1>3. ASSUME NEW i \in 1..Len(Prompts)
      PROVE  Audited(beams[i], completed[i], Len(StartOf(i)), said', Opinions, IgnoreEos)
  <2>1. Audited(beams[i], completed[i], Len(StartOf(i)), said, Opinions, IgnoreEos)
    BY DEF Accounts
  <2>2. ASSUME NEW k \in 1..Len(beams[i])
        PROVE  Accounted(beams[i][k], Len(StartOf(i)), said', Opinions, IgnoreEos)
    <3>1. /\ beams[i][k] \in Beam /\ Made(i) \in Nat /\ Made(i) <= Made(i)
          /\ Descends(beams[i][k], StartOf(i), Made(i))
      BY BeamsAre
    <3>2. Accounted(beams[i][k], Len(StartOf(i)), said, Opinions, IgnoreEos)
      BY <2>1 DEF Audited
    <3> QED BY <1>2, <3>1, <3>2
  <2>3. ASSUME NEW k \in 1..Len(completed[i])
        PROVE  Accounted(completed[i][k], Len(StartOf(i)), said', Opinions, IgnoreEos)
    <3>1. PICK n \in 1..Made(i) : Descends(completed[i][k], StartOf(i), n)
      BY BeamsAre
    <3>2. completed[i][k] \in Beam /\ n \in Nat /\ n <= Made(i)
      BY BeamsAre
    <3>3. Accounted(completed[i][k], Len(StartOf(i)), said, Opinions, IgnoreEos)
      BY <2>1 DEF Audited
    <3> QED BY <1>2, <3>1, <3>2, <3>3
  <2> QED BY <2>2, <2>3 DEF Audited
<1> QED BY <1>1, <1>3, SameCall DEF Accounts

LEMMA InitAccounts ==
    ASSUME Init
    PROVE  Accounts
<1>1. CallIn /\ DOMAIN Prompts = 1..Len(Prompts)
  BY ThePrompts DEF Init, CallIn
<1>2. ASSUME NEW i \in 1..Len(Prompts)
      PROVE  Audited(beams[i], completed[i], Len(StartOf(i)), said, Opinions, IgnoreEos)
  <2>1. PICK b : b = [tokens |-> StartOf(i), cum |-> 0, steps |-> <<>>, reason |-> "length"]
    OBVIOUS
  <2>2. beams[i] = <<b>> /\ completed[i] = <<>>
    BY <1>1, <2>1 DEF Init, StartOf
  <2>3. Len(b.steps) = 0 /\ b.cum = 0 /\ b.tokens = StartOf(i)
    BY <2>1
  <2>4. PICK s \in Nat : s = Len(StartOf(i)) /\ Len(b.tokens) = s
    BY <1>1, <2>3, StartIs
  <2>5. Total(Paid(b, s, said)) = 0
    <3>1. Paid(b, s, said) = [k \in 1..0 |-> PaidAt(b, s, said, k)]
      BY <2>3 DEF Paid
    <3>2. Paid(b, s, said) = <<>>
      BY <3>1
    <3> QED BY <3>2, TotalEmpty
  <2>6. Accounted(b, s, said, Opinions, IgnoreEos)
    <3>1. ~Gone(b, s, IgnoreEos)
      BY <2>4 DEF Gone
    <3> QED BY <2>3, <2>5, <3>1 DEF Accounted
  <2>7. \A k \in 1..Len(<<b>>) : <<b>>[k] = b
    OBVIOUS
  <2>8. \A k \in 1..Len(<<>>) : FALSE
    OBVIOUS
  <2> QED BY <2>2, <2>4, <2>6, <2>7, <2>8 DEF Audited
<1> QED BY <1>2 DEF Accounts

LEMMA AccountsInvariant == Spec => []Accounts
<1>1. Init => Accounts
  BY InitAccounts
<1>2. Base /\ Accounts /\ [Next]_vars => Accounts'
  BY NextCases, SelectAccounts, WaitAccounts
<1> QED BY <1>1, <1>2, BaseInvariant, PTL DEF Spec

\* What ChargedForItself says of one beam.
OwnCharge(b, first) ==
    LET lp(k) == said[SubSeq(b.tokens, 1, first + k - 1)][b.tokens[first + k]]
    IN  /\ Len(b.steps) = Len(b.tokens) - first
        /\ \A k \in DOMAIN b.steps :
              {e \in ToSet(b.steps[k]) : e.token = b.tokens[first + k]}
                  = {[token |-> b.tokens[first + k], lp |-> lp(k)]}
        /\ b.cum = IF WentOn(b) THEN NegInf
                   ELSE Total([k \in DOMAIN b.steps |-> lp(k)])

\* A beam is charged, and its steps tell, what the model said of its own prompt
\* and tokens one after the other, whatever the slices it went through: the beam
\* of a prompt, and that of the flat list whose row is read, are one.
THEOREM ChargedForItselfHolds == Spec => []ChargedForItself
<1>1. ASSUME Base, Accounts PROVE ChargedForItself
  <2>1. DOMAIN Prompts = 1..Len(Prompts)
    <3>1. CallIn
      BY <1>1 DEF Base, Shape, Control
    <3> QED BY <3>1, ThePrompts
  <2>2. ASSUME NEW i \in 1..Len(Prompts), NEW b \in ToSet(beams[i] \o completed[i])
        PROVE  \E n \in Nat : /\ b \in Beam /\ Descends(b, StartOf(i), n)
                            /\ Accounted(b, Len(StartOf(i)), said, Opinions, IgnoreEos)
    <3>1. PICK u, v : u = beams[i] /\ v = completed[i]
      OBVIOUS
    <3>2. u \in Seq(Beam) /\ v \in Seq(Beam)
      BY <1>1, <3>1, BeamsAre
    <3>3. PICK l \in Nat, m \in Nat : l = Len(u) /\ m = Len(v)
      BY <3>2
    <3>4. /\ DOMAIN (u \o v) = 1..(l + m)
          /\ \A k \in 1..(l + m) : (u \o v)[k] = IF k <= l THEN u[k] ELSE v[k - l]
      BY <3>2, <3>3, ConcatProperties
    <3>5. PICK k \in 1..(l + m) : b = (u \o v)[k]
      BY <3>1, <3>4 DEF ToSet
    <3>6. Audited(u, v, Len(StartOf(i)), said, Opinions, IgnoreEos)
      BY <1>1, <3>1 DEF Accounts
    <3>7. CASE k <= l
      <4>1. k \in 1..l /\ b = u[k]
        BY <3>4, <3>5, <3>7
      <4> QED BY <1>1, <3>1, <3>3, <3>6, <4>1, BeamsAre DEF Audited
    <3>8. CASE ~(k <= l)
      <4>1. k - l \in 1..m /\ b = v[k - l]
        BY <3>4, <3>5, <3>8
      <4>2. PICK j \in 1..m : b = v[j]
        BY <4>1
      <4>3. PICK n \in 1..Made(i) : Descends(v[j], StartOf(i), n)
        BY <1>1, <3>1, <3>3, BeamsAre
      <4>4. n \in Nat /\ v[j] \in Beam
        BY <1>1, <3>1, <3>3, BeamsAre
      <4> QED BY <3>3, <3>6, <4>2, <4>3, <4>4 DEF Audited
    <3> QED BY <3>7, <3>8
  <2>3. SUFFICES ASSUME NEW i \in 1..Len(Prompts), NEW b \in ToSet(beams[i] \o completed[i])
                 PROVE  OwnCharge(b, 1 + Len(BeginTokens))
    BY <2>1, Zenon DEF ChargedForItself, OwnCharge
  <2>4. PICK n \in Nat : /\ b \in Beam /\ Descends(b, StartOf(i), n)
                         /\ Accounted(b, Len(StartOf(i)), said, Opinions, IgnoreEos)
    BY <2>2
  <2>5. PICK s \in Nat : s = 1 + Len(BeginTokens) /\ s = Len(StartOf(i))
    BY <1>1, BeamsAre
  <2>6. PICK x \in Nat : x = Len(BeginTokens) /\ s = 1 + x
    <3>1. CallIn
      BY <1>1 DEF Base, Shape, Control
    <3> QED BY <2>5, <3>1, TheCall
  <2>7. /\ Len(b.steps) = n /\ Len(b.tokens) = s + n /\ DOMAIN b.steps = 1..n
    <3>1. Len(b.steps) = n /\ Len(b.tokens) = s + n
      BY <2>4, <2>5 DEF Descends
    <3>2. b.steps \in Seq(Seq(Entries))
      BY <2>4 DEF Beam
    <3> QED BY <3>1, <3>2
  <2>9. ASSUME NEW k \in 1..n
        PROVE  {e \in ToSet(b.steps[k]) : e.token = b.tokens[s + k]}
                  = {[token |-> b.tokens[s + k], lp |-> PaidAt(b, s, said, k)]}
    BY <2>4, <2>5, <2>7 DEF Accounted, ToldOnce
  <2>10. WentOn(b) <=> Gone(b, s, IgnoreEos)
    <3>1. 2 + x = s + 1
      BY <2>6
    <3> QED BY <2>6, <3>1 DEF WentOn, Gone
  <2>11. b.cum = IF WentOn(b) THEN NegInf
                 ELSE Total([k \in DOMAIN b.steps |-> PaidAt(b, s, said, k)])
    <3>1. Paid(b, s, said) = [k \in DOMAIN b.steps |-> PaidAt(b, s, said, k)]
      BY <2>7 DEF Paid
    <3> QED BY <2>4, <2>5, <2>10, <3>1 DEF Accounted
  <2>12. Len(b.steps) = Len(b.tokens) - s
    BY <2>7
  <2>13. OwnCharge(b, s)
    <3>1. \A k \in DOMAIN b.steps : {e \in ToSet(b.steps[k]) : e.token = b.tokens[s + k]}
             = {[token |-> b.tokens[s + k], lp |-> PaidAt(b, s, said, k)]}
      BY <2>7, <2>9
    <3> QED BY <2>11, <2>12, <3>1, Zenon DEF OwnCharge, PaidAt, Heard
  <2> QED BY <2>5, <2>13
<1> QED BY <1>1, BaseInvariant, AccountsInvariant, PTL

-----------------------------------------------------------------------------
(* The scores are finite, but for the beams that went on past their end *)

\* x is the sum of n log-probabilities, at most, of those in S.
Within(x, n, S) ==
    x = NegInf \/ x = 0 \/ \E f \in S, u \in Token : x <= 0 /\ n * f[u] <= x

LEMMA PartAbove ==
    ASSUME NEW N \in Nat, NEW m \in Nat, m <= N, NEW y \in Int, y <= 0, N * y > NegInf
    PROVE  m * y \in Int /\ m * y > NegInf
<1>1. PICK d \in Nat : N = m + d
  <2>1. N - m \in Nat /\ N = m + (N - m)
    OBVIOUS
  <2> QED BY <2>1
<1>2. PICK q \in Int : q = d * y /\ q <= 0
  <2>1. d * y <= d * 0 /\ d * y \in Int
    BY Times
  <2> QED BY <2>1
<1>3. PICK p \in Int : p = m * y
  OBVIOUS
<1>4. N * y = p + q
  BY <1>1, <1>2, <1>3
<1> QED BY <1>2, <1>3, <1>4, NegInfIs

\* One more log-probability leaves a finite score finite.
LEMMA PlusWithin ==
    ASSUME CallIn, NEW n \in Nat, n < NumSteps, NEW x \in Int, Within(x, n, Said),
           NEW g \in Said, NEW v \in Token
    PROVE  /\ Within(Plus(x, g[v]), n + 1, Said) /\ Plus(x, g[v]) \in Int
           /\ (Plus(x, g[v]) = NegInf <=> x = NegInf) /\ Plus(x, g[v]) >= NegInf
<1>1. PICK N \in Nat : N = NumSteps
  BY TheCall
<1>2. \A f \in Said : \A u \in Token : f[u] \in Int /\ f[u] <= 0 /\ N * f[u] > NegInf
  <2> SUFFICES ASSUME NEW f \in Said, NEW u \in Token
               PROVE  f[u] \in Int /\ f[u] <= 0 /\ N * f[u] > NegInf
    OBVIOUS
  <2>1. f \in [Token -> Int] /\ f[u] <= 0 /\ NumSteps * f[u] > NegInf
    BY OpinionsAre
  <2> QED BY <1>1, <2>1
<1>3. PICK y \in Int : y = g[v] /\ y <= 0 /\ N * y > NegInf
  BY <1>2
<1>4. y # NegInf
  <2>1. 1 * y > NegInf
    BY <1>1, <1>3, PartAbove
  <2> QED BY <2>1, NegInfIs
<1>5. CASE x = NegInf
  BY <1>3, <1>5, NegInfIs DEF Plus, Within
<1>6. CASE x # NegInf
  <2>1. Plus(x, y) = x + y
    BY <1>4, <1>6 DEF Plus
  <2>2. \E f \in Said, u \in Token : x + y <= 0 /\ (n + 1) * f[u] <= x + y
    <3>1. PICK w \in Int : w = (n + 1) * y /\ w <= y
      BY <1>3, OneMore
    <3>2. CASE x = 0
      BY <1>3, <3>1, <3>2
    <3>3. CASE x # 0
      <4>1. PICK f \in Said, u \in Token : x <= 0 /\ n * f[u] <= x
        BY <1>6, <3>3 DEF Within
      <4>2. PICK z \in Int : z = f[u] /\ z <= 0
        BY <1>2
      <4>3. PICK p \in Int : p = n * z /\ p <= x
        BY <4>1, <4>2
      <4>4. PICK q \in Int : q = n * y
        BY <1>3
      <4>5. CASE z <= y
        <5>1. (n + 1) * z = p + z
          BY <4>2, <4>3, OneMore
        <5>2. (n + 1) * z <= x + y
          BY <4>3, <4>5, <5>1
        <5> QED BY <1>3, <4>1, <4>2, <5>2
      <4>6. CASE y < z
        <5>1. q <= p
          BY <4>3, <4>4, <4>6, Times
        <5>2. w = q + y
          BY <1>3, <3>1, <4>4, OneMore
        <5>3. w <= x + y
          BY <4>3, <5>1, <5>2
        <5> QED BY <1>3, <3>1, <4>1, <5>3
      <4> QED BY <4>5, <4>6
    <3> QED BY <3>2, <3>3
  <2>3. x + y > NegInf
    <3>1. PICK f \in Said, u \in Token : (n + 1) * f[u] <= x + y
      BY <2>2
    <3>2. PICK z \in Int : z = f[u] /\ z <= 0 /\ N * z > NegInf
      BY <1>2
    <3>3. PICK m \in Nat : m = n + 1 /\ m <= N
      BY <1>1
    <3>4. PICK p \in Int : p = m * z /\ p > NegInf
      BY <3>2, <3>3, PartAbove
    <3>5. p <= x + y
      BY <3>1, <3>2, <3>3, <3>4
    <3> QED BY <1>3, <3>4, <3>5, NegInfIs
  <2> QED BY <1>3, <1>6, <2>1, <2>2, <2>3, NegInfIs DEF Within
<1> QED BY <1>5, <1>6

\* The score of a candidate is finite where that of its beam is, and the score
\* that top-n sees is, too, unless the beam ends there.
LEMMA PlaceWithin ==
    ASSUME CallIn, NEW n \in Nat, n < NumSteps, token = n, NEW cur, NEW data, Rows(cur, data),
           \A b \in 1..Len(cur) : Informed(data[b], cur[b].tokens),
           \A b \in 1..Len(cur) : Within(cur[b].cum, n, Said), NEW p \in Places(cur)
    PROVE  /\ ScoreAt(cur, data, p) \in Int /\ KeptScoreAt(cur, data, p) \in Int
           /\ Within(KeptScoreAt(cur, data, p), n + 1, Said)
           /\ KeptScoreAt(cur, data, p) >= NegInf
           /\ ScoreAt(cur, data, p) = NegInf <=> cur[Owner(p)].cum = NegInf
           /\ ~EndsAt(data, p) => KeptScoreAt(cur, data, p) = ScoreAt(cur, data, p)
<1>1. PICK o \in 1..Len(cur) : o = Owner(p)
  BY PlaceFacts
<1>2. PICK r \in 1..BeamWidth : r = Rank(p)
  BY PlaceFacts
<1>3. PICK g : g = said[cur[o].tokens] /\ g \in Opinions[n + 1] /\ Offers(data[o], g)
  BY DEF Informed
<1>4. g \in Said
  <2>1. n + 1 \in 1..NumSteps
    BY TheCall
  <2> QED BY <1>3, <2>1 DEF Said
<1>5. PICK v \in Token : v = data[o][r].token /\ data[o][r].lp = g[v]
  BY <1>3, RowsFacts DEF Offers
<1>6. PICK x \in Int : x = cur[o].cum /\ Within(x, n, Said)
  BY RowsFacts
<1>7. ScoreAt(cur, data, p) = Plus(x, g[v])
  BY <1>1, <1>2, <1>5, <1>6 DEF ScoreAt
<1>8. /\ Within(Plus(x, g[v]), n + 1, Said) /\ Plus(x, g[v]) \in Int
      /\ (Plus(x, g[v]) = NegInf <=> x = NegInf) /\ Plus(x, g[v]) >= NegInf
  BY <1>4, <1>6, PlusWithin, Zenon
<1>9. Within(NegInf, n + 1, Said)
  BY DEF Within
<1> QED BY <1>1, <1>6, <1>7, <1>8, <1>9, NegInfIs DEF KeptScoreAt

\* The beams of a search, the completed ones first.
At(done, list, x) == IF x <= Len(done) THEN done[x] ELSE list[x - Len(done)]

\* W of them have a finite score.
Enough(list, done, W) ==
    \E h \in [1..W -> 1..(Len(done) + Len(list))] :
       /\ \A j, k \in 1..W : h[j] = h[k] => j = k
       /\ \A k \in 1..W : At(done, list, h[k]).cum # NegInf

\* After n steps of a search with beams of width W.
Finite(list, done, n, W, S) ==
    /\ \A k \in 1..Len(list) : Within(list[k].cum, n, S)
    /\ n = 0 => list[1].cum = 0
    /\ n > 0 => Enough(list, done, W)

\* Where the finite scores are after a step: where they were before, when all
\* beams have gone on past their end; with the beams that were kept; or with
\* all the candidates of one beam, each of which was kept or has ended.
LEMMA EnoughOn ==
    ASSUME CallIn, token \in Nat, token < NumSteps,
           NEW cur, NEW data, NEW e, NEW t, NEW done, NEW list, NEW more,
           OneStep(cur, done, list, more, data, e, t),
           Finite(cur, done, token, BeamWidth, Said)
    PROVE  Enough(list, more, BeamWidth)
<1> USE DEF OneStep
<1>1. PICK W \in Nat : W = BeamWidth /\ W >= 1
  BY TheCall
<1>2. PICK n \in Nat, x \in Nat, B \in Nat : n = Len(done) /\ x = Len(e) /\ B = Len(cur) /\ B >= 1
  <2>1. e \in Seq(Places(cur))
    BY DEF Selected
  <2>2. Len(e) \in Nat
    BY <2>1
  <2> QED BY <2>2, RowsFacts
<1>3. Len(more) = n + x /\ Len(list) = W
  BY <1>1, <1>2
<1>4. \A p \in Places(cur) :
         /\ ScoreAt(cur, data, p) \in Int /\ KeptScoreAt(cur, data, p) \in Int
         /\ KeptScoreAt(cur, data, p) >= NegInf
         /\ ScoreAt(cur, data, p) = NegInf <=> cur[Owner(p)].cum = NegInf
         /\ ~EndsAt(data, p) => KeptScoreAt(cur, data, p) = ScoreAt(cur, data, p)
  BY PlaceWithin DEF Finite
<1>5. ASSUME NEW k \in 1..W
      PROVE  t[k] \in Places(cur) /\ list[k].cum = KeptScoreAt(cur, data, t[k])
             /\ At(more, list, (n + x) + k) = list[k]
  <2>1. PICK p \in Places(cur) : p = t[k]
    BY <1>1 DEF Selected
  <2>2. list[k].cum = KeptScoreAt(cur, data, p)
    BY <1>1, <2>1 DEF KeptChild, ChildAt
  <2>3. At(more, list, (n + x) + k) = list[k]
    <3>1. ~((n + x) + k <= n + x) /\ ((n + x) + k) - (n + x) = k
      OBVIOUS
    <3> QED BY <1>3, <3>1 DEF At
  <2> QED BY <2>1, <2>2, <2>3
<1>6. ASSUME NEW k \in 1..x
      PROVE  e[k] \in Places(cur) /\ At(more, list, n + k).cum = ScoreAt(cur, data, e[k])
  <2>1. e \in Seq(Places(cur))
    BY DEF Selected
  <2>2. PICK p \in Places(cur) : p = e[k]
    BY <1>2, <2>1
  <2>3. more[n + k].cum = ScoreAt(cur, data, p)
    <3>1. more[n + k] = EndedChild(cur, data, p)
      BY <1>2, <2>2
    <3>2. EndedChild(cur, data, p).cum = ScoreAt(cur, data, p)
      BY DEF EndedChild, ChildAt
    <3> QED BY <3>1, <3>2
  <2>4. n + k <= n + x
    OBVIOUS
  <2> QED BY <1>3, <2>2, <2>3, <2>4 DEF At
<1>10. ASSUME NEW h \in [1..W -> 1..((n + x) + W)],
              \A j, k \in 1..W : h[j] = h[k] => j = k,
              \A k \in 1..W : At(more, list, h[k]).cum # NegInf
       PROVE  Enough(list, more, BeamWidth)
  <2>1. 1..(Len(more) + Len(list)) = 1..((n + x) + W)
    BY <1>3
  <2>2. h \in [1..W -> 1..(Len(more) + Len(list))]
    BY <2>1
  <2>3. Enough(list, more, W)
    BY <1>10, <2>2, Zenon DEF Enough
  <2> QED BY <1>1, <2>3
<1>7. CASE \A k \in 1..W : list[k].cum # NegInf
  <2> DEFINE h == [k \in 1..W |-> (n + x) + k]
  <2>1. h \in [1..W -> 1..((n + x) + W)]
    OBVIOUS
  <2>2. \A j, k \in 1..W : h[j] = h[k] => j = k
    OBVIOUS
  <2>3. \A k \in 1..W : At(more, list, h[k]).cum # NegInf
    BY <1>5, <1>7
  <2> HIDE DEF h
  <2> QED BY <1>10, <2>1, <2>2, <2>3
<1>8. CASE \A b \in 1..B : cur[b].cum = NegInf
  <2>1. token > 0
    <3> SUFFICES ASSUME token = 0 PROVE FALSE
      OBVIOUS
    <3>1. cur[1].cum = 0
      BY DEF Finite
    <3> QED BY <1>2, <1>8, <3>1, NegInfIs
  <2>2. PICK h \in [1..W -> 1..(n + B)] :
           /\ \A j, k \in 1..W : h[j] = h[k] => j = k
           /\ \A k \in 1..W : At(done, cur, h[k]).cum # NegInf
    BY <1>1, <1>2, <2>1 DEF Finite, Enough
  <2>3. ASSUME NEW k \in 1..W
        PROVE  h[k] \in 1..n /\ At(more, list, h[k]).cum # NegInf
    <3>1. PICK m \in 1..(n + B) : m = h[k]
      BY <2>2
    <3>2. m <= n
      <4> SUFFICES ASSUME m > n PROVE FALSE
        BY <3>1
      <4>1. m - n \in 1..B
        BY <3>1
      <4>2. At(done, cur, m) = cur[m - n]
        BY <1>2 DEF At
      <4> QED BY <1>8, <2>2, <3>1, <4>1, <4>2
    <3>3. At(done, cur, m) = done[m]
      BY <1>2, <3>2 DEF At
    <3>4. At(more, list, m) = more[m] /\ m \in 1..n
      BY <1>3, <3>1, <3>2 DEF At
    <3>5. more[m] = done[m]
      BY <1>2, <3>4
    <3> QED BY <2>2, <3>1, <3>3, <3>4, <3>5
  <2>4. h \in [1..W -> 1..((n + x) + W)]
    <3>1. \A k \in 1..W : h[k] \in 1..((n + x) + W)
      BY <2>3
    <3> QED BY <2>2, <3>1
  <2> QED BY <1>10, <2>2, <2>3, <2>4
<1>9. CASE (\E k \in 1..W : list[k].cum = NegInf) /\ (\E b \in 1..B : cur[b].cum # NegInf)
  <2>1. PICK k0 \in 1..W : list[k0].cum = NegInf
    BY <1>9
  <2>2. PICK b \in 1..B : cur[b].cum # NegInf
    BY <1>9
  <2> DEFINE From(m) == IF m <= n + x THEN e[m - n] ELSE t[m - (n + x)]
             At1(r) == PlaceAt(W, b, r)
  <2>3. ASSUME NEW r \in 1..W
        PROVE  \E m \in 1..((n + x) + W) : From(m) = At1(r) /\ At(more, list, m).cum # NegInf
    <3>1. PICK p : p = At1(r)
      OBVIOUS
    <3>2. p \in Places(cur) /\ Owner(p) = b
      <4>1. W \in Nat \ {0} /\ B \in Nat
        BY <1>1
      <4>2. InPlace(B, W, b, r)
        BY <4>1 DEF InPlace
      <4>3. p \in 1..(B * W) /\ OwnerAt(W, p) = b
        BY <3>1, <4>2, PlaceOf
      <4> QED BY <1>1, <1>2, <4>3, Zenon DEF Places, Owner
    <3>3. ScoreAt(cur, data, p) # NegInf
      BY <1>4, <2>2, <3>2
    <3>4. CASE EndsAt(data, p)
      <4>1. PICK j \in 1..x : e[j] = p
        BY <1>2, <3>2, <3>4 DEF Selected
      <4>2. n + j \in 1..((n + x) + W) /\ n + j <= n + x /\ (n + j) - n = j
        OBVIOUS
      <4>3. At(more, list, n + j).cum # NegInf
        BY <1>6, <3>3, <4>1
      <4> QED BY <3>1, <4>1, <4>2, <4>3
    <3>5. CASE ~EndsAt(data, p)
      <4>1. KeptScoreAt(cur, data, p) \in Int /\ KeptScoreAt(cur, data, p) > NegInf
        BY <1>4, <3>2, <3>3, <3>5, NegInfIs
      <4>2. PICK j \in 1..W : t[j] = p
        <5> SUFFICES ASSUME \A j \in 1..W : t[j] # p PROVE FALSE
          OBVIOUS
        <5>1. KeptScoreAt(cur, data, p) <= KeptScoreAt(cur, data, t[k0])
          BY <1>1, <3>2 DEF Selected
        <5>2. KeptScoreAt(cur, data, t[k0]) = NegInf
          BY <1>5, <2>1
        <5> QED BY <4>1, <5>1, <5>2, NegInfIs
      <4>3. /\ (n + x) + j \in 1..((n + x) + W) /\ ~((n + x) + j <= n + x)
            /\ ((n + x) + j) - (n + x) = j
        OBVIOUS
      <4>4. At(more, list, (n + x) + j).cum # NegInf
        BY <1>5, <4>1, <4>2, NegInfIs
      <4> QED BY <3>1, <4>2, <4>3, <4>4
    <3> QED BY <3>4, <3>5
  <2>4. \A j, k \in 1..W : At1(j) = At1(k) => j = k
    BY DEF PlaceAt
  <2> HIDE DEF From, At1
  <2> DEFINE h == [r \in 1..W |-> CHOOSE m \in 1..((n + x) + W) :
                                    From(m) = At1(r) /\ At(more, list, m).cum # NegInf]
  <2>5. \A r \in 1..W : /\ h[r] \in 1..((n + x) + W) /\ From(h[r]) = At1(r)
                        /\ At(more, list, h[r]).cum # NegInf
    BY <2>3
  <2>6. h = [r \in 1..W |-> h[r]]
    OBVIOUS
  <2> HIDE DEF h
  <2>7. h \in [1..W -> 1..((n + x) + W)]
    BY <2>5, <2>6
  <2>8. \A j, k \in 1..W : h[j] = h[k] => j = k
    BY <2>4, <2>5
  <2> QED BY <1>10, <2>5, <2>7, <2>8
<1> QED BY <1>1, <1>7, <1>8, <1>9

LEMMA FiniteOn ==
    ASSUME CallIn, token \in Nat, token < NumSteps,
           NEW cur, NEW data, NEW e, NEW t, NEW done, NEW list, NEW more,
           OneStep(cur, done, list, more, data, e, t),
           Finite(cur, done, token, BeamWidth, Said)
    PROVE  Finite(list, more, token + 1, BeamWidth, Said)
<1>1. PICK W \in Nat : W = BeamWidth /\ W >= 1
  BY TheCall
<1>2. ASSUME NEW k \in 1..W PROVE Within(list[k].cum, token + 1, Said)
  <2>1. PICK p \in Places(cur) : p = t[k]
    BY <1>1 DEF OneStep, Selected
  <2>2. list[k] = KeptChild(cur, data, p)
    BY <1>1, <2>1 DEF OneStep
  <2>3. list[k].cum = KeptScoreAt(cur, data, p)
    BY <2>2 DEF KeptChild, ChildAt
  <2>4. Within(KeptScoreAt(cur, data, p), token + 1, Said)
    BY PlaceWithin DEF Finite, OneStep
  <2> QED BY <2>3, <2>4
<1>3. Len(list) = W
  BY <1>1 DEF OneStep
<1>4. Enough(list, more, BeamWidth)
  BY EnoughOn
<1>5. token + 1 # 0
  OBVIOUS
<1> QED BY <1>2, <1>3, <1>4, <1>5 DEF Finite

FiniteScores ==
    \A i \in 1..Len(Prompts) : Finite(beams[i], completed[i], Made(i), BeamWidth, Said)

LEMMA SelectFinite ==
    ASSUME Base, FiniteScores, Select
    PROVE  FiniteScores'
<1>1. CallIn /\ call' = call /\ token < NumSteps /\ token \in Nat
  <2>1. Control
    BY DEF Base, Shape
  <2>2. CallIn /\ call' = call /\ token < NumSteps /\ token \in 0..NumSteps
    BY <2>1, SelectControl DEF Control, Select
  <2> QED BY <2>2, TheCall
<1>2. PICK i \in 1..Len(Prompts) : \E data, e, t : Stepped(i, data, e, t)
  BY SelectSteps
<1>3. PICK data, e, t : Stepped(i, data, e, t)
  BY <1>2
<1>4. PICK list, more : list = beams'[i] /\ more = completed'[i]
  OBVIOUS
<1>5. /\ OneStep(beams[i], completed[i], list, more, data, e, t)
      /\ Made(i) = token /\ Made(i)' = token + 1
  BY <1>3, <1>4 DEF Stepped
<1>6. Finite(beams[i], completed[i], token, BeamWidth, Said)
  BY <1>5 DEF FiniteScores
<1>7. Finite(list, more, token + 1, BeamWidth, Said)
  BY <1>1, <1>5, <1>6, FiniteOn
<1>8. ASSUME NEW j \in 1..Len(Prompts)
      PROVE  Finite(beams'[j], completed'[j], Made(j)', BeamWidth, Said)
  <2>1. CASE j = i
    BY <1>4, <1>5, <1>7, <2>1
  <2>2. CASE j # i
    BY <1>3, <2>2 DEF Stepped, FiniteScores
  <2> QED BY <2>1, <2>2
<1>9. Said' = Said
  BY <1>1, SameCall DEF Said
<1> QED BY <1>1, <1>8, <1>9, SameCall DEF FiniteScores

LEMMA WaitFinite ==
    ASSUME Base, FiniteScores, Waits
    PROVE  FiniteScores'
<1>1. call' = call /\ beams' = beams /\ completed' = completed
  BY DEF Waits, Generate, NoLogprobs, NextBatch, Finish, vars
<1>2. \A i \in 1..Len(Prompts) : Made(i)' = Made(i)
  BY WaitMade DEF Base
<1>3. Said' = Said
  BY <1>1, SameCall DEF Said
<1> QED BY <1>1, <1>2, <1>3, SameCall DEF FiniteScores

LEMMA InitFinite ==
    ASSUME Init
    PROVE  FiniteScores
<1>1. CallIn /\ DOMAIN Prompts = 1..Len(Prompts)
  BY ThePrompts DEF Init, CallIn
<1>2. ASSUME NEW i \in 1..Len(Prompts)
      PROVE  Finite(beams[i], completed[i], Made(i), BeamWidth, Said)
  <2>1. PICK b : b = [tokens |-> StartOf(i), cum |-> 0, steps |-> <<>>, reason |-> "length"]
    OBVIOUS
  <2>2. beams[i] = <<b>>
    BY <1>1, <2>1 DEF Init, StartOf
  <2>3. b.cum = 0
    BY <2>1
  <2>4. Made(i) = 0
    <3>1. prompt_start = 0 /\ token = 0 /\ instance = 0
      BY DEF Init
    <3>2. i \in Nat /\ i >= 1
      BY <1>1, ThePrompts
    <3> QED BY <3>1, <3>2 DEF Made
  <2>5. /\ \A k \in 1..Len(<<b>>) : <<b>>[k] = b
        /\ <<b>>[1] = b
    OBVIOUS
  <2>6. Within(b.cum, Made(i), Said)
    BY <2>3 DEF Within
  <2> QED BY <2>2, <2>3, <2>4, <2>5, <2>6 DEF Finite
<1> QED BY <1>2 DEF FiniteScores

LEMMA FiniteScoresInvariant == Spec => []FiniteScores
<1>1. Init => FiniteScores
  BY InitFinite
<1>2. Base /\ FiniteScores /\ [Next]_vars => FiniteScores'
  BY NextCases, SelectFinite, WaitFinite
<1> QED BY <1>1, <1>2, BaseInvariant, PTL DEF Spec

-----------------------------------------------------------------------------
(* The order of the answers *)

\* A score of x for a tokens is better than one of y for b of them.
Higher(x, a, y, b) ==
    IF NegInf \in {x, y} THEN x # NegInf /\ y = NegInf ELSE x * b > y * a

LEMMA BetterIs ==
    ASSUME NEW x, NEW y
    PROVE  Better(x, y) <=> Higher(x.cum, SeqLen(x.tokens), y.cum, SeqLen(y.tokens))
BY DEF Better, Higher

\* x/a is no less than z/c when y/b is between the two.
LEMMA Between ==
    ASSUME NEW x \in Int, NEW y \in Int, NEW z \in Int,
           NEW a \in Nat, NEW b \in Nat, NEW c \in Nat, b >= 1,
           x * b >= y * a, y * c >= z * b
    PROVE  x * c >= z * a
<1>1. PICK p \in Int : p = x * c
  OBVIOUS
<1>2. PICK q \in Int : q = z * a
  OBVIOUS
<1>3. c * (y * a) <= c * (x * b) /\ a * (z * b) <= a * (y * c)
  BY Times
<1>4. c * (x * b) = b * p /\ a * (z * b) = b * q /\ c * (y * a) = a * (y * c)
  BY <1>1, <1>2
<1>5. b * q <= b * p
  <2>1. PICK u \in Int : u = c * (y * a)
    OBVIOUS
  <2>2. PICK v \in Int, w \in Int : v = b * p /\ w = b * q
    OBVIOUS
  <2> QED BY <1>3, <1>4, <2>1, <2>2
<1>6. q <= p
  <2> SUFFICES ASSUME p < q PROVE FALSE
    OBVIOUS
  <2>1. p + 1 <= q
    OBVIOUS
  <2>2. b * (p + 1) <= b * q
    BY <2>1, Times
  <2>3. PICK v \in Int, w \in Int : v = b * p /\ w = b * q
    OBVIOUS
  <2>4. b * (p + 1) = v + b
    BY <2>3
  <2> QED BY <1>5, <2>2, <2>3, <2>4
<1> QED BY <1>1, <1>2, <1>6

LEMMA NotHigher ==
    ASSUME NEW x \in Int, NEW y \in Int, NEW z \in Int,
           NEW a \in Nat, NEW b \in Nat, NEW c \in Nat, b >= 1,
           ~Higher(y, b, x, a), ~Higher(z, c, y, b)
    PROVE  ~Higher(z, c, x, a)
<1>1. CASE NegInf \in {x, y, z}
  BY <1>1 DEF Higher
<1>2. CASE NegInf \notin {x, y, z}
  <2>1. ~(y * a > x * b) /\ ~(z * b > y * c)
    BY <1>2 DEF Higher
  <2>2. x * b >= y * a /\ y * c >= z * b
    <3>1. PICK p \in Int, q \in Int : p = x * b /\ q = y * a
      OBVIOUS
    <3>2. PICK r \in Int, s \in Int : r = y * c /\ s = z * b
      OBVIOUS
    <3> QED BY <2>1, <3>1, <3>2
  <2>3. x * c >= z * a
    BY <2>2, Between
  <2>4. PICK p \in Int, q \in Int : p = x * c /\ q = z * a
    OBVIOUS
  <2>5. ~(z * a > x * c)
    BY <2>3, <2>4
  <2> QED BY <1>2, <2>5 DEF Higher
<1> QED BY <1>1, <1>2

LEMMA HigherOnce ==
    ASSUME NEW x \in Int, NEW y \in Int, NEW a \in Nat, NEW b \in Nat, Higher(x, a, y, b)
    PROVE  ~Higher(y, b, x, a)
<1>1. PICK p \in Int, q \in Int : p = x * b /\ q = y * a
  OBVIOUS
<1> QED BY <1>1 DEF Higher

\* A list whose beams can be compared.
Scored(fs, n) ==
    /\ DOMAIN fs = 1..n
    /\ \A k \in 1..n : /\ fs[k].cum \in Int /\ SeqLen(fs[k].tokens) \in Nat
                       /\ SeqLen(fs[k].tokens) >= 1

LEMMA InEarlier ==
    ASSUME NEW fs, NEW j \in DOMAIN fs, NEW k \in DOMAIN fs
    PROVE  <<j, k>> \in Earlier(fs)
              <=> Better(fs[j], fs[k]) \/ (~Better(fs[k], fs[j]) /\ j < k)
<1>1. PICK p : p = <<j, k>>
  OBVIOUS
<1>2. p \in (DOMAIN fs) \X (DOMAIN fs)
  BY <1>1
<1> QED BY <1>1, <1>2 DEF Earlier

LEMMA EarlierIs ==
    ASSUME NEW fs, NEW n \in Nat, Scored(fs, n)
    PROVE  /\ \A j, k \in 1..n : Better(fs[j], fs[k]) => ~Better(fs[k], fs[j])
           /\ \A j, k \in 1..n : <<j, k>> \in Earlier(fs)
                 <=> ~Better(fs[k], fs[j]) /\ (Better(fs[j], fs[k]) \/ j < k)
           /\ StrictOrder(1..n, Earlier(fs))
<1>1. ASSUME NEW j \in 1..n, NEW k \in 1..n, Better(fs[j], fs[k]) PROVE ~Better(fs[k], fs[j])
  BY <1>1, BetterIs, HigherOnce DEF Scored
<1>2. ASSUME NEW j \in 1..n, NEW k \in 1..n, NEW l \in 1..n,
             ~Better(fs[k], fs[j]), ~Better(fs[l], fs[k])
      PROVE  ~Better(fs[l], fs[j])
  <2>1. PICK x \in Int, y \in Int, z \in Int : x = fs[j].cum /\ y = fs[k].cum /\ z = fs[l].cum
    BY DEF Scored
  <2>2. PICK a \in Nat, b \in Nat, c \in Nat :
           /\ a = SeqLen(fs[j].tokens) /\ b = SeqLen(fs[k].tokens) /\ c = SeqLen(fs[l].tokens)
           /\ b >= 1
    BY DEF Scored
  <2>3. ~Higher(y, b, x, a) /\ ~Higher(z, c, y, b)
    BY <1>2, <2>1, <2>2, BetterIs
  <2>4. ~Higher(z, c, x, a)
    <3>1. b >= 1 /\ ~Higher(y, b, x, a) /\ ~Higher(z, c, y, b)
      BY <2>2, <2>3
    <3> QED BY <3>1, NotHigher, Zenon
  <2> QED BY <2>1, <2>2, <2>4, BetterIs
<1>3. ASSUME NEW j \in 1..n, NEW k \in 1..n
      PROVE  <<j, k>> \in Earlier(fs)
                <=> ~Better(fs[k], fs[j]) /\ (Better(fs[j], fs[k]) \/ j < k)
  <2>1. <<j, k>> \in Earlier(fs)
           <=> Better(fs[j], fs[k]) \/ (~Better(fs[k], fs[j]) /\ j < k)
    BY InEarlier DEF Scored
  <2>2. Better(fs[j], fs[k]) => ~Better(fs[k], fs[j])
    BY <1>1
  <2> QED BY <2>1, <2>2, Zenon
<1>4. \A j \in 1..n : <<j, j>> \notin Earlier(fs)
  BY <1>1, <1>3
<1>5. ASSUME NEW j \in 1..n, NEW k \in 1..n, NEW l \in 1..n,
             <<j, k>> \in Earlier(fs), <<k, l>> \in Earlier(fs)
      PROVE  <<j, l>> \in Earlier(fs)
  <2>1. /\ ~Better(fs[k], fs[j]) /\ (Better(fs[j], fs[k]) \/ j < k)
        /\ ~Better(fs[l], fs[k]) /\ (Better(fs[k], fs[l]) \/ k < l)
    BY <1>3, <1>5
  <2>2. ~Better(fs[l], fs[j])
    BY <1>2, <2>1
  <2>3. Better(fs[j], fs[l]) \/ j < l
    <3> SUFFICES ASSUME ~Better(fs[j], fs[l]) PROVE j < l
      OBVIOUS
    <3>1. ~Better(fs[j], fs[k])
      BY <1>2, <2>1
    <3>2. ~Better(fs[k], fs[l])
      BY <1>2, <2>1
    <3> QED BY <2>1, <3>1, <3>2
  <2> QED BY <1>3, <2>2, <2>3
<1>6. ASSUME NEW j \in 1..n, NEW k \in 1..n, j # k
      PROVE  <<j, k>> \in Earlier(fs) \/ <<k, j>> \in Earlier(fs)
  BY <1>1, <1>3, <1>6
<1>7. StrictOrder(1..n, Earlier(fs))
  BY <1>4, <1>5, <1>6, Zenon DEF StrictOrder
<1> QED BY <1>1, <1>3, <1>7

\* W beams of the list have a finite score, those that h names.
FiniteOnes(fs, n, W, h) ==
    /\ n \in Nat /\ W \in Nat /\ Scored(fs, n)
    /\ h \in [1..W -> 1..n] /\ \A j, k \in 1..W : h[j] = h[k] => j = k
    /\ \A k \in 1..W : fs[h[k]].cum # NegInf

\* The first W have one, then.
LEMMA BestOnesAreFinite ==
    ASSUME NEW fs, NEW n, NEW W, NEW h, FiniteOnes(fs, n, W, h),
           NEW s, s = InOrder(1..n, Earlier(fs))
    PROVE  W <= n /\ \A k \in 1..W : s[k] \in 1..n /\ fs[s[k]].cum # NegInf
<1> USE DEF FiniteOnes
<1>1. /\ IsFiniteSet(1..n) /\ Cardinality(1..n) = n
      /\ \A m \in Nat : IsFiniteSet(1..m) /\ Cardinality(1..m) = m
  BY FS_Interval
<1>2. Ordered(s, 1..n, Earlier(fs))
  BY <1>1, EarlierIs, InOrderIs
<1>3. /\ s \in [1..n -> 1..n]
      /\ \A x \in 1..n : \E k \in 1..n : s[k] = x
      /\ \A j, k \in 1..n : j < k => <<s[j], s[k]>> \in Earlier(fs)
  BY <1>1, <1>2 DEF Ordered
<1>4. W <= n
  <2> SUFFICES ASSUME n < W PROVE FALSE
    OBVIOUS
  <2>1. \E x, y \in 1..W : x # y /\ h[x] = h[y]
    BY <1>1, FS_PigeonHole
  <2> QED BY <2>1
<1>5. ASSUME NEW k \in 1..W, fs[s[k]].cum = NegInf PROVE FALSE
  <2>1. k \in 1..n /\ s[k] \in 1..n
    BY <1>3, <1>4
  <2>2. ASSUME NEW j \in 1..W PROVE \E l \in 1..(k - 1) : s[l] = h[j]
    <3>1. PICK x \in 1..n : x = h[j] /\ fs[x].cum # NegInf
      OBVIOUS
    <3>2. PICK l \in 1..n : s[l] = x
      BY <1>3
    <3>3. Better(fs[x], fs[s[k]])
      BY <1>5, <3>1 DEF Better
    <3>4. l # k
      BY <1>5, <3>1, <3>2
    <3>5. ~(k < l)
      <4> SUFFICES ASSUME k < l PROVE FALSE
        OBVIOUS
      <4>1. <<s[k], s[l]>> \in Earlier(fs)
        BY <1>3, <2>1
      <4> QED BY <2>1, <3>2, <3>3, <4>1, EarlierIs
    <3>6. l \in 1..(k - 1)
      BY <2>1, <3>4, <3>5
    <3> QED BY <3>1, <3>2, <3>6
  <2> DEFINE g == [j \in 1..W |-> CHOOSE l \in 1..(k - 1) : s[l] = h[j]]
  <2>3. \A j \in 1..W : g[j] \in 1..(k - 1) /\ s[g[j]] = h[j]
    BY <2>2
  <2>4. g = [j \in 1..W |-> g[j]]
    OBVIOUS
  <2> HIDE DEF g
  <2>5. g \in [1..W -> 1..(k - 1)]
    BY <2>3, <2>4
  <2>6. PICK m \in Nat : m = k - 1 /\ m < W
    OBVIOUS
  <2>7. \E x, y \in 1..W : x # y /\ g[x] = g[y]
    <3>1. g \in [1..W -> 1..m]
      BY <2>5, <2>6
    <3> QED BY <1>1, <2>6, <3>1, FS_PigeonHole
  <2>8. PICK x \in 1..W, y \in 1..W : x # y /\ g[x] = g[y]
    BY <2>7
  <2>9. h[x] = h[y]
    BY <2>3, <2>8
  <2> QED BY <2>8, <2>9
<1>6. \A k \in 1..W : s[k] \in 1..n
  BY <1>3, <1>4
<1> QED BY <1>4, <1>5, <1>6

-----------------------------------------------------------------------------
(* The answers *)

Joint(u, v) ==
    /\ Len(u) \in Nat /\ Len(v) \in Nat /\ Len(u \o v) = Len(u) + Len(v)
    /\ \A k \in 1..Len(u) : (u \o v)[k] = u[k]
    /\ \A k \in 1..Len(v) : (u \o v)[Len(u) + k] = v[k]

\* Strung together, two sequences are a sequence of both of their sets.
LEMMA JoinIs ==
    ASSUME NEW S, NEW T, NEW u \in Seq(S), NEW v \in Seq(T)
    PROVE  u \o v \in Seq(S \cup T) /\ Joint(u, v)
<1>1. PICK R : R = S \cup T
  OBVIOUS
<1>2. ASSUME NEW A, A \subseteq R, NEW s \in Seq(A) PROVE s \in Seq(R)
  BY <1>2
<1>3. u \in Seq(R) /\ v \in Seq(R)
  BY <1>1, <1>2
<1>4. /\ u \o v \in Seq(R) /\ Len(u) \in Nat /\ Len(v) \in Nat
      /\ Len(u \o v) = Len(u) + Len(v)
      /\ \A k \in 1..Len(u) : (u \o v)[k] = u[k]
  BY <1>3
<1>5. ASSUME NEW k \in 1..Len(v) PROVE (u \o v)[Len(u) + k] = v[k]
  <2>1. PICK m \in Nat, n \in Nat : m = Len(v) /\ n = Len(u)
    BY <1>4
  <2>2. n + k \in (n + 1)..(n + m) /\ (n + k) - n = k
    BY <2>1
  <2>3. (u \o v)[n + k] = v[(n + k) - n]
    BY <1>3, <2>1, <2>2, ConcatProperties
  <2> QED BY <2>1, <2>2, <2>3
<1> QED BY <1>1, <1>4, <1>5 DEF Joint

LEMMA CertainIs ==
    ASSUME NEW S, NEW u \in Seq(S)
    PROVE  \E T : Certain(u) \in Seq(T) /\ Len(Certain(u)) = Len(u) /\ Len(u) \in Nat
<1>1. PICK n \in Nat : n = Len(u) /\ DOMAIN u = 1..n
  OBVIOUS
<1>2. PICK T : T = {<< [token |-> u[k], lp |-> 0] >> : k \in 1..n}
  OBVIOUS
<1>3. Certain(u) = [k \in 1..n |-> << [token |-> u[k], lp |-> 0] >>]
  BY <1>1 DEF Certain
<1>4. Certain(u) \in [1..n -> T]
  BY <1>2, <1>3
<1>5. Certain(u) \in Seq(T) /\ Len(Certain(u)) = n
  BY <1>4
<1> QED BY <1>1, <1>5

\* What an answer is made of: a beam with a score and with as many entries as it
\* has tokens after its prompt.
IsFinal(f) ==
    /\ f.cum \in Int
    /\ SeqLen(f.tokens) \in Nat /\ SeqLen(f.tokens) >= 1
    /\ Len(Logprobs(f)) = Len(f.tokens) - 1

LEMMA StepsJoin ==
    ASSUME CallIn, NEW f, NEW S, f.steps \in Seq(S), NEW n \in Nat, Len(f.steps) = n,
           f.reason \in {"stop", "length"}
    PROVE  Len(Logprobs(f)) = Len(BeginTokens) + n
                                + (IF f.reason = "stop" THEN 0 ELSE Len(EndTokens))
<1>1. PICK B : Certain(BeginTokens) \in Seq(B) /\ Len(Certain(BeginTokens)) = Len(BeginTokens)
               /\ Len(BeginTokens) \in Nat
  BY TheCall, CertainIs
<1>2. PICK E : Certain(EndTokens) \in Seq(E) /\ Len(Certain(EndTokens)) = Len(EndTokens)
               /\ Len(EndTokens) \in Nat
  BY TheCall, CertainIs
<1>3. PICK v : v = (IF f.reason = "stop" THEN <<>> ELSE Certain(EndTokens))
  OBVIOUS
<1>4. /\ v \in Seq(E) /\ Len(v) = (IF f.reason = "stop" THEN 0 ELSE Len(EndTokens))
      /\ Len(v) \in Nat
  BY <1>2, <1>3
<1>5. PICK u, w : u = Certain(BeginTokens) /\ w = f.steps
  OBVIOUS
<1>6. u \o w \in Seq(B \cup S) /\ Len(u \o w) = Len(u) + Len(w)
  BY <1>1, <1>5, JoinIs DEF Joint
<1>7. Len((u \o w) \o v) = Len(u \o w) + Len(v)
  <2>1. PICK A : A = B \cup S
    OBVIOUS
  <2>2. u \o w \in Seq(A) /\ v \in Seq(E)
    BY <1>4, <1>6, <2>1
  <2>3. Joint(u \o w, v)
    BY <2>2, JoinIs
  <2> QED BY <2>3 DEF Joint
<1>8. Logprobs(f) = (u \o w) \o v
  BY <1>3, <1>5, Zenon DEF Logprobs
<1>9. PICK b \in Nat, e \in Nat : b = Len(BeginTokens) /\ e = Len(v)
  BY <1>1, <1>4
<1>10. Len(Logprobs(f)) = b + n + e
  BY <1>1, <1>5, <1>6, <1>7, <1>8, <1>9
<1> QED BY <1>4, <1>9, <1>10

LEMMA SeqLenIs ==
    ASSUME NEW u, NEW n \in Nat, n >= 1, Len(u) = n, PromptLen[u[1]] \in Nat,
           PromptLen[u[1]] >= 1, u[1] # Eos
    PROVE  SeqLen(u) \in Nat /\ SeqLen(u) >= 1
<1>1. PICK x \in Nat : x = PromptLen[u[1]] /\ x >= 1
  OBVIOUS
<1>2. PICK y \in 0..1 : y = IF Last(u) = Eos THEN 1 ELSE 0
  OBVIOUS
<1>3. SeqLen(u) = x + n - 1 - y
  BY <1>1, <1>2 DEF SeqLen
<1>4. n = 1 => y = 0
  BY <1>2 DEF Last
<1> QED BY <1>1, <1>3, <1>4

\* fs are the beams of the lists done and list, the latter with an end.
FinalsOf(fs, list, done, n, end) ==
    /\ n = Len(done) + Len(list) /\ n \in Nat /\ DOMAIN fs = 1..n /\ Len(fs) = n
    /\ \A k \in 1..n : IsFinal(fs[k]) /\ fs[k].cum = At(done, list, k).cum
    /\ \A k \in 1..Len(done) : fs[k] = done[k]
    /\ \A k \in 1..Len(list) : fs[Len(done) + k].tokens = list[k].tokens \o end

\* The beams that the i-th prompt is answered from.
LEMMA FinalsAre ==
    ASSUME Base, NEW i \in 1..Len(Prompts)
    PROVE  \E n : FinalsOf(Finals(i), beams[i], completed[i], n, EndTokens)
<1>20. PICK list, done : list = beams[i] /\ done = completed[i]
  OBVIOUS
<1>1. /\ CallIn /\ Made(i) \in Nat /\ list \in Seq(Beam) /\ done \in Seq(Beam)
      /\ Len(StartOf(i)) = 1 + Len(BeginTokens)
      /\ \A k \in 1..Len(list) : /\ list[k] \in Beam /\ list[k].reason = "length"
                                 /\ Descends(list[k], StartOf(i), Made(i))
      /\ \A k \in 1..Len(done) :
            /\ done[k] \in Beam /\ done[k].reason = "stop"
            /\ \E n \in 1..Made(i) : Descends(done[k], StartOf(i), n)
  <2>1. CallIn
    BY DEF Base, Shape, Control
  <2> QED BY <1>20, <2>1, BeamsAre
<1>2. PICK m \in Nat, d \in Nat : m = Len(list) /\ d = Len(done)
  BY <1>1
<1>3. PICK x \in Nat, y \in Nat : x = Len(BeginTokens) /\ y = Len(EndTokens)
  BY <1>1, TheCall
<1>4. PICK s : s = StartOf(i) /\ Len(s) = 1 + x /\ s[1] = Prompts[i]
  BY <1>1, <1>3, StartIs
<1>5. PromptLen[Prompts[i]] \in Nat /\ PromptLen[Prompts[i]] >= 1 /\ Prompts[i] # Eos
  BY <1>1, ThePrompts
<1>6. ASSUME NEW b \in Beam, NEW n \in Nat, Descends(b, s, n)
      PROVE  /\ b.tokens \in Seq(Words) /\ b.steps \in Seq(Seq(Entries)) /\ b.cum \in Int
             /\ Len(b.steps) = n /\ Len(b.tokens) = 1 + x + n /\ b.tokens[1] = Prompts[i]
  <2>1. b.tokens \in Seq(Words) /\ b.steps \in Seq(Seq(Entries)) /\ b.cum \in Int
    BY DEF Beam
  <2>2. 1 \in 1..Len(s)
    BY <1>4
  <2> QED BY <1>4, <1>6, <2>1, <2>2 DEF Descends
<1>7. ASSUME NEW k \in 1..d PROVE IsFinal(done[k])
  <2>1. PICK b \in Beam : b = done[k] /\ b.reason = "stop"
    BY <1>1, <1>2
  <2>2. PICK n \in 1..Made(i) : Descends(b, s, n)
    BY <1>1, <1>2, <1>4, <2>1
  <2>3. n \in Nat /\ n >= 1
    BY <1>1
  <2>4. /\ b.steps \in Seq(Seq(Entries)) /\ b.cum \in Int /\ Len(b.steps) = n
        /\ Len(b.tokens) = 1 + x + n /\ b.tokens[1] = Prompts[i]
    BY <1>6, <2>2, <2>3
  <2>5. Len(Logprobs(b)) = x + n
    <3>1. Len(Logprobs(b))
            = Len(BeginTokens) + n + (IF b.reason = "stop" THEN 0 ELSE Len(EndTokens))
      BY <1>1, <2>1, <2>3, <2>4, StepsJoin
    <3> QED BY <1>3, <2>1, <2>3, <3>1
  <2>6. SeqLen(b.tokens) \in Nat /\ SeqLen(b.tokens) >= 1
    <3>1. PICK l \in Nat : l = 1 + x + n /\ l >= 1
      BY <2>3
    <3> QED BY <1>5, <2>4, <3>1, SeqLenIs
  <2> QED BY <2>1, <2>3, <2>4, <2>5, <2>6 DEF IsFinal
<1> DEFINE with == [k \in DOMAIN beams[i] |-> [beams[i][k] EXCEPT !.tokens = @ \o EndTokens]]
           W == {[b EXCEPT !.tokens = @ \o EndTokens] : b \in Beam}
<1>8. ASSUME NEW k \in 1..m
      PROVE  /\ with[k] \in W /\ IsFinal(with[k]) /\ with[k].cum = list[k].cum
             /\ with[k].tokens = list[k].tokens \o EndTokens
  <2>1. PICK b \in Beam : b = list[k] /\ b.reason = "length" /\ Descends(b, s, Made(i))
    BY <1>1, <1>2, <1>4
  <2>2. PICK n \in Nat : n = Made(i)
    BY <1>1
  <2>3. /\ b.tokens \in Seq(Words) /\ b.steps \in Seq(Seq(Entries)) /\ b.cum \in Int
        /\ Len(b.steps) = n /\ Len(b.tokens) = 1 + x + n /\ b.tokens[1] = Prompts[i]
    BY <1>6, <2>1, <2>2
  <2>4. PICK u, v : u = b.tokens /\ v = EndTokens
    OBVIOUS
  <2>5. Len(u \o v) = (1 + x + n) + y /\ (u \o v)[1] = Prompts[i]
    <3>1. v \in Seq(ToSet(EndTokens)) /\ Len(v) = y
      BY <1>1, <1>3, <2>4, TheCall
    <3>2. 1 \in 1..Len(u)
      BY <2>3, <2>4
    <3>3. u \in Seq(Words) /\ Len(u) = 1 + x + n /\ u[1] = Prompts[i]
      BY <2>3, <2>4
    <3>4. Len(u \o v) = Len(u) + Len(v) /\ \A j \in 1..Len(u) : (u \o v)[j] = u[j]
      <4>1. Joint(u, v)
        BY <3>1, <3>3, JoinIs
      <4> QED BY <4>1 DEF Joint
    <3> QED BY <3>1, <3>2, <3>3, <3>4
  <2>6. with[k] = [b EXCEPT !.tokens = u \o v]
    <3>1. k \in DOMAIN beams[i] /\ beams[i][k] = b
      BY <1>1, <1>2, <1>20, <2>1
    <3> QED BY <2>4, <3>1
  <2>7. PICK f : f = with[k]
    OBVIOUS
  <2>8. f.tokens = u \o v /\ f.cum = b.cum /\ f.steps = b.steps /\ f.reason = "length"
    BY <2>1, <2>6, <2>7 DEF Beam
  <2>9. Len(Logprobs(f)) = x + n + y
    <3>1. Len(Logprobs(f))
            = Len(BeginTokens) + n + (IF f.reason = "stop" THEN 0 ELSE Len(EndTokens))
      BY <1>1, <2>3, <2>8, StepsJoin
    <3> QED BY <1>3, <2>8, <3>1
  <2>10. SeqLen(f.tokens) \in Nat /\ SeqLen(f.tokens) >= 1
    <3>1. PICK l \in Nat : l = (1 + x + n) + y /\ l >= 1
      BY <2>2
    <3> QED BY <1>5, <2>5, <2>8, <3>1, SeqLenIs
  <2>11. Len(f.tokens) - 1 = x + n + y
    BY <2>5, <2>8
  <2>12. IsFinal(f) /\ f.cum = list[k].cum /\ f.tokens = list[k].tokens \o EndTokens
    BY <2>1, <2>3, <2>4, <2>8, <2>9, <2>10, <2>11 DEF IsFinal
  <2>13. with[k] \in W
    BY <2>4, <2>6
  <2> QED BY <2>7, <2>12, <2>13
<1>9. with = [k \in 1..m |-> with[k]]
  BY <1>1, <1>2, <1>20
<1>10. Finals(i) = done \o with
  BY <1>20 DEF Finals
<1> HIDE DEF with, W
<1>11. with \in Seq(W) /\ Len(with) = m
  <2>1. with \in [1..m -> W]
    BY <1>8, <1>9
  <2> QED BY <2>1
<1>12. /\ done \o with \in Seq(Beam \cup W) /\ Len(done \o with) = d + m
       /\ \A k \in 1..d : (done \o with)[k] = done[k]
       /\ \A k \in 1..m : (done \o with)[d + k] = with[k]
  <2>1. done \in Seq(Beam)
    BY <1>1
  <2>2. /\ done \o with \in Seq(Beam \cup W) /\ Len(done \o with) = Len(done) + Len(with)
        /\ \A k \in 1..Len(done) : (done \o with)[k] = done[k]
        /\ \A k \in 1..Len(with) : (done \o with)[Len(done) + k] = with[k]
    <3>1. done \o with \in Seq(Beam \cup W) /\ Joint(done, with)
      BY <1>11, <2>1, JoinIs
    <3> QED BY <3>1 DEF Joint
  <2> QED BY <1>2, <1>11, <2>2
<1>13. ASSUME NEW k \in 1..(d + m)
       PROVE  IsFinal(Finals(i)[k]) /\ Finals(i)[k].cum = At(done, list, k).cum
  <2>1. CASE k <= d
    <3>1. k \in 1..d
      BY <2>1
    <3>2. Finals(i)[k] = done[k] /\ At(done, list, k) = done[k]
      BY <1>2, <1>10, <1>12, <2>1, <3>1 DEF At
    <3> QED BY <1>7, <3>1, <3>2
  <2>2. CASE ~(k <= d)
    <3>1. PICK j \in 1..m : j = k - d /\ k = d + j
      <4>1. k - d \in 1..m /\ k = d + (k - d)
        BY <2>2
      <4> QED BY <4>1
    <3>2. Finals(i)[k] = with[j] /\ At(done, list, k) = list[j]
      BY <1>2, <1>10, <1>12, <2>2, <3>1 DEF At
    <3> QED BY <1>8, <3>1, <3>2
  <2> QED BY <2>1, <2>2
<1>14. DOMAIN Finals(i) = 1..(d + m) /\ Len(Finals(i)) = d + m
  <2>1. Finals(i) \in Seq(Beam \cup W) /\ Len(Finals(i)) = d + m
    BY <1>10, <1>12
  <2> QED BY <2>1
<1>15. d + m = Len(done) + Len(list) /\ d + m \in Nat
  <2>1. d + m = Len(done) + Len(list)
    BY <1>2, Zenon
  <2>2. d + m \in Nat
    OBVIOUS
  <2> QED BY <2>1, <2>2, Zenon
<1>16. /\ \A k \in 1..Len(done) : Finals(i)[k] = done[k]
       /\ \A k \in 1..Len(list) : Finals(i)[Len(done) + k].tokens = list[k].tokens \o EndTokens
  BY <1>2, <1>8, <1>10, <1>12
<1>17. FinalsOf(Finals(i), list, done, d + m, EndTokens)
  BY <1>13, <1>14, <1>15, <1>16, Zenon DEF FinalsOf
<1> QED BY <1>17, <1>20

\* The n best of a list.
FirstOf(fs, n) == [k \in 1..n |-> fs[InOrder(DOMAIN fs, Earlier(fs))[k]]]

LEMMA BestBeamsIs ==
    ASSUME NEW i
    PROVE  BestBeams(i) = FirstOf(Finals(i), Min({BeamWidth, Len(Finals(i))}))
BY DEF BestBeams, FirstOf

\* W answers of finite score, with an entry for every token after the prompt.
RealAnswers(out, W) ==
    /\ Len(out) = W
    /\ \A a \in ToSet(out) : a.cum # NegInf /\ Len(a.logprobs) = Len(a.tokens) - 1

LEMMA BestBeamsAre ==
    ASSUME Base, FiniteScores, NEW i \in 1..Len(Prompts), Made(i) = NumSteps, NumSteps > 0
    PROVE  /\ DOMAIN BestBeams(i) = 1..BeamWidth
           /\ \A k \in 1..BeamWidth : /\ IsFinal(BestBeams(i)[k])
                                      /\ BestBeams(i)[k].cum # NegInf
<1>1. CallIn
  BY DEF Base, Shape, Control
<1>2. PICK W \in Nat : W = BeamWidth /\ W >= 1
  BY <1>1, TheCall
<1>3. PICK list, done : list = beams[i] /\ done = completed[i]
  OBVIOUS
<1>4. PICK n : FinalsOf(Finals(i), list, done, n, EndTokens)
  BY <1>3, FinalsAre
<1>5. PICK fs : fs = Finals(i)
  OBVIOUS
<1>6. /\ DOMAIN fs = 1..n /\ Len(fs) = n /\ n \in Nat /\ n = Len(done) + Len(list)
      /\ \A k \in 1..n : IsFinal(fs[k]) /\ fs[k].cum = At(done, list, k).cum
  BY <1>4, <1>5, Zenon DEF FinalsOf
<1>7. Scored(fs, n)
  BY <1>6 DEF Scored, IsFinal
<1>8. Enough(list, done, W)
  <2>1. Finite(list, done, NumSteps, W, Said)
    BY <1>2, <1>3 DEF FiniteScores
  <2> QED BY <2>1 DEF Finite
<1>9. PICK h \in [1..W -> 1..n] :
         /\ \A j, k \in 1..W : h[j] = h[k] => j = k
         /\ \A k \in 1..W : At(done, list, h[k]).cum # NegInf
  BY <1>6, <1>8, Zenon DEF Enough
<1>10. \A k \in 1..W : fs[h[k]].cum # NegInf
  BY <1>6, <1>9
<1>11. PICK s : s = InOrder(1..n, Earlier(fs))
  OBVIOUS
<1>12. W <= n /\ \A k \in 1..W : s[k] \in 1..n /\ fs[s[k]].cum # NegInf
  <2>1. FiniteOnes(fs, n, W, h)
    BY <1>6, <1>7, <1>9, <1>10, Zenon DEF FiniteOnes
  <2> QED BY <1>11, <2>1, BestOnesAreFinite
<1>13. Min({W, n}) = W
  <2>1. n \in Int /\ W \in Int /\ W <= n
    BY <1>6, <1>12
  <2> QED BY <2>1, MinOfTwo
<1>14. BestBeams(i) = [k \in 1..W |-> fs[s[k]]]
  BY <1>2, <1>5, <1>6, <1>11, <1>13, BestBeamsIs DEF FirstOf
<1> QED BY <1>2, <1>6, <1>12, <1>14

\* The search that ends has made all steps of all prompts.
LEMMA FinishMade ==
    ASSUME Shape, Finish, NEW i \in 1..Len(Prompts)
    PROVE  Made(i) = NumSteps
<1>1. CallIn /\ Control
  BY DEF Shape, Control
<1>2. Len(Prompts) \in Nat /\ Len(Prompts) >= 1
  BY <1>1, ThePrompts
<1>3. token = NumSteps
  BY <1>2, BatchMade DEF Finish
<1>4. instance = 0 /\ prompt_start \in Nat
  BY <1>1 DEF Control, Finish, EndOfBatch
<1>5. concurrency_limit \in Nat /\ i <= prompt_start + concurrency_limit
  BY <1>1, <1>2, <1>4, TheCall DEF Finish
<1>6. ~(i - prompt_start < 0) \/ i <= prompt_start
  BY <1>4
<1> QED BY <1>1, <1>3, <1>4, <1>5, <1>6, TheCall DEF Made

LEMMA FinishReal ==
    ASSUME Base, FiniteScores, Finish
    PROVE  AnswersAreReal'
<1>1. CallIn /\ Shape /\ Control
  BY DEF Base, Shape, Control
<1>2. /\ Prompts' = Prompts /\ BeamWidth' = BeamWidth /\ NumSteps' = NumSteps
  BY SameCall DEF Finish
<1>3. DOMAIN Prompts = 1..Len(Prompts) /\ Len(Prompts) \in Nat
  BY <1>1, ThePrompts
<1>4. BeamWidth \in Nat
  BY <1>1, TheCall
<1>5. ASSUME NumSteps > 0, NEW i \in 1..Len(Prompts)
      PROVE  RealAnswers(outputs'[i], BeamWidth)
  <2>1. Made(i) = NumSteps
    BY <1>1, FinishMade
  <2>2. /\ DOMAIN BestBeams(i) = 1..BeamWidth
        /\ \A k \in 1..BeamWidth : /\ IsFinal(BestBeams(i)[k])
                                   /\ BestBeams(i)[k].cum # NegInf
    BY <1>5, <2>1, BestBeamsAre
  <2>3. outputs'[i] = [k \in 1..BeamWidth |->
                         [tokens |-> BestBeams(i)[k].tokens,
                          cum |-> BestBeams(i)[k].cum,
                          reason |-> BestBeams(i)[k].reason,
                          logprobs |-> Logprobs(BestBeams(i)[k])]]
    BY <1>3, <2>2 DEF Finish
  <2>4. PICK out : out = outputs'[i]
    OBVIOUS
  <2>5. Len(out) = BeamWidth /\ DOMAIN out = 1..BeamWidth
    BY <1>4, <2>3, <2>4
  <2>6. ASSUME NEW a \in ToSet(out)
        PROVE  a.cum # NegInf /\ Len(a.logprobs) = Len(a.tokens) - 1
    <3>1. PICK k \in 1..BeamWidth : a = out[k]
      BY <2>5 DEF ToSet
    <3>2. PICK f : f = BestBeams(i)[k] /\ IsFinal(f) /\ f.cum # NegInf
      BY <2>2
    <3>3. a.tokens = f.tokens /\ a.cum = f.cum /\ a.logprobs = Logprobs(f)
      BY <2>3, <2>4, <3>1, <3>2
    <3> QED BY <3>2, <3>3 DEF IsFinal
  <2> QED BY <2>4, <2>5, <2>6 DEF RealAnswers
<1> QED BY <1>2, <1>3, <1>5 DEF AnswersAreReal, RealAnswers

\* Every prompt gets beam_width sequences of finite score, whatever its search
\* was like, and an entry of log-probabilities for every token after the prompt.
THEOREM AnswersAreRealHold == Spec => []AnswersAreReal
<1>1. Init => AnswersAreReal
  BY DEF Init, AnswersAreReal
<1>2. ASSUME Base, FiniteScores, AnswersAreReal, [Next]_vars
      PROVE  AnswersAreReal'
  <2>1. CASE Finish
    BY <1>2, <2>1, FinishReal
  <2>2. CASE Generate \/ Select \/ NoLogprobs \/ NextBatch
    <3>1. phase' # "done"
      BY <2>2 DEF Generate, Select, NoLogprobs, NextBatch, EndOfBatch
    <3> QED BY <3>1 DEF AnswersAreReal
  <2>3. CASE UNCHANGED vars
    <3>1. call' = call /\ phase' = phase /\ outputs' = outputs
      BY <2>3 DEF vars
    <3> QED BY <1>2, <3>1, SameCall DEF AnswersAreReal
  <2> QED BY <1>2, <2>1, <2>2, <2>3 DEF Next, Terminated
<1> QED BY <1>1, <1>2, BaseInvariant, FiniteScoresInvariant, PTL DEF Spec

-----------------------------------------------------------------------------
(* What a search alone may do, as sets *)

Counted(h, n) == {h[k] : k \in 1..n}

\* As many elements as there are numbers that name them.
LEMMA CountedOnce ==
    ASSUME NEW n \in Nat, NEW h, \A j, k \in 1..n : h[j] = h[k] => j = k
    PROVE  IsFiniteSet(Counted(h, n)) /\ Cardinality(Counted(h, n)) = n
<1>1. PICK T : T = {h[k] : k \in 1..n} /\ T = Counted(h, n)
  BY DEF Counted
<1>2. PICK g : g = [k \in 1..n |-> h[k]]
  OBVIOUS
<1>3. g \in [1..n -> T] /\ \A k \in 1..n : g[k] = h[k]
  BY <1>1, <1>2
<1>4. g \in Surjection(1..n, T)
  BY <1>1, <1>3 DEF Surjection
<1>5. g \in Injection(1..n, T)
  BY <1>3 DEF Injection, IsInjective
<1>6. IsFiniteSet(1..n) /\ Cardinality(1..n) = n
  BY FS_Interval
<1>7. IsFiniteSet(T)
  BY <1>4, <1>6, FS_Surjection
<1>8. Cardinality(T) = n
  BY <1>4, <1>5, <1>6, FS_Surjection
<1> QED BY <1>1, <1>7, <1>8

Seen(b) == [tokens |-> b.tokens, cum |-> b.cum]

\* The sequences of a list that have a finite score.
Real(list) == {Seen(list[k]) : k \in {j \in 1..Len(list) : list[j].cum # NegInf}}

\* Offered, Continuations, Ended and AfterStep of one who says talk.
FewAbove(f, t, W) == Cardinality({u \in Token : f[u] > f[t]}) < W
OfferedOf(f, W, ignore) == {t \in Token : ignore \/ FewAbove(f, t, W)}
NextOf(live, talk, W, ignore) ==
    UNION {{[tokens |-> Append(b.tokens, t), cum |-> b.cum + talk[b.tokens][t]] :
               t \in OfferedOf(talk[b.tokens], W, ignore)} : b \in live}
EndedOf(found, ignore) == {x \in found : ~ignore /\ Last(x.tokens) = Eos}
OpenOf(found, ignore) == found \ EndedOf(found, ignore)
Follows(s, r, talk, W, ignore) ==
    LET next == NextOf(s.live, talk, W, ignore)
        open == OpenOf(next, ignore)
    IN  /\ \A b \in s.live : b.tokens \in DOMAIN talk
        /\ \E L \in Bests(open, W, Likelier(open)) :
              r = [live |-> L, ended |-> s.ended \cup EndedOf(next, ignore)]

LEMMA AfterStepIs ==
    ASSUME NEW s, NEW r, Follows(s, r, said, BeamWidth, IgnoreEos)
    PROVE  r \in AfterStep(s)
<1>1. Continuations(s.live) = NextOf(s.live, said, BeamWidth, IgnoreEos)
  BY DEF Continuations, NextOf, Offered, OfferedOf, FewAbove
<1>2. PICK next : next = NextOf(s.live, said, BeamWidth, IgnoreEos)
  OBVIOUS
<1>3. Ended(next) = EndedOf(next, IgnoreEos)
  BY DEF Ended, EndedOf
<1>4. PICK open : open = next \ Ended(next)
  OBVIOUS
<1>5. /\ \A b \in s.live : b.tokens \in DOMAIN said
      /\ \E L \in Bests(open, BeamWidth, Likelier(open)) :
              r = [live |-> L, ended |-> s.ended \cup Ended(next)]
  BY <1>2, <1>3, <1>4 DEF Follows, OpenOf
<1> HIDE DEF Continuations
<1> QED BY <1>1, <1>2, <1>3, <1>4, <1>5 DEF AfterStep

\* What was said of the beams is all that matters.
LEMMA FollowsStill ==
    ASSUME NEW s, NEW r, NEW talk, NEW more, NEW W, NEW ignore, Follows(s, r, talk, W, ignore),
           \A b \in s.live : b.tokens \in DOMAIN more /\ more[b.tokens] = talk[b.tokens]
    PROVE  Follows(s, r, more, W, ignore)
<1>1. NextOf(s.live, more, W, ignore) = NextOf(s.live, talk, W, ignore)
  BY DEF NextOf
<1> QED BY <1>1 DEF Follows

\* The tokens that a search alone is offered are those that the row leaves; the
\* others are less likely.
LEMMA OfferedAre ==
    ASSUME CallIn, NEW f \in Said, NEW d, Offers(d, f), OffersBest(d, f), NEW t \in Token
    PROVE  /\ FewAbove(f, t, BeamWidth)
                 <=> \E r \in 1..BeamWidth : d[r].token = t
           /\ \/ \E r \in 1..BeamWidth : d[r].token = t
              \/ \A r \in 1..BeamWidth : f[d[r].token] > f[t]
<1>1. PICK W \in Nat : W = BeamWidth /\ W >= 1
  BY TheCall
<1>2. f \in [Token -> Int] /\ \A v, u \in Token : f[v] = f[u] => v = u
  BY OpinionsAre
<1>3. PICK h : h = [k \in 1..W |-> d[k].token]
  OBVIOUS
<1>4. /\ \A k \in 1..W : h[k] = d[k].token /\ h[k] \in Token
      /\ \A j, k \in 1..W : h[j] = h[k] => j = k
  <2>1. d \in Seq(Entries) /\ Len(d) = W
    BY <1>1 DEF Offers
  <2>2. \A k \in 1..W : d[k] \in Entries
    BY <2>1
  <2> QED BY <1>1, <1>3, <2>2 DEF Offers, Entries
<1>5. PICK D : D = {h[k] : k \in 1..W} /\ IsFiniteSet(D) /\ Cardinality(D) = W
  <2>1. IsFiniteSet(Counted(h, W)) /\ Cardinality(Counted(h, W)) = W
    BY <1>4, CountedOnce
  <2> QED BY <2>1 DEF Counted
<1>6. PICK above : above = {u \in Token : f[u] > f[t]}
  OBVIOUS
<1>7. IsFiniteSet(above) /\ Cardinality(above) \in Nat
  <2>1. above \in SUBSET Token
    BY <1>6
  <2>2. IsFiniteSet(above)
    BY <2>1, TokenAssumption, FS_Subset
  <2> QED BY <2>2, FS_CardinalityType
<1>8. \A u \in Token : u \in D \/ \A k \in 1..W : f[h[k]] >= f[u]
  BY <1>1, <1>4, <1>5 DEF OffersBest
<1>9. CASE t \in D
  <2>1. above \in SUBSET (D \ {t})
    <3>1. ASSUME NEW u \in above PROVE u \in D /\ u # t
      <4>1. u \in Token /\ f[u] > f[t] /\ f[u] \in Int /\ f[t] \in Int
        BY <1>2, <1>6
      <4>2. PICK k \in 1..W : t = h[k]
        BY <1>5, <1>9
      <4> QED BY <1>8, <4>1, <4>2
    <3> QED BY <3>1
  <2>2. IsFiniteSet(D \ {t}) /\ Cardinality(D \ {t}) = W - 1
    BY <1>5, <1>9, FS_RemoveElement
  <2>3. Cardinality(above) <= Cardinality(D \ {t})
    BY <2>1, <2>2, FS_Subset
  <2>4. Cardinality(above) < W
    BY <1>7, <2>2, <2>3
  <2>5. \E r \in 1..W : d[r].token = t
    BY <1>4, <1>5, <1>9
  <2> QED BY <1>1, <1>6, <2>4, <2>5 DEF FewAbove
<1>10. CASE t \notin D
  <2>1. ASSUME NEW k \in 1..W PROVE f[h[k]] > f[t] /\ h[k] # t
    <3>1. h[k] # t /\ h[k] \in Token /\ f[h[k]] >= f[t]
      BY <1>4, <1>5, <1>8, <1>10
    <3> QED BY <1>2, <3>1
  <2>2. D \in SUBSET above
    BY <1>4, <1>5, <1>6, <2>1
  <2>3. W <= Cardinality(above)
    BY <1>5, <1>7, <2>2, FS_Subset
  <2>4. ~(Cardinality(above) < W)
    BY <1>7, <2>3
  <2>5. /\ ~ \E r \in 1..W : d[r].token = t
        /\ \A r \in 1..W : f[d[r].token] > f[t]
    BY <1>4, <2>1
  <2> QED BY <1>1, <1>6, <2>4, <2>5 DEF FewAbove
<1> QED BY <1>9, <1>10

-----------------------------------------------------------------------------
(* A step is one of the steps of a search alone *)

\* What a candidate stands for, and whether its beam has a finite score.
Cont(cur, data, p) ==
    [tokens |-> Append(cur[Owner(p)].tokens, TokenAt(data, p)),
     cum |-> ScoreAt(cur, data, p)]
Going(cur, p) == cur[Owner(p)].cum # NegInf

\* The beams of a search of temperature 0 and what came back for them.
Hearing(cur, data) ==
    /\ CallIn /\ Greedy /\ token \in Nat /\ token < NumSteps /\ Rows(cur, data) /\ Apart(cur)
    /\ \A b \in 1..Len(cur) : Informed(data[b], cur[b].tokens)
    /\ \A b \in 1..Len(cur) : Within(cur[b].cum, token, Said)

LEMMA SaysOf ==
    ASSUME NEW cur, NEW data, Hearing(cur, data), NEW o \in 1..Len(cur)
    PROVE  /\ cur[o].tokens \in DOMAIN said /\ said[cur[o].tokens] \in Said
           /\ Offers(data[o], said[cur[o].tokens]) /\ OffersBest(data[o], said[cur[o].tokens])
           /\ \A v \in Token : said[cur[o].tokens][v] \in Int
<1>1. token + 1 \in 1..NumSteps
  BY TheCall DEF Hearing
<1>2. /\ cur[o].tokens \in DOMAIN said /\ said[cur[o].tokens] \in Opinions[token + 1]
      /\ Offers(data[o], said[cur[o].tokens]) /\ OffersBest(data[o], said[cur[o].tokens])
  BY DEF Hearing, Informed
<1>3. said[cur[o].tokens] \in Said
  BY <1>1, <1>2 DEF Said
<1>4. said[cur[o].tokens] \in [Token -> Int]
  BY <1>3, OpinionsAre DEF Hearing
<1> QED BY <1>2, <1>3, <1>4

LEMMA PlaceSays ==
    ASSUME NEW cur, NEW data, Hearing(cur, data), NEW p \in Places(cur)
    PROVE  /\ Owner(p) \in 1..Len(cur) /\ TokenAt(data, p) \in Token
           /\ cur[Owner(p)].tokens \in Seq(Words) /\ cur[Owner(p)].cum \in Int
           /\ ScoreAt(cur, data, p) \in Int /\ KeptScoreAt(cur, data, p) \in Int
           /\ ScoreAt(cur, data, p) >= NegInf
           /\ ScoreAt(cur, data, p) = NegInf <=> ~Going(cur, p)
           /\ KeptScoreAt(cur, data, p) = NegInf <=> ~Going(cur, p) \/ EndsAt(data, p)
           /\ ~EndsAt(data, p) => KeptScoreAt(cur, data, p) = ScoreAt(cur, data, p)
           /\ Going(cur, p) => ScoreAt(cur, data, p)
                 = cur[Owner(p)].cum + said[cur[Owner(p)].tokens][TokenAt(data, p)]
<1>1. /\ CallIn /\ token \in Nat /\ token < NumSteps /\ Rows(cur, data)
      /\ \A b \in 1..Len(cur) : Informed(data[b], cur[b].tokens)
      /\ \A b \in 1..Len(cur) : Within(cur[b].cum, token, Said)
  BY DEF Hearing
<1>2. PICK o \in 1..Len(cur) : o = Owner(p)
  BY <1>1, PlaceFacts
<1>3. PICK r \in 1..BeamWidth : r = Rank(p)
  BY <1>1, PlaceFacts
<1>4. TokenAt(data, p) \in Token /\ cur[o] \in Beam
  BY <1>1, <1>2, PlaceFacts
<1>5. PICK f : f = said[cur[o].tokens] /\ f \in Said /\ Offers(data[o], f)
               /\ \A v \in Token : f[v] \in Int
  BY SaysOf
<1>6. PICK v \in Token : v = TokenAt(data, p) /\ data[o][r].lp = f[v]
  BY <1>2, <1>3, <1>4, <1>5 DEF Offers, TokenAt
<1>7. PICK x \in Int : x = cur[o].cum
  BY <1>4 DEF Beam
<1>8. ScoreAt(cur, data, p) = Plus(x, f[v])
  BY <1>2, <1>3, <1>6, <1>7 DEF ScoreAt
<1>9. /\ Plus(x, f[v]) \in Int /\ Plus(x, f[v]) >= NegInf
      /\ Plus(x, f[v]) = NegInf <=> x = NegInf
  <2>1. Within(x, token, Said)
    BY <1>1, <1>7
  <2> QED BY <1>1, <1>5, <2>1, PlusWithin
<1>10. f[v] # NegInf
  <2>1. NegInf < 0 /\ NegInf \in Int /\ (Plus(0, f[v]) = NegInf <=> 0 = NegInf)
    <3>1. Within(0, token, Said) /\ 0 \in Int
      BY DEF Within
    <3> QED BY <1>1, <1>5, <3>1, NegInfIs, PlusWithin
  <2> QED BY <2>1 DEF Plus
<1>11. x # NegInf => Plus(x, f[v]) = x + f[v]
  BY <1>10 DEF Plus
<1>12. cur[o].tokens \in Seq(Words)
  BY <1>4 DEF Beam
<1>13. Going(cur, p) <=> x # NegInf
  BY <1>2, <1>7 DEF Going
<1>14. ScoreAt(cur, data, p) \in Int /\ ScoreAt(cur, data, p) >= NegInf
       /\ (ScoreAt(cur, data, p) = NegInf <=> ~Going(cur, p))
  BY <1>8, <1>9, <1>13
<1>15. Going(cur, p) => ScoreAt(cur, data, p)
                 = cur[Owner(p)].cum + said[cur[Owner(p)].tokens][TokenAt(data, p)]
  BY <1>2, <1>5, <1>6, <1>7, <1>8, <1>11, <1>13
<1> QED BY <1>2, <1>4, <1>7, <1>12, <1>14, <1>15, NegInfIs DEF KeptScoreAt

\* The ways to go on alone are the candidates of finite score; and, where what
\* ends does not count, some that are less likely than all candidates of their
\* beam.
LEMMA NextIs ==
    ASSUME NEW cur, NEW data, Hearing(cur, data),
           NEW next, next = NextOf(Real(cur), said, BeamWidth, IgnoreEos)
    PROVE  /\ \A p \in Places(cur) : Going(cur, p) => Cont(cur, data, p) \in next
           /\ \A x \in next :
                 \/ \E p \in Places(cur) : Going(cur, p) /\ x = Cont(cur, data, p)
                 \/ /\ IgnoreEos /\ x.cum \in Int
                    /\ \E o \in 1..Len(cur) :
                          /\ cur[o].cum # NegInf
                          /\ \A p \in Places(cur) :
                                Owner(p) = o => ScoreAt(cur, data, p) > x.cum
<1>1. PICK W \in Nat : W = BeamWidth /\ W >= 1
  BY TheCall DEF Hearing
<1>2. CallIn /\ Rows(cur, data) /\ Len(cur) \in Nat
  BY RowsFacts DEF Hearing
<1>3. ASSUME NEW p \in Places(cur), Going(cur, p) PROVE Cont(cur, data, p) \in next
  <2>1. PICK o \in 1..Len(cur) : o = Owner(p)
    BY PlaceSays
  <2>2. PICK r \in 1..W : r = Rank(p)
    BY <1>1, <1>2, PlaceFacts
  <2>3. PICK f : f = said[cur[o].tokens] /\ f \in Said /\ Offers(data[o], f)
                 /\ OffersBest(data[o], f)
    BY SaysOf
  <2>4. PICK v \in Token : v = TokenAt(data, p)
    BY PlaceSays
  <2>5. v \in OfferedOf(f, BeamWidth, IgnoreEos)
    <3>1. data[o][r].token = v
      BY <2>1, <2>2, <2>4 DEF TokenAt
    <3>2. FewAbove(f, v, BeamWidth)
      BY <1>1, <1>2, <2>3, <3>1, OfferedAre
    <3> QED BY <3>2 DEF OfferedOf
  <2>6. PICK b : b = Seen(cur[o])
    OBVIOUS
  <2>7. b \in Real(cur)
    BY <1>3, <2>1, <2>6 DEF Real, Going
  <2>8. b.tokens = cur[o].tokens /\ b.cum = cur[o].cum
    BY <2>6 DEF Seen
  <2>9. Cont(cur, data, p) = [tokens |-> Append(b.tokens, v), cum |-> b.cum + f[v]]
    BY <1>3, <2>1, <2>3, <2>4, <2>8, PlaceSays DEF Cont
  <2>10. PICK ways : ways = {[tokens |-> Append(b.tokens, u), cum |-> b.cum + f[u]] :
                                u \in OfferedOf(f, BeamWidth, IgnoreEos)}
    OBVIOUS
  <2>11. Cont(cur, data, p) \in ways
    BY <2>5, <2>9, <2>10
  <2>12. ways \subseteq next
    BY <2>3, <2>7, <2>8, <2>10 DEF NextOf
  <2> QED BY <2>11, <2>12
<1>4. ASSUME NEW x \in next
      PROVE  \/ \E p \in Places(cur) : Going(cur, p) /\ x = Cont(cur, data, p)
             \/ /\ IgnoreEos /\ x.cum \in Int
                /\ \E o \in 1..Len(cur) :
                      /\ cur[o].cum # NegInf
                      /\ \A p \in Places(cur) :
                            Owner(p) = o => ScoreAt(cur, data, p) > x.cum
  <2>1. PICK b \in Real(cur) : \E v \in OfferedOf(said[b.tokens], BeamWidth, IgnoreEos) :
              x = [tokens |-> Append(b.tokens, v), cum |-> b.cum + said[b.tokens][v]]
    BY DEF NextOf
  <2>2. PICK o \in 1..Len(cur) : b = Seen(cur[o]) /\ cur[o].cum # NegInf
    BY DEF Real
  <2>3. b.tokens = cur[o].tokens /\ b.cum = cur[o].cum
    BY <2>2 DEF Seen
  <2>4. PICK f : f = said[cur[o].tokens] /\ f \in Said /\ Offers(data[o], f)
                 /\ OffersBest(data[o], f) /\ \A v \in Token : f[v] \in Int
    BY SaysOf
  <2>5. PICK v \in OfferedOf(f, BeamWidth, IgnoreEos) :
              x = [tokens |-> Append(cur[o].tokens, v), cum |-> cur[o].cum + f[v]]
    BY <2>1, <2>3, <2>4
  <2>6. /\ v \in Token
        /\ IgnoreEos \/ FewAbove(f, v, BeamWidth)
    BY <2>5 DEF OfferedOf
  <2>7. cur[o].cum \in Int
    BY <1>2, RowsFacts
  <2>8. CASE \E r \in 1..W : data[o][r].token = v
    <3>1. PICK r \in 1..W : data[o][r].token = v
      BY <2>8
    <3>2. PICK p : p = PlaceAt(W, o, r)
      OBVIOUS
    <3>3. p \in Places(cur) /\ Owner(p) = o /\ Rank(p) = r
      <4>1. PICK B \in Nat : B = Len(cur)
        BY <1>2
      <4>2. p \in 1..(B * W) /\ OwnerAt(W, p) = o /\ RankAt(W, p) = r
        <5>1. InPlace(B, W, o, r)
          BY <1>1, <4>1 DEF InPlace
        <5> QED BY <3>2, <5>1, PlaceOf
      <4> QED BY <1>1, <4>1, <4>2 DEF Places, Owner, Rank
    <3>4. TokenAt(data, p) = v
      BY <3>1, <3>3 DEF TokenAt
    <3>5. Going(cur, p)
      BY <2>2, <3>3 DEF Going
    <3>6. x = Cont(cur, data, p)
      BY <2>4, <2>5, <3>3, <3>4, <3>5, PlaceSays DEF Cont
    <3> QED BY <3>3, <3>5, <3>6
  <2>9. CASE ~ \E r \in 1..W : data[o][r].token = v
    <3>1. /\ ~FewAbove(f, v, BeamWidth)
          /\ \A r \in 1..W : f[data[o][r].token] > f[v]
      BY <1>1, <1>2, <2>4, <2>6, <2>9, OfferedAre
    <3>2. x.cum = cur[o].cum + f[v] /\ f[v] \in Int
      BY <2>4, <2>5, <2>6
    <3>3. ASSUME NEW p \in Places(cur), Owner(p) = o
          PROVE  ScoreAt(cur, data, p) > x.cum
      <4>1. PICK r \in 1..W : r = Rank(p)
        BY <1>1, <1>2, PlaceFacts
      <4>2. PICK u \in Token : u = TokenAt(data, p) /\ f[u] > f[v]
        BY <3>1, <3>3, <4>1, PlaceSays DEF TokenAt
      <4>3. Going(cur, p)
        BY <2>2, <3>3 DEF Going
      <4>4. ScoreAt(cur, data, p) = cur[o].cum + f[u]
        BY <2>4, <3>3, <4>2, <4>3, PlaceSays
      <4>5. f[u] \in Int
        BY <2>4
      <4> QED BY <2>7, <3>2, <4>2, <4>4, <4>5
    <3> QED BY <2>2, <2>6, <2>7, <3>1, <3>2, <3>3
  <2> QED BY <2>8, <2>9
<1> QED BY <1>3, <1>4

LEMMA ContApart ==
    ASSUME NEW cur, NEW data, Hearing(cur, data), NEW p \in Places(cur), NEW q \in Places(cur),
           Cont(cur, data, p).tokens = Cont(cur, data, q).tokens
    PROVE  p = q
<1>1. Append(cur[Owner(p)].tokens, TokenAt(data, p))
         = Append(cur[Owner(q)].tokens, TokenAt(data, q))
  BY DEF Cont
<1> QED BY <1>1, PlacesApart DEF Hearing

LEMMA LastIs ==
    ASSUME NEW S, NEW u \in Seq(S), NEW v \in S
    PROVE  Last(Append(u, v)) = v /\ Len(Append(u, v)) = Len(u) + 1
BY DEF Last

\* What ends are the candidates that do.
LEMMA EndedIs ==
    ASSUME NEW cur, NEW data, Hearing(cur, data),
           NEW next, next = NextOf(Real(cur), said, BeamWidth, IgnoreEos)
    PROVE  \A x : x \in EndedOf(next, IgnoreEos)
              <=> \E p \in Places(cur) :
                     Going(cur, p) /\ EndsAt(data, p) /\ x = Cont(cur, data, p)
<1>1. ASSUME NEW p \in Places(cur)
      PROVE  EndsAt(data, p) <=> ~IgnoreEos /\ Last(Cont(cur, data, p).tokens) = Eos
  <2>1. cur[Owner(p)].tokens \in Seq(Words) /\ TokenAt(data, p) \in Words
    BY PlaceSays DEF Words
  <2>2. Last(Cont(cur, data, p).tokens) = TokenAt(data, p)
    BY <2>1, LastIs DEF Cont
  <2> QED BY <2>2 DEF EndsAt
<1>2. ASSUME NEW x \in EndedOf(next, IgnoreEos)
      PROVE  \E p \in Places(cur) : Going(cur, p) /\ EndsAt(data, p) /\ x = Cont(cur, data, p)
  <2>1. x \in next /\ ~IgnoreEos /\ Last(x.tokens) = Eos
    BY DEF EndedOf
  <2>2. PICK p \in Places(cur) : Going(cur, p) /\ x = Cont(cur, data, p)
    BY <2>1, NextIs
  <2> QED BY <1>1, <2>1, <2>2
<1>3. ASSUME NEW p \in Places(cur), Going(cur, p), EndsAt(data, p)
      PROVE  Cont(cur, data, p) \in EndedOf(next, IgnoreEos)
  <2>1. Cont(cur, data, p) \in next
    BY <1>3, NextIs
  <2> QED BY <1>1, <1>3, <2>1 DEF EndedOf
<1> QED BY <1>2, <1>3

\* A step of temperature 0.
Takes(cur, done, list, more, data, e, t) ==
    /\ Hearing(cur, data) /\ OneStep(cur, done, list, more, data, e, t)
    /\ IgnoreEos => \A b \in 1..Len(cur) : cur[b].cum # NegInf

\* The beams that are kept, and those that have ended.
LEMMA TakenAre ==
    ASSUME NEW cur, NEW done, NEW list, NEW more, NEW data, NEW e, NEW t,
           Takes(cur, done, list, more, data, e, t)
    PROVE  /\ Len(list) = BeamWidth
           /\ \A k \in 1..BeamWidth :
                 /\ t[k] \in Places(cur) /\ list[k].cum = KeptScoreAt(cur, data, t[k])
                 /\ list[k].tokens = Cont(cur, data, t[k]).tokens
                 /\ list[k].cum # NegInf <=> Going(cur, t[k]) /\ ~EndsAt(data, t[k])
                 /\ list[k].cum # NegInf => Seen(list[k]) = Cont(cur, data, t[k])
           /\ Len(done) \in Nat /\ Len(e) \in Nat /\ Len(more) = Len(done) + Len(e)
           /\ \A k \in 1..Len(done) : more[k] = done[k]
           /\ \A k \in 1..Len(e) :
                 /\ e[k] \in Places(cur) /\ EndsAt(data, e[k])
                 /\ more[Len(done) + k].tokens = Cont(cur, data, e[k]).tokens
                 /\ more[Len(done) + k].cum # NegInf <=> Going(cur, e[k])
                 /\ Seen(more[Len(done) + k]) = Cont(cur, data, e[k])
           /\ \A p \in Places(cur) : EndsAt(data, p) => \E k \in 1..Len(e) : e[k] = p
<1>1. PICK W \in Nat : W = BeamWidth
  BY TheCall DEF Takes, Hearing
<1>2. Hearing(cur, data) /\ Selected(cur, data, e, t)
  BY DEF Takes, OneStep
<1>3. PICK n \in Nat, x \in Nat : n = Len(done) /\ x = Len(e)
  <2>1. e \in Seq(Places(cur))
    BY <1>2 DEF Selected
  <2>2. Len(e) \in Nat
    BY <2>1
  <2> QED BY <2>2 DEF Takes, OneStep
<1>4. ASSUME NEW k \in 1..W
      PROVE  /\ t[k] \in Places(cur) /\ list[k].cum = KeptScoreAt(cur, data, t[k])
             /\ list[k].tokens = Cont(cur, data, t[k]).tokens
             /\ list[k].cum # NegInf <=> Going(cur, t[k]) /\ ~EndsAt(data, t[k])
             /\ list[k].cum # NegInf => Seen(list[k]) = Cont(cur, data, t[k])
  <2>1. PICK p \in Places(cur) : p = t[k]
    BY <1>1, <1>2 DEF Selected
  <2>2. list[k] = KeptChild(cur, data, p)
    BY <1>1, <2>1 DEF Takes, OneStep
  <2>3. /\ list[k].cum = KeptScoreAt(cur, data, p)
        /\ list[k].tokens = Append(cur[Owner(p)].tokens, TokenAt(data, p))
    BY <2>2 DEF KeptChild, ChildAt
  <2>4. /\ KeptScoreAt(cur, data, p) = NegInf <=> ~Going(cur, p) \/ EndsAt(data, p)
        /\ ~EndsAt(data, p) => KeptScoreAt(cur, data, p) = ScoreAt(cur, data, p)
    BY <1>2, PlaceSays
  <2> QED BY <2>1, <2>3, <2>4 DEF Seen, Cont
<1>5. ASSUME NEW k \in 1..x
      PROVE  /\ e[k] \in Places(cur) /\ EndsAt(data, e[k])
             /\ more[n + k].tokens = Cont(cur, data, e[k]).tokens
             /\ more[n + k].cum # NegInf <=> Going(cur, e[k])
             /\ Seen(more[n + k]) = Cont(cur, data, e[k])
  <2>1. PICK p \in Places(cur) : p = e[k] /\ EndsAt(data, p)
    <3>1. e \in Seq(Places(cur))
      BY <1>2 DEF Selected
    <3>2. e[k] \in Places(cur)
      BY <1>3, <3>1
    <3> QED BY <1>2, <1>3, <3>2 DEF Selected
  <2>2. more[n + k] = EndedChild(cur, data, p)
    BY <1>3, <2>1 DEF Takes, OneStep
  <2>3. /\ more[n + k].cum = ScoreAt(cur, data, p)
        /\ more[n + k].tokens = Append(cur[Owner(p)].tokens, TokenAt(data, p))
    BY <2>2 DEF EndedChild, ChildAt
  <2>4. ScoreAt(cur, data, p) = NegInf <=> ~Going(cur, p)
    BY <1>2, PlaceSays
  <2> QED BY <2>1, <2>3, <2>4 DEF Seen, Cont
<1>6. \A p \in Places(cur) : EndsAt(data, p) => \E k \in 1..x : e[k] = p
  BY <1>2, <1>3 DEF Selected
<1> QED BY <1>1, <1>3, <1>4, <1>5, <1>6 DEF Takes, OneStep

\* Those that end are the ones that end alone.
LEMMA EndedAlike ==
    ASSUME NEW cur, NEW done, NEW list, NEW more, NEW data, NEW e, NEW t,
           Takes(cur, done, list, more, data, e, t),
           NEW next, next = NextOf(Real(cur), said, BeamWidth, IgnoreEos)
    PROVE  Real(more) = Real(done) \cup EndedOf(next, IgnoreEos)
<1>1. Hearing(cur, data)
  BY DEF Takes
<1>2. PICK n \in Nat, x \in Nat :
         /\ n = Len(done) /\ x = Len(e) /\ Len(more) = n + x
         /\ \A k \in 1..n : more[k] = done[k]
         /\ \A k \in 1..x : /\ e[k] \in Places(cur) /\ EndsAt(data, e[k])
                            /\ more[n + k].cum # NegInf <=> Going(cur, e[k])
                            /\ Seen(more[n + k]) = Cont(cur, data, e[k])
         /\ \A p \in Places(cur) : EndsAt(data, p) => \E k \in 1..x : e[k] = p
  <2>1. Len(done) \in Nat /\ Len(e) \in Nat
    BY TakenAre
  <2> WITNESS Len(done) \in Nat, Len(e) \in Nat
  <2>2. Len(more) = Len(done) + Len(e) /\ \A k \in 1..Len(done) : more[k] = done[k]
    BY TakenAre
  <2>3. \A k \in 1..Len(e) :
           /\ e[k] \in Places(cur) /\ EndsAt(data, e[k])
           /\ more[Len(done) + k].cum # NegInf <=> Going(cur, e[k])
           /\ Seen(more[Len(done) + k]) = Cont(cur, data, e[k])
    BY TakenAre
  <2>4. \A p \in Places(cur) : EndsAt(data, p) => \E k \in 1..Len(e) : e[k] = p
    BY TakenAre
  <2> QED BY <2>2, <2>3, <2>4
<1>3. ASSUME NEW y \in Real(more) PROVE y \in Real(done) \/ y \in EndedOf(next, IgnoreEos)
  <2>1. PICK k \in 1..(n + x) : y = Seen(more[k]) /\ more[k].cum # NegInf
    BY <1>2 DEF Real
  <2>2. CASE k <= n
    BY <1>2, <2>1, <2>2 DEF Real
  <2>3. CASE ~(k <= n)
    <3>1. PICK j \in 1..x : k = n + j
      <4>1. k - n \in 1..x /\ k = n + (k - n)
        BY <2>3
      <4> QED BY <4>1
    <3>2. e[j] \in Places(cur) /\ EndsAt(data, e[j]) /\ Going(cur, e[j])
          /\ y = Cont(cur, data, e[j])
      BY <1>2, <2>1, <3>1
    <3> QED BY <1>1, <3>2, EndedIs
  <2> QED BY <2>2, <2>3
<1>4. ASSUME NEW y \in Real(done) PROVE y \in Real(more)
  <2>1. PICK k \in 1..n : y = Seen(done[k]) /\ done[k].cum # NegInf
    BY <1>2 DEF Real
  <2>2. k \in 1..(n + x) /\ more[k] = done[k]
    BY <1>2
  <2> QED BY <1>2, <2>1, <2>2 DEF Real
<1>5. ASSUME NEW y \in EndedOf(next, IgnoreEos) PROVE y \in Real(more)
  <2>1. PICK p \in Places(cur) : Going(cur, p) /\ EndsAt(data, p) /\ y = Cont(cur, data, p)
    BY <1>1, EndedIs
  <2>2. PICK k \in 1..x : e[k] = p
    BY <1>2, <2>1
  <2>3. y = Seen(more[n + k]) /\ more[n + k].cum # NegInf /\ n + k \in 1..(n + x)
    BY <1>2, <2>1, <2>2
  <2> QED BY <1>2, <2>3 DEF Real
<1> QED BY <1>3, <1>4, <1>5

\* A candidate of finite score that does not end is open to a search alone.
LEMMA OpenIs ==
    ASSUME NEW cur, NEW data, Hearing(cur, data),
           NEW next, next = NextOf(Real(cur), said, BeamWidth, IgnoreEos)
    PROVE  \A p \in Places(cur) : Going(cur, p) =>
              (Cont(cur, data, p) \in OpenOf(next, IgnoreEos) <=> ~EndsAt(data, p))
<1>1. ASSUME NEW p \in Places(cur), Going(cur, p)
      PROVE  Cont(cur, data, p) \in OpenOf(next, IgnoreEos) <=> ~EndsAt(data, p)
  <2>1. Cont(cur, data, p) \in next
    BY <1>1, NextIs
  <2>2. Cont(cur, data, p) \in EndedOf(next, IgnoreEos) <=> EndsAt(data, p)
    <3>1. ASSUME Cont(cur, data, p) \in EndedOf(next, IgnoreEos) PROVE EndsAt(data, p)
      <4>1. PICK q \in Places(cur) : EndsAt(data, q) /\ Cont(cur, data, p) = Cont(cur, data, q)
        BY <3>1, EndedIs
      <4>2. p = q
        BY <4>1, ContApart
      <4> QED BY <4>1, <4>2
    <3>2. EndsAt(data, p) => Cont(cur, data, p) \in EndedOf(next, IgnoreEos)
      BY <1>1, EndedIs
    <3> QED BY <3>1, <3>2
  <2> QED BY <2>1, <2>2 DEF OpenOf
<1> QED BY <1>1

\* All candidates of a beam are taken: then there is room for no other.
LEMMA OnlyOneBeam ==
    ASSUME NEW cur, NEW data, NEW e, NEW t, CallIn, Rows(cur, data),
           Selected(cur, data, e, t), NEW o \in 1..Len(cur),
           \A p \in Places(cur) : Owner(p) = o => \E k \in 1..BeamWidth : t[k] = p
    PROVE  \A k \in 1..BeamWidth : Owner(t[k]) = o
<1>1. PICK W \in Nat : W = BeamWidth /\ W >= 1
  BY TheCall
<1>2. PICK B \in Nat : B = Len(cur)
  BY RowsFacts
<1>3. ASSUME NEW r \in 1..W
      PROVE  \E k \in 1..W : Owner(t[k]) = o /\ Rank(t[k]) = r
  <2>1. PICK p : p = PlaceAt(W, o, r)
    OBVIOUS
  <2>2. InPlace(B, W, o, r)
    BY <1>1, <1>2 DEF InPlace
  <2>3. p \in 1..(B * W) /\ OwnerAt(W, p) = o /\ RankAt(W, p) = r
    BY <2>1, <2>2, PlaceOf
  <2>4. p \in Places(cur) /\ Owner(p) = o /\ Rank(p) = r
    BY <1>1, <1>2, <2>3 DEF Places, Owner, Rank
  <2> QED BY <1>1, <2>4
<1> DEFINE h == [r \in 1..W |-> CHOOSE k \in 1..W : Owner(t[k]) = o /\ Rank(t[k]) = r]
<1>4. \A r \in 1..W : h[r] \in 1..W /\ Owner(t[h[r]]) = o /\ Rank(t[h[r]]) = r
  BY <1>3
<1>5. h \in [1..W -> 1..W]
  BY <1>4
<1> HIDE DEF h
<1>6. \A j, k \in 1..W : h[j] = h[k] => j = k
  BY <1>4
<1>7. h \in Injection(1..W, 1..W)
  BY <1>5, <1>6 DEF Injection, IsInjective
<1>8. IsFiniteSet(1..W)
  BY FS_Interval
<1>9. h \in Surjection(1..W, 1..W)
  BY <1>7, <1>8, FS_Injection
<1>10. \A k \in 1..W : \E r \in 1..W : h[r] = k
  BY <1>9 DEF Surjection
<1> QED BY <1>1, <1>4, <1>10

\* Those that are kept are ones that a search alone may keep: none of finite
\* score was left out, or beam_width were kept, and what was left out, what the
\* model did not list included, is no likelier.
LEMMA KeptAlike ==
    ASSUME NEW cur, NEW done, NEW list, NEW more, NEW data, NEW e, NEW t,
           Takes(cur, done, list, more, data, e, t),
           NEW next, next = NextOf(Real(cur), said, BeamWidth, IgnoreEos),
           NEW open, open = OpenOf(next, IgnoreEos)
    PROVE  Real(list) \in Bests(open, BeamWidth, Likelier(open))
<1>1. PICK W \in Nat : W = BeamWidth /\ W >= 1
  BY TheCall DEF Takes, Hearing
<1>2. Hearing(cur, data) /\ Selected(cur, data, e, t) /\ CallIn /\ Rows(cur, data)
  BY DEF Takes, OneStep, Hearing
<1>3. PICK L : L = Real(list)
  OBVIOUS
<1>4. /\ Len(list) = W
      /\ \A k \in 1..W :
            /\ t[k] \in Places(cur) /\ list[k].cum = KeptScoreAt(cur, data, t[k])
            /\ list[k].tokens = Cont(cur, data, t[k]).tokens
            /\ list[k].cum # NegInf <=> Going(cur, t[k]) /\ ~EndsAt(data, t[k])
            /\ list[k].cum # NegInf => Seen(list[k]) = Cont(cur, data, t[k])
  BY <1>1, TakenAre
<1>5. \A p \in Places(cur) :
         /\ ScoreAt(cur, data, p) \in Int /\ KeptScoreAt(cur, data, p) \in Int
         /\ ScoreAt(cur, data, p) >= NegInf
         /\ KeptScoreAt(cur, data, p) >= NegInf
         /\ KeptScoreAt(cur, data, p) = NegInf <=> ~Going(cur, p) \/ EndsAt(data, p)
         /\ ~EndsAt(data, p) => KeptScoreAt(cur, data, p) = ScoreAt(cur, data, p)
  BY <1>2, PlaceSays, NegInfIs DEF KeptScoreAt
<1>6. \A p \in Places(cur) : Going(cur, p) => (Cont(cur, data, p) \in open <=> ~EndsAt(data, p))
  BY <1>2, OpenIs
<1>7. ASSUME NEW x \in open
      PROVE  \/ \E p \in Places(cur) : /\ Going(cur, p) /\ ~EndsAt(data, p)
                                       /\ x = Cont(cur, data, p)
             \/ /\ IgnoreEos /\ x.cum \in Int
                /\ \E o \in 1..Len(cur) :
                      /\ cur[o].cum # NegInf
                      /\ \A p \in Places(cur) :
                            Owner(p) = o => ScoreAt(cur, data, p) > x.cum
  <2>1. x \in next
    BY DEF OpenOf
  <2>2. CASE \E p \in Places(cur) : Going(cur, p) /\ x = Cont(cur, data, p)
    BY <1>6, <2>2
  <2>3. CASE ~ \E p \in Places(cur) : Going(cur, p) /\ x = Cont(cur, data, p)
    BY <1>2, <2>1, <2>3, NextIs
  <2> QED BY <2>2, <2>3
<1>8. \A x \in L : \E k \in 1..W : /\ list[k].cum # NegInf /\ x = Seen(list[k])
                                   /\ x = Cont(cur, data, t[k])
                                   /\ Going(cur, t[k]) /\ ~EndsAt(data, t[k])
  BY <1>3, <1>4 DEF Real
<1>9. \A k \in 1..W : list[k].cum # NegInf => Cont(cur, data, t[k]) \in L
  BY <1>3, <1>4 DEF Real
<1>10. L \in SUBSET open
  BY <1>4, <1>6, <1>8
<1>11. \A j, k \in 1..W : t[j] = t[k] => j = k
  BY <1>1, <1>2 DEF Selected
<1>12. ASSUME NEW p \in Places(cur), \A k \in 1..W : t[k] # p, NEW k \in 1..W
       PROVE  KeptScoreAt(cur, data, p) <= list[k].cum /\ list[k].cum \in Int
  <2>1. KeptScoreAt(cur, data, p) <= KeptScoreAt(cur, data, t[k])
    BY <1>1, <1>2, <1>12 DEF Selected
  <2> QED BY <1>4, <1>5, <2>1
<1>13. PICK h : h = [k \in 1..W |-> Seen(list[k])]
  OBVIOUS
<1>14. \A j, k \in 1..W : h[j] = h[k] => j = k
  <2> SUFFICES ASSUME NEW j \in 1..W, NEW k \in 1..W, h[j] = h[k] PROVE j = k
    OBVIOUS
  <2>1. list[j].tokens = list[k].tokens
    BY <1>13 DEF Seen
  <2>2. t[j] = t[k]
    BY <1>2, <1>4, <2>1, ContApart
  <2> QED BY <1>11, <2>2
<1>15. PICK H : H = {h[k] : k \in 1..W} /\ IsFiniteSet(H) /\ Cardinality(H) = W
  <2>1. IsFiniteSet(Counted(h, W)) /\ Cardinality(Counted(h, W)) = W
    BY <1>14, CountedOnce
  <2> QED BY <2>1 DEF Counted
<1>16. Cardinality(L) <= W
  <2>1. L \in SUBSET H
    BY <1>8, <1>13, <1>15
  <2> QED BY <1>15, <2>1, FS_Subset
<1>17. L = open \/ Cardinality(L) = W
  <2>1. CASE \A k \in 1..W : list[k].cum # NegInf
    <3>1. L = H
      BY <1>4, <1>8, <1>9, <1>13, <1>15, <2>1
    <3> QED BY <1>15, <3>1
  <2>2. CASE \E k \in 1..W : list[k].cum = NegInf
    <3>1. PICK j \in 1..W : list[j].cum = NegInf
      BY <2>2
    <3>2. ~IgnoreEos
      <4> SUFFICES ASSUME IgnoreEos PROVE FALSE
        OBVIOUS
      <4>1. ~Going(cur, t[j])
        BY <1>4, <3>1 DEF EndsAt
      <4>2. Owner(t[j]) \in 1..Len(cur)
        BY <1>2, <1>4, PlaceSays
      <4> QED BY <4>1, <4>2 DEF Takes, Going
    <3>3. ASSUME NEW x \in open PROVE x \in L
      <4>1. PICK p \in Places(cur) : /\ Going(cur, p) /\ ~EndsAt(data, p)
                                     /\ x = Cont(cur, data, p)
        BY <1>7, <3>2
      <4>2. \E k \in 1..W : t[k] = p
        <5> SUFFICES ASSUME \A k \in 1..W : t[k] # p PROVE FALSE
          OBVIOUS
        <5>1. KeptScoreAt(cur, data, p) <= NegInf
          BY <1>12, <3>1
        <5> QED BY <1>5, <4>1, <5>1, NegInfIs
      <4>3. PICK k \in 1..W : t[k] = p
        BY <4>2
      <4>4. list[k].cum # NegInf
        BY <1>4, <4>1, <4>3
      <4> QED BY <1>9, <4>1, <4>3, <4>4
    <3> QED BY <1>10, <3>3
  <2> QED BY <2>1, <2>2
<1>18. ASSUME NEW x \in L, NEW y \in open \ L
       PROVE  <<y, x>> \notin Likelier(open)
  <2>1. PICK k \in 1..W : list[k].cum # NegInf /\ x = Cont(cur, data, t[k])
                          /\ ~EndsAt(data, t[k])
    BY <1>8
  <2>2. x.cum = list[k].cum /\ x.cum = ScoreAt(cur, data, t[k]) /\ x.cum \in Int
    BY <1>4, <1>5, <2>1 DEF Cont
  <2>3. ~(y.cum > x.cum)
    <3>1. CASE \E p \in Places(cur) : /\ Going(cur, p) /\ ~EndsAt(data, p)
                                      /\ y = Cont(cur, data, p)
      <4>1. PICK p \in Places(cur) : /\ Going(cur, p) /\ ~EndsAt(data, p)
                                     /\ y = Cont(cur, data, p)
        BY <3>1
      <4>2. \A j \in 1..W : t[j] # p
        <5> SUFFICES ASSUME NEW j \in 1..W, t[j] = p PROVE FALSE
          OBVIOUS
        <5> QED BY <1>4, <1>9, <4>1
      <4>3. KeptScoreAt(cur, data, p) <= x.cum
        BY <1>12, <2>2, <4>2
      <4>4. y.cum = KeptScoreAt(cur, data, p) /\ y.cum \in Int
        BY <1>5, <4>1 DEF Cont
      <4> QED BY <2>2, <4>3, <4>4
    <3>2. CASE ~ \E p \in Places(cur) : /\ Going(cur, p) /\ ~EndsAt(data, p)
                                        /\ y = Cont(cur, data, p)
      <4>1. PICK o \in 1..Len(cur) :
               /\ IgnoreEos /\ y.cum \in Int
               /\ \A p \in Places(cur) : Owner(p) = o => ScoreAt(cur, data, p) > y.cum
        BY <1>7, <3>2
      <4>2. CASE \E p \in Places(cur) : Owner(p) = o /\ \A j \in 1..W : t[j] # p
        <5>1. PICK p \in Places(cur) : Owner(p) = o /\ \A j \in 1..W : t[j] # p
          BY <4>2
        <5>2. ScoreAt(cur, data, p) > y.cum /\ ScoreAt(cur, data, p) \in Int
          BY <1>5, <4>1, <5>1
        <5>3. ScoreAt(cur, data, p) <= x.cum
          BY <1>5, <1>12, <2>2, <4>1, <5>1 DEF EndsAt
        <5> QED BY <2>2, <4>1, <5>2, <5>3
      <4>3. CASE ~ \E p \in Places(cur) : Owner(p) = o /\ \A j \in 1..W : t[j] # p
        <5>1. \A p \in Places(cur) : Owner(p) = o => \E j \in 1..W : t[j] = p
          BY <4>3
        <5>2. Owner(t[k]) = o
          BY <1>1, <1>2, <5>1, OnlyOneBeam
        <5>3. x.cum > y.cum
          BY <1>4, <2>2, <4>1, <5>2
        <5> QED BY <2>2, <4>1, <5>3
      <4> QED BY <4>2, <4>3
    <3> QED BY <3>1, <3>2
  <2>4. PICK q : q = <<y, x>>
    OBVIOUS
  <2> QED BY <2>3, <2>4 DEF Likelier
<1> QED BY <1>1, <1>3, <1>10, <1>16, <1>17, <1>18 DEF Bests

\* A step of the search is a step of the search alone.
LEMMA StepLeads ==
    ASSUME NEW cur, NEW done, NEW list, NEW more, NEW data, NEW e, NEW t,
           Takes(cur, done, list, more, data, e, t)
    PROVE  Follows([live |-> Real(cur), ended |-> Real(done)],
                   [live |-> Real(list), ended |-> Real(more)], said, BeamWidth, IgnoreEos)
<1>1. PICK s, r : /\ s = [live |-> Real(cur), ended |-> Real(done)]
                  /\ r = [live |-> Real(list), ended |-> Real(more)]
  OBVIOUS
<1>2. s.live = Real(cur) /\ s.ended = Real(done)
  BY <1>1
<1>3. PICK next, open : /\ next = NextOf(s.live, said, BeamWidth, IgnoreEos)
                        /\ open = OpenOf(next, IgnoreEos)
  OBVIOUS
<1>4. Real(list) \in Bests(open, BeamWidth, Likelier(open))
  BY <1>2, <1>3, KeptAlike
<1>5. Real(more) = Real(done) \cup EndedOf(next, IgnoreEos)
  BY <1>2, <1>3, EndedAlike
<1>6. r = [live |-> Real(list), ended |-> s.ended \cup EndedOf(next, IgnoreEos)]
  BY <1>1, <1>2, <1>5
<1>7. ASSUME NEW b \in s.live PROVE b.tokens \in DOMAIN said
  <2>1. PICK o \in 1..Len(cur) : b = Seen(cur[o])
    BY <1>2 DEF Real
  <2>2. cur[o].tokens \in DOMAIN said
    BY SaysOf DEF Takes
  <2> QED BY <2>1, <2>2 DEF Seen
<1> QED BY <1>1, <1>3, <1>4, <1>6, <1>7 DEF Follows

-----------------------------------------------------------------------------
(* The course of a search *)

\* g are the stages of a search alone of n steps, from root on: its beams start
\* with p and grow, from s tokens, by one token a step.
Course(g, n, root, s, p, talk, W, ignore) ==
    /\ g[0] = root
    /\ \A k \in 0..(n - 1) :
          /\ Follows(g[k], g[k + 1], talk, W, ignore)
          /\ \A b \in g[k].live : Len(b.tokens) = s + k /\ b.tokens[1] = p

\* All beams of a list have n tokens, the first of which is p.
Alike(list, n, p) ==
    \A k \in 1..Len(list) : Len(list[k].tokens) = n /\ list[k].tokens[1] = p

LEMMA CourseOn ==
    ASSUME NEW cur, NEW done, NEW list, NEW more, NEW data, NEW e, NEW t,
           Takes(cur, done, list, more, data, e, t),
           NEW g, NEW n \in Nat, NEW root, NEW s, NEW p,
           Course(g, n, root, s, p, said, BeamWidth, IgnoreEos),
           g[n] = [live |-> Real(cur), ended |-> Real(done)],
           Alike(cur, s + n, p)
    PROVE  \E h : /\ Course(h, n + 1, root, s, p, said, BeamWidth, IgnoreEos)
                  /\ h[n + 1] = [live |-> Real(list), ended |-> Real(more)]
<1>1. PICK r : r = [live |-> Real(list), ended |-> Real(more)]
  OBVIOUS
<1>2. PICK h : h = [k \in 0..(n + 1) |-> IF k = n + 1 THEN r ELSE g[k]]
  OBVIOUS
<1>3. h[n + 1] = r /\ \A k \in 0..n : h[k] = g[k]
  BY <1>2
<1>4. Follows(g[n], r, said, BeamWidth, IgnoreEos)
  BY <1>1, StepLeads
<1>5. ASSUME NEW b \in g[n].live PROVE Len(b.tokens) = s + n /\ b.tokens[1] = p
  <2>1. PICK k \in 1..Len(cur) : b = Seen(cur[k])
    BY <1>5 DEF Real
  <2> QED BY <2>1 DEF Seen, Alike
<1>6. ASSUME NEW k \in 0..((n + 1) - 1)
      PROVE  /\ Follows(h[k], h[k + 1], said, BeamWidth, IgnoreEos)
             /\ \A b \in h[k].live : Len(b.tokens) = s + k /\ b.tokens[1] = p
  <2>1. CASE k = n
    BY <1>3, <1>4, <1>5, <2>1
  <2>2. CASE k # n
    <3>1. k \in 0..(n - 1) /\ k \in 0..n /\ k + 1 \in 0..n
      BY <2>2
    <3>2. h[k] = g[k] /\ h[k + 1] = g[k + 1]
      BY <1>3, <3>1
    <3> QED BY <3>1, <3>2 DEF Course
  <2> QED BY <2>1, <2>2
<1>7. h[0] = root
  BY <1>3 DEF Course
<1>8. Course(h, n + 1, root, s, p, said, BeamWidth, IgnoreEos)
  BY <1>6, <1>7 DEF Course
<1> QED BY <1>1, <1>3, <1>8

\* The sequences of a search are different, those of finite score at least.
Different(list, done) ==
    /\ Apart(done)
    /\ \A k \in 1..Len(list), j \in 1..Len(done) :
          list[k].cum # NegInf => list[k].tokens # done[j].tokens

LEMMA DifferentOn ==
    ASSUME NEW cur, NEW done, NEW list, NEW more, NEW data, NEW e, NEW t,
           Takes(cur, done, list, more, data, e, t), Apart(done),
           NEW m \in Nat, \A k \in 1..Len(cur) : Len(cur[k].tokens) = m,
           \A k \in 1..Len(done) : Len(done[k].tokens) \in Nat /\ Len(done[k].tokens) <= m
    PROVE  Different(list, more)
<1>1. /\ Hearing(cur, data) /\ \A j, k \in 1..Len(e) : e[j] = e[k] => j = k
  BY DEF Takes, OneStep, Selected
<1>2. PICK W \in Nat : W = BeamWidth
  BY TheCall DEF Takes, Hearing
<1>3. PICK n \in Nat, x \in Nat :
         /\ n = Len(done) /\ x = Len(e) /\ Len(more) = n + x /\ Len(list) = W
         /\ \A k \in 1..W :
               /\ t[k] \in Places(cur)
               /\ list[k].tokens = Cont(cur, data, t[k]).tokens
               /\ list[k].cum # NegInf => ~EndsAt(data, t[k])
         /\ \A k \in 1..n : more[k] = done[k]
         /\ \A k \in 1..x : /\ e[k] \in Places(cur) /\ EndsAt(data, e[k])
                            /\ more[n + k].tokens = Cont(cur, data, e[k]).tokens
  BY <1>2, TakenAre
<1>4. ASSUME NEW p \in Places(cur) PROVE Len(Cont(cur, data, p).tokens) = m + 1
  <2>1. /\ Owner(p) \in 1..Len(cur) /\ cur[Owner(p)].tokens \in Seq(Words)
        /\ TokenAt(data, p) \in Words
    BY <1>1, PlaceSays DEF Words
  <2>2. Len(Append(cur[Owner(p)].tokens, TokenAt(data, p))) = Len(cur[Owner(p)].tokens) + 1
    BY <2>1, LastIs
  <2> QED BY <2>1, <2>2 DEF Cont
<1>5. ASSUME NEW k \in 1..(n + x), ~(k <= n) PROVE \E j \in 1..x : k = n + j
  <2>1. k - n \in 1..x /\ k = n + (k - n)
    BY <1>5
  <2> QED BY <2>1
<1>6. ASSUME NEW j \in 1..(n + x), NEW k \in 1..(n + x), more[j].tokens = more[k].tokens
      PROVE  j = k
  <2>1. CASE j <= n /\ k <= n
    BY <1>3, <1>6, <2>1 DEF Apart
  <2>2. CASE j <= n /\ ~(k <= n)
    <3>1. PICK l \in 1..x : k = n + l
      BY <1>5, <2>2
    <3>2. Len(more[k].tokens) = m + 1
      BY <1>3, <1>4, <3>1
    <3>3. Len(more[j].tokens) \in Nat /\ Len(more[j].tokens) <= m
      BY <1>3, <2>2
    <3> QED BY <1>6, <3>2, <3>3
  <2>3. CASE ~(j <= n) /\ k <= n
    <3>1. PICK l \in 1..x : j = n + l
      BY <1>5, <2>3
    <3>2. Len(more[j].tokens) = m + 1
      BY <1>3, <1>4, <3>1
    <3>3. Len(more[k].tokens) \in Nat /\ Len(more[k].tokens) <= m
      BY <1>3, <2>3
    <3> QED BY <1>6, <3>2, <3>3
  <2>4. CASE ~(j <= n) /\ ~(k <= n)
    <3>1. PICK l \in 1..x : j = n + l
      BY <1>5, <2>4
    <3>2. PICK o \in 1..x : k = n + o
      BY <1>5, <2>4
    <3>3. e[l] = e[o]
      BY <1>1, <1>3, <1>6, <3>1, <3>2, ContApart
    <3> QED BY <1>1, <1>3, <3>1, <3>2, <3>3
  <2> QED BY <2>1, <2>2, <2>3, <2>4
<1>7. ASSUME NEW k \in 1..W, NEW j \in 1..(n + x), list[k].cum # NegInf,
             list[k].tokens = more[j].tokens
      PROVE  FALSE
  <2>1. Len(list[k].tokens) = m + 1
    BY <1>3, <1>4
  <2>2. ~(j <= n)
    <3> SUFFICES ASSUME j <= n PROVE FALSE
      OBVIOUS
    <3>1. Len(more[j].tokens) \in Nat /\ Len(more[j].tokens) <= m
      BY <1>3
    <3> QED BY <1>7, <2>1, <3>1
  <2>3. PICK l \in 1..x : j = n + l
    BY <1>5, <2>2
  <2>4. t[k] = e[l]
    BY <1>1, <1>3, <1>7, <2>3, ContApart
  <2> QED BY <1>3, <1>7, <2>4
<1> QED BY <1>3, <1>6, <1>7 DEF Different, Apart

\* The i-th search has come as far, by steps of a search alone.
Searched(list, done, root, s, p, n, talk, W, ignore) ==
    /\ \E g : /\ Course(g, n, root, s, p, talk, W, ignore)
              /\ g[n] = [live |-> Real(list), ended |-> Real(done)]
    /\ ignore => \A k \in 1..Len(list) : list[k].cum # NegInf
    /\ Different(list, done)

LEMMA SearchedOn ==
    ASSUME NEW cur, NEW done, NEW list, NEW more, NEW data, NEW e, NEW t,
           OneStep(cur, done, list, more, data, e, t),
           CallIn, Greedy, token \in Nat, token < NumSteps,
           NEW start, NEW s \in Nat, s = Len(start), s >= 1, NEW p, p = start[1], NEW root,
           Traced(cur, done, start, token), Finite(cur, done, token, BeamWidth, Said),
           Searched(cur, done, root, s, p, token, said, BeamWidth, IgnoreEos)
    PROVE  Searched(list, more, root, s, p, token + 1, said, BeamWidth, IgnoreEos)
<1>1. Takes(cur, done, list, more, data, e, t)
  <2>1. Hearing(cur, data)
    BY DEF Hearing, OneStep, Traced, Finite
  <2>2. IgnoreEos => \A b \in 1..Len(cur) : cur[b].cum # NegInf
    BY DEF Searched
  <2> QED BY <2>1, <2>2 DEF Takes
<1>2. Alike(cur, s + token, p)
  BY DEF Traced, Descends, Alike
<1>3. \E g : /\ Course(g, token + 1, root, s, p, said, BeamWidth, IgnoreEos)
             /\ g[token + 1] = [live |-> Real(list), ended |-> Real(more)]
  <2>1. PICK g : /\ Course(g, token, root, s, p, said, BeamWidth, IgnoreEos)
                 /\ g[token] = [live |-> Real(cur), ended |-> Real(done)]
    BY DEF Searched
  <2> QED BY <1>1, <1>2, <2>1, CourseOn
<1>4. ASSUME IgnoreEos, NEW k \in 1..Len(list) PROVE list[k].cum # NegInf
  <2>1. /\ Hearing(cur, data) /\ k \in 1..BeamWidth
        /\ t[k] \in Places(cur)
        /\ list[k].cum # NegInf <=> Going(cur, t[k]) /\ ~EndsAt(data, t[k])
    BY <1>1, TakenAre DEF Takes
  <2>2. Owner(t[k]) \in 1..Len(cur)
    BY <2>1, PlaceSays
  <2>3. Going(cur, t[k]) /\ ~EndsAt(data, t[k])
    BY <1>1, <1>4, <2>2 DEF Takes, Going, EndsAt
  <2> QED BY <2>1, <2>3
<1>5. Different(list, more)
  <2>1. Apart(done) /\ \A k \in 1..Len(cur) : Len(cur[k].tokens) = s + token
    BY <1>2 DEF Searched, Different, Alike
  <2>2. s + token \in Nat
    OBVIOUS
  <2>3. ASSUME NEW k \in 1..Len(done)
        PROVE  Len(done[k].tokens) \in Nat /\ Len(done[k].tokens) <= s + token
    <3>1. PICK l \in 1..token : Len(done[k].tokens) = s + l
      BY DEF Traced, Descends
    <3> QED BY <3>1
  <2> QED BY <1>1, <2>1, <2>2, <2>3, DifferentOn
<1> QED BY <1>3, <1>4, <1>5 DEF Searched

\* What was said later changes nothing of the course of a search.
LEMMA CourseStill ==
    ASSUME NEW g, NEW n \in Nat, NEW root, NEW s \in Nat, NEW p, NEW talk, NEW more,
           NEW W, NEW ignore, Course(g, n, root, s, p, talk, W, ignore),
           \A u \in DOMAIN talk : u[1] = p /\ Len(u) \in Nat /\ Len(u) < s + n
                                     => u \in DOMAIN more /\ more[u] = talk[u]
    PROVE  Course(g, n, root, s, p, more, W, ignore)
<1>1. ASSUME NEW k \in 0..(n - 1)
      PROVE  Follows(g[k], g[k + 1], more, W, ignore)
  <2>1. Follows(g[k], g[k + 1], talk, W, ignore)
    BY DEF Course
  <2>2. ASSUME NEW b \in g[k].live
        PROVE  b.tokens \in DOMAIN more /\ more[b.tokens] = talk[b.tokens]
    <3>1. b.tokens \in DOMAIN talk
      BY <2>1 DEF Follows
    <3>2. Len(b.tokens) = s + k /\ b.tokens[1] = p
      BY DEF Course
    <3> QED BY <3>1, <3>2
  <2> QED BY <2>1, <2>2, FollowsStill
<1> QED BY <1>1 DEF Course

LEMMA SearchedStill ==
    ASSUME NEW list, NEW done, NEW n \in Nat, NEW root, NEW s \in Nat, NEW p, NEW talk,
           NEW more, NEW W, NEW ignore, Searched(list, done, root, s, p, n, talk, W, ignore),
           \A u \in DOMAIN talk : u[1] = p /\ Len(u) \in Nat /\ Len(u) < s + n
                                     => u \in DOMAIN more /\ more[u] = talk[u]
    PROVE  Searched(list, done, root, s, p, n, more, W, ignore)
<1>1. PICK g : /\ Course(g, n, root, s, p, talk, W, ignore)
               /\ g[n] = [live |-> Real(list), ended |-> Real(done)]
  BY DEF Searched
<1>2. Course(g, n, root, s, p, more, W, ignore)
  BY <1>1, CourseStill
<1> QED BY <1>1, <1>2 DEF Searched

\* At temperature 0, all searches are such.
Searches ==
    Greedy => \A i \in 1..Len(Prompts) :
       Searched(beams[i], completed[i], Start(i), Len(StartOf(i)), Prompts[i], Made(i),
                said, BeamWidth, IgnoreEos)

LEMMA SameStart ==
    ASSUME call' = call
    PROVE  \A i : Start(i)' = Start(i)
BY DEF Start, Prompts, BeginTokens

LEMMA SelectSearches ==
    ASSUME Base, FiniteScores, Searches, Select
    PROVE  Searches'
<1>1. Lineage /\ CallIn /\ call' = call /\ said' = said /\ token < NumSteps /\ token \in Nat
  <2>1. Lineage /\ Control
    BY DEF Base, Shape
  <2>2. CallIn /\ call' = call /\ said' = said /\ token < NumSteps /\ token \in 0..NumSteps
    BY <2>1, SelectControl DEF Control, Select
  <2> QED BY <2>1, <2>2, TheCall
<1> SUFFICES ASSUME Greedy PROVE Searches'
  BY <1>1, SameCall DEF Searches
<1>2. PICK i \in 1..Len(Prompts) : \E data, e, t : Stepped(i, data, e, t)
  BY SelectSteps
<1>3. PICK data, e, t : Stepped(i, data, e, t)
  BY <1>2
<1>4. PICK list, more, start, root :
         list = beams'[i] /\ more = completed'[i] /\ start = StartOf(i) /\ root = Start(i)
  OBVIOUS
<1>5. /\ OneStep(beams[i], completed[i], list, more, data, e, t)
      /\ Made(i) = token /\ Made(i)' = token + 1
  BY <1>3, <1>4 DEF Stepped
<1>6. PICK s \in Nat : s = Len(start) /\ s >= 1 /\ Prompts[i] = start[1]
  BY <1>1, <1>4, StartIs
<1>7. /\ Traced(beams[i], completed[i], start, token)
      /\ Finite(beams[i], completed[i], token, BeamWidth, Said)
      /\ Searched(beams[i], completed[i], root, s, Prompts[i], token, said, BeamWidth,
                  IgnoreEos)
  BY <1>1, <1>4, <1>5, <1>6 DEF Lineage, FiniteScores, Searches
<1>8. Searched(list, more, root, s, Prompts[i], token + 1, said, BeamWidth, IgnoreEos)
  BY <1>1, <1>5, <1>6, <1>7, SearchedOn
<1>9. ASSUME NEW j \in 1..Len(Prompts)
      PROVE  Searched(beams'[j], completed'[j], Start(j), Len(StartOf(j)), Prompts[j], Made(j)',
                      said, BeamWidth, IgnoreEos)
  <2>1. CASE j = i
    BY <1>4, <1>5, <1>6, <1>8, <2>1
  <2>2. CASE j # i
    BY <1>3, <2>2 DEF Stepped, Searches
  <2> QED BY <2>1, <2>2
<1> QED BY <1>1, <1>9, SameCall, SameStart DEF Searches

LEMMA WaitSearches ==
    ASSUME Base, Searches, Waits
    PROVE  Searches'
<1>1. call' = call /\ beams' = beams /\ completed' = completed
  BY DEF Waits, Generate, NoLogprobs, NextBatch, Finish, vars
<1> SUFFICES ASSUME Greedy PROVE Searches'
  BY <1>1, SameCall DEF Searches
<1>2. \A i \in 1..Len(Prompts) : Made(i)' = Made(i)
  BY WaitMade DEF Base
<1>3. ASSUME NEW i \in 1..Len(Prompts)
      PROVE  Searched(beams[i], completed[i], Start(i), Len(StartOf(i)), Prompts[i], Made(i),
                      said', BeamWidth, IgnoreEos)
  <2>1. Searched(beams[i], completed[i], Start(i), Len(StartOf(i)), Prompts[i], Made(i),
                 said, BeamWidth, IgnoreEos)
    BY DEF Searches
  <2>2. CASE Generate
    <3>1. PICK s \in Nat, n \in Nat : s = Len(StartOf(i)) /\ n = Made(i)
      BY BeamsAre
    <3>2. ASSUME NEW u \in DOMAIN said, u[1] = Prompts[i], Len(u) \in Nat, Len(u) < s + n
          PROVE  u \in DOMAIN said' /\ said'[u] = said[u]
      <4>1. NotAsked(u)
        BY <3>1, <3>2, OlderNotAsked
      <4> QED BY <2>2, <4>1, GenerateIs DEF Base
    <3>3. PICK talk, more : talk = said /\ more = said'
      OBVIOUS
    <3> QED BY <2>1, <3>1, <3>2, <3>3, SearchedStill
  <2>3. CASE ~Generate
    <3>1. said' = said
      BY <2>3 DEF Waits, NoLogprobs, NextBatch, Finish, vars
    <3> QED BY <2>1, <3>1
  <2> QED BY <2>2, <2>3
<1> QED BY <1>1, <1>2, <1>3, SameCall, SameStart DEF Searches

LEMMA InitSearches ==
    ASSUME Init
    PROVE  Searches
<1>1. CallIn /\ DOMAIN Prompts = 1..Len(Prompts)
  BY ThePrompts DEF Init, CallIn
<1>2. ASSUME NEW i \in 1..Len(Prompts)
      PROVE  Searched(beams[i], completed[i], Start(i), Len(StartOf(i)), Prompts[i], Made(i),
                      said, BeamWidth, IgnoreEos)
  <2>1. PICK b : b = [tokens |-> StartOf(i), cum |-> 0, steps |-> <<>>, reason |-> "length"]
    OBVIOUS
  <2>2. beams[i] = <<b>> /\ completed[i] = <<>>
    BY <1>1, <2>1 DEF Init, StartOf
  <2>3. b.cum = 0 /\ b.cum # NegInf /\ Seen(b) = [tokens |-> StartOf(i), cum |-> 0]
    BY <2>1, NegInfIs DEF Seen
  <2>4. Made(i) = 0
    <3>1. prompt_start = 0 /\ token = 0 /\ instance = 0
      BY DEF Init
    <3>2. i \in Nat /\ i >= 1
      BY <1>1, ThePrompts
    <3> QED BY <3>1, <3>2 DEF Made
  <2>5. /\ Len(<<b>>) = 1 /\ Len(<<>>) = 0
        /\ \A k \in 1..1 : <<b>>[k] = b
    OBVIOUS
  <2>6. Real(<<b>>) = {[tokens |-> StartOf(i), cum |-> 0]} /\ Real(<<>>) = {}
    BY <2>3, <2>5 DEF Real
  <2>7. PICK root : root = Start(i)
    OBVIOUS
  <2>8. root = [live |-> Real(<<b>>), ended |-> Real(<<>>)]
    BY <2>6, <2>7 DEF Start, StartOf
  <2>9. PICK g : g = [k \in {0} |-> root]
    OBVIOUS
  <2>10. g[0] = root /\ \A k \in 0..(0 - 1) : FALSE
    BY <2>9
  <2>11. Course(g, 0, root, Len(StartOf(i)), Prompts[i], said, BeamWidth, IgnoreEos)
    BY <2>10 DEF Course
  <2>12. Different(<<b>>, <<>>)
    BY <2>5 DEF Different, Apart
  <2>13. \A k \in 1..Len(<<b>>) : <<b>>[k].cum # NegInf
    BY <2>3, <2>5
  <2> QED BY <2>2, <2>4, <2>7, <2>8, <2>10, <2>11, <2>12, <2>13 DEF Searched
<1> QED BY <1>2 DEF Searches

LEMMA SearchesInvariant == Spec => []Searches
<1>1. Init => Searches
  BY InitSearches
<1>2. Base /\ FiniteScores /\ Searches /\ [Next]_vars => Searches'
  BY NextCases, SelectSearches, WaitSearches
<1> QED BY <1>1, <1>2, BaseInvariant, FiniteScoresInvariant, PTL DEF Spec

-----------------------------------------------------------------------------
(* The stages of a search alone *)

After(S) == UNION {AfterStep(s) : s \in S}

\* levels[k] is all that a search of n steps may be after k of them.
LevelsOf(levels, n, root) ==
    levels = [k \in 0..n |-> IF k = 0 THEN {root} ELSE After(levels[k - 1])]

LEMMA LevelsExist ==
    ASSUME NEW n \in Nat, NEW root
    PROVE  \E levels : LevelsOf(levels, n, root)
<1> DEFINE A == {m \in 0..n : \E g : LevelsOf(g, m, root)}
<1>1. 0 \in A
  <2>1. PICK g : g = [k \in 0..0 |-> {root}]
    OBVIOUS
  <2>2. g = [k \in 0..0 |-> IF k = 0 THEN {root} ELSE After(g[k - 1])]
    BY <2>1
  <2> QED BY <2>2 DEF LevelsOf
<1>2. ASSUME NEW m \in 1..n, m - 1 \in A PROVE m \in A
  <2>1. PICK g : LevelsOf(g, m - 1, root)
    BY <1>2
  <2>2. \A k \in 0..(m - 1) : g[k] = IF k = 0 THEN {root} ELSE After(g[k - 1])
    BY <2>1 DEF LevelsOf
  <2>3. PICK last : last = After(g[m - 1])
    OBVIOUS
  <2>4. PICK h : h = [k \in 0..m |-> IF k = m THEN last ELSE g[k]]
    OBVIOUS
  <2>5. h[m] = last /\ \A k \in 0..(m - 1) : h[k] = g[k]
    BY <2>4
  <2>6. ASSUME NEW k \in 0..m
        PROVE  h[k] = IF k = 0 THEN {root} ELSE After(h[k - 1])
    <3>1. CASE k = m
      BY <2>3, <2>5, <3>1
    <3>2. CASE k # m /\ k = 0
      BY <2>2, <2>5, <3>2
    <3>3. CASE k # m /\ k # 0
      <4>1. k \in 0..(m - 1) /\ k - 1 \in 0..(m - 1)
        BY <3>3
      <4>2. h[k] = g[k] /\ h[k - 1] = g[k - 1]
        BY <2>5, <4>1
      <4> QED BY <2>2, <3>3, <4>1, <4>2
    <3> QED BY <3>1, <3>2, <3>3
  <2>7. DOMAIN h = 0..m /\ h = [k \in DOMAIN h |-> h[k]]
    BY <2>4
  <2>8. LevelsOf(h, m, root)
    BY <2>6, <2>7 DEF LevelsOf
  <2> QED BY <2>8
<1>3. n \in A
  <2> HIDE DEF A
  <2>1. \A k \in 0..n : k \in A
    BY <1>1, <1>2, InductionTo
  <2> QED BY <2>1
<1> QED BY <1>3

\* Where a course ends, a search alone may end.
LEMMA AloneHas ==
    ASSUME NEW i, NEW n \in Nat, n = NumSteps, NEW g, NEW s, NEW p,
           Course(g, n, Start(i), s, p, said, BeamWidth, IgnoreEos),
           NEW S, S = Closed(g[n])
    PROVE  Bests(S, BeamWidth, BetterOf(S)) \subseteq Alone(i)
<1> DEFINE f == CHOOSE f : f = [k \in 0..NumSteps |->
                   IF k = 0 THEN {Start(i)} ELSE UNION {AfterStep(r) : r \in f[k - 1]}]
<1>1. f = [k \in 0..NumSteps |->
              IF k = 0 THEN {Start(i)} ELSE UNION {AfterStep(r) : r \in f[k - 1]}]
  <2>1. PICK levels : LevelsOf(levels, n, Start(i))
    BY LevelsExist
  <2>2. levels = [k \in 0..NumSteps |->
              IF k = 0 THEN {Start(i)} ELSE UNION {AfterStep(r) : r \in levels[k - 1]}]
    BY <2>1 DEF LevelsOf, After
  <2> QED BY <2>2
<1>2. Alone(i) = UNION {Bests(Closed(r), BeamWidth, BetterOf(Closed(r))) : r \in f[NumSteps]}
  BY DEF Alone
<1>3. /\ f[0] = {Start(i)}
      /\ \A k \in 1..n : f[k] = UNION {AfterStep(r) : r \in f[k - 1]}
  <2> HIDE DEF f
  <2>1. PICK all : all = [k \in 0..n |->
              IF k = 0 THEN {Start(i)} ELSE UNION {AfterStep(r) : r \in f[k - 1]}]
    OBVIOUS
  <2>2. f = all
    BY <1>1, <2>1
  <2>3. \A k \in 0..n : all[k] = IF k = 0 THEN {Start(i)}
                                ELSE UNION {AfterStep(r) : r \in f[k - 1]}
    BY <2>1
  <2>4. f[0] = {Start(i)}
    <3>1. 0 \in 0..n
      OBVIOUS
    <3> QED BY <2>2, <2>3, <3>1
  <2>5. ASSUME NEW k \in 1..n PROVE f[k] = UNION {AfterStep(r) : r \in f[k - 1]}
    <3>1. k \in 0..n /\ k # 0
      OBVIOUS
    <3> QED BY <2>2, <2>3, <3>1
  <2> QED BY <2>4, <2>5
<1> HIDE DEF f
<1> DEFINE A == {k \in 0..n : g[k] \in f[k]}
<1>4. 0 \in A
  BY <1>3 DEF Course
<1>5. ASSUME NEW k \in 1..n, k - 1 \in A PROVE k \in A
  <2>1. k - 1 \in 0..(n - 1) /\ (k - 1) + 1 = k /\ k \in 0..n
    OBVIOUS
  <2>2. Follows(g[k - 1], g[k], said, BeamWidth, IgnoreEos)
    BY <2>1 DEF Course
  <2>3. g[k] \in AfterStep(g[k - 1])
    BY <2>2, AfterStepIs
  <2>4. g[k - 1] \in f[k - 1]
    BY <1>5
  <2>5. g[k] \in UNION {AfterStep(r) : r \in f[k - 1]}
    BY <2>3, <2>4
  <2> QED BY <1>3, <2>1, <2>5
<1>6. g[n] \in f[NumSteps]
  <2> HIDE DEF A
  <2>1. \A k \in 0..n : k \in A
    BY <1>4, <1>5, InductionTo
  <2>2. n \in A
    BY <2>1
  <2> QED BY <2>2 DEF A
<1>7. PICK B : B = Bests(Closed(g[n]), BeamWidth, BetterOf(Closed(g[n])))
  OBVIOUS
<1>8. B \in {Bests(Closed(r), BeamWidth, BetterOf(Closed(r))) : r \in f[NumSteps]}
  BY <1>6, <1>7
<1> QED BY <1>2, <1>7, <1>8

-----------------------------------------------------------------------------
(* The answers are the best of the search alone *)

\* The list has n beams, those of finite score with different tokens.
Distinct(fs, n) ==
    /\ Len(fs) = n
    /\ \A j, k \in 1..n : /\ fs[j].cum # NegInf /\ fs[k].cum # NegInf
                          /\ fs[j].tokens = fs[k].tokens
                          => j = k

\* out are the best c of fs, best first.
BestFirst(out, c) ==
    \A k, l \in 1..c : k < l => out[k].tokens # out[l].tokens /\ ~Better(out[l], out[k])

LEMMA BestOnesAre ==
    ASSUME NEW fs, NEW n, NEW c, NEW h, FiniteOnes(fs, n, c, h), Distinct(fs, n),
           NEW W \in Nat, c <= W, c = W \/ c = n,
           NEW s, s = InOrder(1..n, Earlier(fs)),
           NEW out, \A k \in 1..c : out[k] = fs[s[k]],
           NEW S, S = Real(fs), NEW T, T = {Seen(out[k]) : k \in 1..c}
    PROVE  T \in Bests(S, W, BetterOf(S)) /\ BestFirst(out, c)
<1>1. /\ n \in Nat /\ c \in Nat /\ Scored(fs, n)
      /\ IsFiniteSet(1..n) /\ Cardinality(1..n) = n
  BY FS_Interval DEF FiniteOnes
<1>2. Ordered(s, 1..n, Earlier(fs))
  BY <1>1, EarlierIs, InOrderIs
<1>3. /\ s \in [1..n -> 1..n]
      /\ \A x \in 1..n : \E k \in 1..n : s[k] = x
      /\ \A j, k \in 1..n : s[j] = s[k] => j = k
      /\ \A j, k \in 1..n : j < k => <<s[j], s[k]>> \in Earlier(fs)
  BY <1>1, <1>2 DEF Ordered
<1>4. c <= n /\ \A k \in 1..c : k \in 1..n /\ s[k] \in 1..n /\ fs[s[k]].cum # NegInf
  BY <1>1, BestOnesAreFinite
<1>5. ASSUME NEW j \in 1..n, NEW k \in 1..n, j < k
      PROVE  ~Better(fs[s[k]], fs[s[j]])
  <2>1. <<s[j], s[k]>> \in Earlier(fs) /\ s[j] \in 1..n /\ s[k] \in 1..n
    BY <1>3, <1>5
  <2> QED BY <1>1, <2>1, EarlierIs
<1>6. ASSUME NEW j \in 1..c, NEW k \in 1..c, out[j].tokens = out[k].tokens PROVE j = k
  <2>1. out[j] = fs[s[j]] /\ out[k] = fs[s[k]]
    OBVIOUS
  <2>2. s[j] = s[k]
    BY <1>4, <1>6, <2>1 DEF Distinct
  <2>3. j \in 1..n /\ k \in 1..n
    BY <1>4
  <2> QED BY <1>3, <2>2, <2>3
<1>7. PICK g : g = [k \in 1..c |-> Seen(out[k])]
  OBVIOUS
<1>8. \A j, k \in 1..c : g[j] = g[k] => j = k
  BY <1>6, <1>7 DEF Seen
<1>9. IsFiniteSet(T) /\ Cardinality(T) = c
  <2>1. IsFiniteSet(Counted(g, c)) /\ Cardinality(Counted(g, c)) = c
    BY <1>1, <1>8, CountedOnce
  <2>2. T = Counted(g, c)
    BY <1>7 DEF Counted
  <2> QED BY <2>1, <2>2
<1>10. \A x \in S : \E j \in 1..n : x = Seen(fs[j]) /\ fs[j].cum # NegInf
  BY DEF Real, Distinct
<1>11. \A j \in 1..n : fs[j].cum # NegInf => Seen(fs[j]) \in S
  BY DEF Real, Distinct
<1>12. T \in SUBSET S
  BY <1>4, <1>11
<1>13. T = S \/ Cardinality(T) = W
  <2>1. CASE c = W
    BY <1>9, <2>1
  <2>2. CASE c = n
    <3>1. ASSUME NEW x \in S PROVE x \in T
      <4>1. PICK j \in 1..n : x = Seen(fs[j])
        BY <1>10
      <4>2. PICK k \in 1..n : s[k] = j
        BY <1>3
      <4> QED BY <2>2, <4>1, <4>2
    <3> QED BY <1>12, <3>1
  <2> QED BY <2>1, <2>2
<1>14. ASSUME NEW x \in T, NEW y \in S \ T PROVE <<y, x>> \notin BetterOf(S)
  <2>1. PICK k \in 1..c : x = Seen(fs[s[k]])
    OBVIOUS
  <2>2. PICK j \in 1..n : y = Seen(fs[j])
    BY <1>10
  <2>3. PICK l \in 1..n : s[l] = j
    BY <1>3
  <2>4. ~(l <= c)
    <3> SUFFICES ASSUME l <= c PROVE FALSE
      OBVIOUS
    <3>1. l \in 1..c
      OBVIOUS
    <3> QED BY <2>2, <2>3, <3>1
  <2>5. ~Better(fs[s[l]], fs[s[k]])
    <3>1. k \in 1..n /\ k < l
      BY <1>1, <1>4, <2>4
    <3> QED BY <1>5, <3>1
  <2>6. ~Better(y, x)
    <3>1. /\ x.cum = fs[s[k]].cum /\ x.tokens = fs[s[k]].tokens
          /\ y.cum = fs[s[l]].cum /\ y.tokens = fs[s[l]].tokens
      BY <2>1, <2>2, <2>3 DEF Seen
    <3>2. PICK a, b : a = fs[s[l]] /\ b = fs[s[k]]
      OBVIOUS
    <3> QED BY <2>5, <3>1, <3>2, BetterIs
  <2>7. PICK q : q = <<y, x>>
    OBVIOUS
  <2> QED BY <2>6, <2>7 DEF BetterOf
<1>15. BestFirst(out, c)
  <2> SUFFICES ASSUME NEW k \in 1..c, NEW l \in 1..c, k < l
               PROVE  out[k].tokens # out[l].tokens /\ ~Better(out[l], out[k])
    BY DEF BestFirst
  <2>1. k # l
    OBVIOUS
  <2> QED BY <1>4, <1>5, <1>6, <2>1
<1> QED BY <1>1, <1>9, <1>12, <1>13, <1>14, <1>15 DEF Bests

ClosedWith(search, end) ==
    search.ended \cup {[b EXCEPT !.tokens = @ \o end] : b \in search.live}

\* What an answer is chosen from is what the search has closed with.
LEMMA FinalsReal ==
    ASSUME NEW fs, NEW list, NEW done, NEW n, NEW end, FinalsOf(fs, list, done, n, end),
           Len(done) \in Nat, Len(list) \in Nat,
           NEW r, r = [live |-> Real(list), ended |-> Real(done)]
    PROVE  Real(fs) = ClosedWith(r, end)
<1>1. PICK d \in Nat, m \in Nat : d = Len(done) /\ m = Len(list)
  OBVIOUS
<1>2. /\ Len(fs) = d + m /\ \A k \in 1..(d + m) : fs[k].cum = At(done, list, k).cum
      /\ \A k \in 1..d : fs[k] = done[k]
      /\ \A k \in 1..m : fs[d + k].tokens = list[k].tokens \o end
  BY <1>1 DEF FinalsOf
<1>3. ASSUME NEW k \in 1..m
      PROVE  /\ d + k \in 1..(d + m) /\ fs[d + k].cum = list[k].cum
             /\ Seen(fs[d + k]) = [Seen(list[k]) EXCEPT !.tokens = @ \o end]
  <2>1. d + k \in 1..(d + m) /\ ~(d + k <= d) /\ (d + k) - d = k
    OBVIOUS
  <2>2. fs[d + k].cum = list[k].cum
    BY <1>1, <1>2, <2>1 DEF At
  <2>3. PICK f, b : f = fs[d + k] /\ b = list[k]
    OBVIOUS
  <2>4. f.cum = b.cum /\ f.tokens = b.tokens \o end
    BY <1>2, <2>2, <2>3
  <2>5. Seen(f) = [Seen(b) EXCEPT !.tokens = @ \o end]
    <3>1. PICK u, v, w : u = b.tokens /\ v = b.cum /\ w = u \o end
      OBVIOUS
    <3>2. Seen(f) = [tokens |-> w, cum |-> v] /\ Seen(b) = [tokens |-> u, cum |-> v]
      BY <2>4, <3>1 DEF Seen
    <3>3. [[tokens |-> u, cum |-> v] EXCEPT !.tokens = w] = [tokens |-> w, cum |-> v]
      OBVIOUS
    <3>4. Seen(b).tokens \o end = w
      BY <3>1, <3>2
    <3> QED BY <3>2, <3>3, <3>4
  <2> QED BY <2>1, <2>2, <2>3, <2>5
<1>4. \A k \in 1..(d + m) : k \in 1..d \/ \E j \in 1..m : k = d + j
  <2> SUFFICES ASSUME NEW k \in 1..(d + m), k \notin 1..d PROVE \E j \in 1..m : k = d + j
    OBVIOUS
  <2>1. k - d \in 1..m /\ k = d + (k - d)
    OBVIOUS
  <2> QED BY <2>1
<1>5. ASSUME NEW x \in Real(fs) PROVE x \in ClosedWith(r, end)
  <2>1. PICK k \in 1..(d + m) : x = Seen(fs[k]) /\ fs[k].cum # NegInf
    BY <1>2 DEF Real
  <2>2. CASE k \in 1..d
    <3>1. x \in Real(done)
      BY <1>1, <1>2, <2>1, <2>2 DEF Real
    <3> QED BY <3>1 DEF ClosedWith
  <2>3. CASE k \notin 1..d
    <3>1. PICK j \in 1..m : k = d + j
      BY <1>4, <2>3
    <3>2. PICK b : b = Seen(list[j])
      OBVIOUS
    <3>3. b \in Real(list)
      BY <1>1, <1>3, <2>1, <3>1, <3>2 DEF Real
    <3>4. x = [b EXCEPT !.tokens = @ \o end]
      BY <1>3, <2>1, <3>1, <3>2
    <3> QED BY <3>3, <3>4 DEF ClosedWith
  <2> QED BY <2>2, <2>3
<1>6. ASSUME NEW x \in Real(done) PROVE x \in Real(fs)
  <2>1. PICK k \in 1..d : x = Seen(done[k]) /\ done[k].cum # NegInf
    BY <1>1 DEF Real
  <2>2. k \in 1..(d + m) /\ fs[k] = done[k]
    BY <1>2
  <2> QED BY <1>2, <2>1, <2>2 DEF Real
<1>7. ASSUME NEW b \in Real(list) PROVE [b EXCEPT !.tokens = @ \o end] \in Real(fs)
  <2>1. PICK k \in 1..m : b = Seen(list[k]) /\ list[k].cum # NegInf
    BY <1>1 DEF Real
  <2>2. /\ d + k \in 1..(d + m) /\ fs[d + k].cum # NegInf
        /\ Seen(fs[d + k]) = [b EXCEPT !.tokens = @ \o end]
    BY <1>3, <2>1
  <2> QED BY <1>2, <2>2 DEF Real
<1> QED BY <1>5, <1>6, <1>7 DEF ClosedWith

LEMMA JoinApart ==
    ASSUME NEW S, NEW T, NEW u \in Seq(S), NEW v \in Seq(S), NEW w \in Seq(T), Len(u) = Len(v),
           u \o w = v \o w
    PROVE  u = v
<1>1. Joint(u, w) /\ Joint(v, w)
  BY JoinIs
<1>2. \A k \in 1..Len(u) : u[k] = v[k]
  BY <1>1 DEF Joint
<1> QED BY <1>2

LEMMA JoinNothing ==
    ASSUME NEW S, NEW T, NEW u \in Seq(S), NEW w \in Seq(T), Len(w) = 0
    PROVE  u \o w = u
<1>1. PICK x : x = u \o w
  OBVIOUS
<1>2. x \in Seq(S \cup T) /\ Joint(u, w)
  BY <1>1, JoinIs
<1>3. Len(x) = Len(u) /\ \A k \in 1..Len(u) : x[k] = u[k]
  BY <1>1, <1>2 DEF Joint
<1> QED BY <1>1, <1>2, <1>3

\* A list of tokens of m tokens each.
Even(list, m, S) == \A k \in 1..Len(list) : list[k].tokens \in Seq(S) /\ Len(list[k].tokens) = m

LEMMA FinalsDistinct ==
    ASSUME NEW fs, NEW list, NEW done, NEW n, NEW end, FinalsOf(fs, list, done, n, end),
           Len(done) \in Nat, Len(list) \in Nat, Different(list, done), Apart(list),
           NEW S, NEW T, end \in Seq(T), NEW m \in Nat, Even(list, m, S),
           \A k \in 1..Len(done) : Len(done[k].tokens) \in Nat /\ Len(done[k].tokens) <= m
    PROVE  Distinct(fs, n)
<1>1. PICK d \in Nat, l \in Nat : d = Len(done) /\ l = Len(list)
  OBVIOUS
<1>2. /\ n = d + l /\ Len(fs) = n /\ \A k \in 1..n : fs[k].cum = At(done, list, k).cum
      /\ \A k \in 1..d : fs[k] = done[k]
      /\ \A k \in 1..l : fs[d + k].tokens = list[k].tokens \o end
  BY <1>1 DEF FinalsOf
<1>3. ASSUME NEW k \in 1..n, ~(k <= d)
      PROVE  \E j \in 1..l : /\ k = d + j /\ fs[k].cum = list[j].cum
                             /\ fs[k].tokens = list[j].tokens \o end
  <2>1. PICK j \in 1..l : j = k - d /\ k = d + j
    <3>1. k - d \in 1..l /\ k = d + (k - d)
      BY <1>2, <1>3
    <3> QED BY <3>1
  <2>2. fs[k].cum = list[j].cum
    BY <1>1, <1>2, <1>3, <2>1 DEF At
  <2> QED BY <1>2, <2>1, <2>2
<1>4. ASSUME NEW j \in 1..n, NEW k \in 1..n, j <= d, ~(k <= d), fs[k].cum # NegInf,
             fs[j].tokens = fs[k].tokens
      PROVE  FALSE
  <2>1. PICK o \in 1..l : fs[k].cum = list[o].cum /\ fs[k].tokens = list[o].tokens \o end
    BY <1>3, <1>4
  <2>2. list[o].tokens \in Seq(S) /\ Len(list[o].tokens) = m
    BY <1>1 DEF Even
  <2>3. j \in 1..d
    BY <1>2, <1>4
  <2>4. done[j].tokens = list[o].tokens \o end
    BY <1>2, <1>4, <2>1, <2>3
  <2>5. PICK u, w : u = list[o].tokens /\ w = end
    OBVIOUS
  <2>6. Len(u \o w) = m + Len(w) /\ (Len(w) = 0 => u \o w = u) /\ Len(w) \in Nat
    <3>1. u \in Seq(S) /\ w \in Seq(T) /\ Len(u) = m
      BY <2>2, <2>5
    <3>2. Joint(u, w)
      BY <3>1, JoinIs
    <3>3. ASSUME Len(w) = 0 PROVE u \o w = u
      BY <3>1, <3>3, JoinNothing
    <3> QED BY <3>1, <3>2, <3>3 DEF Joint
  <2>7. Len(done[j].tokens) \in Nat /\ Len(done[j].tokens) <= m
    BY <1>1, <2>3
  <2>8. Len(w) = 0
    BY <2>4, <2>5, <2>6, <2>7
  <2>9. list[o].tokens = done[j].tokens
    BY <2>4, <2>5, <2>6, <2>8
  <2> QED BY <1>1, <1>4, <2>1, <2>3, <2>9 DEF Different
<1>5. ASSUME NEW j \in 1..n, NEW k \in 1..n, fs[j].cum # NegInf, fs[k].cum # NegInf,
             fs[j].tokens = fs[k].tokens
      PROVE  j = k
  <2>1. CASE j <= d /\ k <= d
    <3>1. j \in 1..d /\ k \in 1..d
      BY <1>2, <2>1
    <3> QED BY <1>1, <1>2, <1>5, <3>1 DEF Different, Apart
  <2>2. CASE j <= d /\ ~(k <= d)
    BY <1>4, <1>5, <2>2
  <2>3. CASE ~(j <= d) /\ k <= d
    BY <1>4, <1>5, <2>3
  <2>4. CASE ~(j <= d) /\ ~(k <= d)
    <3>1. PICK x \in 1..l : j = d + x /\ fs[j].tokens = list[x].tokens \o end
      BY <1>3, <2>4
    <3>2. PICK y \in 1..l : k = d + y /\ fs[k].tokens = list[y].tokens \o end
      BY <1>3, <2>4
    <3>3. PICK u, v : u = list[x].tokens /\ v = list[y].tokens
      OBVIOUS
    <3>4. u = v
      <4>1. u \in Seq(S) /\ v \in Seq(S) /\ Len(u) = Len(v)
        BY <1>1, <3>3 DEF Even
      <4>2. u \o end = v \o end
        BY <1>5, <3>1, <3>2, <3>3
      <4> QED BY <4>1, <4>2, JoinApart
    <3> QED BY <1>1, <3>1, <3>2, <3>3, <3>4 DEF Apart
  <2> QED BY <2>1, <2>2, <2>3, <2>4
<1> QED BY <1>2, <1>5 DEF Distinct

\* The answers out are the W best that the search of list and done has closed
\* with.
BestOf(out, list, done, end, W) ==
    LET S == ClosedWith([live |-> Real(list), ended |-> Real(done)], end)
    IN  \E c \in Nat : /\ DOMAIN out = 1..c /\ BestFirst(out, c)
                       /\ {Seen(out[k]) : k \in 1..c} \in Bests(S, W, BetterOf(S))

\* There are as many answers as there are beams of finite score, up to the
\* width of the search: without a step there is one.
LEMMA BestBeamsAlone ==
    ASSUME Base, FiniteScores, Searches, Greedy, NEW i \in 1..Len(Prompts),
           Made(i) = NumSteps
    PROVE  BestOf(BestBeams(i), beams[i], completed[i], EndTokens, BeamWidth)
<1>1. CallIn /\ NumSteps \in Nat
  BY TheCall DEF Base, Shape, Control
<1>2. PICK W \in Nat : W = BeamWidth /\ W >= 1
  BY <1>1, TheCall
<1>3. PICK list, done, end : list = beams[i] /\ done = completed[i] /\ end = EndTokens
  OBVIOUS
<1>4. PICK fs : fs = Finals(i)
  OBVIOUS
<1>5. PICK n : FinalsOf(fs, list, done, n, end)
  BY <1>3, <1>4, FinalsAre
<1>6. /\ DOMAIN fs = 1..n /\ Len(fs) = n /\ n \in Nat /\ n = Len(done) + Len(list)
      /\ \A k \in 1..n : IsFinal(fs[k]) /\ fs[k].cum = At(done, list, k).cum
  BY <1>5, Zenon DEF FinalsOf
<1>7. Scored(fs, n)
  BY <1>6 DEF Scored, IsFinal
<1>8. Finite(list, done, NumSteps, W, Said)
  BY <1>2, <1>3 DEF FiniteScores
<1>9. \E c \in Nat : \E h : FiniteOnes(fs, n, c, h) /\ c <= W /\ (c = W \/ c = n)
  <2>1. CASE NumSteps > 0
    <3>1. Enough(list, done, W)
      BY <1>8, <2>1 DEF Finite
    <3>2. PICK h \in [1..W -> 1..n] :
             /\ \A j, k \in 1..W : h[j] = h[k] => j = k
             /\ \A k \in 1..W : At(done, list, h[k]).cum # NegInf
      BY <1>6, <3>1, Zenon DEF Enough
    <3>3. \A k \in 1..W : fs[h[k]].cum # NegInf
      BY <1>6, <3>2
    <3>4. FiniteOnes(fs, n, W, h)
      BY <1>6, <1>7, <3>2, <3>3, Zenon DEF FiniteOnes
    <3> QED BY <3>4
  <2>2. CASE NumSteps = 0
    <3>1. Made(i) = 0
      BY <2>2
    <3>2. Len(list) = 1 /\ Len(done) \in Nat
      BY <1>3, <3>1, BeamsAre DEF Base, Shape
    <3>3. \A k \in 1..Len(done) : \E l \in 1..0 : TRUE
      BY <1>3, <3>1, BeamsAre
    <3>4. Len(done) = 0
      BY <3>2, <3>3
    <3>5. n = 1 /\ fs[1].cum = list[1].cum
      <4>1. n = 1
        BY <1>6, <3>2, <3>4
      <4>2. At(done, list, 1) = list[1]
        BY <3>4 DEF At
      <4> QED BY <1>6, <4>1, <4>2
    <3>6. fs[1].cum # NegInf
      BY <1>8, <2>2, <3>5, NegInfIs DEF Finite
    <3>7. PICK h : h = [k \in 1..1 |-> 1]
      OBVIOUS
    <3>8. /\ h \in [1..1 -> 1..n] /\ \A k \in 1..1 : h[k] = 1
          /\ \A j, k \in 1..1 : j = k
      BY <3>5, <3>7
    <3>9. FiniteOnes(fs, n, 1, h)
      BY <1>6, <1>7, <3>6, <3>8 DEF FiniteOnes
    <3> QED BY <1>2, <3>5, <3>9
  <2> QED BY <1>1, <2>1, <2>2
<1>10. PICK c \in Nat : \E h : FiniteOnes(fs, n, c, h) /\ c <= W /\ (c = W \/ c = n)
  BY <1>9
<1>11. PICK h : FiniteOnes(fs, n, c, h) /\ c <= W /\ (c = W \/ c = n)
  BY <1>10
<1>12. PICK s : s = InOrder(1..n, Earlier(fs))
  OBVIOUS
<1>13. c <= n
  BY <1>11, <1>12, BestOnesAreFinite
<1>14. Min({W, n}) = c
  <2>1. W \in Int /\ n \in Int
    BY <1>6
  <2>2. Min({W, n}) = IF W <= n THEN W ELSE n
    BY <2>1, MinOfTwo
  <2> QED BY <1>6, <1>11, <1>13, <2>2
<1>15. PICK out : out = BestBeams(i)
  OBVIOUS
<1>16. out = [k \in 1..c |-> fs[s[k]]]
  BY <1>2, <1>4, <1>6, <1>12, <1>14, <1>15, BestBeamsIs DEF FirstOf
<1>17. Distinct(fs, n)
  <2>1. Different(list, done)
    BY <1>3 DEF Searches, Searched
  <2>2. PICK m \in Nat : m = Len(StartOf(i)) + Made(i)
    <3>1. Len(StartOf(i)) \in Nat /\ Made(i) \in Nat
      BY BeamsAre
    <3> QED BY <3>1
  <2>3. Even(list, m, Words) /\ Len(list) \in Nat
    <3>1. ASSUME NEW k \in 1..Len(list)
          PROVE  list[k].tokens \in Seq(Words) /\ Len(list[k].tokens) = m
      <4>1. list[k] \in Beam /\ Descends(list[k], StartOf(i), Made(i))
        BY <1>3, BeamsAre
      <4> QED BY <2>2, <4>1 DEF Beam, Descends
    <3>2. list \in Seq(Beam)
      BY <1>3, BeamsAre
    <3> QED BY <3>1, <3>2 DEF Even
  <2>4. Len(done) \in Nat
    <3>1. done \in Seq(Beam)
      BY <1>3, BeamsAre
    <3> QED BY <3>1
  <2>5. ASSUME NEW k \in 1..Len(done)
        PROVE  Len(done[k].tokens) \in Nat /\ Len(done[k].tokens) <= m
    <3>1. PICK l \in 1..Made(i) : Descends(done[k], StartOf(i), l)
      BY <1>3, BeamsAre
    <3>2. Len(StartOf(i)) \in Nat /\ Made(i) \in Nat
      BY BeamsAre
    <3> QED BY <2>2, <3>1, <3>2 DEF Descends
  <2>6. Apart(list)
    BY <1>3 DEF Base, Lineage, Traced
  <2>7. end \in Seq(ToSet(EndTokens))
    BY <1>1, <1>3, TheCall
  <2> QED BY <1>5, <2>1, <2>3, <2>4, <2>5, <2>6, <2>7, FinalsDistinct
<1>18. PICK r : r = [live |-> Real(list), ended |-> Real(done)]
  OBVIOUS
<1>19. Real(fs) = ClosedWith(r, end)
  <2>1. Len(list) \in Nat /\ Len(done) \in Nat
    <3>1. list \in Seq(Beam) /\ done \in Seq(Beam)
      BY <1>3, BeamsAre
    <3> QED BY <3>1
  <2> QED BY <1>5, <1>18, <2>1, FinalsReal
<1>20. PICK S, T : S = Real(fs) /\ T = {Seen(out[k]) : k \in 1..c}
  OBVIOUS
<1>21. T \in Bests(S, W, BetterOf(S)) /\ BestFirst(out, c)
  <2>1. \A k \in 1..c : out[k] = fs[s[k]]
    BY <1>16
  <2> QED BY <1>11, <1>12, <1>17, <1>20, <2>1, BestOnesAre
<1>22. DOMAIN out = 1..c
  BY <1>16
<1>23. BestOf(out, list, done, end, W)
  BY <1>18, <1>19, <1>20, <1>21, <1>22 DEF BestOf
<1> QED BY <1>2, <1>3, <1>15, <1>23

\* An answer says of its beams what they are ranked by.
LEMMA BestAlike ==
    ASSUME NEW out, NEW new, NEW list, NEW done, NEW end, NEW W,
           BestOf(out, list, done, end, W), DOMAIN new = DOMAIN out,
           \A k \in DOMAIN out : new[k].tokens = out[k].tokens /\ new[k].cum = out[k].cum
    PROVE  BestOf(new, list, done, end, W)
<1>1. PICK S : S = ClosedWith([live |-> Real(list), ended |-> Real(done)], end)
  OBVIOUS
<1>2. PICK c \in Nat : /\ DOMAIN out = 1..c /\ BestFirst(out, c)
                       /\ {Seen(out[k]) : k \in 1..c} \in Bests(S, W, BetterOf(S))
  BY <1>1 DEF BestOf
<1>3. \A k \in 1..c : new[k].tokens = out[k].tokens /\ new[k].cum = out[k].cum
  BY <1>2
<1>4. {Seen(new[k]) : k \in 1..c} = {Seen(out[k]) : k \in 1..c}
  BY <1>3 DEF Seen
<1>5. BestFirst(new, c)
  <2>1. ASSUME NEW k \in 1..c, NEW l \in 1..c, k < l
        PROVE  new[k].tokens # new[l].tokens /\ ~Better(new[l], new[k])
    <3>1. out[k].tokens # out[l].tokens /\ ~Better(out[l], out[k])
      BY <1>2, <2>1 DEF BestFirst
    <3>2. PICK a, b, x, y : a = out[l] /\ b = out[k] /\ x = new[l] /\ y = new[k]
      OBVIOUS
    <3>3. a.tokens = x.tokens /\ a.cum = x.cum /\ b.tokens = y.tokens /\ b.cum = y.cum
      BY <1>3, <3>2
    <3>4. ~Better(x, y)
      BY <3>1, <3>2, <3>3, BetterIs
    <3> QED BY <3>1, <3>2, <3>3, <3>4
  <2> QED BY <2>1 DEF BestFirst
<1>6. /\ DOMAIN new = 1..c
      /\ {Seen(new[k]) : k \in 1..c} \in Bests(S, W, BetterOf(S))
  BY <1>2, <1>4
<1> QED BY <1>1, <1>5, <1>6 DEF BestOf

Answered ==
    phase = "done" /\ Greedy => \A i \in 1..Len(Prompts) :
       BestOf(outputs[i], beams[i], completed[i], EndTokens, BeamWidth)

LEMMA FinishAnswered ==
    ASSUME Base, FiniteScores, Searches, Finish
    PROVE  Answered'
<1>1. /\ Shape /\ CallIn /\ call' = call /\ beams' = beams /\ completed' = completed
      /\ DOMAIN Prompts = 1..Len(Prompts)
  BY ThePrompts DEF Base, Shape, Control, Finish
<1>2. ASSUME Greedy, NEW i \in 1..Len(Prompts)
      PROVE  BestOf(outputs'[i], beams[i], completed[i], EndTokens, BeamWidth)
  <2>1. Made(i) = NumSteps
    BY <1>1, FinishMade
  <2>2. PICK out, new : out = BestBeams(i) /\ new = outputs'[i]
    OBVIOUS
  <2>3. BestOf(out, beams[i], completed[i], EndTokens, BeamWidth)
    BY <1>2, <2>1, <2>2, BestBeamsAlone
  <2>4. outputs'[i] = [k \in DOMAIN BestBeams(i) |->
                         [tokens |-> BestBeams(i)[k].tokens,
                          cum |-> BestBeams(i)[k].cum,
                          reason |-> BestBeams(i)[k].reason,
                          logprobs |-> Logprobs(BestBeams(i)[k])]]
    BY <1>1 DEF Finish
  <2>5. /\ DOMAIN new = DOMAIN out
        /\ \A k \in DOMAIN out : new[k].tokens = out[k].tokens /\ new[k].cum = out[k].cum
    BY <2>2, <2>4
  <2> QED BY <2>2, <2>3, <2>5, BestAlike
<1> QED BY <1>1, <1>2, SameCall DEF Answered

LEMMA AnsweredInvariant == Spec => []Answered
<1>1. Init => Answered
  BY DEF Init, Answered
<1>2. ASSUME Base, FiniteScores, Searches, Answered, [Next]_vars
      PROVE  Answered'
  <2>1. CASE Finish
    BY <1>2, <2>1, FinishAnswered
  <2>2. CASE UNCHANGED vars
    <3>1. call' = call /\ beams' = beams /\ completed' = completed /\ outputs' = outputs
          /\ phase' = phase
      BY <2>2 DEF vars
    <3> QED BY <1>2, <3>1, SameCall DEF Answered
  <2>3. CASE Generate \/ Select \/ NoLogprobs
    <3>1. phase' # "done"
      BY <2>3 DEF Generate, Select, NoLogprobs
    <3> QED BY <3>1 DEF Answered
  <2>4. CASE NextBatch
    <3>1. phase' = phase /\ phase = "generate"
      BY <2>4 DEF NextBatch, EndOfBatch
    <3> QED BY <3>1 DEF Answered
  <2>5. CASE Terminated
    BY <2>2, <2>5 DEF Terminated
  <2> QED BY <1>2, <2>1, <2>2, <2>3, <2>4, <2>5 DEF Next
<1>3. Base /\ FiniteScores /\ Searches /\ Answered /\ [Next]_vars => Answered'
  BY <1>2
<1> QED BY <1>1, <1>3, BaseInvariant, FiniteScoresInvariant, SearchesInvariant, PTL DEF Spec

\* However the prompts are put into batches and their beams strung together, at
\* temperature 0 every prompt is answered with the best sequences of its own
\* search, best first: each step that the batches make is one that the search
\* alone may make, and what is ranked in the end is what it has closed with.
THEOREM EveryPromptAsIfAlone == Spec => []AnswersAreOfTheSearchAlone
<1>1. ASSUME Base, Searches, Answered
      PROVE  AnswersAreOfTheSearchAlone
  <2> SUFFICES ASSUME phase = "done", Greedy, NEW i \in DOMAIN Prompts
               PROVE  /\ {[tokens |-> a.tokens, cum |-> a.cum] : a \in ToSet(outputs[i])}
                            \in Alone(i)
                      /\ \A k, l \in DOMAIN outputs[i] : k < l =>
                            /\ outputs[i][k] # outputs[i][l]
                            /\ ~Better(outputs[i][l], outputs[i][k])
    BY DEF AnswersAreOfTheSearchAlone
  <2>1. CallIn /\ Control /\ i \in 1..Len(Prompts)
    BY <1>1, ThePrompts DEF Base, Shape, Control
  <2>2. Made(i) = NumSteps /\ NumSteps \in Nat
    BY <2>1, TheCall DEF Control
  <2>3. PICK out, list, done : out = outputs[i] /\ list = beams[i] /\ done = completed[i]
    OBVIOUS
  <2>4. PICK r : r = [live |-> Real(list), ended |-> Real(done)]
    OBVIOUS
  <2>5. PICK S : S = Closed(r)
    OBVIOUS
  <2>6. ClosedWith(r, EndTokens) = S
    BY <2>5 DEF Closed, ClosedWith
  <2>7. PICK c \in Nat : /\ DOMAIN out = 1..c /\ BestFirst(out, c)
                         /\ {Seen(out[k]) : k \in 1..c} \in Bests(S, BeamWidth, BetterOf(S))
    <3>1. BestOf(out, list, done, EndTokens, BeamWidth)
      BY <1>1, <2>1, <2>3 DEF Answered
    <3> QED BY <2>4, <2>6, <3>1 DEF BestOf
  <2>8. PICK n \in Nat : n = NumSteps
    BY <2>2
  <2>9. PICK g : /\ Course(g, n, Start(i), Len(StartOf(i)), Prompts[i], said, BeamWidth,
                           IgnoreEos)
                 /\ g[n] = r
    BY <1>1, <2>1, <2>2, <2>3, <2>4, <2>8 DEF Searches, Searched
  <2>10. Bests(S, BeamWidth, BetterOf(S)) \subseteq Alone(i)
    BY <2>5, <2>8, <2>9, AloneHas
  <2>11. {[tokens |-> a.tokens, cum |-> a.cum] : a \in ToSet(out)}
            = {Seen(out[k]) : k \in 1..c}
    BY <2>7 DEF ToSet, Seen
  <2>12. ASSUME NEW k \in DOMAIN out, NEW l \in DOMAIN out, k < l
         PROVE  out[k] # out[l] /\ ~Better(out[l], out[k])
    BY <2>7, <2>12 DEF BestFirst
  <2> QED BY <2>3, <2>7, <2>10, <2>11, <2>12
<1> QED BY <1>1, BaseInvariant, SearchesInvariant, AnsweredInvariant, PTL

===============================================================================
