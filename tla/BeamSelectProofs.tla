--------------------------- MODULE BeamSelectProofs ---------------------------
(***************************************************************************)
(* Theorems about the selection of beam_search, for every vocabulary,      *)
(* width, length, catalog and whatever the model says in the course of a   *)
(* call.                                                                   *)
(*                                                                         *)
(* A step is taken apart once, in StepIs and GrownIs: there are data, the  *)
(* candidates e that end and the candidates t that top-n keeps (Selected), *)
(* and the tree, the beams and the completed ones grow by them (GrownTo).  *)
(* A candidate is named by its place among all of them; ParentOf and       *)
(* RankOf say whose it is, and the strides of the flat list lead back to   *)
(* the row vLLM returned for that beam (StepDataIs).                       *)
(*                                                                         *)
(* The rest follows candidates through that step.  Shape and TreeInv are   *)
(* what the other invariants stand on: beams of one level, parents before  *)
(* children, no finite score below what the call can spend.  Distinct,     *)
(* CatalogInv, EnoughInv and Family are each inductive beside them, and    *)
(* say what a beam is in terms of its parent; Finish is looked at once, in *)
(* AnsweredStep.                                                           *)
(***************************************************************************)
EXTENDS BeamSelect, SequenceFacts, FiniteSetTheorems, TLAPS

-----------------------------------------------------------------------------
(* The call *)

Entries == [token : Token, lp : Int]

\* What the assumptions say of the call that runs.
LEMMA TheCall ==
    ASSUME request \in DOMAIN Requests
    PROVE  /\ BeamWidth \in Nat /\ BeamWidth >= 1
           /\ BeamWidth + 1 <= Cardinality(Token) /\ Cardinality(Token) \in Nat
           /\ NumSteps \in Nat /\ MaxTokens \in Nat
           /\ NumSteps + Len(BeginTokens) + Len(EndTokens) = MaxTokens
           /\ BeginTokens \in Seq(ToSet(BeginTokens)) /\ EndTokens \in Seq(ToSet(EndTokens))
           /\ IgnoreEos \in BOOLEAN /\ IncludeStop \in BOOLEAN
           /\ Greedy \in BOOLEAN /\ HasCatalog \in BOOLEAN
<1>1. Requests[request] \in Range(Requests)
  BY DEF Range
<1>2. PICK r : r = Requests[request]
  OBVIOUS
<1>3. Cardinality(Token) \in Nat
  BY TokenAssumption, FS_CardinalityType
<1>4. /\ r.beam_width \in 1..(Cardinality(Token) - 1)
      /\ r.max_tokens \in Nat /\ StepsOfRequest(r) >= 0
      /\ {r.ignore_eos, r.include_stop_str_in_output, r.greedy, r.has_catalog}
            \subseteq BOOLEAN
  BY <1>1, <1>2, RequestAssumption
<1>5. /\ r.begin_token \in Seq(ToSet(r.begin_token)) /\ r.end_token \in Seq(ToSet(r.end_token))
  BY <1>1, <1>2, RequestAssumption
<1>6. Len(r.begin_token) \in Nat /\ Len(r.end_token) \in Nat
  BY <1>5
<1>7. /\ BeamWidth = r.beam_width /\ MaxTokens = r.max_tokens
      /\ BeginTokens = r.begin_token /\ EndTokens = r.end_token
      /\ IgnoreEos = r.ignore_eos /\ IncludeStop = r.include_stop_str_in_output
      /\ Greedy = r.greedy /\ HasCatalog = r.has_catalog
      /\ NumSteps = r.max_tokens - Len(r.begin_token) - Len(r.end_token)
      /\ StepsOfRequest(r) = r.max_tokens - Len(r.begin_token) - Len(r.end_token)
  BY <1>2 DEF BeamWidth, MaxTokens, BeginTokens, EndTokens, IgnoreEos, IncludeStop, Greedy,
              HasCatalog, NumSteps, StepsOfRequest
<1> QED BY <1>3, <1>4, <1>5, <1>6, <1>7

LEMMA LogProbsAre ==
    ASSUME request \in DOMAIN Requests, NEW f \in LogProbs
    PROVE  /\ f \in [Token -> Int]
           /\ \A t, u \in Token : f[t] = f[u] => t = u
           /\ \A t \in Token : f[t] <= 0 /\ NumSteps * f[t] > NegInf
           /\ NegInf \in Int /\ NegInf < 0
<1>1. Requests[request] \in Range(Requests)
  BY DEF Range
<1>2. f \in Requests[request].log_probs
  BY DEF LogProbs
<1>3. f \in [Token -> Int] /\ IsInjective(f)
  BY <1>1, <1>2, LogProbAssumption
<1>4. ASSUME NEW t \in Token PROVE f[t] <= 0 /\ NumSteps * f[t] > NegInf
  BY <1>1, <1>2, LogProbAssumption DEF NumSteps
<1>5. NegInf \in Int /\ NegInf < 0
  BY LogProbAssumption
<1> QED BY <1>3, <1>4, <1>5 DEF IsInjective

-----------------------------------------------------------------------------
(* The rows of the log-probabilities *)

\* The sampled token s, then the best tokens in order.
IsRow(row, f, s) ==
    /\ row \in Seq(Entries) /\ Len(row) = BeamWidth + 1
    /\ row[1] = Entry(f, s)
    /\ \A k \in 2..(BeamWidth + 1) : row[k].lp = f[row[k].token]
    /\ \A j, k \in 2..(BeamWidth + 1) : j < k => f[row[j].token] > f[row[k].token]
    /\ \A t \in Token : \/ \E k \in 2..(BeamWidth + 1) : row[k].token = t
                        \/ \A k \in 2..(BeamWidth + 1) : f[row[k].token] > f[t]

LEMMA RowIs ==
    ASSUME request \in DOMAIN Requests, NEW f \in LogProbs, NEW s \in Token
    PROVE  IsRow(Row(f, s), f, s)
<1>1. PICK W \in Nat : W = BeamWidth /\ W >= 1
  BY TheCall
<1>2. PICK n \in Nat : n = Cardinality(Token) /\ W + 1 <= n
  BY <1>1, TheCall
<1>3. f \in [Token -> Int] /\ \A t, u \in Token : f[t] = f[u] => t = u
  BY LogProbsAre
<1> DEFINE R == {p \in Token \X Token : f[p[1]] > f[p[2]]}
<1>4. \A t, u \in Token : <<t, u>> \in R <=> f[t] > f[u]
  OBVIOUS
<1>5. StrictOrder(Token, R)
  <2>1. ASSUME NEW x \in Token, NEW y \in Token, NEW z \in Token,
               <<x, y>> \in R, <<y, z>> \in R
        PROVE  <<x, z>> \in R
    <3>1. f[x] > f[y] /\ f[y] > f[z] /\ f[x] \in Int /\ f[y] \in Int /\ f[z] \in Int
      BY <1>3, <1>4, <2>1
    <3> QED BY <1>4, <3>1
  <2>2. ASSUME NEW x \in Token, NEW y \in Token, x # y PROVE <<x, y>> \in R \/ <<y, x>> \in R
    <3>1. f[x] # f[y] /\ f[x] \in Int /\ f[y] \in Int
      BY <1>3, <2>2
    <3> QED BY <1>4, <3>1
  <2>3. ASSUME NEW x \in Token PROVE <<x, x>> \notin R
    <3>1. f[x] \in Int
      BY <1>3
    <3> QED BY <1>4, <3>1
  <2> HIDE DEF R
  <2> QED BY <2>1, <2>2, <2>3 DEF StrictOrder
<1>6. PICK best : best = InOrder(Token, R)
  OBVIOUS
<1>7. Ordered(best, Token, R)
  <2> HIDE DEF R
  <2> QED BY <1>5, <1>6, TokenAssumption, InOrderIs
<1>8. /\ best \in [1..n -> Token]
      /\ \A x \in Token : \E k \in 1..n : best[k] = x
      /\ \A j, k \in 1..n : j < k => f[best[j]] > f[best[k]]
  BY <1>2, <1>4, <1>7 DEF Ordered
<1> DEFINE tail == [k \in 1..W |-> Entry(f, best[k])]
<1>9. ASSUME NEW k \in 1..W PROVE best[k] \in Token /\ tail[k] \in Entries
  <2>1. k \in 1..n
    BY <1>2
  <2>2. best[k] \in Token /\ f[best[k]] \in Int
    BY <1>3, <1>8, <2>1
  <2> QED BY <2>2 DEF Entries, Entry
<1>10. tail \in Seq(Entries) /\ Len(tail) = W
  <2> HIDE DEF tail
  <2>1. tail \in [1..W -> Entries]
    BY <1>9 DEF tail
  <2> QED BY <2>1
<1>11. Entry(f, s) \in Entries
  BY <1>3 DEF Entries, Entry
<1>12. PICK row : row = << Entry(f, s) >> \o tail
  OBVIOUS
<1>13. Row(f, s) = row
  BY <1>1, <1>6, <1>12 DEF Row, logprobs_num
<1>14. /\ row \in Seq(Entries) /\ Len(row) = W + 1
       /\ row[1] = Entry(f, s)
       /\ \A k \in 2..(W + 1) : row[k] = tail[k - 1]
  <2> HIDE DEF tail
  <2> QED BY <1>10, <1>11, <1>12
<1>15. ASSUME NEW k \in 2..(W + 1)
       PROVE  /\ k - 1 \in 1..W /\ k - 1 \in 1..n
              /\ row[k].token = best[k - 1] /\ row[k].lp = f[best[k - 1]]
  <2>1. k - 1 \in 1..W /\ k - 1 \in 1..n
    BY <1>2
  <2>2. row[k] = tail[k - 1]
    BY <1>14
  <2>3. tail[k - 1] = Entry(f, best[k - 1])
    BY <2>1
  <2>4. row[k].token = best[k - 1] /\ row[k].lp = f[best[k - 1]]
    BY <2>2, <2>3 DEF Entry
  <2> QED BY <2>1, <2>4
<1>16. ASSUME NEW j \in 2..(W + 1), NEW k \in 2..(W + 1), j < k
       PROVE  f[row[j].token] > f[row[k].token]
  <2>1. j - 1 < k - 1
    BY <1>16
  <2>2. j - 1 \in 1..n /\ k - 1 \in 1..n
    BY <1>15
  <2>3. f[best[j - 1]] > f[best[k - 1]]
    BY <1>8, <2>1, <2>2
  <2>4. row[j].token = best[j - 1] /\ row[k].token = best[k - 1]
    BY <1>15
  <2> QED BY <2>3, <2>4
<1>17. ASSUME NEW t \in Token, \A k \in 2..(W + 1) : row[k].token # t, NEW k \in 2..(W + 1)
       PROVE  f[row[k].token] > f[t]
  <2>1. PICK j \in 1..n : best[j] = t
    BY <1>8
  <2>2. ~(j <= W)
    <3> SUFFICES ASSUME j <= W PROVE FALSE
      OBVIOUS
    <3>1. j + 1 \in 2..(W + 1) /\ (j + 1) - 1 = j
      OBVIOUS
    <3> QED BY <1>15, <1>17, <2>1, <3>1
  <2>3. k - 1 < j
    BY <2>2
  <2> QED BY <1>8, <1>15, <2>1, <2>3
<1>18. IsRow(row, f, s)
  <2> HIDE DEF R, tail
  <2> QED BY <1>1, <1>14, <1>15, <1>16, <1>17 DEF IsRow
<1> QED BY <1>13, <1>18

\* What is left of a row: beam_width entries of different tokens.
Offered(d, f) ==
    /\ d \in Seq(Entries) /\ Len(d) = BeamWidth
    /\ \A k \in 1..BeamWidth : d[k].lp = f[d[k].token]
    /\ \A j, k \in 1..BeamWidth : d[j].token = d[k].token => j = k

\* No token that was left out is likelier than one that was not.
BestOffered(d, f) ==
    \A t \in Token : \/ \E k \in 1..BeamWidth : d[k].token = t
                     \/ \A k \in 1..BeamWidth : f[d[k].token] >= f[t]

LEMMA DedupIs ==
    ASSUME request \in DOMAIN Requests, NEW f \in LogProbs, NEW s \in MayBeSampled(f),
           NEW row, IsRow(row, f, s)
    PROVE  Offered(Dedup(row), f) /\ (Greedy => BestOffered(Dedup(row), f))
<1>1. PICK W \in Nat : W = BeamWidth /\ W >= 1
  BY TheCall
<1>2. f \in [Token -> Int] /\ \A t, u \in Token : f[t] = f[u] => t = u
  BY LogProbsAre
<1>3. s \in Token /\ (Greedy => \A u \in Token : f[u] <= f[s])
  BY DEF MayBeSampled
<1>4. /\ row \in Seq(Entries) /\ Len(row) = W + 1
      /\ row[1] = Entry(f, s)
      /\ \A k \in 2..(W + 1) : row[k].lp = f[row[k].token]
      /\ \A j, k \in 2..(W + 1) : j < k => f[row[j].token] > f[row[k].token]
      /\ \A t \in Token : \/ \E k \in 2..(W + 1) : row[k].token = t
                          \/ \A k \in 2..(W + 1) : f[row[k].token] > f[t]
  BY <1>1 DEF IsRow
<1>5. row[1].token = s /\ row[1].lp = f[s]
  BY <1>4 DEF Entry
<1>6. \A k \in 1..(W + 1) : row[k] \in Entries /\ row[k].token \in Token /\ f[row[k].token] \in Int
  <2> SUFFICES ASSUME NEW k \in 1..(W + 1)
               PROVE  row[k] \in Entries /\ row[k].token \in Token /\ f[row[k].token] \in Int
    OBVIOUS
  <2>1. row[k] \in Entries
    BY <1>4
  <2>2. row[k].token \in Token
    BY <2>1 DEF Entries
  <2> QED BY <1>2, <2>1, <2>2
<1>7. CASE \E j \in 2..(W + 1) : row[j].token = row[1].token
  <2>1. PICK d : d = SubSeq(row, 2, W + 1)
    OBVIOUS
  <2>2. d \in Seq(Entries) /\ Len(d) = W /\ \A k \in 1..W : d[k] = row[k + 1]
    BY <1>4, <2>1
  <2>3. Dedup(row) = d
    BY <1>1, <1>4, <1>7, <2>1 DEF Dedup, logprobs_num
  <2>4. \A k \in 1..W : k + 1 \in 2..(W + 1) /\ k + 1 \in 1..(W + 1)
    OBVIOUS
  <2>5. \A k \in 1..W : d[k].lp = f[d[k].token]
    BY <1>4, <2>2, <2>4
  <2>6. ASSUME NEW j \in 1..W, NEW k \in 1..W, d[j].token = d[k].token PROVE j = k
    <3>1. row[j + 1].token = row[k + 1].token /\ f[row[j + 1].token] \in Int
      BY <1>6, <2>2, <2>4, <2>6
    <3>2. ~(j + 1 < k + 1) /\ ~(k + 1 < j + 1)
      BY <1>4, <2>4, <3>1
    <3> QED BY <3>2
  <2>7. BestOffered(d, f)
    <3> SUFFICES ASSUME NEW t \in Token, \A k \in 1..W : d[k].token # t, NEW k \in 1..W
                 PROVE  f[d[k].token] >= f[t]
      BY <1>1 DEF BestOffered
    <3>1. \A j \in 2..(W + 1) : row[j].token # t
      <4> SUFFICES ASSUME NEW j \in 2..(W + 1) PROVE row[j].token # t
        OBVIOUS
      <4>1. j - 1 \in 1..W /\ (j - 1) + 1 = j
        OBVIOUS
      <4> QED BY <2>2, <4>1
    <3>2. f[row[k + 1].token] > f[t]
      BY <1>4, <2>4, <3>1
    <3>3. f[row[k + 1].token] \in Int /\ f[t] \in Int
      BY <1>2, <1>6, <2>4
    <3> QED BY <2>2, <3>2, <3>3
  <2> QED BY <1>1, <2>2, <2>3, <2>5, <2>6, <2>7 DEF Offered
<1>8. CASE \A j \in 2..(W + 1) : row[j].token # row[1].token
  <2>1. PICK d : d = SubSeq(row, 1, W)
    OBVIOUS
  <2>2. d \in Seq(Entries) /\ Len(d) = W /\ \A k \in 1..W : d[k] = row[k]
    BY <1>4, <2>1
  <2>3. Dedup(row) = d
    BY <1>1, <1>4, <1>8, <2>1 DEF Dedup, logprobs_num
  <2>4. \A k \in 1..W : k = 1 \/ k \in 2..(W + 1)
    OBVIOUS
  <2>5. \A k \in 1..W : d[k].lp = f[d[k].token]
    BY <1>4, <1>5, <2>2, <2>4
  <2>6. ASSUME NEW j \in 1..W, NEW k \in 1..W, d[j].token = d[k].token PROVE j = k
    <3>1. row[j].token = row[k].token
      BY <2>2, <2>6
    <3>2. CASE j = 1 \/ k = 1
      BY <1>8, <2>4, <3>1, <3>2
    <3>3. CASE j # 1 /\ k # 1
      <4>1. j \in 2..(W + 1) /\ k \in 2..(W + 1) /\ j \in 1..(W + 1)
        BY <3>3
      <4>2. ~(j < k) /\ ~(k < j)
        <5>1. f[row[j].token] \in Int
          BY <1>6, <4>1
        <5> QED BY <1>4, <3>1, <4>1, <5>1
      <4> QED BY <4>2
    <3> QED BY <3>2, <3>3
  <2>7. ~Greedy
    <3> SUFFICES ASSUME Greedy PROVE FALSE
      OBVIOUS
    <3>1. 2 \in 2..(W + 1) /\ 2 \in 1..(W + 1)
      BY <1>1
    <3>2. f[row[2].token] > f[s]
      BY <1>3, <1>4, <1>5, <1>8, <3>1
    <3>3. f[row[2].token] <= f[s]
      BY <1>3, <1>6, <3>1
    <3> QED BY <1>2, <1>3, <1>6, <3>1, <3>2, <3>3
  <2> QED BY <1>1, <2>2, <2>3, <2>5, <2>6, <2>7 DEF Offered
<1> QED BY <1>7, <1>8

-----------------------------------------------------------------------------
(* The candidates *)

\* What a beam's row offers, after the catalog's filter.
ScoredBy(d, b, f) ==
    /\ d \in Seq(Entries) /\ Len(d) = BeamWidth
    /\ \A k \in 1..BeamWidth :
          d[k].lp = IF HasCatalog /\ d[k].token \notin Valid(tree[all_beams[b]].tokens)
                    THEN NegInf ELSE f[d[k].token]
    /\ \A j, k \in 1..BeamWidth : d[j].token = d[k].token => j = k
    /\ Greedy => BestOffered(d, f)

LEMMA MaskedIs ==
    ASSUME request \in DOMAIN Requests, NEW f \in LogProbs, NEW b, NEW d, Offered(d, f),
           Greedy => BestOffered(d, f)
    PROVE  ScoredBy(Masked(d, b), b, f)
<1>1. PICK W \in Nat : W = BeamWidth
  BY TheCall
<1>2. PICK e : e = Masked(d, b)
  OBVIOUS
<1>3. d \in Seq(Entries) /\ Len(d) = W
  BY <1>1 DEF Offered
<1> DEFINE valid == Valid(tree[all_beams[b]].tokens)
<1>4. e = [k \in DOMAIN d |-> IF HasCatalog /\ d[k].token \notin valid
                              THEN [d[k] EXCEPT !.lp = NegInf] ELSE d[k]]
  BY <1>2 DEF Masked
<1> HIDE DEF valid
<1>5. ASSUME NEW k \in 1..W
      PROVE  /\ e[k] \in Entries /\ e[k].token = d[k].token
             /\ e[k].lp = IF HasCatalog /\ d[k].token \notin valid THEN NegInf ELSE d[k].lp
  <2>1. d[k] \in Entries /\ k \in DOMAIN d
    BY <1>3
  <2>2. NegInf \in Int
    BY LogProbAssumption
  <2>3. CASE HasCatalog /\ d[k].token \notin valid
    <3>1. e[k] = [d[k] EXCEPT !.lp = NegInf]
      BY <1>4, <2>1, <2>3
    <3> QED BY <2>1, <2>2, <2>3, <3>1 DEF Entries
  <2>4. CASE ~(HasCatalog /\ d[k].token \notin valid)
    <3>1. e[k] = d[k]
      BY <1>4, <2>1, <2>4
    <3> QED BY <2>1, <2>4, <3>1
  <2> QED BY <2>3, <2>4
<1>6. e \in Seq(Entries) /\ Len(e) = W
  <2>1. DOMAIN d = 1..W
    BY <1>3
  <2>2. e = [k \in 1..W |-> e[k]]
    BY <1>4, <2>1
  <2>3. e \in [1..W -> Entries]
    BY <1>5, <2>2
  <2> QED BY <2>3
<1>7. \A k \in 1..W : d[k].lp = f[d[k].token]
  BY <1>1 DEF Offered
<1>8. \A k \in 1..W : e[k].lp = IF HasCatalog /\ e[k].token \notin valid
                                THEN NegInf ELSE f[e[k].token]
  BY <1>5, <1>7
<1>9. \A j, k \in 1..W : e[j].token = e[k].token => j = k
  BY <1>1, <1>5 DEF Offered
<1>10. Greedy => BestOffered(e, f)
  BY <1>1, <1>5 DEF BestOffered
<1> QED BY <1>1, <1>2, <1>6, <1>8, <1>9, <1>10 DEF ScoredBy, valid

\* The flat list is cut where it was put together.
LEMMA StepDataIs ==
    ASSUME request \in DOMAIN Requests, all_beams \in Seq(Nat), Len(all_beams) >= 1,
           NEW f \in [DOMAIN all_beams -> LogProbs],
           NEW sampled \in [DOMAIN all_beams -> Token],
           \A b \in DOMAIN all_beams : sampled[b] \in MayBeSampled(f[b]),
           NEW data,
           data = StepData(FlattenSeq([b \in DOMAIN all_beams |-> Row(f[b], sampled[b])]))
    PROVE  /\ data = [b \in 1..Len(all_beams) |-> data[b]]
           /\ \A b \in 1..Len(all_beams) : ScoredBy(data[b], b, f[b])
<1>1. PICK W \in Nat : W = BeamWidth /\ W >= 1
  BY TheCall
<1>2. PICK B \in Nat : B = Len(all_beams) /\ B >= 1 /\ DOMAIN all_beams = 1..B
  OBVIOUS
<1> DEFINE rows == [b \in 1..B |-> Row(f[b], sampled[b])]
<1>3. ASSUME NEW b \in 1..B
      PROVE  /\ f[b] \in LogProbs /\ sampled[b] \in Token
             /\ sampled[b] \in MayBeSampled(f[b])
             /\ rows[b] \in Seq(Entries) /\ Len(rows[b]) = W + 1
             /\ IsRow(rows[b], f[b], sampled[b])
  <2>1. f[b] \in LogProbs /\ sampled[b] \in Token /\ sampled[b] \in MayBeSampled(f[b])
    BY <1>2
  <2>2. IsRow(rows[b], f[b], sampled[b])
    BY <2>1, RowIs
  <2> QED BY <1>1, <2>1, <2>2 DEF IsRow
<1>4. rows \in Seq(Seq(Entries)) /\ Len(rows) = B
  <2>1. rows \in [1..B -> Seq(Entries)]
    BY <1>3
  <2> HIDE DEF rows
  <2> QED BY <2>1
<1>5. PICK flat : flat = FlattenSeq(rows)
  OBVIOUS
<1>6. data = StepData(flat)
  BY <1>2, <1>5
<1> HIDE DEF rows
<1>7. EvenlyCut(flat, rows, W + 1) /\ flat \in Seq(Entries)
  <2>1. W + 1 \in Nat /\ \A b \in 1..Len(rows) : Len(rows[b]) = W + 1
    BY <1>3, <1>4
  <2> QED BY <1>4, <1>5, <2>1, FlattenEven, FlattenType
<1>8. Len(flat) \div Len(all_beams) = W + 1
  <2>1. Len(flat) = B * (W + 1)
    BY <1>4, <1>7 DEF EvenlyCut
  <2>2. PICK n \in Nat : n = B * (W + 1)
    OBVIOUS
  <2>3. n = (W + 1) * B + 0 /\ 0 \in 0..(B - 1) /\ W + 1 \in Nat /\ B \in Nat \ {0}
    BY <1>2, <2>2
  <2>4. n \div B = W + 1
    BY <2>3, Quotient
  <2> QED BY <1>2, <2>1, <2>2, <2>4
<1>9. ASSUME NEW b \in 1..B PROVE Segment(flat, b) = Dedup(rows[b])
  <2>1. PICK d \in Nat : d = W + 1
    OBVIOUS
  <2>2. PICK x \in Nat : x = (b - 1) * d /\ b * d = x + d
    BY Steps
  <2>3. Len(flat) = B * d /\ \A k \in 1..d : flat[x + k] = rows[b][k]
    BY <1>4, <1>7, <2>1, <2>2 DEF EvenlyCut
  <2>4. PICK y \in Nat : y = B * d
    OBVIOUS
  <2>5. x + d <= y
    BY <2>2, <2>4, Below2
  <2>6. rows[b] \in Seq(Entries) /\ Len(rows[b]) = d
    BY <1>3, <2>1
  <2>7. SubSeq(flat, x + 1, x + Len(rows[b])) = rows[b]
    <3>1. /\ flat \in Seq(Entries) /\ x + Len(rows[b]) <= Len(flat)
          /\ \A j \in 1..Len(rows[b]) : flat[x + j] = rows[b][j]
      BY <1>7, <2>3, <2>4, <2>5, <2>6
    <3> QED BY <2>6, <3>1, CutIs
  <2>8. Len(flat) \div Len(all_beams) = d
    BY <1>8, <2>1
  <2> QED BY <2>2, <2>6, <2>7, <2>8 DEF Segment
<1>10. data = [b \in 1..B |-> Masked(Segment(flat, b), b)]
  BY <1>2, <1>6 DEF StepData
<1>11. ASSUME NEW b \in 1..B PROVE ScoredBy(data[b], b, f[b])
  <2>1. Offered(Dedup(rows[b]), f[b]) /\ (Greedy => BestOffered(Dedup(rows[b]), f[b]))
    BY <1>3, DedupIs
  <2>2. ScoredBy(Masked(Dedup(rows[b]), b), b, f[b])
    BY <1>3, <2>1, MaskedIs
  <2> QED BY <1>9, <1>10, <2>2
<1> QED BY <1>2, <1>10, <1>11

-----------------------------------------------------------------------------
(* Where a candidate comes from *)

\* The place of the k-th candidate of beam b, and back.
Place(b, k) == (b - 1) * BeamWidth + k
RankOf(i) == i - (ParentOf(i) - 1) * BeamWidth

LEMMA PlaceIs ==
    ASSUME request \in DOMAIN Requests, NEW B \in Nat, NEW b \in 1..B, NEW k \in 1..BeamWidth
    PROVE  /\ Place(b, k) \in 1..(B * BeamWidth)
           /\ ParentOf(Place(b, k)) = b
           /\ RankOf(Place(b, k)) = k
<1>1. BeamWidth \in Nat \ {0}
  BY TheCall
<1>2. Place(b, k) = PlaceAt(BeamWidth, b, k)
  BY DEF Place, PlaceAt
<1>3. /\ ParentOf(Place(b, k)) = OwnerAt(BeamWidth, Place(b, k))
      /\ RankOf(Place(b, k)) = RankAt(BeamWidth, Place(b, k))
  BY DEF ParentOf, RankOf, logprobs_num, OwnerAt, RankAt
<1>4. /\ PlaceAt(BeamWidth, b, k) \in 1..(B * BeamWidth)
      /\ OwnerAt(BeamWidth, PlaceAt(BeamWidth, b, k)) = b
      /\ RankAt(BeamWidth, PlaceAt(BeamWidth, b, k)) = k
  BY <1>1, PlaceAtIs
<1> QED BY <1>2, <1>3, <1>4

LEMMA PlaceOf ==
    ASSUME request \in DOMAIN Requests, NEW B \in Nat, NEW i \in 1..(B * BeamWidth)
    PROVE  /\ ParentOf(i) \in 1..B /\ RankOf(i) \in 1..BeamWidth
           /\ Place(ParentOf(i), RankOf(i)) = i
<1>1. BeamWidth \in Nat \ {0}
  BY TheCall
<1>2. /\ ParentOf(i) = OwnerAt(BeamWidth, i) /\ RankOf(i) = RankAt(BeamWidth, i)
      /\ Place(ParentOf(i), RankOf(i)) = PlaceAt(BeamWidth, ParentOf(i), RankOf(i))
  BY DEF Place, ParentOf, RankOf, logprobs_num, PlaceAt, OwnerAt, RankAt
<1>3. /\ OwnerAt(BeamWidth, i) \in 1..B /\ RankAt(BeamWidth, i) \in 1..BeamWidth
      /\ PlaceAt(BeamWidth, OwnerAt(BeamWidth, i), RankAt(BeamWidth, i)) = i
  BY <1>1, PlaceAtOf
<1> QED BY <1>2, <1>3

-----------------------------------------------------------------------------
(* The shape of the state *)

Node == [parent : Nat, data : Seq(Entries), tokens : Seq(Token \cup ToSet(BeginTokens)),
         cum : Int, reason : {"length", "stop"}]

Shape ==
    /\ request \in DOMAIN Requests
    /\ token \in 0..NumSteps
    /\ phase \in {"loop", "done"}
    /\ tree \in Seq(Node)
    /\ all_beams \in Seq(1..Len(tree))
    /\ Len(all_beams) = IF token = 0 THEN 1 ELSE BeamWidth
    /\ completed \in Seq(1..Len(tree))
    /\ \A b \in 1..Len(all_beams) : tree[all_beams[b]].reason = "length"
    /\ \A k \in 1..Len(completed) : tree[completed[k]].reason = "stop"

LEMMA ShapeFacts ==
    ASSUME Shape
    PROVE  /\ Len(all_beams) \in Nat /\ Len(all_beams) >= 1
           /\ Len(all_beams) <= BeamWidth
           /\ DOMAIN all_beams = 1..Len(all_beams)
           /\ DOMAIN completed = 1..Len(completed) /\ Len(completed) \in Nat
           /\ DOMAIN tree = 1..Len(tree) /\ Len(tree) \in Nat
           /\ \A b \in 1..Len(all_beams) : /\ all_beams[b] \in 1..Len(tree)
                                           /\ tree[all_beams[b]] \in Node
                                           /\ tree[all_beams[b]].cum \in Int
           /\ \A k \in 1..Len(completed) : completed[k] \in 1..Len(tree)
           /\ \A n \in 1..Len(tree) : tree[n] \in Node /\ tree[n].cum \in Int
<1>1. PICK W \in Nat : W = BeamWidth /\ W >= 1
  BY TheCall DEF Shape
<1>2. PICK B \in Nat, n \in Nat : B = Len(all_beams) /\ n = Len(tree)
  BY DEF Shape
<1>3. B = IF token = 0 THEN 1 ELSE W
  BY <1>1, <1>2 DEF Shape
<1>4. \A m \in 1..n : tree[m] \in Node
  BY <1>2 DEF Shape
<1>5. \A m \in 1..n : tree[m].cum \in Int
  BY <1>4 DEF Node
<1>6. \A b \in 1..B : all_beams[b] \in 1..n
  BY <1>2 DEF Shape
<1>7. DOMAIN all_beams = 1..B /\ DOMAIN tree = 1..n
  <2>1. all_beams \in Seq(1..n)
    BY <1>2 DEF Shape
  <2>2. tree \in Seq(Node)
    BY DEF Shape
  <2>3. DOMAIN all_beams = 1..B
    BY <1>2, <2>1
  <2>4. DOMAIN tree = 1..n
    BY <1>2, <2>2
  <2> QED BY <2>3, <2>4
<1>8. completed \in Seq(1..n)
  BY <1>2 DEF Shape
<1>9. /\ DOMAIN completed = 1..Len(completed) /\ Len(completed) \in Nat
      /\ \A k \in 1..Len(completed) : completed[k] \in 1..n
  BY <1>8
<1> QED BY <1>1, <1>2, <1>3, <1>4, <1>5, <1>6, <1>7, <1>9

\* Of the candidates in their places: the token, what the beam scores with it,
\* whether it ends there, and the score that top-n sees.
TokenAt(data, i) == data[ParentOf(i)][RankOf(i)].token
ScoreAt(data, i) == Plus(tree[all_beams[ParentOf(i)]].cum, data[ParentOf(i)][RankOf(i)].lp)
EndsAt(data, i) == ~IgnoreEos /\ TokenAt(data, i) = Eos
KeptScoreAt(data, i) == IF EndsAt(data, i) THEN NegInf ELSE ScoreAt(data, i)

Places == 1..(Len(all_beams) * BeamWidth)

Cand == [token : Token, cum : Int]

CandidatesAre(c, data) ==
    /\ c \in Seq(Cand) /\ Len(c) = Len(all_beams) * BeamWidth
    /\ \A i \in Places : c[i].token = TokenAt(data, i) /\ c[i].cum = ScoreAt(data, i)

LEMMA PlusType ==
    ASSUME NEW x \in Int, NEW y \in Int
    PROVE  Plus(x, y) \in Int
<1>1. NegInf \in Int
  BY LogProbAssumption
<1> QED BY <1>1 DEF Plus

LEMMA CandidatesIs ==
    ASSUME Shape, NEW data, NEW f,
           \A b \in 1..Len(all_beams) : ScoredBy(data[b], b, f[b])
    PROVE  CandidatesAre(Candidates(data), data)
<1>1. PICK W \in Nat : W = BeamWidth /\ W >= 1
  BY TheCall DEF Shape
<1>2. PICK B \in Nat : B = Len(all_beams) /\ B >= 1 /\ DOMAIN all_beams = 1..B
  BY ShapeFacts
<1>3. ASSUME NEW b \in 1..B
      PROVE  data[b] \in Seq(Entries) /\ Len(data[b]) = W /\ DOMAIN data[b] = 1..W
  <2>1. data[b] \in Seq(Entries) /\ Len(data[b]) = W
    BY <1>1, <1>2 DEF ScoredBy
  <2> QED BY <2>1
<1> DEFINE one(b, k) == [token |-> data[b][k].token,
                         cum |-> Plus(tree[all_beams[b]].cum, data[b][k].lp)]
           part(b) == [k \in 1..W |-> one(b, k)]
           parts == [b \in 1..B |-> part(b)]
<1>4. ASSUME NEW b \in 1..B, NEW k \in 1..W PROVE one(b, k) \in Cand
  <2>1. data[b][k] \in Entries
    BY <1>3
  <2>2. data[b][k].token \in Token /\ data[b][k].lp \in Int
    BY <2>1 DEF Entries
  <2>3. tree[all_beams[b]].cum \in Int
    BY <1>2, ShapeFacts
  <2>4. Plus(tree[all_beams[b]].cum, data[b][k].lp) \in Int
    BY <2>2, <2>3, PlusType
  <2> QED BY <2>2, <2>4 DEF Cand
<1>5. ASSUME NEW b \in 1..B
      PROVE  /\ parts[b] \in Seq(Cand) /\ Len(parts[b]) = W
             /\ \A k \in 1..W : parts[b][k] = one(b, k)
             /\ parts[b] = [k \in DOMAIN data[b] |-> one(b, k)]
  <2>1. parts[b] = part(b) /\ \A k \in 1..W : parts[b][k] = one(b, k)
    OBVIOUS
  <2>2. parts[b] = [k \in 1..W |-> one(b, k)]
    OBVIOUS
  <2>3. parts[b] = [k \in DOMAIN data[b] |-> one(b, k)]
    BY <1>3, <2>2
  <2> HIDE DEF one, parts
  <2>4. parts[b] \in [1..W -> Cand]
    BY <1>4, <2>2
  <2>5. parts[b] \in Seq(Cand) /\ Len(parts[b]) = W
    BY <2>4
  <2> QED BY <2>1, <2>3, <2>5
<1>6. parts = [b \in 1..B |-> [k \in DOMAIN data[b] |-> one(b, k)]]
  <2>1. parts = [b \in 1..B |-> parts[b]]
    OBVIOUS
  <2> HIDE DEF one, parts
  <2> QED BY <1>5, <2>1
<1>7. Candidates(data) = FlattenSeq(parts)
  <2> HIDE DEF parts
  <2> QED BY <1>2, <1>6 DEF Candidates
<1>8. parts \in Seq(Seq(Cand)) /\ Len(parts) = B
  <2>1. parts = [b \in 1..B |-> parts[b]]
    OBVIOUS
  <2> HIDE DEF one, parts
  <2>2. parts \in [1..B -> Seq(Cand)]
    BY <1>5, <2>1
  <2> QED BY <2>2
<1>9. PICK c : c = FlattenSeq(parts)
  OBVIOUS
<1>10. c \in Seq(Cand) /\ Len(c) = B * W
       /\ \A b \in 1..B : \A k \in 1..W : c[(b - 1) * W + k] = one(b, k)
  <2> HIDE DEF one, parts
  <2>1. \A b \in 1..Len(parts) : Len(parts[b]) = W
    BY <1>5, <1>8
  <2>2. EvenlyCut(c, parts, W)
    BY <1>8, <1>9, <2>1, FlattenEven
  <2>3. c \in Seq(Cand)
    BY <1>8, <1>9, FlattenType
  <2>4. Len(c) = B * W
    BY <1>8, <2>2 DEF EvenlyCut
  <2>5. ASSUME NEW b \in 1..B, NEW k \in 1..W PROVE c[(b - 1) * W + k] = one(b, k)
    <3>1. c[(b - 1) * W + k] = parts[b][k]
      BY <1>8, <2>2 DEF EvenlyCut
    <3> QED BY <1>5, <3>1
  <2> QED BY <2>3, <2>4, <2>5
<1>11. ASSUME NEW i \in Places
       PROVE  c[i].token = TokenAt(data, i) /\ c[i].cum = ScoreAt(data, i)
  <2>1. i \in 1..(B * BeamWidth)
    BY <1>2 DEF Places
  <2>2. request \in DOMAIN Requests
    BY DEF Shape
  <2>3. PICK b \in 1..B, k \in 1..BeamWidth :
            b = ParentOf(i) /\ k = RankOf(i) /\ Place(b, k) = i
    BY <2>1, <2>2, PlaceOf
  <2>4. i = (b - 1) * W + k /\ k \in 1..W
    BY <1>1, <2>3 DEF Place
  <2>5. c[i] = one(b, k)
    BY <1>10, <2>4
  <2> QED BY <2>3, <2>5 DEF TokenAt, ScoreAt
<1> QED BY <1>1, <1>2, <1>7, <1>9, <1>10, <1>11 DEF CandidatesAre

\* The candidates that end.
LEMMA EosIdxIs ==
    ASSUME Shape, NEW data, NEW c, CandidatesAre(c, data)
    PROVE  /\ EosIdx(c) \in Seq(Places)
           /\ \A j, k \in 1..Len(EosIdx(c)) : EosIdx(c)[j] = EosIdx(c)[k] => j = k
           /\ \A i \in Places :
                 (\E k \in 1..Len(EosIdx(c)) : EosIdx(c)[k] = i) <=> EndsAt(data, i)
<1>1. PICK C \in Nat : C = Len(all_beams) * BeamWidth
  <2>1. Len(all_beams) \in Nat /\ BeamWidth \in Nat
    BY TheCall, ShapeFacts DEF Shape
  <2> QED BY <2>1
<1>2. DOMAIN c = 1..C /\ Places = 1..C
  BY <1>1 DEF CandidatesAre, Places
<1> DEFINE ends == {i \in 1..C : ~IgnoreEos /\ c[i].token = Eos}
           R == {p \in ends \X ends : p[1] < p[2]}
<1>3. EosIdx(c) = InOrder(ends, R)
  BY <1>2 DEF EosIdx
<1>4. \A i \in 1..C : i \in ends <=> EndsAt(data, i)
  BY <1>2 DEF CandidatesAre, EndsAt
<1>5. IsFiniteSet(ends) /\ ends \in SUBSET (1..C)
  <2>1. IsFiniteSet(1..C)
    BY FS_Interval
  <2> QED BY <2>1, FS_Subset
<1>6. \A x, y \in ends : <<x, y>> \in R <=> x < y
  OBVIOUS
<1> HIDE DEF R
<1>7. StrictOrder(ends, R)
  <2>1. \A x \in ends : x \in Int
    BY <1>5
  <2> HIDE DEF ends
  <2> QED BY <1>6, <2>1 DEF StrictOrder
<1> HIDE DEF ends
<1>8. Ordered(InOrder(ends, R), ends, R)
  BY <1>5, <1>7, InOrderIs
<1>9. PICK n \in Nat : n = Cardinality(ends)
  BY <1>5, FS_CardinalityType
<1>10. PICK e : e = EosIdx(c)
  OBVIOUS
<1>11. /\ e \in [1..n -> ends]
       /\ \A x \in ends : \E k \in 1..n : e[k] = x
       /\ \A j, k \in 1..n : e[j] = e[k] => j = k
  BY <1>3, <1>8, <1>9, <1>10 DEF Ordered
<1>12. e \in Seq(Places) /\ Len(e) = n
  <2>1. e \in [1..n -> 1..C]
    BY <1>5, <1>11
  <2> QED BY <1>2, <2>1
<1>13. \A i \in Places : (\E k \in 1..n : e[k] = i) <=> EndsAt(data, i)
  BY <1>2, <1>4, <1>11
<1> QED BY <1>10, <1>11, <1>12, <1>13

-----------------------------------------------------------------------------
(* A step of the search, candidate by candidate *)

\* e are the candidates that end, t those that top-n keeps.
Selected(data, e, t) ==
    /\ e \in Seq(Places)
    /\ \A j, k \in 1..Len(e) : e[j] = e[k] => j = k
    /\ \A i \in Places : (\E k \in 1..Len(e) : e[k] = i) <=> EndsAt(data, i)
    /\ t \in [1..BeamWidth -> Places]
    /\ \A j, k \in 1..BeamWidth : t[j] = t[k] => j = k
    /\ \A i \in Places : (\A k \in 1..BeamWidth : t[k] # i) =>
          \A k \in 1..BeamWidth : KeptScoreAt(data, i) <= KeptScoreAt(data, t[k])

EosNode(data, i) ==
    [parent |-> all_beams[ParentOf(i)], data |-> data[ParentOf(i)],
     tokens |-> IF IncludeStop THEN Append(tree[all_beams[ParentOf(i)]].tokens, Eos)
                ELSE tree[all_beams[ParentOf(i)]].tokens,
     cum |-> ScoreAt(data, i), reason |-> "stop"]

KeptNode(data, i) ==
    [parent |-> all_beams[ParentOf(i)], data |-> data[ParentOf(i)],
     tokens |-> Append(tree[all_beams[ParentOf(i)]].tokens, TokenAt(data, i)),
     cum |-> KeptScoreAt(data, i), reason |-> "length"]

LEMMA WithoutEosIs ==
    ASSUME Shape, NEW data, NEW c, CandidatesAre(c, data)
    PROVE  /\ WithoutEos(c) = [i \in Places |-> WithoutEos(c)[i]]
           /\ DOMAIN WithoutEos(c) = Places /\ Len(WithoutEos(c)) = Len(c)
           /\ \A i \in Places : /\ WithoutEos(c)[i].token = TokenAt(data, i)
                                /\ WithoutEos(c)[i].cum = KeptScoreAt(data, i)
<1>1. PICK C \in Nat : C = Len(all_beams) * BeamWidth
  <2>1. Len(all_beams) \in Nat /\ BeamWidth \in Nat
    BY TheCall, ShapeFacts DEF Shape
  <2> QED BY <2>1
<1>2. Places = 1..C /\ Len(c) = C /\ c \in Seq(Cand)
  BY <1>1 DEF Places, CandidatesAre
<1>3. DOMAIN c = Places
  BY <1>2
<1>4. PICK m : m = WithoutEos(c)
  OBVIOUS
<1>5. m = [i \in Places |-> IF i \in ToSet(EosIdx(c)) THEN [c[i] EXCEPT !.cum = NegInf]
                            ELSE c[i]]
  BY <1>3, <1>4 DEF WithoutEos
<1>6. ASSUME NEW i \in Places
      PROVE  m[i].token = TokenAt(data, i) /\ m[i].cum = KeptScoreAt(data, i)
  <2>1. c[i] \in Cand /\ c[i].token = TokenAt(data, i) /\ c[i].cum = ScoreAt(data, i)
    BY <1>2 DEF CandidatesAre
  <2>2. i \in ToSet(EosIdx(c)) <=> EndsAt(data, i)
    <3>1. DOMAIN EosIdx(c) = 1..Len(EosIdx(c))
      <4>1. EosIdx(c) \in Seq(Places)
        BY EosIdxIs
      <4> QED BY <4>1
    <3>2. i \in ToSet(EosIdx(c)) <=> \E k \in 1..Len(EosIdx(c)) : EosIdx(c)[k] = i
      BY <3>1 DEF ToSet
    <3> QED BY <3>2, EosIdxIs
  <2>3. CASE EndsAt(data, i)
    <3>1. m[i] = [c[i] EXCEPT !.cum = NegInf]
      BY <1>5, <2>2, <2>3
    <3> QED BY <2>1, <2>3, <3>1 DEF KeptScoreAt, Cand
  <2>4. CASE ~EndsAt(data, i)
    <3>1. m[i] = c[i]
      BY <1>5, <2>2, <2>4
    <3> QED BY <2>1, <2>4, <3>1 DEF KeptScoreAt
  <2> QED BY <2>3, <2>4
<1>7. DOMAIN m = 1..C
  BY <1>2, <1>5
<1>8. Len(m) = C
  BY <1>5, <1>2
<1>9. m = [i \in Places |-> m[i]]
  BY <1>5
<1> QED BY <1>2, <1>4, <1>6, <1>7, <1>8, <1>9

LEMMA TopNIs ==
    ASSUME Shape, NEW data, NEW c, CandidatesAre(c, data), NEW t \in TopN(WithoutEos(c))
    PROVE  /\ t \in [1..BeamWidth -> Places]
           /\ \A j, k \in 1..BeamWidth : t[j] = t[k] => j = k
           /\ \A i \in Places : (\A k \in 1..BeamWidth : t[k] # i) =>
                 \A k \in 1..BeamWidth : KeptScoreAt(data, i) <= KeptScoreAt(data, t[k])
<1>1. PICK m : m = WithoutEos(c)
  OBVIOUS
<1>2. /\ DOMAIN m = Places /\ Len(m) = Len(all_beams) * BeamWidth
      /\ \A i \in Places : m[i].cum = KeptScoreAt(data, i)
  BY <1>1, WithoutEosIs DEF CandidatesAre
<1>3. PICK W \in Nat : W = BeamWidth /\ W >= 1
  BY TheCall DEF Shape
<1>4. PICK C \in Nat : C = Len(all_beams) * W /\ W <= C
  <2>1. PICK B \in Nat : B = Len(all_beams) /\ 1 <= B
    BY ShapeFacts
  <2>2. 1 * W <= B * W /\ B * W \in Nat
    <3>1. 1 * W <= B * W
      BY <2>1, Below2
    <3> QED BY <3>1
  <2> QED BY <2>1, <2>2
<1>5. Places = 1..C /\ Len(m) = C
  BY <1>2, <1>3, <1>4 DEF Places
<1>6. t \in TopN(m)
  BY <1>1
<1>7. CASE C <= W
  <2>1. C = W
    BY <1>4, <1>7
  <2>2. t = [i \in DOMAIN m |-> i]
    BY <1>3, <1>5, <1>6, <1>7 DEF TopN
  <2>3. t \in [1..W -> 1..W] /\ \A i \in 1..W : t[i] = i
    BY <1>2, <1>5, <2>1, <2>2
  <2> QED BY <1>3, <1>5, <2>1, <2>3
<1>8. CASE ~(C <= W)
  <2>1. /\ t \in [1..W -> DOMAIN m] /\ IsInjective(t)
        /\ \A i \in DOMAIN m \ Range(t) : \A j \in Range(t) : m[i].cum <= m[j].cum
    BY <1>3, <1>5, <1>6, <1>8 DEF TopN
  <2>2. \A j, k \in 1..W : t[j] = t[k] => j = k
    BY <2>1 DEF IsInjective
  <2>3. ASSUME NEW i \in Places, \A k \in 1..W : t[k] # i, NEW k \in 1..W
        PROVE  KeptScoreAt(data, i) <= KeptScoreAt(data, t[k])
    <3>1. i \in DOMAIN m \ Range(t) /\ t[k] \in Range(t) /\ t[k] \in Places
      BY <1>2, <2>1, <2>3 DEF Range
    <3>2. m[i].cum <= m[t[k]].cum
      BY <2>1, <3>1
    <3> QED BY <1>2, <3>1, <3>2
  <2> QED BY <1>2, <1>3, <2>1, <2>2, <2>3
<1> QED BY <1>7, <1>8

\* What a step does to the variables.
Grown(data, e, t) ==
    /\ tree' = tree \o [k \in DOMAIN e |-> EosNode(data, e[k])]
                    \o [k \in DOMAIN t |-> KeptNode(data, t[k])]
    /\ completed' = completed \o [k \in DOMAIN e |-> Len(tree) + k]
    /\ all_beams' = [k \in DOMAIN t |-> Len(tree) + Len(e) + k]

Chosen(f, data, e, t) ==
    /\ Selected(data, e, t)
    /\ \A b \in 1..Len(all_beams) : f[b] \in LogProbs /\ ScoredBy(data[b], b, f[b])
    /\ Grown(data, e, t)
    /\ scored' = f

LEMMA StepIs ==
    ASSUME Shape, Step
    PROVE  \E f, data, e, t : Chosen(f, data, e, t)
<1>1. PICK f \in [DOMAIN all_beams -> LogProbs], sampled \in [DOMAIN all_beams -> Token] :
          /\ \A b \in DOMAIN all_beams : sampled[b] \in MayBeSampled(f[b])
          /\ LET data == StepData(FlattenSeq([b \in DOMAIN all_beams |->
                                                Row(f[b], sampled[b])]))
                 candidates == Candidates(data)
                 eos_idx == EosIdx(candidates)
                 masked == WithoutEos(candidates)
             IN  \E topn_idx \in TopN(masked) :
                    /\ tree' = tree
                          \o [k \in DOMAIN eos_idx |->
                                EosBeam(data, candidates, eos_idx[k])]
                          \o [k \in DOMAIN topn_idx |->
                                NewBeam(data, masked, topn_idx[k])]
                    /\ completed' = completed
                          \o [k \in DOMAIN eos_idx |-> Len(tree) + k]
                    /\ all_beams' = [k \in DOMAIN topn_idx |->
                                       Len(tree) + Len(eos_idx) + k]
          /\ scored' = f
  BY DEF Step
<1>2. PICK data : data = StepData(FlattenSeq([b \in DOMAIN all_beams |->
                                                Row(f[b], sampled[b])]))
  OBVIOUS
<1>3. PICK c : c = Candidates(data)
  OBVIOUS
<1>4. PICK e, m : e = EosIdx(c) /\ m = WithoutEos(c)
  OBVIOUS
<1>5. PICK t \in TopN(m) :
          /\ tree' = tree \o [k \in DOMAIN e |-> EosBeam(data, c, e[k])]
                          \o [k \in DOMAIN t |-> NewBeam(data, m, t[k])]
          /\ completed' = completed \o [k \in DOMAIN e |-> Len(tree) + k]
          /\ all_beams' = [k \in DOMAIN t |-> Len(tree) + Len(e) + k]
  BY <1>1, <1>2, <1>3, <1>4
<1>6. \A b \in 1..Len(all_beams) : f[b] \in LogProbs /\ ScoredBy(data[b], b, f[b])
  <2>1. request \in DOMAIN Requests /\ Len(all_beams) >= 1 /\ all_beams \in Seq(Nat)
    <3>1. all_beams \in Seq(1..Len(tree)) /\ Len(all_beams) >= 1 /\ request \in DOMAIN Requests
      BY ShapeFacts DEF Shape
    <3> QED BY <3>1
  <2>2. \A b \in 1..Len(all_beams) : ScoredBy(data[b], b, f[b])
    BY <1>1, <1>2, <2>1, StepDataIs
  <2>3. \A b \in 1..Len(all_beams) : f[b] \in LogProbs
    BY ShapeFacts
  <2> QED BY <2>2, <2>3
<1>7. CandidatesAre(c, data)
  BY <1>3, <1>6, CandidatesIs
<1>8. Selected(data, e, t)
  <2>1. /\ e \in Seq(Places)
        /\ \A j, k \in 1..Len(e) : e[j] = e[k] => j = k
        /\ \A i \in Places : (\E k \in 1..Len(e) : e[k] = i) <=> EndsAt(data, i)
    BY <1>4, <1>7, EosIdxIs
  <2>2. /\ t \in [1..BeamWidth -> Places]
        /\ \A j, k \in 1..BeamWidth : t[j] = t[k] => j = k
        /\ \A i \in Places : (\A k \in 1..BeamWidth : t[k] # i) =>
              \A k \in 1..BeamWidth : KeptScoreAt(data, i) <= KeptScoreAt(data, t[k])
    BY <1>4, <1>5, <1>7, TopNIs
  <2> QED BY <2>1, <2>2 DEF Selected
<1>9. ASSUME NEW k \in DOMAIN e PROVE EosBeam(data, c, e[k]) = EosNode(data, e[k])
  <2>1. e[k] \in Places /\ EndsAt(data, e[k])
    BY <1>8 DEF Selected
  <2>2. c[e[k]].cum = ScoreAt(data, e[k])
    BY <1>7, <2>1 DEF CandidatesAre
  <2> QED BY <2>2 DEF EosBeam, EosNode
<1>10. ASSUME NEW k \in DOMAIN t PROVE NewBeam(data, m, t[k]) = KeptNode(data, t[k])
  <2>1. t[k] \in Places
    BY <1>8 DEF Selected
  <2>2. m[t[k]].token = TokenAt(data, t[k]) /\ m[t[k]].cum = KeptScoreAt(data, t[k])
    BY <1>4, <1>7, <2>1, WithoutEosIs
  <2> QED BY <2>2 DEF NewBeam, KeptNode
<1>11. /\ [k \in DOMAIN e |-> EosBeam(data, c, e[k])] = [k \in DOMAIN e |-> EosNode(data, e[k])]
       /\ [k \in DOMAIN t |-> NewBeam(data, m, t[k])] = [k \in DOMAIN t |-> KeptNode(data, t[k])]
  BY <1>9, <1>10
<1>12. Grown(data, e, t)
  BY <1>5, <1>11 DEF Grown
<1> QED BY <1>1, <1>6, <1>8, <1>12 DEF Chosen

\* The nodes of a step are nodes, and where they are.
LEMMA PlaceFacts ==
    ASSUME Shape, NEW i \in Places
    PROVE  /\ ParentOf(i) \in 1..Len(all_beams) /\ RankOf(i) \in 1..BeamWidth
           /\ Place(ParentOf(i), RankOf(i)) = i
           /\ all_beams[ParentOf(i)] \in 1..Len(tree)
           /\ tree[all_beams[ParentOf(i)]] \in Node
           /\ tree[all_beams[ParentOf(i)]].reason = "length"
           /\ tree[all_beams[ParentOf(i)]].cum \in Int
<1>1. PICK B \in Nat : B = Len(all_beams)
  BY ShapeFacts
<1>2. request \in DOMAIN Requests
  BY DEF Shape
<1>3. ParentOf(i) \in 1..B /\ RankOf(i) \in 1..BeamWidth /\ Place(ParentOf(i), RankOf(i)) = i
  BY <1>1, <1>2, PlaceOf DEF Places
<1> QED BY <1>1, <1>3, ShapeFacts DEF Shape

LEMMA EntryFacts ==
    ASSUME Shape, NEW f, NEW data, NEW e, NEW t, Chosen(f, data, e, t), NEW i \in Places
    PROVE  /\ data[ParentOf(i)] \in Seq(Entries) /\ Len(data[ParentOf(i)]) = BeamWidth
           /\ data[ParentOf(i)][RankOf(i)] \in Entries
           /\ TokenAt(data, i) \in Token
           /\ ScoreAt(data, i) \in Int /\ KeptScoreAt(data, i) \in Int
<1>1. PICK W \in Nat : W = BeamWidth
  BY TheCall DEF Shape
<1>2. PICK d : d = data[ParentOf(i)]
  OBVIOUS
<1>3. d \in Seq(Entries) /\ Len(d) = W
  BY <1>1, <1>2, PlaceFacts DEF Chosen, ScoredBy
<1>4. RankOf(i) \in 1..W
  BY <1>1, PlaceFacts
<1>5. d[RankOf(i)] \in Entries
  BY <1>3, <1>4
<1>6. d[RankOf(i)].token \in Token /\ d[RankOf(i)].lp \in Int
  BY <1>5 DEF Entries
<1>7. ScoreAt(data, i) \in Int
  BY <1>2, <1>6, PlaceFacts, PlusType DEF ScoreAt
<1>8. NegInf \in Int
  BY LogProbAssumption
<1> QED BY <1>1, <1>2, <1>3, <1>5, <1>6, <1>7, <1>8 DEF TokenAt, KeptScoreAt

LEMMA NodesAre ==
    ASSUME Shape, NEW f, NEW data, NEW e, NEW t, Chosen(f, data, e, t), NEW i \in Places
    PROVE  EosNode(data, i) \in Node /\ KeptNode(data, i) \in Node
<1>1. PICK p, d : p = tree[all_beams[ParentOf(i)]] /\ d = data[ParentOf(i)]
  OBVIOUS
<1>2. all_beams[ParentOf(i)] \in Nat /\ p \in Node
  <2>1. all_beams[ParentOf(i)] \in 1..Len(tree) /\ Len(tree) \in Nat
    BY PlaceFacts, ShapeFacts
  <2> QED BY <1>1, <2>1, PlaceFacts
<1>3. p.tokens \in Seq(Token \cup ToSet(BeginTokens))
  BY <1>2 DEF Node
<1>4. Eos \in Token
  BY TokenAssumption
<1>5. /\ Append(p.tokens, Eos) \in Seq(Token \cup ToSet(BeginTokens))
      /\ Append(p.tokens, TokenAt(data, i)) \in Seq(Token \cup ToSet(BeginTokens))
  BY <1>3, <1>4, EntryFacts, AppendProperties
<1>6. d \in Seq(Entries) /\ ScoreAt(data, i) \in Int /\ KeptScoreAt(data, i) \in Int
  BY <1>1, EntryFacts
<1>7. EosNode(data, i) \in Node
  BY <1>1, <1>2, <1>3, <1>5, <1>6 DEF EosNode, Node
<1>8. KeptNode(data, i) \in Node
  BY <1>1, <1>2, <1>5, <1>6 DEF KeptNode, Node
<1> QED BY <1>7, <1>8

\* The same, element by element.
GrownTo(data, e, t) ==
    /\ Len(e) \in Nat
    /\ tree' \in Seq(Node)
    /\ Len(tree') = Len(tree) + Len(e) + BeamWidth
    /\ \A n \in 1..Len(tree) : tree'[n] = tree[n]
    /\ \A k \in 1..Len(e) : tree'[Len(tree) + k] = EosNode(data, e[k])
    /\ \A k \in 1..BeamWidth : tree'[Len(tree) + Len(e) + k] = KeptNode(data, t[k])
    /\ Len(completed') = Len(completed) + Len(e)
    /\ \A k \in 1..Len(completed) : completed'[k] = completed[k]
    /\ \A k \in 1..Len(e) : completed'[Len(completed) + k] = Len(tree) + k
    /\ Len(all_beams') = BeamWidth
    /\ \A k \in 1..BeamWidth : all_beams'[k] = Len(tree) + Len(e) + k
    /\ all_beams' \in Seq(1..Len(tree')) /\ completed' \in Seq(1..Len(tree'))

\* Three parts, one after the other.
InThreeParts(s, u, v, w) ==
    /\ Len(s) = Len(u) + Len(v) + Len(w)
    /\ \A k \in 1..Len(u) : s[k] = u[k]
    /\ \A k \in 1..Len(v) : s[Len(u) + k] = v[k]
    /\ \A k \in 1..Len(w) : s[Len(u) + Len(v) + k] = w[k]

LEMMA ThreeParts ==
    ASSUME NEW S, NEW u \in Seq(S), NEW v \in Seq(S), NEW w \in Seq(S)
    PROVE  u \o v \o w \in Seq(S) /\ InThreeParts(u \o v \o w, u, v, w)
<1>1. PICK x \in Nat : x = Len(u)
  OBVIOUS
<1>2. PICK y \in Nat : y = Len(v)
  OBVIOUS
<1>3. PICK z \in Nat : z = Len(w)
  OBVIOUS
<1>4. PICK a : a = u \o v
  OBVIOUS
<1>5. a \in Seq(S) /\ Len(a) = x + y
      /\ \A i \in 1..(x + y) : a[i] = IF i <= x THEN u[i] ELSE v[i - x]
  <2>1. /\ u \o v \in Seq(S)
        /\ Len(u \o v) = Len(u) + Len(v)
        /\ \A i \in 1..(Len(u) + Len(v)) :
              (u \o v)[i] = IF i <= Len(u) THEN u[i] ELSE v[i - Len(u)]
    BY ConcatProperties
  <2> QED BY <1>1, <1>2, <1>4, <2>1
<1>6. PICK c : c = a \o w
  OBVIOUS
<1>7. c \in Seq(S) /\ Len(c) = x + y + z
      /\ \A i \in 1..(x + y + z) : c[i] = IF i <= x + y THEN a[i] ELSE w[i - (x + y)]
  <2>1. /\ a \o w \in Seq(S)
        /\ Len(a \o w) = Len(a) + Len(w)
        /\ \A i \in 1..(Len(a) + Len(w)) :
              (a \o w)[i] = IF i <= Len(a) THEN a[i] ELSE w[i - Len(a)]
    BY <1>5, ConcatProperties
  <2> QED BY <1>3, <1>5, <1>6, <2>1
<1>8. \A k \in 1..x : c[k] = u[k]
  <2> SUFFICES ASSUME NEW k \in 1..x PROVE c[k] = u[k]
    OBVIOUS
  <2>1. k \in 1..(x + y) /\ k \in 1..(x + y + z) /\ k <= x /\ k <= x + y
    OBVIOUS
  <2> QED BY <1>5, <1>7, <2>1
<1>9. \A k \in 1..y : c[x + k] = v[k]
  <2> SUFFICES ASSUME NEW k \in 1..y PROVE c[x + k] = v[k]
    OBVIOUS
  <2>1. x + k \in 1..(x + y) /\ x + k \in 1..(x + y + z) /\ ~(x + k <= x) /\ x + k <= x + y
        /\ (x + k) - x = k
    OBVIOUS
  <2> QED BY <1>5, <1>7, <2>1
<1>10. \A k \in 1..z : c[x + y + k] = w[k]
  <2> SUFFICES ASSUME NEW k \in 1..z PROVE c[x + y + k] = w[k]
    OBVIOUS
  <2>1. x + y + k \in 1..(x + y + z) /\ ~(x + y + k <= x + y) /\ (x + y + k) - (x + y) = k
    OBVIOUS
  <2> QED BY <1>7, <2>1
<1> QED BY <1>1, <1>2, <1>3, <1>4, <1>6, <1>7, <1>8, <1>9, <1>10 DEF InThreeParts

LEMMA GrownIs ==
    ASSUME Shape, NEW f, NEW data, NEW e, NEW t, Chosen(f, data, e, t)
    PROVE  GrownTo(data, e, t)
<1>1. PICK W \in Nat : W = BeamWidth /\ W >= 1
  BY TheCall DEF Shape
<1>2. PICK n \in Nat : n = Len(tree)
  BY ShapeFacts
<1>3. e \in Seq(Places) /\ t \in [1..W -> Places]
  BY <1>1 DEF Chosen, Selected
<1>4. PICK m \in Nat : m = Len(e) /\ DOMAIN e = 1..m
  BY <1>3
<1>5. DOMAIN t = 1..W
  BY <1>3
<1>6. PICK c \in Nat : c = Len(completed)
  BY ShapeFacts
<1>7. PICK u, v : /\ u = [k \in 1..m |-> EosNode(data, e[k])]
                  /\ v = [k \in 1..W |-> KeptNode(data, t[k])]
  OBVIOUS
<1>8. u \in Seq(Node) /\ Len(u) = m /\ \A k \in 1..m : u[k] = EosNode(data, e[k])
  <2>1. \A k \in 1..m : e[k] \in Places
    BY <1>3, <1>4
  <2>2. \A k \in 1..m : EosNode(data, e[k]) \in Node
    BY <2>1, NodesAre
  <2>3. u \in [1..m -> Node]
    BY <1>7, <2>2
  <2> QED BY <1>7, <2>3
<1>9. v \in Seq(Node) /\ Len(v) = W /\ \A k \in 1..W : v[k] = KeptNode(data, t[k])
  <2>1. \A k \in 1..W : t[k] \in Places
    BY <1>3
  <2>2. \A k \in 1..W : KeptNode(data, t[k]) \in Node
    BY <2>1, NodesAre
  <2>3. v \in [1..W -> Node]
    BY <1>7, <2>2
  <2> QED BY <1>7, <2>3
<1>10. tree' = tree \o u \o v
  BY <1>4, <1>5, <1>7 DEF Chosen, Grown
<1>11. tree \in Seq(Node)
  BY DEF Shape
<1>12. /\ tree' \in Seq(Node) /\ Len(tree') = n + m + W
       /\ \A k \in 1..n : tree'[k] = tree[k]
       /\ \A k \in 1..m : tree'[n + k] = u[k]
       /\ \A k \in 1..W : tree'[n + m + k] = v[k]
  <2>1. u \in Seq(Node) /\ v \in Seq(Node) /\ Len(u) = m /\ Len(v) = W
    BY <1>8, <1>9
  <2>2. tree' \in Seq(Node) /\ InThreeParts(tree', tree, u, v)
    BY <1>10, <1>11, <2>1, ThreeParts
  <2> QED BY <1>2, <2>1, <2>2 DEF InThreeParts
<1>13. PICK x : x = [k \in 1..m |-> n + k]
  OBVIOUS
<1>14. x \in Seq(1..(n + m + W)) /\ Len(x) = m /\ \A k \in 1..m : x[k] = n + k
  <2>1. x \in [1..m -> 1..(n + m + W)]
    BY <1>13
  <2> QED BY <1>13, <2>1
<1>15. completed' = completed \o x
  BY <1>2, <1>4, <1>13 DEF Chosen, Grown
<1>16. completed \in Seq(1..(n + m + W))
  <2>1. completed \in Seq(1..n)
    BY <1>2 DEF Shape
  <2> QED BY <2>1
<1>17. /\ completed' \in Seq(1..(n + m + W)) /\ Len(completed') = c + m
       /\ \A k \in 1..c : completed'[k] = completed[k]
       /\ \A k \in 1..m : completed'[c + k] = x[k]
  <2>1. /\ completed \o x \in Seq(1..(n + m + W))
        /\ Len(completed \o x) = Len(completed) + Len(x)
        /\ \A i \in 1..(Len(completed) + Len(x)) :
             (completed \o x)[i] = IF i <= Len(completed) THEN completed[i]
                                   ELSE x[i - Len(completed)]
    BY <1>14, <1>16, ConcatProperties
  <2>2. /\ completed' \in Seq(1..(n + m + W)) /\ Len(completed') = c + m
        /\ \A i \in 1..(c + m) : completed'[i] = IF i <= c THEN completed[i] ELSE x[i - c]
    BY <1>6, <1>14, <1>15, <2>1
  <2>3. \A k \in 1..m : c + k \in 1..(c + m) /\ ~(c + k <= c) /\ (c + k) - c = k
    OBVIOUS
  <2>4. \A k \in 1..c : k \in 1..(c + m) /\ k <= c
    OBVIOUS
  <2> QED BY <2>2, <2>3, <2>4
<1>18. all_beams' = [k \in 1..W |-> n + m + k]
  BY <1>2, <1>4, <1>5 DEF Chosen, Grown
<1>19. all_beams' \in Seq(1..(n + m + W)) /\ Len(all_beams') = W
       /\ \A k \in 1..W : all_beams'[k] = n + m + k
  <2>1. all_beams' \in [1..W -> 1..(n + m + W)]
    BY <1>18
  <2> QED BY <1>18, <2>1
<1>20. /\ \A k \in 1..m : tree'[n + k] = EosNode(data, e[k])
       /\ \A k \in 1..W : tree'[n + m + k] = KeptNode(data, t[k])
       /\ \A k \in 1..m : completed'[c + k] = n + k
  BY <1>8, <1>9, <1>12, <1>14, <1>17
<1> QED BY <1>1, <1>2, <1>4, <1>6, <1>12, <1>17, <1>19, <1>20 DEF GrownTo

\* What a step leaves alone.
LEMMA SameCall ==
    ASSUME request' = request
    PROVE  /\ BeamWidth' = BeamWidth /\ NumSteps' = NumSteps /\ MaxTokens' = MaxTokens
           /\ BeginTokens' = BeginTokens /\ EndTokens' = EndTokens
           /\ IgnoreEos' = IgnoreEos /\ IncludeStop' = IncludeStop /\ Greedy' = Greedy
           /\ HasCatalog' = HasCatalog /\ LogProbs' = LogProbs /\ Node' = Node
  BY DEF BeamWidth, NumSteps, StepsOfRequest, MaxTokens, BeginTokens, EndTokens, IgnoreEos,
         IncludeStop, Greedy, HasCatalog, LogProbs, Node, Entries

LEMMA ShapeInit == Init => Shape
<1> SUFFICES ASSUME Init PROVE Shape
  OBVIOUS
<1>1. /\ request \in DOMAIN Requests /\ token = 0 /\ phase = "loop"
      /\ all_beams = <<1>> /\ completed = <<>>
      /\ tree = << [parent |-> 0, data |-> <<>>, tokens |-> BeginTokens,
                    cum |-> 0, reason |-> "length"] >>
  BY DEF Init
<1>2. NumSteps \in Nat /\ BeginTokens \in Seq(ToSet(BeginTokens))
  BY <1>1, TheCall
<1>3. BeginTokens \in Seq(Token \cup ToSet(BeginTokens))
  BY <1>2
<1>4. [parent |-> 0, data |-> <<>>, tokens |-> BeginTokens, cum |-> 0, reason |-> "length"]
          \in Node
  BY <1>3, EmptySeq DEF Node
<1>5. tree \in Seq(Node) /\ Len(tree) = 1 /\ tree[1].reason = "length"
  BY <1>1, <1>4
<1>6. all_beams \in Seq(1..1) /\ Len(all_beams) = 1 /\ all_beams[1] = 1
  BY <1>1
<1>7. completed \in Seq(1..1) /\ Len(completed) = 0
  BY <1>1, EmptySeq
<1> QED BY <1>1, <1>2, <1>5, <1>6, <1>7 DEF Shape

LEMMA ShapeStep == Shape /\ [Next]_vars => Shape'
<1> SUFFICES ASSUME Shape, [Next]_vars PROVE Shape'
  OBVIOUS
<1>1. CASE Step
  <2>1. PICK f, data, e, t : Chosen(f, data, e, t)
    BY <1>1, StepIs
  <2>2. GrownTo(data, e, t)
    BY <2>1, GrownIs
  <2>3. /\ request' = request /\ phase' = phase /\ token' = token + 1 /\ token < NumSteps
        /\ token \in 0..NumSteps /\ NumSteps \in Nat /\ request \in DOMAIN Requests
    BY <1>1, TheCall DEF Step, Shape
  <2>4. token' \in 0..NumSteps /\ token' # 0
    BY <2>3
  <2>5. PICK n \in Nat : n = Len(tree)
    BY ShapeFacts
  <2>6. PICK m \in Nat : m = Len(e)
    BY <2>2 DEF GrownTo
  <2>7. PICK W \in Nat : W = BeamWidth
    BY <2>3, TheCall
  <2>8. PICK c \in Nat : c = Len(completed)
    BY ShapeFacts
  <2>9. ASSUME NEW b \in 1..W PROVE tree'[all_beams'[b]].reason = "length"
    <3>1. tree'[all_beams'[b]] = KeptNode(data, t[b])
      BY <2>2, <2>7 DEF GrownTo
    <3> QED BY <3>1 DEF KeptNode
  <2>10. ASSUME NEW k \in 1..(c + m) PROVE tree'[completed'[k]].reason = "stop"
    <3>1. CASE k \in 1..c
      <4>1. completed'[k] = completed[k] /\ completed[k] \in 1..n
        BY <2>2, <2>5, <2>8, <3>1, ShapeFacts DEF GrownTo
      <4>2. tree'[completed'[k]] = tree[completed[k]]
        BY <2>2, <2>5, <4>1 DEF GrownTo
      <4> QED BY <2>8, <3>1, <4>2 DEF Shape
    <3>2. CASE ~(k \in 1..c)
      <4>1. PICK j \in 1..m : k = c + j
        <5>1. k - c \in 1..m /\ k = c + (k - c)
          BY <3>2
        <5> QED BY <5>1
      <4>2. completed'[k] = n + j
        BY <2>2, <2>5, <2>6, <2>8, <4>1 DEF GrownTo
      <4>3. tree'[n + j] = EosNode(data, e[j])
        BY <2>2, <2>5, <2>6 DEF GrownTo
      <4> QED BY <4>2, <4>3 DEF EosNode
    <3> QED BY <3>1, <3>2
  <2>11. Len(completed') = c + m /\ Len(all_beams') = W
    BY <2>2, <2>6, <2>7, <2>8 DEF GrownTo
  <2>12. /\ tree' \in Seq(Node) /\ all_beams' \in Seq(1..Len(tree'))
         /\ completed' \in Seq(1..Len(tree'))
    BY <2>2 DEF GrownTo
  <2>13. phase \in {"loop", "done"}
    BY DEF Shape
  <2>14. BeamWidth' = W /\ NumSteps' = NumSteps /\ Node' = Node
    BY <2>3, <2>7, SameCall
  <2> QED BY <2>3, <2>4, <2>9, <2>10, <2>11, <2>12, <2>13, <2>14 DEF Shape
<1>2. CASE Finish
  <2>1. UNCHANGED <<request, token, tree, all_beams, completed>> /\ phase' = "done"
    BY <1>2 DEF Finish
  <2>2. BeamWidth' = BeamWidth /\ NumSteps' = NumSteps /\ Node' = Node
    BY <2>1, SameCall
  <2> QED BY <2>1, <2>2 DEF Shape
<1>3. CASE UNCHANGED vars
  <2>1. UNCHANGED <<request, token, tree, all_beams, completed, phase>>
    BY <1>3 DEF vars
  <2>2. BeamWidth' = BeamWidth /\ NumSteps' = NumSteps /\ Node' = Node
    BY <2>1, SameCall
  <2> QED BY <2>1, <2>2 DEF Shape
<1> QED BY <1>1, <1>2, <1>3 DEF Next, Terminated

\* The search's lists are what the code takes them for: the beams are beams
\* that run, as many as asked for from the first step on, and the completed
\* ones have ended.
THEOREM SearchHasItsShape == Spec => []Shape
<1>1. Init => Shape
  BY ShapeInit
<1>2. Shape /\ [Next]_vars => Shape'
  BY ShapeStep
<1> QED BY <1>1, <1>2, PTL DEF Spec

-----------------------------------------------------------------------------
(* Paths and scores *)

\* The tokens that candidate i goes on from.
StartOf(i) == tree[all_beams[ParentOf(i)]].tokens

LEMMA StartFacts ==
    ASSUME Shape, NEW i \in Places
    PROVE  StartOf(i) \in Seq(Token \cup ToSet(BeginTokens))
  BY PlaceFacts DEF StartOf, Node

LEMMA PathOfBeam ==
    ASSUME Shape, NEW b \in 1..Len(all_beams)
    PROVE  /\ Path(all_beams[b]) = tree[all_beams[b]].tokens
           /\ Path(all_beams[b]) \in Seq(Token \cup ToSet(BeginTokens))
<1>1. tree[all_beams[b]].reason = "length" /\ tree[all_beams[b]] \in Node
  BY ShapeFacts DEF Shape
<1>2. tree[all_beams[b]].tokens \in Seq(Token \cup ToSet(BeginTokens))
  BY <1>1 DEF Node
<1>3. tree[all_beams[b]].tokens \o <<>> = tree[all_beams[b]].tokens
  BY <1>2, ConcatEmptySeq
<1> QED BY <1>1, <1>2, <1>3 DEF Path

LEMMA PathStep ==
    ASSUME Shape, NEW f, NEW data, NEW e, NEW t, Chosen(f, data, e, t), request' = request
    PROVE  /\ \A n \in 1..Len(tree) : Path(n)' = Path(n)
           /\ \A k \in 1..Len(e) : \A n \in Nat : n = Len(tree) + k =>
                 Path(n)' = Append(StartOf(e[k]), Eos)
           /\ \A k \in 1..BeamWidth : \A n \in Nat : n = Len(tree) + Len(e) + k =>
                 Path(n)' = Append(StartOf(t[k]), TokenAt(data, t[k]))
<1>1. GrownTo(data, e, t) /\ IncludeStop' = IncludeStop
  BY GrownIs, SameCall
<1>2. e \in Seq(Places) /\ t \in [1..BeamWidth -> Places]
  BY DEF Chosen, Selected
<1>3. ASSUME NEW n \in 1..Len(tree) PROVE Path(n)' = Path(n)
  <2>1. tree'[n] = tree[n]
    BY <1>1 DEF GrownTo
  <2> QED BY <1>1, <2>1 DEF Path
<1>4. ASSUME NEW k \in 1..Len(e), NEW n \in Nat, n = Len(tree) + k
      PROVE  Path(n)' = Append(StartOf(e[k]), Eos)
  <2>1. tree'[n] = EosNode(data, e[k])
    BY <1>1, <1>4 DEF GrownTo
  <2>2. e[k] \in Places
    BY <1>2
  <2>3. PICK s \in Seq(Token \cup ToSet(BeginTokens)) : s = StartOf(e[k])
    BY <2>2, StartFacts
  <2>4. Eos \in Token
    BY TokenAssumption
  <2>5. s \o <<Eos>> = Append(s, Eos)
    BY <2>4
  <2>6. Append(s, Eos) \o <<>> = Append(s, Eos)
    <3>1. Append(s, Eos) \in Seq(Token \cup ToSet(BeginTokens))
      BY <2>4, AppendProperties
    <3> QED BY <3>1, ConcatEmptySeq
  <2>7. /\ tree'[n].reason = "stop"
        /\ tree'[n].tokens = IF IncludeStop THEN Append(s, Eos) ELSE s
    BY <2>1, <2>3 DEF EosNode, StartOf
  <2>8. Path(n)' = tree'[n].tokens \o IF tree'[n].reason = "stop" /\ ~IncludeStop
                                      THEN <<Eos>> ELSE <<>>
    BY <1>1 DEF Path
  <2>9. CASE IncludeStop
    BY <2>3, <2>6, <2>7, <2>8, <2>9
  <2>10. CASE ~IncludeStop
    BY <2>3, <2>5, <2>7, <2>8, <2>10
  <2> QED BY <2>9, <2>10
<1>5. ASSUME NEW k \in 1..BeamWidth, NEW n \in Nat, n = Len(tree) + Len(e) + k
      PROVE  Path(n)' = Append(StartOf(t[k]), TokenAt(data, t[k]))
  <2>1. tree'[n] = KeptNode(data, t[k])
    BY <1>1, <1>5 DEF GrownTo
  <2>2. t[k] \in Places
    BY <1>2
  <2>3. PICK s : s = Append(StartOf(t[k]), TokenAt(data, t[k]))
    OBVIOUS
  <2>4. s \in Seq(Token \cup ToSet(BeginTokens))
    BY <2>2, <2>3, StartFacts, EntryFacts, AppendProperties
  <2>5. tree'[n].tokens = s /\ tree'[n].reason = "length"
    <3>1. KeptNode(data, t[k]).tokens = Append(StartOf(t[k]), TokenAt(data, t[k]))
      BY DEF KeptNode, StartOf
    <3>2. KeptNode(data, t[k]).reason = "length"
      BY DEF KeptNode
    <3> QED BY <2>1, <2>3, <3>1, <3>2
  <2>6. s \o <<>> = s
    BY <2>4, ConcatEmptySeq
  <2> QED BY <2>3, <2>5, <2>6 DEF Path
<1> QED BY <1>3, <1>4, <1>5

\* Every beam has had its begin token and one token in each step.
Levels ==
    /\ \A n \in 1..Len(tree) : Len(Path(n)) \in Nat /\ Len(Path(n)) <= Len(BeginTokens) + token
    /\ \A b \in 1..Len(all_beams) : Len(Path(all_beams[b])) = Len(BeginTokens) + token

\* Parents come before their children.
ParentsFirst == \A n \in 1..Len(tree) : tree[n].parent \in 0..(n - 1)

\* A score is a sum of as many log-probabilities as there were steps, at most.
Charged(x, steps, opinions) ==
    x = NegInf \/ x = 0 \/ \E f \in opinions, u \in Token : x <= 0 /\ steps * f[u] <= x
Scores == \A n \in 1..Len(tree) : Charged(tree[n].cum, token, LogProbs)

\* One more log-probability.
LEMMA SumIsCharged ==
    ASSUME request \in DOMAIN Requests, NEW n \in Nat,
           NEW x \in Int, x # NegInf, Charged(x, n, LogProbs),
           NEW g \in LogProbs, NEW v \in Token, g[v] # NegInf
    PROVE  /\ Plus(x, g[v]) = x + g[v]
           /\ \E f \in LogProbs, u \in Token :
                 Plus(x, g[v]) <= 0 /\ (n + 1) * f[u] <= Plus(x, g[v])
<1>1. \A f \in LogProbs : \A u \in Token : f[u] \in Int /\ f[u] <= 0
  BY LogProbsAre
<1>2. x = 0 \/ \E f \in LogProbs, u \in Token : x <= 0 /\ n * f[u] <= x
  BY DEF Charged
<1>3. PICK y \in Int : y = g[v] /\ y <= 0
  BY <1>1
<1>4. Plus(x, g[v]) = x + y
  BY <1>3 DEF Plus
<1>5. PICK w \in Int : w = (n + 1) * y /\ w <= y
  BY <1>3, OneMore
<1>6. CASE x = 0
  BY <1>3, <1>4, <1>5, <1>6
<1>7. CASE x # 0
  <2>1. PICK f \in LogProbs, u \in Token : x <= 0 /\ n * f[u] <= x
    BY <1>2, <1>7
  <2>2. PICK z \in Int : z = f[u] /\ z <= 0
    BY <1>1
  <2>3. PICK p \in Int : p = n * z /\ p <= x
    BY <2>1, <2>2
  <2>4. PICK q \in Int : q = n * y
    BY <1>3
  <2>5. CASE z <= y
    <3>1. (n + 1) * z = p + z
      BY <2>2, <2>3, OneMore
    <3>2. (n + 1) * z <= x + y
      BY <2>3, <2>5, <3>1
    <3> QED BY <1>3, <1>4, <2>1, <2>2, <3>2
  <2>6. CASE y < z
    <3>1. q <= p
      BY <2>3, <2>4, <2>6, Times
    <3>2. w = q + y
      BY <1>3, <1>5, <2>4, OneMore
    <3>3. w <= x + y
      BY <2>3, <3>1, <3>2
    <3> QED BY <1>3, <1>4, <1>5, <2>1, <3>3
  <2> QED BY <2>5, <2>6
<1> QED BY <1>6, <1>7

LEMMA ChargedOnce ==
    ASSUME request \in DOMAIN Requests, NEW n \in Nat,
           NEW x \in Int, Charged(x, n, LogProbs), NEW l,
           \/ l = NegInf
           \/ \E f \in LogProbs, u \in Token : l = f[u]
    PROVE  Charged(Plus(x, l), n + 1, LogProbs) /\ Charged(x, n + 1, LogProbs)
<1>1. \A f \in LogProbs : \A u \in Token : f[u] \in Int /\ f[u] <= 0
  BY LogProbsAre
<1>2. x = NegInf \/ x = 0 \/ \E f \in LogProbs, u \in Token : x <= 0 /\ n * f[u] <= x
  BY DEF Charged
<1>3. \/ x = NegInf \/ x = 0
      \/ \E f \in LogProbs, u \in Token : x <= 0 /\ (n + 1) * f[u] <= x
  <2> SUFFICES ASSUME NEW f \in LogProbs, NEW u \in Token, x <= 0, n * f[u] <= x
               PROVE  (n + 1) * f[u] <= x
    BY <1>2
  <2>1. PICK y \in Int : y = f[u] /\ y <= 0
    BY <1>1
  <2>2. (n + 1) * y <= n * y /\ n * y \in Int /\ (n + 1) * y \in Int
    BY <2>1, OneMore
  <2> QED BY <2>1, <2>2
<1>4. \/ Plus(x, l) = NegInf
      \/ \E f \in LogProbs, u \in Token : Plus(x, l) <= 0 /\ (n + 1) * f[u] <= Plus(x, l)
  <2>1. CASE x = NegInf \/ l = NegInf
    BY <2>1 DEF Plus
  <2>2. CASE ~(x = NegInf \/ l = NegInf)
    <3>1. PICK g \in LogProbs, v \in Token : l = g[v]
      BY <2>2
    <3> QED BY <2>2, <3>1, SumIsCharged
  <2> QED BY <2>1, <2>2
<1> QED BY <1>3, <1>4 DEF Charged

LEMMA PartAbove ==
    ASSUME NEW N \in Nat, NEW m \in Nat, m <= N, NEW y \in Int, y <= 0, N * y > NegInf
    PROVE  m * y \in Int /\ m * y > NegInf
<1>1. PICK d \in Nat : N = m + d
  <2>1. N - m \in Nat /\ N = m + (N - m)
    OBVIOUS
  <2> QED BY <2>1
<1>2. PICK q \in Int : q = d * y /\ q <= 0
  <2>1. d * y <= d * 0 /\ d * y \in Int
    BY Times
  <2> QED BY <2>1
<1>3. PICK p \in Int : p = m * y
  OBVIOUS
<1>4. N * y = p + q
  BY <1>1, <1>2, <1>3
<1> QED BY <1>2, <1>3, <1>4, LogProbAssumption

\* In a step of the call the sum of finite scores is finite.
LEMMA PlusIsFinite ==
    ASSUME request \in DOMAIN Requests, NEW n \in Nat, n < NumSteps,
           NEW x \in Int, x # NegInf, Charged(x, n, LogProbs),
           NEW g \in LogProbs, NEW v \in Token
    PROVE  g[v] # NegInf /\ Plus(x, g[v]) = x + g[v] /\ Plus(x, g[v]) > NegInf
<1>1. PICK N \in Nat : N = NumSteps
  BY TheCall
<1>2. \A f \in LogProbs : \A u \in Token : f[u] \in Int /\ f[u] <= 0 /\ N * f[u] > NegInf
  BY <1>1, LogProbsAre
<1>3. NegInf \in Int
  BY LogProbAssumption
<1>5. g[v] # NegInf
  <2>1. PICK y \in Int : y = g[v] /\ y <= 0 /\ N * y > NegInf
    BY <1>2
  <2>2. 1 * y > NegInf
    BY <1>1, <2>1, PartAbove
  <2> QED BY <1>3, <2>1, <2>2
<1>6. /\ Plus(x, g[v]) = x + g[v]
      /\ \E f \in LogProbs, u \in Token :
            Plus(x, g[v]) <= 0 /\ (n + 1) * f[u] <= Plus(x, g[v])
  BY <1>5, SumIsCharged
<1>7. PICK f \in LogProbs, u \in Token : (n + 1) * f[u] <= Plus(x, g[v])
  BY <1>6
<1>8. PICK z \in Int : z = f[u] /\ z <= 0 /\ N * z > NegInf
  BY <1>2
<1>9. PICK m \in Nat : m = n + 1 /\ m <= N
  BY <1>1
<1>10. m * z \in Int /\ m * z > NegInf
  BY <1>8, <1>9, PartAbove
<1>11. PICK p \in Int : p = Plus(x, g[v])
  BY <1>2, <1>6
<1>12. m * z <= p
  BY <1>7, <1>8, <1>9, <1>11
<1> QED BY <1>3, <1>5, <1>6, <1>10, <1>11, <1>12

\* No score is below -inf.
LEMMA ChargedAbove ==
    ASSUME request \in DOMAIN Requests, NEW n \in Nat, n <= NumSteps,
           NEW x \in Int, Charged(x, n, LogProbs)
    PROVE  NegInf <= x
<1>1. PICK N \in Nat : N = NumSteps
  BY TheCall
<1>2. NegInf \in Int /\ NegInf < 0
  BY LogProbAssumption
<1>3. CASE x = NegInf \/ x = 0
  BY <1>2, <1>3
<1>4. CASE ~(x = NegInf \/ x = 0)
  <2>1. PICK f \in LogProbs, u \in Token : x <= 0 /\ n * f[u] <= x
    BY <1>4 DEF Charged
  <2>2. PICK z \in Int : z = f[u] /\ z <= 0 /\ N * z > NegInf
    BY <1>1, LogProbsAre
  <2>3. n * z \in Int /\ n * z > NegInf
    BY <1>1, <2>2, PartAbove
  <2> QED BY <1>2, <2>1, <2>2, <2>3
<1> QED BY <1>3, <1>4

LEMMA NextCases ==
    ASSUME [Next]_vars
    PROVE  Step \/ UNCHANGED <<request, token, tree, all_beams, completed>>
  BY DEF Next, Finish, Terminated, vars

\* A node after the step is an old one, one that ended, or one that was kept.
LEMMA NodeCases ==
    ASSUME Shape, NEW data, NEW e, NEW t, GrownTo(data, e, t), NEW n \in 1..Len(tree')
    PROVE  \/ n \in 1..Len(tree)
           \/ \E k \in 1..Len(e) : n = Len(tree) + k
           \/ \E k \in 1..BeamWidth : n = Len(tree) + Len(e) + k
<1>1. PICK m \in Nat : m = Len(tree)
  BY ShapeFacts
<1>2. PICK c \in Nat : c = Len(e)
  BY DEF GrownTo
<1>3. PICK W \in Nat : W = BeamWidth
  BY TheCall DEF Shape
<1>4. n \in 1..(m + c + W)
  BY <1>1, <1>2, <1>3 DEF GrownTo
<1>5. CASE n <= m
  BY <1>1, <1>4, <1>5
<1>6. CASE m < n /\ n <= m + c
  <2>1. n - m \in 1..c /\ n = m + (n - m)
    BY <1>4, <1>6
  <2> QED BY <1>1, <1>2, <2>1
<1>7. CASE m + c < n
  <2>1. n - (m + c) \in 1..W /\ n = m + c + (n - (m + c))
    BY <1>4, <1>7
  <2> QED BY <1>1, <1>2, <1>3, <2>1
<1> QED BY <1>4, <1>5, <1>6, <1>7

\* What an entry was worth in the row, or -inf.
LEMMA EntryIsCharged ==
    ASSUME Shape, NEW f, NEW data, NEW e, NEW t, Chosen(f, data, e, t), NEW i \in Places
    PROVE  LET l == data[ParentOf(i)][RankOf(i)].lp
           IN  l = NegInf \/ \E g \in LogProbs, u \in Token : l = g[u]
<1>1. PICK b, k, g : b = ParentOf(i) /\ k = RankOf(i) /\ g = f[b]
  OBVIOUS
<1>2. b \in 1..Len(all_beams) /\ k \in 1..BeamWidth
  BY <1>1, PlaceFacts
<1>3. g \in LogProbs /\ ScoredBy(data[b], b, g)
  BY <1>1, <1>2 DEF Chosen
<1>4. data[b][k].lp = NegInf \/ data[b][k].lp = g[data[b][k].token]
  BY <1>2, <1>3 DEF ScoredBy
<1>5. data[b][k].token \in Token
  BY <1>1, EntryFacts DEF TokenAt
<1> QED BY <1>1, <1>3, <1>4, <1>5

TreeInv == Levels /\ ParentsFirst /\ Scores

LEMMA TreeInit == Init => TreeInv
<1> SUFFICES ASSUME Init PROVE TreeInv
  OBVIOUS
<1>1. Shape /\ token = 0 /\ all_beams = <<1>>
  BY ShapeInit DEF Init
<1>2. tree[1] = [parent |-> 0, data |-> <<>>, tokens |-> BeginTokens,
                 cum |-> 0, reason |-> "length"] /\ Len(tree) = 1
  BY DEF Init
<1>3. BeginTokens \in Seq(ToSet(BeginTokens))
  BY <1>1, TheCall DEF Shape
<1>4. Path(1) = BeginTokens
  <2>1. BeginTokens \o <<>> = BeginTokens
    BY <1>3, ConcatEmptySeq
  <2> QED BY <1>2, <2>1 DEF Path
<1>5. Len(BeginTokens) \in Nat
  BY <1>3
<1>6. Levels
  <2>1. \A n \in 1..1 : n = 1
    OBVIOUS
  <2>2. Len(all_beams) = 1 /\ all_beams[1] = 1
    BY <1>1
  <2> QED BY <1>1, <1>2, <1>4, <1>5, <2>1, <2>2 DEF Levels
<1>7. ParentsFirst
  <2>1. \A n \in 1..1 : n = 1
    OBVIOUS
  <2> QED BY <1>2, <2>1 DEF ParentsFirst
<1>8. Scores
  <2>1. \A n \in 1..1 : n = 1
    OBVIOUS
  <2> QED BY <1>2, <2>1 DEF Scores, Charged
<1> QED BY <1>6, <1>7, <1>8 DEF TreeInv

LEMMA StartLength ==
    ASSUME Shape, Levels, NEW i \in Places
    PROVE  Len(StartOf(i)) = Len(BeginTokens) + token
<1>1. ParentOf(i) \in 1..Len(all_beams)
  BY PlaceFacts
<1>2. Path(all_beams[ParentOf(i)]) = StartOf(i)
  BY <1>1, PathOfBeam DEF StartOf
<1> QED BY <1>1, <1>2 DEF Levels

LEMMA LevelsStep ==
    ASSUME Shape, Levels, Step
    PROVE  Levels'
<1>1. PICK f, data, e, t : Chosen(f, data, e, t)
  BY StepIs
<1>2. GrownTo(data, e, t)
  BY <1>1, GrownIs
<1>3. request' = request /\ token' = token + 1 /\ token \in Nat
  BY TheCall DEF Step, Shape
<1>4. e \in Seq(Places) /\ t \in [1..BeamWidth -> Places]
  BY <1>1 DEF Chosen, Selected
<1>5. PICK l \in Nat : l = Len(BeginTokens) + token
  <2>1. Len(BeginTokens) \in Nat
    <3>1. BeginTokens \in Seq(ToSet(BeginTokens))
      BY TheCall DEF Shape
    <3> QED BY <3>1
  <2> QED BY <1>3, <2>1
<1>6. Len(BeginTokens') + token' = l + 1
  <2>1. BeginTokens' = BeginTokens
    BY <1>3, SameCall
  <2>2. Len(BeginTokens) \in Nat
    <3>1. BeginTokens \in Seq(ToSet(BeginTokens))
      BY TheCall DEF Shape
    <3> QED BY <3>1
  <2> QED BY <1>3, <1>5, <2>1, <2>2
<1>7. ASSUME NEW i \in Places, NEW x \in Token PROVE Len(Append(StartOf(i), x)) = l + 1
  <2>1. PICK s \in Seq(Token \cup ToSet(BeginTokens)) : s = StartOf(i)
    BY StartFacts
  <2>2. Len(s) = l
    BY <1>5, <2>1, StartLength
  <2>3. Len(Append(s, x)) = Len(s) + 1
    BY AppendProperties
  <2> QED BY <2>1, <2>2, <2>3
<1>8. /\ \A n \in 1..Len(tree) : Path(n)' = Path(n)
      /\ \A k \in 1..Len(e) : \A n \in Nat : n = Len(tree) + k =>
            Path(n)' = Append(StartOf(e[k]), Eos)
      /\ \A k \in 1..BeamWidth : \A n \in Nat : n = Len(tree) + Len(e) + k =>
            Path(n)' = Append(StartOf(t[k]), TokenAt(data, t[k]))
  BY <1>1, <1>3, PathStep
<1>9. ASSUME NEW n \in 1..Len(tree') PROVE Len(Path(n)') \in Nat /\ Len(Path(n)') <= l + 1
  <2>1. n \in Nat
    <3>1. Len(tree') \in Nat
      BY <1>2, ShapeFacts, TheCall DEF GrownTo, Shape
    <3> QED BY <3>1
  <2>2. CASE n \in 1..Len(tree)
    <3>1. Path(n)' = Path(n) /\ Len(Path(n)) \in Nat /\ Len(Path(n)) <= l
      BY <1>5, <1>8, <2>2 DEF Levels
    <3> QED BY <3>1
  <2>3. CASE \E k \in 1..Len(e) : n = Len(tree) + k
    <3>1. PICK k \in 1..Len(e) : n = Len(tree) + k
      BY <2>3
    <3>2. Path(n)' = Append(StartOf(e[k]), Eos) /\ e[k] \in Places
      BY <1>4, <1>8, <2>1, <3>1
    <3> QED BY <1>7, <3>2, TokenAssumption
  <2>4. CASE \E k \in 1..BeamWidth : n = Len(tree) + Len(e) + k
    <3>1. PICK k \in 1..BeamWidth : n = Len(tree) + Len(e) + k
      BY <2>4
    <3>2. Path(n)' = Append(StartOf(t[k]), TokenAt(data, t[k])) /\ t[k] \in Places
      BY <1>4, <1>8, <2>1, <3>1
    <3>3. TokenAt(data, t[k]) \in Token
      BY <1>1, <3>2, EntryFacts
    <3> QED BY <1>7, <3>2, <3>3
  <2> QED BY <1>2, <2>2, <2>3, <2>4, NodeCases
<1>10. ASSUME NEW b \in 1..Len(all_beams') PROVE Len(Path(all_beams[b])') = l + 1
  <2>1. b \in 1..BeamWidth /\ all_beams'[b] = Len(tree) + Len(e) + b
    BY <1>2 DEF GrownTo
  <2>2. PICK n \in Nat : n = all_beams'[b] /\ n = Len(tree) + Len(e) + b
    <3>1. BeamWidth \in Nat
      BY TheCall DEF Shape
    <3>2. b \in Nat
      BY <2>1, <3>1
    <3>3. Len(tree) \in Nat /\ Len(e) \in Nat
      BY <1>2, ShapeFacts DEF GrownTo
    <3> QED BY <2>1, <3>2, <3>3
  <2>3. Path(n)' = Append(StartOf(t[b]), TokenAt(data, t[b])) /\ t[b] \in Places
    BY <1>4, <1>8, <2>1, <2>2
  <2>4. TokenAt(data, t[b]) \in Token
    BY <1>1, <2>3, EntryFacts
  <2>5. Len(Path(n)') = l + 1
    BY <1>7, <2>3, <2>4
  <2> QED BY <2>2, <2>5 DEF Path
<1> QED BY <1>6, <1>9, <1>10 DEF Levels

LEMMA ParentsStep ==
    ASSUME Shape, ParentsFirst, Step
    PROVE  ParentsFirst'
<1>1. PICK f, data, e, t : Chosen(f, data, e, t)
  BY StepIs
<1>2. GrownTo(data, e, t)
  BY <1>1, GrownIs
<1>3. e \in Seq(Places) /\ t \in [1..BeamWidth -> Places]
  BY <1>1 DEF Chosen, Selected
<1>4. PICK m \in Nat : m = Len(tree)
  BY ShapeFacts
<1>5. PICK c \in Nat : c = Len(e)
  BY <1>2 DEF GrownTo
<1>6. PICK W \in Nat : W = BeamWidth
  BY TheCall DEF Shape
<1>7. ASSUME NEW n \in 1..Len(tree') PROVE tree'[n].parent \in 0..(n - 1)
  <2>1. CASE n \in 1..m
    BY <1>2, <1>4, <2>1 DEF GrownTo, ParentsFirst
  <2>2. CASE \E k \in 1..c : n = m + k
    <3>1. PICK k \in 1..c : n = m + k
      BY <2>2
    <3>2. tree'[n] = EosNode(data, e[k])
      BY <1>2, <1>4, <1>5, <3>1 DEF GrownTo
    <3>3. e[k] \in Places
      BY <1>3, <1>5
    <3>4. tree'[n].parent \in 1..m
      BY <1>4, <3>2, <3>3, PlaceFacts DEF EosNode
    <3> QED BY <3>1, <3>4
  <2>3. CASE \E k \in 1..W : n = m + c + k
    <3>1. PICK k \in 1..W : n = m + c + k
      BY <2>3
    <3>2. tree'[n] = KeptNode(data, t[k])
      BY <1>2, <1>4, <1>5, <1>6, <3>1 DEF GrownTo
    <3>3. t[k] \in Places
      BY <1>3, <1>6
    <3>4. tree'[n].parent \in 1..m
      BY <1>4, <3>2, <3>3, PlaceFacts DEF KeptNode
    <3> QED BY <3>1, <3>4
  <2> QED BY <1>2, <1>4, <1>5, <1>6, <2>1, <2>2, <2>3, NodeCases
<1> QED BY <1>7 DEF ParentsFirst

LEMMA ScoresStep ==
    ASSUME Shape, Scores, Step
    PROVE  Scores'
<1>1. PICK f, data, e, t : Chosen(f, data, e, t)
  BY StepIs
<1>2. GrownTo(data, e, t)
  BY <1>1, GrownIs
<1>3. e \in Seq(Places) /\ t \in [1..BeamWidth -> Places]
  BY <1>1 DEF Chosen, Selected
<1>4. PICK s \in Nat : s = token /\ token' = s + 1
  BY TheCall DEF Step, Shape
<1>5. LogProbs' = LogProbs /\ request \in DOMAIN Requests
  <2>1. request' = request
    BY DEF Step
  <2> QED BY <2>1, SameCall DEF Shape
<1>6. \A n \in 1..Len(tree) : Charged(tree[n].cum, s, LogProbs) /\ tree[n].cum \in Int
  BY <1>4, ShapeFacts DEF Scores
<1>7. \A n \in 1..Len(tree) : Charged(tree[n].cum, s + 1, LogProbs)
  <2> SUFFICES ASSUME NEW n \in 1..Len(tree) PROVE Charged(tree[n].cum, s + 1, LogProbs)
    OBVIOUS
  <2>1. PICK x \in Int : x = tree[n].cum /\ Charged(x, s, LogProbs)
    BY <1>6
  <2>2. Charged(x, s + 1, LogProbs)
    BY <1>5, <2>1, ChargedOnce
  <2> QED BY <2>1, <2>2
<1>8. ASSUME NEW i \in Places
      PROVE  Charged(ScoreAt(data, i), s + 1, LogProbs)
             /\ Charged(KeptScoreAt(data, i), s + 1, LogProbs)
  <2>1. PICK x \in Int : x = tree[all_beams[ParentOf(i)]].cum /\ Charged(x, s, LogProbs)
    BY <1>6, PlaceFacts
  <2>2. PICK l : l = data[ParentOf(i)][RankOf(i)].lp
    OBVIOUS
  <2>3. l = NegInf \/ \E g \in LogProbs, u \in Token : l = g[u]
    BY <1>1, <2>2, EntryIsCharged
  <2>4. Charged(Plus(x, l), s + 1, LogProbs)
    BY <1>5, <2>1, <2>3, ChargedOnce
  <2>5. Charged(ScoreAt(data, i), s + 1, LogProbs)
    BY <2>1, <2>2, <2>4 DEF ScoreAt
  <2>6. Charged(NegInf, s + 1, LogProbs)
    BY DEF Charged
  <2> QED BY <2>5, <2>6 DEF KeptScoreAt
<1>9. ASSUME NEW n \in 1..Len(tree') PROVE Charged(tree'[n].cum, s + 1, LogProbs)
  <2>1. CASE n \in 1..Len(tree)
    BY <1>2, <1>7, <2>1 DEF GrownTo
  <2>2. CASE \E k \in 1..Len(e) : n = Len(tree) + k
    <3>1. PICK k \in 1..Len(e) : n = Len(tree) + k
      BY <2>2
    <3>2. tree'[n] = EosNode(data, e[k]) /\ e[k] \in Places
      <4>1. tree'[Len(tree) + k] = EosNode(data, e[k])
        BY <1>2 DEF GrownTo
      <4> QED BY <1>3, <3>1, <4>1
    <3>3. tree'[n].cum = ScoreAt(data, e[k])
      BY <3>2 DEF EosNode
    <3> QED BY <1>8, <3>2, <3>3
  <2>3. CASE \E k \in 1..BeamWidth : n = Len(tree) + Len(e) + k
    <3>1. PICK k \in 1..BeamWidth : n = Len(tree) + Len(e) + k
      BY <2>3
    <3>2. tree'[n] = KeptNode(data, t[k]) /\ t[k] \in Places
      <4>1. tree'[Len(tree) + Len(e) + k] = KeptNode(data, t[k])
        BY <1>2 DEF GrownTo
      <4> QED BY <1>3, <3>1, <4>1
    <3>3. tree'[n].cum = KeptScoreAt(data, t[k])
      BY <3>2 DEF KeptNode
    <3> QED BY <1>8, <3>2, <3>3
  <2> QED BY <1>2, <2>1, <2>2, <2>3, NodeCases
<1> QED BY <1>4, <1>5, <1>9 DEF Scores

LEMMA TreeStep == Shape /\ TreeInv /\ [Next]_vars => TreeInv'
<1> SUFFICES ASSUME Shape, TreeInv, [Next]_vars PROVE TreeInv'
  OBVIOUS
<1>1. CASE Step
  BY <1>1, LevelsStep, ParentsStep, ScoresStep DEF TreeInv
<1>2. CASE UNCHANGED <<request, token, tree, all_beams, completed>>
  <2>1. /\ BeginTokens' = BeginTokens /\ IncludeStop' = IncludeStop /\ LogProbs' = LogProbs
    BY <1>2, SameCall
  <2>2. Levels'
    BY <1>2, <2>1 DEF TreeInv, Levels, Path
  <2>3. ParentsFirst' /\ Scores'
    BY <1>2, <2>1 DEF TreeInv, ParentsFirst, Scores
  <2> QED BY <2>2, <2>3 DEF TreeInv
<1> QED BY <1>1, <1>2, NextCases

-----------------------------------------------------------------------------
(* The answer *)

\* s ranks the beams in `finals' by their score in the tree tr, best first.
Ranks(s, finals, tr) ==
    /\ s \in [1..Len(finals) -> 1..Len(finals)]
    /\ \A i \in 1..Len(finals) : \E k \in 1..Len(finals) : s[k] = i
    /\ \A j, k \in 1..Len(finals) : s[j] = s[k] => j = k
    /\ \A j, k \in 1..Len(finals) :
          j < k => tr[finals[s[j]]].cum >= tr[finals[s[k]]].cum

\* An answer is made of the width best ones, in order.
MadeOf(outs, s, finals, tr, beams, ends, width) ==
    /\ Len(outs) = IF width <= Len(finals) THEN width ELSE Len(finals)
    /\ DOMAIN outs = 1..Len(outs)
    /\ \A k \in 1..Len(outs) :
          /\ outs[k].tokens = tr[finals[s[k]]].tokens
                                \o IF finals[s[k]] \in ToSet(beams) THEN ends ELSE <<>>
          /\ outs[k].cum = tr[finals[s[k]]].cum

LEMMA FinalsAre ==
    ASSUME Shape
    PROVE  /\ Finals \in Seq(1..Len(tree))
           /\ Len(Finals) = Len(completed) + Len(all_beams) /\ Len(Finals) \in Nat
           /\ \A k \in 1..Len(completed) : Finals[k] = completed[k]
           /\ \A b \in 1..Len(all_beams) : Finals[Len(completed) + b] = all_beams[b]
           /\ \A k \in 1..Len(Finals) : Finals[k] \in 1..Len(tree) /\ tree[Finals[k]].cum \in Int
<1>1. PICK u : u = completed \o all_beams
  OBVIOUS
<1>2. PICK c \in Nat : c = Len(completed)
  BY ShapeFacts
<1>3. PICK B \in Nat : B = Len(all_beams)
  BY ShapeFacts
<1>4. completed \in Seq(1..Len(tree)) /\ all_beams \in Seq(1..Len(tree))
  BY DEF Shape
<1>5. /\ completed \o all_beams \in Seq(1..Len(tree))
      /\ Len(completed \o all_beams) = Len(completed) + Len(all_beams)
      /\ \A i \in 1..(Len(completed) + Len(all_beams)) :
            (completed \o all_beams)[i] = IF i <= Len(completed) THEN completed[i]
                                          ELSE all_beams[i - Len(completed)]
  BY <1>4, ConcatProperties
<1>6. /\ u \in Seq(1..Len(tree)) /\ Len(u) = c + B
      /\ \A i \in 1..(c + B) : u[i] = IF i <= c THEN completed[i] ELSE all_beams[i - c]
  BY <1>1, <1>2, <1>3, <1>5
<1>7. \A k \in 1..c : u[k] = completed[k]
  <2>1. \A k \in 1..c : k \in 1..(c + B) /\ k <= c
    OBVIOUS
  <2> QED BY <1>6, <2>1
<1>8. \A b \in 1..B : u[c + b] = all_beams[b]
  <2>1. \A b \in 1..B : c + b \in 1..(c + B) /\ ~(c + b <= c) /\ (c + b) - c = b
    OBVIOUS
  <2> QED BY <1>6, <2>1
<1>9. \A k \in 1..(c + B) : u[k] \in 1..Len(tree)
  BY <1>6
<1>10. \A k \in 1..(c + B) : tree[u[k]].cum \in Int
  BY <1>9, ShapeFacts
<1>11. Finals = u
  BY <1>1 DEF Finals
<1> QED BY <1>2, <1>3, <1>6, <1>7, <1>8, <1>9, <1>10, <1>11

LEMMA BestBeamsAre ==
    ASSUME Shape
    PROVE  \E s : /\ Ranks(s, Finals, tree)
                  /\ BestBeams = [k \in 1..(IF BeamWidth <= Len(Finals) THEN BeamWidth
                                            ELSE Len(Finals)) |-> Finals[s[k]]]
<1>1. PICK N \in Nat : N = Len(Finals)
  BY FinalsAre
<1>2. PICK W \in Nat : W = BeamWidth
  BY TheCall DEF Shape
<1>3. DOMAIN Finals = 1..N
  BY <1>1, FinalsAre
<1> DEFINE cum(i) == tree[Finals[i]].cum
           R == {p \in (1..N) \X (1..N) : \/ cum(p[1]) > cum(p[2])
                                          \/ cum(p[1]) = cum(p[2]) /\ p[1] < p[2]}
<1>4. \A i \in 1..N : cum(i) \in Int
  BY <1>1, FinalsAre
<1>5. \A i, j \in 1..N : <<i, j>> \in R <=> cum(i) > cum(j) \/ (cum(i) = cum(j) /\ i < j)
  OBVIOUS
<1>6. BestBeams = [k \in 1..Min({W, N}) |-> Finals[InOrder(1..N, R)[k]]]
  BY <1>1, <1>2, <1>3 DEF BestBeams
<1> HIDE DEF R, cum
<1>7. StrictOrder(1..N, R)
  <2>1. ASSUME NEW x \in 1..N, NEW y \in 1..N, NEW z \in 1..N, <<x, y>> \in R, <<y, z>> \in R
        PROVE  <<x, z>> \in R
    <3>1. cum(x) \in Int /\ cum(y) \in Int /\ cum(z) \in Int
      BY <1>4
    <3>2. /\ cum(x) > cum(y) \/ (cum(x) = cum(y) /\ x < y)
          /\ cum(y) > cum(z) \/ (cum(y) = cum(z) /\ y < z)
      BY <1>5, <2>1
    <3>3. cum(x) > cum(z) \/ (cum(x) = cum(z) /\ x < z)
      BY <3>1, <3>2
    <3> QED BY <1>5, <3>3
  <2>2. ASSUME NEW x \in 1..N, NEW y \in 1..N, x # y PROVE <<x, y>> \in R \/ <<y, x>> \in R
    <3>1. cum(x) \in Int /\ cum(y) \in Int
      BY <1>4
    <3>2. \/ cum(x) > cum(y) \/ (cum(x) = cum(y) /\ x < y)
          \/ cum(y) > cum(x) \/ (cum(y) = cum(x) /\ y < x)
      BY <2>2, <3>1
    <3> QED BY <1>5, <3>2
  <2>3. ASSUME NEW x \in 1..N PROVE <<x, x>> \notin R
    <3>1. cum(x) \in Int
      BY <1>4
    <3> QED BY <1>5, <3>1
  <2> QED BY <2>1, <2>2, <2>3 DEF StrictOrder
<1>8. IsFiniteSet(1..N) /\ Cardinality(1..N) = N
  BY FS_Interval
<1>9. PICK s : s = InOrder(1..N, R)
  OBVIOUS
<1>10. Ordered(s, 1..N, R)
  BY <1>7, <1>8, <1>9, InOrderIs
<1>11. /\ s \in [1..N -> 1..N]
       /\ \A i \in 1..N : \E k \in 1..N : s[k] = i
       /\ \A j, k \in 1..N : s[j] = s[k] => j = k
       /\ \A j, k \in 1..N : j < k => <<s[j], s[k]>> \in R
  BY <1>8, <1>10 DEF Ordered
<1>12. ASSUME NEW j \in 1..N, NEW k \in 1..N, j < k PROVE cum(s[j]) >= cum(s[k])
  <2>1. s[j] \in 1..N /\ s[k] \in 1..N /\ <<s[j], s[k]>> \in R
    BY <1>11, <1>12
  <2>2. cum(s[j]) \in Int /\ cum(s[k]) \in Int
    BY <1>4, <2>1
  <2> QED BY <1>5, <2>1, <2>2
<1>13. Ranks(s, Finals, tree)
  BY <1>1, <1>11, <1>12 DEF Ranks, cum
<1>14. Min({W, N}) = IF W <= N THEN W ELSE N
  <2>1. \E x \in {W, N} : \A y \in {W, N} : x <= y
    OBVIOUS
  <2> QED BY <2>1 DEF Min
<1> QED BY <1>1, <1>2, <1>6, <1>9, <1>13, <1>14

\* What was answered was the best of what there was.
AnsweredFrom(outs, finals, tr, beams, ends, width) ==
    \E s : Ranks(s, finals, tr) /\ MadeOf(outs, s, finals, tr, beams, ends, width)

Answered ==
    IF phase = "loop" THEN outputs = <<>>
    ELSE token = NumSteps
         /\ AnsweredFrom(outputs, Finals, tree, all_beams, EndTokens, BeamWidth)

LEMMA AnsweredStep == Shape /\ Answered /\ [Next]_vars => Answered'
<1> SUFFICES ASSUME Shape, Answered, [Next]_vars PROVE Answered'
  OBVIOUS
<1>1. CASE Step
  BY <1>1 DEF Step, Answered
<1>2. CASE Finish
  <2>1. /\ phase = "loop" /\ token = NumSteps /\ phase' = "done"
        /\ outputs' = [k \in DOMAIN BestBeams |-> Answer(BestBeams[k])]
        /\ UNCHANGED <<request, token, tree, all_beams, completed>>
    BY <1>2 DEF Finish
  <2>2. PICK s : /\ Ranks(s, Finals, tree)
                 /\ BestBeams = [k \in 1..(IF BeamWidth <= Len(Finals) THEN BeamWidth
                                           ELSE Len(Finals)) |-> Finals[s[k]]]
    BY BestBeamsAre
  <2>3. PICK M \in Nat : M = IF BeamWidth <= Len(Finals) THEN BeamWidth ELSE Len(Finals)
    <3>1. BeamWidth \in Nat /\ Len(Finals) \in Nat
      BY TheCall, FinalsAre DEF Shape
    <3> QED BY <3>1
  <2>4. BestBeams = [k \in 1..M |-> Finals[s[k]]]
    BY <2>2, <2>3
  <2>5. outputs' = [k \in 1..M |-> Answer(Finals[s[k]])]
    <3>1. DOMAIN BestBeams = 1..M /\ \A k \in 1..M : BestBeams[k] = Finals[s[k]]
      BY <2>4
    <3> QED BY <2>1, <3>1
  <2>6. Len(outputs') = M /\ DOMAIN outputs' = 1..M
    BY <2>5
  <2>7. ASSUME NEW k \in 1..M
        PROVE  /\ outputs'[k].tokens = tree[Finals[s[k]]].tokens
                    \o IF Finals[s[k]] \in ToSet(all_beams) THEN EndTokens ELSE <<>>
               /\ outputs'[k].cum = tree[Finals[s[k]]].cum
    <3>1. PICK n : n = Finals[s[k]]
      OBVIOUS
    <3>2. outputs'[k] = Answer(n)
      BY <2>5, <3>1
    <3>3. Answer(n).tokens = tree[n].tokens \o IF n \in ToSet(all_beams) THEN EndTokens ELSE <<>>
      BY DEF Answer
    <3>4. Answer(n).cum = tree[n].cum
      BY DEF Answer
    <3> QED BY <3>1, <3>2, <3>3, <3>4
  <2>8. MadeOf(outputs', s, Finals, tree, all_beams, EndTokens, BeamWidth)
    BY <2>3, <2>6, <2>7 DEF MadeOf
  <2>9. AnsweredFrom(outputs', Finals, tree, all_beams, EndTokens, BeamWidth)
    BY <2>2, <2>8 DEF AnsweredFrom
  <2>10. Finals' = Finals
    BY <2>1 DEF Finals
  <2>11. EndTokens' = EndTokens /\ BeamWidth' = BeamWidth /\ NumSteps' = NumSteps
    BY <2>1, SameCall
  <2> QED BY <2>1, <2>9, <2>10, <2>11 DEF Answered
<1>3. CASE UNCHANGED vars
  <2>1. UNCHANGED <<request, token, tree, all_beams, completed, phase, outputs>>
    BY <1>3 DEF vars
  <2>2. Finals' = Finals
    BY <2>1 DEF Finals
  <2>3. EndTokens' = EndTokens /\ BeamWidth' = BeamWidth /\ NumSteps' = NumSteps
    BY <2>1, SameCall
  <2> QED BY <2>1, <2>2, <2>3 DEF Answered
<1> QED BY <1>1, <1>2, <1>3 DEF Next, Terminated

LEMMA AnsweredInit == Init => Answered
  BY DEF Init, Answered

SearchInv == Shape /\ TreeInv /\ Answered

\* The inductive invariant of the search.
THEOREM SearchInvariant == Spec => []SearchInv
<1>1. Init => SearchInv
  BY ShapeInit, TreeInit, AnsweredInit DEF SearchInv
<1>2. SearchInv /\ [Next]_vars => SearchInv'
  BY ShapeStep, TreeStep, AnsweredStep DEF SearchInv
<1> QED BY <1>1, <1>2, PTL DEF Spec

LEMMA SearchTyped == SearchInv => TypeOK
<1> SUFFICES ASSUME SearchInv PROVE TypeOK
  OBVIOUS
<1>1. Shape /\ Levels /\ ParentsFirst /\ Scores /\ Answered
  BY DEF SearchInv, TreeInv
<1>2. request \in DOMAIN Requests /\ token \in 0..NumSteps /\ phase \in {"loop", "done"}
  BY <1>1 DEF Shape
<1>3. NumSteps \in Nat /\ NegInf \in Int /\ NegInf < 0
  BY <1>2, TheCall, LogProbAssumption
<1>4. DOMAIN tree = 1..Len(tree)
  BY <1>1, ShapeFacts
<1>5. ASSUME NEW n \in 1..Len(tree)
      PROVE  tree[n].cum = NegInf \/ tree[n].cum \in (NegInf + 1)..0
  <2>1. PICK x \in Int : x = tree[n].cum /\ Charged(x, token, LogProbs)
    BY <1>1, ShapeFacts DEF Scores
  <2>2. CASE x = 0
    BY <1>3, <2>1, <2>2
  <2>3. CASE \E f \in LogProbs, u \in Token : x <= 0 /\ token * f[u] <= x
    <3>1. PICK f \in LogProbs, u \in Token : x <= 0 /\ token * f[u] <= x
      BY <2>3
    <3>2. PICK y \in Int : y = f[u] /\ y <= 0 /\ NumSteps * y > NegInf
      BY <1>2, LogProbsAre
    <3>3. PICK k \in Nat : k = token /\ k <= NumSteps
      BY <1>2, <1>3
    <3>4. PICK d \in Nat : NumSteps = k + d
      <4>1. NumSteps - k \in Nat /\ NumSteps = k + (NumSteps - k)
        BY <1>3, <3>3
      <4> QED BY <4>1
    <3>5. (k + d) * y = k * y + d * y
      OBVIOUS
    <3>6. d * y <= 0
      <4>1. d * y <= d * 0
        BY <3>2, Times
      <4> QED BY <4>1
    <3>7. PICK p \in Int : p = k * y
      OBVIOUS
    <3>8. PICK q \in Int : q = d * y
      OBVIOUS
    <3>9. p + q > NegInf
      BY <3>2, <3>4, <3>5, <3>7, <3>8
    <3>10. q <= 0 /\ p <= x /\ x <= 0
      BY <3>1, <3>2, <3>3, <3>6, <3>7, <3>8
    <3>11. x > NegInf
      BY <1>3, <3>9, <3>10
    <3> QED BY <1>3, <2>1, <3>10, <3>11
  <2> QED BY <2>1, <2>2, <2>3 DEF Charged
<1>6. ASSUME NEW n \in 1..Len(tree)
      PROVE  /\ tree[n].parent \in 0..(n - 1)
             /\ tree[n].tokens \in Seq(Token \cup ToSet(BeginTokens))
             /\ Len(Path(n)) <= Len(BeginTokens) + token
  <2>1. tree[n] \in Node
    BY <1>1, ShapeFacts
  <2> QED BY <1>1, <2>1 DEF Node, ParentsFirst, Levels
<1>7. Len(all_beams) <= BeamWidth
  BY <1>1, ShapeFacts
<1>8. Live \subseteq DOMAIN tree
  <2>1. \A b \in DOMAIN all_beams : all_beams[b] \in 1..Len(tree)
    BY <1>1, ShapeFacts
  <2>2. \A k \in DOMAIN completed : completed[k] \in 1..Len(tree)
    BY <1>1, ShapeFacts
  <2> QED BY <1>4, <2>1, <2>2 DEF Live, ToSet
<1>9. Len(outputs) <= BeamWidth
  <2>1. BeamWidth \in Nat
    BY <1>2, TheCall
  <2>2. CASE phase = "loop"
    BY <1>1, <2>1, <2>2 DEF Answered
  <2>3. CASE phase # "loop"
    <3>1. Len(outputs) = IF BeamWidth <= Len(Finals) THEN BeamWidth ELSE Len(Finals)
      BY <1>1, <2>3 DEF Answered, AnsweredFrom, MadeOf
    <3>2. Len(Finals) \in Nat
      BY <1>1, FinalsAre
    <3> QED BY <2>1, <3>1, <3>2
  <2> QED BY <2>2, <2>3
<1> QED BY <1>2, <1>4, <1>5, <1>6, <1>7, <1>8, <1>9 DEF TypeOK

\* In every state the variables have their types: a score is -inf or a sum of
\* log-probabilities that stays above it, a parent comes before its children,
\* and no more sequences are answered than were asked for.
THEOREM TypeCorrect == Spec => []TypeOK
  BY SearchInvariant, SearchTyped, PTL

-----------------------------------------------------------------------------
(* Distinct beams *)

BeamsApart == \A a, b \in 1..Len(all_beams) : all_beams[a] = all_beams[b] => a = b

\* A beam of finite score that a step made: the candidate it was.
BornOf(n, i, data, e, t) ==
    /\ i \in Places /\ ScoreAt(data, i) # NegInf
    /\ \/ EndsAt(data, i) /\ \E k \in 1..Len(e) : e[k] = i /\ n = Len(tree) + k
       \/ ~EndsAt(data, i) /\ \E k \in 1..BeamWidth : t[k] = i /\ n = Len(tree) + Len(e) + k

LEMMA EndedIsBorn ==
    ASSUME Shape, NEW f, NEW data, NEW e, NEW t, Chosen(f, data, e, t),
           NEW k \in 1..Len(e), NEW n, n = Len(tree) + k, tree'[n].cum # NegInf
    PROVE  BornOf(n, e[k], data, e, t)
<1>1. tree'[n] = EosNode(data, e[k])
  <2>1. GrownTo(data, e, t)
    BY GrownIs
  <2> QED BY <2>1 DEF GrownTo
<1>2. e[k] \in Places /\ EndsAt(data, e[k])
  BY DEF Chosen, Selected
<1> QED BY <1>1, <1>2 DEF EosNode, BornOf

LEMMA KeptIsBorn ==
    ASSUME Shape, NEW f, NEW data, NEW e, NEW t, Chosen(f, data, e, t),
           NEW k \in 1..BeamWidth, NEW n, n = Len(tree) + Len(e) + k, tree'[n].cum # NegInf
    PROVE  BornOf(n, t[k], data, e, t)
<1>1. tree'[n] = KeptNode(data, t[k])
  <2>1. GrownTo(data, e, t)
    BY GrownIs
  <2> QED BY <2>1 DEF GrownTo
<1>2. t[k] \in Places
  BY DEF Chosen, Selected
<1>3. KeptScoreAt(data, t[k]) # NegInf
  BY <1>1 DEF KeptNode
<1>4. ~EndsAt(data, t[k]) /\ ScoreAt(data, t[k]) # NegInf
  BY <1>3 DEF KeptScoreAt
<1> QED BY <1>2, <1>4 DEF BornOf

LEMMA BornPath ==
    ASSUME Shape, NEW f, NEW data, NEW e, NEW t, Chosen(f, data, e, t), request' = request,
           NEW n \in Nat, NEW i, BornOf(n, i, data, e, t)
    PROVE  Path(n)' = Append(StartOf(i), TokenAt(data, i))
<1>1. CASE EndsAt(data, i)
  <2>1. PICK k \in 1..Len(e) : e[k] = i /\ n = Len(tree) + k
    BY <1>1 DEF BornOf
  <2>2. TokenAt(data, i) = Eos
    BY <1>1 DEF EndsAt
  <2> QED BY <2>1, <2>2, PathStep
<1>2. CASE ~EndsAt(data, i)
  <2>1. PICK k \in 1..BeamWidth : t[k] = i /\ n = Len(tree) + Len(e) + k
    BY <1>2 DEF BornOf
  <2> QED BY <2>1, PathStep
<1> QED BY <1>1, <1>2

\* The live beams after a step.
LEMMA LiveCases ==
    ASSUME Shape, NEW f, NEW data, NEW e, NEW t, Chosen(f, data, e, t), NEW n \in Live',
           tree'[n].cum # NegInf
    PROVE  /\ n \in Nat
           /\ \/ /\ n \in ToSet(completed) /\ n \in Live /\ n \in 1..Len(tree)
                 /\ tree'[n] = tree[n]
              \/ \E i : BornOf(n, i, data, e, t)
<1>1. GrownTo(data, e, t)
  BY GrownIs
<1>2. PICK c \in Nat : c = Len(completed)
  BY ShapeFacts
<1>3. PICK m \in Nat : m = Len(e)
  BY <1>1 DEF GrownTo
<1>4. PICK N \in Nat : N = Len(tree)
  BY ShapeFacts
<1>5. PICK W \in Nat : W = BeamWidth
  BY TheCall DEF Shape
<1>6. DOMAIN all_beams' = 1..W /\ DOMAIN completed' = 1..(c + m)
  <2>1. all_beams' \in Seq(1..Len(tree')) /\ Len(all_beams') = W
    BY <1>1, <1>5 DEF GrownTo
  <2>2. completed' \in Seq(1..Len(tree')) /\ Len(completed') = c + m
    BY <1>1, <1>2, <1>3 DEF GrownTo
  <2> QED BY <2>1, <2>2
<1>7. (\E b \in 1..W : n = all_beams'[b]) \/ (\E k \in 1..(c + m) : n = completed'[k])
  BY <1>6 DEF Live, ToSet
<1>8. CASE \E b \in 1..W : n = all_beams'[b]
  <2>1. PICK b \in 1..W : n = all_beams'[b]
    BY <1>8
  <2>2. n = N + m + b
    BY <1>1, <1>3, <1>4, <1>5, <2>1 DEF GrownTo
  <2>3. BornOf(n, t[b], data, e, t)
    BY <1>3, <1>4, <1>5, <2>2, KeptIsBorn
  <2> QED BY <2>2, <2>3
<1>9. CASE \E k \in 1..(c + m) : n = completed'[k]
  <2>1. PICK k \in 1..(c + m) : n = completed'[k]
    BY <1>9
  <2>2. CASE k <= c
    <3>1. k \in 1..c /\ n = completed[k]
      BY <1>1, <1>2, <2>1, <2>2 DEF GrownTo
    <3>2. n \in ToSet(completed) /\ n \in 1..N
      BY <1>2, <1>4, <3>1, ShapeFacts DEF ToSet
    <3>3. tree'[n] = tree[n]
      BY <1>1, <1>4, <3>2 DEF GrownTo
    <3> QED BY <1>4, <3>2, <3>3 DEF Live
  <2>3. CASE ~(k <= c)
    <3>1. PICK j \in 1..m : k = c + j
      <4>1. k - c \in 1..m /\ k = c + (k - c)
        BY <2>3
      <4> QED BY <4>1
    <3>2. n = N + j
      BY <1>1, <1>2, <1>3, <1>4, <2>1, <3>1 DEF GrownTo
    <3>3. BornOf(n, e[j], data, e, t)
      BY <1>3, <1>4, <3>2, EndedIsBorn
    <3> QED BY <3>2, <3>3
  <2> QED BY <2>2, <2>3
<1> QED BY <1>7, <1>8, <1>9

LEMMA AppendApart ==
    ASSUME NEW S, NEW s \in Seq(S), NEW u \in Seq(S), NEW x \in S, NEW y \in S,
           Append(s, x) = Append(u, y)
    PROVE  s = u /\ x = y
<1>1. PICK m \in Nat : m = Len(s)
  OBVIOUS
<1>2. PICK n \in Nat : n = Len(u)
  OBVIOUS
<1>3. Len(Append(s, x)) = m + 1 /\ Append(s, x)[m + 1] = x
      /\ \A k \in 1..m : Append(s, x)[k] = s[k]
  BY <1>1, AppendProperties
<1>4. Len(Append(u, y)) = n + 1 /\ Append(u, y)[n + 1] = y
      /\ \A k \in 1..n : Append(u, y)[k] = u[k]
  BY <1>2, AppendProperties
<1>5. m = n /\ x = y
  BY <1>3, <1>4
<1>6. s = u
  BY <1>1, <1>2, <1>3, <1>4, <1>5
<1> QED BY <1>5, <1>6

\* The sampled token is no second entry of a row, and the beams are not the
\* same: two candidates of finite score are different continuations.
LEMMA CandidatesApart ==
    ASSUME Shape, BeamsAreDistinct, BeamsApart,
           NEW f, NEW data, NEW e, NEW t, Chosen(f, data, e, t),
           NEW i \in Places, NEW j \in Places, i # j,
           ScoreAt(data, i) # NegInf, ScoreAt(data, j) # NegInf
    PROVE  Append(StartOf(i), TokenAt(data, i)) # Append(StartOf(j), TokenAt(data, j))
<1> SUFFICES ASSUME Append(StartOf(i), TokenAt(data, i)) = Append(StartOf(j), TokenAt(data, j))
             PROVE  FALSE
  OBVIOUS
<1>1. StartOf(i) = StartOf(j) /\ TokenAt(data, i) = TokenAt(data, j)
  <2> DEFINE S == Token \cup ToSet(BeginTokens)
  <2>1. StartOf(i) \in Seq(S) /\ StartOf(j) \in Seq(S)
    BY StartFacts
  <2>2. TokenAt(data, i) \in S /\ TokenAt(data, j) \in S
    BY EntryFacts
  <2> HIDE DEF S
  <2> QED BY <2>1, <2>2, AppendApart
<1>2. PICK a, b : a = ParentOf(i) /\ b = ParentOf(j)
  OBVIOUS
<1>3. a \in 1..Len(all_beams) /\ b \in 1..Len(all_beams)
  BY <1>2, PlaceFacts
<1>4. tree[all_beams[a]].cum # NegInf /\ tree[all_beams[b]].cum # NegInf
  BY <1>2 DEF ScoreAt, Plus
<1>5. Path(all_beams[a]) = Path(all_beams[b])
  BY <1>1, <1>2, <1>3, PathOfBeam DEF StartOf
<1>6. all_beams[a] \in Live /\ all_beams[b] \in Live
  BY <1>3, ShapeFacts DEF Live, ToSet
<1>7. a = b
  BY <1>3, <1>4, <1>5, <1>6 DEF BeamsAreDistinct, BeamsApart
<1>8. ScoredBy(data[a], a, f[a])
  BY <1>3 DEF Chosen
<1>9. RankOf(i) \in 1..BeamWidth /\ RankOf(j) \in 1..BeamWidth
  BY PlaceFacts
<1>10. data[a][RankOf(i)].token = data[a][RankOf(j)].token
  BY <1>1, <1>2, <1>7 DEF TokenAt
<1>11. RankOf(i) = RankOf(j)
  BY <1>8, <1>9, <1>10 DEF ScoredBy
<1> QED BY <1>2, <1>7, <1>11, PlaceFacts

LEMMA DistinctStep ==
    ASSUME Shape, Levels, BeamsApart, BeamsAreDistinct, Step
    PROVE  BeamsAreDistinct'
<1>1. PICK f, data, e, t : Chosen(f, data, e, t)
  BY StepIs
<1>2. request' = request /\ token \in Nat /\ token' = token + 1
  BY TheCall DEF Step, Shape
<1>3. ASSUME NEW n \in Live', NEW o \in Live', n # o,
             tree'[n].cum # NegInf, tree'[o].cum # NegInf
      PROVE  Path(n)' # Path(o)'
  <2>1. n \in Nat /\ o \in Nat
    BY <1>1, <1>3, LiveCases
  <2> DEFINE Old(x) == /\ x \in ToSet(completed) /\ x \in Live /\ x \in 1..Len(tree)
                       /\ tree'[x] = tree[x]
             New(x) == \E i : BornOf(x, i, data, e, t)
  <2>2. Old(n) \/ New(n)
    BY <1>1, <1>3, LiveCases
  <2>3. Old(o) \/ New(o)
    BY <1>1, <1>3, LiveCases
  <2>4. PICK l \in Nat : l = Len(BeginTokens) + token
    <3>1. BeginTokens \in Seq(ToSet(BeginTokens))
      BY TheCall DEF Shape
    <3>2. Len(BeginTokens) \in Nat
      BY <3>1
    <3> QED BY <1>2, <3>2
  <2>5. ASSUME NEW x, Old(x) PROVE Path(x)' = Path(x) /\ Len(Path(x)') \in Nat /\ Len(Path(x)') <= l
    <3>1. x \in 1..Len(tree)
      BY <2>5
    <3>2. Path(x)' = Path(x)
      BY <1>1, <1>2, <3>1, PathStep
    <3>3. Len(Path(x)) \in Nat /\ Len(Path(x)) <= l
      BY <2>4, <3>1 DEF Levels
    <3> QED BY <3>2, <3>3
  <2>6. ASSUME NEW x \in Nat, NEW i, BornOf(x, i, data, e, t)
        PROVE  /\ Path(x)' = Append(StartOf(i), TokenAt(data, i)) /\ i \in Places
               /\ Len(Path(x)') = l + 1 /\ ScoreAt(data, i) # NegInf
    <3>1. Path(x)' = Append(StartOf(i), TokenAt(data, i))
      BY <1>1, <1>2, <2>6, BornPath
    <3>2. i \in Places /\ ScoreAt(data, i) # NegInf
      BY <2>6 DEF BornOf
    <3>3. PICK s \in Seq(Token \cup ToSet(BeginTokens)) : s = StartOf(i) /\ Len(s) = l
      BY <2>4, <3>2, StartFacts, StartLength
    <3>4. TokenAt(data, i) \in Token
      BY <1>1, <3>2, EntryFacts
    <3>5. Len(Append(s, TokenAt(data, i))) = Len(s) + 1
      BY <3>4, AppendProperties
    <3> QED BY <3>1, <3>2, <3>3, <3>5
  <2>7. CASE Old(n) /\ Old(o)
    <3>1. Path(n) # Path(o)
      BY <1>3, <2>7 DEF BeamsAreDistinct
    <3> QED BY <2>5, <2>7, <3>1
  <2>8. CASE Old(n) /\ New(o)
    <3>1. Len(Path(n)') \in Nat /\ Len(Path(n)') <= l
      BY <2>5, <2>8
    <3>2. Len(Path(o)') = l + 1
      BY <2>1, <2>6, <2>8
    <3> QED BY <3>1, <3>2
  <2>9. CASE New(n) /\ Old(o)
    <3>1. Len(Path(o)') \in Nat /\ Len(Path(o)') <= l
      BY <2>5, <2>9
    <3>2. Len(Path(n)') = l + 1
      BY <2>1, <2>6, <2>9
    <3> QED BY <3>1, <3>2
  <2>10. CASE New(n) /\ New(o)
    <3>1. PICK i : BornOf(n, i, data, e, t)
      BY <2>10
    <3>2. PICK j : BornOf(o, j, data, e, t)
      BY <2>10
    <3>3. i # j
      <4> SUFFICES ASSUME i = j PROVE FALSE
        OBVIOUS
      <4>1. /\ \A x, y \in 1..Len(e) : e[x] = e[y] => x = y
            /\ \A x, y \in 1..BeamWidth : t[x] = t[y] => x = y
        BY <1>1 DEF Chosen, Selected
      <4>2. CASE EndsAt(data, i)
        <5>1. PICK x \in 1..Len(e) : e[x] = i /\ n = Len(tree) + x
          BY <3>1, <4>2 DEF BornOf
        <5>2. PICK y \in 1..Len(e) : e[y] = i /\ o = Len(tree) + y
          BY <3>2, <4>2 DEF BornOf
        <5> QED BY <1>3, <4>1, <5>1, <5>2
      <4>3. CASE ~EndsAt(data, i)
        <5>1. PICK x \in 1..BeamWidth : t[x] = i /\ n = Len(tree) + Len(e) + x
          BY <3>1, <4>3 DEF BornOf
        <5>2. PICK y \in 1..BeamWidth : t[y] = i /\ o = Len(tree) + Len(e) + y
          BY <3>2, <4>3 DEF BornOf
        <5> QED BY <1>3, <4>1, <5>1, <5>2
      <4> QED BY <4>2, <4>3
    <3>4. /\ Path(n)' = Append(StartOf(i), TokenAt(data, i)) /\ i \in Places
          /\ ScoreAt(data, i) # NegInf
      BY <2>1, <2>6, <3>1
    <3>5. /\ Path(o)' = Append(StartOf(j), TokenAt(data, j)) /\ j \in Places
          /\ ScoreAt(data, j) # NegInf
      BY <2>1, <2>6, <3>2
    <3>6. Append(StartOf(i), TokenAt(data, i)) # Append(StartOf(j), TokenAt(data, j))
      BY <1>1, <3>3, <3>4, <3>5, CandidatesApart
    <3> QED BY <3>4, <3>5, <3>6
  <2> QED BY <2>2, <2>3, <2>7, <2>8, <2>9, <2>10
<1> QED BY <1>3 DEF BeamsAreDistinct

LEMMA ApartStep ==
    ASSUME Shape, Step
    PROVE  BeamsApart'
<1>1. PICK f, data, e, t : Chosen(f, data, e, t)
  BY StepIs
<1>2. GrownTo(data, e, t)
  BY <1>1, GrownIs
<1>3. PICK m \in Nat : m = Len(tree) + Len(e)
  BY <1>2, ShapeFacts DEF GrownTo
<1>4. PICK W \in Nat : W = BeamWidth
  BY TheCall DEF Shape
<1>5. Len(all_beams') = W /\ \A k \in 1..W : all_beams'[k] = m + k
  BY <1>2, <1>3, <1>4 DEF GrownTo
<1> QED BY <1>5 DEF BeamsApart

Distinct == BeamsApart /\ BeamsAreDistinct

LEMMA DistinctInit == Init => Distinct
<1> SUFFICES ASSUME Init PROVE Distinct
  OBVIOUS
<1>1. all_beams = <<1>> /\ completed = <<>>
  BY DEF Init
<1>2. BeamsApart
  BY <1>1 DEF BeamsApart
<1>3. Live = {1}
  <2>1. DOMAIN all_beams = 1..1 /\ all_beams[1] = 1 /\ DOMAIN completed = {}
    BY <1>1
  <2> QED BY <2>1 DEF Live, ToSet
<1>4. BeamsAreDistinct
  BY <1>3 DEF BeamsAreDistinct
<1> QED BY <1>2, <1>4 DEF Distinct

LEMMA DistinctNext == Shape /\ TreeInv /\ Distinct /\ [Next]_vars => Distinct'
<1> SUFFICES ASSUME Shape, TreeInv, Distinct, [Next]_vars PROVE Distinct'
  OBVIOUS
<1>1. CASE Step
  BY <1>1, DistinctStep, ApartStep DEF Distinct, TreeInv
<1>2. CASE UNCHANGED <<request, token, tree, all_beams, completed>>
  <2>1. IncludeStop' = IncludeStop
    BY <1>2, SameCall
  <2>2. BeamsApart'
    BY <1>2 DEF Distinct, BeamsApart
  <2>3. \A n : Path(n)' = Path(n)
    BY <1>2, <2>1 DEF Path
  <2>4. Live' = Live
    BY <1>2 DEF Live
  <2>5. ASSUME NEW n \in Live', NEW o \in Live', n # o,
               tree'[n].cum # NegInf, tree'[o].cum # NegInf
        PROVE  Path(n)' # Path(o)'
    <3>1. Path(n) # Path(o)
      BY <1>2, <2>4, <2>5 DEF Distinct, BeamsAreDistinct
    <3> QED BY <2>3, <3>1
  <2>6. BeamsAreDistinct'
    BY <2>5 DEF BeamsAreDistinct
  <2> QED BY <2>2, <2>6 DEF Distinct
<1> QED BY <1>1, <1>2, NextCases

\* No continuation is searched, or answered, twice: neither the sampled token
\* on top of the best ones nor a beam that ended makes a second beam with the
\* same tokens.
THEOREM NoBeamTwice == Spec => []BeamsAreDistinct
<1>1. Init => Distinct
  BY DistinctInit
<1>2. SearchInv /\ Distinct /\ [Next]_vars => Distinct'
  BY DistinctNext DEF SearchInv
<1>3. Distinct => BeamsAreDistinct
  BY DEF Distinct
<1> QED BY <1>1, <1>2, <1>3, SearchInvariant, PTL DEF Spec

-----------------------------------------------------------------------------
(* The catalog *)

\* A beam that stopped stopped because its last token was Eos.
StopsAtEos ==
    \A n \in 1..Len(tree) : tree[n].reason = "stop" =>
        /\ ~IgnoreEos
        /\ \E s \in Seq(Token \cup ToSet(BeginTokens)) : Path(n) = Append(s, Eos)

\* A beam of finite score is on a path of the trie, once it has made a step.
OnTrie ==
    HasCatalog =>
        \A n \in Live : tree[n].cum # NegInf =>
            Path(n) \in Trie \/ (token = 0 /\ n \in ToSet(all_beams))

LEMMA StopsStep ==
    ASSUME Shape, StopsAtEos, Step
    PROVE  StopsAtEos'
<1>1. PICK f, data, e, t : Chosen(f, data, e, t)
  BY StepIs
<1>2. GrownTo(data, e, t)
  BY <1>1, GrownIs
<1>3. request' = request
  BY DEF Step
<1>4. IgnoreEos' = IgnoreEos /\ BeginTokens' = BeginTokens
  BY <1>3, SameCall
<1>5. \A k \in 1..Len(e) : e[k] \in Places /\ EndsAt(data, e[k])
  BY <1>1 DEF Chosen, Selected
<1>6. ASSUME NEW n \in 1..Len(tree'), tree'[n].reason = "stop"
      PROVE  /\ ~IgnoreEos
             /\ \E s \in Seq(Token \cup ToSet(BeginTokens)) : Path(n)' = Append(s, Eos)
  <2>1. CASE n \in 1..Len(tree)
    <3>1. tree'[n] = tree[n] /\ Path(n)' = Path(n)
      BY <1>1, <1>2, <1>3, <2>1, PathStep DEF GrownTo
    <3> QED BY <1>6, <2>1, <3>1 DEF StopsAtEos
  <2>2. CASE \E k \in 1..Len(e) : n = Len(tree) + k
    <3>1. PICK k \in 1..Len(e) : n = Len(tree) + k
      BY <2>2
    <3>2. n \in Nat
      <4>1. Len(tree) \in Nat /\ Len(e) \in Nat
        BY <1>2, ShapeFacts DEF GrownTo
      <4> QED BY <3>1, <4>1
    <3>3. Path(n)' = Append(StartOf(e[k]), Eos)
      BY <1>1, <1>3, <3>1, <3>2, PathStep
    <3>4. StartOf(e[k]) \in Seq(Token \cup ToSet(BeginTokens)) /\ ~IgnoreEos
      BY <1>5, StartFacts DEF EndsAt
    <3> QED BY <3>3, <3>4
  <2>3. CASE \E k \in 1..BeamWidth : n = Len(tree) + Len(e) + k
    <3>1. PICK k \in 1..BeamWidth : n = Len(tree) + Len(e) + k
      BY <2>3
    <3>2. tree'[n] = KeptNode(data, t[k])
      BY <1>2, <3>1 DEF GrownTo
    <3>3. tree'[n].reason = "length"
      BY <3>2 DEF KeptNode
    <3> QED BY <1>6, <3>3
  <2> QED BY <1>2, <2>1, <2>2, <2>3, NodeCases
<1> QED BY <1>4, <1>6 DEF StopsAtEos

LEMMA BornOnTrie ==
    ASSUME Shape, NEW f, NEW data, NEW e, NEW t, Chosen(f, data, e, t), HasCatalog,
           NEW i \in Places, ScoreAt(data, i) # NegInf
    PROVE  Append(StartOf(i), TokenAt(data, i)) \in Trie
<1>1. PICK b, k : b = ParentOf(i) /\ k = RankOf(i)
  OBVIOUS
<1>2. b \in 1..Len(all_beams) /\ k \in 1..BeamWidth
  BY <1>1, PlaceFacts
<1>3. ScoredBy(data[b], b, f[b])
  BY <1>2 DEF Chosen
<1>4. data[b][k].lp # NegInf
  BY <1>1 DEF ScoreAt, Plus
<1>5. data[b][k].token \in Valid(tree[all_beams[b]].tokens)
  BY <1>2, <1>3, <1>4 DEF ScoredBy
<1> QED BY <1>1, <1>5 DEF Valid, StartOf, TokenAt

LEMMA OnTrieStep ==
    ASSUME Shape, OnTrie, Step
    PROVE  OnTrie'
<1>1. PICK f, data, e, t : Chosen(f, data, e, t)
  BY StepIs
<1>2. request' = request /\ HasCatalog' = HasCatalog
  BY SameCall DEF Step
<1>3. ASSUME HasCatalog, NEW n \in Live', tree'[n].cum # NegInf
      PROVE  Path(n)' \in Trie
  <2>1. /\ n \in Nat
        /\ \/ /\ n \in ToSet(completed) /\ n \in Live /\ n \in 1..Len(tree)
              /\ tree'[n] = tree[n]
           \/ \E i : BornOf(n, i, data, e, t)
    BY <1>1, <1>3, LiveCases
  <2>2. CASE /\ n \in ToSet(completed) /\ n \in Live /\ n \in 1..Len(tree)
             /\ tree'[n] = tree[n]
    <3>1. Path(n)' = Path(n)
      BY <1>1, <1>2, <2>2, PathStep
    <3>2. n \notin ToSet(all_beams)
      <4>1. tree[n].reason = "stop"
        BY <2>2, ShapeFacts DEF Shape, ToSet
      <4> QED BY <4>1, ShapeFacts DEF Shape, ToSet
    <3> QED BY <1>3, <2>2, <3>1, <3>2 DEF OnTrie
  <2>3. CASE \E i : BornOf(n, i, data, e, t)
    <3>1. PICK i : BornOf(n, i, data, e, t)
      BY <2>3
    <3>2. Path(n)' = Append(StartOf(i), TokenAt(data, i))
      BY <1>1, <1>2, <2>1, <3>1, BornPath
    <3>3. i \in Places /\ ScoreAt(data, i) # NegInf
      BY <3>1 DEF BornOf
    <3> QED BY <1>1, <1>3, <3>2, <3>3, BornOnTrie
  <2> QED BY <2>1, <2>2, <2>3
<1>4. Trie' = Trie
  BY DEF Trie
<1> QED BY <1>2, <1>3, <1>4 DEF OnTrie

CatalogInv == StopsAtEos /\ OnTrie

LEMMA CatalogInit == Init => CatalogInv
<1> SUFFICES ASSUME Init PROVE CatalogInv
  OBVIOUS
<1>1. all_beams = <<1>> /\ completed = <<>> /\ token = 0
      /\ tree = << [parent |-> 0, data |-> <<>>, tokens |-> BeginTokens,
                    cum |-> 0, reason |-> "length"] >>
  BY DEF Init
<1>2. Len(tree) = 1 /\ tree[1].reason = "length"
  BY <1>1
<1>3. StopsAtEos
  <2>1. \A n \in 1..1 : n = 1
    OBVIOUS
  <2> QED BY <1>2, <2>1 DEF StopsAtEos
<1>4. ToSet(completed) = {}
  <2>1. DOMAIN completed = {}
    BY <1>1
  <2> QED BY <2>1 DEF ToSet
<1> QED BY <1>1, <1>3, <1>4 DEF CatalogInv, OnTrie, Live

LEMMA CatalogNext == Shape /\ CatalogInv /\ [Next]_vars => CatalogInv'
<1> SUFFICES ASSUME Shape, CatalogInv, [Next]_vars PROVE CatalogInv'
  OBVIOUS
<1>1. CASE Step
  BY <1>1, StopsStep, OnTrieStep DEF CatalogInv
<1>2. CASE UNCHANGED <<request, token, tree, all_beams, completed>>
  <2>1. /\ IncludeStop' = IncludeStop /\ IgnoreEos' = IgnoreEos
        /\ BeginTokens' = BeginTokens /\ HasCatalog' = HasCatalog
    BY <1>2, SameCall
  <2>2. \A n : Path(n)' = Path(n)
    BY <1>2, <2>1 DEF Path
  <2>3. Live' = Live /\ Trie' = Trie
    BY <1>2 DEF Live, Trie
  <2>4. StopsAtEos'
    BY <1>2, <2>1, <2>2 DEF CatalogInv, StopsAtEos
  <2>5. OnTrie'
    BY <1>2, <2>1, <2>2, <2>3 DEF CatalogInv, OnTrie
  <2> QED BY <2>4, <2>5 DEF CatalogInv
<1> QED BY <1>1, <1>2, NextCases

\* A beam the catalog does not go on with scores -inf for good: whatever is
\* searched, at a score that is not -inf, is the beginning of an item.
THEOREM SearchStaysOnTrie == Spec => []OnTrie
<1>1. Init => CatalogInv
  BY CatalogInit
<1>2. SearchInv /\ CatalogInv /\ [Next]_vars => CatalogInv'
  BY CatalogNext DEF SearchInv
<1>3. CatalogInv => OnTrie
  BY DEF CatalogInv
<1> QED BY <1>1, <1>2, <1>3, SearchInvariant, PTL DEF Spec

\* A path of the trie is the beginning of an item.
LEMMA PathOfTrie ==
    ASSUME NEW path \in Trie
    PROVE  \E item \in Catalog : \E n \in 0..Len(item) :
               /\ Len(item) \in Nat /\ Len(path) = n
               /\ \A k \in 1..n : path[k] = item[k]
<1>0. PICK item \in Catalog : \E n \in 0..Len(item) : path = SubSeq(item, 1, n)
  BY DEF Trie
<1>1. PICK n \in 0..Len(item) : path = SubSeq(item, 1, n)
  BY <1>0
<1>2. item \in Seq(ToSet(item))
  BY CatalogAssumption
<1>3. Len(item) \in Nat
  BY <1>2
<1>4. path = [k \in 1..n |-> item[k]]
  BY <1>1, <1>2, PrefixIs
<1>5. Len(path) = n /\ \A k \in 1..n : path[k] = item[k]
  BY <1>3, <1>4
<1> QED BY <1>3, <1>5

LEMMA AnswersInCatalog ==
    ASSUME CatalogFits, SearchInv, CatalogInv
    PROVE  CatalogIsRespected
<1> SUFFICES ASSUME NEW k \in DOMAIN outputs, HasCatalog, outputs[k].cum # NegInf
             PROVE  outputs[k].tokens \in Catalog
  BY DEF CatalogIsRespected
<1>1. Shape /\ Levels /\ Answered /\ StopsAtEos /\ OnTrie
  BY DEF SearchInv, TreeInv, CatalogInv
<1>2. request \in DOMAIN Requests
  BY <1>1 DEF Shape
<1>3. phase # "loop"
  BY <1>1 DEF Answered
<1>4. token = NumSteps /\ AnsweredFrom(outputs, Finals, tree, all_beams, EndTokens, BeamWidth)
  BY <1>1, <1>3 DEF Answered
<1>5. PICK s : /\ Ranks(s, Finals, tree)
               /\ MadeOf(outputs, s, Finals, tree, all_beams, EndTokens, BeamWidth)
  BY <1>4 DEF AnsweredFrom
<1>6. PICK N \in Nat : N = Len(Finals)
  BY <1>1, FinalsAre
<1>7. k \in 1..N
  <2>1. PICK W \in Nat : W = BeamWidth
    BY <1>2, TheCall
  <2>2. Len(outputs) = IF W <= N THEN W ELSE N
    BY <1>5, <1>6, <2>1 DEF MadeOf
  <2>3. k \in 1..Len(outputs)
    BY <1>5 DEF MadeOf
  <2> QED BY <2>2, <2>3
<1>8. s[k] \in 1..N
  BY <1>5, <1>6, <1>7 DEF Ranks
<1>9. PICK n : n = Finals[s[k]]
  OBVIOUS
<1>10. /\ outputs[k].tokens = tree[n].tokens \o IF n \in ToSet(all_beams) THEN EndTokens ELSE <<>>
       /\ tree[n].cum # NegInf
  <2>1. k \in 1..Len(outputs)
    BY <1>5 DEF MadeOf
  <2> QED BY <1>5, <1>9, <2>1 DEF MadeOf
<1>11. Requests[request] \in Range(Requests) /\ Requests[request].has_catalog
  BY <1>2 DEF Range, HasCatalog
<1>12. /\ NumSteps > 0
       /\ \A item \in Catalog : /\ Len(item) = MaxTokens
                                /\ EndTokens \in {<<>>, <<Last(item)>>}
                                /\ ~IgnoreEos => Eos \notin ToSet(item)
  BY <1>11 DEF CatalogFits, NumSteps, MaxTokens, EndTokens, IgnoreEos
<1>13. /\ NumSteps \in Nat /\ MaxTokens \in Nat
       /\ NumSteps + Len(BeginTokens) + Len(EndTokens) = MaxTokens
       /\ BeginTokens \in Seq(ToSet(BeginTokens)) /\ EndTokens \in Seq(ToSet(EndTokens))
  BY <1>2, TheCall
<1>14. (\E b \in 1..Len(all_beams) : n = all_beams[b])
       \/ (\E j \in 1..Len(completed) : n = completed[j])
  <2>1. PICK i \in 1..N : i = s[k]
    BY <1>8
  <2>2. PICK c \in Nat : c = Len(completed)
    BY <1>1, ShapeFacts
  <2>3. PICK B \in Nat : B = Len(all_beams) /\ N = c + B
    BY <1>1, <1>6, <2>2, FinalsAre, ShapeFacts
  <2>4. CASE i <= c
    <3>1. i \in 1..c
      BY <2>1, <2>4
    <3> QED BY <1>1, <1>9, <2>1, <2>2, <3>1, FinalsAre
  <2>5. CASE ~(i <= c)
    <3>1. PICK b \in 1..B : i = c + b
      <4>1. i - c \in 1..B /\ i = c + (i - c)
        BY <2>1, <2>3, <2>5
      <4> QED BY <4>1
    <3>2. Finals[c + b] = all_beams[b]
      BY <1>1, <2>2, <2>3, <3>1, FinalsAre
    <3> QED BY <1>9, <2>1, <2>3, <3>1, <3>2
  <2> QED BY <2>4, <2>5
<1>15. n \in Live /\ n \in 1..Len(tree)
  BY <1>1, <1>14, ShapeFacts DEF Live, ToSet
<1>16. Path(n) \in Trie
  BY <1>1, <1>4, <1>10, <1>12, <1>13, <1>15 DEF OnTrie
<1>17. PICK item \in Catalog, m \in Nat :
           /\ Len(item) \in Nat /\ m <= Len(item) /\ Len(Path(n)) = m
           /\ \A j \in 1..m : Path(n)[j] = item[j]
  <2>1. PICK item \in Catalog : \E m \in 0..Len(item) :
            /\ Len(item) \in Nat /\ Len(Path(n)) = m
            /\ \A j \in 1..m : Path(n)[j] = item[j]
    BY <1>16, PathOfTrie
  <2> QED BY <2>1
<1>18. item \in Seq(ToSet(item)) /\ Len(item) = MaxTokens
  BY <1>12, CatalogAssumption
<1>19. CASE \E j \in 1..Len(completed) : n = completed[j]
  <2>1. tree[n].reason = "stop"
    BY <1>1, <1>19 DEF Shape
  <2>2. ~IgnoreEos /\ \E p \in Seq(Token \cup ToSet(BeginTokens)) : Path(n) = Append(p, Eos)
    BY <1>1, <1>15, <2>1 DEF StopsAtEos
  <2>3. PICK p \in Seq(Token \cup ToSet(BeginTokens)) : Path(n) = Append(p, Eos)
    BY <2>2
  <2>4. PICK l \in Nat : l = Len(p)
    OBVIOUS
  <2>5. Eos \in Token \cup ToSet(BeginTokens)
    BY TokenAssumption
  <2>6. Len(Append(p, Eos)) = l + 1 /\ Append(p, Eos)[l + 1] = Eos
    BY <2>4, <2>5, AppendProperties
  <2>7. m = l + 1 /\ Path(n)[m] = Eos
    BY <1>17, <2>3, <2>6
  <2>8. item[m] = Eos /\ m \in 1..Len(item)
    BY <1>17, <2>4, <2>7
  <2>9. Eos \in ToSet(item)
    <3>1. DOMAIN item = 1..Len(item)
      BY <1>18
    <3> QED BY <2>8, <3>1 DEF ToSet
  <2> QED BY <1>12, <2>2, <2>9
<1>20. CASE \E b \in 1..Len(all_beams) : n = all_beams[b]
  <2>1. PICK b \in 1..Len(all_beams) : n = all_beams[b]
    BY <1>20
  <2>2. n \in ToSet(all_beams)
    BY <1>1, <2>1, ShapeFacts DEF ToSet
  <2>3. PICK p : p = tree[n].tokens
    OBVIOUS
  <2>4. Path(n) = p /\ p \in Seq(Token \cup ToSet(BeginTokens))
    BY <1>1, <2>1, <2>3, PathOfBeam
  <2>5. Len(p) = Len(BeginTokens) + NumSteps
    BY <1>1, <1>4, <2>1, <2>4 DEF Levels
  <2>6. Len(p) = m /\ \A j \in 1..m : p[j] = item[j]
    BY <1>17, <2>4
  <2>7. outputs[k].tokens = p \o EndTokens
    BY <1>10, <2>2, <2>3
  <2>8. p \o EndTokens = item
    <3>1. Len(BeginTokens) \in Nat /\ Len(EndTokens) \in Nat
      BY <1>13
    <3>2. m + Len(EndTokens) = MaxTokens
      BY <1>13, <2>5, <2>6, <3>1
    <3>3. CASE EndTokens = <<>>
      <4>1. Len(EndTokens) = 0
        BY <3>3
      <4>2. m = Len(item)
        BY <1>17, <1>18, <3>2, <4>1
      <4>3. p = item
        BY <1>18, <2>4, <2>6, <4>2
      <4> QED BY <2>4, <3>3, <4>3, ConcatEmptySeq
    <3>4. CASE EndTokens = <<Last(item)>>
      <4>1. Len(EndTokens) = 1
        BY <3>4
      <4>2. m + 1 = Len(item)
        BY <1>17, <1>18, <3>2, <4>1
      <4>3. PICK x : x = item[m + 1] /\ Last(item) = x
        BY <4>2 DEF Last
      <4>4. p \in Seq(ToSet(item)) /\ x \in ToSet(item)
        <5>1. \A j \in 1..m : item[j] \in ToSet(item)
          BY <1>18, <4>2
        <5>2. \A j \in 1..m : p[j] \in ToSet(item)
          BY <2>6, <5>1
        <5>3. p = [j \in 1..m |-> p[j]]
          BY <2>4, <2>6
        <5>4. p \in [1..m -> ToSet(item)]
          BY <5>2, <5>3
        <5>5. x \in ToSet(item)
          BY <1>17, <1>18, <4>2, <4>3
        <5> QED BY <5>4, <5>5
      <4>5. p \o EndTokens = Append(p, x)
        BY <3>4, <4>3, <4>4
      <4>6. Append(p, x) = item
        <5>1. /\ Append(p, x) \in Seq(ToSet(item)) /\ Len(Append(p, x)) = m + 1
              /\ Append(p, x)[m + 1] = x /\ \A j \in 1..m : Append(p, x)[j] = p[j]
          BY <2>6, <4>4, AppendProperties
        <5>2. \A j \in 1..(m + 1) : Append(p, x)[j] = item[j]
          BY <2>6, <4>3, <5>1
        <5> QED BY <1>18, <4>2, <5>1, <5>2
      <4> QED BY <4>5, <4>6
    <3> QED BY <1>12, <3>3, <3>4
  <2> QED BY <2>7, <2>8
<1> QED BY <1>14, <1>19, <1>20

\* An answer of finite score is an item of the catalog, begin and end token
\* included, whenever the items are as long as the answers, end in the end
\* token and hold no Eos that could stop a beam.
THEOREM AnswersAreItems == ASSUME CatalogFits PROVE Spec => []CatalogIsRespected
<1>1. Init => CatalogInv
  BY CatalogInit
<1>2. SearchInv /\ CatalogInv /\ [Next]_vars => CatalogInv'
  BY CatalogNext DEF SearchInv
<1>3. SearchInv /\ CatalogInv => CatalogIsRespected
  BY AnswersInCatalog
<1> QED BY <1>1, <1>2, <1>3, SearchInvariant, PTL DEF Spec

-----------------------------------------------------------------------------
(* Enough answers *)

\* W different members of S.
Injects(g, W, S) == g \in [1..W -> S] /\ \A j, k \in 1..W : g[j] = g[k] => j = k

FiniteLive == {n \in Live : tree[n].cum # NegInf}

\* Every step leaves beam_width beams of finite score, the completed ones
\* among them.
Enough ==
    IF token = 0 THEN \A b \in 1..Len(all_beams) : tree[all_beams[b]].cum # NegInf
    ELSE \E g : Injects(g, BeamWidth, FiniteLive)

EnoughInv == ~HasCatalog => Enough

LEMMA OneEach ==
    ASSUME NEW W, NEW S, NEW R,
           \A k \in 1..W : \E n \in S : <<k, n>> \in R,
           \A j, k \in 1..W : \A n \in S : <<j, n>> \in R /\ <<k, n>> \in R => j = k
    PROVE  \E g : Injects(g, W, S)
<1> DEFINE g == [k \in 1..W |-> CHOOSE n \in S : <<k, n>> \in R]
<1>1. \A k \in 1..W : g[k] \in S /\ <<k, g[k]>> \in R
  OBVIOUS
<1>2. g \in [1..W -> S]
  BY <1>1
<1>3. \A j, k \in 1..W : g[j] = g[k] => j = k
  BY <1>1
<1> HIDE DEF g
<1>4. Injects(g, W, S)
  BY <1>2, <1>3 DEF Injects
<1> QED BY <1>4

\* A candidate of a beam of finite score is of finite score.
LEMMA ScoreIsFinite ==
    ASSUME Shape, Scores, token < NumSteps, ~HasCatalog,
           NEW f, NEW data, NEW e, NEW t, Chosen(f, data, e, t), NEW i \in Places,
           tree[all_beams[ParentOf(i)]].cum # NegInf
    PROVE  ScoreAt(data, i) > NegInf
<1>1. PICK b, k, g : b = ParentOf(i) /\ k = RankOf(i) /\ g = f[b]
  OBVIOUS
<1>2. b \in 1..Len(all_beams) /\ k \in 1..BeamWidth
  BY <1>1, PlaceFacts
<1>3. g \in LogProbs /\ ScoredBy(data[b], b, g)
  BY <1>1, <1>2 DEF Chosen
<1>4. PICK v \in Token : v = data[b][k].token
  BY <1>1, EntryFacts DEF TokenAt
<1>5. data[b][k].lp = g[v]
  BY <1>2, <1>3, <1>4 DEF ScoredBy
<1>6. PICK x \in Int : x = tree[all_beams[b]].cum /\ x # NegInf
  BY <1>1, PlaceFacts
<1>7. Charged(x, token, LogProbs)
  <2>1. all_beams[b] \in 1..Len(tree)
    BY <1>2, ShapeFacts
  <2> QED BY <1>6, <2>1 DEF Scores
<1>8. Plus(x, g[v]) > NegInf
  <2>1. PICK n \in Nat : n = token
    BY TheCall DEF Shape
  <2>2. request \in DOMAIN Requests
    BY DEF Shape
  <2> QED BY <1>3, <1>6, <1>7, <2>1, <2>2, PlusIsFinite
<1> QED BY <1>1, <1>5, <1>6, <1>8 DEF ScoreAt

\* What a candidate becomes is born of no other candidate.
LEMMA BornOfOne ==
    ASSUME Shape, NEW f, NEW data, NEW e, NEW t, Chosen(f, data, e, t),
           NEW n, NEW i, BornOf(n, i, data, e, t)
    PROVE  /\ n \in Nat /\ n > Len(tree)
           /\ \A j : BornOf(n, j, data, e, t) => i = j
<1>1. GrownTo(data, e, t)
  BY GrownIs
<1>2. PICK m \in Nat : m = Len(e)
  BY <1>1 DEF GrownTo
<1>3. PICK N \in Nat : N = Len(tree)
  BY ShapeFacts
<1>4. PICK W \in Nat : W = BeamWidth
  BY TheCall DEF Shape
<1>5. ASSUME NEW j, BornOf(n, j, data, e, t)
      PROVE  \/ EndsAt(data, j) /\ \E k \in 1..m : e[k] = j /\ n = N + k
             \/ ~EndsAt(data, j) /\ \E k \in 1..W : t[k] = j /\ n = N + m + k
  BY <1>2, <1>3, <1>4, <1>5 DEF BornOf
<1>6. n \in Nat /\ n > N
  BY <1>5
<1>7. ASSUME NEW j, BornOf(n, j, data, e, t) PROVE i = j
  <2>1. CASE EndsAt(data, i)
    <3>1. PICK k \in 1..m : e[k] = i /\ n = N + k
      BY <1>5, <2>1
    <3>2. PICK l \in 1..m : e[l] = j /\ n = N + l
      BY <1>5, <1>7, <3>1
    <3>3. k = l
      BY <3>1, <3>2
    <3> QED BY <3>1, <3>2, <3>3
  <2>2. CASE ~EndsAt(data, i)
    <3>1. PICK k \in 1..W : t[k] = i /\ n = N + m + k
      BY <1>5, <2>2
    <3>2. PICK l \in 1..W : t[l] = j /\ n = N + m + l
      BY <1>5, <1>7, <3>1
    <3>3. k = l
      BY <3>1, <3>2
    <3> QED BY <3>1, <3>2, <3>3
  <2> QED BY <2>1, <2>2
<1> QED BY <1>3, <1>6, <1>7

\* The nodes of a step are live, and their scores are what the candidates had.
LEMMA EndedIsLive ==
    ASSUME Shape, NEW f, NEW data, NEW e, NEW t, Chosen(f, data, e, t), NEW k \in 1..Len(e),
           ScoreAt(data, e[k]) # NegInf
    PROVE  /\ Len(tree) + k \in FiniteLive'
           /\ BornOf(Len(tree) + k, e[k], data, e, t)
<1>1. GrownTo(data, e, t)
  BY GrownIs
<1>2. PICK n : n = Len(tree) + k
  OBVIOUS
<1>3. tree'[n] = EosNode(data, e[k])
  BY <1>1, <1>2 DEF GrownTo
<1>4. tree'[n].cum # NegInf
  BY <1>3 DEF EosNode
<1>5. n \in Live'
  <2>1. PICK c \in Nat, m \in Nat : c = Len(completed) /\ m = Len(e)
    BY <1>1, ShapeFacts DEF GrownTo
  <2>2. completed' \in Seq(1..Len(tree')) /\ Len(completed') = c + m
    BY <1>1, <2>1 DEF GrownTo
  <2>3. c + k \in DOMAIN completed'
    BY <2>1, <2>2
  <2>4. completed'[c + k] = n
    BY <1>1, <1>2, <2>1 DEF GrownTo
  <2> QED BY <2>3, <2>4 DEF Live, ToSet
<1>6. BornOf(n, e[k], data, e, t)
  BY <1>2, <1>4, EndedIsBorn
<1> QED BY <1>2, <1>4, <1>5, <1>6 DEF FiniteLive

LEMMA KeptIsLive ==
    ASSUME Shape, NEW f, NEW data, NEW e, NEW t, Chosen(f, data, e, t), NEW k \in 1..BeamWidth,
           KeptScoreAt(data, t[k]) # NegInf
    PROVE  /\ Len(tree) + Len(e) + k \in FiniteLive'
           /\ BornOf(Len(tree) + Len(e) + k, t[k], data, e, t)
<1>1. GrownTo(data, e, t)
  BY GrownIs
<1>2. PICK n : n = Len(tree) + Len(e) + k
  OBVIOUS
<1>3. tree'[n] = KeptNode(data, t[k])
  BY <1>1, <1>2 DEF GrownTo
<1>4. tree'[n].cum # NegInf
  BY <1>3 DEF KeptNode
<1>5. n \in Live'
  <2>1. all_beams' \in Seq(1..Len(tree')) /\ Len(all_beams') = BeamWidth
    BY <1>1 DEF GrownTo
  <2>2. k \in DOMAIN all_beams'
    BY <2>1
  <2>3. all_beams'[k] = n
    BY <1>1, <1>2 DEF GrownTo
  <2> QED BY <2>2, <2>3 DEF Live, ToSet
<1>6. BornOf(n, t[k], data, e, t)
  BY <1>2, <1>4, KeptIsBorn
<1> QED BY <1>2, <1>4, <1>5, <1>6 DEF FiniteLive

\* When top-n took a candidate of score -inf, it took every other one; what it
\* took -inf for is among the completed.
LEMMA NothingLeftOut ==
    ASSUME Shape, NEW f, NEW data, NEW e, NEW t, Chosen(f, data, e, t),
           NEW z \in 1..BeamWidth, KeptScoreAt(data, t[z]) = NegInf,
           NEW i \in Places, ScoreAt(data, i) > NegInf
    PROVE  \E n \in FiniteLive' : BornOf(n, i, data, e, t)
<1>1. ScoreAt(data, i) # NegInf
  BY EntryFacts, LogProbAssumption
<1>2. CASE EndsAt(data, i)
  <2>1. PICK k \in 1..Len(e) : e[k] = i
    BY <1>2 DEF Chosen, Selected
  <2> QED BY <1>1, <2>1, EndedIsLive
<1>3. CASE ~EndsAt(data, i)
  <2>1. KeptScoreAt(data, i) = ScoreAt(data, i)
    BY <1>3 DEF KeptScoreAt
  <2>2. PICK k \in 1..BeamWidth : t[k] = i
    <3>1. ASSUME \A k \in 1..BeamWidth : t[k] # i PROVE FALSE
      <4>1. KeptScoreAt(data, i) <= KeptScoreAt(data, t[z])
        BY <3>1 DEF Chosen, Selected
      <4>2. KeptScoreAt(data, i) \in Int /\ NegInf \in Int
        BY EntryFacts, LogProbAssumption
      <4> QED BY <2>1, <4>1, <4>2
    <3> QED BY <3>1
  <2> QED BY <1>1, <2>1, <2>2, KeptIsLive
<1> QED BY <1>2, <1>3

LEMMA AllKept ==
    ASSUME Shape, NEW f, NEW data, NEW e, NEW t, Chosen(f, data, e, t),
           \A k \in 1..BeamWidth : KeptScoreAt(data, t[k]) # NegInf
    PROVE  \E g : Injects(g, BeamWidth, FiniteLive')
<1>1. GrownTo(data, e, t)
  BY GrownIs
<1>2. PICK m \in Nat : m = Len(tree) + Len(e)
  BY <1>1, ShapeFacts DEF GrownTo
<1>3. PICK W \in Nat : W = BeamWidth
  BY TheCall DEF Shape
<1>4. PICK S : S = FiniteLive'
  OBVIOUS
<1>5. \A k \in 1..W : m + k \in S
  BY <1>2, <1>3, <1>4, KeptIsLive
<1> DEFINE g == [k \in 1..W |-> m + k]
<1>6. g \in [1..W -> S]
  BY <1>5
<1>7. \A j, k \in 1..W : g[j] = g[k] => j = k
  OBVIOUS
<1> HIDE DEF g
<1>8. Injects(g, W, S)
  BY <1>6, <1>7 DEF Injects
<1> QED BY <1>3, <1>4, <1>8

\* In the first step the only beam has beam_width candidates.
LEMMA FirstStepKeeps ==
    ASSUME Shape, Scores, token < NumSteps, ~HasCatalog, Enough, token = 0,
           NEW f, NEW data, NEW e, NEW t, Chosen(f, data, e, t),
           NEW z \in 1..BeamWidth, KeptScoreAt(data, t[z]) = NegInf
    PROVE  \E g : Injects(g, BeamWidth, FiniteLive')
<1>1. PICK W \in Nat : W = BeamWidth
  BY TheCall DEF Shape
<1>2. PICK S : S = FiniteLive'
  OBVIOUS
<1>3. request \in DOMAIN Requests /\ Len(all_beams) = 1
  BY DEF Shape
<1>4. \A k \in 1..W : Place(1, k) \in Places /\ ParentOf(Place(1, k)) = 1
                      /\ RankOf(Place(1, k)) = k
  BY <1>1, <1>3, PlaceIs DEF Places
<1>5. tree[all_beams[1]].cum # NegInf
  BY <1>3 DEF Enough
<1> DEFINE R == {p \in (1..W) \X S : BornOf(p[2], Place(1, p[1]), data, e, t)}
<1>6. \A k \in 1..W : \E n \in S : <<k, n>> \in R
  <2> SUFFICES ASSUME NEW k \in 1..W PROVE \E n \in S : BornOf(n, Place(1, k), data, e, t)
    OBVIOUS
  <2>1. PICK i \in Places : i = Place(1, k) /\ ParentOf(i) = 1
    BY <1>4
  <2>2. ScoreAt(data, i) > NegInf
    BY <1>5, <2>1, ScoreIsFinite
  <2> QED BY <1>2, <2>1, <2>2, NothingLeftOut
<1>7. ASSUME NEW j \in 1..W, NEW k \in 1..W, NEW n \in S, <<j, n>> \in R, <<k, n>> \in R
      PROVE  j = k
  <2>1. BornOf(n, Place(1, j), data, e, t) /\ BornOf(n, Place(1, k), data, e, t)
    BY <1>7
  <2>2. Place(1, j) = Place(1, k)
    BY <2>1, BornOfOne
  <2> QED BY <1>4, <2>2
<1>8. \E g : Injects(g, W, S)
  <2> HIDE DEF R
  <2> QED BY <1>6, <1>7, OneEach
<1> QED BY <1>1, <1>2, <1>8

\* Later every beam of finite score has one candidate at least, and what was
\* completed stays.
LEMMA LaterStepKeeps ==
    ASSUME Shape, Scores, token < NumSteps, ~HasCatalog, Enough, token # 0,
           NEW f, NEW data, NEW e, NEW t, Chosen(f, data, e, t),
           NEW z \in 1..BeamWidth, KeptScoreAt(data, t[z]) = NegInf
    PROVE  \E g : Injects(g, BeamWidth, FiniteLive')
<1>1. PICK W \in Nat : W = BeamWidth /\ W >= 1
  BY TheCall DEF Shape
<1>2. PICK S : S = FiniteLive'
  OBVIOUS
<1>3. request \in DOMAIN Requests /\ Len(all_beams) \in Nat
  BY ShapeFacts DEF Shape
<1>4. PICK h : Injects(h, W, FiniteLive)
  BY <1>1 DEF Enough
<1>5. /\ \A k \in 1..W : h[k] \in FiniteLive
      /\ \A j, k \in 1..W : h[j] = h[k] => j = k
  BY <1>4 DEF Injects
<1>6. \A b \in 1..Len(all_beams) : Place(b, 1) \in Places /\ ParentOf(Place(b, 1)) = b
  <2>1. 1 \in 1..BeamWidth
    BY <1>1
  <2> QED BY <1>3, <2>1, PlaceIs DEF Places
<1>7. GrownTo(data, e, t)
  BY GrownIs
\* j's beam, and what became of it
<1> DEFINE Stays(x, n) == x \in ToSet(completed) /\ n = x
           Goes(x, n) == \E b \in 1..Len(all_beams) :
                            all_beams[b] = x /\ BornOf(n, Place(b, 1), data, e, t)
           R == {p \in (1..W) \X S : Stays(h[p[1]], p[2]) \/ Goes(h[p[1]], p[2])}
<1>8. \A k \in 1..W : \E n \in S : <<k, n>> \in R
  <2> SUFFICES ASSUME NEW k \in 1..W
               PROVE  \E n \in S : Stays(h[k], n) \/ Goes(h[k], n)
    OBVIOUS
  <2>1. PICK x : x = h[k]
    OBVIOUS
  <2>2. x \in Live /\ tree[x].cum # NegInf
    BY <1>5, <2>1 DEF FiniteLive
  <2>3. CASE x \in ToSet(completed)
    <3>1. PICK c \in 1..Len(completed) : x = completed[c]
      BY <2>3, ShapeFacts DEF ToSet
    <3>2. x \in 1..Len(tree)
      BY <3>1, ShapeFacts
    <3>3. tree'[x] = tree[x]
      BY <1>7, <3>2 DEF GrownTo
    <3>4. x \in Live'
      <4>1. PICK m \in Nat, l \in Nat : m = Len(completed) /\ l = Len(e)
        BY <1>7, ShapeFacts DEF GrownTo
      <4>2. completed' \in Seq(1..Len(tree')) /\ Len(completed') = m + l
        BY <1>7, <4>1 DEF GrownTo
      <4>3. c \in DOMAIN completed'
        BY <3>1, <4>1, <4>2
      <4>4. completed'[c] = x
        BY <1>7, <3>1 DEF GrownTo
      <4> QED BY <4>3, <4>4 DEF Live, ToSet
    <3>5. x \in S
      BY <1>2, <2>2, <3>3, <3>4 DEF FiniteLive
    <3> QED BY <2>1, <2>3, <3>5
  <2>4. CASE x \notin ToSet(completed)
    <3>1. PICK b \in 1..Len(all_beams) : x = all_beams[b]
      BY <2>2, <2>4, ShapeFacts DEF Live, ToSet
    <3>2. PICK i \in Places : i = Place(b, 1) /\ ParentOf(i) = b
      BY <1>6
    <3>3. ScoreAt(data, i) > NegInf
      BY <2>2, <3>1, <3>2, ScoreIsFinite
    <3>4. \E n \in FiniteLive' : BornOf(n, i, data, e, t)
      BY <3>3, NothingLeftOut
    <3> QED BY <1>2, <2>1, <3>1, <3>2, <3>4
  <2> QED BY <2>3, <2>4
<1>9. ASSUME NEW j \in 1..W, NEW k \in 1..W, NEW n \in S, <<j, n>> \in R, <<k, n>> \in R
      PROVE  j = k
  <2>1. /\ Stays(h[j], n) \/ Goes(h[j], n)
        /\ Stays(h[k], n) \/ Goes(h[k], n)
    BY <1>9
  <2>2. ASSUME NEW x, NEW y, Stays(x, n), Goes(y, n) PROVE FALSE
    <3>1. n \in 1..Len(tree)
      BY <2>2, ShapeFacts DEF ToSet
    <3>2. n > Len(tree)
      BY <2>2, BornOfOne
    <3>3. Len(tree) \in Nat
      BY ShapeFacts
    <3> QED BY <3>1, <3>2, <3>3
  <2>3. ASSUME NEW x, NEW y, Goes(x, n), Goes(y, n) PROVE x = y
    <3>1. PICK a \in 1..Len(all_beams) :
              all_beams[a] = x /\ BornOf(n, Place(a, 1), data, e, t)
      BY <2>3
    <3>2. PICK b \in 1..Len(all_beams) :
              all_beams[b] = y /\ BornOf(n, Place(b, 1), data, e, t)
      BY <2>3
    <3>3. Place(a, 1) = Place(b, 1)
      BY <3>1, <3>2, BornOfOne
    <3>4. a = b
      BY <1>6, <3>3
    <3> QED BY <3>1, <3>2, <3>4
  <2>4. h[j] = h[k]
    <3> HIDE DEF Goes
    <3> QED BY <2>1, <2>2, <2>3
  <2> QED BY <1>5, <2>4
<1>10. \E g : Injects(g, W, S)
  <2> HIDE DEF R
  <2> QED BY <1>8, <1>9, OneEach
<1> QED BY <1>1, <1>2, <1>10

LEMMA EnoughStep ==
    ASSUME Shape, Scores, EnoughInv, Step
    PROVE  EnoughInv'
<1>1. PICK f, data, e, t : Chosen(f, data, e, t)
  BY StepIs
<1>2. request' = request /\ token < NumSteps /\ token \in Nat /\ token' = token + 1
  BY TheCall DEF Step, Shape
<1>3. HasCatalog' = HasCatalog /\ BeamWidth' = BeamWidth
  BY <1>2, SameCall
<1>4. ASSUME ~HasCatalog PROVE \E g : Injects(g, BeamWidth, FiniteLive')
  <2>1. Enough
    BY <1>4 DEF EnoughInv
  <2>2. CASE \A k \in 1..BeamWidth : KeptScoreAt(data, t[k]) # NegInf
    BY <1>1, <2>2, AllKept
  <2>3. CASE \E z \in 1..BeamWidth : KeptScoreAt(data, t[z]) = NegInf
    <3>1. PICK z \in 1..BeamWidth : KeptScoreAt(data, t[z]) = NegInf
      BY <2>3
    <3> QED BY <1>1, <1>2, <1>4, <2>1, <3>1, FirstStepKeeps, LaterStepKeeps
  <2> QED BY <2>2, <2>3
<1>5. token' # 0
  BY <1>2
<1> QED BY <1>3, <1>4, <1>5 DEF EnoughInv, Enough

LEMMA EnoughInit == Init => EnoughInv
<1> SUFFICES ASSUME Init PROVE Enough
  BY DEF EnoughInv
<1>1. all_beams = <<1>> /\ token = 0
      /\ tree = << [parent |-> 0, data |-> <<>>, tokens |-> BeginTokens,
                    cum |-> 0, reason |-> "length"] >>
  BY DEF Init
<1>2. Len(all_beams) = 1 /\ all_beams[1] = 1 /\ tree[1].cum = 0
  BY <1>1
<1>3. NegInf # 0
  BY LogProbAssumption
<1>4. \A b \in 1..1 : b = 1
  OBVIOUS
<1> QED BY <1>1, <1>2, <1>3, <1>4 DEF Enough

LEMMA EnoughNext == Shape /\ TreeInv /\ EnoughInv /\ [Next]_vars => EnoughInv'
<1> SUFFICES ASSUME Shape, TreeInv, EnoughInv, [Next]_vars PROVE EnoughInv'
  OBVIOUS
<1>1. CASE Step
  BY <1>1, EnoughStep DEF TreeInv
<1>2. CASE UNCHANGED <<request, token, tree, all_beams, completed>>
  <2>1. HasCatalog' = HasCatalog /\ BeamWidth' = BeamWidth
    BY <1>2, SameCall
  <2>2. FiniteLive' = FiniteLive
    BY <1>2 DEF FiniteLive, Live
  <2>3. Enough' = Enough
    BY <1>2, <2>1, <2>2 DEF Enough
  <2> QED BY <2>1, <2>3 DEF EnoughInv
<1> QED BY <1>1, <1>2, NextCases

\* The first width ranks cannot hold a beam of score -inf when width beams have
\* more.
LEMMA EnoughAnswers ==
    ASSUME SearchInv, EnoughInv
    PROVE  AnswersAreReal
<1> SUFFICES ASSUME phase = "done", NumSteps > 0, ~HasCatalog
             PROVE  /\ Len(outputs) = BeamWidth
                    /\ \A k \in DOMAIN outputs : outputs[k].cum # NegInf
  BY DEF AnswersAreReal
<1>1. Shape /\ Scores /\ Answered
  BY DEF SearchInv, TreeInv
<1>2. token = NumSteps /\ AnsweredFrom(outputs, Finals, tree, all_beams, EndTokens, BeamWidth)
  BY <1>1 DEF Answered
<1>3. PICK s : /\ Ranks(s, Finals, tree)
               /\ MadeOf(outputs, s, Finals, tree, all_beams, EndTokens, BeamWidth)
  BY <1>2 DEF AnsweredFrom
<1>4. PICK W \in Nat : W = BeamWidth
  BY <1>1, TheCall DEF Shape
<1>5. token # 0
  BY <1>1, <1>2, TheCall DEF Shape
<1>6. PICK N \in Nat : N = Len(Finals)
  BY <1>1, FinalsAre
<1>7. W <= N
  <2>1. Len(all_beams) = W /\ Len(completed) \in Nat
    BY <1>1, <1>4, <1>5, ShapeFacts DEF Shape
  <2> QED BY <1>1, <1>4, <1>6, <2>1, FinalsAre
<1>8. Len(outputs) = W /\ DOMAIN outputs = 1..W
  BY <1>3, <1>4, <1>6, <1>7 DEF MadeOf
<1>9. PICK h : Injects(h, W, FiniteLive)
  BY <1>4, <1>5 DEF EnoughInv, Enough
<1>10. ASSUME NEW n \in FiniteLive PROVE \E r \in 1..N : Finals[s[r]] = n
  <2>1. n \in Live
    BY <1>10 DEF FiniteLive
  <2>2. PICK c \in Nat, B \in Nat : c = Len(completed) /\ B = Len(all_beams) /\ N = c + B
    BY <1>1, <1>6, ShapeFacts, FinalsAre
  <2>3. \E i \in 1..N : Finals[i] = n
    <3>1. CASE \E k \in 1..c : n = completed[k]
      <4>1. PICK k \in 1..c : n = completed[k]
        BY <3>1
      <4>2. k \in 1..N /\ Finals[k] = n
        BY <1>1, <2>2, <4>1, FinalsAre
      <4> QED BY <4>2
    <3>2. CASE \E b \in 1..B : n = all_beams[b]
      <4>1. PICK b \in 1..B : n = all_beams[b]
        BY <3>2
      <4>2. c + b \in 1..N /\ Finals[c + b] = n
        BY <1>1, <2>2, <4>1, FinalsAre
      <4> QED BY <4>2
    <3> QED BY <1>1, <2>1, <2>2, <3>1, <3>2, ShapeFacts DEF Live, ToSet
  <2> QED BY <1>3, <1>6, <2>3 DEF Ranks
<1>11. ASSUME NEW k \in 1..W, outputs[k].cum = NegInf PROVE FALSE
  <2>1. k \in 1..N /\ tree[Finals[s[k]]].cum = NegInf
    <3>1. k \in 1..Len(outputs)
      BY <1>8, <1>11
    <3>2. outputs[k].cum = tree[Finals[s[k]]].cum
      BY <1>3, <3>1 DEF MadeOf
    <3>3. k \in 1..N
      BY <1>7, <1>11
    <3> QED BY <1>11, <3>2, <3>3
  <2>2. ASSUME NEW r \in 1..N, tree[Finals[s[r]]].cum # NegInf PROVE r \in 1..(k - 1)
    <3>1. \A i \in 1..N : tree[Finals[s[i]]].cum \in Int
      BY <1>1, <1>3, <1>6, FinalsAre DEF Ranks
    <3>2. r # k
      BY <2>1, <2>2
    <3>3. ~(k < r)
      <4> SUFFICES ASSUME k < r PROVE FALSE
        OBVIOUS
      <4>1. PICK x \in Int : x = tree[Finals[s[r]]].cum
        BY <3>1
      <4>2. NegInf >= x
        BY <1>3, <1>6, <2>1, <4>1 DEF Ranks
      <4>3. NegInf <= x
        <5>1. PICK n \in 1..Len(tree) : n = Finals[s[r]]
          BY <1>1, <1>3, <1>6, FinalsAre DEF Ranks
        <5>2. Charged(x, token, LogProbs)
          BY <1>1, <4>1, <5>1 DEF Scores
        <5>3. PICK m \in Nat : m = token /\ m <= NumSteps
          BY <1>1, <1>2, TheCall DEF Shape
        <5>4. request \in DOMAIN Requests
          BY <1>1 DEF Shape
        <5> QED BY <4>1, <5>2, <5>3, <5>4, ChargedAbove
      <4> QED BY <2>2, <4>1, <4>2, <4>3, LogProbAssumption
    <3> QED BY <2>1, <3>2, <3>3
  <2> DEFINE R == {p \in (1..W) \X (1..(k - 1)) : Finals[s[p[2]]] = h[p[1]]}
  <2>3. \A j \in 1..W : \E r \in 1..(k - 1) : <<j, r>> \in R
    <3> SUFFICES ASSUME NEW j \in 1..W PROVE \E r \in 1..(k - 1) : Finals[s[r]] = h[j]
      OBVIOUS
    <3>1. h[j] \in FiniteLive
      BY <1>9 DEF Injects
    <3>2. PICK r \in 1..N : Finals[s[r]] = h[j]
      BY <1>10, <3>1
    <3>3. tree[Finals[s[r]]].cum # NegInf
      BY <3>1, <3>2 DEF FiniteLive
    <3> QED BY <2>2, <3>2, <3>3
  <2>4. \A i, j \in 1..W : \A r \in 1..(k - 1) : <<i, r>> \in R /\ <<j, r>> \in R => i = j
    BY <1>9 DEF Injects
  <2>5. PICK g : Injects(g, W, 1..(k - 1))
    <3> HIDE DEF R
    <3> QED BY <2>3, <2>4, OneEach
  <2>6. /\ IsFiniteSet(1..W) /\ Cardinality(1..W) = W
        /\ IsFiniteSet(1..(k - 1)) /\ Cardinality(1..(k - 1)) = k - 1
    <3>1. /\ IsFiniteSet(1..W) /\ Cardinality(1..W) = IF 1 > W THEN 0 ELSE W - 1 + 1
          /\ IsFiniteSet(1..(k - 1))
          /\ Cardinality(1..(k - 1)) = IF 1 > k - 1 THEN 0 ELSE (k - 1) - 1 + 1
      BY FS_Interval
    <3> QED BY <1>11, <3>1
  <2>7. Cardinality(1..(k - 1)) < Cardinality(1..W)
    BY <1>11, <2>6
  <2>8. g \in [1..W -> 1..(k - 1)]
    BY <2>5 DEF Injects
  <2>9. \E x, y \in 1..W : x # y /\ g[x] = g[y]
    BY <2>6, <2>7, <2>8, FS_PigeonHole
  <2> QED BY <2>5, <2>9 DEF Injects
<1> QED BY <1>4, <1>8, <1>11

\* Without a catalog the answer has beam_width sequences, all of finite score:
\* every step keeps that many, although a beam that ends takes up one of the
\* places and goes on with -inf.
THEOREM EnoughRealAnswers == Spec => []AnswersAreReal
<1>1. Init => EnoughInv
  BY EnoughInit
<1>2. SearchInv /\ EnoughInv /\ [Next]_vars => EnoughInv'
  BY EnoughNext DEF SearchInv
<1>3. SearchInv /\ EnoughInv => AnswersAreReal
  BY EnoughAnswers
<1> QED BY <1>1, <1>2, <1>3, SearchInvariant, PTL DEF Spec

-----------------------------------------------------------------------------
(* The best beams *)

\* What a candidate of a beam of finite score is charged.
LEMMA ScoreIs ==
    ASSUME Shape, Scores, token < NumSteps, ~HasCatalog,
           NEW f, NEW data, NEW e, NEW t, Chosen(f, data, e, t),
           NEW b \in 1..Len(all_beams), NEW k \in 1..BeamWidth,
           tree[all_beams[b]].cum # NegInf
    PROVE  /\ Place(b, k) \in Places
           /\ TokenAt(data, Place(b, k)) = data[b][k].token
           /\ data[b][k].token \in Token
           /\ ScoreAt(data, Place(b, k)) = tree[all_beams[b]].cum + f[b][data[b][k].token]
<1>1. PICK i : i = Place(b, k)
  OBVIOUS
<1>2. i \in Places /\ ParentOf(i) = b /\ RankOf(i) = k
  <2>1. request \in DOMAIN Requests /\ Len(all_beams) \in Nat
    BY ShapeFacts DEF Shape
  <2> QED BY <1>1, <2>1, PlaceIs DEF Places
<1>3. PICK g : g = f[b]
  OBVIOUS
<1>4. g \in LogProbs /\ ScoredBy(data[b], b, g)
  BY <1>3 DEF Chosen
<1>5. TokenAt(data, i) = data[b][k].token
  BY <1>2 DEF TokenAt
<1>6. PICK v \in Token : v = data[b][k].token
  BY <1>2, <1>5, EntryFacts
<1>7. data[b][k].lp = g[v]
  BY <1>4, <1>6 DEF ScoredBy
<1>8. PICK x \in Int : x = tree[all_beams[b]].cum /\ x # NegInf
  BY <1>2, PlaceFacts
<1>9. Plus(x, g[v]) = x + g[v]
  <2>1. all_beams[b] \in 1..Len(tree)
    BY ShapeFacts
  <2>2. Charged(x, token, LogProbs)
    BY <1>8, <2>1 DEF Scores
  <2>3. PICK n \in Nat : n = token
    BY TheCall DEF Shape
  <2>4. request \in DOMAIN Requests
    BY DEF Shape
  <2> QED BY <1>4, <1>8, <2>2, <2>3, <2>4, PlusIsFinite
<1>10. ScoreAt(data, i) = Plus(x, g[v])
  BY <1>2, <1>7, <1>8 DEF ScoreAt
<1> QED BY <1>1, <1>2, <1>3, <1>5, <1>6, <1>8, <1>9, <1>10

\* Every candidate of the beam is taken; none of another one is.
AllTaken(t, b) == \A k \in 1..BeamWidth : \E j \in 1..BeamWidth : t[j] = Place(b, k)
OnlyTaken(t, b) == \A j \in 1..BeamWidth : \E k \in 1..BeamWidth : t[j] = Place(b, k)

LEMMA AllOfOneBeam ==
    ASSUME Shape, NEW data, NEW e, NEW t, Selected(data, e, t),
           NEW b \in 1..Len(all_beams), AllTaken(t, b)
    PROVE  OnlyTaken(t, b)
<1>1. PICK W \in Nat : W = BeamWidth
  BY TheCall DEF Shape
<1>2. \A k \in 1..W : RankOf(Place(b, k)) = k
  <2>1. request \in DOMAIN Requests /\ Len(all_beams) \in Nat
    BY ShapeFacts DEF Shape
  <2> QED BY <1>1, <2>1, PlaceIs
<1> DEFINE h == [k \in 1..W |-> CHOOSE j \in 1..W : t[j] = Place(b, k)]
<1>3. \A k \in 1..W : h[k] \in 1..W /\ t[h[k]] = Place(b, k)
  BY <1>1 DEF AllTaken
<1>4. h \in [1..W -> 1..W]
  BY <1>3
<1> HIDE DEF h
<1>5. \A j, k \in 1..W : h[j] = h[k] => j = k
  BY <1>2, <1>3
<1>6. h \in Injection(1..W, 1..W)
  BY <1>4, <1>5 DEF Injection, IsInjective
<1>7. IsFiniteSet(1..W)
  BY FS_Interval
<1>8. h \in Surjection(1..W, 1..W)
  BY <1>6, <1>7, FS_Injection
<1>9. \A j \in 1..W : \E k \in 1..W : h[k] = j
  BY <1>8 DEF Surjection
<1>10. ASSUME NEW j \in 1..W PROVE \E k \in 1..W : t[j] = Place(b, k)
  <2>1. PICK k \in 1..W : h[k] = j
    BY <1>9
  <2>2. t[h[k]] = Place(b, k)
    BY <1>3
  <2> QED BY <2>1, <2>2
<1> QED BY <1>1, <1>10 DEF OnlyTaken

LEMMA BestStep ==
    ASSUME Shape, TreeInv, Step, IgnoreEos, Greedy, ~HasCatalog
    PROVE  /\ Len(all_beams') = BeamWidth
           /\ \A b \in DOMAIN all_beams : \A u \in Token :
                 \/ \E n \in ToSet(all_beams') :
                       tree'[n].tokens = Append(tree[all_beams[b]].tokens, u)
                 \/ \A n \in ToSet(all_beams') :
                       tree'[n].cum >= tree[all_beams[b]].cum + scored'[b][u]
<1>1. PICK f, data, e, t : Chosen(f, data, e, t)
  BY StepIs
<1>2. GrownTo(data, e, t) /\ Selected(data, e, t) /\ scored' = f
  BY <1>1, GrownIs DEF Chosen
<1>3. PICK W \in Nat : W = BeamWidth
  BY TheCall DEF Shape
<1>4. PICK m \in Nat : m = Len(tree) + Len(e)
  BY <1>2, ShapeFacts DEF GrownTo
<1>5. Len(all_beams') = W
  BY <1>2, <1>3 DEF GrownTo
<1>6. ASSUME NEW n \in ToSet(all_beams')
      PROVE  \E j \in 1..W : /\ n = m + j /\ tree'[n] = KeptNode(data, t[j])
                             /\ tree'[n].cum = ScoreAt(data, t[j])
  <2>1. all_beams' \in Seq(1..Len(tree'))
    BY <1>2 DEF GrownTo
  <2>2. DOMAIN all_beams' = 1..W
    BY <1>5, <2>1
  <2>3. PICK j \in 1..W : n = all_beams'[j]
    BY <1>6, <2>2 DEF ToSet
  <2>4. n = m + j /\ tree'[n] = KeptNode(data, t[j])
    BY <1>2, <1>3, <1>4, <2>3 DEF GrownTo
  <2>5. tree'[n].cum = KeptScoreAt(data, t[j])
    BY <2>4 DEF KeptNode
  <2> QED BY <2>3, <2>4, <2>5 DEF KeptScoreAt, EndsAt
<1>7. \A i \in Places : KeptScoreAt(data, i) = ScoreAt(data, i) /\ ScoreAt(data, i) \in Int
  BY <1>1, EntryFacts DEF KeptScoreAt, EndsAt
<1>8. t \in [1..W -> Places]
  BY <1>2, <1>3 DEF Selected
<1>9. ASSUME NEW i \in Places, \A j \in 1..W : t[j] # i,
             NEW n \in ToSet(all_beams')
      PROVE  tree'[n].cum >= ScoreAt(data, i) /\ tree'[n].cum \in Int
  <2>1. PICK j \in 1..W : tree'[n].cum = ScoreAt(data, t[j])
    BY <1>6, <1>9
  <2>2. KeptScoreAt(data, i) <= KeptScoreAt(data, t[j])
    BY <1>2, <1>3, <1>9 DEF Selected
  <2>3. t[j] \in Places
    BY <1>8
  <2> QED BY <1>7, <2>1, <2>2, <2>3
<1>10. ASSUME NEW b \in DOMAIN all_beams, NEW u \in Token
       PROVE  \/ \E n \in ToSet(all_beams') :
                    tree'[n].tokens = Append(tree[all_beams[b]].tokens, u)
              \/ \A n \in ToSet(all_beams') :
                    tree'[n].cum >= tree[all_beams[b]].cum + scored'[b][u]
  <2>1. b \in 1..Len(all_beams)
    BY <1>10, ShapeFacts
  <2>2. PICK g \in LogProbs : g = f[b] /\ ScoredBy(data[b], b, g)
    BY <1>1, <2>1 DEF Chosen
  <2>3. PICK x \in Int : x = tree[all_beams[b]].cum
    BY <2>1, ShapeFacts
  <2>4. PICK y \in Int : y = g[u] /\ y <= 0
    <3>1. request \in DOMAIN Requests
      BY DEF Shape
    <3> QED BY <2>2, <3>1, LogProbsAre
  <2>5. scored'[b][u] = y
    BY <1>2, <2>2, <2>4
  <2>6. CASE x = NegInf
    <3>1. ASSUME NEW n \in ToSet(all_beams') PROVE tree'[n].cum >= NegInf
      <4>1. PICK j \in 1..W : n = m + j /\ tree'[n].cum = ScoreAt(data, t[j])
        BY <1>6, <3>1
      <4>2. PICK z \in Int : z = tree'[n].cum
        BY <1>7, <1>8, <4>1
      <4>3. Scores'
        BY ScoresStep DEF TreeInv
      <4>4. n \in 1..Len(tree')
        <5>1. Len(tree') = m + W
          BY <1>2, <1>3, <1>4 DEF GrownTo
        <5> QED BY <4>1, <5>1
      <4>5. PICK s \in Nat : s = token' /\ s <= NumSteps
        <5>1. PICK N \in Nat : N = NumSteps /\ token \in 0..N
          BY TheCall DEF Shape
        <5>2. token < N /\ token' = token + 1
          BY <5>1 DEF Step
        <5> QED BY <5>1, <5>2
      <4>6. LogProbs' = LogProbs /\ request \in DOMAIN Requests
        BY SameCall DEF Step, Shape
      <4>7. Charged(z, s, LogProbs)
        BY <4>2, <4>3, <4>4, <4>5, <4>6 DEF Scores
      <4>8. NegInf <= z
        BY <4>5, <4>6, <4>7, ChargedAbove
      <4> QED BY <4>2, <4>8
    <3>2. ASSUME NEW n \in ToSet(all_beams') PROVE tree'[n].cum >= x + y
      <4>1. PICK z \in Int : z = tree'[n].cum
        BY <1>6, <1>7, <1>8, <3>2
      <4>2. z >= NegInf
        BY <3>1, <3>2, <4>1
      <4> QED BY <2>4, <2>6, <4>1, <4>2
    <3> QED BY <2>3, <2>5, <3>2
  <2>7. CASE x # NegInf
    <3>1. ASSUME NEW k \in 1..W
          PROVE  /\ Place(b, k) \in Places
                 /\ TokenAt(data, Place(b, k)) = data[b][k].token
                 /\ data[b][k].token \in Token
                 /\ ScoreAt(data, Place(b, k)) = x + g[data[b][k].token]
                 /\ ParentOf(Place(b, k)) = b
      <4>1. token < NumSteps /\ Scores
        BY DEF Step, TreeInv
      <4>2. tree[all_beams[b]].cum # NegInf /\ k \in 1..BeamWidth
        BY <1>3, <2>3, <2>7, <3>1
      <4>3. /\ Place(b, k) \in Places
            /\ TokenAt(data, Place(b, k)) = data[b][k].token
            /\ data[b][k].token \in Token
            /\ ScoreAt(data, Place(b, k))
                  = tree[all_beams[b]].cum + f[b][data[b][k].token]
        BY <1>1, <2>1, <4>1, <4>2, ScoreIs
      <4>4. ParentOf(Place(b, k)) = b
        <5>1. request \in DOMAIN Requests /\ Len(all_beams) \in Nat
          BY ShapeFacts DEF Shape
        <5> QED BY <2>1, <4>2, <5>1, PlaceIs
      <4> QED BY <2>2, <2>3, <4>3, <4>4
    <3>2. CASE \E k \in 1..W : data[b][k].token = u
      <4>1. PICK k \in 1..W : data[b][k].token = u
        BY <3>2
      <4>2. PICK i \in Places : i = Place(b, k)
        BY <3>1
      <4>3. TokenAt(data, i) = u /\ ScoreAt(data, i) = x + y /\ ParentOf(i) = b
        BY <2>4, <3>1, <4>1, <4>2
      <4>4. CASE \E j \in 1..W : t[j] = i
        <5>1. PICK j \in 1..W : t[j] = i
          BY <4>4
        <5>2. PICK n : n = m + j
          OBVIOUS
        <5>3. tree'[n] = KeptNode(data, i) /\ n = all_beams'[j]
          BY <1>2, <1>3, <1>4, <5>1, <5>2 DEF GrownTo
        <5>4. tree'[n].tokens = Append(tree[all_beams[b]].tokens, u)
          BY <4>3, <5>3 DEF KeptNode
        <5>5. n \in ToSet(all_beams')
          <6>1. all_beams' \in Seq(1..Len(tree'))
            BY <1>2 DEF GrownTo
          <6>2. j \in DOMAIN all_beams'
            BY <1>5, <6>1
          <6> QED BY <5>3, <6>2 DEF ToSet
        <5> QED BY <5>4, <5>5
      <4>5. CASE \A j \in 1..W : t[j] # i
        <5>1. \A n \in ToSet(all_beams') : tree'[n].cum >= x + y
          BY <1>9, <4>3, <4>5
        <5> QED BY <2>3, <2>5, <5>1
      <4> QED BY <4>4, <4>5
    <3>3. CASE \A k \in 1..W : data[b][k].token # u
      <4>1. \A k \in 1..W : g[data[b][k].token] >= y /\ g[data[b][k].token] \in Int
        <5>1. BestOffered(data[b], g)
          BY <2>2 DEF ScoredBy
        <5>2. \A k \in 1..W : g[data[b][k].token] >= g[u]
          BY <1>3, <3>3, <5>1 DEF BestOffered
        <5>3. request \in DOMAIN Requests
          BY DEF Shape
        <5>4. \A v \in Token : g[v] \in Int
          BY <2>2, <5>3, LogProbsAre
        <5> QED BY <2>4, <3>1, <5>2, <5>4
      <4>2. CASE \E k \in 1..W : \A j \in 1..W : t[j] # Place(b, k)
        <5>1. PICK k \in 1..W : \A j \in 1..W : t[j] # Place(b, k)
          BY <4>2
        <5>2. PICK i \in Places : i = Place(b, k)
          BY <3>1
        <5>3. PICK l \in Int : l = g[data[b][k].token] /\ l >= y
          BY <4>1
        <5>4. ScoreAt(data, i) = x + l
          BY <3>1, <5>2, <5>3
        <5>5. ASSUME NEW n \in ToSet(all_beams') PROVE tree'[n].cum >= x + y
          <6>1. PICK z \in Int : z = tree'[n].cum /\ z >= x + l
            BY <1>9, <5>1, <5>2, <5>4, <5>5
          <6> QED BY <5>3, <6>1
        <5> QED BY <2>3, <2>5, <5>5
      <4>3. CASE \A k \in 1..W : \E j \in 1..W : t[j] = Place(b, k)
        <5>1. \A j \in 1..W : \E k \in 1..W : t[j] = Place(b, k)
          <6>1. AllTaken(t, b)
            BY <1>3, <4>3 DEF AllTaken
          <6>2. OnlyTaken(t, b)
            BY <1>2, <2>1, <6>1, AllOfOneBeam
          <6> QED BY <1>3, <6>2 DEF OnlyTaken
        <5>2. ASSUME NEW n \in ToSet(all_beams') PROVE tree'[n].cum >= x + y
          <6>1. PICK j \in 1..W : tree'[n].cum = ScoreAt(data, t[j])
            BY <1>6, <5>2
          <6>2. PICK k \in 1..W : t[j] = Place(b, k)
            BY <5>1
          <6>3. PICK l \in Int : l = g[data[b][k].token] /\ l >= y
            BY <4>1
          <6>4. tree'[n].cum = x + l
            BY <3>1, <6>1, <6>2, <6>3
          <6> QED BY <6>3, <6>4
        <5> QED BY <2>3, <2>5, <5>2
      <4> QED BY <4>2, <4>3
    <3> QED BY <3>2, <3>3
  <2> QED BY <2>6, <2>7
<1> QED BY <1>3, <1>5, <1>10

\* The beam_width candidates asked of each beam are enough for the beam_width
\* best ones of all: what a step leaves out, the tokens vLLM did not list
\* included, is no better than what it keeps.
THEOREM StepKeepsTheBest == Spec => BeamsAreBest
<1>1. SearchInv /\ [Next]_vars =>
         [token' = token + 1 /\ IgnoreEos /\ Greedy /\ ~HasCatalog =>
            /\ Len(all_beams') = BeamWidth
            /\ \A b \in DOMAIN all_beams, t \in Token :
                  LET current == tree[all_beams[b]]
                      kept == ToSet(all_beams')
                  IN  \/ \E n \in kept : tree'[n].tokens = Append(current.tokens, t)
                      \/ \A n \in kept :
                            tree'[n].cum >= current.cum + scored'[b][t]]_vars
  <2> SUFFICES ASSUME SearchInv, [Next]_vars, token' = token + 1,
                      IgnoreEos, Greedy, ~HasCatalog
               PROVE  /\ Len(all_beams') = BeamWidth
                      /\ \A b \in DOMAIN all_beams : \A t \in Token :
                            \/ \E n \in ToSet(all_beams') :
                                  tree'[n].tokens = Append(tree[all_beams[b]].tokens, t)
                            \/ \A n \in ToSet(all_beams') :
                                  tree'[n].cum >= tree[all_beams[b]].cum + scored'[b][t]
    OBVIOUS
  <2>1. Shape /\ TreeInv
    BY DEF SearchInv
  <2>2. Step
    <3>1. token \in Nat
      BY <2>1, TheCall DEF Shape
    <3>2. token' # token
      BY <3>1
    <3> QED BY <3>2, NextCases
  <2> QED BY <2>1, <2>2, BestStep
<1> QED BY <1>1, SearchInvariant, PTL DEF Spec, BeamsAreBest

-----------------------------------------------------------------------------
(* Sums of log-probabilities *)

\* g[k] is the sum of the first k.
SumsTo(g, s) ==
    /\ g \in [0..Len(s) -> Int]
    /\ g[0] = 0
    /\ \A k \in 1..Len(s) : g[k] = Plus(g[k - 1], s[k])

LEMMA TotalSums ==
    ASSUME NEW s \in Seq(Int)
    PROVE  \E g : SumsTo(g, s) /\ Total(s) = g[Len(s)]
<1>1. PICK N \in Nat : N = Len(s)
  OBVIOUS
<1> DEFINE F == [k \in 1..N |-> [x \in Int |-> Plus(x, s[k])]]
<1>2. Loop(N, Int, 0, F)
  <2>1. \A k \in 1..N : s[k] \in Int
    BY <1>1
  <2>2. F \in [1..N -> [Int -> Int]]
    BY <2>1, PlusType
  <2> QED BY <2>2 DEF Loop
<1>3. PICK g : LoopValues(g, N, Int, 0, F)
  <2> HIDE DEF F
  <2> QED BY <1>2, LoopExists
<1>4. g \in [0..N -> Int] /\ g[0] = 0
  BY <1>3 DEF LoopValues
<1>5. ASSUME NEW k \in 1..N PROVE g[k] = Plus(g[k - 1], s[k])
  <2>1. g[k] = F[k][g[k - 1]]
    BY <1>3 DEF LoopValues
  <2>2. k - 1 \in 0..N
    OBVIOUS
  <2>3. g[k - 1] \in Int
    BY <1>4, <2>2
  <2> QED BY <2>1, <2>3
<1> HIDE DEF F
<1> DEFINE f == CHOOSE f : f = [k \in 0..N |-> IF k = 0 THEN 0 ELSE Plus(f[k - 1], s[k])]
<1>6. g = [k \in 0..N |-> IF k = 0 THEN 0 ELSE Plus(g[k - 1], s[k])]
  <2>1. ASSUME NEW k \in 0..N
        PROVE  g[k] = IF k = 0 THEN 0 ELSE Plus(g[k - 1], s[k])
    <3>1. CASE k = 0
      BY <1>4, <3>1
    <3>2. CASE k # 0
      <4>1. k \in 1..N
        BY <3>2
      <4> QED BY <1>5, <3>2, <4>1
    <3> QED BY <3>1, <3>2
  <2> QED BY <1>4, <2>1
<1>7. f = [k \in 0..N |-> IF k = 0 THEN 0 ELSE Plus(f[k - 1], s[k])]
  BY <1>6
<1>8. Total(s) = f[N]
  BY <1>1 DEF Total
<1> DEFINE A == {k \in 0..N : f[k] = g[k]}
<1>9. 0 \in A
  <2>1. 0 \in 0..N
    OBVIOUS
  <2>2. f[0] = 0
    BY <1>7, <2>1
  <2> QED BY <1>4, <2>1, <2>2
<1>10. ASSUME NEW k \in 1..N, k - 1 \in A PROVE k \in A
  <2>1. k \in 0..N /\ k # 0
    OBVIOUS
  <2>2. f[k] = Plus(f[k - 1], s[k])
    BY <1>7, <2>1
  <2>3. f[k - 1] = g[k - 1]
    BY <1>10
  <2> QED BY <1>5, <2>1, <2>2, <2>3
<1>11. N \in A
  <2> HIDE DEF A
  <2>1. \A k \in 0..N : k \in A
    BY <1>9, <1>10, InductionTo
  <2> QED BY <2>1
<1>12. Total(s) = g[Len(s)]
  BY <1>1, <1>8, <1>11
<1>13. SumsTo(g, s)
  BY <1>1, <1>4, <1>5 DEF SumsTo
<1> QED BY <1>12, <1>13

LEMMA TotalEmpty == Total(<<>>) = 0
<1>1. <<>> \in Seq(Int) /\ Len(<<>>) = 0
  BY EmptySeq
<1>2. PICK g : SumsTo(g, <<>>) /\ Total(<<>>) = g[Len(<<>>)]
  BY <1>1, TotalSums
<1> QED BY <1>1, <1>2 DEF SumsTo

LEMMA TotalAppend ==
    ASSUME NEW s \in Seq(Int), NEW x \in Int
    PROVE  Total(Append(s, x)) = Plus(Total(s), x) /\ Total(s) \in Int
<1>1. PICK N \in Nat : N = Len(s)
  OBVIOUS
<1>2. PICK u : u = Append(s, x)
  OBVIOUS
<1>3. /\ u \in Seq(Int) /\ Len(u) = N + 1 /\ u[N + 1] = x
      /\ \A k \in 1..N : u[k] = s[k]
  BY <1>1, <1>2, AppendProperties
<1>4. PICK g : SumsTo(g, s) /\ Total(s) = g[N]
  BY <1>1, TotalSums
<1>5. PICK h : SumsTo(h, u) /\ Total(u) = h[N + 1]
  BY <1>3, TotalSums
<1> DEFINE A == {k \in 0..N : g[k] = h[k]}
<1>6. 0 \in A
  BY <1>4, <1>5 DEF SumsTo
<1>7. ASSUME NEW k \in 1..N, k - 1 \in A PROVE k \in A
  <2>1. g[k] = Plus(g[k - 1], s[k])
    BY <1>1, <1>4 DEF SumsTo
  <2>2. k \in 1..(N + 1)
    OBVIOUS
  <2>3. h[k] = Plus(h[k - 1], u[k])
    BY <1>3, <1>5, <2>2 DEF SumsTo
  <2>4. g[k - 1] = h[k - 1] /\ s[k] = u[k]
    BY <1>3, <1>7
  <2> QED BY <2>1, <2>3, <2>4
<1>8. N \in A
  <2> HIDE DEF A
  <2>1. \A k \in 0..N : k \in A
    BY <1>6, <1>7, InductionTo
  <2> QED BY <2>1
<1>9. h[N + 1] = Plus(h[N], x)
  <2>1. N + 1 \in 1..Len(u) /\ (N + 1) - 1 = N
    BY <1>3
  <2>2. h[N + 1] = Plus(h[(N + 1) - 1], u[N + 1])
    BY <1>5, <2>1 DEF SumsTo
  <2> QED BY <1>3, <2>1, <2>2
<1>10. Total(s) \in Int
  BY <1>1, <1>4 DEF SumsTo
<1> QED BY <1>2, <1>4, <1>5, <1>8, <1>9, <1>10

-----------------------------------------------------------------------------
(* Log-probabilities that tell a path *)

\* d holds t once, with log-probability l.
HoldsOnce(d, t, l) ==
    \E j \in DOMAIN d : /\ d[j].token = t /\ d[j].lp = l
                        /\ \A i \in DOMAIN d : d[i].token = t => i = j

\* lps holds the tokens of the path, each at its place, with values v.
Told(lps, path, v) ==
    /\ Len(lps) = Len(path) /\ Len(v) = Len(path) /\ v \in Seq(Int)
    /\ \A k \in 1..Len(path) : HoldsOnce(lps[k], path[k], v[k])

LEMMA ToldEmpty == Told(<<>>, <<>>, <<>>)
<1>1. Len(<<>>) = 0 /\ <<>> \in Seq(Int)
  BY EmptySeq
<1> QED BY <1>1 DEF Told

LEMMA ToldAppend ==
    ASSUME NEW D, NEW lps \in Seq(D), NEW S, NEW path \in Seq(S), NEW v, Told(lps, path, v),
           NEW d \in D, NEW t \in S, NEW l \in Int, HoldsOnce(d, t, l)
    PROVE  Told(Append(lps, d), Append(path, t), Append(v, l))
<1>1. PICK N \in Nat : N = Len(path)
  OBVIOUS
<1>2. Len(lps) = N /\ Len(v) = N /\ v \in Seq(Int)
      /\ \A k \in 1..N : HoldsOnce(lps[k], path[k], v[k])
  BY <1>1 DEF Told
<1>3. PICK a : a = Append(lps, d)
  OBVIOUS
<1>4. PICK b : b = Append(path, t)
  OBVIOUS
<1>5. PICK c : c = Append(v, l)
  OBVIOUS
<1>6. Len(a) = N + 1 /\ a[N + 1] = d /\ \A k \in 1..N : a[k] = lps[k]
  BY <1>2, <1>3, AppendProperties
<1>7. Len(b) = N + 1 /\ b[N + 1] = t /\ \A k \in 1..N : b[k] = path[k]
  BY <1>1, <1>4, AppendProperties
<1>8. Len(c) = N + 1 /\ c[N + 1] = l /\ (\A k \in 1..N : c[k] = v[k]) /\ c \in Seq(Int)
  BY <1>2, <1>5, AppendProperties
<1>9. ASSUME NEW k \in 1..(N + 1) PROVE HoldsOnce(a[k], b[k], c[k])
  <2>1. CASE k = N + 1
    BY <1>6, <1>7, <1>8, <2>1
  <2>2. CASE k # N + 1
    <3>1. k \in 1..N
      BY <2>2
    <3> QED BY <1>2, <1>6, <1>7, <1>8, <3>1
  <2> QED BY <2>1, <2>2
<1>10. Told(a, b, c)
  BY <1>6, <1>7, <1>8, <1>9 DEF Told
<1> QED BY <1>3, <1>4, <1>5, <1>10

\* What EveryBeamOwnsItsLogprobs reads off.
LEMMA ToldIsOwned ==
    ASSUME NEW lps, NEW S, NEW path \in Seq(S), NEW v, Told(lps, path, v)
    PROVE  /\ \A k \in DOMAIN path :
                 Cardinality({j \in DOMAIN lps[k] : lps[k][j].token = path[k]}) = 1
           /\ [k \in DOMAIN path |->
                 (CHOOSE e \in {o \in ToSet(lps[k]) : o.token = path[k]} : TRUE).lp] = v
<1>1. PICK N \in Nat : N = Len(path) /\ DOMAIN path = 1..N
  OBVIOUS
<1>2. Len(v) = N /\ v \in Seq(Int) /\ \A k \in 1..N : HoldsOnce(lps[k], path[k], v[k])
  BY <1>1 DEF Told
<1>3. ASSUME NEW k \in 1..N
      PROVE  /\ Cardinality({j \in DOMAIN lps[k] : lps[k][j].token = path[k]}) = 1
             /\ (CHOOSE e \in {o \in ToSet(lps[k]) : o.token = path[k]} : TRUE).lp = v[k]
  <2>1. PICK d : d = lps[k]
    OBVIOUS
  <2>2. PICK t : t = path[k]
    OBVIOUS
  <2>3. PICK j \in DOMAIN d : /\ d[j].token = t /\ d[j].lp = v[k]
                              /\ \A i \in DOMAIN d : d[i].token = t => i = j
    BY <1>2, <2>1, <2>2 DEF HoldsOnce
  <2>4. {i \in DOMAIN d : d[i].token = t} = {j}
    BY <2>3
  <2>5. {e \in ToSet(d) : e.token = t} = {d[j]}
    BY <2>3 DEF ToSet
  <2>6. (CHOOSE e \in {o \in ToSet(d) : o.token = t} : TRUE) = d[j]
    BY <2>5
  <2>7. Cardinality({i \in DOMAIN d : d[i].token = t}) = 1
    BY <2>4, FS_Singleton
  <2> QED BY <2>1, <2>2, <2>3, <2>6, <2>7
<1>4. v = [k \in 1..N |-> v[k]]
  BY <1>2
<1> QED BY <1>1, <1>3, <1>4

-----------------------------------------------------------------------------
(* The chain of parents *)

\* A beam is its parent and one token more, which the step's data hold once;
\* it is charged for it, unless it goes on after Eos.
Descended(node, path, parent, ignore) ==
    /\ parent.reason = "length"
    /\ \E u \in Token, l \in Int :
          /\ HoldsOnce(node.data, u, l)
          /\ path = Append(parent.tokens, u)
          /\ node.cum = IF node.reason = "length" /\ ~ignore /\ u = Eos THEN NegInf
                        ELSE Plus(parent.cum, l)

Family ==
    /\ Len(tree) >= 1
    /\ tree[1] = [parent |-> 0, data |-> <<>>, tokens |-> BeginTokens,
                  cum |-> 0, reason |-> "length"]
    /\ \A n \in 2..Len(tree) :
          /\ tree[n].parent \in 1..(n - 1)
          /\ Descended(tree[n], Path(n), tree[tree[n].parent], IgnoreEos)

LEMMA FamilyInit == Init => Family
<1> SUFFICES ASSUME Init PROVE Family
  OBVIOUS
<1>1. tree = << [parent |-> 0, data |-> <<>>, tokens |-> BeginTokens,
                 cum |-> 0, reason |-> "length"] >>
  BY DEF Init
<1>2. Len(tree) = 1 /\ 2..1 = {}
  BY <1>1
<1> QED BY <1>1, <1>2 DEF Family

\* The entry of a candidate is the only one of its token.
LEMMA EntryHeldOnce ==
    ASSUME Shape, NEW f, NEW data, NEW e, NEW t, Chosen(f, data, e, t), NEW i \in Places
    PROVE  \E l \in Int : /\ HoldsOnce(data[ParentOf(i)], TokenAt(data, i), l)
                          /\ ScoreAt(data, i) = Plus(tree[all_beams[ParentOf(i)]].cum, l)
<1>1. PICK b, k, d : b = ParentOf(i) /\ k = RankOf(i) /\ d = data[b]
  OBVIOUS
<1>2. b \in 1..Len(all_beams) /\ k \in 1..BeamWidth
  BY <1>1, PlaceFacts
<1>3. ScoredBy(d, b, f[b])
  BY <1>1, <1>2 DEF Chosen
<1>4. DOMAIN d = 1..BeamWidth /\ d[k] \in Entries
  <2>1. d \in Seq(Entries) /\ Len(d) = BeamWidth
    BY <1>3 DEF ScoredBy
  <2> QED BY <1>2, <2>1
<1>5. PICK l \in Int : l = d[k].lp
  BY <1>4 DEF Entries
<1>6. HoldsOnce(d, d[k].token, l)
  BY <1>2, <1>3, <1>4, <1>5 DEF HoldsOnce, ScoredBy
<1> QED BY <1>1, <1>5, <1>6 DEF TokenAt, ScoreAt

LEMMA FamilyStep ==
    ASSUME Shape, Family, Step
    PROVE  Family'
<1>1. PICK f, data, e, t : Chosen(f, data, e, t)
  BY StepIs
<1>2. GrownTo(data, e, t)
  BY <1>1, GrownIs
<1>3. e \in Seq(Places) /\ t \in [1..BeamWidth -> Places]
      /\ \A k \in 1..Len(e) : EndsAt(data, e[k])
  BY <1>1 DEF Chosen, Selected
<1>4. request' = request
  BY DEF Step
<1>5. IgnoreEos' = IgnoreEos /\ BeginTokens' = BeginTokens
  BY <1>4, SameCall
<1>6. PICK N \in Nat : N = Len(tree) /\ N >= 1
  BY ShapeFacts DEF Family
<1>7. PICK m \in Nat : m = Len(e)
  BY <1>2 DEF GrownTo
<1>8. PICK W \in Nat : W = BeamWidth
  BY TheCall DEF Shape
<1>9. Len(tree') = N + m + W
  BY <1>2, <1>6, <1>7, <1>8 DEF GrownTo
<1>10. \A n \in 1..N : tree'[n] = tree[n]
  BY <1>2, <1>6 DEF GrownTo
<1>11. Len(tree') >= 1 /\ tree'[1] = tree[1]
  BY <1>6, <1>9, <1>10
<1>12. ASSUME NEW i \in Places
       PROVE  /\ all_beams[ParentOf(i)] \in 1..N
              /\ tree'[all_beams[ParentOf(i)]] = tree[all_beams[ParentOf(i)]]
              /\ tree[all_beams[ParentOf(i)]].reason = "length"
              /\ TokenAt(data, i) \in Token
  BY <1>1, <1>6, <1>10, <1>12, PlaceFacts, EntryFacts
<1>13. ASSUME NEW n \in 2..Len(tree')
       PROVE  /\ tree'[n].parent \in 1..(n - 1)
              /\ Descended(tree'[n], Path(n)', tree'[tree'[n].parent], IgnoreEos)
  <2>1. CASE n \in 1..N
    <3>1. n \in 2..N
      BY <1>13, <2>1
    <3>2. tree[n].parent \in 1..(n - 1) /\ tree[n].parent \in 1..N
      BY <1>6, <3>1 DEF Family
    <3>3. tree'[n] = tree[n] /\ tree'[tree[n].parent] = tree[tree[n].parent]
      BY <1>10, <2>1, <3>2
    <3>4. Path(n)' = Path(n)
      BY <1>1, <1>4, <1>6, <2>1, PathStep
    <3>5. Descended(tree[n], Path(n), tree[tree[n].parent], IgnoreEos)
      BY <1>6, <3>1 DEF Family
    <3> QED BY <3>2, <3>3, <3>4, <3>5
  <2>2. CASE \E k \in 1..m : n = N + k
    <3>1. PICK k \in 1..m : n = N + k
      BY <2>2
    <3>2. PICK i \in Places : i = e[k] /\ EndsAt(data, i)
      BY <1>3, <1>7
    <3>3. tree'[n] = EosNode(data, i)
      BY <1>2, <1>6, <1>7, <3>1, <3>2 DEF GrownTo
    <3>4. Path(n)' = Append(StartOf(i), Eos)
      <4>1. n \in Nat
        BY <3>1
      <4> QED BY <1>1, <1>4, <1>6, <1>7, <3>1, <3>2, <4>1, PathStep
    <3>5. PICK p \in 1..N : p = all_beams[ParentOf(i)]
      BY <1>12
    <3>6. tree'[n].parent = p /\ tree'[n].data = data[ParentOf(i)]
          /\ tree'[n].cum = ScoreAt(data, i) /\ tree'[n].reason = "stop"
      BY <3>3, <3>5 DEF EosNode
    <3>7. tree'[p] = tree[p] /\ tree[p].reason = "length" /\ TokenAt(data, i) = Eos
      BY <1>12, <3>2, <3>5 DEF EndsAt
    <3>8. PICK l \in Int : /\ HoldsOnce(data[ParentOf(i)], TokenAt(data, i), l)
                           /\ ScoreAt(data, i) = Plus(tree[all_beams[ParentOf(i)]].cum, l)
      BY <1>1, EntryHeldOnce
    <3>9. /\ HoldsOnce(tree'[n].data, Eos, l) /\ Path(n)' = Append(tree'[p].tokens, Eos)
          /\ tree'[n].cum = Plus(tree'[p].cum, l)
      BY <3>4, <3>5, <3>6, <3>7, <3>8 DEF StartOf
    <3>10. Descended(tree'[n], Path(n)', tree'[p], IgnoreEos)
      BY <3>6, <3>7, <3>9, TokenAssumption DEF Descended
    <3>11. p \in 1..(n - 1)
      BY <3>1
    <3> QED BY <3>6, <3>10, <3>11
  <2>3. CASE \E k \in 1..W : n = N + m + k
    <3>1. PICK k \in 1..W : n = N + m + k
      BY <2>3
    <3>2. PICK i \in Places : i = t[k]
      BY <1>3, <1>8
    <3>3. tree'[n] = KeptNode(data, i)
      BY <1>2, <1>6, <1>7, <1>8, <3>1, <3>2 DEF GrownTo
    <3>4. PICK u \in Token : u = TokenAt(data, i)
      BY <1>12
    <3>5. Path(n)' = Append(StartOf(i), u)
      <4>1. n \in Nat
        BY <3>1
      <4> QED BY <1>1, <1>4, <1>6, <1>7, <1>8, <3>1, <3>2, <3>4, <4>1, PathStep
    <3>6. PICK p \in 1..N : p = all_beams[ParentOf(i)]
      BY <1>12
    <3>7. tree'[n].parent = p /\ tree'[n].data = data[ParentOf(i)]
          /\ tree'[n].cum = KeptScoreAt(data, i) /\ tree'[n].reason = "length"
      BY <3>3, <3>6 DEF KeptNode
    <3>8. tree'[p] = tree[p] /\ tree[p].reason = "length"
      BY <1>12, <3>6
    <3>9. PICK l \in Int : /\ HoldsOnce(data[ParentOf(i)], TokenAt(data, i), l)
                           /\ ScoreAt(data, i) = Plus(tree[all_beams[ParentOf(i)]].cum, l)
      BY <1>1, EntryHeldOnce
    <3>10. /\ HoldsOnce(tree'[n].data, u, l) /\ Path(n)' = Append(tree'[p].tokens, u)
           /\ tree'[n].cum = IF ~IgnoreEos /\ u = Eos THEN NegInf ELSE Plus(tree'[p].cum, l)
      BY <3>4, <3>5, <3>6, <3>7, <3>8, <3>9 DEF StartOf, KeptScoreAt, EndsAt
    <3>11. Descended(tree'[n], Path(n)', tree'[p], IgnoreEos)
      BY <3>7, <3>8, <3>10 DEF Descended
    <3>12. p \in 1..(n - 1)
      BY <3>1
    <3> QED BY <3>7, <3>11, <3>12
  <2>4. n \in 1..Len(tree')
    BY <1>9, <1>13
  <2>5. \/ n \in 1..N
        \/ \E k \in 1..m : n = N + k
        \/ \E k \in 1..W : n = N + m + k
    BY <1>2, <1>6, <1>7, <1>8, <2>4, NodeCases
  <2> QED BY <2>1, <2>2, <2>3, <2>5
<1> QED BY <1>5, <1>11, <1>13 DEF Family

LEMMA FamilyNext == Shape /\ Family /\ [Next]_vars => Family'
<1> SUFFICES ASSUME Shape, Family, [Next]_vars PROVE Family'
  OBVIOUS
<1>1. CASE Step
  BY <1>1, FamilyStep
<1>2. CASE UNCHANGED <<request, token, tree, all_beams, completed>>
  <2>1. IgnoreEos' = IgnoreEos /\ BeginTokens' = BeginTokens /\ IncludeStop' = IncludeStop
    BY <1>2, SameCall
  <2>2. \A n : Path(n)' = Path(n)
    BY <1>2, <2>1 DEF Path
  <2> QED BY <1>2, <2>1, <2>2 DEF Family
<1> QED BY <1>1, <1>2, NextCases

\* The recursion of reconstruct_beam_logprobs follows the parents up.
LEMMA StepsOfIs ==
    ASSUME Shape, Family
    PROVE  \A n \in 1..Len(tree) :
              /\ StepsOf[n] \in Seq(Seq(Entries))
              /\ StepsOf[n] = IF n = 1 THEN <<>>
                              ELSE Append(StepsOf[tree[n].parent], tree[n].data)
<1>1. PICK N \in Nat : N = Len(tree) /\ N >= 1 /\ DOMAIN tree = 1..N
  BY ShapeFacts DEF Family
<1> DEFINE D == Seq(Seq(Entries))
<1>2. \A n \in 1..N : tree[n].data \in Seq(Entries)
  BY <1>1, ShapeFacts DEF Node
<1>3. tree[1].parent = 0
  BY DEF Family
<1>4. \A n \in 2..N : tree[n].parent \in 1..(n - 1)
  BY <1>1 DEF Family
<1>5. <<>> \in D
  BY EmptySeq
\* the answers for the first k nodes, one after the other
<1> DEFINE T == Seq(D)
           Of(k, x) == IF tree[k].parent \in 1..Len(x)
                       THEN Append(x[tree[k].parent], tree[k].data) ELSE <<>>
           F == [k \in 1..N |-> [x \in T |-> Append(x, Of(k, x))]]
<1>6. ASSUME NEW k \in 1..N, NEW x \in T PROVE Of(k, x) \in D /\ Append(x, Of(k, x)) \in T
  <2>1. CASE tree[k].parent \in 1..Len(x)
    <3>1. PICK d \in Seq(Entries) : d = tree[k].data
      BY <1>2
    <3>2. PICK y \in D : y = x[tree[k].parent]
      BY <2>1
    <3>3. Append(y, d) \in D
      BY AppendProperties
    <3>4. Of(k, x) \in D
      BY <2>1, <3>1, <3>2, <3>3
    <3> HIDE DEF D, Of
    <3> QED BY <3>4, AppendProperties
  <2>2. CASE ~(tree[k].parent \in 1..Len(x))
    <3>1. Of(k, x) = <<>>
      BY <2>2
    <3> HIDE DEF D, Of
    <3> QED BY <1>5, <3>1, AppendProperties
  <2> QED BY <2>1, <2>2
<1>7. Loop(N, T, <<>>, F)
  <2>1. F \in [1..N -> [T -> T]]
    <3> HIDE DEF T, Of
    <3> QED BY <1>6
  <2>2. <<>> \in T
    BY EmptySeq
  <2> HIDE DEF T, F
  <2> QED BY <2>1, <2>2 DEF Loop
<1>8. PICK g : LoopValues(g, N, T, <<>>, F)
  <2> HIDE DEF T, F
  <2> QED BY <1>7, LoopExists
<1>9. g \in [0..N -> T] /\ g[0] = <<>>
  BY <1>8 DEF LoopValues
<1>10. ASSUME NEW k \in 1..N
       PROVE  /\ g[k - 1] \in T /\ g[k] = Append(g[k - 1], Of(k, g[k - 1]))
  <2>1. k - 1 \in 0..N
    OBVIOUS
  <2>2. g[k - 1] \in T
    BY <1>9, <2>1
  <2>3. g[k] = F[k][g[k - 1]]
    BY <1>8 DEF LoopValues
  <2> HIDE DEF T, Of
  <2> QED BY <2>2, <2>3
<1> HIDE DEF F
\* g[k] has k members, which are those of the later ones too
<1> DEFINE A == {k \in 0..N : Len(g[k]) = k}
<1>11. 0 \in A
  <2>1. 0 \in 0..N /\ Len(<<>>) = 0
    OBVIOUS
  <2> QED BY <1>9, <2>1
<1>12. ASSUME NEW k \in 1..N, k - 1 \in A PROVE k \in A
  <2>1. PICK x \in T : x = g[k - 1] /\ Len(x) = k - 1
    BY <1>10, <1>12
  <2>2. PICK d \in D : d = Of(k, x)
    BY <1>6, <2>1
  <2>3. g[k] = Append(x, d)
    BY <1>10, <2>1, <2>2
  <2>4. Len(Append(x, d)) = Len(x) + 1
    <3> HIDE DEF D
    <3> QED BY AppendProperties
  <2>5. k \in 0..N
    OBVIOUS
  <2> QED BY <2>1, <2>3, <2>4, <2>5
<1>13. \A k \in 0..N : Len(g[k]) = k
  <2>1. \A k \in 0..N : k \in A
    <3> HIDE DEF A
    <3> QED BY <1>11, <1>12, InductionTo
  <2> QED BY <2>1
<1> DEFINE B == {k \in 0..N : \A i \in 1..k : g[k][i] = g[i][i]}
<1>14. 0 \in B
  <2>1. 0 \in 0..N /\ 1..0 = {}
    OBVIOUS
  <2> QED BY <2>1
<1>15. ASSUME NEW k \in 1..N, k - 1 \in B PROVE k \in B
  <2>1. PICK x \in T : x = g[k - 1] /\ Len(x) = k - 1
    <3>1. k - 1 \in 0..N
      OBVIOUS
    <3> QED BY <1>10, <1>13, <3>1
  <2>2. PICK d \in D : d = Of(k, x)
    BY <1>6, <2>1
  <2>3. g[k] = Append(x, d)
    BY <1>10, <2>1, <2>2
  <2>4. \A i \in 1..Len(x) : Append(x, d)[i] = x[i]
    <3> HIDE DEF D
    <3> QED BY AppendProperties
  <2>5. ASSUME NEW i \in 1..k PROVE g[k][i] = g[i][i]
    <3>1. CASE i = k
      BY <3>1
    <3>2. CASE i # k
      <4>1. i \in 1..(k - 1)
        BY <3>2
      <4>2. x[i] = g[i][i]
        BY <1>15, <2>1, <4>1
      <4>3. g[k][i] = x[i]
        BY <2>1, <2>3, <2>4, <4>1
      <4> QED BY <4>2, <4>3
    <3> QED BY <3>1, <3>2
  <2>6. k \in 0..N
    OBVIOUS
  <2> QED BY <2>5, <2>6
<1>16. \A k \in 0..N : \A i \in 1..k : g[k][i] = g[i][i]
  <2>1. \A k \in 0..N : k \in B
    <3> HIDE DEF B
    <3> QED BY <1>14, <1>15, InductionTo
  <2> QED BY <2>1
\* so the last one answers for all
<1> DEFINE h == [n \in 1..N |-> g[n][n]]
<1>17. ASSUME NEW n \in 1..N
       PROVE  /\ h[n] \in D
              /\ h[n] = IF tree[n].parent = 0 THEN <<>>
                        ELSE Append(h[tree[n].parent], tree[n].data)
  <2>1. PICK x \in T : x = g[n - 1] /\ Len(x) = n - 1
    <3>1. n - 1 \in 0..N
      OBVIOUS
    <3> QED BY <1>10, <1>13, <3>1
  <2>2. PICK d \in D : d = Of(n, x)
    BY <1>6, <2>1
  <2>3. g[n] = Append(x, d)
    BY <1>10, <2>1, <2>2
  <2>4. Append(x, d)[Len(x) + 1] = d
    <3> HIDE DEF D
    <3> QED BY AppendProperties
  <2>5. h[n] = d
    BY <2>1, <2>3, <2>4
  <2>6. CASE n = 1
    <3>1. Of(n, x) = <<>>
      BY <1>3, <2>6
    <3> QED BY <1>3, <2>2, <2>5, <2>6, <3>1
  <2>7. CASE n # 1
    <3>1. PICK p \in 1..(n - 1) : p = tree[n].parent
      <4>1. n \in 2..N
        BY <2>7
      <4> QED BY <1>4, <4>1
    <3>2. Of(n, x) = Append(x[p], tree[n].data)
      BY <2>1, <3>1
    <3>3. x[p] = h[p]
      <4>1. n - 1 \in 0..N /\ p \in 1..N
        BY <3>1
      <4> QED BY <1>16, <2>1, <3>1, <4>1
    <3>4. p # 0
      BY <3>1
    <3> QED BY <2>2, <2>5, <3>1, <3>2, <3>3, <3>4
  <2> QED BY <2>6, <2>7
<1> HIDE DEF D, T, Of, A, B
<1>18. h = [n \in 1..N |-> IF tree[n].parent = 0 THEN <<>>
                           ELSE Append(h[tree[n].parent], tree[n].data)]
  <2>1. h = [n \in 1..N |-> h[n]]
    OBVIOUS
  <2> HIDE DEF h
  <2> QED BY <1>17, <2>1
<1>19. StepsOf = [n \in 1..N |-> IF tree[n].parent = 0 THEN <<>>
                                ELSE Append(StepsOf[tree[n].parent], tree[n].data)]
  <2> DEFINE f == CHOOSE f : f = [n \in 1..N |-> IF tree[n].parent = 0 THEN <<>>
                                                ELSE Append(f[tree[n].parent], tree[n].data)]
  <2>1. StepsOf = f
    BY <1>1 DEF StepsOf
  <2>2. f = [n \in 1..N |-> IF tree[n].parent = 0 THEN <<>>
                            ELSE Append(f[tree[n].parent], tree[n].data)]
    <3> HIDE DEF h
    <3> QED BY <1>18
  <2> HIDE DEF f
  <2> QED BY <2>1, <2>2
<1>20. ASSUME NEW n \in 1..N
       PROVE  StepsOf[n] = IF tree[n].parent = 0 THEN <<>>
                           ELSE Append(StepsOf[tree[n].parent], tree[n].data)
  BY <1>19, Zenon
<1> DEFINE C == {n \in 0..N : \A i \in 1..n : StepsOf[i] = h[i]}
<1>21. 0 \in C
  <2>1. 0 \in 0..N /\ 1..0 = {}
    OBVIOUS
  <2> QED BY <2>1
<1>22. ASSUME NEW n \in 1..N, n - 1 \in C PROVE n \in C
  <2>1. StepsOf[n] = h[n]
    <3>1. CASE n = 1
      BY <1>3, <1>17, <1>20, <3>1
    <3>2. CASE n # 1
      <4>1. PICK p \in 1..(n - 1) : p = tree[n].parent
        <5>1. n \in 2..N
          BY <3>2
        <5> QED BY <1>4, <5>1
      <4>2. StepsOf[p] = h[p]
        BY <1>22, <4>1
      <4>3. p # 0
        BY <4>1
      <4> HIDE DEF h
      <4> QED BY <1>17, <1>20, <4>1, <4>2, <4>3
    <3> QED BY <3>1, <3>2
  <2>2. \A i \in 1..n : i = n \/ i \in 1..(n - 1)
    OBVIOUS
  <2>3. n \in 0..N
    OBVIOUS
  <2> HIDE DEF h
  <2> QED BY <1>22, <2>1, <2>2, <2>3
<1>23. \A n \in 1..N : StepsOf[n] = h[n]
  <2>1. \A n \in 0..N : n \in C
    <3> HIDE DEF C
    <3> QED BY <1>21, <1>22, InductionTo
  <2>2. N \in 0..N
    OBVIOUS
  <2> HIDE DEF h
  <2> QED BY <2>1, <2>2
<1>24. ASSUME NEW n \in 1..N
       PROVE  /\ StepsOf[n] \in D
              /\ StepsOf[n] = IF n = 1 THEN <<>>
                              ELSE Append(StepsOf[tree[n].parent], tree[n].data)
  <2>1. StepsOf[n] \in D
    <3> HIDE DEF h
    <3> QED BY <1>17, <1>23
  <2>2. tree[n].parent = 0 <=> n = 1
    <3>1. CASE n = 1
      BY <1>3, <3>1
    <3>2. CASE n # 1
      <4>1. n \in 2..N
        BY <3>2
      <4>2. tree[n].parent \in 1..(n - 1)
        BY <1>4, <4>1
      <4> QED BY <3>2, <4>2
    <3> QED BY <3>1, <3>2
  <2> QED BY <1>20, <2>1, <2>2
<1> QED BY <1>1, <1>24 DEF D

-----------------------------------------------------------------------------
(* What a beam is answered with *)

LEMMA SpecialTokens ==
    ASSUME request \in DOMAIN Requests
    PROVE  /\ BeginTokens \in Seq(ToSet(BeginTokens)) /\ Len(BeginTokens) \in 0..1
           /\ EndTokens \in Seq(ToSet(EndTokens)) /\ Len(EndTokens) \in 0..1
<1>1. Requests[request] \in Range(Requests)
  BY DEF Range
<1>2. \A s \in {BeginTokens, EndTokens} : s \in Seq(ToSet(s)) /\ Len(s) <= 1
  BY <1>1, RequestAssumption DEF BeginTokens, EndTokens
<1>3. ASSUME NEW A, NEW s \in Seq(A), Len(s) <= 1 PROVE Len(s) \in 0..1
  <2>1. PICK n \in Nat : n = Len(s)
    OBVIOUS
  <2> QED BY <1>3, <2>1
<1>4. BeginTokens \in Seq(ToSet(BeginTokens)) /\ Len(BeginTokens) <= 1
  BY <1>2
<1>5. EndTokens \in Seq(ToSet(EndTokens)) /\ Len(EndTokens) <= 1
  BY <1>2
<1>6. Len(BeginTokens) \in 0..1
  BY <1>3, <1>4
<1>7. Len(EndTokens) \in 0..1
  BY <1>3, <1>5
<1> QED BY <1>4, <1>5, <1>6, <1>7

LEMMA ConcatAppend ==
    ASSUME NEW D, NEW s \in Seq(D), NEW u \in Seq(D), NEW d \in D
    PROVE  s \o Append(u, d) = Append(s \o u, d) /\ s \o u \in Seq(D)
  OBVIOUS

\* A token that is not the model's has one entry, of log-probability 0.
LEMMA OneCertain ==
    ASSUME NEW x
    PROVE  HoldsOnce(<< [token |-> x, lp |-> 0] >>, x, 0)
<1>1. PICK d : d = << [token |-> x, lp |-> 0] >>
  OBVIOUS
<1>2. DOMAIN d = 1..1 /\ d[1].token = x /\ d[1].lp = 0
  BY <1>1
<1>3. \A i \in 1..1 : i = 1
  OBVIOUS
<1>4. HoldsOnce(d, x, 0)
  BY <1>2, <1>3 DEF HoldsOnce
<1> QED BY <1>1, <1>4

\* The tokens of the call, the special ones included, and entries of them.
Tokens(specials) == Token \cup specials
Lists(specials) == Seq([token : Tokens(specials), lp : Int])

LEMMA EntriesLists ==
    ASSUME NEW A
    PROVE  Seq(Entries) \subseteq Lists(A)
<1>1. PICK R : R = [token : Tokens(A), lp : Int]
  OBVIOUS
<1>2. PICK E : E = Entries
  OBVIOUS
<1>3. E \subseteq R
  BY <1>1, <1>2 DEF Entries, Tokens
<1>4. Seq(E) \subseteq Seq(R)
  BY <1>3
<1> QED BY <1>1, <1>2, <1>4 DEF Lists

LEMMA CertainIs ==
    ASSUME NEW A, NEW s \in Seq(A), Len(s) \in 0..1
    PROVE  /\ Certain(s) \in Seq(Lists(A)) /\ Len(Certain(s)) = Len(s)
           /\ s = <<>> => Certain(s) = <<>>
           /\ s # <<>> => /\ s = <<s[1]>> /\ s[1] \in A
                          /\ Certain(s) = << << [token |-> s[1], lp |-> 0] >> >>
           /\ \E v : Told(Certain(s), s, v) /\ Total(v) = 0
<1>1. PICK c : c = Certain(s)
  OBVIOUS
<1>2. DOMAIN s = 1..Len(s)
  OBVIOUS
<1>3. CASE s = <<>>
  <2>1. Len(s) = 0
    BY <1>3
  <2>2. c = [k \in 1..0 |-> << [token |-> s[k], lp |-> 0] >>]
    BY <1>1, <1>2, <2>1 DEF Certain
  <2>3. c \in Seq(Lists(A)) /\ Len(c) = 0
    <3>1. 1..0 = {} /\ 0 \in Nat
      OBVIOUS
    <3>2. c \in [1..0 -> Lists(A)]
      BY <2>2, <3>1
    <3>3. Len(c) = 0
      BY <2>2
    <3> QED BY <3>2, <3>3
  <2>4. c = <<>>
    BY <2>3
  <2> QED BY <1>1, <1>3, <2>1, <2>3, <2>4, ToldEmpty, TotalEmpty
<1>4. CASE s # <<>>
  <2>1. Len(s) = 1
    BY <1>4
  <2>2. PICK x \in A : x = s[1] /\ s = <<x>>
    BY <2>1
  <2>3. PICK d : d = << [token |-> x, lp |-> 0] >>
    OBVIOUS
  <2>4. d \in Lists(A)
    <3>1. [token |-> x, lp |-> 0] \in [token : Tokens(A), lp : Int]
      BY DEF Tokens
    <3> QED BY <2>3, <3>1 DEF Lists
  <2>5. c = <<d>>
    <3>1. c = [k \in 1..1 |-> << [token |-> s[k], lp |-> 0] >>]
      BY <1>1, <1>2, <2>1 DEF Certain
    <3>2. \A k \in 1..1 : k = 1
      OBVIOUS
    <3>3. c = [k \in 1..1 |-> d]
      BY <2>2, <2>3, <3>1, <3>2
    <3> QED BY <3>3
  <2>6. HoldsOnce(d, x, 0)
    BY <2>3, OneCertain
  <2>7. PICK z : z = <<>>
    OBVIOUS
  <2>8. PICK L : L = Lists(A) /\ d \in L
    BY <2>4
  <2>9. z \in Seq(L) /\ z \in Seq(A) /\ z \in Seq(Int) /\ Told(z, z, z) /\ Total(z) = 0
    BY <2>7, EmptySeq, ToldEmpty, TotalEmpty
  <2>10. Total(Append(z, 0)) = 0
    <3>1. Total(Append(z, 0)) = Plus(Total(z), 0)
      BY <2>9, TotalAppend
    <3> QED BY <2>9, <3>1, LogProbAssumption DEF Plus
  <2>11. Told(c, s, Append(z, 0))
    <3>1. PICK y \in Int : y = 0
      OBVIOUS
    <3>2. HoldsOnce(d, x, y)
      BY <2>6, <3>1
    <3>3. Told(Append(z, d), Append(z, x), Append(z, y))
      BY <2>2, <2>8, <2>9, <3>2, ToldAppend
    <3>4. c = Append(z, d) /\ s = Append(z, x)
      BY <2>2, <2>5, <2>7
    <3> QED BY <3>1, <3>3, <3>4
  <2>12. c \in Seq(Lists(A)) /\ Len(c) = 1
    BY <2>4, <2>5
  <2> QED BY <1>1, <1>4, <2>1, <2>2, <2>3, <2>5, <2>10, <2>11, <2>12
<1> QED BY <1>3, <1>4

\* A beam's log-probabilities tell its path, and add up to its score.
Tells(n) ==
    \E v \in Seq(Int) :
        /\ Told(Certain(BeginTokens) \o StepsOf[n], Path(n), v)
        /\ tree[n].cum = IF WentOn(n) THEN NegInf ELSE Total(v)

Specials == ToSet(BeginTokens) \cup ToSet(EndTokens)

LEMMA ListsAre ==
    ASSUME Shape, Family, NEW n \in 1..Len(tree)
    PROVE  /\ Certain(BeginTokens) \in Seq(Lists(Specials))
           /\ StepsOf[n] \in Seq(Lists(Specials))
           /\ Path(n) \in Seq(Tokens(Specials))
<1>1. request \in DOMAIN Requests
  BY DEF Shape
<1>2. BeginTokens \in Seq(Specials)
  BY <1>1, SpecialTokens DEF Specials
<1>3. Certain(BeginTokens) \in Seq(Lists(Specials))
  BY <1>1, <1>2, SpecialTokens, CertainIs
<1>4. StepsOf[n] \in Seq(Lists(Specials))
  <2>2. Seq(Entries) \subseteq Lists(Specials)
    BY EntriesLists
  <2>3. StepsOf[n] \in Seq(Seq(Entries))
    BY StepsOfIs
  <2>4. PICK L : L = Seq(Entries) /\ L \subseteq Lists(Specials)
    BY <2>2
  <2>5. StepsOf[n] \in Seq(L)
    BY <2>3, <2>4
  <2> QED BY <2>4, <2>5
<1>5. Path(n) \in Seq(Tokens(Specials))
  <2>1. tree[n].tokens \in Seq(Token \cup ToSet(BeginTokens))
    BY ShapeFacts DEF Node
  <2>2. Token \cup ToSet(BeginTokens) \subseteq Tokens(Specials) /\ Eos \in Tokens(Specials)
    BY TokenAssumption DEF Tokens, Specials
  <2>3. PICK U : U = Tokens(Specials)
    OBVIOUS
  <2>4. PICK s \in Seq(U) : s = tree[n].tokens
    BY <2>1, <2>2, <2>3
  <2>5. s \o <<Eos>> \in Seq(U) /\ s \o <<>> \in Seq(U)
    <3>1. <<Eos>> \in Seq(U) /\ <<>> \in Seq(U)
      BY <2>2, <2>3, EmptySeq
    <3> QED BY <3>1, ConcatProperties
  <2> QED BY <2>3, <2>4, <2>5 DEF Path
<1> QED BY <1>3, <1>4, <1>5

LEMMA PathOfLength ==
    ASSUME Shape, NEW n \in 1..Len(tree), tree[n].reason = "length"
    PROVE  Path(n) = tree[n].tokens
<1>1. tree[n].tokens \in Seq(Token \cup ToSet(BeginTokens))
  BY ShapeFacts DEF Node
<1>2. tree[n].tokens \o <<>> = tree[n].tokens
  BY <1>1, ConcatEmptySeq
<1> QED BY <1>2 DEF Path

LEMMA RootTells ==
    ASSUME Shape, Family
    PROVE  Tells(1)
<1>1. request \in DOMAIN Requests /\ 1 \in 1..Len(tree)
  BY ShapeFacts DEF Shape, Family
<1>2. tree[1].reason = "length" /\ tree[1].tokens = BeginTokens /\ tree[1].cum = 0
  BY DEF Family
<1>3. Path(1) = BeginTokens
  BY <1>1, <1>2, PathOfLength
<1>4. StepsOf[1] = <<>>
  BY <1>1, StepsOfIs
<1>5. PICK v : Told(Certain(BeginTokens), BeginTokens, v) /\ Total(v) = 0
  BY <1>1, SpecialTokens, CertainIs
<1>6. v \in Seq(Int)
  BY <1>5 DEF Told
<1>7. Certain(BeginTokens) \o StepsOf[1] = Certain(BeginTokens)
  BY <1>1, <1>4, ListsAre, ConcatEmptySeq
<1>8. ~WentOn(1)
  <2>1. Len(BeginTokens) \in Nat
    BY <1>1, SpecialTokens
  <2> QED BY <1>3, <2>1 DEF WentOn
<1> QED BY <1>2, <1>3, <1>5, <1>6, <1>7, <1>8 DEF Tells

LEMMA ChildTells ==
    ASSUME Shape, Family, NEW n \in 2..Len(tree), Tells(tree[n].parent)
    PROVE  Tells(n)
<1>1. PICK p : p = tree[n].parent
  OBVIOUS
<1>2. PICK N \in Nat : N = Len(tree)
  BY ShapeFacts
<1>3. p \in 1..Len(tree) /\ n \in 1..Len(tree) /\ n # 1
  BY <1>1, <1>2 DEF Family
<1>4. Descended(tree[n], Path(n), tree[p], IgnoreEos)
  BY <1>1 DEF Family
<1>5. PICK u \in Token, l \in Int :
          /\ HoldsOnce(tree[n].data, u, l)
          /\ Path(n) = Append(tree[p].tokens, u)
          /\ tree[n].cum = IF tree[n].reason = "length" /\ ~IgnoreEos /\ u = Eos THEN NegInf
                           ELSE Plus(tree[p].cum, l)
  BY <1>4 DEF Descended
<1>6. tree[p].reason = "length" /\ Path(p) = tree[p].tokens
  BY <1>3, <1>4, PathOfLength DEF Descended
<1>7. PICK q \in Seq(Tokens(Specials)) : q = Path(p)
  BY <1>3, ListsAre
<1>8. PICK w \in Seq(Int) :
          /\ Told(Certain(BeginTokens) \o StepsOf[p], q, w)
          /\ tree[p].cum = IF WentOn(p) THEN NegInf ELSE Total(w)
  BY <1>1, <1>7 DEF Tells
<1>9. PICK c \in Seq(Lists(Specials)), s \in Seq(Lists(Specials)) :
          c = Certain(BeginTokens) /\ s = StepsOf[p]
  BY <1>3, ListsAre
<1>10. PICK d \in Lists(Specials) : d = tree[n].data
  <2>1. tree[n].data \in Seq(Entries)
    BY <1>3, ShapeFacts DEF Node
  <2> QED BY <2>1, EntriesLists
<1>11. u \in Tokens(Specials)
  BY DEF Tokens
<1>12. StepsOf[n] = Append(s, d)
  BY <1>1, <1>3, <1>9, <1>10, StepsOfIs
<1>13. c \o s \in Seq(Lists(Specials)) /\ c \o Append(s, d) = Append(c \o s, d)
  BY ConcatAppend
<1>14. Told(Append(c \o s, d), Append(q, u), Append(w, l))
  <2>1. Told(c \o s, q, w) /\ HoldsOnce(d, u, l)
    BY <1>5, <1>8, <1>9, <1>10
  <2>2. PICK L, x : L = Lists(Specials) /\ x = c \o s /\ x \in Seq(L)
    BY <1>13
  <2> QED BY <1>11, <2>1, <2>2, ToldAppend
<1>15. Told(Certain(BeginTokens) \o StepsOf[n], Path(n), Append(w, l))
  BY <1>5, <1>6, <1>7, <1>9, <1>12, <1>13, <1>14
<1>16. PICK m \in Nat, k \in Nat : /\ m = Len(q) /\ k = Len(BeginTokens) /\ k <= m
  <2>1. Len(c) \in Nat /\ Len(s) \in Nat /\ Len(c \o s) = Len(c) + Len(s)
    BY ConcatProperties
  <2>2. Len(c \o s) = Len(q) /\ Len(q) \in Nat
    BY <1>8, <1>9 DEF Told
  <2>3. Len(c) = Len(BeginTokens)
    <3>1. request \in DOMAIN Requests
      BY DEF Shape
    <3> QED BY <1>9, <3>1, SpecialTokens, CertainIs
  <2> QED BY <2>1, <2>2, <2>3
<1>17. PICK a : a = Path(n) /\ Len(a) = m + 1 /\ a[m + 1] = u /\ \A j \in 1..m : a[j] = q[j]
  <2>1. PICK U : U = Tokens(Specials) /\ q \in Seq(U) /\ u \in U
    BY <1>11
  <2>2. Path(n) = Append(q, u)
    BY <1>5, <1>6, <1>7
  <2>3. /\ Len(Append(q, u)) = Len(q) + 1 /\ Append(q, u)[Len(q) + 1] = u
        /\ \A j \in 1..Len(q) : Append(q, u)[j] = q[j]
    BY <2>1, AppendProperties
  <2> QED BY <1>16, <2>2, <2>3
<1>18. WentOn(p) <=> ~IgnoreEos /\ \E j \in (k + 1)..m : q[j] = Eos
  BY <1>6, <1>7, <1>16 DEF WentOn
<1>19. WentOn(n) <=> /\ ~IgnoreEos
                     /\ \E j \in (k + 1)..(m + 1) :
                           a[j] = Eos /\ (tree[n].reason = "stop" => j < m + 1)
  BY <1>16, <1>17 DEF WentOn
<1>20. tree[n].reason \in {"length", "stop"}
  BY <1>3, ShapeFacts DEF Node
<1>21. WentOn(n) <=> WentOn(p) \/ (tree[n].reason = "length" /\ ~IgnoreEos /\ u = Eos)
  <2>1. ASSUME WentOn(p) PROVE WentOn(n)
    <3>1. PICK j \in (k + 1)..m : q[j] = Eos
      BY <1>18, <2>1
    <3>2. j \in (k + 1)..(m + 1) /\ a[j] = Eos /\ j < m + 1
      BY <1>17, <3>1
    <3> QED BY <1>18, <1>19, <2>1, <3>2
  <2>2. ASSUME tree[n].reason = "length", ~IgnoreEos, u = Eos PROVE WentOn(n)
    <3>1. m + 1 \in (k + 1)..(m + 1) /\ a[m + 1] = Eos
      BY <1>16, <1>17, <2>2
    <3> QED BY <1>19, <2>2, <3>1
  <2>3. ASSUME WentOn(n), ~(tree[n].reason = "length" /\ ~IgnoreEos /\ u = Eos)
        PROVE  WentOn(p)
    <3>1. ~IgnoreEos
      BY <1>19, <2>3
    <3>2. PICK j \in (k + 1)..(m + 1) :
              a[j] = Eos /\ (tree[n].reason = "stop" => j < m + 1)
      BY <1>19, <2>3
    <3>3. j # m + 1
      BY <1>17, <1>20, <2>3, <3>1, <3>2
    <3>4. j \in (k + 1)..m /\ j \in 1..m
      BY <3>2, <3>3
    <3>5. q[j] = Eos
      BY <1>17, <3>2, <3>4
    <3> QED BY <1>18, <3>1, <3>4, <3>5
  <2> QED BY <2>1, <2>2, <2>3
<1>22. Total(Append(w, l)) = Plus(Total(w), l) /\ Append(w, l) \in Seq(Int)
  BY TotalAppend, AppendProperties
<1>23. tree[n].cum = IF WentOn(n) THEN NegInf ELSE Total(Append(w, l))
  <2>1. WentOn(p) => Plus(tree[p].cum, l) = NegInf
    BY <1>8 DEF Plus
  <2>2. ~WentOn(p) => Plus(tree[p].cum, l) = Total(Append(w, l))
    BY <1>8, <1>22
  <2> QED BY <1>5, <1>21, <2>1, <2>2
<1> QED BY <1>15, <1>22, <1>23 DEF Tells

LEMMA AllTell ==
    ASSUME Shape, Family
    PROVE  \A n \in 1..Len(tree) : Tells(n)
<1>1. PICK N \in Nat : N = Len(tree)
  BY ShapeFacts
<1> DEFINE S == {n \in 0..N : \A i \in 1..n : Tells(i)}
<1>2. 0 \in S
  OBVIOUS
<1>3. ASSUME NEW n \in 1..N, n - 1 \in S PROVE n \in S
  <2>1. \A i \in 1..(n - 1) : Tells(i)
    BY <1>3
  <2>2. Tells(n)
    <3>1. CASE n = 1
      BY <3>1, RootTells
    <3>2. CASE n # 1
      <4>1. n \in 2..Len(tree)
        BY <1>1, <3>2
      <4>2. tree[n].parent \in 1..(n - 1)
        BY <4>1 DEF Family
      <4>3. Tells(tree[n].parent)
        BY <2>1, <4>2
      <4> QED BY <4>1, <4>3, ChildTells
    <3> QED BY <3>1, <3>2
  <2>3. \A i \in 1..n : i = n \/ i \in 1..(n - 1)
    OBVIOUS
  <2>4. n \in 0..N
    OBVIOUS
  <2> QED BY <2>1, <2>2, <2>3, <2>4
<1>4. \A n \in 0..N : n \in S
  <2> HIDE DEF S
  <2> QED BY <1>2, <1>3, InductionTo
<1>5. N \in S
  BY <1>4
<1> QED BY <1>1, <1>5

\* The end token is told with certainty too, unless the beam stopped.
LEMMA AnswerTold ==
    ASSUME Shape, Family, NEW n \in 1..Len(tree), NEW path,
           path = Path(n) \o IF tree[n].reason = "stop" THEN <<>> ELSE EndTokens
    PROVE  \E v : /\ Told(Logprobs(n), path, v)
                  /\ path \in Seq(Tokens(Specials))
                  /\ tree[n].cum = IF WentOn(n) THEN NegInf ELSE Total(v)
<1>1. PICK c \in Seq(Lists(Specials)), s \in Seq(Lists(Specials)) :
          c = Certain(BeginTokens) /\ s = StepsOf[n]
  BY ListsAre
<1>2. PICK q \in Seq(Tokens(Specials)) : q = Path(n)
  BY ListsAre
<1>3. PICK v \in Seq(Int) : /\ Told(c \o s, q, v)
                            /\ tree[n].cum = IF WentOn(n) THEN NegInf ELSE Total(v)
  BY <1>1, <1>2, AllTell DEF Tells
<1>4. c \o s \in Seq(Lists(Specials))
  BY ConcatProperties
<1>5. request \in DOMAIN Requests
  BY DEF Shape
<1>6. EndTokens \in Seq(Specials) /\ Len(EndTokens) \in 0..1
  BY <1>5, SpecialTokens DEF Specials
<1>7. Logprobs(n) = (c \o s) \o IF tree[n].reason = "stop" THEN <<>> ELSE Certain(EndTokens)
  BY <1>1 DEF Logprobs
<1>8. CASE tree[n].reason = "stop" \/ EndTokens = <<>>
  <2>1. path = q
    BY <1>2, <1>8, ConcatEmptySeq
  <2>2. Logprobs(n) = c \o s
    <3>1. EndTokens = <<>> => Certain(EndTokens) = <<>>
      BY <1>6, CertainIs
    <3>2. Logprobs(n) = (c \o s) \o <<>>
      BY <1>7, <1>8, <3>1
    <3> QED BY <1>4, <3>2, ConcatEmptySeq
  <2> QED BY <1>3, <2>1, <2>2
<1>9. CASE ~(tree[n].reason = "stop" \/ EndTokens = <<>>)
  <2>1. PICK x \in Specials : /\ EndTokens = <<x>>
                              /\ Certain(EndTokens) = << << [token |-> x, lp |-> 0] >> >>
    BY <1>6, <1>9, CertainIs
  <2>2. PICK d : d = << [token |-> x, lp |-> 0] >>
    OBVIOUS
  <2>3. d \in Lists(Specials) /\ x \in Tokens(Specials)
    <3>1. [token |-> x, lp |-> 0] \in [token : Tokens(Specials), lp : Int]
      BY DEF Tokens
    <3> QED BY <2>2, <3>1 DEF Lists, Tokens
  <2>4. HoldsOnce(d, x, 0)
    BY <2>2, OneCertain
  <2>5. PICK L, y : L = Lists(Specials) /\ y = c \o s /\ y \in Seq(L)
    BY <1>4
  <2>6. Logprobs(n) = Append(y, d)
    <3>1. Logprobs(n) = y \o <<d>>
      BY <1>7, <1>9, <2>1, <2>2, <2>5
    <3>2. d \in L
      BY <2>3, <2>5
    <3>3. y \o <<d>> = Append(y, d)
      BY <2>5, <3>2
    <3> QED BY <3>1, <3>3
  <2>7. path = Append(q, x)
    BY <1>2, <1>9, <2>1, <2>3
  <2>8. Told(Append(y, d), Append(q, x), Append(v, 0))
    <3>1. PICK U : U = Tokens(Specials) /\ q \in Seq(U) /\ x \in U
      BY <2>3
    <3>2. d \in L /\ Told(y, q, v)
      BY <1>3, <2>3, <2>5
    <3>3. PICK l \in Int : l = 0
      OBVIOUS
    <3>4. HoldsOnce(d, x, l)
      BY <2>4, <3>3
    <3>5. Told(Append(y, d), Append(q, x), Append(v, l))
      BY <2>5, <3>1, <3>2, <3>4, ToldAppend
    <3> QED BY <3>3, <3>5
  <2>9. Total(Append(v, 0)) = Total(v)
    <3>1. Total(Append(v, 0)) = Plus(Total(v), 0) /\ Total(v) \in Int
      BY TotalAppend
    <3> QED BY <3>1, LogProbAssumption DEF Plus
  <2>10. path \in Seq(Tokens(Specials))
    <3>1. PICK U : U = Tokens(Specials) /\ q \in Seq(U) /\ x \in U
      BY <2>3
    <3>2. Append(q, x) \in Seq(U)
      BY <3>1
    <3> QED BY <2>7, <3>1, <3>2
  <2> QED BY <1>3, <2>6, <2>7, <2>8, <2>9, <2>10
<1> QED BY <1>8, <1>9

\* What is asked of the log-probabilities of one beam.
Owned(lps, path, cum, went) ==
    LET own(k) == {e \in ToSet(lps[k]) : e.token = path[k]}
    IN  /\ Len(lps) = Len(path)
        /\ \A k \in DOMAIN path :
              Cardinality({j \in DOMAIN lps[k] : lps[k][j].token = path[k]}) = 1
        /\ cum = IF went THEN NegInf
                 ELSE Total([k \in DOMAIN path |-> (CHOOSE e \in own(k) : TRUE).lp])

LEMMA LogprobsOwned ==
    ASSUME Shape, Family
    PROVE  EveryBeamOwnsItsLogprobs
<1>1. ASSUME NEW n \in Live
      PROVE  Owned(Logprobs(n),
                   Path(n) \o IF tree[n].reason = "stop" THEN <<>> ELSE EndTokens,
                   tree[n].cum, WentOn(n))
  <2>1. n \in 1..Len(tree)
    BY <1>1, ShapeFacts DEF Live, ToSet
  <2>2. PICK path, lps :
            /\ path = Path(n) \o IF tree[n].reason = "stop" THEN <<>> ELSE EndTokens
            /\ lps = Logprobs(n)
    OBVIOUS
  <2>3. PICK v : /\ Told(lps, path, v) /\ path \in Seq(Tokens(Specials))
                 /\ tree[n].cum = IF WentOn(n) THEN NegInf ELSE Total(v)
    BY <2>1, <2>2, AnswerTold
  <2>4. Len(lps) = Len(path)
    BY <2>3 DEF Told
  <2>5. /\ \A k \in DOMAIN path :
              Cardinality({j \in DOMAIN lps[k] : lps[k][j].token = path[k]}) = 1
        /\ [k \in DOMAIN path |->
              (CHOOSE e \in {o \in ToSet(lps[k]) : o.token = path[k]} : TRUE).lp] = v
    BY <2>3, ToldIsOwned
  <2>6. Owned(lps, path, tree[n].cum, WentOn(n))
    BY <2>3, <2>4, <2>5 DEF Owned
  <2> QED BY <2>2, <2>6
<1> QED BY <1>1 DEF EveryBeamOwnsItsLogprobs, Owned

\* However top-n orders the candidates, beams end and branches die, the
\* log-probabilities put together along a beam's parents are one entry per
\* token, each holds that token once, and the beam's score is their sum.
THEOREM LogprobsAreOwn == Spec => []EveryBeamOwnsItsLogprobs
<1>1. Init => Family
  BY FamilyInit
<1>2. SearchInv /\ Family /\ [Next]_vars => Family'
  BY FamilyNext DEF SearchInv
<1>3. SearchInv /\ Family => EveryBeamOwnsItsLogprobs
  BY LogprobsOwned DEF SearchInv
<1> QED BY <1>1, <1>2, <1>3, SearchInvariant, PTL DEF Spec

===============================================================================
