--------------------------- MODULE CoreClientProofs ---------------------------
(***************************************************************************)
(* StepsReachTheirEntry, InFlightPointsHome and OnlyParentsStay for every  *)
(* number of searches, engines, beams and steps.  Inv follows a search     *)
(* through the three places it leaves traces in: messages, engines and     *)
(* outputs.  Whatever bears its name is at its rank, and from the moment   *)
(* its prefill is taken in until its cleanup, which is the last message of *)
(* the search, the entry is there.                                         *)
(***************************************************************************)
EXTENDS CoreClient, SequenceTheorems, TLAPS

(* A message about s lies before the engine s has chosen; a step only if   *)
(* the entry is there.                                                     *)
MessageOK(e, m) ==
    /\ e = rank[m.search]
    /\ pc[m.search] # "start"
    /\ \A i \in m.ids : i[1] = m.search
    /\ m.kind = "ADD" => ~use_mega
    /\ m.kind = "STEP" => m.search \in cached[e]
    /\ m.kind = "CLEANUP" => pc[m.search] = "done"

(* Nothing of a search comes after its cleanup.                            *)
CleanupIsLast(q) ==
    \A k, l \in DOMAIN q :
        q[k].kind = "CLEANUP" /\ k < l => q[l].search # q[k].search

MessageInv ==
    \A e \in Engine :
        /\ \A k \in DOMAIN sockets[e] : MessageOK(e, sockets[e][k])
        /\ CleanupIsLast(sockets[e])

HasEntry(s) == use_mega /\ pc[s] # "done" => s \in cached[rank[s]]

EngineInv ==
    \A e \in Engine :
        /\ \A s \in cached[e] : e = rank[s] /\ pc[s] # "start"
        /\ \A i \in work[e] :
              e = rank[i[1]] /\ pc[i[1]] # "start" /\ HasEntry(i[1])

OutputInv == \A i \in outputs : pc[i[1]] # "start" /\ HasEntry(i[1])

SearchInv ==
    \A s \in Search :
        /\ pc[s] = "start" => token[s] = 0
        /\ pc[s] = "await" => token[s] < NumSteps[s]
        /\ token[s] > 0 => HasEntry(s)
        /\ \A i \in awaiting[s] \cup prev_ids[s] : i[1] = s

FlightInv ==
    /\ \A p \in reqs_in_flight :
          p[2] = rank[p[1][1]] /\ pc[p[1][1]] # "start"
    /\ InFlightPointsHome

Inv ==
    /\ TypeOK /\ MessageInv /\ EngineInv /\ OutputInv /\ SearchInv
    /\ FlightInv

-----------------------------------------------------------------------------
(* The ids.                                                                *)

LEMMA IdsOfSearch ==
    /\ \A i \in Id : i[1] \in Search
    /\ \A s \in Search : Prefill(s) \in Id /\ Prefill(s)[1] = s
    /\ \A s \in Search : \A t \in 0..NumSteps[s] :
          /\ BeamIds(s, t) \in SUBSET Id
          /\ \A i \in BeamIds(s, t) : i[1] = s
<1>1. \A s \in Search : BeamWidth[s] \in Nat \ {0} /\ NumSteps[s] \in Nat \ {0}
  BY SizeAssumption
<1>2. \A i \in Id : i[1] \in Search
  BY DEF Id
<1>3. ASSUME NEW s \in Search
      PROVE  Prefill(s) \in Id /\ Prefill(s)[1] = s
  <2>1. <<s, 0, 1>> \in {s} \X (0..NumSteps[s]) \X (1..BeamWidth[s])
    BY <1>1
  <2> QED
    BY <2>1 DEF Id, Prefill
<1>4. ASSUME NEW s \in Search, NEW t \in 0..NumSteps[s], NEW i \in BeamIds(s, t)
      PROVE  i \in Id /\ i[1] = s
  <2>1. i \in {s} \X {t} \X (1..BeamWidth[s])
    BY <1>1, <1>4 DEF BeamIds
  <2>2. i \in {s} \X (0..NumSteps[s]) \X (1..BeamWidth[s])
    BY <2>1
  <2> QED
    BY <2>1, <2>2 DEF Id
<1> QED
  BY <1>2, <1>3, <1>4

-----------------------------------------------------------------------------
(* What a step of a search may do to the invariant of the others: it never *)
(* goes back to the start, an ended one stays so, and a rank, once chosen, *)
(* is kept.                                                                *)
Later ==
    /\ use_mega' = use_mega
    /\ \A s \in Search :
          /\ pc'[s] = "start" => pc[s] = "start"
          /\ pc[s] = "done" => pc'[s] = "done"
          /\ pc[s] # "start" => rank'[s] = rank[s]

LEMMA EnginesKeep ==
    ASSUME Inv, Later, UNCHANGED <<cached, work>>, outputs' \subseteq outputs
    PROVE  EngineInv' /\ OutputInv'
<1>1. /\ \A e \in Engine : cached[e] \in SUBSET Search /\ work[e] \in SUBSET Id
      /\ outputs \in SUBSET Id
  BY DEF Inv, TypeOK
<1>2. \A s \in Search : pc[s] # "start" /\ HasEntry(s) => HasEntry(s)'
  BY DEF Later, HasEntry
<1>3. EngineInv'
  BY <1>1, <1>2, IdsOfSearch DEF Inv, EngineInv, Later
<1>4. OutputInv'
  BY <1>1, <1>2, IdsOfSearch DEF Inv, OutputInv, Later
<1> QED
  BY <1>3, <1>4

LEMMA MessagesKeep ==
    ASSUME Inv, Later, UNCHANGED <<sockets, cached>>
    PROVE  MessageInv'
<1>1. \A e \in Engine : \A k \in DOMAIN sockets[e] : sockets[e][k] \in Message
  BY DEF Inv, TypeOK
<1>2. ASSUME NEW e \in Engine, NEW k \in DOMAIN sockets[e]
      PROVE  MessageOK(e, sockets[e][k])'
  <2>1. MessageOK(e, sockets[e][k]) /\ sockets[e][k] \in Message
    BY <1>1 DEF Inv, MessageInv
  <2> QED
    BY <2>1 DEF MessageOK, Later, Message
<1>3. \A e \in Engine : CleanupIsLast(sockets[e])'
  BY DEF Inv, MessageInv, CleanupIsLast
<1> QED
  BY <1>2, <1>3 DEF MessageInv

(* A search sends one more message to its engine.                          *)
LEMMA SendKeeps ==
    ASSUME Inv, Later, cached' = cached,
           NEW s \in Search, NEW e \in Engine, NEW m \in Message,
           e = rank[s], m.search = s, \A i \in m.ids : i[1] = s,
           pc[s] = "loop",
           m.kind = "ADD" => ~use_mega,
           m.kind = "STEP" => s \in cached[e],
           m.kind = "CLEANUP" => pc'[s] = "done",
           sockets' = [sockets EXCEPT ![e] = Append(@, m)]
    PROVE  sockets' \in [Engine -> Seq(Message)] /\ MessageInv'
<1>1. sockets \in [Engine -> Seq(Message)]
  BY DEF Inv, TypeOK
<1>2. \A q \in Seq(Message) :
         /\ Append(q, m) \in Seq(Message) /\ Len(Append(q, m)) = Len(q) + 1
         /\ \A k \in 1..Len(q) : Append(q, m)[k] = q[k]
         /\ Append(q, m)[Len(q) + 1] = m
  BY AppendProperties
<1>3. sockets' \in [Engine -> Seq(Message)]
  BY <1>1, <1>2
<1>4. MessageOK(e, m)'
  BY DEF MessageOK, Later
<1>5. ASSUME NEW f \in Engine, NEW x \in Message, MessageOK(f, x)
      PROVE  MessageOK(f, x)'
  BY <1>5 DEF MessageOK, Later, Message
<1>6. ASSUME NEW f \in Engine, f # e
      PROVE  (\A k \in DOMAIN sockets[f] : MessageOK(f, sockets[f][k]))'
             /\ CleanupIsLast(sockets[f])'
  <2>1. sockets'[f] = sockets[f]
    BY <1>1, <1>6
  <2>2. \A k \in DOMAIN sockets[f] :
           sockets[f][k] \in Message /\ MessageOK(f, sockets[f][k])
    BY <1>1 DEF Inv, MessageInv
  <2>3. ASSUME NEW k \in DOMAIN sockets'[f]
        PROVE  MessageOK(f, sockets[f][k])'
    <3>1. PICK x \in Message : x = sockets'[f][k] /\ MessageOK(f, x)
      BY <2>1, <2>2
    <3>2. MessageOK(f, x)'
      BY <1>5, <3>1
    <3> QED
      BY <3>1, <3>2 DEF MessageOK
  <2>4. CleanupIsLast(sockets[f])
    BY DEF Inv, MessageInv
  <2>5. PICK q : q = sockets[f] /\ CleanupIsLast(q)
    BY <2>4
  <2>6. q = sockets'[f]
    BY <2>1, <2>5
  <2>7. CleanupIsLast(sockets[f])'
    BY <2>5, <2>6 DEF CleanupIsLast
  <2> QED
    BY <2>3, <2>7
<1>7. /\ sockets'[e] = Append(sockets[e], m) /\ sockets[e] \in Seq(Message)
      /\ Len(sockets[e]) \in Nat
      /\ DOMAIN sockets[e] = 1..Len(sockets[e])
  BY <1>1
<1>8. /\ DOMAIN sockets'[e] = 1..(Len(sockets[e]) + 1)
      /\ sockets'[e][Len(sockets[e]) + 1] = m
      /\ \A k \in 1..Len(sockets[e]) : sockets'[e][k] = sockets[e][k]
  BY <1>2, <1>7
<1>9. ASSUME NEW k \in DOMAIN sockets'[e]
      PROVE  \/ k = Len(sockets[e]) + 1 /\ sockets'[e][k] = m
             \/ /\ k \in 1..Len(sockets[e])
                /\ sockets'[e][k] = sockets[e][k]
                /\ sockets[e][k] \in Message
                /\ MessageOK(e, sockets[e][k])
  BY <1>7, <1>8 DEF Inv, MessageInv
<1>10. ASSUME NEW k \in DOMAIN sockets'[e]
       PROVE  MessageOK(e, sockets[e][k])'
  <2>1. PICK x \in Message : x = sockets'[e][k] /\ (x = m \/ MessageOK(e, x))
    BY <1>9
  <2>2. MessageOK(e, x)'
    BY <1>4, <1>5, <2>1
  <2> QED
    BY <2>1, <2>2 DEF MessageOK
<1>11. ASSUME NEW k \in DOMAIN sockets'[e], NEW l \in DOMAIN sockets'[e],
              sockets'[e][k].kind = "CLEANUP", k < l
       PROVE  sockets'[e][l].search # sockets'[e][k].search
  <2>1. k \in 1..Len(sockets[e]) /\ sockets'[e][k] = sockets[e][k]
        /\ MessageOK(e, sockets[e][k])
    BY <1>7, <1>8, <1>9, <1>11
  <2>2. CASE l = Len(sockets[e]) + 1 /\ sockets'[e][l] = m
    BY <1>11, <2>1, <2>2 DEF MessageOK
  <2>3. CASE l \in 1..Len(sockets[e]) /\ sockets'[e][l] = sockets[e][l]
    BY <1>7, <1>11, <2>1, <2>3 DEF Inv, MessageInv, CleanupIsLast
  <2> QED
    BY <1>9, <2>2, <2>3
<1>12. CleanupIsLast(sockets[e])'
  BY <1>11 DEF CleanupIsLast
<1> QED
  BY <1>3, <1>6, <1>10, <1>12 DEF MessageInv

-----------------------------------------------------------------------------
(* The actions.                                                            *)

LEMMA InitInv == Init => Inv
<1> SUFFICES ASSUME Init PROVE Inv
  OBVIOUS
<1>1. 0 \in Engine /\ \A s \in Search : 0 <= NumSteps[s]
  BY EngineAssumption, SizeAssumption DEF Engine
<1>2. TypeOK
  <2>1. /\ use_mega \in BOOLEAN
        /\ pc \in [Search -> {"start", "loop", "await", "done"}]
        /\ token \in [Search -> Nat]
        /\ \A s \in Search : token[s] <= NumSteps[s]
        /\ rank \in [Search -> Engine]
        /\ dp_rank_counter \in Nat
    BY <1>1 DEF Init
  <2>2. /\ prev_ids \in [Search -> SUBSET Id]
        /\ awaiting \in [Search -> SUBSET Id]
        /\ used \in [Search -> SUBSET Id]
        /\ reqs_in_flight \subseteq Id \X Engine
    BY DEF Init
  <2>3. /\ engines_running \in BOOLEAN
        /\ current_wave \in Nat /\ first_req \in Nat /\ wave \in Nat
        /\ awake \subseteq Engine /\ outputs \subseteq Id
    BY DEF Init
  <2>4. /\ sockets \in [Engine -> Seq(Message)]
        /\ cached \in [Engine -> SUBSET Search]
        /\ work \in [Engine -> SUBSET Id]
    BY DEF Init
  <2> QED
    BY <2>1, <2>2, <2>3, <2>4 DEF TypeOK
<1>3. MessageInv /\ EngineInv /\ OutputInv /\ SearchInv
  BY DEF Init, MessageInv, EngineInv, OutputInv, SearchInv, CleanupIsLast
<1>4. FlightInv
  BY DEF Init, FlightInv, InFlightPointsHome
<1> QED
  BY <1>2, <1>3, <1>4 DEF Inv

LEMMA ChooseRankKeeps ==
    ASSUME Inv, NEW s \in Search, ChooseRank(s)
    PROVE  Inv'
<1>1. /\ pc \in [Search -> {"start", "loop", "await", "done"}]
      /\ rank \in [Search -> Engine] /\ dp_rank_counter \in Nat
      /\ RankFor(dp_rank_counter) \in Engine
  BY EngineAssumption DEF Inv, TypeOK, Engine, RankFor
<1>2. Later
  BY <1>1 DEF ChooseRank, Later
<1>3. TypeOK'
  BY <1>1 DEF Inv, TypeOK, ChooseRank, client, engines
<1>4. MessageInv'
  BY <1>2, MessagesKeep DEF ChooseRank, client, engines
<1>5. EngineInv' /\ OutputInv'
  BY <1>2, EnginesKeep DEF ChooseRank, engines
<1>6. SearchInv'
  BY <1>1 DEF Inv, SearchInv, ChooseRank, HasEntry, engines
<1>7. FlightInv'
  <2>1. \A p \in reqs_in_flight : p[1][1] \in Search
    BY IdsOfSearch DEF Inv, TypeOK
  <2>2. (\A p \in reqs_in_flight :
           p[2] = rank[p[1][1]] /\ pc[p[1][1]] # "start")'
    BY <1>2, <2>1 DEF Inv, FlightInv, ChooseRank, client, Later
  <2>3. InFlightPointsHome'
    BY <1>1, <2>2 DEF Inv, FlightInv, InFlightPointsHome, InFlightOf,
       ChooseRank, client
  <2> QED
    BY <2>2, <2>3 DEF FlightInv
<1> QED
  BY <1>3, <1>4, <1>5, <1>6, <1>7 DEF Inv

(* reqs_in_flight, when a search registers ids of its own and pops some.   *)
LEMMA FlightKeeps ==
    ASSUME Inv, Later, NEW s \in Search,
           pc[s] = "loop",
           NEW ids \in SUBSET Id, NEW popped \in SUBSET Id,
           \A i \in ids \cup popped : i[1] = s,
           reqs_in_flight' = Pop(Register(ids, rank[s]), popped),
           \A t \in Search \ {s} :
               awaiting'[t] = awaiting[t] /\ token'[t] = token[t]
               /\ (pc'[t] = "await" => pc[t] = "await"),
           pc'[s] = "await" /\ (token'[s] = 0 \/ ~use_mega) =>
               awaiting'[s] \subseteq ids \ popped
    PROVE  reqs_in_flight' \subseteq Id \X Engine /\ FlightInv'
<1>1. /\ reqs_in_flight \subseteq Id \X Engine
      /\ rank[s] \in Engine /\ awaiting \in [Search -> SUBSET Id]
  BY DEF Inv, TypeOK
<1>2. \A p \in reqs_in_flight' :
         \/ p \in reqs_in_flight /\ p[1] \notin ids \cup popped
         \/ p[1] \in ids /\ p[2] = rank[s] /\ p \in ids \X {rank[s]}
  BY DEF Pop, Register
<1>3. reqs_in_flight' \subseteq Id \X Engine
  BY <1>1, <1>2
<1>4. (\A p \in reqs_in_flight :
         p[2] = rank[p[1][1]] /\ pc[p[1][1]] # "start")'
  <2> SUFFICES ASSUME NEW p \in reqs_in_flight'
               PROVE  p[2] = rank'[p[1][1]] /\ pc'[p[1][1]] # "start"
    OBVIOUS
  <2>1. CASE p \in reqs_in_flight
    <3>1. p[1][1] \in Search
      BY <1>1, <2>1, IdsOfSearch
    <3> QED
      BY <2>1, <3>1 DEF Inv, FlightInv, Later
  <2>2. CASE p[1] \in ids /\ p[2] = rank[s]
    BY <2>2 DEF Later
  <2> QED
    BY <1>2, <2>1, <2>2
<1>5. \A i \in ids \ popped : <<i, rank[s]>> \in reqs_in_flight'
  BY DEF Pop, Register
<1>6. \A p \in reqs_in_flight : p[1][1] # s => p \in reqs_in_flight'
  BY DEF Pop, Register
<1>7. ASSUME NEW t \in Search,
             pc'[t] = "await", token'[t] = 0 \/ ~use_mega,
             NEW i \in awaiting'[t]
      PROVE  i \in Id /\ i[1] = t /\ \E e \in Engine : <<i, e>> \in reqs_in_flight'
  <2>1. CASE t = s
    <3>1. i \in ids \ popped
      BY <1>7, <2>1
    <3> QED
      BY <1>1, <1>5, <2>1, <3>1
  <2>2. CASE t # s
    <3>1. i \in awaiting[t] /\ pc[t] = "await" /\ (token[t] = 0 \/ ~use_mega)
      BY <1>7, <2>2
    <3>2. PICK e \in Engine : <<i, e>> \in reqs_in_flight /\ i \in Id /\ i[1] = t
      BY <3>1 DEF Inv, FlightInv, InFlightPointsHome, InFlightOf
    <3>3. <<i, e>>[1][1] # s
      BY <2>2, <3>2
    <3> QED
      BY <1>6, <3>2, <3>3
  <2> QED
    BY <2>1, <2>2
<1>8. InFlightPointsHome'
  BY <1>4, <1>7 DEF InFlightPointsHome, InFlightOf, Later
<1> QED
  BY <1>3, <1>4, <1>8 DEF FlightInv

LEMMA SendMessage ==
    ASSUME NEW e \in Engine, NEW kind \in Kind, NEW s \in Search,
           NEW ids \in SUBSET Id, current_wave \in Nat, Send(e, kind, s, ids)
    PROVE  \E m \in Message :
              /\ m.kind = kind /\ m.search = s /\ m.ids = ids
              /\ sockets' = [sockets EXCEPT ![e] = Append(@, m)]
<1> DEFINE m == [kind |-> kind, search |-> s, ids |-> ids,
                 current_wave |-> current_wave]
<1>1. m \in Message /\ m.kind = kind /\ m.search = s /\ m.ids = ids
  BY DEF Message
<1>2. sockets' = [sockets EXCEPT ![e] = Append(@, m)]
  BY DEF Send
<1> QED
  BY <1>1, <1>2

LEMMA AddBatchStepKeeps ==
    ASSUME Inv, NEW s \in Search, AddBatchStep(s)
    PROVE  Inv'
<1> DEFINE ids == BeamIds(s, token[s])
           kind == IF ~use_mega /\ \E i \in ids : ids = {i}
                   THEN "ADD" ELSE "ADD_BATCH"
<1>1. /\ pc \in [Search -> {"start", "loop", "await", "done"}]
      /\ rank[s] \in Engine /\ current_wave \in Nat
      /\ token \in [Search -> Nat] /\ token[s] \in 0..NumSteps[s]
      /\ awaiting \in [Search -> SUBSET Id]
  BY SizeAssumption DEF Inv, TypeOK
<1>2. ids \in SUBSET Id /\ \A i \in ids : i[1] = s
  BY <1>1, IdsOfSearch
<1>3. kind \in Kind /\ kind # "STEP" /\ kind # "CLEANUP" /\ (kind = "ADD" => ~use_mega)
  BY DEF Kind
<1>4. /\ pc[s] = "loop" /\ token[s] < NumSteps[s]
      /\ reqs_in_flight' = Register(ids, rank[s])
      /\ Send(rank[s], kind, s, ids)
      /\ pc' = [pc EXCEPT ![s] = "await"]
      /\ awaiting' = [awaiting EXCEPT ![s] = ids]
      /\ UNCHANGED <<use_mega, token, rank, dp_rank_counter, engines, prev_ids,
                     used, engines_running, current_wave>>
      /\ first_req' \in {first_req, first_req + 1}
  BY DEF AddBatchStep, AddRequests, EngineOf, Await, Notify
<1> HIDE DEF ids, kind
<1>5. PICK m \in Message : /\ m.kind = kind /\ m.search = s /\ m.ids = ids
                           /\ sockets' = [sockets EXCEPT ![rank[s]] = Append(@, m)]
  BY <1>1, <1>2, <1>3, <1>4, SendMessage
<1>6. Later
  BY <1>1, <1>4 DEF Later
<1>7. sockets' \in [Engine -> Seq(Message)] /\ MessageInv'
  BY <1>1, <1>2, <1>3, <1>4, <1>5, <1>6, SendKeeps DEF engines
<1>8. EngineInv' /\ OutputInv'
  BY <1>4, <1>6, EnginesKeep DEF engines
<1>9. reqs_in_flight' = Pop(Register(ids, rank[s]), {})
  BY <1>4 DEF Pop, Register
<1>10. reqs_in_flight' \subseteq Id \X Engine /\ FlightInv'
  <2> DEFINE none == {}
  <2>1. none \in SUBSET Id /\ reqs_in_flight' = Pop(Register(ids, rank[s]), none)
        /\ (\A i \in ids \cup none : i[1] = s) /\ ids \ none = ids
    BY <1>2, <1>9
  <2>2. awaiting'[s] \subseteq ids \ none
    BY <1>1, <1>4, <2>1
  <2>3. \A t \in Search \ {s} :
           awaiting'[t] = awaiting[t] /\ token'[t] = token[t]
           /\ (pc'[t] = "await" => pc[t] = "await")
    BY <1>1, <1>4
  <2> HIDE DEF none
  <2> QED
    BY <1>2, <1>4, <1>6, <2>1, <2>2, <2>3, FlightKeeps
<1>11. SearchInv'
  BY <1>1, <1>2, <1>4 DEF Inv, SearchInv, HasEntry, engines
<1>12. TypeOK'
  BY <1>1, <1>2, <1>4, <1>7, <1>10 DEF Inv, TypeOK, engines
<1> QED
  BY <1>7, <1>8, <1>10, <1>11, <1>12 DEF Inv

LEMMA MegaRequestStepKeeps ==
    ASSUME Inv, NEW s \in Search, MegaRequestStep(s)
    PROVE  Inv'
<1> DEFINE ids == BeamIds(s, token[s])
<1>1. /\ pc \in [Search -> {"start", "loop", "await", "done"}]
      /\ rank[s] \in Engine /\ current_wave \in Nat
      /\ token \in [Search -> Nat] /\ token[s] \in 0..NumSteps[s]
      /\ awaiting \in [Search -> SUBSET Id]
      /\ prev_ids \in [Search -> SUBSET Id]
      /\ used \in [Search -> SUBSET Id]
  BY SizeAssumption DEF Inv, TypeOK
<1>2. ids \in SUBSET Id /\ \A i \in ids : i[1] = s
  BY <1>1, IdsOfSearch
<1>3. PICK parents \in SUBSET prev_ids[s] :
         /\ StepUpdate(s, "STEP", ids, prev_ids[s] \ parents)
         /\ used' = [used EXCEPT ![s] = @ \cup parents]
  BY DEF MegaRequestStep
<1> DEFINE popped == prev_ids[s] \ parents
<1>4. /\ pc[s] = "loop" /\ token[s] \in 1..(NumSteps[s] - 1) /\ use_mega
      /\ reqs_in_flight' = Pop(Register(ids, rank[s]), popped)
      /\ Send(rank[s], "STEP", s, ids)
      /\ pc' = [pc EXCEPT ![s] = "await"]
      /\ awaiting' = [awaiting EXCEPT ![s] = {Prefill(s)}]
      /\ prev_ids' = [prev_ids EXCEPT ![s] = ids]
      /\ UNCHANGED <<use_mega, token, rank, dp_rank_counter, engines,
                     engines_running, current_wave>>
      /\ first_req' \in {first_req, first_req + 1}
  BY <1>3 DEF MegaRequestStep, StepUpdate, EngineOf, Await, Notify
<1>5. popped \in SUBSET Id /\ \A i \in popped : i[1] = s
  BY <1>1 DEF Inv, SearchInv
<1>6. used' \in [Search -> SUBSET Id]
  BY <1>1, <1>3
<1> HIDE DEF ids, popped
<1>7. PICK m \in Message : /\ m.kind = "STEP" /\ m.search = s /\ m.ids = ids
                           /\ sockets' = [sockets EXCEPT ![rank[s]] = Append(@, m)]
  BY <1>1, <1>2, <1>4, SendMessage DEF Kind
<1>8. Later
  BY <1>1, <1>4 DEF Later
<1>9. token[s] > 0 /\ token[s] < NumSteps[s]
  <2>1. NumSteps[s] \in Nat \ {0}
    BY SizeAssumption
  <2> QED
    BY <1>4, <2>1
<1>10. s \in cached[rank[s]]
  BY <1>4, <1>9 DEF Inv, SearchInv, HasEntry
<1>11. sockets' \in [Engine -> Seq(Message)] /\ MessageInv'
  BY <1>1, <1>2, <1>4, <1>7, <1>8, <1>10, SendKeeps DEF engines
<1>12. EngineInv' /\ OutputInv'
  BY <1>4, <1>8, EnginesKeep DEF engines
<1>13. reqs_in_flight' \subseteq Id \X Engine /\ FlightInv'
  <2>1. \A t \in Search \ {s} :
           awaiting'[t] = awaiting[t] /\ token'[t] = token[t]
           /\ (pc'[t] = "await" => pc[t] = "await")
    BY <1>1, <1>4
  <2>2. ~(token'[s] = 0 \/ ~use_mega) /\ \A i \in ids \cup popped : i[1] = s
    BY <1>2, <1>4, <1>5, <1>9
  <2> QED
    BY <1>2, <1>4, <1>5, <1>8, <2>1, <2>2, FlightKeeps
<1>14. Prefill(s) \in Id /\ Prefill(s)[1] = s
  BY IdsOfSearch
<1>15. SearchInv'
  BY <1>1, <1>2, <1>4, <1>9, <1>14 DEF Inv, SearchInv, HasEntry, engines
<1>16. TypeOK'
  <2>1. /\ pc' \in [Search -> {"start", "loop", "await", "done"}]
        /\ awaiting' \in [Search -> SUBSET Id]
        /\ prev_ids' \in [Search -> SUBSET Id]
    BY <1>1, <1>2, <1>4, <1>14
  <2>2. first_req' \in Nat
    BY <1>4 DEF Inv, TypeOK
  <2> QED
    BY <1>4, <1>6, <1>11, <1>13, <2>1, <2>2 DEF Inv, TypeOK, engines
<1> QED
  BY <1>11, <1>12, <1>13, <1>15, <1>16 DEF Inv

LEMMA FinishSearchKeeps ==
    ASSUME Inv, NEW s \in Search, FinishSearch(s)
    PROVE  Inv'
<1>1. /\ pc \in [Search -> {"start", "loop", "await", "done"}]
      /\ rank[s] \in Engine /\ current_wave \in Nat
      /\ prev_ids[s] \in SUBSET Id
      /\ reqs_in_flight \subseteq Id \X Engine
      /\ sockets \in [Engine -> Seq(Message)]
  BY DEF Inv, TypeOK
<1>2. /\ pc[s] = "loop" /\ pc' = [pc EXCEPT ![s] = "done"]
      /\ UNCHANGED <<use_mega, token, rank, prev_ids, awaiting,
                     dp_rank_counter, used, engines>>
  BY DEF FinishSearch
<1>3. Later
  BY <1>1, <1>2 DEF Later
<1>4. EngineInv' /\ OutputInv'
  BY <1>2, <1>3, EnginesKeep DEF engines
<1>5. SearchInv'
  BY <1>1, <1>2 DEF Inv, SearchInv, HasEntry, engines
<1>6. \A t \in Search \ {s} :
         awaiting'[t] = awaiting[t] /\ token'[t] = token[t]
         /\ (pc'[t] = "await" => pc[t] = "await")
  BY <1>1, <1>2
<1>7. pc'[s] # "await" /\ \A i \in prev_ids[s] : i[1] = s
  BY <1>1, <1>2 DEF Inv, SearchInv
<1>8. CASE use_mega
  <2> DEFINE none == {}
             popped == prev_ids[s]
  <2>1. /\ reqs_in_flight' = Pop(Register(none, rank[s]), popped)
        /\ Send(rank[s], "CLEANUP", s, none)
        /\ UNCHANGED <<engines_running, current_wave>>
        /\ first_req' \in {first_req, first_req + 1}
    BY <1>8 DEF FinishSearch, StepUpdate, EngineOf, Notify
  <2>2. /\ none \in SUBSET Id /\ popped \in SUBSET Id
        /\ \A i \in none : i[1] = s
        /\ \A i \in none \cup popped : i[1] = s
    BY <1>1, <1>7
  <2> HIDE DEF none, popped
  <2>3. PICK m \in Message : /\ m.kind = "CLEANUP" /\ m.search = s /\ m.ids = none
                             /\ sockets' = [sockets EXCEPT ![rank[s]] = Append(@, m)]
    BY <1>1, <2>1, <2>2, SendMessage DEF Kind
  <2>4. pc'[s] = "done"
    BY <1>1, <1>2
  <2>5. sockets' \in [Engine -> Seq(Message)] /\ MessageInv'
    BY <1>1, <1>2, <1>3, <2>2, <2>3, <2>4, SendKeeps DEF engines
  <2>6. reqs_in_flight' \subseteq Id \X Engine /\ FlightInv'
    BY <1>2, <1>3, <1>6, <1>7, <2>1, <2>2, FlightKeeps
  <2>7. TypeOK'
    BY <1>1, <1>2, <2>1, <2>5, <2>6 DEF Inv, TypeOK, engines
  <2> QED
    BY <1>4, <1>5, <2>5, <2>6, <2>7 DEF Inv
<1>9. CASE ~use_mega
  <2>1. UNCHANGED client
    BY <1>9 DEF FinishSearch
  <2>2. MessageInv'
    BY <1>2, <1>3, <2>1, MessagesKeep DEF client, engines
  <2>3. FlightInv'
    <3>1. \A p \in reqs_in_flight : p[1][1] \in Search
      BY <1>1, IdsOfSearch
    <3>2. (\A p \in reqs_in_flight :
             p[2] = rank[p[1][1]] /\ pc[p[1][1]] # "start")'
      BY <1>3, <2>1, <3>1 DEF Inv, FlightInv, Later, client
    <3>3. InFlightPointsHome'
      BY <1>2, <1>6, <1>7, <2>1, <3>2 DEF Inv, FlightInv, InFlightPointsHome,
         InFlightOf, client
    <3> QED
      BY <3>2, <3>3 DEF FlightInv
  <2>4. TypeOK'
    BY <1>1, <1>2, <2>1 DEF Inv, TypeOK, client, engines
  <2> QED
    BY <1>4, <1>5, <2>2, <2>3, <2>4 DEF Inv
<1> QED
  BY <1>8, <1>9

LEMMA DeliverKeeps ==
    ASSUME Inv, NEW i \in outputs, Deliver(i)
    PROVE  Inv'
<1> DEFINE s == i[1]
           left == awaiting[s] \ {i}
           goes_on == pc[s] = "await" /\ i \in awaiting[s] /\ left = {}
<1>1. /\ pc \in [Search -> {"start", "loop", "await", "done"}]
      /\ token \in [Search -> Nat]
      /\ \A t \in Search : token[t] \in 0..NumSteps[t]
      /\ awaiting \in [Search -> SUBSET Id]
      /\ prev_ids \in [Search -> SUBSET Id]
      /\ reqs_in_flight \subseteq Id \X Engine
      /\ i \in Id /\ s \in Search /\ outputs \subseteq Id
  BY IdsOfSearch, SizeAssumption DEF Inv, TypeOK
<1>2. /\ outputs' = outputs \ {i}
      /\ reqs_in_flight' = Pop(reqs_in_flight, {i})
      /\ awaiting' = [awaiting EXCEPT ![s] = left]
      /\ goes_on => /\ pc' = [pc EXCEPT ![s] = "loop"]
                    /\ token' = [token EXCEPT ![s] = @ + 1]
                    /\ prev_ids' = [prev_ids EXCEPT ![s] = BeamIds(s, token[s])]
      /\ ~goes_on => UNCHANGED <<pc, token, prev_ids>>
      /\ UNCHANGED <<use_mega, rank, dp_rank_counter, used, engines_running,
                     current_wave, first_req, sockets, cached, work, awake,
                     wave>>
  BY DEF Deliver
<1>3. Later
  BY <1>1, <1>2 DEF Later
<1>4. MessageInv'
  BY <1>2, <1>3, MessagesKeep
<1>5. EngineInv' /\ OutputInv'
  BY <1>2, <1>3, EnginesKeep
<1>6. /\ BeamIds(s, token[s]) \in SUBSET Id
      /\ \A j \in BeamIds(s, token[s]) : j[1] = s
  BY <1>1, IdsOfSearch
<1>7. NumSteps[s] \in Nat /\ HasEntry(s)
  BY <1>1, SizeAssumption DEF Inv, OutputInv
<1>8. goes_on => token[s] < NumSteps[s] /\ token[s] + 1 \in 0..NumSteps[s]
  BY <1>1, <1>7 DEF Inv, SearchInv
<1> HIDE DEF goes_on
<1>9. \A t \in Search : HasEntry(t) => HasEntry(t)'
  BY <1>2, <1>3 DEF HasEntry, Later
<1>10. SearchInv'
  <2> SUFFICES ASSUME NEW t \in Search
               PROVE  /\ pc'[t] = "start" => token'[t] = 0
                      /\ pc'[t] = "await" => token'[t] < NumSteps[t]
                      /\ token'[t] > 0 => HasEntry(t)'
                      /\ \A j \in awaiting'[t] \cup prev_ids'[t] : j[1] = t
    BY <1>2 DEF SearchInv
  <2>1. /\ pc[t] = "start" => token[t] = 0
        /\ pc[t] = "await" => token[t] < NumSteps[t]
        /\ token[t] > 0 => HasEntry(t)
        /\ \A j \in awaiting[t] \cup prev_ids[t] : j[1] = t
    BY DEF Inv, SearchInv
  <2>2. CASE t # s
    BY <1>1, <1>2, <1>9, <2>1, <2>2
  <2>3. CASE t = s /\ goes_on
    BY <1>1, <1>2, <1>6, <1>7, <1>9, <2>1, <2>3
  <2>4. CASE t = s /\ ~goes_on
    BY <1>1, <1>2, <1>9, <2>1, <2>4
  <2> QED
    BY <2>2, <2>3, <2>4
<1>11. FlightInv'
  <2>1. \A p \in reqs_in_flight' : p \in reqs_in_flight
    BY <1>2 DEF Pop
  <2>2. \A p \in reqs_in_flight : p[1][1] \in Search
    BY <1>1, IdsOfSearch
  <2>3. (\A p \in reqs_in_flight :
           p[2] = rank[p[1][1]] /\ pc[p[1][1]] # "start")'
    BY <1>3, <2>1, <2>2 DEF Inv, FlightInv, Later
  <2>4. ASSUME NEW t \in Search,
               pc'[t] = "await", token'[t] = 0 \/ ~use_mega,
               NEW j \in awaiting'[t]
        PROVE  j \in Id /\ j[1] = t /\ \E e \in Engine : <<j, e>> \in reqs_in_flight'
    <3>1. /\ pc[t] = "await" /\ (token[t] = 0 \/ ~use_mega)
          /\ j \in awaiting[t] /\ j # i
      <4>1. CASE t = s /\ goes_on
        BY <1>1, <1>2, <2>4, <4>1
      <4>2. CASE t = s /\ ~goes_on
        BY <1>1, <1>2, <2>4, <4>2
      <4>3. CASE t # s
        <5>1. pc[t] = "await" /\ (token[t] = 0 \/ ~use_mega) /\ j \in awaiting[t]
          BY <1>1, <1>2, <2>4, <4>3
        <5>2. j[1] = t
          BY <5>1 DEF Inv, SearchInv
        <5> QED
          BY <4>3, <5>1, <5>2
      <4> QED
        BY <4>1, <4>2, <4>3
    <3>2. PICK e \in Engine : <<j, e>> \in reqs_in_flight /\ j \in Id /\ j[1] = t
      BY <3>1 DEF Inv, FlightInv, InFlightPointsHome, InFlightOf
    <3>3. <<j, e>> \in reqs_in_flight'
      BY <1>2, <3>1, <3>2 DEF Pop
    <3> QED
      BY <3>2, <3>3
  <2>5. InFlightPointsHome'
    BY <1>2, <2>3, <2>4 DEF InFlightPointsHome, InFlightOf
  <2> QED
    BY <2>3, <2>5 DEF FlightInv
<1>12. TypeOK'
  <2>1. /\ pc' \in [Search -> {"start", "loop", "await", "done"}]
        /\ prev_ids' \in [Search -> SUBSET Id]
        /\ awaiting' \in [Search -> SUBSET Id]
    BY <1>1, <1>2, <1>6
  <2>2. token' \in [Search -> Nat] /\ \A t \in Search : token'[t] <= NumSteps[t]
    BY <1>1, <1>2, <1>8
  <2>3. reqs_in_flight' \subseteq Id \X Engine /\ outputs' \subseteq Id
    BY <1>1, <1>2 DEF Pop
  <2> QED
    BY <1>2, <2>1, <2>2, <2>3 DEF Inv, TypeOK
<1> QED
  BY <1>4, <1>5, <1>10, <1>11, <1>12 DEF Inv

LEMMA ReceiveKeeps ==
    ASSUME Inv, NEW e \in Engine, Receive(e)
    PROVE  Inv'
<1>1. /\ sockets \in [Engine -> Seq(Message)]
      /\ cached \in [Engine -> SUBSET Search]
      /\ work \in [Engine -> SUBSET Id]
      /\ outputs \subseteq Id
      /\ rank \in [Search -> Engine]
  BY DEF Inv, TypeOK
<1>2. sockets[e] # << >> /\ sockets[e] \in Seq(Message)
  BY <1>1 DEF Receive
<1>3. PICK m \in Message : m = Head(sockets[e])
  BY <1>2, HeadTailProperties
<1>4. /\ Tail(sockets[e]) \in Seq(Message)
      /\ Len(sockets[e]) \in Nat \ {0} /\ DOMAIN sockets[e] = 1..Len(sockets[e])
      /\ DOMAIN Tail(sockets[e]) = 1..(Len(sockets[e]) - 1)
      /\ \A k \in DOMAIN Tail(sockets[e]) : Tail(sockets[e])[k] = sockets[e][k + 1]
      /\ m = sockets[e][1]
  BY <1>2, <1>3, HeadTailProperties
<1>5. MessageOK(e, m) /\ m.search \in Search /\ m.ids \in SUBSET Id
  BY <1>4 DEF Inv, MessageInv, Message
<1>6. /\ cached' = [cached EXCEPT
            ![e] = CASE m.kind = "ADD_BATCH" -> @ \cup {m.search}
                     [] m.kind = "CLEANUP" -> @ \ {m.search}
                     [] OTHER -> @]
      /\ work' = [work EXCEPT ![e] = @ \cup Requests(e, m)]
      /\ sockets' = [sockets EXCEPT ![e] = Tail(@)]
      /\ awake' \in {Engine, awake}
      /\ UNCHANGED <<search, reqs_in_flight, engines_running, current_wave,
                     first_req, wave>>
  BY <1>3 DEF Receive
<1>7. outputs' = outputs
  BY <1>3, <1>5 DEF Receive, MessageOK
<1>8. /\ \A f \in Engine \ {e} : cached'[f] = cached[f]
      /\ m.kind = "ADD_BATCH" => cached'[e] = cached[e] \cup {m.search}
      /\ m.kind = "CLEANUP" => cached'[e] = cached[e] \ {m.search}
      /\ m.kind \notin {"ADD_BATCH", "CLEANUP"} => cached'[e] = cached[e]
  BY <1>1, <1>6
<1>9. /\ pc' = pc /\ rank' = rank /\ use_mega' = use_mega /\ token' = token
      /\ prev_ids' = prev_ids /\ awaiting' = awaiting
  BY <1>6 DEF search
<1>10. \A s \in Search : HasEntry(s) => HasEntry(s)'
  <2> SUFFICES ASSUME NEW s \in Search, use_mega, pc[s] # "done",
                      s \in cached[rank[s]]
               PROVE  s \in cached'[rank[s]]
    BY <1>9 DEF HasEntry
  <2>1. m.kind = "CLEANUP" => s # m.search
    BY <1>5 DEF MessageOK
  <2> QED
    BY <1>1, <1>8, <2>1
<1>11. ASSUME NEW f \in Engine, NEW k \in DOMAIN sockets'[f]
       PROVE  MessageOK(f, sockets[f][k])'
  <2>1. CASE f # e
    <3>1. sockets'[f] = sockets[f]
      BY <1>1, <1>6, <2>1
    <3>2. PICK x \in Message : x = sockets'[f][k] /\ MessageOK(f, x)
      BY <1>1, <3>1 DEF Inv, MessageInv
    <3>3. MessageOK(f, x)'
      BY <1>8, <1>9, <2>1, <3>2 DEF MessageOK
    <3> QED
      BY <3>2, <3>3 DEF MessageOK
  <2>2. CASE f = e
    <3>1. /\ k \in 1..(Len(sockets[e]) - 1) /\ k + 1 \in DOMAIN sockets[e]
          /\ sockets'[e][k] = sockets[e][k + 1]
      BY <1>1, <1>4, <1>6, <2>2
    <3>2. PICK x \in Message : x = sockets'[e][k] /\ MessageOK(e, x)
      BY <1>2, <3>1 DEF Inv, MessageInv
    <3>3. m.kind = "CLEANUP" => x.search # m.search
      BY <1>4, <3>1, <3>2 DEF Inv, MessageInv, CleanupIsLast
    <3>4. x.kind = "STEP" => x.search \in cached'[e]
      BY <1>8, <3>2, <3>3 DEF MessageOK
    <3>5. MessageOK(e, x)'
      BY <1>9, <3>2, <3>4 DEF MessageOK
    <3> QED
      BY <2>2, <3>2, <3>5 DEF MessageOK
  <2> QED
    BY <2>1, <2>2
<1>12. ASSUME NEW f \in Engine
       PROVE  CleanupIsLast(sockets[f])'
  <2>1. CASE f # e
    <3>1. PICK q : q = sockets[f] /\ CleanupIsLast(q)
      BY DEF Inv, MessageInv
    <3>2. q = sockets'[f]
      BY <1>1, <1>6, <2>1, <3>1
    <3> QED
      BY <3>1, <3>2 DEF CleanupIsLast
  <2>2. CASE f = e
    <3>1. \A k \in DOMAIN sockets'[e] :
             /\ k \in Nat /\ k + 1 \in DOMAIN sockets[e]
             /\ sockets'[e][k] = sockets[e][k + 1]
      BY <1>1, <1>4, <1>6
    <3>2. ASSUME NEW k \in DOMAIN sockets'[e], NEW l \in DOMAIN sockets'[e],
                 sockets'[e][k].kind = "CLEANUP", k < l
          PROVE  sockets'[e][l].search # sockets'[e][k].search
      <4>1. k + 1 < l + 1
        BY <3>1, <3>2
      <4> QED
        BY <3>1, <3>2, <4>1 DEF Inv, MessageInv, CleanupIsLast
    <3> QED
      BY <2>2, <3>2 DEF CleanupIsLast
  <2> QED
    BY <2>1, <2>2
<1>13. MessageInv'
  BY <1>11, <1>12 DEF MessageInv
<1>14. OutputInv'
  BY <1>1, <1>7, <1>9, <1>10, IdsOfSearch DEF Inv, OutputInv
<1>15. SearchInv'
  BY <1>9, <1>10 DEF Inv, SearchInv
<1>16. /\ Requests(e, m) \in SUBSET Id
       /\ \A i \in Requests(e, m) : i[1] = m.search
       /\ Requests(e, m) # {} => HasEntry(m.search)'
  <2>1. /\ Prefill(m.search) \in Id
        /\ Prefill(m.search)[1] = m.search
        /\ e = rank[m.search]
    BY <1>5, IdsOfSearch DEF MessageOK
  <2>2. CASE m.kind \in {"ADD", "ADD_BATCH"}
    <3>1. Requests(e, m) = m.ids
      BY <2>2 DEF Requests
    <3>2. HasEntry(m.search)'
      BY <1>5, <1>8, <1>9, <2>1, <2>2 DEF HasEntry, MessageOK
    <3> QED
      BY <1>5, <3>1, <3>2 DEF MessageOK
  <2>3. CASE m.kind = "STEP"
    <3>1. m.search \in cached[e] /\ Requests(e, m) = {Prefill(m.search)}
      BY <1>5, <2>3 DEF Requests, MessageOK
    <3>2. HasEntry(m.search)'
      BY <1>8, <1>9, <2>1, <2>3, <3>1 DEF HasEntry
    <3> QED
      BY <2>1, <3>1, <3>2
  <2>4. CASE m.kind = "CLEANUP"
    BY <2>4 DEF Requests
  <2> QED
    BY <2>2, <2>3, <2>4 DEF Message, Kind
<1>17. EngineInv'
  <2> SUFFICES ASSUME NEW f \in Engine
               PROVE  /\ \A s \in cached'[f] : f = rank[s] /\ pc[s] # "start"
                      /\ \A i \in work'[f] :
                            f = rank[i[1]] /\ pc[i[1]] # "start" /\ HasEntry(i[1])'
    BY <1>9 DEF EngineInv, HasEntry
  <2>1. /\ \A s \in cached[f] : f = rank[s] /\ pc[s] # "start"
        /\ \A i \in work[f] :
              /\ f = rank[i[1]] /\ pc[i[1]] # "start" /\ HasEntry(i[1])
              /\ i[1] \in Search
    BY <1>1, IdsOfSearch DEF Inv, EngineInv
  <2>2. e = rank[m.search] /\ pc[m.search] # "start"
    BY <1>5 DEF MessageOK
  <2>3. \A s \in cached'[f] : s \in cached[f] \/ (f = e /\ s = m.search)
    BY <1>8
  <2>4. \A i \in work'[f] : i \in work[f] \/ (f = e /\ i \in Requests(e, m))
    BY <1>1, <1>6
  <2>5. ASSUME NEW i \in work'[f]
        PROVE  f = rank[i[1]] /\ pc[i[1]] # "start" /\ HasEntry(i[1])'
    <3>1. CASE i \in work[f]
      BY <1>10, <2>1, <3>1
    <3>2. CASE f = e /\ i \in Requests(e, m)
      <4>1. PICK s \in Search : s = i[1] /\ s = m.search /\ HasEntry(s)'
        BY <1>5, <1>16, <3>2 DEF HasEntry
      <4> QED
        BY <2>2, <3>2, <4>1 DEF HasEntry
    <3> QED
      BY <2>4, <3>1, <3>2
  <2> QED
    BY <2>1, <2>2, <2>3, <2>5
<1>18. FlightInv'
  BY <1>6, <1>9 DEF Inv, FlightInv, InFlightPointsHome, InFlightOf
<1>19. TypeOK'
  <2>1. /\ sockets' \in [Engine -> Seq(Message)]
        /\ work' \in [Engine -> SUBSET Id]
    BY <1>1, <1>4, <1>6, <1>16
  <2>2. cached' \in [Engine -> SUBSET Search]
    BY <1>1, <1>5, <1>6
  <2>3. awake' \subseteq Engine
    BY <1>6 DEF Inv, TypeOK
  <2> QED
    BY <1>6, <1>7, <2>1, <2>2, <2>3 DEF Inv, TypeOK, search
<1> QED
  BY <1>13, <1>14, <1>15, <1>17, <1>18, <1>19 DEF Inv

LEMMA LockStepKeeps ==
    ASSUME Inv, LockStep
    PROVE  Inv'
<1>1. PICK finished \in SUBSET AllWork :
         /\ outputs' = outputs \cup finished
         /\ work' = [e \in Engine |-> work[e] \ finished]
         /\ \/ awake' = {} /\ wave' = wave + 1
            \/ awake' = Engine /\ wave' = wave
  BY DEF LockStep
<1>2. /\ use_mega' = use_mega /\ pc' = pc /\ token' = token /\ rank' = rank
      /\ prev_ids' = prev_ids /\ awaiting' = awaiting
      /\ dp_rank_counter' = dp_rank_counter /\ used' = used
      /\ reqs_in_flight' = reqs_in_flight /\ engines_running' = engines_running
      /\ current_wave' = current_wave /\ first_req' = first_req
      /\ sockets' = sockets /\ cached' = cached
  BY DEF LockStep, search, client
<1>3. work \in [Engine -> SUBSET Id] /\ outputs \subseteq Id
  BY DEF Inv, TypeOK
<1>4. \A i \in finished : i \in Id /\ pc[i[1]] # "start" /\ HasEntry(i[1])
  BY <1>3 DEF Inv, EngineInv, AllWork
<1>5. \A s : HasEntry(s)' <=> HasEntry(s)
  BY <1>2 DEF HasEntry
<1>6. Later
  BY <1>2 DEF Later
<1>7. MessageInv'
  BY <1>2, <1>6, MessagesKeep
<1>8. EngineInv'
  <2>1. \A e \in Engine : work'[e] \subseteq work[e]
    BY <1>1
  <2> QED
    BY <1>2, <2>1 DEF Inv, EngineInv, HasEntry
<1>9. OutputInv'
  BY <1>1, <1>2, <1>4 DEF Inv, OutputInv, HasEntry
<1>10. SearchInv'
  BY <1>2 DEF Inv, SearchInv, HasEntry
<1>11. FlightInv'
  BY <1>2 DEF Inv, FlightInv, InFlightPointsHome, InFlightOf
<1>12. TypeOK'
  <2>1. outputs' \subseteq Id /\ work' \in [Engine -> SUBSET Id]
    BY <1>1, <1>3, <1>4
  <2>2. awake' \subseteq Engine /\ wave' \in Nat
    BY <1>1 DEF Inv, TypeOK
  <2> QED
    BY <1>2, <2>1, <2>2 DEF Inv, TypeOK
<1> QED
  BY <1>7, <1>8, <1>9, <1>10, <1>11, <1>12 DEF Inv

(* What the client hears, what it passes on and who is awake is no part of *)
(* the invariant.                                                          *)
LEMMA HearingKeeps ==
    ASSUME Inv, ForwardFirstReq \/ HearOfEngines \/ UNCHANGED vars
    PROVE  Inv'
<1>1. /\ use_mega' = use_mega /\ pc' = pc /\ token' = token /\ rank' = rank
      /\ prev_ids' = prev_ids /\ awaiting' = awaiting
      /\ dp_rank_counter' = dp_rank_counter /\ used' = used
      /\ reqs_in_flight' = reqs_in_flight
      /\ sockets' = sockets /\ cached' = cached /\ work' = work
      /\ wave' = wave /\ outputs' = outputs
  BY DEF ForwardFirstReq, HearOfEngines, vars, search, client, engines
<1>2. /\ engines_running' \in BOOLEAN /\ current_wave' \in Nat
      /\ first_req' \in Nat /\ awake' \subseteq Engine
  <2>1. /\ engines_running \in BOOLEAN /\ current_wave \in Nat
        /\ first_req \in Nat /\ awake \subseteq Engine /\ wave \in Nat
    BY DEF Inv, TypeOK
  <2>2. CASE ForwardFirstReq
    BY <2>1, <2>2 DEF ForwardFirstReq
  <2>3. CASE HearOfEngines
    BY <2>1, <2>3 DEF HearOfEngines, engines
  <2>4. CASE UNCHANGED vars
    BY <2>1, <2>4 DEF vars, client, engines
  <2> QED
    BY <2>2, <2>3, <2>4
<1>3. Later
  BY <1>1 DEF Later
<1>4. MessageInv' /\ EngineInv' /\ OutputInv'
  BY <1>1, <1>3, MessagesKeep, EnginesKeep
<1>5. SearchInv' /\ FlightInv'
  BY <1>1 DEF Inv, SearchInv, FlightInv, HasEntry, InFlightPointsHome,
     InFlightOf
<1>6. TypeOK'
  BY <1>1, <1>2 DEF Inv, TypeOK
<1> QED
  BY <1>4, <1>5, <1>6 DEF Inv

LEMMA NextInv == Inv /\ [Next]_vars => Inv'
<1> SUFFICES ASSUME Inv, [Next]_vars PROVE Inv'
  OBVIOUS
<1>1. CASE \E s \in Search : SearchStep(s)
  BY <1>1, ChooseRankKeeps, AddBatchStepKeeps, MegaRequestStepKeeps,
     FinishSearchKeeps DEF SearchStep
<1>2. CASE \E i \in outputs : Deliver(i)
  BY <1>2, DeliverKeeps
<1>3. CASE ForwardFirstReq \/ HearOfEngines \/ Terminated \/ UNCHANGED vars
  BY <1>3, HearingKeeps DEF Terminated
<1>4. CASE \E e \in Engine : Receive(e)
  BY <1>4, ReceiveKeeps
<1>5. CASE LockStep
  BY <1>5, LockStepKeeps
<1> QED
  BY <1>1, <1>2, <1>3, <1>4, <1>5 DEF Next

-----------------------------------------------------------------------------
(* What stays in reqs_in_flight.  With mega requests the engine is given,  *)
(* and answers, session ids only; the beams of the last iteration and the  *)
(* parents of earlier ones are in flight.  A beam that was used is of an   *)
(* earlier iteration than those of the last.                               *)

OnlyPrefills(ids) == \A i \in ids : i = Prefill(i[1])

SessionIdsOnly ==
    use_mega =>
        /\ OnlyPrefills(outputs)
        /\ \A e \in Engine : OnlyPrefills(work[e])
        /\ \A e \in Engine : \A k \in DOMAIN sockets[e] :
              sockets[e][k].kind = "ADD_BATCH" => OnlyPrefills(sockets[e][k].ids)

(* The beams of iteration t are the last ones.                             *)
LastAre(s, t) ==
    /\ prev_ids[s] = BeamIds(s, t)
    /\ \A i \in used[s] : i[2] < t

MegaFlight(s) ==
    /\ token[s] = 0 => used[s] = {} /\ prev_ids[s] = {}
    /\ pc[s] = "await" /\ token[s] = 0 =>
          awaiting[s] = {Prefill(s)} /\ InFlightOf(s) = {Prefill(s)}
    /\ pc[s] = "await" /\ token[s] > 0 => LastAre(s, token[s])
    /\ pc[s] # "await" /\ token[s] > 0 => LastAre(s, token[s] - 1)
    /\ pc[s] # "done" /\ ~(pc[s] = "await" /\ token[s] = 0) =>
          InFlightOf(s) = (used[s] \cup prev_ids[s]) \ {Prefill(s)}
    /\ pc[s] = "done" => InFlightOf(s) = used[s] \ {Prefill(s)}

BatchFlight(s) ==
    /\ used[s] = {}
    /\ pc[s] # "await" => awaiting[s] = {}
    /\ InFlightOf(s) = awaiting[s]

SearchFlight(s) == IF use_mega THEN MegaFlight(s) ELSE BatchFlight(s)

Flight == SessionIdsOnly /\ \A s \in Search : SearchFlight(s)

LEMMA BeamsOfIteration ==
    ASSUME NEW s \in Search, NEW t \in 0..NumSteps[s]
    PROVE  /\ \A i \in BeamIds(s, t) : i[2] = t
           /\ BeamIds(s, 0) = {Prefill(s)}
           /\ Prefill(s)[2] = 0
           /\ \A i \in Id : i[2] \in Nat
<1>1. NumSteps[s] \in Nat \ {0}
  BY SizeAssumption
<1>2. ASSUME NEW i \in Id PROVE i[2] \in Nat
  <2>1. PICK q \in Search : i \in {q} \X (0..NumSteps[q]) \X (1..BeamWidth[q])
    BY DEF Id
  <2>2. NumSteps[q] \in Nat
    BY SizeAssumption
  <2> QED
    BY <2>1, <2>2
<1>3. \A i \in BeamIds(s, t) : i[2] = t
  BY DEF BeamIds
<1>4. BeamIds(s, 0) = {Prefill(s)}
  BY DEF BeamIds, Prefill
<1>5. Prefill(s)[2] = 0
  BY DEF Prefill
<1> QED
  BY <1>2, <1>3, <1>4, <1>5

(* A search that a step leaves alone keeps its part.                       *)
LEMMA FlightFrame ==
    ASSUME NEW s \in Search, SearchFlight(s), use_mega' = use_mega,
           pc'[s] = pc[s], token'[s] = token[s], used'[s] = used[s],
           prev_ids'[s] = prev_ids[s], awaiting'[s] = awaiting[s],
           InFlightOf(s)' = InFlightOf(s)
    PROVE  SearchFlight(s)'
<1>1. LastAre(s, token[s])' <=> LastAre(s, token[s])
  BY DEF LastAre
<1>2. LastAre(s, token[s] - 1)' <=> LastAre(s, token[s] - 1)
  BY DEF LastAre
<1>3. use_mega => MegaFlight(s)'
  BY <1>1, <1>2 DEF SearchFlight, MegaFlight
<1>4. ~use_mega => BatchFlight(s)'
  BY DEF SearchFlight, BatchFlight
<1> QED
  BY <1>3, <1>4 DEF SearchFlight

(* The ids of a search in the table after a registration and a removal.    *)
LEMMA InFlightAfter ==
    ASSUME Inv, NEW s \in Search, NEW ids \in SUBSET Id, NEW popped \in SUBSET Id,
           \A i \in ids \cup popped : i[1] = s,
           reqs_in_flight' = Pop(Register(ids, rank[s]), popped)
    PROVE  /\ InFlightOf(s)' = (InFlightOf(s) \cup ids) \ popped
           /\ \A t \in Search \ {s} : InFlightOf(t)' = InFlightOf(t)
<1>1. /\ rank[s] \in Engine
      /\ \A i, e : <<i, e>> \in reqs_in_flight' <=>
            \/ <<i, e>> \in reqs_in_flight /\ i \notin ids /\ i \notin popped
            \/ i \in ids /\ e = rank[s] /\ i \notin popped
  <2>1. rank[s] \in Engine
    BY DEF Inv, TypeOK
  <2>2. ASSUME NEW i, NEW e
        PROVE  <<i, e>> \in reqs_in_flight' <=>
                 \/ <<i, e>> \in reqs_in_flight /\ i \notin ids /\ i \notin popped
                 \/ i \in ids /\ e = rank[s] /\ i \notin popped
    BY DEF Pop, Register
  <2> QED
    BY <2>1, <2>2
<1>2. ASSUME NEW t \in Search, NEW i \in Id, i[1] = t
      PROVE  (\E e \in Engine : <<i, e>> \in reqs_in_flight') <=>
                (i \in ids \/ \E e \in Engine : <<i, e>> \in reqs_in_flight) /\ i \notin popped
  BY <1>1
<1>3. ASSUME NEW t \in Search
      PROVE  InFlightOf(t)' = {i \in Id : i[1] = t /\ (i \in ids \/ i \in InFlightOf(t)) /\ i \notin popped}
  BY <1>2 DEF InFlightOf
<1>4. \A t \in Search : InFlightOf(t) \subseteq Id /\ \A i \in InFlightOf(t) : i[1] = t
  BY DEF InFlightOf
<1>5. InFlightOf(s)' = (InFlightOf(s) \cup ids) \ popped
  <2>1. InFlightOf(s)' = {i \in Id : i[1] = s /\ (i \in ids \/ i \in InFlightOf(s)) /\ i \notin popped}
    BY <1>3
  <2> QED
    BY <1>4, <2>1
<1>6. ASSUME NEW t \in Search \ {s}
      PROVE  InFlightOf(t)' = InFlightOf(t)
  <2>1. InFlightOf(t)' = {i \in Id : i[1] = t /\ (i \in ids \/ i \in InFlightOf(t)) /\ i \notin popped}
    BY <1>3
  <2>2. \A i \in Id : i[1] = t => i \notin ids \cup popped
    OBVIOUS
  <2> QED
    BY <1>4, <2>1, <2>2
<1> QED
  BY <1>5, <1>6

(* A step of a search that registers and removes ids leaves the others     *)
(* alone.                                                                  *)
LEMMA OthersKeepFlight ==
    ASSUME Inv, Flight, NEW s \in Search, NEW t \in Search \ {s},
           use_mega' = use_mega, InFlightOf(t)' = InFlightOf(t),
           NEW p, pc' = [pc EXCEPT ![s] = p],
           token'[t] = token[t], used'[t] = used[t],
           prev_ids'[t] = prev_ids[t], awaiting'[t] = awaiting[t]
    PROVE  SearchFlight(t)'
<1>1. pc'[t] = pc[t]
  BY DEF Inv, TypeOK
<1> QED
  BY <1>1, FlightFrame DEF Flight

(* What the engines are asked, when one more message is sent.              *)
LEMMA SendKeepsFlight ==
    ASSUME Inv, Flight, UNCHANGED <<use_mega, outputs, work>>,
           NEW e \in Engine, NEW kind \in Kind, NEW s \in Search,
           NEW ids \in SUBSET Id, Send(e, kind, s, ids),
           use_mega /\ kind = "ADD_BATCH" => OnlyPrefills(ids)
    PROVE  SessionIdsOnly'
<1>1. PICK m \in Message : /\ m.kind = kind /\ m.search = s /\ m.ids = ids
                           /\ sockets' = [sockets EXCEPT ![e] = Append(@, m)]
  BY SendMessage DEF Inv, TypeOK
<1>2. sockets \in [Engine -> Seq(Message)]
  BY DEF Inv, TypeOK
<1>3. ASSUME use_mega, NEW f \in Engine, NEW k \in DOMAIN sockets'[f],
             sockets'[f][k].kind = "ADD_BATCH"
      PROVE  OnlyPrefills(sockets'[f][k].ids)
  <2>1. CASE f # e
    <3>1. sockets'[f] = sockets[f]
      BY <1>1, <1>2, <2>1
    <3> QED
      BY <1>3, <3>1 DEF Flight, SessionIdsOnly
  <2>2. CASE f = e
    <3>1. sockets'[e] = Append(sockets[e], m) /\ sockets[e] \in Seq(Message)
      BY <1>1, <1>2
    <3>2. /\ Len(sockets'[e]) = Len(sockets[e]) + 1
          /\ \A j \in 1..Len(sockets[e]) : sockets'[e][j] = sockets[e][j]
          /\ sockets'[e][Len(sockets[e]) + 1] = m
          /\ sockets'[e] \in Seq(Message)
      BY <3>1, AppendProperties
    <3>3. \/ k = Len(sockets[e]) + 1 /\ sockets'[e][k] = m
          \/ k \in DOMAIN sockets[e] /\ sockets'[e][k] = sockets[e][k]
      BY <1>3, <2>2, <3>1, <3>2
    <3>4. CASE k = Len(sockets[e]) + 1 /\ sockets'[e][k] = m
      BY <1>1, <1>3, <2>2, <3>4
    <3>5. CASE k \in DOMAIN sockets[e] /\ sockets'[e][k] = sockets[e][k]
      BY <1>3, <2>2, <3>5 DEF Flight, SessionIdsOnly
    <3> QED
      BY <3>3, <3>4, <3>5
  <2> QED
    BY <2>1, <2>2
<1>4. use_mega => OnlyPrefills(outputs)' /\ \A f \in Engine : OnlyPrefills(work[f])'
  BY DEF Flight, SessionIdsOnly, OnlyPrefills
<1>5. ASSUME use_mega, NEW f \in Engine, NEW k \in DOMAIN sockets'[f],
             sockets'[f][k].kind = "ADD_BATCH"
      PROVE  OnlyPrefills(sockets[f][k].ids)'
  BY <1>3, <1>5 DEF OnlyPrefills
<1> QED
  BY <1>4, <1>5 DEF SessionIdsOnly

LEMMA InitFlight == Init => Flight
<1> SUFFICES ASSUME Init PROVE Flight
  OBVIOUS
<1>1. SessionIdsOnly
  BY DEF Init, SessionIdsOnly, OnlyPrefills
<1>2. ASSUME NEW s \in Search PROVE SearchFlight(s)
  <2>1. /\ pc[s] = "start" /\ token[s] = 0 /\ used[s] = {} /\ prev_ids[s] = {}
        /\ awaiting[s] = {} /\ InFlightOf(s) = {}
    BY DEF Init, InFlightOf
  <2> QED
    BY <2>1 DEF SearchFlight, MegaFlight, BatchFlight
<1> QED
  BY <1>1, <1>2 DEF Flight

LEMMA ChooseRankKeepsFlight ==
    ASSUME Inv, Flight, NEW s \in Search, ChooseRank(s)
    PROVE  Flight'
<1>1. SessionIdsOnly'
  BY DEF ChooseRank, client, engines, Flight, SessionIdsOnly, OnlyPrefills
<1>2. /\ pc \in [Search -> {"start", "loop", "await", "done"}]
      /\ pc[s] = "start" /\ pc' = [pc EXCEPT ![s] = "loop"]
      /\ UNCHANGED <<use_mega, token, prev_ids, awaiting, used>>
      /\ \A t \in Search : InFlightOf(t)' = InFlightOf(t)
  BY DEF Inv, TypeOK, ChooseRank, client, InFlightOf
<1>3. SearchFlight(s)'
  <2>1. SearchFlight(s) /\ token[s] = 0
    BY <1>2 DEF Flight, Inv, SearchInv
  <2> QED
    BY <1>2, <2>1 DEF SearchFlight, MegaFlight, BatchFlight
<1>4. \A t \in Search \ {s} : SearchFlight(t)'
  BY <1>2, OthersKeepFlight
<1> QED
  BY <1>1, <1>3, <1>4 DEF Flight

LEMMA AddBatchStepKeepsFlight ==
    ASSUME Inv, Flight, NEW s \in Search, AddBatchStep(s)
    PROVE  Flight'
<1> DEFINE ids == BeamIds(s, token[s])
           none == {}
           kind == IF ~use_mega /\ \E i \in ids : ids = {i}
                   THEN "ADD" ELSE "ADD_BATCH"
<1>1. /\ pc \in [Search -> {"start", "loop", "await", "done"}]
      /\ rank[s] \in Engine /\ token[s] \in 0..NumSteps[s]
      /\ awaiting \in [Search -> SUBSET Id]
  BY SizeAssumption DEF Inv, TypeOK
<1>2. ids \in SUBSET Id /\ (\A i \in ids : i[1] = s) /\ kind \in Kind
  BY <1>1, IdsOfSearch DEF Kind
<1>3. /\ pc[s] = "loop" /\ (token[s] = 0 \/ ~use_mega)
      /\ reqs_in_flight' = Pop(Register(ids, rank[s]), none)
      /\ Send(rank[s], kind, s, ids)
      /\ pc' = [pc EXCEPT ![s] = "await"]
      /\ awaiting' = [awaiting EXCEPT ![s] = ids]
      /\ UNCHANGED <<use_mega, token, prev_ids, used, outputs, work>>
  BY DEF AddBatchStep, AddRequests, EngineOf, Await, Pop, Register, engines
<1>4. use_mega => ids = {Prefill(s)} /\ OnlyPrefills(ids)
  BY <1>1, <1>3, BeamsOfIteration, IdsOfSearch DEF OnlyPrefills
<1>5. none \in SUBSET Id /\ \A i \in ids \cup none : i[1] = s
  BY <1>2
<1> HIDE DEF ids, kind
<1>6. SessionIdsOnly'
  BY <1>1, <1>2, <1>3, <1>4, SendKeepsFlight
<1>7. /\ InFlightOf(s)' = (InFlightOf(s) \cup ids) \ none
      /\ \A t \in Search \ {s} : InFlightOf(t)' = InFlightOf(t)
  <2> HIDE DEF none
  <2> QED
    BY <1>2, <1>3, <1>5, InFlightAfter
<1>8. SearchFlight(s)'
  <2>1. /\ pc'[s] = "await" /\ awaiting'[s] = ids /\ token'[s] = token[s]
        /\ used'[s] = used[s] /\ prev_ids'[s] = prev_ids[s]
    BY <1>1, <1>3
  <2>2. CASE use_mega
    <3>1. /\ MegaFlight(s) /\ token[s] = 0
          /\ InFlightOf(s) = (used[s] \cup prev_ids[s]) \ {Prefill(s)}
      BY <1>3, <2>2 DEF Flight, SearchFlight, MegaFlight
    <3>2. used[s] = {} /\ prev_ids[s] = {}
      BY <3>1 DEF MegaFlight
    <3>3. InFlightOf(s)' = {Prefill(s)} /\ awaiting'[s] = {Prefill(s)}
      BY <1>4, <1>7, <2>1, <2>2, <3>1, <3>2
    <3>4. Prefill(s)' = Prefill(s)
      BY DEF Prefill
    <3> QED
      BY <1>3, <2>1, <2>2, <3>1, <3>2, <3>3, <3>4 DEF SearchFlight, MegaFlight
  <2>3. CASE ~use_mega
    <3>1. BatchFlight(s)
      BY <2>3 DEF Flight, SearchFlight
    <3>2. InFlightOf(s)' = ids /\ used'[s] = {}
      BY <1>3, <1>7, <2>1, <3>1 DEF BatchFlight
    <3> QED
      BY <1>3, <2>1, <2>3, <3>2 DEF SearchFlight, BatchFlight
  <2> QED
    BY <2>2, <2>3
<1>9. \A t \in Search \ {s} : SearchFlight(t)'
  BY <1>1, <1>3, <1>7, OthersKeepFlight
<1> QED
  BY <1>6, <1>8, <1>9 DEF Flight

LEMMA MegaRequestStepKeepsFlight ==
    ASSUME Inv, Flight, NEW s \in Search, MegaRequestStep(s)
    PROVE  Flight'
<1> DEFINE ids == BeamIds(s, token[s])
<1>1. /\ pc \in [Search -> {"start", "loop", "await", "done"}]
      /\ rank[s] \in Engine
      /\ token[s] \in 0..NumSteps[s]
      /\ awaiting \in [Search -> SUBSET Id]
      /\ prev_ids \in [Search -> SUBSET Id]
      /\ used \in [Search -> SUBSET Id]
  BY SizeAssumption DEF Inv, TypeOK
<1>2. /\ ids \in SUBSET Id
      /\ \A i \in ids : i[1] = s /\ i[2] = token[s]
      /\ Prefill(s)[2] = 0
  BY <1>1, IdsOfSearch, BeamsOfIteration
<1>3. PICK parents \in SUBSET prev_ids[s] :
         /\ StepUpdate(s, "STEP", ids, prev_ids[s] \ parents)
         /\ used' = [used EXCEPT ![s] = @ \cup parents]
  BY DEF MegaRequestStep
<1> DEFINE popped == prev_ids[s] \ parents
<1>4. /\ pc[s] = "loop" /\ token[s] \in 1..(NumSteps[s] - 1) /\ use_mega
      /\ reqs_in_flight' = Pop(Register(ids, rank[s]), popped)
      /\ Send(rank[s], "STEP", s, ids)
      /\ pc' = [pc EXCEPT ![s] = "await"]
      /\ awaiting' = [awaiting EXCEPT ![s] = {Prefill(s)}]
      /\ prev_ids' = [prev_ids EXCEPT ![s] = ids]
      /\ UNCHANGED <<use_mega, token, outputs, work>>
  BY <1>3 DEF MegaRequestStep, StepUpdate, EngineOf, Await, engines
<1>5. popped \in SUBSET Id /\ \A i \in ids \cup popped : i[1] = s
  BY <1>1, <1>2 DEF Inv, SearchInv
<1>6. token[s] > 0 /\ token[s] \in Nat
  BY <1>1, <1>4
<1>7. /\ InFlightOf(s) = (used[s] \cup prev_ids[s]) \ {Prefill(s)}
      /\ prev_ids[s] = BeamIds(s, token[s] - 1)
      /\ \A i \in used[s] : i[2] < token[s] - 1
  BY <1>4, <1>6 DEF Flight, SearchFlight, MegaFlight, LastAre
<1>8. \A i \in prev_ids[s] : i[2] = token[s] - 1
  <2>1. token[s] - 1 \in 0..NumSteps[s]
    BY <1>1, <1>6, SizeAssumption
  <2> QED
    BY <1>7, <2>1, BeamsOfIteration
<1> HIDE DEF ids, popped
<1>9. SessionIdsOnly'
  BY <1>1, <1>2, <1>4, SendKeepsFlight DEF Kind
<1>10. /\ InFlightOf(s)' = (InFlightOf(s) \cup ids) \ popped
       /\ \A t \in Search \ {s} : InFlightOf(t)' = InFlightOf(t)
  BY <1>2, <1>4, <1>5, InFlightAfter
<1>11. /\ pc'[s] = "await" /\ token'[s] = token[s]
       /\ used'[s] = used[s] \cup parents /\ prev_ids'[s] = ids
  BY <1>1, <1>3, <1>4
<1>12. \A i \in used'[s] : i[2] < token[s]
  <2>1. ASSUME NEW i \in used[s] PROVE i[2] < token[s]
    <3>1. i[2] \in Nat /\ i[2] < token[s] - 1
      BY <1>1, <1>7, BeamsOfIteration
    <3> QED
      BY <1>6, <3>1
  <2>2. ASSUME NEW i \in parents PROVE i[2] < token[s]
    BY <1>6, <1>8
  <2> QED
    BY <1>11, <2>1, <2>2
<1>13. InFlightOf(s)' = (used'[s] \cup prev_ids'[s]) \ {Prefill(s)}
  <2>1. \A i \in ids : i \notin popped /\ i # Prefill(s)
    <3> SUFFICES ASSUME NEW i \in ids PROVE i \notin popped /\ i # Prefill(s)
      OBVIOUS
    <3>1. i[2] = token[s] /\ i[2] # 0 /\ i[2] # token[s] - 1
      BY <1>2, <1>6
    <3> QED
      BY <1>2, <1>8, <3>1 DEF popped
  <2>2. \A i \in used[s] : i \notin popped
    <3> SUFFICES ASSUME NEW i \in used[s] PROVE i \notin prev_ids[s]
      BY DEF popped
    <3>1. i[2] < token[s] - 1 /\ i[2] \in Nat
      BY <1>1, <1>7, BeamsOfIteration
    <3>2. i[2] # token[s] - 1
      BY <1>6, <3>1
    <3> QED
      BY <1>8, <3>2
  <2>3. popped = prev_ids[s] \ parents
    BY DEF popped
  <2> QED
    BY <1>7, <1>10, <1>11, <2>1, <2>2, <2>3
<1>14. SearchFlight(s)'
  <2>1. LastAre(s, token[s])'
    BY <1>11, <1>12 DEF LastAre, ids, BeamIds
  <2>2. Prefill(s)' = Prefill(s)
    BY DEF Prefill
  <2> QED
    BY <1>4, <1>6, <1>11, <1>13, <2>1, <2>2 DEF SearchFlight, MegaFlight
<1>15. \A t \in Search \ {s} : SearchFlight(t)'
  <2> SUFFICES ASSUME NEW t \in Search \ {s} PROVE SearchFlight(t)'
    OBVIOUS
  <2>1. /\ used'[t] = used[t] /\ prev_ids'[t] = prev_ids[t]
        /\ awaiting'[t] = awaiting[t] /\ token'[t] = token[t]
    BY <1>1, <1>3, <1>4
  <2> QED
    BY <1>4, <1>10, <2>1, OthersKeepFlight
<1> QED
  BY <1>9, <1>14, <1>15 DEF Flight

LEMMA FinishSearchKeepsFlight ==
    ASSUME Inv, Flight, NEW s \in Search, FinishSearch(s)
    PROVE  Flight'
<1> DEFINE popped == IF use_mega THEN prev_ids[s] ELSE {}
           none == {}
<1>1. /\ pc \in [Search -> {"start", "loop", "await", "done"}]
      /\ rank[s] \in Engine
      /\ token[s] \in Nat /\ NumSteps[s] \in Nat \ {0}
      /\ prev_ids \in [Search -> SUBSET Id]
      /\ used \in [Search -> SUBSET Id]
  BY SizeAssumption DEF Inv, TypeOK
<1>2. /\ pc[s] = "loop" /\ token[s] = NumSteps[s]
      /\ pc' = [pc EXCEPT ![s] = "done"]
      /\ UNCHANGED <<use_mega, token, prev_ids, awaiting, used, outputs, work>>
  BY DEF FinishSearch, engines
<1>3. reqs_in_flight' = Pop(Register(none, rank[s]), popped)
  BY DEF FinishSearch, StepUpdate, EngineOf, Pop, Register, client
<1>4. /\ popped \in SUBSET Id /\ none \in SUBSET Id
      /\ \A i \in none \cup popped : i[1] = s
  BY <1>1 DEF Inv, SearchInv
<1> HIDE DEF popped, none
<1>5. /\ InFlightOf(s)' = (InFlightOf(s) \cup none) \ popped
      /\ \A t \in Search \ {s} : InFlightOf(t)' = InFlightOf(t)
  BY <1>3, <1>4, InFlightAfter
<1>6. SessionIdsOnly'
  <2>1. CASE use_mega
    <3>1. Send(rank[s], "CLEANUP", s, {})
      BY <2>1 DEF FinishSearch, StepUpdate, EngineOf
    <3>2. {} \in SUBSET Id /\ "CLEANUP" \in Kind
      BY DEF Kind
    <3> QED
      BY <1>1, <1>2, <3>1, <3>2, SendKeepsFlight
  <2>2. CASE ~use_mega
    BY <1>2, <2>2 DEF SessionIdsOnly
  <2> QED
    BY <2>1, <2>2
<1>7. pc'[s] = "done"
  BY <1>1, <1>2
<1>8. SearchFlight(s)'
  <2>1. CASE use_mega
    <3>1. /\ token[s] > 0
          /\ InFlightOf(s) = (used[s] \cup prev_ids[s]) \ {Prefill(s)}
          /\ LastAre(s, token[s] - 1)
      BY <1>1, <1>2, <2>1 DEF Flight, SearchFlight, MegaFlight
    <3>2. \A i \in used[s] : i \notin prev_ids[s]
      <4> SUFFICES ASSUME NEW i \in used[s] PROVE i \notin prev_ids[s]
        OBVIOUS
      <4>1. token[s] - 1 \in 0..NumSteps[s]
        BY <1>1, <1>2
      <4>2. i[2] \in Nat /\ i[2] < token[s] - 1
        BY <1>1, <3>1, <4>1, BeamsOfIteration DEF LastAre
      <4>3. \A j \in prev_ids[s] : j[2] = token[s] - 1
        BY <3>1, <4>1, BeamsOfIteration DEF LastAre
      <4> QED
        BY <1>1, <4>2, <4>3
    <3>3. InFlightOf(s)' = used[s] \ {Prefill(s)}
      BY <1>5, <2>1, <3>1, <3>2 DEF popped, none
    <3>4. LastAre(s, token[s] - 1)'
      BY <1>2, <3>1 DEF LastAre, BeamIds
    <3>5. Prefill(s)' = Prefill(s) /\ token'[s] = token[s] /\ used'[s] = used[s]
      BY <1>2 DEF Prefill
    <3> QED
      BY <1>2, <1>7, <2>1, <3>1, <3>3, <3>4, <3>5 DEF SearchFlight, MegaFlight
  <2>2. CASE ~use_mega
    BY <1>2, <1>5, <1>7, <2>2 DEF Flight, SearchFlight, BatchFlight, popped, none
  <2> QED
    BY <2>1, <2>2
<1>9. \A t \in Search \ {s} : SearchFlight(t)'
  BY <1>2, <1>5, OthersKeepFlight
<1> QED
  BY <1>6, <1>8, <1>9 DEF Flight

LEMMA DeliverKeepsFlight ==
    ASSUME Inv, Flight, NEW i \in outputs, Deliver(i)
    PROVE  Flight'
<1>0. PICK s \in Search : s = i[1]
  BY IdsOfSearch DEF Inv, TypeOK
<1> DEFINE left == awaiting[s] \ {i}
           goes_on == pc[s] = "await" /\ i \in awaiting[s] /\ left = {}
           one == {i}
           none == {}
<1>1. /\ pc \in [Search -> {"start", "loop", "await", "done"}]
      /\ i \in Id /\ rank[s] \in Engine
      /\ token \in [Search -> Nat] /\ prev_ids \in [Search -> SUBSET Id]
      /\ awaiting \in [Search -> SUBSET Id]
  BY DEF Inv, TypeOK
<1>2. /\ outputs' = outputs \ {i}
      /\ reqs_in_flight' = Pop(reqs_in_flight, {i})
      /\ awaiting' = [awaiting EXCEPT ![s] = left]
      /\ UNCHANGED <<use_mega, used, work, sockets>>
      /\ IF goes_on THEN /\ pc' = [pc EXCEPT ![s] = "loop"]
                         /\ token' = [token EXCEPT ![s] = @ + 1]
                         /\ prev_ids' = [prev_ids EXCEPT ![s] = BeamIds(s, token[s])]
                    ELSE UNCHANGED <<pc, token, prev_ids>>
  BY <1>0 DEF Deliver
<1>3. /\ one \in SUBSET Id /\ none \in SUBSET Id
      /\ \A j \in none \cup one : j[1] = s
      /\ reqs_in_flight' = Pop(Register(none, rank[s]), one)
  BY <1>0, <1>1, <1>2 DEF Pop, Register
<1> HIDE DEF one, none
<1>4. /\ InFlightOf(s)' = (InFlightOf(s) \cup none) \ one
      /\ \A t \in Search \ {s} : InFlightOf(t)' = InFlightOf(t)
  BY <1>1, <1>3, InFlightAfter
<1>5. InFlightOf(s)' = InFlightOf(s) \ {i}
  BY <1>4 DEF one, none
<1>6. SessionIdsOnly'
  BY <1>2 DEF Flight, SessionIdsOnly, OnlyPrefills
<1>7. /\ awaiting'[s] = awaiting[s] \ {i} /\ used'[s] = used[s]
      /\ goes_on => /\ pc'[s] = "loop" /\ token'[s] = token[s] + 1
                    /\ prev_ids'[s] = BeamIds(s, token[s])
      /\ ~goes_on => /\ pc'[s] = pc[s] /\ token'[s] = token[s]
                     /\ prev_ids'[s] = prev_ids[s]
  BY <1>1, <1>2
<1>8. SearchFlight(s)'
  <2>1. CASE ~use_mega
    <3>1. BatchFlight(s)
      BY <1>1, <2>1 DEF Flight, SearchFlight
    <3>2. pc'[s] # "await" => awaiting'[s] = {}
      BY <1>7, <3>1 DEF BatchFlight
    <3> QED
      BY <1>2, <1>5, <1>7, <2>1, <3>1, <3>2 DEF SearchFlight, BatchFlight
  <2>2. CASE use_mega
    <3>1. MegaFlight(s) /\ i = Prefill(s)
      BY <1>0, <2>2 DEF Flight, SearchFlight, SessionIdsOnly, OnlyPrefills
    <3>2. /\ token[s] \in Nat /\ token[s] <= NumSteps[s] /\ NumSteps[s] \in Nat
          /\ Prefill(s)' = Prefill(s)
      BY <1>1, SizeAssumption DEF Inv, TypeOK, Prefill
    <3>3. BeamIds(s, 0) = {Prefill(s)}
      BY <1>1, <3>2, BeamsOfIteration
    <3>4. CASE goes_on
      <4>1. pc'[s] = "loop" /\ token'[s] > 0 /\ token'[s] - 1 = token[s]
            /\ pc[s] = "await"
        BY <1>7, <3>2, <3>4
      <4>2. LastAre(s, token[s] - 1)'
        <5>1. CASE token[s] = 0
          <6>1. used'[s] = {} /\ prev_ids'[s] = BeamIds(s, token'[s] - 1)
            BY <1>7, <3>1, <3>4, <4>1, <5>1 DEF MegaFlight
          <6> QED
            BY <6>1 DEF LastAre, BeamIds
        <5>2. CASE token[s] > 0
          <6>1. /\ \A j \in used'[s] : j[2] < token'[s] - 1
                /\ prev_ids'[s] = BeamIds(s, token'[s] - 1)
            BY <1>7, <3>1, <3>4, <4>1, <5>2 DEF MegaFlight, LastAre
          <6> QED
            BY <6>1 DEF LastAre, BeamIds
        <5> QED
          BY <3>2, <5>1, <5>2
      <4>3. InFlightOf(s)' = (used'[s] \cup prev_ids'[s]) \ {Prefill(s)}
        <5>1. CASE token[s] = 0
          <6>1. used'[s] = {} /\ prev_ids'[s] = {Prefill(s)}
            BY <1>7, <3>1, <3>3, <3>4, <5>1 DEF MegaFlight
          <6>2. InFlightOf(s) = {Prefill(s)}
            BY <3>1, <4>1, <5>1 DEF MegaFlight
          <6> QED
            BY <1>5, <3>1, <6>1, <6>2
        <5>2. CASE token[s] > 0
          BY <1>5, <1>7, <3>1, <3>4, <4>1, <5>2 DEF MegaFlight, LastAre
        <5> QED
          BY <3>2, <5>1, <5>2
      <4> QED
        BY <1>2, <2>2, <3>2, <4>1, <4>2, <4>3 DEF SearchFlight, MegaFlight
    <3>5. CASE ~goes_on
      <4>1. ~(pc[s] = "await" /\ token[s] = 0)
        BY <3>1, <3>5 DEF MegaFlight
      <4>2. InFlightOf(s)' = InFlightOf(s)
        BY <1>5, <3>1, <4>1 DEF MegaFlight
      <4>3. /\ pc'[s] = pc[s] /\ token'[s] = token[s] /\ prev_ids'[s] = prev_ids[s]
            /\ used'[s] = used[s]
        BY <1>7, <3>5
      <4>4. /\ LastAre(s, token[s])' <=> LastAre(s, token[s])
            /\ LastAre(s, token[s] - 1)' <=> LastAre(s, token[s] - 1)
        BY <4>3 DEF LastAre, BeamIds
      <4> QED
        BY <1>2, <2>2, <3>1, <3>2, <4>1, <4>2, <4>3, <4>4 DEF SearchFlight, MegaFlight
    <3> QED
      BY <3>4, <3>5
  <2> QED
    BY <2>1, <2>2
<1>9. ASSUME NEW t \in Search \ {s} PROVE SearchFlight(t)'
  <2>1. /\ pc'[t] = pc[t] /\ token'[t] = token[t] /\ used'[t] = used[t]
        /\ prev_ids'[t] = prev_ids[t] /\ awaiting'[t] = awaiting[t]
    BY <1>1, <1>2
  <2>2. SearchFlight(t) /\ t \in Search /\ InFlightOf(t)' = InFlightOf(t)
    BY <1>4 DEF Flight
  <2> QED
    BY <1>2, <2>1, <2>2, FlightFrame
<1> QED
  BY <1>1, <1>6, <1>8, <1>9 DEF Flight

(* The engines and what the client hears leave the searches alone.         *)
LEMMA SearchesKeepFlight ==
    ASSUME Flight, UNCHANGED search, reqs_in_flight' = reqs_in_flight
    PROVE  \A s \in Search : SearchFlight(s)'
<1> SUFFICES ASSUME NEW s \in Search PROVE SearchFlight(s)'
  OBVIOUS
<1>1. /\ use_mega' = use_mega /\ pc' = pc /\ token' = token /\ used' = used
      /\ prev_ids' = prev_ids /\ awaiting' = awaiting
  BY DEF search
<1>2. InFlightOf(s)' = InFlightOf(s)
  BY DEF InFlightOf
<1> QED
  BY <1>1, <1>2, FlightFrame DEF Flight

LEMMA ReceiveKeepsFlight ==
    ASSUME Inv, Flight, NEW e \in Engine, Receive(e)
    PROVE  Flight'
<1>1. /\ sockets \in [Engine -> Seq(Message)] /\ work \in [Engine -> SUBSET Id]
      /\ sockets[e] # <<>>
      /\ UNCHANGED search /\ use_mega' = use_mega
      /\ reqs_in_flight' = reqs_in_flight
      /\ sockets' = [sockets EXCEPT ![e] = Tail(@)]
  BY DEF Inv, TypeOK, Receive, search
<1> DEFINE q == sockets[e]
           m == Head(q)
<1>2. /\ q \in Seq(Message) /\ q # <<>> /\ m = q[1] /\ 1 \in DOMAIN q
      /\ m \in Message
      /\ \A k \in DOMAIN Tail(q) : k + 1 \in DOMAIN q /\ Tail(q)[k] = q[k + 1]
  BY <1>1
<1>3. MessageOK(e, m)
  BY <1>2 DEF Inv, MessageInv
<1>4. /\ work' = [work EXCEPT ![e] = @ \cup Requests(e, m)]
      /\ outputs' = outputs
  BY <1>3 DEF Receive, MessageOK
<1> HIDE DEF q
<1>5. ASSUME use_mega PROVE OnlyPrefills(Requests(e, m))
  <2>1. m.kind # "ADD" /\ m.search \in Search
    BY <1>2, <1>3, <1>5 DEF MessageOK, Message
  <2>2. m.kind = "ADD_BATCH" => OnlyPrefills(m.ids)
    BY <1>2, <1>5 DEF Flight, SessionIdsOnly, q
  <2>3. OnlyPrefills({Prefill(m.search)})
    BY <2>1, IdsOfSearch DEF OnlyPrefills
  <2>4. OnlyPrefills({})
    BY DEF OnlyPrefills
  <2>5. \/ Requests(e, m) = {} \/ Requests(e, m) = {Prefill(m.search)}
        \/ m.kind = "ADD_BATCH" /\ Requests(e, m) = m.ids
    BY <2>1 DEF Requests
  <2> QED
    BY <2>2, <2>3, <2>4, <2>5
<1> HIDE DEF m
<1>6. ASSUME use_mega, NEW f \in Engine PROVE OnlyPrefills(work[f])'
  BY <1>1, <1>4, <1>5, <1>6 DEF Flight, SessionIdsOnly, OnlyPrefills
<1>7. ASSUME use_mega, NEW f \in Engine, NEW k \in DOMAIN sockets'[f],
             sockets'[f][k].kind = "ADD_BATCH"
      PROVE  OnlyPrefills(sockets[f][k].ids)'
  <2>1. CASE f = e
    <3>1. k + 1 \in DOMAIN sockets[e] /\ sockets'[f][k] = sockets[e][k + 1]
      BY <1>1, <1>2, <1>7, <2>1 DEF q
    <3> QED
      BY <1>7, <3>1 DEF Flight, SessionIdsOnly, OnlyPrefills
  <2>2. CASE f # e
    <3>1. sockets'[f] = sockets[f]
      BY <1>1, <2>2
    <3> QED
      BY <1>7, <3>1 DEF Flight, SessionIdsOnly, OnlyPrefills
  <2> QED
    BY <2>1, <2>2
<1>8. use_mega => OnlyPrefills(outputs)'
  BY <1>4 DEF Flight, SessionIdsOnly, OnlyPrefills
<1>9. SessionIdsOnly'
  BY <1>1, <1>6, <1>7, <1>8 DEF SessionIdsOnly
<1> QED
  BY <1>1, <1>9, SearchesKeepFlight DEF Flight

LEMMA LockStepKeepsFlight ==
    ASSUME Inv, Flight, LockStep
    PROVE  Flight'
<1>1. PICK finished \in SUBSET AllWork :
         /\ outputs' = outputs \cup finished
         /\ work' = [e \in Engine |-> work[e] \ finished]
  BY DEF LockStep
<1>2. UNCHANGED search /\ use_mega' = use_mega /\ sockets' = sockets
      /\ reqs_in_flight' = reqs_in_flight
  BY DEF LockStep, search, client
<1>3. ASSUME use_mega
      PROVE  OnlyPrefills(outputs)' /\ \A e \in Engine : OnlyPrefills(work[e])'
  BY <1>1, <1>3 DEF Flight, SessionIdsOnly, OnlyPrefills, AllWork
<1>4. SessionIdsOnly'
  BY <1>2, <1>3 DEF Flight, SessionIdsOnly, OnlyPrefills
<1> QED
  BY <1>2, <1>4, SearchesKeepFlight DEF Flight

LEMMA HearingKeepsFlight ==
    ASSUME Inv, Flight, ForwardFirstReq \/ HearOfEngines \/ UNCHANGED vars
    PROVE  Flight'
<1>1. /\ UNCHANGED search /\ reqs_in_flight' = reqs_in_flight
      /\ use_mega' = use_mega /\ sockets' = sockets
      /\ work' = work /\ outputs' = outputs
  BY DEF ForwardFirstReq, HearOfEngines, vars, search, client, engines
<1>2. SessionIdsOnly'
  BY <1>1 DEF Flight, SessionIdsOnly, OnlyPrefills
<1> QED
  BY <1>1, <1>2, SearchesKeepFlight DEF Flight

LEMMA NextFlight == Inv /\ Flight /\ [Next]_vars => Flight'
<1> SUFFICES ASSUME Inv, Flight, [Next]_vars PROVE Flight'
  OBVIOUS
<1>1. CASE \E s \in Search : SearchStep(s)
  BY <1>1, ChooseRankKeepsFlight, AddBatchStepKeepsFlight, MegaRequestStepKeepsFlight,
     FinishSearchKeepsFlight DEF SearchStep
<1>2. CASE \E i \in outputs : Deliver(i)
  BY <1>2, DeliverKeepsFlight
<1>3. CASE ForwardFirstReq \/ HearOfEngines \/ Terminated \/ UNCHANGED vars
  BY <1>3, HearingKeepsFlight DEF Terminated
<1>4. CASE \E e \in Engine : Receive(e)
  BY <1>4, ReceiveKeepsFlight
<1>5. CASE LockStep
  BY <1>5, LockStepKeepsFlight
<1> QED
  BY <1>1, <1>2, <1>3, <1>4, <1>5 DEF Next

-----------------------------------------------------------------------------
(* The theorems.                                                           *)

(* Everything about a search is with the engine of its rank, and every     *)
(* step finds the entry there: core_client's two ways to an engine agree,  *)
(* for any number of searches and engines.                                 *)
THEOREM EntryIsReached == Spec => []StepsReachTheirEntry
<1>1. Inv => StepsReachTheirEntry
  <2> SUFFICES ASSUME Inv, NEW s \in Search
               PROVE  Home(s) /\ EntryOK(s)
    BY DEF StepsReachTheirEntry
  <2>1. /\ rank[s] \in Engine
        /\ \A e \in Engine : cached[e] \in SUBSET Search
    BY DEF Inv, TypeOK
  <2>2. Home(s)
    BY DEF Inv, Home, EngineInv, MessageInv, MessageOK
  <2>3. EntryOK(s)
    BY <2>1 DEF Inv, EntryOK, SearchInv, HasEntry, MessageInv, MessageOK
  <2> QED
    BY <2>2, <2>3
<1> QED
  BY <1>1, InitInv, NextInv, PTL DEF Spec

(* reqs_in_flight names the engine of the search for every id, and has     *)
(* every id of a batch whose output is outstanding (add_requests_async,    *)
(* mega_request_step_update_async).                                        *)
THEOREM InFlightIsTrue == Spec => []InFlightPointsHome
<1>1. Inv => InFlightPointsHome
  BY DEF Inv, FlightInv
<1> QED
  BY <1>1, InitInv, NextInv, PTL DEF Spec

(* The only ids a finished search leaves in reqs_in_flight are those of    *)
(* branches that had children (mega_request_step_update_async pops what is *)
(* pruned, and process_engine_outputs what is answered).                   *)
THEOREM NothingElseLeaks == Spec => []OnlyParentsStay
<1>1. Flight => OnlyParentsStay
  <2> SUFFICES ASSUME Flight, NEW s \in Search, pc[s] = "done"
               PROVE  InFlightOf(s) = used[s] \ {Prefill(s)}
    BY DEF OnlyParentsStay
  <2> QED
    BY DEF Flight, SearchFlight, MegaFlight, BatchFlight
<1> QED
  BY <1>1, InitInv, NextInv, InitFlight, NextFlight, PTL DEF Spec

=============================================================================
