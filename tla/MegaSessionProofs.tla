-------------------------- MODULE MegaSessionProofs --------------------------
(* Theorems about MegaSession, for every set of searches and requests,     *)
(* every beam width, every number of steps and every set of faults; the    *)
(* last of them is that it implements SessionService.                      *)
EXTENDS SessionRefinement, TLAPS

(***************************************************************************)
(* Sequences: what Append and Tail leave where.                            *)
(***************************************************************************)

\* Appending keeps every element at its index and puts e after them.
LEMMA AppendProperties ==
    ASSUME NEW S, NEW q \in Seq(S), NEW e \in S
    PROVE  /\ Append(q, e) \in Seq(S)
           /\ DOMAIN Append(q, e) = DOMAIN q \cup {Len(q) + 1}
           /\ Len(q) + 1 \notin DOMAIN q
           /\ \A i \in DOMAIN q : Append(q, e)[i] = q[i]
           /\ Append(q, e)[Len(q) + 1] = e
    OBVIOUS

\* Taking the head off moves every other element one index down.
LEMMA TailProperties ==
    ASSUME NEW S, NEW q \in Seq(S), q # << >>
    PROVE  /\ Tail(q) \in Seq(S)
           /\ 1 \in DOMAIN q /\ q[1] = Head(q) /\ Head(q) \in S
           /\ \A i \in DOMAIN Tail(q) :
                 i + 1 \in DOMAIN q /\ i + 1 # 1 /\ Tail(q)[i] = q[i + 1]
           /\ \A i \in DOMAIN q : i # 1 =>
                 i - 1 \in DOMAIN Tail(q) /\ Tail(q)[i - 1] = q[i]
    OBVIOUS

\* A function on 1..n is a sequence over any set that holds its values.
LEMMA SequenceOfFunction ==
    ASSUME NEW S, NEW n \in Nat, NEW f \in [1..n -> S]
    PROVE  f \in Seq(S) /\ Len(f) = n /\ DOMAIN f = 1..n
    OBVIOUS

(***************************************************************************)
(* Type correctness, with the shape of the beams it depends on.            *)
(***************************************************************************)

\* The initial state has no beams and no messages.
LEMMA TypeInit == Init => TypeInv
<1>1. SUFFICES ASSUME Init PROVE TypeInv
    OBVIOUS
<1>2. TypeOK
    BY <1>1, BoundAssumption DEF Init, TypeOK
<1>3. ASSUME NEW s \in Search PROVE BeamsOK(s)
    BY <1>1, <1>3, BoundAssumption DEF Init, BeamsOK, Over
<1>4. QED BY <1>2, <1>3 DEF TypeInv

\* A message without branches is a message.
LEMMA SimpleType ==
    ASSUME NEW kind \in Kind, NEW r \in Request
    PROVE  Simple(kind, r) \in Message
    BY DEF Simple, Message, Id

\* The step message of a search names existing branches, is well formed and
\* prunes no session id.
LEMMA StepMessageType ==
    ASSUME TypeInv, NEW s \in Search, pc[s] = "loop",
           token[s] \in 1..(NumSteps - 1), fork_info[s] # << >>
    PROVE  /\ StepMessage(s) \in Message
           /\ StepMessage(s).kind = "MEGA_REQUEST_STEP_UPDATE"
           /\ StepMessage(s).id = s
           /\ WellFormed(StepMessage(s))
           /\ StepMessage(s).width = BeamWidth
           /\ StepMessage(s).pruned \cap Search = {}
<1> DEFINE prev == prev_ids[s]
           fork == fork_info[s]
           m == StepMessage(s)
<1>1. /\ token[s] \in 1..NumSteps /\ prev \in Seq(Id) /\ fork \in Seq(Beams)
      /\ BeamsOK(s) /\ ~Over(s) /\ BeamWidth \in Nat \ {0} /\ NumSteps \in Nat
    BY BoundAssumption DEF TypeInv, TypeOK, Over
<1>2. Len(fork) = BeamWidth /\ DOMAIN fork = Beams
    BY <1>1 DEF BeamsOK, Beams
<1>3. /\ \A b \in Beams : fork[b] \in DOMAIN prev
      /\ token[s] = 1 => \A b \in Beams : prev[fork[b]] = s
      /\ token[s] = 1 => Range(prev) = {s}
      /\ token[s] > 1 => Range(prev) \subseteq ChildId
    <2>1. CASE token[s] = 1
        BY <1>1, <1>2, <2>1 DEF BeamsOK, Range
    <2>2. CASE token[s] > 1
        BY <1>1, <1>2, <2>2 DEF BeamsOK, Range, Beams
    <2>3. QED BY <1>1, <2>1, <2>2
<1>4. Parents(s) \in [Beams -> Id]
    BY <1>1, <1>2, <1>3 DEF Parents
<1>5. Children(s) \in [Beams -> Id]
    BY <1>1 DEF Children, Id, ChildId
<1>6. /\ Parents(s) \in Seq(Id) /\ Len(Parents(s)) = BeamWidth
      /\ Children(s) \in Seq(Id) /\ Len(Children(s)) = BeamWidth
    BY <1>1, <1>4, <1>5, SequenceOfFunction DEF Beams
<1>7. PrunedIds(s) \subseteq Id /\ PrunedIds(s) \cap Search = {}
    <2>1. PrunedIds(s) \subseteq Range(prev) /\ Range(prev) \subseteq Id
        BY <1>1 DEF PrunedIds, Range
    <2>2. CASE token[s] = 1
        <3>1. Parents(s)[1] = s /\ 1 \in DOMAIN Parents(s)
            BY <1>1, <1>2, <1>3, <2>2 DEF Parents, Beams
        <3>2. s \in Range(Parents(s))
            BY <3>1 DEF Range
        <3>3. QED BY <1>3, <2>1, <2>2, <3>2 DEF PrunedIds
    <2>3. CASE token[s] > 1
        BY <1>3, <2>1, <2>3, SearchAssumption DEF Request
    <2>4. QED BY <1>1, <2>1, <2>2, <2>3
<1>8. m = [kind |-> "MEGA_REQUEST_STEP_UPDATE", id |-> s,
           parents |-> Parents(s), children |-> Children(s),
           pruned |-> PrunedIds(s), width |-> BeamWidth]
    BY <1>2 DEF StepMessage
<1>9. QED
    BY <1>1, <1>6, <1>7, <1>8 DEF Message, Kind, WellFormed, Request

\* The ids of a search that may end hold no session id but its own.
LEMMA CleanupMessageType ==
    ASSUME NEW s \in Search, NEW final_ids \in Seq(Id)
    PROVE  /\ CleanupMessage(s, final_ids) \in Message
           /\ CleanupMessage(s, final_ids) =
                 [kind |-> "MEGA_REQUEST_STEP_UPDATE", id |-> s,
                  parents |-> << >>, children |-> << >>,
                  pruned |-> Range(final_ids), width |-> 0]
<1>1. Range(final_ids) \subseteq Id
    BY DEF Range
<1>2. QED BY <1>1 DEF CleanupMessage, Simple, Message, Kind, Request

\* The ids of the beams after an answer.
LEMMA NewIdsType ==
    ASSUME TypeInv, NEW s \in Search
    PROVE  /\ NewIds(s) \in Seq(Id)
           /\ Range(NewIds(s)) \cap Search \subseteq {s}
           /\ token[s] = 0 => NewIds(s) = <<s>>
           /\ token[s] > 0 => NewIds(s) \in [Beams -> ChildId]
<1>1. token[s] \in Nat /\ token[s] \in 0..NumSteps /\ BeamWidth \in Nat \ {0}
    BY BoundAssumption DEF TypeInv, TypeOK
<1>2. Children(s) \in [Beams -> ChildId]
    BY <1>1 DEF Children, ChildId
<1>3. Children(s) \in Seq(Id)
    BY <1>1, <1>2, SequenceOfFunction DEF Beams, Id
<1>4. CASE token[s] = 0
    BY <1>4 DEF NewIds, Id, Request, Range
<1>5. CASE token[s] > 0
    <2>1. NewIds(s) = Children(s)
        BY <1>5 DEF NewIds
    <2>2. Range(Children(s)) \cap Search = {}
        BY <1>2, SearchAssumption DEF Range, Request
    <2>3. QED BY <1>2, <1>3, <1>5, <2>1, <2>2
<1>6. QED BY <1>1, <1>4, <1>5

\* BeamsOK speaks of the coroutine's own variables only.
LEMMA BeamsUnchanged ==
    ASSUME NEW s \in Search, BeamsOK(s),
           UNCHANGED <<pc[s], token[s], prev_ids[s], fork_info[s]>>
    PROVE  BeamsOK(s)'
    BY DEF BeamsOK, Over

\* A step of a search coroutine preserves the types.
LEMMA ClientType ==
    ASSUME TypeInv, NEW s \in Search, ClientStep(s) \/ CancelSearch(s)
    PROVE  TypeInv'
<1> USE BoundAssumption DEF TypeInv
<1>0. TypeOK /\ BeamsOK(s) /\ s \in Request /\ s \in Id
    BY DEF Request, Id
<1>1. CASE AddBatchStep(s)
    <2>1. Simple("ADD_BATCH", s) \in Message
        BY <1>0, SimpleType DEF Kind
    <2>2. TypeOK'
        BY <1>0, <1>1, <2>1 DEF TypeOK, AddBatchStep, Submit, thread, engine
    <2>3. ASSUME NEW r \in Search PROVE BeamsOK(r)'
        BY <1>0, <1>1 DEF BeamsOK, Over, AddBatchStep, Submit, TypeOK
    <2>4. QED BY <2>2, <2>3
<1>2. CASE MegaRequestStep(s)
    <2>1. StepMessage(s) \in Message
        BY <1>2, StepMessageType DEF MegaRequestStep, Submit
    <2>2. TypeOK'
        BY <1>0, <1>2, <2>1 DEF TypeOK, MegaRequestStep, Submit, thread, engine
    <2>3. ASSUME NEW r \in Search PROVE BeamsOK(r)'
        BY <1>0, <1>2 DEF BeamsOK, Over, MegaRequestStep, Submit, TypeOK
    <2>4. QED BY <2>2, <2>3
<1>3. CASE NoBeamsLeft(s)
    <2>2. TypeOK'
        BY <1>0, <1>3 DEF TypeOK, NoBeamsLeft, server, thread, engine, Final
    <2>3. ASSUME NEW r \in Search PROVE BeamsOK(r)'
        BY <1>0, <1>3 DEF BeamsOK, Over, NoBeamsLeft, TypeOK
    <2>4. QED BY <2>2, <2>3
<1>4. CASE FinishSearch(s)
    <2>1. CleanupMessage(s, prev_ids[s]) \in Message
        BY <1>0, CleanupMessageType DEF TypeOK
    <2>2. TypeOK'
        BY <1>0, <1>4, <2>1 DEF TypeOK, FinishSearch, Cleanup, thread, engine, Final
    <2>3. ASSUME NEW r \in Search PROVE BeamsOK(r)'
        BY <1>0, <1>4 DEF BeamsOK, Over, FinishSearch, TypeOK
    <2>4. QED BY <2>2, <2>3
<1>5. CASE ReceiveStep(s)
    <2>1. PICK f \in Forks(s) :
             fork_info' = [fork_info EXCEPT
                              ![s] = IF reply[s] = "ok" THEN f ELSE << >>]
        BY <1>5 DEF ReceiveStep
    <2>2. /\ f \in Seq(Beams) /\ Len(f) = BeamWidth
          /\ token[s] = 0 => \A b \in DOMAIN f : f[b] = 1
        <3>1. f \in [Beams -> Beams] /\ (token[s] = 0 => f \in [Beams -> {1}])
            BY <2>1 DEF Forks, Beams
        <3>2. QED BY <3>1, SequenceOfFunction DEF Beams
    <2>3. NewIds(s) \in Seq(Id) /\ (token[s] = 0 => NewIds(s) = <<s>>)
          /\ (token[s] > 0 => NewIds(s) \in [Beams -> ChildId])
        BY NewIdsType
    <2>4. token[s] \in Nat /\ token[s] < NumSteps /\ ~Over(s)
        BY <1>0, <1>5 DEF BeamsOK, ReceiveStep, TypeOK, Over
    <2>5. TypeOK'
        BY <1>0, <1>5, <2>1, <2>2, <2>3, <2>4
        DEF TypeOK, ReceiveStep, server, thread, engine
    <2>6. BeamsOK(s)'
        <3>1. /\ pc'[s] = "loop" /\ token'[s] = token[s] + 1
              /\ prev_ids'[s] = NewIds(s)
              /\ fork_info'[s] = IF reply[s] = "ok" THEN f ELSE << >>
            BY <1>0, <1>5, <2>1 DEF ReceiveStep, TypeOK
        <3>2. QED BY <2>2, <2>3, <2>4, <3>1 DEF BeamsOK
    <2>7. ASSUME NEW r \in Search, r # s PROVE BeamsOK(r)'
        BY <1>0, <1>5, <2>1, <2>7, BeamsUnchanged DEF ReceiveStep, TypeOK
    <2>8. QED BY <2>5, <2>6, <2>7
<1>6. CASE ReceiveError(s)
    <2>1. NewIds(s) \in Seq(Id) /\ CleanupMessage(s, NewIds(s)) \in Message
        BY NewIdsType, CleanupMessageType
    <2>2. TypeOK'
        <3>a. \/ wire' = wire
              \/ wire' = Append(wire, CleanupMessage(s, NewIds(s)))
            BY <1>6 DEF ReceiveError, Cleanup
        <3>1. wire' \in Seq(Message)
            <4>1. wire \in Seq(Message)
                BY <1>0 DEF TypeOK
            <4>2. QED BY <2>1, <3>a, <4>1
        <3>2. /\ pc' = [pc EXCEPT ![s] = "failed"]
              /\ prev_ids' = [prev_ids EXCEPT ![s] = NewIds(s)]
              /\ reply' = [reply EXCEPT ![s] = "none"]
              /\ UNCHANGED <<token, fork_info, registered, sent, beam_cache,
                             to_abort, aborts_queue, input_queue, live,
                             running, output_queue>>
            BY <1>6 DEF ReceiveError, Cleanup, thread, engine
        <3>3. QED BY <1>0, <2>1, <3>1, <3>2 DEF TypeOK, Final
    <2>3. ASSUME NEW r \in Search PROVE BeamsOK(r)'
        BY <1>0, <1>6 DEF BeamsOK, Over, ReceiveError, TypeOK
    <2>4. QED BY <2>2, <2>3
<1>7. CASE CancelSearch(s)
    <2>2. TypeOK'
        BY <1>0, <1>7 DEF TypeOK, CancelSearch, server, thread, engine, Final
    <2>3. ASSUME NEW r \in Search PROVE BeamsOK(r)'
        BY <1>0, <1>7 DEF BeamsOK, Over, CancelSearch, TypeOK
    <2>4. QED BY <2>2, <2>3
<1>8. QED BY <1>1, <1>2, <1>3, <1>4, <1>5, <1>6, <1>7 DEF ClientStep

\* A step outside the coroutines leaves the beams alone.
LEMMA OthersKeepBeams ==
    ASSUME TypeInv, TypeOK', UNCHANGED <<pc, token, prev_ids, fork_info>>
    PROVE  TypeInv'
<1>1. ASSUME NEW s \in Search PROVE BeamsOK(s)'
    <2>1. BeamsOK(s) /\ UNCHANGED <<pc[s], token[s], prev_ids[s], fork_info[s]>>
        BY DEF TypeInv
    <2>2. QED BY <2>1, BeamsUnchanged
<1>2. QED BY <1>1 DEF TypeInv

\* Sending and aborting an ordinary request preserves the types.
LEMMA PlainType ==
    ASSUME TypeInv, NEW p \in Plain, PlainAdd(p) \/ PlainAbort(p)
    PROVE  TypeInv'
<1>1. TypeOK /\ p \in Request
    BY DEF TypeInv, Request
<1>2. Simple("ADD", p) \in Message /\ Simple("ABORT", p) \in Message
    BY <1>1, SimpleType DEF Kind
<1>3. TypeOK'
    <2>1. CASE PlainAdd(p)
        BY <1>1, <1>2, <2>1 DEF TypeOK, PlainAdd, client, thread, engine
    <2>2. CASE PlainAbort(p)
        BY <1>1, <1>2, <2>2 DEF TypeOK, PlainAbort, client, thread, engine
    <2>3. QED BY <2>1, <2>2
<1>4. QED BY <1>3, OthersKeepBeams DEF PlainAdd, PlainAbort, client

\* An error output is addressed to the ids it was made for.
LEMMA ErrorOutputType ==
    ASSUME NEW ids \in SUBSET Id
    PROVE  ErrorOutput(ids) \subseteq [id : Id, reply : Reply]
    BY DEF ErrorOutput, Reply

\* The message at the head of the wire has its type and leaves a wire.
LEMMA ArrivesType ==
    ASSUME TypeOK, NEW kind, Arrives(kind)
    PROVE  /\ wire \in Seq(Message) /\ wire # << >>
           /\ Head(wire) \in Message /\ Head(wire).kind = kind
           /\ Head(wire).id \in Request /\ Head(wire).id \in Id
           /\ Head(wire).pruned \subseteq Id
           /\ Head(wire).children \in Seq(Id)
           /\ wire' = Tail(wire) /\ wire' \in Seq(Message) /\ to_abort = {}
<1>1. wire \in Seq(Message) /\ wire # << >>
    BY DEF TypeOK, Arrives
<1>2. Head(wire) \in Message
    BY <1>1
<1>3. QED BY <1>1, <1>2 DEF Arrives, Message, Id

\* A step of the input thread preserves the types, as long as the messages
\* of kind ADD_BATCH name searches.
LEMMA ThreadType ==
    ASSUME TypeInv, MessagesOK, InputThread
    PROVE  TypeInv'
<1>0. TypeOK
    BY DEF TypeInv
<1>1. CASE HandleAdd
    <2>1. CASE AcceptRequest("ADD", {})
        BY <1>0, <2>1, ArrivesType, OthersKeepBeams
        DEF TypeOK, AcceptRequest, client, engine
    <2>2. CASE RejectRequest("ADD")
        <3>1. ErrorOutput({Head(wire).id}) \subseteq [id : Id, reply : Reply]
            BY <1>0, <2>2, ArrivesType, ErrorOutputType DEF RejectRequest
        <3>2. QED BY <1>0, <2>2, <3>1, ArrivesType, OthersKeepBeams
                  DEF TypeOK, RejectRequest, client, thread
    <2>3. QED BY <1>1, <2>1, <2>2 DEF HandleAdd
<1>2. CASE HandleAddBatch
    <2>1. CASE AcceptRequest("ADD_BATCH", {Head(wire).id})
        <3>1. Head(wire).id \in Search
            <4>1. Arrives("ADD_BATCH")
                BY <2>1 DEF AcceptRequest
            <4>2. MessageOK(Head(wire)) /\ Head(wire).kind = "ADD_BATCH"
                BY <1>0, <4>1, ArrivesType DEF MessagesOK
            <4>3. QED BY <4>2 DEF MessageOK
        <3>2. QED BY <1>0, <2>1, <3>1, ArrivesType, OthersKeepBeams
                  DEF TypeOK, AcceptRequest, client, engine
    <2>2. CASE RejectRequest("ADD_BATCH")
        <3>1. ErrorOutput({Head(wire).id}) \subseteq [id : Id, reply : Reply]
            BY <1>0, <2>2, ArrivesType, ErrorOutputType DEF RejectRequest
        <3>2. QED BY <1>0, <2>2, <3>1, ArrivesType, OthersKeepBeams
                  DEF TypeOK, RejectRequest, client, thread
    <2>3. QED BY <1>2, <2>1, <2>2 DEF HandleAddBatch
<1>3. CASE HandleCleanup
    BY <1>0, <1>3, ArrivesType, OthersKeepBeams
    DEF TypeOK, HandleCleanup, client, engine
<1>4. CASE HandleStep
    <2>1. Arrives("MEGA_REQUEST_STEP_UPDATE")
        BY <1>4 DEF HandleStep
    <2>2. Range(Head(wire).children) \subseteq Id
        BY <1>0, <2>1, ArrivesType DEF Range
    <2>3. ErrorOutput(Range(Head(wire).children)) \subseteq [id : Id, reply : Reply]
        BY <2>2, ErrorOutputType
    <2>4. /\ input_queue' \in Seq({"ADD", "ABORT"} \X Request)
          /\ to_abort' \subseteq Id
          /\ output_queue' \subseteq [id : Id, reply : Reply]
          /\ wire' \in Seq(Message)
        <3>1. /\ Head(wire).id \in Request /\ Head(wire).pruned \subseteq Id
              /\ wire' \in Seq(Message)
            BY <1>0, <2>1, ArrivesType
        <3>2. CASE WellFormed(Head(wire)) /\ Head(wire).id \in beam_cache
            <4>1. /\ input_queue' = Append(input_queue, <<"ADD", Head(wire).id>>)
                  /\ to_abort' = Head(wire).pruned
                  /\ output_queue' = output_queue
                BY <1>4, <3>2 DEF HandleStep
            <4>2. QED BY <1>0, <3>1, <4>1 DEF TypeOK
        <3>3. CASE ~(WellFormed(Head(wire)) /\ Head(wire).id \in beam_cache)
            <4>1. /\ output_queue' =
                        output_queue \cup ErrorOutput(Range(Head(wire).children))
                  /\ UNCHANGED <<input_queue, to_abort>>
                BY <1>4, <3>3 DEF HandleStep
            <4>2. QED BY <1>0, <2>3, <3>1, <4>1 DEF TypeOK
        <3>4. QED BY <3>2, <3>3
    <2>5. /\ UNCHANGED <<pc, token, prev_ids, fork_info, reply, registered, sent,
                         beam_cache, aborts_queue, live, running>>
        BY <1>4 DEF HandleStep, client
    <2>6. QED BY <1>0, <2>4, <2>5, OthersKeepBeams DEF TypeOK
<1>5. CASE PushAbort
    BY <1>0, <1>5, OthersKeepBeams DEF TypeOK, PushAbort, client, server, engine
<1>6. CASE HandleAbort
    BY <1>0, <1>6, ArrivesType, OthersKeepBeams
    DEF TypeOK, HandleAbort, client, engine
<1>7. QED BY <1>1, <1>2, <1>3, <1>4, <1>5, <1>6 DEF InputThread

\* A step of the engine core preserves the types.
LEMMA EngineType ==
    ASSUME TypeInv, EngineCore
    PROVE  TypeInv'
<1>0. TypeOK
    BY DEF TypeInv
<1>1. CASE DrainInput
    BY <1>0, <1>1, OthersKeepBeams DEF TypeOK, DrainInput, client, server
<1>2. CASE Schedule
    BY <1>0, <1>2, OthersKeepBeams DEF TypeOK, Schedule, client, server, thread
<1>3. CASE Update
    <2>0. PICK finished \in SUBSET (running \ aborts_queue) :
             \E answer \in [finished -> Answers] :
                UpdateFromOutput(finished, answer)
        BY <1>3 DEF Update
    <2>1. PICK answer \in [finished -> Answers] :
             UpdateFromOutput(finished, answer)
        BY <2>0
    <2>2. {[id |-> r, reply |-> answer[r]] : r \in finished}
              \subseteq [id : Id, reply : Reply]
        BY <1>0 DEF TypeOK, Answers, Reply, Id
    <2>3. QED BY <1>0, <2>1, <2>2, OthersKeepBeams
              DEF TypeOK, UpdateFromOutput, client, server
<1>4. CASE DeliverOutput
    <2>1. PICK o \in output_queue :
              /\ output_queue' = output_queue \ {o}
              /\ registered' = registered \ {o.id}
              /\ reply' = IF o.id \in registered \cap Search
                          THEN [reply EXCEPT ![o.id] = o.reply] ELSE reply
              /\ UNCHANGED <<pc, token, prev_ids, fork_info, sent, wire, thread,
                             live, running>>
        BY <1>4 DEF DeliverOutput
    <2>2. reply' \in [Search -> Reply \cup {"none"}]
        BY <1>0, <2>1 DEF TypeOK
    <2>3. QED BY <1>0, <2>1, <2>2, OthersKeepBeams DEF TypeOK, thread
<1>5. QED BY <1>1, <1>2, <1>3, <1>4 DEF EngineCore

(***************************************************************************)
(* The session invariant: how a step on a queue moves a request.           *)
(***************************************************************************)

\* Sending m adds the request m asks for, if any, and nothing else.
LEMMA Send ==
    ASSUME wire \in Seq(Message), NEW m \in Message, wire' = Append(wire, m),
           NEW r
    PROVE  /\ OnWire(r)' <=> OnWire(r) \/ Asks(m, r)
           /\ OnceOnWire(r) /\ ~(OnWire(r) /\ Asks(m, r)) => OnceOnWire(r)'
<1>1. /\ DOMAIN wire' = DOMAIN wire \cup {Len(wire) + 1}
      /\ Len(wire) + 1 \notin DOMAIN wire
      /\ \A i \in DOMAIN wire : wire'[i] = wire[i]
      /\ wire'[Len(wire) + 1] = m
    BY AppendProperties
<1>2. OnWire(r)' <=> OnWire(r) \/ Asks(m, r)
    BY <1>1 DEF OnWire
<1>3. ASSUME OnceOnWire(r), ~(OnWire(r) /\ Asks(m, r)) PROVE OnceOnWire(r)'
    BY <1>1, <1>3 DEF OnWire, OnceOnWire
<1>4. QED BY <1>2, <1>3

\* Sending keeps what is said of the messages, if it holds of the new one.
LEMMA SendKeepsMessages ==
    ASSUME wire \in Seq(Message), NEW m \in Message, wire' = Append(wire, m),
           \A n \in Range(wire) : MessageOK(n)', MessageOK(m)'
    PROVE  MessagesOK'
<1>1. /\ DOMAIN wire' = DOMAIN wire \cup {Len(wire) + 1}
      /\ \A i \in DOMAIN wire : wire'[i] = wire[i]
      /\ wire'[Len(wire) + 1] = m
    BY AppendProperties
<1>2. ASSUME NEW n \in Range(wire') PROVE n \in Range(wire) \/ n = m
    BY <1>1, <1>2 DEF Range
<1>3. \A n \in Range(wire') : MessageOK(n)'
    BY <1>2
<1>4. QED BY <1>3 DEF MessagesOK, Range

\* Receiving takes away what the head of the wire asks for.
LEMMA Receive ==
    ASSUME TypeOK, NEW kind, Arrives(kind), NEW r
    PROVE  /\ OnWire(r)' => OnWire(r)
           /\ Asks(Head(wire), r) => OnWire(r)
           /\ OnWire(r) => Asks(Head(wire), r) \/ OnWire(r)'
           /\ OnceOnWire(r) => OnceOnWire(r)'
           /\ OnceOnWire(r) /\ Asks(Head(wire), r) => ~OnWire(r)'
<1>1. /\ 1 \in DOMAIN wire /\ wire[1] = Head(wire)
      /\ \A i \in DOMAIN wire' :
            i + 1 \in DOMAIN wire /\ i + 1 # 1 /\ wire'[i] = wire[i + 1]
      /\ \A i \in DOMAIN wire : i # 1 =>
            i - 1 \in DOMAIN wire' /\ wire'[i - 1] = wire[i]
    BY ArrivesType, TailProperties
<1>2. OnWire(r)' => OnWire(r)
    BY <1>1 DEF OnWire
<1>3. Asks(Head(wire), r) => OnWire(r)
    BY <1>1 DEF OnWire
<1>4. OnWire(r) => Asks(Head(wire), r) \/ OnWire(r)'
    BY <1>1 DEF OnWire
<1>5. ASSUME OnceOnWire(r) PROVE OnceOnWire(r)'
    <2>1. SUFFICES ASSUME NEW i \in DOMAIN wire', NEW j \in DOMAIN wire',
                          Asks(wire'[i], r), Asks(wire'[j], r)
                   PROVE  i = j
        BY DEF OnceOnWire
    <2>2. i + 1 = j + 1
        BY <1>1, <1>5, <2>1 DEF OnceOnWire
    <2>3. i \in Nat /\ j \in Nat
        BY ArrivesType
    <2>4. QED BY <2>2, <2>3
<1>6. ASSUME OnceOnWire(r), Asks(Head(wire), r) PROVE ~OnWire(r)'
    BY <1>1, <1>6 DEF OnWire, OnceOnWire
<1>7. QED BY <1>2, <1>3, <1>4, <1>5, <1>6

\* Receiving keeps what is said of the messages that remain.
LEMMA ReceiveKeepsMessages ==
    ASSUME TypeOK, NEW kind, Arrives(kind), \A n \in Range(wire) : MessageOK(n)'
    PROVE  MessagesOK'
<1>0. wire \in Seq(Message) /\ wire # << >> /\ wire' = Tail(wire)
    BY ArrivesType
<1>1. \A i \in DOMAIN wire' : i + 1 \in DOMAIN wire /\ wire'[i] = wire[i + 1]
    BY <1>0, TailProperties
<1>2. \A n \in Range(wire') : n \in Range(wire)
    BY <1>1 DEF Range
<1>3. \A n \in Range(wire') : MessageOK(n)'
    BY <1>2
<1>4. QED BY <1>3 DEF MessagesOK, Range

\* Queueing an operation on id r.
LEMMA Enqueue ==
    ASSUME TypeOK, NEW op \in {"ADD", "ABORT"}, NEW i \in Request, NEW r,
           input_queue' = Append(input_queue, <<op, i>>)
    PROVE  /\ Queued(r)' <=> Queued(r) \/ (op = "ADD" /\ r = i)
           /\ r # i /\ OnceQueued(r) => OnceQueued(r)'
           /\ AbortsNamePlain /\ ~Queued(r) /\ r \notin Plain => OnceQueued(r)'
           /\ AbortsNamePlain /\ (op = "ADD" \/ i \in Plain) => AbortsNamePlain'
<1>0. input_queue \in Seq({"ADD", "ABORT"} \X Request)
    BY DEF TypeOK
<1>1. /\ DOMAIN input_queue' = DOMAIN input_queue \cup {Len(input_queue) + 1}
      /\ Len(input_queue) + 1 \notin DOMAIN input_queue
      /\ \A j \in DOMAIN input_queue : input_queue'[j] = input_queue[j]
      /\ input_queue'[Len(input_queue) + 1] = <<op, i>>
    BY <1>0, AppendProperties
<1>2. \A j \in DOMAIN input_queue :
         input_queue[j] = <<input_queue[j][1], input_queue[j][2]>>
         /\ input_queue[j][1] \in {"ADD", "ABORT"}
    BY <1>0
<1>3. Queued(r)' <=> Queued(r) \/ (op = "ADD" /\ r = i)
    BY <1>1 DEF Queued
<1>4. r # i /\ OnceQueued(r) => OnceQueued(r)'
    BY <1>1 DEF OnceQueued
<1>5. ASSUME AbortsNamePlain, ~Queued(r), r \notin Plain PROVE OnceQueued(r)'
    <2>1. \A j \in DOMAIN input_queue : input_queue[j][2] # r
        BY <1>2, <1>5 DEF AbortsNamePlain, Queued
    <2>2. QED BY <1>1, <2>1 DEF OnceQueued
<1>6. AbortsNamePlain /\ (op = "ADD" \/ i \in Plain) => AbortsNamePlain'
    BY <1>1 DEF AbortsNamePlain
<1>7. QED BY <1>3, <1>4, <1>5, <1>6

\* Draining the head of the input queue.
LEMMA Dequeue ==
    ASSUME TypeOK, input_queue # << >>, input_queue' = Tail(input_queue), NEW r
    PROVE  /\ Head(input_queue) \in {"ADD", "ABORT"} \X Request
           /\ Queued(r)' => Queued(r)
           /\ Head(input_queue) = <<"ADD", r>> => Queued(r)
           /\ Queued(r) => Head(input_queue) = <<"ADD", r>> \/ Queued(r)'
           /\ OnceQueued(r) => OnceQueued(r)'
           /\ OnceQueued(r) /\ Head(input_queue)[2] = r => ~Queued(r)'
           /\ AbortsNamePlain => AbortsNamePlain'
           /\ AbortsNamePlain /\ Head(input_queue)[1] = "ABORT" =>
                 Head(input_queue)[2] \in Plain
<1>0. input_queue \in Seq({"ADD", "ABORT"} \X Request)
    BY DEF TypeOK
<1>1. /\ 1 \in DOMAIN input_queue /\ input_queue[1] = Head(input_queue)
      /\ Head(input_queue) \in {"ADD", "ABORT"} \X Request
      /\ input_queue' \in Seq({"ADD", "ABORT"} \X Request)
      /\ \A i \in DOMAIN input_queue' :
            /\ i + 1 \in DOMAIN input_queue /\ i + 1 # 1
            /\ input_queue'[i] = input_queue[i + 1]
      /\ \A i \in DOMAIN input_queue : i # 1 =>
            i - 1 \in DOMAIN input_queue' /\ input_queue'[i - 1] = input_queue[i]
    BY <1>0, TailProperties
<1>2. Queued(r)' => Queued(r)
    BY <1>1 DEF Queued
<1>3. Head(input_queue) = <<"ADD", r>> => Queued(r)
    BY <1>1 DEF Queued
<1>4. ASSUME Queued(r), Head(input_queue) # <<"ADD", r>> PROVE Queued(r)'
    <2>1. PICK i \in DOMAIN input_queue : input_queue[i] = <<"ADD", r>>
        BY <1>4 DEF Queued
    <2>2. i # 1
        BY <1>1, <1>4, <2>1
    <2>3. i - 1 \in DOMAIN input_queue' /\ input_queue'[i - 1] = <<"ADD", r>>
        BY <1>1, <2>1, <2>2
    <2>4. QED BY <2>3 DEF Queued
<1>5. ASSUME OnceQueued(r) PROVE OnceQueued(r)'
    <2>1. SUFFICES ASSUME NEW i \in DOMAIN input_queue',
                          NEW j \in DOMAIN input_queue',
                          input_queue'[i][2] = r, input_queue'[j][2] = r
                   PROVE  i = j
        BY DEF OnceQueued
    <2>2. i + 1 = j + 1
        BY <1>1, <1>5, <2>1 DEF OnceQueued
    <2>3. i \in Nat /\ j \in Nat
        BY <1>1
    <2>4. QED BY <2>2, <2>3
<1>6. ASSUME OnceQueued(r), Head(input_queue)[2] = r PROVE ~Queued(r)'
    <2>1. SUFFICES ASSUME NEW i \in DOMAIN input_queue',
                          input_queue'[i] = <<"ADD", r>>
                   PROVE  FALSE
        BY DEF Queued
    <2>2. i + 1 = 1
        BY <1>1, <1>6, <2>1 DEF OnceQueued
    <2>3. QED BY <1>1, <2>1, <2>2
<1>7. AbortsNamePlain => AbortsNamePlain'
    BY <1>1 DEF AbortsNamePlain
<1>8. AbortsNamePlain /\ Head(input_queue)[1] = "ABORT" =>
         Head(input_queue)[2] \in Plain
    BY <1>1 DEF AbortsNamePlain
<1>9. QED BY <1>1, <1>2, <1>3, <1>4, <1>5, <1>6, <1>7, <1>8

\* What is said of a wire, an input queue or an output queue that stays put.
LEMMA SameWire ==
    ASSUME wire' = wire, NEW r
    PROVE  (OnWire(r)' <=> OnWire(r)) /\ (OnceOnWire(r)' <=> OnceOnWire(r))
    BY DEF OnWire, OnceOnWire

LEMMA SameQueue ==
    ASSUME input_queue' = input_queue, NEW r
    PROVE  /\ (Queued(r)' <=> Queued(r)) /\ (OnceQueued(r)' <=> OnceQueued(r))
           /\ AbortsNamePlain' <=> AbortsNamePlain
    BY DEF Queued, OnceQueued, AbortsNamePlain

LEMMA SameOutputs ==
    ASSUME output_queue' = output_queue, NEW r
    PROVE  /\ (Answered(r)' <=> Answered(r))
           /\ (OnceAnswered(r)' <=> OnceAnswered(r))
           /\ OutputsAreAddressable' <=> OutputsAreAddressable
    BY DEF Answered, OnceAnswered, OutputsAreAddressable

\* A message stays true as long as searches that are over stay over and the
\* search it speaks for stays where it is.
LEMMA MessagesKept ==
    ASSUME TypeOK, MessagesOK, \A s \in Search : Over(s) => Over(s)',
           \A s \in Search : OnWire(s) =>
               /\ token'[s] = token[s]
               /\ pc[s] \in {"await", "cancelled"} => pc'[s] \in {"await", "cancelled"}
               /\ s \in beam_cache => s \in beam_cache'
    PROVE  \A n \in Range(wire) : MessageOK(n)'
<1>1. SUFFICES ASSUME NEW n \in Range(wire) PROVE MessageOK(n)'
    OBVIOUS
<1>2. PICK i \in DOMAIN wire : wire[i] = n
    BY DEF Range
<1>3. n \in Message /\ MessageOK(n)
    BY <1>2 DEF TypeOK, MessagesOK
<1>4. \A s : Asks(n, s) => OnWire(s)
    BY <1>2 DEF OnWire
<1>5. n.width \in Nat
    BY <1>3 DEF Message
<1>6. n.kind = "ADD_BATCH" =>
          n.id \in Search /\ token'[n.id] = 0 /\ pc'[n.id] \in {"await", "cancelled"}
    BY <1>3, <1>4 DEF MessageOK, Asks
<1>7. n.kind = "MEGA_REQUEST_STEP_UPDATE" =>
          /\ n.id \in Search /\ WellFormed(n)
          /\ n.width = 0 => Over(n.id)'
          /\ n.width # 0 => n.id \in beam_cache'
    BY <1>3, <1>4, <1>5 DEF MessageOK, Asks
<1>8. (n.kind \in {"ADD", "ABORT"} => n.id \in Plain)
      /\ \A s \in Search \cap n.pruned : Over(s)'
    BY <1>3 DEF MessageOK
<1>9. QED BY <1>6, <1>7, <1>8 DEF MessageOK

\* A search that a step does not concern keeps its invariant.
LEMMA SearchFrame ==
    ASSUME NEW r \in Search, SearchInv(r),
           UNCHANGED <<pc[r], token[r], prev_ids[r], fork_info[r], reply[r]>>,
           r \in registered' <=> r \in registered,
           OnWire(r)' <=> OnWire(r), OnceOnWire(r) => OnceOnWire(r)',
           Queued(r)' <=> Queued(r), OnceQueued(r) => OnceQueued(r)',
           r \in live' <=> r \in live,
           {o \in output_queue' : o.id = r} = {o \in output_queue : o.id = r},
           r \in beam_cache => r \in beam_cache',
           r \in to_abort' \cup aborts_queue' =>
               r \in to_abort \cup aborts_queue \/ Over(r)
    PROVE  SearchInv(r)'
<1>1. BeamsOK(r)'
    BY BeamsUnchanged DEF SearchInv
<1>2. Over(r)' <=> Over(r)
    BY DEF Over
<1>3. \A o : o.id = r => (o \in output_queue' <=> o \in output_queue)
    OBVIOUS
<1>4. (Answered(r)' <=> Answered(r)) /\ (OnceAnswered(r) => OnceAnswered(r)')
    BY <1>3 DEF Answered, OnceAnswered
<1>5. FlightOK(r)'
    BY <1>4 DEF SearchInv, FlightOK
<1>6. AwaitOK(r)' /\ CacheOK(r)' /\ AbortOK(r)'
    BY <1>2 DEF SearchInv, AwaitOK, CacheOK, AbortOK
<1>7. CachedOnceAccepted(r)'
    BY <1>2, <1>3 DEF SearchInv, CachedOnceAccepted
<1>8. QED BY <1>1, <1>5, <1>6, <1>7 DEF SearchInv

(***************************************************************************)
(* The session invariant: the coroutines.                                  *)
(***************************************************************************)

\* What every step of the coroutine of s leaves alone.
LEMMA ClientFrame ==
    ASSUME SessionInv, NEW s \in Search, ClientStep(s) \/ CancelSearch(s)
    PROVE  /\ UNCHANGED <<sent, thread, engine>>
           /\ \A r \in Search : r # s =>
                 /\ UNCHANGED <<pc[r], token[r], prev_ids[r], fork_info[r], reply[r]>>
                 /\ r \in registered' <=> r \in registered
           /\ \/ wire' = wire
              \/ \E m \in Message :
                    /\ wire' = Append(wire, m) /\ m.id = s
                    /\ pc'[s] # "await" => ~Asks(m, s)
<1>0. TypeInv /\ TypeOK
    BY DEF SessionInv, TypeInv, SearchInv
<1>1. CASE AddBatchStep(s)
    <2>1. Simple("ADD_BATCH", s) \in Message /\ Simple("ADD_BATCH", s).id = s
        BY SimpleType DEF Kind, Request, Simple
    <2>2. QED BY <1>0, <1>1, <2>1 DEF AddBatchStep, Submit, TypeOK
<1>2. CASE MegaRequestStep(s)
    <2>1. StepMessage(s) \in Message /\ StepMessage(s).id = s
        BY <1>0, <1>2, StepMessageType DEF MegaRequestStep, Submit
    <2>2. QED BY <1>0, <1>2, <2>1 DEF MegaRequestStep, Submit, TypeOK
<1>3. CASE NoBeamsLeft(s)
    BY <1>0, <1>3 DEF NoBeamsLeft, TypeOK, server
<1>4. CASE FinishSearch(s)
    <2>1. /\ CleanupMessage(s, prev_ids[s]) \in Message
          /\ CleanupMessage(s, prev_ids[s]).id = s
          /\ ~Asks(CleanupMessage(s, prev_ids[s]), s)
        BY <1>0, CleanupMessageType DEF TypeOK, Asks
    <2>2. QED BY <1>0, <1>4, <2>1 DEF FinishSearch, Cleanup, TypeOK
<1>5. CASE ReceiveStep(s)
    BY <1>0, <1>5 DEF ReceiveStep, TypeOK, server
<1>6. CASE ReceiveError(s)
    <2>1. /\ CleanupMessage(s, NewIds(s)) \in Message
          /\ CleanupMessage(s, NewIds(s)).id = s
          /\ ~Asks(CleanupMessage(s, NewIds(s)), s)
        BY <1>0, NewIdsType, CleanupMessageType DEF Asks
    <2>2. wire' = wire \/ wire' = Append(wire, CleanupMessage(s, NewIds(s)))
        BY <1>6 DEF ReceiveError, Cleanup
    <2>3. /\ pc' = [pc EXCEPT ![s] = "failed"]
          /\ prev_ids' = [prev_ids EXCEPT ![s] = NewIds(s)]
          /\ reply' = [reply EXCEPT ![s] = "none"]
          /\ UNCHANGED <<token, fork_info, registered, sent, thread, engine>>
        BY <1>6 DEF ReceiveError
    <2>4. QED BY <1>0, <2>1, <2>2, <2>3 DEF TypeOK
<1>7. CASE CancelSearch(s)
    BY <1>0, <1>7 DEF CancelSearch, TypeOK, server
<1>8. QED BY <1>1, <1>2, <1>3, <1>4, <1>5, <1>6, <1>7 DEF ClientStep

\* Hence every other search keeps its invariant, and the queues theirs.
LEMMA ClientOthers ==
    ASSUME SessionInv, NEW s \in Search, ClientStep(s) \/ CancelSearch(s)
    PROVE  /\ \A r \in Search : r # s => SearchInv(r)'
           /\ AbortsNamePlain' /\ OutputsAreAddressable'
           /\ \A r : /\ Queued(r)' <=> Queued(r)
                     /\ OnceQueued(r)' <=> OnceQueued(r)
                     /\ Answered(r)' <=> Answered(r)
                     /\ OnceAnswered(r)' <=> OnceAnswered(r)
<1>1. /\ UNCHANGED <<beam_cache, to_abort, aborts_queue, input_queue, live,
                     running, output_queue>>
      /\ wire \in Seq(Message)
    BY ClientFrame DEF thread, engine, SessionInv, TypeOK
<1>2. AbortsNamePlain' /\ OutputsAreAddressable'
    BY <1>1, SameQueue, SameOutputs DEF SessionInv
<1>3. ASSUME NEW r \in Search, r # s PROVE SearchInv(r)'
    <2>1. (OnWire(r)' <=> OnWire(r)) /\ (OnceOnWire(r) => OnceOnWire(r)')
        <3>1. CASE wire' = wire
            BY <3>1, SameWire
        <3>2. CASE wire' # wire
            <4>1. PICK m \in Message : wire' = Append(wire, m) /\ m.id = s
                BY <3>2, ClientFrame
            <4>2. ~Asks(m, r)
                BY <1>3, <4>1 DEF Asks
            <4>3. QED BY <1>1, <4>1, <4>2, Send
        <3>3. QED BY <3>1, <3>2
    <2>2. /\ UNCHANGED <<pc[r], token[r], prev_ids[r], fork_info[r], reply[r]>>
          /\ r \in registered' <=> r \in registered
        BY <1>3, ClientFrame
    <2>3. (Queued(r)' <=> Queued(r)) /\ (OnceQueued(r) => OnceQueued(r)')
        BY <1>1, SameQueue
    <2>4. SearchInv(r)
        BY DEF SessionInv
    <2>5. QED BY <1>1, <2>1, <2>2, <2>3, <2>4, SearchFrame
<1>4. QED BY <1>1, <1>2, <1>3, SameQueue, SameOutputs

\* The messages on the wire stay true when a coroutine takes a step.
LEMMA ClientKeepsMessages ==
    ASSUME SessionInv, NEW s \in Search, ClientStep(s) \/ CancelSearch(s)
    PROVE  \A n \in Range(wire) : MessageOK(n)'
<1>0. TypeOK /\ MessagesOK /\ (\A r \in Search : FlightOK(r) /\ AwaitOK(r))
    BY DEF SessionInv, SearchInv
<1>1. beam_cache' = beam_cache
    BY ClientFrame DEF thread
<1>2. /\ Over(s) => Over(s)'
      /\ OnWire(s) => /\ token'[s] = token[s]
                      /\ pc[s] \in {"await", "cancelled"} =>
                            pc'[s] \in {"await", "cancelled"}
    <2>1. OnWire(s) => s \in registered
        BY <1>0 DEF FlightOK
    <2>2. pc \in [Search -> {"loop", "await"} \cup Final]
          /\ token \in [Search -> 0..NumSteps]
        BY <1>0 DEF TypeOK
    <2>3. pc[s] = "await" /\ reply[s] # "none" => s \notin registered
        BY <1>0 DEF AwaitOK
    <2>4. CASE AddBatchStep(s)
        BY <2>2, <2>4 DEF AddBatchStep, Submit, Over
    <2>5. CASE MegaRequestStep(s)
        BY <2>2, <2>5 DEF MegaRequestStep, Submit, Over
    <2>6. CASE NoBeamsLeft(s)
        BY <2>2, <2>6 DEF NoBeamsLeft, Over
    <2>7. CASE FinishSearch(s)
        BY <2>2, <2>7 DEF FinishSearch, Over
    <2>8. CASE ReceiveStep(s)
        BY <2>1, <2>2, <2>3, <2>8 DEF ReceiveStep, Over
    <2>9. CASE ReceiveError(s)
        <3>1. pc[s] = "await" /\ reply[s] = "error"
            BY <2>9 DEF ReceiveError
        <3>2. QED BY <2>1, <2>3, <3>1 DEF Over
    <2>10. CASE CancelSearch(s)
        BY <2>2, <2>10 DEF CancelSearch, Over
    <2>11. QED BY <2>4, <2>5, <2>6, <2>7, <2>8, <2>9, <2>10 DEF ClientStep
<1>3. \A r \in Search : r # s => UNCHANGED <<pc[r], token[r]>>
    BY ClientFrame
<1>4. /\ \A r \in Search : Over(r) => Over(r)'
      /\ \A r \in Search : OnWire(r) =>
            /\ token'[r] = token[r]
            /\ pc[r] \in {"await", "cancelled"} => pc'[r] \in {"await", "cancelled"}
            /\ r \in beam_cache => r \in beam_cache'
    BY <1>1, <1>2, <1>3 DEF Over
<1>5. QED BY <1>0, <1>4, MessagesKept

\* A step of the coroutine of s preserves the invariant of s.
LEMMA ClientSelf ==
    ASSUME SessionInv, NEW s \in Search, ClientStep(s) \/ CancelSearch(s)
    PROVE  SearchInv(s)'
<1>0. /\ TypeOK /\ TypeInv
      /\ FlightOK(s) /\ AwaitOK(s) /\ CacheOK(s) /\ AbortOK(s)
      /\ CachedOnceAccepted(s)
    BY DEF SessionInv, SearchInv, TypeInv
<1>1. BeamsOK(s)'
    BY <1>0, ClientType DEF TypeInv
<1>2. /\ UNCHANGED <<beam_cache, to_abort, aborts_queue, live, output_queue>>
      /\ Queued(s)' <=> Queued(s)
      /\ OnceQueued(s)' <=> OnceQueued(s)
      /\ Answered(s)' <=> Answered(s)
      /\ OnceAnswered(s)' <=> OnceAnswered(s)
    BY ClientFrame, ClientOthers DEF thread, engine
<1>3. wire \in Seq(Message) /\ pc[s] \in {"loop", "await"} \cup Final
      /\ token[s] \in Nat /\ reply[s] \in Reply \cup {"none"}
      /\ pc \in [Search -> {"loop", "await"} \cup Final]
      /\ token \in [Search -> 0..NumSteps]
      /\ reply \in [Search -> Reply \cup {"none"}]
    BY <1>0, BoundAssumption DEF TypeOK
<1>4. CASE AddBatchStep(s)
    <2>1. /\ pc[s] = "loop" /\ token[s] = 0 /\ pc'[s] = "await"
          /\ token' = token /\ reply' = reply
          /\ registered' = registered \cup {s}
          /\ wire' = Append(wire, Simple("ADD_BATCH", s))
        BY <1>3, <1>4 DEF AddBatchStep, Submit
    <2>2. Simple("ADD_BATCH", s) \in Message /\ Asks(Simple("ADD_BATCH", s), s)
        BY SimpleType DEF Kind, Request, Simple, Asks
    <2>3. s \notin registered /\ reply[s] = "none" /\ ~Over(s)
        BY <1>0, <2>1 DEF AwaitOK, Over
    <2>4. OnWire(s)' /\ OnceOnWire(s)'
        BY <1>0, <1>3, <2>1, <2>2, <2>3, Send DEF FlightOK
    <2>5. FlightOK(s)'
        BY <1>0, <1>2, <2>1, <2>3, <2>4 DEF FlightOK
    <2>6. AwaitOK(s)' /\ CacheOK(s)' /\ AbortOK(s)' /\ CachedOnceAccepted(s)'
        BY <1>0, <1>2, <2>1, <2>3
        DEF AwaitOK, CacheOK, AbortOK, CachedOnceAccepted, Over
    <2>7. QED BY <1>1, <2>5, <2>6 DEF SearchInv
<1>5. CASE MegaRequestStep(s)
    <2>1. /\ pc[s] = "loop" /\ pc'[s] = "await" /\ token[s] > 0
          /\ token' = token /\ reply' = reply
          /\ registered' = registered \cup {s}
          /\ wire' = Append(wire, StepMessage(s))
        BY <1>3, <1>5 DEF MegaRequestStep, Submit
    <2>2. StepMessage(s) \in Message /\ Asks(StepMessage(s), s)
        BY <1>0, <1>5, StepMessageType, BoundAssumption DEF MegaRequestStep, Submit, Asks
    <2>3. s \notin registered /\ reply[s] = "none" /\ ~Over(s)
        BY <1>0, <2>1 DEF AwaitOK, Over
    <2>4. OnWire(s)' /\ OnceOnWire(s)'
        BY <1>0, <1>3, <2>1, <2>2, <2>3, Send DEF FlightOK
    <2>5. FlightOK(s)'
        BY <1>0, <1>2, <2>1, <2>3, <2>4 DEF FlightOK
    <2>6. AwaitOK(s)' /\ CacheOK(s)' /\ AbortOK(s)' /\ CachedOnceAccepted(s)'
        BY <1>0, <1>2, <2>1, <2>3
        DEF AwaitOK, CacheOK, AbortOK, CachedOnceAccepted, Over
    <2>7. QED BY <1>1, <2>5, <2>6 DEF SearchInv
<1>6. CASE NoBeamsLeft(s) \/ FinishSearch(s)
    <2>1. /\ pc[s] = "loop" /\ pc'[s] \in {"done", "failed"}
          /\ token' = token /\ reply' = reply /\ registered' = registered
        BY <1>3, <1>6 DEF NoBeamsLeft, FinishSearch, server
    <2>2. (OnWire(s)' <=> OnWire(s)) /\ (OnceOnWire(s) => OnceOnWire(s)')
        BY <1>3, <2>1, ClientFrame, SameWire, Send
    <2>3. s \notin registered
        BY <1>0, <2>1 DEF AwaitOK
    <2>4. FlightOK(s)'
        BY <1>0, <1>2, <2>1, <2>2 DEF FlightOK
    <2>5. AwaitOK(s)' /\ CacheOK(s)' /\ AbortOK(s)' /\ CachedOnceAccepted(s)'
        BY <1>0, <1>2, <2>1, <2>3
        DEF AwaitOK, CacheOK, AbortOK, CachedOnceAccepted, Over
    <2>6. QED BY <1>1, <2>4, <2>5 DEF SearchInv
<1>7. CASE ReceiveStep(s)
    <2>1. /\ pc[s] = "await" /\ reply[s] \in {"ok", "nologprobs"}
          /\ pc'[s] = "loop" /\ token'[s] = token[s] + 1 /\ reply'[s] = "none"
          /\ registered' = registered /\ wire' = wire
        BY <1>3, <1>7 DEF ReceiveStep, server
    <2>2. s \notin registered /\ s \in beam_cache
        BY <1>0, <2>1 DEF AwaitOK, CachedOnceAccepted
    <2>3. FlightOK(s)'
        BY <1>0, <1>2, <2>1, SameWire DEF FlightOK
    <2>4. AwaitOK(s)' /\ CacheOK(s)' /\ AbortOK(s)' /\ CachedOnceAccepted(s)'
        BY <1>0, <1>2, <2>1, <2>2
        DEF AwaitOK, CacheOK, AbortOK, CachedOnceAccepted, Over
    <2>5. QED BY <1>1, <2>3, <2>4 DEF SearchInv
<1>8. CASE ReceiveError(s)
    <2>1. /\ pc' = [pc EXCEPT ![s] = "failed"] /\ pc[s] = "await"
          /\ reply[s] = "error"
          /\ reply' = [reply EXCEPT ![s] = "none"] /\ registered' = registered
        BY <1>8 DEF ReceiveError
    <2>2. pc'[s] = "failed" /\ reply'[s] = "none"
        BY <1>3, <2>1
    <2>3. (OnWire(s)' <=> OnWire(s)) /\ (OnceOnWire(s) => OnceOnWire(s)')
        BY <1>3, <2>2, ClientFrame, SameWire, Send
    <2>4. s \notin registered
        BY <1>0, <2>1 DEF AwaitOK
    <2>5. FlightOK(s)'
        BY <1>0, <1>2, <2>1, <2>3 DEF FlightOK
    <2>6. AwaitOK(s)' /\ CacheOK(s)' /\ AbortOK(s)' /\ CachedOnceAccepted(s)'
        BY <1>0, <1>2, <2>1, <2>2, <2>4
        DEF AwaitOK, CacheOK, AbortOK, CachedOnceAccepted, Over
    <2>7. QED BY <1>1, <2>5, <2>6 DEF SearchInv
<1>9. CASE CancelSearch(s)
    <2>1. /\ pc[s] = "await" /\ pc'[s] = "cancelled"
          /\ token' = token /\ reply' = reply
          /\ registered' = registered /\ wire' = wire
        BY <1>3, <1>9 DEF CancelSearch, server
    <2>2. FlightOK(s)'
        BY <1>0, <1>2, <2>1, SameWire DEF FlightOK
    <2>3. AwaitOK(s)' /\ CacheOK(s)' /\ AbortOK(s)' /\ CachedOnceAccepted(s)'
        BY <1>0, <1>2, <2>1
        DEF AwaitOK, CacheOK, AbortOK, CachedOnceAccepted, Over
    <2>4. QED BY <1>1, <2>2, <2>3 DEF SearchInv
<1>10. QED BY <1>4, <1>5, <1>6, <1>7, <1>8, <1>9 DEF ClientStep

\* The message a coroutine sends is true when it is sent.
LEMMA ClientSendsTruth ==
    ASSUME SessionInv, NEW s \in Search, ClientStep(s) \/ CancelSearch(s)
    PROVE  MessagesOK'
<1>0. /\ TypeOK /\ TypeInv /\ MessagesOK /\ wire \in Seq(Message)
      /\ \A n \in Range(wire) : MessageOK(n)'
      /\ pc \in [Search -> {"loop", "await"} \cup Final]
      /\ BeamsOK(s) /\ CacheOK(s) /\ AwaitOK(s)
    BY ClientKeepsMessages DEF SessionInv, SearchInv, TypeInv, TypeOK
<1>1. CASE AddBatchStep(s)
    <2>1. Simple("ADD_BATCH", s) \in Message
        BY SimpleType DEF Kind, Request
    <2>2. /\ pc'[s] = "await" /\ token'[s] = 0
          /\ wire' = Append(wire, Simple("ADD_BATCH", s))
        BY <1>0, <1>1 DEF AddBatchStep, Submit
    <2>3. MessageOK(Simple("ADD_BATCH", s))'
        BY <2>2 DEF MessageOK, Simple
    <2>4. QED BY <1>0, <2>1, <2>2, <2>3, SendKeepsMessages
<1>2. CASE MegaRequestStep(s)
    <2>1. StepMessage(s) \in Message /\ wire' = Append(wire, StepMessage(s))
        BY <1>0, <1>2, StepMessageType DEF MegaRequestStep, Submit
    <2>2. s \in beam_cache'
        <3>1. s \in beam_cache
            BY <1>0, <1>2 DEF MegaRequestStep, Submit, CacheOK
        <3>2. QED BY <3>1, ClientFrame DEF thread
    <2>3. PICK m \in Message : m = StepMessage(s)
        BY <2>1
    <2>4. /\ m.kind = "MEGA_REQUEST_STEP_UPDATE" /\ m.id = s /\ WellFormed(m)
          /\ m.width = BeamWidth /\ m.pruned \cap Search = {}
        BY <1>0, <1>2, <2>3, StepMessageType DEF MegaRequestStep, Submit
    <2>5. MessageOK(m)'
        BY <2>2, <2>4, BoundAssumption DEF MessageOK
    <2>6. QED BY <1>0, <2>1, <2>3, <2>5, SendKeepsMessages
<1>3. ASSUME NEW ids \in Seq(Id), Range(ids) \cap Search \subseteq {s},
             Over(s)', wire' = Append(wire, CleanupMessage(s, ids))
      PROVE  MessagesOK'
    <2>1. PICK m \in Message : m = CleanupMessage(s, ids)
        BY CleanupMessageType
    <2>2. m = [kind |-> "MEGA_REQUEST_STEP_UPDATE", id |-> s,
               parents |-> << >>, children |-> << >>,
               pruned |-> Range(ids), width |-> 0]
        BY <2>1, CleanupMessageType
    <2>3. MessageOK(m)'
        BY <1>3, <2>2 DEF MessageOK, WellFormed
    <2>4. QED BY <1>0, <1>3, <2>1, <2>3, SendKeepsMessages
<1>4. ASSUME wire' = wire PROVE MessagesOK'
    BY <1>0, <1>4 DEF MessagesOK, Range
<1>5. CASE NoBeamsLeft(s) \/ ReceiveStep(s) \/ CancelSearch(s)
    BY <1>4, <1>5 DEF NoBeamsLeft, ReceiveStep, CancelSearch, server
<1>6. CASE FinishSearch(s)
    <2>1. prev_ids[s] \in Seq(Id) /\ token[s] \in Nat
        BY <1>0, BoundAssumption DEF TypeOK
    <2>2. Range(prev_ids[s]) \cap Search \subseteq {s}
        <3>1. BeamsOK(s) /\ ~Over(s)
            BY <1>0, <1>6 DEF FinishSearch, Over
        <3>2. CASE token[s] = 0
            BY <3>1, <3>2 DEF BeamsOK, Range
        <3>3. CASE token[s] = 1
            BY <3>1, <3>3 DEF BeamsOK, Range
        <3>4. CASE token[s] > 1
            BY <3>1, <3>4, SearchAssumption DEF BeamsOK, Range, Request
        <3>5. QED BY <2>1, <3>2, <3>3, <3>4
    <2>3. Over(s)'
        BY <1>0, <1>6 DEF FinishSearch, Over
    <2>4. wire' = wire \/ wire' = Append(wire, CleanupMessage(s, prev_ids[s]))
        BY <1>6 DEF FinishSearch, Cleanup
    <2>5. QED BY <1>3, <1>4, <2>1, <2>2, <2>3, <2>4
<1>7. CASE ReceiveError(s)
    <2>1. Over(s)'
        <3>1. pc' = [pc EXCEPT ![s] = "failed"]
            BY <1>7 DEF ReceiveError
        <3>2. QED BY <1>0, <3>1 DEF Over
    <2>2. wire' = wire \/ wire' = Append(wire, CleanupMessage(s, NewIds(s)))
        BY <1>7 DEF ReceiveError, Cleanup
    <2>3. QED BY <1>0, <1>3, <1>4, <2>1, <2>2, NewIdsType
<1>8. QED BY <1>1, <1>2, <1>5, <1>6, <1>7 DEF ClientStep

\* A step of a coroutine preserves the session invariant.
LEMMA ClientSession ==
    ASSUME SessionInv, NEW s \in Search, ClientStep(s) \/ CancelSearch(s)
    PROVE  SessionInv'
<1>1. TypeInv
    BY DEF SessionInv, SearchInv, TypeInv
<1>2. QED BY <1>1, ClientType, ClientOthers, ClientSelf, ClientSendsTruth
          DEF SessionInv, TypeInv

(***************************************************************************)
(* The session invariant: ordinary requests, the input thread, the engine. *)
(***************************************************************************)

\* Outside the coroutines nothing is over that was not, so a message stays
\* true unless it asks for a search whose cache entry goes.
LEMMA OthersKeepMessages ==
    ASSUME TypeOK, MessagesOK, UNCHANGED <<pc, token>>,
           \A s \in Search : OnWire(s) /\ s \in beam_cache => s \in beam_cache'
    PROVE  \A n \in Range(wire) : MessageOK(n)'
    BY MessagesKept DEF Over

\* Ordinary requests do not touch any search.
LEMMA PlainSession ==
    ASSUME SessionInv, NEW p \in Plain, PlainAdd(p) \/ PlainAbort(p)
    PROVE  SessionInv'
<1>0. TypeOK /\ MessagesOK /\ TypeInv
    BY DEF SessionInv, SearchInv, TypeInv
<1>1. /\ UNCHANGED <<pc, token, prev_ids, fork_info, reply, beam_cache, to_abort,
                     aborts_queue, input_queue, live, running, output_queue>>
      /\ registered' \in {registered \cup {p}, registered \ {p}}
    BY DEF PlainAdd, PlainAbort, client, thread, engine
<1>2. PICK kind \in {"ADD", "ABORT"} : wire' = Append(wire, Simple(kind, p))
    BY DEF PlainAdd, PlainAbort
<1>3. PICK m \in Message : m = Simple(kind, p)
    BY SimpleType DEF Request, Kind
<1>4. m.kind \in {"ADD", "ABORT"} /\ m.id = p /\ m.pruned = {}
    BY <1>3 DEF Simple
<1>5. wire \in Seq(Message) /\ wire' = Append(wire, m)
    BY <1>0, <1>2, <1>3 DEF TypeOK
<1>6. MessagesOK'
    <2>1. \A n \in Range(wire) : MessageOK(n)'
        BY <1>0, <1>1, OthersKeepMessages
    <2>2. MessageOK(m)'
        BY <1>4 DEF MessageOK
    <2>3. QED BY <1>5, <2>1, <2>2, SendKeepsMessages
<1>7. ASSUME NEW r \in Search PROVE SearchInv(r)'
    <2>1. r # p
        BY SearchAssumption
    <2>2. ~Asks(m, r)
        BY <1>4, <2>1 DEF Asks
    <2>3. (OnWire(r)' <=> OnWire(r)) /\ (OnceOnWire(r) => OnceOnWire(r)')
        BY <1>5, <2>2, Send
    <2>4. (Queued(r)' <=> Queued(r)) /\ (OnceQueued(r) => OnceQueued(r)')
        BY <1>1, SameQueue
    <2>5. SearchInv(r)
        BY DEF SessionInv
    <2>6. QED BY <1>1, <2>1, <2>3, <2>4, <2>5, SearchFrame
<1>8. TypeOK'
    BY <1>0, PlainType DEF TypeInv
<1>9. AbortsNamePlain' /\ OutputsAreAddressable'
    BY <1>1, SameQueue, SameOutputs DEF SessionInv
<1>10. QED BY <1>6, <1>7, <1>8, <1>9 DEF SessionInv

\* What the head of the wire says, and what the message leaves behind.
LEMMA HeadIsTrue ==
    ASSUME SessionInv, NEW kind, Arrives(kind)
    PROVE  MessageOK(Head(wire)) /\ Head(wire) \in Range(wire)
<1>1. wire \in Seq(Message) /\ wire # << >>
    BY ArrivesType DEF SessionInv
<1>2. 1 \in DOMAIN wire /\ wire[1] = Head(wire)
    BY <1>1, TailProperties
<1>3. QED BY <1>2 DEF SessionInv, MessagesOK, Range

\* A request that is accepted moves from the wire to the input queue.
LEMMA AcceptSession ==
    ASSUME SessionInv, TypeInv', NEW kind, Arrives(kind), NEW id,
           id = Head(wire).id, Asks(Head(wire), id),
           id \in Search => id \in beam_cache',
           beam_cache \subseteq beam_cache',
           input_queue' = Append(input_queue, <<"ADD", id>>),
           \A r \in Search : r \in to_abort' => Over(r),
           UNCHANGED <<pc, token, prev_ids, fork_info, reply, registered,
                       aborts_queue, live, output_queue>>
    PROVE  SessionInv'
<1>0. TypeOK /\ MessagesOK /\ AbortsNamePlain /\ id \in Request
    BY ArrivesType DEF SessionInv
<1>1. TypeOK' /\ OutputsAreAddressable'
    BY SameOutputs DEF TypeInv, SessionInv
<1>2. AbortsNamePlain'
    BY <1>0, Enqueue
<1>3. MessagesOK'
    <2>1. \A n \in Range(wire) : MessageOK(n)'
        BY <1>0, OthersKeepMessages
    <2>2. QED BY <1>0, <2>1, ReceiveKeepsMessages
<1>4. ASSUME NEW r \in Search, r # id PROVE SearchInv(r)'
    <2>1. ~Asks(Head(wire), r)
        BY <1>4 DEF Asks
    <2>2. (OnWire(r)' <=> OnWire(r)) /\ (OnceOnWire(r) => OnceOnWire(r)')
        BY <1>0, <2>1, Receive
    <2>3. (Queued(r)' <=> Queued(r)) /\ (OnceQueued(r) => OnceQueued(r)')
        BY <1>0, <1>4, Enqueue
    <2>4. SearchInv(r)
        BY DEF SessionInv
    <2>5. QED BY <2>2, <2>3, <2>4, SearchFrame
<1>5. ASSUME id \in Search PROVE SearchInv(id)'
    <2>1. /\ FlightOK(id) /\ AwaitOK(id) /\ CacheOK(id) /\ AbortOK(id)
          /\ CachedOnceAccepted(id)
        BY <1>5 DEF SessionInv, SearchInv
    <2>2. OnWire(id) /\ ~OnWire(id)' /\ OnceOnWire(id)'
        BY <1>0, <2>1, Receive DEF FlightOK
    <2>3. ~Queued(id) /\ id \notin live /\ ~Answered(id) /\ id \in registered
        BY <2>1, <2>2 DEF FlightOK
    <2>4. id \notin Plain
        BY <1>5, SearchAssumption
    <2>5. Queued(id)' /\ OnceQueued(id)'
        BY <1>0, <2>3, <2>4, Enqueue
    <2>6. FlightOK(id)'
        BY <2>1, <2>2, <2>3, <2>5, SameOutputs DEF FlightOK
    <2>7. AwaitOK(id)' /\ CacheOK(id)' /\ AbortOK(id)' /\ CachedOnceAccepted(id)'
        BY <1>5, <2>1 DEF AwaitOK, CacheOK, AbortOK, CachedOnceAccepted, Over
    <2>8. QED BY <1>5, <2>6, <2>7 DEF SearchInv, TypeInv
<1>6. QED BY <1>1, <1>2, <1>3, <1>4, <1>5 DEF SessionInv

\* A request whose preprocessing fails moves from the wire to the outputs.
LEMMA RejectSession ==
    ASSUME SessionInv, TypeInv', NEW kind \in {"ADD", "ADD_BATCH"},
           RejectRequest(kind), NEW id, id = Head(wire).id
    PROVE  SessionInv'
<1> DEFINE new == [id |-> id, reply |-> "error"]
<1>0. /\ Arrives(kind) /\ output_queue' = output_queue \cup {new}
      /\ UNCHANGED <<pc, token, prev_ids, fork_info, reply, registered, beam_cache,
                     to_abort, aborts_queue, input_queue, live>>
    BY DEF RejectRequest, ErrorOutput, client, thread
<1>1. TypeOK /\ MessagesOK /\ id \in Request /\ Asks(Head(wire), id)
    BY <1>0, ArrivesType DEF SessionInv, Asks
<1>2. TypeOK' /\ AbortsNamePlain'
    BY <1>0, SameQueue DEF TypeInv, SessionInv
<1>3. OutputsAreAddressable'
    BY <1>0, <1>1 DEF SessionInv, OutputsAreAddressable
<1>4. MessagesOK'
    <2>1. \A n \in Range(wire) : MessageOK(n)'
        BY <1>0, <1>1, OthersKeepMessages
    <2>2. QED BY <1>0, <1>1, <2>1, ReceiveKeepsMessages
<1>5. ASSUME NEW r \in Search, r # id PROVE SearchInv(r)'
    <2>1. ~Asks(Head(wire), r)
        BY <1>5 DEF Asks
    <2>2. (OnWire(r)' <=> OnWire(r)) /\ (OnceOnWire(r) => OnceOnWire(r)')
        BY <1>0, <1>1, <2>1, Receive
    <2>3. (Queued(r)' <=> Queued(r)) /\ (OnceQueued(r) => OnceQueued(r)')
        BY <1>0, SameQueue
    <2>4. {o \in output_queue' : o.id = r} = {o \in output_queue : o.id = r}
        BY <1>0, <1>5
    <2>5. SearchInv(r)
        BY DEF SessionInv
    <2>6. QED BY <1>0, <2>2, <2>3, <2>4, <2>5, SearchFrame
<1>6. ASSUME id \in Search PROVE SearchInv(id)'
    <2>1. /\ FlightOK(id) /\ AwaitOK(id) /\ CacheOK(id) /\ AbortOK(id)
          /\ CachedOnceAccepted(id)
        BY <1>6 DEF SessionInv, SearchInv
    <2>2. OnWire(id) /\ ~OnWire(id)' /\ OnceOnWire(id)'
        BY <1>0, <1>1, <2>1, Receive DEF FlightOK
    <2>3. ~Queued(id) /\ id \notin live /\ ~Answered(id) /\ id \in registered
        BY <2>1, <2>2 DEF FlightOK
    <2>4. Answered(id)' /\ OnceAnswered(id)'
        <3>1. new.id = id /\ new \in output_queue'
            BY <1>0
        <3>2. ASSUME NEW o \in output_queue', o.id = id PROVE o = new
            BY <1>0, <2>3, <3>2 DEF Answered
        <3>3. QED BY <3>1, <3>2 DEF Answered, OnceAnswered
    <2>5. FlightOK(id)'
        BY <1>0, <2>1, <2>2, <2>3, <2>4, SameQueue DEF FlightOK
    <2>6. ASSUME NEW o \in output_queue', o.id = id, o.reply # "error"
          PROVE  id \in beam_cache'
        BY <1>0, <2>3, <2>6 DEF Answered
    <2>7. AwaitOK(id)' /\ CacheOK(id)' /\ AbortOK(id)'
        BY <1>0, <2>1 DEF AwaitOK, CacheOK, AbortOK, Over
    <2>8. CachedOnceAccepted(id)'
        BY <1>0, <2>1, <2>6, SameQueue DEF CachedOnceAccepted, Over
    <2>9. BeamsOK(id)'
        BY <1>6 DEF TypeInv
    <2>10. QED BY <2>5, <2>7, <2>8, <2>9 DEF SearchInv
<1>7. QED BY <1>2, <1>3, <1>4, <1>5, <1>6 DEF SessionInv

\* A step of the input thread preserves the session invariant.
LEMMA ThreadSession ==
    ASSUME SessionInv, InputThread
    PROVE  SessionInv'
<1>0. TypeOK /\ MessagesOK /\ AbortsNamePlain /\ TypeInv /\ TypeInv'
    BY ThreadType DEF SessionInv, SearchInv, TypeInv
<1>1. ASSUME NEW kind \in {"ADD", "ADD_BATCH"}, NEW cached,
             AcceptRequest(kind, cached),
             Head(wire).id \in Search => Head(wire).id \in cached
      PROVE  SessionInv'
    <2>1. PICK id : id = Head(wire).id
        OBVIOUS
    <2>2. /\ Arrives(kind) /\ Asks(Head(wire), id) /\ to_abort = {}
          /\ input_queue' = Append(input_queue, <<"ADD", id>>)
          /\ beam_cache' = beam_cache \cup cached
          /\ UNCHANGED <<pc, token, prev_ids, fork_info, reply, registered, to_abort,
                         aborts_queue, live, output_queue>>
        BY <1>0, <1>1, <2>1, ArrivesType DEF AcceptRequest, Asks, client, engine
    <2>3. QED BY <1>0, <1>1, <2>1, <2>2, AcceptSession
<1>2. CASE HandleAdd
    <2>1. CASE AcceptRequest("ADD", {})
        <3>1. Head(wire).id \notin Search
            <4>1. MessageOK(Head(wire)) /\ Head(wire).kind = "ADD"
                BY <2>1, HeadIsTrue DEF AcceptRequest, Arrives
            <4>2. QED BY <4>1, SearchAssumption DEF MessageOK
        <3>2. QED BY <1>1, <2>1, <3>1
    <2>2. QED BY <1>0, <1>2, <2>1, RejectSession DEF HandleAdd
<1>3. CASE HandleAddBatch
    <2>1. CASE AcceptRequest("ADD_BATCH", {Head(wire).id})
        BY <1>1, <2>1
    <2>2. QED BY <1>0, <1>3, <2>1, RejectSession DEF HandleAddBatch
<1>4. CASE HandleCleanup
    <2>1. PICK m \in Message : m = Head(wire)
        BY <1>0, <1>4, ArrivesType DEF HandleCleanup
    <2>2. /\ Arrives("MEGA_REQUEST_STEP_UPDATE") /\ m.width = 0
          /\ m.kind = "MEGA_REQUEST_STEP_UPDATE"
          /\ beam_cache' = beam_cache \ {m.id} /\ to_abort' = {m.id} \cup m.pruned
          /\ UNCHANGED <<pc, token, prev_ids, fork_info, reply, registered,
                         aborts_queue, input_queue, live, output_queue>>
        BY <1>4, <2>1 DEF HandleCleanup, Arrives, client, engine
    <2>3. /\ m.id \in Search /\ Over(m.id)
          /\ \A r \in Search : r \in to_abort' => Over(r)
        BY <2>1, <2>2, HeadIsTrue DEF MessageOK
    <2>4. ~OnWire(m.id) /\ ~Queued(m.id) /\ m.id \notin live /\ ~Answered(m.id)
        BY <2>3 DEF SessionInv, SearchInv, CachedOnceAccepted, FlightOK
    <2>5. MessagesOK'
        <3>1. \A s \in Search : OnWire(s) /\ s \in beam_cache => s \in beam_cache'
            BY <2>2, <2>4
        <3>2. \A n \in Range(wire) : MessageOK(n)'
            BY <1>0, <2>2, <3>1, OthersKeepMessages
        <3>3. QED BY <1>0, <2>2, <3>2, ReceiveKeepsMessages
    <2>6. ASSUME NEW r \in Search PROVE SearchInv(r)'
        <3>1. ~Asks(Head(wire), r)
            BY <2>1, <2>2 DEF Asks
        <3>2. (OnWire(r)' <=> OnWire(r)) /\ (OnceOnWire(r) => OnceOnWire(r)')
            BY <1>0, <2>2, <3>1, Receive
        <3>3. /\ Queued(r)' <=> Queued(r)
              /\ OnceQueued(r)' <=> OnceQueued(r)
            BY <2>2, SameQueue
        <3>4. SearchInv(r)
            BY DEF SessionInv
        <3>5. CASE r # m.id
            BY <2>2, <2>3, <3>2, <3>3, <3>4, <3>5, SearchFrame
        <3>6. CASE r = m.id
            <4>1. BeamsOK(r)' /\ Over(r) /\ Over(r)' /\ pc' = pc
                BY <1>0, <2>2, <2>3, <3>6 DEF TypeInv, Over
            <4>2. FlightOK(r)'
                BY <2>2, <3>2, <3>3, <3>4, SameOutputs DEF SearchInv, FlightOK
            <4>3. AwaitOK(r)' /\ CacheOK(r)' /\ AbortOK(r)'
                BY <2>2, <4>1 DEF AwaitOK, CacheOK, AbortOK, Over
            <4>4. CachedOnceAccepted(r)'
                <5>1. r \notin registered
                    BY <3>4, <4>1 DEF SearchInv, CachedOnceAccepted
                <5>2. \A o \in output_queue' : o.id # r
                    BY <2>2, <2>4, <3>6 DEF Answered
                <5>3. QED BY <2>2, <2>4, <3>3, <3>6, <4>1, <5>1, <5>2
                          DEF CachedOnceAccepted, Over
            <4>5. QED BY <4>1, <4>2, <4>3, <4>4 DEF SearchInv
        <3>7. QED BY <3>5, <3>6
    <2>7. TypeOK' /\ AbortsNamePlain' /\ OutputsAreAddressable'
        BY <1>0, <2>2, SameQueue, SameOutputs DEF TypeInv, SessionInv
    <2>8. QED BY <2>5, <2>6, <2>7 DEF SessionInv
<1>5. CASE HandleStep
    <2>1. PICK m \in Message : m = Head(wire)
        BY <1>0, <1>5, ArrivesType DEF HandleStep
    <2>2. /\ Arrives("MEGA_REQUEST_STEP_UPDATE") /\ m.width > 0
          /\ m.kind = "MEGA_REQUEST_STEP_UPDATE"
        BY <1>5, <2>1 DEF HandleStep, Arrives
    <2>3. /\ WellFormed(m) /\ m.id \in beam_cache /\ Asks(m, m.id)
          /\ \A r \in Search : r \in m.pruned => Over(r)
        <3>1. MessageOK(m) /\ m.width # 0
            BY <2>1, <2>2, HeadIsTrue DEF Message
        <3>2. QED BY <2>2, <3>1 DEF MessageOK, Asks
    <2>4. /\ input_queue' = Append(input_queue, <<"ADD", m.id>>)
          /\ to_abort' = m.pruned /\ UNCHANGED output_queue
          /\ UNCHANGED <<pc, token, prev_ids, fork_info, reply, registered,
                         beam_cache, aborts_queue, live>>
        BY <1>5, <2>1, <2>3 DEF HandleStep, client
    <2>5. PICK id : id = m.id
        OBVIOUS
    <2>6. QED BY <1>0, <2>1, <2>2, <2>3, <2>4, <2>5, AcceptSession
<1>6. CASE PushAbort
    <2>1. /\ UNCHANGED <<pc, token, prev_ids, fork_info, reply, registered, wire,
                         beam_cache, input_queue, live, output_queue>>
          /\ to_abort' \cup aborts_queue' = to_abort \cup aborts_queue
        BY <1>6 DEF PushAbort, client, server, engine
    <2>2. MessagesOK'
        <3>1. \A n \in Range(wire) : MessageOK(n)'
            BY <1>0, <2>1, OthersKeepMessages
        <3>2. QED BY <2>1, <3>1 DEF MessagesOK, Range
    <2>3. ASSUME NEW r \in Search PROVE SearchInv(r)'
        <3>1. SearchInv(r)
            BY DEF SessionInv
        <3>2. /\ OnWire(r)' <=> OnWire(r)
              /\ OnceOnWire(r)' <=> OnceOnWire(r)
              /\ Queued(r)' <=> Queued(r)
              /\ OnceQueued(r)' <=> OnceQueued(r)
            BY <2>1, SameWire, SameQueue
        <3>3. QED BY <2>1, <3>1, <3>2, SearchFrame
    <2>4. TypeOK' /\ AbortsNamePlain' /\ OutputsAreAddressable'
        BY <1>0, <2>1, SameQueue, SameOutputs DEF TypeInv, SessionInv
    <2>5. QED BY <2>2, <2>3, <2>4 DEF SessionInv
<1>7. CASE HandleAbort
    <2>1. PICK m \in Message : m = Head(wire)
        BY <1>0, <1>7, ArrivesType DEF HandleAbort
    <2>2. /\ Arrives("ABORT") /\ m.kind = "ABORT"
          /\ input_queue' = Append(input_queue, <<"ABORT", m.id>>)
          /\ aborts_queue' = aborts_queue \cup {m.id}
          /\ UNCHANGED <<pc, token, prev_ids, fork_info, reply, registered,
                         beam_cache, to_abort, live, output_queue>>
        BY <1>7, <2>1 DEF HandleAbort, Arrives, client, engine
    <2>3. m.id \in Plain /\ m.id \notin Search /\ m.id \in Request
        BY <2>1, <2>2, HeadIsTrue, SearchAssumption DEF MessageOK, Request
    <2>4. MessagesOK'
        <3>1. \A n \in Range(wire) : MessageOK(n)'
            BY <1>0, <2>2, OthersKeepMessages
        <3>2. QED BY <1>0, <2>2, <3>1, ReceiveKeepsMessages
    <2>5. ASSUME NEW r \in Search PROVE SearchInv(r)'
        <3>1. ~Asks(Head(wire), r) /\ r # m.id
            BY <2>1, <2>2, <2>3 DEF Asks
        <3>2. (OnWire(r)' <=> OnWire(r)) /\ (OnceOnWire(r) => OnceOnWire(r)')
            BY <1>0, <2>2, <3>1, Receive
        <3>3. (Queued(r)' <=> Queued(r)) /\ (OnceQueued(r) => OnceQueued(r)')
            BY <1>0, <2>2, <2>3, <3>1, Enqueue
        <3>4. SearchInv(r)
            BY DEF SessionInv
        <3>5. QED BY <2>2, <3>1, <3>2, <3>3, <3>4, SearchFrame
    <2>6. AbortsNamePlain'
        BY <1>0, <2>2, <2>3, Enqueue
    <2>7. TypeOK' /\ OutputsAreAddressable'
        BY <1>0, <2>2, SameOutputs DEF TypeInv, SessionInv
    <2>8. QED BY <2>4, <2>5, <2>6, <2>7 DEF SessionInv
<1>8. QED BY <1>2, <1>3, <1>4, <1>5, <1>6, <1>7 DEF InputThread

\* A step of the engine core preserves the session invariant.
LEMMA EngineSession ==
    ASSUME SessionInv, EngineCore
    PROVE  SessionInv'
<1>0. TypeOK /\ MessagesOK /\ AbortsNamePlain /\ TypeInv' /\ TypeOK'
    BY EngineType DEF SessionInv, SearchInv, TypeInv
<1>1. \A r \in Search : SearchInv(r) /\ r \notin Plain
    BY SearchAssumption DEF SessionInv
<1>2. ASSUME wire' = wire, UNCHANGED <<pc, token, beam_cache>> PROVE MessagesOK'
    <2>1. \A n \in Range(wire) : MessageOK(n)'
        BY <1>0, <1>2, OthersKeepMessages
    <2>2. QED BY <1>2, <2>1 DEF MessagesOK, Range
<1>3. CASE DrainInput
    <2>1. /\ input_queue # << >> /\ input_queue' = Tail(input_queue)
          /\ live' = IF Head(input_queue)[1] = "ADD"
                     THEN live \cup {Head(input_queue)[2]}
                     ELSE live \ {Head(input_queue)[2]}
          /\ UNCHANGED <<pc, token, prev_ids, fork_info, reply, registered, wire,
                         beam_cache, to_abort, aborts_queue, output_queue>>
        BY <1>3 DEF DrainInput, client, server
    <2>2. PICK h \in {"ADD", "ABORT"} \X Request : h = Head(input_queue)
        BY <1>0, <2>1, Dequeue
    <2>3. h = <<h[1], h[2]>> /\ (h[1] = "ADD" \/ h[2] \in Plain)
        BY <1>0, <2>1, <2>2, Dequeue
    <2>4. ASSUME NEW r \in Search, h # <<"ADD", r>> PROVE SearchInv(r)'
        <3>1. r \in live' <=> r \in live
            BY <1>1, <2>1, <2>2, <2>3, <2>4
        <3>2. (Queued(r)' <=> Queued(r)) /\ (OnceQueued(r) => OnceQueued(r)')
            BY <1>0, <2>1, <2>2, <2>4, Dequeue
        <3>3. /\ OnWire(r)' <=> OnWire(r)
              /\ OnceOnWire(r)' <=> OnceOnWire(r)
            BY <2>1, SameWire
        <3>4. QED BY <1>1, <2>1, <3>1, <3>2, <3>3, SearchFrame
    <2>5. ASSUME NEW r \in Search, h = <<"ADD", r>> PROVE SearchInv(r)'
        <3>1. r \in live'
            BY <2>1, <2>2, <2>5
        <3>2. FlightOK(r) /\ AwaitOK(r) /\ CacheOK(r) /\ AbortOK(r)
              /\ CachedOnceAccepted(r)
            BY <1>1 DEF SearchInv
        <3>3. Queued(r) /\ ~Queued(r)' /\ OnceQueued(r)'
            BY <1>0, <2>1, <2>2, <2>5, <3>2, Dequeue DEF FlightOK
        <3>4. FlightOK(r)'
            BY <2>1, <3>1, <3>2, <3>3, SameWire, SameOutputs DEF FlightOK
        <3>5. AwaitOK(r)' /\ CacheOK(r)' /\ AbortOK(r)' /\ CachedOnceAccepted(r)'
            BY <2>1, <3>2, <3>3
            DEF AwaitOK, CacheOK, AbortOK, CachedOnceAccepted, Over
        <3>6. QED BY <1>0, <3>4, <3>5 DEF SearchInv, TypeInv
    <2>6. AbortsNamePlain' /\ OutputsAreAddressable'
        BY <1>0, <2>1, Dequeue, SameOutputs DEF SessionInv
    <2>7. QED BY <1>0, <1>2, <2>1, <2>4, <2>5, <2>6 DEF SessionInv
<1>4. CASE Schedule
    <2>1. UNCHANGED <<pc, token, prev_ids, fork_info, reply, registered, wire,
                      beam_cache, to_abort, aborts_queue, input_queue, live,
                      output_queue>>
        BY <1>4 DEF Schedule, client, server, thread
    <2>2. ASSUME NEW r \in Search PROVE SearchInv(r)'
        <3>1. /\ OnWire(r)' <=> OnWire(r)
              /\ OnceOnWire(r)' <=> OnceOnWire(r)
              /\ Queued(r)' <=> Queued(r)
              /\ OnceQueued(r)' <=> OnceQueued(r)
            BY <2>1, SameWire, SameQueue
        <3>2. QED BY <1>1, <2>1, <3>1, SearchFrame
    <2>3. AbortsNamePlain' /\ OutputsAreAddressable'
        BY <1>0, <2>1, SameQueue, SameOutputs DEF SessionInv
    <2>4. QED BY <1>0, <1>2, <2>1, <2>2, <2>3 DEF SessionInv
<1>5. CASE Update
    <2>1. PICK finished \in SUBSET (running \ aborts_queue) :
             \E answer \in [finished -> Answers] :
                UpdateFromOutput(finished, answer)
        BY <1>5 DEF Update
    <2>2. PICK answer \in [finished -> Answers] : UpdateFromOutput(finished, answer)
        BY <2>1
    <2>3. /\ live' = live \ (aborts_queue \cup finished) /\ aborts_queue' = {}
          /\ output_queue' = output_queue \cup
                 {[id |-> r, reply |-> answer[r]] : r \in finished}
          /\ UNCHANGED <<pc, token, prev_ids, fork_info, reply, registered, wire,
                         beam_cache, to_abort, input_queue>>
        BY <2>2 DEF UpdateFromOutput, client, server
    <2>4. finished \subseteq live /\ finished \subseteq Request
        BY <1>0, <2>1 DEF TypeOK
    <2>5. ASSUME NEW r \in Search, r \notin finished PROVE SearchInv(r)'
        <3>1. r \in aborts_queue => r \notin live
            BY <1>1 DEF SearchInv, AbortOK, CachedOnceAccepted, FlightOK
        <3>2. r \in live' <=> r \in live
            BY <2>3, <2>5, <3>1
        <3>3. {o \in output_queue' : o.id = r} = {o \in output_queue : o.id = r}
            BY <2>3, <2>5
        <3>4. /\ OnWire(r)' <=> OnWire(r)
              /\ OnceOnWire(r)' <=> OnceOnWire(r)
              /\ Queued(r)' <=> Queued(r)
              /\ OnceQueued(r)' <=> OnceQueued(r)
            BY <2>3, SameWire, SameQueue
        <3>5. QED BY <1>1, <2>3, <3>2, <3>3, <3>4, SearchFrame
    <2>6. ASSUME NEW r \in Search, r \in finished PROVE SearchInv(r)'
        <3>1. FlightOK(r) /\ AwaitOK(r) /\ CacheOK(r) /\ AbortOK(r)
              /\ CachedOnceAccepted(r)
            BY <1>1 DEF SearchInv
        <3>2. r \in live /\ r \notin live' /\ ~Answered(r) /\ ~OnWire(r) /\ ~Queued(r)
              /\ r \in registered /\ r \in beam_cache
            BY <2>3, <2>4, <2>6, <3>1 DEF FlightOK, CachedOnceAccepted
        <3>3. PICK new : new = [id |-> r, reply |-> answer[r]]
            OBVIOUS
        <3>4. Answered(r)' /\ OnceAnswered(r)'
            <4>1. new \in output_queue' /\ new.id = r
                BY <2>3, <2>6, <3>3
            <4>2. ASSUME NEW o \in output_queue', o.id = r PROVE o = new
                BY <2>3, <3>2, <3>3, <4>2 DEF Answered
            <4>3. QED BY <4>1, <4>2 DEF Answered, OnceAnswered
        <3>5. FlightOK(r)'
            BY <2>3, <3>1, <3>2, <3>4, SameWire, SameQueue DEF FlightOK
        <3>6. AwaitOK(r)' /\ CacheOK(r)' /\ AbortOK(r)' /\ CachedOnceAccepted(r)'
            BY <2>3, <3>1, <3>2
            DEF AwaitOK, CacheOK, AbortOK, CachedOnceAccepted, Over
        <3>7. QED BY <1>0, <3>5, <3>6 DEF SearchInv, TypeInv
    <2>7. OutputsAreAddressable'
        BY <2>3, <2>4 DEF SessionInv, OutputsAreAddressable
    <2>8. QED BY <1>0, <1>2, <2>3, <2>5, <2>6, <2>7, SameQueue DEF SessionInv
<1>6. CASE DeliverOutput
    <2>1. PICK o \in output_queue :
              /\ output_queue' = output_queue \ {o}
              /\ registered' = registered \ {o.id}
              /\ reply' = IF o.id \in registered \cap Search
                          THEN [reply EXCEPT ![o.id] = o.reply] ELSE reply
              /\ UNCHANGED <<pc, token, prev_ids, fork_info, sent, wire, thread,
                             live, running>>
        BY <1>6 DEF DeliverOutput
    <2>2. /\ UNCHANGED <<beam_cache, to_abort, aborts_queue, input_queue>>
          /\ reply \in [Search -> Reply \cup {"none"}] /\ o.reply \in Reply
        BY <1>0, <2>1 DEF thread, TypeOK
    <2>3. ASSUME NEW r \in Search
          PROVE  /\ OnWire(r)' <=> OnWire(r)
                 /\ OnceOnWire(r)' <=> OnceOnWire(r)
                 /\ Queued(r)' <=> Queued(r)
                 /\ OnceQueued(r)' <=> OnceQueued(r)
        BY <2>1, <2>2, SameWire, SameQueue
    <2>4. ASSUME NEW r \in Search, r # o.id PROVE SearchInv(r)'
        <3>1. reply'[r] = reply[r] /\ (r \in registered' <=> r \in registered)
            BY <2>1, <2>2, <2>4
        <3>2. {q \in output_queue' : q.id = r} = {q \in output_queue : q.id = r}
            BY <2>1, <2>4
        <3>3. QED BY <1>1, <2>1, <2>2, <2>3, <3>1, <3>2, SearchFrame
    <2>5. ASSUME NEW r \in Search, r = o.id PROVE SearchInv(r)'
        <3>1. FlightOK(r) /\ AwaitOK(r) /\ CacheOK(r) /\ AbortOK(r)
              /\ CachedOnceAccepted(r)
            BY <1>1 DEF SearchInv
        <3>2. Answered(r) /\ r \in registered /\ r \notin registered'
              /\ ~OnWire(r) /\ ~Queued(r) /\ r \notin live
              /\ reply'[r] = o.reply
            BY <2>1, <2>2, <2>5, <3>1 DEF FlightOK, Answered
        <3>3. \A q \in output_queue' : q.id # r
            BY <2>1, <2>5, <3>1 DEF FlightOK, OnceAnswered
        <3>4. ~Answered(r)' /\ OnceAnswered(r)'
            BY <3>3 DEF Answered, OnceAnswered
        <3>5. FlightOK(r)'
            BY <2>1, <2>3, <3>1, <3>2, <3>4 DEF FlightOK
        <3>6. AwaitOK(r)' /\ CacheOK(r)' /\ AbortOK(r)'
            BY <2>1, <2>2, <3>1, <3>2 DEF AwaitOK, CacheOK, AbortOK, Over, Reply
        <3>7. o.reply # "error" => r \in beam_cache
            BY <2>5, <3>1 DEF CachedOnceAccepted
        <3>8. CachedOnceAccepted(r)'
            BY <2>1, <2>2, <2>3, <3>1, <3>2, <3>3, <3>7
            DEF CachedOnceAccepted, Over
        <3>9. QED BY <1>0, <3>5, <3>6, <3>8 DEF SearchInv, TypeInv
    <2>6. OutputsAreAddressable'
        BY <2>1 DEF SessionInv, OutputsAreAddressable
    <2>7. QED BY <1>0, <1>2, <2>1, <2>2, <2>4, <2>5, <2>6, SameQueue DEF SessionInv
<1>7. QED BY <1>3, <1>4, <1>5, <1>6 DEF EngineCore

(***************************************************************************)
(* The theorems.                                                           *)
(***************************************************************************)

\* At the start nothing is under way.
LEMMA SessionInit == Init => SessionInv
<1>1. SUFFICES ASSUME Init PROVE SessionInv
    OBVIOUS
<1>2. TypeOK /\ \A s \in Search : BeamsOK(s)
    BY <1>1, TypeInit DEF TypeInv
<1>3. /\ wire = << >> /\ input_queue = << >> /\ output_queue = {}
      /\ live = {} /\ registered = {} /\ to_abort = {} /\ aborts_queue = {}
      /\ pc = [s \in Search |-> "loop"] /\ token = [s \in Search |-> 0]
      /\ reply = [s \in Search |-> "none"]
    BY <1>1 DEF Init
<1>4. MessagesOK /\ AbortsNamePlain /\ OutputsAreAddressable
    BY <1>3 DEF MessagesOK, AbortsNamePlain, OutputsAreAddressable
<1>5. ASSUME NEW s \in Search PROVE FlightOK(s)
    BY <1>3 DEF FlightOK, OnWire, OnceOnWire, Queued, OnceQueued, Answered,
                OnceAnswered
<1>6. ASSUME NEW s \in Search
      PROVE  AwaitOK(s) /\ CacheOK(s) /\ AbortOK(s) /\ CachedOnceAccepted(s)
    BY <1>3 DEF AwaitOK, CacheOK, AbortOK, CachedOnceAccepted, Over, Queued
<1>7. QED BY <1>2, <1>4, <1>5, <1>6 DEF SessionInv, SearchInv

\* A stuttering step changes nothing the invariant speaks of.
LEMMA SessionStutter ==
    ASSUME SessionInv, UNCHANGED vars
    PROVE  SessionInv'
<1>1. UNCHANGED <<pc, token, prev_ids, fork_info, reply, registered, sent, wire,
                  beam_cache, to_abort, aborts_queue, input_queue, live, running,
                  output_queue>>
    BY DEF vars, client, server, thread, engine
<1>2. TypeOK' /\ MessagesOK'
    <2>1. TypeOK' = TypeOK
        BY <1>1 DEF TypeOK
    <2>2. \A n \in Range(wire) : MessageOK(n)'
        BY <1>1, OthersKeepMessages DEF SessionInv
    <2>3. QED BY <1>1, <2>1, <2>2 DEF SessionInv, MessagesOK, Range
<1>3. ASSUME NEW r \in Search PROVE SearchInv(r)'
    <2>1. /\ OnWire(r)' <=> OnWire(r)
          /\ OnceOnWire(r)' <=> OnceOnWire(r)
          /\ Queued(r)' <=> Queued(r)
          /\ OnceQueued(r)' <=> OnceQueued(r)
        BY <1>1, SameWire, SameQueue
    <2>2. SearchInv(r)
        BY DEF SessionInv
    <2>3. QED BY <1>1, <2>1, <2>2, SearchFrame
<1>4. AbortsNamePlain' /\ OutputsAreAddressable'
    BY <1>1, SameQueue, SameOutputs DEF SessionInv
<1>5. QED BY <1>2, <1>3, <1>4 DEF SessionInv

\* SessionInv is inductive: no step of any search, of the front end, of the
\* input thread or of the engine leads out of it.
THEOREM SessionInvariant == Spec => []SessionInv
<1>1. SessionInv /\ [Next]_vars => SessionInv'
    <2>1. SUFFICES ASSUME SessionInv, [Next]_vars PROVE SessionInv'
        OBVIOUS
    <2>2. ASSUME NEW s \in Search, ClientStep(s) \/ CancelSearch(s) PROVE SessionInv'
        BY <2>1, <2>2, ClientSession
    <2>3. ASSUME NEW p \in Plain, PlainAdd(p) \/ PlainAbort(p) PROVE SessionInv'
        BY <2>1, <2>3, PlainSession
    <2>4. CASE InputThread
        BY <2>1, <2>4, ThreadSession
    <2>5. CASE EngineCore
        BY <2>1, <2>5, EngineSession
    <2>6. CASE Terminated
        BY <2>1, <2>6, SessionStutter DEF Terminated
    <2>7. CASE UNCHANGED vars
        BY <2>1, <2>7, SessionStutter
    <2>8. QED BY <2>1, <2>2, <2>3, <2>4, <2>5, <2>6, <2>7 DEF Next
<1>2. QED BY <1>1, SessionInit, PTL DEF Spec

\* Every variable keeps its type.
THEOREM TypeCorrect == Spec => []TypeOK
<1>1. SessionInv => TypeOK
    BY DEF SessionInv
<1>2. QED BY <1>1, SessionInvariant, PTL

\* There is never a second request under a session id, and the id is
\* registered exactly while there is one.
THEOREM SessionIdsAreSingleFlight == Spec => []SingleFlight
<1>1. SessionInv => SingleFlight
    BY DEF SessionInv, SearchInv, SingleFlight
<1>2. QED BY <1>1, SessionInvariant, PTL

\* A search that awaits a step has that step, or its answer, under way.
THEOREM NoLostStep == Spec => []AwaitedIsInFlight
<1>1. SessionInv => AwaitedIsInFlight
    BY DEF SessionInv, SearchInv, AwaitedIsInFlight
<1>2. QED BY <1>1, SessionInvariant, PTL

\* The prefill entry a search's steps are rebuilt from is there from its first
\* answer to its end.
THEOREM CacheIsThere == Spec => []CacheCoversSession
<1>1. SessionInv => CacheCoversSession
    BY DEF SessionInv, SearchInv, CacheCoversSession
<1>2. QED BY <1>1, SessionInvariant, PTL

\* No abort the protocol sends ever hits a search that is still going.
THEOREM AbortsAreSafe == Spec => []AbortsSpareTheAwaited
<1>1. SessionInv => AbortsSpareTheAwaited
    BY DEF SessionInv, SearchInv, AbortsSpareTheAwaited
<1>2. QED BY <1>1, SessionInvariant, PTL

\* No output is addressed to the id of a branch: the handler's two rejecting
\* branches are dead code under this client.
THEOREM NobodyIsRejected == Spec => []OutputsAreAddressable
<1>1. SessionInv => OutputsAreAddressable
    BY DEF SessionInv
<1>2. QED BY <1>1, SessionInvariant, PTL

\* An entry appears with the prefill of its search only and disappears with
\* the cleanup of its search only.
THEOREM CacheDiscipline == Spec => CacheFollowsItsSearch
<1> DEFINE Follows(s) ==
              /\ s \in beam_cache \ beam_cache' => pc[s] \in {"done", "failed"}
              /\ s \in beam_cache' \ beam_cache =>
                    pc[s] \in {"await", "cancelled"} /\ token[s] = 0
           Step == \A s \in Search : Follows(s)
<1>1. SessionInv /\ [Next]_vars => [Step]_vars
    <2>1. SUFFICES ASSUME SessionInv, [Next]_vars PROVE Step
        OBVIOUS
    <2>2. CASE beam_cache' = beam_cache
        BY <2>2
    <2>3. CASE AcceptRequest("ADD_BATCH", {Head(wire).id})
        <3>1. PICK m : m = Head(wire)
            OBVIOUS
        <3>2. MessageOK(m) /\ m.kind = "ADD_BATCH" /\ beam_cache' = beam_cache \cup {m.id}
            BY <2>1, <2>3, <3>1, HeadIsTrue DEF AcceptRequest, Arrives
        <3>3. QED BY <3>2 DEF MessageOK
    <2>4. CASE HandleCleanup
        <3>1. PICK m : m = Head(wire)
            OBVIOUS
        <3>2. /\ MessageOK(m) /\ m.kind = "MEGA_REQUEST_STEP_UPDATE" /\ m.width = 0
              /\ beam_cache' = beam_cache \ {m.id}
            BY <2>1, <2>4, <3>1, HeadIsTrue DEF HandleCleanup, Arrives
        <3>3. QED BY <3>2 DEF MessageOK, Over
    <2>5. ASSUME NEW s \in Search, ClientStep(s) \/ CancelSearch(s)
          PROVE  beam_cache' = beam_cache
        BY <2>1, <2>5, ClientFrame DEF thread
    <2>6. ASSUME NEW p \in Plain, PlainAdd(p) \/ PlainAbort(p)
          PROVE  beam_cache' = beam_cache
        BY <2>6 DEF PlainAdd, PlainAbort, thread
    <2>7. CASE EngineCore
        <3>1. CASE DrainInput
            BY <2>2, <3>1 DEF DrainInput
        <3>2. CASE Schedule
            BY <2>2, <3>2 DEF Schedule, thread
        <3>3. CASE Update
            BY <2>2, <3>3 DEF Update, UpdateFromOutput
        <3>4. CASE DeliverOutput
            BY <2>2, <3>4 DEF DeliverOutput, thread
        <3>5. QED BY <2>7, <3>1, <3>2, <3>3, <3>4 DEF EngineCore
    <2>8. CASE InputThread
        <3>1. CASE HandleAdd
            <4>1. beam_cache' = beam_cache
                BY <3>1 DEF HandleAdd, AcceptRequest, RejectRequest, thread
            <4>2. QED BY <2>2, <4>1
        <3>2. CASE HandleAddBatch
            <4>1. CASE RejectRequest("ADD_BATCH")
                BY <2>2, <4>1 DEF RejectRequest, thread
            <4>2. QED BY <2>3, <3>2, <4>1 DEF HandleAddBatch
        <3>3. CASE HandleStep
            BY <2>2, <3>3 DEF HandleStep
        <3>4. CASE PushAbort
            BY <2>2, <3>4 DEF PushAbort
        <3>5. CASE HandleAbort
            BY <2>2, <3>5 DEF HandleAbort
        <3>6. QED BY <2>4, <2>8, <3>1, <3>2, <3>3, <3>4, <3>5 DEF InputThread
    <2>9. CASE Terminated \/ UNCHANGED vars
        BY <2>2, <2>9 DEF Terminated, vars, thread
    <2>10. QED BY <2>1, <2>2, <2>5, <2>6, <2>7, <2>8, <2>9 DEF Next
<1>2. QED BY <1>1, SessionInvariant, PTL DEF Spec, CacheFollowsItsSearch

-----------------------------------------------------------------------------
(* MegaSession implements SessionService. *)

\* What SessionInv says of a waiting search also holds after it is cancelled:
\* a question still being worked on has no answer waiting, and past the first
\* answer the prefill entry is there.
Pending ==
    \A s \in Search :
        /\ s \in registered => reply[s] = "none"
        /\ pc[s] = "cancelled" /\ token[s] > 0 => s \in beam_cache

\* What a step must leave alone not to be seen by the service's users.
Unseen ==
    /\ pc' = pc /\ token' = token /\ reply' = reply /\ beam_cache' = beam_cache
    /\ registered' \cap Search = registered \cap Search

LEMMA UnseenStutters == Unseen => UNCHANGED Service!vars
BY DEF Unseen, Service!vars

LEMMA UnseenKeepsPending == Pending /\ Unseen => Pending'
BY DEF Pending, Unseen

----------------------------------------------------------------------------
(* The steps of a search.                                                  *)

LEMMA AskStep ==
    ASSUME SessionInv, NEW s \in Search, AddBatchStep(s) \/ MegaRequestStep(s)
    PROVE  Service!Ask(s) /\ (Pending => Pending')
<1>1. /\ pc[s] = "loop" /\ token[s] < NumSteps
      /\ pc' = [pc EXCEPT ![s] = "await"]
      /\ registered' = registered \cup {s}
      /\ UNCHANGED <<token, reply, beam_cache>>
    <2>1. CASE AddBatchStep(s)
        BY <2>1 DEF AddBatchStep, Submit, thread
    <2>2. CASE MegaRequestStep(s)
        <3>1. token[s] < NumSteps
            BY <2>2, BoundAssumption DEF MegaRequestStep
        <3>2. QED BY <2>2, <3>1 DEF MegaRequestStep, Submit, thread
    <2>3. QED BY <2>1, <2>2
<1>2. s \notin registered /\ reply[s] = "none" /\ (token[s] > 0 => s \in beam_cache)
    BY <1>1 DEF SessionInv, SearchInv, AwaitOK, CacheOK
<1>3. registered' \cap Search = (registered \cap Search) \cup {s}
    BY <1>1
<1>4. Service!Ask(s)
    BY <1>1, <1>2, <1>3 DEF Service!Ask
<1>5. Pending => Pending'
    BY <1>1, <1>2 DEF Pending
<1>6. QED BY <1>4, <1>5

LEMMA LeaveStep ==
    ASSUME SessionInv, NEW s \in Search, FinishSearch(s) \/ NoBeamsLeft(s)
    PROVE  Service!Leave(s) /\ (Pending => Pending')
<1>1. /\ pc[s] = "loop"
      /\ \/ token[s] = NumSteps /\ pc' = [pc EXCEPT ![s] = "done"]
         \/ token[s] \in 1..(NumSteps - 1) /\ pc' = [pc EXCEPT ![s] = "failed"]
      /\ UNCHANGED <<token, reply, registered, beam_cache>>
    <2>1. CASE FinishSearch(s)
        BY <2>1 DEF FinishSearch, thread
    <2>2. CASE NoBeamsLeft(s)
        BY <2>2 DEF NoBeamsLeft, thread, server
    <2>3. QED BY <2>1, <2>2
<1>2. Service!Leave(s)
    BY <1>1 DEF Service!Leave
<1>3. pc \in [Search -> {"loop", "await"} \cup Final]
    BY DEF SessionInv, TypeOK
<1>4. QED BY <1>1, <1>2, <1>3 DEF Pending

LEMMA TakeStep ==
    ASSUME SessionInv, NEW s \in Search, ReceiveStep(s)
    PROVE  Service!Take(s) /\ (Pending => Pending')
<1>1. /\ pc[s] = "await" /\ reply[s] \in {"ok", "nologprobs"}
      /\ pc' = [pc EXCEPT ![s] = "loop"]
      /\ token' = [token EXCEPT ![s] = @ + 1]
      /\ reply' = [reply EXCEPT ![s] = "none"]
      /\ UNCHANGED <<registered, beam_cache>>
    BY DEF ReceiveStep, server, thread
<1>2. reply \in [Search -> Reply \cup {"none"}]
    BY DEF SessionInv, TypeOK
<1>3. Service!Take(s)
    BY <1>1 DEF Service!Take
<1>4. QED BY <1>1, <1>2, <1>3 DEF Pending

LEMMA TakeErrorStep ==
    ASSUME SessionInv, NEW s \in Search, ReceiveError(s)
    PROVE  Service!TakeError(s) /\ (Pending => Pending')
<1>1. /\ pc[s] = "await" /\ reply[s] = "error"
      /\ pc' = [pc EXCEPT ![s] = "failed"]
      /\ reply' = [reply EXCEPT ![s] = "none"]
      /\ UNCHANGED <<token, registered, beam_cache>>
    BY DEF ReceiveError, thread
<1>2. reply \in [Search -> Reply \cup {"none"}]
    BY DEF SessionInv, TypeOK
<1>3. Service!TakeError(s)
    BY <1>1 DEF Service!TakeError
<1>4. QED BY <1>1, <1>2, <1>3 DEF Pending

LEMMA CancelStep ==
    ASSUME SessionInv, NEW s \in Search, CancelSearch(s)
    PROVE  Service!Cancel(s) /\ (Pending => Pending')
<1>1. /\ pc[s] = "await" /\ pc' = [pc EXCEPT ![s] = "cancelled"]
      /\ UNCHANGED <<token, reply, registered, beam_cache>>
    BY DEF CancelSearch, server, thread
<1>2. Service!Cancel(s)
    BY <1>1 DEF Service!Cancel
<1>3. token[s] > 0 => s \in beam_cache
    BY <1>1 DEF SessionInv, SearchInv, CacheOK
<1>4. pc \in [Search -> {"loop", "await"} \cup Final]
    BY DEF SessionInv, TypeOK
<1>5. QED BY <1>1, <1>2, <1>3, <1>4 DEF Pending

----------------------------------------------------------------------------
(* The steps of the input thread and of the engine.                        *)

LEMMA PlainUnseen ==
    ASSUME NEW p \in Plain, PlainAdd(p) \/ PlainAbort(p)
    PROVE  Unseen
<1>1. p \notin Search
    BY SearchAssumption
<1>2. /\ registered' = registered \cup {p} \/ registered' = registered \ {p}
      /\ UNCHANGED <<pc, token, reply, beam_cache>>
    BY DEF PlainAdd, PlainAbort, client, thread
<1>3. QED BY <1>1, <1>2 DEF Unseen

LEMMA KeepStep ==
    ASSUME SessionInv, AcceptRequest("ADD_BATCH", {Head(wire).id})
    PROVE  \/ Unseen
           \/ \E s \in Search : Service!Keep(s) /\ (Pending => Pending')
<1>1. PICK m : m = Head(wire)
    OBVIOUS
<1>2. /\ MessageOK(m) /\ m.kind = "ADD_BATCH" /\ wire # << >>
      /\ beam_cache' = beam_cache \cup {m.id}
      /\ UNCHANGED <<pc, token, reply, registered>>
    BY <1>1, HeadIsTrue DEF AcceptRequest, Arrives, client
<1>3. /\ m.id \in Search /\ token[m.id] = 0
      /\ pc[m.id] \in {"await", "cancelled"}
    BY <1>2 DEF MessageOK
<1>4. m.id \in registered
    <2>1. wire \in Seq(Message)
        BY DEF SessionInv, TypeOK
    <2>2. 1 \in DOMAIN wire /\ wire[1] = m
        BY <1>1, <1>2, <2>1
    <2>3. OnWire(m.id)
        BY <1>2, <2>2 DEF OnWire, Asks
    <2>4. QED BY <1>3, <2>3 DEF SessionInv, SearchInv, FlightOK
<1>5. CASE m.id \in beam_cache
    BY <1>2, <1>5 DEF Unseen
<1>6. CASE m.id \notin beam_cache
    <2>1. Service!Keep(m.id)
        BY <1>2, <1>3, <1>4, <1>6 DEF Service!Keep
    <2>2. QED BY <1>2, <1>3, <2>1 DEF Pending
<1>7. QED BY <1>5, <1>6

LEMMA PurgeStep ==
    ASSUME SessionInv, HandleCleanup
    PROVE  \/ Unseen
           \/ \E s \in Search : Service!Purge(s) /\ (Pending => Pending')
<1>1. PICK m : m = Head(wire)
    OBVIOUS
<1>2. /\ MessageOK(m) /\ m.kind = "MEGA_REQUEST_STEP_UPDATE" /\ m.width = 0
      /\ beam_cache' = beam_cache \ {m.id}
      /\ UNCHANGED <<pc, token, reply, registered>>
    BY <1>1, HeadIsTrue DEF HandleCleanup, Arrives, client
<1>3. m.id \in Search /\ Over(m.id)
    BY <1>2 DEF MessageOK
<1>4. m.id \notin registered
    BY <1>3 DEF SessionInv, SearchInv, CachedOnceAccepted
<1>5. CASE m.id \notin beam_cache
    BY <1>2, <1>5 DEF Unseen
<1>6. CASE m.id \in beam_cache
    <2>1. Service!Purge(m.id)
        BY <1>2, <1>3, <1>4, <1>6 DEF Service!Purge, Over
    <2>2. QED BY <1>2, <1>3, <2>1 DEF Pending, Over
<1>7. QED BY <1>5, <1>6

LEMMA ThreadSteps ==
    ASSUME SessionInv, InputThread
    PROVE  \/ Unseen
           \/ \E s \in Search :
                 Service!Serve(s) /\ (Pending => Pending')
<1>1. CASE HandleAdd
    BY <1>1 DEF HandleAdd, AcceptRequest, RejectRequest, client, thread, Unseen
<1>2. CASE HandleAddBatch
    <2>1. CASE RejectRequest("ADD_BATCH")
        BY <2>1 DEF RejectRequest, client, thread, Unseen
    <2>2. CASE AcceptRequest("ADD_BATCH", {Head(wire).id})
        BY <2>2, KeepStep DEF Service!Serve
    <2>3. QED BY <1>2, <2>1, <2>2 DEF HandleAddBatch
<1>3. CASE HandleCleanup
    BY <1>3, PurgeStep DEF Service!Serve
<1>4. CASE HandleStep
    BY <1>4 DEF HandleStep, client, Unseen
<1>5. CASE PushAbort
    BY <1>5 DEF PushAbort, client, server, Unseen
<1>6. CASE HandleAbort
    BY <1>6 DEF HandleAbort, client, Unseen
<1>7. QED BY <1>1, <1>2, <1>3, <1>4, <1>5, <1>6 DEF InputThread

\* An output is delivered to a search that is registered and hence waits, or
\* to nobody.
LEMMA RespondStep ==
    ASSUME SessionInv, Pending, DeliverOutput
    PROVE  \/ Unseen
           \/ \E s \in Search : Service!Respond(s) /\ Pending'
<1>1. PICK o \in output_queue :
          /\ registered' = registered \ {o.id}
          /\ reply' = IF o.id \in registered \cap Search
                      THEN [reply EXCEPT ![o.id] = o.reply] ELSE reply
          /\ UNCHANGED <<pc, token, beam_cache>>
    BY DEF DeliverOutput, thread
<1>2. CASE o.id \notin registered \cap Search
    BY <1>1, <1>2 DEF Unseen
<1>3. CASE o.id \in registered \cap Search
    <2>1. PICK s \in Search : s = o.id
        BY <1>3
    <2>2. /\ reply \in [Search -> Reply \cup {"none"}]
          /\ pc[s] \in {"loop", "await"} \cup Final
          /\ token[s] \in Nat
          /\ o.reply \in Reply
        BY BoundAssumption DEF SessionInv, TypeOK
    <2>3. SearchInv(s)
        BY DEF SessionInv
    <2>4. pc[s] \in {"await", "cancelled"}
        BY <1>3, <2>1, <2>2, <2>3
           DEF SearchInv, AwaitOK, CachedOnceAccepted, Over, Final
    <2>5. reply[s] = "none"
        BY <1>3, <2>1 DEF Pending
    <2>6. s \in beam_cache \/ (o.reply = "error" /\ token[s] = 0)
        <3>1. CASE o.reply # "error"
            BY <1>1, <2>1, <2>3, <3>1 DEF SearchInv, CachedOnceAccepted
        <3>2. CASE o.reply = "error" /\ token[s] > 0
            BY <2>3, <2>4, <3>2 DEF Pending, SearchInv, CacheOK
        <3>3. QED BY <2>2, <3>1, <3>2
    <2>7. Service!Respond(s)
        BY <1>1, <1>3, <2>1, <2>2, <2>4, <2>5, <2>6
           DEF Service!Respond, Reply
    <2>8. Pending'
        BY <1>1, <2>1, <2>2 DEF Pending
    <2>9. QED BY <2>7, <2>8
<1>4. QED BY <1>2, <1>3

LEMMA EngineSteps ==
    ASSUME SessionInv, Pending, EngineCore
    PROVE  \/ Unseen
           \/ \E s \in Search : Service!Serve(s) /\ Pending'
<1>1. CASE DrainInput
    BY <1>1 DEF DrainInput, client, server, Unseen
<1>2. CASE Schedule
    BY <1>2 DEF Schedule, client, server, thread, Unseen
<1>3. CASE Update
    BY <1>3 DEF Update, UpdateFromOutput, client, server, Unseen
<1>4. CASE DeliverOutput
    BY <1>4, RespondStep DEF Service!Serve
<1>5. QED BY <1>1, <1>2, <1>3, <1>4 DEF EngineCore

----------------------------------------------------------------------------
(* Every step is one of the service's or is not seen.                      *)

LEMMA InitMaps == Init => Service!Init /\ Pending
<1>1. SUFFICES ASSUME Init PROVE Service!Init /\ Pending
    OBVIOUS
<1>2. registered \cap Search = {}
    BY <1>1 DEF Init
<1>3. Service!Init
    BY <1>1, <1>2 DEF Init, Service!Init
<1>4. QED BY <1>1, <1>3 DEF Init, Pending

LEMMA StepMaps ==
    SessionInv /\ Pending /\ [Next]_vars
        => [Service!Next]_(Service!vars) /\ Pending'
<1>1. SUFFICES ASSUME SessionInv, Pending, [Next]_vars
               PROVE  \/ Unseen
                      \/ \E s \in Search : Service!Serve(s) /\ Pending'
    BY UnseenStutters, UnseenKeepsPending DEF Service!Next
<1>2. CASE \E s \in Search : ClientStep(s) \/ CancelSearch(s)
    BY <1>1, <1>2, AskStep, LeaveStep, TakeStep, TakeErrorStep, CancelStep
       DEF ClientStep, Service!Serve
<1>3. CASE \E p \in Plain : PlainAdd(p) \/ PlainAbort(p)
    BY <1>3, PlainUnseen
<1>4. CASE InputThread
    BY <1>1, <1>4, ThreadSteps
<1>5. CASE EngineCore
    BY <1>1, <1>5, EngineSteps
<1>6. CASE UNCHANGED vars
    BY <1>6 DEF vars, client, server, thread, Unseen
<1>7. QED BY <1>1, <1>2, <1>3, <1>4, <1>5, <1>6 DEF Next, Terminated

\* What every message, queue and id of the protocol amounts to for a search:
\* at most one question at a time, answered once, from its own prefill entry.
THEOREM Implementation == Spec => ImplementsService
<1>1. Init => Service!Init /\ Pending
    BY InitMaps
<1>2. SessionInv /\ Pending /\ [Next]_vars
        => [Service!Next]_(Service!vars) /\ Pending'
    BY StepMaps
<1>3. Spec => []SessionInv
    BY SessionInvariant
<1>4. QED BY <1>1, <1>2, <1>3, PTL DEF Spec, ImplementsService, Service!Spec

=============================================================================
