----------------------------- MODULE MegaSession -----------------------------
(***************************************************************************)
(* The life of an online beam search and of its beam-cache entry, from the *)
(* coroutine in the API server through the input thread of the engine core *)
(* to the scheduler and back.                                              *)
(*                                                                         *)
(*   client         serving_engine.beam_search, _add_batch_step,           *)
(*                  _mega_request_step, _mega_request_cleanup and the      *)
(*                  AsyncLLM methods they call                             *)
(*   input thread   core.process_input_sockets,                            *)
(*                  core._handle_mega_request_step_update                  *)
(*   engine         vLLM's busy loop and scheduler (external)              *)
(*                                                                         *)
(* A search is named by the id of its prefill request (prefill_id), which  *)
(* is also the id of every mega request it sends.  <<s, t, b>> is the      *)
(* child id "{request_id}-{uuid}-beam-{b}" of iteration t: the fresh uuid  *)
(* of an iteration is its number.                                          *)
(***************************************************************************)
EXTENDS Naturals, Sequences, Functions

CONSTANTS
    Search,     \* beam searches, each named by its prefill request id
    Plain,      \* ordinary requests that share the engine
    BeamWidth,  \* params.beam_width
    NumSteps,   \* max_tokens - pre_calc, the iterations of the search loop
    Faults      \* what may go wrong besides the protocol itself

AllFaults == {"preproc", "error", "nologprobs", "cancel"}

Beams == 1..BeamWidth
ChildId == Search \X (0..NumSteps) \X Beams
Request == Search \cup Plain
Id == Request \cup ChildId

ASSUME SearchAssumption == /\ Search \cap Plain = {}
                           /\ Request \cap ChildId = {}
ASSUME BoundAssumption == BeamWidth \in Nat \ {0} /\ NumSteps \in Nat
ASSUME FaultAssumption == Faults \subseteq AllFaults

VARIABLES
    \* the coroutine of each search
    pc,             \* "loop", "await", or how it ended
    token,          \* the loop variable
    prev_ids,       \* prev_beam_internal_ids
    fork_info,      \* parent index of every current beam
    reply,          \* the finished output waiting in the search's queue
    \* the API server
    registered,     \* request ids known to the OutputProcessor
    sent,           \* ordinary requests already submitted
    wire,           \* messages to the engine core, oldest first
    \* the engine core process
    beam_cache,     \* sessions with a prefill entry
    to_abort,       \* ids the input thread has yet to put on aborts_queue
    aborts_queue,
    input_queue,    \* <<operation, id>> pairs, oldest first
    live,           \* scheduler.requests
    running,        \* requests in the step being executed
    output_queue    \* finished outputs on their way to the API server

client == <<pc, token, prev_ids, fork_info, reply>>
server == <<registered, sent, wire>>
thread == <<beam_cache, to_abort, aborts_queue, input_queue>>
engine == <<live, running, output_queue>>
vars == <<client, server, thread, engine>>

Final == {"done", "failed", "cancelled"}
Reply == {"ok", "error", "nologprobs"}
Kind == {"ADD", "ADD_BATCH", "MEGA_REQUEST_STEP_UPDATE", "ABORT"}

Message ==
    [kind : Kind, id : Request, parents : Seq(Id), children : Seq(Id),
     pruned : SUBSET Id, width : Nat]

TypeOK ==
    /\ pc \in [Search -> {"loop", "await"} \cup Final]
    /\ token \in [Search -> 0..NumSteps]
    /\ prev_ids \in [Search -> Seq(Id)]
    /\ fork_info \in [Search -> Seq(Beams)]
    /\ reply \in [Search -> Reply \cup {"none"}]
    /\ registered \subseteq Request
    /\ sent \subseteq Plain
    /\ wire \in Seq(Message)
    /\ beam_cache \subseteq Search
    /\ to_abort \subseteq Id
    /\ aborts_queue \subseteq Id
    /\ input_queue \in Seq({"ADD", "ABORT"} \X Request)
    /\ live \subseteq Request
    /\ running \subseteq live
    /\ output_queue \subseteq [id : Id, reply : Reply]

Init ==
    /\ pc = [s \in Search |-> "loop"]
    /\ token = [s \in Search |-> 0]
    /\ prev_ids = [s \in Search |-> << >>]
    /\ fork_info = [s \in Search |-> << >>]
    /\ reply = [s \in Search |-> "none"]
    /\ registered = {} /\ sent = {} /\ wire = << >>
    /\ beam_cache = {} /\ to_abort = {} /\ aborts_queue = {}
    /\ input_queue = << >>
    /\ live = {} /\ running = {} /\ output_queue = {}

----------------------------------------------------------------------------
(* The search coroutine.                                                   *)

Simple(kind, r) ==
    [kind |-> kind, id |-> r, parents |-> << >>, children |-> << >>,
     pruned |-> {}, width |-> 0]

\* Seeded bugs, each the definition it precedes with one plausible slip, are
\* named <definition>_<slip>; nothing uses them.

Children_DropsLast(s) == [b \in 1..(BeamWidth - 1) |-> <<s, token[s], b>>]

\* The ids a search's beams go by once iteration token[s] has answered.
Children(s) == [b \in Beams |-> <<s, token[s], b>>]
NewIds(s) == IF token[s] = 0 THEN <<s>> ELSE Children(s)

Parents(s) == [b \in DOMAIN fork_info[s] |-> prev_ids[s][fork_info[s][b]]]
PrunedIds_All(s) == Range(prev_ids[s])
PrunedIds(s) == Range(prev_ids[s]) \ Range(Parents(s))

StepMessage(s) ==
    [kind |-> "MEGA_REQUEST_STEP_UPDATE", id |-> s,
     parents |-> Parents(s), children |-> Children(s),
     pruned |-> PrunedIds(s), width |-> Len(fork_info[s])]

\* _mega_request_cleanup: beam_width = 0 is the instruction to forget s.
CleanupMessage(s, final_ids) ==
    [kind |-> "MEGA_REQUEST_STEP_UPDATE", id |-> s, parents |-> << >>,
     children |-> << >>, pruned |-> Range(final_ids), width |-> 0]

Cleanup(s, final_ids) ==
    wire' = IF final_ids = << >> THEN wire
                                 ELSE Append(wire, CleanupMessage(s, final_ids))

\* Register an output queue for the session id, send m, wait for the answer.
Submit(s, m) ==
    /\ pc' = [pc EXCEPT ![s] = "await"]
    /\ registered' = registered \cup {s}
    /\ wire' = Append(wire, m)
    /\ UNCHANGED <<token, prev_ids, fork_info, reply, sent, thread, engine>>

\* Iteration 0: prepare_request registers the prefill, ADD_BATCH sends it.
AddBatchStep(s) ==
    /\ pc[s] = "loop" /\ token[s] = 0 /\ token[s] < NumSteps
    /\ Submit(s, Simple("ADD_BATCH", s))

MegaRequestStep_OneTooMany(s) ==
    /\ pc[s] = "loop" /\ token[s] \in 1..NumSteps
    /\ fork_info[s] # << >>
    /\ Submit(s, StepMessage(s))

\* Later iterations: the session id is registered again and one message
\* carries all the branches.
MegaRequestStep(s) ==
    /\ pc[s] = "loop" /\ token[s] \in 1..(NumSteps - 1)
    /\ fork_info[s] # << >>
    /\ Submit(s, StepMessage(s))

\* With no beam left, unpacking zip(*[]) raises out of the coroutine.
NoBeamsLeft(s) ==
    /\ pc[s] = "loop" /\ token[s] \in 1..(NumSteps - 1)
    /\ fork_info[s] = << >>
    /\ pc' = [pc EXCEPT ![s] = "failed"]
    /\ UNCHANGED <<token, prev_ids, fork_info, reply, server, thread, engine>>

FinishSearch(s) ==
    /\ pc[s] = "loop" /\ token[s] = NumSteps
    /\ pc' = [pc EXCEPT ![s] = "done"]
    /\ Cleanup(s, prev_ids[s])
    /\ UNCHANGED <<token, prev_ids, fork_info, reply, registered, sent,
                   thread, engine>>

\* The parents of the next beams: the prefill is the only beam at first.
Forks(s) == [Beams -> IF token[s] = 0 THEN {1} ELSE Beams]

ReceiveStep_KeepsReply(s) ==
    /\ pc[s] = "await" /\ reply[s] \in {"ok", "nologprobs"}
    /\ pc' = [pc EXCEPT ![s] = "loop"]
    /\ token' = [token EXCEPT ![s] = @ + 1]
    /\ prev_ids' = [prev_ids EXCEPT ![s] = NewIds(s)]
    /\ \E f \in Forks(s) :
          fork_info' = [fork_info EXCEPT
                           ![s] = IF reply[s] = "ok" THEN f ELSE << >>]
    /\ UNCHANGED <<reply, server, thread, engine>>

\* A step's answer arrives and the next beams are selected from it; an
\* answer without logprobs leaves no candidate, hence no beam.
ReceiveStep(s) ==
    /\ pc[s] = "await" /\ reply[s] \in {"ok", "nologprobs"}
    /\ pc' = [pc EXCEPT ![s] = "loop"]
    /\ token' = [token EXCEPT ![s] = @ + 1]
    /\ prev_ids' = [prev_ids EXCEPT ![s] = NewIds(s)]
    /\ \E f \in Forks(s) :
          fork_info' = [fork_info EXCEPT
                           ![s] = IF reply[s] = "ok" THEN f ELSE << >>]
    /\ reply' = [reply EXCEPT ![s] = "none"]
    /\ UNCHANGED <<server, thread, engine>>

\* An error ends the search.  Only the mega branch cleans up after itself.
ReceiveError(s) ==
    /\ pc[s] = "await" /\ reply[s] = "error"
    /\ pc' = [pc EXCEPT ![s] = "failed"]
    /\ prev_ids' = [prev_ids EXCEPT ![s] = NewIds(s)]
    /\ reply' = [reply EXCEPT ![s] = "none"]
    /\ IF token[s] = 0 THEN UNCHANGED wire ELSE Cleanup(s, NewIds(s))
    /\ UNCHANGED <<token, fork_info, registered, sent, thread, engine>>

\* The HTTP client goes away and the coroutine is cancelled at its await.
CancelSearch(s) ==
    /\ "cancel" \in Faults /\ pc[s] = "await"
    /\ pc' = [pc EXCEPT ![s] = "cancelled"]
    /\ UNCHANGED <<token, prev_ids, fork_info, reply, server, thread, engine>>

ClientStep(s) ==
    \/ AddBatchStep(s) \/ MegaRequestStep(s) \/ NoBeamsLeft(s)
    \/ FinishSearch(s) \/ ReceiveStep(s) \/ ReceiveError(s)

----------------------------------------------------------------------------
(* Ordinary requests, sent and aborted by vLLM's own front end.            *)

PlainAdd(p) ==
    /\ p \notin sent
    /\ sent' = sent \cup {p}
    /\ registered' = registered \cup {p}
    /\ wire' = Append(wire, Simple("ADD", p))
    /\ UNCHANGED <<client, thread, engine>>

PlainAbort(p) ==
    /\ p \in registered
    /\ registered' = registered \ {p}
    /\ wire' = Append(wire, Simple("ABORT", p))
    /\ UNCHANGED <<client, sent, thread, engine>>

----------------------------------------------------------------------------
(* The input thread takes one message off the socket at a time and, until  *)
(* it has put every id of it on aborts_queue, takes no other.              *)

Arrives(kind) ==
    /\ to_abort = {} /\ wire # << >> /\ Head(wire).kind = kind
    /\ wire' = Tail(wire)

ErrorOutput(ids) == {[id |-> i, reply |-> "error"] : i \in ids}

\* ADD and ADD_BATCH: preprocess_add_request succeeds and the request is
\* queued, from a batch with a cache entry, or it fails and an error goes out.
AcceptRequest(kind, cached) ==
    /\ Arrives(kind)
    /\ beam_cache' = beam_cache \cup cached
    /\ input_queue' = Append(input_queue, <<"ADD", Head(wire).id>>)
    /\ UNCHANGED <<client, registered, sent, to_abort, aborts_queue, engine>>

RejectRequest_FallsThrough(kind) ==
    /\ "preproc" \in Faults
    /\ Arrives(kind)
    /\ output_queue' = output_queue \cup ErrorOutput({Head(wire).id})
    /\ input_queue' = Append(input_queue, <<"ADD", Head(wire).id>>)
    /\ UNCHANGED <<client, registered, sent, beam_cache, to_abort, aborts_queue,
                   live, running>>

RejectRequest_Silent(kind) ==
    /\ "preproc" \in Faults
    /\ Arrives(kind)
    /\ UNCHANGED <<client, registered, sent, thread, engine>>

RejectRequest(kind) ==
    /\ "preproc" \in Faults
    /\ Arrives(kind)
    /\ output_queue' = output_queue \cup ErrorOutput({Head(wire).id})
    /\ UNCHANGED <<client, registered, sent, thread, live, running>>

HandleAdd == AcceptRequest("ADD", {}) \/ RejectRequest("ADD")

HandleAddBatch_NotCached ==
    \/ AcceptRequest("ADD_BATCH", {})
    \/ RejectRequest("ADD_BATCH")

HandleAddBatch ==
    \/ AcceptRequest("ADD_BATCH", {Head(wire).id})
    \/ RejectRequest("ADD_BATCH")

HandleCleanup_KeepsEntry ==
    /\ Arrives("MEGA_REQUEST_STEP_UPDATE") /\ Head(wire).width = 0
    /\ to_abort' = {Head(wire).id} \cup Head(wire).pruned
    /\ UNCHANGED <<client, registered, sent, beam_cache, aborts_queue,
                   input_queue, engine>>

\* _handle_mega_request_step_update with beam_width = 0.
HandleCleanup ==
    /\ Arrives("MEGA_REQUEST_STEP_UPDATE") /\ Head(wire).width = 0
    /\ beam_cache' = beam_cache \ {Head(wire).id}
    /\ to_abort' = {Head(wire).id} \cup Head(wire).pruned
    /\ UNCHANGED <<client, registered, sent, aborts_queue, input_queue, engine>>

WellFormed(m) == Len(m.parents) = m.width /\ Len(m.children) = m.width

HandleStep_PopsEntry ==
    /\ Arrives("MEGA_REQUEST_STEP_UPDATE") /\ Head(wire).width > 0
    /\ beam_cache' = beam_cache \ {Head(wire).id}
    /\ IF WellFormed(Head(wire)) /\ Head(wire).id \in beam_cache
       THEN /\ input_queue' = Append(input_queue, <<"ADD", Head(wire).id>>)
            /\ to_abort' = Head(wire).pruned
            /\ UNCHANGED output_queue
       ELSE /\ output_queue' =
                  output_queue \cup ErrorOutput(Range(Head(wire).children))
            /\ UNCHANGED <<input_queue, to_abort>>
    /\ UNCHANGED <<client, registered, sent, aborts_queue, live, running>>

\* ... with beam_width > 0: rebuild the request from the cache entry, or
\* answer an error to every child id.
HandleStep ==
    /\ Arrives("MEGA_REQUEST_STEP_UPDATE") /\ Head(wire).width > 0
    /\ IF WellFormed(Head(wire)) /\ Head(wire).id \in beam_cache
       THEN /\ input_queue' = Append(input_queue, <<"ADD", Head(wire).id>>)
            /\ to_abort' = Head(wire).pruned
            /\ UNCHANGED output_queue
       ELSE /\ output_queue' =
                  output_queue \cup ErrorOutput(Range(Head(wire).children))
            /\ UNCHANGED <<input_queue, to_abort>>
    /\ UNCHANGED <<client, registered, sent, beam_cache, aborts_queue, live,
                   running>>

PushAbort ==
    /\ \E i \in to_abort : /\ to_abort' = to_abort \ {i}
                           /\ aborts_queue' = aborts_queue \cup {i}
    /\ UNCHANGED <<client, server, beam_cache, input_queue, engine>>

HandleAbort_RunningOnly ==
    /\ Arrives("ABORT")
    /\ aborts_queue' = aborts_queue \cup {Head(wire).id}
    /\ UNCHANGED <<client, registered, sent, beam_cache, to_abort, input_queue,
                   engine>>

\* An ABORT goes on both queues: on aborts_queue to take effect in the
\* running step, on input_queue to stay behind the ADD it may have overtaken.
HandleAbort ==
    /\ Arrives("ABORT")
    /\ aborts_queue' = aborts_queue \cup {Head(wire).id}
    /\ input_queue' = Append(input_queue, <<"ABORT", Head(wire).id>>)
    /\ UNCHANGED <<client, registered, sent, beam_cache, to_abort, engine>>

InputThread ==
    HandleAdd \/ HandleAddBatch \/ HandleCleanup \/ HandleStep \/ PushAbort
        \/ HandleAbort

----------------------------------------------------------------------------
(* vLLM's engine core (external): drain the input queue, schedule, execute,*)
(* drop what was aborted meanwhile, finish requests (max_tokens = 1).      *)

DrainInput ==
    /\ running = {} /\ input_queue # << >>
    /\ input_queue' = Tail(input_queue)
    /\ live' = IF Head(input_queue)[1] = "ADD"
               THEN live \cup {Head(input_queue)[2]}
               ELSE live \ {Head(input_queue)[2]}
    /\ UNCHANGED <<client, server, beam_cache, to_abort, aborts_queue,
                   running, output_queue>>

Schedule ==
    /\ running = {} /\ input_queue = << >>
    /\ running' \in SUBSET live \ {{}}
    /\ UNCHANGED <<client, server, thread, live, output_queue>>

Answers == {"ok"} \cup (Faults \cap Reply)

UpdateFromOutput(finished, answer) ==
    /\ running # {}
    /\ running' = {}
    /\ live' = live \ (aborts_queue \cup finished)
    /\ aborts_queue' = {}
    /\ output_queue' =
          output_queue \cup {[id |-> r, reply |-> answer[r]] : r \in finished}
    /\ UNCHANGED <<client, server, beam_cache, to_abort, input_queue>>

Update ==
    \E finished \in SUBSET (running \ aborts_queue) :
        \E answer \in [finished -> Answers] : UpdateFromOutput(finished, answer)

\* The OutputProcessor forgets a request as it hands over its last output,
\* and drops what nobody is registered for.
DeliverOutput ==
    \E o \in output_queue :
        /\ output_queue' = output_queue \ {o}
        /\ registered' = registered \ {o.id}
        /\ reply' = IF o.id \in registered \cap Search
                    THEN [reply EXCEPT ![o.id] = o.reply] ELSE reply
        /\ UNCHANGED <<pc, token, prev_ids, fork_info, sent, wire, thread,
                       live, running>>

EngineCore == DrainInput \/ Schedule \/ Update \/ DeliverOutput

Quiet ==
    /\ \A s \in Search : pc[s] \in Final
    /\ wire = << >> /\ input_queue = << >> /\ to_abort = {}
    /\ live = {} /\ output_queue = {}

Terminated == Quiet /\ UNCHANGED vars

Next ==
    \/ \E s \in Search : ClientStep(s) \/ CancelSearch(s)
    \/ \E p \in Plain : PlainAdd(p) \/ PlainAbort(p)
    \/ InputThread
    \/ EngineCore
    \/ Terminated

\* Threads and coroutines that can run do run; the scheduler starves no
\* mega request and executes it to the end.
Fairness ==
    /\ \A s \in Search : WF_vars(ClientStep(s))
    /\ WF_vars(InputThread)
    /\ WF_vars(DrainInput) /\ WF_vars(Schedule) /\ WF_vars(Update)
    /\ WF_vars(DeliverOutput)
    /\ \A s \in Search :
          /\ SF_vars(Schedule /\ s \in running')
          /\ SF_vars(Update /\ s \in live /\ s \notin live')

Spec == Init /\ [][Next]_vars
FairSpec == Spec /\ Fairness

----------------------------------------------------------------------------
(* Properties.                                                             *)

\* The message asks the engine to run request r.
Asks(m, r) == /\ m.id = r
              /\ \/ m.kind \in {"ADD", "ADD_BATCH"}
                 \/ m.kind = "MEGA_REQUEST_STEP_UPDATE" /\ m.width > 0

OnWire(r) == \E i \in DOMAIN wire : Asks(wire[i], r)
Queued(r) == \E i \in DOMAIN input_queue : input_queue[i] = <<"ADD", r>>
Answered(r) == \E o \in output_queue : o.id = r

OnceOnWire(r) ==
    \A i, j \in DOMAIN wire : Asks(wire[i], r) /\ Asks(wire[j], r) => i = j
OnceQueued(r) ==
    \A i, j \in DOMAIN input_queue :
        input_queue[i][2] = r /\ input_queue[j][2] = r => i = j
OnceAnswered(r) ==
    \A o1, o2 \in output_queue : o1.id = r /\ o2.id = r => o1 = o2

FlightOK(s) ==
    /\ OnceOnWire(s) /\ OnceQueued(s) /\ OnceAnswered(s)
    /\ OnWire(s) => ~Queued(s) /\ s \notin live /\ ~Answered(s)
    /\ Queued(s) => s \notin live /\ ~Answered(s)
    /\ s \in live => ~Answered(s)
    /\ s \in registered <=>
          OnWire(s) \/ Queued(s) \/ s \in live \/ Answered(s)

\* A session id is reused for every step of its search, so nothing but the
\* protocol keeps two requests of that name apart: there is never a second
\* one on the wire, queued, scheduled or answered (the OutputProcessor would
\* refuse it, the scheduler would overwrite the first), and the id is
\* registered exactly while there is one.
SingleFlight == \A s \in Search : FlightOK(s)

AwaitOK(s) ==
    /\ pc[s] = "await" => (s \in registered <=> reply[s] = "none")
    /\ pc[s] = "loop" => s \notin registered /\ reply[s] = "none"

\* A search that waits will be answered: its request is under way or its
\* answer is in its queue, never both, never neither.  A search between two
\* steps has nothing of its own left in the system.
AwaitedIsInFlight == \A s \in Search : AwaitOK(s)

CacheOK(s) == pc[s] \in {"loop", "await"} /\ token[s] > 0 => s \in beam_cache

\* No step of a search finds its prefill entry gone: from the first answer
\* to the end of the search the entry is there, so the handler's "session
\* not in cache" branch, which answers ids nobody listens to, is not taken.
CacheCoversSession == \A s \in Search : CacheOK(s)

Over(s) == pc[s] \in {"done", "failed"}

AbortOK(s) == s \in to_abort \cup aborts_queue => Over(s)

\* The aborts of pruned branches share aborts_queue with the session id of
\* the search itself, which is aborted by its own final cleanup only.
AbortsSpareTheAwaited == \A s \in Search : AbortOK(s)

\* Outputs are addressed to requests the client registered at some time,
\* never to the id of a branch.
OutputsAreAddressable == \A o \in output_queue : o.id \in Request

\* A cache entry is removed by the cleanup of its own search only, and never
\* put back once the search is over.
CacheFollowsItsSearch ==
    [][\A s \in Search :
          /\ s \in beam_cache \ beam_cache' => pc[s] \in {"done", "failed"}
          /\ s \in beam_cache' \ beam_cache =>
                pc[s] \in {"await", "cancelled"} /\ token[s] = 0]_vars

\* Every search ends: no wait in the protocol is forever.
SearchTerminates == \A s \in Search : <>(pc[s] \in Final)

\* What a completed search cached is purged, for good.
DoneIsPurged == \A s \in Search : pc[s] = "done" ~> [](s \notin beam_cache)

\* A cancelled search, which says nothing more to the engine, still leaves
\* the scheduler and the OutputProcessor.
CancelledLeavesEngine ==
    \A s \in Search : pc[s] = "cancelled" ~> [](s \notin registered \cup live)

\* An aborted ordinary request leaves the scheduler for good, whether the
\* abort found it running, queued, or still on the wire.
AbortedPlainLeaves ==
    \A p \in Plain : p \in sent \ registered ~> [](p \notin live)

\* "When a beam result has finish_reason='error', the error path should send
\* a cleanup": the entry of a search that failed on an error is purged.
ErrorPathCleansUp ==
    \A s \in Search : pc[s] = "failed" ~> [](s \notin beam_cache)

----------------------------------------------------------------------------
(* The inductive invariant behind SingleFlight, AwaitedIsInFlight,         *)
(* CacheCoversSession and AbortsSpareTheAwaited.                           *)

\* The beams of a search that is still going: the prefill first, then the
\* branches of the last step, whose parent indices stay within them.
BeamsOK(s) ==
    ~Over(s) =>
        /\ pc[s] = "await" => token[s] < NumSteps
        /\ token[s] = 0 => prev_ids[s] = << >>
        /\ token[s] = 1 => /\ prev_ids[s] = <<s>>
                           /\ \A b \in DOMAIN fork_info[s] : fork_info[s][b] = 1
        /\ token[s] > 1 => prev_ids[s] \in [Beams -> ChildId]
        /\ fork_info[s] = << >> \/ Len(fork_info[s]) = BeamWidth

\* What a message of each kind says of the search it names.
MessageOK(m) ==
    /\ m.kind \in {"ADD", "ABORT"} => m.id \in Plain
    /\ m.kind = "ADD_BATCH" =>
          m.id \in Search /\ token[m.id] = 0 /\ pc[m.id] \in {"await", "cancelled"}
    /\ m.kind = "MEGA_REQUEST_STEP_UPDATE" =>
          /\ m.id \in Search /\ WellFormed(m)
          /\ IF m.width = 0 THEN Over(m.id) ELSE m.id \in beam_cache
    /\ \A s \in Search \cap m.pruned : Over(s)

\* A search under way in the engine, or answered without an error, is cached.
CachedOnceAccepted(s) ==
    /\ Over(s) => s \notin registered
    /\ Queued(s) \/ s \in live => s \in beam_cache
    /\ \A o \in output_queue : o.id = s /\ o.reply # "error" => s \in beam_cache
    /\ pc[s] = "await" /\ reply[s] \in {"ok", "nologprobs"} => s \in beam_cache

TypeInv == TypeOK /\ \A s \in Search : BeamsOK(s)

SearchInv(s) ==
    /\ BeamsOK(s) /\ FlightOK(s) /\ AwaitOK(s) /\ CacheOK(s) /\ AbortOK(s)
    /\ CachedOnceAccepted(s)

MessagesOK == \A i \in DOMAIN wire : MessageOK(wire[i])
AbortsNamePlain ==
    \A i \in DOMAIN input_queue :
        input_queue[i][1] = "ABORT" => input_queue[i][2] \in Plain

SessionInv ==
    /\ TypeOK /\ MessagesOK /\ AbortsNamePlain /\ OutputsAreAddressable
    /\ \A s \in Search : SearchInv(s)

=============================================================================
