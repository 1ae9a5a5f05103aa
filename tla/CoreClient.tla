------------------------------ MODULE CoreClient ------------------------------
(***************************************************************************)
(* The data-parallel core client: which engine the messages of a beam      *)
(* search go to, what is recorded in reqs_in_flight, and how engines that  *)
(* paused together are woken.                                              *)
(*                                                                         *)
(*   search         beam_search, _next_data_parallel_rank                  *)
(*   client         core_client.add_requests_async and                     *)
(*                  mega_request_step_update_async, on a client that has   *)
(*                  get_core_engine_for_request (data_parallel_size > 1)   *)
(*   engines        vLLM's lockstep engines and their coordinator          *)
(*                  (external)                                             *)
(*                                                                         *)
(* <<s, t, b>> is the id of beam b in iteration t of search s; the prefill *)
(* <<s, 0, 1>> lends its id to every mega request of s.                    *)
(***************************************************************************)
EXTENDS Naturals, Sequences

CONSTANTS
    Search,      \* beam searches
    NumEngines,  \* data_parallel_size
    BeamWidth,   \* params.beam_width of each search
    NumSteps     \* iterations of the search loop, for each search

ASSUME EngineAssumption == NumEngines \in Nat \ {0, 1}
ASSUME SizeAssumption ==
    /\ BeamWidth \in [Search -> Nat \ {0}]
    /\ NumSteps \in [Search -> Nat \ {0}]

Engine == 0..(NumEngines - 1)
Id == UNION {{s} \X (0..NumSteps[s]) \X (1..BeamWidth[s]) : s \in Search}
Kind == {"ADD", "ADD_BATCH", "STEP", "CLEANUP"}
Message == [kind : Kind, search : Search, ids : SUBSET Id,
            current_wave : Nat]

VARIABLES
    use_mega,         \* the engine client has mega_request_step_update
    \* the searches
    pc, token,
    rank,             \* data_parallel_rank of each search
    prev_ids,         \* ids of the beams of the last iteration
    awaiting,         \* request ids whose output the search waits for
    dp_rank_counter,
    \* the client
    reqs_in_flight,   \* pairs <<id, engine>>
    engines_running, current_wave,   \* what it has heard of the engines
    first_req,        \* FIRST_REQ messages not yet with the coordinator
    sockets,          \* messages to each engine, oldest first
    \* the engines
    cached,           \* searches with a beam_cache entry, by engine
    work,             \* requests to be executed, by engine
    awake,            \* engines that take part in every step
    wave,             \* number of the wave that runs or comes next
    outputs,          \* ids of finished requests on their way back
    \* history
    used              \* beams that had children in a later iteration

search == <<use_mega, pc, token, rank, prev_ids, awaiting, dp_rank_counter, used>>
client == <<reqs_in_flight, engines_running, current_wave, first_req, sockets>>
engines == <<cached, work, awake, wave, outputs>>
vars == <<search, client, engines>>

TypeOK ==
    /\ use_mega \in BOOLEAN
    /\ pc \in [Search -> {"start", "loop", "await", "done"}]
    /\ token \in [Search -> Nat]
    /\ \A s \in Search : token[s] <= NumSteps[s]
    /\ rank \in [Search -> Engine]
    /\ prev_ids \in [Search -> SUBSET Id]
    /\ awaiting \in [Search -> SUBSET Id]
    /\ dp_rank_counter \in Nat
    /\ used \in [Search -> SUBSET Id]
    /\ reqs_in_flight \subseteq Id \X Engine
    /\ engines_running \in BOOLEAN
    /\ current_wave \in Nat /\ first_req \in Nat /\ wave \in Nat
    /\ sockets \in [Engine -> Seq(Message)]
    /\ cached \in [Engine -> SUBSET Search]
    /\ work \in [Engine -> SUBSET Id]
    /\ awake \subseteq Engine
    /\ outputs \subseteq Id

Init ==
    /\ use_mega \in BOOLEAN
    /\ pc = [s \in Search |-> "start"]
    /\ token = [s \in Search |-> 0]
    /\ rank = [s \in Search |-> 0]
    /\ prev_ids = [s \in Search |-> {}]
    /\ awaiting = [s \in Search |-> {}]
    /\ used = [s \in Search |-> {}]
    /\ dp_rank_counter = 0
    /\ reqs_in_flight = {} /\ engines_running = FALSE /\ current_wave = 0
    /\ first_req = 0
    /\ sockets = [e \in Engine |-> << >>]
    /\ cached = [e \in Engine |-> {}]
    /\ work = [e \in Engine |-> {}]
    /\ awake = {} /\ wave = 0 /\ outputs = {}

----------------------------------------------------------------------------
(* The client.                                                             *)

\* Seeded bugs, each the definition it precedes with one plausible slip, are
\* named <definition>_<slip>; nothing uses them.

Prefill(s) == <<s, 0, 1>>

\* The requests of iteration t: the prefill alone, later one per beam.
BeamIds(s, t) == {s} \X {t} \X (IF t = 0 THEN {1} ELSE 1..BeamWidth[s])

Register_FirstOnly(ids, e) ==
    {p \in reqs_in_flight : p[1] \notin ids} \cup {<<CHOOSE i \in ids : TRUE, e>>}

Register(ids, e) == {p \in reqs_in_flight : p[1] \notin ids} \cup (ids \X {e})
Pop_Nothing(table, ids) == table
Pop(table, ids) == {p \in table : p[1] \notin ids}

\* get_core_engine_for_request with a rank, and core_engines[rank].
EngineOf_NextRank(s) == dp_rank_counter % NumEngines
EngineOf(s) == rank[s]

Send(e, kind, s, ids) ==
    sockets' = [sockets EXCEPT
                   ![e] = Append(@, [kind |-> kind, search |-> s, ids |-> ids,
                                     current_wave |-> current_wave])]

\* "Notify coordinator when engines are idle": after the message was handed
\* to the socket, before its sending is awaited.
Notify == first_req' = IF engines_running THEN first_req ELSE first_req + 1

\* add_requests_async: a single request that is not forced into a batch goes
\* the ordinary way; what is registered and who is notified is the same.
AddRequests(s, ids) ==
    /\ reqs_in_flight' = Register(ids, EngineOf(s))
    /\ Send(EngineOf(s),
            IF ~use_mega /\ \E i \in ids : ids = {i} THEN "ADD" ELSE "ADD_BATCH",
            s, ids)
    /\ Notify
    /\ UNCHANGED <<engines_running, current_wave>>

StepUpdate_Silent(s, kind, children, pruned) ==
    /\ reqs_in_flight' = Pop(Register(children, EngineOf(s)), pruned)
    /\ Send(EngineOf(s), kind, s, children)
    /\ UNCHANGED <<engines_running, current_wave, first_req>>

\* mega_request_step_update_async, for a step and for the final cleanup.
StepUpdate(s, kind, children, pruned) ==
    /\ reqs_in_flight' = Pop(Register(children, EngineOf(s)), pruned)
    /\ Send(EngineOf(s), kind, s, children)
    /\ Notify
    /\ UNCHANGED <<engines_running, current_wave>>

----------------------------------------------------------------------------
(* The search.                                                             *)

RankFor(n) == n % NumEngines

\* _next_data_parallel_rank: the lock is held from reading to incrementing.
ChooseRank(s) ==
    /\ pc[s] = "start"
    /\ pc' = [pc EXCEPT ![s] = "loop"]
    /\ rank' = [rank EXCEPT ![s] = RankFor(dp_rank_counter)]
    /\ dp_rank_counter' = dp_rank_counter + 1
    /\ UNCHANGED <<use_mega, token, prev_ids, awaiting, used, client, engines>>

Await(s, ids) ==
    /\ pc' = [pc EXCEPT ![s] = "await"]
    /\ awaiting' = [awaiting EXCEPT ![s] = ids]
    /\ UNCHANGED <<use_mega, token, rank, dp_rank_counter, engines>>

\* _add_batch_step: iteration 0, or any iteration without mega requests.
AddBatchStep(s) ==
    /\ pc[s] = "loop" /\ token[s] < NumSteps[s]
    /\ token[s] = 0 \/ ~use_mega
    /\ AddRequests(s, BeamIds(s, token[s]))
    /\ Await(s, BeamIds(s, token[s]))
    /\ UNCHANGED <<prev_ids, used>>

\* _mega_request_step: any of the beams may be the parents of the next ones;
\* the search waits for the session id, not for the children.
MegaRequestStep(s) ==
    /\ pc[s] = "loop" /\ token[s] \in 1..(NumSteps[s] - 1) /\ use_mega
    /\ \E parents \in SUBSET prev_ids[s] \ {{}} :
          /\ StepUpdate(s, "STEP", BeamIds(s, token[s]), prev_ids[s] \ parents)
          /\ used' = [used EXCEPT ![s] = @ \cup parents]
    /\ prev_ids' = [prev_ids EXCEPT ![s] = BeamIds(s, token[s])]
    /\ Await(s, {Prefill(s)})

\* The loop ends; with mega requests the last beams are cleaned up.
FinishSearch(s) ==
    /\ pc[s] = "loop" /\ token[s] = NumSteps[s]
    /\ pc' = [pc EXCEPT ![s] = "done"]
    /\ IF use_mega THEN StepUpdate(s, "CLEANUP", {}, prev_ids[s])
                  ELSE UNCHANGED client
    /\ UNCHANGED <<use_mega, token, rank, prev_ids, awaiting, dp_rank_counter,
                   used, engines>>

\* An output reaches the client: the id is no longer in flight, and with the
\* last one awaited the search goes on.
Deliver(i) ==
    LET s == i[1]
        left == awaiting[s] \ {i}
        goes_on == pc[s] = "await" /\ i \in awaiting[s] /\ left = {}
    IN  /\ i \in outputs
        /\ outputs' = outputs \ {i}
        /\ reqs_in_flight' = Pop(reqs_in_flight, {i})
        /\ awaiting' = [awaiting EXCEPT ![s] = left]
        /\ IF goes_on
           THEN /\ pc' = [pc EXCEPT ![s] = "loop"]
                /\ token' = [token EXCEPT ![s] = @ + 1]
                /\ prev_ids' = [prev_ids EXCEPT ![s] = BeamIds(s, token[s])]
           ELSE UNCHANGED <<pc, token, prev_ids>>
        /\ UNCHANGED <<use_mega, rank, dp_rank_counter, used, engines_running,
                       current_wave, first_req, sockets, cached, work, awake,
                       wave>>

SearchStep(s) ==
    \/ ChooseRank(s) \/ AddBatchStep(s) \/ MegaRequestStep(s)
    \/ FinishSearch(s)

----------------------------------------------------------------------------
(* vLLM's engines and coordinator (external).  All engines execute a step  *)
(* together or none does: an engine with work of its own waits for those   *)
(* that are asleep.  When no engine has work left the wave is over.        *)

\* The stats task passes FIRST_REQ on; the coordinator starts a wave unless
\* one is running.
ForwardFirstReq ==
    /\ first_req > 0
    /\ first_req' = first_req - 1
    /\ engines_running' = TRUE
    /\ awake' = Engine
    /\ UNCHANGED <<search, reqs_in_flight, current_wave, sockets, cached, work,
                   wave, outputs>>

\* The client hears of the engines' state, whenever that may be.
HearOfEngines ==
    /\ <<engines_running, current_wave>> # <<awake # {}, wave>>
    /\ engines_running' = (awake # {})
    /\ current_wave' = wave
    /\ UNCHANGED <<search, reqs_in_flight, first_req, sockets, engines>>

\* What a message makes the engine execute: an added batch, or the mega
\* request of a session it knows.
Requests(e, m) ==
    CASE m.kind \in {"ADD", "ADD_BATCH"} -> m.ids
      [] m.kind = "STEP" /\ m.search \in cached[e] -> {Prefill(m.search)}
      [] OTHER -> {}

Receive(e) ==
    /\ sockets[e] # << >>
    /\ LET m == Head(sockets[e]) IN
          /\ cached' = [cached EXCEPT
                ![e] = CASE m.kind = "ADD_BATCH" -> @ \cup {m.search}
                         [] m.kind = "CLEANUP" -> @ \ {m.search}
                         [] OTHER -> @]
          /\ work' = [work EXCEPT ![e] = @ \cup Requests(e, m)]
          /\ outputs' = IF m.kind = "STEP" /\ m.search \notin cached[e]
                        THEN outputs \cup m.ids ELSE outputs
          \* a request of a wave that is over starts the next one
          /\ awake' = IF Requests(e, m) # {} /\ m.current_wave < wave
                      THEN Engine ELSE awake
    /\ sockets' = [sockets EXCEPT ![e] = Tail(@)]
    /\ UNCHANGED <<search, reqs_in_flight, engines_running, current_wave,
                   first_req, wave>>

AllWork == UNION {work[e] : e \in Engine}

\* One step of all the engines; if there is work, some request finishes.
LockStep ==
    /\ \E e \in Engine : e \in awake \/ work[e] # {}
    /\ \A e \in Engine : e \in awake \/ work[e] # {}
    /\ \E finished \in SUBSET AllWork :
          /\ AllWork # {} => finished # {}
          /\ outputs' = outputs \cup finished
          /\ work' = [e \in Engine |-> work[e] \ finished]
          /\ IF finished = AllWork THEN awake' = {} /\ wave' = wave + 1
                                   ELSE awake' = Engine /\ wave' = wave
    /\ UNCHANGED <<search, client, cached>>

Terminated ==
    /\ \A s \in Search : pc[s] = "done"
    /\ \A e \in Engine : sockets[e] = << >>
    /\ first_req = 0 /\ awake = {}
    /\ UNCHANGED vars

Next ==
    \/ \E s \in Search : SearchStep(s)
    \/ \E i \in outputs : Deliver(i)
    \/ ForwardFirstReq \/ HearOfEngines
    \/ \E e \in Engine : Receive(e)
    \/ LockStep
    \/ Terminated

\* Coroutines, sockets and engines that can go on do.
Fairness ==
    /\ \A s \in Search : WF_vars(SearchStep(s))
    /\ WF_vars(\E i \in outputs : Deliver(i))
    /\ WF_vars(ForwardFirstReq) /\ WF_vars(HearOfEngines)
    /\ \A e \in Engine : WF_vars(Receive(e))
    /\ WF_vars(LockStep)

Spec == Init /\ [][Next]_vars
FairSpec == Spec /\ Fairness

----------------------------------------------------------------------------
(* Properties.                                                             *)

\* Whatever is under way for search s is with the engine of its rank.
Home(s) ==
    \A e \in Engine \ {rank[s]} :
        /\ s \notin cached[e]
        /\ \A i \in work[e] : i[1] # s
        /\ \A k \in DOMAIN sockets[e] : sockets[e][k].search # s

\* From the first message of s being handled to its cleanup the entry is on
\* that engine, and until the former is, no step of s is behind it.
EntryOK(s) ==
    /\ use_mega /\ token[s] > 0 /\ pc[s] # "done" => s \in cached[rank[s]]
    /\ \A k \in DOMAIN sockets[rank[s]] :
          LET m == sockets[rank[s]][k] IN
          m.search = s /\ m.kind = "STEP" => s \in cached[rank[s]]

\* The rank of a search is passed through three layers, in messages of two
\* kinds that find their engine in two ways; all of them must come to the one
\* engine that holds its prefill entry, or a step is answered to ids nobody
\* listens to.
StepsReachTheirEntry == \A s \in Search : Home(s) /\ EntryOK(s)

InFlightOf(s) == {i \in Id : i[1] = s /\ \E e \in Engine : <<i, e>> \in reqs_in_flight}

\* reqs_in_flight names for every id the engine its search lives on, and the
\* ids of a batch are all there until their outputs are processed: an abort
\* would reach the engine that runs them.
InFlightPointsHome ==
    /\ \A p \in reqs_in_flight : p[2] = rank[p[1][1]]
    /\ \A s \in Search :
          pc[s] = "await" /\ (token[s] = 0 \/ ~use_mega) =>
              awaiting[s] \subseteq InFlightOf(s)

\* What a finished search leaves in reqs_in_flight.  Pruned branches and the
\* last beams are popped and requests are popped with their output; the ids of
\* branches that had children are neither, and stay.
OnlyParentsStay ==
    \A s \in Search :
        pc[s] = "done" => InFlightOf(s) = used[s] \ {Prefill(s)}

\* Every search ends, although engines pause whenever none has work and the
\* client's view of them is late: each request is accompanied by FIRST_REQ or
\* recognised as one of a wave that is over.
SearchTerminates == \A s \in Search : <>(pc[s] = "done")

=============================================================================
