# vllm-gr: verification project

`vllm-gr` is a plugin for vLLM that adds online beam search for generative
recommendation. It patches vLLM from outside: an API-server coroutine drives
the search, a replaced input thread in the engine core keeps a cache of prefill
requests and packs all beams of a step into one *mega request*, and patches of
the scheduler, the GPU model runner and an attention backend make that one
request behave like `beam_width` sequences. vLLM itself is not in the
repository; what the models need of it is taken from how `src/` uses it and is
marked external in `PROJECT.json`.

## 1. Inventory

| Component | Source | State | Operations | Correct when |
|---|---|---|---|---|
| Beam-search session protocol | `entrypoints/openai/serving_engine.py`, `v1/engine/core.py`, `v1/engine/async_llm.py` | per search: loop index, `prev_beam_internal_ids`, `fork_info`, its output queue; engine process: `beam_cache`, `input_queue`, `aborts_queue` | ADD_BATCH step, mega step, cleanup, error return, cancellation; input thread handlers; ABORT on two queues | a session id names at most one request at a time; every step finds its prefill entry; an abort never hits a search that goes on; every search ends and is purged |
| Mega-request layout | `v1/attention/backends/beam_attn.py`, `v1/engine/engine_core_patch.py` | tokens computed so far, per-step metadata (`cache_len`, `prefix_len`, `decode_steps`, `beam_width`) | prefix-cache truncation, scheduling in chunks, position overwrite, logits gathering, segment mappings | each beam's tokens get the positions, the keys and the logits row a separate sequence would get |
| Core client (data parallel) | `v1/engine/core_client.py`, `_next_data_parallel_rank` | `reqs_in_flight`, rank counter, wave | ADD_BATCH, step update, FIRST_REQ | all messages of a search reach the engine with its entry; `reqs_in_flight` points there; paused engines are woken |
| Beam selection | `beam_search` 440-618, `logprobs.py` | beams, completed, parent pointers | EOS split-off, top-n, fork_info, final sort, logprob reconstruction | the beams are the best continuations; the chain of parents gives each beam its own log-probabilities |
| Catalog | `serving_models.py` | trie | load, valid | `valid(prefix)` is exactly the set of next tokens of catalog items |
| Offline beam search | `entrypoints/llm.py` | instances, batches, the flat list of beams | batches of prompts, slices, selection | every prompt is answered as if it were alone |
| Min-heap | `csrc/minheap.cpp` | heap of at most `max_size` entries | push, push_list, striped push | holds the best of what it was ever offered |
| Bootstrap | `engine_core_patch.py` 21-226, `patch.py`, `beam_search_patch.py`, `core_client_patch.py`, `init.py` | patched flags, saved originals, re-entry guard | patch, run_engine_core | an engine of a patched client is patched before it serves; no recursion into itself |
| GPU lock | `tools/resource.sh`, `tools/lock_gpu.py` | background processes, their pids, what `nvidia-smi` reports | get, lock, unlock | nothing stays locked; nobody waits for ever; two users never hold one GPU (this one fails) |
| Statistics, arguments, protocol glue | `cli`, `protocol`, `stats`, `arg_utils` | none | | argument passing and record types |
| Stubs | empty subclasses of the scheduler and the cache manager | none | | nothing to model |
| Benchmarks | `benchmarks/open_one_rec` | none | evaluators | metrics of an imported benchmark, not part of the server |
| Tools, CI, examples | `tools`, `.github`, `examples` | none | | single-shot scripts around linters, containers, HTTP |

Interaction. A search coroutine registers an output queue in vLLM's
OutputProcessor and sends ADD_BATCH (iteration 0) or MEGA_REQUEST_STEP_UPDATE
(later) over ZMQ, through a core client that picks the engine. The engine
core's *input thread* turns it into an ADD on `input_queue` (and ids on
`aborts_queue`), which the *busy loop* of the engine drains; the loop schedules,
executes and returns outputs which the API server hands to the registered
queue. The prefill request's id is reused as the id of every mega request of
the search.

Hard behaviour: the input thread and the busy loop run concurrently and share
two queues that are drained at different moments; the session id is reused,
so a late abort or a duplicate would hit the next step; the client can vanish
at any await; with data parallelism engines pause together and the client's view
of them is late; the scheduler may cut a mega request into chunks at any token,
while the layout code reasons from totals; the plugin must be in every process,
however it was started; shell scripts coordinate by what a driver reports.

## 2. Modules

| | Module | Models | Theorems in |
|---|---|---|---|
| 1 | `MegaSession` | the session protocol | `MegaSessionProofs` |
| 2 | `SessionService`, `SessionRefinement` | what a search is promised, without queues; the mapping from 1 | `MegaSessionProofs` |
| 3 | `MegaLayout` | a mega request cut into chunks: positions, logits rows, attention | `MegaLayoutProofs` |
| 4 | `BeamSelect` | stride, dedup, catalog, EOS, top-n, chain of parents, answer (online) | `BeamSelectProofs` |
| 5 | `CoreClient` | data-parallel routing, `reqs_in_flight`, waves | `CoreClientProofs` |
| 6 | `OfflineBeams` | several prompts in one call | `OfflineBeamsProofs` |
| 7 | `MinHeap` | the heap under striped and listed pushes | `MinHeapProofs` |
| 8 | `Bootstrap` | the patches in a parent and its engine processes | `ProcessProofs` |
| 9 | `GpuLock` | scripts that share GPUs | `ProcessProofs` |

`MC<Module>` gives the constants values for TLC. How the parts compose:
`MegaSession` leaves the choice of the next beams open (any parents) and has one
engine; `BeamSelect` makes that choice, `MegaLayout` shows that what it chooses
from is one row per beam (as long as no wider request pads the answer), and `CoreClient` shows that with several engines every
message still reaches the one that `MegaSession` talks about. `Bootstrap` is what
makes these the programs that run.

`Orders` holds what both beam searches need of an order given as a set of pairs: a set
as a sequence (`InOrder`), and what one who keeps the n best may keep where some are
equal (`Bests`). `SequenceFacts` holds the facts about sequences, orders and indices
that the proofs share.

What is left for later: a composition of `MegaSession` with the wave protocol of
`CoreClient`.

In every module, a definition named `<definition>_<slip>` is that definition with
one plausible mistake. No specification uses it; it is put in the definition's
place to see that the properties notice.

## 3. MegaSession

A search coroutine, the front end, the input thread of the engine core and the
engine's busy loop run interleaved, one action per handler or per stretch of a
coroutine between two awaits. A search is named by the id of its prefill
request, because the code reuses that id for every mega request.

| Variables | Owner | In the code |
|---|---|---|
| `pc`, `token`, `prev_ids`, `fork_info`, `reply` | coroutine | `beam_search`: where it stands, its loop variable, `prev_beam_internal_ids`, `fork_info`, the output queue of `_collect_beam_result` |
| `registered`, `sent`, `wire` | API server | ids in the OutputProcessor, ordinary requests submitted, the ZMQ socket |
| `beam_cache`, `to_abort`, `aborts_queue`, `input_queue` | input thread | the dictionary of prefill requests, ids the handler has yet to put, vLLM's two queues |
| `live`, `running`, `output_queue` | engine | `scheduler.requests`, the step being executed, finished outputs |

| Actions | Code |
|---|---|
| `AddBatchStep`, `MegaRequestStep`, `FinishSearch`, `NoBeamsLeft` | an iteration up to its await: `_add_batch_step`, `_mega_request_step` with `register_beam_output_fn`, the final `_mega_request_cleanup`, the exception of `zip(*[])` |
| `ReceiveStep`, `ReceiveError`, `CancelSearch` | the answer, an error answer (only the mega branch cleans up), cancellation at the await |
| `PlainAdd`, `PlainAbort` | ordinary requests (vLLM) |
| `HandleAdd`, `HandleAddBatch`, `HandleStep`, `HandleCleanup`, `HandleAbort` | the branches of `process_input_sockets` and `_handle_mega_request_step_update` |
| `PushAbort` | one `aborts_queue.put` of the loop that follows the handler's `input_queue.put`; the thread reads no other message before it has put them all |
| `DrainInput`, `Schedule`, `Update`, `DeliverOutput` | vLLM's busy loop and output handler, external |

Abstractions. An id is a model value or `<<search, iteration, beam>>`, which
stands for a fresh uuid. A message keeps its kind, ids and width; tokens and
sampling parameters are left out, for no decision of the protocol looks at
them. `output_queue` is a set: outputs may be delivered in any order, the
code's order among them. `HandleAbort` puts on both queues in one step.
`CONSTANT Faults` names what may go wrong: `preproc` (`preprocess_add_request`
raises), `error` and `nologprobs` (answers of the engine), `cancel` (the HTTP
client leaves). Left out: asynchronous scheduling, several API servers, and
the path of `beam_search` for an engine client that has no
`mega_request_step_update` (`use_mega_request` false), which sends the beams as
ordinary requests.

Properties, the hazard behind each in `PROJECT.json`:

- `SingleFlight`: a session id is carried by at most one request on the wire,
  queued, scheduled or answered, and is registered exactly while it is.
- `AwaitedIsInFlight`: an awaiting search has a request or an answer under way,
  never both or neither.
- `CacheCoversSession`: the handler's branch for an unknown session is dead
  from the first answer to the end.
- `AbortsSpareTheAwaited`: pruned ids share `aborts_queue` with session ids,
  but a session id is there only after the end of its search.
- `OutputsAreAddressable`: no output goes to a branch id (which nobody
  listens to).
- `CacheFollowsItsSearch` (action property): entries are removed by the cleanup
  of their own search, and not put back after it.
- `SearchTerminates`, `DoneIsPurged`, `CancelledLeavesEngine`,
  `AbortedPlainLeaves` (liveness).

Fairness (`FairSpec`). Weak fairness for each coroutine (the event loop runs
what is ready), for the input thread, for the steps of the busy loop and for
delivery. Strong fairness, per search, for being scheduled and for being
finished: the patched request gets `priority = perf_counter()`, so older
requests go first, and a request that is scheduled again and again computes its
remaining tokens. What the environment does (`CancelSearch`, `PlainAdd`,
`PlainAbort`) has none: it may never happen.

## 4. SessionService and SessionRefinement

`SessionService` says what a search relies on: it asks, one question at a time
(`Ask`); the first question leaves a prefill entry (`Keep`); each question is
answered once, from the entry (`Respond`), and an entry is dropped only when its
search has ended and nothing is worked on under its name (`Purge`). It has no
sockets, queues, ids, aborts or processes. `SessionRefinement` maps `MegaSession`
to it: `busy` is `registered \cap Search`, that is everything on the wire, queued,
scheduled or in an output; `cached` is `beam_cache`; the rest has the same name.
`ImplementsService` is checked next to the safety properties and proved.

## 5. MegaLayout

A step is: the scheduler chooses requests and chunk lengths (`ScheduleRequest`,
`Preempt`), the model runner computes position ids and logits rows
(`PrepareInputs`), the attention builder decides which keys each query attends
to (`BuildMetadata`, or `BuildFails` on its assertion), and the log-probabilities
of the sampled rows are returned to the requests and read there (`Sample`). A token is `<<r, i>>`, the i-th of the
prompt of `r`, which is also the KV slot it is stored in; its value never
matters.

| Definitions | Code |
|---|---|
| `ComputedBlocks` | `patch_get_computed_blocks`: a prefix-cache hit of a mega request is cut at the last whole block of the prefix |
| `ScheduleRequest` | `patched_schedule`, `cache_len` of a scheduled request; how vLLM picks requests and chunks is any choice within the budget |
| `BeamBounds`, `FirstPosition`, `BeamIsComplete`, `ChunkBeam`, `MegaChunk` | `_compute_beam_bounds`, `_process_mega_decode_request` |
| `PlainChunk`, `VllmChunk`, `Chunk` | `patched_prepare_inputs` for an ordinary request, with and without a mega request in the batch |
| `StandardLen`, `SegmentedCacheLen` | `_segment_requests`, which writes `cache_len` back into `mega_data` |
| `MegaTokens`, `OutSlot`, `SegmentBeam`, `BeamSegments`, `LayoutAssertion` | `_build_mega_mappings` |
| `SuffixKeys`, `AttendedBy` | `cascade_attention`: cached prefix and suffix mapping of a mega query; `CausalKeys` is the external kernel's mask |
| `Columns`, `ChainedDim`, `Padding`, `Remux`, `Sample` | `patched_bookkeeping_sync`, `_remux_logprobs_tensors`: the rows of a request one after the other, padded with -inf and id 0 to `max_chained_dim`; nothing when no row was sampled (its early return) |
| `ReadBack` | the reader in `serving_engine.beam_search`: stride `total // beams`, and `_extract_and_dedup_segment` reads no more of a segment than one entry over the width |

The reference is what separate sequences would get: `OwnPosition(r, i)` and
`OwnKeys(r, i)`.

- `PositionsAreTheBeams`: every token gets the position of its own sequence,
  wherever the chunk begins and ends.
- `AttentionIsPerBeam`: every query attends exactly once to every key of its own
  sequence and to nothing else, and no beam key comes from the prefix cache.
- `AnswersAreComplete` (action property): a request whose tokens are all computed
  reads, for each of its beams and in beam order, the log-probabilities of that beam's
  last token, whatever the chunks, the batch and the preemptions, exactly when it is
  `Undisturbed`, and then ends when it should. Two things disturb: a request of the
  step with more rows than it has beams, which pads its answer, so that the stride
  misses every beam but the first; and, for an ordinary request, to decode in a step
  with a mega request. Both are what the code does (deviations, section 12).
- `FailsOnlyOnSplitBeams`: the assertion of the builder can fail only on a
  request that an earlier chunk of its own left inside its beams.

`fresh` (tokens computed since the last cache hit) and `preemptions` are
history variables. Left out: the numbers the kernels compute, speculative
decoding, and what section 14 lists.

## 6. BeamSelect

One search, one step per iteration: the model's answer and all of the
post-processing that follows it (`Step`), then the answer (`Finish`). The calls
that may be made are records (`Requests`), one of which is chosen in `Init`. Beams are
indices into `tree`, which has every beam ever made with its `_lp_parent` and
`_lp_step_data`. What the model says is an injective function from tokens to
log-probabilities for each beam, any of the call's `log_probs`; `Row` (external) is what
vLLM returns of it, the sampled token on top of the best `logprobs_num`.

| Definitions | Code |
|---|---|
| `Trie`, `Valid` | `Catalog.load`, `Catalog.valid`; the nested dictionaries as the set of their paths |
| `Segment`, `Dedup` | stride over the flat list, `_extract_and_dedup_segment` (and its twin in `logprobs.py`, which iteration 0 uses: with one beam the stride is the row) |
| `Masked`, `Candidates`, `ParentOf` | catalog mask, the flat arrays of candidates, `idx // logprobs_num` |
| `EosIdx`, `EosBeam`, `WithoutEos` | finished beams and their -inf |
| `TopN` | `argpartition`: any order, any choice among equals |
| `StepsOf`, `Logprobs`, `BestBeams`, `Answer` | `reconstruct_beam_logprobs`, the final sort and cut |

-inf is `NegInf`, below every sum a call can reach (`LogProbAssumption`), and absorbs
additions. `InOrder` sorts: the elements of a set by the pairs that say which comes
first.

- `EveryBeamOwnsItsLogprobs`: one entry per token of a beam, which holds that
  token once, and the score is their sum. The one exception is stated too: a beam that
  was told to stop may be kept for want of others, goes on with -inf and is answered
  with log-probabilities that do not add up to it (`WentOn`).
- `BeamsAreDistinct`: no sequence is searched or answered twice.
- `AnswersAreReal`: without a catalog the answer has `beam_width` sequences of
  finite score, although a finished beam takes up a candidate.
- `BeamsAreBest` (action property): with `ignore_eos`, temperature 0 and no
  catalog, no continuation over the whole vocabulary beats a kept one. With
  end-of-sentence tokens or sampling this does not hold, and no text says it
  does: such a token takes the place of one of the `beam_width` candidates.
- `CatalogIsRespected`: with a catalog, an answer of finite score is an item, begin
  and end token included, if the items are as long as the answers and end in the end
  token (`CatalogFits`, which TLC evaluates for the calls of the run; one of
  score -inf need not be: section 12).

## 7. CoreClient

The client side of data parallelism: which engine a message goes to, what is
recorded about it, and how engines that paused together are woken.

| Actions, definitions | Code |
|---|---|
| `ChooseRank`, `RankFor` | `_next_data_parallel_rank`; the lock is held from read to increment |
| `AddBatchStep`, `MegaRequestStep`, `FinishSearch` | the iterations of `beam_search` and the final cleanup, with and without a client that has `mega_request_step_update` (`use_mega`) |
| `AddRequests`, `Register`, `Pop`, `StepUpdate`, `EngineOf`, `Send`, `Notify` | `add_requests_async`, `mega_request_step_update_async`: the entry in `reqs_in_flight`, the message, FIRST_REQ when the engines are believed idle |
| `Deliver` | outputs processed: ids leave `reqs_in_flight`; with the last one awaited the search goes on |
| `ForwardFirstReq`, `HearOfEngines`, `Receive`, `LockStep` | external: stats task and coordinator, the engines' input, all engines stepping together until none has work (a *wave*) |

- `StepsReachTheirEntry`: whatever is under way for a search is with the engine
  of its rank, and a step is never there without the prefill entry. The rank is
  handed through three layers, in two kinds of messages that find their engine in
  two ways.
- `InFlightPointsHome`: `reqs_in_flight` names that engine for every id, and an
  awaited batch is complete in it, so an abort would reach the right place.
- `OnlyParentsStay`: what a finished search leaves in `reqs_in_flight` is exactly
  the ids of branches that had children. These are popped neither as pruned nor
  with an output and stay for the life of the client; the property says that
  nothing else does.
- `SearchTerminates`: every search ends although the engines stop whenever none has
  work and the client's view of them is late.

Fairness: coroutines, sockets, delivery of outputs, the stats task and the
engines' lockstep are weakly fair: each goes on when it can. Left out: the client
without data parallelism (one engine gets everything), external and hybrid load
balancing, the coordinator's skipping of the engine that FIRST_REQ names (it
has the request itself), and lost messages (ZMQ within a machine).

## 8. OfflineBeams

`LLM.beam_search` for several prompts: batches of `concurrency_limit` prompts
(`NextBatch`), one flat list of all beams of the batch to the model (`Generate`,
`Offsets`), then instance by instance the selection from its slice (`Select`, or
`NoLogprobs` which raises for the whole call), and the answer (`Finish`). A
prompt is a name with a length; a call is a record of its parameters.

- `AnswersAreOfTheSearchAlone`: at temperature 0 every prompt gets exactly the
  best sequences of its own search, best first, where that search (`Alone`) is
  defined by sets and knows no list, slice, batch or index. Where continuations or
  answers are equally good the code may keep either, and so may the search
  (`AfterStep`, `Bests`): the reference is the set of the answers that are right.
- `ChargedForItself`: the score and the log-probabilities of every beam are what
  the model said about that beam's own tokens, whoever stood next to it; a beam
  that was told to stop goes on at -inf only.
- `AnswersAreReal`: `beam_width` sequences of finite score with one entry per
  token, although a beam that ends takes the place of a candidate.

Left out: two equal prompts, more than one row without log-probabilities at a time
(the first raises), a length penalty other than the default 1, multimodal input,
LoRA, text. The break on an empty `all_beams` is in `EndOfBatch`; it is not
reached, since a beam that stops stays in the list at -inf.

## 9. MinHeap

`push_candidates_striped` goes through all chunks side by side, a row at a time
(`Call`, `Visit`, `NextRow`, `Return`), skips end-of-sentence tokens, and leaves a
chunk at its first rejected candidate; `push_list` and `push` try every item
(`CallList`, `Push`, `ReturnList`). Arguments it rejects change nothing
(`CallInVain`). The heap is its set of items; which of several lowest items is at
the top is any choice (`Keep`, `Reject`), so the layout of the binary tree
does not matter.

- `KeepsTheBest`: after every call the heap holds the `max_size` best of everything
  it was ever offered. This needs `SortedAssumption`: each chunk comes sorted. The
  class does not check that, and nothing in the Python code calls it yet; rows of
  log-probabilities come sorted.
- `HeapInv`: in the middle of a call it is the best of everything except what the
  call will still come to (`Ahead`); in particular it is never longer than
  `max_size`.

Left out: a comparison that raises in the middle of a sift (scores are numbers),
and `max_size` 0, where the code would read the top of an empty heap.

## 10. Bootstrap

The plugin replaces attributes of vLLM's classes, so every interpreter needs the
replacements. An interpreter is a record (`Interpreters`) of what it has:
`_PATCHED`, the class attribute `run_engine_core`, the saved original, the guard,
the message types, the wrapped methods. `PatchBatchAndFork`, `RunPatch`,
`ImportInit`, `ApplyChildPatches` are functions of such a record, since fork copies
it. The specification is `BootSpec`.

| Actions | Code |
|---|---|
| `CallRunPatch`, `ImportInitModule`, `CallPatchBatchAndFork` | `run_patch()`, `import vllm_gr.init`, the exported function the tests call |
| `Fork`, `Spawn`, `SpawnImporting` | the engine process is started: a copy of the parent, or fresh, with its target found by name, with or without the main module importing the plugin |
| `RunOriginal`, `RefuseToRecurse`, `EnterWrapper`, `Apply`, `Return`, `Reenter` | `run_engine_core`: validation of the original, guard, patches, the call, `finally` |

- `EngineServesItsClient`: an engine started by a parent whose client can send
  batches decodes and serves them, however it was started.
- `StartsUnlessPatchedTwice`: neither guard refuses a legitimate start.
- `NeverItsOwnOriginal`: patching twice ends in the RuntimeError, never in endless
  recursion.
- `GuardMeansInside`: the guard is set exactly while a call is inside.
- `PatchesDoNotStack` (proved, not in a run): at most one wrapper around scheduler
  and model runner. `EngineCore.__init__` is wrapped again by each call.

`env` says whether vLLM's enum has the expected structure, whether the model
runner's modules can be imported, and whether autopatch is on. Left out: the
in-process engine, tensor-parallel workers, failures of `Apply` (the child has
the vLLM of its parent).

## 11. GpuLock

Scripts scan for idle GPUs, start a background process on each that allocates a
little memory, work, and kill the processes. One action per look at a process, a
file or `nvidia-smi`: `Find`, `PassOver`, `ScanAgain`, `TimeoutReached` (`get_gpus`);
`StartLock`, `SeeItDead`, `SeeItAlive`, `ReadReady`, `ReadNothing`, `GiveUp`,
`RollBack`, `Work` (`lock_gpu`, `lock_gpus`); `EndWork`, `Unlock`, `Finish`
(`unlock_gpus`); `PrintReady`, `Allocate`, `Fail` (`lock_gpu.py`); `Crash`.
`get_gpu` and `lock_gpu` alone are the case of one wanted GPU.

- `OnlyCrashesLeak`: a lock process that lives belongs to a script that will still
  kill it, whatever fails; only a killed script, or one that `set -e` ended inside
  `unlock_gpus`, leaves one.
- `WorksOnWhatItWanted`: a working script knows a lock process on as many different
  GPUs as it wanted; each has printed READY, and each lives, except that on a GPU of
  `MayFail` it may have died by itself after READY. `lock_gpu` has then returned the
  pid of a dead process (a deviation, section 12).
- `EveryScriptEnds`: scripts that want several GPUs do not wait for each other for
  ever; only one without a timeout may wait for what a killed one has locked.

Fairness: every script goes on; for scripts with a timeout, strong fairness of
`TimeoutReached`, because the clock runs on while passes are repeated. A lock
process has none: it may hang in the driver, which is what the bound of the poll is
for. Left out: no GPUs at all (an immediate return), reuse of pids.

## 12. Runs

| Run | Instance | Shows |
|---|---|---|
| `session_safety` | 2 searches, 2 beams, 3 iterations, every fault, symmetry of the searches | the safety properties of `MegaSession`; every step is one of `SessionService` or unseen by it |
| `session_liveness` | 1 search and 1 ordinary request, 2 beams, 3 iterations, every fault, `FairSpec`, no symmetry | the four liveness properties |
| `session_error_leak` | 1 search, `error` only, `FairSpec` | finding 1 |
| `layout_steps` | 2 mega requests (widths 3 and 2), 1 ordinary request of 2 tokens, budget 11, every chunk and cache hit, one preemption of the wider and of the ordinary one | positions, keys and answers are those of separate sequences, after a restart too; which answers are not |
| `layout_split_beams` | 1 mega request, 1 prefill, budget 7 | finding 2 |
| `client_searches` | 2 searches (2 beams and 3 iterations; 1 and 1), 2 engines, with and without mega requests, `FairSpec` | routing, in-flight accounting, wake-up |
| `select_calls` | width 2: sampled, 3 tokens, 2 steps; greedy, 3 steps; `ignore_eos` over every ranking of 4 tokens; begin and end token with a catalog of 3 items | own log-probabilities, distinct and finite answers, the best are kept, answers are items |
| `offline_calls` | width 2: two prompts in one batch; three in batches of two; sampled with rows missing | every prompt is answered as if alone |
| `heap_calls` | size 2, 2 calls of up to 4 candidates in up to 2 chunks, or lists of up to 3; scores 1 to 3 | the heap is the best of everything offered |
| `bootstrap_start` | 2 engine processes, 2 patch calls, 2 calls of `run_engine_core` each | patched before serving, no self-delegation |
| `gpu_scripts` | 2 scripts (one wants 3 GPUs and may be killed, one has a timeout), 5 GPUs of which one is in use and one broken, lock processes may fail on two, `FairSpec` | nothing leaks, locks are held, every script ends |
| `gpu_race` | 2 scripts, 2 GPUs | finding 3 |

Bounds and why they are enough.

- *Session.* Three iterations are the prefill and two mega steps: the first step has
  the prefill as its only parent, the second has branches as parents, prunes some
  and reuses the session id; a fourth repeats the third. Two beams keep one branch
  and prune another; two searches can mix up ids and aborts.
- *Layout.* m1 has a prefix of five tokens over blocks of two (unaligned, and long
  enough for `_segment_requests` to split off a prefix of two blocks or not to),
  three beams (the first, a middle one, the last) of two tokens, so a chunk can
  end in the prefix, at its end, between beams and inside one; m2 has a prefix
  shorter than a block. The budget of 11 is the whole of m1, so a chunk may be
  everything, and the last chunks of both may share a step, where the wider pads the
  answer of the narrower. p1 asks for two tokens: its prompt completes and it decodes,
  with and without mega requests. `MaxPreemptions` bounds preemption: m1 and p1 once, m2
  not at all (it would be m1 on a smaller scale).
- *Core client.* Two engines make the one without work keep the other waiting; the
  search of one beam and one iteration overlaps every phase of the other one, and
  is the single request that is sent the ordinary way.
- *Selection.* Width 2 gives a first and a last beam and a stride; the profile -1,
  -2, -4 makes children of different parents meet in ties and overtake each other.
  Offline, no two sums of the profiles `First` and `Second` are equal, so there is
  one right answer; with `First` and `Level` continuations of different beams are
  equally good, and the reference has several.
- *Heap.* Size 2 and chunks of up to three: a chunk may be left with better ones still
  coming elsewhere, an end-of-sentence token may stand before, between and behind,
  and the second call meets a full heap.
- *Bootstrap.* `MaxPatches` 2 is patched once and once too often, `MaxCalls` 2 the
  first and a later call of an interpreter. Deadlock checking is off in this run
  alone: when both processes have ended and the bounds are used up nothing is
  left to do.
- *GPU lock.* `MaxPolls` 2 has a round before and one after READY; idle GPUs in
  front of a script that wants all and one that wants one let each hold what the
  other needs. Of the three, lock processes fail on the first and the last, and
  the one between them must live.

Findings, each with the run that shows it:

1. `ErrorPathCleansUp`: `serving_engine.py:518` returns without the cleanup that
   the mega branch sends (line 473) and `tests/test_batch_and_fork_unit.py:1252`
   describes.
2. `BuildNeverFails`: the token budget may end a chunk inside the beams;
   `beam_attn.py:355` then asserts. `_compute_beam_bounds` and the kernel test
   treat that case as normal.
3. `OneScriptPerGpu`: `tools/run_act.sh:13` locks a GPU "to prevent other scripts
   from using it", but finding and locking are two steps and `lock_gpu` does not
   look whether it is locked already.

Deviations met while modelling that no run states as a property:

- `engine_core_patch.py:603` leaves a *decoding* ordinary request without a logits
  row in a batch with a mega request, and it is answered with token -1 and padding;
  the comment at line 401 speaks of intermediate prefills only. When no request of the
  step has a row, `_remux_logprobs_tensors` returns early (line 393); what vLLM makes
  of that is not in the repository, and the request stays as it is in the model.
- `serving_engine.py:485`: with two widths in one step, `max_chained_dim`
  (`engine_core_patch.py:665`) pads the answer of the narrower request, and
  `total // beams` is not the length of a beam's rows any more: all its beams but the
  first read entries of other beams or padding. Lines 482-483 print a message and go
  on; the comments at 488 and 494 have each beam extract its own segment.
- `serving_engine.py:364`: with no beam left `zip(*[])` raises out of the search, and
  nothing sends the cleanup (`NoBeamsLeft`); the prefill entry stays.
- `serving_engine.py:569` and `608`: when fewer than `beam_width` candidates are in the
  catalog, masked ones fill up the beams and the answer;
  `examples/online_serving/catalog/README.md:13` says the catalog eliminates items
  that do not exist.
- `serving_engine.py:353` asks the client object for the capability (comment at 352),
  which may have been patched after its engine was started.
- `patch.py:26` sets `_PATCHED` before the patches are applied, so a second
  `run_patch` after an error reports that they are.
- `tools/lock_gpu.py:84` prints READY before it allocates the memory by which, says
  `resource.sh:107`, other scripts are kept from selecting the GPU.
- `tools/lock_gpu.py:84` prints READY before `eglMakeCurrent` and the allocation, either
  of which may fail: the process may be dead when `resource.sh:143` returns its pid.
  `tests/development/test_resource.sh:46` fails in that case ("Background process
  $LOCK_PID is not running").
- `tools/resource.sh:157`: under `set -e`, `unlock_gpus` ends at the first process that
  is gone; `docs/tools/README.md:73` has it unlock all.
- `docs/tools/README.md:18` names 4 as the default of `alloc`, `resource.sh:32`
  has 16.

## 13. Proofs

All statements are for every value of the constants that satisfies the named
assumptions: ids of searches, ordinary requests and branches are disjoint (they are
uuids), widths, lengths, block sizes and budgets are positive, there are at least
two engines in `CoreClient`, chunks are sorted in `MinHeap`; in `BeamSelect` the
vocabulary is finite and larger than the width, and a model gives the tokens of a
row different log-probabilities, at most 0, whose sums stay above `NegInf`. In
`OfflineBeams` the same is said of the vocabulary (`TokenAssumption`) and of the model
(`OpinionAssumption`); the prompts of a call differ, are at least one token long, and
none of them, being a name, is the end-of-sentence token (`CallAssumption`).

**`MegaSessionProofs`.** `SessionInvariant` shows `Spec => []SessionInv`, from which
`TypeCorrect`, `SessionIdsAreSingleFlight`, `NoLostStep`, `CacheIsThere`,
`AbortsAreSafe` and `NobodyIsRejected` follow, and `CacheDiscipline` with one
more look at the steps that touch `beam_cache`. The properties are not inductive
one by one:

- that a step finds its entry needs to know what is on the wire: an update with
  `width > 0` names a cached search, a cleanup names one that is over
  (`MessageOK`);
- that an abort spares the search needs that pruned ids are branches or the
  prefill of a search that is over, hence that `prev_ids` are what they should
  be in every iteration and parent indices point into them (`BeamsOK`);
- that a first answer finds the entry needs that whatever is queued, scheduled
  or answered without an error was cached when it was accepted
  (`CachedOnceAccepted`).

The proof first establishes `TypeInv` for each action, then `SearchInv(s)`
search by search. A step concerns one search; `SearchFrame` says that a search
none of whose ids moved keeps its invariant, and `Send`, `Receive`, `Enqueue`
and `Dequeue` say what the two sequences hold of an id after each operation.

The refinement, at the end of the module: `Implementation` is
`Spec => ImplementsService`. Each action is one action of the service or `Unseen`. What `SessionInv` says of waiting
searches is also needed of cancelled ones: no answer is waiting while a question is
worked on, and the entry stays until they end (`Pending`).

**`MegaLayoutProofs`.** Every invariant of the layout, for every prefix, width, step
count, block size, budget and chunking. `LayoutInvariant` and `FailureNeedsSplit` need
only where a chunk starts: a running mega request started within its prefix
(`StartsInPrefix`, because a hit is cut at whole blocks of the prefix:
`CacheHitStaysInPrefix`), a request of the step has computed at least its chunk, and
`cache_len` is where its chunk starts until the builder overwrites it. If the builder
splits off a part of the prefix, that part is at most what is missing of it
(`MinOfTwo`), so the assertion could not have failed; hence `cache_len` was beyond the
prefix before the step, and an earlier chunk put it there.

The other theorems say what the two loops over the beams compute. `Filled(r, c, n, b)`
is how many of the `n` tokens of a chunk that starts at `c` belong to the prefix and the
first `b` beams, in closed form; both loops have spent just that after `b` rounds
(`BoundsFit` for `_compute_beam_bounds`, `SegmentFill` for `_build_mega_mappings`),
although they compute it differently.

- `PositionsOfTheBeams`: `ChunkBeamFills` adds one beam to the positions,
  `MegaChunkPositions` goes over all of them, and `FlattenTogether` carries the
  statement from the chunks to the batch.
- `AttentionOfTheBeams`: a segment's keys are those of the tokens in its slots
  (`SegmentKeys`, `ChunkIsMapped`), the last `un` of them the segment's own
  (`SuffixIsKeys`); with the cached prefix in front they are `Keys(r, i)`, an
  enumeration of `OwnKeys(r, i)` without repetition (`KeysAreOwn`). Standard attention
  over a part of the prefix gives its tokens the same (`StandardKeys`).
- `AnswerInvariant` (`Spec => []AnswerInv`): the rows of a step are those of its chunks
  (`RowsAreLaidOut`), a sampled mega chunk started within its prefix (`AssertionHeld`,
  which is what the assertion of the builder is good for: a chunk that starts inside
  the beams would be answered with some of the rows only), and what was read of the
  padded answers is the request's own (`AnswersAreOwn`). `CursorFinds` shows where the
  rows of a request are, `RemuxIs` what the flat answer holds and where the padding
  begins, `StrideIs` that the stride is at least as long as what each row
  contributes, and longer when a request with more rows sets `max_chained_dim`. `MegaReads` and `PlainReads` put
  them together.
- `CompleteAnswers` (`AnswersAreComplete`) holds without a hypothesis, because the
  property names both disturbances: `MegaReads` proves that a disturbed second beam
  starts reading at an entry that is not its own, since the beams end at different
  tokens (`BeamEndsDiffer`).
- `MegaAnswers` says the same of what requests have at the end: a mega request that no
  other one exceeds in width has read all that is due to it, a narrower one at least
  that of its first beam, an ordinary one its first answer. `TypeCorrect` follows
  from `AnswerInvariant` too.

**`BeamSelectProofs`.** All properties of `BeamSelect`. `StepIs` and `GrownIs` take a
step apart once: there are data, the candidates that end and those top-n keeps
(`Selected`), and the tree, the beams and `completed` grow by them (`GrownTo`). The
stride of the flat list leads back to each beam's own row (`StepDataIs`), and
`ParentOf` and `RankOf` say whose candidate an index is.

- `SearchInvariant` (`Spec => []SearchInv`) is what the rest stands on: the variables fit
  together (`Shape`), a beam of the search is as long as the search is old (`Levels`),
  parents come before children (`ParentsFirst`), no finite score is below what the steps
  so far can have spent, so none is mistaken for -inf (`Scores`), and the answer is made
  of the last beams (`Answered`). `TypeCorrect` follows.
- `NoBeamTwice`: two candidates of finite score are of different beams or different
  tokens (`CandidatesApart`, because the sampled token is dropped where it is a second
  entry), and beams of one level that differ stay different whatever is appended.
  Beams completed in
  earlier steps are shorter.
- `AnswersAreItems` has the hypothesis `CatalogFits`. `SearchStaysOnTrie` has none: a beam
  of finite score is on a path of the trie. A path as long as the items is an item.
- `EnoughRealAnswers`: every step leaves `beam_width` different live beams of finite
  score (`Enough`). That is not a statement about the current beams, since Eos takes
  candidates away. Either top-n takes finite ones only, or it takes one of -inf,
  and then it has left nothing finite out (`NothingLeftOut`), and the candidates
  of one beam of finite score alone, ended ones included, are `beam_width` many; where no
  such beam is left, what was enough before is still live, all of it completed. The
  final sort and cut keep them, by counting ranks.
- `StepKeepsTheBest`: if all candidates of a beam are taken, no other is
  (`AllOfOneBeam`), and a token that is not among them is worse than each.
  Otherwise one of its candidates was left out; it bounds from below what is kept, and
  from above the tokens that were no candidates.
- `LogprobsAreOwn`: each beam is its parent and one token, which the shared step data
  hold once (`Family`). `StepsOfIs` shows that the recursion along the parents is well
  defined, and `AllTell` goes down the tree: what is collected tells the path, and
  its sum is the score, or -inf for a beam that went on after Eos.

**`SequenceFacts`** holds what these proofs need of recursion: induction as a fact about
sets of numbers (`Induction`), that a loop `f[k] == IF k = 0 THEN base ELSE F[k][f[k-1]]`
is well defined (`LoopExists`), and where the elements of a concatenation come from
(`FlattenPlace`, `FlattenTogether`, `FlattenAppend`). For the offline search it adds how
a concatenation is cut into its parts again by their offsets (`FlattenCut`), or by
division when all are equally long (`FlattenEven`, `Quotient`), and that a finite set
with a strict total order is what `InOrder` makes of it, each element once and none
before a smaller one (`InOrderIs`).

**`OfflineBeamsProofs`.** All properties of `OfflineBeams`, for every list of prompts, batch
size, width, number of steps, vocabulary and model. `Made(i)` is how many steps the
search of prompt i has made, whichever batch it is in.

- `BaseInvariant` (`Spec => []Base`) is what the rest stands on: which search has come how
  far and has how many beams (`Shape`); each beam starts with its own prompt, is as long
  as its search is old, and differs from the others (`Lineage`); while slices are left
  to select from, each is the beams of its prompt with what came back for them
  (`Pending`). The last is not inductive without the middle one: two beams with the same
  tokens would share one entry of `said`, though each got a row of its own. `SelectSteps` then reduces `Select` to one
  step of one search on its own beams and rows (`OneStep`), where `PlaceAtOf` undoes the
  division by which the code finds a candidate's beam.
- `ChargedForItselfHolds`: `Accounts` says it beam by beam. That a later answer does not change
  what was said of an earlier beam needs that the beams asked about are longer than
  those asked before (`OlderNotAsked`) and begin with different prompts.
- `AnswersAreRealHold`: as online, the number of beams of finite score is not kept by the
  current beams, since a beam that ends takes the place of a candidate. `Enough` says
  that there are `beam_width` of them among the current and the completed ones;
  `EnoughOn` shows that a step leaves as many: those there were, if all current beams
  have gone on past their end, the ones kept, or all candidates of one beam of finite
  score. The sort key orders the finals strictly, finite ones first (multiplying
  out the division by the lengths, which are positive), and by a pigeonhole argument
  the first `beam_width` are finite (`BestOnesAreFinite`).
- `EveryPromptAsIfAlone`: a refinement, prompt by prompt. `Real` reads a list of beams as
  the set of those of finite score. `StepLeads` shows that what `Select` does to it is a
  step that the search alone may make (`Follows`): the candidates in the list that are
  not lost are its continuations, and what top-n keeps of them is one of the choices
  in `Bests`; with -inf for those that end, or come from a beam that has ended, they are
  what is left over. `Searches` collects such steps into the `Course` of a search from
  its start to where it is. That `said` grows does not disturb it, again because older
  beams are not asked about. `LevelsExist` shows that the recursion that defines `Alone`
  has its values, so that a course of all steps ends in it (`AloneHas`). In the end
  different beams have different sequences (`Different`: a beam of finite score has not
  ended, hence is none of the completed ones), so the sorted list cut at `beam_width` is
  one of the choices of `Bests` too (`BestOnesAre`), and it is in order (`BestFirst`).

**`CoreClientProofs`.** `EntryIsReached`, `InFlightIsTrue` and `NothingElseLeaks`. The invariant follows a
search through the places it leaves traces in: messages (`MessageOK`), engines
(`EngineInv`), outputs (`OutputInv`). Whatever bears its name is at its rank, and
from the moment its prefill is taken in until its cleanup the entry is there. That
the cleanup cannot overtake a step rests on `CleanupIsLast`: nothing of a search
follows its cleanup in the socket. `Later` says what a step may not take back, and
the three parts are kept by any such step that leaves their variables alone.
What stays in `reqs_in_flight` needs a second invariant on top (`Flight`): with mega
requests the engines answer session ids only, what is in flight are the last beams
and the parents of earlier ones, and the former are of a later iteration than the
latter, so the cleanup pops exactly the last beams.

**`MinHeapProofs`.** `HeapInvariant`, hence `SizeIsBounded` and `BestAreKept`. When a
chunk is left, the heap is full and its lowest score is at least that of the rejected
candidate, and, the chunk being sorted, of everything behind it; so what is dropped
from `Ahead` may be dropped from the reckoning as well.

**`ProcessProofs`**, of `GpuLock` and `Bootstrap`.

- `TypeCorrect`, `NoLeak`, `WorksOnAll`. The invariant follows the list of a script:
  ascending and below the loop variable while it scans, hence without a GPU twice; the
  pids are a prefix of it while it locks; what is still to be killed is behind the loop
  variable while it unlocks. `Places` says in each stage where a lock process may live.
  `WorksOnAll` needs one more invariant, `DeadHaveFailed`: until a script gives up or
  unlocks nobody kills its lock processes, so one that is dead is on a GPU of `MayFail`.
- `ClientIsServed`, `LegitimateStartsSucceed`, `NoSelfDelegation`, `GuardAndLayers`. In
  every interpreter the attribute, the saved original and the client's methods tell the
  same number of calls of `patch_batch_and_fork` (`Consistent`); a copy of a consistent
  interpreter is consistent, so forks inherit it, and a spawned child starts from a
  fresh one.

Every invariant and every step property that a passing run checks is a theorem. Only
model-checked are the liveness properties (out of the prover's reach, as is ENABLED):
those of `session_liveness`, `client_searches` and `gpu_scripts`. The three findings are
counterexamples that TLC shows; the theorem `FailureNeedsSplit` says when the second can
happen at all.

## 14. Not modelled

Besides what each section leaves out: kernels (floating point), benchmarks, argument
passing, examples, CI and the developer scripts around linters (single-shot, no
state), the empty subclasses. `collect_env.py` and `tools/pre_commit` are among
these and large. In `MegaLayout`: the second build of the metadata when vLLM has
several attention groups, the row maps that vLLM's bookkeeping is given
(`engine_core_patch.py:596`), and reuse by ordinary requests of blocks that were
cached under a mega request's flat tokens (`core.py:137`); all three depend on code
that is not in the repository.
