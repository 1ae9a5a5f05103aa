----------------------------- MODULE Bootstrap -----------------------------
(***************************************************************************)
(* How vllm-gr gets into the Python interpreters it has to run in.  The    *)
(* plugin only replaces attributes of vLLM's classes, so each interpreter  *)
(* needs the replacements: the parent, which is the API server or a        *)
(* script, and every engine-core process it starts, forked (a copy of the  *)
(* parent as it is then) or spawned (fresh, and executing the parent's     *)
(* main module again, which may import vllm_gr.init).  What decides        *)
(* between a running engine and an endless self-call is the pair of the    *)
(* class attribute EngineCoreProc.run_engine_core and the original saved   *)
(* beside it, as each interpreter has them.                                *)
(*                                                                         *)
(* Init, Next and the like have a prefix here, so that one proof module    *)
(* can extend this module and GpuLock.                                     *)
(***************************************************************************)
EXTENDS Naturals

CONSTANTS
    Children,     \* engine-core processes
    MaxPatches,   \* bound: calls of patch_batch_and_fork in a line of copies
    MaxCalls      \* bound: calls of run_engine_core in one interpreter

ASSUME BootAssumption ==
    /\ MaxPatches \in Nat
    /\ MaxCalls \in Nat

VARIABLES
    env,          \* what the interpreters share, see Environments
    parent,       \* the parent's interpreter
    imported,     \* its script has imported vllm_gr.init
    life,         \* per child: where it stands
    child,        \* per child: its interpreter
    target,       \* per child: the function it was started to run
    offered,      \* per child: the parent's client could send batches then
    calls,        \* per child: calls of run_engine_core
    nested        \* per child: something inside the engine called it again

parentVars == <<parent, imported>>
childVars == <<life, child, target, offered, calls, nested>>
bootVars == <<env, parentVars, childVars>>

(* vLLM's message enum has the structure the plugin expects; the modules   *)
(* of the model runner can be imported; VLLM_GR_AUTOPATCH is not off.      *)
Environments == [compatible : BOOLEAN, importable : BOOLEAN, autopatch : BOOLEAN]

Functions == {"original", "wrapper"}
MessageTypes == {"ADD_BATCH", "MEGA_REQUEST_STEP_UPDATE"}

(* What an interpreter knows: _PATCHED, the two attributes of the wrapper, *)
(* the re-entry guard, and which of vLLM's classes are patched; for those  *)
(* that are wrapped, how many wrappers are around them.  count is not in   *)
(* the code: it counts the calls of patch_batch_and_fork.                  *)
Interpreters == [patched : BOOLEAN, api : BOOLEAN, client : BOOLEAN,
                 types : SUBSET MessageTypes,
                 attribute : Functions, saved : Functions \cup {"none"},
                 active : BOOLEAN, input_thread : BOOLEAN,
                 init : Nat, schedule : Nat, worker : Nat, count : Nat]

Fresh == [patched |-> FALSE, api |-> FALSE, client |-> FALSE, types |-> {},
          attribute |-> "original", saved |-> "none", active |-> FALSE,
          input_thread |-> FALSE, init |-> 0, schedule |-> 0, worker |-> 0,
          count |-> 0]

BootInit ==
    /\ env \in Environments
    /\ parent = Fresh
    /\ imported = FALSE
    /\ life = [c \in Children |-> "absent"]
    /\ child = [c \in Children |-> Fresh]
    /\ target = [c \in Children |-> "original"]
    /\ offered = [c \in Children |-> FALSE]
    /\ calls = [c \in Children |-> 0]
    /\ nested = [c \in Children |-> FALSE]

-----------------------------------------------------------------------------
(* Patching, as functions of the interpreter it happens in.                *)

(* _add_enum_member skips a member that is there and raises if it cannot   *)
(* add one that is not.                                                    *)
CanAddTypes(i) == env.compatible \/ MessageTypes \subseteq i.types

AddTypes(i) == [i EXCEPT !.types = @ \cup MessageTypes]

ApplyBatchForkPatches(i) == [AddTypes(i) EXCEPT !.client = TRUE]

(* Called twice it saves the wrapper as the original of the wrapper.       *)
PatchBatchAndFork(i) ==
    IF CanAddTypes(i)
    THEN [ApplyBatchForkPatches(i) EXCEPT
            !.saved = i.attribute, !.attribute = "wrapper", !.count = @ + 1]
    ELSE i

(* The flag is set first; an error in the last step leaves it set.         *)
RunPatch(i) ==
    IF i.patched THEN i
    ELSE PatchBatchAndFork([i EXCEPT !.patched = TRUE, !.api = TRUE])

RunPatchRaises(i) == ~i.patched /\ ~CanAddTypes(i)

ImportInit(i) == IF env.autopatch THEN RunPatch(i) ELSE i

ImportRaises(i) == env.autopatch /\ RunPatchRaises(i)

ApplySchedulerPatch(i) ==
    IF i.schedule > 0 THEN i ELSE [i EXCEPT !.schedule = @ + 1]

(* Only logs a warning if the model runner's modules cannot be imported.   *)
ApplyWorkerPatches(i) ==
    IF i.worker > 0 \/ ~env.importable THEN i ELSE [i EXCEPT !.worker = @ + 1]

(* EngineCore.__init__ is wrapped again by every call, the scheduler and   *)
(* the model runner are not.                                               *)
ApplyChildPatches(i) ==
    ApplyWorkerPatches(ApplySchedulerPatch(
        [AddTypes(i) EXCEPT !.init = @ + 1, !.input_thread = TRUE]))

(* What an interpreter needs to serve the messages of the online search.   *)
Serves(i) ==
    /\ MessageTypes \subseteq i.types
    /\ i.input_thread
    /\ i.init > 0
    /\ i.schedule = 1
    /\ i.worker = 1

-----------------------------------------------------------------------------
(* The parent.                                                             *)

(* The vllm command, the evaluators and the tests call run_patch().        *)
CallRunPatch ==
    /\ parent' = RunPatch(parent)
    /\ parent.count < MaxPatches
    /\ UNCHANGED <<env, imported, childVars>>

(* A script imports vllm_gr.init; Python executes the module once, and     *)
(* again only if the import raised.                                        *)
ImportInitModule ==
    /\ ~imported
    /\ parent.count < MaxPatches
    /\ imported' = ~ImportRaises(parent)
    /\ parent' = ImportInit(parent)
    /\ UNCHANGED <<env, childVars>>

(* The tests call the exported patch_batch_and_fork() themselves.          *)
CallPatchBatchAndFork ==
    /\ parent.count < MaxPatches
    /\ parent' = PatchBatchAndFork(parent)
    /\ UNCHANGED <<env, imported, childVars>>

(* vLLM starts a process whose target is the class attribute of the moment.*)
Start(c, interpreter, function, stage) ==
    /\ life[c] = "absent"
    /\ life' = [life EXCEPT ![c] = stage]
    /\ child' = [child EXCEPT ![c] = interpreter]
    /\ target' = [target EXCEPT ![c] = function]
    /\ offered' = [offered EXCEPT ![c] = parent.client]
    /\ UNCHANGED <<env, parentVars, calls, nested>>

Fork(c) == Start(c, parent, parent.attribute, "up")

(* A spawned interpreter finds its target by name: the wrapper is a        *)
(* function of the plugin's module, the original is whatever the class     *)
(* attribute is in the child.                                              *)
ByName_Wraps(i) == i.attribute
ByName(i) == IF parent.attribute = "wrapper" THEN "wrapper" ELSE i.attribute

Spawn(c) == Start(c, Fresh, ByName(Fresh), "up")

(* The main module is executed again and imports vllm_gr.init before the   *)
(* target is looked up; if that raises, so does the child.                 *)
SpawnImporting(c) ==
    /\ imported
    /\ Start(c, ImportInit(Fresh), ByName(ImportInit(Fresh)),
             IF ImportRaises(Fresh) THEN "failed" ELSE "up")

-----------------------------------------------------------------------------
(* The child.                                                              *)

Goes(c, stage, interpreter) ==
    /\ life' = [life EXCEPT ![c] = stage]
    /\ child' = [child EXCEPT ![c] = interpreter]
    /\ UNCHANGED <<env, parentVars, target, offered>>

Called(c) ==
    /\ life[c] \in {"up", "done", "failed"}
    /\ calls[c] < MaxCalls
    /\ life[c] = "failed" => calls[c] > 0
    /\ calls' = [calls EXCEPT ![c] = @ + 1]

(* The engine was started before the parent was patched.                   *)
RunOriginal(c) ==
    /\ target[c] = "original"
    /\ Called(c)
    /\ Goes(c, "running", child[c])
    /\ UNCHANGED nested

(* A saved original that is not the wrapper is used, else the attribute.   *)
OriginalRun_AttributeOnly(i) == i.attribute
OriginalRun(i) == IF i.saved = "original" THEN i.saved ELSE i.attribute

RefuseToRecurse(c) ==
    /\ target[c] = "wrapper"
    /\ Called(c)
    /\ child[c].active \/ OriginalRun(child[c]) = "wrapper"
    /\ Goes(c, "failed", child[c])
    /\ UNCHANGED nested

EnterWrapper_NoValidation(c) ==
    /\ target[c] = "wrapper"
    /\ Called(c)
    /\ ~child[c].active
    /\ Goes(c, "applying", [child[c] EXCEPT !.active = TRUE])
    /\ UNCHANGED nested
EnterWrapper(c) ==
    /\ target[c] = "wrapper"
    /\ Called(c)
    /\ ~child[c].active
    /\ OriginalRun(child[c]) = "original"
    /\ Goes(c, "applying", [child[c] EXCEPT !.active = TRUE])
    /\ UNCHANGED nested

Leave_NoFinally(i) == i
Leave(i) == [i EXCEPT !.active = FALSE]

(* The message types can be added here if they could in the parent.        *)
Apply(c) ==
    /\ life[c] = "applying"
    /\ Goes(c, "running", ApplyChildPatches(child[c]))
    /\ UNCHANGED <<calls, nested>>

(* The busy loop of the engine ends, by a signal or an exception.          *)
Return(c) ==
    /\ life[c] = "running"
    /\ Goes(c, "done", Leave(child[c]))
    /\ UNCHANGED <<calls, nested>>

(* Something inside the engine calls EngineCoreProc.run_engine_core again: *)
(* the guard raises and the exception ends the outer call as well.         *)
Reenter(c) ==
    /\ life[c] = "running"
    /\ child[c].active
    /\ Goes(c, "failed", Leave(child[c]))
    /\ nested' = [nested EXCEPT ![c] = TRUE]
    /\ UNCHANGED calls

BootNext ==
    \/ CallRunPatch
    \/ ImportInitModule
    \/ CallPatchBatchAndFork
    \/ \E c \in Children :
          \/ Fork(c)
          \/ Spawn(c)
          \/ SpawnImporting(c)
          \/ RunOriginal(c)
          \/ RefuseToRecurse(c)
          \/ EnterWrapper(c)
          \/ Apply(c)
          \/ Return(c)
          \/ Reenter(c)

BootSpec == BootInit /\ [][BootNext]_bootVars

-----------------------------------------------------------------------------
Lives == {"absent", "up", "applying", "running", "done", "failed"}

(* The types of the variables; an interpreter knows no message type the    *)
(* plugin does not use.                                                    *)
BootTypeOK ==
    /\ env \in Environments
    /\ parent \in Interpreters
    /\ imported \in BOOLEAN
    /\ life \in [Children -> Lives]
    /\ child \in [Children -> Interpreters]
    /\ target \in [Children -> Functions]
    /\ offered \in [Children -> BOOLEAN]
    /\ calls \in [Children -> Nat]
    /\ nested \in [Children -> BOOLEAN]

(* An engine started by a parent whose client can send batches and step    *)
(* updates decodes and serves them, however its process was started and    *)
(* whatever its main module imported (run_engine_core, pickled by name,    *)
(* applies the patches before it delegates), if the model runner's modules *)
(* can be imported.                                                        *)
EngineServesItsClient ==
    \A c \in Children :
        (life[c] = "running" /\ offered[c] /\ env.importable) => Serves(child[c])

(* An engine core that was started comes up, unless vLLM's enum has        *)
(* another structure, patch_batch_and_fork was called twice, or something  *)
(* inside the engine called run_engine_core again: neither guard of        *)
(* run_engine_core refuses a legitimate start, forked or spawned, with or  *)
(* without the patches already there, the first or a later one.            *)
StartsUnlessPatchedTwice ==
    \A c \in Children :
        life[c] = "failed" => (~env.compatible \/ child[c].count > 1 \/ nested[c])

(* The wrapper never delegates to itself: an engine that runs under it has *)
(* vLLM's function as its original, so patching twice ends in the          *)
(* RuntimeError of run_engine_core and not in endless calls.               *)
NeverItsOwnOriginal ==
    \A c \in Children :
        (target[c] = "wrapper" /\ life[c] \in {"applying", "running"}) =>
            (OriginalRun(child[c]) = "original" /\ child[c].count <= 1)

(* The scheduler and the model runner have at most one wrapper each,       *)
(* although the patches are applied by every call of run_engine_core (the  *)
(* flags _patched_for_mega_requests, _patched_for_mega_beam_pos_ids).      *)
PatchesDoNotStack ==
    \A c \in Children : child[c].schedule <= 1 /\ child[c].worker <= 1

(* The re-entry guard is set exactly while a call is inside, whichever way *)
(* the last one ended (the finally of run_engine_core).                    *)
GuardMeansInside ==
    \A c \in Children :
        child[c].active <=> (target[c] = "wrapper" /\ life[c] \in {"applying", "running"})

=============================================================================
