------------------------------ MODULE GpuLock ------------------------------
(***************************************************************************)
(* The shell helpers that share the GPUs of a development machine: scripts *)
(* look for idle GPUs (get_gpu, get_gpus), lock them (lock_gpu, lock_gpus) *)
(* by a background process each that allocates a little memory, use them,  *)
(* and unlock them by killing the processes.  Nothing is shared but what   *)
(* nvidia-smi reports of the GPUs.  get_gpu and lock_gpu are the case      *)
(* Wanted = 1 of get_gpus and lock_gpus.  A lock process is named by the   *)
(* script that started it and its GPU.                                     *)
(***************************************************************************)
EXTENDS Integers, Sequences, FiniteSets

CONSTANTS
    Scripts,      \* the scripts that run
    GpuCount,     \* GPUs, numbered from 0
    Wanted,       \* per script: num_gpus
    Limit,        \* per script: mem_gpu
    Base,         \* per GPU: memory in use that no script accounts for
    Healthy,      \* the GPUs that nvidia-smi answers for in a state P<n>
    LockMem,      \* memory the lock process allocates
    MaxPolls,     \* rounds in which lock_gpu waits for READY
    Timed,        \* the scripts that give get_gpus a timeout
    ErrExit,      \* the scripts that call unlock_gpus under set -e
    MayCrash,     \* the scripts that may be killed
    MayFail       \* the GPUs on which lock_gpu.py may fail

Gpus == 0 .. GpuCount - 1

ASSUME ConstantsAssumption ==
    /\ GpuCount \in Nat \ {0}
    /\ Wanted \in [Scripts -> Nat \ {0}]
    /\ Limit \in [Scripts -> Nat]
    /\ Base \in [Gpus -> Nat]
    /\ Healthy \subseteq Gpus
    /\ LockMem \in Nat
    /\ MaxPolls \in Nat \ {0}
    /\ Timed \subseteq Scripts /\ ErrExit \subseteq Scripts /\ MayCrash \subseteq Scripts
    /\ MayFail \subseteq Gpus

VARIABLES
    pc,           \* per script: where it stands
    i,            \* per script: the loop variable of the scan, or of the poll
    idle_gpus,    \* per script: the GPUs of the scan, then of the lock list
    pids,         \* per script: the GPUs whose lock process it knows
    ready,        \* per script: READY is in the ready_file of its lock_gpu
    process,      \* per script and GPU: its lock process
    crashed       \* the scripts that were killed

vars == <<pc, i, idle_gpus, pids, ready, process, crashed>>

Live == {"starting", "printed", "allocated"}

Init ==
    /\ pc = [s \in Scripts |-> "scanning"]
    /\ i = [s \in Scripts |-> 0]
    /\ idle_gpus = [s \in Scripts |-> <<>>]
    /\ pids = [s \in Scripts |-> <<>>]
    /\ ready = [s \in Scripts |-> FALSE]
    /\ process = [s \in Scripts |-> [g \in Gpus |-> "none"]]
    /\ crashed = {}

-----------------------------------------------------------------------------
(* What nvidia-smi reports.                                                *)
MemoryUsed(g) ==
    Base[g] + LockMem * Cardinality({s \in Scripts : process[s][g] = "allocated"})

InUse(g) == \E s \in Scripts : pc[s] = "working" /\ \E n \in 1 .. Len(pids[s]) : pids[s][n] = g

is_available(s, g) == g \in Healthy /\ ~InUse(g) /\ MemoryUsed(g) < Limit[s]

(* get_gpus: one GPU after the other, in passes that start from nothing.   *)
Find_CountsLate(s) ==
    /\ pc[s] = "scanning" /\ i[s] < GpuCount
    /\ is_available(s, i[s])
    /\ idle_gpus' = [idle_gpus EXCEPT ![s] = Append(@, i[s])]
    /\ IF Len(idle_gpus[s]) = Wanted[s]
       THEN pc' = [pc EXCEPT ![s] = "locking"] /\ i' = [i EXCEPT ![s] = 0]
       ELSE i' = [i EXCEPT ![s] = @ + 1] /\ UNCHANGED pc
    /\ UNCHANGED <<pids, ready, process, crashed>>
Find(s) ==
    /\ pc[s] = "scanning" /\ i[s] < GpuCount
    /\ is_available(s, i[s])
    /\ idle_gpus' = [idle_gpus EXCEPT ![s] = Append(@, i[s])]
    /\ IF Len(idle_gpus[s]) + 1 = Wanted[s]
       THEN pc' = [pc EXCEPT ![s] = "locking"] /\ i' = [i EXCEPT ![s] = 0]
       ELSE i' = [i EXCEPT ![s] = @ + 1] /\ UNCHANGED pc
    /\ UNCHANGED <<pids, ready, process, crashed>>

PassOver(s) ==
    /\ pc[s] = "scanning" /\ i[s] < GpuCount
    /\ ~is_available(s, i[s])
    /\ i' = [i EXCEPT ![s] = @ + 1]
    /\ UNCHANGED <<pc, idle_gpus, pids, ready, process, crashed>>

ScanAgain_KeepsList(s) ==
    /\ pc[s] = "scanning" /\ i[s] = GpuCount
    /\ i' = [i EXCEPT ![s] = 0]
    /\ UNCHANGED <<pc, idle_gpus, pids, ready, process, crashed>>
ScanAgain(s) ==
    /\ pc[s] = "scanning" /\ i[s] = GpuCount
    /\ i' = [i EXCEPT ![s] = 0]
    /\ idle_gpus' = [idle_gpus EXCEPT ![s] = <<>>]
    /\ UNCHANGED <<pc, pids, ready, process, crashed>>

TimeoutReached(s) ==
    /\ s \in Timed
    /\ pc[s] = "scanning" /\ i[s] = GpuCount
    /\ pc' = [pc EXCEPT ![s] = "failed"]
    /\ UNCHANGED <<i, idle_gpus, pids, ready, process, crashed>>

-----------------------------------------------------------------------------
(* lock_gpus: lock_gpu for each GPU of the list.                           *)
Gpu(s) == idle_gpus[s][Len(pids[s]) + 1]

StartLock_KeepsReady(s) ==
    /\ pc[s] = "locking" /\ Len(pids[s]) < Len(idle_gpus[s])
    /\ process' = [process EXCEPT ![s][Gpu(s)] = "starting"]
    /\ i' = [i EXCEPT ![s] = 0]
    /\ pc' = [pc EXCEPT ![s] = "polling"]
    /\ UNCHANGED <<idle_gpus, pids, ready, crashed>>
StartLock(s) ==
    /\ pc[s] = "locking" /\ Len(pids[s]) < Len(idle_gpus[s])
    /\ process' = [process EXCEPT ![s][Gpu(s)] = "starting"]
    /\ ready' = [ready EXCEPT ![s] = FALSE]
    /\ i' = [i EXCEPT ![s] = 0]
    /\ pc' = [pc EXCEPT ![s] = "polling"]
    /\ UNCHANGED <<idle_gpus, pids, crashed>>

(* ps: the process died.                                                   *)
SeeItDead(s) ==
    /\ pc[s] = "polling" /\ i[s] < MaxPolls
    /\ process[s][Gpu(s)] = "dead"
    /\ pc' = [pc EXCEPT ![s] = "rolling back"]
    /\ UNCHANGED <<i, idle_gpus, pids, ready, process, crashed>>

SeeItAlive(s) ==
    /\ pc[s] = "polling" /\ i[s] < MaxPolls
    /\ process[s][Gpu(s)] \in Live
    /\ pc' = [pc EXCEPT ![s] = "reading"]
    /\ UNCHANGED <<i, idle_gpus, pids, ready, process, crashed>>

(* grep: the process may have died since.                                  *)
ReadReady(s) ==
    /\ pc[s] = "reading" /\ ready[s]
    /\ pids' = [pids EXCEPT ![s] = Append(@, Gpu(s))]
    /\ pc' = [pc EXCEPT ![s] = "locking"]
    /\ UNCHANGED <<i, idle_gpus, ready, process, crashed>>

ReadNothing(s) ==
    /\ pc[s] = "reading" /\ ~ready[s]
    /\ i' = [i EXCEPT ![s] = @ + 1]
    /\ pc' = [pc EXCEPT ![s] = "polling"]
    /\ UNCHANGED <<idle_gpus, pids, ready, process, crashed>>

(* kill -9 on some of the script's processes.                              *)
Killed(s, gpus) ==
    [process EXCEPT ![s] = [g \in Gpus |->
        IF g \in gpus /\ @[g] \in Live THEN "dead" ELSE @[g]]]

Known(s) == {pids[s][n] : n \in 1 .. Len(pids[s])}

GiveUp_LeavesIt(s) ==
    /\ pc[s] = "polling" /\ i[s] = MaxPolls
    /\ pc' = [pc EXCEPT ![s] = "rolling back"]
    /\ UNCHANGED <<i, idle_gpus, pids, ready, process, crashed>>
GiveUp(s) ==
    /\ pc[s] = "polling" /\ i[s] = MaxPolls
    /\ process' = Killed(s, {Gpu(s)})
    /\ pc' = [pc EXCEPT ![s] = "rolling back"]
    /\ UNCHANGED <<i, idle_gpus, pids, ready, crashed>>

(* Bash clears -e in the command substitution lock_gpus runs in: here a    *)
(* process that is gone does not keep the others from being killed.        *)
RollBack_Forgets(s) ==
    /\ pc[s] = "rolling back"
    /\ pc' = [pc EXCEPT ![s] = "failed"]
    /\ UNCHANGED <<i, idle_gpus, pids, ready, process, crashed>>
RollBack(s) ==
    /\ pc[s] = "rolling back"
    /\ process' = Killed(s, Known(s))
    /\ pc' = [pc EXCEPT ![s] = "failed"]
    /\ UNCHANGED <<i, idle_gpus, pids, ready, crashed>>

(* lock_gpus echoed the pids; the script runs its job.                     *)
Work(s) ==
    /\ pc[s] = "locking" /\ Len(pids[s]) = Len(idle_gpus[s])
    /\ pc' = [pc EXCEPT ![s] = "working"]
    /\ UNCHANGED <<i, idle_gpus, pids, ready, process, crashed>>

EndWork(s) ==
    /\ pc[s] = "working"
    /\ pc' = [pc EXCEPT ![s] = "unlocking"]
    /\ i' = [i EXCEPT ![s] = 1]
    /\ UNCHANGED <<idle_gpus, pids, ready, process, crashed>>

(* unlock_gpus, one pid at a time.  unlock_gpu returns the status of kill: *)
(* under set -e a process that is gone already ends the script there.      *)
Unlock(s) ==
    /\ pc[s] = "unlocking" /\ i[s] <= Len(pids[s])
    /\ process' = Killed(s, {pids[s][i[s]]})
    /\ IF s \in ErrExit /\ process[s][pids[s][i[s]]] = "dead"
       THEN pc' = [pc EXCEPT ![s] = "failed"] /\ UNCHANGED i
       ELSE i' = [i EXCEPT ![s] = @ + 1] /\ UNCHANGED pc
    /\ UNCHANGED <<idle_gpus, pids, ready, crashed>>

Finish(s) ==
    /\ pc[s] = "unlocking" /\ i[s] > Len(pids[s])
    /\ pc' = [pc EXCEPT ![s] = "done"]
    /\ UNCHANGED <<i, idle_gpus, pids, ready, process, crashed>>

(* The script is killed; its lock processes are not its foreground job.    *)
Crash(s) ==
    /\ s \in MayCrash
    /\ pc[s] \notin {"done", "failed"}
    /\ pc' = [pc EXCEPT ![s] = "failed"]
    /\ crashed' = crashed \cup {s}
    /\ UNCHANGED <<i, idle_gpus, pids, ready, process>>

-----------------------------------------------------------------------------
(* lock_gpu.py: READY is printed before the context is made current and    *)
(* the memory is allocated; each part may raise, which exits.              *)
PrintReady(s, g) ==
    /\ process[s][g] = "starting"
    /\ process' = [process EXCEPT ![s][g] = "printed"]
    /\ ready' = [ready EXCEPT ![s] = TRUE]
    /\ UNCHANGED <<pc, i, idle_gpus, pids, crashed>>

Allocate(s, g) ==
    /\ process[s][g] = "printed"
    /\ process' = [process EXCEPT ![s][g] = "allocated"]
    /\ UNCHANGED <<pc, i, idle_gpus, pids, ready, crashed>>

Fail(s, g) ==
    /\ g \in MayFail
    /\ process[s][g] \in {"starting", "printed"}
    /\ process' = [process EXCEPT ![s][g] = "dead"]
    /\ UNCHANGED <<pc, i, idle_gpus, pids, ready, crashed>>

ScriptStep(s) ==
    \/ Find(s) \/ PassOver(s) \/ ScanAgain(s) \/ TimeoutReached(s)
    \/ StartLock(s) \/ SeeItDead(s) \/ SeeItAlive(s) \/ ReadReady(s) \/ ReadNothing(s)
    \/ GiveUp(s) \/ RollBack(s)
    \/ Work(s) \/ EndWork(s) \/ Unlock(s) \/ Finish(s)

LockStep(s, g) == PrintReady(s, g) \/ Allocate(s, g) \/ Fail(s, g)

Over(s) == pc[s] \in {"done", "failed"}

Terminated ==
    /\ \A s \in Scripts : Over(s) /\ \A g \in Gpus : process[s][g] \notin {"starting", "printed"}
    /\ UNCHANGED vars

Next ==
    \/ \E s \in Scripts : ScriptStep(s) \/ Crash(s)
    \/ \E s \in Scripts, g \in Gpus : LockStep(s, g)
    \/ Terminated

Spec == Init /\ [][Next]_vars

(* Every process of the machine runs on, and jobs end; a lock process that *)
(* is stuck inside the driver is covered by the bound of the poll.  The    *)
(* clock that a timeout is compared with goes on while the script scans.   *)
FairSpec ==
    /\ Spec
    /\ \A s \in Scripts : WF_vars(ScriptStep(s))
    /\ \A s \in Timed : SF_vars(TimeoutReached(s))

-----------------------------------------------------------------------------
Stages == {"scanning", "locking", "polling", "reading", "rolling back",
           "working", "unlocking", "done", "failed"}

(* The types of the variables; what a scan finds are GPUs of the machine,  *)
(* as many as were wanted at most.                                         *)
TypeOK ==
    /\ pc \in [Scripts -> Stages]
    /\ i \in [Scripts -> Nat]
    /\ idle_gpus \in [Scripts -> Seq(Gpus)]
    /\ pids \in [Scripts -> Seq(Gpus)]
    /\ ready \in [Scripts -> BOOLEAN]
    /\ process \in [Scripts -> [Gpus -> Live \cup {"none", "dead"}]]
    /\ crashed \subseteq Scripts
    /\ \A s \in Scripts : Len(pids[s]) <= Len(idle_gpus[s]) /\ Len(idle_gpus[s]) <= Wanted[s]

(* unlock_gpus ended early: under set -e one of the processes was gone.    *)
EndedInUnlock(s) ==
    /\ s \in ErrExit /\ pc[s] = "failed" /\ Len(pids[s]) = Wanted[s]
    /\ \E g \in Known(s) : process[s][g] = "dead"

(* A lock process that lives belongs to a script that will still kill it,  *)
(* whichever GPU of the list failed, in whichever round of the poll, and   *)
(* whether the process died before or after it printed READY: only a       *)
(* script that was killed, or ended inside unlock_gpus, leaves one behind  *)
(* (lock_gpu kills what it gives up, lock_gpus rolls back).                *)
OnlyCrashesLeak ==
    \A s \in Scripts :
        (Over(s) /\ s \notin crashed /\ ~EndedInUnlock(s)) =>
            \A g \in Gpus : process[s][g] \notin Live

(* A script that works knows a lock process on as many different GPUs as   *)
(* it wanted, each of which has printed READY (get_gpus begins each pass   *)
(* anew, lock_gpu polls a file of its own); and where lock_gpu.py does not *)
(* fail the process lives, since only the script kills it, at the end.     *)
(* Where it fails it may have died after READY, with its pid accepted.     *)
WorksOnWhatItWanted ==
    \A s \in Scripts :
        pc[s] = "working" =>
            /\ Cardinality(Known(s)) = Wanted[s]
            /\ \A g \in Known(s) :
                  \/ process[s][g] \in {"printed", "allocated"}
                  \/ g \in MayFail /\ process[s][g] = "dead"

(* Every script comes to its end: lock_gpus gives back what it has when it *)
(* cannot have all, so scripts that want several GPUs do not wait for each *)
(* other, and no lock outlives its script.  Only one that gave get_gpus no *)
(* timeout may wait forever, for GPUs that a killed script, or one that    *)
(* ended inside unlock_gpus, has locked.                                   *)
EveryScriptEnds ==
    \A s \in Scripts :
        \/ <>Over(s)
        \/ s \notin Timed /\ <>(crashed # {} \/ \E t \in Scripts : EndedInUnlock(t))

(* tools/run_act.sh: "Lock the GPU to prevent other scripts from using     *)
(* it".  No two scripts work on one GPU.                                   *)
OneScriptPerGpu ==
    \A s, t \in Scripts :
        (s # t /\ pc[s] = "working" /\ pc[t] = "working") => Known(s) \cap Known(t) = {}

=============================================================================
