----------------------------- MODULE ProcessProofs -----------------------------
(***************************************************************************)
(* The properties of the two parts that are about processes of the         *)
(* operating system: the scripts of GpuLock and the interpreters of        *)
(* Bootstrap.                                                              *)
(*                                                                         *)
(* GpuLock, for any scripts, GPUs, limits, bounds of the poll, failures    *)
(* and crashes.  The invariant follows the list of a script from the scan  *)
(* (ascending, below the loop variable) over the lock (pids is the part of *)
(* the list done so far) to the unlock (what is still to be killed), and   *)
(* says in each stage where a lock process may live.                       *)
(*                                                                         *)
(* Bootstrap, for any number of engine processes, of patches and of calls. *)
(* What makes its properties inductive is Consistent: in every interpreter *)
(* the class attribute, the saved original and the client's methods tell   *)
(* the same number of calls of patch_batch_and_fork, and a copy of a       *)
(* consistent interpreter is consistent.                                   *)
(***************************************************************************)
EXTENDS GpuLock, Bootstrap, FiniteSetTheorems, TLAPS

(* The list so far: ascending, so no GPU twice.                            *)
Ascending(idle) == \A m, n \in 1 .. Len(idle) : m < n => idle[m] < idle[n]

Prefix(ps, idle) ==
    /\ Len(ps) <= Len(idle)
    /\ \A n \in 1 .. Len(ps) : ps[n] = idle[n]

Members(ps) == {ps[n] : n \in 1 .. Len(ps)}

NextGpu(idle, ps) == idle[Len(ps) + 1]

Started == {"printed", "allocated", "dead"}

(* The script is under set -e and holds the pid of a process that died.    *)
Gone(s, ps, pr) ==
    /\ s \in ErrExit /\ Len(ps) = Wanted[s]
    /\ \E g \in Members(ps) : pr[g] = "dead"

(* Where a lock process of a script may live, and may have yet to print.   *)
Places(s, p, k, idle, ps, pr, c) ==
    \A g \in Gpus :
        /\ pr[g] \in Live =>
             CASE p \in {"locking", "rolling back", "working"} -> g \in Members(ps)
               [] p \in {"polling", "reading"} -> g \in Members(ps) \cup {NextGpu(idle, ps)}
               [] p = "unlocking" -> \E n \in 1 .. Len(ps) : n >= k /\ ps[n] = g
               [] p = "failed" -> c \/ Gone(s, ps, pr)
               [] OTHER -> FALSE
        /\ pr[g] = "starting" =>
             \/ p \in {"polling", "reading"} /\ g = NextGpu(idle, ps)
             \/ c

ScriptInv(s, p, k, idle, ps, rd, pr, c) ==
    /\ Ascending(idle)
    /\ Prefix(ps, idle)
    /\ p = "scanning" => /\ ps = <<>>
                         /\ Len(idle) < Wanted[s]
                         /\ k <= GpuCount
                         /\ \A n \in 1 .. Len(idle) : idle[n] < k
    /\ p \notin {"scanning", "failed"} => Len(idle) = Wanted[s]
    /\ p \in {"polling", "reading"} => /\ Len(ps) < Len(idle)
                                       /\ pr[NextGpu(idle, ps)] # "none"
    /\ p \in {"working", "unlocking"} => Len(ps) = Len(idle)
    /\ p = "unlocking" => k >= 1
    /\ c => p = "failed"
    /\ Len(idle) <= Wanted[s]
    /\ \A n \in 1 .. Len(ps) : pr[ps[n]] \in Started
    /\ (rd /\ p \in {"polling", "reading"}) => pr[NextGpu(idle, ps)] \in Started
    /\ Places(s, p, k, idle, ps, pr, c)

ScriptTypes(p, k, idle, ps, rd, pr) ==
    /\ p \in Stages /\ k \in Nat /\ idle \in Seq(Gpus) /\ ps \in Seq(Gpus)
    /\ rd \in BOOLEAN /\ pr \in [Gpus -> Live \cup {"none", "dead"}]

IInv ==
    /\ TypeOK
    /\ \A s \in Scripts :
          ScriptInv(s, pc[s], i[s], idle_gpus[s], pids[s], ready[s], process[s], s \in crashed)

-----------------------------------------------------------------------------
LEMMA InitIInv == Init => IInv
<1> SUFFICES ASSUME Init PROVE IInv
  OBVIOUS
<1> USE ConstantsAssumption DEF Init
<1>1. TypeOK
  BY DEF TypeOK, Stages
<1>2. ASSUME NEW s \in Scripts
      PROVE ScriptInv(s, pc[s], i[s], idle_gpus[s], pids[s], ready[s], process[s], s \in crashed)
  <2>1. Wanted[s] \in Nat \ {0}
    BY DEF ConstantsAssumption
  <2>2. /\ pc[s] = "scanning" /\ i[s] = 0 /\ idle_gpus[s] = <<>> /\ pids[s] = <<>>
        /\ ready[s] = FALSE /\ process[s] = [g \in Gpus |-> "none"] /\ s \notin crashed
    OBVIOUS
  <2>3. Places(s, pc[s], i[s], idle_gpus[s], pids[s], process[s], s \in crashed)
    BY <2>2 DEF Places, Live
  <2> QED
    BY <2>1, <2>2, <2>3 DEF ScriptInv, Ascending, Prefix, ConstantsAssumption
<1> QED
  BY <1>1, <1>2 DEF IInv

(* The values one script has after a step; the other scripts keep theirs.  *)
Sets(s, p, k, idle, ps, rd, pr) ==
    /\ pc' = [pc EXCEPT ![s] = p]
    /\ i' = [i EXCEPT ![s] = k]
    /\ idle_gpus' = [idle_gpus EXCEPT ![s] = idle]
    /\ pids' = [pids EXCEPT ![s] = ps]
    /\ ready' = [ready EXCEPT ![s] = rd]
    /\ process' = [process EXCEPT ![s] = pr]
    /\ crashed' \subseteq Scripts
    /\ \A t \in Scripts \ {s} : t \in crashed' <=> t \in crashed

LEMMA Update ==
    ASSUME IInv, NEW s \in Scripts, NEW p, NEW k, NEW idle, NEW ps, NEW rd, NEW pr,
           Sets(s, p, k, idle, ps, rd, pr), ScriptTypes(p, k, idle, ps, rd, pr),
           ScriptInv(s, p, k, idle, ps, rd, pr, s \in crashed')
    PROVE  IInv'
<1>1. /\ pc \in [Scripts -> Stages] /\ i \in [Scripts -> Nat]
      /\ idle_gpus \in [Scripts -> Seq(Gpus)] /\ pids \in [Scripts -> Seq(Gpus)]
      /\ ready \in [Scripts -> BOOLEAN]
      /\ process \in [Scripts -> [Gpus -> Live \cup {"none", "dead"}]]
  BY DEF IInv, TypeOK
<1>2. /\ pc'[s] = p /\ i'[s] = k /\ idle_gpus'[s] = idle /\ pids'[s] = ps
      /\ ready'[s] = rd /\ process'[s] = pr
  BY <1>1 DEF Sets
<1>3. ASSUME NEW t \in Scripts \ {s}
      PROVE  /\ pc'[t] = pc[t] /\ i'[t] = i[t] /\ idle_gpus'[t] = idle_gpus[t]
             /\ pids'[t] = pids[t] /\ ready'[t] = ready[t] /\ process'[t] = process[t]
             /\ t \in crashed' <=> t \in crashed
  BY <1>1 DEF Sets
<1>4. ASSUME NEW t \in Scripts
      PROVE  ScriptInv(t, pc'[t], i'[t], idle_gpus'[t], pids'[t], ready'[t], process'[t],
                       t \in crashed')
  <2>1. CASE t = s
    BY <1>2, <2>1
  <2>2. CASE t # s
    BY <1>3, <2>2 DEF IInv
  <2> QED
    BY <2>1, <2>2
<1>5. /\ pc' \in [Scripts -> Stages] /\ i' \in [Scripts -> Nat]
      /\ idle_gpus' \in [Scripts -> Seq(Gpus)] /\ pids' \in [Scripts -> Seq(Gpus)]
      /\ ready' \in [Scripts -> BOOLEAN]
      /\ process' \in [Scripts -> [Gpus -> Live \cup {"none", "dead"}]]
      /\ crashed' \subseteq Scripts
  BY <1>1 DEF Sets, ScriptTypes
<1>6. TypeOK'
  <2>1. \A t \in Scripts : /\ Len(pids'[t]) <= Len(idle_gpus'[t])
                           /\ Len(idle_gpus'[t]) <= Wanted[t]
    BY <1>4 DEF ScriptInv, Prefix
  <2> QED
    BY <1>5, <2>1 DEF TypeOK
<1> QED
  BY <1>4, <1>6 DEF IInv

(* What is known of a script before its step.                              *)
LEMMA Before ==
    ASSUME IInv, NEW s \in Scripts
    PROVE  /\ ScriptTypes(pc[s], i[s], idle_gpus[s], pids[s], ready[s], process[s])
           /\ ScriptInv(s, pc[s], i[s], idle_gpus[s], pids[s], ready[s], process[s],
                        s \in crashed)
           /\ Sets(s, pc[s], i[s], idle_gpus[s], pids[s], ready[s], process[s])
                 <=> UNCHANGED <<pc, i, idle_gpus, pids, ready, process>>
                     /\ crashed' \subseteq Scripts
                     /\ \A t \in Scripts \ {s} : t \in crashed' <=> t \in crashed
           /\ pc \in [Scripts -> Stages] /\ i \in [Scripts -> Nat]
           /\ idle_gpus \in [Scripts -> Seq(Gpus)] /\ pids \in [Scripts -> Seq(Gpus)]
           /\ ready \in [Scripts -> BOOLEAN]
           /\ process \in [Scripts -> [Gpus -> Live \cup {"none", "dead"}]]
           /\ crashed \subseteq Scripts
           /\ Wanted[s] \in Nat \ {0} /\ GpuCount \in Nat /\ MaxPolls \in Nat
<1>1. /\ pc \in [Scripts -> Stages] /\ i \in [Scripts -> Nat]
      /\ idle_gpus \in [Scripts -> Seq(Gpus)] /\ pids \in [Scripts -> Seq(Gpus)]
      /\ ready \in [Scripts -> BOOLEAN]
      /\ process \in [Scripts -> [Gpus -> Live \cup {"none", "dead"}]]
      /\ crashed \subseteq Scripts
  BY DEF IInv, TypeOK
<1>2. ScriptTypes(pc[s], i[s], idle_gpus[s], pids[s], ready[s], process[s])
  BY <1>1 DEF ScriptTypes
<1>3. Wanted[s] \in Nat \ {0} /\ GpuCount \in Nat /\ MaxPolls \in Nat
  BY ConstantsAssumption DEF ConstantsAssumption
<1> QED
  BY <1>1, <1>2, <1>3 DEF IInv, Sets

-----------------------------------------------------------------------------
(* The scan.                                                               *)
LEMMA FindStep == ASSUME IInv, NEW s \in Scripts, Find(s) PROVE IInv'
<1> DEFINE idle == idle_gpus[s]
           new == Append(idle, i[s])
<1>1. /\ ScriptTypes(pc[s], i[s], idle, pids[s], ready[s], process[s])
      /\ ScriptInv(s, pc[s], i[s], idle, pids[s], ready[s], process[s], s \in crashed)
      /\ Wanted[s] \in Nat \ {0} /\ GpuCount \in Nat
  BY Before
<1>2. /\ pc[s] = "scanning" /\ i[s] \in Gpus /\ i[s] + 1 <= GpuCount
      /\ crashed' = crashed
  BY <1>1 DEF Find, Gpus, ScriptTypes
<1>3. /\ new \in Seq(Gpus) /\ Len(new) = Len(idle) + 1 /\ Len(new) <= Wanted[s]
      /\ Len(idle) \in Nat
      /\ \A n \in 1 .. Len(idle) : new[n] = idle[n] /\ idle[n] < i[s] /\ idle[n] \in Nat
      /\ new[Len(new)] = i[s]
  <2>1. idle \in Seq(Gpus) /\ Len(idle) < Wanted[s]
    BY <1>1, <1>2 DEF ScriptInv, ScriptTypes
  <2>2. \A n \in 1 .. Len(idle) : idle[n] < i[s]
    BY <1>1, <1>2 DEF ScriptInv
  <2>3. \A g \in Gpus : g \in Nat
    BY <1>1 DEF Gpus
  <2> HIDE DEF idle
  <2> QED
    BY <1>1, <1>2, <2>1, <2>2, <2>3
<1>4. Ascending(new) /\ Prefix(pids[s], new) /\ pids[s] = <<>>
  <2>1. pids[s] = <<>> /\ Ascending(idle)
    BY <1>1, <1>2 DEF ScriptInv
  <2>2. ASSUME NEW m \in 1 .. Len(new), NEW n \in 1 .. Len(new), m < n
        PROVE  new[m] < new[n]
    <3>1. CASE n = Len(new)
      BY <1>3, <2>2, <3>1
    <3>2. CASE n # Len(new)
      <4>1. m \in 1 .. Len(idle) /\ n \in 1 .. Len(idle)
        BY <1>3, <2>2, <3>2
      <4> QED
        BY <1>3, <2>1, <2>2, <4>1 DEF Ascending
    <3> QED
      BY <3>1, <3>2
  <2> QED
    BY <1>3, <2>1, <2>2 DEF Ascending, Prefix
<1>5. \A g \in Gpus : process[s][g] \notin Live
  BY <1>1, <1>2 DEF ScriptInv, Places
<1>6. CASE Len(idle) + 1 = Wanted[s]
  <2>1. Sets(s, "locking", 0, new, pids[s], ready[s], process[s])
    BY <1>6, Before DEF Find, Sets
  <2>2. ScriptTypes("locking", 0, new, pids[s], ready[s], process[s])
    BY <1>1, <1>3 DEF ScriptTypes, Stages
  <2>3. Places(s, "locking", 0, new, pids[s], process[s], s \in crashed')
    BY <1>5 DEF Places, Live
  <2>4. ScriptInv(s, "locking", 0, new, pids[s], ready[s], process[s], s \in crashed')
    <3> HIDE DEF new
    <3> QED
      BY <1>1, <1>2, <1>3, <1>4, <1>6, <2>3 DEF ScriptInv
  <2> QED
    BY <2>1, <2>2, <2>4, Update
<1>7. CASE Len(idle) + 1 # Wanted[s]
  <2>1. Sets(s, "scanning", i[s] + 1, new, pids[s], ready[s], process[s])
    BY <1>2, <1>7, Before DEF Find, Sets
  <2>2. ScriptTypes("scanning", i[s] + 1, new, pids[s], ready[s], process[s])
    BY <1>1, <1>2, <1>3 DEF ScriptTypes
  <2>3. Places(s, "scanning", i[s] + 1, new, pids[s], process[s], s \in crashed')
    BY <1>5 DEF Places, Live
  <2>4. /\ Len(new) < Wanted[s]
        /\ \A n \in 1 .. Len(new) : new[n] < i[s] + 1
    <3>1. i[s] \in Nat
      BY <1>2, <1>1 DEF ScriptTypes
    <3> QED
      BY <1>1, <1>3, <1>7, <3>1
  <2>5. ScriptInv(s, "scanning", i[s] + 1, new, pids[s], ready[s], process[s], s \in crashed')
    <3> HIDE DEF new
    <3> QED
      BY <1>1, <1>2, <1>3, <1>4, <2>3, <2>4 DEF ScriptInv
  <2> QED
    BY <2>1, <2>2, <2>5, Update
<1> QED
  BY <1>6, <1>7

LEMMA ScanStep ==
    ASSUME IInv, NEW s \in Scripts, PassOver(s) \/ ScanAgain(s) \/ TimeoutReached(s)
    PROVE  IInv'
<1>1. /\ ScriptTypes(pc[s], i[s], idle_gpus[s], pids[s], ready[s], process[s])
      /\ ScriptInv(s, pc[s], i[s], idle_gpus[s], pids[s], ready[s], process[s], s \in crashed)
      /\ Wanted[s] \in Nat \ {0} /\ GpuCount \in Nat
  BY Before
<1>2. /\ pc[s] = "scanning" /\ crashed' = crashed /\ i[s] \in Nat /\ pids[s] = <<>>
      /\ \A n \in 1 .. Len(idle_gpus[s]) : idle_gpus[s][n] < i[s] /\ idle_gpus[s][n] \in Nat
      /\ s \notin crashed
  <2>1. pc[s] = "scanning" /\ crashed' = crashed
    BY DEF PassOver, ScanAgain, TimeoutReached
  <2>2. /\ i[s] \in Nat /\ pids[s] = <<>> /\ s \notin crashed
        /\ \A n \in 1 .. Len(idle_gpus[s]) : idle_gpus[s][n] < i[s]
    BY <1>1, <2>1 DEF ScriptTypes, ScriptInv
  <2>3. \A g \in Gpus : g \in Nat
    BY <1>1 DEF Gpus
  <2>4. \A n \in 1 .. Len(idle_gpus[s]) : idle_gpus[s][n] \in Gpus
    BY <1>1 DEF ScriptTypes
  <2> QED
    BY <2>1, <2>2, <2>3, <2>4
<1>3. \A g \in Gpus : process[s][g] \notin Live
  BY <1>1, <1>2 DEF ScriptInv, Places
<1>4. CASE PassOver(s)
  <2>1. Sets(s, "scanning", i[s] + 1, idle_gpus[s], pids[s], ready[s], process[s])
    BY <1>2, <1>4, Before DEF PassOver, Sets
  <2>2. Places(s, "scanning", i[s] + 1, idle_gpus[s], pids[s], process[s], s \in crashed')
    BY <1>3 DEF Places, Live
  <2>3. ScriptTypes("scanning", i[s] + 1, idle_gpus[s], pids[s], ready[s], process[s])
    BY <1>1, <1>2 DEF ScriptTypes
  <2>4. i[s] + 1 <= GpuCount /\ \A n \in 1 .. Len(idle_gpus[s]) : idle_gpus[s][n] < i[s] + 1
    BY <1>1, <1>2, <1>4 DEF PassOver
  <2>5. ScriptInv(s, "scanning", i[s] + 1, idle_gpus[s], pids[s], ready[s], process[s],
                  s \in crashed')
    BY <1>1, <1>2, <2>2, <2>4 DEF ScriptInv
  <2> QED
    BY <2>1, <2>3, <2>5, Update
<1>5. CASE ScanAgain(s)
  <2>1. Sets(s, "scanning", 0, <<>>, pids[s], ready[s], process[s])
    BY <1>2, <1>5, Before DEF ScanAgain, Sets
  <2>2. Places(s, "scanning", 0, <<>>, pids[s], process[s], s \in crashed')
    BY <1>3 DEF Places, Live
  <2>3. ScriptTypes("scanning", 0, <<>>, pids[s], ready[s], process[s])
    BY <1>1, <1>2 DEF ScriptTypes
  <2>4. ScriptInv(s, "scanning", 0, <<>>, pids[s], ready[s], process[s], s \in crashed')
    BY <1>1, <1>2, <2>2 DEF ScriptInv, Ascending, Prefix
  <2> QED
    BY <2>1, <2>3, <2>4, Update
<1>6. CASE TimeoutReached(s)
  <2>1. Sets(s, "failed", i[s], idle_gpus[s], pids[s], ready[s], process[s])
    BY <1>2, <1>6, Before DEF TimeoutReached, Sets
  <2>2. Places(s, "failed", i[s], idle_gpus[s], pids[s], process[s], s \in crashed')
    BY <1>3 DEF Places, Live
  <2>3. ScriptTypes("failed", i[s], idle_gpus[s], pids[s], ready[s], process[s])
    BY <1>1, <1>2 DEF ScriptTypes, Stages
  <2>4. ScriptInv(s, "failed", i[s], idle_gpus[s], pids[s], ready[s], process[s],
                  s \in crashed')
    BY <1>1, <1>2, <2>2 DEF ScriptInv
  <2> QED
    BY <2>1, <2>3, <2>4, Update
<1> QED
  BY <1>4, <1>5, <1>6

-----------------------------------------------------------------------------
(* The lock of one GPU of the list.                                        *)
LEMMA NextGpuIsNew ==
    ASSUME NEW idle \in Seq(Gpus), NEW ps \in Seq(Gpus), Ascending(idle), Prefix(ps, idle),
           Len(ps) < Len(idle)
    PROVE  NextGpu(idle, ps) \in Gpus /\ NextGpu(idle, ps) \notin Members(ps)
<1> DEFINE m == Len(ps) + 1
<1>1. m \in 1 .. Len(idle) /\ m \in Nat
  OBVIOUS
<1>2. idle[m] \in Gpus
  BY <1>1
<1>3. ASSUME NEW n \in 1 .. Len(ps) PROVE ps[n] # idle[m]
  <2>1. n \in 1 .. Len(idle) /\ n < m
    BY <1>1
  <2>2. idle[n] < idle[m]
    BY <1>1, <2>1 DEF Ascending
  <2>3. ps[n] = idle[n] /\ idle[n] \in Gpus
    BY <2>1 DEF Prefix
  <2>4. \A a, b \in Gpus : a < b => a # b
    BY ConstantsAssumption DEF Gpus, ConstantsAssumption
  <2> QED
    BY <1>2, <2>2, <2>3, <2>4
<1> QED
  BY <1>2, <1>3 DEF NextGpu, Members

LEMMA StartLockStep == ASSUME IInv, NEW s \in Scripts, StartLock(s) PROVE IInv'
<1> DEFINE idle == idle_gpus[s]
           ps == pids[s]
           n == NextGpu(idle, ps)
           pr == [process[s] EXCEPT ![n] = "starting"]
<1>1. /\ ScriptTypes(pc[s], i[s], idle, ps, ready[s], process[s])
      /\ ScriptInv(s, pc[s], i[s], idle, ps, ready[s], process[s], s \in crashed)
      /\ Wanted[s] \in Nat \ {0} /\ GpuCount \in Nat
  BY Before
<1>2. /\ pc[s] = "locking" /\ Len(ps) < Len(idle) /\ crashed' = crashed /\ Gpu(s) = n
      /\ s \notin crashed
  BY <1>1 DEF StartLock, Gpu, NextGpu, ScriptInv
<1>3. n \in Gpus /\ n \notin Members(ps)
  BY <1>1, <1>2, NextGpuIsNew DEF ScriptInv, ScriptTypes
<1>4. pr \in [Gpus -> Live \cup {"none", "dead"}] /\ pr[n] = "starting"
  BY <1>1, <1>3 DEF ScriptTypes, Live
<1>5. \A g \in Gpus \ {n} : pr[g] = process[s][g]
  BY <1>1, <1>3 DEF ScriptTypes
<1>6. Sets(s, "polling", 0, idle, ps, FALSE, pr)
  <2>1. process' = [process EXCEPT ![s] = pr]
    BY <1>2, Before DEF StartLock
  <2> QED
    BY <1>2, <2>1, Before DEF StartLock, Sets
<1>7. ScriptTypes("polling", 0, idle, ps, FALSE, pr)
  BY <1>1, <1>4 DEF ScriptTypes, Stages
<1>8. Places(s, "polling", 0, idle, ps, pr, s \in crashed')
  <2>1. \A g \in Gpus : process[s][g] \in Live => g \in Members(ps)
    BY <1>1, <1>2 DEF ScriptInv, Places
  <2>2. \A g \in Gpus : process[s][g] # "starting"
    BY <1>1, <1>2 DEF ScriptInv, Places
  <2> HIDE DEF pr
  <2> QED
    BY <1>2, <1>5, <2>1, <2>2 DEF Places
<1>9. \A m \in 1 .. Len(ps) : pr[ps[m]] \in Started
  <2>1. \A m \in 1 .. Len(ps) : ps[m] \in Gpus \ {n}
    BY <1>1, <1>3 DEF ScriptTypes, Members
  <2> QED
    BY <1>1, <1>5, <2>1 DEF ScriptInv
<1>10. ScriptInv(s, "polling", 0, idle, ps, FALSE, pr, s \in crashed')
  <2> HIDE DEF pr
  <2> QED
    BY <1>1, <1>2, <1>4, <1>8, <1>9 DEF ScriptInv
<1> QED
  BY <1>6, <1>7, <1>10, Update

(* The steps of the poll that change no process.                           *)
LEMMA PollStep ==
    ASSUME IInv, NEW s \in Scripts, SeeItDead(s) \/ SeeItAlive(s) \/ ReadNothing(s)
    PROVE  IInv'
<1> DEFINE idle == idle_gpus[s]
           ps == pids[s]
           n == NextGpu(idle, ps)
           pr == process[s]
<1>1. /\ ScriptTypes(pc[s], i[s], idle, ps, ready[s], pr)
      /\ ScriptInv(s, pc[s], i[s], idle, ps, ready[s], pr, s \in crashed)
  BY Before
<1>2. /\ pc[s] \in {"polling", "reading"} /\ crashed' = crashed /\ Gpu(s) = n
  BY DEF SeeItDead, SeeItAlive, ReadNothing, Gpu, NextGpu
<1>3. CASE SeeItDead(s)
  <2>1. pr[n] = "dead"
    BY <1>2, <1>3 DEF SeeItDead
  <2>2. Sets(s, "rolling back", i[s], idle, ps, ready[s], pr)
    BY <1>3, Before DEF SeeItDead, Sets
  <2>3. Places(s, "rolling back", i[s], idle, ps, pr, s \in crashed')
    BY <1>1, <1>2, <2>1 DEF ScriptInv, Places, Live
  <2>4. ScriptTypes("rolling back", i[s], idle, ps, ready[s], pr)
    BY <1>1 DEF ScriptTypes, Stages
  <2>5. ScriptInv(s, "rolling back", i[s], idle, ps, ready[s], pr, s \in crashed')
    BY <1>1, <1>2, <2>3 DEF ScriptInv
  <2> QED
    BY <2>2, <2>4, <2>5, Update
<1>4. CASE SeeItAlive(s)
  <2>1. Sets(s, "reading", i[s], idle, ps, ready[s], pr)
    BY <1>4, Before DEF SeeItAlive, Sets
  <2>2. Places(s, "reading", i[s], idle, ps, pr, s \in crashed')
    BY <1>1, <1>2 DEF ScriptInv, Places
  <2>3. ScriptTypes("reading", i[s], idle, ps, ready[s], pr)
    BY <1>1 DEF ScriptTypes, Stages
  <2>4. ScriptInv(s, "reading", i[s], idle, ps, ready[s], pr, s \in crashed')
    BY <1>1, <1>2, <2>2 DEF ScriptInv
  <2> QED
    BY <2>1, <2>3, <2>4, Update
<1>5. CASE ReadNothing(s)
  <2>1. Sets(s, "polling", i[s] + 1, idle, ps, ready[s], pr)
    BY <1>5, Before DEF ReadNothing, Sets
  <2>2. Places(s, "polling", i[s] + 1, idle, ps, pr, s \in crashed')
    BY <1>1, <1>2 DEF ScriptInv, Places
  <2>3. ScriptTypes("polling", i[s] + 1, idle, ps, ready[s], pr)
    <3>1. i[s] \in Nat
      BY <1>1 DEF ScriptTypes
    <3>2. i[s] + 1 \in Nat
      BY <3>1
    <3> QED
      BY <1>1, <3>2 DEF ScriptTypes, Stages
  <2>4. ScriptInv(s, "polling", i[s] + 1, idle, ps, ready[s], pr, s \in crashed')
    BY <1>1, <1>2, <2>2 DEF ScriptInv
  <2> QED
    BY <2>1, <2>3, <2>4, Update
<1> QED
  BY <1>3, <1>4, <1>5

LEMMA ReadReadyStep == ASSUME IInv, NEW s \in Scripts, ReadReady(s) PROVE IInv'
<1> DEFINE idle == idle_gpus[s]
           ps == pids[s]
           n == NextGpu(idle, ps)
           pr == process[s]
           new == Append(ps, n)
<1>1. /\ ScriptTypes(pc[s], i[s], idle, ps, ready[s], pr)
      /\ ScriptInv(s, pc[s], i[s], idle, ps, ready[s], pr, s \in crashed)
  BY Before
<1>2. /\ pc[s] = "reading" /\ ready[s] /\ crashed' = crashed /\ Gpu(s) = n
  BY DEF ReadReady, Gpu, NextGpu
<1>3. /\ Len(ps) < Len(idle) /\ n \in Gpus /\ pr[n] \in Started /\ s \notin crashed
  BY <1>1, <1>2, NextGpuIsNew DEF ScriptInv, ScriptTypes
<1>4. /\ new \in Seq(Gpus) /\ Len(new) = Len(ps) + 1 /\ new[Len(new)] = n
      /\ \A m \in 1 .. Len(ps) : new[m] = ps[m]
      /\ Len(ps) \in Nat /\ Len(idle) \in Nat
  <2>1. ps \in Seq(Gpus) /\ idle \in Seq(Gpus)
    BY <1>1 DEF ScriptTypes
  <2> HIDE DEF ps, idle, n
  <2> QED
    BY <1>3, <2>1
<1>5. Prefix(new, idle)
  <2>1. ASSUME NEW m \in 1 .. Len(new) PROVE new[m] = idle[m]
    <3>1. CASE m = Len(new)
      BY <1>4, <3>1 DEF NextGpu
    <3>2. CASE m # Len(new)
      <4>1. m \in 1 .. Len(ps)
        BY <1>4, <3>2
      <4> QED
        BY <1>1, <1>4, <4>1 DEF ScriptInv, Prefix
    <3> QED
      BY <3>1, <3>2
  <2> QED
    BY <1>3, <1>4, <2>1 DEF Prefix
<1>6. Members(new) = Members(ps) \cup {n}
  <2>1. ASSUME NEW g \in Members(new) PROVE g \in Members(ps) \cup {n}
    <3>1. PICK m \in 1 .. Len(new) : g = new[m]
      BY <2>1 DEF Members
    <3>2. m \in 1 .. Len(ps) \/ m = Len(new)
      BY <1>4
    <3> QED
      BY <1>4, <3>1, <3>2 DEF Members
  <2>2. ASSUME NEW g \in Members(ps) PROVE g \in Members(new)
    <3>1. PICK m \in 1 .. Len(ps) : g = ps[m]
      BY <2>2 DEF Members
    <3>2. m \in 1 .. Len(new) /\ g = new[m]
      BY <1>4, <3>1
    <3> HIDE DEF new
    <3> QED
      BY <3>2 DEF Members
  <2>3. n \in Members(new)
    <3>1. Len(new) \in 1 .. Len(new)
      BY <1>4
    <3> HIDE DEF new
    <3> QED
      BY <1>4, <3>1 DEF Members
  <2> QED
    BY <2>1, <2>2, <2>3
<1>7. Sets(s, "locking", i[s], idle, new, ready[s], pr)
  BY <1>2, Before DEF ReadReady, Sets
<1>8. ScriptTypes("locking", i[s], idle, new, ready[s], pr)
  BY <1>1, <1>4 DEF ScriptTypes, Stages
<1>9. Places(s, "locking", i[s], idle, new, pr, s \in crashed')
  <2>1. \A g \in Gpus : pr[g] \in Live => g \in Members(ps) \cup {n}
    BY <1>1, <1>2 DEF ScriptInv, Places
  <2>2. \A g \in Gpus : pr[g] # "starting"
    BY <1>1, <1>2, <1>3 DEF ScriptInv, Places, Started
  <2> HIDE DEF new
  <2> QED
    BY <1>6, <2>1, <2>2 DEF Places
<1>10. \A m \in 1 .. Len(new) : pr[new[m]] \in Started
  <2>1. ASSUME NEW m \in 1 .. Len(new) PROVE pr[new[m]] \in Started
    <3>1. m \in 1 .. Len(ps) \/ m = Len(new)
      BY <1>4
    <3> QED
      BY <1>1, <1>3, <1>4, <3>1 DEF ScriptInv
  <2> QED
    BY <2>1
<1>11. ScriptInv(s, "locking", i[s], idle, new, ready[s], pr, s \in crashed')
  <2> HIDE DEF new
  <2> QED
    BY <1>1, <1>2, <1>3, <1>5, <1>9, <1>10 DEF ScriptInv
<1> QED
  BY <1>7, <1>8, <1>11, Update

-----------------------------------------------------------------------------
(* What kill -9 leaves.                                                    *)
LEMMA KilledProcesses ==
    ASSUME IInv, NEW s \in Scripts, NEW gpus
    PROVE  \E pr \in [Gpus -> Live \cup {"none", "dead"}] :
               /\ Killed(s, gpus) = [process EXCEPT ![s] = pr]
               /\ \A g \in Gpus : /\ pr[g] \in Live => pr[g] = process[s][g] /\ g \notin gpus
                                  /\ pr[g] = process[s][g] \/ pr[g] = "dead"
<1> DEFINE pr == [g \in Gpus |-> IF g \in gpus /\ process[s][g] \in Live
                                 THEN "dead" ELSE process[s][g]]
<1>1. /\ process[s] \in [Gpus -> Live \cup {"none", "dead"}]
      /\ process \in [Scripts -> [Gpus -> Live \cup {"none", "dead"}]]
  BY Before
<1>2. pr \in [Gpus -> Live \cup {"none", "dead"}]
  BY <1>1
<1>3. Killed(s, gpus) = [process EXCEPT ![s] = pr]
  BY <1>1 DEF Killed
<1>4. ASSUME NEW g \in Gpus
      PROVE  /\ pr[g] \in Live => pr[g] = process[s][g] /\ g \notin gpus
             /\ pr[g] = process[s][g] \/ pr[g] = "dead"
  BY <1>1 DEF Live
<1> QED
  BY <1>2, <1>3, <1>4

LEMMA GiveUpStep == ASSUME IInv, NEW s \in Scripts, GiveUp(s) PROVE IInv'
<1> DEFINE idle == idle_gpus[s]
           ps == pids[s]
           n == NextGpu(idle, ps)
           gone == {n}
<1>1. /\ ScriptTypes(pc[s], i[s], idle, ps, ready[s], process[s])
      /\ ScriptInv(s, pc[s], i[s], idle, ps, ready[s], process[s], s \in crashed)
  BY Before
<1>2. pc[s] = "polling" /\ crashed' = crashed /\ Gpu(s) = n
  BY DEF GiveUp, Gpu, NextGpu
<1>3. PICK pr \in [Gpus -> Live \cup {"none", "dead"}] :
         /\ Killed(s, gone) = [process EXCEPT ![s] = pr]
         /\ \A g \in Gpus : /\ pr[g] \in Live => pr[g] = process[s][g] /\ g \notin gone
                            /\ pr[g] = process[s][g] \/ pr[g] = "dead"
  <2> HIDE DEF gone
  <2> QED
    BY KilledProcesses
<1>4. Sets(s, "rolling back", i[s], idle, ps, ready[s], pr)
  <2>1. process' = [process EXCEPT ![s] = pr]
    BY <1>2, <1>3 DEF GiveUp
  <2> QED
    BY <2>1, Before DEF GiveUp, Sets
<1>5. ScriptTypes("rolling back", i[s], idle, ps, ready[s], pr)
  BY <1>1 DEF ScriptTypes, Stages
<1>6. Places(s, "rolling back", i[s], idle, ps, pr, s \in crashed')
  <2>1. \A g \in Gpus : /\ process[s][g] \in Live => g \in Members(ps) \cup {n}
                        /\ process[s][g] = "starting" => g = n \/ s \in crashed
    BY <1>1, <1>2 DEF ScriptInv, Places
  <2>2. \A g \in Gpus : pr[g] \in Live => g \in Members(ps)
    BY <1>3, <2>1
  <2>3. \A g \in Gpus : pr[g] = "starting" => s \in crashed
    <3>1. "starting" \in Live
      BY DEF Live
    <3> QED
      BY <1>3, <2>1, <3>1
  <2> QED
    BY <1>2, <2>2, <2>3 DEF Places
<1>7. \A m \in 1 .. Len(ps) : pr[ps[m]] \in Started
  <2>1. \A m \in 1 .. Len(ps) : ps[m] \in Gpus /\ process[s][ps[m]] \in Started
    BY <1>1 DEF ScriptTypes, ScriptInv
  <2> QED
    BY <1>3, <2>1 DEF Started
<1>8. ScriptInv(s, "rolling back", i[s], idle, ps, ready[s], pr, s \in crashed')
  BY <1>1, <1>2, <1>6, <1>7 DEF ScriptInv
<1> QED
  BY <1>4, <1>5, <1>8, Update

LEMMA RollBackStep == ASSUME IInv, NEW s \in Scripts, RollBack(s) PROVE IInv'
<1> DEFINE idle == idle_gpus[s]
           ps == pids[s]
<1>1. /\ ScriptTypes(pc[s], i[s], idle, ps, ready[s], process[s])
      /\ ScriptInv(s, pc[s], i[s], idle, ps, ready[s], process[s], s \in crashed)
  BY Before
<1>2. pc[s] = "rolling back" /\ crashed' = crashed /\ Known(s) = Members(ps)
  BY DEF RollBack, Known, Members
<1>3. PICK pr \in [Gpus -> Live \cup {"none", "dead"}] :
         /\ Killed(s, Members(ps)) = [process EXCEPT ![s] = pr]
         /\ \A g \in Gpus : /\ pr[g] \in Live => pr[g] = process[s][g] /\ g \notin Members(ps)
                            /\ pr[g] = process[s][g] \/ pr[g] = "dead"
  BY KilledProcesses
<1>4. Sets(s, "failed", i[s], idle, ps, ready[s], pr)
  <2>1. process' = [process EXCEPT ![s] = pr]
    BY <1>2, <1>3 DEF RollBack
  <2> QED
    BY <2>1, Before DEF RollBack, Sets
<1>5. ScriptTypes("failed", i[s], idle, ps, ready[s], pr)
  BY <1>1 DEF ScriptTypes, Stages
<1>6. Places(s, "failed", i[s], idle, ps, pr, s \in crashed')
  <2>1. \A g \in Gpus : process[s][g] \in Live => g \in Members(ps)
    BY <1>1, <1>2 DEF ScriptInv, Places
  <2>2. \A g \in Gpus : pr[g] \notin Live
    BY <1>3, <2>1
  <2> QED
    BY <2>2 DEF Places, Live
<1>7. \A m \in 1 .. Len(ps) : pr[ps[m]] \in Started
  <2>1. \A m \in 1 .. Len(ps) : ps[m] \in Gpus /\ process[s][ps[m]] \in Started
    BY <1>1 DEF ScriptTypes, ScriptInv
  <2> QED
    BY <1>3, <2>1 DEF Started
<1>8. ScriptInv(s, "failed", i[s], idle, ps, ready[s], pr, s \in crashed')
  BY <1>1, <1>2, <1>6, <1>7 DEF ScriptInv
<1> QED
  BY <1>4, <1>5, <1>8, Update

-----------------------------------------------------------------------------
(* The job, the unlock and the end.                                        *)
LEMMA JobStep ==
    ASSUME IInv, NEW s \in Scripts, Work(s) \/ EndWork(s) \/ Finish(s) \/ Crash(s)
    PROVE  IInv'
<1> DEFINE idle == idle_gpus[s]
           ps == pids[s]
           pr == process[s]
<1>1. /\ ScriptTypes(pc[s], i[s], idle, ps, ready[s], pr)
      /\ ScriptInv(s, pc[s], i[s], idle, ps, ready[s], pr, s \in crashed)
      /\ crashed \subseteq Scripts
  BY Before
<1>2. CASE Work(s)
  <2>1. pc[s] = "locking" /\ Len(ps) = Len(idle) /\ crashed' = crashed
    BY <1>2 DEF Work
  <2>2. Sets(s, "working", i[s], idle, ps, ready[s], pr)
    BY <1>2, Before DEF Work, Sets
  <2>3. Places(s, "working", i[s], idle, ps, pr, s \in crashed')
    BY <1>1, <2>1 DEF ScriptInv, Places
  <2>4. ScriptTypes("working", i[s], idle, ps, ready[s], pr)
    BY <1>1 DEF ScriptTypes, Stages
  <2>5. ScriptInv(s, "working", i[s], idle, ps, ready[s], pr, s \in crashed')
    BY <1>1, <2>1, <2>3 DEF ScriptInv
  <2> QED
    BY <2>2, <2>4, <2>5, Update
<1>3. CASE EndWork(s)
  <2>1. pc[s] = "working" /\ crashed' = crashed
    BY <1>3 DEF EndWork
  <2>2. Sets(s, "unlocking", 1, idle, ps, ready[s], pr)
    BY <1>3, Before DEF EndWork, Sets
  <2>3. Places(s, "unlocking", 1, idle, ps, pr, s \in crashed')
    <3>1. \A g \in Gpus : /\ pr[g] \in Live => g \in Members(ps)
                          /\ pr[g] = "starting" => s \in crashed
      BY <1>1, <2>1 DEF ScriptInv, Places
    <3>2. \A g \in Members(ps) : \E n \in 1 .. Len(ps) : n >= 1 /\ ps[n] = g
      BY DEF Members
    <3> QED
      BY <2>1, <3>1, <3>2 DEF Places
  <2>4. ScriptTypes("unlocking", 1, idle, ps, ready[s], pr)
    BY <1>1 DEF ScriptTypes, Stages
  <2>5. ScriptInv(s, "unlocking", 1, idle, ps, ready[s], pr, s \in crashed')
    BY <1>1, <2>1, <2>3 DEF ScriptInv
  <2> QED
    BY <2>2, <2>4, <2>5, Update
<1>4. CASE Finish(s)
  <2>1. pc[s] = "unlocking" /\ i[s] > Len(ps) /\ crashed' = crashed
    BY <1>4 DEF Finish
  <2>2. Sets(s, "done", i[s], idle, ps, ready[s], pr)
    BY <1>4, Before DEF Finish, Sets
  <2>3. \A g \in Gpus : pr[g] \notin Live
    <3>1. \A g \in Gpus : pr[g] \in Live => \E n \in 1 .. Len(ps) : n >= i[s] /\ ps[n] = g
      BY <1>1, <2>1 DEF ScriptInv, Places
    <3>2. i[s] \in Nat /\ Len(ps) \in Nat
      BY <1>1 DEF ScriptTypes
    <3>3. \A n \in 1 .. Len(ps) : ~(n >= i[s])
      BY <2>1, <3>2
    <3> QED
      BY <3>1, <3>3
  <2>4. Places(s, "done", i[s], idle, ps, pr, s \in crashed')
    BY <2>3 DEF Places, Live
  <2>5. ScriptTypes("done", i[s], idle, ps, ready[s], pr)
    BY <1>1 DEF ScriptTypes, Stages
  <2>6. ScriptInv(s, "done", i[s], idle, ps, ready[s], pr, s \in crashed')
    BY <1>1, <2>1, <2>4 DEF ScriptInv
  <2> QED
    BY <2>2, <2>5, <2>6, Update
<1>5. CASE Crash(s)
  <2>1. s \in crashed' /\ crashed' = crashed \cup {s}
    BY <1>5 DEF Crash
  <2>2. Sets(s, "failed", i[s], idle, ps, ready[s], pr)
    BY <1>1, <1>5, Before DEF Crash, Sets
  <2>3. Places(s, "failed", i[s], idle, ps, pr, s \in crashed')
    BY <2>1 DEF Places
  <2>4. ScriptTypes("failed", i[s], idle, ps, ready[s], pr)
    BY <1>1 DEF ScriptTypes, Stages
  <2>5. ScriptInv(s, "failed", i[s], idle, ps, ready[s], pr, s \in crashed')
    BY <1>1, <2>1, <2>3 DEF ScriptInv
  <2> QED
    BY <2>2, <2>4, <2>5, Update
<1> QED
  BY <1>2, <1>3, <1>4, <1>5

LEMMA UnlockStep == ASSUME IInv, NEW s \in Scripts, Unlock(s) PROVE IInv'
<1> DEFINE idle == idle_gpus[s]
           ps == pids[s]
           k == i[s]
           gpu == ps[k]
           gone == {gpu}
<1>1. /\ ScriptTypes(pc[s], k, idle, ps, ready[s], process[s])
      /\ ScriptInv(s, pc[s], k, idle, ps, ready[s], process[s], s \in crashed)
  BY Before
<1>2. /\ pc[s] = "unlocking" /\ crashed' = crashed /\ k <= Len(ps) /\ k >= 1
      /\ k \in Nat /\ k + 1 \in Nat /\ Len(ps) \in Nat
  <2>1. pc[s] = "unlocking" /\ crashed' = crashed /\ k <= Len(ps)
    BY DEF Unlock
  <2>2. k >= 1 /\ k \in Nat /\ Len(ps) \in Nat
    BY <1>1, <2>1 DEF ScriptInv, ScriptTypes
  <2> QED
    BY <2>1, <2>2
<1>3. PICK pr \in [Gpus -> Live \cup {"none", "dead"}] :
         /\ Killed(s, gone) = [process EXCEPT ![s] = pr]
         /\ \A g \in Gpus : /\ pr[g] \in Live => pr[g] = process[s][g] /\ g \notin gone
                            /\ pr[g] = process[s][g] \/ pr[g] = "dead"
  <2> HIDE DEF gone
  <2> QED
    BY KilledProcesses
<1>4. process' = [process EXCEPT ![s] = pr]
  BY <1>3 DEF Unlock
<1>5. /\ \A g \in Gpus : pr[g] \in Live => \E n \in 1 .. Len(ps) : n >= k + 1 /\ ps[n] = g
      /\ \A g \in Gpus : pr[g] # "starting"
  <2>1. \A g \in Gpus : process[s][g] \in Live => \E n \in 1 .. Len(ps) : n >= k /\ ps[n] = g
    BY <1>1, <1>2 DEF ScriptInv, Places
  <2>2. ASSUME NEW g \in Gpus, pr[g] \in Live
        PROVE  \E n \in 1 .. Len(ps) : n >= k + 1 /\ ps[n] = g
    <3>1. process[s][g] \in Live /\ g # gpu
      BY <1>3, <2>2
    <3>2. PICK n \in 1 .. Len(ps) : n >= k /\ ps[n] = g
      BY <2>1, <3>1
    <3>3. n # k
      BY <3>1, <3>2
    <3>4. n >= k + 1
      BY <1>2, <3>2, <3>3
    <3> QED
      BY <3>2, <3>4
  <2>3. \A g \in Gpus : process[s][g] # "starting"
    BY <1>1, <1>2 DEF ScriptInv, Places
  <2> QED
    BY <1>3, <2>2, <2>3
<1>6. \A m \in 1 .. Len(ps) : pr[ps[m]] \in Started
  <2>1. \A m \in 1 .. Len(ps) : ps[m] \in Gpus /\ process[s][ps[m]] \in Started
    BY <1>1 DEF ScriptTypes, ScriptInv
  <2> QED
    BY <1>3, <2>1 DEF Started
<1>7. CASE s \in ErrExit /\ process[s][gpu] = "dead"
  <2>1. Sets(s, "failed", k, idle, ps, ready[s], pr)
    BY <1>4, <1>7, Before DEF Unlock, Sets
  <2>2. ScriptTypes("failed", k, idle, ps, ready[s], pr)
    BY <1>1 DEF ScriptTypes, Stages
  <2>3. Gone(s, ps, pr)
    <3>1. Len(ps) = Wanted[s]
      BY <1>1, <1>2 DEF ScriptInv
    <3>2. gpu \in Members(ps) /\ gpu \in Gpus
      BY <1>1, <1>2 DEF Members, ScriptTypes
    <3>3. pr[gpu] = "dead"
      BY <1>3, <1>7, <3>2
    <3> QED
      BY <1>7, <3>1, <3>2, <3>3 DEF Gone
  <2>4. Places(s, "failed", k, idle, ps, pr, s \in crashed')
    BY <1>5, <2>3 DEF Places
  <2>5. ScriptInv(s, "failed", k, idle, ps, ready[s], pr, s \in crashed')
    BY <1>1, <1>2, <1>6, <2>4 DEF ScriptInv
  <2> QED
    BY <2>1, <2>2, <2>5, Update
<1>8. CASE ~(s \in ErrExit /\ process[s][gpu] = "dead")
  <2>1. Sets(s, "unlocking", k + 1, idle, ps, ready[s], pr)
    BY <1>4, <1>8, Before DEF Unlock, Sets
  <2>2. ScriptTypes("unlocking", k + 1, idle, ps, ready[s], pr)
    BY <1>1, <1>2 DEF ScriptTypes, Stages
  <2>3. Places(s, "unlocking", k + 1, idle, ps, pr, s \in crashed')
    BY <1>5 DEF Places
  <2>4. k + 1 >= 1
    BY <1>2
  <2>5. ScriptInv(s, "unlocking", k + 1, idle, ps, ready[s], pr, s \in crashed')
    BY <1>1, <1>2, <1>6, <2>3, <2>4 DEF ScriptInv
  <2> QED
    BY <2>1, <2>2, <2>5, Update
<1> QED
  BY <1>7, <1>8

-----------------------------------------------------------------------------
(* The lock processes.                                                     *)
LEMMA ProcessStep == ASSUME IInv, NEW s \in Scripts, NEW g \in Gpus, LockStep(s, g) PROVE IInv'
<1> DEFINE idle == idle_gpus[s]
           ps == pids[s]
           n == NextGpu(idle, ps)
           old == process[s]
<1>1. /\ ScriptTypes(pc[s], i[s], idle, ps, ready[s], old)
      /\ ScriptInv(s, pc[s], i[s], idle, ps, ready[s], old, s \in crashed)
  BY Before
<1>2. PICK rd \in BOOLEAN, st \in Started :
         /\ old[g] \in {"starting", "printed"}
         /\ Sets(s, pc[s], i[s], idle, ps, rd, [old EXCEPT ![g] = st])
         /\ crashed' = crashed
         /\ rd => ready[s] \/ old[g] = "starting" 
  <2>1. CASE PrintReady(s, g)
    <3>1. Sets(s, pc[s], i[s], idle, ps, TRUE, [old EXCEPT ![g] = "printed"])
      BY <2>1, Before DEF PrintReady, Sets
    <3> QED
      BY <2>1, <3>1 DEF PrintReady, Started
  <2>2. CASE Allocate(s, g)
    <3>1. Sets(s, pc[s], i[s], idle, ps, ready[s], [old EXCEPT ![g] = "allocated"])
      BY <2>2, Before DEF Allocate, Sets
    <3>2. ready[s] \in BOOLEAN
      BY <1>1 DEF ScriptTypes
    <3> QED
      BY <2>2, <3>1, <3>2 DEF Allocate, Started
  <2>3. CASE Fail(s, g)
    <3>1. Sets(s, pc[s], i[s], idle, ps, ready[s], [old EXCEPT ![g] = "dead"])
      BY <2>3, Before DEF Fail, Sets
    <3>2. ready[s] \in BOOLEAN
      BY <1>1 DEF ScriptTypes
    <3> QED
      BY <2>3, <3>1, <3>2 DEF Fail, Started
  <2> QED
    BY <2>1, <2>2, <2>3 DEF LockStep
<1> DEFINE pr == [old EXCEPT ![g] = st]
<1>3. /\ pr \in [Gpus -> Live \cup {"none", "dead"}] /\ pr[g] \in Started
      /\ \A h \in Gpus \ {g} : pr[h] = old[h]
      /\ pr[g] # "none" /\ pr[g] # "starting" /\ old[g] \in Live
  BY <1>1, <1>2 DEF ScriptTypes, Started, Live
<1>4. ScriptTypes(pc[s], i[s], idle, ps, rd, pr)
  BY <1>1, <1>3 DEF ScriptTypes
<1>5. Places(s, pc[s], i[s], idle, ps, pr, s \in crashed')
  <2>1. \A h \in Gpus : (pr[h] \in Live => old[h] \in Live)
                        /\ (pr[h] = "starting" => old[h] = "starting")
    BY <1>3
  <2>2. Places(s, pc[s], i[s], idle, ps, old, s \in crashed)
    BY <1>1 DEF ScriptInv
  <2>3. Gone(s, ps, old) => Gone(s, ps, pr)
    <3>1. \A h \in Members(ps) : h \in Gpus
      BY <1>1 DEF ScriptTypes, Members
    <3>2. \A h \in Gpus : old[h] = "dead" => pr[h] = "dead"
      BY <1>2, <1>3
    <3> HIDE DEF pr, old, ps
    <3> QED
      BY <3>1, <3>2 DEF Gone
  <2> HIDE DEF pr, old, idle, ps
  <2> QED
    BY <1>2, <2>1, <2>2, <2>3 DEF Places
<1>6. \A m \in 1 .. Len(ps) : pr[ps[m]] \in Started
  <2>1. \A m \in 1 .. Len(ps) : ps[m] \in Gpus /\ old[ps[m]] \in Started
    BY <1>1 DEF ScriptTypes, ScriptInv
  <2> HIDE DEF pr
  <2> QED
    BY <1>3, <2>1
<1>7. pc[s] \in {"polling", "reading"} =>
         /\ pr[n] # "none"
         /\ rd => pr[n] \in Started
  <2> SUFFICES ASSUME pc[s] \in {"polling", "reading"}
               PROVE  pr[n] # "none" /\ (rd => pr[n] \in Started)
    OBVIOUS
  <2>1. n \in Gpus /\ s \notin crashed /\ old[n] # "none"
    BY <1>1, NextGpuIsNew DEF ScriptInv, ScriptTypes
  <2>2. old[g] = "starting" => g = n
    BY <1>1, <2>1 DEF ScriptInv, Places
  <2>3. ready[s] => old[n] \in Started
    BY <1>1 DEF ScriptInv
  <2> HIDE DEF pr, old, n
  <2> QED
    BY <1>2, <1>3, <2>1, <2>2, <2>3
<1>8. ScriptInv(s, pc[s], i[s], idle, ps, rd, pr, s \in crashed')
  <2> HIDE DEF pr
  <2> QED
    BY <1>1, <1>2, <1>5, <1>6, <1>7 DEF ScriptInv
<1> QED
  BY <1>2, <1>4, <1>8, Update

LEMMA NextIInv == IInv /\ [Next]_vars => IInv'
<1> SUFFICES ASSUME IInv, [Next]_vars PROVE IInv'
  OBVIOUS
<1>1. ASSUME NEW s \in Scripts, ScriptStep(s) PROVE IInv'
  BY <1>1, FindStep, ScanStep, StartLockStep, PollStep, ReadReadyStep, GiveUpStep,
     RollBackStep, JobStep, UnlockStep DEF ScriptStep
<1>2. ASSUME NEW s \in Scripts, Crash(s) PROVE IInv'
  BY <1>2, JobStep
<1>3. ASSUME NEW s \in Scripts, NEW g \in Gpus, LockStep(s, g) PROVE IInv'
  BY <1>3, ProcessStep
<1>4. CASE UNCHANGED vars
  <2>1. TypeOK'
    BY <1>4 DEF vars, IInv, TypeOK
  <2>2. \A s \in Scripts :
           ScriptInv(s, pc'[s], i'[s], idle_gpus'[s], pids'[s], ready'[s], process'[s],
                     s \in crashed')
    BY <1>4 DEF vars, IInv
  <2> QED
    BY <2>1, <2>2 DEF IInv
<1> QED
  BY <1>1, <1>2, <1>3, <1>4 DEF Next, Terminated

LEMMA InvariantHolds == Spec => []IInv
  BY InitIInv, NextIInv, PTL DEF Spec

(* The types, whatever the scripts want and however many GPUs there are:   *)
(* get_gpus finds no more GPUs than were asked for and lock_gpus locks no  *)
(* more than it was given.                                                 *)
THEOREM TypeCorrect == Spec => []TypeOK
<1>1. IInv => TypeOK
  BY DEF IInv
<1> QED
  BY <1>1, InvariantHolds, PTL

(* A lock process outlives its script only when the script was killed, or  *)
(* ended inside unlock_gpus because of set -e: the roll-back of lock_gpus  *)
(* and the loop of unlock_gpus reach every process, whatever dies and      *)
(* however slowly READY comes.                                             *)
THEOREM NoLeak == Spec => []OnlyCrashesLeak
<1>1. ASSUME IInv PROVE OnlyCrashesLeak
  <2>1. ASSUME NEW s \in Scripts, Over(s), s \notin crashed, ~EndedInUnlock(s),
               NEW g \in Gpus
        PROVE  process[s][g] \notin Live
    <3>1. Places(s, pc[s], i[s], idle_gpus[s], pids[s], process[s], s \in crashed)
      BY <1>1 DEF IInv, ScriptInv
    <3>2. pc[s] = "failed" => ~Gone(s, pids[s], process[s])
      BY <2>1 DEF EndedInUnlock, Gone, Members, Known
    <3>3. pc[s] \in {"done", "failed"}
      BY <2>1 DEF Over
    <3> QED
      BY <2>1, <3>1, <3>2, <3>3 DEF Places
  <2> QED
    BY <2>1 DEF OnlyCrashesLeak
<1> QED
  BY <1>1, InvariantHolds, PTL

(* A list without repetition has as many members as entries.               *)
LEMMA MembersCount ==
    ASSUME NEW ps \in Seq(Gpus), Ascending(ps)
    PROVE  Cardinality(Members(ps)) = Len(ps)
<1> DEFINE f == [n \in 1 .. Len(ps) |-> ps[n]]
<1>1. Len(ps) \in Nat /\ \A n \in 1 .. Len(ps) : ps[n] \in Gpus
  OBVIOUS
<1>2. \A a, b \in Gpus : a < b => a # b
  BY ConstantsAssumption DEF Gpus, ConstantsAssumption
<1>3. \A m, n \in 1 .. Len(ps) : f[m] = f[n] => m = n
  BY <1>1, <1>2 DEF Ascending
<1>4. f \in Bijection(1 .. Len(ps), Members(ps))
  <2>1. f \in Injection(1 .. Len(ps), Members(ps))
    <3>1. f \in [1 .. Len(ps) -> Members(ps)]
      BY DEF Members
    <3>2. IsInjective(f)
      BY <1>3 DEF IsInjective
    <3> QED
      BY <3>1, <3>2 DEF Injection
  <2>2. f \in Surjection(1 .. Len(ps), Members(ps))
    BY DEF Surjection, Members
  <2> QED
    BY <2>1, <2>2 DEF Bijection
<1>5. ExistsBijection(1 .. Len(ps), Members(ps))
  BY <1>4 DEF ExistsBijection
<1> QED
  BY <1>1, <1>5, FS_CountingElements

(* Until a script gives up or unlocks, nobody kills its lock processes:    *)
(* one that is dead has failed.                                            *)
Holding == {"scanning", "locking", "polling", "reading", "working"}

DeadHaveFailed ==
    \A s \in Scripts, g \in Gpus :
        (pc[s] \in Holding /\ process[s][g] = "dead") => g \in MayFail

LEMMA NextDeadHaveFailed == (TypeOK /\ DeadHaveFailed /\ [Next]_vars) => DeadHaveFailed'
<1> SUFFICES ASSUME TypeOK, DeadHaveFailed, [Next]_vars,
                    NEW t \in Scripts, NEW h \in Gpus,
                    pc'[t] \in Holding, process'[t][h] = "dead"
             PROVE  h \in MayFail
  BY DEF DeadHaveFailed
<1>1. /\ pc \in [Scripts -> Stages]
      /\ process \in [Scripts -> [Gpus -> Live \cup {"none", "dead"}]]
  BY DEF TypeOK
<1>2. SUFFICES (pc[t] \in Holding /\ process[t][h] = "dead") \/ h \in MayFail
  BY DEF DeadHaveFailed
<1>3. ASSUME NEW s \in Scripts, ScriptStep(s)
      PROVE  (pc[t] \in Holding /\ process[t][h] = "dead") \/ h \in MayFail
  <2>1. CASE Find(s) \/ PassOver(s) \/ ScanAgain(s)
    BY <1>1, <2>1 DEF Find, PassOver, ScanAgain, Holding
  <2>2. CASE TimeoutReached(s) \/ SeeItDead(s)
    BY <1>1, <2>2 DEF TimeoutReached, SeeItDead, Holding
  <2>3. CASE StartLock(s)
    BY <1>1, <2>3 DEF StartLock, Holding
  <2>4. CASE SeeItAlive(s) \/ ReadReady(s) \/ ReadNothing(s)
    BY <1>1, <2>4 DEF SeeItAlive, ReadReady, ReadNothing, Holding
  <2>5. CASE Work(s) \/ EndWork(s) \/ Finish(s)
    BY <1>1, <2>5 DEF Work, EndWork, Finish, Holding
  <2>6. ASSUME NEW gpus, process' = Killed(s, gpus), pc'[s] \notin Holding,
               \A u \in Scripts \ {s} : pc'[u] = pc[u]
        PROVE  pc[t] \in Holding /\ process[t][h] = "dead"
    <3>1. t # s
      BY <2>6
    <3>2. process'[t] = process[t]
      BY <1>1, <2>6, <3>1 DEF Killed
    <3> QED
      BY <2>6, <3>1, <3>2
  <2>7. CASE GiveUp(s)
    BY <1>1, <2>6, <2>7 DEF GiveUp, Holding
  <2>8. CASE RollBack(s)
    BY <1>1, <2>6, <2>8 DEF RollBack, Holding
  <2>9. CASE Unlock(s)
    <3>1. /\ process' = Killed(s, {pids[s][i[s]]}) /\ pc[s] = "unlocking"
          /\ pc' = [pc EXCEPT ![s] = "failed"] \/ pc' = pc
      BY <2>9 DEF Unlock
    <3>2. pc'[s] \notin Holding /\ \A u \in Scripts \ {s} : pc'[u] = pc[u]
      BY <1>1, <3>1 DEF Holding
    <3> QED
      BY <2>6, <3>1, <3>2
  <2> QED
    BY <1>3, <2>1, <2>2, <2>3, <2>4, <2>5, <2>7, <2>8, <2>9 DEF ScriptStep
<1>4. ASSUME NEW s \in Scripts, Crash(s)
      PROVE  (pc[t] \in Holding /\ process[t][h] = "dead") \/ h \in MayFail
  BY <1>1, <1>4 DEF Crash, Holding
<1>5. ASSUME NEW s \in Scripts, NEW g \in Gpus, LockStep(s, g)
      PROVE  (pc[t] \in Holding /\ process[t][h] = "dead") \/ h \in MayFail
  BY <1>1, <1>5 DEF LockStep, PrintReady, Allocate, Fail
<1>6. CASE UNCHANGED vars
  BY <1>6 DEF vars
<1> QED
  BY <1>3, <1>4, <1>5, <1>6 DEF Next, Terminated

LEMMA DeadHaveFailedHolds == Spec => []DeadHaveFailed
<1>1. Init => DeadHaveFailed
  BY DEF Init, DeadHaveFailed
<1> QED
  BY <1>1, TypeCorrect, NextDeadHaveFailed, PTL DEF Spec

(* A script that works knows a lock process on as many different GPUs as   *)
(* it asked for; each has printed READY, and each lives unless lock_gpu.py *)
(* can fail on its GPU and has died there by itself.                       *)
THEOREM WorksOnAll == Spec => []WorksOnWhatItWanted
<1>1. ASSUME IInv, DeadHaveFailed PROVE WorksOnWhatItWanted
  <2>1. ASSUME NEW s \in Scripts, pc[s] = "working"
        PROVE  /\ Cardinality(Known(s)) = Wanted[s]
               /\ \A g \in Known(s) :
                     \/ process[s][g] \in {"printed", "allocated"}
                     \/ g \in MayFail /\ process[s][g] = "dead"
    <3>1. /\ ScriptTypes(pc[s], i[s], idle_gpus[s], pids[s], ready[s], process[s])
          /\ ScriptInv(s, pc[s], i[s], idle_gpus[s], pids[s], ready[s], process[s],
                       s \in crashed)
      BY <1>1, Before
    <3>2. /\ pids[s] \in Seq(Gpus) /\ Ascending(idle_gpus[s]) /\ Prefix(pids[s], idle_gpus[s])
          /\ Len(pids[s]) = Wanted[s] /\ Len(pids[s]) = Len(idle_gpus[s])
          /\ \A n \in 1 .. Len(pids[s]) : process[s][pids[s][n]] \in Started
      BY <2>1, <3>1 DEF ScriptTypes, ScriptInv
    <3>3. Ascending(pids[s])
      BY <3>2 DEF Ascending, Prefix
    <3>4. Cardinality(Members(pids[s])) = Wanted[s]
      BY <3>2, <3>3, MembersCount
    <3>5. Known(s) = Members(pids[s])
      BY DEF Known, Members
    <3>6. ASSUME NEW g \in Known(s)
          PROVE  g \in Gpus /\ process[s][g] \in Started
      BY <3>2, <3>5, <3>6 DEF Members
    <3>7. ASSUME NEW g \in Known(s), process[s][g] = "dead" PROVE g \in MayFail
      BY <1>1, <2>1, <3>6, <3>7 DEF DeadHaveFailed, Holding
    <3> QED
      BY <3>4, <3>5, <3>6, <3>7 DEF Started
  <2> QED
    BY <2>1 DEF WorksOnWhatItWanted
<1> QED
  BY <1>1, InvariantHolds, DeadHaveFailedHolds, PTL

-----------------------------------------------------------------------------
(* The interpreters *)

Consistent(ip) ==
    /\ ip.client <=> ip.count > 0
    /\ ip.attribute = "wrapper" <=> ip.count > 0
    /\ ip.saved = "none" <=> ip.count = 0
    /\ ip.saved = "original" <=> ip.count = 1
    /\ ip.count > 0 => MessageTypes \subseteq ip.types
    /\ MessageTypes \subseteq ip.types => env.compatible
    /\ ip.schedule <= 1
    /\ ip.worker <= 1

(* A child that was started knows its target for a reason, and under the   *)
(* wrapper it is ready before it runs.                                     *)
ChildInv(c) ==
    /\ Consistent(child[c])
    /\ target[c] = "wrapper" => env.compatible
    /\ offered[c] => target[c] = "wrapper"
    /\ child[c].active <=> (target[c] = "wrapper" /\ life[c] \in {"applying", "running"})
    /\ (target[c] = "wrapper" /\ life[c] \in {"applying", "running"}) =>
          OriginalRun(child[c]) = "original"
    /\ (target[c] = "wrapper" /\ life[c] = "running" /\ env.importable) => Serves(child[c])
    /\ life[c] = "failed" => (~env.compatible \/ child[c].count > 1 \/ nested[c])
    /\ life[c] = "applying" => target[c] = "wrapper"
    /\ life[c] = "absent" => (~offered[c] /\ target[c] = "original")

ParentInv == Consistent(parent) /\ ~parent.active

BootInv == BootTypeOK /\ ParentInv /\ \A c \in Children : ChildInv(c)

-----------------------------------------------------------------------------
(* Patching keeps an interpreter what it is and consistent.                *)
LEMMA FreshIsConsistent ==
    Fresh \in Interpreters /\ Consistent(Fresh) /\ ~Fresh.active
  BY DEF Fresh, Interpreters, Consistent, Functions, MessageTypes

(* One more call of patch_batch_and_fork, or an error that changes nothing.*)
LEMMA PatchBatchAndForkKeeps ==
    ASSUME NEW ip \in Interpreters, Consistent(ip), env \in Environments
    PROVE  /\ PatchBatchAndFork(ip) \in Interpreters
           /\ Consistent(PatchBatchAndFork(ip))
           /\ PatchBatchAndFork(ip).active = ip.active
<1>1. CASE ~CanAddTypes(ip)
  BY <1>1 DEF PatchBatchAndFork
<1>2. CASE CanAddTypes(ip)
  <2> DEFINE k == ApplyBatchForkPatches(ip)
             j == [k EXCEPT !.saved = ip.attribute, !.attribute = "wrapper", !.count = @ + 1]
  <2>1. /\ k \in Interpreters /\ k.active = ip.active /\ k.count = ip.count /\ k.client
        /\ k.types = ip.types \cup MessageTypes
        /\ k.schedule = ip.schedule /\ k.worker = ip.worker
    BY DEF ApplyBatchForkPatches, AddTypes, Interpreters
  <2>2. /\ j \in Interpreters /\ j.active = k.active
        /\ j.count = k.count + 1 /\ j.attribute = "wrapper" /\ j.saved = ip.attribute
        /\ j.client = k.client /\ j.types = k.types
        /\ j.schedule = k.schedule /\ j.worker = k.worker
    <3> HIDE DEF k
    <3> QED
      <4>1. ip.attribute \in Functions /\ k.count + 1 \in Nat /\ "wrapper" \in Functions
        BY <2>1 DEF Interpreters, Functions
      <4>2. j \in Interpreters
        BY <2>1, <4>1 DEF Interpreters
      <4>3. j.active = k.active /\ j.client = k.client /\ j.types = k.types
        BY <2>1 DEF Interpreters
      <4>4. j.schedule = k.schedule /\ j.worker = k.worker
        BY <2>1 DEF Interpreters
      <4>5. j.count = k.count + 1 /\ j.attribute = "wrapper" /\ j.saved = ip.attribute
        BY <2>1 DEF Interpreters
      <4> QED
        BY <4>2, <4>3, <4>4, <4>5
  <2>3. ip.count \in Nat /\ j.client
    BY <2>1, <2>2 DEF Interpreters
  <2>4. PatchBatchAndFork(ip) = j
    BY <1>2 DEF PatchBatchAndFork
  <2>5. env.compatible
    BY <1>2 DEF CanAddTypes, Consistent, MessageTypes, Environments
  <2>6. Consistent(j)
    <3> HIDE DEF k, j
    <3> QED
      BY <2>1, <2>2, <2>3, <2>5 DEF Consistent, Interpreters, Functions
  <2> QED
    BY <2>1, <2>2, <2>4, <2>6
<1> QED
  BY <1>1, <1>2

(* run_patch, whether it was called before or not.                         *)
LEMMA RunPatchKeeps ==
    ASSUME NEW ip \in Interpreters, Consistent(ip), env \in Environments
    PROVE  /\ RunPatch(ip) \in Interpreters
           /\ Consistent(RunPatch(ip))
           /\ RunPatch(ip).active = ip.active
<1> DEFINE j == [ip EXCEPT !.patched = TRUE, !.api = TRUE]
<1>1. j \in Interpreters /\ Consistent(j) /\ j.active = ip.active
  BY DEF Interpreters, Consistent
<1> QED
  BY <1>1, PatchBatchAndForkKeeps DEF RunPatch

(* The import of vllm_gr.init.                                             *)
LEMMA ImportInitKeeps ==
    ASSUME NEW ip \in Interpreters, Consistent(ip), env \in Environments
    PROVE  /\ ImportInit(ip) \in Interpreters
           /\ Consistent(ImportInit(ip))
           /\ ImportInit(ip).active = ip.active
  BY RunPatchKeeps DEF ImportInit

(* What run_engine_core leaves in the child before it delegates.           *)
LEMMA ApplyChildPatchesServes ==
    ASSUME NEW ip \in Interpreters, Consistent(ip), env \in Environments, env.compatible
    PROVE  LET j == ApplyChildPatches(ip)
           IN  /\ j \in Interpreters /\ Consistent(j)
               /\ j.active = ip.active /\ j.saved = ip.saved /\ j.attribute = ip.attribute
               /\ j.count = ip.count
               /\ env.importable => Serves(j)
<1> DEFINE n == AddTypes(ip)
           a == [n EXCEPT !.init = @ + 1, !.input_thread = TRUE]
           b == ApplySchedulerPatch(a)
           j == ApplyWorkerPatches(b)
<1>1. /\ a \in Interpreters /\ Consistent(a) /\ a.active = ip.active
      /\ a.saved = ip.saved /\ a.attribute = ip.attribute /\ a.count = ip.count
      /\ MessageTypes \subseteq a.types /\ a.input_thread /\ a.init > 0
  <2>1. /\ n \in Interpreters /\ n.types = ip.types \cup MessageTypes
        /\ n.active = ip.active /\ n.client = ip.client /\ n.init = ip.init
    BY DEF AddTypes, Interpreters
  <2>2. /\ n.saved = ip.saved /\ n.attribute = ip.attribute /\ n.count = ip.count
        /\ n.schedule = ip.schedule /\ n.worker = ip.worker
    BY DEF AddTypes, Interpreters
  <2> HIDE DEF n
  <2>3. n.init \in Nat /\ n.init + 1 \in Nat
    BY <2>1 DEF Interpreters
  <2>4. a \in Interpreters /\ a.init = n.init + 1 /\ a.input_thread
    BY <2>1, <2>3 DEF Interpreters
  <2>5. a.active = n.active /\ a.client = n.client /\ a.types = n.types
    BY <2>1 DEF Interpreters
  <2>6. /\ a.saved = n.saved /\ a.attribute = n.attribute /\ a.count = n.count
        /\ a.schedule = n.schedule /\ a.worker = n.worker
    BY <2>1 DEF Interpreters
  <2>7. Consistent(a)
    <3> HIDE DEF a
    <3> QED
      BY <2>1, <2>2, <2>5, <2>6 DEF Consistent
  <2> QED
    BY <2>1, <2>2, <2>3, <2>4, <2>5, <2>6, <2>7
<1>2. /\ b \in Interpreters /\ Consistent(b) /\ b.active = ip.active
      /\ b.saved = ip.saved /\ b.attribute = ip.attribute /\ b.count = ip.count
      /\ MessageTypes \subseteq b.types /\ b.input_thread /\ b.init > 0 /\ b.schedule = 1
  <2> HIDE DEF n, a
  <2>1. a.schedule \in Nat /\ a.schedule <= 1
    BY <1>1 DEF Interpreters, Consistent
  <2>2. CASE a.schedule > 0
    BY <1>1, <2>1, <2>2 DEF ApplySchedulerPatch
  <2>3. CASE ~(a.schedule > 0)
    <3>1. b = [a EXCEPT !.schedule = 1]
      BY <2>1, <2>3 DEF ApplySchedulerPatch
    <3> QED
      BY <1>1, <3>1 DEF Interpreters, Consistent
  <2> QED
    BY <2>2, <2>3
<1>3. /\ j \in Interpreters /\ Consistent(j) /\ j.active = ip.active
      /\ j.saved = ip.saved /\ j.attribute = ip.attribute /\ j.count = ip.count
      /\ env.importable => Serves(j)
  <2> HIDE DEF n, a, b
  <2>1. b.worker \in Nat /\ b.worker <= 1
    BY <1>2 DEF Interpreters, Consistent
  <2>2. CASE b.worker > 0 \/ ~env.importable
    BY <1>2, <2>1, <2>2 DEF ApplyWorkerPatches, Serves
  <2>3. CASE ~(b.worker > 0 \/ ~env.importable)
    <3>1. j = [b EXCEPT !.worker = 1]
      BY <2>1, <2>3 DEF ApplyWorkerPatches
    <3> QED
      BY <1>2, <3>1 DEF Interpreters, Consistent, Serves
  <2> QED
    BY <2>2, <2>3
<1> QED
  BY <1>3 DEF ApplyChildPatches

(* The wrapper finds vLLM's function exactly when it was installed at most *)
(* once.                                                                   *)
LEMMA OriginalIsFound ==
    ASSUME NEW ip \in Interpreters, Consistent(ip)
    PROVE  OriginalRun(ip) = "original" <=> ip.count <= 1
  BY DEF OriginalRun, Interpreters, Consistent, Functions

-----------------------------------------------------------------------------
LEMMA InitInv == BootInit => BootInv
<1> SUFFICES ASSUME BootInit PROVE BootInv
  OBVIOUS
<1> USE DEF BootInit
<1>1. BootTypeOK
  BY FreshIsConsistent DEF BootTypeOK, Lives, Functions
<1>2. ParentInv
  BY FreshIsConsistent DEF ParentInv
<1>3. ASSUME NEW c \in Children PROVE ChildInv(c)
  BY FreshIsConsistent DEF ChildInv
<1> QED
  BY <1>1, <1>2, <1>3 DEF BootInv

(* A step of the parent changes no child.                                  *)
LEMMA ParentStep ==
    ASSUME BootInv, UNCHANGED <<env, childVars>>,
           imported' \in BOOLEAN,
           parent' \in Interpreters, Consistent(parent'), ~parent'.active
    PROVE  BootInv'
<1>1. BootTypeOK'
  BY DEF BootInv, BootTypeOK, childVars
<1>2. ParentInv'
  BY DEF ParentInv, Consistent
<1>3. ASSUME NEW c \in Children PROVE ChildInv(c)'
  BY DEF BootInv, ChildInv, Consistent, childVars, Serves, OriginalRun
<1> QED
  BY <1>1, <1>2, <1>3 DEF BootInv

(* A step of or for one child leaves the parent and the other children.    *)
LEMMA ChildStep ==
    ASSUME BootInv, NEW c \in Children, UNCHANGED <<env, parentVars>>, BootTypeOK', ChildInv(c)',
           \A d \in Children \ {c} :
              /\ life'[d] = life[d] /\ child'[d] = child[d] /\ target'[d] = target[d]
              /\ offered'[d] = offered[d] /\ nested'[d] = nested[d]
    PROVE  BootInv'
<1>1. ParentInv'
  BY DEF BootInv, ParentInv, Consistent, parentVars
<1>2. ASSUME NEW d \in Children \ {c} PROVE ChildInv(d)'
  BY DEF BootInv, ChildInv, Consistent, Serves, OriginalRun
<1> QED
  BY <1>1, <1>2 DEF BootInv

(* A process is started with an interpreter of its own.                    *)
LEMMA StartStep ==
    ASSUME BootInv, NEW c \in Children, NEW ip \in Interpreters, NEW f \in Functions,
           NEW stage \in {"up", "failed"},
           Start(c, ip, f, stage), Consistent(ip), ~ip.active,
           f = "wrapper" => env.compatible,
           parent.client => f = "wrapper",
           stage = "failed" => ~env.compatible
    PROVE  BootInv'
<1> USE DEF BootInv, Start, parentVars
<1>0. parent.client \in BOOLEAN
  BY DEF BootTypeOK, Interpreters
<1>1. BootTypeOK'
  BY <1>0 DEF BootTypeOK, Lives
<1>2. /\ life'[c] = stage /\ child'[c] = ip /\ target'[c] = f /\ offered'[c] = parent.client
      /\ env' = env
  BY DEF BootTypeOK
<1>3. ChildInv(c)'
  BY <1>2 DEF ChildInv, Consistent
<1>4. \A d \in Children \ {c} :
         /\ life'[d] = life[d] /\ child'[d] = child[d] /\ target'[d] = target[d]
         /\ offered'[d] = offered[d] /\ nested'[d] = nested[d]
  BY DEF BootTypeOK
<1> QED
  BY <1>1, <1>3, <1>4, ChildStep

(* A child goes on with its interpreter changed by one of its operations.  *)
LEMMA GoesStep ==
    ASSUME BootInv, NEW c \in Children, NEW stage \in Lives, NEW ip \in Interpreters,
           Goes(c, stage, ip), Consistent(ip), stage # "absent",
           calls' \in [Children -> Nat], nested' \in [Children -> BOOLEAN],
           \A d \in Children \ {c} : nested'[d] = nested[d],
           ip.active <=> (target[c] = "wrapper" /\ stage \in {"applying", "running"}),
           (target[c] = "wrapper" /\ stage \in {"applying", "running"}) =>
              OriginalRun(ip) = "original",
           (target[c] = "wrapper" /\ stage = "running" /\ env.importable) => Serves(ip),
           stage = "failed" => (~env.compatible \/ ip.count > 1 \/ nested'[c]),
           stage = "applying" => target[c] = "wrapper"
    PROVE  BootInv'
<1> USE DEF BootInv, Goes, parentVars
<1>1. BootTypeOK'
  BY DEF BootTypeOK
<1>2. /\ life'[c] = stage /\ child'[c] = ip /\ target'[c] = target[c]
      /\ offered'[c] = offered[c] /\ env' = env
  BY DEF BootTypeOK
<1>3. ChildInv(c)'
  BY <1>2 DEF ChildInv, Consistent, Serves, OriginalRun
<1>4. \A d \in Children \ {c} :
         /\ life'[d] = life[d] /\ child'[d] = child[d] /\ target'[d] = target[d]
         /\ offered'[d] = offered[d] /\ nested'[d] = nested[d]
  BY DEF BootTypeOK
<1> QED
  BY <1>1, <1>3, <1>4, ChildStep

LEMMA LeaveKeeps ==
    ASSUME NEW ip \in Interpreters, Consistent(ip)
    PROVE  /\ Leave(ip) \in Interpreters /\ Consistent(Leave(ip))
           /\ ~Leave(ip).active
           /\ Leave(ip).count = ip.count
  BY DEF Leave, Interpreters, Consistent

LEMMA NextInv == BootInv /\ [BootNext]_bootVars => BootInv'
<1> SUFFICES ASSUME BootInv, [BootNext]_bootVars PROVE BootInv'
  OBVIOUS
<1>0. /\ BootTypeOK /\ Consistent(parent) /\ ~parent.active
      /\ parent \in Interpreters /\ env \in Environments
  BY DEF BootInv, ParentInv, BootTypeOK
<1>1. CASE CallRunPatch
  BY <1>0, <1>1, RunPatchKeeps, ParentStep DEF CallRunPatch, BootTypeOK, childVars
<1>2. CASE ImportInitModule
  <2>1. imported' \in BOOLEAN
    BY <1>2 DEF ImportInitModule
  <2> QED
    BY <1>0, <1>2, <2>1, ImportInitKeeps, ParentStep DEF ImportInitModule, childVars
<1>3. CASE CallPatchBatchAndFork
  BY <1>0, <1>3, PatchBatchAndForkKeeps, ParentStep
     DEF CallPatchBatchAndFork, BootTypeOK, childVars
<1>4. ASSUME NEW c \in Children,
             \/ Fork(c) \/ Spawn(c) \/ SpawnImporting(c)
             \/ RunOriginal(c) \/ RefuseToRecurse(c) \/ EnterWrapper(c)
             \/ Apply(c) \/ Return(c) \/ Reenter(c)
      PROVE BootInv'
  <2> DEFINE ip == child[c]
  <2>0. /\ ip \in Interpreters /\ Consistent(ip) /\ ChildInv(c)
        /\ calls \in [Children -> Nat] /\ nested \in [Children -> BOOLEAN]
        /\ target[c] \in Functions /\ parent.attribute \in Functions
    BY <1>0 DEF BootInv, ChildInv, BootTypeOK, Interpreters
  <2>1. CASE Fork(c)
    <3>1. parent.attribute = "wrapper" => env.compatible
      BY <1>0 DEF Consistent
    <3>2. parent.client => parent.attribute = "wrapper"
      BY <1>0 DEF Consistent
    <3> QED
      BY <1>0, <2>0, <2>1, <3>1, <3>2, StartStep DEF Fork
  <2>2. CASE Spawn(c)
    <3>1. /\ ByName(Fresh) \in Functions
          /\ (ByName(Fresh) = "wrapper" => env.compatible)
      BY <1>0 DEF ByName, Fresh, Consistent, Functions
    <3>2. parent.client => ByName(Fresh) = "wrapper"
      BY <1>0 DEF ByName, Consistent
    <3> QED
      BY <2>2, <3>1, <3>2, FreshIsConsistent, StartStep DEF Spawn
  <2>3. CASE SpawnImporting(c)
    <3> DEFINE j == ImportInit(Fresh)
               stage == IF ImportRaises(Fresh) THEN "failed" ELSE "up"
    <3>1. j \in Interpreters /\ Consistent(j) /\ ~j.active
      BY <1>0, FreshIsConsistent, ImportInitKeeps
    <3>2. ByName(j) \in Functions /\ (ByName(j) = "wrapper" => env.compatible)
      BY <1>0, <3>1 DEF ByName, Consistent, Functions, Interpreters
    <3>3. parent.client => ByName(j) = "wrapper"
      BY <1>0 DEF ByName, Consistent
    <3>4. stage \in {"up", "failed"} /\ (stage = "failed" => ~env.compatible)
      BY DEF ImportRaises, RunPatchRaises, CanAddTypes
    <3>5. Start(c, j, ByName(j), stage)
      BY <2>3 DEF SpawnImporting
    <3> HIDE DEF j, stage
    <3> QED
      BY <3>1, <3>2, <3>3, <3>4, <3>5, StartStep
  <2>4. CASE RunOriginal(c)
    <3>1. /\ target[c] = "original" /\ Goes(c, "running", ip) /\ nested' = nested
          /\ calls' \in [Children -> Nat]
      BY <2>0, <2>4 DEF RunOriginal, Called
    <3>2. ~ip.active
      BY <2>0, <3>1 DEF ChildInv
    <3> QED
      BY <2>0, <3>1, <3>2, GoesStep DEF Lives
  <2>5. CASE RefuseToRecurse(c)
    <3>1. /\ target[c] = "wrapper" /\ Goes(c, "failed", ip) /\ nested' = nested
          /\ calls' \in [Children -> Nat] /\ life[c] \in {"up", "done", "failed"}
          /\ ip.active \/ OriginalRun(ip) = "wrapper"
      BY <2>0, <2>5 DEF RefuseToRecurse, Called
    <3>2. ~ip.active /\ ip.count > 1
      BY <2>0, <3>1, OriginalIsFound DEF ChildInv, Interpreters
    <3> QED
      BY <2>0, <3>1, <3>2, GoesStep DEF Lives
  <2>6. CASE EnterWrapper(c)
    <3> DEFINE j == [ip EXCEPT !.active = TRUE]
    <3>1. /\ target[c] = "wrapper" /\ Goes(c, "applying", j) /\ nested' = nested
          /\ calls' \in [Children -> Nat] /\ OriginalRun(ip) = "original"
      BY <2>0, <2>6 DEF EnterWrapper, Called
    <3>2. j \in Interpreters /\ Consistent(j) /\ j.active /\ OriginalRun(j) = "original"
      BY <2>0, <3>1 DEF Interpreters, Consistent, OriginalRun
    <3> HIDE DEF j
    <3> QED
      BY <2>0, <3>1, <3>2, GoesStep DEF Lives
  <2>7. CASE Apply(c)
    <3> DEFINE j == ApplyChildPatches(ip)
    <3>1. /\ life[c] = "applying" /\ Goes(c, "running", j) /\ nested' = nested
          /\ calls' = calls
      BY <2>7 DEF Apply
    <3>2. /\ target[c] = "wrapper" /\ env.compatible /\ ip.active
          /\ OriginalRun(ip) = "original"
      BY <2>0, <3>1 DEF ChildInv
    <3>3. /\ j \in Interpreters /\ Consistent(j) /\ j.active = ip.active
          /\ j.saved = ip.saved /\ j.attribute = ip.attribute
          /\ env.importable => Serves(j)
      BY <1>0, <2>0, <3>2, ApplyChildPatchesServes
    <3>4. OriginalRun(j) = "original"
      BY <3>2, <3>3 DEF OriginalRun
    <3> HIDE DEF j
    <3> QED
      BY <2>0, <3>1, <3>2, <3>3, <3>4, GoesStep DEF Lives
  <2>8. CASE Return(c)
    <3>1. Goes(c, "done", Leave(ip)) /\ nested' = nested /\ calls' = calls
      BY <2>8 DEF Return
    <3> QED
      BY <2>0, <3>1, LeaveKeeps, GoesStep DEF Lives
  <2>9. CASE Reenter(c)
    <3>1. /\ Goes(c, "failed", Leave(ip)) /\ calls' = calls
          /\ nested' = [nested EXCEPT ![c] = TRUE]
      BY <2>9 DEF Reenter
    <3>2. /\ nested' \in [Children -> BOOLEAN] /\ nested'[c]
          /\ \A d \in Children \ {c} : nested'[d] = nested[d]
      BY <2>0, <3>1
    <3> QED
      BY <2>0, <3>1, <3>2, LeaveKeeps, GoesStep DEF Lives
  <2> QED
    BY <1>4, <2>1, <2>2, <2>3, <2>4, <2>5, <2>6, <2>7, <2>8, <2>9
<1>5. CASE UNCHANGED bootVars
  BY <1>0, <1>5, ParentStep DEF bootVars, parentVars, childVars, BootTypeOK
<1> QED
  BY <1>1, <1>2, <1>3, <1>4, <1>5 DEF BootNext

(* The inductive invariant holds in every reachable state.                 *)
LEMMA Invariance == BootSpec => []BootInv
  BY InitInv, NextInv, PTL DEF BootSpec

-----------------------------------------------------------------------------
(* An engine started by a patched client serves it, forked or spawned,     *)
(* with any number of engines and of calls of run_patch and                *)
(* patch_batch_and_fork (run_engine_core).                                 *)
THEOREM ClientIsServed == BootSpec => []EngineServesItsClient
<1>1. BootInv => EngineServesItsClient
  BY DEF BootInv, ChildInv, EngineServesItsClient
<1> QED
  BY <1>1, Invariance, PTL

(* run_engine_core raises for no other reason than those its messages      *)
(* name.                                                                   *)
THEOREM LegitimateStartsSucceed == BootSpec => []StartsUnlessPatchedTwice
<1>1. BootInv => StartsUnlessPatchedTwice
  BY DEF BootInv, ChildInv, StartsUnlessPatchedTwice
<1> QED
  BY <1>1, Invariance, PTL

(* run_engine_core never calls itself, however often it was installed.     *)
THEOREM NoSelfDelegation == BootSpec => []NeverItsOwnOriginal
<1>1. BootInv => NeverItsOwnOriginal
  <2> SUFFICES ASSUME BootInv, NEW c \in Children, target[c] = "wrapper",
                      life[c] \in {"applying", "running"}
               PROVE  OriginalRun(child[c]) = "original" /\ child[c].count <= 1
    BY DEF NeverItsOwnOriginal
  <2> QED
    BY OriginalIsFound DEF BootInv, ChildInv, BootTypeOK
<1> QED
  BY <1>1, Invariance, PTL

(* The re-entry guard tells whether a call is inside, and the wrappers of  *)
(* the scheduler and the model runner do not stack.                        *)
THEOREM GuardAndLayers == BootSpec => [](GuardMeansInside /\ PatchesDoNotStack)
<1>1. BootInv => GuardMeansInside /\ PatchesDoNotStack
  BY DEF BootInv, ChildInv, Consistent, GuardMeansInside, PatchesDoNotStack
<1> QED
  BY <1>1, Invariance, PTL

=============================================================================
