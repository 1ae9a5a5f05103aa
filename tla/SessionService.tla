---------------------------- MODULE SessionService ----------------------------
(***************************************************************************)
(* What the engine promises a beam search, without sockets, queues, ids or *)
(* aborts: a search asks, is answered once for every question, and finds   *)
(* its prefill entry for as long as it goes on.                            *)
(***************************************************************************)
EXTENDS Naturals

CONSTANTS
    Search,    \* beam searches
    NumSteps   \* questions a search asks

VARIABLES
    state,     \* "loop" between two questions, "await", or how it ended
    step,      \* questions answered
    busy,      \* searches whose question is being worked on
    reply,     \* the answer a search has yet to take
    cached     \* searches whose prefill is kept

vars == <<state, step, busy, reply, cached>>

Init ==
    /\ state = [s \in Search |-> "loop"]
    /\ step = [s \in Search |-> 0]
    /\ reply = [s \in Search |-> "none"]
    /\ busy = {} /\ cached = {}

\* A search asks only when its last question is answered.
Ask(s) ==
    /\ state[s] = "loop" /\ step[s] < NumSteps
    /\ s \notin busy /\ reply[s] = "none"
    /\ step[s] > 0 => s \in cached
    /\ state' = [state EXCEPT ![s] = "await"]
    /\ busy' = busy \cup {s}
    /\ UNCHANGED <<step, reply, cached>>

\* The first question puts the entry there, whoever still waits for it.
Keep(s) ==
    /\ s \in busy \ cached /\ step[s] = 0
    /\ state[s] \in {"await", "cancelled"}
    /\ cached' = cached \cup {s}
    /\ UNCHANGED <<state, step, busy, reply>>

\* The question is answered: from the entry, or with an error if it is the
\* first question and there is none.
Respond(s) ==
    /\ s \in busy /\ state[s] \in {"await", "cancelled"}
    /\ reply[s] = "none"
    /\ busy' = busy \ {s}
    /\ \E answer \in {"ok", "error", "nologprobs"} :
          /\ s \in cached \/ (answer = "error" /\ step[s] = 0)
          /\ reply' = [reply EXCEPT ![s] = answer]
    /\ UNCHANGED <<state, step, cached>>

Take(s) ==
    /\ state[s] = "await" /\ reply[s] \in {"ok", "nologprobs"}
    /\ state' = [state EXCEPT ![s] = "loop"]
    /\ step' = [step EXCEPT ![s] = @ + 1]
    /\ reply' = [reply EXCEPT ![s] = "none"]
    /\ UNCHANGED <<busy, cached>>

TakeError(s) ==
    /\ state[s] = "await" /\ reply[s] = "error"
    /\ state' = [state EXCEPT ![s] = "failed"]
    /\ reply' = [reply EXCEPT ![s] = "none"]
    /\ UNCHANGED <<step, busy, cached>>

\* A search with all its answers is done; one may give up before that, not
\* before its first answer.
Leave(s) ==
    /\ state[s] = "loop"
    /\ \/ step[s] = NumSteps /\ state' = [state EXCEPT ![s] = "done"]
       \/ step[s] \in 1..(NumSteps - 1) /\ state' = [state EXCEPT ![s] = "failed"]
    /\ UNCHANGED <<step, busy, reply, cached>>

Cancel(s) ==
    /\ state[s] = "await"
    /\ state' = [state EXCEPT ![s] = "cancelled"]
    /\ UNCHANGED <<step, busy, reply, cached>>

\* An entry goes only when its search has ended and nothing is being worked
\* on under its name.
Purge(s) ==
    /\ s \in cached \ busy
    /\ state[s] \in {"done", "failed"}
    /\ cached' = cached \ {s}
    /\ UNCHANGED <<state, step, busy, reply>>

Serve(s) ==
    \/ Ask(s) \/ Keep(s) \/ Respond(s) \/ Take(s) \/ TakeError(s) \/ Leave(s)
    \/ Cancel(s) \/ Purge(s)

Next == \E s \in Search : Serve(s)

Spec == Init /\ [][Next]_vars

=============================================================================
