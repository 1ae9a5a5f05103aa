-------------------------- MODULE SessionRefinement --------------------------
(* MegaSession implements SessionService: what is on the wire, queued,      *)
(* scheduled, or an output is one question being worked on.                 *)
EXTENDS MegaSession

Service ==
    INSTANCE SessionService
        WITH state <- pc, step <- token, busy <- registered \cap Search,
             cached <- beam_cache

\* Through two processes, three queues and a reused request id, each search
\* sees a service that works on at most one question of its own, answers each
\* question once, from the search's prefill entry, and drops the entry only
\* after the search has ended.
ImplementsService == Service!Spec

=============================================================================
