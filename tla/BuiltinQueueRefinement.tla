----------------------- MODULE BuiltinQueueRefinement -----------------------
(***************************************************************************)
(* BuiltinQueue implements DurableQueue: what every place a job can be in   *)
(* means for its life.                                                      *)
(***************************************************************************)
EXTENDS BuiltinQueue

(* A task that has seen its handler fail, up to the retry or the dead-letter *)
(* list.                                                                    *)
Failing == {"sleep", "nack", "gone", "retry_lrem", "retry_set", "retry_zadd",
            "dlq_lrem", "dlq_push"}

(* Where a job is while it waits for a handler, has one, has seen it fail,   *)
(* or is dead-lettered.  A place is exactly one of these (SinglePlace).     *)
Waiting(j) ==
    \/ j \in Elems(waiting) \/ j \in delayed
    \/ \E w \in Subs : j \in Elems(skipped[w]) \/ Holds(w, j)
    \/ Holds(Admin, j) /\ pc[Admin] \in {"redrive_push", "message_push"}
Running(j) == \E t \in Tasks : Holds(t, j) /\ pc[t] \notin Failing
Failed(j) == \E t \in Tasks : Holds(t, j) /\ pc[t] \in Failing
Dead(j) ==
    \/ j \in Elems(dlq)
    \/ Holds(Admin, j) /\ pc[Admin] \in {"redrive_set", "message_set", "discard_delete"}

StatusOf(j) ==
    CASE j > pushed -> "unborn"
      [] j \in finished -> "done"
      [] j \in stranded -> "abandoned"
      [] Waiting(j) -> "waiting"
      [] Running(j) -> "running"
      [] Failed(j) -> "failed"
      [] Dead(j) -> "dead"
      [] OTHER -> "lost"

Abstract == INSTANCE DurableQueue WITH
    Job <- Jobs, Limit <- {AtLeastOne(m) : m \in Limits},
    status <- [j \in Jobs |-> StatusOf(j)], tries <- failed

(* Every step of producers, loops, tasks and operators is a step of one job  *)
(* along its life, or changes nothing a client can tell: no interleaving of *)
(* pop, requeue, retry, dead-lettering and unsubscribe starts a job twice,  *)
(* skips a limit or revives what is settled (queue.rs as a whole).          *)
ImplementsDurableQueue == Abstract!Spec
============================================================================
