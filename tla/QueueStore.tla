---------------------------- MODULE QueueStore ----------------------------
(***************************************************************************)
(* One queue of the engine's QueueKvStore (engine/src/builtins/queue_kv.rs) *)
(* and the job records beside it (engine/src/builtins/kv.rs).               *)
(*                                                                          *)
(* A list is a VecDeque whose front is position 1: lpush adds at the front, *)
(* rpush at the back, rpop takes the back.  The queue therefore serves the  *)
(* back first: the back of `waiting' is the oldest position.                *)
(*                                                                          *)
(* Every operation below runs under one acquisition of its structure's      *)
(* lock and is atomic; a caller that performs several of them can be        *)
(* interleaved, or cancelled, between any two.                              *)
(***************************************************************************)
EXTENDS Integers, Sequences, FiniteSets

CONSTANT MaxJobs            \* bound: how many jobs are ever pushed

ASSUME MaxJobsAssumption == MaxJobs \in Nat \ {0}

Jobs == 1 .. MaxJobs        \* job ids (uuids), numbered in the order of push

VARIABLES
    record,     \* ids whose record queue:<q>:jobs:<id> exists
    attempts,   \* attempts_made in that record
    waiting,    \* list queue:<q>:waiting
    active,     \* list queue:<q>:active, as occurrences per id (order unused)
    delayed,    \* sorted set queue:<q>:delayed, without its scores
    dlq         \* list queue:<q>:dlq

storeVars == <<record, attempts, waiting, active, delayed, dlq>>

(* What a list holds. *)
Elems(list) == {list[i] : i \in 1 .. Len(list)}

NoRepeat(list) ==
    \A i, k \in 1 .. Len(list) : list[i] = list[k] => i = k

lpush(list, id) == <<id>> \o list
rpush(list, id) == Append(list, id)
back(list) == list[Len(list)]
rpop(list) == SubSeq(list, 1, Len(list) - 1)

(* lremove_first_by on an id: the entries before it and the entries after. *)
lremoveFirst(list, id) ==
    LET first == CHOOSE i \in 1 .. Len(list) :
                     /\ list[i] = id
                     /\ \A k \in 1 .. (i - 1) : list[k] # id
    IN  SubSeq(list, 1, first - 1) \o SubSeq(list, first + 1, Len(list))

(* lpush and lrem(_, 1, _) on `active', whose order nothing reads. *)
pushActive(id) == active' = [active EXCEPT ![id] = @ + 1]
lremActive(id) == active' = [active EXCEPT ![id] = IF @ = 0 THEN 0 ELSE @ - 1]

setJob(id, made) ==
    /\ record' = record \cup {id}
    /\ attempts' = [attempts EXCEPT ![id] = made]
deleteJob(id) ==
    /\ record' = record \ {id}
    /\ UNCHANGED attempts

StoreInit ==
    /\ record = {} /\ attempts = [j \in Jobs |-> 0]
    /\ waiting = <<>> /\ active = [j \in Jobs |-> 0]
    /\ delayed = {} /\ dlq = <<>>

StoreTypeOK ==
    /\ record \subseteq Jobs
    /\ attempts \in [Jobs -> Nat]
    /\ waiting \in Seq(Jobs)
    /\ active \in [Jobs -> Nat]
    /\ delayed \subseteq Jobs
    /\ dlq \in Seq(Jobs)
============================================================================
