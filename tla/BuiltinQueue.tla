--------------------------- MODULE BuiltinQueue ---------------------------
(***************************************************************************)
(* The in-process job queue of engine/src/builtins/queue.rs: producers, the *)
(* three kinds of subscriber loop (Worker, FifoWorker, GroupedFifoWorker),  *)
(* the handler tasks they start, retries, dead-lettering and the operator's *)
(* redrive and discard calls, all on one queue.                             *)
(*                                                                          *)
(* A step is one operation on the store, with the local computation that    *)
(* follows it up to the next await.  `pc[p]' is where process p stands and  *)
(* `job[p]' the job id in its hands.                                        *)
(***************************************************************************)
EXTENDS QueueStore

CONSTANTS
    Subs,           \* subscriptions: each is subscribed once
    Mode,           \* Mode[w]: "concurrent", "fifo" or "grouped"
    Concurrency,    \* permits of a Worker, max_concurrent_groups otherwise
    MaxAttempts,    \* QueueConfig.max_attempts, stamped on every job
    Configured,     \* subscriptions that bring a SubscriptionConfig
    SubMax,         \* SubMax[w]: its max_attempts, 0 for None (Some(0) acts as 1)
    Group,          \* Group[j]: the group_id of job j
    Tasks,          \* bound: handler tasks that can exist at once
    Admin,          \* the operator, one call at a time
    Ops,            \* which of the optional operations clients use
    MaxCalls        \* bound: redrive and discard calls

AllOps == {"push_delayed", "unsubscribe", "redrive", "redrive_message", "discard"}

ASSUME QueueAssumption ==
    /\ Mode \in [Subs -> {"concurrent", "fifo", "grouped"}]
    /\ Concurrency \in Nat \ {0} /\ MaxAttempts \in Nat
    /\ SubMax \in [Subs -> Nat] /\ Configured \subseteq Subs
    /\ Subs # {} /\ Subs \cap Tasks = {} /\ Admin \notin Subs \cup Tasks /\ IsFiniteSet(Tasks)
    /\ Ops \subseteq AllOps /\ MaxCalls \in Nat
    /\ DOMAIN Group = Jobs
ASSUME SubsAssumption == IsFiniteSet(Subs)

Proc == Subs \cup Tasks \cup {Admin}

VARIABLES
    pc, job,
    ready,      \* ready[w]: due ids move_delayed_to_waiting has yet to move
    skipped,    \* skipped[w]: skipped_job_ids of process_available_groups
    groups,     \* groups[w]: active_groups
    permits,    \* permits[w]: semaphore permits in use
    owner,      \* owner[t]: the subscription whose loop started task t
    made,       \* made[t]: attempts_made in the task's copy of the job
    limit,      \* limit[t]: max_attempts in the task's copy of the job
    override,   \* subscription_configs[queue].max_attempts, 0 when absent
    stamp,      \* stamp[j]: max_attempts in j's record or dead-letter entry
    pushed, calls,
    \* History, read by properties only:
    failed,     \* failed[j]: handler failures since j was pushed or redriven
    finished,   \* acknowledged or discarded
    stranded    \* in the hands of a loop when it was aborted

loopVars == <<ready, skipped, groups, permits>>
taskVars == <<owner, made, limit>>
clientVars == <<override, stamp, pushed, calls>>
history == <<failed, finished, stranded>>
vars == <<storeVars, pc, job, loopVars, taskVars, clientVars, history>>

----------------------------------------------------------------------------
(* Job::is_exhausted, with apply_subscription_overrides. *)
effective_max_attempts(current) == IF override = 0 THEN current ELSE override
\* Faulty variant: one attempt too many.
exhaustedLate(attempts_made, max) == attempts_made > max
is_exhausted(attempts_made, max) == attempts_made >= max

goto(p, next) == pc' = [pc EXCEPT ![p] = next]
take(p, id) == job' = [job EXCEPT ![p] = id]

(* Where a process stands while the id in its hands is in no other place. *)
LoopHolding == {"move_push", "pop_active", "pop_load", "requeue"}
TaskHolding == {"start", "handle", "sleep", "ack_lrem", "ack_delete", "nack",
                "gone", "retry_lrem", "retry_set", "retry_zadd",
                "dlq_lrem", "dlq_push"}
AdminHolding == {"redrive_set", "redrive_push", "message_set", "message_push",
                 "discard_delete"}
Holding == LoopHolding \cup TaskHolding \cup AdminHolding
Holds(p, j) == pc[p] \in Holding /\ job[p] = j

----------------------------------------------------------------------------
(* Producers: push, push_fifo, push_job and push_delayed.  Nothing can see  *)
(* the record before its id is listed, so set_job and the listing are one.  *)
Push ==
    /\ pushed < MaxJobs
    /\ pushed' = pushed + 1
    /\ setJob(pushed', 0)
    /\ waiting' = lpush(waiting, pushed')
    /\ UNCHANGED <<active, delayed, dlq, pc, job, loopVars, taskVars, override, stamp, calls, history>>

PushDelayed ==
    /\ "push_delayed" \in Ops
    /\ pushed < MaxJobs
    /\ pushed' = pushed + 1
    /\ setJob(pushed', 0)
    /\ delayed' = delayed \cup {pushed'}
    /\ UNCHANGED <<active, waiting, dlq, pc, job, loopVars, taskVars, override, stamp, calls, history>>

(* subscribe records the configuration it is given, if any, in place of the  *)
(* previous one (last subscriber wins, one that names no limit included),   *)
(* and spawns the loop; the entry outlives the subscription.                *)
Subscribe(w) ==
    /\ pc[w] = "new"
    /\ override' = IF w \in Configured THEN SubMax[w] ELSE override
    /\ goto(w, "idle")
    /\ UNCHANGED <<storeVars, job, loopVars, taskVars, stamp, pushed, calls, history>>

(* unsubscribe aborts the loop's task wherever it awaits.  A FifoWorker      *)
(* processes its job in that same task; the tasks the other loops spawned   *)
(* go on.                                                                   *)
Inline(w) == {t \in Tasks : Mode[w] = "fifo" /\ pc[t] # "none" /\ owner[t] = w}
Unsubscribe(w) ==
    /\ "unsubscribe" \in Ops
    /\ pc[w] \notin {"new", "off"}
    /\ pc' = [p \in Proc |-> IF p = w THEN "off"
                             ELSE IF p \in Inline(w) THEN "none" ELSE pc[p]]
    /\ stranded' = stranded \cup Elems(skipped[w])
                    \cup {job[p] : p \in {q \in Inline(w) \cup {w} : pc[q] \in Holding}}
    /\ ready' = [ready EXCEPT ![w] = {}]
    /\ skipped' = [skipped EXCEPT ![w] = <<>>]
    /\ UNCHANGED <<storeVars, job, groups, permits, taskVars, clientVars, failed, finished>>

----------------------------------------------------------------------------
(* The loop's tick and move_delayed_to_waiting.  Which of the delayed jobs   *)
(* are due, and their order by score, is left open.                         *)
Poll(w, due) ==
    /\ pc[w] = "idle"
    /\ ready' = [ready EXCEPT ![w] = due]
    /\ goto(w, "move")
    /\ UNCHANGED <<storeVars, job, skipped, groups, permits, taskVars, clientVars, history>>

\* Faulty variant: the answer of zrem is not looked at.
MoveZremUnchecked(w, j) ==
    /\ pc[w] = "move" /\ j \in ready[w]
    /\ ready' = [ready EXCEPT ![w] = @ \ {j}]
    /\ delayed' = delayed \ {j} /\ take(w, j) /\ goto(w, "move_push")
    /\ UNCHANGED <<record, attempts, waiting, active, dlq,
                   skipped, groups, permits, taskVars, clientVars, history>>

MoveZrem(w, j) ==
    /\ pc[w] = "move" /\ j \in ready[w]
    /\ ready' = [ready EXCEPT ![w] = @ \ {j}]
    /\ IF j \in delayed
       THEN delayed' = delayed \ {j} /\ take(w, j) /\ goto(w, "move_push")
       ELSE UNCHANGED <<delayed, job, pc>>
    /\ UNCHANGED <<record, attempts, waiting, active, dlq,
                   skipped, groups, permits, taskVars, clientVars, history>>

MovePush(w) ==
    /\ pc[w] = "move_push"
    /\ waiting' = rpush(waiting, job[w])
    /\ goto(w, "move")
    /\ UNCHANGED <<record, attempts, active, delayed, dlq,
                   job, loopVars, taskVars, clientVars, history>>

MoveDone(w) ==
    /\ pc[w] = "move" /\ ready[w] = {}
    /\ goto(w, "pop")
    /\ UNCHANGED <<storeVars, job, loopVars, taskVars, clientVars, history>>

(* The loop has nothing more to start: the grouped one requeues what it     *)
(* skipped before it ticks again.                                           *)
endPass(w) == goto(w, IF skipped[w] = <<>> THEN "idle" ELSE "skip_push")
groupsFull(w) == Mode[w] = "grouped" /\ Cardinality(groups[w]) >= Concurrency

(* pop: rpop, lpush on active, get_job. *)
PopNone(w) ==
    /\ pc[w] = "pop"
    /\ groupsFull(w) \/ waiting = <<>>
    /\ endPass(w)
    /\ UNCHANGED <<storeVars, job, loopVars, taskVars, clientVars, history>>

PopId(w) ==
    /\ pc[w] = "pop" /\ ~groupsFull(w) /\ waiting # <<>>
    /\ take(w, back(waiting))
    /\ waiting' = rpop(waiting)
    /\ goto(w, "pop_active")
    /\ UNCHANGED <<record, attempts, active, delayed, dlq,
                   loopVars, taskVars, clientVars, history>>

PopActive(w) ==
    /\ pc[w] = "pop_active"
    /\ pushActive(job[w])
    /\ goto(w, "pop_load")
    /\ UNCHANGED <<record, attempts, waiting, delayed, dlq,
                   job, loopVars, taskVars, clientVars, history>>

(* get_job finds no record: pop answers None and the id stays in active. *)
PopMissing(w) ==
    /\ pc[w] = "pop_load" /\ job[w] \notin record
    /\ endPass(w)
    /\ UNCHANGED <<storeVars, job, loopVars, taskVars, clientVars, history>>

(* Task t takes the job over; the loop goes on at `next'. *)
start(w, t, first, next) ==
    /\ pc[t] = "none"
    /\ pc' = [pc EXCEPT ![t] = first, ![w] = next]
    /\ take(t, job[w])
    /\ owner' = [owner EXCEPT ![t] = w]
    /\ made' = [made EXCEPT ![t] = attempts[job[w]]]
    /\ limit' = [limit EXCEPT ![t] = stamp[job[w]]]

\* Faulty variant: one permit too many.
SpawnConcurrentExtra(w, t) ==
    /\ pc[w] = "pop_load" /\ job[w] \in record /\ Mode[w] = "concurrent"
    /\ permits[w] <= Concurrency
    /\ start(w, t, "handle", "pop")
    /\ permits' = [permits EXCEPT ![w] = @ + 1]
    /\ UNCHANGED <<storeVars, ready, skipped, groups, clientVars, history>>

(* Worker::process_available_jobs after a pop: a permit, or back in line. *)
SpawnConcurrent(w, t) ==
    /\ pc[w] = "pop_load" /\ job[w] \in record /\ Mode[w] = "concurrent"
    /\ permits[w] < Concurrency
    /\ start(w, t, "handle", "pop")
    /\ permits' = [permits EXCEPT ![w] = @ + 1]
    /\ UNCHANGED <<storeVars, ready, skipped, groups, clientVars, history>>

NoPermit(w) ==
    /\ pc[w] = "pop_load" /\ job[w] \in record /\ Mode[w] = "concurrent"
    /\ permits[w] >= Concurrency
    /\ goto(w, "requeue")
    /\ UNCHANGED <<storeVars, job, loopVars, taskVars, clientVars, history>>

Requeue(w) ==
    /\ pc[w] = "requeue"
    /\ waiting' = lpush(waiting, job[w])
    /\ goto(w, "requeue_lrem")
    /\ UNCHANGED <<record, attempts, active, delayed, dlq,
                   job, loopVars, taskVars, clientVars, history>>

RequeueLrem(w) ==
    /\ pc[w] = "requeue_lrem"
    /\ lremActive(job[w])
    /\ goto(w, "idle")
    /\ UNCHANGED <<record, attempts, waiting, delayed, dlq,
                   job, loopVars, taskVars, clientVars, history>>

\* Faulty variant: the loop does not wait for the job it started.
StartFifoDetached(w, t) ==
    /\ pc[w] = "pop_load" /\ job[w] \in record /\ Mode[w] = "fifo"
    /\ start(w, t, "start", "idle")
    /\ UNCHANGED <<storeVars, loopVars, clientVars, history>>

(* FifoWorker::process_next_job: the loop waits for the job it popped. *)
StartFifo(w, t) ==
    /\ pc[w] = "pop_load" /\ job[w] \in record /\ Mode[w] = "fifo"
    /\ start(w, t, "start", "busy")
    /\ UNCHANGED <<storeVars, loopVars, clientVars, history>>

\* Faulty variant: the group is inserted without the check.
SpawnGroupedUnchecked(w, t) ==
    /\ pc[w] = "pop_load" /\ job[w] \in record /\ Mode[w] = "grouped"
    /\ start(w, t, "start", "pop")
    /\ groups' = [groups EXCEPT ![w] = @ \cup {Group[job[w]]}]
    /\ UNCHANGED <<storeVars, ready, skipped, permits, clientVars, history>>

(* GroupedFifoWorker::process_available_groups: check-and-insert of the     *)
(* group, or the job is skipped until the pass is over.                     *)
SpawnGrouped(w, t) ==
    /\ pc[w] = "pop_load" /\ job[w] \in record /\ Mode[w] = "grouped"
    /\ Group[job[w]] \notin groups[w]
    /\ start(w, t, "start", "pop")
    /\ groups' = [groups EXCEPT ![w] = @ \cup {Group[job[w]]}]
    /\ UNCHANGED <<storeVars, ready, skipped, permits, clientVars, history>>

SkipGrouped(w) ==
    /\ pc[w] = "pop_load" /\ job[w] \in record /\ Mode[w] = "grouped"
    /\ Group[job[w]] \in groups[w]
    /\ skipped' = [skipped EXCEPT ![w] = Append(@, job[w])]
    /\ goto(w, "pop")
    /\ UNCHANGED <<storeVars, job, ready, groups, permits, taskVars, clientVars, history>>

SkipPush(w) ==
    /\ pc[w] = "skip_push" /\ skipped[w] # <<>>
    /\ waiting' = lpush(waiting, Head(skipped[w]))
    /\ take(w, Head(skipped[w]))
    /\ skipped' = [skipped EXCEPT ![w] = Tail(@)]
    /\ goto(w, "skip_lrem")
    /\ UNCHANGED <<record, attempts, active, delayed, dlq,
                   ready, groups, permits, taskVars, clientVars, history>>

\* Faulty variant: active is not cleaned.
SkipLremForgets(w) ==
    /\ pc[w] = "skip_lrem"
    /\ endPass(w)
    /\ UNCHANGED <<storeVars, job, loopVars, taskVars, clientVars, history>>

SkipLrem(w) ==
    /\ pc[w] = "skip_lrem"
    /\ lremActive(job[w])
    /\ endPass(w)
    /\ UNCHANGED <<record, attempts, waiting, delayed, dlq,
                   job, loopVars, taskVars, clientVars, history>>

----------------------------------------------------------------------------
(* Handler tasks.  The task of a Worker runs the handler once and acks or    *)
(* nacks; process_job_with_inline_retry keeps the job until it is settled.  *)
inline(t) == Mode[owner[t]] # "concurrent"

\* Faulty variant: the FIFO loop is not resumed.
finishLeavesBusy(t) ==
    /\ pc' = [pc EXCEPT ![t] = IF Mode[owner[t]] = "grouped" THEN "release" ELSE "none"]
    /\ permits' = IF inline(t) THEN permits ELSE [permits EXCEPT ![owner[t]] = @ - 1]
    /\ UNCHANGED <<ready, skipped, groups>>

(* The task ends: its permit is dropped, its FIFO loop resumes, or its      *)
(* group is released by one more step.                                      *)
finish(t) ==
    /\ pc' = CASE Mode[owner[t]] = "concurrent" -> [pc EXCEPT ![t] = "none"]
               [] Mode[owner[t]] = "fifo" -> [pc EXCEPT ![t] = "none", ![owner[t]] = "idle"]
               [] OTHER -> [pc EXCEPT ![t] = "release"]
    /\ permits' = IF inline(t) THEN permits
                  ELSE [permits EXCEPT ![owner[t]] = @ - 1]
    /\ UNCHANGED <<ready, skipped, groups>>

Release(t) ==
    /\ pc[t] = "release"
    /\ groups' = [groups EXCEPT ![owner[t]] = @ \ {Group[job[t]]}]
    /\ goto(t, "none")
    /\ UNCHANGED <<storeVars, job, ready, skipped, permits, taskVars, clientVars, history>>

(* The inline loop starts by applying the subscription's overrides. *)
ApplyOverrides(t) ==
    /\ pc[t] = "start"
    /\ limit' = [limit EXCEPT ![t] = effective_max_attempts(@)]
    /\ goto(t, "handle")
    /\ UNCHANGED <<storeVars, job, loopVars, owner, made, clientVars, history>>

HandleOk(t) ==
    /\ pc[t] = "handle"
    /\ goto(t, "ack_lrem")
    /\ UNCHANGED <<storeVars, job, loopVars, taskVars, clientVars, history>>

HandleErr(t) ==
    /\ pc[t] = "handle"
    /\ failed' = [failed EXCEPT ![job[t]] = @ + 1]
    /\ IF inline(t)
       THEN /\ made' = [made EXCEPT ![t] = @ + 1]
            /\ goto(t, IF is_exhausted(made[t] + 1, limit[t]) THEN "dlq_lrem" ELSE "sleep")
       ELSE goto(t, "nack") /\ UNCHANGED made
    /\ UNCHANGED <<storeVars, job, loopVars, owner, limit, clientVars, finished, stranded>>

(* What is written of the task's copy carries the overridden limit. *)
saveLimit(t) == stamp' = [stamp EXCEPT ![job[t]] = limit[t]]

(* The backoff is over: the inline loop saves the attempt and tries again. *)
InlineRetry(t) ==
    /\ pc[t] = "sleep"
    /\ setJob(job[t], made[t]) /\ saveLimit(t)
    /\ goto(t, "handle")
    /\ UNCHANGED <<waiting, active, delayed, dlq,
                   job, loopVars, taskVars, override, pushed, calls, history>>

(* ack: lrem on active, then the record. *)
AckLrem(t) ==
    /\ pc[t] = "ack_lrem"
    /\ lremActive(job[t])
    /\ goto(t, "ack_delete")
    /\ UNCHANGED <<record, attempts, waiting, delayed, dlq,
                   job, loopVars, taskVars, clientVars, history>>

AckDelete(t) ==
    /\ pc[t] = "ack_delete"
    /\ deleteJob(job[t])
    /\ finish(t)
    /\ finished' = finished \cup {job[t]}
    /\ UNCHANGED <<waiting, active, delayed, dlq, job, taskVars, clientVars, failed, stranded>>

(* nack: read the record, then retry later, dead-letter, or give up on an   *)
(* id whose record is gone.                                                 *)
Nack(t) ==
    /\ pc[t] = "nack"
    /\ IF job[t] \in record
       THEN LET m == attempts[job[t]] + 1
                max == effective_max_attempts(stamp[job[t]])
            IN
            /\ made' = [made EXCEPT ![t] = m]
            /\ limit' = [limit EXCEPT ![t] = max]
            /\ goto(t, IF is_exhausted(m, max) THEN "dlq_lrem" ELSE "retry_lrem")
       ELSE goto(t, "gone") /\ UNCHANGED <<made, limit>>
    /\ UNCHANGED <<storeVars, job, loopVars, owner, clientVars, history>>

NackGone(t) ==
    /\ pc[t] = "gone"
    /\ lremActive(job[t])
    /\ finish(t)
    /\ UNCHANGED <<record, attempts, waiting, delayed, dlq, job, taskVars, clientVars, history>>

RetryLrem(t) ==
    /\ pc[t] = "retry_lrem"
    /\ lremActive(job[t])
    /\ goto(t, "retry_set")
    /\ UNCHANGED <<record, attempts, waiting, delayed, dlq,
                   job, loopVars, taskVars, clientVars, history>>

RetrySet(t) ==
    /\ pc[t] = "retry_set"
    /\ setJob(job[t], made[t]) /\ saveLimit(t)
    /\ goto(t, "retry_zadd")
    /\ UNCHANGED <<waiting, active, delayed, dlq,
                   job, loopVars, taskVars, override, pushed, calls, history>>

RetryZadd(t) ==
    /\ pc[t] = "retry_zadd"
    /\ delayed' = delayed \cup {job[t]}
    /\ finish(t)
    /\ UNCHANGED <<record, attempts, waiting, active, dlq, job, taskVars, clientVars, history>>

(* move_to_dlq: lrem on active, lpush of the failed job, then the record. *)
DlqLrem(t) ==
    /\ pc[t] = "dlq_lrem"
    /\ lremActive(job[t])
    /\ goto(t, "dlq_push")
    /\ UNCHANGED <<record, attempts, waiting, delayed, dlq,
                   job, loopVars, taskVars, clientVars, history>>

DlqPush(t) ==
    /\ pc[t] = "dlq_push"
    /\ dlq' = lpush(dlq, job[t]) /\ saveLimit(t)
    /\ goto(t, "dlq_delete")
    /\ UNCHANGED <<record, attempts, waiting, active, delayed,
                   job, loopVars, taskVars, override, pushed, calls, history>>

DlqDelete(t) ==
    /\ pc[t] = "dlq_delete"
    /\ deleteJob(job[t])
    /\ finish(t)
    /\ UNCHANGED <<waiting, active, delayed, dlq, job, taskVars, clientVars, history>>

----------------------------------------------------------------------------
(* The operator's calls: dlq_redrive empties the dead-letter queue,         *)
(* dlq_redrive_message and dlq_discard_message remove one entry.            *)
call(op) == op \in Ops /\ pc[Admin] = "idle" /\ calls < MaxCalls /\ calls' = calls + 1

Redrive ==
    /\ call("redrive")
    /\ goto(Admin, "redrive_rpop")
    /\ UNCHANGED <<storeVars, job, loopVars, taskVars, override, stamp, pushed, history>>

RedriveRpop ==
    /\ pc[Admin] = "redrive_rpop"
    /\ IF dlq = <<>>
       THEN goto(Admin, "idle") /\ UNCHANGED <<dlq, job>>
       ELSE /\ take(Admin, back(dlq))
            /\ dlq' = rpop(dlq)
            /\ goto(Admin, "redrive_set")
    /\ UNCHANGED <<record, attempts, waiting, active, delayed,
                   loopVars, taskVars, clientVars, history>>

RedriveMessage(j) ==
    /\ call("redrive_message") /\ j \in Elems(dlq)
    /\ take(Admin, j)
    /\ dlq' = lremoveFirst(dlq, j)
    /\ goto(Admin, "message_set")
    /\ UNCHANGED <<record, attempts, waiting, active, delayed,
                   loopVars, taskVars, override, stamp, pushed, history>>

RedriveSet ==
    /\ pc[Admin] \in {"redrive_set", "message_set"}
    /\ setJob(job[Admin], 0)
    /\ failed' = [failed EXCEPT ![job[Admin]] = 0]
    /\ goto(Admin, IF pc[Admin] = "redrive_set" THEN "redrive_push" ELSE "message_push")
    /\ UNCHANGED <<waiting, active, delayed, dlq,
                   job, loopVars, taskVars, clientVars, finished, stranded>>

RedrivePush ==
    /\ pc[Admin] \in {"redrive_push", "message_push"}
    /\ waiting' = lpush(waiting, job[Admin])
    /\ goto(Admin, IF pc[Admin] = "redrive_push" THEN "redrive_rpop" ELSE "idle")
    /\ UNCHANGED <<record, attempts, active, delayed, dlq,
                   job, loopVars, taskVars, clientVars, history>>

\* Faulty variant: the entry stays in the dead-letter list.
DiscardKeeps(j) ==
    /\ call("discard") /\ j \in Elems(dlq)
    /\ take(Admin, j)
    /\ goto(Admin, "discard_delete")
    /\ UNCHANGED <<storeVars, loopVars, taskVars, override, stamp, pushed, history>>

Discard(j) ==
    /\ call("discard") /\ j \in Elems(dlq)
    /\ take(Admin, j)
    /\ dlq' = lremoveFirst(dlq, j)
    /\ goto(Admin, "discard_delete")
    /\ UNCHANGED <<record, attempts, waiting, active, delayed,
                   loopVars, taskVars, override, stamp, pushed, history>>

DiscardDelete ==
    /\ pc[Admin] = "discard_delete"
    /\ deleteJob(job[Admin])
    /\ finished' = finished \cup {job[Admin]}
    /\ goto(Admin, "idle")
    /\ UNCHANGED <<waiting, active, delayed, dlq,
                   job, loopVars, taskVars, clientVars, failed, stranded>>

----------------------------------------------------------------------------
Init ==
    /\ StoreInit
    /\ pc = [p \in Proc |-> IF p \in Subs THEN "new" ELSE IF p = Admin THEN "idle" ELSE "none"]
    /\ job = [p \in Proc |-> 1]
    /\ ready = [w \in Subs |-> {}] /\ skipped = [w \in Subs |-> <<>>]
    /\ groups = [w \in Subs |-> {}] /\ permits = [w \in Subs |-> 0]
    /\ owner = [t \in Tasks |-> CHOOSE w \in Subs : TRUE]
    /\ made = [t \in Tasks |-> 0] /\ limit = [t \in Tasks |-> 0]
    /\ override = 0 /\ stamp = [j \in Jobs |-> MaxAttempts] /\ pushed = 0 /\ calls = 0
    /\ failed = [j \in Jobs |-> 0] /\ finished = {} /\ stranded = {}

LoopStep(w) ==
    \/ \E due \in SUBSET delayed : Poll(w, due)
    \/ \E j \in Jobs : MoveZrem(w, j)
    \/ MovePush(w) \/ MoveDone(w)
    \/ PopNone(w) \/ PopId(w) \/ PopActive(w) \/ PopMissing(w)
    \/ \E t \in Tasks : SpawnConcurrent(w, t) \/ StartFifo(w, t) \/ SpawnGrouped(w, t)
    \/ NoPermit(w) \/ Requeue(w) \/ RequeueLrem(w)
    \/ SkipGrouped(w) \/ SkipPush(w) \/ SkipLrem(w)

TaskStep(t) ==
    \/ ApplyOverrides(t) \/ HandleOk(t) \/ HandleErr(t) \/ InlineRetry(t)
    \/ AckLrem(t) \/ AckDelete(t) \/ Nack(t) \/ NackGone(t)
    \/ RetryLrem(t) \/ RetrySet(t) \/ RetryZadd(t)
    \/ DlqLrem(t) \/ DlqPush(t) \/ DlqDelete(t) \/ Release(t)

AdminStep ==
    \/ Redrive \/ RedriveRpop \/ RedriveSet \/ RedrivePush \/ DiscardDelete
    \/ \E j \in Jobs : RedriveMessage(j) \/ Discard(j)

ClientStep == Push \/ PushDelayed \/ \E w \in Subs : Subscribe(w) \/ Unsubscribe(w)

Next ==
    \/ ClientStep
    \/ AdminStep
    \/ \E w \in Subs : LoopStep(w)
    \/ \E t \in Tasks : TaskStep(t)

Spec == Init /\ [][Next]_vars

(* Fairness: the runtime keeps polling every spawned task, a handler        *)
(* returns, and a delayed job comes due, so that a poll that could find     *)
(* every delayed job due infinitely often does so infinitely often.         *)
Fairness ==
    /\ \A w \in Subs : WF_vars(Subscribe(w)) /\ WF_vars(LoopStep(w))
                        /\ SF_vars(Poll(w, delayed) /\ delayed # {})
    /\ \A t \in Tasks : WF_vars(TaskStep(t))
    /\ WF_vars(RedriveRpop \/ RedriveSet \/ RedrivePush \/ DiscardDelete)

FairSpec == Spec /\ Fairness

----------------------------------------------------------------------------
(* Properties. *)

(* Every variable keeps its type: the store, the loops' and the tasks'      *)
(* local state and the history (queue.rs, queue_kv.rs).                     *)
LoopPcs == {"new", "idle", "move", "pop", "requeue_lrem", "busy",
            "skip_push", "skip_lrem", "off"} \cup LoopHolding
TaskPcs == {"none", "dlq_delete", "release"} \cup TaskHolding
AdminPcs == {"idle", "redrive_rpop"} \cup AdminHolding
PcOK ==
    /\ pc \in [Proc -> LoopPcs \cup TaskPcs \cup AdminPcs]
    /\ \A w \in Subs : pc[w] \in LoopPcs
    /\ \A t \in Tasks : pc[t] \in TaskPcs
    /\ pc[Admin] \in AdminPcs
LocalOK ==
    /\ job \in [Proc -> Jobs]
    /\ ready \in [Subs -> SUBSET Jobs] /\ skipped \in [Subs -> Seq(Jobs)]
    /\ groups \in [Subs -> SUBSET {Group[j] : j \in Jobs}] /\ permits \in [Subs -> Int]
    /\ owner \in [Tasks -> Subs] /\ made \in [Tasks -> Nat] /\ limit \in [Tasks -> Nat]
ClientOK ==
    /\ override \in Nat /\ stamp \in [Jobs -> Nat] /\ pushed \in 0 .. MaxJobs /\ calls \in Nat
    /\ failed \in [Jobs -> Nat] /\ finished \subseteq Jobs /\ stranded \subseteq Jobs
TypeOK == StoreTypeOK /\ PcOK /\ LocalOK /\ ClientOK

(* A job is handled by at most one task at a time, and while some process   *)
(* has it in hand no list offers it to another: whatever the interleaving   *)
(* of pops, requeues, retries, aborts and redrives, its id is in one place, *)
(* once (pop, nack, move_delayed_to_waiting, Worker's requeue, dlq_redrive).*)
HeldOnce ==
    \A p, q \in Proc : pc[p] \in Holding /\ pc[q] \in Holding /\ job[p] = job[q] => p = q
HeldElsewhereNowhere ==
    \A p \in Proc : pc[p] \in Holding =>
        /\ job[p] \notin Elems(waiting) /\ job[p] \notin delayed /\ job[p] \notin Elems(dlq)
        /\ \A w \in Subs : job[p] \notin Elems(skipped[w])
ListedOnce ==
    /\ NoRepeat(waiting) /\ NoRepeat(dlq)
    /\ \A w \in Subs : NoRepeat(skipped[w])
ListsDisjoint ==
    /\ Elems(waiting) \cap delayed = {} /\ Elems(waiting) \cap Elems(dlq) = {}
    /\ delayed \cap Elems(dlq) = {}
    /\ \A w \in Subs :
        /\ Elems(skipped[w]) \cap (Elems(waiting) \cup delayed \cup Elems(dlq)) = {}
        /\ \A v \in Subs : Elems(skipped[w]) \cap Elems(skipped[v]) # {} => v = w
SinglePlace == HeldOnce /\ HeldElsewhereNowhere /\ ListedOnce /\ ListsDisjoint

Located(j) ==
    \/ j \in Elems(waiting) \/ j \in delayed \/ j \in Elems(dlq)
    \/ \E p \in Proc : Holds(p, j)
    \/ \E w \in Subs : j \in Elems(skipped[w])

(* A settled job never comes back: once acknowledged or discarded, or        *)
(* abandoned by an aborted loop, no list offers it and no task has it.      *)
NoResurrection == \A j \in finished \cup stranded : ~Located(j)

(* A pushed job is somewhere a consumer or an operator will find it, until  *)
(* it is acknowledged or discarded; only the abort of the loop that had it  *)
(* in hand (unsubscribe) takes it out of circulation.                       *)
NoJobLost == \A j \in 1 .. pushed : Located(j) \/ j \in finished \/ j \in stranded

(* Retry budget: the handler fails at most as often as the largest limit in  *)
(* force allows, and a job is dead-lettered only after as many failures as  *)
(* the smallest one (nack, process_job_with_inline_retry).                  *)
Limits == {MaxAttempts} \cup {SubMax[w] : w \in {v \in Subs : SubMax[v] # 0}}
AtLeastOne(n) == IF n = 0 THEN 1 ELSE n
RetryBudget ==
    \A j \in Jobs :
        /\ \E m \in Limits : failed[j] <= AtLeastOne(m)
        /\ j \in Elems(dlq) => \E m \in Limits : failed[j] >= AtLeastOne(m)

(* The semaphore: a concurrent subscription never runs more handlers than   *)
(* its concurrency, and never leaks a permit.                               *)
TasksOf(w) == {t \in Tasks : pc[t] # "none" /\ owner[t] = w}
ConcurrencyBound ==
    \A w \in Subs : Mode[w] = "concurrent" =>
        permits[w] = Cardinality(TasksOf(w)) /\ permits[w] <= Concurrency

(* One job per group and at most max_concurrent_groups groups at a time     *)
(* within a grouped subscription (process_available_groups).                *)
GroupExclusion ==
    \A w \in Subs : Mode[w] = "grouped" =>
        /\ \A t, u \in TasksOf(w) : Group[job[t]] = Group[job[u]] => t = u
        /\ Cardinality(TasksOf(w)) <= Concurrency

(* In-flight accounting: an id is in the active list once for every process *)
(* that still has to remove it, unless the loop that had to was aborted.    *)
WillLrem == {"pop_load", "requeue", "requeue_lrem", "skip_lrem", "start", "handle", "sleep",
             "ack_lrem", "nack", "gone", "retry_lrem", "dlq_lrem"}
ActiveAccounted ==
    \A j \in Jobs :
        \/ j \in stranded \/ \E w \in Subs : pc[w] = "off" /\ job[w] = j
        \/ active[j] = Cardinality({p \in Proc : job[p] = j /\ pc[p] \in WillLrem})
                       + Cardinality({w \in Subs : j \in Elems(skipped[w])})

(* A task that starts job j of a FIFO queue starts it after every job of its *)
(* group that was pushed earlier is settled (FifoWorker; the order claimed  *)
(* for the jobs GroupedFifoWorker requeues).                                *)
StartsInOrder(t) ==
    pc[t] = "none" /\ pc'[t] = "start" =>
        \A i \in 1 .. (job'[t] - 1) :
            Group[i] = Group[job'[t]] => i \in finished \/ i \in Elems(dlq)
GroupOrder == [][\A t \in Tasks : StartsInOrder(t)]_vars

(* Every pushed job is eventually acknowledged or dead-lettered, whatever    *)
(* the handlers answer, as long as a subscription stays.                    *)
Settled(j) == j \in finished \/ j \in Elems(dlq)
EveryJobSettles == \A j \in Jobs : (pushed >= j) ~> Settled(j)
============================================================================
