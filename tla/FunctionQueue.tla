--------------------------- MODULE FunctionQueue ---------------------------
(***************************************************************************)
(* One named function queue: QueueWorker's consumer                         *)
(* (engine/src/workers/queue/queue.rs spawn_consumer) on the builtin        *)
(* adapter (adapters/builtin/adapter.rs consume_function_queue), with the   *)
(* restarts that a configuration change causes.                             *)
(*                                                                          *)
(* Each (re)start is a generation: a poller task that pops jobs and sends   *)
(* them through a bounded channel, a receiver task that waits for a permit  *)
(* and spawns one task per message.  Aborting a generation aborts its       *)
(* receiver only.  The steps of one pop, ack or nack on the store are       *)
(* BuiltinQueue's subject and are one step here: until an adapter call ends *)
(* nobody else knows of the job it works on.                                *)
(***************************************************************************)
EXTENDS QueueStore

CONSTANTS
    MaxGens,        \* bound: starts of the consumer
    Concurrency,    \* FunctionQueueConfig.concurrency
    Type,           \* "standard" or "fifo"
    MaxRetries,     \* max_retries, stamped on every job as max_attempts
    Removals        \* whether the queue may be removed from the configuration

ASSUME FunctionQueueAssumption ==
    /\ MaxGens \in Nat \ {0} /\ Concurrency \in Nat \ {0} /\ MaxRetries \in Nat
    /\ Type \in {"standard", "fifo"} /\ Removals \in BOOLEAN

Gens == 1 .. MaxGens
prefetch == IF Type = "fifo" THEN 1 ELSE Concurrency

VARIABLES
    pushed,
    configured,     \* queue_configs has the queue
    consumers,      \* generation whose abort handle is in the map, 0 for none
    started,        \* generations started
    poller,         \* poller[g]: where its task stands
    receiver,       \* receiver[g]: "off", "on" or "aborted"
    outstanding,    \* outstanding[g]: the poller's window of delivery ids
    deliveries,     \* deliveries[d]: the message with delivery_id d
    delivery_map,   \* ids in the adapter's delivery_map
    \* History, read by properties only:
    finished,       \* acknowledged jobs
    stranded        \* jobs in an aborted receiver's hands and in no window

fnVars == <<pushed, configured, consumers, started>>
taskVars == <<poller, receiver, outstanding, deliveries, delivery_map>>
history == <<finished, stranded>>
vars == <<storeVars, fnVars, taskVars, history>>

----------------------------------------------------------------------------
Ids == 1 .. Len(deliveries)
Job(d) == deliveries[d].job
At(g, place) == {d \in Ids : deliveries[d].gen = g /\ deliveries[d].at = place}
move(d, place) == deliveries' = [deliveries EXCEPT ![d].at = place]
First(S) == CHOOSE d \in S : \A e \in S : d <= e

(* publish_to_function_queue: push_job. *)
Publish ==
    /\ configured /\ pushed < MaxJobs
    /\ pushed' = pushed + 1
    /\ setJob(pushed', 0)
    /\ waiting' = lpush(waiting, pushed')
    /\ UNCHANGED <<active, delayed, dlq, configured, consumers, started, taskVars, history>>

(* spawn_consumer under apply_lock: the poller and the receiver are spawned, *)
(* then the new handle replaces the previous one, which is aborted.         *)
Spawn ==
    /\ started < MaxGens /\ consumers \in {0, started}
    /\ started' = started + 1 /\ configured' = TRUE
    /\ poller' = [poller EXCEPT ![started'] = "check"]
    /\ receiver' = [receiver EXCEPT ![started'] = "on"]
    /\ consumers' = IF consumers = 0 THEN started' ELSE consumers
    /\ UNCHANGED <<storeVars, pushed, outstanding, deliveries, delivery_map, history>>

(* Abort drops the receiver's message in hand, if it waits for a permit,    *)
(* and with the channel what is buffered there.                             *)
abort(g) ==
    /\ receiver' = [receiver EXCEPT ![g] = "aborted"]
    /\ deliveries' = [d \in Ids |-> IF d \in At(g, "chan") \cup At(g, "hand")
                                    THEN [deliveries[d] EXCEPT !.at = "dropped"]
                                    ELSE deliveries[d]]
    /\ stranded' = stranded \cup {Job(d) : d \in At(g, "hand") \ Elems(outstanding[g])}

Swap ==
    /\ consumers # 0 /\ consumers < started
    /\ consumers' = started
    /\ abort(consumers)
    /\ UNCHANGED <<storeVars, pushed, configured, started, poller, outstanding, delivery_map, finished>>

(* apply_config on a configuration without the queue. *)
Remove ==
    /\ Removals /\ configured /\ consumers # 0 /\ consumers = started
    /\ configured' = FALSE /\ consumers' = 0
    /\ abort(consumers)
    /\ UNCHANGED <<storeVars, pushed, started, poller, outstanding, delivery_map, finished>>

----------------------------------------------------------------------------
(* BuiltinQueue::ack and nack. *)
\* Faulty variant: one attempt too many.
exhaustedLate(attempts_made) == attempts_made > MaxRetries
is_exhausted(attempts_made) == attempts_made >= MaxRetries

ackJob(j) ==
    /\ lremActive(j) /\ deleteJob(j)
    /\ finished' = finished \cup {j}
    /\ UNCHANGED <<waiting, delayed, dlq>>

nackJob(j) ==
    LET m == attempts[j] + 1 IN
    /\ lremActive(j)
    /\ IF is_exhausted(m)
       THEN deleteJob(j) /\ dlq' = lpush(dlq, j) /\ UNCHANGED delayed
       ELSE setJob(j, m) /\ delayed' = delayed \cup {j} /\ UNCHANGED dlq
    /\ UNCHANGED <<waiting, finished>>

----------------------------------------------------------------------------
(* The poller. *)

\* Faulty variant: the loop does not look at the channel.
CheckAlwaysOpen(g) ==
    /\ poller[g] = "check"
    /\ poller' = [poller EXCEPT ![g] = "move"]
    /\ UNCHANGED <<storeVars, fnVars, receiver, outstanding, deliveries, delivery_map, history>>

Check(g) ==
    /\ poller[g] = "check"
    /\ poller' = [poller EXCEPT ![g] = IF receiver[g] = "aborted" THEN "drain" ELSE "move"]
    /\ UNCHANGED <<storeVars, fnVars, receiver, outstanding, deliveries, delivery_map, history>>

\* Faulty variant: the job is removed from the set and not listed.
MoveDelayedDrops(g, j) ==
    /\ poller[g] = "move" /\ j \in delayed
    /\ delayed' = delayed \ {j}
    /\ UNCHANGED <<record, attempts, waiting, active, dlq, fnVars, taskVars, history>>

(* move_delayed_to_waiting, one due job at a time. *)
MoveDelayed(g, j) ==
    /\ poller[g] = "move" /\ j \in delayed
    /\ delayed' = delayed \ {j}
    /\ waiting' = rpush(waiting, j)
    /\ UNCHANGED <<record, attempts, active, dlq, fnVars, taskVars, history>>

(* pop finds nothing: sleep. *)
PopNone(g) ==
    /\ poller[g] = "move" /\ waiting = <<>>
    /\ poller' = [poller EXCEPT ![g] = "check"]
    /\ UNCHANGED <<storeVars, fnVars, receiver, outstanding, deliveries, delivery_map, history>>

Pop(g) ==
    /\ poller[g] = "move" /\ waiting # <<>>
    /\ waiting' = rpop(waiting)
    /\ pushActive(back(waiting))
    /\ deliveries' = Append(deliveries, [job |-> back(waiting), gen |-> g, at |-> "send"])
    /\ delivery_map' = delivery_map \cup {Len(deliveries')}
    /\ outstanding' = [outstanding EXCEPT ![g] = Append(@, Len(deliveries'))]
    /\ poller' = [poller EXCEPT ![g] = "send"]
    /\ UNCHANGED <<record, attempts, delayed, dlq, fnVars, receiver, history>>

(* The window is trimmed after a successful send. *)
trim(window) == IF Len(window) > prefetch THEN Tail(window) ELSE window

\* Faulty variant: the window keeps one id less.
SendTrimsOne(g) ==
    /\ poller[g] = "send" /\ receiver[g] # "aborted"
    /\ Cardinality(At(g, "chan")) < prefetch
    /\ \E d \in At(g, "send") : move(d, "chan")
    /\ outstanding' = [outstanding EXCEPT ![g] = IF Len(@) >= prefetch THEN Tail(@) ELSE @]
    /\ poller' = [poller EXCEPT ![g] = "check"]
    /\ UNCHANGED <<storeVars, fnVars, receiver, delivery_map, history>>

Send(g) ==
    /\ poller[g] = "send" /\ receiver[g] # "aborted"
    /\ Cardinality(At(g, "chan")) < prefetch
    /\ \E d \in At(g, "send") : move(d, "chan")
    /\ outstanding' = [outstanding EXCEPT ![g] = trim(@)]
    /\ poller' = [poller EXCEPT ![g] = "check"]
    /\ UNCHANGED <<storeVars, fnVars, receiver, delivery_map, history>>

SendFails(g) ==
    /\ poller[g] = "send" /\ receiver[g] = "aborted"
    /\ \E d \in At(g, "send") : move(d, "dropped")
    /\ poller' = [poller EXCEPT ![g] = "drain"]
    /\ UNCHANGED <<storeVars, fnVars, receiver, outstanding, delivery_map, history>>

(* Channel closed: nack what is outstanding and still in the map. *)
Drain(g) ==
    /\ poller[g] = "drain" /\ outstanding[g] # <<>>
    /\ outstanding' = [outstanding EXCEPT ![g] = Tail(@)]
    /\ LET d == Head(outstanding[g]) IN
       IF d \in delivery_map
       THEN delivery_map' = delivery_map \ {d} /\ nackJob(Job(d))
       ELSE UNCHANGED <<storeVars, delivery_map, finished>>
    /\ UNCHANGED <<fnVars, poller, receiver, deliveries, stranded>>

DrainDone(g) ==
    /\ poller[g] = "drain" /\ outstanding[g] = <<>>
    /\ poller' = [poller EXCEPT ![g] = "end"]
    /\ UNCHANGED <<storeVars, fnVars, receiver, outstanding, deliveries, delivery_map, history>>

----------------------------------------------------------------------------
(* The receiver: recv, then a permit, then a task for the message.  With a  *)
(* permit free it does not stop in between; without one the message is in   *)
(* its hands until a task ends.                                             *)
free(g) == prefetch - Cardinality(At(g, "call"))

Recv(g) ==
    /\ receiver[g] = "on" /\ At(g, "hand") = {} /\ At(g, "chan") # {}
    /\ move(First(At(g, "chan")), IF free(g) > 0 THEN "call" ELSE "hand")
    /\ UNCHANGED <<storeVars, fnVars, poller, receiver, outstanding, delivery_map, history>>

SpawnTask(g) ==
    /\ receiver[g] = "on" /\ free(g) > 0
    /\ \E d \in At(g, "hand") : move(d, "call")
    /\ UNCHANGED <<storeVars, fnVars, poller, receiver, outstanding, delivery_map, history>>

\* Faulty variant: the entry is left in the map.
nackKeepsEntry(d) ==
    /\ UNCHANGED delivery_map
    /\ IF d \in delivery_map THEN nackJob(Job(d)) ELSE UNCHANGED <<storeVars, finished>>

(* ack_function_queue and nack_function_queue act only on a delivery that   *)
(* is still in the map.                                                     *)
ack_function_queue(d) ==
    /\ delivery_map' = delivery_map \ {d}
    /\ IF d \in delivery_map THEN ackJob(Job(d)) ELSE UNCHANGED <<storeVars, finished>>
nack_function_queue(d) ==
    /\ delivery_map' = delivery_map \ {d}
    /\ IF d \in delivery_map THEN nackJob(Job(d)) ELSE UNCHANGED <<storeVars, finished>>

(* The task's function call returns; or it fails or panics. *)
CallOk(d) ==
    /\ deliveries[d].at = "call"
    /\ move(d, "end")
    /\ ack_function_queue(d)
    /\ UNCHANGED <<fnVars, poller, receiver, outstanding, stranded>>

\* Faulty variant: the nack of a time limit, with the call left running.
CallErrDetached(d) ==
    /\ deliveries[d].at = "call"
    /\ nack_function_queue(d)
    /\ UNCHANGED <<fnVars, poller, receiver, outstanding, deliveries, stranded>>

CallErr(d) ==
    /\ deliveries[d].at = "call"
    /\ move(d, "end")
    /\ nack_function_queue(d)
    /\ UNCHANGED <<fnVars, poller, receiver, outstanding, stranded>>

----------------------------------------------------------------------------
Init ==
    /\ StoreInit
    /\ pushed = 0 /\ configured = TRUE /\ consumers = 0 /\ started = 0
    /\ poller = [g \in Gens |-> "off"] /\ receiver = [g \in Gens |-> "off"]
    /\ outstanding = [g \in Gens |-> <<>>]
    /\ deliveries = <<>> /\ delivery_map = {}
    /\ finished = {} /\ stranded = {}

PollerStep(g) ==
    \/ Check(g) \/ PopNone(g) \/ Pop(g) \/ Send(g) \/ SendFails(g) \/ Drain(g) \/ DrainDone(g)
    \/ \E j \in Jobs : MoveDelayed(g, j)

Next ==
    \/ Publish \/ Spawn \/ Swap \/ Remove
    \/ \E g \in Gens : PollerStep(g) \/ Recv(g) \/ SpawnTask(g)
    \/ \E d \in Ids : CallOk(d) \/ CallErr(d)

Spec == Init /\ [][Next]_vars

(* Fairness: the runtime polls its tasks, a function call returns, a restart *)
(* that began is finished, and a delayed job comes due (strong fairness: it *)
(* is moved by some poll of a poller that keeps polling).                   *)
MaxDeliveries == MaxJobs * (IF MaxRetries = 0 THEN 1 ELSE MaxRetries)
Fairness ==
    /\ WF_vars(Swap) /\ WF_vars(Spawn /\ started = 0)
    /\ \A g \in Gens :
        /\ WF_vars(PollerStep(g)) /\ WF_vars(Recv(g)) /\ WF_vars(SpawnTask(g))
        /\ \A j \in Jobs : SF_vars(MoveDelayed(g, j))
    /\ \A d \in 1 .. MaxDeliveries : WF_vars(d \in Ids /\ (CallOk(d) \/ CallErr(d)))

FairSpec == Spec /\ Fairness

----------------------------------------------------------------------------
(* Properties. *)

(* A job is settled by one delivery at a time: while the adapter's map has a *)
(* delivery of it no list offers it and no other delivery of it is in the   *)
(* map, whatever the restarts, so that a late answer of an old delivery     *)
(* cannot settle a newer one (delivery_map, adapter.rs).                    *)
Mapped(j) == {d \in delivery_map : Job(d) = j}
SingleDelivery ==
    \A j \in Jobs :
        /\ active[j] = Cardinality(Mapped(j)) /\ active[j] <= 1
        /\ active[j] = 1 => j \notin Elems(waiting) \cup delayed \cup Elems(dlq) \cup finished
        /\ j \in finished => j \notin Elems(waiting) \cup delayed \cup Elems(dlq)
        /\ j \in delayed \cup Elems(dlq) => j \notin Elems(waiting)
        /\ j \notin delayed \cap Elems(dlq)

(* A mapped delivery is pending when somebody will settle it: its task, the *)
(* poller that still has it outstanding, or a receiver that will take it.   *)
Pending(d) ==
    LET g == deliveries[d].gen IN
    \/ deliveries[d].at \in {"send", "call"}
    \/ deliveries[d].at \in {"chan", "hand"} /\ receiver[g] = "on"
    \/ poller[g] # "end" /\ d \in Elems(outstanding[g])
Somewhere(j) ==
    \/ j \in Elems(waiting) \cup delayed \cup Elems(dlq) \cup finished
    \/ \E d \in Mapped(j) : Pending(d)

(* No restart loses a message that is buffered in the channel or handled by  *)
(* a task: only one in the receiver's hands, when it has left the window,   *)
(* can be (outstanding, adapter.rs).                                        *)
NoMessageLost == \A j \in 1 .. pushed : Somewhere(j) \/ j \in stranded

(* Delivery budget: a job is delivered at most max_retries times, restarts  *)
(* included, because the nack of a drain counts as an attempt.              *)
DeliveryBudget ==
    \A j \in Jobs :
        Cardinality({d \in Ids : Job(d) = j}) <= (IF MaxRetries = 0 THEN 1 ELSE MaxRetries)

(* Two calls of one job run at the same time only across a restart: the     *)
(* older belongs to an earlier generation whose receiver was aborted and    *)
(* whose poller is draining, and its answer no longer counts: the map has   *)
(* lost it (the retained handle's abort, queue.rs; the at-least-once drain  *)
(* of adapter.rs consume_function_queue).                                   *)
Running(j) == {d \in Ids : Job(d) = j /\ deliveries[d].at = "call"}
OldRunVoid ==
    \A j \in Jobs : \A d, e \in Running(j) : d < e =>
        /\ deliveries[d].gen < deliveries[e].gen
        /\ receiver[deliveries[d].gen] = "aborted"
        /\ poller[deliveries[d].gen] \in {"drain", "end"}
        /\ d \notin delivery_map

(* An aborted consumer's poller ends, even on an idle queue. *)
PollersEnd == \A g \in Gens : (receiver[g] = "aborted") ~> (poller[g] = "end")

(* A published job is eventually acknowledged, dead-lettered or stranded,    *)
(* unless the queue loses its consumer to the configuration.                *)
EveryMessageSettles ==
    \A j \in Jobs :
        (pushed >= j) ~> (j \in finished \cup Elems(dlq) \cup stranded \/ consumers = 0)
============================================================================
