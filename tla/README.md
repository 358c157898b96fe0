# A verification of the iii engine

iii is a runtime in which *workers* (processes in any language) connect to an
*engine* over a WebSocket, register *functions* and *triggers* in a namespace,
and call each other's functions through the engine. Built-in workers of the
engine add queues, streams, configuration, HTTP functions and observability.
The engine is a single Rust process on the tokio runtime: its state is in
memory behind locks that are held for one operation at a time, and every
`.await` is a place where another task can get in. What is hard about it is
exactly that: four or five tasks work on one connection, on one queue or on
one call, and each of them may be aborted, evicted or overtaken at any await.
Beside the engine, the *compose* daemon starts, supervises and stops the
processes of a project.

This directory holds TLA+ models of the parts where those interleavings
matter, the TLC runs that check them and TLAPS proofs of their safety
properties. A line like `queue.rs:729` names a file under `src/`;
`PROJECT.json` maps every definition to its lines.

## 1. Inventory

| component | state | operations | what makes it correct |
|---|---|---|---|
| builtin queue, `engine/src/builtins/queue.rs` | per queue: waiting, active, delayed and dead-letter lists, one record per job; per subscription: a loop, a semaphore or a set of busy groups | push, delayed push, pop, ack, nack, dead-letter, redrive, discard, subscribe, unsubscribe; three kinds of loop | a job is in one place, once; none is lost, revived or miscounted; concurrency and group exclusion; order in FIFO mode; every job settles |
| its store, `queue_kv.rs`, `kv.rs` | lists, sorted sets, records; dirty marks; files | lpush, rpush, rpop, lrem, zadd, zrem, set, delete; save loops, load | each operation atomic; no change is forgotten by the save loops; a restart restores what is on disk, once |
| function queues, `workers/queue/queue.rs`, `adapters/builtin/adapter.rs` | consumers by queue; per consumer a poller, a bounded channel, a receiver, message tasks; `delivery_map` | publish, start, restart, remove, poll, receive, ack, nack, drain | a restart neither loses nor duplicates a delivery; retry budget; old pollers end |
| worker connections, `engine/mod.rs`, `worker_connections/`, `workers/engine_fn/mod.rs` | worker registry, namespace state with its buffer, grace timers, function owners, function registry, name leases, ids of a connection | connect, buffer, announce, grace timeout, drain, register, unregister, Reattach, cleanup | arrival order; one namespace per connection; one live owner per function and name; teardown removes its own and nothing else |
| routed calls, `invocation/mod.rs`, `worker_connections/traits.rs`, `engine/mod.rs` | map of pending calls, ids tracked by each connection, outbound channels | invoke, send, reply, refuse, halt, abandon | nobody waits for a connection that is gone; nothing is left behind; every call ends |
| triggers, `trigger.rs` | providers by type and namespace, live bindings, parked bindings, the transition in flight of an id with its token | announce, retire, close, register, unregister, reject, activate, fail over | a binding is live or parked, never both and never lost; the newest registration wins; no provider runs what was taken from it; everything comes to rest |
| observers, `observer/` | active observers, queues of activations, depth of a call chain | activate, dispatch, drop, retire | bounded, no loop, no effect on the call observed |
| streams, `workers/stream/` | items, subscriptions of sockets | set, update, delete, join, leave | subscribers see every change, in order |
| configuration and reload, `workers/configuration/`, `workers/reload.rs` | entries with versions, running built-in workers | compare and set, notify, restart | no lost update; the running worker has the latest configuration |
| sessions and RBAC, channels, HTTP functions, telemetry | per connection or per request | checks, forwarding, requests | no shared state of their own |
| compose daemon, `crates/iii-compose/` | children, records, restart counts, due times and leases, the lock of a project, the shutdown signal | up, down, restart, exit, retry, cascade, reconnect, shutdown | every process is tracked; a rollback is exact; what was taken down stays down; stop order; nothing outlives the shutdown; every exit is answered |
| guest supervisor and sandboxes, `crates/iii-supervisor/`, `iii-init/`, `iii-worker/`, `iii-shell-*` | child process, virtual machines, shell sessions | spawn, kill, exec | one child at a time, exit delivered once |
| SDKs, command line, console, docs | | | |

How they interact: a worker's read loop dispatches each message in the engine;
a call becomes a task of its own that goes through the map of pending calls to
the outbound channel of the connection that serves the function; the queue
worker calls functions the same way, as the engine itself; the end of a
connection runs `cleanup_worker`, which halts its calls, releases its
functions and its name and wakes whoever waits for that (Reattach); a
configuration change restarts the consumers of function queues; providers of
triggers are connections, so their end parks or moves the bindings they ran;
the daemon sees the engine only as a place where its containers register.

## 2. Modules

```
QueueStore ── BuiltinQueue ── BuiltinQueueRefinement ── MCBuiltinQueue
     │                          (INSTANCE DurableQueue)
     │                             └── BuiltinQueueProofs
     ├── QueueStoreProofs ─────────────┘      (and FunctionQueueProofs)
     └── FunctionQueue ── FunctionQueueProofs
WriteBehind ── QueuePersistence ── MCQueuePersistence
                     └──────────── QueuePersistenceProofs
WorkerConnections ── MCWorkerConnections
     └────────────── WorkerConnectionsProofs
Invocations ── MCInvocations
     └──────── InvocationsProofs
Triggers ── MCTriggers
     └───── TriggersProofs
ComposeGraph ── ComposeProject ── MCComposeProject
                     └─────────── ComposeProjectProofs
```

Each module has one action for what a task does between two awaits at which
another task can interfere. "Faulty variant" operators in front of a
definition are plausible mistakes in it; substituting one for the definition
must make TLC report a property violated. No specification uses them.

**QueueStore** — the key-value store as a queue sees it: `waiting` and `dlq`
are sequences of job ids with the newest first (`lpush` adds at the front,
`rpop` takes from the back, `rpush` puts a retried job back there), `active` counts the
occurrences of an id, `delayed` is the sorted set (due times are abstracted:
a delayed job may come due at any poll), `record` and `attempts` are the job
records.

**BuiltinQueue** — one queue with its subscriptions. A process is a
subscription loop (`Subs`), a task that a loop spawned (`Tasks`) or an
operator's call (`Admin`); `pc` says at which await it is and `job` what it
has in hand. `Worker::run`, `FifoWorker::run` and `GroupedFifoWorker::run` are
the modes `concurrent`, `fifo` and `grouped`. `pop` is `PopId`, `PopActive`,
`PopMissing`; `nack` is `Nack`, then `RetryLrem`/`RetrySet`/`RetryZadd` or
`DlqLrem`/`DlqPush`/`DlqDelete`; and so on, so that every crossing of two
operations is explored. A subscription replaces the limit its queue's jobs
are counted against, with none when it names none, and `nack` writes the limit
it went by into the record (`stamp`). `Unsubscribe` aborts a loop wherever it is; the job it
had in hand goes into the history variable `stranded`.

**DurableQueue, BuiltinQueueRefinement** — what a queue promises of a job: it
is submitted, started, acknowledged or failed, retried while a limit allows
it, dead-lettered when one is reached, and only the operator or the end of a
subscription takes it off that path. `StatusOf` reads a job's status off the
lists and off the hands that hold it; a job in none of these places would be
"lost", which no abstract step allows. The refinement is checked and proved
without redrives: a redrive during `move_to_dlq` really loses the job
(section 5).

**WriteBehind** — the protocol of both stores towards their files: a writer
changes memory (`put`) and marks the file dirty afterwards (`mark`); a save
loop takes the marks (`Drain`), then takes a snapshot and writes it file by
file, and marks a file again when its write fails. `reload` is a crash: memory
becomes what the files hold.

**QueuePersistence** — the file-based queue on top of it, one store operation
or mark at a time: push, pop, ack, nack and the move of due jobs, and what the
engine does when it starts: `RebuildOne` (records without lists are listed) and
the drain of a queue of an engine before namespaces (`MigrateListed`,
`MigrateDelayed`, `MigrateDlq`). `Crash` may come between any two steps, also
of the rebuild and of the drain. `kept` and `touched` are history: what the
files held at the last start and what a consumer has touched since.

**FunctionQueue** — one named function queue with `MaxGens` starts of its
consumer. A generation has a poller, a bounded channel, a receiver and message
tasks; aborting a generation stops only its receiver, and its poller gives
back what is outstanding when it notices. The steps of one store operation are
BuiltinQueue's subject and are merged here.

**WorkerConnections** — the life of connections: `Connect`, `Receive` and
`Route` (read loop and namespace buffer), `Announce`, `ClaimName`, `Resolve`,
`CancelTimer` (engine::workers::register), `GraceExpires`, `DrainNext`,
`DrainEnds`, the dispatch of a registration (`BeginRegister` reads the
namespace, then `ClaimFunction`, `WriteFunction`, `NoteFunction`, ...),
`Reattach` with its time limit, and `cleanup_worker` in eight steps. The messages of the workers are inputs (`Scenarios`).

**Invocations** — calls between connections and from the engine: `List`,
`Note`, `Begin`, `Reserve`, `Send`, `Wake`, `Answer` are the task of a call;
`Deliver`, `Oversized`, `Unnote`, `Refuse`, `Drop`, `CloseChannel` the writer
(a refusal forgets the call at its caller, answers it and forgets it at its
executor in three steps); `Reply`, `Settle`
the read loop of the executor; `Claim`, `Drain`, `Finish` the teardown.
`Abandon` drops the future of one of the engine's own calls.

**Triggers** — one trigger id and one type, with providers in the namespace of
the registering connection and in the default one. A `Task` is a call of
`register_trigger`, `unregister_trigger`, `register_trigger_type`, of the
removal of a provider or of the end of a connection, with one action per await
and, where a lookup and the claim that relies on it are not under one lock
(`RegisterRecheck`, `RegisterLookup`, `DrainPending`, `RejectedRecheck`, then
`ClaimParked`), one action for each;
`flight` is the transition in flight with its token, `live` and `pending` are
the two maps, `jobs` is what the providers run. What an operation of a kind may
still do is counted by `left`.

**ComposeGraph** — the order of starts and stops as operators over the declared
dependencies: `topo_order` (which takes one ready container after the other,
`take`), `waves`, `dependency_closure`, `transitive_dependents`. The graph
walks of the code find what a container depends on; `DependsOn` is the same
set without the walk, as the least one that is closed.

**ComposeProject** — one project: `lock` says who holds it and `hand` is the
operation in hand, with its plan of stops and waves; `sup` is the supervisor's loop, which decides
under the lock, lets it go, and takes it again for an attempt; `due`, `leases`
and `spent` are the bookkeeping of restarts; `shutdown` is the signal.
Operations wait for the lock where the code does, and the signal interrupts
them where the code looks at it. `procs` counts the processes that really run.

## 3. Runs

| run | instance | distinct states | shows |
|---|---|---|---|
| queue_competing | a grouped and a FIFO loop, two jobs of a group, two limits, delays, unsubscribe | 96 640 | `SinglePlace`, `GroupExclusion`, `ActiveAccounted`, and the refinement `ImplementsDurableQueue` |
| queue_operators | concurrent loop, two permits, two jobs, two operator calls | 809 571 | `NoResurrection`, `RetryBudget`, `ConcurrencyBound` while operators redrive and discard |
| queue_fifo | FIFO loop, three jobs | 1 798 | `GroupOrder`, and `EveryJobSettles` under fairness |
| queue_crash | a queue and its pre-namespace predecessor, one crash, one failing write | 243 933 | `NoChangeForgotten`, `RestoredOnce`, `DrainedOnce` |
| queue_redrive_lost | one job, one redrive | violation | a redrive during `move_to_dlq` loses the job |
| fn_queue | two starts, two jobs, removal | 61 712 | `SingleDelivery`, `NoMessageLost`, `DeliveryBudget`, `OldRunVoid`, `PollersEnd`, `EveryMessageSettles` |
| connections | two connections, six scenarios | 478 156 | `LastWordWins`, `OneServer`, `SuccessorKept`, `CleanSlate`, `ReattachReturns` |
| invocations | two connections, two calls, channel of one place | 205 923 | `NoOrphan`, `CallerGone`, `TrackedIsOwed`, `PendingIsOpen`, and `EveryCallEnds` under fairness |
| triggers | two providers in two namespaces, one of which owns bindings too, two tasks at a time, four scenarios | 1 474 526 | `OneBucket`, `NotLost`, `NewestWins`, `TokenHeld`, `NoGhost`, and `ComesToRest` under fairness |
| trigger_stranded | two providers in one namespace, the first of which goes | violation | a binding stays parked although its type is provided |
| compose | a chain of three containers with three policies, three scenarios | 581 598 | `OneTrackedProcess`, `RollbackExact`, `TargetStaysDown`, `QuietAfterShutdown`, `StopOrder`, and `ExitIsAnswered` under fairness |
| compose_down_along | the same, two operations around one exit | violation | a dependent taken down with its dependency is started again |

Bounds, and why they are enough to see the cases that matter. Two consumers
and two jobs are what a duplicate, a lost job or a stale write needs; two jobs of one
group let a pass skip one while the other runs; a job that is redriven while its
last task still has to delete its record needs a second task, and a third task
is there for a permit too many; `MaxAttempts = 2` gives every job a first and a last failure.
Two generations are an old and a new consumer. Two connections are a worker
and its successor or rival; a third would only repeat one of the roles. In
`Invocations` a channel of one place is full with one message, so that a call
has to wait for room, and one of the calls is the engine's, which may be
abandoned, or of a connection that calls itself, where one id set has both
roles. In `queue_crash` a job of the old queue starts in any of its lists, one
crash comes between any two steps and each loop saves once before and as often
as it likes after the work (`MaxCrashes`, `MaxTicks`, `MaxFailures`, and the
`Starts` the run may choose from): a second crash would start from files of the
same kinds. A trigger needs an old and a new provider, a registration and its
replacement or removal, and one fault; `Budgets` combines them so that each
pair of operations meets. A chain of three containers has a dependency, a
dependent and a dependent's dependent, with one restart policy each, declared in
reverse, so that the order of discovery is a wrong one for stops; each wave of
its `up` has one member, and waves of several are covered by the theorems of
section 4, which hold for every graph; two
operations around an exit, two exits around an operation and a reconnect are
what the supervisor's decisions can cross. Symmetry is used on the interchangeable tasks of BuiltinQueue in runs
without liveness. Deadlock is not checked where the system may legitimately
stop: all connections closed, no operation left, the project shut down.

Fairness. Weak fairness on the steps of tokio tasks: the runtime polls a task
that is ready. Timers are fair only where the code arms one and
waits for it (the grace timer and REATTACH_EVICT_TIMEOUT). A delayed job comes
due: strong fairness of the poll that moves it, since the loop keeps polling.
A handler or a called function returns. For `EveryCallEnds` a worker that
stays connected is assumed to answer what it was given, because the engine
puts no limit on a direct call (the callers' SDKs do), and a socket that does
not take a message any more ends the read loop too; no fairness is assumed for
the end of a connection otherwise, so the property covers both workers that
stay and workers that go. In `Triggers` every task that has started goes on,
a call of a provider ends, and the cleanup of a connection that ended is carried
out; nothing else is fair: providers need not come back. That a call ends is
the code's doing in a fail-over and in a repair, which have a time limit
(`failover_replay_timeout`), and an assumption on the providers' connections
elsewhere: a registration, a removal, a re-homing and an activation wait for the
channel of the provider without one. In `ComposeProject` the lifecycle steps,
the answers of an operation, the supervisor's loop, a shutdown that was
requested and the end of a back-off are fair, since the daemon's tasks run and its timers expire; operators, exits
and reconnects are not.

## 4. Proofs

Each proof module extends the module it is about; its theorems hold for every
value of the constants that the named assumptions of that module allow, not
only for the instances of the runs. Every safety property the passing runs
check is a theorem; liveness is not (end of this section).

| module | theorems | for every |
|---|---|---|
| QueueStoreProofs | lemmas on the store's operations: what `lpush`, `rpush`, `rpop`, `lremoveFirst` do to the elements and to their being distinct | sequence of ids |
| BuiltinQueueProofs | `TypeCorrect`; `OnePlace` (`SinglePlace`), `SettledForGood` (`NoResurrection`), `PermitsExact` (`ConcurrencyBound`), `GroupsExclusive` (`GroupExclusion`), `BudgetKept` (`RetryBudget`) | number of jobs, subscriptions and tasks; modes, limits, groups and operator calls |
| | `QueueIsDurable` (`ImplementsDurableQueue`), `NothingLost` (`NoJobLost`), `ActiveListExact` (`ActiveAccounted`) | the same, without redrives; finitely many subscriptions |
| | `FifoInOrder` (`GroupOrder`) | number of jobs and retry limits; one FIFO subscription that stays, and clients that only push (`FifoAlone`) |
| QueuePersistenceProofs | `NothingForgotten`: `SaveSpec => []NoChangeForgotten`; `SavesAsSpecified`: `Spec => SaveSpec`; `QueueForgetsNothing` (`NoChangeForgotten`); `CrashRestoresOnce` (`RestoredOnce`), `DrainNeverDuplicates` (`DrainedOnce`) | jobs and files, writers and save loops that exclude each other on a file they share, number of crashes and failures |
| FunctionQueueProofs | `OneDeliveryAtATime` (`SingleDelivery`), `DeliveriesBounded` (`DeliveryBudget`), `OverlapVoid` (`OldRunVoid`), `OnlyStrandedLost` (`NoMessageLost`) | number of jobs and restarts, concurrency and retry limit |
| WorkerConnectionsProofs | `OwnKept` (`SuccessorKept`), `ServedByOne` (`OneServer`), `NothingLeft` (`CleanSlate`), `UnregisterWins` (`LastWordWins`) | connections, namespaces, names and functions; whatever the workers send |
| InvocationsProofs | `NobodyIsOrphaned` (`NoOrphan`), `GoneCallersAreDropped` (`CallerGone`), `PendingCallsAreOpen` (`PendingIsOpen`), `OnlyOwedIsTracked` (`TrackedIsOwed`) | connections and calls, callers and executors, channel capacity |
| TriggersProofs | `InOneBucket` (`OneBucket`), `BindingKept` (`NotLost`), `NewestInForce` (`NewestWins`), `ClaimHeld` (`TokenHeld`), `ProvidersLetGo` (`NoGhost`) | workers, providers and tasks; number of operations of each kind |
| ComposeProjectProofs | `ProcessesTracked` (`OneTrackedProcess`), `RollbacksExact` (`RollbackExact`), `StaysDownUntilStarted` (`TargetStaysDown`), `ShutdownIsQuiet` (`QuietAfterShutdown`), `StopsInOrder` (`StopOrder`), `TopoOrder` | compose file without a cycle, policies and required containers, number of operations, exits and reconnects |

In parentheses: the property of section 3 that the theorem states of `Spec`
(`NoJobLost` is the one that fails once an operator redrives).
Every proof has the same frame: an invariant that is inductive, one lemma per
action (or per group of actions that do the same to the state), and the
property as a consequence. What follows is what the invariants add and why.

*Builtin queue.* `SinglePlace` is inductive together with `TypeOK` and
`Unborn`: an id that has not been pushed is nowhere, without which a push could
list an id twice. What an action takes out of one place it puts into exactly
one other, and the lemmas on the store say that the remaining ids of a list are
unchanged and distinct. `NoResurrection` then follows from `Past` (what is
settled is nowhere). `Slots` counts permits and groups: the permits in use are
exactly the tasks a loop has running, and a group is busy while its task still
has steps to do, also after the job was settled. `Budget` follows the attempt
count through the hands that carry it: which processes hold a record whose
attempts are not yet spent and which hold one that is (`FreshPcs`,
`SpentPcs`), with the limit that was in force when it was read.

*The refinement.* `QueueIsDurable` maps each step of the code to a step of
DurableQueue for one job, to a stutter, or to the end of a subscription, which
may abandon several jobs at once (`Advance`). It needs `Living`: every pushed
job is waiting, running, failed, dead or settled (`Lives`), a job that is not
yet settled has its record (`Recorded`), a task that is about to delete a
record does so for a job that nobody else handles any more (`Deleting`), the
operator has nothing in hand but a discard (`Steady`), and a FIFO loop with a
task at work waits for it and has no other (`Fifo`). `Deleting` is what a
redrive breaks, and `NoRedrives` (the operator's calls are discards only) is
assumed for that reason; `queue_redrive_lost` shows that it cannot be dropped.
`ActiveListExact` adds `Balanced`: for each job the occurrences in the active
list are as many as the processes that will remove one, counted over sets that
have to be finite, hence `SubsAssumption`.

*The order of a FIFO queue.* `FifoInOrder` assumes the use for which the code
keeps the order (`FifoAlone`): a delayed job re-enters at the end that is
served, a redriven one at the other, an aborted loop strands the job in its
hands, and a second loop or a grouped one may overtake. `Straight` says that
such a queue never takes the paths that put a job back; `OldestFirst`, that the
list is in the order of the pushes and that the job the loop has popped is older
than every job in it. With `Living` an older job is then nowhere but settled:
it is not in the list, the loop has another in hand, and by `Fifo` no task is at
work when the loop hands over the next.

*Persistence.* `NoChangeForgotten` says that a file which differs from memory is
marked, about to be marked, queued in a save loop, or being written with the
current content. It is not inductive: a loop could write an old snapshot over
the file. `SaveInv` adds that a snapshot which memory has left behind belongs to
a file that will be saved again (`StaleIsKnown`), that two loops which serve the
same file are never both at work (`Exclusive`, the flush lock) and that a loop
works on its own files (`Assigned`). `SavesAsSpecified` is a refinement: every
step of the queue, its rebuild and its drain included, is a step of WriteBehind
or leaves its variables alone, because every script of store operations that an
action begins is one of known operations (`ScriptsOK`); `QueueForgetsNothing`
then needs no proof of its own.
`RestoredOnce` and `DrainedOnce` rest on `QueueInv`, which follows each job the
files can restore, or the drain has to carry, through every version of the
files a crash may leave: in memory, on disk and in the snapshots being written
(`Contents`). `Kinds`: an untouched job of the old queue is listed as one kind
(waiting, delayed, dead) in all of these versions. `Carried` says how far the
restart has come with a job: still to be listed again or being listed
(`Relisted`, during the rebuild), or held by exactly one kind of place with its
record where the engine looks for it, with the passes of the drain that are
behind having left nothing of it in the old queue (`Held`, `Passed`) and the one
at work at a known point of its script: cleared, added, dropped (`Turn`).
`OneJob` (a script is about one job) and `Unpushed` (a job that was not pushed
is in no version) keep what happens to one job from touching another.

*Function queue.* `Placed` and `Born` say where a job is, `Counted` that the
deliveries a job has had are its attempts, one more while it is out: that is
the retry budget. `NoMessageLost` rests on the windows of the pollers:
`Windows` (a window is in the order of the pops and ends with what is being
sent) and `Buffered` (what is still in a channel is in the window, because
trimming takes the oldest and nothing younger has left the channel before it);
`Owed` then finds someone who settles every delivery in the map, unless it is
counted as stranded. For `OldRunVoid`, `Turns` says that generations are aborted
in the order of their starts and `Overlap` that a delivery leaves the map only
by the end of its task or by a drain: a newer delivery of a job that still runs
is of a later generation, or of an aborted one that can no longer send it, and
the answer of the older run finds its delivery gone.

*Connections.* `Pipeline` says that a connection goes through its life once and
has one dispatcher at a time: the drain of its buffer, or the read loop
afterwards. `Owned` follows a registration from the lease to the handler and to
the ids of the connection, `Leases` and `Handlers` go the other way: each lease
and each handler has a connection that still has to give it back, so that a
teardown that ends leaves none. `Words` is the arrival order: the last word of
a worker about a function is in a buffer, in a dispatcher, or has been carried
out. `Refusal` and `Untouched` separate the functions whose URL is refused,
which the properties exclude (section 5), and the connections nothing has
happened to yet.

*Invocations.* None of the properties is inductive. The invariant `IInv`
says how a call is found again: a running call whose one-shot channel is
unused is in the map, or a writer is refusing it (`Open`); the executor tracks
a call that was handed over and the caller one that is pending, unless the
read loop is settling it (`Tracked`); messages and answers are at the
connection that the call was sent to, and only after it was sent (`Routed`);
a call that is being refused has its sender nowhere else (`Refused`); a drained
connection has no ids (`Emptied`). The last one is where the code's care
matters: `Note` and `Send` look at `cleanup_claimed` under the lock of the ids,
so an id can only be added before the drain, which then halts it.
`TrackedIsOwed` is inductive relative to these.

*Triggers.* `Tokens` (a token is given once, so one task at most is the holder
of the claim) and `Holders` (the holder is at an await after which it gives the
claim up, and carries the newest registration; while it detaches, the binding
is still in force) are what lets a late answer be recognised. `Moving` and
`Removing` say where the binding is while the claim is held. The rest of
`Registry` are the properties themselves. `NoGhost` speaks of rest only, so its
invariant has to say who will bring it about. `Served`: the binding is in force
where a provider was told to run it and no claim moves it behind that
provider's back (`Covers`; the holder that takes it away has still to make the
provider let go, `Lets`), or some task owes the provider a call and has it in
the list of what it will repair (`Owes`). Each step keeps this in one of three
ways: it covers the provider, it passes the debt on to the task it becomes, or
it withdraws the claim that made the call, which puts the provider on that
list. `Places`, `Jobs` and `Errands` say that what tasks and providers remember
are registrations that were made and versions that are no longer under way
(`Past`); `Newcomers` that each registration in progress carries a version of
its own. Registrations of the id may overlap and are accepted in any order, so
that "newer" would not do: what is needed is that nobody has been told to replay
a version that is only now accepted.

*Compose.* `LockHeld`, `Phases` and `Visiting` say which operation is in hand
and what the supervisor remembers; `Tracked` is `OneTrackedProcess` as an
equation; `Stopping` and `StaysDown` follow a `down`: what it was asked for is
down or still in its plan, and has neither a due time nor a claim from the
moment the operator took control; `RollingBack` compares an `up` with what ran
before it; `ShuttingDown` is the last phase. `StopOrder` needs `Ordered`: what
depends on a container yet to be stopped is not running or comes before it in
the plan. That the plan begins so is a fact about the graph. The orders are
recursive functions; their recursion is justified once (`RecursionExists`), and
induction over the numbers is used with a set instead of a predicate
(`NatSetInduction`, from the well-foundedness of <). `Sources`: among any
containers one waits for none of the others, since there is no cycle; so the
sort is never stuck while containers are left (`NotStuck`), and by `NextStage`
what it has taken is in order and without repetitions. `TopoOrder` concludes,
and shows that the error the code keeps for an incomplete sort (`dag.rs:211`)
cannot occur.

Only model-checked is all liveness (`EveryJobSettles`, `EveryMessageSettles`,
`PollersEnd`, `ReattachReturns`, `EveryCallEnds`, `ComesToRest`,
`ExitIsAnswered`): TLAPS does not prove properties under fairness. The three
runs that expect a violation are counterexamples and have no theorem.

## 5. Where code and documentation differ

Shown by a run (details in `PROJECT.json`, findings): the redrive that loses a
job, the binding that stays parked although its type is provided, the dependent
that is started again after it was taken down.

Seen while modelling, not shown by a run of this project:

- The grouped FIFO loop puts the jobs it skipped back at the newest end, so a
  later job of a group can start before an earlier one (`queue.rs:1294`).
- A message that the receiver of a function queue holds while it waits for a
  permit has left the poller's window; a restart strands it (`adapter.rs`,
  the trimming of `outstanding`).
- An announcement that loses against the grace timer aborts the timer's task,
  and with it the drain that the task is doing (`engine_fn/mod.rs`, the second
  `cancel_namespace_grace_timer`).
- A second registration of an HTTP function with a refused URL releases the
  lease of the first, whose handler then outlives the connection. The properties
  of WorkerConnections say nothing about a function whose registration was
  refused (`Refused`).
- Persistence: `rebuild_from_storage` takes the part after the first `:` of a
  key as the queue's name, which is wrong for names that contain `::`. A job
  that was active at a crash is not listed again while lists were saved. Lists
  that were saved before the records leave an id without its record, also in
  the drain, whose comment says that a re-run still resolves the record; an
  acknowledged job whose record was not yet deleted on disk is delivered again
  when the lists were not saved; a job saved in both waiting and delayed is
  delivered twice. `RestoredOnce` and `DrainedOnce` are about the jobs that the
  files can restore and nobody has touched since.
- Triggers: a registration publishes a binding as live although its provider
  retired during the call; a successful `register_trigger` does not take the
  superseded binding away from another provider; the replay inside
  `register_trigger_type` holds no token, so that a removal meanwhile leaves
  the provider's job; an activation's replay can overwrite the job of a newer
  binding before that one is published; a late rejection by an old provider
  parks a binding that has moved; the repairs of `reconcile_provider` follow the
  target of a claim whose holder may still park the binding, resolve its
  provider anew or use an older registration of that provider, so that a
  provider repaired meanwhile keeps a job nobody takes from it (it takes three
  operations at a time, more than the run `triggers` has). `NewestWins` and
  `NoGhost` say exactly which of these the code excludes: `NoGhost` is about
  what the holder of a claim had replayed, not about repairs.
- Compose: the list of dead containers is read once, so a container with policy
  `no` that an operator has restarted meanwhile is stopped again by the cascade;
  `mark` may record a container as failed that was started meanwhile. The
  snapshot of the state file is written after the lock was let go, so an older
  one can overwrite a newer one or recreate a file that was removed. A record
  stays `Restarting` with no attempt owed after `down` of a container that was
  backing off (`compose.mdx:492`).
- A direct call has no time limit in the engine (`invocation/mod.rs:436`), and
  overlapping configuration events, the detached retry and the destruction of a
  queue worker are ordered only by `apply_lock` (`workers/queue/queue.rs:968`).
- `workers/queue/README.md:101` says a FIFO function queue retries inline; the
  builtin adapter puts the failed job into the delayed set, and later jobs
  overtake it.
- `workers/queue/README.md:96` says prefetch 1 for FIFO; after a restart the
  tasks of the old consumer run beside those of the new one, so the bound
  holds per generation only; what holds across generations is that the older
  call of a job that runs twice no longer counts (`OldRunVoid`).
- The nack of a drain spends an attempt although the function was not called
  (`adapter.rs:595` ff.).
- `engine_fn/mod.rs:2312-2317`: the namespace is read before the name lease is
  taken; a grace timer that fires in between puts functions into the default
  namespace and the name into the announced one.
- A registration that is in flight when the teardown takes its snapshot may
  leave its handler behind, and may overwrite a successor's handler; `CleanSlate`
  says so with its history variable `raced`.
- A frame that is routed after the teardown has forgotten the namespace state
  is dispatched at once, into the default namespace.

## 6. Abstractions

Payloads, names of topics, tracing, metrics and log lines are left out. Time is
left out: a timer may fire at any moment after it was armed, a delayed job may
come due at any poll. `Job` records keep the attempt count and the existence
of the record. A store operation under one lock is one step. The room in the
caller's channel for a result is left out of `Invocations` (the task of the
call waits for it or for the end of the channel). Sequences of a worker's
messages are finite inputs.

`QueuePersistence` merges the consumer loops into one consumer with one job in
hand; the loops are BuiltinQueue's subject. The operators' calls of `BuiltinQueue`
do not overlap each other. In `WorkerConnections` a claim looks at the registry
and at the teardown of the present owner in one step (`engine/mod.rs:3914-3916`,
and the same for names): the code may find the owner still listed and then its
teardown over, and refuses the claim, which leaves no trace. `Triggers` has one
id and one type. `register_trigger` and `fail_over` resolve the namespace and
look up its provider in one step; a provider that goes in between is one that
was not there. The comparison that ends a repair is by value, where the code
compares pointers (`trigger.rs:1033-1036`): it may repeat a repair that has
nothing left to change. In `ComposeProject` an operation
begins when it gets the lock, the window in which failures are counted is a
choice (`held`), leases are a set of containers, the limit on parallel starts is
left out, and the two looks at the shutdown signal around the lock of an attempt
are one step (`lifecycle.rs:540`: the code returns where the model goes on to
the stop, which the shutdown does next in any case); `stop_one` takes the handle
and ends the process in one step, which nobody else can see under the lock; the
wait of a restart for the engine to forget the name, and its failure, are the
failure of a start that has not spawned (`StartFails`); the state file, changes of the compose file, `abandon`, the
recovery of a crashed daemon and the reaper are left out.

Components marked `not_modelled` in `PROJECT.json` have the reason there.

## 7. Plan

1. Done: the builtin queue and its store, its persistence with crashes, its
   abstract specification; the function queue; connections and ownership;
   routed calls; triggers; the compose project. Proofs of all their safety
   properties and of the refinement.
2. The observers' dispatch and its conversion of parked triggers; streams; the
   configuration store and the restart of built-in workers.
3. The state file of the compose daemon with the recovery after its crash; the
   supervisor's child; the update operations against a reference.
