--------------------------- MODULE ComposeProject ---------------------------
(***************************************************************************)
(* One project of the compose daemon (crates/iii-compose/src: project.rs,   *)
(* lifecycle.rs and the supervision of daemon.rs): the operations of an     *)
(* operator, the supervisor that answers exits and retries, an engine that  *)
(* comes back, and the daemon's shutdown.                                   *)
(*                                                                          *)
(* Operations hold the lock on Inner from beginning to end, so one of them  *)
(* at a time is in hand; processes exit, operations are cancelled and the   *)
(* shutdown is requested at any moment.  The supervisor takes the lock      *)
(* anew for each of its steps, and keeps what it read between them.         *)
(* The state file, which only the next daemon reads, is left out.           *)
(***************************************************************************)
EXTENDS ComposeGraph

CONSTANTS
    Required,       \* containers whose failed start fails the operation
    Policy,         \* Policy[c]: "no", "on-failure" or "always"
    MaxAttempts,    \* restart.max_attempts
    NoOne,
    Budgets         \* how many operations, exits and reconnects there may be:
                    \* the bounds, one of these

ASSUME ProjectAssumption ==
    /\ Required \subseteq Containers /\ Policy \in [Containers -> {"no", "on-failure", "always"}]
    /\ MaxAttempts \in Nat /\ NoOne \notin {"operator", "supervisor", "shutdown"}
    /\ Budgets \subseteq [{"ops", "exits", "reconnects"} -> Nat] /\ Budgets # {}

VARIABLES
    children,   \* Inner.children: "none", or what the handle says of its
                \* process: "running", "crashed" or "clean" (exited with 0)
    records,    \* Inner.state: the recorded status, or "absent"
    spent,      \* Inner.restarts.attempts: attempts spent
    due,        \* Inner.restarts.attempts: "no" attempt owed, "waiting" for the
                \* backoff to elapse, or due "now"
    leases,     \* Inner.restarts.leases: containers the supervisor has claimed
    lock,       \* who holds Inner: NoOne, "operator", "supervisor" or "shutdown"
    hand,       \* the lifecycle operation in hand
    sup,        \* the supervisor: where it is and what it has read
    shutdown,   \* "no", "cancelled", "down", "cleared" or "done"
    procs,      \* procs[c]: live processes of container c (external)
    left,       \* what remains of the bounds
    downed      \* history: what operators took down last and did not start since,
                \* as the "target" of a down or "along" with one

inner == <<children, records>>
restarts == <<spent, due, leases>>
vars == <<inner, restarts, lock, hand, sup, shutdown, procs, left, downed>>

Exited == {"crashed", "clean"}
requested == shutdown # "no"
\* Faulty variant: an `up` that hears its own cancellation only.
signalledAlone(cancelled) == cancelled
(* The signal of an `up`: its own cancellation or the daemon's. *)
signalled(cancelled) == cancelled \/ requested

NoStart == [c \in Containers |-> "no"]
(* phase: what comes next; stops: what is still to be stopped; start[c]: a   *)
(* start in hand, "prep" before its process is spawned, then what the        *)
(* process is; tries[c]: replacements it has had; started: what is ready;    *)
(* before: what was running when the operation began.                        *)
Idle == [op |-> "none", target |-> Everything, phase |-> "done", stops |-> <<>>, waves |-> <<>>,
         start |-> NoStart, tries |-> [c \in Containers |-> 0], started |-> <<>>,
         failed |-> FALSE, cut |-> FALSE, cancelled |-> FALSE, before |-> {}]
Asleep == [at |-> "sleep", todo |-> {}, key |-> Everything, loop |-> "none", fate |-> "none"]

Init ==
    /\ children = [c \in Containers |-> "none"] /\ records = [c \in Containers |-> "absent"]
    /\ spent = [c \in Containers |-> 0] /\ due = [c \in Containers |-> "no"] /\ leases = {}
    /\ lock = NoOne /\ hand = Idle /\ sup = Asleep /\ shutdown = "no"
    /\ procs = [c \in Containers |-> 0] /\ downed = [c \in Containers |-> "no"]
    /\ left \in Budgets

(***************************************************************************)
(* Lifecycle: the operation in hand, under the lock.                        *)
(***************************************************************************)
down_order(target) ==
    IF target = Everything THEN Reverse(topo_order)
    ELSE Append(transitive_dependents(target), target)
up_plan(target) ==
    [Idle EXCEPT !.op = "up", !.target = target, !.phase = "wave", !.waves = waves(plan_targets(target)),
                 !.before = {c \in Containers : children[c] = "running"}]
down_plan(target) ==
    [Idle EXCEPT !.op = "down", !.target = target, !.phase = "stop", !.stops = down_order(target)]
restart_plan(key) == [Idle EXCEPT !.op = "restart", !.target = key, !.phase = "stop", !.stops = <<key>>]

interrupted == signalled(hand.cancelled)
ended(c) == [procs EXCEPT ![c] = @ - 1]

stop_one(key) ==
    /\ children' = [children EXCEPT ![key] = "none"]
    /\ records' = [records EXCEPT ![key] =
           IF children[key] # "none" /\ @ # "absent" THEN "stopped" ELSE @]
    /\ procs' = IF children[key] = "running" THEN ended(key) ELSE procs
\* Faulty variant: everything the `up` planned is rolled back.
rollbackPlan(h) == [h EXCEPT !.phase = "stop", !.stops = Reverse(plan_targets(h.target))]
rollback(h) == [h EXCEPT !.phase = "stop", !.stops = Reverse(h.started)]

Stop ==
    /\ hand.phase = "stop" /\ hand.stops # <<>>
    /\ stop_one(Head(hand.stops))
    /\ hand' = [hand EXCEPT !.stops = Tail(@)]
    /\ UNCHANGED <<restarts, lock, sup, shutdown, left, downed>>

(* A restart goes on to the start once the engine has forgotten the name. *)
Stopped ==
    /\ hand.phase = "stop" /\ hand.stops = <<>>
    /\ hand' = IF hand.op = "restart" THEN [hand EXCEPT !.phase = "start", !.start[hand.target] = "prep"]
               ELSE [hand EXCEPT !.phase = "done"]
    /\ UNCHANGED <<inner, restarts, lock, sup, shutdown, procs, left, downed>>

(* The next wave of an `up`: what is not running already is started at once. *)
Wave ==
    /\ hand.phase = "wave"
    /\ hand' =
        IF hand.waves = <<>> THEN [hand EXCEPT !.phase = "done"]
        ELSE IF interrupted THEN rollback([hand EXCEPT !.cut = TRUE])
        ELSE [hand EXCEPT !.phase = "start", !.waves = Tail(@),
                  !.start = [c \in Containers |->
                      IF c \in Head(hand.waves) /\ children[c] # "running" THEN "prep" ELSE "no"]]
    /\ UNCHANGED <<inner, restarts, lock, sup, shutdown, procs, left, downed>>

Spawn(c) ==
    /\ hand.start[c] = "prep" /\ ~interrupted
    /\ hand' = [hand EXCEPT !.start[c] = "running"]
    /\ procs' = [procs EXCEPT ![c] = @ + 1]
    /\ UNCHANGED <<inner, restarts, lock, sup, shutdown, left, downed>>

(* The worker registered in time: the handle replaces what was there. *)
Ready(c) ==
    /\ hand.start[c] = "running" /\ ~interrupted
    /\ children' = [children EXCEPT ![c] = "running"]
    /\ records' = [records EXCEPT ![c] = "ready"]
    /\ hand' = [hand EXCEPT !.start[c] = "no", !.started = Append(@, c)]
    /\ UNCHANGED <<restarts, lock, sup, shutdown, procs, left, downed>>

retries_start_failure(c) ==
    \/ Policy[c] = "always"
    \/ Policy[c] = "on-failure" /\ hand.start[c] # "clean"

\* Faulty variant: the process outlives the failed attempt.
StartFailsLeaks(c) ==
    /\ hand.start[c] # "no"
    /\ hand' = [hand EXCEPT !.start[c] = "no", !.failed = @ \/ c \in Required]
    /\ UNCHANGED <<inner, restarts, lock, sup, shutdown, procs, left, downed>>

(* A hook, the name, the spawn or the registration fails, or the process     *)
(* exits first: it is stopped, and an `up` tries again as the policy says.   *)
StartFails(c) ==
    /\ hand.start[c] # "no"
    /\ procs' = IF hand.start[c] = "running" THEN ended(c) ELSE procs
    /\ hand' = IF hand.op = "up" /\ hand.tries[c] < MaxAttempts /\ retries_start_failure(c)
               THEN [hand EXCEPT !.start[c] = "prep", !.tries[c] = @ + 1]
               ELSE [hand EXCEPT !.start[c] = "no", !.failed = @ \/ c \in Required]
    /\ UNCHANGED <<inner, restarts, lock, sup, shutdown, left, downed>>

Interrupt(c) ==
    /\ hand.start[c] # "no" /\ interrupted
    /\ procs' = IF hand.start[c] = "running" THEN ended(c) ELSE procs
    /\ hand' = [hand EXCEPT !.start[c] = "no", !.cut = TRUE]
    /\ UNCHANGED <<inner, restarts, lock, sup, shutdown, left, downed>>

(* Every start of the wave has settled. *)
Settled ==
    /\ hand.phase = "start" /\ hand.start = NoStart
    /\ hand' = CASE hand.op = "restart" -> [hand EXCEPT !.phase = "done"]
                 [] hand.op = "up" /\ (hand.cut \/ hand.failed) -> rollback(hand)
                 [] OTHER -> [hand EXCEPT !.phase = "wave"]
    /\ UNCHANGED <<inner, restarts, lock, sup, shutdown, procs, left, downed>>

Lifecycle ==
    \/ Stop \/ Stopped \/ Wave \/ Settled
    \/ \E c \in Containers : Spawn(c) \/ Ready(c) \/ StartFails(c) \/ Interrupt(c)

(***************************************************************************)
(* The operator.                                                            *)
(***************************************************************************)
\* Faulty variant: the claim is withdrawn, the retry is still due.
operator_took_leases(target) ==
    /\ leases' = leases \ (IF target = Everything THEN Containers ELSE {target})
    /\ UNCHANGED <<spent, due>>

operator_took_control(target) ==
    LET taken == IF target = Everything THEN Containers ELSE {target}
    IN /\ leases' = leases \ taken
       /\ due' = [c \in Containers |-> IF c \in taken THEN "no" ELSE due[c]]
       /\ UNCHANGED spent

Begin(who, plan) == lock = NoOne /\ lock' = who /\ hand' = plan
End(who) == lock = who /\ hand.phase = "done" /\ lock' = NoOne /\ hand' = Idle

Asked(target) == left.ops > 0 /\ left' = [left EXCEPT !.ops = @ - 1] /\ operator_took_control(target)
started_again(keys) == downed' = [c \in Containers |-> IF c \in keys THEN "no" ELSE downed[c]]

up(target) ==
    /\ ~signalled(FALSE) /\ Asked(target) /\ Begin("operator", up_plan(target))
    /\ started_again(ToSet(plan_targets(target)))
    /\ UNCHANGED <<inner, sup, shutdown, procs>>

restart_one(key) ==
    /\ ~requested /\ Asked(key) /\ Begin("operator", restart_plan(key))
    /\ started_again({key})
    /\ UNCHANGED <<inner, sup, shutdown, procs>>

down(target) ==
    /\ Asked(target) /\ Begin("operator", down_plan(target))
    /\ UNCHANGED <<inner, sup, shutdown, procs, downed>>

(* The answer of a `down` names everything in its order as stopped. *)
Answered ==
    /\ End("operator")
    /\ downed' = IF hand.op # "down" THEN downed
                 ELSE [c \in Containers |->
                          IF hand.target \in {c, Everything} THEN "target"
                          ELSE IF downed[c] = "no" /\ DependsOn(c, hand.target) THEN "along"
                          ELSE downed[c]]
    /\ UNCHANGED <<inner, restarts, sup, shutdown, procs, left>>

CancelUp ==
    /\ hand.op = "up" /\ ~hand.cancelled
    /\ hand' = [hand EXCEPT !.cancelled = TRUE]
    /\ UNCHANGED <<inner, restarts, lock, sup, shutdown, procs, left, downed>>

Operator ==
    \/ \E target \in Containers \cup {Everything} : up(target) \/ down(target)
    \/ \E key \in Containers : restart_one(key)

(***************************************************************************)
(* The supervisor.  A step under the lock needs it free.                    *)
(***************************************************************************)
back == [sup EXCEPT !.at = sup.loop, !.key = Everything, !.fate = "none"]
gone == [Asleep EXCEPT !.at = "gone"]
on(key, at) == [sup EXCEPT !.at = at, !.key = key]
outside == <<shutdown, procs, left, downed>>

supervise ==
    /\ sup.at = "sleep"
    /\ sup' = IF requested THEN gone ELSE [sup EXCEPT !.at = "reap"]
    /\ UNCHANGED <<inner, restarts, lock, hand, outside>>

(* The engine connection came back: what runs now has to register again. *)
reconcile_after_reconnect ==
    /\ sup.at = "sleep" /\ ~requested /\ lock = NoOne /\ left.reconnects > 0
    /\ sup' = [sup EXCEPT !.at = "recheck", !.loop = "recheck",
                          !.todo = {c \in Containers : children[c] = "running"}]
    /\ left' = [left EXCEPT !.reconnects = @ - 1]
    /\ UNCHANGED <<inner, restarts, lock, hand, shutdown, procs, downed>>

wait_for_reregistration ==
    /\ sup.at = "recheck"
    /\ \/ /\ requested \/ sup.todo = {}
          /\ sup' = IF requested THEN gone ELSE [Asleep EXCEPT !.at = "reap"]
       \/ \E c \in sup.todo :
             LET rest == [sup EXCEPT !.todo = @ \ {c}]
             IN ~requested /\ sup' \in {rest, [rest EXCEPT !.at = "down", !.key = c, !.fate = "failed"]}
    /\ UNCHANGED <<inner, restarts, lock, hand, outside>>

reap ==
    /\ sup.at = "reap" /\ lock = NoOne
    /\ sup' = [sup EXCEPT !.at = "exits", !.loop = "exits",
                          !.todo = {<<c, children[c]>> : c \in {d \in Containers : children[d] \in Exited}}]
    /\ UNCHANGED <<inner, restarts, lock, hand, outside>>

wants_restart(c, status) == Policy[c] = "always" \/ (Policy[c] = "on-failure" /\ status # "clean")

answer_exit ==
    /\ sup.at = "exits"
    /\ \/ /\ sup.todo = {}
          /\ sup' = IF requested THEN gone ELSE [Asleep EXCEPT !.at = "drive"]
       \/ \E e \in sup.todo :
             sup' = [sup EXCEPT !.todo = @ \ {e}, !.key = e[1],
                         !.at = IF wants_restart(e[1], e[2]) THEN "claim" ELSE "forget",
                         !.fate = IF e[2] = "clean" THEN "stopped" ELSE "failed"]
    /\ UNCHANGED <<inner, restarts, lock, hand, outside>>

drive_restarts ==
    /\ sup.at = "drive" /\ lock = NoOne
    /\ sup' = [sup EXCEPT !.at = "retries", !.loop = "retries",
                          !.todo = {c \in Containers : due[c] = "now"}]
    /\ UNCHANGED <<inner, restarts, lock, hand, outside>>

answer_retry ==
    /\ sup.at = "retries"
    /\ \/ sup.todo = {} /\ sup' = Asleep
       \/ \E c \in sup.todo :
             sup' = [sup EXCEPT !.todo = @ \ {c}, !.key = c, !.at = "claim", !.fate = "failed"]
    /\ UNCHANGED <<inner, restarts, lock, hand, outside>>

restart_is_eligible(key) ==
    IF sup.loop = "exits" THEN children[key] \in Exited
    ELSE records[key] = "restarting" /\ due[key] = "now"

claim_restart ==
    LET key == sup.key
        claimed == restart_is_eligible(key) /\ key \notin leases
        stale == sup.loop = "retries" /\ records[key] # "restarting"
    IN /\ sup.at = "claim" /\ lock = NoOne
       /\ leases' = IF claimed THEN leases \cup {key} ELSE leases
       /\ due' = IF stale THEN [due EXCEPT ![key] = "no"] ELSE due
       /\ sup' = IF claimed THEN on(key, "attempt") ELSE back
       /\ UNCHANGED <<inner, spent, lock, hand, outside>>

\* Faulty variant: the claim outlives the attempt.
releaseForgotten(key) == leases
release(key) == leases \ {key}
restarting(key) == [records EXCEPT ![key] = IF @ = "absent" THEN @ ELSE "restarting"]

(* The attempt is not made: the daemon stops, or an operator has taken over. *)
AttemptDropped ==
    /\ sup.at = "attempt"
    /\ \/ requested /\ leases' \in {leases, release(sup.key)}
       \/ /\ ~requested /\ lock = NoOne
          /\ sup.key \notin leases \/ ~restart_is_eligible(sup.key)
          /\ leases' = release(sup.key)
    /\ sup' = back
    /\ UNCHANGED <<inner, spent, due, lock, hand, outside>>

(* `held`: the process that exited was up for as long as the window. *)
run_restart_attempt ==
    LET key == sup.key IN
    /\ sup.at = "attempt" /\ ~requested /\ lock = NoOne
    /\ key \in leases /\ restart_is_eligible(key)
    /\ \E held \in {FALSE, sup.loop = "exits"} :
          LET used == IF held THEN 0 ELSE spent[key] IN
          /\ due' = IF held THEN [due EXCEPT ![key] = "no"] ELSE due
          /\ \/ /\ used < MaxAttempts
                /\ spent' = [spent EXCEPT ![key] = used + 1]
                /\ records' = restarting(key)
                /\ Begin("supervisor", restart_plan(key))
                /\ sup' = on(key, "bounce")
                /\ UNCHANGED leases
             \/ /\ used >= MaxAttempts
                /\ spent' = [spent EXCEPT ![key] = used]
                /\ leases' = release(key)
                /\ sup' = [on(key, "forget") EXCEPT !.fate = "failed"]
                /\ UNCHANGED <<records, lock, hand>>
    /\ UNCHANGED <<children, outside>>

Bounced ==
    LET key == sup.key
        again == ~requested /\ hand.started = <<>> /\ spent[key] < MaxAttempts
        gave_up == ~requested /\ hand.started = <<>> /\ spent[key] >= MaxAttempts
    IN /\ sup.at = "bounce" /\ End("supervisor")
       /\ leases' = release(key)
       /\ due' = IF again THEN [due EXCEPT ![key] = "waiting"]
                 ELSE IF ~requested /\ hand.started # <<>> THEN [due EXCEPT ![key] = "no"]
                 ELSE due
       /\ records' = IF again THEN restarting(key) ELSE records
       /\ sup' = IF gave_up THEN [on(key, "forget") EXCEPT !.fate = "failed"] ELSE back
       /\ UNCHANGED <<children, spent, outside>>

(* stop_with_dependents: forget the retries, take the container down as an   *)
(* operator would, then record why it went.                                  *)
forget_restarts ==
    /\ sup.at = "forget" /\ lock = NoOne
    /\ spent' = [spent EXCEPT ![sup.key] = 0]
    /\ due' = [due EXCEPT ![sup.key] = "no"]
    /\ leases' = leases \ {sup.key}
    /\ sup' = on(sup.key, "down")
    /\ UNCHANGED <<inner, lock, hand, outside>>

cascade ==
    /\ sup.at = "down" /\ Begin("supervisor", down_plan(sup.key))
    /\ operator_took_control(sup.key)
    /\ sup' = on(sup.key, "downing")
    /\ UNCHANGED <<inner, outside>>

Cascaded ==
    /\ sup.at = "downing" /\ End("supervisor")
    /\ sup' = on(sup.key, "mark")
    /\ UNCHANGED <<inner, restarts, outside>>

mark ==
    /\ sup.at = "mark"
    /\ \/ sup.loop = "recheck" /\ requested /\ sup' = gone /\ UNCHANGED records
       \/ /\ lock = NoOne /\ ~(sup.loop = "recheck" /\ requested)
          /\ records' = [records EXCEPT ![sup.key] = IF @ = "absent" THEN @ ELSE sup.fate]
          /\ sup' = back
    /\ UNCHANGED <<children, restarts, lock, hand, outside>>

Supervisor ==
    \/ supervise \/ wait_for_reregistration \/ reap \/ answer_exit \/ drive_restarts \/ answer_retry
    \/ claim_restart \/ AttemptDropped \/ run_restart_attempt \/ Bounced
    \/ forget_restarts \/ cascade \/ Cascaded \/ mark

(***************************************************************************)
(* The daemon's shutdown, and what happens to processes and time.           *)
(***************************************************************************)
cancel ==
    /\ shutdown = "no" /\ shutdown' = "cancelled"
    /\ UNCHANGED <<inner, restarts, lock, hand, sup, procs, left, downed>>

(* After the supervisor has returned. *)
ShutDown ==
    /\ shutdown = "cancelled" /\ sup.at = "gone" /\ Begin("shutdown", down_plan(Everything))
    /\ operator_took_control(Everything)
    /\ shutdown' = "down"
    /\ UNCHANGED <<inner, sup, procs, left, downed>>

ShutDownDone ==
    /\ \/ End("shutdown") /\ shutdown' = "cleared"
       \/ shutdown = "cleared" /\ shutdown' = "done" /\ UNCHANGED <<lock, hand>>
    /\ UNCHANGED <<inner, restarts, sup, procs, left, downed>>

Exit(c, how) ==
    /\ left.exits > 0 /\ left' = [left EXCEPT !.exits = @ - 1]
    /\ procs' = ended(c)
    /\ \/ /\ children[c] = "running" /\ children' = [children EXCEPT ![c] = how]
          /\ UNCHANGED hand
       \/ /\ hand.start[c] = "running" /\ hand' = [hand EXCEPT !.start[c] = how]
          /\ UNCHANGED children
    /\ UNCHANGED <<records, restarts, lock, sup, shutdown, downed>>

BackoffElapses(c) ==
    /\ due[c] = "waiting" /\ due' = [due EXCEPT ![c] = "now"]
    /\ UNCHANGED <<inner, spent, leases, lock, hand, sup, outside>>

Next ==
    \/ Lifecycle \/ Operator \/ Answered \/ CancelUp
    \/ Supervisor \/ reconcile_after_reconnect
    \/ cancel \/ ShutDown \/ ShutDownDone
    \/ \E c \in Containers : BackoffElapses(c) \/ \E how \in Exited : Exit(c, how)

Spec == Init /\ [][Next]_vars

(* Tasks run on, starts settle within their timeouts and clocks tick; nobody *)
(* has to ask for anything, cancel or exit.                                  *)
FairSpec ==
    /\ Spec
    /\ WF_vars(Lifecycle) /\ WF_vars(Answered) /\ WF_vars(Supervisor)
    /\ WF_vars(ShutDown \/ ShutDownDone)
    /\ \A c \in Containers : WF_vars(BackoffElapses(c))

-----------------------------------------------------------------------------
(* Every live process is one the project tracks: through its handle, or      *)
(* through the start in hand that spawned it.  A handle that is dropped or   *)
(* replaced does not kill its process, so every path out of a start, a stop  *)
(* and a rollback has to account for it, and none may start a second copy.   *)
OneTrackedProcess ==
    \A c \in Containers :
        /\ procs[c] <= 1
        /\ procs[c] = 1 <=> (children[c] = "running" \/ hand.start[c] = "running")

(* An `up` that fails or is cut short stops all it started, and leaves alone *)
(* what ran before it and it did not have to start again.                    *)
RollbackExact ==
    hand.op = "up" /\ hand.phase = "done" /\ (hand.failed \/ hand.cut) =>
        LET untouched == hand.before \ ToSet(hand.started)
        IN /\ \A c \in Containers : children[c] = "running" => c \in untouched
           /\ \A c \in untouched : children[c] # "none"

(* What an operator took down by name stays down until an operator starts    *)
(* it: no retry that was waiting, due or already claimed by the supervisor   *)
(* brings it back.                                                           *)
TargetStaysDown ==
    \A c \in Containers : downed[c] = "target" => children[c] = "none" /\ hand.start[c] = "no"

(* The same of what a `down` took along: the dependents it answers for.      *)
DependentsStayDown ==
    \A c \in Containers : downed[c] # "no" => children[c] = "none" /\ hand.start[c] = "no"

(* Once the shutdown is done no process is left and none is started, by an   *)
(* operation that was waiting for the lock or by the supervisor.             *)
QuietAfterShutdown == shutdown = "done" => \A c \in Containers : procs[c] = 0

(* A `down`, of an operator, of the supervisor's cascade or of the shutdown, *)
(* stops nothing that something still running depends on.                    *)
StopOrder ==
    [][\A c \in Containers :
          hand.op = "down" /\ children[c] = "running" /\ children'[c] = "none" =>
              \A d \in Containers : DependsOn(d, c) => children[d] # "running"]_vars

(* An exit is answered: the dead handle is replaced or removed.              *)
ExitIsAnswered == \A c \in Containers : children[c] \in Exited ~> children[c] \notin Exited
=============================================================================
