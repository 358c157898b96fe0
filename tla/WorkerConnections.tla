------------------------- MODULE WorkerConnections -------------------------
(***************************************************************************)
(* The life of a worker's WebSocket connection in the engine               *)
(* (src/engine/src/engine/mod.rs, worker_connections/mod.rs, and           *)
(* engine::workers::register in workers/engine_fn/mod.rs).                 *)
(*                                                                         *)
(* A connection registers functions into one namespace, which it announces *)
(* after it has connected.  Until then its registrations are buffered; a   *)
(* grace timer settles for the default namespace when no announcement      *)
(* comes.  Four tasks work on one connection at once: its read loop, the   *)
(* grace timer, the handler of its announcement and its teardown, which    *)
(* the read loop of a reconnected successor may run for it (Reattach).     *)
(* They share the owner map, the function registry and the worker          *)
(* registry, whose entries are locked one at a time.  An action is what a  *)
(* task does between two points where another task can get in.             *)
(*                                                                         *)
(* Left out: what a function does when it is called, services, trigger     *)
(* types, observers and channels of the connection, and the wire format.   *)
(***************************************************************************)
EXTENDS Naturals, Sequences

CONSTANTS
  Conn,        \* connection ids
  Fn,          \* function ids
  External,    \* the ids registered with an HTTP invocation
  Namespace,   \* the namespaces
  Default,     \* DEFAULT_NAMESPACE
  WorkerName,  \* the names a worker may announce
  Scenarios,   \* what the workers may send: a sequence for each connection
  NoOne        \* no connection

Request == [op : {"register", "registerInvalid", "unregister"}, f : Fn]
Message == Request \cup [op : {"announce"}, ns : Namespace, name : WorkerName]
                   \cup [op : {"reattach"}, previous : Conn]

ASSUME WorkerConnectionsAssumption ==
  /\ External \subseteq Fn
  /\ Default \in Namespace
  /\ NoOne \notin Conn
  /\ Scenarios \subseteq [Conn -> Seq(Message)]

VARIABLES
  registered,  \* worker_registry.workers
  meta,        \* per connection: the name and namespace in its registry entry
  nsState,     \* namespace_states
  timer,       \* per connection: its grace timer task
  announce,    \* per connection: the engine::workers::register task
  reader,      \* per connection: where its read loop is
  frame,       \* per connection: the registration the read loop has taken
  previous,    \* per connection: the one it is retiring
  evict,       \* per connection: a permit is stored in `evict`
  job,         \* per connection and task: the registration being dispatched
  cleanup,     \* per connection: where its teardown is
  owners,      \* function_owners
  functions,   \* the function registry: whose handler serves a function
  leases,      \* worker_name_owners
  ids,         \* per connection: function_ids and external_function_ids
  arrived,     \* history: the messages that arrived, in order
  raced        \* history: teardown or an abort met a registration in flight

connVars == <<registered, meta, nsState, timer, announce>>
loopVars == <<reader, frame, previous, evict>>
fnVars   == <<owners, functions, ids>>
vars == <<connVars, loopVars, fnVars, job, cleanup, leases, arrived, raced>>

Idle    == [op |-> "none"]
NoMeta  == [name |-> NoOne, ns |-> Default]
Unknown == [at |-> "Unknown", ns |-> Default, queue |-> <<>>]

Dispatchers == {"reader", "timer", "announce"}
Keys == Namespace \X Fn

Init ==
  /\ registered = {}
  /\ meta = [c \in Conn |-> NoMeta]
  /\ nsState = [c \in Conn |-> Unknown]
  /\ timer = [c \in Conn |-> "off"]
  /\ announce = [c \in Conn |-> [at |-> "no", ns |-> Default, name |-> NoOne]]
  /\ reader = [c \in Conn |-> "new"]
  /\ frame = [c \in Conn |-> Idle]
  /\ previous = [c \in Conn |-> NoOne]
  /\ evict = [c \in Conn |-> FALSE]
  /\ job = [t \in Conn \X Dispatchers |-> Idle]
  /\ cleanup = [c \in Conn |-> [at |-> "no", todo |-> {}, lease |-> NoOne]]
  /\ owners = [k \in Keys |-> NoOne]
  /\ functions = [k \in Keys |-> NoOne]
  /\ leases = [k \in Namespace \X WorkerName |-> NoOne]
  /\ ids = [c \in Conn |-> {}]
  /\ arrived = [c \in Conn |-> <<>>]
  /\ raced = [c \in Conn |-> FALSE]

-----------------------------------------------------------------------------
IsPrefix(p, s) == Len(p) <= Len(s) /\ SubSeq(s, 1, Len(p)) = p

(* What the engine reads of a connection. *)

\* The namespace has been settled, for good.
Fixed(c) == nsState[c].at \in {"Draining", "Resolved", "Aborted"}

\* connection_namespace: default while pending, and again once forgotten.
ConnectionNamespace(c) == IF Fixed(c) THEN nsState[c].ns ELSE Default

\* is_connection_tearing_down.
TearingDown(c) == nsState[c].at = "Aborted"

\* What a claim takes for live: still listed and not tearing down.
Live(c) == c \in registered /\ ~TearingDown(c)

\* Faulty variant: the last claim wins.
MayClaimAlways(c, holder) == c # NoOne

\* claim_in and claim_worker_name: a lease is free for c unless another live
\* connection holds it.
MayClaim(c, holder) == holder \in {c, NoOne} \/ ~Live(holder)

-----------------------------------------------------------------------------
(* The read loop. *)

\* handle_worker up to its loop: list the connection, start buffering, arm
\* the grace timer.
Connect(c) ==
  /\ reader[c] = "new"
  /\ registered' = registered \cup {c}
  /\ nsState' = [nsState EXCEPT ![c] = [at |-> "Pending", ns |-> Default, queue |-> <<>>]]
  /\ timer' = [timer EXCEPT ![c] = "armed"]
  /\ reader' = [reader EXCEPT ![c] = "open"]
  /\ UNCHANGED <<meta, announce, frame, previous, evict, fnVars, job, cleanup, leases, arrived, raced>>

Reading(c) == reader[c] = "open" /\ frame[c] = Idle /\ job[<<c, "reader">>] = Idle

\* Message m is read from the socket, which the loop looks at only when no
\* eviction is waiting (biased).
Reads(c, m) ==
  /\ Reading(c)
  /\ ~evict[c]
  /\ arrived' = [arrived EXCEPT ![c] = Append(@, m)]
  /\ \E s \in Scenarios : \A d \in Conn : IsPrefix(arrived'[d], s[d])

\* A registration.
Receive(c, m) ==
  /\ Reads(c, m)
  /\ frame' = [frame EXCEPT ![c] = m]
  /\ UNCHANGED <<connVars, reader, previous, evict, fnVars, job, cleanup, leases, raced>>

\* Faulty variant: an arrival during the drain is dispatched at once.
RouteOvertakes(c) ==
  /\ frame[c] # Idle
  /\ frame' = [frame EXCEPT ![c] = Idle]
  /\ IF nsState[c].at = "Pending"
       THEN /\ nsState' = [nsState EXCEPT ![c].queue = Append(@, frame[c])]
            /\ UNCHANGED job
       ELSE /\ job' = [job EXCEPT ![<<c, "reader">>] = [op |-> frame[c].op, f |-> frame[c].f, at |-> "begin"]]
            /\ UNCHANGED nsState
  /\ UNCHANGED <<registered, meta, timer, announce, reader, previous, evict, fnVars, cleanup, leases, arrived, raced>>

\* router_msg_owned with buffer_until_namespace_known: queue the registration,
\* swallow it during teardown, or dispatch it at once.
Route(c) ==
  /\ frame[c] # Idle
  /\ frame' = [frame EXCEPT ![c] = Idle]
  /\ \/ /\ nsState[c].at \in {"Pending", "Draining"}
        /\ nsState' = [nsState EXCEPT ![c].queue = Append(@, frame[c])]
        /\ UNCHANGED job
     \/ /\ nsState[c].at = "Aborted"
        /\ UNCHANGED <<nsState, job>>
     \/ /\ nsState[c].at \in {"Resolved", "Unknown"}
        /\ job' = [job EXCEPT ![<<c, "reader">>] = [op |-> frame[c].op, f |-> frame[c].f, at |-> "begin"]]
        /\ UNCHANGED nsState
  /\ UNCHANGED <<registered, meta, timer, announce, reader, previous, evict, fnVars, cleanup, leases, arrived, raced>>

\* The call to engine::workers::register: its handler is spawned.
Announce(c, m) ==
  /\ Reads(c, m)
  /\ announce[c].at = "no"
  /\ announce' = [announce EXCEPT ![c] = [at |-> "sent", ns |-> m.ns, name |-> m.name]]
  /\ UNCHANGED <<registered, meta, nsState, timer, loopVars, fnVars, job, cleanup, leases, raced>>

\* The loop ends: evicted, closed by the peer, or shut down.  Its exit path
\* calls cleanup_worker, which runs once and which every caller waits for.
StartCleanup(c) ==
  cleanup' = [cleanup EXCEPT ![c].at = IF @ = "no" THEN "abort" ELSE @]

EndLoop(c) ==
  /\ Reading(c)
  /\ reader' = [reader EXCEPT ![c] = "closed"]
  /\ evict' = [evict EXCEPT ![c] = FALSE]
  /\ StartCleanup(c)
  /\ UNCHANGED <<connVars, frame, previous, fnVars, job, leases, arrived, raced>>

-----------------------------------------------------------------------------
(* Reattach, the first message of a reconnect: retire the old connection. *)

\* A token that does not match is like no message.  Nothing to do when the
\* old connection is gone; else evict it and wait for its teardown.
Reattach(c, m) ==
  /\ Reads(c, m)
  /\ IF m.previous \in registered \ {c}
       THEN /\ reader' = [reader EXCEPT ![c] = "evicting"]
            /\ previous' = [previous EXCEPT ![c] = m.previous]
            /\ evict' = [evict EXCEPT ![m.previous] = TRUE]
       ELSE UNCHANGED <<reader, previous, evict>>
  /\ UNCHANGED <<connVars, frame, fnVars, job, cleanup, leases, raced>>

\* REATTACH_EVICT_TIMEOUT: the old reader is stuck in a message, so the new
\* one calls the old connection's cleanup_worker itself.
RetireTimeout(c) ==
  /\ reader[c] = "evicting"
  /\ reader' = [reader EXCEPT ![c] = "retiring"]
  /\ StartCleanup(previous[c])
  /\ UNCHANGED <<connVars, frame, previous, evict, fnVars, job, leases, arrived, raced>>

Retired(c) ==
  /\ reader[c] \in {"evicting", "retiring"}
  /\ cleanup[previous[c]].at = "done"
  /\ reader' = [reader EXCEPT ![c] = "open"]
  /\ previous' = [previous EXCEPT ![c] = NoOne]
  /\ UNCHANGED <<connVars, frame, evict, fnVars, job, cleanup, leases, arrived, raced>>

-----------------------------------------------------------------------------
(* Resolving the namespace. *)

\* resolve_connection_namespace, its atomic first half: the one caller that
\* finds the connection pending fixes the namespace and gets to drain.
ToDraining(c, ns) == [at |-> "Draining", ns |-> ns, queue |-> nsState[c].queue]

WinsResolution(c) == nsState[c].at = "Pending"

\* The grace period ends.
GraceExpires(c) ==
  /\ timer[c] = "armed"
  /\ IF WinsResolution(c)
       THEN /\ nsState' = [nsState EXCEPT ![c] = ToDraining(c, Default)]
            /\ timer' = [timer EXCEPT ![c] = "draining"]
       ELSE /\ timer' = [timer EXCEPT ![c] = "off"]
            /\ UNCHANGED nsState
  /\ UNCHANGED <<registered, meta, announce, loopVars, fnVars, job, cleanup, leases, arrived, raced>>

\* cancel_namespace_grace_timer: drops a sleeping timer task; one that is
\* draining goes on until it next waits.
Cancelled(state) == CASE state = "armed" -> "off"
                      [] state = "draining" -> "aborting"
                      [] OTHER -> state

\* engine::workers::register, first part: the declared namespace, or the one
\* already fixed if the announcement is late, then claim_worker_name.  The
\* loser's timer is cancelled and it is told to close.
AnnounceOver == [at |-> "over", ns |-> Default, name |-> NoOne]

ClaimName(c) ==
  LET ns == IF Fixed(c) THEN nsState[c].ns ELSE announce[c].ns
      k  == <<ns, announce[c].name>> IN
  /\ announce[c].at = "sent"
  /\ IF MayClaim(c, leases[k])
       THEN /\ leases' = [leases EXCEPT ![k] = c]
            /\ announce' = [announce EXCEPT ![c].at = "resolve", ![c].ns = ns]
            /\ UNCHANGED timer
       ELSE /\ announce' = [announce EXCEPT ![c] = AnnounceOver]
            /\ timer' = [timer EXCEPT ![c] = Cancelled(@)]
            /\ UNCHANGED leases
  /\ UNCHANGED <<registered, meta, nsState, loopVars, fnVars, job, cleanup, arrived, raced>>

\* Second part: register_worker_metadata into the registry entry, then resolve
\* the namespace, unless the connection is gone or the timer was faster.
Resolve(c) ==
  /\ announce[c].at = "resolve"
  /\ IF c \in registered
       THEN /\ meta' = [meta EXCEPT ![c] = [name |-> announce[c].name, ns |-> announce[c].ns]]
            /\ announce' = [announce EXCEPT ![c].at = IF WinsResolution(c) THEN "draining" ELSE "cancel"]
            /\ nsState' = [nsState EXCEPT ![c] = IF WinsResolution(c) THEN ToDraining(c, announce[c].ns) ELSE @]
       ELSE /\ announce' = [announce EXCEPT ![c] = AnnounceOver]
            /\ UNCHANGED <<meta, nsState>>
  /\ UNCHANGED <<registered, timer, loopVars, fnVars, job, cleanup, leases, arrived, raced>>

CancelTimer(c) ==
  /\ announce[c].at = "cancel"
  /\ announce' = [announce EXCEPT ![c] = AnnounceOver]
  /\ timer' = [timer EXCEPT ![c] = Cancelled(@)]
  /\ UNCHANGED <<registered, meta, nsState, loopVars, fnVars, job, cleanup, leases, arrived, raced>>

Drains(c, d) == \/ d = "timer" /\ timer[c] \in {"draining", "aborting"}
                \/ d = "announce" /\ announce[c].at = "draining"

\* The drain loop: take the next registration off the queue ...
DrainNext(c, d) ==
  /\ Drains(c, d)
  /\ job[<<c, d>>] = Idle
  /\ nsState[c].at = "Draining" /\ nsState[c].queue # <<>>
  /\ job' = [job EXCEPT ![<<c, d>>] = [op |-> Head(nsState[c].queue).op,
                                   f |-> Head(nsState[c].queue).f, at |-> "begin"]]
  /\ nsState' = [nsState EXCEPT ![c].queue = Tail(@)]
  /\ UNCHANGED <<registered, meta, timer, announce, loopVars, fnVars, cleanup, leases, arrived, raced>>

\* ... and stop at the end of it, publishing Resolved, or at a teardown.
DrainEnds(c, d) ==
  /\ Drains(c, d)
  /\ job[<<c, d>>] = Idle
  /\ nsState[c].at = "Draining" => nsState[c].queue = <<>>
  /\ nsState' = [nsState EXCEPT ![c].at = IF @ = "Draining" THEN "Resolved" ELSE @]
  /\ IF d = "timer"
       THEN /\ timer' = [timer EXCEPT ![c] = "off"]
            /\ UNCHANGED announce
       ELSE /\ announce' = [announce EXCEPT ![c].at = "cancel"]
            /\ UNCHANGED timer
  /\ UNCHANGED <<registered, meta, loopVars, fnVars, job, cleanup, leases, arrived, raced>>

\* An aborted timer task is dropped at an await of the dispatch it is in: the
\* registration hook, the URL check, or the lock of the connection's ids.
Awaits(j) == j # Idle /\ (j.at \in {"begin", "note"} \/ (j.at = "write" /\ j.f \in External))

TimerDropped(c) ==
  /\ timer[c] = "aborting"
  /\ Awaits(job[<<c, "timer">>])
  /\ timer' = [timer EXCEPT ![c] = "off"]
  /\ job' = [job EXCEPT ![<<c, "timer">>] = Idle]
  /\ raced' = [raced EXCEPT ![c] = TRUE]
  /\ UNCHANGED <<registered, meta, nsState, announce, loopVars, fnVars, cleanup, leases, arrived>>

-----------------------------------------------------------------------------
(* Dispatching RegisterFunction and UnregisterFunction: task d of c. *)

Goto(c, d, at, ns) == job' = [job EXCEPT ![<<c, d>>] = [op |-> @.op, f |-> @.f, at |-> at, ns |-> ns]]
Finish(c, d) == job' = [job EXCEPT ![<<c, d>>] = Idle]
Doing(c, d, at) == job[<<c, d>>] # Idle /\ job[<<c, d>>].at = at
KeyOf(c, d) == <<job[<<c, d>>].ns, job[<<c, d>>].f>>

\* RegisterFunction, once its hook has answered: read the namespace ...
BeginRegister(c, d) ==
  /\ Doing(c, d, "begin")
  /\ job[<<c, d>>].op \in {"register", "registerInvalid"}
  /\ Goto(c, d, "claim", ConnectionNamespace(c))
  /\ UNCHANGED <<connVars, loopVars, fnVars, cleanup, leases, arrived, raced>>

\* ... and claim_in, under the lock of the owner entry; a refused claim ends
\* the registration.
ClaimFunction(c, d) ==
  LET k == KeyOf(c, d) IN
  /\ Doing(c, d, "claim")
  /\ IF MayClaim(c, owners[k])
       THEN /\ owners' = [owners EXCEPT ![k] = c]
            /\ Goto(c, d, "write", k[1])
       ELSE /\ Finish(c, d)
            /\ UNCHANGED owners
  /\ UNCHANGED <<connVars, loopVars, functions, ids, cleanup, leases, arrived, raced>>

\* register_function_ns or register_http_function.  An invocation whose URL
\* is refused releases the claim instead.
WriteFunction(c, d) ==
  LET k == KeyOf(c, d) IN
  /\ Doing(c, d, "write")
  /\ IF job[<<c, d>>].op = "registerInvalid" /\ job[<<c, d>>].f \in External
       THEN /\ owners' = [owners EXCEPT ![k] = IF @ = c THEN NoOne ELSE @]
            /\ Finish(c, d)
            /\ UNCHANGED functions
       ELSE /\ functions' = [functions EXCEPT ![k] = c]
            /\ Goto(c, d, "note", k[1])
            /\ UNCHANGED owners
  /\ UNCHANGED <<connVars, loopVars, ids, cleanup, leases, arrived, raced>>

\* include_function_id: what the teardown will know to release.
NoteFunction(c, d) ==
  /\ Doing(c, d, "note")
  /\ ids' = [ids EXCEPT ![c] = @ \cup {job[<<c, d>>].f}]
  /\ Finish(c, d)
  /\ UNCHANGED <<connVars, loopVars, owners, functions, cleanup, leases, arrived, raced>>

\* UnregisterFunction: read the namespace, forget the id.
BeginUnregister(c, d) ==
  /\ Doing(c, d, "begin")
  /\ job[<<c, d>>].op = "unregister"
  /\ ids' = [ids EXCEPT ![c] = @ \ {job[<<c, d>>].f}]
  /\ job' = [job EXCEPT ![<<c, d>>] = [op |-> IF @.f \in External /\ @.f \in ids[c] THEN "external" ELSE "regular",
                                   f |-> @.f, at |-> "release", ns |-> ConnectionNamespace(c)]]
  /\ UNCHANGED <<connVars, loopVars, owners, functions, cleanup, leases, arrived, raced>>

\* release_function_if_owner removes the function and the lease under the
\* lock of the owner entry; remove_external_function_if_owner keeps the lease.
ReleaseFunction(c, d) ==
  LET k == KeyOf(c, d) IN
  /\ Doing(c, d, "release")
  /\ IF owners[k] = c
       THEN /\ functions' = [functions EXCEPT ![k] = NoOne]
            /\ IF job[<<c, d>>].op = "external"
                 THEN /\ Goto(c, d, "drop", k[1])
                      /\ UNCHANGED owners
                 ELSE /\ Finish(c, d)
                      /\ owners' = [owners EXCEPT ![k] = NoOne]
       ELSE /\ Finish(c, d)
            /\ UNCHANGED <<owners, functions>>
  /\ UNCHANGED <<connVars, loopVars, ids, cleanup, leases, arrived, raced>>

\* release_external_function_if_owner.
DropLease(c, d) ==
  LET k == KeyOf(c, d) IN
  /\ Doing(c, d, "drop")
  /\ owners' = [owners EXCEPT ![k] = IF @ = c THEN NoOne ELSE @]
  /\ Finish(c, d)
  /\ UNCHANGED <<connVars, loopVars, functions, ids, cleanup, leases, arrived, raced>>

Dispatch(c, d) ==
  \/ BeginRegister(c, d) \/ ClaimFunction(c, d) \/ WriteFunction(c, d) \/ NoteFunction(c, d)
  \/ BeginUnregister(c, d) \/ ReleaseFunction(c, d) \/ DropLease(c, d)

-----------------------------------------------------------------------------
(* cleanup_worker, by whoever claimed it. *)

InFlight(c) == frame[c] # Idle \/ \E d \in Dispatchers : job[<<c, d>>] # Idle

Step(c, at) == cleanup' = [cleanup EXCEPT ![c].at = at]

\* Faulty variant: the drain is not told of the teardown.
AbortNothing(c) ==
  /\ cleanup[c].at = "abort"
  /\ raced' = [raced EXCEPT ![c] = @ \/ InFlight(c)]
  /\ Step(c, "snapshot")
  /\ UNCHANGED <<connVars, loopVars, fnVars, job, leases, arrived>>

\* abort_namespace_resolution: the queue is dropped, a drain stops at its
\* next message.
AbortResolution(c) ==
  /\ cleanup[c].at = "abort"
  /\ nsState' = [nsState EXCEPT ![c] = [at |-> "Aborted", ns |-> ConnectionNamespace(c), queue |-> <<>>]]
  /\ raced' = [raced EXCEPT ![c] = @ \/ InFlight(c)]
  /\ Step(c, "snapshot")
  /\ UNCHANGED <<registered, meta, timer, announce, loopVars, fnVars, job, leases, arrived>>

\* get_regular_function_ids ...
Snapshot(c) ==
  /\ cleanup[c].at = "snapshot"
  /\ cleanup' = [cleanup EXCEPT ![c] = [at |-> "snapshotExternal", todo |-> ids[c] \ External, lease |-> NoOne]]
  /\ UNCHANGED <<connVars, loopVars, fnVars, job, leases, arrived, raced>>

\* ... and, after another wait for the connection's ids,
\* get_external_function_ids.
SnapshotExternal(c) ==
  /\ cleanup[c].at = "snapshotExternal"
  /\ cleanup' = [cleanup EXCEPT ![c].at = "release", ![c].todo = @ \cup (ids[c] \cap External)]
  /\ UNCHANGED <<connVars, loopVars, fnVars, job, leases, arrived, raced>>

\* Faulty variant: the owner is not checked.
ReleaseUnchecked(c, f) ==
  LET k == <<ConnectionNamespace(c), f>> IN
  /\ cleanup[c].at = "release"
  /\ f \in cleanup[c].todo
  /\ functions' = [functions EXCEPT ![k] = NoOne]
  /\ cleanup' = [cleanup EXCEPT ![c].todo = @ \ {f}]
  /\ owners' = [owners EXCEPT ![k] = IF @ = c THEN NoOne ELSE @]
  /\ UNCHANGED <<connVars, loopVars, ids, job, leases, arrived, raced>>

\* One function of the snapshot: the regular ones first.  An external one
\* keeps its lease for one more step.
CleanupRelease(c, f) ==
  LET k == <<ConnectionNamespace(c), f>> IN
  /\ cleanup[c].at = "release"
  /\ f \in cleanup[c].todo
  /\ f \in External => cleanup[c].todo \subseteq External
  /\ functions' = [functions EXCEPT ![k] = IF owners[k] = c THEN NoOne ELSE @]
  /\ IF f \in External /\ owners[k] = c
       THEN /\ cleanup' = [cleanup EXCEPT ![c] = [at |-> "external", todo |-> @.todo \ {f}, lease |-> k]]
            /\ UNCHANGED owners
       ELSE /\ cleanup' = [cleanup EXCEPT ![c].todo = @ \ {f}]
            /\ owners' = [owners EXCEPT ![k] = IF @ = c THEN NoOne ELSE @]
  /\ UNCHANGED <<connVars, loopVars, ids, job, leases, arrived, raced>>

\* The CAS release of the lease of the external function just removed.
CleanupDropLease(c) ==
  /\ cleanup[c].at = "external"
  /\ owners' = [owners EXCEPT ![cleanup[c].lease] = IF @ = c THEN NoOne ELSE @]
  /\ cleanup' = [cleanup EXCEPT ![c].at = "release", ![c].lease = NoOne]
  /\ UNCHANGED <<connVars, loopVars, functions, ids, job, leases, arrived, raced>>

\* release_worker_name_if_owner, for the name in the registry entry.
CleanupName(c) ==
  LET k == <<ConnectionNamespace(c), meta[c].name>> IN
  /\ cleanup[c].at = "release"
  /\ cleanup[c].todo = {}
  /\ leases' = IF meta[c].name # NoOne /\ leases[k] = c
                 THEN [leases EXCEPT ![k] = NoOne] ELSE leases
  /\ Step(c, "unregister")
  /\ UNCHANGED <<connVars, loopVars, fnVars, job, arrived, raced>>

\* worker_registry.unregister_worker: the entry goes with its metadata.
CleanupUnregister(c) ==
  /\ cleanup[c].at = "unregister"
  /\ registered' = registered \ {c}
  /\ meta' = [meta EXCEPT ![c] = NoMeta]
  /\ Step(c, "forget")
  /\ UNCHANGED <<nsState, timer, announce, loopVars, fnVars, job, leases, arrived, raced>>

\* Faulty variant: completion is not signalled.
ForgetSilently(c) ==
  /\ cleanup[c].at = "forget"
  /\ nsState[c] # Unknown
  /\ timer' = [timer EXCEPT ![c] = Cancelled(@)]
  /\ nsState' = [nsState EXCEPT ![c] = Unknown]
  /\ UNCHANGED <<registered, meta, announce, loopVars, fnVars, job, cleanup, leases, arrived, raced>>

\* Cancel the timer, drop the namespace state and signal cleanup_done.  The
\* state goes last: the steps before it, and the claims of others, read it.
CleanupForget(c) ==
  /\ cleanup[c].at = "forget"
  /\ timer' = [timer EXCEPT ![c] = Cancelled(@)]
  /\ nsState' = [nsState EXCEPT ![c] = Unknown]
  /\ Step(c, "done")
  /\ UNCHANGED <<registered, meta, announce, loopVars, fnVars, job, leases, arrived, raced>>

Cleanup(c) ==
  \/ AbortResolution(c) \/ Snapshot(c) \/ SnapshotExternal(c)
  \/ (\E f \in Fn : CleanupRelease(c, f)) \/ CleanupDropLease(c)
  \/ CleanupName(c) \/ CleanupUnregister(c) \/ CleanupForget(c)

-----------------------------------------------------------------------------

ReadLoop(c) ==
  \/ Connect(c) \/ Route(c) \/ EndLoop(c)
  \/ \E m \in Request : Receive(c, m)
  \/ \E m \in Message \ Request :
       \/ m.op = "announce" /\ Announce(c, m)
       \/ m.op = "reattach" /\ Reattach(c, m)
  \/ RetireTimeout(c) \/ Retired(c)

Resolution(c) ==
  \/ GraceExpires(c) \/ ClaimName(c) \/ Resolve(c) \/ CancelTimer(c)
  \/ \E d \in {"timer", "announce"} : DrainNext(c, d) \/ DrainEnds(c, d)
  \/ TimerDropped(c)

Next == \E c \in Conn :
  \/ ReadLoop(c) \/ Resolution(c) \/ Cleanup(c)
  \/ \E d \in Dispatchers : Dispatch(c, d)

Spec == Init /\ [][Next]_vars

\* A task the runtime has started keeps running, and a sleep or a timeout
\* ends.  Nothing makes a worker connect, send or close.
Fairness == \A c \in Conn :
  /\ WF_vars(Route(c)) /\ WF_vars(evict[c] /\ EndLoop(c))
  /\ WF_vars(RetireTimeout(c)) /\ WF_vars(Retired(c))
  /\ WF_vars(Resolution(c)) /\ WF_vars(Cleanup(c))
  /\ \A d \in Dispatchers : WF_vars(Dispatch(c, d))

FairSpec == Spec /\ Fairness

-----------------------------------------------------------------------------
(* Properties. *)

\* Nothing of the connection is on its way through the engine.
Settled(c) == Live(c) /\ nsState[c].at = "Resolved" /\ ~InFlight(c)

About(c, f) == {i \in 1..Len(arrived[c]) : arrived[c][i] \in Request /\ arrived[c][i].f = f}

\* An HTTP registration of f by c was, or will be, refused for its URL.  The
\* refusal gives up the claim on f, also that of an earlier registration of
\* the same function, which stays in the registry: WriteFunction.
Refused(c, f) == f \in External /\ \E i \in About(c, f) : arrived[c][i].op = "registerInvalid"

\* Arrival order: whatever mix of buffering, draining and direct dispatch its
\* registrations went through, a settled connection does not serve a function
\* whose last message was its UnregisterFunction.
LastWordWins == \A c \in Conn, f \in Fn :
  /\ Settled(c) /\ ~Refused(c, f)
  /\ \E i \in About(c, f) : /\ \A j \in About(c, f) : j <= i
                            /\ arrived[c][i].op = "unregister"
  => f \notin ids[c] /\ \A ns \in Namespace : functions[<<ns, f>>] # c

\* Two live connections of one namespace never both count a function as
\* theirs: a claim goes through only over a connection that is going away.
OneServer == \A c, d \in Conn, f \in Fn :
  /\ c # d /\ Live(c) /\ Live(d)
  /\ f \in ids[c] \cap ids[d] /\ ~Refused(c, f) /\ ~Refused(d, f)
  => ConnectionNamespace(c) # ConnectionNamespace(d)

\* Teardown releases only what its connection still owns: what a live
\* connection counts as its own is never taken out of the registry, nor its
\* lease given away, by the late teardown of the one it took over from.
SuccessorKept == \A c \in Conn, f \in Fn :
  LET k == <<ConnectionNamespace(c), f>> IN
  Live(c) /\ f \in ids[c] /\ ~Refused(c, f) => owners[k] = c /\ functions[k] # NoOne

\* Once a teardown has completed its connection holds no lease; and, as long
\* as no teardown met a registration in flight, a handler of it is left only
\* where a successor has claimed the function and is about to write its own.
CleanSlate == \A c \in Conn : cleanup[c].at = "done" /\ ~raced[c] =>
  \A k \in Keys :
    /\ owners[k] # c
    /\ functions[k] = c /\ (\A d \in Conn : ~raced[d] /\ ~Refused(d, k[2])) => owners[k] # NoOne

\* Retiring the previous connection always returns, whatever its reader is
\* doing and whoever else is tearing it down.
ReattachReturns == \A c \in Conn : reader[c] = "evicting" ~> reader[c] = "open"

====
