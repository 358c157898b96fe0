--------------------------- MODULE TriggersProofs ---------------------------
(***************************************************************************)
(* What the trigger registry promises for one binding, proved for every set *)
(* of providers, owners and tasks and any number of registrations,          *)
(* removals, announcements, failures and dropped callers.                   *)
(***************************************************************************)
EXTENDS Triggers, TLAPS

(***************************************************************************)
(* The inductive invariant.                                                 *)
(***************************************************************************)
Fields(t) == [pc |-> t.pc, then |-> t.then, w |-> t.w, b |-> t.b, p |-> t.p, tok |-> t.tok,
              src |-> t.src, srcp |-> t.srcp, call |-> t.call, res |-> t.res, fix |-> t.fix,
              before |-> t.before]
(* Where a task may hold the claim of the id. *)
Claiming == {"activated", "removed", "detached", "rehomed", "failover", "moved"}

(* A task is a record of these fields, and knows what its next step uses. *)
IsTask(t) ==
    /\ t = Fields(t)
    /\ t.tok \in Nat
    /\ t.then \in {"idle", "rehome", "types"}
    /\ t.pc \in {"park", "recheck", "bound", "parked", "lookup", "claim"} => t.b \in Binding
    /\ t.pc \in {"match", "drain"} => t.w \in Worker

RegistryTyped ==
    /\ live \in Binding \cup {None} /\ pending \in Binding \cup {None}
    /\ flight \in Claim \cup {None} /\ tokens \in Nat
    /\ wanted \in [ver : Nat, on : BOOLEAN] /\ vers \in Nat
TasksTyped == DOMAIN task = Task /\ \A k \in Task : IsTask(task[k])
Typed == RegistryTyped /\ TasksTyped

(* A token is given once: only one task can be the holder of the claim. *)
Tokens ==
    /\ \A k \in Task : task[k].tok <= tokens
    /\ \A i, k \in Task : task[i].tok = task[k].tok /\ task[i].tok # 0 => i = k
    /\ flight # None => \E k \in Task : task[k].tok = flight.token

(* The holder of the claim is where it will give it up, and carries the      *)
(* newest registration; while it detaches, the binding is still in force.    *)
Holds(t) ==
    /\ t.pc \in Claiming /\ t.b \in Binding
    /\ flight.removing <=> t.pc = "removed"
    /\ t.pc # "removed" => t.b.ver = wanted.ver
    /\ t.pc = "detached" => live # None
Holders == \A k \in Task : ours(task[k]) => Holds(task[k])

(* A binding that is moving is not parked meanwhile; one that is being        *)
(* removed is still where it was, unless its owner is gone.                   *)
Moving ==
    flight # None /\ ~flight.removing =>
        pending = None /\ wanted.on /\ flight.target.ver = wanted.ver
Removing ==
    flight # None /\ flight.removing =>
        /\ wanted.on => live # None \/ pending # None
        /\ \A b \in {live, pending} : b # None => b.owner = flight.target.owner

Registry == Moving /\ Removing /\ OneBucket /\ NotLost /\ NewestWins
IInv == Typed /\ Tokens /\ Holders /\ Registry

USE TriggersAssumption

\* The invariant holds at first.
LEMMA Initially == Init => IInv
<1> SUFFICES ASSUME Init PROVE IInv
  OBVIOUS
<1> USE DEF Init
<1>1. Idle = Fields(Idle) /\ Idle.tok = 0 /\ Idle.then = "idle" /\ Idle.pc = "idle"
  BY DEF Idle, Fields
<1>2. \A k \in Task : task[k] = Idle
  OBVIOUS
<1>3. Typed
  BY <1>1, <1>2 DEF Typed, RegistryTyped, TasksTyped, IsTask
<1>4. Tokens /\ Holders
  BY <1>1, <1>2 DEF Tokens, Holders, ours
<1>5. Registry
  BY DEF Registry, Moving, Removing, OneBucket, NotLost, NewestWins
<1> QED BY <1>3, <1>4, <1>5 DEF IInv

(***************************************************************************)
(* Tasks: where the helpers leave a task and what it still carries.         *)
(***************************************************************************)
Carries(n, t) == n = Fields(n) /\ n.tok = t.tok /\ n.b = t.b /\ n.w = t.w

\* A task that does nothing holds no claim.
LEMMA IdleTask ==
    /\ Idle = Fields(Idle) /\ IsTask(Idle) /\ Idle.tok = 0 /\ Idle.pc = "idle" /\ Idle.then = "idle"
BY DEF Idle, Fields, IsTask

\* A task that proceeds carries its claim and its binding on.
LEMMA Proceeds ==
    ASSUME NEW t, t = Fields(t), NEW pc
    PROVE  /\ Carries(proceed(t, pc), t)
           /\ proceed(t, pc).pc = pc /\ proceed(t, pc).then = t.then
<1> DEFINE n == [t EXCEPT !.pc = pc, !.call = None, !.res = "ok"]
<1>1. n = [t EXCEPT !.pc = pc, !.call = None, !.res = "ok"]
  OBVIOUS
<1> HIDE DEF n
<1>2. n = Fields(n)
  BY <1>1 DEF Fields
<1>3. n.tok = t.tok /\ n.b = t.b /\ n.w = t.w /\ n.pc = pc /\ n.then = t.then
  BY <1>1 DEF Fields
<1> QED BY <1>2, <1>3 DEF proceed, Carries, n

\* So does one that waits for a provider.
LEMMA Awaits ==
    ASSUME NEW t, t = Fields(t), NEW pc, NEW kind, NEW p, NEW b
    PROVE  /\ Carries(awaiting(t, pc, kind, p, b), t)
           /\ awaiting(t, pc, kind, p, b).pc = pc /\ awaiting(t, pc, kind, p, b).then = t.then
<1>1. CASE p = None
  BY <1>1, Proceeds DEF awaiting
<1>2. CASE p # None
  BY <1>2 DEF Fields, awaiting, Carries
<1> QED BY <1>1, <1>2

\* A task that ends has something to come back to, or nothing to do.
LEMMA Finishes ==
    ASSUME NEW t, t = Fields(t)
    PROVE  \/ finish(t) = Idle
           \/ Carries(finish(t), t) /\ finish(t).pc = t.then /\ finish(t).then = "idle"
<1> DEFINE n == proceed(t, t.then)
<1>1. n = Fields(n) /\ n.tok = t.tok /\ n.b = t.b /\ n.w = t.w /\ n.pc = t.then
  BY Proceeds DEF Carries
<1> HIDE DEF n
<1>2. LET m == [n EXCEPT !.then = "idle"]
      IN  m = Fields(m) /\ m.tok = n.tok /\ m.b = n.b /\ m.w = n.w /\ m.pc = n.pc /\ m.then = "idle"
  BY <1>1 DEF Fields
<1> QED BY <1>1, <1>2 DEF finish, n, Carries

\* A task that settles comes back to where it was.
LEMMA Settles ==
    ASSUME NEW t, t = Fields(t), NEW pairs
    PROVE  \/ settle(t, pairs) = Idle
           \/ /\ Carries(settle(t, pairs), t)
              /\ settle(t, pairs).pc \in {t.then, "settle"} /\ settle(t, pairs).then \in {"idle", t.then}
<1>1. CASE pairs = <<>>
  BY <1>1, Finishes DEF settle
<1>2. CASE pairs # <<>>
  <2> DEFINE n == proceed(t, "settle")
  <2>1. n = Fields(n) /\ n.tok = t.tok /\ n.b = t.b /\ n.w = t.w /\ n.pc = "settle" /\ n.then = t.then
    BY Proceeds DEF Carries
  <2> HIDE DEF n
  <2>2. LET m == [n EXCEPT !.fix = pairs]
        IN  m = Fields(m) /\ m.tok = n.tok /\ m.b = n.b /\ m.w = n.w /\ m.pc = n.pc /\ m.then = n.then
    BY <2>1 DEF Fields
  <2> QED BY <1>2, <2>1, <2>2 DEF settle, n, Carries
<1> QED BY <1>1, <1>2

(* A task that finished or settles is nowhere a claim is held. *)
LEMMA Done ==
    ASSUME NEW t, IsTask(t), NEW pairs
    PROVE  /\ IsTask(finish(t)) /\ finish(t).tok \in {0, t.tok}
           /\ IsTask(settle(t, pairs)) /\ settle(t, pairs).tok \in {0, t.tok}
<1>1. t = Fields(t) /\ t.tok \in Nat /\ t.then \in {"idle", "rehome", "types"}
  BY DEF IsTask
<1>2. IsTask(finish(t)) /\ finish(t).tok \in {0, t.tok}
  BY <1>1, Finishes, IdleTask DEF IsTask, Carries
<1>3. IsTask(settle(t, pairs)) /\ settle(t, pairs).tok \in {0, t.tok}
  BY <1>1, Settles, IdleTask DEF IsTask, Carries
<1> QED BY <1>2, <1>3

(* The state after the step as the holder of the claim sees it. *)
HoldsThen(n) ==
    /\ n.pc \in Claiming /\ n.b \in Binding
    /\ flight'.removing <=> n.pc = "removed"
    /\ n.pc # "removed" => n.b.ver = wanted'.ver
    /\ n.pc = "detached" => live' # None

(* The claim is kept or given up. *)
Keeps(k, n) ==
    /\ UNCHANGED tokens /\ n.tok \in {0, task[k].tok}
    /\ flight' # None =>
         /\ flight # None /\ flight'.token = flight.token /\ flight'.removing = flight.removing
         /\ ours(task[k]) => n.tok = task[k].tok /\ HoldsThen(n)
(* The task takes it. *)
Takes(k, n) ==
    /\ tokens' = tokens + 1 /\ n.tok = tokens + 1
    /\ flight' # None /\ flight'.token = tokens + 1 /\ HoldsThen(n)
(* What the other tasks rely on. *)
Fair == flight' # None =>
    wanted'.ver = wanted.ver /\ (~flight'.removing /\ live # None => live' # None)

\* A step of one task keeps the claims apart: it takes none that another
\* holds.
LEMMA TaskStep ==
    ASSUME Typed, Tokens, Holders, NEW k \in Task, NEW n, IsTask(n), become(k, n),
           flight' \in Claim \cup {None}, Keeps(k, n) \/ Takes(k, n), Fair
    PROVE  TasksTyped' /\ Tokens' /\ Holders'
<1>1. /\ DOMAIN task' = Task /\ task'[k] = n /\ \A i \in Task : i # k => task'[i] = task[i]
  BY DEF become, Typed, TasksTyped
<1>2. TasksTyped'
  <2>1. \A i \in Task : IsTask(task'[i])
    BY <1>1 DEF Typed, TasksTyped
  <2>2. \A i \in Task : IsTask(task[i])' <=> IsTask(task'[i])
    BY DEF IsTask, Fields
  <2> QED BY <1>1, <2>1, <2>2 DEF TasksTyped
<1>3. \A i \in Task : task[i].tok \in Nat /\ task[i].tok <= tokens
  BY DEF Typed, TasksTyped, IsTask, Tokens
<1>4. tokens \in Nat
  BY DEF Typed, RegistryTyped
<1>5. flight # None => flight.token \in Nat \ {0}
  BY DEF Typed, RegistryTyped, Claim
<1>6. flight' # None => flight'.token \in Nat \ {0}
  BY DEF Claim
<1>7. ASSUME NEW i \in Task, i # k, flight # None, flight.token = task[i].tok, flight' # None,
             flight'.token = flight.token, flight'.removing = flight.removing
      PROVE  HoldsThen(task[i])
  <2>1. Holds(task[i])
    BY <1>7 DEF Holders, ours
  <2> QED BY <1>7, <2>1 DEF Holds, HoldsThen, Fair
<1>8. (\A i \in Task : flight' # None /\ flight'.token = task'[i].tok => HoldsThen(task'[i])) => Holders'
  BY DEF Holders, ours, Holds, HoldsThen
<1>9. CASE Keeps(k, n)
  <2>1. /\ tokens' = tokens /\ n.tok \in {0, task[k].tok}
        /\ flight' # None => flight # None /\ flight'.token = flight.token
    BY <1>9 DEF Keeps
  <2>2. Tokens'
    <3>1. \A i \in Task : task'[i].tok <= tokens'
      BY <1>1, <1>3, <1>4, <2>1
    <3>2. \A i, j \in Task : task'[i].tok = task'[j].tok /\ task'[i].tok # 0 => i = j
      BY <1>1, <2>1 DEF Tokens
    <3>3. ASSUME flight' # None PROVE \E i \in Task : task'[i].tok = flight'.token
      <4>1. PICK i \in Task : task[i].tok = flight.token
        BY <2>1, <3>3 DEF Tokens
      <4>2. CASE i = k
        <5>1. n.tok = task[k].tok
          BY <1>9, <2>1, <3>3, <4>1, <4>2 DEF Keeps, ours
        <5> QED BY <1>1, <2>1, <3>3, <4>1, <4>2, <5>1
      <4>3. CASE i # k
        BY <1>1, <2>1, <3>3, <4>1, <4>3
      <4> QED BY <4>2, <4>3
    <3> QED BY <3>1, <3>2, <3>3 DEF Tokens
  <2>3. ASSUME NEW i \in Task, flight' # None, flight'.token = task'[i].tok PROVE HoldsThen(task'[i])
    <3>1. flight # None /\ flight'.token = flight.token /\ flight'.removing = flight.removing
      BY <1>9, <2>3 DEF Keeps
    <3>2. CASE i = k
      <4>1. n.tok = task[k].tok
        BY <1>1, <1>5, <2>1, <2>3, <3>1, <3>2
      <4> QED BY <1>1, <1>9, <2>3, <3>1, <3>2, <4>1 DEF Keeps, ours
    <3>3. CASE i # k
      BY <1>1, <1>7, <2>3, <3>1, <3>3
    <3> QED BY <3>2, <3>3
  <2> QED BY <1>2, <1>8, <2>2, <2>3
<1>10. CASE Takes(k, n)
  <2>1. tokens' = tokens + 1 /\ n.tok = tokens + 1 /\ flight' # None /\ flight'.token = tokens + 1
    BY <1>10 DEF Takes
  <2>2. \A i \in Task : i # k => task'[i].tok # tokens + 1
    BY <1>1, <1>3, <1>4
  <2>3. Tokens'
    <3>1. \A i \in Task : task'[i].tok <= tokens'
      BY <1>1, <1>3, <1>4, <2>1
    <3>2. \A i, j \in Task : task'[i].tok = task'[j].tok /\ task'[i].tok # 0 => i = j
      BY <1>1, <2>1, <2>2 DEF Tokens
    <3> QED BY <1>1, <2>1, <3>1, <3>2 DEF Tokens
  <2>4. \A i \in Task : flight' # None /\ flight'.token = task'[i].tok => HoldsThen(task'[i])
    BY <1>1, <1>10, <2>1, <2>2 DEF Takes
  <2> QED BY <1>2, <1>8, <2>3, <2>4
<1> QED BY <1>9, <1>10

(***************************************************************************)
(* A task with some of its fields set.                                      *)
(***************************************************************************)
(* n agrees with t wherever the invariant looks, but for the fields named. *)
Alike(n, t) == Carries(n, t) /\ n.pc = t.pc /\ n.then = t.then

\* Setting the answer of a task.
LEMMA WithRes ==
    ASSUME NEW t, t = Fields(t), NEW x
    PROVE  Alike([t EXCEPT !.res = x], t)
BY DEF Fields, Carries, Alike

\* Setting what a task saw before.
LEMMA WithBefore ==
    ASSUME NEW t, t = Fields(t), NEW x
    PROVE  Alike([t EXCEPT !.before = x], t)
BY DEF Fields, Carries, Alike

\* Setting what a task has to settle.
LEMMA WithFix ==
    ASSUME NEW t, t = Fields(t), NEW x
    PROVE  Alike([t EXCEPT !.fix = x], t)
BY DEF Fields, Carries, Alike

\* Setting where a task comes back to.
LEMMA WithThen ==
    ASSUME NEW t, t = Fields(t), NEW x
    PROVE  LET n == [t EXCEPT !.then = x] IN Carries(n, t) /\ n.pc = t.pc /\ n.then = x
BY DEF Fields, Carries

Follows(n, t, pc) == Carries(n, t) /\ n.pc = t.pc /\ n.then = pc

\* Setting the provider a task is about.
LEMMA WithProvider ==
    ASSUME NEW t, t = Fields(t), NEW x, NEW y
    PROVE  Follows([t EXCEPT !.p = x, !.then = y], t, y)
<1> DEFINE n == [t EXCEPT !.p = x, !.then = y]
<1>1. n = [t EXCEPT !.p = x, !.then = y]
  OBVIOUS
<1> HIDE DEF n
<1>2. n = Fields(n)
  BY <1>1 DEF Fields
<1>3. n.tok = t.tok /\ n.b = t.b /\ n.w = t.w /\ n.pc = t.pc /\ n.then = y
  BY <1>1 DEF Fields
<1> QED BY <1>2, <1>3 DEF Carries, Follows, n

\* Setting the worker a task is about.
LEMMA WithWorker ==
    ASSUME NEW t, t = Fields(t), NEW x
    PROVE  LET n == [t EXCEPT !.w = x]
           IN  n = Fields(n) /\ n.tok = t.tok /\ n.b = t.b /\ n.w = x /\ n.pc = t.pc /\ n.then = t.then
BY DEF Fields

Serves(n, t, w, b) ==
    n = Fields(n) /\ n.tok = t.tok /\ n.b = b /\ n.w = w /\ n.pc = t.pc /\ n.then = t.then

\* Setting a task's worker and binding.
LEMMA WithWorkerBinding ==
    ASSUME NEW t, t = Fields(t), NEW x, NEW y
    PROVE  Serves([t EXCEPT !.w = x, !.b = y], t, x, y)
<1> DEFINE n == [t EXCEPT !.w = x, !.b = y]
<1>1. n = [t EXCEPT !.w = x, !.b = y]
  OBVIOUS
<1> HIDE DEF n
<1>2. n = Fields(n)
  BY <1>1 DEF Fields
<1>3. n.tok = t.tok /\ n.b = y /\ n.w = x /\ n.pc = t.pc /\ n.then = t.then
  BY <1>1 DEF Fields
<1> QED BY <1>2, <1>3 DEF Serves, n

(* n has the binding b and otherwise what t has. *)
Bound(n, t, b, tok) ==
    n = Fields(n) /\ n.tok = tok /\ n.b = b /\ n.w = t.w /\ n.pc = t.pc /\ n.then = t.then

\* Setting a task's binding.
LEMMA WithBinding ==
    ASSUME NEW t, t = Fields(t), NEW x
    PROVE  Bound([t EXCEPT !.b = x], t, x, t.tok)
BY DEF Fields, Bound

\* Setting a task's binding and provider.
LEMMA WithTarget ==
    ASSUME NEW t, t = Fields(t), NEW x, NEW y
    PROVE  Bound([t EXCEPT !.b = x, !.p = y], t, x, t.tok)
<1> DEFINE n == [t EXCEPT !.b = x, !.p = y]
<1>1. n = [t EXCEPT !.b = x, !.p = y]
  OBVIOUS
<1> HIDE DEF n
<1>2. n = Fields(n)
  BY <1>1 DEF Fields
<1>3. n.tok = t.tok /\ n.b = x /\ n.w = t.w /\ n.pc = t.pc /\ n.then = t.then
  BY <1>1 DEF Fields
<1> QED BY <1>2, <1>3 DEF n, Bound

\* Setting a task's binding and claim.
LEMMA WithToken ==
    ASSUME NEW t, t = Fields(t), NEW x, NEW y
    PROVE  Bound([t EXCEPT !.b = x, !.tok = y], t, x, y)
<1> DEFINE n == [t EXCEPT !.b = x, !.tok = y]
<1>1. n = [t EXCEPT !.b = x, !.tok = y]
  OBVIOUS
<1> HIDE DEF n
<1>2. n = Fields(n)
  BY <1>1 DEF Fields
<1>3. n.tok = y /\ n.b = x /\ n.w = t.w /\ n.pc = t.pc /\ n.then = t.then
  BY <1>1 DEF Fields
<1> QED BY <1>2, <1>3 DEF n, Bound

\* Setting a task's binding, provider and claim.
LEMMA WithClaim ==
    ASSUME NEW t, t = Fields(t), NEW x, NEW y, NEW z
    PROVE  Bound([t EXCEPT !.b = x, !.p = y, !.tok = z], t, x, z)
<1> DEFINE n == [t EXCEPT !.b = x, !.p = y, !.tok = z]
<1>1. n = [t EXCEPT !.b = x, !.p = y, !.tok = z]
  OBVIOUS
<1> HIDE DEF n
<1>2. n = Fields(n)
  BY <1>1 DEF Fields
<1>3. n.tok = z /\ n.b = x /\ n.w = t.w /\ n.pc = t.pc /\ n.then = t.then
  BY <1>1 DEF Fields
<1> QED BY <1>2, <1>3 DEF n, Bound

\* Setting what a re-homing needs.
LEMMA WithMove ==
    ASSUME NEW t, t = Fields(t), NEW x, NEW y, NEW z, NEW u, NEW v
    PROVE  Bound([t EXCEPT !.p = x, !.tok = y, !.b = z, !.src = u, !.srcp = v], t, z, y)
<1> DEFINE n == [t EXCEPT !.p = x, !.tok = y, !.b = z, !.src = u, !.srcp = v]
<1>1. n = [t EXCEPT !.p = x, !.tok = y, !.b = z, !.src = u, !.srcp = v]
  OBVIOUS
<1> HIDE DEF n
<1>2. n = Fields(n)
  BY <1>1 DEF Fields
<1>3. n.tok = y /\ n.b = z /\ n.w = t.w /\ n.pc = t.pc /\ n.then = t.then
  BY <1>1 DEF Fields
<1> QED BY <1>2, <1>3 DEF n, Bound

(***************************************************************************)
(* Bindings and claims.                                                     *)
(***************************************************************************)
LEMMA AtTyped ==
    ASSUME NEW b \in Binding, NEW ns \in Namespaces
    PROVE  at(b, ns) \in Binding /\ at(b, ns).ver = b.ver /\ at(b, ns).owner = b.owner
BY DEF at, Binding

\* A binding has a version and a namespace.
LEMMA BindingFields ==
    ASSUME NEW b \in Binding
    PROVE  b # None /\ b.ver \in Nat /\ b.ns \in Namespaces
BY DEF Binding

\* A binding's provider, if it has one, is in a namespace.
LEMMA Resolves ==
    ASSUME NEW b \in Binding
    PROVE  resolve_provider_key(b) \in Namespaces \cup {None}
<1>1. b.want \in Namespaces \cup {Unnamed}
  BY DEF Binding
<1> QED BY <1>1 DEF resolve_provider_key, Namespaces

\* A transition begins with a claim that nobody has had before.
LEMMA Begins ==
    ASSUME NEW b \in Binding, NEW r \in BOOLEAN, tokens \in Nat, begin_transition(b, r)
    PROVE  /\ tokens' = tokens + 1 /\ tokens' \in Nat
           /\ flight' \in Claim /\ flight' # None
           /\ flight'.token = tokens + 1 /\ flight'.target = b /\ flight'.removing = r
BY DEF begin_transition, Claim

\* What the last word about an id was.
LEMMA WantedFields ==
    ASSUME Typed
    PROVE  /\ removed \in [ver : Nat, on : BOOLEAN] /\ removed.ver = wanted.ver /\ ~removed.on
           /\ \A b \in Binding : accepted(b) \in [ver : Nat, on : BOOLEAN]
                                 /\ accepted(b).ver = b.ver /\ accepted(b).on
BY DEF Typed, RegistryTyped, removed, accepted, Binding

(***************************************************************************)
(* The shape of every step.                                                 *)
(***************************************************************************)
LEMMA Together ==
    ASSUME IInv, NEW k \in Task, NEW n, IsTask(n), become(k, n),
           RegistryTyped', Registry', Keeps(k, n) \/ Takes(k, n), Fair
    PROVE  IInv'
<1>1. flight' \in Claim \cup {None}
  BY DEF RegistryTyped
<1>2. TasksTyped' /\ Tokens' /\ Holders'
  BY <1>1, TaskStep DEF IInv
<1> QED BY <1>2 DEF IInv, Typed

\* A task outside the claiming steps holds no claim.
LEMMA Unclaimed ==
    ASSUME IInv, NEW k \in Task, task[k].pc \notin Claiming
    PROVE  ~ours(task[k])
BY DEF IInv, Holders, Holds

\* What the invariant says of one task.
LEMMA TaskFacts ==
    ASSUME IInv, NEW k \in Task
    PROVE  /\ task[k] = Fields(task[k]) /\ task[k].tok \in Nat
           /\ task[k].then \in {"idle", "rehome", "types"} /\ IsTask(task[k])
BY DEF IInv, Typed, TasksTyped, IsTask

\* What the invariant says of the registry.
LEMMA BucketFacts ==
    ASSUME IInv
    PROVE  /\ live \in Binding \cup {None} /\ pending \in Binding \cup {None}
           /\ wanted \in [ver : Nat, on : BOOLEAN] /\ tokens \in Nat /\ vers \in Nat
           /\ flight \in Claim \cup {None}
           /\ live = None \/ pending = None
           /\ live # None => wanted.on /\ live.ver = wanted.ver
           /\ pending # None => wanted.on /\ pending.ver = wanted.ver
           /\ wanted.on => live # None \/ pending # None \/ flight # None
BY DEF IInv, Typed, RegistryTyped, Registry, OneBucket, NewestWins, NotLost

(* Nothing happens to the binding. *)
LEMMA Stays ==
    ASSUME IInv, NEW k \in Task, NEW n, IsTask(n), become(k, n),
           UNCHANGED <<live, pending, flight, tokens, wanted>>, vers' \in Nat,
           n.tok \in {0, task[k].tok}, ours(task[k]) => n.tok = task[k].tok /\ Holds(n)
    PROVE  IInv'
<1>1. RegistryTyped' /\ Registry'
  BY DEF IInv, Typed, RegistryTyped, Registry, Moving, Removing, OneBucket, NotLost, NewestWins
<1>2. Keeps(k, n)
  BY DEF Keeps, Holds, HoldsThen
<1>3. Fair
  BY DEF Fair
<1> QED BY <1>1, <1>2, <1>3, Together

(* A parked binding is dropped with its owner. *)
LEMMA Dropped ==
    ASSUME IInv, NEW k \in Task, NEW n, IsTask(n), become(k, n), ~ours(task[k]),
           n.tok \in {0, task[k].tok}, UNCHANGED <<live, flight, tokens, vers>>,
           NEW gone \in BOOLEAN, gone => pending # None,
           pending' = (IF gone THEN None ELSE pending), wanted' = (IF gone THEN removed ELSE wanted)
    PROVE  IInv'
<1>1. CASE ~gone
  <2>1. UNCHANGED <<live, pending, flight, tokens, wanted>> /\ vers' \in Nat
    BY <1>1 DEF IInv, Typed, RegistryTyped
  <2> QED BY <2>1, Stays
<1>2. CASE gone
  <2>1. pending' = None /\ wanted' = removed /\ live = None /\ pending # None
    BY <1>2 DEF IInv, Registry, OneBucket
  <2>2. wanted' \in [ver : Nat, on : BOOLEAN] /\ wanted'.ver = wanted.ver /\ ~wanted'.on
    BY <2>1, WantedFields DEF IInv
  <2>3. RegistryTyped'
    BY <2>1, <2>2 DEF IInv, Typed, RegistryTyped
  <2>4. flight # None => flight.removing
    BY <2>1 DEF IInv, Registry, Moving
  <2>5. Registry'
    BY <2>1, <2>2, <2>4 DEF Registry, Moving, Removing, OneBucket, NotLost, NewestWins
  <2>6. Keeps(k, n)
    BY DEF Keeps
  <2>7. Fair
    BY <2>1, <2>2 DEF Fair
  <2> QED BY <2>3, <2>5, <2>6, <2>7, Together
<1> QED BY <1>1, <1>2

(* The claim is given up, and the binding is in force or parked. *)
LEMMA Released ==
    ASSUME IInv, NEW k \in Task, NEW n, IsTask(n), become(k, n), n.tok \in {0, task[k].tok},
           flight' = None, UNCHANGED <<tokens, vers>>,
           live' \in Binding \cup {None}, pending' \in Binding \cup {None},
           wanted' \in [ver : Nat, on : BOOLEAN],
           live' = None \/ pending' = None,
           wanted'.on => live' # None \/ pending' # None,
           live' # None => wanted'.on /\ live'.ver = wanted'.ver,
           pending' # None => wanted'.on /\ pending'.ver = wanted'.ver
    PROVE  IInv'
<1>1. RegistryTyped'
  BY DEF IInv, Typed, RegistryTyped
<1>2. Registry'
  BY DEF Registry, Moving, Removing, OneBucket, NotLost, NewestWins
<1>3. Keeps(k, n) /\ Fair
  BY DEF Keeps, Fair
<1> QED BY <1>1, <1>2, <1>3, Together

(* The claim is taken, to move the binding or to remove it. *)
LEMMA Claimed ==
    ASSUME IInv, NEW k \in Task, NEW n, IsTask(n), become(k, n), n.tok = tokens + 1,
           NEW b \in Binding, NEW r \in BOOLEAN, begin_transition(b, r), n.b \in Binding,
           n.pc \in Claiming, r <=> n.pc = "removed", n.b.ver = b.ver,
           UNCHANGED <<live, vers, wanted>>, pending' = None, n.pc = "detached" => live # None,
           r => live # None /\ live.owner = b.owner,
           wanted.on /\ b.ver = wanted.ver
    PROVE  IInv'
<1>1. /\ tokens' = tokens + 1 /\ tokens' \in Nat
      /\ flight' \in Claim /\ flight' # None
      /\ flight'.token = tokens + 1 /\ flight'.target = b /\ flight'.removing = r
  BY Begins DEF IInv, Typed, RegistryTyped
<1>2. RegistryTyped'
  BY <1>1 DEF IInv, Typed, RegistryTyped
<1>3. Registry'
  BY <1>1 DEF IInv, Registry, Moving, Removing, OneBucket, NotLost, NewestWins
<1>4. Takes(k, n) /\ Fair
  BY <1>1 DEF Takes, HoldsThen, Fair
<1> QED BY <1>2, <1>3, <1>4, Together

(***************************************************************************)
(* The operations.                                                          *)
(***************************************************************************)
LEMMA IdleStays ==
    ASSUME IInv, NEW k \in Task, task[k].pc \notin Claiming, become(k, Idle),
           UNCHANGED <<live, pending, flight, tokens, vers, wanted>>
    PROVE  IInv'
<1>1. vers' \in Nat
  BY DEF IInv, Typed, RegistryTyped
<1> QED BY <1>1, IdleTask, Unclaimed, Stays

\* Delivering a provider's answer keeps the invariant.
LEMMA DeliverStep ==
    ASSUME IInv, NEW k \in Task, Deliver(k)
    PROVE  IInv'
<1> DEFINE t == task[k]
<1>1. PICK r : become(k, [t EXCEPT !.res = r])
  BY DEF Deliver
<1>2. UNCHANGED <<live, pending, flight, tokens, wanted>> /\ vers' \in Nat
  BY DEF Deliver, registry, IInv, Typed, RegistryTyped
<1>3. t = Fields(t) /\ IsTask(t)
  BY TaskFacts
<1>4. PICK n : n = [t EXCEPT !.res = r]
  OBVIOUS
<1>5. Alike(n, t)
  BY <1>3, <1>4, WithRes
<1>6. IsTask(n) /\ n.tok = t.tok /\ (Holds(t) => Holds(n))
  BY <1>3, <1>5 DEF Alike, Carries, IsTask, Holds
<1>7. ours(t) => Holds(t)
  BY DEF IInv, Holders
<1> QED BY <1>1, <1>2, <1>4, <1>6, <1>7, Stays

\* A registration keeps the invariant.
LEMMA RegisterStep ==
    ASSUME IInv, NEW k \in Task, NEW owner \in Owner \cup {NoOwner}, NEW want \in Wants,
           Register(k, owner, want)
    PROVE  IInv'
<1> DEFINE b == [ver |-> vers + 1, ns |-> Default, owner |-> owner, want |-> want]
           ns == resolve_provider_key(b)
<1>1. vers \in Nat /\ vers' = vers + 1 /\ UNCHANGED <<live, pending, flight, tokens, wanted>>
  BY DEF IInv, Typed, RegistryTyped, Register, registry
<1>2. b \in Binding
  BY <1>1 DEF Binding, Namespaces
<1>3. task[k].pc = "idle"
  BY DEF Register, free
<1>4. \E n : IsTask(n) /\ n.tok = 0 /\ become(k, n)
  <2>1. CASE ns = None
    <3>1. PICK m : m = proceed(Idle, "park")
      OBVIOUS
    <3>2. m = Fields(m) /\ m.tok = 0 /\ m.pc = "park" /\ m.then = "idle"
      BY <3>1, IdleTask, Proceeds DEF Carries
    <3>3. PICK n : n = [m EXCEPT !.b = b]
      OBVIOUS
    <3>4. Bound(n, m, b, 0)
      BY <3>2, <3>3, WithBinding
    <3>5. IsTask(n) /\ n.tok = 0
      BY <1>2, <3>2, <3>4 DEF Bound, IsTask
    <3> QED BY <2>1, <3>1, <3>3, <3>5 DEF Register
  <2>2. CASE ns # None
    <3>1. ns \in Namespaces
      BY <1>2, <2>2, Resolves
    <3>2. at(b, ns) \in Binding
      BY <1>2, <3>1, AtTyped
    <3> HIDE DEF b, ns
    <3>3. PICK m : m = [Idle EXCEPT !.b = at(b, ns)]
      OBVIOUS
    <3>4. Bound(m, Idle, at(b, ns), 0)
      BY <3>3, IdleTask, WithBinding
    <3>5. PICK n : n = awaiting(m, "bound", "bind", types[ns], at(b, ns))
      OBVIOUS
    <3>6. Carries(n, m) /\ n.pc = "bound" /\ n.then = m.then
      BY <3>4, <3>5, Awaits DEF Bound
    <3>7. IsTask(n) /\ n.tok = 0
      BY <3>2, <3>4, <3>6, IdleTask DEF Bound, Carries, IsTask
    <3>8. become(k, n)
      BY <2>2, <3>3, <3>5 DEF Register, b, ns
    <3> QED BY <3>7, <3>8
  <2> QED BY <2>1, <2>2
<1>5. ~ours(task[k])
  BY <1>3, Unclaimed DEF Claiming
<1> QED BY <1>1, <1>4, <1>5, Stays

\* Parking a registration keeps the invariant.
LEMMA RegisterParkStep ==
    ASSUME IInv, NEW k \in Task, RegisterPark(k)
    PROVE  IInv'
<1> DEFINE t == task[k]
<1>1. t = Fields(t) /\ IsTask(t) /\ t.pc = "park" /\ t.b \in Binding
  BY TaskFacts DEF RegisterPark, at_pc, IsTask
<1>2. \E n : IsTask(n) /\ n.tok = t.tok /\ become(k, n)
  <2>1. PICK n : /\ n \in {proceed(t, "recheck"), awaiting(t, "recheck", "unbind", types[live.ns], live)}
                 /\ become(k, n)
    BY DEF RegisterPark
  <2>2. Carries(n, t) /\ n.pc = "recheck" /\ n.then = t.then
    BY <1>1, <2>1, Proceeds, Awaits
  <2>3. IsTask(n) /\ n.tok = t.tok
    BY <1>1, <2>2 DEF Carries, IsTask
  <2> QED BY <2>1, <2>3
<1>3. /\ flight' = None /\ live' = None /\ pending' = t.b /\ wanted' = accepted(t.b)
      /\ UNCHANGED <<tokens, vers>>
  BY DEF RegisterPark, outside
<1>4. t.b # None
  BY <1>1, BindingFields
<1>5. wanted' \in [ver : Nat, on : BOOLEAN] /\ wanted'.ver = t.b.ver /\ wanted'.on
  BY <1>1, <1>3, WantedFields DEF IInv
<1> HIDE DEF t
<1> QED BY <1>1, <1>2, <1>3, <1>4, <1>5, Released DEF t

(* A parked binding is claimed and activated. *)
LEMMA ParkedClaimed ==
    ASSUME IInv, NEW k \in Task, NEW ns \in Namespaces, NEW p, claim_parked(ns),
           become(k, activating(task[k], ns, p)), UNCHANGED <<live, vers, wanted>>
    PROVE  IInv'
<1> DEFINE t == task[k]
           b == at(pending, ns)
<1>1. pending \in Binding /\ pending # None
  BY DEF IInv, Typed, RegistryTyped, claim_parked
<1>2. b \in Binding /\ b.ver = pending.ver
  BY <1>1, AtTyped
<1>3. pending' = None /\ begin_transition(b, FALSE)
  BY DEF claim_parked
<1>4. wanted.on /\ b.ver = wanted.ver /\ live = None
  BY <1>1, <1>2 DEF IInv, Registry, NewestWins, OneBucket
<1>5. t = Fields(t) /\ IsTask(t)
  BY TaskFacts
<1>6. tokens \in Nat
  BY DEF IInv, Typed, RegistryTyped
<1> HIDE DEF b
<1>7. PICK m : m = [t EXCEPT !.b = b, !.p = p, !.tok = tokens + 1]
  OBVIOUS
<1>8. Bound(m, t, b, tokens + 1)
  BY <1>5, <1>7, WithClaim
<1>9. PICK n : n = awaiting(m, "activated", "replay", p, b)
  OBVIOUS
<1>10. Carries(n, m) /\ n.pc = "activated" /\ n.then = m.then
  BY <1>8, <1>9, Awaits DEF Bound
<1>11. become(k, n)
  BY <1>7, <1>9 DEF activating, b
<1>12. IsTask(n) /\ n.tok = tokens + 1 /\ n.b = b
  BY <1>5, <1>6, <1>8, <1>10 DEF Bound, Carries, IsTask
<1> QED BY <1>2, <1>3, <1>4, <1>10, <1>11, <1>12, Claimed DEF Claiming

\* A task that found a provider for what is parked keeps the invariant.
LEMMA ClaimingStays ==
    ASSUME IInv, NEW k \in Task, task[k].pc \notin Claiming, NEW b \in Binding, NEW p,
           become(k, claiming(task[k], b, p)), UNCHANGED <<live, pending, flight, tokens, vers, wanted>>
    PROVE  IInv'
<1> DEFINE t == task[k]
<1>1. t = Fields(t) /\ IsTask(t)
  BY TaskFacts
<1>2. PICK m : m = proceed(t, "claim")
  OBVIOUS
<1>3. Carries(m, t) /\ m.pc = "claim" /\ m.then = t.then
  BY <1>1, <1>2, Proceeds
<1>4. PICK n : n = [m EXCEPT !.b = b, !.p = p]
  OBVIOUS
<1>5. Bound(n, m, b, m.tok)
  BY <1>3, <1>4, WithTarget DEF Carries
<1>6. IsTask(n) /\ n.tok = t.tok
  BY <1>1, <1>3, <1>5 DEF Bound, Carries, IsTask
<1>7. become(k, n)
  BY <1>2, <1>4 DEF claiming
<1>8. ~ours(t) /\ vers' \in Nat
  BY Unclaimed, BucketFacts
<1> QED BY <1>6, <1>7, <1>8, Stays

\* The second look for a provider keeps the invariant.
LEMMA RegisterRecheckStep ==
    ASSUME IInv, NEW k \in Task, RegisterRecheck(k)
    PROVE  IInv'
<1> DEFINE t == task[k]
           ns == resolve_provider_key(t.b)
<1>1. IsTask(t) /\ t.pc = "recheck" /\ t.b \in Binding /\ t.pc \notin Claiming
  BY TaskFacts DEF RegisterRecheck, at_pc, IsTask, Claiming
<1>2. ns \in Namespaces \cup {None}
  BY <1>1, Resolves
<1>3. UNCHANGED <<live, pending, flight, tokens, vers, wanted>>
  BY DEF RegisterRecheck, registry, outside
<1>4. CASE ns # None
  <2>1. PICK b : b = at(t.b, ns)
    OBVIOUS
  <2>2. b \in Binding
    BY <1>1, <1>2, <1>4, <2>1, AtTyped
  <2>3. PICK m : m = proceed(t, "lookup")
    OBVIOUS
  <2>4. Carries(m, t) /\ m.pc = "lookup" /\ m.then = t.then
    BY <2>3, TaskFacts, Proceeds
  <2>5. PICK n : n = [m EXCEPT !.b = b]
    OBVIOUS
  <2>6. Bound(n, m, b, m.tok)
    BY <2>4, <2>5, WithBinding DEF Carries
  <2>7. IsTask(n) /\ n.tok = t.tok
    BY <1>1, <2>2, <2>4, <2>6 DEF Bound, Carries, IsTask
  <2>8. become(k, n)
    BY <1>4, <2>1, <2>3, <2>5 DEF RegisterRecheck
  <2>9. ~ours(t) /\ vers' \in Nat
    BY <1>1, <1>3, Unclaimed, BucketFacts
  <2> QED BY <1>3, <2>7, <2>8, <2>9, Stays
<1>5. CASE ns = None
  BY <1>1, <1>3, <1>5, IdleStays DEF RegisterRecheck
<1> QED BY <1>4, <1>5

\* So does finding the provider gone again, or there.
LEMMA RegisterLookupStep ==
    ASSUME IInv, NEW k \in Task, RegisterLookup(k)
    PROVE  IInv'
<1> DEFINE t == task[k]
           p == types[t.b.ns]
<1>1. t.pc \notin Claiming /\ t.b \in Binding
  BY TaskFacts DEF RegisterLookup, at_pc, IsTask, Claiming
<1>2. UNCHANGED <<live, pending, flight, tokens, vers, wanted>>
  BY DEF RegisterLookup, registry, outside
<1>3. CASE p # None
  <2>1. become(k, claiming(t, t.b, p))
    BY <1>3 DEF RegisterLookup
  <2> QED BY <1>1, <1>2, <2>1, ClaimingStays
<1>4. CASE p = None
  BY <1>1, <1>2, <1>4, IdleStays DEF RegisterLookup
<1> QED BY <1>3, <1>4

\* A provider's answer to a registration keeps the invariant.
LEMMA RegisterBoundStep ==
    ASSUME IInv, NEW k \in Task, RegisterBound(k)
    PROVE  IInv'
<1> DEFINE t == task[k]
<1>1. IsTask(t) /\ t.pc = "bound" /\ t.b \in Binding /\ become(k, Idle)
  BY TaskFacts DEF RegisterBound, at_pc, IsTask
<1>2. UNCHANGED <<tokens, vers>>
  BY DEF RegisterBound, outside
<1>3. CASE t.res = "refused"
  BY <1>1, <1>2, <1>3, IdleStays DEF RegisterBound, Claiming
<1>4. CASE t.res # "refused"
  <2>1. /\ flight' = None /\ wanted' = accepted(t.b)
        /\ \/ live' = t.b /\ pending' = None
           \/ live' = None /\ pending' = t.b
    BY <1>4 DEF RegisterBound
  <2>2. wanted' \in [ver : Nat, on : BOOLEAN] /\ wanted'.ver = t.b.ver /\ wanted'.on
    BY <1>1, <2>1, WantedFields DEF IInv
  <2>3. t.b # None /\ IsTask(Idle) /\ Idle.tok = 0
    BY <1>1, BindingFields, IdleTask
  <2> HIDE DEF t
  <2> QED BY <1>1, <1>2, <2>1, <2>2, <2>3, Released
<1> QED BY <1>3, <1>4

(* The claim is given up where nobody removes the binding. *)
LEMMA HolderFacts ==
    ASSUME IInv, NEW k \in Task, ours(task[k])
    PROVE  /\ flight # None /\ flight \in Claim /\ Holds(task[k]) /\ task[k].b \in Binding
           /\ task[k].b # None
           /\ task[k].pc = "removed" =>
                /\ flight.removing
                /\ wanted.on => live # None \/ pending # None
           /\ task[k].pc # "removed" =>
                /\ ~flight.removing /\ pending = None /\ wanted.on
                /\ task[k].b.ver = wanted.ver /\ flight.target.ver = wanted.ver
<1>1. flight # None /\ flight \in Claim
  BY DEF ours, IInv, Typed, RegistryTyped
<1>2. Holds(task[k])
  BY DEF IInv, Holders
<1>3. task[k].b # None
  BY <1>2, BindingFields DEF Holds
<1> QED BY <1>1, <1>2, <1>3 DEF Holds, IInv, Registry, Moving, Removing

(* A task whose claim was superseded leaves everything to others. *)
LEMMA SupersededStep ==
    ASSUME IInv, NEW k \in Task, ~ours(task[k]), NEW n, IsTask(n), n.tok \in {0, task[k].tok},
           become(k, n), finish_transition(task[k]) \/ UNCHANGED flight,
           UNCHANGED <<live, pending, tokens, wanted, vers>>
    PROVE  IInv'
<1>1. UNCHANGED flight
  BY DEF finish_transition
<1>2. vers' \in Nat
  BY BucketFacts
<1> QED BY <1>1, <1>2, Stays

\* A provider's answer to an activation keeps the invariant.
LEMMA ActivatedStep ==
    ASSUME IInv, NEW k \in Task, Activated(k)
    PROVE  IInv'
<1> DEFINE t == task[k]
           settles == ours(t) /\ live = None /\ pending = None
           pairs == <<<<t.b, t.p>>>>
<1>1. IsTask(t) /\ t.pc = "activated"
  BY TaskFacts DEF Activated, at_pc
<1>2. PICK n : n \in {finish(t), settle(t, pairs)} /\ become(k, n)
  BY DEF Activated
<1>3. IsTask(n) /\ n.tok \in {0, t.tok}
  BY <1>1, <1>2, Done
<1>4. UNCHANGED <<tokens, vers, wanted>> /\ finish_transition(t)
  BY DEF Activated, outside
<1>5. CASE ~ours(t)
  <2>1. UNCHANGED <<live, pending>>
    BY <1>5 DEF Activated
  <2> QED BY <1>2, <1>3, <1>4, <1>5, <2>1, SupersededStep
<1>6. CASE ours(t)
  <2>1. flight' = None
    BY <1>4, <1>6 DEF finish_transition
  <2>2. t.b \in Binding /\ t.b # None /\ wanted.on /\ t.b.ver = wanted.ver /\ pending = None
    BY <1>1, <1>6, HolderFacts
  <2>3. \/ live = None /\ live' = t.b /\ pending' = None
        \/ live = None /\ live' = None /\ pending' = t.b
        \/ live # None /\ live' = live /\ pending' = None
    BY <1>6, <2>2 DEF Activated
  <2> HIDE DEF t
  <2> QED BY <1>2, <1>3, <1>4, <2>1, <2>2, <2>3, BucketFacts, Released DEF t
<1> QED BY <1>5, <1>6

\* A removal keeps the invariant.
LEMMA UnregisterStep ==
    ASSUME IInv, NEW k \in Task, Unregister(k)
    PROVE  IInv'
<1>1. task[k].pc = "idle" /\ UNCHANGED <<live, vers>>
  BY DEF Unregister, free
<1>2. CASE live = None
  <2>1. /\ flight' = None /\ pending' = None /\ wanted' = removed /\ UNCHANGED <<task, tokens>>
        /\ live' = None
    BY <1>1, <1>2 DEF Unregister
  <2>2. wanted' \in [ver : Nat, on : BOOLEAN] /\ ~wanted'.on
    BY <2>1, WantedFields DEF IInv
  <2>3. RegistryTyped'
    BY <1>1, <2>1, <2>2 DEF IInv, Typed, RegistryTyped
  <2>4. TasksTyped' /\ Tokens' /\ Holders'
    BY <2>1 DEF IInv, Typed, TasksTyped, IsTask, Fields, Tokens, Holders, ours
  <2>5. Registry'
    BY <2>1, <2>2 DEF Registry, Moving, Removing, OneBucket, NotLost, NewestWins
  <2> QED BY <2>3, <2>4, <2>5 DEF IInv, Typed
<1>3. CASE live # None
  <2>1. /\ begin_transition(live, TRUE) /\ UNCHANGED <<pending, wanted>>
        /\ become(k, awaiting([Idle EXCEPT !.b = live, !.p = types[live.ns], !.tok = tokens + 1],
                              "removed", "unbind", types[live.ns], live))
    BY <1>3 DEF Unregister
  <2>2. live \in Binding /\ pending = None /\ wanted.on /\ live.ver = wanted.ver /\ tokens \in Nat
    BY <1>3, BucketFacts
  <2>3. PICK m : m = [Idle EXCEPT !.b = live, !.p = types[live.ns], !.tok = tokens + 1]
    OBVIOUS
  <2>4. Bound(m, Idle, live, tokens + 1)
    BY <2>3, IdleTask, WithClaim
  <2>5. PICK n : n = awaiting(m, "removed", "unbind", types[live.ns], live)
    OBVIOUS
  <2>6. Carries(n, m) /\ n.pc = "removed" /\ n.then = m.then
    BY <2>4, <2>5, Awaits DEF Bound
  <2>7. IsTask(n) /\ n.tok = tokens + 1 /\ n.b = live
    BY <2>2, <2>4, <2>6, IdleTask DEF Bound, Carries, IsTask
  <2> QED BY <1>1, <1>3, <2>1, <2>2, <2>3, <2>5, <2>6, <2>7, Claimed DEF Claiming
<1> QED BY <1>2, <1>3

\* Repairing an abandoned removal keeps the invariant.
LEMMA RecoverRemovalStep ==
    ASSUME IInv, NEW k \in Task, task[k].pc = "removed", recover_abandoned_removal(k),
           UNCHANGED <<live, wanted, vers>>
    PROVE  IInv'
<1> DEFINE t == task[k]
           b == IF live # None THEN live ELSE pending
<1>1. t = Fields(t) /\ IsTask(t)
  BY TaskFacts
<1>2. b # None => b \in Binding /\ wanted.on /\ b.ver = wanted.ver
  BY BucketFacts
<1>3. CASE ~ours(t)
  <2>1. finish_transition(t) /\ become(k, Idle) /\ UNCHANGED <<pending, tokens>>
    BY <1>3 DEF recover_abandoned_removal
  <2> QED BY <1>3, <2>1, IdleTask, SupersededStep
<1>4. CASE ours(t) /\ b = None
  <2>1. flight' = None /\ become(k, Idle) /\ UNCHANGED <<pending, tokens>>
    BY <1>4 DEF recover_abandoned_removal, finish_transition
  <2>2. ~wanted.on /\ live = None /\ pending = None
    BY <1>4, HolderFacts
  <2> QED BY <1>1, <2>1, <2>2, IdleTask, BucketFacts, Released
<1>5. CASE ours(t) /\ b # None /\ t.p # None /\ types[b.ns] = t.p
  <2>1. flight' = None /\ become(k, settle(t, <<<<b, t.p>>>>)) /\ UNCHANGED <<pending, tokens>>
    BY <1>5 DEF recover_abandoned_removal
  <2>2. PICK n : n = settle(t, <<<<b, t.p>>>>)
    OBVIOUS
  <2>3. IsTask(n) /\ n.tok \in {0, t.tok} /\ become(k, n)
    BY <1>1, <2>1, <2>2, Done
  <2>4. live # None \/ pending # None
    BY <1>5
  <2> QED BY <2>1, <2>3, <2>4, BucketFacts, Released
<1>6. CASE ours(t) /\ b # None /\ ~(t.p # None /\ types[b.ns] = t.p)
  <2>1. /\ pending' = None /\ begin_transition(b, FALSE)
        /\ become(k, [proceed(t, "failover") EXCEPT !.b = b, !.tok = tokens + 1])
    BY <1>6 DEF recover_abandoned_removal
  <2>2. b \in Binding /\ wanted.on /\ b.ver = wanted.ver /\ tokens \in Nat
    BY <1>2, <1>6, BucketFacts
  <2> HIDE DEF b
  <2>3. PICK m : m = proceed(t, "failover")
    OBVIOUS
  <2>4. Carries(m, t) /\ m.pc = "failover" /\ m.then = t.then
    BY <1>1, <2>3, Proceeds
  <2>5. PICK n : n = [m EXCEPT !.b = b, !.tok = tokens + 1]
    OBVIOUS
  <2>6. Bound(n, m, b, tokens + 1)
    BY <2>4, <2>5, WithToken DEF Carries
  <2>7. IsTask(n) /\ n.tok = tokens + 1 /\ n.b = b /\ n.pc = "failover"
    BY <1>1, <2>2, <2>4, <2>6 DEF Bound, Carries, IsTask
  <2>8. become(k, n) /\ n.pc \in Claiming /\ (FALSE <=> n.pc = "removed") /\ n.pc # "detached"
    BY <2>1, <2>3, <2>5, <2>7 DEF Claiming
  <2> QED BY <2>1, <2>2, <2>7, <2>8, Claimed
<1> QED BY <1>3, <1>4, <1>5, <1>6

\* A provider's answer to a removal keeps the invariant.
LEMMA RemovedStep ==
    ASSUME IInv, NEW k \in Task, Removed(k)
    PROVE  IInv'
<1> DEFINE t == task[k]
<1>1. t = Fields(t) /\ IsTask(t) /\ t.pc = "removed" /\ UNCHANGED vers
  BY TaskFacts DEF Removed, at_pc, outside
<1>2. CASE t.res # "ok"
  BY <1>1, <1>2, RecoverRemovalStep DEF Removed
<1>3. CASE t.res = "ok" /\ ours(t)
  <2>1. /\ flight' = None /\ live' = None /\ pending' = None /\ wanted' = removed
        /\ become(k, Idle) /\ UNCHANGED tokens
    BY <1>3 DEF Removed, finish_transition
  <2>2. wanted' \in [ver : Nat, on : BOOLEAN] /\ ~wanted'.on
    BY <2>1, WantedFields DEF IInv
  <2> QED BY <1>1, <2>1, <2>2, IdleTask, Released
<1>4. CASE t.res = "ok" /\ ~ours(t)
  <2>1. PICK pairs : become(k, settle(t, pairs))
    BY <1>4 DEF Removed
  <2>2. finish_transition(t) /\ UNCHANGED <<live, pending, wanted, tokens>>
    BY <1>4 DEF Removed
  <2>3. PICK n : n = settle(t, pairs)
    OBVIOUS
  <2>4. IsTask(n) /\ n.tok \in {0, t.tok} /\ become(k, n)
    BY <1>1, <2>1, <2>3, Done
  <2> QED BY <1>1, <1>4, <2>2, <2>4, SupersededStep
<1> QED BY <1>2, <1>3, <1>4

\* A provider that arrives keeps the invariant.
LEMMA AnnounceStep ==
    ASSUME IInv, NEW k \in Task, NEW w \in Worker, Announce(k, w)
    PROVE  IInv'
<1>1. task[k].pc = "idle" /\ UNCHANGED <<live, flight, tokens, vers>>
  BY DEF Announce, free
<1>2. PICK m : m = proceed(Idle, "match")
  OBVIOUS
<1>3. Carries(m, Idle) /\ m.pc = "match" /\ m.then = "idle"
  BY <1>2, IdleTask, Proceeds
<1>4. PICK n : n = [m EXCEPT !.w = w]
  OBVIOUS
<1>5. IsTask(n) /\ n.tok = 0
  BY <1>3, <1>4, WithWorker, IdleTask DEF Carries, IsTask
<1>6. become(k, n)
  BY <1>2, <1>4 DEF Announce
<1>7. PICK gone : gone = orphaned
  OBVIOUS
<1>8. gone \in BOOLEAN /\ (gone => pending # None)
  BY <1>7 DEF orphaned
<1>9. pending' = (IF gone THEN None ELSE pending) /\ wanted' = (IF gone THEN removed ELSE wanted)
  BY <1>7 DEF Announce
<1>10. ~ours(task[k])
  BY <1>1, Unclaimed DEF Claiming
<1> QED BY <1>1, <1>5, <1>6, <1>8, <1>9, <1>10, Dropped

\* Matching a provider with what is parked keeps the invariant.
LEMMA MatchStep ==
    ASSUME IInv, NEW k \in Task, Match(k)
    PROVE  IInv'
<1> DEFINE t == task[k]
           ns == NsOf[t.w]
<1>1. t = Fields(t) /\ IsTask(t) /\ t.pc = "match" /\ t.w \in Worker
  BY TaskFacts DEF Match, at_pc, IsTask
<1>2. UNCHANGED <<live, pending, flight, tokens, wanted, vers>>
  BY DEF Match, registry, outside
<1>3. PICK m : m = [t EXCEPT !.p = types[ns], !.then = "rehome"]
  OBVIOUS
<1>4. Carries(m, t) /\ m.then = "rehome"
  <2>1. Follows(m, t, "rehome")
    BY <1>1, <1>3, WithProvider
  <2> QED BY <2>1 DEF Follows
<1>5. PICK n : n \in {Idle, awaiting(m, "drain", "again", types[ns], live), proceed(m, "drain")} /\ become(k, n)
  BY <1>3 DEF Match
<1>6. n = Idle \/ (Carries(n, m) /\ n.pc = "drain" /\ n.then = "rehome")
  BY <1>4, <1>5, Awaits, Proceeds DEF Carries
<1>7. IsTask(n) /\ n.tok \in {0, t.tok}
  BY <1>1, <1>4, <1>6, IdleTask DEF Carries, IsTask
<1>8. ~ours(t)
  BY <1>1, Unclaimed DEF Claiming
<1> QED BY <1>2, <1>5, <1>7, <1>8, SupersededStep

\* Draining what is parked keeps the invariant.
LEMMA DrainPendingStep ==
    ASSUME IInv, NEW k \in Task, DrainPending(k)
    PROVE  IInv'
<1> DEFINE t == task[k]
           ns == NsOf[t.w]
           found == pending # None /\ resolve_provider_key(pending) = ns
<1>1. IsTask(t) /\ t.pc = "drain" /\ t.w \in Worker /\ t.pc \notin Claiming
  BY TaskFacts DEF DrainPending, at_pc, IsTask, Claiming
<1>2. UNCHANGED <<live, pending, flight, tokens, vers, wanted>> /\ ns \in Namespaces
  BY <1>1 DEF DrainPending, registry, outside
<1>3. CASE found
  <2>1. at(pending, ns) \in Binding
    BY <1>2, <1>3, AtTyped, BucketFacts
  <2>2. become(k, claiming(t, at(pending, ns), t.p))
    BY <1>3 DEF DrainPending
  <2> HIDE DEF ns
  <2> QED BY <1>1, <1>2, <2>1, <2>2, ClaimingStays
<1>4. CASE ~found
  <2>1. become(k, finish(t))
    BY <1>4 DEF DrainPending
  <2>2. ~ours(t)
    BY <1>1, Unclaimed
  <2>3. IsTask(finish(t)) /\ finish(t).tok \in {0, t.tok}
    BY <1>1, Done
  <2> QED BY <1>2, <2>1, <2>2, <2>3, SupersededStep
<1> QED BY <1>3, <1>4

\* Claiming what is parked keeps the invariant.
LEMMA ClaimParkedStep ==
    ASSUME IInv, NEW k \in Task, ClaimParked(k)
    PROVE  IInv'
<1> DEFINE t == task[k]
<1>1. IsTask(t) /\ t.pc = "claim" /\ t.b.ns \in Namespaces
  BY TaskFacts, BindingFields DEF ClaimParked, at_pc, IsTask
<1>2. UNCHANGED <<live, vers, wanted>>
  BY DEF ClaimParked, outside
<1>3. CASE pending # None /\ ~removing
  <2>1. claim_parked(t.b.ns) /\ become(k, activating(t, t.b.ns, t.p))
    BY <1>3 DEF ClaimParked
  <2> QED BY <1>1, <1>2, <2>1, ParkedClaimed
<1>4. CASE ~(pending # None /\ ~removing)
  <2>1. become(k, finish(t)) /\ UNCHANGED <<pending, flight, tokens>>
    BY <1>4 DEF ClaimParked
  <2>2. ~ours(t)
    BY <1>1, Unclaimed DEF Claiming
  <2>3. IsTask(finish(t)) /\ finish(t).tok \in {0, t.tok}
    BY <1>1, Done
  <2> QED BY <1>2, <2>1, <2>2, <2>3, SupersededStep
<1> QED BY <1>3, <1>4

\* A re-homing keeps the invariant.
LEMMA RehomeStep ==
    ASSUME IInv, NEW k \in Task, Rehome(k)
    PROVE  IInv'
<1> DEFINE t == task[k]
           b == at(live, Home)
           moves == /\ t.w = None \/ NsOf[t.w] = Home
                    /\ types[Home] # None /\ live # None /\ is_on_fallback(live) /\ flight = None
<1>1. t = Fields(t) /\ IsTask(t) /\ t.pc = "rehome"
  BY TaskFacts DEF Rehome, at_pc
<1>2. UNCHANGED <<live, pending, vers, wanted>>
  BY DEF Rehome, outside
<1>3. CASE ~moves
  <2>1. become(k, Idle) /\ UNCHANGED <<flight, tokens>>
    BY <1>3 DEF Rehome
  <2> QED BY <1>1, <1>2, <2>1, IdleStays DEF Claiming
<1>4. CASE moves
  <2>1. live \in Binding /\ pending = None /\ wanted.on /\ live.ver = wanted.ver /\ tokens \in Nat /\ live # None
    BY <1>4, BucketFacts
  <2>2. b \in Binding /\ b.ver = wanted.ver
    BY <2>1, AtTyped DEF Namespaces
  <2>3. begin_transition(b, FALSE)
    BY <1>4 DEF Rehome
  <2>4. PICK m : m = [t EXCEPT !.p = types[Home], !.tok = tokens + 1, !.b = b,
                              !.src = live, !.srcp = types[live.ns]]
    OBVIOUS
  <2>5. PICK n : /\ n \in {awaiting(m, "detached", "unbind", types[live.ns], live),
                           awaiting(m, "rehomed", "replay", types[Home], b)}
                 /\ become(k, n)
    BY <1>4, <2>4 DEF Rehome
  <2> HIDE DEF b
  <2>6. Bound(m, t, b, tokens + 1)
    BY <1>1, <2>4, WithMove
  <2>7. Carries(n, m) /\ n.pc \in {"detached", "rehomed"} /\ n.then = m.then
    BY <2>5, <2>6, Awaits DEF Bound
  <2>8. IsTask(n) /\ n.tok = tokens + 1 /\ n.b = b
    BY <1>1, <2>1, <2>6, <2>7 DEF Bound, Carries, IsTask
  <2> QED BY <1>2, <2>1, <2>2, <2>3, <2>5, <2>7, <2>8, Claimed DEF Claiming
<1> QED BY <1>3, <1>4

\* The re-homing's second half keeps the invariant.
LEMMA RehomeDetachedStep ==
    ASSUME IInv, NEW k \in Task, RehomeDetached(k)
    PROVE  IInv'
<1> DEFINE t == task[k]
<1>1. t = Fields(t) /\ IsTask(t) /\ t.pc = "detached"
  BY TaskFacts DEF RehomeDetached, at_pc
<1>2. UNCHANGED <<live, pending, tokens, vers, wanted>>
  BY DEF RehomeDetached, outside
<1>3. CASE t.res = "ok" /\ ours(t)
  <2>1. PICK n : n = awaiting(t, "rehomed", "replay", t.p, t.b)
    OBVIOUS
  <2>2. Carries(n, t) /\ n.pc = "rehomed" /\ n.then = t.then
    BY <1>1, <2>1, Awaits
  <2>3. IsTask(n) /\ n.tok = t.tok
    BY <1>1, <2>2 DEF Carries, IsTask
  <2>4. Holds(n)
    BY <1>1, <1>3, <2>2, HolderFacts DEF Holds, Carries, Claiming
  <2>5. become(k, n) /\ UNCHANGED flight
    BY <1>3, <2>1 DEF RehomeDetached
  <2>6. vers' \in Nat
    BY <1>2, BucketFacts
  <2> QED BY <1>2, <2>3, <2>4, <2>5, <2>6, Stays
<1>4. CASE ~(t.res = "ok" /\ ours(t))
  <2>1. PICK n : n = settle(t, both(t))
    OBVIOUS
  <2>2. IsTask(n) /\ n.tok \in {0, t.tok}
    BY <1>1, <2>1, Done
  <2>3. become(k, n) /\ (UNCHANGED flight \/ finish_transition(t)) /\ (t.res # "ok" => finish_transition(t))
    BY <1>4, <2>1 DEF RehomeDetached
  <2>4. CASE ~ours(t)
    BY <1>2, <2>2, <2>3, <2>4, SupersededStep
  <2>5. CASE ours(t)
    <3>1. flight' = None
      BY <1>4, <2>3, <2>5 DEF finish_transition
    <3>2. live # None
      BY <1>1, <2>5, HolderFacts DEF Holds
    <3> QED BY <1>2, <2>2, <2>3, <3>1, <3>2, BucketFacts, Released
  <2> QED BY <2>4, <2>5
<1> QED BY <1>3, <1>4

\* The new provider's answer to a re-homing keeps the invariant.
LEMMA RehomedStep ==
    ASSUME IInv, NEW k \in Task, Rehomed(k)
    PROVE  IInv'
<1> DEFINE t == task[k]
<1>1. t = Fields(t) /\ IsTask(t) /\ t.pc = "rehomed"
  BY TaskFacts DEF Rehomed, at_pc
<1>2. UNCHANGED <<tokens, vers, wanted>> /\ finish_transition(t)
  BY DEF Rehomed, outside
<1>3. PICK n : n \in {finish(t), settle(t, both(t)), settle(t, <<<<t.b, t.p>>>>)} /\ become(k, n)
  BY DEF Rehomed
<1>4. IsTask(n) /\ n.tok \in {0, t.tok}
  <2>1. \A pairs : IsTask(settle(t, pairs)) /\ settle(t, pairs).tok \in {0, t.tok}
    BY <1>1, Done
  <2> QED BY <1>1, <1>3, <2>1, Done
<1>5. CASE ~ours(t)
  <2>1. UNCHANGED <<live, pending>>
    BY <1>5 DEF Rehomed
  <2> QED BY <1>2, <1>3, <1>4, <1>5, <2>1, SupersededStep
<1>6. CASE ours(t)
  <2>1. flight' = None
    BY <1>2, <1>6 DEF finish_transition
  <2>2. t.b \in Binding /\ t.b # None /\ wanted.on /\ t.b.ver = wanted.ver /\ pending = None
    BY <1>1, <1>6, HolderFacts
  <2>3. \/ live' = t.b /\ pending' = None
        \/ live' = None /\ pending' = t.b
    BY <1>6, <2>2 DEF Rehomed
  <2> HIDE DEF t
  <2> QED BY <1>2, <1>3, <1>4, <2>1, <2>2, <2>3, BucketFacts, Released DEF t
<1> QED BY <1>5, <1>6

(* The provider that leaves gives its binding to a task that finds another. *)
LEMMA Taken ==
    ASSUME IInv, NEW k \in Task, task[k].pc \notin Claiming, live # None,
           begin_transition(live, FALSE), UNCHANGED <<live, pending, vers, wanted>>,
           become(k, [proceed(Idle, "failover") EXCEPT !.b = live, !.tok = tokens + 1])
    PROVE  IInv'
<1>1. live \in Binding /\ pending = None /\ wanted.on /\ live.ver = wanted.ver /\ tokens \in Nat
  BY BucketFacts
<1>2. PICK m : m = proceed(Idle, "failover")
  OBVIOUS
<1>3. Carries(m, Idle) /\ m.pc = "failover" /\ m.then = "idle"
  BY <1>2, IdleTask, Proceeds
<1>4. PICK n : n = [m EXCEPT !.b = live, !.tok = tokens + 1]
  OBVIOUS
<1>5. Bound(n, m, live, tokens + 1)
  BY <1>3, <1>4, WithToken DEF Carries
<1>6. IsTask(n) /\ n.tok = tokens + 1 /\ n.b = live /\ n.pc = "failover"
  BY <1>1, <1>3, <1>5 DEF Bound, Carries, IsTask
<1>7. become(k, n) /\ n.pc \in Claiming /\ (FALSE <=> n.pc = "removed") /\ n.pc # "detached"
  BY <1>2, <1>4, <1>6 DEF Claiming
<1> QED BY <1>1, <1>6, <1>7, Claimed

\* A provider that leaves keeps the invariant.
LEMMA RetireStep ==
    ASSUME IInv, NEW k \in Task, NEW w \in Worker, Retire(k, w)
    PROVE  IInv'
<1> DEFINE orphan == live # None /\ live.ns = NsOf[w] /\ ~removing
<1>1. take(k, w) /\ UNCHANGED <<live, pending, vers, wanted>> /\ task[k].pc \notin Claiming
  BY DEF Retire, free, Claiming
<1>2. CASE orphan
  BY <1>1, <1>2, Taken DEF take
<1>3. CASE ~orphan
  BY <1>1, <1>3, IdleStays DEF take
<1> QED BY <1>2, <1>3

\* A failover keeps the invariant.
LEMMA FailOverStep ==
    ASSUME IInv, NEW k \in Task, FailOver(k)
    PROVE  IInv'
<1> DEFINE t  == task[k]
           ns == resolve_provider_key(t.b)
           b  == IF ns = None THEN t.b ELSE at(t.b, ns)
           p  == IF ns = None THEN None ELSE types[ns]
<1>1. t = Fields(t) /\ IsTask(t) /\ t.pc = "failover"
  BY TaskFacts DEF FailOver, at_pc
<1>2. UNCHANGED <<live, pending, tokens, vers, wanted>>
  BY DEF FailOver, outside
<1>3. CASE ~ours(t)
  <2>1. become(k, Idle) /\ UNCHANGED flight
    BY <1>3 DEF FailOver
  <2> QED BY <1>2, <1>3, <2>1, IdleTask, SupersededStep
<1>4. CASE ours(t)
  <2>1. /\ flight' = [flight EXCEPT !.target = b]
        /\ become(k, awaiting([t EXCEPT !.b = b, !.p = p], "moved", "replay", p, b))
    BY <1>4 DEF FailOver
  <2>2. /\ flight # None /\ flight \in Claim /\ t.b \in Binding
        /\ ~flight.removing /\ pending = None /\ wanted.on /\ t.b.ver = wanted.ver
    BY <1>1, <1>4, HolderFacts
  <2>3. b \in Binding /\ b.ver = wanted.ver
    BY <2>2, Resolves, AtTyped
  <2> HIDE DEF b, p
  <2>4. /\ flight' \in Claim /\ flight' # None /\ flight'.token = flight.token
        /\ flight'.removing = flight.removing /\ flight'.target = b
    BY <2>1, <2>2, <2>3 DEF Claim
  <2>5. PICK m : m = [t EXCEPT !.b = b, !.p = p]
    OBVIOUS
  <2>6. Bound(m, t, b, t.tok)
    BY <1>1, <2>5, WithTarget
  <2>7. PICK n : n = awaiting(m, "moved", "replay", p, b)
    OBVIOUS
  <2>8. Carries(n, m) /\ n.pc = "moved" /\ n.then = m.then
    BY <2>6, <2>7, Awaits DEF Bound
  <2>9. IsTask(n) /\ n.tok = t.tok /\ n.b = b /\ become(k, n)
    BY <1>1, <2>1, <2>5, <2>6, <2>7, <2>8 DEF Bound, Carries, IsTask
  <2>10. Keeps(k, n)
    <3>1. n.pc \in Claiming /\ n.pc # "removed" /\ n.pc # "detached"
      BY <2>8 DEF Claiming
    <3>2. HoldsThen(n)
      BY <1>2, <2>2, <2>3, <2>4, <2>9, <3>1 DEF HoldsThen
    <3> QED BY <1>2, <2>2, <2>4, <2>9, <3>2 DEF Keeps
  <2>11. Fair
    BY <1>2 DEF Fair
  <2>12. RegistryTyped'
    BY <1>2, <2>4, BucketFacts DEF RegistryTyped
  <2>13. Registry'
    BY <1>2, <2>2, <2>3, <2>4, BucketFacts DEF Registry, Moving, Removing, OneBucket, NotLost, NewestWins
  <2> QED BY <2>9, <2>10, <2>11, <2>12, <2>13, Together
<1> QED BY <1>3, <1>4

\* The next provider's answer to a failover keeps the invariant.
LEMMA FailedOverStep ==
    ASSUME IInv, NEW k \in Task, FailedOver(k)
    PROVE  IInv'
<1> DEFINE t == task[k]
           moved == ours(t) /\ t.p # None /\ t.res = "ok"
<1>1. t = Fields(t) /\ IsTask(t) /\ t.pc = "moved"
  BY TaskFacts DEF FailedOver, at_pc
<1>2. UNCHANGED <<tokens, vers, wanted>> /\ finish_transition(t)
  BY DEF FailedOver, outside
<1>3. PICK n : n \in {proceed(t, "rehome"), settle(t, <<>>), settle(t, <<<<t.b, t.p>>>>)} /\ become(k, n)
  BY DEF FailedOver
<1>4. IsTask(n) /\ n.tok \in {0, t.tok}
  <2>1. \A pairs : IsTask(settle(t, pairs)) /\ settle(t, pairs).tok \in {0, t.tok}
    BY <1>1, Done
  <2>2. IsTask(proceed(t, "rehome")) /\ proceed(t, "rehome").tok = t.tok
    BY <1>1, Proceeds DEF Carries, IsTask
  <2> QED BY <1>3, <2>1, <2>2
<1>5. CASE ~ours(t)
  <2>1. UNCHANGED <<live, pending>>
    BY <1>5 DEF FailedOver
  <2> QED BY <1>2, <1>3, <1>4, <1>5, <2>1, SupersededStep
<1>6. CASE ours(t)
  <2>1. flight' = None
    BY <1>2, <1>6 DEF finish_transition
  <2>2. t.b \in Binding /\ t.b # None /\ wanted.on /\ t.b.ver = wanted.ver /\ pending = None
    BY <1>1, <1>6, HolderFacts
  <2>3. \/ live' = t.b /\ pending' = None
        \/ live' = None /\ pending' = t.b
    BY <1>6, <2>2 DEF FailedOver
  <2> HIDE DEF t
  <2> QED BY <1>2, <1>3, <1>4, <2>1, <2>2, <2>3, BucketFacts, Released DEF t
<1> QED BY <1>5, <1>6

\* The teardown of an owner keeps the invariant.
LEMMA CleanupStep ==
    ASSUME IInv, NEW k \in Task, NEW c, Cleanup(k, c)
    PROVE  IInv'
<1> DEFINE mine(b) == b # None /\ b.owner = c
           theirs == flight # None /\ mine(flight.target)
<1>1. task[k].pc = "idle" /\ UNCHANGED <<live, tokens, vers>>
  BY DEF Cleanup, free, outside
<1>2. PICK x : become(k, [proceed(Idle, "sweep") EXCEPT !.w = c, !.b = x])
  BY DEF Cleanup
<1>3. PICK m : m = proceed(Idle, "sweep")
  OBVIOUS
<1>4. Carries(m, Idle) /\ m.pc = "sweep" /\ m.then = "idle"
  BY <1>3, IdleTask, Proceeds
<1>5. PICK n : n = [m EXCEPT !.w = c, !.b = x]
  OBVIOUS
<1>6. IsTask(n) /\ n.tok = 0 /\ become(k, n)
  <2>1. m = Fields(m)
    BY <1>4 DEF Carries
  <2>2. n = Fields(n) /\ n.tok = m.tok /\ n.pc = m.pc /\ n.then = m.then
    <3>1. Serves(n, m, c, x)
      BY <1>5, <2>1, WithWorkerBinding
    <3> QED BY <3>1 DEF Serves
  <2> QED BY <1>2, <1>3, <1>4, <1>5, <2>2, IdleTask DEF Carries, IsTask
<1>7. /\ flight' = (IF theirs THEN None ELSE flight)
      /\ pending' = (IF mine(pending) THEN None ELSE pending)
      /\ wanted' = (IF live = None /\ (mine(pending) \/ theirs) THEN removed ELSE wanted)
  BY DEF Cleanup
<1>8. /\ removed \in [ver : Nat, on : BOOLEAN] /\ removed.ver = wanted.ver /\ ~removed.on
  BY WantedFields DEF IInv
<1>9. flight # None => flight \in Claim /\ flight.target # None /\ flight.target.ver \in Nat
  <2>1. flight # None => flight \in Claim /\ flight.target \in Binding
    BY BucketFacts DEF Claim
  <2> QED BY <2>1, BindingFields
<1>10. ~ours(task[k])
  BY <1>1, Unclaimed DEF Claiming
<1>11. CASE theirs \/ flight = None
  <2>1. flight' = None
    BY <1>7, <1>11
  <2>2. theirs => pending = None \/ mine(pending)
    BY DEF IInv, Registry, Moving, Removing
  <2>3. pending' = None \/ (pending' = pending /\ ~theirs)
    BY <1>7, <2>2
  <2>4. wanted' \in [ver : Nat, on : BOOLEAN]
    BY <1>7, <1>8, BucketFacts
  <2>5. live' = None \/ pending' = None
    BY <1>1, <1>7, BucketFacts
  <2>6. wanted'.on => live' # None \/ pending' # None
    BY <1>1, <1>7, <1>8, <1>11, BucketFacts
  <2>7. live' # None => wanted'.on /\ live'.ver = wanted'.ver
    BY <1>1, <1>7, BucketFacts
  <2>8. pending' # None => wanted'.on /\ pending'.ver = wanted'.ver
    BY <1>1, <1>7, <1>8, <2>3, BucketFacts
  <2>9. live' \in Binding \cup {None} /\ pending' \in Binding \cup {None}
    BY <1>1, <1>7, BucketFacts
  <2> QED BY <1>1, <1>6, <2>1, <2>4, <2>5, <2>6, <2>7, <2>8, <2>9, Released
<1>12. CASE flight # None /\ ~theirs
  <2>1. flight' = flight
    BY <1>7, <1>12
  <2>2. ~mine(pending)
    BY <1>9, <1>12 DEF IInv, Registry, Moving, Removing
  <2>3. UNCHANGED <<pending, wanted>>
    BY <1>7, <1>12, <2>2
  <2> QED BY <1>1, <1>6, <1>10, <2>1, <2>3, SupersededStep
<1> QED BY <1>11, <1>12

\* Sweeping an owner's bindings keeps the invariant.
LEMMA SweepStep ==
    ASSUME IInv, NEW k \in Task, Sweep(k)
    PROVE  IInv'
<1> DEFINE t == task[k]
           sweeps == t.b # None /\ live # None /\ live.owner = t.w
<1>1. t = Fields(t) /\ IsTask(t) /\ t.pc = "sweep" /\ UNCHANGED <<pending, tokens, vers>>
  BY TaskFacts DEF Sweep, at_pc, outside
<1>2. CASE sweeps
  <2>1. /\ live' = None /\ flight' = None /\ wanted' = removed
        /\ become(k, awaiting([t EXCEPT !.b = live, !.p = types[live.ns]],
                              "swept", "unbind", types[live.ns], live))
    BY <1>2 DEF Sweep
  <2>2. wanted' \in [ver : Nat, on : BOOLEAN] /\ ~wanted'.on /\ pending' = None
    BY <1>1, <1>2, <2>1, WantedFields, BucketFacts DEF IInv
  <2>3. PICK m : m = [t EXCEPT !.b = live, !.p = types[live.ns]]
    OBVIOUS
  <2>4. Bound(m, t, live, t.tok)
    BY <1>1, <2>3, WithTarget
  <2>5. PICK n : n = awaiting(m, "swept", "unbind", types[live.ns], live)
    OBVIOUS
  <2>6. Carries(n, m) /\ n.pc = "swept" /\ n.then = m.then
    BY <2>4, <2>5, Awaits DEF Bound
  <2>7. IsTask(n) /\ n.tok = t.tok /\ become(k, n)
    BY <1>1, <2>1, <2>3, <2>4, <2>5, <2>6 DEF Bound, Carries, IsTask
  <2> QED BY <1>1, <2>1, <2>2, <2>7, Released
<1>3. CASE ~sweeps
  <2>1. become(k, proceed(t, "types")) /\ UNCHANGED <<live, flight, wanted>>
    BY <1>3 DEF Sweep
  <2>2. IsTask(proceed(t, "types")) /\ proceed(t, "types").tok = t.tok
    BY <1>1, Proceeds DEF Carries, IsTask
  <2>3. ~ours(t)
    BY <1>1, Unclaimed DEF Claiming
  <2> QED BY <1>1, <2>1, <2>2, <2>3, SupersededStep
<1> QED BY <1>2, <1>3

\* A provider's answer to a sweep keeps the invariant.
LEMMA SweptStep ==
    ASSUME IInv, NEW k \in Task, Swept(k)
    PROVE  IInv'
<1> DEFINE t == task[k]
<1>1. t = Fields(t) /\ IsTask(t) /\ t.pc = "swept" /\ ~ours(t)
  BY TaskFacts, Unclaimed DEF Swept, at_pc, Claiming
<1>2. UNCHANGED <<live, pending, flight, tokens, wanted, vers>>
  BY DEF Swept, registry, outside
<1>3. PICK m, pairs : m = [t EXCEPT !.then = "types"] /\ become(k, settle(m, pairs))
  BY DEF Swept
<1>4. Carries(m, t) /\ m.pc = t.pc /\ m.then = "types"
  BY <1>1, <1>3, WithThen
<1>5. IsTask(m) /\ m.tok = t.tok
  BY <1>1, <1>4 DEF Carries, IsTask
<1>6. IsTask(settle(m, pairs)) /\ settle(m, pairs).tok \in {0, t.tok}
  BY <1>5, Done
<1> QED BY <1>1, <1>2, <1>3, <1>6, SupersededStep

\* Sweeping a connection's types keeps the invariant.
LEMMA SweepTypesStep ==
    ASSUME IInv, NEW k \in Task, SweepTypes(k)
    PROVE  IInv'
<1> DEFINE t == task[k]
           c == t.w
           gone == pending # None /\ pending.owner = c
           orphan == live # None /\ live.ns = NsOf[c] /\ ~removing
<1>1. t.pc = "types" /\ ~ours(t) /\ UNCHANGED <<live, vers>>
  BY Unclaimed DEF SweepTypes, at_pc, Claiming
<1>2. pending' = (IF gone THEN None ELSE pending) /\ wanted' = (IF gone THEN removed ELSE wanted)
  BY DEF SweepTypes
<1>3. take(k, c) \/ (become(k, Idle) /\ UNCHANGED <<flight, tokens>>)
  BY DEF SweepTypes
<1>4. CASE take(k, c) /\ orphan
  <2>1. ~gone
    BY <1>4, BucketFacts
  <2>2. UNCHANGED <<pending, wanted>>
    BY <1>2, <2>1
  <2> QED BY <1>1, <1>4, <2>2, Taken DEF take, Claiming
<1>5. CASE ~(take(k, c) /\ orphan)
  <2>1. become(k, Idle) /\ UNCHANGED <<flight, tokens>>
    BY <1>3, <1>5 DEF take
  <2>2. PICK g : g = gone
    OBVIOUS
  <2>3. g \in BOOLEAN /\ (g => pending # None)
    BY <2>2
  <2>4. pending' = (IF g THEN None ELSE pending) /\ wanted' = (IF g THEN removed ELSE wanted)
    BY <1>2, <2>2
  <2> QED BY <1>1, <2>1, <2>3, <2>4, IdleTask, Dropped
<1> QED BY <1>4, <1>5

\* A provider's late refusal keeps the invariant.
LEMMA RejectStep ==
    ASSUME IInv, NEW k \in Task, NEW w \in Worker, Reject(k, w)
    PROVE  IInv'
<1>1. task[k].pc = "idle" /\ UNCHANGED <<live, pending, flight, tokens, wanted, vers>>
  BY DEF Reject, free, registry
<1>2. PICK m : m = proceed(Idle, "reject")
  OBVIOUS
<1>3. Carries(m, Idle) /\ m.pc = "reject" /\ m.then = "idle"
  BY <1>2, IdleTask, Proceeds
<1>4. PICK n : n = [m EXCEPT !.w = w]
  OBVIOUS
<1>5. IsTask(n) /\ n.tok = 0
  BY <1>3, <1>4, WithWorker, IdleTask DEF Carries, IsTask
<1>6. become(k, n)
  BY <1>2, <1>4 DEF Reject
<1>7. ~ours(task[k])
  BY <1>1, Unclaimed DEF Claiming
<1> QED BY <1>1, <1>5, <1>6, <1>7, SupersededStep

\* Parking what was refused keeps the invariant.
LEMMA ParkRejectedStep ==
    ASSUME IInv, NEW k \in Task, ParkRejected(k)
    PROVE  IInv'
<1> DEFINE t == task[k]
<1>1. t = Fields(t) /\ IsTask(t) /\ t.pc = "reject" /\ ~ours(t)
  BY TaskFacts, Unclaimed DEF ParkRejected, at_pc, Claiming
<1>2. UNCHANGED <<tokens, wanted, vers>>
  BY DEF ParkRejected
<1>3. CASE live = None
  BY <1>1, <1>2, <1>3, IdleStays DEF ParkRejected, Claiming
<1>4. CASE live # None
  <2>1. /\ pending' = live /\ live' = None /\ flight' = (IF removing THEN flight ELSE None)
        /\ become(k, [proceed(t, "parked") EXCEPT !.b = live])
    BY <1>4 DEF ParkRejected
  <2>2. live \in Binding /\ wanted.on /\ live.ver = wanted.ver
    BY <1>4, BucketFacts
  <2>3. PICK m : m = proceed(t, "parked")
    OBVIOUS
  <2>4. Carries(m, t) /\ m.pc = "parked" /\ m.then = t.then
    BY <1>1, <2>3, Proceeds
  <2>5. PICK n : n = [m EXCEPT !.b = live]
    OBVIOUS
  <2>6. Bound(n, m, live, m.tok)
    BY <2>4, <2>5, WithBinding DEF Carries
  <2>7. IsTask(n) /\ n.tok = t.tok /\ become(k, n)
    BY <1>1, <2>1, <2>2, <2>3, <2>4, <2>5, <2>6 DEF Bound, Carries, IsTask
  <2>8. CASE ~removing
    <3>1. flight' = None
      BY <2>1, <2>8
    <3> QED BY <1>2, <1>4, <2>1, <2>2, <2>7, <3>1, BucketFacts, Released
  <2>9. CASE removing
    <3>1. flight' = flight /\ flight # None /\ flight.removing
      BY <2>1, <2>9 DEF removing
    <3>2. RegistryTyped'
      BY <1>2, <2>1, <2>2, <3>1, BucketFacts DEF RegistryTyped
    <3>3. live.owner = flight.target.owner
      BY <1>4, <3>1 DEF IInv, Registry, Removing
    <3>4. Registry'
      BY <1>2, <1>4, <2>1, <2>2, <3>1, <3>3
      DEF Registry, Moving, Removing, OneBucket, NotLost, NewestWins
    <3>5. Keeps(k, n) /\ Fair
      BY <1>1, <1>2, <2>7, <3>1 DEF Keeps, Fair
    <3> QED BY <2>7, <3>2, <3>4, <3>5, Together
  <2> QED BY <2>8, <2>9
<1> QED BY <1>3, <1>4

\* The second look after a refusal keeps the invariant.
LEMMA RejectedRecheckStep ==
    ASSUME IInv, NEW k \in Task, RejectedRecheck(k)
    PROVE  IInv'
<1> DEFINE t == task[k]
           p == types[t.b.ns]
<1>1. t.pc \notin Claiming /\ t.b \in Binding
  BY TaskFacts DEF RejectedRecheck, at_pc, IsTask, Claiming
<1>2. UNCHANGED <<live, pending, flight, tokens, vers, wanted>>
  BY DEF RejectedRecheck, registry, outside
<1>3. CASE p # None /\ p[1] # t.w
  <2>1. become(k, claiming(t, t.b, p))
    BY <1>3 DEF RejectedRecheck
  <2> QED BY <1>1, <1>2, <2>1, ClaimingStays
<1>4. CASE ~(p # None /\ p[1] # t.w)
  BY <1>1, <1>2, <1>4, IdleStays DEF RejectedRecheck
<1> QED BY <1>3, <1>4

\* Settling a provider that was told twice keeps the invariant.
LEMMA SettleStep ==
    ASSUME IInv, NEW k \in Task, Settle(k)
    PROVE  IInv'
<1> DEFINE t == task[k]
<1>1. t = Fields(t) /\ IsTask(t) /\ t.pc = "settle" /\ ~ours(t)
  BY TaskFacts, Unclaimed DEF Settle, at_pc, Claiming
<1>2. UNCHANGED <<live, pending, flight, tokens, wanted, vers>>
  BY DEF Settle, registry, outside
<1>3. PICK d, kind, p, b : become(k, awaiting([t EXCEPT !.before = d], "settled", kind, p, b))
  BY DEF Settle
<1>4. PICK m : m = [t EXCEPT !.before = d]
  OBVIOUS
<1>5. Alike(m, t)
  BY <1>1, <1>4, WithBefore
<1>6. PICK n : n = awaiting(m, "settled", kind, p, b)
  OBVIOUS
<1>7. Carries(n, m) /\ n.pc = "settled" /\ n.then = m.then
  BY <1>5, <1>6, Awaits DEF Alike, Carries
<1>8. IsTask(n) /\ n.tok = t.tok /\ become(k, n)
  BY <1>1, <1>3, <1>4, <1>5, <1>6, <1>7 DEF Alike, Carries, IsTask
<1> QED BY <1>1, <1>2, <1>8, SupersededStep

\* The end of a settlement keeps the invariant.
LEMMA SettledStep ==
    ASSUME IInv, NEW k \in Task, Settled(k)
    PROVE  IInv'
<1> DEFINE t == task[k]
<1>1. t = Fields(t) /\ IsTask(t) /\ t.pc = "settled" /\ ~ours(t)
  BY TaskFacts, Unclaimed DEF Settled, at_pc, Claiming
<1>2. UNCHANGED <<live, pending, flight, tokens, wanted, vers>>
  BY DEF Settled, registry, outside
<1>3. PICK m : m = [t EXCEPT !.before = None]
  OBVIOUS
<1>4. IsTask(m) /\ m.tok = t.tok
  <2>1. Alike(m, t)
    BY <1>1, <1>3, WithBefore
  <2> QED BY <1>1, <2>1 DEF Alike, Carries, IsTask
<1>5. PICK s : s = proceed(t, "settle")
  OBVIOUS
<1>6. Carries(s, t) /\ s.pc = "settle" /\ s.then = t.then
  BY <1>1, <1>5, Proceeds
<1>7. (\E pairs : become(k, settle(m, pairs))) \/ (\E f : become(k, [s EXCEPT !.fix = f]))
  BY <1>3, <1>5 DEF Settled
<1>8. CASE \E pairs : become(k, settle(m, pairs))
  <2>1. PICK pairs : become(k, settle(m, pairs))
    BY <1>8
  <2>2. IsTask(settle(m, pairs)) /\ settle(m, pairs).tok \in {0, t.tok}
    BY <1>4, Done
  <2> QED BY <1>1, <1>2, <2>1, <2>2, SupersededStep
<1>9. CASE \E f : become(k, [s EXCEPT !.fix = f])
  <2>1. PICK f : become(k, [s EXCEPT !.fix = f])
    BY <1>9
  <2>2. PICK n : n = [s EXCEPT !.fix = f]
    OBVIOUS
  <2>3. Alike(n, s)
    BY <1>6, <2>2, WithFix DEF Carries
  <2>4. IsTask(n) /\ n.tok = t.tok /\ become(k, n)
    BY <1>1, <1>6, <2>1, <2>2, <2>3 DEF Alike, Carries, IsTask
  <2> QED BY <1>1, <1>2, <2>4, SupersededStep
<1> QED BY <1>7, <1>8, <1>9

\* Repairing an abandoned activation keeps the invariant.
LEMMA RecoverActivationStep ==
    ASSUME IInv, NEW k \in Task, recover_abandoned_activation(k),
           task[k].pc # "removed", UNCHANGED <<wanted, vers>>
    PROVE  IInv'
<1> DEFINE t == task[k]
           parks == ours(t) /\ (t.srcp = None \/ (live = None /\ pending = None))
<1>1. t = Fields(t) /\ IsTask(t) /\ UNCHANGED tokens /\ finish_transition(t)
  BY TaskFacts DEF recover_abandoned_activation
<1>2. PICK m : m = [t EXCEPT !.then = "idle"]
  OBVIOUS
<1>3. IsTask(m) /\ m.tok = t.tok
  <2>1. Carries(m, t) /\ m.pc = t.pc /\ m.then = "idle"
    BY <1>1, <1>2, WithThen
  <2> QED BY <1>1, <2>1 DEF Carries, IsTask
<1>4. PICK n : n = settle(m, both(t))
  OBVIOUS
<1>5. IsTask(n) /\ n.tok \in {0, t.tok}
  BY <1>3, <1>4, Done
<1>6. become(k, n)
  BY <1>2, <1>4 DEF recover_abandoned_activation
<1>7. CASE ~ours(t)
  <2>1. UNCHANGED <<live, pending>>
    BY <1>7 DEF recover_abandoned_activation
  <2> QED BY <1>1, <1>5, <1>6, <1>7, <2>1, SupersededStep
<1>8. CASE ours(t)
  <2>1. flight' = None
    BY <1>1, <1>8 DEF finish_transition
  <2>2. /\ flight \in Claim /\ wanted.on /\ flight.target.ver = wanted.ver /\ pending = None
    BY <1>8, HolderFacts
  <2>3. flight.target \in Binding /\ flight.target # None
    BY <2>2, BindingFields DEF Claim
  <2>4. \/ live' = None /\ pending' = flight.target
        \/ live # None /\ live' = live /\ pending' = None
    BY <1>8, <2>2 DEF recover_abandoned_activation
  <2> QED BY <1>1, <1>5, <1>6, <2>1, <2>2, <2>3, <2>4, BucketFacts, Released
<1> QED BY <1>7, <1>8

\* Dropping a caller keeps the invariant.
LEMMA CancelStep ==
    ASSUME IInv, NEW k \in Task, Cancel(k)
    PROVE  IInv'
<1> DEFINE pc == task[k].pc
<1>1. UNCHANGED <<vers, wanted>>
  BY DEF Cancel
<1>2. CASE pc = "removed"
  <2>1. recover_abandoned_removal(k) /\ UNCHANGED live
    BY <1>2 DEF Cancel
  <2> QED BY <1>1, <1>2, <2>1, RecoverRemovalStep
<1>3. CASE pc \in {"activated", "detached", "rehomed", "moved"}
  <2>1. recover_abandoned_activation(k)
    BY <1>3 DEF Cancel
  <2> QED BY <1>1, <1>3, <2>1, RecoverActivationStep
<1>4. CASE pc \in {"bound", "recheck", "drain"}
  <2>1. become(k, Idle) /\ UNCHANGED <<live, pending, flight, tokens>>
    BY <1>4 DEF Cancel
  <2> QED BY <1>1, <1>4, <2>1, IdleStays DEF Claiming
<1>5. CASE pc \notin {"removed", "activated", "detached", "rehomed", "moved", "bound", "recheck", "drain"}
  BY <1>5 DEF Cancel
<1> QED BY <1>2, <1>3, <1>4, <1>5

\* A step elsewhere keeps the invariant.
LEMMA SameRegistry ==
    ASSUME IInv, UNCHANGED <<live, pending, flight, tokens, wanted, vers, task>>
    PROVE  IInv'
BY DEF IInv, Typed, RegistryTyped, TasksTyped, IsTask, Fields, Tokens, Holders, ours, Holds,
       Registry, Moving, Removing, OneBucket, NotLost, NewestWins

(***************************************************************************)
(* The theorems.                                                            *)
(***************************************************************************)
LEMMA Inductive == IInv /\ [Next]_vars => IInv'
<1> SUFFICES ASSUME IInv, [Next]_vars PROVE IInv'
  OBVIOUS
<1>1. CASE \E k \in Task : Step(k)
  BY <1>1, DeliverStep, RegisterParkStep, RegisterRecheckStep, RegisterLookupStep, RegisterBoundStep,
     ActivatedStep, RemovedStep, MatchStep, DrainPendingStep, ClaimParkedStep, RehomeStep, RehomeDetachedStep, RehomedStep,
     FailOverStep, FailedOverStep, SweepStep, SweptStep, SweepTypesStep, ParkRejectedStep,
     RejectedRecheckStep, SettleStep, SettledStep
  DEF Step
<1>2. CASE \E k \in Task : Unregister(k) \/ Cancel(k)
  BY <1>2, UnregisterStep, CancelStep
<1>3. CASE \E k \in Task : \E o \in Owner \cup {NoOwner}, n \in Wants : Register(k, o, n)
  BY <1>3, RegisterStep
<1>4. CASE \E k \in Task : \E w \in Worker : Announce(k, w) \/ Retire(k, w) \/ Reject(k, w)
  BY <1>4, AnnounceStep, RetireStep, RejectStep
<1>5. CASE \E k \in Task : \E c \in Worker \cup Owner : Cleanup(k, c)
  BY <1>5, CleanupStep
<1>6. CASE \E c \in Worker \cup Owner : Close(c)
  BY <1>6, SameRegistry DEF Close, registry
<1>7. CASE UNCHANGED vars
  BY <1>7, SameRegistry DEF vars, registry, outside
<1> QED BY <1>1, <1>2, <1>3, <1>4, <1>5, <1>6, <1>7 DEF Next

(* What is known of the registry in every state. *)
THEOREM Invariant == Spec => []IInv
<1>1. Init => IInv
  BY Initially
<1>2. IInv /\ [Next]_vars => IInv'
  BY Inductive
<1> QED BY <1>1, <1>2, PTL DEF Spec

(* register_trigger's "the binding ends in exactly one bucket": however its   *)
(* operations overlap, the id is never both in force and parked.            *)
THEOREM InOneBucket == Spec => []OneBucket
<1>1. IInv => OneBucket
  BY DEF IInv, Registry
<1> QED BY <1>1, Invariant, PTL

(* No provider that leaves, refuses or is replaced, and no dropped caller     *)
(* (TriggerTransitionGuard), loses an accepted binding.                     *)
THEOREM BindingKept == Spec => []NotLost
<1>1. IInv => NotLost
  BY DEF IInv, Registry
<1> QED BY <1>1, Invariant, PTL

(* An answer that comes late (activate_pending_trigger, fail_over,           *)
(* rehome_fallback_bindings) never revives an older or a removed binding.    *)
THEOREM NewestInForce == Spec => []NewestWins
<1>1. IInv => NewestWins
  BY DEF IInv, Registry
<1> QED BY <1>1, Invariant, PTL

(* The token of begin_transition is never left without the task that took it. *)
THEOREM ClaimHeld == Spec => []TokenHeld
<1>1. IInv => TokenHeld
  BY DEF IInv, Tokens, TokenHeld
<1> QED BY <1>1, Invariant, PTL

(***************************************************************************)
(* Providers let go of what was taken from them.                            *)
(*                                                                          *)
(* What a provider was told to replay is in force in its namespace, or some *)
(* task still owes the provider an answer: the task that called it, or one  *)
(* that has it on its list to settle.                                       *)
(***************************************************************************)
Calling == {"activated", "moved", "rehomed"}
Entering == {"park", "bound"}

(* A registrator of the generations g. *)
Registered(p, g) == p \in Worker \X Nat /\ p[2] <= g[p[1]]
IsList(f) == (Len(f) = 1 /\ f = <<f[1]>>) \/ (Len(f) = 2 /\ f = <<f[1], f[2]>>)

(* The registrations that are no longer under way. *)
Past == {x \in 0 .. vers : \A k \in Task : task[k].pc \in Entering => task[k].b.ver # x}

(* Whom a task that waits is calling. *)
Waiting(t, v) ==
    t.res = "none" =>
        /\ t.call.p # None
        /\ t.call.kind = "replay" => t.pc \in Calling /\ t.call.p = t.p /\ t.call.b.ver \in v
        /\ t.pc \in {"removed", "swept"} => t.call.p = t.p
        /\ t.pc = "detached" => t.call.p = t.srcp
        /\ t.pc = "settled" => t.call.p = t.fix[1][2]
(* Whom a task is about. *)
Aims(t, g) ==
    /\ t.pc \in Calling \cup {"detached"} /\ t.p # None =>
            Registered(t.p, g) /\ t.b.ns = NsOf[t.p[1]]
    /\ t.pc = "drain" /\ t.p # None => Registered(t.p, g) /\ NsOf[t.p[1]] = NsOf[t.w]
    /\ t.pc = "claim" /\ t.p # None => Registered(t.p, g) /\ NsOf[t.p[1]] = t.b.ns
    /\ t.pc = "detached" => t.srcp # None
    /\ t.pc \in {"settle", "settled"} => IsList(t.fix)
Errand(t, g, v) == Waiting(t, v) /\ Aims(t, g)
Errands == \A k \in Task : Errand(task[k], gen, Past)

(* A registration under way has a version of its own, which nobody has been   *)
(* told to replay: only the accepted ones are parked and moved.              *)
Newcomers ==
    /\ wanted.ver \in Past
    /\ \A k \in Task : task[k].pc \in Entering => task[k].b.ver <= vers
    /\ \A i, k \in Task : task[i].pc \in Entering /\ task[k].pc \in Entering
                          /\ task[i].b.ver = task[k].b.ver => i = k

Places ==
    /\ \A w \in Worker : gen[w] \in Nat
    /\ \A m \in Namespaces : types[m] # None => Registered(types[m], gen) /\ NsOf[types[m][1]] = m

Replayed(w) == jobs[w] # None /\ jobs[w].kind = "replay"
Jobs ==
    /\ DOMAIN jobs = Worker /\ DOMAIN types = Namespaces /\ DOMAIN gen = Worker
    /\ \A w \in Worker : Replayed(w) =>
            /\ jobs[w].p # None /\ Registered(jobs[w].p, gen) /\ jobs[w].p[1] = w
            /\ jobs[w].b.ver \in Past

(* The task t will see to the registrator r before it is done. *)
Lists(f, r) == f[1][2] = r \/ (Len(f) = 2 /\ f[2][2] = r)
Owes(t, r) ==
    \/ t.pc \in Calling /\ t.p = r
    \/ t.pc = "swept" /\ t.p = r /\ t.res = "none"
    \/ t.pc = "settle" /\ Lists(t.fix, r)
    \/ /\ t.pc = "settled"
       /\ (t.res = "none" /\ t.fix[1][2] = r) \/ (Len(t.fix) = 2 /\ t.fix[2][2] = r)
(* The holder of the claim is about to make r let go. *)
Lets(t, r) ==
    /\ t.res = "none"
    /\ (t.pc = "removed" /\ t.p = r) \/ (t.pc = "detached" /\ t.srcp = r)
(* The binding is in force where r is, and no claim moves it behind r's back. *)
Serving(lv, fl, ts, r) ==
    /\ lv # None /\ lv.ns = NsOf[r[1]]
    /\ fl # None => \E i \in Task : ts[i].tok = fl.token /\ Lets(ts[i], r)
Covers(r) == Serving(live, flight, task, r)
Runs(w) ==
    Replayed(w) /\ jobs[w].p = types[NsOf[w]] /\ jobs[w].b.ver = wanted.ver /\ w \notin failed
Served ==
    \A w \in Worker \cap open : Runs(w) =>
        Covers(jobs[w].p) \/ \E k \in Task : Owes(task[k], jobs[w].p)

Followed == Newcomers /\ Places /\ Jobs /\ Errands /\ Served

\* Nothing has been told to anyone at first.
LEMMA FollowedInit == Init => Followed
<1> SUFFICES ASSUME Init PROVE Followed
  OBVIOUS
<1> USE DEF Init
<1>1. Idle.pc = "idle" /\ Idle.res = "ok"
  BY DEF Idle
<1>2. \A k \in Task : task[k] = Idle
  OBVIOUS
<1>3. Newcomers
  BY <1>1, <1>2 DEF Newcomers, Past, Entering
<1>4. Places /\ Jobs
  BY DEF Places, Jobs, Replayed
<1>5. Errands
  BY <1>1, <1>2 DEF Errands, Errand, Waiting, Aims, Calling
<1>6. Served
  BY DEF Served, Runs, Replayed
<1> QED BY <1>3, <1>4, <1>5, <1>6 DEF Followed

\* When all is quiet, nobody owes a provider anything.
LEMMA QuietFollowed == Followed => NoGhost
<1> SUFFICES ASSUME Followed, Quiet, NEW w \in Worker, w \in open,
                    jobs[w] # None /\ jobs[w].kind = "replay" /\ jobs[w].p = types[NsOf[w]],
                    jobs[w].b.ver = wanted.ver /\ w \notin failed
             PROVE  live # None /\ live.ns = NsOf[w]
  BY DEF NoGhost
<1>1. Runs(w)
  BY DEF Runs, Replayed
<1>2. jobs[w].p[1] = w
  BY DEF Followed, Jobs, Replayed
<1>3. Idle.pc = "idle"
  BY DEF Idle
<1>4. \A k \in Task : ~Owes(task[k], jobs[w].p)
  BY <1>3 DEF Quiet, Owes, Calling
<1>5. Covers(jobs[w].p)
  BY <1>1, <1>4 DEF Followed, Served
<1> QED BY <1>2, <1>5 DEF Covers, Serving

(***************************************************************************)
(* The shape of the steps.                                                  *)
(***************************************************************************)
(* Providers are told nothing new: what they run they ran before.           *)
Undisturbed ==
    /\ DOMAIN jobs' = Worker /\ DOMAIN types' = Namespaces /\ DOMAIN gen' = Worker
    /\ \A w \in Worker : jobs'[w] \in {jobs[w], None}
    /\ open' \subseteq open /\ failed \subseteq failed'
    /\ \A w \in Worker : gen[w] <= gen'[w]
    /\ Places'
    /\ \A w \in Worker : Replayed(w) /\ jobs[w].p = types'[NsOf[w]] => jobs[w].p = types[NsOf[w]]

(* r is the provider of its namespace before and after the step. *)
Standing(r) ==
    /\ r # None /\ r[1] \in Worker /\ r[1] \in open' /\ r[1] \notin failed'
    /\ r = types[NsOf[r[1]]] /\ r = types'[NsOf[r[1]]]
ThenCovers(r) == Serving(live', flight', task', r)
(* The task k, which becomes n, passes on what it owes, and nobody loses a    *)
(* provider for it.                                                         *)
PassesOn(k, n) == \A r : Standing(r) /\ Owes(task[k], r) => Owes(n, r) \/ ThenCovers(r)
Spares(n) == \A r : Standing(r) /\ Covers(r) => Owes(n, r) \/ ThenCovers(r)

\* What a registrator is does not depend on later announcements.
LEMMA StillRegistered ==
    ASSUME Places, Places', \A w \in Worker : gen[w] <= gen'[w], NEW p, Registered(p, gen)
    PROVE  Registered(p, gen')
<1>1. p[1] \in Worker /\ p[2] \in Nat /\ p[2] <= gen[p[1]]
  BY DEF Registered
<1>2. gen[p[1]] \in Nat /\ gen'[p[1]] \in Nat /\ gen[p[1]] <= gen'[p[1]]
  BY <1>1 DEF Places
<1>3. p[2] <= gen'[p[1]]
  BY <1>1, <1>2
<1> QED BY <1>3 DEF Registered

\* Nor does what a task is about.
LEMMA StillErrand ==
    ASSUME Places, Places', \A w \in Worker : gen[w] <= gen'[w], NEW t, NEW v, Errand(t, gen, v)
    PROVE  Errand(t, gen', v)
BY StillRegistered DEF Errand, Aims

\* The more registrations are past, the more may be replayed.
LEMMA Larger ==
    ASSUME NEW t, NEW g, NEW u, NEW v, u \subseteq v, Errand(t, g, u)
    PROVE  Errand(t, g, v)
BY DEF Errand, Waiting

(* Only the task k takes the step, and becomes n. *)
Turns(k, n) == task'[k] = n /\ \A i \in Task : i # k => task'[i] = task[i]

\* A task that becomes another leaves the others alone.
LEMMA Turning ==
    ASSUME IInv, NEW k \in Task, NEW n, become(k, n)
    PROVE  Turns(k, n)
BY DEF Turns, become, IInv, Typed, TasksTyped

\* A step that tells providers nothing new keeps what is owed to them.
LEMMA Onward ==
    ASSUME IInv, Followed, NEW k \in Task, NEW n, Turns(k, n), Undisturbed,
           wanted'.ver = wanted.ver, vers \in Nat, vers' \in Nat, vers <= vers',
           Errand(n, gen', Past), n.pc \in Entering => n.b = task[k].b /\ task[k].pc \in Entering,
           PassesOn(k, n), Spares(n)
    PROVE  Followed'
<1>1. /\ task'[k] = n /\ \A i \in Task : i # k => task'[i] = task[i]
  BY DEF Turns
<1>2. wanted.ver \in Nat /\ \A i \in Task : task[i].pc \in Entering => task[i].b.ver \in Nat
  <2>1. wanted.ver \in Nat
    BY DEF IInv, Typed, RegistryTyped
  <2>2. \A i \in Task : task[i].pc \in Entering => task[i].b \in Binding
    BY DEF IInv, Typed, TasksTyped, IsTask, Entering
  <2> QED BY <2>1, <2>2 DEF Binding
<1>3. Newcomers' /\ Past \subseteq Past'
  <2>1. Newcomers
    BY DEF Followed
  <2>2. \A i \in Task : task'[i].pc \in Entering => task[i].pc \in Entering /\ task'[i].b = task[i].b
    BY <1>1
  <2>3. Past \subseteq Past'
    <3>1. \A x \in 0 .. vers : x \in 0 .. vers'
      OBVIOUS
    <3> QED BY <2>2, <3>1 DEF Past
  <2>4. ASSUME NEW i \in Task, task'[i].pc \in Entering
        PROVE  task'[i].b.ver <= vers'
    BY <1>2, <2>1, <2>2, <2>4 DEF Newcomers
  <2>5. \A i, j \in Task : task'[i].pc \in Entering /\ task'[j].pc \in Entering
                           /\ task'[i].b.ver = task'[j].b.ver => i = j
    BY <2>1, <2>2 DEF Newcomers
  <2>6. wanted'.ver \in Past'
    BY <2>1, <2>3 DEF Newcomers
  <2> QED BY <2>3, <2>4, <2>5, <2>6 DEF Newcomers
<1>4. Places /\ Places' /\ \A w \in Worker : gen[w] <= gen'[w]
  BY DEF Followed, Undisturbed
<1>5. Jobs'
  <2>1. ASSUME NEW w \in Worker, Replayed(w)'
        PROVE  /\ jobs'[w].p # None /\ Registered(jobs'[w].p, gen') /\ jobs'[w].p[1] = w
               /\ jobs'[w].b.ver \in Past'
    <3>1. jobs'[w] = jobs[w] /\ Replayed(w)
      BY <2>1 DEF Undisturbed, Replayed
    <3>2. jobs[w].p # None /\ Registered(jobs[w].p, gen) /\ jobs[w].p[1] = w /\ jobs[w].b.ver \in Past
      BY <3>1 DEF Followed, Jobs
    <3>3. Registered(jobs[w].p, gen')
      BY <1>4, <3>2, StillRegistered
    <3> QED BY <1>3, <3>1, <3>2, <3>3
  <2> QED BY <2>1 DEF Jobs, Undisturbed
<1>6. Errands'
  <2>1. ASSUME NEW i \in Task PROVE Errand(task'[i], gen', Past')
    <3>1. CASE i = k
      BY <1>1, <1>3, <3>1, Larger
    <3>2. CASE i # k
      <4>1. Errand(task[i], gen, Past)
        BY DEF Followed, Errands
      <4> QED BY <1>1, <1>3, <1>4, <3>2, <4>1, StillErrand, Larger
    <3> QED BY <3>1, <3>2
  <2> QED BY <2>1 DEF Errands
<1>7. ASSUME NEW w \in Worker, w \in open', Runs(w)'
      PROVE  ThenCovers(jobs'[w].p) \/ \E i \in Task : Owes(task'[i], jobs'[w].p)
  <2>1. jobs'[w] = jobs[w] /\ Replayed(w)
    BY <1>7 DEF Undisturbed, Runs, Replayed
  <2>2. PICK r : r = jobs[w].p
    OBVIOUS
  <2>3. r = types'[NsOf[w]] /\ r = types[NsOf[w]] /\ jobs[w].b.ver = wanted.ver /\ w \notin failed' /\ w \notin failed
    BY <1>7, <2>1, <2>2 DEF Undisturbed, Runs
  <2>4. r # None /\ r[1] = w /\ w \in open
    <3>1. w \in open
      BY <1>7 DEF Undisturbed
    <3>2. Jobs
      BY DEF Followed
    <3>3. jobs[w].p # None /\ jobs[w].p[1] = w
      BY <2>1, <3>2 DEF Jobs
    <3> QED BY <2>2, <3>1, <3>3
  <2>5. Standing(r)
    BY <1>7, <2>3, <2>4 DEF Standing
  <2>6. Covers(r) \/ \E i \in Task : Owes(task[i], r)
    <3>1. Served
      BY DEF Followed
    <3>2. Runs(w)
      BY <2>1, <2>2, <2>3 DEF Runs
    <3>3. Covers(jobs[w].p) \/ \E i \in Task : Owes(task[i], jobs[w].p)
      BY <2>4, <3>1, <3>2 DEF Served
    <3> QED BY <2>2, <3>3
  <2>7. CASE Covers(r)
    BY <1>1, <2>1, <2>2, <2>5, <2>7 DEF Spares
  <2>8. CASE \E i \in Task : Owes(task[i], r)
    <3>1. PICK i \in Task : Owes(task[i], r)
      BY <2>8
    <3>2. CASE i = k
      BY <1>1, <2>1, <2>2, <2>5, <3>1, <3>2 DEF PassesOn
    <3>3. CASE i # k
      BY <1>1, <2>1, <2>2, <3>1, <3>3
    <3> QED BY <3>2, <3>3
  <2> QED BY <2>6, <2>7, <2>8
<1>8. Served'
  BY <1>7 DEF Served, Covers, ThenCovers
<1> QED BY <1>3, <1>4, <1>5, <1>6, <1>8 DEF Followed

\* A step of the engine alone tells providers nothing.
LEMMA Alone ==
    ASSUME Followed, UNCHANGED <<types, jobs, open, gen, failed>>
    PROVE  Undisturbed
<1>1. Places'
  BY DEF Followed, Places
<1>2. \A w \in Worker : gen[w] <= gen'[w]
  BY DEF Followed, Places
<1> QED BY <1>1, <1>2 DEF Undisturbed, Followed, Jobs

\* A binding whose claim is held covers a provider only until it is let go.
LEMMA HolderBars ==
    ASSUME IInv, NEW k \in Task, ours(task[k]), NEW r, ~Lets(task[k], r)
    PROVE  ~Covers(r)
<1>1. flight # None /\ flight.token = task[k].tok /\ flight.token \in Nat \ {0}
  BY DEF ours, IInv, Typed, RegistryTyped, Claim
<1>2. \A i \in Task : task[i].tok = flight.token => i = k
  BY <1>1 DEF IInv, Tokens
<1> QED BY <1>1, <1>2 DEF Covers, Serving

(* The claim is as it was, or given up. *)
Eases == flight' = None \/ (flight # None /\ flight' # None /\ flight'.token = flight.token)

\* Where a task holds no provider, the binding goes on to cover it.
LEMMA Sparing ==
    ASSUME IInv, NEW k \in Task, NEW n, become(k, n), live' = live, Eases,
           ~ours(task[k]) \/ task[k].res # "none" \/ task[k].pc \notin {"removed", "detached"}
    PROVE  Spares(n)
<1>1. /\ n.tok = task'[k].tok /\ \A i \in Task : i # k => task'[i] = task[i]
  BY DEF become, IInv, Typed, TasksTyped
<1>2. ASSUME NEW r, Covers(r) PROVE ThenCovers(r)
  <2>1. live' # None /\ live'.ns = NsOf[r[1]]
    BY <1>2 DEF Covers, Serving
  <2>2. CASE flight' = None
    BY <2>1, <2>2 DEF ThenCovers, Serving
  <2>3. CASE flight' # None
    <3>1. flight # None /\ flight'.token = flight.token
      BY <2>3 DEF Eases
    <3>2. PICK i \in Task : task[i].tok = flight.token /\ Lets(task[i], r)
      BY <1>2, <3>1 DEF Covers, Serving
    <3>3. i # k
      BY <3>1, <3>2 DEF Lets, ours
    <3> QED BY <1>1, <2>1, <3>1, <3>2, <3>3 DEF ThenCovers, Serving
  <2> QED BY <2>2, <2>3
<1> QED BY <1>2 DEF Spares

\* The holder of the claim spares nobody, for it has let go already.
LEMMA Spared ==
    ASSUME IInv, NEW k \in Task, NEW n, ours(task[k]),
           task[k].res # "none" \/ task[k].pc \notin {"removed", "detached"}
    PROVE  Spares(n)
<1>1. \A r : ~Lets(task[k], r)
  BY DEF Lets
<1> QED BY <1>1, HolderBars DEF Spares

Owing == Calling \cup {"settle", "settled"}

\* A task that was about nobody passes nothing on.
LEMMA OwesNothing ==
    ASSUME NEW k \in Task, NEW n, task[k].pc \notin Owing,
           task[k].res # "none" \/ task[k].pc # "swept"
    PROVE  PassesOn(k, n)
BY DEF PassesOn, Owes, Owing

(* The engine works among itself: registrations and providers stay. *)
Inside == UNCHANGED <<types, jobs, open, gen, failed, vers>> /\ wanted'.ver = wanted.ver

\* So does a step of a task that is about nobody and changes nothing.
LEMMA Bystands ==
    ASSUME IInv, Followed, NEW k \in Task, NEW n, become(k, n), Inside, live' = live, Eases,
           task[k].res # "none" \/ task[k].pc \notin {"removed", "detached", "swept"},
           task[k].pc \notin Owing, Errand(n, gen, Past), n.pc \notin Entering
    PROVE  Followed'
<1>1. Undisturbed
  BY Alone DEF Inside
<1>2. vers \in Nat /\ vers' = vers /\ vers <= vers'
  BY BucketFacts DEF Inside
<1>3. PassesOn(k, n) /\ Spares(n)
  BY OwesNothing, Sparing
<1> QED BY <1>1, <1>2, <1>3, Turning, Onward DEF Inside

\* And a step of the engine, once what is owed is passed on.
LEMMA PassedOn ==
    ASSUME IInv, Followed, NEW k \in Task, NEW n, become(k, n), Inside,
           Errand(n, gen, Past), n.pc \notin Entering, PassesOn(k, n), Spares(n)
    PROVE  Followed'
<1>1. Undisturbed
  BY Alone DEF Inside
<1>2. vers \in Nat /\ vers' = vers /\ vers <= vers'
  BY BucketFacts DEF Inside
<1> QED BY <1>1, <1>2, Turning, Onward DEF Inside

(***************************************************************************)
(* What tasks are about.                                                    *)
(***************************************************************************)
Rest(n, t) == n.p = t.p /\ n.src = t.src /\ n.srcp = t.srcp /\ n.fix = t.fix
Answered(n) == n.call = None /\ n.res = "ok"
Called(n, kind, p, b) ==
    /\ p = None => n.res = "ok"
    /\ p # None => n.res = "none" /\ n.call.kind = kind /\ n.call.p = p /\ n.call.b = b

\* A task that waits for nobody and is about nobody has no errand to go astray.
LEMMA NoErrand ==
    ASSUME NEW n, n.res # "none", n.pc \notin Owing \cup {"detached", "drain", "claim"}, NEW g, NEW v
    PROVE  Errand(n, g, v)
BY DEF Errand, Waiting, Aims, Owing, Calling

\* Nor has one that does nothing.
LEMMA IdleErrand ==
    ASSUME NEW g, NEW v
    PROVE  Errand(Idle, g, v) /\ Idle.pc = "idle" /\ Idle.res = "ok" /\ Idle.pc \notin Entering
<1>1. Idle.pc = "idle" /\ Idle.res = "ok"
  BY DEF Idle
<1>2. "idle" \notin Owing \cup {"detached", "drain", "claim"} /\ "idle" \notin Entering
  BY DEF Owing, Calling, Entering
<1> QED BY <1>1, <1>2, NoErrand

\* A task that proceeds keeps whom it is about.
LEMMA ProceedRest ==
    ASSUME NEW t, t = Fields(t), NEW pc
    PROVE  Rest(proceed(t, pc), t) /\ Answered(proceed(t, pc))
<1> DEFINE n == [t EXCEPT !.pc = pc, !.call = None, !.res = "ok"]
<1>1. n = [t EXCEPT !.pc = pc, !.call = None, !.res = "ok"]
  OBVIOUS
<1> HIDE DEF n
<1>2. n.p = t.p /\ n.src = t.src /\ n.srcp = t.srcp /\ n.fix = t.fix /\ n.call = None /\ n.res = "ok"
  BY <1>1 DEF Fields
<1> QED BY <1>2 DEF proceed, Rest, Answered, n

\* So does one that calls a provider.
LEMMA AwaitRest ==
    ASSUME NEW t, t = Fields(t), NEW pc, NEW kind, NEW p, NEW b
    PROVE  Rest(awaiting(t, pc, kind, p, b), t) /\ Called(awaiting(t, pc, kind, p, b), kind, p, b)
<1>1. CASE p = None
  BY <1>1, ProceedRest DEF awaiting, Called, Answered
<1>2. CASE p # None
  <2> DEFINE c == [kind |-> kind, p |-> p, b |-> b]
             n == [t EXCEPT !.pc = pc, !.call = c, !.res = "none"]
  <2>1. c.kind = kind /\ c.p = p /\ c.b = b
    OBVIOUS
  <2>2. n = [t EXCEPT !.pc = pc, !.call = c, !.res = "none"]
    OBVIOUS
  <2>3. awaiting(t, pc, kind, p, b) = n
    BY <1>2 DEF awaiting
  <2> HIDE DEF n, c
  <2>4. n.p = t.p /\ n.src = t.src /\ n.srcp = t.srcp /\ n.fix = t.fix /\ n.call = c /\ n.res = "none"
    BY <2>2 DEF Fields
  <2> QED BY <1>2, <2>1, <2>3, <2>4 DEF Rest, Called
<1> QED BY <1>1, <1>2

\* A task that ends is about nobody.
LEMMA FinishErrand ==
    ASSUME NEW t, IsTask(t), NEW g, NEW v
    PROVE  Errand(finish(t), g, v) /\ finish(t).pc \notin Entering
<1>1. t = Fields(t) /\ t.then \in {"idle", "rehome", "types"}
  BY DEF IsTask
<1>2. CASE t.then = "idle"
  BY <1>2, IdleErrand DEF finish
<1>3. CASE t.then # "idle"
  <2>1. PICK m : m = proceed(t, t.then)
    OBVIOUS
  <2>2. m = Fields(m) /\ m.pc = t.then /\ m.res = "ok"
    BY <1>1, <2>1, Proceeds, ProceedRest DEF Carries, Answered
  <2>3. PICK n : n = [m EXCEPT !.then = "idle"]
    OBVIOUS
  <2>4. n.pc = t.then /\ n.res = "ok"
    BY <2>2, <2>3 DEF Fields
  <2>5. n.pc \notin Owing \cup {"detached", "drain", "claim"} /\ n.pc \notin Entering
    BY <1>1, <1>3, <2>4 DEF Owing, Calling, Entering
  <2>6. finish(t) = n
    BY <1>3, <2>1, <2>3 DEF finish
  <2> QED BY <2>4, <2>5, <2>6, NoErrand
<1> QED BY <1>2, <1>3

\* A list of one or two is what it is.
LEMMA Listed ==
    ASSUME NEW x, NEW y
    PROVE  /\ IsList(<<x>>) /\ IsList(<<x, y>>)
           /\ <<x>>[1] = x /\ <<x, y>>[1] = x /\ <<x, y>>[2] = y
           /\ Len(<<x>>) = 1 /\ Len(<<x, y>>) = 2
           /\ Head(<<x>>) = x /\ Head(<<x, y>>) = x /\ Tail(<<x>>) = <<>> /\ Tail(<<x, y>>) = <<y>>
           /\ <<x>> \o <<>> = <<x>> /\ <<x>> \o <<y>> = <<x, y>>
           /\ <<x>> # <<>> /\ <<x, y>> # <<>>
<1>1. <<x>>[1] = x /\ <<x, y>>[1] = x /\ <<x, y>>[2] = y /\ Len(<<x>>) = 1 /\ Len(<<x, y>>) = 2
  OBVIOUS
<1>2. IsList(<<x>>)
  BY <1>1 DEF IsList
<1>3. IsList(<<x, y>>)
  BY <1>1 DEF IsList
<1>4. Head(<<x>>) = x /\ Head(<<x, y>>) = x
  OBVIOUS
<1>5. Tail(<<x>>) = <<>>
  OBVIOUS
<1>6. Tail(<<x, y>>) = <<y>>
  OBVIOUS
<1>7. <<x>> \o <<>> = <<x>>
  OBVIOUS
<1>8. <<x>> \o <<y>> = <<x, y>>
  <2>1. PICK u, v, z : u = <<x>> /\ v = <<y>> /\ z = u \o v
    OBVIOUS
  <2>2. u \in Seq({x, y}) /\ v \in Seq({x, y}) /\ Len(u) = 1 /\ Len(v) = 1 /\ u[1] = x /\ v[1] = y
    BY <2>1
  <2>3. z \in Seq({x, y}) /\ Len(z) = 2 /\ z[1] = x /\ z[2] = y
    BY <2>1, <2>2
  <2>4. z = <<x, y>>
    BY <2>3
  <2> QED BY <2>1, <2>4
<1>9. <<x>> # <<>> /\ <<x, y>> # <<>>
  OBVIOUS
<1> QED BY <1>1, <1>2, <1>3, <1>4, <1>5, <1>6, <1>7, <1>8, <1>9

\* A task that has a list to settle settles it.
LEMMA SettleErrand ==
    ASSUME NEW t, IsTask(t), NEW pairs, pairs = <<>> \/ IsList(pairs), NEW g, NEW v
    PROVE  /\ Errand(settle(t, pairs), g, v) /\ settle(t, pairs).pc \notin Entering
           /\ IsList(pairs) => settle(t, pairs).pc = "settle" /\ settle(t, pairs).fix = pairs
<1>1. t = Fields(t)
  BY DEF IsTask
<1>2. IsList(pairs) => pairs # <<>>
  BY DEF IsList
<1>3. CASE pairs = <<>>
  BY <1>2, <1>3, FinishErrand DEF settle
<1>4. CASE pairs # <<>>
  <2>1. PICK m : m = proceed(t, "settle")
    OBVIOUS
  <2>2. m = Fields(m) /\ m.pc = "settle" /\ m.res = "ok"
    BY <1>1, <2>1, Proceeds, ProceedRest DEF Carries, Answered
  <2>3. PICK n : n = [m EXCEPT !.fix = pairs]
    OBVIOUS
  <2>4. n.pc = "settle" /\ n.res = "ok" /\ n.fix = pairs
    BY <2>2, <2>3 DEF Fields
  <2>5. settle(t, pairs) = n
    BY <1>4, <2>1, <2>3 DEF settle
  <2>6. Errand(n, g, v) /\ n.pc \notin Entering
    BY <1>4, <2>4 DEF Errand, Waiting, Aims, Calling, Entering
  <2> QED BY <2>4, <2>5, <2>6
<1> QED BY <1>3, <1>4

(***************************************************************************)
(* The operations.                                                          *)
(***************************************************************************)
\* A provider of a namespace is registered there.
LEMMA PlaceFacts ==
    ASSUME Followed, NEW m \in Namespaces, types[m] # None
    PROVE  Registered(types[m], gen) /\ NsOf[types[m][1]] = m /\ types[m][1] \in Worker
BY DEF Followed, Places, Registered

\* What a task is about.
LEMMA ErrandFacts ==
    ASSUME Followed, NEW k \in Task
    PROVE  Errand(task[k], gen, Past)
BY DEF Followed, Errands

(* A parked binding is claimed and replayed to a provider. *)
LEMMA ClaimFollowed ==
    ASSUME IInv, Followed, NEW k \in Task, NEW ns \in Namespaces, NEW p, claim_parked(ns),
           p # None => Registered(p, gen) /\ NsOf[p[1]] = ns,
           become(k, activating(task[k], ns, p)), Inside, live' = live,
           task[k].pc \notin Owing \cup {"swept"}
    PROVE  Followed'
<1> DEFINE t == task[k]
           b == at(pending, ns)
<1>1. pending \in Binding /\ pending # None /\ live = None /\ pending.ver = wanted.ver
  BY BucketFacts DEF claim_parked
<1>2. b \in Binding /\ b.ver = wanted.ver /\ b.ns = ns
  BY <1>1, AtTyped DEF at, Binding
<1>3. t = Fields(t)
  BY TaskFacts
<1> HIDE DEF b
<1>4. PICK m : m = [t EXCEPT !.b = b, !.p = p, !.tok = tokens + 1]
  OBVIOUS
<1>5. Bound(m, t, b, tokens + 1)
  BY <1>3, <1>4, WithClaim
<1>6. m.p = p
  BY <1>3, <1>4 DEF Fields
<1>7. PICK n : n = awaiting(m, "activated", "replay", p, b)
  OBVIOUS
<1>8. Carries(n, m) /\ n.pc = "activated" /\ Rest(n, m) /\ Called(n, "replay", p, b)
  BY <1>5, <1>7, Awaits, AwaitRest DEF Bound
<1>9. n.p = p /\ n.b = b
  BY <1>5, <1>6, <1>8 DEF Bound, Carries, Rest
<1>10. wanted.ver \in Past
  BY DEF Followed, Newcomers
<1>11. Waiting(n, Past)
  BY <1>2, <1>8, <1>9, <1>10 DEF Waiting, Called, Calling
<1>12. Aims(n, gen)
  BY <1>2, <1>8, <1>9 DEF Aims, Calling
<1>13. Spares(n)
  BY <1>1 DEF Spares, Covers, Serving
<1>14. PassesOn(k, n)
  BY OwesNothing
<1>15. become(k, n)
  BY <1>4, <1>7 DEF activating, b
<1>16. n.pc \notin Entering
  BY <1>8 DEF Entering
<1> QED BY <1>11, <1>12, <1>13, <1>14, <1>15, <1>16, PassedOn DEF Errand

\* A task that ends without having been about anybody.
LEMMA IdleFollowed ==
    ASSUME IInv, Followed, NEW k \in Task, become(k, Idle), Inside, live' = live, Eases,
           task[k].res # "none" \/ task[k].pc \notin {"removed", "detached", "swept"},
           task[k].pc \notin Owing
    PROVE  Followed'
BY IdleErrand, Bystands

\* What steps leave alone.
LEMMA InsideIs ==
    ASSUME UNCHANGED <<types, outside>>, wanted' = wanted
    PROVE  Inside
BY DEF outside, Inside

\* The claim stays as it is.
LEMMA EasesIs ==
    ASSUME flight' = flight \/ flight' = None
    PROVE  Eases
BY DEF Eases

\* A registration is made: it is newer than all before it.
LEMMA RegisterFollowed ==
    ASSUME IInv, Followed, NEW k \in Task, NEW owner \in Owner \cup {NoOwner}, NEW want \in Wants,
           Register(k, owner, want)
    PROVE  Followed'
<1> DEFINE b == [ver |-> vers + 1, ns |-> Default, owner |-> owner, want |-> want]
           ns == resolve_provider_key(b)
<1>1. /\ vers \in Nat /\ vers' = vers + 1 /\ UNCHANGED <<live, pending, flight, tokens, wanted>>
      /\ UNCHANGED <<types, jobs, open, gen, failed>> /\ wanted.ver \in Nat
  BY BucketFacts DEF Register, registry
<1>2. b \in Binding /\ b.ver = vers + 1
  BY <1>1 DEF Binding, Namespaces
<1>3. task[k].pc = "idle" /\ task[k].pc \notin Entering
  BY DEF Register, free, Entering
<1>4. PICK n : /\ become(k, n) /\ n.pc \in Entering /\ n.b.ver = vers + 1
               /\ Errand(n, gen, Past)
  <2>1. CASE ns = None
    <3>1. PICK m : m = proceed(Idle, "park")
      OBVIOUS
    <3>2. m = Fields(m) /\ m.pc = "park" /\ m.res = "ok"
      BY <3>1, IdleTask, Proceeds, ProceedRest DEF Carries, Answered
    <3>3. PICK n : n = [m EXCEPT !.b = b]
      OBVIOUS
    <3> HIDE DEF b
    <3>4. n.pc = "park" /\ n.res = "ok" /\ n.b = b
      BY <3>2, <3>3 DEF Fields
    <3>5. n.pc \notin Owing \cup {"detached", "drain", "claim"} /\ n.pc \in Entering
      BY <3>4 DEF Owing, Calling, Entering
    <3>6. Errand(n, gen, Past)
      BY <3>4, <3>5, NoErrand
    <3>7. become(k, n)
      BY <2>1, <3>1, <3>3 DEF Register, b
    <3> QED BY <1>2, <3>4, <3>5, <3>6, <3>7
  <2>2. CASE ns # None
    <3>1. ns \in Namespaces
      BY <1>2, <2>2, Resolves
    <3>2. at(b, ns).ver = vers + 1
      BY <1>2, <3>1, AtTyped
    <3> HIDE DEF b, ns
    <3>3. PICK m : m = [Idle EXCEPT !.b = at(b, ns)]
      OBVIOUS
    <3>4. Bound(m, Idle, at(b, ns), 0)
      BY <3>3, IdleTask, WithBinding
    <3>5. PICK n : n = awaiting(m, "bound", "bind", types[ns], at(b, ns))
      OBVIOUS
    <3>6. Carries(n, m) /\ n.pc = "bound" /\ Called(n, "bind", types[ns], at(b, ns))
      BY <3>4, <3>5, Awaits, AwaitRest DEF Bound
    <3>7. n.b = at(b, ns) /\ n.pc \in Entering
      BY <3>4, <3>6 DEF Bound, Carries, Entering
    <3>8. Errand(n, gen, Past)
      BY <3>6 DEF Errand, Waiting, Aims, Called, Calling
    <3>9. become(k, n)
      BY <2>2, <3>3, <3>5 DEF Register, b, ns
    <3> QED BY <3>2, <3>7, <3>8, <3>9
  <2> QED BY <2>1, <2>2
<1>5. task'[k] = n /\ \A i \in Task : i # k => task'[i] = task[i]
  BY <1>4 DEF become, IInv, Typed, TasksTyped
<1>6. Newcomers' /\ Past \subseteq Past'
  <2>1. \A i \in Task : task[i].pc \in Entering => task[i].b.ver \in Nat /\ task[i].b.ver <= vers
    <3>1. \A i \in Task : task[i].pc \in Entering => task[i].b \in Binding
      BY DEF IInv, Typed, TasksTyped, IsTask, Entering
    <3> QED BY <3>1 DEF Binding, Followed, Newcomers
  <2>2. \A x \in 0 .. vers : x \in 0 .. vers' /\ x # vers + 1
    BY <1>1
  <2>3. ASSUME NEW x \in Past PROVE x \in Past'
    <3>1. x \in 0 .. vers'
      BY <2>2 DEF Past
    <3>2. ASSUME NEW i \in Task, task'[i].pc \in Entering PROVE task'[i].b.ver # x
      BY <1>4, <1>5, <2>2, <3>2 DEF Past
    <3> QED BY <3>1, <3>2 DEF Past
  <2>4. wanted'.ver \in Past'
    BY <1>1, <2>3 DEF Followed, Newcomers
  <2>5. ASSUME NEW i \in Task, task'[i].pc \in Entering PROVE task'[i].b.ver <= vers'
    BY <1>1, <1>4, <1>5, <2>1, <2>5
  <2>6. ASSUME NEW i \in Task, NEW j \in Task, task'[i].pc \in Entering, task'[j].pc \in Entering,
               task'[i].b.ver = task'[j].b.ver
        PROVE  i = j
    <3>1. ASSUME NEW h \in Task, h # k, task'[h].pc \in Entering PROVE task'[h].b.ver # vers + 1
      BY <1>1, <1>5, <2>1, <3>1
    <3>2. CASE i = k \/ j = k
      BY <1>4, <1>5, <2>6, <3>1, <3>2
    <3>3. CASE i # k /\ j # k
      BY <1>5, <2>6, <3>3 DEF Followed, Newcomers
    <3> QED BY <3>2, <3>3
  <2> QED BY <2>3, <2>4, <2>5, <2>6 DEF Newcomers
<1>7. Places' /\ Jobs'
  BY <1>1, <1>6 DEF Followed, Places, Jobs, Replayed
<1>8. Errands'
  <2>1. \A i \in Task : Errand(task'[i], gen, Past)
    BY <1>4, <1>5, ErrandFacts
  <2>2. \A i \in Task : Errand(task'[i], gen, Past')
    BY <1>6, <2>1, Larger
  <2> QED BY <1>1, <2>2 DEF Errands
<1>9. Served'
  <2>1. Spares(n)
    BY <1>1, <1>3, <1>4, Sparing DEF Eases
  <2>2. ASSUME NEW w \in Worker, w \in open, Runs(w)
        PROVE  ThenCovers(jobs[w].p) \/ \E i \in Task : Owes(task'[i], jobs[w].p)
    <3>1. PICK r : r = jobs[w].p
      OBVIOUS
    <3>2. Standing(r)
      BY <1>1, <2>2, <3>1 DEF Standing, Runs, Followed, Jobs
    <3>3. Covers(r) \/ \E i \in Task : Owes(task[i], r)
      BY <2>2, <3>1 DEF Followed, Served
    <3>4. ~Owes(task[k], r)
      BY <1>3 DEF Owes, Calling
    <3> QED BY <1>5, <2>1, <3>1, <3>2, <3>3, <3>4 DEF Spares
  <2>3. \A w \in Worker : Runs(w)' => Runs(w)
    BY <1>1 DEF Runs, Replayed
  <2> QED BY <1>1, <2>2, <2>3 DEF Served, Covers, ThenCovers
<1> QED BY <1>6, <1>7, <1>8, <1>9 DEF Followed

\* A registration is accepted: no provider runs it by a replay yet.
LEMMA AcceptedFollowed ==
    ASSUME IInv, Followed, NEW k \in Task, NEW n, become(k, n), task[k].pc \in Entering,
           UNCHANGED <<types, outside>>, wanted' = accepted(task[k].b), n.pc \notin Entering,
           Errand(n, gen, Past)
    PROVE  Followed'
<1>1. /\ task'[k] = n /\ \A i \in Task : i # k => task'[i] = task[i]
  BY DEF become, IInv, Typed, TasksTyped
<1>2. PICK v : v = task[k].b.ver
  OBVIOUS
<1>3. UNCHANGED <<types, jobs, open, gen, failed, vers>>
  BY DEF outside
<1>4. task[k].b \in Binding
  BY DEF IInv, Typed, TasksTyped, IsTask, Entering
<1>5. v \in Nat /\ wanted.ver \in Nat /\ wanted'.ver = v
  BY <1>2, <1>4, WantedFields, BucketFacts DEF Binding, IInv
<1>6. v <= vers /\ v \notin Past
  BY <1>2 DEF Followed, Newcomers, Past
<1>7. \A i \in Task : task'[i].pc \in Entering => i # k /\ task'[i] = task[i] /\ task[i].b.ver # v
  BY <1>1, <1>2 DEF Followed, Newcomers
<1>8. v \in Past' /\ Past \subseteq Past'
  <2>1. v \in 0 .. vers
    BY <1>5, <1>6, BucketFacts
  <2> QED BY <1>3, <1>7, <2>1 DEF Past
<1>9. Newcomers' /\ Places'
  <2>1. Places'
    BY <1>3 DEF Followed, Places
  <2>2. \A i \in Task : task'[i].pc \in Entering => task'[i].b.ver <= vers'
    BY <1>3, <1>7 DEF Followed, Newcomers
  <2>3. \A i, j \in Task : task'[i].pc \in Entering /\ task'[j].pc \in Entering
                           /\ task'[i].b.ver = task'[j].b.ver => i = j
    BY <1>7 DEF Followed, Newcomers
  <2> QED BY <1>5, <1>8, <2>1, <2>2, <2>3 DEF Newcomers
<1>10. Jobs'
  BY <1>3, <1>8 DEF Followed, Jobs, Replayed
<1>11. Errands'
  <2>1. \A i \in Task : Errand(task'[i], gen, Past)
    BY <1>1, ErrandFacts
  <2>2. \A i \in Task : Errand(task'[i], gen, Past')
    BY <1>8, <2>1, Larger
  <2> QED BY <1>3, <2>2 DEF Errands
<1>12. Served'
  <2>1. \A w \in Worker : ~Runs(w)'
    BY <1>3, <1>5, <1>6 DEF Followed, Jobs, Runs, Replayed
  <2> QED BY <2>1 DEF Served
<1> QED BY <1>9, <1>10, <1>11, <1>12 DEF Followed

\* Parking a registration.
LEMMA RegisterParkFollowed ==
    ASSUME IInv, Followed, NEW k \in Task, RegisterPark(k)
    PROVE  Followed'
<1> DEFINE t == task[k]
<1>1. t = Fields(t) /\ t.pc = "park"
  BY TaskFacts DEF RegisterPark, at_pc
<1>2. UNCHANGED <<types, outside>> /\ wanted' = accepted(t.b)
  BY DEF RegisterPark
<1>3. PICK n : /\ n = proceed(t, "recheck") \/ n = awaiting(t, "recheck", "unbind", types[live.ns], live)
               /\ become(k, n)
  BY DEF RegisterPark
<1>4. n.pc = "recheck"
  BY <1>1, <1>3, Proceeds, Awaits
<1>5. Answered(n) \/ Called(n, "unbind", types[live.ns], live)
  BY <1>1, <1>3, ProceedRest, AwaitRest
<1>6. Errand(n, gen, Past) /\ n.pc \notin Entering
  BY <1>4, <1>5 DEF Errand, Waiting, Aims, Answered, Called, Calling, Entering
<1>7. t.pc \in Entering
  BY <1>1 DEF Entering
<1> QED BY <1>2, <1>3, <1>6, <1>7, AcceptedFollowed

\* A task finds a provider for what is parked.
LEMMA FoundFollowed ==
    ASSUME IInv, Followed, NEW k \in Task, NEW b, NEW p, become(k, claiming(task[k], b, p)),
           p # None => Registered(p, gen) /\ NsOf[p[1]] = b.ns,
           Inside, live' = live, flight' = flight,
           task[k].pc \notin Owing \cup {"swept", "removed", "detached"}
    PROVE  Followed'
<1> DEFINE t == task[k]
<1>1. t = Fields(t)
  BY TaskFacts
<1>2. PICK m : m = proceed(t, "claim")
  OBVIOUS
<1>3. m = Fields(m) /\ m.pc = "claim" /\ m.res = "ok"
  BY <1>1, <1>2, Proceeds, ProceedRest DEF Carries, Answered
<1>4. PICK n : n = [m EXCEPT !.b = b, !.p = p]
  OBVIOUS
<1>5. n.pc = "claim" /\ n.res = "ok" /\ n.b = b /\ n.p = p
  BY <1>3, <1>4 DEF Fields
<1>6. Errand(n, gen, Past) /\ n.pc \notin Entering
  BY <1>5 DEF Errand, Waiting, Aims, Calling, Entering
<1>7. become(k, n)
  BY <1>2, <1>4 DEF claiming
<1> QED BY <1>6, <1>7, EasesIs, Bystands

\* The second look for a provider.
LEMMA RegisterRecheckFollowed ==
    ASSUME IInv, Followed, NEW k \in Task, RegisterRecheck(k)
    PROVE  Followed'
<1> DEFINE t == task[k]
           ns == resolve_provider_key(t.b)
<1>1. t.pc = "recheck" /\ t.b \in Binding
  BY TaskFacts DEF RegisterRecheck, at_pc, IsTask
<1>2. ns \in Namespaces \cup {None}
  BY <1>1, Resolves
<1>3. UNCHANGED <<types, outside>> /\ wanted' = wanted /\ live' = live /\ flight' = flight
  BY DEF RegisterRecheck, registry
<1>4. Inside
  BY <1>3, InsideIs
<1>5. t.pc \notin Owing \cup {"swept", "removed", "detached"}
  BY <1>1 DEF Owing, Calling
<1>6. CASE ns # None
  <2>1. PICK b, m : b = at(t.b, ns) /\ m = proceed(t, "lookup")
    OBVIOUS
  <2>2. m = Fields(m) /\ m.pc = "lookup" /\ m.res = "ok"
    BY <2>1, TaskFacts, Proceeds, ProceedRest DEF Carries, Answered
  <2>3. PICK n : n = [m EXCEPT !.b = b]
    OBVIOUS
  <2>4. n.pc = "lookup" /\ n.res = "ok"
    BY <2>2, <2>3 DEF Fields
  <2>5. Errand(n, gen, Past) /\ n.pc \notin Entering
    BY <2>4, NoErrand DEF Owing, Calling, Entering
  <2>6. become(k, n)
    BY <1>6, <2>1, <2>3 DEF RegisterRecheck
  <2> QED BY <1>3, <1>4, <1>5, <2>5, <2>6, EasesIs, Bystands
<1>7. CASE ns = None
  <2>1. become(k, Idle)
    BY <1>7 DEF RegisterRecheck
  <2> QED BY <1>3, <1>4, <1>5, <2>1, EasesIs, IdleFollowed
<1> QED BY <1>6, <1>7

\* The provider is still there, or gone again.
LEMMA RegisterLookupFollowed ==
    ASSUME IInv, Followed, NEW k \in Task, RegisterLookup(k)
    PROVE  Followed'
<1> DEFINE t == task[k]
           p == types[t.b.ns]
<1>1. t.pc = "lookup" /\ t.b \in Binding
  BY TaskFacts DEF RegisterLookup, at_pc, IsTask
<1>2. /\ UNCHANGED <<types, outside>> /\ wanted' = wanted /\ live' = live /\ flight' = flight
      /\ t.b.ns \in Namespaces
  BY <1>1, BindingFields DEF RegisterLookup, registry
<1>3. t.pc \notin Owing \cup {"swept", "removed", "detached"}
  BY <1>1 DEF Owing, Calling
<1>4. CASE p # None
  <2>1. become(k, claiming(t, t.b, p))
    BY <1>4 DEF RegisterLookup
  <2>2. Registered(p, gen) /\ NsOf[p[1]] = t.b.ns
    BY <1>2, <1>4, PlaceFacts
  <2> QED BY <1>2, <1>3, <2>1, <2>2, InsideIs, FoundFollowed
<1>5. CASE p = None
  <2>1. become(k, Idle)
    BY <1>5 DEF RegisterLookup
  <2> QED BY <1>2, <1>3, <2>1, InsideIs, EasesIs, IdleFollowed
<1> QED BY <1>4, <1>5

\* What is parked is claimed.
LEMMA ClaimParkedFollowed ==
    ASSUME IInv, Followed, NEW k \in Task, ClaimParked(k)
    PROVE  Followed'
<1> DEFINE t == task[k]
<1>1. IsTask(t) /\ t.pc = "claim" /\ t.b.ns \in Namespaces
  BY TaskFacts, BindingFields DEF ClaimParked, at_pc, IsTask
<1>2. UNCHANGED <<types, outside>> /\ wanted' = wanted /\ live' = live
  BY DEF ClaimParked
<1>3. t.pc \notin Owing \cup {"swept"} /\ t.pc \notin {"removed", "detached"}
  BY <1>1 DEF Owing, Calling
<1>4. t.p # None => Registered(t.p, gen) /\ NsOf[t.p[1]] = t.b.ns
  BY <1>1, ErrandFacts DEF Errand, Aims
<1>5. CASE pending # None /\ ~removing
  <2>1. claim_parked(t.b.ns) /\ become(k, activating(t, t.b.ns, t.p))
    BY <1>5 DEF ClaimParked
  <2> QED BY <1>1, <1>2, <1>3, <1>4, <2>1, InsideIs, ClaimFollowed
<1>6. CASE ~(pending # None /\ ~removing)
  <2>1. become(k, finish(t)) /\ flight' = flight
    BY <1>6 DEF ClaimParked
  <2>2. PICK n : n = finish(t)
    OBVIOUS
  <2>3. Errand(n, gen, Past) /\ n.pc \notin Entering
    BY <1>1, <2>2, FinishErrand
  <2> QED BY <1>2, <1>3, <2>1, <2>2, <2>3, InsideIs, EasesIs, Bystands
<1> QED BY <1>5, <1>6

\* A provider's answer to a registration.
LEMMA RegisterBoundFollowed ==
    ASSUME IInv, Followed, NEW k \in Task, RegisterBound(k)
    PROVE  Followed'
<1> DEFINE t == task[k]
<1>1. t.pc = "bound" /\ become(k, Idle) /\ UNCHANGED <<types, outside>>
  BY DEF RegisterBound, at_pc
<1>2. t.pc \in Entering /\ t.pc \notin Owing /\ t.pc \notin {"swept", "removed", "detached"}
  BY <1>1 DEF Entering, Owing, Calling
<1>3. CASE t.res = "refused"
  <2>1. live' = live /\ flight' = flight /\ wanted' = wanted
    BY <1>3 DEF RegisterBound
  <2> QED BY <1>1, <1>2, <2>1, InsideIs, EasesIs, IdleFollowed
<1>4. CASE t.res # "refused"
  <2>1. wanted' = accepted(t.b)
    BY <1>4 DEF RegisterBound
  <2> QED BY <1>1, <1>2, <2>1, IdleErrand, AcceptedFollowed
<1> QED BY <1>3, <1>4

\* A call is carried out: who made it answers for it.
LEMMA DeliverFollowed ==
    ASSUME IInv, Followed, NEW k \in Task, Deliver(k)
    PROVE  Followed'
<1>1. PICK t, c : t = task[k] /\ c = t.call
  OBVIOUS
<1>2. PICK a : become(k, [t EXCEPT !.res = a]) /\ a # "none"
  <2>1. \E a \in {"ok", "closed", "refused"} : become(k, [t EXCEPT !.res = a])
    BY <1>1 DEF Deliver
  <2> QED BY <2>1
<1>3. /\ t.res = "none" /\ UNCHANGED <<types, live, pending, flight, tokens, gen, open, vers, wanted>>
      /\ \/ c.p[1] \in open /\ carried(c) /\ failed' = failed
         \/ c.p[1] \notin open /\ jobs' = jobs /\ failed' = failed
         \/ failed' = failed \cup {c.p[1]} /\ (jobs' = jobs \/ carried(c))
  BY <1>1 DEF Deliver, registry
<1>4. PICK n : n = [t EXCEPT !.res = a]
  OBVIOUS
<1>5. n.res = a /\ n.pc = t.pc /\ n.p = t.p /\ n.b = t.b /\ n.w = t.w /\ n.srcp = t.srcp /\ n.fix = t.fix /\ n.tok = t.tok
  BY <1>1, <1>4, TaskFacts DEF Fields
<1>6. Errand(t, gen, Past)
  BY <1>1, ErrandFacts
<1>7. Errand(n, gen, Past)
  BY <1>2, <1>5, <1>6 DEF Errand, Waiting, Aims
<1>8. /\ task'[k] = n /\ \A i \in Task : i # k => task'[i] = task[i]
  BY <1>2, <1>4 DEF become, IInv, Typed, TasksTyped
<1>9. Newcomers' /\ Past' = Past
  <2>1. \A i \in Task : task'[i].pc = task[i].pc /\ task'[i].b = task[i].b
    BY <1>1, <1>5, <1>8
  <2>2. Past' = Past
    BY <1>3, <2>1 DEF Past
  <2> QED BY <1>3, <2>1, <2>2 DEF Followed, Newcomers
<1>10. Places' /\ Errands'
  <2>1. Places'
    BY <1>3 DEF Followed, Places
  <2>2. \A i \in Task : Errand(task'[i], gen, Past)
    BY <1>7, <1>8, ErrandFacts
  <2> QED BY <1>3, <1>9, <2>1, <2>2 DEF Errands
<1>11. DOMAIN jobs = Worker /\ DOMAIN jobs' = Worker
  BY <1>3 DEF Followed, Jobs, carried
<1>12. ASSUME NEW w \in Worker
       PROVE  \/ jobs'[w] = jobs[w] /\ (w = c.p[1] => w \notin open \/ w \in failed')
              \/ w = c.p[1] /\ jobs'[w] = None
              \/ w = c.p[1] /\ jobs'[w] = c
  <2>1. CASE jobs' = jobs
    <3>1. CASE carried(c)
      <4>1. w = c.p[1] => jobs'[w] = None \/ jobs'[w] = c
        BY <1>11, <3>1 DEF carried
      <4> QED BY <2>1, <4>1
    <3>2. CASE ~carried(c)
      BY <1>3, <2>1, <3>2
    <3> QED BY <3>1, <3>2
  <2>2. CASE carried(c)
    BY <1>11, <2>2 DEF carried
  <2> QED BY <1>3, <2>1, <2>2
<1>13. c.kind = "replay" => /\ t.pc \in Calling /\ c.p = t.p /\ c.b.ver \in Past
                            /\ c.p # None /\ Registered(c.p, gen)
  BY <1>1, <1>3, <1>6 DEF Errand, Waiting, Aims
<1>14. Jobs'
  <2>1. ASSUME NEW w \in Worker, Replayed(w)'
        PROVE  /\ jobs'[w].p # None /\ Registered(jobs'[w].p, gen') /\ jobs'[w].p[1] = w
               /\ jobs'[w].b.ver \in Past'
    <3>1. CASE jobs'[w] = jobs[w]
      BY <1>3, <1>9, <2>1, <3>1 DEF Followed, Jobs, Replayed
    <3>2. CASE w = c.p[1] /\ jobs'[w] = c
      BY <1>3, <1>9, <1>13, <2>1, <3>2 DEF Replayed
    <3> QED BY <1>12, <2>1, <3>1, <3>2 DEF Replayed
  <2> QED BY <1>3, <1>11, <2>1 DEF Jobs, Followed
<1>15. ASSUME NEW w \in Worker, w \in open', Runs(w)'
       PROVE  ThenCovers(jobs'[w].p) \/ \E i \in Task : Owes(task'[i], jobs'[w].p)
  <2>1. CASE w = c.p[1] /\ jobs'[w] = c
    <3>1. Owes(n, c.p)
      BY <1>5, <1>13, <1>15, <2>1 DEF Runs, Replayed, Owes
    <3> QED BY <1>8, <2>1, <3>1
  <2>2. CASE jobs'[w] = jobs[w] /\ (w = c.p[1] => w \notin open \/ w \in failed')
    <3>1. PICK r : r = jobs[w].p
      OBVIOUS
    <3>2. Runs(w) /\ w \in open /\ w \notin failed'
      BY <1>3, <1>15, <2>2 DEF Runs, Replayed
    <3>3. r[1] = w /\ w # c.p[1] /\ c.p # r
      BY <2>2, <3>1, <3>2 DEF Followed, Jobs, Runs
    <3>4. Covers(r) \/ \E i \in Task : Owes(task[i], r)
      BY <3>1, <3>2 DEF Followed, Served
    <3>5. Owes(t, r) => Owes(n, r)
      BY <1>1, <1>3, <1>5, <1>6, <3>3 DEF Owes, Errand, Waiting
    <3>6. ~Lets(t, r)
      BY <1>1, <1>3, <1>6, <3>3 DEF Lets, Errand, Waiting
    <3>7. CASE Covers(r)
      <4>1. ThenCovers(r)
        BY <1>1, <1>3, <1>8, <3>6, <3>7 DEF Covers, ThenCovers, Serving
      <4> QED BY <2>2, <3>1, <4>1
    <3>8. CASE \E i \in Task : Owes(task[i], r)
      BY <1>1, <1>8, <2>2, <3>1, <3>5, <3>8
    <3> QED BY <3>4, <3>7, <3>8
  <2>3. CASE w = c.p[1] /\ jobs'[w] = None
    BY <1>15, <2>3 DEF Runs, Replayed
  <2> QED BY <1>12, <2>1, <2>2, <2>3
<1>16. Served'
  BY <1>15 DEF Served, Covers, ThenCovers
<1> QED BY <1>9, <1>10, <1>14, <1>16 DEF Followed

\* A task that gives up the claim it held, or lost it: it has published the
\* binding where the provider is, or has the provider on its list.
LEMMA AnswerPasses ==
    ASSUME IInv, Followed, NEW k \in Task, NEW n, become(k, n), task[k].pc \in Calling,
           \/ live' = task[k].b /\ live' # None /\ flight' = None
           \/ n.pc = "settle" /\ Lists(n.fix, task[k].p)
           \/ task[k].p = None
    PROVE  PassesOn(k, n)
<1> SUFFICES ASSUME NEW r, Standing(r), Owes(task[k], r)
             PROVE  Owes(n, r) \/ ThenCovers(r)
  BY DEF PassesOn
<1>1. task[k].p = r /\ r # None
  BY DEF Owes, Calling, Standing
<1>2. CASE n.pc = "settle" /\ Lists(n.fix, task[k].p)
  BY <1>1, <1>2 DEF Owes
<1>3. CASE live' = task[k].b /\ live' # None /\ flight' = None
  <2>1. task[k].b.ns = NsOf[r[1]]
    BY <1>1, ErrandFacts DEF Errand, Aims
  <2> QED BY <1>3, <2>1 DEF ThenCovers, Serving
<1> QED BY <1>1, <1>2, <1>3

\* A list of one pair lists its provider.
LEMMA ListsIt ==
    ASSUME NEW x, NEW p
    PROVE  IsList(<<<<x, p>>>>) /\ Lists(<<<<x, p>>>>, p)
<1>1. PICK y : y = <<x, p>>
  OBVIOUS
<1>2. y[2] = p
  BY <1>1
<1>3. IsList(<<y>>) /\ <<y>>[1] = y
  BY Listed
<1> QED BY <1>1, <1>2, <1>3 DEF Lists

\* So does a list that begins with it.
LEMMA ListsFirst ==
    ASSUME NEW x, NEW p, NEW q
    PROVE  IsList(<<<<x, p>>, q>>) /\ Lists(<<<<x, p>>, q>>, p)
<1>1. PICK y : y = <<x, p>>
  OBVIOUS
<1>2. y[2] = p
  BY <1>1
<1>3. IsList(<<y, q>>) /\ <<y, q>>[1] = y
  BY Listed
<1> QED BY <1>1, <1>2, <1>3 DEF Lists

\* A provider's answer to an activation.
LEMMA ActivatedFollowed ==
    ASSUME IInv, Followed, NEW k \in Task, Activated(k)
    PROVE  Followed'
<1> DEFINE t == task[k]
           settles == ours(t) /\ live = None /\ pending = None
           pairs == <<<<t.b, t.p>>>>
<1>1. IsTask(t) /\ t.pc = "activated" /\ t.res # "none"
  BY TaskFacts DEF Activated, at_pc
<1>2. UNCHANGED <<types, outside>> /\ wanted' = wanted /\ finish_transition(t)
  BY DEF Activated
<1>3. Inside
  BY <1>2, InsideIs
<1>4. t.pc \in Calling
  BY <1>1 DEF Calling
<1>5. IsList(pairs) /\ Lists(pairs, t.p)
  BY ListsIt
<1>6. PICK n : /\ become(k, n)
               /\ \/ n = finish(t) /\ settles /\ live' = t.b
                  \/ n = settle(t, pairs) /\ live' = live
  BY DEF Activated
<1> HIDE DEF pairs
<1>7. Errand(n, gen, Past) /\ n.pc \notin Entering
  BY <1>1, <1>5, <1>6, FinishErrand, SettleErrand
<1>8. n = settle(t, pairs) => n.pc = "settle" /\ n.fix = pairs
  BY <1>1, <1>5, SettleErrand
<1>9. PassesOn(k, n)
  <2>1. CASE n = finish(t) /\ settles /\ live' = t.b
    <3>1. flight' = None
      BY <1>2, <2>1 DEF finish_transition
    <3>2. live' # None
      BY <2>1, HolderFacts
    <3> QED BY <1>4, <1>6, <2>1, <3>1, <3>2, AnswerPasses
  <2>2. CASE n = settle(t, pairs)
    BY <1>4, <1>5, <1>6, <1>8, <2>2, AnswerPasses
  <2> QED BY <1>6, <2>1, <2>2
<1>10. Spares(n)
  <2>1. CASE ours(t)
    BY <1>1, <2>1, Spared
  <2>2. CASE ~ours(t)
    <3>1. live' = live /\ flight' = flight
      BY <1>2, <1>6, <2>2 DEF finish_transition
    <3> QED BY <1>1, <1>6, <3>1, EasesIs, Sparing
  <2> QED BY <2>1, <2>2
<1> QED BY <1>3, <1>6, <1>7, <1>9, <1>10, PassedOn

\* A step that leaves the tasks and the binding alone.
LEMMA StandsStill ==
    ASSUME IInv, Followed, UNCHANGED <<task, live, vers>>, Undisturbed, wanted'.ver = wanted.ver, Eases
    PROVE  Followed'
<1>1. PICK k : k \in Task
  OBVIOUS
<1>2. PICK n : n = task[k]
  OBVIOUS
<1>3. Turns(k, n)
  BY <1>1, <1>2 DEF Turns
<1>4. vers \in Nat /\ vers' = vers /\ vers <= vers'
  BY BucketFacts
<1>5. Errand(n, gen', Past)
  <2>1. Errand(n, gen, Past) /\ Places /\ Places' /\ \A w \in Worker : gen[w] <= gen'[w]
    BY <1>1, <1>2, ErrandFacts DEF Followed, Undisturbed
  <2> QED BY <2>1, StillErrand
<1>6. PassesOn(k, n)
  BY <1>2 DEF PassesOn
<1>7. Spares(n)
  BY DEF Spares, Covers, ThenCovers, Serving, Eases
<1> QED BY <1>1, <1>2, <1>3, <1>4, <1>5, <1>6, <1>7, Onward

\* A removal: whoever has the binding is called to let it go.
LEMMA UnregisterFollowed ==
    ASSUME IInv, Followed, NEW k \in Task, Unregister(k)
    PROVE  Followed'
<1>1. task[k].pc = "idle" /\ UNCHANGED <<live, vers, types, jobs, open, gen, failed>>
  BY DEF Unregister, free
<1>2. CASE live = None
  <2>1. flight' = None /\ wanted' = removed /\ UNCHANGED task
    BY <1>2 DEF Unregister
  <2>2. wanted'.ver = wanted.ver
    BY <2>1, WantedFields DEF IInv
  <2>3. Undisturbed
    BY <1>1, Alone
  <2> QED BY <1>1, <2>1, <2>2, <2>3, StandsStill DEF Eases
<1>3. CASE live # None
  <2>1. PICK p : p = types[live.ns]
    OBVIOUS
  <2>2. /\ begin_transition(live, TRUE) /\ wanted' = wanted
        /\ become(k, awaiting([Idle EXCEPT !.b = live, !.p = p, !.tok = tokens + 1],
                              "removed", "unbind", p, live))
    BY <1>3, <2>1 DEF Unregister
  <2>3. PICK m : m = [Idle EXCEPT !.b = live, !.p = p, !.tok = tokens + 1]
    OBVIOUS
  <2>4. Bound(m, Idle, live, tokens + 1)
    BY <2>3, IdleTask, WithClaim
  <2>5. m.p = p
    BY <2>3 DEF Idle
  <2>6. PICK n : n = awaiting(m, "removed", "unbind", p, live)
    OBVIOUS
  <2>7. Carries(n, m) /\ n.pc = "removed" /\ Rest(n, m) /\ Called(n, "unbind", p, live)
    BY <2>4, <2>6, Awaits, AwaitRest DEF Bound
  <2>8. n.p = p /\ n.tok = tokens + 1 /\ become(k, n)
    BY <2>2, <2>3, <2>4, <2>5, <2>6, <2>7 DEF Bound, Carries, Rest
  <2>9. Errand(n, gen, Past) /\ n.pc \notin Entering
    BY <2>7, <2>8 DEF Errand, Waiting, Aims, Called, Calling, Entering
  <2>10. PassesOn(k, n)
    BY <1>1, OwesNothing DEF Owing, Calling
  <2>11. Spares(n)
    <3> SUFFICES ASSUME NEW r, Standing(r), Covers(r) PROVE ThenCovers(r)
      BY DEF Spares
    <3>1. live.ns = NsOf[r[1]] /\ r = p /\ r # None
      BY <2>1 DEF Covers, Serving, Standing
    <3>2. Lets(n, r)
      BY <2>7, <2>8, <3>1 DEF Lets, Called
    <3>3. task'[k] = n
      BY <2>8, Turning DEF Turns
    <3>4. flight'.token = tokens + 1
      BY <2>2 DEF begin_transition
    <3> QED BY <1>1, <1>3, <2>8, <3>1, <3>2, <3>3, <3>4 DEF ThenCovers, Serving
  <2> QED BY <1>1, <2>2, <2>8, <2>9, <2>10, <2>11, PassedOn DEF Inside
<1> QED BY <1>2, <1>3

\* Repairing an abandoned removal.
LEMMA RecoverRemovalFollowed ==
    ASSUME IInv, Followed, NEW k \in Task, task[k].pc = "removed", recover_abandoned_removal(k),
           Inside, live' = live
    PROVE  Followed'
<1>1. PICK t, b : t = task[k] /\ b = (IF live # None THEN live ELSE pending)
  OBVIOUS
<1>2. IsTask(t) /\ t = Fields(t)
  BY <1>1, TaskFacts
<1>3. t.pc \notin Owing \cup {"swept"}
  BY <1>1 DEF Owing, Calling
<1>4. \A n : PassesOn(k, n)
  BY <1>1, <1>3, OwesNothing
<1>5. CASE ~ours(t)
  <2>1. flight' = flight /\ become(k, Idle)
    BY <1>1, <1>5 DEF recover_abandoned_removal, finish_transition
  <2>2. Spares(Idle)
    BY <1>1, <1>5, <2>1, EasesIs, Sparing
  <2> QED BY <1>4, <2>1, <2>2, IdleErrand, PassedOn
<1>6. CASE ours(t) /\ b = None
  <2>1. live = None /\ become(k, Idle)
    BY <1>1, <1>6 DEF recover_abandoned_removal
  <2>2. Spares(Idle)
    BY <2>1 DEF Spares, Covers, Serving
  <2> QED BY <1>4, <2>1, <2>2, IdleErrand, PassedOn
<1>7. CASE ours(t) /\ b # None /\ t.p # None /\ types[b.ns] = t.p
  <2>1. flight' = None /\ become(k, settle(t, <<<<b, t.p>>>>))
    BY <1>1, <1>7 DEF recover_abandoned_removal
  <2>2. PICK n : n = settle(t, <<<<b, t.p>>>>)
    OBVIOUS
  <2>3. Errand(n, gen, Past) /\ n.pc \notin Entering
    BY <1>2, <2>2, ListsIt, SettleErrand
  <2>4. Spares(n)
    BY <2>1 DEF Spares, Covers, ThenCovers, Serving
  <2> QED BY <1>4, <2>1, <2>2, <2>3, <2>4, PassedOn
<1>8. CASE ours(t) /\ b # None /\ ~(t.p # None /\ types[b.ns] = t.p)
  <2>1. become(k, [proceed(t, "failover") EXCEPT !.b = b, !.tok = tokens + 1])
    BY <1>1, <1>8 DEF recover_abandoned_removal
  <2>2. PICK m : m = proceed(t, "failover")
    OBVIOUS
  <2>3. m = Fields(m) /\ m.pc = "failover" /\ m.res = "ok"
    BY <1>2, <2>2, Proceeds, ProceedRest DEF Carries, Answered
  <2>4. PICK n : n = [m EXCEPT !.b = b, !.tok = tokens + 1]
    OBVIOUS
  <2>5. n.pc = "failover" /\ n.res = "ok"
    BY <2>3, <2>4 DEF Fields
  <2>6. Errand(n, gen, Past) /\ n.pc \notin Entering
    BY <2>5, NoErrand DEF Owing, Calling, Entering
  <2>7. Spares(n)
    <3> SUFFICES ASSUME NEW r, Standing(r), Covers(r) PROVE FALSE
      BY DEF Spares
    <3>1. Lets(t, r)
      BY <1>1, <1>8, HolderBars
    <3>2. t.p = r
      BY <1>1, <3>1 DEF Lets
    <3>3. live # None /\ b = live /\ types[b.ns] = r /\ r # None
      BY <1>1 DEF Covers, Serving, Standing
    <3> QED BY <1>8, <3>2, <3>3
  <2> QED BY <1>4, <2>1, <2>2, <2>4, <2>6, <2>7, PassedOn
<1> QED BY <1>5, <1>6, <1>7, <1>8

\* A provider's answer to a removal.
LEMMA RemovedFollowed ==
    ASSUME IInv, Followed, NEW k \in Task, Removed(k)
    PROVE  Followed'
<1> DEFINE t == task[k]
<1>1. IsTask(t) /\ t.pc = "removed" /\ t.res # "none" /\ UNCHANGED <<types, outside>>
  BY TaskFacts DEF Removed, at_pc
<1>2. t.pc \notin Owing \cup {"swept"}
  BY <1>1 DEF Owing, Calling
<1>3. CASE t.res # "ok"
  <2>1. recover_abandoned_removal(k) /\ live' = live /\ wanted' = wanted
    BY <1>3 DEF Removed
  <2> QED BY <1>1, <2>1, InsideIs, RecoverRemovalFollowed
<1>4. CASE t.res = "ok" /\ ours(t)
  <2>1. wanted' = removed /\ become(k, Idle)
    BY <1>4 DEF Removed
  <2>2. Inside
    BY <1>1, <2>1, WantedFields DEF Inside, outside, IInv
  <2>3. Spares(Idle)
    BY <1>1, <1>4, Spared
  <2>4. PassesOn(k, Idle)
    BY <1>2, OwesNothing
  <2> QED BY <2>1, <2>2, <2>3, <2>4, IdleErrand, PassedOn
<1>5. CASE t.res = "ok" /\ ~ours(t)
  <2>1. PICK pairs : /\ pairs = <<>> \/ pairs = <<<<t.b, t.p>>>>
                     /\ become(k, settle(t, pairs))
    BY <1>5 DEF Removed
  <2>2. live' = live /\ wanted' = wanted /\ flight' = flight
    BY <1>5 DEF Removed, finish_transition
  <2>3. pairs = <<>> \/ IsList(pairs)
    <3>1. IsList(<<<<t.b, t.p>>>>)
      BY ListsIt
    <3> QED BY <2>1, <3>1
  <2>4. PICK n : n = settle(t, pairs)
    OBVIOUS
  <2>5. Errand(n, gen, Past) /\ n.pc \notin Entering
    BY <1>1, <2>3, <2>4, SettleErrand
  <2> QED BY <1>1, <1>2, <2>1, <2>2, <2>4, <2>5, InsideIs, EasesIs, Bystands
<1> QED BY <1>3, <1>4, <1>5

\* A provider that arrives: nobody has told its new registrator anything.
LEMMA AnnounceFollowed ==
    ASSUME IInv, Followed, NEW k \in Task, NEW w \in Worker, Announce(k, w)
    PROVE  Followed'
<1> DEFINE r == <<w, gen[w] + 1>>
<1>1. /\ task[k].pc = "idle" /\ UNCHANGED <<live, flight, tokens, jobs, open, vers, failed>>
      /\ gen' = [gen EXCEPT ![w] = @ + 1] /\ types' = [types EXCEPT ![NsOf[w]] = r]
  BY DEF Announce, free
<1>2. wanted'.ver = wanted.ver
  BY WantedFields DEF Announce, IInv
<1>3. PICK m : m = proceed(Idle, "match")
  OBVIOUS
<1>4. m = Fields(m) /\ m.pc = "match" /\ m.res = "ok"
  BY <1>3, IdleTask, Proceeds, ProceedRest DEF Carries, Answered
<1>5. PICK n : n = [m EXCEPT !.w = w]
  OBVIOUS
<1>6. n.pc = "match" /\ n.res = "ok"
  BY <1>4, <1>5 DEF Fields
<1>7. Errand(n, gen', Past) /\ n.pc \notin Entering
  BY <1>6, NoErrand DEF Owing, Calling, Entering
<1>8. become(k, n)
  BY <1>3, <1>5 DEF Announce
<1>9. PassesOn(k, n)
  BY <1>1, OwesNothing DEF Owing, Calling
<1>10. Spares(n)
  BY <1>1, <1>8, EasesIs, Sparing
<1>11. /\ DOMAIN jobs = Worker /\ DOMAIN types = Namespaces /\ DOMAIN gen = Worker
       /\ \A x \in Worker : gen[x] \in Nat
  BY DEF Followed, Jobs, Places
<1>12. NsOf[w] \in Namespaces
  OBVIOUS
<1>13. \A x \in Worker : gen'[x] \in Nat /\ gen[x] <= gen'[x]
  BY <1>1, <1>11
<1>14. Places'
  <2>1. ASSUME NEW q \in Namespaces, types'[q] # None
        PROVE  Registered(types'[q], gen') /\ NsOf[types'[q][1]] = q
    <3>1. CASE q = NsOf[w]
      <4>1. types'[q] = r
        BY <1>1, <1>11, <3>1
      <4>2. r[1] = w /\ r[2] = gen'[w] /\ r \in Worker \X Nat
        BY <1>1, <1>11
      <4> HIDE DEF r
      <4> QED BY <1>13, <3>1, <4>1, <4>2 DEF Registered
    <3>2. CASE q # NsOf[w]
      <4>1. types'[q] = types[q]
        BY <1>1, <1>11, <3>2
      <4>2. Registered(types[q], gen) /\ NsOf[types[q][1]] = q
        BY <2>1, <4>1, PlaceFacts
      <4>3. types[q][1] \in Worker /\ types[q][2] \in Nat /\ types[q][2] <= gen[types[q][1]]
        BY <4>2 DEF Registered
      <4>4. types[q][2] <= gen'[types[q][1]]
        BY <1>11, <1>13, <4>3
      <4> QED BY <4>1, <4>2, <4>4 DEF Registered
    <3> QED BY <3>1, <3>2
  <2> QED BY <1>13, <2>1 DEF Places
<1>15. ASSUME NEW x \in Worker, Replayed(x), jobs[x].p = types'[NsOf[x]]
       PROVE  jobs[x].p = types[NsOf[x]]
  <2>1. jobs[x].p[1] = x /\ jobs[x].p[2] <= gen[x]
    BY <1>15 DEF Followed, Jobs, Registered
  <2>2. r[1] = w /\ r[2] = gen[w] + 1
    OBVIOUS
  <2>3. ~(gen[w] + 1 <= gen[w])
    BY <1>11
  <2>4. jobs[x].p # r
    BY <2>1, <2>2, <2>3
  <2> HIDE DEF r
  <2> QED BY <1>1, <1>11, <1>12, <1>15, <2>4
<1>16. Undisturbed
  <2>1. DOMAIN types' = Namespaces /\ DOMAIN gen' = Worker
    BY <1>1, <1>11
  <2> QED BY <1>1, <1>11, <1>13, <1>14, <1>15, <2>1 DEF Undisturbed
<1>17. vers \in Nat /\ vers' = vers /\ vers <= vers'
  BY <1>1, BucketFacts
<1> QED BY <1>2, <1>7, <1>8, <1>9, <1>10, <1>16, <1>17, Turning, Onward

\* Matching a provider with what is in force.
LEMMA MatchFollowed ==
    ASSUME IInv, Followed, NEW k \in Task, Match(k)
    PROVE  Followed'
<1> DEFINE t == task[k]
<1>1. t = Fields(t) /\ t.pc = "match" /\ t.w \in Worker
  BY TaskFacts DEF Match, at_pc, IsTask
<1>2. UNCHANGED <<types, outside>> /\ wanted' = wanted /\ live' = live /\ flight' = flight
  BY DEF Match, registry
<1>3. PICK ns, p : ns = NsOf[t.w] /\ p = types[ns] /\ ns \in Namespaces
  BY <1>1
<1>4. PICK m : m = [t EXCEPT !.p = p, !.then = "rehome"]
  OBVIOUS
<1>5. Follows(m, t, "rehome") /\ m.p = p
  <2>1. m.p = p
    BY <1>1, <1>4 DEF Fields
  <2> QED BY <1>1, <1>4, <2>1, WithProvider
<1>6. PICK n : /\ n = Idle \/ n = awaiting(m, "drain", "again", p, live) \/ n = proceed(m, "drain")
               /\ become(k, n)
  BY <1>3, <1>4 DEF Match
<1>7. m = Fields(m) /\ m.w = t.w
  BY <1>5 DEF Follows, Carries
<1>8. ASSUME n # Idle
      PROVE  /\ n.pc = "drain" /\ n.w = t.w /\ n.p = p
             /\ n.res = "ok" \/ (n.res = "none" /\ n.call.kind = "again" /\ n.call.p = p /\ p # None)
  BY <1>5, <1>6, <1>7, <1>8, Awaits, AwaitRest, Proceeds, ProceedRest DEF Carries, Rest, Called, Answered
<1>9. p # None => Registered(p, gen) /\ NsOf[p[1]] = ns
  BY <1>3, PlaceFacts
<1>10. Errand(n, gen, Past) /\ n.pc \notin Entering
  <2>1. CASE n = Idle
    BY <2>1, IdleErrand
  <2>2. CASE n # Idle
    BY <1>3, <1>8, <1>9, <2>2 DEF Errand, Waiting, Aims, Calling, Entering
  <2> QED BY <2>1, <2>2
<1>11. t.pc \notin Owing
  BY <1>1 DEF Owing, Calling
<1> QED BY <1>1, <1>2, <1>6, <1>10, <1>11, InsideIs, EasesIs, Bystands

\* Draining what is parked.
LEMMA DrainFollowed ==
    ASSUME IInv, Followed, NEW k \in Task, DrainPending(k)
    PROVE  Followed'
<1> DEFINE t == task[k]
           ns == NsOf[t.w]
           found == pending # None /\ resolve_provider_key(pending) = ns
<1>1. IsTask(t) /\ t.pc = "drain" /\ t.w \in Worker /\ ns \in Namespaces
  BY TaskFacts DEF DrainPending, at_pc, IsTask
<1>2. UNCHANGED <<types, outside>> /\ wanted' = wanted /\ live' = live /\ flight' = flight
  BY DEF DrainPending, registry
<1>3. t.pc \notin Owing \cup {"swept", "removed", "detached"}
  BY <1>1 DEF Owing, Calling
<1>4. t.p # None => Registered(t.p, gen) /\ NsOf[t.p[1]] = ns
  BY <1>1, ErrandFacts DEF Errand, Aims
<1>5. CASE found
  <2>1. become(k, claiming(t, at(pending, ns), t.p))
    BY <1>5 DEF DrainPending
  <2>2. at(pending, ns).ns = ns
    BY <1>5, BucketFacts DEF at, Binding
  <2> HIDE DEF ns
  <2> QED BY <1>2, <1>3, <1>4, <2>1, <2>2, InsideIs, FoundFollowed
<1>6. CASE ~found
  <2>1. become(k, finish(t))
    BY <1>6 DEF DrainPending
  <2>2. PICK n : n = finish(t)
    OBVIOUS
  <2>3. Errand(n, gen, Past) /\ n.pc \notin Entering
    BY <1>1, <2>2, FinishErrand
  <2> QED BY <1>2, <1>3, <2>1, <2>2, <2>3, InsideIs, EasesIs, Bystands
<1> QED BY <1>5, <1>6

\* A re-homing: the old provider is called to let go first.
LEMMA RehomeFollowed ==
    ASSUME IInv, Followed, NEW k \in Task, Rehome(k)
    PROVE  Followed'
<1> DEFINE t == task[k]
           moves == /\ t.w = None \/ NsOf[t.w] = Home
                    /\ types[Home] # None /\ live # None /\ is_on_fallback(live) /\ flight = None
<1>1. t = Fields(t) /\ t.pc = "rehome"
  BY TaskFacts DEF Rehome, at_pc
<1>2. UNCHANGED <<types, outside>> /\ wanted' = wanted /\ live' = live
  BY DEF Rehome
<1>3. t.pc \notin Owing \cup {"swept"} /\ t.pc \notin {"removed", "detached"}
  BY <1>1 DEF Owing, Calling
<1>4. CASE ~moves
  <2>1. become(k, Idle) /\ flight' = flight
    BY <1>4 DEF Rehome
  <2> QED BY <1>2, <1>3, <2>1, InsideIs, EasesIs, IdleFollowed
<1>5. CASE moves
  <2>1. live \in Binding /\ live # None /\ live.ver = wanted.ver /\ wanted.ver \in Nat /\ types[Home] # None
    BY <1>5, BucketFacts
  <2>2. PICK b, h, q : b = at(live, Home) /\ h = types[Home] /\ q = types[live.ns]
    OBVIOUS
  <2>3. b.ver = wanted.ver /\ b.ns = Home
    BY <2>1, <2>2, AtTyped DEF Namespaces, at, Binding
  <2>4. Registered(h, gen) /\ NsOf[h[1]] = Home
    BY <2>1, <2>2, PlaceFacts DEF Namespaces
  <2>5. begin_transition(b, FALSE)
    BY <1>5, <2>2 DEF Rehome
  <2>6. PICK m : m = [t EXCEPT !.p = h, !.tok = tokens + 1, !.b = b, !.src = live, !.srcp = q]
    OBVIOUS
  <2>7. Bound(m, t, b, tokens + 1)
    BY <1>1, <2>6, WithMove
  <2>8. m.p = h /\ m.src = live /\ m.srcp = q
    BY <1>1, <2>6 DEF Fields
  <2>9. PICK n : /\ become(k, n)
                 /\ \/ q # None /\ n = awaiting(m, "detached", "unbind", q, live)
                    \/ q = None /\ n = awaiting(m, "rehomed", "replay", h, b)
    BY <1>5, <2>2, <2>6 DEF Rehome
  <2>10. /\ Carries(n, m) /\ Rest(n, m)
         /\ \/ q # None /\ n.pc = "detached" /\ Called(n, "unbind", q, live)
            \/ q = None /\ n.pc = "rehomed" /\ Called(n, "replay", h, b)
    BY <2>7, <2>9, Awaits, AwaitRest DEF Bound
  <2>11. n.tok = tokens + 1 /\ n.b = b /\ n.p = h /\ n.src = live /\ n.srcp = q
    BY <2>7, <2>8, <2>10 DEF Bound, Carries, Rest
  <2>12. Waiting(n, Past)
    <3>1. wanted.ver \in Past
      BY DEF Followed, Newcomers
    <3> QED BY <2>3, <2>10, <2>11, <3>1 DEF Waiting, Called, Calling
  <2>13. Aims(n, gen) /\ n.pc \notin Entering
    BY <2>1, <2>3, <2>4, <2>10, <2>11 DEF Aims, Calling, Entering
  <2>14. PassesOn(k, n)
    BY <1>3, OwesNothing
  <2>15. Spares(n)
    <3> SUFFICES ASSUME NEW r, Standing(r), Covers(r) PROVE ThenCovers(r)
      BY DEF Spares
    <3>1. live.ns = NsOf[r[1]] /\ r = q /\ r # None
      BY <2>2 DEF Covers, Serving, Standing
    <3>2. Lets(n, r)
      BY <2>10, <2>11, <3>1 DEF Lets, Called
    <3>3. task'[k] = n
      BY <2>9, Turning DEF Turns
    <3>4. flight'.token = tokens + 1
      BY <2>5 DEF begin_transition
    <3> QED BY <1>2, <2>1, <2>11, <3>1, <3>2, <3>3, <3>4 DEF ThenCovers, Serving
  <2> QED BY <1>2, <2>9, <2>12, <2>13, <2>14, <2>15, InsideIs, PassedOn DEF Errand
<1> QED BY <1>4, <1>5

\* Both sides of a move are listed.
LEMMA BothListed ==
    ASSUME NEW t
    PROVE  IsList(both(t)) /\ Lists(both(t), t.p)
<1>1. CASE t.srcp = None
  <2>1. both(t) = <<<<t.b, t.p>>>>
    BY <1>1, Listed DEF both
  <2>2. IsList(<<<<t.b, t.p>>>>) /\ Lists(<<<<t.b, t.p>>>>, t.p)
    BY ListsIt
  <2> QED BY <2>1, <2>2
<1>2. CASE t.srcp # None
  <2>1. PICK x, q : x = <<t.b, t.p>> /\ q = <<t.src, t.srcp>>
    OBVIOUS
  <2>2. both(t) = <<x>> \o <<q>>
    BY <1>2, <2>1 DEF both
  <2>3. both(t) = <<x, q>>
    BY <2>2, Listed
  <2>4. IsList(<<<<t.b, t.p>>, q>>) /\ Lists(<<<<t.b, t.p>>, q>>, t.p)
    BY ListsFirst
  <2> QED BY <2>1, <2>3, <2>4
<1> QED BY <1>1, <1>2

\* The re-homing's second half: the new provider is called.
LEMMA RehomeDetachedFollowed ==
    ASSUME IInv, Followed, NEW k \in Task, RehomeDetached(k)
    PROVE  Followed'
<1> DEFINE t == task[k]
<1>1. t = Fields(t) /\ IsTask(t) /\ t.pc = "detached" /\ t.res # "none"
  BY TaskFacts DEF RehomeDetached, at_pc
<1>2. UNCHANGED <<types, outside>> /\ wanted' = wanted /\ live' = live
  BY DEF RehomeDetached
<1>3. t.pc \notin Owing \cup {"swept"}
  BY <1>1 DEF Owing, Calling
<1>4. CASE t.res = "ok" /\ ours(t)
  <2>1. become(k, awaiting(t, "rehomed", "replay", t.p, t.b))
    BY <1>4 DEF RehomeDetached
  <2>2. PICK n : n = awaiting(t, "rehomed", "replay", t.p, t.b)
    OBVIOUS
  <2>3. Carries(n, t) /\ n.pc = "rehomed" /\ Rest(n, t) /\ Called(n, "replay", t.p, t.b)
    BY <1>1, <2>2, Awaits, AwaitRest
  <2>4. t.b.ver = wanted.ver /\ wanted.ver \in Nat
    BY <1>1, <1>4, HolderFacts, BucketFacts
  <2>5. t.b.ver \in Past
    BY <2>4 DEF Followed, Newcomers
  <2>6. t.p # None => Registered(t.p, gen) /\ t.b.ns = NsOf[t.p[1]]
    BY <1>1, ErrandFacts DEF Errand, Aims
  <2>7. n.p = t.p /\ n.b = t.b
    BY <2>3 DEF Carries, Rest
  <2>8. Errand(n, gen, Past) /\ n.pc \notin Entering
    BY <2>3, <2>5, <2>6, <2>7 DEF Errand, Waiting, Aims, Called, Calling, Entering
  <2>9. PassesOn(k, n) /\ Spares(n)
    BY <1>1, <1>3, <1>4, OwesNothing, Spared
  <2> QED BY <1>2, <2>1, <2>2, <2>8, <2>9, InsideIs, PassedOn
<1>5. CASE ~(t.res = "ok" /\ ours(t))
  <2>1. become(k, settle(t, both(t))) /\ (flight' = flight \/ flight' = None)
    BY <1>5 DEF RehomeDetached, finish_transition
  <2>2. PICK n : n = settle(t, both(t))
    OBVIOUS
  <2>3. Errand(n, gen, Past) /\ n.pc \notin Entering
    BY <1>1, <2>2, BothListed, SettleErrand
  <2> QED BY <1>1, <1>2, <1>3, <2>1, <2>2, <2>3, InsideIs, EasesIs, Bystands
<1> QED BY <1>4, <1>5

\* The new provider's answer to a re-homing.
LEMMA RehomedFollowed ==
    ASSUME IInv, Followed, NEW k \in Task, Rehomed(k)
    PROVE  Followed'
<1> DEFINE t == task[k]
           one == <<<<t.b, t.p>>>>
<1>1. IsTask(t) /\ t.pc = "rehomed" /\ t.res # "none" /\ t.pc \in Calling
  BY TaskFacts DEF Rehomed, at_pc, Calling
<1>2. UNCHANGED <<types, outside>> /\ wanted' = wanted /\ finish_transition(t)
  BY DEF Rehomed
<1>3. IsList(one) /\ Lists(one, t.p) /\ IsList(both(t)) /\ Lists(both(t), t.p)
  BY ListsIt, BothListed
<1>4. PICK n : /\ become(k, n)
               /\ \/ n = settle(t, both(t)) /\ ~ours(t) /\ live' = live
                  \/ n = finish(t) /\ ours(t) /\ live' = t.b
                  \/ n = settle(t, one) /\ ours(t)
  BY DEF Rehomed
<1> HIDE DEF one
<1>5. Errand(n, gen, Past) /\ n.pc \notin Entering
  BY <1>1, <1>3, <1>4, FinishErrand, SettleErrand
<1>6. PassesOn(k, n)
  <2>1. CASE n = finish(t) /\ ours(t) /\ live' = t.b
    <3>1. flight' = None /\ live' # None
      BY <1>2, <2>1, HolderFacts DEF finish_transition
    <3> QED BY <1>1, <1>4, <2>1, <3>1, AnswerPasses
  <2>2. CASE n = settle(t, one) \/ n = settle(t, both(t))
    <3>1. n.pc = "settle" /\ Lists(n.fix, t.p)
      BY <1>1, <1>3, <2>2, SettleErrand
    <3> QED BY <1>1, <1>4, <3>1, AnswerPasses
  <2> QED BY <1>4, <2>1, <2>2
<1>7. Spares(n)
  <2>1. CASE ours(t)
    BY <1>1, <2>1, Spared
  <2>2. CASE ~ours(t)
    <3>1. live' = live /\ flight' = flight
      BY <1>2, <1>4, <2>2 DEF finish_transition
    <3> QED BY <1>4, <2>2, <3>1, EasesIs, Sparing
  <2> QED BY <2>1, <2>2
<1> QED BY <1>2, <1>4, <1>5, <1>6, <1>7, InsideIs, PassedOn

\* The provider of a type goes, and its binding is claimed.
LEMMA TakeFollowed ==
    ASSUME IInv, Followed, NEW k \in Task, NEW w \in Worker, take(k, w), live' = live, vers' = vers,
           wanted'.ver = wanted.ver, UNCHANGED <<open, gen, failed>>,
           jobs' = jobs \/ jobs' = [jobs EXCEPT ![w] = None],
           task[k].pc \notin Owing \cup {"swept", "removed", "detached"}
    PROVE  Followed'
<1> DEFINE orphan == live # None /\ live.ns = NsOf[w] /\ ~removing
<1>1. types' = [types EXCEPT ![NsOf[w]] = None] /\ NsOf[w] \in Namespaces
  BY DEF take
<1>2. /\ DOMAIN jobs = Worker /\ DOMAIN types = Namespaces /\ DOMAIN gen = Worker
      /\ \A x \in Worker : gen[x] \in Nat
  BY DEF Followed, Jobs, Places
<1>3. types'[NsOf[w]] = None /\ \A q \in Namespaces : q # NsOf[w] => types'[q] = types[q]
  BY <1>1, <1>2
<1>4. Undisturbed
  <2>1. Places'
    BY <1>3 DEF Followed, Places
  <2>2. \A x \in Worker : Replayed(x) /\ jobs[x].p = types'[NsOf[x]] => jobs[x].p = types[NsOf[x]]
    BY <1>3 DEF Followed, Jobs
  <2>3. DOMAIN jobs' = Worker /\ DOMAIN types' = Namespaces /\ \A x \in Worker : jobs'[x] \in {jobs[x], None}
    BY <1>1, <1>2
  <2> QED BY <1>2, <2>1, <2>2, <2>3 DEF Undisturbed
<1>5. PICK n : /\ become(k, n)
               /\ \/ n = Idle /\ flight' = flight
                  \/ n = [proceed(Idle, "failover") EXCEPT !.b = live, !.tok = tokens + 1] /\ orphan
  BY DEF take
<1>6. Errand(n, gen, Past) /\ n.pc \notin Entering
  <2>1. CASE n = Idle
    BY <2>1, IdleErrand
  <2>2. CASE n = [proceed(Idle, "failover") EXCEPT !.b = live, !.tok = tokens + 1]
    <3>1. PICK m : m = proceed(Idle, "failover")
      OBVIOUS
    <3>2. m = Fields(m) /\ m.pc = "failover" /\ m.res = "ok"
      BY <3>1, IdleTask, Proceeds, ProceedRest DEF Carries, Answered
    <3>3. n.pc = "failover" /\ n.res = "ok"
      BY <2>2, <3>1, <3>2 DEF Fields
    <3> QED BY <3>3, NoErrand DEF Owing, Calling, Entering
  <2> QED BY <1>5, <2>1, <2>2
<1>7. PassesOn(k, n)
  BY OwesNothing
<1>8. Spares(n)
  <2>1. CASE flight' = flight
    BY <1>5, <2>1, EasesIs, Sparing
  <2>2. CASE orphan
    BY <1>3, <2>2 DEF Spares, Standing, Covers, Serving
  <2> QED BY <1>5, <2>1, <2>2
<1>9. vers \in Nat /\ vers <= vers'
  BY BucketFacts
<1> QED BY <1>4, <1>5, <1>6, <1>7, <1>8, <1>9, Turning, Onward

\* A provider gives up the type.
LEMMA RetireFollowed ==
    ASSUME IInv, Followed, NEW k \in Task, NEW w \in Worker, Retire(k, w)
    PROVE  Followed'
<1>1. /\ task[k].pc = "idle" /\ take(k, w) /\ jobs' = [jobs EXCEPT ![w] = None]
      /\ UNCHANGED <<live, open, gen, vers, failed, wanted>>
  BY DEF Retire, free
<1>2. task[k].pc \notin Owing \cup {"swept", "removed", "detached"}
  BY <1>1 DEF Owing, Calling
<1> QED BY <1>1, <1>2, TakeFollowed

\* A binding whose provider went looks for another.
LEMMA FailOverFollowed ==
    ASSUME IInv, Followed, NEW k \in Task, FailOver(k)
    PROVE  Followed'
<1>1. PICK t, ns : t = task[k] /\ ns = resolve_provider_key(t.b)
  OBVIOUS
<1>2. t = Fields(t) /\ t.pc = "failover" /\ t.res # "none"
  BY <1>1, TaskFacts DEF FailOver, at_pc
<1>3. UNCHANGED <<types, outside>> /\ wanted' = wanted /\ live' = live
  BY DEF FailOver
<1>4. t.pc \notin Owing \cup {"swept", "removed", "detached"}
  BY <1>2 DEF Owing, Calling
<1>5. CASE ~ours(t)
  <2>1. become(k, Idle) /\ flight' = flight
    BY <1>1, <1>5 DEF FailOver
  <2> QED BY <1>1, <1>2, <1>3, <1>4, <2>1, InsideIs, EasesIs, IdleFollowed
<1>6. CASE ours(t)
  <2>1. t.b \in Binding /\ t.b.ver = wanted.ver /\ wanted.ver \in Nat
    BY <1>1, <1>2, <1>6, HolderFacts, BucketFacts
  <2>2. ns \in Namespaces \cup {None}
    BY <1>1, <2>1, Resolves
  <2>3. PICK b, p : /\ b = (IF ns = None THEN t.b ELSE at(t.b, ns))
                    /\ p = (IF ns = None THEN None ELSE types[ns])
    OBVIOUS
  <2>4. b.ver \in Past
    BY <2>1, <2>2, <2>3, AtTyped DEF Followed, Newcomers
  <2>5. p # None => Registered(p, gen) /\ NsOf[p[1]] = b.ns
    <3> SUFFICES ASSUME p # None PROVE Registered(p, gen) /\ NsOf[p[1]] = b.ns
      OBVIOUS
    <3>1. ns \in Namespaces /\ b = at(t.b, ns) /\ p = types[ns]
      BY <2>2, <2>3
    <3>2. b.ns = ns
      BY <2>1, <3>1 DEF at, Binding
    <3> QED BY <3>1, <3>2, PlaceFacts
  <2>6. /\ flight' = [flight EXCEPT !.target = b]
        /\ become(k, awaiting([t EXCEPT !.b = b, !.p = p], "moved", "replay", p, b))
    BY <1>1, <1>6, <2>3 DEF FailOver
  <2>7. PICK m : m = [t EXCEPT !.b = b, !.p = p]
    OBVIOUS
  <2>8. Bound(m, t, b, t.tok) /\ m.p = p
    <3>1. m.p = p
      BY <1>2, <2>7 DEF Fields
    <3> QED BY <1>2, <2>7, <3>1, WithTarget
  <2>9. PICK n : n = awaiting(m, "moved", "replay", p, b)
    OBVIOUS
  <2>10. Carries(n, m) /\ n.pc = "moved" /\ Rest(n, m) /\ Called(n, "replay", p, b)
    BY <2>8, <2>9, Awaits, AwaitRest DEF Bound
  <2>11. n.p = p /\ n.b = b
    BY <2>8, <2>10 DEF Bound, Carries, Rest
  <2>12. Errand(n, gen, Past) /\ n.pc \notin Entering
    BY <2>4, <2>5, <2>10, <2>11 DEF Errand, Waiting, Aims, Called, Calling, Entering
  <2>13. PassesOn(k, n) /\ Spares(n)
    BY <1>1, <1>2, <1>4, <1>6, OwesNothing, Spared
  <2> QED BY <1>3, <2>6, <2>7, <2>9, <2>12, <2>13, InsideIs, PassedOn
<1> QED BY <1>5, <1>6

\* The other provider's answer.
LEMMA FailedOverFollowed ==
    ASSUME IInv, Followed, NEW k \in Task, FailedOver(k)
    PROVE  Followed'
<1> DEFINE t == task[k]
           moved == ours(t) /\ t.p # None /\ t.res = "ok"
           one == <<<<t.b, t.p>>>>
<1>1. IsTask(t) /\ t = Fields(t) /\ t.pc = "moved" /\ t.res # "none" /\ t.pc \in Calling
  BY TaskFacts DEF FailedOver, at_pc, Calling
<1>2. /\ UNCHANGED <<types, outside>> /\ wanted' = wanted /\ finish_transition(t)
      /\ live' = (IF moved THEN t.b ELSE IF ours(t) THEN None ELSE live)
  BY DEF FailedOver
<1>3. IsList(one) /\ Lists(one, t.p)
  BY ListsIt
<1>4. PICK n : /\ become(k, n)
               /\ \/ n = proceed(t, "rehome") /\ moved
                  \/ n = settle(t, <<>>) /\ (moved \/ t.p = None)
                  \/ n = settle(t, one) /\ ~moved
  BY DEF FailedOver
<1>5. ASSUME moved PROVE flight' = None /\ live' = t.b /\ live' # None
  BY <1>2, <1>5, HolderFacts DEF finish_transition
<1>6. ours(t) \/ (live' = live /\ flight' = flight)
  BY <1>2 DEF finish_transition
<1> HIDE DEF one, moved
<1>7. Errand(n, gen, Past) /\ n.pc \notin Entering
  <2>1. CASE n = proceed(t, "rehome")
    <3>1. n.pc = "rehome" /\ n.res = "ok"
      BY <1>1, <2>1, Proceeds, ProceedRest DEF Answered
    <3> QED BY <3>1, NoErrand DEF Owing, Calling, Entering
  <2>2. CASE n = settle(t, <<>>) \/ n = settle(t, one)
    BY <1>1, <1>3, <2>2, SettleErrand
  <2> QED BY <1>4, <2>1, <2>2
<1>8. PassesOn(k, n)
  <2>1. CASE moved
    BY <1>1, <1>4, <1>5, <2>1, AnswerPasses
  <2>2. CASE t.p = None
    BY <1>1, <1>4, <2>2, AnswerPasses
  <2>3. CASE n = settle(t, one)
    <3>1. n.pc = "settle" /\ Lists(n.fix, t.p)
      BY <1>1, <1>3, <2>3, SettleErrand
    <3> QED BY <1>1, <1>4, <3>1, AnswerPasses
  <2> QED BY <1>4, <2>1, <2>2, <2>3
<1>9. Spares(n)
  <2>1. CASE ours(t)
    BY <1>1, <2>1, Spared
  <2>2. CASE ~ours(t)
    BY <1>4, <1>6, <2>2, EasesIs, Sparing
  <2> QED BY <2>1, <2>2
<1> QED BY <1>2, <1>4, <1>7, <1>8, <1>9, InsideIs, PassedOn

\* A connection ends, and with it what it runs.
LEMMA CloseFollowed ==
    ASSUME IInv, Followed, NEW c, Close(c)
    PROVE  Followed'
<1>1. /\ open' = open \ {c} /\ jobs' = [w \in Worker |-> IF w = c THEN None ELSE jobs[w]]
      /\ UNCHANGED <<types, live, flight, task, gen, vers, failed, wanted>>
  BY DEF Close, registry
<1>2. Undisturbed
  <2>1. Places'
    BY <1>1 DEF Followed, Places
  <2>2. \A w \in Worker : gen[w] <= gen'[w]
    BY <1>1 DEF Followed, Places
  <2>3. DOMAIN jobs' = Worker /\ \A w \in Worker : jobs'[w] \in {jobs[w], None}
    BY <1>1
  <2> QED BY <1>1, <2>1, <2>2, <2>3 DEF Undisturbed, Followed, Jobs
<1> QED BY <1>1, <1>2, EasesIs, StandsStill

\* The cleanup of a connection begins.
LEMMA CleanupFollowed ==
    ASSUME IInv, Followed, NEW k \in Task, NEW c, Cleanup(k, c)
    PROVE  Followed'
<1>1. /\ task[k].pc = "idle" /\ UNCHANGED <<types, live, outside>>
      /\ flight' = flight \/ flight' = None
      /\ wanted' = removed \/ wanted' = wanted
  BY DEF Cleanup, free
<1>2. Inside
  BY <1>1, WantedFields DEF Inside, outside, IInv
<1>3. PICK x : become(k, [proceed(Idle, "sweep") EXCEPT !.w = c, !.b = x])
  BY DEF Cleanup
<1>4. PICK m : m = proceed(Idle, "sweep")
  OBVIOUS
<1>5. m = Fields(m) /\ m.pc = "sweep" /\ m.res = "ok"
  BY <1>4, IdleTask, Proceeds, ProceedRest DEF Carries, Answered
<1>6. PICK n : n = [m EXCEPT !.w = c, !.b = x]
  OBVIOUS
<1>7. n.pc = "sweep" /\ n.res = "ok"
  BY <1>5, <1>6 DEF Fields
<1>8. Errand(n, gen, Past) /\ n.pc \notin Entering
  BY <1>7, NoErrand DEF Owing, Calling, Entering
<1>9. task[k].pc \notin Owing \cup {"swept", "removed", "detached"}
  BY <1>1 DEF Owing, Calling
<1>10. Eases
  BY <1>1, EasesIs
<1> QED BY <1>1, <1>2, <1>3, <1>4, <1>6, <1>8, <1>9, <1>10, Bystands

\* An owner's binding is taken out of force, and its provider called.
LEMMA SweepFollowed ==
    ASSUME IInv, Followed, NEW k \in Task, Sweep(k)
    PROVE  Followed'
<1> DEFINE t == task[k]
           sweeps == t.b # None /\ live # None /\ live.owner = t.w
<1>1. t = Fields(t) /\ t.pc = "sweep" /\ UNCHANGED <<types, outside>>
  BY TaskFacts DEF Sweep, at_pc
<1>2. t.pc \notin Owing \cup {"swept", "removed", "detached"}
  BY <1>1 DEF Owing, Calling
<1>3. CASE sweeps
  <2>1. PICK p : p = types[live.ns]
    OBVIOUS
  <2>2. /\ wanted' = removed
        /\ become(k, awaiting([t EXCEPT !.b = live, !.p = p], "swept", "unbind", p, live))
    BY <1>3, <2>1 DEF Sweep
  <2>3. Inside
    BY <1>1, <2>2, WantedFields DEF Inside, outside, IInv
  <2>4. PICK m : m = [t EXCEPT !.b = live, !.p = p]
    OBVIOUS
  <2>5. Bound(m, t, live, t.tok) /\ m.p = p
    <3>1. m.p = p
      BY <1>1, <2>4 DEF Fields
    <3> QED BY <1>1, <2>4, <3>1, WithTarget
  <2>6. PICK n : n = awaiting(m, "swept", "unbind", p, live)
    OBVIOUS
  <2>7. n.pc = "swept" /\ Rest(n, m) /\ Called(n, "unbind", p, live)
    BY <2>5, <2>6, Awaits, AwaitRest DEF Bound
  <2>8. n.p = p
    BY <2>5, <2>7 DEF Rest
  <2>9. Errand(n, gen, Past) /\ n.pc \notin Entering
    BY <2>7, <2>8 DEF Errand, Waiting, Aims, Called, Calling, Entering
  <2>10. PassesOn(k, n)
    BY <1>2, OwesNothing
  <2>11. Spares(n)
    <3> SUFFICES ASSUME NEW r, Standing(r), Covers(r) PROVE Owes(n, r)
      BY DEF Spares
    <3>1. r = p /\ r # None
      BY <2>1 DEF Covers, Serving, Standing
    <3> QED BY <2>7, <2>8, <3>1 DEF Owes, Called
  <2> QED BY <2>2, <2>3, <2>4, <2>6, <2>9, <2>10, <2>11, PassedOn
<1>4. CASE ~sweeps
  <2>1. become(k, proceed(t, "types")) /\ live' = live /\ flight' = flight /\ wanted' = wanted
    BY <1>4 DEF Sweep
  <2>2. PICK n : n = proceed(t, "types")
    OBVIOUS
  <2>3. n.pc = "types" /\ n.res = "ok"
    BY <1>1, <2>2, Proceeds, ProceedRest DEF Answered
  <2>4. Errand(n, gen, Past) /\ n.pc \notin Entering
    BY <2>3, NoErrand DEF Owing, Calling, Entering
  <2> QED BY <1>1, <1>2, <2>1, <2>2, <2>4, InsideIs, EasesIs, Bystands
<1> QED BY <1>3, <1>4

\* The provider's answer to a sweep.
LEMMA SweptFollowed ==
    ASSUME IInv, Followed, NEW k \in Task, Swept(k)
    PROVE  Followed'
<1> DEFINE t == task[k]
<1>1. t = Fields(t) /\ IsTask(t) /\ t.pc = "swept" /\ t.res # "none"
  BY TaskFacts DEF Swept, at_pc
<1>2. UNCHANGED <<types, outside>> /\ wanted' = wanted /\ live' = live /\ flight' = flight
  BY DEF Swept, registry
<1>3. PICK m, pairs : /\ m = [t EXCEPT !.then = "types"] /\ become(k, settle(m, pairs))
                      /\ pairs = <<>> \/ pairs = <<<<t.b, t.p>>>>
  BY DEF Swept
<1>4. IsTask(m)
  <2>1. Carries(m, t) /\ m.pc = t.pc /\ m.then = "types"
    BY <1>1, <1>3, WithThen
  <2> QED BY <1>1, <2>1 DEF Carries, IsTask
<1>5. pairs = <<>> \/ IsList(pairs)
  <2>1. IsList(<<<<t.b, t.p>>>>)
    BY ListsIt
  <2> QED BY <1>3, <2>1
<1>6. PICK n : n = settle(m, pairs)
  OBVIOUS
<1>7. Errand(n, gen, Past) /\ n.pc \notin Entering
  BY <1>4, <1>5, <1>6, SettleErrand
<1>8. t.pc \notin Owing
  BY <1>1 DEF Owing, Calling
<1> QED BY <1>1, <1>2, <1>3, <1>6, <1>7, <1>8, InsideIs, EasesIs, Bystands

\* The types of a connection go.
LEMMA SweepTypesFollowed ==
    ASSUME IInv, Followed, NEW k \in Task, SweepTypes(k)
    PROVE  Followed'
<1> DEFINE c == task[k].w
<1>1. /\ task[k].pc = "types" /\ UNCHANGED <<live, jobs, open, gen, vers, failed>>
      /\ wanted' = removed \/ wanted' = wanted
  BY DEF SweepTypes, at_pc
<1>2. wanted'.ver = wanted.ver
  BY <1>1, WantedFields DEF IInv
<1>3. task[k].pc \notin Owing \cup {"swept", "removed", "detached"}
  BY <1>1 DEF Owing, Calling
<1>4. CASE c \in Worker /\ provides(c)
  <2>1. take(k, c)
    BY <1>4 DEF SweepTypes
  <2> QED BY <1>1, <1>2, <1>3, <1>4, <2>1, TakeFollowed
<1>5. CASE ~(c \in Worker /\ provides(c))
  <2>1. become(k, Idle) /\ types' = types /\ flight' = flight
    BY <1>5 DEF SweepTypes
  <2>2. Inside
    BY <1>1, <1>2, <2>1 DEF Inside
  <2> QED BY <1>1, <1>3, <2>1, <2>2, EasesIs, IdleFollowed
<1> QED BY <1>4, <1>5

\* A provider reports that it could not take the binding.
LEMMA RejectFollowed ==
    ASSUME IInv, Followed, NEW k \in Task, NEW w \in Worker, Reject(k, w)
    PROVE  Followed'
<1>1. /\ task[k].pc = "idle" /\ UNCHANGED <<types, live, flight, open, gen, vers, wanted>>
      /\ jobs' = [jobs EXCEPT ![w] = None] /\ failed' = failed \cup {w}
  BY DEF Reject, free, registry
<1>2. PICK m : m = proceed(Idle, "reject")
  OBVIOUS
<1>3. m = Fields(m) /\ m.pc = "reject" /\ m.res = "ok"
  BY <1>2, IdleTask, Proceeds, ProceedRest DEF Carries, Answered
<1>4. PICK n : n = [m EXCEPT !.w = w]
  OBVIOUS
<1>5. n.pc = "reject" /\ n.res = "ok"
  BY <1>3, <1>4 DEF Fields
<1>6. Errand(n, gen, Past) /\ n.pc \notin Entering
  BY <1>5, NoErrand DEF Owing, Calling, Entering
<1>7. become(k, n)
  BY <1>2, <1>4 DEF Reject
<1>8. PassesOn(k, n) /\ Spares(n)
  BY <1>1, <1>7, OwesNothing, EasesIs, Sparing DEF Owing, Calling
<1>9. Undisturbed
  <2>1. Places'
    BY <1>1 DEF Followed, Places
  <2>2. \A x \in Worker : gen[x] <= gen'[x]
    BY <1>1 DEF Followed, Places
  <2>3. DOMAIN jobs' = Worker /\ \A x \in Worker : jobs'[x] \in {jobs[x], None}
    BY <1>1 DEF Followed, Jobs
  <2> QED BY <1>1, <2>1, <2>2, <2>3 DEF Undisturbed, Followed, Jobs
<1>10. vers \in Nat /\ vers <= vers'
  BY <1>1, BucketFacts
<1> QED BY <1>1, <1>6, <1>7, <1>8, <1>9, <1>10, Turning, Onward

\* A refused binding is parked: the providers of its namespace are excused.
LEMMA ParkRejectedFollowed ==
    ASSUME IInv, Followed, NEW k \in Task, ParkRejected(k)
    PROVE  Followed'
<1> DEFINE t == task[k]
<1>1. t = Fields(t) /\ t.pc = "reject" /\ UNCHANGED <<types, jobs, open, gen, vers, wanted>>
  BY TaskFacts DEF ParkRejected, at_pc
<1>2. t.pc \notin Owing \cup {"swept", "removed", "detached"}
  BY <1>1 DEF Owing, Calling
<1>3. CASE live = None
  <2>1. become(k, Idle) /\ UNCHANGED <<live, flight, failed>>
    BY <1>3 DEF ParkRejected
  <2> QED BY <1>1, <1>2, <2>1, EasesIs, IdleFollowed DEF Inside
<1>4. CASE live # None
  <2>1. /\ failed' = failed \cup {w \in Worker : NsOf[w] = live.ns}
        /\ become(k, [proceed(t, "parked") EXCEPT !.b = live])
    BY <1>4 DEF ParkRejected
  <2>2. PICK m : m = proceed(t, "parked")
    OBVIOUS
  <2>3. m = Fields(m) /\ m.pc = "parked" /\ m.res = "ok"
    BY <1>1, <2>2, Proceeds, ProceedRest DEF Carries, Answered
  <2>4. PICK n : n = [m EXCEPT !.b = live]
    OBVIOUS
  <2>5. n.pc = "parked" /\ n.res = "ok"
    BY <2>3, <2>4 DEF Fields
  <2>6. Errand(n, gen, Past) /\ n.pc \notin Entering
    BY <2>5, NoErrand DEF Owing, Calling, Entering
  <2>7. become(k, n)
    BY <2>1, <2>2, <2>4
  <2>8. PassesOn(k, n)
    BY <1>2, OwesNothing
  <2>9. Spares(n)
    BY <2>1 DEF Spares, Standing, Covers, Serving
  <2>10. Undisturbed
    <3>1. Places'
      BY <1>1 DEF Followed, Places
    <3>2. \A x \in Worker : gen[x] <= gen'[x]
      BY <1>1 DEF Followed, Places
    <3> QED BY <1>1, <2>1, <3>1, <3>2 DEF Undisturbed, Followed, Jobs
  <2>11. vers \in Nat /\ vers <= vers'
    BY <1>1, BucketFacts
  <2> QED BY <1>1, <2>6, <2>7, <2>8, <2>9, <2>10, <2>11, Turning, Onward
<1> QED BY <1>3, <1>4

\* The second look after a refusal.
LEMMA RejectedRecheckFollowed ==
    ASSUME IInv, Followed, NEW k \in Task, RejectedRecheck(k)
    PROVE  Followed'
<1> DEFINE t == task[k]
           p == types[t.b.ns]
<1>1. t.pc = "parked" /\ t.b \in Binding
  BY TaskFacts DEF RejectedRecheck, at_pc, IsTask
<1>2. /\ UNCHANGED <<types, outside>> /\ wanted' = wanted /\ live' = live /\ flight' = flight
      /\ t.b.ns \in Namespaces
  BY <1>1, BindingFields DEF RejectedRecheck, registry
<1>3. t.pc \notin Owing \cup {"swept", "removed", "detached"}
  BY <1>1 DEF Owing, Calling
<1>4. CASE p # None /\ p[1] # t.w
  <2>1. become(k, claiming(t, t.b, p))
    BY <1>4 DEF RejectedRecheck
  <2>2. Registered(p, gen) /\ NsOf[p[1]] = t.b.ns
    BY <1>2, <1>4, PlaceFacts
  <2> QED BY <1>2, <1>3, <2>1, <2>2, InsideIs, FoundFollowed
<1>5. CASE ~(p # None /\ p[1] # t.w)
  <2>1. become(k, Idle)
    BY <1>5 DEF RejectedRecheck
  <2> QED BY <1>2, <1>3, <2>1, InsideIs, EasesIs, IdleFollowed
<1> QED BY <1>4, <1>5

\* The head of the list is called, to let go or to take what is in force.
LEMMA SettleFollowed ==
    ASSUME IInv, Followed, NEW k \in Task, Settle(k)
    PROVE  Followed'
<1>1. PICK t, f : t = task[k] /\ f = t.fix
  OBVIOUS
<1>2. t = Fields(t) /\ t.pc = "settle" /\ t.res # "none"
  BY <1>1, TaskFacts DEF Settle, at_pc
<1>3. UNCHANGED <<types, outside>> /\ wanted' = wanted /\ live' = live /\ flight' = flight
  BY DEF Settle, registry
<1>4. IsList(f) /\ Head(f) = f[1]
  <2>1. IsList(f)
    BY <1>1, <1>2, ErrandFacts DEF Errand, Aims
  <2> QED BY <2>1, Listed DEF IsList
<1>5. PICK d, kind, b : /\ become(k, awaiting([t EXCEPT !.before = d], "settled", kind, f[1][2], b))
                        /\ kind \in {"repair", "unbind"}
  BY <1>1, <1>4 DEF Settle
<1>6. PICK m : m = [t EXCEPT !.before = d]
  OBVIOUS
<1>7. m = Fields(m) /\ m.fix = f
  <2>1. m.fix = f
    BY <1>1, <1>2, <1>6 DEF Fields
  <2> QED BY <1>2, <1>6, <2>1, WithBefore DEF Alike, Carries
<1>8. PICK n : n = awaiting(m, "settled", kind, f[1][2], b)
  OBVIOUS
<1>9. n.pc = "settled" /\ n.fix = f /\ Called(n, kind, f[1][2], b)
  BY <1>7, <1>8, Awaits, AwaitRest DEF Rest
<1>10. Errand(n, gen, Past) /\ n.pc \notin Entering
  BY <1>4, <1>5, <1>9 DEF Errand, Waiting, Aims, Called, Calling, Entering
<1>11. PassesOn(k, n)
  <2> SUFFICES ASSUME NEW r, Standing(r), Owes(t, r) PROVE Owes(n, r)
    BY <1>1 DEF PassesOn
  <2>1. Lists(f, r) /\ r # None
    BY <1>1, <1>2 DEF Owes, Calling, Standing
  <2>2. f[1][2] = r => n.res = "none"
    BY <1>9, <2>1 DEF Called
  <2> QED BY <1>9, <2>1, <2>2 DEF Owes, Lists
<1>12. become(k, n)
  BY <1>5, <1>6, <1>8
<1>13. Spares(n)
  BY <1>1, <1>2, <1>3, <1>12, EasesIs, Sparing
<1> QED BY <1>3, <1>10, <1>11, <1>12, <1>13, InsideIs, PassedOn

\* The rest of the list stays to be settled.
LEMMA SettledFollowed ==
    ASSUME IInv, Followed, NEW k \in Task, Settled(k)
    PROVE  Followed'
<1>1. PICK t, f : t = task[k] /\ f = t.fix
  OBVIOUS
<1>2. t = Fields(t) /\ IsTask(t) /\ t.pc = "settled" /\ t.res # "none"
  BY <1>1, TaskFacts DEF Settled, at_pc
<1>3. UNCHANGED <<types, outside>> /\ wanted' = wanted /\ live' = live /\ flight' = flight
  BY DEF Settled, registry
<1>4. IsList(f)
  BY <1>1, <1>2, ErrandFacts DEF Errand, Aims
<1>5. /\ Len(f) = 1 => Tail(f) = <<>>
      /\ Len(f) = 2 => Tail(f) = <<f[2]>>
      /\ Len(f) = 1 \/ Len(f) = 2
  <2>1. CASE f = <<f[1]>>
    <3>1. PICK x : x = f[1]
      OBVIOUS
    <3>2. Len(<<x>>) = 1 /\ Tail(<<x>>) = <<>>
      BY Listed
    <3>3. Len(f) = 1 /\ Tail(f) = <<>>
      BY <2>1, <3>1, <3>2
    <3> QED BY <3>3
  <2>2. CASE f = <<f[1], f[2]>>
    <3>1. PICK x, y : x = f[1] /\ y = f[2]
      OBVIOUS
    <3>2. Len(<<x, y>>) = 2 /\ Tail(<<x, y>>) = <<y>>
      BY Listed
    <3>3. Len(f) = 2 /\ Tail(f) = <<f[2]>>
      BY <2>2, <3>1, <3>2
    <3> QED BY <3>3
  <2> QED BY <1>4, <2>1, <2>2 DEF IsList
<1>6. Tail(f) = <<>> \/ IsList(Tail(f))
  BY <1>5, Listed
<1>7. \A r : Owes(t, r) => Len(f) = 2 /\ f[2][2] = r
  BY <1>1, <1>2 DEF Owes, Calling
<1>8. PICK m : m = [t EXCEPT !.before = None]
  OBVIOUS
<1>9. IsTask(m)
  <2>1. Alike(m, t)
    BY <1>2, <1>8, WithBefore
  <2> QED BY <1>2, <2>1 DEF Alike, Carries, IsTask
<1>10. PICK s : s = proceed(t, "settle")
  OBVIOUS
<1>11. s = Fields(s) /\ s.pc = "settle" /\ s.res = "ok" /\ s.fix = f
  BY <1>1, <1>2, <1>10, Proceeds, ProceedRest DEF Carries, Answered, Rest
<1>12. \/ become(k, settle(m, Tail(f)))
       \/ \E x : become(k, [s EXCEPT !.fix = <<<<Head(@)[1], x>>>> \o Tail(@)])
  BY <1>1, <1>8, <1>10 DEF Settled
<1>13. CASE become(k, settle(m, Tail(f)))
  <2>1. PICK n : n = settle(m, Tail(f))
    OBVIOUS
  <2>2. Errand(n, gen, Past) /\ n.pc \notin Entering
    BY <1>6, <1>9, <2>1, SettleErrand
  <2>3. PassesOn(k, n)
    <3> SUFFICES ASSUME NEW r, Owes(t, r) PROVE Owes(n, r)
      BY <1>1 DEF PassesOn
    <3>1. Tail(f) = <<f[2]>> /\ f[2][2] = r
      BY <1>5, <1>7
    <3>2. IsList(<<f[2]>>) /\ <<f[2]>>[1] = f[2]
      BY Listed
    <3>3. n.pc = "settle" /\ n.fix = <<f[2]>>
      BY <1>9, <2>1, <3>1, <3>2, SettleErrand
    <3> QED BY <3>1, <3>2, <3>3 DEF Owes, Lists
  <2>4. Spares(n)
    BY <1>1, <1>2, <1>3, <1>13, <2>1, EasesIs, Sparing
  <2> QED BY <1>3, <1>13, <2>1, <2>2, <2>3, <2>4, InsideIs, PassedOn
<1>14. CASE \E x : become(k, [s EXCEPT !.fix = <<<<Head(@)[1], x>>>> \o Tail(@)])
  <2>1. PICK x : become(k, [s EXCEPT !.fix = <<<<Head(@)[1], x>>>> \o Tail(@)])
    BY <1>14
  <2>2. PICK y, l : y = <<Head(f)[1], x>> /\ l = <<y>> \o Tail(f)
    OBVIOUS
  <2>3. (Len(f) = 1 => l = <<y>>) /\ (Len(f) = 2 => l = <<y, f[2]>>)
    <3>1. <<y>> \o <<>> = <<y>> /\ <<y>> \o <<f[2]>> = <<y, f[2]>>
      BY Listed
    <3> QED BY <1>5, <2>2, <3>1
  <2>4. IsList(l) /\ (Len(f) = 2 => Len(l) = 2 /\ l[2] = f[2])
    <3>1. IsList(<<y>>) /\ IsList(<<y, f[2]>>) /\ Len(<<y, f[2]>>) = 2 /\ <<y, f[2]>>[2] = f[2]
      BY Listed
    <3> QED BY <1>5, <2>3, <3>1
  <2>5. PICK n : n = [s EXCEPT !.fix = l]
    OBVIOUS
  <2>6. become(k, n)
    <3>1. s.fix = f
      BY <1>11
    <3>2. [s EXCEPT !.fix = <<<<Head(@)[1], x>>>> \o Tail(@)] = [s EXCEPT !.fix = <<<<Head(f)[1], x>>>> \o Tail(f)]
      BY <3>1
    <3> QED BY <2>1, <2>2, <2>5, <3>2
  <2>7. n.pc = "settle" /\ n.res = "ok" /\ n.fix = l
    BY <1>11, <2>5 DEF Fields
  <2>8. Errand(n, gen, Past) /\ n.pc \notin Entering
    BY <2>4, <2>7 DEF Errand, Waiting, Aims, Calling, Entering
  <2>9. PassesOn(k, n)
    BY <1>1, <1>7, <2>4, <2>7 DEF PassesOn, Owes, Lists
  <2>10. Spares(n)
    BY <1>1, <1>2, <1>3, <2>6, EasesIs, Sparing
  <2> QED BY <1>3, <2>6, <2>8, <2>9, <2>10, InsideIs, PassedOn
<1> QED BY <1>12, <1>13, <1>14

\* A dropped caller's providers are settled for it.
LEMMA RecoverActivationFollowed ==
    ASSUME IInv, Followed, NEW k \in Task, recover_abandoned_activation(k), Inside,
           task[k].pc \in Calling \cup {"detached"}
    PROVE  Followed'
<1> DEFINE t == task[k]
           parks == ours(t) /\ (t.srcp = None \/ (live = None /\ pending = None))
<1>1. /\ t = Fields(t) /\ IsTask(t) /\ finish_transition(t)
      /\ live' = (IF parks THEN None ELSE live)
  BY TaskFacts DEF recover_abandoned_activation
<1>2. PICK m : m = [t EXCEPT !.then = "idle"]
  OBVIOUS
<1>3. IsTask(m)
  <2>1. Carries(m, t) /\ m.pc = t.pc /\ m.then = "idle"
    BY <1>1, <1>2, WithThen
  <2> QED BY <1>1, <2>1 DEF Carries, IsTask
<1>4. PICK n : n = settle(m, both(t))
  OBVIOUS
<1>5. become(k, n)
  BY <1>2, <1>4 DEF recover_abandoned_activation
<1>6. IsList(both(t)) /\ Lists(both(t), t.p)
  BY BothListed
<1>7. Errand(n, gen, Past) /\ n.pc \notin Entering /\ n.pc = "settle" /\ Lists(n.fix, t.p)
  <2>1. PICK pairs : pairs = both(t)
    OBVIOUS
  <2>2. /\ Errand(settle(m, pairs), gen, Past) /\ settle(m, pairs).pc \notin Entering
        /\ settle(m, pairs).pc = "settle" /\ settle(m, pairs).fix = pairs
    BY <1>3, <1>6, <2>1, SettleErrand
  <2> QED BY <1>4, <1>6, <2>1, <2>2
<1>8. PassesOn(k, n)
  <2>1. CASE t.pc \in Calling
    BY <1>5, <1>7, <2>1, AnswerPasses
  <2>2. CASE t.pc = "detached"
    BY <2>2, OwesNothing DEF Owing, Calling
  <2> QED BY <2>1, <2>2
<1>9. Spares(n)
  <2>1. CASE ~ours(t)
    <3>1. live' = live /\ flight' = flight
      BY <1>1, <2>1 DEF finish_transition
    <3> QED BY <1>5, <2>1, <3>1, EasesIs, Sparing
  <2>2. CASE ours(t) /\ t.pc \in Calling
    BY <2>2, Spared DEF Calling
  <2>3. CASE ours(t) /\ t.pc = "detached"
    <3>1. live # None
      BY <2>3, HolderFacts DEF Holds
    <3>2. t.srcp # None
      BY <2>3, ErrandFacts DEF Errand, Aims
    <3>3. live' = live /\ flight' = None
      BY <1>1, <2>3, <3>1, <3>2 DEF finish_transition
    <3> QED BY <3>3 DEF Spares, Covers, ThenCovers, Serving
  <2> QED BY <2>1, <2>2, <2>3
<1> QED BY <1>5, <1>7, <1>8, <1>9, PassedOn

\* A caller is dropped.
LEMMA CancelFollowed ==
    ASSUME IInv, Followed, NEW k \in Task, Cancel(k)
    PROVE  Followed'
<1> DEFINE pc == task[k].pc
<1>1. Inside
  BY DEF Cancel, Inside
<1>2. CASE pc = "removed"
  <2>1. recover_abandoned_removal(k) /\ live' = live
    BY <1>2 DEF Cancel
  <2> QED BY <1>1, <1>2, <2>1, RecoverRemovalFollowed
<1>3. CASE pc \in {"activated", "detached", "rehomed", "moved"}
  <2>1. recover_abandoned_activation(k)
    BY <1>3 DEF Cancel
  <2>2. pc \in Calling \cup {"detached"}
    BY <1>3 DEF Calling
  <2> QED BY <1>1, <2>1, <2>2, RecoverActivationFollowed
<1>4. CASE pc \in {"bound", "recheck", "drain"}
  <2>1. become(k, Idle) /\ live' = live /\ flight' = flight
    BY <1>4 DEF Cancel
  <2>2. pc \notin Owing \cup {"swept", "removed", "detached"}
    BY <1>4 DEF Owing, Calling
  <2> QED BY <1>1, <2>1, <2>2, EasesIs, IdleFollowed
<1>5. CASE pc \notin {"removed", "activated", "detached", "rehomed", "moved", "bound", "recheck", "drain"}
  BY <1>5 DEF Cancel
<1> QED BY <1>2, <1>3, <1>4, <1>5

\* Nothing a step does leaves a provider behind.
LEMMA FollowedStep == IInv /\ Followed /\ [Next]_vars => Followed'
<1> SUFFICES ASSUME IInv, Followed, [Next]_vars PROVE Followed'
  OBVIOUS
<1>1. CASE \E k \in Task : Step(k)
  BY <1>1, DeliverFollowed, RegisterParkFollowed, RegisterRecheckFollowed, RegisterLookupFollowed,
     RegisterBoundFollowed, ActivatedFollowed, RemovedFollowed, MatchFollowed, DrainFollowed, ClaimParkedFollowed, RehomeFollowed,
     RehomeDetachedFollowed, RehomedFollowed, FailOverFollowed, FailedOverFollowed, SweepFollowed,
     SweptFollowed, SweepTypesFollowed, ParkRejectedFollowed, RejectedRecheckFollowed,
     SettleFollowed, SettledFollowed
  DEF Step
<1>2. CASE \E k \in Task : Unregister(k) \/ Cancel(k)
  BY <1>2, UnregisterFollowed, CancelFollowed
<1>3. CASE \E k \in Task : \E o \in Owner \cup {NoOwner}, n \in Wants : Register(k, o, n)
  BY <1>3, RegisterFollowed
<1>4. CASE \E k \in Task : \E w \in Worker : Announce(k, w) \/ Retire(k, w) \/ Reject(k, w)
  BY <1>4, AnnounceFollowed, RetireFollowed, RejectFollowed
<1>5. CASE \E k \in Task : \E c \in Worker \cup Owner : Cleanup(k, c)
  BY <1>5, CleanupFollowed
<1>6. CASE \E c \in Worker \cup Owner : Close(c)
  BY <1>6, CloseFollowed
<1>7. CASE UNCHANGED vars
  <2>1. UNCHANGED <<types, jobs, open, gen, failed, live, flight, task, vers, wanted>>
    BY <1>7 DEF vars, registry, outside
  <2> QED BY <2>1, Alone, EasesIs, StandsStill
<1> QED BY <1>1, <1>2, <1>3, <1>4, <1>5, <1>6, <1>7 DEF Next

(* When all is settled, no provider still runs what a claim's holder had it   *)
(* replay and the registry has since taken from it: an operation that was     *)
(* superseded (activate_pending_trigger, fail_over, rehome_fallback_bindings) *)
(* or dropped ends with settle_superseded_provider.                          *)
THEOREM ProvidersLetGo == Spec => []NoGhost
<1>1. Init => Followed
  BY FollowedInit
<1>2. IInv /\ Followed /\ [Next]_vars => Followed'
  BY FollowedStep
<1>3. Followed => NoGhost
  BY QuietFollowed
<1> QED BY <1>1, <1>2, <1>3, Invariant, PTL DEF Spec
=============================================================================
