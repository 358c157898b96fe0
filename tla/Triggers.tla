------------------------------ MODULE Triggers ------------------------------
(***************************************************************************)
(* The trigger registry (engine/src/trigger.rs) for one trigger id of one   *)
(* trigger type: registrations and removals of the binding, providers of    *)
(* the type that come, are replaced, refuse, retire and go, and the tasks   *)
(* that move the binding between them.                                      *)
(*                                                                          *)
(* A task of the engine runs from one await to the next.  Its awaits are    *)
(* calls of a provider: the call is carried out (Deliver), then the task    *)
(* goes on with its result.  A section under park_transition is one step.   *)
(***************************************************************************)
EXTENDS Naturals, Sequences

CONSTANTS
    Worker,     \* connections that provide the type
    NsOf,       \* NsOf[w]: the namespace w serves
    Owner,      \* connections that own bindings
    NoOwner,    \* the owner of a binding made by engine::register_trigger
    Wants,      \* what a registration says of the provider's namespace
    Task,       \* slots for the engine's tasks
    Budgets,    \* how often each thing may happen: the bounds, one of these
    None

Home == "home"          \* the namespace of the registering connection
Default == "default"    \* where the engine's own providers are
Namespaces == {Home, Default}
Unnamed == "unnamed"            \* trigger_namespace = None: home, then default
Kinds == {"register", "unregister", "announce", "retire", "close", "reject", "fail", "cancel"}

(* A binding (Trigger): its registration, the namespace of its provider, its *)
(* owner and the namespace it named; and the claim on the id while an        *)
(* operation moves or removes the binding (TriggerTransition).              *)
Binding == [ver : Nat, ns : Namespaces, owner : Owner \cup {NoOwner}, want : Wants]
Claim == [token : Nat \ {0}, target : Binding, removing : BOOLEAN]

ASSUME TriggersAssumption ==
    /\ NsOf \in [Worker -> Namespaces] /\ NoOwner \notin Owner
    /\ Wants \subseteq Namespaces \cup {Unnamed} /\ Task \subseteq Nat /\ Task # {}
    /\ Budgets \subseteq [Kinds -> Nat] /\ Budgets # {}
    /\ None \notin Binding /\ None \notin Claim

VARIABLES
    types,      \* trigger_types: the provider of each namespace, as a
                \* registrator <<worker, generation>>
    live,       \* triggers: the binding in force, [ver, ns, owner, want] with
                \* ver its registration and ns its provider's namespace
    pending,    \* pending_triggers: the parked binding
    flight,     \* failing_over: the token of the operation under way
    tokens,     \* failover_tokens
    task,       \* the engine's tasks
    jobs,       \* jobs[w]: what provider w runs, by the call that started it
                \* (external)
    offers,     \* connections that offer the type, as they see it (external)
    open,       \* connections with an open channel
    known,      \* connections the worker registry knows
    gen,        \* how often w has announced the type
    vers,       \* registrations made so far
    left,       \* what remains of the budget
    \* History, read by properties only:
    wanted,     \* the last accepted registration, and whether it has not been
                \* removed since
    failed      \* providers that failed a call, or whose binding a rejection
                \* parked

registry == <<types, live, pending, flight, tokens>>
outside == <<jobs, offers, open, known, gen, vers, left, failed>>
vars == <<registry, task, outside, wanted>>

----------------------------------------------------------------------------
Idle == [pc |-> "idle", then |-> "idle", w |-> None, b |-> None, p |-> None, tok |-> 0,
         src |-> None, srcp |-> None, call |-> None, res |-> "ok", fix |-> <<>>,
         before |-> None]

resolve_provider_key(b) ==
    IF b.want # Unnamed THEN (IF types[b.want] # None THEN b.want ELSE None)
    ELSE IF types[Home] # None THEN Home
    ELSE IF types[Default] # None THEN Default ELSE None
is_on_fallback(b) == b.want = Unnamed /\ b.ns # Home
at(b, ns) == [b EXCEPT !.ns = ns]
provides(w) == types[NsOf[w]] # None /\ types[NsOf[w]][1] = w

(* A task goes on at pc, or first awaits a call of provider p. *)
proceed(t, pc) == [t EXCEPT !.pc = pc, !.call = None, !.res = "ok"]
awaiting(t, pc, kind, p, b) ==
    IF p = None THEN proceed(t, pc)
    ELSE [t EXCEPT !.pc = pc, !.call = [kind |-> kind, p |-> p, b |-> b], !.res = "none"]
at_pc(k, pc) == task[k].pc = pc /\ task[k].res # "none"
become(k, t) == task' = [task EXCEPT ![k] = t]

(* What follows when a task's part is done, after settle_superseded_provider *)
(* for each of the pairs <<binding, registrator>>.                          *)
finish(t) == IF t.then = "idle" THEN Idle ELSE [proceed(t, t.then) EXCEPT !.then = "idle"]
settle(t, pairs) ==
    IF pairs = <<>> THEN finish(t) ELSE [proceed(t, "settle") EXCEPT !.fix = pairs]

(* Tokens. *)
begin_transition(b, removes) ==
    /\ tokens' = tokens + 1
    /\ flight' = [token |-> tokens + 1, target |-> b, removing |-> removes]
ours(t) == flight # None /\ flight.token = t.tok
removing == flight # None /\ flight.removing
finish_transition(t) == flight' = IF ours(t) THEN None ELSE flight

accepted(b) == [ver |-> b.ver, on |-> TRUE]
removed == [wanted EXCEPT !.on = FALSE]

(* A new task in the first free slot. *)
free(k) == task[k].pc = "idle" /\ \A i \in Task : i < k => task[i].pc # "idle"
spend(kind) == left[kind] > 0 /\ left' = [left EXCEPT ![kind] = @ - 1]

----------------------------------------------------------------------------
(* Providers.  A call is carried out in the order of the channel; it fails  *)
(* when the channel is closed, when the provider refuses, or when the       *)
(* caller's time limit passes, whether or not it was carried out.           *)
carried(c) ==
    jobs' = [jobs EXCEPT ![c.p[1]] =
                IF c.kind = "unbind" \/ c.p[1] \notin offers THEN None ELSE c]

Deliver(k) ==
    LET c == task[k].call
        answer(r) == become(k, [task[k] EXCEPT !.res = r])
    IN  /\ c # None /\ task[k].res = "none"
        /\ \/ /\ c.p[1] \in open /\ carried(c) /\ answer("ok")
              /\ UNCHANGED <<left, failed>>
           \/ /\ c.p[1] \notin open /\ answer("closed")
              /\ UNCHANGED <<jobs, left, failed>>
           \/ /\ c.p[1] \in open /\ spend("fail") /\ answer("refused")
              /\ failed' = failed \cup {c.p[1]}
              /\ UNCHANGED jobs \/ (c.kind # "bind" /\ carried(c))
        /\ UNCHANGED <<registry, offers, open, known, gen, vers, wanted>>

----------------------------------------------------------------------------
(* register_trigger *)
claim_parked(ns) ==
    /\ pending # None /\ ~removing
    /\ pending' = None
    /\ begin_transition(at(pending, ns), FALSE)
claiming(t, b, p) == [proceed(t, "claim") EXCEPT !.b = b, !.p = p]
activating(t, ns, p) ==
    awaiting([t EXCEPT !.b = at(pending, ns), !.p = p, !.tok = tokens + 1],
             "activated", "replay", p, at(pending, ns))

(* A registration of the id: two that overlap are accepted in the order in   *)
(* which they are published, not in that of the requests.                   *)
Register(k, owner, want) ==
    LET b  == [ver |-> vers + 1, ns |-> Default,
               owner |-> owner, want |-> want]
        ns == resolve_provider_key(b)
    IN  /\ free(k) /\ spend("register") /\ owner \in open \cup {NoOwner}
        /\ become(k, IF ns = None THEN [proceed(Idle, "park") EXCEPT !.b = b]
                     ELSE awaiting([Idle EXCEPT !.b = at(b, ns)], "bound", "bind", types[ns], at(b, ns)))
        /\ vers' = vers + 1
        /\ UNCHANGED <<registry, jobs, offers, open, known, gen, failed, wanted>>

(* No provider: the intent is parked and replaces a live binding, which is   *)
(* detached.                                                                *)
RegisterPark(k) ==
    /\ at_pc(k, "park")
    /\ flight' = None /\ live' = None /\ pending' = task[k].b /\ wanted' = accepted(task[k].b)
    /\ become(k, IF live = None THEN proceed(task[k], "recheck")
                 ELSE awaiting(task[k], "recheck", "unbind", types[live.ns], live))
    /\ UNCHANGED <<types, tokens, outside>>

(* The provider may have come in the meantime: where would it be, ... *)
RegisterRecheck(k) ==
    LET ns == resolve_provider_key(task[k].b)
    IN  /\ at_pc(k, "recheck")
        /\ become(k, IF ns = None THEN Idle
                     ELSE [proceed(task[k], "lookup") EXCEPT !.b = at(task[k].b, ns)])
        /\ UNCHANGED <<registry, outside, wanted>>

(* ... is it still there, ... *)
RegisterLookup(k) ==
    LET t == task[k]
        p == types[t.b.ns]
    IN  /\ at_pc(k, "lookup")
        /\ become(k, IF p = None THEN Idle ELSE claiming(t, t.b, p))
        /\ UNCHANGED <<registry, outside, wanted>>

(* ... then claim_parked: whatever is parked under the id by then goes to the *)
(* provider that was found, which may have left.                            *)
ClaimParked(k) ==
    LET t == task[k]
    IN  /\ at_pc(k, "claim")
        /\ IF pending # None /\ ~removing
           THEN claim_parked(t.b.ns) /\ become(k, activating(t, t.b.ns, t.p))
           ELSE become(k, finish(t)) /\ UNCHANGED <<pending, flight, tokens>>
        /\ UNCHANGED <<types, live, outside, wanted>>

\* Faulty variant: the parked intent of the id stays.
RegisterBoundKeeps(k) ==
    /\ at_pc(k, "bound") /\ become(k, Idle)
    /\ IF task[k].res = "refused" THEN UNCHANGED <<live, pending, flight, wanted>>
       ELSE /\ flight' = None /\ wanted' = accepted(task[k].b)
            /\ IF task[k].res = "ok" THEN live' = task[k].b /\ UNCHANGED pending
               ELSE live' = None /\ pending' = task[k].b
    /\ UNCHANGED <<types, tokens, outside>>

(* The provider took it, rejected it, or could not be reached. *)
RegisterBound(k) ==
    /\ at_pc(k, "bound") /\ become(k, Idle)
    /\ IF task[k].res = "refused" THEN UNCHANGED <<live, pending, flight, wanted>>
       ELSE /\ flight' = None /\ wanted' = accepted(task[k].b)
            /\ IF task[k].res = "ok" THEN live' = task[k].b /\ pending' = None
               ELSE live' = None /\ pending' = task[k].b
    /\ UNCHANGED <<types, tokens, outside>>

\* Faulty variant: activate_pending_trigger publishes without its token.
ActivatedUnclaimed(k) ==
    LET t == task[k]
        settles == live = None /\ pending = None
    IN  /\ at_pc(k, "activated")
        /\ finish_transition(t)
        /\ IF settles /\ t.res = "ok"
           THEN live' = t.b /\ UNCHANGED pending /\ become(k, finish(t))
           ELSE /\ pending' = IF settles THEN t.b ELSE pending
                /\ become(k, settle(t, <<<<t.b, t.p>>>>))
                /\ UNCHANGED live
        /\ UNCHANGED <<types, tokens, outside, wanted>>

\* Faulty variant: a superseded activation does not settle its provider.
ActivatedUnsettled(k) ==
    LET t == task[k]
        settles == ours(t) /\ live = None /\ pending = None
    IN  /\ at_pc(k, "activated")
        /\ finish_transition(t)
        /\ live' = IF settles /\ t.res = "ok" THEN t.b ELSE live
        /\ pending' = IF settles /\ t.res # "ok" THEN t.b ELSE pending
        /\ become(k, finish(t))
        /\ UNCHANGED <<types, tokens, outside, wanted>>

(* activate_pending_trigger after the provider's answer. *)
Activated(k) ==
    LET t == task[k]
        settles == ours(t) /\ live = None /\ pending = None
    IN  /\ at_pc(k, "activated")
        /\ finish_transition(t)
        /\ IF settles /\ t.res = "ok"
           THEN live' = t.b /\ UNCHANGED pending /\ become(k, finish(t))
           ELSE /\ pending' = IF settles THEN t.b ELSE pending
                /\ become(k, settle(t, <<<<t.b, t.p>>>>))
                /\ UNCHANGED live
        /\ UNCHANGED <<types, tokens, outside, wanted>>

----------------------------------------------------------------------------
(* unregister_trigger *)
Unregister(k) ==
    /\ free(k) /\ spend("unregister")
    /\ IF live = None
       THEN flight' = None /\ pending' = None /\ wanted' = removed /\ UNCHANGED <<task, tokens>>
       ELSE /\ begin_transition(live, TRUE)
            /\ become(k, awaiting([Idle EXCEPT !.b = live, !.p = types[live.ns], !.tok = tokens + 1],
                                  "removed", "unbind", types[live.ns], live))
            /\ UNCHANGED <<pending, wanted>>
    /\ UNCHANGED <<types, live, jobs, offers, open, known, gen, vers, failed>>

(* recover_abandoned_removal: the binding stays, and is settled with its     *)
(* provider or, if that left, moved.                                        *)
recover_abandoned_removal(k) ==
    LET t == task[k]
        b == IF live # None THEN live ELSE pending
    IN  IF ~ours(t) \/ b = None
        THEN finish_transition(t) /\ become(k, Idle) /\ UNCHANGED <<pending, tokens>>
        ELSE IF t.p # None /\ types[b.ns] = t.p
        THEN /\ flight' = None /\ become(k, settle(t, <<<<b, t.p>>>>))
             /\ UNCHANGED <<pending, tokens>>
        ELSE /\ pending' = None /\ begin_transition(b, FALSE)
             /\ become(k, [proceed(t, "failover") EXCEPT !.b = b, !.tok = tokens + 1])

Removed(k) ==
    LET t == task[k]
    IN  /\ at_pc(k, "removed")
        /\ IF t.res # "ok"
           THEN recover_abandoned_removal(k) /\ UNCHANGED <<live, wanted>>
           ELSE /\ finish_transition(t)
                /\ IF ours(t)
                   THEN live' = None /\ pending' = None /\ wanted' = removed /\ become(k, Idle)
                   ELSE /\ become(k, settle(t, IF t.p = None THEN <<>> ELSE <<<<t.b, t.p>>>>))
                        /\ UNCHANGED <<live, pending, wanted>>
                /\ UNCHANGED tokens
        /\ UNCHANGED <<types, outside>>

----------------------------------------------------------------------------
(* register_trigger_type, after the router dropped the intents of workers    *)
(* that are gone.                                                           *)
orphaned == pending # None /\ pending.owner \notin known \cup {NoOwner}

Announce(k, w) ==
    LET r == <<w, gen[w] + 1>>
    IN  /\ free(k) /\ spend("announce") /\ w \in open
        /\ pending' = (IF orphaned THEN None ELSE pending)
        /\ wanted' = (IF orphaned THEN removed ELSE wanted)
        /\ gen' = [gen EXCEPT ![w] = @ + 1]
        /\ types' = [types EXCEPT ![NsOf[w]] = r] /\ offers' = offers \cup {w}
        /\ become(k, [proceed(Idle, "match") EXCEPT !.w = w])
        /\ UNCHANGED <<live, flight, tokens, jobs, open, known, vers, failed>>

(* The binding it serves is delivered to it. *)
Match(k) ==
    LET ns == NsOf[task[k].w]
        t  == [task[k] EXCEPT !.p = types[ns], !.then = "rehome"]
    IN  /\ at_pc(k, "match")
        /\ become(k, IF types[ns] = None THEN Idle
                     ELSE IF live # None /\ live.ns = ns /\ flight = None
                     THEN awaiting(t, "drain", "again", types[ns], live)
                     ELSE proceed(t, "drain"))
        /\ UNCHANGED <<registry, outside, wanted>>

(* A parked intent that resolves to it is to be claimed and activated. *)
DrainPending(k) ==
    LET t  == task[k]
        ns == NsOf[t.w]
    IN  /\ at_pc(k, "drain")
        /\ become(k, IF pending # None /\ resolve_provider_key(pending) = ns
                     THEN claiming(t, at(pending, ns), t.p) ELSE finish(t))
        /\ UNCHANGED <<registry, outside, wanted>>

(* rehome_fallback_bindings: a binding on the fallback moves home; the old   *)
(* provider lets go first.                                                  *)
Rehome(k) ==
    LET t == [task[k] EXCEPT !.p = types[Home], !.tok = tokens + 1, !.b = at(live, Home),
                             !.src = live, !.srcp = types[live.ns]]
        moves == /\ task[k].w = None \/ NsOf[task[k].w] = Home
                 /\ types[Home] # None /\ live # None /\ is_on_fallback(live) /\ flight = None
    IN  /\ at_pc(k, "rehome")
        /\ IF moves
           THEN /\ begin_transition(at(live, Home), FALSE)
                /\ become(k, IF types[live.ns] # None
                             THEN awaiting(t, "detached", "unbind", types[live.ns], live)
                             ELSE awaiting(t, "rehomed", "replay", types[Home], at(live, Home)))
           ELSE become(k, Idle) /\ UNCHANGED <<flight, tokens>>
        /\ UNCHANGED <<types, live, pending, outside, wanted>>

both(t) == <<<<t.b, t.p>>>> \o (IF t.srcp = None THEN <<>> ELSE <<<<t.src, t.srcp>>>>)

RehomeDetached(k) ==
    LET t == task[k]
    IN  /\ at_pc(k, "detached")
        /\ IF t.res = "ok" /\ ours(t)
           THEN become(k, awaiting(t, "rehomed", "replay", t.p, t.b)) /\ UNCHANGED flight
           ELSE /\ IF t.res = "ok" THEN UNCHANGED flight ELSE finish_transition(t)
                /\ become(k, settle(t, both(t)))
        /\ UNCHANGED <<types, live, pending, tokens, outside, wanted>>

Rehomed(k) ==
    LET t == task[k]
    IN  /\ at_pc(k, "rehomed")
        /\ finish_transition(t)
        /\ IF ~ours(t) THEN become(k, settle(t, both(t))) /\ UNCHANGED <<live, pending>>
           ELSE IF t.res = "ok" THEN live' = t.b /\ become(k, finish(t)) /\ UNCHANGED pending
           ELSE live' = None /\ pending' = t.b /\ become(k, settle(t, <<<<t.b, t.p>>>>))
        /\ UNCHANGED <<types, tokens, outside, wanted>>

----------------------------------------------------------------------------
(* take_trigger_type_if_provider: the type goes and its binding is claimed.  *)
take(k, w) ==
    LET orphan == live # None /\ live.ns = NsOf[w] /\ ~removing
    IN  /\ types' = [types EXCEPT ![NsOf[w]] = None]
        /\ IF orphan
           THEN /\ begin_transition(live, FALSE)
                /\ become(k, [proceed(Idle, "failover") EXCEPT !.b = live, !.tok = tokens + 1])
           ELSE become(k, Idle) /\ UNCHANGED <<flight, tokens>>

Retire(k, w) ==
    /\ free(k) /\ spend("retire") /\ w \in open /\ provides(w)
    /\ take(k, w)
    /\ jobs' = [jobs EXCEPT ![w] = None] /\ offers' = offers \ {w}
    /\ UNCHANGED <<live, pending, open, known, gen, vers, failed, wanted>>

(* fail_over *)
FailOver(k) ==
    LET t  == task[k]
        ns == resolve_provider_key(t.b)
        b  == IF ns = None THEN t.b ELSE at(t.b, ns)
        p  == IF ns = None THEN None ELSE types[ns]
    IN  /\ at_pc(k, "failover")
        /\ IF ours(t)
           THEN /\ flight' = [flight EXCEPT !.target = b]
                /\ become(k, awaiting([t EXCEPT !.b = b, !.p = p], "moved", "replay", p, b))
           ELSE become(k, Idle) /\ UNCHANGED flight
        /\ UNCHANGED <<types, live, pending, tokens, outside, wanted>>

\* Faulty variant: a binding that finds no provider is dropped.
FailedOverDrops(k) ==
    LET t == task[k]
        moved == ours(t) /\ t.p # None /\ t.res = "ok"
    IN  /\ at_pc(k, "moved")
        /\ finish_transition(t)
        /\ live' = IF moved THEN t.b ELSE IF ours(t) THEN None ELSE live
        /\ become(k, IF moved /\ is_on_fallback(t.b) THEN proceed(t, "rehome")
                     ELSE settle(t, IF moved \/ t.p = None THEN <<>> ELSE <<<<t.b, t.p>>>>))
        /\ UNCHANGED <<types, pending, tokens, outside, wanted>>

FailedOver(k) ==
    LET t == task[k]
        moved == ours(t) /\ t.p # None /\ t.res = "ok"
    IN  /\ at_pc(k, "moved")
        /\ finish_transition(t)
        /\ live' = IF moved THEN t.b ELSE IF ours(t) THEN None ELSE live
        /\ pending' = IF ours(t) /\ ~moved THEN t.b ELSE pending
        /\ become(k, IF moved /\ is_on_fallback(t.b) THEN proceed(t, "rehome")
                     ELSE settle(t, IF moved \/ t.p = None THEN <<>> ELSE <<<<t.b, t.p>>>>))
        /\ UNCHANGED <<types, tokens, outside, wanted>>

----------------------------------------------------------------------------
(* A connection ends: its channel closes, then unregister_worker runs. *)
Close(c) ==
    /\ c \in open /\ spend("close")
    /\ open' = open \ {c}
    /\ jobs' = [w \in Worker |-> IF w = c THEN None ELSE jobs[w]]
    /\ UNCHANGED <<registry, task, offers, known, gen, vers, failed, wanted>>

Cleanup(k, c) ==
    LET mine(b) == b # None /\ b.owner = c
    IN  /\ free(k) /\ c \in known \ open /\ \A i \in Task : task[i].w # c
        /\ flight' = IF flight # None /\ mine(flight.target) THEN None ELSE flight
        /\ pending' = IF mine(pending) THEN None ELSE pending
        /\ wanted' = IF live = None /\ (mine(pending) \/ (flight # None /\ mine(flight.target)))
                     THEN removed ELSE wanted
        /\ become(k, [proceed(Idle, "sweep") EXCEPT !.w = c, !.b = IF mine(live) THEN live ELSE None])
        /\ UNCHANGED <<types, live, tokens, outside>>

Sweep(k) ==
    LET t == task[k]
    IN  /\ at_pc(k, "sweep")
        /\ IF t.b # None /\ live # None /\ live.owner = t.w
           THEN /\ live' = None /\ flight' = None /\ wanted' = removed
                /\ become(k, awaiting([t EXCEPT !.b = live, !.p = types[live.ns]],
                                      "swept", "unbind", types[live.ns], live))
           ELSE become(k, proceed(t, "types")) /\ UNCHANGED <<live, flight, wanted>>
        /\ UNCHANGED <<types, pending, tokens, outside>>

Swept(k) ==
    LET t == task[k]
    IN  /\ at_pc(k, "swept")
        /\ become(k, settle([t EXCEPT !.then = "types"],
                            IF live # None /\ t.p # None THEN <<<<t.b, t.p>>>> ELSE <<>>))
        /\ UNCHANGED <<registry, outside, wanted>>

SweepTypes(k) ==
    LET c == task[k].w
        mine == pending # None /\ pending.owner = c
    IN  /\ at_pc(k, "types")
        /\ pending' = IF mine THEN None ELSE pending
        /\ wanted' = IF mine THEN removed ELSE wanted
        /\ IF c \in Worker /\ provides(c) THEN take(k, c)
           ELSE become(k, Idle) /\ UNCHANGED <<types, flight, tokens>>
        /\ known' = known \ {c}
        /\ UNCHANGED <<live, jobs, offers, open, gen, vers, left, failed>>

----------------------------------------------------------------------------
(* A provider reports that it could not take the binding: the router checks  *)
(* that it serves the binding, then park_rejected_trigger.                  *)
Reject(k, w) ==
    /\ free(k) /\ spend("reject") /\ w \in open /\ provides(w)
    /\ live # None /\ live.ns = NsOf[w]
    /\ jobs' = [jobs EXCEPT ![w] = None] /\ failed' = failed \cup {w}
    /\ become(k, [proceed(Idle, "reject") EXCEPT !.w = w])
    /\ UNCHANGED <<registry, offers, open, known, gen, vers, wanted>>

ParkRejected(k) ==
    /\ at_pc(k, "reject")
    /\ IF live = None THEN become(k, Idle) /\ UNCHANGED <<live, pending, flight, failed>>
       ELSE /\ pending' = live /\ live' = None
            /\ flight' = IF removing THEN flight ELSE None
            /\ failed' = failed \cup {w \in Worker : NsOf[w] = live.ns}
            /\ become(k, [proceed(task[k], "parked") EXCEPT !.b = live])
    /\ UNCHANGED <<types, tokens, jobs, offers, open, known, gen, vers, left, wanted>>

(* Another provider took over in the meantime. *)
RejectedRecheck(k) ==
    LET t == task[k]
        p == types[t.b.ns]
    IN  /\ at_pc(k, "parked")
        /\ become(k, IF p # None /\ p[1] # t.w THEN claiming(t, t.b, p) ELSE Idle)
        /\ UNCHANGED <<registry, outside, wanted>>

----------------------------------------------------------------------------
(* reconcile_provider: bring a provider that was called for a superseded     *)
(* operation in line with the registry, until nothing changes meanwhile.    *)
desired(key) ==
    LET b == IF removing THEN None ELSE IF flight # None THEN flight.target ELSE live
    IN  IF b = None \/ types[key] = None THEN None
        ELSE IF b.ns # key THEN None ELSE <<b, types[key]>>

Settle(k) ==
    LET t == task[k]
        stale == Head(t.fix)[1]
        touched == Head(t.fix)[2]
        d == desired(stale.ns)
        replays == d # None /\ d[2] = touched
    IN  /\ at_pc(k, "settle")
        /\ become(k, IF replays THEN awaiting([t EXCEPT !.before = d], "settled", "repair", touched, d[1])
                     ELSE awaiting([t EXCEPT !.before = None], "settled", "unbind", touched, stale))
        /\ UNCHANGED <<registry, outside, wanted>>

\* Faulty variant: a repair that failed is tried again.
SettledRetries(k) ==
    LET t == task[k]
        d == desired(Head(t.fix)[1].ns)
        touched == IF t.before = None /\ d # None THEN d[2] ELSE Head(t.fix)[2]
    IN  /\ at_pc(k, "settled")
        /\ become(k, IF t.res = "ok" /\ d = t.before
                     THEN settle([t EXCEPT !.before = None], Tail(t.fix))
                     ELSE [proceed(t, "settle") EXCEPT !.fix = <<<<Head(@)[1], touched>>>> \o Tail(@)])
        /\ UNCHANGED <<registry, outside, wanted>>

Settled(k) ==
    LET t == task[k]
        d == desired(Head(t.fix)[1].ns)
        touched == IF t.before = None THEN d[2] ELSE Head(t.fix)[2]
    IN  /\ at_pc(k, "settled")
        /\ become(k, IF t.res # "ok" \/ d = t.before
                     THEN settle([t EXCEPT !.before = None], Tail(t.fix))
                     ELSE [proceed(t, "settle") EXCEPT !.fix = <<<<Head(@)[1], touched>>>> \o Tail(@)])
        /\ UNCHANGED <<registry, outside, wanted>>

----------------------------------------------------------------------------
\* Faulty variant: the dropped caller's token stays.
recover_abandoned_activation_keeps(k) ==
    become(k, settle([task[k] EXCEPT !.then = "idle"], both(task[k]))) /\ UNCHANGED <<flight, pending, live, tokens>>

(* The caller is dropped while it waits for a provider: what its guard does  *)
(* (TriggerTransitionGuard).  A repair that is under way is not its own.    *)
recover_abandoned_activation(k) ==
    LET t == task[k]
        parks == ours(t) /\ (t.srcp = None \/ (live = None /\ pending = None))
    IN  /\ finish_transition(t)
        /\ pending' = IF parks THEN flight.target ELSE pending
        /\ live' = IF parks THEN None ELSE live
        /\ become(k, settle([t EXCEPT !.then = "idle"], both(t)))
        /\ UNCHANGED tokens

Cancel(k) ==
    /\ task[k].call # None /\ spend("cancel")
    /\ CASE task[k].pc = "removed" -> recover_abandoned_removal(k) /\ UNCHANGED live
         [] task[k].pc \in {"activated", "detached", "rehomed", "moved"} -> recover_abandoned_activation(k)
         [] task[k].pc \in {"bound", "recheck", "drain"} ->
                become(k, Idle) /\ UNCHANGED <<live, pending, flight, tokens>>
         [] OTHER -> FALSE
    /\ UNCHANGED <<types, jobs, offers, open, known, gen, vers, failed, wanted>>

----------------------------------------------------------------------------
Init ==
    /\ types = [n \in Namespaces |-> None]
    /\ live = None /\ pending = None /\ flight = None /\ tokens = 0
    /\ task = [k \in Task |-> Idle]
    /\ jobs = [w \in Worker |-> None] /\ offers = {}
    /\ open = Worker \cup Owner /\ known = Worker \cup Owner
    /\ gen = [w \in Worker |-> 0] /\ vers = 0 /\ left \in Budgets
    /\ wanted = [ver |-> 0, on |-> FALSE] /\ failed = {}

(* What a task does by itself. *)
Step(k) ==
    \/ Deliver(k)
    \/ RegisterPark(k) \/ RegisterRecheck(k) \/ RegisterLookup(k) \/ RegisterBound(k)
    \/ ClaimParked(k) \/ Activated(k)
    \/ Removed(k)
    \/ Match(k) \/ DrainPending(k) \/ Rehome(k) \/ RehomeDetached(k) \/ Rehomed(k)
    \/ FailOver(k) \/ FailedOver(k)
    \/ Sweep(k) \/ Swept(k) \/ SweepTypes(k)
    \/ ParkRejected(k) \/ RejectedRecheck(k)
    \/ Settle(k) \/ Settled(k)

Next ==
    \/ \E k \in Task :
        \/ Step(k) \/ Unregister(k) \/ Cancel(k)
        \/ \E o \in Owner \cup {NoOwner}, n \in Wants : Register(k, o, n)
        \/ \E w \in Worker : Announce(k, w) \/ Retire(k, w) \/ Reject(k, w)
        \/ \E c \in Worker \cup Owner : Cleanup(k, c)
    \/ \E c \in Worker \cup Owner : Close(c)

Spec == Init /\ [][Next]_vars
(* The runtime runs every task on, a call of a provider ends (by itself: only *)
(* a fail-over and a repair have a time limit), and a connection that ended   *)
(* is cleaned up.                                                            *)
FairSpec ==
    /\ Spec
    /\ \A k \in Task : WF_vars(Step(k)) /\ \A c \in Worker \cup Owner : WF_vars(Cleanup(k, c))

----------------------------------------------------------------------------
(* Properties. *)
Quiet == (\A k \in Task : task[k] = Idle) /\ known = open

(* "the binding ends in exactly one bucket" (register_trigger): no two       *)
(* operations that overlap leave the id both in force and parked, where a    *)
(* later drain would start it a second time.                                *)
OneBucket == live = None \/ pending = None

(* A binding that was accepted and neither removed nor swept with its owner  *)
(* is in force, parked or held by an operation: no provider that leaves,     *)
(* refuses or is replaced, and no dropped caller, loses it.                  *)
NotLost == wanted.on => live # None \/ pending # None \/ flight # None

(* A late answer never revives an older registration or a removed one: what  *)
(* is in force or parked is the newest accepted registration.               *)
NewestWins ==
    \A b \in {live, pending} : b # None => wanted.on /\ b.ver = wanted.ver

(* Whoever holds the id's claim is still at work.  A claim nobody holds would *)
(* keep every later announcement and re-homing from the binding.            *)
TokenHeld == flight # None => \E k \in Task : task[k].tok = flight.token

(* When all is settled, what the holder of the claim had a provider replay   *)
(* under its present registration is in force there: an operation that was   *)
(* superseded made the provider let go.  Left out: a provider that failed a  *)
(* call or whose binding a rejection parked, and what providers were told    *)
(* without the claim (register_trigger's bind, the replay of the binding a   *)
(* new provider inherits, and the repairs of reconcile_provider, which       *)
(* follow a claim's target while its holder may still change it).           *)
NoGhost ==
    Quiet => \A w \in open \cap Worker :
        /\ jobs[w] # None /\ jobs[w].kind = "replay" /\ jobs[w].p = types[NsOf[w]]
        /\ jobs[w].b.ver = wanted.ver /\ w \notin failed
        => live # None /\ live.ns = NsOf[w]

(* The comment in register_trigger_type: "an intent can never be stranded in *)
(* pending while the type is available".                                    *)
NeverStranded == Quiet => pending = None \/ resolve_provider_key(pending) = None

(* However the calls overlap, every operation and every repair ends, and no  *)
(* two of them undo each other for ever (reconcile_provider's loop).        *)
ComesToRest == <>[]Quiet
=============================================================================
