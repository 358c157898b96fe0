---------------------------- MODULE ComposeGraph ----------------------------
(***************************************************************************)
(* The dependency graph of a compose file (crates/iii-compose/src/dag.rs):  *)
(* the orders in which containers start and stop.                           *)
(***************************************************************************)
EXTENDS Integers, Sequences, SequencesExt

CONSTANTS
    Declared,       \* the containers of the file, in declaration order
    StartAfter,     \* StartAfter[c]: what c declares in start_after
    Everything      \* the target of an operation that names no container

Containers == ToSet(Declared)

(* c cannot be started before d, directly or through others: d is in every   *)
(* set that holds what c waits for and, with a container, what that waits    *)
(* for.                                                                      *)
Closed(S) == \A x \in S : StartAfter[x] \subseteq S
DependsOn(c, d) == \A S \in SUBSET Containers : Closed(S) /\ StartAfter[c] \subseteq S => d \in S

(* A file with an unknown dependency or a cycle is refused when it is parsed. *)
ASSUME GraphAssumption ==
    /\ Declared \in Seq(Containers) /\ StartAfter \in [Containers -> SUBSET Containers]
    /\ Cardinality(Containers) = Len(Declared) /\ Everything \notin Containers
    /\ \A c \in Containers : ~DependsOn(c, c)

(* What is in `keys`, in the given order. *)
kept(order, keys) ==
    LET upto[i \in 0 .. Len(order)] ==
            IF i = 0 THEN <<>>
            ELSE IF order[i] \in keys THEN Append(upto[i - 1], order[i]) ELSE upto[i - 1]
    IN upto[Len(order)]

(* Take the containers that wait for nothing, in declaration order; each one *)
(* taken frees those of which it was the last dependency.                    *)
take(t) ==
    IF t.ready = <<>> THEN t
    ELSE LET key == Head(t.ready)
             order == Append(t.order, key)
             freed == {c \in Containers : key \in StartAfter[c] /\ StartAfter[c] \subseteq ToSet(order)}
         IN [ready |-> Tail(t.ready) \o kept(Declared, freed), order |-> order]
Taken[n \in 0 .. Len(Declared)] ==
    IF n = 0 THEN [ready |-> kept(Declared, {c \in Containers : StartAfter[c] = {}}), order |-> <<>>]
    ELSE take(Taken[n - 1])
topo_order == Taken[Len(Declared)].order

(* The same order in groups: a container is one wave after the last of its  *)
(* dependencies in the order.  No wave is skipped, so there are as many     *)
(* waves as places.                                                         *)
waves(order) ==
    LET at[i \in DOMAIN order] ==
            Max({1} \cup {at[j] + 1 : j \in {k \in 1 .. i - 1 : order[k] \in StartAfter[order[i]]}})
    IN [w \in 1 .. Cardinality({at[i] : i \in DOMAIN order}) |->
            {order[i] : i \in {j \in DOMAIN order : at[j] = w}}]

dependency_closure(key) == {key} \cup {d \in Containers : DependsOn(key, d)}

\* Faulty variant: dependents in the order they are found.
dependents_as_found(key) == kept(topo_order, {d \in Containers : DependsOn(d, key)})

(* Discovery order is not stop order: a dependent stops before what it needs. *)
transitive_dependents(key) == kept(Reverse(topo_order), {d \in Containers : DependsOn(d, key)})

plan_targets(target) ==
    IF target = Everything THEN topo_order
    ELSE kept(topo_order, dependency_closure(target))
=============================================================================
