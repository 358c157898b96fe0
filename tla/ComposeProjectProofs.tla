------------------------ MODULE ComposeProjectProofs ------------------------
(***************************************************************************)
(* What ComposeProject promises, proved for every compose file, every       *)
(* policy and any number of operations, exits and reconnects: one tracked   *)
(* process per container, exact rollbacks, containers that stay down,       *)
(* dependents that stop first, and nothing left after the shutdown.         *)
(*                                                                          *)
(* The first part is about the orders of ComposeGraph, which are recursive  *)
(* functions: induction over the numbers is taken from the well-foundedness *)
(* of <, with the property as a set.  Then the inductive invariant, one     *)
(* lemma for each kind of step, and the order of the stops.                 *)
(***************************************************************************)
EXTENDS ComposeProject, FiniteSetTheorems, WellFoundedInduction, TLAPS

(***************************************************************************)
(* Recursion over the numbers.                                              *)
(***************************************************************************)
(* A set of numbers with 0 and with the successor of each member has all. *)
LEMMA NatSetInduction ==
    ASSUME NEW S, 0 \in S, \A n \in Nat : n \in S => n + 1 \in S
    PROVE  Nat \subseteq S
<1> DEFINE T == Nat \ S
           R == OpToRel(<, Nat)
<1>1. SUFFICES ASSUME T # {} PROVE FALSE
  OBVIOUS
<1>2. T \subseteq Nat
  OBVIOUS
<1>3. \A a, b \in Nat : a < b => <<a, b>> \in R
  <2>1. R = {p \in Nat \X Nat : p[1] < p[2]}
    BY Zenon DEF OpToRel
  <2> HIDE DEF R
  <2> QED BY <2>1
<1>4. IsWellFoundedOn(R, Nat)
  BY NatLessThanWellFounded
<1> HIDE DEF R
<1>5. PICK x \in T : \A y \in T : ~(<<y, x>> \in R)
  BY <1>1, <1>2, <1>4, WFMin
<1>6. x \in Nat /\ x # 0
  OBVIOUS
<1>7. x - 1 \in Nat /\ x - 1 \notin T
  <2>1. x - 1 \in Nat /\ x - 1 < x
    BY <1>6
  <2> HIDE DEF T
  <2> QED BY <1>3, <1>5, <1>6, <2>1
<1> QED BY <1>6, <1>7

(* f goes from each number to the next as `step` says. *)
Follows(f, n, T, start, step) ==
    f \in [0 .. n -> T] /\ f[0] = start /\ \A i \in 1 .. n : f[i] = step[i][f[i - 1]]

(* A function defined by recursion from one number to the next exists. *)
LEMMA RecursionExists ==
    ASSUME NEW n \in Nat, NEW T, NEW start \in T, NEW step \in [1 .. n -> [T -> T]]
    PROVE  \E f : Follows(f, n, T, start, step)
<1> DEFINE S == {k \in Nat : k <= n => \E f \in [0 .. k -> T] :
                     f[0] = start /\ \A i \in 1 .. k : f[i] = step[i][f[i - 1]]}
<1>1. 0 \in S
  <2> DEFINE g == [i \in 0 .. 0 |-> start]
  <2>1. g \in [0 .. 0 -> T] /\ g[0] = start /\ 1 .. 0 = {}
    OBVIOUS
  <2> HIDE DEF g
  <2> QED BY <2>1
<1>2. ASSUME NEW k \in Nat, k \in S PROVE k + 1 \in S
  <2> SUFFICES ASSUME k + 1 <= n
               PROVE  \E f \in [0 .. k + 1 -> T] :
                         f[0] = start /\ \A i \in 1 .. k + 1 : f[i] = step[i][f[i - 1]]
    OBVIOUS
  <2>1. PICK f \in [0 .. k -> T] : f[0] = start /\ \A i \in 1 .. k : f[i] = step[i][f[i - 1]]
    BY <1>2
  <2> DEFINE g == [i \in 0 .. k + 1 |-> IF i <= k THEN f[i] ELSE step[k + 1][f[k]]]
  <2>2. g \in [0 .. k + 1 -> T]
    BY <2>1
  <2>3. g[0] = start
    BY <2>1
  <2>4. ASSUME NEW i \in 1 .. k + 1 PROVE g[i] = step[i][g[i - 1]]
    <3>1. CASE i <= k
      BY <3>1, <2>1
    <3>2. CASE i = k + 1
      BY <3>2, <2>1
    <3> QED BY <3>1, <3>2
  <2> HIDE DEF g
  <2> QED BY <2>2, <2>3, <2>4
<1> HIDE DEF S
<1>3. Nat \subseteq S
  BY <1>1, <1>2, NatSetInduction
<1> QED BY <1>3 DEF S, Follows

(* The sequence that `kept` builds, and what is in it. *)
LEMMA AppendRange ==
    ASSUME NEW C, NEW s \in Seq(C), NEW c \in C
    PROVE  Append(s, c) \in Seq(C) /\ ToSet(Append(s, c)) = ToSet(s) \cup {c}
<1>1. Append(s, c) \in Seq(C) /\ DOMAIN Append(s, c) = DOMAIN s \cup {Len(s) + 1}
  OBVIOUS
<1>2. \A i \in DOMAIN s : Append(s, c)[i] = s[i]
  OBVIOUS
<1>3. Append(s, c)[Len(s) + 1] = c
  OBVIOUS
<1> HIDE DEF ToSet
<1> DEFINE t == Append(s, c)
<1> HIDE DEF t
<1> QED BY <1>1, <1>2, <1>3 DEF ToSet, t

\* How kept builds its result.
LEMMA KeptSteps ==
    ASSUME NEW C, NEW order \in Seq(C), NEW S
    PROVE  \E F : /\ F[0] = <<>> /\ kept(order, S) = F[Len(order)]
                  /\ \A i \in 1 .. Len(order) :
                        F[i] = IF order[i] \in S THEN Append(F[i - 1], order[i]) ELSE F[i - 1]
<1> DEFINE n == Len(order)
           next(v, i) == IF order[i] \in S THEN Append(v, order[i]) ELSE v
           step == [i \in 1 .. n |-> [v \in Seq(C) |-> next(v, i)]]
           G(f) == [i \in 0 .. n |-> IF i = 0 THEN <<>> ELSE next(f[i - 1], i)]
           F == CHOOSE f : f = G(f)
           all == Seq(C)
           none == <<>>
<1>1. n \in Nat /\ none \in all
  OBVIOUS
<1>2. \A i \in 1 .. n, v \in all : step[i][v] = next(v, i) /\ next(v, i) \in all
  OBVIOUS
<1>3. PICK f : Follows(f, n, all, none, step)
  <2>1. step \in [1 .. n -> [all -> all]]
    BY <1>2
  <2> HIDE DEF step, n, all, next, none
  <2> QED BY <1>1, <2>1, RecursionExists
<1>4. f = G(f)
  <2>1. \A i \in 1 .. n : f[i] = next(f[i - 1], i)
    <3> HIDE DEF step, next, all
    <3> QED BY <1>1, <1>2, <1>3 DEF Follows
  <2>2. f = [i \in 0 .. n |-> f[i]]
    BY <1>3 DEF Follows
  <2>3. \A i \in 0 .. n : f[i] = IF i = 0 THEN none ELSE next(f[i - 1], i)
    <3> HIDE DEF n, next, none
    <3> QED BY <2>1, <1>3, <1>1 DEF Follows
  <2>4. [i \in 0 .. n |-> f[i]] = [i \in 0 .. n |-> IF i = 0 THEN none ELSE next(f[i - 1], i)]
    <3> HIDE DEF n, next, none
    <3> QED BY <2>3
  <2> HIDE DEF n
  <2> QED BY <2>2, <2>4, Zenon
<1>5. F = G(F)
  BY <1>4, Zenon
<1>6. kept(order, S) = F[n]
  BY Zenon DEF kept
<1> HIDE DEF F
<1>7. F[0] = none /\ \A i \in 1 .. n : F[i] = next(F[i - 1], i)
  <2>1. F = [i \in 0 .. n |-> IF i = 0 THEN none ELSE next(F[i - 1], i)]
    BY <1>5
  <2> HIDE DEF n, none, next
  <2> QED BY <1>1, <2>1
<1> QED BY <1>6, <1>7

(* Entries of s are entries of t up to place k, in the same order. *)
Within(s, t, k) ==
    /\ \A i \in 1 .. Len(s) : \E a \in 1 .. k : s[i] = t[a]
    /\ \A i, j \in 1 .. Len(s) : i < j => \E a, b \in 1 .. k : a < b /\ s[i] = t[a] /\ s[j] = t[b]

\* Filtering an order keeps those of the set, and no others, in that order.
LEMMA KeptType ==
    ASSUME NEW C, NEW order \in Seq(C), NEW S
    PROVE  /\ kept(order, S) \in Seq(C) /\ ToSet(kept(order, S)) = ToSet(order) \cap S
           /\ Within(kept(order, S), order, Len(order))
<1> DEFINE n == Len(order)
<1>1. n \in Nat
  OBVIOUS
<1>2. PICK F : /\ F[0] = <<>> /\ kept(order, S) = F[n]
               /\ \A i \in 1 .. n : F[i] = IF order[i] \in S THEN Append(F[i - 1], order[i]) ELSE F[i - 1]
  BY KeptSteps
<1> DEFINE upto(k) == {order[i] : i \in 1 .. k}
           P == {k \in Nat : k <= n => /\ F[k] \in Seq(C) /\ ToSet(F[k]) = upto(k) \cap S
                                       /\ Within(F[k], order, k)}
<1>3. 0 \in P
  <2>1. F[0] \in Seq(C) /\ ToSet(F[0]) = {} /\ Len(F[0]) = 0
    BY <1>2 DEF ToSet
  <2>2. Within(F[0], order, 0)
    BY <2>1 DEF Within
  <2> QED BY <2>1, <2>2
<1>4. ASSUME NEW k \in Nat, k \in P PROVE k + 1 \in P
  <2> SUFFICES ASSUME k + 1 <= n
               PROVE  /\ F[k + 1] \in Seq(C) /\ ToSet(F[k + 1]) = upto(k + 1) \cap S
                      /\ Within(F[k + 1], order, k + 1)
    OBVIOUS
  <2>1. /\ F[k + 1] = IF order[k + 1] \in S THEN Append(F[k], order[k + 1]) ELSE F[k]
        /\ order[k + 1] \in C
    BY <1>2
  <2>2. F[k] \in Seq(C) /\ ToSet(F[k]) = upto(k) \cap S /\ Within(F[k], order, k)
    BY <1>4
  <2>3. ToSet(Append(F[k], order[k + 1])) = ToSet(F[k]) \cup {order[k + 1]}
    BY <2>1, <2>2, AppendRange
  <2>4. upto(k + 1) = upto(k) \cup {order[k + 1]}
    OBVIOUS
  <2>5. F[k + 1] \in Seq(C) /\ ToSet(F[k + 1]) = upto(k + 1) \cap S
    <3> HIDE DEF upto
    <3> QED BY <2>1, <2>2, <2>3, <2>4
  <2>6. Within(F[k], order, k + 1)
    <3>1. \A a \in 1 .. k : a \in 1 .. k + 1
      OBVIOUS
    <3> DEFINE old == F[k]
    <3>2. \A i \in 1 .. Len(old) : \E a \in 1 .. k : old[i] = order[a]
      BY <2>2 DEF Within
    <3>3. \A i, j \in 1 .. Len(old) : i < j => \E a, b \in 1 .. k : a < b /\ old[i] = order[a] /\ old[j] = order[b]
      BY <2>2 DEF Within
    <3> HIDE DEF old
    <3>4. \A i \in 1 .. Len(old) : \E a \in 1 .. k + 1 : old[i] = order[a]
      BY <3>1, <3>2
    <3>5. \A i, j \in 1 .. Len(old) : i < j => \E a, b \in 1 .. k + 1 : a < b /\ old[i] = order[a] /\ old[j] = order[b]
      <4> SUFFICES ASSUME NEW i \in 1 .. Len(old), NEW j \in 1 .. Len(old), i < j
                   PROVE  \E a, b \in 1 .. k + 1 : a < b /\ old[i] = order[a] /\ old[j] = order[b]
        OBVIOUS
      <4>1. PICK a \in 1 .. k, b \in 1 .. k : a < b /\ old[i] = order[a] /\ old[j] = order[b]
        BY <3>3
      <4> QED BY <3>1, <4>1
    <3>6. Within(old, order, k + 1)
      BY <3>4, <3>5 DEF Within
    <3> QED BY <3>6 DEF old
  <2>7. Within(Append(F[k], order[k + 1]), order, k + 1)
    <3> DEFINE old == F[k]
               new == Append(F[k], order[k + 1])
    <3>1. /\ Len(new) = Len(old) + 1 /\ Len(old) \in Nat /\ new[Len(old) + 1] = order[k + 1]
          /\ \A i \in 1 .. Len(old) : new[i] = old[i]
      BY <2>1, <2>2
    <3>2. \A i \in 1 .. Len(old) : \E a \in 1 .. k : old[i] = order[a]
      BY <2>2 DEF Within
    <3>3. \A i, j \in 1 .. Len(old) : i < j => \E a, b \in 1 .. k : a < b /\ old[i] = order[a] /\ old[j] = order[b]
      BY <2>2 DEF Within
    <3> HIDE DEF old, new
    <3>4. \A i \in 1 .. Len(new) : \E a \in 1 .. k + 1 : new[i] = order[a]
      <4> TAKE i \in 1 .. Len(new)
      <4>1. CASE i \in 1 .. Len(old)
        BY <3>1, <3>2, <4>1
      <4>2. CASE i = Len(old) + 1
        BY <3>1, <4>2
      <4> QED BY <3>1, <4>1, <4>2
    <3>5. \A i, j \in 1 .. Len(new) : i < j =>
             \E a, b \in 1 .. k + 1 : a < b /\ new[i] = order[a] /\ new[j] = order[b]
      <4> SUFFICES ASSUME NEW i \in 1 .. Len(new), NEW j \in 1 .. Len(new), i < j
                   PROVE  \E a, b \in 1 .. k + 1 : a < b /\ new[i] = order[a] /\ new[j] = order[b]
        OBVIOUS
      <4>1. i \in 1 .. Len(old)
        BY <3>1
      <4>2. CASE j \in 1 .. Len(old)
        <5>1. PICK a \in 1 .. k, b \in 1 .. k : a < b /\ old[i] = order[a] /\ old[j] = order[b]
          BY <3>3, <4>1, <4>2
        <5>2. a \in 1 .. k + 1 /\ b \in 1 .. k + 1
          OBVIOUS
        <5>3. new[i] = old[i] /\ new[j] = old[j]
          BY <3>1, <4>1, <4>2
        <5> QED BY <5>1, <5>2, <5>3
      <4>3. CASE j = Len(old) + 1
        <5>1. PICK a \in 1 .. k : old[i] = order[a]
          BY <3>2, <4>1
        <5>2. a \in 1 .. k + 1 /\ k + 1 \in 1 .. k + 1 /\ a < k + 1
          OBVIOUS
        <5> QED BY <3>1, <4>1, <4>3, <5>1, <5>2
      <4> QED BY <3>1, <4>2, <4>3
    <3> QED BY <3>4, <3>5 DEF Within, new
  <2> QED BY <2>1, <2>5, <2>6, <2>7
<1> HIDE DEF P
<1>5. Nat \subseteq P
  BY <1>3, <1>4, NatSetInduction
<1>6. ToSet(order) = upto(n) /\ n \in P /\ n <= n
  BY <1>1, <1>5 DEF ToSet
<1> QED BY <1>6, <1>2 DEF P

\* A reversed order has the same containers.
LEMMA ReverseRange ==
    ASSUME NEW C, NEW s \in Seq(C)
    PROVE  Reverse(s) \in Seq(C) /\ ToSet(Reverse(s)) = ToSet(s)
<1>1. Reverse(s) \in Seq(C) /\ DOMAIN Reverse(s) = 1 .. Len(s) /\ DOMAIN s = 1 .. Len(s) /\ Len(s) \in Nat
  BY DEF Reverse
<1>2. \A i \in 1 .. Len(s) : Len(s) - i + 1 \in 1 .. Len(s) /\ Reverse(s)[i] = s[Len(s) - i + 1]
  BY DEF Reverse
<1>3. \A i \in 1 .. Len(s) : s[i] = Reverse(s)[Len(s) - i + 1]
  BY DEF Reverse
<1> QED BY <1>1, <1>2, <1>3 DEF ToSet

(* No container occurs twice. *)
Uniq(s) == \A i, j \in 1 .. Len(s) : s[i] = s[j] => i = j

\* A file declares each of its containers once.
LEMMA DeclaredOnce == IsFiniteSet(Containers) /\ Uniq(Declared) /\ Len(Declared) \in Nat
<1> DEFINE n == Len(Declared)
<1>1. n \in Nat /\ DOMAIN Declared = 1 .. n /\ Declared \in [1 .. n -> Containers]
  BY GraphAssumption
<1>2. Declared \in Surjection(1 .. n, Containers)
  <2>1. \A c \in Containers : \E i \in 1 .. n : Declared[i] = c
    BY <1>1 DEF Containers, ToSet
  <2> QED BY <1>1, <2>1 DEF Surjection
<1>3. IsFiniteSet(1 .. n) /\ Cardinality(1 .. n) = n
  <2>1. 1 \in Int /\ n \in Int /\ (1 > n => n = 0) /\ n - 1 + 1 = n
    BY <1>1
  <2> HIDE DEF n
  <2> QED BY <2>1, FS_Interval
<1>4. IsFiniteSet(Containers) /\ (Cardinality(Containers) = n => Declared \in Injection(1 .. n, Containers))
  <2> HIDE DEF n
  <2> QED BY <1>2, <1>3, FS_Surjection
<1>5. Declared \in Injection(1 .. n, Containers)
  BY <1>4, GraphAssumption
<1> QED BY <1>1, <1>4, <1>5 DEF Injection, IsInjective, Uniq

\* What is kept of an order without repetitions has none.
LEMMA KeptOnce ==
    ASSUME NEW C, NEW order \in Seq(C), Uniq(order), NEW S
    PROVE  Uniq(kept(order, S))
<1> DEFINE k == kept(order, S)
<1>1. k \in Seq(C) /\ Within(k, order, Len(order))
  BY KeptType
<1> HIDE DEF k
<1>2. \A i, j \in 1 .. Len(k) : i < j => k[i] # k[j]
  <2> SUFFICES ASSUME NEW i \in 1 .. Len(k), NEW j \in 1 .. Len(k), i < j PROVE k[i] # k[j]
    OBVIOUS
  <2>1. PICK a \in 1 .. Len(order), b \in 1 .. Len(order) : a < b /\ k[i] = order[a] /\ k[j] = order[b]
    BY <1>1 DEF Within
  <2>2. a # b
    BY <2>1
  <2> QED BY <2>1, <2>2 DEF Uniq
<1>3. Len(k) \in Nat
  BY <1>1
<1>4. Uniq(k)
  <2> SUFFICES ASSUME NEW i \in 1 .. Len(k), NEW j \in 1 .. Len(k), k[i] = k[j] PROVE i = j
    BY DEF Uniq
  <2>1. i < j \/ j < i \/ i = j
    BY <1>3
  <2> QED BY <1>2, <2>1
<1> QED BY <1>4 DEF k

(***************************************************************************)
(* Dependencies.                                                            *)
(***************************************************************************)
\* What a container declares it depends on, and what that depends on.
LEMMA Depends ==
    /\ \A c \in Containers : StartAfter[c] \subseteq Containers
    /\ \A c \in Containers : \A d \in StartAfter[c] : DependsOn(c, d)
    /\ \A c, d, e \in Containers : DependsOn(c, d) /\ DependsOn(d, e) => DependsOn(c, e)
<1>1. \A c \in Containers : StartAfter[c] \subseteq Containers
  BY GraphAssumption
<1>2. ASSUME NEW c \in Containers, NEW d \in Containers, NEW e \in Containers, DependsOn(c, d), DependsOn(d, e)
      PROVE  DependsOn(c, e)
  <2> SUFFICES ASSUME NEW S \in SUBSET Containers, Closed(S), StartAfter[c] \subseteq S PROVE e \in S
    BY DEF DependsOn
  <2>1. d \in S
    BY <1>2 DEF DependsOn
  <2>2. StartAfter[d] \subseteq S
    BY <2>1 DEF Closed
  <2> QED BY <1>2, <2>2 DEF DependsOn
<1> QED BY <1>1, <1>2 DEF DependsOn

(* Among any containers there is one that waits for none of the others: one *)
(* with as few dependencies as possible.                                    *)
LEMMA Sources ==
    ASSUME NEW U \in SUBSET Containers, U # {}
    PROVE  \E c \in U : \A d \in U : d \notin StartAfter[c]
<1> DEFINE Below(c) == {d \in Containers : DependsOn(c, d)}
           R == StrictSubsetOrdering(Containers)
           B == {Below(c) : c \in U}
<1>1. IsWellFoundedOn(R, SUBSET Containers)
  BY DeclaredOnce, FS_StrictSubsetOrderingWellFounded, FS_FiniteSubsetsOfFinite
<1>2. B \subseteq SUBSET Containers /\ B # {}
  OBVIOUS
<1>3. \A x, y \in SUBSET Containers : x \subseteq y /\ x # y => <<x, y>> \in R
  BY DEF StrictSubsetOrdering
<1> HIDE DEF R
<1>4. PICK m \in B : \A y \in B : ~(<<y, m>> \in R)
  <2> HIDE DEF B
  <2> QED BY <1>1, <1>2, WFMin
<1>5. PICK c \in U : m = Below(c)
  OBVIOUS
<1>6. ASSUME NEW d \in U, d \in StartAfter[c] PROVE FALSE
  <2>1. DependsOn(c, d) /\ ~DependsOn(d, d)
    BY <1>6, Depends, GraphAssumption
  <2>2. Below(d) \subseteq Below(c)
    BY <2>1, Depends
  <2>3. d \in Below(c) /\ d \notin Below(d)
    BY <2>1
  <2>4. Below(d) \in B /\ Below(d) \in SUBSET Containers /\ Below(c) \in SUBSET Containers
    OBVIOUS
  <2> HIDE DEF Below, B
  <2> QED BY <1>3, <1>4, <1>5, <2>2, <2>3, <2>4
<1> QED BY <1>6

(***************************************************************************)
(* The topological order.                                                   *)
(***************************************************************************)
(* The states of the sort, and its first one. *)
Sorting == [ready : Seq(Containers), order : Seq(Containers)]
First == [ready |-> kept(Declared, {c \in Containers : StartAfter[c] = {}}), order |-> <<>>]
freedBy(key, order) == {c \in Containers : key \in StartAfter[c] /\ StartAfter[c] \subseteq ToSet(order)}

\* One container is taken.
LEMMA TakeStep ==
    ASSUME NEW t \in Sorting
    PROVE  /\ take(t) \in Sorting
           /\ t.ready = <<>> => take(t) = t
           /\ t.ready # <<>> =>
                /\ Head(t.ready) \in Containers
                /\ take(t).order = Append(t.order, Head(t.ready))
                /\ take(t).ready = Tail(t.ready) \o kept(Declared, freedBy(Head(t.ready), Append(t.order, Head(t.ready))))
<1>1. t.ready \in Seq(Containers) /\ t.order \in Seq(Containers)
  BY DEF Sorting
<1>2. CASE t.ready = <<>>
  BY <1>2 DEF take
<1>3. CASE t.ready # <<>>
  <2> DEFINE key == Head(t.ready)
             order == Append(t.order, key)
             more == kept(Declared, freedBy(key, order))
  <2>1. key \in Containers /\ Tail(t.ready) \in Seq(Containers)
    BY <1>1, <1>3
  <2>2. order \in Seq(Containers)
    BY <1>1, <2>1
  <2>3. more \in Seq(Containers)
    BY GraphAssumption, KeptType
  <2>4. take(t) = [ready |-> Tail(t.ready) \o more, order |-> order]
    BY <1>3 DEF take, freedBy
  <2>5. Tail(t.ready) \o more \in Seq(Containers)
    <3> HIDE DEF more
    <3> QED BY <2>1, <2>3
  <2> HIDE DEF more, order
  <2>6. take(t) \in Sorting /\ take(t).order = order /\ take(t).ready = Tail(t.ready) \o more
    BY <2>2, <2>4, <2>5 DEF Sorting
  <2> QED BY <1>3, <2>1, <2>6 DEF more, order
<1> QED BY <1>2, <1>3

\* The sort goes from First by taking a container at a time.
LEMMA TakenSteps ==
    /\ First \in Sorting /\ Taken[0] = First
    /\ \A i \in 1 .. Len(Declared) : Taken[i] = take(Taken[i - 1])
<1> DEFINE n == Len(Declared)
           step == [i \in 1 .. n |-> [v \in Sorting |-> take(v)]]
           G(f) == [i \in 0 .. n |-> IF i = 0 THEN First ELSE take(f[i - 1])]
           F == CHOOSE f : f = G(f)
<1>1. n \in Nat
  BY DeclaredOnce
<1>2. First \in Sorting
  <2>1. kept(Declared, {c \in Containers : StartAfter[c] = {}}) \in Seq(Containers)
    BY GraphAssumption, KeptType
  <2> QED BY <2>1 DEF First, Sorting
<1>3. \A i \in 1 .. n, v \in Sorting : step[i][v] = take(v) /\ take(v) \in Sorting
  BY TakeStep
<1>4. PICK f : Follows(f, n, Sorting, First, step)
  <2>1. step \in [1 .. n -> [Sorting -> Sorting]]
    BY <1>3
  <2> HIDE DEF step, n
  <2> QED BY <1>1, <1>2, <2>1, RecursionExists
<1>5. f = G(f)
  <2>1. \A i \in 1 .. n : i - 1 \in 0 .. n
    BY <1>1
  <2>2. \A i \in 1 .. n : f[i] = take(f[i - 1])
    <3> HIDE DEF step
    <3> QED BY <1>3, <1>4, <2>1 DEF Follows
  <2>3. f = [i \in 0 .. n |-> f[i]]
    BY <1>4 DEF Follows
  <2>4. \A i \in 0 .. n : f[i] = IF i = 0 THEN First ELSE take(f[i - 1])
    <3> HIDE DEF n
    <3> QED BY <1>1, <1>4, <2>2 DEF Follows
  <2>5. [i \in 0 .. n |-> f[i]] = [i \in 0 .. n |-> IF i = 0 THEN First ELSE take(f[i - 1])]
    <3> HIDE DEF n
    <3> QED BY <2>4
  <2> HIDE DEF n
  <2> QED BY <2>3, <2>5, Zenon
<1>6. F = G(F)
  BY <1>5, Zenon
<1>7. Taken = F
  BY Zenon DEF Taken, First
<1> HIDE DEF F
<1>8. F[0] = First /\ \A i \in 1 .. n : F[i] = take(F[i - 1])
  <2>1. F = [i \in 0 .. n |-> IF i = 0 THEN First ELSE take(F[i - 1])]
    BY <1>6
  <2> HIDE DEF n
  <2> QED BY <1>1, <2>1
<1> QED BY <1>2, <1>7, <1>8

\* Appending what is new repeats nothing.
LEMMA AppendOnce ==
    ASSUME NEW C, NEW s \in Seq(C), NEW c \in C, Uniq(s), c \notin ToSet(s)
    PROVE  Uniq(Append(s, c))
<1> DEFINE t == Append(s, c)
<1>1. /\ Len(s) \in Nat /\ Len(t) = Len(s) + 1 /\ t[Len(s) + 1] = c
      /\ \A i \in 1 .. Len(s) : t[i] = s[i] /\ s[i] # c
  BY DEF ToSet
<1> HIDE DEF t
<1>2. Uniq(t)
  <2> SUFFICES ASSUME NEW i \in 1 .. Len(t), NEW j \in 1 .. Len(t), t[i] = t[j] PROVE i = j
    BY DEF Uniq
  <2>1. CASE i \in 1 .. Len(s) /\ j \in 1 .. Len(s)
    BY <1>1, <2>1 DEF Uniq
  <2>2. CASE i = Len(s) + 1 \/ j = Len(s) + 1
    BY <1>1, <2>2
  <2> QED BY <1>1, <2>1, <2>2
<1> QED BY <1>2 DEF t

\* What is left of a sequence without repetitions when its head is taken.
LEMMA TailOnce ==
    ASSUME NEW C, NEW s \in Seq(C), s # <<>>, Uniq(s)
    PROVE  /\ Tail(s) \in Seq(C) /\ Head(s) \in ToSet(s) /\ Uniq(Tail(s))
           /\ ToSet(Tail(s)) = ToSet(s) \ {Head(s)}
<1> DEFINE t == Tail(s)
           n == Len(s)
<1>1. /\ n \in Nat /\ n > 0 /\ t \in Seq(C) /\ Len(t) = n - 1 /\ Head(s) = s[1]
      /\ \A i \in 1 .. n - 1 : t[i] = s[i + 1]
      /\ DOMAIN s = 1 .. n /\ DOMAIN t = 1 .. Len(t)
  OBVIOUS
<1> HIDE DEF t, n
<1>2. Head(s) \in ToSet(s)
  BY <1>1 DEF ToSet
<1>3. \A i, j \in 1 .. n : s[i] = s[j] => i = j
  BY DEF Uniq, n
<1>4. Uniq(t)
  <2> SUFFICES ASSUME NEW i \in 1 .. Len(t), NEW j \in 1 .. Len(t), t[i] = t[j] PROVE i = j
    BY DEF Uniq
  <2>1. i \in Nat /\ j \in Nat /\ i + 1 \in 1 .. n /\ j + 1 \in 1 .. n /\ s[i + 1] = s[j + 1]
    BY <1>1
  <2> QED BY <1>3, <2>1
<1>5. ASSUME NEW x \in ToSet(t) PROVE x \in ToSet(s) \ {Head(s)}
  <2>1. PICK i \in 1 .. Len(t) : t[i] = x
    BY <1>1 DEF ToSet
  <2>2. i + 1 \in 1 .. n /\ s[i + 1] = x /\ 1 \in 1 .. n /\ i + 1 # 1
    BY <1>1, <2>1
  <2> QED BY <1>1, <1>3, <2>2 DEF ToSet
<1>6. ASSUME NEW x \in ToSet(s) \ {Head(s)} PROVE x \in ToSet(t)
  <2>1. PICK i \in 1 .. n : s[i] = x
    BY <1>1 DEF ToSet
  <2>2. i - 1 \in 1 .. Len(t) /\ t[i - 1] = x
    BY <1>1, <2>1
  <2> QED BY <1>1, <2>2 DEF ToSet
<1> QED BY <1>1, <1>2, <1>4, <1>5, <1>6 DEF t

\* Two sequences with nothing in common, one after the other.
LEMMA ConcatOnce ==
    ASSUME NEW C, NEW s \in Seq(C), NEW t \in Seq(C), Uniq(s), Uniq(t), ToSet(s) \cap ToSet(t) = {}
    PROVE  Uniq(s \o t) /\ ToSet(s \o t) = ToSet(s) \cup ToSet(t)
<1> DEFINE u == s \o t
           n == Len(s)
           m == Len(t)
<1>1. /\ n \in Nat /\ m \in Nat /\ Len(u) = n + m /\ u \in Seq(C)
      /\ \A i \in 1 .. n : u[i] = s[i]
      /\ \A i \in 1 .. m : u[n + i] = t[i]
      /\ DOMAIN s = 1 .. n /\ DOMAIN t = 1 .. m /\ DOMAIN u = 1 .. n + m
  OBVIOUS
<1>2. /\ \A i, j \in 1 .. n : s[i] = s[j] => i = j
      /\ \A i, j \in 1 .. m : t[i] = t[j] => i = j
  BY DEF Uniq
<1>3. \A i \in 1 .. n, j \in 1 .. m : s[i] # t[j]
  BY <1>1 DEF ToSet
<1> HIDE DEF u, n, m
<1>4. \A i \in 1 .. n + m : i \in 1 .. n \/ (i - n \in 1 .. m /\ u[i] = t[i - n])
  <2> SUFFICES ASSUME NEW i \in 1 .. n + m, i \notin 1 .. n PROVE i - n \in 1 .. m /\ u[i] = t[i - n]
    OBVIOUS
  <2>1. i - n \in 1 .. m /\ n + (i - n) = i
    BY <1>1
  <2> QED BY <1>1, <2>1
<1>5. Uniq(u)
  <2> SUFFICES ASSUME NEW i \in 1 .. n + m, NEW j \in 1 .. n + m, u[i] = u[j] PROVE i = j
    BY <1>1 DEF Uniq
  <2>1. CASE i \in 1 .. n /\ j \in 1 .. n
    BY <1>1, <1>2, <2>1
  <2>2. CASE i \in 1 .. n /\ j \notin 1 .. n
    BY <1>1, <1>3, <1>4, <2>2
  <2>3. CASE i \notin 1 .. n /\ j \in 1 .. n
    BY <1>1, <1>3, <1>4, <2>3
  <2>4. CASE i \notin 1 .. n /\ j \notin 1 .. n
    <3>1. i - n \in 1 .. m /\ j - n \in 1 .. m /\ t[i - n] = t[j - n]
      BY <1>4, <2>4
    <3>2. i - n = j - n
      BY <1>2, <3>1
    <3> QED BY <1>1, <3>2
  <2> QED BY <2>1, <2>2, <2>3, <2>4
<1>6. ToSet(u) = ToSet(s) \cup ToSet(t)
  <2>1. ASSUME NEW x \in ToSet(u) PROVE x \in ToSet(s) \cup ToSet(t)
    BY <1>1, <1>4 DEF ToSet
  <2>2. ASSUME NEW x \in ToSet(s) PROVE x \in ToSet(u)
    <3>1. PICK i \in 1 .. n : s[i] = x
      BY <1>1 DEF ToSet
    <3>2. i \in 1 .. n + m /\ u[i] = x
      BY <1>1, <3>1
    <3> QED BY <1>1, <3>2 DEF ToSet
  <2>3. ASSUME NEW x \in ToSet(t) PROVE x \in ToSet(u)
    <3>1. PICK i \in 1 .. m : t[i] = x
      BY <1>1 DEF ToSet
    <3>2. n + i \in 1 .. n + m /\ u[n + i] = x
      BY <1>1, <3>1
    <3> QED BY <1>1, <3>2 DEF ToSet
  <2> QED BY <2>1, <2>2, <2>3
<1> QED BY <1>5, <1>6 DEF u

(* What each container waits for was taken before it. *)
InOrder(s) == \A k \in 1 .. Len(s) : StartAfter[s[k]] \subseteq {s[m] : m \in 1 .. k - 1}

(* After n containers: those taken, and those that wait for nothing else.   *)
Stage(t, n) ==
    /\ t \in Sorting /\ Len(t.order) = n /\ Uniq(t.order) /\ Uniq(t.ready) /\ InOrder(t.order)
    /\ ToSet(t.ready) = {c \in Containers : c \notin ToSet(t.order) /\ StartAfter[c] \subseteq ToSet(t.order)}

\* As many containers as places, and no container twice: all of them.
LEMMA Counted ==
    ASSUME NEW s \in Seq(Containers), Uniq(s)
    PROVE  /\ Len(s) = Len(Declared) => ToSet(s) = Containers
           /\ ToSet(s) = Containers => Len(s) = Len(Declared)
<1> DEFINE n == Len(s)
<1>1. n \in Nat /\ DOMAIN s = 1 .. n /\ s \in [1 .. n -> ToSet(s)] /\ ToSet(s) \in SUBSET Containers
  BY DEF ToSet
<1>2. \A x \in ToSet(s) : \E i \in 1 .. n : s[i] = x
  BY <1>1 DEF ToSet
<1>3. s \in Surjection(1 .. n, ToSet(s)) /\ s \in Injection(1 .. n, ToSet(s))
  BY <1>1, <1>2 DEF Surjection, Injection, IsInjective, Uniq
<1>4. IsFiniteSet(1 .. n) /\ Cardinality(1 .. n) = n
  <2>1. 1 \in Int /\ n \in Int /\ (1 > n => n = 0) /\ n - 1 + 1 = n
    BY <1>1
  <2> HIDE DEF n
  <2> QED BY <2>1, FS_Interval
<1>5. Cardinality(ToSet(s)) = n
  <2> HIDE DEF n
  <2> QED BY <1>3, <1>4, FS_Surjection
<1>6. Cardinality(Containers) = Len(Declared)
  BY GraphAssumption
<1> QED BY <1>1, <1>5, <1>6, DeclaredOnce, FS_Subset

\* The sort begins with nothing taken.
LEMMA FirstStage == Stage(First, 0)
<1> DEFINE free == {c \in Containers : StartAfter[c] = {}}
           ready == kept(Declared, free)
<1>1. ToSet(ready) = Containers \cap free
  BY KeptType, GraphAssumption DEF Containers
<1>2. Uniq(ready)
  BY KeptOnce, DeclaredOnce, GraphAssumption
<1>3. First.order = <<>> /\ First.ready = ready
  BY DEF First
<1>4. Len(First.order) = 0 /\ ToSet(First.order) = {}
  BY <1>3 DEF ToSet
<1>5. Uniq(First.order) /\ InOrder(First.order)
  BY <1>4 DEF Uniq, InOrder
<1>6. free = {c \in Containers : StartAfter[c] \subseteq {}}
  OBVIOUS
<1> HIDE DEF ready, free
<1>7. ToSet(First.ready) = {c \in Containers : c \notin {} /\ StartAfter[c] \subseteq {}}
  BY <1>1, <1>3, <1>6
<1> QED BY <1>2, <1>3, <1>4, <1>5, <1>7, TakenSteps DEF Stage

\* While containers are left, one of them waits for nothing else.
LEMMA NotStuck ==
    ASSUME NEW n \in Nat, n < Len(Declared), NEW t, Stage(t, n)
    PROVE  t.ready # <<>>
<1>1. t.order \in Seq(Containers) /\ Uniq(t.order) /\ Len(t.order) = n
  BY DEF Stage, Sorting
<1> DEFINE U == Containers \ ToSet(t.order)
<1>2. U # {}
  <2>1. ToSet(t.order) # Containers
    BY <1>1, Counted
  <2>2. ToSet(t.order) \subseteq Containers
    BY <1>1 DEF ToSet
  <2> QED BY <2>1, <2>2
<1>3. PICK c \in U : \A d \in U : d \notin StartAfter[c]
  <2>1. U \in SUBSET Containers
    OBVIOUS
  <2> HIDE DEF U
  <2> QED BY <1>2, <2>1, Sources
<1>4. StartAfter[c] \subseteq ToSet(t.order)
  BY <1>3, Depends
<1>5. c \in ToSet(t.ready)
  BY <1>4 DEF Stage
<1> QED BY <1>5 DEF ToSet

\* Taking one container leads from one stage to the next.
LEMMA NextStage ==
    ASSUME NEW n \in Nat, n < Len(Declared), NEW t, Stage(t, n)
    PROVE  Stage(take(t), n + 1)
<1> DEFINE key == Head(t.ready)
           order == Append(t.order, key)
           rest == Tail(t.ready)
           more == kept(Declared, freedBy(key, order))
<1>1. t \in Sorting /\ t.ready # <<>> /\ t.order \in Seq(Containers) /\ t.ready \in Seq(Containers)
  BY NotStuck DEF Stage, Sorting
<1>2. take(t) \in Sorting /\ key \in Containers /\ take(t).order = order /\ take(t).ready = rest \o more
  BY <1>1, TakeStep
<1>3. rest \in Seq(Containers) /\ key \in ToSet(t.ready) /\ Uniq(rest) /\ ToSet(rest) = ToSet(t.ready) \ {key}
  BY <1>1, TailOnce DEF Stage
<1>4. key \notin ToSet(t.order) /\ StartAfter[key] \subseteq ToSet(t.order)
  BY <1>3 DEF Stage
<1>5. order \in Seq(Containers) /\ ToSet(order) = ToSet(t.order) \cup {key} /\ Uniq(order)
  BY <1>1, <1>2, <1>4, AppendRange, AppendOnce DEF Stage
<1>6. more \in Seq(Containers) /\ ToSet(more) = freedBy(key, order) /\ Uniq(more)
  <2>1. freedBy(key, order) \subseteq Containers
    BY DEF freedBy
  <2>2. ToSet(Declared) = Containers /\ Declared \in Seq(Containers)
    BY GraphAssumption DEF Containers
  <2> DEFINE set == freedBy(key, order)
  <2> HIDE DEF set
  <2>3. kept(Declared, set) \in Seq(Containers) /\ ToSet(kept(Declared, set)) = ToSet(Declared) \cap set
    BY <2>2, KeptType
  <2>4. Uniq(kept(Declared, set))
    BY <2>2, KeptOnce, DeclaredOnce
  <2> QED BY <2>1, <2>2, <2>3, <2>4 DEF set
<1>7. Len(order) = n + 1 /\ order[n + 1] = key /\ \A k \in 1 .. n : order[k] = t.order[k]
  BY <1>1, <1>2 DEF Stage
<1>8. ToSet(t.order) = {t.order[m] : m \in 1 .. n}
  BY <1>1 DEF Stage, ToSet
<1> HIDE DEF key, order, rest, more
<1>9. InOrder(order)
  <2> SUFFICES ASSUME NEW k \in 1 .. n + 1
               PROVE  StartAfter[order[k]] \subseteq {order[m] : m \in 1 .. k - 1}
    BY <1>7 DEF InOrder
  <2>1. CASE k \in 1 .. n
    <3>1. StartAfter[t.order[k]] \subseteq {t.order[m] : m \in 1 .. k - 1}
      BY <2>1 DEF Stage, InOrder
    <3>2. \A m \in 1 .. k - 1 : order[m] = t.order[m]
      BY <1>7, <2>1
    <3> QED BY <1>7, <2>1, <3>1, <3>2
  <2>2. CASE k = n + 1
    <3>1. k - 1 = n /\ StartAfter[order[k]] \subseteq {t.order[m] : m \in 1 .. n}
      BY <1>4, <1>7, <1>8, <2>2
    <3> QED BY <1>7, <3>1
  <2> QED BY <2>1, <2>2
<1>10. ToSet(rest) \cap ToSet(more) = {}
  BY <1>3, <1>4, <1>6 DEF Stage, freedBy
<1>11. Uniq(rest \o more) /\ ToSet(rest \o more) = ToSet(rest) \cup ToSet(more)
  BY <1>3, <1>6, <1>10, ConcatOnce
<1>12. key \notin StartAfter[key]
  BY <1>4
<1>13. ToSet(rest \o more) = {c \in Containers : c \notin ToSet(order) /\ StartAfter[c] \subseteq ToSet(order)}
  <2>1. ASSUME NEW c \in ToSet(rest) \cup ToSet(more)
        PROVE  c \in Containers /\ c \notin ToSet(order) /\ StartAfter[c] \subseteq ToSet(order)
    <3>1. CASE c \in ToSet(rest)
      BY <3>1, <1>3, <1>5 DEF Stage
    <3>2. CASE c \in ToSet(more)
      <4>1. c \in Containers /\ key \in StartAfter[c] /\ StartAfter[c] \subseteq ToSet(order)
        BY <3>2, <1>6 DEF freedBy
      <4>2. c \notin ToSet(t.order)
        <5> SUFFICES ASSUME c \in ToSet(t.order) PROVE FALSE
          OBVIOUS
        <5>1. PICK k \in 1 .. n : t.order[k] = c
          BY <1>8
        <5>2. key \in {t.order[m] : m \in 1 .. k - 1}
          BY <4>1, <5>1 DEF Stage, InOrder
        <5>3. key \in ToSet(t.order)
          BY <1>8, <5>2
        <5> QED BY <1>4, <5>3
      <4> QED BY <1>5, <1>12, <4>1, <4>2
    <3> QED BY <2>1, <3>1, <3>2
  <2>2. ASSUME NEW c \in Containers, c \notin ToSet(order), StartAfter[c] \subseteq ToSet(order)
        PROVE  c \in ToSet(rest) \cup ToSet(more)
    <3>1. CASE key \in StartAfter[c]
      BY <2>2, <3>1, <1>6 DEF freedBy
    <3>2. CASE key \notin StartAfter[c]
      BY <2>2, <3>2, <1>3, <1>5 DEF Stage
    <3> QED BY <3>1, <3>2
  <2> QED BY <1>11, <2>1, <2>2
<1> QED BY <1>2, <1>5, <1>7, <1>9, <1>11, <1>13 DEF Stage

(* The topological order has every container once, after all it depends on:  *)
(* the sort of a file without cycles never stops with containers left over,  *)
(* so the error topo_order has for that case is unreachable.                 *)
THEOREM TopoOrder ==
    topo_order \in Seq(Containers) /\ ToSet(topo_order) = Containers /\ Uniq(topo_order) /\ InOrder(topo_order)
<1> DEFINE N == Len(Declared)
           S == {n \in Nat : n <= N => Stage(Taken[n], n)}
<1>1. N \in Nat
  BY DeclaredOnce
<1>2. 0 \in S
  BY FirstStage, TakenSteps
<1>3. ASSUME NEW n \in Nat, n \in S PROVE n + 1 \in S
  <2> SUFFICES ASSUME n + 1 <= N PROVE Stage(Taken[n + 1], n + 1)
    OBVIOUS
  <2>1. n < N /\ n <= N /\ n + 1 \in 1 .. N /\ (n + 1) - 1 = n
    BY <1>1
  <2>2. Taken[n + 1] = take(Taken[n])
    BY <2>1, TakenSteps
  <2> QED BY <1>3, <2>1, <2>2, NextStage
<1>4. N \in S
  <2> HIDE DEF S
  <2> QED BY <1>1, <1>2, <1>3, NatSetInduction
<1>5. Stage(Taken[N], N)
  BY <1>1, <1>4
<1> QED BY <1>5, Counted DEF Stage, Sorting, topo_order

(* A container depends only on those before it. *)
LEMMA DependenciesFirst ==
    ASSUME NEW a \in 1 .. Len(topo_order), NEW b \in 1 .. Len(topo_order), DependsOn(topo_order[b], topo_order[a])
    PROVE  a < b
<1> DEFINE s == topo_order
           S == {s[m] : m \in 1 .. b - 1}
<1>1. s \in Seq(Containers) /\ Uniq(s) /\ InOrder(s) /\ Len(s) \in Nat
  BY TopoOrder
<1> HIDE DEF s
<1>2. \A k \in 1 .. Len(s) : s[k] \in Containers /\ StartAfter[s[k]] \subseteq {s[m] : m \in 1 .. k - 1}
  <2>1. \A k \in 1 .. Len(s) : s[k] \in Containers
    BY <1>1
  <2>2. \A k \in 1 .. Len(s) : StartAfter[s[k]] \subseteq {s[m] : m \in 1 .. k - 1}
    BY <1>1, Zenon DEF InOrder
  <2> QED BY <2>1, <2>2
<1>3. b \in 1 .. Len(s) /\ a \in 1 .. Len(s) /\ DependsOn(s[b], s[a])
  BY DEF s
<1>4. \A m \in 1 .. b - 1 : m \in 1 .. Len(s)
  BY <1>1, <1>3
<1>5. S \in SUBSET Containers /\ StartAfter[s[b]] \subseteq S
  BY <1>2, <1>3, <1>4
<1>6. Closed(S)
  <2> SUFFICES ASSUME NEW k \in 1 .. b - 1 PROVE StartAfter[s[k]] \subseteq S
    BY DEF Closed
  <2>1. StartAfter[s[k]] \subseteq {s[m] : m \in 1 .. k - 1}
    BY <1>2, <1>4
  <2>2. \A m \in 1 .. k - 1 : m \in 1 .. b - 1
    BY <1>3
  <2> QED BY <2>1, <2>2
<1>7. s[a] \in S
  BY <1>3, <1>5, <1>6 DEF DependsOn
<1>8. PICK m \in 1 .. b - 1 : s[a] = s[m]
  BY <1>7
<1>9. a = m
  BY <1>1, <1>3, <1>4, <1>8 DEF Uniq
<1> QED BY <1>3, <1>9

(* Whatever depends on an entry comes before it. *)
DependentsFirst(order) ==
    \A i \in 1 .. Len(order), d \in Containers : DependsOn(d, order[i]) => \E j \in 1 .. i - 1 : order[j] = d

\* The reverse of the topological order stops dependents first.
LEMMA ReverseSafe ==
    /\ DependentsFirst(Reverse(topo_order)) /\ Uniq(Reverse(topo_order))
    /\ Reverse(topo_order) \in Seq(Containers) /\ ToSet(Reverse(topo_order)) = Containers
<1> DEFINE s == topo_order
           r == Reverse(topo_order)
           N == Len(topo_order)
<1>1. s \in Seq(Containers) /\ ToSet(s) = Containers /\ Uniq(s) /\ N \in Nat
  BY TopoOrder
<1>2. r \in Seq(Containers) /\ ToSet(r) = Containers
  BY <1>1, ReverseRange
<1>3. Len(r) = N /\ \A i \in 1 .. N : N - i + 1 \in 1 .. N /\ r[i] = s[N - i + 1] /\ N - (N - i + 1) + 1 = i
  BY <1>1 DEF Reverse
<1>4. \A a, b \in 1 .. N : DependsOn(s[b], s[a]) => a < b
  BY DependenciesFirst
<1>5. \A a, b \in 1 .. N : s[a] = s[b] => a = b
  BY <1>1 DEF Uniq
<1>6. \A d \in Containers : \E b \in 1 .. N : s[b] = d
  BY <1>1 DEF ToSet
<1> HIDE DEF s, r, N
<1>7. Uniq(r)
  <2> SUFFICES ASSUME NEW i \in 1 .. N, NEW j \in 1 .. N, r[i] = r[j] PROVE i = j
    BY <1>3 DEF Uniq
  <2>1. PICK a \in 1 .. N : a = N - i + 1 /\ r[i] = s[a]
    BY <1>3
  <2>2. PICK b \in 1 .. N : b = N - j + 1 /\ r[j] = s[b]
    BY <1>3
  <2>3. a = b
    BY <1>5, <2>1, <2>2
  <2> QED BY <1>1, <2>1, <2>2, <2>3
<1>8. DependentsFirst(r)
  <2> SUFFICES ASSUME NEW i \in 1 .. N, NEW d \in Containers, DependsOn(d, r[i])
               PROVE  \E j \in 1 .. i - 1 : r[j] = d
    BY <1>3 DEF DependentsFirst
  <2>1. PICK b \in 1 .. N : s[b] = d
    BY <1>6
  <2>2. N - i + 1 < b
    BY <1>3, <1>4, <2>1
  <2>3. N - b + 1 \in 1 .. i - 1
    BY <1>1, <2>2
  <2>4. r[N - b + 1] = s[b]
    BY <1>3
  <2> QED BY <2>1, <2>3, <2>4
<1> QED BY <1>2, <1>7, <1>8 DEF r

\* So does the order of those that depend on one container.
LEMMA DependentsSafe ==
    ASSUME NEW key \in Containers
    PROVE  /\ transitive_dependents(key) \in Seq(Containers)
           /\ DependentsFirst(Append(transitive_dependents(key), key))
<1> DEFINE D == {d \in Containers : DependsOn(d, key)}
           r == Reverse(topo_order)
           k == transitive_dependents(key)
<1>1. r \in Seq(Containers) /\ ToSet(r) = Containers /\ Uniq(r) /\ DependentsFirst(r)
  BY ReverseSafe
<1>2. k \in Seq(Containers) /\ ToSet(k) = ToSet(r) \cap D /\ Within(k, r, Len(r))
  <2> HIDE DEF D
  <2>1. k = kept(r, D)
    BY DEF transitive_dependents, D
  <2> QED BY <1>1, <2>1, KeptType
<1>3. Len(k) \in Nat /\ Len(r) \in Nat
  BY <1>1, <1>2
<1> HIDE DEF r, k
<1>4. \A d \in D : \E j \in 1 .. Len(k) : k[j] = d
  BY <1>1, <1>2 DEF ToSet
<1>5. \A i \in 1 .. Len(k) : k[i] \in Containers /\ DependsOn(k[i], key)
  BY <1>2 DEF ToSet
<1>6. \A c, d \in Containers : DependsOn(c, d) => c # d
  BY GraphAssumption
<1>7. ASSUME NEW i \in 1 .. Len(k), NEW d \in Containers, DependsOn(d, k[i])
      PROVE  \E j \in 1 .. i - 1 : k[j] = d
  <2>1. d \in D
    BY <1>5, <1>7, Depends
  <2>2. PICK j \in 1 .. Len(k) : k[j] = d
    BY <1>4, <2>1
  <2>3. j # i
    BY <1>5, <1>6, <1>7, <2>2
  <2>4. ASSUME i < j PROVE FALSE
    <3>1. PICK a \in 1 .. Len(r), b \in 1 .. Len(r) : a < b /\ k[i] = r[a] /\ k[j] = r[b]
      BY <1>2, <2>4 DEF Within
    <3>2. PICK m \in 1 .. a - 1 : r[m] = d
      BY <1>1, <1>7, <3>1 DEF DependentsFirst
    <3>3. m \in 1 .. Len(r) /\ m # b
      BY <1>3, <3>1
    <3> QED BY <1>1, <2>2, <3>1, <3>2, <3>3 DEF Uniq
  <2>5. j \in 1 .. i - 1
    BY <1>3, <2>3, <2>4
  <2> QED BY <2>2, <2>5
<1>8. DependentsFirst(Append(k, key))
  <2> DEFINE t == Append(k, key)
  <2>1. /\ Len(t) = Len(k) + 1 /\ t[Len(k) + 1] = key /\ \A i \in 1 .. Len(k) : t[i] = k[i]
    BY <1>2
  <2> HIDE DEF t
  <2>2. SUFFICES ASSUME NEW i \in 1 .. Len(t), NEW d \in Containers, DependsOn(d, t[i])
               PROVE  \E j \in 1 .. i - 1 : t[j] = d
    BY DEF DependentsFirst, t
  <2>3. CASE i \in 1 .. Len(k)
    <3>1. PICK j \in 1 .. i - 1 : k[j] = d
      BY <1>7, <2>1, <2>2, <2>3
    <3>2. j \in 1 .. Len(k)
      BY <1>3, <2>3
    <3> QED BY <2>1, <3>1, <3>2
  <2>4. CASE i = Len(k) + 1
    <3>1. PICK j \in 1 .. Len(k) : k[j] = d
      BY <1>4, <2>1, <2>2, <2>4
    <3>2. j \in 1 .. i - 1
      BY <1>3, <2>4
    <3> QED BY <2>1, <3>1, <3>2
  <2> QED BY <1>3, <2>1, <2>3, <2>4
<1> QED BY <1>2, <1>8 DEF k

(***************************************************************************)
(* The orders of a compose file.                                            *)
(***************************************************************************)
Targets == Containers \cup {Everything}
taken(target) == IF target = Everything THEN Containers ELSE {target}

(* The orders up and down walk are sequences of containers, and a down's has *)
(* what it was asked to take.                                               *)
LEMMA PlanType ==
    ASSUME NEW target \in Targets
    PROVE  plan_targets(target) \in Seq(Containers)
BY TopoOrder, KeptType DEF plan_targets

\* A down stops all it takes down, and what depends on it first.
LEMMA DownOrder ==
    ASSUME NEW target \in Targets
    PROVE  /\ down_order(target) \in Seq(Containers) /\ taken(target) \subseteq ToSet(down_order(target))
           /\ DependentsFirst(down_order(target))
<1>1. CASE target = Everything
  BY <1>1, ReverseSafe DEF down_order, taken
<1>2. CASE target # Everything
  BY <1>2, DependentsSafe, AppendRange DEF down_order, taken, Targets
<1> QED BY <1>1, <1>2

(* The waves of an order are made of what is in it. *)
LEMMA WavesOf ==
    ASSUME NEW order \in Seq(Containers)
    PROVE  /\ waves(order) \in Seq(SUBSET Containers)
           /\ \A i \in DOMAIN waves(order) : waves(order)[i] \subseteq ToSet(order)
<1> DEFINE at == CHOOSE f : f = [i \in DOMAIN order |->
                   Max({1} \cup {f[j] + 1 : j \in {k \in 1 .. i - 1 : order[k] \in StartAfter[order[i]]}})]
           places == {at[i] : i \in DOMAIN order}
<1>1. waves(order) = [w \in 1 .. Cardinality(places) |-> {order[i] : i \in {j \in DOMAIN order : at[j] = w}}]
  BY Zenon DEF waves
<1> HIDE DEF at
<1>2. Cardinality(places) \in Nat
  <2> DEFINE f == [i \in DOMAIN order |-> at[i]]
  <2>1. DOMAIN order = 1 .. Len(order) /\ Len(order) \in Nat
    OBVIOUS
  <2>2. IsFiniteSet(DOMAIN order)
    BY <2>1, FS_Interval
  <2>3. f \in Surjection(DOMAIN order, places)
    BY DEF Surjection
  <2> QED BY <2>2, <2>3, FS_Surjection, FS_CardinalityType
<1> DEFINE n == Cardinality(places)
<1> HIDE DEF n
<1>3. \A w \in 1 .. n : {order[i] : i \in {j \in DOMAIN order : at[j] = w}} \subseteq ToSet(order)
  BY DEF ToSet
<1>4. ToSet(order) \subseteq Containers
  BY DEF ToSet
<1> QED BY <1>1, <1>2, <1>3, <1>4 DEF n

(***************************************************************************)
(* The inductive invariant.                                                 *)
(***************************************************************************)
(* The states of a handle, of a start in hand and of the supervisor's loops. *)
Handles == {"none", "running", "crashed", "clean"}
Starts == {"no", "prep", "running", "crashed", "clean"}
Loops == {"recheck", "exits", "retries"}
KeyHeld == {"claim", "attempt", "bounce", "forget", "down", "downing", "mark"}

HandType == [op : {"none", "up", "down", "restart"}, target : Targets,
             phase : {"done", "stop", "wave", "start"}, stops : Seq(Containers),
             waves : Seq(SUBSET Containers), start : [Containers -> Starts],
             tries : [Containers -> Nat], started : Seq(Containers),
             failed : BOOLEAN, cut : BOOLEAN, cancelled : BOOLEAN, before : SUBSET Containers]
SupType == [at : {"sleep", "gone", "reap", "drive"} \cup Loops \cup KeyHeld,
            todo : SUBSET (Containers \cup (Containers \X Exited)), key : Targets,
            loop : {"none"} \cup Loops, fate : {"none", "failed", "stopped"}]
(* Types of the variables. *)
Typed ==
    /\ children \in [Containers -> Handles]
    /\ due \in [Containers -> {"no", "waiting", "now"}]
    /\ leases \subseteq Containers
    /\ lock \in {NoOne, "operator", "supervisor", "shutdown"}
    /\ hand \in HandType
    /\ sup \in SupType
    /\ shutdown \in {"no", "cancelled", "down", "cleared", "done"}
    /\ procs \in [Containers -> Nat]
    /\ downed \in [Containers -> {"no", "target", "along"}]

(* While the supervisor looks at a key it knows which of its loops took it. *)
Visiting ==
    /\ sup.at \in Loops => sup.at = sup.loop
    /\ sup.at \in KeyHeld => sup.key \in Containers /\ sup.loop \in Loops
    /\ sup.loop = "exits" => sup.todo \subseteq Containers \X Exited
    /\ sup.loop \in {"recheck", "retries"} => sup.todo \subseteq Containers

(* The project lock is held exactly while an operation is in hand, and the *)
(* holder knows which operation that is.                                    *)
LockHeld ==
    /\ lock = NoOne => hand = Idle
    /\ lock = "supervisor" <=> sup.at \in {"bounce", "downing"}
    /\ lock = "shutdown" <=> shutdown = "down"
    /\ lock = "shutdown" => hand.op = "down" /\ hand.target = Everything
    /\ sup.at = "bounce" => hand.op = "restart" /\ hand.target = sup.key

(* Starts are in hand only in the starting phase of an operation that has   *)
(* one; a restart has stopped its container before it starts it.            *)
Phases ==
    /\ hand.phase # "start" => hand.start = NoStart
    /\ hand.op \in {"none", "down"} => hand.phase \in {"stop", "done"}
    /\ hand.op = "none" => hand.phase = "done"
    /\ hand.op = "restart" =>
         /\ hand.target \in Containers /\ hand.phase # "wave"
         /\ \A c \in Containers : hand.start[c] # "no" => c = hand.target
         /\ hand.phase = "stop" =>
              \/ hand.stops = <<hand.target>>
              \/ hand.stops = <<>> /\ children[hand.target] # "running"

(* OneTrackedProcess as an equation; a start is in hand only for a container *)
(* whose handle is not running.                                             *)
Tracked ==
    \A c \in Containers :
        /\ hand.start[c] # "no" => children[c] # "running"
        /\ procs[c] = IF children[c] = "running" \/ hand.start[c] = "running" THEN 1 ELSE 0

(* What a down was asked to take is down already or still in its plan, and   *)
(* an operator's down has cancelled its retries.                            *)
Stopping ==
    hand.op = "down" =>
        \A c \in taken(hand.target) :
            /\ children[c] = "none" \/ (hand.phase = "stop" /\ c \in ToSet(hand.stops))
            /\ lock = "operator" => due[c] = "no" /\ c \notin leases

(* A container taken down by name has nothing that could start it: no retry, *)
(* no lease, no operation in hand.                                          *)
StaysDown ==
    /\ \A c \in Containers : downed[c] = "target" =>
          children[c] = "none" /\ hand.start[c] = "no" /\ due[c] = "no" /\ c \notin leases
    /\ hand.op = "restart" => downed[hand.target] # "target"
    /\ hand.op = "up" => \A i \in DOMAIN hand.waves : \A c \in hand.waves[i] : downed[c] # "target"

(* What runs during an up ran before it, or is in the list its rollback will *)
(* stop.                                                                    *)
RollingBack ==
    hand.op = "up" =>
        /\ hand.phase = "wave" => ~hand.failed /\ ~hand.cut
        /\ ToSet(hand.stops) \subseteq ToSet(hand.started)
        /\ \A c \in hand.before \ ToSet(hand.started) : children[c] # "none"
        /\ \A c \in Containers : children[c] = "running" =>
              \/ c \in hand.before \ ToSet(hand.started)
              \/ hand.phase \in {"wave", "start"} /\ c \in ToSet(hand.started)
              \/ hand.phase = "stop" /\ c \in ToSet(hand.stops)
              \/ hand.phase = "done" /\ ~hand.failed /\ ~hand.cut

(* From the moment the shutdown has the lock the supervisor is gone and only *)
(* its own down is in hand; after that nothing has a handle.                *)
ShuttingDown ==
    shutdown \in {"down", "cleared", "done"} =>
        /\ sup.at = "gone" /\ hand.op \in {"down", "none"}
        /\ shutdown # "down" => \A c \in Containers : children[c] = "none"

IInv ==
    /\ Typed /\ Visiting /\ LockHeld /\ Phases /\ Tracked
    /\ Stopping /\ StaysDown /\ RollingBack /\ ShuttingDown

\* The invariant holds at first.
LEMMA Initially == Init => IInv
<1> SUFFICES ASSUME Init PROVE IInv
  OBVIOUS
<1> USE DEF Init, Idle, Asleep, NoStart
<1>1. Typed
  BY DEF Typed, HandType, SupType, Handles, Starts, Loops, KeyHeld, Targets
<1>2. Visiting /\ LockHeld /\ Phases /\ Tracked
  BY ProjectAssumption DEF Visiting, LockHeld, Phases, Tracked, Loops, KeyHeld
<1>3. Stopping /\ StaysDown /\ RollingBack /\ ShuttingDown
  BY DEF Stopping, StaysDown, RollingBack, ShuttingDown
<1> QED BY <1>1, <1>2, <1>3 DEF IInv

(***************************************************************************)
(* Steps of the supervisor and of time that leave the operation in hand     *)
(* alone: all that matters is whom they make eligible for a restart.        *)
(***************************************************************************)
Apart == UNCHANGED <<children, lock, hand, procs, shutdown, downed>>

\* A step of the supervisor that starts and ends no operation.
LEMMA SupStep ==
    ASSUME IInv, Apart, Typed', Visiting',
           \/ sup.at \notin {"bounce", "downing", "gone"} /\ sup'.at \notin {"bounce", "downing"}
           \/ sup' = sup,
           \A c \in Containers : downed[c] = "target" \/ lock = "operator" =>
               /\ due[c] = "no" => due'[c] = "no"
               /\ c \notin leases => c \notin leases'
    PROVE  IInv'
<1> USE DEF IInv, Apart
<1>1. LockHeld'
  BY DEF LockHeld
<1>2. Phases' /\ Tracked'
  BY DEF Phases, Tracked
<1>3. Stopping'
  BY DEF Stopping, taken, Typed, HandType, Targets
<1>4. StaysDown'
  BY DEF StaysDown
<1>5. RollingBack' /\ ShuttingDown'
  BY DEF RollingBack, ShuttingDown
<1> QED BY <1>1, <1>2, <1>3, <1>4, <1>5

(* The supervisor decides what to visit next. *)
LEMMA LookStep ==
    ASSUME IInv, Apart, UNCHANGED restarts, sup' \in SupType, Visiting',
           sup.at \notin {"bounce", "downing", "gone"}, sup'.at \notin {"bounce", "downing"}
    PROVE  IInv'
<1>1. Typed'
  BY DEF IInv, Typed, Apart, restarts
<1> QED BY <1>1, SupStep DEF restarts

\* The supervisor's look at what has exited and what is due.
LEMMA Looking ==
    ASSUME IInv
    PROVE  /\ supervise => IInv'
           /\ reconcile_after_reconnect => IInv'
           /\ reap => IInv'
           /\ drive_restarts => IInv'
<1> USE DEF Apart, inner, restarts, outside, gone, Asleep, Loops, KeyHeld, SupType, Visiting
<1>1. sup \in SupType /\ Visiting
  BY DEF IInv, Typed
<1>2. ASSUME supervise PROVE IInv'
  BY <1>1, <1>2, LookStep DEF supervise, Targets
<1>3. ASSUME reconcile_after_reconnect PROVE IInv'
  BY <1>1, <1>3, LookStep DEF reconcile_after_reconnect
<1>4. ASSUME reap PROVE IInv'
  <2> DEFINE todo == {<<c, children[c]>> : c \in {d \in Containers : children[d] \in Exited}}
  <2>0. todo \subseteq Containers \X Exited
    OBVIOUS
  <2> HIDE DEF todo
  <2>1. sup' \in SupType /\ Visiting'
    BY <1>1, <1>4, <2>0 DEF reap, todo
  <2> QED BY <1>1, <1>4, <2>1, LookStep DEF reap
<1>5. ASSUME drive_restarts PROVE IInv'
  BY <1>1, <1>5, LookStep DEF drive_restarts
<1> QED BY <1>2, <1>3, <1>4, <1>5

\* Waiting for workers to register again keeps the invariant.
LEMMA RecheckStep == ASSUME IInv, wait_for_reregistration PROVE IInv'
<1> USE DEF inner, restarts, outside, Loops, KeyHeld, SupType, Visiting
<1>1. sup \in SupType /\ Visiting /\ Apart /\ UNCHANGED restarts /\ sup.at = "recheck" /\ sup.loop = "recheck"
  BY DEF IInv, Typed, wait_for_reregistration, Apart
<1>2. CASE sup' \in {gone, [Asleep EXCEPT !.at = "reap"]}
  BY <1>1, <1>2, LookStep DEF gone, Asleep, Targets
<1>3. ASSUME NEW c \in sup.todo, NEW rest, rest = [sup EXCEPT !.todo = @ \ {c}],
             sup' \in {rest, [rest EXCEPT !.at = "down", !.key = c, !.fate = "failed"]}
      PROVE  IInv'
  <2>1. c \in Containers /\ c \in Targets
    BY <1>1, <1>3 DEF Targets
  <2>2. rest \in SupType
    BY <1>1, <1>3
  <2>3. sup' \in SupType /\ Visiting'
    <3>1. CASE sup' = rest
      BY <1>1, <1>3, <2>2, <3>1
    <3>2. CASE sup' = [rest EXCEPT !.at = "down", !.key = c, !.fate = "failed"]
      <4>1. rest.loop = "recheck" /\ rest.todo \subseteq Containers
        BY <1>1, <1>3
      <4> QED BY <2>1, <2>2, <3>2, <4>1
    <3> QED BY <1>3, <3>1, <3>2
  <2>4. sup'.at \in {"recheck", "down"}
    BY <1>1, <1>3, <2>2
  <2> QED BY <1>1, <2>3, <2>4, LookStep
<1> QED BY <1>2, <1>3 DEF wait_for_reregistration

\* Answering an exit keeps the invariant.
LEMMA ExitsStep == ASSUME IInv, answer_exit PROVE IInv'
<1> USE DEF inner, restarts, outside, Loops, KeyHeld, SupType, Visiting
<1>1. sup \in SupType /\ Visiting /\ Apart /\ UNCHANGED restarts /\ sup.at = "exits" /\ sup.loop = "exits"
  BY DEF IInv, Typed, answer_exit, Apart
<1>2. CASE sup' \in {gone, [Asleep EXCEPT !.at = "drive"]}
  BY <1>1, <1>2, LookStep DEF gone, Asleep, Targets
<1>3. ASSUME NEW e \in sup.todo, NEW at \in {"claim", "forget"}, NEW fate \in {"stopped", "failed"},
             sup' = [sup EXCEPT !.todo = @ \ {e}, !.key = e[1], !.at = at, !.fate = fate]
      PROVE  IInv'
  <2>1. e[1] \in Containers /\ e[1] \in Targets
    BY <1>1, <1>3 DEF Targets
  <2>2. sup' \in SupType /\ Visiting'
    BY <1>1, <1>3, <2>1
  <2> QED BY <1>1, <1>3, <2>2, LookStep
<1> QED BY <1>2, <1>3 DEF answer_exit

\* Answering a retry that is due keeps the invariant.
LEMMA RetriesStep == ASSUME IInv, answer_retry PROVE IInv'
<1> USE DEF inner, restarts, outside, Loops, KeyHeld, SupType, Visiting
<1>1. sup \in SupType /\ Visiting /\ Apart /\ UNCHANGED restarts /\ sup.at = "retries" /\ sup.loop = "retries"
  BY DEF IInv, Typed, answer_retry, Apart
<1>2. CASE sup' = Asleep
  BY <1>1, <1>2, LookStep DEF Asleep, Targets
<1>3. ASSUME NEW c \in sup.todo, sup' = [sup EXCEPT !.todo = @ \ {c}, !.key = c, !.at = "claim", !.fate = "failed"]
      PROVE  IInv'
  <2>1. c \in Containers /\ c \in Targets
    BY <1>1, <1>3 DEF Targets
  <2>2. sup' \in SupType /\ Visiting'
    BY <1>1, <1>3, <2>1
  <2> QED BY <1>1, <1>3, <2>2, LookStep
<1> QED BY <1>2, <1>3 DEF answer_retry

(* Only what exited, or is due, is claimed. *)
LEMMA ClaimStep == ASSUME IInv, claim_restart PROVE IInv'
<1> USE DEF inner, outside, Loops, KeyHeld, SupType, Visiting
<1>1. sup \in SupType /\ Visiting /\ Apart /\ sup.at = "claim" /\ lock = NoOne /\ sup.key \in Containers
  BY DEF IInv, Typed, claim_restart, Apart
<1>2. sup' \in SupType /\ Visiting' /\ sup'.at \in {"attempt", sup.loop}
  BY <1>1 DEF claim_restart, on, back, Targets
<1>3. Typed'
  BY <1>1, <1>2 DEF IInv, Typed, Apart, claim_restart
<1>4. \A c \in Containers : downed[c] = "target" =>
          children[c] = "none" /\ due[c] = "no" /\ c \notin leases
  BY DEF IInv, StaysDown
<1>5. \A c \in Containers : downed[c] = "target" => due'[c] = "no" /\ c \notin leases'
  BY <1>1, <1>4 DEF claim_restart, restart_is_eligible, Exited, IInv, Typed
<1> QED BY <1>1, <1>2, <1>3, <1>5, SupStep, ProjectAssumption

\* Dropping an attempt whose claim is gone keeps the invariant.
LEMMA DroppedStep == ASSUME IInv, AttemptDropped PROVE IInv'
<1> USE DEF inner, outside, Loops, KeyHeld, SupType, Visiting
<1>1. sup \in SupType /\ Visiting /\ Apart /\ sup.at = "attempt" /\ UNCHANGED due
  BY DEF IInv, Typed, AttemptDropped, Apart
<1>2. sup' \in SupType /\ Visiting' /\ sup'.at = sup.loop
  BY <1>1 DEF AttemptDropped, back, Targets
<1>3. leases' \subseteq leases
  BY DEF AttemptDropped, release
<1>4. Typed'
  BY <1>1, <1>2, <1>3 DEF IInv, Typed, Apart
<1> QED BY <1>1, <1>2, <1>3, <1>4, SupStep

\* Forgetting restarts keeps the invariant.
LEMMA ForgetStep == ASSUME IInv, forget_restarts PROVE IInv'
<1> USE DEF inner, outside, Loops, KeyHeld, SupType, Visiting
<1>1. sup \in SupType /\ Visiting /\ Apart /\ sup.at = "forget"
  BY DEF IInv, Typed, forget_restarts, Apart
<1>2. sup' \in SupType /\ Visiting' /\ sup'.at = "down"
  BY <1>1 DEF forget_restarts, on, Targets
<1>3. Typed' /\ leases' \subseteq leases /\ \A c \in Containers : due[c] = "no" => due'[c] = "no"
  BY <1>1, <1>2 DEF IInv, Typed, Apart, forget_restarts
<1> QED BY <1>1, <1>2, <1>3, SupStep

\* Marking a container keeps the invariant.
LEMMA MarkStep == ASSUME IInv, mark PROVE IInv'
<1> USE DEF inner, outside, Loops, KeyHeld, SupType, Visiting
<1>1. sup \in SupType /\ Visiting /\ Apart /\ sup.at = "mark" /\ UNCHANGED restarts
  BY DEF IInv, Typed, mark, Apart
<1>2. sup' = gone \/ sup' = back
  BY DEF mark
<1>3. sup' \in SupType /\ Visiting' /\ sup'.at \in {"gone", sup.loop}
  BY <1>1, <1>2 DEF gone, back, Asleep, Targets
<1> QED BY <1>1, <1>3, LookStep

\* The end of a backoff keeps the invariant.
LEMMA BackoffStep == ASSUME IInv, NEW c \in Containers, BackoffElapses(c) PROVE IInv'
<1>1. Typed' /\ Visiting'
  BY DEF IInv, Typed, Visiting, BackoffElapses, inner, outside
<1>2. Apart /\ sup' = sup /\ leases' = leases /\ \A d \in Containers : due[d] = "no" => due'[d] = "no"
  BY DEF BackoffElapses, inner, outside, Apart, IInv, Typed
<1> QED BY <1>1, <1>2, SupStep

(* The attempts are spent: the supervisor gives the container up. *)
LEMMA SpentStep ==
    ASSUME IInv, NEW held \in BOOLEAN, Apart, sup.at = "attempt",
           due' = IF held THEN [due EXCEPT ![sup.key] = "no"] ELSE due,
           leases' = release(sup.key), sup' = [on(sup.key, "forget") EXCEPT !.fate = "failed"]
    PROVE  IInv'
<1> USE DEF Loops, KeyHeld, SupType, Visiting
<1>1. sup \in SupType /\ Visiting
  BY DEF IInv, Typed
<1>2. sup' \in SupType /\ Visiting' /\ sup'.at = "forget"
  BY <1>1 DEF on, Targets
<1>3. Typed' /\ leases' \subseteq leases /\ \A c \in Containers : due[c] = "no" => due'[c] = "no"
  BY <1>1, <1>2 DEF IInv, Typed, Apart, release
<1> QED BY <1>1, <1>2, <1>3, SupStep

(***************************************************************************)
(* Steps of the operation in hand.                                          *)
(***************************************************************************)
LEMMA HeadTail ==
    ASSUME NEW C, NEW s \in Seq(C), s # <<>>
    PROVE  Head(s) \in C /\ Tail(s) \in Seq(C) /\ ToSet(s) = {Head(s)} \cup ToSet(Tail(s))
<1>1. Head(s) = s[1] /\ 1 \in DOMAIN s /\ DOMAIN s = 1 .. Len(s) /\ Len(s) \in Nat
  OBVIOUS
<1>2. Tail(s) \in Seq(C) /\ DOMAIN Tail(s) = 1 .. Len(s) - 1
  OBVIOUS
<1>3. \A i \in DOMAIN Tail(s) : Tail(s)[i] = s[i + 1] /\ i + 1 \in DOMAIN s
  OBVIOUS
<1>4. \A i \in DOMAIN s : i # 1 => s[i] = Tail(s)[i - 1] /\ i - 1 \in DOMAIN Tail(s)
  OBVIOUS
<1>5. Head(s) \in C
  BY <1>1
<1> DEFINE h == Head(s)
           t == Tail(s)
<1> HIDE DEF h, t
<1>6. ToSet(s) \subseteq {h} \cup ToSet(t)
  BY <1>1, <1>4 DEF ToSet, h, t
<1>7. {h} \cup ToSet(t) \subseteq ToSet(s)
  BY <1>1, <1>3 DEF ToSet, h, t
<1> QED BY <1>2, <1>5, <1>6, <1>7 DEF h, t

\* A queue of one element.
LEMMA OneLeft == ASSUME NEW x PROVE Head(<<x>>) = x /\ Tail(<<x>>) = <<>>
<1>1. <<x>> \in Seq({x}) /\ Len(<<x>>) = 1
  OBVIOUS
<1>2. Tail(<<x>>) \in Seq({x}) /\ Len(Tail(<<x>>)) = 0
  BY <1>1
<1> QED BY <1>2

Elsewhere == UNCHANGED <<restarts, lock, sup, shutdown, downed>>
SameOperation == hand'.op = hand.op /\ hand'.target = hand.target

\* A step of the operation in hand.
LEMMA HandStep ==
    ASSUME IInv, Elsewhere, SameOperation, lock # NoOne, hand' \in HandType,
           children' \in [Containers -> Handles], procs' \in [Containers -> Nat],
           \A c \in Containers : children[c] = "none" => children'[c] = "none" \/ hand.start[c] # "no",
           Phases', Tracked', Stopping', StaysDown', RollingBack'
    PROVE  IInv'
<1>1. Typed' /\ Visiting'
  BY DEF IInv, Typed, Visiting, Elsewhere, restarts
<1>2. LockHeld'
  BY DEF IInv, LockHeld, Elsewhere, SameOperation
<1>3. ShuttingDown'
  <2>1. hand.op \in {"down", "none"} => \A c \in Containers : hand.start[c] = "no"
    BY DEF IInv, Phases, NoStart
  <2> QED BY <2>1 DEF IInv, ShuttingDown, Elsewhere, SameOperation, restarts
<1> QED BY <1>1, <1>2, <1>3 DEF IInv

(* Whoever has an operation in hand that is not done holds the lock. *)
LEMMA InHand ==
    ASSUME IInv
    PROVE  /\ hand \in HandType
           /\ hand.phase # "done" => lock # NoOne /\ hand.op # "none"
           /\ \A c \in Containers : hand.start[c] # "no" => hand.phase = "start" /\ lock # NoOne
           /\ hand.phase = "start" => hand.op \in {"up", "restart"}
           /\ hand.phase = "wave" => hand.op = "up"
<1>1. hand \in HandType
  BY DEF IInv, Typed
<1>2. hand.phase # "done" => lock # NoOne /\ hand.op # "none"
  BY DEF IInv, LockHeld, Phases, Idle
<1>3. \A c \in Containers : hand.start[c] # "no" => hand.phase = "start"
  BY DEF IInv, Phases, NoStart
<1> QED BY <1>1, <1>2, <1>3 DEF IInv, Phases, HandType

\* Stopping a container keeps the invariant.
LEMMA StopStep == ASSUME IInv, Stop PROVE IInv'
<1> DEFINE key == Head(hand.stops)
<1>1. hand \in HandType /\ hand.phase = "stop" /\ lock # NoOne /\ hand.start = NoStart /\ Elsewhere
  BY InHand DEF Stop, IInv, Phases, Elsewhere
<1>2. key \in Containers /\ Tail(hand.stops) \in Seq(Containers)
      /\ ToSet(hand.stops) = {key} \cup ToSet(Tail(hand.stops))
  BY <1>1, HeadTail DEF HandType, Stop
<1>3. hand' \in HandType /\ SameOperation
  BY <1>1, <1>2 DEF Stop, HandType, SameOperation
<1>3a. /\ hand'.phase = "stop" /\ hand'.start = NoStart /\ hand'.stops = Tail(hand.stops)
       /\ hand'.waves = hand.waves /\ hand'.started = hand.started /\ hand'.before = hand.before
       /\ hand'.failed = hand.failed /\ hand'.cut = hand.cut
  BY <1>1 DEF Stop, HandType
<1>4. /\ children' = [children EXCEPT ![key] = "none"]
      /\ procs' = IF children[key] = "running" THEN ended(key) ELSE procs
  BY DEF Stop, stop_one
<1>5. children \in [Containers -> Handles] /\ procs \in [Containers -> Nat]
  BY DEF IInv, Typed
<1> HIDE DEF key
<1>6. \A c \in Containers : procs[c] = IF children[c] = "running" THEN 1 ELSE 0
  BY <1>1 DEF IInv, Tracked, NoStart
<1>7. children' \in [Containers -> Handles] /\ procs' \in [Containers -> Nat]
      /\ \A c \in Containers : children'[c] = IF c = key THEN "none" ELSE children[c]
  BY <1>2, <1>4, <1>5, <1>6 DEF Handles, ended
<1>8. Tracked'
  BY <1>2, <1>3a, <1>4, <1>5, <1>6, <1>7 DEF Tracked, NoStart, ended
<1>9. Phases'
  <2>1. hand.op = "restart" => hand.target \in Containers /\ key = hand.target /\ hand'.stops = <<>>
    <3>1. ASSUME hand.op = "restart" PROVE hand.target \in Containers /\ hand.stops = <<hand.target>>
      BY <1>1, <3>1 DEF IInv, Phases, Stop
    <3> QED BY <3>1, <1>3a, OneLeft DEF key
  <2> QED BY <2>1, <1>1, <1>3, <1>3a, <1>7 DEF Phases, SameOperation, IInv, NoStart
<1>10. Stopping'
  <2> SUFFICES ASSUME hand.op = "down", NEW c \in taken(hand.target)
               PROVE  /\ children'[c] = "none" \/ (hand'.phase = "stop" /\ c \in ToSet(hand'.stops))
                      /\ lock' = "operator" => due'[c] = "no" /\ c \notin leases'
    BY <1>3 DEF Stopping, SameOperation
  <2>1. c \in Containers
    BY <1>1 DEF taken, HandType, Targets
  <2>2. /\ children[c] = "none" \/ (hand.phase = "stop" /\ c \in ToSet(hand.stops))
        /\ lock = "operator" => due[c] = "no" /\ c \notin leases
    BY <1>1 DEF IInv, Stopping
  <2>3. ToSet(hand'.stops) = ToSet(Tail(hand.stops))
    BY <1>3a
  <2>4. children'[c] = "none" \/ (hand'.phase = "stop" /\ c \in ToSet(hand'.stops))
    BY <1>2, <1>3a, <1>7, <2>1, <2>2, <2>3
  <2>5. UNCHANGED <<lock, due, leases>>
    BY <1>1 DEF Elsewhere, restarts
  <2> QED BY <2>2, <2>4, <2>5
<1>11. StaysDown'
  BY <1>1, <1>3, <1>3a, <1>7 DEF StaysDown, SameOperation, IInv, Elsewhere, restarts, NoStart
<1>12. RollingBack'
  <2> SUFFICES ASSUME hand.op = "up" PROVE RollingBack'
    BY <1>3 DEF RollingBack, SameOperation
  <2>1. /\ ToSet(hand.stops) \subseteq ToSet(hand.started)
        /\ \A c \in hand.before \ ToSet(hand.started) : children[c] # "none"
        /\ \A c \in Containers : children[c] = "running" =>
              c \in hand.before \ ToSet(hand.started) \/ c \in ToSet(hand.stops)
    BY <1>1 DEF IInv, RollingBack
  <2>2. ToSet(hand'.stops) \subseteq ToSet(hand'.started)
    BY <1>2, <1>3a, <2>1
  <2>3. key \in ToSet(hand.started) /\ hand.before \subseteq Containers
    BY <1>1, <1>2, <2>1 DEF HandType
  <2>4. \A c \in hand'.before \ ToSet(hand'.started) : children'[c] # "none"
    BY <1>3a, <1>7, <2>1, <2>3
  <2>5. ASSUME NEW c \in Containers, children'[c] = "running"
        PROVE  c \in hand'.before \ ToSet(hand'.started) \/ c \in ToSet(hand'.stops)
    <3>1. c # key /\ children[c] = "running"
      BY <1>7, <2>5
    <3> QED BY <1>2, <1>3a, <2>1, <3>1
  <2> QED BY <1>3a, <2>2, <2>4, <2>5 DEF RollingBack
<1> QED BY <1>1, <1>3, <1>7, <1>8, <1>9, <1>10, <1>11, <1>12, HandStep

(* Nothing but the plan of the operation changes. *)
LEMMA PlanStep ==
    ASSUME IInv, Elsewhere, UNCHANGED <<children, procs>>, SameOperation, lock # NoOne, hand' \in HandType,
           Phases', \A c \in Containers : hand'.start[c] # "no" => children[c] # "running" /\ downed[c] # "target",
           \A c \in Containers : hand'.start[c] = "running" <=> hand.start[c] = "running",
           hand.op = "down" => hand.stops = <<>> /\ hand'.phase = "done",
           \A i \in DOMAIN hand'.waves : \E j \in DOMAIN hand.waves : hand'.waves[i] = hand.waves[j],
           RollingBack'
    PROVE  IInv'
<1>1. Tracked'
  BY DEF IInv, Tracked
<1>2. Stopping'
  <2>1. ToSet(<<>>) = {}
    BY DEF ToSet
  <2> QED BY <2>1 DEF IInv, Stopping, SameOperation, Elsewhere, restarts
<1>3. StaysDown'
  BY DEF IInv, StaysDown, SameOperation, Elsewhere, restarts
<1>4. children' \in [Containers -> Handles] /\ procs' \in [Containers -> Nat]
  BY DEF IInv, Typed
<1> QED BY <1>1, <1>2, <1>3, <1>4, HandStep

\* The end of the stops keeps the invariant.
LEMMA StoppedStep == ASSUME IInv, Stopped PROVE IInv'
<1>1. hand \in HandType /\ hand.phase = "stop" /\ hand.stops = <<>> /\ lock # NoOne /\ hand.start = NoStart
      /\ hand.op # "none"
  BY InHand DEF Stopped, IInv, Phases
<1>2. Elsewhere /\ UNCHANGED <<children, procs>>
  BY DEF Stopped, inner, Elsewhere
<1>3. ToSet(hand.stops) = {}
  BY <1>1 DEF ToSet
<1>4. CASE hand.op = "restart"
  <2>1. hand' = [hand EXCEPT !.phase = "start", !.start[hand.target] = "prep"]
    BY <1>4 DEF Stopped
  <2>2. hand.target \in Containers /\ children[hand.target] # "running" /\ downed[hand.target] # "target"
    <3>1. <<hand.target>> # <<>>
      OBVIOUS
    <3> QED BY <1>1, <1>4, <3>1 DEF IInv, Phases, StaysDown
  <2>3. /\ hand' \in HandType /\ SameOperation /\ hand'.phase = "start" /\ hand'.waves = hand.waves
        /\ hand'.start = [c \in Containers |-> IF c = hand.target THEN "prep" ELSE "no"]
    BY <1>1, <2>1, <2>2 DEF HandType, SameOperation, NoStart, Starts
  <2>4. Phases' /\ RollingBack'
    BY <1>4, <2>2, <2>3 DEF Phases, RollingBack, SameOperation
  <2> QED BY <1>1, <1>2, <1>4, <2>2, <2>3, <2>4, PlanStep DEF NoStart
<1>5. CASE hand.op # "restart"
  <2>1. hand' = [hand EXCEPT !.phase = "done"]
    BY <1>5 DEF Stopped
  <2>2. /\ hand' \in HandType /\ SameOperation /\ hand'.phase = "done" /\ hand'.start = NoStart
        /\ hand'.waves = hand.waves /\ hand'.stops = hand.stops /\ hand'.started = hand.started
        /\ hand'.before = hand.before
    BY <1>1, <2>1 DEF HandType, SameOperation
  <2>3. Phases'
    BY <1>1, <1>5, <2>2 DEF Phases, SameOperation
  <2>4. RollingBack'
    BY <1>1, <1>2, <1>3, <2>2 DEF IInv, RollingBack, SameOperation
  <2> QED BY <1>1, <1>2, <2>2, <2>3, <2>4, PlanStep DEF NoStart
<1> QED BY <1>4, <1>5

\* Starting a wave keeps the invariant.
LEMMA WaveStep == ASSUME IInv, Wave PROVE IInv'
<1>1. hand \in HandType /\ hand.phase = "wave" /\ hand.op = "up" /\ lock # NoOne /\ hand.start = NoStart
  BY InHand DEF Wave, IInv, Phases
<1>2. Elsewhere /\ UNCHANGED <<children, procs>>
  BY DEF Wave, inner, Elsewhere
<1>3. /\ ~hand.failed /\ ~hand.cut
      /\ \A c \in hand.before \ ToSet(hand.started) : children[c] # "none"
      /\ ToSet(hand.stops) \subseteq ToSet(hand.started)
      /\ \A c \in Containers : children[c] = "running" =>
            c \in hand.before \ ToSet(hand.started) \/ c \in ToSet(hand.started)
  BY <1>1 DEF IInv, RollingBack
<1>4. CASE hand.waves = <<>>
  <2>1. hand' = [hand EXCEPT !.phase = "done"]
    BY <1>4 DEF Wave
  <2>2. /\ hand' \in HandType /\ SameOperation /\ hand'.phase = "done" /\ hand'.start = NoStart
        /\ hand'.waves = hand.waves /\ hand'.stops = hand.stops /\ hand'.started = hand.started
        /\ hand'.before = hand.before /\ hand'.failed = hand.failed /\ hand'.cut = hand.cut
    BY <1>1, <2>1 DEF HandType, SameOperation
  <2>3. Phases' /\ RollingBack'
    BY <1>1, <1>2, <1>3, <2>2 DEF Phases, RollingBack, SameOperation
  <2> QED BY <1>1, <1>2, <2>2, <2>3, PlanStep DEF NoStart
<1>5. CASE hand.waves # <<>> /\ interrupted
  <2>1. hand' = [hand EXCEPT !.cut = TRUE, !.phase = "stop", !.stops = Reverse(hand.started)]
    BY <1>1, <1>5 DEF Wave, rollback, HandType
  <2>2. Reverse(hand.started) \in Seq(Containers) /\ ToSet(Reverse(hand.started)) = ToSet(hand.started)
    BY <1>1, ReverseRange DEF HandType
  <2>3. /\ hand' \in HandType /\ SameOperation /\ hand'.phase = "stop" /\ hand'.start = NoStart
        /\ hand'.waves = hand.waves /\ ToSet(hand'.stops) = ToSet(hand.started)
        /\ hand'.started = hand.started /\ hand'.before = hand.before
    BY <1>1, <2>1, <2>2 DEF HandType, SameOperation
  <2>4. Phases' /\ RollingBack'
    BY <1>1, <1>2, <1>3, <2>3 DEF Phases, RollingBack, SameOperation
  <2> QED BY <1>1, <1>2, <2>3, <2>4, PlanStep DEF NoStart
<1>6. CASE hand.waves # <<>> /\ ~interrupted
  <2> DEFINE wave == Head(hand.waves)
             begun == [c \in Containers |-> IF c \in wave /\ children[c] # "running" THEN "prep" ELSE "no"]
  <2>1. hand' = [hand EXCEPT !.phase = "start", !.waves = Tail(hand.waves), !.start = begun]
    BY <1>6 DEF Wave
  <2>2. /\ Tail(hand.waves) \in Seq(SUBSET Containers) /\ wave = hand.waves[1] /\ 1 \in DOMAIN hand.waves
        /\ \A i \in DOMAIN Tail(hand.waves) : Tail(hand.waves)[i] = hand.waves[i + 1] /\ i + 1 \in DOMAIN hand.waves
    BY <1>1, <1>6 DEF HandType
  <2>3. begun \in [Containers -> Starts]
    BY DEF Starts
  <2>4. \A c \in Containers : begun[c] # "no" => children[c] # "running" /\ downed[c] # "target"
    <3>1. \A c \in wave : downed[c] # "target"
      BY <1>1, <2>2 DEF IInv, StaysDown
    <3> HIDE DEF wave
    <3> QED BY <3>1
  <2>5. \A c \in Containers : begun[c] # "running"
    OBVIOUS
  <2> HIDE DEF begun, wave
  <2>6. /\ hand' \in HandType /\ SameOperation /\ hand'.phase = "start" /\ hand'.start = begun
        /\ hand'.waves = Tail(hand.waves) /\ hand'.stops = hand.stops
        /\ hand'.started = hand.started /\ hand'.before = hand.before
    BY <1>1, <2>1, <2>2, <2>3 DEF HandType, SameOperation
  <2>7. Phases' /\ RollingBack'
    BY <1>1, <1>2, <1>3, <2>6 DEF Phases, RollingBack, SameOperation
  <2> QED BY <1>1, <1>2, <2>2, <2>4, <2>5, <2>6, <2>7, PlanStep DEF NoStart
<1> QED BY <1>4, <1>5, <1>6

\* The end of a wave keeps the invariant.
LEMMA SettledStep == ASSUME IInv, Settled PROVE IInv'
<1>1. hand \in HandType /\ hand.phase = "start" /\ hand.start = NoStart /\ lock # NoOne
      /\ hand.op \in {"up", "restart"}
  BY InHand DEF Settled
<1>2. Elsewhere /\ UNCHANGED <<children, procs>>
  BY DEF Settled, inner, Elsewhere
<1>3. hand.op = "up" =>
      /\ \A c \in hand.before \ ToSet(hand.started) : children[c] # "none"
      /\ ToSet(hand.stops) \subseteq ToSet(hand.started)
      /\ \A c \in Containers : children[c] = "running" =>
            c \in hand.before \ ToSet(hand.started) \/ c \in ToSet(hand.started)
  BY <1>1 DEF IInv, RollingBack
<1>4. CASE hand.op = "restart"
  <2>1. hand' = [hand EXCEPT !.phase = "done"]
    BY <1>4 DEF Settled
  <2>2. /\ hand' \in HandType /\ SameOperation /\ hand'.phase = "done" /\ hand'.start = NoStart
        /\ hand'.waves = hand.waves
    BY <1>1, <2>1 DEF HandType, SameOperation
  <2>3. Phases' /\ RollingBack'
    BY <1>4, <2>2 DEF IInv, Phases, RollingBack, SameOperation, NoStart
  <2> QED BY <1>1, <1>2, <1>4, <2>2, <2>3, PlanStep DEF NoStart
<1>5. CASE hand.op = "up" /\ (hand.cut \/ hand.failed)
  <2>1. hand' = [hand EXCEPT !.phase = "stop", !.stops = Reverse(hand.started)]
    BY <1>5 DEF Settled, rollback
  <2>2. Reverse(hand.started) \in Seq(Containers) /\ ToSet(Reverse(hand.started)) = ToSet(hand.started)
    BY <1>1, ReverseRange DEF HandType
  <2>3. /\ hand' \in HandType /\ SameOperation /\ hand'.phase = "stop" /\ hand'.start = NoStart
        /\ hand'.waves = hand.waves /\ ToSet(hand'.stops) = ToSet(hand.started)
        /\ hand'.started = hand.started /\ hand'.before = hand.before
    BY <1>1, <2>1, <2>2 DEF HandType, SameOperation
  <2>4. Phases' /\ RollingBack'
    BY <1>2, <1>3, <1>5, <2>3 DEF Phases, RollingBack, SameOperation
  <2> QED BY <1>1, <1>2, <1>5, <2>3, <2>4, PlanStep DEF NoStart
<1>6. CASE hand.op = "up" /\ ~hand.cut /\ ~hand.failed
  <2>1. hand' = [hand EXCEPT !.phase = "wave"]
    BY <1>6 DEF Settled
  <2>2. /\ hand' \in HandType /\ SameOperation /\ hand'.phase = "wave" /\ hand'.start = NoStart
        /\ hand'.waves = hand.waves /\ hand'.stops = hand.stops /\ hand'.started = hand.started
        /\ hand'.before = hand.before /\ hand'.failed = hand.failed /\ hand'.cut = hand.cut
    BY <1>1, <2>1 DEF HandType, SameOperation
  <2>3. Phases' /\ RollingBack'
    BY <1>2, <1>3, <1>6, <2>2 DEF Phases, RollingBack, SameOperation
  <2> QED BY <1>1, <1>2, <1>6, <2>2, <2>3, PlanStep DEF NoStart
<1> QED BY <1>1, <1>4, <1>5, <1>6

(* Container c has n processes now, the others as many as before. *)
NowRun(c, n) ==
    procs' \in [Containers -> Nat] /\ \A d \in Containers : procs'[d] = IF d = c THEN n ELSE procs[d]

(* A start in hand moves on: it is spawned, fails, is tried again or exits. *)
LEMMA StartStep ==
    ASSUME IInv, NEW c \in Containers, NEW state \in Starts, hand.start[c] # "no", Elsewhere, UNCHANGED children,
           SameOperation, hand' \in HandType, hand'.phase = hand.phase,
           hand'.start = [hand.start EXCEPT ![c] = state], hand'.waves = hand.waves,
           hand'.stops = hand.stops, hand'.started = hand.started, hand'.before = hand.before,
           NowRun(c, IF state = "running" THEN 1 ELSE 0)
    PROVE  IInv'
<1>1. hand \in HandType /\ hand.phase = "start" /\ lock # NoOne /\ hand.op \in {"up", "restart"}
  BY InHand
<1>2. children \in [Containers -> Handles] /\ procs \in [Containers -> Nat] /\ hand.start \in [Containers -> Starts]
  BY <1>1 DEF IInv, Typed, HandType
<1>3. \A d \in Containers : hand'.start[d] = IF d = c THEN state ELSE hand.start[d]
  BY <1>2
<1>4. procs' \in [Containers -> Nat]
      /\ \A d \in Containers : procs'[d] = IF d = c THEN IF state = "running" THEN 1 ELSE 0 ELSE procs[d]
  BY DEF NowRun
<1>5. Tracked'
  BY <1>3, <1>4 DEF IInv, Tracked
<1>6. Phases'
  BY <1>1, <1>3 DEF IInv, Phases, SameOperation
<1>7. Stopping'
  BY <1>1 DEF Stopping, SameOperation
<1>8. StaysDown'
  BY <1>1, <1>3 DEF IInv, StaysDown, SameOperation, Elsewhere, restarts
<1>9. RollingBack'
  BY <1>1 DEF IInv, RollingBack, SameOperation
<1> QED BY <1>1, <1>2, <1>4, <1>5, <1>6, <1>7, <1>8, <1>9, HandStep

\* A container being started runs one process or none.
LEMMA ProcsOf ==
    ASSUME IInv, NEW c \in Containers, hand.start[c] # "no"
    PROVE  /\ hand \in HandType /\ hand.start \in [Containers -> Starts] /\ procs \in [Containers -> Nat]
           /\ procs[c] = IF hand.start[c] = "running" THEN 1 ELSE 0
BY DEF IInv, Typed, Tracked, HandType

\* A spawned process keeps the invariant.
LEMMA SpawnStep == ASSUME IInv, NEW c \in Containers, Spawn(c) PROVE IInv'
<1>1. /\ hand.start[c] = "prep" /\ hand' = [hand EXCEPT !.start[c] = "running"]
      /\ procs' = [procs EXCEPT ![c] = @ + 1] /\ Elsewhere /\ UNCHANGED children
  BY DEF Spawn, inner, Elsewhere
<1>2. NowRun(c, 1)
  BY <1>1, ProcsOf DEF NowRun
<1>3. /\ hand' \in HandType /\ SameOperation /\ hand'.phase = hand.phase
      /\ hand'.start = [hand.start EXCEPT ![c] = "running"] /\ hand'.waves = hand.waves
      /\ hand'.stops = hand.stops /\ hand'.started = hand.started /\ hand'.before = hand.before
  BY <1>1, ProcsOf DEF HandType, SameOperation, Starts
<1> QED BY <1>1, <1>2, <1>3, StartStep DEF Starts

\* A start that is given up leaves no process.
LEMMA EndedProcs ==
    ASSUME IInv, NEW c \in Containers, hand.start[c] # "no",
           procs' = IF hand.start[c] = "running" THEN ended(c) ELSE procs
    PROVE  NowRun(c, 0)
BY ProcsOf DEF ended, NowRun

\* A start that fails keeps the invariant.
LEMMA FailsStep == ASSUME IInv, NEW c \in Containers, StartFails(c) PROVE IInv'
<1>1. hand.start[c] # "no" /\ Elsewhere /\ UNCHANGED children
  BY DEF StartFails, inner, Elsewhere
<1>2. NowRun(c, 0)
  BY <1>1, EndedProcs DEF StartFails
<1>3. hand \in HandType
  BY <1>1, ProcsOf
<1>4. CASE hand' = [hand EXCEPT !.start[c] = "prep", !.tries[c] = @ + 1]
  <2>1. /\ hand' \in HandType /\ SameOperation /\ hand'.phase = hand.phase
        /\ hand'.start = [hand.start EXCEPT ![c] = "prep"] /\ hand'.waves = hand.waves
        /\ hand'.stops = hand.stops /\ hand'.started = hand.started /\ hand'.before = hand.before
    <3>1. [hand.start EXCEPT ![c] = "prep"] \in [Containers -> Starts]
          /\ [hand.tries EXCEPT ![c] = @ + 1] \in [Containers -> Nat]
      BY <1>3 DEF HandType, Starts
    <3> QED BY <1>3, <1>4, <3>1 DEF HandType, SameOperation
  <2> QED BY <1>1, <1>2, <2>1, StartStep DEF Starts
<1>5. CASE hand' = [hand EXCEPT !.start[c] = "no", !.failed = @ \/ c \in Required]
  <2>1. /\ hand' \in HandType /\ SameOperation /\ hand'.phase = hand.phase
        /\ hand'.start = [hand.start EXCEPT ![c] = "no"] /\ hand'.waves = hand.waves
        /\ hand'.stops = hand.stops /\ hand'.started = hand.started /\ hand'.before = hand.before
    BY <1>3, <1>5 DEF HandType, SameOperation, Starts
  <2> QED BY <1>1, <1>2, <2>1, StartStep DEF Starts
<1> QED BY <1>4, <1>5 DEF StartFails

\* A start that is interrupted keeps the invariant.
LEMMA InterruptStep == ASSUME IInv, NEW c \in Containers, Interrupt(c) PROVE IInv'
<1>1. hand.start[c] # "no" /\ Elsewhere /\ UNCHANGED children /\ hand' = [hand EXCEPT !.start[c] = "no", !.cut = TRUE]
  BY DEF Interrupt, inner, Elsewhere
<1>2. NowRun(c, 0)
  BY <1>1, EndedProcs DEF Interrupt
<1>3. /\ hand' \in HandType /\ SameOperation /\ hand'.phase = hand.phase
      /\ hand'.start = [hand.start EXCEPT ![c] = "no"] /\ hand'.waves = hand.waves
      /\ hand'.stops = hand.stops /\ hand'.started = hand.started /\ hand'.before = hand.before
  BY <1>1, ProcsOf DEF HandType, SameOperation, Starts
<1> QED BY <1>1, <1>2, <1>3, StartStep DEF Starts

\* A container that becomes ready keeps the invariant.
LEMMA ReadyStep == ASSUME IInv, NEW c \in Containers, Ready(c) PROVE IInv'
<1>1. /\ hand.start[c] = "running" /\ hand' = [hand EXCEPT !.start[c] = "no", !.started = Append(@, c)]
      /\ children' = [children EXCEPT ![c] = "running"] /\ Elsewhere /\ UNCHANGED procs
  BY DEF Ready, Elsewhere
<1>2. hand \in HandType /\ hand.phase = "start" /\ lock # NoOne /\ hand.op \in {"up", "restart"}
  BY <1>1, InHand
<1>3. children \in [Containers -> Handles] /\ procs \in [Containers -> Nat] /\ hand.start \in [Containers -> Starts]
      /\ hand.started \in Seq(Containers)
  BY <1>2 DEF IInv, Typed, HandType
<1>4. Append(hand.started, c) \in Seq(Containers) /\ ToSet(Append(hand.started, c)) = ToSet(hand.started) \cup {c}
  BY <1>3, AppendRange
<1>5. /\ hand' \in HandType /\ SameOperation /\ hand'.phase = hand.phase
      /\ hand'.start = [hand.start EXCEPT ![c] = "no"] /\ hand'.waves = hand.waves
      /\ hand'.stops = hand.stops /\ ToSet(hand'.started) = ToSet(hand.started) \cup {c} /\ hand'.before = hand.before
  BY <1>1, <1>2, <1>4 DEF HandType, SameOperation, Starts
<1>6. /\ \A d \in Containers : hand'.start[d] = IF d = c THEN "no" ELSE hand.start[d]
      /\ children' \in [Containers -> Handles]
      /\ \A d \in Containers : children'[d] = IF d = c THEN "running" ELSE children[d]
  BY <1>1, <1>3, <1>5 DEF Handles
<1>7. Tracked'
  BY <1>1, <1>3, <1>6 DEF IInv, Tracked
<1>8. Phases'
  BY <1>2, <1>5, <1>6 DEF IInv, Phases, SameOperation
<1>9. Stopping'
  BY <1>2, <1>5 DEF Stopping, SameOperation
<1>10. StaysDown'
  BY <1>1, <1>2, <1>5, <1>6 DEF IInv, StaysDown, SameOperation, Elsewhere, restarts
<1>11. RollingBack'
  <2>1. hand.before \subseteq Containers
    BY <1>2 DEF HandType
  <2> QED BY <1>2, <1>5, <1>6, <2>1 DEF IInv, RollingBack, SameOperation
<1> QED BY <1>1, <1>2, <1>3, <1>5, <1>6, <1>7, <1>8, <1>9, <1>10, <1>11, HandStep

(* A process exits, under its handle or while its start waits for it. *)
LEMMA ExitStep == ASSUME IInv, NEW c \in Containers, NEW how \in Exited, Exit(c, how) PROVE IInv'
<1>1. Elsewhere /\ procs' = ended(c)
  BY DEF Exit, Elsewhere
<1>2. CASE hand.start[c] = "running" /\ hand' = [hand EXCEPT !.start[c] = how] /\ UNCHANGED children
  <2>1. NowRun(c, 0) /\ how \in Starts /\ how # "running"
    BY <1>1, <1>2, ProcsOf DEF ended, Exited, Starts, NowRun
  <2>2. /\ hand' \in HandType /\ SameOperation /\ hand'.phase = hand.phase
        /\ hand'.start = [hand.start EXCEPT ![c] = how] /\ hand'.waves = hand.waves
        /\ hand'.stops = hand.stops /\ hand'.started = hand.started /\ hand'.before = hand.before
    BY <1>2, <2>1, ProcsOf DEF HandType, SameOperation
  <2> QED BY <1>1, <1>2, <2>1, <2>2, StartStep
<1>3. CASE children[c] = "running" /\ children' = [children EXCEPT ![c] = how] /\ UNCHANGED hand
  <2>1. children \in [Containers -> Handles] /\ procs \in [Containers -> Nat] /\ procs[c] = 1
        /\ hand.start[c] = "no"
    BY <1>3 DEF IInv, Typed, Tracked
  <2>2. NowRun(c, 0) /\ how \in Handles /\ how \notin {"running", "none"}
    BY <1>1, <2>1 DEF ended, Exited, Handles, NowRun
  <2>3. /\ children' \in [Containers -> Handles] /\ procs' \in [Containers -> Nat]
        /\ \A d \in Containers : children'[d] = IF d = c THEN how ELSE children[d]
        /\ \A d \in Containers : procs'[d] = IF d = c THEN 0 ELSE procs[d]
    BY <1>3, <2>1, <2>2 DEF NowRun
  <2>4. Tracked'
    BY <1>3, <2>1, <2>2, <2>3 DEF IInv, Tracked
  <2>5. Phases'
    BY <1>3, <2>2, <2>3 DEF IInv, Phases
  <2>6. Stopping' /\ StaysDown'
    BY <1>1, <1>3, <2>2, <2>3 DEF IInv, Stopping, StaysDown, Elsewhere, restarts, taken, Typed, HandType, Targets
  <2>7. RollingBack'
    BY <1>3, <2>2, <2>3 DEF IInv, RollingBack, Typed, HandType
  <2>8. Typed' /\ Visiting' /\ LockHeld'
    BY <1>1, <1>3, <2>3 DEF IInv, Typed, Visiting, LockHeld, Elsewhere, restarts
  <2>9. ShuttingDown'
    BY <1>1, <1>3, <2>3 DEF IInv, ShuttingDown, Elsewhere
  <2> QED BY <2>4, <2>5, <2>6, <2>7, <2>8, <2>9 DEF IInv
<1> QED BY <1>2, <1>3 DEF Exit

\* Cancelling an up keeps the invariant.
LEMMA CancelUpStep == ASSUME IInv, CancelUp PROVE IInv'
<1>1. hand.op = "up" /\ hand' = [hand EXCEPT !.cancelled = TRUE] /\ Elsewhere /\ UNCHANGED <<children, procs>>
  BY DEF CancelUp, inner, Elsewhere
<1>2. hand \in HandType /\ lock # NoOne
  BY <1>1 DEF IInv, Typed, LockHeld, Idle
<1>3. /\ hand' \in HandType /\ SameOperation /\ hand'.phase = hand.phase
      /\ hand'.start = hand.start /\ hand'.waves = hand.waves
      /\ hand'.stops = hand.stops /\ hand'.started = hand.started /\ hand'.before = hand.before
      /\ hand'.failed = hand.failed /\ hand'.cut = hand.cut
  BY <1>1, <1>2 DEF HandType, SameOperation
<1>4. Phases' /\ RollingBack'
  BY <1>1, <1>3 DEF IInv, Phases, RollingBack, SameOperation
<1>5. \A c \in Containers : hand.start[c] # "no" => children[c] # "running" /\ downed[c] # "target"
  BY DEF IInv, Tracked, StaysDown
<1> QED BY <1>1, <1>2, <1>3, <1>4, <1>5, PlanStep

\* The shutdown's cancellation keeps the invariant.
LEMMA CancelStep == ASSUME IInv, cancel PROVE IInv'
<1> USE DEF IInv, cancel, inner, restarts
<1>1. Typed' /\ Visiting' /\ LockHeld' /\ ShuttingDown'
  BY DEF Typed, Visiting, LockHeld, ShuttingDown
<1>2. Phases' /\ Tracked' /\ Stopping' /\ StaysDown' /\ RollingBack'
  BY DEF Phases, Tracked, Stopping, StaysDown, RollingBack
<1> QED BY <1>1, <1>2

(***************************************************************************)
(* An operation begins, and ends.                                           *)
(***************************************************************************)
LEMMA Plans ==
    /\ \A target \in Targets : up_plan(target) \in HandType /\ down_plan(target) \in HandType
    /\ \A key \in Containers : restart_plan(key) \in HandType
<1>1. Idle \in HandType
  BY DEF Idle, HandType, NoStart, Starts, Targets
<1>2. ASSUME NEW target \in Targets PROVE up_plan(target) \in HandType
  <2>1. waves(plan_targets(target)) \in Seq(SUBSET Containers)
    BY PlanType, WavesOf
  <2> QED BY <1>1, <2>1 DEF up_plan, HandType
<1>3. ASSUME NEW target \in Targets PROVE down_plan(target) \in HandType
  BY <1>1, DownOrder DEF down_plan, HandType
<1>4. ASSUME NEW key \in Containers PROVE restart_plan(key) \in HandType
  <2>1. <<key>> \in Seq(Containers) /\ key \in Targets
    BY DEF Targets
  <2> QED BY <1>1, <2>1 DEF restart_plan, HandType
<1> QED BY <1>2, <1>3, <1>4

(* Whoever begins: the lock was free and nothing was in hand. *)
LEMMA BeginStep ==
    ASSUME IInv, NEW who \in {"operator", "supervisor", "shutdown"}, NEW plan \in HandType, Begin(who, plan),
           UNCHANGED <<children, procs>>, plan.start = NoStart,
           Typed', Visiting', LockHeld', Phases', Stopping', RollingBack', ShuttingDown',
           \A c \in Containers : downed'[c] = "target" =>
               downed[c] = "target" /\ due'[c] = "no" /\ (c \notin leases => c \notin leases'),
           plan.op = "restart" => downed'[plan.target] # "target",
           plan.op = "up" => \A i \in DOMAIN plan.waves : \A c \in plan.waves[i] : downed'[c] # "target"
    PROVE  IInv'
<1>1. hand' = plan /\ \A c \in Containers : hand.start[c] = "no" /\ hand'.start[c] = "no"
  BY DEF IInv, LockHeld, Begin, Idle, NoStart
<1>2. Tracked'
  BY <1>1 DEF IInv, Tracked
<1>3. StaysDown'
  BY <1>1 DEF IInv, StaysDown
<1> QED BY <1>2, <1>3 DEF IInv

\* An operator that takes control takes leases and retries away.
LEMMA Controlled ==
    ASSUME Typed, NEW target \in Targets, operator_took_control(target)
    PROVE  /\ leases' = leases \ taken(target) /\ due' \in [Containers -> {"no", "waiting", "now"}]
           /\ \A c \in Containers : due'[c] = IF c \in taken(target) THEN "no" ELSE due[c]
BY DEF operator_took_control, taken, Typed

\* An up keeps the invariant.
LEMMA UpStep == ASSUME IInv, NEW target \in Targets, up(target) PROVE IInv'
<1> DEFINE plan == up_plan(target)
<1>1. /\ plan \in HandType /\ Begin("operator", plan) /\ UNCHANGED <<children, procs, sup, shutdown>>
      /\ shutdown = "no" /\ operator_took_control(target)
      /\ started_again(ToSet(plan_targets(target)))
  BY Plans DEF up, inner, Asked, signalled, requested
<1>2. /\ plan.op = "up" /\ plan.target = target /\ plan.phase = "wave" /\ plan.start = NoStart
      /\ plan.waves = waves(plan_targets(target)) /\ plan.stops = <<>> /\ plan.started = <<>>
      /\ plan.before = {c \in Containers : children[c] = "running"} /\ ~plan.failed /\ ~plan.cut
  BY DEF up_plan, Idle
<1>3. lock = NoOne /\ lock' = "operator" /\ hand' = plan
  BY <1>1 DEF Begin
<1> HIDE DEF plan
<1>4. /\ leases' \subseteq leases /\ due' \in [Containers -> {"no", "waiting", "now"}]
      /\ \A c \in Containers : due[c] = "no" => due'[c] = "no"
  BY <1>1, Controlled DEF IInv
<1>5. /\ downed' \in [Containers -> {"no", "target", "along"}]
      /\ \A c \in Containers : downed'[c] = IF c \in ToSet(plan_targets(target)) THEN "no" ELSE downed[c]
  BY <1>1 DEF started_again, IInv, Typed
<1>6. Typed' /\ Visiting'
  BY <1>1, <1>3, <1>4, <1>5 DEF IInv, Typed, Visiting
<1>7. LockHeld' /\ Phases' /\ Stopping' /\ ShuttingDown'
  BY <1>1, <1>2, <1>3, ProjectAssumption DEF IInv, LockHeld, Phases, Stopping, ShuttingDown
<1>8. RollingBack'
  <2>1. ToSet(<<>>) = {}
    BY DEF ToSet
  <2> QED BY <1>1, <1>2, <1>3, <2>1 DEF RollingBack
<1>9. \A i \in DOMAIN plan.waves : \A c \in plan.waves[i] : downed'[c] # "target"
  <2>1. plan_targets(target) \in Seq(Containers)
    BY PlanType
  <2>2. ToSet(plan_targets(target)) \subseteq Containers
    BY <2>1 DEF ToSet
  <2> QED BY <1>2, <1>5, <2>1, <2>2, WavesOf
<1>10. \A c \in Containers : downed'[c] = "target" => downed[c] = "target" /\ due[c] = "no"
  BY <1>5 DEF IInv, StaysDown
<1> QED BY <1>1, <1>2, <1>4, <1>6, <1>7, <1>8, <1>9, <1>10, BeginStep

\* A restart begins with what it stops.
LEMMA RestartBegins ==
    ASSUME IInv, NEW key \in Containers, NEW who \in {"operator", "supervisor"}, Begin(who, restart_plan(key)),
           UNCHANGED <<children, procs, shutdown>>, Typed', Visiting', shutdown = "no",
           who = "supervisor" <=> sup'.at \in {"bounce", "downing"}, sup'.at = "bounce" => sup'.key = key,
           \A c \in Containers : downed'[c] = "target" =>
               c # key /\ downed[c] = "target" /\ due'[c] = "no" /\ (c \notin leases => c \notin leases')
    PROVE  IInv'
<1> DEFINE plan == restart_plan(key)
<1>1. /\ plan.op = "restart" /\ plan.target = key /\ plan.phase = "stop" /\ plan.start = NoStart
      /\ plan.stops = <<key>> /\ plan \in HandType
  BY Plans DEF restart_plan, Idle
<1>2. lock = NoOne /\ lock' = who /\ hand' = plan
  BY DEF Begin
<1> HIDE DEF plan
<1>3. LockHeld'
  BY <1>1, <1>2, ProjectAssumption DEF IInv, LockHeld
<1>4. Phases' /\ Stopping' /\ RollingBack' /\ ShuttingDown'
  BY <1>1, <1>2 DEF Phases, Stopping, RollingBack, ShuttingDown, NoStart
<1> QED BY <1>1, <1>3, <1>4, BeginStep DEF plan

\* A restart keeps the invariant.
LEMMA RestartOneStep == ASSUME IInv, NEW key \in Containers, restart_one(key) PROVE IInv'
<1>1. /\ Begin("operator", restart_plan(key)) /\ UNCHANGED <<children, procs, sup, shutdown>>
      /\ shutdown = "no" /\ operator_took_control(key) /\ started_again({key})
  BY DEF restart_one, inner, Asked, requested
<1>2. /\ leases' \subseteq leases /\ due' \in [Containers -> {"no", "waiting", "now"}]
      /\ \A c \in Containers : due[c] = "no" => due'[c] = "no"
  BY <1>1, Controlled DEF IInv, Targets
<1>3. /\ downed' \in [Containers -> {"no", "target", "along"}]
      /\ \A c \in Containers : downed'[c] = IF c = key THEN "no" ELSE downed[c]
  BY <1>1 DEF started_again, IInv, Typed
<1>4. Typed' /\ Visiting'
  BY <1>1, <1>2, <1>3, Plans DEF IInv, Typed, Visiting, Begin
<1>5. \A c \in Containers : downed'[c] = "target" => c # key /\ downed[c] = "target" /\ due[c] = "no"
  BY <1>3 DEF IInv, StaysDown
<1>6. sup'.at \notin {"bounce", "downing"}
  BY <1>1, ProjectAssumption DEF IInv, LockHeld, Begin
<1> QED BY <1>1, <1>2, <1>4, <1>5, <1>6, RestartBegins

\* A down begins with what it stops.
LEMMA DownBegins ==
    ASSUME IInv, NEW target \in Targets, NEW who \in {"operator", "supervisor", "shutdown"},
           Begin(who, down_plan(target)), operator_took_control(target),
           UNCHANGED <<children, procs, downed>>, sup' \in SupType, Visiting',
           who = "supervisor" <=> sup'.at = "downing", sup'.at # "bounce",
           who = "shutdown" <=> shutdown' = "down", who = "shutdown" => target = Everything,
           shutdown' = shutdown \/ (shutdown = "cancelled" /\ shutdown' = "down" /\ sup'.at = "gone"),
           shutdown # "no" => sup' = sup \/ shutdown = "cancelled"
    PROVE  IInv'
<1> DEFINE plan == down_plan(target)
<1>1. /\ plan.op = "down" /\ plan.target = target /\ plan.phase = "stop" /\ plan.start = NoStart
      /\ plan.stops = down_order(target) /\ plan \in HandType
  BY Plans DEF down_plan, Idle
<1>2. lock = NoOne /\ lock' = who /\ hand' = plan
  BY DEF Begin
<1> HIDE DEF plan
<1>3. /\ leases' = leases \ taken(target) /\ due' \in [Containers -> {"no", "waiting", "now"}]
      /\ \A c \in Containers : due'[c] = IF c \in taken(target) THEN "no" ELSE due[c]
  BY Controlled DEF IInv
<1>4. Typed'
  BY <1>1, <1>2, <1>3 DEF IInv, Typed
<1>5. LockHeld' /\ Phases' /\ RollingBack' /\ ShuttingDown'
  BY <1>1, <1>2, ProjectAssumption DEF IInv, LockHeld, Phases, RollingBack, ShuttingDown
<1>6. Stopping'
  <2>1. taken(target) \subseteq Containers /\ taken(target) \subseteq ToSet(down_order(target))
    BY DownOrder DEF taken, Targets
  <2> QED BY <1>1, <1>2, <1>3, <2>1 DEF Stopping
<1>7. \A c \in Containers : downed'[c] = "target" => downed[c] = "target" /\ due'[c] = "no"
  BY <1>3 DEF IInv, StaysDown
<1> QED BY <1>1, <1>3, <1>4, <1>5, <1>6, <1>7, BeginStep DEF plan

\* A down keeps the invariant.
LEMMA DownStep == ASSUME IInv, NEW target \in Targets, down(target) PROVE IInv'
<1>1. /\ Begin("operator", down_plan(target)) /\ UNCHANGED <<children, procs, sup, shutdown, downed>>
      /\ operator_took_control(target)
  BY DEF down, inner, Asked
<1>2. sup.at \notin {"bounce", "downing"} /\ shutdown # "down" /\ sup \in SupType /\ Visiting
  BY <1>1, ProjectAssumption DEF IInv, LockHeld, Begin, Typed
<1> QED BY <1>1, <1>2, DownBegins DEF Visiting

\* The supervisor's cascade keeps the invariant.
LEMMA CascadeStep == ASSUME IInv, cascade PROVE IInv'
<1>1. /\ Begin("supervisor", down_plan(sup.key)) /\ UNCHANGED <<children, procs, shutdown, downed>>
      /\ operator_took_control(sup.key) /\ sup.at = "down" /\ sup' = on(sup.key, "downing")
  BY DEF cascade, inner, outside
<1>2. sup \in SupType /\ Visiting /\ sup.key \in Containers /\ shutdown \in {"no", "cancelled"}
  BY <1>1 DEF IInv, Typed, Visiting, KeyHeld, ShuttingDown
<1>3. sup' \in SupType /\ Visiting' /\ sup'.at = "downing"
  BY <1>1, <1>2 DEF SupType, Visiting, on, KeyHeld, Loops, Targets
<1> QED BY <1>1, <1>2, <1>3, DownBegins DEF Targets

\* The shutdown keeps the invariant.
LEMMA ShutDownStep == ASSUME IInv, ShutDown PROVE IInv'
<1>1. /\ Begin("shutdown", down_plan(Everything)) /\ UNCHANGED <<children, procs, sup, downed>>
      /\ operator_took_control(Everything) /\ sup.at = "gone" /\ shutdown = "cancelled" /\ shutdown' = "down"
  BY DEF ShutDown, inner
<1>2. sup \in SupType /\ Visiting
  BY DEF IInv, Typed
<1> QED BY <1>1, <1>2, DownBegins DEF Targets, Visiting

\* A restart attempt keeps the invariant.
LEMMA AttemptStep == ASSUME IInv, run_restart_attempt PROVE IInv'
<1>1. sup.at = "attempt" /\ shutdown = "no" /\ lock = NoOne /\ sup.key \in leases
      /\ UNCHANGED <<children, shutdown, procs, downed>>
  BY DEF run_restart_attempt, requested, outside
<1>2. PICK held \in BOOLEAN :
        /\ due' = IF held THEN [due EXCEPT ![sup.key] = "no"] ELSE due
        /\ \/ Begin("supervisor", restart_plan(sup.key)) /\ sup' = on(sup.key, "bounce") /\ UNCHANGED leases
           \/ /\ leases' = release(sup.key) /\ sup' = [on(sup.key, "forget") EXCEPT !.fate = "failed"]
              /\ UNCHANGED <<lock, hand>>
  BY DEF run_restart_attempt
<1>3. CASE Begin("supervisor", restart_plan(sup.key)) /\ sup' = on(sup.key, "bounce") /\ UNCHANGED leases
  <2>1. sup \in SupType /\ Visiting /\ sup.key \in Containers
    BY <1>1 DEF IInv, Typed, Visiting, KeyHeld
  <2>2. sup' \in SupType /\ Visiting' /\ sup'.at = "bounce" /\ sup'.key = sup.key
    BY <1>1, <1>3, <2>1 DEF SupType, Visiting, on, KeyHeld, Loops, Targets
  <2>3. due' \in [Containers -> {"no", "waiting", "now"}] /\ \A c \in Containers : due[c] = "no" => due'[c] = "no"
    BY <1>2 DEF IInv, Typed
  <2>4. Typed'
    BY <1>1, <1>3, <2>1, <2>2, <2>3, Plans DEF IInv, Typed, Begin
  <2>5. \A c \in Containers : downed[c] = "target" => c # sup.key /\ due'[c] = "no"
    BY <1>1, <2>3 DEF IInv, StaysDown
  <2> QED BY <1>1, <1>3, <2>1, <2>2, <2>4, <2>5, RestartBegins
<1>4. CASE /\ leases' = release(sup.key) /\ sup' = [on(sup.key, "forget") EXCEPT !.fate = "failed"]
           /\ UNCHANGED <<lock, hand>>
  BY <1>1, <1>2, <1>4, SpentStep DEF Apart
<1> QED BY <1>2, <1>3, <1>4

(* Whoever ends: nothing is left in hand. *)
LEMMA EndStep ==
    ASSUME IInv, NEW who \in {"operator", "supervisor", "shutdown"}, End(who), UNCHANGED <<children, procs>>,
           due' \in [Containers -> {"no", "waiting", "now"}], leases' \subseteq leases, sup' \in SupType, Visiting',
           shutdown' \in {"no", "cancelled", "down", "cleared", "done"},
           downed' \in [Containers -> {"no", "target", "along"}],
           sup'.at \notin {"bounce", "downing"}, shutdown' # "down", ShuttingDown',
           \A c \in Containers : downed'[c] = "target" => children[c] = "none" /\ due'[c] = "no" /\ c \notin leases'
    PROVE  IInv'
<1>1. lock' = NoOne /\ hand' = Idle /\ lock = who /\ hand.phase = "done"
  BY DEF End
<1>2. Idle \in HandType
  BY DEF Idle, HandType, NoStart, Starts, Targets
<1>3. Typed'
  BY <1>1, <1>2 DEF IInv, Typed
<1>4. LockHeld' /\ Phases' /\ Stopping' /\ RollingBack'
  BY <1>1, ProjectAssumption DEF LockHeld, Phases, Stopping, RollingBack, Idle
<1>5. Tracked' /\ StaysDown'
  <2>1. \A c \in Containers : hand.start[c] = "no" /\ hand'.start[c] = "no"
    BY <1>1 DEF IInv, Phases, Idle, NoStart
  <2> QED BY <1>1, <2>1 DEF IInv, Tracked, StaysDown, Idle
<1> QED BY <1>3, <1>4, <1>5 DEF IInv

\* The end of an operation keeps the invariant.
LEMMA AnsweredStep == ASSUME IInv, Answered PROVE IInv'
<1>1. End("operator") /\ UNCHANGED <<children, procs, due, leases, sup, shutdown>>
  BY DEF Answered, inner, restarts
<1>2. lock = "operator" /\ hand.phase = "done" /\ hand \in HandType
  BY <1>1 DEF End, IInv, Typed
<1>3. /\ sup \in SupType /\ Visiting /\ sup.at \notin {"bounce", "downing"} /\ shutdown # "down"
      /\ due \in [Containers -> {"no", "waiting", "now"}]
      /\ shutdown \in {"no", "cancelled", "down", "cleared", "done"}
  BY <1>2, ProjectAssumption DEF IInv, Typed, LockHeld
<1>4. downed' \in [Containers -> {"no", "target", "along"}]
  BY DEF Answered, IInv, Typed
<1>5. \A c \in Containers : downed'[c] = "target" => children[c] = "none" /\ due[c] = "no" /\ c \notin leases
  <2>1. \A c \in Containers : downed[c] = "target" => children[c] = "none" /\ due[c] = "no" /\ c \notin leases
    BY DEF IInv, StaysDown
  <2>2. hand.op = "down" => \A c \in taken(hand.target) : children[c] = "none" /\ due[c] = "no" /\ c \notin leases
    BY <1>2 DEF IInv, Stopping
  <2>3. ASSUME NEW c \in Containers, downed'[c] = "target"
        PROVE  downed[c] = "target" \/ (hand.op = "down" /\ c \in taken(hand.target))
    BY <2>3 DEF Answered, taken
  <2> QED BY <2>1, <2>2, <2>3
<1>6. ShuttingDown'
  BY <1>1 DEF IInv, ShuttingDown, End, Idle
<1> QED BY <1>1, <1>3, <1>4, <1>5, <1>6, EndStep DEF Visiting

\* The end of an attempt keeps the invariant.
LEMMA BouncedStep == ASSUME IInv, Bounced PROVE IInv'
<1>1. /\ End("supervisor") /\ UNCHANGED <<children, procs, shutdown, downed>> /\ sup.at = "bounce"
      /\ leases' = leases \ {sup.key}
      /\ sup' \in {[on(sup.key, "forget") EXCEPT !.fate = "failed"], back}
  BY DEF Bounced, outside, release
<1>2. /\ sup \in SupType /\ Visiting /\ sup.key \in Containers /\ sup.loop \in Loops
      /\ hand.op = "restart" /\ hand.target = sup.key /\ shutdown \in {"no", "cancelled"}
      /\ due \in [Containers -> {"no", "waiting", "now"}] /\ downed \in [Containers -> {"no", "target", "along"}]
  BY <1>1 DEF IInv, Typed, Visiting, KeyHeld, LockHeld, ShuttingDown
<1>3. /\ due' \in [Containers -> {"no", "waiting", "now"}]
      /\ \A c \in Containers : c # sup.key => due'[c] = due[c]
  BY <1>2 DEF Bounced
<1>4. sup' \in SupType /\ Visiting' /\ sup'.at \in {"forget"} \cup Loops
  <2>1. CASE sup' = back
    BY <1>2, <2>1 DEF SupType, Visiting, back, KeyHeld, Loops, Targets
  <2>2. CASE sup' = [on(sup.key, "forget") EXCEPT !.fate = "failed"]
    BY <1>2, <2>2 DEF SupType, Visiting, on, KeyHeld, Loops, Targets
  <2> QED BY <1>1, <2>1, <2>2
<1>5. \A c \in Containers : downed[c] = "target" => children[c] = "none" /\ due'[c] = "no" /\ c \notin leases'
  BY <1>1, <1>2, <1>3 DEF IInv, StaysDown
<1>6. ShuttingDown'
  BY <1>1, <1>2 DEF ShuttingDown
<1> QED BY <1>1, <1>2, <1>3, <1>4, <1>5, <1>6, EndStep DEF Loops

\* The end of a cascade keeps the invariant.
LEMMA CascadedStep == ASSUME IInv, Cascaded PROVE IInv'
<1>1. /\ End("supervisor") /\ UNCHANGED <<children, procs, due, leases, shutdown, downed>> /\ sup.at = "downing"
      /\ sup' = on(sup.key, "mark")
  BY DEF Cascaded, outside, inner, restarts
<1>2. /\ sup \in SupType /\ Visiting /\ sup.key \in Containers /\ sup.loop \in Loops /\ shutdown \in {"no", "cancelled"}
      /\ due \in [Containers -> {"no", "waiting", "now"}] /\ downed \in [Containers -> {"no", "target", "along"}]
  BY <1>1 DEF IInv, Typed, Visiting, KeyHeld, ShuttingDown
<1>3. sup' \in SupType /\ Visiting' /\ sup'.at = "mark"
  BY <1>1, <1>2 DEF SupType, Visiting, on, KeyHeld, Loops
<1>4. \A c \in Containers : downed[c] = "target" => children[c] = "none" /\ due[c] = "no" /\ c \notin leases
  BY DEF IInv, StaysDown
<1>5. ShuttingDown'
  BY <1>1, <1>2 DEF ShuttingDown
<1> QED BY <1>1, <1>2, <1>3, <1>4, <1>5, EndStep

\* The end of the shutdown keeps the invariant.
LEMMA DoneStep == ASSUME IInv, ShutDownDone PROVE IInv'
<1>1. UNCHANGED <<children, procs, due, leases, sup, downed>>
  BY DEF ShutDownDone, inner, restarts
<1>2. CASE End("shutdown") /\ shutdown' = "cleared"
  <2>1. /\ shutdown = "down" /\ hand.op = "down" /\ hand.target = Everything /\ hand.phase = "done" /\ sup.at = "gone"
    BY <1>2 DEF IInv, End, LockHeld, ShuttingDown
  <2>2. \A c \in Containers : children[c] = "none"
    BY <2>1 DEF IInv, Stopping, taken
  <2>3. ShuttingDown'
    BY <1>1, <1>2, <2>1, <2>2 DEF ShuttingDown, End, Idle
  <2>4. /\ sup \in SupType /\ Visiting /\ due \in [Containers -> {"no", "waiting", "now"}]
        /\ downed \in [Containers -> {"no", "target", "along"}]
        /\ \A c \in Containers : downed[c] = "target" => due[c] = "no" /\ c \notin leases
    BY DEF IInv, Typed, StaysDown
  <2> QED BY <1>1, <1>2, <2>1, <2>2, <2>3, <2>4, EndStep DEF Visiting
<1>3. CASE shutdown = "cleared" /\ shutdown' = "done" /\ UNCHANGED <<lock, hand>>
  <2>1. Typed' /\ Visiting' /\ LockHeld' /\ ShuttingDown'
    BY <1>1, <1>3 DEF IInv, Typed, Visiting, LockHeld, ShuttingDown
  <2>2. Phases' /\ Tracked' /\ Stopping' /\ StaysDown' /\ RollingBack'
    BY <1>1, <1>3 DEF IInv, Phases, Tracked, Stopping, StaysDown, RollingBack
  <2> QED BY <2>1, <2>2 DEF IInv
<1> QED BY <1>2, <1>3 DEF ShutDownDone

(***************************************************************************)
(* The theorems.                                                            *)
(***************************************************************************)
LEMMA Inductive == IInv /\ [Next]_vars => IInv'
<1> SUFFICES ASSUME IInv, [Next]_vars PROVE IInv'
  OBVIOUS
<1>1. CASE Lifecycle
  BY <1>1, StopStep, StoppedStep, WaveStep, SettledStep, SpawnStep, ReadyStep, FailsStep, InterruptStep
     DEF Lifecycle
<1>2. CASE Operator
  BY <1>2, UpStep, DownStep, RestartOneStep DEF Operator, Targets
<1>3. CASE Supervisor
  BY <1>3, Looking, RecheckStep, ExitsStep, RetriesStep, ClaimStep, DroppedStep, AttemptStep, BouncedStep,
     ForgetStep, CascadeStep, CascadedStep, MarkStep
     DEF Supervisor
<1>4. CASE Answered \/ CancelUp \/ reconcile_after_reconnect \/ cancel \/ ShutDown \/ ShutDownDone
  BY <1>4, AnsweredStep, CancelUpStep, Looking, CancelStep, ShutDownStep, DoneStep
<1>5. CASE \E c \in Containers : BackoffElapses(c) \/ \E how \in Exited : Exit(c, how)
  BY <1>5, BackoffStep, ExitStep
<1>6. CASE UNCHANGED vars
  <2>1. UNCHANGED <<children, records, spent, due, leases, lock, hand, sup, shutdown, procs, downed>>
    BY <1>6 DEF vars, inner, restarts
  <2>2. Typed' /\ Visiting' /\ LockHeld' /\ ShuttingDown'
    BY <2>1 DEF IInv, Typed, Visiting, LockHeld, ShuttingDown
  <2>3. Phases' /\ Tracked' /\ Stopping' /\ StaysDown' /\ RollingBack'
    BY <2>1 DEF IInv, Phases, Tracked, Stopping, StaysDown, RollingBack
  <2> QED BY <2>2, <2>3 DEF IInv
<1> QED BY <1>1, <1>2, <1>3, <1>4, <1>5, <1>6 DEF Next

\* The invariant holds in every reachable state.
LEMMA AlwaysIInv == Spec => []IInv
BY Initially, Inductive, PTL DEF Spec

(* Every process the daemon ever spawned and that still runs is tracked, and *)
(* a container never has two: through starts that fail, are retried, cut     *)
(* short or rolled back, and through handles that are replaced.              *)
THEOREM ProcessesTracked == Spec => []OneTrackedProcess
<1>1. IInv => OneTrackedProcess
  BY DEF IInv, Tracked, OneTrackedProcess
<1> QED BY <1>1, AlwaysIInv, PTL

(* An `up` that ends failed or cut short has stopped all that it started and *)
(* nothing else.                                                             *)
THEOREM RollbacksExact == Spec => []RollbackExact
<1>1. IInv => RollbackExact
  BY DEF IInv, RollingBack, RollbackExact
<1> QED BY <1>1, AlwaysIInv, PTL

(* What an operator took down by name stays down: the due time and the claim *)
(* that could bring it back went with the request, under the lock, and only  *)
(* an exit, of which there is none, or a due time makes new ones.            *)
THEOREM StaysDownUntilStarted == Spec => []TargetStaysDown
<1>1. IInv => TargetStaysDown
  BY DEF IInv, StaysDown, TargetStaysDown
<1> QED BY <1>1, AlwaysIInv, PTL

(* After the shutdown no process is left and none is started. *)
THEOREM ShutdownIsQuiet == Spec => []QuietAfterShutdown
<1>1. IInv => QuietAfterShutdown
  <2> SUFFICES ASSUME IInv, shutdown = "done" PROVE \A c \in Containers : procs[c] = 0
    BY DEF QuietAfterShutdown
  <2>1. \A c \in Containers : children[c] = "none" /\ hand.start[c] = "no"
    BY DEF IInv, ShuttingDown, Phases, NoStart
  <2> QED BY <2>1 DEF IInv, Tracked
<1> QED BY <1>1, AlwaysIInv, PTL

(***************************************************************************)
(* The order of stops.                                                      *)
(***************************************************************************)
(* What depends on a container that a down has yet to stop does not run, or  *)
(* is stopped before it.                                                    *)
Ordered ==
    hand.op = "down" /\ hand.phase = "stop" =>
        \A i \in 1 .. Len(hand.stops), d \in Containers :
            DependsOn(d, hand.stops[i]) => children[d] # "running" \/ \E j \in 1 .. i - 1 : hand.stops[j] = d

\* A stop takes the head of the order.
LEMMA OrderedStop == ASSUME IInv, Ordered, Stop PROVE Ordered'
<1> DEFINE s == hand.stops
           t == Tail(hand.stops)
           key == Head(hand.stops)
<1>1. hand \in HandType /\ children \in [Containers -> Handles] /\ s # <<>>
  BY DEF IInv, Typed, Stop
<1>2. s \in Seq(Containers) /\ Len(s) \in Nat /\ Len(s) > 0
  BY <1>1 DEF HandType
<1>3. Len(t) = Len(s) - 1 /\ key = s[1] /\ key \in Containers /\ \A i \in 1 .. Len(t) : t[i] = s[i + 1]
  BY <1>1, <1>2
<1>4. children' = [children EXCEPT ![key] = "none"] /\ hand' = [hand EXCEPT !.stops = t]
  BY DEF Stop, stop_one
<1>5. hand'.op = hand.op /\ hand'.phase = hand.phase /\ hand'.stops = t /\ hand.phase = "stop"
  BY <1>1, <1>4 DEF HandType, Stop
<1>6. children'[key] # "running" /\ \A d \in Containers : children[d] # "running" => children'[d] # "running"
  BY <1>1, <1>3, <1>4 DEF Handles
<1> HIDE DEF s, t, key
<1> SUFFICES ASSUME hand.op = "down", NEW i \in 1 .. Len(t), NEW d \in Containers, DependsOn(d, t[i])
             PROVE  children'[d] # "running" \/ \E j \in 1 .. i - 1 : t[j] = d
  BY <1>5 DEF Ordered
<1>7. i + 1 \in 1 .. Len(s) /\ t[i] = s[i + 1]
  BY <1>2, <1>3
<1>8. children[d] # "running" \/ \E j \in 1 .. (i + 1) - 1 : s[j] = d
  BY <1>5, <1>7 DEF Ordered, s
<1>9. CASE children[d] # "running"
  BY <1>6, <1>9
<1>10. ASSUME NEW j \in 1 .. (i + 1) - 1, s[j] = d PROVE children'[d] # "running" \/ \E m \in 1 .. i - 1 : t[m] = d
  <2>1. CASE j = 1
    BY <1>3, <1>6, <1>10, <2>1
  <2>2. CASE j # 1
    <3>1. j - 1 \in 1 .. i - 1 /\ j - 1 \in 1 .. Len(t) /\ (j - 1) + 1 = j
      BY <1>2, <1>3, <2>2
    <3> QED BY <1>3, <1>10, <3>1
  <2> QED BY <2>1, <2>2
<1> QED BY <1>8, <1>9, <1>10

\* A down begins with an order in which dependents come first.
LEMMA OrderedBegin ==
    ASSUME NEW target \in Targets, hand' = down_plan(target)
    PROVE  Ordered'
<1>1. hand'.stops = down_order(target)
  BY DEF down_plan, Idle
<1> QED BY <1>1, DownOrder DEF Ordered, DependentsFirst

(* A step that neither stops what runs nor changes what a down has in hand. *)
LEMMA OrderedElse ==
    ASSUME Ordered,
           \/ hand'.op # "down" \/ hand'.phase # "stop"
           \/ /\ hand.op = "down" /\ hand.phase = "stop" /\ hand'.stops = hand.stops
              /\ \A d \in Containers : children'[d] = "running" => children[d] = "running"
    PROVE  Ordered'
BY DEF Ordered

\* The order is kept by every step.
LEMMA OrderedNext == ASSUME IInv, Ordered, [Next]_vars PROVE Ordered'
<1>1. hand \in HandType /\ children \in [Containers -> Handles]
  BY DEF IInv, Typed
<1>2. hand.op = "down" => hand.phase \in {"stop", "done"} /\ hand.start = NoStart
  BY DEF IInv, Phases
<1>3. \A c \in Containers : NoStart[c] = "no"
  BY DEF NoStart
<1>4. CASE UNCHANGED <<children, hand>>
  BY <1>4, OrderedElse DEF Ordered
<1>5. CASE Stop
  BY <1>5, OrderedStop
<1>6. CASE Stopped
  BY <1>1, <1>6, OrderedElse DEF Stopped, HandType
<1>7. CASE Wave \/ Settled \/ \E c \in Containers : Spawn(c) \/ Ready(c) \/ StartFails(c) \/ Interrupt(c)
  <2>1. hand.op # "down"
    BY <1>2, <1>3, <1>7 DEF Wave, Settled, Spawn, Ready, StartFails, Interrupt
  <2>2. hand'.op = hand.op
    <3>1. CASE Wave
      BY <1>1, <3>1 DEF Wave, rollback, HandType
    <3>2. CASE Settled
      BY <1>1, <3>2 DEF Settled, rollback, HandType
    <3>3. ASSUME NEW c \in Containers, Spawn(c) \/ Ready(c) \/ StartFails(c) \/ Interrupt(c) PROVE hand'.op = hand.op
      BY <1>1, <3>3 DEF Spawn, Ready, StartFails, Interrupt, HandType
    <3> QED BY <1>7, <3>1, <3>2, <3>3
  <2> QED BY <2>1, <2>2, OrderedElse
<1>8. CASE Operator
  <2>1. ASSUME NEW target \in Targets, up(target) PROVE hand'.op # "down"
    BY <2>1 DEF up, Begin, up_plan, Idle
  <2>2. ASSUME NEW key \in Containers, restart_one(key) PROVE hand'.op # "down"
    BY <2>2 DEF restart_one, Begin, restart_plan, Idle
  <2>3. ASSUME NEW target \in Targets, down(target) PROVE Ordered'
    BY <2>3, OrderedBegin DEF down, Begin
  <2> QED BY <1>8, <2>1, <2>2, <2>3, OrderedElse DEF Operator, Targets
<1>9. CASE Answered \/ Bounced \/ Cascaded \/ ShutDownDone
  <2>1. hand' = Idle \/ UNCHANGED <<children, hand>>
    BY <1>9 DEF Answered, Bounced, Cascaded, ShutDownDone, End, inner
  <2> QED BY <1>4, <2>1, OrderedElse DEF Idle
<1>10. CASE CancelUp
  <2>1. hand'.op = hand.op /\ hand.op = "up"
    BY <1>1, <1>10 DEF CancelUp, HandType
  <2> QED BY <2>1, OrderedElse
<1>11. CASE run_restart_attempt
  <2>1. UNCHANGED <<children, hand>> \/ hand' = restart_plan(sup.key)
    BY <1>11 DEF run_restart_attempt, Begin
  <2> QED BY <1>4, <2>1, OrderedElse DEF restart_plan, Idle
<1>12. CASE cascade
  <2>1. sup.key \in Targets
    BY <1>12 DEF cascade, IInv, Visiting, KeyHeld, Targets
  <2> QED BY <1>12, <2>1, OrderedBegin DEF cascade, Begin
<1>13. CASE ShutDown
  BY <1>13, OrderedBegin DEF ShutDown, Begin, Targets
<1>14. ASSUME NEW c \in Containers, NEW how \in Exited, Exit(c, how) PROVE Ordered'
  <2>1. CASE children[c] = "running" /\ children' = [children EXCEPT ![c] = how] /\ UNCHANGED hand
    <3>1. \A d \in Containers : children'[d] = "running" => children[d] = "running"
      BY <1>1, <2>1
    <3> QED BY <2>1, <3>1, OrderedElse
  <2>2. CASE hand.start[c] = "running" /\ hand' = [hand EXCEPT !.start[c] = how] /\ UNCHANGED children
    <3>1. hand.op # "down" /\ hand'.op = hand.op
      BY <1>1, <1>2, <1>3, <2>2 DEF HandType
    <3> QED BY <3>1, OrderedElse
  <2> QED BY <1>14, <2>1, <2>2 DEF Exit
<1>15. CASE \/ supervise \/ wait_for_reregistration \/ reap \/ answer_exit \/ drive_restarts \/ answer_retry
            \/ claim_restart \/ AttemptDropped \/ forget_restarts \/ mark \/ reconcile_after_reconnect \/ cancel
            \/ (\E c \in Containers : BackoffElapses(c)) \/ UNCHANGED vars
  <2>1. UNCHANGED <<children, hand>>
    BY <1>15 DEF supervise, wait_for_reregistration, reap, answer_exit, drive_restarts, answer_retry, claim_restart,
       AttemptDropped, forget_restarts, mark, reconcile_after_reconnect, cancel, BackoffElapses, vars, inner
  <2> QED BY <1>4, <2>1
<1> QED BY <1>5, <1>6, <1>7, <1>8, <1>9, <1>10, <1>11, <1>12, <1>13, <1>14, <1>15
    DEF Next, Lifecycle, Supervisor

\* A handle is removed only by the stop of its container.
LEMMA OnlyStops ==
    ASSUME IInv, [Next]_vars, NEW c \in Containers, children[c] = "running", children'[c] = "none"
    PROVE  Stop /\ c = Head(hand.stops)
<1>1. children \in [Containers -> Handles] /\ hand \in HandType /\ children' # children
  BY DEF IInv, Typed
<1>2. CASE Stop
  <2>1. Head(hand.stops) \in Containers /\ children' = [children EXCEPT ![Head(hand.stops)] = "none"]
    BY <1>1, <1>2 DEF Stop, stop_one, HandType
  <2>2. c = Head(hand.stops)
    BY <1>1, <2>1
  <2> QED BY <1>2, <2>2
<1>3. ASSUME NEW d \in Containers, Ready(d) PROVE FALSE
  BY <1>1, <1>3 DEF Ready
<1>4. ASSUME NEW d \in Containers, NEW how \in Exited, Exit(d, how) PROVE FALSE
  <2>1. how # "none"
    BY DEF Exited
  <2> QED BY <1>1, <1>4, <2>1 DEF Exit
<1>5. CASE Stopped \/ Wave \/ Settled \/ (\E d \in Containers : Spawn(d) \/ StartFails(d) \/ Interrupt(d))
           \/ Operator \/ Answered \/ CancelUp
  BY <1>1, <1>5 DEF Stopped, Wave, Settled, Spawn, StartFails, Interrupt, Operator, up, down, restart_one,
     Answered, CancelUp, inner
<1>6. CASE Supervisor \/ reconcile_after_reconnect \/ cancel \/ ShutDown \/ ShutDownDone
           \/ (\E d \in Containers : BackoffElapses(d)) \/ UNCHANGED vars
  BY <1>1, <1>6 DEF Supervisor, supervise, wait_for_reregistration, reap, answer_exit, drive_restarts, answer_retry,
     claim_restart, AttemptDropped, run_restart_attempt, Bounced, forget_restarts, cascade, Cascaded, mark,
     reconcile_after_reconnect, cancel, ShutDown, ShutDownDone, BackoffElapses, vars, inner
<1> QED BY <1>2, <1>3, <1>4, <1>5, <1>6 DEF Next, Lifecycle

(* A down, whoever asked for it, stops a container only when nothing that    *)
(* depends on it runs: the order it walks has every dependent first, however *)
(* the file declares its containers, and nothing starts while it walks.      *)
THEOREM StopsInOrder == Spec => StopOrder
<1>1. Init => Ordered
  BY DEF Init, Ordered, Idle
<1>2. IInv /\ Ordered /\ [Next]_vars => Ordered'
  BY OrderedNext
<1>3. ASSUME IInv, Ordered, [Next]_vars, NEW c \in Containers,
             hand.op = "down", children[c] = "running", children'[c] = "none"
      PROVE  \A d \in Containers : DependsOn(d, c) => children[d] # "running"
  <2>1. Stop /\ c = Head(hand.stops)
    BY <1>3, OnlyStops
  <2>2. hand.stops \in Seq(Containers) /\ hand.stops # <<>> /\ hand.phase = "stop"
    BY <1>3, <2>1 DEF Stop, IInv, Typed, HandType
  <2>3. 1 \in 1 .. Len(hand.stops) /\ hand.stops[1] = c /\ \A j \in 1 .. 1 - 1 : FALSE
    BY <2>1, <2>2
  <2> QED BY <1>3, <2>2, <2>3 DEF Ordered
<1>4. IInv /\ Ordered /\ [Next]_vars =>
        [\A c \in Containers :
            hand.op = "down" /\ children[c] = "running" /\ children'[c] = "none" =>
                \A d \in Containers : DependsOn(d, c) => children[d] # "running"]_vars
  BY <1>3
<1> QED BY <1>1, <1>2, <1>4, AlwaysIInv, PTL DEF Spec, StopOrder
=============================================================================
