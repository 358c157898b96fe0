------------------------ MODULE FunctionQueueProofs ------------------------
(***************************************************************************)
(* What FunctionQueue promises, proved for every concurrency, retry limit,  *)
(* number of jobs and number of restarts: one delivery of a job at a time,  *)
(* a bounded number of deliveries, calls of one job that overlap only       *)
(* across a restart, and no message lost but those stranded in an aborted   *)
(* receiver's hands.                                                        *)
(***************************************************************************)
EXTENDS FunctionQueue, QueueStoreProofs, FiniteSetTheorems, WellFoundedInduction

(***************************************************************************)
(* The inductive invariant.                                                 *)
(***************************************************************************)
Budget == IF MaxRetries = 0 THEN 1 ELSE MaxRetries
Delivery == [job : Jobs, gen : Gens, at : {"send", "chan", "hand", "call", "dropped", "end"}]

(* Types of the variables. *)
Typed ==
    /\ StoreTypeOK
    /\ pushed \in 0 .. MaxJobs /\ configured \in BOOLEAN
    /\ started \in 0 .. MaxGens /\ consumers \in 0 .. started
    /\ poller \in [Gens -> {"off", "check", "move", "send", "drain", "end"}]
    /\ receiver \in [Gens -> {"off", "on", "aborted"}]
    /\ deliveries \in Seq(Delivery)
    /\ outstanding \in [Gens -> Seq(Ids)]
    /\ delivery_map \subseteq Ids
    /\ finished \subseteq Jobs /\ stranded \subseteq Jobs

Listed == Elems(waiting) \cup delayed \cup Elems(dlq) \cup finished
Working(j) == \E d \in delivery_map : Job(d) = j

(* What exists was pushed, and what was pushed is somewhere. *)
Born ==
    /\ \A j \in Listed : j <= pushed
    /\ \A d \in Ids : Job(d) <= pushed
    /\ \A j \in 1 .. pushed : j \in Listed \/ Working(j)

(* SingleDelivery, job by job. *)
Placed ==
    /\ NoRepeat(waiting)
    /\ \A d, e \in delivery_map : Job(d) = Job(e) => d = e
    /\ \A j \in Jobs : active[j] = IF Working(j) THEN 1 ELSE 0
    /\ \A j \in Listed : ~Working(j)
    /\ \A j \in Elems(waiting) : j \notin delayed \cup Elems(dlq) \cup finished
    /\ \A j \in delayed : j \notin Elems(dlq) \cup finished
    /\ \A j \in Elems(dlq) : j \notin finished

(* The deliveries of a job so far: as many as failed attempts while it waits, *)
(* one more while it is out.                                                 *)
Times(j) == Cardinality({d \in Ids : Job(d) = j})
Counted ==
    \A j \in Jobs :
        /\ Times(j) <= Budget
        /\ j \in Elems(waiting) \cup delayed => Times(j) = attempts[j] /\ attempts[j] < Budget
        /\ Working(j) => Times(j) = attempts[j] + 1

(* A receiver that is on has a poller that polls, and only generations that   *)
(* were started have deliveries.                                              *)
Lives ==
    /\ \A d \in Ids : deliveries[d].gen <= started
    /\ \A g \in Gens :
        /\ g > started => poller[g] = "off" /\ receiver[g] = "off"
        /\ g <= started => poller[g] # "off" /\ receiver[g] # "off"
        /\ receiver[g] = "on" => poller[g] \in {"check", "move", "send"}

(* A window holds ids of its generation in the order of their pops, and the   *)
(* delivery that is being sent, which is the latest of them.                  *)
Windows ==
    /\ \A g \in Gens :
        /\ \A i, k \in 1 .. Len(outstanding[g]) : i < k => outstanding[g][i] < outstanding[g][k]
        /\ \A d \in Elems(outstanding[g]) : deliveries[d].gen = g
    /\ \A d \in Ids : deliveries[d].at = "send" =>
        /\ poller[deliveries[d].gen] = "send"
        /\ d \in Elems(outstanding[deliveries[d].gen])
        /\ \A e \in Ids : deliveries[e].gen = deliveries[d].gen => e <= d

(* What is in the channel is in the window, and nothing that came after it    *)
(* has left the channel.                                                      *)
Buffered ==
    \A d \in Ids : deliveries[d].at = "chan" /\ receiver[deliveries[d].gen] = "on" =>
        /\ d \in Elems(outstanding[deliveries[d].gen])
        /\ \A e \in Ids : deliveries[e].gen = deliveries[d].gen /\ e > d =>
              deliveries[e].at \in {"chan", "send"}

(* A mapped delivery will be settled, or its job is counted as stranded.      *)
Owed ==
    /\ \A d \in Ids : deliveries[d].at = "end" => d \notin delivery_map
    /\ \A d \in Ids : deliveries[d].at = "dropped" => receiver[deliveries[d].gen] = "aborted"
    /\ \A d \in delivery_map : Pending(d) \/ Job(d) \in stranded

(* The generation whose handle is kept, and the latest, were not aborted. *)
Handled == consumers # 0 => receiver[consumers] = "on" /\ receiver[started] = "on"

IInv ==
    /\ Typed /\ Born /\ Placed /\ Counted /\ Handled
    /\ Lives /\ Windows /\ Buffered /\ Owed

USE FunctionQueueAssumption, MaxJobsAssumption

\* The channel has a slot and a message has a delivery.
LEMMA PrefetchType == prefetch \in Nat \ {0} /\ Budget \in Nat \ {0}
BY DEF prefetch, Budget

\* The invariant holds at first.
LEMMA Initially == Init => IInv
<1> SUFFICES ASSUME Init PROVE IInv
  OBVIOUS
<1> USE DEF Init, StoreInit, Ids
<1>0. Ids = {} /\ Elems(waiting) = {} /\ Elems(dlq) = {} /\ Listed = {}
  BY DEF Elems, Listed
<1>1. Typed
  BY DEF Typed, StoreTypeOK, Gens
<1>2. Born
  BY <1>0 DEF Born
<1>3. Placed
  BY <1>0 DEF Placed, Working, NoRepeat
<1>4. Counted
  <2>1. \A j \in Jobs : Times(j) = 0
    <3>1. \A j \in Jobs : {d \in Ids : Job(d) = j} = {}
      BY <1>0
    <3> QED BY <3>1, FS_EmptySet DEF Times
  <2> QED BY <1>0, <2>1, PrefetchType DEF Counted, Working
<1>5. Lives
  BY <1>0 DEF Lives, Gens
<1>6. Windows
  BY <1>0 DEF Windows, Elems
<1>7. Buffered /\ Owed
  BY <1>0 DEF Buffered, Owed
<1>9. Handled
  BY DEF Handled
<1> QED BY <1>1, <1>2, <1>3, <1>4, <1>5, <1>6, <1>7, <1>9 DEF IInv

(***************************************************************************)
(* Deliveries: what the steps do to the table of them.                      *)
(***************************************************************************)
(* Every delivery keeps its job and its generation. *)
SameJobs ==
    /\ deliveries' \in Seq(Delivery) /\ Ids' = Ids
    /\ \A d \in Ids : deliveries'[d].job = deliveries[d].job /\ deliveries'[d].gen = deliveries[d].gen

\* The rows of the delivery table are typed.
LEMMA Rows ==
    ASSUME deliveries \in Seq(Delivery)
    PROVE  /\ Len(deliveries) \in Nat
           /\ \A d \in Ids : /\ d \in Nat \ {0} /\ Job(d) \in Jobs /\ deliveries[d].gen \in Gens
                             /\ deliveries[d].at \in {"send", "chan", "hand", "call", "dropped", "end"}
<1>1. Len(deliveries) \in Nat /\ \A d \in Ids : d \in Nat \ {0} /\ deliveries[d] \in Delivery
  BY DEF Ids
<1>2. \A row \in Delivery : /\ row.job \in Jobs /\ row.gen \in Gens
                            /\ row.at \in {"send", "chan", "hand", "call", "dropped", "end"}
  BY DEF Delivery
<1> QED BY <1>1, <1>2 DEF Job

\* Moving one delivery leaves the others where they are.
LEMMA Moved ==
    ASSUME deliveries \in Seq(Delivery), NEW d \in Ids,
           NEW place \in {"send", "chan", "hand", "call", "dropped", "end"}, move(d, place)
    PROVE  /\ SameJobs
           /\ deliveries'[d].at = place
           /\ \A e \in Ids : e # d => deliveries'[e].at = deliveries[e].at
<1> DEFINE row == [deliveries[d] EXCEPT !.at = place]
<1>1. deliveries' = [deliveries EXCEPT ![d] = row]
  BY DEF move
<1>2. d \in 1 .. Len(deliveries) /\ deliveries[d] \in Delivery
  BY DEF Ids
<1>3. /\ row \in Delivery /\ row.at = place
      /\ row.job = deliveries[d].job /\ row.gen = deliveries[d].gen
  BY <1>2 DEF Delivery
<1> HIDE DEF row
<1>4. deliveries' \in Seq(Delivery) /\ Len(deliveries') = Len(deliveries)
  BY <1>1, <1>2, <1>3, ExceptSeq
<1>5. \A e \in Ids : deliveries'[e] = IF e = d THEN row ELSE deliveries[e]
  BY <1>1, <1>2 DEF Ids
<1> QED BY <1>3, <1>4, <1>5 DEF SameJobs, Ids

\* A new delivery is the last row of the table.
LEMMA Appended ==
    ASSUME deliveries \in Seq(Delivery), NEW row \in Delivery, deliveries' = Append(deliveries, row)
    PROVE  /\ deliveries' \in Seq(Delivery) /\ Len(deliveries') = Len(deliveries) + 1
           /\ Ids' = Ids \cup {Len(deliveries')} /\ Len(deliveries') \notin Ids
           /\ \A d \in Ids : d < Len(deliveries') /\ deliveries'[d] = deliveries[d]
           /\ deliveries'[Len(deliveries')] = row
BY DEF Ids

\* A table that does not change has the same jobs.
LEMMA SameRows ==
    ASSUME deliveries \in Seq(Delivery), UNCHANGED deliveries
    PROVE  SameJobs
BY DEF SameJobs, Ids

\* Aborting a generation drops what its channel and its receiver held.
LEMMA Aborted ==
    ASSUME deliveries \in Seq(Delivery), NEW g \in Gens, abort(g)
    PROVE  /\ SameJobs
           /\ \A d \in Ids :
                deliveries'[d].at = IF deliveries[d].gen = g /\ deliveries[d].at \in {"chan", "hand"}
                                    THEN "dropped" ELSE deliveries[d].at
<1> DEFINE gone == At(g, "chan") \cup At(g, "hand")
           row(d) == [deliveries[d] EXCEPT !.at = "dropped"]
<1>1. deliveries' = [d \in 1 .. Len(deliveries) |-> IF d \in gone THEN row(d) ELSE deliveries[d]]
  BY DEF abort, Ids
<1>2. ASSUME NEW d \in Ids
      PROVE  /\ deliveries[d] \in Delivery /\ row(d) \in Delivery
             /\ row(d).at = "dropped" /\ row(d).job = deliveries[d].job /\ row(d).gen = deliveries[d].gen
  <2>1. deliveries[d] \in Delivery
    BY DEF Ids
  <2> QED BY <2>1 DEF Delivery
<1>3. \A d \in Ids : d \in gone <=> deliveries[d].gen = g /\ deliveries[d].at \in {"chan", "hand"}
  BY DEF At
<1> HIDE DEF gone, row
<1>4. deliveries' \in Seq(Delivery) /\ Len(deliveries') = Len(deliveries)
  BY <1>1, <1>2 DEF Ids
<1>5. \A d \in Ids : deliveries'[d] = IF d \in gone THEN row(d) ELSE deliveries[d]
  BY <1>1 DEF Ids
<1>6. Ids' = Ids
  BY <1>4 DEF Ids
<1>7. \A d \in Ids : deliveries'[d].job = deliveries[d].job /\ deliveries'[d].gen = deliveries[d].gen
  BY <1>2, <1>5
<1> QED BY <1>2, <1>3, <1>4, <1>5, <1>6, <1>7 DEF SameJobs

(***************************************************************************)
(* The store, the map and the counts.                                       *)
(***************************************************************************)
LEMMA PrimedLists ==
    /\ Elems(waiting)' = Elems(waiting') /\ Elems(dlq)' = Elems(dlq')
    /\ NoRepeat(waiting)' = NoRepeat(waiting')
BY DEF Elems, NoRepeat

\* The elements of a list are of its type.
LEMMA ElemsType == ASSUME NEW S, NEW list \in Seq(S) PROVE Elems(list) \subseteq S
BY DEF Elems

\* The same jobs have been delivered as often.
LEMMA SameTimes ==
    ASSUME deliveries \in Seq(Delivery), SameJobs
    PROVE  /\ \A d \in Ids : Job(d)' = Job(d)
           /\ \A j \in Jobs : Times(j)' = Times(j)
<1>1. \A d \in Ids : Job(d)' = Job(d)
  BY DEF SameJobs, Job
<1>2. \A j \in Jobs : {d \in Ids : Job(d) = j}' = {d \in Ids : Job(d) = j}
  BY <1>1 DEF SameJobs
<1> QED BY <1>1, <1>2 DEF Times

\* How often a job was delivered is a number.
LEMMA TimesType ==
    ASSUME deliveries \in Seq(Delivery)
    PROVE  \A j \in Jobs : Times(j) \in Nat /\ IsFiniteSet({d \in Ids : Job(d) = j})
<1>1. IsFiniteSet(Ids)
  <2>1. 1 \in Int /\ Len(deliveries) \in Int
    BY Rows
  <2> QED BY <2>1, FS_Interval DEF Ids
<1>2. \A j \in Jobs : IsFiniteSet({d \in Ids : Job(d) = j})
  BY <1>1, FS_Subset
<1> QED BY <1>2, FS_CardinalityType DEF Times

\* Steps outside the store leave the messages in their places.
LEMMA StoreSame ==
    ASSUME Typed, Born, Placed, Counted, SameJobs,
           UNCHANGED <<storeVars, pushed, finished, delivery_map>>
    PROVE  Born' /\ Placed' /\ Counted'
<1>1. /\ \A d \in Ids : Job(d)' = Job(d)
      /\ \A j \in Jobs : Times(j)' = Times(j)
      /\ Ids' = Ids /\ Listed' = Listed /\ delivery_map \subseteq Ids
  BY SameTimes DEF Typed, SameJobs, Listed, storeVars
<1>2. \A j : Working(j)' <=> Working(j)
  BY <1>1 DEF Working
<1>3. Born'
  BY <1>1, <1>2 DEF Born
<1>4. Placed'
  BY <1>1, <1>2 DEF Placed, storeVars
<1>5. Counted'
  BY <1>1, <1>2 DEF Counted, storeVars
<1> QED BY <1>3, <1>4, <1>5

\* A published message is in one place.
LEMMA PublishStore ==
    ASSUME Typed, Born, Placed, Counted, Publish
    PROVE  Born' /\ Placed' /\ Counted' /\ StoreTypeOK' /\ pushed' \in 0 .. MaxJobs
<1> DEFINE n == pushed + 1
<1>1. /\ n \in Jobs /\ pushed' = n /\ pushed \in Nat /\ n \notin Listed /\ ~Working(n)
      /\ pushed' \in 0 .. MaxJobs
  <2>1. n \in Jobs /\ pushed' = n /\ pushed \in Nat /\ pushed' \in 0 .. MaxJobs
    BY DEF Typed, Publish, Jobs
  <2>2. ~(n <= pushed)
    BY <2>1
  <2>3. \A d \in delivery_map : Job(d) <= pushed
    BY DEF Born, Typed
  <2> HIDE DEF n
  <2> QED BY <2>1, <2>2, <2>3 DEF Born, Working
<1>2. SameJobs /\ delivery_map' = delivery_map
  BY SameRows DEF Typed, Publish, taskVars
<1>3. /\ waiting' \in Seq(Jobs) /\ NoRepeat(waiting')
      /\ Elems(waiting') = Elems(waiting) \cup {n}
  BY <1>1, LpushFacts DEF Publish, Typed, StoreTypeOK, Placed, Listed
<1>4. /\ record' = record \cup {n} /\ attempts' = [attempts EXCEPT ![n] = 0]
      /\ UNCHANGED <<active, delayed, dlq, finished>>
  BY DEF Publish, setJob, history
<1>5. /\ \A d \in Ids : Job(d)' = Job(d) /\ Job(d) \in Jobs
      /\ \A j \in Jobs : Times(j)' = Times(j)
      /\ Ids' = Ids /\ Listed' = Listed \cup {n} /\ delivery_map \subseteq Ids
  BY <1>2, <1>3, <1>4, SameTimes, Rows, PrimedLists DEF Typed, SameJobs, Listed
<1>6. \A j : Working(j)' <=> Working(j)
  BY <1>2, <1>5 DEF Working
<1>7. StoreTypeOK'
  BY <1>1, <1>3, <1>4 DEF Typed, StoreTypeOK
<1>8. Times(n) = 0
  <2>1. {d \in Ids : Job(d) = n} = {}
    BY <1>1, <1>5 DEF Born, Jobs
  <2> QED BY <2>1, FS_EmptySet DEF Times
<1> HIDE DEF n
<1>9. Born'
  <2>1. \A j \in Listed' : j <= pushed'
    <3>1. \A j \in Listed : j \in Nat /\ j <= pushed
      <4>1. Listed \subseteq Jobs
        BY ElemsType DEF Typed, StoreTypeOK, Listed
      <4> QED BY <4>1 DEF Born, Jobs
    <3> QED BY <1>1, <1>5, <3>1 DEF n
  <2>2. \A d \in Ids' : Job(d)' <= pushed'
    BY <1>1, <1>5 DEF Born, Jobs, n
  <2>3. \A j \in 1 .. pushed' : j = n \/ j \in 1 .. pushed
    BY <1>1 DEF n
  <2>4. \A j \in 1 .. pushed' : j \in Listed' \/ Working(j)'
    BY <1>5, <1>6, <2>3 DEF Born
  <2> QED BY <2>1, <2>2, <2>4 DEF Born
<1>10. Placed'
  BY <1>1, <1>2, <1>3, <1>4, <1>5, <1>6, PrimedLists DEF Placed, Listed
<1>11. Counted'
  BY <1>1, <1>2, <1>3, <1>4, <1>5, <1>6, <1>8, PrefetchType, PrimedLists DEF Counted, Typed, StoreTypeOK
<1> QED BY <1>1, <1>7, <1>9, <1>10, <1>11

\* A delayed message that is due is moved, not copied.
LEMMA MoveDelayedStore ==
    ASSUME Typed, Born, Placed, Counted, NEW g \in Gens, NEW n \in Jobs, MoveDelayed(g, n)
    PROVE  Born' /\ Placed' /\ Counted' /\ StoreTypeOK'
<1>2. SameJobs /\ UNCHANGED <<delivery_map, pushed, finished>> /\ n \in delayed
  BY SameRows DEF Typed, MoveDelayed, taskVars, fnVars, history
<1>3. /\ waiting' \in Seq(Jobs) /\ NoRepeat(waiting')
      /\ Elems(waiting') = Elems(waiting) \cup {n}
  BY <1>2, RpushFacts DEF MoveDelayed, Typed, StoreTypeOK, Placed
<1>4. /\ delayed' = delayed \ {n} /\ UNCHANGED <<record, attempts, active, dlq, finished>>
  BY DEF MoveDelayed, history
<1>5. /\ \A d \in Ids : Job(d)' = Job(d) /\ Job(d) \in Jobs
      /\ \A j \in Jobs : Times(j)' = Times(j)
      /\ Ids' = Ids /\ Listed' = Listed /\ delivery_map \subseteq Ids
  BY <1>2, <1>3, <1>4, SameTimes, Rows, PrimedLists DEF Typed, SameJobs, Listed
<1>6. \A j : Working(j)' <=> Working(j)
  BY <1>2, <1>5 DEF Working
<1>7. StoreTypeOK'
  BY <1>2, <1>3, <1>4 DEF Typed, StoreTypeOK
<1>9. Born'
  BY <1>2, <1>5, <1>6 DEF Born
<1>10. Placed'
  BY <1>2, <1>3, <1>4, <1>5, <1>6, PrimedLists DEF Placed, Listed
<1>11. Counted'
  BY <1>2, <1>3, <1>4, <1>5, <1>6, PrimedLists DEF Counted
<1> QED BY <1>7, <1>9, <1>10, <1>11

(* A pop is a delivery more of the job it takes. *)
LEMMA PopStore ==
    ASSUME Typed, Born, Placed, Counted, NEW g \in Gens, Pop(g)
    PROVE  Born' /\ Placed' /\ Counted' /\ StoreTypeOK' /\ delivery_map' \subseteq Ids'
<1> DEFINE n == back(waiting)
           row == [job |-> n, gen |-> g, at |-> "send"]
           new == Len(deliveries')
<1>1. /\ n \in Jobs /\ n \in Elems(waiting) /\ waiting' \in Seq(Jobs) /\ NoRepeat(waiting')
      /\ n \notin Elems(waiting') /\ Elems(waiting) = Elems(waiting') \cup {n}
  BY RpopFacts DEF Pop, Typed, StoreTypeOK, Placed
<1>2. row \in Delivery /\ row.job = n
  BY <1>1 DEF Delivery
<1> HIDE DEF n
<1>3. /\ UNCHANGED <<record, attempts, delayed, dlq, pushed, finished>>
      /\ active' = [active EXCEPT ![n] = @ + 1]
      /\ delivery_map' = delivery_map \cup {new}
      /\ deliveries' = Append(deliveries, row)
  BY DEF Pop, pushActive, fnVars, history, n
<1> HIDE DEF row
<1>4. /\ deliveries' \in Seq(Delivery)
      /\ Ids' = Ids \cup {new} /\ new \notin Ids
      /\ \A d \in Ids : Job(d)' = Job(d) /\ Job(d) \in Jobs
      /\ \A d \in Ids' : d = new => Job(d)' = n
  BY <1>2, <1>3, Appended, Rows DEF Typed, Job
<1> HIDE DEF new
<1>5. /\ \A j : Working(j)' <=> Working(j) \/ j = n
      /\ ~Working(n) /\ Listed' = Listed \ {n} /\ n \in Listed
      /\ delivery_map \subseteq Ids
  BY <1>1, <1>3, <1>4, PrimedLists DEF Working, Placed, Listed, Typed
<1>6. \A j \in Jobs : Times(j)' = IF j = n THEN Times(n) + 1 ELSE Times(j)
  <2> SUFFICES ASSUME NEW j \in Jobs PROVE Times(j)' = IF j = n THEN Times(n) + 1 ELSE Times(j)
    OBVIOUS
  <2> DEFINE before == {d \in Ids : Job(d) = j}
  <2>1. CASE j = n
    <3>1. {d \in Ids : Job(d) = j}' = before \cup {new} /\ new \notin before
      BY <2>1, <1>4
    <3>2. IsFiniteSet(before)
      BY TimesType DEF Typed
    <3> QED BY <2>1, <3>1, <3>2, FS_AddElement DEF Times
  <2>2. CASE j # n
    <3>1. {d \in Ids : Job(d) = j}' = before
      BY <2>2, <1>4
    <3> QED BY <2>2, <3>1 DEF Times
  <2> QED BY <2>1, <2>2
<1>7. StoreTypeOK' /\ delivery_map' \subseteq Ids'
  BY <1>1, <1>3, <1>4 DEF Typed, StoreTypeOK
<1>8. Born'
  BY <1>3, <1>4, <1>5 DEF Born
<1>9. Placed'
  <2>1. \A d, e \in delivery_map' : Job(d)' = Job(e)' => d = e
    BY <1>3, <1>4, <1>5 DEF Placed, Working, Typed
  <2>2. \A j \in Jobs : active'[j] = IF Working(j)' THEN 1 ELSE 0
    BY <1>1, <1>3, <1>5 DEF Placed, Typed, StoreTypeOK
  <2> QED BY <1>1, <1>3, <1>5, <2>1, <2>2, PrimedLists DEF Placed, Listed
<1>10. Counted'
  <2> SUFFICES ASSUME NEW j \in Jobs
               PROVE  /\ Times(j)' <= Budget
                      /\ j \in Elems(waiting)' \cup delayed' =>
                            Times(j)' = attempts'[j] /\ attempts'[j] < Budget
                      /\ Working(j)' => Times(j)' = attempts'[j] + 1
    BY DEF Counted
  <2>1. Times(n) = attempts[n] /\ attempts[n] < Budget /\ attempts[n] \in Nat
    BY <1>1 DEF Counted, Typed, StoreTypeOK
  <2>2. n \notin Elems(waiting)' \cup delayed'
    BY <1>1, <1>3, PrimedLists DEF Placed
  <2> QED BY <1>1, <1>3, <1>5, <1>6, <2>1, <2>2, PrefetchType, PrimedLists DEF Counted
<1> QED BY <1>7, <1>8, <1>9, <1>10

(* A delivery that is settled leaves the map, and its job has a place. *)
SettleOne(d) ==
    /\ delivery_map' = delivery_map \ {d}
    /\ active' = [active EXCEPT ![Job(d)] = IF @ = 0 THEN 0 ELSE @ - 1]
    /\ UNCHANGED <<pushed, waiting>>

\* A settled delivery is the only one of its message.
LEMMA Settle ==
    ASSUME Typed, Placed, SameJobs, NEW d \in delivery_map, SettleOne(d)
    PROVE  /\ Job(d) \in Jobs /\ Ids' = Ids /\ delivery_map' \subseteq Ids'
           /\ \A e \in Ids : Job(e)' = Job(e)
           /\ \A j \in Jobs : Times(j)' = Times(j) /\ active'[j] = IF Working(j)' THEN 1 ELSE 0
           /\ \A j : Working(j)' <=> Working(j) /\ j # Job(d)
           /\ Working(Job(d)) /\ Job(d) \notin Listed
           /\ \A e, f \in delivery_map' : Job(e)' = Job(f)' => e = f
           /\ active' \in [Jobs -> Nat]
<1>1. /\ Job(d) \in Jobs /\ Ids' = Ids /\ delivery_map \subseteq Ids
      /\ \A e \in Ids : Job(e)' = Job(e)
      /\ \A j \in Jobs : Times(j)' = Times(j)
  BY SameTimes, Rows DEF Typed, SameJobs
<1>2. \A j : Working(j)' <=> Working(j) /\ j # Job(d)
  BY <1>1 DEF Working, SettleOne, Placed
<1>3. Working(Job(d)) /\ Job(d) \notin Listed
  BY DEF Working, Placed
<1>4. active' \in [Jobs -> Nat] /\ \A j \in Jobs : active'[j] = IF Working(j)' THEN 1 ELSE 0
  BY <1>1, <1>2, <1>3 DEF SettleOne, Placed, Typed, StoreTypeOK
<1>5. \A e, f \in delivery_map' : Job(e)' = Job(f)' => e = f
  BY <1>1 DEF SettleOne, Placed
<1> QED BY <1>1, <1>2, <1>3, <1>4, <1>5 DEF SettleOne

\* An acknowledged message is gone and counted as finished.
LEMMA AckStore ==
    ASSUME Typed, Born, Placed, Counted, SameJobs, NEW d \in delivery_map, UNCHANGED pushed,
           delivery_map' = delivery_map \ {d}, ackJob(Job(d))
    PROVE  Born' /\ Placed' /\ Counted' /\ StoreTypeOK' /\ finished' \subseteq Jobs
<1> DEFINE n == Job(d)
<1>1. SettleOne(d)
  BY DEF SettleOne, ackJob, lremActive
<1>2. /\ UNCHANGED <<waiting, attempts, delayed, dlq>> /\ record' = record \ {n}
      /\ finished' = finished \cup {n}
  BY DEF ackJob, deleteJob
<1>3. Listed' = Listed \cup {n}
  BY <1>2, PrimedLists DEF Listed
<1>4. /\ n \in Jobs /\ Working(n) /\ n \notin Listed /\ Ids' = Ids
      /\ \A e \in Ids : Job(e)' = Job(e)
      /\ \A j \in Jobs : Times(j)' = Times(j) /\ active'[j] = IF Working(j)' THEN 1 ELSE 0
      /\ \A j : Working(j)' <=> Working(j) /\ j # n
      /\ \A e, f \in delivery_map' : Job(e)' = Job(f)' => e = f
      /\ active' \in [Jobs -> Nat] /\ n <= pushed
  BY <1>1, Settle DEF Born, Typed
<1> HIDE DEF n
<1>5. Born'
  BY <1>2, <1>3, <1>4 DEF Born
<1>6. Placed'
  BY <1>2, <1>3, <1>4, PrimedLists DEF Placed, Listed
<1>7. Counted'
  BY <1>2, <1>4, PrimedLists DEF Counted
<1>8. StoreTypeOK' /\ finished' \subseteq Jobs
  BY <1>2, <1>4 DEF StoreTypeOK, Typed
<1> QED BY <1>5, <1>6, <1>7, <1>8

\* A failed message is delayed or dead, and its deliveries counted.
LEMMA NackStore ==
    ASSUME Typed, Born, Placed, Counted, SameJobs, NEW d \in delivery_map, UNCHANGED pushed,
           delivery_map' = delivery_map \ {d}, nackJob(Job(d))
    PROVE  Born' /\ Placed' /\ Counted' /\ StoreTypeOK' /\ finished' \subseteq Jobs
<1> DEFINE n == Job(d)
           m == attempts[n] + 1
<1>1. SettleOne(d)
  BY DEF SettleOne, nackJob, lremActive
<1>2. /\ n \in Jobs /\ Working(n) /\ n \notin Listed /\ Ids' = Ids
      /\ \A e \in Ids : Job(e)' = Job(e)
      /\ \A j \in Jobs : Times(j)' = Times(j) /\ active'[j] = IF Working(j)' THEN 1 ELSE 0
      /\ \A j : Working(j)' <=> Working(j) /\ j # n
      /\ \A e, f \in delivery_map' : Job(e)' = Job(f)' => e = f
      /\ active' \in [Jobs -> Nat] /\ n <= pushed
  BY <1>1, Settle DEF Born, Typed
<1>3. m \in Nat /\ UNCHANGED <<waiting, finished>>
  BY <1>2 DEF Typed, StoreTypeOK, nackJob
<1>4. \/ /\ record' = record \ {n} /\ dlq' = lpush(dlq, n) /\ UNCHANGED <<attempts, delayed>>
      \/ /\ m < Budget /\ record' = record \cup {n} /\ attempts' = [attempts EXCEPT ![n] = m]
         /\ delayed' = delayed \cup {n} /\ UNCHANGED dlq
  <2>1. ~is_exhausted(m) => m < Budget
    BY <1>3 DEF is_exhausted, Budget
  <2> QED BY <2>1 DEF nackJob, setJob, deleteJob
<1> HIDE DEF n, m
<1>5. CASE record' = record \ {n} /\ dlq' = lpush(dlq, n) /\ UNCHANGED <<attempts, delayed>>
  <2>1. dlq' \in Seq(Jobs) /\ Elems(dlq') = Elems(dlq) \cup {n}
    BY <1>2, <1>5, LpushFacts DEF Typed, StoreTypeOK
  <2>2. Listed' = Listed \cup {n}
    BY <1>3, <1>5, <2>1, PrimedLists DEF Listed
  <2>3. Born'
    BY <1>2, <2>2 DEF Born
  <2>4. Placed'
    BY <1>2, <1>3, <1>5, <2>1, <2>2, PrimedLists DEF Placed, Listed
  <2>5. Counted'
    BY <1>2, <1>3, <1>5, PrimedLists DEF Counted
  <2>6. StoreTypeOK' /\ finished' \subseteq Jobs
    BY <1>2, <1>3, <1>5, <2>1 DEF StoreTypeOK, Typed
  <2> QED BY <2>3, <2>4, <2>5, <2>6
<1>6. CASE /\ m < Budget /\ record' = record \cup {n} /\ attempts' = [attempts EXCEPT ![n] = m]
           /\ delayed' = delayed \cup {n} /\ UNCHANGED dlq
  <2>2. Listed' = Listed \cup {n}
    BY <1>3, <1>6, PrimedLists DEF Listed
  <2>3. Born'
    BY <1>2, <2>2 DEF Born
  <2>4. Placed'
    BY <1>2, <1>3, <1>6, <2>2, PrimedLists DEF Placed, Listed
  <2>5. Counted'
    <3>1. Times(n) = m /\ n \notin Elems(waiting)
      BY <1>2 DEF Counted, m, Listed
    <3>2. attempts'[n] = m /\ \A j \in Jobs : j # n => attempts'[j] = attempts[j]
      BY <1>2, <1>6 DEF Typed, StoreTypeOK
    <3> QED BY <1>2, <1>3, <1>6, <3>1, <3>2, PrimedLists DEF Counted
  <2>6. StoreTypeOK' /\ finished' \subseteq Jobs
    BY <1>2, <1>3, <1>6 DEF StoreTypeOK, Typed
  <2> QED BY <2>3, <2>4, <2>5, <2>6
<1> QED BY <1>4, <1>5, <1>6

(***************************************************************************)
(* Pollers, receivers, windows and channels.                                *)
(***************************************************************************)
TaskInv == Lives /\ Windows /\ Buffered /\ Owed

\* The windows of the next state, element by element.
LEMMA PrimedWindows ==
    \A g \in Gens : Elems(outstanding[g])' = Elems(outstanding'[g])
BY DEF Elems

\* A delivery is pending while a task, the channel or the poller's window of
\* its generation still has it.
LEMMA PendingIs ==
    \A d \in Ids : Pending(d) <=>
        \/ deliveries[d].at \in {"send", "call"}
        \/ deliveries[d].at \in {"chan", "hand"} /\ receiver[deliveries[d].gen] = "on"
        \/ poller[deliveries[d].gen] # "end" /\ d \in Elems(outstanding[deliveries[d].gen])
BY DEF Pending

\* The same of the next state.
LEMMA PendingIsThen ==
    \A d \in Ids' : Pending(d)' <=>
        \/ deliveries'[d].at \in {"send", "call"}
        \/ deliveries'[d].at \in {"chan", "hand"} /\ receiver'[deliveries'[d].gen] = "on"
        \/ poller'[deliveries'[d].gen] # "end" /\ d \in Elems(outstanding'[deliveries'[d].gen])
BY DEF Pending, Elems

\* There are finitely many deliveries in one place.
LEMMA FiniteAt ==
    ASSUME deliveries \in Seq(Delivery), NEW g, NEW place
    PROVE  IsFiniteSet(At(g, place)) /\ Cardinality(At(g, place)) \in Nat
<1>1. IsFiniteSet(Ids)
  <2>1. 1 \in Int /\ Len(deliveries) \in Int
    BY Rows
  <2> QED BY <2>1, FS_Interval DEF Ids
<1>2. At(g, place) \subseteq Ids
  BY DEF At
<1> QED BY <1>1, <1>2, FS_Subset, FS_CardinalityType

(* The deliveries, the windows and the tasks stay as they are. *)
LEMMA TasksSame ==
    ASSUME Typed, TaskInv, UNCHANGED <<taskVars, stranded, started>>
    PROVE  TaskInv'
<1> USE DEF taskVars
<1>1. Ids' = Ids /\ delivery_map \subseteq Ids
  BY DEF Ids, Typed
<1>2. Lives'
  BY <1>1 DEF TaskInv, Lives, Typed
<1>3. \A g \in Gens : outstanding'[g] = outstanding[g] /\ Elems(outstanding[g])' = Elems(outstanding[g])
  BY PrimedWindows
<1>4. \A d \in Ids : deliveries[d].gen \in Gens
  BY Rows DEF Typed
<1>5. Windows' /\ Buffered'
  BY <1>1, <1>3, <1>4 DEF TaskInv, Windows, Buffered
<1>6. \A d \in Ids : Pending(d)' <=> Pending(d)
  BY <1>1, <1>3, <1>4, PendingIs, PendingIsThen
<1>7. \A d \in Ids : Job(d)' = Job(d)
  BY DEF Job
<1>8. Owed'
  BY <1>1, <1>6, <1>7 DEF TaskInv, Owed
<1> QED BY <1>2, <1>5, <1>8 DEF TaskInv

(* A poller that is not sending goes on. *)
LEMMA PollerMoves ==
    ASSUME Typed, TaskInv, UNCHANGED <<receiver, outstanding, deliveries, delivery_map, stranded, started>>,
           NEW g \in Gens, NEW p \in {"check", "move", "drain", "end"},
           poller' = [poller EXCEPT ![g] = p], poller[g] \notin {"off", "send"},
           receiver[g] = "on" => p \in {"check", "move"},
           p = "end" => outstanding[g] = <<>>
    PROVE  TaskInv'
<1>1. Ids' = Ids /\ delivery_map \subseteq Ids /\ \A d \in Ids : Job(d)' = Job(d)
  BY DEF Ids, Typed, Job
<1>3. \A h \in Gens : outstanding'[h] = outstanding[h] /\ Elems(outstanding[h])' = Elems(outstanding[h])
  BY PrimedWindows
<1>4. \A d \in Ids : deliveries[d].gen \in Gens
  BY Rows DEF Typed
<1>5. poller'[g] = p /\ \A h \in Gens : h # g => poller'[h] = poller[h]
  BY DEF Typed
<1>6. Lives'
  BY <1>1, <1>5 DEF TaskInv, Lives, Typed
<1>7. Windows'
  BY <1>1, <1>3, <1>4, <1>5 DEF TaskInv, Windows
<1>8. Buffered'
  BY <1>1, <1>3, <1>4 DEF TaskInv, Buffered
<1>9. ASSUME p = "end" PROVE Elems(outstanding[g]) = {}
  BY <1>9 DEF Elems
<1>10. \A d \in Ids : Pending(d) => Pending(d)'
  BY <1>1, <1>3, <1>4, <1>5, <1>9, PendingIs, PendingIsThen
<1>11. Owed'
  BY <1>1, <1>10 DEF TaskInv, Owed
<1> QED BY <1>6, <1>7, <1>8, <1>11 DEF TaskInv

\* A new generation starts with no delivery.
LEMMA SpawnTasks ==
    ASSUME Typed, TaskInv, Spawn
    PROVE  TaskInv' /\ started' \in 0 .. MaxGens /\ consumers' \in 0 .. started'
<1> DEFINE s == started + 1
<1>1. /\ s \in Gens /\ started' = s /\ started \in Nat /\ s > started
      /\ started' \in 0 .. MaxGens /\ consumers' \in 0 .. started'
  BY DEF Spawn, Typed, Gens
<1>2. /\ poller'[s] = "check" /\ receiver'[s] = "on"
      /\ \A g \in Gens : g # s => poller'[g] = poller[g] /\ receiver'[g] = receiver[g]
      /\ UNCHANGED <<outstanding, deliveries, delivery_map, stranded>>
  BY <1>1 DEF Spawn, Typed, history
<1> HIDE DEF s
<1>3. Ids' = Ids /\ delivery_map \subseteq Ids /\ \A d \in Ids : Job(d)' = Job(d)
  BY <1>2 DEF Ids, Typed, Job
<1>4. \A d \in Ids : deliveries[d].gen \in Gens /\ deliveries[d].gen # s
  BY <1>1, Rows DEF Typed, TaskInv, Lives, Gens
<1>5. \A g \in Gens : outstanding'[g] = outstanding[g] /\ Elems(outstanding[g])' = Elems(outstanding[g])
  BY <1>2, PrimedWindows
<1>7. Lives'
  <2>1. \A g \in Gens : g <= started' <=> g <= started \/ g = s
    BY <1>1 DEF Gens, s
  <2>2. \A d \in Ids : deliveries[d].gen <= started'
    BY <1>1, <1>4, <2>1 DEF TaskInv, Lives
  <2>3. \A g \in Gens : g > started' <=> ~(g <= started')
    BY <1>1 DEF Gens
  <2>4. \A g \in Gens : g > started <=> ~(g <= started)
    BY <1>1 DEF Gens
  <2> QED BY <1>2, <1>3, <2>1, <2>2, <2>3, <2>4 DEF TaskInv, Lives
<1>8. Windows' /\ Buffered'
  BY <1>2, <1>3, <1>4, <1>5 DEF TaskInv, Windows, Buffered
<1>9. \A d \in Ids : Pending(d) => Pending(d)'
  BY <1>2, <1>3, <1>4, <1>5, PendingIs, PendingIsThen
<1>10. Owed'
  BY <1>2, <1>3, <1>4, <1>9 DEF TaskInv, Owed
<1> QED BY <1>1, <1>7, <1>8, <1>10 DEF TaskInv

(* Aborting a receiver: its poller will nack what the window has, and what  *)
(* is in the channel is in the window.                                      *)
LEMMA AbortTasks ==
    ASSUME Typed, TaskInv, NEW g \in Gens, g <= started, abort(g), receiver[g] = "on",
           UNCHANGED <<poller, outstanding, delivery_map, started>>
    PROVE  TaskInv' /\ SameJobs /\ stranded' \subseteq Jobs
           /\ receiver' \in [Gens -> {"off", "on", "aborted"}]
<1>1. /\ SameJobs
      /\ \A d \in Ids :
            deliveries'[d].at = IF deliveries[d].gen = g /\ deliveries[d].at \in {"chan", "hand"}
                                THEN "dropped" ELSE deliveries[d].at
  BY Aborted DEF Typed
<1>2. /\ Ids' = Ids /\ delivery_map \subseteq Ids
      /\ \A d \in Ids : /\ Job(d)' = Job(d) /\ deliveries'[d].gen = deliveries[d].gen
                        /\ Job(d) \in Jobs /\ deliveries[d].gen \in Gens
  BY <1>1, Rows DEF SameJobs, Job, Typed
<1>3. /\ receiver'[g] = "aborted" /\ \A h \in Gens : h # g => receiver'[h] = receiver[h]
      /\ receiver' \in [Gens -> {"off", "on", "aborted"}]
  BY DEF abort, Typed
<1>4. /\ stranded \subseteq stranded' /\ stranded' \subseteq Jobs
      /\ \A d \in Ids : deliveries[d].gen = g /\ deliveries[d].at = "hand"
                        /\ d \notin Elems(outstanding[g]) => Job(d) \in stranded'
  BY <1>2 DEF abort, At, Typed
<1>5. \A h \in Gens : outstanding'[h] = outstanding[h] /\ Elems(outstanding[h])' = Elems(outstanding[h])
  BY PrimedWindows
<1>7. Lives'
  BY <1>2, <1>3 DEF TaskInv, Lives
<1>8. Windows'
  <2>1. \A d \in Ids : deliveries'[d].at = "send" => deliveries[d].at = "send"
    BY <1>1
  <2>2. \A h \in Gens : \A d \in Elems(outstanding[h]) : d \in Ids
    BY ElemsType DEF Typed
  <2> QED BY <1>2, <1>5, <2>1, <2>2 DEF TaskInv, Windows
<1>9. Buffered'
  <2>1. \A d \in Ids : deliveries[d].at \in {"chan", "send"} /\ deliveries[d].gen # g
                       => deliveries'[d].at = deliveries[d].at
    BY <1>1
  <2>2. \A d \in Ids : deliveries'[d].at = "chan" => deliveries[d].at = "chan" /\ deliveries[d].gen # g
    BY <1>1
  <2> QED BY <1>2, <1>3, <1>5, <2>1, <2>2 DEF TaskInv, Buffered
<1>10. Owed'
  <2>1. \A d \in Ids : deliveries'[d].at = "end" => deliveries[d].at = "end"
    BY <1>1
  <2>2. \A d \in Ids : deliveries'[d].at = "dropped" => receiver'[deliveries'[d].gen] = "aborted"
    BY <1>1, <1>2, <1>3 DEF TaskInv, Owed
  <2>3. ASSUME NEW d \in delivery_map, Pending(d) PROVE Pending(d)' \/ Job(d) \in stranded'
    <3>1. CASE deliveries[d].gen # g
      BY <1>1, <1>2, <1>3, <1>5, <2>3, <3>1, PendingIs, PendingIsThen
    <3>2. CASE deliveries[d].gen = g
      <4>1. poller[g] # "end"
        BY DEF TaskInv, Lives
      <4>2. deliveries[d].at \in {"send", "call"} => Pending(d)'
        BY <1>1, <1>2, PendingIsThen
      <4>3. d \in Elems(outstanding[g]) => Pending(d)'
        BY <1>2, <1>5, <3>2, <4>1, PendingIsThen
      <4>4. deliveries[d].at = "chan" => d \in Elems(outstanding[g])
        BY <1>2, <3>2 DEF TaskInv, Buffered
      <4> QED BY <1>2, <1>4, <2>3, <3>2, <4>2, <4>3, <4>4, PendingIs
    <3> QED BY <3>1, <3>2
  <2> QED BY <1>2, <1>4, <2>1, <2>2, <2>3 DEF TaskInv, Owed
<1> QED BY <1>1, <1>3, <1>4, <1>7, <1>8, <1>9, <1>10 DEF TaskInv

(* A window that gets one id more at its end. *)
LEMMA AppendWindow ==
    ASSUME NEW S, NEW s \in Seq(S), NEW x
    PROVE  /\ Append(s, x) \in Seq(S \cup {x}) /\ Elems(Append(s, x)) = Elems(s) \cup {x}
           /\ Len(Append(s, x)) = Len(s) + 1 /\ Append(s, x)[Len(s) + 1] = x
           /\ \A i \in 1 .. Len(s) : Append(s, x)[i] = s[i]
           /\ \A i \in 1 .. Len(s) + 1 : i = Len(s) + 1 \/ i \in 1 .. Len(s)
<1>1. /\ Append(s, x) \in Seq(S \cup {x}) /\ Len(Append(s, x)) = Len(s) + 1
      /\ Append(s, x)[Len(s) + 1] = x /\ Len(s) \in Nat
      /\ \A i \in 1 .. Len(s) : Append(s, x)[i] = s[i]
  OBVIOUS
<1>2. \A i \in 1 .. Len(s) + 1 : i = Len(s) + 1 \/ i \in 1 .. Len(s)
  BY <1>1
<1>3. 1 .. Len(s) \subseteq 1 .. Len(s) + 1 /\ Len(s) + 1 \in 1 .. Len(s) + 1
  BY <1>1
<1> DEFINE t == Append(s, x)
           n == Len(s) + 1
<1> HIDE DEF t
<1>4. Len(t) = n /\ t[n] = x /\ \A i \in 1 .. Len(s) : t[i] = s[i]
  BY <1>1 DEF t
<1> HIDE DEF n
<1>5. \A i \in 1 .. n : i = n \/ i \in 1 .. Len(s)
  BY <1>2 DEF n
<1>6. 1 .. Len(s) \subseteq 1 .. n /\ n \in 1 .. n
  BY <1>3 DEF n
<1>7. Elems(t) = Elems(s) \cup {x}
  BY <1>4, <1>5, <1>6 DEF Elems
<1> QED BY <1>1, <1>2, <1>7 DEF t

\* A popped message is a pending delivery of its generation.
LEMMA PopTasks ==
    ASSUME Typed, TaskInv, NEW g \in Gens, Pop(g)
    PROVE  TaskInv' /\ deliveries' \in Seq(Delivery) /\ outstanding' \in [Gens -> Seq(Ids')]
<1> DEFINE row == [job |-> back(waiting), gen |-> g, at |-> "send"]
           new == Len(deliveries')
<1>1. row \in Delivery /\ row.gen = g /\ row.at = "send" /\ deliveries' = Append(deliveries, row)
  BY RpopFacts DEF Pop, Typed, StoreTypeOK, Delivery
<1> HIDE DEF row
<1>2. /\ deliveries' \in Seq(Delivery) /\ Ids' = Ids \cup {new} /\ new \notin Ids /\ new \in Nat
      /\ \A d \in Ids : /\ d < new /\ deliveries'[d] = deliveries[d] /\ Job(d)' = Job(d)
                        /\ deliveries[d].gen \in Gens /\ d \in Nat
      /\ deliveries'[new].gen = g /\ deliveries'[new].at = "send"
  BY <1>1, Appended, Rows DEF Typed, Job
<1>3. /\ delivery_map' = delivery_map \cup {new} /\ delivery_map \subseteq Ids
      /\ outstanding' = [outstanding EXCEPT ![g] = Append(outstanding[g], new)]
      /\ poller' = [poller EXCEPT ![g] = "send"] /\ poller[g] = "move"
      /\ UNCHANGED <<receiver, stranded, started>>
  BY DEF Pop, Typed, fnVars, history
<1> HIDE DEF new
<1>4. /\ poller'[g] = "send" /\ \A h \in Gens : h # g => poller'[h] = poller[h]
      /\ outstanding'[g] = Append(outstanding[g], new)
      /\ \A h \in Gens : h # g => outstanding'[h] = outstanding[h]
      /\ \A h \in Gens : outstanding[h] \in Seq(Ids)
  BY <1>3 DEF Typed
<1>5. /\ outstanding'[g] \in Seq(Ids') /\ Elems(outstanding'[g]) = Elems(outstanding[g]) \cup {new}
      /\ Len(outstanding'[g]) = Len(outstanding[g]) + 1 /\ outstanding'[g][Len(outstanding[g]) + 1] = new
      /\ \A i \in 1 .. Len(outstanding[g]) : outstanding'[g][i] = outstanding[g][i]
      /\ \A i \in 1 .. Len(outstanding[g]) + 1 : i = Len(outstanding[g]) + 1 \/ i \in 1 .. Len(outstanding[g])
      /\ Len(outstanding[g]) \in Nat
  <2>1. outstanding[g] \in Seq(Ids) /\ Ids' = Ids \cup {new}
    BY <1>2, <1>4
  <2>2. Len(outstanding[g]) \in Nat
    BY <2>1
  <2>3. /\ Append(outstanding[g], new) \in Seq(Ids \cup {new})
        /\ Elems(Append(outstanding[g], new)) = Elems(outstanding[g]) \cup {new}
    <3> DEFINE w == outstanding[g]
    <3>1. w \in Seq(Ids)
      BY <2>1
    <3> HIDE DEF w
    <3>2. Elems(Append(w, new)) = Elems(w) \cup {new}
      <4>1. w \in Seq(Ids \cup {new}) /\ new \in Ids \cup {new}
        BY <3>1
      <4>2. Elems(rpush(w, new)) = Elems(w) \cup {new}
        BY <4>1, RpushFacts
      <4> QED BY <4>2, Zenon DEF rpush
    <3>3. Append(w, new) \in Seq(Ids \cup {new})
      BY <3>1
    <3> QED BY <3>2, <3>3 DEF w
  <2>4. /\ Len(Append(outstanding[g], new)) = Len(outstanding[g]) + 1
        /\ Append(outstanding[g], new)[Len(outstanding[g]) + 1] = new
        /\ \A i \in 1 .. Len(outstanding[g]) : Append(outstanding[g], new)[i] = outstanding[g][i]
    BY <2>1, AppendWindow
  <2>5. \A i \in 1 .. Len(outstanding[g]) + 1 : i = Len(outstanding[g]) + 1 \/ i \in 1 .. Len(outstanding[g])
    BY <2>2
  <2> QED BY <1>4, <2>1, <2>2, <2>3, <2>4, <2>5, Zenon
<1>6. \A h \in Gens : outstanding'[h] \in Seq(Ids')
  <2>1. Seq(Ids) \subseteq Seq(Ids')
    BY <1>2
  <2> QED BY <1>4, <1>5, <2>1
<1>7. outstanding' \in [Gens -> Seq(Ids')]
  BY <1>3, <1>6 DEF Typed
<1>8. /\ \A h \in Gens : h # g => Elems(outstanding[h])' = Elems(outstanding[h])
      /\ Elems(outstanding[g])' = Elems(outstanding[g]) \cup {new}
      /\ \A h \in Gens : Elems(outstanding[h]) \subseteq Ids
  BY <1>4, <1>5, PrimedWindows, ElemsType
<1>w. /\ \A h \in Gens : Elems(outstanding[h]) \subseteq Elems(outstanding'[h])
      /\ new \in Elems(outstanding'[g])
  BY <1>4, <1>5
<1>p. poller'[g] = "send" /\ \A h \in Gens : h # g => poller'[h] = poller[h]
  BY <1>4
<1>10. Lives'
  <2>1. g <= started
    <3>1. g > started \/ g <= started
      BY DEF Typed, Gens
    <3> QED BY <1>3, <3>1 DEF TaskInv, Lives
  <2>2. \A d \in Ids' : deliveries'[d].gen <= started'
    BY <1>2, <1>3, <2>1 DEF TaskInv, Lives
  <2>3. \A h \in Gens : h = g => ~(h > started)
    BY <2>1 DEF Typed, Gens
  <2> QED BY <1>3, <1>4, <2>1, <2>2, <2>3 DEF TaskInv, Lives
<1>11. Windows'
  <2>1. ASSUME NEW h \in Gens, NEW i \in 1 .. Len(outstanding'[h]), NEW k \in 1 .. Len(outstanding'[h]), i < k
        PROVE  outstanding'[h][i] < outstanding'[h][k]
    <3>1. CASE h # g
      BY <1>4, <2>1, <3>1 DEF TaskInv, Windows
    <3>2. CASE h = g /\ k \in 1 .. Len(outstanding[g])
      BY <1>5, <2>1, <3>2 DEF TaskInv, Windows
    <3>3. CASE h = g /\ k = Len(outstanding[g]) + 1
      <4>1. i \in 1 .. Len(outstanding[g])
        BY <1>5, <2>1, <3>3
      <4>2. outstanding[g][i] \in Ids
        BY <1>4, <4>1
      <4> QED BY <1>2, <1>5, <3>3, <4>1, <4>2
    <3> QED BY <1>5, <3>1, <3>2, <3>3
  <2>2. \A h \in Gens : \A d \in Elems(outstanding[h])' : deliveries'[d].gen = h
    BY <1>2, <1>8 DEF TaskInv, Windows
  <2>3. \A d \in Ids : deliveries[d].at = "send" => deliveries[d].gen # g
    BY <1>3 DEF TaskInv, Windows
  <2>4. \A d \in Ids' : deliveries'[d].at = "send" =>
           /\ poller'[deliveries'[d].gen] = "send"
           /\ d \in Elems(outstanding'[deliveries'[d].gen])
           /\ \A e \in Ids' : deliveries'[e].gen = deliveries'[d].gen => e <= d
    <3>1. ASSUME NEW d \in Ids', deliveries'[d].at = "send"
          PROVE  poller'[deliveries'[d].gen] = "send" /\ d \in Elems(outstanding'[deliveries'[d].gen])
      <4>1. CASE d = new
        BY <1>2, <1>p, <1>w, <4>1
      <4>2. CASE d \in Ids
        <5>1. /\ deliveries'[d] = deliveries[d] /\ deliveries[d].gen \in Gens /\ deliveries[d].gen # g
              /\ poller[deliveries[d].gen] = "send" /\ d \in Elems(outstanding[deliveries[d].gen])
          BY <1>2, <2>3, <3>1, <4>2 DEF TaskInv, Windows
        <5> QED BY <1>p, <1>w, <5>1
      <4> QED BY <1>2, <4>1, <4>2
    <3>2. ASSUME NEW d \in Ids', NEW e \in Ids', deliveries'[d].at = "send",
                 deliveries'[e].gen = deliveries'[d].gen
          PROVE  e <= d
      BY <1>2, <2>3, <3>2 DEF TaskInv, Windows
    <3> QED BY <3>1, <3>2
  <2>5. \A d \in Ids' : Elems(outstanding[deliveries[d].gen])' = Elems(outstanding'[deliveries'[d].gen])
    BY DEF Elems
  <2> QED BY <2>1, <2>2, <2>4, <2>5 DEF Windows
<1>12. Buffered'
  <2> SUFFICES ASSUME NEW d \in Ids', deliveries'[d].at = "chan", receiver'[deliveries'[d].gen] = "on"
               PROVE  /\ d \in Elems(outstanding'[deliveries'[d].gen])
                      /\ \A e \in Ids' : deliveries'[e].gen = deliveries'[d].gen /\ e > d =>
                            deliveries'[e].at \in {"chan", "send"}
    <3>1. \A d \in Ids' : Elems(outstanding[deliveries[d].gen])' = Elems(outstanding'[deliveries'[d].gen])
      BY DEF Elems
    <3> QED BY <3>1 DEF Buffered
  <2>1. d \in Ids
    BY <1>2
  <2> QED BY <1>2, <1>3, <1>w, <2>1 DEF TaskInv, Buffered
<1>13. Owed'
  <2>1. \A d \in Ids : Pending(d) => Pending(d)'
    <3> SUFFICES ASSUME NEW d \in Ids, Pending(d) PROVE Pending(d)'
      OBVIOUS
    <3>1. /\ d \in Ids' /\ deliveries'[d] = deliveries[d] /\ deliveries[d].gen \in Gens /\ receiver' = receiver
          /\ poller[deliveries[d].gen] # "end" => poller'[deliveries[d].gen] # "end"
          /\ Elems(outstanding[deliveries[d].gen]) \subseteq Elems(outstanding'[deliveries[d].gen])
      BY <1>2, <1>3, <1>p, <1>w
    <3>2. \/ deliveries[d].at \in {"send", "call"}
          \/ deliveries[d].at \in {"chan", "hand"} /\ receiver[deliveries[d].gen] = "on"
          \/ poller[deliveries[d].gen] # "end" /\ d \in Elems(outstanding[deliveries[d].gen])
      BY PendingIs
    <3> QED BY <3>1, <3>2, PendingIsThen
  <2>2. \A d \in Ids' : d = new => Pending(d)'
    BY <1>2, PendingIsThen
  <2>3. \A d \in delivery_map : Job(d)' = Job(d) /\ d \in Ids /\ d # new
    BY <1>2, <1>3
  <2>4. \A d \in delivery_map' : d = new \/ d \in delivery_map
    BY <1>3
  <2> QED BY <1>2, <1>3, <2>1, <2>2, <2>3, <2>4 DEF TaskInv, Owed
<1> QED BY <1>2, <1>7, <1>10, <1>11, <1>12, <1>13 DEF TaskInv

(* A window of increasing ids has as many as its length. *)
LEMMA WindowSize ==
    ASSUME NEW s \in Seq(Nat), \A i, k \in 1 .. Len(s) : i < k => s[i] < s[k]
    PROVE  IsFiniteSet(Elems(s)) /\ Cardinality(Elems(s)) = Len(s)
<1> DEFINE D == 1 .. Len(s)
<1>1. Len(s) \in Nat /\ DOMAIN s = D /\ s = [i \in D |-> s[i]] /\ \A i \in D : s[i] \in Nat
  OBVIOUS
<1>2. IsFiniteSet(D) /\ Cardinality(D) = Len(s)
  <2>1. 1 \in Int /\ Len(s) \in Int
    BY <1>1
  <2>2. (IF 1 > Len(s) THEN 0 ELSE Len(s) - 1 + 1) = Len(s)
    BY <1>1
  <2> QED BY <2>1, <2>2, FS_Interval, Zenon
<1>3. Elems(s) = {s[i] : i \in D}
  BY DEF Elems
<1>4. \A i, k \in D : s[i] = s[k] => i = k
  <2> SUFFICES ASSUME NEW i \in D, NEW k \in D, s[i] = s[k] PROVE i = k
    OBVIOUS
  <2>1. ~(i < k) /\ ~(k < i)
    BY <1>1
  <2> QED BY <2>1
<1> HIDE DEF D
<1>5. s \in Surjection(D, Elems(s))
  BY <1>1, <1>3 DEF Surjection
<1>6. s \in Injection(D, Elems(s))
  <2>1. s \in [D -> Elems(s)]
    BY <1>5 DEF Surjection
  <2> QED BY <2>1, <1>4, Zenon DEF Injection, IsInjective
<1> QED BY <1>2, <1>5, <1>6, FS_Surjection

(* The id a send trims from the window has left the channel. *)
LEMMA TrimmedIsOut ==
    ASSUME Typed, TaskInv, NEW g \in Gens, receiver[g] = "on", Len(outstanding[g]) > prefetch,
           Cardinality(At(g, "chan")) < prefetch, NEW d \in At(g, "send")
    PROVE  deliveries[Head(outstanding[g])].at \notin {"chan", "send"}
<1> DEFINE s == outstanding[g]
<1>1. /\ s \in Seq(Ids) /\ s \in Seq(Nat) /\ Len(s) \in Nat /\ Len(s) > 1 /\ prefetch \in Nat \ {0}
      /\ \A i, k \in 1 .. Len(s) : i < k => s[i] < s[k]
  <2>1. Ids \subseteq Nat
    BY DEF Ids
  <2>2. s \in Seq(Ids)
    BY DEF Typed
  <2>3. s \in Seq(Nat) /\ Len(s) \in Nat
    <3> HIDE DEF s
    <3>1. Len(s) \in Nat /\ \A i \in 1 .. Len(s) : s[i] \in Nat
      <4>1. Len(s) \in Nat /\ \A i \in 1 .. Len(s) : s[i] \in Ids
        BY <2>2
      <4>2. \A x : x \in Ids => x \in Nat
        BY <2>1
      <4> QED BY <4>1, <4>2, Zenon
    <3>2. s = [i \in 1 .. Len(s) |-> s[i]]
      BY <2>2
    <3> QED BY <3>1, <3>2
  <2> QED BY <2>2, <2>3, PrefetchType DEF TaskInv, Windows
<1>2. IsFiniteSet(Elems(s)) /\ Cardinality(Elems(s)) = Len(s)
  BY <1>1, WindowSize
<1>3. /\ d \in Ids /\ deliveries[d].gen = g /\ deliveries[d].at = "send" /\ d \in Elems(s)
      /\ \A e \in Ids : deliveries[e].gen = g => e <= d
  BY DEF At, TaskInv, Windows
<1>4. Head(s) = s[1] /\ \A e \in Elems(s) : e \in Ids /\ deliveries[e].gen = g /\ (e = s[1] \/ e > s[1])
  <2>1. \A i \in 1 .. Len(s) : s[i] \in Ids /\ s[i] \in Nat /\ (i = 1 \/ 1 < i)
    BY <1>1
  <2>2. 1 \in 1 .. Len(s)
    BY <1>1
  <2>3. \A i \in 1 .. Len(s) : s[i] = s[1] \/ s[i] > s[1]
    BY <1>1, <2>1, <2>2
  <2>4. Head(s) = s[1]
    BY <1>1
  <2>5. \A e \in Elems(s) : deliveries[e].gen = g
    BY DEF TaskInv, Windows
  <2> QED BY <2>1, <2>3, <2>4, <2>5 DEF Elems
<1> HIDE DEF s
<1>5. ASSUME deliveries[s[1]].at \in {"chan", "send"} PROVE Elems(s) \ {d} \subseteq At(g, "chan")
  <2> SUFFICES ASSUME NEW e \in Elems(s), e # d PROVE e \in At(g, "chan")
    OBVIOUS
  <2>1. s[1] \in Elems(s) /\ s[1] \in Ids /\ deliveries[s[1]].gen = g
    BY <1>1, <1>4 DEF Elems
  <2>2. deliveries[s[1]].at = "chan"
    <3> SUFFICES ASSUME deliveries[s[1]].at = "send" PROVE FALSE
      BY <1>5
    <3>1. s[1] = d
      <4>1. s[1] <= d /\ d <= s[1] /\ s[1] \in Nat /\ d \in Nat
        BY <1>3, <2>1 DEF TaskInv, Windows, Ids
      <4> QED BY <4>1
    <3>2. e > d /\ e <= d /\ e \in Ids /\ d \in Ids
      BY <1>3, <1>4, <3>1
    <3> QED BY <3>2 DEF Ids
  <2>3. deliveries[e].at \in {"chan", "send"}
    BY <1>4, <2>1, <2>2 DEF TaskInv, Buffered
  <2>4. ASSUME deliveries[e].at = "send" PROVE FALSE
    <3>1. e \in Nat /\ d \in Nat /\ e <= d /\ d <= e
      BY <1>3, <1>4, <2>4 DEF TaskInv, Windows, Ids
    <3> QED BY <3>1
  <2> QED BY <1>4, <2>3, <2>4 DEF At
<1>6. Cardinality(Elems(s) \ {d}) = Len(s) - 1
  BY <1>2, <1>3, FS_RemoveElement
<1>7. IsFiniteSet(At(g, "chan")) /\ Cardinality(At(g, "chan")) \in Nat
  BY FiniteAt DEF Typed
<1>8. Elems(s) \ {d} \subseteq At(g, "chan") => Len(s) - 1 <= Cardinality(At(g, "chan"))
  BY <1>6, <1>7, FS_Subset
<1>9. Len(s) > prefetch
  BY DEF s
<1>10. ~(Elems(s) \ {d} \subseteq At(g, "chan"))
  BY <1>1, <1>7, <1>8, <1>9
<1> QED BY <1>4, <1>5, <1>10 DEF s

\* What is left of an increasing list is increasing.
LEMMA TailOrder ==
    ASSUME NEW s \in Seq(Nat), s # <<>>, \A i, k \in 1 .. Len(s) : i < k => s[i] < s[k]
    PROVE  \A i, k \in 1 .. Len(Tail(s)) : i < k => Tail(s)[i] < Tail(s)[k]
<1>1. /\ Len(s) \in Nat \ {0} /\ Len(Tail(s)) = Len(s) - 1
      /\ \A i \in 1 .. Len(Tail(s)) : Tail(s)[i] = s[i + 1] /\ i + 1 \in 1 .. Len(s)
  BY EmptySeq
<1> HIDE DEF Tail
<1> QED BY <1>1

\* The window of a generation lists deliveries.
LEMMA WindowType ==
    ASSUME Typed, NEW g \in Gens
    PROVE  outstanding[g] \in Seq(Ids) /\ outstanding[g] \in Seq(Nat) /\ Elems(outstanding[g]) \subseteq Ids
<1> DEFINE s == outstanding[g]
<1>1. s \in Seq(Ids)
  BY DEF Typed
<1> HIDE DEF s
<1>2. Len(s) \in Nat /\ s = [i \in 1 .. Len(s) |-> s[i]] /\ \A i \in 1 .. Len(s) : s[i] \in Ids
  BY <1>1
<1>3. \A x : x \in Ids => x \in Nat
  BY DEF Ids
<1>4. \A i \in 1 .. Len(s) : s[i] \in Nat
  BY <1>2, <1>3, Zenon
<1>5. s \in Seq(Nat)
  BY <1>2, <1>4
<1> QED BY <1>1, <1>5, ElemsType DEF s

(* What a window loses at its front. *)
LEMMA Trimmed ==
    ASSUME Typed, TaskInv, NEW g \in Gens, outstanding[g] # <<>>
    PROVE  LET s == outstanding[g] IN
           /\ Tail(s) \in Seq(Ids) /\ Head(s) \in Ids
           /\ Elems(s) = Elems(Tail(s)) \cup {Head(s)}
           /\ \A i, k \in 1 .. Len(Tail(s)) : i < k => Tail(s)[i] < Tail(s)[k]
<1> DEFINE s == outstanding[g]
<1>1. s \in Seq(Ids) /\ s \in Seq(Nat) /\ s # <<>>
  BY WindowType
<1>2. \A i, k \in 1 .. Len(s) : i < k => s[i] < s[k]
  BY DEF TaskInv, Windows
<1> HIDE DEF s
<1>3. \A i, k \in 1 .. Len(Tail(s)) : i < k => Tail(s)[i] < Tail(s)[k]
  BY <1>1, <1>2, TailOrder
<1>4. Tail(s) \in Seq(Ids) /\ Head(s) \in Ids /\ Elems(s) = Elems(Tail(s)) \cup {Head(s)}
  BY <1>1, TailFacts
<1> QED BY <1>3, <1>4, Zenon DEF s

(* A step that gives one generation a shorter window. *)
Shortened(g) ==
    /\ outstanding' \in [Gens -> Seq(Ids)]
    /\ \A h \in Gens : h # g => outstanding'[h] = outstanding[h]
    /\ Elems(outstanding'[g]) \subseteq Elems(outstanding[g])
    /\ \A i, k \in 1 .. Len(outstanding'[g]) : i < k => outstanding'[g][i] < outstanding'[g][k]

\* A trimmed window is still in order and of its generation.
LEMMA ShortenedWindows ==
    ASSUME Typed, TaskInv, SameJobs, NEW g \in Gens, Shortened(g)
    PROVE  /\ \A h \in Gens :
                /\ \A i, k \in 1 .. Len(outstanding'[h]) : i < k => outstanding'[h][i] < outstanding'[h][k]
                /\ \A d \in Elems(outstanding'[h]) : deliveries'[d].gen = h
           /\ outstanding' \in [Gens -> Seq(Ids')]
<1>1. Ids' = Ids /\ \A d \in Ids : deliveries'[d].gen = deliveries[d].gen
  BY DEF SameJobs
<1>2. \A h \in Gens : Elems(outstanding[h]) \subseteq Ids
  BY WindowType
<1>3. \A h \in Gens : \A d \in Elems(outstanding[h]) : deliveries'[d].gen = h
  BY <1>1, <1>2 DEF TaskInv, Windows
<1>4. \A h \in Gens : \A d \in Elems(outstanding'[h]) : deliveries'[d].gen = h
  BY <1>3 DEF Shortened
<1>5. ASSUME NEW h \in Gens
      PROVE  \A i, k \in 1 .. Len(outstanding'[h]) : i < k => outstanding'[h][i] < outstanding'[h][k]
  <2>1. CASE h = g
    BY <2>1 DEF Shortened
  <2>2. CASE h # g
    BY <2>2 DEF Shortened, TaskInv, Windows
  <2> QED BY <2>1, <2>2
<1> QED BY <1>1, <1>4, <1>5 DEF Shortened

\* A delivery that goes into the channel is still pending, and what the
\* window forgets has left the channel.
LEMMA SendTasks ==
    ASSUME Typed, TaskInv, NEW g \in Gens, Send(g)
    PROVE  TaskInv' /\ SameJobs /\ outstanding' \in [Gens -> Seq(Ids')]
<1> DEFINE w == outstanding[g]
<1>0. receiver[g] = "on"
  <2>1. g > started \/ g <= started
    BY DEF Typed, Gens
  <2> QED BY <2>1 DEF Send, TaskInv, Lives, Typed
<1>1. PICK d \in At(g, "send") : move(d, "chan")
  BY DEF Send
<1>2. /\ d \in Ids /\ deliveries[d].gen = g /\ deliveries[d].at = "send" /\ d \in Elems(w)
      /\ \A e \in Ids : deliveries[e].gen = g => e <= d
  BY <1>1 DEF At, TaskInv, Windows
<1>3. /\ SameJobs /\ deliveries'[d].at = "chan"
      /\ \A e \in Ids : e # d => deliveries'[e].at = deliveries[e].at
  BY <1>1, <1>2, Moved DEF Typed
<1>4. /\ Ids' = Ids /\ deliveries' \in Seq(Delivery) /\ delivery_map \subseteq Ids
      /\ \A e \in Ids : /\ Job(e)' = Job(e) /\ deliveries'[e].gen = deliveries[e].gen
                        /\ deliveries[e].gen \in Gens /\ e \in Nat
  BY <1>3, Rows DEF SameJobs, Job, Typed
<1>5. /\ UNCHANGED <<receiver, delivery_map, stranded, started>>
      /\ poller' = [poller EXCEPT ![g] = "check"] /\ outstanding' = [outstanding EXCEPT ![g] = trim(w)]
  BY DEF Send, fnVars, history
<1>6. poller'[g] = "check" /\ \A h \in Gens : h # g => poller'[h] = poller[h]
  BY <1>5 DEF Typed
<1>7. Shortened(g) /\ \A e \in Elems(w) : e \in Elems(outstanding'[g]) \/ deliveries[e].at \notin {"chan", "send"}
  <2>1. /\ outstanding'[g] = trim(w) /\ \A h \in Gens : h # g => outstanding'[h] = outstanding[h]
        /\ DOMAIN outstanding' = Gens /\ outstanding' = [h \in Gens |-> outstanding'[h]]
        /\ \A h \in Gens : outstanding[h] \in Seq(Ids)
    BY <1>5 DEF Typed
  <2>2. CASE Len(w) > prefetch
    <3>1. w # <<>> /\ trim(w) = Tail(w)
      BY <2>2, PrefetchType DEF trim
    <3>2. /\ Tail(w) \in Seq(Ids) /\ Elems(w) = Elems(Tail(w)) \cup {Head(w)}
          /\ \A i, k \in 1 .. Len(Tail(w)) : i < k => Tail(w)[i] < Tail(w)[k]
      BY <3>1, Trimmed
    <3>3. deliveries[Head(w)].at \notin {"chan", "send"}
      BY <1>0, <1>1, <2>2, TrimmedIsOut DEF Send
    <3> HIDE DEF w
    <3>4. \A h \in Gens : outstanding'[h] \in Seq(Ids)
      BY <2>1, <3>1, <3>2, Zenon
    <3>5. outstanding' \in [Gens -> Seq(Ids)]
      BY <2>1, <3>4
    <3>6. w = outstanding[g]
      BY DEF w
    <3>7. outstanding'[g] = Tail(w)
      BY <2>1, <3>1
    <3> QED BY <2>1, <3>2, <3>3, <3>5, <3>6, <3>7, Zenon DEF Shortened
  <2>3. CASE ~(Len(w) > prefetch)
    <3>1. outstanding'[g] = w
      BY <2>1, <2>3 DEF trim
    <3>2. outstanding' \in [Gens -> Seq(Ids)]
      BY <2>1, <3>1
    <3>3. \A i, k \in 1 .. Len(w) : i < k => w[i] < w[k]
      BY DEF TaskInv, Windows
    <3> QED BY <2>1, <3>1, <3>2, <3>3, Zenon DEF Shortened
  <2> QED BY <2>2, <2>3
<1> HIDE DEF w
<1>8. /\ \A h \in Gens :
           /\ \A i, k \in 1 .. Len(outstanding'[h]) : i < k => outstanding'[h][i] < outstanding'[h][k]
           /\ \A e \in Elems(outstanding'[h]) : deliveries'[e].gen = h
      /\ outstanding' \in [Gens -> Seq(Ids')]
  BY <1>3, <1>7, ShortenedWindows
<1>9. \A h \in Gens : h # g => Elems(outstanding'[h]) = Elems(outstanding[h])
  BY <1>7 DEF Shortened
<1>10. \A e \in Ids : Elems(outstanding[deliveries[e].gen])' = Elems(outstanding'[deliveries'[e].gen])
  BY DEF Elems
<1>12. Lives'
  BY <1>0, <1>4, <1>5, <1>6 DEF TaskInv, Lives
<1>13. Windows'
  <2>1. \A h \in Gens : Elems(outstanding[h])' = Elems(outstanding'[h])
    BY PrimedWindows
  <2>2. \A e \in Ids : deliveries'[e].at = "send" => e # d /\ deliveries[e].at = "send" /\ deliveries[e].gen # g
    <3>1. \A e \in Ids : deliveries[e].at = "send" /\ deliveries[e].gen = g => e <= d /\ d <= e
      BY <1>2 DEF TaskInv, Windows
    <3>2. \A e \in Ids : e <= d /\ d <= e => e = d
      BY <1>2, <1>4
    <3> QED BY <1>3, <3>1, <3>2
  <2>3. ASSUME NEW e \in Ids, deliveries'[e].at = "send"
        PROVE  /\ poller'[deliveries'[e].gen] = "send" /\ e \in Elems(outstanding'[deliveries'[e].gen])
               /\ \A f \in Ids : deliveries'[f].gen = deliveries'[e].gen => f <= e
    BY <1>4, <1>6, <1>9, <2>2, <2>3 DEF TaskInv, Windows
  <2> QED BY <1>4, <1>8, <1>10, <2>1, <2>3 DEF Windows
<1>14. Buffered'
  <2> SUFFICES ASSUME NEW e \in Ids, deliveries'[e].at = "chan", receiver'[deliveries'[e].gen] = "on"
               PROVE  /\ e \in Elems(outstanding'[deliveries'[e].gen])
                      /\ \A f \in Ids : deliveries'[f].gen = deliveries'[e].gen /\ f > e =>
                            deliveries'[f].at \in {"chan", "send"}
    BY <1>4, <1>10 DEF Buffered
  <2>1. CASE e = d
    <3>1. e \in Elems(outstanding'[g])
      BY <1>2, <1>7, <2>1
    <3>2. \A f \in Ids : deliveries[f].gen = g => ~(f > e)
      BY <1>2, <1>4, <2>1
    <3> QED BY <1>2, <1>4, <2>1, <3>1, <3>2
  <2>2. CASE e # d
    <3>1. /\ deliveries[e].at = "chan" /\ e \in Elems(outstanding[deliveries[e].gen])
          /\ \A f \in Ids : deliveries[f].gen = deliveries[e].gen /\ f > e =>
                deliveries[f].at \in {"chan", "send"}
      BY <1>3, <1>4, <1>5, <2>2 DEF TaskInv, Buffered
    <3>2. e \in Elems(outstanding'[deliveries[e].gen])
      <4>1. CASE deliveries[e].gen = g
        BY <1>7, <3>1, <4>1 DEF w
      <4>2. CASE deliveries[e].gen # g
        BY <1>4, <1>9, <3>1, <4>2
      <4> QED BY <4>1, <4>2
    <3> QED BY <1>3, <1>4, <3>1, <3>2
  <2> QED BY <2>1, <2>2
<1>15. Owed'
  <2>1. \A e \in Ids : /\ deliveries'[e].at = "end" => deliveries[e].at = "end"
                       /\ deliveries'[e].at = "dropped" => deliveries[e].at = "dropped"
    BY <1>3
  <2>2. ASSUME NEW e \in delivery_map, Pending(e) PROVE Pending(e)'
    <3>0. e \in Ids
      BY <1>4
    <3>1. CASE deliveries[e].gen # g
      BY <1>2, <1>3, <1>4, <1>5, <1>6, <1>9, <2>2, <3>0, <3>1, PendingIs, PendingIsThen
    <3>2. CASE deliveries[e].gen = g
      <4>1. deliveries[e].at \notin {"end", "dropped"}
        BY <1>0, <3>0, <3>2 DEF TaskInv, Owed
      <4>2. deliveries[e].at \in {"send", "chan", "hand", "call"}
        BY <3>0, <4>1, Rows DEF Typed
      <4>3. deliveries'[e].at \in {"send", "chan", "hand", "call"}
        BY <1>3, <3>0, <4>2
      <4> QED BY <1>0, <1>4, <1>5, <3>0, <3>2, <4>3, PendingIsThen
    <3> QED BY <3>1, <3>2
  <2> QED BY <1>4, <1>5, <2>1, <2>2 DEF TaskInv, Owed
<1> QED BY <1>3, <1>8, <1>12, <1>13, <1>14, <1>15 DEF TaskInv

\* A delivery the channel no longer takes stays in the window.
LEMMA DropTasks ==
    ASSUME Typed, TaskInv, NEW g \in Gens, SendFails(g)
    PROVE  TaskInv' /\ SameJobs
<1>1. PICK d \in At(g, "send") : move(d, "dropped")
  BY DEF SendFails
<1>2. /\ d \in Ids /\ deliveries[d].gen = g /\ deliveries[d].at = "send" /\ d \in Elems(outstanding[g])
      /\ \A e \in Ids : deliveries[e].gen = g => e <= d
  BY <1>1 DEF At, TaskInv, Windows
<1>3. /\ SameJobs /\ deliveries'[d].at = "dropped"
      /\ \A e \in Ids : e # d => deliveries'[e].at = deliveries[e].at
  BY <1>1, <1>2, Moved DEF Typed
<1>4. /\ Ids' = Ids /\ deliveries' \in Seq(Delivery) /\ delivery_map \subseteq Ids
      /\ \A e \in Ids : /\ Job(e)' = Job(e) /\ deliveries'[e].gen = deliveries[e].gen
                        /\ deliveries[e].gen \in Gens /\ e \in Nat
  BY <1>3, Rows DEF SameJobs, Job, Typed
<1>5. /\ UNCHANGED <<receiver, outstanding, delivery_map, stranded, started>> /\ receiver[g] = "aborted"
      /\ poller'[g] = "drain" /\ poller[g] = "send" /\ \A h \in Gens : h # g => poller'[h] = poller[h]
  BY DEF SendFails, fnVars, history, Typed
<1>6. \A h \in Gens : outstanding'[h] = outstanding[h] /\ Elems(outstanding[h])' = Elems(outstanding[h])
  BY <1>5, PrimedWindows
<1>7. \A e \in Ids : Elems(outstanding[deliveries[e].gen])' = Elems(outstanding[deliveries[e].gen])
  BY <1>4, <1>5 DEF Elems
<1>9. Lives'
  BY <1>4, <1>5 DEF TaskInv, Lives
<1>10. Windows'
  <2>1. \A e \in Ids : deliveries'[e].at = "send" => deliveries[e].at = "send" /\ deliveries[e].gen # g
    <3>1. \A e \in Ids : deliveries[e].at = "send" /\ deliveries[e].gen = g => e <= d /\ d <= e
      BY <1>2 DEF TaskInv, Windows
    <3>2. \A e \in Ids : e <= d /\ d <= e => e = d
      BY <1>2, <1>4
    <3> QED BY <1>3, <3>1, <3>2
  <2>2. \A h \in Gens : Elems(outstanding[h]) \subseteq Ids
    BY WindowType
  <2> QED BY <1>4, <1>5, <1>6, <1>7, <2>1, <2>2 DEF TaskInv, Windows
<1>11. Buffered'
  <2>1. \A e \in Ids : deliveries'[e].at = "chan" => deliveries[e].at = "chan"
    BY <1>3
  <2>2. \A e \in Ids : deliveries[e].gen # g => deliveries'[e].at = deliveries[e].at
    BY <1>2, <1>3
  <2> QED BY <1>4, <1>5, <1>7, <2>1, <2>2 DEF TaskInv, Buffered
<1>12. Owed'
  <2>1. ASSUME NEW e \in delivery_map, Pending(e) PROVE Pending(e)'
    <3>0. e \in Ids
      BY <1>4
    <3>1. CASE e = d
      BY <1>2, <1>4, <1>5, <3>0, <3>1, PendingIsThen
    <3>2. CASE e # d
      BY <1>3, <1>4, <1>5, <2>1, <3>0, <3>2, PendingIs, PendingIsThen
    <3> QED BY <3>1, <3>2
  <2>2. \A e \in Ids : deliveries'[e].at = "end" => deliveries[e].at = "end"
    BY <1>3
  <2>3. \A e \in Ids : deliveries'[e].at = "dropped" => receiver'[deliveries'[e].gen] = "aborted"
    BY <1>2, <1>3, <1>4, <1>5 DEF TaskInv, Owed
  <2> QED BY <1>4, <1>5, <2>1, <2>2, <2>3 DEF TaskInv, Owed
<1> QED BY <1>3, <1>9, <1>10, <1>11, <1>12 DEF TaskInv

(* The poller of an aborted generation nacks the front of its window. *)
LEMMA DrainTasks ==
    ASSUME Typed, TaskInv, NEW g \in Gens, Drain(g)
    PROVE  TaskInv' /\ SameJobs /\ outstanding' \in [Gens -> Seq(Ids')]
           /\ delivery_map' = delivery_map \ {Head(outstanding[g])} /\ Head(outstanding[g]) \in Ids
<1> DEFINE w == outstanding[g]
           x == Head(w)
<1>1. /\ w # <<>> /\ poller[g] = "drain" /\ outstanding' = [outstanding EXCEPT ![g] = Tail(w)]
      /\ delivery_map' = delivery_map \ {x}
      /\ UNCHANGED <<poller, receiver, deliveries, stranded, started>>
  <2>1. delivery_map' = delivery_map \ {x}
    <3>1. CASE x \in delivery_map
      BY <3>1 DEF Drain
    <3>2. CASE x \notin delivery_map
      BY <3>2 DEF Drain
    <3> QED BY <3>1, <3>2
  <2> QED BY <2>1 DEF Drain, fnVars
<1>2. /\ Tail(w) \in Seq(Ids) /\ x \in Ids /\ Elems(w) = Elems(Tail(w)) \cup {x}
      /\ \A i, k \in 1 .. Len(Tail(w)) : i < k => Tail(w)[i] < Tail(w)[k]
  BY <1>1, Trimmed
<1>3. /\ outstanding'[g] = Tail(w) /\ \A h \in Gens : h # g => outstanding'[h] = outstanding[h]
      /\ outstanding' = [h \in Gens |-> outstanding'[h]] /\ \A h \in Gens : outstanding[h] \in Seq(Ids)
  BY <1>1 DEF Typed
<1>4. w = outstanding[g]
  OBVIOUS
<1> HIDE DEF w, x
<1>5. Shortened(g)
  <2>1. \A h \in Gens : outstanding'[h] \in Seq(Ids)
    BY <1>2, <1>3, Zenon
  <2>2. outstanding' \in [Gens -> Seq(Ids)]
    BY <1>3, <2>1
  <2>3. Elems(Tail(w)) \subseteq Elems(outstanding[g])
    BY <1>2, <1>4
  <2> QED BY <1>2, <1>3, <2>2, <2>3, Zenon DEF Shortened
<1>6. /\ SameJobs /\ Ids' = Ids /\ delivery_map \subseteq Ids
      /\ \A e \in Ids : Job(e)' = Job(e) /\ deliveries[e].gen \in Gens
  BY <1>1, SameRows, Rows DEF Typed, Job, SameJobs
<1>7. /\ \A h \in Gens :
           /\ \A i, k \in 1 .. Len(outstanding'[h]) : i < k => outstanding'[h][i] < outstanding'[h][k]
           /\ \A e \in Elems(outstanding'[h]) : deliveries'[e].gen = h
      /\ outstanding' \in [Gens -> Seq(Ids')]
  BY <1>5, <1>6, ShortenedWindows
<1>8. \A h \in Gens : h # g => Elems(outstanding'[h]) = Elems(outstanding[h])
  BY <1>3
<1>9. \A e \in Ids : Elems(outstanding[deliveries[e].gen])' = Elems(outstanding'[deliveries'[e].gen])
  BY DEF Elems
<1>10. Lives'
  BY <1>1, <1>6 DEF TaskInv, Lives, Typed
<1>11. Windows'
  <2>1. \A h \in Gens : Elems(outstanding[h])' = Elems(outstanding'[h])
    BY PrimedWindows
  <2>2. \A e \in Ids : deliveries[e].at = "send" => deliveries[e].gen # g
    BY <1>1 DEF TaskInv, Windows
  <2>3. ASSUME NEW e \in Ids, deliveries'[e].at = "send"
        PROVE  /\ poller'[deliveries'[e].gen] = "send" /\ e \in Elems(outstanding'[deliveries'[e].gen])
               /\ \A f \in Ids : deliveries'[f].gen = deliveries'[e].gen => f <= e
    BY <1>1, <1>6, <1>8, <2>2, <2>3 DEF TaskInv, Windows
  <2> QED BY <1>6, <1>7, <1>9, <2>1, <2>3 DEF Windows
<1>12. Buffered'
  <2>1. receiver[g] # "on"
    BY <1>1 DEF TaskInv, Lives
  <2>2. ASSUME NEW e \in Ids, deliveries'[e].at = "chan", receiver'[deliveries'[e].gen] = "on"
        PROVE  /\ e \in Elems(outstanding'[deliveries'[e].gen])
               /\ \A f \in Ids : deliveries'[f].gen = deliveries'[e].gen /\ f > e =>
                            deliveries'[f].at \in {"chan", "send"}
    BY <1>1, <1>6, <1>8, <2>1, <2>2 DEF TaskInv, Buffered
  <2> QED BY <1>6, <1>9, <2>2 DEF Buffered
<1>13. Owed'
  <2>1. ASSUME NEW e \in delivery_map', Pending(e) PROVE Pending(e)'
    <3>0. e \in Ids /\ e # x
      BY <1>1, <1>6
    <3>1. CASE deliveries[e].gen = g
      <4>1. e \in Elems(outstanding[g]) => e \in Elems(outstanding'[g])
        BY <1>2, <1>3, <1>4, <3>0
      <4> QED BY <1>1, <1>6, <2>1, <3>0, <3>1, <4>1, PendingIs, PendingIsThen
    <3>2. CASE deliveries[e].gen # g
      BY <1>1, <1>6, <1>8, <2>1, <3>0, <3>2, PendingIs, PendingIsThen
    <3> QED BY <3>1, <3>2
  <2> QED BY <1>1, <1>6, <2>1 DEF TaskInv, Owed
<1> QED BY <1>1, <1>2, <1>6, <1>7, <1>10, <1>11, <1>12, <1>13 DEF TaskInv, w, x

(* A receiver or a task takes one delivery a place further. *)
LEMMA TaskMoves ==
    ASSUME Typed, TaskInv, NEW d \in Ids, NEW place \in {"hand", "call", "end"}, move(d, place),
           deliveries[d].at \in {"chan", "hand", "call"},
           \A e \in Ids : deliveries[e].gen = deliveries[d].gen /\ deliveries[e].at = "chan"
                          /\ deliveries[d].at = "chan" => d <= e,
           place # "end" => receiver[deliveries[d].gen] = "on" /\ UNCHANGED delivery_map,
           place = "end" => deliveries[d].at = "call" /\ delivery_map' = delivery_map \ {d},
           UNCHANGED <<poller, receiver, outstanding, stranded, started>>
    PROVE  TaskInv' /\ SameJobs
<1> DEFINE g == deliveries[d].gen
<1>1. /\ SameJobs /\ deliveries'[d].at = place
      /\ \A e \in Ids : e # d => deliveries'[e].at = deliveries[e].at
  BY Moved DEF Typed
<1>2. /\ Ids' = Ids /\ deliveries' \in Seq(Delivery) /\ delivery_map \subseteq Ids /\ g \in Gens
      /\ \A e \in Ids : /\ Job(e)' = Job(e) /\ deliveries'[e].gen = deliveries[e].gen
                        /\ deliveries[e].gen \in Gens /\ e \in Nat
  BY <1>1, Rows DEF SameJobs, Job, Typed
<1>3. delivery_map' \subseteq delivery_map /\ (place = "end" => d \notin delivery_map')
  BY DEF Typed
<1>4. \A h \in Gens : outstanding'[h] = outstanding[h] /\ Elems(outstanding[h])' = Elems(outstanding[h])
  BY PrimedWindows
<1>5. \A e \in Ids : Elems(outstanding[deliveries[e].gen])' = Elems(outstanding[deliveries[e].gen])
  BY <1>2 DEF Elems
<1>6. Lives'
  BY <1>2 DEF TaskInv, Lives
<1>7. Windows'
  <2>1. \A e \in Ids : deliveries'[e].at = "send" => deliveries[e].at = "send"
    BY <1>1
  <2>2. \A h \in Gens : Elems(outstanding[h]) \subseteq Ids
    BY WindowType
  <2> QED BY <1>2, <1>4, <1>5, <2>1, <2>2 DEF TaskInv, Windows
<1>8. Buffered'
  <2>1. ASSUME NEW e \in Ids, deliveries'[e].at = "chan", receiver'[deliveries'[e].gen] = "on"
        PROVE  /\ e \in Elems(outstanding[deliveries[e].gen])
               /\ \A f \in Ids : deliveries'[f].gen = deliveries'[e].gen /\ f > e =>
                            deliveries'[f].at \in {"chan", "send"}
    <3>1. e # d /\ deliveries[e].at = "chan"
      BY <1>1, <2>1
    <3>2. /\ e \in Elems(outstanding[deliveries[e].gen])
          /\ \A f \in Ids : deliveries[f].gen = deliveries[e].gen /\ f > e => deliveries[f].at \in {"chan", "send"}
      BY <1>2, <2>1, <3>1 DEF TaskInv, Buffered
    <3>3. ASSUME deliveries[d].gen = deliveries[e].gen, d > e PROVE FALSE
      <4>1. deliveries[d].at = "chan"
        BY <3>2, <3>3
      <4>2. d <= e
        BY <3>1, <3>3, <4>1
      <4> QED BY <1>2, <3>3, <4>2
    <3> QED BY <1>1, <1>2, <3>2, <3>3
  <2> QED BY <1>2, <1>5, <2>1 DEF Buffered
<1>9. Owed'
  <2>1. ASSUME NEW e \in delivery_map', Pending(e) PROVE Pending(e)'
    <3>0. e \in Ids
      BY <1>2, <1>3
    <3>1. CASE e = d
      BY <1>1, <1>2, <1>3, <3>0, <3>1, PendingIsThen
    <3>2. CASE e # d
      BY <1>1, <1>2, <2>1, <3>0, <3>2, PendingIs, PendingIsThen
    <3> QED BY <3>1, <3>2
  <2>2. \A e \in Ids : deliveries'[e].at = "end" => e \notin delivery_map'
    BY <1>1, <1>3 DEF TaskInv, Owed
  <2>3. \A e \in Ids : deliveries'[e].at = "dropped" => deliveries[e].at = "dropped"
    BY <1>1
  <2> QED BY <1>2, <1>3, <2>1, <2>2, <2>3 DEF TaskInv, Owed
<1> QED BY <1>1, <1>6, <1>7, <1>8, <1>9 DEF TaskInv

(* recv takes the oldest message of the channel. *)
LEMMA FirstIsLeast ==
    ASSUME NEW S \in SUBSET Nat, S # {}
    PROVE  First(S) \in S /\ \A e \in S : First(S) <= e
<1> DEFINE R == OpToRel(<, Nat)
<1>1. \A a, b \in Nat : a < b => <<a, b>> \in R
  <2>1. R = {p \in Nat \X Nat : p[1] < p[2]}
    BY Zenon DEF OpToRel
  <2> HIDE DEF R
  <2> QED BY <2>1
<1>2. IsWellFoundedOn(R, Nat)
  BY NatLessThanWellFounded
<1> HIDE DEF R
<1>3. PICK x \in S : \A y \in S : ~(<<y, x>> \in R)
  BY <1>2, WFMin
<1>4. \A e \in S : x <= e
  <2> SUFFICES ASSUME NEW e \in S PROVE x <= e
    OBVIOUS
  <2>1. e \in Nat /\ x \in Nat /\ ~(e < x)
    BY <1>1, <1>3
  <2> QED BY <2>1
<1> QED BY <1>4 DEF First

\* Steps that change no task keep the types.
LEMMA TypedStep ==
    ASSUME Typed, StoreTypeOK', pushed' \in 0 .. MaxJobs, configured' \in BOOLEAN,
           UNCHANGED started, consumers' \in 0 .. started,
           UNCHANGED <<poller, receiver>>, SameJobs, outstanding' \in [Gens -> Seq(Ids)],
           delivery_map' \subseteq Ids, finished' \subseteq Jobs, stranded' \subseteq Jobs
    PROVE  Typed'
BY DEF Typed, SameJobs

\* A store that does not change is typed.
LEMMA SameStoreType == ASSUME StoreTypeOK, UNCHANGED storeVars PROVE StoreTypeOK'
BY DEF StoreTypeOK, storeVars

\* So is everything else.
LEMMA Stutter == ASSUME IInv, UNCHANGED vars PROVE IInv'
<1> USE DEF IInv
<1>1. /\ UNCHANGED <<storeVars, taskVars, pushed, configured, consumers, started, finished, stranded>>
      /\ UNCHANGED <<poller, receiver, outstanding, deliveries, delivery_map>>
  BY DEF vars, fnVars, history, taskVars
<1>2. SameJobs
  BY <1>1, SameRows DEF Typed
<1>3. Typed'
  BY <1>1, <1>2, SameStoreType, TypedStep DEF Typed
<1>4. Born' /\ Placed' /\ Counted'
  BY <1>1, <1>2, StoreSame
<1>5. TaskInv'
  BY <1>1, TasksSame DEF TaskInv
<1>6. Handled'
  BY <1>1 DEF Handled
<1> QED BY <1>3, <1>4, <1>5, <1>6 DEF TaskInv

(* The steps of the configuration: publish, start, swap and remove. *)
LEMMA ConfigStep ==
    ASSUME IInv, Publish \/ Spawn \/ Swap \/ Remove
    PROVE  IInv'
<1> USE DEF IInv
<1>0. TaskInv
  BY DEF TaskInv
<1>1. CASE Publish
  <2>1. /\ UNCHANGED <<taskVars, configured, consumers, started, finished, stranded>>
        /\ UNCHANGED <<poller, receiver, outstanding, deliveries, delivery_map>>
    BY <1>1 DEF Publish, history, taskVars
  <2>2. Born' /\ Placed' /\ Counted' /\ StoreTypeOK' /\ pushed' \in 0 .. MaxJobs
    BY <1>1, PublishStore
  <2>3. Typed'
    BY <2>1, <2>2, SameRows, TypedStep DEF Typed
  <2>4. TaskInv'
    BY <1>0, <2>1, TasksSame
  <2>5. Handled'
    BY <2>1 DEF Handled
  <2> QED BY <2>2, <2>3, <2>4, <2>5 DEF TaskInv
<1>2. CASE Spawn
  <2>1. TaskInv' /\ started' \in 0 .. MaxGens /\ consumers' \in 0 .. started'
    BY <1>0, <1>2, SpawnTasks
  <2>2. /\ UNCHANGED <<storeVars, pushed, outstanding, deliveries, delivery_map, finished, stranded>>
        /\ configured' = TRUE
    BY <1>2 DEF Spawn, history
  <2>3. SameJobs /\ StoreTypeOK'
    BY <2>2, SameRows, SameStoreType DEF Typed
  <2>4. /\ poller' \in [Gens -> {"off", "check", "move", "send", "drain", "end"}]
        /\ receiver' \in [Gens -> {"off", "on", "aborted"}]
    BY <1>2 DEF Spawn, Typed
  <2>5. Typed'
    BY <2>1, <2>2, <2>3, <2>4 DEF Typed, SameJobs
  <2>6. Born' /\ Placed' /\ Counted'
    BY <2>2, <2>3, StoreSame
  <2>7. Handled'
    <3>1. started + 1 \in Gens /\ started + 1 # started /\ (consumers \in {0, started})
      BY <1>2 DEF Spawn, Typed, Gens
    <3>2. receiver'[started + 1] = "on" /\ started' = started + 1
      BY <1>2, <3>1 DEF Spawn, Typed
    <3>3. consumers # 0 => consumers \in Gens /\ consumers # started + 1
      BY <3>1 DEF Typed, Gens
    <3>4. consumers # 0 => receiver'[consumers] = "on"
      BY <1>2, <3>1, <3>3 DEF Spawn, Typed, Handled
    <3>5. consumers' = IF consumers = 0 THEN started + 1 ELSE consumers
      BY <1>2 DEF Spawn
    <3> QED BY <3>2, <3>4, <3>5 DEF Handled
  <2> QED BY <2>1, <2>5, <2>6, <2>7 DEF TaskInv
<1>3. CASE Swap \/ Remove
  <2>1. /\ consumers # 0 /\ abort(consumers) /\ configured' \in BOOLEAN /\ consumers' \in {0, started}
        /\ UNCHANGED <<storeVars, pushed, started, poller, outstanding, delivery_map, finished>>
    BY <1>3 DEF Swap, Remove, Typed
  <2>2. consumers \in Gens /\ consumers <= started /\ consumers' \in 0 .. started
    BY <2>1 DEF Typed, Gens
  <2>3. receiver[consumers] = "on"
    BY <2>1 DEF Handled
  <2>4. TaskInv' /\ SameJobs /\ stranded' \subseteq Jobs /\ receiver' \in [Gens -> {"off", "on", "aborted"}]
    BY <1>0, <2>1, <2>2, <2>3, AbortTasks
  <2>5. Typed'
    BY <2>1, <2>2, <2>4, SameStoreType DEF Typed, SameJobs
  <2>6. Born' /\ Placed' /\ Counted'
    BY <2>1, <2>4, StoreSame
  <2>7. Handled'
    <3>1. CASE Swap
      <4>1. started \in Gens /\ started # consumers /\ consumers' = started /\ started' = started
        BY <2>2, <3>1 DEF Swap, Typed, Gens
      <4>2. receiver'[started] = receiver[started]
        BY <2>1, <2>2, <4>1 DEF abort, Typed
      <4> QED BY <2>1, <4>1, <4>2 DEF Handled
    <3>2. CASE Remove
      BY <3>2 DEF Remove, Handled
    <3> QED BY <1>3, <3>1, <3>2
  <2> QED BY <2>4, <2>5, <2>6, <2>7 DEF TaskInv
<1> QED BY <1>1, <1>2, <1>3

(* The steps of a poller. *)
LEMMA PollerSteps ==
    ASSUME IInv, NEW g \in Gens, PollerStep(g)
    PROVE  IInv'
<1> USE DEF IInv
<1>0. TaskInv /\ StoreTypeOK
  BY DEF TaskInv, Typed
<1>1. ASSUME UNCHANGED <<storeVars, fnVars, receiver, outstanding, deliveries, delivery_map, history>>,
             NEW p \in {"check", "move", "drain", "end"},
             poller' = [poller EXCEPT ![g] = p], poller[g] \notin {"off", "send"},
             receiver[g] = "on" => p \in {"check", "move"},
             p = "end" => outstanding[g] = <<>>
      PROVE  IInv'
  <2>1. UNCHANGED <<pushed, configured, consumers, started, finished, stranded>>
    BY <1>1 DEF fnVars, history
  <2>2. TaskInv'
    BY <1>0, <1>1, <2>1, PollerMoves
  <2>3. SameJobs /\ StoreTypeOK'
    BY <1>0, <1>1, SameRows, SameStoreType DEF Typed
  <2>4. poller' \in [Gens -> {"off", "check", "move", "send", "drain", "end"}]
    BY <1>1 DEF Typed
  <2>5. Typed'
    BY <1>1, <2>1, <2>3, <2>4 DEF Typed, SameJobs
  <2>6. Born' /\ Placed' /\ Counted'
    BY <1>1, <2>1, <2>3, StoreSame
  <2>7. Handled'
    BY <1>1, <2>1 DEF Handled
  <2> QED BY <2>2, <2>5, <2>6, <2>7 DEF TaskInv
<1>2. CASE Check(g)
  <2>1. CASE receiver[g] = "aborted"
    BY <1>1, <1>2, <2>1 DEF Check
  <2>2. CASE receiver[g] # "aborted"
    BY <1>1, <1>2, <2>2 DEF Check
  <2> QED BY <2>1, <2>2
<1>3. CASE PopNone(g)
  BY <1>1, <1>3 DEF PopNone
<1>4. CASE DrainDone(g)
  BY <1>0, <1>1, <1>4 DEF DrainDone, TaskInv, Lives
<1>5. CASE \E j \in Jobs : MoveDelayed(g, j)
  <2>1. /\ UNCHANGED <<taskVars, pushed, configured, consumers, started, finished, stranded>>
        /\ UNCHANGED <<poller, receiver, outstanding, deliveries, delivery_map>>
    BY <1>5 DEF MoveDelayed, fnVars, history, taskVars
  <2>2. Born' /\ Placed' /\ Counted' /\ StoreTypeOK'
    BY <1>5, MoveDelayedStore
  <2>3. Typed'
    BY <2>1, <2>2, SameRows, TypedStep DEF Typed
  <2>4. TaskInv' /\ Handled'
    BY <1>0, <2>1, TasksSame DEF Handled
  <2> QED BY <2>2, <2>3, <2>4 DEF TaskInv
<1>6. CASE Pop(g)
  <2>1. Born' /\ Placed' /\ Counted' /\ StoreTypeOK' /\ delivery_map' \subseteq Ids'
    BY <1>6, PopStore
  <2>2. TaskInv' /\ deliveries' \in Seq(Delivery) /\ outstanding' \in [Gens -> Seq(Ids')]
    BY <1>0, <1>6, PopTasks
  <2>3. /\ UNCHANGED <<pushed, configured, consumers, started, receiver, finished, stranded>>
        /\ poller' \in [Gens -> {"off", "check", "move", "send", "drain", "end"}]
    BY <1>6 DEF Pop, fnVars, history, Typed
  <2>4. Typed'
    BY <2>1, <2>2, <2>3 DEF Typed
  <2>5. Handled'
    BY <2>3 DEF Handled
  <2> QED BY <2>1, <2>2, <2>4, <2>5 DEF TaskInv
<1>7. CASE Send(g) \/ SendFails(g)
  <2>1. /\ UNCHANGED <<storeVars, pushed, configured, consumers, started, receiver, delivery_map, finished, stranded>>
        /\ poller' \in [Gens -> {"off", "check", "move", "send", "drain", "end"}]
    BY <1>7 DEF Send, SendFails, fnVars, history, Typed
  <2>2. TaskInv' /\ SameJobs /\ outstanding' \in [Gens -> Seq(Ids')]
    <3>1. CASE Send(g)
      BY <1>0, <3>1, SendTasks
    <3>2. CASE SendFails(g)
      <4>1. TaskInv' /\ SameJobs
        BY <1>0, <3>2, DropTasks
      <4>2. outstanding' = outstanding /\ Ids' = Ids
        BY <3>2, <4>1 DEF SendFails, SameJobs
      <4> QED BY <4>1, <4>2 DEF Typed
    <3> QED BY <1>7, <3>1, <3>2
  <2>3. Typed'
    BY <2>1, <2>2, SameStoreType DEF Typed, SameJobs
  <2>4. Born' /\ Placed' /\ Counted'
    BY <2>1, <2>2, StoreSame
  <2>5. Handled'
    BY <2>1 DEF Handled
  <2> QED BY <2>2, <2>3, <2>4, <2>5 DEF TaskInv
<1>8. CASE Drain(g)
  <2> DEFINE x == Head(outstanding[g])
  <2>1. /\ TaskInv' /\ SameJobs /\ outstanding' \in [Gens -> Seq(Ids')]
        /\ delivery_map' = delivery_map \ {x} /\ x \in Ids
    BY <1>0, <1>8, DrainTasks
  <2>2. UNCHANGED <<pushed, configured, consumers, started, poller, receiver, stranded>>
    BY <1>8 DEF Drain, fnVars
  <2>3. Born' /\ Placed' /\ Counted' /\ StoreTypeOK' /\ finished' \subseteq Jobs
    <3>1. CASE x \in delivery_map
      <4>1. nackJob(Job(x))
        BY <1>8, <3>1 DEF Drain
      <4> HIDE DEF x
      <4> QED BY <2>1, <2>2, <3>1, <4>1, NackStore
    <3>2. CASE x \notin delivery_map
      <4>1. UNCHANGED <<storeVars, delivery_map, finished>>
        BY <1>8, <3>2 DEF Drain
      <4> QED BY <1>0, <2>1, <2>2, <4>1, StoreSame, SameStoreType DEF Typed
    <3> QED BY <3>1, <3>2
  <2> HIDE DEF x
  <2>4. Typed'
    BY <2>1, <2>2, <2>3, TypedStep DEF Typed, SameJobs
  <2>5. Handled'
    BY <2>2 DEF Handled
  <2> QED BY <2>1, <2>3, <2>4, <2>5 DEF TaskInv
<1> QED BY <1>2, <1>3, <1>4, <1>5, <1>6, <1>7, <1>8 DEF PollerStep

(* The steps of a receiver. *)
LEMMA ReceiverSteps ==
    ASSUME IInv, NEW g \in Gens, Recv(g) \/ SpawnTask(g)
    PROVE  IInv'
<1> USE DEF IInv
<1>0. TaskInv /\ StoreTypeOK
  BY DEF TaskInv, Typed
<1>1. /\ UNCHANGED <<storeVars, pushed, configured, consumers, started, finished, stranded>>
      /\ UNCHANGED <<poller, receiver, outstanding, delivery_map>> /\ receiver[g] = "on"
  BY DEF Recv, SpawnTask, fnVars, history
<1>3. TaskInv' /\ SameJobs
  <2>1. CASE Recv(g)
    <3> DEFINE d == First(At(g, "chan"))
               place == IF free(g) > 0 THEN "call" ELSE "hand"
    <3>1. move(d, place)
      BY <2>1 DEF Recv
    <3>2. At(g, "chan") \in SUBSET Nat /\ At(g, "chan") # {}
      BY <2>1 DEF Recv, At, Ids
    <3>3. d \in At(g, "chan") /\ \A e \in At(g, "chan") : d <= e
      BY <3>2, FirstIsLeast
    <3>4. place \in {"hand", "call"}
      OBVIOUS
    <3> HIDE DEF d, place
    <3>5. /\ d \in Ids /\ deliveries[d].gen = g /\ deliveries[d].at = "chan"
          /\ \A e \in Ids : deliveries[e].gen = g /\ deliveries[e].at = "chan" => d <= e
      BY <3>3 DEF At
    <3>6. place \in {"hand", "call", "end"} /\ place # "end"
      BY <3>4
    <3> QED BY <1>0, <1>1, <3>1, <3>4, <3>5, <3>6, TaskMoves
  <2>2. CASE SpawnTask(g)
    <3>1. PICK d \in At(g, "hand") : move(d, "call")
      BY <2>2 DEF SpawnTask
    <3>2. d \in Ids /\ deliveries[d].gen = g /\ deliveries[d].at = "hand"
      BY DEF At
    <3> QED BY <1>0, <1>1, <3>1, <3>2, TaskMoves
  <2> QED BY <2>1, <2>2
<1>4. Typed'
  BY <1>0, <1>1, <1>3, SameStoreType, TypedStep DEF Typed
<1>5. Born' /\ Placed' /\ Counted'
  BY <1>1, <1>3, StoreSame
<1>6. Handled'
  BY <1>1 DEF Handled
<1> QED BY <1>3, <1>4, <1>5, <1>6 DEF TaskInv

(* A task ends, and settles its delivery if the map still has it. *)
LEMMA CallEnds ==
    ASSUME IInv, NEW d \in Ids, CallOk(d) \/ CallErr(d)
    PROVE  IInv'
<1> USE DEF IInv
<1>0. TaskInv /\ StoreTypeOK
  BY DEF TaskInv, Typed
<1>1. /\ UNCHANGED <<pushed, configured, consumers, started, stranded>>
      /\ UNCHANGED <<poller, receiver, outstanding>>
      /\ deliveries[d].at = "call" /\ move(d, "end") /\ delivery_map' = delivery_map \ {d}
  BY DEF CallOk, CallErr, ack_function_queue, nack_function_queue, fnVars
<1>2. TaskInv' /\ SameJobs
  BY <1>0, <1>1, TaskMoves
<1>3. Born' /\ Placed' /\ Counted' /\ StoreTypeOK' /\ finished' \subseteq Jobs
  <2>1. CASE d \notin delivery_map
    <3>1. UNCHANGED <<storeVars, delivery_map, finished>>
      BY <1>1, <2>1 DEF CallOk, CallErr, ack_function_queue, nack_function_queue
    <3> QED BY <1>0, <1>1, <1>2, <3>1, StoreSame, SameStoreType DEF Typed
  <2>2. CASE d \in delivery_map /\ CallOk(d)
    <3>1. ackJob(Job(d))
      BY <2>2 DEF CallOk, ack_function_queue
    <3> QED BY <1>1, <1>2, <2>2, <3>1, AckStore
  <2>3. CASE d \in delivery_map /\ CallErr(d)
    <3>1. nackJob(Job(d))
      BY <2>3 DEF CallErr, nack_function_queue
    <3> QED BY <1>1, <1>2, <2>3, <3>1, NackStore
  <2> QED BY <2>1, <2>2, <2>3
<1>4. Typed'
  BY <1>1, <1>2, <1>3, TypedStep DEF Typed
<1>5. Handled'
  BY <1>1 DEF Handled
<1> QED BY <1>2, <1>3, <1>4, <1>5 DEF TaskInv

(***************************************************************************)
(* Generations that overlap.                                                *)
(***************************************************************************)
(* Generations are aborted in the order of their starts: those before the    *)
(* handle that is kept were, the others were not.                            *)
Turns ==
    /\ consumers \in {0, started - 1, started}
    /\ \A g \in Gens : g <= started =>
        (receiver[g] = "aborted" <=> consumers = 0 \/ g < consumers)

Draining(g) == receiver[g] = "aborted" /\ poller[g] \in {"drain", "end"}

(* A job that was delivered again has left the map with its older delivery.  *)
Superseded == \A d, e \in Ids : d < e /\ Job(d) = Job(e) => d \notin delivery_map

(* A delivery leaves the map when its task ends or its generation drains.    *)
Unmapped == \A d \in Ids : deliveries[d].at # "end" /\ d \notin delivery_map => Draining(deliveries[d].gen)

(* While a delivery runs, a newer one of its job is of a later generation, or *)
(* was popped by the poller of an earlier, aborted one that cannot send it.   *)
Later ==
    \A d, e \in Ids : d < e /\ Job(d) = Job(e) /\ deliveries[d].at = "call" =>
        \/ deliveries[d].gen < deliveries[e].gen
        \/ deliveries[e].gen < deliveries[d].gen /\ deliveries[e].at \in {"send", "dropped"}

Overlap == Superseded /\ Unmapped /\ Later

\* A poller drains only for an aborted receiver.
LEMMA DrainsAborted ==
    ASSUME Typed, Lives, NEW g \in Gens, poller[g] \in {"drain", "end"}
    PROVE  receiver[g] = "aborted"
<1>1. g <= started
  <2>1. g > started \/ g <= started
    BY DEF Typed, Gens
  <2> QED BY <2>1 DEF Lives
<1>2. receiver[g] # "off" /\ receiver[g] # "on" /\ receiver[g] \in {"off", "on", "aborted"}
  BY <1>1 DEF Lives, Typed
<1> QED BY <1>2

\* An earlier generation than an aborted one is aborted.
LEMMA AbortOrder ==
    ASSUME Typed, Lives, Turns, NEW g \in Gens, NEW h \in Gens, g < h, receiver[h] = "aborted"
    PROVE  receiver[g] = "aborted"
<1>1. h <= started
  <2>1. h > started \/ h <= started
    BY DEF Typed, Gens
  <2> QED BY <2>1 DEF Lives
<1>2. consumers = 0 \/ h < consumers
  BY <1>1 DEF Turns
<1>3. g <= started /\ (consumers = 0 \/ g < consumers)
  BY <1>1, <1>2 DEF Typed, Gens
<1> QED BY <1>3 DEF Turns

\* Steps that deliver nothing new.
LEMMA NoNewDelivery ==
    ASSUME Typed, Lives, Turns, Overlap, SameJobs, delivery_map' \subseteq delivery_map,
           \A d \in Ids : d \in delivery_map /\ d \notin delivery_map' /\ deliveries'[d].at # "end"
                          => Draining(deliveries[d].gen)',
           \A d \in Ids : deliveries[d].at = "end" => deliveries'[d].at = "end",
           \A d \in Ids : Draining(deliveries[d].gen) => Draining(deliveries[d].gen)',
           \A d \in Ids : deliveries'[d].at = "call" => deliveries[d].at = "call" \/ d \in delivery_map,
           \A d \in Ids : deliveries[d].at \in {"send", "dropped"} /\ receiver[deliveries[d].gen] = "aborted"
                          => deliveries'[d].at \in {"send", "dropped"}
    PROVE  Overlap'
<1>1. /\ Ids' = Ids
      /\ \A d \in Ids : /\ Job(d)' = Job(d) /\ deliveries'[d].gen = deliveries[d].gen
                        /\ deliveries[d].gen \in Gens
  BY Rows DEF SameJobs, Job, Typed
<1>2. Superseded'
  BY <1>1 DEF Overlap, Superseded
<1>3. Unmapped'
  BY <1>1 DEF Overlap, Unmapped
<1>4. Later'
  <2> SUFFICES ASSUME NEW d \in Ids, NEW e \in Ids, d < e, Job(d) = Job(e), deliveries'[d].at = "call"
               PROVE  \/ deliveries[d].gen < deliveries[e].gen
                      \/ deliveries[e].gen < deliveries[d].gen /\ deliveries'[e].at \in {"send", "dropped"}
    BY <1>1 DEF Later
  <2>1. d \notin delivery_map /\ deliveries[d].at = "call"
    BY DEF Overlap, Superseded
  <2>2. receiver[deliveries[d].gen] = "aborted"
    BY <2>1 DEF Overlap, Unmapped, Draining
  <2>3. deliveries[e].gen < deliveries[d].gen => receiver[deliveries[e].gen] = "aborted"
    BY <1>1, <2>2, AbortOrder
  <2> QED BY <2>1, <2>3 DEF Overlap, Later
<1> QED BY <1>2, <1>3, <1>4 DEF Overlap

\* Pop: nobody who still counts has the job it takes.
LEMMA PopOverlap ==
    ASSUME Typed, Lives, Placed, Turns, Overlap, NEW g \in Gens, Pop(g)
    PROVE  Overlap'
<1> DEFINE n == back(waiting)
           new == Len(deliveries')
<1>1. n \in Jobs /\ n \in Elems(waiting)
  BY RpopFacts DEF Pop, Typed, StoreTypeOK
<1>2. \A d \in delivery_map : Job(d) # n
  BY <1>1 DEF Placed, Working, Listed
<1>3. [job |-> n, gen |-> g, at |-> "send"] \in Delivery
  BY <1>1 DEF Delivery
<1>4. /\ deliveries' = Append(deliveries, [job |-> n, gen |-> g, at |-> "send"])
      /\ delivery_map' = delivery_map \cup {new} /\ UNCHANGED receiver
      /\ poller[g] = "move" /\ \A h \in Gens : h # g => poller'[h] = poller[h]
  BY DEF Pop, Typed
<1> HIDE DEF n
<1>5. /\ Ids' = Ids \cup {new} /\ new \notin Ids
      /\ \A d \in Ids : d < new /\ ~(new < d) /\ deliveries'[d] = deliveries[d]
      /\ deliveries'[new] = [job |-> n, gen |-> g, at |-> "send"] /\ ~(new < new)
  <2>1. /\ Ids' = Ids \cup {new} /\ new \notin Ids
        /\ \A d \in Ids : d < new /\ deliveries'[d] = deliveries[d]
        /\ deliveries'[new] = [job |-> n, gen |-> g, at |-> "send"] /\ new = Len(deliveries) + 1
    BY <1>3, <1>4, Appended DEF Typed
  <2>2. Len(deliveries) \in Nat /\ \A d \in Ids : d \in Nat
    BY Rows DEF Typed
  <2> HIDE DEF new
  <2> QED BY <2>1, <2>2
<1> HIDE DEF new
<1>6. /\ \A d \in Ids : Job(d)' = Job(d) /\ deliveries[d].gen \in Gens
      /\ deliveries'[new].job = n /\ deliveries'[new].gen = g /\ deliveries'[new].at = "send"
  BY <1>5, Rows DEF Job, Typed
<1>7. Superseded'
  <2> SUFFICES ASSUME NEW d \in Ids', NEW e \in Ids', d < e, Job(d)' = Job(e)'
               PROVE  d \notin delivery_map'
    BY DEF Superseded
  <2>1. d \in Ids
    BY <1>5
  <2>2. d # new
    BY <1>5, <2>1
  <2>3. CASE e = new
    BY <1>2, <1>4, <1>6, <2>1, <2>2, <2>3 DEF Job
  <2>4. CASE e \in Ids
    BY <1>4, <1>6, <2>1, <2>2, <2>4 DEF Overlap, Superseded
  <2> QED BY <1>5, <2>3, <2>4
<1>8. \A d \in Ids : Draining(deliveries[d].gen) => Draining(deliveries[d].gen)' /\ deliveries[d].gen # g
  BY <1>4, <1>5, <1>6 DEF Draining
<1>9. Unmapped'
  BY <1>4, <1>5, <1>8 DEF Overlap, Unmapped
<1>10. Later'
  <2> SUFFICES ASSUME NEW d \in Ids', NEW e \in Ids', d < e, Job(d)' = Job(e)', deliveries'[d].at = "call"
               PROVE  \/ deliveries'[d].gen < deliveries'[e].gen
                      \/ deliveries'[e].gen < deliveries'[d].gen /\ deliveries'[e].at \in {"send", "dropped"}
    BY DEF Later
  <2>1. d \in Ids /\ deliveries'[d] = deliveries[d] /\ deliveries[d].gen \in Gens
    BY <1>5, <1>6
  <2>2. CASE e = new
    <3>1. Job(d) = n
      BY <1>6, <2>1, <2>2 DEF Job
    <3>2. d \notin delivery_map /\ deliveries[d].at = "call"
      BY <1>2, <2>1, <3>1
    <3>3. deliveries[d].gen # g
      BY <1>8, <2>1, <3>2 DEF Overlap, Unmapped
    <3>4. deliveries[d].gen < g \/ g < deliveries[d].gen
      BY <2>1, <3>3 DEF Gens
    <3> QED BY <1>6, <2>1, <2>2, <3>4
  <2>3. CASE e \in Ids
    BY <1>5, <1>6, <2>1, <2>3 DEF Overlap, Later
  <2> QED BY <1>5, <2>2, <2>3
<1> QED BY <1>7, <1>9, <1>10 DEF Overlap

\* The configuration's steps keep the order of the aborts, and no other step
\* touches a receiver.
LEMMA TurnsStep ==
    ASSUME IInv, Turns, [Next]_vars
    PROVE  Turns'
<1> USE DEF IInv
<1>1. CASE Spawn
  <2>1. /\ started \in Nat /\ started' = started + 1 /\ started + 1 \in Gens /\ consumers \in {0, started}
        /\ receiver'[started + 1] = "on" /\ \A g \in Gens : g # started + 1 => receiver'[g] = receiver[g]
        /\ consumers' = IF consumers = 0 THEN started + 1 ELSE consumers
    BY <1>1 DEF Spawn, Typed, Gens
  <2>2. consumers' \in {0, started' - 1, started'} /\ consumers' # 0
    BY <2>1
  <2>3. ASSUME NEW g \in Gens, g <= started'
        PROVE  receiver'[g] = "aborted" <=> g < consumers'
    <3>1. g \in Nat \ {0}
      BY DEF Gens
    <3>2. CASE g = started + 1
      BY <2>1, <3>1, <3>2
    <3>3. CASE g # started + 1
      <4>1. g <= started /\ receiver'[g] = receiver[g]
        BY <2>1, <2>3, <3>1, <3>3
      <4>2. receiver[g] = "aborted" <=> consumers = 0 \/ g < consumers
        BY <4>1 DEF Turns
      <4> QED BY <2>1, <3>1, <4>1, <4>2
    <3> QED BY <3>2, <3>3
  <2> QED BY <2>2, <2>3 DEF Turns
<1>2. CASE Swap
  <2>1. /\ consumers \in Nat \ {0} /\ consumers = started - 1 /\ consumers' = started /\ started' = started
        /\ started \in Nat /\ consumers \in Gens
    BY <1>2 DEF Swap, Typed, Turns, Gens
  <2>2. receiver'[consumers] = "aborted" /\ \A g \in Gens : g # consumers => receiver'[g] = receiver[g]
    BY <1>2, <2>1 DEF Swap, abort, Typed
  <2>3. ASSUME NEW g \in Gens, g <= started
        PROVE  receiver'[g] = "aborted" <=> g < started
    BY <2>1, <2>2, <2>3 DEF Turns, Gens
  <2> QED BY <2>1, <2>3 DEF Turns
<1>3. CASE Remove
  <2>1. consumers = started /\ consumers' = 0 /\ started' = started /\ started \in Gens
    BY <1>3 DEF Remove, Typed, Gens
  <2>2. receiver'[started] = "aborted" /\ \A g \in Gens : g # started => receiver'[g] = receiver[g]
    BY <1>3, <2>1 DEF Remove, abort, Typed
  <2>3. ASSUME NEW g \in Gens, g <= started PROVE receiver'[g] = "aborted"
    BY <2>1, <2>2, <2>3 DEF Turns, Gens
  <2> QED BY <2>1, <2>3 DEF Turns
<1>4. CASE UNCHANGED <<consumers, started, receiver>>
  BY <1>4 DEF Turns
<1>5. \A g \in Gens : PollerStep(g) \/ Recv(g) \/ SpawnTask(g) => UNCHANGED <<consumers, started, receiver>>
  BY DEF PollerStep, Check, PopNone, Pop, Send, SendFails, Drain, DrainDone, MoveDelayed, Recv, SpawnTask,
         fnVars, taskVars
<1>6. \A d \in Ids : CallOk(d) \/ CallErr(d) => UNCHANGED <<consumers, started, receiver>>
  BY DEF CallOk, CallErr, fnVars
<1>7. Publish \/ UNCHANGED vars => UNCHANGED <<consumers, started, receiver>>
  BY DEF Publish, vars, fnVars, taskVars
<1> QED BY <1>1, <1>2, <1>3, <1>4, <1>5, <1>6, <1>7 DEF Next

\* Every step keeps what is known of overlapping generations.
LEMMA OverlapStep ==
    ASSUME IInv, Turns, Overlap, [Next]_vars
    PROVE  Overlap'
<1> USE DEF IInv
<1>0. /\ deliveries \in Seq(Delivery) /\ \A d \in Ids : deliveries[d].gen \in Gens
      /\ \A g \in Gens : poller[g] \in {"drain", "end"} => receiver[g] = "aborted"
  BY Rows, DrainsAborted DEF Typed
<1>1. ASSUME UNCHANGED <<deliveries, delivery_map>>,
             \A g \in Gens : g <= started /\ Draining(g) => Draining(g)'
      PROVE  Overlap'
  <2>1. SameJobs
    BY <1>0, <1>1, SameRows
  <2>2. \A d \in Ids : Draining(deliveries[d].gen) => Draining(deliveries[d].gen)'
    BY <1>0, <1>1 DEF Lives, Draining
  <2> QED BY <1>1, <2>1, <2>2, NoNewDelivery
<1>2. CASE Publish \/ (\E g \in Gens, j \in Jobs : MoveDelayed(g, j)) \/ UNCHANGED vars
  <2>1. UNCHANGED <<deliveries, delivery_map, poller, receiver>>
    BY <1>2 DEF Publish, MoveDelayed, vars, taskVars
  <2> QED BY <1>1, <2>1 DEF Draining
<1>3. CASE Spawn
  <2>1. \A g \in Gens : g <= started => g # started'
    BY <1>3 DEF Spawn, Typed, Gens
  <2>2. \A g \in Gens : g <= started => poller'[g] = poller[g] /\ receiver'[g] = receiver[g]
    BY <1>3, <2>1 DEF Spawn, Typed
  <2> QED BY <1>1, <1>3, <2>2 DEF Spawn, Draining
<1>4. ASSUME NEW g \in Gens, Check(g) \/ PopNone(g) \/ DrainDone(g) PROVE Overlap'
  <2>1. /\ UNCHANGED <<deliveries, delivery_map, receiver>> /\ \A h \in Gens : h # g => poller'[h] = poller[h]
        /\ poller[g] = "drain" => poller'[g] = "end"
        /\ poller[g] # "end"
    BY <1>4 DEF Check, PopNone, DrainDone, Typed
  <2> QED BY <1>1, <2>1 DEF Draining
<1>5. ASSUME NEW g \in Gens, Pop(g) PROVE Overlap'
  BY <1>5, PopOverlap
<1>6. CASE Swap \/ Remove
  <2>1. consumers \in Gens /\ abort(consumers) /\ UNCHANGED <<delivery_map, poller>>
    BY <1>6 DEF Swap, Remove, Typed, Gens
  <2>2. SameJobs /\ \A d \in Ids :
           deliveries'[d].at = IF deliveries[d].gen = consumers /\ deliveries[d].at \in {"chan", "hand"}
                               THEN "dropped" ELSE deliveries[d].at
    BY <1>0, <2>1, Aborted
  <2>3. \A h \in Gens : receiver[h] = "aborted" => receiver'[h] = "aborted"
    BY <2>1 DEF abort, Typed
  <2>4. \A d \in Ids : Draining(deliveries[d].gen) => Draining(deliveries[d].gen)'
    BY <1>0, <2>1, <2>2, <2>3 DEF Draining, SameJobs
  <2> QED BY <2>1, <2>2, <2>4, NoNewDelivery
<1>7. ASSUME NEW g \in Gens, Send(g) \/ SendFails(g) PROVE Overlap'
  <2>1. /\ UNCHANGED <<delivery_map, receiver>> /\ \A h \in Gens : h # g => poller'[h] = poller[h]
        /\ poller[g] = "send"
    BY <1>7 DEF Send, SendFails, Typed
  <2>2. PICK d \in At(g, "send") : \/ move(d, "chan") /\ receiver[g] # "aborted"
                                  \/ move(d, "dropped")
    BY <1>7 DEF Send, SendFails
  <2>3. d \in Ids /\ deliveries[d].gen = g /\ deliveries[d].at = "send"
    BY DEF At
  <2>4. /\ SameJobs /\ \A e \in Ids : e # d => deliveries'[e].at = deliveries[e].at
        /\ \/ deliveries'[d].at = "chan" /\ receiver[g] # "aborted"
           \/ deliveries'[d].at = "dropped"
    BY <1>0, <2>2, <2>3, Moved
  <2>5. \A e \in Ids : Draining(deliveries[e].gen) => Draining(deliveries[e].gen)'
    BY <1>0, <2>1, <2>4 DEF Draining, SameJobs
  <2> QED BY <2>1, <2>3, <2>4, <2>5, NoNewDelivery
<1>8. ASSUME NEW g \in Gens, Drain(g) PROVE Overlap'
  <2>1. /\ delivery_map' = delivery_map \ {Head(outstanding[g])} /\ Head(outstanding[g]) \in Ids
        /\ UNCHANGED <<deliveries, poller, receiver>> /\ poller[g] = "drain" /\ outstanding[g] # <<>>
    <3>1. TaskInv
      BY DEF TaskInv
    <3> QED BY <1>8, <3>1, DrainTasks DEF Drain
  <2>2. deliveries[Head(outstanding[g])].gen = g
    <3>1. Head(outstanding[g]) \in Elems(outstanding[g])
      <4>1. outstanding[g] \in Seq(Ids)
        BY DEF Typed
      <4> QED BY <2>1, <4>1, TailFacts
    <3> QED BY <3>1 DEF Windows
  <2>3. SameJobs /\ Draining(g)' /\ \A e \in Ids : Draining(deliveries[e].gen) => Draining(deliveries[e].gen)'
    BY <1>0, <2>1, SameRows DEF Draining
  <2>4. \A d \in Ids : d \in delivery_map /\ d \notin delivery_map' => Draining(deliveries[d].gen)'
    <3>1. \A d \in Ids : d \in delivery_map /\ d \notin delivery_map' => deliveries[d].gen = g
      BY <2>1, <2>2
    <3> QED BY <1>0, <2>1, <2>3, <3>1 DEF Draining
  <2> QED BY <2>1, <2>3, <2>4, NoNewDelivery
<1>9. ASSUME NEW g \in Gens, Recv(g) \/ SpawnTask(g) PROVE Overlap'
  <2>1. UNCHANGED <<delivery_map, poller, receiver>> /\ receiver[g] = "on"
    BY <1>9 DEF Recv, SpawnTask
  <2>2. \E d \in At(g, "chan") \cup At(g, "hand"), place \in {"call", "hand"} : move(d, place)
    <3>1. CASE Recv(g)
      <4>1. At(g, "chan") \in SUBSET Nat /\ At(g, "chan") # {}
        BY <3>1 DEF Recv, At, Ids
      <4>2. First(At(g, "chan")) \in At(g, "chan")
        BY <4>1, FirstIsLeast
      <4> QED BY <3>1, <4>2 DEF Recv
    <3>2. CASE SpawnTask(g)
      BY <3>2 DEF SpawnTask
    <3> QED BY <1>9, <3>1, <3>2
  <2>3. PICK d \in At(g, "chan") \cup At(g, "hand"), place \in {"call", "hand"} : move(d, place)
    BY <2>2
  <2>4. d \in Ids /\ deliveries[d].gen = g /\ deliveries[d].at \in {"chan", "hand"}
    BY DEF At
  <2>5. d \in delivery_map
    BY <2>1, <2>4 DEF Overlap, Unmapped, Draining
  <2>6. /\ SameJobs /\ deliveries'[d].at = place
        /\ \A e \in Ids : e # d => deliveries'[e].at = deliveries[e].at
    BY <1>0, <2>3, <2>4, Moved
  <2>7. \A e \in Ids : Draining(deliveries[e].gen) => Draining(deliveries[e].gen)'
    BY <1>0, <2>1, <2>6 DEF Draining, SameJobs
  <2> QED BY <2>1, <2>4, <2>5, <2>6, <2>7, NoNewDelivery
<1>10. ASSUME NEW d \in Ids, CallOk(d) \/ CallErr(d) PROVE Overlap'
  <2>1. /\ UNCHANGED <<poller, receiver>> /\ deliveries[d].at = "call" /\ move(d, "end")
        /\ delivery_map' = delivery_map \ {d}
    BY <1>10 DEF CallOk, CallErr, ack_function_queue, nack_function_queue
  <2>2. /\ SameJobs /\ deliveries'[d].at = "end"
        /\ \A e \in Ids : e # d => deliveries'[e].at = deliveries[e].at
    BY <1>0, <2>1, Moved
  <2>3. \A e \in Ids : Draining(deliveries[e].gen) => Draining(deliveries[e].gen)'
    BY <1>0, <2>1, <2>2 DEF Draining, SameJobs
  <2> QED BY <2>1, <2>2, <2>3, NoNewDelivery
<1> QED BY <1>2, <1>3, <1>4, <1>5, <1>6, <1>7, <1>8, <1>9, <1>10 DEF Next, PollerStep

----------------------------------------------------------------------------
(* IInv holds in every state. *)
THEOREM Inductive == Spec => []IInv
<1>1. Init => IInv
  BY Initially
<1>2. IInv /\ [Next]_vars => IInv'
  BY ConfigStep, PollerSteps, ReceiverSteps, CallEnds, Stutter DEF Next
<1> QED BY <1>1, <1>2, PTL DEF Spec

(* A job is settled by one delivery at a time: its occurrences in `active'   *)
(* are its deliveries in the map, at most one, and no list offers it         *)
(* meanwhile (delivery_map, adapter.rs).                                     *)
THEOREM OneDeliveryAtATime == Spec => []SingleDelivery
<1>1. IInv => SingleDelivery
  <2> SUFFICES ASSUME IInv, NEW j \in Jobs
               PROVE  /\ active[j] = Cardinality(Mapped(j)) /\ active[j] <= 1
                      /\ active[j] = 1 => j \notin Elems(waiting) \cup delayed \cup Elems(dlq) \cup finished
                      /\ j \in finished => j \notin Elems(waiting) \cup delayed \cup Elems(dlq)
                      /\ j \in delayed \cup Elems(dlq) => j \notin Elems(waiting)
                      /\ j \notin delayed \cap Elems(dlq)
    BY DEF SingleDelivery
  <2>1. active[j] = IF Working(j) THEN 1 ELSE 0
    BY DEF IInv, Placed
  <2>2. active[j] = Cardinality(Mapped(j)) /\ active[j] <= 1
    <3>1. CASE Working(j)
      <4>1. PICK d \in delivery_map : Job(d) = j
        BY <3>1 DEF Working
      <4>2. Mapped(j) = {d}
        BY <4>1 DEF Mapped, IInv, Placed
      <4>3. Cardinality(Mapped(j)) = 1
        BY <4>2, FS_Singleton
      <4> QED BY <2>1, <3>1, <4>3
    <3>2. CASE ~Working(j)
      <4>1. Mapped(j) = {}
        BY <3>2 DEF Mapped, Working
      <4> QED BY <2>1, <3>2, <4>1, FS_EmptySet
    <3> QED BY <3>1, <3>2
  <2>3. active[j] = 1 => Working(j)
    BY <2>1
  <2> QED BY <2>2, <2>3 DEF IInv, Placed, Listed
<1> QED BY <1>1, Inductive, PTL

(* A job is delivered at most max_retries times (once when that is 0),        *)
(* whatever the restarts: the nack of a drain counts as an attempt.          *)
THEOREM DeliveriesBounded == Spec => []DeliveryBudget
<1>1. IInv => DeliveryBudget
  BY DEF IInv, Counted, DeliveryBudget, Times, Budget
<1> QED BY <1>1, Inductive, PTL

(* Two calls of one job overlap only across a restart, and the older no      *)
(* longer counts: its generation was aborted and drains, and the map has     *)
(* lost its delivery, so its answer settles nothing (adapter.rs              *)
(* consume_function_queue; the abort of the previous handle, queue.rs).      *)
THEOREM OverlapVoid == Spec => []OldRunVoid
<1>1. Init => Turns /\ Overlap
  <2> SUFFICES ASSUME Init PROVE Turns /\ Overlap
    OBVIOUS
  <2>1. Ids = {}
    BY DEF Init, Ids
  <2> QED BY <2>1 DEF Init, Turns, Overlap, Superseded, Unmapped, Later, Gens
<1>2. IInv /\ Turns /\ Overlap /\ [Next]_vars => (Turns /\ Overlap)'
  BY TurnsStep, OverlapStep
<1>3. IInv /\ Overlap => OldRunVoid
  <2> SUFFICES ASSUME IInv, Overlap, NEW j \in Jobs, NEW d \in Running(j), NEW e \in Running(j), d < e
               PROVE  /\ deliveries[d].gen < deliveries[e].gen
                      /\ receiver[deliveries[d].gen] = "aborted"
                      /\ poller[deliveries[d].gen] \in {"drain", "end"}
                      /\ d \notin delivery_map
    BY DEF OldRunVoid
  <2>1. /\ d \in Ids /\ e \in Ids /\ Job(d) = Job(e) /\ deliveries[d].at = "call"
        /\ deliveries[e].at = "call"
    BY DEF Running
  <2>2. d \notin delivery_map
    BY <2>1 DEF Overlap, Superseded
  <2>3. Draining(deliveries[d].gen)
    BY <2>1, <2>2 DEF Overlap, Unmapped
  <2>4. deliveries[d].gen < deliveries[e].gen
    BY <2>1 DEF Overlap, Later
  <2> QED BY <2>2, <2>3, <2>4 DEF Draining
<1> QED BY <1>1, <1>2, <1>3, Inductive, PTL DEF Spec

(* Restarts lose no message but one in the hands of an aborted receiver that  *)
(* has left the poller's window: what is buffered in the channel is still    *)
(* in the window, whose poller nacks it.                                     *)
THEOREM OnlyStrandedLost == Spec => []NoMessageLost
<1>1. IInv => NoMessageLost
  BY DEF IInv, NoMessageLost, Somewhere, Mapped, Born, Working, Listed, Owed
<1> QED BY <1>1, Inductive, PTL
=============================================================================
