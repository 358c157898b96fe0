------------------------- MODULE BuiltinQueueProofs -------------------------
(***************************************************************************)
(* Theorems about BuiltinQueue for every number of jobs, subscriptions and   *)
(* handler tasks, every mode and every retry limit: its invariants, that it  *)
(* implements DurableQueue, that its active list is exact, and that a FIFO   *)
(* subscription keeps the order of the pushes.                               *)
(***************************************************************************)
EXTENDS BuiltinQueue, BuiltinQueueRefinement, QueueStoreProofs, FiniteSetTheorems

(* An id that was not pushed yet is in no place. *)
Unborn == \A j \in Jobs : j > pushed => ~Located(j)

(* The inductive invariant.  Unborn is what makes Push safe; TypeOK carries  *)
(* the domains of the functions.                                            *)
IInv == TypeOK /\ SinglePlace /\ Unborn

USE QueueAssumption, MaxJobsAssumption

----------------------------------------------------------------------------
(* Type correctness.  First the program counters, one kind of process at a  *)
(* time.                                                                    *)

\* A subscription's loop moves to one of its own steps.
LEMMA GotoLoop ==
    ASSUME PcOK, NEW w \in Subs, NEW next \in LoopPcs, goto(w, next) PROVE PcOK'
BY DEF PcOK, goto, Proc

\* A job's task moves to one of its own steps.
LEMMA GotoTask ==
    ASSUME PcOK, NEW t \in Tasks, NEW next \in TaskPcs, goto(t, next) PROVE PcOK'
BY DEF PcOK, goto, Proc

\* The operator moves to one of its own steps.
LEMMA GotoAdmin ==
    ASSUME PcOK, NEW next \in AdminPcs, goto(Admin, next) PROVE PcOK'
BY DEF PcOK, goto, Proc

\* Starting a task moves the task and the loop that spawned it.
LEMMA GotoTaskAndLoop ==
    ASSUME PcOK, NEW t \in Tasks, NEW w \in Subs, NEW first \in TaskPcs, NEW next \in LoopPcs,
           pc' = [pc EXCEPT ![t] = first, ![w] = next]
    PROVE  PcOK'
BY DEF PcOK, Proc

\* Nobody moves.
LEMMA SamePc == ASSUME PcOK, UNCHANGED pc PROVE PcOK'
BY DEF PcOK

\* The types hold at first.
LEMMA InitType == Init => TypeOK
<1> SUFFICES ASSUME Init PROVE TypeOK
  OBVIOUS
<1>1. StoreTypeOK
  BY DEF Init, StoreInit, StoreTypeOK
<1>2. PcOK
  BY DEF Init, PcOK, Proc, LoopPcs, TaskPcs, AdminPcs
<1>3. LocalOK
  BY DEF Init, LocalOK, Proc, Jobs
<1>4. ClientOK
  BY DEF Init, ClientOK
<1> QED BY <1>1, <1>2, <1>3, <1>4 DEF TypeOK

\* Producers and subscriptions keep the types.
LEMMA ClientType ==
    ASSUME TypeOK, ClientStep PROVE TypeOK'
<1> USE DEF TypeOK
<1>1. CASE Push
  <2>1. pushed + 1 \in Jobs
    BY <1>1 DEF Push, Jobs, ClientOK
  <2>2. StoreTypeOK'
    BY <1>1, <2>1, LpushFacts DEF Push, setJob, StoreTypeOK
  <2>3. LocalOK' /\ PcOK'
    BY <1>1 DEF Push, LocalOK, PcOK, loopVars, taskVars
  <2>4. ClientOK'
    BY <1>1, <2>1 DEF Push, ClientOK, Jobs, history
  <2> QED BY <2>2, <2>3, <2>4
<1>2. CASE PushDelayed
  <2>1. pushed + 1 \in Jobs
    BY <1>2 DEF PushDelayed, Jobs, ClientOK
  <2>2. StoreTypeOK'
    BY <1>2, <2>1 DEF PushDelayed, setJob, StoreTypeOK
  <2>3. LocalOK' /\ PcOK'
    BY <1>2 DEF PushDelayed, LocalOK, PcOK, loopVars, taskVars
  <2>4. ClientOK'
    BY <1>2, <2>1 DEF PushDelayed, ClientOK, Jobs, history
  <2> QED BY <2>2, <2>3, <2>4
<1>3. ASSUME NEW w \in Subs, Subscribe(w) PROVE TypeOK'
  <2>1. PcOK'
    BY <1>3, GotoLoop DEF Subscribe, LoopPcs
  <2>2. StoreTypeOK' /\ LocalOK' /\ ClientOK'
    BY <1>3 DEF Subscribe, StoreTypeOK, LocalOK, ClientOK, storeVars, loopVars, taskVars, history
  <2> QED BY <2>1, <2>2
<1>4. ASSUME NEW w \in Subs, Unsubscribe(w) PROVE TypeOK'
  <2>1. PcOK'
    BY <1>4 DEF Unsubscribe, PcOK, LoopPcs, TaskPcs, Proc, Inline
  <2>2. \A v \in Subs : Elems(skipped[v]) \subseteq Jobs
    BY DEF LocalOK, Elems
  <2>3. StoreTypeOK' /\ LocalOK'
    BY <1>4 DEF Unsubscribe, StoreTypeOK, LocalOK, storeVars, taskVars
  <2>4. Inline(w) \cup {w} \subseteq Proc
    BY DEF Inline, Proc
  <2>5. ClientOK'
    BY <1>4, <2>2, <2>4 DEF Unsubscribe, ClientOK, LocalOK, clientVars
  <2> QED BY <2>1, <2>3, <2>5
<1> QED BY <1>1, <1>2, <1>3, <1>4 DEF ClientStep

\* The end of a pass leaves the loop at one of its steps.
LEMMA EndPassType == ASSUME PcOK, NEW w \in Subs, endPass(w) PROVE PcOK'
BY GotoLoop DEF endPass, LoopPcs

\* A task is started with a job, an owner and a copy of the budget.
LEMMA StartType ==
    ASSUME StoreTypeOK, LocalOK, ClientOK, NEW w \in Subs, NEW t \in Tasks, NEW first, NEW next,
           start(w, t, first, next)
    PROVE  /\ job' \in [Proc -> Jobs] /\ owner' \in [Tasks -> Subs]
           /\ made' \in [Tasks -> Nat] /\ limit' \in [Tasks -> Nat]
<1>1. job[w] \in Jobs
  BY DEF LocalOK, Proc
<1>2. stamp[job[w]] \in Nat /\ attempts[job[w]] \in Nat
  BY <1>1 DEF ClientOK, StoreTypeOK
<1> QED BY <1>1, <1>2 DEF start, take, LocalOK, Proc

\* The loop of a subscription keeps the types.
LEMMA LoopType ==
    ASSUME TypeOK, NEW w \in Subs, LoopStep(w) PROVE TypeOK'
<1> USE DEF TypeOK, loopVars, taskVars, clientVars, history, storeVars
<1>0. w \in Proc /\ job[w] \in Jobs /\ ClientOK
  BY DEF LocalOK, Proc
<1>1. ASSUME NEW due \in SUBSET delayed, Poll(w, due) PROVE TypeOK'
  <2>1. PcOK'
    BY <1>1, GotoLoop DEF Poll, LoopPcs, LoopHolding
  <2>2. StoreTypeOK'
    BY <1>1, <1>0 DEF Poll, StoreTypeOK
  <2>3. LocalOK'
    BY <1>1, <1>0 DEF Poll, LocalOK, StoreTypeOK
  <2>4. ClientOK'
    BY <1>1 DEF Poll, ClientOK
  <2> QED BY <2>1, <2>2, <2>3, <2>4
<1>2. ASSUME NEW j \in Jobs, MoveZrem(w, j) PROVE TypeOK'
  <2>1. PcOK'
    BY <1>2, GotoLoop, SamePc DEF MoveZrem, LoopPcs, LoopHolding
  <2>2. StoreTypeOK'
    BY <1>2, <1>0 DEF MoveZrem, StoreTypeOK
  <2>3. LocalOK'
    <3>1. job' \in [Proc -> Jobs]
      BY <1>2, <1>0 DEF MoveZrem, LocalOK, take
    <3>2. ready' \in [Subs -> SUBSET Jobs]
      BY <1>2, <1>0 DEF MoveZrem, LocalOK
    <3> QED BY <1>2, <3>1, <3>2, Zenon DEF MoveZrem, LocalOK
  <2>4. ClientOK'
    BY <1>2 DEF MoveZrem, ClientOK
  <2> QED BY <2>1, <2>2, <2>3, <2>4
<1>3. CASE MovePush(w)
  <2>1. PcOK'
    BY <1>3, GotoLoop DEF MovePush, LoopPcs, LoopHolding
  <2>2. StoreTypeOK'
    BY <1>3, <1>0, RpushFacts DEF MovePush, StoreTypeOK
  <2>3. LocalOK'
    BY <1>3, <1>0 DEF MovePush, LocalOK
  <2>4. ClientOK'
    BY <1>3 DEF MovePush, ClientOK
  <2> QED BY <2>1, <2>2, <2>3, <2>4
<1>4. CASE MoveDone(w)
  <2>1. PcOK'
    BY <1>4, GotoLoop DEF MoveDone, LoopPcs, LoopHolding
  <2>2. StoreTypeOK'
    BY <1>4, <1>0 DEF MoveDone, StoreTypeOK
  <2>3. LocalOK'
    BY <1>4, <1>0 DEF MoveDone, LocalOK
  <2>4. ClientOK'
    BY <1>4 DEF MoveDone, ClientOK
  <2> QED BY <2>1, <2>2, <2>3, <2>4
<1>5. CASE PopNone(w)
  <2>1. PcOK'
    BY <1>5, EndPassType DEF PopNone
  <2>2. StoreTypeOK'
    BY <1>5, <1>0 DEF PopNone, StoreTypeOK
  <2>3. LocalOK'
    BY <1>5, <1>0 DEF PopNone, LocalOK
  <2>4. ClientOK'
    BY <1>5 DEF PopNone, ClientOK
  <2> QED BY <2>1, <2>2, <2>3, <2>4
<1>6. CASE PopId(w)
  <2>1. PcOK'
    BY <1>6, GotoLoop DEF PopId, LoopPcs, LoopHolding
  <2>2. waiting \in Seq(Jobs) /\ waiting # <<>>
    BY <1>6 DEF PopId, StoreTypeOK
  <2>3. rpop(waiting) \in Seq(Jobs) /\ back(waiting) \in Jobs
    BY <2>2, RpopFacts
  <2>4. StoreTypeOK' /\ LocalOK'
    BY <1>6, <2>3 DEF PopId, StoreTypeOK, LocalOK, take
  <2>5. ClientOK'
    BY <1>6 DEF PopId, ClientOK
  <2> QED BY <2>1, <2>4, <2>5
<1>7. CASE PopActive(w)
  <2>1. PcOK'
    BY <1>7, GotoLoop DEF PopActive, LoopPcs, LoopHolding
  <2>2. StoreTypeOK'
    BY <1>7, <1>0 DEF PopActive, StoreTypeOK, pushActive
  <2>3. LocalOK'
    BY <1>7, <1>0 DEF PopActive, LocalOK
  <2>4. ClientOK'
    BY <1>7 DEF PopActive, ClientOK
  <2> QED BY <2>1, <2>2, <2>3, <2>4
<1>8. CASE PopMissing(w)
  <2>1. PcOK'
    BY <1>8, EndPassType DEF PopMissing
  <2>2. StoreTypeOK'
    BY <1>8, <1>0 DEF PopMissing, StoreTypeOK
  <2>3. LocalOK'
    BY <1>8, <1>0 DEF PopMissing, LocalOK
  <2>4. ClientOK'
    BY <1>8 DEF PopMissing, ClientOK
  <2> QED BY <2>1, <2>2, <2>3, <2>4
<1>9. ASSUME NEW t \in Tasks, SpawnConcurrent(w, t) PROVE TypeOK'
  <2>1. PcOK'
    BY <1>9, GotoTaskAndLoop DEF SpawnConcurrent, start, LoopPcs, LoopHolding, TaskPcs, TaskHolding
  <2>2. StoreTypeOK'
    BY <1>9, <1>0 DEF SpawnConcurrent, StoreTypeOK
  <2>3. LocalOK'
    <3>1. permits' \in [Subs -> Int]
      BY <1>9 DEF SpawnConcurrent, LocalOK
    <3>2. /\ job' \in [Proc -> Jobs] /\ owner' \in [Tasks -> Subs]
          /\ made' \in [Tasks -> Nat] /\ limit' \in [Tasks -> Nat]
      BY <1>9, StartType DEF SpawnConcurrent
    <3> QED BY <1>9, <3>1, <3>2, Zenon DEF SpawnConcurrent, LocalOK
  <2>4. ClientOK'
    BY <1>9 DEF SpawnConcurrent, ClientOK
  <2> QED BY <2>1, <2>2, <2>3, <2>4
<1>10. ASSUME NEW t \in Tasks, StartFifo(w, t) PROVE TypeOK'
  <2>1. PcOK'
    BY <1>10, GotoTaskAndLoop DEF StartFifo, start, LoopPcs, LoopHolding, TaskPcs, TaskHolding
  <2>2. StoreTypeOK'
    BY <1>10, <1>0 DEF StartFifo, StoreTypeOK
  <2>3. LocalOK'
    BY <1>10, <1>0, StartType DEF StartFifo, LocalOK
  <2>4. ClientOK'
    BY <1>10 DEF StartFifo, ClientOK
  <2> QED BY <2>1, <2>2, <2>3, <2>4
<1>11. ASSUME NEW t \in Tasks, SpawnGrouped(w, t) PROVE TypeOK'
  <2>1. PcOK'
    BY <1>11, GotoTaskAndLoop DEF SpawnGrouped, start, LoopPcs, LoopHolding, TaskPcs, TaskHolding
  <2>2. StoreTypeOK'
    BY <1>11, <1>0 DEF SpawnGrouped, StoreTypeOK
  <2>3. LocalOK'
    <3>1. groups' \in [Subs -> SUBSET {Group[j] : j \in Jobs}]
      BY <1>11, <1>0 DEF SpawnGrouped, LocalOK
    <3>2. /\ job' \in [Proc -> Jobs] /\ owner' \in [Tasks -> Subs]
          /\ made' \in [Tasks -> Nat] /\ limit' \in [Tasks -> Nat]
      BY <1>11, StartType DEF SpawnGrouped
    <3> QED BY <1>11, <3>1, <3>2, Zenon DEF SpawnGrouped, LocalOK
  <2>4. ClientOK'
    BY <1>11 DEF SpawnGrouped, ClientOK
  <2> QED BY <2>1, <2>2, <2>3, <2>4
<1>12. CASE NoPermit(w)
  <2>1. PcOK'
    BY <1>12, GotoLoop DEF NoPermit, LoopPcs, LoopHolding
  <2>2. StoreTypeOK'
    BY <1>12, <1>0 DEF NoPermit, StoreTypeOK
  <2>3. LocalOK'
    BY <1>12, <1>0 DEF NoPermit, LocalOK
  <2>4. ClientOK'
    BY <1>12 DEF NoPermit, ClientOK
  <2> QED BY <2>1, <2>2, <2>3, <2>4
<1>13. CASE Requeue(w)
  <2>1. PcOK'
    BY <1>13, GotoLoop DEF Requeue, LoopPcs, LoopHolding
  <2>2. StoreTypeOK'
    BY <1>13, <1>0, LpushFacts DEF Requeue, StoreTypeOK
  <2>3. LocalOK'
    BY <1>13, <1>0 DEF Requeue, LocalOK
  <2>4. ClientOK'
    BY <1>13 DEF Requeue, ClientOK
  <2> QED BY <2>1, <2>2, <2>3, <2>4
<1>14. CASE RequeueLrem(w)
  <2>1. PcOK'
    BY <1>14, GotoLoop DEF RequeueLrem, LoopPcs, LoopHolding
  <2>2. StoreTypeOK'
    BY <1>14, <1>0 DEF RequeueLrem, StoreTypeOK, lremActive
  <2>3. LocalOK'
    BY <1>14, <1>0 DEF RequeueLrem, LocalOK
  <2>4. ClientOK'
    BY <1>14 DEF RequeueLrem, ClientOK
  <2> QED BY <2>1, <2>2, <2>3, <2>4
<1>15. CASE SkipGrouped(w)
  <2>1. PcOK'
    BY <1>15, GotoLoop DEF SkipGrouped, LoopPcs, LoopHolding
  <2>2. StoreTypeOK'
    BY <1>15, <1>0 DEF SkipGrouped, StoreTypeOK
  <2>3. LocalOK'
    BY <1>15, <1>0 DEF SkipGrouped, LocalOK
  <2>4. ClientOK'
    BY <1>15 DEF SkipGrouped, ClientOK
  <2> QED BY <2>1, <2>2, <2>3, <2>4
<1>16. CASE SkipPush(w)
  <2>1. PcOK'
    BY <1>16, GotoLoop DEF SkipPush, LoopPcs
  <2>2. skipped[w] \in Seq(Jobs) /\ skipped[w] # <<>>
    BY <1>16 DEF SkipPush, LocalOK
  <2>3. Tail(skipped[w]) \in Seq(Jobs) /\ Head(skipped[w]) \in Jobs
    BY <2>2, TailFacts
  <2>4. StoreTypeOK'
    BY <1>16, <2>3, LpushFacts DEF SkipPush, StoreTypeOK
  <2>5. LocalOK'
    BY <1>16, <2>3 DEF SkipPush, LocalOK, take
  <2>6. ClientOK'
    BY <1>16 DEF SkipPush, ClientOK
  <2> QED BY <2>1, <2>4, <2>5, <2>6
<1>17. CASE SkipLrem(w)
  <2>1. PcOK'
    BY <1>17, EndPassType DEF SkipLrem
  <2>2. StoreTypeOK'
    BY <1>17, <1>0 DEF SkipLrem, StoreTypeOK, lremActive
  <2>3. LocalOK'
    BY <1>17, <1>0 DEF SkipLrem, LocalOK
  <2>4. ClientOK'
    BY <1>17 DEF SkipLrem, ClientOK
  <2> QED BY <2>1, <2>2, <2>3, <2>4
<1> QED BY <1>1, <1>2, <1>3, <1>4, <1>5, <1>6, <1>7, <1>8, <1>9, <1>10, <1>11, <1>12, <1>13, <1>14, <1>15, <1>16, <1>17 DEF LoopStep

\* A task that ends gives its slot back and touches no list.
LEMMA FinishType ==
    ASSUME PcOK, LocalOK, NEW t \in Tasks, finish(t)
    PROVE  PcOK' /\ permits' \in [Subs -> Int] /\ UNCHANGED <<ready, skipped, groups>>
<1>1. owner[t] \in Subs
  BY DEF LocalOK
<1>2. PcOK'
  BY <1>1, GotoTask, GotoTaskAndLoop DEF finish, goto, LoopPcs, TaskPcs
<1>3. permits' \in [Subs -> Int]
  BY <1>1 DEF finish, LocalOK
<1> QED BY <1>2, <1>3 DEF finish

\* The task of a job keeps the types.
LEMMA TaskType ==
    ASSUME TypeOK, NEW t \in Tasks, TaskStep(t) PROVE TypeOK'
<1> USE DEF TypeOK, loopVars, taskVars, clientVars, history, storeVars
<1>0. /\ t \in Proc /\ job[t] \in Jobs /\ made[t] \in Nat /\ attempts[job[t]] \in Nat
      /\ limit[t] \in Nat /\ stamp[job[t]] \in Nat /\ override \in Nat
  BY DEF LocalOK, StoreTypeOK, ClientOK, Proc
<1>1. CASE ApplyOverrides(t)
  <2>1. PcOK'
    BY <1>1, GotoTask DEF ApplyOverrides, TaskPcs, TaskHolding
  <2>2. StoreTypeOK'
    BY <1>1, <1>0 DEF ApplyOverrides, StoreTypeOK
  <2>3. LocalOK'
    BY <1>1, <1>0 DEF ApplyOverrides, LocalOK, effective_max_attempts
  <2>4. ClientOK'
    BY <1>1, <1>0 DEF ApplyOverrides, ClientOK
  <2> QED BY <2>1, <2>2, <2>3, <2>4
<1>2. CASE HandleOk(t)
  <2>1. PcOK'
    BY <1>2, GotoTask DEF HandleOk, TaskPcs, TaskHolding
  <2>2. StoreTypeOK'
    BY <1>2, <1>0 DEF HandleOk, StoreTypeOK
  <2>3. LocalOK'
    BY <1>2, <1>0 DEF HandleOk, LocalOK
  <2>4. ClientOK'
    BY <1>2, <1>0 DEF HandleOk, ClientOK
  <2> QED BY <2>1, <2>2, <2>3, <2>4
<1>3. CASE HandleErr(t)
  <2>1. PcOK'
    BY <1>3, GotoTask DEF HandleErr, TaskPcs, TaskHolding
  <2>2. StoreTypeOK'
    BY <1>3, <1>0 DEF HandleErr, StoreTypeOK
  <2>3. LocalOK'
    <3>1. PICK m \in Nat : made' = [made EXCEPT ![t] = m] \/ made' = made
      BY <1>3, <1>0 DEF HandleErr
    <3>2. made \in [Tasks -> Nat]
      BY DEF LocalOK
    <3>3. made' \in [Tasks -> Nat]
      BY <3>1, <3>2
    <3> QED BY <1>3, <3>3, Zenon DEF HandleErr, LocalOK
  <2>4. ClientOK'
    BY <1>3, <1>0 DEF HandleErr, ClientOK
  <2> QED BY <2>1, <2>2, <2>3, <2>4
<1>4. CASE InlineRetry(t)
  <2>1. PcOK'
    BY <1>4, GotoTask DEF InlineRetry, TaskPcs, TaskHolding
  <2>2. StoreTypeOK'
    BY <1>4, <1>0 DEF InlineRetry, StoreTypeOK, setJob
  <2>3. LocalOK'
    BY <1>4, <1>0 DEF InlineRetry, LocalOK
  <2>4. ClientOK'
    BY <1>4, <1>0 DEF InlineRetry, saveLimit, ClientOK
  <2> QED BY <2>1, <2>2, <2>3, <2>4
<1>5. CASE AckLrem(t)
  <2>1. PcOK'
    BY <1>5, GotoTask DEF AckLrem, TaskPcs, TaskHolding
  <2>2. StoreTypeOK'
    BY <1>5, <1>0 DEF AckLrem, StoreTypeOK, lremActive
  <2>3. LocalOK'
    BY <1>5, <1>0 DEF AckLrem, LocalOK
  <2>4. ClientOK'
    BY <1>5, <1>0 DEF AckLrem, ClientOK
  <2> QED BY <2>1, <2>2, <2>3, <2>4
<1>6. CASE AckDelete(t)
  <2>1. PcOK'
    BY <1>6, FinishType DEF AckDelete
  <2>2. StoreTypeOK'
    BY <1>6, <1>0 DEF AckDelete, StoreTypeOK, deleteJob
  <2>3. LocalOK'
    BY <1>6, <1>0, FinishType DEF AckDelete, LocalOK
  <2>4. ClientOK'
    BY <1>6, <1>0 DEF AckDelete, ClientOK
  <2> QED BY <2>1, <2>2, <2>3, <2>4
<1>7. CASE Nack(t)
  <2>1. PcOK'
    BY <1>7, GotoTask DEF Nack, TaskPcs, TaskHolding
  <2>2. StoreTypeOK'
    BY <1>7, <1>0 DEF Nack, StoreTypeOK
  <2>3. LocalOK'
    <3>1. PICK m \in Nat : made' = [made EXCEPT ![t] = m] \/ made' = made
      BY <1>7, <1>0 DEF Nack
    <3>2. made \in [Tasks -> Nat]
      BY DEF LocalOK
    <3>3. made' \in [Tasks -> Nat]
      BY <3>1, <3>2
    <3>4. PICK l \in Nat : limit' = [limit EXCEPT ![t] = l] \/ limit' = limit
      BY <1>7, <1>0 DEF Nack, effective_max_attempts
    <3>5. limit \in [Tasks -> Nat]
      BY DEF LocalOK
    <3>6. limit' \in [Tasks -> Nat]
      BY <3>4, <3>5
    <3> QED BY <1>7, <3>3, <3>6, Zenon DEF Nack, LocalOK
  <2>4. ClientOK'
    BY <1>7, <1>0 DEF Nack, ClientOK
  <2> QED BY <2>1, <2>2, <2>3, <2>4
<1>8. CASE NackGone(t)
  <2>1. PcOK'
    BY <1>8, FinishType DEF NackGone
  <2>2. StoreTypeOK'
    BY <1>8, <1>0 DEF NackGone, StoreTypeOK, lremActive
  <2>3. LocalOK'
    BY <1>8, <1>0, FinishType DEF NackGone, LocalOK
  <2>4. ClientOK'
    BY <1>8, <1>0 DEF NackGone, ClientOK
  <2> QED BY <2>1, <2>2, <2>3, <2>4
<1>9. CASE RetryLrem(t)
  <2>1. PcOK'
    BY <1>9, GotoTask DEF RetryLrem, TaskPcs, TaskHolding
  <2>2. StoreTypeOK'
    BY <1>9, <1>0 DEF RetryLrem, StoreTypeOK, lremActive
  <2>3. LocalOK'
    BY <1>9, <1>0 DEF RetryLrem, LocalOK
  <2>4. ClientOK'
    BY <1>9, <1>0 DEF RetryLrem, ClientOK
  <2> QED BY <2>1, <2>2, <2>3, <2>4
<1>10. CASE RetrySet(t)
  <2>1. PcOK'
    BY <1>10, GotoTask DEF RetrySet, TaskPcs, TaskHolding
  <2>2. StoreTypeOK'
    BY <1>10, <1>0 DEF RetrySet, StoreTypeOK, setJob
  <2>3. LocalOK'
    BY <1>10, <1>0 DEF RetrySet, LocalOK
  <2>4. ClientOK'
    BY <1>10, <1>0 DEF RetrySet, saveLimit, ClientOK
  <2> QED BY <2>1, <2>2, <2>3, <2>4
<1>11. CASE RetryZadd(t)
  <2>1. PcOK'
    BY <1>11, FinishType DEF RetryZadd
  <2>2. StoreTypeOK'
    BY <1>11, <1>0 DEF RetryZadd, StoreTypeOK
  <2>3. LocalOK'
    BY <1>11, <1>0, FinishType DEF RetryZadd, LocalOK
  <2>4. ClientOK'
    BY <1>11, <1>0 DEF RetryZadd, ClientOK
  <2> QED BY <2>1, <2>2, <2>3, <2>4
<1>12. CASE DlqLrem(t)
  <2>1. PcOK'
    BY <1>12, GotoTask DEF DlqLrem, TaskPcs, TaskHolding
  <2>2. StoreTypeOK'
    BY <1>12, <1>0 DEF DlqLrem, StoreTypeOK, lremActive
  <2>3. LocalOK'
    BY <1>12, <1>0 DEF DlqLrem, LocalOK
  <2>4. ClientOK'
    BY <1>12, <1>0 DEF DlqLrem, ClientOK
  <2> QED BY <2>1, <2>2, <2>3, <2>4
<1>13. CASE DlqPush(t)
  <2>1. PcOK'
    BY <1>13, GotoTask DEF DlqPush, TaskPcs, TaskHolding
  <2>2. StoreTypeOK'
    BY <1>13, <1>0, LpushFacts DEF DlqPush, StoreTypeOK
  <2>3. LocalOK'
    BY <1>13 DEF DlqPush, LocalOK
  <2>4. ClientOK'
    BY <1>13, <1>0 DEF DlqPush, saveLimit, ClientOK
  <2> QED BY <2>1, <2>2, <2>3, <2>4
<1>14. CASE DlqDelete(t)
  <2>1. PcOK'
    BY <1>14, FinishType DEF DlqDelete
  <2>2. StoreTypeOK'
    BY <1>14, <1>0 DEF DlqDelete, StoreTypeOK, deleteJob
  <2>3. LocalOK'
    BY <1>14, <1>0, FinishType DEF DlqDelete, LocalOK
  <2>4. ClientOK'
    BY <1>14, <1>0 DEF DlqDelete, ClientOK
  <2> QED BY <2>1, <2>2, <2>3, <2>4
<1>15. CASE Release(t)
  <2>1. PcOK'
    BY <1>15, GotoTask DEF Release, TaskPcs, TaskHolding
  <2>2. StoreTypeOK'
    BY <1>15, <1>0 DEF Release, StoreTypeOK
  <2>3. LocalOK'
    BY <1>15, <1>0 DEF Release, LocalOK
  <2>4. ClientOK'
    BY <1>15, <1>0 DEF Release, ClientOK
  <2> QED BY <2>1, <2>2, <2>3, <2>4
<1> QED BY <1>1, <1>2, <1>3, <1>4, <1>5, <1>6, <1>7, <1>8, <1>9, <1>10, <1>11, <1>12, <1>13, <1>14, <1>15 DEF TaskStep

\* Redrives and discards keep the types.
LEMMA AdminType ==
    ASSUME TypeOK, ListedOnce, AdminStep PROVE TypeOK'
<1> USE DEF TypeOK, loopVars, taskVars, clientVars, history, storeVars
<1>0. Admin \in Proc /\ job[Admin] \in Jobs
  BY DEF LocalOK, Proc
<1>1. CASE Redrive
  <2>1. PcOK'
    BY <1>1, GotoAdmin DEF Redrive, AdminPcs, AdminHolding
  <2>2. StoreTypeOK'
    BY <1>1, <1>0 DEF Redrive, StoreTypeOK
  <2>3. LocalOK'
    BY <1>1, <1>0 DEF Redrive, LocalOK
  <2>4. ClientOK'
    BY <1>1, <1>0 DEF Redrive, ClientOK, call
  <2> QED BY <2>1, <2>2, <2>3, <2>4
<1>2. CASE RedriveRpop
  <2>0. dlq # <<>> => rpop(dlq) \in Seq(Jobs) /\ back(dlq) \in Jobs
    BY RpopFacts DEF StoreTypeOK
  <2>1. PcOK'
    BY <1>2, GotoAdmin DEF RedriveRpop, AdminPcs, AdminHolding
  <2>2. StoreTypeOK'
    BY <1>2, <1>0, <2>0 DEF RedriveRpop, StoreTypeOK
  <2>3. LocalOK'
    <3>1. job' \in [Proc -> Jobs]
      BY <1>2, <1>0, <2>0 DEF RedriveRpop, LocalOK, take
    <3> QED BY <1>2, <3>1, Zenon DEF RedriveRpop, LocalOK
  <2>4. ClientOK'
    BY <1>2, <1>0 DEF RedriveRpop, ClientOK
  <2> QED BY <2>1, <2>2, <2>3, <2>4
<1>3. CASE RedriveSet
  <2>1. PcOK'
    BY <1>3, GotoAdmin DEF RedriveSet, AdminPcs, AdminHolding
  <2>2. StoreTypeOK'
    BY <1>3, <1>0 DEF RedriveSet, StoreTypeOK, setJob
  <2>3. LocalOK'
    BY <1>3, <1>0 DEF RedriveSet, LocalOK
  <2>4. ClientOK'
    BY <1>3, <1>0 DEF RedriveSet, ClientOK
  <2> QED BY <2>1, <2>2, <2>3, <2>4
<1>4. CASE RedrivePush
  <2>1. PcOK'
    BY <1>4, GotoAdmin DEF RedrivePush, AdminPcs, AdminHolding
  <2>2. StoreTypeOK'
    BY <1>4, <1>0, LpushFacts DEF RedrivePush, StoreTypeOK
  <2>3. LocalOK'
    BY <1>4, <1>0 DEF RedrivePush, LocalOK
  <2>4. ClientOK'
    BY <1>4, <1>0 DEF RedrivePush, ClientOK
  <2> QED BY <2>1, <2>2, <2>3, <2>4
<1>5. CASE DiscardDelete
  <2>1. PcOK'
    BY <1>5, GotoAdmin DEF DiscardDelete, AdminPcs, AdminHolding
  <2>2. StoreTypeOK'
    BY <1>5, <1>0 DEF DiscardDelete, StoreTypeOK, deleteJob
  <2>3. LocalOK'
    BY <1>5, <1>0 DEF DiscardDelete, LocalOK
  <2>4. ClientOK'
    BY <1>5, <1>0 DEF DiscardDelete, ClientOK
  <2> QED BY <2>1, <2>2, <2>3, <2>4
<1>6. ASSUME NEW j \in Jobs, RedriveMessage(j) PROVE TypeOK'
  <2>0. lremoveFirst(dlq, j) \in Seq(Jobs)
    BY <1>6, LremoveFirstFacts DEF RedriveMessage, ListedOnce, StoreTypeOK
  <2>1. PcOK'
    BY <1>6, GotoAdmin DEF RedriveMessage, AdminPcs, AdminHolding
  <2>2. StoreTypeOK'
    BY <1>6, <1>0, <2>0 DEF RedriveMessage, StoreTypeOK
  <2>3. LocalOK'
    BY <1>6, <1>0, <2>0 DEF RedriveMessage, LocalOK, take
  <2>4. ClientOK'
    BY <1>6, <1>0 DEF RedriveMessage, ClientOK, call
  <2> QED BY <2>1, <2>2, <2>3, <2>4
<1>7. ASSUME NEW j \in Jobs, Discard(j) PROVE TypeOK'
  <2>0. lremoveFirst(dlq, j) \in Seq(Jobs)
    BY <1>7, LremoveFirstFacts DEF Discard, ListedOnce, StoreTypeOK
  <2>1. PcOK'
    BY <1>7, GotoAdmin DEF Discard, AdminPcs, AdminHolding
  <2>2. StoreTypeOK'
    BY <1>7, <1>0, <2>0 DEF Discard, StoreTypeOK
  <2>3. LocalOK'
    BY <1>7, <1>0, <2>0 DEF Discard, LocalOK, take
  <2>4. ClientOK'
    BY <1>7, <1>0 DEF Discard, ClientOK, call
  <2> QED BY <2>1, <2>2, <2>3, <2>4
<1> QED BY <1>1, <1>2, <1>3, <1>4, <1>5, <1>6, <1>7 DEF AdminStep

\* Every step keeps the types.
LEMMA TypeStep == TypeOK /\ ListedOnce /\ [Next]_vars => TypeOK'
<1> SUFFICES ASSUME TypeOK, ListedOnce, [Next]_vars PROVE TypeOK'
  OBVIOUS
<1>1. CASE Next
  BY <1>1, ClientType, LoopType, TaskType, AdminType DEF Next
<1>2. CASE UNCHANGED vars
  <2>1. StoreTypeOK' /\ PcOK'
    BY <1>2 DEF vars, storeVars, TypeOK, StoreTypeOK, PcOK
  <2>2. LocalOK' /\ ClientOK'
    BY <1>2 DEF vars, loopVars, taskVars, clientVars, history, TypeOK, LocalOK, ClientOK
  <2> QED BY <2>1, <2>2 DEF TypeOK
<1> QED BY <1>1, <1>2

----------------------------------------------------------------------------
(* One place.  A step leaves every id where it is, moves one id from one    *)
(* place to another, or brings a new id in: one lemma for each kind.        *)

Placed == SinglePlace /\ Unborn
(* No id comes from nowhere, but for the one that is pushed. *)
Onward == \A i \in Jobs : Located(i)' => Located(i) \/ i > pushed

(* Ids stay where they are; hands may let go of one and aborted loops       *)
(* forget what they skipped.                                                *)
LEMMA Quiet ==
    ASSUME TypeOK, Placed, UNCHANGED <<waiting, delayed, dlq, job, pushed>>,
           \A v \in Subs : Elems(skipped'[v]) = {} \/ skipped'[v] = skipped[v],
           \A v \in Subs : NoRepeat(skipped[v]) => NoRepeat(skipped'[v]),
           \A q \in Proc : pc'[q] \in Holding => pc[q] \in Holding
    PROVE  Placed' /\ Onward
<1> USE DEF Placed, SinglePlace
<1>1. HeldOnce'
  BY DEF HeldOnce
<1>2. HeldElsewhereNowhere'
  BY DEF HeldElsewhereNowhere
<1>3. ListedOnce'
  BY DEF ListedOnce
<1>4. ListsDisjoint'
  BY DEF ListsDisjoint
<1>5. Onward
  BY DEF Onward, Located, Holds
<1>6. Unborn'
  BY DEF Unborn, Located, Holds
<1> QED BY <1>1, <1>2, <1>3, <1>4, <1>5, <1>6

(* Process p lists the id in its hands in waiting, delayed or the dlq. *)
LEMMA Put ==
    ASSUME TypeOK, Placed, NEW p \in Proc, pc[p] \in Holding,
           UNCHANGED <<skipped, job, pushed>>,
           \A q \in Proc : pc'[q] \in Holding => pc[q] \in Holding /\ q # p,
           NoRepeat(waiting'), NoRepeat(dlq'),
           \/ /\ Elems(waiting') = Elems(waiting) \cup {job[p]}
              /\ delayed' = delayed /\ dlq' = dlq
           \/ /\ Elems(dlq') = Elems(dlq) \cup {job[p]}
              /\ delayed' = delayed /\ waiting' = waiting
           \/ delayed' = delayed \cup {job[p]} /\ waiting' = waiting /\ dlq' = dlq
    PROVE  Placed' /\ Onward
<1> USE DEF Placed, SinglePlace
<1>0. job[p] \notin Elems(waiting) /\ job[p] \notin delayed /\ job[p] \notin Elems(dlq)
      /\ \A w \in Subs : job[p] \notin Elems(skipped[w])
  BY DEF HeldElsewhereNowhere
<1>1. HeldOnce'
  BY DEF HeldOnce
<1>2. \A q \in Proc : pc'[q] \in Holding => job[q] # job[p]
  BY DEF HeldOnce
<1>3. HeldElsewhereNowhere'
  BY <1>2 DEF HeldElsewhereNowhere
<1>4. ListedOnce'
  BY DEF ListedOnce
<1>5. ListsDisjoint'
  BY <1>0 DEF ListsDisjoint
<1>6. \A i \in Jobs : Located(i)' => Located(i)
  <2>1. Located(job[p])
    BY DEF Located, Holds
  <2>2. \A j \in Jobs : Located(j)' => Located(j)
    BY <2>1 DEF Located, Holds
  <2> QED BY <2>2
<1>7. Unborn' /\ Onward
  BY <1>6 DEF Unborn, Onward
<1> QED BY <1>1, <1>3, <1>4, <1>5, <1>6, <1>7

(* Process p, with empty hands, takes id j out of waiting, delayed or the   *)
(* dlq.                                                                     *)
LEMMA TakeOut ==
    ASSUME TypeOK, Placed, NEW p \in Proc, NEW j \in Jobs, pc[p] \notin Holding,
           UNCHANGED <<skipped, pushed>>, job' = [job EXCEPT ![p] = j],
           \A q \in Proc : q # p => pc'[q] = pc[q],
           NoRepeat(waiting'), NoRepeat(dlq'),
           \/ /\ Elems(waiting) = Elems(waiting') \cup {j} /\ j \notin Elems(waiting')
              /\ delayed' = delayed /\ dlq' = dlq
           \/ /\ Elems(dlq) = Elems(dlq') \cup {j} /\ j \notin Elems(dlq')
              /\ delayed' = delayed /\ waiting' = waiting
           \/ j \in delayed /\ delayed' = delayed \ {j} /\ waiting' = waiting /\ dlq' = dlq
    PROVE  Placed' /\ Onward
<1> USE DEF Placed, SinglePlace
<1>0. /\ job \in [Proc -> Jobs] /\ job'[p] = j
      /\ \A q \in Proc : q # p => job'[q] = job[q]
  BY DEF TypeOK, LocalOK
<1>1. /\ Elems(waiting') \subseteq Elems(waiting) /\ Elems(dlq') \subseteq Elems(dlq)
      /\ delayed' \subseteq delayed
  OBVIOUS
<1>2. /\ j \notin Elems(waiting') /\ j \notin delayed' /\ j \notin Elems(dlq')
      /\ \A w \in Subs : j \notin Elems(skipped[w])
  BY DEF ListsDisjoint
<1>3. \A q \in Proc : pc[q] \in Holding => job[q] # j
  BY DEF HeldElsewhereNowhere
<1>4. HeldOnce'
  BY <1>0, <1>3 DEF HeldOnce
<1>5. HeldElsewhereNowhere'
  BY <1>0, <1>1, <1>2 DEF HeldElsewhereNowhere
<1>6. ListedOnce'
  BY DEF ListedOnce
<1>7. ListsDisjoint'
  BY <1>1 DEF ListsDisjoint
<1>8. \A i \in Jobs : Located(i)' => Located(i)
  <2>1. Located(j)
    BY DEF Located
  <2>2. \A i \in Jobs : Located(i)' => Located(i)
    <3> SUFFICES ASSUME NEW i \in Jobs, Located(i)', i # j PROVE Located(i)
      BY <2>1
    <3>1. ASSUME NEW q \in Proc, Holds(q, i)' PROVE Holds(q, i)
      BY <1>0, <3>1 DEF Holds
    <3> QED BY <1>1, <3>1 DEF Located
  <2> QED BY <2>2
<1>9. Unborn' /\ Onward
  BY <1>8 DEF Unborn, Onward
<1> QED BY <1>4, <1>5, <1>6, <1>7, <1>8, <1>9

(* A loop hands the id it popped over to a task. *)
LEMMA Handover ==
    ASSUME TypeOK, Placed, NEW w \in Subs, NEW t \in Tasks, pc[w] \in Holding,
           NEW first, NEW next, next \notin Holding,
           start(w, t, first, next), UNCHANGED <<waiting, delayed, dlq, skipped, pushed>>
    PROVE  Placed' /\ Onward
<1> USE DEF Placed, SinglePlace
<1>0. /\ w \in Proc /\ t \in Proc /\ t # w
      /\ job \in [Proc -> Jobs] /\ pc \in [Proc -> LoopPcs \cup TaskPcs \cup AdminPcs]
  BY DEF TypeOK, LocalOK, PcOK, Proc
<1>1. /\ job'[t] = job[w] /\ pc'[w] \notin Holding
      /\ \A q \in Proc : q # t => job'[q] = job[q]
      /\ \A q \in Proc : q # t /\ q # w => pc'[q] = pc[q]
  BY <1>0 DEF start, take
<1>2. HeldOnce'
  BY <1>0, <1>1 DEF HeldOnce
<1>3. HeldElsewhereNowhere'
  BY <1>0, <1>1 DEF HeldElsewhereNowhere
<1>4. ListedOnce' /\ ListsDisjoint'
  BY DEF ListedOnce, ListsDisjoint
<1>5. \A i \in Jobs : Located(i)' => Located(i)
  <2>1. \A i \in Jobs, q \in Proc : Holds(q, i)' => Holds(w, i) \/ Holds(q, i)
    BY <1>0, <1>1 DEF Holds
  <2> QED BY <1>0, <2>1 DEF Located
<1>6. Unborn' /\ Onward
  BY <1>5 DEF Unborn, Onward
<1> QED BY <1>2, <1>3, <1>4, <1>5, <1>6

(* A grouped loop sets the id in its hands aside. *)
LEMMA SetAside ==
    ASSUME TypeOK, Placed, NEW w \in Subs, pc[w] \in Holding, NEW new,
           UNCHANGED <<waiting, delayed, dlq, job, pushed>>,
           skipped' = [skipped EXCEPT ![w] = new],
           NoRepeat(new), Elems(new) = Elems(skipped[w]) \cup {job[w]},
           \A q \in Proc : pc'[q] \in Holding => pc[q] \in Holding /\ q # w
    PROVE  Placed' /\ Onward
<1> USE DEF Placed, SinglePlace
<1>0. /\ w \in Proc /\ skipped'[w] = new
      /\ \A v \in Subs : v # w => skipped'[v] = skipped[v]
  BY DEF TypeOK, LocalOK, Proc
<1>1. job[w] \notin Elems(waiting) /\ job[w] \notin delayed /\ job[w] \notin Elems(dlq)
      /\ \A v \in Subs : job[w] \notin Elems(skipped[v])
  BY <1>0 DEF HeldElsewhereNowhere
<1>2. HeldOnce'
  BY DEF HeldOnce
<1>3. \A q \in Proc : pc'[q] \in Holding => job[q] # job[w]
  BY <1>0 DEF HeldOnce
<1>4. HeldElsewhereNowhere'
  BY <1>0, <1>3 DEF HeldElsewhereNowhere
<1>5. ListedOnce'
  BY <1>0 DEF ListedOnce
<1>6. ListsDisjoint'
  BY <1>0, <1>1 DEF ListsDisjoint
<1>7. \A i \in Jobs : Located(i)' => Located(i)
  <2>1. Located(job[w])
    BY <1>0 DEF Located, Holds
  <2>2. \A j \in Jobs : Located(j)' => Located(j)
    BY <1>0, <2>1 DEF Located, Holds
  <2> QED BY <2>2
<1>8. Unborn' /\ Onward
  BY <1>7 DEF Unborn, Onward
<1> QED BY <1>2, <1>4, <1>5, <1>6, <1>7, <1>8

(* It puts one of them back in waiting. *)
LEMMA PutBack ==
    ASSUME TypeOK, Placed, NEW w \in Subs, pc[w] \notin Holding, pc'[w] \notin Holding,
           NEW j \in Jobs, NEW rest,
           UNCHANGED <<delayed, dlq, pushed>>, job' = [job EXCEPT ![w] = j],
           skipped' = [skipped EXCEPT ![w] = rest],
           NoRepeat(rest), Elems(skipped[w]) = Elems(rest) \cup {j}, j \notin Elems(rest),
           NoRepeat(waiting'), Elems(waiting') = Elems(waiting) \cup {j},
           \A q \in Proc : q # w => pc'[q] = pc[q]
    PROVE  Placed' /\ Onward
<1> USE DEF Placed, SinglePlace
<1>0. /\ w \in Proc /\ skipped'[w] = rest
      /\ \A v \in Subs : v # w => skipped'[v] = skipped[v]
      /\ \A q \in Proc : q # w => job'[q] = job[q]
  BY DEF TypeOK, LocalOK, Proc
<1>1. \A v \in Subs : Elems(skipped'[v]) \subseteq Elems(skipped[v]) /\ j \notin Elems(skipped'[v])
  BY <1>0 DEF ListsDisjoint
<1>2. j \notin delayed /\ j \notin Elems(dlq) /\ j \notin Elems(waiting)
  BY DEF ListsDisjoint
<1>3. \A q \in Proc : pc[q] \in Holding => job[q] # j
  BY DEF HeldElsewhereNowhere
<1>4. HeldOnce'
  BY <1>0 DEF HeldOnce
<1>5. HeldElsewhereNowhere'
  BY <1>0, <1>1, <1>3 DEF HeldElsewhereNowhere
<1>6. ListedOnce'
  BY <1>0 DEF ListedOnce
<1>7. ListsDisjoint'
  BY <1>0, <1>1, <1>2 DEF ListsDisjoint
<1>8. \A i \in Jobs : Located(i)' => Located(i)
  <2>1. Located(j)
    BY DEF Located
  <2>2. \A i \in Jobs : Located(i)' => Located(i)
    <3>1. \A i \in Jobs, q \in Proc : Holds(q, i)' => Holds(q, i)
      BY <1>0 DEF Holds
    <3> QED BY <1>1, <2>1, <3>1 DEF Located
  <2> QED BY <2>2
<1>9. Unborn' /\ Onward
  BY <1>8 DEF Unborn, Onward
<1> QED BY <1>4, <1>5, <1>6, <1>7, <1>8, <1>9

(* A producer lists a new id in waiting or in delayed. *)
LEMMA BringIn ==
    ASSUME TypeOK, Placed, pushed < MaxJobs, pushed' = pushed + 1,
           UNCHANGED <<dlq, skipped, pc, job>>,
           \/ /\ Elems(waiting') = Elems(waiting) \cup {pushed + 1} /\ delayed' = delayed
              /\ pushed + 1 \notin Elems(waiting) => NoRepeat(waiting')
           \/ waiting' = waiting /\ delayed' = delayed \cup {pushed + 1}
    PROVE  Placed' /\ Onward
<1> USE DEF Placed, SinglePlace
<1> DEFINE j == pushed + 1
<1>1. j \in Jobs /\ j > pushed /\ \A i \in Jobs : i > pushed' => i > pushed /\ i # j
  BY DEF TypeOK, ClientOK, Jobs
<1>2. ~Located(j)
  BY <1>1 DEF Unborn
<1>3. /\ pushed + 1 \notin Elems(waiting) /\ pushed + 1 \notin delayed
      /\ pushed + 1 \notin Elems(dlq)
      /\ \A w \in Subs : pushed + 1 \notin Elems(skipped[w])
      /\ \A q \in Proc : pc[q] \in Holding => job[q] # pushed + 1
  BY <1>2 DEF Located, Holds
<1>4. HeldOnce'
  BY DEF HeldOnce
<1>5. HeldElsewhereNowhere'
  BY <1>3 DEF HeldElsewhereNowhere
<1>6. ListedOnce'
  BY <1>3 DEF ListedOnce
<1>7. ListsDisjoint'
  BY <1>3 DEF ListsDisjoint
<1>8. \A i \in Jobs : Located(i)' => Located(i) \/ i = j
  BY DEF Located, Holds
<1>9. Unborn' /\ Onward
  BY <1>1, <1>8 DEF Unborn, Onward
<1> QED BY <1>4, <1>5, <1>6, <1>7, <1>9

(* What finish does to the hands: it empties those of task t. *)
LEMMA FinishHands ==
    ASSUME TypeOK, NEW t \in Tasks, finish(t)
    PROVE  /\ \A q \in Proc : pc'[q] \in Holding => pc[q] \in Holding /\ q # t
           /\ UNCHANGED skipped
<1>1. owner[t] \in Subs /\ owner[t] # t
  BY DEF TypeOK, LocalOK
<1>2. pc \in [Proc -> LoopPcs \cup TaskPcs \cup AdminPcs]
  BY DEF TypeOK, PcOK
<1>3. /\ "none" \notin Holding /\ "idle" \notin Holding /\ "release" \notin Holding
  BY DEF Holding, LoopHolding, TaskHolding, AdminHolding
<1>4. \/ pc' = [pc EXCEPT ![t] = "none"]
      \/ pc' = [pc EXCEPT ![t] = "none", ![owner[t]] = "idle"]
      \/ pc' = [pc EXCEPT ![t] = "release"]
  BY DEF finish
<1>5. \A q \in Proc : pc'[q] \in Holding => pc[q] \in Holding /\ q # t
  <2>1. CASE pc' = [pc EXCEPT ![t] = "none"]
    BY <1>2, <1>3, <2>1
  <2>2. CASE pc' = [pc EXCEPT ![t] = "none", ![owner[t]] = "idle"]
    BY <1>1, <1>2, <1>3, <2>2
  <2>3. CASE pc' = [pc EXCEPT ![t] = "release"]
    BY <1>2, <1>3, <2>3
  <2> QED BY <1>4, <2>1, <2>2, <2>3
<1> QED BY <1>5 DEF finish

(* What goto does to them. *)
LEMMA GotoHands ==
    ASSUME TypeOK, NEW p \in Proc, NEW next, goto(p, next)
    PROVE  /\ pc'[p] = next
           /\ \A q \in Proc : q # p => pc'[q] = pc[q]
BY DEF TypeOK, PcOK, goto

(* Where a process has nothing in its hands. *)
LEMMA FreePcs ==
    \A l \in {"idle", "move", "pop", "skip_push", "skip_lrem", "requeue_lrem", "none",
               "redrive_rpop"} : l \notin Holding
BY DEF Holding, LoopHolding, TaskHolding, AdminHolding

\* Whoever moves out of the holding steps no longer has its job in hand.
LEMMA LetGo ==
    ASSUME TypeOK, NEW p \in Proc, NEW next, goto(p, next), next \notin Holding
    PROVE  \A q \in Proc : pc'[q] \in Holding => pc[q] \in Holding /\ q # p
BY GotoHands

\* The loop moves a job from one place to one other.
LEMMA LoopPlaced ==
    ASSUME TypeOK, Placed, NEW w \in Subs, LoopStep(w) PROVE Placed' /\ Onward
<1> USE DEF loopVars, taskVars, clientVars, history, storeVars
<1>0. /\ w \in Proc /\ job[w] \in Jobs /\ waiting \in Seq(Jobs) /\ dlq \in Seq(Jobs)
      /\ NoRepeat(waiting) /\ NoRepeat(dlq) /\ NoRepeat(skipped[w])
      /\ skipped \in [Subs -> Seq(Jobs)]
  BY DEF TypeOK, StoreTypeOK, LocalOK, Proc, Placed, SinglePlace, ListedOnce
<1>00. pc[w] \in Holding => /\ job[w] \notin Elems(waiting) /\ job[w] \notin Elems(dlq)
                            /\ \A v \in Subs : job[w] \notin Elems(skipped[v])
  BY <1>0 DEF Placed, SinglePlace, HeldElsewhereNowhere
<1>1. ASSUME NEW due \in SUBSET delayed, Poll(w, due) PROVE Placed' /\ Onward
  <2>1. \A q \in Proc : pc'[q] \in Holding => pc[q] \in Holding
    BY <1>1, <1>0, LetGo, FreePcs DEF Poll
  <2> QED BY <1>1, <2>1, Quiet DEF Poll
<1>2. ASSUME NEW j \in Jobs, MoveZrem(w, j) PROVE Placed' /\ Onward
  <2>1. CASE j \in delayed
    <3>1. pc[w] \notin Holding /\ \A q \in Proc : q # w => pc'[q] = pc[q]
      BY <1>2, <1>0, <2>1, GotoHands DEF MoveZrem, Holding, LoopHolding, TaskHolding, AdminHolding
    <3> QED BY <1>2, <1>0, <2>1, <3>1, TakeOut DEF MoveZrem, take
  <2>2. CASE j \notin delayed
    BY <1>2, <2>2, Quiet DEF MoveZrem
  <2> QED BY <2>1, <2>2
<1>3. CASE MovePush(w)
  <2>1. pc[w] \in Holding /\ \A q \in Proc : pc'[q] \in Holding => pc[q] \in Holding /\ q # w
    BY <1>3, <1>0, GotoHands DEF MovePush, Holding, LoopHolding, TaskHolding, AdminHolding
  <2>2. waiting' = rpush(waiting, job[w])
    BY <1>3 DEF MovePush
  <2>3. NoRepeat(waiting') /\ Elems(waiting') = Elems(waiting) \cup {job[w]}
    BY <1>0, <1>00, <2>1, <2>2, PushNew
  <2> QED BY <1>3, <1>0, <2>1, <2>3, Put DEF MovePush
<1>4. CASE MoveDone(w)
  <2>1. \A q \in Proc : pc'[q] \in Holding => pc[q] \in Holding
    BY <1>4, <1>0, LetGo, FreePcs DEF MoveDone
  <2> QED BY <1>4, <2>1, Quiet DEF MoveDone
<1>5. CASE PopNone(w)
  <2>1. \A q \in Proc : pc'[q] \in Holding => pc[q] \in Holding
    BY <1>5, <1>0, LetGo, FreePcs DEF PopNone, endPass
  <2> QED BY <1>5, <2>1, Quiet DEF PopNone
<1>6. CASE PopId(w)
  <2>1. pc[w] \notin Holding /\ \A q \in Proc : q # w => pc'[q] = pc[q]
    BY <1>6, <1>0, GotoHands DEF PopId, Holding, LoopHolding, TaskHolding, AdminHolding
  <2>2. waiting # <<>>
    BY <1>6 DEF PopId
  <2>3. /\ back(waiting) \in Jobs /\ NoRepeat(rpop(waiting))
        /\ Elems(waiting) = Elems(rpop(waiting)) \cup {back(waiting)}
        /\ back(waiting) \notin Elems(rpop(waiting))
    BY <1>0, <2>2, RpopFacts
  <2> QED BY <1>6, <1>0, <2>1, <2>3, TakeOut DEF PopId, take
<1>7. CASE PopActive(w)
  <2>1. \A q \in Proc : pc'[q] \in Holding => pc[q] \in Holding
    BY <1>7, <1>0, GotoHands DEF PopActive, Holding, LoopHolding, TaskHolding, AdminHolding
  <2> QED BY <1>7, <2>1, Quiet DEF PopActive
<1>8. CASE PopMissing(w)
  <2>1. \A q \in Proc : pc'[q] \in Holding => pc[q] \in Holding
    BY <1>8, <1>0, LetGo, FreePcs DEF PopMissing, endPass
  <2> QED BY <1>8, <2>1, Quiet DEF PopMissing
<1>9. ASSUME NEW t \in Tasks, SpawnConcurrent(w, t) PROVE Placed' /\ Onward
  BY <1>9, Handover DEF SpawnConcurrent, Holding, LoopHolding, TaskHolding, AdminHolding
<1>10. ASSUME NEW t \in Tasks, StartFifo(w, t) PROVE Placed' /\ Onward
  BY <1>10, Handover DEF StartFifo, Holding, LoopHolding, TaskHolding, AdminHolding
<1>11. ASSUME NEW t \in Tasks, SpawnGrouped(w, t) PROVE Placed' /\ Onward
  BY <1>11, Handover DEF SpawnGrouped, Holding, LoopHolding, TaskHolding, AdminHolding
<1>12. CASE NoPermit(w)
  <2>1. \A q \in Proc : pc'[q] \in Holding => pc[q] \in Holding
    BY <1>12, <1>0, GotoHands DEF NoPermit, Holding, LoopHolding, TaskHolding, AdminHolding
  <2> QED BY <1>12, <2>1, Quiet DEF NoPermit
<1>13. CASE Requeue(w)
  <2>1. pc[w] \in Holding /\ \A q \in Proc : pc'[q] \in Holding => pc[q] \in Holding /\ q # w
    BY <1>13, <1>0, GotoHands DEF Requeue, Holding, LoopHolding, TaskHolding, AdminHolding
  <2>2. waiting' = lpush(waiting, job[w])
    BY <1>13 DEF Requeue
  <2>3. NoRepeat(waiting') /\ Elems(waiting') = Elems(waiting) \cup {job[w]}
    BY <1>0, <1>00, <2>1, <2>2, PushNew
  <2> QED BY <1>13, <1>0, <2>1, <2>3, Put DEF Requeue
<1>14. CASE RequeueLrem(w)
  <2>1. \A q \in Proc : pc'[q] \in Holding => pc[q] \in Holding
    BY <1>14, <1>0, LetGo, FreePcs DEF RequeueLrem
  <2> QED BY <1>14, <2>1, Quiet DEF RequeueLrem
<1>15. CASE SkipGrouped(w)
  <2> DEFINE new == Append(skipped[w], job[w])
  <2>1. pc[w] \in Holding /\ \A q \in Proc : pc'[q] \in Holding => pc[q] \in Holding /\ q # w
    BY <1>15, <1>0, GotoHands DEF SkipGrouped, Holding, LoopHolding, TaskHolding, AdminHolding
  <2>2. NoRepeat(new) /\ Elems(new) = Elems(skipped[w]) \cup {job[w]}
    BY <1>0, <1>00, <2>1, PushNew DEF rpush
  <2>3. skipped' = [skipped EXCEPT ![w] = new]
    BY <1>15 DEF SkipGrouped
  <2> HIDE DEF new
  <2> QED BY <1>15, <1>0, <2>1, <2>2, <2>3, SetAside DEF SkipGrouped
<1>16. CASE SkipPush(w)
  <2> DEFINE j == Head(skipped[w])
             rest == Tail(skipped[w])
  <2>1. /\ pc[w] \notin Holding /\ pc'[w] \notin Holding
        /\ \A q \in Proc : q # w => pc'[q] = pc[q]
    BY <1>16, <1>0, GotoHands DEF SkipPush, Holding, LoopHolding, TaskHolding, AdminHolding
  <2>2. skipped[w] # <<>>
    BY <1>16 DEF SkipPush
  <2>3. /\ j \in Jobs /\ NoRepeat(rest) /\ Elems(skipped[w]) = Elems(rest) \cup {j}
        /\ j \notin Elems(rest)
    BY <1>0, <2>2, TailFacts
  <2>4. j \notin Elems(waiting)
    BY <2>3 DEF Placed, SinglePlace, ListsDisjoint
  <2>5. NoRepeat(waiting') /\ Elems(waiting') = Elems(waiting) \cup {j}
    <3>1. waiting' = lpush(waiting, j)
      BY <1>16 DEF SkipPush
    <3>2. j \in Jobs /\ waiting \in Seq(Jobs) /\ NoRepeat(waiting)
      BY <1>0, <2>3
    <3> HIDE DEF j
    <3> QED BY <2>4, <3>1, <3>2, PushNew
  <2>6. skipped' = [skipped EXCEPT ![w] = rest] /\ job' = [job EXCEPT ![w] = j]
    BY <1>16 DEF SkipPush, take
  <2> HIDE DEF j, rest
  <2> QED BY <1>16, <1>0, <2>1, <2>3, <2>5, <2>6, PutBack DEF SkipPush
<1>17. CASE SkipLrem(w)
  <2>1. \A q \in Proc : pc'[q] \in Holding => pc[q] \in Holding
    BY <1>17, <1>0, LetGo, FreePcs DEF SkipLrem, endPass
  <2> QED BY <1>17, <2>1, Quiet DEF SkipLrem
<1> QED BY <1>1, <1>2, <1>3, <1>4, <1>5, <1>6, <1>7, <1>8, <1>9, <1>10, <1>11, <1>12, <1>13, <1>14, <1>15, <1>16, <1>17 DEF LoopStep

\* So does the task of a job.
LEMMA TaskPlaced ==
    ASSUME TypeOK, Placed, NEW t \in Tasks, TaskStep(t) PROVE Placed' /\ Onward
<1> USE DEF loopVars, taskVars, clientVars, history, storeVars
<1>0. /\ t \in Proc /\ job[t] \in Jobs /\ waiting \in Seq(Jobs) /\ dlq \in Seq(Jobs)
      /\ NoRepeat(waiting) /\ NoRepeat(dlq)
  BY DEF TypeOK, StoreTypeOK, LocalOK, Proc, Placed, SinglePlace, ListedOnce
<1>00. pc[t] \in Holding => job[t] \notin Elems(dlq)
  BY <1>0 DEF Placed, SinglePlace, HeldElsewhereNowhere
<1>1. CASE ApplyOverrides(t)
  <2>1. \A q \in Proc : pc'[q] \in Holding => pc[q] \in Holding
    BY <1>1, <1>0, GotoHands DEF ApplyOverrides, Holding, LoopHolding, TaskHolding, AdminHolding
  <2> QED BY <1>1, <2>1, Quiet DEF ApplyOverrides
<1>2. CASE HandleOk(t)
  <2>1. \A q \in Proc : pc'[q] \in Holding => pc[q] \in Holding
    BY <1>2, <1>0, GotoHands DEF HandleOk, Holding, LoopHolding, TaskHolding, AdminHolding
  <2> QED BY <1>2, <2>1, Quiet DEF HandleOk
<1>3. CASE HandleErr(t)
  <2>1. \A q \in Proc : pc'[q] \in Holding => pc[q] \in Holding
    BY <1>3, <1>0, GotoHands DEF HandleErr, Holding, LoopHolding, TaskHolding, AdminHolding
  <2> QED BY <1>3, <2>1, Quiet DEF HandleErr
<1>4. CASE InlineRetry(t)
  <2>1. \A q \in Proc : pc'[q] \in Holding => pc[q] \in Holding
    BY <1>4, <1>0, GotoHands DEF InlineRetry, Holding, LoopHolding, TaskHolding, AdminHolding
  <2> QED BY <1>4, <2>1, Quiet DEF InlineRetry
<1>5. CASE AckLrem(t)
  <2>1. \A q \in Proc : pc'[q] \in Holding => pc[q] \in Holding
    BY <1>5, <1>0, GotoHands DEF AckLrem, Holding, LoopHolding, TaskHolding, AdminHolding
  <2> QED BY <1>5, <2>1, Quiet DEF AckLrem
<1>6. CASE Nack(t)
  <2>1. \A q \in Proc : pc'[q] \in Holding => pc[q] \in Holding
    BY <1>6, <1>0, GotoHands DEF Nack, Holding, LoopHolding, TaskHolding, AdminHolding
  <2> QED BY <1>6, <2>1, Quiet DEF Nack
<1>7. CASE RetryLrem(t)
  <2>1. \A q \in Proc : pc'[q] \in Holding => pc[q] \in Holding
    BY <1>7, <1>0, GotoHands DEF RetryLrem, Holding, LoopHolding, TaskHolding, AdminHolding
  <2> QED BY <1>7, <2>1, Quiet DEF RetryLrem
<1>8. CASE RetrySet(t)
  <2>1. \A q \in Proc : pc'[q] \in Holding => pc[q] \in Holding
    BY <1>8, <1>0, GotoHands DEF RetrySet, Holding, LoopHolding, TaskHolding, AdminHolding
  <2> QED BY <1>8, <2>1, Quiet DEF RetrySet
<1>9. CASE DlqLrem(t)
  <2>1. \A q \in Proc : pc'[q] \in Holding => pc[q] \in Holding
    BY <1>9, <1>0, GotoHands DEF DlqLrem, Holding, LoopHolding, TaskHolding, AdminHolding
  <2> QED BY <1>9, <2>1, Quiet DEF DlqLrem
<1>10. CASE Release(t)
  <2>1. \A q \in Proc : pc'[q] \in Holding => pc[q] \in Holding
    BY <1>10, <1>0, LetGo, FreePcs DEF Release
  <2> QED BY <1>10, <2>1, Quiet DEF Release
<1>11. CASE AckDelete(t)
  BY <1>11, FinishHands, Quiet DEF AckDelete
<1>12. CASE NackGone(t)
  BY <1>12, FinishHands, Quiet DEF NackGone
<1>13. CASE DlqDelete(t)
  BY <1>13, FinishHands, Quiet DEF DlqDelete
<1>14. CASE RetryZadd(t)
  <2>1. pc[t] \in Holding
    BY <1>14 DEF RetryZadd, Holding, LoopHolding, TaskHolding, AdminHolding
  <2> QED BY <1>14, <1>0, <2>1, FinishHands, Put DEF RetryZadd
<1>15. CASE DlqPush(t)
  <2>1. pc[t] \in Holding /\ \A q \in Proc : pc'[q] \in Holding => pc[q] \in Holding /\ q # t
    BY <1>15, <1>0, GotoHands DEF DlqPush, Holding, LoopHolding, TaskHolding, AdminHolding
  <2>2. dlq' = lpush(dlq, job[t])
    BY <1>15 DEF DlqPush
  <2>3. NoRepeat(dlq') /\ Elems(dlq') = Elems(dlq) \cup {job[t]}
    BY <1>0, <1>00, <2>1, <2>2, PushNew
  <2> QED BY <1>15, <1>0, <2>1, <2>3, Put DEF DlqPush
<1> QED BY <1>1, <1>2, <1>3, <1>4, <1>5, <1>6, <1>7, <1>8, <1>9, <1>10, <1>11, <1>12, <1>13, <1>14, <1>15 DEF TaskStep

\* So do redrives and discards.
LEMMA AdminPlaced ==
    ASSUME TypeOK, Placed, AdminStep PROVE Placed' /\ Onward
<1> USE DEF loopVars, taskVars, clientVars, history, storeVars
<1>0. /\ Admin \in Proc /\ job[Admin] \in Jobs /\ waiting \in Seq(Jobs) /\ dlq \in Seq(Jobs)
      /\ NoRepeat(waiting) /\ NoRepeat(dlq)
  BY DEF TypeOK, StoreTypeOK, LocalOK, Proc, Placed, SinglePlace, ListedOnce
<1>00. pc[Admin] \in Holding => job[Admin] \notin Elems(waiting)
  BY <1>0 DEF Placed, SinglePlace, HeldElsewhereNowhere
<1>1. CASE Redrive
  <2>1. \A q \in Proc : pc'[q] \in Holding => pc[q] \in Holding
    BY <1>1, <1>0, LetGo, FreePcs DEF Redrive
  <2> QED BY <1>1, <2>1, Quiet DEF Redrive
<1>2. CASE RedriveRpop
  <2>1. CASE dlq = <<>>
    <3>1. \A q \in Proc : pc'[q] \in Holding => pc[q] \in Holding
      BY <1>2, <1>0, <2>1, GotoHands DEF RedriveRpop, Holding, LoopHolding, TaskHolding, AdminHolding
    <3> QED BY <1>2, <2>1, <3>1, Quiet DEF RedriveRpop
  <2>2. CASE dlq # <<>>
    <3>1. pc[Admin] \notin Holding /\ \A q \in Proc : q # Admin => pc'[q] = pc[q]
      BY <1>2, <1>0, <2>2, GotoHands DEF RedriveRpop, Holding, LoopHolding, TaskHolding, AdminHolding
    <3>2. /\ back(dlq) \in Jobs /\ NoRepeat(rpop(dlq))
          /\ Elems(dlq) = Elems(rpop(dlq)) \cup {back(dlq)}
          /\ back(dlq) \notin Elems(rpop(dlq))
      BY <1>0, <2>2, RpopFacts
    <3>3. job' = [job EXCEPT ![Admin] = back(dlq)] /\ dlq' = rpop(dlq)
      BY <1>2, <2>2 DEF RedriveRpop, take
    <3> QED BY <1>2, <1>0, <3>1, <3>2, <3>3, TakeOut DEF RedriveRpop
  <2> QED BY <2>1, <2>2
<1>3. ASSUME NEW j \in Jobs, RedriveMessage(j) PROVE Placed' /\ Onward
  <2>1. pc[Admin] \notin Holding /\ \A q \in Proc : q # Admin => pc'[q] = pc[q]
    BY <1>3, <1>0, GotoHands DEF RedriveMessage, call, Holding, LoopHolding, TaskHolding, AdminHolding
  <2>2. /\ NoRepeat(dlq') /\ Elems(dlq) = Elems(dlq') \cup {j} /\ j \notin Elems(dlq')
    BY <1>3, <1>0, LremoveFirstFacts DEF RedriveMessage
  <2> QED BY <1>3, <1>0, <2>1, <2>2, TakeOut DEF RedriveMessage, take
<1>4. ASSUME NEW j \in Jobs, Discard(j) PROVE Placed' /\ Onward
  <2>1. pc[Admin] \notin Holding /\ \A q \in Proc : q # Admin => pc'[q] = pc[q]
    BY <1>4, <1>0, GotoHands DEF Discard, call, Holding, LoopHolding, TaskHolding, AdminHolding
  <2>2. /\ NoRepeat(dlq') /\ Elems(dlq) = Elems(dlq') \cup {j} /\ j \notin Elems(dlq')
    BY <1>4, <1>0, LremoveFirstFacts DEF Discard
  <2> QED BY <1>4, <1>0, <2>1, <2>2, TakeOut DEF Discard, take
<1>5. CASE RedriveSet
  <2>1. \A q \in Proc : pc'[q] \in Holding => pc[q] \in Holding
    BY <1>5, <1>0, GotoHands DEF RedriveSet, Holding, LoopHolding, TaskHolding, AdminHolding
  <2> QED BY <1>5, <2>1, Quiet DEF RedriveSet
<1>6. CASE RedrivePush
  <2>1. pc[Admin] \in Holding /\ \A q \in Proc : pc'[q] \in Holding => pc[q] \in Holding /\ q # Admin
    BY <1>6, <1>0, GotoHands DEF RedrivePush, Holding, LoopHolding, TaskHolding, AdminHolding
  <2>2. waiting' = lpush(waiting, job[Admin])
    BY <1>6 DEF RedrivePush
  <2>3. NoRepeat(waiting') /\ Elems(waiting') = Elems(waiting) \cup {job[Admin]}
    BY <1>0, <1>00, <2>1, <2>2, PushNew
  <2> QED BY <1>6, <1>0, <2>1, <2>3, Put DEF RedrivePush
<1>7. CASE DiscardDelete
  <2>1. \A q \in Proc : pc'[q] \in Holding => pc[q] \in Holding
    BY <1>7, <1>0, GotoHands DEF DiscardDelete, Holding, LoopHolding, TaskHolding, AdminHolding
  <2> QED BY <1>7, <2>1, Quiet DEF DiscardDelete
<1> QED BY <1>1, <1>2, <1>3, <1>4, <1>5, <1>6, <1>7 DEF AdminStep

\* A push brings in one new job.
LEMMA ClientPlaced ==
    ASSUME TypeOK, Placed, ClientStep PROVE Placed' /\ Onward
<1> USE DEF loopVars, taskVars, clientVars, history, storeVars
<1>0. pushed + 1 \in Jobs \/ pushed >= MaxJobs
  BY DEF TypeOK, ClientOK, Jobs
<1>1. CASE Push
  <2>1. pushed < MaxJobs /\ pushed + 1 \in Jobs
    BY <1>1, <1>0 DEF Push, TypeOK, ClientOK
  <2>2. waiting \in Seq(Jobs) /\ NoRepeat(waiting) /\ waiting' = lpush(waiting, pushed + 1)
    BY <1>1 DEF Push, TypeOK, StoreTypeOK, Placed, SinglePlace, ListedOnce
  <2>3. /\ Elems(waiting') = Elems(waiting) \cup {pushed + 1}
        /\ pushed + 1 \notin Elems(waiting) => NoRepeat(waiting')
    BY <2>1, <2>2, LpushFacts
  <2> QED BY <1>1, <2>1, <2>3, BringIn DEF Push
<1>2. CASE PushDelayed
  BY <1>2, BringIn DEF PushDelayed
<1>3. ASSUME NEW w \in Subs, Subscribe(w) PROVE Placed' /\ Onward
  <2>1. w \in Proc
    BY DEF Proc
  <2>2. \A q \in Proc : pc'[q] \in Holding => pc[q] \in Holding
    BY <1>3, <2>1, GotoHands DEF Subscribe, Holding, LoopHolding, TaskHolding, AdminHolding
  <2> QED BY <1>3, <2>2, Quiet DEF Subscribe
<1>4. ASSUME NEW w \in Subs, Unsubscribe(w) PROVE Placed' /\ Onward
  <2>1. \A q \in Proc : pc'[q] \in Holding => pc[q] \in Holding
    BY <1>4 DEF Unsubscribe, Holding, LoopHolding, TaskHolding, AdminHolding
  <2>2. Elems(<<>>) = {} /\ NoRepeat(<<>>)
    BY DEF Elems, NoRepeat
  <2>3. skipped' = [skipped EXCEPT ![w] = <<>>] /\ skipped \in [Subs -> Seq(Jobs)]
    BY <1>4 DEF Unsubscribe, TypeOK, LocalOK
  <2>4. \A v \in Subs : skipped'[v] = <<>> \/ skipped'[v] = skipped[v]
    BY <2>3
  <2>5. /\ \A v \in Subs : Elems(skipped'[v]) = {} \/ skipped'[v] = skipped[v]
        /\ \A v \in Subs : NoRepeat(skipped[v]) => NoRepeat(skipped'[v])
    BY <2>2, <2>4
  <2> QED BY <1>4, <2>1, <2>5, Quiet DEF Unsubscribe
<1> QED BY <1>1, <1>2, <1>3, <1>4 DEF ClientStep

\* At first there are no jobs.
LEMMA InitPlaced == Init => Placed
<1> SUFFICES ASSUME Init PROVE Placed
  OBVIOUS
<1>1. Elems(<<>>) = {} /\ NoRepeat(<<>>)
  BY DEF Elems, NoRepeat
<1>2. \A p \in Proc : pc[p] \notin Holding
  BY DEF Init, Holding, LoopHolding, TaskHolding, AdminHolding
<1>3. waiting = <<>> /\ dlq = <<>> /\ delayed = {} /\ \A w \in Subs : skipped[w] = <<>>
  BY DEF Init, StoreInit
<1>4. SinglePlace
  BY <1>1, <1>2, <1>3 DEF SinglePlace, HeldOnce, HeldElsewhereNowhere, ListedOnce, ListsDisjoint
<1>5. Unborn
  BY <1>1, <1>2, <1>3 DEF Unborn, Located, Holds
<1> QED BY <1>4, <1>5 DEF Placed

\* Every step keeps the places apart and no job comes back.
LEMMA Moves == IInv /\ [Next]_vars => IInv' /\ Onward
<1> SUFFICES ASSUME TypeOK, Placed, [Next]_vars PROVE TypeOK' /\ Placed' /\ Onward
  BY DEF IInv, Placed
<1>1. TypeOK'
  BY TypeStep DEF Placed, SinglePlace
<1>2. ASSUME Next PROVE Placed' /\ Onward
  BY <1>2, ClientPlaced, LoopPlaced, TaskPlaced, AdminPlaced DEF Next
<1>3. ASSUME UNCHANGED vars PROVE Placed' /\ Onward
  BY <1>3, Quiet DEF vars, storeVars, loopVars, clientVars
<1> QED BY <1>1, <1>2, <1>3

\* Every step keeps the invariant.
LEMMA InductiveStep == IInv /\ [Next]_vars => IInv'
BY Moves

\* The invariant holds at first.
LEMMA InitInv == Init => IInv
BY InitType, InitPlaced DEF IInv, Placed

(* The invariant the other theorems build on. *)
THEOREM Invariant == Spec => []IInv
BY InitInv, InductiveStep, PTL DEF Spec

(* Type correctness of the queue for every instance: no interleaving of     *)
(* producers, subscriber loops, handler tasks and operator calls takes a    *)
(* list, a record, a counter or a process out of its type (queue.rs).       *)
THEOREM TypeCorrect == Spec => []TypeOK
<1>1. IInv => TypeOK
  BY DEF IInv
<1> QED BY <1>1, Invariant, PTL

(* A job is in one place, once, for every number of jobs, subscriptions and *)
(* handler tasks: no interleaving makes two tasks handle it or lists it a   *)
(* second time (queue.rs pop, nack, move_delayed_to_waiting, requeue,       *)
(* dlq_redrive, unsubscribe).                                               *)
THEOREM OnePlace == Spec => []SinglePlace
<1>1. IInv => SinglePlace
  BY DEF IInv
<1> QED BY <1>1, Invariant, PTL

----------------------------------------------------------------------------
(* Settled jobs.  They were pushed, so that a later push does not bring one  *)
(* of them in again, and they are nowhere.                                  *)
Past == \A j \in finished \cup stranded : j <= pushed /\ ~Located(j)

\* The loop settles no job.
LEMMA LoopHistory ==
    ASSUME NEW w \in Subs, LoopStep(w) PROVE UNCHANGED <<finished, stranded, pushed>>
BY DEF LoopStep, Poll, MoveZrem, MovePush, MoveDone, PopNone, PopId, PopActive, PopMissing,
       SpawnConcurrent, StartFifo, SpawnGrouped, NoPermit, Requeue, RequeueLrem, SkipGrouped,
       SkipPush, SkipLrem, history, clientVars

\* Of a task's steps only the deletion after the handler's success settles a
\* job.
LEMMA TaskHistory ==
    ASSUME NEW t \in Tasks, TaskStep(t)
    PROVE  UNCHANGED <<stranded, pushed>> /\ (AckDelete(t) \/ UNCHANGED finished)
BY DEF TaskStep, ApplyOverrides, HandleOk, HandleErr, InlineRetry, AckLrem, AckDelete, Nack,
       NackGone, RetryLrem, RetrySet, RetryZadd, DlqLrem, DlqPush, DlqDelete, Release,
       history, clientVars

\* Of the operator's steps only a discard settles a job.
LEMMA AdminHistory ==
    ASSUME AdminStep
    PROVE  UNCHANGED <<stranded, pushed>> /\ (DiscardDelete \/ UNCHANGED finished)
BY DEF AdminStep, Redrive, RedriveRpop, RedriveMessage, RedriveSet, RedrivePush, Discard,
       DiscardDelete, history, clientVars

(* An id that leaves the hands of p and goes nowhere is nowhere. *)
LEMMA Settles ==
    ASSUME IInv, NEW p \in Proc, pc[p] \in Holding,
           \A q \in Proc : pc'[q] \in Holding => pc[q] \in Holding /\ q # p,
           UNCHANGED <<waiting, delayed, dlq, job>>,
           \A v \in Subs : Elems(skipped'[v]) \subseteq Elems(skipped[v])
    PROVE  job[p] <= pushed /\ ~Located(job[p])'
<1>1. job[p] \in Jobs /\ Located(job[p])
  BY DEF IInv, TypeOK, LocalOK, Located, Holds
<1>2. job[p] <= pushed
  BY <1>1 DEF IInv, Unborn, TypeOK, ClientOK, Jobs
<1>3. /\ job[p] \notin Elems(waiting) /\ job[p] \notin delayed /\ job[p] \notin Elems(dlq)
      /\ \A w \in Subs : job[p] \notin Elems(skipped[w])
  BY DEF IInv, SinglePlace, HeldElsewhereNowhere
<1>4. \A q \in Proc : pc'[q] \in Holding => job[q] # job[p]
  BY DEF IInv, SinglePlace, HeldOnce
<1>5. job'[p] = job[p]
  OBVIOUS
<1> QED BY <1>2, <1>3, <1>4, <1>5 DEF Located, Holds

\* Every step leaves what is settled settled.
LEMMA PastStep ==
    ASSUME IInv, Past, [Next]_vars PROVE Past'
<1>1. Onward /\ IInv'
  BY Moves
<1>2. /\ finished \subseteq Jobs /\ stranded \subseteq Jobs /\ pushed \in Nat
      /\ pushed' = pushed \/ pushed' = pushed + 1
  <2>1. pushed' = pushed \/ pushed' = pushed + 1
    BY LoopHistory, TaskHistory, AdminHistory
    DEF Next, ClientStep, Push, PushDelayed, Subscribe, Unsubscribe, vars, clientVars
  <2> QED BY <2>1 DEF IInv, TypeOK, ClientOK
<1>3. \A j \in finished \cup stranded : j <= pushed' /\ ~Located(j)'
  <2> SUFFICES ASSUME NEW j \in finished \cup stranded PROVE j <= pushed' /\ ~Located(j)'
    OBVIOUS
  <2>1. j \in Jobs /\ j \in Nat /\ j <= pushed /\ ~Located(j)
    BY <1>2 DEF Past, Jobs
  <2>2. ~Located(j)'
    BY <1>1, <1>2, <2>1 DEF Onward
  <2> QED BY <1>2, <2>1, <2>2
<1>4. ASSUME UNCHANGED <<finished, stranded>> PROVE Past'
  BY <1>3, <1>4 DEF Past
<1>5. ASSUME NEW t \in Tasks, AckDelete(t) PROVE Past'
  <2>1. /\ t \in Proc /\ pc[t] \in Holding /\ UNCHANGED <<waiting, delayed, dlq, job, pushed, stranded>>
        /\ finished' = finished \cup {job[t]} /\ finish(t)
    BY <1>5 DEF AckDelete, Proc, Holding, TaskHolding, clientVars
  <2>2. job[t] <= pushed /\ ~Located(job[t])'
    BY <2>1, FinishHands, Settles DEF IInv
  <2> QED BY <1>3, <2>1, <2>2 DEF Past
<1>6. CASE DiscardDelete
  <2>1. /\ Admin \in Proc /\ pc[Admin] \in Holding
        /\ UNCHANGED <<waiting, delayed, dlq, job, pushed, stranded, skipped>>
        /\ finished' = finished \cup {job[Admin]} /\ goto(Admin, "idle")
    BY <1>6 DEF DiscardDelete, Proc, Holding, AdminHolding, clientVars, loopVars
  <2>2. \A q \in Proc : pc'[q] \in Holding => pc[q] \in Holding /\ q # Admin
    BY <2>1, LetGo, FreePcs DEF IInv
  <2>3. job[Admin] <= pushed /\ ~Located(job[Admin])'
    BY <2>1, <2>2, Settles
  <2> QED BY <1>3, <2>1, <2>3 DEF Past
<1>7. ASSUME NEW w \in Subs, Unsubscribe(w) PROVE Past'
  <2> DEFINE dropped == {q \in Inline(w) \cup {w} : pc[q] \in Holding}
  <2>1. /\ stranded' = stranded \cup Elems(skipped[w]) \cup {job[p] : p \in dropped}
        /\ UNCHANGED <<waiting, delayed, dlq, job, pushed, finished>>
        /\ skipped' = [skipped EXCEPT ![w] = <<>>]
    BY <1>7 DEF Unsubscribe, storeVars, clientVars
  <2>2. \A q \in Proc : pc'[q] \in Holding => pc[q] \in Holding /\ q \notin Inline(w) \cup {w}
    BY <1>7 DEF Unsubscribe, Holding, LoopHolding, TaskHolding, AdminHolding
  <2>3. skipped'[w] = <<>> /\ \A v \in Subs : v # w => skipped'[v] = skipped[v]
    BY <2>1 DEF IInv, TypeOK, LocalOK
  <2>4. Elems(<<>>) = {}
    BY DEF Elems
  <2>5. \A v \in Subs : Elems(skipped'[v]) \subseteq Elems(skipped[v])
    BY <2>3, <2>4
  <2>6. ASSUME NEW p \in dropped PROVE job[p] <= pushed /\ ~Located(job[p])'
    <3>1. p \in Proc /\ pc[p] \in Holding
      BY DEF Inline, Proc
    <3>2. \A q \in Proc : pc'[q] \in Holding => pc[q] \in Holding /\ q # p
      BY <2>2
    <3> QED BY <2>1, <2>5, <3>1, <3>2, Settles
  <2>7. ASSUME NEW j \in Elems(skipped[w]) PROVE j <= pushed /\ ~Located(j)'
    <3>1. j \in Jobs
      BY DEF IInv, TypeOK, LocalOK, Elems
    <3>2. j <= pushed
      <4>1. Located(j)
        BY DEF Located
      <4> QED BY <3>1, <4>1 DEF IInv, Unborn, TypeOK, ClientOK, Jobs
    <3>3. j \notin Elems(waiting) /\ j \notin delayed /\ j \notin Elems(dlq)
      BY DEF IInv, SinglePlace, ListsDisjoint
    <3>4. \A v \in Subs : j \notin Elems(skipped'[v])
      BY <2>3, <2>4 DEF IInv, SinglePlace, ListsDisjoint
    <3>5. \A q \in Proc : pc'[q] \in Holding => job[q] # j
      BY <2>2 DEF IInv, SinglePlace, HeldElsewhereNowhere
    <3> QED BY <2>1, <3>2, <3>3, <3>4, <3>5 DEF Located, Holds
  <2> HIDE DEF dropped
  <2>8. \A j \in finished' \cup stranded' :
          \/ j \in finished \cup stranded \/ j \in Elems(skipped[w])
          \/ \E p \in dropped : j = job[p]
    BY <2>1
  <2>9. \A j \in finished' \cup stranded' : j <= pushed' /\ ~Located(j)'
    <3> SUFFICES ASSUME NEW j \in finished' \cup stranded' PROVE j <= pushed' /\ ~Located(j)'
      OBVIOUS
    <3>1. CASE j \in finished \cup stranded
      BY <1>3, <3>1
    <3>2. CASE j \in Elems(skipped[w])
      BY <2>1, <2>7, <3>2
    <3>3. CASE \E p \in dropped : j = job[p]
      BY <2>1, <2>6, <3>3
    <3> QED BY <2>8, <3>1, <3>2, <3>3
  <2> QED BY <2>9 DEF Past
<1>8. CASE ClientStep
  <2>1. \A w \in Subs : Subscribe(w) => UNCHANGED <<finished, stranded>>
    BY DEF Subscribe, history
  <2>2. Push \/ PushDelayed => UNCHANGED <<finished, stranded>>
    BY DEF Push, PushDelayed, history
  <2> QED BY <1>4, <1>7, <1>8, <2>1, <2>2 DEF ClientStep
<1>9. CASE UNCHANGED vars
  BY <1>4, <1>9 DEF vars, history
<1> QED BY <1>4, <1>5, <1>6, <1>8, <1>9, LoopHistory, TaskHistory, AdminHistory DEF Next

(* What ack, dlq_discard_message and unsubscribe take out of the queue never *)
(* comes back, whatever retries, moves and redrives are under way then.     *)
THEOREM SettledForGood == Spec => []NoResurrection
<1>1. Init => Past
  BY DEF Init, Past
<1>2. IInv /\ Past /\ [Next]_vars => Past'
  BY PastStep
<1>3. Past => NoResurrection
  BY DEF Past, NoResurrection
<1> QED BY <1>1, <1>2, <1>3, Invariant, PTL DEF Spec

----------------------------------------------------------------------------
(* Permits and groups. *)

(* A grouped subscription: every task at work has its group to itself, and    *)
(* the set of groups, which is what the loop counts, has one for each task;  *)
(* between the count and the insertion nobody but the loop adds to it.       *)
Popping == {"pop_active", "pop_load"}
Grouped(w) ==
    /\ IsFiniteSet(groups[w]) /\ Cardinality(groups[w]) = Cardinality(TasksOf(w))
    /\ Cardinality(groups[w]) <= Concurrency
    /\ pc[w] \in Popping => Cardinality(groups[w]) < Concurrency
    /\ \A t \in TasksOf(w) : Group[job[t]] \in groups[w]
    /\ \A t, u \in TasksOf(w) : Group[job[t]] = Group[job[u]] => t = u
Permitted(w) == permits[w] = Cardinality(TasksOf(w)) /\ permits[w] <= Concurrency
Slots ==
    /\ \A w \in Subs : Mode[w] = "concurrent" => Permitted(w)
    /\ \A w \in Subs : Mode[w] = "grouped" => Grouped(w)
    /\ \A t \in Tasks : pc[t] = "release" => Mode[owner[t]] = "grouped"

\* A subscription has finitely many tasks.
LEMMA TasksFinite == \A w \in Subs : IsFiniteSet(TasksOf(w)) /\ Cardinality(TasksOf(w)) \in Nat
<1> SUFFICES ASSUME NEW w \in Subs PROVE IsFiniteSet(TasksOf(w)) /\ Cardinality(TasksOf(w)) \in Nat
  OBVIOUS
<1>1. TasksOf(w) \in SUBSET Tasks
  BY DEF TasksOf
<1>2. IsFiniteSet(TasksOf(w))
  BY <1>1, FS_Subset
<1> QED BY <1>2, FS_CardinalityType

(* No task starts or ends. *)
LEMMA SlotsKept ==
    ASSUME Slots, UNCHANGED <<owner, permits, groups>>,
           \A t \in Tasks : /\ pc'[t] = "none" <=> pc[t] = "none"
                            /\ job'[t] = job[t]
                            /\ pc'[t] = "release" => pc[t] = "release" \/ Mode[owner[t]] = "grouped",
           \A w \in Subs : pc'[w] \in Popping => pc[w] \in Popping \/ ~groupsFull(w)
    PROVE  Slots'
<1>1. \A w \in Subs : TasksOf(w)' = TasksOf(w)
  BY DEF TasksOf
<1>2. ASSUME NEW w \in Subs, Mode[w] = "concurrent" PROVE Permitted(w)'
  BY <1>1, <1>2 DEF Slots, Permitted
<1>3. ASSUME NEW w \in Subs, Mode[w] = "grouped" PROVE Grouped(w)'
  <2>1. Grouped(w) /\ TasksOf(w)' = TasksOf(w) /\ TasksOf(w) \subseteq Tasks
    BY <1>1, <1>3 DEF Slots, TasksOf
  <2>2. Cardinality(groups[w]) \in Nat
    BY <2>1, FS_CardinalityType DEF Grouped
  <2>3. pc'[w] \in Popping => Cardinality(groups[w]) < Concurrency
    BY <1>3, <2>1, <2>2 DEF Grouped, groupsFull
  <2> QED BY <2>1, <2>3 DEF Grouped
<1>4. \A t \in Tasks : pc'[t] = "release" => Mode[owner[t]] = "grouped"
  BY DEF Slots
<1> QED BY <1>2, <1>3, <1>4 DEF Slots

(* A task starts. *)
LEMMA Started ==
    ASSUME TypeOK, Slots, NEW w \in Subs, NEW t \in Tasks, NEW first \in {"start", "handle"},
           NEW next, next \notin Popping, start(w, t, first, next),
           \A v \in Subs : v # w => permits'[v] = permits[v] /\ groups'[v] = groups[v],
           Mode[w] = "concurrent" => permits[w] < Concurrency /\ permits'[w] = permits[w] + 1,
           Mode[w] = "grouped" => /\ pc[w] \in Popping /\ Group[job[w]] \notin groups[w]
                                  /\ groups'[w] = groups[w] \cup {Group[job[w]]}
    PROVE  Slots'
<1>0. /\ w \in Proc /\ t \in Proc /\ w # t /\ pc[t] = "none" /\ pc'[t] = first /\ pc'[w] = next
      /\ \A q \in Proc : q # w /\ q # t => pc'[q] = pc[q]
      /\ job'[t] = job[w] /\ \A q \in Proc : q # t => job'[q] = job[q]
      /\ owner'[t] = w /\ \A u \in Tasks : u # t => owner'[u] = owner[u]
  BY DEF start, take, TypeOK, PcOK, LocalOK, Proc
<1>00. Subs \subseteq Proc /\ Tasks \subseteq Proc /\ Subs \cap Tasks = {}
  BY DEF Proc
<1>1. TasksOf(w)' = TasksOf(w) \cup {t} /\ t \notin TasksOf(w)
  BY <1>0, <1>00 DEF TasksOf
<1>2. \A v \in Subs : v # w => TasksOf(v)' = TasksOf(v)
  BY <1>0, <1>00 DEF TasksOf
<1>3. IsFiniteSet(TasksOf(w)) /\ Cardinality(TasksOf(w)) \in Nat
  BY TasksFinite
<1>4. Cardinality(TasksOf(w)') = Cardinality(TasksOf(w)) + 1
  BY <1>1, <1>3, FS_AddElement
<1>5. ASSUME NEW v \in Subs, Mode[v] = "concurrent" PROVE Permitted(v)'
  <2>1. Permitted(v)
    BY <1>5 DEF Slots
  <2>2. CASE v = w
    BY <1>3, <1>4, <1>5, <2>1, <2>2 DEF Permitted
  <2>3. CASE v # w
    BY <1>2, <2>1, <2>3 DEF Permitted
  <2> QED BY <2>2, <2>3
<1>6. ASSUME NEW v \in Subs, Mode[v] = "grouped" PROVE Grouped(v)'
  <2>1. Grouped(v) /\ TasksOf(v) \subseteq Tasks
    BY <1>6 DEF Slots, TasksOf
  <2>2. CASE v = w
    <3> DEFINE g == Group[job[w]]
    <3>1. /\ pc[w] \in Popping /\ g \notin groups[w] /\ groups'[w] = groups[w] \cup {g}
      BY <1>6, <2>2
    <3> HIDE DEF g
    <3>2. IsFiniteSet(groups[w]) /\ Cardinality(groups[w]) \in Nat
      BY <2>1, <2>2, FS_CardinalityType DEF Grouped
    <3>3. IsFiniteSet(groups'[w]) /\ Cardinality(groups'[w]) = Cardinality(groups[w]) + 1
      <4>1. /\ IsFiniteSet(groups[w] \cup {g})
            /\ Cardinality(groups[w] \cup {g}) = IF g \in groups[w] THEN Cardinality(groups[w])
                                                 ELSE Cardinality(groups[w]) + 1
        BY <3>2, FS_AddElement
      <4> QED BY <3>1, <4>1
    <3>4. Cardinality(groups[w]) < Concurrency /\ Cardinality(groups[w]) = Cardinality(TasksOf(w))
      BY <2>1, <2>2, <3>1 DEF Grouped
    <3>5. Cardinality(groups'[w]) = Cardinality(TasksOf(w)') /\ Cardinality(groups'[w]) <= Concurrency
      BY <1>4, <3>2, <3>3, <3>4
    <3>6. \A u \in TasksOf(w) : u # t /\ job'[u] = job[u] /\ Group[job[u]] \in groups[w] /\ Group[job[u]] # g
      BY <1>0, <1>00, <1>1, <2>1, <2>2, <3>1 DEF Grouped
    <3>7. Group[job'[t]] = g
      BY <1>0 DEF g
    <3>8. \A u \in TasksOf(w)' : Group[job'[u]] \in groups'[w]
      BY <1>1, <3>1, <3>6, <3>7
    <3>9. \A u, x \in TasksOf(w)' : Group[job'[u]] = Group[job'[x]] => u = x
      BY <1>1, <2>1, <2>2, <3>6, <3>7 DEF Grouped
    <3> QED BY <1>0, <2>2, <3>3, <3>5, <3>8, <3>9 DEF Grouped
  <2>3. CASE v # w
    <3>1. /\ TasksOf(v)' = TasksOf(v) /\ groups'[v] = groups[v] /\ pc'[v] = pc[v]
          /\ t \notin TasksOf(v) /\ \A u \in TasksOf(v) : job'[u] = job[u]
      BY <1>0, <1>00, <1>2, <2>1, <2>3 DEF TasksOf
    <3> QED BY <2>1, <3>1 DEF Grouped
  <2> QED BY <2>2, <2>3
<1>7. \A u \in Tasks : pc'[u] = "release" => Mode[owner'[u]] = "grouped"
  BY <1>0, <1>00 DEF Slots
<1> QED BY <1>5, <1>6, <1>7 DEF Slots

(* A task ends. *)
LEMMA Ended ==
    ASSUME TypeOK, Slots, NEW t \in Tasks, pc[t] # "none", pc'[t] = "none", UNCHANGED <<job, owner>>,
           \A u \in Tasks : u # t => pc'[u] = pc[u],
           \A v \in Subs : v # owner[t] => permits'[v] = permits[v] /\ groups'[v] = groups[v],
           \A v \in Subs : pc'[v] \in Popping => pc[v] \in Popping,
           Mode[owner[t]] = "concurrent" => permits'[owner[t]] = permits[owner[t]] - 1,
           Mode[owner[t]] = "grouped" => groups'[owner[t]] = groups[owner[t]] \ {Group[job[t]]}
    PROVE  Slots'
<1>0. owner[t] \in Subs
  BY DEF TypeOK, LocalOK
<1>1. PICK w \in Subs : w = owner[t]
  BY <1>0
<1>2. TasksOf(w)' = TasksOf(w) \ {t} /\ t \in TasksOf(w)
  BY <1>1 DEF TasksOf
<1>3. \A v \in Subs : v # w => TasksOf(v)' = TasksOf(v)
  BY <1>1 DEF TasksOf
<1>4. IsFiniteSet(TasksOf(w)) /\ Cardinality(TasksOf(w)) \in Nat
  BY TasksFinite
<1>5. Cardinality(TasksOf(w)') = Cardinality(TasksOf(w)) - 1
  <2>1. PICK T : T = TasksOf(w)
    OBVIOUS
  <2>2. IsFiniteSet(T) /\ t \in T
    BY <1>2, <1>4, <2>1
  <2>3. Cardinality(T \ {t}) = Cardinality(T) - 1
    BY <2>2, FS_RemoveElement
  <2> QED BY <1>2, <2>1, <2>3
<1>6. ASSUME NEW v \in Subs, Mode[v] = "concurrent" PROVE Permitted(v)'
  <2>1. Permitted(v)
    BY <1>6 DEF Slots
  <2>2. CASE v = w
    BY <1>1, <1>4, <1>5, <1>6, <2>1, <2>2 DEF Permitted
  <2>3. CASE v # w
    BY <1>1, <1>3, <2>1, <2>3 DEF Permitted
  <2> QED BY <2>2, <2>3
<1>7. ASSUME NEW v \in Subs, Mode[v] = "grouped" PROVE Grouped(v)'
  <2>1. Grouped(v)
    BY <1>7 DEF Slots
  <2>2. CASE v = w
    <3> DEFINE g == Group[job[t]]
    <3>1. groups'[w] = groups[w] \ {g}
      BY <1>1, <1>7, <2>2
    <3>2. g \in groups[w] /\ \A u \in TasksOf(w) : u # t => Group[job[u]] # g
      BY <1>2, <2>1, <2>2 DEF Grouped
    <3>3. IsFiniteSet(groups[w]) /\ Cardinality(groups[w]) \in Nat
      BY <2>1, <2>2, FS_CardinalityType DEF Grouped
    <3> HIDE DEF g
    <3>4. IsFiniteSet(groups'[w]) /\ Cardinality(groups'[w]) = Cardinality(groups[w]) - 1
      <4>1. PICK G : G = groups[w]
        OBVIOUS
      <4>2. IsFiniteSet(G) /\ g \in G
        BY <3>2, <3>3, <4>1
      <4>3. IsFiniteSet(G \ {g}) /\ Cardinality(G \ {g}) = Cardinality(G) - 1
        BY <4>2, FS_RemoveElement
      <4> QED BY <3>1, <4>1, <4>3
    <3>5. /\ Cardinality(groups[w]) = Cardinality(TasksOf(w)) /\ Cardinality(groups[w]) <= Concurrency
      BY <2>1, <2>2 DEF Grouped
    <3>6. Cardinality(groups'[w]) = Cardinality(TasksOf(w)') /\ Cardinality(groups'[w]) < Concurrency
      BY <1>5, <3>3, <3>4, <3>5
    <3>7. \A u \in TasksOf(w)' : Group[job[u]] \in groups'[w]
      BY <1>2, <2>1, <2>2, <3>1, <3>2 DEF Grouped
    <3>8. \A u, x \in TasksOf(w)' : Group[job[u]] = Group[job[x]] => u = x
      BY <1>2, <2>1, <2>2 DEF Grouped
    <3> QED BY <2>2, <3>3, <3>4, <3>6, <3>7, <3>8 DEF Grouped
  <2>3. CASE v # w
    <3>1. TasksOf(v)' = TasksOf(v) /\ groups'[v] = groups[v]
      BY <1>1, <1>3, <2>3
    <3> QED BY <2>1, <3>1 DEF Grouped
  <2> QED BY <2>2, <2>3
<1>8. \A u \in Tasks : pc'[u] = "release" => Mode[owner'[u]] = "grouped"
  BY DEF Slots
<1> QED BY <1>6, <1>7, <1>8 DEF Slots

(* A loop or the operator goes on; no task is concerned. *)
LEMMA SlotsElsewhere ==
    ASSUME TypeOK, Slots, NEW p \in Proc \ Tasks, \A q \in Proc : q # p => pc'[q] = pc[q] /\ job'[q] = job[q],
           UNCHANGED <<owner, permits, groups>>,
           p \in Subs /\ pc'[p] \in Popping => pc[p] \in Popping \/ ~groupsFull(p)
    PROVE  Slots'
<1>1. \A t \in Tasks : pc'[t] = pc[t] /\ job'[t] = job[t]
  BY DEF Proc
<1>2. \A w \in Subs : pc'[w] \in Popping => pc[w] \in Popping \/ ~groupsFull(w)
  BY DEF Proc
<1> QED BY <1>1, <1>2, SlotsKept

(* A task goes on. *)
LEMMA SlotsInside ==
    ASSUME TypeOK, Slots, NEW t \in Tasks, NEW next \in TaskPcs \ {"none", "release"}, pc[t] # "none",
           goto(t, next), UNCHANGED <<job, owner, permits, groups>>
    PROVE  Slots'
<1>1. t \in Proc /\ Tasks \subseteq Proc /\ Subs \subseteq Proc /\ t \notin Subs
  BY DEF Proc
<1>2. pc'[t] = next /\ \A q \in Proc : q # t => pc'[q] = pc[q]
  BY <1>1, GotoHands
<1> QED BY <1>1, <1>2, SlotsKept

\* The loop starts a task only with a slot for it.
LEMMA LoopSlots ==
    ASSUME TypeOK, Slots, NEW w \in Subs, LoopStep(w) PROVE Slots'
<1> USE DEF loopVars, taskVars
<1>0. w \in Proc \ Tasks /\ w \in Proc
  BY DEF Proc
<1>1. \A x : goto(w, x) => pc'[w] = x /\ \A q \in Proc : q # w => pc'[q] = pc[q]
  BY <1>0, GotoHands
<1>2. \A j : take(w, j) => \A q \in Proc : q # w => job'[q] = job[q]
  BY DEF take, TypeOK, LocalOK
<1>3. "idle" \notin Popping /\ "move" \notin Popping /\ "pop" \notin Popping /\ "skip_push" \notin Popping
      /\ "move_push" \notin Popping /\ "requeue" \notin Popping /\ "requeue_lrem" \notin Popping
      /\ "skip_lrem" \notin Popping /\ "busy" \notin Popping
  BY DEF Popping
<1>4. CASE \E due \in SUBSET delayed : Poll(w, due)
  BY <1>0, <1>1, <1>3, <1>4, SlotsElsewhere DEF Poll
<1>5. CASE \E j \in Jobs : MoveZrem(w, j)
  <2>1. PICK j \in Jobs : MoveZrem(w, j)
    BY <1>5
  <2>2. CASE j \in delayed
    BY <1>0, <1>1, <1>2, <1>3, <2>1, <2>2, SlotsElsewhere DEF MoveZrem
  <2>3. CASE j \notin delayed
    BY <1>0, <2>1, <2>3, SlotsElsewhere DEF MoveZrem
  <2> QED BY <2>2, <2>3
<1>6. CASE MovePush(w) \/ MoveDone(w)
  BY <1>0, <1>1, <1>3, <1>6, SlotsElsewhere DEF MovePush, MoveDone
<1>7. CASE PopNone(w) \/ PopMissing(w) \/ SkipLrem(w)
  BY <1>0, <1>1, <1>3, <1>7, SlotsElsewhere DEF PopNone, PopMissing, SkipLrem, endPass
<1>8. CASE PopId(w)
  BY <1>0, <1>1, <1>2, <1>8, SlotsElsewhere DEF PopId
<1>9. CASE PopActive(w)
  <2>1. pc[w] \in Popping
    BY <1>9 DEF PopActive, Popping
  <2> QED BY <1>0, <1>1, <1>9, <2>1, SlotsElsewhere DEF PopActive
<1>10. CASE NoPermit(w) \/ Requeue(w) \/ RequeueLrem(w)
  BY <1>0, <1>1, <1>3, <1>10, SlotsElsewhere DEF NoPermit, Requeue, RequeueLrem
<1>11. CASE SkipGrouped(w)
  BY <1>0, <1>1, <1>3, <1>11, SlotsElsewhere DEF SkipGrouped
<1>12. CASE SkipPush(w)
  BY <1>0, <1>1, <1>2, <1>3, <1>12, SlotsElsewhere DEF SkipPush
<1>13. ASSUME NEW t \in Tasks, SpawnConcurrent(w, t) PROVE Slots'
  <2>1. /\ Mode[w] = "concurrent" /\ permits[w] < Concurrency /\ start(w, t, "handle", "pop")
        /\ permits' = [permits EXCEPT ![w] = @ + 1] /\ UNCHANGED groups
    BY <1>13 DEF SpawnConcurrent
  <2>2. permits'[w] = permits[w] + 1 /\ \A v \in Subs : v # w => permits'[v] = permits[v]
    BY <2>1 DEF TypeOK, LocalOK
  <2> QED BY <1>3, <2>1, <2>2, Started
<1>14. ASSUME NEW t \in Tasks, StartFifo(w, t) PROVE Slots'
  <2>1. Mode[w] = "fifo" /\ start(w, t, "start", "busy") /\ UNCHANGED <<permits, groups>>
    BY <1>14 DEF StartFifo
  <2> QED BY <1>3, <2>1, Started
<1>15. ASSUME NEW t \in Tasks, SpawnGrouped(w, t) PROVE Slots'
  <2>1. /\ Mode[w] = "grouped" /\ start(w, t, "start", "pop") /\ UNCHANGED permits
        /\ Group[job[w]] \notin groups[w]
        /\ groups' = [groups EXCEPT ![w] = @ \cup {Group[job[w]]}] /\ pc[w] \in Popping
    BY <1>15 DEF SpawnGrouped, Popping
  <2>2. /\ groups'[w] = groups[w] \cup {Group[job[w]]}
        /\ \A v \in Subs : v # w => groups'[v] = groups[v]
    BY <2>1 DEF TypeOK, LocalOK
  <2> QED BY <1>3, <2>1, <2>2, Started
<1> QED BY <1>4, <1>5, <1>6, <1>7, <1>8, <1>9, <1>10, <1>11, <1>12, <1>13, <1>14, <1>15 DEF LoopStep

(* finish gives the permit back with the task, and keeps the group until     *)
(* Release.                                                                 *)
LEMMA FinishSlots ==
    ASSUME TypeOK, Slots, NEW t \in Tasks, pc[t] # "none", finish(t), UNCHANGED <<job, owner>>
    PROVE  Slots'
<1> DEFINE w == owner[t]
<1>0. /\ w \in Subs /\ w \in Proc /\ t \in Proc /\ w # t /\ w \notin Tasks
      /\ Tasks \subseteq Proc /\ Subs \subseteq Proc /\ t \notin Subs
      /\ Mode[w] \in {"concurrent", "fifo", "grouped"}
  BY DEF TypeOK, LocalOK, Proc
<1>1. pc \in [Proc -> LoopPcs \cup TaskPcs \cup AdminPcs] /\ permits \in [Subs -> Int] /\ UNCHANGED groups
  BY DEF TypeOK, PcOK, LocalOK, finish
<1> HIDE DEF w
<1>2. CASE Mode[w] = "grouped"
  <2>1. pc' = [pc EXCEPT ![t] = "release"] /\ UNCHANGED permits
    BY <1>2 DEF finish, inline, w
  <2>2. /\ pc'[t] = "release" /\ \A q \in Proc : q # t => pc'[q] = pc[q]
    BY <1>0, <1>1, <2>1
  <2>3. Mode[owner[t]] = "grouped"
    BY <1>2 DEF w
  <2> QED BY <1>0, <1>1, <2>1, <2>2, <2>3, SlotsKept
<1>3. CASE Mode[w] # "grouped"
  <2>1. pc' = [pc EXCEPT ![t] = "none"] \/ pc' = [pc EXCEPT ![t] = "none", ![w] = "idle"]
    BY <1>0, <1>3 DEF finish, w
  <2>2. /\ pc'[t] = "none" /\ (\A q \in Proc : q # t /\ q # w => pc'[q] = pc[q])
        /\ pc'[w] = pc[w] \/ pc'[w] = "idle"
    <3>1. CASE pc' = [pc EXCEPT ![t] = "none"]
      BY <1>0, <1>1, <3>1
    <3>2. CASE pc' = [pc EXCEPT ![t] = "none", ![w] = "idle"]
      BY <1>0, <1>1, <3>2
    <3> QED BY <2>1, <3>1, <3>2
  <2>3. /\ \A v \in Subs : v # w => permits'[v] = permits[v]
        /\ Mode[w] = "concurrent" => permits'[w] = permits[w] - 1
    BY <1>0, <1>1 DEF finish, inline, w
  <2>4. \A v \in Subs : pc'[v] \in Popping => pc[v] \in Popping
    BY <1>0, <2>2 DEF Popping
  <2>5. \A u \in Tasks : u # t => pc'[u] = pc[u]
    BY <1>0, <2>2
  <2> QED BY <1>1, <1>3, <2>2, <2>3, <2>4, <2>5, Ended DEF w
<1> QED BY <1>2, <1>3

\* A task keeps its slot until it ends.
LEMMA TaskSlots ==
    ASSUME TypeOK, Slots, NEW t \in Tasks, TaskStep(t) PROVE Slots'
<1> USE DEF loopVars, taskVars
<1>1. {"handle", "ack_lrem", "dlq_lrem", "sleep", "nack", "ack_delete", "retry_lrem", "gone",
       "retry_set", "retry_zadd", "dlq_push", "dlq_delete"} \subseteq TaskPcs \ {"none", "release"}
  BY DEF TaskPcs, TaskHolding
<1>2. CASE ApplyOverrides(t)
  BY <1>1, <1>2, SlotsInside DEF ApplyOverrides
<1>3. CASE HandleOk(t)
  BY <1>1, <1>3, SlotsInside DEF HandleOk
<1>4. CASE HandleErr(t)
  <2>1. PICK x \in {"dlq_lrem", "sleep", "nack"} : goto(t, x)
    BY <1>4 DEF HandleErr
  <2> QED BY <1>1, <1>4, <2>1, SlotsInside DEF HandleErr
<1>5. CASE InlineRetry(t)
  BY <1>1, <1>5, SlotsInside DEF InlineRetry
<1>6. CASE AckLrem(t)
  BY <1>1, <1>6, SlotsInside DEF AckLrem
<1>7. CASE Nack(t)
  <2>1. PICK x \in {"dlq_lrem", "retry_lrem", "gone"} : goto(t, x)
    BY <1>7 DEF Nack
  <2> QED BY <1>1, <1>7, <2>1, SlotsInside DEF Nack
<1>8. CASE RetryLrem(t)
  BY <1>1, <1>8, SlotsInside DEF RetryLrem
<1>9. CASE RetrySet(t)
  BY <1>1, <1>9, SlotsInside DEF RetrySet
<1>10. CASE DlqLrem(t)
  BY <1>1, <1>10, SlotsInside DEF DlqLrem
<1>11. CASE DlqPush(t)
  BY <1>1, <1>11, SlotsInside DEF DlqPush
<1>12. CASE AckDelete(t)
  BY <1>12, FinishSlots DEF AckDelete
<1>13. CASE NackGone(t)
  BY <1>13, FinishSlots DEF NackGone
<1>14. CASE RetryZadd(t)
  BY <1>14, FinishSlots DEF RetryZadd
<1>15. CASE DlqDelete(t)
  BY <1>15, FinishSlots DEF DlqDelete
<1>16. CASE Release(t)
  <2>1. /\ pc[t] = "release" /\ goto(t, "none") /\ UNCHANGED <<job, owner, permits>>
        /\ groups' = [groups EXCEPT ![owner[t]] = @ \ {Group[job[t]]}]
    BY <1>16 DEF Release
  <2>2. t \in Proc /\ Tasks \subseteq Proc /\ Subs \subseteq Proc /\ t \notin Subs /\ owner[t] \in Subs
    BY DEF TypeOK, LocalOK, Proc
  <2>3. pc'[t] = "none" /\ \A q \in Proc : q # t => pc'[q] = pc[q]
    BY <2>1, <2>2, GotoHands
  <2>4. /\ groups'[owner[t]] = groups[owner[t]] \ {Group[job[t]]}
        /\ \A v \in Subs : v # owner[t] => groups'[v] = groups[v]
    BY <2>1, <2>2 DEF TypeOK, LocalOK
  <2>5. Mode[owner[t]] = "grouped"
    BY <2>1 DEF Slots
  <2> QED BY <2>1, <2>2, <2>3, <2>4, <2>5, Ended
<1> QED BY <1>2, <1>3, <1>4, <1>5, <1>6, <1>7, <1>8, <1>9, <1>10, <1>11, <1>12, <1>13, <1>14, <1>15, <1>16 DEF TaskStep

\* The operator touches no slot.
LEMMA AdminSlots ==
    ASSUME TypeOK, Slots, AdminStep PROVE Slots'
<1>1. UNCHANGED <<owner, permits, groups>>
  BY DEF AdminStep, Redrive, RedriveRpop, RedriveMessage, RedriveSet, RedrivePush, Discard,
         DiscardDelete, loopVars, taskVars
<1>2. Admin \in Proc \ Tasks /\ Admin \notin Subs
  BY DEF Proc
<1>3. \E x : goto(Admin, x)
  BY DEF AdminStep, Redrive, RedriveRpop, RedriveMessage, RedriveSet, RedrivePush, Discard, DiscardDelete
<1>4. UNCHANGED job \/ \E j : take(Admin, j)
  BY DEF AdminStep, Redrive, RedriveRpop, RedriveMessage, RedriveSet, RedrivePush, Discard, DiscardDelete
<1>5. \A q \in Proc : q # Admin => pc'[q] = pc[q]
  BY <1>2, <1>3, GotoHands
<1>6. \A q \in Proc : q # Admin => job'[q] = job[q]
  BY <1>4 DEF take, TypeOK, LocalOK
<1> QED BY <1>1, <1>2, <1>5, <1>6, SlotsElsewhere

\* A push or a subscription touches no slot of a task.
LEMMA ClientSlots ==
    ASSUME TypeOK, Slots, ClientStep PROVE Slots'
<1> USE DEF loopVars, taskVars
<1>1. CASE Push \/ PushDelayed
  BY <1>1, SlotsKept DEF Push, PushDelayed
<1>2. ASSUME NEW w \in Subs, Subscribe(w) PROVE Slots'
  <2>1. w \in Proc \ Tasks /\ w \in Proc
    BY DEF Proc
  <2>2. pc'[w] = "idle" /\ \A q \in Proc : q # w => pc'[q] = pc[q]
    BY <1>2, <2>1, GotoHands DEF Subscribe
  <2> QED BY <1>2, <2>1, <2>2, SlotsElsewhere DEF Subscribe, Popping
<1>3. ASSUME NEW w \in Subs, Unsubscribe(w) PROVE Slots'
  <2>1. /\ UNCHANGED <<job, groups, permits, owner>> /\ Subs \subseteq Proc /\ Tasks \subseteq Proc
        /\ \A p \in Proc : pc'[p] = IF p = w THEN "off" ELSE IF p \in Inline(w) THEN "none" ELSE pc[p]
    BY <1>3 DEF Unsubscribe, Proc
  <2>2. \A v \in Subs : Mode[v] # "fifo" => TasksOf(v)' = TasksOf(v)
    BY <2>1 DEF TasksOf, Inline
  <2>3. \A v \in Subs : pc'[v] \in Popping => pc[v] \in Popping
    BY <2>1 DEF Popping, Inline
  <2>4. \A v \in Subs : Mode[v] = "concurrent" => Permitted(v)'
    BY <2>1, <2>2 DEF Slots, Permitted
  <2>5. \A v \in Subs : Mode[v] = "grouped" => Grouped(v)'
    BY <2>1, <2>2, <2>3 DEF Slots, Grouped
  <2>6. \A t \in Tasks : pc'[t] = "release" => Mode[owner'[t]] = "grouped"
    BY <2>1 DEF Slots
  <2> QED BY <2>4, <2>5, <2>6 DEF Slots
<1> QED BY <1>1, <1>2, <1>3 DEF ClientStep

\* The slots are exact at first and after every step.
LEMMA SlotsInductive == (Init => Slots) /\ (IInv /\ Slots /\ [Next]_vars => Slots')
<1>1. ASSUME Init PROVE Slots
  <2>1. /\ \A t \in Tasks : pc[t] = "none"
        /\ \A w \in Subs : pc[w] = "new" /\ permits[w] = 0 /\ groups[w] = {}
    <3>1. /\ pc = [p \in Proc |-> IF p \in Subs THEN "new" ELSE IF p = Admin THEN "idle" ELSE "none"]
          /\ groups = [w \in Subs |-> {}] /\ permits = [w \in Subs |-> 0]
      BY <1>1 DEF Init
    <3> QED BY <3>1 DEF Proc
  <2>2. \A w \in Subs : TasksOf(w) = {}
    BY <2>1 DEF TasksOf
  <2>a. Cardinality({}) = 0 /\ IsFiniteSet({}) /\ \A w \in Subs : pc[w] \notin Popping
    BY <2>1, FS_EmptySet DEF Popping
  <2>3. \A w \in Subs : Permitted(w) /\ Grouped(w)
    <3> SUFFICES ASSUME NEW w \in Subs PROVE Permitted(w) /\ Grouped(w)
      OBVIOUS
    <3>1. /\ groups[w] = {} /\ permits[w] = 0 /\ TasksOf(w) = {} /\ pc[w] \notin Popping
          /\ Concurrency >= 0
      BY <2>1, <2>2, <2>a, QueueAssumption
    <3>2. Permitted(w)
      BY <2>a, <3>1 DEF Permitted
    <3>3. Grouped(w)
      BY <2>a, <3>1 DEF Grouped
    <3> QED BY <3>2, <3>3
  <2> QED BY <2>1, <2>3 DEF Slots
<1>2. ASSUME IInv, Slots, [Next]_vars PROVE Slots'
  <2>1. CASE Next
    BY <1>2, <2>1, LoopSlots, TaskSlots, AdminSlots, ClientSlots DEF Next, IInv
  <2>2. CASE UNCHANGED vars
    BY <1>2, <2>2, SlotsKept DEF vars, loopVars, taskVars
  <2> QED BY <1>2, <2>1, <2>2
<1> QED BY <1>1, <1>2

(* Worker's semaphore, for every concurrency and number of jobs: a permit     *)
(* for each task at work and never more tasks than permits.                 *)
THEOREM PermitsExact == Spec => []ConcurrencyBound
<1>1. Slots => ConcurrencyBound
  BY DEF Slots, Permitted, ConcurrencyBound
<1> QED BY <1>1, SlotsInductive, Invariant, PTL DEF Spec

(* GroupedFifoWorker, for every grouping: one task for each group, and never  *)
(* more than max_concurrent_groups of them, although the loop counts before  *)
(* it pops and inserts after.                                               *)
THEOREM GroupsExclusive == Spec => []GroupExclusion
<1>1. Slots => GroupExclusion
  BY DEF Slots, Grouped, GroupExclusion
<1> QED BY <1>1, SlotsInductive, Invariant, PTL DEF Spec

----------------------------------------------------------------------------
(* The retry budget.  While a job is on its way to a handler its record      *)
(* counts exactly its failures, and they are below some limit in force; a    *)
(* task's copy counts them while the record lags behind; a job on its way to *)
(* the dead-letter list has spent a limit.                                  *)
FreshPcs == LoopHolding \cup {"redrive_push", "message_push", "start", "retry_zadd"}
SpentPcs == {"dlq_lrem", "dlq_push"}
Capped == {"start", "retry_lrem", "retry_set"} \cup SpentPcs
Below(n) == \E m \in Limits : n < AtLeastOne(m)
Within(j) == \E m \in Limits : failed[j] <= AtLeastOne(m)
Spent(j) == \E m \in Limits : failed[j] >= AtLeastOne(m)
Fresh(j) == failed[j] = attempts[j] /\ Below(failed[j])
Offered(j) == j \in Elems(waiting) \/ j \in delayed \/ \E w \in Subs : j \in Elems(skipped[w])
Counted(t, n) == inline(t) /\ made[t] = n /\ limit[t] \in Limits /\ Below(n)
Copy(t, n) ==
    /\ pc[t] = "start" => inline(t) /\ made[t] = n
    /\ pc[t] = "handle" => Counted(t, n) \/ (~inline(t) /\ attempts[job[t]] = n /\ Below(n))
    /\ pc[t] = "sleep" => Counted(t, n)
    /\ pc[t] = "nack" => n = attempts[job[t]] + 1
    /\ pc[t] \in {"retry_lrem", "retry_set"} => made[t] = n /\ Below(n)
    /\ pc[t] \in Capped => limit[t] \in Limits
Overridden == (override # 0 => override \in Limits) /\ \A j \in Jobs : stamp[j] \in Limits
Budget ==
    /\ Overridden
    /\ \A j \in Jobs : Within(j) /\ (j > pushed => failed[j] = 0)
    /\ \A j \in Jobs : (Offered(j) => Fresh(j)) /\ (j \in Elems(dlq) => Spent(j))
    /\ \A p \in Proc : /\ pc[p] \in FreshPcs => Fresh(job[p])
                       /\ pc[p] \in SpentPcs => Spent(job[p])
    /\ \A t \in Tasks : Copy(t, failed[job[t]])

\* Budgets are natural numbers, and a budget of zero counts as one.
LEMMA LimitsType == Limits \subseteq Nat /\ MaxAttempts \in Limits /\ \A m \in Nat : AtLeastOne(m) \in Nat \ {0}
BY DEF Limits, AtLeastOne

(* Some processes move, and no job's failures or record change. *)
Kept(q) ==
    /\ pc'[q] = pc[q] /\ job'[q] = job[q]
    /\ q \in Tasks => made'[q] = made[q] /\ limit'[q] = limit[q] /\ owner'[q] = owner[q]
Sound(q) ==
    /\ pc'[q] \in FreshPcs => Fresh(job'[q])
    /\ pc'[q] \in SpentPcs => Spent(job'[q])
    /\ q \in Tasks => Copy(q, failed[job[q]])'

\* Jobs that only change places keep to their budgets.
LEMMA BudgetMoves ==
    ASSUME TypeOK, Budget, UNCHANGED <<failed, attempts, pushed>>, Overridden',
           \A q \in Proc : Kept(q) \/ Sound(q),
           \A j \in Jobs : (Offered(j)' => Offered(j) \/ Fresh(j)),
           \A j \in Jobs : j \in Elems(dlq') => j \in Elems(dlq) \/ Spent(j)
    PROVE  Budget'
<1>1. \A j : Fresh(j)' <=> Fresh(j)
  BY DEF Fresh
<1>2. \A j : (Spent(j)' <=> Spent(j)) /\ (Within(j)' <=> Within(j))
  BY DEF Spent, Within
<1>3. \A j \in Jobs : Within(j)' /\ (j > pushed' => failed'[j] = 0)
  BY <1>2 DEF Budget
<1>4. \A j \in Jobs : (Offered(j)' => Fresh(j)') /\ (j \in Elems(dlq') => Spent(j)')
  BY <1>1, <1>2 DEF Budget
<1>5. ASSUME NEW p \in Proc
      PROVE (pc'[p] \in FreshPcs => Fresh(job[p])') /\ (pc'[p] \in SpentPcs => Spent(job[p])')
  <2>1. (pc'[p] \in FreshPcs => Fresh(job'[p])) /\ (pc'[p] \in SpentPcs => Spent(job'[p]))
    BY DEF Budget, Kept, Sound
  <2> QED BY <2>1 DEF Fresh, Spent
<1>6. ASSUME NEW t \in Tasks PROVE Copy(t, failed[job[t]])'
  <2>0. t \in Proc
    BY DEF Proc
  <2>1. CASE Sound(t)
    BY <2>1 DEF Sound
  <2>2. CASE Kept(t)
    <3>1. /\ pc'[t] = pc[t] /\ job'[t] = job[t] /\ made'[t] = made[t] /\ limit'[t] = limit[t]
          /\ owner'[t] = owner[t] /\ failed' = failed /\ attempts' = attempts
      BY <2>2 DEF Kept
    <3>2. Copy(t, failed[job[t]])
      BY DEF Budget
    <3> QED BY <3>1, <3>2 DEF Copy, Capped, SpentPcs, Counted, inline
  <2> QED BY <2>0, <2>1, <2>2
<1> QED BY <1>3, <1>4, <1>5, <1>6 DEF Budget

(* The failures or the record of the job in the hands of p change. *)
LEMMA BudgetTouched ==
    ASSUME IInv, Budget, NEW p \in Proc, NEW x \in Jobs, pc[p] \in Holding, job[p] = x,
           UNCHANGED <<waiting, delayed, dlq, skipped, job, owner, pushed>>, Overridden',
           \A q \in Proc : q # p => pc'[q] = pc[q],
           \A t \in Tasks : t # p => made'[t] = made[t] /\ limit'[t] = limit[t],
           \A j \in Jobs : j # x => failed'[j] = failed[j] /\ attempts'[j] = attempts[j],
           Within(x)', pc'[p] \in FreshPcs => Fresh(x)', pc'[p] \in SpentPcs => Spent(x)',
           p \in Tasks => Copy(p, failed[x])'
    PROVE  Budget'
<1>0. FreshPcs \subseteq Holding /\ SpentPcs \subseteq Holding
  BY DEF FreshPcs, SpentPcs, Holding, LoopHolding, TaskHolding, AdminHolding
<1>1. ~Offered(x) /\ x \notin Elems(dlq)
  BY DEF IInv, SinglePlace, HeldElsewhereNowhere, Offered
<1>2. \A q \in Proc : q # p /\ pc[q] \in Holding => job[q] # x
  BY DEF IInv, SinglePlace, HeldOnce
<1>3. x <= pushed /\ pushed \in Nat /\ job \in [Proc -> Jobs]
  <2>1. Located(x)
    BY DEF Located, Holds
  <2> QED BY <2>1 DEF IInv, Unborn, TypeOK, ClientOK, Jobs, LocalOK
<1>4. \A j \in Jobs : j # x => (Fresh(j)' <=> Fresh(j)) /\ (Spent(j)' <=> Spent(j)) /\ (Within(j)' <=> Within(j))
  BY DEF Fresh, Spent, Within
<1>5. \A j \in Jobs : Within(j)' /\ (j > pushed' => failed'[j] = 0)
  BY <1>3, <1>4 DEF Budget, Jobs
<1>6. \A j \in Jobs : (Offered(j)' <=> Offered(j)) /\ (j \in Elems(dlq') <=> j \in Elems(dlq))
  BY DEF Offered
<1>7. \A j \in Jobs : (Offered(j)' => Fresh(j)') /\ (j \in Elems(dlq') => Spent(j)')
  BY <1>1, <1>4, <1>6 DEF Budget
<1>8. ASSUME NEW q \in Proc
      PROVE (pc'[q] \in FreshPcs => Fresh(job[q])') /\ (pc'[q] \in SpentPcs => Spent(job[q])')
  <2>1. job'[q] = job[q] /\ job[q] \in Jobs
    BY <1>3
  <2>2. \A j \in Jobs : j = job[q] => (pc'[q] \in FreshPcs => Fresh(j)') /\ (pc'[q] \in SpentPcs => Spent(j)')
    BY <1>0, <1>2, <1>4 DEF Budget
  <2> QED BY <2>1, <2>2
<1>9. ASSUME NEW t \in Tasks PROVE Copy(t, failed[job[t]])'
  <2>0. t \in Proc /\ job'[t] = job[t] /\ job[t] \in Jobs
    BY <1>3 DEF Proc
  <2>1. CASE t = p
    BY <2>0, <2>1
  <2>2. CASE t # p
    <3>1. Copy(t, failed[job[t]]) /\ pc'[t] = pc[t] /\ made'[t] = made[t] /\ limit'[t] = limit[t] /\ owner'[t] = owner[t]
      BY <2>0, <2>2 DEF Budget
    <3>2. CASE pc[t] \in Holding
      <4>1. failed'[job[t]] = failed[job[t]] /\ attempts'[job[t]] = attempts[job[t]]
        BY <1>2, <2>0, <2>2, <3>2
      <4> QED BY <2>0, <3>1, <4>1 DEF Copy, Capped, SpentPcs, Counted, inline
    <3>3. CASE pc[t] \notin Holding
      BY <3>1, <3>3 DEF Copy, Capped, SpentPcs, Holding, TaskHolding
    <3> QED BY <3>2, <3>3
  <2> QED BY <2>1, <2>2
<1> QED BY <1>5, <1>7, <1>8, <1>9 DEF Budget

(* A loop or the operator moves. *)
LEMMA BudgetElsewhere ==
    ASSUME TypeOK, Budget, NEW p \in Proc \ Tasks, UNCHANGED <<failed, attempts, pushed, taskVars>>, Overridden',
           \A q \in Proc : q # p => pc'[q] = pc[q] /\ job'[q] = job[q],
           \A j \in Jobs : (Offered(j)' => Offered(j) \/ Fresh(j)),
           \A j \in Jobs : j \in Elems(dlq') => j \in Elems(dlq),
           pc'[p] \in FreshPcs => Fresh(job'[p]), pc'[p] \notin SpentPcs
    PROVE  Budget'
<1>1. \A q \in Proc : q # p => Kept(q)
  BY DEF Kept, taskVars
<1>2. Sound(p)
  BY DEF Sound
<1> QED BY <1>1, <1>2, BudgetMoves

(* A task moves on with its job. *)
LEMMA BudgetInside ==
    ASSUME TypeOK, Budget, NEW t \in Tasks, NEW next, goto(t, next),
           UNCHANGED <<failed, attempts, pushed, job, owner, waiting, delayed, skipped>>, Overridden',
           \A u \in Tasks : u # t => made'[u] = made[u] /\ limit'[u] = limit[u],
           \A j \in Jobs : j \in Elems(dlq') => j \in Elems(dlq) \/ Spent(j),
           next \in FreshPcs => Fresh(job[t]), next \in SpentPcs => Spent(job[t]),
           Copy(t, failed[job[t]])'
    PROVE  Budget'
<1>0. t \in Proc
  BY DEF Proc
<1>1. pc'[t] = next /\ \A q \in Proc : q # t => Kept(q)
  BY <1>0, GotoHands DEF Kept
<1>2. Sound(t)
  BY <1>1 DEF Sound
<1>3. \A j \in Jobs : Offered(j)' => Offered(j)
  BY DEF Offered
<1> QED BY <1>1, <1>2, <1>3, BudgetMoves

(* A task ends. *)
LEMMA BudgetFinish ==
    ASSUME TypeOK, Budget, NEW t \in Tasks, finish(t), UNCHANGED <<failed, attempts, pushed, override, stamp, job, taskVars, dlq>>,
           \A j \in Jobs : (Offered(j)' => Offered(j) \/ Fresh(j))
    PROVE  Budget'
<1> DEFINE Ends == {"none", "idle", "release"}
<1>0. owner[t] \in Subs /\ owner[t] \in Proc /\ t \in Proc /\ owner[t] # t /\ Tasks \subseteq Proc
      /\ owner[t] \notin Tasks /\ Mode[owner[t]] \in {"concurrent", "fifo", "grouped"}
  BY DEF TypeOK, LocalOK, Proc
<1>1. pc \in [Proc -> LoopPcs \cup TaskPcs \cup AdminPcs]
  BY DEF TypeOK, PcOK
<1>2. /\ \A q \in Proc : q # t /\ q # owner[t] => pc'[q] = pc[q]
      /\ pc'[t] \in Ends /\ (pc'[owner[t]] \in Ends \/ pc'[owner[t]] = pc[owner[t]])
  <2>1. CASE Mode[owner[t]] = "concurrent"
    BY <1>0, <1>1, <2>1 DEF finish
  <2>2. CASE Mode[owner[t]] = "fifo"
    <3>1. pc' = [pc EXCEPT ![t] = "none", ![owner[t]] = "idle"]
      BY <2>2 DEF finish
    <3> QED BY <1>0, <1>1, <3>1
  <2>3. CASE Mode[owner[t]] = "grouped"
    BY <1>0, <1>1, <2>3 DEF finish
  <2> QED BY <1>0, <2>1, <2>2, <2>3
<1>3. Ends \cap FreshPcs = {} /\ Ends \cap SpentPcs = {}
  BY DEF FreshPcs, SpentPcs, LoopHolding
<1>4. Copy(t, failed[job[t]])'
  BY <1>2 DEF Copy, Capped, SpentPcs
<1>5. Sound(t) /\ (Sound(owner[t]) \/ Kept(owner[t]))
  BY <1>0, <1>2, <1>3, <1>4 DEF Sound, Kept
<1>6. Overridden'
  BY DEF Budget, Overridden
<1>7. \A q \in Proc : q # t /\ q # owner[t] => Kept(q)
  BY <1>2 DEF Kept, taskVars
<1>8. \A j \in Jobs : j \in Elems(dlq') => j \in Elems(dlq)
  OBVIOUS
<1> QED BY <1>5, <1>6, <1>7, <1>8, BudgetMoves

(* A loop hands its job to a task. *)
LEMMA BudgetStart ==
    ASSUME TypeOK, Budget, NEW w \in Subs, NEW t \in Tasks, NEW first \in {"start", "handle"}, NEW next \in {"pop", "busy"},
           start(w, t, first, next), pc[w] = "pop_load", first = "start" <=> Mode[w] # "concurrent",
           UNCHANGED <<failed, attempts, pushed, override, stamp, waiting, delayed, skipped, dlq>>
    PROVE  Budget'
<1>0. /\ w \in Proc /\ t \in Proc /\ w # t /\ w \notin Tasks /\ Tasks \subseteq Proc
      /\ pc \in [Proc -> LoopPcs \cup TaskPcs \cup AdminPcs] /\ job \in [Proc -> Jobs]
      /\ owner \in [Tasks -> Subs] /\ made \in [Tasks -> Nat] /\ limit \in [Tasks -> Nat]
  BY DEF TypeOK, PcOK, LocalOK, Proc
<1>1. /\ pc' = [pc EXCEPT ![t] = first, ![w] = next] /\ job' = [job EXCEPT ![t] = job[w]]
      /\ owner' = [owner EXCEPT ![t] = w] /\ made' = [made EXCEPT ![t] = attempts[job[w]]]
      /\ limit' = [limit EXCEPT ![t] = stamp[job[w]]]
  BY DEF start, take
<1>2. /\ pc'[t] = first /\ pc'[w] = next /\ job'[t] = job[w] /\ job'[w] = job[w]
      /\ \A q \in Proc : q # w /\ q # t => pc'[q] = pc[q] /\ job'[q] = job[q]
  BY <1>0, <1>1
<1>3. /\ made'[t] = attempts[job[w]] /\ owner'[t] = w /\ limit'[t] = stamp[job[w]]
      /\ \A u \in Tasks : u # t => made'[u] = made[u] /\ limit'[u] = limit[u] /\ owner'[u] = owner[u]
  BY <1>0, <1>1
<1>4. Fresh(job[w])
  BY <1>0 DEF Budget, FreshPcs, LoopHolding
<1>a. stamp[job[w]] \in Limits
  BY <1>0 DEF Budget, Overridden
<1>5. Copy(t, failed[job[t]])'
  BY <1>2, <1>3, <1>4, <1>a DEF Copy, Capped, SpentPcs, Fresh, inline, Counted
<1>6. "pop" \notin FreshPcs /\ "busy" \notin FreshPcs /\ {"pop", "busy", "start", "handle"} \cap SpentPcs = {}
  BY DEF FreshPcs, SpentPcs, LoopHolding
<1>7. Sound(w) /\ Sound(t)
  BY <1>0, <1>2, <1>4, <1>5, <1>6 DEF Sound
<1>8. Overridden' /\ \A j \in Jobs : Offered(j)' => Offered(j)
  BY DEF Budget, Overridden, Offered
<1>9. \A j \in Jobs : j \in Elems(dlq') => j \in Elems(dlq)
  OBVIOUS
<1>10. \A q \in Proc : q # w /\ q # t => Kept(q)
  BY <1>2, <1>3 DEF Kept
<1> QED BY <1>7, <1>8, <1>9, <1>10, BudgetMoves

\* The loop hands out jobs that have attempts left.
LEMMA LoopBudget ==
    ASSUME IInv, Budget, NEW w \in Subs, LoopStep(w) PROVE Budget'
<1> USE DEF loopVars, clientVars, history, storeVars
<1>0. /\ w \in Proc \ Tasks /\ w \in Proc /\ job[w] \in Jobs /\ waiting \in Seq(Jobs) /\ skipped \in [Subs -> Seq(Jobs)]
      /\ TypeOK
  BY DEF IInv, TypeOK, StoreTypeOK, LocalOK, Proc
<1>1. \A x : goto(w, x) => pc'[w] = x /\ \A q \in Proc : q # w => pc'[q] = pc[q]
  BY <1>0, GotoHands
<1>2. \A j : take(w, j) => job'[w] = j /\ \A q \in Proc : q # w => job'[q] = job[q]
  BY <1>0 DEF take, TypeOK, LocalOK
<1>3. \A x \in {"idle", "move", "pop", "skip_push", "skip_lrem", "requeue_lrem", "busy"} : x \notin FreshPcs
  BY DEF FreshPcs, LoopHolding
<1>4. \A x \in {"idle", "move", "pop", "skip_push", "skip_lrem", "requeue_lrem", "busy"} \cup LoopHolding : x \notin SpentPcs
  BY DEF SpentPcs, LoopHolding
<1>5. pc[w] \in LoopHolding => Fresh(job[w])
  BY <1>0 DEF Budget, FreshPcs
<1>6. UNCHANGED <<override, stamp>> => Overridden'
  BY DEF Budget, Overridden
<1>7. UNCHANGED <<waiting, delayed, skipped>> => \A j \in Jobs : Offered(j)' => Offered(j)
  BY DEF Offered
<1>8. UNCHANGED dlq => \A j \in Jobs : j \in Elems(dlq') => j \in Elems(dlq)
  OBVIOUS
<1>11. CASE \E due \in SUBSET delayed : Poll(w, due)
  <2>1. goto(w, "move") /\ UNCHANGED <<attempts, waiting, delayed, dlq, skipped, taskVars, override, stamp, pushed, failed, job>>
    BY <1>11 DEF Poll
  <2>2. pc'[w] = "move" /\ \A q \in Proc : q # w => pc'[q] = pc[q] /\ job'[q] = job[q]
    BY <1>1, <2>1
  <2> QED BY <1>0, <1>3, <1>4, <1>6, <1>7, <1>8, <2>1, <2>2, BudgetElsewhere
<1>12. ASSUME NEW j \in Jobs, MoveZrem(w, j) PROVE Budget'
  <2>1. CASE j \in delayed
    <3>1. /\ goto(w, "move_push") /\ take(w, j) /\ delayed' = delayed \ {j}
          /\ UNCHANGED <<attempts, waiting, dlq, skipped, taskVars, override, stamp, pushed, failed>>
      BY <1>12, <2>1 DEF MoveZrem
    <3>2. Fresh(j) /\ \A i \in Jobs : Offered(i)' => Offered(i)
      BY <2>1, <3>1 DEF Budget, Offered
    <3>3. "move_push" \notin SpentPcs
      BY DEF SpentPcs
    <3>4. pc'[w] = "move_push" /\ job'[w] = j /\ \A q \in Proc : q # w => pc'[q] = pc[q] /\ job'[q] = job[q]
      BY <1>1, <1>2, <3>1
    <3>5. Overridden' /\ \A i \in Jobs : i \in Elems(dlq') => i \in Elems(dlq)
      BY <1>6, <1>8, <3>1
    <3>6. UNCHANGED <<failed, attempts, pushed, taskVars>>
      BY <3>1
    <3>7. Fresh(job'[w]) /\ pc'[w] \notin SpentPcs
      BY <3>2, <3>3, <3>4
    <3> QED BY <1>0, <3>2, <3>4, <3>5, <3>6, <3>7, BudgetElsewhere
  <2>2. CASE j \notin delayed
    <3>1. UNCHANGED <<attempts, waiting, delayed, dlq, skipped, taskVars, override, stamp, pushed, failed, pc, job>>
      BY <1>12, <2>2 DEF MoveZrem
    <3>2. pc[w] = "move"
      BY <1>12 DEF MoveZrem
    <3> QED BY <1>0, <1>3, <1>4, <1>6, <1>7, <1>8, <3>1, <3>2, BudgetElsewhere
  <2> QED BY <2>1, <2>2
<1>13. CASE MovePush(w) \/ Requeue(w)
  <2>1. /\ pc[w] \in LoopHolding /\ (waiting' = rpush(waiting, job[w]) \/ waiting' = lpush(waiting, job[w]))
        /\ UNCHANGED <<attempts, delayed, dlq, skipped, taskVars, override, stamp, pushed, failed, job>>
        /\ goto(w, "move") \/ goto(w, "requeue_lrem")
    BY <1>13 DEF MovePush, Requeue, LoopHolding
  <2>2. Elems(waiting') = Elems(waiting) \cup {job[w]}
    <3>1. /\ Elems(rpush(waiting, job[w])) = Elems(waiting) \cup {job[w]}
          /\ Elems(lpush(waiting, job[w])) = Elems(waiting) \cup {job[w]}
      <4>0. waiting \in Seq(Jobs) /\ job[w] \in Jobs
        BY <1>0
      <4>1. Elems(rpush(waiting, job[w])) = Elems(waiting) \cup {job[w]}
        BY <4>0, RpushFacts
      <4>2. Elems(lpush(waiting, job[w])) = Elems(waiting) \cup {job[w]}
        BY <4>0, LpushFacts
      <4> QED BY <4>1, <4>2
    <3> QED BY <2>1, <3>1
  <2>3. \A j \in Jobs : Offered(j)' => Offered(j) \/ Fresh(j)
    BY <1>5, <2>1, <2>2 DEF Offered
  <2> QED BY <1>0, <1>1, <1>3, <1>4, <1>6, <1>8, <2>1, <2>3, BudgetElsewhere
<1>14. CASE MoveDone(w)
  BY <1>0, <1>1, <1>3, <1>4, <1>6, <1>7, <1>8, <1>14, BudgetElsewhere DEF MoveDone
<1>15. CASE PopNone(w) \/ PopMissing(w) \/ SkipLrem(w)
  <2>1. goto(w, "idle") \/ goto(w, "skip_push")
    BY <1>15 DEF PopNone, PopMissing, SkipLrem, endPass
  <2>2. UNCHANGED <<attempts, waiting, delayed, dlq, skipped, taskVars, override, stamp, pushed, failed, job>>
    BY <1>15 DEF PopNone, PopMissing, SkipLrem
  <2> QED BY <1>0, <1>1, <1>3, <1>4, <1>6, <1>7, <1>8, <2>1, <2>2, BudgetElsewhere
<1>16. CASE PopId(w)
  <2>1. /\ waiting # <<>> /\ take(w, back(waiting)) /\ waiting' = rpop(waiting) /\ goto(w, "pop_active")
        /\ UNCHANGED <<attempts, delayed, dlq, skipped, taskVars, override, stamp, pushed, failed>>
    BY <1>16 DEF PopId
  <2>2. /\ back(waiting) \in Jobs /\ back(waiting) \in Elems(waiting) /\ Elems(rpop(waiting)) \subseteq Elems(waiting)
    BY <1>0, <2>1, RpopFacts
  <2>3. Fresh(back(waiting)) /\ \A i \in Jobs : Offered(i)' => Offered(i)
    BY <2>1, <2>2 DEF Budget, Offered
  <2>4. "pop_active" \notin SpentPcs
    BY DEF SpentPcs
  <2>5. /\ pc'[w] = "pop_active" /\ job'[w] = back(waiting)
        /\ \A q \in Proc : q # w => pc'[q] = pc[q] /\ job'[q] = job[q]
    BY <1>1, <1>2, <2>1
  <2>6. Overridden' /\ \A i \in Jobs : i \in Elems(dlq') => i \in Elems(dlq)
    BY <1>6, <1>8, <2>1
  <2> QED BY <1>0, <2>1, <2>3, <2>4, <2>5, <2>6, BudgetElsewhere
<1>17. CASE PopActive(w) \/ NoPermit(w)
  <2>1. /\ pc[w] \in LoopHolding /\ (goto(w, "pop_load") \/ goto(w, "requeue"))
        /\ UNCHANGED <<attempts, waiting, delayed, dlq, skipped, taskVars, override, stamp, pushed, failed, job>>
    BY <1>17 DEF PopActive, NoPermit, LoopHolding
  <2>2. "pop_load" \notin SpentPcs /\ "requeue" \notin SpentPcs
    BY DEF SpentPcs
  <2>3. /\ pc'[w] \in {"pop_load", "requeue"} /\ job'[w] = job[w] /\ Fresh(job[w])
        /\ \A q \in Proc : q # w => pc'[q] = pc[q] /\ job'[q] = job[q]
    BY <1>0, <1>1, <1>5, <2>1
  <2>4. Fresh(job'[w]) /\ pc'[w] \notin SpentPcs
    BY <2>2, <2>3
  <2> QED BY <1>0, <1>6, <1>7, <1>8, <2>1, <2>3, <2>4, BudgetElsewhere
<1>18. CASE RequeueLrem(w)
  BY <1>0, <1>1, <1>3, <1>4, <1>6, <1>7, <1>8, <1>18, BudgetElsewhere DEF RequeueLrem
<1>19. CASE SkipGrouped(w)
  <2>1. /\ pc[w] \in LoopHolding /\ goto(w, "pop") /\ skipped' = [skipped EXCEPT ![w] = rpush(skipped[w], job[w])]
        /\ UNCHANGED <<attempts, waiting, delayed, dlq, taskVars, override, stamp, pushed, failed, job>>
    BY <1>19 DEF SkipGrouped, LoopHolding, rpush
  <2>2. /\ Elems(rpush(skipped[w], job[w])) = Elems(skipped[w]) \cup {job[w]}
        /\ skipped'[w] = rpush(skipped[w], job[w]) /\ \A v \in Subs : v # w => skipped'[v] = skipped[v]
    BY <1>0, <2>1, RpushFacts
  <2>3. \A j \in Jobs : Offered(j)' => Offered(j) \/ Fresh(j)
    BY <1>5, <2>1, <2>2 DEF Offered
  <2> QED BY <1>0, <1>1, <1>3, <1>4, <1>6, <1>8, <2>1, <2>3, BudgetElsewhere
<1>20. CASE SkipPush(w)
  <2> DEFINE x == Head(skipped[w])
             rest == Tail(skipped[w])
  <2>1. /\ skipped[w] # <<>> /\ goto(w, "skip_lrem") /\ skipped' = [skipped EXCEPT ![w] = rest]
        /\ waiting' = lpush(waiting, x) /\ take(w, x)
        /\ UNCHANGED <<attempts, delayed, dlq, taskVars, override, stamp, pushed, failed>>
    BY <1>20 DEF SkipPush
  <2>2. x \in Jobs /\ x \in Elems(skipped[w]) /\ Elems(rest) \subseteq Elems(skipped[w])
    BY <1>0, <2>1, TailFacts
  <2> HIDE DEF x, rest
  <2>3. Elems(waiting') = Elems(waiting) \cup {x}
    <3>1. Elems(lpush(waiting, x)) = Elems(waiting) \cup {x}
      BY <1>0, <2>2, LpushFacts
    <3> QED BY <2>1, <3>1
  <2>4. skipped'[w] = rest /\ \A v \in Subs : v # w => skipped'[v] = skipped[v]
    BY <1>0, <2>1
  <2>5. \A j \in Jobs : Offered(j)' => Offered(j)
    BY <2>1, <2>2, <2>3, <2>4 DEF Offered
  <2> QED BY <1>0, <1>1, <1>2, <1>3, <1>4, <1>6, <1>8, <2>1, <2>5, BudgetElsewhere
<1>21. ASSUME NEW t \in Tasks, SpawnConcurrent(w, t) PROVE Budget'
  BY <1>0, <1>21, BudgetStart DEF SpawnConcurrent
<1>22. ASSUME NEW t \in Tasks, StartFifo(w, t) PROVE Budget'
  BY <1>0, <1>22, BudgetStart DEF StartFifo
<1>23. ASSUME NEW t \in Tasks, SpawnGrouped(w, t) PROVE Budget'
  BY <1>0, <1>23, BudgetStart DEF SpawnGrouped
<1> QED BY <1>11, <1>12, <1>13, <1>14, <1>15, <1>16, <1>17, <1>18, <1>19, <1>20, <1>21, <1>22, <1>23 DEF LoopStep

\* A task counts a failure, then retries or gives up, as the budget says.
LEMMA TaskBudget ==
    ASSUME IInv, Budget, NEW t \in Tasks, TaskStep(t) PROVE Budget'
<1> USE DEF loopVars, clientVars, history, storeVars
<1>a. PICK x \in Jobs : x = job[t]
  BY DEF IInv, TypeOK, LocalOK, Proc
<1>b. PICK n \in Nat : n = failed[x]
  BY DEF IInv, TypeOK, ClientOK
<1>0. /\ TypeOK /\ t \in Proc /\ x \in Jobs /\ n \in Nat /\ attempts[x] \in Nat /\ limit[t] \in Nat /\ made[t] \in Nat
      /\ made \in [Tasks -> Nat] /\ limit \in [Tasks -> Nat] /\ attempts \in [Jobs -> Nat] /\ failed \in [Jobs -> Nat]
      /\ override \in Nat /\ stamp \in [Jobs -> Nat] /\ dlq \in Seq(Jobs)
  BY <1>a, <1>b DEF IInv, TypeOK, StoreTypeOK, LocalOK, ClientOK, Proc
<1>1. Copy(t, n) /\ Overridden
  BY <1>a, <1>b DEF Budget
<1>2. (pc[t] \in FreshPcs => Fresh(x)) /\ (pc[t] \in SpentPcs => Spent(x))
  BY <1>0, <1>a DEF Budget
<1>3. \A y : goto(t, y) => pc'[t] = y /\ \A q \in Proc : q # t => pc'[q] = pc[q]
  BY <1>0, GotoHands
<1>4. UNCHANGED dlq => \A j \in Jobs : j \in Elems(dlq') => j \in Elems(dlq)
  OBVIOUS
<1>5. \A m \in Limits : effective_max_attempts(m) \in Limits
  BY <1>1 DEF effective_max_attempts, Overridden
<1>6. \A m \in Limits : \A k \in Nat :
        /\ is_exhausted(k + 1, m) => k + 1 >= AtLeastOne(m)
        /\ ~is_exhausted(k + 1, m) => k + 1 < AtLeastOne(m)
  BY LimitsType DEF is_exhausted, AtLeastOne
<1>7. UNCHANGED taskVars => \A u \in Tasks : u # t => made'[u] = made[u] /\ limit'[u] = limit[u]
  BY DEF taskVars
<1>8. UNCHANGED <<override, stamp>> => Overridden'
  BY <1>1 DEF Overridden
<1>9. limit[t] \in Limits /\ saveLimit(t) /\ UNCHANGED override => Overridden'
  BY <1>a, <1>0, <1>1 DEF Overridden, saveLimit
<1>11. CASE ApplyOverrides(t)
  <2>0. PICK max : max = effective_max_attempts(limit[t])
    OBVIOUS
  <2>1. /\ pc[t] = "start" /\ goto(t, "handle") /\ limit' = [limit EXCEPT ![t] = max]
        /\ UNCHANGED <<failed, attempts, pushed, override, stamp, job, owner, made, waiting, delayed, skipped, dlq>>
    BY <1>11, <2>0 DEF ApplyOverrides
  <2>2. pc'[t] = "handle" /\ limit'[t] = max /\ \A u \in Tasks : u # t => limit'[u] = limit[u]
    BY <1>0, <1>3, <2>1
  <2>3. Fresh(x) /\ inline(t) /\ made[t] = n /\ Below(n) /\ limit[t] \in Limits
    BY <1>a, <1>b, <1>1, <1>2, <2>1 DEF FreshPcs, Copy, Capped, SpentPcs, Fresh
  <2>4. Copy(t, failed[job[t]])'
    <3>1. Counted(t, n)'
      BY <1>5, <2>0, <2>1, <2>2, <2>3 DEF Counted, inline
    <3>2. Copy(t, n)'
      BY <2>2, <3>1 DEF Copy, Capped, SpentPcs
    <3> QED BY <1>a, <1>b, <2>1, <3>2
  <2> QED BY <1>8, <1>0, <1>4, <2>1, <2>2, <2>4, BudgetInside DEF FreshPcs, SpentPcs, LoopHolding
<1>12. CASE HandleOk(t)
  <2>1. goto(t, "ack_lrem") /\ UNCHANGED <<failed, attempts, pushed, override, stamp, job, taskVars, owner, waiting, delayed, skipped, dlq>>
    BY <1>12 DEF HandleOk, taskVars
  <2>2. Copy(t, failed[job[t]])'
    BY <1>3, <2>1 DEF Copy, Capped, SpentPcs
  <2> QED BY <1>8, <1>0, <1>4, <1>7, <2>1, <2>2, BudgetInside DEF FreshPcs, SpentPcs, LoopHolding
<1>13. CASE HandleErr(t)
  <2>1. /\ pc[t] = "handle" /\ failed' = [failed EXCEPT ![x] = n + 1]
        /\ UNCHANGED <<attempts, pushed, override, stamp, job, owner, limit, waiting, delayed, skipped, dlq>>
    BY <1>a, <1>b, <1>13 DEF HandleErr
  <2>2. failed'[x] = n + 1 /\ \A j \in Jobs : j # x => failed'[j] = failed[j] /\ attempts'[j] = attempts[j]
    BY <1>0, <2>1
  <2>3. Below(n)
    BY <1>1, <2>1 DEF Copy, Capped, SpentPcs, Counted
  <2>4. Within(x)'
    <3>1. PICK m \in Limits : n < AtLeastOne(m)
      BY <2>3 DEF Below
    <3>2. AtLeastOne(m) \in Nat
      BY LimitsType
    <3>3. n + 1 <= AtLeastOne(m)
      BY <1>0, <3>1, <3>2
    <3> QED BY <2>2, <3>3 DEF Within
  <2>5. pc[t] \in Holding
    BY <2>1 DEF Holding, TaskHolding
  <2>6. CASE inline(t)
    <3>1. /\ made' = [made EXCEPT ![t] = @ + 1]
          /\ goto(t, IF is_exhausted(made[t] + 1, limit[t]) THEN "dlq_lrem" ELSE "sleep")
      BY <1>13, <2>6 DEF HandleErr
    <3>2. made'[t] = made[t] + 1 /\ \A u \in Tasks : u # t => made'[u] = made[u] /\ limit'[u] = limit[u]
      BY <1>0, <2>1, <3>1
    <3>3. made[t] = n /\ limit[t] \in Limits
      BY <1>1, <2>1, <2>6 DEF Copy, Capped, SpentPcs, Counted
    <3>4. CASE is_exhausted(made[t] + 1, limit[t])
      <4>1. pc'[t] = "dlq_lrem" /\ \A q \in Proc : q # t => pc'[q] = pc[q]
        BY <1>3, <3>1, <3>4
      <4>2. n + 1 >= AtLeastOne(limit[t])
        BY <1>0, <1>6, <3>3, <3>4
      <4>3. Spent(x)'
        BY <2>2, <3>3, <4>2 DEF Spent
      <4>4. Copy(t, failed[x])'
        BY <2>1, <3>3, <4>1 DEF Copy, Capped, SpentPcs
      <4> QED BY <1>8, <1>a, <1>0, <2>1, <2>2, <2>4, <2>5, <3>2, <4>1, <4>3, <4>4, BudgetTouched DEF FreshPcs, LoopHolding
    <3>5. CASE ~is_exhausted(made[t] + 1, limit[t])
      <4>1. pc'[t] = "sleep" /\ \A q \in Proc : q # t => pc'[q] = pc[q]
        BY <1>3, <3>1, <3>5
      <4>2. n + 1 < AtLeastOne(limit[t])
        BY <1>0, <1>6, <3>3, <3>5
      <4>3. Below(n + 1)
        BY <3>3, <4>2 DEF Below
      <4>4. Copy(t, n + 1)'
        BY <1>a, <1>b, <1>0, <2>1, <2>6, <3>2, <3>3, <4>1, <4>3 DEF Copy, Capped, SpentPcs, Counted, inline
      <4>5. Copy(t, failed[x])'
        BY <2>2, <4>4
      <4> QED BY <1>8, <1>a, <1>0, <2>1, <2>2, <2>4, <2>5, <3>2, <4>1, <4>5, BudgetTouched DEF FreshPcs, SpentPcs, LoopHolding
    <3> QED BY <3>4, <3>5
  <2>7. CASE ~inline(t)
    <3>1. goto(t, "nack") /\ UNCHANGED made
      BY <1>13, <2>7 DEF HandleErr
    <3>2. pc'[t] = "nack" /\ \A q \in Proc : q # t => pc'[q] = pc[q]
      BY <1>3, <3>1
    <3>3. attempts[x] = n
      BY <1>a, <1>1, <2>1, <2>7 DEF Copy, Capped, SpentPcs, Counted
    <3>4. Copy(t, failed[x])'
      BY <1>a, <1>0, <2>1, <2>2, <3>2, <3>3 DEF Copy, Capped, SpentPcs
    <3>5. \A u \in Tasks : u # t => made'[u] = made[u] /\ limit'[u] = limit[u]
      BY <2>1, <3>1
    <3> QED BY <1>8, <1>a, <1>0, <2>1, <2>2, <2>4, <2>5, <3>2, <3>4, <3>5, BudgetTouched DEF FreshPcs, SpentPcs, LoopHolding
  <2> QED BY <2>6, <2>7
<1>14. CASE InlineRetry(t) \/ RetrySet(t)
  <2>1. /\ attempts' = [attempts EXCEPT ![x] = made[t]]
        /\ UNCHANGED <<failed, pushed, override, job, owner, made, limit, waiting, delayed, skipped, dlq>>
        /\ saveLimit(t)
        /\ \/ pc[t] = "sleep" /\ goto(t, "handle")
           \/ pc[t] = "retry_set" /\ goto(t, "retry_zadd")
    BY <1>a, <1>14 DEF InlineRetry, RetrySet, setJob, taskVars
  <2>2. attempts'[x] = made[t] /\ \A j \in Jobs : j # x => failed'[j] = failed[j] /\ attempts'[j] = attempts[j]
    BY <1>0, <2>1
  <2>3. /\ \A q \in Proc : q # t => pc'[q] = pc[q]
        /\ \A u \in Tasks : u # t => made'[u] = made[u] /\ limit'[u] = limit[u]
    BY <1>3, <2>1
  <2>4. pc[t] \in Holding
    BY <2>1 DEF Holding, TaskHolding
  <2>5. Below(n) /\ made[t] = n /\ limit[t] \in Limits
    BY <1>1, <2>1 DEF Copy, Capped, SpentPcs, Counted
  <2>6. Within(x)' /\ Overridden'
    BY <1>0, <1>9, <2>1, <2>5 DEF Budget, Within
  <2>7. CASE pc[t] = "sleep"
    <3>1. pc'[t] = "handle"
      BY <1>3, <2>1, <2>7
    <3>2. Counted(t, n)
      BY <1>1, <2>7 DEF Copy, Capped, SpentPcs
    <3>3. Copy(t, n)'
      <4>1. Counted(t, n)'
        BY <2>1, <3>2 DEF Counted, inline
      <4> QED BY <3>1, <4>1 DEF Copy, Capped, SpentPcs
    <3>4. Copy(t, failed[x])'
      BY <1>a, <1>b, <2>1, <3>3
    <3> QED BY <1>8, <1>a, <1>0, <2>1, <2>2, <2>3, <2>4, <2>6, <3>1, <3>4, BudgetTouched DEF FreshPcs, SpentPcs, LoopHolding
  <2>8. CASE pc[t] = "retry_set"
    <3>1. pc'[t] = "retry_zadd"
      BY <1>3, <2>1, <2>8
    <3>2. Fresh(x)'
      BY <1>a, <1>b, <2>1, <2>2, <2>5 DEF Fresh
    <3>3. Copy(t, failed[x])'
      BY <3>1 DEF Copy, Capped, SpentPcs
    <3> QED BY <1>8, <1>a, <1>0, <2>1, <2>2, <2>3, <2>4, <2>6, <3>1, <3>2, <3>3, BudgetTouched DEF SpentPcs
  <2> QED BY <2>1, <2>7, <2>8
<1>15. CASE Nack(t)
  <2>1. /\ pc[t] = "nack"
        /\ UNCHANGED <<failed, attempts, pushed, override, stamp, job, owner, waiting, delayed, skipped, dlq>>
    BY <1>15 DEF Nack
  <2>2. n = attempts[x] + 1
    BY <1>a, <1>1, <2>1 DEF Copy, Capped, SpentPcs
  <2>3. CASE x \in record
    <3>0. PICK max \in Limits : max = effective_max_attempts(stamp[x])
      BY <1>1, <1>5 DEF Overridden
    <3>1. /\ made' = [made EXCEPT ![t] = n] /\ limit' = [limit EXCEPT ![t] = max]
          /\ goto(t, IF is_exhausted(n, max) THEN "dlq_lrem" ELSE "retry_lrem")
      BY <1>a, <1>15, <2>2, <2>3, <3>0 DEF Nack
    <3>2. made'[t] = n /\ limit'[t] = max /\ \A u \in Tasks : u # t => made'[u] = made[u] /\ limit'[u] = limit[u]
      BY <1>0, <2>1, <3>1
    <3>3. CASE is_exhausted(n, max)
      <4>1. goto(t, "dlq_lrem") /\ pc'[t] = "dlq_lrem"
        BY <1>3, <3>1, <3>3
      <4>2. Spent(x)
        <5>1. n >= AtLeastOne(max)
          BY <1>0, <1>6, <2>2, <3>3
        <5> QED BY <1>a, <1>b, <5>1 DEF Spent
      <4>3. Copy(t, failed[job[t]])'
        BY <3>2, <4>1 DEF Copy, Capped, SpentPcs
      <4> QED BY <1>8, <1>a, <1>0, <1>4, <2>1, <3>2, <4>1, <4>2, <4>3, BudgetInside DEF FreshPcs, LoopHolding
    <3>4. CASE ~is_exhausted(n, max)
      <4>1. goto(t, "retry_lrem") /\ pc'[t] = "retry_lrem"
        BY <1>3, <3>1, <3>4
      <4>2. Below(n)
        <5>1. n < AtLeastOne(max)
          BY <1>0, <1>6, <2>2, <3>4
        <5> QED BY <5>1 DEF Below
      <4>3. Copy(t, failed[job[t]])'
        BY <1>a, <1>b, <2>1, <3>2, <4>1, <4>2 DEF Copy, Capped, SpentPcs
      <4> QED BY <1>8, <1>0, <1>4, <2>1, <3>2, <4>1, <4>3, BudgetInside DEF FreshPcs, SpentPcs, LoopHolding
    <3> QED BY <3>3, <3>4
  <2>4. CASE x \notin record
    <3>1. goto(t, "gone") /\ UNCHANGED <<made, limit>>
      BY <1>a, <1>15, <2>4 DEF Nack
    <3>2. Copy(t, failed[job[t]])'
      BY <1>3, <3>1 DEF Copy, Capped, SpentPcs
    <3>3. \A u \in Tasks : u # t => made'[u] = made[u] /\ limit'[u] = limit[u]
      BY <2>1, <3>1
    <3> QED BY <1>8, <1>0, <1>4, <2>1, <3>1, <3>2, <3>3, BudgetInside DEF FreshPcs, SpentPcs, LoopHolding
  <2> QED BY <2>3, <2>4
<1>16. CASE AckLrem(t)
  <2>1. goto(t, "ack_delete") /\ UNCHANGED <<failed, attempts, pushed, override, stamp, job, taskVars, owner, waiting, delayed, skipped, dlq>>
    BY <1>16 DEF AckLrem, taskVars
  <2>2. Copy(t, failed[job[t]])'
    BY <1>3, <2>1 DEF Copy, Capped, SpentPcs
  <2> QED BY <1>8, <1>0, <1>4, <1>7, <2>1, <2>2, BudgetInside DEF FreshPcs, SpentPcs, LoopHolding
<1>17. CASE RetryLrem(t)
  <2>1. /\ pc[t] = "retry_lrem" /\ goto(t, "retry_set")
        /\ UNCHANGED <<failed, attempts, pushed, override, stamp, job, taskVars, owner, made, limit, waiting, delayed, skipped, dlq>>
    BY <1>17 DEF RetryLrem, taskVars
  <2>2. made[t] = n /\ Below(n) /\ limit[t] \in Limits /\ pc'[t] = "retry_set"
    BY <1>1, <1>3, <2>1 DEF Copy, Capped, SpentPcs
  <2>3. Copy(t, failed[job[t]])'
    BY <1>a, <1>b, <2>1, <2>2 DEF Copy, Capped, SpentPcs
  <2> QED BY <1>8, <1>0, <1>4, <1>7, <2>1, <2>3, BudgetInside DEF FreshPcs, SpentPcs, LoopHolding
<1>18. CASE DlqLrem(t)
  <2>1. /\ pc[t] = "dlq_lrem" /\ goto(t, "dlq_push")
        /\ UNCHANGED <<failed, attempts, pushed, override, stamp, job, taskVars, owner, made, limit, waiting, delayed, skipped, dlq>>
    BY <1>18 DEF DlqLrem, taskVars
  <2>2. Spent(x) /\ limit[t] \in Limits /\ pc'[t] = "dlq_push"
    BY <1>1, <1>2, <1>3, <2>1 DEF Copy, Capped, SpentPcs
  <2>3. Copy(t, failed[job[t]])'
    BY <2>1, <2>2 DEF Copy, Capped, SpentPcs
  <2> QED BY <1>8, <1>a, <1>0, <1>4, <1>7, <2>1, <2>2, <2>3, BudgetInside DEF FreshPcs, LoopHolding
<1>19. CASE DlqPush(t)
  <2>1. /\ pc[t] = "dlq_push" /\ goto(t, "dlq_delete") /\ dlq' = lpush(dlq, x)
        /\ saveLimit(t) /\ UNCHANGED <<failed, attempts, pushed, override, job, taskVars, owner, made, waiting, delayed, skipped>>
    BY <1>a, <1>19 DEF DlqPush, taskVars
  <2>2. Spent(x) /\ limit[t] \in Limits /\ pc'[t] = "dlq_delete"
    BY <1>1, <1>2, <1>3, <2>1 DEF Copy, Capped, SpentPcs
  <2>6. Overridden'
    BY <1>9, <2>1, <2>2
  <2>3. Copy(t, failed[job[t]])'
    BY <2>2 DEF Copy, Capped, SpentPcs
  <2>4. Elems(lpush(dlq, x)) = Elems(dlq) \cup {x}
    BY <1>0, LpushFacts
  <2>5. \A j \in Jobs : j \in Elems(dlq') => j \in Elems(dlq) \/ Spent(j)
    BY <2>1, <2>2, <2>4
  <2> QED BY <1>0, <1>7, <2>1, <2>3, <2>5, <2>6, BudgetInside DEF FreshPcs, SpentPcs, LoopHolding
<1>20. CASE AckDelete(t) \/ NackGone(t) \/ DlqDelete(t)
  <2>1. finish(t) /\ UNCHANGED <<failed, attempts, pushed, override, stamp, job, taskVars, dlq, waiting, delayed, skipped>>
    BY <1>20 DEF AckDelete, NackGone, DlqDelete, deleteJob, finish
  <2>2. \A j \in Jobs : Offered(j)' => Offered(j)
    BY <2>1 DEF Offered
  <2> QED BY <1>0, <2>1, <2>2, BudgetFinish
<1>21. CASE RetryZadd(t)
  <2>1. /\ pc[t] = "retry_zadd" /\ finish(t) /\ delayed' = delayed \cup {x}
        /\ UNCHANGED <<failed, attempts, pushed, override, stamp, job, taskVars, dlq, waiting, skipped>>
    BY <1>a, <1>21 DEF RetryZadd, finish
  <2>2. Fresh(x)
    BY <1>2, <2>1 DEF FreshPcs
  <2>3. \A j \in Jobs : Offered(j)' => Offered(j) \/ Fresh(j)
    BY <2>1, <2>2 DEF Offered
  <2> QED BY <1>0, <2>1, <2>3, BudgetFinish
<1>22. CASE Release(t)
  <2>1. goto(t, "none") /\ UNCHANGED <<failed, attempts, pushed, override, stamp, job, taskVars, owner, waiting, delayed, skipped, dlq>>
    BY <1>22 DEF Release, taskVars
  <2>2. Copy(t, failed[job[t]])'
    BY <1>3, <2>1 DEF Copy, Capped, SpentPcs
  <2> QED BY <1>8, <1>0, <1>4, <1>7, <2>1, <2>2, BudgetInside DEF FreshPcs, SpentPcs, LoopHolding
<1> QED BY <1>11, <1>12, <1>13, <1>14, <1>15, <1>16, <1>17, <1>18, <1>19, <1>20, <1>21, <1>22 DEF TaskStep

\* A redriven job starts over, with its budget whole.
LEMMA AdminBudget ==
    ASSUME IInv, Budget, AdminStep PROVE Budget'
<1> USE DEF loopVars, clientVars, history, storeVars
<1>a. PICK x \in Jobs : x = job[Admin]
  BY DEF IInv, TypeOK, LocalOK, Proc
<1>0. /\ TypeOK /\ Admin \in Proc /\ Admin \in Proc \ Tasks /\ waiting \in Seq(Jobs) /\ dlq \in Seq(Jobs) /\ NoRepeat(dlq)
      /\ attempts \in [Jobs -> Nat] /\ failed \in [Jobs -> Nat]
  BY DEF IInv, TypeOK, StoreTypeOK, ClientOK, Proc, SinglePlace, ListedOnce
<1>1. \A y : goto(Admin, y) => pc'[Admin] = y /\ \A q \in Proc : q # Admin => pc'[q] = pc[q]
  BY <1>0, GotoHands
<1>2. \A j : take(Admin, j) => \A q \in Proc : q # Admin => job'[q] = job[q]
  BY DEF take, IInv, TypeOK, LocalOK
<1>3. \A y \in {"idle", "redrive_rpop", "redrive_set", "message_set", "discard_delete"} : y \notin FreshPcs /\ y \notin SpentPcs
  BY DEF FreshPcs, SpentPcs, LoopHolding
<1>4. UNCHANGED <<override, stamp>> => Overridden'
  BY DEF Budget, Overridden
<1>5. UNCHANGED <<waiting, delayed, skipped>> => \A j \in Jobs : Offered(j)' => Offered(j)
  BY DEF Offered
<1>11. CASE Redrive \/ DiscardDelete
  <2>1. /\ goto(Admin, "redrive_rpop") \/ goto(Admin, "idle")
        /\ UNCHANGED <<failed, attempts, pushed, override, stamp, taskVars, job, waiting, delayed, skipped, dlq>>
    BY <1>11 DEF Redrive, DiscardDelete, deleteJob
  <2>2. pc'[Admin] \in {"redrive_rpop", "idle"} /\ \A q \in Proc : q # Admin => pc'[q] = pc[q] /\ job'[q] = job[q]
    BY <1>1, <2>1
  <2>3. Overridden' /\ \A j \in Jobs : Offered(j)' => Offered(j)
    BY <1>4, <1>5, <2>1
  <2> QED BY <1>0, <1>3, <2>1, <2>2, <2>3, BudgetElsewhere
<1>12. CASE RedriveRpop
  <2>1. UNCHANGED <<failed, attempts, pushed, override, stamp, taskVars, waiting, delayed, skipped>>
    BY <1>12 DEF RedriveRpop
  <2>2. CASE dlq = <<>>
    <3>1. goto(Admin, "idle") /\ UNCHANGED <<dlq, job>>
      BY <1>12, <2>2 DEF RedriveRpop
    <3>2. pc'[Admin] = "idle" /\ \A q \in Proc : q # Admin => pc'[q] = pc[q] /\ job'[q] = job[q]
      BY <1>1, <3>1
    <3>3. Overridden' /\ \A j \in Jobs : Offered(j)' => Offered(j)
      BY <1>4, <1>5, <2>1
    <3> QED BY <1>0, <1>3, <2>1, <3>1, <3>2, <3>3, BudgetElsewhere
  <2>3. CASE dlq # <<>>
    <3>1. goto(Admin, "redrive_set") /\ take(Admin, back(dlq)) /\ dlq' = rpop(dlq)
      BY <1>12, <2>3 DEF RedriveRpop
    <3>2. Elems(rpop(dlq)) \subseteq Elems(dlq)
      BY <1>0, <2>3, RpopFacts
    <3>3. \A j \in Jobs : j \in Elems(dlq') => j \in Elems(dlq)
      BY <3>1, <3>2
    <3>4. pc'[Admin] = "redrive_set" /\ \A q \in Proc : q # Admin => pc'[q] = pc[q] /\ job'[q] = job[q]
      BY <1>1, <1>2, <3>1
    <3>5. Overridden' /\ \A j \in Jobs : Offered(j)' => Offered(j)
      BY <1>4, <1>5, <2>1
    <3> QED BY <1>0, <1>3, <2>1, <3>3, <3>4, <3>5, BudgetElsewhere
  <2> QED BY <2>2, <2>3
<1>13. ASSUME NEW j \in Jobs, RedriveMessage(j) \/ Discard(j) PROVE Budget'
  <2>1. /\ goto(Admin, "message_set") \/ goto(Admin, "discard_delete")
        /\ take(Admin, j) /\ dlq' = lremoveFirst(dlq, j) /\ j \in Elems(dlq)
        /\ UNCHANGED <<failed, attempts, pushed, override, stamp, taskVars, waiting, delayed, skipped>>
    BY <1>13 DEF RedriveMessage, Discard
  <2>2. Elems(lremoveFirst(dlq, j)) \subseteq Elems(dlq)
    BY <1>0, <2>1, LremoveFirstFacts
  <2>3. \A i \in Jobs : i \in Elems(dlq') => i \in Elems(dlq)
    BY <2>1, <2>2
  <2>4. \A q \in Proc : q # Admin => pc'[q] = pc[q] /\ job'[q] = job[q]
    BY <1>1, <1>2, <2>1
  <2>5. pc'[Admin] \notin FreshPcs /\ pc'[Admin] \notin SpentPcs
    BY <1>1, <1>3, <2>1
  <2>6. Overridden' /\ \A i \in Jobs : Offered(i)' => Offered(i)
    BY <1>4, <1>5, <2>1
  <2>7. UNCHANGED <<failed, attempts, pushed, taskVars>>
    BY <2>1
  <2> QED BY <1>0, <2>3, <2>4, <2>5, <2>6, <2>7, BudgetElsewhere
<1>14. CASE RedriveSet
  <2>1. /\ pc[Admin] \in Holding /\ attempts' = [attempts EXCEPT ![x] = 0] /\ failed' = [failed EXCEPT ![x] = 0]
        /\ goto(Admin, "redrive_push") \/ goto(Admin, "message_push")
        /\ UNCHANGED <<pushed, override, stamp, job, taskVars, owner, made, limit, waiting, delayed, skipped, dlq>>
    BY <1>a, <1>14 DEF RedriveSet, setJob, taskVars, Holding, AdminHolding
  <2>2. /\ attempts'[x] = 0 /\ failed'[x] = 0
        /\ \A j \in Jobs : j # x => failed'[j] = failed[j] /\ attempts'[j] = attempts[j]
    BY <1>0, <2>1
  <2>3. Fresh(x)' /\ Within(x)'
    BY <2>2, LimitsType DEF Fresh, Below, Within
  <2>4. \A t \in Tasks : t # Admin => made'[t] = made[t] /\ limit'[t] = limit[t]
    BY <2>1
  <2>5. pc'[Admin] \in {"redrive_push", "message_push"} /\ \A q \in Proc : q # Admin => pc'[q] = pc[q]
    BY <1>1, <2>1
  <2>6. pc'[Admin] \notin SpentPcs
    BY <2>5 DEF SpentPcs
  <2>7. Overridden'
    BY <1>4, <2>1
  <2> QED BY <1>a, <1>0, <2>1, <2>2, <2>3, <2>4, <2>5, <2>6, <2>7, BudgetTouched
<1>15. CASE RedrivePush
  <2>1. /\ pc[Admin] \in FreshPcs /\ waiting' = lpush(waiting, x)
        /\ goto(Admin, "redrive_rpop") \/ goto(Admin, "idle")
        /\ UNCHANGED <<failed, attempts, pushed, override, stamp, taskVars, job, delayed, skipped, dlq>>
    BY <1>a, <1>15 DEF RedrivePush, FreshPcs
  <2>2. Fresh(x)
    BY <1>a, <1>0, <2>1 DEF Budget
  <2>3. Elems(lpush(waiting, x)) = Elems(waiting) \cup {x}
    BY <1>0, LpushFacts
  <2>4. \A j \in Jobs : Offered(j)' => Offered(j) \/ Fresh(j)
    BY <2>1, <2>2, <2>3 DEF Offered
  <2>5. pc'[Admin] \in {"redrive_rpop", "idle"} /\ \A q \in Proc : q # Admin => pc'[q] = pc[q] /\ job'[q] = job[q]
    BY <1>1, <2>1
  <2>6. Overridden'
    BY <1>4, <2>1
  <2> QED BY <1>0, <1>3, <2>1, <2>4, <2>5, <2>6, BudgetElsewhere
<1> QED BY <1>11, <1>12, <1>13, <1>14, <1>15 DEF AdminStep

\* A new job has failed never.
LEMMA ClientBudget ==
    ASSUME IInv, Budget, ClientStep PROVE Budget'
<1> USE DEF loopVars, clientVars, history, storeVars
<1>0. /\ TypeOK /\ pushed \in Nat /\ waiting \in Seq(Jobs) /\ attempts \in [Jobs -> Nat] /\ failed \in [Jobs -> Nat]
      /\ job \in [Proc -> Jobs] /\ Tasks \subseteq Proc /\ Jobs \subseteq Nat
  <2>1. /\ TypeOK /\ pushed \in 0 .. MaxJobs /\ waiting \in Seq(Jobs) /\ attempts \in [Jobs -> Nat]
        /\ failed \in [Jobs -> Nat] /\ job \in [Proc -> Jobs]
    BY DEF IInv, TypeOK, StoreTypeOK, ClientOK, LocalOK
  <2>2. Tasks \subseteq Proc /\ Jobs \subseteq Nat
    BY DEF Proc, Jobs
  <2> QED BY <2>1, <2>2
<1>1. CASE Push \/ PushDelayed
  <2>1. PICK x \in Jobs : x = pushed + 1
    BY <1>1 DEF Push, PushDelayed, IInv, TypeOK, ClientOK, Jobs
  <2>2. /\ pushed' = x /\ attempts' = [attempts EXCEPT ![x] = 0]
        /\ UNCHANGED <<failed, override, stamp, dlq, skipped, pc, job, taskVars>>
        /\ \/ waiting' = lpush(waiting, x) /\ delayed' = delayed
           \/ waiting' = waiting /\ delayed' = delayed \cup {x}
    BY <1>1, <2>1 DEF Push, PushDelayed, setJob
  <2>3. Elems(lpush(waiting, x)) = Elems(waiting) \cup {x}
    BY <1>0, LpushFacts
  <2>4. \A j \in Jobs : Offered(j)' => Offered(j) \/ j = x
    BY <2>2, <2>3 DEF Offered
  <2>5. /\ ~Located(x) /\ failed[x] = 0 /\ attempts'[x] = 0 /\ \A j \in Jobs : j # x => attempts'[j] = attempts[j]
    BY <1>0, <2>1, <2>2 DEF IInv, Unborn, Budget
  <2>6. \A j \in Jobs : j # x => (Fresh(j)' <=> Fresh(j))
    BY <2>2, <2>5 DEF Fresh
  <2>7. \A j \in Jobs : (Spent(j)' <=> Spent(j)) /\ (Within(j)' <=> Within(j))
    BY <2>2 DEF Spent, Within
  <2>8. Fresh(x)'
    BY <2>2, <2>5, LimitsType DEF Fresh, Below
  <2>9. \A p \in Proc : pc[p] \in Holding => job[p] # x
    BY <2>5 DEF Located, Holds
  <2>10. FreshPcs \subseteq Holding
    BY DEF FreshPcs, Holding, LoopHolding, TaskHolding, AdminHolding
  <2>11. \A j \in Jobs : (Offered(j)' => Fresh(j)') /\ (j \in Elems(dlq') => Spent(j)')
    BY <2>2, <2>4, <2>6, <2>7, <2>8 DEF Budget
  <2>12. ASSUME NEW p \in Proc
         PROVE (pc'[p] \in FreshPcs => Fresh(job[p])') /\ (pc'[p] \in SpentPcs => Spent(job[p])')
    <3>1. pc'[p] = pc[p] /\ job'[p] = job[p] /\ job[p] \in Jobs
      BY <1>0, <2>2
    <3>2. \A j \in Jobs : j = job[p] => (pc[p] \in FreshPcs => Fresh(j)') /\ (pc[p] \in SpentPcs => Spent(j)')
      BY <2>6, <2>7, <2>9, <2>10 DEF Budget
    <3> QED BY <3>1, <3>2
  <2>13. ASSUME NEW t \in Tasks PROVE Copy(t, failed[job[t]])'
    <3>1. Copy(t, failed[job[t]]) /\ t \in Proc /\ UNCHANGED <<pc, job, made, limit, owner, failed>>
      BY <1>0, <2>2 DEF Budget, taskVars
    <3>2. CASE pc[t] \in Holding
      <4>1. attempts'[job[t]] = attempts[job[t]]
        BY <1>0, <2>5, <2>9, <3>1, <3>2
      <4> QED BY <3>1, <4>1 DEF Copy, Capped, SpentPcs, Counted, inline
    <3>3. CASE pc[t] \notin Holding
      BY <3>1, <3>3 DEF Copy, Capped, SpentPcs, Holding, TaskHolding
    <3> QED BY <3>2, <3>3
  <2>14. \A j \in Jobs : Within(j)' /\ (j > pushed' => failed'[j] = 0)
    BY <1>0, <2>1, <2>2, <2>7 DEF Budget
  <2>15. Overridden'
    BY <2>2 DEF Budget, Overridden
  <2> QED BY <2>11, <2>12, <2>13, <2>14, <2>15 DEF Budget
<1>2. ASSUME NEW w \in Subs, Subscribe(w) PROVE Budget'
  <2>1. /\ goto(w, "idle") /\ override' = (IF w \in Configured THEN SubMax[w] ELSE override)
        /\ UNCHANGED <<stamp, failed, attempts, pushed, taskVars, job, waiting, delayed, skipped, dlq>>
    BY <1>2 DEF Subscribe
  <2>2. Overridden'
    BY <2>1 DEF Budget, Overridden, Limits
  <2>3. w \in Proc \ Tasks /\ w \in Proc
    BY DEF Proc
  <2>4. pc'[w] = "idle" /\ \A q \in Proc : q # w => pc'[q] = pc[q]
    BY <1>0, <2>1, <2>3, GotoHands
  <2>5. \A j \in Jobs : (Offered(j)' => Offered(j)) /\ (j \in Elems(dlq') => j \in Elems(dlq))
    BY <2>1 DEF Offered
  <2>6. "idle" \notin FreshPcs /\ "idle" \notin SpentPcs
    BY DEF FreshPcs, SpentPcs, LoopHolding
  <2> QED BY <1>0, <2>1, <2>2, <2>3, <2>4, <2>5, <2>6, BudgetElsewhere
<1>3. ASSUME NEW w \in Subs, Unsubscribe(w) PROVE Budget'
  <2>1. /\ UNCHANGED <<failed, attempts, pushed, override, stamp, taskVars, job, waiting, delayed, dlq>>
        /\ skipped' = [skipped EXCEPT ![w] = <<>>]
        /\ \A p \in Proc : pc'[p] = IF p = w THEN "off" ELSE IF p \in Inline(w) THEN "none" ELSE pc[p]
    BY <1>3 DEF Unsubscribe
  <2>2. \A v \in Subs : Elems(skipped'[v]) \subseteq Elems(skipped[v])
    <3>1. Elems(<<>>) = {} /\ skipped \in [Subs -> Seq(Jobs)]
      BY DEF Elems, IInv, TypeOK, LocalOK
    <3>2. \A v \in Subs : skipped'[v] = <<>> \/ skipped'[v] = skipped[v]
      BY <2>1, <3>1
    <3> QED BY <3>1, <3>2
  <2>3. \A j \in Jobs : (Offered(j)' => Offered(j)) /\ (j \in Elems(dlq') => j \in Elems(dlq))
    BY <2>1, <2>2 DEF Offered
  <2>4. \A p \in Proc : pc'[p] \in {"off", "none"} => Sound(p)
    BY DEF Sound, Copy, Capped, SpentPcs, FreshPcs, LoopHolding
  <2>5. \A p \in Proc : pc'[p] = pc[p] => Kept(p)
    BY <2>1 DEF Kept, taskVars
  <2>6. Overridden'
    BY <2>1 DEF Budget, Overridden
  <2> QED BY <1>0, <2>1, <2>3, <2>4, <2>5, <2>6, BudgetMoves
<1> QED BY <1>1, <1>2, <1>3 DEF ClientStep

\* The budgets are kept at first and after every step.
LEMMA BudgetInductive == (Init => Budget) /\ (IInv /\ Budget /\ [Next]_vars => Budget')
<1>1. ASSUME Init PROVE Budget
  <2>1. /\ override = 0 /\ (\A j \in Jobs : stamp[j] = MaxAttempts) /\ waiting = <<>> /\ dlq = <<>> /\ delayed = {} /\ \A w \in Subs : skipped[w] = <<>>
        /\ \A j \in Jobs : failed[j] = 0
        /\ \A p \in Proc : pc[p] \in {"new", "idle", "none"}
    BY <1>1 DEF Init, StoreInit
  <2>2. Elems(<<>>) = {}
    BY DEF Elems
  <2>3. \A j \in Jobs : ~Offered(j) /\ j \notin Elems(dlq)
    BY <2>1, <2>2 DEF Offered
  <2>4. \A p \in Proc : pc[p] \notin FreshPcs /\ pc[p] \notin SpentPcs
    BY <2>1 DEF FreshPcs, SpentPcs, LoopHolding
  <2>5. \A t \in Tasks : Copy(t, failed[job[t]])
    BY <2>1 DEF Copy, Capped, SpentPcs, Proc
  <2>6. \A j \in Jobs : Within(j)
    <3>1. 0 <= AtLeastOne(MaxAttempts)
      BY LimitsType
    <3> QED BY <2>1, <3>1, LimitsType DEF Within
  <2> QED BY <2>1, <2>3, <2>4, <2>5, <2>6, LimitsType DEF Budget, Overridden
<1>2. ASSUME IInv, Budget, UNCHANGED vars PROVE Budget'
  <2>1. \A q \in Proc : Kept(q)
    BY <1>2 DEF Kept, vars, taskVars
  <2>2. \A j \in Jobs : (Offered(j)' => Offered(j)) /\ (j \in Elems(dlq') => j \in Elems(dlq))
    BY <1>2 DEF Offered, vars, storeVars, loopVars
  <2>3. Overridden' /\ UNCHANGED <<failed, attempts, pushed>> /\ TypeOK
    BY <1>2 DEF Budget, Overridden, vars, storeVars, clientVars, history, IInv
  <2> QED BY <1>2, <2>1, <2>2, <2>3, BudgetMoves
<1>3. ASSUME IInv, Budget, Next PROVE Budget'
  BY <1>3, ClientBudget, AdminBudget, LoopBudget, TaskBudget DEF Next
<1> QED BY <1>1, <1>2, <1>3

(* The retry budget: no interleaving of handlers, inline retries, nacks,     *)
(* subscriptions with other limits and redrives lets a job fail more often   *)
(* than some limit in force allows, or dead-letters it before a limit is     *)
(* spent (queue.rs nack, process_job_with_inline_retry, dlq_redrive).       *)
THEOREM BudgetKept == Spec => []RetryBudget
<1>1. Budget => RetryBudget
  BY DEF Budget, RetryBudget, Within, Spent
<1> QED BY <1>1, BudgetInductive, Invariant, PTL DEF Spec

----------------------------------------------------------------------------
(* The refinement, for clients that do not redrive: a redrive can overtake   *)
(* the deletion of the record that dead-lettering ends with, and the job is  *)
(* then lost (the run queue_redrive_lost).                                   *)
NoRedrives == Ops \cap {"redrive", "redrive_message"} = {}

(* A job that is still to be handled. *)
Live(j) == Waiting(j) \/ Running(j) \/ Failed(j)
Known(j) == j > pushed \/ j \in finished \/ j \in stranded \/ Live(j) \/ Dead(j)

(* What carries the refinement: every job is somewhere (Lives); its record is *)
(* there as long as it is to be handled (Recorded), because the deletion of a *)
(* dead-lettered record finds it dead or gone (Deleting), so that no pop and  *)
(* no nack misses it (Steady); and a FIFO loop waits for its one task (Fifo), *)
(* so that resuming it drops nothing.                                        *)
Lives == (\A j \in Jobs : Known(j)) /\ finished \cap stranded = {}
Recorded == \A j \in Jobs : Live(j) => j \in record
Deleting == \A t \in Tasks : pc[t] = "dlq_delete" => job[t] <= pushed /\ ~Live(job[t])
Steady == pc[Admin] \in {"idle", "discard_delete"} /\ \A t \in Tasks : pc[t] # "gone"
Attached(t) == pc[t] # "none" /\ Mode[owner[t]] = "fifo"
Fifo ==
    /\ \A t \in Tasks : Attached(t) => pc[owner[t]] = "busy"
    /\ \A t, u \in Tasks : Attached(t) /\ Attached(u) /\ owner[t] = owner[u] => t = u
Living == Lives /\ Recorded /\ Deleting /\ Steady /\ Fifo

(* A job is in one stage of its life at a time. *)
LEMMA Exclusive ==
    ASSUME IInv, Past, finished \cap stranded = {}, NEW j \in Jobs
    PROVE  /\ j > pushed => j \notin finished /\ j \notin stranded /\ ~Live(j) /\ ~Dead(j)
           /\ j \in finished \cup stranded => ~Live(j) /\ ~Dead(j)
           /\ j \in finished => j \notin stranded
           /\ Dead(j) => ~Live(j)
           /\ Running(j) => ~Failed(j) /\ ~Waiting(j)
           /\ Failed(j) => ~Waiting(j)
<1>0. Subs \subseteq Proc /\ Tasks \subseteq Proc /\ Admin \in Proc /\ pushed \in Nat /\ j \in Nat
  BY DEF Proc, IInv, TypeOK, ClientOK, Jobs
<1>1. (Live(j) => Located(j)) /\ (Dead(j) => Located(j))
  BY <1>0 DEF Live, Dead, Waiting, Running, Failed, Located
<1>2. \A p, q \in Proc : Holds(p, j) /\ Holds(q, j) => p = q
  BY DEF IInv, SinglePlace, HeldOnce, Holds
<1>3. \A p \in Proc : Holds(p, j) => /\ j \notin Elems(waiting) /\ j \notin delayed /\ j \notin Elems(dlq)
                                   /\ \A w \in Subs : j \notin Elems(skipped[w])
  BY DEF IInv, SinglePlace, HeldElsewhereNowhere, Holds
<1>4. j \in Elems(dlq) => /\ j \notin Elems(waiting) /\ j \notin delayed
                          /\ \A w \in Subs : j \notin Elems(skipped[w])
  BY DEF IInv, SinglePlace, ListsDisjoint
<1>5. j > pushed => j \notin finished /\ j \notin stranded /\ ~Live(j) /\ ~Dead(j)
  BY <1>0, <1>1 DEF IInv, Unborn, Past
<1>6. j \in finished \cup stranded => ~Live(j) /\ ~Dead(j)
  BY <1>1 DEF Past
<1>7. Running(j) => ~Failed(j) /\ ~Waiting(j)
  BY <1>0, <1>2, <1>3 DEF Running, Failed, Waiting
<1>8. Failed(j) => ~Waiting(j)
  BY <1>0, <1>2, <1>3 DEF Failed, Waiting
<1>9. Dead(j) => ~Live(j)
  <2>1. Dead(j) => ~Running(j) /\ ~Failed(j)
    BY <1>0, <1>2, <1>3 DEF Dead, Running, Failed
  <2>2. Dead(j) => ~Waiting(j)
    BY <1>0, <1>2, <1>3, <1>4 DEF Dead, Waiting
  <2> QED BY <2>1, <2>2 DEF Live
<1> QED BY <1>5, <1>6, <1>7, <1>8, <1>9

Apart == IInv /\ Past /\ finished \cap stranded = {}
NoneRevived == \A j \in Jobs : Dead(j) \/ j \in finished => ~Live(j)

\* A job that is dead or settled is not to be handled.
LEMMA NotLive == Apart => NoneRevived
BY Exclusive DEF Apart, NoneRevived
\* The same after a step.
LEMMA NotLiveNext == Apart' => NoneRevived'
BY NotLive, PTL

(* So the abstract status is the stage the job is in. *)
LEMMA StatusIs ==
    ASSUME IInv, Past, Lives, NEW j \in Jobs
    PROVE  /\ j > pushed <=> StatusOf(j) = "unborn"
           /\ j \in finished <=> StatusOf(j) = "done"
           /\ j \in stranded <=> StatusOf(j) = "abandoned"
           /\ Waiting(j) <=> StatusOf(j) = "waiting"
           /\ Running(j) <=> StatusOf(j) = "running"
           /\ Failed(j) <=> StatusOf(j) = "failed"
           /\ Dead(j) <=> StatusOf(j) = "dead"
<1>1. Known(j) /\ finished \cap stranded = {}
  BY DEF Lives
<1>2. /\ j > pushed => j \notin finished /\ j \notin stranded /\ ~Live(j) /\ ~Dead(j)
      /\ j \in finished \cup stranded => ~Live(j) /\ ~Dead(j)
      /\ j \in finished => j \notin stranded
      /\ Dead(j) => ~Live(j)
      /\ Running(j) => ~Failed(j) /\ ~Waiting(j)
      /\ Failed(j) => ~Waiting(j)
  BY <1>1, Exclusive
<1> DEFINE u == j > pushed
           d == j \in finished
           s == j \in stranded
<1>3. StatusOf(j) = CASE u -> "unborn" [] d -> "done" [] s -> "abandoned" [] Waiting(j) -> "waiting"
                      [] Running(j) -> "running" [] Failed(j) -> "failed" [] Dead(j) -> "dead" [] OTHER -> "lost"
  BY DEF StatusOf
<1> QED BY <1>1, <1>2, <1>3 DEF Live, Known

----------------------------------------------------------------------------
(* How a step changes the stage of one job and of no other. *)
Same(j) ==
    /\ (j > pushed') <=> (j > pushed)
    /\ j \in finished' <=> j \in finished
    /\ j \in stranded' <=> j \in stranded
    /\ Waiting(j)' <=> Waiting(j)
    /\ Running(j)' <=> Running(j)
    /\ Failed(j)' <=> Failed(j)
    /\ Dead(j)' <=> Dead(j)
Turn(x) ==
    \/ /\ failed' = failed
       /\ \/ x > pushed /\ Waiting(x)'
          \/ Waiting(x) /\ (Waiting(x)' \/ Running(x)')
          \/ Running(x) /\ (Running(x)' \/ x \in finished')
          \/ Failed(x) /\ Failed(x)'
          \/ Failed(x) /\ Below(failed[x]) /\ (Waiting(x)' \/ Running(x)')
          \/ Failed(x) /\ Spent(x) /\ Dead(x)'
          \/ Dead(x) /\ (Dead(x)' \/ x \in finished')
    \/ failed' = [failed EXCEPT ![x] = @ + 1] /\ Running(x) /\ Failed(x)'
Rest == (\A j \in Jobs : Same(j)) /\ failed' = failed
Turns == UNCHANGED stranded /\ \E x \in Jobs : Turn(x) /\ \A j \in Jobs : j # x => Same(j)
Leaves(S) ==
    /\ UNCHANGED <<failed, finished>>
    /\ \A j \in S : Live(j) /\ j \in stranded'
    /\ \A j \in Jobs : j \notin S => Same(j)
Advance == Rest \/ Turns \/ \E S \in SUBSET Jobs : Leaves(S)

Still(q) == pc'[q] = pc[q] /\ job'[q] = job[q]
Listed(j) ==
    /\ j \in Elems(waiting') <=> j \in Elems(waiting)
    /\ j \in delayed' <=> j \in delayed
    /\ j \in Elems(dlq') <=> j \in Elems(dlq)
    /\ \A w \in Subs : j \in Elems(skipped'[w]) <=> j \in Elems(skipped[w])

(* A job that the moving processes have nothing to do with. *)
LEMMA SameOff ==
    ASSUME NEW j \in Jobs, Listed(j),
           (j > pushed') <=> (j > pushed),
           j \in finished' <=> j \in finished, j \in stranded' <=> j \in stranded,
           \A q \in Proc : Still(q) \/ (~Holds(q, j) /\ ~Holds(q, j)')
    PROVE  Same(j)
<1>0. Subs \subseteq Proc /\ Tasks \subseteq Proc /\ Admin \in Proc
  BY DEF Proc
<1>1. \A q \in Proc : /\ Holds(q, j)' <=> Holds(q, j)
                      /\ Holds(q, j) => pc'[q] = pc[q]
  BY DEF Still, Holds
<1>2. Waiting(j)' <=> Waiting(j)
  BY <1>0, <1>1 DEF Waiting, Listed
<1>3. Running(j)' <=> Running(j)
  BY <1>0, <1>1 DEF Running
<1>4. Failed(j)' <=> Failed(j)
  BY <1>0, <1>1 DEF Failed
<1>5. Dead(j)' <=> Dead(j)
  BY <1>0, <1>1 DEF Dead, Listed
<1> QED BY <1>2, <1>3, <1>4, <1>5 DEF Same

(* Processes with empty hands move, and no list changes. *)
LEMMA Resting ==
    ASSUME UNCHANGED <<waiting, delayed, dlq, pushed, finished, stranded, failed>>,
           \A w \in Subs : Elems(skipped'[w]) = Elems(skipped[w]),
           \A q \in Proc : Still(q) \/ (pc[q] \notin Holding /\ pc'[q] \notin Holding)
    PROVE  Advance
<1>1. ASSUME NEW j \in Jobs PROVE Same(j)
  BY SameOff DEF Listed, Holds
<1> QED BY <1>1 DEF Advance, Rest

(* Processes move that have job x in hand before, after or both. *)
LEMMA Turning ==
    ASSUME UNCHANGED stranded, NEW x \in Jobs, Turn(x),
           \A j \in Jobs : j # x => Listed(j) /\ (j > pushed' <=> j > pushed) /\ (j \in finished' <=> j \in finished),
           \A q \in Proc : \/ Still(q)
                           \/ (pc[q] \in Holding => job[q] = x) /\ (pc'[q] \in Holding => job'[q] = x)
    PROVE  Advance
<1>1. ASSUME NEW j \in Jobs, j # x PROVE Same(j)
  BY <1>1, SameOff DEF Holds
<1> QED BY <1>1 DEF Advance, Turns

(* The loop of a subscription moves a job that waits from place to place. *)
LEMMA LoopTurn ==
    ASSUME NEW w \in Subs, NEW x \in Jobs, UNCHANGED <<pushed, finished, stranded, failed>>,
           \A q \in Proc : q # w => Still(q),
           (pc[w] \in Holding => job[w] = x) /\ (pc'[w] \in Holding => job'[w] = x),
           \A j \in Jobs : j # x => Listed(j), Waiting(x), Waiting(x)'
    PROVE  Advance
<1>1. Turn(x)
  BY DEF Turn
<1> QED BY <1>1, Turning

(* It hands one over to a task. *)
LEMMA StartTurn ==
    ASSUME IInv, NEW w \in Subs, NEW t \in Tasks, pc[w] = "pop_load",
           NEW first \in {"start", "handle"}, NEW next \in {"pop", "busy"}, start(w, t, first, next),
           UNCHANGED <<waiting, delayed, dlq, skipped, pushed, finished, stranded, failed>>
    PROVE  Advance
<1>0. /\ w \in Proc /\ t \in Proc /\ t # w /\ job \in [Proc -> Jobs]
      /\ pc \in [Proc -> LoopPcs \cup TaskPcs \cup AdminPcs]
  BY DEF IInv, TypeOK, LocalOK, PcOK, Proc
<1>1. /\ job' = [job EXCEPT ![t] = job[w]] /\ pc' = [pc EXCEPT ![t] = first, ![w] = next] /\ pc[t] = "none"
  BY DEF start, take
<1>2. /\ job'[t] = job[w] /\ pc'[t] = first /\ pc'[w] = next /\ job'[w] = job[w]
      /\ \A q \in Proc : q # t /\ q # w => Still(q)
  BY <1>0, <1>1 DEF Still
<1>3. /\ "pop_load" \in Holding /\ first \in Holding /\ first \notin Failing /\ next \notin Holding /\ "none" \notin Holding
  BY DEF Holding, LoopHolding, TaskHolding, AdminHolding, Failing
<1>4. Waiting(job[w])
  BY <1>3 DEF Waiting, Holds
<1>5. PICK x \in Jobs : x = job[w]
  BY <1>0
<1>6. Running(x)'
  BY <1>2, <1>3, <1>5 DEF Running, Holds
<1>7. Turn(x)
  BY <1>4, <1>5, <1>6 DEF Turn
<1>8. \A j \in Jobs : Listed(j)
  BY DEF Listed
<1> QED BY <1>1, <1>2, <1>3, <1>5, <1>7, <1>8, Turning

\* A loop changes the life of a job only by starting it.
LEMMA LoopAdvances ==
    ASSUME IInv, Living, NEW w \in Subs, LoopStep(w) PROVE Advance
<1> USE DEF loopVars, taskVars, clientVars, history, storeVars
<1>0. /\ w \in Proc /\ job[w] \in Jobs /\ job \in [Proc -> Jobs] /\ waiting \in Seq(Jobs) /\ dlq \in Seq(Jobs)
      /\ NoRepeat(waiting) /\ NoRepeat(skipped[w]) /\ skipped \in [Subs -> Seq(Jobs)] /\ TypeOK
  BY DEF IInv, TypeOK, StoreTypeOK, LocalOK, Proc, SinglePlace, ListedOnce
<1>00. {"move_push", "pop_active", "pop_load", "requeue"} \subseteq Holding
  BY DEF Holding, LoopHolding
<1>000. ASSUME pc[w] \in Holding PROVE Waiting(job[w])
  BY <1>000 DEF Waiting, Holds
<1>1. ASSUME NEW due \in SUBSET delayed, Poll(w, due) PROVE Advance
  <2>1. /\ pc[w] \notin Holding /\ pc'[w] \notin Holding /\ \A q \in Proc : q # w => Still(q)
    BY <1>1, <1>0, GotoHands, FreePcs DEF Poll, Still
  <2> QED BY <1>1, <2>1, Resting DEF Poll
<1>2. ASSUME NEW j \in Jobs, MoveZrem(w, j) PROVE Advance
  <2>1. CASE j \in delayed
    <3>1. /\ pc[w] \notin Holding /\ pc'[w] \in Holding /\ job'[w] = j /\ \A q \in Proc : q # w => Still(q)
      BY <1>2, <1>0, <1>00, <2>1, GotoHands, FreePcs DEF MoveZrem, take, Still
    <3>2. Waiting(j) /\ Waiting(j)'
      BY <2>1, <3>1 DEF Waiting, Holds
    <3>3. \A i \in Jobs : i # j => Listed(i)
      BY <1>2, <2>1 DEF MoveZrem, Listed
    <3> QED BY <1>2, <3>1, <3>2, <3>3, LoopTurn DEF MoveZrem
  <2>2. CASE j \notin delayed
    <3>1. \A q \in Proc : Still(q)
      BY <1>2, <2>2 DEF MoveZrem, Still
    <3> QED BY <1>2, <2>2, <3>1, Resting DEF MoveZrem
  <2> QED BY <2>1, <2>2
<1>3. CASE MovePush(w)
  <2>1. /\ pc[w] \in Holding /\ pc'[w] \notin Holding /\ \A q \in Proc : q # w => Still(q)
    BY <1>3, <1>0, <1>00, GotoHands, FreePcs DEF MovePush, Still
  <2>2. Elems(waiting') = Elems(waiting) \cup {job[w]}
    <3>1. waiting \in Seq(Jobs) /\ job[w] \in Jobs
      BY <1>0
    <3>2. Elems(rpush(waiting, job[w])) = Elems(waiting) \cup {job[w]}
      BY <3>1, RpushFacts
    <3>3. waiting' = rpush(waiting, job[w])
      BY <1>3 DEF MovePush
    <3> QED BY <3>2, <3>3
  <2>3. PICK x \in Jobs : x = job[w]
    BY <1>0
  <2>4. Waiting(x) /\ Waiting(x)'
    BY <1>000, <2>1, <2>2, <2>3 DEF Waiting
  <2>5. \A i \in Jobs : i # x => Listed(i)
    BY <1>3, <2>2, <2>3 DEF MovePush, Listed
  <2> QED BY <1>3, <2>1, <2>3, <2>4, <2>5, LoopTurn DEF MovePush
<1>4. CASE MoveDone(w)
  <2>1. /\ pc[w] \notin Holding /\ pc'[w] \notin Holding /\ \A q \in Proc : q # w => Still(q)
    BY <1>4, <1>0, GotoHands, FreePcs DEF MoveDone, Still
  <2> QED BY <1>4, <2>1, Resting DEF MoveDone
<1>5. CASE PopNone(w)
  <2>1. /\ pc[w] \notin Holding /\ pc'[w] \notin Holding /\ \A q \in Proc : q # w => Still(q)
    BY <1>5, <1>0, GotoHands, FreePcs DEF PopNone, endPass, Still
  <2> QED BY <1>5, <2>1, Resting DEF PopNone
<1>6. CASE PopId(w)
  <2>1. /\ pc[w] \notin Holding /\ pc'[w] \in Holding /\ job'[w] = back(waiting) /\ \A q \in Proc : q # w => Still(q)
    BY <1>6, <1>0, <1>00, GotoHands, FreePcs DEF PopId, take, Still
  <2>2. waiting # <<>>
    BY <1>6 DEF PopId
  <2>3. /\ back(waiting) \in Jobs
        /\ Elems(waiting) = Elems(rpop(waiting)) \cup {back(waiting)}
    BY <1>0, <2>2, RpopFacts
  <2>4. PICK x \in Jobs : x = back(waiting)
    BY <2>3
  <2>5. Waiting(x) /\ Waiting(x)'
    BY <2>1, <2>3, <2>4 DEF Waiting, Holds
  <2>6. \A i \in Jobs : i # x => Listed(i)
    BY <1>6, <2>3, <2>4 DEF PopId, Listed
  <2> QED BY <1>6, <2>1, <2>4, <2>5, <2>6, LoopTurn DEF PopId
<1>7. CASE PopActive(w) \/ NoPermit(w)
  <2>1. /\ pc[w] \in Holding /\ pc'[w] \in Holding /\ \A q \in Proc : q # w => Still(q)
    BY <1>7, <1>0, <1>00, GotoHands DEF PopActive, NoPermit, Still
  <2>2. PICK x \in Jobs : x = job[w]
    BY <1>0
  <2>3. /\ UNCHANGED <<waiting, delayed, dlq, skipped, job, pushed, finished, stranded, failed>>
    BY <1>7 DEF PopActive, NoPermit
  <2>4. Waiting(x) /\ Waiting(x)'
    BY <1>000, <2>1, <2>2, <2>3 DEF Waiting, Holds
  <2>5. \A i \in Jobs : i # x => Listed(i)
    BY <2>3 DEF Listed
  <2> QED BY <2>1, <2>2, <2>3, <2>4, <2>5, LoopTurn
<1>8. CASE PopMissing(w)
  <2>1. job[w] \in record
    BY <1>8, <1>0, <1>00, <1>000 DEF PopMissing, Living, Recorded, Live
  <2> QED BY <1>8, <2>1 DEF PopMissing
<1>9. ASSUME NEW t \in Tasks, SpawnConcurrent(w, t) \/ StartFifo(w, t) \/ SpawnGrouped(w, t) PROVE Advance
  <2>1. CASE SpawnConcurrent(w, t)
    BY <2>1, StartTurn DEF SpawnConcurrent
  <2>2. CASE StartFifo(w, t)
    BY <2>2, StartTurn DEF StartFifo
  <2>3. CASE SpawnGrouped(w, t)
    BY <2>3, StartTurn DEF SpawnGrouped
  <2> QED BY <1>9, <2>1, <2>2, <2>3
<1>10. CASE Requeue(w)
  <2>1. /\ pc[w] \in Holding /\ pc'[w] \notin Holding /\ \A q \in Proc : q # w => Still(q)
    BY <1>10, <1>0, <1>00, GotoHands, FreePcs DEF Requeue, Still
  <2>2. Elems(waiting') = Elems(waiting) \cup {job[w]}
    <3>1. waiting \in Seq(Jobs) /\ job[w] \in Jobs
      BY <1>0
    <3>2. Elems(lpush(waiting, job[w])) = Elems(waiting) \cup {job[w]}
      BY <3>1, LpushFacts
    <3>3. waiting' = lpush(waiting, job[w])
      BY <1>10 DEF Requeue
    <3> QED BY <3>2, <3>3
  <2>3. PICK x \in Jobs : x = job[w]
    BY <1>0
  <2>4. Waiting(x) /\ Waiting(x)'
    BY <1>000, <2>1, <2>2, <2>3 DEF Waiting
  <2>5. \A i \in Jobs : i # x => Listed(i)
    BY <1>10, <2>2, <2>3 DEF Requeue, Listed
  <2> QED BY <1>10, <2>1, <2>3, <2>4, <2>5, LoopTurn DEF Requeue
<1>11. CASE RequeueLrem(w) \/ SkipLrem(w)
  <2>1. /\ pc[w] \notin Holding /\ pc'[w] \notin Holding /\ \A q \in Proc : q # w => Still(q)
    BY <1>11, <1>0, GotoHands, FreePcs DEF RequeueLrem, SkipLrem, endPass, Still
  <2> QED BY <1>11, <2>1, Resting DEF RequeueLrem, SkipLrem
<1>12. CASE SkipGrouped(w)
  <2> DEFINE new == Append(skipped[w], job[w])
  <2>1. /\ pc[w] \in Holding /\ pc'[w] \notin Holding /\ \A q \in Proc : q # w => Still(q)
    BY <1>12, <1>0, <1>00, GotoHands, FreePcs DEF SkipGrouped, Still
  <2>2. Elems(new) = Elems(skipped[w]) \cup {job[w]}
    BY <1>0, RpushFacts DEF rpush
  <2>3. skipped' = [skipped EXCEPT ![w] = new]
    BY <1>12 DEF SkipGrouped
  <2>4. PICK x \in Jobs : x = job[w]
    BY <1>0
  <2> HIDE DEF new
  <2>5. skipped'[w] = new /\ \A v \in Subs : v # w => skipped'[v] = skipped[v]
    BY <1>0, <2>3
  <2>6. Waiting(x) /\ Waiting(x)'
    BY <1>000, <2>1, <2>2, <2>4, <2>5 DEF Waiting
  <2>7. \A i \in Jobs : i # x => Listed(i)
    BY <1>12, <2>2, <2>4, <2>5 DEF SkipGrouped, Listed
  <2> QED BY <1>12, <2>1, <2>4, <2>6, <2>7, LoopTurn DEF SkipGrouped
<1>13. CASE SkipPush(w)
  <2>1. /\ pc[w] \notin Holding /\ pc'[w] \notin Holding /\ \A q \in Proc : q # w => Still(q)
    BY <1>13, <1>0, GotoHands, FreePcs DEF SkipPush, take, Still
  <2>2. skipped[w] # <<>>
    BY <1>13 DEF SkipPush
  <2>3. /\ Head(skipped[w]) \in Jobs /\ Elems(skipped[w]) = Elems(Tail(skipped[w])) \cup {Head(skipped[w])}
    BY <1>0, <2>2, TailFacts
  <2>4. PICK x \in Jobs : x = Head(skipped[w])
    BY <2>3
  <2>5. Elems(waiting') = Elems(waiting) \cup {x}
    <3>1. waiting' = lpush(waiting, x)
      BY <1>13, <2>4 DEF SkipPush
    <3>2. Elems(lpush(waiting, x)) = Elems(waiting) \cup {x}
      BY <1>0, LpushFacts
    <3> QED BY <3>1, <3>2
  <2>6. skipped'[w] = Tail(skipped[w]) /\ \A v \in Subs : v # w => skipped'[v] = skipped[v]
    BY <1>13, <1>0 DEF SkipPush
  <2>7. Waiting(x) /\ Waiting(x)'
    BY <2>3, <2>4, <2>5 DEF Waiting
  <2>8. \A i \in Jobs : i # x => Listed(i)
    BY <1>13, <2>3, <2>4, <2>5, <2>6 DEF SkipPush, Listed
  <2> QED BY <1>13, <2>1, <2>7, <2>8, LoopTurn DEF SkipPush
<1> QED BY <1>1, <1>2, <1>3, <1>4, <1>5, <1>6, <1>7, <1>8, <1>9, <1>10, <1>11, <1>12, <1>13 DEF LoopStep

(* A task goes on with the job it has. *)
LEMMA TaskTurn ==
    ASSUME NEW t \in Tasks, NEW x \in Jobs, x = job[t], Turn(x),
           UNCHANGED <<waiting, delayed, dlq, skipped, job, pushed, finished, stranded>>,
           \A q \in Proc : q # t => pc'[q] = pc[q]
    PROVE  Advance
<1>1. \A j \in Jobs : Listed(j)
  BY DEF Listed
<1>2. \A q \in Proc : \/ Still(q)
                      \/ (pc[q] \in Holding => job[q] = x) /\ (pc'[q] \in Holding => job'[q] = x)
  BY DEF Still
<1> QED BY <1>1, <1>2, Turning

(* What finish does: the task has nothing any more, and a FIFO loop that     *)
(* waited for it had nothing.                                               *)
LEMMA FinishTurn ==
    ASSUME IInv, Fifo, NEW t \in Tasks, pc[t] # "none", finish(t), UNCHANGED job
    PROVE  /\ pc'[t] \in {"none", "release"} /\ pc'[t] \notin Holding
           /\ \A q \in Proc : q # t => Still(q) \/ (pc[q] \notin Holding /\ pc'[q] \notin Holding)
           /\ UNCHANGED skipped
<1>0. /\ owner[t] \in Subs /\ owner[t] # t /\ t \in Proc /\ owner[t] \in Proc
      /\ pc \in [Proc -> LoopPcs \cup TaskPcs \cup AdminPcs]
      /\ Mode[owner[t]] \in {"concurrent", "fifo", "grouped"}
  BY DEF IInv, TypeOK, LocalOK, PcOK, Proc
<1>1. "none" \notin Holding /\ "idle" \notin Holding /\ "release" \notin Holding /\ "busy" \notin Holding
  BY DEF Holding, LoopHolding, TaskHolding, AdminHolding
<1>2. CASE Mode[owner[t]] = "fifo"
  <2>1. pc' = [pc EXCEPT ![t] = "none", ![owner[t]] = "idle"]
    BY <1>2 DEF finish
  <2>2. pc[owner[t]] = "busy"
    BY <1>2 DEF Fifo, Attached
  <2>3. pc'[t] = "none" /\ pc'[owner[t]] = "idle" /\ \A q \in Proc : q # t /\ q # owner[t] => pc'[q] = pc[q]
    BY <1>0, <2>1
  <2> QED BY <1>1, <2>2, <2>3 DEF finish, Still
<1>3. CASE Mode[owner[t]] # "fifo"
  <2>1. pc' = [pc EXCEPT ![t] = "none"] \/ pc' = [pc EXCEPT ![t] = "release"]
    BY <1>0, <1>3 DEF finish
  <2>2. pc'[t] \in {"none", "release"} /\ \A q \in Proc : q # t => pc'[q] = pc[q]
    BY <1>0, <2>1
  <2> QED BY <1>1, <2>2 DEF finish, Still
<1> QED BY <1>2, <1>3

\* A task runs its job, sees it fail, and retries, buries or acknowledges it.
LEMMA TaskAdvances ==
    ASSUME IInv, Budget, Living, NEW t \in Tasks, TaskStep(t) PROVE Advance
<1> USE DEF loopVars, taskVars, clientVars, history, storeVars
<1>0. /\ t \in Proc /\ job[t] \in Jobs /\ waiting \in Seq(Jobs) /\ dlq \in Seq(Jobs)
      /\ skipped \in [Subs -> Seq(Jobs)] /\ TypeOK /\ Fifo
      /\ pc \in [Proc -> LoopPcs \cup TaskPcs \cup AdminPcs] /\ failed \in [Jobs -> Nat]
  BY DEF IInv, TypeOK, StoreTypeOK, LocalOK, PcOK, ClientOK, Proc, Living
<1>1. PICK x \in Jobs : x = job[t]
  BY <1>0
<1>2. TaskHolding \subseteq Holding /\ Failing \subseteq TaskHolding
  BY DEF Holding, Failing, TaskHolding
<1>3. /\ pc[t] \in Failing => Failed(x)
      /\ pc[t] \in TaskHolding \ Failing => Running(x)
  BY <1>1, <1>2 DEF Failed, Running, Holds
<1>4. ASSUME job' = job
      PROVE  /\ pc'[t] \in Failing => Failed(x)'
             /\ pc'[t] \in TaskHolding \ Failing => Running(x)'
  BY <1>1, <1>2, <1>4 DEF Failed, Running, Holds
<1>5. CASE ApplyOverrides(t) \/ HandleOk(t) \/ AckLrem(t)
  <2>1. /\ pc[t] \in TaskHolding \ Failing /\ pc'[t] \in TaskHolding \ Failing
        /\ \A q \in Proc : q # t => pc'[q] = pc[q]
    BY <1>5, <1>0, GotoHands DEF ApplyOverrides, HandleOk, AckLrem, TaskHolding, Failing
  <2>2. UNCHANGED <<waiting, delayed, dlq, skipped, job, pushed, finished, stranded, failed>>
    BY <1>5 DEF ApplyOverrides, HandleOk, AckLrem
  <2>3. Turn(x)
    BY <1>3, <1>4, <2>1, <2>2 DEF Turn
  <2> QED BY <1>1, <2>1, <2>2, <2>3, TaskTurn
<1>6. CASE HandleErr(t)
  <2>1. /\ pc[t] \in TaskHolding \ Failing /\ pc'[t] \in Failing
        /\ \A q \in Proc : q # t => pc'[q] = pc[q]
    BY <1>6, <1>0, GotoHands DEF HandleErr, TaskHolding, Failing
  <2>2. /\ UNCHANGED <<waiting, delayed, dlq, skipped, job, pushed, finished, stranded>>
        /\ failed' = [failed EXCEPT ![x] = @ + 1]
    BY <1>1, <1>6 DEF HandleErr
  <2>3. Turn(x)
    BY <1>3, <1>4, <2>1, <2>2 DEF Turn
  <2> QED BY <1>1, <2>1, <2>2, <2>3, TaskTurn
<1>7. CASE InlineRetry(t)
  <2>1. /\ pc[t] \in Failing /\ pc'[t] \in TaskHolding \ Failing
        /\ \A q \in Proc : q # t => pc'[q] = pc[q]
    BY <1>7, <1>0, GotoHands DEF InlineRetry, TaskHolding, Failing
  <2>2. UNCHANGED <<waiting, delayed, dlq, skipped, job, pushed, finished, stranded, failed>>
    BY <1>7 DEF InlineRetry
  <2>3. Below(failed[x])
    BY <1>1, <1>7 DEF InlineRetry, Budget, Copy, Counted
  <2>4. Turn(x)
    BY <1>3, <1>4, <2>1, <2>2, <2>3 DEF Turn
  <2> QED BY <1>1, <2>1, <2>2, <2>4, TaskTurn
<1>8. CASE Nack(t)
  <2>0. job[t] \in record
    BY <1>1, <1>3, <1>8 DEF Nack, Failing, Living, Recorded, Live
  <2>1. /\ pc[t] \in Failing /\ pc'[t] \in Failing
        /\ \A q \in Proc : q # t => pc'[q] = pc[q]
    BY <1>8, <1>0, <2>0, GotoHands DEF Nack, Failing
  <2>2. UNCHANGED <<waiting, delayed, dlq, skipped, job, pushed, finished, stranded, failed>>
    BY <1>8 DEF Nack
  <2>3. Turn(x)
    BY <1>3, <1>4, <2>1, <2>2 DEF Turn
  <2> QED BY <1>1, <2>1, <2>2, <2>3, TaskTurn
<1>9. CASE RetryLrem(t) \/ RetrySet(t) \/ DlqLrem(t)
  <2>1. /\ pc[t] \in Failing /\ pc'[t] \in Failing
        /\ \A q \in Proc : q # t => pc'[q] = pc[q]
    BY <1>9, <1>0, GotoHands DEF RetryLrem, RetrySet, DlqLrem, Failing
  <2>2. UNCHANGED <<waiting, delayed, dlq, skipped, job, pushed, finished, stranded, failed>>
    BY <1>9 DEF RetryLrem, RetrySet, DlqLrem
  <2>3. Turn(x)
    BY <1>3, <1>4, <2>1, <2>2 DEF Turn
  <2> QED BY <1>1, <2>1, <2>2, <2>3, TaskTurn
<1>10. CASE NackGone(t)
  BY <1>10 DEF NackGone, Living, Steady
<1>11. CASE AckDelete(t)
  <2>1. /\ pc[t] = "ack_delete" /\ finish(t) /\ finished' = finished \cup {x}
        /\ UNCHANGED <<waiting, delayed, dlq, job, pushed, stranded, failed>>
    BY <1>1, <1>11 DEF AckDelete
  <2>2. Turn(x)
    BY <1>3, <2>1 DEF Turn, TaskHolding, Failing
  <2>3. /\ pc'[t] \notin Holding /\ UNCHANGED skipped
        /\ \A q \in Proc : q # t => Still(q) \/ (pc[q] \notin Holding /\ pc'[q] \notin Holding)
    BY <1>0, <2>1, FinishTurn
  <2>4. \A j \in Jobs : Listed(j) /\ (j # x => (j \in finished' <=> j \in finished))
    BY <2>1, <2>3 DEF Listed
  <2> QED BY <1>1, <2>1, <2>2, <2>3, <2>4, Turning
<1>12. CASE RetryZadd(t)
  <2>1. /\ pc[t] = "retry_zadd" /\ finish(t) /\ delayed' = delayed \cup {x}
        /\ UNCHANGED <<waiting, dlq, job, pushed, finished, stranded, failed>>
    BY <1>1, <1>12 DEF RetryZadd
  <2>2. Below(failed[x])
    BY <1>0, <1>1, <2>1 DEF Budget, FreshPcs, Fresh
  <2>3. Waiting(x)'
    BY <2>1 DEF Waiting
  <2>4. Turn(x)
    BY <1>3, <2>1, <2>2, <2>3 DEF Turn, Failing
  <2>5. /\ pc'[t] \notin Holding /\ UNCHANGED skipped
        /\ \A q \in Proc : q # t => Still(q) \/ (pc[q] \notin Holding /\ pc'[q] \notin Holding)
    BY <1>0, <2>1, FinishTurn
  <2>6. \A j \in Jobs : j # x => Listed(j)
    BY <2>1, <2>5 DEF Listed
  <2> QED BY <1>1, <2>1, <2>4, <2>5, <2>6, Turning
<1>13. CASE DlqPush(t)
  <2>1. /\ pc[t] = "dlq_push" /\ pc'[t] = "dlq_delete" /\ \A q \in Proc : q # t => pc'[q] = pc[q]
        /\ dlq' = lpush(dlq, x) /\ UNCHANGED <<waiting, delayed, skipped, job, pushed, finished, stranded, failed>>
    BY <1>0, <1>1, <1>13, GotoHands DEF DlqPush
  <2>2. Elems(dlq') = Elems(dlq) \cup {x}
    <3>1. Elems(lpush(dlq, x)) = Elems(dlq) \cup {x}
      BY <1>0, LpushFacts
    <3> QED BY <2>1, <3>1
  <2>3. Spent(x) /\ Dead(x)'
    BY <1>0, <1>1, <2>1, <2>2 DEF Budget, SpentPcs, Dead
  <2>4. Turn(x)
    BY <1>3, <2>1, <2>3 DEF Turn, Failing
  <2>5. pc'[t] \notin Holding /\ \A q \in Proc : q # t => Still(q)
    BY <2>1 DEF Still, Holding, LoopHolding, TaskHolding, AdminHolding
  <2>6. \A j \in Jobs : j # x => Listed(j)
    BY <2>1, <2>2 DEF Listed
  <2> QED BY <1>1, <2>1, <2>4, <2>5, <2>6, Turning
<1>14. CASE DlqDelete(t)
  <2>1. /\ pc[t] = "dlq_delete" /\ finish(t)
        /\ UNCHANGED <<waiting, delayed, dlq, job, pushed, finished, stranded, failed>>
    BY <1>14 DEF DlqDelete
  <2>2. /\ pc'[t] \notin Holding /\ UNCHANGED skipped
        /\ \A q \in Proc : q # t => Still(q) \/ (pc[q] \notin Holding /\ pc'[q] \notin Holding)
    BY <1>0, <2>1, FinishTurn
  <2>3. pc[t] \notin Holding
    BY <2>1 DEF Holding, LoopHolding, TaskHolding, AdminHolding
  <2> QED BY <2>1, <2>2, <2>3, Resting
<1>15. CASE Release(t)
  <2>1. /\ pc[t] \notin Holding /\ pc'[t] \notin Holding /\ \A q \in Proc : q # t => Still(q)
    BY <1>15, <1>0, GotoHands DEF Release, Still, Holding, LoopHolding, TaskHolding, AdminHolding
  <2> QED BY <1>15, <2>1, Resting DEF Release
<1> QED BY <1>5, <1>6, <1>7, <1>8, <1>9, <1>10, <1>11, <1>12, <1>13, <1>14, <1>15 DEF TaskStep

\* The operator discards a dead job.
LEMMA AdminAdvances ==
    ASSUME NoRedrives, IInv, Living, AdminStep
    PROVE  Advance /\ (DiscardDelete \/ \E j \in Jobs : Discard(j))
<1> USE DEF loopVars, taskVars, clientVars, history, storeVars
<1>0. /\ Admin \in Proc /\ job[Admin] \in Jobs /\ dlq \in Seq(Jobs) /\ NoRepeat(dlq) /\ TypeOK
      /\ job \in [Proc -> Jobs] /\ pc[Admin] \in {"idle", "discard_delete"}
  BY DEF IInv, TypeOK, StoreTypeOK, LocalOK, Proc, Living, Steady, SinglePlace, ListedOnce
<1>1. "discard_delete" \in Holding /\ "idle" \notin Holding
  BY DEF Holding, LoopHolding, TaskHolding, AdminHolding
<1>2. ASSUME NEW x \in Jobs, Discard(x) PROVE Advance
  <2>1. /\ pc[Admin] = "idle" /\ pc'[Admin] = "discard_delete" /\ job'[Admin] = x
        /\ \A q \in Proc : q # Admin => Still(q)
    BY <1>2, <1>0, GotoHands DEF Discard, call, take, Still
  <2>2. x \in Elems(dlq) /\ Elems(dlq) = Elems(dlq') \cup {x}
    BY <1>2, <1>0, LremoveFirstFacts DEF Discard
  <2>3. Dead(x) /\ Dead(x)'
    BY <1>1, <2>1, <2>2 DEF Dead, Holds
  <2>4. /\ Turn(x) /\ \A j \in Jobs : j # x => Listed(j)
    BY <1>2, <2>2, <2>3 DEF Discard, Turn, Listed
  <2> QED BY <1>2, <1>1, <2>1, <2>4, Turning DEF Discard
<1>3. CASE DiscardDelete
  <2>1. PICK x \in Jobs : x = job[Admin]
    BY <1>0
  <2>2. /\ pc[Admin] = "discard_delete" /\ pc'[Admin] = "idle"
        /\ \A q \in Proc : q # Admin => Still(q)
    BY <1>3, <1>0, GotoHands DEF DiscardDelete, Still
  <2>3. /\ finished' = finished \cup {x}
        /\ UNCHANGED <<waiting, delayed, dlq, skipped, job, pushed, stranded, failed>>
    BY <1>3, <2>1 DEF DiscardDelete
  <2>4. Dead(x)
    BY <1>1, <2>1, <2>2 DEF Dead, Holds
  <2>5. Turn(x) /\ \A j \in Jobs : Listed(j) /\ (j # x => (j \in finished' <=> j \in finished))
    BY <2>3, <2>4 DEF Turn, Listed
  <2> QED BY <1>1, <1>3, <2>1, <2>2, <2>3, <2>5, Turning
<1>4. ~Redrive /\ ~RedriveRpop /\ ~RedriveSet /\ ~RedrivePush /\ \A j \in Jobs : ~RedriveMessage(j)
  BY <1>0 DEF Redrive, RedriveRpop, RedriveSet, RedrivePush, RedriveMessage, call, NoRedrives
<1> QED BY <1>2, <1>3, <1>4 DEF AdminStep

\* A push brings a job in, and the end of a subscription abandons what its
\* loop had.
LEMMA ClientAdvances ==
    ASSUME IInv, ClientStep PROVE Advance
<1> USE DEF loopVars, taskVars, clientVars, history, storeVars
<1>0. /\ pushed \in Nat /\ waiting \in Seq(Jobs) /\ skipped \in [Subs -> Seq(Jobs)]
      /\ Subs \subseteq Proc /\ TypeOK
  <2>1. TypeOK /\ Subs \subseteq Proc
    BY DEF IInv, Proc
  <2> QED BY <2>1 DEF TypeOK, StoreTypeOK, LocalOK, ClientOK
<1>1. CASE Push \/ PushDelayed
  <2>1. PICK x \in Jobs : x = pushed + 1
    BY <1>0, <1>1 DEF Push, PushDelayed, Jobs
  <2>2. /\ pushed' = x /\ UNCHANGED <<dlq, skipped, pc, job, finished, stranded, failed>>
        /\ \/ waiting' = lpush(waiting, x) /\ delayed' = delayed
           \/ waiting' = waiting /\ delayed' = delayed \cup {x}
    BY <1>1, <2>1 DEF Push, PushDelayed
  <2>3. \/ Elems(waiting') = Elems(waiting) \cup {x} /\ delayed' = delayed
        \/ waiting' = waiting /\ delayed' = delayed \cup {x}
    BY <1>0, <2>2, LpushFacts
  <2>4. x > pushed /\ Waiting(x)'
    BY <1>0, <2>1, <2>3 DEF Waiting
  <2>5. Turn(x)
    BY <2>2, <2>4 DEF Turn
  <2>6. \A j \in Jobs : j # x => Listed(j) /\ (j > pushed' <=> j > pushed) /\ (j \in finished' <=> j \in finished)
    BY <1>0, <2>1, <2>2, <2>3 DEF Listed, Jobs
  <2>7. \A q \in Proc : Still(q)
    BY <2>2 DEF Still
  <2> QED BY <2>2, <2>5, <2>6, <2>7, Turning
<1>2. ASSUME NEW w \in Subs, Subscribe(w) PROVE Advance
  <2>1. /\ pc[w] \notin Holding /\ pc'[w] \notin Holding /\ \A q \in Proc : q # w => Still(q)
    BY <1>2, <1>0, GotoHands DEF Subscribe, Still, Holding, LoopHolding, TaskHolding, AdminHolding
  <2> QED BY <1>2, <2>1, Resting DEF Subscribe
<1>3. ASSUME NEW w \in Subs, Unsubscribe(w) PROVE Advance
  <2> DEFINE dropped == {q \in Inline(w) \cup {w} : pc[q] \in Holding}
             S == Elems(skipped[w]) \cup {job[p] : p \in dropped}
  <2>1. /\ stranded' = stranded \cup S /\ skipped' = [skipped EXCEPT ![w] = <<>>]
        /\ UNCHANGED <<waiting, delayed, dlq, job, pushed, finished, failed>>
        /\ pc' = [p \in Proc |-> IF p = w THEN "off" ELSE IF p \in Inline(w) THEN "none" ELSE pc[p]]
    BY <1>3 DEF Unsubscribe
  <2>2. S \subseteq Jobs
    BY <1>0 DEF Elems, TypeOK, LocalOK, Inline, Proc
  <2>3. Elems(<<>>) = {}
    BY DEF Elems
  <2>4. skipped'[w] = <<>> /\ \A v \in Subs : v # w => skipped'[v] = skipped[v]
    BY <1>0, <2>1
  <2>5. "off" \notin Holding /\ "none" \notin Holding
    BY DEF Holding, LoopHolding, TaskHolding, AdminHolding
  <2>6. \A q \in Proc : \/ Still(q)
                        \/ q \in Inline(w) \cup {w} /\ pc'[q] \notin Holding
    BY <2>1, <2>5 DEF Still
  <2>7. ASSUME NEW j \in S PROVE Live(j)
    <3>1. CASE j \in Elems(skipped[w])
      BY <3>1 DEF Live, Waiting
    <3>2. ASSUME NEW p \in dropped, j = job[p] PROVE Live(j)
      <4>1. CASE p = w
        BY <3>2, <4>1 DEF Live, Waiting, Holds
      <4>2. CASE p \in Tasks
        BY <3>2, <4>2 DEF Live, Running, Failed, Holds
      <4> QED BY <4>1, <4>2 DEF Inline
    <3> QED BY <3>1, <3>2
  <2>8. ASSUME NEW j \in Jobs, j \notin S PROVE Same(j)
    <3>1. Listed(j)
      BY <2>1, <2>3, <2>4, <2>8 DEF Listed
    <3>2. \A q \in Inline(w) \cup {w} : pc[q] \in Holding => job[q] # j
      BY <2>8
    <3>3. \A q \in Proc : Still(q) \/ (~Holds(q, j) /\ ~Holds(q, j)')
      BY <2>6, <3>2 DEF Holds
    <3>4. j \in stranded' <=> j \in stranded
      BY <2>1, <2>8
    <3> QED BY <2>1, <3>1, <3>3, <3>4, SameOff
  <2> HIDE DEF S
  <2>9. Leaves(S)
    BY <2>1, <2>7, <2>8 DEF Leaves
  <2> QED BY <2>2, <2>9 DEF Advance
<1> QED BY <1>1, <1>2, <1>3 DEF ClientStep

(* No job is lost, and none comes back to life. *)
LEMMA AdvanceKeeps ==
    ASSUME IInv, IInv', Past, Past', Lives, Advance
    PROVE  Lives' /\ \A j \in Jobs : Live(j)' => Live(j) \/ j > pushed
<1> DEFINE Onwards == \A j \in Jobs : Live(j)' => Live(j) \/ j > pushed
<1>0. /\ finished \subseteq Jobs /\ stranded \subseteq Jobs /\ finished' \subseteq Jobs /\ stranded' \subseteq Jobs
      /\ finished \cap stranded = {} /\ \A j \in Jobs : Known(j)
  BY DEF IInv, TypeOK, ClientOK, Lives
<1>1. \A j \in Jobs : /\ j > pushed => j \notin finished /\ j \notin stranded
                      /\ Live(j) \/ Dead(j) => j \notin finished \cup stranded
  BY <1>0, Exclusive
<1>2. ASSUME NEW j \in Jobs, Same(j)
      PROVE  Known(j)' /\ (Live(j)' => Live(j)) /\ ~(j \in finished' /\ j \in stranded')
  BY <1>0, <1>2 DEF Same, Known, Live
<1>3. ASSUME NEW j \in Jobs, (finished \cap stranded = {})', Dead(j)' \/ j \in finished' PROVE ~Live(j)'
  <2>1. Apart'
    BY <1>3 DEF Apart
  <2>2. NoneRevived'
    BY <2>1, NotLiveNext
  <2> QED BY <1>3, <2>2 DEF NoneRevived
<1>4. CASE Rest
  BY <1>0, <1>2, <1>4 DEF Rest, Lives
<1>5. CASE Turns
  <2>1. PICK x \in Jobs : Turn(x) /\ \A j \in Jobs : j # x => Same(j)
    BY <1>5 DEF Turns
  <2>2. /\ Waiting(x)' \/ Running(x)' \/ Failed(x)' \/ Dead(x)' \/ x \in finished'
        /\ x > pushed \/ Live(x) \/ (Dead(x) /\ (Dead(x)' \/ x \in finished'))
    BY <2>1 DEF Turn, Live
  <2>3. Known(x)'
    BY <2>2 DEF Known, Live
  <2>4. x \notin stranded'
    BY <1>1, <1>5, <2>2 DEF Turns
  <2>5. (finished \cap stranded = {})'
    BY <1>0, <1>2, <2>1, <2>4
  <2>6. Live(x)' => Live(x) \/ x > pushed
    BY <1>3, <2>2, <2>5
  <2> QED BY <1>2, <2>1, <2>3, <2>5, <2>6 DEF Lives
<1>6. ASSUME NEW S \in SUBSET Jobs, Leaves(S) PROVE Lives' /\ Onwards
  <2>1. \A j \in S : Live(j) /\ Known(j)' /\ j \notin finished'
    BY <1>1, <1>6 DEF Leaves, Known
  <2>2. \A j \in Jobs : j \notin S => Same(j)
    BY <1>6 DEF Leaves
  <2> QED BY <1>0, <1>2, <2>1, <2>2 DEF Lives
<1> QED BY <1>4, <1>5, <1>6 DEF Advance

----------------------------------------------------------------------------
(* The other parts of Living.  Which processes a step moves: *)
Moved(p) == \A q \in Proc : q # p => Still(q)
Loops(w) == Moved(w) /\ pc[w] # "busy" /\ UNCHANGED <<owner, record>>
Starts(w, t) ==
    /\ \A q \in Proc : q # w /\ q # t => Still(q)
    /\ pc[w] = "pop_load" /\ pc[t] = "none" /\ pc'[t] \in {"start", "handle"} /\ job'[t] = job[w]
    /\ Mode[w] = "fifo" => pc'[w] = "busy"
    /\ owner' = [owner EXCEPT ![t] = w] /\ UNCHANGED record
Works(t) ==
    /\ Moved(t) /\ job'[t] = job[t] /\ pc[t] # "none" /\ record \subseteq record'
    /\ pc'[t] = "none" => ~Attached(t)
    /\ pc'[t] # "gone" /\ (pc'[t] = "dlq_delete" => Dead(job[t])')
    /\ UNCHANGED owner
Ends(t) == finish(t) /\ pc[t] # "none" /\ UNCHANGED <<job, owner>>

\* A loop moves itself, or itself and the task it starts.
LEMMA LoopMoves ==
    ASSUME IInv, NEW w \in Subs, LoopStep(w) PROVE Loops(w) \/ \E t \in Tasks : Starts(w, t)
<1> USE DEF loopVars, taskVars, clientVars, history, storeVars
<1>0. w \in Proc /\ TypeOK /\ job \in [Proc -> Jobs] /\ pc \in [Proc -> LoopPcs \cup TaskPcs \cup AdminPcs]
  BY DEF IInv, TypeOK, LocalOK, PcOK, Proc
<1>1. ASSUME NEW due \in SUBSET delayed, Poll(w, due) PROVE Loops(w)
  BY <1>1, <1>0, GotoHands DEF Poll, Loops, Moved, Still
<1>2. ASSUME NEW j \in Jobs, MoveZrem(w, j) PROVE Loops(w)
  <2>1. CASE j \in delayed
    BY <1>2, <1>0, <2>1, GotoHands DEF MoveZrem, take, Loops, Moved, Still
  <2>2. CASE j \notin delayed
    BY <1>2, <1>0, <2>2 DEF MoveZrem, Loops, Moved, Still
  <2> QED BY <2>1, <2>2
<1>3. CASE MovePush(w) \/ MoveDone(w) \/ PopActive(w) \/ NoPermit(w) \/ Requeue(w) \/ RequeueLrem(w) \/ SkipGrouped(w)
  BY <1>3, <1>0, GotoHands
  DEF MovePush, MoveDone, PopActive, NoPermit, Requeue, RequeueLrem, SkipGrouped, Loops, Moved, Still
<1>4. CASE PopNone(w) \/ PopMissing(w) \/ SkipLrem(w)
  BY <1>4, <1>0, GotoHands DEF PopNone, PopMissing, SkipLrem, endPass, Loops, Moved, Still
<1>5. CASE PopId(w) \/ SkipPush(w)
  BY <1>5, <1>0, GotoHands DEF PopId, SkipPush, take, Loops, Moved, Still
<1>6. ASSUME NEW t \in Tasks, NEW first \in {"start", "handle"}, NEW next, pc[w] = "pop_load",
             start(w, t, first, next), Mode[w] = "fifo" => next = "busy", UNCHANGED record
      PROVE  Starts(w, t)
  <2>1. /\ pc' = [pc EXCEPT ![t] = first, ![w] = next] /\ job' = [job EXCEPT ![t] = job[w]]
        /\ owner' = [owner EXCEPT ![t] = w] /\ pc[t] = "none"
    BY <1>6 DEF start, take
  <2>2. t \in Proc /\ t # w
    BY DEF Proc
  <2> QED BY <1>0, <1>6, <2>1, <2>2 DEF Starts, Still
<1>7. ASSUME NEW t \in Tasks, SpawnConcurrent(w, t) PROVE Starts(w, t)
  BY <1>6, <1>7 DEF SpawnConcurrent
<1>8. ASSUME NEW t \in Tasks, StartFifo(w, t) PROVE Starts(w, t)
  BY <1>6, <1>8 DEF StartFifo
<1>9. ASSUME NEW t \in Tasks, SpawnGrouped(w, t) PROVE Starts(w, t)
  BY <1>6, <1>9 DEF SpawnGrouped
<1> QED BY <1>1, <1>2, <1>3, <1>4, <1>5, <1>7, <1>8, <1>9 DEF LoopStep

\* A task moves itself, until it ends.
LEMMA TaskMoves ==
    ASSUME IInv, Slots, Living, NEW t \in Tasks, TaskStep(t)
    PROVE  \/ Works(t)
           \/ Ends(t) /\ record \subseteq record'
           \/ Ends(t) /\ record' = record \ {job[t]} /\ (AckDelete(t) \/ pc[t] = "dlq_delete")
<1> USE DEF loopVars, taskVars, clientVars, history, storeVars, setJob, deleteJob
<1>0. t \in Proc /\ TypeOK /\ job[t] \in Jobs /\ dlq \in Seq(Jobs)
  BY DEF IInv, TypeOK, LocalOK, StoreTypeOK, Proc
<1>1. CASE ApplyOverrides(t) \/ HandleOk(t) \/ HandleErr(t) \/ AckLrem(t) \/ RetryLrem(t) \/ DlqLrem(t)
  BY <1>1, <1>0, GotoHands
  DEF ApplyOverrides, HandleOk, HandleErr, AckLrem, RetryLrem, DlqLrem, Works, Moved, Still
<1>2. CASE InlineRetry(t) \/ RetrySet(t)
  BY <1>2, <1>0, GotoHands DEF InlineRetry, RetrySet, Works, Moved, Still
<1>3. CASE Nack(t)
  <2>1. pc[t] = "nack" /\ pc[t] \in Holding /\ pc[t] \in Failing
    BY <1>3 DEF Nack, Holding, TaskHolding, Failing
  <2>2. job[t] \in record
    BY <1>0, <2>1 DEF Living, Recorded, Live, Failed, Holds
  <2> QED BY <1>3, <1>0, <2>2, GotoHands DEF Nack, Works, Moved, Still
<1>4. CASE NackGone(t)
  BY <1>4 DEF NackGone, Living, Steady
<1>5. CASE RetryZadd(t)
  BY <1>5 DEF RetryZadd, Ends
<1>6. CASE DlqPush(t)
  <2>1. Elems(lpush(dlq, job[t])) = Elems(dlq) \cup {job[t]}
    BY <1>0, LpushFacts
  <2>2. dlq' = lpush(dlq, job[t]) /\ job' = job
    BY <1>6 DEF DlqPush
  <2>3. Dead(job[t])'
    BY <2>1, <2>2 DEF Dead
  <2> QED BY <1>6, <1>0, <2>3, GotoHands DEF DlqPush, Works, Moved, Still
<1>7. CASE DlqDelete(t)
  BY <1>7 DEF DlqDelete, Ends
<1>8. CASE AckDelete(t)
  BY <1>8 DEF AckDelete, Ends
<1>9. CASE Release(t)
  <2>1. ~Attached(t)
    BY <1>9 DEF Release, Slots, Attached
  <2> QED BY <1>9, <1>0, <2>1, GotoHands DEF Release, Works, Moved, Still
<1> QED BY <1>1, <1>2, <1>3, <1>4, <1>5, <1>6, <1>7, <1>8, <1>9 DEF TaskStep

\* A FIFO loop waits for its one task.
LEMMA FifoStep ==
    ASSUME NoRedrives, IInv, Slots, Living, [Next]_vars PROVE Fifo'
<1> USE DEF loopVars, taskVars, clientVars, history, storeVars
<1>0. /\ Subs \subseteq Proc /\ Tasks \subseteq Proc /\ Admin \in Proc /\ TypeOK /\ Fifo
      /\ owner \in [Tasks -> Subs] /\ pc \in [Proc -> LoopPcs \cup TaskPcs \cup AdminPcs]
  BY DEF IInv, TypeOK, LocalOK, PcOK, Proc, Living
<1>1. ASSUME NEW w \in Subs, Loops(w) PROVE Fifo'
  BY <1>0, <1>1 DEF Loops, Moved, Still, Fifo, Attached
<1>2. ASSUME NEW w \in Subs, NEW t \in Tasks, Starts(w, t) PROVE Fifo'
  <2>1. \A u \in Tasks : u # t => (Attached(u)' <=> Attached(u)) /\ owner'[u] = owner[u]
    BY <1>0, <1>2 DEF Starts, Still, Attached
  <2>2. \A u \in Tasks : Attached(u) => owner[u] # w
    BY <1>0, <1>2 DEF Starts, Fifo
  <2>3. owner'[t] = w
    BY <1>0, <1>2 DEF Starts
  <2>4. ASSUME NEW u \in Tasks, Attached(u)' PROVE pc'[owner'[u]] = "busy"
    <3>1. CASE u = t
      BY <1>2, <2>3, <2>4, <3>1 DEF Starts, Attached
    <3>2. CASE u # t
      <4>1. Attached(u) /\ owner[u] # w /\ owner'[u] = owner[u] /\ owner[u] \in Subs /\ owner[u] # t
        BY <1>0, <2>1, <2>2, <2>4, <3>2
      <4>2. pc'[owner[u]] = pc[owner[u]]
        BY <1>0, <1>2, <4>1 DEF Starts, Still
      <4> QED BY <1>0, <4>1, <4>2 DEF Fifo
    <3> QED BY <3>1, <3>2
  <2>5. ASSUME NEW u \in Tasks, NEW v \in Tasks, Attached(u)', Attached(v)', owner'[u] = owner'[v] PROVE u = v
    BY <1>0, <2>1, <2>2, <2>3, <2>5 DEF Fifo
  <2> QED BY <2>4, <2>5 DEF Fifo
<1>3. ASSUME NEW t \in Tasks, Works(t) PROVE Fifo'
  <2>1. \A u \in Tasks : Attached(u)' => Attached(u)
    BY <1>0, <1>3 DEF Works, Moved, Still, Attached
  <2>2. \A w \in Subs : pc'[w] = pc[w]
    BY <1>0, <1>3 DEF Works, Moved, Still
  <2> QED BY <1>0, <1>3, <2>1, <2>2 DEF Works, Fifo
<1>4. ASSUME NEW t \in Tasks, Ends(t) PROVE Fifo'
  <2>0. owner[t] \in Subs /\ owner[t] # t /\ Mode[owner[t]] \in {"concurrent", "fifo", "grouped"} /\ owner' = owner
    BY <1>0, <1>4 DEF Ends
  <2>1. CASE Mode[owner[t]] = "fifo"
    <3>1. pc' = [pc EXCEPT ![t] = "none", ![owner[t]] = "idle"]
      BY <1>4, <2>1 DEF Ends, finish
    <3>2. pc'[t] = "none" /\ \A q \in Proc : q # t /\ q # owner[t] => pc'[q] = pc[q]
      BY <1>0, <2>0, <3>1
    <3>3. Attached(t)
      BY <1>4, <2>1 DEF Ends, Attached
    <3>4. \A u \in Tasks : Attached(u)' => Attached(u) /\ u # t
      BY <1>0, <2>0, <3>2 DEF Attached
    <3>5. \A u \in Tasks : Attached(u)' => owner[u] # owner[t]
      BY <1>0, <3>3, <3>4 DEF Fifo
    <3>6. \A u \in Tasks : Attached(u)' => pc'[owner[u]] = "busy"
      BY <1>0, <3>2, <3>4, <3>5 DEF Fifo
    <3> QED BY <1>0, <2>0, <3>4, <3>6 DEF Fifo
  <2>2. CASE Mode[owner[t]] # "fifo"
    <3>1. pc' = [pc EXCEPT ![t] = "none"] \/ pc' = [pc EXCEPT ![t] = "release"]
      BY <1>4, <2>0, <2>2 DEF Ends, finish
    <3>2. \A q \in Proc : q # t => pc'[q] = pc[q]
      BY <1>0, <3>1
    <3>3. \A u \in Tasks : Attached(u)' => Attached(u)
      BY <1>0, <2>0, <2>2, <3>2 DEF Attached
    <3>4. \A w \in Subs : pc'[w] = pc[w]
      BY <1>0, <3>2
    <3> QED BY <1>0, <2>0, <3>3, <3>4 DEF Fifo
  <2> QED BY <2>1, <2>2
<1>5. ASSUME UNCHANGED owner, \A q \in Subs \cup Tasks : pc'[q] = pc[q] PROVE Fifo'
  BY <1>0, <1>5 DEF Fifo, Attached
<1>6. CASE AdminStep
  <2>1. \A q \in Proc : q # Admin => pc'[q] = pc[q]
    <3>1. CASE DiscardDelete
      BY <1>0, <3>1, GotoHands DEF DiscardDelete
    <3>2. ASSUME NEW j \in Jobs, Discard(j) PROVE \A q \in Proc : q # Admin => pc'[q] = pc[q]
      BY <1>0, <3>2, GotoHands DEF Discard
    <3> QED BY <1>6, <3>1, <3>2, AdminAdvances
  <2>2. UNCHANGED owner
    BY <1>6 DEF AdminStep, Redrive, RedriveRpop, RedriveSet, RedrivePush, DiscardDelete, RedriveMessage, Discard
  <2> QED BY <1>0, <1>5, <2>1, <2>2
<1>7. CASE Push \/ PushDelayed \/ UNCHANGED vars
  BY <1>5, <1>7 DEF Push, PushDelayed, vars
<1>8. ASSUME NEW w \in Subs, Subscribe(w) PROVE Fifo'
  <2>1. pc[w] = "new" /\ owner' = owner /\ \A q \in Proc : q # w => pc'[q] = pc[q]
    BY <1>0, <1>8, GotoHands DEF Subscribe
  <2> QED BY <1>0, <2>1 DEF Fifo, Attached
<1>9. ASSUME NEW w \in Subs, Unsubscribe(w) PROVE Fifo'
  <2>1. /\ pc' = [p \in Proc |-> IF p = w THEN "off" ELSE IF p \in Inline(w) THEN "none" ELSE pc[p]]
        /\ owner' = owner
    BY <1>9 DEF Unsubscribe
  <2>2. \A u \in Tasks : u # w /\ pc'[u] = IF u \in Inline(w) THEN "none" ELSE pc[u]
    BY <1>0, <2>1
  <2>3. \A u \in Tasks : Attached(u)' => Attached(u) /\ u \notin Inline(w)
    BY <2>1, <2>2 DEF Attached
  <2>4. \A u \in Tasks : Attached(u)' => owner[u] # w
    BY <2>3 DEF Attached, Inline
  <2>5. \A v \in Subs : v # w => pc'[v] = pc[v]
    BY <1>0, <2>1 DEF Inline
  <2>6. \A u \in Tasks : Attached(u)' => pc'[owner[u]] = "busy"
    BY <1>0, <2>3, <2>4, <2>5 DEF Fifo
  <2> QED BY <1>0, <2>1, <2>3, <2>6 DEF Fifo
<1>10. ASSUME NEW w \in Subs, LoopStep(w) PROVE Fifo'
  BY <1>1, <1>2, <1>10, LoopMoves
<1>11. ASSUME NEW t \in Tasks, TaskStep(t) PROVE Fifo'
  BY <1>3, <1>4, <1>11, TaskMoves
<1> QED BY <1>6, <1>7, <1>8, <1>9, <1>10, <1>11 DEF Next, ClientStep

\* Every step is one of the moves above, and takes every job along its life.
LEMMA Advances ==
    ASSUME NoRedrives, IInv, Budget, Living, [Next]_vars PROVE Advance
<1>1. CASE UNCHANGED vars
  <2>1. /\ UNCHANGED <<waiting, delayed, dlq, skipped, pushed, finished, stranded, failed>>
        /\ \A q \in Proc : Still(q)
    BY <1>1 DEF vars, storeVars, loopVars, clientVars, history, Still
  <2> QED BY <2>1, Resting
<1> QED BY <1>1, LoopAdvances, TaskAdvances, AdminAdvances, ClientAdvances DEF Next

\* Nack finds its record and the operator discards one message at a time.
LEMMA SteadyStep ==
    ASSUME NoRedrives, IInv, Slots, Living, [Next]_vars
    PROVE  /\ Steady'
           /\ \A t \in Tasks : pc'[t] = "dlq_delete" =>
                job'[t] = job[t] /\ (pc[t] = "dlq_delete" \/ Dead(job[t])')
<1> USE DEF loopVars, taskVars, clientVars, history, storeVars
<1> DEFINE Kind(t) == pc'[t] # "gone" /\ (pc'[t] = "dlq_delete" =>
                        job'[t] = job[t] /\ (pc[t] = "dlq_delete" \/ Dead(job[t])'))
<1>0. /\ Subs \subseteq Proc /\ Tasks \subseteq Proc /\ Admin \in Proc /\ TypeOK /\ Admin \notin Subs \cup Tasks
      /\ owner \in [Tasks -> Subs] /\ Steady /\ Fifo /\ Subs \cap Tasks = {}
  BY DEF IInv, TypeOK, LocalOK, Proc, Living
<1>1. \A t \in Tasks : Still(t) => Kind(t)
  BY <1>0 DEF Still, Steady
<1> HIDE DEF Kind
<1> SUFFICES pc'[Admin] \in {"idle", "discard_delete"} /\ \A t \in Tasks : Kind(t)
  BY DEF Steady, Kind
<1>2. ASSUME Still(Admin) PROVE pc'[Admin] \in {"idle", "discard_delete"}
  BY <1>0, <1>2 DEF Steady, Still
<1>3. ASSUME NEW w \in Subs, Loops(w) PROVE pc'[Admin] \in {"idle", "discard_delete"} /\ \A t \in Tasks : Kind(t)
  BY <1>0, <1>1, <1>2, <1>3 DEF Loops, Moved
<1>4. ASSUME NEW w \in Subs, NEW t \in Tasks, Starts(w, t)
      PROVE  pc'[Admin] \in {"idle", "discard_delete"} /\ \A u \in Tasks : Kind(u)
  <2>1. Still(Admin) /\ \A u \in Tasks : u # t => Still(u)
    BY <1>0, <1>4 DEF Starts
  <2>2. Kind(t)
    BY <1>4 DEF Starts, Kind
  <2> QED BY <1>1, <1>2, <2>1, <2>2
<1>5. ASSUME NEW t \in Tasks, Works(t)
      PROVE  pc'[Admin] \in {"idle", "discard_delete"} /\ \A u \in Tasks : Kind(u)
  <2>1. Still(Admin) /\ \A u \in Tasks : u # t => Still(u)
    BY <1>0, <1>5 DEF Works, Moved
  <2>2. Kind(t)
    BY <1>5 DEF Works, Kind
  <2> QED BY <1>1, <1>2, <2>1, <2>2
<1>6. ASSUME NEW t \in Tasks, Ends(t)
      PROVE  pc'[Admin] \in {"idle", "discard_delete"} /\ \A u \in Tasks : Kind(u)
  <2>1. pc \in [Proc -> LoopPcs \cup TaskPcs \cup AdminPcs] /\ Mode[owner[t]] \in {"concurrent", "fifo", "grouped"}
        /\ owner[t] \in Subs
    BY <1>0 DEF TypeOK, PcOK
  <2>2. \/ pc' = [pc EXCEPT ![t] = "none"] \/ pc' = [pc EXCEPT ![t] = "release"]
        \/ pc' = [pc EXCEPT ![t] = "none", ![owner[t]] = "idle"]
    BY <1>6, <2>1 DEF Ends, finish
  <2>3. pc'[t] \in {"none", "release"} /\ \A q \in Proc : q # t /\ q # owner[t] => pc'[q] = pc[q]
    BY <1>0, <2>1, <2>2
  <2>4. Still(Admin) /\ \A u \in Tasks : u # t => Still(u)
    BY <1>0, <1>6, <2>1, <2>3 DEF Ends, Still
  <2>5. Kind(t)
    BY <2>3 DEF Kind
  <2> QED BY <1>1, <1>2, <2>4, <2>5
<1>7. CASE AdminStep
  <2>1. CASE DiscardDelete
    <3>1. pc'[Admin] = "idle" /\ \A q \in Proc : q # Admin => Still(q)
      BY <1>0, <2>1, GotoHands DEF DiscardDelete, Still
    <3> QED BY <1>0, <1>1, <3>1
  <2>2. ASSUME NEW j \in Jobs, Discard(j) PROVE pc'[Admin] \in {"idle", "discard_delete"} /\ \A t \in Tasks : Kind(t)
    <3>1. pc'[Admin] = "discard_delete" /\ \A q \in Proc : q # Admin => Still(q)
      BY <1>0, <2>2, GotoHands DEF Discard, take, Still, TypeOK, LocalOK
    <3> QED BY <1>0, <1>1, <3>1
  <2> QED BY <1>7, <2>1, <2>2, AdminAdvances
<1>8. CASE Push \/ PushDelayed \/ UNCHANGED vars
  <2>1. \A q \in Proc : Still(q)
    BY <1>8 DEF Push, PushDelayed, vars, Still
  <2> QED BY <1>0, <1>1, <1>2, <2>1
<1>9. ASSUME NEW w \in Subs, Subscribe(w) PROVE pc'[Admin] \in {"idle", "discard_delete"} /\ \A t \in Tasks : Kind(t)
  <2>1. \A q \in Proc : q # w => Still(q)
    BY <1>0, <1>9, GotoHands DEF Subscribe, Still
  <2> QED BY <1>0, <1>1, <1>2, <2>1
<1>10. ASSUME NEW w \in Subs, Unsubscribe(w) PROVE pc'[Admin] \in {"idle", "discard_delete"} /\ \A t \in Tasks : Kind(t)
  <2>1. /\ pc' = [p \in Proc |-> IF p = w THEN "off" ELSE IF p \in Inline(w) THEN "none" ELSE pc[p]]
        /\ job' = job
    BY <1>10 DEF Unsubscribe
  <2>2. Still(Admin) /\ \A t \in Tasks : Still(t) \/ pc'[t] = "none"
    BY <1>0, <2>1 DEF Still, Inline
  <2>3. \A t \in Tasks : pc'[t] = "none" => Kind(t)
    BY DEF Kind
  <2> QED BY <1>1, <1>2, <2>2, <2>3
<1>11. ASSUME NEW w \in Subs, LoopStep(w) PROVE pc'[Admin] \in {"idle", "discard_delete"} /\ \A t \in Tasks : Kind(t)
  BY <1>3, <1>4, <1>11, LoopMoves
<1>12. ASSUME NEW t \in Tasks, TaskStep(t) PROVE pc'[Admin] \in {"idle", "discard_delete"} /\ \A u \in Tasks : Kind(u)
  BY <1>5, <1>6, <1>12, TaskMoves
<1> QED BY <1>7, <1>8, <1>9, <1>10, <1>11, <1>12 DEF Next, ClientStep

\* A record goes when its job is settled, or dead already.
LEMMA RecordStep ==
    ASSUME NoRedrives, IInv, Slots, Living, [Next]_vars
    PROVE  \/ record \subseteq record' /\ (pushed' = pushed \/ (pushed' = pushed + 1 /\ pushed' \in record'))
           \/ /\ pushed' = pushed
              /\ \E x \in Jobs : record' = record \ {x} /\ (x \in finished' \/ ~Live(x))
<1> USE DEF loopVars, taskVars, clientVars, history, storeVars
<1>0. job \in [Proc -> Jobs] /\ Tasks \subseteq Proc /\ Admin \in Proc
  BY DEF IInv, TypeOK, LocalOK, Proc
<1>1. ASSUME NEW w \in Subs, LoopStep(w) PROVE record' = record /\ pushed' = pushed
  BY <1>1, LoopMoves, LoopHistory DEF Loops, Starts
<1>2. ASSUME NEW t \in Tasks, TaskStep(t)
      PROVE  /\ pushed' = pushed
             /\ \/ record \subseteq record'
                \/ \E x \in Jobs : record' = record \ {x} /\ (x \in finished' \/ ~Live(x))
  <2>1. pushed' = pushed
    BY <1>2, TaskHistory
  <2>2. AckDelete(t) => job[t] \in finished'
    BY DEF AckDelete
  <2>3. pc[t] = "dlq_delete" => ~Live(job[t])
    BY DEF Living, Deleting
  <2>4. job[t] \in Jobs
    BY <1>0
  <2> QED BY <1>2, <2>1, <2>2, <2>3, <2>4, TaskMoves DEF Works
<1>3. CASE AdminStep
  <2>1. pushed' = pushed
    BY <1>3, AdminHistory
  <2>2. CASE DiscardDelete
    BY <1>0, <2>1, <2>2 DEF DiscardDelete, deleteJob
  <2>3. ASSUME NEW j \in Jobs, Discard(j) PROVE record' = record
    BY <2>3 DEF Discard
  <2> QED BY <1>3, <2>1, <2>2, <2>3, AdminAdvances
<1>4. CASE Push \/ PushDelayed
  BY <1>4 DEF Push, PushDelayed, setJob
<1>5. ASSUME NEW w \in Subs, Subscribe(w) \/ Unsubscribe(w) PROVE record' = record /\ pushed' = pushed
  BY <1>5 DEF Subscribe, Unsubscribe
<1>6. CASE UNCHANGED vars
  BY <1>6 DEF vars
<1> QED BY <1>1, <1>2, <1>3, <1>4, <1>5, <1>6 DEF Next, ClientStep

\* Every step keeps the invariant.
LEMMA LivingStep ==
    ASSUME NoRedrives, IInv, Past, Slots, Budget, Living, [Next]_vars PROVE Living'
<1>1. IInv' /\ Past' /\ Advance
  BY InductiveStep, PastStep, Advances
<1>2. Lives' /\ \A j \in Jobs : Live(j)' => Live(j) \/ j > pushed
  BY <1>1, AdvanceKeeps DEF Living
<1>3. \A j \in Jobs : Dead(j)' \/ j \in finished' => ~Live(j)'
  BY <1>1, <1>2, NotLiveNext DEF Apart, NoneRevived, Lives
<1>4. \A j \in Jobs : Live(j)' => j <= pushed'
  <2>1. \A j \in Jobs : Live(j)' => Located(j)'
    BY DEF Live, Waiting, Running, Failed, Located, Proc
  <2>2. pushed' \in Nat /\ \A j \in Jobs : j > pushed' => ~Located(j)'
    BY <1>1 DEF IInv, Unborn, TypeOK, ClientOK
  <2> QED BY <2>1, <2>2 DEF Jobs
<1>5. Recorded'
  <2> SUFFICES ASSUME NEW j \in Jobs, Live(j)' PROVE j \in record'
    BY DEF Recorded
  <2>0. pushed \in Nat /\ j \in Nat /\ j <= pushed' /\ (Live(j) \/ j > pushed)
    BY <1>2, <1>4 DEF IInv, TypeOK, ClientOK, Jobs
  <2>1. Live(j) => j \in record
    BY DEF Living, Recorded
  <2>2. CASE record \subseteq record' /\ (pushed' = pushed \/ (pushed' = pushed + 1 /\ pushed' \in record'))
    BY <2>0, <2>1, <2>2
  <2>3. ASSUME pushed' = pushed, NEW x \in Jobs, record' = record \ {x}, x \in finished' \/ ~Live(x) PROVE j \in record'
    <3>1. Live(j)
      BY <2>0, <2>3
    <3>2. j # x
      BY <1>3, <2>3, <3>1
    <3> QED BY <2>1, <2>3, <3>1, <3>2
  <2> QED BY <2>2, <2>3, RecordStep
<1>6. Deleting'
  <2> SUFFICES ASSUME NEW t \in Tasks, pc'[t] = "dlq_delete" PROVE job'[t] <= pushed' /\ ~Live(job[t])'
    BY DEF Deleting
  <2>1. PICK x \in Jobs : x = job[t]
    BY DEF IInv, TypeOK, LocalOK, Proc
  <2>2. job'[t] = x /\ (pc[t] = "dlq_delete" \/ Dead(x)')
    BY <2>1, SteadyStep
  <2>3. CASE pc[t] = "dlq_delete"
    <3>1. x <= pushed /\ ~Live(x) /\ pushed \in Nat /\ x \in Nat
      BY <2>1, <2>3 DEF Living, Deleting, IInv, TypeOK, ClientOK, Jobs
    <3>2. ~Live(x)'
      BY <1>2, <3>1
    <3>3. pushed' = pushed \/ pushed' = pushed + 1
      BY RecordStep
    <3> QED BY <2>2, <3>1, <3>2, <3>3
  <2>4. CASE Dead(x)'
    <3>1. ~Live(x)'
      BY <1>3, <2>4
    <3>2. Located(x)'
      BY <2>4 DEF Dead, Located, Proc
    <3>3. x <= pushed'
      BY <1>1, <3>2 DEF IInv, Unborn, TypeOK, ClientOK, Jobs
    <3> QED BY <2>2, <3>1, <3>3
  <2> QED BY <2>2, <2>3, <2>4
<1>7. Steady' /\ Fifo'
  BY SteadyStep, FifoStep
<1> QED BY <1>2, <1>5, <1>6, <1>7 DEF Living

\* At first no job is pushed.
LEMMA InitLiving == Init => Living
<1> SUFFICES ASSUME Init PROVE Living
  OBVIOUS
<1>1. /\ pushed = 0 /\ finished = {} /\ stranded = {} /\ pc[Admin] = "idle"
      /\ \A t \in Tasks : pc[t] = "none"
  BY DEF Init, Proc
<1>2. \A j \in Jobs : Known(j)
  BY <1>1 DEF Known, Jobs
<1>3. \A j \in Jobs : ~Live(j)
  <2>1. IInv
    BY InitInv
  <2>2. \A j \in Jobs : ~Located(j)
    BY <1>1, <2>1 DEF IInv, Unborn, Jobs
  <2> QED BY <2>2 DEF Live, Waiting, Running, Failed, Located, Proc
<1> QED BY <1>1, <1>2, <1>3 DEF Living, Lives, Recorded, Deleting, Steady, Fifo, Attached

(* All that the refinement rests on. *)
Grown == IInv /\ Past /\ Slots /\ Budget /\ Living

\* It is an inductive invariant.
LEMMA GrownAlways == ASSUME NoRedrives PROVE Spec => []Grown
<1>1. Init => Grown
  BY InitInv, InitLiving, SlotsInductive, BudgetInductive DEF Grown, Init, Past
<1>2. Grown /\ [Next]_vars => Grown'
  <2> SUFFICES ASSUME Grown, [Next]_vars PROVE Grown'
    OBVIOUS
  <2>1. IInv /\ Past /\ Slots /\ Budget /\ Living
    BY DEF Grown
  <2>2. IInv' /\ Past'
    BY <2>1, InductiveStep, PastStep
  <2>3. Slots' /\ Budget'
    BY <2>1, SlotsInductive, BudgetInductive
  <2>4. Living'
    BY <2>1, LivingStep
  <2> QED BY <2>2, <2>3, <2>4 DEF Grown
<1> QED BY <1>1, <1>2, PTL DEF Spec

(* Without redrives a pushed job is in some list or in some hand until it is *)
(* settled: no interleaving of pop, requeue, retry, dead-lettering, discard  *)
(* and unsubscribe loses it or its record (queue.rs).                       *)
THEOREM NothingLost == ASSUME NoRedrives PROVE Spec => []NoJobLost
<1>1. Grown => NoJobLost
  <2> SUFFICES ASSUME Grown, NEW j \in 1 .. pushed PROVE Located(j) \/ j \in finished \/ j \in stranded
    BY DEF NoJobLost
  <2>1. j \in Jobs /\ ~(j > pushed)
    BY DEF Grown, IInv, TypeOK, ClientOK, Jobs
  <2>2. Live(j) \/ Dead(j) => Located(j)
    BY DEF Live, Dead, Waiting, Running, Failed, Located, Proc
  <2> QED BY <2>1, <2>2 DEF Grown, Living, Lives, Known
<1> QED BY <1>1, GrownAlways, PTL

----------------------------------------------------------------------------
(* The abstract status of a job names its stage. *)
Stages == \A j \in Jobs :
    /\ j > pushed <=> StatusOf(j) = "unborn"
    /\ j \in finished <=> StatusOf(j) = "done"
    /\ j \in stranded <=> StatusOf(j) = "abandoned"
    /\ Waiting(j) <=> StatusOf(j) = "waiting"
    /\ Running(j) <=> StatusOf(j) = "running"
    /\ Failed(j) <=> StatusOf(j) = "failed"
    /\ Dead(j) <=> StatusOf(j) = "dead"

\* It does in every reachable state.
LEMMA StagesHold == Grown => Stages
BY StatusIs DEF Grown, Living, Stages
\* The same after a step.
LEMMA StagesNext == Grown' => Stages'
BY StagesHold, PTL

\* Every step is one of the abstract queue, or changes nothing it has.
LEMMA AbstractStep ==
    ASSUME NoRedrives, Grown, Grown', [Next]_vars PROVE Abstract!Next \/ UNCHANGED <<[j \in Jobs |-> StatusOf(j)], failed>>
<1> DEFINE st == [j \in Jobs |-> StatusOf(j)]
<1>1. Stages /\ Stages' /\ Advance
  BY StagesHold, StagesNext, Advances DEF Grown
<1>2. failed \in [Jobs -> Nat] /\ \A j \in Jobs : Known(j)
  BY DEF Grown, IInv, TypeOK, ClientOK, Living, Lives
<1>3. ASSUME NEW j \in Jobs, Same(j) PROVE StatusOf(j)' = StatusOf(j)
  BY <1>1, <1>2, <1>3 DEF Stages, Same, Known, Live
<1>4. CASE Rest
  BY <1>3, <1>4 DEF Rest
<1>5. CASE Turns
  <2>1. PICK x \in Jobs : Turn(x) /\ \A j \in Jobs : j # x => Same(j)
    BY <1>5 DEF Turns
  <2>2. \A j \in Jobs : j # x => StatusOf(j)' = StatusOf(j)
    BY <1>3, <2>1
  <2>3. \A a, b : StatusOf(x) = a /\ StatusOf(x)' = b => Abstract!move(x, a, b)
    BY <2>2 DEF Abstract!move
  <2>4. ASSUME NEW n, Below(n) PROVE \E m \in {AtLeastOne(l) : l \in Limits} : n < m
    BY <2>4 DEF Below
  <2>5. Spent(x) => \E m \in {AtLeastOne(l) : l \in Limits} : failed[x] >= m
    BY DEF Spent
  <2>6. ASSUME failed' = failed, StatusOf(x)' = StatusOf(x) PROVE UNCHANGED <<st, failed>>
    BY <2>2, <2>6
  <2>7. CASE failed' = failed /\ x > pushed /\ Waiting(x)'
    BY <1>1, <2>3, <2>7 DEF Stages, Abstract!Next, Abstract!Submit
  <2>8. CASE failed' = failed /\ Waiting(x) /\ (Waiting(x)' \/ Running(x)')
    BY <1>1, <2>3, <2>6, <2>8 DEF Stages, Abstract!Next, Abstract!Start
  <2>9. CASE failed' = failed /\ Running(x) /\ (Running(x)' \/ x \in finished')
    BY <1>1, <2>3, <2>6, <2>9 DEF Stages, Abstract!Next, Abstract!Ack
  <2>10. CASE failed' = failed /\ Failed(x) /\ Failed(x)'
    BY <1>1, <2>6, <2>10 DEF Stages
  <2>11. CASE failed' = failed /\ Failed(x) /\ Below(failed[x]) /\ (Waiting(x)' \/ Running(x)')
    BY <1>1, <2>3, <2>4, <2>11 DEF Stages, Abstract!Next, Abstract!Retry
  <2>12. CASE failed' = failed /\ Failed(x) /\ Spent(x) /\ Dead(x)'
    BY <1>1, <2>3, <2>5, <2>12 DEF Stages, Abstract!Next, Abstract!Bury
  <2>13. CASE failed' = failed /\ Dead(x) /\ (Dead(x)' \/ x \in finished')
    BY <1>1, <2>3, <2>6, <2>13 DEF Stages, Abstract!Next, Abstract!Discard
  <2>14. CASE failed' = [failed EXCEPT ![x] = @ + 1] /\ Running(x) /\ Failed(x)'
    BY <1>1, <2>3, <2>14 DEF Stages, Abstract!Next, Abstract!Fail
  <2> QED BY <2>1, <2>7, <2>8, <2>9, <2>10, <2>11, <2>12, <2>13, <2>14 DEF Turn
<1>6. ASSUME NEW S \in SUBSET Jobs, Leaves(S) PROVE Abstract!Next
  <2>1. \A j \in S : StatusOf(j) \in {"waiting", "running", "failed"} /\ StatusOf(j)' = "abandoned"
    BY <1>1, <1>6 DEF Leaves, Live, Stages
  <2>2. \A j \in Jobs : j \notin S => StatusOf(j)' = StatusOf(j)
    BY <1>3, <1>6 DEF Leaves
  <2>3. failed' = failed
    BY <1>6 DEF Leaves
  <2>4. Abstract!Abandon(S)
    BY <2>1, <2>2, <2>3 DEF Abstract!Abandon
  <2> QED BY <2>4 DEF Abstract!Next
<1> QED BY <1>1, <1>4, <1>5, <1>6 DEF Advance

(* BuiltinQueue implements DurableQueue, for any number of jobs, of           *)
(* subscriptions and tasks in any mode, and with discards, as long as no one  *)
(* redrives: whatever interleaves, a client sees every job submitted,         *)
(* started, failed, retried within its limit, buried only when it has used it *)
(* up, and acknowledged, discarded or abandoned once (queue.rs as a whole).   *)
THEOREM QueueIsDurable == ASSUME NoRedrives PROVE Spec => ImplementsDurableQueue
<1>1. Init => Abstract!Init
  <2> SUFFICES ASSUME Init PROVE Abstract!Init
    OBVIOUS
  <2>1. pushed = 0 /\ failed = [j \in Jobs |-> 0] /\ finished = {} /\ stranded = {}
    BY DEF Init
  <2>2. Grown
    BY InitInv, InitLiving, SlotsInductive, BudgetInductive, <2>1 DEF Grown, Past
  <2>3. \A j \in Jobs : StatusOf(j) = "unborn"
    BY <2>1, <2>2, StagesHold DEF Stages, Jobs
  <2> QED BY <2>1, <2>3 DEF Abstract!Init
<1>2. Grown /\ Grown' /\ [Next]_vars => [Abstract!Next]_<<[j \in Jobs |-> StatusOf(j)], failed>>
  BY AbstractStep
<1> QED BY <1>1, <1>2, GrownAlways, PTL DEF Spec, ImplementsDurableQueue, Abstract!Spec

----------------------------------------------------------------------------
(* The active list.  For a job no aborted loop had: it has one occurrence for *)
(* each process that is to remove one and for each loop that has set it aside.*)
Owing(j) == {p \in Proc : job[p] = j /\ pc[p] \in WillLrem}
Aside(j) == {w \in Subs : j \in Elems(skipped[w])}
Exempt(j) == j \in stranded \/ \E w \in Subs : pc[w] = "off" /\ job[w] = j
Balance(j) == active[j] = Cardinality(Owing(j)) + Cardinality(Aside(j))
Balanced == \A j \in Jobs : Exempt(j) \/ Balance(j)

\* Where a process has no occurrence to remove.
LEMMA OwesNothing ==
    \A l \in {"new", "off", "idle", "move", "move_push", "pop", "pop_active", "busy", "skip_push", "none",
               "ack_delete", "retry_set", "retry_zadd", "dlq_push", "dlq_delete", "release",
               "discard_delete"} : l \notin WillLrem
BY DEF WillLrem

(* How a step changes the entries of one job. *)
Even(j) == active'[j] = active[j] /\ Owing(j)' = Owing(j) /\ Aside(j)' = Aside(j)
Gains(j) == /\ active'[j] = active[j] + 1 /\ Aside(j)' = Aside(j)
            /\ \E p \in Proc : p \notin Owing(j) /\ Owing(j)' = Owing(j) \cup {p}
Pays(j) == /\ active'[j] = IF active[j] = 0 THEN 0 ELSE active[j] - 1
           /\ Aside(j)' = Aside(j)
           /\ \E p \in Owing(j) : Owing(j)' = Owing(j) \ {p}
Passes(j) == /\ active'[j] = active[j] /\ Aside(j)' = Aside(j)
             /\ \E p \in Owing(j), q \in Proc : q \notin Owing(j) /\ Owing(j)' = (Owing(j) \ {p}) \cup {q}
PutsAside(j) == /\ active'[j] = active[j]
                /\ \E w \in Subs : /\ w \in Owing(j) /\ Owing(j)' = Owing(j) \ {w}
                                   /\ w \notin Aside(j) /\ Aside(j)' = Aside(j) \cup {w}
TakesBack(j) == /\ active'[j] = active[j]
                /\ \E w \in Subs : /\ w \notin Owing(j) /\ Owing(j)' = Owing(j) \cup {w}
                                   /\ w \in Aside(j) /\ Aside(j)' = Aside(j) \ {w}
Entry(j) == Even(j) \/ Gains(j) \/ Pays(j) \/ Passes(j) \/ PutsAside(j) \/ TakesBack(j)

\* Each of them keeps the balance.
LEMMA EntryKeeps ==
    ASSUME NEW j \in Jobs, active \in [Jobs -> Nat], Balance(j), Entry(j)
    PROVE  Balance(j)'
<1>0. IsFiniteSet(Subs) /\ IsFiniteSet(Proc)
  <2>1. IsFiniteSet(Subs \cup Tasks)
    BY SubsAssumption, FS_Union
  <2>2. IsFiniteSet({Admin})
    BY FS_Singleton
  <2> QED BY <2>1, <2>2, SubsAssumption, FS_Union DEF Proc
<1>1. IsFiniteSet(Owing(j)) /\ IsFiniteSet(Aside(j))
  <2>1. Owing(j) \subseteq Proc /\ Aside(j) \subseteq Subs
    BY DEF Owing, Aside
  <2> QED BY <1>0, <2>1, FS_Subset
<1> DEFINE o == Cardinality(Owing(j))
           a == Cardinality(Aside(j))
<1>2. o \in Nat /\ a \in Nat /\ active[j] \in Nat /\ active[j] = o + a
  BY <1>1, FS_CardinalityType DEF Balance
<1>3. \A p : p \notin Owing(j) => Cardinality(Owing(j) \cup {p}) = o + 1
  BY <1>1, FS_AddElement
<1>4. \A p \in Owing(j) : IsFiniteSet(Owing(j) \ {p}) /\ Cardinality(Owing(j) \ {p}) = o - 1 /\ o > 0
  <2> SUFFICES ASSUME NEW p \in Owing(j)
               PROVE IsFiniteSet(Owing(j) \ {p}) /\ Cardinality(Owing(j) \ {p}) = o - 1 /\ o > 0
    OBVIOUS
  <2>1. IsFiniteSet(Owing(j) \ {p}) /\ Cardinality(Owing(j) \ {p}) = o - 1
    BY <1>1, FS_RemoveElement
  <2>2. Cardinality(Owing(j) \ {p}) \in Nat
    BY <2>1, FS_CardinalityType
  <2> QED BY <1>2, <2>1, <2>2
<1>5. \A w : w \notin Aside(j) => Cardinality(Aside(j) \cup {w}) = a + 1
  BY <1>1, FS_AddElement
<1>6. \A w \in Aside(j) : Cardinality(Aside(j) \ {w}) = a - 1
  BY <1>1, FS_RemoveElement
<1>7. CASE Even(j)
  BY <1>7 DEF Even, Balance
<1>8. CASE Gains(j)
  <2>1. Cardinality(Owing(j)') = o + 1
    BY <1>3, <1>8 DEF Gains
  <2>2. active'[j] = active[j] + 1 /\ Aside(j)' = Aside(j)
    BY <1>8 DEF Gains
  <2> QED BY <1>2, <2>1, <2>2 DEF Balance
<1>9. CASE Pays(j)
  <2>1. PICK p \in Owing(j) : Owing(j)' = Owing(j) \ {p}
    BY <1>9 DEF Pays
  <2>2. Cardinality(Owing(j)') = o - 1 /\ o > 0
    BY <1>4, <2>1
  <2>3. active'[j] = active[j] - 1 /\ Aside(j)' = Aside(j)
    BY <1>2, <1>9, <2>2 DEF Pays
  <2> QED BY <1>2, <2>2, <2>3 DEF Balance
<1>10. CASE Passes(j)
  <2>1. PICK p \in Owing(j), q \in Proc : q \notin Owing(j) /\ Owing(j)' = (Owing(j) \ {p}) \cup {q}
    BY <1>10 DEF Passes
  <2>2. PICK T : T = Owing(j) \ {p}
    OBVIOUS
  <2>3. IsFiniteSet(T) /\ Cardinality(T) = o - 1 /\ q \notin T /\ Owing(j)' = T \cup {q}
    BY <1>4, <2>1, <2>2
  <2>4. Cardinality(T \cup {q}) = o - 1 + 1
    BY <2>3, FS_AddElement
  <2>5. active'[j] = active[j] /\ Aside(j)' = Aside(j)
    BY <1>10 DEF Passes
  <2>6. Cardinality(Owing(j)') = o
    BY <1>2, <2>3, <2>4
  <2> QED BY <1>2, <2>5, <2>6 DEF Balance
<1>11. CASE PutsAside(j)
  <2>1. PICK w \in Subs : /\ w \in Owing(j) /\ Owing(j)' = Owing(j) \ {w}
                          /\ w \notin Aside(j) /\ Aside(j)' = Aside(j) \cup {w}
    BY <1>11 DEF PutsAside
  <2>2. Cardinality(Owing(j)') = o - 1
    BY <1>4, <2>1
  <2>3. Cardinality(Aside(j)') = a + 1
    BY <1>5, <2>1
  <2>4. active'[j] = active[j]
    BY <1>11 DEF PutsAside
  <2> QED BY <1>2, <2>2, <2>3, <2>4 DEF Balance
<1>12. CASE TakesBack(j)
  <2>1. PICK w \in Subs : /\ w \notin Owing(j) /\ Owing(j)' = Owing(j) \cup {w}
                          /\ w \in Aside(j) /\ Aside(j)' = Aside(j) \ {w}
    BY <1>12 DEF TakesBack
  <2>2. Cardinality(Owing(j)') = o + 1
    BY <1>3, <2>1
  <2>3. Cardinality(Aside(j)') = a - 1
    BY <1>6, <2>1
  <2>4. active'[j] = active[j]
    BY <1>12 DEF TakesBack
  <2> QED BY <1>2, <2>2, <2>3, <2>4 DEF Balance
<1> QED BY <1>7, <1>8, <1>9, <1>10, <1>11, <1>12 DEF Entry


----------------------------------------------------------------------------
(* A process that owes what it owed: it stands where it stood, or it stands  *)
(* before a removal, or after one, both before and after the step.           *)
Level(q) ==
    \/ Still(q)
    \/ pc[q] \notin WillLrem /\ pc'[q] \notin WillLrem
    \/ pc[q] \in WillLrem /\ pc'[q] \in WillLrem /\ job'[q] = job[q]
SameAside == \A w \in Subs : Elems(skipped'[w]) = Elems(skipped[w])

\* If no process owes anything else, no entry changes.
LEMMA EvenStep ==
    ASSUME UNCHANGED active, SameAside, \A q \in Proc : Level(q), NEW j \in Jobs
    PROVE  Entry(j)
<1>1. Owing(j)' = Owing(j)
  BY DEF Owing, Level, Still
<1>2. Aside(j)' = Aside(j)
  BY DEF Aside, SameAside
<1> QED BY <1>1, <1>2 DEF Entry, Even

\* Process p removes the occurrence it owes.
LEMMA PayStep ==
    ASSUME TypeOK, NEW p \in Proc, pc[p] \in WillLrem, pc'[p] \notin WillLrem, UNCHANGED job,
           \A q \in Proc : q # p => pc'[q] = pc[q], lremActive(job[p]), SameAside, NEW j \in Jobs
    PROVE  Entry(j)
<1>0. active \in [Jobs -> Nat] /\ job[p] \in Jobs
  BY DEF TypeOK, StoreTypeOK, LocalOK
<1>2. Aside(j)' = Aside(j)
  BY DEF Aside, SameAside
<1>3. CASE j = job[p]
  <2>1. p \in Owing(j) /\ Owing(j)' = Owing(j) \ {p}
    BY <1>3 DEF Owing
  <2>2. active'[j] = IF active[j] = 0 THEN 0 ELSE active[j] - 1
    BY <1>0, <1>3 DEF lremActive
  <2> QED BY <1>2, <2>1, <2>2 DEF Entry, Pays
<1>4. CASE j # job[p]
  <2>1. Owing(j)' = Owing(j)
    BY <1>4 DEF Owing
  <2>2. active'[j] = active[j]
    BY <1>0, <1>4 DEF lremActive
  <2> QED BY <1>2, <2>1, <2>2 DEF Entry, Even
<1> QED BY <1>3, <1>4

\* The loop hands what it owes over to the task it starts.
LEMMA PassStep ==
    ASSUME TypeOK, NEW w \in Subs, NEW t \in Tasks, pc[w] = "pop_load",
           NEW first \in {"start", "handle"}, NEW next \in {"pop", "busy"}, start(w, t, first, next),
           UNCHANGED <<active, skipped>>, NEW j \in Jobs
    PROVE  Entry(j)
<1>0. /\ w \in Proc /\ t \in Proc /\ t # w /\ job \in [Proc -> Jobs]
      /\ pc \in [Proc -> LoopPcs \cup TaskPcs \cup AdminPcs]
  BY DEF TypeOK, LocalOK, PcOK, Proc
<1>1. /\ job' = [job EXCEPT ![t] = job[w]] /\ pc' = [pc EXCEPT ![t] = first, ![w] = next] /\ pc[t] = "none"
  BY DEF start, take
<1>2. /\ job'[t] = job[w] /\ pc'[t] = first /\ pc'[w] = next /\ job'[w] = job[w]
      /\ \A q \in Proc : q # t /\ q # w => pc'[q] = pc[q] /\ job'[q] = job[q]
  BY <1>0, <1>1
<1>3. "pop_load" \in WillLrem /\ first \in WillLrem /\ next \notin WillLrem /\ "none" \notin WillLrem
  BY DEF WillLrem
<1>4. Aside(j)' = Aside(j)
  BY DEF Aside
<1>5. CASE j = job[w]
  <2>1. w \in Owing(j) /\ t \notin Owing(j)
    BY <1>0, <1>1, <1>3, <1>5 DEF Owing
  <2>2. Owing(j)' = (Owing(j) \ {w}) \cup {t}
    BY <1>0, <1>2, <1>3, <1>5 DEF Owing
  <2> QED BY <1>0, <1>4, <2>1, <2>2 DEF Entry, Passes
<1>6. CASE j # job[w]
  <2>1. Owing(j)' = Owing(j)
    BY <1>0, <1>1, <1>2, <1>3, <1>6 DEF Owing
  <2> QED BY <1>4, <2>1 DEF Entry, Even
<1> QED BY <1>5, <1>6

\* What the loop of a subscription does to the entries.
LEMMA LoopEntries ==
    ASSUME IInv, Living, NEW w \in Subs, LoopStep(w), NEW j \in Jobs PROVE Entry(j)
<1> USE DEF loopVars, taskVars, clientVars, history, storeVars
<1>0. /\ w \in Proc /\ job[w] \in Jobs /\ job \in [Proc -> Jobs] /\ active \in [Jobs -> Nat]
      /\ NoRepeat(skipped[w]) /\ skipped \in [Subs -> Seq(Jobs)] /\ TypeOK
  BY DEF IInv, TypeOK, StoreTypeOK, LocalOK, Proc, SinglePlace, ListedOnce
<1>1. ASSUME NEW due \in SUBSET delayed, Poll(w, due) PROVE Entry(j)
  <2>1. \A q \in Proc : Level(q)
    BY <1>0, <1>1, GotoHands, OwesNothing DEF Poll, Level, Still
  <2> QED BY <1>1, <2>1, EvenStep DEF Poll, SameAside
<1>2. ASSUME NEW i \in Jobs, MoveZrem(w, i) PROVE Entry(j)
  <2>1. CASE i \in delayed
    <3>1. \A q \in Proc : Level(q)
      BY <1>0, <1>2, <2>1, GotoHands, OwesNothing DEF MoveZrem, take, Level, Still
    <3> QED BY <1>2, <3>1, EvenStep DEF MoveZrem, SameAside
  <2>2. CASE i \notin delayed
    <3>1. \A q \in Proc : Level(q)
      BY <1>2, <2>2 DEF MoveZrem, Level, Still
    <3> QED BY <1>2, <3>1, EvenStep DEF MoveZrem, SameAside
  <2> QED BY <2>1, <2>2
<1>3. CASE MovePush(w) \/ MoveDone(w) \/ PopNone(w)
  <2>1. \A q \in Proc : Level(q)
    BY <1>0, <1>3, GotoHands, OwesNothing DEF MovePush, MoveDone, PopNone, endPass, Level, Still
  <2> QED BY <1>3, <2>1, EvenStep DEF MovePush, MoveDone, PopNone, SameAside
<1>4. CASE PopId(w)
  <2>1. \A q \in Proc : Level(q)
    BY <1>0, <1>4, GotoHands, OwesNothing DEF PopId, take, Level, Still
  <2> QED BY <1>4, <2>1, EvenStep DEF PopId, SameAside
<1>5. CASE PopActive(w)
  <2>1. /\ pc[w] = "pop_active" /\ pc'[w] = "pop_load" /\ \A q \in Proc : q # w => pc'[q] = pc[q]
        /\ UNCHANGED <<job, skipped>> /\ active' = [active EXCEPT ![job[w]] = @ + 1]
    BY <1>0, <1>5, GotoHands DEF PopActive, pushActive
  <2>2. "pop_active" \notin WillLrem /\ "pop_load" \in WillLrem
    BY DEF WillLrem
  <2>3. Aside(j)' = Aside(j)
    BY <2>1 DEF Aside
  <2>4. CASE j = job[w]
    <3>1. w \notin Owing(j) /\ Owing(j)' = Owing(j) \cup {w}
      BY <1>0, <2>1, <2>2, <2>4 DEF Owing
    <3>2. active'[j] = active[j] + 1
      BY <1>0, <2>1, <2>4
    <3> QED BY <1>0, <2>3, <3>1, <3>2 DEF Entry, Gains
  <2>5. CASE j # job[w]
    <3>1. Owing(j)' = Owing(j) /\ active'[j] = active[j]
      BY <1>0, <2>1, <2>5 DEF Owing
    <3> QED BY <2>3, <3>1 DEF Entry, Even
  <2> QED BY <2>4, <2>5
<1>6. CASE PopMissing(w)
  <2>1. Holds(w, job[w])
    BY <1>6 DEF PopMissing, Holds, Holding, LoopHolding
  <2>2. job[w] \in record
    BY <1>0, <2>1 DEF Living, Recorded, Live, Waiting
  <2> QED BY <1>6, <2>2 DEF PopMissing
<1>7. ASSUME NEW t \in Tasks, SpawnConcurrent(w, t) \/ StartFifo(w, t) \/ SpawnGrouped(w, t) PROVE Entry(j)
  <2>1. CASE SpawnConcurrent(w, t)
    BY <1>0, <2>1, PassStep DEF SpawnConcurrent
  <2>2. CASE StartFifo(w, t)
    BY <1>0, <2>2, PassStep DEF StartFifo
  <2>3. CASE SpawnGrouped(w, t)
    BY <1>0, <2>3, PassStep DEF SpawnGrouped
  <2> QED BY <1>7, <2>1, <2>2, <2>3
<1>8. CASE NoPermit(w) \/ Requeue(w)
  <2>1. \A q \in Proc : Level(q)
    BY <1>0, <1>8, GotoHands DEF NoPermit, Requeue, Level, Still, WillLrem
  <2> QED BY <1>8, <2>1, EvenStep DEF NoPermit, Requeue, SameAside
<1>9. CASE RequeueLrem(w) \/ SkipLrem(w)
  <2>1. /\ pc[w] \in WillLrem /\ pc'[w] \notin WillLrem /\ \A q \in Proc : q # w => pc'[q] = pc[q]
    BY <1>0, <1>9, GotoHands DEF RequeueLrem, SkipLrem, endPass, WillLrem
  <2> QED BY <1>0, <1>9, <2>1, PayStep DEF RequeueLrem, SkipLrem, SameAside
<1>10. CASE SkipGrouped(w)
  <2> DEFINE new == Append(skipped[w], job[w])
  <2>1. /\ pc[w] = "pop_load" /\ pc'[w] = "pop" /\ \A q \in Proc : q # w => pc'[q] = pc[q]
        /\ UNCHANGED <<job, active>> /\ skipped' = [skipped EXCEPT ![w] = new]
    BY <1>0, <1>10, GotoHands DEF SkipGrouped
  <2>2. Elems(new) = Elems(skipped[w]) \cup {job[w]}
    BY <1>0, RpushFacts DEF rpush
  <2> HIDE DEF new
  <2>3. skipped'[w] = new /\ \A v \in Subs : v # w => skipped'[v] = skipped[v]
    BY <1>0, <2>1
  <2>4. "pop_load" \in WillLrem /\ "pop" \notin WillLrem /\ "pop_load" \in Holding
    BY DEF WillLrem, Holding, LoopHolding
  <2>5. job[w] \notin Elems(skipped[w])
    BY <1>0, <2>1, <2>4 DEF IInv, SinglePlace, HeldElsewhereNowhere
  <2>6. CASE j = job[w]
    <3>1. w \in Owing(j) /\ Owing(j)' = Owing(j) \ {w}
      BY <1>0, <2>1, <2>4, <2>6 DEF Owing
    <3>2. w \notin Aside(j) /\ Aside(j)' = Aside(j) \cup {w}
      BY <2>2, <2>3, <2>5, <2>6 DEF Aside
    <3> QED BY <2>1, <3>1, <3>2 DEF Entry, PutsAside
  <2>7. CASE j # job[w]
    <3>1. Owing(j)' = Owing(j)
      BY <2>1, <2>7 DEF Owing
    <3>2. Aside(j)' = Aside(j)
      BY <2>2, <2>3, <2>7 DEF Aside
    <3> QED BY <2>1, <3>1, <3>2 DEF Entry, Even
  <2> QED BY <2>6, <2>7
<1>11. CASE SkipPush(w)
  <2>1. skipped[w] # <<>>
    BY <1>11 DEF SkipPush
  <2>2. /\ Head(skipped[w]) \in Jobs /\ Elems(skipped[w]) = Elems(Tail(skipped[w])) \cup {Head(skipped[w])}
        /\ Head(skipped[w]) \notin Elems(Tail(skipped[w]))
    BY <1>0, <2>1, TailFacts
  <2>3. PICK x \in Jobs : x = Head(skipped[w])
    BY <2>2
  <2>4. /\ pc[w] = "skip_push" /\ pc'[w] = "skip_lrem" /\ \A q \in Proc : q # w => pc'[q] = pc[q]
        /\ UNCHANGED active /\ job' = [job EXCEPT ![w] = x]
    BY <1>0, <1>11, <2>3, GotoHands DEF SkipPush, take
  <2>5. skipped'[w] = Tail(skipped[w]) /\ \A v \in Subs : v # w => skipped'[v] = skipped[v]
    BY <1>11, <1>0 DEF SkipPush
  <2>6. "skip_push" \notin WillLrem /\ "skip_lrem" \in WillLrem
    BY DEF WillLrem
  <2>7. job'[w] = x /\ \A q \in Proc : q # w => job'[q] = job[q]
    BY <1>0, <2>4
  <2>8. CASE j = x
    <3>1. w \notin Owing(j) /\ Owing(j)' = Owing(j) \cup {w}
      BY <1>0, <2>4, <2>6, <2>7, <2>8 DEF Owing
    <3>2. w \in Aside(j) /\ Aside(j)' = Aside(j) \ {w}
      BY <2>2, <2>3, <2>5, <2>8 DEF Aside
    <3> QED BY <2>4, <3>1, <3>2 DEF Entry, TakesBack
  <2>9. CASE j # x
    <3>1. Owing(j)' = Owing(j)
      BY <1>0, <2>4, <2>6, <2>7, <2>9 DEF Owing
    <3>2. Aside(j)' = Aside(j)
      BY <2>2, <2>3, <2>5, <2>9 DEF Aside
    <3> QED BY <2>4, <3>1, <3>2 DEF Entry, Even
  <2> QED BY <2>8, <2>9
<1> QED BY <1>1, <1>2, <1>3, <1>4, <1>5, <1>6, <1>7, <1>8, <1>9, <1>10, <1>11 DEF LoopStep

\* What a task does to them.
LEMMA TaskEntries ==
    ASSUME IInv, Living, NEW t \in Tasks, TaskStep(t), NEW j \in Jobs PROVE Entry(j)
<1> USE DEF loopVars, taskVars, clientVars, history, storeVars
<1>0. t \in Proc /\ TypeOK /\ Fifo /\ pc \in [Proc -> LoopPcs \cup TaskPcs \cup AdminPcs]
  BY DEF IInv, TypeOK, PcOK, Proc, Living
<1>1. CASE ApplyOverrides(t) \/ HandleOk(t) \/ HandleErr(t) \/ InlineRetry(t) \/ Nack(t)
  <2>1. /\ pc[t] \in WillLrem /\ pc'[t] \in WillLrem /\ \A q \in Proc : q # t => pc'[q] = pc[q]
    BY <1>0, <1>1, GotoHands DEF ApplyOverrides, HandleOk, HandleErr, InlineRetry, Nack, WillLrem
  <2>2. UNCHANGED <<job, active, skipped>>
    BY <1>1 DEF ApplyOverrides, HandleOk, HandleErr, InlineRetry, Nack
  <2>3. \A q \in Proc : Level(q)
    BY <2>1, <2>2 DEF Level, Still
  <2> QED BY <2>2, <2>3, EvenStep DEF SameAside
<1>2. CASE AckLrem(t) \/ RetryLrem(t) \/ DlqLrem(t)
  <2>1. /\ pc[t] \in WillLrem /\ pc'[t] \notin WillLrem /\ \A q \in Proc : q # t => pc'[q] = pc[q]
    BY <1>0, <1>2, GotoHands DEF AckLrem, RetryLrem, DlqLrem, WillLrem
  <2> QED BY <1>0, <1>2, <2>1, PayStep DEF AckLrem, RetryLrem, DlqLrem, SameAside
<1>3. CASE RetrySet(t) \/ DlqPush(t) \/ Release(t)
  <2>1. \A q \in Proc : Level(q)
    BY <1>0, <1>3, GotoHands, OwesNothing DEF RetrySet, DlqPush, Release, Level, Still
  <2> QED BY <1>3, <2>1, EvenStep DEF RetrySet, DlqPush, Release, SameAside
<1>4. CASE AckDelete(t) \/ RetryZadd(t) \/ DlqDelete(t)
  <2>1. /\ pc[t] \in {"ack_delete", "retry_zadd", "dlq_delete"} /\ finish(t) /\ UNCHANGED <<active, job>>
    BY <1>4 DEF AckDelete, RetryZadd, DlqDelete
  <2>2. UNCHANGED skipped
    BY <2>1 DEF finish
  <2>3. /\ owner[t] \in Subs /\ owner[t] # t /\ owner[t] \in Proc
        /\ Mode[owner[t]] \in {"concurrent", "fifo", "grouped"}
    BY <1>0 DEF TypeOK, LocalOK, Proc
  <2>4. CASE Mode[owner[t]] = "fifo"
    <3>1. pc' = [pc EXCEPT ![t] = "none", ![owner[t]] = "idle"]
      BY <2>1, <2>4 DEF finish
    <3>2. pc[owner[t]] = "busy"
      BY <1>0, <2>1, <2>4 DEF Fifo, Attached
    <3>3. pc'[t] = "none" /\ pc'[owner[t]] = "idle" /\ \A q \in Proc : q # t /\ q # owner[t] => pc'[q] = pc[q]
      BY <1>0, <2>3, <3>1
    <3>4. \A q \in Proc : Level(q)
      BY <2>1, <3>2, <3>3, OwesNothing DEF Level, Still
    <3> QED BY <2>1, <2>2, <3>4, EvenStep DEF SameAside
  <2>5. CASE Mode[owner[t]] # "fifo"
    <3>1. pc' = [pc EXCEPT ![t] = "none"] \/ pc' = [pc EXCEPT ![t] = "release"]
      BY <2>1, <2>3, <2>5 DEF finish
    <3>2. pc'[t] \in {"none", "release"} /\ \A q \in Proc : q # t => pc'[q] = pc[q]
      BY <1>0, <3>1
    <3>3. \A q \in Proc : Level(q)
      BY <2>1, <3>2, OwesNothing DEF Level, Still
    <3> QED BY <2>1, <2>2, <3>3, EvenStep DEF SameAside
  <2> QED BY <2>4, <2>5
<1>5. CASE NackGone(t)
  BY <1>5 DEF NackGone, Living, Steady
<1> QED BY <1>1, <1>2, <1>3, <1>4, <1>5 DEF TaskStep

----------------------------------------------------------------------------
(* What exempts a job stays. *)
Sticky == stranded \subseteq stranded' /\ \A w \in Subs : pc[w] = "off" => pc'[w] = "off" /\ job'[w] = job[w]

\* So only the jobs that nothing exempts afterwards matter.
LEMMA BalanceKept ==
    ASSUME TypeOK, Balanced, Sticky, \A j \in Jobs : Exempt(j)' \/ Entry(j) PROVE Balanced'
<1> SUFFICES ASSUME NEW j \in Jobs, ~Exempt(j)' PROVE Balance(j)'
  BY DEF Balanced
<1>1. ~Exempt(j)
  BY DEF Sticky, Exempt
<1>2. Balance(j) /\ Entry(j) /\ active \in [Jobs -> Nat]
  BY <1>1 DEF Balanced, TypeOK, StoreTypeOK
<1> QED BY <1>2, EntryKeeps

\* The balance is inductive relative to Grown.
LEMMA BalancedStep ==
    ASSUME NoRedrives, Grown, Balanced, [Next]_vars PROVE Balanced'
<1> USE DEF loopVars, taskVars, clientVars, history, storeVars
<1>0. IInv /\ TypeOK /\ Living /\ Fifo /\ Steady
  BY DEF Grown, IInv, Living
<1>00. /\ pc \in [Proc -> LoopPcs \cup TaskPcs \cup AdminPcs] /\ job \in [Proc -> Jobs]
       /\ skipped \in [Subs -> Seq(Jobs)] /\ Subs \subseteq Proc /\ Tasks \subseteq Proc /\ Admin \in Proc
       /\ Admin \notin Subs /\ Subs \cap Tasks = {}
  BY <1>0 DEF TypeOK, PcOK, LocalOK, Proc
<1>1. ASSUME NEW w \in Subs, LoopStep(w) PROVE Balanced'
  <2>1. Sticky
    <3>1. pc[w] # "off"
      BY <1>1 DEF LoopStep, Poll, MoveZrem, MovePush, MoveDone, PopNone, PopId, PopActive, PopMissing,
                  SpawnConcurrent, StartFifo, SpawnGrouped, NoPermit, Requeue, RequeueLrem, SkipGrouped, SkipPush, SkipLrem
    <3>2. UNCHANGED stranded
      BY <1>1 DEF LoopStep, Poll, MoveZrem, MovePush, MoveDone, PopNone, PopId, PopActive, PopMissing,
                  SpawnConcurrent, StartFifo, SpawnGrouped, NoPermit, Requeue, RequeueLrem, SkipGrouped, SkipPush, SkipLrem
    <3>3. \A v \in Subs : v # w => pc'[v] = pc[v] /\ job'[v] = job[v]
      <4>1. Loops(w) \/ \E t \in Tasks : Starts(w, t)
        BY <1>0, <1>1, LoopMoves
      <4>2. CASE Loops(w)
        BY <1>00, <4>2 DEF Loops, Moved, Still
      <4>3. ASSUME NEW t \in Tasks, Starts(w, t) PROVE \A v \in Subs : v # w => pc'[v] = pc[v] /\ job'[v] = job[v]
        BY <1>00, <4>3 DEF Starts, Still
      <4> QED BY <4>1, <4>2, <4>3
    <3> QED BY <3>1, <3>2, <3>3 DEF Sticky
  <2> QED BY <1>0, <1>1, <2>1, LoopEntries, BalanceKept
<1>2. ASSUME NEW t \in Tasks, TaskStep(t) PROVE Balanced'
  <2>1. UNCHANGED <<stranded, job>>
    BY <1>2 DEF TaskStep, ApplyOverrides, HandleOk, HandleErr, InlineRetry, AckLrem, AckDelete, Nack, NackGone,
                RetryLrem, RetrySet, RetryZadd, DlqLrem, DlqPush, DlqDelete, Release
  <2>2. \A w \in Subs : pc[w] = "off" => pc'[w] = "off"
    <3>1. CASE Moved(t)
      BY <1>00, <3>1 DEF Moved, Still
    <3>2. CASE Ends(t)
      <4>1. /\ owner[t] \in Subs /\ owner[t] # t /\ owner[t] \in Proc /\ t \in Proc
            /\ Mode[owner[t]] \in {"concurrent", "fifo", "grouped"}
        BY <1>0, <1>00 DEF TypeOK, LocalOK
      <4>2. CASE Mode[owner[t]] = "fifo"
        <5>1. pc[owner[t]] = "busy"
          BY <1>0, <3>2, <4>2 DEF Fifo, Attached, Ends
        <5>2. pc' = [pc EXCEPT ![t] = "none", ![owner[t]] = "idle"]
          BY <3>2, <4>2 DEF Ends, finish
        <5> QED BY <1>00, <4>1, <5>1, <5>2
      <4>3. CASE Mode[owner[t]] # "fifo"
        <5>1. pc' = [pc EXCEPT ![t] = "none"] \/ pc' = [pc EXCEPT ![t] = "release"]
          BY <3>2, <4>1, <4>3 DEF Ends, finish
        <5> QED BY <1>00, <5>1
      <4> QED BY <4>2, <4>3
    <3> QED BY <1>0, <1>2, <3>1, <3>2, TaskMoves DEF Grown, Works
  <2>3. Sticky
    BY <2>1, <2>2 DEF Sticky
  <2> QED BY <1>0, <1>2, <2>3, TaskEntries, BalanceKept
<1>3. CASE AdminStep
  <2>1. DiscardDelete \/ \E j \in Jobs : Discard(j)
    BY <1>0, <1>3, AdminAdvances
  <2>2. /\ UNCHANGED <<active, skipped, stranded>> /\ \A q \in Proc : q # Admin => Still(q)
        /\ pc[Admin] \in {"idle", "discard_delete"} /\ pc'[Admin] \in {"idle", "discard_delete"}
    BY <1>0, <1>00, <2>1, GotoHands DEF DiscardDelete, Discard, call, take, Still
  <2>3. Sticky /\ \A q \in Proc : Level(q)
    BY <1>00, <2>2, OwesNothing DEF Sticky, Level, Still
  <2> QED BY <1>0, <2>2, <2>3, EvenStep, BalanceKept DEF SameAside
<1>4. CASE Push \/ PushDelayed \/ UNCHANGED vars
  <2>1. UNCHANGED <<active, skipped, stranded, pc, job>>
    BY <1>4 DEF Push, PushDelayed, vars
  <2>2. Sticky /\ \A q \in Proc : Level(q)
    BY <2>1 DEF Sticky, Level, Still
  <2> QED BY <1>0, <2>1, <2>2, EvenStep, BalanceKept DEF SameAside
<1>5. ASSUME NEW w \in Subs, Subscribe(w) PROVE Balanced'
  <2>1. /\ UNCHANGED <<active, skipped, stranded, job>> /\ pc[w] = "new" /\ pc'[w] = "idle"
        /\ \A q \in Proc : q # w => pc'[q] = pc[q]
    BY <1>0, <1>00, <1>5, GotoHands DEF Subscribe
  <2>2. Sticky /\ \A q \in Proc : Level(q)
    BY <1>00, <2>1, OwesNothing DEF Sticky, Level, Still
  <2> QED BY <1>0, <2>1, <2>2, EvenStep, BalanceKept DEF SameAside
<1>6. ASSUME NEW w \in Subs, Unsubscribe(w) PROVE Balanced'
  <2> DEFINE left == Elems(skipped[w]) \cup {job[p] : p \in {q \in Inline(w) \cup {w} : pc[q] \in Holding}}
  <2>1. /\ stranded' = stranded \cup left /\ skipped' = [skipped EXCEPT ![w] = <<>>]
        /\ UNCHANGED <<active, job>>
        /\ pc' = [p \in Proc |-> IF p = w THEN "off" ELSE IF p \in Inline(w) THEN "none" ELSE pc[p]]
    BY <1>6 DEF Unsubscribe
  <2>2. pc'[w] = "off" /\ \A q \in Proc : q # w => pc'[q] = IF q \in Inline(w) THEN "none" ELSE pc[q]
    BY <1>00, <2>1
  <2>3. Inline(w) \subseteq Tasks
    BY DEF Inline
  <2>4. Sticky
    BY <1>00, <2>1, <2>2, <2>3 DEF Sticky
  <2>5. ASSUME NEW j \in Jobs, ~Exempt(j)' PROVE Entry(j)
    <3>1. j \notin left /\ job[w] # j
      BY <2>1, <2>2, <2>5 DEF Exempt
    <3>2. ASSUME NEW t \in Inline(w), pc[t] \in WillLrem PROVE job[t] # j
      <4>1. pc[t] \in Holding
        BY <1>0, <2>3, <3>2 DEF TypeOK, PcOK, WillLrem, TaskPcs, TaskHolding, LoopHolding, AdminHolding, Holding
      <4> QED BY <3>1, <4>1
    <3>3. Owing(j)' = Owing(j)
      <4>1. \A q \in Proc : q \in Owing(j)' <=> q \in Owing(j)
        BY <2>1, <2>2, <3>1, <3>2, OwesNothing DEF Owing
      <4> QED BY <4>1 DEF Owing
    <3>4. skipped'[w] = <<>> /\ \A v \in Subs : v # w => skipped'[v] = skipped[v]
      BY <1>00, <2>1
    <3>5. Elems(<<>>) = {} /\ j \notin Elems(skipped[w])
      BY <3>1 DEF Elems
    <3>6. Aside(j)' = Aside(j)
      BY <3>4, <3>5 DEF Aside
    <3> QED BY <2>1, <3>3, <3>6 DEF Entry, Even
  <2> QED BY <1>0, <2>4, <2>5, BalanceKept
<1> QED BY <1>1, <1>2, <1>3, <1>4, <1>5, <1>6 DEF Next, ClientStep

(* The active list is exact for any number of jobs, subscriptions and tasks, *)
(* as long as no one redrives: whatever interleaves between the lpush of a    *)
(* pop and the lrem of a requeue, an ack, a retry or a dead-lettering, every  *)
(* occurrence of an id has one process or one skipping loop that still        *)
(* removes it, and none is removed twice (queue.rs).                         *)
THEOREM ActiveListExact == ASSUME NoRedrives PROVE Spec => []ActiveAccounted
<1>1. Init => Balanced
  <2> SUFFICES ASSUME Init, NEW j \in Jobs PROVE Balance(j)
    BY DEF Balanced
  <2>1. \A w \in Subs : skipped[w] = <<>>
    BY DEF Init
  <2>2. \A p \in Proc : pc[p] \in {"new", "idle", "none"}
    BY DEF Init
  <2>3. Elems(<<>>) = {}
    BY DEF Elems
  <2>4. Owing(j) = {} /\ Aside(j) = {}
    BY <2>1, <2>2, <2>3, OwesNothing DEF Owing, Aside
  <2>5. active[j] = 0
    BY DEF Init, StoreInit
  <2> QED BY <2>4, <2>5, FS_EmptySet DEF Balance
<1>2. Grown /\ Balanced /\ [Next]_vars => Balanced'
  BY BalancedStep
<1>3. Balanced => ActiveAccounted
  BY DEF Balanced, Exempt, Balance, Owing, Aside, ActiveAccounted
<1> QED BY <1>1, <1>2, <1>3, GrownAlways, PTL DEF Spec

----------------------------------------------------------------------------
(* The order of a FIFO queue, where the code keeps it: one FIFO subscription *)
(* that stays, and jobs that are pushed and nothing else.  A delayed job      *)
(* re-enters at the serving end, a redriven one at the other, an aborted loop *)
(* strands the job in its hands, and a job being discarded is for a moment    *)
(* neither dead-lettered nor settled.                                        *)
FifoAlone == Ops = {} /\ \A w \in Subs : Mode[w] = "fifo" /\ \A v \in Subs : v = w

(* Newest first: the back, which is served, is the oldest. *)
Descends(list) == \A i, k \in 1 .. Len(list) : i < k => list[k] < list[i]

(* Such a queue never uses the paths that put a job back, and the job its    *)
(* loop has popped is older than every job in line.                          *)
FifoLoopPcs == {"new", "idle", "move", "pop", "pop_active", "pop_load", "busy"}
FifoTaskPcs == {"none", "start", "handle", "sleep", "ack_lrem", "ack_delete",
                "dlq_lrem", "dlq_push", "dlq_delete"}
Straight ==
    /\ delayed = {} /\ stranded = {} /\ pc[Admin] = "idle"
    /\ \A w \in Subs : skipped[w] = <<>> /\ ready[w] = {} /\ pc[w] \in FifoLoopPcs
    /\ \A t \in Tasks : pc[t] \in FifoTaskPcs
OldestFirst ==
    /\ Descends(waiting)
    /\ \A w \in Subs : pc[w] \in Popping => \A j \in Elems(waiting) : job[w] < j
InLine == Straight /\ OldestFirst

\* A new id at the front keeps the line in order.
LEMMA DescendsPush ==
    ASSUME NEW list \in Seq(Jobs), NEW id \in Jobs, Descends(list), \A j \in Elems(list) : j < id
    PROVE  Descends(lpush(list, id))
<1> DEFINE new == lpush(list, id)
<1>1. /\ Len(new) = Len(list) + 1 /\ new[1] = id /\ Len(list) \in Nat
      /\ \A i \in 1 .. Len(list) : new[i + 1] = list[i]
  BY DEF lpush
<1>2. \A i \in 1 .. Len(list) : list[i] \in Elems(list)
  BY DEF Elems
<1> HIDE DEF new
<1>3. ASSUME NEW i \in 1 .. Len(new), NEW k \in 1 .. Len(new), i < k PROVE new[k] < new[i]
  <2>1. k - 1 \in 1 .. Len(list) /\ new[k] = list[k - 1]
    BY <1>1, <1>3
  <2>2. CASE i = 1
    BY <1>1, <1>2, <2>1, <2>2
  <2>3. CASE i # 1
    <3>1. i - 1 \in 1 .. Len(list) /\ new[i] = list[i - 1] /\ i - 1 < k - 1
      BY <1>1, <1>3, <2>3
    <3> QED BY <2>1, <3>1 DEF Descends
  <2> QED BY <2>2, <2>3
<1>4. Descends(new)
  BY <1>3 DEF Descends
<1> QED BY <1>4 DEF new

\* What is popped is older than what is left, and what is left is in order.
LEMMA DescendsPop ==
    ASSUME NEW list \in Seq(Jobs), Descends(list), list # <<>>
    PROVE  Descends(rpop(list)) /\ \A j \in Elems(rpop(list)) : back(list) < j
<1> DEFINE new == rpop(list)
<1>1. Len(list) \in Nat \ {0}
  BY EmptySeq
<1>2. Len(new) = Len(list) - 1 /\ \A i \in 1 .. Len(new) : new[i] = list[i]
  <2>1. \A i \in 1 .. (Len(list) - 1) : list[i] \in Jobs
    BY <1>1
  <2>2. /\ Len(new) = IF 1 <= Len(list) - 1 THEN Len(list) - 1 - 1 + 1 ELSE 0
        /\ \A i \in 1 .. (Len(list) - 1 - 1 + 1) : new[i] = list[1 + i - 1]
    BY <1>1, <2>1, SubSeqProperties DEF rpop
  <2> HIDE DEF new
  <2>3. Len(new) = Len(list) - 1
    <3>1. \A n \in Nat \ {0} : (IF 1 <= n - 1 THEN n - 1 - 1 + 1 ELSE 0) = n - 1
      OBVIOUS
    <3>2. (IF 1 <= Len(list) - 1 THEN Len(list) - 1 - 1 + 1 ELSE 0) = Len(list) - 1
      BY <1>1, <3>1, Zenon
    <3> QED BY <2>2, <3>2
  <2>4. \A i \in 1 .. Len(new) : i \in 1 .. (Len(list) - 1 - 1 + 1) /\ 1 + i - 1 = i
    BY <1>1, <2>3
  <2> QED BY <2>2, <2>3, <2>4
<1> HIDE DEF new
<1>3. Descends(new)
  <2> SUFFICES ASSUME NEW i \in 1 .. Len(new), NEW k \in 1 .. Len(new), i < k PROVE new[k] < new[i]
    BY DEF Descends
  <2>1. i \in 1 .. Len(list) /\ k \in 1 .. Len(list) /\ new[i] = list[i] /\ new[k] = list[k]
    BY <1>1, <1>2
  <2> QED BY <1>1, <2>1 DEF Descends
<1>4. \A j \in Elems(new) : back(list) < j
  <2> SUFFICES ASSUME NEW i \in 1 .. Len(new) PROVE back(list) < new[i]
    BY DEF Elems
  <2>1. i \in 1 .. Len(list) /\ Len(list) \in 1 .. Len(list) /\ i < Len(list)
    BY <1>1, <1>2
  <2>2. list[Len(list)] < list[i]
    BY <2>1 DEF Descends
  <2> QED BY <1>2, <2>2 DEF back
<1> QED BY <1>3, <1>4 DEF new

\* Nothing is in line at first.
LEMMA InitInLine == Init => InLine
<1> SUFFICES ASSUME Init PROVE InLine
  OBVIOUS
<1>1. \A w \in Subs : w \in Proc /\ pc[w] = "new" /\ skipped[w] = <<>> /\ ready[w] = {}
  BY DEF Init, Proc
<1>2. \A t \in Tasks : t \in Proc /\ pc[t] = "none"
  BY DEF Init, Proc
<1>3. pc[Admin] = "idle"
  BY DEF Init, Proc
<1>4. Straight
  BY <1>1, <1>2, <1>3 DEF Init, StoreInit, Straight, FifoLoopPcs, FifoTaskPcs
<1>5. Descends(<<>>) /\ waiting = <<>>
  BY DEF Descends, Init, StoreInit
<1>6. OldestFirst
  BY <1>1, <1>5 DEF OldestFirst, Popping
<1> QED BY <1>4, <1>6 DEF InLine

(* A step that pops nothing and pushes nothing. *)
LEMMA SameLine ==
    ASSUME InLine, UNCHANGED waiting,
           \A w \in Subs : pc'[w] \in Popping => pc[w] \in Popping /\ job'[w] = job[w]
    PROVE  OldestFirst'
BY DEF InLine, OldestFirst

\* The line stays in order while the loop works.
LEMMA LoopInLine ==
    ASSUME FifoAlone, Grown, InLine, NEW w \in Subs, LoopStep(w)
    PROVE  InLine'
<1> USE DEF loopVars, taskVars, clientVars, history, storeVars
<1>0. /\ w \in Proc /\ Mode[w] = "fifo" /\ (\A v \in Subs : v = w) /\ Admin \in Proc /\ Admin # w
      /\ Tasks \subseteq Proc /\ w \notin Tasks
  BY DEF FifoAlone, Proc
<1>1. /\ job \in [Proc -> Jobs] /\ pc \in [Proc -> LoopPcs \cup TaskPcs \cup AdminPcs]
      /\ waiting \in Seq(Jobs) /\ ready \in [Subs -> SUBSET Jobs]
  BY DEF Grown, IInv, TypeOK, StoreTypeOK, LocalOK, PcOK
<1>2. /\ delayed = {} /\ stranded = {} /\ pc[Admin] = "idle" /\ skipped[w] = <<>> /\ ready[w] = {}
      /\ pc[w] \in FifoLoopPcs /\ \A t \in Tasks : pc[t] \in FifoTaskPcs
  BY DEF InLine, Straight
<1>3. ASSUME NEW next \in FifoLoopPcs, goto(w, next), UNCHANGED <<skipped, stranded, delayed>>, ready'[w] = {}
      PROVE  Straight'
  <2>1. pc'[w] = next /\ pc'[Admin] = pc[Admin] /\ \A t \in Tasks : pc'[t] = pc[t]
    BY <1>0, <1>1, <1>3 DEF goto
  <2> QED BY <1>0, <1>2, <1>3, <2>1 DEF Straight
<1>4. ASSUME NEW next, goto(w, next), next \in Popping => pc[w] \in Popping, UNCHANGED <<waiting, job>>
      PROVE  OldestFirst'
  <2>1. pc'[w] = next
    BY <1>0, <1>1, <1>4 DEF goto
  <2> QED BY <1>0, <1>4, <2>1, SameLine
<1>5. ASSUME NEW due \in SUBSET delayed, Poll(w, due) PROVE InLine'
  <2>1. due = {} /\ goto(w, "move") /\ ready'[w] = due /\ UNCHANGED <<skipped, stranded, delayed, waiting, job>>
    BY <1>1, <1>2, <1>5 DEF Poll
  <2> QED BY <1>3, <1>4, <2>1 DEF InLine, FifoLoopPcs, Popping
<1>6. ASSUME NEW j \in Jobs PROVE ~MoveZrem(w, j)
  BY <1>2 DEF MoveZrem
<1>7. ~MovePush(w) /\ ~Requeue(w) /\ ~RequeueLrem(w) /\ ~SkipPush(w) /\ ~SkipLrem(w)
  BY <1>2 DEF MovePush, Requeue, RequeueLrem, SkipPush, SkipLrem, FifoLoopPcs
<1>8. ~NoPermit(w) /\ ~SkipGrouped(w) /\ \A t \in Tasks : ~SpawnConcurrent(w, t) /\ ~SpawnGrouped(w, t)
  BY <1>0 DEF NoPermit, SkipGrouped, SpawnConcurrent, SpawnGrouped
<1>9. CASE MoveDone(w) \/ PopNone(w) \/ PopMissing(w)
  <2>1. PICK next \in {"pop", "idle"} : goto(w, next)
    BY <1>2, <1>9 DEF MoveDone, PopNone, PopMissing, endPass
  <2>2. UNCHANGED <<skipped, stranded, delayed, waiting, job, ready>>
    BY <1>9 DEF MoveDone, PopNone, PopMissing
  <2> QED BY <1>2, <1>3, <1>4, <2>1, <2>2 DEF InLine, FifoLoopPcs, Popping
<1>10. CASE PopActive(w)
  <2>1. goto(w, "pop_load") /\ pc[w] = "pop_active" /\ UNCHANGED <<skipped, stranded, delayed, waiting, job, ready>>
    BY <1>10 DEF PopActive
  <2> QED BY <1>2, <1>3, <1>4, <2>1 DEF InLine, FifoLoopPcs, Popping
<1>11. CASE PopId(w)
  <2>1. /\ goto(w, "pop_active") /\ waiting # <<>> /\ waiting' = rpop(waiting) /\ take(w, back(waiting))
        /\ UNCHANGED <<skipped, stranded, delayed, ready>>
    BY <1>11 DEF PopId
  <2>2. Straight'
    BY <1>2, <1>3, <2>1 DEF FifoLoopPcs
  <2>3. Descends(waiting)
    BY DEF InLine, OldestFirst
  <2>4. Descends(waiting') /\ \A j \in Elems(waiting') : back(waiting) < j
    BY <1>1, <2>1, <2>3, DescendsPop
  <2>5. job'[w] = back(waiting)
    BY <1>0, <1>1, <2>1 DEF take
  <2>6. OldestFirst'
    BY <1>0, <2>4, <2>5 DEF OldestFirst
  <2> QED BY <2>2, <2>6 DEF InLine
<1>12. ASSUME NEW t \in Tasks, StartFifo(w, t) PROVE InLine'
  <2>1. pc' = [pc EXCEPT ![t] = "start", ![w] = "busy"] /\ UNCHANGED <<skipped, stranded, delayed, ready, waiting>>
    BY <1>12 DEF StartFifo, start
  <2>2. /\ pc'[w] = "busy" /\ pc'[Admin] = pc[Admin] /\ pc'[t] = "start"
        /\ \A u \in Tasks : u # t => pc'[u] = pc[u]
    BY <1>0, <1>1, <2>1
  <2>3. Straight'
    BY <1>0, <1>2, <2>1, <2>2 DEF Straight, FifoLoopPcs, FifoTaskPcs
  <2>4. OldestFirst'
    BY <1>0, <2>1, <2>2, SameLine DEF Popping
  <2> QED BY <2>3, <2>4 DEF InLine
<1> QED BY <1>5, <1>6, <1>7, <1>8, <1>9, <1>10, <1>11, <1>12 DEF LoopStep

\* And while its task does.
LEMMA TaskInLine ==
    ASSUME FifoAlone, Grown, InLine, NEW t \in Tasks, TaskStep(t)
    PROVE  InLine'
<1> USE DEF loopVars, taskVars, clientVars, history, storeVars
<1>0. t \in Proc /\ Admin \in Proc /\ Admin # t /\ Subs \subseteq Proc /\ t \notin Subs /\ Tasks \subseteq Proc
  BY DEF Proc
<1>1. pc \in [Proc -> LoopPcs \cup TaskPcs \cup AdminPcs] /\ owner[t] \in Subs
  BY DEF Grown, IInv, TypeOK, LocalOK, PcOK
<1>2. /\ Straight /\ pc[t] \in FifoTaskPcs /\ Mode[owner[t]] = "fifo" /\ inline(t)
  BY <1>1 DEF InLine, Straight, FifoAlone, inline
<1>3. ASSUME NEW next \in FifoTaskPcs, goto(t, next), UNCHANGED <<skipped, stranded, delayed, waiting, job, ready>>
      PROVE  InLine'
  <2>1. pc'[t] = next /\ \A q \in Proc : q # t => pc'[q] = pc[q]
    BY <1>0, <1>1, <1>3 DEF goto
  <2>2. \A w \in Subs : pc'[w] = pc[w]
    BY <1>0, <2>1
  <2>3. Straight'
    BY <1>0, <1>2, <1>3, <2>1, <2>2 DEF Straight
  <2>4. OldestFirst'
    BY <1>3, <2>2, SameLine
  <2> QED BY <2>3, <2>4 DEF InLine
<1>4. ASSUME finish(t), UNCHANGED <<stranded, delayed, waiting, job>>
      PROVE  InLine'
  <2>1. pc' = [pc EXCEPT ![t] = "none", ![owner[t]] = "idle"] /\ UNCHANGED <<ready, skipped>>
    BY <1>2, <1>4 DEF finish
  <2>2. /\ pc'[t] = "none" /\ pc'[owner[t]] = "idle"
        /\ \A q \in Proc : q # t /\ q # owner[t] => pc'[q] = pc[q]
    BY <1>0, <1>1, <2>1
  <2>3. \A w \in Subs : pc'[w] = pc[w] \/ pc'[w] = "idle"
    BY <1>0, <2>2
  <2>4. \A u \in Tasks : pc'[u] = pc[u] \/ pc'[u] = "none"
    BY <1>0, <1>1, <2>2
  <2>5. pc'[Admin] = pc[Admin]
    BY <1>0, <1>1, <2>2
  <2>6. Straight'
    BY <1>2, <1>4, <2>1, <2>3, <2>4, <2>5 DEF Straight, FifoLoopPcs, FifoTaskPcs
  <2>7. OldestFirst'
    BY <1>4, <2>3, SameLine DEF Popping
  <2> QED BY <2>6, <2>7 DEF InLine
<1>5. CASE ApplyOverrides(t) \/ HandleOk(t) \/ InlineRetry(t) \/ AckLrem(t) \/ DlqLrem(t) \/ DlqPush(t)
  <2>1. PICK next \in {"handle", "ack_lrem", "ack_delete", "dlq_push", "dlq_delete"} : goto(t, next)
    BY <1>5 DEF ApplyOverrides, HandleOk, InlineRetry, AckLrem, DlqLrem, DlqPush
  <2>2. UNCHANGED <<skipped, stranded, delayed, waiting, job, ready>>
    BY <1>5 DEF ApplyOverrides, HandleOk, InlineRetry, AckLrem, DlqLrem, DlqPush
  <2> QED BY <1>3, <2>1, <2>2 DEF FifoTaskPcs
<1>6. CASE HandleErr(t)
  <2>1. PICK next \in {"sleep", "dlq_lrem"} : goto(t, next)
    BY <1>2, <1>6 DEF HandleErr
  <2>2. UNCHANGED <<skipped, stranded, delayed, waiting, job, ready>>
    BY <1>6 DEF HandleErr
  <2> QED BY <1>3, <2>1, <2>2 DEF FifoTaskPcs
<1>7. CASE AckDelete(t) \/ DlqDelete(t)
  BY <1>4, <1>7 DEF AckDelete, DlqDelete
<1>8. ~Nack(t) /\ ~NackGone(t) /\ ~RetryLrem(t) /\ ~RetrySet(t) /\ ~RetryZadd(t) /\ ~Release(t)
  BY <1>2 DEF Nack, NackGone, RetryLrem, RetrySet, RetryZadd, Release, FifoTaskPcs
<1> QED BY <1>5, <1>6, <1>7, <1>8 DEF TaskStep

\* And while producers push.
LEMMA ClientInLine ==
    ASSUME FifoAlone, Grown, InLine, ClientStep
    PROVE  InLine'
<1> USE DEF loopVars, taskVars, clientVars, history, storeVars
<1>1. /\ pc \in [Proc -> LoopPcs \cup TaskPcs \cup AdminPcs] /\ waiting \in Seq(Jobs) /\ job \in [Proc -> Jobs]
      /\ pushed \in 0 .. MaxJobs
  BY DEF Grown, IInv, TypeOK, StoreTypeOK, LocalOK, PcOK, ClientOK
<1>2. Straight /\ OldestFirst
  BY DEF InLine
<1>3. CASE Push
  <2>1. /\ pushed' = pushed + 1 /\ pushed' \in Jobs /\ waiting' = lpush(waiting, pushed')
        /\ UNCHANGED <<skipped, stranded, delayed, job, ready, pc>>
    BY <1>1, <1>3 DEF Push, Jobs
  <2>2. PICK n : n = pushed'
    OBVIOUS
  <2>3. \A j \in Jobs : Located(j) => j < n
    BY <1>1, <2>1, <2>2 DEF Grown, IInv, Unborn, Jobs
  <2>4. \A j \in Elems(waiting) : j \in Jobs /\ j < n
    <3>1. Elems(waiting) \subseteq Jobs
      BY <1>1 DEF Elems
    <3> QED BY <2>3, <3>1 DEF Located
  <2>5. Descends(waiting') /\ Elems(waiting') = Elems(waiting) \cup {n}
    BY <1>1, <1>2, <2>1, <2>2, <2>4, DescendsPush, LpushFacts DEF OldestFirst
  <2>6. ASSUME NEW w \in Subs, pc[w] \in Popping PROVE job[w] < n
    <3>1. w \in Proc /\ job[w] \in Jobs
      BY <1>1 DEF Proc
    <3>2. Holds(w, job[w])
      BY <2>6 DEF Holds, Holding, LoopHolding, Popping
    <3>3. Located(job[w])
      BY <3>1, <3>2 DEF Located
    <3> QED BY <2>3, <3>1, <3>3
  <2>7. Straight'
    BY <1>2, <2>1 DEF Straight
  <2>8. OldestFirst'
    BY <1>2, <2>1, <2>5, <2>6 DEF OldestFirst
  <2> QED BY <2>7, <2>8 DEF InLine
<1>4. ASSUME NEW w \in Subs, Subscribe(w) PROVE InLine'
  <2>1. /\ pc' = [pc EXCEPT ![w] = "idle"] /\ UNCHANGED <<skipped, stranded, delayed, job, ready, waiting>>
    BY <1>4 DEF Subscribe, goto
  <2>2. \A q \in Proc : pc'[q] = pc[q] \/ (q = w /\ pc'[q] = "idle")
    BY <1>1, <2>1
  <2>3. \A v \in Subs : pc'[v] = pc[v] \/ pc'[v] = "idle"
    BY <2>2 DEF Proc
  <2>4. pc'[Admin] = pc[Admin] /\ \A t \in Tasks : pc'[t] = pc[t]
    BY <2>2 DEF Proc
  <2>5. Straight'
    BY <1>2, <2>1, <2>3, <2>4 DEF Straight, FifoLoopPcs
  <2>6. OldestFirst'
    BY <2>1, <2>3, SameLine DEF Popping
  <2> QED BY <2>5, <2>6 DEF InLine
<1>5. ~PushDelayed /\ \A w \in Subs : ~Unsubscribe(w)
  BY DEF FifoAlone, PushDelayed, Unsubscribe
<1> QED BY <1>3, <1>4, <1>5 DEF ClientStep

\* The operator does nothing.
LEMMA NoAdmin == ASSUME FifoAlone, InLine PROVE ~AdminStep
<1>1. pc[Admin] = "idle" /\ Ops = {}
  BY DEF FifoAlone, InLine, Straight
<1> QED BY <1>1 DEF AdminStep, Redrive, RedriveRpop, RedriveSet, RedrivePush, DiscardDelete,
                     RedriveMessage, Discard, call

\* Nor does any other step disturb the line.
LEMMA InLineStep == ASSUME FifoAlone, Grown, InLine, [Next]_vars PROVE InLine'
<1>1. CASE UNCHANGED vars
  <2>1. UNCHANGED <<waiting, delayed, stranded, pc, job, skipped, ready>>
    BY <1>1 DEF vars, storeVars, loopVars, history
  <2> QED BY <2>1 DEF InLine, Straight, OldestFirst
<1> QED BY <1>1, LoopInLine, TaskInLine, ClientInLine, NoAdmin DEF Next

\* When the loop hands a job over, every older job is settled.
LEMMA AllOlderSettled ==
    ASSUME FifoAlone, Grown, InLine, NEW w \in Subs, pc[w] = "pop_load", NEW i \in Jobs, i < job[w]
    PROVE  i \in finished \/ i \in Elems(dlq)
<1>1. /\ w \in Proc /\ job[w] \in Jobs /\ pushed \in Nat /\ i \in Nat /\ job[w] \in Nat
      /\ \A t \in Tasks : owner[t] \in Subs
  <2>1. job \in [Proc -> Jobs] /\ owner \in [Tasks -> Subs] /\ pushed \in 0 .. MaxJobs
    BY DEF Grown, IInv, TypeOK, LocalOK, ClientOK
  <2>2. w \in Proc
    BY DEF Proc
  <2>3. \A j \in Jobs : j \in Nat
    BY DEF Jobs
  <2>4. job[w] \in Jobs /\ \A t \in Tasks : owner[t] \in Subs
    BY <2>1, <2>2
  <2> QED BY <2>1, <2>2, <2>3, <2>4
<1>2. Holds(w, job[w])
  BY DEF Holds, Holding, LoopHolding
<1>3. Located(job[w])
  BY <1>1, <1>2 DEF Located
<1>4. ~(job[w] > pushed)
  BY <1>1, <1>3 DEF Grown, IInv, Unborn
<1>5. ~(i > pushed)
  BY <1>1, <1>4
<1>6. delayed = {} /\ stranded = {} /\ pc[Admin] = "idle" /\ \A v \in Subs : v = w /\ skipped[v] = <<>>
  BY DEF InLine, Straight, FifoAlone
<1>7. \A t \in Tasks : pc[t] = "none"
  <2>1. \A t \in Tasks : owner[t] = w /\ Mode[w] = "fifo"
    BY <1>1, <1>6 DEF FifoAlone
  <2>2. Fifo
    BY DEF Grown, Living
  <2> QED BY <2>1, <2>2 DEF Fifo, Attached
<1>8. \A p \in Proc : ~Holds(p, i)
  <2>1. "none" \notin Holding /\ "idle" \notin Holding
    BY FreePcs
  <2> QED BY <1>1, <1>6, <1>7, <2>1 DEF Holds, Proc
<1>9. i \notin Elems(waiting)
  <2>1. pc[w] \in Popping
    BY DEF Popping
  <2>2. \A j \in Elems(waiting) : job[w] < j
    BY <2>1 DEF InLine, OldestFirst
  <2>3. i \in Elems(waiting) => job[w] < i
    BY <2>2
  <2> QED BY <1>1, <2>3
<1>10. \A v \in Subs : i \notin Elems(skipped[v])
  BY <1>6 DEF Elems
<1>11. Located(i) => i \in Elems(dlq)
  BY <1>6, <1>8, <1>9, <1>10 DEF Located
<1>12. Live(i) \/ Dead(i) => Located(i)
  BY DEF Live, Dead, Waiting, Running, Failed, Located, Proc
<1> QED BY <1>5, <1>6, <1>11, <1>12 DEF Grown, Living, Lives, Known

(* A FIFO subscription handles the jobs in the order they were pushed, for   *)
(* any number of jobs and any retry limits, whatever the producers push       *)
(* while it works: a task starts a job only when every job pushed before it   *)
(* is acknowledged or dead-lettered (FifoWorker::process_next_job, whose loop *)
(* waits for the job it popped).                                            *)
THEOREM FifoInOrder == ASSUME FifoAlone PROVE Spec => GroupOrder
<1>0. NoRedrives
  BY DEF NoRedrives, FifoAlone
<1>1. Grown /\ InLine /\ [Next]_vars => [\A t \in Tasks : StartsInOrder(t)]_vars
  <2> SUFFICES ASSUME Grown, InLine, Next, NEW t \in Tasks, pc[t] = "none", pc'[t] = "start"
               PROVE  \A i \in 1 .. (job'[t] - 1) : i \in finished \/ i \in Elems(dlq)
    BY DEF StartsInOrder
  <2>0. /\ t \in Proc /\ TypeOK /\ (\A v \in Subs : v \in Proc /\ v # t) /\ Admin \in Proc /\ Admin # t
        /\ Tasks \subseteq Proc
    BY DEF Grown, IInv, Proc
  <2>1. ~ClientStep
    <3>1. ASSUME NEW v \in Subs, Subscribe(v) PROVE FALSE
      BY <2>0, <3>1, GotoHands DEF Subscribe
    <3>2. ~PushDelayed /\ \A v \in Subs : ~Unsubscribe(v)
      BY DEF FifoAlone, PushDelayed, Unsubscribe
    <3>3. ~Push
      BY DEF Push
    <3> QED BY <3>1, <3>2, <3>3 DEF ClientStep
  <2>2. ASSUME NEW u \in Tasks, TaskStep(u) PROVE FALSE
    <3>1. Works(u) \/ Ends(u)
      BY <2>2, TaskMoves DEF Grown
    <3>2. CASE u = t
      BY <3>1, <3>2 DEF Works, Ends
    <3>3. CASE u # t /\ Works(u)
      BY <2>0, <3>3 DEF Works, Moved, Still
    <3>4. CASE u # t /\ Ends(u)
      <4>1. Mode[owner[u]] = "fifo" /\ owner[u] \in Subs /\ owner[u] # t
        BY <2>0 DEF FifoAlone, TypeOK, LocalOK
      <4>2. pc' = [pc EXCEPT ![u] = "none", ![owner[u]] = "idle"]
        BY <3>4, <4>1 DEF Ends, finish
      <4> QED BY <2>0, <3>4, <4>1, <4>2 DEF TypeOK, PcOK
    <3> QED BY <3>1, <3>2, <3>3, <3>4
  <2>3. PICK w \in Subs : LoopStep(w)
    BY <2>1, <2>2, NoAdmin DEF Next
  <2>4. PICK u \in Tasks : Starts(w, u)
    <3>1. ~Loops(w)
      BY <2>0 DEF Loops, Moved, Still
    <3> QED BY <2>3, <3>1, LoopMoves DEF Grown
  <2>5. pc[w] = "pop_load" /\ job'[t] = job[w]
    BY <2>0, <2>4 DEF Starts, Still
  <2>6. \A i \in 1 .. (job[w] - 1) : i \in Jobs /\ i < job[w]
    <3>1. job[w] \in Jobs
      BY <2>0 DEF TypeOK, LocalOK
    <3> QED BY <3>1 DEF Jobs
  <2> QED BY <2>5, <2>6, AllOlderSettled
<1>2. Grown /\ InLine /\ [Next]_vars => InLine'
  BY InLineStep
<1>3. Spec => []Grown
  BY <1>0, GrownAlways
<1> QED BY <1>1, <1>2, <1>3, InitInLine, PTL DEF Spec, GroupOrder

=============================================================================
