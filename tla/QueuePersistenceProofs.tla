----------------------- MODULE QueuePersistenceProofs -----------------------
(***************************************************************************)
(* The save loops forget no change, for any files, writers and loops, and   *)
(* the persistent queue saves as they do.  Whatever was saved when the       *)
(* engine stopped, a restart offers no job twice, and draining an old queue  *)
(* into the new one makes no second copy of a job.                          *)
(***************************************************************************)
EXTENDS QueuePersistence, FiniteSetTheorems, SequenceTheorems, TLAPS

(* Two loops that serve a file in common are never both at work (flush_lock).*)
Exclusive ==
    \A l, m \in Loop : Busy(l) /\ Busy(m) /\ Serves[l] \cap Serves[m] # {} => l = m

(* A loop works on its own files. *)
Assigned ==
    \A l \in Loop : todo[l] \subseteq Serves[l] /\ (saving[l] # NoFile => saving[l] \in Serves[l])

(* A snapshot that memory has left behind will be taken again. *)
Known(f) ==
    f \in dirty \/ (\E w \in Writer : f \in owes[w]) \/ (\E l \in Loop : f \in todo[l])
StaleIsKnown ==
    \A l \in Loop : \A f \in File : saving[l] = f /\ snap[l] # mem[f] => Known(f)

SaveInv == SaveTypeOK /\ Exclusive /\ Assigned /\ StaleIsKnown /\ NoChangeForgotten

\* At first nothing is pending.
LEMMA SaveInitInv == SaveInit => SaveInv
BY SaveAssumption DEF SaveInit, SaveInv, SaveTypeOK, Exclusive, Assigned, StaleIsKnown,
   NoChangeForgotten, Known, WillBeSaved, Busy

\* A write to memory is accounted for by the writer that has to mark it.
LEMMA PutKeepsInv ==
    ASSUME SaveInv, NEW w \in Writer, NEW f \in File, put(w, f, mem'[f])
    PROVE  SaveInv'
<1> USE SaveAssumption DEF put, SaveInv
<1>1. SaveTypeOK'
  BY DEF SaveTypeOK
<1>2. Exclusive' /\ Assigned'
  BY DEF Exclusive, Assigned, Busy
<1>3. \A g \in File : (Known(g) => Known(g)') /\ (g # f => mem'[g] = mem[g])
  BY DEF SaveTypeOK, Known
<1>4. Known(f)'
  BY DEF SaveTypeOK, Known
<1>5. StaleIsKnown'
  BY <1>3, <1>4 DEF StaleIsKnown
<1>6. NoChangeForgotten'
  BY <1>3, <1>4 DEF NoChangeForgotten, WillBeSaved, Known
<1> QED BY <1>1, <1>2, <1>5, <1>6

\* A marked change is accounted for by the dirty set.
LEMMA MarkKeepsInv ==
    ASSUME SaveInv, NEW w \in Writer, mark(w)
    PROVE  SaveInv'
<1> USE SaveAssumption DEF mark, SaveInv
<1>1. SaveTypeOK'
  BY DEF SaveTypeOK
<1>2. Exclusive' /\ Assigned'
  BY DEF Exclusive, Assigned, Busy
<1>3. \A g \in File : Known(g) => Known(g)'
  BY DEF SaveTypeOK, Known
<1>5. StaleIsKnown'
  BY <1>3 DEF StaleIsKnown
<1>6. NoChangeForgotten'
  BY <1>3 DEF NoChangeForgotten, WillBeSaved, Known
<1> QED BY <1>1, <1>2, <1>5, <1>6

\* A drained mark is accounted for by the save loop's batch.
LEMMA DrainKeepsInv ==
    ASSUME SaveInv, NEW l \in Loop, Drain(l)
    PROVE  SaveInv'
<1> USE SaveAssumption DEF Drain, SaveInv
<1>0. todo[l] = {} /\ saving[l] = NoFile
  <2>1. Serves[l] \cap Serves[l] # {}
    OBVIOUS
  <2> QED BY <2>1 DEF Free, Busy
<1>1. SaveTypeOK'
  BY DEF SaveTypeOK
<1>a. \A m \in Loop : m # l => (Busy(m)' <=> Busy(m))
  BY DEF SaveTypeOK, Busy
<1>b. \A m \in Loop : Serves[m] \cap Serves[l] # {} => ~Busy(m)
  BY DEF Free
<1>2. Exclusive'
  BY <1>a, <1>b DEF Exclusive
<1>c. Assigned'
  BY DEF Assigned, SaveTypeOK
<1>3. \A g \in File : Known(g) => Known(g)'
  BY <1>0 DEF SaveTypeOK, Known
<1>5. StaleIsKnown'
  BY <1>3 DEF StaleIsKnown
<1>6. NoChangeForgotten'
  BY <1>3 DEF NoChangeForgotten, WillBeSaved, Known
<1> QED BY <1>1, <1>2, <1>c, <1>5, <1>6

\* The loop saves what memory holds after it has taken the mark.
LEMMA SnapshotKeepsInv ==
    ASSUME SaveInv, NEW l \in Loop, NEW f \in File, Snapshot(l, f)
    PROVE  SaveInv'
<1> USE SaveAssumption DEF Snapshot, SaveInv
<1>1. SaveTypeOK'
  BY DEF SaveTypeOK
<1>2. Busy(l) /\ \A m \in Loop : Busy(m)' => Busy(m)
  BY DEF SaveTypeOK, Busy
<1>3. Exclusive'
  BY <1>2 DEF Exclusive
<1>4. Assigned'
  BY DEF Assigned, SaveTypeOK
<1>5. \A g \in File : g # f /\ Known(g) => Known(g)'
  BY DEF SaveTypeOK, Known
<1>6. StaleIsKnown'
  <2> SUFFICES ASSUME NEW m \in Loop, NEW g \in File, saving'[m] = g, snap'[m] # mem'[g]
               PROVE  Known(g)'
    BY DEF StaleIsKnown
  <2>1. m # l
    BY DEF SaveTypeOK
  <2>2. saving[m] = g /\ snap[m] # mem[g] /\ Busy(m)
    BY <2>1 DEF SaveTypeOK, Busy
  <2>3. g # f
    BY <2>1, <2>2, <1>2 DEF Exclusive, Assigned
  <2> QED BY <2>2, <2>3, <1>5 DEF StaleIsKnown
<1>7. NoChangeForgotten'
  <2> SUFFICES ASSUME NEW g \in File, mem'[g] # disk'[g]
               PROVE  WillBeSaved(g)'
    BY DEF NoChangeForgotten
  <2>1. CASE g = f
    BY <2>1 DEF WillBeSaved, SaveTypeOK
  <2>2. CASE g # f
    <3>1. CASE Known(g)
      BY <1>5, <2>2, <3>1 DEF WillBeSaved, Known
    <3>2. CASE ~Known(g)
      <4>1. PICK m \in Loop : saving[m] = g /\ snap[m] = mem[g]
        BY <3>2 DEF NoChangeForgotten, WillBeSaved, Known
      <4>2. m # l
        BY <4>1
      <4> QED BY <4>1, <4>2 DEF WillBeSaved, SaveTypeOK
    <3> QED BY <3>1, <3>2
  <2> QED BY <2>1, <2>2
<1> QED BY <1>1, <1>3, <1>4, <1>6, <1>7

\* A written snapshot is as new as when it was taken.
LEMMA WriteKeepsInv ==
    ASSUME SaveInv, NEW l \in Loop, Write(l)
    PROVE  SaveInv'
<1> USE SaveAssumption DEF Write, endSave, SaveInv
<1>1. SaveTypeOK'
  BY DEF SaveTypeOK
<1>2. \A m \in Loop : Busy(m)' => Busy(m)
  BY DEF SaveTypeOK, Busy
<1>3. Exclusive'
  BY <1>2 DEF Exclusive
<1>4. Assigned'
  BY DEF Assigned, SaveTypeOK
<1>5. \A g \in File : Known(g) => Known(g)'
  BY DEF Known
<1>6. StaleIsKnown'
  BY <1>5 DEF StaleIsKnown, SaveTypeOK
<1>7. NoChangeForgotten'
  <2> SUFFICES ASSUME NEW g \in File, mem'[g] # disk'[g]
               PROVE  WillBeSaved(g)'
    BY DEF NoChangeForgotten
  <2>1. CASE g = saving[l]
    <3>1. snap[l] # mem[g]
      BY <2>1 DEF SaveTypeOK
    <3>2. Known(g)'
      BY <3>1, <2>1, <1>5 DEF StaleIsKnown
    <3> QED BY <3>2 DEF WillBeSaved, Known
  <2>2. CASE g # saving[l]
    <3>0. mem[g] # disk[g]
      BY <2>2 DEF SaveTypeOK
    <3>1. CASE Known(g)
      BY <1>5, <3>1 DEF WillBeSaved, Known
    <3>2. CASE ~Known(g)
      <4>1. PICK m \in Loop : saving[m] = g /\ snap[m] = mem[g]
        BY <3>0, <3>2 DEF NoChangeForgotten, WillBeSaved, Known
      <4>2. m # l
        BY <4>1, <2>2
      <4> QED BY <4>1, <4>2 DEF WillBeSaved, SaveTypeOK
    <3> QED BY <3>1, <3>2
  <2> QED BY <2>1, <2>2
<1> QED BY <1>1, <1>3, <1>4, <1>6, <1>7

\* A failed write marks its entry again.
LEMMA WriteFailsKeepsInv ==
    ASSUME SaveInv, NEW l \in Loop, WriteFails(l)
    PROVE  SaveInv'
<1> USE SaveAssumption DEF WriteFails, endSave, SaveInv
<1>1. SaveTypeOK'
  BY DEF SaveTypeOK
<1>2. \A m \in Loop : Busy(m)' => Busy(m)
  BY DEF SaveTypeOK, Busy
<1>3. Exclusive'
  BY <1>2 DEF Exclusive
<1>4. Assigned'
  BY DEF Assigned, SaveTypeOK
<1>5. \A g \in File : Known(g) => Known(g)'
  BY DEF Known
<1>6. StaleIsKnown'
  BY <1>5 DEF StaleIsKnown, SaveTypeOK
<1>7. NoChangeForgotten'
  <2> SUFFICES ASSUME NEW g \in File, mem'[g] # disk'[g]
               PROVE  WillBeSaved(g)'
    BY DEF NoChangeForgotten
  <2>1. CASE g = saving[l] \/ Known(g)
    BY <1>5, <2>1 DEF WillBeSaved, Known
  <2>2. CASE g # saving[l] /\ ~Known(g)
    <3>1. PICK m \in Loop : saving[m] = g /\ snap[m] = mem[g]
      BY <2>2 DEF NoChangeForgotten, WillBeSaved, Known
    <3>2. m # l
      BY <3>1, <2>2
    <3> QED BY <3>1, <3>2 DEF WillBeSaved, SaveTypeOK
  <2> QED BY <2>1, <2>2
<1> QED BY <1>1, <1>3, <1>4, <1>6, <1>7

\* After a restart memory is what was on disk.
LEMMA ReloadKeepsInv == SaveInv /\ reload => SaveInv'
BY SaveAssumption DEF reload, SaveInv, SaveTypeOK, Exclusive, Assigned, StaleIsKnown,
   NoChangeForgotten, Known, WillBeSaved, Busy

\* Every step keeps the invariant.
LEMMA SaveNextInv == SaveInv /\ [SaveNext]_saveVars => SaveInv'
<1> SUFFICES ASSUME SaveInv, [SaveNext]_saveVars PROVE SaveInv'
  OBVIOUS
<1>1. CASE \E w \in Writer : mark(w) \/ \E f \in File : put(w, f, mem'[f])
  BY <1>1, MarkKeepsInv, PutKeepsInv
<1>2. CASE \E l \in Loop : Drain(l) \/ SaveFile(l)
  BY <1>2, DrainKeepsInv, SnapshotKeepsInv, WriteKeepsInv, WriteFailsKeepsInv DEF SaveFile
<1>3. CASE reload
  BY <1>3, ReloadKeepsInv
<1>4. CASE UNCHANGED saveVars
  BY <1>4 DEF saveVars, SaveInv, SaveTypeOK, Exclusive, Assigned, StaleIsKnown,
     NoChangeForgotten, Known, WillBeSaved, Busy
<1> QED BY <1>1, <1>2, <1>3, <1>4 DEF SaveNext

(* The saving alone, whatever is mutated: a change that is not on disk yet  *)
(* is never forgotten (kv.rs flush_dirty, queue_kv.rs save_loop).           *)
THEOREM NothingForgotten == SaveSpec => []NoChangeForgotten
<1>1. SaveInv => NoChangeForgotten
  BY DEF SaveInv
<1> QED BY <1>1, SaveInitInv, SaveNextInv, PTL DEF SaveSpec

----------------------------------------------------------------------------
(* The queue: scripts are made of store operations, so that each step of a   *)
(* task is a mutation of one file.                                          *)
Lists == {"waiting", "active", "dlq"}
StoreOp == {o \in Op : o.op \in {"push", "lrem", "none"} => o.k \in Lists}
ScriptsOK == script \in [Writer -> Seq(StoreOp)] /\ hand \in Jobs \cup {0}

\* The operations the queue issues are operations of the store.
LEMMA OpsAreOps ==
    ASSUME NEW q \in Queue, NEW j \in Jobs
    PROVE  /\ set_job(q, j) \in StoreOp /\ delete_job(q, j) \in StoreOp
           /\ zadd(q, j) \in StoreOp /\ zrem(q, j) \in StoreOp
           /\ \A k \in Lists :
                push(q, k, j) \in StoreOp /\ lrem(q, k, j) \in StoreOp /\ lremAll(q, k, j) \in StoreOp
BY DEF StoreOp, Op, Lists, set_job, delete_job, zadd, zrem, push, lrem, lremAll

\* Every operation is of one file.
LEMMA OpsHaveFiles == \A o \in StoreOp : file(o) \in File
BY FilesAssumption DEF StoreOp, Op, file, Records

\* The two writers.
LEMMA Engine == "engine" \in Writer /\ "producer" \in Writer
BY FilesAssumption

\* A new script is a sequence of operations.
LEMMA BeginScript ==
    ASSUME ScriptsOK, NEW w \in Writer, NEW ops \in Seq(StoreOp), begin(w, ops)
    PROVE  script' \in [Writer -> Seq(StoreOp)]
BY DEF ScriptsOK, begin

(* The passes of make_adapter. *)
LEMMA BootScripts ==
    ASSUME ScriptsOK,
           \/ NextPass \/ \E r \in Records : RebuildOne(r)
           \/ \E j \in Jobs : MigrateListed(j) \/ MigrateDelayed(j) \/ MigrateDlq(j)
    PROVE  ScriptsOK' /\ UNCHANGED saveVars
<1>q. "old" \in Queue /\ "new" \in Queue
  BY DEF Queue
<1>1. CASE NextPass
  BY <1>1 DEF NextPass, ScriptsOK
<1>2. ASSUME NEW r \in Records, RebuildOne(r) PROVE ScriptsOK' /\ UNCHANGED saveVars
  <2>1. r[1] \in Queue /\ r[2] \in Jobs
    BY DEF Records
  <2>2. <<push(r[1], "waiting", r[2])>> \in Seq(StoreOp) /\ <<zadd(r[1], r[2])>> \in Seq(StoreOp)
    BY <2>1, OpsAreOps DEF Lists
  <2>3. script' \in [Writer -> Seq(StoreOp)]
    BY <1>2, <2>2, BeginScript, Engine DEF RebuildOne
  <2> QED BY <1>2, <2>3 DEF RebuildOne, ScriptsOK
<1>3. \A j \in Jobs : move_job_record(j) \in Seq(StoreOp)
  BY <1>q, OpsAreOps DEF move_job_record
<1>4. ASSUME NEW j \in Jobs, MigrateListed(j) PROVE ScriptsOK' /\ UNCHANGED saveVars
  <2> DEFINE ops == <<lremAll("new", "waiting", j), push("new", "waiting", j),
                      lremAll("old", phase, j)>>
  <2>1. phase \in {"waiting", "active", "dlq"}
    BY <1>4 DEF MigrateListed
  <2>2. ops \in Seq(StoreOp)
    BY <2>1, <1>q, OpsAreOps DEF Lists
  <2>3. move_job_record(j) \o ops \in Seq(StoreOp)
    BY <1>3, <2>2
  <2>4. script' \in [Writer -> Seq(StoreOp)]
    BY <1>4, <2>3, BeginScript, Engine DEF MigrateListed
  <2> QED BY <1>4, <2>4 DEF MigrateListed, ScriptsOK
<1>5. ASSUME NEW j \in Jobs, MigrateDelayed(j) PROVE ScriptsOK' /\ UNCHANGED saveVars
  <2> DEFINE ops == <<zrem("new", j), zadd("new", j), zrem("old", j)>>
  <2>2. ops \in Seq(StoreOp)
    BY <1>q, OpsAreOps DEF Lists
  <2>3. move_job_record(j) \o ops \in Seq(StoreOp)
    BY <1>3, <2>2
  <2>4. script' \in [Writer -> Seq(StoreOp)]
    BY <1>5, <2>3, BeginScript, Engine DEF MigrateDelayed
  <2> QED BY <1>5, <2>4 DEF MigrateDelayed, ScriptsOK
<1>6. ASSUME NEW j \in Jobs, MigrateDlq(j) PROVE ScriptsOK' /\ UNCHANGED saveVars
  <2>2. <<lremAll("new", "dlq", j), push("new", "dlq", j), lremAll("old", "dlq", j)>> \in Seq(StoreOp)
    BY <1>q, OpsAreOps DEF Lists
  <2>4. script' \in [Writer -> Seq(StoreOp)]
    BY <1>6, <2>2, BeginScript, Engine DEF MigrateDlq
  <2> QED BY <1>6, <2>4 DEF MigrateDlq, ScriptsOK
<1> QED BY <1>1, <1>2, <1>4, <1>5, <1>6

(* The producer and the consumer. *)
LEMMA ConsumeScript ==
    ASSUME ScriptsOK, NEW ops \in Seq(StoreOp), NEW j, consume(ops, j)
    PROVE  script' \in [Writer -> Seq(StoreOp)] /\ UNCHANGED saveVars
<1>1. script' \in [Writer -> Seq(StoreOp)]
  BY BeginScript, Engine DEF consume
<1> QED BY <1>1 DEF consume

\* Producing, consuming and settling issue scripts and save nothing.
LEMMA UseScripts ==
    ASSUME ScriptsOK,
           \/ \E j \in Jobs : Push(j) \/ MoveDelayed(j) \/ Pop(j)
           \/ PopMissing \/ Ack \/ Nack
    PROVE  ScriptsOK' /\ UNCHANGED saveVars
<1>q. "new" \in Queue
  BY DEF Queue
<1>1. ASSUME NEW j \in Jobs, Push(j) PROVE ScriptsOK' /\ UNCHANGED saveVars
  <2>1. <<set_job("new", j), push("new", "waiting", j)>> \in Seq(StoreOp)
    BY <1>q, OpsAreOps DEF Lists
  <2>2. script' \in [Writer -> Seq(StoreOp)]
    BY <1>1, <2>1, BeginScript, Engine DEF Push
  <2> QED BY <1>1, <2>2 DEF Push, ScriptsOK
<1>2. ASSUME NEW j \in Jobs, MoveDelayed(j) PROVE ScriptsOK' /\ UNCHANGED saveVars
  <2>1. <<zrem("new", j), push("new", "waiting", j)>> \in Seq(StoreOp)
    BY <1>q, OpsAreOps DEF Lists
  <2>2. script' \in [Writer -> Seq(StoreOp)] /\ UNCHANGED saveVars
    BY <1>2, <2>1, ConsumeScript DEF MoveDelayed
  <2> QED BY <1>2, <2>2 DEF MoveDelayed, ScriptsOK
<1>3. ASSUME NEW j \in Jobs, Pop(j) PROVE ScriptsOK' /\ UNCHANGED saveVars
  <2>1. <<lrem("new", "waiting", j), push("new", "active", j)>> \in Seq(StoreOp)
    BY <1>q, OpsAreOps DEF Lists
  <2>2. script' \in [Writer -> Seq(StoreOp)] /\ UNCHANGED saveVars
    BY <1>3, <2>1, ConsumeScript DEF Pop
  <2> QED BY <1>3, <2>2 DEF Pop, ScriptsOK
<1>4. CASE PopMissing
  <2>1. <<>> \in Seq(StoreOp)
    OBVIOUS
  <2>2. script' \in [Writer -> Seq(StoreOp)] /\ UNCHANGED saveVars
    BY <1>4, <2>1, ConsumeScript DEF PopMissing
  <2> QED BY <1>4, <2>2 DEF PopMissing, ScriptsOK
<1>5. CASE Ack
  <2>0. hand \in Jobs
    BY <1>5 DEF Ack, ScriptsOK
  <2>1. <<lrem("new", "active", hand), delete_job("new", hand)>> \in Seq(StoreOp)
    BY <2>0, <1>q, OpsAreOps DEF Lists
  <2>2. script' \in [Writer -> Seq(StoreOp)] /\ UNCHANGED saveVars
    BY <1>5, <2>1, ConsumeScript DEF Ack
  <2> QED BY <1>5, <2>2 DEF Ack, ScriptsOK
<1>6. CASE Nack
  <2> DEFINE retry == <<set_job("new", hand), zadd("new", hand)>>
             dead  == <<push("new", "dlq", hand), delete_job("new", hand)>>
             first == <<lrem("new", "active", hand)>>
  <2>0. hand \in Jobs
    BY <1>6 DEF Nack, ScriptsOK
  <2>1. first \in Seq(StoreOp) /\ retry \in Seq(StoreOp) /\ dead \in Seq(StoreOp)
    BY <2>0, <1>q, OpsAreOps DEF Lists
  <2>2. first \o retry \in Seq(StoreOp) /\ first \o dead \in Seq(StoreOp)
    BY <2>1
  <2>3. consume(first \o retry, hand) \/ consume(first \o dead, hand)
    BY <1>6 DEF Nack
  <2>4. script' \in [Writer -> Seq(StoreOp)] /\ UNCHANGED saveVars
    BY <2>2, <2>3, ConsumeScript
  <2> QED BY <1>6, <2>4 DEF Nack, ScriptsOK
<1> QED BY <1>1, <1>2, <1>3, <1>4, <1>5, <1>6

\* One operation of a script is one write, or one mark.
LEMMA StoreStepSaves ==
    ASSUME ScriptsOK, SaveTypeOK, NEW w \in Writer, StoreStep(w)
    PROVE  ScriptsOK' /\ [SaveNext]_saveVars
<1> DEFINE o == Head(script[w])
<1>1. script[w] \in Seq(StoreOp) /\ script[w] # <<>>
  BY DEF ScriptsOK, StoreStep
<1>2. o \in StoreOp /\ Tail(script[w]) \in Seq(StoreOp)
  BY <1>1
<1>3. ScriptsOK'
  BY <1>2 DEF ScriptsOK, StoreStep
<1>4. CASE Absent(o)
  BY <1>3, <1>4 DEF StoreStep
<1>5. CASE ~Absent(o)
  <2>1. put(w, file(o), outcome(o)) /\ file(o) \in File
    BY <1>2, <1>5, OpsHaveFiles DEF StoreStep
  <2>2. mem'[file(o)] = outcome(o)
    BY <2>1 DEF put, SaveTypeOK
  <2>3. put(w, file(o), mem'[file(o)])
    BY <2>1, <2>2 DEF put
  <2> QED BY <1>3, <2>1, <2>3 DEF SaveNext
<1> QED BY <1>4, <1>5

(* The persistent queue implements the saving of WriteBehind: every step is   *)
(* one of its steps, or changes neither memory, nor files, nor marks.       *)
LEMMA NextSaves ==
    ASSUME ScriptsOK, SaveTypeOK, [Next]_vars
    PROVE  ScriptsOK' /\ [SaveNext]_saveVars
<1>1. CASE EngineStep
  BY <1>1, BootScripts, UseScripts DEF EngineStep
<1>2. CASE \E j \in Jobs : Push(j)
  BY <1>2, UseScripts
<1>3. ASSUME NEW w \in Writer, Mark(w) PROVE ScriptsOK' /\ [SaveNext]_saveVars
  BY <1>3 DEF Mark, queueVars, ScriptsOK, SaveNext
<1>4. ASSUME NEW l \in Loop, Tick(l) \/ Save(l) PROVE ScriptsOK' /\ [SaveNext]_saveVars
  BY <1>4 DEF Tick, Save, queueVars, ScriptsOK, SaveNext
<1>5. CASE Crash
  <2>1. [w \in Writer |-> <<>>] \in [Writer -> Seq(StoreOp)]
    OBVIOUS
  <2> QED BY <1>5, <2>1 DEF Crash, started, ScriptsOK, SaveNext
<1>6. CASE UNCHANGED vars
  BY <1>6 DEF vars, queueVars, ScriptsOK
<1> QED BY <1>1, <1>2, <1>3, <1>4, <1>5, <1>6, StoreStepSaves DEF Next

\* The queue starts as the store does.
LEMMA InitSaves == Init => ScriptsOK /\ SaveInit
<1>1. [w \in Writer |-> <<>>] \in [Writer -> Seq(StoreOp)]
  OBVIOUS
<1> QED BY <1>1 DEF Init, ScriptsOK

(* Whatever the queue does and whenever it crashes, its saving is the one    *)
(* that WriteBehind specifies.                                              *)
THEOREM SavesAsSpecified == Spec => SaveSpec
<1>1. ScriptsOK /\ SaveInv /\ [Next]_vars => (ScriptsOK /\ SaveInv)' /\ [SaveNext]_saveVars
  BY NextSaves, SaveNextInv DEF SaveInv
<1>2. Init => ScriptsOK /\ SaveInv /\ SaveInit
  BY InitSaves, SaveInitInv
<1> QED BY <1>1, <1>2, PTL DEF Spec, SaveSpec

(* A change that is not on disk yet is never forgotten while the queue is    *)
(* drained, used and restarted.                                             *)
THEOREM QueueForgetsNothing == Spec => []NoChangeForgotten
BY SavesAsSpecified, NothingForgotten, PTL

-----------------------------------------------------------------------------
(* What the files restore. *)

(* The versions of a file: in memory, on disk, and in the hands of a loop. *)
Versions(f) == {mem[f], disk[f]} \cup {snap[l] : l \in {m \in Loop : saving[m] = f}}

Fits(f, v) ==
    /\ f = ListsFile => v \in [ListKey -> [Jobs -> Nat]]
    /\ f = SetsFile => v \in [Queue -> SUBSET Jobs]
    /\ f \in Records => v \in BOOLEAN
Contents == \A f \in File : \A v \in Versions(f) : Fits(f, v)

\* The files are told apart.
LEMMA FileFacts ==
    /\ ListsFile \in File /\ SetsFile \in File /\ ListsFile # SetsFile
    /\ \A q \in Queue, j \in Jobs : /\ <<q, j>> \in File /\ <<q, j>> \in Records
                                    /\ <<q, j>> # ListsFile /\ <<q, j>> # SetsFile
<1>1. ListsFile[1] = "lists" /\ SetsFile[1] = "zsets"
  BY DEF ListsFile, SetsFile
<1>2. \A q \in Queue : \A j : <<q, j>>[1] = q /\ q # "lists" /\ q # "zsets"
  BY DEF Queue
<1>3. \A q \in Queue, j \in Jobs : <<q, j>> # ListsFile /\ <<q, j>> # SetsFile
  BY <1>1, <1>2
<1> QED BY <1>1, <1>3, FilesAssumption DEF Records

\* Saving makes no version of a file but from what is in memory.
LEMMA VersionsStep ==
    ASSUME SaveTypeOK, [SaveNext]_saveVars, NEW f \in File
    PROVE  Versions(f)' \subseteq Versions(f) \cup {mem'[f]}
<1> SUFFICES ASSUME NEW l \in Loop, saving'[l] = f
             PROVE  snap'[l] \in Versions(f) \cup {mem'[f]}
  <2>1. disk'[f] \in Versions(f)
    <3>1. CASE \E l \in Loop : Write(l)
      <4>1. PICK l \in Loop : Write(l)
        BY <3>1
      <4>2. disk'[f] = IF f = saving[l] THEN snap[l] ELSE disk[f]
        BY <4>1 DEF Write, SaveTypeOK
      <4> QED BY <4>2 DEF Versions
    <3>2. CASE UNCHANGED disk
      BY <3>2 DEF Versions
    <3> QED BY <3>1, <3>2 DEF SaveNext, saveVars, mark, put, Drain, SaveFile, Snapshot, WriteFails, reload
  <2> QED BY <2>1 DEF Versions
<1>1. CASE UNCHANGED <<saving, snap>>
  BY <1>1 DEF Versions
<1>2. CASE reload
  BY <1>2, SaveAssumption DEF reload
<1>3. ASSUME NEW m \in Loop, NEW g \in File, Snapshot(m, g)
      PROVE  snap'[l] \in Versions(f) \cup {mem'[f]}
  BY <1>3 DEF Snapshot, SaveTypeOK, Versions
<1>4. ASSUME NEW m \in Loop, Write(m) \/ WriteFails(m)
      PROVE  snap'[l] \in Versions(f) \cup {mem'[f]}
  BY <1>4, SaveAssumption DEF Write, WriteFails, endSave, SaveTypeOK, Versions
<1> QED BY <1>1, <1>2, <1>3, <1>4 DEF SaveNext, saveVars, mark, put, Drain, SaveFile

\* What is in memory is of the type of its file.
LEMMA MemFits ==
    ASSUME Contents
    PROVE  /\ mem[ListsFile] \in [ListKey -> [Jobs -> Nat]] /\ mem[SetsFile] \in [Queue -> SUBSET Jobs]
           /\ \A q \in Queue, j \in Jobs : mem[<<q, j>>] \in BOOLEAN
           /\ \A q \in Queue, k \in Lists, j \in Jobs : <<q, k>> \in ListKey /\ count(mem, q, k, j) \in Nat
<1>1. \A f \in File : Fits(f, mem[f])
  BY DEF Contents, Versions
<1>2. mem[ListsFile] \in [ListKey -> [Jobs -> Nat]] /\ mem[SetsFile] \in [Queue -> SUBSET Jobs]
  BY <1>1, FileFacts DEF Fits
<1>3. \A q \in Queue, j \in Jobs : mem[<<q, j>>] \in BOOLEAN
  BY <1>1, FileFacts DEF Fits
<1>4. \A q \in Queue, k \in Lists : <<q, k>> \in ListKey
  BY DEF ListKey, Lists
<1> QED BY <1>2, <1>3, <1>4 DEF count

(* What an operation does to the lists, the sets and the records. *)
ListOps == {"push", "lrem", "none"}
counted(o, n) == IF o.op = "push" THEN n + 1 ELSE IF o.op = "lrem" THEN less(n) ELSE 0

\* An operation on a list changes the count of one job in one list.
LEMMA OpOnLists ==
    ASSUME Contents, SaveTypeOK, NEW w \in Writer, StoreStep(w), NEW o \in StoreOp, o = Head(script[w]),
           NEW q \in Queue, NEW k \in Lists, NEW i \in Jobs
    PROVE  count(mem', q, k, i) = IF o.op \in ListOps /\ o.q = q /\ o.k = k /\ o.j = i
                                  THEN counted(o, count(mem, q, k, i)) ELSE count(mem, q, k, i)
<1>1. /\ mem[ListsFile] \in [ListKey -> [Jobs -> Nat]] /\ <<q, k>> \in ListKey
      /\ count(mem, q, k, i) \in Nat
  BY MemFits
<1>2. o.q \in Queue /\ o.j \in Jobs /\ o.op \in {"set", "del", "push", "lrem", "none", "zadd", "zrem"}
      /\ (o.op \in ListOps => o.k \in Lists)
  BY DEF StoreOp, Op, ListOps
<1>3. o.op \in ListOps => file(o) = ListsFile
  BY <1>2 DEF file, ListOps
<1>4. o.op \notin ListOps => file(o) # ListsFile
  <2>1. o.op \in {"set", "del"} => file(o) = <<o.q, o.j>>
    BY DEF file
  <2>2. o.op \in {"zadd", "zrem"} => file(o) = SetsFile
    BY DEF file
  <2> QED BY <1>2, <2>1, <2>2, FileFacts DEF ListOps
<1>5. CASE Absent(o)
  <2>1. mem' = mem
    BY <1>5 DEF StoreStep, saveVars
  <2>2. ASSUME o.op \in ListOps, o.q = q, o.k = k PROVE o.op # "push" /\ count(mem, q, k, i) = 0
    BY <1>5, <2>2 DEF Absent, ListOps
  <2> QED BY <2>1, <2>2 DEF counted, less, ListOps
<1>6. CASE ~Absent(o) /\ o.op \notin ListOps
  <2>1. put(w, file(o), outcome(o))
    BY <1>6 DEF StoreStep
  <2>2. mem'[ListsFile] = mem[ListsFile]
    BY <1>4, <1>6, <2>1, FileFacts DEF put, SaveTypeOK
  <2> QED BY <1>6, <2>2 DEF count
<1>7. CASE ~Absent(o) /\ o.op \in ListOps
  <2>1. put(w, ListsFile, outcome(o))
    BY <1>3, <1>7 DEF StoreStep
  <2>2. mem'[ListsFile] = outcome(o)
    BY <2>1, FileFacts DEF put, SaveTypeOK
  <2>3. PICK n : n = counted(o, count(mem, o.q, o.k, o.j))
    OBVIOUS
  <2>4. outcome(o) = edit(o.q, o.k, o.j, n)
    BY <1>7, <2>3 DEF outcome, counted, ListOps
  <2>5. mem'[ListsFile] = [mem[ListsFile] EXCEPT ![<<o.q, o.k>>][o.j] = n]
    BY <2>2, <2>4 DEF edit
  <2>6. <<o.q, o.k>> \in ListKey /\ (<<o.q, o.k>> = <<q, k>> <=> o.q = q /\ o.k = k)
    BY <1>2, <1>7, MemFits
  <2>7. mem'[ListsFile][<<q, k>>][i] = IF o.q = q /\ o.k = k /\ o.j = i THEN n ELSE mem[ListsFile][<<q, k>>][i]
    BY <1>1, <1>2, <2>5, <2>6
  <2> QED BY <1>7, <2>3, <2>7 DEF count
<1> QED BY <1>5, <1>6, <1>7

\* An operation on a sorted set adds or removes one job.
LEMMA OpOnSets ==
    ASSUME Contents, SaveTypeOK, NEW w \in Writer, StoreStep(w), NEW o \in StoreOp, o = Head(script[w]),
           NEW q \in Queue, NEW i \in Jobs
    PROVE  i \in mem'[SetsFile][q] <=> IF o.op \in {"zadd", "zrem"} /\ o.q = q /\ o.j = i
                                       THEN o.op = "zadd" ELSE i \in mem[SetsFile][q]
<1>1. mem[SetsFile] \in [Queue -> SUBSET Jobs]
  BY MemFits
<1>2. o.q \in Queue /\ o.j \in Jobs /\ o.op \in {"set", "del", "push", "lrem", "none", "zadd", "zrem"}
  BY DEF StoreOp, Op
<1>3. CASE Absent(o)
  <2>1. mem' = mem
    BY <1>3 DEF StoreStep, saveVars
  <2>2. o.op = "zrem" => o.j \notin mem[SetsFile][o.q]
    BY <1>3 DEF Absent
  <2>3. o.op # "zadd"
    BY <1>3 DEF Absent
  <2> QED BY <2>1, <2>2, <2>3
<1>4. CASE ~Absent(o) /\ o.op \notin {"zadd", "zrem"}
  <2>1. file(o) # SetsFile /\ put(w, file(o), outcome(o))
    <3>1. o.op \in {"set", "del"} => file(o) = <<o.q, o.j>>
      BY DEF file
    <3>2. o.op \notin {"set", "del"} => file(o) = ListsFile
      BY <1>4 DEF file
    <3> QED BY <1>2, <1>4, <3>1, <3>2, FileFacts DEF StoreStep
  <2>2. mem'[SetsFile] = mem[SetsFile]
    BY <2>1, FileFacts DEF put, SaveTypeOK
  <2> QED BY <1>4, <2>2
<1>5. CASE ~Absent(o) /\ o.op \in {"zadd", "zrem"}
  <2>1. file(o) = SetsFile
    BY <1>5 DEF file
  <2>2. mem'[SetsFile] = outcome(o)
    BY <1>5, <2>1, FileFacts DEF StoreStep, put, SaveTypeOK
  <2>3. outcome(o) = [mem[SetsFile] EXCEPT ![o.q] = IF o.op = "zadd" THEN @ \cup {o.j} ELSE @ \ {o.j}]
    BY <1>5 DEF outcome
  <2> QED BY <1>1, <1>2, <1>5, <2>2, <2>3
<1> QED BY <1>3, <1>4, <1>5

\* An operation on a record writes or deletes one.
LEMMA OpOnRecords ==
    ASSUME Contents, SaveTypeOK, NEW w \in Writer, StoreStep(w), NEW o \in StoreOp, o = Head(script[w]),
           NEW q \in Queue, NEW i \in Jobs
    PROVE  mem'[<<q, i>>] = IF o.op \in {"set", "del"} /\ o.q = q /\ o.j = i
                            THEN o.op = "set" ELSE mem[<<q, i>>]
<1>1. mem[<<q, i>>] \in BOOLEAN /\ <<q, i>> \in File /\ <<q, i>> # ListsFile /\ <<q, i>> # SetsFile
  BY MemFits, FileFacts
<1>2. o.q \in Queue /\ o.j \in Jobs
  BY DEF StoreOp, Op
<1>3. CASE Absent(o)
  <2>1. mem' = mem
    BY <1>3 DEF StoreStep, saveVars
  <2>2. o.op # "set" /\ (o.op = "del" => ~mem[<<o.q, o.j>>])
    BY <1>3 DEF Absent
  <2> QED BY <1>1, <2>1, <2>2
<1>4. CASE ~Absent(o) /\ o.op \notin {"set", "del"}
  <2>1. file(o) \in {ListsFile, SetsFile} /\ put(w, file(o), outcome(o))
    BY <1>4 DEF file, StoreStep
  <2>2. mem'[<<q, i>>] = mem[<<q, i>>]
    BY <1>1, <2>1 DEF put, SaveTypeOK
  <2> QED BY <1>4, <2>2
<1>5. CASE ~Absent(o) /\ o.op \in {"set", "del"}
  <2>1. file(o) = <<o.q, o.j>> /\ put(w, file(o), outcome(o)) /\ outcome(o) = (o.op = "set")
    BY <1>5 DEF file, outcome, StoreStep
  <2>2. mem'[<<q, i>>] = IF <<q, i>> = <<o.q, o.j>> THEN o.op = "set" ELSE mem[<<q, i>>]
    BY <1>1, <1>2, <2>1, FileFacts DEF put, SaveTypeOK
  <2> QED BY <1>5, <2>2
<1> QED BY <1>3, <1>4, <1>5

(* A job in memory: how often a list has it, whether a sorted set has it, and *)
(* whether it has a record.                                                  *)
Num(q, k, j) == count(mem, q, k, j)
InSet(q, j) == j \in mem[SetsFile][q]
Rec(q, j) == mem[<<q, j>>]

(* A job that has not been pushed is in no version of a file, and nobody is  *)
(* about to put it there.                                                    *)
Without(f, v, j) ==
    /\ f = ListsFile => \A l \in ListKey : v[l][j] = 0
    /\ f = SetsFile => \A q \in Queue : j \notin v[q]
    /\ f \in Queue \X {j} => ~v
Away(w, j) == \A n \in 1 .. Len(script[w]) : script[w][n].j # j
Unborn(j) ==
    /\ \A f \in File : \A v \in Versions(f) : Without(f, v, j)
    /\ \A w \in Writer : Away(w, j)
    /\ \A q \in Queue : <<q, j>> \notin work
    /\ hand # j /\ j \notin kept
Unpushed == \A j \in Fresh \ pushed : Unborn(j)

(* A script is about one job. *)
OneJob == \A w \in Writer : \A m, n \in 1 .. Len(script[w]) : script[w][m].j = script[w][n].j

(* A job is listed in one kind of place, once in the new queue, and has its  *)
(* record where the engine will look for it.                                 *)
Live(j) == Num("old", "waiting", j) > 0 \/ Num("old", "active", j) > 0 \/ Num("new", "waiting", j) = 1
Late(j) == InSet("old", j) \/ InSet("new", j)
Dead(j) == Num("old", "dlq", j) > 0 \/ Num("new", "dlq", j) > 0
Single(j) ==
    /\ Num("new", "waiting", j) <= 1 /\ Num("new", "dlq", j) <= 1
    /\ Live(j) \/ Late(j) \/ Dead(j)
    /\ ~(Live(j) /\ Late(j)) /\ ~(Live(j) /\ Dead(j)) /\ ~(Late(j) /\ Dead(j))
Left(j) == InSet("old", j) \/ Num("old", "waiting", j) > 0 \/ Num("old", "active", j) > 0
Held(j) == Single(j) /\ (j \in kept => Dead(j) \/ Rec("new", j) \/ (Rec("old", j) /\ Left(j)))

(* The kind of place in which every version of the files has a job of the    *)
(* old queue that no consumer has touched.                                   *)
ListedAs(kind, v, j) ==
    /\ kind = "waiting" =>
          /\ v[<<"old", "waiting">>][j] > 0 \/ v[<<"old", "active">>][j] > 0 \/ v[<<"new", "waiting">>][j] = 1
          /\ v[<<"new", "waiting">>][j] <= 1
    /\ kind # "waiting" =>
          v[<<"old", "waiting">>][j] = 0 /\ v[<<"old", "active">>][j] = 0 /\ v[<<"new", "waiting">>][j] = 0
    /\ kind = "dead" =>
          (v[<<"old", "dlq">>][j] > 0 \/ v[<<"new", "dlq">>][j] = 1) /\ v[<<"new", "dlq">>][j] <= 1
    /\ kind # "dead" => v[<<"old", "dlq">>][j] = 0 /\ v[<<"new", "dlq">>][j] = 0
SetAs(kind, v, j) == kind = "delayed" <=> j \in v["old"] \/ j \in v["new"]
Steady(kind, j) ==
    /\ \A v \in Versions(ListsFile) : ListedAs(kind, v, j)
    /\ \A v \in Versions(SetsFile) : SetAs(kind, v, j)
Kinds == \A j \in legacy \ touched : \E kind \in {"waiting", "delayed", "dead"} : Steady(kind, j)

(* A pass of the drain: it clears the place in the new queue, adds the job    *)
(* there, and drops it from the old one.                                     *)
Passes == {"waiting", "active", "delayed", "dlq"}
into(k) == IF k = "dlq" THEN "dlq" ELSE "waiting"
clear(k, j) == IF k = "delayed" THEN zrem("new", j) ELSE lremAll("new", into(k), j)
add(k, j) == IF k = "delayed" THEN zadd("new", j) ELSE push("new", into(k), j)
drop(k, j) == IF k = "delayed" THEN zrem("old", j) ELSE lremAll("old", k, j)
OldAt(k, j) == IF k = "delayed" THEN InSet("old", j) ELSE Num("old", k, j) > 0
Gone(k, j) == IF k = "delayed" THEN ~InSet("new", j) ELSE Num("new", into(k), j) = 0
Once1(k, j) == IF k = "delayed" THEN InSet("new", j) ELSE Num("new", into(k), j) = 1
Moved(k, j) == k # "dlq" /\ j \in kept => Rec("new", j)

Moving(k, j) ==
    /\ <<"old", j>> \notin work
    /\ LET s == script["engine"] IN
       \/ /\ s = <<set_job("new", j), delete_job("old", j), clear(k, j), add(k, j), drop(k, j)>>
          /\ OldAt(k, j) /\ k # "dlq"
       \/ /\ s = <<delete_job("old", j), clear(k, j), add(k, j), drop(k, j)>>
          /\ OldAt(k, j) /\ k # "dlq" /\ Rec("new", j)
       \/ s = <<clear(k, j), add(k, j), drop(k, j)>> /\ OldAt(k, j) /\ Moved(k, j)
       \/ s = <<add(k, j), drop(k, j)>> /\ OldAt(k, j) /\ Gone(k, j) /\ Moved(k, j)
       \/ s = <<drop(k, j)>> /\ Once1(k, j) /\ Moved(k, j)

Passed(p, j) ==
    /\ p \in {"active", "delayed", "dlq", "run"} => Num("old", "waiting", j) = 0
    /\ p \in {"delayed", "dlq", "run"} => Num("old", "active", j) = 0
    /\ p \in {"dlq", "run"} => ~InSet("old", j)
    /\ p = "run" => Num("old", "dlq", j) = 0
Turn(k, j) == Moving(k, j) \/ (Away("engine", j) /\ (OldAt(k, j) <=> <<"old", j>> \in work))

(* Without lists, a record is listed again. *)
Blank(j) ==
    /\ Num("old", "waiting", j) = 0 /\ Num("old", "active", j) = 0 /\ Num("old", "dlq", j) = 0
    /\ Num("new", "waiting", j) = 0 /\ Num("new", "dlq", j) = 0 /\ ~InSet("old", j) /\ ~InSet("new", j)
Settled(j) == Held(j) /\ Away("engine", j) /\ \A q \in Queue : <<q, j>> \notin work
Unlisted(j) ==
    /\ j \notin legacy \ touched /\ Blank(j) /\ Away("engine", j) /\ Rec("old", j) # Rec("new", j)
    /\ \A q \in Queue : <<q, j>> \in work <=> Rec(q, j)
Relisting(j) ==
    /\ j \notin legacy \ touched /\ Blank(j) /\ \A q \in Queue : <<q, j>> \notin work
    /\ \E q \in Queue : Rec(q, j) /\ script["engine"] \in {<<push(q, "waiting", j)>>, <<zadd(q, j)>>}
Relisted(j) == Settled(j) \/ Unlisted(j) \/ Relisting(j)

Tracked == kept \cup (legacy \ touched)
Carried(j) ==
    /\ phase = "rebuild" => Relisted(j)
    /\ phase \in Passes => Held(j) /\ Passed(phase, j) /\ Turn(phase, j)
    /\ phase = "run" => Held(j) /\ Passed("run", j) /\ \A w \in Writer : Away(w, j)
Boot ==
    /\ phase \in {"rebuild", "run"} \cup Passes
    /\ phase # "run" => script["producer"] = <<>>
    /\ work \subseteq Records
    /\ kept \subseteq Jobs /\ legacy \subseteq Legacy
QueueInv == Contents /\ ScriptsOK /\ Boot /\ OneJob /\ Unpushed /\ Kinds /\ \A j \in Tracked : Carried(j)

-----------------------------------------------------------------------------
(* What a step changes. *)

\* What an operation does to a job in memory.
LEMMA OpEffect ==
    ASSUME Contents, SaveTypeOK, NEW w \in Writer, StoreStep(w), NEW o \in StoreOp, o = Head(script[w]),
           NEW i \in Jobs
    PROVE  /\ \A q \in Queue, k \in Lists :
                 Num(q, k, i)' = IF o.op \in ListOps /\ o.q = q /\ o.k = k /\ o.j = i
                                 THEN counted(o, Num(q, k, i)) ELSE Num(q, k, i)
           /\ \A q \in Queue :
                 InSet(q, i)' <=> IF o.op \in {"zadd", "zrem"} /\ o.q = q /\ o.j = i
                                  THEN o.op = "zadd" ELSE InSet(q, i)
           /\ \A q \in Queue :
                 Rec(q, i)' = IF o.op \in {"set", "del"} /\ o.q = q /\ o.j = i
                              THEN o.op = "set" ELSE Rec(q, i)
<1>1. ASSUME NEW q \in Queue, NEW k \in Lists
      PROVE  Num(q, k, i)' = IF o.op \in ListOps /\ o.q = q /\ o.k = k /\ o.j = i
                             THEN counted(o, Num(q, k, i)) ELSE Num(q, k, i)
  <2>1. Num(q, k, i) = count(mem, q, k, i) /\ Num(q, k, i)' = count(mem', q, k, i)
    BY DEF Num, count
  <2> QED BY <2>1, OpOnLists
<1>2. ASSUME NEW q \in Queue
      PROVE  InSet(q, i)' <=> IF o.op \in {"zadd", "zrem"} /\ o.q = q /\ o.j = i
                              THEN o.op = "zadd" ELSE InSet(q, i)
  BY OpOnSets DEF InSet
<1>3. ASSUME NEW q \in Queue
      PROVE  Rec(q, i)' = IF o.op \in {"set", "del"} /\ o.q = q /\ o.j = i THEN o.op = "set" ELSE Rec(q, i)
  BY OpOnRecords DEF Rec
<1> QED BY <1>1, <1>2, <1>3

(* Nothing of the job changes in memory. *)
Same(i) ==
    /\ \A q \in Queue, k \in Lists : Num(q, k, i)' = Num(q, k, i)
    /\ \A q \in Queue : (InSet(q, i)' <=> InSet(q, i)) /\ Rec(q, i)' = Rec(q, i)

\* An operation is about no other job.
LEMMA OpElsewhere ==
    ASSUME Contents, SaveTypeOK, NEW w \in Writer, StoreStep(w), NEW o \in StoreOp, o = Head(script[w]),
           NEW i \in Jobs, o.j # i
    PROVE  Same(i)
BY OpEffect DEF Same

\* Memory that stays.
LEMMA MemSame == ASSUME UNCHANGED mem, NEW i PROVE Same(i)
BY DEF Same, Num, InSet, Rec, count

\* A step of a script takes its first operation off.
LEMMA ScriptHead ==
    ASSUME ScriptsOK, NEW w \in Writer, StoreStep(w)
    PROVE  /\ Head(script[w]) \in StoreOp /\ 1 \in 1 .. Len(script[w]) /\ Head(script[w]) = script[w][1]
           /\ script'[w] = Tail(script[w]) /\ Len(script'[w]) = Len(script[w]) - 1
           /\ \A n \in 1 .. Len(script'[w]) : n + 1 \in 1 .. Len(script[w]) /\ script'[w][n] = script[w][n + 1]
           /\ \A v \in Writer : v # w => script'[v] = script[v]
<1>1. script[w] \in Seq(StoreOp) /\ script[w] # <<>>
  BY DEF ScriptsOK, StoreStep
<1>2. script' = [script EXCEPT ![w] = Tail(script[w])] /\ script \in [Writer -> Seq(StoreOp)]
  BY DEF ScriptsOK, StoreStep
<1>3. script'[w] = Tail(script[w]) /\ \A v \in Writer : v # w => script'[v] = script[v]
  BY <1>2
<1>4. PICK s \in Seq(StoreOp) : s = script[w] /\ s # <<>>
  BY <1>1
<1>5. /\ Head(s) \in StoreOp /\ 1 \in 1 .. Len(s) /\ Head(s) = s[1] /\ Len(Tail(s)) = Len(s) - 1
      /\ \A n \in 1 .. Len(Tail(s)) : n + 1 \in 1 .. Len(s) /\ Tail(s)[n] = s[n + 1]
  BY <1>4
<1> QED BY <1>3, <1>4, <1>5

\* What the operations leave is of the type of their files.
LEMMA OutcomeFits ==
    ASSUME Contents, NEW o \in StoreOp
    PROVE  Fits(file(o), outcome(o))
<1>0. /\ mem[ListsFile] \in [ListKey -> [Jobs -> Nat]] /\ mem[SetsFile] \in [Queue -> SUBSET Jobs]
      /\ \A q \in Queue, k \in Lists, j \in Jobs : <<q, k>> \in ListKey /\ count(mem, q, k, j) \in Nat
  BY MemFits
<1>1. o.q \in Queue /\ o.j \in Jobs /\ o.op \in {"set", "del", "push", "lrem", "none", "zadd", "zrem"}
      /\ (o.op \in ListOps => o.k \in Lists)
  BY DEF StoreOp, Op, ListOps
<1>2. CASE o.op \in {"set", "del"}
  <2>1. file(o) = <<o.q, o.j>> /\ outcome(o) \in BOOLEAN
    BY <1>2 DEF file, outcome
  <2> QED BY <1>1, <2>1, FileFacts DEF Fits
<1>3. CASE o.op \in {"zadd", "zrem"}
  <2>1. file(o) = SetsFile /\ outcome(o) \in [Queue -> SUBSET Jobs]
    BY <1>0, <1>1, <1>3 DEF file, outcome
  <2>2. SetsFile \notin Records /\ SetsFile # ListsFile
    BY FileFacts DEF Records
  <2> QED BY <2>1, <2>2 DEF Fits
<1>4. CASE o.op \in ListOps
  <2>1. file(o) = ListsFile
    BY <1>4 DEF file, ListOps
  <2>2. PICK n \in Nat : outcome(o) = edit(o.q, o.k, o.j, n)
    <3>1. count(mem, o.q, o.k, o.j) \in Nat
      BY <1>0, <1>1, <1>4
    <3>2. counted(o, count(mem, o.q, o.k, o.j)) \in Nat
      BY <3>1 DEF counted, less
    <3>3. outcome(o) = edit(o.q, o.k, o.j, counted(o, count(mem, o.q, o.k, o.j)))
      BY <1>4 DEF outcome, ListOps, counted
    <3> QED BY <3>2, <3>3
  <2>3. outcome(o) \in [ListKey -> [Jobs -> Nat]]
    BY <1>0, <1>1, <2>2, <1>4 DEF edit
  <2>4. ListsFile \notin Records /\ SetsFile # ListsFile
    BY FileFacts DEF Records
  <2> QED BY <2>1, <2>3, <2>4 DEF Fits
<1> QED BY <1>1, <1>2, <1>3, <1>4 DEF ListOps

\* Memory changes by an operation, or by a restart.
LEMMA MemMoves ==
    ASSUME ScriptsOK, SaveTypeOK, [Next]_vars
    PROVE  (\E w \in Writer : StoreStep(w)) \/ UNCHANGED mem \/ (Crash /\ mem' = disk /\ UNCHANGED disk)
<1>1. CASE EngineStep
  BY <1>1, BootScripts, UseScripts DEF EngineStep, saveVars
<1>2. CASE \E j \in Jobs : Push(j)
  BY <1>2, UseScripts DEF saveVars
<1>3. CASE \E w \in Writer : Mark(w)
  BY <1>3 DEF Mark, mark
<1>4. CASE \E l \in Loop : Tick(l) \/ Save(l)
  BY <1>4 DEF Tick, Save, Drain, SaveFile, Snapshot, Write, WriteFails
<1>5. CASE Crash
  BY <1>5 DEF Crash, reload
<1>6. CASE UNCHANGED vars
  BY <1>6 DEF vars, saveVars
<1> QED BY <1>1, <1>2, <1>3, <1>4, <1>5, <1>6 DEF Next

\* Every version of a file stays of its type.
LEMMA ContentsStep ==
    ASSUME Contents, ScriptsOK, SaveTypeOK, [Next]_vars
    PROVE  Contents'
<1>1. \A f \in File : Fits(f, mem'[f])
  <2> SUFFICES ASSUME NEW f \in File PROVE Fits(f, mem'[f])
    OBVIOUS
  <2>1. Fits(f, mem[f]) /\ Fits(f, disk[f])
    BY DEF Contents, Versions
  <2>2. ASSUME NEW w \in Writer, StoreStep(w) PROVE Fits(f, mem'[f])
    <3>1. PICK o \in StoreOp : o = Head(script[w])
      BY <2>2, ScriptHead
    <3>2. CASE Absent(o)
      BY <2>1, <2>2, <3>1, <3>2 DEF StoreStep, saveVars
    <3>3. CASE ~Absent(o)
      <4>1. put(w, file(o), outcome(o)) /\ file(o) \in File
        BY <2>2, <3>1, <3>3, OpsHaveFiles DEF StoreStep
      <4>2. mem'[f] = IF f = file(o) THEN outcome(o) ELSE mem[f]
        BY <4>1 DEF put, SaveTypeOK
      <4> QED BY <2>1, <4>2, OutcomeFits
    <3> QED BY <3>2, <3>3
  <2> QED BY <2>1, <2>2, MemMoves
<1>2. ASSUME NEW f \in File, NEW v \in Versions(f)' PROVE Fits(f, v)
  <2>1. v \in Versions(f) \cup {mem'[f]}
    BY NextSaves, VersionsStep
  <2> QED BY <1>1, <2>1 DEF Contents
<1> QED BY <1>2 DEF Contents, Fits

(* Task w begins a call that is about job i. *)
About(ops, i) == \A n \in 1 .. Len(ops) : ops[n].j = i
Issues(w, i) ==
    /\ UNCHANGED saveVars /\ script[w] = <<>>
    /\ \E ops \in Seq(StoreOp) : script' = [script EXCEPT ![w] = ops] /\ About(ops, i)

\* A call about one job after another about it.
LEMMA AboutBoth ==
    ASSUME NEW a \in Seq(StoreOp), NEW b \in Seq(StoreOp), NEW i, About(a, i), About(b, i)
    PROVE  About(a \o b, i) /\ a \o b \in Seq(StoreOp)
<1>1. \A n \in 1 .. Len(a \o b) : (a \o b)[n] = IF n <= Len(a) THEN a[n] ELSE b[n - Len(a)]
  OBVIOUS
<1>2. Len(a \o b) = Len(a) + Len(b) /\ Len(a) \in Nat /\ Len(b) \in Nat
  OBVIOUS
<1>3. ASSUME NEW n \in 1 .. Len(a \o b) PROVE (a \o b)[n].j = i
  <2>1. CASE n <= Len(a)
    BY <1>1, <1>2, <2>1 DEF About
  <2>2. CASE ~(n <= Len(a))
    <3>1. n - Len(a) \in 1 .. Len(b)
      BY <1>2, <2>2
    <3> QED BY <1>1, <2>2, <3>1 DEF About
  <2> QED BY <2>1, <2>2
<1> QED BY <1>3 DEF About

\* A call of no operation.
LEMMA AboutNone == \A i : <<>> \in Seq(StoreOp) /\ About(<<>>, i)
BY DEF About

\* A call of one operation.
LEMMA AboutOne ==
    ASSUME NEW i, NEW a \in StoreOp, a.j = i
    PROVE  <<a>> \in Seq(StoreOp) /\ About(<<a>>, i)
BY DEF About

\* A call of two.
LEMMA AboutTwo ==
    ASSUME NEW i, NEW a \in StoreOp, NEW b \in StoreOp, a.j = i, b.j = i
    PROVE  <<a, b>> \in Seq(StoreOp) /\ About(<<a, b>>, i)
BY DEF About

\* A call of three.
LEMMA AboutThree ==
    ASSUME NEW i, NEW a \in StoreOp, NEW b \in StoreOp, NEW c \in StoreOp, a.j = i, b.j = i, c.j = i
    PROVE  <<a, b, c>> \in Seq(StoreOp) /\ About(<<a, b, c>>, i)
BY DEF About

\* Whom an operation is about.
LEMMA OpsJob ==
    ASSUME NEW q, NEW j
    PROVE  /\ set_job(q, j).j = j /\ delete_job(q, j).j = j /\ zadd(q, j).j = j /\ zrem(q, j).j = j
           /\ \A k : push(q, k, j).j = j /\ lrem(q, k, j).j = j /\ lremAll(q, k, j).j = j
BY DEF set_job, delete_job, zadd, zrem, push, lrem, lremAll

\* A record is listed again by a call about its job.
LEMMA RebuildIssues ==
    ASSUME ScriptsOK, NEW r \in Records, RebuildOne(r)
    PROVE  Issues("engine", r[2])
<1>1. r[1] \in Queue /\ r[2] \in Jobs /\ "waiting" \in Lists
  BY DEF Records, Lists
<1>2. /\ push(r[1], "waiting", r[2]) \in StoreOp /\ push(r[1], "waiting", r[2]).j = r[2]
      /\ zadd(r[1], r[2]) \in StoreOp /\ zadd(r[1], r[2]).j = r[2]
  BY <1>1, OpsAreOps, OpsJob
<1>3. \A a \in StoreOp : a.j = r[2] => <<a>> \in Seq(StoreOp) /\ About(<<a>>, r[2])
  BY AboutOne
<1>4. \E ops \in Seq(StoreOp) : begin("engine", ops) /\ About(ops, r[2])
  BY <1>2, <1>3 DEF RebuildOne
<1> QED BY <1>4 DEF RebuildOne, Issues, begin, Idle

\* The drain moves a job by a call about it.
LEMMA MigrateIssues ==
    ASSUME ScriptsOK, NEW j \in Jobs, MigrateListed(j) \/ MigrateDelayed(j) \/ MigrateDlq(j)
    PROVE  Issues("engine", j)
<1>0. "old" \in Queue /\ "new" \in Queue
  BY DEF Queue
<1>1. move_job_record(j) \in Seq(StoreOp) /\ About(move_job_record(j), j)
  <2>1. /\ set_job("new", j) \in StoreOp /\ set_job("new", j).j = j
        /\ delete_job("old", j) \in StoreOp /\ delete_job("old", j).j = j
    BY <1>0, OpsAreOps, OpsJob
  <2>2. /\ <<set_job("new", j), delete_job("old", j)>> \in Seq(StoreOp)
        /\ About(<<set_job("new", j), delete_job("old", j)>>, j) /\ <<>> \in Seq(StoreOp) /\ About(<<>>, j)
    BY <2>1, AboutTwo, AboutNone
  <2> QED BY <2>2 DEF move_job_record
<1>2. CASE MigrateListed(j)
  <2> DEFINE ops == <<lremAll("new", "waiting", j), push("new", "waiting", j), lremAll("old", phase, j)>>
  <2>1. phase \in Lists /\ "waiting" \in Lists
    BY <1>2 DEF MigrateListed, Lists
  <2>2. /\ lremAll("new", "waiting", j) \in StoreOp /\ push("new", "waiting", j) \in StoreOp
        /\ lremAll("old", phase, j) \in StoreOp
    BY <1>0, <2>1, OpsAreOps
  <2>2a. lremAll("new", "waiting", j).j = j /\ push("new", "waiting", j).j = j /\ lremAll("old", phase, j).j = j
    BY DEF lremAll, push, zrem, zadd
  <2>3. ops \in Seq(StoreOp) /\ About(ops, j)
    BY <2>2, <2>2a, AboutThree
  <2>4. begin("engine", move_job_record(j) \o ops) /\ UNCHANGED saveVars
    BY <1>2 DEF MigrateListed
  <2> HIDE DEF ops
  <2>5. About(move_job_record(j) \o ops, j) /\ move_job_record(j) \o ops \in Seq(StoreOp)
    BY <1>1, <2>3, AboutBoth
  <2> QED BY <2>4, <2>5 DEF Issues, begin, Idle
<1>3. CASE MigrateDelayed(j)
  <2> DEFINE ops == <<zrem("new", j), zadd("new", j), zrem("old", j)>>
  <2>2. zrem("new", j) \in StoreOp /\ zadd("new", j) \in StoreOp /\ zrem("old", j) \in StoreOp
    BY <1>0, OpsAreOps
  <2>2a. zrem("new", j).j = j /\ zadd("new", j).j = j /\ zrem("old", j).j = j
    BY DEF lremAll, push, zrem, zadd
  <2>3. ops \in Seq(StoreOp) /\ About(ops, j)
    BY <2>2, <2>2a, AboutThree
  <2>4. begin("engine", move_job_record(j) \o ops) /\ UNCHANGED saveVars
    BY <1>3 DEF MigrateDelayed
  <2> HIDE DEF ops
  <2>5. About(move_job_record(j) \o ops, j) /\ move_job_record(j) \o ops \in Seq(StoreOp)
    BY <1>1, <2>3, AboutBoth
  <2> QED BY <2>4, <2>5 DEF Issues, begin, Idle
<1>4. CASE MigrateDlq(j)
  <2> DEFINE ops == <<lremAll("new", "dlq", j), push("new", "dlq", j), lremAll("old", "dlq", j)>>
  <2>2. lremAll("new", "dlq", j) \in StoreOp /\ push("new", "dlq", j) \in StoreOp /\ lremAll("old", "dlq", j) \in StoreOp
    BY <1>0, OpsAreOps DEF Lists
  <2>2a. lremAll("new", "dlq", j).j = j /\ push("new", "dlq", j).j = j /\ lremAll("old", "dlq", j).j = j
    BY DEF lremAll, push, zrem, zadd
  <2>3. ops \in Seq(StoreOp) /\ About(ops, j)
    BY <2>2, <2>2a, AboutThree
  <2>4. begin("engine", ops) /\ UNCHANGED saveVars
    BY <1>4 DEF MigrateDlq
  <2> HIDE DEF ops
  <2> QED BY <2>3, <2>4 DEF Issues, begin, Idle
<1> QED BY <1>2, <1>3, <1>4

\* A push is a call about the job.
LEMMA PushIssues ==
    ASSUME ScriptsOK, NEW j \in Jobs, Push(j)
    PROVE  Issues("producer", j)
<1>1. set_job("new", j) \in StoreOp /\ push("new", "waiting", j) \in StoreOp
  BY OpsAreOps DEF Queue, Lists
<1>2. <<set_job("new", j), push("new", "waiting", j)>> \in Seq(StoreOp)
      /\ About(<<set_job("new", j), push("new", "waiting", j)>>, j)
  BY <1>1, AboutTwo, OpsJob
<1> QED BY <1>2 DEF Push, Issues, begin, Idle

(* The consumer has touched i. *)
Consumes(i) ==
    /\ Issues("engine", i) /\ phase = "run" /\ touched' = touched \cup {i} /\ kept' = kept \ {i}
    /\ UNCHANGED <<phase, work, pushed, legacy>>

\* The consumer's calls.
LEMMA ConsumeIssues ==
    ASSUME NEW i, NEW ops \in Seq(StoreOp), About(ops, i), consume(ops, i)
    PROVE  Consumes(i)
BY DEF consume, Consumes, Issues, begin, Idle

\* The consumer's calls are about the job it takes, or has.
LEMMA UseConsumes ==
    ASSUME ScriptsOK
    PROVE  /\ \A j \in Jobs : MoveDelayed(j) \/ Pop(j) => Consumes(j)
           /\ PopMissing \/ Ack \/ Nack => \E h \in Jobs : h = hand /\ Consumes(h)
<1>0. \A j \in Jobs : /\ zrem("new", j) \in StoreOp /\ push("new", "waiting", j) \in StoreOp
                      /\ lrem("new", "waiting", j) \in StoreOp /\ push("new", "active", j) \in StoreOp
                      /\ lrem("new", "active", j) \in StoreOp /\ delete_job("new", j) \in StoreOp
                      /\ set_job("new", j) \in StoreOp /\ zadd("new", j) \in StoreOp /\ push("new", "dlq", j) \in StoreOp
  BY OpsAreOps DEF Queue, Lists
<1>1. ASSUME NEW j \in Jobs, MoveDelayed(j) PROVE Consumes(j)
  <2>1. <<zrem("new", j), push("new", "waiting", j)>> \in Seq(StoreOp)
        /\ About(<<zrem("new", j), push("new", "waiting", j)>>, j)
    BY <1>0, AboutTwo, OpsJob
  <2> QED BY <1>1, <2>1, ConsumeIssues DEF MoveDelayed
<1>2. ASSUME NEW j \in Jobs, Pop(j) PROVE Consumes(j)
  <2>1. <<lrem("new", "waiting", j), push("new", "active", j)>> \in Seq(StoreOp)
        /\ About(<<lrem("new", "waiting", j), push("new", "active", j)>>, j)
    BY <1>0, AboutTwo, OpsJob
  <2> QED BY <1>2, <2>1, ConsumeIssues DEF Pop
<1>3. ASSUME PopMissing PROVE \E h \in Jobs : h = hand /\ Consumes(h)
  <2>1. PICK h \in Jobs : h = hand
    BY <1>3 DEF PopMissing, ScriptsOK
  <2>2. consume(<<>>, h)
    BY <1>3, <2>1 DEF PopMissing
  <2>3. Consumes(h)
    BY <2>2, AboutNone, ConsumeIssues
  <2> QED BY <2>1, <2>3
<1>4. ASSUME Ack PROVE \E h \in Jobs : h = hand /\ Consumes(h)
  <2>1. PICK h \in Jobs : h = hand
    BY <1>4 DEF Ack, ScriptsOK
  <2>2. <<lrem("new", "active", h), delete_job("new", h)>> \in Seq(StoreOp)
        /\ About(<<lrem("new", "active", h), delete_job("new", h)>>, h)
    BY <1>0, AboutTwo, OpsJob
  <2>3. consume(<<lrem("new", "active", h), delete_job("new", h)>>, h)
    BY <1>4, <2>1 DEF Ack
  <2>4. Consumes(h)
    BY <2>2, <2>3, ConsumeIssues
  <2> QED BY <2>1, <2>4
<1>5. ASSUME Nack PROVE \E h \in Jobs : h = hand /\ Consumes(h)
  <2>1. PICK h \in Jobs : h = hand
    BY <1>5 DEF Nack, ScriptsOK
  <2> DEFINE retry == <<set_job("new", h), zadd("new", h)>>
             dead  == <<push("new", "dlq", h), delete_job("new", h)>>
             first == <<lrem("new", "active", h)>>
  <2>2. first \in Seq(StoreOp) /\ About(first, h)
    BY <1>0, AboutOne, OpsJob
  <2>3. retry \in Seq(StoreOp) /\ About(retry, h)
    BY <1>0, AboutTwo, OpsJob
  <2>4. dead \in Seq(StoreOp) /\ About(dead, h)
    BY <1>0, AboutTwo, OpsJob
  <2>5. consume(first \o retry, h) \/ consume(first \o dead, h)
    BY <1>5, <2>1 DEF Nack
  <2> HIDE DEF first, retry, dead
  <2>6. About(first \o retry, h) /\ first \o retry \in Seq(StoreOp)
    BY <2>2, <2>3, AboutBoth
  <2>7. About(first \o dead, h) /\ first \o dead \in Seq(StoreOp)
    BY <2>2, <2>4, AboutBoth
  <2>8. Consumes(h)
    BY <2>5, <2>6, <2>7, ConsumeIssues
  <2> QED BY <2>1, <2>8
<1> QED BY <1>1, <1>2, <1>3, <1>4, <1>5

-----------------------------------------------------------------------------
(* The kinds of step. *)

(* A mark, a tick or a write of a save loop. *)
Pause == UNCHANGED <<mem, phase, work, script, hand, pushed, legacy, kept, touched>>
Relists(i) == \E q \in Queue : RebuildOne(<<q, i>>) /\ Issues("engine", i)
Migrates(i) == (MigrateListed(i) \/ MigrateDelayed(i) \/ MigrateDlq(i)) /\ Issues("engine", i)
Pushes(i) == Push(i) /\ Issues("producer", i)
Uses(i) ==
    /\ Consumes(i) /\ (hand' = i \/ hand' = hand \/ hand' = 0)
    /\ InSet("new", i) \/ Num("new", "waiting", i) > 0 \/ hand = i

\* Every step is of one of the kinds.
LEMMA StepKinds ==
    ASSUME ScriptsOK, SaveTypeOK, [Next]_vars
    PROVE  \/ Pause \/ NextPass \/ Crash \/ (\E w \in Writer : StoreStep(w))
           \/ \E i \in Jobs : Relists(i) \/ Migrates(i) \/ Pushes(i) \/ Uses(i)
<1>1. CASE EngineStep
  <2>1. ASSUME NEW r \in Records, RebuildOne(r) PROVE \E i \in Jobs : Relists(i)
    <3>1. r[1] \in Queue /\ r[2] \in Jobs /\ r = <<r[1], r[2]>>
      BY DEF Records
    <3>2. Issues("engine", r[2])
      BY <2>1, RebuildIssues
    <3> QED BY <2>1, <3>1, <3>2 DEF Relists
  <2>2. ASSUME NEW i \in Jobs, MigrateListed(i) \/ MigrateDelayed(i) \/ MigrateDlq(i) PROVE Migrates(i)
    BY <2>2, MigrateIssues DEF Migrates
  <2>3. ASSUME NEW i \in Jobs, MoveDelayed(i) \/ Pop(i) PROVE Uses(i)
    <3>1. Consumes(i)
      BY <2>3, UseConsumes
    <3> QED BY <2>3, <3>1 DEF Uses, MoveDelayed, Pop, InSet, Num
  <2>4. ASSUME PopMissing \/ Ack \/ Nack PROVE \E i \in Jobs : Uses(i)
    <3>1. PICK h \in Jobs : h = hand /\ Consumes(h)
      BY <2>4, UseConsumes
    <3>2. hand' = 0
      BY <2>4 DEF PopMissing, Ack, Nack
    <3> QED BY <3>1, <3>2 DEF Uses
  <2> QED BY <1>1, <2>1, <2>2, <2>3, <2>4 DEF EngineStep
<1>2. ASSUME NEW i \in Jobs, Push(i) PROVE Pushes(i)
  BY <1>2, PushIssues DEF Pushes
<1>3. CASE \E w \in Writer : Mark(w)
  BY <1>3 DEF Mark, mark, queueVars, Pause
<1>4. CASE \E l \in Loop : Tick(l) \/ Save(l)
  BY <1>4 DEF Tick, Save, Drain, SaveFile, Snapshot, Write, WriteFails, queueVars, Pause
<1>5. CASE UNCHANGED vars
  BY <1>5 DEF vars, saveVars, queueVars, Pause
<1> QED BY <1>1, <1>2, <1>3, <1>4, <1>5 DEF Next

\* A task that is away from a job stays so, unless it begins a call about it.
LEMMA AwayStep ==
    ASSUME ScriptsOK, NEW v \in Writer, NEW j, Away(v, j)
    PROVE  /\ \A w \in Writer : StoreStep(w) => Away(v, j)'
           /\ \A w \in Writer, i \in Jobs : Issues(w, i) /\ (w = v => i # j) => Away(v, j)'
<1>1. ASSUME NEW w \in Writer, StoreStep(w) PROVE Away(v, j)'
  BY <1>1, ScriptHead DEF Away
<1>2. ASSUME NEW w \in Writer, NEW i \in Jobs, Issues(w, i), w = v => i # j PROVE Away(v, j)'
  <2>1. PICK ops \in Seq(StoreOp) : script' = [script EXCEPT ![w] = ops] /\ About(ops, i)
    BY <1>2 DEF Issues
  <2>2. CASE w = v
    <3>1. script'[v] = ops
      BY <2>1, <2>2 DEF ScriptsOK
    <3> QED BY <1>2, <2>1, <2>2, <3>1 DEF Away, About
  <2>3. CASE w # v
    <3>1. script'[v] = script[v]
      BY <2>1, <2>3 DEF ScriptsOK
    <3> QED BY <3>1 DEF Away
  <2> QED BY <2>2, <2>3
<1> QED BY <1>1, <1>2

\* A task whose first operation is about another job is away from this one.
LEMMA OthersAway ==
    ASSUME ScriptsOK, OneJob, NEW w \in Writer, NEW j
    PROVE  /\ StoreStep(w) /\ Head(script[w]).j # j => Away(w, j)
           /\ StoreStep(w) /\ Away(w, j) => Head(script[w]).j # j
BY ScriptHead DEF OneJob, Away

\* A script stays about one job.
LEMMA OneJobStep ==
    ASSUME ScriptsOK, SaveTypeOK, OneJob, [Next]_vars
    PROVE  OneJob'
<1>1. ASSUME NEW w \in Writer, StoreStep(w) PROVE OneJob'
  <2> SUFFICES ASSUME NEW v \in Writer, NEW m \in 1 .. Len(script'[v]), NEW n \in 1 .. Len(script'[v])
               PROVE  script'[v][m].j = script'[v][n].j
    BY DEF OneJob
  <2>1. CASE v = w
    <3>1. /\ m + 1 \in 1 .. Len(script[w]) /\ script'[w][m] = script[w][m + 1]
          /\ n + 1 \in 1 .. Len(script[w]) /\ script'[w][n] = script[w][n + 1]
      BY <1>1, <2>1, ScriptHead
    <3> QED BY <2>1, <3>1 DEF OneJob
  <2>2. CASE v # w
    <3>1. script'[v] = script[v]
      BY <1>1, <2>2, ScriptHead
    <3> QED BY <3>1 DEF OneJob
  <2> QED BY <2>1, <2>2
<1>2. ASSUME NEW w \in Writer, NEW i \in Jobs, Issues(w, i) PROVE OneJob'
  <2>1. PICK ops \in Seq(StoreOp) : script' = [script EXCEPT ![w] = ops] /\ About(ops, i)
    BY <1>2 DEF Issues
  <2>2. \A v \in Writer : script'[v] = IF v = w THEN ops ELSE script[v]
    BY <2>1 DEF ScriptsOK
  <2> QED BY <2>1, <2>2 DEF OneJob, About
<1>3. CASE Pause \/ NextPass
  BY <1>3 DEF Pause, NextPass, OneJob
<1>4. CASE Crash
  BY <1>4 DEF Crash, started, OneJob
<1> QED BY <1>1, <1>2, <1>3, <1>4, StepKinds, Engine DEF Relists, Migrates, Pushes, Uses, Consumes

\* What the engine goes through.
LEMMA BootStep ==
    ASSUME ScriptsOK, SaveTypeOK, Contents, Boot, [Next]_vars
    PROVE  Boot'
<1>0. \A q \in Queue, j \in Jobs : <<q, j>> \in Records
  BY FileFacts
<1>1. ASSUME NEW w \in Writer, StoreStep(w) PROVE Boot'
  <2>1. w = "producer" => phase = "run"
    BY <1>1 DEF Boot, StoreStep
  <2>2. phase # "run" => script'["producer"] = <<>>
    BY <1>1, <2>1, ScriptHead, Engine DEF Boot
  <2> QED BY <1>1, <2>2 DEF Boot, StoreStep
<1>2. CASE Pause
  BY <1>2 DEF Pause, Boot
<1>3. CASE NextPass
  <2>1. phase' \in Passes \cup {"run"}
    BY <1>3 DEF NextPass, Boot, passAfter, Passes
  <2>2. work' \subseteq Records
    <3>1. Listed(phase') \subseteq Records
      BY DEF Listed
    <3>2. {"old"} \X mem[SetsFile]["old"] \subseteq Records
      BY MemFits DEF Records, Queue
    <3> QED BY <1>3, <3>1, <3>2 DEF NextPass
  <2>3. phase # "run" /\ script' = script /\ kept' = kept /\ legacy' = legacy
    BY <1>3 DEF NextPass
  <2> QED BY <2>1, <2>2, <2>3 DEF Boot
<1>4. ASSUME NEW i \in Jobs, Relists(i) \/ Migrates(i) PROVE Boot'
  <2>1. UNCHANGED <<phase, kept, legacy>> /\ work' \subseteq work
    BY <1>4 DEF Relists, RebuildOne, Migrates, MigrateListed, MigrateDelayed, MigrateDlq
  <2>2. script'["producer"] = script["producer"]
    BY <1>4, Engine DEF Relists, Migrates, Issues, ScriptsOK
  <2> QED BY <2>1, <2>2 DEF Boot
<1>5. ASSUME NEW i \in Jobs, Pushes(i) PROVE Boot'
  BY <1>5 DEF Pushes, Push, Boot
<1>6. ASSUME NEW i \in Jobs, Uses(i) PROVE Boot'
  BY <1>6 DEF Uses, Consumes, Boot
<1>7. CASE Crash
  <2>1. /\ phase' = "rebuild" /\ work' \subseteq Records /\ kept' \subseteq Jobs /\ legacy' = legacy
        /\ script' = [w \in Writer |-> <<>>]
    BY <1>7 DEF Crash, started, Restorable
  <2>2. script'["producer"] = <<>>
    BY <2>1, Engine
  <2> QED BY <2>1, <2>2 DEF Boot
<1> QED BY <1>1, <1>2, <1>3, <1>4, <1>5, <1>6, <1>7, StepKinds

(* Nothing of the job is in memory. *)
Nowhere(j) ==
    \A q \in Queue : (\A k \in Lists : Num(q, k, j) = 0) /\ ~InSet(q, j) /\ ~Rec(q, j)

\* A job that is in no file is nowhere.
LEMMA WithoutIs ==
    ASSUME NEW j \in Jobs
    PROVE  (\A f \in File : Without(f, mem[f], j)) <=> Nowhere(j)
<1>1. ListKey = Queue \X Lists
  BY DEF ListKey, Lists
<1>2. ASSUME \A f \in File : Without(f, mem[f], j) PROVE Nowhere(j)
  <2>1. \A q \in Queue, k \in Lists : Num(q, k, j) = 0
    BY <1>1, <1>2, FileFacts DEF Without, Num, count
  <2>2. \A q \in Queue : ~InSet(q, j)
    BY <1>2, FileFacts DEF Without, InSet
  <2>3. \A q \in Queue : ~Rec(q, j)
    BY <1>2, FileFacts DEF Without, Rec
  <2> QED BY <2>1, <2>2, <2>3 DEF Nowhere
<1>3. ASSUME Nowhere(j), NEW f \in File PROVE Without(f, mem[f], j)
  <2>1. \A l \in ListKey : mem[ListsFile][l][j] = 0
    <3> SUFFICES ASSUME NEW q \in Queue, NEW k \in Lists PROVE mem[ListsFile][<<q, k>>][j] = 0
      BY <1>1
    <3> QED BY <1>3 DEF Nowhere, Num, count
  <2>2. \A q \in Queue : j \notin mem[SetsFile][q]
    BY <1>3 DEF Nowhere, InSet
  <2>3. f \in Queue \X {j} => ~mem[f]
    BY <1>3 DEF Nowhere, Rec
  <2> QED BY <2>1, <2>2, <2>3 DEF Without
<1> QED BY <1>2, <1>3

\* Nothing comes to be of a job that no task is about.
LEMMA NowhereStep ==
    ASSUME Contents, ScriptsOK, SaveTypeOK, OneJob, [Next]_vars, NEW j \in Jobs,
           Unborn(j), \A w \in Writer : Away(w, j)
    PROVE  \A f \in File : \A v \in Versions(f)' : Without(f, v, j)
<1>0. Nowhere(j)
  BY WithoutIs DEF Unborn, Versions
<1>1. (\A f \in File : Without(f, mem[f], j))' <=> Nowhere(j)'
  BY WithoutIs, PTL
<1>2. Same(j) => Nowhere(j)'
  BY <1>0 DEF Same, Nowhere
<1>3. Nowhere(j)' => \A f \in File : Without(f, mem'[f], j)
  BY <1>1 DEF Without
<1>4. \A f \in File : Without(f, mem'[f], j)
  <2>1. ASSUME NEW w \in Writer, StoreStep(w) PROVE Same(j)
    <3>1. PICK o \in StoreOp : o = Head(script[w])
      BY <2>1, ScriptHead
    <3>2. o.j # j
      BY <2>1, <3>1, OthersAway
    <3> QED BY <2>1, <3>1, <3>2, OpElsewhere
  <2>2. CASE mem' = disk
    BY <2>2 DEF Unborn, Versions
  <2> QED BY <1>2, <1>3, <2>1, <2>2, MemMoves, MemSame
<1> SUFFICES ASSUME NEW f \in File, NEW v \in Versions(f)' PROVE Without(f, v, j)
  OBVIOUS
<1>5. v \in Versions(f) \cup {mem'[f]}
  BY NextSaves, VersionsStep
<1> QED BY <1>4, <1>5 DEF Unborn

\* A job is in one kind of place.
LEMMA OneKind ==
    ASSUME NEW a \in BOOLEAN, NEW b \in BOOLEAN, NEW c \in BOOLEAN
    PROVE  Cardinality({k \in {"waiting", "delayed", "dead"} :
                            \/ k = "waiting" /\ a
                            \/ k = "delayed" /\ b
                            \/ k = "dead" /\ c}) = 1
           <=> (a \/ b \/ c) /\ ~(a /\ b) /\ ~(a /\ c) /\ ~(b /\ c)
<1> DEFINE S == {k \in {"waiting", "delayed", "dead"} :
                     \/ k = "waiting" /\ a
                     \/ k = "delayed" /\ b
                     \/ k = "dead" /\ c}
<1>1. /\ "waiting" \in S <=> a
      /\ "delayed" \in S <=> b
      /\ "dead" \in S <=> c
      /\ S \subseteq {"waiting", "delayed", "dead"}
  <2>1. "waiting" # "delayed" /\ "waiting" # "dead" /\ "delayed" # "dead"
    OBVIOUS
  <2>2. "waiting" \in S <=> a
    BY <2>1, Zenon
  <2>3. "delayed" \in S <=> b
    BY <2>1, Zenon
  <2>4. "dead" \in S <=> c
    BY <2>1, Zenon
  <2>5. S \subseteq {"waiting", "delayed", "dead"}
    OBVIOUS
  <2> HIDE DEF S
  <2> QED BY <2>2, <2>3, <2>4, <2>5
<1> HIDE DEF S
<1>2. IsFiniteSet(S)
  <2> DEFINE All == {"waiting", "delayed", "dead"}
  <2>1. All = (({} \cup {"waiting"}) \cup {"delayed"}) \cup {"dead"}
    OBVIOUS
  <2>2. IsFiniteSet(All)
    <3>1. IsFiniteSet({} \cup {"waiting"})
      BY FS_EmptySet, FS_AddElement
    <3>2. IsFiniteSet(({} \cup {"waiting"}) \cup {"delayed"})
      BY <3>1, FS_AddElement
    <3>3. IsFiniteSet((({} \cup {"waiting"}) \cup {"delayed"}) \cup {"dead"})
      BY <3>2, FS_AddElement
    <3> QED BY <2>1, <3>3
  <2> QED BY <1>1, <2>2, FS_Subset
<1>3. Cardinality(S) = 1 <=> \E x : S = {x}
  BY <1>2, FS_Singleton
<1>4. ASSUME NEW x, S = {x} PROVE (a \/ b \/ c) /\ ~(a /\ b) /\ ~(a /\ c) /\ ~(b /\ c)
  BY <1>1, <1>4
<1>5. ASSUME a \/ b \/ c, ~(a /\ b), ~(a /\ c), ~(b /\ c) PROVE \E x : S = {x}
  <2>1. CASE a
    BY <1>1, <1>5, <2>1
  <2>2. CASE b
    BY <1>1, <1>5, <2>2
  <2>3. CASE c
    BY <1>1, <1>5, <2>3
  <2> QED BY <1>5, <2>1, <2>2, <2>3
<1>6. Cardinality(S) = 1 <=> (a \/ b \/ c) /\ ~(a /\ b) /\ ~(a /\ c) /\ ~(b /\ c)
  BY <1>3, <1>4, <1>5
<1> QED BY <1>6, Zenon DEF S

\* A job that the files have once.
LEMMA OnceKinds ==
    ASSUME NEW files, NEW j
    PROVE  Once(files, j) <=>
              /\ count(files, "new", "waiting", j) <= 1 /\ count(files, "new", "dlq", j) <= 1
              /\ AsWaiting(files, j) \/ AsDelayed(files, j) \/ AsDead(files, j)
              /\ ~(AsWaiting(files, j) /\ AsDelayed(files, j)) /\ ~(AsWaiting(files, j) /\ AsDead(files, j))
              /\ ~(AsDelayed(files, j) /\ AsDead(files, j))
<1>1. AsWaiting(files, j) \in BOOLEAN /\ AsDelayed(files, j) \in BOOLEAN /\ AsDead(files, j) \in BOOLEAN
  BY DEF AsWaiting, AsDelayed, AsDead
<1> QED BY <1>1, OneKind DEF Once

\* A job that memory has once is listed in one kind of place.
LEMMA OnceIs ==
    ASSUME NEW j
    PROVE  /\ Once(mem, j) <=> Single(j)
           /\ AsDead(mem, j) <=> Dead(j)
           /\ InOld(mem, j) <=> Left(j)
<1>1. /\ AsWaiting(mem, j) <=> Live(j)
      /\ AsDelayed(mem, j) <=> Late(j)
      /\ AsDead(mem, j) <=> Dead(j)
      /\ InOld(mem, j) <=> Left(j)
  BY DEF AsWaiting, AsDelayed, AsDead, InOld, Live, Late, Dead, Left, Num, InSet, Queue
<1> QED BY <1>1, OnceKinds DEF Single, Num

\* Files without a job do not restore it.
LEMMA NotRestored ==
    ASSUME NEW files, NEW j \in Jobs, \A f \in File : Without(f, files[f], j),
           \A q \in Queue : files[<<q, j>>] \in BOOLEAN
    PROVE  j \notin Restorable(files) /\ \A q \in Queue : ~files[<<q, j>>]
<1>1. \A q \in Queue, k \in Lists : count(files, q, k, j) = 0
  <2>1. \A q \in Queue, k \in Lists : <<q, k>> \in ListKey
    BY DEF ListKey, Lists
  <2> QED BY <2>1, FileFacts DEF Without, count
<1>2. \A q \in Queue : j \notin files[SetsFile][q]
  BY FileFacts DEF Without
<1>3. \A q \in Queue : ~files[<<q, j>>]
  BY FileFacts DEF Without
<1>4. ~AsWaiting(files, j) /\ ~AsDelayed(files, j) /\ ~AsDead(files, j)
  BY <1>1, <1>2 DEF AsWaiting, AsDelayed, AsDead, Queue, Lists
<1>5. ~Once(files, j)
  BY <1>4, OnceKinds
<1>6. files[<<"old", j>>] = files[<<"new", j>>]
  BY <1>3 DEF Queue
<1> QED BY <1>3, <1>5, <1>6 DEF Restorable

\* What has not been pushed stays nowhere.
LEMMA UnpushedStep ==
    ASSUME Contents, ScriptsOK, SaveTypeOK, OneJob, Boot, Unpushed, [Next]_vars
    PROVE  Unpushed'
<1> SUFFICES ASSUME NEW j \in Fresh, j \notin pushed' PROVE Unborn(j)'
  BY DEF Unpushed
<1>0. j \in Jobs
  BY DEF Jobs
<1>1. pushed \subseteq pushed'
  BY StepKinds DEF Pause, NextPass, Crash, StoreStep, Relists, RebuildOne, Migrates, MigrateListed, MigrateDelayed,
                   MigrateDlq, Pushes, Push, Uses, Consumes
<1>2. Unborn(j)
  BY <1>1 DEF Unpushed
<1>3. (\A w \in Writer : Away(w, j)) /\ (\A q \in Queue : <<q, j>> \notin work) /\ hand # j /\ j \notin kept
  BY <1>2 DEF Unborn
<1>4. \A f \in File : \A v \in Versions(f)' : Without(f, v, j)
  BY <1>0, <1>2, <1>3, NowhereStep
<1>5. ASSUME \A w \in Writer : Away(w, j)', \A q \in Queue : <<q, j>> \notin work', hand' # j, j \notin kept'
      PROVE  Unborn(j)'
  BY <1>4, <1>5 DEF Unborn, Without
<1>6. CASE Pause
  BY <1>3, <1>5, <1>6 DEF Pause, Away
<1>7. CASE NextPass
  <2>1. UNCHANGED <<script, hand, kept>>
    BY <1>7 DEF NextPass
  <2>2. \A w \in Writer : Away(w, j)'
    BY <1>3, <2>1 DEF Away
  <2>3. Nowhere(j)
    BY <1>0, <1>2, WithoutIs DEF Unborn, Versions
  <2>4. \A q \in Queue : <<q, j>> \notin work'
    <3>1. \A k \in Lists, q \in Queue : <<q, j>> \notin Listed(k)
      BY <2>3 DEF Listed, Nowhere, Num, Queue
    <3>2. j \notin mem[SetsFile]["old"]
      BY <2>3 DEF Nowhere, InSet, Queue
    <3>3. \A q \in Queue : <<q, j>> \notin {"old"} \X mem[SetsFile]["old"]
      BY <3>2
    <3> QED BY <1>7, <3>1, <3>3 DEF NextPass, Lists
  <2> QED BY <1>3, <1>5, <2>1, <2>2, <2>4
<1>8. CASE Crash
  <2>1. \A w \in Writer : Away(w, j)'
    BY <1>8 DEF Crash, started, Away
  <2>2. hand' = 0 /\ 0 # j
    BY <1>0, <1>8, FilesAssumption DEF Crash, started
  <2>3. \A f \in File : Without(f, disk[f], j)
    BY <1>2 DEF Unborn, Versions
  <2>4. \A q \in Queue : disk[<<q, j>>] \in BOOLEAN
    BY <1>0, FileFacts DEF Contents, Versions, Fits
  <2>5. j \notin Restorable(disk) /\ \A q \in Queue : ~disk[<<q, j>>]
    BY <1>0, <2>3, <2>4, NotRestored
  <2>6. j \notin kept' /\ \A q \in Queue : <<q, j>> \notin work'
    BY <1>8, <2>5 DEF Crash, started
  <2> QED BY <1>5, <2>1, <2>2, <2>6
<1>9. ASSUME NEW w \in Writer, StoreStep(w) PROVE Unborn(j)'
  <2>1. UNCHANGED <<work, hand, kept>>
    BY <1>9 DEF StoreStep
  <2>2. \A v \in Writer : Away(v, j)'
    BY <1>3, <1>9, AwayStep
  <2> QED BY <1>3, <1>5, <2>1, <2>2
<1>10. ASSUME NEW i \in Jobs, Relists(i) \/ Migrates(i) PROVE Unborn(j)'
  <2>1. i # j /\ Issues("engine", i)
    BY <1>3, <1>10 DEF Relists, RebuildOne, Migrates, MigrateListed, MigrateDelayed, MigrateDlq, Queue
  <2>2. UNCHANGED <<hand, kept>> /\ work' \subseteq work
    BY <1>10 DEF Relists, RebuildOne, Migrates, MigrateListed, MigrateDelayed, MigrateDlq
  <2>3. \A v \in Writer : Away(v, j)'
    BY <1>3, <2>1, AwayStep, Engine
  <2> QED BY <1>3, <1>5, <2>2, <2>3
<1>11. ASSUME NEW i \in Jobs, Pushes(i) PROVE Unborn(j)'
  <2>1. i # j /\ Issues("producer", i)
    BY <1>11 DEF Pushes, Push
  <2>2. UNCHANGED <<hand, kept, work>>
    BY <1>11 DEF Pushes, Push
  <2>3. \A v \in Writer : Away(v, j)'
    BY <1>3, <2>1, AwayStep, Engine
  <2> QED BY <1>3, <1>5, <2>2, <2>3
<1>12. ASSUME NEW i \in Jobs, Uses(i) PROVE Unborn(j)'
  <2>1. Nowhere(j)
    BY <1>0, <1>2, WithoutIs DEF Unborn, Versions
  <2>2. i # j /\ Issues("engine", i)
    BY <1>3, <1>12, <2>1 DEF Uses, Consumes, Nowhere, Lists, Queue
  <2>3. 0 # j
    BY <1>0, FilesAssumption
  <2>4. hand' # j /\ j \notin kept' /\ work' = work
    BY <1>3, <1>12, <2>2, <2>3 DEF Uses, Consumes
  <2>5. \A v \in Writer : Away(v, j)'
    BY <1>3, <2>2, AwayStep, Engine
  <2> QED BY <1>3, <1>5, <2>4, <2>5
<1> QED BY <1>6, <1>7, <1>8, <1>9, <1>10, <1>11, <1>12, StepKinds

-----------------------------------------------------------------------------
(* What the drain does to a job. *)

(* Of job j only how often list k of queue q has it changes, or only whether  *)
(* the sorted set of q has it, or only its record in q.                      *)
OnlyNum(q, k, j) ==
    /\ \A p \in Queue, m \in Lists : p # q \/ m # k => Num(p, m, j)' = Num(p, m, j)
    /\ \A p \in Queue : (InSet(p, j)' <=> InSet(p, j)) /\ Rec(p, j)' = Rec(p, j)
OnlySet(q, j) ==
    /\ \A p \in Queue, m \in Lists : Num(p, m, j)' = Num(p, m, j)
    /\ \A p \in Queue : (p # q => (InSet(p, j)' <=> InSet(p, j))) /\ Rec(p, j)' = Rec(p, j)
OnlyRec(q, j) ==
    /\ \A p \in Queue, m \in Lists : Num(p, m, j)' = Num(p, m, j)
    /\ \A p \in Queue : (InSet(p, j)' <=> InSet(p, j)) /\ (p # q => Rec(p, j)' = Rec(p, j))

\* What the operations of the drain do.
LEMMA Effects ==
    ASSUME Contents, SaveTypeOK, NEW w \in Writer, StoreStep(w), NEW o \in StoreOp, o = Head(script[w]),
           NEW j \in Jobs, NEW q \in Queue
    PROVE  /\ \A k \in Lists : o = push(q, k, j) => OnlyNum(q, k, j) /\ Num(q, k, j)' = Num(q, k, j) + 1
           /\ \A k \in Lists : o = lremAll(q, k, j) => OnlyNum(q, k, j) /\ Num(q, k, j)' = 0
           /\ o = zadd(q, j) => OnlySet(q, j) /\ InSet(q, j)'
           /\ o = zrem(q, j) => OnlySet(q, j) /\ ~InSet(q, j)'
           /\ o = set_job(q, j) => OnlyRec(q, j) /\ Rec(q, j)'
           /\ o = delete_job(q, j) => OnlyRec(q, j) /\ ~Rec(q, j)'
<1>0. /\ \A p \in Queue, m \in Lists :
            Num(p, m, j)' = IF o.op \in ListOps /\ o.q = p /\ o.k = m /\ o.j = j
                            THEN counted(o, Num(p, m, j)) ELSE Num(p, m, j)
      /\ \A p \in Queue :
            InSet(p, j)' <=> IF o.op \in {"zadd", "zrem"} /\ o.q = p /\ o.j = j
                             THEN o.op = "zadd" ELSE InSet(p, j)
      /\ \A p \in Queue :
            Rec(p, j)' = IF o.op \in {"set", "del"} /\ o.q = p /\ o.j = j THEN o.op = "set" ELSE Rec(p, j)
  BY OpEffect
<1>1. ASSUME NEW k \in Lists, o = push(q, k, j) PROVE OnlyNum(q, k, j) /\ Num(q, k, j)' = Num(q, k, j) + 1
  <2>1. o.op = "push" /\ o.q = q /\ o.k = k /\ o.j = j
    BY <1>1 DEF push
  <2> QED BY <1>0, <2>1 DEF OnlyNum, ListOps, counted
<1>2. ASSUME NEW k \in Lists, o = lremAll(q, k, j) PROVE OnlyNum(q, k, j) /\ Num(q, k, j)' = 0
  <2>1. o.op = "none" /\ o.q = q /\ o.k = k /\ o.j = j
    BY <1>2 DEF lremAll
  <2> QED BY <1>0, <2>1 DEF OnlyNum, ListOps, counted
<1>3. ASSUME o = zadd(q, j) \/ o = zrem(q, j)
      PROVE  OnlySet(q, j) /\ (InSet(q, j)' <=> o = zadd(q, j))
  <2>1. (o.op = "zadd" <=> o = zadd(q, j)) /\ o.op \in {"zadd", "zrem"} /\ o.q = q /\ o.j = j
    BY <1>3 DEF zadd, zrem
  <2> QED BY <1>0, <2>1 DEF OnlySet, ListOps
<1>4. ASSUME o = set_job(q, j) \/ o = delete_job(q, j)
      PROVE  OnlyRec(q, j) /\ (Rec(q, j)' <=> o = set_job(q, j))
  <2>1. (o.op = "set" <=> o = set_job(q, j)) /\ o.op \in {"set", "del"} /\ o.q = q /\ o.j = j
    BY <1>4 DEF set_job, delete_job
  <2> QED BY <1>0, <2>1 DEF OnlyRec, ListOps
<1>5. zadd(q, j) # zrem(q, j) /\ set_job(q, j) # delete_job(q, j)
  BY DEF zadd, zrem, set_job, delete_job
<1> QED BY <1>1, <1>2, <1>3, <1>4, <1>5

(* The job stays in the kind of place in which it is. *)
SameKind(j) == (Live(j)' <=> Live(j)) /\ (Late(j)' <=> Late(j)) /\ (Dead(j)' <=> Dead(j))
Old(j) == /\ \A k \in Lists : Num("old", k, j)' = Num("old", k, j)
          /\ InSet("old", j)' <=> InSet("old", j)

\* Only the record changes.
LEMMA RecordMoves ==
    ASSUME NEW j \in Jobs, NEW q \in Queue, OnlyRec(q, j), kept' = kept, Held(j),
           q = "new" => Rec("new", j)', q = "old" => Rec("new", j)
    PROVE  Held(j)' /\ SameKind(j) /\ Old(j) /\ Rec("new", j)'
<1>1. Old(j)
  BY DEF OnlyRec, Old, Queue
<1>2. SameKind(j) /\ Single(j)'
  BY DEF OnlyRec, Queue, Lists, SameKind, Live, Late, Dead, Held, Single
<1>3. Rec("new", j)'
  BY DEF OnlyRec, Queue
<1> QED BY <1>1, <1>2, <1>3 DEF Held

\* The places of a job are counted.
LEMMA NumTypes ==
    ASSUME Contents, NEW j \in Jobs
    PROVE  \A q \in Queue, k \in Lists : Num(q, k, j) \in Nat
BY MemFits DEF Num

\* The place in the new queue is cleared.
LEMMA ClearMoves ==
    ASSUME Contents, SaveTypeOK, NEW w \in Writer, StoreStep(w), NEW o \in StoreOp, o = Head(script[w]),
           NEW j \in Jobs, NEW k \in Passes, o = clear(k, j), Held(j), OldAt(k, j), Moved(k, j)
    PROVE  Held(j)' /\ SameKind(j) /\ Old(j) /\ Gone(k, j)' /\ Rec("new", j)' = Rec("new", j)
<1>0. "new" \in Queue /\ "old" \in Queue /\ "waiting" \in Lists /\ "active" \in Lists /\ "dlq" \in Lists /\ kept' = kept
  BY DEF Queue, Lists, StoreStep
<1>n. \A q \in Queue, m \in Lists : Num(q, m, j) \in Nat
  BY NumTypes
<1>1. CASE k \in {"waiting", "active"}
  <2>1. o = lremAll("new", "waiting", j) /\ Num("old", k, j) > 0 /\ (j \in kept => Rec("new", j))
    BY <1>1 DEF clear, into, OldAt, Moved
  <2>2. OnlyNum("new", "waiting", j) /\ Num("new", "waiting", j)' = 0
    BY <1>0, <2>1, Effects
  <2>3. Old(j) /\ Gone(k, j)' /\ Rec("new", j)' = Rec("new", j)
    BY <1>0, <1>1, <2>2 DEF OnlyNum, Old, Gone, into
  <2>4. Live(j) /\ Live(j)'
    BY <1>0, <1>1, <2>1, <2>2 DEF OnlyNum, Live
  <2>5. Single(j)' /\ SameKind(j)
    BY <1>0, <2>2, <2>4 DEF OnlyNum, Held, Single, SameKind, Late, Dead
  <2> QED BY <1>0, <2>1, <2>3, <2>5 DEF Held
<1>2. CASE k = "delayed"
  <2>1. o = zrem("new", j) /\ InSet("old", j) /\ (j \in kept => Rec("new", j))
    BY <1>2 DEF clear, OldAt, Moved
  <2>2. OnlySet("new", j) /\ ~InSet("new", j)'
    BY <1>0, <2>1, Effects
  <2>3. Old(j) /\ Gone(k, j)' /\ Rec("new", j)' = Rec("new", j)
    BY <1>0, <1>2, <2>2 DEF OnlySet, Old, Gone
  <2>4. Late(j) /\ Late(j)'
    BY <1>0, <2>1, <2>2 DEF OnlySet, Late
  <2>5. Single(j)' /\ SameKind(j)
    BY <1>0, <2>2, <2>4 DEF OnlySet, Held, Single, SameKind, Live, Dead
  <2> QED BY <1>0, <2>1, <2>3, <2>5 DEF Held
<1>3. CASE k = "dlq"
  <2>1. o = lremAll("new", "dlq", j) /\ Num("old", "dlq", j) > 0
    BY <1>3 DEF clear, into, OldAt
  <2>2. OnlyNum("new", "dlq", j) /\ Num("new", "dlq", j)' = 0
    BY <1>0, <2>1, Effects
  <2>3. Old(j) /\ Gone(k, j)' /\ Rec("new", j)' = Rec("new", j)
    BY <1>0, <1>3, <2>2 DEF OnlyNum, Old, Gone, into
  <2>4. Dead(j) /\ Dead(j)'
    BY <1>0, <2>1, <2>2 DEF OnlyNum, Dead
  <2>5. Single(j)' /\ SameKind(j)
    BY <1>0, <2>2, <2>4 DEF OnlyNum, Held, Single, SameKind, Live, Late
  <2> QED BY <2>3, <2>4, <2>5 DEF Held
<1> QED BY <1>1, <1>2, <1>3 DEF Passes

\* The job is added to the new queue.
LEMMA AddMoves ==
    ASSUME Contents, SaveTypeOK, NEW w \in Writer, StoreStep(w), NEW o \in StoreOp, o = Head(script[w]),
           NEW j \in Jobs, NEW k \in Passes, o = add(k, j), Held(j), OldAt(k, j), Gone(k, j), Moved(k, j)
    PROVE  Held(j)' /\ SameKind(j) /\ Old(j) /\ Once1(k, j)' /\ Rec("new", j)' = Rec("new", j)
<1>0. "new" \in Queue /\ "old" \in Queue /\ "waiting" \in Lists /\ "active" \in Lists /\ "dlq" \in Lists /\ kept' = kept
  BY DEF Queue, Lists, StoreStep
<1>n. \A q \in Queue, m \in Lists : Num(q, m, j) \in Nat
  BY NumTypes
<1>1. CASE k \in {"waiting", "active"}
  <2>1. o = push("new", "waiting", j) /\ Num("old", k, j) > 0 /\ (j \in kept => Rec("new", j)) /\ Num("new", "waiting", j) = 0
    BY <1>1 DEF add, into, OldAt, Moved, Gone
  <2>2. OnlyNum("new", "waiting", j) /\ Num("new", "waiting", j)' = 1
    BY <1>0, <2>1, Effects
  <2>3. Old(j) /\ Once1(k, j)' /\ Rec("new", j)' = Rec("new", j)
    BY <1>0, <1>1, <2>2 DEF OnlyNum, Old, Once1, into
  <2>4. Live(j) /\ Live(j)'
    BY <1>0, <1>1, <2>1, <2>2 DEF OnlyNum, Live
  <2>5. Single(j)' /\ SameKind(j)
    BY <1>0, <2>2, <2>4 DEF OnlyNum, Held, Single, SameKind, Late, Dead
  <2> QED BY <1>0, <2>1, <2>3, <2>5 DEF Held
<1>2. CASE k = "delayed"
  <2>1. o = zadd("new", j) /\ InSet("old", j) /\ (j \in kept => Rec("new", j))
    BY <1>2 DEF add, OldAt, Moved
  <2>2. OnlySet("new", j) /\ InSet("new", j)'
    BY <1>0, <2>1, Effects
  <2>3. Old(j) /\ Once1(k, j)' /\ Rec("new", j)' = Rec("new", j)
    BY <1>0, <1>2, <2>2 DEF OnlySet, Old, Once1
  <2>4. Late(j) /\ Late(j)'
    BY <1>0, <2>1, <2>2 DEF OnlySet, Late
  <2>5. Single(j)' /\ SameKind(j)
    BY <1>0, <2>2, <2>4 DEF OnlySet, Held, Single, SameKind, Live, Dead
  <2> QED BY <1>0, <2>1, <2>3, <2>5 DEF Held
<1>3. CASE k = "dlq"
  <2>1. o = push("new", "dlq", j) /\ Num("old", "dlq", j) > 0 /\ Num("new", "dlq", j) = 0
    BY <1>3 DEF add, into, OldAt, Gone
  <2>2. OnlyNum("new", "dlq", j) /\ Num("new", "dlq", j)' = 1
    BY <1>0, <2>1, Effects
  <2>3. Old(j) /\ Once1(k, j)' /\ Rec("new", j)' = Rec("new", j)
    BY <1>0, <1>3, <2>2 DEF OnlyNum, Old, Once1, into
  <2>4. Dead(j) /\ Dead(j)'
    BY <1>0, <2>1, <2>2 DEF OnlyNum, Dead
  <2>5. Single(j)' /\ SameKind(j)
    BY <1>0, <2>2, <2>4 DEF OnlyNum, Held, Single, SameKind, Live, Late
  <2> QED BY <2>3, <2>4, <2>5 DEF Held
<1> QED BY <1>1, <1>2, <1>3 DEF Passes

\* The job is dropped from the old queue.
LEMMA DropMoves ==
    ASSUME Contents, SaveTypeOK, NEW w \in Writer, StoreStep(w), NEW o \in StoreOp, o = Head(script[w]),
           NEW j \in Jobs, NEW k \in Passes, o = drop(k, j), Held(j), Once1(k, j), Moved(k, j), Passed(k, j)
    PROVE  Held(j)' /\ SameKind(j) /\ ~OldAt(k, j)' /\ Passed(k, j)'
<1>0. "new" \in Queue /\ "old" \in Queue /\ "waiting" \in Lists /\ "active" \in Lists /\ "dlq" \in Lists /\ kept' = kept
  BY DEF Queue, Lists, StoreStep
<1>n. \A q \in Queue, m \in Lists : Num(q, m, j) \in Nat
  BY NumTypes
<1>1. CASE k \in {"waiting", "active"}
  <2>1. o = lremAll("old", k, j) /\ (j \in kept => Rec("new", j)) /\ Num("new", "waiting", j) = 1 /\ k \in Lists
    BY <1>0, <1>1 DEF drop, into, Once1, Moved
  <2>2. OnlyNum("old", k, j) /\ Num("old", k, j)' = 0
    BY <1>0, <2>1, Effects
  <2>3. ~OldAt(k, j)' /\ Rec("new", j)' = Rec("new", j)
    BY <1>0, <1>1, <2>2 DEF OnlyNum, OldAt
  <2>4. Live(j) /\ Live(j)'
    BY <1>0, <2>1, <2>2 DEF OnlyNum, Live
  <2>5. Single(j)' /\ SameKind(j)
    BY <1>0, <1>1, <2>2, <2>4 DEF OnlyNum, Held, Single, SameKind, Late, Dead
  <2>6. Passed(k, j)'
    BY <1>0, <1>1, <2>2 DEF OnlyNum, Passed
  <2> QED BY <1>0, <2>1, <2>3, <2>5, <2>6 DEF Held
<1>2. CASE k = "delayed"
  <2>1. o = zrem("old", j) /\ InSet("new", j) /\ (j \in kept => Rec("new", j))
    BY <1>2 DEF drop, Once1, Moved
  <2>2. OnlySet("old", j) /\ ~InSet("old", j)'
    BY <1>0, <2>1, Effects
  <2>3. ~OldAt(k, j)' /\ Rec("new", j)' = Rec("new", j)
    BY <1>0, <1>2, <2>2 DEF OnlySet, OldAt
  <2>4. Late(j) /\ Late(j)'
    BY <1>0, <2>1, <2>2 DEF OnlySet, Late
  <2>5. Single(j)' /\ SameKind(j)
    BY <1>0, <2>2, <2>4 DEF OnlySet, Held, Single, SameKind, Live, Dead
  <2>6. Passed(k, j)'
    BY <1>0, <1>2, <2>2 DEF OnlySet, Passed
  <2> QED BY <1>0, <2>1, <2>3, <2>5, <2>6 DEF Held
<1>3. CASE k = "dlq"
  <2>1. o = lremAll("old", "dlq", j) /\ Num("new", "dlq", j) = 1
    BY <1>3 DEF drop, into, Once1
  <2>2. OnlyNum("old", "dlq", j) /\ Num("old", "dlq", j)' = 0
    BY <1>0, <2>1, Effects
  <2>3. ~OldAt(k, j)'
    BY <1>3, <2>2 DEF OldAt
  <2>4. Dead(j) /\ Dead(j)'
    BY <1>0, <2>1, <2>2 DEF OnlyNum, Dead
  <2>5. Single(j)' /\ SameKind(j)
    BY <1>0, <2>2, <2>4 DEF OnlyNum, Held, Single, SameKind, Live, Late
  <2>6. Passed(k, j)'
    BY <1>0, <1>3, <2>2 DEF OnlyNum, Passed
  <2> QED BY <2>3, <2>4, <2>5, <2>6 DEF Held
<1> QED BY <1>1, <1>2, <1>3 DEF Passes

\* What stays in the old queue.
LEMMA OldKeeps ==
    ASSUME NEW j, Old(j)
    PROVE  /\ \A k \in Passes : OldAt(k, j)' <=> OldAt(k, j)
           /\ \A p : Passed(p, j) => Passed(p, j)'
BY DEF Old, OldAt, Passed, Passes, Lists

\* The drain of a job goes on.
LEMMA MovingStep ==
    ASSUME Contents, ScriptsOK, SaveTypeOK, StoreStep("engine"), NEW j \in Jobs, NEW k \in Passes,
           Moving(k, j), Held(j), Passed(k, j)
    PROVE  Held(j)' /\ SameKind(j) /\ Passed(k, j)' /\ Turn(k, j)'
<1>0. "new" \in Queue /\ "old" \in Queue /\ "engine" \in Writer
  BY Engine DEF Queue
<1>1. PICK o \in StoreOp : o = Head(script["engine"])
  BY <1>0, ScriptHead
<1>2. /\ script'["engine"] = Tail(script["engine"]) /\ work' = work /\ kept' = kept
      /\ <<"old", j>> \notin work
  BY <1>0, ScriptHead DEF StoreStep, Moving
<1>3. Old(j) => (OldAt(k, j) => OldAt(k, j)') /\ Passed(k, j)'
  BY OldKeeps
<1> DEFINE c == clear(k, j)
           a == add(k, j)
           d == drop(k, j)
           s == set_job("new", j)
           r == delete_job("old", j)
<1> HIDE DEF c, a, d, s, r
<1>4. CASE script["engine"] = <<s, r, c, a, d>> /\ OldAt(k, j) /\ k # "dlq"
  <2>1. o = s /\ script'["engine"] = <<r, c, a, d>>
    BY <1>1, <1>2, <1>4
  <2>2. OnlyRec("new", j) /\ Rec("new", j)'
    BY <1>0, <1>1, <2>1, Effects DEF s
  <2>3. Held(j)' /\ SameKind(j) /\ Old(j)
    BY <1>0, <1>2, <2>2, RecordMoves
  <2>4. Moving(k, j)'
    BY <1>2, <1>3, <1>4, <2>1, <2>2, <2>3 DEF Moving, c, a, d, r
  <2> QED BY <1>3, <2>3, <2>4 DEF Turn
<1>5. CASE script["engine"] = <<r, c, a, d>> /\ OldAt(k, j) /\ k # "dlq" /\ Rec("new", j)
  <2>1. o = r /\ script'["engine"] = <<c, a, d>>
    BY <1>1, <1>2, <1>5
  <2>2. OnlyRec("old", j)
    BY <1>0, <1>1, <2>1, Effects DEF r
  <2>3. Held(j)' /\ SameKind(j) /\ Old(j) /\ Rec("new", j)'
    BY <1>0, <1>2, <1>5, <2>2, RecordMoves
  <2>4. Moving(k, j)'
    BY <1>2, <1>3, <1>5, <2>1, <2>3 DEF Moving, Moved, c, a, d
  <2> QED BY <1>3, <2>3, <2>4 DEF Turn
<1>6. CASE script["engine"] = <<c, a, d>> /\ OldAt(k, j) /\ Moved(k, j)
  <2>1. o = c /\ script'["engine"] = <<a, d>>
    BY <1>1, <1>2, <1>6
  <2>2. Held(j)' /\ SameKind(j) /\ Old(j) /\ Gone(k, j)' /\ Rec("new", j)' = Rec("new", j)
    BY <1>0, <1>1, <1>6, <2>1, ClearMoves DEF c
  <2>3. Moved(k, j)'
    BY <1>2, <1>6, <2>2 DEF Moved
  <2>4. Moving(k, j)'
    BY <1>2, <1>3, <1>6, <2>1, <2>2, <2>3 DEF Moving, a, d
  <2> QED BY <1>3, <2>2, <2>4 DEF Turn
<1>7. CASE script["engine"] = <<a, d>> /\ OldAt(k, j) /\ Gone(k, j) /\ Moved(k, j)
  <2>1. o = a /\ script'["engine"] = <<d>>
    BY <1>1, <1>2, <1>7
  <2>2. Held(j)' /\ SameKind(j) /\ Old(j) /\ Once1(k, j)' /\ Rec("new", j)' = Rec("new", j)
    BY <1>0, <1>1, <1>7, <2>1, AddMoves DEF a
  <2>3. Moved(k, j)'
    BY <1>2, <1>7, <2>2 DEF Moved
  <2>4. Moving(k, j)'
    BY <1>2, <2>1, <2>2, <2>3 DEF Moving, d
  <2> QED BY <1>3, <2>2, <2>4 DEF Turn
<1>8. CASE script["engine"] = <<d>> /\ Once1(k, j) /\ Moved(k, j)
  <2>1. o = d /\ script'["engine"] = <<>>
    BY <1>1, <1>2, <1>8
  <2>2. Held(j)' /\ SameKind(j) /\ ~OldAt(k, j)' /\ Passed(k, j)'
    BY <1>0, <1>1, <1>8, <2>1, DropMoves DEF d
  <2>3. Away("engine", j)'
    BY <2>1 DEF Away
  <2> QED BY <1>2, <2>2, <2>3 DEF Turn
<1> QED BY <1>4, <1>5, <1>6, <1>7, <1>8 DEF Moving, c, a, d, s, r

\* A record is listed again, in its queue.
LEMMA RelistStep ==
    ASSUME Contents, ScriptsOK, SaveTypeOK, StoreStep("engine"), NEW j \in Jobs, NEW q \in Queue,
           Blank(j), Rec(q, j), \A p \in Queue : <<p, j>> \notin work,
           script["engine"] \in {<<push(q, "waiting", j)>>, <<zadd(q, j)>>}
    PROVE  Relisted(j)'
<1>0. "new" \in Queue /\ "old" \in Queue /\ "engine" \in Writer /\ "waiting" \in Lists /\ "active" \in Lists /\ "dlq" \in Lists
  BY Engine DEF Queue, Lists
<1>1. PICK o \in StoreOp : o = Head(script["engine"])
  BY <1>0, ScriptHead
<1>2. script'["engine"] = Tail(script["engine"]) /\ work' = work
  BY <1>0, ScriptHead DEF StoreStep
<1> DEFINE a == push(q, "waiting", j)
           z == zadd(q, j)
<1> HIDE DEF a, z
<1>3. script["engine"] = <<a>> \/ script["engine"] = <<z>>
  BY DEF a, z
<1>4. script'["engine"] = <<>> /\ (o = a \/ o = z)
  <2>1. CASE script["engine"] = <<a>>
    BY <1>1, <1>2, <2>1
  <2>2. CASE script["engine"] = <<z>>
    BY <1>1, <1>2, <2>2
  <2> QED BY <1>3, <2>1, <2>2
<1>5. Away("engine", j)'
  BY <1>4 DEF Away
<1>n. \A p \in Queue, m \in Lists : Num(p, m, j) \in Nat
  BY NumTypes
<1>6. CASE o = a
  <2>1. OnlyNum(q, "waiting", j) /\ Num(q, "waiting", j)' = Num(q, "waiting", j) + 1
    BY <1>0, <1>1, <1>6, Effects DEF a
  <2>2. Num(q, "waiting", j)' = 1 /\ Rec(q, j)'
    BY <1>0, <2>1 DEF OnlyNum, Blank, Queue
  <2>3. Live(j)' /\ ~Late(j)' /\ ~Dead(j)' /\ Num("new", "waiting", j)' <= 1 /\ Num("new", "dlq", j)' <= 1
    <3>1. q = "old" \/ q = "new"
      BY DEF Queue
    <3> QED BY <1>0, <3>1, <2>1, <2>2 DEF OnlyNum, Blank, Live, Late, Dead
  <2>4. Rec("new", j)' \/ (Rec("old", j)' /\ Left(j)')
    BY <2>2 DEF Left, Queue
  <2>5. Held(j)'
    BY <2>3, <2>4 DEF Held, Single
  <2> QED BY <1>2, <1>5, <2>5 DEF Relisted, Settled
<1>7. CASE o = z
  <2>1. OnlySet(q, j) /\ InSet(q, j)'
    BY <1>0, <1>1, <1>7, Effects DEF z
  <2>2. Rec(q, j)'
    BY <1>0, <2>1 DEF OnlySet
  <2>3. ~Live(j)' /\ Late(j)' /\ ~Dead(j)' /\ Num("new", "waiting", j)' <= 1 /\ Num("new", "dlq", j)' <= 1
    <3>1. q = "old" \/ q = "new"
      BY DEF Queue
    <3> QED BY <1>0, <3>1, <2>1, <2>2 DEF OnlySet, Blank, Live, Late, Dead
  <2>4. Rec("new", j)' \/ (Rec("old", j)' /\ Left(j)')
    BY <2>1, <2>2 DEF Left, Queue
  <2>5. Held(j)'
    BY <2>3, <2>4 DEF Held, Single
  <2> QED BY <1>2, <1>5, <2>5 DEF Relisted, Settled
<1> QED BY <1>4, <1>6, <1>7

\* A job of which nothing changes is held as it was.
LEMMA SameKeeps ==
    ASSUME NEW j, Same(j), j \in kept' => j \in kept
    PROVE  /\ Held(j) => Held(j)'
           /\ \A p : Passed(p, j) => Passed(p, j)'
           /\ \A k \in Passes : OldAt(k, j)' <=> OldAt(k, j)
           /\ Blank(j) => Blank(j)'
           /\ Rec("old", j)' = Rec("old", j) /\ Rec("new", j)' = Rec("new", j)
           /\ SameKind(j)
<1>1. /\ Num("old", "waiting", j)' = Num("old", "waiting", j) /\ Num("old", "active", j)' = Num("old", "active", j)
      /\ Num("old", "dlq", j)' = Num("old", "dlq", j) /\ Num("new", "waiting", j)' = Num("new", "waiting", j)
      /\ Num("new", "dlq", j)' = Num("new", "dlq", j)
      /\ InSet("old", j)' <=> InSet("old", j)
      /\ InSet("new", j)' <=> InSet("new", j)
      /\ Rec("old", j)' = Rec("old", j) /\ Rec("new", j)' = Rec("new", j)
  BY DEF Same, Queue, Lists
<1>2. SameKind(j) /\ (Left(j)' <=> Left(j)) /\ (Single(j) => Single(j)')
  BY <1>1 DEF SameKind, Live, Late, Dead, Left, Single
<1>3. Held(j) => Held(j)'
  BY <1>1, <1>2 DEF Held, SameKind
<1>4. /\ \A p : Passed(p, j) => Passed(p, j)'
      /\ \A k \in Passes : OldAt(k, j)' <=> OldAt(k, j)
      /\ Blank(j) => Blank(j)'
  BY <1>1 DEF Passed, OldAt, Blank, Passes
<1> QED BY <1>1, <1>2, <1>3, <1>4

\* The operations of a pass are about its job.
LEMMA PassJob ==
    ASSUME NEW j, NEW k
    PROVE  clear(k, j).j = j /\ add(k, j).j = j /\ drop(k, j).j = j
<1>1. /\ zadd("new", j).j = j /\ zrem("new", j).j = j /\ zrem("old", j).j = j
      /\ \A m : push("new", m, j).j = j /\ lremAll("new", m, j).j = j /\ lremAll("old", m, j).j = j
  BY DEF zadd, zrem, push, lremAll
<1>2. clear(k, j).j = j
  BY <1>1 DEF clear
<1>3. add(k, j).j = j
  BY <1>1 DEF add
<1>4. drop(k, j).j = j
  BY <1>1 DEF drop
<1> QED BY <1>2, <1>3, <1>4

\* A task in a call about a job is not away from it.
LEMMA NotAway ==
    ASSUME NEW j, Away("engine", j)
    PROVE  /\ \A k : ~Moving(k, j)
           /\ \A q : script["engine"] \notin {<<push(q, "waiting", j)>>, <<zadd(q, j)>>}
<1>1. PICK s : s = script["engine"]
  OBVIOUS
<1>2. \A n \in 1 .. Len(s) : s[n].j # j
  BY <1>1 DEF Away
<1>3. \A a : a.j = j => s # <<a>>
  <2> SUFFICES ASSUME NEW a, a.j = j, s = <<a>> PROVE FALSE
    OBVIOUS
  <2>1. 1 \in 1 .. Len(s) /\ s[1] = a
    OBVIOUS
  <2> QED BY <1>2, <2>1
<1>4. \A a, b : a.j = j => s # <<a, b>>
  <2> SUFFICES ASSUME NEW a, NEW b, a.j = j, s = <<a, b>> PROVE FALSE
    OBVIOUS
  <2>1. 1 \in 1 .. Len(s) /\ s[1] = a
    OBVIOUS
  <2> QED BY <1>2, <2>1
<1>5. \A a, b, c : a.j = j => s # <<a, b, c>>
  <2> SUFFICES ASSUME NEW a, NEW b, NEW c, a.j = j, s = <<a, b, c>> PROVE FALSE
    OBVIOUS
  <2>1. 1 \in 1 .. Len(s) /\ s[1] = a
    OBVIOUS
  <2> QED BY <1>2, <2>1
<1>6. \A a, b, c, d : a.j = j => s # <<a, b, c, d>>
  <2> SUFFICES ASSUME NEW a, NEW b, NEW c, NEW d, a.j = j, s = <<a, b, c, d>> PROVE FALSE
    OBVIOUS
  <2>1. 1 \in 1 .. Len(s) /\ s[1] = a
    OBVIOUS
  <2> QED BY <1>2, <2>1
<1>7. \A a, b, c, d, e : a.j = j => s # <<a, b, c, d, e>>
  <2> SUFFICES ASSUME NEW a, NEW b, NEW c, NEW d, NEW e, a.j = j, s = <<a, b, c, d, e>> PROVE FALSE
    OBVIOUS
  <2>1. 1 \in 1 .. Len(s) /\ s[1] = a
    OBVIOUS
  <2> QED BY <1>2, <2>1
<1>8. ASSUME NEW k PROVE ~Moving(k, j)
  <2>1. clear(k, j).j = j /\ add(k, j).j = j /\ drop(k, j).j = j
    BY PassJob
  <2>2. set_job("new", j).j = j /\ delete_job("old", j).j = j
    BY OpsJob
  <2>3. /\ s # <<set_job("new", j), delete_job("old", j), clear(k, j), add(k, j), drop(k, j)>>
        /\ s # <<delete_job("old", j), clear(k, j), add(k, j), drop(k, j)>>
        /\ s # <<clear(k, j), add(k, j), drop(k, j)>>
        /\ s # <<add(k, j), drop(k, j)>> /\ s # <<drop(k, j)>>
    BY <1>3, <1>4, <1>5, <1>6, <1>7, <2>1, <2>2
  <2> QED BY <1>1, <2>3 DEF Moving
<1>9. ASSUME NEW q PROVE script["engine"] \notin {<<push(q, "waiting", j)>>, <<zadd(q, j)>>}
  <2>1. push(q, "waiting", j).j = j /\ zadd(q, j).j = j
    BY DEF push, zadd
  <2> QED BY <1>1, <1>3, <2>1
<1> QED BY <1>8, <1>9

\* The tasks are away from a job in hand when it is in use.
LEMMA CarriedElsewhere ==
    ASSUME NEW j \in Jobs, Carried(j), Same(j), j \in kept' => j \in kept, UNCHANGED <<legacy, phase>>,
           touched \subseteq touched', \A q \in Queue : <<q, j>> \in work' <=> <<q, j>> \in work,
           \A w \in Writer : Away(w, j) => Away(w, j)', phase # "run" => Away("engine", j), Boot
    PROVE  Carried(j)' /\ SameKind(j)
<1>1. /\ Held(j) => Held(j)'
      /\ \A p : Passed(p, j) => Passed(p, j)'
      /\ \A k \in Passes : OldAt(k, j)' <=> OldAt(k, j)
      /\ Blank(j) => Blank(j)'
      /\ Rec("old", j)' = Rec("old", j) /\ Rec("new", j)' = Rec("new", j)
      /\ SameKind(j)
  BY SameKeeps
<1>2. CASE phase = "rebuild"
  <2>1. Away("engine", j) /\ Away("engine", j)' /\ Relisted(j)
    BY <1>2, Engine DEF Carried
  <2>2. Settled(j) => Settled(j)'
    BY <1>1, <2>1 DEF Settled
  <2>3. ASSUME Unlisted(j) PROVE Unlisted(j)'
    <3>1. \A q \in Queue : <<q, j>> \in work' <=> Rec(q, j)'
      BY <1>1, <2>3 DEF Queue, Unlisted
    <3> QED BY <1>1, <2>1, <2>3, <3>1 DEF Unlisted
  <2>4. ~Relisting(j)
    BY <2>1, NotAway DEF Relisting
  <2>5. Relisted(j)'
    BY <2>1, <2>2, <2>3, <2>4 DEF Relisted
  <2>6. phase' \notin Passes /\ phase' # "run"
    BY <1>2 DEF Passes
  <2> QED BY <1>1, <2>5, <2>6 DEF Carried
<1>3. CASE phase \in Passes
  <2>0. phase # "run" /\ phase # "rebuild"
    BY <1>3 DEF Passes
  <2>1. Away("engine", j) /\ Away("engine", j)' /\ Held(j) /\ Passed(phase, j) /\ Turn(phase, j)
    BY <1>3, <2>0, Engine DEF Carried
  <2>2. PICK k \in Passes : k = phase
    BY <1>3
  <2>3. ~Moving(k, j)
    BY <2>1, NotAway
  <2>4. OldAt(k, j)' <=> <<"old", j>> \in work'
    BY <1>1, <2>1, <2>2, <2>3 DEF Turn, Queue
  <2>5. Held(j)' /\ Passed(k, j)' /\ Turn(k, j)'
    BY <1>1, <2>1, <2>2, <2>4 DEF Turn
  <2> QED BY <1>1, <2>0, <2>2, <2>5 DEF Carried
<1>4. CASE phase = "run"
  <2>1. Held(j)' /\ Passed("run", j)' /\ \A w \in Writer : Away(w, j)'
    BY <1>1, <1>4 DEF Carried
  <2>2. phase' \notin Passes /\ phase' # "rebuild"
    BY <1>4 DEF Passes
  <2> QED BY <1>1, <2>1, <2>2 DEF Carried
<1> QED BY <1>2, <1>3, <1>4 DEF Boot

\* A store operation carries every job on.
LEMMA CarriedStore ==
    ASSUME Contents, ScriptsOK, SaveTypeOK, OneJob, Boot, NEW w \in Writer, StoreStep(w),
           NEW j \in Jobs, Carried(j)
    PROVE  Carried(j)' /\ (j \in legacy \ touched => SameKind(j))
<1>0. UNCHANGED <<phase, work, hand, pushed, legacy, kept, touched>>
  BY DEF StoreStep
<1>1. phase # "run" => w = "engine"
  BY FilesAssumption DEF Boot, StoreStep
<1>2. PICK o \in StoreOp : o = Head(script[w])
  BY ScriptHead
<1>3. CASE o.j # j
  <2>1. Same(j)
    BY <1>2, <1>3, OpElsewhere
  <2>2. \A v \in Writer : Away(v, j) => Away(v, j)'
    BY AwayStep
  <2>3. phase # "run" => Away("engine", j)
    BY <1>1, <1>2, <1>3, OthersAway
  <2> QED BY <1>0, <2>1, <2>2, <2>3, CarriedElsewhere
<1>4. CASE o.j = j
  <2>1. ~Away(w, j)
    BY <1>2, <1>4, OthersAway
  <2>2. phase # "run" /\ w = "engine"
    BY <1>1, <2>1 DEF Carried
  <2>3. CASE phase = "rebuild"
    <3>1. Relisting(j)
      BY <2>1, <2>2, <2>3 DEF Carried, Relisted, Settled, Unlisted
    <3>2. PICK q \in Queue : Rec(q, j) /\ script["engine"] \in {<<push(q, "waiting", j)>>, <<zadd(q, j)>>}
      BY <3>1 DEF Relisting
    <3>3. Blank(j) /\ (\A p \in Queue : <<p, j>> \notin work) /\ j \notin legacy \ touched
      BY <3>1 DEF Relisting
    <3>4. Relisted(j)'
      BY <2>2, <3>2, <3>3, RelistStep
    <3>5. phase' \notin Passes /\ phase' # "run"
      BY <1>0, <2>3 DEF Passes
    <3> QED BY <3>3, <3>4, <3>5 DEF Carried
  <2>4. CASE phase \in Passes
    <3>1. PICK k \in Passes : k = phase
      BY <2>4
    <3>2. Moving(k, j) /\ Held(j) /\ Passed(k, j)
      BY <2>1, <2>2, <3>1 DEF Carried, Turn
    <3>3. Held(j)' /\ SameKind(j) /\ Passed(k, j)' /\ Turn(k, j)'
      BY <2>2, <3>2, MovingStep
    <3>4. phase' = k /\ k # "rebuild" /\ k # "run"
      BY <1>0, <3>1 DEF Passes
    <3> QED BY <3>3, <3>4 DEF Carried
  <2> QED BY <2>2, <2>3, <2>4 DEF Boot
<1> QED BY <1>3, <1>4

\* The passes follow one another.
LEMMA CarriedNextPass ==
    ASSUME Contents, ScriptsOK, Boot, NextPass, NEW j \in Jobs, Carried(j)
    PROVE  Carried(j)'
<1>0. /\ UNCHANGED <<mem, script, legacy, kept, touched>> /\ work = {} /\ script["engine"] = <<>> /\ phase # "run"
      /\ phase' = passAfter[phase]
  BY DEF NextPass, saveVars, Idle
<1>1. Same(j)
  BY <1>0, MemSame
<1>2. /\ Held(j) => Held(j)'
      /\ \A p : Passed(p, j) => Passed(p, j)'
      /\ \A k \in Passes : OldAt(k, j)' <=> OldAt(k, j)
  BY <1>0, <1>1, SameKeeps
<1>3. Away("engine", j) /\ Away("engine", j)' /\ Away("producer", j)'
  BY <1>0 DEF Away, Boot
<1>4. Held(j) /\ Passed(phase', j)
  <2>1. CASE phase = "rebuild"
    <3>1. ~Relisting(j)
      BY <1>3, NotAway DEF Relisting
    <3>2. ~Unlisted(j)
      <4>1. Rec("old", j) \in BOOLEAN /\ Rec("new", j) \in BOOLEAN
        BY MemFits DEF Rec, Queue
      <4> QED BY <1>0, <4>1 DEF Unlisted, Queue
    <3>3. phase' = "waiting"
      BY <1>0, <2>1 DEF passAfter
    <3> QED BY <2>1, <3>1, <3>2, <3>3 DEF Carried, Relisted, Settled, Passed
  <2>2. CASE phase \in Passes
    <3>1. PICK k \in Passes : k = phase
      BY <2>2
    <3>2. Held(j) /\ Passed(k, j) /\ ~OldAt(k, j)
      BY <1>0, <1>3, <3>1, NotAway DEF Carried, Turn
    <3>3. \A m \in Lists : Num("old", m, j) \in Nat
      BY NumTypes DEF Queue
    <3>4. /\ k = "waiting" => phase' = "active" /\ Num("old", "waiting", j) = 0
          /\ k = "active" => phase' = "delayed" /\ Num("old", "active", j) = 0
          /\ k = "delayed" => phase' = "dlq" /\ ~InSet("old", j)
          /\ k = "dlq" => phase' = "run" /\ Num("old", "dlq", j) = 0
      BY <1>0, <3>1, <3>2, <3>3 DEF passAfter, OldAt, Lists
    <3> QED BY <3>2, <3>4 DEF Passes, Passed
  <2> QED BY <1>0, <2>1, <2>2 DEF Boot
<1>5. phase' \in Passes \cup {"run"}
  BY <1>0 DEF passAfter, Passes, Boot
<1>6. CASE phase' = "run"
  <2>1. \A w \in Writer : Away(w, j)'
    BY <1>3, FilesAssumption
  <2>2. "run" \notin Passes
    BY DEF Passes
  <2> QED BY <1>2, <1>4, <1>6, <2>1, <2>2 DEF Carried
<1>7. CASE phase' \in Passes
  <2>1. PICK k \in Passes : k = phase'
    BY <1>7
  <2>2. OldAt(k, j) <=> <<"old", j>> \in work'
    <3>1. CASE k = "delayed"
      <4>1. work' = {"old"} \X mem[SetsFile]["old"]
        BY <2>1, <3>1 DEF NextPass
      <4> QED BY <3>1, <4>1 DEF OldAt, InSet
    <3>2. CASE k \in {"waiting", "active", "dlq"}
      <4>1. work' = Listed(k) /\ k # "delayed"
        BY <2>1, <3>2 DEF NextPass
      <4>2. <<"old", j>> \in Records
        BY FileFacts DEF Queue
      <4> QED BY <4>1, <4>2 DEF OldAt, Listed, Num
    <3> QED BY <3>1, <3>2 DEF Passes
  <2>3. Turn(k, j)'
    BY <1>2, <1>3, <2>2 DEF Turn
  <2>4. k # "run" /\ k # "rebuild"
    BY DEF Passes
  <2> QED BY <1>2, <1>4, <2>1, <2>3, <2>4 DEF Carried
<1> QED BY <1>5, <1>6, <1>7

\* A record that is to be listed again.
LEMMA CarriedRelists ==
    ASSUME Contents, ScriptsOK, Boot, NEW i \in Jobs, Relists(i), NEW j \in Jobs, Carried(j)
    PROVE  Carried(j)'
<1>1. PICK q \in Queue : RebuildOne(<<q, i>>) /\ Issues("engine", i)
  BY DEF Relists
<1>2. /\ UNCHANGED <<mem, phase, legacy, kept, touched>> /\ phase = "rebuild" /\ <<q, i>> \in work
      /\ work' = work \ {<<q, i>>} /\ script["engine"] = <<>>
  BY <1>1 DEF RebuildOne, saveVars, begin, Idle
<1>3. Same(j)
  BY <1>2, MemSame
<1>4. Away("engine", j)
  BY <1>2 DEF Away
<1>5. CASE i # j
  <2>1. \A w \in Writer : Away(w, j) => Away(w, j)'
    BY <1>1, <1>5, AwayStep, Engine
  <2>2. \A p \in Queue : <<p, j>> \in work' <=> <<p, j>> \in work
    BY <1>2, <1>5
  <2> QED BY <1>2, <1>3, <1>4, <2>1, <2>2, CarriedElsewhere
<1>6. CASE i = j
  <2>1. Unlisted(j)
    BY <1>2, <1>4, <1>6, NotAway DEF Carried, Relisted, Settled, Relisting
  <2>2. Rec(q, j) /\ Rec("old", j) # Rec("new", j) /\ j \notin legacy \ touched /\ Blank(j)
    BY <1>2, <1>6, <2>1 DEF Unlisted
  <2>3. \A p \in Queue : <<p, j>> \notin work'
    <3> SUFFICES ASSUME NEW p \in Queue, p # q PROVE <<p, j>> \notin work
      BY <1>2, <1>6
    <3>1. Rec("old", j) \in BOOLEAN /\ Rec("new", j) \in BOOLEAN
      BY MemFits DEF Rec, Queue
    <3>2. ~Rec(p, j)
      BY <2>2, <3>1 DEF Queue
    <3> QED BY <2>1, <3>2 DEF Unlisted
  <2>4. Blank(j)' /\ Rec(q, j)'
    BY <1>2, <1>3, <2>2, SameKeeps DEF Queue
  <2>5. script'["engine"] \in {<<push(q, "waiting", j)>>, <<zadd(q, j)>>}
    BY <1>1, <1>6, Engine DEF RebuildOne, begin, ScriptsOK
  <2>6. Relisting(j)'
    BY <1>2, <2>2, <2>3, <2>4, <2>5 DEF Relisting
  <2>7. phase' \notin Passes /\ phase' # "run"
    BY <1>2 DEF Passes
  <2> QED BY <2>6, <2>7 DEF Carried, Relisted
<1> QED BY <1>5, <1>6

\* The call by which the drain moves a job.
LEMMA MigrateScript ==
    ASSUME ScriptsOK, NEW j \in Jobs, NEW k \in Passes, k = phase,
           MigrateListed(j) \/ MigrateDelayed(j) \/ MigrateDlq(j)
    PROVE  script'["engine"] =
              IF k # "dlq" /\ (Rec("old", j) \/ Rec("new", j))
              THEN <<set_job("new", j), delete_job("old", j), clear(k, j), add(k, j), drop(k, j)>>
              ELSE <<clear(k, j), add(k, j), drop(k, j)>>
<1> DEFINE ops == <<clear(k, j), add(k, j), drop(k, j)>>
<1>1. script'["engine"] = IF k = "dlq" THEN ops ELSE move_job_record(j) \o ops
  <2>0. \A s : begin("engine", s) => script'["engine"] = s
    BY Engine DEF begin, ScriptsOK
  <2>1. CASE MigrateListed(j)
    <3>1. k \in {"waiting", "active"}
      BY <2>1 DEF MigrateListed
    <3>2. ops = <<lremAll("new", "waiting", j), push("new", "waiting", j), lremAll("old", phase, j)>>
      BY <3>1 DEF clear, add, drop, into
    <3> HIDE DEF ops
    <3>3. begin("engine", move_job_record(j) \o ops)
      BY <2>1, <3>2 DEF MigrateListed
    <3> QED BY <2>0, <3>1, <3>3
  <2>2. CASE MigrateDelayed(j)
    <3>1. k = "delayed"
      BY <2>2 DEF MigrateDelayed
    <3>2. ops = <<zrem("new", j), zadd("new", j), zrem("old", j)>>
      BY <3>1 DEF clear, add, drop
    <3> HIDE DEF ops
    <3>3. begin("engine", move_job_record(j) \o ops)
      BY <2>2, <3>2 DEF MigrateDelayed
    <3> QED BY <2>0, <3>1, <3>3
  <2>3. CASE MigrateDlq(j)
    <3>1. k = "dlq"
      BY <2>3 DEF MigrateDlq
    <3>2. ops = <<lremAll("new", "dlq", j), push("new", "dlq", j), lremAll("old", "dlq", j)>>
      BY <3>1 DEF clear, add, drop, into
    <3> HIDE DEF ops
    <3>3. begin("engine", ops)
      BY <2>3, <3>2 DEF MigrateDlq
    <3> QED BY <2>0, <3>1, <3>3
  <2> QED BY <2>1, <2>2, <2>3
<1>2. CASE Rec("old", j) \/ Rec("new", j)
  <2>1. move_job_record(j) = <<set_job("new", j), delete_job("old", j)>>
    BY <1>2 DEF move_job_record, Rec
  <2>2. \A a, b, c, d, e : <<a, b>> \o <<c, d, e>> = <<a, b, c, d, e>>
    <3> TAKE a, b, c, d, e
    <3> DEFINE S == {a, b, c, d, e}
               l == <<a, b>>
               r == <<c, d, e>>
               t == <<a, b, c, d, e>>
    <3>1. l \in Seq(S) /\ Len(l) = 2 /\ l[1] = a /\ l[2] = b
      OBVIOUS
    <3>2. r \in Seq(S) /\ Len(r) = 3 /\ r[1] = c /\ r[2] = d /\ r[3] = e
      OBVIOUS
    <3>3. t \in Seq(S) /\ Len(t) = 5 /\ t[1] = a /\ t[2] = b /\ t[3] = c /\ t[4] = d /\ t[5] = e
      OBVIOUS
    <3> HIDE DEF S, l, r, t
    <3>4. /\ l \o r \in Seq(S) /\ Len(l \o r) = 5
          /\ \A n \in 1 .. 5 : (l \o r)[n] = IF n <= 2 THEN l[n] ELSE r[n - 2]
      <4>1. /\ l \o r \in Seq(S) /\ Len(l \o r) = Len(l) + Len(r)
            /\ \A n \in 1 .. Len(l) + Len(r) : (l \o r)[n] = IF n <= Len(l) THEN l[n] ELSE r[n - Len(l)]
        BY <3>1, <3>2, ConcatProperties, Zenon
      <4>2. Len(l) = 2 /\ Len(r) = 3 /\ Len(l) + Len(r) = 5
        BY <3>1, <3>2
      <4> QED BY <4>1, <4>2, Zenon
    <3>5. \A n \in 1 .. 5 : (l \o r)[n] = t[n]
      <4>1. ASSUME NEW n \in 1 .. 5 PROVE n = 1 \/ n = 2 \/ n = 3 \/ n = 4 \/ n = 5
        OBVIOUS
      <4> QED BY <3>1, <3>2, <3>3, <3>4, <4>1
    <3>6. l \o r = t
      BY <3>3, <3>4, <3>5, SeqEqual
    <3> QED BY <3>6 DEF l, r, t
  <2>3. move_job_record(j) \o ops
        = <<set_job("new", j), delete_job("old", j), clear(k, j), add(k, j), drop(k, j)>>
    BY <2>1, <2>2
  <2> QED BY <1>1, <1>2, <2>3
<1>3. CASE ~(Rec("old", j) \/ Rec("new", j))
  <2>1. move_job_record(j) = <<>>
    BY <1>3 DEF move_job_record, Rec
  <2>2. \A c, d, e : <<>> \o <<c, d, e>> = <<c, d, e>>
    OBVIOUS
  <2>3. move_job_record(j) \o ops = ops
    BY <2>1, <2>2
  <2> HIDE DEF ops
  <2>4. script'["engine"] = ops
    BY <1>1, <2>3
  <2> QED BY <1>3, <2>4 DEF ops
<1> QED BY <1>2, <1>3

\* A job whose turn comes in a pass.
LEMMA CarriedMigrates ==
    ASSUME Contents, ScriptsOK, Boot, NEW i \in Jobs, Migrates(i), NEW j \in Jobs, Carried(j)
    PROVE  Carried(j)'
<1>1. /\ UNCHANGED <<mem, phase, legacy, kept, touched>> /\ phase \in Passes /\ <<"old", i>> \in work
      /\ work' = work \ {<<"old", i>>} /\ script["engine"] = <<>> /\ Issues("engine", i)
  BY DEF Migrates, MigrateListed, MigrateDelayed, MigrateDlq, saveVars, begin, Idle, Passes
<1>2. Same(j)
  BY <1>1, MemSame
<1>3. Away("engine", j)
  BY <1>1 DEF Away
<1>4. CASE i # j
  <2>1. \A w \in Writer : Away(w, j) => Away(w, j)'
    BY <1>1, <1>4, AwayStep, Engine
  <2>2. \A p \in Queue : <<p, j>> \in work' <=> <<p, j>> \in work
    BY <1>1, <1>4
  <2> QED BY <1>1, <1>2, <1>3, <2>1, <2>2, CarriedElsewhere
<1>5. CASE i = j
  <2>1. PICK k \in Passes : k = phase
    BY <1>1
  <2>2. Held(j) /\ Passed(k, j) /\ OldAt(k, j)
    BY <1>1, <1>3, <1>5, <2>1, NotAway DEF Carried, Turn
  <2>3. Held(j)' /\ Passed(k, j)' /\ OldAt(k, j)' /\ Rec("new", j)' = Rec("new", j)
    BY <1>1, <1>2, <2>2, SameKeeps
  <2>4. script'["engine"] =
              IF k # "dlq" /\ (Rec("old", j) \/ Rec("new", j))
              THEN <<set_job("new", j), delete_job("old", j), clear(k, j), add(k, j), drop(k, j)>>
              ELSE <<clear(k, j), add(k, j), drop(k, j)>>
    BY <1>5, <2>1, MigrateScript DEF Migrates
  <2>5. <<"old", j>> \notin work'
    BY <1>1, <1>5
  <2>6. Moving(k, j)'
    <3>1. CASE k # "dlq" /\ (Rec("old", j) \/ Rec("new", j))
      BY <2>3, <2>4, <2>5, <3>1 DEF Moving
    <3>2. CASE ~(k # "dlq" /\ (Rec("old", j) \/ Rec("new", j)))
      <4>1. Moved(k, j)'
        <5> SUFFICES ASSUME k # "dlq", j \in kept PROVE FALSE
          BY <1>1 DEF Moved
        <5>1. Dead(j)
          BY <2>2, <3>2 DEF Held
        <5>2. Live(j) \/ Late(j)
          BY <2>2 DEF OldAt, Live, Late, Passes
        <5> QED BY <2>2, <5>1, <5>2 DEF Held, Single
      <4>2. script'["engine"] = <<clear(k, j), add(k, j), drop(k, j)>>
        BY <2>4, <3>2
      <4> QED BY <2>3, <2>5, <4>1, <4>2 DEF Moving
    <3> QED BY <3>1, <3>2
  <2>7. phase' = k /\ k # "rebuild" /\ k # "run"
    BY <1>1, <2>1 DEF Passes
  <2> QED BY <2>3, <2>6, <2>7 DEF Carried, Turn
<1> QED BY <1>4, <1>5

\* A step that changes nothing of the queue.
LEMMA CarriedPause ==
    ASSUME Pause, NEW j, Carried(j)
    PROVE  Carried(j)'
<1>0. UNCHANGED <<phase, work, script, legacy, kept, touched>> /\ Same(j)
  BY MemSame DEF Pause
<1>1. /\ Held(j) => Held(j)'
      /\ \A p : Passed(p, j) => Passed(p, j)'
      /\ \A k \in Passes : OldAt(k, j)' <=> OldAt(k, j)
      /\ Blank(j) => Blank(j)'
      /\ Rec("old", j)' = Rec("old", j) /\ Rec("new", j)' = Rec("new", j)
  BY <1>0, SameKeeps
<1>2. \A w : Away(w, j) => Away(w, j)'
  BY <1>0 DEF Away
<1>3. \A q \in Queue : Rec(q, j)' = Rec(q, j)
  BY <1>0 DEF Same
<1>4. ASSUME NEW k \in Passes, Moving(k, j) PROVE Moving(k, j)'
  <2>1. (Gone(k, j) => Gone(k, j)') /\ (Once1(k, j) => Once1(k, j)') /\ (Moved(k, j) => Moved(k, j)')
    BY <1>0 DEF Same, Gone, Once1, Moved, into, Queue, Lists
  <2>2. script'["engine"] = script["engine"] /\ work' = work
    BY <1>0
  <2> QED BY <1>1, <1>4, <2>1, <2>2 DEF Moving
<1>5. Relisted(j) => Relisted(j)'
  <2>1. Settled(j) => Settled(j)'
    BY <1>0, <1>1, <1>2 DEF Settled
  <2>2. Unlisted(j) => Unlisted(j)'
    BY <1>0, <1>1, <1>2, <1>3 DEF Unlisted
  <2>3. Relisting(j) => Relisting(j)'
    BY <1>0, <1>1, <1>3 DEF Relisting
  <2> QED BY <2>1, <2>2, <2>3 DEF Relisted
<1>6. \A k \in Passes : Turn(k, j) => Turn(k, j)'
  BY <1>0, <1>1, <1>2, <1>4 DEF Turn
<1> QED BY <1>0, <1>1, <1>2, <1>5, <1>6 DEF Carried

\* A job that is not the one that is pushed or consumed.
LEMMA CarriedUse ==
    ASSUME ScriptsOK, Boot, Unpushed, NEW i \in Jobs, Pushes(i) \/ Uses(i), NEW j \in Tracked', j \in Jobs, Carried(j)
    PROVE  Carried(j)' /\ j \in Tracked
<1>1. /\ UNCHANGED <<mem, phase, work, legacy>> /\ phase = "run" /\ kept' \subseteq kept /\ touched \subseteq touched'
      /\ \E w \in Writer : Issues(w, i)
  BY Engine DEF Pushes, Push, Uses, Consumes, Issues, saveVars
<1>2. i # j
  <2>1. CASE Pushes(i)
    <3>1. i \in Fresh \ pushed /\ UNCHANGED <<kept, legacy, touched>>
      BY <2>1 DEF Pushes, Push
    <3>2. i \notin kept
      BY <3>1 DEF Unpushed, Unborn
    <3>3. i \notin legacy
      BY <3>1, FilesAssumption DEF Boot
    <3> QED BY <3>1, <3>2, <3>3 DEF Tracked
  <2>2. CASE Uses(i)
    BY <2>2 DEF Uses, Consumes, Tracked
  <2> QED BY <2>1, <2>2
<1>3. \A w \in Writer : Away(w, j) => Away(w, j)'
  BY <1>1, <1>2, AwayStep
<1>4. Same(j)
  BY <1>1, MemSame
<1>5. Carried(j)'
  BY <1>1, <1>3, <1>4, CarriedElsewhere
<1> QED BY <1>1, <1>5 DEF Tracked

-----------------------------------------------------------------------------
(* The kind of place of a job of the old queue. *)

OfKind(kind, j) ==
    Single(j) /\ (kind = "waiting" <=> Live(j)) /\ (kind = "delayed" <=> Late(j)) /\ (kind = "dead" <=> Dead(j))

\* What memory says of the kind.
LEMMA KindIs ==
    ASSUME Contents, NEW j \in Jobs, NEW kind \in {"waiting", "delayed", "dead"}
    PROVE  ListedAs(kind, mem[ListsFile], j) /\ SetAs(kind, mem[SetsFile], j) <=> OfKind(kind, j)
<1>0. /\ Num("old", "waiting", j) \in Nat /\ Num("old", "active", j) \in Nat /\ Num("old", "dlq", j) \in Nat
      /\ Num("new", "waiting", j) \in Nat /\ Num("new", "dlq", j) \in Nat
  BY NumTypes DEF Queue, Lists
<1>1. ListedAs(kind, mem[ListsFile], j) <=>
         /\ kind = "waiting" =>
               /\ Num("old", "waiting", j) > 0 \/ Num("old", "active", j) > 0 \/ Num("new", "waiting", j) = 1
               /\ Num("new", "waiting", j) <= 1
         /\ kind # "waiting" =>
               Num("old", "waiting", j) = 0 /\ Num("old", "active", j) = 0 /\ Num("new", "waiting", j) = 0
         /\ kind = "dead" => (Num("old", "dlq", j) > 0 \/ Num("new", "dlq", j) = 1) /\ Num("new", "dlq", j) <= 1
         /\ kind # "dead" => Num("old", "dlq", j) = 0 /\ Num("new", "dlq", j) = 0
  BY DEF ListedAs, Num, count
<1>2. SetAs(kind, mem[SetsFile], j) <=> (kind = "delayed" <=> Late(j))
  BY DEF SetAs, Late, InSet
<1>3. CASE kind = "waiting"
  BY <1>0, <1>1, <1>2, <1>3 DEF OfKind, Single, Live, Dead
<1>4. CASE kind = "delayed"
  BY <1>0, <1>1, <1>2, <1>4 DEF OfKind, Single, Live, Dead
<1>5. CASE kind = "dead"
  BY <1>0, <1>1, <1>2, <1>5 DEF OfKind, Single, Live, Dead
<1> QED BY <1>3, <1>4, <1>5

(* Memory lists a job as a kind exactly when it is of that kind. *)
KindsMatch ==
    \A j \in Jobs, kind \in {"waiting", "delayed", "dead"} :
        ListedAs(kind, mem[ListsFile], j) /\ SetAs(kind, mem[SetsFile], j) <=> OfKind(kind, j)

\* So it does.
LEMMA KindsAre == Contents => KindsMatch
BY KindIs DEF KindsMatch

\* A job of the old queue that no consumer has touched is always held.
LEMMA LegacyHeld ==
    ASSUME Boot, NEW j, Carried(j), j \in legacy \ touched
    PROVE  Held(j)
BY DEF Carried, Relisted, Settled, Unlisted, Relisting, Boot

\* Every version of the files keeps the job in its kind of place.
LEMMA KindsStep ==
    ASSUME Contents, ScriptsOK, SaveTypeOK, OneJob, Boot, Kinds, [Next]_vars,
           \A j \in Tracked : Carried(j)
    PROVE  Kinds'
<1>1. legacy' = legacy /\ touched \subseteq touched'
  BY StepKinds DEF Pause, NextPass, Crash, StoreStep, Relists, RebuildOne, Migrates, MigrateListed, MigrateDelayed,
                   MigrateDlq, Pushes, Push, Uses, Consumes
<1> SUFFICES ASSUME NEW j \in legacy \ touched, j \notin touched'
             PROVE  \E kind \in {"waiting", "delayed", "dead"} : Steady(kind, j)'
  BY <1>1 DEF Kinds
<1>2. j \in Jobs /\ Carried(j)
  BY DEF Boot, Jobs, Tracked
<1>3. PICK kind \in {"waiting", "delayed", "dead"} : Steady(kind, j)
  BY DEF Kinds
<1>4. ListedAs(kind, mem'[ListsFile], j) /\ SetAs(kind, mem'[SetsFile], j)
  <2>1. ASSUME NEW w \in Writer, StoreStep(w)
        PROVE  ListedAs(kind, mem'[ListsFile], j) /\ SetAs(kind, mem'[SetsFile], j)
    <3>1. Carried(j)' /\ SameKind(j)
      BY <1>2, <2>1, CarriedStore
    <3>2. Boot' /\ Contents'
      BY BootStep, ContentsStep
    <3>3. j \in (legacy \ touched)'
      BY <1>1
    <3>4. (Boot /\ Carried(j) /\ j \in legacy \ touched => Held(j))'
      BY LegacyHeld, PTL
    <3>5. Single(j)'
      BY <3>1, <3>2, <3>3, <3>4 DEF Held
    <3>6. OfKind(kind, j)
      BY <1>2, <1>3, KindIs DEF Steady, Versions
    <3>7. OfKind(kind, j)'
      BY <3>1, <3>5, <3>6 DEF OfKind, SameKind
    <3>8. Contents' => KindsMatch'
      BY KindsAre, PTL
    <3>9. (ListedAs(kind, mem[ListsFile], j) /\ SetAs(kind, mem[SetsFile], j))'
      BY <1>2, <3>2, <3>7, <3>8 DEF KindsMatch
    <3> QED BY <3>9 DEF ListedAs, SetAs
  <2>2. CASE mem' = disk \/ mem' = mem
    BY <1>3, <2>2 DEF Steady, Versions
  <2> QED BY <2>1, <2>2, MemMoves
<1>5. ASSUME NEW v \in Versions(ListsFile)' PROVE ListedAs(kind, v, j)
  BY <1>3, <1>4, FileFacts, NextSaves, VersionsStep DEF Steady
<1>6. ASSUME NEW v \in Versions(SetsFile)' PROVE SetAs(kind, v, j)
  BY <1>3, <1>4, FileFacts, NextSaves, VersionsStep DEF Steady
<1> QED BY <1>5, <1>6 DEF Steady, ListedAs, SetAs

-----------------------------------------------------------------------------
(* The process starts. *)

Started ==
    /\ phase = "rebuild" /\ script = [w \in Writer |-> <<>>] /\ hand = 0
    /\ work = IF HasQueueState(mem) THEN {} ELSE {r \in Records : mem[r]}
    /\ kept = Restorable(mem)

\* Files that list nothing list no job.
LEMMA NoState ==
    ASSUME Contents, NEW j \in Jobs
    PROVE  ~HasQueueState(mem) => Blank(j)
<1> SUFFICES ASSUME ~HasQueueState(mem) PROVE Blank(j)
  OBVIOUS
<1>1. \A q \in Queue, k \in Lists : <<q, k>> \in ListKey /\ Num(q, k, j) \in Nat
  BY MemFits DEF Num
<1>2. \A q \in Queue, k \in Lists : Num(q, k, j) = 0
  <2> SUFFICES ASSUME NEW q \in Queue, NEW k \in Lists PROVE Num(q, k, j) = 0
    OBVIOUS
  <2>1. ~(mem[ListsFile][<<q, k>>][j] > 0)
    BY <1>1 DEF HasQueueState
  <2>2. ~(Num(q, k, j) > 0) /\ Num(q, k, j) \in Nat
    BY <1>1, <2>1 DEF Num, count
  <2> QED BY <2>2
<1>3. \A q \in Queue : ~InSet(q, j)
  BY DEF HasQueueState, InSet
<1> QED BY <1>2, <1>3 DEF Blank, Queue, Lists

\* The start finds every job that the files can restore, and every job of the
\* old queue that no consumer has touched.
LEMMA FreshStart ==
    Started /\ Contents /\ Kinds /\ Boot => \A j \in Tracked : Carried(j)
<1> SUFFICES ASSUME Started, Contents, Kinds, Boot, NEW j \in Tracked PROVE Carried(j)
  OBVIOUS
<1>0. j \in Jobs
  BY DEF Tracked, Boot, Jobs
<1>1. Away("engine", j)
  BY Engine DEF Started, Away
<1>2. j \in legacy \ touched => Single(j)
  <2> SUFFICES ASSUME j \in legacy \ touched PROVE Single(j)
    OBVIOUS
  <2>1. PICK kind \in {"waiting", "delayed", "dead"} : Steady(kind, j)
    BY DEF Kinds
  <2>2. OfKind(kind, j)
    BY <1>0, <2>1, KindIs DEF Steady, Versions
  <2> QED BY <2>2 DEF OfKind
<1>3. CASE HasQueueState(mem)
  <2>1. j \in kept => Once(mem, j) /\ (AsDead(mem, j) \/ HasRecord(mem, j))
    BY <1>3 DEF Started, Restorable
  <2>2. j \in kept => Single(j) /\ (Dead(j) \/ Rec("new", j) \/ (Rec("old", j) /\ Left(j)))
    BY <2>1, OnceIs DEF HasRecord, Rec
  <2>3. Held(j)
    BY <1>2, <2>2 DEF Held, Tracked
  <2>4. Settled(j)
    BY <1>1, <1>3, <2>3 DEF Settled, Started
  <2> QED BY <2>4 DEF Carried, Relisted, Started, Passes
<1>4. CASE ~HasQueueState(mem)
  <2>1. Blank(j)
    BY <1>0, <1>4, NoState
  <2>2. ~Single(j)
    BY <2>1 DEF Blank, Single, Live, Late, Dead
  <2>3. j \in kept /\ j \notin legacy \ touched
    BY <1>2, <2>2 DEF Tracked
  <2>4. Rec("old", j) # Rec("new", j)
    BY <1>4, <2>3 DEF Started, Restorable, Rec
  <2>5. \A q \in Queue : <<q, j>> \in work <=> Rec(q, j)
    <3>1. \A q \in Queue : <<q, j>> \in Records
      BY <1>0, FileFacts
    <3> QED BY <1>4, <3>1 DEF Started, Rec
  <2>6. Unlisted(j)
    BY <1>1, <2>1, <2>3, <2>4, <2>5 DEF Unlisted
  <2> QED BY <2>6 DEF Carried, Relisted, Started, Passes
<1> QED BY <1>3, <1>4

\* Every job is carried by every step.
LEMMA CarriedStep ==
    ASSUME Contents, ScriptsOK, SaveTypeOK, OneJob, Boot, Unpushed, Kinds, [Next]_vars,
           \A j \in Tracked : Carried(j)
    PROVE  \A j \in Tracked' : Carried(j)'
<1>0. Boot' /\ Contents' /\ Kinds'
  BY BootStep, ContentsStep, KindsStep
<1>1. CASE Crash
  <2>1. Started'
    BY <1>1 DEF Crash, started, reload, Started
  <2>2. (Started /\ Contents /\ Kinds /\ Boot)' => (\A j \in Tracked : Carried(j))'
    BY FreshStart, PTL
  <2> QED BY <1>0, <2>1, <2>2
<1>3. \A j \in Tracked : j \in Jobs /\ Carried(j)
  BY DEF Tracked, Boot, Jobs
<1>4. CASE Pause
  BY <1>3, <1>4, CarriedPause DEF Pause, Tracked
<1>5. CASE NextPass
  BY <1>3, <1>5, CarriedNextPass DEF NextPass, Tracked
<1>6. ASSUME NEW w \in Writer, StoreStep(w) PROVE \A j \in Tracked' : Carried(j)'
  BY <1>3, <1>6, CarriedStore DEF StoreStep, Tracked
<1>7. ASSUME NEW i \in Jobs, Relists(i) PROVE \A j \in Tracked' : Carried(j)'
  BY <1>3, <1>7, CarriedRelists DEF Relists, RebuildOne, Tracked
<1>8. ASSUME NEW i \in Jobs, Migrates(i) PROVE \A j \in Tracked' : Carried(j)'
  BY <1>3, <1>8, CarriedMigrates DEF Migrates, MigrateListed, MigrateDelayed, MigrateDlq, Tracked
<1>9. ASSUME NEW i \in Jobs, Pushes(i) \/ Uses(i), NEW j \in Tracked' PROVE Carried(j)'
  <2>1. Tracked' \subseteq Tracked
    BY <1>9 DEF Pushes, Push, Uses, Consumes, Tracked
  <2> QED BY <1>3, <1>9, <2>1, CarriedUse
<1> QED BY <1>1, <1>4, <1>5, <1>6, <1>7, <1>8, <1>9, StepKinds

-----------------------------------------------------------------------------
(* The files of the pre-namespace engine. *)

\* What they have of each job.
LEMMA LegacyFacts ==
    ASSUME NEW place, disk = LegacyFiles(place)
    PROVE  /\ disk[ListsFile] = [l \in ListKey |-> [j \in Jobs |->
                                    IF l[1] = "old" /\ j \in Legacy /\ place[j] = l[2] THEN 1 ELSE 0]]
           /\ disk[SetsFile] = [q \in Queue |-> {j \in Legacy : q = "old" /\ place[j] = "delayed"}]
           /\ \A q \in Queue, j \in Jobs :
                 disk[<<q, j>>] = (q = "old" /\ j \in Legacy /\ place[j] \notin {"dlq", "gone"})
<1>1. ListsFile \in File /\ SetsFile \in File /\ ListsFile # SetsFile
  BY FileFacts
<1>2. disk[ListsFile] = [l \in ListKey |-> [j \in Jobs |->
                            IF l[1] = "old" /\ j \in Legacy /\ place[j] = l[2] THEN 1 ELSE 0]]
  BY <1>1 DEF LegacyFiles
<1>3. disk[SetsFile] = [q \in Queue |-> {j \in Legacy : q = "old" /\ place[j] = "delayed"}]
  BY <1>1 DEF LegacyFiles
<1>4. ASSUME NEW q \in Queue, NEW j \in Jobs
      PROVE  disk[<<q, j>>] = (q = "old" /\ j \in Legacy /\ place[j] \notin {"dlq", "gone"})
  <2>1. <<q, j>> \in File /\ <<q, j>> # ListsFile /\ <<q, j>> # SetsFile
    BY FileFacts
  <2>2. disk[<<q, j>>] = (<<q, j>>[1] = "old" /\ <<q, j>>[2] \in Legacy /\ place[<<q, j>>[2]] \notin {"dlq", "gone"})
    BY <2>1 DEF LegacyFiles
  <2> QED BY <2>2
<1> QED BY <1>2, <1>3, <1>4

\* What the first start finds.
LEMMA InitFacts ==
    ASSUME Init
    PROVE  /\ mem = disk /\ \A f \in File : Versions(f) = {disk[f]}
           /\ script = [w \in Writer |-> <<>>] /\ touched = {}
           /\ \E s \in Starts : /\ disk = LegacyFiles(s.place) /\ pushed = Fresh \ s.push
                                /\ legacy = {j \in Legacy : s.place[j] # "gone"}
                                /\ s.place \in [Legacy -> Place \cup {"gone"}]
<1>1. mem = disk /\ \A l \in Loop : saving[l] = NoFile
  BY DEF Init, SaveInit
<1>2. \A f \in File : Versions(f) = {disk[f]}
  BY <1>1, SaveAssumption DEF Versions
<1>3. \A s \in Starts : s.place \in [Legacy -> Place \cup {"gone"}]
  BY FilesAssumption
<1>4. \E s \in Starts : /\ disk = LegacyFiles(s.place) /\ pushed = Fresh \ s.push
                        /\ legacy = {j \in Legacy : s.place[j] # "gone"}
  BY DEF Init
<1> QED BY <1>1, <1>2, <1>3, <1>4 DEF Init

\* The first start is as after a crash.
LEMMA InitQueue == Init => QueueInv
<1> SUFFICES ASSUME Init PROVE QueueInv
  OBVIOUS
<1>0. /\ mem = disk /\ (\A f \in File : Versions(f) = {disk[f]})
      /\ script = [w \in Writer |-> <<>>] /\ touched = {}
  BY InitFacts
<1>1. PICK place \in [Legacy -> Place \cup {"gone"}] :
           disk = LegacyFiles(place) /\ legacy = {j \in Legacy : place[j] # "gone"}
  BY InitFacts
<1>2. /\ disk[ListsFile] = [l \in ListKey |-> [j \in Jobs |->
                               IF l[1] = "old" /\ j \in Legacy /\ place[j] = l[2] THEN 1 ELSE 0]]
      /\ disk[SetsFile] = [q \in Queue |-> {j \in Legacy : q = "old" /\ place[j] = "delayed"}]
      /\ \A q \in Queue, j \in Jobs :
            disk[<<q, j>>] = (q = "old" /\ j \in Legacy /\ place[j] \notin {"dlq", "gone"})
  BY <1>1, LegacyFacts
<1>3. Contents
  <2>1. disk[ListsFile] \in [ListKey -> [Jobs -> Nat]]
    BY <1>2
  <2>2. disk[SetsFile] \in [Queue -> SUBSET Jobs]
    BY <1>2 DEF Jobs
  <2>3. ASSUME NEW f \in Records PROVE disk[f] \in BOOLEAN
    <3>1. PICK q \in Queue, j \in Jobs : f = <<q, j>>
      BY DEF Records
    <3> QED BY <1>2, <3>1
  <2>4. \A f \in File : Fits(f, disk[f])
    BY <2>1, <2>2, <2>3 DEF Fits
  <2> QED BY <1>0, <2>4 DEF Contents
<1>4. ScriptsOK
  BY InitSaves
<1>5. Boot
  <2>1. script["producer"] = <<>>
    BY <1>0, Engine
  <2>2. work \subseteq Records
    BY DEF Init
  <2>3. kept \subseteq Jobs
    BY DEF Init, Restorable
  <2> QED BY <1>1, <2>1, <2>2, <2>3 DEF Boot, Init
<1>6. OneJob
  BY <1>0 DEF OneJob
<1>7. Unpushed
  <2> SUFFICES ASSUME NEW j \in Fresh PROVE Unborn(j)
    BY DEF Unpushed
  <2>1. j \in Jobs /\ j \notin Legacy /\ 0 # j
    BY FilesAssumption DEF Jobs
  <2>2. \A l \in ListKey : disk[ListsFile][l][j] = 0
    BY <1>2, <2>1
  <2>3. \A q \in Queue : j \notin disk[SetsFile][q]
    BY <1>2, <2>1
  <2>4. \A q \in Queue : disk[<<q, j>>] = FALSE
    BY <1>2, <2>1
  <2>5. \A f \in File : Without(f, disk[f], j)
    BY <2>2, <2>3, <2>4 DEF Without
  <2>6. j \notin Restorable(disk)
    BY <2>1, <2>4, <2>5, NotRestored
  <2>7. \A q \in Queue : <<q, j>> \notin work
    BY <2>4 DEF Init
  <2>8. \A w \in Writer : Away(w, j)
    BY <1>0 DEF Away
  <2> QED BY <1>0, <2>1, <2>5, <2>6, <2>7, <2>8 DEF Unborn, Init
<1>8. Kinds
  <2> SUFFICES ASSUME NEW j \in legacy
               PROVE  \E kind \in {"waiting", "delayed", "dead"} : Steady(kind, j)
    BY DEF Kinds
  <2>1. j \in Legacy /\ j \in Jobs /\ place[j] \in {"waiting", "active", "delayed", "dlq"}
    BY <1>1 DEF Jobs, Place
  <2>2. PICK kind \in {"waiting", "delayed", "dead"} :
             kind = CASE place[j] \in {"waiting", "active"} -> "waiting"
                      [] place[j] = "delayed" -> "delayed" [] OTHER -> "dead"
    BY <2>1
  <2>3. \A q \in Queue, k \in Lists :
            disk[ListsFile][<<q, k>>][j] = IF q = "old" /\ place[j] = k THEN 1 ELSE 0
    <3> SUFFICES ASSUME NEW q \in Queue, NEW k \in Lists
                 PROVE  disk[ListsFile][<<q, k>>][j] = IF q = "old" /\ place[j] = k THEN 1 ELSE 0
      OBVIOUS
    <3>1. <<q, k>> \in ListKey /\ <<q, k>>[1] = q /\ <<q, k>>[2] = k
      BY DEF ListKey, Lists
    <3> QED BY <1>2, <2>1, <3>1
  <2>4. \A q \in Queue : j \in disk[SetsFile][q] <=> q = "old" /\ place[j] = "delayed"
    BY <1>2, <2>1
  <2>5. ListedAs(kind, disk[ListsFile], j)
    BY <2>1, <2>2, <2>3 DEF ListedAs, Queue, Lists
  <2>6. SetAs(kind, disk[SetsFile], j)
    BY <2>1, <2>2, <2>4 DEF SetAs, Queue
  <2> QED BY <1>0, <2>5, <2>6, FileFacts DEF Steady
<1>9. Started
  BY <1>0 DEF Started, Init
<1>10. \A j \in Tracked : Carried(j)
  BY <1>3, <1>5, <1>8, <1>9, FreshStart
<1> QED BY <1>3, <1>4, <1>5, <1>6, <1>7, <1>8, <1>10 DEF QueueInv

-----------------------------------------------------------------------------
(* The theorems. *)

\* The invariant is kept by every step.
LEMMA QueueStep == QueueInv /\ SaveInv /\ [Next]_vars => QueueInv'
<1> SUFFICES ASSUME QueueInv, SaveInv, [Next]_vars PROVE QueueInv'
  OBVIOUS
<1>1. /\ Contents /\ ScriptsOK /\ Boot /\ OneJob /\ Unpushed /\ Kinds /\ (\A j \in Tracked : Carried(j)) /\ SaveTypeOK
  BY DEF QueueInv, SaveInv
<1>2. Contents' /\ ScriptsOK' /\ Boot'
  BY <1>1, ContentsStep, NextSaves, BootStep
<1>3. OneJob' /\ Unpushed'
  BY <1>1, OneJobStep, UnpushedStep
<1>4. Kinds'
  BY <1>1, KindsStep
<1>5. \A j \in Tracked' : Carried(j)'
  BY <1>1, CarriedStep
<1> QED BY <1>2, <1>3, <1>4, <1>5 DEF QueueInv

\* Every crash, save and step of the drain keeps what the files restore.
LEMMA QueueInvariant == Spec => []QueueInv
<1>1. Init => SaveInv
  BY InitSaves, SaveInitInv
<1>2. SaveInv /\ QueueInv /\ [Next]_vars => SaveInv'
  BY NextSaves, SaveNextInv DEF QueueInv, SaveInv
<1> QED BY <1>1, <1>2, InitQueue, QueueStep, PTL DEF Spec

\* A job that is in use is in the namespaced queue, once.
LEMMA CarriedRuns ==
    ASSUME QueueInv, phase = "run", NEW j \in Tracked
    PROVE  Once(mem, j) /\ ~InOld(mem, j) /\ count(mem, "old", "dlq", j) = 0
           /\ (j \in kept => AsDead(mem, j) \/ mem[<<"new", j>>])
<1>1. Held(j) /\ Passed("run", j)
  BY DEF QueueInv, Carried
<1>2. /\ Num("old", "waiting", j) = 0 /\ Num("old", "active", j) = 0 /\ ~InSet("old", j)
      /\ Num("old", "dlq", j) = 0
  BY <1>1 DEF Passed
<1>3. ~Left(j)
  BY <1>2 DEF Left
<1>4. j \in kept => Dead(j) \/ Rec("new", j)
  BY <1>1, <1>3 DEF Held
<1> QED BY <1>1, <1>2, <1>3, <1>4, OnceIs DEF Held, Num, Rec

\* A crash at any moment of the saves, of the rebuild, of the drain or of the
\* use of the queue neither loses nor doubles a job that the files can
\* restore: once make_adapter is done it is in the namespaced queue, in one
\* place, once, with its record (rebuild_from_storage,
\* migrate_subscriber_queue).
THEOREM CrashRestoresOnce == Spec => []RestoredOnce
<1>1. QueueInv => RestoredOnce
  <2> SUFFICES ASSUME QueueInv, phase = "run", NEW j \in kept
               PROVE  /\ Once(mem, j) /\ ~InOld(mem, j) /\ count(mem, "old", "dlq", j) = 0
                      /\ AsDead(mem, j) \/ mem[<<"new", j>>]
    BY DEF RestoredOnce
  <2>1. j \in Tracked
    BY DEF Tracked
  <2> QED BY <2>1, CarriedRuns
<1> QED BY <1>1, QueueInvariant, PTL

\* However often the drain of the old queue is interrupted, and whatever was
\* saved of it, a job of that queue that no consumer has touched is listed in
\* the new one exactly once (migrate_legacy_subscriber_queues).
THEOREM DrainNeverDuplicates == Spec => []DrainedOnce
<1>1. QueueInv => DrainedOnce
  <2> SUFFICES ASSUME QueueInv, phase = "run", NEW j \in legacy \ touched
               PROVE  Once(mem, j) /\ ~InOld(mem, j)
    BY DEF DrainedOnce
  <2>1. j \in Tracked
    BY DEF Tracked
  <2> QED BY <2>1, CarriedRuns
<1> QED BY <1>1, QueueInvariant, PTL
=============================================================================
