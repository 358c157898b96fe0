------------------------- MODULE QueuePersistence -------------------------
(***************************************************************************)
(* A subscriber queue in a file-based store across crashes: what the save   *)
(* loops have written when the process ends, rebuild_from_storage, the      *)
(* one-time drain of a pre-namespace queue into its namespaced name         *)
(* (migrate_legacy_subscriber_queues), and the ordinary use of the queue    *)
(* after that (engine/src/builtins/queue.rs, adapters/builtin/adapter.rs).  *)
(*                                                                          *)
(* Every operation of the queue is a script of store operations; a step of  *)
(* a task is one of them, or the mark that completes it.                    *)
(***************************************************************************)
EXTENDS WriteBehind, Sequences

CONSTANTS
    Legacy,     \* jobs the pre-namespace engine left in the files
    Fresh,      \* jobs pushed after the upgrade
    Starts,     \* where the legacy jobs are, which jobs are pushed, how
                \* many handlers fail
    MaxCrashes, \* bound
    MaxFailures,\* bound: handler failures
    MaxTicks    \* bound: ticks of a save loop while jobs are on their way

Jobs == Legacy \cup Fresh
Queue == {"old", "new"}
Records == Queue \X Jobs
ListsFile == <<"lists">>
SetsFile == <<"zsets">>
ListKey == Queue \X {"waiting", "active", "dlq"}

Place == {"waiting", "active", "delayed", "dlq"}

ASSUME FilesAssumption ==
    /\ File = {ListsFile, SetsFile} \cup Records
    /\ Writer = {"engine", "producer"}
    /\ Jobs \subseteq Nat \ {0} /\ Legacy \cap Fresh = {}
    /\ MaxCrashes \in Nat /\ MaxFailures \in Nat /\ MaxTicks \in Nat
    /\ Starts \subseteq [place : [Legacy -> Place \cup {"gone"}], push : SUBSET Fresh,
                       fail : 0 .. MaxFailures]

VARIABLES
    phase,      \* of make_adapter, then "run"
    work,       \* what the current pass over a queue's jobs has yet to do
    script,     \* script[w]: store operations left of the call w is in
    hand,       \* the job the consumer has popped, 0 for none
    pushed, crashes, failures, ticks,
    legacy,     \* the jobs that the old queue held
    \* History, read by properties only:
    kept,       \* jobs the files could restore when the process started and
                \* no consumer has touched since
    touched     \* jobs a consumer has ever touched

queueVars == <<phase, work, script, hand, pushed, crashes, failures, ticks, legacy, kept, touched>>
vars == <<saveVars, queueVars>>

----------------------------------------------------------------------------
(* The store operations: which file each changes, and to what. *)
count(files, q, k, j) == files[ListsFile][<<q, k>>][j]
edit(q, k, j, n) == [mem[ListsFile] EXCEPT ![<<q, k>>][j] = n]
less(n) == IF n = 0 THEN 0 ELSE n - 1

set_job(q, j)    == [op |-> "set",  q |-> q, k |-> "record",  j |-> j]
delete_job(q, j) == [op |-> "del",  q |-> q, k |-> "record",  j |-> j]
push(q, k, j)    == [op |-> "push", q |-> q, k |-> k,         j |-> j]
lrem(q, k, j)    == [op |-> "lrem", q |-> q, k |-> k,         j |-> j]
lremAll(q, k, j) == [op |-> "none", q |-> q, k |-> k,         j |-> j]
zadd(q, j)       == [op |-> "zadd", q |-> q, k |-> "delayed", j |-> j]
zrem(q, j)       == [op |-> "zrem", q |-> q, k |-> "delayed", j |-> j]

Op == [op : {"set", "del", "push", "lrem", "none", "zadd", "zrem"}, q : Queue,
       k : {"record", "waiting", "active", "delayed", "dlq"}, j : Jobs]

file(o) == CASE o.op \in {"set", "del"} -> <<o.q, o.j>>
             [] o.op \in {"zadd", "zrem"} -> SetsFile
             [] OTHER -> ListsFile
outcome(o) ==
    CASE o.op = "set"  -> TRUE
      [] o.op = "del"  -> FALSE
      [] o.op = "zadd" -> [mem[SetsFile] EXCEPT ![o.q] = @ \cup {o.j}]
      [] o.op = "zrem" -> [mem[SetsFile] EXCEPT ![o.q] = @ \ {o.j}]
      [] o.op = "push" -> edit(o.q, o.k, o.j, count(mem, o.q, o.k, o.j) + 1)
      [] o.op = "lrem" -> edit(o.q, o.k, o.j, less(count(mem, o.q, o.k, o.j)))
      [] o.op = "none" -> edit(o.q, o.k, o.j, 0)

(* Removing what is not there changes nothing and marks nothing. *)
Absent(o) ==
    CASE o.op = "del"  -> ~mem[<<o.q, o.j>>]
      [] o.op = "zrem" -> o.j \notin mem[SetsFile][o.q]
      [] o.op \in {"lrem", "none"} -> \A j \in Jobs : count(mem, o.q, o.k, j) = 0
      [] OTHER -> FALSE

(* Task w does the next operation of its script. *)
StoreStep(w) ==
    /\ owes[w] = {} /\ script[w] # <<>>
    /\ script' = [script EXCEPT ![w] = Tail(@)]
    /\ IF Absent(Head(script[w])) THEN UNCHANGED saveVars
       ELSE put(w, file(Head(script[w])), outcome(Head(script[w])))
    /\ UNCHANGED <<phase, work, hand, pushed, crashes, failures, ticks, legacy, kept, touched>>

Mark(w) == mark(w) /\ UNCHANGED queueVars

Idle(w) == owes[w] = {} /\ script[w] = <<>>
begin(w, ops) == Idle(w) /\ script' = [script EXCEPT ![w] = ops]

----------------------------------------------------------------------------
(* make_adapter: rebuild_from_storage, then the drain of the old queue: its *)
(* waiting, its active, its delayed and its dead-lettered jobs.             *)
\* Faulty variant: the sorted sets are not looked at.
HasListsOnly(files) == \E l \in ListKey : \E j \in Jobs : files[ListsFile][l][j] > 0

HasQueueState(files) ==
    \/ \E l \in ListKey : \E j \in Jobs : files[ListsFile][l][j] > 0
    \/ \E q \in Queue : files[SetsFile][q] # {}

Listed(k) == {r \in Records : r[1] = "old" /\ count(mem, "old", k, r[2]) > 0}
passAfter == [rebuild |-> "waiting", waiting |-> "active", active |-> "delayed",
              delayed |-> "dlq", dlq |-> "run"]

(* The next pass reads the ids it will go through.  The delayed jobs that   *)
(* rebuild_from_storage would move are those of the queue that the second   *)
(* part of a key names, which is no subscriber queue: their names have `::'.*)
NextPass ==
    /\ phase # "run" /\ work = {} /\ Idle("engine")
    /\ phase' = passAfter[phase]
    /\ work' = CASE phase' \in {"waiting", "active", "dlq"} -> Listed(phase')
                 [] phase' = "delayed" -> {"old"} \X mem[SetsFile]["old"]
                 [] OTHER -> {}
    /\ UNCHANGED <<saveVars, script, hand, pushed, crashes, failures, ticks, legacy, kept, touched>>

(* No structure was saved: every record is listed again, as waiting or, if   *)
(* its time has not come, as delayed.                                       *)
RebuildOne(r) ==
    /\ phase = "rebuild" /\ r \in work
    /\ \E ops \in {<<push(r[1], "waiting", r[2])>>, <<zadd(r[1], r[2])>>} : begin("engine", ops)
    /\ work' = work \ {r}
    /\ UNCHANGED <<saveVars, phase, hand, pushed, crashes, failures, ticks, legacy, kept, touched>>

(* move_job_record: from whichever side still holds it. *)
move_job_record(j) ==
    IF mem[<<"old", j>>] \/ mem[<<"new", j>>]
    THEN <<set_job("new", j), delete_job("old", j)>> ELSE <<>>

\* Faulty variant: the new list is not cleared of an earlier try.
MigrateAppends(j) ==
    /\ phase \in {"waiting", "active"} /\ <<"old", j>> \in work
    /\ begin("engine", move_job_record(j) \o <<push("new", "waiting", j), lremAll("old", phase, j)>>)
    /\ work' = work \ {<<"old", j>>}
    /\ UNCHANGED <<saveVars, phase, hand, pushed, crashes, failures, ticks, legacy, kept, touched>>

MigrateListed(j) ==
    /\ phase \in {"waiting", "active"} /\ <<"old", j>> \in work
    /\ begin("engine", move_job_record(j)
                       \o <<lremAll("new", "waiting", j), push("new", "waiting", j),
                            lremAll("old", phase, j)>>)
    /\ work' = work \ {<<"old", j>>}
    /\ UNCHANGED <<saveVars, phase, hand, pushed, crashes, failures, ticks, legacy, kept, touched>>

MigrateDelayed(j) ==
    /\ phase = "delayed" /\ <<"old", j>> \in work
    /\ begin("engine", move_job_record(j) \o <<zrem("new", j), zadd("new", j), zrem("old", j)>>)
    /\ work' = work \ {<<"old", j>>}
    /\ UNCHANGED <<saveVars, phase, hand, pushed, crashes, failures, ticks, legacy, kept, touched>>

MigrateDlq(j) ==
    /\ phase = "dlq" /\ <<"old", j>> \in work
    /\ begin("engine", <<lremAll("new", "dlq", j), push("new", "dlq", j), lremAll("old", "dlq", j)>>)
    /\ work' = work \ {<<"old", j>>}
    /\ UNCHANGED <<saveVars, phase, hand, pushed, crashes, failures, ticks, legacy, kept, touched>>

----------------------------------------------------------------------------
(* The queue in use: a producer and a consumer with one job at a time. *)
Push(j) ==
    /\ phase = "run" /\ j \in Fresh \ pushed
    /\ begin("producer", <<set_job("new", j), push("new", "waiting", j)>>)
    /\ pushed' = pushed \cup {j}
    /\ UNCHANGED <<saveVars, phase, work, hand, crashes, failures, ticks, legacy, kept, touched>>

consume(ops, j) ==
    /\ phase = "run"
    /\ begin("engine", ops)
    /\ touched' = touched \cup {j} /\ kept' = kept \ {j}
    /\ UNCHANGED <<saveVars, phase, work, pushed, crashes, ticks, legacy>>

MoveDelayed(j) ==
    /\ hand = 0 /\ j \in mem[SetsFile]["new"]
    /\ consume(<<zrem("new", j), push("new", "waiting", j)>>, j)
    /\ UNCHANGED <<hand, failures>>

Pop(j) ==
    /\ hand = 0 /\ count(mem, "new", "waiting", j) > 0
    /\ consume(<<lrem("new", "waiting", j), push("new", "active", j)>>, j)
    /\ hand' = j
    /\ UNCHANGED failures

(* No record: pop answers None and the id stays in active. *)
PopMissing ==
    /\ hand # 0 /\ ~mem[<<"new", hand>>]
    /\ consume(<<>>, hand)
    /\ hand' = 0
    /\ UNCHANGED failures

Ack ==
    /\ hand # 0 /\ mem[<<"new", hand>>]
    /\ consume(<<lrem("new", "active", hand), delete_job("new", hand)>>, hand)
    /\ hand' = 0
    /\ UNCHANGED failures

(* nack: the job is retried later, or move_to_dlq dead-letters it. *)
Nack ==
    /\ hand # 0 /\ mem[<<"new", hand>>] /\ failures < MaxFailures
    /\ \E ops \in {<<set_job("new", hand), zadd("new", hand)>>,
                   <<push("new", "dlq", hand), delete_job("new", hand)>>} :
            consume(<<lrem("new", "active", hand)>> \o ops, hand)
    /\ hand' = 0
    /\ failures' = failures + 1

----------------------------------------------------------------------------
(* What the files restore: a job that they list in one kind of place, once,  *)
(* with its record where the listing is or, for the old queue, on either    *)
(* side; or a single record when they list nothing.                         *)
AsWaiting(files, j) ==
    \/ \E k \in {"waiting", "active"} : count(files, "old", k, j) > 0
    \/ count(files, "new", "waiting", j) = 1
AsDelayed(files, j) == \E q \in Queue : j \in files[SetsFile][q]
AsDead(files, j) == \E q \in Queue : count(files, q, "dlq", j) > 0
InOld(files, j) ==
    j \in files[SetsFile]["old"] \/ \E k \in {"waiting", "active"} : count(files, "old", k, j) > 0
HasRecord(files, j) == files[<<"new", j>>] \/ (files[<<"old", j>>] /\ InOld(files, j))
Once(files, j) ==
    /\ count(files, "new", "waiting", j) <= 1 /\ count(files, "new", "dlq", j) <= 1
    /\ Cardinality({k \in {"waiting", "delayed", "dead"} :
                        \/ k = "waiting" /\ AsWaiting(files, j)
                        \/ k = "delayed" /\ AsDelayed(files, j)
                        \/ k = "dead" /\ AsDead(files, j)}) = 1
Restorable(files) ==
    {j \in Jobs :
        IF HasQueueState(files)
        THEN Once(files, j) /\ (AsDead(files, j) \/ HasRecord(files, j))
        ELSE files[<<"old", j>>] # files[<<"new", j>>]}

(* The process starts on the files. *)
started(files) ==
    /\ phase' = "rebuild"
    /\ work' = IF HasQueueState(files) THEN {} ELSE {r \in Records : files[r]}
    /\ script' = [w \in Writer |-> <<>>] /\ hand' = 0
    /\ kept' = Restorable(files)

Crash ==
    /\ crashes < MaxCrashes
    /\ crashes' = crashes + 1
    /\ reload
    /\ started(disk)
    /\ UNCHANGED <<pushed, failures, ticks, legacy, touched>>

(* The files of the pre-namespace engine: its jobs in one place each, if it  *)
(* has not finished them.                                                   *)
LegacyFiles(place) ==
    [f \in File |->
        IF f = ListsFile
        THEN [l \in ListKey |-> [j \in Jobs |->
                IF l[1] = "old" /\ j \in Legacy /\ place[j] = l[2] THEN 1 ELSE 0]]
        ELSE IF f = SetsFile
        THEN [q \in Queue |-> {j \in Legacy : q = "old" /\ place[j] = "delayed"}]
        ELSE f[1] = "old" /\ f[2] \in Legacy /\ place[f[2]] \notin {"dlq", "gone"}]

Init ==
    /\ \E s \in Starts : disk = LegacyFiles(s.place) /\ pushed = Fresh \ s.push
                        /\ failures = MaxFailures - s.fail
                        /\ legacy = {j \in Legacy : s.place[j] # "gone"}
    /\ SaveInit
    /\ phase = "rebuild"
    /\ work = IF HasQueueState(disk) THEN {} ELSE {r \in Records : disk[r]}
    /\ script = [w \in Writer |-> <<>>] /\ hand = 0
    /\ crashes = 0 /\ ticks = [l \in Loop |-> 0]
    /\ kept = Restorable(disk) /\ touched = {}

EngineStep ==
    \/ NextPass \/ \E r \in Records : RebuildOne(r)
    \/ \E j \in Jobs : MigrateListed(j) \/ MigrateDelayed(j) \/ MigrateDlq(j)
                       \/ MoveDelayed(j) \/ Pop(j)
    \/ PopMissing \/ Ack \/ Nack

(* A save loop's tick, and its writes.  Ticks are free once all is done. *)
AllDone ==
    /\ phase = "run" /\ hand = 0 /\ pushed = Fresh
    /\ \A w \in Writer : Idle(w)
    /\ \A j \in Jobs : count(mem, "new", "waiting", j) = 0 /\ j \notin mem[SetsFile]["new"]

Tick(l) ==
    /\ Drain(l)
    /\ IF AllDone THEN UNCHANGED ticks
       ELSE ticks[l] < MaxTicks /\ ticks' = [ticks EXCEPT ![l] = @ + 1]
    /\ UNCHANGED <<phase, work, script, hand, pushed, crashes, failures, legacy, kept, touched>>
Save(l) == SaveFile(l) /\ UNCHANGED queueVars

Next ==
    \/ EngineStep
    \/ \E j \in Jobs : Push(j)
    \/ \E w \in Writer : StoreStep(w) \/ Mark(w)
    \/ \E l \in Loop : Tick(l) \/ Save(l)
    \/ Crash

Spec == Init /\ [][Next]_vars

----------------------------------------------------------------------------
(* A crash at any moment of the saves, of the drain or of the use of the    *)
(* queue loses nothing that the files can restore, and doubles nothing:     *)
(* once make_adapter is done, such a job is in the namespaced queue, in     *)
(* one place, once, with its record, and nothing of it is left in the old   *)
(* one (rebuild_from_storage, migrate_subscriber_queue).                    *)
RestoredOnce ==
    phase = "run" =>
        \A j \in kept :
            /\ Once(mem, j) /\ ~InOld(mem, j) /\ count(mem, "old", "dlq", j) = 0
            /\ AsDead(mem, j) \/ mem[<<"new", j>>]

(* "A crash-interrupted drain never duplicates": a job of the old queue that *)
(* no consumer has touched is listed in the new one exactly once, however   *)
(* often the drain was interrupted and whatever was saved of it.            *)
DrainedOnce ==
    phase = "run" => \A j \in legacy \ touched : Once(mem, j) /\ ~InOld(mem, j)
============================================================================
