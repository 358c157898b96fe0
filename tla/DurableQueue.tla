--------------------------- MODULE DurableQueue ---------------------------
(***************************************************************************)
(* What a queue promises of a job, without lists, loops, records or         *)
(* interleavings: a submitted job waits, is run by one handler at a time,   *)
(* and ends acknowledged, or dead-lettered once its attempts are used up.   *)
(* The operator can put a dead job back or discard it, and the end of a     *)
(* subscription abandons the jobs its loop had in hand.                     *)
(***************************************************************************)
EXTENDS Naturals

CONSTANTS
    Job,        \* the jobs
    Limit       \* the limits on attempts that may apply

VARIABLES
    status,     \* status[j]: where job j is in its life
    tries       \* tries[j]: how often its handler has failed

Status == {"unborn", "waiting", "running", "failed", "dead", "done", "abandoned"}

move(j, from, to) == status[j] = from /\ status' = [status EXCEPT ![j] = to]

Submit(j) == move(j, "unborn", "waiting") /\ UNCHANGED tries
Start(j)  == move(j, "waiting", "running") /\ UNCHANGED tries
Ack(j)    == move(j, "running", "done") /\ UNCHANGED tries
Fail(j)   == move(j, "running", "failed") /\ tries' = [tries EXCEPT ![j] = @ + 1]

(* A failed job is tried again, at once or later, while some limit allows    *)
(* it, and is dead-lettered only when some limit is reached.                *)
Retry(j) ==
    /\ \E m \in Limit : tries[j] < m
    /\ move(j, "failed", "waiting") \/ move(j, "failed", "running")
    /\ UNCHANGED tries
Bury(j) ==
    /\ \E m \in Limit : tries[j] >= m
    /\ move(j, "failed", "dead")
    /\ UNCHANGED tries

Redrive(j) == move(j, "dead", "waiting") /\ tries' = [tries EXCEPT ![j] = 0]
Discard(j) == move(j, "dead", "done") /\ UNCHANGED tries

Abandon(S) ==
    /\ \A j \in S : status[j] \in {"waiting", "running", "failed"}
    /\ status' = [j \in Job |-> IF j \in S THEN "abandoned" ELSE status[j]]
    /\ UNCHANGED tries

Init == status = [j \in Job |-> "unborn"] /\ tries = [j \in Job |-> 0]

Next ==
    \/ \E j \in Job : Submit(j) \/ Start(j) \/ Ack(j) \/ Fail(j) \/ Retry(j) \/ Bury(j)
                      \/ Redrive(j) \/ Discard(j)
    \/ \E S \in SUBSET Job : Abandon(S)

Spec == Init /\ [][Next]_<<status, tries>>
============================================================================
