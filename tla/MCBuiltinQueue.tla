-------------------------- MODULE MCBuiltinQueue --------------------------
(* Instances of BuiltinQueue for TLC. *)
EXTENDS BuiltinQueueRefinement, TLC

CONSTANTS w1, w2, t1, t2, t3, op

TwoSubs == {w1, w2}
OneSub == {w1}
TwoTasks == {t1, t2}
ThreeTasks == {t1, t2, t3}
TaskSymmetry == Permutations(Tasks)

AllConcurrent == [w \in OneSub |-> "concurrent"]
AllFifo == [w \in OneSub |-> "fifo"]
GroupedAndFifo == [w \in TwoSubs |-> IF w = w1 THEN "grouped" ELSE "fifo"]

NoneConfigured == {}
NoOverride == [w \in Subs |-> 0]
OverrideSecond == [w \in TwoSubs |-> IF w = w1 THEN 0 ELSE 1]

OneGroup == [j \in Jobs |-> 1]

NoOps == {}
DelaysAndUnsubscribes == {"push_delayed", "unsubscribe"}
Redrives == {"redrive", "redrive_message", "discard"}
============================================================================
