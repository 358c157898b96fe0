------------------------ MODULE MCQueuePersistence ------------------------
(* An instance of QueuePersistence for TLC. *)
EXTENDS QueuePersistence

Files == {ListsFile, SetsFile} \cup Records

\* An upgrade with a job left in one of the places, two new jobs, or one that
\* fails.
Ages ==
    [place : [Legacy -> Place], push : {{}}, fail : {0}]
        \cup [place : [Legacy -> {"gone"}], push : {Fresh}, fail : {0}]
        \cup [place : [Legacy -> {"gone"}], push : {{2}}, fail : {1}]

Writers == {"engine", "producer"}

\* The loop of QueueKvStore and the loop of BuiltinKvStore.
Loops == {"lists", "records"}
ServedBy == [l \in Loops |-> IF l = "lists" THEN {ListsFile, SetsFile} ELSE Records]
============================================================================
