---------------------------- MODULE Invocations ----------------------------
(***************************************************************************)
(* A call routed from one worker, or from the engine itself, to a function *)
(* of another worker: spawn_invoke_function and guard_outbound             *)
(* (src/engine/src/engine/mod.rs), handle_invocation_inner                 *)
(* (invocation/mod.rs) and handle_function (worker_connections/traits.rs). *)
(*                                                                         *)
(* The task of a call lists it in the engine's map of pending calls with   *)
(* the sender of a one-shot channel, notes it with its caller, hands the   *)
(* message to the executor's bounded outbound channel and waits.  It is    *)
(* woken by the executor's answer, by a message that is too large, or by   *)
(* the teardown of either side, which halts every call noted with that     *)
(* connection.  All of these race.                                         *)
(*                                                                         *)
(* Left out: how the function was resolved, calls it answers in process,   *)
(* observers, tracing, and the room in the caller's channel for the result.*)
(***************************************************************************)
EXTENDS Naturals, Sequences, FiniteSets

CONSTANTS
  Conn,      \* worker connections
  Inv,       \* invocation ids
  Callers,   \* who may make the calls: per call a connection, or Engine
  Executor,  \* per invocation: the connection that serves the function
  Engine,    \* the caller of the engine's own calls
  Cap        \* the capacity of an outbound channel

\* No result and no refusal is being handled.
Nothing == "nothing"

ASSUME InvocationsAssumption ==
  /\ Nothing \notin Inv
  /\ Engine \notin Conn
  /\ Callers \subseteq [Inv -> Conn \cup {Engine}]
  /\ Executor \in [Inv -> Conn]
  /\ Cap \in Nat \ {0}

VARIABLES
  caller,    \* per invocation: who makes it
  call,      \* per invocation: where its task is
  outcome,   \* per invocation: what its one-shot channel or its task holds
  pending,   \* engine.invocations
  tracked,   \* per connection: its `invocations`
  chan,      \* per connection: the messages in its outbound channel
  permits,   \* per connection: the calls holding a reserved place in it
  held,      \* per connection: the calls its worker has and has not answered
  settling,  \* per connection: the call whose result its read loop handles
  refusing,  \* per connection: the call whose sender its writer has taken
  dropping,  \* per connection: the refused call its writer has yet to forget
  loop,      \* per connection: whether its read loop runs
  open,      \* the connections whose outbound channel has a receiver
  cleanup    \* per connection: where cleanup_worker is

connVars == <<caller, refusing, dropping, loop, open, cleanup>>
vars == <<call, outcome, pending, tracked, chan, permits, held, settling, connVars>>

Init ==
  /\ caller \in Callers
  /\ call = [i \in Inv |-> "no"]
  /\ outcome = [i \in Inv |-> "none"]
  /\ pending = {}
  /\ tracked = [c \in Conn |-> {}]
  /\ chan = [c \in Conn |-> <<>>]
  /\ permits = [c \in Conn |-> {}]
  /\ held = [c \in Conn |-> {}]
  /\ settling = [c \in Conn |-> Nothing]
  /\ refusing = [c \in Conn |-> Nothing]
  /\ dropping = [c \in Conn |-> Nothing]
  /\ loop = [c \in Conn |-> "reading"]
  /\ open = Conn
  /\ cleanup = [c \in Conn |-> "no"]

\* cleanup_claimed, cleanup_done.
Claimed(c) == cleanup[c] # "no"
Done(c)    == cleanup[c] = "done"

-----------------------------------------------------------------------------
(* The task of a call. *)

\* Faulty variant: the map keeps the call.
LeavesListed(i, o) ==
  /\ call' = [call EXCEPT ![i] = "answering"]
  /\ outcome' = [outcome EXCEPT ![i] = o]
  /\ pending' = pending

\* The task leaves handle_invocation with outcome o; dropping the
\* registration takes the call out of the map.
Leaves(i, o) ==
  /\ call' = [call EXCEPT ![i] = "answering"]
  /\ outcome' = [outcome EXCEPT ![i] = o]
  /\ pending' = pending \ {i}

\* An InvokeFunction is read and its task spawned, or the engine calls.
Ask(i) ==
  /\ call[i] = "no"
  /\ caller[i] \in Conn => loop[caller[i]] = "reading" /\ settling[caller[i]] = Nothing
  /\ call' = [call EXCEPT ![i] = "asked"]
  /\ UNCHANGED <<outcome, pending, tracked, chan, permits, held, settling, connVars>>

\* Listed before anything is sent: the answer may come before the task waits.
List(i) ==
  /\ call[i] = "asked"
  /\ call' = [call EXCEPT ![i] = "listed"]
  /\ pending' = pending \cup {i}
  /\ UNCHANGED <<outcome, tracked, chan, permits, held, settling, connVars>>

\* Faulty variant: the caller's teardown is not looked at.
NoteUnchecked(i) ==
  /\ call[i] = "listed"
  /\ call' = [call EXCEPT ![i] = "noted"]
  /\ tracked' = [c \in Conn |-> tracked[c] \cup {j \in {i} : caller[j] = c}]
  /\ UNCHANGED <<outcome, pending, chan, permits, held, settling, connVars>>

\* Note the call with its caller, under the lock its teardown drains under.
Note(i) ==
  /\ call[i] = "listed"
  /\ \/ /\ caller[i] = Engine
        /\ call' = [call EXCEPT ![i] = "noted"]
        /\ UNCHANGED <<outcome, pending, tracked>>
     \/ /\ caller[i] \in Conn /\ Claimed(caller[i])
        /\ Leaves(i, "stopped")
        /\ UNCHANGED tracked
     \/ /\ caller[i] \in Conn /\ ~Claimed(caller[i])
        /\ call' = [call EXCEPT ![i] = "noted"]
        /\ tracked' = [tracked EXCEPT ![caller[i]] = @ \cup {i}]
        /\ UNCHANGED <<outcome, pending>>
  /\ UNCHANGED <<chan, permits, held, settling, connVars>>

\* handle_function: the executor is looked at for the first time.
Begin(i) ==
  /\ call[i] = "noted"
  /\ IF Claimed(Executor[i])
       THEN Leaves(i, "stopped")
       ELSE call' = [call EXCEPT ![i] = "reserving"] /\ UNCHANGED <<outcome, pending>>
  /\ UNCHANGED <<tracked, chan, permits, held, settling, connVars>>

\* Wait for room in the executor's channel, for its end, or for the end of
\* the teardown, which is looked at first (biased).
Reserve(i) ==
  LET e == Executor[i] IN
  /\ call[i] = "reserving"
  /\ \/ /\ Done(e)
        /\ Leaves(i, "stopped")
        /\ UNCHANGED permits
     \/ /\ ~Done(e) /\ e \notin open
        /\ Leaves(i, "unsent")
        /\ UNCHANGED permits
     \/ /\ ~Done(e) /\ e \in open
        /\ Len(chan[e]) + Cardinality(permits[e]) < Cap
        /\ call' = [call EXCEPT ![i] = "reserved"]
        /\ permits' = [permits EXCEPT ![e] = @ \cup {i}]
        /\ UNCHANGED <<outcome, pending>>
  /\ UNCHANGED <<tracked, chan, held, settling, connVars>>

\* Faulty variant: the executor's teardown is not looked at again.
SendUnchecked(i) ==
  LET e == Executor[i] IN
  /\ call[i] = "reserved"
  /\ permits' = [permits EXCEPT ![e] = @ \ {i}]
  /\ IF e \notin open
       THEN Leaves(i, "unsent") /\ UNCHANGED <<tracked, chan>>
       ELSE /\ call' = [call EXCEPT ![i] = "waiting"]
            /\ tracked' = [tracked EXCEPT ![e] = @ \cup {i}]
            /\ chan' = [chan EXCEPT ![e] = Append(@, i)]
            /\ UNCHANGED <<outcome, pending>>
  /\ UNCHANGED <<held, settling, connVars>>

\* Under the lock of the executor's ids: look again, note the call, send it.
Send(i) ==
  LET e == Executor[i] IN
  /\ call[i] = "reserved"
  /\ permits' = [permits EXCEPT ![e] = @ \ {i}]
  /\ \/ /\ Claimed(e)
        /\ Leaves(i, "stopped")
        /\ UNCHANGED <<tracked, chan>>
     \/ /\ ~Claimed(e) /\ e \notin open
        /\ Leaves(i, "unsent")
        /\ UNCHANGED <<tracked, chan>>
     \/ /\ ~Claimed(e) /\ e \in open
        /\ call' = [call EXCEPT ![i] = "waiting"]
        /\ tracked' = [tracked EXCEPT ![e] = @ \cup {i}]
        /\ chan' = [chan EXCEPT ![e] = Append(@, i)]
        /\ UNCHANGED <<outcome, pending>>
  /\ UNCHANGED <<held, settling, connVars>>

\* The one-shot channel has a value: the wait ends.
Wake(i) ==
  /\ call[i] = "waiting"
  /\ outcome[i] # "none"
  /\ Leaves(i, outcome[i])
  /\ UNCHANGED <<tracked, chan, permits, held, settling, connVars>>

\* Send the result to the caller, if it is there, and forget the call.
Answer(i) ==
  /\ call[i] = "answering"
  /\ call' = [call EXCEPT ![i] = "over"]
  /\ tracked' = [c \in Conn |-> IF c = caller[i] THEN tracked[c] \ {i} ELSE tracked[c]]
  /\ UNCHANGED <<outcome, pending, chan, permits, held, settling, connVars>>

\* The future of a call of the engine's own is dropped at an await: a time
\* limit or an aborted queue loop ends it.  Its registration and its permit go.
Abandon(i) ==
  /\ caller[i] = Engine
  /\ call[i] \in {"listed", "noted", "reserving", "reserved", "waiting"}
  /\ call' = [call EXCEPT ![i] = "over"]
  /\ pending' = pending \ {i}
  /\ permits' = [permits EXCEPT ![Executor[i]] = @ \ {i}]
  /\ UNCHANGED <<outcome, tracked, chan, held, settling, connVars>>

Task(i) == List(i) \/ Note(i) \/ Begin(i) \/ Reserve(i) \/ Send(i) \/ Wake(i) \/ Answer(i)

-----------------------------------------------------------------------------
(* The executor's connection. *)

\* The sender of call i is used, if it is still there.
Fulfil(i, o) ==
  /\ pending' = pending \ {i}
  /\ outcome' = IF i \in pending THEN [outcome EXCEPT ![i] = o] ELSE outcome

\* The writer is not in guard_outbound.
Free(c) == refusing[c] = Nothing /\ dropping[c] = Nothing

\* The writer passes the next message to the worker ...
Deliver(c) ==
  /\ c \in open /\ chan[c] # <<>> /\ Free(c)
  /\ chan' = [chan EXCEPT ![c] = Tail(@)]
  /\ held' = [held EXCEPT ![c] = @ \cup {Head(chan[c])}]
  /\ UNCHANGED <<call, outcome, pending, tracked, permits, settling, connVars>>

\* ... or finds that it exceeds the worker's receive limit (guard_outbound)
\* and takes the call's sender out of the map, if it is still there.
Oversized(c) ==
  LET i == Head(chan[c]) IN
  /\ c \in open /\ chan[c] # <<>> /\ Free(c)
  /\ chan' = [chan EXCEPT ![c] = Tail(@)]
  /\ pending' = pending \ {i}
  /\ IF i \in pending
       THEN refusing' = [refusing EXCEPT ![c] = i] /\ UNCHANGED dropping
       ELSE dropping' = [dropping EXCEPT ![c] = i] /\ UNCHANGED refusing
  /\ UNCHANGED <<call, outcome, tracked, permits, held, settling, caller, loop, open, cleanup>>

\* It waits for the lock of the caller's ids and removes the call from them ...
Notes(i) == {d \in Conn : d = caller[i] /\ i \in tracked[d]}
Unnote(c) ==
  /\ c \in open /\ refusing[c] # Nothing
  /\ \E d \in Notes(refusing[c]) : tracked' = [tracked EXCEPT ![d] = @ \ {refusing[c]}]
  /\ UNCHANGED <<call, outcome, pending, chan, permits, held, settling, connVars>>

\* ... and, when they do not have it any more, its sender fails the call ...
Refuse(c) ==
  LET i == refusing[c] IN
  /\ c \in open /\ i # Nothing /\ Notes(i) = {}
  /\ outcome' = [outcome EXCEPT ![i] = "tooLarge"]
  /\ refusing' = [refusing EXCEPT ![c] = Nothing]
  /\ dropping' = [dropping EXCEPT ![c] = i]
  /\ UNCHANGED <<call, pending, tracked, chan, permits, held, settling, caller, loop, open, cleanup>>

\* ... and under the lock of the executor's ids it is removed from those.
Drop(c) ==
  /\ c \in open /\ dropping[c] # Nothing
  /\ tracked' = [tracked EXCEPT ![c] = @ \ {dropping[c]}]
  /\ dropping' = [dropping EXCEPT ![c] = Nothing]
  /\ UNCHANGED <<call, outcome, pending, chan, permits, held, settling, caller, refusing, loop, open, cleanup>>

\* Faulty variant: the answered call stays with the executor.
ReplyKept(c, i) ==
  /\ loop[c] = "reading" /\ settling[c] = Nothing
  /\ i \in held[c]
  /\ held' = [held EXCEPT ![c] = @ \ {i}]
  /\ settling' = [settling EXCEPT ![c] = i]
  /\ UNCHANGED <<call, outcome, pending, tracked, chan, permits, connVars>>

\* An InvocationResult is read: the executor no longer tracks the call ...
Reply(c, i) ==
  /\ loop[c] = "reading" /\ settling[c] = Nothing
  /\ i \in held[c]
  /\ held' = [held EXCEPT ![c] = @ \ {i}]
  /\ tracked' = [tracked EXCEPT ![c] = @ \ {i}]
  /\ settling' = [settling EXCEPT ![c] = i]
  /\ UNCHANGED <<call, outcome, pending, chan, permits, connVars>>

\* ... and its sender gets the result; a call halted meanwhile has none.
Settle(c) ==
  /\ settling[c] # Nothing
  /\ Fulfil(settling[c], "result")
  /\ settling' = [settling EXCEPT ![c] = Nothing]
  /\ UNCHANGED <<call, tracked, chan, permits, held, connVars>>

-----------------------------------------------------------------------------
(* The end of a connection. *)

\* The read loop ends; it aborts the writer, whose task is dropped later, and
\* calls cleanup_worker.
EndLoop(c) ==
  /\ loop[c] = "reading" /\ settling[c] = Nothing
  /\ loop' = [loop EXCEPT ![c] = "ended"]
  /\ UNCHANGED <<call, outcome, pending, tracked, chan, permits, held, settling, caller, refusing, dropping, open, cleanup>>

\* The writer ends, aborted or because the socket did not take a message; with
\* its future go the receiver and the sender of a call it was refusing, whose
\* wait ends with an error.
CloseChannel(c) ==
  /\ c \in open
  /\ loop[c] = "ended" \/ (chan[c] # <<>> /\ Free(c))
  /\ open' = open \ {c}
  /\ chan' = [chan EXCEPT ![c] = <<>>]
  /\ outcome' = [i \in Inv |-> IF i = refusing[c] THEN "dropped" ELSE outcome[i]]
  /\ refusing' = [refusing EXCEPT ![c] = Nothing]
  /\ dropping' = [dropping EXCEPT ![c] = Nothing]
  /\ UNCHANGED <<call, pending, tracked, permits, held, settling, caller, loop, cleanup>>

\* cleanup_worker is claimed by the exit path, or by the read loop of a
\* successor (Reattach) while this one is stuck.
Claim(c) ==
  /\ cleanup[c] = "no"
  /\ cleanup' = [cleanup EXCEPT ![c] = "claimed"]
  /\ UNCHANGED <<call, outcome, pending, tracked, chan, permits, held, settling, caller, refusing, dropping, loop, open>>

\* Faulty variant: the ids are dropped and the calls not halted.
DrainSilently(c) ==
  /\ cleanup[c] = "claimed"
  /\ cleanup' = [cleanup EXCEPT ![c] = "drained"]
  /\ tracked' = [tracked EXCEPT ![c] = {}]
  /\ UNCHANGED <<call, outcome, pending, chan, permits, held, settling, caller, refusing, dropping, loop, open>>

\* Under the lock of the ids: halt every call noted with the connection, as
\* caller or as executor.
Drain(c) ==
  /\ cleanup[c] = "claimed"
  /\ cleanup' = [cleanup EXCEPT ![c] = "drained"]
  /\ tracked' = [tracked EXCEPT ![c] = {}]
  /\ pending' = pending \ tracked[c]
  /\ outcome' = [i \in Inv |-> IF i \in tracked[c] \cap pending THEN "stopped" ELSE outcome[i]]
  /\ UNCHANGED <<call, chan, permits, held, settling, caller, refusing, dropping, loop, open>>

Finish(c) ==
  /\ cleanup[c] = "drained"
  /\ cleanup' = [cleanup EXCEPT ![c] = "done"]
  /\ UNCHANGED <<call, outcome, pending, tracked, chan, permits, held, settling, caller, refusing, dropping, loop, open>>

-----------------------------------------------------------------------------

Next ==
  \/ \E i \in Inv : Ask(i) \/ Task(i) \/ Abandon(i)
  \/ \E c \in Conn : \/ Deliver(c) \/ Oversized(c) \/ Unnote(c) \/ Refuse(c) \/ Drop(c)
                     \/ Settle(c)
                     \/ \E i \in Inv : Reply(c, i)
                     \/ EndLoop(c) \/ CloseChannel(c) \/ Claim(c) \/ Drain(c) \/ Finish(c)

Spec == Init /\ [][Next]_vars

\* Tasks of the runtime run on, a loop that has ended is torn down, and a
\* socket that cannot be written to any more ends its read loop too.  The
\* engine puts no time limit on a direct call, so a worker that stays
\* connected is assumed to answer what it has been given.
Fairness ==
  /\ \A i \in Inv : WF_vars(Task(i))
  /\ \A c \in Conn :
       /\ WF_vars(Deliver(c) \/ Oversized(c)) /\ WF_vars(Unnote(c) \/ Refuse(c) \/ Drop(c)) /\ WF_vars(Settle(c))
       /\ WF_vars(loop[c] = "ended" /\ CloseChannel(c))
       /\ WF_vars(c \notin open /\ EndLoop(c)) /\ WF_vars(loop[c] = "ended" /\ Claim(c))
       /\ WF_vars(Drain(c)) /\ WF_vars(Finish(c))
       /\ \A i \in Inv : WF_vars(Reply(c, i))

FairSpec == Spec /\ Fairness

-----------------------------------------------------------------------------
(* Properties. *)

\* No one waits for a connection that is gone: once an executor's teardown
\* has halted its calls, a call that was handed to it has its outcome, or its
\* read loop or its writer holds the sender and is about to use it.
NoOrphan == \A i \in Inv :
  /\ call[i] = "waiting"
  /\ cleanup[Executor[i]] \in {"drained", "done"}
  => outcome[i] # "none" \/ i \in {settling[Executor[i]], refusing[Executor[i]]}

\* No work goes on for a caller that is gone: once its teardown has halted
\* its calls none of them is pending, but for one not yet looked at or one
\* whose answer is being handled.
CallerGone == \A i \in pending :
  caller[i] \in Conn /\ cleanup[caller[i]] \in {"drained", "done"}
  => call[i] = "listed" \/ settling[Executor[i]] = i

\* A connection tracks a call only while its own task runs, or while it still
\* owes the answer: the sets of a long-lived connection do not grow.
TrackedIsOwed == \A c \in Conn : \A i \in tracked[c] :
  \/ c = caller[i] /\ call[i] # "over"
  \/ c = Executor[i] /\ (\/ i \in held[c] \/ i \in {refusing[c], dropping[c]} \/ c \notin open
                           \/ \E n \in DOMAIN chan[c] : chan[c][n] = i)

\* A call that is pending can still be fulfilled: its task has not finished
\* and its one-shot channel is unused, so no outcome is overwritten.
PendingIsOpen == \A i \in pending : outcome[i] = "none" /\ call[i] \notin {"no", "asked", "answering", "over"}

\* Every call ends, whatever happens to either side.
EveryCallEnds == \A i \in Inv : call[i] = "asked" ~> call[i] = "over"
====
