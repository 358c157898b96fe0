------------------------- MODULE InvocationsProofs -------------------------
(***************************************************************************)
(* Proofs about Invocations, for any connections, calls and channel        *)
(* capacity: no call waits for a connection that is gone, no call of a     *)
(* caller that is gone stays pending, a pending call can be fulfilled, and *)
(* what a connection tracks is still owed.                                 *)
(*                                                                         *)
(* The invariants of the runs are not inductive by themselves.  What       *)
(* carries them: a running call whose one-shot channel is unused is in the *)
(* map of pending calls (Open), both ends of it track it (Tracked), what   *)
(* reaches a connection was sent to it (Routed), a call whose sender a     *)
(* writer has taken waits for nothing else (Refused), and a connection     *)
(* whose teardown has drained its ids never gets a new one (Emptied).      *)
(***************************************************************************)
EXTENDS Invocations, TLAPS

\* The task of the call is inside handle_invocation.
Running == {"listed", "noted", "reserving", "reserved", "waiting"}

\* The types, but for the channels' capacity, which the argument does not use.
Shape ==
  /\ caller \in [Inv -> Conn \cup {Engine}]
  /\ call \in [Inv -> Running \cup {"no", "asked", "answering", "over"}]
  /\ outcome \in [Inv -> {"none", "result", "stopped", "unsent", "tooLarge", "dropped"}]
  /\ pending \subseteq Inv
  /\ tracked \in [Conn -> SUBSET Inv]
  /\ chan \in [Conn -> Seq(Inv)]
  /\ held \in [Conn -> SUBSET Inv]
  /\ settling \in [Conn -> Inv \cup {Nothing}]
  /\ refusing \in [Conn -> Inv \cup {Nothing}] /\ dropping \in [Conn -> Inv \cup {Nothing}]
  /\ cleanup \in [Conn -> {"no", "claimed", "drained", "done"}]

\* The task of the call has handed it over.
Sent == {"waiting", "answering", "over"}

\* What reaches a connection was sent to it.
Routed == \A c \in Conn :
  /\ \A n \in 1..Len(chan[c]) : Executor[chan[c][n]] = c /\ call[chan[c][n]] \in Sent
  /\ \A i \in held[c] : Executor[i] = c

\* A call being refused waits for it, unless it was abandoned, and nobody else
\* has its sender; one that a writer has yet to forget has its outcome.
Refused ==
  /\ \A c \in Conn : refusing[c] # Nothing =>
       LET i == refusing[c] IN
       /\ Executor[i] = c /\ i \notin pending /\ dropping[c] = Nothing
       /\ call[i] = "over" \/ (call[i] = "waiting" /\ outcome[i] = "none")
  /\ \A c \in Conn : dropping[c] # Nothing =>
       LET i == dropping[c] IN
       /\ Executor[i] = c /\ i \notin pending
       /\ call[i] \in Sent /\ (call[i] = "waiting" => outcome[i] # "none")

\* A drained connection gets no new id.
Emptied == \A c \in Conn : cleanup[c] \in {"drained", "done"} => tracked[c] = {}

\* A running call is pending exactly while its one-shot channel is unused and
\* no writer is refusing it.
Open == \A i \in Inv :
  /\ i \in pending => outcome[i] = "none" /\ call[i] \in Running
  /\ call[i] \in {"no", "asked"} => outcome[i] = "none"
  /\ call[i] \in Running /\ outcome[i] = "none" => i \in pending \/ refusing[Executor[i]] = i

\* Both ends of a call have its id, so that either teardown halts it.
Tracked == \A i \in Inv :
  /\ call[i] = "waiting" =>
       \/ i \in tracked[Executor[i]] \/ outcome[i] # "none"
       \/ i \in {settling[Executor[i]], refusing[Executor[i]]}
  /\ i \in pending /\ call[i] # "listed" /\ caller[i] \in Conn =>
       i \in tracked[caller[i]] \/ settling[Executor[i]] = i

IInv == Shape /\ Routed /\ Refused /\ Emptied /\ Open /\ Tracked

-----------------------------------------------------------------------------
\* At first nothing is called, tracked or in a channel.
LEMMA InitIInv == Init => IInv
<1> SUFFICES ASSUME Init PROVE IInv
  OBVIOUS
<1>1. Shape
  BY InvocationsAssumption DEF Init, Shape, Running
<1>2. Routed /\ Refused /\ Emptied /\ Open /\ Tracked
  BY <1>1, InvocationsAssumption DEF Init, Routed, Refused, Emptied, Open, Tracked, Running
<1>3. QED
  BY <1>1, <1>2 DEF IInv

\* A task that is not waiting, or whose wait is over, leaves the map.
LEMMA LeavesKeeps ==
  ASSUME Shape, Routed, Refused, Emptied, Open, Tracked,
         NEW i \in Inv, NEW o \in {"result", "stopped", "unsent", "tooLarge", "dropped"},
         call[i] \in Running, call[i] = "waiting" => outcome[i] # "none",
         Leaves(i, o), UNCHANGED <<tracked, chan, held, settling, refusing, dropping, caller, cleanup>>
  PROVE  Shape' /\ Routed' /\ Refused' /\ Emptied' /\ Open' /\ Tracked'
<1> USE InvocationsAssumption
<1>0. /\ call' = [call EXCEPT ![i] = "answering"]
      /\ outcome' = [outcome EXCEPT ![i] = o]
      /\ pending' = pending \ {i}
  BY DEF Leaves
<1>00. \A c \in Conn : refusing[c] # i
  <2>1. SUFFICES ASSUME NEW c \in Conn, refusing[c] = i PROVE FALSE
    OBVIOUS
  <2>2. call[i] = "over" \/ (call[i] = "waiting" /\ outcome[i] = "none")
    BY <2>1 DEF Refused
  <2>3. QED
    BY <2>2 DEF Running
<1>1. Shape'
  BY <1>0, <1>00 DEF Shape, Running
<1>2. Routed'
  BY <1>0, <1>00 DEF Shape, Routed, Sent
<1>3. Refused'
  BY <1>0, <1>00 DEF Shape, Refused, Sent
<1>4. Emptied'
  BY <1>0, <1>00 DEF Shape, Emptied
<1>5. Open'
  BY <1>0, <1>00 DEF Shape, Refused, Open, Running
<1>6. Tracked'
  BY <1>0, <1>00 DEF Shape, Refused, Open, Tracked, Running
<1>7. QED
  BY <1>1, <1>2, <1>3, <1>4, <1>5, <1>6

\* The steps of a task that neither look at a teardown nor send.
LEMMA TaskKeeps ==
  ASSUME Shape, Routed, Refused, Emptied, Open, Tracked,
         NEW i \in Inv, Ask(i) \/ List(i) \/ Wake(i) \/ Answer(i) \/ Abandon(i)
  PROVE  Shape' /\ Routed' /\ Refused' /\ Emptied' /\ Open' /\ Tracked'
<1> USE InvocationsAssumption DEF connVars
<1>1. CASE Ask(i)
  <2>1. Shape'
    BY <1>1 DEF Ask, Shape, Running
  <2>2. Routed'
    BY <1>1 DEF Ask, Shape, Routed, Sent
  <2>3. Refused'
    BY <1>1 DEF Ask, Shape, Refused, Sent
  <2>4. Emptied'
    BY <1>1 DEF Ask, Shape, Emptied
  <2>5. Open'
    BY <1>1 DEF Ask, Shape, Refused, Open, Running
  <2>6. Tracked'
    BY <1>1 DEF Ask, Shape, Refused, Open, Tracked, Running
  <2>7. QED
    BY <2>1, <2>2, <2>3, <2>4, <2>5, <2>6
<1>2. CASE List(i)
  <2>1. Shape'
    BY <1>2 DEF List, Shape, Running
  <2>2. Routed'
    BY <1>2 DEF List, Shape, Routed, Sent
  <2>3. Refused'
    BY <1>2 DEF List, Shape, Refused, Sent
  <2>4. Emptied'
    BY <1>2 DEF List, Shape, Emptied
  <2>5. Open'
    BY <1>2 DEF List, Shape, Refused, Open, Running
  <2>6. Tracked'
    BY <1>2 DEF List, Shape, Refused, Open, Tracked, Running
  <2>7. QED
    BY <2>1, <2>2, <2>3, <2>4, <2>5, <2>6
<1>3. CASE Wake(i)
  <2>1. /\ call[i] = "waiting" /\ outcome[i] \in {"result", "stopped", "unsent", "tooLarge", "dropped"}
        /\ Leaves(i, outcome[i]) /\ UNCHANGED <<tracked, chan, held, settling, refusing, dropping, caller, cleanup>>
    BY <1>3 DEF Wake, Shape
  <2>2. QED
    BY <2>1, LeavesKeeps DEF Running
<1>4. CASE Answer(i)
  <2>0. /\ call[i] = "answering" /\ call' = [call EXCEPT ![i] = "over"]
        /\ \A c \in Conn : tracked'[c] = IF c = caller[i] THEN tracked[c] \ {i} ELSE tracked[c]
        /\ tracked' \in [Conn -> SUBSET Inv]
        /\ UNCHANGED <<outcome, pending, chan, held, settling, refusing, dropping, caller, cleanup>>
    BY <1>4 DEF Answer, Shape
  <2>1. Shape'
    BY <2>0 DEF Shape, Running
  <2>2. Routed'
    BY <2>0 DEF Shape, Routed, Sent
  <2>3. Refused'
    BY <2>0 DEF Shape, Refused, Sent
  <2>4. Emptied'
    BY <2>0 DEF Shape, Emptied
  <2>5. Open'
    BY <2>0 DEF Shape, Refused, Open, Running
  <2>6. Tracked'
    <3>1. i \notin pending
      BY <2>0 DEF Open, Running
    <3>2. SUFFICES ASSUME NEW j \in Inv, j # i
                   PROVE  /\ call[j] = "waiting" =>
                               \/ j \in tracked'[Executor[j]] \/ outcome[j] # "none"
                               \/ j \in {settling[Executor[j]], refusing[Executor[j]]}
                          /\ j \in pending /\ call[j] # "listed" /\ caller[j] \in Conn =>
                               j \in tracked'[caller[j]] \/ settling[Executor[j]] = j
      BY <2>0, <3>1 DEF Tracked, Shape
    <3>3. \A c \in Conn : j \in tracked[c] => j \in tracked'[c]
      BY <2>0, <3>2
    <3>4. QED
      BY <3>3 DEF Tracked, Shape
  <2>7. QED
    BY <2>1, <2>2, <2>3, <2>4, <2>5, <2>6
<1>5. CASE Abandon(i)
  <2>1. Shape'
    BY <1>5 DEF Abandon, Shape, Running
  <2>2. Routed'
    BY <1>5 DEF Abandon, Shape, Routed, Sent
  <2>3. Refused'
    BY <1>5 DEF Abandon, Shape, Refused, Sent
  <2>4. Emptied'
    BY <1>5 DEF Abandon, Shape, Emptied
  <2>5. Open'
    BY <1>5 DEF Abandon, Shape, Refused, Open, Running
  <2>6. Tracked'
    BY <1>5 DEF Abandon, Shape, Refused, Open, Tracked, Running
  <2>7. QED
    BY <2>1, <2>2, <2>3, <2>4, <2>5, <2>6
<1>6. QED
  BY <1>1, <1>2, <1>3, <1>4, <1>5

\* The steps that look at a teardown: the call goes on, or leaves the map.
LEMMA LookKeeps ==
  ASSUME Shape, Routed, Refused, Emptied, Open, Tracked,
         NEW i \in Inv, Note(i) \/ Begin(i) \/ Reserve(i)
  PROVE  Shape' /\ Routed' /\ Refused' /\ Emptied' /\ Open' /\ Tracked'
<1> USE InvocationsAssumption DEF connVars
<1>1. ASSUME NEW o \in {"stopped", "unsent"}, Leaves(i, o), UNCHANGED <<tracked, chan, held, settling, refusing, dropping, caller, cleanup>>
      PROVE  Shape' /\ Routed' /\ Refused' /\ Emptied' /\ Open' /\ Tracked'
  BY <1>1, LeavesKeeps DEF Note, Begin, Reserve, Running
<1>2. CASE Note(i) /\ caller[i] = Engine
  <2>0. /\ call[i] = "listed" /\ call' = [call EXCEPT ![i] = "noted"]
        /\ UNCHANGED <<outcome, pending, tracked, chan, held, settling, refusing, dropping, caller, cleanup>>
    BY <1>2 DEF Note
  <2>1. Shape'
    BY <1>2, <2>0 DEF Shape, Running
  <2>2. Routed'
    BY <1>2, <2>0 DEF Shape, Routed, Sent
  <2>3. Refused'
    BY <1>2, <2>0 DEF Shape, Refused, Sent
  <2>4. Emptied'
    BY <1>2, <2>0 DEF Shape, Emptied
  <2>5. Open'
    BY <1>2, <2>0 DEF Shape, Refused, Open, Running
  <2>6. Tracked'
    BY <1>2, <2>0 DEF Shape, Refused, Open, Tracked, Running
  <2>7. QED
    BY <2>1, <2>2, <2>3, <2>4, <2>5, <2>6
<1>3. CASE Note(i) /\ caller[i] \in Conn /\ ~Claimed(caller[i])
  <2>0. /\ call[i] = "listed" /\ call' = [call EXCEPT ![i] = "noted"]
        /\ tracked' = [tracked EXCEPT ![caller[i]] = @ \cup {i}]
        /\ UNCHANGED <<outcome, pending, chan, held, settling, refusing, dropping, caller, cleanup>>
    BY <1>3 DEF Note
  <2>1. Shape'
    BY <1>3, <2>0 DEF Claimed, Shape, Running
  <2>2. Routed'
    BY <1>3, <2>0 DEF Claimed, Shape, Routed, Sent
  <2>3. Refused'
    BY <1>3, <2>0 DEF Claimed, Shape, Refused, Sent
  <2>4. Emptied'
    BY <1>3, <2>0 DEF Claimed, Shape, Emptied
  <2>5. Open'
    BY <1>3, <2>0 DEF Claimed, Shape, Refused, Open, Running
  <2>6. Tracked'
    BY <1>3, <2>0 DEF Claimed, Shape, Refused, Open, Tracked, Running
  <2>7. QED
    BY <2>1, <2>2, <2>3, <2>4, <2>5, <2>6
<1>4. ASSUME NEW x \in {"reserving", "reserved"}, call[i] \in {"noted", "reserving"},
             call' = [call EXCEPT ![i] = x], UNCHANGED <<outcome, pending, tracked, chan, held, settling, refusing, dropping, caller, cleanup>>
      PROVE  Shape' /\ Routed' /\ Refused' /\ Emptied' /\ Open' /\ Tracked'
  <2>1. Shape'
    BY <1>4 DEF Shape, Running
  <2>2. Routed'
    BY <1>4 DEF Shape, Routed, Sent
  <2>3. Refused'
    BY <1>4 DEF Shape, Refused, Sent
  <2>4. Emptied'
    BY <1>4 DEF Shape, Emptied
  <2>5. Open'
    BY <1>4 DEF Shape, Refused, Open, Running
  <2>6. Tracked'
    BY <1>4 DEF Shape, Refused, Open, Tracked, Running
  <2>7. QED
    BY <2>1, <2>2, <2>3, <2>4, <2>5, <2>6
<1>5. CASE Note(i)
  BY <1>1, <1>2, <1>3, <1>5 DEF Note, Shape
<1>6. CASE Begin(i)
  BY <1>1, <1>4, <1>6 DEF Begin
<1>7. CASE Reserve(i)
  BY <1>1, <1>4, <1>7 DEF Reserve
<1>8. QED
  BY <1>5, <1>6, <1>7

\* Sending: the executor's teardown has not begun, so its ids are not drained.
LEMMA SendKeeps ==
  ASSUME Shape, Routed, Refused, Emptied, Open, Tracked, NEW i \in Inv, Send(i)
  PROVE  Shape' /\ Routed' /\ Refused' /\ Emptied' /\ Open' /\ Tracked'
<1> USE InvocationsAssumption DEF connVars
<1> DEFINE e == Executor[i]
<1>0. e \in Conn /\ i \in Inv
  OBVIOUS
<1>1. CASE Claimed(e) \/ e \notin open
  <2>1. PICK o \in {"stopped", "unsent"} : Leaves(i, o) /\ UNCHANGED <<tracked, chan, held, settling, refusing, dropping, caller, cleanup>>
    BY <1>1 DEF Send
  <2>2. call[i] = "reserved"
    BY DEF Send
  <2>3. QED
    BY <2>1, <2>2, LeavesKeeps DEF Running
<1>2. CASE ~Claimed(e) /\ e \in open
  <2>0. /\ call[i] = "reserved"
        /\ call' = [call EXCEPT ![i] = "waiting"]
        /\ tracked' = [tracked EXCEPT ![e] = @ \cup {i}]
        /\ chan' = [chan EXCEPT ![e] = Append(@, i)]
        /\ UNCHANGED <<outcome, pending, held, settling, refusing, dropping, caller, cleanup>>
    BY <1>2 DEF Send
  <2>1. Shape'
    BY <1>0, <1>2, <2>0 DEF Claimed, Shape, Running
  <2>2. Routed'
    <3>1. \A c \in Conn : chan'[c] = IF c = e THEN Append(chan[c], i) ELSE chan[c]
      BY <1>0, <2>0 DEF Shape
    <3>2. ASSUME NEW c \in Conn, NEW n \in 1..Len(chan'[c]) 
          PROVE  Executor[chan'[c][n]] = c /\ call'[chan'[c][n]] \in Sent
      <4>1. CASE c = e
        <5>1. chan[c] \in Seq(Inv) /\ chan'[c] = Append(chan[c], i)
          BY <3>1, <4>1 DEF Shape
        <5>2. Len(chan'[c]) = Len(chan[c]) + 1 /\ Len(chan[c]) \in Nat
          BY <5>1
        <5>3. chan'[c][n] = IF n <= Len(chan[c]) THEN chan[c][n] ELSE i
          BY <5>1, <5>2
        <5>4. QED
          BY <1>0, <2>0, <4>1, <5>1, <5>2, <5>3 DEF Shape, Routed, Sent
      <4>2. CASE c # e
        BY <1>0, <2>0, <3>1, <4>2 DEF Shape, Routed, Sent
      <4>3. QED
        BY <4>1, <4>2
    <3>3. QED
      BY <2>0, <3>2 DEF Routed
  <2>3. Refused'
    BY <1>0, <1>2, <2>0 DEF Claimed, Shape, Routed, Refused, Open, Running, Sent
  <2>4. Emptied'
    BY <1>0, <1>2, <2>0 DEF Claimed, Shape, Emptied
  <2>5. Open'
    BY <1>0, <1>2, <2>0 DEF Claimed, Shape, Refused, Open, Running
  <2>6. Tracked'
    BY <1>0, <1>2, <2>0 DEF Claimed, Shape, Refused, Open, Tracked, Running
  <2>7. QED
    BY <2>1, <2>2, <2>3, <2>4, <2>5, <2>6
<1>3. QED
  BY <1>1, <1>2

\* What the executor's connection does to the calls sent to it.
LEMMA ExecutorKeeps ==
  ASSUME Shape, Routed, Refused, Emptied, Open, Tracked, NEW c \in Conn,
         Deliver(c) \/ Oversized(c) \/ Unnote(c) \/ Refuse(c) \/ Drop(c) \/ Settle(c) \/ \E i \in Inv : Reply(c, i)
  PROVE  Shape' /\ Routed' /\ Refused' /\ Emptied' /\ Open' /\ Tracked'
<1> USE InvocationsAssumption DEF Leaves, connVars, Claimed, Done, Fulfil
<1>1. CASE Deliver(c)
  <2>0. /\ Head(chan[c]) \in Inv /\ Executor[Head(chan[c])] = c /\ call[Head(chan[c])] \in Sent
        /\ Tail(chan[c]) \in Seq(Inv)
        /\ \A n \in 1..Len(Tail(chan[c])) :
             Executor[Tail(chan[c])[n]] = c /\ call[Tail(chan[c])[n]] \in Sent
    BY <1>1 DEF Deliver, Shape, Routed, Sent
  <2>1. Shape'
    BY <1>1, <2>0 DEF Deliver, Shape, Running
  <2>2. Routed'
    BY <1>1, <2>0 DEF Deliver, Shape, Routed, Sent
  <2>3. Refused'
    BY <1>1, <2>0 DEF Deliver, Shape, Routed, Refused, Open, Running, Sent
  <2>4. Emptied'
    BY <1>1, <2>0 DEF Deliver, Shape, Emptied
  <2>5. Open'
    BY <1>1, <2>0 DEF Deliver, Shape, Refused, Open, Running
  <2>6. Tracked'
    BY <1>1, <2>0 DEF Deliver, Shape, Refused, Open, Tracked, Running
  <2>7. QED
    BY <2>1, <2>2, <2>3, <2>4, <2>5, <2>6
<1>2. CASE Oversized(c)
  <2> DEFINE h == Head(chan[c])
  <2>0. /\ h \in Inv /\ Executor[h] = c /\ call[h] \in Sent
        /\ Tail(chan[c]) \in Seq(Inv)
        /\ \A n \in 1..Len(Tail(chan[c])) :
             Executor[Tail(chan[c])[n]] = c /\ call[Tail(chan[c])[n]] \in Sent
    BY <1>2 DEF Oversized, Shape, Routed, Sent
  <2>1. /\ chan' = [chan EXCEPT ![c] = Tail(chan[c])] /\ pending' = pending \ {h}
        /\ refusing[c] = Nothing /\ dropping[c] = Nothing
        /\ UNCHANGED <<call, outcome, tracked, held, settling, caller, cleanup>>
    BY <1>2 DEF Oversized, Free
  <2> HIDE DEF h
  <2>2. CASE h \in pending
    <3>0. refusing' = [refusing EXCEPT ![c] = h] /\ dropping' = dropping
      BY <1>2, <2>2 DEF Oversized, h
    <3>00. call[h] = "waiting" /\ outcome[h] = "none"
      BY <2>0, <2>2 DEF Open, Running, Sent
    <3>1. Shape'
      BY <2>0, <2>1, <2>2, <3>0, <3>00 DEF Shape, Running
    <3>2. Routed'
      BY <2>0, <2>1, <2>2, <3>0, <3>00 DEF Shape, Routed, Sent
    <3>3. Refused'
      BY <2>0, <2>1, <2>2, <3>0, <3>00 DEF Shape, Refused, Sent
    <3>4. Emptied'
      BY <2>0, <2>1, <2>2, <3>0, <3>00 DEF Shape, Emptied
    <3>5. Open'
      BY <2>0, <2>1, <2>2, <3>0, <3>00 DEF Shape, Refused, Open, Running
    <3>6. Tracked'
      BY <2>0, <2>1, <2>2, <3>0, <3>00 DEF Shape, Refused, Open, Tracked, Running
    <3>7. QED
      BY <3>1, <3>2, <3>3, <3>4, <3>5, <3>6
  <2>3. CASE h \notin pending
    <3>0. dropping' = [dropping EXCEPT ![c] = h] /\ refusing' = refusing /\ pending' = pending
      BY <1>2, <2>1, <2>3 DEF Oversized, h
    <3>00. ASSUME call[h] = "waiting", outcome[h] = "none" PROVE refusing[c] = h
      BY <2>0, <2>3, <3>00 DEF Open, Running
    <3>1. Shape'
      BY <2>0, <2>1, <2>3, <3>0, <3>00 DEF Shape, Running
    <3>2. Routed'
      BY <2>0, <2>1, <2>3, <3>0, <3>00 DEF Shape, Routed, Sent
    <3>3. Refused'
      BY <2>0, <2>1, <2>3, <3>0, <3>00 DEF Shape, Refused, Sent
    <3>4. Emptied'
      BY <2>0, <2>1, <2>3, <3>0, <3>00 DEF Shape, Emptied
    <3>5. Open'
      BY <2>0, <2>1, <2>3, <3>0, <3>00 DEF Shape, Refused, Open, Running
    <3>6. Tracked'
      BY <2>0, <2>1, <2>3, <3>0, <3>00 DEF Shape, Refused, Open, Tracked, Running
    <3>7. QED
      BY <3>1, <3>2, <3>3, <3>4, <3>5, <3>6
  <2>4. QED
    BY <2>2, <2>3
<1>3. CASE Settle(c)
  <2>1. Shape'
    BY <1>3 DEF Settle, Shape, Running
  <2>2. Routed'
    BY <1>3 DEF Settle, Shape, Routed, Sent
  <2>3. Refused'
    BY <1>3 DEF Settle, Shape, Routed, Refused, Open, Running, Sent
  <2>4. Emptied'
    BY <1>3 DEF Settle, Shape, Emptied
  <2>5. Open'
    BY <1>3 DEF Settle, Shape, Refused, Open, Running
  <2>6. Tracked'
    BY <1>3 DEF Settle, Shape, Refused, Open, Tracked, Running
  <2>7. QED
    BY <2>1, <2>2, <2>3, <2>4, <2>5, <2>6
<1>4. ASSUME NEW i \in Inv, Reply(c, i)
      PROVE  Shape' /\ Routed' /\ Refused' /\ Emptied' /\ Open' /\ Tracked'
  <2>0. Executor[i] = c
    BY <1>4 DEF Reply, Routed
  <2>1. Shape'
    BY <1>4, <2>0 DEF Reply, Shape, Running
  <2>2. Routed'
    BY <1>4, <2>0 DEF Reply, Shape, Routed, Sent
  <2>3. Refused'
    BY <1>4, <2>0 DEF Reply, Shape, Routed, Refused, Open, Running, Sent
  <2>4. Emptied'
    BY <1>4, <2>0 DEF Reply, Shape, Emptied
  <2>5. Open'
    BY <1>4, <2>0 DEF Reply, Shape, Refused, Open, Running
  <2>6. Tracked'
    BY <1>4, <2>0 DEF Reply, Shape, Refused, Open, Tracked, Running
  <2>7. QED
    BY <2>1, <2>2, <2>3, <2>4, <2>5, <2>6
<1>5. CASE Unnote(c) \/ Drop(c)
  <2> DEFINE r == IF Unnote(c) THEN refusing[c] ELSE dropping[c]
  <2>1. r \in Inv /\ r \notin pending /\ (r = refusing[c] \/ call[r] # "waiting" \/ outcome[r] # "none")
        /\ Executor[r] = c
    BY <1>5 DEF Unnote, Drop, Refused, Shape
  <2>2. PICK d \in Conn : tracked' = [tracked EXCEPT ![d] = @ \ {r}]
    BY <1>5 DEF Unnote, Drop, Notes
  <2>3. /\ UNCHANGED <<call, outcome, pending, chan, held, settling, refusing, caller, cleanup>>
        /\ dropping' = dropping \/ dropping' = [dropping EXCEPT ![c] = Nothing]
    BY <1>5 DEF Unnote, Drop
  <2> HIDE DEF r
  <2>4. Shape' /\ Routed' /\ Refused' /\ Emptied' /\ Open'
    <3>1. Shape'
      BY <2>2, <2>3 DEF Shape
    <3>2. Routed' /\ Open'
      BY <2>3 DEF Routed, Open
    <3>3. Refused'
      BY <2>3 DEF Refused, Shape
    <3>4. Emptied'
      BY <2>2, <2>3 DEF Emptied, Shape
    <3>5. QED
      BY <3>1, <3>2, <3>3, <3>4
  <2>5. Tracked'
    BY <2>1, <2>2, <2>3 DEF Tracked, Shape
  <2>6. QED
    BY <2>4, <2>5
<1>6. CASE Refuse(c)
  <2> DEFINE r == refusing[c]
  <2>0. /\ refusing[c] = r /\ r \in Inv /\ Executor[r] = c /\ r \notin pending
        /\ call[r] = "over" \/ (call[r] = "waiting" /\ outcome[r] = "none")
    BY <1>6 DEF Refuse, Shape, Refused
  <2>00. /\ outcome' = [outcome EXCEPT ![r] = "tooLarge"]
         /\ dropping' = [dropping EXCEPT ![c] = r]
         /\ refusing' = [refusing EXCEPT ![c] = Nothing]
         /\ UNCHANGED <<call, pending, tracked, chan, held, settling, caller, cleanup>>
    BY <1>6 DEF Refuse, Shape
  <2>000. \A d \in Conn : refusing[d] = r => d = c
    BY <2>0 DEF Refused, Shape
  <2> HIDE DEF r
  <2>1. Shape'
    BY <2>0, <2>00 DEF Shape, Running
  <2>2. Routed'
    BY <2>0, <2>00 DEF Shape, Routed, Sent
  <2>3. Refused'
    BY <2>0, <2>00, <2>000 DEF Shape, Routed, Refused, Open, Running, Sent
  <2>4. Emptied'
    BY <2>0, <2>00, <2>000 DEF Shape, Emptied
  <2>5. Open'
    BY <2>0, <2>00, <2>000 DEF Shape, Refused, Open, Running
  <2>6. Tracked'
    <3>1. SUFFICES ASSUME NEW j \in Inv, j # r
                   PROVE  /\ call[j] = "waiting" =>
                               \/ j \in tracked'[Executor[j]] \/ outcome[j] # "none"
                               \/ j \in {settling[Executor[j]], refusing'[Executor[j]]}
                          /\ j \in pending /\ call[j] # "listed" /\ caller[j] \in Conn =>
                               j \in tracked'[caller[j]] \/ settling[Executor[j]] = j
      BY <2>0, <2>00 DEF Tracked, Shape
    <3>2. \A d \in Conn : /\ j \in tracked[d] => j \in tracked'[d]
                          /\ refusing[d] = j => refusing'[d] = j
      BY <2>0, <2>00, <3>1 DEF Shape
    <3>3. QED
      BY <3>2 DEF Tracked, Shape
  <2>7. QED
    BY <2>1, <2>2, <2>3, <2>4, <2>5, <2>6
<1>7. QED
  BY <1>1, <1>2, <1>3, <1>4, <1>5, <1>6

\* The end of a connection: its drain halts every call it tracks.
LEMMA TeardownKeeps ==
  ASSUME Shape, Routed, Refused, Emptied, Open, Tracked, NEW c \in Conn,
         EndLoop(c) \/ CloseChannel(c) \/ Claim(c) \/ Drain(c) \/ Finish(c)
  PROVE  Shape' /\ Routed' /\ Refused' /\ Emptied' /\ Open' /\ Tracked'
<1> USE InvocationsAssumption DEF Leaves, connVars, Claimed, Done, Fulfil
<1>1. CASE EndLoop(c)
  <2>1. Shape'
    BY <1>1 DEF EndLoop, Shape, Running
  <2>2. Routed'
    BY <1>1 DEF EndLoop, Shape, Routed, Sent
  <2>3. Refused'
    BY <1>1 DEF EndLoop, Shape, Routed, Refused, Open, Running, Sent
  <2>4. Emptied'
    BY <1>1 DEF EndLoop, Shape, Emptied
  <2>5. Open'
    BY <1>1 DEF EndLoop, Shape, Refused, Open, Running
  <2>6. Tracked'
    BY <1>1 DEF EndLoop, Shape, Refused, Open, Tracked, Running
  <2>7. QED
    BY <2>1, <2>2, <2>3, <2>4, <2>5, <2>6
<1>2. CASE CloseChannel(c)
  <2>1. Shape'
    BY <1>2 DEF CloseChannel, Shape, Running
  <2>2. Routed'
    BY <1>2 DEF CloseChannel, Shape, Routed, Sent
  <2>3. Refused'
    BY <1>2 DEF CloseChannel, Shape, Routed, Refused, Open, Running, Sent
  <2>4. Emptied'
    BY <1>2 DEF CloseChannel, Shape, Emptied
  <2>5. Open'
    <3>1. /\ UNCHANGED <<call, pending>> /\ refusing' = [refusing EXCEPT ![c] = Nothing]
          /\ outcome' = [i \in Inv |-> IF i = refusing[c] THEN "dropped" ELSE outcome[i]]
      BY <1>2 DEF CloseChannel
    <3>2. ASSUME NEW i \in Inv, i # refusing[c]
          PROVE  outcome'[i] = outcome[i] /\ (refusing[Executor[i]] = i => refusing'[Executor[i]] = i)
      BY <3>1, <3>2 DEF Shape
    <3>3. ASSUME NEW i \in Inv, i = refusing[c]
          PROVE  outcome'[i] # "none" /\ i \notin pending /\ call[i] \notin {"no", "asked"}
      BY <3>1, <3>3 DEF Refused
    <3>4. QED
      BY <3>1, <3>2, <3>3 DEF Open
  <2>6. Tracked'
    BY <1>2 DEF CloseChannel, Shape, Refused, Open, Tracked, Running
  <2>7. QED
    BY <2>1, <2>2, <2>3, <2>4, <2>5, <2>6
<1>3. CASE Claim(c)
  <2>1. Shape'
    BY <1>3 DEF Claim, Shape, Running
  <2>2. Routed'
    BY <1>3 DEF Claim, Shape, Routed, Sent
  <2>3. Refused'
    BY <1>3 DEF Claim, Shape, Routed, Refused, Open, Running, Sent
  <2>4. Emptied'
    BY <1>3 DEF Claim, Shape, Emptied
  <2>5. Open'
    BY <1>3 DEF Claim, Shape, Refused, Open, Running
  <2>6. Tracked'
    BY <1>3 DEF Claim, Shape, Refused, Open, Tracked, Running
  <2>7. QED
    BY <2>1, <2>2, <2>3, <2>4, <2>5, <2>6
<1>4. CASE Drain(c)
  <2>1. Shape'
    BY <1>4 DEF Drain, Shape, Running
  <2>2. Routed'
    BY <1>4 DEF Drain, Shape, Routed, Sent
  <2>3. Refused'
    BY <1>4 DEF Drain, Shape, Routed, Refused, Open, Running, Sent
  <2>4. Emptied'
    BY <1>4 DEF Drain, Shape, Emptied
  <2>5. Open'
    BY <1>4 DEF Drain, Shape, Refused, Open, Running
  <2>6. Tracked'
    BY <1>4 DEF Drain, Shape, Refused, Open, Tracked, Running
  <2>7. QED
    BY <2>1, <2>2, <2>3, <2>4, <2>5, <2>6
<1>5. CASE Finish(c)
  <2>1. Shape'
    BY <1>5 DEF Finish, Shape, Running
  <2>2. Routed'
    BY <1>5 DEF Finish, Shape, Routed, Sent
  <2>3. Refused'
    BY <1>5 DEF Finish, Shape, Routed, Refused, Open, Running, Sent
  <2>4. Emptied'
    BY <1>5 DEF Finish, Shape, Emptied
  <2>5. Open'
    BY <1>5 DEF Finish, Shape, Refused, Open, Running
  <2>6. Tracked'
    BY <1>5 DEF Finish, Shape, Refused, Open, Tracked, Running
  <2>7. QED
    BY <2>1, <2>2, <2>3, <2>4, <2>5, <2>6
<1>6. QED
  BY <1>1, <1>2, <1>3, <1>4, <1>5

\* Every step of the specification keeps the invariant.
LEMMA InductiveStep == IInv /\ [Next]_vars => IInv'
<1> SUFFICES ASSUME IInv, [Next]_vars PROVE IInv'
  OBVIOUS
<1>1. ASSUME NEW i \in Inv, Ask(i) \/ Task(i) \/ Abandon(i) PROVE IInv'
  BY <1>1, TaskKeeps, LookKeeps, SendKeeps DEF Task, IInv
<1>2. ASSUME NEW c \in Conn, Deliver(c) \/ Oversized(c) \/ Unnote(c) \/ Refuse(c) \/ Drop(c) \/ Settle(c) \/ (\E i \in Inv : Reply(c, i))
      PROVE IInv'
  BY <1>2, ExecutorKeeps DEF IInv
<1>3. ASSUME NEW c \in Conn, EndLoop(c) \/ CloseChannel(c) \/ Claim(c) \/ Drain(c) \/ Finish(c)
      PROVE IInv'
  BY <1>3, TeardownKeeps DEF IInv
<1>4. CASE UNCHANGED vars
  <2>1. UNCHANGED <<call, outcome, pending, tracked, chan, held, settling, refusing, dropping, caller, cleanup>>
    BY <1>4 DEF vars, connVars
  <2>2. Shape' /\ Emptied' /\ Open' /\ Tracked'
    BY <2>1 DEF IInv, Shape, Emptied, Open, Tracked
  <2>3. Routed' /\ Refused'
    BY <2>1 DEF IInv, Routed, Refused
  <2>4. QED
    BY <2>2, <2>3 DEF IInv
<1>5. QED
  BY <1>1, <1>2, <1>3, <1>4 DEF Next

\* So it always holds.
LEMMA Invariance == Spec => []IInv
<1>1. QED
  BY InitIInv, InductiveStep, PTL DEF Spec

-----------------------------------------------------------------------------
\* Whatever the interleaving of calls, answers and teardowns, no caller is
\* left waiting for an executor whose cleanup_worker has halted its calls.
THEOREM NobodyIsOrphaned == Spec => []NoOrphan
<1>1. IInv => NoOrphan
  BY InvocationsAssumption DEF IInv, Shape, Emptied, Tracked, NoOrphan
<1>2. QED
  BY <1>1, Invariance, PTL

\* No call stays pending for a caller whose cleanup_worker has halted its
\* calls.
THEOREM GoneCallersAreDropped == Spec => []CallerGone
<1>1. IInv => CallerGone
  BY InvocationsAssumption DEF IInv, Shape, Emptied, Tracked, CallerGone
<1>2. QED
  BY <1>1, Invariance, PTL

\* The sender in the map of pending calls is unused and its task still there:
\* the result of a call is never overwritten and never given twice.
THEOREM PendingCallsAreOpen == Spec => []PendingIsOpen
<1>1. IInv => PendingIsOpen
  BY DEF IInv, Shape, Open, PendingIsOpen, Running
<1>2. QED
  BY <1>1, Invariance, PTL

-----------------------------------------------------------------------------
(* TrackedIsOwed.  An id is dropped by whoever ends its reason to be there. *)

\* Why a connection tracks a call.
Owes(c, i) ==
  \/ c = caller[i] /\ call[i] # "over"
  \/ c = Executor[i] /\ (\/ i \in held[c] \/ i \in {refusing[c], dropping[c]} \/ c \notin open
                           \/ \E n \in DOMAIN chan[c] : chan[c][n] = i)

\* A step that tracks nothing new and ends no reason keeps the property.
LEMMA StillOwed ==
  ASSUME Shape, TrackedIsOwed,
         \A c \in Conn : \A i \in tracked'[c] : i \in tracked[c] /\ (Owes(c, i) => Owes(c, i)')
  PROVE  TrackedIsOwed'
<1>1. \A c \in Conn : \A i \in tracked[c] : Owes(c, i)
  BY DEF TrackedIsOwed, Owes
<1>2. \A c \in Conn : \A i \in tracked'[c] : Owes(c, i)'
  BY <1>1
<1>3. QED
  BY <1>2 DEF TrackedIsOwed, Owes

\* The task of a call ends the caller's reason, with Answer, and gives the
\* executor one, with Send.
LEMMA TaskOwes ==
  ASSUME Shape, TrackedIsOwed, NEW i \in Inv, Ask(i) \/ Task(i) \/ Abandon(i)
  PROVE  TrackedIsOwed'
<1> USE InvocationsAssumption DEF connVars, Leaves
<1>1. CASE Ask(i)
  BY <1>1, StillOwed DEF Ask, Owes, Shape
<1>2. CASE List(i)
  BY <1>2, StillOwed DEF List, Owes, Shape
<1>3. CASE Note(i)
  BY <1>3 DEF Note, TrackedIsOwed, Shape
<1>4. CASE Begin(i)
  BY <1>4, StillOwed DEF Begin, Owes, Shape
<1>5. CASE Reserve(i)
  BY <1>5, StillOwed DEF Reserve, Owes, Shape
<1>6. CASE Send(i)
  <2>1. CASE call' = [call EXCEPT ![i] = "answering"] /\ UNCHANGED <<tracked, chan>>
    BY <1>6, <2>1, StillOwed DEF Send, Owes, Shape
  <2>2. CASE /\ call' = [call EXCEPT ![i] = "waiting"]
             /\ tracked' = [tracked EXCEPT ![Executor[i]] = @ \cup {i}]
             /\ chan' = [chan EXCEPT ![Executor[i]] = Append(@, i)]
    <3> DEFINE q == chan[Executor[i]]
    <3>1. q \in Seq(Inv) /\ Executor[i] \in Conn
      BY DEF Shape
    <3>2. /\ \A n \in DOMAIN q : n \in DOMAIN Append(q, i) /\ Append(q, i)[n] = q[n]
          /\ \E n \in DOMAIN Append(q, i) : Append(q, i)[n] = i
      <4>1. Len(q) + 1 \in DOMAIN Append(q, i) /\ Append(q, i)[Len(q) + 1] = i
        BY <3>1
      <4>2. QED
        BY <3>1, <4>1
    <3>3. UNCHANGED <<caller, held, refusing, dropping, open>>
      BY <1>6 DEF Send
    <3>4. chan' = [chan EXCEPT ![Executor[i]] = Append(q, i)]
      BY <2>2
    <3> HIDE DEF q
    <3>5. ASSUME NEW c \in Conn, NEW j \in Inv, Owes(c, j) PROVE Owes(c, j)'
      <4>1. CASE c = caller[j] /\ call[j] # "over"
        BY <2>2, <3>3, <4>1 DEF Owes, Shape
      <4>2. CASE c = Executor[j] /\ (j \in held[c] \/ j \in {refusing[c], dropping[c]} \/ c \notin open)
        BY <3>3, <4>2 DEF Owes
      <4>3. CASE c = Executor[j] /\ \E n \in DOMAIN chan[c] : chan[c][n] = j
        BY <3>1, <3>2, <3>4, <4>3 DEF Owes, Shape, q
      <4>4. QED
        BY <3>5, <4>1, <4>2, <4>3 DEF Owes
    <3>6. Owes(Executor[i], i)'
      BY <3>1, <3>2, <3>4 DEF Owes, Shape
    <3>7. \A c \in Conn : \A j \in tracked[c] : j \in Inv /\ Owes(c, j)
      BY DEF TrackedIsOwed, Owes, Shape
    <3>8. \A c \in Conn : \A j \in tracked'[c] : j \in tracked[c] \/ (c = Executor[i] /\ j = i)
      BY <2>2, <3>1 DEF Shape
    <3>9. \A c \in Conn : \A j \in tracked'[c] : Owes(c, j)'
      BY <3>5, <3>6, <3>7, <3>8
    <3>10. QED
      BY <3>9 DEF TrackedIsOwed, Owes
  <2>3. QED
    BY <1>6, <2>1, <2>2 DEF Send
<1>7. CASE Wake(i)
  BY <1>7, StillOwed DEF Wake, Owes, Shape
<1>8. CASE Answer(i)
  BY <1>8, StillOwed DEF Answer, Owes, Shape
<1>9. CASE Abandon(i)
  BY <1>9, StillOwed DEF Abandon, Owes, Shape
<1>10. QED
  BY <1>1, <1>2, <1>3, <1>4, <1>5, <1>6, <1>7, <1>8, <1>9 DEF Task

\* A message stays in its channel until the writer takes it out.
LEMMA TailOwes ==
  ASSUME Shape, NEW c \in Conn, chan[c] # <<>>, NEW j \in Inv, j # Head(chan[c]),
         \E n \in DOMAIN chan[c] : chan[c][n] = j
  PROVE  \E n \in DOMAIN Tail(chan[c]) : Tail(chan[c])[n] = j
<1>1. chan[c] \in Seq(Inv)
  BY DEF Shape
<1>2. PICK n \in DOMAIN chan[c] : chan[c][n] = j
  OBVIOUS
<1>3. n # 1 /\ n - 1 \in DOMAIN Tail(chan[c]) /\ Tail(chan[c])[n - 1] = j
  BY <1>1, <1>2
<1>4. QED
  BY <1>3

\* The executor's side: the message moves to the worker, to the writer, or out.
LEMMA ExecutorOwes ==
  ASSUME Shape, Refused, TrackedIsOwed, NEW c \in Conn,
         Deliver(c) \/ Oversized(c) \/ Unnote(c) \/ Refuse(c) \/ Drop(c) \/ Settle(c) \/ \E i \in Inv : Reply(c, i)
  PROVE  TrackedIsOwed'
<1> USE InvocationsAssumption DEF connVars
<1>1. CASE Deliver(c)
  <2>1. ASSUME NEW d \in Conn, NEW j \in Inv, Owes(d, j) PROVE Owes(d, j)'
    <3>1. CASE d = c /\ j # Head(chan[c])
      <4>1. /\ chan'[c] = Tail(chan[c]) /\ chan[c] # <<>> /\ (j \in held[c] => j \in held'[c])
            /\ UNCHANGED <<call, caller, refusing, dropping, open>>
        BY <1>1 DEF Deliver, Shape
      <4>2. (\E n \in DOMAIN chan[c] : chan[c][n] = j) => \E n \in DOMAIN chan'[c] : chan'[c][n] = j
        BY <3>1, <4>1, TailOwes
      <4>3. QED
        BY <2>1, <3>1, <4>1, <4>2 DEF Owes
    <3>2. CASE d = c /\ j = Head(chan[c])
      BY <1>1, <2>1, <3>2 DEF Deliver, Owes, Shape
    <3>3. CASE d # c
      BY <1>1, <2>1, <3>3 DEF Deliver, Owes, Shape
    <3>4. QED
      BY <3>1, <3>2, <3>3
  <2>2. QED
    BY <1>1, <2>1, StillOwed DEF Deliver, Shape
<1>2. CASE Oversized(c)
  <2>0. tracked' = tracked
    BY <1>2 DEF Oversized
  <2>1. ASSUME NEW d \in Conn, NEW j \in tracked'[d], Owes(d, j) PROVE Owes(d, j)'
    <3>0. j \in tracked[d] /\ j \in Inv
      BY <2>0 DEF Shape
    <3>1. CASE d = c /\ j # Head(chan[c])
      <4>1. /\ chan'[c] = Tail(chan[c]) /\ chan[c] # <<>> /\ Free(c)
            /\ UNCHANGED <<call, caller, held, open>>
        BY <1>2 DEF Oversized, Shape
      <4>2. (\E n \in DOMAIN chan[c] : chan[c][n] = j) => \E n \in DOMAIN chan'[c] : chan'[c][n] = j
        BY <3>0, <3>1, <4>1, TailOwes
      <4>3. QED
        BY <2>1, <3>0, <3>1, <4>1, <4>2 DEF Owes, Free
    <3>2. CASE d = c /\ j = Head(chan[c])
      BY <1>2, <2>1, <3>0, <3>2 DEF Oversized, Free, Owes, Shape
    <3>3. CASE d # c
      BY <1>2, <2>1, <3>0, <3>3 DEF Oversized, Free, Owes, Shape
    <3>4. QED
      BY <3>1, <3>2, <3>3
  <2>2. QED
    BY <2>0, <2>1, StillOwed
<1>3. CASE Settle(c)
  BY <1>3, StillOwed DEF Settle, Owes, Shape
<1>4. ASSUME NEW i \in Inv, Reply(c, i) PROVE TrackedIsOwed'
  BY <1>4, StillOwed DEF Reply, Owes, Shape
<1>5. CASE Unnote(c)
  <2>1. PICK d \in Conn : tracked' = [tracked EXCEPT ![d] = @ \ {refusing[c]}]
    BY <1>5 DEF Unnote, Notes
  <2>2. QED
    BY <1>5, <2>1, StillOwed DEF Unnote, Owes, Shape
<1>6. CASE Drop(c)
  BY <1>6, StillOwed DEF Drop, Owes, Shape
<1>7. CASE Refuse(c)
  <2>1. dropping[c] = Nothing /\ \A d \in Conn : refusing[d] = refusing[c] => d = c
    BY <1>7 DEF Refuse, Refused, Shape
  <2>2. QED
    BY <1>7, <2>1, StillOwed DEF Refuse, Owes, Shape
<1>8. QED
  BY <1>1, <1>2, <1>3, <1>4, <1>5, <1>6, <1>7

\* The end of a connection: a closed channel answers nothing any more.
LEMMA TeardownOwes ==
  ASSUME Shape, TrackedIsOwed, NEW c \in Conn,
         EndLoop(c) \/ CloseChannel(c) \/ Claim(c) \/ Drain(c) \/ Finish(c)
  PROVE  TrackedIsOwed'
<1> USE DEF connVars
<1>1. CASE EndLoop(c) \/ Claim(c) \/ Finish(c)
  BY <1>1, StillOwed DEF EndLoop, Claim, Finish, Owes, Shape
<1>2. CASE CloseChannel(c)
  BY <1>2, StillOwed DEF CloseChannel, Owes, Shape
<1>3. CASE Drain(c)
  BY <1>3, StillOwed DEF Drain, Owes, Shape
<1>4. QED
  BY <1>1, <1>2, <1>3

\* The ids a long-lived connection tracks do not pile up: each is of a call it
\* has made that is not over, or of one whose answer it owes.
THEOREM OnlyOwedIsTracked == Spec => []TrackedIsOwed
<1>1. Init => TrackedIsOwed
  BY DEF Init, TrackedIsOwed
<1>2. IInv /\ TrackedIsOwed /\ [Next]_vars => TrackedIsOwed'
  <2> SUFFICES ASSUME IInv, TrackedIsOwed, [Next]_vars PROVE TrackedIsOwed'
    OBVIOUS
  <2>1. Shape /\ Refused
    BY DEF IInv
  <2>2. ASSUME NEW i \in Inv, Ask(i) \/ Task(i) \/ Abandon(i) PROVE TrackedIsOwed'
    BY <2>1, <2>2, TaskOwes
  <2>3. ASSUME NEW c \in Conn,
               Deliver(c) \/ Oversized(c) \/ Unnote(c) \/ Refuse(c) \/ Drop(c) \/ Settle(c) \/ (\E i \in Inv : Reply(c, i))
        PROVE TrackedIsOwed'
    BY <2>1, <2>3, ExecutorOwes
  <2>4. ASSUME NEW c \in Conn, EndLoop(c) \/ CloseChannel(c) \/ Claim(c) \/ Drain(c) \/ Finish(c)
        PROVE TrackedIsOwed'
    BY <2>1, <2>4, TeardownOwes
  <2>5. CASE UNCHANGED vars
    BY <2>5 DEF vars, connVars, TrackedIsOwed
  <2>6. QED
    BY <2>2, <2>3, <2>4, <2>5 DEF Next
<1>3. QED
  BY <1>1, <1>2, Invariance, PTL DEF Spec
====
