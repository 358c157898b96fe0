----------------------- MODULE WorkerConnectionsProofs -----------------------
(***************************************************************************)
(* Theorems about WorkerConnections for every set of connections,          *)
(* functions and namespaces, whatever the workers send.                    *)
(***************************************************************************)
EXTENDS WorkerConnections, TLAPS

-----------------------------------------------------------------------------
(* The inductive invariant. *)

NsStates  == {"Unknown", "Pending", "Draining", "Resolved", "Aborted"}
Timers    == {"off", "armed", "draining", "aborting"}
Announces == {"no", "sent", "resolve", "draining", "cancel", "over"}
Readers   == {"new", "open", "evicting", "retiring", "closed"}
Asked     == {"register", "registerInvalid", "unregister"}
Registers == {"register", "registerInvalid"}
Claimed   == {"write", "note"}
Claiming  == {"claim"} \cup Claimed
Leaving   == {"release", "drop"}
Teardown  == {"snapshot", "snapshotExternal", "release", "external", "unregister", "forget"}
Cleanups  == {"no", "abort", "done"} \cup Teardown
Holder    == Conn \cup {NoOne}

IsRequest(m) == m.op \in Asked /\ m.f \in Fn
IsJob(j) ==
  /\ j.f \in Fn /\ j.op \in Asked \cup {"external", "regular"}
  /\ j.at \in {"begin"} \cup Claiming \cup Leaving
  /\ j.at = "begin" => j.op \in Asked
  /\ j.at \in Claiming => j.op \in Registers
  /\ j.at # "begin" => j.ns \in Namespace

LoopTyped ==
  /\ registered \subseteq Conn /\ timer \in [Conn -> Timers] /\ reader \in [Conn -> Readers]
  /\ previous \in [Conn -> Holder] /\ evict \in [Conn -> BOOLEAN] /\ raced \in [Conn -> BOOLEAN]
FrameTyped == DOMAIN frame = Conn /\ \A c \in Conn : frame[c] = Idle \/ frame[c] \in Request
LogTyped == arrived \in [Conn -> Seq(Message)]
TableTyped ==
  owners \in [Keys -> Holder] /\ functions \in [Keys -> Holder] /\ ids \in [Conn -> SUBSET Fn]
NsTyped == nsState \in [Conn -> [at : NsStates, ns : Namespace, queue : Seq(Request)]]
AnnounceTyped == announce \in [Conn -> [at : Announces, ns : Namespace, name : WorkerName \cup {NoOne}]]
CleanupTyped == cleanup \in [Conn -> [at : Cleanups, todo : SUBSET Fn, lease : Keys \cup {NoOne}]]
JobTyped == DOMAIN job = Conn \X Dispatchers /\ \A t \in Conn \X Dispatchers : job[t] = Idle \/ IsJob(job[t])
Typed == LoopTyped /\ FrameTyped /\ LogTyped /\ TableTyped /\ NsTyped /\ AnnounceTyped /\ CleanupTyped /\ JobTyped

(* A connection goes through its life once: what its teardown has done, what *)
(* the registry lists and what state its namespace is in go together.       *)
Idles(c) == ids[c] = {} /\ \A k \in Keys : functions[k] # c
Unused(c) ==
  /\ timer[c] = "off" /\ announce[c].at = "no" /\ frame[c] = Idle /\ cleanup[c].at = "no"
  /\ ~raced[c] /\ arrived[c] = <<>>
Life(c) ==
  /\ reader[c] = "new" => Unused(c)
  /\ c \in registered <=> reader[c] # "new" /\ cleanup[c].at \notin {"forget", "done"}
  /\ nsState[c].at = "Unknown" <=> reader[c] = "new" \/ cleanup[c].at = "done"
  /\ nsState[c].at = "Aborted" <=> cleanup[c].at \in Teardown
  /\ nsState[c].at \notin {"Pending", "Draining"} => nsState[c].queue = <<>>
Fresh(c) == reader[c] = "new" \/ nsState[c].at = "Pending" => Idles(c)

(* Who is torn down has been told to stop reading, or has stopped. *)
Stopping(c) == evict[c] \/ reader[c] = "closed"
Retiring(c) ==
  /\ cleanup[c].at # "no" => Stopping(c)
  /\ reader[c] = "evicting" =>
       previous[c] \in Conn /\ reader[previous[c]] # "new" /\ Stopping(previous[c])

(* Its registrations are dispatched one at a time, by the one task that      *)
(* drains or, once they are drained, by the read loop; after a teardown that *)
(* met none in flight there are none.                                       *)
Draining == {"draining", "aborting"}
OneDispatcher(c) ==
  /\ timer[c] \in Draining => nsState[c].at \notin {"Pending", "Resolved"} /\ announce[c].at # "draining"
  /\ announce[c].at = "draining" => nsState[c].at \notin {"Pending", "Resolved"}
  /\ job[<<c, "timer">>] # Idle => timer[c] \in Draining
  /\ job[<<c, "announce">>] # Idle => announce[c].at = "draining"
  /\ job[<<c, "reader">>] # Idle =>
       reader[c] # "new" /\ frame[c] = Idle /\ nsState[c].at \notin {"Pending", "Draining"}
  /\ ~raced[c] /\ cleanup[c].at \notin {"no", "abort"} => ~InFlight(c)

(* Whose URL is refused has sent the registration. *)
Sent(c, f) == \E i \in About(c, f) : arrived[c][i].op = "registerInvalid"
Refusals(c) ==
  /\ frame[c] # Idle /\ frame[c].op = "registerInvalid" => Sent(c, frame[c].f)
  /\ \A i \in 1 .. Len(nsState[c].queue) :
       nsState[c].queue[i].op = "registerInvalid" => Sent(c, nsState[c].queue[i].f)
  /\ \A d \in Dispatchers :
       job[<<c, d>>] # Idle /\ job[<<c, d>>].op = "registerInvalid" => Sent(c, job[<<c, d>>].f)

(* What a live connection has, counts as its own, and is giving back. *)
Counted(c) == \A f \in ids[c] : ~Refused(c, f) =>
  owners[<<nsState[c].ns, f>>] = c /\ functions[<<nsState[c].ns, f>>] # NoOne
Serving(c) == \A k \in Keys :
  functions[k] = c /\ ~Refused(c, k[2]) => owners[k] = c /\ k[1] = nsState[c].ns
InHand(c, d) ==
  LET j == job[<<c, d>>]
      k == KeyOf(c, d) IN
  /\ j.at # "begin" => j.ns = nsState[c].ns
  /\ j.at \in Claimed => owners[k] = c
  /\ j.at = "note" => functions[k] # NoOne
  /\ j.at \in Leaving => j.f \notin ids[c]
  /\ j.at = "drop" => functions[k] # c
Working(c) == \A d \in Dispatchers : job[<<c, d>>] # Idle => InHand(c, d)
Holding(c) == Counted(c) /\ Serving(c) /\ Working(c)

(* Where a lease comes from. *)
Accounted(c, k) ==
  \/ \E d \in Dispatchers : job[<<c, d>>] # Idle /\ job[<<c, d>>].at \notin {"begin", "claim"} /\ KeyOf(c, d) = k
  \/ /\ k[1] = nsState[c].ns
     /\ \/ k[2] \in ids[c] /\ cleanup[c].at \in {"no", "abort", "snapshot"}
        \/ k[2] \in cleanup[c].todo \cup (ids[c] \cap External) /\ cleanup[c].at = "snapshotExternal"
        \/ k[2] \in cleanup[c].todo /\ cleanup[c].at \in {"release", "external"}
  \/ cleanup[c].at = "external" /\ cleanup[c].lease = k
Leases == \A c \in Conn, k \in Keys : ~raced[c] /\ owners[k] = c => Accounted(c, k)

(* A handler goes with its lease. *)
NoRefusal(k) == \A d \in Conn : ~Refused(d, k[2])
Handlers ==
  (\A d \in Conn : ~raced[d]) =>
    /\ \A k \in Keys : functions[k] # NoOne /\ NoRefusal(k) => owners[k] # NoOne
    /\ \A e \in Conn, d \in Dispatchers : job[<<e, d>>] # Idle /\ job[<<e, d>>].at = "drop" /\
          owners[KeyOf(e, d)] = e => functions[KeyOf(e, d)] = NoOne
    /\ \A e \in Conn, k \in Keys : cleanup[e].at = "external" /\ cleanup[e].lease = k /\ owners[k] = e =>
          functions[k] = NoOne

(* The last word about a function is on its way, or has been heard. *)
Gone(c, f) ==
  \E i \in About(c, f) : (\A j \in About(c, f) : j <= i) /\ arrived[c][i].op = "unregister"
FrameAbout(c, f) == frame[c] # Idle /\ frame[c].f = f
QueueAbout(q, f) == \E i \in 1 .. Len(q) : q[i].f = f
QueuedLast(q, f) == \E i \in 1 .. Len(q) :
  q[i].f = f /\ q[i].op = "unregister" /\ \A j \in 1 .. Len(q) : j > i => q[j].f # f
JobAbout(c, f) == \E d \in Dispatchers : job[<<c, d>>] # Idle /\ job[<<c, d>>].f = f
JobUndoes(c, f) ==
  \A d \in Dispatchers : job[<<c, d>>] # Idle /\ job[<<c, d>>].f = f =>
    job[<<c, d>>].at \in Leaving \/ job[<<c, d>>].op = "unregister"
Flowing(c) ==
  Live(c) /\ (nsState[c].at = "Draining" => timer[c] \in Draining \/ announce[c].at = "draining")
Silent(c, f) == f \notin ids[c] /\ \A ns \in Namespace : functions[<<ns, f>>] # c
Heard(c, f) ==
  IF FrameAbout(c, f) THEN frame[c].op = "unregister"
  ELSE IF QueueAbout(nsState[c].queue, f) THEN QueuedLast(nsState[c].queue, f)
  ELSE IF JobAbout(c, f) THEN JobUndoes(c, f)
  ELSE Silent(c, f)
LastWord(c) == Flowing(c) => \A f \in Fn : Gone(c, f) /\ ~Refused(c, f) => Heard(c, f)

Pipeline == \A c \in Conn : Life(c) /\ Retiring(c) /\ OneDispatcher(c)
Refusal == \A c \in Conn : Refusals(c)
Untouched == \A c \in Conn : Fresh(c)
Owned == \A c \in Conn : Live(c) => Holding(c)
Words == \A c \in Conn : LastWord(c)
IInv == Typed /\ Pipeline /\ Refusal /\ Untouched /\ Owned /\ Leases /\ Handlers /\ Words
-----------------------------------------------------------------------------
(* Which actions write what. *)

Steps(x) == ReadLoop(x) \/ Resolution(x) \/ Cleanup(x) \/ \E d \in Dispatchers : Dispatch(x, d)

Hears(x) ==
  \/ \E m \in Request : Receive(x, m)
  \/ \E m \in Message \ Request : (m.op = "announce" /\ Announce(x, m)) \/ (m.op = "reattach" /\ Reattach(x, m))
Loops(x) == Connect(x) \/ Route(x) \/ EndLoop(x) \/ RetireTimeout(x) \/ Retired(x)
Settles(x) == GraceExpires(x) \/ ClaimName(x) \/ Resolve(x) \/ CancelTimer(x) \/ TimerDropped(x)
Takes(x) == \E d \in {"timer", "announce"} : DrainNext(x, d) \/ DrainEnds(x, d)
Works(x) == \E d \in Dispatchers : Dispatch(x, d)

\* The steps of a connection, by the task that takes them.
LEMMA Split ==
  ASSUME NEW x \in Conn, Steps(x)
  PROVE  Hears(x) \/ Loops(x) \/ Settles(x) \/ Takes(x) \/ Works(x) \/ Cleanup(x)
  BY Zenon DEF Steps, Hears, Loops, Settles, Takes, Works, ReadLoop, Resolution

\* Which steps change the registrations being dispatched.
LEMMA JobWriters ==
  ASSUME NEW x \in Conn, Steps(x)
  PROVE  \/ UNCHANGED job
         \/ Route(x) \/ TimerDropped(x) \/ Works(x)
         \/ \E d \in {"timer", "announce"} : DrainNext(x, d)
<1>1. CASE Hears(x)
  BY <1>1 DEF Hears, Receive, Announce, Reattach
<1>2. CASE Loops(x)
  BY <1>2 DEF Loops, Connect, EndLoop, RetireTimeout, Retired
<1>3. CASE Settles(x)
  BY <1>3 DEF Settles, GraceExpires, ClaimName, Resolve, CancelTimer
<1>4. CASE Takes(x)
  BY <1>4 DEF Takes, DrainEnds
<1>5. CASE Cleanup(x)
  BY <1>5 DEF Cleanup, AbortResolution, Snapshot, SnapshotExternal, CleanupRelease, CleanupDropLease, CleanupName,
              CleanupUnregister, CleanupForget
<1> QED BY <1>1, <1>2, <1>3, <1>4, <1>5, Split

\* Which steps change the state of a namespace.
LEMMA NsWriters ==
  ASSUME NEW x \in Conn, Steps(x)
  PROVE  \/ UNCHANGED nsState
         \/ Connect(x) \/ Route(x) \/ GraceExpires(x) \/ Resolve(x) \/ Takes(x)
         \/ AbortResolution(x) \/ CleanupForget(x)
<1>1. CASE Hears(x)
  BY <1>1 DEF Hears, Receive, Announce, Reattach, connVars
<1>2. CASE Loops(x)
  BY <1>2 DEF Loops, EndLoop, RetireTimeout, Retired, connVars
<1>3. CASE Settles(x)
  BY <1>3 DEF Settles, ClaimName, CancelTimer, TimerDropped
<1>4. CASE Works(x)
  BY <1>4 DEF Works, Dispatch, BeginRegister, ClaimFunction, WriteFunction, NoteFunction, BeginUnregister, ReleaseFunction,
              DropLease, connVars
<1>5. CASE Cleanup(x)
  BY <1>5 DEF Cleanup, Snapshot, SnapshotExternal, CleanupRelease, CleanupDropLease, CleanupName, CleanupUnregister, connVars
<1> QED BY <1>1, <1>2, <1>3, <1>4, <1>5, Split

\* Which steps change the owner map, the registry or a connection's ids.
LEMMA TableWriters ==
  ASSUME NEW x \in Conn, Steps(x)
  PROVE  \/ UNCHANGED <<owners, functions, ids>>
         \/ Works(x) \/ (\E f \in Fn : CleanupRelease(x, f)) \/ CleanupDropLease(x)
<1>1. CASE Hears(x)
  BY <1>1 DEF Hears, Receive, Announce, Reattach, fnVars
<1>2. CASE Loops(x)
  BY <1>2 DEF Loops, Connect, Route, EndLoop, RetireTimeout, Retired, fnVars
<1>3. CASE Settles(x)
  BY <1>3 DEF Settles, GraceExpires, ClaimName, Resolve, CancelTimer, TimerDropped, fnVars
<1>4. CASE Takes(x)
  BY <1>4 DEF Takes, DrainNext, DrainEnds, fnVars
<1>5. CASE Cleanup(x)
  BY <1>5 DEF Cleanup, AbortResolution, Snapshot, SnapshotExternal, CleanupName, CleanupUnregister, CleanupForget, fnVars
<1> QED BY <1>1, <1>2, <1>3, <1>4, <1>5, Split

\* Only reading a message adds to what has arrived.
LEMMA LogWriters ==
  ASSUME NEW x \in Conn, Steps(x)
  PROVE  UNCHANGED arrived \/ Hears(x)
<1>1. CASE Loops(x)
  BY <1>1 DEF Loops, Connect, Route, EndLoop, RetireTimeout, Retired
<1>2. CASE Settles(x)
  BY <1>2 DEF Settles, GraceExpires, ClaimName, Resolve, CancelTimer, TimerDropped
<1>3. CASE Takes(x)
  BY <1>3 DEF Takes, DrainNext, DrainEnds
<1>4. CASE Works(x)
  BY <1>4 DEF Works, Dispatch, BeginRegister, ClaimFunction, WriteFunction, NoteFunction, BeginUnregister, ReleaseFunction, DropLease
<1>5. CASE Cleanup(x)
  BY <1>5 DEF Cleanup, AbortResolution, Snapshot, SnapshotExternal, CleanupRelease, CleanupDropLease, CleanupName,
              CleanupUnregister, CleanupForget
<1> QED BY <1>1, <1>2, <1>3, <1>4, <1>5, Split

\* Which steps change the timers and announcements, the read loops, the
\* teardowns and the record of the ones that met a registration in flight.
LEMMA TaskWriters ==
  ASSUME NEW x \in Conn, Steps(x)
  PROVE  /\ UNCHANGED <<timer, announce>> \/ Connect(x) \/ Settles(x) \/ CleanupForget(x)
            \/ (\E m \in Message \ Request : m.op = "announce" /\ Announce(x, m))
            \/ (\E d \in {"timer", "announce"} : DrainEnds(x, d))
         /\ UNCHANGED <<registered, reader, previous, evict, frame>> \/ Loops(x) \/ Hears(x) \/ CleanupUnregister(x)
         /\ UNCHANGED cleanup \/ EndLoop(x) \/ RetireTimeout(x) \/ Cleanup(x)
         /\ UNCHANGED raced \/ TimerDropped(x) \/ AbortResolution(x)
<1>1. CASE Hears(x)
  BY <1>1 DEF Hears, Receive, Announce, Reattach, connVars
<1>2. CASE Loops(x)
  BY <1>2 DEF Loops, Connect, Route, EndLoop, RetireTimeout, Retired, connVars
<1>3. CASE Settles(x)
  BY <1>3 DEF Settles, GraceExpires, ClaimName, Resolve, CancelTimer, TimerDropped, loopVars
<1>4. CASE Takes(x)
  BY <1>4 DEF Takes, DrainNext, DrainEnds, loopVars
<1>5. CASE Works(x)
  BY <1>5 DEF Works, Dispatch, BeginRegister, ClaimFunction, WriteFunction, NoteFunction, BeginUnregister, ReleaseFunction,
              DropLease, connVars, loopVars
<1>6. CASE Cleanup(x)
  BY <1>6 DEF Cleanup, AbortResolution, Snapshot, SnapshotExternal, CleanupRelease, CleanupDropLease, CleanupName,
              CleanupUnregister, CleanupForget, connVars, loopVars
<1> QED BY <1>1, <1>2, <1>3, <1>4, <1>5, <1>6, Split

-----------------------------------------------------------------------------
(* The types. *)

\* A step that sets one job leaves the others as they are.
LEMMA JobPut ==
  ASSUME JobTyped, NEW x \in Conn, NEW d \in Dispatchers, NEW v, v = Idle \/ IsJob(v),
         job' = [job EXCEPT ![<<x, d>>] = v]
  PROVE  /\ job'[<<x, d>>] = v
         /\ \A t \in Conn \X Dispatchers : t # <<x, d>> => job'[t] = job[t]
         /\ JobTyped'
  BY DEF JobTyped

\* Messages that are not announcements or reattachments ask for a function.
LEMMA Asking == \A m \in Request : m.f \in Fn /\ m.op \in Asked
  BY DEF Request, Asked

\* A message is never mistaken for no message.
LEMMA IdleIsNoJob == \A m \in Request : m # Idle
  BY DEF Request, Idle

\* A request that is dispatched is a job at its beginning.
LEMMA BeginIsJob == \A m \in Request : IsJob([op |-> m.op, f |-> m.f, at |-> "begin"])
  BY Asking DEF IsJob, Claiming, Claimed, Leaving

\* A job that moves on is a job.
LEMMA GotoIsJob ==
  ASSUME NEW j, IsJob(j), NEW at \in Claiming \cup Leaving, NEW ns \in Namespace,
         at \in Claiming => j.op \in Registers
  PROVE  IsJob([op |-> j.op, f |-> j.f, at |-> at, ns |-> ns])
  BY DEF IsJob, Claiming, Claimed, Leaving

\* A connection always has a namespace, the default one if no other.
LEMMA NamespaceTyped ==
  ASSUME Typed, NEW x \in Conn
  PROVE  ConnectionNamespace(x) \in Namespace
  BY WorkerConnectionsAssumption DEF Typed, NsTyped, ConnectionNamespace

\* Taking the first element of a queue.
LEMMA HeadTail ==
  ASSUME NEW S, NEW q \in Seq(S), q # <<>>
  PROVE  Head(q) \in S /\ Tail(q) \in Seq(S) /\ Len(q) > 0 /\ Head(q) = q[1] /\ Len(Tail(q)) = Len(q) - 1
         /\ \A i \in 1 .. Len(Tail(q)) : Tail(q)[i] = q[i + 1]
  OBVIOUS

\* The steps of the dispatch, as they change the job at hand.
LEMMA JobMoves ==
  ASSUME Typed, NEW x \in Conn, NEW d \in Dispatchers, Dispatch(x, d)
  PROVE  /\ job[<<x, d>>] # Idle /\ IsJob(job[<<x, d>>])
         /\ \E v : (v = Idle \/ IsJob(v)) /\ job' = [job EXCEPT ![<<x, d>>] = v]
<1>0. job[<<x, d>>] # Idle /\ IsJob(job[<<x, d>>])
  <2>1. job[<<x, d>>] # Idle
    BY DEF Dispatch, BeginRegister, ClaimFunction, WriteFunction, NoteFunction, BeginUnregister, ReleaseFunction, DropLease, Doing
  <2> QED BY <2>1 DEF Typed, JobTyped
<1> DEFINE j == job[<<x, d>>]
<1>t. <<x, d>> \in DOMAIN job
  BY DEF Typed, JobTyped
<1>f. CASE Finish(x, d)
  BY <1>0, <1>f DEF Finish
<1>g. ASSUME NEW at \in Claiming \cup Leaving, NEW ns \in Namespace, at \in Claiming => j.op \in Registers,
             Goto(x, d, at, ns)
      PROVE  \E v : (v = Idle \/ IsJob(v)) /\ job' = [job EXCEPT ![<<x, d>>] = v]
  <2>1. IsJob([op |-> j.op, f |-> j.f, at |-> at, ns |-> ns])
    BY <1>0, <1>g, GotoIsJob
  <2>2. job' = [job EXCEPT ![<<x, d>>] = [op |-> j.op, f |-> j.f, at |-> at, ns |-> ns]]
    BY <1>g, <1>t DEF Goto
  <2> QED BY <2>1, <2>2
<1>0a. CASE BeginRegister(x, d)
  <2>1. ConnectionNamespace(x) \in Namespace
    BY NamespaceTyped
  <2>2. j.op \in Registers /\ Goto(x, d, "claim", ConnectionNamespace(x))
    BY <1>0a DEF BeginRegister, Registers
  <2> QED BY <2>1, <2>2, <1>g, <1>0 DEF Claiming
<1>1. CASE ClaimFunction(x, d)
  <2>1. j.ns \in Namespace /\ j.op \in Registers
    BY <1>0, <1>1 DEF ClaimFunction, Doing, IsJob, Claiming, Claimed
  <2>2. Goto(x, d, "write", j.ns) \/ Finish(x, d)
    BY <1>1 DEF ClaimFunction, KeyOf
  <2> QED BY <2>1, <2>2, <1>f, <1>g, <1>0 DEF Claiming, Claimed
<1>2. CASE WriteFunction(x, d)
  <2>1. j.ns \in Namespace /\ j.op \in Registers
    BY <1>0, <1>2 DEF WriteFunction, Doing, IsJob, Claiming, Claimed
  <2>2. Goto(x, d, "note", j.ns) \/ Finish(x, d)
    BY <1>2 DEF WriteFunction, KeyOf
  <2> QED BY <2>1, <2>2, <1>f, <1>g, <1>0 DEF Claiming, Claimed
<1>3. CASE NoteFunction(x, d)
  BY <1>3, <1>f, <1>0 DEF NoteFunction
<1>4. CASE BeginUnregister(x, d)
  <2> DEFINE v == [op |-> IF j.f \in External /\ j.f \in ids[x] THEN "external" ELSE "regular",
                   f |-> j.f, at |-> "release", ns |-> ConnectionNamespace(x)]
  <2>1. job' = [job EXCEPT ![<<x, d>>] = v]
    BY <1>4, <1>t DEF BeginUnregister
  <2>2. IsJob(v)
    BY <1>0, NamespaceTyped DEF IsJob, Claiming, Claimed, Leaving
  <2> QED BY <2>1, <2>2, <1>0
<1>5. CASE ReleaseFunction(x, d)
  <2>1. j.ns \in Namespace
    BY <1>0, <1>5 DEF ReleaseFunction, Doing, IsJob
  <2>2. Goto(x, d, "drop", j.ns) \/ Finish(x, d)
    BY <1>5 DEF ReleaseFunction, KeyOf
  <2> QED BY <2>1, <2>2, <1>f, <1>g, <1>0 DEF Claiming, Claimed, Leaving
<1>6. CASE DropLease(x, d)
  BY <1>6, <1>f, <1>0 DEF DropLease
<1> QED BY <1>0a, <1>1, <1>2, <1>3, <1>4, <1>5, <1>6 DEF Dispatch

\* A step of x works on no job of another connection.
OthersJobs(x) == \A c \in Conn, d \in Dispatchers : c # x => job'[<<c, d>>] = job[<<c, d>>]

\* The jobs stay typed, and x works on no job of another connection.
LEMMA JobTypedStep ==
  ASSUME Typed, NEW x \in Conn, Steps(x)
  PROVE  JobTyped' /\ OthersJobs(x)
<1>0. JobTyped
  BY DEF Typed
<1>1. CASE UNCHANGED job
  BY <1>0, <1>1 DEF JobTyped, OthersJobs
<1>a. ASSUME NEW d \in Dispatchers, NEW v, v = Idle \/ IsJob(v), job' = [job EXCEPT ![<<x, d>>] = v]
      PROVE  JobTyped' /\ OthersJobs(x)
  BY <1>0, <1>a, JobPut DEF OthersJobs
<1>2. CASE Route(x)
  <2>1. frame[x] \in Request
    BY <1>2 DEF Route, Typed, FrameTyped
  <2>2. UNCHANGED job \/ job' = [job EXCEPT ![<<x, "reader">>] = [op |-> frame[x].op, f |-> frame[x].f, at |-> "begin"]]
    BY <1>2 DEF Route
  <2> QED BY <1>a, <1>1, <2>1, <2>2, BeginIsJob DEF Dispatchers
<1>3. CASE TimerDropped(x)
  BY <1>a, <1>3 DEF TimerDropped, Dispatchers
<1>4. CASE Works(x)
  BY <1>a, <1>4, JobMoves DEF Works
<1>5. ASSUME NEW d \in {"timer", "announce"}, DrainNext(x, d)
      PROVE  JobTyped' /\ OthersJobs(x)
  <2>1. nsState[x].queue \in Seq(Request) /\ nsState[x].queue # <<>>
    BY <1>5 DEF DrainNext, Typed, NsTyped
  <2>2. Head(nsState[x].queue) \in Request
    BY <2>1, HeadTail
  <2>3. job' = [job EXCEPT ![<<x, d>>] = [op |-> Head(nsState[x].queue).op, f |-> Head(nsState[x].queue).f, at |-> "begin"]]
    BY <1>5 DEF DrainNext
  <2> QED BY <1>a, <2>2, <2>3, BeginIsJob DEF Dispatchers
<1> QED BY <1>1, <1>2, <1>3, <1>4, <1>5, JobWriters

\* What a step of x may do to the owner map and the registry.
Moves(x) == \A k \in Keys :
  /\ \/ owners'[k] = owners[k]
     \/ owners'[k] = NoOne /\ owners[k] = x
     \/ owners'[k] = x /\ MayClaim(x, owners[k])
  /\ \/ functions'[k] = functions[k]
     \/ functions'[k] = x
     \/ functions'[k] = NoOne /\ owners[k] = x
OthersIds(x) == \A c \in Conn : c # x => ids'[c] = ids[c]

\* The tables stay typed. A lease is given up by its holder or claimed where
\* claim_in allows it; a handler is written by x or removed by the owner of
\* its lease.
LEMMA TableStep ==
  ASSUME Typed, NEW x \in Conn, Steps(x)
  PROVE  TableTyped' /\ Moves(x) /\ OthersIds(x)
<1>0. TableTyped
  BY DEF Typed
<1>1. CASE UNCHANGED <<owners, functions, ids>>
  BY <1>0, <1>1 DEF TableTyped, Moves, OthersIds
<1>2. ASSUME NEW d \in Dispatchers, Dispatch(x, d)
      PROVE  TableTyped' /\ Moves(x) /\ OthersIds(x)
  <2>0. IsJob(job[<<x, d>>])
    BY <1>2, JobMoves
  <2>0a. CASE BeginRegister(x, d)
    BY <1>1, <2>0a DEF BeginRegister, fnVars
  <2>1. CASE ClaimFunction(x, d)
    <3>1. UNCHANGED <<owners, functions, ids>> \/ \E k : MayClaim(x, owners[k]) /\ owners' = [owners EXCEPT ![k] = x] /\ UNCHANGED <<functions, ids>>
      BY <2>1 DEF ClaimFunction
    <3> QED BY <1>0, <1>1, <3>1 DEF TableTyped, Moves, OthersIds, Holder
  <2>2. CASE WriteFunction(x, d)
    <3>1. PICK k : k = KeyOf(x, d)
      OBVIOUS
    <3>2. CASE functions' = [functions EXCEPT ![k] = x] /\ UNCHANGED <<owners, ids>>
      BY <1>0, <3>2 DEF TableTyped, Moves, OthersIds, Holder
    <3>3. CASE owners' = [owners EXCEPT ![k] = IF @ = x THEN NoOne ELSE @] /\ UNCHANGED <<functions, ids>>
      BY <1>0, <3>3 DEF TableTyped, Moves, OthersIds, Holder
    <3> QED BY <2>2, <3>1, <3>2, <3>3 DEF WriteFunction
  <2>3. CASE NoteFunction(x, d)
    BY <1>0, <2>0, <2>3 DEF NoteFunction, IsJob, TableTyped, Moves, OthersIds
  <2>4. CASE BeginUnregister(x, d)
    BY <1>0, <2>4 DEF BeginUnregister, TableTyped, Moves, OthersIds
  <2>5. CASE ReleaseFunction(x, d)
    <3>1. PICK k : k = KeyOf(x, d)
      OBVIOUS
    <3>2. CASE owners[k] = x /\ functions' = [functions EXCEPT ![k] = NoOne] /\ UNCHANGED ids
               /\ (UNCHANGED owners \/ owners' = [owners EXCEPT ![k] = NoOne])
      BY <1>0, <3>2 DEF TableTyped, Moves, OthersIds, Holder
    <3> QED BY <2>5, <3>1, <3>2, <1>1 DEF ReleaseFunction
  <2>6. CASE DropLease(x, d)
    <3>1. PICK k : k = KeyOf(x, d)
      OBVIOUS
    <3>2. owners' = [owners EXCEPT ![k] = IF @ = x THEN NoOne ELSE @] /\ UNCHANGED <<functions, ids>>
      BY <2>6, <3>1 DEF DropLease
    <3> QED BY <1>0, <3>2 DEF TableTyped, Moves, OthersIds, Holder
  <2> QED BY <1>2, <2>0a, <2>1, <2>2, <2>3, <2>4, <2>5, <2>6 DEF Dispatch
<1>3. ASSUME NEW f \in Fn, CleanupRelease(x, f)
      PROVE  TableTyped' /\ Moves(x) /\ OthersIds(x)
  <2>1. PICK k : k = <<ConnectionNamespace(x), f>>
    OBVIOUS
  <2>2. /\ functions' = [functions EXCEPT ![k] = IF owners[k] = x THEN NoOne ELSE @]
        /\ UNCHANGED owners \/ owners' = [owners EXCEPT ![k] = IF @ = x THEN NoOne ELSE @]
        /\ UNCHANGED ids
    BY <1>3, <2>1 DEF CleanupRelease
  <2> QED BY <1>0, <2>2 DEF TableTyped, Moves, OthersIds, Holder
<1>4. CASE CleanupDropLease(x)
  <2>1. PICK k : k = cleanup[x].lease
    OBVIOUS
  <2>2. owners' = [owners EXCEPT ![k] = IF @ = x THEN NoOne ELSE @] /\ UNCHANGED <<functions, ids>>
    BY <1>4, <2>1 DEF CleanupDropLease
  <2> QED BY <1>0, <2>2 DEF TableTyped, Moves, OthersIds, Holder
<1> QED BY <1>1, <1>2, <1>3, <1>4, TableWriters DEF Works

\* The namespace states stay typed, those of others unchanged.
LEMMA NsTypedStep ==
  ASSUME Typed, NEW x \in Conn, Steps(x)
  PROVE  NsTyped' /\ \A c \in Conn : c # x => nsState'[c] = nsState[c]
<1>0. NsTyped
  BY DEF Typed
<1>1. CASE UNCHANGED nsState
  BY <1>0, <1>1 DEF NsTyped
<1>a. ASSUME NEW v, v \in [at : NsStates, ns : Namespace, queue : Seq(Request)],
             nsState' = [nsState EXCEPT ![x] = v]
      PROVE  NsTyped' /\ \A c \in Conn : c # x => nsState'[c] = nsState[c]
  BY <1>0, <1>a DEF NsTyped
<1>2. CASE Connect(x)
  <2>1. nsState' = [nsState EXCEPT ![x] = [at |-> "Pending", ns |-> Default, queue |-> <<>>]]
    BY <1>2 DEF Connect
  <2>2. PICK v : v = [at |-> "Pending", ns |-> Default, queue |-> <<>>]
    OBVIOUS
  <2>3. v \in [at : NsStates, ns : Namespace, queue : Seq(Request)]
    BY <2>2, WorkerConnectionsAssumption DEF NsStates
  <2> QED BY <2>1, <2>2, <2>3, <1>a
<1>3. CASE Route(x)
  <2>1. frame[x] \in Request
    BY <1>3 DEF Route, Typed, FrameTyped
  <2>2. UNCHANGED nsState \/ nsState' = [nsState EXCEPT ![x].queue = Append(@, frame[x])]
    BY <1>3 DEF Route
  <2>3. Append(nsState[x].queue, frame[x]) \in Seq(Request)
    BY <1>0, <2>1 DEF NsTyped
  <2>4. CASE nsState' = [nsState EXCEPT ![x].queue = Append(@, frame[x])]
    BY <1>0, <2>3, <2>4 DEF NsTyped
  <2> QED BY <1>1, <2>2, <2>4
<1>4. CASE GraceExpires(x)
  <2>1. UNCHANGED nsState \/ nsState' = [nsState EXCEPT ![x] = [at |-> "Draining", ns |-> Default, queue |-> nsState[x].queue]]
    BY <1>4 DEF GraceExpires, ToDraining
  <2>2. nsState[x].queue \in Seq(Request)
    BY <1>0 DEF NsTyped
  <2>3. PICK v : v = [at |-> "Draining", ns |-> Default, queue |-> nsState[x].queue]
    OBVIOUS
  <2>4. v \in [at : NsStates, ns : Namespace, queue : Seq(Request)]
    BY <2>2, <2>3, WorkerConnectionsAssumption DEF NsStates
  <2> QED BY <1>1, <2>1, <2>3, <2>4, <1>a
<1>5. CASE Resolve(x)
  <2>1. \/ UNCHANGED nsState \/ nsState' = [nsState EXCEPT ![x] = @]
        \/ nsState' = [nsState EXCEPT ![x] = [at |-> "Draining", ns |-> announce[x].ns, queue |-> nsState[x].queue]]
    BY <1>5 DEF Resolve, ToDraining
  <2>2. nsState[x].queue \in Seq(Request) /\ announce[x].ns \in Namespace
    BY <1>0 DEF NsTyped, Typed, AnnounceTyped
  <2>3. nsState' = [nsState EXCEPT ![x] = @] => NsTyped' /\ \A c \in Conn : c # x => nsState'[c] = nsState[c]
    BY <1>0 DEF NsTyped
  <2> QED BY <1>1, <2>1, <2>2, <2>3, <1>a DEF NsStates
<1>6. ASSUME NEW d \in {"timer", "announce"}, DrainNext(x, d)
      PROVE  NsTyped' /\ \A c \in Conn : c # x => nsState'[c] = nsState[c]
  <2>1. nsState' = [nsState EXCEPT ![x].queue = Tail(@)] /\ nsState[x].queue # <<>>
    BY <1>6 DEF DrainNext
  <2>2. Tail(nsState[x].queue) \in Seq(Request)
    BY <1>0, <2>1, HeadTail DEF NsTyped
  <2> QED BY <1>0, <2>1, <2>2 DEF NsTyped
<1>7. ASSUME NEW d \in {"timer", "announce"}, DrainEnds(x, d)
      PROVE  NsTyped' /\ \A c \in Conn : c # x => nsState'[c] = nsState[c]
  <2>1. nsState' = [nsState EXCEPT ![x].at = IF @ = "Draining" THEN "Resolved" ELSE @]
    BY <1>7 DEF DrainEnds
  <2> QED BY <1>0, <2>1 DEF NsTyped, NsStates
<1>8. CASE AbortResolution(x)
  <2>1. nsState' = [nsState EXCEPT ![x] = [at |-> "Aborted", ns |-> ConnectionNamespace(x), queue |-> <<>>]]
    BY <1>8 DEF AbortResolution
  <2>2. PICK v : v = [at |-> "Aborted", ns |-> ConnectionNamespace(x), queue |-> <<>>]
    OBVIOUS
  <2>3. v \in [at : NsStates, ns : Namespace, queue : Seq(Request)]
    BY <2>2, NamespaceTyped DEF NsStates
  <2> QED BY <2>1, <2>2, <2>3, <1>a
<1>9. CASE CleanupForget(x)
  <2>1. nsState' = [nsState EXCEPT ![x] = [at |-> "Unknown", ns |-> Default, queue |-> <<>>]]
    BY <1>9 DEF CleanupForget, Unknown
  <2>2. PICK v : v = [at |-> "Unknown", ns |-> Default, queue |-> <<>>]
    OBVIOUS
  <2>3. v \in [at : NsStates, ns : Namespace, queue : Seq(Request)]
    BY <2>2, WorkerConnectionsAssumption DEF NsStates
  <2> QED BY <2>1, <2>2, <2>3, <1>a
<1> QED BY <1>1, <1>2, <1>3, <1>4, <1>5, <1>6, <1>7, <1>8, <1>9, NsWriters DEF Takes

\* The announcements stay typed, those of others unchanged.
LEMMA AnnounceTypedStep ==
  ASSUME Typed, NEW x \in Conn, Steps(x)
  PROVE  AnnounceTyped' /\ \A c \in Conn : c # x => announce'[c] = announce[c]
<1>0. AnnounceTyped
  BY DEF Typed
<1>1. CASE UNCHANGED announce
  BY <1>0, <1>1 DEF AnnounceTyped
<1>2. ASSUME NEW m \in Message \ Request, m.op = "announce", Announce(x, m)
      PROVE  AnnounceTyped' /\ \A c \in Conn : c # x => announce'[c] = announce[c]
  <2>1. m.ns \in Namespace /\ m.name \in WorkerName
    BY <1>2 DEF Message
  <2> QED BY <1>0, <1>2, <2>1 DEF Announce, AnnounceTyped, Announces
<1>3. CASE announce' = [announce EXCEPT ![x] = AnnounceOver]
  BY <1>0, <1>3, WorkerConnectionsAssumption DEF AnnounceTyped, AnnounceOver, Announces
<1>4. CASE ClaimName(x)
  <2>1. PICK ns : ns = IF Fixed(x) THEN nsState[x].ns ELSE announce[x].ns
    OBVIOUS
  <2>2. ns \in Namespace
    BY <2>1 DEF Typed, NsTyped, AnnounceTyped
  <2>3. CASE announce' = [announce EXCEPT ![x].at = "resolve", ![x].ns = ns]
    BY <1>0, <2>2, <2>3 DEF AnnounceTyped, Announces
  <2> QED BY <1>3, <1>4, <2>1, <2>3 DEF ClaimName
<1>5. CASE Resolve(x)
  <2>1. CASE announce' = [announce EXCEPT ![x].at = IF WinsResolution(x) THEN "draining" ELSE "cancel"]
    BY <1>0, <2>1 DEF AnnounceTyped, Announces
  <2> QED BY <1>3, <1>5, <2>1 DEF Resolve
<1>6. ASSUME NEW d \in {"timer", "announce"}, DrainEnds(x, d)
      PROVE  AnnounceTyped' /\ \A c \in Conn : c # x => announce'[c] = announce[c]
  <2>1. CASE announce' = [announce EXCEPT ![x].at = "cancel"]
    BY <1>0, <2>1 DEF AnnounceTyped, Announces
  <2> QED BY <1>1, <1>6, <2>1 DEF DrainEnds
<1>7. Connect(x) \/ CleanupForget(x) \/ GraceExpires(x) \/ TimerDropped(x) => UNCHANGED announce
  BY DEF Connect, CleanupForget, GraceExpires, TimerDropped
<1>8. CancelTimer(x) => announce' = [announce EXCEPT ![x] = AnnounceOver]
  BY DEF CancelTimer
<1> QED BY <1>1, <1>2, <1>3, <1>4, <1>5, <1>6, <1>7, <1>8, TaskWriters DEF Settles

\* The grace timers stay typed, those of others unchanged.
LEMMA TimerTypedStep ==
  ASSUME Typed, NEW x \in Conn, Steps(x)
  PROVE  timer' \in [Conn -> Timers] /\ \A c \in Conn : c # x => timer'[c] = timer[c]
<1>0. timer \in [Conn -> Timers]
  BY DEF Typed, LoopTyped
<1>1. CASE \E v \in Timers : timer' = [timer EXCEPT ![x] = v]
  BY <1>0, <1>1
<1>2. Cancelled(timer[x]) \in Timers
  BY <1>0 DEF Cancelled, Timers
<1>3. UNCHANGED timer \/ \E v \in Timers : timer' = [timer EXCEPT ![x] = v]
  <2>0. {"off", "armed", "draining"} \subseteq Timers
    BY DEF Timers
  <2>1. Connect(x) => timer' = [timer EXCEPT ![x] = "armed"]
    BY DEF Connect
  <2>2. GraceExpires(x) => timer' = [timer EXCEPT ![x] = "draining"] \/ timer' = [timer EXCEPT ![x] = "off"]
    BY DEF GraceExpires
  <2>3. Resolve(x) \/ (\E m \in Message \ Request : Announce(x, m)) => UNCHANGED timer
    BY DEF Resolve, Announce
  <2>4. TimerDropped(x) => timer' = [timer EXCEPT ![x] = "off"]
    BY DEF TimerDropped
  <2>5. ClaimName(x) \/ CancelTimer(x) \/ CleanupForget(x) =>
          UNCHANGED timer \/ timer' = [timer EXCEPT ![x] = Cancelled(timer[x])]
    BY <1>0 DEF ClaimName, CancelTimer, CleanupForget
  <2>6. ASSUME NEW d \in {"timer", "announce"}, DrainEnds(x, d)
        PROVE  UNCHANGED timer \/ timer' = [timer EXCEPT ![x] = "off"]
    BY <2>6 DEF DrainEnds
  <2> QED BY <1>2, <2>0, <2>1, <2>2, <2>3, <2>4, <2>5, <2>6, TaskWriters DEF Settles
<1> QED BY <1>0, <1>1, <1>3

\* The frames read stay typed, those of others unchanged.
LEMMA FrameTypedStep ==
  ASSUME Typed, NEW x \in Conn, Steps(x)
  PROVE  FrameTyped' /\ \A c \in Conn : c # x => frame'[c] = frame[c]
<1>0. FrameTyped
  BY DEF Typed
<1>1. CASE UNCHANGED frame
  BY <1>0, <1>1 DEF FrameTyped
<1>2. CASE \E v : (v = Idle \/ v \in Request) /\ frame' = [frame EXCEPT ![x] = v]
  BY <1>0, <1>2 DEF FrameTyped
<1>3. CASE Hears(x)
  <2>1. ASSUME NEW m \in Request, Receive(x, m)
        PROVE  frame' = [frame EXCEPT ![x] = m]
    BY <2>1 DEF Receive
  <2>2. ASSUME NEW m \in Message \ Request, Announce(x, m) \/ Reattach(x, m)
        PROVE  UNCHANGED frame
    BY <2>2 DEF Announce, Reattach, loopVars
  <2> QED BY <1>1, <1>2, <1>3, <2>1, <2>2 DEF Hears
<1>4. CASE Loops(x)
  BY <1>1, <1>2, <1>4 DEF Loops, Connect, Route, EndLoop, RetireTimeout, Retired
<1> QED BY <1>1, <1>3, <1>4, TaskWriters DEF CleanupUnregister, loopVars

\* The log of what arrived stays typed, that of others unchanged.
LEMMA LogStep ==
  ASSUME Typed, NEW x \in Conn, Steps(x)
  PROVE  LogTyped' /\ \A c \in Conn : c # x => arrived'[c] = arrived[c]
<1>0. LogTyped
  BY DEF Typed
<1>1. CASE UNCHANGED arrived
  BY <1>0, <1>1 DEF LogTyped
<1>2. ASSUME NEW m \in Message, arrived' = [arrived EXCEPT ![x] = Append(@, m)]
      PROVE  LogTyped' /\ \A c \in Conn : c # x => arrived'[c] = arrived[c]
  <2>1. Append(arrived[x], m) \in Seq(Message)
    BY <1>0 DEF LogTyped
  <2> QED BY <1>0, <1>2, <2>1 DEF LogTyped
<1>3. Request \subseteq Message
  BY DEF Message
<1> QED BY <1>1, <1>2, <1>3, LogWriters DEF Hears, Receive, Announce, Reattach, Reads

\* The teardown of x moves on; the reader of x may start its own or the one of
\* the connection it retires.
Started(c) ==
  /\ cleanup'[c].todo = cleanup[c].todo /\ cleanup'[c].lease = cleanup[c].lease
  /\ cleanup'[c].at = cleanup[c].at \/ (cleanup[c].at = "no" /\ cleanup'[c].at = "abort")

\* The teardowns stay typed; that of another connection x can only start.
LEMMA CleanupTypedStep ==
  ASSUME Typed, NEW x \in Conn, Steps(x)
  PROVE  CleanupTyped' /\ \A c \in Conn : c # x => Started(c)
<1>0. CleanupTyped
  BY DEF Typed
<1>1. CASE UNCHANGED cleanup
  BY <1>0, <1>1 DEF CleanupTyped, Started
<1>2. ASSUME NEW y, StartCleanup(y)
      PROVE  CleanupTyped' /\ \A c \in Conn : Started(c)
  <2>1. cleanup' = [cleanup EXCEPT ![y].at = IF @ = "no" THEN "abort" ELSE @]
    BY <1>2 DEF StartCleanup
  <2>2. DOMAIN cleanup' = Conn /\ \A c \in Conn : c # y => cleanup'[c] = cleanup[c]
    BY <1>0, <2>1 DEF CleanupTyped
  <2>3. ASSUME y \in Conn
        PROVE  /\ cleanup'[y].at = IF cleanup[y].at = "no" THEN "abort" ELSE cleanup[y].at
               /\ cleanup'[y].todo = cleanup[y].todo /\ cleanup'[y].lease = cleanup[y].lease
    BY <1>0, <2>1, <2>3 DEF CleanupTyped
  <2>4. "abort" \in Cleanups
    BY DEF Cleanups
  <2>5. CleanupTyped'
    BY <1>0, <2>1, <2>4 DEF CleanupTyped
  <2> QED BY <1>0, <2>2, <2>3, <2>5 DEF CleanupTyped, Started
<1>3. ASSUME NEW at \in Cleanups, Step(x, at)
      PROVE  CleanupTyped' /\ \A c \in Conn : c # x => Started(c)
  BY <1>0, <1>3 DEF CleanupTyped, Step, Started
<1>4a. CASE SnapshotExternal(x)
  <2>1. PICK S : S = ids[x] \cap External
    OBVIOUS
  <2>2. cleanup' = [cleanup EXCEPT ![x].at = "release", ![x].todo = @ \cup S]
    BY <1>4a, <2>1 DEF SnapshotExternal
  <2>3. S \subseteq Fn
    BY <2>1 DEF Typed, TableTyped
  <2>4. "release" \in Cleanups
    BY DEF Cleanups, Teardown
  <2>5. \A c \in Conn : c # x => cleanup'[c] = cleanup[c]
    BY <1>0, <2>2 DEF CleanupTyped
  <2>6. /\ cleanup'[x] = [cleanup[x] EXCEPT !.at = "release", !.todo = @ \cup S]
        /\ cleanup[x] \in [at : Cleanups, todo : SUBSET Fn, lease : Keys \cup {NoOne}]
    BY <1>0, <2>2 DEF CleanupTyped
  <2>7. cleanup'[x] \in [at : Cleanups, todo : SUBSET Fn, lease : Keys \cup {NoOne}]
    BY <2>3, <2>4, <2>6
  <2>8. CleanupTyped'
    BY <1>0, <2>2, <2>7 DEF CleanupTyped
  <2> QED BY <2>5, <2>8 DEF Started
<1>4. CASE Snapshot(x)
  <2>1. cleanup' = [cleanup EXCEPT ![x] = [at |-> "snapshotExternal", todo |-> ids[x] \ External, lease |-> NoOne]]
    BY <1>4 DEF Snapshot
  <2>2. ids[x] \subseteq Fn
    BY DEF Typed, TableTyped
  <2> QED BY <1>0, <2>1, <2>2 DEF CleanupTyped, Started, Cleanups, Teardown
<1>5. ASSUME NEW f \in Fn, CleanupRelease(x, f)
      PROVE  CleanupTyped' /\ \A c \in Conn : c # x => Started(c)
  <2>1. PICK k : k = <<ConnectionNamespace(x), f>>
    OBVIOUS
  <2>2. \/ cleanup' = [cleanup EXCEPT ![x] = [at |-> "external", todo |-> @.todo \ {f}, lease |-> k]]
        \/ cleanup' = [cleanup EXCEPT ![x].todo = @ \ {f}]
    BY <1>5, <2>1 DEF CleanupRelease
  <2>3. "external" \in Cleanups /\ k \in Keys
    BY <2>1, NamespaceTyped DEF Cleanups, Teardown, Keys
  <2>4. CASE cleanup' = [cleanup EXCEPT ![x].todo = @ \ {f}]
    BY <1>0, <2>4 DEF CleanupTyped, Started
  <2>5. CASE cleanup' = [cleanup EXCEPT ![x] = [at |-> "external", todo |-> @.todo \ {f}, lease |-> k]]
    BY <1>0, <2>3, <2>5 DEF CleanupTyped, Started
  <2> QED BY <2>2, <2>4, <2>5
<1>6. CASE CleanupDropLease(x)
  <2>1. cleanup' = [cleanup EXCEPT ![x].at = "release", ![x].lease = NoOne]
    BY <1>6 DEF CleanupDropLease
  <2>2. \A c \in Conn : c # x => cleanup'[c] = cleanup[c]
    BY <1>0, <2>1 DEF CleanupTyped
  <2>3. /\ cleanup'[x] = [cleanup[x] EXCEPT !.at = "release", !.lease = NoOne]
        /\ cleanup[x] \in [at : Cleanups, todo : SUBSET Fn, lease : Keys \cup {NoOne}]
    BY <1>0, <2>1 DEF CleanupTyped
  <2>4. "release" \in Cleanups
    BY DEF Cleanups, Teardown
  <2>5. cleanup'[x] \in [at : Cleanups, todo : SUBSET Fn, lease : Keys \cup {NoOne}]
    BY <2>3, <2>4
  <2>6. CleanupTyped'
    BY <1>0, <2>1, <2>5 DEF CleanupTyped
  <2> QED BY <2>2, <2>6 DEF Started
<1>7. {"snapshot", "unregister", "forget", "done"} \subseteq Cleanups
  BY DEF Cleanups, Teardown
<1>8. AbortResolution(x) \/ CleanupName(x) \/ CleanupUnregister(x) \/ CleanupForget(x) =>
        \E at \in Cleanups : Step(x, at)
  BY <1>7 DEF AbortResolution, CleanupName, CleanupUnregister, CleanupForget
<1>9. EndLoop(x) \/ RetireTimeout(x) => \E y : StartCleanup(y)
  BY DEF EndLoop, RetireTimeout
<1> QED BY <1>1, <1>2, <1>3, <1>4, <1>4a, <1>5, <1>6, <1>8, <1>9, TaskWriters DEF Cleanup

\* A teardown that has met a registration in flight stays marked.
LEMMA RacedStep ==
  ASSUME Typed, NEW x \in Conn, Steps(x)
  PROVE  raced' \in [Conn -> BOOLEAN] /\ \A c \in Conn : (c # x => raced'[c] = raced[c]) /\ (raced[c] => raced'[c])
<1>0. raced \in [Conn -> BOOLEAN]
  BY DEF Typed, LoopTyped
<1>1. CASE UNCHANGED raced
  BY <1>0, <1>1
<1>2. CASE TimerDropped(x)
  BY <1>0, <1>2 DEF TimerDropped
<1>3. CASE AbortResolution(x)
  <2>1. PICK v \in BOOLEAN : v = InFlight(x)
    BY DEF InFlight
  <2>2. raced' = [raced EXCEPT ![x] = @ \/ v]
    BY <1>3, <2>1 DEF AbortResolution
  <2> QED BY <1>0, <2>2
<1> QED BY <1>1, <1>2, <1>3, TaskWriters

\* A step of x leaves the read loops of others alone; it may evict one.
LEMMA LoopTypedStep ==
  ASSUME Typed, NEW x \in Conn, Steps(x)
  PROVE  /\ registered' \subseteq Conn /\ reader' \in [Conn -> Readers]
         /\ previous' \in [Conn -> Holder] /\ evict' \in [Conn -> BOOLEAN]
         /\ \A c \in Conn : c # x => /\ c \in registered' <=> c \in registered
                                     /\ reader'[c] = reader[c] /\ previous'[c] = previous[c]
                                     /\ evict[c] => evict'[c]
<1>0. registered \subseteq Conn /\ reader \in [Conn -> Readers]
      /\ previous \in [Conn -> Holder] /\ evict \in [Conn -> BOOLEAN]
  BY DEF Typed, LoopTyped
<1>1. CASE UNCHANGED <<registered, reader, previous, evict>>
  BY <1>0, <1>1
<1>2. Hears(x) => UNCHANGED <<registered, reader, previous, evict>> \/ \E m \in Message \ Request : m.op = "reattach" /\ Reattach(x, m)
  BY DEF Hears, Receive, Announce, connVars, loopVars
<1>3. ASSUME NEW m \in Message \ Request, m.op = "reattach", Reattach(x, m),
             ~UNCHANGED <<registered, reader, previous, evict>>
      PROVE  /\ m.previous \in registered /\ m.previous # x
             /\ registered' = registered /\ reader' = [reader EXCEPT ![x] = "evicting"]
             /\ previous' = [previous EXCEPT ![x] = m.previous]
             /\ evict' = [evict EXCEPT ![m.previous] = TRUE]
  BY <1>3 DEF Reattach, connVars
<1>4. ASSUME NEW m \in Message \ Request, m.op = "reattach", Reattach(x, m),
             ~UNCHANGED <<registered, reader, previous, evict>>
      PROVE  /\ registered' \subseteq Conn /\ reader' \in [Conn -> Readers]
             /\ previous' \in [Conn -> Holder] /\ evict' \in [Conn -> BOOLEAN]
             /\ \A c \in Conn : c # x => /\ c \in registered' <=> c \in registered
                                         /\ reader'[c] = reader[c] /\ previous'[c] = previous[c]
                                         /\ evict[c] => evict'[c]
  BY <1>0, <1>3, <1>4 DEF Readers, Holder
<1>5. CASE Connect(x)
  BY <1>0, <1>5 DEF Connect, Readers
<1>6. CASE Route(x)
  BY <1>1, <1>6 DEF Route
<1>7. CASE EndLoop(x)
  BY <1>0, <1>7 DEF EndLoop, Readers, connVars
<1>8. CASE RetireTimeout(x)
  BY <1>0, <1>8 DEF RetireTimeout, Readers, connVars
<1>9. CASE Retired(x)
  BY <1>0, <1>9 DEF Retired, Readers, Holder, connVars
<1>10. CASE CleanupUnregister(x)
  BY <1>0, <1>10 DEF CleanupUnregister, loopVars
<1> QED BY <1>1, <1>2, <1>4, <1>5, <1>6, <1>7, <1>8, <1>9, <1>10, TaskWriters DEF Loops

\* Every action keeps the types.
LEMMA TypedStep ==
  ASSUME Typed, NEW x \in Conn, Steps(x)
  PROVE  Typed'
  BY JobTypedStep, TableStep, NsTypedStep, AnnounceTypedStep, TimerTypedStep, FrameTypedStep, LogStep,
     CleanupTypedStep, RacedStep, LoopTypedStep DEF Typed, LoopTyped

-----------------------------------------------------------------------------
(* The life of a connection. *)

\* Nobody who has been told to stop, or who has connected, goes back on it.
LEMMA Onward ==
  ASSUME Typed, NEW x \in Conn, Steps(x), NEW c \in Conn
  PROVE  (Stopping(c) => Stopping(c)') /\ (reader[c] # "new" => reader'[c] # "new")
<1>0. reader \in [Conn -> Readers] /\ evict \in [Conn -> BOOLEAN] /\ registered \subseteq Conn
  BY DEF Typed, LoopTyped
<1>1. CASE UNCHANGED <<registered, reader, previous, evict, frame>>
  BY <1>1 DEF Stopping
<1>2. CASE Hears(x)
  <2>1. CASE UNCHANGED <<reader, evict>>
    BY <2>1 DEF Stopping
  <2>2. ASSUME NEW m \in Message \ Request, Reattach(x, m)
        PROVE  (Stopping(c) => Stopping(c)') /\ (reader[c] # "new" => reader'[c] # "new")
    BY <1>0, <2>1, <2>2 DEF Reattach, Reads, Reading, Stopping
  <2> QED BY <1>2, <2>1, <2>2 DEF Hears, Receive, Announce, loopVars
<1>3. CASE Loops(x)
  BY <1>0, <1>3 DEF Loops, Connect, Route, EndLoop, RetireTimeout, Retired, Stopping
<1>4. CASE CleanupUnregister(x)
  BY <1>4 DEF CleanupUnregister, loopVars, Stopping
<1> QED BY <1>1, <1>2, <1>3, <1>4, TaskWriters

\* A step of x leaves the other connections as they are, but for an eviction
\* and the start of a teardown.
Beside(c) ==
  /\ c \in registered' <=> c \in registered
  /\ nsState'[c] = nsState[c] /\ timer'[c] = timer[c] /\ announce'[c] = announce[c] /\ frame'[c] = frame[c]
  /\ reader'[c] = reader[c] /\ previous'[c] = previous[c] /\ ids'[c] = ids[c]
  /\ arrived'[c] = arrived[c] /\ raced'[c] = raced[c]
  /\ \A d \in Dispatchers : job'[<<c, d>>] = job[<<c, d>>]

\* What a step of x leaves alone of another connection: all but the start of
\* its teardown and its eviction.
LEMMA Besides ==
  ASSUME Typed, NEW x \in Conn, Steps(x), NEW c \in Conn, c # x
  PROVE  Beside(c) /\ Started(c)
  BY JobTypedStep, TableStep, NsTypedStep, AnnounceTypedStep, TimerTypedStep, FrameTypedStep, LogStep,
     CleanupTypedStep, RacedStep, LoopTypedStep DEF Beside, OthersJobs, OthersIds

\* Only a connection that has been told to stop, or has stopped, is torn
\* down.
LEMMA StartedStopping ==
  ASSUME Typed, Pipeline, NEW x \in Conn, Steps(x), NEW c \in Conn, cleanup[c].at = "no", cleanup'[c].at # "no"
  PROVE  reader[c] # "new" /\ Stopping(c)'
<1>0. DOMAIN cleanup = Conn /\ reader \in [Conn -> Readers]
  BY DEF Typed, CleanupTyped, LoopTyped
<1>1. CASE EndLoop(x)
  <2>1. c = x
    BY <1>0, <1>1 DEF EndLoop, StartCleanup
  <2> QED BY <1>0, <1>1, <2>1 DEF EndLoop, Reading, Stopping
<1>2. CASE RetireTimeout(x)
  <2>1. c = previous[x]
    BY <1>0, <1>2 DEF RetireTimeout, StartCleanup
  <2>2. reader[c] # "new" /\ Stopping(c)
    BY <1>2, <2>1 DEF RetireTimeout, Pipeline, Retiring
  <2> QED BY <2>2, Onward
<1>3. CASE Cleanup(x)
  <2>1. cleanup[x].at # "no" /\ \A y \in Conn : y # x => cleanup'[y].at = cleanup[y].at
    <3>1. cleanup[x].at # "no"
      BY <1>3 DEF Cleanup, AbortResolution, Snapshot, SnapshotExternal, CleanupRelease, CleanupDropLease, CleanupName, CleanupUnregister, CleanupForget
    <3>2. \A y \in Conn : y # x => cleanup'[y].at = cleanup[y].at
      BY <1>0, <1>3 DEF Cleanup, Step, AbortResolution, Snapshot, SnapshotExternal, CleanupRelease, CleanupDropLease, CleanupName, CleanupUnregister, CleanupForget
    <3> QED BY <3>1, <3>2
  <2> QED BY <2>1
<1> QED BY <1>1, <1>2, <1>3, TaskWriters

\* A step of x disturbs neither the life nor the dispatches of others.
LEMMA PipelineOthers ==
  ASSUME Typed, Pipeline, NEW x \in Conn, Steps(x), NEW c \in Conn, c # x
  PROVE  Life(c)' /\ OneDispatcher(c)'
<1>1. Life(c) /\ OneDispatcher(c) /\ Beside(c)
  BY Besides DEF Pipeline
<1>2. cleanup'[c].at = cleanup[c].at \/ (cleanup[c].at = "no" /\ cleanup'[c].at = "abort" /\ reader[c] # "new")
  BY Besides, StartedStopping DEF Started
<1>3. Life(c)'
  BY <1>1, <1>2 DEF Life, Beside, Unused, Teardown
<1>4. InFlight(c)' <=> InFlight(c)
  BY <1>1 DEF InFlight, Beside, Dispatchers
<1>5. OneDispatcher(c)'
  BY <1>1, <1>2, <1>4 DEF OneDispatcher, Beside, Dispatchers
<1> QED BY <1>3, <1>5

\* A step of x keeps its own life in order.
LEMMA LifeOwn ==
  ASSUME Typed, Pipeline, NEW x \in Conn, Steps(x)
  PROVE  Life(x)'
<1>0. /\ Life(x) /\ OneDispatcher(x) /\ NsTyped /\ AnnounceTyped /\ CleanupTyped /\ x \in DOMAIN frame
      /\ x \in DOMAIN timer /\ x \in DOMAIN reader /\ x \in DOMAIN raced /\ x \in DOMAIN arrived
  BY DEF Typed, LoopTyped, FrameTyped, LogTyped, Pipeline
<1>1. CASE Connect(x)
  BY <1>1, <1>0 DEF Connect, NsTyped, AnnounceTyped, CleanupTyped, Life, Unused, Teardown, loopVars, connVars
<1>2. CASE Route(x)
  <2>1. /\ nsState'[x].at = nsState[x].at /\ UNCHANGED <<registered, reader, timer, announce, cleanup, raced, arrived>>
        /\ frame[x] # Idle
        /\ nsState[x].at \notin {"Pending", "Draining"} => nsState'[x].queue = nsState[x].queue
    BY <1>2, <1>0 DEF Route, NsTyped, CleanupTyped
  <2> QED BY <1>0, <2>1 DEF Life, Unused, Teardown
<1>3. CASE EndLoop(x)
  <2>1. /\ cleanup'[x].at = (IF cleanup[x].at = "no" THEN "abort" ELSE cleanup[x].at)
        /\ reader'[x] = "closed" /\ reader[x] = "open" /\ UNCHANGED <<registered, nsState>>
    BY <1>3, <1>0 DEF EndLoop, StartCleanup, Reading, connVars, NsTyped, CleanupTyped
  <2> QED BY <1>0, <2>1 DEF Life, Unused, Teardown
<1>4. ASSUME NEW m \in Request, Receive(x, m)
      PROVE  Life(x)'
  BY <1>4, <1>0 DEF Receive, Reads, Reading, NsTyped, AnnounceTyped, CleanupTyped, Life, Unused, Teardown, loopVars, connVars
<1>5. ASSUME NEW m \in Message \ Request, m.op = "announce", Announce(x, m)
      PROVE  Life(x)'
  BY <1>5, <1>0 DEF Announce, Reads, Reading, NsTyped, AnnounceTyped, CleanupTyped, Life, Unused, Teardown, loopVars, connVars
<1>6. ASSUME NEW m \in Message \ Request, m.op = "reattach", Reattach(x, m)
      PROVE  Life(x)'
  BY <1>6, <1>0 DEF Reattach, Reads, Reading, NsTyped, AnnounceTyped, CleanupTyped, Life, Unused, Teardown, loopVars, connVars
<1>7. CASE RetireTimeout(x)
  BY <1>7, <1>0 DEF RetireTimeout, StartCleanup, NsTyped, AnnounceTyped, CleanupTyped, Life, Unused, Teardown, loopVars, connVars
<1>8. CASE Retired(x)
  BY <1>8, <1>0 DEF Retired, NsTyped, AnnounceTyped, CleanupTyped, Life, Unused, Teardown, loopVars, connVars
<1>9. CASE GraceExpires(x)
  BY <1>9, <1>0 DEF GraceExpires, WinsResolution, ToDraining, NsTyped, AnnounceTyped, CleanupTyped, Life, Unused, Teardown, loopVars, connVars
<1>10. CASE ClaimName(x)
  BY <1>10, <1>0 DEF ClaimName, AnnounceOver, Cancelled, Fixed, NsTyped, AnnounceTyped, CleanupTyped, Life, Unused, Teardown, loopVars, connVars
<1>11. CASE Resolve(x)
  BY <1>11, <1>0 DEF Resolve, AnnounceOver, WinsResolution, ToDraining, NsTyped, AnnounceTyped, CleanupTyped, Life, Unused, Teardown, loopVars, connVars
<1>12. CASE CancelTimer(x)
  BY <1>12, <1>0 DEF CancelTimer, AnnounceOver, Cancelled, NsTyped, AnnounceTyped, CleanupTyped, Life, Unused, Teardown, loopVars, connVars
<1>13. ASSUME NEW d \in {"timer", "announce"}, DrainNext(x, d)
      PROVE  Life(x)'
  <2>1. nsState'[x].at = nsState[x].at /\ nsState[x].at = "Draining" /\ UNCHANGED cleanup /\ UNCHANGED <<registered, reader, timer, announce, frame, raced, arrived>>
    BY <1>13, <1>0 DEF DrainNext, loopVars, NsTyped, CleanupTyped
  <2> QED BY <1>0, <2>1 DEF Life, Unused, Teardown
<1>14. ASSUME NEW d \in {"timer", "announce"}, DrainEnds(x, d)
      PROVE  Life(x)'
  <2>1. /\ nsState'[x].at = (IF nsState[x].at = "Draining" THEN "Resolved" ELSE nsState[x].at)
        /\ nsState'[x].queue = nsState[x].queue /\ (nsState[x].at = "Draining" => nsState[x].queue = <<>>)
        /\ reader[x] # "new" /\ UNCHANGED <<registered, reader, frame, raced, arrived, cleanup>>
    BY <1>14, <1>0 DEF DrainEnds, Drains, loopVars, Life, Unused, NsTyped, CleanupTyped
  <2> QED BY <1>0, <2>1 DEF Life, Unused, Teardown
<1>15. CASE TimerDropped(x)
  BY <1>15, <1>0 DEF TimerDropped, Awaits, NsTyped, AnnounceTyped, CleanupTyped, Life, Unused, Teardown, loopVars, connVars
<1>16. CASE AbortResolution(x)
  <2>1. /\ nsState'[x].at = "Aborted" /\ nsState'[x].queue = <<>>
        /\ cleanup[x].at = "abort" /\ cleanup'[x].at = "snapshot" /\ UNCHANGED <<registered, reader>>
    BY <1>16, <1>0 DEF AbortResolution, Step, loopVars, NsTyped, CleanupTyped
  <2> QED BY <1>0, <2>1 DEF Life, Unused, Teardown
<1>17. CASE Snapshot(x)
  <2>1. cleanup[x].at = "snapshot" /\ cleanup'[x].at = "snapshotExternal" /\ UNCHANGED nsState /\ UNCHANGED <<registered, reader, timer, announce, frame, raced, arrived>>
    BY <1>17, <1>0 DEF Snapshot, loopVars, connVars, NsTyped, CleanupTyped
  <2> QED BY <1>0, <2>1 DEF Life, Unused, Teardown
<1>17a. CASE SnapshotExternal(x)
  <2>1. cleanup[x].at = "snapshotExternal" /\ cleanup'[x].at = "release" /\ UNCHANGED nsState /\ UNCHANGED <<registered, reader, timer, announce, frame, raced, arrived>>
    BY <1>17a, <1>0 DEF SnapshotExternal, loopVars, connVars, NsTyped, CleanupTyped
  <2> QED BY <1>0, <2>1 DEF Life, Unused, Teardown
<1>18. ASSUME NEW f \in Fn, CleanupRelease(x, f)
      PROVE  Life(x)'
  <2>1. /\ cleanup[x].at = "release" /\ cleanup'[x].at \in {"release", "external"}
        /\ UNCHANGED nsState /\ UNCHANGED <<registered, reader, timer, announce, frame, raced, arrived>>
    BY <1>18, <1>0 DEF CleanupRelease, loopVars, connVars, NsTyped, CleanupTyped
  <2> QED BY <1>0, <2>1 DEF Life, Unused, Teardown
<1>19. CASE CleanupDropLease(x)
  <2>1. cleanup[x].at = "external" /\ cleanup'[x].at = "release" /\ UNCHANGED nsState /\ UNCHANGED <<registered, reader, timer, announce, frame, raced, arrived>>
    BY <1>19, <1>0 DEF CleanupDropLease, loopVars, connVars, NsTyped, CleanupTyped
  <2> QED BY <1>0, <2>1 DEF Life, Unused, Teardown
<1>20. CASE CleanupName(x)
  <2>1. cleanup[x].at = "release" /\ cleanup'[x].at = "unregister" /\ UNCHANGED nsState /\ UNCHANGED <<registered, reader, timer, announce, frame, raced, arrived>>
    BY <1>20, <1>0 DEF CleanupName, Step, loopVars, connVars, NsTyped, CleanupTyped
  <2> QED BY <1>0, <2>1 DEF Life, Unused, Teardown
<1>21. CASE CleanupUnregister(x)
  <2>1. /\ cleanup[x].at = "unregister" /\ cleanup'[x].at = "forget" /\ UNCHANGED <<nsState, reader>>
        /\ registered' = registered \ {x}
    BY <1>21, <1>0 DEF CleanupUnregister, Step, loopVars, connVars, NsTyped, CleanupTyped
  <2> QED BY <1>0, <2>1 DEF Life, Unused, Teardown
<1>22. CASE CleanupForget(x)
  <2>1. /\ cleanup[x].at = "forget" /\ cleanup'[x].at = "done" /\ UNCHANGED <<registered, reader>>
        /\ nsState'[x].at = "Unknown" /\ nsState'[x].queue = <<>>
    BY <1>22, <1>0 DEF CleanupForget, Step, loopVars, Unknown, NsTyped, CleanupTyped
  <2> QED BY <1>0, <2>1 DEF Life, Unused, Teardown
<1>23a. ASSUME NEW d \in Dispatchers, BeginRegister(x, d)
      PROVE  Life(x)'
  BY <1>23a, <1>0 DEF BeginRegister, NsTyped, AnnounceTyped, CleanupTyped, Life, Unused, Teardown, loopVars, connVars
<1>23. ASSUME NEW d \in Dispatchers, ClaimFunction(x, d)
      PROVE  Life(x)'
  BY <1>23, <1>0 DEF ClaimFunction, Goto, Finish, Doing, KeyOf, NsTyped, AnnounceTyped, CleanupTyped, Life, Unused, Teardown, loopVars, connVars
<1>24. ASSUME NEW d \in Dispatchers, WriteFunction(x, d)
      PROVE  Life(x)'
  BY <1>24, <1>0 DEF WriteFunction, Goto, Finish, Doing, KeyOf, NsTyped, AnnounceTyped, CleanupTyped, Life, Unused, Teardown, loopVars, connVars
<1>25. ASSUME NEW d \in Dispatchers, NoteFunction(x, d)
      PROVE  Life(x)'
  BY <1>25, <1>0 DEF NoteFunction, Finish, Doing, NsTyped, AnnounceTyped, CleanupTyped, Life, Unused, Teardown, loopVars, connVars
<1>26. ASSUME NEW d \in Dispatchers, BeginUnregister(x, d)
      PROVE  Life(x)'
  BY <1>26, <1>0 DEF BeginUnregister, Doing, ConnectionNamespace, Fixed, NsTyped, AnnounceTyped, CleanupTyped, Life, Unused, Teardown, loopVars, connVars
<1>27. ASSUME NEW d \in Dispatchers, ReleaseFunction(x, d)
      PROVE  Life(x)'
  BY <1>27, <1>0 DEF ReleaseFunction, Goto, Finish, Doing, KeyOf, NsTyped, AnnounceTyped, CleanupTyped, Life, Unused, Teardown, loopVars, connVars
<1>28. ASSUME NEW d \in Dispatchers, DropLease(x, d)
      PROVE  Life(x)'
  BY <1>28, <1>0 DEF DropLease, Finish, Doing, KeyOf, NsTyped, AnnounceTyped, CleanupTyped, Life, Unused, Teardown, loopVars, connVars
<1> QED BY <1>1, <1>2, <1>3, <1>4, <1>5, <1>6, <1>7, <1>8, <1>9, <1>10, <1>11, <1>12, <1>13, <1>14, <1>15, <1>16, <1>17, <1>17a, <1>18, <1>19, <1>20, <1>21, <1>22, <1>23a, <1>23, <1>24, <1>25, <1>26, <1>27, <1>28 DEF Steps, ReadLoop, Resolution, Cleanup, Dispatch

\* A Reattach evicts before anything is torn down, and waits for a connection
\* that has been told to stop.
LEMMA RetiringStep ==
  ASSUME Typed, Pipeline, NEW x \in Conn, Steps(x), NEW c \in Conn
  PROVE  Retiring(c)'
<1>0. reader \in [Conn -> Readers] /\ previous \in [Conn -> Holder] /\ registered \subseteq Conn /\ evict \in [Conn -> BOOLEAN]
  BY DEF Typed, LoopTyped
<1>1. Retiring(c)
  BY DEF Pipeline
<1>2. cleanup'[c].at # "no" => Stopping(c)'
  <2>1. CASE cleanup[c].at = "no"
    BY <2>1, StartedStopping
  <2>2. CASE cleanup[c].at # "no"
    BY <1>1, <2>2, Onward DEF Retiring
  <2> QED BY <2>1, <2>2
<1>3. ASSUME reader[c] = "evicting", previous'[c] = previous[c]
      PROVE  previous'[c] \in Conn /\ reader'[previous'[c]] # "new" /\ Stopping(previous[c])'
  <2>1. PICK p : p = previous[c]
    OBVIOUS
  <2>2. p \in Conn /\ reader[p] # "new" /\ Stopping(p)
    BY <1>1, <1>3, <2>1 DEF Retiring
  <2>3. reader'[p] # "new" /\ Stopping(p)'
    BY <2>2, Onward
  <2> QED BY <1>3, <2>1, <2>2, <2>3 DEF Stopping
<1>4. ASSUME NEW m \in Message \ Request, m.op = "reattach", Reattach(x, m), reader' # reader, c = x
      PROVE  previous'[c] \in Conn /\ reader'[previous'[c]] # "new" /\ Stopping(previous[c])'
  <2>1. PICK p : p = m.previous
    OBVIOUS
  <2>2. p \in registered /\ p # x /\ previous' = [previous EXCEPT ![x] = p] /\ evict' = [evict EXCEPT ![p] = TRUE]
    BY <1>4, <2>1 DEF Reattach
  <2>3. reader[p] # "new" /\ p \in Conn
    BY <1>0, <2>2 DEF Pipeline, Life
  <2>4. reader'[p] # "new"
    BY <2>3, Onward
  <2>5. previous'[c] = p /\ evict'[p]
    BY <1>0, <1>4, <2>2, <2>3
  <2> QED BY <2>3, <2>4, <2>5 DEF Stopping
<1>5. ASSUME reader'[c] = "evicting"
      PROVE  (reader[c] = "evicting" /\ previous'[c] = previous[c])
             \/ (c = x /\ \E m \in Message \ Request : m.op = "reattach" /\ Reattach(x, m) /\ reader' # reader)
  <2>1. CASE c # x
    BY <1>5, <2>1, Besides DEF Beside
  <2>2. CASE UNCHANGED <<registered, reader, previous, evict, frame>>
    BY <1>5, <2>2
  <2>3. CASE c = x /\ Hears(x)
    BY <1>5, <2>3 DEF Hears, Receive, Announce, Reattach, Reads, Reading, loopVars
  <2>4. CASE c = x /\ Loops(x)
    BY <1>0, <1>5, <2>4 DEF Loops, Connect, Route, EndLoop, RetireTimeout, Retired
  <2>5. CASE CleanupUnregister(x)
    BY <1>5, <2>5 DEF CleanupUnregister, loopVars
  <2> QED BY <2>1, <2>2, <2>3, <2>4, <2>5, TaskWriters
<1>6. ASSUME reader'[c] = "evicting"
      PROVE  previous'[c] \in Conn /\ reader'[previous'[c]] # "new" /\ (evict'[previous'[c]] \/ reader'[previous'[c]] = "closed")
  BY <1>3, <1>4, <1>5, <1>6 DEF Stopping
<1> QED BY <1>2, <1>6 DEF Retiring, Stopping

\* A dispatch in progress changes no other, and no state of the connection.
LEMMA DispatchesOwn ==
  ASSUME Typed, NEW x \in Conn, NEW d \in Dispatchers, Dispatch(x, d)
  PROVE  /\ job[<<x, d>>] # Idle /\ \A e \in Dispatchers : e # d => job'[<<x, e>>] = job[<<x, e>>]
         /\ UNCHANGED <<timer, announce, reader, frame, nsState, cleanup, raced>>
<1>1. DOMAIN job = Conn \X Dispatchers
  BY DEF Typed, JobTyped
<1>2. job[<<x, d>>] # Idle
  BY DEF Dispatch, BeginRegister, ClaimFunction, WriteFunction, NoteFunction, BeginUnregister, ReleaseFunction, DropLease, Doing
<1>3. UNCHANGED <<timer, announce, reader, frame, nsState, cleanup, raced>>
  BY DEF Dispatch, BeginRegister, ClaimFunction, WriteFunction, NoteFunction, BeginUnregister, ReleaseFunction, DropLease, connVars, loopVars
<1>4. \E y : job' = [job EXCEPT ![<<x, d>>] = y]
  <2>0. CASE BeginRegister(x, d)
    BY <2>0 DEF BeginRegister, Goto
  <2>1. CASE ClaimFunction(x, d)
    BY <2>1 DEF ClaimFunction, Goto, Finish
  <2>2. CASE WriteFunction(x, d)
    BY <2>2 DEF WriteFunction, Goto, Finish
  <2>3. CASE NoteFunction(x, d)
    BY <2>3 DEF NoteFunction, Finish
  <2>4. CASE BeginUnregister(x, d)
    BY <2>4 DEF BeginUnregister
  <2>5. CASE ReleaseFunction(x, d)
    BY <2>5 DEF ReleaseFunction, Goto, Finish
  <2>6. CASE DropLease(x, d)
    BY <2>6 DEF DropLease, Finish
  <2> QED BY <2>0, <2>1, <2>2, <2>3, <2>4, <2>5, <2>6 DEF Dispatch
<1>5. \A e \in Dispatchers : e # d => job'[<<x, e>>] = job[<<x, e>>]
  BY <1>1, <1>4
<1> QED BY <1>2, <1>3, <1>5

\* A step of x keeps one dispatcher.
LEMMA OneDispatcherOwn ==
  ASSUME Typed, Pipeline, NEW x \in Conn, Steps(x)
  PROVE  OneDispatcher(x)'
<1>0. /\ Life(x) /\ OneDispatcher(x) /\ Retiring(x) /\ NsTyped /\ AnnounceTyped /\ CleanupTyped /\ x \in DOMAIN frame
      /\ x \in DOMAIN timer /\ x \in DOMAIN reader /\ raced \in [Conn -> BOOLEAN] /\ DOMAIN job = Conn \X Dispatchers
  BY DEF Typed, LoopTyped, FrameTyped, JobTyped, Pipeline
<1>1. CASE Connect(x)
  BY <1>1, <1>0 DEF Connect, NsTyped, AnnounceTyped, CleanupTyped, Life, Unused, Teardown, OneDispatcher, Draining, InFlight, Dispatchers, Retiring, Stopping, loopVars, connVars
<1>2. CASE Route(x)
  BY <1>2, <1>0 DEF Route, NsTyped, AnnounceTyped, CleanupTyped, Life, Unused, Teardown, OneDispatcher, Draining, InFlight, Dispatchers, Retiring, Stopping, loopVars, connVars
<1>3. CASE EndLoop(x)
  BY <1>3, <1>0 DEF EndLoop, StartCleanup, Reading, NsTyped, AnnounceTyped, CleanupTyped, Life, Unused, Teardown, OneDispatcher, Draining, InFlight, Dispatchers, Retiring, Stopping, loopVars, connVars
<1>4. ASSUME NEW m \in Request, Receive(x, m)
      PROVE  OneDispatcher(x)'
  BY <1>4, <1>0 DEF Receive, Reads, Reading, NsTyped, AnnounceTyped, CleanupTyped, Life, Unused, Teardown, OneDispatcher, Draining, InFlight, Dispatchers, Retiring, Stopping, loopVars, connVars
<1>5. ASSUME NEW m \in Message \ Request, m.op = "announce", Announce(x, m)
      PROVE  OneDispatcher(x)'
  BY <1>5, <1>0 DEF Announce, Reads, Reading, NsTyped, AnnounceTyped, CleanupTyped, Life, Unused, Teardown, OneDispatcher, Draining, InFlight, Dispatchers, Retiring, Stopping, loopVars, connVars
<1>6. ASSUME NEW m \in Message \ Request, m.op = "reattach", Reattach(x, m)
      PROVE  OneDispatcher(x)'
  BY <1>6, <1>0 DEF Reattach, Reads, Reading, NsTyped, AnnounceTyped, CleanupTyped, Life, Unused, Teardown, OneDispatcher, Draining, InFlight, Dispatchers, Retiring, Stopping, loopVars, connVars
<1>7. CASE RetireTimeout(x)
  BY <1>7, <1>0 DEF RetireTimeout, StartCleanup, NsTyped, AnnounceTyped, CleanupTyped, Life, Unused, Teardown, OneDispatcher, Draining, InFlight, Dispatchers, Retiring, Stopping, loopVars, connVars
<1>8. CASE Retired(x)
  BY <1>8, <1>0 DEF Retired, NsTyped, AnnounceTyped, CleanupTyped, Life, Unused, Teardown, OneDispatcher, Draining, InFlight, Dispatchers, Retiring, Stopping, loopVars, connVars
<1>9. CASE GraceExpires(x)
  BY <1>9, <1>0 DEF GraceExpires, WinsResolution, ToDraining, NsTyped, AnnounceTyped, CleanupTyped, Life, Unused, Teardown, OneDispatcher, Draining, InFlight, Dispatchers, Retiring, Stopping, loopVars, connVars
<1>10. CASE ClaimName(x)
  BY <1>10, <1>0 DEF ClaimName, AnnounceOver, Cancelled, Fixed, NsTyped, AnnounceTyped, CleanupTyped, Life, Unused, Teardown, OneDispatcher, Draining, InFlight, Dispatchers, Retiring, Stopping, loopVars, connVars
<1>11. CASE Resolve(x)
  BY <1>11, <1>0 DEF Resolve, AnnounceOver, WinsResolution, ToDraining, NsTyped, AnnounceTyped, CleanupTyped, Life, Unused, Teardown, OneDispatcher, Draining, InFlight, Dispatchers, Retiring, Stopping, loopVars, connVars
<1>12. CASE CancelTimer(x)
  BY <1>12, <1>0 DEF CancelTimer, AnnounceOver, Cancelled, NsTyped, AnnounceTyped, CleanupTyped, Life, Unused, Teardown, OneDispatcher, Draining, InFlight, Dispatchers, Retiring, Stopping, loopVars, connVars
<1>13. ASSUME NEW d \in {"timer", "announce"}, DrainNext(x, d)
      PROVE  OneDispatcher(x)'
  <2>1. /\ nsState[x].at = "Draining" /\ nsState'[x].at = "Draining"
        /\ UNCHANGED <<timer, announce, reader, frame, cleanup, raced>>
    BY <1>13, <1>0 DEF DrainNext, NsTyped, loopVars
  <2>2. \A e \in Dispatchers : e # d => job'[<<x, e>>] = job[<<x, e>>]
    BY <1>13, <1>0 DEF DrainNext
  <2>3. cleanup[x].at \in {"no", "abort"}
    BY <1>0, <2>1 DEF Life, CleanupTyped, Cleanups
  <2>4. (d = "timer" => timer[x] \in Draining) /\ (d = "announce" => announce[x].at = "draining")
    BY <1>13 DEF DrainNext, Drains, Draining
  <2> QED BY <1>0, <2>1, <2>2, <2>3, <2>4 DEF OneDispatcher, Dispatchers
<1>14. ASSUME NEW d \in {"timer", "announce"}, DrainEnds(x, d)
      PROVE  OneDispatcher(x)'
  <2>1. /\ job[<<x, d>>] = Idle /\ UNCHANGED <<reader, frame, cleanup, raced, job>>
        /\ nsState[x].at = "Draining" => nsState'[x].at = "Resolved"
        /\ nsState[x].at # "Draining" => nsState'[x].at = nsState[x].at
    BY <1>14, <1>0 DEF DrainEnds, NsTyped, loopVars
  <2>2. /\ d = "timer" => timer[x] \in Draining /\ timer'[x] = "off" /\ announce' = announce
        /\ d = "announce" => announce[x].at = "draining" /\ announce'[x].at = "cancel" /\ timer' = timer
    BY <1>14, <1>0 DEF DrainEnds, Drains, Draining, AnnounceTyped
  <2>3. "off" \notin Draining
    BY DEF Draining
  <2>4. InFlight(x)' <=> InFlight(x)
    BY <2>1 DEF InFlight
  <2> QED BY <1>0, <2>1, <2>2, <2>3, <2>4 DEF OneDispatcher
<1>15. CASE TimerDropped(x)
  BY <1>15, <1>0 DEF TimerDropped, Awaits, NsTyped, AnnounceTyped, CleanupTyped, Life, Unused, Teardown, OneDispatcher, Draining, InFlight, Dispatchers, Retiring, Stopping, loopVars, connVars
<1>16. CASE AbortResolution(x)
  BY <1>16, <1>0 DEF AbortResolution, Step, ConnectionNamespace, Fixed, NsTyped, AnnounceTyped, CleanupTyped, Life, Unused, Teardown, OneDispatcher, Draining, InFlight, Dispatchers, Retiring, Stopping, loopVars, connVars
<1>17. CASE Snapshot(x)
  BY <1>17, <1>0 DEF Snapshot, NsTyped, AnnounceTyped, CleanupTyped, Life, Unused, Teardown, OneDispatcher, Draining, InFlight, Dispatchers, Retiring, Stopping, loopVars, connVars
<1>17a. CASE SnapshotExternal(x)
  BY <1>17a, <1>0 DEF SnapshotExternal, NsTyped, AnnounceTyped, CleanupTyped, Life, Unused, Teardown, OneDispatcher, Draining, InFlight, Dispatchers, Retiring, Stopping, loopVars, connVars
<1>18. ASSUME NEW f \in Fn, CleanupRelease(x, f)
      PROVE  OneDispatcher(x)'
  BY <1>18, <1>0 DEF CleanupRelease, ConnectionNamespace, Fixed, NsTyped, AnnounceTyped, CleanupTyped, Life, Unused, Teardown, OneDispatcher, Draining, InFlight, Dispatchers, Retiring, Stopping, loopVars, connVars
<1>19. CASE CleanupDropLease(x)
  BY <1>19, <1>0 DEF CleanupDropLease, NsTyped, AnnounceTyped, CleanupTyped, Life, Unused, Teardown, OneDispatcher, Draining, InFlight, Dispatchers, Retiring, Stopping, loopVars, connVars
<1>20. CASE CleanupName(x)
  BY <1>20, <1>0 DEF CleanupName, Step, NsTyped, AnnounceTyped, CleanupTyped, Life, Unused, Teardown, OneDispatcher, Draining, InFlight, Dispatchers, Retiring, Stopping, loopVars, connVars
<1>21. CASE CleanupUnregister(x)
  BY <1>21, <1>0 DEF CleanupUnregister, Step, NsTyped, AnnounceTyped, CleanupTyped, Life, Unused, Teardown, OneDispatcher, Draining, InFlight, Dispatchers, Retiring, Stopping, loopVars, connVars
<1>22. CASE CleanupForget(x)
  BY <1>22, <1>0 DEF CleanupForget, Step, Cancelled, Unknown, NsTyped, AnnounceTyped, CleanupTyped, Life, Unused, Teardown, OneDispatcher, Draining, InFlight, Dispatchers, Retiring, Stopping, loopVars, connVars
<1>23. ASSUME NEW d \in Dispatchers, Dispatch(x, d)
      PROVE  OneDispatcher(x)'
  <2>1. /\ job[<<x, d>>] # Idle /\ \A e \in Dispatchers : e # d => job'[<<x, e>>] = job[<<x, e>>]
        /\ UNCHANGED <<timer, announce, reader, frame, nsState, cleanup, raced>>
    BY <1>23, DispatchesOwn
  <2>2. InFlight(x)
    BY <2>1 DEF InFlight
  <2>3. InFlight(x)' => raced'[x] \/ cleanup'[x].at \in {"no", "abort"}
    BY <1>0, <2>1, <2>2 DEF OneDispatcher
  <2> QED BY <1>0, <2>1, <2>3 DEF OneDispatcher, Dispatchers
<1> QED BY <1>1, <1>2, <1>3, <1>4, <1>5, <1>6, <1>7, <1>8, <1>9, <1>10, <1>11, <1>12, <1>13, <1>14, <1>15, <1>16, <1>17, <1>17a, <1>18, <1>19, <1>20, <1>21, <1>22, <1>23 DEF Steps, ReadLoop, Resolution, Cleanup

\* Every step keeps lives, evictions and dispatches in order.
LEMMA PipelineStep ==
  ASSUME Typed, Pipeline, NEW x \in Conn, Steps(x)
  PROVE  Pipeline'
  BY PipelineOthers, LifeOwn, OneDispatcherOwn, RetiringStep DEF Pipeline

-----------------------------------------------------------------------------
(* What has been sent. *)

\* A message read is the last of the log.
LEMMA Recorded ==
  ASSUME Typed, NEW x \in Conn, NEW m \in Message, Reads(x, m)
  PROVE  /\ arrived[x] \in Seq(Message) /\ Len(arrived'[x]) = Len(arrived[x]) + 1
         /\ arrived'[x][Len(arrived[x]) + 1] = m
         /\ \A i \in 1 .. Len(arrived[x]) : arrived'[x][i] = arrived[x][i]
<1>1. arrived \in [Conn -> Seq(Message)] /\ arrived[x] \in Seq(Message)
  BY DEF Typed, LogTyped
<1>2. arrived'[x] = Append(arrived[x], m)
  BY <1>1 DEF Reads
<1> QED BY <1>1, <1>2

\* What a request adds to what was asked about each function.
LEMMA RequestRecorded ==
  ASSUME Typed, NEW x \in Conn, NEW m \in Request, Receive(x, m), NEW f
  PROVE  /\ m.f = f => About(x, f)' = About(x, f) \cup {Len(arrived[x]) + 1}
         /\ m.f # f => About(x, f)' = About(x, f)
         /\ Len(arrived[x]) \in Nat /\ arrived'[x][Len(arrived[x]) + 1] = m
         /\ \A i \in About(x, f) : i \in Nat /\ i <= Len(arrived[x]) /\ arrived'[x][i] = arrived[x][i]
<1>1. m \in Message /\ Reads(x, m)
  BY DEF Receive, Message
<1>2. /\ arrived[x] \in Seq(Message) /\ Len(arrived'[x]) = Len(arrived[x]) + 1
      /\ arrived'[x][Len(arrived[x]) + 1] = m
      /\ \A i \in 1 .. Len(arrived[x]) : arrived'[x][i] = arrived[x][i]
  BY <1>1, Recorded
<1>3. PICK n \in Nat : n = Len(arrived[x])
  BY <1>2
<1>4. \A i \in 1 .. n + 1 : i = n + 1 \/ i \in 1 .. n
  OBVIOUS
<1>5. m.f = f => About(x, f)' = About(x, f) \cup {n + 1}
  BY <1>2, <1>3, <1>4 DEF About
<1>6. m.f # f => About(x, f)' = About(x, f)
  BY <1>2, <1>3, <1>4 DEF About
<1>7. \A i \in About(x, f) : i \in 1 .. n
  BY <1>3 DEF About
<1> QED BY <1>2, <1>3, <1>5, <1>6, <1>7

\* Only a registration changes what was asked about a function.
LEMMA OtherwiseRecorded ==
  ASSUME Typed, NEW x \in Conn, Steps(x), NEW c \in Conn, NEW f, ~(c = x /\ \E m \in Request : Receive(x, m))
  PROVE  About(c, f)' = About(c, f) /\ \A i \in About(c, f) : arrived'[c][i] = arrived[c][i]
<1>1. CASE arrived'[c] = arrived[c]
  BY <1>1 DEF About
<1>2. ASSUME NEW m \in Message \ Request, Reads(x, m), c = x
      PROVE  About(c, f)' = About(c, f) /\ \A i \in About(c, f) : arrived'[c][i] = arrived[c][i]
  <2>1. /\ arrived[x] \in Seq(Message) /\ Len(arrived'[x]) = Len(arrived[x]) + 1
        /\ arrived'[x][Len(arrived[x]) + 1] = m
        /\ \A i \in 1 .. Len(arrived[x]) : arrived'[x][i] = arrived[x][i]
    BY <1>2, Recorded
  <2>2. PICK n \in Nat : n = Len(arrived[x])
    BY <2>1
  <2>3. \A i \in 1 .. n + 1 : i = n + 1 \/ i \in 1 .. n
    OBVIOUS
  <2> QED BY <1>2, <2>1, <2>2, <2>3 DEF About
<1>3. CASE c # x
  BY <1>1, <1>3, LogStep
<1> QED BY <1>1, <1>2, <1>3, LogWriters DEF Hears, Announce, Reattach

\* What was sent, or refused, stays sent or refused.
LEMMA Remembered ==
  ASSUME Typed, NEW x \in Conn, Steps(x), NEW c \in Conn, NEW f
  PROVE  (Sent(c, f) => Sent(c, f)') /\ (Refused(c, f) => Refused(c, f)')
<1>1. CASE \E m \in Request : c = x /\ Receive(x, m)
  <2>1. PICK m \in Request : c = x /\ Receive(x, m)
    BY <1>1
  <2>2. (About(x, f)' = About(x, f) \cup {Len(arrived[x]) + 1} \/ About(x, f)' = About(x, f))
        /\ \A i \in About(x, f) : arrived'[x][i] = arrived[x][i]
    <3>1. CASE m.f = f
      BY <2>1, <3>1, RequestRecorded
    <3>2. CASE m.f # f
      BY <2>1, <3>2, RequestRecorded
    <3> QED BY <3>1, <3>2
  <2>3. About(c, f) \subseteq About(c, f)' /\ \A i \in About(c, f) : arrived'[c][i] = arrived[c][i]
    BY <2>1, <2>2 DEF About
  <2> QED BY <2>3 DEF Sent, Refused
<1>2. CASE ~(c = x /\ \E m \in Request : Receive(x, m))
  <2>1. About(c, f)' = About(c, f) /\ \A i \in About(c, f) : arrived'[c][i] = arrived[c][i]
    BY <1>2, OtherwiseRecorded
  <2> QED BY <2>1 DEF Sent, Refused
<1> QED BY <1>1, <1>2

\* A dispatch is about one function to its end.
LEMMA JobAfter ==
  ASSUME Typed, NEW x \in Conn, NEW d \in Dispatchers, Dispatch(x, d)
  PROVE  /\ job[<<x, d>>] # Idle /\ IsJob(job[<<x, d>>])
         /\ job'[<<x, d>>] = Idle \/ (/\ job'[<<x, d>>].f = job[<<x, d>>].f
                                      /\ job'[<<x, d>>].op \in {job[<<x, d>>].op, "external", "regular"})
         /\ \A e \in Dispatchers : e # d => job'[<<x, e>>] = job[<<x, e>>]
<1>0. <<x, d>> \in DOMAIN job /\ DOMAIN job = Conn \X Dispatchers
  BY DEF Typed, JobTyped
<1>1. job[<<x, d>>] # Idle /\ IsJob(job[<<x, d>>])
  BY JobMoves
<1>2. \A e \in Dispatchers : e # d => job'[<<x, e>>] = job[<<x, e>>]
  BY <1>0, JobMoves
<1>3. job'[<<x, d>>] = Idle \/ (/\ job'[<<x, d>>].f = job[<<x, d>>].f
                                /\ job'[<<x, d>>].op \in {job[<<x, d>>].op, "external", "regular"})
  BY <1>0 DEF Dispatch, BeginRegister, ClaimFunction, WriteFunction, NoteFunction, BeginUnregister, ReleaseFunction, DropLease, Goto, Finish
<1> QED BY <1>1, <1>2, <1>3

\* Nothing with a refused URL is under way that was not sent.
LEMMA RefusalStep ==
  ASSUME Typed, Refusal, NEW x \in Conn, Steps(x)
  PROVE  Refusal'
<1> SUFFICES ASSUME NEW c \in Conn PROVE Refusals(c)'
  BY DEF Refusal
<1>0. Refusals(c) /\ Refusals(x) /\ \A f : Sent(c, f) => Sent(c, f)'
  BY Remembered DEF Refusal
<1>1. CASE nsState'[c].queue = nsState[c].queue /\ frame'[c] \in {frame[c], Idle}
           /\ \A d \in Dispatchers : job'[<<c, d>>] \in {job[<<c, d>>], Idle}
  BY <1>0, <1>1 DEF Refusals
<1>2. CASE c # x
  BY <1>1, <1>2, Besides DEF Beside
<1>3. ASSUME NEW m \in Request, Receive(x, m), c = x
      PROVE  Refusals(c)'
  <2>1. frame'[x] = m /\ UNCHANGED <<nsState, job>>
    BY <1>3 DEF Receive, Typed, FrameTyped, connVars
  <2>2. m.op = "registerInvalid" => Sent(x, m.f)'
    <3>1. PICK g : g = m.f
      OBVIOUS
    <3>2. /\ About(x, g)' = About(x, g) \cup {Len(arrived[x]) + 1}
          /\ arrived'[x][Len(arrived[x]) + 1] = m
      BY <1>3, <3>1, RequestRecorded
    <3>3. m.op = "registerInvalid" => Sent(x, g)'
      BY <3>2 DEF Sent
    <3> QED BY <3>1, <3>3 DEF Sent, About
  <2> QED BY <1>0, <1>3, <2>1, <2>2 DEF Refusals
<1>4. CASE Route(x) /\ c = x
  <2>1. frame[x] \in Request /\ frame[x] # Idle /\ frame' = [frame EXCEPT ![x] = Idle] /\ frame'[x] = Idle
    BY <1>4 DEF Route, Typed, FrameTyped
  <2>2. frame[x].op = "registerInvalid" => Sent(x, frame[x].f)
    BY <1>0, <2>1 DEF Refusals
  <2>3. CASE UNCHANGED <<nsState, job>>
    BY <1>0, <1>4, <2>1, <2>3 DEF Refusals
  <2>4. CASE UNCHANGED job /\ nsState' = [nsState EXCEPT ![x].queue = Append(@, frame[x])]
    <3>1. PICK q \in Seq(Request) : q = nsState[x].queue
      BY DEF Typed, NsTyped
    <3>2. nsState'[x].queue = Append(q, frame[x])
      BY <2>4, <3>1 DEF Typed, NsTyped
    <3>3. \A i \in 1 .. Len(Append(q, frame[x])) :
            (i \in 1 .. Len(q) /\ Append(q, frame[x])[i] = q[i]) \/ Append(q, frame[x])[i] = frame[x]
      BY <2>1
    <3> QED BY <1>0, <1>4, <2>1, <2>2, <2>4, <3>1, <3>2, <3>3 DEF Refusals
  <2>5. CASE UNCHANGED nsState /\ job' = [job EXCEPT ![<<x, "reader">>] = [op |-> frame[x].op, f |-> frame[x].f, at |-> "begin"]]
    <3>1. /\ \A d \in Dispatchers : d # "reader" => job'[<<x, d>>] = job[<<x, d>>]
          /\ job'[<<x, "reader">>].op = frame[x].op /\ job'[<<x, "reader">>].f = frame[x].f
      BY <2>5 DEF Typed, JobTyped, Dispatchers
    <3> QED BY <1>0, <1>4, <2>1, <2>2, <2>5, <3>1 DEF Refusals
  <2> QED BY <1>4, <2>3, <2>4, <2>5 DEF Route
<1>5. ASSUME NEW d \in {"timer", "announce"}, DrainNext(x, d), c = x
      PROVE  Refusals(c)'
  <2>1. PICK q \in Seq(Request) : q = nsState[x].queue
    BY DEF Typed, NsTyped
  <2>2. q # <<>> /\ nsState'[x].queue = Tail(q) /\ UNCHANGED frame
    BY <1>5, <2>1 DEF DrainNext, Typed, NsTyped, loopVars
  <2>3. /\ \A e \in Dispatchers : e # d => job'[<<x, e>>] = job[<<x, e>>]
        /\ job'[<<x, d>>].op = Head(q).op /\ job'[<<x, d>>].f = Head(q).f
    BY <1>5, <2>1 DEF DrainNext, Typed, JobTyped, Dispatchers
  <2>4. Head(q) = q[1] /\ 1 \in 1 .. Len(q) /\ \A i \in 1 .. Len(Tail(q)) : i + 1 \in 1 .. Len(q) /\ Tail(q)[i] = q[i + 1]
    BY <2>2, HeadTail
  <2>5. Head(q).op = "registerInvalid" => Sent(x, Head(q).f)
    BY <1>0, <2>1, <2>4 DEF Refusals
  <2>6. \A i \in 1 .. Len(Tail(q)) : Tail(q)[i].op = "registerInvalid" => Sent(x, Tail(q)[i].f)
    BY <1>0, <2>1, <2>4 DEF Refusals
  <2> QED BY <1>0, <1>5, <2>2, <2>3, <2>5, <2>6 DEF Refusals
<1>6. ASSUME NEW d \in Dispatchers, Dispatch(x, d), c = x
      PROVE  Refusals(c)'
  <2>1. UNCHANGED <<nsState, frame>>
    BY <1>6 DEF Dispatch, BeginRegister, ClaimFunction, WriteFunction, NoteFunction, BeginUnregister, ReleaseFunction, DropLease, connVars, loopVars
  <2>2. ASSUME NEW e \in Dispatchers, job'[<<x, e>>] # Idle, job'[<<x, e>>].op = "registerInvalid"
        PROVE  Sent(x, job'[<<x, e>>].f)
    <3>1. job[<<x, e>>] # Idle /\ job[<<x, e>>].op = "registerInvalid" /\ job[<<x, e>>].f = job'[<<x, e>>].f
      BY <1>6, <2>2, JobAfter
    <3> QED BY <1>0, <3>1 DEF Refusals
  <2>3. ASSUME NEW e \in Dispatchers, job'[<<x, e>>] # Idle, job'[<<x, e>>].op = "registerInvalid"
        PROVE  Sent(x, job[<<x, e>>].f)'
    <3>1. PICK f : f = job'[<<x, e>>].f
      OBVIOUS
    <3>2. Sent(x, f)'
      BY <1>0, <1>6, <2>2, <2>3, <3>1
    <3> QED BY <3>1, <3>2 DEF Sent, About
  <2> QED BY <1>0, <1>6, <2>1, <2>3 DEF Refusals
<1>7. CASE TimerDropped(x)
  <2>1. UNCHANGED <<nsState, frame>> /\ \A d \in Dispatchers : job'[<<x, d>>] \in {job[<<x, d>>], Idle}
    BY <1>7 DEF TimerDropped, Typed, JobTyped, loopVars
  <2> QED BY <1>1, <1>2, <2>1
<1>8. ASSUME UNCHANGED job, c = x, ~Route(x), ~\E m \in Request : Receive(x, m)
      PROVE  Refusals(c)'
  <2>1. frame' = frame
    BY <1>8, TaskWriters DEF Hears, Loops, Announce, Reattach, loopVars, Connect, EndLoop, RetireTimeout, Retired, CleanupUnregister
  <2>2. CASE nsState'[x].queue = nsState[x].queue
    BY <1>1, <1>8, <2>1, <2>2
  <2>3. CASE nsState'[x].queue = <<>>
    BY <1>0, <1>8, <2>1, <2>3 DEF Refusals
  <2>4. NsTyped
    BY DEF Typed
  <2>5. nsState'[x].queue \in {nsState[x].queue, <<>>}
    <3>1. Connect(x) \/ AbortResolution(x) \/ CleanupForget(x) => nsState'[x].queue = <<>>
      BY <2>4 DEF Connect, AbortResolution, CleanupForget, Unknown, NsTyped
    <3>2. GraceExpires(x) \/ Resolve(x) => nsState'[x].queue = nsState[x].queue
      BY <2>4 DEF GraceExpires, Resolve, ToDraining, NsTyped
    <3>3. ASSUME NEW d \in {"timer", "announce"}, DrainEnds(x, d)
          PROVE  nsState'[x].queue = nsState[x].queue
      BY <2>4, <3>3 DEF DrainEnds, NsTyped
    <3>4. ASSUME NEW d \in {"timer", "announce"}, DrainNext(x, d)
          PROVE  FALSE
      <4>1. job'[<<x, d>>] # Idle /\ job[<<x, d>>] = Idle
        BY <3>4 DEF DrainNext, Typed, JobTyped, Dispatchers, Idle
      <4> QED BY <1>8, <4>1
    <3> QED BY <1>8, <3>1, <3>2, <3>3, <3>4, NsWriters DEF Takes
  <2> QED BY <2>2, <2>3, <2>5
<1> QED BY <1>2, <1>3, <1>4, <1>5, <1>6, <1>7, <1>8, JobWriters DEF Works

-----------------------------------------------------------------------------
(* What a live connection holds. *)

\* A connection is live from its connecting until its teardown has aborted
\* the resolution of its namespace.
LEMMA LiveIs ==
  ASSUME Typed, Pipeline, NEW c \in Conn
  PROVE  /\ Live(c) <=> reader[c] # "new" /\ cleanup[c].at \in {"no", "abort"}
         /\ Live(c) => nsState[c].at \in {"Pending", "Draining", "Resolved"}
<1>1. Life(c) /\ nsState[c].at \in NsStates /\ cleanup[c].at \in Cleanups
  BY DEF Pipeline, Typed, NsTyped, CleanupTyped
<1> QED BY <1>1 DEF Life, Live, TearingDown, NsStates, Cleanups, Teardown, Unused

\* Who has a registration in hand has a namespace and, while it is live, no
\* other registration in hand; no teardown meets it unseen.
LEMMA Busy ==
  ASSUME Typed, Pipeline, NEW c \in Conn, NEW d \in Dispatchers, job[<<c, d>>] # Idle
  PROVE  /\ reader[c] # "new" /\ nsState[c].at # "Pending"
         /\ Live(c) => /\ nsState[c].at \in {"Draining", "Resolved"} /\ ConnectionNamespace(c) = nsState[c].ns
                       /\ \A e \in Dispatchers : e # d => job[<<c, e>>] = Idle
         /\ ~raced[c] => Live(c)
<1>1. Life(c) /\ OneDispatcher(c)
  BY DEF Pipeline
<1>2. reader[c] # "new" /\ nsState[c].at # "Pending"
  BY <1>1 DEF Life, Unused, OneDispatcher, Draining, Dispatchers
<1>3. Live(c) => nsState[c].at \in {"Draining", "Resolved"}
  BY <1>2, LiveIs
<1>4. ~raced[c] => Live(c)
  BY <1>1, <1>2, LiveIs DEF OneDispatcher, InFlight
<1>5. Live(c) => \A e \in Dispatchers : e # d => job[<<c, e>>] = Idle
  BY <1>1, <1>3 DEF OneDispatcher, Dispatchers
<1> QED BY <1>2, <1>3, <1>4, <1>5 DEF ConnectionNamespace, Fixed

\* A connection that is still new, or whose namespace is open, serves nothing.
LEMMA UntouchedStep ==
  ASSUME Typed, Pipeline, Untouched, NEW x \in Conn, Steps(x)
  PROVE  Untouched'
<1> SUFFICES ASSUME NEW c \in Conn, reader'[c] = "new" \/ nsState'[c].at = "Pending"
             PROVE  Idles(c)'
  BY DEF Untouched, Fresh
<1>0. Moves(x) /\ TableTyped /\ NoOne \notin Conn
  BY TableStep, WorkerConnectionsAssumption DEF Typed
<1>1. CASE c # x
  <2>1. Idles(c)
    BY <1>1, Besides DEF Beside, Untouched, Fresh
  <2> QED BY <1>0, <1>1, <2>1, Besides DEF Beside, Idles, Moves
<1>2. ASSUME c = x, Works(x)
      PROVE  FALSE
  <2>1. PICK d \in Dispatchers : Dispatch(x, d)
    BY <1>2 DEF Works
  <2>2. reader[x] # "new" /\ nsState[x].at # "Pending"
    BY <2>1, JobMoves, Busy
  <2>3. UNCHANGED nsState
    BY <2>1 DEF Dispatch, BeginRegister, ClaimFunction, WriteFunction, NoteFunction, BeginUnregister, ReleaseFunction, DropLease, connVars
  <2> QED BY <1>2, <2>2, <2>3, Onward
<1>3. ASSUME c = x, ~Works(x)
      PROVE  Idles(c)'
  <2>1. reader[x] = "new" \/ nsState[x].at = "Pending"
    <3>0. NsTyped
      BY DEF Typed
    <3>1. CASE reader'[x] = "new"
      BY <3>1, Onward
    <3>2. Connect(x) => reader[x] = "new"
      BY DEF Connect
    <3>3. Route(x) => nsState'[x].at = nsState[x].at
      BY <3>0 DEF Route, NsTyped
    <3>4. GraceExpires(x) \/ Resolve(x) => nsState'[x].at = "Draining" \/ nsState'[x].at = nsState[x].at
      BY <3>0 DEF GraceExpires, Resolve, ToDraining, NsTyped
    <3>5. AbortResolution(x) \/ CleanupForget(x) => nsState'[x].at \in {"Aborted", "Unknown"}
      BY <3>0 DEF AbortResolution, CleanupForget, Unknown, NsTyped
    <3>6. Takes(x) => nsState'[x].at = "Resolved" \/ nsState'[x].at = nsState[x].at
      BY <3>0 DEF Takes, DrainNext, DrainEnds, NsTyped
    <3> QED BY <1>3, <3>1, <3>2, <3>3, <3>4, <3>5, <3>6, NsWriters
  <2>2. Idles(x)
    BY <2>1 DEF Untouched, Fresh
  <2>3. \A k \in Keys : functions'[k] = functions[k] \/ functions'[k] = NoOne
    <3>1. CASE \E f \in Fn : CleanupRelease(x, f)
      BY <1>0, <3>1 DEF CleanupRelease, TableTyped
    <3>2. CASE UNCHANGED functions
      BY <3>2
    <3> QED BY <1>3, <3>1, <3>2, TableWriters DEF CleanupDropLease
  <2>4. ids'[x] = ids[x]
    BY <1>3, TableWriters DEF CleanupRelease, CleanupDropLease
  <2> QED BY <1>0, <1>3, <2>2, <2>3, <2>4 DEF Idles
<1> QED BY <1>1, <1>2, <1>3

\* A step of another connection takes nothing from a live one.
LEMMA HoldingOthers ==
  ASSUME Typed, Pipeline, NEW x \in Conn, Steps(x), NEW c \in Conn, c # x, Live(c), Holding(c)
  PROVE  Holding(c)'
<1>0. /\ Beside(c) /\ Moves(x) /\ TableTyped /\ JobTyped /\ NsTyped /\ NoOne \notin Conn
      /\ \A f : Refused(c, f) => Refused(c, f)'
  BY Besides, TableStep, Remembered, WorkerConnectionsAssumption DEF Typed
<1>1. \A k \in Keys : owners[k] = c => owners'[k] = c /\ (functions[k] # NoOne => functions'[k] # NoOne)
  BY <1>0 DEF Moves, MayClaim
<1>2. \A k \in Keys : functions'[k] = c => functions[k] = c
  BY <1>0 DEF Moves
<1>3. nsState'[c] = nsState[c] /\ ids'[c] = ids[c] /\ ids[c] \subseteq Fn /\ nsState[c].ns \in Namespace
  BY <1>0 DEF Beside, TableTyped, NsTyped
<1>4. Counted(c)'
  <2> SUFFICES ASSUME NEW f \in ids[c], ~Refused(c, f)'
               PROVE  owners'[<<nsState[c].ns, f>>] = c /\ functions'[<<nsState[c].ns, f>>] # NoOne
    BY <1>3 DEF Counted
  <2>1. <<nsState[c].ns, f>> \in Keys
    BY <1>3 DEF Keys
  <2>2. owners[<<nsState[c].ns, f>>] = c /\ functions[<<nsState[c].ns, f>>] # NoOne
    BY <1>0 DEF Holding, Counted
  <2> QED BY <1>1, <2>1, <2>2
<1>5. Serving(c)'
  BY <1>0, <1>1, <1>2, <1>3 DEF Holding, Serving
<1>6. Working(c)'
  <2> SUFFICES ASSUME NEW d \in Dispatchers, job[<<c, d>>] # Idle
               PROVE  InHand(c, d)'
    BY <1>0 DEF Working, Beside
  <2>1. PICK j : j = job[<<c, d>>] /\ j = job'[<<c, d>>]
    BY <1>0 DEF Beside
  <2>2. IsJob(j)
    BY <1>0, <2>1 DEF JobTyped
  <2>3. InHand(c, d)
    BY DEF Holding, Working
  <2>4. j.at # "begin" => <<j.ns, j.f>> \in Keys
    BY <2>2 DEF IsJob, Keys
  <2> QED BY <1>1, <1>2, <1>3, <2>1, <2>3, <2>4 DEF InHand, KeyOf, Claimed, Leaving
<1> QED BY <1>4, <1>5, <1>6 DEF Holding

\* From its first step on, a teardown is no longer waiting to begin.
LEMMA CleanupEnds ==
  ASSUME Typed, NEW x \in Conn, Cleanup(x)
  PROVE  cleanup'[x].at \notin {"no", "abort"}
<1>1. CleanupTyped
  BY DEF Typed
<1>2. AbortResolution(x) \/ CleanupName(x) \/ CleanupUnregister(x) \/ CleanupForget(x) =>
        cleanup'[x].at \in {"snapshot", "unregister", "forget", "done"}
  BY <1>1 DEF AbortResolution, CleanupName, CleanupUnregister, CleanupForget, Step, CleanupTyped
<1>3. Snapshot(x) \/ SnapshotExternal(x) \/ CleanupDropLease(x) => cleanup'[x].at \in {"snapshotExternal", "release"}
  BY <1>1 DEF Snapshot, SnapshotExternal, CleanupDropLease, CleanupTyped
<1>4. ASSUME NEW f \in Fn, CleanupRelease(x, f)
      PROVE  cleanup'[x].at \in {"release", "external"}
  BY <1>1, <1>4 DEF CleanupRelease, CleanupTyped
<1> QED BY <1>2, <1>3, <1>4 DEF Cleanup

\* A connection becomes live by connecting only.
LEMMA LiveFrom ==
  ASSUME Typed, Pipeline, NEW x \in Conn, Steps(x), NEW c \in Conn, Live(c)'
  PROVE  Live(c) \/ (c = x /\ Connect(x))
<1>0. Typed' /\ Pipeline'
  BY TypedStep, PipelineStep
<1>1. (Live(c) <=> reader[c] # "new" /\ cleanup[c].at \in {"no", "abort"})'
  BY <1>0, LiveIs, PTL
<1>2. CASE c # x
  BY <1>1, <1>2, LiveIs, Besides DEF Beside, Started
<1>3. CASE c = x /\ ~Connect(x)
  <2>0. CleanupTyped
    BY DEF Typed
  <2>1. reader[x] # "new"
    BY <1>1, <1>3, TaskWriters DEF Hears, Loops, Receive, Announce, Reattach, Reads, Reading, loopVars,
         Route, EndLoop, RetireTimeout, Retired, CleanupUnregister
  <2>2. cleanup[x].at \in {"no", "abort"}
    <3>1. ASSUME NEW y, StartCleanup(y)
          PROVE  cleanup'[x].at = cleanup[x].at \/ cleanup[x].at = "no"
      BY <2>0, <3>1 DEF StartCleanup, CleanupTyped
    <3>2. AbortResolution(x) => cleanup[x].at = "abort"
      BY DEF AbortResolution
    <3>3. Cleanup(x) /\ ~AbortResolution(x) => cleanup'[x].at \notin {"no", "abort"}
      BY CleanupEnds
    <3> QED BY <1>1, <1>3, <3>1, <3>2, <3>3, TaskWriters DEF EndLoop, RetireTimeout
  <2> QED BY <1>3, <2>1, <2>2, LiveIs
<1> QED BY <1>2, <1>3

\* A step of x that touches no table, and dispatches nothing further than its
\* beginning, leaves x what it holds.
LEMMA HoldingQuiet ==
  ASSUME Typed, NEW x \in Conn, Steps(x), Holding(x), UNCHANGED <<owners, functions, ids>>,
         nsState'[x].ns = nsState[x].ns,
         \A d \in Dispatchers : job'[<<x, d>>] \in {job[<<x, d>>], Idle} \/ job'[<<x, d>>].at = "begin"
  PROVE  Holding(x)'
<1>0. \A f : Refused(x, f) => Refused(x, f)'
  BY Remembered
<1>1. Counted(x)' /\ Serving(x)'
  BY <1>0 DEF Holding, Counted, Serving
<1>2. Working(x)'
  BY DEF Holding, Working, InHand, KeyOf, Claimed, Leaving
<1> QED BY <1>1, <1>2 DEF Holding

\* The namespace is settled only while x serves nothing.
LEMMA HoldingNothing ==
  ASSUME Typed, Pipeline, NEW x \in Conn, Idles(x), UNCHANGED <<functions, ids, job>>,
         reader[x] = "new" \/ nsState[x].at = "Pending"
  PROVE  Holding(x)'
<1>1. \A d \in Dispatchers : job[<<x, d>>] = Idle
  BY Busy
<1> QED BY <1>1 DEF Idles, Holding, Counted, Serving, Working

\* A step of a dispatch keeps, for its own connection, each function counted
\* with its lease and its handler.
LEMMA HoldingDispatch ==
  ASSUME Typed, Pipeline, Refusal, NEW x \in Conn, NEW d \in Dispatchers, Dispatch(x, d), Live(x), Holding(x)
  PROVE  Holding(x)'
<1> DEFINE j == job[<<x, d>>]
<1>0. /\ TableTyped /\ NsTyped /\ JobTyped /\ NoOne \notin Conn /\ Steps(x)
      /\ \A f : Refused(x, f) => Refused(x, f)'
  <2>1. Steps(x)
    BY DEF Steps
  <2> QED BY <2>1, Remembered, WorkerConnectionsAssumption DEF Typed
<1>1. /\ j # Idle /\ IsJob(j) /\ \A e \in Dispatchers : e # d => job[<<x, e>>] = Idle /\ job'[<<x, e>>] = Idle
      /\ ConnectionNamespace(x) = nsState[x].ns /\ nsState[x].ns \in Namespace /\ <<x, d>> \in DOMAIN job
      /\ UNCHANGED <<nsState, arrived>> /\ InHand(x, d) /\ ids[x] \subseteq Fn
  <2>1. j # Idle /\ IsJob(j)
    BY JobAfter
  <2>2. UNCHANGED <<nsState, arrived>>
    BY DEF Dispatch, BeginRegister, ClaimFunction, WriteFunction, NoteFunction, BeginUnregister, ReleaseFunction, DropLease, connVars
  <2>3. \A e \in Dispatchers : e # d => job[<<x, e>>] = Idle /\ job'[<<x, e>>] = Idle
    BY <2>1, Busy, JobAfter
  <2> QED BY <1>0, <2>1, <2>2, <2>3, Busy DEF JobTyped, NsTyped, TableTyped, Holding, Working
<1>w. ASSUME job'[<<x, d>>] # Idle => InHand(x, d)'
      PROVE  Working(x)'
  BY <1>1, <1>w DEF Working
<1>2a. CASE BeginRegister(x, d)
  <2>1. UNCHANGED <<owners, functions, ids>> /\ j.at = "begin"
    BY <1>2a DEF BeginRegister, Doing, fnVars
  <2>2. job'[<<x, d>>] = [op |-> j.op, f |-> j.f, at |-> "claim", ns |-> nsState[x].ns]
    BY <1>1, <1>2a DEF BeginRegister, Goto
  <2>3. InHand(x, d)'
    BY <1>1, <2>2 DEF InHand, Claimed, Leaving
  <2>4. Counted(x)' /\ Serving(x)'
    BY <1>0, <1>1, <2>1 DEF Holding, Counted, Serving
  <2> QED BY <1>w, <2>3, <2>4 DEF Holding
<1>2. CASE ClaimFunction(x, d)
  <2>1. PICK k : k = <<j.ns, j.f>>
    OBVIOUS
  <2>2. k \in Keys /\ j.ns = nsState[x].ns
    BY <1>1, <1>2, <2>1 DEF ClaimFunction, Doing, InHand, Keys, IsJob
  <2>3. CASE Finish(x, d) /\ UNCHANGED <<owners, functions, ids>>
    <3>1. job'[<<x, d>>] = Idle
      BY <1>1, <2>3 DEF Finish
    <3>2. \A e \in Dispatchers : job'[<<x, e>>] \in {job[<<x, e>>], Idle}
      BY <1>1, <3>1
    <3> QED BY <1>0, <1>1, <2>3, <3>2, HoldingQuiet
  <2>4. CASE owners' = [owners EXCEPT ![k] = x] /\ Goto(x, d, "write", k[1]) /\ UNCHANGED <<functions, ids>>
    <3>1. owners'[k] = x /\ \A l \in Keys : l # k => owners'[l] = owners[l]
      BY <1>0, <2>2, <2>4 DEF TableTyped
    <3>2. job'[<<x, d>>] = [op |-> j.op, f |-> j.f, at |-> "write", ns |-> nsState[x].ns]
      BY <1>1, <2>1, <2>2, <2>4 DEF Goto
    <3>3. InHand(x, d)'
      BY <1>1, <2>1, <2>2, <3>1, <3>2 DEF InHand, KeyOf, Claimed, Leaving
    <3>4. Counted(x)'
      <4> SUFFICES ASSUME NEW f \in ids[x], ~Refused(x, f)
                   PROVE  owners'[<<nsState[x].ns, f>>] = x /\ functions[<<nsState[x].ns, f>>] # NoOne
        BY <1>0, <1>1, <2>4 DEF Counted
      <4>1. <<nsState[x].ns, f>> \in Keys
        BY <1>1 DEF Keys
      <4> QED BY <3>1, <4>1 DEF Holding, Counted
    <3>5. Serving(x)'
      BY <1>0, <1>1, <2>4, <3>1 DEF Holding, Serving
    <3> QED BY <1>w, <3>3, <3>4, <3>5 DEF Holding
  <2> QED BY <1>1, <1>2, <2>1, <2>3, <2>4 DEF ClaimFunction, KeyOf
<1>3. CASE WriteFunction(x, d)
  <2>1. PICK k : k = <<j.ns, j.f>>
    OBVIOUS
  <2>2. k \in Keys /\ owners[k] = x /\ k[1] = nsState[x].ns /\ j.ns = nsState[x].ns /\ k[2] = j.f
    BY <1>1, <1>3, <2>1 DEF WriteFunction, Doing, InHand, KeyOf, Claimed, IsJob, Keys
  <2>3. CASE /\ j.op = "registerInvalid" /\ j.f \in External /\ UNCHANGED <<functions, ids>>
             /\ owners' = [owners EXCEPT ![k] = IF @ = x THEN NoOne ELSE @] /\ Finish(x, d)
    <3>1. \A l \in Keys : l[2] # j.f => owners'[l] = owners[l]
      BY <1>0, <2>2, <2>3 DEF TableTyped
    <3>a. PICK g : g = j.f
      OBVIOUS
    <3>b. Refused(x, g)
      BY <1>1, <2>3, <3>a DEF Refusal, Refusals, Sent, Refused
    <3>2. Refused(x, g)'
      BY <1>0, <3>b
    <3>3. job'[<<x, d>>] = Idle
      BY <1>1, <2>3 DEF Finish
    <3>4. Counted(x)'
      <4> SUFFICES ASSUME NEW f \in ids[x], ~Refused(x, f)'
                   PROVE  owners'[<<nsState[x].ns, f>>] = x /\ functions[<<nsState[x].ns, f>>] # NoOne
        BY <1>1, <2>3 DEF Counted
      <4>1. <<nsState[x].ns, f>> \in Keys /\ f # j.f /\ ~Refused(x, f)
        BY <1>0, <1>1, <3>a, <3>2 DEF Keys
      <4> QED BY <3>1, <4>1 DEF Holding, Counted
    <3>5. Serving(x)'
      <4> SUFFICES ASSUME NEW l \in Keys, functions[l] = x, ~Refused(x, l[2])'
                   PROVE  owners'[l] = x /\ l[1] = nsState[x].ns
        BY <1>1, <2>3 DEF Serving
      <4>1. l[2] # j.f /\ ~Refused(x, l[2])
        BY <1>0, <3>a, <3>2
      <4> QED BY <3>1, <4>1 DEF Holding, Serving
    <3> QED BY <1>w, <3>3, <3>4, <3>5 DEF Holding
  <2>4. CASE functions' = [functions EXCEPT ![k] = x] /\ Goto(x, d, "note", k[1]) /\ UNCHANGED <<owners, ids>>
    <3>1. functions'[k] = x /\ \A l \in Keys : l # k => functions'[l] = functions[l]
      BY <1>0, <2>2, <2>4 DEF TableTyped
    <3>2. job'[<<x, d>>] = [op |-> j.op, f |-> j.f, at |-> "note", ns |-> nsState[x].ns]
      BY <1>1, <2>2, <2>4 DEF Goto
    <3>3. InHand(x, d)'
      BY <1>0, <1>1, <2>1, <2>2, <2>4, <3>1, <3>2 DEF InHand, KeyOf, Claimed, Leaving
    <3>4. Counted(x)'
      <4> SUFFICES ASSUME NEW f \in ids[x], ~Refused(x, f)'
                   PROVE  owners[<<nsState[x].ns, f>>] = x /\ functions'[<<nsState[x].ns, f>>] # NoOne
        BY <1>1, <2>4 DEF Counted
      <4>1. <<nsState[x].ns, f>> \in Keys /\ ~Refused(x, f)
        BY <1>0, <1>1 DEF Keys
      <4> QED BY <1>0, <3>1, <4>1 DEF Holding, Counted
    <3>5. Serving(x)'
      <4> SUFFICES ASSUME NEW l \in Keys, functions'[l] = x, ~Refused(x, l[2])'
                   PROVE  owners[l] = x /\ l[1] = nsState[x].ns
        BY <1>1, <2>4 DEF Serving
      <4> QED BY <1>0, <2>2, <3>1 DEF Holding, Serving
    <3> QED BY <1>w, <3>3, <3>4, <3>5 DEF Holding
  <2> QED BY <1>3, <2>1, <2>3, <2>4 DEF WriteFunction, KeyOf
<1>4. CASE NoteFunction(x, d)
  <2>1. PICK k : k = <<j.ns, j.f>>
    OBVIOUS
  <2>2. k \in Keys /\ owners[k] = x /\ j.ns = nsState[x].ns /\ functions[k] # NoOne
    BY <1>1, <1>4, <2>1 DEF NoteFunction, Doing, InHand, KeyOf, Claimed, IsJob, Keys
  <2>3. ids'[x] = ids[x] \cup {j.f} /\ UNCHANGED <<owners, functions>> /\ job'[<<x, d>>] = Idle
    BY <1>0, <1>1, <1>4 DEF NoteFunction, Finish, TableTyped
  <2>4. Counted(x)'
    <3> SUFFICES ASSUME NEW f \in ids[x] \cup {j.f}, ~Refused(x, f)'
                 PROVE  owners[<<nsState[x].ns, f>>] = x /\ functions[<<nsState[x].ns, f>>] # NoOne
      BY <1>1, <2>3 DEF Counted
    <3> QED BY <1>0, <2>1, <2>2 DEF Holding, Counted
  <2>5. Serving(x)'
    BY <1>0, <1>1, <2>3 DEF Holding, Serving
  <2> QED BY <1>w, <2>3, <2>4, <2>5 DEF Holding
<1>5. CASE BeginUnregister(x, d)
  <2>1. ids'[x] = ids[x] \ {j.f} /\ UNCHANGED <<owners, functions>>
    BY <1>0, <1>5 DEF BeginUnregister, TableTyped
  <2>2. job'[<<x, d>>].f = j.f /\ job'[<<x, d>>].at = "release" /\ job'[<<x, d>>].ns = nsState[x].ns
    BY <1>1, <1>5 DEF BeginUnregister
  <2>3. InHand(x, d)'
    BY <1>1, <2>1, <2>2 DEF InHand, Claimed
  <2>4. Counted(x)'
    BY <1>0, <1>1, <2>1 DEF Holding, Counted
  <2>5. Serving(x)'
    BY <1>0, <1>1, <2>1 DEF Holding, Serving
  <2> QED BY <1>w, <2>3, <2>4, <2>5 DEF Holding
<1>6. CASE ReleaseFunction(x, d)
  <2>1. PICK k : k = <<j.ns, j.f>>
    OBVIOUS
  <2>2. k \in Keys /\ j.ns = nsState[x].ns /\ j.f \notin ids[x] /\ k[1] = j.ns
    BY <1>1, <1>6, <2>1 DEF ReleaseFunction, Doing, InHand, Leaving, IsJob, Keys
  <2>3. CASE Finish(x, d) /\ UNCHANGED <<owners, functions, ids>>
    <3>1. job'[<<x, d>>] = Idle
      BY <1>1, <2>3 DEF Finish
    <3>2. \A e \in Dispatchers : job'[<<x, e>>] \in {job[<<x, e>>], Idle}
      BY <1>1, <3>1
    <3> QED BY <1>0, <1>1, <2>3, <3>2, HoldingQuiet
  <2>4. ASSUME functions' = [functions EXCEPT ![k] = NoOne],
               UNCHANGED owners \/ owners' = [owners EXCEPT ![k] = NoOne], UNCHANGED ids
        PROVE  Counted(x)' /\ Serving(x)' /\ functions'[k] # x
    <3>1. functions'[k] = NoOne /\ \A l \in Keys : l # k => functions'[l] = functions[l] /\ owners'[l] = owners[l]
      BY <1>0, <2>2, <2>4 DEF TableTyped
    <3>2. Counted(x)'
      <4> SUFFICES ASSUME NEW f \in ids[x], ~Refused(x, f)'
                   PROVE  owners'[<<nsState[x].ns, f>>] = x /\ functions'[<<nsState[x].ns, f>>] # NoOne
        BY <1>1, <2>4 DEF Counted
      <4>1. <<nsState[x].ns, f>> \in Keys /\ ~Refused(x, f) /\ <<nsState[x].ns, f>> # k
        BY <1>0, <1>1, <2>1, <2>2 DEF Keys
      <4> QED BY <3>1, <4>1 DEF Holding, Counted
    <3>3. Serving(x)'
      BY <1>0, <1>1, <3>1 DEF Holding, Serving
    <3> QED BY <1>0, <3>1, <3>2, <3>3
  <2>5. CASE /\ functions' = [functions EXCEPT ![k] = NoOne] /\ UNCHANGED ids
             /\ (Goto(x, d, "drop", k[1]) /\ UNCHANGED owners) \/ (Finish(x, d) /\ owners' = [owners EXCEPT ![k] = NoOne])
    <3>1. Counted(x)' /\ Serving(x)' /\ functions'[k] # x
      BY <2>4, <2>5
    <3>2. job'[<<x, d>>] = Idle \/ job'[<<x, d>>] = [op |-> j.op, f |-> j.f, at |-> "drop", ns |-> j.ns]
      BY <1>1, <2>2, <2>5 DEF Goto, Finish
    <3>3. job'[<<x, d>>] # Idle => InHand(x, d)'
      BY <1>1, <2>1, <2>2, <2>5, <3>1, <3>2 DEF InHand, KeyOf, Claimed, Leaving
    <3> QED BY <1>w, <3>1, <3>3 DEF Holding
  <2> QED BY <1>6, <2>1, <2>3, <2>5 DEF ReleaseFunction, KeyOf
<1>7. CASE DropLease(x, d)
  <2>1. PICK k : k = <<j.ns, j.f>>
    OBVIOUS
  <2>2. k \in Keys /\ j.ns = nsState[x].ns /\ j.f \notin ids[x] /\ functions[k] # x
    BY <1>1, <1>7, <2>1 DEF DropLease, Doing, InHand, Leaving, IsJob, Keys, KeyOf
  <2>3. owners' = [owners EXCEPT ![k] = IF @ = x THEN NoOne ELSE @] /\ UNCHANGED <<functions, ids>> /\ Finish(x, d)
    BY <1>7, <2>1 DEF DropLease, KeyOf
  <2>4. job'[<<x, d>>] = Idle
    BY <1>1, <2>3 DEF Finish
  <2>5. \A l \in Keys : l # k => owners'[l] = owners[l]
    BY <1>0, <2>3 DEF TableTyped
  <2>6. Counted(x)'
    <3> SUFFICES ASSUME NEW f \in ids[x], ~Refused(x, f)'
                 PROVE  owners'[<<nsState[x].ns, f>>] = x /\ functions[<<nsState[x].ns, f>>] # NoOne
      BY <1>1, <2>3 DEF Counted
    <3>1. <<nsState[x].ns, f>> \in Keys /\ ~Refused(x, f) /\ <<nsState[x].ns, f>> # k
      BY <1>0, <1>1, <2>1, <2>2 DEF Keys
    <3> QED BY <2>5, <3>1 DEF Holding, Counted
  <2>7. Serving(x)'
    BY <1>0, <1>1, <2>2, <2>3, <2>5 DEF Holding, Serving
  <2> QED BY <1>w, <2>4, <2>6, <2>7 DEF Holding
<1> QED BY <1>2a, <1>2, <1>3, <1>4, <1>5, <1>6, <1>7 DEF Dispatch

\* Every step leaves a live connection what it counts as its own.
LEMMA OwnedStep ==
  ASSUME Typed, Pipeline, Refusal, Untouched, Owned, NEW x \in Conn, Steps(x)
  PROVE  Owned'
<1> SUFFICES ASSUME NEW c \in Conn, Live(c)' PROVE Holding(c)'
  BY DEF Owned
<1>1. CASE c # x
  BY <1>1, LiveFrom, HoldingOthers DEF Owned
<1>2. CASE c = x /\ Works(x)
  <2>1. PICK d \in Dispatchers : Dispatch(x, d)
    BY <1>2 DEF Works
  <2>2. ~Connect(x) \/ reader[x] # "new"
    BY <2>1, JobMoves, Busy
  <2>3. Live(x)
    BY <1>2, <2>2, LiveFrom DEF Connect
  <2> QED BY <1>2, <2>1, <2>3, HoldingDispatch DEF Owned
<1>3. CASE c = x /\ Cleanup(x)
  <2>1. Typed' /\ Pipeline'
    BY TypedStep, PipelineStep
  <2>2. (Live(c) <=> reader[c] # "new" /\ cleanup[c].at \in {"no", "abort"})'
    BY <2>1, LiveIs, PTL
  <2> QED BY <1>3, <2>2, CleanupEnds
<1>4. ASSUME c = x, ~Works(x), ~Cleanup(x)
      PROVE  Holding(c)'
  <2>1. UNCHANGED <<owners, functions, ids>>
    BY <1>4, TableWriters DEF Cleanup
  <2>2. NsTyped /\ JobTyped /\ CleanupTyped
    BY DEF Typed
  <2>3. CASE Connect(x) \/ GraceExpires(x) \/ Resolve(x)
    <3>1. UNCHANGED job
      BY <2>3 DEF Connect, GraceExpires, Resolve
    <3>2. CASE reader[x] = "new" \/ nsState[x].at = "Pending"
      BY <1>4, <2>1, <3>1, <3>2, HoldingNothing DEF Untouched, Fresh
    <3>3. CASE reader[x] # "new" /\ nsState[x].at # "Pending"
      <4>1. nsState'[x].ns = nsState[x].ns
        BY <2>2, <2>3, <3>3 DEF Connect, GraceExpires, Resolve, WinsResolution, NsTyped
      <4>2. Holding(x)
        BY <1>4, <3>3, LiveFrom DEF Owned, Connect
      <4> QED BY <1>4, <2>1, <3>1, <4>1, <4>2, HoldingQuiet
    <3> QED BY <3>2, <3>3
  <2>4. ASSUME ~(Connect(x) \/ GraceExpires(x) \/ Resolve(x))
        PROVE  Holding(x)'
    <3>1. nsState'[x].ns = nsState[x].ns
      <4>1. Route(x) \/ Takes(x) => nsState'[x].ns = nsState[x].ns
        BY <2>2 DEF Route, Takes, DrainNext, DrainEnds, NsTyped
      <4> QED BY <1>4, <2>4, <4>1, NsWriters DEF Cleanup
    <3>2. \A d \in Dispatchers : job'[<<x, d>>] \in {job[<<x, d>>], Idle} \/ job'[<<x, d>>].at = "begin"
      <4>1. Route(x) => \A d \in Dispatchers : job'[<<x, d>>] \in {job[<<x, d>>], Idle} \/ job'[<<x, d>>].at = "begin"
        BY <2>2 DEF Route, JobTyped
      <4>2. TimerDropped(x) => \A d \in Dispatchers : job'[<<x, d>>] \in {job[<<x, d>>], Idle}
        BY <2>2 DEF TimerDropped, JobTyped
      <4>3. ASSUME NEW e \in {"timer", "announce"}, DrainNext(x, e)
            PROVE  \A d \in Dispatchers : job'[<<x, d>>] \in {job[<<x, d>>], Idle} \/ job'[<<x, d>>].at = "begin"
        BY <2>2, <4>3 DEF DrainNext, JobTyped
      <4> QED BY <1>4, <4>1, <4>2, <4>3, JobWriters
    <3>3. Holding(x)
      BY <1>4, <2>4, LiveFrom DEF Owned
    <3> QED BY <2>1, <3>1, <3>2, <3>3, HoldingQuiet
  <2> QED BY <1>4, <2>3, <2>4
<1> QED BY <1>1, <1>2, <1>3, <1>4

-----------------------------------------------------------------------------
(* Where a lease comes from. *)

ByJob(c, k) == \E d \in Dispatchers : job[<<c, d>>] # Idle /\ job[<<c, d>>].at \notin {"begin", "claim"} /\ KeyOf(c, d) = k
ByIds(c, k) ==
  /\ k[1] = nsState[c].ns
  /\ \/ k[2] \in ids[c] /\ cleanup[c].at \in {"no", "abort", "snapshot"}
     \/ k[2] \in cleanup[c].todo \cup (ids[c] \cap External) /\ cleanup[c].at = "snapshotExternal"
     \/ k[2] \in cleanup[c].todo /\ cleanup[c].at \in {"release", "external"}
ByLease(c, k) == cleanup[c].at = "external" /\ cleanup[c].lease = k

\* Where a lease comes from, by cases.
LEMMA AccountedParts == \A c, k : Accounted(c, k) <=> ByJob(c, k) \/ ByIds(c, k) \/ ByLease(c, k)
  BY DEF Accounted, ByJob, ByIds, ByLease

\* The same of the next state.
LEMMA AccountedPartsNext == \A c, k : Accounted(c, k)' <=> ByJob(c, k)' \/ ByIds(c, k)' \/ ByLease(c, k)'
  BY DEF Accounted, ByJob, ByIds, ByLease

\* Leases of x survive its dispatches.
LEMMA LeasesDispatch ==
  ASSUME Typed, Pipeline, Owned, Leases, NEW x \in Conn, NEW d \in Dispatchers, Dispatch(x, d), ~raced[x],
         NEW k \in Keys, owners'[k] = x
  PROVE  Accounted(x, k)'
<1> DEFINE j == job[<<x, d>>]
<1>0. TableTyped /\ NsTyped /\ JobTyped /\ NoOne \notin Conn /\ NoOne # x
  BY WorkerConnectionsAssumption DEF Typed
<1>1. /\ j # Idle /\ IsJob(j) /\ Live(x) /\ (\A e \in Dispatchers : e # d => job[<<x, e>>] = Idle)
      /\ ConnectionNamespace(x) = nsState[x].ns /\ <<x, d>> \in DOMAIN job /\ InHand(x, d)
      /\ UNCHANGED <<nsState, cleanup>> /\ cleanup[x].at \in {"no", "abort"}
  <2>1. j # Idle /\ IsJob(j)
    BY JobAfter
  <2>2. UNCHANGED <<nsState, cleanup>>
    BY DEF Dispatch, BeginRegister, ClaimFunction, WriteFunction, NoteFunction, BeginUnregister, ReleaseFunction, DropLease, connVars
  <2>3. Live(x)
    BY <2>1, Busy
  <2> QED BY <1>0, <2>1, <2>2, <2>3, Busy, LiveIs DEF JobTyped, Owned, Holding, Working
<1>2. ASSUME owners[k] = x
      PROVE  (j.at \notin {"begin", "claim"} /\ <<j.ns, j.f>> = k) \/ (k[1] = nsState[x].ns /\ k[2] \in ids[x])
  <2>1. Accounted(x, k)
    BY <1>2 DEF Leases
  <2> QED BY <1>1, <2>1 DEF Accounted, KeyOf
<1>3. ASSUME k[1] = nsState[x].ns, k[2] \in ids'[x]
      PROVE  Accounted(x, k)'
  BY <1>1, <1>3 DEF Accounted
<1>4. ASSUME NEW ns, job'[<<x, d>>] # Idle, job'[<<x, d>>].at \notin {"begin", "claim"}, job'[<<x, d>>].ns = ns, job'[<<x, d>>].f = j.f,
             <<ns, j.f>> = k
      PROVE  Accounted(x, k)'
  BY <1>4 DEF Accounted, KeyOf
<1>5a. CASE BeginRegister(x, d)
  <2>1. UNCHANGED <<owners, ids>> /\ j.at = "begin"
    BY <1>5a DEF BeginRegister, Doing, fnVars
  <2> QED BY <1>2, <1>3, <2>1
<1>5. CASE ClaimFunction(x, d)
  <2>1. PICK l : l = <<j.ns, j.f>>
    OBVIOUS
  <2>2. CASE owners' = [owners EXCEPT ![l] = x] /\ Goto(x, d, "write", l[1]) /\ UNCHANGED <<functions, ids>>
    <3>1. job'[<<x, d>>] = [op |-> j.op, f |-> j.f, at |-> "write", ns |-> j.ns]
      BY <1>1, <2>1, <2>2 DEF Goto
    <3>2. job'[<<x, d>>] # Idle
      BY <3>1 DEF Idle
    <3>3. CASE k = l
      BY <1>4, <2>1, <3>1, <3>2, <3>3
    <3>4. CASE k # l
      <4>1. owners[k] = x /\ j.at = "claim"
        BY <1>0, <1>5, <2>2, <3>4 DEF TableTyped, ClaimFunction, Doing
      <4> QED BY <1>2, <1>3, <2>2, <4>1
    <3> QED BY <3>3, <3>4
  <2>3. CASE UNCHANGED <<owners, ids>>
    <3>1. j.at = "claim"
      BY <1>5 DEF ClaimFunction, Doing
    <3> QED BY <1>2, <1>3, <2>3, <3>1
  <2> QED BY <1>1, <1>5, <2>1, <2>2, <2>3 DEF ClaimFunction, KeyOf
<1>6. CASE WriteFunction(x, d)
  <2>1. PICK l : l = <<j.ns, j.f>>
    OBVIOUS
  <2>2. CASE UNCHANGED <<owners, ids>> /\ Goto(x, d, "note", l[1])
    <3>1. job'[<<x, d>>] = [op |-> j.op, f |-> j.f, at |-> "note", ns |-> j.ns]
      BY <1>1, <2>1, <2>2 DEF Goto
    <3>2. job'[<<x, d>>] # Idle
      BY <3>1 DEF Idle
    <3> QED BY <1>2, <1>3, <1>4, <2>2, <3>1, <3>2
  <2>3. CASE owners' = [owners EXCEPT ![l] = IF @ = x THEN NoOne ELSE @] /\ UNCHANGED ids
    <3>1. k # l /\ owners[k] = x
      BY <1>0, <2>3 DEF TableTyped
    <3> QED BY <1>2, <1>3, <2>1, <2>3, <3>1
  <2> QED BY <1>6, <2>1, <2>2, <2>3 DEF WriteFunction, KeyOf
<1>7. CASE NoteFunction(x, d)
  <2>1. ids'[x] = ids[x] \cup {j.f} /\ UNCHANGED owners /\ j.at = "note"
    BY <1>0, <1>7 DEF NoteFunction, Doing, TableTyped
  <2>2. j.ns = nsState[x].ns
    BY <1>1, <2>1 DEF InHand
  <2> QED BY <1>2, <1>3, <2>1, <2>2
<1>8. CASE BeginUnregister(x, d)
  <2>1. ids'[x] = ids[x] \ {j.f} /\ UNCHANGED owners /\ j.at = "begin"
    BY <1>0, <1>8 DEF BeginUnregister, Doing, TableTyped
  <2>2. /\ job'[<<x, d>>].f = j.f /\ job'[<<x, d>>].at = "release" /\ job'[<<x, d>>].ns = nsState[x].ns
        /\ job'[<<x, d>>] # Idle
    BY <1>1, <1>8 DEF BeginUnregister, Idle
  <2>3. k = <<k[1], k[2]>>
    BY DEF Keys
  <2> QED BY <1>2, <1>3, <1>4, <2>1, <2>2, <2>3
<1>9. CASE ReleaseFunction(x, d)
  <2>1. PICK l : l = <<j.ns, j.f>>
    OBVIOUS
  <2>2. CASE UNCHANGED <<owners, ids>> /\ owners[l] # x
    BY <1>2, <1>3, <2>1, <2>2
  <2>3. CASE UNCHANGED <<owners, ids>> /\ Goto(x, d, "drop", l[1])
    <3>1. job'[<<x, d>>] = [op |-> j.op, f |-> j.f, at |-> "drop", ns |-> j.ns]
      BY <1>1, <2>1, <2>3 DEF Goto
    <3>2. job'[<<x, d>>] # Idle
      BY <3>1 DEF Idle
    <3> QED BY <1>2, <1>3, <1>4, <2>3, <3>1, <3>2
  <2>4. CASE owners' = [owners EXCEPT ![l] = NoOne] /\ UNCHANGED ids
    <3>1. k # l /\ owners[k] = x
      BY <1>0, <2>4 DEF TableTyped
    <3> QED BY <1>2, <1>3, <2>1, <2>4, <3>1
  <2> QED BY <1>9, <2>1, <2>2, <2>3, <2>4 DEF ReleaseFunction, KeyOf
<1>10. CASE DropLease(x, d)
  <2>1. PICK l : l = <<j.ns, j.f>>
    OBVIOUS
  <2>2. owners' = [owners EXCEPT ![l] = IF @ = x THEN NoOne ELSE @] /\ UNCHANGED ids
    BY <1>10, <2>1 DEF DropLease, KeyOf
  <2>3. k # l /\ owners[k] = x
    BY <1>0, <2>2 DEF TableTyped
  <2> QED BY <1>2, <1>3, <2>1, <2>2, <2>3
<1> QED BY <1>5a, <1>5, <1>6, <1>7, <1>8, <1>9, <1>10 DEF Dispatch

\* Every lease stays accounted for, by a dispatch at hand, by the
\* connection's ids or by what its teardown has still to release.
LEMMA LeasesStep ==
  ASSUME Typed, Pipeline, Untouched, Owned, Leases, NEW x \in Conn, Steps(x)
  PROVE  Leases'
<1> SUFFICES ASSUME NEW c \in Conn, NEW k \in Keys, ~raced'[c], owners'[k] = c
             PROVE  Accounted(c, k)'
  BY DEF Leases
<1>0. TableTyped /\ NsTyped /\ JobTyped /\ CleanupTyped /\ NoOne \notin Conn /\ ~raced[c] /\ Moves(x)
  BY WorkerConnectionsAssumption, RacedStep, TableStep DEF Typed
<1>1. CASE c # x
  <2>1. owners[k] = c
    BY <1>0, <1>1 DEF Moves
  <2>2. Accounted(c, k)
    BY <1>0, <2>1 DEF Leases
  <2>3. Beside(c) /\ Started(c)
    BY <1>1, Besides
  <2>4. ByJob(c, k) => ByJob(c, k)'
    BY <2>3 DEF ByJob, KeyOf, Beside
  <2>5. ByIds(c, k) => ByIds(c, k)'
    BY <2>3 DEF ByIds, Beside, Started
  <2>6. ByLease(c, k) => ByLease(c, k)'
    BY <2>3 DEF ByLease, Started
  <2> QED BY <2>2, <2>4, <2>5, <2>6, AccountedParts, AccountedPartsNext
<1>2. CASE c = x /\ Works(x)
  BY <1>0, <1>2, LeasesDispatch DEF Works
<1>3. ASSUME c = x, ~Works(x)
      PROVE  Accounted(c, k)'
  <2>0. /\ owners[k] = x /\ Accounted(x, k) /\ Life(x) /\ OneDispatcher(x) /\ Fresh(x) /\ x # NoOne
        /\ ids'[x] = ids[x]
    <3>1. owners[k] = x
      <4>1. ASSUME NEW l, owners' = [owners EXCEPT ![l] = IF @ = x THEN NoOne ELSE @]
            PROVE  owners[k] = x
        BY <1>0, <1>3, <4>1 DEF TableTyped
      <4>2. ASSUME NEW f \in Fn, CleanupRelease(x, f)
            PROVE  owners' = owners \/ \E l : owners' = [owners EXCEPT ![l] = IF @ = x THEN NoOne ELSE @]
        BY <4>2 DEF CleanupRelease
      <4>3. CleanupDropLease(x) => \E l : owners' = [owners EXCEPT ![l] = IF @ = x THEN NoOne ELSE @]
        BY DEF CleanupDropLease
      <4> QED BY <1>3, <4>1, <4>2, <4>3, TableWriters
    <3>2. ids'[x] = ids[x]
      BY <1>3, TableWriters DEF CleanupRelease, CleanupDropLease
    <3> QED BY <1>0, <1>3, <3>1, <3>2 DEF Leases, Pipeline, Untouched
  <2>1. ByJob(x, k) => ByJob(x, k)'
    <3>1. ASSUME NEW d \in Dispatchers, job[<<x, d>>] # Idle
          PROVE  job'[<<x, d>>] = job[<<x, d>>]
      <4>1. Route(x) => job'[<<x, d>>] = job[<<x, d>>]
        BY <1>0, <2>0, <3>1 DEF Route, OneDispatcher, JobTyped
      <4>2. ~TimerDropped(x)
        BY <1>3 DEF TimerDropped, Typed, LoopTyped
      <4>3. ASSUME NEW e \in {"timer", "announce"}, DrainNext(x, e)
            PROVE  job'[<<x, d>>] = job[<<x, d>>]
        BY <1>0, <3>1, <4>3 DEF DrainNext, JobTyped
      <4> QED BY <1>3, <4>1, <4>2, <4>3, JobWriters
    <3> QED BY <3>1 DEF ByJob, KeyOf
  <2>2. CASE ~Cleanup(x)
    <3>1. nsState'[x].ns = nsState[x].ns \/ reader[x] = "new" \/ nsState[x].at = "Pending"
      <4>1. Route(x) \/ Takes(x) => nsState'[x].ns = nsState[x].ns
        BY <1>0 DEF Route, Takes, DrainNext, DrainEnds, NsTyped
      <4>2. GraceExpires(x) \/ Resolve(x) => nsState'[x].ns = nsState[x].ns \/ nsState[x].at = "Pending"
        BY <1>0 DEF GraceExpires, Resolve, WinsResolution, NsTyped
      <4>3. Connect(x) => reader[x] = "new"
        BY DEF Connect
      <4> QED BY <2>2, <4>1, <4>2, <4>3, NsWriters DEF Cleanup
    <3>2. /\ cleanup'[x].todo = cleanup[x].todo /\ cleanup'[x].lease = cleanup[x].lease
          /\ cleanup'[x].at = cleanup[x].at \/ (cleanup[x].at = "no" /\ cleanup'[x].at = "abort")
      <4>1. ASSUME NEW y, StartCleanup(y)
            PROVE  /\ cleanup'[x].todo = cleanup[x].todo /\ cleanup'[x].lease = cleanup[x].lease
                   /\ cleanup'[x].at = cleanup[x].at \/ (cleanup[x].at = "no" /\ cleanup'[x].at = "abort")
        BY <1>0, <4>1 DEF StartCleanup, CleanupTyped
      <4> QED BY <2>2, <4>1, TaskWriters DEF EndLoop, RetireTimeout
    <3>3. reader[x] = "new" \/ nsState[x].at = "Pending" => ids[x] = {} /\ cleanup[x].at \notin {"snapshotExternal", "release", "external"}
      BY <2>0 DEF Fresh, Idles, Life, Unused, Teardown
    <3>4. ByIds(x, k) => ByIds(x, k)'
      BY <2>0, <3>1, <3>2, <3>3 DEF ByIds
    <3>5. ByLease(x, k) => ByLease(x, k)'
      BY <3>2 DEF ByLease
    <3> QED BY <1>3, <2>0, <2>1, <3>4, <3>5, AccountedParts, AccountedPartsNext
  <2>3. CASE AbortResolution(x)
    <3>1. /\ cleanup[x].at = "abort" /\ cleanup'[x].at = "snapshot" /\ nsState'[x].ns = ConnectionNamespace(x)
      BY <1>0, <2>3 DEF AbortResolution, Step, CleanupTyped, NsTyped
    <3>2. ids[x] # {} => nsState[x].at \in {"Draining", "Resolved", "Aborted"}
      BY <1>0, <2>0, <3>1 DEF Fresh, Idles, Life, Unused, NsTyped, NsStates
    <3>3. ByIds(x, k) => ByIds(x, k)'
      BY <2>0, <3>1, <3>2 DEF ByIds, ConnectionNamespace, Fixed
    <3>4. ~ByLease(x, k)
      BY <3>1 DEF ByLease
    <3> QED BY <1>3, <2>0, <2>1, <3>3, <3>4, AccountedParts, AccountedPartsNext
  <2>4. CASE Snapshot(x)
    <3>1. /\ cleanup[x].at = "snapshot" /\ cleanup'[x].at = "snapshotExternal"
          /\ cleanup'[x].todo = ids[x] \ External /\ UNCHANGED <<nsState, ids>>
      BY <1>0, <2>4 DEF Snapshot, CleanupTyped, connVars, fnVars
    <3>2. (ByIds(x, k) => ByIds(x, k)') /\ ~ByLease(x, k)
      BY <3>1 DEF ByIds, ByLease
    <3> QED BY <1>3, <2>0, <2>1, <3>2, AccountedParts, AccountedPartsNext
  <2>4a. CASE SnapshotExternal(x)
    <3>1. /\ cleanup[x].at = "snapshotExternal" /\ cleanup'[x].at = "release"
          /\ cleanup'[x].todo = cleanup[x].todo \cup (ids[x] \cap External) /\ UNCHANGED <<nsState, ids>>
      BY <1>0, <2>4a DEF SnapshotExternal, CleanupTyped, connVars, fnVars
    <3>2. (ByIds(x, k) => ByIds(x, k)') /\ ~ByLease(x, k)
      BY <3>1 DEF ByIds, ByLease
    <3> QED BY <1>3, <2>0, <2>1, <3>2, AccountedParts, AccountedPartsNext
  <2>5. ASSUME NEW f \in Fn, CleanupRelease(x, f)
        PROVE  Accounted(c, k)'
    <3>1. PICK l : l = <<ConnectionNamespace(x), f>>
      OBVIOUS
    <3>2. ConnectionNamespace(x) = nsState[x].ns /\ cleanup[x].at = "release" /\ l \in Keys /\ UNCHANGED nsState
      BY <1>0, <2>0, <2>5, <3>1, NamespaceTyped DEF CleanupRelease, ConnectionNamespace, Fixed, Life, Teardown, Keys, connVars
    <3>3. k = <<k[1], k[2]>>
      BY DEF Keys
    <3>4. CASE cleanup' = [cleanup EXCEPT ![x] = [at |-> "external", todo |-> @.todo \ {f}, lease |-> l]]
      <4>1. cleanup'[x].at = "external" /\ cleanup'[x].todo = cleanup[x].todo \ {f} /\ cleanup'[x].lease = l
        BY <1>0, <3>4 DEF CleanupTyped
      <4>2. ByIds(x, k) => ByIds(x, k)' \/ ByLease(x, k)'
        BY <3>1, <3>2, <3>3, <4>1 DEF ByIds, ByLease
      <4>3. ~ByLease(x, k)
        BY <3>2 DEF ByLease
      <4> QED BY <1>3, <2>0, <2>1, <4>2, <4>3, AccountedParts, AccountedPartsNext
    <3>5. CASE cleanup' = [cleanup EXCEPT ![x].todo = @ \ {f}] /\ owners' = [owners EXCEPT ![l] = IF @ = x THEN NoOne ELSE @]
      <4>1. cleanup'[x].at = "release" /\ cleanup'[x].todo = cleanup[x].todo \ {f}
        BY <1>0, <3>2, <3>5 DEF CleanupTyped
      <4>2. k # l
        BY <1>0, <1>3, <2>0, <3>2, <3>5 DEF TableTyped
      <4>3. (ByIds(x, k) => ByIds(x, k)') /\ ~ByLease(x, k)
        BY <3>1, <3>2, <3>3, <4>1, <4>2 DEF ByIds, ByLease
      <4> QED BY <1>3, <2>0, <2>1, <4>3, AccountedParts, AccountedPartsNext
    <3> QED BY <2>5, <3>1, <3>4, <3>5 DEF CleanupRelease
  <2>6. CASE CleanupDropLease(x)
    <3>1. PICK l : l = cleanup[x].lease
      OBVIOUS
    <3>2. /\ cleanup[x].at = "external" /\ cleanup'[x].at = "release" /\ cleanup'[x].todo = cleanup[x].todo
          /\ UNCHANGED nsState /\ owners' = [owners EXCEPT ![l] = IF @ = x THEN NoOne ELSE @]
      BY <1>0, <2>6, <3>1 DEF CleanupDropLease, CleanupTyped, connVars
    <3>3. k # l
      BY <1>0, <1>3, <2>0, <3>2 DEF TableTyped
    <3>4. (ByIds(x, k) => ByIds(x, k)') /\ ~ByLease(x, k)
      BY <2>0, <3>1, <3>2, <3>3 DEF ByIds, ByLease
    <3> QED BY <1>3, <2>0, <2>1, <3>4, AccountedParts, AccountedPartsNext
  <2>7. CASE CleanupName(x) \/ CleanupUnregister(x) \/ CleanupForget(x)
    <3>1. (cleanup[x].at = "release" /\ cleanup[x].todo = {}) \/ cleanup[x].at \in {"unregister", "forget"}
      BY <2>7 DEF CleanupName, CleanupUnregister, CleanupForget
    <3>2. ~ByIds(x, k) /\ ~ByLease(x, k)
      BY <3>1 DEF ByIds, ByLease
    <3> QED BY <1>3, <2>0, <2>1, <3>2, AccountedParts, AccountedPartsNext
  <2> QED BY <2>2, <2>3, <2>4, <2>4a, <2>5, <2>6, <2>7 DEF Cleanup
<1> QED BY <1>1, <1>2, <1>3

-----------------------------------------------------------------------------
(* A handler goes with its lease. *)

\* A step that gives up a lease, or that writes a handler, while no teardown
\* has met a registration in flight.
Quiet == \A d \in Conn : ~raced[d]
NoLease(k) == functions[k] # NoOne /\ NoRefusal(k) => owners[k] # NoOne
Dropping(e, d) == job[<<e, d>>] # Idle /\ job[<<e, d>>].at = "drop"
Undone(k, e) == owners[k] = e => functions[k] = NoOne

\* The three parts of Handlers.
LEMMA HandlersParts ==
  Handlers <=> (Quiet => /\ \A k \in Keys : NoLease(k)
                         /\ \A e \in Conn, d \in Dispatchers : Dropping(e, d) => Undone(KeyOf(e, d), e)
                         /\ \A e \in Conn, k \in Keys : ByLease(e, k) => Undone(k, e))
  BY DEF Handlers, Quiet, NoLease, Dropping, Undone, ByLease

\* The same of the next state.
LEMMA HandlersPartsNext ==
  Handlers' <=> (Quiet' => /\ \A k \in Keys : NoLease(k)'
                           /\ \A e \in Conn, d \in Dispatchers : Dropping(e, d)' => Undone(KeyOf(e, d), e)'
                           /\ \A e \in Conn, k \in Keys : ByLease(e, k)' => Undone(k, e)')
  BY DEF Handlers, Quiet, NoLease, Dropping, Undone, ByLease

\* What x does to handlers and leases when nothing has raced: it writes a
\* handler under its own lease, and gives up a lease with the handler or after a
\* refusal.
Tending(x) == Live(x) /\ \A d \in Dispatchers : ~Dropping(x, d) /\ ~Dropping(x, d)'
Tidy(x) == \A k \in Keys :
  /\ \/ functions'[k] = functions[k] \/ functions'[k] = NoOne
     \/ functions'[k] = x /\ owners[k] = x /\ owners'[k] = x /\ Tending(x)
  /\ owners'[k] = NoOne => owners[k] = NoOne \/ functions'[k] = NoOne \/ ~NoRefusal(k)
  /\ owners'[k] = x => owners[k] = x \/ Tending(x)

\* A dispatch takes a handler's lease away with the handler only.
LEMMA TidyDispatch ==
  ASSUME Typed, Pipeline, Refusal, Owned, Handlers, Quiet, NEW x \in Conn, NEW d \in Dispatchers, Dispatch(x, d)
  PROVE  Tidy(x)
<1> DEFINE j == job[<<x, d>>]
<1>0. TableTyped /\ JobTyped /\ x # NoOne
  BY WorkerConnectionsAssumption DEF Typed
<1>1. /\ j # Idle /\ IsJob(j) /\ Live(x) /\ InHand(x, d) /\ <<x, d>> \in DOMAIN job
      /\ \A e \in Dispatchers : e # d => job[<<x, e>>] = Idle /\ job'[<<x, e>>] = Idle
  <2>1. j # Idle /\ IsJob(j)
    BY JobAfter
  <2>2. Live(x)
    BY <2>1, Busy DEF Quiet
  <2> QED BY <1>0, <2>1, <2>2, Busy, JobAfter DEF JobTyped, Owned, Holding, Working
<1>t. ASSUME j.at # "drop", job'[<<x, d>>] = Idle \/ job'[<<x, d>>].at # "drop"
      PROVE  Tending(x)
  BY <1>1, <1>t DEF Tending, Dropping
<1>2a. CASE BeginRegister(x, d)
  BY <1>2a DEF BeginRegister, Tidy, fnVars
<1>2. CASE ClaimFunction(x, d)
  <2>1. PICK l : l = <<j.ns, j.f>>
    OBVIOUS
  <2>2. CASE owners' = [owners EXCEPT ![l] = x] /\ Goto(x, d, "write", l[1]) /\ UNCHANGED functions
    <3>1. job'[<<x, d>>].at = "write"
      BY <1>1, <2>2 DEF Goto
    <3>2. Tending(x)
      BY <1>2, <1>t, <3>1 DEF ClaimFunction, Doing
    <3> QED BY <1>0, <2>2, <3>2 DEF Tidy, TableTyped
  <2>3. CASE UNCHANGED <<owners, functions>>
    BY <2>3 DEF Tidy
  <2> QED BY <1>2, <2>1, <2>2, <2>3 DEF ClaimFunction, KeyOf
<1>3. CASE WriteFunction(x, d)
  <2>1. PICK l : l = <<j.ns, j.f>>
    OBVIOUS
  <2>2. l \in Keys /\ owners[l] = x /\ l[2] = j.f
    BY <1>1, <1>3, <2>1 DEF WriteFunction, Doing, InHand, KeyOf, Claimed, IsJob, Keys
  <2>3. CASE functions' = [functions EXCEPT ![l] = x] /\ Goto(x, d, "note", l[1]) /\ UNCHANGED owners
    <3>1. job'[<<x, d>>].at = "note"
      BY <1>1, <2>3 DEF Goto
    <3>2. Tending(x)
      BY <1>3, <1>t, <3>1 DEF WriteFunction, Doing
    <3> QED BY <1>0, <2>2, <2>3, <3>2 DEF Tidy, TableTyped
  <2>4. CASE /\ j.op = "registerInvalid" /\ j.f \in External /\ UNCHANGED functions
             /\ owners' = [owners EXCEPT ![l] = IF @ = x THEN NoOne ELSE @]
    <3>1. ~NoRefusal(l)
      BY <1>1, <2>2, <2>4 DEF Refusal, Refusals, Sent, Refused, NoRefusal
    <3> QED BY <1>0, <2>2, <2>4, <3>1 DEF Tidy, TableTyped
  <2> QED BY <1>3, <2>1, <2>3, <2>4 DEF WriteFunction, KeyOf
<1>4. CASE NoteFunction(x, d) \/ BeginUnregister(x, d)
  BY <1>4 DEF NoteFunction, BeginUnregister, Tidy
<1>5. CASE ReleaseFunction(x, d)
  <2>1. PICK l : l = <<j.ns, j.f>>
    OBVIOUS
  <2>2. CASE UNCHANGED <<owners, functions>>
    BY <2>2 DEF Tidy
  <2>3. CASE functions' = [functions EXCEPT ![l] = NoOne] /\ (UNCHANGED owners \/ owners' = [owners EXCEPT ![l] = NoOne])
    BY <1>0, <2>3 DEF Tidy, TableTyped
  <2> QED BY <1>5, <2>1, <2>2, <2>3 DEF ReleaseFunction, KeyOf
<1>6. CASE DropLease(x, d)
  <2>1. PICK l : l = KeyOf(x, d)
    OBVIOUS
  <2>2. owners' = [owners EXCEPT ![l] = IF @ = x THEN NoOne ELSE @] /\ UNCHANGED functions
    BY <1>6, <2>1 DEF DropLease
  <2>3. owners[l] = x => functions[l] = NoOne
    BY <1>6, <2>1, HandlersParts DEF DropLease, Doing, Dropping, Undone
  <2> QED BY <1>0, <2>2, <2>3 DEF Tidy, TableTyped
<1> QED BY <1>2a, <1>2, <1>3, <1>4, <1>5, <1>6 DEF Dispatch

\* So does every step.
LEMMA TidyStep ==
  ASSUME Typed, Pipeline, Refusal, Owned, Handlers, Quiet, NEW x \in Conn, Steps(x)
  PROVE  Tidy(x)
<1>0. TableTyped /\ x # NoOne
  BY WorkerConnectionsAssumption DEF Typed
<1>1. CASE UNCHANGED <<owners, functions, ids>>
  BY <1>1 DEF Tidy
<1>2. CASE Works(x)
  BY <1>2, TidyDispatch DEF Works
<1>3. ASSUME NEW f \in Fn, CleanupRelease(x, f)
      PROVE  Tidy(x)
  <2>1. PICK l : l = <<ConnectionNamespace(x), f>>
    OBVIOUS
  <2>2. /\ functions' = [functions EXCEPT ![l] = IF owners[l] = x THEN NoOne ELSE @]
        /\ UNCHANGED owners \/ owners' = [owners EXCEPT ![l] = IF @ = x THEN NoOne ELSE @]
    BY <1>3, <2>1 DEF CleanupRelease
  <2> QED BY <1>0, <2>2 DEF Tidy, TableTyped
<1>4. CASE CleanupDropLease(x)
  <2>1. PICK l : l = cleanup[x].lease
    OBVIOUS
  <2>2. owners' = [owners EXCEPT ![l] = IF @ = x THEN NoOne ELSE @] /\ UNCHANGED functions
    BY <1>4, <2>1 DEF CleanupDropLease
  <2>3. l \in Keys /\ owners[l] = x => functions[l] = NoOne
    BY <1>4, <2>1, HandlersParts DEF CleanupDropLease, ByLease, Undone
  <2> QED BY <1>0, <2>2, <2>3 DEF Tidy, TableTyped
<1> QED BY <1>1, <1>2, <1>3, <1>4, TableWriters

\* How x comes to have a lease without its handler.
LEMMA DroppingFrom ==
  ASSUME Typed, NEW x \in Conn, Steps(x), NEW d \in Dispatchers, Dropping(x, d)'
  PROVE  \/ Dropping(x, d) /\ job'[<<x, d>>] = job[<<x, d>>]
         \/ functions'[<<job'[<<x, d>>].ns, job'[<<x, d>>].f>>] = NoOne
<1>0. JobTyped /\ TableTyped /\ <<x, d>> \in DOMAIN job
  BY DEF Typed, JobTyped
<1>1. CASE job'[<<x, d>>] = job[<<x, d>>]
  BY <1>1 DEF Dropping
<1>2. Route(x) => job'[<<x, d>>] = job[<<x, d>>] \/ job'[<<x, d>>].at = "begin"
  BY <1>0 DEF Route, JobTyped
<1>3. TimerDropped(x) => job'[<<x, d>>] \in {job[<<x, d>>], Idle}
  BY <1>0 DEF TimerDropped, JobTyped
<1>4. ASSUME NEW e \in {"timer", "announce"}, DrainNext(x, e)
      PROVE  job'[<<x, d>>] = job[<<x, d>>] \/ job'[<<x, d>>].at = "begin"
  BY <1>0, <1>4 DEF DrainNext, JobTyped
<1>5. ASSUME NEW e \in Dispatchers, Dispatch(x, e), job'[<<x, d>>] # job[<<x, d>>]
      PROVE  functions'[<<job'[<<x, d>>].ns, job'[<<x, d>>].f>>] = NoOne
  <2>1. e = d /\ IsJob(job[<<x, d>>])
    BY <1>5, JobAfter
  <2>2. ~Finish(x, d)
    BY <1>0 DEF Finish, Dropping
  <2>3. ASSUME NEW at, NEW ns, Goto(x, d, at, ns)
        PROVE  at = "drop"
    BY <1>0, <2>3 DEF Goto, Dropping
  <2>4. ~BeginUnregister(x, d)
    BY <1>0 DEF BeginUnregister, Dropping
  <2>5. ReleaseFunction(x, d)
    BY <1>5, <2>1, <2>2, <2>3, <2>4 DEF Dispatch, BeginRegister, ClaimFunction, WriteFunction, NoteFunction, DropLease
  <2>6. PICK l : l = KeyOf(x, d)
    OBVIOUS
  <2>7. functions' = [functions EXCEPT ![l] = NoOne] /\ Goto(x, d, "drop", l[1])
    BY <2>2, <2>5, <2>6 DEF ReleaseFunction
  <2>8. l = <<job'[<<x, d>>].ns, job'[<<x, d>>].f>>
    BY <1>0, <2>6, <2>7 DEF Goto, KeyOf
  <2>9. l \in Keys
    BY <2>1, <2>5, <2>6 DEF ReleaseFunction, Doing, IsJob, KeyOf, Keys
  <2> QED BY <1>0, <2>7, <2>8, <2>9 DEF TableTyped
<1> QED BY <1>1, <1>2, <1>3, <1>4, <1>5, JobWriters DEF Works, Dropping

\* A teardown about to drop a lease has removed the handler, unless the lease
\* is no longer its own.
LEMMA ExternalFrom ==
  ASSUME Typed, NEW x \in Conn, Steps(x), NEW k \in Keys, ByLease(x, k)'
  PROVE  ByLease(x, k) \/ functions'[k] = NoOne \/ owners'[k] # x
<1>0. CleanupTyped /\ TableTyped
  BY DEF Typed
<1>1. ASSUME NEW y, StartCleanup(y)
      PROVE  ByLease(x, k)
  BY <1>0, <1>1 DEF StartCleanup, CleanupTyped, ByLease
<1>2. ASSUME NEW at, Step(x, at), at # "external"
      PROVE  FALSE
  BY <1>0, <1>2 DEF Step, CleanupTyped, ByLease
<1>3. ~Snapshot(x) /\ ~SnapshotExternal(x) /\ ~CleanupDropLease(x)
  BY <1>0 DEF Snapshot, SnapshotExternal, CleanupDropLease, CleanupTyped, ByLease
<1>4. ASSUME NEW f \in Fn, CleanupRelease(x, f)
      PROVE  functions'[k] = NoOne
  <2>1. PICK l : l = <<ConnectionNamespace(x), f>>
    OBVIOUS
  <2>2. /\ functions' = [functions EXCEPT ![l] = IF owners[l] = x THEN NoOne ELSE @]
        /\ \/ /\ cleanup' = [cleanup EXCEPT ![x] = [at |-> "external", todo |-> @.todo \ {f}, lease |-> l]]
              /\ owners[l] = x
           \/ cleanup' = [cleanup EXCEPT ![x].todo = @ \ {f}] /\ cleanup[x].at = "release"
    BY <1>4, <2>1 DEF CleanupRelease
  <2>3. k = l /\ owners[l] = x
    BY <1>0, <2>2 DEF CleanupTyped, ByLease
  <2> QED BY <1>0, <2>2, <2>3 DEF TableTyped
<1>5. CASE UNCHANGED cleanup
  BY <1>5 DEF ByLease
<1> QED BY <1>1, <1>2, <1>3, <1>4, <1>5, TaskWriters
     DEF EndLoop, RetireTimeout, Cleanup, AbortResolution, CleanupName, CleanupUnregister, CleanupForget

\* Every step leaves each handler with its lease.
LEMMA HandlersStep ==
  ASSUME Typed, Pipeline, Refusal, Owned, Handlers, NEW x \in Conn, Steps(x)
  PROVE  Handlers'
<1> SUFFICES ASSUME Quiet'
             PROVE  /\ \A k \in Keys : NoLease(k)'
                    /\ \A e \in Conn, d \in Dispatchers : Dropping(e, d)' => Undone(KeyOf(e, d), e)'
                    /\ \A e \in Conn, k \in Keys : ByLease(e, k)' => Undone(k, e)'
  BY HandlersPartsNext
<1>0. Quiet /\ x # NoOne /\ NoOne \notin Conn
  BY RacedStep, WorkerConnectionsAssumption DEF Quiet
<1>1. Tidy(x) /\ Moves(x)
  BY <1>0, TidyStep, TableStep
<1>2. /\ \A k \in Keys : NoLease(k)
      /\ \A e \in Conn, d \in Dispatchers : Dropping(e, d) => Undone(KeyOf(e, d), e)
      /\ \A e \in Conn, k \in Keys : ByLease(e, k) => Undone(k, e)
  BY <1>0, HandlersParts
<1>3. ASSUME NEW k \in Keys PROVE NoLease(k)'
  <2>1. NoRefusal(k)' => NoRefusal(k)
    BY Remembered DEF NoRefusal
  <2> QED BY <1>0, <1>1, <1>2, <2>1 DEF NoLease, Tidy
<1>4. ASSUME NEW e \in Conn, NEW k \in Keys, e # x, Undone(k, e)
      PROVE  Undone(k, e)'
  BY <1>0, <1>1, <1>4 DEF Undone, Tidy, Moves
<1>5. ASSUME NEW k \in Keys, Undone(k, x), ~Tending(x)
      PROVE  Undone(k, x)'
  BY <1>0, <1>1, <1>5 DEF Undone, Tidy
<1>6. ASSUME NEW e \in Conn, NEW d \in Dispatchers, Dropping(e, d)'
      PROVE  Undone(KeyOf(e, d), e)'
  <2>1. PICK k : k = <<job'[<<e, d>>].ns, job'[<<e, d>>].f>>
    OBVIOUS
  <2>2. k \in Keys
    BY <1>6, <2>1, JobTypedStep DEF JobTyped, Dropping, IsJob, Keys
  <2>3. Undone(k, e)'
    <3>1. CASE e # x
      <4>1. Dropping(e, d) /\ k = KeyOf(e, d)
        BY <1>6, <2>1, <3>1, Besides DEF Beside, Dropping, KeyOf
      <4> QED BY <1>2, <1>4, <2>2, <3>1, <4>1
    <3>2. CASE e = x /\ Dropping(x, d) /\ job'[<<x, d>>] = job[<<x, d>>]
      <4>1. Undone(k, x)
        BY <1>2, <2>1, <3>2 DEF KeyOf
      <4>2. ~Tending(x)
        BY <3>2 DEF Tending
      <4> QED BY <1>5, <2>2, <3>2, <4>1, <4>2
    <3>3. CASE e = x /\ functions'[k] = NoOne
      BY <3>3 DEF Undone
    <3> QED BY <1>6, <2>1, <3>1, <3>2, <3>3, DroppingFrom
  <2> QED BY <2>1, <2>3 DEF Undone, KeyOf
<1>7. ASSUME NEW e \in Conn, NEW k \in Keys, ByLease(e, k)'
      PROVE  Undone(k, e)'
  <2>1. CASE e # x
    <3>1. ByLease(e, k)
      BY <1>7, <2>1, Besides DEF Started, ByLease
    <3> QED BY <1>2, <1>4, <2>1, <3>1
  <2>2. CASE e = x /\ ByLease(x, k)
    <3>1. ~Tending(x)
      BY <2>2, LiveIs DEF Tending, ByLease
    <3> QED BY <1>2, <1>5, <2>2, <3>1
  <2>3. CASE e = x /\ (functions'[k] = NoOne \/ owners'[k] # x)
    BY <2>3 DEF Undone
  <2> QED BY <1>7, <2>1, <2>2, <2>3, ExternalFrom
<1> QED BY <1>3, <1>6, <1>7

-----------------------------------------------------------------------------
(* The last word about a function. *)

\* Appending a request to the buffer.
LEMMA QueueGrows ==
  ASSUME NEW q \in Seq(Request), NEW m \in Request, NEW f
  PROVE  /\ m.f = f => /\ QueueAbout(Append(q, m), f)
                       /\ m.op = "unregister" => QueuedLast(Append(q, m), f)
         /\ m.f # f => /\ QueueAbout(Append(q, m), f) <=> QueueAbout(q, f)
                       /\ QueuedLast(q, f) => QueuedLast(Append(q, m), f)
<1>1. PICK n \in Nat : n = Len(q)
  OBVIOUS
<1>2. PICK r : r = Append(q, m)
  OBVIOUS
<1>3. Len(r) = n + 1 /\ r[n + 1] = m /\ \A i \in 1 .. n : r[i] = q[i]
  BY <1>1, <1>2
<1>4. n + 1 \in 1 .. n + 1 /\ (\A i \in 1 .. n + 1 : i = n + 1 \/ i \in 1 .. n) /\ (\A i \in 1 .. n : i \in 1 .. n + 1 /\ i # n + 1)
      /\ ~\E i \in 1 .. n + 1 : i > n + 1
  OBVIOUS
<1>5. m.f = f => QueueAbout(r, f) /\ (m.op = "unregister" => QueuedLast(r, f))
  BY <1>3, <1>4 DEF QueueAbout, QueuedLast
<1>6. m.f # f => (QueueAbout(r, f) <=> QueueAbout(q, f))
  BY <1>1, <1>3, <1>4 DEF QueueAbout
<1>7. m.f # f => (QueuedLast(q, f) => QueuedLast(r, f))
  BY <1>1, <1>3, <1>4 DEF QueuedLast
<1> QED BY <1>2, <1>5, <1>6, <1>7

\* Taking the first request of the buffer.
LEMMA QueueShrinks ==
  ASSUME NEW q \in Seq(Request), q # <<>>, NEW f
  PROVE  /\ QueueAbout(q, f) <=> Head(q).f = f \/ QueueAbout(Tail(q), f)
         /\ QueuedLast(q, f) /\ QueueAbout(Tail(q), f) => QueuedLast(Tail(q), f)
         /\ QueuedLast(q, f) /\ ~QueueAbout(Tail(q), f) => Head(q).f = f /\ Head(q).op = "unregister"
<1>1. PICK n \in Nat : n = Len(Tail(q))
  BY HeadTail
<1>2. PICK r : r = Tail(q)
  OBVIOUS
<1>3. Len(r) = n /\ Len(q) = n + 1 /\ Head(q) = q[1] /\ \A i \in 1 .. n : r[i] = q[i + 1]
  BY <1>1, <1>2, HeadTail
<1>4. /\ 1 \in 1 .. n + 1 /\ \A i \in 1 .. n : i + 1 \in 1 .. n + 1
      /\ \A i \in 1 .. n + 1 : i = 1 \/ (i - 1 \in 1 .. n /\ (i - 1) + 1 = i)
  OBVIOUS
<1>5. QueueAbout(q, f) <=> Head(q).f = f \/ QueueAbout(r, f)
  <2>1. ASSUME NEW i \in 1 .. n + 1, q[i].f = f, i # 1
        PROVE  QueueAbout(r, f)
    <3>1. PICK j \in 1 .. n : j + 1 = i
      BY <1>4, <2>1
    <3> QED BY <1>3, <2>1, <3>1 DEF QueueAbout
  <2>2. ASSUME NEW j \in 1 .. n, r[j].f = f
        PROVE  QueueAbout(q, f)
    <3>1. j + 1 \in 1 .. Len(q) /\ q[j + 1].f = f
      BY <1>3, <1>4, <2>2
    <3> QED BY <3>1 DEF QueueAbout
  <2>3. Head(q).f = f => QueueAbout(q, f)
    BY <1>3, <1>4 DEF QueueAbout
  <2>4. QueueAbout(q, f) => \E i \in 1 .. n + 1 : q[i].f = f
    BY <1>3 DEF QueueAbout
  <2>5. QueueAbout(r, f) => \E j \in 1 .. n : r[j].f = f
    BY <1>3 DEF QueueAbout
  <2> QED BY <1>3, <2>1, <2>2, <2>3, <2>4, <2>5
<1>6. ASSUME QueuedLast(q, f), QueueAbout(r, f)
      PROVE  QueuedLast(r, f)
  <2>1. PICK i \in 1 .. n + 1 : q[i].f = f /\ q[i].op = "unregister" /\ \A j \in 1 .. n + 1 : j > i => q[j].f # f
    BY <1>3, <1>6 DEF QueuedLast
  <2>2. PICK k \in 1 .. n : r[k].f = f
    BY <1>3, <1>6 DEF QueueAbout
  <2>3. i # 1
    BY <1>3, <2>1, <2>2
  <2>4. PICK j \in 1 .. n : j + 1 = i
    BY <1>4, <2>3
  <2>5. r[j].f = f /\ r[j].op = "unregister"
    BY <1>3, <2>1, <2>4
  <2>6. \A l \in 1 .. n : l > j => r[l].f # f
    BY <1>3, <2>1, <2>4
  <2> QED BY <1>3, <2>5, <2>6 DEF QueuedLast
<1>7. ASSUME QueuedLast(q, f), ~QueueAbout(r, f)
      PROVE  Head(q).f = f /\ Head(q).op = "unregister"
  <2>1. PICK i \in 1 .. n + 1 : q[i].f = f /\ q[i].op = "unregister"
    BY <1>3, <1>7 DEF QueuedLast
  <2>2. CASE i # 1
    <3>1. PICK j \in 1 .. n : j + 1 = i
      BY <1>4, <2>2
    <3> QED BY <1>3, <1>7, <2>1, <3>1 DEF QueueAbout
  <2> QED BY <1>3, <2>1, <2>2
<1> QED BY <1>2, <1>5, <1>6, <1>7

\* A connection whose buffered registrations are being drained was live
\* before, unless it has just connected.
LEMMA FlowingFrom ==
  ASSUME Typed, Pipeline, NEW x \in Conn, Steps(x), NEW c \in Conn, Flowing(c)'
  PROVE  Flowing(c) \/ (c = x /\ Connect(x))
<1>0. NsTyped /\ AnnounceTyped /\ timer \in [Conn -> Timers]
  BY DEF Typed, LoopTyped
<1>1. Live(c) \/ (c = x /\ Connect(x))
  BY LiveFrom DEF Flowing
<1>2. CASE c # x
  BY <1>1, <1>2, Besides DEF Beside, Flowing
<1>3. ASSUME c = x, Live(x), nsState[x].at = "Draining"
      PROVE  timer[x] \in Draining \/ announce[x].at = "draining"
  <2>1. timer'[x] \in Draining => timer[x] \in Draining
    <3>1. GraceExpires(x) => timer'[x] = "off"
      BY <1>0, <1>3 DEF GraceExpires, WinsResolution
    <3>2. ClaimName(x) \/ CancelTimer(x) \/ CleanupForget(x) => timer'[x] \in {timer[x], Cancelled(timer[x])}
      BY <1>0 DEF ClaimName, CancelTimer, CleanupForget
    <3>3. Connect(x) \/ TimerDropped(x) => timer'[x] \in {"armed", "off"}
      BY <1>0 DEF Connect, TimerDropped
    <3>4. Resolve(x) \/ (\E m \in Message \ Request : Announce(x, m)) => UNCHANGED timer
      BY DEF Resolve, Announce
    <3>5. ASSUME NEW d \in {"timer", "announce"}, DrainEnds(x, d)
          PROVE  timer'[x] \in {timer[x], "off"}
      BY <1>0, <3>5 DEF DrainEnds
    <3>6. Cancelled(timer[x]) \in Draining => timer[x] \in Draining
      BY DEF Cancelled, Draining
    <3> QED BY <3>1, <3>2, <3>3, <3>4, <3>5, <3>6, TaskWriters DEF Draining, Settles
  <2>2. announce'[x].at = "draining" => announce[x].at = "draining"
    <3>1. Resolve(x) => announce'[x].at \in {"cancel", "over"}
      BY <1>0, <1>3 DEF Resolve, WinsResolution, AnnounceOver, AnnounceTyped
    <3>2. Connect(x) \/ TimerDropped(x) \/ GraceExpires(x) \/ CleanupForget(x) => UNCHANGED announce
      BY DEF Connect, TimerDropped, GraceExpires, CleanupForget
    <3>3. ClaimName(x) \/ CancelTimer(x) => announce'[x].at \in {"resolve", "over"}
      BY <1>0 DEF ClaimName, CancelTimer, AnnounceOver, AnnounceTyped
    <3>4. ASSUME NEW m \in Message \ Request, Announce(x, m)
          PROVE  announce'[x].at = "sent"
      BY <1>0, <3>4 DEF Announce, AnnounceTyped
    <3>5. ASSUME NEW d \in {"timer", "announce"}, DrainEnds(x, d)
          PROVE  announce'[x].at \in {announce[x].at, "cancel"}
      BY <1>0, <3>5 DEF DrainEnds, AnnounceTyped
    <3> QED BY <3>1, <3>2, <3>3, <3>4, <3>5, TaskWriters DEF Settles
  <2>3. CASE nsState'[x].at = "Draining"
    BY <1>3, <2>1, <2>2, <2>3 DEF Flowing
  <2>4. CASE \E d \in {"timer", "announce"} : DrainEnds(x, d)
    BY <2>4 DEF DrainEnds, Drains, Draining
  <2>5. ASSUME nsState'[x].at # "Draining", ~\E d \in {"timer", "announce"} : DrainEnds(x, d)
        PROVE  FALSE
    <3>1. Connect(x) => FALSE
      BY <1>3 DEF Connect, Pipeline, Life
    <3>2. Route(x) => nsState'[x].at = nsState[x].at
      BY <1>0 DEF Route, NsTyped
    <3>3. GraceExpires(x) \/ Resolve(x) => nsState'[x].at \in {nsState[x].at, "Draining"}
      BY <1>0 DEF GraceExpires, Resolve, ToDraining, NsTyped
    <3>4. ASSUME NEW d \in {"timer", "announce"}, DrainNext(x, d)
          PROVE  nsState'[x].at = nsState[x].at
      BY <1>0, <3>4 DEF DrainNext, NsTyped
    <3>5. AbortResolution(x) => ~Live(x)'
      BY <1>0 DEF AbortResolution, NsTyped, Live, TearingDown
    <3>6. CleanupForget(x) => ~Live(x)
      BY LiveIs DEF CleanupForget
    <3> QED BY <1>3, <2>5, <3>1, <3>2, <3>3, <3>4, <3>5, <3>6, NsWriters DEF Flowing, Takes
  <2> QED BY <2>3, <2>4, <2>5
<1> QED BY <1>1, <1>2, <1>3 DEF Flowing

\* Nothing between the socket and the tables moves for c, and it is not taken
\* on as a server.
LEMMA HeardStill ==
  ASSUME NEW c \in Conn, NEW f \in Fn, Heard(c, f), frame'[c] = frame[c],
         nsState'[c].queue = nsState[c].queue, ids'[c] = ids[c],
         \A d \in Dispatchers : job'[<<c, d>>] = job[<<c, d>>],
         \A k \in Keys : functions'[k] = c => functions[k] = c
  PROVE  Heard(c, f)'
<1>1. FrameAbout(c, f)' <=> FrameAbout(c, f)
  BY DEF FrameAbout
<1>2. (JobAbout(c, f)' <=> JobAbout(c, f)) /\ (JobUndoes(c, f) => JobUndoes(c, f)')
  BY DEF JobAbout, JobUndoes
<1>3. Silent(c, f) => Silent(c, f)'
  BY DEF Silent, Keys
<1> QED BY <1>1, <1>2, <1>3 DEF Heard

\* Route.
LEMMA HeardRoute ==
  ASSUME Typed, Pipeline, NEW x \in Conn, Route(x), Live(x), NEW f \in Fn, Heard(x, f)
  PROVE  Heard(x, f)'
<1>0. OneDispatcher(x) /\ Life(x) /\ NsTyped /\ JobTyped /\ FrameTyped
  BY DEF Pipeline, Typed
<1>1. frame[x] \in Request /\ frame[x] # Idle /\ frame'[x] = Idle /\ UNCHANGED <<functions, ids>>
  BY <1>0 DEF Route, FrameTyped, fnVars
<1>2. ~FrameAbout(x, f)'
  BY <1>1 DEF FrameAbout
<1>3. Silent(x, f) => Silent(x, f)'
  BY <1>1 DEF Silent
<1>4. PICK q \in Seq(Request) : q = nsState[x].queue
  BY <1>0 DEF NsTyped
<1>5. CASE UNCHANGED job /\ nsState' = [nsState EXCEPT ![x].queue = Append(@, frame[x])]
  <2>1. nsState'[x].queue = Append(q, frame[x])
    BY <1>0, <1>4, <1>5 DEF NsTyped
  <2>2. (JobAbout(x, f)' <=> JobAbout(x, f)) /\ (JobUndoes(x, f) => JobUndoes(x, f)')
    BY <1>5 DEF JobAbout, JobUndoes
  <2>3. CASE frame[x].f = f
    <3>1. frame[x].op = "unregister"
      BY <1>1, <2>3 DEF Heard, FrameAbout
    <3>2. QueueAbout(Append(q, frame[x]), f) /\ QueuedLast(Append(q, frame[x]), f)
      BY <1>1, <2>3, <3>1, QueueGrows
    <3> QED BY <1>2, <2>1, <3>2 DEF Heard
  <2>4. CASE frame[x].f # f
    <3>1. ~FrameAbout(x, f)
      BY <2>4 DEF FrameAbout
    <3>2. /\ QueueAbout(Append(q, frame[x]), f) <=> QueueAbout(q, f)
          /\ QueuedLast(q, f) => QueuedLast(Append(q, frame[x]), f)
      BY <1>1, <2>4, QueueGrows
    <3> QED BY <1>2, <1>3, <1>4, <2>1, <2>2, <3>1, <3>2 DEF Heard
  <2> QED BY <2>3, <2>4
<1>6. ASSUME UNCHANGED nsState, nsState[x].at = "Resolved",
             job' = [job EXCEPT ![<<x, "reader">>] = [op |-> frame[x].op, f |-> frame[x].f, at |-> "begin"]]
      PROVE  Heard(x, f)'
  <2>1. \A d \in Dispatchers : job[<<x, d>>] = Idle
    BY <1>0, <1>1, <1>6 DEF OneDispatcher, Dispatchers
  <2>2. /\ \A d \in Dispatchers : d # "reader" => job'[<<x, d>>] = Idle
        /\ job'[<<x, "reader">>] # Idle /\ job'[<<x, "reader">>].f = frame[x].f /\ job'[<<x, "reader">>].op = frame[x].op
    BY <1>0, <1>6, <2>1 DEF JobTyped, Dispatchers, Idle
  <2>3. nsState[x].queue = <<>>
    BY <1>0, <1>6 DEF Life
  <2>4. ~QueueAbout(nsState[x].queue, f) /\ ~QueueAbout(nsState'[x].queue, f)
    BY <1>6, <2>3 DEF QueueAbout
  <2>5. CASE frame[x].f = f
    <3>1. frame[x].op = "unregister"
      BY <1>1, <2>5 DEF Heard, FrameAbout
    <3>2. JobAbout(x, f)' /\ JobUndoes(x, f)'
      BY <2>2, <2>5, <3>1 DEF JobAbout, JobUndoes, Dispatchers
    <3> QED BY <1>2, <2>4, <3>2 DEF Heard
  <2>6. CASE frame[x].f # f
    <3>1. ~JobAbout(x, f) /\ ~JobAbout(x, f)' /\ ~FrameAbout(x, f)
      BY <2>1, <2>2, <2>6 DEF JobAbout, FrameAbout
    <3> QED BY <1>2, <1>3, <2>4, <3>1 DEF Heard
  <2> QED BY <2>5, <2>6
<1>7. nsState[x].at \in {"Pending", "Draining", "Resolved"}
  BY LiveIs
<1> QED BY <1>5, <1>6, <1>7 DEF Route

\* Taking the next buffered request keeps the last word on its way.
LEMMA HeardDrain ==
  ASSUME Typed, Pipeline, NEW x \in Conn, NEW d \in {"timer", "announce"}, DrainNext(x, d), NEW f \in Fn, Heard(x, f)
  PROVE  Heard(x, f)'
<1>0. OneDispatcher(x) /\ NsTyped /\ JobTyped /\ d \in Dispatchers
  BY DEF Pipeline, Typed, Dispatchers
<1>1. PICK q \in Seq(Request) : q = nsState[x].queue
  BY <1>0 DEF NsTyped
<1>2. /\ q # <<>> /\ nsState'[x].queue = Tail(q) /\ nsState[x].at = "Draining" /\ Drains(x, d)
      /\ UNCHANGED <<frame, functions, ids>> /\ job[<<x, d>>] = Idle
  BY <1>0, <1>1 DEF DrainNext, NsTyped, loopVars, fnVars
<1>3. \A e \in Dispatchers : job[<<x, e>>] = Idle
  BY <1>0, <1>2 DEF OneDispatcher, Dispatchers, Drains, Draining
<1>4. /\ \A e \in Dispatchers : e # d => job'[<<x, e>>] = Idle
      /\ job'[<<x, d>>] # Idle /\ job'[<<x, d>>].f = Head(q).f /\ job'[<<x, d>>].op = Head(q).op
  BY <1>0, <1>1, <1>3 DEF DrainNext, JobTyped, Idle
<1>5. ~JobAbout(x, f)
  BY <1>3 DEF JobAbout
<1>6. (FrameAbout(x, f)' <=> FrameAbout(x, f)) /\ (Silent(x, f) => Silent(x, f)')
  BY <1>2 DEF FrameAbout, Silent
<1>7. /\ QueueAbout(q, f) <=> Head(q).f = f \/ QueueAbout(Tail(q), f)
      /\ QueuedLast(q, f) /\ QueueAbout(Tail(q), f) => QueuedLast(Tail(q), f)
      /\ QueuedLast(q, f) /\ ~QueueAbout(Tail(q), f) => Head(q).f = f /\ Head(q).op = "unregister"
  BY <1>2, QueueShrinks
<1>8. (JobAbout(x, f)' <=> Head(q).f = f) /\ (Head(q).op = "unregister" => JobUndoes(x, f)')
  BY <1>0, <1>4 DEF JobAbout, JobUndoes
<1> QED BY <1>1, <1>2, <1>5, <1>6, <1>7, <1>8 DEF Heard

\* Dispatching keeps the last word on its way, and an unregistration that
\* ends leaves nothing of the function.
LEMMA HeardDispatch ==
  ASSUME Typed, Pipeline, Owned, NEW x \in Conn, NEW d \in Dispatchers, Dispatch(x, d), Live(x),
         NEW f \in Fn, ~Refused(x, f), Heard(x, f)
  PROVE  Heard(x, f)'
<1> DEFINE j == job[<<x, d>>]
<1>0. TableTyped /\ NsTyped /\ JobTyped /\ NoOne \notin Conn /\ x # NoOne
  BY WorkerConnectionsAssumption DEF Typed
<1>1. /\ j # Idle /\ IsJob(j) /\ <<x, d>> \in DOMAIN job /\ InHand(x, d) /\ Serving(x)
      /\ \A e \in Dispatchers : e # d => job[<<x, e>>] = Idle /\ job'[<<x, e>>] = Idle
      /\ UNCHANGED <<nsState, frame>>
  <2>1. j # Idle /\ IsJob(j)
    BY JobAfter
  <2>2. UNCHANGED <<nsState, frame>>
    BY DEF Dispatch, BeginRegister, ClaimFunction, WriteFunction, NoteFunction, BeginUnregister, ReleaseFunction, DropLease, connVars, loopVars
  <2> QED BY <1>0, <2>1, <2>2, Busy, JobAfter DEF JobTyped, Owned, Holding, Working
<1>2. (FrameAbout(x, f)' <=> FrameAbout(x, f)) /\ nsState'[x] = nsState[x] /\ frame'[x] = frame[x]
  BY <1>1 DEF FrameAbout
<1>3. CASE FrameAbout(x, f) \/ QueueAbout(nsState[x].queue, f)
  BY <1>2, <1>3 DEF Heard
<1>4. ASSUME ~FrameAbout(x, f), ~QueueAbout(nsState[x].queue, f), j.f # f
      PROVE  Heard(x, f)'
  <2>1. ~JobAbout(x, f) /\ ~JobAbout(x, f)'
    BY <1>1, <1>4, JobAfter DEF JobAbout
  <2>2. Silent(x, f)
    BY <1>4, <2>1 DEF Heard
  <2>3. \A k \in Keys : k[2] = f => functions'[k] \in {functions[k], NoOne}
    <3>1. UNCHANGED functions \/ WriteFunction(x, d) \/ ReleaseFunction(x, d)
      BY DEF Dispatch, BeginRegister, ClaimFunction, NoteFunction, BeginUnregister, DropLease, fnVars
    <3> QED BY <1>0, <1>4, <3>1 DEF WriteFunction, ReleaseFunction, KeyOf, TableTyped
  <2>4. f \notin ids'[x]
    <3>1. UNCHANGED ids \/ NoteFunction(x, d) \/ BeginUnregister(x, d)
      BY DEF Dispatch, BeginRegister, ClaimFunction, WriteFunction, ReleaseFunction, DropLease, fnVars
    <3> QED BY <1>0, <1>4, <2>2, <3>1 DEF NoteFunction, BeginUnregister, Silent, TableTyped
  <2>5. Silent(x, f)'
    <3> SUFFICES ASSUME NEW ns \in Namespace PROVE functions'[<<ns, f>>] # x
      BY <2>4 DEF Silent
    <3>1. <<ns, f>> \in Keys /\ functions[<<ns, f>>] # x
      BY <2>2 DEF Keys, Silent
    <3> QED BY <1>0, <2>3, <3>1
  <2> QED BY <1>2, <1>4, <2>1, <2>5 DEF Heard
<1>5. ASSUME ~FrameAbout(x, f), ~QueueAbout(nsState[x].queue, f), j.f = f
      PROVE  Heard(x, f)'
  <2>1. JobAbout(x, f)
    BY <1>1, <1>5 DEF JobAbout
  <2>2. j.at \in Leaving \/ j.op = "unregister"
    BY <1>1, <1>5, <2>1 DEF Heard, JobUndoes
  <2>3. CASE BeginUnregister(x, d)
    <3>1. job'[<<x, d>>].f = f /\ job'[<<x, d>>].at = "release" /\ job'[<<x, d>>] # Idle
      BY <1>1, <1>5, <2>3 DEF BeginUnregister, Idle
    <3>2. JobAbout(x, f)' /\ JobUndoes(x, f)'
      BY <1>1, <3>1 DEF JobAbout, JobUndoes, Leaving
    <3> QED BY <1>2, <1>5, <3>2 DEF Heard
  <2>4. ASSUME job'[<<x, d>>] = Idle, \A ns \in Namespace : functions'[<<ns, f>>] # x, f \notin ids'[x]
        PROVE  Heard(x, f)'
    <3>1. ~JobAbout(x, f)' /\ Silent(x, f)'
      BY <1>1, <2>4 DEF JobAbout, Silent
    <3> QED BY <1>2, <1>5, <3>1 DEF Heard
  <2>5. CASE ReleaseFunction(x, d)
    <3>1. PICK k : k = <<j.ns, j.f>>
      OBVIOUS
    <3>2. k \in Keys /\ j.ns = nsState[x].ns /\ f \notin ids[x] /\ k[1] = j.ns /\ UNCHANGED ids
      BY <1>1, <1>5, <2>5, <3>1 DEF ReleaseFunction, Doing, InHand, Leaving, IsJob, Keys
    <3>3. CASE Goto(x, d, "drop", k[1])
      <4>1. job'[<<x, d>>].f = f /\ job'[<<x, d>>].at = "drop" /\ job'[<<x, d>>] # Idle
        BY <1>1, <1>5, <3>3 DEF Goto, Idle
      <4>2. JobAbout(x, f)' /\ JobUndoes(x, f)'
        BY <1>1, <4>1 DEF JobAbout, JobUndoes, Leaving
      <4> QED BY <1>2, <1>5, <4>2 DEF Heard
    <3>4. CASE Finish(x, d) /\ (functions' = [functions EXCEPT ![k] = NoOne] \/ (UNCHANGED functions /\ owners[k] # x))
      <4>1. job'[<<x, d>>] = Idle
        BY <1>1, <3>4 DEF Finish
      <4>2. ASSUME NEW ns \in Namespace PROVE functions'[<<ns, f>>] # x
        <5>1. PICK l \in Keys : l = <<ns, f>>
          BY DEF Keys
        <5>2. functions[l] = x => l = k /\ owners[k] = x
          BY <1>1, <1>5, <3>1, <3>2, <5>1 DEF Serving
        <5>3. functions'[l] # x
          BY <1>0, <3>2, <3>4, <5>2 DEF TableTyped
        <5> QED BY <5>1, <5>3
      <4> QED BY <2>4, <3>2, <4>1, <4>2
    <3> QED BY <2>5, <3>1, <3>3, <3>4 DEF ReleaseFunction, KeyOf
  <2>6. CASE DropLease(x, d)
    <3>1. PICK k : k = <<j.ns, j.f>>
      OBVIOUS
    <3>2. k \in Keys /\ j.ns = nsState[x].ns /\ f \notin ids[x] /\ functions[k] # x /\ UNCHANGED <<ids, functions>>
      BY <1>1, <1>5, <2>6, <3>1 DEF DropLease, Doing, InHand, Leaving, IsJob, Keys, KeyOf
    <3>3. job'[<<x, d>>] = Idle
      BY <1>1, <2>6 DEF DropLease, Finish
    <3>4. ASSUME NEW ns \in Namespace PROVE functions'[<<ns, f>>] # x
      <4>1. PICK l \in Keys : l = <<ns, f>>
        BY DEF Keys
      <4>2. functions[l] = x => l = k
        BY <1>1, <1>5, <3>1, <3>2, <4>1 DEF Serving
      <4> QED BY <3>2, <4>1, <4>2
    <3> QED BY <2>4, <3>2, <3>3, <3>4
  <2>7. ~BeginRegister(x, d) /\ ~ClaimFunction(x, d) /\ ~WriteFunction(x, d) /\ ~NoteFunction(x, d)
    BY <1>1, <2>2 DEF BeginRegister, ClaimFunction, WriteFunction, NoteFunction, Doing, IsJob, Claiming, Claimed, Leaving, Registers
  <2> QED BY <2>3, <2>5, <2>6, <2>7 DEF Dispatch
<1> QED BY <1>3, <1>4, <1>5

\* A new request about a function becomes the last word about it.
LEMMA HeardReceive ==
  ASSUME Typed, NEW x \in Conn, NEW m \in Request, Receive(x, m), NEW f \in Fn, Gone(x, f)', Gone(x, f) => Heard(x, f)
  PROVE  Heard(x, f)'
<1>0. FrameTyped
  BY DEF Typed
<1>1. frame[x] = Idle /\ frame'[x] = m /\ m # Idle /\ UNCHANGED <<nsState, job, functions, ids>>
  BY <1>0, IdleIsNoJob DEF Receive, Reads, Reading, FrameTyped, connVars, fnVars
<1>2. PICK n \in Nat : n = Len(arrived[x])
  BY RequestRecorded
<1>3. /\ m.f = f => About(x, f)' = About(x, f) \cup {n + 1}
      /\ m.f # f => About(x, f)' = About(x, f)
      /\ arrived'[x][n + 1] = m
      /\ \A i \in About(x, f) : i \in Nat /\ i <= n /\ arrived'[x][i] = arrived[x][i]
  BY <1>2, RequestRecorded
<1>4. CASE m.f = f
  <2>1. PICK i \in About(x, f)' : (\A k \in About(x, f)' : k <= i) /\ arrived'[x][i].op = "unregister"
    BY DEF Gone
  <2>2. i = n + 1
    BY <1>3, <1>4, <2>1
  <2>3. m.op = "unregister"
    BY <1>3, <2>1, <2>2
  <2> QED BY <1>1, <1>4, <2>3 DEF Heard, FrameAbout
<1>5. CASE m.f # f
  <2>1. Gone(x, f)
    BY <1>3, <1>5 DEF Gone
  <2>2. Heard(x, f)
    BY <2>1
  <2>3. ~FrameAbout(x, f) /\ ~FrameAbout(x, f)'
    BY <1>1, <1>5 DEF FrameAbout
  <2>4. (JobAbout(x, f)' <=> JobAbout(x, f)) /\ (JobUndoes(x, f) => JobUndoes(x, f)') /\ (Silent(x, f) => Silent(x, f)')
    BY <1>1 DEF JobAbout, JobUndoes, Silent
  <2> QED BY <1>1, <2>2, <2>3, <2>4 DEF Heard
<1> QED BY <1>4, <1>5

\* Every step keeps the last word on its way, or heard.
LEMMA WordsStep ==
  ASSUME Typed, Pipeline, Owned, Words, NEW x \in Conn, Steps(x)
  PROVE  Words'
<1> SUFFICES ASSUME NEW c \in Conn, Flowing(c)', NEW f \in Fn, Gone(c, f)', ~Refused(c, f)'
             PROVE  Heard(c, f)'
  BY DEF Words, LastWord
<1>0. ~Refused(c, f) /\ NsTyped /\ JobTyped /\ TableTyped /\ Moves(x) /\ NoOne \notin Conn
  BY Remembered, TableStep, WorkerConnectionsAssumption DEF Typed
<1>1. CASE c = x /\ \E m \in Request : Receive(x, m)
  <2>1. PICK m \in Request : Receive(x, m)
    BY <1>1
  <2>2. ~Connect(x)
    BY <2>1 DEF Receive, Reads, Reading, Connect
  <2>3. Gone(x, f) => Heard(x, f)
    BY <1>0, <1>1, <2>2, FlowingFrom DEF Words, LastWord
  <2> QED BY <1>1, <2>1, <2>3, HeardReceive
<1>2. ASSUME ~(c = x /\ \E m \in Request : Receive(x, m))
      PROVE  Heard(c, f)'
  <2>1. Gone(c, f)
    BY <1>2, OtherwiseRecorded DEF Gone
  <2>2. ~(c = x /\ Connect(x))
    BY <2>1 DEF Connect, Pipeline, Life, Unused, Gone, About
  <2>3. Flowing(c) /\ Heard(c, f) /\ Live(c)
    BY <1>0, <2>1, <2>2, FlowingFrom DEF Words, LastWord, Flowing
  <2>4. CASE c # x
    <3>1. Beside(c)
      BY <2>4, Besides
    <3>2. \A k \in Keys : functions'[k] = c => functions[k] = c
      BY <1>0, <2>4 DEF Moves
    <3>3. /\ frame'[c] = frame[c] /\ nsState'[c].queue = nsState[c].queue /\ ids'[c] = ids[c]
          /\ \A d \in Dispatchers : job'[<<c, d>>] = job[<<c, d>>]
      BY <3>1 DEF Beside
    <3> QED BY <2>3, <3>2, <3>3, HeardStill
  <2>5. CASE c = x /\ Works(x)
    BY <1>0, <2>3, <2>5, HeardDispatch DEF Works
  <2>6. CASE c = x /\ Route(x)
    BY <2>3, <2>6, HeardRoute
  <2>7. CASE c = x /\ \E d \in {"timer", "announce"} : DrainNext(x, d)
    BY <2>3, <2>7, HeardDrain
  <2>8. CASE c = x /\ TimerDropped(x)
    <3>1. timer[x] \in Draining /\ timer'[x] = "off" /\ UNCHANGED <<nsState, announce>>
      BY <2>8 DEF TimerDropped, Draining, Typed, LoopTyped
    <3>2. nsState[x].at = "Draining" /\ announce[x].at # "draining"
      <4>1. nsState[x].at \in {"Pending", "Draining", "Resolved"}
        BY <2>3, <2>8, LiveIs
      <4> QED BY <3>1, <4>1 DEF Pipeline, OneDispatcher
    <3> QED BY <2>8, <3>1, <3>2 DEF Flowing, Draining
  <2>9. ASSUME c = x, ~Works(x), ~Route(x), ~TimerDropped(x), ~\E d \in {"timer", "announce"} : DrainNext(x, d)
        PROVE  Heard(c, f)'
    <3>1. UNCHANGED job
      BY <2>9, JobWriters
    <3>2. UNCHANGED frame
      BY <1>2, <2>2, <2>9, TaskWriters DEF Hears, Loops, Announce, Reattach, loopVars, EndLoop, RetireTimeout, Retired, CleanupUnregister
    <3>3. nsState'[x].queue = nsState[x].queue
      <4>1. AbortResolution(x) => FALSE
        BY <1>0, <2>9 DEF AbortResolution, NsTyped, Flowing, Live, TearingDown
      <4>2. CleanupForget(x) => FALSE
        BY <2>3, <2>9, LiveIs DEF CleanupForget
      <4>3. GraceExpires(x) \/ Resolve(x) => nsState'[x].queue = nsState[x].queue
        BY <1>0 DEF GraceExpires, Resolve, ToDraining, NsTyped
      <4>4. ASSUME NEW d \in {"timer", "announce"}, DrainEnds(x, d)
            PROVE  nsState'[x].queue = nsState[x].queue
        BY <1>0, <4>4 DEF DrainEnds, NsTyped
      <4> QED BY <2>2, <2>9, <4>1, <4>2, <4>3, <4>4, NsWriters DEF Takes
    <3>4. ids'[x] = ids[x] /\ \A k \in Keys : functions'[k] = x => functions[k] = x
      <4>1. ASSUME NEW g \in Fn, CleanupRelease(x, g)
            PROVE  FALSE
        BY <2>3, <2>9, <4>1, LiveIs DEF CleanupRelease
      <4>2. CleanupDropLease(x) => FALSE
        BY <2>3, <2>9, LiveIs DEF CleanupDropLease
      <4> QED BY <2>9, <4>1, <4>2, TableWriters
    <3> QED BY <2>3, <2>9, <3>1, <3>2, <3>3, <3>4, HeardStill
  <2> QED BY <2>4, <2>5, <2>6, <2>7, <2>8, <2>9
<1> QED BY <1>1, <1>2

-----------------------------------------------------------------------------
(* The theorems. *)

\* The invariant holds at first.
LEMMA InitIInv ==
  ASSUME Init
  PROVE  IInv
<1>0. \A c \in Conn : /\ nsState[c] = Unknown /\ timer[c] = "off" /\ announce[c].at = "no" /\ reader[c] = "new"
                      /\ frame[c] = Idle /\ evict[c] = FALSE /\ cleanup[c].at = "no" /\ ids[c] = {}
                      /\ arrived[c] = <<>> /\ raced[c] = FALSE /\ \A d \in Dispatchers : job[<<c, d>>] = Idle
  BY DEF Init
<1>1. Typed
  <2>1. LoopTyped /\ FrameTyped /\ LogTyped
    BY DEF Init, LoopTyped, FrameTyped, LogTyped, Timers, Readers, Holder
  <2>2. TableTyped /\ JobTyped
    BY DEF Init, TableTyped, JobTyped, Holder
  <2>3. NsTyped /\ AnnounceTyped /\ CleanupTyped
    BY WorkerConnectionsAssumption DEF Init, NsTyped, AnnounceTyped, CleanupTyped, Unknown, NsStates, Announces, Cleanups
  <2> QED BY <2>1, <2>2, <2>3 DEF Typed
<1>2. ASSUME NEW c \in Conn
      PROVE  Life(c) /\ Retiring(c) /\ OneDispatcher(c) /\ Refusals(c) /\ Fresh(c) /\ ~Live(c)
  <2>1. c \notin registered /\ ~InFlight(c)
    BY <1>0 DEF Init, InFlight
  <2>2. Life(c) /\ ~Live(c)
    BY <1>0, <2>1 DEF Life, Unused, Unknown, Teardown, Live
  <2>3. Retiring(c) /\ OneDispatcher(c)
    BY <1>0, <2>1 DEF Retiring, OneDispatcher, Unknown, Draining, Dispatchers
  <2>4. Refusals(c)
    BY <1>0 DEF Refusals, Unknown
  <2>5. Fresh(c)
    BY <1>0, WorkerConnectionsAssumption DEF Init, Fresh, Idles
  <2> QED BY <2>2, <2>3, <2>4, <2>5
<1>3. Leases /\ Handlers
  BY <1>0, WorkerConnectionsAssumption DEF Init, Leases, Handlers
<1> QED BY <1>1, <1>2, <1>3 DEF IInv, Pipeline, Refusal, Untouched, Owned, Words, LastWord, Flowing

\* Every step keeps the invariant.
LEMMA NextIInv ==
  ASSUME IInv, [Next]_vars
  PROVE  IInv'
<1>1. ASSUME NEW x \in Conn, Steps(x)
      PROVE  IInv'
  BY <1>1, TypedStep, PipelineStep, RefusalStep, UntouchedStep, OwnedStep, LeasesStep, HandlersStep, WordsStep DEF IInv
<1>2. CASE UNCHANGED vars
  <2>1. /\ UNCHANGED <<registered, nsState, timer, announce, reader, frame, previous, evict, job, cleanup>>
        /\ UNCHANGED <<owners, functions, ids, arrived, raced>>
    BY <1>2 DEF vars, connVars, loopVars, fnVars
  <2>2. Typed'
    BY <2>1 DEF IInv, Typed, LoopTyped, FrameTyped, LogTyped, TableTyped, NsTyped, AnnounceTyped, CleanupTyped, JobTyped
  <2>3. Pipeline'
    <3> SUFFICES ASSUME NEW c \in Conn
                 PROVE  Life(c)' /\ Retiring(c)' /\ OneDispatcher(c)'
      BY DEF Pipeline
    <3>1. Life(c) /\ Retiring(c) /\ OneDispatcher(c)
      BY DEF IInv, Pipeline
    <3>2. InFlight(c)' <=> InFlight(c)
      BY <2>1 DEF InFlight
    <3>3. Life(c)'
      BY <2>1, <3>1 DEF Life, Unused
    <3>4. Retiring(c)'
      BY <2>1, <3>1 DEF Retiring, Stopping
    <3>5. OneDispatcher(c)'
      BY <2>1, <3>1, <3>2 DEF OneDispatcher
    <3> QED BY <3>3, <3>4, <3>5
  <2>4. (\A c, f : (About(c, f)' = About(c, f)) /\ (Refused(c, f)' <=> Refused(c, f)) /\ (Sent(c, f)' <=> Sent(c, f)))
        /\ \A c : Live(c)' <=> Live(c)
    BY <2>1 DEF About, Refused, Sent, Live, TearingDown
  <2>5. Refusal'
    BY <2>1, <2>4 DEF IInv, Refusal, Refusals
  <2>6. Untouched'
    BY <2>1 DEF IInv, Untouched, Fresh, Idles
  <2>7. Owned'
    BY <2>1, <2>4 DEF IInv, Owned, Holding, Counted, Serving, Working, InHand, KeyOf
  <2>8. Leases'
    <3>1. \A c \in Conn : \A k \in Keys : Accounted(c, k)' <=> Accounted(c, k)
      BY <2>1 DEF Accounted, KeyOf
    <3> QED BY <2>1, <3>1 DEF IInv, Leases
  <2>9. Handlers'
    BY <2>1, <2>4 DEF IInv, Handlers, NoRefusal, KeyOf
  <2>10. Words'
    <3>1. \A c, f : (Gone(c, f)' <=> Gone(c, f)) /\ (Heard(c, f)' <=> Heard(c, f))
      BY <2>1, <2>4 DEF Gone, Heard, FrameAbout, JobAbout, JobUndoes, Silent
    <3>2. \A c : Flowing(c)' <=> Flowing(c)
      BY <2>1, <2>4 DEF Flowing
    <3> QED BY <2>4, <3>1, <3>2 DEF IInv, Words, LastWord
  <2> QED BY <2>2, <2>3, <2>5, <2>6, <2>7, <2>8, <2>9, <2>10 DEF IInv
<1> QED BY <1>1, <1>2 DEF Next, Steps

\* What the engine keeps of its connections is typed, and the life of a
\* connection, its pipeline, its leases and its handlers go together.
THEOREM Invariant == Spec => []IInv
<1>1. Init => IInv
  BY InitIInv
<1>2. IInv /\ [Next]_vars => IInv'
  BY NextIInv
<1> QED BY <1>1, <1>2, PTL DEF Spec

\* A live connection that counts a function as its own has settled its namespace.
LEMMA CountedNamespace ==
  ASSUME IInv, NEW c \in Conn, Live(c), ids[c] # {}
  PROVE  ConnectionNamespace(c) = nsState[c].ns
<1>1. nsState[c].at \in {"Pending", "Draining", "Resolved"}
  BY LiveIs DEF IInv
<1>2. nsState[c].at # "Pending"
  BY DEF IInv, Untouched, Fresh, Idles
<1> QED BY <1>1, <1>2 DEF ConnectionNamespace, Fixed

\* SuccessorKept: what a live connection counts as its own stays its own.
THEOREM OwnKept == Spec => []SuccessorKept
<1>1. IInv => SuccessorKept
  <2> SUFFICES ASSUME IInv, NEW c \in Conn, NEW f \in Fn, Live(c), f \in ids[c], ~Refused(c, f)
               PROVE  /\ owners[<<ConnectionNamespace(c), f>>] = c
                      /\ functions[<<ConnectionNamespace(c), f>>] # NoOne
    BY DEF SuccessorKept
  <2>1. ConnectionNamespace(c) = nsState[c].ns
    BY CountedNamespace
  <2> QED BY <2>1 DEF IInv, Owned, Holding, Counted
<1> QED BY <1>1, Invariant, PTL

\* OneServer: two live connections of a namespace never both count a function
\* as theirs.
THEOREM ServedByOne == Spec => []OneServer
<1>1. IInv => OneServer
  <2> SUFFICES ASSUME IInv, NEW c \in Conn, NEW d \in Conn, NEW f \in Fn, c # d, Live(c), Live(d),
                      f \in ids[c], f \in ids[d], ~Refused(c, f), ~Refused(d, f)
               PROVE  ConnectionNamespace(c) # ConnectionNamespace(d)
    BY DEF OneServer
  <2>1. ConnectionNamespace(c) = nsState[c].ns /\ ConnectionNamespace(d) = nsState[d].ns
    BY CountedNamespace
  <2>2. owners[<<nsState[c].ns, f>>] = c /\ owners[<<nsState[d].ns, f>>] = d
    BY DEF IInv, Owned, Holding, Counted
  <2> QED BY <2>1, <2>2
<1> QED BY <1>1, Invariant, PTL

\* CleanSlate: a finished teardown leaves no lease behind and, while no teardown
\* met a registration in flight, no handler without a claim.
THEOREM NothingLeft == Spec => []CleanSlate
<1>1. IInv => CleanSlate
  <2> SUFFICES ASSUME IInv, NEW c \in Conn, cleanup[c].at = "done", ~raced[c], NEW k \in Keys
               PROVE  /\ owners[k] # c
                      /\ functions[k] = c /\ (\A d \in Conn : ~raced[d] /\ ~Refused(d, k[2])) => owners[k] # NoOne
    BY DEF CleanSlate
  <2>1. ~InFlight(c)
    BY DEF IInv, Pipeline, OneDispatcher
  <2>2. ~Accounted(c, k)
    BY <2>1 DEF Accounted, InFlight
  <2>3. owners[k] # c
    BY <2>2 DEF IInv, Leases
  <2>4. functions[k] = c /\ (\A d \in Conn : ~raced[d] /\ ~Refused(d, k[2])) => owners[k] # NoOne
    BY WorkerConnectionsAssumption DEF IInv, Handlers, NoRefusal
  <2> QED BY <2>3, <2>4
<1> QED BY <1>1, Invariant, PTL

\* LastWordWins: a settled connection serves nothing it has unregistered last,
\* whatever its registrations went through.
THEOREM UnregisterWins == Spec => []LastWordWins
<1>1. IInv => LastWordWins
  <2> SUFFICES ASSUME IInv, NEW c \in Conn, NEW f \in Fn, Settled(c), ~Refused(c, f), Gone(c, f)
               PROVE  Silent(c, f)
    BY DEF LastWordWins, Gone, Silent
  <2>1. Flowing(c) /\ frame[c] = Idle /\ \A d \in Dispatchers : job[<<c, d>>] = Idle
    BY DEF Settled, Flowing, InFlight
  <2>2. nsState[c].queue = <<>>
    BY DEF Settled, IInv, Pipeline, Life
  <2>3. ~FrameAbout(c, f)
    BY <2>1 DEF FrameAbout
  <2>4. ~JobAbout(c, f)
    BY <2>1 DEF JobAbout
  <2>5. ~QueueAbout(nsState[c].queue, f)
    <3>1. Len(nsState[c].queue) = 0
      BY <2>2
    <3> QED BY <3>1 DEF QueueAbout
  <2>6. Heard(c, f)
    BY <2>1 DEF IInv, Words, LastWord
  <2> QED BY <2>3, <2>4, <2>5, <2>6 DEF Heard
<1> QED BY <1>1, Invariant, PTL
====
