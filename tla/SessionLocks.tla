----------------------------- MODULE SessionLocks -----------------------------
(****************************************************************************)
(* The per-pair lock of SessionEngine.withLock composed with the recovery   *)
(* barrier.  withLock queues on the promise chain of the pair first and     *)
(* calls runListener second (session-engine.ts 269-291).  Operations reach  *)
(* it on two paths:                                                         *)
(*   - a direct call (dashboard sale or ignore, expiry by the scheduler)    *)
(*     takes the lock, then the barrier;                                    *)
(*   - a chunk of swap logs, or a pass of the exit monitor, is already in   *)
(*     the barrier when it takes the locks of its pairs: a chunk first of   *)
(*     all its pairs together, to expire them, then, like the monitor, of   *)
(*     one after another.                                                   *)
(****************************************************************************)
EXTENDS RecoveryBarrier

CONSTANTS
  Chunks,        \* listeners that enter the barrier and then lock pairs
  Directs,       \* listeners that lock a pair and then enter the barrier
  ChunkPairs,    \* pairs a chunk may hold events of
  DirectPairs    \* pairs a direct call may name

ASSUME LocksAssumption ==
  /\ Chunks \cup Directs = Listeners
  /\ Chunks \cap Directs = {}

VARIABLES
  queue,    \* promise chain of each pair: its head runs or may run
  expire,   \* pairs a chunk has yet to ask to expire
  todo,     \* pairs whose events, or whose exit, a chunk has yet to process
  running   \* pairs whose operation a chunk runs inside its own scope

Pairs == ChunkPairs \cup DirectPairs
chunkVars == <<expire, todo, running>>
locksVars == <<vars, queue, chunkVars>>

Queued(t, p) == \E i \in DOMAIN queue[p] : queue[p][i] = t
Holds(t, p) == queue[p] # <<>> /\ Head(queue[p]) = t
Unqueued(t) == \A p \in Pairs : ~Queued(t, p)

LocksInit ==
  /\ Init
  /\ queue = [p \in Pairs |-> <<>>]
  /\ expire = [c \in Chunks |-> {}]
  /\ todo = [c \in Chunks |-> {}]
  /\ running = [c \in Chunks |-> {}]

JoinQueue(t, p) == queue' = [queue EXCEPT ![p] = Append(@, t)]

\* Faulty variant: the marker of the first holder is never resolved.
KeepQueue(t, p) ==
  /\ Holds(t, p)
  /\ queue' = IF Len(queue[p]) > 1 THEN queue ELSE [queue EXCEPT ![p] = <<>>]

\* resolveCurrent in the finally block: the next of the chain may start.
LeaveQueue(t, p) ==
  /\ Holds(t, p)
  /\ queue' = [queue EXCEPT ![p] = Tail(@)]

------------------------------------------------------------------------------
(* Barrier first.                                                           *)

\* runListener(processChunk) or runListener(runPass): the pairs the chunk has
\* to expire and those of its events.
ChunkCall(c) ==
  /\ EnterListener(c) \/ QueueListener(c)
  /\ \E P, Q \in SUBSET ChunkPairs : /\ expire' = [expire EXCEPT ![c] = P]
                                     /\ todo' = [todo EXCEPT ![c] = Q]
  /\ UNCHANGED <<queue, running>>

\* Promise.allSettled over expireIfNeeded: one synchronous stretch queues the
\* chunk on every pair.
ChunkExpire(c) ==
  /\ pc[c] = "inside"
  /\ expire[c] # {}
  /\ queue' = [p \in Pairs |-> IF p \in expire[c] THEN Append(queue[p], c) ELSE queue[p]]
  /\ expire' = [expire EXCEPT ![c] = {}]
  /\ UNCHANGED <<vars, todo, running>>

\* onSwap, or requestPolicyExit, of one session, once the last one is done.
ChunkLock(c, p) ==
  /\ pc[c] = "inside"
  /\ expire[c] = {} /\ p \in todo[c]
  /\ Unqueued(c)
  /\ JoinQueue(c, p)
  /\ todo' = [todo EXCEPT ![c] = @ \ {p}]
  /\ UNCHANGED <<vars, expire, running>>

\* Faulty variant: the scope of the chunk is lost, and its operation parks
\* behind a recovery as a call of its own would.
ChunkRunParks(c, p) ==
  /\ Holds(c, p)
  /\ p \notin running[c]
  /\ IF recoveryWaiters # <<>> /\ pc[c] = "inside"
     THEN /\ pc' = [pc EXCEPT ![c] = "waiting"]
          /\ listenerWaiters' = listenerWaiters \cup {c}
          /\ UNCHANGED <<activeListeners, recoveryActive, recoveryWaiters, nested, running>>
     ELSE /\ running' = [running EXCEPT ![c] = @ \cup {p}]
          /\ \/ running[c] = {} /\ RunNested(c, "awaited")
             \/ running[c] # {} /\ UNCHANGED vars
  /\ UNCHANGED <<queue, expire, todo>>

\* Its turn: runListener again, inside the scope of the chunk.
ChunkRun(c, p) ==
  /\ Holds(c, p)
  /\ p \notin running[c]
  /\ running' = [running EXCEPT ![c] = @ \cup {p}]
  /\ \/ running[c] = {} /\ RunNested(c, "awaited")
     \/ running[c] # {} /\ UNCHANGED vars
  /\ UNCHANGED <<queue, expire, todo>>

ChunkUnlock(c, p) ==
  /\ p \in running[c]
  /\ running' = [running EXCEPT ![c] = @ \ {p}]
  /\ \/ running[c] = {p} /\ EndNested(c)
     \/ running[c] # {p} /\ UNCHANGED vars
  /\ LeaveQueue(c, p)
  /\ UNCHANGED <<expire, todo>>

\* The chunk returns, or throws and abandons the pairs it has left; it waits
\* for every expiry it has asked for.
ChunkLeave(c) ==
  /\ Unqueued(c)
  /\ ReleaseListener(c)
  /\ expire' = [expire EXCEPT ![c] = {}]
  /\ todo' = [todo EXCEPT ![c] = {}]
  /\ UNCHANGED <<queue, running>>

------------------------------------------------------------------------------
(* Lock first.                                                              *)

DirectLock(d, p) ==
  /\ pc[d] = "idle"
  /\ Unqueued(d)
  /\ JoinQueue(d, p)
  /\ UNCHANGED <<vars, chunkVars>>

\* Faulty variant: the operation is called without the barrier.
DirectRunBare(d, p) ==
  /\ Holds(d, p)
  /\ pc[d] = "idle"
  /\ pc' = [pc EXCEPT ![d] = "inside"]
  /\ activeListeners' = activeListeners + 1
  /\ UNCHANGED <<recoveryActive, listenerWaiters, recoveryWaiters, nested, queue, chunkVars>>

DirectRun(d, p) ==
  /\ Holds(d, p)
  /\ EnterListener(d) \/ QueueListener(d)
  /\ UNCHANGED <<queue, chunkVars>>

DirectUnlock(d, p) ==
  /\ LeaveQueue(d, p)
  /\ ReleaseListener(d)
  /\ UNCHANGED chunkVars

------------------------------------------------------------------------------
RecoveryStep(r) == RecoveryNext(r) /\ UNCHANGED <<queue, chunkVars>>

LocksNext ==
  \/ \E c \in Chunks : ChunkCall(c) \/ ChunkExpire(c) \/ ChunkLeave(c)
  \/ \E c \in Chunks, p \in ChunkPairs : ChunkLock(c, p) \/ ChunkRun(c, p) \/ ChunkUnlock(c, p)
  \/ \E d \in Directs, p \in DirectPairs : DirectLock(d, p) \/ DirectRun(d, p) \/ DirectUnlock(d, p)
  \/ \E r \in Recoveries : RecoveryStep(r)

LocksSpec == LocksInit /\ [][LocksNext]_locksVars

\* A promise whose predecessors are settled is scheduled, an operation that
\* runs ends; nobody has to start one.  The release of a chunk needs strong
\* fairness: it is disabled while the chunk is inside one of its sessions.
LocksFairness ==
  /\ \A c \in Chunks : SF_locksVars(ChunkLeave(c))
  /\ \A c \in Chunks, p \in ChunkPairs : WF_locksVars(ChunkRun(c, p)) /\ WF_locksVars(ChunkUnlock(c, p))
  /\ \A d \in Directs, p \in DirectPairs : WF_locksVars(DirectRun(d, p)) /\ WF_locksVars(DirectUnlock(d, p))
  /\ \A r \in Recoveries : WF_locksVars(ReleaseRecovery(r) /\ UNCHANGED <<queue, chunkVars>>)

LocksFairSpec == LocksSpec /\ LocksFairness

------------------------------------------------------------------------------
(* Properties.                                                              *)

\* Every lock queue holds listener tasks.
QueueOK ==
  /\ queue \in [Pairs -> Seq(Listeners)]
  /\ expire \in [Chunks -> SUBSET ChunkPairs]
  /\ todo \in [Chunks -> SUBSET ChunkPairs]
  /\ running \in [Chunks -> SUBSET ChunkPairs]

\* A task waits for the pairs it is queued on, the pair standing for the
\* operation at the head of its queue; what is parked at the barrier waits for
\* the recoveries, and a parked recovery for all that is inside.
WaitsFor(x, y) ==
  \/ x \in Listeners /\ y \in Pairs /\ Queued(x, y)
  \/ x \in Pairs /\ y \in Recoveries /\ queue[x] # <<>> /\ pc[Head(queue[x])] = "waiting" /\ pc[y] # "idle"
  \/ x \in Recoveries /\ y \in Tasks /\ pc[x] = "waiting" /\ pc[y] = "inside"

\* A direct call has asked for the barrier with the lock of p in hand, and
\* waits behind a recovery that waits for a chunk that waits for the lock.
Crossing(p) ==
  /\ queue[p] # <<>> /\ Head(queue[p]) \in Directs /\ pc[Head(queue[p])] = "waiting"
  /\ \E c \in Chunks : Queued(c, p)

Crossed == \E p \in Pairs : Crossing(p)

\* The two waits an operation makes, for its pair and for the barrier, close a
\* circle in one way only: a set in which everyone waits for another of the
\* set holds a pair on which a direct call and a chunk have crossed.
OnlyCrossings ==
  \A S \in (SUBSET (Tasks \cup Pairs)) \ {{}} :
    (\A x \in S : \E y \in S : WaitsFor(x, y)) => \E p \in S \cap Pairs : Crossing(p)

\* Nobody gets out of a crossing: no step of anybody undoes it, before the
\* process ends.
CrossingsLast == [][\A p \in Pairs : Crossing(p) => Crossing(p)']_locksVars

\* No session operation runs while a recovery does, on either path.
SessionsQuiet ==
  InsideRecoveries # {} =>
    \A p \in Pairs : queue[p] # <<>> =>
      LET t == Head(queue[p]) IN pc[t] # "inside" /\ nested[t] = "none"

\* A call that queued on a pair gets through it, unless some pair is crossed:
\* the dashboard is answered and a chunk advances.
CallsAnswered ==
  \A t \in Listeners : ~Unqueued(t) ~> Unqueued(t) \/ Crossed

\* A recovery that waits for the barrier gets it, whatever locks are held,
\* unless some pair is crossed.
RecoveryAdmitted ==
  \A r \in Recoveries : pc[r] = "waiting" ~> pc[r] = "inside" \/ Crossed

\* Locks and barrier together keep nobody waiting for ever, but for crossings.
EveryoneServed == CallsAnswered /\ RecoveryAdmitted
==============================================================================
