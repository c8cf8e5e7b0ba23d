---------------------------- MODULE RecoveryBarrier ----------------------------
(****************************************************************************)
(* The shared/exclusive barrier of src/recovery/runtime-recovery-barrier.ts.*)
(* Listener operations (swap chunks, session actions) enter in shared mode, *)
(* recovery passes and reorg handlers in exclusive mode.  A listener that   *)
(* calls runListener again inside its own AsyncLocalStorage scope runs the  *)
(* inner operation at once and uncounted (lines 15-17).                     *)
(*                                                                          *)
(* JavaScript runs each synchronous stretch of the class without            *)
(* interruption, so one action is one such stretch.  A granted task is      *)
(* "inside" from the moment its resolve function is called: the counters    *)
(* already speak for it although its continuation has yet to be scheduled.  *)
(****************************************************************************)
EXTENDS Integers, Sequences, FiniteSets

CONSTANTS
  Listeners,    \* tasks that call runListener
  Recoveries,   \* tasks that call runRecovery
  Detaching     \* the listeners whose operation starts a nested run it does not await

ASSUME BarrierAssumption ==
  /\ IsFiniteSet(Listeners)
  /\ Listeners \cap Recoveries = {}
  /\ Detaching \subseteq Listeners

VARIABLES
  activeListeners,   \* counted listener operations
  recoveryActive,    \* a recovery holds the barrier
  listenerWaiters,   \* listeners whose resolve function is parked
  recoveryWaiters,   \* FIFO of recoveries whose resolve function is parked
  pc,                \* where each task is: idle, waiting, inside
  nested             \* the nested run of each listener: none, awaited, detached

vars == <<activeListeners, recoveryActive, listenerWaiters, recoveryWaiters, pc, nested>>

Tasks == Listeners \cup Recoveries
InsideListeners == {l \in Listeners : pc[l] = "inside"}
InsideRecoveries == {r \in Recoveries : pc[r] = "inside"}

Init ==
  /\ activeListeners = 0
  /\ recoveryActive = FALSE
  /\ listenerWaiters = {}
  /\ recoveryWaiters = <<>>
  /\ pc = [t \in Tasks |-> "idle"]
  /\ nested = [l \in Listeners |-> "none"]

------------------------------------------------------------------------------
(* Listener side.                                                           *)

\* Faulty variant: the queue of recoveries is not looked at.
MayListenIgnoringWaiters == ~recoveryActive

\* The condition under which acquireListener counts the caller in at once.
MayListen == ~recoveryActive /\ recoveryWaiters = <<>>

EnterListener(l) ==
  /\ pc[l] = "idle"
  /\ nested[l] = "none"
  /\ MayListen
  /\ activeListeners' = activeListeners + 1
  /\ pc' = [pc EXCEPT ![l] = "inside"]
  /\ UNCHANGED <<recoveryActive, listenerWaiters, recoveryWaiters, nested>>

QueueListener(l) ==
  /\ pc[l] = "idle"
  /\ nested[l] = "none"
  /\ ~MayListen
  /\ listenerWaiters' = listenerWaiters \cup {l}
  /\ pc' = [pc EXCEPT ![l] = "waiting"]
  /\ UNCHANGED <<activeListeners, recoveryActive, recoveryWaiters, nested>>

\* runListener inside an active scope: no acquisition, no count.
RunNested(l, mode) ==
  /\ pc[l] = "inside"
  /\ nested[l] = "none"
  /\ nested' = [nested EXCEPT ![l] = mode]
  /\ UNCHANGED <<activeListeners, recoveryActive, listenerWaiters, recoveryWaiters, pc>>

EndNested(l) ==
  /\ nested[l] # "none"
  /\ nested' = [nested EXCEPT ![l] = "none"]
  /\ UNCHANGED <<activeListeners, recoveryActive, listenerWaiters, recoveryWaiters, pc>>

------------------------------------------------------------------------------
(* Hand-over.                                                               *)

\* Faulty variant: pop instead of shift.
StartLastRecovery(left, active) ==
  \/ /\ active \/ recoveryWaiters = <<>>
     /\ recoveryActive' = active
     /\ pc' = left
     /\ UNCHANGED recoveryWaiters
  \/ /\ ~active /\ recoveryWaiters # <<>>
     /\ recoveryActive' = TRUE
     /\ pc' = [left EXCEPT ![recoveryWaiters[Len(recoveryWaiters)]] = "inside"]
     /\ recoveryWaiters' = SubSeq(recoveryWaiters, 1, Len(recoveryWaiters) - 1)

\* startNextRecovery, called once the leaver is out: "left" is pc without it
\* and "active" the value of recoveryActive at the call.  Its callers leave
\* no counted listener behind.
StartNextRecovery(left, active) ==
  \/ /\ active \/ recoveryWaiters = <<>>
     /\ recoveryActive' = active
     /\ pc' = left
     /\ UNCHANGED recoveryWaiters
  \/ /\ ~active /\ recoveryWaiters # <<>>
     /\ recoveryActive' = TRUE
     /\ pc' = [left EXCEPT ![Head(recoveryWaiters)] = "inside"]
     /\ recoveryWaiters' = Tail(recoveryWaiters)

\* Faulty variant: the nested run is not awaited.
ReleaseListenerBeforeNested(l) ==
  /\ pc[l] = "inside"
  /\ activeListeners' = activeListeners - 1
  /\ UNCHANGED <<listenerWaiters, nested>>
  /\ \/ activeListeners = 1 /\ StartNextRecovery([pc EXCEPT ![l] = "idle"], recoveryActive)
     \/ /\ activeListeners # 1
        /\ pc' = [pc EXCEPT ![l] = "idle"]
        /\ UNCHANGED <<recoveryActive, recoveryWaiters>>

\* The finally block of runListener: an awaited nested run has ended, a
\* detached one may still be going.
ReleaseListener(l) ==
  /\ pc[l] = "inside"
  /\ nested[l] # "awaited"
  /\ activeListeners' = activeListeners - 1
  /\ UNCHANGED <<listenerWaiters, nested>>
  /\ \/ activeListeners = 1 /\ StartNextRecovery([pc EXCEPT ![l] = "idle"], recoveryActive)
     \/ /\ activeListeners # 1
        /\ pc' = [pc EXCEPT ![l] = "idle"]
        /\ UNCHANGED <<recoveryActive, recoveryWaiters>>

------------------------------------------------------------------------------
(* Recovery side.                                                           *)

\* Faulty variant: the running listeners are not looked at.
MayRecoverBesideListeners == ~recoveryActive

\* The condition under which acquireRecovery takes the barrier at once.
MayRecover == ~recoveryActive /\ activeListeners = 0

EnterRecovery(r) ==
  /\ pc[r] = "idle"
  /\ MayRecover
  /\ recoveryActive' = TRUE
  /\ pc' = [pc EXCEPT ![r] = "inside"]
  /\ UNCHANGED <<activeListeners, listenerWaiters, recoveryWaiters, nested>>

QueueRecovery(r) ==
  /\ pc[r] = "idle"
  /\ ~MayRecover
  /\ recoveryWaiters' = Append(recoveryWaiters, r)
  /\ pc' = [pc EXCEPT ![r] = "waiting"]
  /\ UNCHANGED <<activeListeners, recoveryActive, listenerWaiters, nested>>

\* Faulty variant: the admitted listeners are not counted.
AdmitListenersUncounted(left) ==
  /\ recoveryActive' = FALSE
  /\ listenerWaiters' = {}
  /\ pc' = [t \in Tasks |-> IF t \in listenerWaiters THEN "inside" ELSE left[t]]
  /\ UNCHANGED <<activeListeners, recoveryWaiters, nested>>

\* releaseRecovery with no recovery waiting: every parked listener enters.
AdmitListeners(left) ==
  /\ recoveryActive' = FALSE
  /\ activeListeners' = activeListeners + Cardinality(listenerWaiters)
  /\ listenerWaiters' = {}
  /\ pc' = [t \in Tasks |-> IF t \in listenerWaiters THEN "inside" ELSE left[t]]
  /\ UNCHANGED <<recoveryWaiters, nested>>

\* Faulty variant: the parked listeners are forgotten.
ReleaseRecoveryWakingNobody(r) ==
  /\ pc[r] = "inside"
  /\ LET left == [pc EXCEPT ![r] = "idle"]
     IN  \/ /\ recoveryWaiters # <<>>
            /\ StartNextRecovery(left, FALSE)
            /\ UNCHANGED <<activeListeners, listenerWaiters, nested>>
         \/ /\ recoveryWaiters = <<>>
            /\ recoveryActive' = FALSE
            /\ pc' = left
            /\ UNCHANGED <<activeListeners, listenerWaiters, recoveryWaiters, nested>>

ReleaseRecovery(r) ==
  /\ pc[r] = "inside"
  /\ LET left == [pc EXCEPT ![r] = "idle"]
     IN  \/ /\ recoveryWaiters # <<>>
            /\ StartNextRecovery(left, FALSE)
            /\ UNCHANGED <<activeListeners, listenerWaiters, nested>>
         \/ /\ recoveryWaiters = <<>>
            /\ AdmitListeners(left)

------------------------------------------------------------------------------
Modes(l) == {"awaited"} \cup (IF l \in Detaching THEN {"detached"} ELSE {})

ListenerNext(l) ==
  \/ EnterListener(l)
  \/ QueueListener(l)
  \/ \E mode \in Modes(l) : RunNested(l, mode)
  \/ EndNested(l)
  \/ ReleaseListener(l)

RecoveryNext(r) ==
  \/ EnterRecovery(r)
  \/ QueueRecovery(r)
  \/ ReleaseRecovery(r)

Next ==
  \/ \E l \in Listeners : ListenerNext(l)
  \/ \E r \in Recoveries : RecoveryNext(r)

Spec == Init /\ [][Next]_vars

\* An operation that got in ends: the callers pass finite operations (bounded
\* RPC and database calls).  Strong fairness on the release says that an
\* operation starts finitely many nested runs.  Nobody has to call the barrier.
Fairness ==
  /\ \A l \in Listeners : WF_vars(EndNested(l)) /\ SF_vars(ReleaseListener(l))
  /\ \A r \in Recoveries : WF_vars(ReleaseRecovery(r))

FairSpec == Spec /\ Fairness

------------------------------------------------------------------------------
(* Properties.                                                              *)

\* Type correctness, with the counter in its range.
TypeOK ==
  /\ activeListeners \in Nat
  /\ recoveryActive \in BOOLEAN
  /\ listenerWaiters \in SUBSET Listeners
  /\ recoveryWaiters \in Seq(Recoveries)
  /\ pc \in [Tasks -> {"idle", "waiting", "inside"}]
  /\ nested \in [Listeners -> {"none", "awaited", "detached"}]

\* runRecovery is exclusive: two recoveries never overlap and no counted
\* listener operation runs beside one (acquireRecovery, releaseListener).
Exclusion ==
  /\ \A r, s \in InsideRecoveries : r = s
  /\ InsideRecoveries # {} => InsideListeners = {}

\* Nobody sleeps with no one left to wake it: a parked recovery is preceded by
\* a task inside, a parked listener by a recovery inside or parked.
NoLostWakeup ==
  /\ recoveryWaiters # <<>> => InsideRecoveries # {} \/ InsideListeners # {}
  /\ listenerWaiters # {} => InsideRecoveries # {} \/ recoveryWaiters # <<>>

\* While a recovery runs, no listener operation runs at all, counted or
\* nested: "les operations listener deja engagees sont drainees avant la reprise".
OperationExclusion ==
  InsideRecoveries # {} => \A l \in Listeners : pc[l] # "inside" /\ nested[l] = "none"

\* The barrier is typed, excludes what it has to exclude and lets nobody sleep for ever.
BarrierSound == TypeOK /\ Exclusion /\ NoLostWakeup

\* The bookkeeping that makes Exclusion inductive: the counter counts, the two
\* wait lists hold exactly the waiting tasks, the flag speaks for a recovery.
CountMatches == activeListeners = Cardinality(InsideListeners)

WaitersMatch ==
  /\ listenerWaiters = {l \in Listeners : pc[l] = "waiting"}
  /\ \A r \in Recoveries :
       pc[r] = "waiting" <=> \E i \in DOMAIN recoveryWaiters : recoveryWaiters[i] = r
  /\ \A i, j \in DOMAIN recoveryWaiters : recoveryWaiters[i] = recoveryWaiters[j] => i = j

FlagMatches == recoveryActive <=> InsideRecoveries # {}

NestedInside ==
  \A l \in Listeners :
    /\ nested[l] = "awaited" => pc[l] = "inside"
    /\ nested[l] = "detached" => l \in Detaching

\* Bookkeeping: counter, wait lists and flag agree with where the tasks are.
Bookkeeping == CountMatches /\ WaitersMatch /\ FlagMatches /\ NestedInside

IInv == TypeOK /\ Bookkeeping /\ Exclusion /\ NoLostWakeup

Enters(t) == pc[t] # "inside" /\ pc'[t] = "inside"

\* A listener enters only when no recovery is left waiting, so listeners that
\* keep coming cannot hold a recovery back (acquireListener, releaseRecovery).
RecoveryBeforeListeners ==
  [][\A l \in Listeners : Enters(l) => recoveryWaiters' = <<>>]_vars

\* Recoveries enter in the order of their calls: a reorg handler that waits is
\* not overtaken by a later periodic pass (push and shift of recoveryWaiters).
RecoveryOrder ==
  [][\A r \in Recoveries : Enters(r) => recoveryWaiters = <<>> \/ r = Head(recoveryWaiters)]_vars

\* Who enters before whom: recoveries before listeners, and in their own order.
AdmissionOrder == RecoveryBeforeListeners /\ RecoveryOrder

\* Every call of runRecovery is eventually admitted, whatever listeners do.
RecoveryServed ==
  \A r \in Recoveries : pc[r] = "waiting" ~> pc[r] = "inside"
==============================================================================
