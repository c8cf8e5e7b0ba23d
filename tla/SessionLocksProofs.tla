-------------------------- MODULE SessionLocksProofs --------------------------
(****************************************************************************)
(* The barrier and the session locks for any number of listeners,           *)
(* recoveries and pairs. The barrier: IInv is inductive, hence counted      *)
(* operations and recoveries exclude each other and no wake-up is lost;     *)
(* without detached runs the exclusion extends to nested operations. The    *)
(* locks: they implement the specification of the barrier and close a       *)
(* circle of waits with it only where a direct call and a chunk cross.      *)
(****************************************************************************)
EXTENDS SessionLocks, FiniteSetTheorems, TLAPS

------------------------------------------------------------------------------
(* The barrier.                                                             *)

\* The set of listeners inside is finite, so its cardinality is a number.
LEMMA InsideFinite ==
  ASSUME NEW S \in SUBSET Listeners
  PROVE  IsFiniteSet(S) /\ Cardinality(S) \in Nat /\ (Cardinality(S) = 0 <=> S = {})
BY BarrierAssumption, FS_Subset, FS_CardinalityType, FS_EmptySet

\* The initial state satisfies the inductive invariant.
LEMMA InitIInv == Init => IInv
<1> SUFFICES ASSUME Init PROVE IInv
  OBVIOUS
<1>1. TypeOK
  <2>1. recoveryWaiters \in Seq(Recoveries)
    BY DEF Init
  <2>2. pc \in [Tasks -> {"idle", "waiting", "inside"}]
    BY DEF Init
  <2>3. nested \in [Listeners -> {"none", "awaited", "detached"}]
    BY DEF Init
  <2>4. activeListeners \in Nat /\ recoveryActive \in BOOLEAN /\ listenerWaiters \in SUBSET Listeners
    BY DEF Init
  <2> QED
    BY <2>1, <2>2, <2>3, <2>4 DEF TypeOK
<1>2. InsideListeners = {} /\ InsideRecoveries = {}
  BY DEF Init, InsideListeners, InsideRecoveries, Tasks
<1>3. CountMatches
  BY <1>2, InsideFinite DEF Init, CountMatches
<1>4. WaitersMatch /\ FlagMatches /\ NestedInside
  BY <1>2 DEF Init, WaitersMatch, FlagMatches, NestedInside, Tasks
<1> QED
  BY <1>1, <1>2, <1>3, <1>4 DEF IInv, Bookkeeping, Exclusion, NoLostWakeup, Init

\* Entering: one more listener inside, one more in the count.
LEMMA EnterListenerStep ==
  ASSUME IInv, NEW l \in Listeners, EnterListener(l)
  PROVE  IInv'
<1> USE DEF IInv, Bookkeeping
<1>1. TypeOK'
  BY DEF TypeOK, EnterListener, Tasks
<1>2. InsideListeners' = InsideListeners \cup {l} /\ l \notin InsideListeners
  BY DEF TypeOK, EnterListener, InsideListeners, Tasks
<1>3. InsideRecoveries' = InsideRecoveries /\ InsideRecoveries = {}
  BY BarrierAssumption DEF TypeOK, EnterListener, InsideRecoveries, Tasks, FlagMatches, MayListen
<1>4. CountMatches'
  <2>1. IsFiniteSet(InsideListeners)
    BY InsideFinite DEF InsideListeners
  <2> QED
    BY <1>2, <2>1, FS_AddElement DEF CountMatches, EnterListener
<1>5. WaitersMatch'
  BY BarrierAssumption DEF TypeOK, WaitersMatch, EnterListener, Tasks
<1>6. FlagMatches' /\ NestedInside'
  BY <1>3 DEF TypeOK, FlagMatches, NestedInside, EnterListener, Tasks
<1>7. Exclusion' /\ NoLostWakeup'
  BY <1>2, <1>3 DEF Exclusion, NoLostWakeup, EnterListener, MayListen
<1> QED
  BY <1>1, <1>4, <1>5, <1>6, <1>7

\* Parking a listener.
LEMMA QueueListenerStep ==
  ASSUME IInv, NEW l \in Listeners, QueueListener(l)
  PROVE  IInv'
<1> USE DEF IInv, Bookkeeping
<1>1. TypeOK'
  BY DEF TypeOK, QueueListener, Tasks
<1>2. InsideListeners' = InsideListeners
  BY DEF TypeOK, QueueListener, InsideListeners, Tasks
<1>3. InsideRecoveries' = InsideRecoveries
  BY BarrierAssumption DEF TypeOK, QueueListener, InsideRecoveries, Tasks
<1>4. CountMatches' /\ FlagMatches' /\ Exclusion'
  BY <1>2, <1>3 DEF CountMatches, FlagMatches, Exclusion, QueueListener
<1>5. WaitersMatch'
  BY BarrierAssumption DEF TypeOK, WaitersMatch, QueueListener, Tasks
<1>6. NestedInside'
  BY DEF TypeOK, NestedInside, QueueListener, Tasks
<1>7. NoLostWakeup'
  BY <1>2, <1>3 DEF NoLostWakeup, FlagMatches, QueueListener, MayListen
<1> QED
  BY <1>1, <1>4, <1>5, <1>6, <1>7

\* Nested runs touch neither the counter nor the wait lists.
LEMMA NestedStep ==
  ASSUME IInv, NEW l \in Listeners,
         (\E mode \in Modes(l) : RunNested(l, mode)) \/ EndNested(l)
  PROVE  IInv'
<1> USE DEF IInv, Bookkeeping
<1>1. TypeOK' /\ NestedInside'
  BY DEF TypeOK, NestedInside, RunNested, EndNested, Modes, Tasks
<1>2. UNCHANGED <<activeListeners, recoveryActive, listenerWaiters, recoveryWaiters, pc>>
  BY DEF RunNested, EndNested
<1>3. InsideListeners' = InsideListeners /\ InsideRecoveries' = InsideRecoveries
  BY <1>2 DEF InsideListeners, InsideRecoveries
<1> QED
  BY <1>1, <1>2, <1>3 DEF CountMatches, WaitersMatch, FlagMatches, Exclusion, NoLostWakeup

\* A recovery that finds the barrier free.
LEMMA EnterRecoveryStep ==
  ASSUME IInv, NEW r \in Recoveries, EnterRecovery(r)
  PROVE  IInv'
<1> USE DEF IInv, Bookkeeping
<1>1. TypeOK'
  BY DEF TypeOK, EnterRecovery, Tasks
<1>2. InsideListeners = {} /\ InsideListeners' = InsideListeners
  BY InsideFinite, BarrierAssumption
     DEF TypeOK, CountMatches, EnterRecovery, MayRecover, InsideListeners, Tasks
<1>3. InsideRecoveries' = {r}
  BY DEF TypeOK, FlagMatches, EnterRecovery, MayRecover, InsideRecoveries, Tasks
<1>4. CountMatches' /\ FlagMatches' /\ Exclusion' /\ NoLostWakeup'
  BY <1>2, <1>3 DEF CountMatches, FlagMatches, Exclusion, NoLostWakeup, EnterRecovery
<1>5. WaitersMatch'
  BY BarrierAssumption DEF TypeOK, WaitersMatch, EnterRecovery, Tasks
<1>6. NestedInside'
  BY BarrierAssumption DEF TypeOK, NestedInside, EnterRecovery, Tasks
<1> QED
  BY <1>1, <1>4, <1>5, <1>6

\* Appending to the FIFO of recoveries a task that is not in it.
LEMMA QueueRecoveryStep ==
  ASSUME IInv, NEW r \in Recoveries, QueueRecovery(r)
  PROVE  IInv'
<1> USE DEF IInv, Bookkeeping
<1>1. TypeOK'
  BY DEF TypeOK, QueueRecovery, Tasks
<1>2. InsideListeners' = InsideListeners
  BY BarrierAssumption DEF TypeOK, QueueRecovery, InsideListeners, Tasks
<1>3. InsideRecoveries' = InsideRecoveries
  BY DEF TypeOK, QueueRecovery, InsideRecoveries, Tasks
<1>4. CountMatches' /\ FlagMatches' /\ Exclusion'
  BY <1>2, <1>3 DEF CountMatches, FlagMatches, Exclusion, QueueRecovery
<1>5. WaitersMatch'
  <2>1. listenerWaiters' = {l \in Listeners : pc'[l] = "waiting"}
    BY BarrierAssumption DEF TypeOK, WaitersMatch, QueueRecovery, Tasks
  <2>2. DOMAIN recoveryWaiters = 1..Len(recoveryWaiters) /\ Len(recoveryWaiters) \in Nat
    BY DEF TypeOK
  <2>3. /\ DOMAIN recoveryWaiters' = 1..Len(recoveryWaiters) + 1
        /\ \A i \in 1..Len(recoveryWaiters) : recoveryWaiters'[i] = recoveryWaiters[i]
        /\ recoveryWaiters'[Len(recoveryWaiters) + 1] = r
    BY DEF TypeOK, QueueRecovery
  <2>4. \A i \in DOMAIN recoveryWaiters : recoveryWaiters[i] # r
    BY DEF WaitersMatch, QueueRecovery
  <2>5. \A s \in Recoveries : pc'[s] = "waiting" <=> pc[s] = "waiting" \/ s = r
    BY DEF TypeOK, QueueRecovery, Tasks
  <2>6. \A s \in Recoveries :
          (\E i \in DOMAIN recoveryWaiters' : recoveryWaiters'[i] = s)
            <=> (\E i \in DOMAIN recoveryWaiters : recoveryWaiters[i] = s) \/ s = r
    BY <2>2, <2>3
  <2>7. \A i, j \in DOMAIN recoveryWaiters' :
          recoveryWaiters'[i] = recoveryWaiters'[j] => i = j
    BY <2>2, <2>3, <2>4 DEF WaitersMatch
  <2> QED
    BY <2>1, <2>5, <2>6, <2>7 DEF WaitersMatch
<1>6. NestedInside'
  BY BarrierAssumption DEF TypeOK, NestedInside, QueueRecovery, Tasks
<1>7. NoLostWakeup'
  BY <1>2, <1>3, InsideFinite
     DEF TypeOK, NoLostWakeup, FlagMatches, CountMatches, QueueRecovery, MayRecover, InsideListeners
<1> QED
  BY <1>1, <1>4, <1>5, <1>6, <1>7

\* What startNextRecovery does to the FIFO and to the recoveries, when no
\* recovery is inside: either nothing, because none waits, or the head of the
\* FIFO enters and every other waiting recovery stays in it.
LEMMA StartNextRecoveryEffect ==
  ASSUME TypeOK, WaitersMatch,
         NEW left \in [Tasks -> {"idle", "waiting", "inside"}],
         \A r \in Recoveries : left[r] = "waiting" <=> pc[r] = "waiting",
         \A r \in Recoveries : left[r] # "inside",
         \A l \in Listeners : left[l] = "waiting" <=> pc[l] = "waiting",
         listenerWaiters' = listenerWaiters,
         StartNextRecovery(left, FALSE)
  PROVE  /\ recoveryActive' \in BOOLEAN
         /\ recoveryWaiters' \in Seq(Recoveries)
         /\ pc' \in [Tasks -> {"idle", "waiting", "inside"}]
         /\ \A l \in Listeners : pc'[l] = left[l]
         /\ WaitersMatch'
         /\ recoveryActive' <=> recoveryWaiters # <<>>
         /\ recoveryWaiters = <<>> => InsideRecoveries' = {} /\ recoveryWaiters' = <<>>
         /\ recoveryWaiters # <<>> => \E r \in Recoveries : InsideRecoveries' = {r}
<1>1. CASE recoveryWaiters = <<>>
  <2>1. recoveryActive' = FALSE /\ pc' = left /\ recoveryWaiters' = recoveryWaiters
    BY <1>1 DEF StartNextRecovery
  <2> QED
    BY <1>1, <2>1, BarrierAssumption DEF TypeOK, WaitersMatch, InsideRecoveries, Tasks
<1>2. CASE recoveryWaiters # <<>>
  <2> DEFINE h == Head(recoveryWaiters)
             n == Len(recoveryWaiters)
  <2>1. /\ recoveryActive' = TRUE
        /\ pc' = [left EXCEPT ![h] = "inside"]
        /\ recoveryWaiters' = Tail(recoveryWaiters)
    BY <1>2 DEF StartNextRecovery
  <2>2. h \in Recoveries /\ h = recoveryWaiters[1] /\ n \in Nat \ {0}
    BY <1>2 DEF TypeOK
  <2>3. /\ recoveryWaiters' \in Seq(Recoveries)
        /\ DOMAIN recoveryWaiters = 1..n
        /\ DOMAIN recoveryWaiters' = 1..(n - 1)
        /\ \A i \in 1..(n - 1) : recoveryWaiters'[i] = recoveryWaiters[i + 1]
    BY <1>2, <2>1 DEF TypeOK
  <2>4. pc' \in [Tasks -> {"idle", "waiting", "inside"}]
    BY <2>1, <2>2 DEF Tasks
  <2>5. \A l \in Listeners : pc'[l] = left[l]
    BY <2>1, <2>2, BarrierAssumption DEF Tasks
  <2>6. \A s \in Recoveries : pc'[s] = IF s = h THEN "inside" ELSE left[s]
    BY <2>1, <2>2 DEF Tasks
  <2>7. InsideRecoveries' = {h}
    BY <2>2, <2>6 DEF InsideRecoveries
  <2>8. listenerWaiters' = {l \in Listeners : pc'[l] = "waiting"}
    BY <2>5 DEF WaitersMatch
  <2>9. \A i, j \in DOMAIN recoveryWaiters' : recoveryWaiters'[i] = recoveryWaiters'[j] => i = j
    <3>1. SUFFICES ASSUME NEW i \in 1..(n - 1), NEW j \in 1..(n - 1),
                          recoveryWaiters'[i] = recoveryWaiters'[j]
                   PROVE  i = j
      BY <2>3
    <3>2. i + 1 \in 1..n /\ j + 1 \in 1..n
      BY <2>2
    <3>3. recoveryWaiters[i + 1] = recoveryWaiters[j + 1]
      BY <2>3, <3>1
    <3>4. i + 1 = j + 1
      BY <2>3, <3>2, <3>3 DEF WaitersMatch
    <3> QED
      BY <3>4
  <2>10. ASSUME NEW s \in Recoveries
         PROVE  pc'[s] = "waiting" <=> \E i \in DOMAIN recoveryWaiters' : recoveryWaiters'[i] = s
    <3>1. \A i \in 1..(n - 1) : i + 1 \in 1..n /\ i + 1 # 1
      BY <2>2
    <3>2. \A i \in 1..(n - 1) : recoveryWaiters'[i] # h
      BY <2>2, <2>3, <3>1 DEF WaitersMatch
    <3>3. \A i \in 1..n : i # 1 => i - 1 \in 1..(n - 1) /\ recoveryWaiters'[i - 1] = recoveryWaiters[i]
      BY <2>2, <2>3
    <3>4. CASE s = h
      BY <2>3, <2>6, <3>2, <3>4
    <3>5. CASE s # h
      <4>1. pc'[s] = "waiting" <=> \E i \in 1..n : recoveryWaiters[i] = s
        BY <2>3, <2>6, <3>5 DEF WaitersMatch
      <4>2. \A i \in 1..n : recoveryWaiters[i] = s => i # 1
        BY <2>2, <3>5
      <4>3. ASSUME pc'[s] = "waiting"
            PROVE  \E i \in 1..(n - 1) : recoveryWaiters'[i] = s
        <5>1. PICK i \in 1..n : recoveryWaiters[i] = s
          BY <4>1, <4>3
        <5> QED
          BY <3>3, <4>2, <5>1
      <4>4. ASSUME NEW i \in 1..(n - 1), recoveryWaiters'[i] = s
            PROVE  pc'[s] = "waiting"
        BY <2>3, <3>1, <4>1, <4>4
      <4> QED
        BY <2>3, <4>3, <4>4
    <3> QED
      BY <3>4, <3>5
  <2>11. WaitersMatch'
    BY <2>8, <2>9, <2>10 DEF WaitersMatch
  <2> HIDE DEF h
  <2> QED
    BY <1>2, <2>1, <2>2, <2>3, <2>4, <2>5, <2>7, <2>11
<1> QED
  BY <1>1, <1>2

\* The last listener out hands the barrier to the head of the FIFO.
LEMMA ReleaseListenerStep ==
  ASSUME IInv, NEW l \in Listeners, ReleaseListener(l)
  PROVE  IInv'
<1> USE DEF IInv, Bookkeeping
<1> DEFINE left == [pc EXCEPT ![l] = "idle"]
<1>1. /\ pc[l] = "inside" /\ nested[l] # "awaited"
      /\ activeListeners' = activeListeners - 1
      /\ UNCHANGED <<listenerWaiters, nested>>
  BY DEF ReleaseListener
<1>2. l \in InsideListeners /\ InsideRecoveries = {} /\ ~recoveryActive
  BY <1>1 DEF InsideListeners, Exclusion, FlagMatches
<1>3. /\ left \in [Tasks -> {"idle", "waiting", "inside"}]
      /\ \A r \in Recoveries : left[r] = pc[r] /\ left[r] # "inside"
      /\ \A k \in Listeners : left[k] = IF k = l THEN "idle" ELSE pc[k]
  BY <1>2, BarrierAssumption DEF TypeOK, Tasks, InsideRecoveries
<1>4. /\ Cardinality(InsideListeners \ {l}) = activeListeners - 1
      /\ activeListeners - 1 \in Nat
      /\ activeListeners = 1 => InsideListeners \ {l} = {}
      /\ activeListeners # 1 => InsideListeners \ {l} # {}
  <2>1. IsFiniteSet(InsideListeners)
    BY InsideFinite DEF InsideListeners
  <2>2. Cardinality(InsideListeners \ {l}) = activeListeners - 1
    BY <1>2, <2>1, FS_RemoveElement DEF CountMatches
  <2>3. InsideListeners \ {l} \in SUBSET Listeners
    BY DEF InsideListeners
  <2> HIDE DEF IInv, Bookkeeping
  <2>4. /\ Cardinality(InsideListeners \ {l}) \in Nat
        /\ Cardinality(InsideListeners \ {l}) = 0 <=> InsideListeners \ {l} = {}
    BY <2>3, InsideFinite
  <2>5. activeListeners \in Nat
    BY DEF IInv, TypeOK
  <2> QED
    BY <2>2, <2>4, <2>5
<1>5. CASE activeListeners = 1 /\ StartNextRecovery(left, recoveryActive)
  <2>1. StartNextRecovery(left, FALSE)
    BY <1>2, <1>5 DEF FlagMatches, TypeOK
  <2> HIDE DEF left
  <2>2. /\ \A r \in Recoveries : left[r] = "waiting" <=> pc[r] = "waiting"
        /\ \A k \in Listeners : left[k] = "waiting" <=> pc[k] = "waiting"
    BY <1>1, <1>3
  <2>3. /\ recoveryActive' \in BOOLEAN
        /\ recoveryWaiters' \in Seq(Recoveries)
        /\ pc' \in [Tasks -> {"idle", "waiting", "inside"}]
        /\ \A k \in Listeners : pc'[k] = left[k]
        /\ WaitersMatch'
        /\ recoveryActive' <=> recoveryWaiters # <<>>
        /\ recoveryWaiters = <<>> => InsideRecoveries' = {} /\ recoveryWaiters' = <<>>
        /\ recoveryWaiters # <<>> => \E r \in Recoveries : InsideRecoveries' = {r}
    BY <1>1, <1>3, <2>1, <2>2, StartNextRecoveryEffect
  <2>4. InsideListeners' = {}
    BY <1>3, <1>4, <1>5, <2>3 DEF InsideListeners
  <2>5. TypeOK'
    BY <1>1, <1>4, <2>3 DEF TypeOK
  <2>6. CountMatches'
    BY <1>1, <1>5, <2>4, InsideFinite DEF CountMatches
  <2>7. FlagMatches' /\ Exclusion'
    BY <2>3, <2>4 DEF FlagMatches, Exclusion
  <2>8. NestedInside'
    BY <1>1, <1>3, <2>3 DEF NestedInside
  <2>9. NoLostWakeup'
    BY <1>1, <1>2, <2>3, <2>4 DEF NoLostWakeup
  <2> QED
    BY <2>3, <2>5, <2>6, <2>7, <2>8, <2>9
<1>6. CASE activeListeners # 1 /\ pc' = left /\ UNCHANGED <<recoveryActive, recoveryWaiters>>
  <2>1. InsideListeners' = InsideListeners \ {l} /\ InsideRecoveries' = {}
    BY <1>2, <1>3, <1>6 DEF InsideListeners, InsideRecoveries
  <2>2. TypeOK'
    BY <1>1, <1>3, <1>4, <1>6 DEF TypeOK
  <2>3. CountMatches' /\ FlagMatches' /\ Exclusion'
    BY <1>1, <1>2, <1>4, <1>6, <2>1 DEF CountMatches, FlagMatches, Exclusion
  <2>4. WaitersMatch'
    BY <1>1, <1>3, <1>6 DEF WaitersMatch
  <2>5. NestedInside'
    BY <1>1, <1>3, <1>6 DEF NestedInside
  <2>6. NoLostWakeup'
    BY <1>1, <1>2, <1>4, <1>6, <2>1 DEF NoLostWakeup
  <2> QED
    BY <2>2, <2>3, <2>4, <2>5, <2>6
<1> QED
  BY <1>5, <1>6 DEF ReleaseListener

\* A recovery leaves: the next one enters, or every parked listener at once.
LEMMA ReleaseRecoveryStep ==
  ASSUME IInv, NEW r \in Recoveries, ReleaseRecovery(r)
  PROVE  IInv'
<1> USE DEF IInv, Bookkeeping
<1> DEFINE left == [pc EXCEPT ![r] = "idle"]
<1>1. /\ pc[r] = "inside"
      /\ InsideListeners = {}
      /\ InsideRecoveries = {r}
  BY DEF ReleaseRecovery, Exclusion, InsideRecoveries
<1>2. activeListeners = 0 /\ NestedInside
  BY <1>1, InsideFinite DEF CountMatches
<1>3. /\ left \in [Tasks -> {"idle", "waiting", "inside"}]
      /\ \A l \in Listeners : left[l] = pc[l] /\ left[l] # "inside"
      /\ \A s \in Recoveries : left[s] = IF s = r THEN "idle" ELSE pc[s]
      /\ \A s \in Recoveries : left[s] # "inside"
  BY <1>1, BarrierAssumption DEF TypeOK, Tasks, InsideRecoveries, InsideListeners
<1>4. CASE /\ recoveryWaiters # <<>>
           /\ StartNextRecovery(left, FALSE)
           /\ UNCHANGED <<activeListeners, listenerWaiters, nested>>
  <2> HIDE DEF left
  <2>1. /\ \A s \in Recoveries : left[s] = "waiting" <=> pc[s] = "waiting"
        /\ \A k \in Listeners : left[k] = "waiting" <=> pc[k] = "waiting"
    BY <1>1, <1>3
  <2>2. /\ recoveryActive' \in BOOLEAN
        /\ recoveryWaiters' \in Seq(Recoveries)
        /\ pc' \in [Tasks -> {"idle", "waiting", "inside"}]
        /\ \A k \in Listeners : pc'[k] = left[k]
        /\ WaitersMatch'
        /\ recoveryActive'
        /\ \E s \in Recoveries : InsideRecoveries' = {s}
    BY <1>3, <1>4, <2>1, StartNextRecoveryEffect
  <2>3. InsideListeners' = {}
    BY <1>3, <2>2 DEF InsideListeners
  <2>4. TypeOK' /\ CountMatches'
    BY <1>2, <1>4, <2>2, <2>3, InsideFinite DEF TypeOK, CountMatches
  <2>5. FlagMatches' /\ Exclusion' /\ NestedInside' /\ NoLostWakeup'
    BY <1>3, <1>4, <2>2, <2>3 DEF FlagMatches, Exclusion, NestedInside, NoLostWakeup
  <2> QED
    BY <2>2, <2>4, <2>5
<1>5. CASE recoveryWaiters = <<>> /\ AdmitListeners(left)
  <2>1. /\ recoveryActive' = FALSE
        /\ activeListeners' = Cardinality(listenerWaiters)
        /\ listenerWaiters' = {}
        /\ pc' = [t \in Tasks |-> IF t \in listenerWaiters THEN "inside" ELSE left[t]]
        /\ recoveryWaiters' = <<>>
        /\ nested' = nested
    <3>1. Cardinality(listenerWaiters) \in Nat
      BY InsideFinite DEF TypeOK
    <3> QED
      BY <1>2, <1>5, <3>1 DEF AdmitListeners
  <2>2. \A l \in Listeners : pc'[l] = IF pc[l] = "waiting" THEN "inside" ELSE pc[l]
    BY <1>3, <2>1 DEF WaitersMatch, Tasks
  <2>3. \A s \in Recoveries : pc'[s] = left[s] /\ pc'[s] # "inside" /\ pc'[s] # "waiting"
    BY <1>3, <1>5, <2>1, BarrierAssumption DEF WaitersMatch, Tasks
  <2>4. InsideListeners' = listenerWaiters /\ InsideRecoveries' = {}
    BY <1>1, <2>2, <2>3 DEF InsideListeners, InsideRecoveries, WaitersMatch
  <2>5. TypeOK'
    <3>1. Cardinality(listenerWaiters) \in Nat
      BY InsideFinite DEF TypeOK
    <3>2. pc' \in [Tasks -> {"idle", "waiting", "inside"}]
      BY <1>3, <2>1
    <3>3. recoveryWaiters' \in Seq(Recoveries)
      BY <2>1
    <3>4. nested' \in [Listeners -> {"none", "awaited", "detached"}]
      BY <2>1 DEF TypeOK
    <3> QED
      BY <2>1, <3>1, <3>2, <3>3, <3>4 DEF TypeOK
  <2>6. CountMatches' /\ FlagMatches' /\ Exclusion' /\ NoLostWakeup'
    BY <2>1, <2>4 DEF CountMatches, FlagMatches, Exclusion, NoLostWakeup
  <2>7. WaitersMatch'
    BY <2>1, <2>2, <2>3 DEF TypeOK, WaitersMatch, Tasks
  <2>8. NestedInside'
    BY <2>1, <2>2 DEF NestedInside
  <2> QED
    BY <2>5, <2>6, <2>7, <2>8
<1> QED
  BY <1>4, <1>5 DEF ReleaseRecovery

\* IInv is inductive: one case per action of Next.
LEMMA NextIInv == IInv /\ [Next]_vars => IInv'
<1> SUFFICES ASSUME IInv, [Next]_vars PROVE IInv'
  OBVIOUS
<1>1. ASSUME NEW l \in Listeners, ListenerNext(l) PROVE IInv'
  <2>1. CASE EnterListener(l)
    BY <2>1, EnterListenerStep
  <2>2. CASE QueueListener(l)
    BY <2>2, QueueListenerStep
  <2>3. CASE (\E mode \in Modes(l) : RunNested(l, mode)) \/ EndNested(l)
    BY <2>3, NestedStep
  <2>4. CASE ReleaseListener(l)
    BY <2>4, ReleaseListenerStep
  <2> QED
    BY <1>1, <2>1, <2>2, <2>3, <2>4 DEF ListenerNext
<1>2. ASSUME NEW r \in Recoveries, RecoveryNext(r) PROVE IInv'
  BY <1>2, EnterRecoveryStep, QueueRecoveryStep, ReleaseRecoveryStep DEF RecoveryNext
<1>3. CASE UNCHANGED vars
  BY <1>3 DEF vars, IInv, TypeOK, Bookkeeping, CountMatches, WaitersMatch, FlagMatches,
              NestedInside, Exclusion, NoLostWakeup, InsideListeners, InsideRecoveries
<1> QED
  BY <1>1, <1>2, <1>3 DEF Next

\* The inductive invariant holds of every behaviour of the barrier.
THEOREM BarrierInvariant == Spec => []IInv
BY InitIInv, NextIInv, PTL DEF Spec

\* Type correctness of the barrier, for any sets of tasks.
THEOREM TypeCorrect == Spec => []TypeOK
<1>1. IInv => TypeOK
  BY DEF IInv
<1> QED
  BY <1>1, BarrierInvariant, PTL

\* Counted operations and recoveries exclude each other, for any sets of
\* tasks, with detached nested runs or without (acquireRecovery, releaseListener).
THEOREM RecoveryIsExclusive == Spec => []Exclusion
<1>1. IInv => Exclusion
  BY DEF IInv
<1> QED
  BY <1>1, BarrierInvariant, PTL

\* No call of the barrier is parked with nobody left to wake it.
THEOREM WakeupsKept == Spec => []NoLostWakeup
<1>1. IInv => NoLostWakeup
  BY DEF IInv
<1> QED
  BY <1>1, BarrierInvariant, PTL

\* The barrier is typed, a recovery is alone with its work, and nobody who is parked
\* is forgotten (acquireListener, acquireRecovery, releaseListener, releaseRecovery).
THEOREM BarrierIsSound == Spec => []BarrierSound
BY TypeCorrect, RecoveryIsExclusive, WakeupsKept, PTL DEF BarrierSound

\* When no operation detaches a nested run, a recovery runs beside no listener
\* operation at all, nested ones included.
THEOREM DrainedBeforeRecovery ==
  ASSUME Detaching = {}
  PROVE  Spec => []OperationExclusion
<1>1. IInv => OperationExclusion
  <2> SUFFICES ASSUME IInv, InsideRecoveries # {}, NEW l \in Listeners
               PROVE  pc[l] # "inside" /\ nested[l] = "none"
    BY DEF OperationExclusion
  <2>1. pc[l] # "inside"
    BY DEF IInv, Exclusion, InsideListeners
  <2>2. nested[l] \in {"none", "awaited", "detached"}
    BY DEF IInv, TypeOK
  <2> QED
    BY <2>1, <2>2 DEF IInv, Bookkeeping, NestedInside
<1> QED
  BY <1>1, BarrierInvariant, PTL

\* A listener enters only when no recovery is left waiting.
THEOREM RecoveriesGoFirst == Spec => RecoveryBeforeListeners
<1> DEFINE P == \A l \in Listeners : Enters(l) => recoveryWaiters' = <<>>
<1>1. ASSUME IInv, [Next]_vars PROVE [P]_vars
  <2> SUFFICES ASSUME Next, NEW l \in Listeners, pc[l] # "inside", pc'[l] = "inside"
               PROVE  recoveryWaiters' = <<>>
    BY <1>1 DEF Enters
  <2> USE <1>1 DEF IInv, TypeOK, Tasks
  <2>1. ASSUME NEW k \in Listeners, ListenerNext(k) PROVE recoveryWaiters' = <<>>
    <3>1. CASE EnterListener(k)
      BY <3>1 DEF EnterListener, MayListen
    <3>2. CASE QueueListener(k) \/ EndNested(k) \/ \E mode \in Modes(k) : RunNested(k, mode)
      BY <3>2 DEF QueueListener, EndNested, RunNested
    <3>3. CASE ReleaseListener(k)
      <4>1. recoveryWaiters # <<>> => Head(recoveryWaiters) \in Recoveries
        OBVIOUS
      <4> QED
        BY <3>3, <4>1, BarrierAssumption DEF ReleaseListener, StartNextRecovery
    <3> QED
      BY <2>1, <3>1, <3>2, <3>3 DEF ListenerNext
  <2>2. ASSUME NEW r \in Recoveries, RecoveryNext(r) PROVE recoveryWaiters' = <<>>
    <3>1. CASE EnterRecovery(r) \/ QueueRecovery(r)
      BY <3>1, <2>2, BarrierAssumption DEF EnterRecovery, QueueRecovery
    <3>2. CASE ReleaseRecovery(r)
      <4>1. recoveryWaiters # <<>> => Head(recoveryWaiters) \in Recoveries
        OBVIOUS
      <4> QED
        BY <3>2, <4>1, BarrierAssumption DEF ReleaseRecovery, StartNextRecovery, AdmitListeners
    <3> QED
      BY <2>2, <3>1, <3>2 DEF RecoveryNext
  <2> QED
    BY <2>1, <2>2 DEF Next
<1> QED
  BY <1>1, BarrierInvariant, PTL DEF Spec, RecoveryBeforeListeners

\* Recoveries enter in the order of their calls, whatever leaves: one that
\* finds the barrier free finds the wait list empty (acquireRecovery), and one
\* that is let in is the head of it (startNextRecovery).
THEOREM RecoveriesInOrder == Spec => RecoveryOrder
<1> DEFINE P == \A r \in Recoveries : Enters(r) => recoveryWaiters = <<>> \/ r = Head(recoveryWaiters)
<1>1. ASSUME IInv, [Next]_vars PROVE [P]_vars
  <2> SUFFICES ASSUME Next, NEW r \in Recoveries, pc[r] # "inside", pc'[r] = "inside", recoveryWaiters # <<>>
               PROVE  r = Head(recoveryWaiters)
    BY <1>1 DEF Enters
  <2> USE <1>1 DEF IInv, TypeOK, Tasks
  <2>1. ASSUME NEW l \in Listeners, ListenerNext(l) PROVE r = Head(recoveryWaiters)
    <3>1. r # l
      BY BarrierAssumption
    <3>2. CASE EnterListener(l) \/ QueueListener(l)
      BY <3>1, <3>2 DEF EnterListener, QueueListener
    <3>3. CASE EndNested(l) \/ \E mode \in Modes(l) : RunNested(l, mode)
      BY <3>3 DEF EndNested, RunNested
    <3>4. CASE ReleaseListener(l)
      BY <3>1, <3>4 DEF ReleaseListener, StartNextRecovery
    <3> QED
      BY <2>1, <3>2, <3>3, <3>4 DEF ListenerNext
  <2>2. ASSUME NEW s \in Recoveries, RecoveryNext(s) PROVE r = Head(recoveryWaiters)
    <3>1. CASE EnterRecovery(s)
      <4>1. ~recoveryActive /\ activeListeners = 0
        BY <3>1 DEF EnterRecovery, MayRecover
      <4>2. InsideListeners = {}
        <5>1. InsideListeners \in SUBSET Listeners /\ Cardinality(InsideListeners) = 0
          BY <4>1 DEF Bookkeeping, CountMatches, InsideListeners
        <5> QED
          BY <5>1, InsideFinite
      <4>3. InsideRecoveries = {}
        BY <4>1 DEF Bookkeeping, FlagMatches
      <4> QED
        BY <4>2, <4>3 DEF NoLostWakeup
    <3>2. CASE QueueRecovery(s)
      BY <3>2 DEF QueueRecovery
    <3>3. CASE ReleaseRecovery(s)
      BY <3>3 DEF ReleaseRecovery, StartNextRecovery
    <3> QED
      BY <2>2, <3>1, <3>2, <3>3 DEF RecoveryNext
  <2> QED
    BY <2>1, <2>2 DEF Next
<1> QED
  BY <1>1, BarrierInvariant, PTL DEF Spec, RecoveryOrder

\* The barrier admits recoveries before listeners and in the order of their
\* calls, for any sets of tasks (acquireListener, startNextRecovery).
THEOREM AdmissionInOrder == Spec => AdmissionOrder
BY RecoveriesGoFirst, RecoveriesInOrder, PTL DEF AdmissionOrder

------------------------------------------------------------------------------
(* The locks.                                                               *)

\* The tasks that queue on pairs are listeners.
LEMMA LocksTasks == Chunks \subseteq Listeners /\ Directs \subseteq Listeners
BY LocksAssumption

\* A step of the session locks is a step of the barrier, or stutters for it.
LEMMA LocksStepIsBarrierStep == [LocksNext]_locksVars => [Next]_vars
<1> SUFFICES ASSUME [LocksNext]_locksVars PROVE [Next]_vars
  OBVIOUS
<1>1. ASSUME NEW c \in Chunks, ChunkCall(c) \/ ChunkExpire(c) \/ ChunkLeave(c)
      PROVE  [Next]_vars
  <2>1. CASE ChunkExpire(c)
    BY <2>1 DEF ChunkExpire
  <2>2. CASE ChunkCall(c) \/ ChunkLeave(c)
    BY <2>2, LocksTasks DEF ChunkCall, ChunkLeave, Next, ListenerNext
  <2> QED
    BY <1>1, <2>1, <2>2
<1>2. ASSUME NEW c \in Chunks, NEW p \in ChunkPairs,
             ChunkLock(c, p) \/ ChunkRun(c, p) \/ ChunkUnlock(c, p)
      PROVE  [Next]_vars
  <2>1. CASE ChunkLock(c, p)
    BY <2>1 DEF ChunkLock
  <2>2. CASE ChunkRun(c, p)
    BY <2>2, LocksTasks DEF ChunkRun, Next, ListenerNext, Modes
  <2>3. CASE ChunkUnlock(c, p)
    BY <2>3, LocksTasks DEF ChunkUnlock, Next, ListenerNext
  <2> QED
    BY <1>2, <2>1, <2>2, <2>3
<1>3. ASSUME NEW d \in Directs, NEW p \in DirectPairs,
             DirectLock(d, p) \/ DirectRun(d, p) \/ DirectUnlock(d, p)
      PROVE  [Next]_vars
  <2>1. CASE DirectLock(d, p)
    BY <2>1 DEF DirectLock
  <2>2. CASE DirectRun(d, p) \/ DirectUnlock(d, p)
    BY <2>2, LocksTasks DEF DirectRun, DirectUnlock, Next, ListenerNext
  <2> QED
    BY <1>3, <2>1, <2>2
<1>4. ASSUME NEW r \in Recoveries, RecoveryStep(r) PROVE Next
  BY <1>4 DEF RecoveryStep, Next
<1>5. CASE UNCHANGED locksVars
  BY <1>5 DEF locksVars
<1> QED
  BY <1>1, <1>2, <1>3, <1>4, <1>5 DEF LocksNext

\* Session locks over the barrier implement the barrier (withLock calls
\* runListener and nothing else of it).
THEOREM LocksUseBarrier == LocksSpec => Spec
<1>1. LocksInit => Init
  BY DEF LocksInit
<1> QED
  BY <1>1, LocksStepIsBarrierStep, PTL DEF LocksSpec, Spec

\* The lock queues hold listeners only, chunks hold pairs of chunks.
THEOREM LockQueuesTyped == LocksSpec => []QueueOK
<1>1. LocksInit => QueueOK
  <2> SUFFICES ASSUME LocksInit PROVE QueueOK
    OBVIOUS
  <2>1. <<>> \in Seq(Listeners)
    OBVIOUS
  <2> QED
    BY <2>1 DEF LocksInit, QueueOK
<1>2. QueueOK /\ [LocksNext]_locksVars => QueueOK'
  <2> SUFFICES ASSUME QueueOK, [LocksNext]_locksVars PROVE QueueOK'
    OBVIOUS
  <2>1. ASSUME NEW t \in Listeners, NEW p \in Pairs, JoinQueue(t, p)
        PROVE  queue' \in [Pairs -> Seq(Listeners)]
    BY <2>1 DEF QueueOK, JoinQueue
  <2>2. ASSUME NEW t \in Listeners, NEW p \in Pairs, LeaveQueue(t, p)
        PROVE  queue' \in [Pairs -> Seq(Listeners)]
    <3>1. queue[p] \in Seq(Listeners) /\ queue[p] # <<>>
      BY <2>2 DEF QueueOK, LeaveQueue, Holds
    <3>2. Tail(queue[p]) \in Seq(Listeners)
      BY <3>1
    <3> QED
      BY <2>2, <3>2 DEF QueueOK, LeaveQueue
  <2>3. ASSUME NEW c \in Chunks, ChunkCall(c) \/ ChunkExpire(c) \/ ChunkLeave(c)
        PROVE  QueueOK'
    <3>1. CASE ChunkCall(c)
      BY <3>1 DEF ChunkCall, QueueOK
    <3>2. CASE ChunkExpire(c)
      <4>1. c \in Listeners
        BY LocksTasks
      <4>2. \A p \in Pairs : Append(queue[p], c) \in Seq(Listeners) /\ queue[p] \in Seq(Listeners)
        BY <4>1 DEF QueueOK
      <4> QED
        BY <3>2, <4>2 DEF ChunkExpire, QueueOK
    <3>3. CASE ChunkLeave(c)
      BY <3>3 DEF ChunkLeave, QueueOK
    <3> QED
      BY <2>3, <3>1, <3>2, <3>3
  <2>4. ASSUME NEW c \in Chunks, NEW p \in ChunkPairs,
               ChunkLock(c, p) \/ ChunkRun(c, p) \/ ChunkUnlock(c, p)
        PROVE  QueueOK'
    <3>1. CASE ChunkLock(c, p)
      BY <2>1, <3>1, LocksTasks DEF ChunkLock, QueueOK, Pairs
    <3>2. CASE ChunkRun(c, p)
      BY <3>2 DEF ChunkRun, QueueOK, chunkVars
    <3>3. CASE ChunkUnlock(c, p)
      BY <2>2, <3>3, LocksTasks DEF ChunkUnlock, QueueOK, Pairs
    <3> QED
      BY <2>4, <3>1, <3>2, <3>3
  <2>5. ASSUME NEW d \in Directs, NEW p \in DirectPairs,
               DirectLock(d, p) \/ DirectRun(d, p) \/ DirectUnlock(d, p)
        PROVE  QueueOK'
    <3>1. CASE DirectLock(d, p)
      BY <2>1, <3>1, LocksTasks DEF DirectLock, QueueOK, Pairs, chunkVars
    <3>2. CASE DirectRun(d, p)
      BY <3>2 DEF DirectRun, QueueOK, chunkVars
    <3>3. CASE DirectUnlock(d, p)
      BY <2>2, <3>3, LocksTasks DEF DirectUnlock, QueueOK, Pairs, chunkVars
    <3> QED
      BY <2>5, <3>1, <3>2, <3>3
  <2>6. ASSUME NEW r \in Recoveries, RecoveryStep(r) PROVE QueueOK'
    BY <2>6 DEF RecoveryStep, QueueOK, chunkVars
  <2>7. CASE UNCHANGED locksVars
    BY <2>7 DEF locksVars, QueueOK, chunkVars
  <2> QED
    BY <2>3, <2>4, <2>5, <2>6, <2>7 DEF LocksNext
<1> QED
  BY <1>1, <1>2, PTL DEF LocksSpec

\* Counted session operations and recoveries exclude each other.
COROLLARY SessionsExcludeRecovery == LocksSpec => []Exclusion
BY LocksUseBarrier, RecoveryIsExclusive, PTL

\* When nothing is detached, no session operation runs while a recovery does,
\* whether the pair or the barrier was taken first.
THEOREM SessionsQuietHolds ==
  ASSUME Detaching = {}
  PROVE  LocksSpec => []SessionsQuiet
<1>1. QueueOK /\ OperationExclusion => SessionsQuiet
  <2> SUFFICES ASSUME QueueOK, OperationExclusion, InsideRecoveries # {},
                      NEW p \in Pairs, queue[p] # <<>>
               PROVE  pc[Head(queue[p])] # "inside" /\ nested[Head(queue[p])] = "none"
    BY DEF SessionsQuiet
  <2>1. queue[p] \in Seq(Listeners)
    BY DEF QueueOK
  <2>2. Head(queue[p]) \in Listeners
    BY <2>1
  <2> QED
    BY <2>2 DEF OperationExclusion
<1>2. Spec => []OperationExclusion
  BY DrainedBeforeRecovery
<1> QED
  BY <1>1, <1>2, LocksUseBarrier, LockQueuesTyped, PTL

------------------------------------------------------------------------------
(* No circle of waits.                                                      *)

\* What a step of the barrier does to the listeners: to the one that moves,
\* and to those a recovery admits when it leaves.
LEMMA ListenerMoves ==
  ASSUME IInv, NEW l \in Listeners
  PROVE  /\ EnterListener(l) \/ QueueListener(l) =>
              pc[l] = "idle" /\ pc'[l] # "idle" /\ \A k \in Listeners : k # l => pc'[k] = pc[k]
         /\ ReleaseListener(l) => pc[l] = "inside" /\ pc'[l] = "idle" /\ \A k \in Listeners : k # l => pc'[k] = pc[k]
<1> USE DEF IInv, TypeOK, Tasks
<1>1. EnterListener(l) \/ QueueListener(l) =>
        pc[l] = "idle" /\ pc'[l] # "idle" /\ \A k \in Listeners : k # l => pc'[k] = pc[k]
  BY DEF EnterListener, QueueListener
<1>2. ASSUME ReleaseListener(l)
      PROVE  pc[l] = "inside" /\ pc'[l] = "idle" /\ \A k \in Listeners : k # l => pc'[k] = pc[k]
  <2>1. recoveryWaiters # <<>> => Head(recoveryWaiters) \in Recoveries
    OBVIOUS
  <2> QED
    BY <1>2, <2>1, BarrierAssumption DEF ReleaseListener, StartNextRecovery
<1> QED
  BY <1>1, <1>2

LEMMA RecoveryMoves ==
  ASSUME IInv, NEW r \in Recoveries, RecoveryNext(r), NEW k \in Listeners
  PROVE  pc'[k] = pc[k] \/ (pc[k] = "waiting" /\ pc'[k] = "inside")
<1> USE DEF IInv, TypeOK, Tasks
<1>1. CASE EnterRecovery(r) \/ QueueRecovery(r)
  BY <1>1, BarrierAssumption DEF EnterRecovery, QueueRecovery
<1>2. CASE ReleaseRecovery(r)
  <2>1. recoveryWaiters # <<>> => Head(recoveryWaiters) \in Recoveries
    OBVIOUS
  <2>2. k \in listenerWaiters => pc[k] = "waiting"
    BY DEF Bookkeeping, WaitersMatch
  <2> QED
    BY <1>2, <2>1, <2>2, BarrierAssumption DEF ReleaseRecovery, StartNextRecovery, AdmitListeners
<1> QED
  BY <1>1, <1>2 DEF RecoveryNext

\* Membership in a queue, as a relation between values.
Among(t, s) == \E i \in DOMAIN s : s[i] = t

LEMMA AmongAppend ==
  ASSUME NEW s \in Seq(Listeners), NEW c \in Listeners
  PROVE  /\ \A t : Among(t, Append(s, c)) <=> Among(t, s) \/ t = c
         /\ Append(s, c) # <<>> /\ Head(Append(s, c)) = IF s = <<>> THEN c ELSE Head(s)
<1>1. /\ Len(s) \in Nat /\ DOMAIN s = 1..Len(s) /\ DOMAIN Append(s, c) = 1..(Len(s) + 1)
      /\ \A i \in 1..Len(s) : Append(s, c)[i] = s[i]
      /\ Append(s, c)[Len(s) + 1] = c
  OBVIOUS
<1>2. \A t : Among(t, Append(s, c)) <=> Among(t, s) \/ t = c
  BY <1>1 DEF Among
<1>3. Append(s, c) # <<>> /\ Head(Append(s, c)) = IF s = <<>> THEN c ELSE Head(s)
  <2>1. CASE s = <<>>
    BY <2>1
  <2>2. CASE s # <<>>
    BY <2>2
  <2> QED
    BY <2>1, <2>2
<1> QED
  BY <1>2, <1>3

LEMMA AmongTail ==
  ASSUME NEW s \in Seq(Listeners), s # <<>>, NEW t, Among(t, Tail(s))
  PROVE  Among(t, s)
<1>1. /\ Len(s) \in Nat /\ Len(s) > 0 /\ DOMAIN s = 1..Len(s) /\ DOMAIN Tail(s) = 1..(Len(s) - 1)
      /\ \A i \in 1..(Len(s) - 1) : Tail(s)[i] = s[i + 1]
  OBVIOUS
<1>2. PICK i \in 1..(Len(s) - 1) : Tail(s)[i] = t
  BY <1>1 DEF Among
<1> QED
  BY <1>1, <1>2 DEF Among

\* Who is in the queue s of pair p, when the tasks are at where: chunks that
\* are inside the barrier, and direct calls, of which only the head has asked
\* for the barrier.
Waiting(p, s, where) ==
  /\ \A c \in Chunks : Among(c, s) => p \in ChunkPairs /\ where[c] = "inside"
  /\ \A d \in Directs : Among(d, s) => p \in DirectPairs /\ (where[d] # "idle" => s # <<>> /\ Head(s) = d)

\* The inductive invariant.  A direct call is queued on one pair only.
LocksInv ==
  /\ QueueOK /\ IInv
  /\ \A p \in Pairs : Waiting(p, queue[p], pc)
  /\ \A d \in Directs : \A p, q \in Pairs : Among(d, queue[p]) /\ Among(d, queue[q]) => p = q

LEMMA AtLocks ==
  ASSUME LocksInv
  PROVE  /\ IInv /\ QueueOK /\ \A p \in Pairs : queue[p] \in Seq(Listeners) /\ Waiting(p, queue[p], pc)
         /\ \A d \in Directs : \A p, q \in Pairs : Among(d, queue[p]) /\ Among(d, queue[q]) => p = q
BY DEF LocksInv, QueueOK

\* Tasks whose place matters stay where they are.
LEMMA WaitingMoves ==
  ASSUME NEW p, NEW s, NEW where, NEW where2, Waiting(p, s, where),
         \A c \in Chunks : Among(c, s) => where2[c] = where[c],
         \A d \in Directs : Among(d, s) => (where2[d] # "idle" => where[d] # "idle" \/ (s # <<>> /\ Head(s) = d))
  PROVE  Waiting(p, s, where2)
BY DEF Waiting

\* A queue grows by a task that may wait in it.
LEMMA WaitingJoins ==
  ASSUME NEW p, NEW s \in Seq(Listeners), NEW where, Waiting(p, s, where), NEW t \in Listeners,
         t \in Chunks => p \in ChunkPairs /\ where[t] = "inside",
         t \in Directs => p \in DirectPairs /\ where[t] = "idle"
  PROVE  Waiting(p, Append(s, t), where)
<1>1. \A u : Among(u, Append(s, t)) <=> Among(u, s) \/ u = t
  BY AmongAppend
<1>2. \A u : Among(u, s) => s # <<>>
  BY DEF Among
<1>3. Append(s, t) # <<>> /\ Head(Append(s, t)) = IF s = <<>> THEN t ELSE Head(s)
  BY AmongAppend
<1> QED
  BY <1>1, <1>2, <1>3 DEF Waiting

\* The head leaves; if it was a direct call, it is idle again.
LEMMA WaitingLeaves ==
  ASSUME NEW p, NEW s \in Seq(Listeners), s # <<>>, NEW where, NEW where2, Waiting(p, s, where),
         \A k \in Listeners : k # Head(s) => where2[k] = where[k],
         Head(s) \in Chunks => where2[Head(s)] = where[Head(s)],
         Head(s) \in Directs => where2[Head(s)] = "idle"
  PROVE  Waiting(p, Tail(s), where2)
<1>1. \A u : Among(u, Tail(s)) => Among(u, s)
  BY AmongTail
<1>2. ASSUME NEW c \in Chunks, Among(c, Tail(s)) PROVE p \in ChunkPairs /\ where2[c] = "inside"
  BY <1>1, <1>2, LocksTasks DEF Waiting
<1>3. ASSUME NEW d \in Directs, Among(d, Tail(s)) PROVE p \in DirectPairs /\ where2[d] = "idle"
  BY <1>1, <1>3, LocksTasks DEF Waiting
<1> QED
  BY <1>2, <1>3 DEF Waiting

\* A step that leaves the queues alone, and every task that waits in one
\* inside the barrier, or asking for it from the head.
LEMMA QueuesStay ==
  ASSUME LocksInv, IInv', QueueOK', queue' = queue,
         \A c \in Chunks : pc[c] = "inside" /\ pc'[c] # "inside" => \A p \in Pairs : ~Among(c, queue[p]),
         \A d \in Directs : pc[d] = "idle" /\ pc'[d] # "idle" =>
           \A p \in Pairs : Among(d, queue[p]) => queue[p] # <<>> /\ Head(queue[p]) = d
  PROVE  LocksInv'
<1>1. ASSUME NEW p \in Pairs PROVE Waiting(p, queue[p], pc')
  BY AtLocks DEF Waiting
<1>2. \A p \in Pairs : Waiting(p, queue'[p], pc')
  BY <1>1
<1> QED
  BY <1>2, AtLocks DEF LocksInv

LEMMA QueuedAmong ==
  ASSUME NEW t, NEW p
  PROVE  Queued(t, p) <=> Among(t, queue[p])
BY DEF Queued, Among

\* A task joins the queues of the pairs of J.
LEMMA JoinKeeps ==
  ASSUME LocksInv, IInv', QueueOK', pc' = pc, NEW t \in Listeners, NEW J \in SUBSET Pairs,
         \A p \in Pairs : queue'[p] = IF p \in J THEN Append(queue[p], t) ELSE queue[p],
         t \in Chunks => pc[t] = "inside" /\ J \subseteq ChunkPairs,
         t \in Directs => /\ pc[t] = "idle" /\ J \subseteq DirectPairs
                          /\ (\A p, q \in J : p = q) /\ \A p \in Pairs : ~Among(t, queue[p])
  PROVE  LocksInv'
<1>1. ASSUME NEW p \in Pairs PROVE Waiting(p, queue'[p], pc')
  <2>1. CASE p \in J
    BY <2>1, AtLocks, WaitingJoins
  <2>2. CASE p \notin J
    BY <2>2, AtLocks
  <2> QED
    BY <2>1, <2>2
<1>2. \A u, p : p \in Pairs /\ Among(u, queue'[p]) => Among(u, queue[p]) \/ (u = t /\ p \in J)
  BY AtLocks, AmongAppend
<1>3. ASSUME NEW d \in Directs, NEW p \in Pairs, NEW q \in Pairs, Among(d, queue'[p]), Among(d, queue'[q])
      PROVE  p = q
  BY <1>2, <1>3, AtLocks
<1> QED
  BY <1>1, <1>3 DEF LocksInv

\* The head of the queue of p leaves it.
LEMMA LeaveKeeps ==
  ASSUME LocksInv, IInv', QueueOK', NEW t \in Listeners, NEW p \in Pairs, LeaveQueue(t, p),
         \A k \in Listeners : k # t => pc'[k] = pc[k],
         t \in Chunks => pc'[t] = pc[t],
         t \in Directs => pc'[t] = "idle"
  PROVE  LocksInv'
<1>1. queue[p] # <<>> /\ Head(queue[p]) = t /\ queue' = [queue EXCEPT ![p] = Tail(queue[p])]
  BY DEF LeaveQueue, Holds
<1>2. /\ queue'[p] = Tail(queue[p])
      /\ \A q \in Pairs : q # p => queue'[q] = queue[q]
  BY <1>1 DEF LocksInv, QueueOK
<1>3. PICK s \in Seq(Listeners) : s = queue[p]
  BY AtLocks
<1>4. Waiting(p, queue'[p], pc')
  <2>1. Waiting(p, Tail(s), pc')
    BY <1>1, <1>3, AtLocks, WaitingLeaves
  <2> QED
    BY <1>2, <1>3, <2>1
<1>5. ASSUME NEW q \in Pairs, q # p PROVE Waiting(q, queue'[q], pc')
  <2>1. \A c \in Chunks : pc'[c] = pc[c]
    BY LocksTasks
  <2>2. \A d \in Directs : pc'[d] # "idle" => pc[d] # "idle"
    BY LocksTasks
  <2>3. Waiting(q, queue[q], pc')
    BY <1>5, <2>1, <2>2, AtLocks DEF Waiting
  <2> QED
    BY <1>2, <1>5, <2>3
<1>6. \A u, q : q \in Pairs /\ Among(u, queue'[q]) => Among(u, queue[q])
  BY <1>1, <1>2, <1>3, AmongTail
<1>7. \A q \in Pairs : Waiting(q, queue'[q], pc')
  BY <1>4, <1>5
<1>8. \A d \in Directs : \A x, y \in Pairs : Among(d, queue'[x]) /\ Among(d, queue'[y]) => x = y
  BY <1>6, AtLocks
<1> QED
  BY <1>7, <1>8 DEF LocksInv

LEMMA ChunkKeeps ==
  ASSUME LocksInv, IInv', QueueOK', NEW c \in Chunks, ChunkCall(c) \/ ChunkExpire(c) \/ ChunkLeave(c)
  PROVE  LocksInv'
<1>1. c \in Listeners /\ c \notin Directs /\ \A d \in Directs : d \in Listeners /\ d # c
  BY LocksAssumption
<1>2. CASE ChunkCall(c)
  <2>1. queue' = queue /\ pc[c] = "idle" /\ \A k \in Listeners : k # c => pc'[k] = pc[k]
    BY <1>1, <1>2, AtLocks, ListenerMoves DEF ChunkCall
  <2> QED
    BY <1>1, <2>1, LocksTasks, QueuesStay
<1>3. CASE ChunkExpire(c)
  <2>1. /\ pc[c] = "inside" /\ expire[c] \in SUBSET ChunkPairs /\ pc' = pc
        /\ \A p \in Pairs : queue'[p] = IF p \in expire[c] THEN Append(queue[p], c) ELSE queue[p]
    BY <1>3, AtLocks DEF ChunkExpire, QueueOK, vars
  <2>2. expire[c] \in SUBSET Pairs
    BY <2>1 DEF Pairs
  <2> QED
    BY <1>1, <2>1, <2>2, JoinKeeps
<1>4. CASE ChunkLeave(c)
  <2>1. queue' = queue /\ \A k \in Listeners : k # c => pc'[k] = pc[k]
    BY <1>1, <1>4, AtLocks, ListenerMoves DEF ChunkLeave
  <2>2. \A p \in Pairs : ~Among(c, queue[p])
    BY <1>4, QueuedAmong DEF ChunkLeave, Unqueued
  <2> QED
    BY <1>1, <2>1, <2>2, LocksTasks, QueuesStay
<1> QED
  BY <1>2, <1>3, <1>4

LEMMA ChunkPairKeeps ==
  ASSUME LocksInv, IInv', QueueOK', NEW c \in Chunks, NEW p \in ChunkPairs,
         ChunkLock(c, p) \/ ChunkRun(c, p) \/ ChunkUnlock(c, p)
  PROVE  LocksInv'
<1>1. c \in Listeners /\ c \notin Directs /\ p \in Pairs
  BY LocksAssumption DEF Pairs
<1>2. pc' = pc
  BY DEF ChunkLock, ChunkRun, ChunkUnlock, RunNested, EndNested, vars
<1>3. CASE ChunkLock(c, p)
  <2>1. pc[c] = "inside" /\ \A q \in Pairs : queue'[q] = IF q \in {p} THEN Append(queue[q], c) ELSE queue[q]
    BY <1>3, AtLocks DEF ChunkLock, JoinQueue, QueueOK
  <2>2. {p} \in SUBSET Pairs /\ {p} \subseteq ChunkPairs
    BY <1>1
  <2> QED
    BY <1>1, <1>2, <2>1, <2>2, JoinKeeps
<1>4. CASE ChunkRun(c, p)
  BY <1>2, <1>4, QueuesStay DEF ChunkRun
<1>5. CASE ChunkUnlock(c, p)
  <2>1. LeaveQueue(c, p)
    BY <1>5 DEF ChunkUnlock
  <2> QED
    BY <1>1, <1>2, <2>1, LeaveKeeps
<1> QED
  BY <1>3, <1>4, <1>5

LEMMA DirectKeeps ==
  ASSUME LocksInv, IInv', QueueOK', NEW d \in Directs, NEW p \in DirectPairs,
         DirectLock(d, p) \/ DirectRun(d, p) \/ DirectUnlock(d, p)
  PROVE  LocksInv'
<1>1. d \in Listeners /\ d \notin Chunks /\ p \in Pairs /\ \A c \in Chunks : c \in Listeners /\ c # d
  BY LocksAssumption DEF Pairs
<1>2. CASE DirectLock(d, p)
  <2>1. /\ pc[d] = "idle" /\ pc' = pc
        /\ \A q \in Pairs : queue'[q] = IF q \in {p} THEN Append(queue[q], d) ELSE queue[q]
    BY <1>2, AtLocks DEF DirectLock, JoinQueue, QueueOK, vars
  <2>2. {p} \in SUBSET Pairs /\ {p} \subseteq DirectPairs /\ \A q \in Pairs : ~Among(d, queue[q])
    BY <1>1, <1>2, QueuedAmong DEF DirectLock, Unqueued
  <2> QED
    BY <1>1, <2>1, <2>2, JoinKeeps
<1>3. CASE DirectRun(d, p)
  <2>1. queue' = queue /\ \A k \in Listeners : k # d => pc'[k] = pc[k]
    BY <1>1, <1>3, AtLocks, ListenerMoves DEF DirectRun
  <2>2. queue[p] # <<>> /\ Head(queue[p]) = d /\ queue[p] \in Seq(Listeners)
    BY <1>1, <1>3, AtLocks DEF DirectRun, Holds
  <2>3. Among(d, queue[p])
    BY <2>2 DEF Among
  <2>4. \A q \in Pairs : Among(d, queue[q]) => q = p
    BY <1>1, <2>3, AtLocks
  <2> QED
    BY <1>1, <2>1, <2>2, <2>4, LocksTasks, QueuesStay
<1>4. CASE DirectUnlock(d, p)
  <2>1. LeaveQueue(d, p) /\ pc'[d] = "idle" /\ \A k \in Listeners : k # d => pc'[k] = pc[k]
    BY <1>1, <1>4, AtLocks, ListenerMoves DEF DirectUnlock
  <2> QED
    BY <1>1, <2>1, LeaveKeeps
<1> QED
  BY <1>2, <1>3, <1>4

LEMMA LocksStart ==
  ASSUME LocksInit, QueueOK, IInv
  PROVE  LocksInv
<1>1. \A t, p : p \in Pairs => ~Among(t, queue[p])
  BY DEF LocksInit, Among
<1> QED
  BY <1>1 DEF LocksInv, Waiting

LEMMA LocksStep ==
  ASSUME LocksInv, IInv', QueueOK', [LocksNext]_locksVars
  PROVE  LocksInv'
<1>1. ASSUME NEW r \in Recoveries, RecoveryStep(r) PROVE LocksInv'
  <2>1. queue' = queue /\ \A k \in Listeners : pc'[k] = pc[k] \/ (pc[k] = "waiting" /\ pc'[k] = "inside")
    BY <1>1, AtLocks, RecoveryMoves DEF RecoveryStep
  <2> QED
    BY <2>1, LocksTasks, QueuesStay
<1>2. CASE UNCHANGED locksVars
  BY <1>2, QueuesStay DEF locksVars, vars
<1> QED
  BY <1>1, <1>2, ChunkKeeps, ChunkPairKeeps, DirectKeeps DEF LocksNext

\* The queue of a pair holds chunks that are inside the barrier, and direct
\* calls of which only the head has asked for it, on its only pair.
THEOREM LocksInvariant == LocksSpec => []LocksInv
<1>1. LocksInit /\ QueueOK /\ IInv => LocksInv
  BY LocksStart
<1>2. LocksInv /\ IInv' /\ QueueOK' /\ [LocksNext]_locksVars => LocksInv'
  BY LocksStep
<1>3. LocksSpec => []IInv
  BY LocksUseBarrier, BarrierInvariant, PTL
<1> QED
  BY <1>1, <1>2, <1>3, LockQueuesTyped, PTL DEF LocksSpec

\* A set of operations, pairs and recoveries waits in a circle (withLock, then
\* runListener, and the other way round in a chunk) only around a pair on which
\* a direct call and a chunk have crossed.
THEOREM CirclesAreCrossings ==
  ASSUME Pairs \cap Tasks = {}
  PROVE  LocksSpec => []OnlyCrossings
<1>1. ASSUME LocksInv PROVE OnlyCrossings
  <2> SUFFICES ASSUME NEW S \in (SUBSET (Tasks \cup Pairs)) \ {{}},
                      \A x \in S : \E y \in S : WaitsFor(x, y),
                      \A p \in S \cap Pairs : ~Crossing(p)
               PROVE  FALSE
    BY DEF OnlyCrossings
  <2>1. ASSUME NEW w \in S, w \in Listeners, pc[w] = "inside" PROVE FALSE
    <3>1. PICK p \in S : WaitsFor(w, p)
      OBVIOUS
    <3>2. p \in Pairs /\ Among(w, queue[p])
      BY <2>1, <3>1, BarrierAssumption, QueuedAmong DEF WaitsFor, Tasks
    <3>3. PICK r \in S : WaitsFor(p, r)
      OBVIOUS
    <3>4. queue[p] # <<>> /\ pc[Head(queue[p])] = "waiting"
      BY <3>2, <3>3 DEF WaitsFor, Tasks
    <3>5. Head(queue[p]) \in Listeners /\ Among(Head(queue[p]), queue[p])
      <4>1. queue[p] \in Seq(Listeners)
        BY <3>2, <1>1, AtLocks
      <4> QED
        BY <3>4, <4>1 DEF Among
    <3>6. Waiting(p, queue[p], pc)
      BY <3>2, <1>1, AtLocks
    <3>7. Head(queue[p]) \in Directs
      BY <3>4, <3>5, <3>6, LocksTasks, LocksAssumption DEF Waiting
    <3>8. w \in Chunks
      BY <2>1, <3>2, <3>4, <3>6, LocksAssumption DEF Waiting
    <3>9. Crossing(p)
      BY <3>2, <3>4, <3>7, <3>8, QueuedAmong DEF Crossing
    <3> QED
      BY <3>2, <3>9
  <2>2. ASSUME NEW r \in S, r \in Recoveries PROVE FALSE
    <3>1. PICK w \in S : WaitsFor(r, w)
      OBVIOUS
    <3>2. w \in Tasks /\ pc[r] = "waiting" /\ pc[w] = "inside"
      BY <2>2, <3>1, BarrierAssumption DEF WaitsFor, Tasks
    <3>3. w \in Recoveries
      BY <2>1, <3>2 DEF Tasks
    <3>4. PICK v \in S : WaitsFor(w, v)
      OBVIOUS
    <3> QED
      BY <3>2, <3>3, <3>4, BarrierAssumption DEF WaitsFor, Tasks
  <2>3. ASSUME NEW p \in S, p \in Pairs PROVE FALSE
    BY <2>2, <2>3 DEF WaitsFor, Tasks
  <2>4. ASSUME NEW l \in S, l \in Listeners PROVE FALSE
    BY <2>3, <2>4, BarrierAssumption DEF WaitsFor, Tasks
  <2>5. PICK x : x \in S
    OBVIOUS
  <2>6. x \in Listeners \/ x \in Recoveries \/ x \in Pairs
    BY <2>5 DEF Tasks
  <2> QED
    BY <2>2, <2>3, <2>4, <2>5, <2>6
<1> QED
  BY <1>1, LocksInvariant, PTL

\* The queue of a crossed pair may grow; its head stays, and waits.
LEMMA CrossingMoves ==
  ASSUME LocksInv, NEW p \in Pairs, Crossing(p), pc'[Head(queue[p])] = "waiting",
         NEW t \in Listeners, queue'[p] = queue[p] \/ queue'[p] = Append(queue[p], t)
  PROVE  Crossing(p)'
<1>1. queue[p] \in Seq(Listeners) /\ queue[p] # <<>> /\ Head(queue[p]) \in Directs
  BY AtLocks DEF Crossing
<1>2. PICK c \in Chunks : Among(c, queue[p])
  BY QueuedAmong DEF Crossing
<1>3. queue'[p] # <<>> /\ Head(queue'[p]) = Head(queue[p]) /\ Among(c, queue'[p])
  <2>1. PICK s \in Seq(Listeners) : s = queue[p]
    BY <1>1
  <2>2. Append(s, t) # <<>> /\ Head(Append(s, t)) = Head(s) /\ Among(c, Append(s, t))
    BY <1>1, <1>2, <2>1, AmongAppend
  <2> QED
    BY <1>1, <1>2, <2>1, <2>2
<1>4. \E i \in DOMAIN queue'[p] : queue'[p][i] = c
  BY <1>3 DEF Among
<1> QED
  BY <1>1, <1>3, <1>4 DEF Crossing, Queued

\* While a pair is crossed a chunk is inside, so no recovery is: the parked
\* calls stay parked, and only the head could leave the queue.
LEMMA CrossingHolds ==
  ASSUME LocksInv, NEW p \in Pairs, Crossing(p), [LocksNext]_locksVars
  PROVE  Crossing(p)'
<1> DEFINE h == Head(queue[p])
<1>1. h \in Directs /\ h \in Listeners /\ h \notin Chunks /\ pc[h] = "waiting"
  BY LocksAssumption DEF Crossing
<1>2. \A r \in Recoveries : pc[r] # "inside"
  <2>1. PICK c \in Chunks : Among(c, queue[p])
    BY QueuedAmong DEF Crossing
  <2>2. c \in InsideListeners
    BY <2>1, AtLocks, LocksAssumption DEF Waiting, InsideListeners
  <2>3. Exclusion
    BY AtLocks DEF IInv
  <2> QED
    BY <2>2, <2>3 DEF Exclusion, InsideRecoveries
<1>3. IInv /\ queue[p] \in Seq(Listeners) /\ p \in DOMAIN queue /\ DOMAIN queue = Pairs
  BY AtLocks DEF QueueOK
<1>4. \A k \in Listeners : EnterListener(k) \/ QueueListener(k) \/ ReleaseListener(k) => k # h /\ pc'[h] = "waiting"
  BY <1>1, <1>3, ListenerMoves
<1>5. \A k : LeaveQueue(k, p) => k = h
  BY DEF LeaveQueue, Holds
<1>6. \A k, q : q \in Pairs /\ q # p /\ LeaveQueue(k, q) => queue'[p] = queue[p]
  BY <1>3 DEF LeaveQueue
<1> HIDE DEF h
<1>7. pc'[h] = "waiting" /\ queue'[p] = queue[p] => Crossing(p)'
  BY <1>1, CrossingMoves DEF h
<1>8. \A t \in Listeners : pc'[h] = "waiting" /\ queue'[p] = Append(queue[p], t) => Crossing(p)'
  BY CrossingMoves DEF h
<1>9. ASSUME NEW c \in Chunks, ChunkCall(c) \/ ChunkExpire(c) \/ ChunkLeave(c) PROVE Crossing(p)'
  <2>1. c \in Listeners
    BY LocksAssumption
  <2>2. CASE ChunkCall(c) \/ ChunkLeave(c)
    BY <1>4, <1>7, <2>1, <2>2 DEF ChunkCall, ChunkLeave
  <2>3. CASE ChunkExpire(c)
    BY <1>1, <1>7, <1>8, <2>1, <2>3 DEF ChunkExpire, vars
  <2> QED
    BY <1>9, <2>2, <2>3
<1>10. ASSUME NEW c \in Chunks, NEW q \in ChunkPairs, ChunkLock(c, q) \/ ChunkRun(c, q) \/ ChunkUnlock(c, q)
       PROVE  Crossing(p)'
  <2>1. c \in Listeners /\ q \in Pairs /\ c # h
    BY <1>1, LocksAssumption DEF Pairs
  <2>2. pc' = pc
    BY <1>10 DEF ChunkLock, ChunkRun, ChunkUnlock, RunNested, EndNested, vars
  <2>3. CASE ChunkLock(c, q)
    <3>1. queue'[p] = queue[p] \/ queue'[p] = Append(queue[p], c)
      BY <1>3, <2>3 DEF ChunkLock, JoinQueue
    <3> QED
      BY <1>1, <1>7, <1>8, <2>1, <2>2, <3>1
  <2>4. CASE ChunkRun(c, q)
    BY <1>1, <1>7, <2>2, <2>4 DEF ChunkRun
  <2>5. CASE ChunkUnlock(c, q)
    <3>1. LeaveQueue(c, q)
      BY <2>5 DEF ChunkUnlock
    <3> QED
      BY <1>1, <1>5, <1>6, <1>7, <2>1, <2>2, <3>1
  <2> QED
    BY <1>10, <2>3, <2>4, <2>5
<1>11. ASSUME NEW d \in Directs, NEW q \in DirectPairs, DirectLock(d, q) \/ DirectRun(d, q) \/ DirectUnlock(d, q)
       PROVE  Crossing(p)'
  <2>1. d \in Listeners /\ q \in Pairs
    BY LocksAssumption DEF Pairs
  <2>2. CASE DirectLock(d, q)
    <3>1. pc' = pc /\ (queue'[p] = queue[p] \/ queue'[p] = Append(queue[p], d))
      BY <1>3, <2>2 DEF DirectLock, JoinQueue, vars
    <3> QED
      BY <1>1, <1>7, <1>8, <2>1, <3>1
  <2>3. CASE DirectRun(d, q)
    BY <1>4, <1>7, <2>1, <2>3 DEF DirectRun
  <2>4. CASE DirectUnlock(d, q)
    <3>1. LeaveQueue(d, q) /\ d # h /\ pc'[h] = "waiting"
      BY <1>4, <2>1, <2>4 DEF DirectUnlock
    <3> QED
      BY <1>5, <1>6, <1>7, <2>1, <3>1
  <2> QED
    BY <1>11, <2>2, <2>3, <2>4
<1>12. ASSUME NEW r \in Recoveries, RecoveryStep(r) PROVE Crossing(p)'
  <2>1. queue' = queue /\ RecoveryNext(r)
    BY <1>12 DEF RecoveryStep
  <2>2. EnterRecovery(r) \/ QueueRecovery(r)
    BY <1>2, <2>1 DEF RecoveryNext, ReleaseRecovery
  <2>3. pc'[h] = "waiting"
    BY <1>1, <1>3, <2>2, BarrierAssumption DEF EnterRecovery, QueueRecovery, IInv, TypeOK, Tasks
  <2> QED
    BY <1>7, <2>1, <2>3
<1>13. CASE UNCHANGED locksVars
  BY <1>1, <1>7, <1>13 DEF locksVars, vars
<1> QED
  BY <1>9, <1>10, <1>11, <1>12, <1>13 DEF LocksNext

\* Once a direct call and a chunk have crossed on a pair they stay so, and the
\* recovery between them with them (withLock holds, runListener parks, the
\* chunk waits inside): only the end of the process undoes it.
THEOREM CrossingIsForGood == LocksSpec => CrossingsLast
<1>1. LocksInv /\ [LocksNext]_locksVars => [\A p \in Pairs : Crossing(p) => Crossing(p)']_locksVars
  BY CrossingHolds
<1> QED
  BY <1>1, LocksInvariant, PTL DEF LocksSpec, CrossingsLast
==============================================================================
