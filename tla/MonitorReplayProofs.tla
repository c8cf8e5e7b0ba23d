------------------------- MODULE MonitorReplayProofs -------------------------
(****************************************************************************)
(* The places of the monitors and the gate of a replay, for every finite    *)
(* set of pairs, every capacity and every bound.  A turn of the scheduler   *)
(* looks at the places, then stops a monitor that gives way, or reads the   *)
(* session again, and only then starts the new one: PlacesInv says what is  *)
(* still known of the places when it comes to that.                         *)
(*                                                                          *)
(* Then the kinds of all values, with the queue of the coordinator          *)
(* (KindsInv), and on top of them what the completion of an audit relies on *)
(* (AuditInv).                                                              *)
(****************************************************************************)
EXTENDS MonitorReplay, FiniteSetTheorems, TLAPS

MonStates == {"off", "live", "prepared", "ending", "leaving", "stopped"}
Scopes == {"outside", "replay"}
TurnRecord ==
  [pc : {"idle", "load", "stop", "read", "starting"}, scope : Scopes,
   todo : SUBSET Pairs, line : SUBSET Pairs, open : SUBSET Pairs, at : SUBSET Pairs,
   victims : SUBSET Pairs, reserved : Nat, failed : BOOLEAN, aborted : BOOLEAN,
   again : BOOLEAN]

\* The inductive invariant: while a session is read again there is a place for its
\* monitor, counting the one that a monitor still to be stopped will leave.
PlacesInv ==
  /\ mon \in [Pairs -> MonStates]
  /\ sched \in TurnRecord
  /\ CapacityKept
  /\ sched.pc = "read" => Cardinality(Active \ sched.todo) < Capacity

\* A step that starts no monitor and does not bring the scheduler to a start.
Quiet ==
  /\ mon' \in [Pairs -> MonStates]
  /\ sched' \in TurnRecord
  /\ \A p \in Pairs : mon[p] = "off" => mon'[p] = "off"
  /\ sched'.pc = "read" => sched.pc = "read" /\ sched'.todo = sched.todo

------------------------------------------------------------------------------
(* Counting monitors.                                                       *)

LEMMA Counted ==
  ASSUME NEW S, S \subseteq Pairs
  PROVE  IsFiniteSet(S) /\ Cardinality(S) \in Nat
BY ReplayAssumption, FS_Subset, FS_CardinalityType

LEMMA Fewer ==
  ASSUME NEW S, NEW T, S \subseteq T, T \subseteq Pairs
  PROVE  Cardinality(S) <= Cardinality(T)
BY Counted, FS_Subset

\* Fewer monitors keep within their places.
LEMMA QuietKeeps ==
  ASSUME PlacesInv, Quiet
  PROVE  PlacesInv'
<1>1. Active' \subseteq Active /\ Active \subseteq Pairs
  BY DEF Quiet, PlacesInv, Active
<1>2. Cardinality(Active') <= Cardinality(Active)
  BY <1>1, Fewer
<1>3. Cardinality(Active') \in Nat /\ Cardinality(Active) \in Nat
  BY <1>1, Counted
<1>4. CapacityKept'
  BY <1>2, <1>3, ReplayAssumption DEF PlacesInv, CapacityKept
<1>5. ASSUME sched'.pc = "read" PROVE Cardinality(Active' \ sched'.todo) < Capacity
  <2>1. Active' \ sched'.todo \subseteq Active \ sched.todo /\ Active \ sched.todo \subseteq Pairs
    BY <1>1, <1>5 DEF Quiet
  <2>2. Cardinality(Active' \ sched'.todo) <= Cardinality(Active \ sched.todo)
    BY <2>1, Fewer
  <2>3. Cardinality(Active' \ sched'.todo) \in Nat /\ Cardinality(Active \ sched.todo) \in Nat
    BY <2>1, Counted
  <2> QED
    BY <1>5, <2>2, <2>3, ReplayAssumption DEF Quiet, PlacesInv
<1> QED
  BY <1>4, <1>5 DEF Quiet, PlacesInv

------------------------------------------------------------------------------
(* The steps that start nothing.                                            *)

LEMMA Asking ==
  ASSUME sched \in TurnRecord, NEW scope \in Scopes
  PROVE  /\ Kicked(sched, scope) \in TurnRecord
         /\ Requested(sched, scope) \in TurnRecord
         /\ Kicked(sched, scope).pc = "read" =>
              sched.pc = "read" /\ Kicked(sched, scope).todo = sched.todo
         /\ Requested(sched, scope).pc = "read" =>
              sched.pc = "read" /\ Requested(sched, scope).todo = sched.todo
<1>1. CASE sched.pc = "idle"
  BY <1>1 DEF Kicked, Requested, NoTurn, TurnRecord, Scopes
<1>2. CASE sched.pc # "idle"
  BY <1>2 DEF Kicked, Requested, TurnRecord
<1> QED
  BY <1>1, <1>2

LEMMA StoppedQuiet ==
  ASSUME PlacesInv, NEW p \in Pairs, Stopped(p)
  PROVE  Quiet
<1>1. mon' \in [Pairs -> MonStates] /\ \A q \in Pairs : mon[q] = "off" => mon'[q] = "off"
  BY DEF PlacesInv, Stopped, MonStates
<1> QED
  BY <1>1, Asking DEF PlacesInv, Stopped, Quiet, Scopes

LEMMA StillQuiet ==
  ASSUME PlacesInv, UNCHANGED <<mon, sched>>
  PROVE  Quiet
BY DEF PlacesInv, Quiet

LEMMA WorldQuiet ==
  ASSUME PlacesInv,
         World \/ Tick \/ \E p \in Pairs : Retire(p) \/ Leave(p) \/ SellEnds(p)
  PROVE  Quiet
<1>1. ASSUME NEW p \in Pairs, Refuse(p) \/ SellBegins(p) \/ SwapSeen(p) PROVE Quiet
  BY <1>1, StillQuiet DEF Refuse, SellBegins, SwapSeen, monitors
<1>2. CASE PairSeen \/ Tick
  BY <1>2, StillQuiet DEF PairSeen, Tick, monitors
<1>3. ASSUME NEW p \in Pairs, IgnoreEnds(p) PROVE Quiet
  BY <1>3, StoppedQuiet DEF IgnoreEnds
<1>4. ASSUME NEW p \in Pairs, SellEnds(p) PROVE Quiet
  BY <1>4, StoppedQuiet, StillQuiet DEF SellEnds, monitors
<1>5. ASSUME NEW p \in Pairs, Retire(p) \/ Leave(p) PROVE Quiet
  <2>1. mon' = [mon EXCEPT ![p] = "off"] /\ \E scope \in Scopes : sched' = Requested(sched, scope)
    BY <1>5 DEF Retire, Leave, Scopes
  <2> QED
    BY <2>1, Asking DEF PlacesInv, Quiet, MonStates
<1> QED
  BY <1>1, <1>2, <1>3, <1>4, <1>5 DEF World

LEMMA OrchestratingQuiet ==
  ASSUME PlacesInv, Orchestrating
  PROVE  Quiet
<1>1. CASE OrchBegin \/ OrchEnd
  BY <1>1, StillQuiet DEF OrchBegin, OrchEnd, OrchUnchanged
<1>2. CASE OrchInline
  <2>1. mon' \in [Pairs -> MonStates] /\ \A p \in Pairs : mon[p] = "off" => mon'[p] = "off"
    BY <1>2 DEF OrchInline, Swaps, Capable, PlacesInv, MonStates
  <2> QED
    BY <1>2, <2>1 DEF OrchInline, PlacesInv, Quiet
<1> QED
  BY <1>1, <1>2 DEF Orchestrating

LEMMA SynchronizedMon ==
  ASSUME PlacesInv, NEW s, Synchronized(s)
  PROVE  mon' \in [Pairs -> MonStates] /\ \A p \in Pairs : mon[p] = "off" => mon'[p] = "off"
BY DEF PlacesInv, Synchronized, Active, MonStates

LEMMA PairsReadSched ==
  ASSUME PlacesInv, NEW scope \in Scopes, PairsRead(scope)
  PROVE  /\ sched' \in TurnRecord
         /\ sched'.pc = "read" => sched.pc = "read" /\ sched'.todo = sched.todo
BY Asking DEF PlacesInv, PairsRead

LEMMA ServingQuiet ==
  ASSUME PlacesInv, Serving
  PROVE  Quiet
<1>1. CASE ServePairs
  BY <1>1, PairsReadSched DEF ServePairs, monitors, PlacesInv, Quiet, Scopes
<1>2. CASE ServeSwaps
  <2>1. mon' \in [Pairs -> MonStates] /\ \A p \in Pairs : mon[p] = "off" => mon'[p] = "off"
    BY <1>2 DEF ServeSwaps, Swaps, Capable, PlacesInv, MonStates
  <2> QED
    BY <1>2, <2>1 DEF ServeSwaps, PlacesInv, Quiet
<1>3. CASE Reorg
  BY <1>3, SynchronizedMon DEF Reorg, PlacesInv, Quiet
<1>4. CASE Retry \/ Passed
  BY <1>4, StillQuiet DEF Retry, Passed, monitors
<1> QED
  BY <1>1, <1>2, <1>3, <1>4 DEF Serving

LEMMA DrainMon ==
  ASSUME PlacesInv, Drain
  PROVE  mon' \in [Pairs -> MonStates] /\ \A p \in Pairs : mon[p] = "off" => mon'[p] = "off"
BY DEF PlacesInv, Drain, MonStates

LEMMA RecoveringQuiet ==
  ASSUME PlacesInv, Recovering
  PROVE  Quiet
<1>1. CASE RecoveryStart
  BY <1>1, StillQuiet DEF RecoveryStart, monitors
<1>2. CASE RecoveryEnd
  BY <1>2, SynchronizedMon DEF RecoveryEnd, PlacesInv, Quiet
<1>3. CASE RecoveryActivate
  BY <1>3, DrainMon, Asking DEF RecoveryActivate, PlacesInv, Quiet, Scopes
<1> QED
  BY <1>1, <1>2, <1>3 DEF Recovering

LEMMA ReplayingQuiet ==
  ASSUME PlacesInv, Replaying
  PROVE  Quiet
<1>1. CASE FinGate
  BY <1>1 DEF FinGate, monitors, PlacesInv, Quiet, TurnRecord
<1>2. CASE FinDrain
  BY <1>2, DrainMon DEF FinDrain, PlacesInv, Quiet
<1>3. CASE FinPairs \/ FinActivate \/ FinFailed
  BY <1>3, StillQuiet DEF FinPairs, FinActivate, FinFailed, monitors
<1>4. CASE FinRead
  BY <1>4, PairsReadSched DEF FinRead, monitors, PlacesInv, Quiet, Scopes
<1>5. CASE FinAdmit
  BY <1>5, Asking DEF FinAdmit, monitors, PlacesInv, Quiet, Scopes
<1>6. CASE FinSwaps
  BY <1>6 DEF FinSwaps, Swaps, Capable, PlacesInv, Quiet, MonStates
<1>7. CASE FinComplete
  BY <1>7 DEF FinComplete, PlacesInv, Quiet, MonStates
<1> QED
  BY <1>1, <1>2, <1>3, <1>4, <1>5, <1>6, <1>7 DEF Replaying

------------------------------------------------------------------------------
(* A turn of the scheduler.                                                 *)

\* The session at hand is dealt with.
LEMMA TurnOver ==
  ASSUME PlacesInv, NEW p \in Pairs
  PROVE  /\ Goes(p) \in TurnRecord /\ Goes(p).pc = "stop"
         /\ Breaks \in TurnRecord /\ Breaks.pc = "stop"
BY DEF PlacesInv, TurnRecord, Goes, Breaks

LEMMA TurnQuiet ==
  ASSUME PlacesInv,
         \/ SchedLoad \/ SchedEnd
         \/ \E p \in Pairs : SchedThrows(p) \/ SchedStarted(p)
  PROVE  Quiet
<1>1. CASE SchedLoad
  <2> DEFINE refused == {p \in Pairs : status[p] = "WAITING" /\ flag[p] = "ignored"}
             late == {p \in Pairs \ Active : status[p] = "WAITING" /\ flag[p] = "due"}
             eligible == Monitorable \ (refused \cup late)
             reserved == {p \in Pairs : status[p] = "SELLING"}
             open == {p \in eligible : status[p] = "HOLDING"}
             again == refused \cap Active # {}
  <2>1. sched' = [sched EXCEPT !.pc = "stop", !.todo = Active \ (eligible \cup reserved),
                               !.line = eligible, !.open = open, !.victims = eligible,
                               !.reserved = 0, !.again = again]
    BY <1>1 DEF SchedLoad
  <2>2. /\ Active \ (eligible \cup reserved) \in SUBSET Pairs /\ eligible \in SUBSET Pairs
        /\ open \in SUBSET Pairs /\ again \in BOOLEAN
    BY DEF Active, Monitorable
  <2> HIDE DEF refused, late, eligible, reserved, open, again
  <2>3. sched' \in TurnRecord /\ sched'.pc = "stop"
    BY <2>1, <2>2 DEF PlacesInv, TurnRecord
  <2>4. UNCHANGED mon
    BY <1>1 DEF SchedLoad, monitors
  <2> QED
    BY <2>3, <2>4 DEF PlacesInv, Quiet
<1>2. CASE SchedEnd
  <2>1. UNCHANGED mon /\ (sched' = NoTurn \/ sched' = [sched EXCEPT !.pc = "load"])
    BY <1>2 DEF SchedEnd, monitors
  <2>2. CASE sched' = NoTurn
    BY <2>1, <2>2 DEF PlacesInv, Quiet, TurnRecord, NoTurn, Scopes
  <2>3. CASE sched' = [sched EXCEPT !.pc = "load"]
    <3>1. sched' \in TurnRecord /\ sched'.pc = "load"
      BY <2>3 DEF PlacesInv, TurnRecord
    <3> QED
      BY <2>1, <3>1 DEF PlacesInv, Quiet
  <2> QED
    BY <2>1, <2>2, <2>3
<1>3. ASSUME NEW p \in Pairs, SchedThrows(p) PROVE Quiet
  BY <1>3 DEF SchedThrows, monitors, PlacesInv, Quiet, TurnRecord, NoTurn, Scopes
<1>4. ASSUME NEW p \in Pairs, SchedStarted(p) PROVE Quiet
  <2>1. mon' \in [Pairs -> MonStates] /\ \A q \in Pairs : mon[q] = "off" => mon'[q] = "off"
    BY <1>4 DEF SchedStarted, PlacesInv, MonStates
  <2>2. sched' \in TurnRecord /\ sched'.pc = "stop"
    <3>1. \/ sched' = Breaks
          \/ sched' = Goes(p)
          \/ \E n \in {0, 1} : sched' = [Goes(p) EXCEPT !.failed = TRUE, !.aborted = FALSE,
                                                       !.reserved = @ + n]
      BY <1>4 DEF SchedStarted
    <3>2. Goes(p) \in TurnRecord /\ Goes(p).pc = "stop" /\ Breaks \in TurnRecord /\ Breaks.pc = "stop"
      BY TurnOver
    <3>3. ASSUME NEW n \in {0, 1}
          PROVE  LET s == [Goes(p) EXCEPT !.failed = TRUE, !.aborted = FALSE, !.reserved = @ + n]
                 IN s \in TurnRecord /\ s.pc = "stop"
      <4>1. Goes(p).reserved + n \in Nat
        BY <3>2, <3>3 DEF TurnRecord
      <4> QED
        BY <3>2, <4>1 DEF TurnRecord
    <3> QED
      BY <3>1, <3>2, <3>3
  <2> QED
    BY <2>1, <2>2 DEF Quiet
<1> QED
  BY <1>1, <1>2, <1>3, <1>4

\* A stop keeps the monitors, or takes one away; a release takes one away that was
\* already counted out.
LEMMA StopKeeps ==
  ASSUME PlacesInv, NEW p \in Pairs, SchedStop(p) \/ SchedRelease(p)
  PROVE  PlacesInv' /\ \A q \in Pairs : mon[q] = "off" => mon'[q] = "off"
<1>1. mon' \in [Pairs -> MonStates] /\ \A q \in Pairs : mon[q] = "off" => mon'[q] = "off"
  BY DEF SchedStop, SchedRelease, PlacesInv, MonStates
<1>2. CASE SchedStop(p)
  BY <1>1, <1>2, QuietKeeps DEF SchedStop, PlacesInv, Quiet
<1>3. CASE SchedRelease(p)
  <2>1. Active' = Active \ {p} /\ sched'.todo = sched.todo \ {p} /\ sched'.pc = sched.pc
        /\ sched' \in TurnRecord
    BY <1>3 DEF SchedRelease, PlacesInv, Active, TurnRecord
  <2>2. Active \subseteq Pairs
    BY DEF Active
  <2>3. CapacityKept'
    BY <2>1, <2>2, Fewer, Counted, ReplayAssumption DEF PlacesInv, CapacityKept
  <2>4. Active' \ sched'.todo \subseteq Active \ sched.todo
    BY <2>1
  <2>5. /\ Cardinality(Active' \ sched'.todo) <= Cardinality(Active \ sched.todo)
        /\ Cardinality(Active' \ sched'.todo) \in Nat /\ Cardinality(Active \ sched.todo) \in Nat
    BY <2>2, <2>4, Fewer, Counted
  <2> QED
    BY <1>1, <2>1, <2>3, <2>5, ReplayAssumption DEF PlacesInv
<1> QED
  BY <1>1, <1>2, <1>3

\* A session comes to a start when a place is free, or when another monitor gives its own.
LEMMA NextKeeps ==
  ASSUME PlacesInv, NEW p \in Pairs, SchedNext(p)
  PROVE  PlacesInv' /\ UNCHANGED mon
<1>1. UNCHANGED mon /\ Active' = Active /\ Active \subseteq Pairs
  BY DEF SchedNext, monitors, Active
<1>2. Cardinality(Active) \in Nat /\ Cardinality(Active) <= Capacity /\ sched.reserved \in Nat
  BY <1>1, Counted DEF PlacesInv, CapacityKept, TurnRecord
<1>3. CapacityKept'
  BY <1>1, <1>2 DEF CapacityKept
<1>4. CASE sched' = [sched EXCEPT !.line = @ \ {p}] \/ sched' = [sched EXCEPT !.line = {}]
  <2>1. sched' \in TurnRecord /\ sched'.pc = sched.pc /\ sched'.todo = sched.todo
    BY <1>4 DEF PlacesInv, TurnRecord
  <2> QED
    BY <1>1, <1>3, <2>1 DEF PlacesInv
<1>5. ASSUME NEW q \in Observations,
             sched' = [sched EXCEPT !.todo = {q}, !.again = TRUE, !.at = {p}, !.pc = "read"]
      PROVE  PlacesInv'
  <2>1. q \in Active
    BY <1>5 DEF Observations, Active, PlacesInv, TurnRecord
  <2>2. sched' \in TurnRecord /\ sched'.todo = {q}
    BY <1>1, <1>5, <2>1 DEF PlacesInv, TurnRecord
  <2>3. Cardinality(Active \ {q}) = Cardinality(Active) - 1
    BY <1>1, <2>1, Counted, FS_RemoveElement
  <2>4. Cardinality(Active' \ sched'.todo) < Capacity
    BY <1>1, <1>2, <2>2, <2>3, ReplayAssumption
  <2> QED
    BY <1>1, <1>3, <2>2, <2>4 DEF PlacesInv
<1>6. CASE ~Full /\ sched.todo = {} /\ sched' = [sched EXCEPT !.at = {p}, !.pc = "read"]
  <2>1. sched' \in TurnRecord /\ sched'.todo = {}
    BY <1>6 DEF PlacesInv, TurnRecord
  <2>2. Cardinality(Active) < Capacity
    BY <1>2, <1>6, ReplayAssumption DEF Full
  <2> QED
    BY <1>1, <1>3, <2>1, <2>2 DEF PlacesInv
<1> QED
  BY <1>1, <1>4, <1>5, <1>6 DEF SchedNext

\* The monitor that starts takes the place that was found for it, and goes live only
\* when the gate is open.
LEMMA StartKeeps ==
  ASSUME PlacesInv, NEW p \in Pairs, SchedStart(p)
  PROVE  /\ PlacesInv'
         /\ \A q \in Pairs : mon[q] = "off" /\ mon'[q] = "live" => ~Finalizing
<1>1. \/ mon' = mon
      \/ Admitted /\ mon' = [mon EXCEPT ![p] = IF InReplay THEN "prepared" ELSE "live"]
  BY DEF SchedStart, monitors
<1>2. sched' \in TurnRecord /\ sched'.pc # "read"
  <2>1. \/ sched' = Breaks
        \/ sched' = [Goes(p) EXCEPT !.again = TRUE]
        \/ sched' = [sched EXCEPT !.pc = "starting"]
    BY DEF SchedStart
  <2> QED
    BY <2>1, TurnOver DEF PlacesInv, TurnRecord
<1>3. mon' \in [Pairs -> MonStates]
  BY <1>1 DEF PlacesInv, MonStates
<1>4. Active \subseteq Pairs /\ Active' \subseteq Active \cup {p}
  BY <1>1 DEF Active, PlacesInv
<1>5. Cardinality(Active) < Capacity /\ Cardinality(Active) \in Nat
  <2>1. sched.pc = "read" /\ Active \ sched.todo = Active
    BY DEF SchedStart
  <2> QED
    BY <1>4, <2>1, Counted DEF PlacesInv
<1>6. Cardinality(Active') <= Capacity
  <2>1. Active \cup {p} \subseteq Pairs
    BY <1>4
  <2>2. Cardinality(Active \cup {p}) <= Cardinality(Active) + 1
    BY <1>4, <1>5, Counted, FS_AddElement
  <2>3. Cardinality(Active') <= Cardinality(Active \cup {p})
    BY <1>4, <2>1, Fewer
  <2>4. Cardinality(Active') \in Nat /\ Cardinality(Active \cup {p}) \in Nat
    BY <1>4, <2>1, Counted
  <2> QED
    BY <1>5, <2>2, <2>3, <2>4, ReplayAssumption
<1>7. \A q \in Pairs : mon[q] = "off" /\ mon'[q] = "live" => ~Finalizing
  BY <1>1 DEF Admitted, PlacesInv
<1> QED
  BY <1>2, <1>3, <1>6, <1>7 DEF PlacesInv, CapacityKept

\* What every step keeps, and what it never does.
LEMMA StepKeeps ==
  ASSUME PlacesInv, Next
  PROVE  /\ PlacesInv'
         /\ \A p \in Pairs : mon[p] = "off" /\ mon'[p] = "live" => ~Finalizing
<1>1. CASE Quiet
  BY <1>1, QuietKeeps DEF Quiet
<1>2. ASSUME NEW p \in Pairs, SchedStop(p) \/ SchedRelease(p) \/ SchedNext(p) \/ SchedStart(p)
      PROVE  /\ PlacesInv'
             /\ \A q \in Pairs : mon[q] = "off" /\ mon'[q] = "live" => ~Finalizing
  BY <1>2, StopKeeps, NextKeeps, StartKeeps
<1>3. Quiet \/ \E p \in Pairs : SchedStop(p) \/ SchedRelease(p) \/ SchedNext(p) \/ SchedStart(p)
  BY WorldQuiet, TurnQuiet, OrchestratingQuiet, ServingQuiet, ReplayingQuiet, RecoveringQuiet
     DEF Next, Scheduling
<1> QED
  BY <1>1, <1>2, <1>3

------------------------------------------------------------------------------
(* The places are kept, and the gate.                                       *)

LEMMA PlacesInit ==
  ASSUME Init
  PROVE  PlacesInv
<1>1. mon \in [Pairs -> MonStates] /\ sched \in TurnRecord /\ sched.pc = "load"
  BY DEF Init, MonStates, TurnRecord, NoTurn, Scopes
<1>2. Active = {}
  BY DEF Init, Active
<1>3. CapacityKept
  BY <1>2, FS_EmptySet, ReplayAssumption DEF CapacityKept
<1> QED
  BY <1>1, <1>3 DEF PlacesInv

\* The bookkeeping of the places is an invariant of scheduler, orchestrator,
\* coordinator and replay together.
THEOREM PlacesInvariant == Spec => []PlacesInv
<1>1. Init => PlacesInv
  BY PlacesInit
<1>2. PlacesInv /\ [Next]_vars => PlacesInv'
  <2>1. ASSUME PlacesInv, UNCHANGED vars PROVE PlacesInv'
    BY <2>1, StillQuiet, QuietKeeps DEF vars, monitors
  <2> QED
    BY <2>1, StepKeeps
<1> QED
  BY <1>1, <1>2, PTL DEF Spec

\* The monitors never take more places than there are, with those that are being
\* stopped, ended by a pass, or admitted by a replay (monitor-scheduler.ts).
THEOREM PlacesAreKept == Spec => []CapacityKept
<1>1. PlacesInv => CapacityKept
  BY DEF PlacesInv
<1> QED
  BY <1>1, PlacesInvariant, PTL

\* No monitor goes live while a reorg is finalized (reorg-monitor-admission.ts).
THEOREM GateIsKept == Spec => GateHolds
<1> DEFINE P == \A p \in Pairs : mon[p] = "off" /\ mon'[p] = "live" => ~Finalizing
<1>1. PlacesInv /\ [Next]_vars => [P]_vars
  BY StepKeeps
<1> QED
  BY <1>1, PlacesInvariant, PTL DEF Spec, GateHolds
------------------------------------------------------------------------------
(* The kinds of the values.                                                 *)

SessionStates == {"none", "WAITING", "HOLDING", "SELLING", "ended", "review"}

\* The sessions, and the calls of requestAndWait that are open or were refused.
WaitInv ==
  /\ status \in [Pairs -> SessionStates]
  /\ waiting \subseteq Pairs /\ rejected \subseteq Pairs \ waiting /\ awaiting \subseteq Pairs

LEMMA UnregisteredKeeps ==
  ASSUME WaitInv, NEW ps, Unregistered(ps)
  PROVE  /\ waiting' \subseteq Pairs /\ rejected' \subseteq Pairs \ waiting'
         /\ waiting' \subseteq waiting
BY DEF WaitInv, Unregistered

LEMMA SwapsKeeps ==
  ASSUME WaitInv, NEW targets, Swaps(targets)
  PROVE  status' \in [Pairs -> SessionStates]
BY DEF WaitInv, Swaps, SessionStates

LEMMA PairsReadKeeps ==
  ASSUME WaitInv, NEW scope, PairsRead(scope)
  PROVE  status' \in [Pairs -> SessionStates]
BY DEF WaitInv, PairsRead, SessionStates

LEMMA WorldWaits ==
  ASSUME WaitInv, PlacesInv,
         World \/ Tick \/ \E p \in Pairs : Retire(p) \/ Leave(p) \/ SellEnds(p)
  PROVE  WaitInv'
<1>1. ASSUME NEW p \in Pairs, Refuse(p) \/ SellBegins(p) \/ SwapSeen(p) \/ Retire(p) \/ Leave(p)
      PROVE WaitInv'
  BY <1>1 DEF Refuse, SellBegins, SwapSeen, Retire, Leave, WaitInv, SessionStates, sessions,
              monitors, replay
<1>2. CASE PairSeen \/ Tick
  BY <1>2 DEF PairSeen, Tick, WaitInv, sessions, monitors, replay
<1>3. ASSUME NEW p \in Pairs, IgnoreEnds(p) PROVE WaitInv'
  <2>1. Unregistered({p})
    BY <1>3 DEF IgnoreEnds, Stopped
  <2>2. status' \in [Pairs -> SessionStates]
    BY <1>3 DEF IgnoreEnds, WaitInv, SessionStates
  <2> QED
    BY <2>1, <2>2, <1>3, UnregisteredKeeps DEF WaitInv, IgnoreEnds, replay
<1>4. ASSUME NEW p \in Pairs, SellEnds(p) PROVE WaitInv'
  <2>1. Unregistered({p}) \/ UNCHANGED monitors
    BY <1>4 DEF SellEnds, Stopped
  <2>2. status' \in [Pairs -> SessionStates]
    BY <1>4 DEF SellEnds, WaitInv, SessionStates
  <2> QED
    BY <2>1, <2>2, <1>4, UnregisteredKeeps DEF WaitInv, SellEnds, monitors, replay
<1> QED
  BY <1>1, <1>2, <1>3, <1>4 DEF World

LEMMA SchedulingWaits ==
  ASSUME WaitInv, Scheduling
  PROVE  WaitInv'
<1>1. CASE SchedLoad \/ SchedEnd
  BY <1>1 DEF SchedLoad, SchedEnd, SchedUnchanged, WaitInv, SessionStates, sessions,
              monitors, replay
<1>2. ASSUME NEW p \in Pairs, SchedStop(p) PROVE WaitInv'
  <2>1. Unregistered({p}) /\ UNCHANGED sessions
    BY <1>2 DEF SchedStop
  <2> QED
    BY <2>1, <1>2, UnregisteredKeeps DEF WaitInv, SchedStop, SchedUnchanged, sessions, replay
<1>3. ASSUME NEW p \in Pairs, SchedRelease(p) \/ SchedNext(p) \/ SchedThrows(p) \/ SchedStarted(p)
      PROVE WaitInv'
  BY <1>3 DEF SchedRelease, SchedNext, SchedThrows, SchedStarted, SchedUnchanged, WaitInv, sessions,
              monitors, replay
<1>4. ASSUME NEW p \in Pairs, SchedStart(p) PROVE WaitInv'
  <2>1. status' \in [Pairs -> SessionStates]
    BY <1>4 DEF SchedStart, WaitInv, SessionStates
  <2>2. \/ UNCHANGED <<waiting, rejected>>
        \/ waiting' = waiting \cup {p} /\ rejected' = rejected \ {p}
    BY <1>4 DEF SchedStart, monitors
  <2> QED
    BY <1>4, <2>1, <2>2 DEF WaitInv, SchedStart, replay
<1> QED
  BY <1>1, <1>2, <1>3, <1>4 DEF Scheduling

LEMMA OrchestratingWaits ==
  ASSUME WaitInv, Orchestrating
  PROVE  WaitInv'
<1>1. CASE OrchBegin
  BY <1>1 DEF OrchBegin, OrchUnchanged, WaitInv, sessions, replay
<1>2. CASE OrchEnd
  BY <1>2 DEF OrchEnd, OrchUnchanged, Answered, WaitInv, sessions, replay
<1>3. CASE OrchInline
  BY <1>3, SwapsKeeps DEF OrchInline, WaitInv
<1> QED
  BY <1>1, <1>2, <1>3 DEF Orchestrating

LEMMA ServingWaits ==
  ASSUME WaitInv, Serving
  PROVE  WaitInv'
<1>1. CASE ServePairs
  BY <1>1, PairsReadKeeps DEF ServePairs, WaitInv, monitors
<1>2. CASE ServeSwaps
  BY <1>2, SwapsKeeps DEF ServeSwaps, WaitInv
<1>3. CASE Reorg
  <2>1. status' \in [Pairs -> SessionStates]
    BY <1>3 DEF Reorg, WaitInv, SessionStates
  <2>2. \E ps : Unregistered(ps)
    BY <1>3 DEF Reorg, Synchronized
  <2> QED
    BY <1>3, <2>1, <2>2, UnregisteredKeeps DEF WaitInv, Reorg
<1>4. CASE Retry \/ Passed
  BY <1>4 DEF Retry, Passed, WaitInv, sessions, monitors, replay
<1> QED
  BY <1>1, <1>2, <1>3, <1>4 DEF Serving

LEMMA ReplayingWaits ==
  ASSUME WaitInv, Replaying
  PROVE  WaitInv'
<1>1. CASE FinGate \/ FinDrain \/ FinPairs \/ FinAdmit \/ FinActivate \/ FinFailed
  BY <1>1 DEF FinGate, FinDrain, FinPairs, FinAdmit, FinActivate, FinFailed, WaitInv, sessions,
              monitors, replay
<1>2. CASE FinRead
  BY <1>2, PairsReadKeeps DEF FinRead, WaitInv, monitors
<1>3. CASE FinSwaps
  BY <1>3, SwapsKeeps DEF FinSwaps, WaitInv
<1>4. CASE FinComplete
  <2>1. \E asks \in SUBSET Pairs : waiting' = waiting \cup asks /\ rejected' = rejected \ asks
    BY <1>4 DEF FinComplete, WaitInv
  <2> QED
    BY <1>4, <2>1 DEF FinComplete, WaitInv, sessions
<1> QED
  BY <1>1, <1>2, <1>3, <1>4 DEF Replaying

LEMMA RecoveringWaits ==
  ASSUME WaitInv, Recovering
  PROVE  WaitInv'
<1>1. CASE RecoveryStart \/ RecoveryActivate
  BY <1>1 DEF RecoveryStart, RecoveryActivate, WaitInv, sessions, monitors, replay
<1>2. CASE RecoveryEnd
  <2>1. status' \in [Pairs -> SessionStates]
    BY <1>2 DEF RecoveryEnd, WaitInv, SessionStates
  <2>2. \E ps : Unregistered(ps)
    BY <1>2 DEF RecoveryEnd, Synchronized
  <2> QED
    BY <1>2, <2>1, <2>2, UnregisteredKeeps DEF WaitInv, RecoveryEnd
<1> QED
  BY <1>1, <1>2 DEF Recovering

------------------------------------------------------------------------------
(* The requests: who has one in the queue of the coordinator.               *)

PassRecord == [pc : {"idle", "begin", "queued", "inline", "end"}, asked : SUBSET Pairs,
               targets : SUBSET Pairs, failed : BOOLEAN, scope : Scopes, retries : BOOLEAN]
RequestRecord == [pairs : SUBSET Pairs, all : BOOLEAN, again : BOOLEAN]
ListenerRecord == [busy : BOOLEAN, again : BOOLEAN, scope : Scopes, retries : BOOLEAN]
FinPcs == {"none", "open", "drain", "pairs", "reading", "idle1", "admit", "admitting", "idle2",
           "swaps", "idle3", "complete", "activate", "failed"}
FinRecord == [state : {"HEALTHY", "RECONCILING"}, pc : FinPcs, retry : BOOLEAN]
CaughtRecord == [swaps : SUBSET Pairs, pairs : BOOLEAN, late : SUBSET Pairs]

Alone == \A i, j \in DOMAIN queue : queue[i] = queue[j] => i = j

RequestsInv ==
  /\ orch \in PassRecord /\ listener \in ListenerRecord
  /\ queue \in Seq({"swaps", "pairs"}) /\ Alone
  /\ Queued("swaps") <=> orch.pc = "queued"
  /\ Queued("pairs") <=> listener.busy /\ listener.scope = "outside"

\* The request that tried a finalization again is still in the queue when that has failed.
NotesInv ==
  /\ requests \in RequestRecord /\ fin \in FinRecord /\ caught \in CaughtRecord
  /\ fin.retry => fin.pc # "none" /\ queue # <<>>

CallsInv == RequestsInv /\ NotesInv

\* A request is put at the end of the queue, or taken from its head.
LEMMA Appended ==
  ASSUME NEW q \in Seq({"swaps", "pairs"}), NEW r \in {"swaps", "pairs"},
         \A i, j \in DOMAIN q : q[i] = q[j] => i = j,
         \A i \in DOMAIN q : q[i] # r
  PROVE  LET a == Append(q, r) IN
         /\ a \in Seq({"swaps", "pairs"}) /\ a # <<>>
         /\ \A i, j \in DOMAIN a : a[i] = a[j] => i = j
         /\ \A s : (\E i \in DOMAIN a : a[i] = s) <=> s = r \/ \E i \in DOMAIN q : q[i] = s
<1> DEFINE a == Append(q, r)
<1>1. /\ a \in Seq({"swaps", "pairs"}) /\ Len(a) = Len(q) + 1 /\ DOMAIN a = 1..Len(a)
      /\ DOMAIN q = 1..Len(q) /\ Len(q) \in Nat
      /\ \A i \in 1..Len(q) : a[i] = q[i]
      /\ a[Len(q) + 1] = r
  OBVIOUS
<1> HIDE DEF a
<1>2. \A i, j \in DOMAIN a : a[i] = a[j] => i = j
  <2> SUFFICES ASSUME NEW i \in DOMAIN a, NEW j \in DOMAIN a, a[i] = a[j] PROVE i = j
    OBVIOUS
  <2>1. CASE i \in 1..Len(q) /\ j \in 1..Len(q)
    BY <1>1, <2>1
  <2>2. CASE i = Len(q) + 1 \/ j = Len(q) + 1
    BY <1>1, <2>2
  <2> QED
    BY <1>1, <2>1, <2>2
<1>3. ASSUME NEW s PROVE (\E i \in DOMAIN a : a[i] = s) <=> s = r \/ \E i \in DOMAIN q : q[i] = s
  BY <1>1
<1>4. a # <<>>
  BY <1>1
<1> QED
  BY <1>1, <1>2, <1>3, <1>4 DEF a

LEMMA Served ==
  ASSUME NEW q \in Seq({"swaps", "pairs"}), q # <<>>,
         \A i, j \in DOMAIN q : q[i] = q[j] => i = j
  PROVE  /\ Tail(q) \in Seq({"swaps", "pairs"})
         /\ \A i, j \in DOMAIN Tail(q) : Tail(q)[i] = Tail(q)[j] => i = j
         /\ Head(q) \in {"swaps", "pairs"} /\ \E i \in DOMAIN q : q[i] = Head(q)
         /\ \A s : (\E i \in DOMAIN Tail(q) : Tail(q)[i] = s) <=>
                     s # Head(q) /\ \E i \in DOMAIN q : q[i] = s
<1> DEFINE t == Tail(q)
<1>1. /\ t \in Seq({"swaps", "pairs"}) /\ Len(t) = Len(q) - 1 /\ DOMAIN t = 1..Len(t)
      /\ DOMAIN q = 1..Len(q) /\ Len(q) \in Nat \ {0}
      /\ \A i \in 1..Len(t) : t[i] = q[i + 1]
      /\ Head(q) = q[1] /\ q[1] \in {"swaps", "pairs"}
  OBVIOUS
<1> HIDE DEF t
<1>2. \A i, j \in DOMAIN t : t[i] = t[j] => i = j
  <2> SUFFICES ASSUME NEW i \in DOMAIN t, NEW j \in DOMAIN t, t[i] = t[j] PROVE i = j
    OBVIOUS
  <2>1. i + 1 \in DOMAIN q /\ j + 1 \in DOMAIN q /\ q[i + 1] = q[j + 1]
    BY <1>1
  <2> QED
    BY <1>1, <2>1
<1>3. ASSUME NEW s PROVE (\E i \in DOMAIN t : t[i] = s) <=> s # Head(q) /\ \E i \in DOMAIN q : q[i] = s
  <2>1. ASSUME NEW i \in DOMAIN t, t[i] = s PROVE s # Head(q) /\ \E k \in DOMAIN q : q[k] = s
    <3>1. i + 1 \in DOMAIN q /\ q[i + 1] = s /\ 1 \in DOMAIN q /\ i + 1 # 1
      BY <1>1, <2>1
    <3> QED
      BY <1>1, <3>1
  <2>2. ASSUME s # Head(q), NEW k \in DOMAIN q, q[k] = s PROVE \E i \in DOMAIN t : t[i] = s
    <3>1. k - 1 \in DOMAIN t /\ t[k - 1] = s
      BY <1>1, <2>2
    <3> QED
      BY <3>1
  <2> QED
    BY <2>1, <2>2
<1>4. 1 \in DOMAIN q
  BY <1>1
<1> QED
  BY <1>1, <1>2, <1>3, <1>4 DEF t

LEMMA Pushed ==
  ASSUME RequestsInv, NEW r \in {"swaps", "pairs"}, ~Queued(r), queue' = Append(queue, r)
  PROVE  /\ queue' \in Seq({"swaps", "pairs"}) /\ Alone' /\ queue' # <<>>
         /\ \A s : Queued(s)' <=> s = r \/ Queued(s)
<1>1. PICK q : q = queue
  OBVIOUS
<1>2. q \in Seq({"swaps", "pairs"}) /\ queue' = Append(q, r)
  BY <1>1 DEF RequestsInv
<1>3. (\A i, j \in DOMAIN q : q[i] = q[j] => i = j) /\ \A i \in DOMAIN q : q[i] # r
  BY <1>1 DEF RequestsInv, Alone, Queued
<1>4. PICK a : a = Append(q, r)
  OBVIOUS
<1>5. /\ a \in Seq({"swaps", "pairs"}) /\ a # <<>>
      /\ \A i, j \in DOMAIN a : a[i] = a[j] => i = j
      /\ \A s : (\E i \in DOMAIN a : a[i] = s) <=> s = r \/ \E i \in DOMAIN q : q[i] = s
  BY <1>2, <1>3, <1>4, Appended
<1>6. queue' = a
  BY <1>2, <1>4
<1>7. \A s : Queued(s)' <=> s = r \/ Queued(s)
  BY <1>1, <1>5, <1>6 DEF Queued
<1> QED
  BY <1>5, <1>6, <1>7 DEF Alone

LEMMA Popped ==
  ASSUME RequestsInv, queue # <<>>, queue' = Tail(queue)
  PROVE  /\ queue' \in Seq({"swaps", "pairs"}) /\ Alone'
         /\ Head(queue) \in {"swaps", "pairs"} /\ Queued(Head(queue))
         /\ \A s : Queued(s)' <=> s # Head(queue) /\ Queued(s)
<1>1. PICK q : q = queue
  OBVIOUS
<1>2. q \in Seq({"swaps", "pairs"}) /\ q # <<>> /\ \A i, j \in DOMAIN q : q[i] = q[j] => i = j
  BY <1>1 DEF RequestsInv, Alone
<1>3. PICK t, h : t = Tail(q) /\ h = Head(q)
  OBVIOUS
<1>4. /\ t \in Seq({"swaps", "pairs"}) /\ h \in {"swaps", "pairs"}
      /\ \A i, j \in DOMAIN t : t[i] = t[j] => i = j
      /\ \E i \in DOMAIN q : q[i] = h
      /\ \A s : (\E i \in DOMAIN t : t[i] = s) <=> s # h /\ \E i \in DOMAIN q : q[i] = s
  BY <1>2, <1>3, Served
<1>5. queue' = t /\ Head(queue) = h
  BY <1>1, <1>3
<1>6. ASSUME NEW s PROVE Queued(s)' <=> s # h /\ Queued(s)
  <2>1. (\E i \in DOMAIN t : t[i] = s) <=> s # h /\ \E i \in DOMAIN q : q[i] = s
    BY <1>4
  <2> QED
    BY <1>1, <1>5, <2>1 DEF Queued
<1>7. Queued(h)
  BY <1>1, <1>4 DEF Queued
<1> QED
  BY <1>4, <1>5, <1>6, <1>7 DEF Alone

LEMMA HeadIsQueued ==
  ASSUME RequestsInv, queue # <<>>
  PROVE  Head(queue) \in {"swaps", "pairs"} /\ Queued(Head(queue))
<1>1. PICK q : q = queue
  OBVIOUS
<1>2. q \in Seq({"swaps", "pairs"}) /\ q # <<>> /\ \A i, j \in DOMAIN q : q[i] = q[j] => i = j
  BY <1>1 DEF RequestsInv, Alone
<1>3. PICK h : h = Head(q)
  OBVIOUS
<1>4. h \in {"swaps", "pairs"} /\ \E i \in DOMAIN q : q[i] = h
  BY <1>2, <1>3, Served
<1>5. Head(queue) = h
  BY <1>1, <1>3
<1> QED
  BY <1>1, <1>4, <1>5 DEF Queued

\* A request that is served and asked again goes to the end of the queue.
LEMMA Turned ==
  ASSUME RequestsInv, queue # <<>>, queue' = Append(Tail(queue), Head(queue))
  PROVE  queue' \in Seq({"swaps", "pairs"}) /\ Alone' /\ \A s : Queued(s)' <=> Queued(s)
<1>1. PICK q : q = queue
  OBVIOUS
<1>2. q \in Seq({"swaps", "pairs"}) /\ q # <<>> /\ \A i, j \in DOMAIN q : q[i] = q[j] => i = j
  BY <1>1 DEF RequestsInv, Alone
<1>3. PICK t, h : t = Tail(q) /\ h = Head(q)
  OBVIOUS
<1>4. /\ t \in Seq({"swaps", "pairs"}) /\ h \in {"swaps", "pairs"}
      /\ \A i, j \in DOMAIN t : t[i] = t[j] => i = j
      /\ \E i \in DOMAIN q : q[i] = h
      /\ \A s : (\E i \in DOMAIN t : t[i] = s) <=> s # h /\ \E i \in DOMAIN q : q[i] = s
  BY <1>2, <1>3, Served
<1>5. PICK a : a = Append(t, h)
  OBVIOUS
<1>6. /\ a \in Seq({"swaps", "pairs"})
      /\ \A i, j \in DOMAIN a : a[i] = a[j] => i = j
      /\ \A s : (\E i \in DOMAIN a : a[i] = s) <=> s = h \/ \E i \in DOMAIN t : t[i] = s
  <2>1. \A i \in DOMAIN t : t[i] # h
    BY <1>4
  <2> QED
    BY <1>4, <1>5, <2>1, Appended
<1>7. queue' = a
  BY <1>1, <1>3, <1>5
<1>8. ASSUME NEW s PROVE Queued(s)' <=> Queued(s)
  <2>1. (\E i \in DOMAIN a : a[i] = s) <=> \E i \in DOMAIN q : q[i] = s
    BY <1>4, <1>6
  <2> QED
    BY <1>1, <1>7, <2>1 DEF Queued
<1> QED
  BY <1>6, <1>7, <1>8 DEF Alone

\* The pass of the listener ends or goes on, at the head of the queue or in the replay.
LEMMA ListenerKeeps ==
  ASSUME RequestsInv, NEW retries \in BOOLEAN, ListenerNext(retries), UNCHANGED orch,
         \/ listener.busy /\ listener.scope = "replay"
         \/ queue # <<>> /\ Head(queue) = "pairs"
  PROVE  RequestsInv'
<1>1. listener' \in ListenerRecord
  <2>1. \/ listener' = [listener EXCEPT !.again = FALSE, !.retries = retries]
        \/ listener' = [busy |-> FALSE, again |-> FALSE, scope |-> "outside", retries |-> FALSE]
    BY DEF ListenerNext
  <2>2. listener \in ListenerRecord
    BY DEF RequestsInv
  <2>3. CASE listener' = [busy |-> FALSE, again |-> FALSE, scope |-> "outside", retries |-> FALSE]
    BY <2>3 DEF ListenerRecord, Scopes
  <2>4. CASE listener' = [listener EXCEPT !.again = FALSE, !.retries = retries]
    BY <2>2, <2>4 DEF ListenerRecord
  <2> QED
    BY <2>1, <2>3, <2>4
<1>2. CASE listener.busy /\ listener.scope = "replay"
  <2>1. queue' = queue /\ ~(listener'.busy /\ listener'.scope = "outside")
    <3>1. CASE listener.again
      <4>1. /\ queue' = queue
            /\ listener' = [listener EXCEPT !.again = FALSE, !.retries = retries]
        BY <1>2, <3>1 DEF ListenerNext
      <4>2. listener'.scope = listener.scope
        BY <4>1 DEF RequestsInv, ListenerRecord
      <4> QED
        BY <1>2, <4>1, <4>2
    <3>2. CASE ~listener.again
      BY <1>2, <3>2 DEF ListenerNext
    <3> QED
      BY <3>1, <3>2
  <2>2. ~Queued("pairs")
    BY <1>2 DEF RequestsInv
  <2> QED
    BY <1>1, <2>1, <2>2 DEF RequestsInv, Alone, Queued
<1>3. CASE queue # <<>> /\ Head(queue) = "pairs"
  <2>1. Queued("pairs")
    BY <1>3, HeadIsQueued
  <2>2. listener.busy /\ listener.scope = "outside" /\ listener \in ListenerRecord
    BY <2>1 DEF RequestsInv
  <2>3. CASE listener.again
    <3>1. /\ queue' = Append(Tail(queue), Head(queue))
          /\ listener' = [listener EXCEPT !.again = FALSE, !.retries = retries]
      BY <1>3, <2>2, <2>3 DEF ListenerNext
    <3>2. listener'.busy /\ listener'.scope = "outside"
      BY <2>2, <3>1 DEF ListenerRecord
    <3>3. queue' \in Seq({"swaps", "pairs"}) /\ Alone' /\ \A s : Queued(s)' <=> Queued(s)
      BY <1>3, <3>1, Turned
    <3> QED
      BY <1>1, <2>1, <3>2, <3>3 DEF RequestsInv
  <2>4. CASE ~listener.again
    <3>1. queue' = Tail(queue) /\ ~listener'.busy
      BY <2>2, <2>4 DEF ListenerNext
    <3>2. /\ queue' \in Seq({"swaps", "pairs"}) /\ Alone'
          /\ \A s : Queued(s)' <=> s # "pairs" /\ Queued(s)
      BY <1>3, <3>1, Popped
    <3> QED
      BY <1>1, <3>1, <3>2 DEF RequestsInv
  <2> QED
    BY <2>3, <2>4
<1> QED
  BY <1>2, <1>3

\* A pass whose request is served, whatever comes of it.
LEMMA PassServed ==
  ASSUME RequestsInv, queue # <<>>, Head(queue) = "swaps", queue' = Tail(queue), UNCHANGED listener,
         orch' \in PassRecord, orch'.pc = "end"
  PROVE  RequestsInv'
BY Popped DEF RequestsInv

LEMMA DismissedKeeps ==
  ASSUME RequestsInv, queue # <<>>, NEW failed \in BOOLEAN, Dismissed(failed)
  PROVE  RequestsInv'
<1>1. CASE Head(queue) = "pairs"
  BY <1>1, ListenerKeeps DEF Dismissed
<1>2. CASE Head(queue) # "pairs"
  <2>1. Head(queue) = "swaps"
    BY <1>2, HeadIsQueued
  <2>2. /\ queue' = Tail(queue) /\ UNCHANGED listener
        /\ orch' = [orch EXCEPT !.pc = "end", !.failed = failed]
    BY <1>2 DEF Dismissed
  <2>3. orch' \in PassRecord /\ orch'.pc = "end"
    BY <2>2 DEF RequestsInv, PassRecord
  <2> QED
    BY <2>1, <2>2, <2>3, PassServed
<1> QED
  BY <1>1, <1>2

\* What leaves the queue, its owners and their places alone.
LEMMA RequestsStill ==
  ASSUME RequestsInv, UNCHANGED <<orch, listener, queue>>
  PROVE  RequestsInv'
BY DEF RequestsInv, Alone, Queued

LEMMA SignalKeeps ==
  ASSUME CallsInv, NEW ps \in SUBSET Pairs, NEW all \in BOOLEAN, NEW scope \in Scopes,
         Signal(ps, all, scope), UNCHANGED <<listener, queue>>
  PROVE  RequestsInv' /\ requests' \in RequestRecord
<1>1. requests' \in RequestRecord
  BY DEF CallsInv, NotesInv, Signal, RequestRecord
<1>2. CASE orch' = orch
  BY <1>1, <1>2, RequestsStill DEF CallsInv
<1>3. CASE orch.pc = "idle" /\ orch' = [NoPass EXCEPT !.pc = "begin", !.scope = scope]
  <2>1. orch' \in PassRecord /\ orch'.pc = "begin"
    BY <1>3 DEF NoPass, PassRecord
  <2> QED
    BY <1>1, <1>3, <2>1 DEF CallsInv, RequestsInv, Alone, Queued
<1> QED
  BY <1>2, <1>3 DEF Signal

LEMMA CallsStill ==
  ASSUME CallsInv, UNCHANGED <<calls, listener, queue, fin, caught>>
  PROVE  CallsInv'
BY RequestsStill DEF CallsInv, NotesInv, calls

\* A step of the finalization that does not end it.
LEMMA FinMoves ==
  ASSUME CallsInv, NEW pc \in FinPcs \ {"none"}, fin' = [fin EXCEPT !.pc = pc],
         UNCHANGED <<queue, caught>>, RequestsInv', requests' \in RequestRecord
  PROVE  CallsInv'
<1>1. fin' \in FinRecord /\ fin'.pc # "none" /\ fin'.retry = fin.retry
  BY DEF CallsInv, NotesInv, FinRecord
<1> QED
  BY <1>1 DEF CallsInv, NotesInv

LEMMA SignalCalls ==
  ASSUME CallsInv, NEW ps \in SUBSET Pairs, NEW all \in BOOLEAN, NEW scope \in Scopes,
         Signal(ps, all, scope), UNCHANGED <<listener, queue, fin, caught>>
  PROVE  CallsInv'
<1>1. RequestsInv' /\ requests' \in RequestRecord
  BY SignalKeeps
<1> QED
  BY <1>1 DEF CallsInv, NotesInv

LEMMA WorldCalls ==
  ASSUME CallsInv, World \/ Tick \/ \E p \in Pairs : Retire(p) \/ Leave(p) \/ SellEnds(p)
  PROVE  CallsInv'
<1>1. ASSUME NEW p \in Pairs,
             Refuse(p) \/ SellBegins(p) \/ Retire(p) \/ Leave(p) \/ SellEnds(p) \/ IgnoreEnds(p)
      PROVE CallsInv'
  BY <1>1, CallsStill DEF Refuse, SellBegins, Retire, Leave, SellEnds, IgnoreEnds, replay
<1>2. ASSUME NEW p \in Pairs, SwapSeen(p) PROVE CallsInv'
  <2>1. Signal({p}, FALSE, "outside") /\ UNCHANGED <<listener, queue, fin, caught>>
    BY <1>2 DEF SwapSeen, replay
  <2> QED
    BY <2>1, SignalCalls DEF Scopes
<1>3. CASE Tick
  <2>1. Signal({}, TRUE, "outside") /\ UNCHANGED <<listener, queue, fin, caught>>
    BY <1>3 DEF Tick, replay
  <2> QED
    BY <2>1, SignalCalls DEF Scopes
<1>4. CASE PairSeen
  <2>1. UNCHANGED <<orch, requests, fin, caught>>
    BY <1>4 DEF PairSeen, calls, replay
  <2>2. CASE listener.busy
    <3>1. listener' = [listener EXCEPT !.again = TRUE] /\ UNCHANGED queue
      BY <1>4, <2>2 DEF PairSeen
    <3>2. /\ listener' \in ListenerRecord /\ listener'.busy = listener.busy
          /\ listener'.scope = listener.scope
      BY <3>1 DEF CallsInv, RequestsInv, ListenerRecord
    <3> QED
      BY <2>1, <3>1, <3>2 DEF CallsInv, NotesInv, RequestsInv, Alone, Queued
  <2>3. CASE ~listener.busy
    <3>1. /\ listener' = [busy |-> TRUE, again |-> FALSE, scope |-> "outside", retries |-> ~Healthy]
          /\ queue' = Append(queue, "pairs")
      BY <1>4, <2>3 DEF PairSeen
    <3>2. listener' \in ListenerRecord /\ listener'.busy /\ listener'.scope = "outside"
      BY <3>1 DEF ListenerRecord, Scopes, Healthy
    <3>3. ~Queued("pairs")
      BY <2>3 DEF CallsInv, RequestsInv
    <3>4. /\ queue' \in Seq({"swaps", "pairs"}) /\ Alone' /\ queue' # <<>>
          /\ \A s : Queued(s)' <=> s = "pairs" \/ Queued(s)
      BY <3>1, <3>3, Pushed DEF CallsInv
    <3> QED
      BY <2>1, <3>2, <3>4 DEF CallsInv, NotesInv, RequestsInv
  <2> QED
    BY <2>2, <2>3
<1> QED
  BY <1>1, <1>2, <1>3, <1>4 DEF World

\* A finalization that waits for a turn goes on after it.
LEMMA AfterTurnIs ==
  ASSUME NEW failed
  PROVE  \/ AfterTurn(failed) = fin
         \/ /\ fin.pc \in {"admitting", "idle1", "idle2", "idle3"}
            /\ \E pc \in {"failed", "idle2", "admit", "swaps", "complete"} :
                 AfterTurn(failed) = [fin EXCEPT !.pc = pc]
BY DEF AfterTurn

LEMMA SchedulingCalls ==
  ASSUME CallsInv, sched \in TurnRecord, Scheduling
  PROVE  CallsInv'
<1>1. CASE SchedLoad
  BY <1>1, CallsStill DEF SchedLoad, SchedUnchanged, replay
<1>2. ASSUME NEW p \in Pairs, SchedStop(p) \/ SchedRelease(p) \/ SchedNext(p) \/ SchedStarted(p)
      PROVE CallsInv'
  BY <1>2, CallsStill DEF SchedStop, SchedRelease, SchedNext, SchedStarted, SchedUnchanged, replay
<1>3. CASE SchedEnd \/ \E p \in Pairs : SchedThrows(p)
  <2>1. UNCHANGED <<calls, listener, queue, caught>>
    BY <1>3 DEF SchedEnd, SchedThrows
  <2>2. \/ UNCHANGED fin
        \/ \E pc \in {"failed", "idle2", "admit", "swaps", "complete"} : fin' = [fin EXCEPT !.pc = pc]
    BY <1>3, AfterTurnIs DEF SchedEnd, SchedThrows
  <2>3. RequestsInv' /\ requests' \in RequestRecord
    BY <2>1, RequestsStill DEF CallsInv, NotesInv, calls
  <2>4. ASSUME NEW pc \in {"failed", "idle2", "admit", "swaps", "complete"},
               fin' = [fin EXCEPT !.pc = pc]
        PROVE CallsInv'
    <3>1. pc \in FinPcs \ {"none"}
      BY DEF FinPcs
    <3> QED
      BY <2>1, <2>3, <2>4, <3>1, FinMoves
  <2> QED
    BY <2>1, <2>2, <2>4, CallsStill
<1>4. ASSUME NEW p \in Pairs, SchedStart(p) PROVE CallsInv'
  <2>1. UNCHANGED calls \/ Signal({p}, FALSE, sched.scope)
    BY <1>4 DEF SchedStart
  <2>2. UNCHANGED <<listener, queue, fin, caught>>
    BY <1>4 DEF SchedStart, replay
  <2>3. sched.scope \in Scopes
    BY DEF TurnRecord
  <2> QED
    BY <2>1, <2>2, <2>3, CallsStill, SignalCalls
<1> QED
  BY <1>1, <1>2, <1>3, <1>4 DEF Scheduling

LEMMA SwapsCaught ==
  ASSUME caught \in CaughtRecord, NEW targets, Swaps(targets)
  PROVE  caught' \in CaughtRecord /\ caught'.swaps = caught.swaps \cup (targets \cap Capable)
         /\ caught'.pairs = caught.pairs /\ caught'.late = caught.late
<1>1. targets \cap Capable \subseteq Pairs
  BY DEF Capable
<1>2. caught' = [caught EXCEPT !.swaps = @ \cup (targets \cap Capable)]
  BY DEF Swaps
<1>3. PICK able : able = targets \cap Capable
  OBVIOUS
<1>4. caught' = [caught EXCEPT !.swaps = @ \cup able] /\ able \subseteq Pairs
  BY <1>1, <1>2, <1>3
<1>5. /\ caught' \in CaughtRecord /\ caught'.swaps = caught.swaps \cup able
      /\ caught'.pairs = caught.pairs /\ caught'.late = caught.late
  BY <1>4 DEF CaughtRecord
<1> QED
  BY <1>3, <1>5

LEMMA PairsCaught ==
  ASSUME caught \in CaughtRecord, NEW scope, PairsRead(scope)
  PROVE  /\ caught' \in CaughtRecord /\ caught'.swaps = caught.swaps /\ caught'.pairs
         /\ caught'.late = caught.late
<1>1. caught' = [caught EXCEPT !.pairs = TRUE]
  BY DEF PairsRead
<1> QED
  BY <1>1 DEF CaughtRecord

LEMMA LateCaught ==
  ASSUME caught \in CaughtRecord, OrchEnd
  PROVE  /\ caught' \in CaughtRecord /\ caught'.late = caught.late \cup Late
         /\ caught'.swaps = caught.swaps /\ caught'.pairs = caught.pairs
<1>1. PICK late : late = Late
  OBVIOUS
<1>2. caught' = [caught EXCEPT !.late = @ \cup late] /\ late \subseteq Pairs
  BY <1>1 DEF OrchEnd, Late, Capable
<1> QED
  BY <1>1, <1>2 DEF CaughtRecord

LEMMA OrchestratingCalls ==
  ASSUME CallsInv, Orchestrating
  PROVE  CallsInv'
<1> USE DEF CallsInv, NotesInv
<1>1. CASE OrchBegin
  <2> DEFINE targets == IF requests.all THEN Registered ELSE requests.pairs \cap Registered
             inline == orch.scope = "replay" /\ Finalizing
             pc == IF targets \cap Capable = {} THEN "end" ELSE IF inline THEN "inline" ELSE "queued"
  <2>1. /\ orch' = [orch EXCEPT !.pc = pc, !.asked = requests.pairs, !.targets = targets,
                                !.failed = FALSE, !.retries = pc = "queued" /\ ~Healthy]
        /\ queue' = IF pc = "queued" THEN Append(queue, "swaps") ELSE queue
        /\ requests' = NoRequests /\ orch.pc = "begin" /\ UNCHANGED <<listener, fin, caught>>
    BY <1>1 DEF OrchBegin, OrchUnchanged
  <2>2. targets \subseteq Pairs /\ requests.pairs \subseteq Pairs
    BY DEF Registered, RequestRecord
  <2>3. pc \in {"queued", "inline", "end"}
    OBVIOUS
  <2> HIDE DEF targets, inline, pc
  <2>4. orch' \in PassRecord /\ orch'.pc = pc
    <3>1. PICK r \in BOOLEAN : r = (pc = "queued" /\ ~Healthy)
      OBVIOUS
    <3> QED
      BY <2>1, <2>2, <2>3, <3>1 DEF RequestsInv, PassRecord
  <2>5. requests' \in RequestRecord
    BY <2>1 DEF NoRequests, RequestRecord
  <2>6. ~Queued("swaps")
    BY <2>1 DEF RequestsInv
  <2>7. CASE pc = "queued"
    <3>1. queue' = Append(queue, "swaps")
      BY <2>1, <2>7
    <3>2. /\ queue' \in Seq({"swaps", "pairs"}) /\ Alone' /\ queue' # <<>>
          /\ \A s : Queued(s)' <=> s = "swaps" \/ Queued(s)
      BY <2>6, <3>1, Pushed
    <3> QED
      BY <2>1, <2>4, <2>5, <2>7, <3>2 DEF RequestsInv
  <2>8. CASE pc # "queued"
    <3>1. queue' = queue
      BY <2>1, <2>8
    <3> QED
      BY <2>1, <2>4, <2>5, <2>6, <2>8, <3>1 DEF RequestsInv, Alone, Queued
  <2> QED
    BY <2>7, <2>8
<1>2. CASE OrchEnd
  <2>1. /\ orch' = NoPass \/ orch' = [NoPass EXCEPT !.pc = "begin", !.scope = orch.scope]
        /\ orch.pc = "end" /\ UNCHANGED <<requests, listener, queue, fin>>
    BY <1>2 DEF OrchEnd, OrchUnchanged
  <2>2. orch' \in PassRecord /\ orch'.pc # "queued"
    <3>1. orch.scope \in Scopes
      BY DEF RequestsInv, PassRecord
    <3>2. CASE orch' = NoPass
      BY <3>2 DEF PassRecord, NoPass, Scopes
    <3>3. CASE orch' = [NoPass EXCEPT !.pc = "begin", !.scope = orch.scope]
      BY <3>1, <3>3 DEF PassRecord, NoPass
    <3> QED
      BY <2>1, <3>2, <3>3
  <2>3. caught' \in CaughtRecord
    BY <1>2, LateCaught
  <2> QED
    BY <2>1, <2>2, <2>3 DEF RequestsInv, Alone, Queued
<1>3. CASE OrchInline
  <2>1. /\ orch' = [orch EXCEPT !.pc = "end"] /\ orch.pc = "inline"
        /\ UNCHANGED <<requests, listener, queue, fin>> /\ Swaps(orch.targets)
    BY <1>3 DEF OrchInline
  <2>2. orch' \in PassRecord /\ orch'.pc = "end"
    BY <2>1 DEF RequestsInv, PassRecord
  <2>3. caught' \in CaughtRecord
    BY <2>1, SwapsCaught
  <2> QED
    BY <2>1, <2>2, <2>3 DEF RequestsInv, Alone, Queued
<1> QED
  BY <1>1, <1>2, <1>3 DEF Orchestrating

LEMMA ServingCalls ==
  ASSUME CallsInv, Serving
  PROVE  CallsInv'
<1> USE DEF CallsInv, NotesInv
<1>1. queue # <<>> /\ fin.pc = "none" /\ ~fin.retry
  BY DEF Serving, ServePairs, ServeSwaps, Reorg, Retry, Passed, Turn, FinRecord
<1>2. CASE ServePairs
  <2>1. /\ Head(queue) = "pairs" /\ ListenerNext(FALSE) /\ UNCHANGED <<orch, requests, fin>>
        /\ PairsRead("outside")
    BY <1>2 DEF ServePairs, calls
  <2>2. RequestsInv'
    BY <1>1, <2>1, ListenerKeeps
  <2> QED
    BY <1>1, <2>1, <2>2, PairsCaught
<1>3. CASE ServeSwaps
  <2>1. /\ Head(queue) = "swaps" /\ queue' = Tail(queue) /\ UNCHANGED <<requests, listener, fin>>
        /\ \/ Swaps(orch.targets) /\ orch' = [orch EXCEPT !.pc = "end"]
           \/ UNCHANGED caught /\ orch' = [orch EXCEPT !.pc = "end", !.failed = TRUE]
    BY <1>3 DEF ServeSwaps
  <2>2. orch' \in PassRecord /\ orch'.pc = "end"
    BY <2>1 DEF RequestsInv, PassRecord
  <2>3. caught' \in CaughtRecord
    BY <2>1, SwapsCaught
  <2>4. RequestsInv'
    BY <1>1, <2>1, <2>2, PassServed
  <2> QED
    BY <1>1, <2>1, <2>3, <2>4
<1>4. CASE Reorg
  <2>1. /\ Dismissed(FALSE) /\ UNCHANGED requests
        /\ \E pc \in {"none", "open"} : fin' = [fin EXCEPT !.state = "RECONCILING", !.pc = pc]
        /\ caught' = [swaps |-> {}, pairs |-> FALSE, late |-> {}]
    BY <1>4 DEF Reorg
  <2>2. RequestsInv'
    BY <1>1, <2>1, DismissedKeeps
  <2>3. fin' \in FinRecord /\ fin'.retry = fin.retry
    BY <2>1 DEF FinRecord, FinPcs
  <2>4. caught' \in CaughtRecord
    BY <2>1 DEF CaughtRecord
  <2> QED
    BY <1>1, <2>1, <2>2, <2>3, <2>4
<1>5. CASE Retry
  <2>1. fin' = [fin EXCEPT !.pc = "open", !.retry = TRUE] /\ UNCHANGED <<calls, listener, queue, caught>>
    BY <1>5 DEF Retry
  <2>2. fin' \in FinRecord /\ fin'.pc = "open"
    BY <2>1 DEF FinRecord, FinPcs
  <2> QED
    BY <1>1, <2>1, <2>2, RequestsStill DEF calls
<1>6. CASE Passed
  <2>1. Dismissed(FALSE) /\ UNCHANGED <<requests, fin, caught>>
    BY <1>6 DEF Passed, replay
  <2>2. RequestsInv'
    BY <1>1, <2>1, DismissedKeeps
  <2> QED
    BY <1>1, <2>1, <2>2
<1> QED
  BY <1>2, <1>3, <1>4, <1>5, <1>6 DEF Serving

LEMMA RecoveringCalls ==
  ASSUME CallsInv, Recovering
  PROVE  CallsInv'
BY CallsStill DEF Recovering, RecoveryStart, RecoveryEnd, RecoveryActivate, replay

LEMMA ReplayingCalls ==
  ASSUME CallsInv, WaitInv, Replaying
  PROVE  CallsInv'
<1> USE DEF CallsInv, NotesInv
<1>1. ASSUME NEW pc \in FinPcs \ {"none"}, fin' = [fin EXCEPT !.pc = pc],
             UNCHANGED <<calls, listener, queue, caught>>
      PROVE  CallsInv'
  BY <1>1, FinMoves, RequestsStill DEF calls
<1>2. CASE FinGate \/ FinDrain \/ FinAdmit
  <2>1. UNCHANGED <<calls, listener, queue, caught>>
        /\ \E pc \in {"drain", "pairs", "admitting"} : fin' = [fin EXCEPT !.pc = pc]
    BY <1>2 DEF FinGate, FinDrain, FinAdmit, Step
  <2> QED
    BY <1>1, <2>1 DEF FinPcs
<1>3. CASE FinPairs
  <2>1. /\ fin' = [fin EXCEPT !.pc = "reading"] /\ UNCHANGED <<calls, queue, caught>>
        /\ listener' = IF listener.busy THEN [listener EXCEPT !.again = TRUE]
                       ELSE [busy |-> TRUE, again |-> FALSE, scope |-> "replay", retries |-> FALSE]
    BY <1>3 DEF FinPairs, Step
  <2>2. listener' \in ListenerRecord
        /\ (listener'.busy /\ listener'.scope = "outside" <=> listener.busy /\ listener.scope = "outside")
    <3>1. CASE listener.busy
      BY <2>1, <3>1 DEF RequestsInv, ListenerRecord
    <3>2. CASE ~listener.busy
      BY <2>1, <3>2 DEF RequestsInv, ListenerRecord, Scopes
    <3> QED
      BY <3>1, <3>2
  <2>3. RequestsInv'
    BY <2>1, <2>2 DEF RequestsInv, Alone, Queued, calls
  <2> QED
    BY <2>1, <2>3, FinMoves DEF FinPcs, calls
<1>4. CASE FinRead
  <2>1. /\ listener.busy /\ listener.scope = "replay" /\ ListenerNext(FALSE) /\ PairsRead("replay")
        /\ UNCHANGED calls /\ (fin' = fin \/ fin' = [fin EXCEPT !.pc = "idle1"])
    BY <1>4 DEF FinRead
  <2>2. RequestsInv' /\ queue' = queue
    BY <2>1, ListenerKeeps DEF calls, ListenerNext
  <2>3. fin' \in FinRecord /\ fin'.retry = fin.retry /\ (fin'.pc = "none" => fin.pc = "none")
    <3>1. CASE fin' = fin
      BY <3>1
    <3>2. CASE fin' = [fin EXCEPT !.pc = "idle1"]
      BY <3>2 DEF FinRecord, FinPcs
    <3> QED
      BY <2>1, <3>1, <3>2
  <2>4. caught' \in CaughtRecord
    BY <2>1, PairsCaught
  <2> QED
    BY <2>1, <2>2, <2>3, <2>4 DEF calls
<1>5. CASE FinSwaps
  <2>1. fin' = [fin EXCEPT !.pc = "idle3"] /\ UNCHANGED <<calls, listener, queue>> /\ Swaps(Active)
    BY <1>5 DEF FinSwaps
  <2>2. fin' \in FinRecord /\ fin'.pc = "idle3" /\ fin'.retry = fin.retry
    BY <2>1 DEF FinRecord, FinPcs
  <2> QED
    BY <2>1, <2>2, SwapsCaught, RequestsStill DEF calls
<1>6. CASE FinComplete
  <2>1. \E asks \in SUBSET Pairs : UNCHANGED calls \/ Signal(asks, FALSE, "outside")
    BY <1>6 DEF FinComplete, WaitInv
  <2>2. fin' = [fin EXCEPT !.pc = "activate"] /\ UNCHANGED <<listener, queue, caught>>
    BY <1>6 DEF FinComplete
  <2>3. CASE UNCHANGED calls
    BY <1>1, <2>2, <2>3 DEF FinPcs
  <2>4. ASSUME NEW asks \in SUBSET Pairs, Signal(asks, FALSE, "outside") PROVE CallsInv'
    <3>1. RequestsInv' /\ requests' \in RequestRecord
      BY <2>2, <2>4, SignalKeeps DEF Scopes
    <3> QED
      BY <2>2, <3>1, FinMoves DEF FinPcs
  <2> QED
    BY <2>1, <2>3, <2>4
<1>7. CASE FinActivate
  <2>1. UNCHANGED <<calls, listener, queue, caught>>
        /\ \/ fin' = [fin EXCEPT !.pc = "failed"]
           \/ fin' = [state |-> "HEALTHY", pc |-> "none", retry |-> FALSE]
    BY <1>7 DEF FinActivate
  <2>2. CASE fin' = [state |-> "HEALTHY", pc |-> "none", retry |-> FALSE]
    <3>1. fin' \in FinRecord /\ ~fin'.retry
      BY <2>2 DEF FinRecord, FinPcs
    <3> QED
      BY <2>1, <3>1, RequestsStill DEF calls
  <2> QED
    BY <1>1, <2>1, <2>2 DEF FinPcs
<1>8. CASE FinFailed
  <2>1. /\ fin.pc = "failed" /\ fin' = [fin EXCEPT !.pc = "none", !.retry = FALSE]
        /\ UNCHANGED <<requests, caught>>
        /\ IF fin.retry THEN Dismissed(TRUE) ELSE UNCHANGED <<queue, orch, listener>>
    BY <1>8 DEF FinFailed
  <2>2. fin' \in FinRecord /\ ~fin'.retry
    BY <2>1 DEF FinRecord, FinPcs
  <2>3. RequestsInv'
    BY <2>1, DismissedKeeps, RequestsStill
  <2> QED
    BY <2>1, <2>2, <2>3
<1> QED
  BY <1>2, <1>3, <1>4, <1>5, <1>6, <1>7, <1>8 DEF Replaying

------------------------------------------------------------------------------
(* The monitor that a turn is starting.                                     *)

\* One at a time, which has no place yet while its session is read again.
TurnInv ==
  /\ \A p, q \in sched.at : p = q
  /\ sched.pc \notin {"read", "starting"} => sched.at = {}
  /\ sched.pc = "read" => \A p \in sched.at : mon[p] = "off"

\* What other parts do to the scheduler.
AskedOf ==
  \/ sched' = sched
  \/ \E scope \in Scopes : sched' = Kicked(sched, scope)
  \/ sched' = [sched EXCEPT !.aborted = TRUE]

LEMMA RequestedAsks ==
  ASSUME NEW scope \in Scopes, sched' = Requested(sched, scope)
  PROVE  AskedOf
BY DEF Requested, AskedOf

LEMMA OthersAsk ==
  ASSUME \/ World \/ Tick \/ Orchestrating \/ Serving \/ Replaying \/ Recovering
         \/ \E p \in Pairs : Retire(p) \/ Leave(p) \/ SellEnds(p)
  PROVE  AskedOf
<1> USE DEF Scopes
<1>1. ASSUME NEW p \in Pairs, Stopped(p) PROVE AskedOf
  BY <1>1, RequestedAsks DEF Stopped, AskedOf
<1>2. CASE World \/ Tick
  BY <1>1, <1>2 DEF World, Tick, Refuse, IgnoreEnds, SellBegins, SwapSeen, PairSeen, AskedOf
<1>3. CASE \E p \in Pairs : Retire(p) \/ Leave(p) \/ SellEnds(p)
  <2>1. ASSUME NEW p \in Pairs, Retire(p) PROVE AskedOf
    <3>1. \E scope \in Scopes : sched' = Requested(sched, scope)
      BY <2>1 DEF Retire
    <3> QED
      BY <3>1, RequestedAsks
  <2>2. ASSUME NEW p \in Pairs, Leave(p) PROVE AskedOf
    BY <2>2, RequestedAsks DEF Leave
  <2>3. ASSUME NEW p \in Pairs, SellEnds(p) PROVE AskedOf
    BY <1>1, <2>3 DEF SellEnds, AskedOf
  <2> QED
    BY <1>3, <2>1, <2>2, <2>3
<1>4. CASE Orchestrating \/ Recovering
  BY <1>4 DEF Orchestrating, OrchBegin, OrchInline, OrchEnd, OrchUnchanged,
              Recovering, RecoveryStart, RecoveryEnd, RecoveryActivate, AskedOf
<1>5. CASE Serving
  BY <1>5, RequestedAsks DEF Serving, ServePairs, PairsRead, ServeSwaps, Reorg, Retry, Passed, AskedOf
<1>6. CASE Replaying
  BY <1>6, RequestedAsks DEF Replaying, FinGate, FinDrain, FinPairs, FinRead, PairsRead, FinAdmit,
     FinSwaps, FinComplete, FinActivate, FinFailed, AskedOf
<1> QED
  BY <1>2, <1>3, <1>4, <1>5, <1>6

\* The place and the monitor at hand are kept, or given up.
AtKept ==
  \/ sched'.at = {} /\ sched'.pc \notin {"read", "starting"}
  \/ sched'.at = sched.at /\ sched'.pc = sched.pc

LEMMA AskedKeeps ==
  ASSUME sched \in TurnRecord, AskedOf
  PROVE  AtKept
<1>1. CASE sched' = sched
  BY <1>1 DEF AtKept
<1>2. ASSUME NEW scope \in Scopes, sched' = Kicked(sched, scope) PROVE AtKept
  <2>1. CASE sched.pc = "idle"
    BY <1>2, <2>1 DEF Kicked, NoTurn, AtKept
  <2>2. CASE sched.pc # "idle"
    BY <1>2, <2>2 DEF Kicked, TurnRecord, AtKept
  <2> QED
    BY <2>1, <2>2
<1>3. CASE sched' = [sched EXCEPT !.aborted = TRUE]
  BY <1>3 DEF TurnRecord, AtKept
<1> QED
  BY <1>1, <1>2, <1>3 DEF AskedOf

LEMMA TurnAt ==
  ASSUME sched \in TurnRecord, TurnInv,
         \/ SchedLoad \/ SchedEnd
         \/ \E p \in Pairs : SchedStop(p) \/ SchedRelease(p) \/ SchedThrows(p) \/ SchedStarted(p)
  PROVE  AtKept
<1>1. CASE SchedLoad
  <2>1. sched.pc = "load" /\ \E todo, line, open, again :
          sched' = [sched EXCEPT !.pc = "stop", !.todo = todo, !.line = line, !.open = open,
                                 !.victims = line, !.reserved = 0, !.again = again]
    BY <1>1 DEF SchedLoad
  <2>2. sched'.at = sched.at /\ sched'.pc = "stop" /\ sched.at = {}
    BY <2>1 DEF TurnRecord, TurnInv
  <2> QED
    BY <2>2 DEF AtKept
<1>2. CASE SchedEnd
  <2>1. sched.pc = "stop" /\ (sched' = NoTurn \/ sched' = [sched EXCEPT !.pc = "load"])
    BY <1>2 DEF SchedEnd
  <2>2. CASE sched' = NoTurn
    BY <2>2 DEF NoTurn, AtKept
  <2>3. CASE sched' = [sched EXCEPT !.pc = "load"]
    BY <2>1, <2>3 DEF TurnRecord, TurnInv, AtKept
  <2> QED
    BY <2>1, <2>2, <2>3
<1>3. ASSUME NEW p \in Pairs, SchedStop(p) PROVE AtKept
  BY <1>3 DEF SchedStop, AtKept
<1>4. ASSUME NEW p \in Pairs, SchedRelease(p) PROVE AtKept
  BY <1>4 DEF SchedRelease, TurnRecord, AtKept
<1>5. ASSUME NEW p \in Pairs, SchedThrows(p) PROVE AtKept
  BY <1>5 DEF SchedThrows, NoTurn, AtKept
<1>6. ASSUME NEW p \in Pairs, SchedStarted(p) PROVE AtKept
  <2>1. \/ sched' = Breaks
        \/ sched' = Goes(p)
        \/ \E n \in {0, 1} : sched' = [Goes(p) EXCEPT !.failed = TRUE, !.aborted = FALSE,
                                                     !.reserved = @ + n]
    BY <1>6 DEF SchedStarted
  <2> QED
    BY <2>1 DEF Goes, Breaks, TurnRecord, AtKept
<1> QED
  BY <1>1, <1>2, <1>3, <1>4, <1>5, <1>6

LEMMA AtKeeps ==
  ASSUME TurnInv, AtKept, \A p \in Pairs : mon[p] = "off" => mon'[p] = "off", sched \in TurnRecord
  PROVE  TurnInv'
<1>1. sched.at \subseteq Pairs
  BY DEF TurnRecord
<1> QED
  BY <1>1 DEF TurnInv, AtKept

LEMMA NextAt ==
  ASSUME PlacesInv, TurnInv, NEW p \in Pairs, SchedNext(p)
  PROVE  TurnInv'
<1>1. UNCHANGED mon /\ sched \in TurnRecord /\ sched.pc = "stop"
  BY DEF SchedNext, monitors, PlacesInv
<1>2. CASE sched' = [sched EXCEPT !.line = @ \ {p}] \/ sched' = [sched EXCEPT !.line = {}]
  BY <1>1, <1>2 DEF TurnRecord, TurnInv
<1>3. CASE mon[p] = "off" /\ \E q \in Observations :
             sched' = [sched EXCEPT !.todo = {q}, !.again = TRUE, !.at = {p}, !.pc = "read"]
  <2>1. sched'.at = {p} /\ sched'.pc = "read"
    BY <1>1, <1>3 DEF TurnRecord
  <2> QED
    BY <1>1, <1>3, <2>1 DEF TurnInv
<1>4. CASE mon[p] = "off" /\ sched' = [sched EXCEPT !.at = {p}, !.pc = "read"]
  <2>1. sched'.at = {p} /\ sched'.pc = "read"
    BY <1>1, <1>4 DEF TurnRecord
  <2> QED
    BY <1>1, <1>4, <2>1 DEF TurnInv
<1> QED
  BY <1>2, <1>3, <1>4 DEF SchedNext

LEMMA StartAt ==
  ASSUME PlacesInv, TurnInv, NEW p \in Pairs, SchedStart(p)
  PROVE  TurnInv'
<1>1. sched \in TurnRecord /\ sched.pc = "read"
  BY DEF SchedStart, PlacesInv
<1>2. \/ sched' = Breaks
      \/ sched' = [Goes(p) EXCEPT !.again = TRUE]
      \/ sched' = [sched EXCEPT !.pc = "starting"]
  BY DEF SchedStart
<1>3. CASE sched' = Breaks \/ sched' = [Goes(p) EXCEPT !.again = TRUE]
  BY <1>1, <1>3 DEF TurnRecord, TurnInv, Breaks, Goes
<1>4. CASE sched' = [sched EXCEPT !.pc = "starting"]
  BY <1>1, <1>4 DEF TurnRecord, TurnInv
<1> QED
  BY <1>2, <1>3, <1>4

LEMMA TurnKeeps ==
  ASSUME PlacesInv, TurnInv, Next
  PROVE  TurnInv'
<1>1. sched \in TurnRecord
  BY DEF PlacesInv
<1>2. CASE \/ World \/ Tick \/ Orchestrating \/ Serving \/ Replaying \/ Recovering
           \/ \E p \in Pairs : Retire(p) \/ Leave(p) \/ SellEnds(p)
  <2>1. AtKept
    BY <1>1, <1>2, OthersAsk, AskedKeeps
  <2>2. \A p \in Pairs : mon[p] = "off" => mon'[p] = "off"
    BY <1>2, WorldQuiet, OrchestratingQuiet, ServingQuiet, ReplayingQuiet, RecoveringQuiet DEF Quiet
  <2> QED
    BY <1>1, <2>1, <2>2, AtKeeps
<1>3. CASE \/ SchedLoad \/ SchedEnd
           \/ \E p \in Pairs : SchedStop(p) \/ SchedRelease(p) \/ SchedThrows(p) \/ SchedStarted(p)
  <2>1. AtKept
    BY <1>1, <1>3, TurnAt
  <2>2. \A p \in Pairs : mon[p] = "off" => mon'[p] = "off"
    BY <1>3, TurnQuiet, StopKeeps DEF Quiet
  <2> QED
    BY <1>1, <2>1, <2>2, AtKeeps
<1>4. CASE \E p \in Pairs : SchedNext(p) \/ SchedStart(p)
  BY <1>4, NextAt, StartAt
<1> QED
  BY <1>2, <1>3, <1>4 DEF Next, Scheduling

KindsInv == PlacesInv /\ WaitInv /\ CallsInv /\ TurnInv

LEMMA KindsStep ==
  ASSUME KindsInv, Next
  PROVE  KindsInv'
<1> USE DEF KindsInv
<1>1. PlacesInv'
  BY StepKeeps
<1>2. WaitInv'
  BY WorldWaits, SchedulingWaits, OrchestratingWaits, ServingWaits, ReplayingWaits, RecoveringWaits
     DEF Next
<1>3. CallsInv'
  <2>1. sched \in TurnRecord
    BY DEF PlacesInv
  <2> QED
    BY <2>1, WorldCalls, SchedulingCalls, OrchestratingCalls, ServingCalls, ReplayingCalls,
       RecoveringCalls DEF Next
<1>4. TurnInv'
  BY TurnKeeps
<1> QED
  BY <1>1, <1>2, <1>3, <1>4

\* The kinds of all values, and who has a request in the queue of the coordinator.
THEOREM KindsInvariant == Spec => []KindsInv
<1>1. Init => KindsInv
  <2> SUFFICES ASSUME Init PROVE KindsInv
    OBVIOUS
  <2>1. PlacesInv
    BY PlacesInit
  <2>2. WaitInv
    BY ReplayAssumption DEF Init, WaitInv, SessionStates
  <2>3. TurnInv
    BY DEF Init, TurnInv, NoTurn
  <2>4. RequestsInv
    <3>1. orch \in PassRecord /\ orch.pc = "idle"
      BY DEF Init, NoPass, PassRecord, Scopes
    <3>2. listener \in ListenerRecord /\ ~listener.busy
      BY DEF Init, ListenerRecord, Scopes
    <3>3. queue \in Seq({"swaps", "pairs"}) /\ DOMAIN queue = {}
      BY DEF Init
    <3> QED
      BY <3>1, <3>2, <3>3 DEF RequestsInv, Alone, Queued
  <2>5. NotesInv
    BY DEF Init, NotesInv, NoRequests, RequestRecord, FinRecord, FinPcs, CaughtRecord
  <2> QED
    BY <2>1, <2>2, <2>3, <2>4, <2>5 DEF KindsInv, CallsInv
<1>2. KindsInv /\ [Next]_vars => KindsInv'
  <2>1. ASSUME KindsInv, UNCHANGED vars PROVE KindsInv'
    <3>1. UNCHANGED <<status, mon, waiting, rejected, orch, requests, sched, listener, queue, fin,
                      awaiting, caught>>
      BY <2>1 DEF vars, sessions, monitors, calls, replay
    <3>2. PlacesInv'
      BY <2>1, <3>1, StillQuiet, QuietKeeps DEF KindsInv
    <3> QED
      BY <2>1, <3>1, <3>2, RequestsStill DEF KindsInv, CallsInv, WaitInv, NotesInv, TurnInv
  <2> QED
    BY <2>1, KindsStep
<1> QED
  BY <1>1, <1>2, PTL DEF Spec

\* Every value has its kind, one request of each owner is in the queue, and the monitors
\* keep within their places (app.ts, canonical-chain.coordinator.ts, monitor-scheduler.ts).
THEOREM MonitorsAreSound == Spec => []MonitorsSound
<1>1. KindsInv => MonitorsSound
  <2> SUFFICES ASSUME KindsInv PROVE ReplayTypeOK /\ CapacityKept
    BY DEF MonitorsSound
  <2>1. /\ status \in [Pairs -> SessionStates] /\ mon \in [Pairs -> MonStates]
        /\ waiting \subseteq Pairs /\ rejected \subseteq Pairs \ waiting
        /\ \A p, q \in sched.at : p = q
    BY DEF KindsInv, WaitInv, PlacesInv, TurnInv
  <2>2. sched.line \subseteq Pairs /\ CapacityKept
    BY DEF KindsInv, PlacesInv, TurnRecord
  <2>3. /\ \A i, j \in DOMAIN queue : queue[i] = queue[j] => i = j
        /\ Queued("swaps") <=> orch.pc = "queued"
        /\ Queued("pairs") <=> listener.busy /\ listener.scope = "outside"
    BY DEF KindsInv, CallsInv, RequestsInv, Alone
  <2> QED
    BY <2>1, <2>2, <2>3 DEF ReplayTypeOK, SessionStates, MonStates
<1> QED
  BY <1>1, KindsInvariant, PTL

------------------------------------------------------------------------------
(* The audit.                                                               *)

AfterPairs == fin.pc \in {"idle1", "admit", "admitting", "idle2", "swaps", "idle3", "complete"}
AfterSwaps == fin.pc \in {"idle3", "complete"}

\* The monitors that the completed audit accounts for, with their waiters.
Accounted == caught.swaps \cup caught.late

\* Once the new pairs have been read they stay read, and once the swaps have been read a
\* monitor that comes later is admitted with the answer of a pass that has read its own,
\* or had begun without it.
AuditInv ==
  /\ AfterPairs => caught.pairs
  /\ AfterSwaps => Capable \subseteq Accounted \cup sched.at
  /\ AfterSwaps /\ sched.pc = "starting" =>
       (sched.at \cap Capable) \ (waiting \cup rejected) \subseteq Accounted
  /\ AfterSwaps /\ orch.pc = "end" =>
       \A p \in orch.asked \cap waiting \cap Capable \cap orch.targets :
         p \in caught.swaps \/ orch.failed

\* A step in which nothing new has to be caught, and no call is answered.
AuditQuiet ==
  /\ AfterPairs' => AfterPairs
  /\ AfterSwaps' => AfterSwaps
  /\ AfterPairs' /\ caught.pairs => caught'.pairs
  /\ AfterPairs' => caught.swaps \subseteq caught'.swaps /\ Accounted \subseteq Accounted'
  /\ AfterSwaps' => /\ Capable' \subseteq Capable
                    /\ waiting' \cap Capable' \subseteq waiting
                    /\ (waiting \cap Capable') \ waiting' \subseteq rejected'
                    /\ rejected \cap Capable' \subseteq rejected'

LEMMA AuditStays ==
  ASSUME AuditInv, AuditQuiet, orch' = orch \/ orch'.pc # "end",
         sched'.at = sched.at, sched'.pc = "starting" => sched.pc = "starting"
  PROVE  AuditInv'
<1>1. AfterPairs' => caught'.pairs
  BY DEF AuditInv, AuditQuiet
<1> SUFFICES ASSUME AfterSwaps' PROVE AuditInv'
  BY <1>1 DEF AuditInv
<1>2. /\ AfterSwaps /\ caught.swaps \subseteq caught'.swaps /\ Capable' \subseteq Capable
      /\ Accounted \subseteq Accounted'
      /\ waiting' \cap Capable' \subseteq waiting
      /\ (waiting \cap Capable') \ waiting' \subseteq rejected'
      /\ rejected \cap Capable' \subseteq rejected'
  BY DEF AuditQuiet, AfterPairs, AfterSwaps
<1> QED
  BY <1>1, <1>2 DEF AuditInv

LEMMA NothingAudited ==
  ASSUME AfterPairs' => caught'.pairs, ~AfterSwaps'
  PROVE  AuditInv'
BY DEF AuditInv

\* A monitor that stops is refused its answer, unless a pass runs for it.
LEMMA StopsQuietly ==
  ASSUME WaitInv, UNCHANGED <<fin, caught>>, Capable' \subseteq Capable,
         (\E ps : Unregistered(ps)) \/ UNCHANGED <<waiting, rejected>>
  PROVE  AuditQuiet
<1>1. /\ waiting' \subseteq waiting /\ waiting \ waiting' \subseteq rejected'
      /\ rejected \subseteq rejected'
  BY DEF Unregistered
<1> QED
  BY <1>1 DEF AuditQuiet, AfterPairs, AfterSwaps, Accounted

LEMMA AskedStays ==
  ASSUME sched \in TurnRecord, TurnInv, AskedOf
  PROVE  sched'.at = sched.at /\ (sched'.pc = "starting" => sched.pc = "starting")
<1>1. CASE sched' = sched
  BY <1>1
<1>2. ASSUME NEW scope \in Scopes, sched' = Kicked(sched, scope)
      PROVE  sched'.at = sched.at /\ (sched'.pc = "starting" => sched.pc = "starting")
  <2>1. CASE sched.pc = "idle"
    BY <1>2, <2>1 DEF Kicked, NoTurn, TurnInv
  <2>2. CASE sched.pc # "idle"
    BY <1>2, <2>2 DEF Kicked, TurnRecord
  <2> QED
    BY <2>1, <2>2
<1>3. CASE sched' = [sched EXCEPT !.aborted = TRUE]
  BY <1>3 DEF TurnRecord
<1> QED
  BY <1>1, <1>2, <1>3 DEF AskedOf

LEMMA SignalBegins ==
  ASSUME NEW ps, NEW all, NEW scope, Signal(ps, all, scope)
  PROVE  orch' = orch \/ orch'.pc # "end"
BY DEF Signal, NoPass

LEMMA WorldAudit ==
  ASSUME KindsInv, AuditInv,
         World \/ Tick \/ Recovering \/ \E p \in Pairs : Retire(p) \/ Leave(p) \/ SellEnds(p)
  PROVE  AuditInv'
<1>1. sched \in TurnRecord /\ TurnInv /\ WaitInv /\ mon \in [Pairs -> MonStates]
  BY DEF KindsInv, PlacesInv
<1>2. sched'.at = sched.at /\ (sched'.pc = "starting" => sched.pc = "starting")
  BY <1>1, OthersAsk, AskedStays
<1>3. UNCHANGED <<fin, caught>>
  BY DEF World, Refuse, IgnoreEnds, SellBegins, SwapSeen, PairSeen, Tick, Recovering,
         RecoveryStart, RecoveryEnd, RecoveryActivate, Retire, Leave, SellEnds, replay
<1>4. orch' = orch \/ orch'.pc # "end"
  BY SignalBegins DEF World, Refuse, IgnoreEnds, SellBegins, SwapSeen, PairSeen, Tick, Recovering,
         RecoveryStart, RecoveryEnd, RecoveryActivate, Retire, Leave, SellEnds, calls
<1>5. (\E ps : Unregistered(ps)) \/ UNCHANGED <<waiting, rejected>>
  <2>1. CASE World \/ Tick \/ \E p \in Pairs : Retire(p) \/ Leave(p) \/ SellEnds(p)
    BY <2>1 DEF World, Refuse, IgnoreEnds, SellBegins, SwapSeen, PairSeen, Tick, Stopped,
           Retire, Leave, SellEnds, monitors
  <2>2. CASE Recovering
    BY <2>2 DEF Recovering, RecoveryStart, RecoveryEnd, Synchronized, RecoveryActivate, monitors
  <2> QED
    BY <2>1, <2>2
<1>6. Capable' \subseteq Capable
  <2>1. ASSUME NEW p \in Pairs, Stopped(p) PROVE Capable' \subseteq Capable
    BY <1>1, <2>1 DEF Stopped, Capable
  <2>2. ASSUME NEW p \in Pairs, Retire(p) \/ Leave(p) \/ SellEnds(p) PROVE Capable' \subseteq Capable
    BY <1>1, <2>1, <2>2 DEF Retire, Leave, SellEnds, monitors, Capable
  <2>3. CASE World \/ Tick
    BY <1>1, <2>1, <2>3 DEF World, Tick, Refuse, IgnoreEnds, SellBegins, SwapSeen, PairSeen, monitors,
       Capable
  <2>4. CASE RecoveryStart
    BY <2>4 DEF RecoveryStart, monitors, Capable
  <2>5. CASE RecoveryEnd
    BY <1>1, <2>5 DEF RecoveryEnd, Synchronized, Capable
  <2>6. CASE RecoveryActivate
    BY <1>1, <2>6 DEF RecoveryActivate, Drain, Capable
  <2> QED
    BY <2>2, <2>3, <2>4, <2>5, <2>6 DEF Recovering
<1>7. AuditQuiet
  BY <1>1, <1>3, <1>5, <1>6, StopsQuietly
<1> QED
  BY <1>2, <1>4, <1>7, AuditStays

LEMMA ServingAudit ==
  ASSUME KindsInv, Serving
  PROVE  AuditInv'
<1>1. fin.pc = "none" /\ (fin'.pc = "none" \/ fin'.pc = "open")
  BY DEF KindsInv, CallsInv, NotesInv, FinRecord, Serving, ServePairs, ServeSwaps, Reorg, Retry,
         Passed, Turn, replay
<1> QED
  BY <1>1, NothingAudited DEF AfterPairs, AfterSwaps

LEMMA ReplayingAudit ==
  ASSUME KindsInv, AuditInv, Replaying
  PROVE  AuditInv'
<1>1. fin \in FinRecord /\ caught \in CaughtRecord /\ sched \in TurnRecord
  BY DEF KindsInv, CallsInv, NotesInv, PlacesInv
<1>2. CASE FinGate \/ FinDrain \/ FinPairs \/ FinComplete \/ FinActivate \/ FinFailed
  <2>1. fin'.pc \in {"drain", "pairs", "reading", "activate", "failed", "none"}
    <3>1. \/ \E pc \in {"drain", "pairs", "reading", "activate", "failed"} : fin' = [fin EXCEPT !.pc = pc]
          \/ fin' = [fin EXCEPT !.pc = "none", !.retry = FALSE]
          \/ fin' = [state |-> "HEALTHY", pc |-> "none", retry |-> FALSE]
      BY <1>2 DEF FinGate, FinDrain, FinPairs, FinComplete, FinActivate, FinFailed, Step
    <3>2. ASSUME NEW pc, fin' = [fin EXCEPT !.pc = pc] PROVE fin'.pc = pc
      BY <1>1, <3>2 DEF FinRecord
    <3>3. CASE fin' = [fin EXCEPT !.pc = "none", !.retry = FALSE]
      BY <1>1, <3>3 DEF FinRecord
    <3>4. CASE fin' = [state |-> "HEALTHY", pc |-> "none", retry |-> FALSE]
      BY <3>4
    <3> QED
      BY <3>1, <3>2, <3>3, <3>4
  <2> QED
    BY <2>1, NothingAudited DEF AfterPairs, AfterSwaps
<1>3. CASE FinRead
  <2>1. caught'.pairs
    BY <1>1, <1>3, PairsCaught DEF FinRead
  <2>2. fin'.pc \in {"reading", "idle1"}
    BY <1>1, <1>3 DEF FinRead, FinRecord
  <2> QED
    BY <2>1, <2>2, NothingAudited DEF AfterPairs, AfterSwaps
<1>4. CASE FinAdmit
  <2>1. AfterPairs /\ fin'.pc = "admitting" /\ UNCHANGED caught
    BY <1>1, <1>4 DEF FinAdmit, Idle, AfterPairs, FinRecord
  <2> QED
    BY <2>1, NothingAudited DEF AuditInv, AfterPairs, AfterSwaps
<1>5. CASE FinSwaps
  <2>1. /\ AfterPairs /\ Swaps(Active) /\ UNCHANGED <<waiting, rejected, orch, sched>>
        /\ mon' = [p \in Pairs |-> IF p \in Active \cap Capable /\ status'[p] \notin {"WAITING", "HOLDING"}
                                   THEN "ending" ELSE mon[p]]
    BY <1>5 DEF FinSwaps, Idle, AfterPairs, Swaps, calls
  <2>2. Active \cap Capable = Capable
    BY DEF Active, Capable
  <2>3. caught'.swaps = caught.swaps \cup Capable /\ caught'.pairs = caught.pairs
    BY <1>1, <2>1, <2>2, SwapsCaught
  <2>4. Capable' \subseteq Capable
    BY <2>1 DEF Capable
  <2>5. Capable' \subseteq caught'.swaps /\ caught'.pairs
    BY <2>1, <2>3, <2>4 DEF AuditInv
  <2> QED
    BY <2>5 DEF AuditInv, Accounted
<1> QED
  BY <1>2, <1>3, <1>4, <1>5 DEF Replaying

LEMMA OrchestratingAudit ==
  ASSUME KindsInv, AuditInv, Orchestrating
  PROVE  AuditInv'
<1>1. /\ orch \in PassRecord /\ caught \in CaughtRecord /\ UNCHANGED <<fin, sched>>
      /\ Capable \subseteq Registered
  BY DEF KindsInv, CallsInv, RequestsInv, NotesInv, Orchestrating, OrchBegin, OrchInline, OrchEnd,
         OrchUnchanged, Capable, Registered
<1>2. (AfterPairs' <=> AfterPairs) /\ (AfterSwaps' <=> AfterSwaps)
  BY <1>1 DEF AfterPairs, AfterSwaps
<1>3. CASE OrchBegin
  <2> DEFINE targets == IF requests.all THEN Registered ELSE requests.pairs \cap Registered
             inline == orch.scope = "replay" /\ Finalizing
             pc == IF targets \cap Capable = {} THEN "end" ELSE IF inline THEN "inline" ELSE "queued"
  <2>1. /\ orch' = [orch EXCEPT !.pc = pc, !.asked = requests.pairs, !.targets = targets,
                                !.failed = FALSE, !.retries = pc = "queued" /\ ~Healthy]
        /\ UNCHANGED <<mon, waiting, rejected, caught>>
    BY <1>3 DEF OrchBegin, OrchUnchanged
  <2>2. targets \cap Capable = {} => requests.pairs \cap Capable = {}
    BY <1>1
  <2>3. pc = "end" => targets \cap Capable = {}
    OBVIOUS
  <2> HIDE DEF targets, inline, pc
  <2>4. orch'.pc = pc /\ orch'.asked = requests.pairs
    BY <1>1, <2>1 DEF PassRecord
  <2>5. orch'.pc = "end" => orch'.asked \cap Capable = {}
    BY <2>2, <2>3, <2>4
  <2>6. UNCHANGED Capable
    BY <2>1 DEF Capable
  <2> QED
    BY <1>1, <1>2, <2>1, <2>5, <2>6 DEF AuditInv, Accounted
<1>4. CASE OrchInline
  <2>1. /\ orch.pc = "inline" /\ orch' = [orch EXCEPT !.pc = "end"] /\ Swaps(orch.targets)
        /\ UNCHANGED <<waiting, rejected>>
    BY <1>4 DEF OrchInline
  <2>2. Capable' \subseteq Capable
    <3>1. mon' = [p \in Pairs |-> IF p \in orch.targets \cap Capable
                                      /\ status'[p] \notin {"WAITING", "HOLDING"}
                                  THEN "ending" ELSE mon[p]]
      BY <2>1 DEF Swaps
    <3> QED
      BY <3>1 DEF Capable
  <2>3. /\ caught'.swaps = caught.swaps \cup (orch.targets \cap Capable)
        /\ caught'.pairs = caught.pairs /\ Accounted \subseteq Accounted'
    BY <1>1, <2>1, SwapsCaught DEF Accounted
  <2>4. orch'.asked = orch.asked /\ orch'.targets = orch.targets
    BY <1>1, <2>1 DEF PassRecord
  <2> QED
    BY <1>1, <1>2, <2>1, <2>2, <2>3, <2>4 DEF AuditInv
<1>5. CASE OrchEnd
  <2>1. /\ orch.pc = "end" /\ waiting' = waiting \ Answered /\ UNCHANGED mon
        /\ rejected' = rejected \cup {p \in Answered : IF p \in orch.targets THEN orch.failed
                                                       ELSE p \notin Registered}
        /\ orch' = NoPass \/ orch' = [NoPass EXCEPT !.pc = "begin", !.scope = orch.scope]
    BY <1>5 DEF OrchEnd, OrchUnchanged
  <2>2. orch'.pc # "end" /\ UNCHANGED Capable
    <3>1. orch'.pc # "end"
      <4>1. CASE orch' = NoPass
        BY <4>1 DEF NoPass
      <4>2. ASSUME NEW scope, orch' = [NoPass EXCEPT !.pc = "begin", !.scope = scope]
            PROVE  orch'.pc # "end"
        BY <4>2 DEF NoPass
      <4> QED
        BY <2>1, <4>1, <4>2
    <3> QED
      BY <2>1, <3>1 DEF Capable
  <2>3. /\ caught'.pairs = caught.pairs /\ Accounted \subseteq Accounted'
        /\ caught'.swaps = caught.swaps /\ Late \subseteq Accounted'
    BY <1>1, <1>5, LateCaught DEF Accounted
  <2>4. ASSUME AfterSwaps, NEW p \in Answered \cap Capable
        PROVE  p \in Accounted' \/ p \in rejected'
    <3>1. CASE p \in orch.targets
      <4>1. p \in caught.swaps \/ orch.failed
        BY <2>1, <2>4, <3>1 DEF AuditInv, Answered
      <4> QED
        BY <2>1, <2>3, <2>4, <3>1, <4>1 DEF Accounted
    <3>2. CASE p \notin orch.targets
      BY <2>3, <2>4, <3>2 DEF Late
    <3> QED
      BY <3>1, <3>2
  <2>5. AfterSwaps /\ sched.pc = "starting" =>
          (sched.at \cap Capable) \ (waiting' \cup rejected') \subseteq Accounted'
    BY <2>1, <2>3, <2>4 DEF AuditInv
  <2> QED
    BY <1>1, <1>2, <2>1, <2>2, <2>3, <2>5 DEF AuditInv
<1> QED
  BY <1>3, <1>4, <1>5 DEF Orchestrating

\* The steps of a turn that keep the monitor at hand.
LEMMA TurnAudit ==
  ASSUME KindsInv, AuditInv,
         SchedLoad \/ SchedEnd \/ \E p \in Pairs : SchedStop(p) \/ SchedRelease(p)
  PROVE  AuditInv'
<1>1. /\ sched \in TurnRecord /\ TurnInv /\ WaitInv /\ mon \in [Pairs -> MonStates]
      /\ fin \in FinRecord
  BY DEF KindsInv, PlacesInv, CallsInv, NotesInv
<1>2. CASE SchedLoad
  <2>1. sched.pc = "load" /\ \E todo, line, open, again :
          sched' = [sched EXCEPT !.pc = "stop", !.todo = todo, !.line = line, !.open = open,
                                 !.victims = line, !.reserved = 0, !.again = again]
    BY <1>2 DEF SchedLoad
  <2>2. sched'.at = sched.at /\ sched'.pc = "stop"
    BY <1>1, <2>1 DEF TurnRecord
  <2>3. UNCHANGED <<orch, mon, waiting, rejected, fin, caught>>
    BY <1>2 DEF SchedLoad, SchedUnchanged, monitors, calls, replay
  <2>4. AuditQuiet
    BY <1>1, <2>3, StopsQuietly DEF Capable
  <2> QED
    BY <2>2, <2>3, <2>4, AuditStays
<1>3. CASE SchedEnd
  <2>1. /\ sched.pc = "stop" /\ (sched' = NoTurn \/ sched' = [sched EXCEPT !.pc = "load"])
        /\ UNCHANGED <<orch, mon, waiting, rejected, caught>>
    BY <1>3 DEF SchedEnd, monitors, calls
  <2>2. sched'.at = sched.at /\ sched'.pc # "starting"
    <3>1. CASE sched' = NoTurn
      BY <1>1, <2>1, <3>1 DEF TurnInv, NoTurn
    <3>2. CASE sched' = [sched EXCEPT !.pc = "load"]
      BY <1>1, <3>2 DEF TurnRecord
    <3> QED
      BY <2>1, <3>1, <3>2
  <2>3. (AfterPairs' => AfterPairs) /\ (AfterSwaps' => AfterSwaps)
    <3>1. \/ fin' = fin
          \/ /\ fin.pc = "admitting"
             /\ fin' = [fin EXCEPT !.pc = "failed"] \/ fin' = [fin EXCEPT !.pc = "idle2"]
          \/ fin.pc = "idle1" /\ fin' = [fin EXCEPT !.pc = "admit"]
          \/ fin.pc = "idle2" /\ fin' = [fin EXCEPT !.pc = "swaps"]
          \/ fin.pc = "idle3" /\ fin' = [fin EXCEPT !.pc = "complete"]
      BY <1>3 DEF SchedEnd, AfterTurn
    <3> QED
      BY <1>1, <3>1 DEF FinRecord, AfterPairs, AfterSwaps
  <2>4. AuditQuiet
    BY <1>1, <2>1, <2>3 DEF AuditQuiet, Accounted, Capable, WaitInv
  <2> QED
    BY <2>1, <2>2, <2>4, AuditStays
<1>4. ASSUME NEW p \in Pairs, SchedStop(p) \/ SchedRelease(p) PROVE AuditInv'
  <2>1. /\ UNCHANGED <<orch, fin, caught>> /\ (Unregistered({p}) \/ UNCHANGED <<waiting, rejected>>)
        /\ \E m \in {"off", "stopped"} : mon' = [mon EXCEPT ![p] = m]
    BY <1>4 DEF SchedStop, SchedRelease, SchedUnchanged, calls, replay
  <2>2. sched'.at = sched.at /\ sched'.pc = sched.pc
    BY <1>1, <1>4 DEF SchedStop, SchedRelease, TurnRecord
  <2>3. Capable' \subseteq Capable
    BY <1>1, <2>1 DEF Capable
  <2>4. AuditQuiet
    BY <1>1, <2>1, <2>3, StopsQuietly
  <2> QED
    BY <2>1, <2>2, <2>4, AuditStays
<1> QED
  BY <1>2, <1>3, <1>4

\* The steps of a turn that take up a monitor, start it or give it up.
LEMMA NextAudit ==
  ASSUME KindsInv, AuditInv, NEW p \in Pairs, SchedNext(p)
  PROVE  AuditInv'
<1>1. /\ sched \in TurnRecord /\ sched.pc = "stop" /\ sched.at = {}
      /\ UNCHANGED <<orch, mon, waiting, rejected, fin, caught>>
  BY DEF SchedNext, SchedUnchanged, monitors, calls, replay, KindsInv, PlacesInv, TurnInv
<1>2. sched'.pc # "starting"
  <2>1. CASE sched' = [sched EXCEPT !.line = @ \ {p}] \/ sched' = [sched EXCEPT !.line = {}]
    BY <1>1, <2>1 DEF TurnRecord
  <2>2. CASE \E q \in Observations :
               sched' = [sched EXCEPT !.todo = {q}, !.again = TRUE, !.at = {p}, !.pc = "read"]
    BY <1>1, <2>2 DEF TurnRecord
  <2>3. CASE sched' = [sched EXCEPT !.at = {p}, !.pc = "read"]
    BY <1>1, <2>3 DEF TurnRecord
  <2> QED
    BY <2>1, <2>2, <2>3 DEF SchedNext
<1> QED
  BY <1>1, <1>2 DEF AuditInv, Accounted, AfterPairs, AfterSwaps, Capable

LEMMA StartAudit ==
  ASSUME KindsInv, AuditInv, NEW p \in Pairs, SchedStart(p)
  PROVE  AuditInv'
<1>1. /\ sched \in TurnRecord /\ sched.pc = "read" /\ p \in sched.at /\ TurnInv /\ WaitInv
      /\ mon \in [Pairs -> MonStates] /\ UNCHANGED <<fin, caught>> /\ orch.pc # "end"
  BY DEF SchedStart, replay, KindsInv, PlacesInv
<1>2. sched.at = {p} /\ mon[p] = "off"
  BY <1>1 DEF TurnInv
<1>3. (AfterPairs' <=> AfterPairs) /\ (AfterSwaps' <=> AfterSwaps)
  BY <1>1 DEF AfterPairs, AfterSwaps
<1>4. p \notin Capable
  BY <1>2 DEF Capable
<1>5. CASE sched' = [sched EXCEPT !.pc = "starting"] /\ UNCHANGED <<flag, listener, queue>>
           /\ mon' = [mon EXCEPT ![p] = IF InReplay THEN "prepared" ELSE "live"]
           /\ waiting' = waiting \cup {p} /\ rejected' = rejected \ {p}
           /\ Signal({p}, FALSE, sched.scope)
  <2>1. sched'.at = {p}
    BY <1>1, <1>2, <1>5 DEF TurnRecord
  <2>2. Capable' \subseteq Capable \cup {p}
    BY <1>1, <1>5 DEF Capable
  <2>3. orch'.pc # "end"
    BY <1>1, <1>5 DEF Signal, NoPass
  <2> QED
    BY <1>1, <1>2, <1>3, <1>5, <2>1, <2>2, <2>3 DEF AuditInv, Accounted
<1>6. CASE (sched' = [Goes(p) EXCEPT !.again = TRUE] \/ sched' = Breaks) /\ UNCHANGED <<monitors, calls>>
  <2>1. sched'.at = {} /\ sched'.pc = "stop"
    BY <1>1, <1>6 DEF Goes, Breaks, TurnRecord
  <2>2. UNCHANGED <<mon, waiting, rejected, orch, Capable>>
    BY <1>6 DEF monitors, calls, Capable
  <2> QED
    BY <1>1, <1>2, <1>3, <1>4, <2>1, <2>2 DEF AuditInv, Accounted
<1> QED
  BY <1>5, <1>6 DEF SchedStart

LEMMA ThrowsAudit ==
  ASSUME KindsInv, AuditInv, NEW p \in Pairs, SchedThrows(p)
  PROVE  AuditInv'
<1>1. /\ sched.pc = "read" /\ p \in sched.at /\ mon[p] = "off" /\ TurnInv /\ fin \in FinRecord
      /\ sched' = NoTurn /\ UNCHANGED <<mon, waiting, rejected, orch, caught>>
      /\ fin' = fin \/ fin' = [fin EXCEPT !.pc = "failed"]
  BY DEF SchedThrows, Shut, monitors, calls, KindsInv, CallsInv, NotesInv
<1>2. (AfterPairs' => AfterPairs) /\ (AfterSwaps' => AfterSwaps)
  BY <1>1 DEF FinRecord, AfterPairs, AfterSwaps
<1>3. sched.at \cap Capable = {}
  BY <1>1 DEF TurnInv, Capable
<1>4. sched'.at = {} /\ sched'.pc = "idle" /\ UNCHANGED Capable
  BY <1>1 DEF NoTurn, Capable
<1> QED
  BY <1>1, <1>2, <1>3, <1>4 DEF AuditInv, Accounted

LEMMA StartedAudit ==
  ASSUME KindsInv, AuditInv, NEW p \in Pairs, SchedStarted(p)
  PROVE  AuditInv'
<1>1. /\ sched \in TurnRecord /\ sched.pc = "starting" /\ p \in sched.at /\ p \notin waiting
      /\ TurnInv /\ mon \in [Pairs -> MonStates]
      /\ UNCHANGED <<waiting, rejected, orch, fin, caught>>
  BY DEF SchedStarted, calls, KindsInv, PlacesInv
<1>2. sched.at = {p}
  BY <1>1 DEF TurnInv
<1>3. (AfterPairs' <=> AfterPairs) /\ (AfterSwaps' <=> AfterSwaps)
  BY <1>1 DEF AfterPairs, AfterSwaps
<1>4. sched'.at = {} /\ sched'.pc = "stop"
  <2>1. \/ sched' = Breaks
        \/ sched' = Goes(p)
        \/ \E n \in {0, 1} : sched' = [Goes(p) EXCEPT !.failed = TRUE, !.aborted = FALSE,
                                                     !.reserved = @ + n]
    BY DEF SchedStarted
  <2> QED
    BY <1>1, <2>1 DEF Goes, Breaks, TurnRecord
<1>5. Capable' \subseteq Capable /\ (p \in Capable' => p \notin rejected /\ p \in Capable)
  BY <1>1 DEF SchedStarted, Capable
<1>6. AfterSwaps => Capable' \subseteq Accounted
  BY <1>1, <1>2, <1>5 DEF AuditInv
<1> QED
  BY <1>1, <1>3, <1>4, <1>5, <1>6 DEF AuditInv, Accounted

LEMMA AuditStep ==
  ASSUME KindsInv, AuditInv, Next
  PROVE  AuditInv'
<1>1. CASE Scheduling
  BY <1>1, TurnAudit, NextAudit, StartAudit, ThrowsAudit, StartedAudit DEF Scheduling
<1> QED
  BY <1>1, WorldAudit, OrchestratingAudit, ServingAudit, ReplayingAudit DEF Next

\* What is known of the audit holds of every behaviour.
THEOREM AuditInvariant == Spec => []AuditInv
<1>1. Init => AuditInv
  BY DEF Init, AuditInv, AfterPairs, AfterSwaps
<1>2. AuditInv /\ KindsInv /\ [Next]_vars => AuditInv'
  <2>1. ASSUME AuditInv, UNCHANGED vars PROVE AuditInv'
    <3>1. UNCHANGED <<mon, waiting, rejected, orch, sched, fin, caught>>
      BY <2>1 DEF vars, monitors, calls, replay
    <3> QED
      BY <2>1, <3>1 DEF AuditInv, Accounted, AfterPairs, AfterSwaps, Capable
  <2> QED
    BY <2>1, AuditStep
<1> QED
  BY <1>1, <1>2, KindsInvariant, PTL DEF Spec

\* The audit is completed only when the new pairs and the swaps of every monitor whose
\* admission is over have been read (reorg-replay-lifecycle.ts), except of the monitors
\* whose waiter was answered by a pass that had taken its targets before they came
\* (swap-reconcile-orchestrator.ts).
THEOREM AuditIsComplete == Spec => AuditAfterReplay
<1> DEFINE P == fin.pc # "activate" /\ fin'.pc = "activate" =>
                  caught.pairs /\ Capable \subseteq caught.swaps \cup caught.late \cup sched.at
<1>1. KindsInv /\ AuditInv /\ [Next]_vars => [P]_vars
  <2> SUFFICES ASSUME KindsInv, AuditInv, Next, fin.pc # "activate", fin'.pc = "activate"
               PROVE  caught.pairs /\ Capable \subseteq caught.swaps \cup caught.late \cup sched.at
    OBVIOUS
  <2>1. fin \in FinRecord
    BY DEF KindsInv, CallsInv, NotesInv
  <2>2. FinComplete
    <3>1. fin' # fin
      OBVIOUS
    <3>2. ASSUME SchedEnd \/ \E p \in Pairs : SchedThrows(p) PROVE FALSE
      <4>1. fin' = fin \/ \E pc \in {"failed", "idle2", "admit", "swaps", "complete"} :
                            fin' = [fin EXCEPT !.pc = pc]
        BY <3>2, AfterTurnIs DEF SchedEnd, SchedThrows
      <4> QED
        BY <2>1, <3>1, <4>1 DEF FinRecord
    <3>3. CASE Scheduling
      BY <3>1, <3>2, <3>3 DEF Scheduling, SchedLoad, SchedStop, SchedRelease, SchedNext, SchedStart,
            SchedStarted, SchedUnchanged, replay
    <3>4. CASE \/ World \/ Tick \/ Orchestrating \/ Recovering
               \/ \E p \in Pairs : Retire(p) \/ Leave(p) \/ SellEnds(p)
      BY <3>1, <3>4 DEF World, Refuse, IgnoreEnds, SellBegins, SwapSeen, PairSeen, Tick,
            Orchestrating, OrchBegin, OrchInline, OrchEnd, OrchUnchanged,
            Recovering, RecoveryStart, RecoveryEnd, RecoveryActivate, Retire, Leave, SellEnds, replay
    <3>5. CASE Serving
      BY <2>1, <3>1, <3>5 DEF Serving, ServePairs, ServeSwaps, Reorg, Retry, Passed, FinRecord, replay
    <3>6. CASE Replaying
      <4>1. CASE FinGate \/ FinDrain \/ FinPairs \/ FinRead \/ FinAdmit \/ FinSwaps
        BY <2>1, <3>1, <4>1 DEF FinGate, FinDrain, FinPairs, FinRead, FinAdmit, FinSwaps, Step, FinRecord
      <4>2. CASE FinActivate \/ FinFailed
        BY <2>1, <4>2 DEF FinActivate, FinFailed, FinRecord
      <4> QED
        BY <3>6, <4>1, <4>2 DEF Replaying
    <3> QED
      BY <3>3, <3>4, <3>5, <3>6 DEF Next
  <2>3. AfterPairs /\ AfterSwaps
    BY <2>2 DEF FinComplete, Idle, AfterPairs, AfterSwaps
  <2> QED
    BY <2>3 DEF AuditInv, Accounted
<1> QED
  BY <1>1, AuditInvariant, KindsInvariant, PTL DEF Spec, AuditAfterReplay

==============================================================================
