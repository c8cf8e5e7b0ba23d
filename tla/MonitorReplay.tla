---------------------------- MODULE MonitorReplay ----------------------------
(****************************************************************************)
(* Which pairs are monitored, and how a replay after a reorg waits for      *)
(* them: the scheduler that admits monitors (monitor-scheduler.ts), the     *)
(* orchestrator of their reconciliations (swap-reconcile-orchestrator.ts),  *)
(* the queue of the canonical coordinator (canonical-chain.coordinator.ts), *)
(* the listener of new pairs (pair-created.listener.ts), the gate           *)
(* (reorg-monitor-admission.ts) and the steps of a replay                   *)
(* (reorg-replay-lifecycle.ts, wired in app.ts).                            *)
(*                                                                          *)
(* What a request reads from the chain is the subject of CanonicalChain;    *)
(* here it is a step.  A call runs in a scope: "replay" when it descends    *)
(* from the finalization of a reorg (AsyncLocalStorage), else "outside".    *)
(****************************************************************************)
EXTENDS Naturals, Sequences, FiniteSets

CONSTANTS
  Pairs, Capacity,
  Initially,       \* the sessions when the scheduler takes its first turn
  Reorgs, Events   \* bounds: reorgs, and what else comes from outside

ASSUME ReplayAssumption ==
  /\ Initially \in [Pairs -> {"none", "WAITING", "HOLDING"}]
  /\ IsFiniteSet(Pairs) /\ Capacity \in Nat \ {0} /\ {Reorgs, Events} \subseteq Nat

VARIABLES
  status,     \* token_sessions
  flag,       \* pairs whose token is ignored, or whose time to live has passed
  mon,        \* the monitors of app.ts
  waiting,    \* pairs whose requestAndWait has no answer yet
  rejected,   \* ... and those whose last answer is an error
  orch, requests,   \* SwapReconcileOrchestrator: its pass, what is asked for
  sched,      \* MonitorScheduler
  listener,   \* PairCreatedListener
  queue,      \* requests on the tail of the coordinator, in order
  fin,        \* the finalization of a reorg
  toDrain,    \* monitorsPendingRecoveryDrain
  awaiting,   \* monitorsAwaitingReplayActivation
  caught,     \* what has been reconciled since the last rollback, and who was told so early
  recovery,   \* RecoveryCoordinator: idle, in a pass, or draining after it
  left

sessions == <<status, flag>>
monitors == <<mon, waiting, rejected>>
calls == <<orch, requests>>
replay == <<fin, toDrain, awaiting, caught>>
vars == <<sessions, monitors, calls, sched, listener, queue, replay, recovery, left>>

NoPass == [pc |-> "idle", asked |-> {}, targets |-> {}, failed |-> FALSE, scope |-> "outside",
           retries |-> FALSE]
NoRequests == [pairs |-> {}, all |-> FALSE, again |-> FALSE]
NoTurn == [pc |-> "idle", scope |-> "outside", todo |-> {}, line |-> {}, open |-> {},
           at |-> {}, victims |-> {}, reserved |-> 0, failed |-> FALSE, aborted |-> FALSE,
           again |-> FALSE]

Monitorable == {p \in Pairs : status[p] \in {"WAITING", "HOLDING"}}
Active == {p \in Pairs : mon[p] # "off"}
Registered == {p \in Pairs : mon[p] \in {"live", "prepared", "ending"}}
Capable == {p \in Pairs : mon[p] \in {"live", "prepared"}}

\* ReorgReplayAdmissionGate.finalizing, and the scope of the coordinator's own requests.
Finalizing == fin.pc \notin {"none", "activate"}

Init ==
  /\ status = Initially
  /\ flag = [p \in Pairs |-> "no"]
  /\ mon = [p \in Pairs |-> "off"] /\ waiting = {} /\ rejected = {}
  /\ orch = NoPass /\ requests = NoRequests
  /\ sched = [NoTurn EXCEPT !.pc = "load"]
  /\ listener = [busy |-> FALSE, again |-> FALSE, scope |-> "outside", retries |-> FALSE]
  /\ queue = <<>>
  /\ fin = [state |-> "HEALTHY", pc |-> "none", retry |-> FALSE]
  /\ toDrain = {} /\ awaiting = {}
  /\ caught = [swaps |-> {}, pairs |-> FALSE, late |-> {}]
  /\ recovery = "idle"
  /\ left = [reorgs |-> Reorgs, events |-> Events]

Healthy == fin.state = "HEALTHY"

Spend(of) == left[of] > 0 /\ left' = [left EXCEPT ![of] = @ - 1]

\* canRun and canSchedule of app.ts.
CanRun == recovery # "running" /\ toDrain = {}

\* MonitorScheduler.reconcile: one turn at a time, a call during it asks for another.
Kicked(s, scope) ==
  IF s.pc = "idle" THEN [NoTurn EXCEPT !.pc = "load", !.scope = scope]
  ELSE [s EXCEPT !.again = TRUE]

\* requestMonitorReconcile.
Requested(s, scope) == IF CanRun THEN Kicked(s, scope) ELSE s

\* Faulty variant: a pass begins although one is running.
SignalAlways(ps, all, scope) ==
  /\ requests' = [requests EXCEPT !.pairs = @ \cup ps, !.all = @ \/ all]
  /\ orch' = IF CanRun THEN [NoPass EXCEPT !.pc = "begin", !.scope = scope] ELSE orch

\* SwapReconcileOrchestrator.signal, with its microtask: a pass that runs already is
\* followed by another one.
Signal(ps, all, scope) ==
  /\ requests' = [requests EXCEPT !.pairs = @ \cup ps, !.all = @ \/ all,
                                  !.again = @ \/ orch.pc # "idle"]
  /\ orch' = IF orch.pc = "idle" /\ CanRun THEN [NoPass EXCEPT !.pc = "begin", !.scope = scope]
             ELSE orch

\* SwapReconcileOrchestrator.unregister: a waiter is refused, unless its pass is running.
Unregistered(ps) ==
  LET refused == (ps \cap waiting) \ orch.targets
  IN waiting' = waiting \ refused /\ rejected' = rejected \cup refused

------------------------------------------------------------------------------
(* The world around the monitors.                                           *)

\* stopMonitor, from the dashboard; the place is free when the calls have come back.
Stopped(p) ==
  /\ Spend("events")
  /\ mon' = IF mon[p] \in {"live", "prepared"} THEN [mon EXCEPT ![p] = "leaving"] ELSE mon
  /\ Unregistered({p})
  /\ sched' = IF mon[p] = "off" THEN Requested(sched, "outside") ELSE sched

\* A token is put on the ignore list, by a dashboard that has seen the session waiting
\* or none at all, or a pair has waited too long.
Refuse(p) ==
  /\ Spend("events") /\ flag[p] = "no"
  /\ \/ /\ status[p] \in {"none", "WAITING", "HOLDING"}
        /\ flag' = [flag EXCEPT ![p] = "ignored"]
     \/ status[p] = "WAITING" /\ flag' = [flag EXCEPT ![p] = "due"]
  /\ UNCHANGED <<status, monitors, calls, sched, listener, queue, replay, recovery>>

\* The dashboard ends the session of the token it has put on the list.
IgnoreEnds(p) ==
  /\ flag[p] = "ignored" /\ status[p] = "WAITING" /\ status' = [status EXCEPT ![p] = "ended"]
  /\ Stopped(p)
  /\ UNCHANGED <<flag, calls, listener, queue, replay, recovery>>

\* A position is sold by the exit monitor or from the dashboard.
SellBegins(p) ==
  /\ status[p] = "HOLDING" /\ status' = [status EXCEPT ![p] = "SELLING"] /\ Spend("events")
  /\ UNCHANGED <<flag, monitors, calls, sched, listener, queue, replay, recovery>>

SellEnds(p) ==
  /\ status[p] = "SELLING"
  /\ \E s \in {"ended", "review"} : status' = [status EXCEPT ![p] = s]
  /\ \/ UNCHANGED <<monitors, sched, left>>
     \/ status'[p] = "ended" /\ Stopped(p)
  /\ UNCHANGED <<flag, calls, listener, queue, replay, recovery>>

\* A swap is seen by the watcher of a monitor, or the interval elapses.
SwapSeen(p) ==
  /\ mon[p] = "live" /\ Signal({p}, FALSE, "outside") /\ Spend("events")
  /\ UNCHANGED <<sessions, monitors, sched, listener, queue, replay, recovery>>

\* The interval costs no event when it begins a pass that something waits for.
Tick ==
  /\ Signal({}, TRUE, "outside")
  /\ IF requests.pairs # {} /\ orch.pc = "idle" /\ CanRun THEN UNCHANGED left
     ELSE Spend("events")
  /\ UNCHANGED <<sessions, monitors, sched, listener, queue, replay, recovery>>

\* PairCreatedListener.requestReconcile from its watcher or its interval; what the
\* coordinator will do with a request is decided by its state at the call (retries).  It
\* costs no event when a second pass is asked for already, with the reorg still to come.
PairSeen ==
  /\ IF listener.busy
     THEN listener' = [listener EXCEPT !.again = TRUE] /\ UNCHANGED queue
     ELSE /\ listener' = [busy |-> TRUE, again |-> FALSE, scope |-> "outside", retries |-> ~Healthy]
          /\ queue' = Append(queue, "pairs")
  /\ IF requests.again /\ orch.pc = "queued" /\ ~listener.busy /\ left.reorgs > 0
     THEN UNCHANGED left ELSE Spend("events")
  /\ UNCHANGED <<sessions, monitors, calls, sched, replay, recovery>>

\* An open position has no monitor, or a session that has ended has one.
Misplaced(p) == \/ status[p] = "HOLDING" /\ mon[p] = "off"
                \/ status[p] \in {"none", "ended", "review"} /\ mon[p] # "off"

\* A periodic pass of the recovery, and what app.ts does when the barrier is released;
\* it costs no event when an idle scheduler has something to put right.
RecoveryStart ==
  /\ recovery = "idle" /\ recovery' = "running"
  /\ IF sched.pc = "idle" /\ \E p \in Pairs : Misplaced(p) THEN UNCHANGED left
     ELSE Spend("events")
  /\ UNCHANGED <<sessions, monitors, calls, sched, listener, queue, replay>>

\* synchronizeRecoveredSessions stops the monitors of sessions that ended; their drain follows.
Synchronized(s) ==
  LET gone == {p \in Active : s[p] \notin {"WAITING", "HOLDING"}}
  IN /\ mon' = [p \in Pairs |-> IF p \in gone THEN "stopped" ELSE mon[p]]
     /\ toDrain' = toDrain \cup gone
     /\ Unregistered(gone)

RecoveryEnd ==
  /\ recovery = "running" /\ recovery' = "draining"
  /\ \E back \in SUBSET {p \in Pairs : status[p] = "review"} :
       status' = [p \in Pairs |-> IF p \in back THEN "HOLDING" ELSE status[p]]
  /\ Synchronized(status')
  /\ UNCHANGED <<flag, calls, sched, listener, queue, fin, awaiting, caught, left>>

Drained == toDrain \cap waiting = {}

\* drainRecoveredMonitors; a monitor that was drained has left the map.
Drain ==
  /\ Drained /\ toDrain' = {}
  /\ mon' = [p \in Pairs |-> IF p \in toDrain THEN "off" ELSE mon[p]]

\* activateRecoveredSessions: the drain, then a turn of the scheduler.
RecoveryActivate ==
  /\ recovery = "draining" /\ recovery' = "idle"
  /\ Drain /\ sched' = Kicked(sched, "outside")
  /\ UNCHANGED <<sessions, waiting, rejected, calls, listener, queue, fin, awaiting, caught, left>>

\* The retirement of a monitor that has seen its session end.
Retire(p) ==
  /\ mon[p] = "ending" /\ p \notin waiting
  /\ mon' = [mon EXCEPT ![p] = "off"] /\ awaiting' = awaiting \ {p}
  /\ \E scope \in IF Finalizing THEN {"outside", "replay"} ELSE {"outside"} :
       sched' = Requested(sched, scope)
  /\ UNCHANGED <<sessions, waiting, rejected, calls, listener, queue, fin, toDrain, caught,
                 recovery, left>>

\* The end of a stop that the dashboard asked for.
Leave(p) ==
  /\ mon[p] = "leaving" /\ p \notin waiting
  /\ mon' = [mon EXCEPT ![p] = "off"] /\ sched' = Requested(sched, "outside")
  /\ UNCHANGED <<sessions, waiting, rejected, calls, listener, queue, replay, recovery, left>>

------------------------------------------------------------------------------
(* MonitorScheduler: one turn.                                              *)

SchedUnchanged == UNCHANGED <<calls, listener, queue, replay, recovery>>

\* The sessions are loaded; those that wait too long or are ignored end here, unless
\* they are monitored; the monitors that have no reason any more are to be stopped.
SchedLoad ==
  /\ sched.pc = "load"
  /\ LET refused == {p \in Pairs : status[p] = "WAITING" /\ flag[p] = "ignored"}
         late == {p \in Pairs \ Active : status[p] = "WAITING" /\ flag[p] = "due"}
         eligible == Monitorable \ (refused \cup late)
         reserved == {p \in Pairs : status[p] = "SELLING"}
     IN /\ status' = [p \in Pairs |-> IF p \in late \cup (refused \ Active) THEN "ended"
                                      ELSE status[p]]
        /\ sched' = [sched EXCEPT !.pc = "stop", !.todo = Active \ (eligible \cup reserved),
                                  !.line = eligible,
                                  !.open = {p \in eligible : status[p] = "HOLDING"},
                                  !.victims = eligible, !.reserved = 0,
                                  !.again = refused \cap Active # {}]
  /\ UNCHANGED <<flag, monitors, left>> /\ SchedUnchanged

\* stopMonitor: the watcher goes at once, the place when the calls of the monitor have
\* come back.
SchedStop(p) ==
  /\ p \in sched.todo /\ mon[p] \in {"live", "prepared", "ending"} /\ Unregistered({p})
  /\ mon' = [mon EXCEPT ![p] = IF p \in waiting' THEN "stopped" ELSE "off"]
  /\ UNCHANGED <<sessions, sched, left>> /\ SchedUnchanged

SchedRelease(p) ==
  /\ p \in sched.todo /\ mon[p] \in {"stopped", "off"} /\ p \notin waiting
  /\ mon' = [mon EXCEPT ![p] = "off"]
  /\ sched' = [sched EXCEPT !.todo = @ \ {p}]
  /\ UNCHANGED <<sessions, waiting, rejected, left>> /\ SchedUnchanged

\* Open positions first.
First(p) == p \in sched.line /\ (p \in sched.open \/ sched.line \cap sched.open = {})

InReplay == sched.scope = "replay"
CanStart == (InReplay \/ ~Finalizing) /\ recovery # "running"

\* Faulty variant: a monitor that is being stopped has left its place.
FullOfLive == Cardinality(Capable) + sched.reserved >= Capacity

Full == Cardinality(Active) + sched.reserved >= Capacity

\* Faulty variant: no monitor gives way.
NoObservations == {}

\* lowestPriorityActiveObservation: monitors that give way to an open position.
Observations == {q \in sched.victims \ sched.open : mon[q] # "off"}

\* The next session of the line: no monitor when the gate is closed or the places are
\* taken, but an open position takes the place of one that waits for its first buy.
SchedNext(p) ==
  /\ sched.pc = "stop" /\ sched.todo = {} /\ First(p)
  /\ \/ /\ mon[p] # "off" /\ sched' = [sched EXCEPT !.line = @ \ {p}]
     \/ /\ mon[p] = "off"
        /\ ~CanStart \/ (Full /\ (p \notin sched.open \/ Observations = {}))
        /\ sched' = [sched EXCEPT !.line = {}]
     \/ /\ mon[p] = "off" /\ CanStart /\ Full /\ p \in sched.open
        /\ \E q \in Observations :
             sched' = [sched EXCEPT !.todo = {q}, !.again = TRUE, !.at = {p}, !.pc = "read"]
     \/ /\ mon[p] = "off" /\ CanStart /\ ~Full
        /\ sched' = [sched EXCEPT !.at = {p}, !.pc = "read"]
  /\ UNCHANGED <<sessions, monitors, left>> /\ SchedUnchanged

Goes(p) == [sched EXCEPT !.line = @ \ {p}, !.at = {}, !.pc = "stop"]
Breaks == [sched EXCEPT !.line = {}, !.at = {}, !.pc = "stop", !.aborted = FALSE]

\* Faulty variant: the gate is not asked again once the session has been read.
AdmittedAlways == TRUE

\* startSwapMonitorForAdmission: refused from outside while a replay is finalized.
Admitted == InReplay \/ ~Finalizing

\* A position whose token is ignored, because its first buy came between the two: it
\* cannot be ignored, and has no monitor.
Shut(p) == status[p] = "HOLDING" /\ flag[p] = "ignored" /\ mon[p] = "off"

\* The session is read again, and its monitor started: for the replay, or from outside
\* with an admission that the gate may abort. The read is I/O, so that a pass which only
\* has microtasks left to begin or to answer has done so.
SchedStart(p) ==
  /\ sched.pc = "read" /\ sched.todo = {} /\ p \in sched.at /\ orch.pc \notin {"begin", "end"}
  /\ \/ /\ p \notin Monitorable
        /\ sched' = [Goes(p) EXCEPT !.again = TRUE]
        /\ UNCHANGED <<status, monitors, calls>>
     \/ /\ p \in Monitorable /\ status[p] = "WAITING" /\ flag[p] # "no"
        /\ status' = [status EXCEPT ![p] = "ended"]
        /\ sched' = [Goes(p) EXCEPT !.again = TRUE]
        /\ UNCHANGED <<monitors, calls>>
     \/ /\ p \in Monitorable /\ ~(status[p] = "WAITING" /\ flag[p] # "no") /\ ~Shut(p)
        /\ IF ~Admitted
           THEN sched' = Breaks /\ UNCHANGED <<monitors, calls>>
           ELSE /\ mon' = [mon EXCEPT ![p] = IF InReplay THEN "prepared" ELSE "live"]
                /\ waiting' = waiting \cup {p} /\ rejected' = rejected \ {p}
                /\ Signal({p}, FALSE, sched.scope)
                /\ sched' = [sched EXCEPT !.pc = "starting"]
        /\ UNCHANGED status
  /\ UNCHANGED <<flag, listener, queue, replay, recovery, left>>

\* ignoreManually throws: the turn is over, with those who wait for it.
SchedThrows(p) ==
  /\ sched.pc = "read" /\ sched.todo = {} /\ p \in sched.at /\ Shut(p)
  /\ sched' = NoTurn
  /\ fin' = IF fin.pc \in {"idle1", "admitting", "idle2", "idle3"} THEN [fin EXCEPT !.pc = "failed"]
            ELSE fin
  /\ UNCHANGED <<sessions, monitors, calls, listener, queue, toDrain, awaiting, caught, recovery,
                 left>>

\* The first reconciliation of the monitor has come back.
SchedStarted(p) ==
  /\ sched.pc = "starting" /\ p \in sched.at /\ p \notin waiting
  /\ LET failed == p \in rejected \/ (mon[p] = "off" /\ ~sched.aborted)
     IN \/ /\ failed
           /\ sched' = [Goes(p) EXCEPT !.failed = TRUE, !.aborted = FALSE,
                                       !.reserved = @ + IF status[p] = "HOLDING" THEN 1 ELSE 0]
           /\ mon' = [mon EXCEPT ![p] = "off"] /\ awaiting' = awaiting \ {p}
        \/ /\ ~failed /\ sched.aborted
           /\ sched' = Breaks /\ mon' = [mon EXCEPT ![p] = "off"] /\ UNCHANGED awaiting
        \/ /\ ~failed /\ ~sched.aborted
           /\ sched' = Goes(p) /\ UNCHANGED mon
           /\ awaiting' = IF InReplay THEN awaiting \cup {p} ELSE awaiting
  /\ UNCHANGED <<sessions, waiting, rejected, calls, listener, queue, fin, toDrain, caught,
                 recovery, left>>

\* Faulty variant: a turn that failed leaves the admission without an answer.
AfterGoodTurn(failed) ==
  CASE fin.pc = "admitting" /\ ~failed -> [fin EXCEPT !.pc = "idle2"]
    [] fin.pc = "idle1" -> [fin EXCEPT !.pc = "admit"]
    [] fin.pc = "idle2" -> [fin EXCEPT !.pc = "swaps"]
    [] fin.pc = "idle3" -> [fin EXCEPT !.pc = "complete"]
    [] OTHER -> fin

\* waitForIdle and the admission of a replay resolve with the turn they wait for.
AfterTurn(failed) ==
  CASE fin.pc = "admitting" -> [fin EXCEPT !.pc = IF failed THEN "failed" ELSE "idle2"]
    [] fin.pc = "idle1" -> [fin EXCEPT !.pc = "admit"]
    [] fin.pc = "idle2" -> [fin EXCEPT !.pc = "swaps"]
    [] fin.pc = "idle3" -> [fin EXCEPT !.pc = "complete"]
    [] OTHER -> fin

\* The end of a turn, or another one.
SchedEnd ==
  /\ sched.pc = "stop" /\ sched.todo = {} /\ sched.line = {}
  /\ IF sched.again THEN sched' = [sched EXCEPT !.pc = "load"] /\ UNCHANGED fin
     ELSE sched' = NoTurn /\ fin' = AfterTurn(sched.failed)
  /\ UNCHANGED <<sessions, monitors, calls, listener, queue, toDrain, awaiting, caught, recovery,
                 left>>

------------------------------------------------------------------------------
(* SwapReconcileOrchestrator: one pass.                                     *)

OrchUnchanged ==
  UNCHANGED <<sessions, mon, sched, listener, fin, toDrain, awaiting, recovery, left>>

\* The requests are taken; the reconciler asks the coordinator, which runs a request
\* of the replay's own scope at once and queues any other one.
OrchBegin ==
  /\ orch.pc = "begin"
  /\ LET targets == IF requests.all THEN Registered ELSE requests.pairs \cap Registered
         inline == orch.scope = "replay" /\ Finalizing
         pc == IF targets \cap Capable = {} THEN "end" ELSE IF inline THEN "inline" ELSE "queued"
     IN /\ orch' = [orch EXCEPT !.pc = pc, !.asked = requests.pairs, !.targets = targets,
                               !.failed = FALSE, !.retries = pc = "queued" /\ ~Healthy]
        /\ queue' = IF pc = "queued" THEN Append(queue, "swaps") ELSE queue
  /\ requests' = NoRequests
  /\ UNCHANGED <<waiting, rejected, caught>> /\ OrchUnchanged

\* Faulty variant: a pass that failed answers nobody.
AnsweredWell == IF orch.failed THEN {} ELSE orch.asked \cap waiting

\* Every waiter of a pair that was asked for has its answer.
Answered == orch.asked \cap waiting

\* ... also the one whose monitor came when the pass had taken its targets: its swaps have
\* not been read.
Late == (Answered \cap Capable) \ orch.targets

OrchEnd ==
  /\ orch.pc = "end"
  /\ LET refused == {p \in Answered : IF p \in orch.targets THEN orch.failed
                                                            ELSE p \notin Registered}
     IN waiting' = waiting \ Answered /\ rejected' = rejected \cup refused
  /\ orch' = IF requests.again /\ CanRun
             THEN [NoPass EXCEPT !.pc = "begin", !.scope = orch.scope] ELSE NoPass
  /\ caught' = [caught EXCEPT !.late = @ \cup Late]
  /\ UNCHANGED <<requests, queue>> /\ OrchUnchanged

\* The chunks of a pass: a buy may open a position or have the pair rejected, the last
\* buy may close it; a session that ends takes its monitor with it.
Swaps(targets) ==
  LET able == targets \cap Capable IN
  /\ \E hit \in SUBSET able, s \in [Pairs -> {"HOLDING", "ended"}] :
       /\ Cardinality(hit) <= 1 /\ \A p \in Pairs \ hit : s[p] = "ended"
       /\ hit = {} => UNCHANGED left
       /\ hit # {} => Spend("events")
       /\ \A p \in hit : status[p] = "WAITING" \/ (status[p] = "HOLDING" /\ s[p] = "ended")
       /\ status' = [p \in Pairs |-> IF p \in hit THEN s[p] ELSE status[p]]
  /\ mon' = [p \in Pairs |-> IF p \in able /\ status'[p] \notin {"WAITING", "HOLDING"}
                             THEN "ending" ELSE mon[p]]
  /\ caught' = [caught EXCEPT !.swaps = @ \cup able]

\* A pass of the replay's own scope.
OrchInline ==
  /\ orch.pc = "inline" /\ recovery # "running"
  /\ Swaps(orch.targets)
  /\ orch' = [orch EXCEPT !.pc = "end"]
  /\ UNCHANGED <<flag, waiting, rejected, requests, sched, listener, queue, fin, toDrain,
                 awaiting, recovery>>

------------------------------------------------------------------------------
(* CanonicalChainCoordinator: the head of its queue.                        *)

Turn == queue # <<>> /\ fin.pc = "none" /\ recovery # "running"

\* The pass of the listener of new pairs ends, or goes on when it was asked to.
ListenerNext(retries) ==
  IF listener.again
  THEN /\ listener' = [listener EXCEPT !.again = FALSE, !.retries = retries]
       /\ queue' = IF listener.scope = "replay" THEN queue
                   ELSE Append(Tail(queue), "pairs")
  ELSE /\ listener' = [busy |-> FALSE, again |-> FALSE, scope |-> "outside", retries |-> FALSE]
       /\ queue' = IF listener.scope = "replay" THEN queue ELSE Tail(queue)

\* New pairs are admitted, and a known one whose session waits is scheduled again.
PairsRead(scope) ==
  /\ \E found \in SUBSET {p \in Pairs : status[p] = "none" /\ flag[p] # "ignored"} :
       /\ status' = [p \in Pairs |-> IF p \in found THEN "WAITING" ELSE status[p]]
       /\ sched' = IF found # {} THEN Requested(sched, scope) ELSE sched
  /\ caught' = [caught EXCEPT !.pairs = TRUE]

ServePairs ==
  /\ Turn /\ Healthy /\ Head(queue) = "pairs"
  /\ PairsRead("outside") /\ ListenerNext(FALSE)
  /\ UNCHANGED <<flag, monitors, calls, fin, toDrain, awaiting, recovery, left>>

ServeSwaps ==
  /\ Turn /\ Healthy /\ Head(queue) = "swaps"
  /\ \/ Swaps(orch.targets) /\ orch' = [orch EXCEPT !.pc = "end"]
     \/ /\ Spend("events") /\ orch' = [orch EXCEPT !.pc = "end", !.failed = TRUE]
        /\ UNCHANGED <<status, mon, caught>>
  /\ queue' = Tail(queue)
  /\ UNCHANGED <<flag, waiting, rejected, requests, sched, listener, fin, toDrain, awaiting,
                 recovery>>

\* The request returns without having read anything: its owner goes on, in a coordinator
\* that has a rollback to complete.
Dismissed(failed) ==
  IF Head(queue) = "pairs" THEN ListenerNext(TRUE) /\ UNCHANGED orch
  ELSE /\ queue' = Tail(queue) /\ orch' = [orch EXCEPT !.pc = "end", !.failed = failed]
       /\ UNCHANGED listener

\* Was the request at the head made while a rollback was not completed?
Retries == IF Head(queue) = "pairs" THEN listener.retries ELSE orch.retries

\* A reorg is found and rolled back: discoveries and first buys are undone, a session
\* that had ended waits again; the request ends and the finalization begins, but not after
\* a request that was made while an earlier rollback was not completed.
Reorg ==
  /\ Turn /\ Healthy /\ Spend("reorgs")
  /\ \E undone \in SUBSET {p \in Pairs : status[p] \in {"WAITING", "HOLDING", "ended"}} :
       status' = [p \in Pairs |-> IF p \notin undone THEN status[p]
                                  ELSE IF status[p] = "WAITING" THEN "none" ELSE "WAITING"]
  /\ Synchronized(status')
  /\ Dismissed(FALSE)
  /\ fin' = [fin EXCEPT !.state = "RECONCILING", !.pc = IF Retries THEN "none" ELSE "open"]
  /\ caught' = [swaps |-> {}, pairs |-> FALSE, late |-> {}]
  /\ UNCHANGED <<flag, requests, sched, awaiting, recovery>>

\* A request made while a rollback was not completed first tries to complete it.
Retry ==
  /\ Turn /\ ~Healthy /\ Retries
  /\ fin' = [fin EXCEPT !.pc = "open", !.retry = TRUE]
  /\ UNCHANGED <<sessions, monitors, calls, sched, listener, queue, toDrain, awaiting, caught,
                 recovery, left>>

\* One that was made before the rollback returns at once.
Passed ==
  /\ Turn /\ ~Healthy /\ ~Retries /\ Dismissed(FALSE)
  /\ UNCHANGED <<sessions, monitors, requests, sched, replay, recovery, left>>

------------------------------------------------------------------------------
(* finalizePendingReorg: the steps of a replay, in order.                   *)

Step(from, to) == fin.pc = from /\ fin' = [fin EXCEPT !.pc = to]

\* ReorgReplayAdmissionGate.run: the starts from outside are aborted.
FinGate ==
  /\ Step("open", "drain")
  /\ sched' = IF sched.pc = "starting" /\ ~InReplay THEN [sched EXCEPT !.aborted = TRUE]
              ELSE sched
  /\ UNCHANGED <<sessions, monitors, calls, listener, queue, toDrain, awaiting, caught, recovery,
                 left>>

FinDrain ==
  /\ Step("drain", "pairs") /\ Drain
  /\ UNCHANGED <<sessions, waiting, rejected, calls, sched, listener, queue, awaiting, caught,
                 recovery, left>>

\* Faulty variant: a pass that runs already is not waited for.
PairsLeft ==
  /\ Step("pairs", IF listener.busy THEN "idle1" ELSE "reading")
  /\ listener' = IF listener.busy THEN [listener EXCEPT !.again = TRUE]
                 ELSE [busy |-> TRUE, again |-> FALSE, scope |-> "replay", retries |-> FALSE]
  /\ UNCHANGED <<sessions, monitors, calls, sched, queue, toDrain, awaiting, caught, recovery,
                 left>>

\* PairCreatedListener.reconcileNow: a pass of its own, or the one that runs already.
FinPairs ==
  /\ Step("pairs", "reading")
  /\ listener' = IF listener.busy THEN [listener EXCEPT !.again = TRUE]
                 ELSE [busy |-> TRUE, again |-> FALSE, scope |-> "replay", retries |-> FALSE]
  /\ UNCHANGED <<sessions, monitors, calls, sched, queue, toDrain, awaiting, caught, recovery,
                 left>>

FinRead ==
  /\ fin.pc = "reading" /\ listener.busy /\ listener.scope = "replay" /\ recovery # "running"
  /\ PairsRead("replay") /\ ListenerNext(FALSE)
  /\ fin' = IF listener.again THEN fin ELSE [fin EXCEPT !.pc = "idle1"]
  /\ UNCHANGED <<flag, monitors, calls, toDrain, awaiting, recovery, left>>

\* waitForIdle: the scheduler has no turn, or has ended the one that was waited for.
Idle(waits, goes) == fin.pc = goes \/ (fin.pc = waits /\ sched.pc = "idle")

FinAdmit ==
  /\ Idle("idle1", "admit") /\ fin' = [fin EXCEPT !.pc = "admitting"] /\ sched' = Kicked(sched, "replay")
  /\ UNCHANGED <<sessions, monitors, calls, listener, queue, toDrain, awaiting, caught, recovery,
                 left>>

\* The reconciler runs for every monitor, besides the orchestrator.
FinSwaps ==
  /\ Idle("idle2", "swaps") /\ fin' = [fin EXCEPT !.pc = "idle3"] /\ recovery # "running" /\ Swaps(Active)
  /\ UNCHANGED <<flag, waiting, rejected, calls, sched, listener, queue, toDrain, awaiting,
                 recovery>>

\* The audit is completed and the gate opens; then the prepared monitors go live.
FinComplete ==
  /\ Idle("idle3", "complete") /\ fin' = [fin EXCEPT !.pc = "activate"]
  /\ LET asks == {p \in awaiting : mon[p] = "prepared"}
     IN /\ mon' = [p \in Pairs |-> IF p \in asks THEN "live" ELSE mon[p]]
        /\ waiting' = waiting \cup asks /\ rejected' = rejected \ asks
        /\ IF asks = {} THEN UNCHANGED calls ELSE Signal(asks, FALSE, "outside")
  /\ UNCHANGED <<sessions, sched, listener, queue, toDrain, awaiting, caught, recovery, left>>

\* onRecovered: one monitor that cannot be activated makes the whole finalization fail.
FinActivate ==
  /\ fin.pc = "activate" /\ awaiting \cap waiting = {}
  /\ LET failed == awaiting \cap rejected # {}
     IN /\ fin' = IF failed THEN [fin EXCEPT !.pc = "failed"]
                  ELSE [state |-> "HEALTHY", pc |-> "none", retry |-> FALSE]
        /\ awaiting' = awaiting \cap rejected
  /\ UNCHANGED <<sessions, monitors, calls, sched, listener, queue, toDrain, caught, recovery, left>>

\* The finalization has failed; the request that tried it fails with it.
FinFailed ==
  /\ fin.pc = "failed"
  /\ fin' = [fin EXCEPT !.pc = "none", !.retry = FALSE]
  /\ IF fin.retry THEN Dismissed(TRUE) ELSE UNCHANGED <<queue, orch, listener>>
  /\ UNCHANGED <<sessions, monitors, requests, sched, toDrain, awaiting, caught, recovery, left>>

------------------------------------------------------------------------------

World ==
  \/ \E p \in Pairs : Refuse(p) \/ IgnoreEnds(p) \/ SellBegins(p) \/ SwapSeen(p)
  \/ PairSeen
Scheduling ==
  \/ SchedLoad \/ SchedEnd
  \/ \E p \in Pairs : SchedStop(p) \/ SchedRelease(p) \/ SchedNext(p) \/ SchedStart(p)
                      \/ SchedThrows(p) \/ SchedStarted(p)
Orchestrating == OrchBegin \/ OrchInline \/ OrchEnd
Serving == ServePairs \/ ServeSwaps \/ Reorg \/ Retry \/ Passed
Replaying ==
  \/ FinGate \/ FinDrain \/ FinPairs \/ FinRead \/ FinAdmit \/ FinSwaps
  \/ FinComplete \/ FinActivate \/ FinFailed
Recovering == RecoveryStart \/ RecoveryEnd \/ RecoveryActivate

Next ==
  \/ World \/ Tick \/ Scheduling \/ Orchestrating \/ Serving \/ Replaying \/ Recovering
  \/ \E p \in Pairs : Retire(p) \/ Leave(p) \/ SellEnds(p)

Spec == Init /\ [][Next]_vars

\* Promises resolve, the intervals of the orchestrator and of the recovery come again,
\* and a sale ends.
Fairness ==
  /\ WF_vars(Scheduling) /\ WF_vars(Orchestrating) /\ SF_vars(Serving) /\ SF_vars(Replaying)
  /\ WF_vars(Recovering) /\ SF_vars(Tick)
  /\ \A p \in Pairs : WF_vars(Retire(p)) /\ WF_vars(Leave(p)) /\ WF_vars(SellEnds(p))

FairSpec == Spec /\ Fairness

------------------------------------------------------------------------------
(* Properties.                                                              *)

Queued(r) == \E i \in DOMAIN queue : queue[i] = r

\* Every variable holds a value of its kind: a waiter has no answer yet, a turn starts one
\* monitor at a time, a pass that has asked the coordinator, and the listener of new pairs,
\* have one request each in the queue.
ReplayTypeOK ==
  /\ status \in [Pairs -> {"none", "WAITING", "HOLDING", "SELLING", "ended", "review"}]
  /\ mon \in [Pairs -> {"off", "live", "prepared", "ending", "leaving", "stopped"}]
  /\ waiting \subseteq Pairs /\ rejected \subseteq Pairs \ waiting
  /\ sched.line \subseteq Pairs /\ \A p, q \in sched.at : p = q
  /\ \A i, j \in DOMAIN queue : queue[i] = queue[j] => i = j
  /\ Queued("swaps") <=> orch.pc = "queued"
  /\ Queued("pairs") <=> listener.busy /\ listener.scope = "outside"

\* The scheduler never has more monitors than places, with the ones that are still being
\* stopped, the ones an orchestrator pass is ending and the ones of a replay.
CapacityKept == Cardinality(Active) <= Capacity

\* The monitors are typed and within their places.
MonitorsSound == ReplayTypeOK /\ CapacityKept

\* No monitor begins to ingest live while a replay is being finalized, even when the
\* scheduler had looked at the gate before it closed.
GateHolds ==
  [][\A p \in Pairs : mon[p] = "off" /\ mon'[p] = "live" => ~Finalizing]_vars

\* "Completes the audit only after every canonical replay gate has drained": when the
\* audit is completed, the new pairs and the swaps of every monitor whose admission is
\* over have been reconciled since the rollback, except of a monitor whose waiter was
\* answered by a pass that had taken its targets before the monitor came (Late).
AuditAfterReplay ==
  [][fin.pc # "activate" /\ fin'.pc = "activate" =>
       caught.pairs /\ Capable \subseteq caught.swaps \cup caught.late \cup sched.at]_vars

\* Does the finalization wait for something that waits in the queue behind it?
Knotted ==
  \/ fin.pc = "reading" /\ listener.scope = "outside"
  \/ /\ orch.pc = "queued"
     /\ \/ fin.pc = "drain" /\ toDrain \cap waiting # {}
        \/ fin.pc = "activate" /\ awaiting \cap waiting # {}
        \/ /\ fin.pc \in {"idle1", "admitting", "idle2", "idle3"}
           /\ (sched.at \cup sched.todo) \cap waiting # {}

\* Does the drain of a monitor wait for an answer that only a pass gives, which does not
\* begin before the drain has ended?
Stranded == orch.pc = "idle" /\ toDrain \cap waiting # {}

Stuck == Knotted \/ Stranded

\* A finalization comes to an end, well or not, unless something waits for itself.
ReplayEnds == []<>(fin.pc = "none" \/ Stuck)

\* Every call of requestAndWait is answered, whatever stops the monitor, closes the gate
\* or holds the passes back in the meantime, unless something waits for itself.
WaitersAnswered == \A p \in Pairs : []<>(p \notin waiting \/ Stuck)

\* A position that is open does not stay without a monitor while the place is held for
\* something else, and the monitor of a session that has ended does not keep its place,
\* unless a position whose token is ignored ends every turn of the scheduler.
PlacesServed ==
  \A p \in Pairs :
    []<>(~Misplaced(p) \/ Stuck \/ (\E q \in Pairs : Shut(q))
         \/ (status[p] = "HOLDING" /\ \E q \in Active : status[q] \in {"HOLDING", "SELLING"}))

\* "Wire Reorg Recovery Without Listener Deadlocks": neither a finalization nor the drain
\* of a monitor waits for something that waits for it.
NoReplayDeadlock == ~Stuck
==============================================================================
