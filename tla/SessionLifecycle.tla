-------------------------- MODULE SessionLifecycle --------------------------
(****************************************************************************)
(* The life of a token session: the engine that buys and sells it           *)
(* (session-engine.ts), the recovery pass that settles what the engine left *)
(* unsettled (session-reconciler.ts, recovery-intent.service.ts,            *)
(* reconciliation.repository.ts), the fresh start that quarantines it when  *)
(* the process restarts (fresh-start.repository.ts) and the exit monitor    *)
(* that saves it beside the engine (position-exit-monitor.ts), over the     *)
(* executor of TradeExecutor.                                               *)
(*                                                                          *)
(* The lock of a pair and the recovery barrier are taken from SessionLocks  *)
(* and RecoveryBarrier: at most one operation runs on a pair, and a pass of *)
(* recovery only while no operation runs at all.                            *)
(*                                                                          *)
(* A session is what the row of token_sessions holds of it: its status,     *)
(* whether it has an entry and an exit, and ref, the transaction its        *)
(* unreconciledExecution names.                                             *)
(****************************************************************************)
EXTENDS TradeExecutor, FiniteSets

CONSTANTS
  MaxPositions,   \* MAX_CONCURRENT_POSITIONS
  Crashes,        \* may the process die and be started again?
  ExitMonitor     \* does the exit monitor run?

ASSUME LifecycleAssumption ==
  /\ MaxPositions \in Nat
  /\ Crashes \in BOOLEAN
  /\ ExitMonitor \in BOOLEAN

VARIABLES
  db,            \* status and payload of each row
  leased,        \* recovery_owner is set
  quarantined,   \* recovery_error starts with FRESH_START_CUTOFF:
  op,            \* the operation that holds the lock of the pair, in memory
  loaded,        \* sessions the running pass of the exit monitor has read
  up             \* the process runs, its fresh start done

rowVars == <<db, leased, quarantined>>
sessionVars == <<db, leased, quarantined, op, loaded, up>>
allVars == <<execVars, sessionVars>>

Waiting == "WAITING_FIRST_BUY"
InFlight == {"RISK_CHECKING", "BUY_PENDING", "SELL_PENDING"}
Terminal == {"CLOSED", "REJECTED", "EXPIRED"}
Active == InFlight \cup {Waiting, "HOLDING", "MANUAL_REVIEW"}
Status == Active \cup Terminal

NoRef == [trade |-> 0, step |-> "main"]
NewSession == [status |-> Waiting, entry |-> FALSE, exit |-> FALSE, ref |-> NoRef]
NoOp == [kind |-> "none", pc |-> "done", ses |-> NewSession]

Init ==
  /\ ExecInit
  /\ db = [p \in Pairs |-> NewSession]
  /\ leased = [p \in Pairs |-> FALSE]
  /\ quarantined = [p \in Pairs |-> FALSE]
  /\ op = [p \in Pairs |-> NoOp]
  /\ loaded = [p \in Pairs |-> <<>>]
  /\ up = TRUE

Open(s) == s.entry /\ ~s.exit
HasRef(s) == s.ref # NoRef
Recovering == \E p \in Pairs : op[p].kind = "recovery"

\* withLock: the pair is free and no recovery holds the barrier.
Free(p) == up /\ op[p].kind = "none" /\ ~Recovering

\* Room for one more trade within the bound.
Room(p) == Len(trades[p]) < MaxTrades

With(s, status) == [s EXCEPT !.status = status]
Begin(p, kind, pc, s) == op' = [op EXCEPT ![p] = [kind |-> kind, pc |-> pc, ses |-> s]]
Advance(p, pc, s) == op' = [op EXCEPT ![p].pc = pc, ![p].ses = s]
End(p) == op' = [op EXCEPT ![p] = NoOp]

\* Faulty variant: the row is written whoever owns it.
StoreLeased(p, s) ==
  /\ db' = [db EXCEPT ![p] = s]
  /\ UNCHANGED <<leased, quarantined>>

\* SessionRepository.save: nothing is written while a recovery owns the row.
Store(p, s) ==
  /\ ~leased[p]
  /\ db' = [db EXCEPT ![p] = s]
  /\ UNCHANGED <<leased, quarantined>>

\* The save throws.
StoreFails(p) == (StoreFaults \/ leased[p]) /\ UNCHANGED rowVars

\* The last save of an operation; when it fails the row stays as it was.
StoreLast(p, s) == Store(p, s) \/ StoreFails(p)

\* Faulty variant: only a measure that failed leaves a reference.
WithMeasure(p, s) ==
  IF exec[p].outcome = "measure"
    THEN [s EXCEPT !.ref = [trade |-> exec[p].trade, step |-> exec[p].step]]
    ELSE s

\* The session after an execution that failed: a reference only if the
\* outcome is unknown (executionToReconcile).
WithOutcome(p, s) ==
  IF exec[p].outcome \in {"unknown", "measure"}
    THEN [s EXCEPT !.ref = [trade |-> exec[p].trade, step |-> exec[p].step]]
    ELSE s

\* requiresExecutionManualReview.
NeedsReview(p) == exec[p].outcome \in {"unknown", "measure", "unsafe"}

Entered(s) == [s EXCEPT !.status = "HOLDING", !.entry = TRUE, !.ref = NoRef]
Exited(s) == [s EXCEPT !.status = "CLOSED", !.exit = TRUE, !.ref = NoRef]

------------------------------------------------------------------------------
(* SessionEngine: the first buys of a token lead to an entry.               *)

\* Faulty variant: two pairs may be entered at the same time.
ObserveBuyConcurrently(p) ==
  /\ Free(p) /\ Room(p)
  /\ db[p].status = Waiting
  /\ LET s == With(db[p], "RISK_CHECKING")
     IN Store(p, s) /\ Begin(p, "buy", "count", s)
  /\ UNCHANGED <<execVars, loaded, up>>

\* The last of the observed buys.  Swaps are handled one at a time, whatever
\* their pair, behind the tail of the canonical coordinator.
ObserveBuy(p) ==
  /\ Free(p) /\ Room(p)
  /\ \A q \in Pairs : op[q].kind # "buy"
  /\ db[p].status = Waiting
  /\ LET s == With(db[p], "RISK_CHECKING")
     IN Store(p, s) /\ Begin(p, "buy", "count", s)
  /\ UNCHANGED <<execVars, loaded, up>>

\* countOpenPositions.
Counted == {q \in Pairs : db[q].status \in {"BUY_PENDING", "HOLDING", "SELL_PENDING", "MANUAL_REVIEW"}}

\* reject: the cursor of the operation ends here, saved or not.
Reject(p) ==
  /\ op[p].kind = "buy"
  /\ op[p].pc \in {"count", "risk", "amount"}
  /\ op[p].pc = "count" => Cardinality(Counted) >= MaxPositions
  /\ StoreLast(p, With(op[p].ses, "REJECTED"))
  /\ End(p)
  /\ UNCHANGED <<execVars, loaded, up>>

CountPositions(p) ==
  /\ op[p].kind = "buy" /\ op[p].pc = "count"
  /\ Cardinality(Counted) < MaxPositions
  /\ Advance(p, "risk", op[p].ses)
  /\ UNCHANGED <<execVars, rowVars, loaded, up>>

\* The report does not block; BUY_PENDING is saved before the amount is known.
AcceptRisk(p) ==
  /\ op[p].kind = "buy" /\ op[p].pc = "risk"
  /\ LET s == With(op[p].ses, "BUY_PENDING")
     IN \/ Store(p, s) /\ Advance(p, "amount", s)
        \/ StoreFails(p) /\ End(p)
  /\ UNCHANGED <<execVars, loaded, up>>

\* The entry amount cannot be computed: the exception leaves BUY_PENDING.
AmountFails(p) ==
  /\ op[p].kind = "buy" /\ op[p].pc = "amount"
  /\ End(p)
  /\ UNCHANGED <<execVars, rowVars, loaded, up>>

Buy(p) ==
  /\ op[p].kind = "buy" /\ op[p].pc = "amount"
  /\ Advance(p, "exec", op[p].ses)
  /\ Call(p, "BUY", 0)
  /\ UNCHANGED <<trades, chain, rowVars, loaded, up>>

\* What handle saves once the executor has answered.  The save of HOLDING is
\* inside the same try as the purchase: its failure is handled like a failed
\* purchase, by reject.
BuyAnswered(p) ==
  LET s == op[p].ses IN
  \/ exec[p].outcome = "ok" /\ Store(p, Entered(s))
  \/ exec[p].outcome = "ok" /\ StoreFaults /\ StoreLast(p, With(Entered(s), "REJECTED"))
  \/ exec[p].outcome # "ok" /\ NeedsReview(p) /\ StoreLast(p, With(WithOutcome(p, s), "MANUAL_REVIEW"))
  \/ exec[p].outcome # "ok" /\ ~NeedsReview(p) /\ StoreLast(p, With(s, "REJECTED"))

EndBuy(p) ==
  /\ op[p].kind = "buy" /\ op[p].pc = "exec" /\ exec[p].pc = "done"
  /\ BuyAnswered(p)
  /\ End(p) /\ Return(p)
  /\ UNCHANGED <<trades, chain, loaded, up>>

------------------------------------------------------------------------------
(* SessionEngine: the exit.                                                 *)

\* canManuallySell, the checks of sellManually; hasUnreconciledConfirmedSell
\* looks at the step of the reference only.
IsSale(p, ref) == ref # NoRef /\ ref.step = "main" /\ trades[p][ref.trade].side = "SELL"
CanSellManually(p) ==
  /\ Open(db[p])
  /\ db[p].status \in {"HOLDING", "MANUAL_REVIEW"}
  /\ ~IsSale(p, db[p].ref)

\* performSell saves SELL_PENDING and calls the executor.
PerformSell(p) ==
  LET s == With(db[p], "SELL_PENDING")
  IN Store(p, s) /\ Begin(p, "sell", "exec", s) /\ Call(p, "SELL", 0)

\* Faulty variant: a reference to a sale does not stop another one.
SellManuallyAgain(p) ==
  /\ Free(p) /\ Room(p)
  /\ Open(db[p])
  /\ db[p].status \in {"HOLDING", "MANUAL_REVIEW"}
  /\ PerformSell(p)
  /\ UNCHANGED <<trades, chain, loaded, up>>

SellManually(p) ==
  /\ Free(p) /\ Room(p)
  /\ CanSellManually(p)
  /\ PerformSell(p)
  /\ UNCHANGED <<trades, chain, loaded, up>>

\* A swap or the exit monitor asks for the exit (requestPolicyExitLocked).
SellByPolicy(p) ==
  /\ Free(p) /\ Room(p)
  /\ db[p].status = "HOLDING" /\ Open(db[p])
  /\ PerformSell(p)
  /\ UNCHANGED <<trades, chain, loaded, up>>

ReviewByPolicy(p) ==
  /\ Free(p)
  /\ db[p].status = "HOLDING" /\ Open(db[p])
  /\ Store(p, With(db[p], "MANUAL_REVIEW"))
  /\ UNCHANGED <<execVars, op, loaded, up>>

\* What performSell saves: when the save of CLOSED fails, the exit goes to
\* MANUAL_REVIEW with it.
SellAnswered(p) ==
  LET s == op[p].ses IN
  \/ exec[p].outcome = "ok" /\ Store(p, Exited(s))
  \/ exec[p].outcome = "ok" /\ StoreFaults /\ StoreLast(p, With(Exited(s), "MANUAL_REVIEW"))
  \/ exec[p].outcome # "ok" /\ StoreLast(p, With(WithOutcome(p, s), "MANUAL_REVIEW"))

EndSell(p) ==
  /\ op[p].kind = "sell" /\ exec[p].pc = "done"
  /\ SellAnswered(p)
  /\ End(p) /\ Return(p)
  /\ UNCHANGED <<trades, chain, loaded, up>>

Expire(p) ==
  /\ Free(p)
  /\ db[p].status = Waiting
  /\ Store(p, With(db[p], "EXPIRED"))
  /\ UNCHANGED <<execVars, op, loaded, up>>

IgnoreManually(p) ==
  /\ Free(p)
  /\ ~Open(db[p])
  /\ db[p].status \in {Waiting, "REJECTED", "EXPIRED"}
  /\ Store(p, With(db[p], "REJECTED"))
  /\ UNCHANGED <<execVars, op, loaded, up>>

------------------------------------------------------------------------------
(* The exit monitor: it reads HOLDING sessions and saves them back, inside  *)
(* the barrier but without the lock of their pair.                          *)

MonitorLoads(p) ==
  /\ ExitMonitor
  /\ up /\ ~Recovering
  /\ loaded[p] = <<>>
  /\ db[p].status = "HOLDING" /\ db[p].entry
  /\ loaded' = [loaded EXCEPT ![p] = <<db[p]>>]
  /\ UNCHANGED <<execVars, rowVars, op, up>>

MonitorSaves(p) ==
  /\ loaded[p] # <<>>
  /\ StoreLast(p, loaded[p][1])
  /\ loaded' = [loaded EXCEPT ![p] = <<>>]
  /\ UNCHANGED <<execVars, op, up>>

------------------------------------------------------------------------------
(* A pass of recovery: claim a session, look at the chain, apply a decision.*)

\* Faulty variant: only reviews are claimed.
ClaimableReview(p) ==
  /\ ~quarantined[p]
  /\ db[p].status = "MANUAL_REVIEW" /\ HasRef(db[p])

\* Faulty variant: only operations in flight are claimed.
ClaimableInFlight(p) ==
  /\ ~quarantined[p]
  /\ db[p].status \in InFlight

\* The condition of claimNext on the row.
Claimable(p) ==
  /\ ~quarantined[p]
  /\ db[p].status \in InFlight \/ (db[p].status = "MANUAL_REVIEW" /\ HasRef(db[p]))

\* Faulty variant: a quarantined row is claimed like any other.
ClaimQuarantined(p) ==
  /\ up
  /\ \A q \in Pairs : op[q].kind = "none" /\ loaded[q] = <<>>
  /\ db[p].status \in InFlight \/ (db[p].status = "MANUAL_REVIEW" /\ HasRef(db[p]))
  /\ leased' = [leased EXCEPT ![p] = TRUE]
  /\ Begin(p, "recovery", "claimed", db[p])
  /\ UNCHANGED <<execVars, db, quarantined, loaded, up>>

\* claimNext, inside the barrier: the row is old enough and any lease on it
\* has expired (time is abstracted).
Claim(p) ==
  /\ up
  /\ \A q \in Pairs : op[q].kind = "none" /\ loaded[q] = <<>>
  /\ Claimable(p)
  /\ leased' = [leased EXCEPT ![p] = TRUE]
  /\ Begin(p, "recovery", "claimed", db[p])
  /\ UNCHANGED <<execVars, db, quarantined, loaded, up>>

Claimed(p) == op[p].kind = "recovery" /\ op[p].pc = "claimed"

\* selectTrade: the trade of the reference, else the last of the side.
SelectTrade(p) ==
  LET s == op[p].ses
      side == IF s.status = "SELL_PENDING" THEN "SELL" ELSE "BUY"
      mine == {i \in DOMAIN trades[p] : trades[p][i].side = side}
  IN IF HasRef(s) THEN s.ref.trade
     ELSE IF mine = {} THEN 0
     ELSE CHOOSE i \in mine : \A j \in mine : j <= i

\* selectTransaction: that of the reference, else the last of the trade.
SelectStep(p) ==
  LET tx == trades[p][SelectTrade(p)].tx
  IN IF HasRef(op[p].ses) THEN op[p].ses.ref.step
     ELSE IF tx["main"] # "NONE" THEN "main" ELSE "approve"

\* Faulty variant: a transaction that was only prepared is taken for unsent.
HasSentTransaction(p) ==
  SelectTrade(p) # 0 /\ trades[p][SelectTrade(p)].tx[SelectStep(p)] \notin {"NONE", "PENDING_BROADCAST"}

HasTransaction(p) == SelectTrade(p) # 0 /\ trades[p][SelectTrade(p)].tx[SelectStep(p)] # "NONE"
SelectedSide(p) == trades[p][SelectTrade(p)].side

\* The transaction observed, and what the chain says of it.
Observes(p, answer) ==
  /\ Claimed(p)
  /\ HasTransaction(p)
  /\ chain[p][SelectTrade(p)][SelectStep(p)] \in answer

\* applyDecision: session, trade and transaction in one database transaction.
ApplyRow(p, s, lease) ==
  /\ db' = [db EXCEPT ![p] = s]
  /\ leased' = [leased EXCEPT ![p] = lease]
  /\ quarantined' = [quarantined EXCEPT ![p] = FALSE]

ApplyTrade(p, status, tx) ==
  trades' = [trades EXCEPT ![p][SelectTrade(p)].status = status,
                           ![p][SelectTrade(p)].tx[SelectStep(p)] = tx]

ApplyFails == StoreFaults /\ UNCHANGED <<trades, rowVars>>

\* The decision ends the claim; when it cannot be written the lease stays.
Decide(p, s, tradeUpdate) ==
  /\ (ApplyRow(p, s, FALSE) /\ tradeUpdate) \/ ApplyFails
  /\ End(p)
  /\ UNCHANGED <<chain, exec, loaded, up>>

Reviewed(p, s) ==
  [s EXCEPT !.status = "MANUAL_REVIEW",
            !.ref = [trade |-> SelectTrade(p), step |-> SelectStep(p)]]

ObservePending(p) ==
  /\ Observes(p, {"pending"})
  /\ Decide(p, op[p].ses, UNCHANGED trades)

\* Faulty variant: a transaction the node does not know is taken for lost.
ObserveNothingRetry(p) ==
  /\ Observes(p, ChainStatus)
  /\ Decide(p, [op[p].ses EXCEPT !.status = IF SelectedSide(p) = "BUY" THEN "REJECTED" ELSE "HOLDING", !.ref = NoRef],
            UNCHANGED trades)

\* The node does not know the hash, or does not answer.
ObserveNothing(p) ==
  /\ Observes(p, ChainStatus)
  /\ Decide(p, Reviewed(p, op[p].ses), UNCHANGED trades)

ObserveReverted(p) ==
  /\ Observes(p, {"reverted"})
  /\ Decide(p, [op[p].ses EXCEPT !.status = IF SelectedSide(p) = "BUY" THEN "REJECTED" ELSE "HOLDING", !.ref = NoRef],
            ApplyTrade(p, "REVERTED", "REVERTED"))

Measured(p) == IF SelectedSide(p) = "BUY" THEN Entered(op[p].ses) ELSE Exited(op[p].ses)

\* Faulty variant: the status of the receipt is not looked at.
ObserveReceipt(p) ==
  /\ Observes(p, {"success", "reverted"})
  /\ SelectStep(p) = "main"
  /\ Decide(p, Measured(p), ApplyTrade(p, "CONFIRMED", "CONFIRMED"))

\* measureBuy, measureSell.
ObserveMined(p) ==
  /\ Observes(p, {"success"})
  /\ SelectStep(p) = "main"
  /\ Decide(p, Measured(p), ApplyTrade(p, "CONFIRMED", "CONFIRMED"))

\* The balances cannot be read, or another transaction of the block blurs
\* them; or the decision of ObserveMined could not be written, and the review
\* that replaces it keeps the entry or exit already set in memory.
ObserveUnmeasured(p) ==
  /\ Observes(p, {"success"})
  /\ SelectStep(p) = "main"
  /\ \E s \in {op[p].ses} \cup (IF StoreFaults THEN {Measured(p)} ELSE {}) :
       Decide(p, Reviewed(p, s), ApplyTrade(p, "CONFIRMED", "CONFIRMED"))

\* reconcileConfirmedApproval: the lease is kept and the sale goes on.
ObserveApproved(p) ==
  /\ Observes(p, {"success"})
  /\ SelectStep(p) = "approve"
  /\ LET s == [op[p].ses EXCEPT !.status = "SELL_PENDING", !.ref = NoRef] IN
       \/ /\ ApplyRow(p, s, TRUE)
          /\ ApplyTrade(p, "CREATED", "CONFIRMED")
          /\ Advance(p, "exec", s)
          /\ Call(p, "SELL", SelectTrade(p))
       \/ ApplyFails /\ End(p) /\ UNCHANGED exec
  /\ UNCHANGED <<chain, loaded, up>>

\* reconcileWithoutTransaction: the trade, if any, has sent nothing.
Intent(p, statuses) ==
  /\ Claimed(p)
  /\ ~HasTransaction(p)
  /\ op[p].ses.status \in statuses

\* Faulty variant: a simulated trade is an intent like any other.
NeverSimulated(p) == FALSE

Simulated(p) == SelectTrade(p) # 0 /\ trades[p][SelectTrade(p)].status = "SIMULATED"

RestoreSimulated(p) ==
  /\ Intent(p, InFlight)
  /\ Simulated(p)
  /\ Decide(p, Measured(p), UNCHANGED trades)

\* resumeRiskAndBuy: the analysis fails again, the intent is left for later.
RetryRisk(p) ==
  /\ Intent(p, {"RISK_CHECKING"}) /\ ~Simulated(p)
  /\ Decide(p, op[p].ses, UNCHANGED trades)

\* The risk, the room for positions or the amount forbids the purchase.
DropBuy(p) ==
  /\ Intent(p, {"RISK_CHECKING", "BUY_PENDING"}) /\ ~Simulated(p)
  /\ Decide(p, With(op[p].ses, "REJECTED"), UNCHANGED trades)

\* The amount cannot be computed: the exception leaves the lease.
ResumeThrows(p) ==
  /\ Intent(p, {"RISK_CHECKING", "BUY_PENDING"}) /\ ~Simulated(p)
  /\ End(p)
  /\ UNCHANGED <<execVars, rowVars, loaded, up>>

\* hasPositionCapacity: a session in BUY_PENDING has counted itself.
HasCapacity(p) == Cardinality(Counted \ {p}) < MaxPositions

ResumeBuy(p) ==
  /\ Intent(p, {"RISK_CHECKING", "BUY_PENDING"}) /\ ~Simulated(p)
  /\ Room(p) /\ HasCapacity(p)
  /\ Advance(p, "exec", With(op[p].ses, "BUY_PENDING"))
  /\ Call(p, "BUY", 0)
  /\ UNCHANGED <<trades, chain, rowVars, loaded, up>>

ResumeSell(p) ==
  /\ Intent(p, {"SELL_PENDING"}) /\ ~Simulated(p)
  /\ Room(p)
  /\ Advance(p, "exec", op[p].ses)
  /\ Call(p, "SELL", 0)
  /\ UNCHANGED <<trades, chain, rowVars, loaded, up>>

\* Faulty variant: a sale that failed is refused like a purchase.
ResumedRejecting(p) ==
  LET s == op[p].ses
  IN IF exec[p].outcome = "ok"
       THEN IF exec[p].side = "BUY" THEN Entered(s) ELSE Exited(s)
       ELSE With(WithOutcome(p, s), IF NeedsReview(p) THEN "MANUAL_REVIEW" ELSE "REJECTED")

\* What resumeBuy and resumeSell make of the answer of the executor.
Resumed(p) ==
  LET s == op[p].ses
      buying == exec[p].side = "BUY"
      refused == IF buying THEN "REJECTED" ELSE "HOLDING"
  IN IF exec[p].outcome = "ok"
       THEN IF buying THEN Entered(s) ELSE Exited(s)
       ELSE With(WithOutcome(p, s), IF NeedsReview(p) THEN "MANUAL_REVIEW" ELSE refused)

EndResume(p) ==
  /\ op[p].kind = "recovery" /\ exec[p].pc = "done"
  /\ ApplyRow(p, Resumed(p), FALSE) \/ (StoreFaults /\ UNCHANGED rowVars)
  /\ End(p) /\ Return(p)
  /\ UNCHANGED <<trades, chain, loaded, up>>

------------------------------------------------------------------------------
(* The process.                                                             *)

Crash ==
  /\ Crashes /\ up
  /\ up' = FALSE
  /\ op' = [p \in Pairs |-> NoOp]
  /\ loaded' = [p \in Pairs |-> <<>>]
  /\ exec' = [p \in Pairs |-> Idle]
  /\ UNCHANGED <<trades, chain, rowVars>>

\* Faulty variant: the cutoff writes a new payload.
FreshStartResetting ==
  LET cut == {p \in Pairs : db[p].status \in Active /\ ~quarantined[p]} IN
  /\ ~up
  /\ up' = TRUE
  /\ db' = [p \in Pairs |-> IF p \in cut THEN With(NewSession, "MANUAL_REVIEW") ELSE db[p]]
  /\ leased' = [p \in Pairs |-> leased[p] /\ p \notin cut]
  /\ quarantined' = [p \in Pairs |-> quarantined[p] \/ p \in cut]
  /\ UNCHANGED <<execVars, op, loaded>>

\* FreshStartRepository.apply: one transaction before anything else runs.
FreshStart ==
  LET cut == {p \in Pairs : db[p].status \in Active /\ ~quarantined[p]} IN
  /\ ~up
  /\ up' = TRUE
  /\ db' = [p \in Pairs |-> IF p \in cut THEN With(db[p], "MANUAL_REVIEW") ELSE db[p]]
  /\ leased' = [p \in Pairs |-> leased[p] /\ p \notin cut]
  /\ quarantined' = [p \in Pairs |-> quarantined[p] \/ p \in cut]
  /\ UNCHANGED <<execVars, op, loaded>>

EngineAdvance(p) ==
  \/ CountPositions(p) \/ Reject(p) \/ AcceptRisk(p) \/ AmountFails(p) \/ Buy(p)
  \/ EndBuy(p) \/ EndSell(p)

EngineBegin(p) ==
  \/ ObserveBuy(p) \/ Expire(p) \/ IgnoreManually(p)
  \/ SellManually(p) \/ SellByPolicy(p) \/ ReviewByPolicy(p)

RecoveryAdvance(p) ==
  \/ ObservePending(p) \/ ObserveNothing(p) \/ ObserveReverted(p)
  \/ ObserveMined(p) \/ ObserveUnmeasured(p) \/ ObserveApproved(p)
  \/ RestoreSimulated(p) \/ RetryRisk(p) \/ DropBuy(p) \/ ResumeThrows(p)
  \/ ResumeBuy(p) \/ ResumeSell(p) \/ EndResume(p)

Next ==
  \/ \E p \in Pairs : EngineBegin(p) \/ EngineAdvance(p) \/ Claim(p) \/ RecoveryAdvance(p)
  \/ \E p \in Pairs : MonitorLoads(p) \/ MonitorSaves(p)
  \/ \E p \in Pairs : (ExecutorStep(p) \/ Mine(p)) /\ UNCHANGED sessionVars
  \/ Crash \/ FreshStart

Spec == Init /\ [][Next]_allVars

\* Promises settle: an operation and its execution end.  A pass of recovery
\* gets the barrier now and then (RecoveryServed in RecoveryBarrier); asked
\* again and again the node answers.  The amounts need never be found: another
\* transaction of the wallet in the same block blurs them for good.
Fairness ==
  \A p \in Pairs :
    /\ WF_allVars(EngineAdvance(p))
    /\ WF_allVars(MonitorSaves(p))
    /\ WF_allVars(ExecutorStep(p) /\ UNCHANGED sessionVars)
    /\ WF_allVars(Mine(p) /\ UNCHANGED sessionVars)
    /\ SF_allVars(Claim(p))
    /\ WF_allVars(RecoveryAdvance(p))
    /\ SF_allVars(ObserveReverted(p) \/ ObserveMined(p) \/ ObserveUnmeasured(p) \/ ObserveApproved(p))
    /\ SF_allVars(RestoreSimulated(p) \/ DropBuy(p) \/ ResumeBuy(p) \/ ResumeSell(p))

FairSpec == Spec /\ Fairness

------------------------------------------------------------------------------
(* Properties.                                                              *)

SessionRecord == [status : Status, entry : BOOLEAN, exit : BOOLEAN, ref : [trade : Nat, step : Steps]]

\* Types of the rows and of the operations.
TypeOK ==
  /\ ExecTypeOK
  /\ db \in [Pairs -> SessionRecord]
  /\ leased \in [Pairs -> BOOLEAN]
  /\ quarantined \in [Pairs -> BOOLEAN]
  /\ op \in [Pairs -> [kind : {"none", "buy", "sell", "recovery"},
                       pc : {"done", "count", "risk", "amount", "exec", "claimed"},
                       ses : SessionRecord]]
  /\ loaded \in [Pairs -> {<<>>} \cup [{1} -> SessionRecord]]
  /\ up \in BOOLEAN

Sales(p) == {i \in DOMAIN trades[p] : trades[p][i].side = "SELL"}
Purchases(p) == DOMAIN trades[p] \ Sales(p)
Simulation(p, i) == trades[p][i].status = "SIMULATED"
Moving(p, i) == chain[p][i]["main"] \in {"pending", "success"} \/ Simulation(p, i)
Succeeded(p, trade) == {i \in trade : chain[p][i]["main"] = "success" \/ Simulation(p, i)}

\* The tokens of a position are sold by one transaction at a time, and by none
\* once one has succeeded: neither the engine nor recovery sells twice.
NoDoubleSale ==
  \A p \in Pairs : \A i, j \in Sales(p) : Moving(p, i) /\ Moving(p, j) => i = j

\* A token is bought by one transaction, or by one simulation, however often its
\* purchase is resumed.
NoDoubleBuy ==
  \A p \in Pairs : \A i, j \in Purchases(p) : Moving(p, i) /\ Moving(p, j) => i = j

\* No session is forgotten: while a trade waits to be mined, an operation
\* holds its session, a pass of recovery will look at it, or the quarantine
\* has given it to the operator.
NothingForgotten ==
  \A p \in Pairs : (\E i \in DOMAIN chain[p] : chain[p][i]["main"] = "pending") =>
    op[p].kind # "none" \/ Claimable(p) \/ quarantined[p] \/ ~up

\* No trade is made twice, and none is left alone.
TradesFollowed == NoDoubleSale /\ NothingForgotten

\* The reference of a session names a transaction of the database: recovery
\* never finds it missing.
RefRecorded ==
  \A p \in Pairs : HasRef(db[p]) =>
    /\ db[p].ref.trade \in DOMAIN trades[p]
    /\ trades[p][db[p].ref.trade].tx[db[p].ref.step] # "NONE"

\* A row that recovery has left leased can be claimed again: a lease never
\* locks the engine out of a session for good.
LeaseReturns ==
  \A p \in Pairs : leased[p] /\ up => op[p].kind = "recovery" \/ Claimable(p)

\* The row never says more of a position than the chain, or the simulation, has done,
\* and its status agrees with its entry and exit.
BookMatchesChain ==
  \A p \in Pairs :
    /\ db[p].entry => Succeeded(p, Purchases(p)) # {}
    /\ db[p].exit => Succeeded(p, Sales(p)) # {} /\ db[p].entry
    /\ db[p].status \in {"HOLDING", "SELL_PENDING"} => Open(db[p])
    /\ db[p].status = "CLOSED" => db[p].exit

\* The rows are typed, their references are recorded and they say what the chain says.
BookSound == TypeOK /\ RefRecorded /\ BookMatchesChain

\* What the row has recorded of a position stays, through crashes and fresh
\* starts, recovery and retries.
BookPermanent ==
  [][\A p \in Pairs : (db[p].entry => db'[p].entry) /\ (db[p].exit => db'[p].exit)]_allVars

\* An open position is never in a terminal session, where nothing and nobody
\* could sell it any more.
PositionKept == \A p \in Pairs : Open(db[p]) => db[p].status \notin Terminal

\* A quarantined session never again reaches a status from which the bot buys
\* or sells by itself.
QuarantineHolds ==
  \A p \in Pairs : quarantined[p] =>
    /\ db[p].status \in {"MANUAL_REVIEW", "SELL_PENDING", "CLOSED"}
    /\ op[p].kind \in {"none", "sell"}

\* No more than MaxPositions pairs hold tokens or have sent for some.
CapacityRespected ==
  Cardinality({p \in Pairs : (\E i \in Purchases(p) : Moving(p, i)) /\ Succeeded(p, Sales(p)) = {}})
    <= MaxPositions

\* The lifecycle keeps the contract of a position.
Contract == INSTANCE PositionContract WITH
  buys <- [p \in Pairs |-> Cardinality(Succeeded(p, Purchases(p)))],
  sales <- [p \in Pairs |-> Cardinality(Succeeded(p, Sales(p)))],
  entry <- [p \in Pairs |-> db[p].entry],
  exit <- [p \in Pairs |-> db[p].exit]
KeepsContract == Contract!ContractSpec

\* A session left in the middle of an operation is brought out of it.
InFlightSettles ==
  \A p \in Pairs : db[p].status \in InFlight ~> db[p].status \notin InFlight

\* A session under review whose transaction was sent is settled, or its
\* operator has started to sell it, or its transaction is known to have
\* succeeded and only the amounts are missing, which is left to the operator.
ReviewSettles ==
  \A p \in Pairs :
    LET ref == db[p].ref IN
      HasRef(db[p]) /\ chain[p][ref.trade][ref.step] # "unsent"
        ~> ~HasRef(db[p]) \/ op[p].kind = "sell" \/ trades[p][ref.trade].tx[ref.step] = "CONFIRMED"
==============================================================================
