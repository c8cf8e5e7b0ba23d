---------------------------- MODULE TradeExecutor ----------------------------
(****************************************************************************)
(* TradeExecutor.buy and sell (trade-executor.ts): a trade is created,      *)
(* quoted, and in live mode carried to the chain by one transaction, "main",*)
(* which for a sale may be preceded by an "approve".  Every transaction is  *)
(* saved before it is sent; the answer of the node, the receipt and the     *)
(* measured balances are saved one after the other, and each save, each     *)
(* call to the node and the process itself may fail in between.             *)
(*                                                                          *)
(* trades is the database, chain the truth it tries to follow, exec the     *)
(* execution each pair has in memory.  Amounts, hashes, gas and wallets are *)
(* abstracted: what they decide (an allowance too low, an empty balance, a  *)
(* measure that makes no sense) is a free choice.                           *)
(****************************************************************************)
EXTENDS Integers, Sequences

CONSTANTS
  Pairs,
  Modes,         \* execution modes the process is, or was, started in
  StoreFaults,   \* may a write of the database fail?
  MaxTrades      \* bound: trades of a pair

ASSUME ExecutorAssumption ==
  /\ Modes \subseteq {"live", "dry-run"}
  /\ StoreFaults \in BOOLEAN
  /\ MaxTrades \in Nat

VARIABLES
  trades,   \* tables trades and trade_transactions, oldest first
  chain,    \* what became of each transaction
  exec      \* call of buy or sell in progress for each pair

execVars == <<trades, chain, exec>>

Steps == {"approve", "main"}
Sides == {"BUY", "SELL"}
TradeStatus == {"CREATED", "SUBMITTED", "CONFIRMED", "REVERTED", "UNKNOWN", "FAILED", "SIMULATED"}
TxStatus == {"NONE", "PENDING_BROADCAST", "BROADCASTED", "CONFIRMED", "REVERTED", "UNKNOWN", "REJECTED"}
ChainStatus == {"unsent", "pending", "success", "reverted"}
Outcomes == {"ok", "plain", "unknown", "measure", "unsafe"}
ExecPc == {"none", "queued", "quote", "send", "sent", "wait", "mined", "done"}

NewTrade(side, mode) == [side |-> side, mode |-> mode, status |-> "CREATED", tx |-> [s \in Steps |-> "NONE"]]
Unsent == [s \in Steps |-> "unsent"]
Idle == [pc |-> "none", side |-> "BUY", trade |-> 0, step |-> "main", outcome |-> "ok"]

ExecInit ==
  /\ trades = [p \in Pairs |-> <<>>]
  /\ chain = [p \in Pairs |-> <<>>]
  /\ exec = [p \in Pairs |-> Idle]

Mode(p) == trades[p][exec[p].trade].mode
OnChain(p) == chain[p][exec[p].trade][exec[p].step]

\* The operation the transaction queue is running, if any.
Executing(p) == exec[p].pc \notin {"none", "queued", "done"}

------------------------------------------------------------------------------
(* Writes.                                                                  *)

Save(p, status) == trades' = [trades EXCEPT ![p][exec[p].trade].status = status]

SaveLifecycle(p, status, tx) ==
  trades' = [trades EXCEPT ![p][exec[p].trade].status = status,
                           ![p][exec[p].trade].tx[exec[p].step] = tx]

\* A write whose failure is swallowed, or reported like the error it reports.
NotSaved == StoreFaults /\ UNCHANGED trades

Goto(p, pc) == exec' = [exec EXCEPT ![p].pc = pc]
Finish(p, outcome) == exec' = [exec EXCEPT ![p].pc = "done", ![p].outcome = outcome]

------------------------------------------------------------------------------
(* The caller.                                                              *)

\* buy or sell is called and waits in the transaction queue; a recovered
\* trade is named by its position, a new one by 0.
Call(p, side, trade) ==
  /\ exec[p].pc = "none"
  /\ trade # 0 \/ Len(trades[p]) < MaxTrades
  /\ exec' = [exec EXCEPT ![p] = [Idle EXCEPT !.pc = "queued", !.side = side, !.trade = trade]]

Return(p) == exec' = [exec EXCEPT ![p] = Idle]

------------------------------------------------------------------------------
(* The executor.                                                            *)

\* Faulty variant: the saved trade is not kept for the steps that follow.
StartForgetting(p) ==
  /\ exec[p].pc = "queued"
  /\ \A q \in Pairs : ~Executing(q)
  /\ \E mode \in Modes : trades' = [trades EXCEPT ![p] = Append(@, NewTrade(exec[p].side, mode))]
  /\ chain' = [chain EXCEPT ![p] = Append(@, Unsent)]
  /\ Goto(p, "quote")

\* The queue gives its turn to p and the trade is saved.  A new trade is of
\* the mode the process runs in.
Start(p) ==
  /\ exec[p].pc = "queued"
  /\ \A q \in Pairs : ~Executing(q)
  /\ LET new == exec[p].trade = 0
         t == IF new THEN Len(trades[p]) + 1 ELSE exec[p].trade
     IN /\ exec' = [exec EXCEPT ![p].pc = "quote", ![p].trade = t]
        /\ IF new THEN /\ \E mode \in Modes :
                            trades' = [trades EXCEPT ![p] = Append(@, NewTrade(exec[p].side, mode))]
                       /\ chain' = [chain EXCEPT ![p] = Append(@, Unsent)]
                  ELSE /\ trades' = [trades EXCEPT ![p][t].status = "CREATED"]
                       /\ UNCHANGED chain

\* There is no token to sell, the recovered trade is of the other mode, or the
\* trade cannot be saved.
NotStarted(p) ==
  /\ exec[p].pc = "queued"
  /\ \A q \in Pairs : ~Executing(q)
  /\ exec[p].side = "SELL" \/ StoreFaults
  /\ Finish(p, "plain")
  /\ UNCHANGED <<trades, chain>>

\* A recovered sale was prepared by another wallet: ExecutionRecoverySafetyError.
WrongWallet(p) ==
  /\ exec[p].pc = "queued" /\ exec[p].trade # 0 /\ Mode(p) = "live"
  /\ \A q \in Pairs : ~Executing(q)
  /\ \/ Save(p, "FAILED") /\ Finish(p, "unsafe")
     \/ StoreFaults /\ Save(p, "CREATED") /\ Finish(p, "plain")
  /\ UNCHANGED chain

\* failTrade: quote, wallet, balance, allowance or preparation failed.
Abandon(p) ==
  /\ exec[p].pc = "quote"
  /\ Save(p, "FAILED") \/ NotSaved
  /\ Finish(p, "plain")
  /\ UNCHANGED chain

Simulate(p) ==
  /\ exec[p].pc = "quote" /\ Mode(p) = "dry-run"
  /\ \/ Save(p, "SIMULATED") /\ Finish(p, "ok")
     \/ NotSaved /\ Finish(p, "plain")
  /\ UNCHANGED chain

\* Faulty variant: the transaction is saved by the write that follows the send.
PrepareUnsaved(p) ==
  /\ exec[p].pc = "quote" /\ Mode(p) = "live"
  /\ \E step \in Steps :
       /\ step = "approve" => exec[p].side = "SELL" /\ trades[p][exec[p].trade].tx["approve"] = "NONE"
       /\ exec' = [exec EXCEPT ![p].pc = "send", ![p].step = step]
  /\ UNCHANGED <<trades, chain>>

\* submit saves the signed transaction before anything is sent.  A sale whose
\* allowance is too low is approved first, unless it was recovered after its
\* approval.
Prepare(p) ==
  /\ exec[p].pc = "quote" /\ Mode(p) = "live"
  /\ \E step \in Steps :
       /\ step = "approve" => exec[p].side = "SELL" /\ trades[p][exec[p].trade].tx["approve"] = "NONE"
       /\ \/ /\ trades' = [trades EXCEPT ![p][exec[p].trade].status = "CREATED",
                                         ![p][exec[p].trade].tx[step] = "PENDING_BROADCAST"]
             /\ exec' = [exec EXCEPT ![p].pc = "send", ![p].step = step]
          \/ /\ NotSaved \/ (step = "approve" /\ StoreFaults /\ Save(p, "FAILED"))
             /\ Finish(p, "plain")
  /\ UNCHANGED chain

\* raiseUnknown: the caller learns that the outcome is unknown and of which
\* transaction, whether or not it could be saved.
RaiseUnknown(p) ==
  /\ SaveLifecycle(p, "UNKNOWN", "UNKNOWN") \/ NotSaved
  /\ Finish(p, "unknown")

SendAccepted(p) ==
  /\ exec[p].pc = "send"
  /\ chain' = [chain EXCEPT ![p][exec[p].trade][exec[p].step] = "pending"]
  /\ Goto(p, "sent")
  /\ UNCHANGED trades

\* TransactionBroadcastRejectedError: the node has refused the transaction.
\* After the refusal of an approval failTrade saves the trade once more.
SendRejected(p) ==
  /\ exec[p].pc = "send"
  /\ \/ SaveLifecycle(p, "FAILED", "REJECTED")
     \/ NotSaved
     \/ StoreFaults /\ exec[p].step = "approve" /\ Save(p, "FAILED")
  /\ Finish(p, "plain")
  /\ UNCHANGED chain

\* Faulty variant: every error of the send is taken for a refusal.
SendAmbiguousRejected(p) ==
  /\ exec[p].pc = "send"
  /\ \/ chain' = [chain EXCEPT ![p][exec[p].trade][exec[p].step] = "pending"]
     \/ UNCHANGED chain
  /\ SaveLifecycle(p, "FAILED", "REJECTED") \/ NotSaved
  /\ Finish(p, "plain")

\* Faulty variant: after an error the transaction is sent once more.
SendAmbiguousAgain(p) ==
  /\ exec[p].pc = "send"
  /\ chain' = [chain EXCEPT ![p][exec[p].trade][exec[p].step] = "pending"]
  /\ UNCHANGED <<trades, exec>>

\* Any other error: the node may or may not have taken the transaction.
SendAmbiguous(p) ==
  /\ exec[p].pc = "send"
  /\ \/ chain' = [chain EXCEPT ![p][exec[p].trade][exec[p].step] = "pending"]
     \/ UNCHANGED chain
  /\ RaiseUnknown(p)

RecordBroadcast(p) ==
  /\ exec[p].pc = "sent"
  /\ \/ SaveLifecycle(p, "SUBMITTED", "BROADCASTED") /\ Goto(p, "wait")
     \/ StoreFaults /\ RaiseUnknown(p)
  /\ UNCHANGED chain

ReceiptSuccess(p) ==
  /\ exec[p].pc = "wait"
  /\ OnChain(p) = "success"
  /\ \/ /\ SaveLifecycle(p, IF exec[p].step = "main" THEN "SUBMITTED" ELSE "CREATED", "CONFIRMED")
        /\ Goto(p, "mined")
     \/ StoreFaults /\ RaiseUnknown(p)
  /\ UNCHANGED chain

\* Faulty variant: the failed receipt is saved and the trade goes on.
ReceiptRevertedIgnored(p) ==
  /\ exec[p].pc = "wait"
  /\ OnChain(p) = "reverted"
  /\ SaveLifecycle(p, "REVERTED", "REVERTED")
  /\ Goto(p, "mined")
  /\ UNCHANGED chain

ReceiptReverted(p) ==
  /\ exec[p].pc = "wait"
  /\ OnChain(p) = "reverted"
  /\ \/ SaveLifecycle(p, "REVERTED", "REVERTED") /\ Finish(p, "plain")
     \/ StoreFaults /\ RaiseUnknown(p)
  /\ UNCHANGED chain

\* waitForReceipt fails, whatever has become of the transaction.
ReceiptTimeout(p) ==
  /\ exec[p].pc = "wait"
  /\ RaiseUnknown(p)
  /\ UNCHANGED chain

\* The balances are read: an approval lets the sale go on, the main
\* transaction completes the trade.
Measure(p) ==
  /\ exec[p].pc = "mined"
  /\ IF exec[p].step = "approve"
       THEN Save(p, "CREATED") /\ Goto(p, "quote")
       ELSE Save(p, "CONFIRMED") /\ Finish(p, "ok")
  /\ UNCHANGED chain

\* recordMeasurementFailure.
MeasureFailed(p) ==
  /\ exec[p].pc = "mined"
  /\ Save(p, IF exec[p].step = "approve" THEN "UNKNOWN" ELSE "CONFIRMED") \/ NotSaved
  /\ Finish(p, "measure")
  /\ UNCHANGED chain

ExecutorStep(p) ==
  \/ Start(p) \/ NotStarted(p) \/ WrongWallet(p) \/ Abandon(p) \/ Simulate(p) \/ Prepare(p)
  \/ SendAccepted(p) \/ SendRejected(p) \/ SendAmbiguous(p) \/ RecordBroadcast(p)
  \/ ReceiptSuccess(p) \/ ReceiptReverted(p) \/ ReceiptTimeout(p)
  \/ Measure(p) \/ MeasureFailed(p)

------------------------------------------------------------------------------
(* The chain, and the executor on its own with any caller.                  *)

Mine(p) ==
  /\ \E i \in DOMAIN chain[p], s \in Steps, result \in {"success", "reverted"} :
       /\ chain[p][i][s] = "pending"
       /\ chain' = [chain EXCEPT ![p][i][s] = result]
  /\ UNCHANGED <<trades, exec>>

\* A trade RecoveryIntentService.resumeSell may hand back: its approval is
\* confirmed and no other transaction of it exists.
Recoverable(p, i) ==
  /\ trades[p][i].side = "SELL"
  /\ trades[p][i].tx["approve"] = "CONFIRMED"
  /\ trades[p][i].tx["main"] = "NONE"

AnyCall(p) ==
  /\ \/ \E side \in Sides : Call(p, side, 0)
     \/ \E i \in DOMAIN trades[p] : Recoverable(p, i) /\ Call(p, "SELL", i)
  /\ UNCHANGED <<trades, chain>>

AnyReturn(p) ==
  /\ exec[p].pc = "done"
  /\ Return(p)
  /\ UNCHANGED <<trades, chain>>

\* The process dies; the database and the chain stay.
ExecutorCrash ==
  /\ exec' = [p \in Pairs |-> Idle]
  /\ UNCHANGED <<trades, chain>>

ExecNext ==
  \/ \E p \in Pairs : AnyCall(p) \/ ExecutorStep(p) \/ AnyReturn(p) \/ Mine(p)
  \/ ExecutorCrash

ExecSpec == ExecInit /\ [][ExecNext]_execVars

------------------------------------------------------------------------------
(* Properties.                                                              *)

TradeRecord == [side : Sides, mode : Modes, status : TradeStatus, tx : [Steps -> TxStatus]]
ExecRecord == [pc : ExecPc, side : Sides, trade : Nat, step : Steps, outcome : Outcomes]

\* Types, and an execution under way works on a trade of the database.
ExecTypeOK ==
  /\ trades \in [Pairs -> Seq(TradeRecord)]
  /\ chain \in [Pairs -> Seq([Steps -> ChainStatus])]
  /\ exec \in [Pairs -> ExecRecord]
  /\ \A p \in Pairs : Len(chain[p]) = Len(trades[p])
  /\ \A p \in Pairs : exec[p].trade <= Len(trades[p])
  /\ \A p \in Pairs : Executing(p) => exec[p].trade # 0

\* A transaction of which the chain knows is in the database: it was saved
\* before it was sent, whatever fails afterwards.
BroadcastRecorded ==
  \A p \in Pairs : \A i \in DOMAIN trades[p], s \in Steps :
    chain[p][i][s] # "unsent" => trades[p][i].tx[s] # "NONE"

\* What the database calls confirmed, reverted or refused is so on the chain:
\* an error of the node is never turned into a failure on the chain.
RecordsTruthful ==
  \A p \in Pairs : \A i \in DOMAIN trades[p], s \in Steps :
    /\ trades[p][i].tx[s] = "CONFIRMED" => chain[p][i][s] = "success"
    /\ trades[p][i].tx[s] = "REVERTED" => chain[p][i][s] = "reverted"
    /\ trades[p][i].tx[s] = "REJECTED" => chain[p][i][s] = "unsent"

\* A trade called FAILED has moved no token and has nothing that still could.
FailedIsFinal ==
  \A p \in Pairs : \A i \in DOMAIN trades[p] :
    trades[p][i].status = "FAILED" =>
      /\ chain[p][i]["main"] = "unsent"
      /\ chain[p][i]["approve"] \in {"unsent", "success"}

\* The main transaction of a sale is sent only once its approval, if it has
\* one, is known to have succeeded.
ApprovedFirst ==
  \A p \in Pairs : \A i \in DOMAIN trades[p] :
    chain[p][i]["main"] # "unsent" => chain[p][i]["approve"] \in {"unsent", "success"}

\* The saved trades are typed and say of the chain only what is so, and what they call
\* failed or approved stays that.
RecordsSound == ExecTypeOK /\ RecordsTruthful /\ FailedIsFinal /\ ApprovedFirst

\* A transaction is sent at most once: what the chain has decided, and what
\* has been refused or given up, is never sent again.
SentOnce ==
  [][\A p \in Pairs : \A i \in DOMAIN trades[p], s \in Steps :
       chain'[p][i][s] = "pending" /\ chain[p][i][s] # "pending" =>
         chain[p][i][s] = "unsent" /\ trades[p][i].tx[s] = "PENDING_BROADCAST"]_execVars
==============================================================================
