------------------------ MODULE SessionLifecycleProofs ------------------------
(****************************************************************************)
(* What SessionLifecycle keeps whatever fails and whenever the process dies.*)
(* LifeInv strengthens the properties with what the operation in memory,    *)
(* the execution it has started, the row and the copy of the exit monitor   *)
(* know of one another.  Its parts are stated of the values a pair has: ts  *)
(* its trades, cs its transactions on the chain, e its execution, d its     *)
(* row, l its lease, k its quarantine, o its operation, m the copy of the   *)
(* exit monitor.                                                            *)
(*                                                                          *)
(* And what it keeps when some of its faults are excluded, and which:       *)
(* positions stay sellable and within their number as long as the database  *)
(* takes every write; sales are made once, nothing is forgotten and the     *)
(* contract of a position is kept as long as, moreover, the process stays   *)
(* up and the exit monitor saves no stale session.                          *)
(****************************************************************************)
EXTENDS SessionLifecycle, TradeExecutorProofs, WellFoundedInduction, NaturalsInduction, FiniteSetTheorems

\* What holds of a trade from its creation on.
Regular(trade) ==
  /\ trade.side = "BUY" => trade.tx["approve"] = "NONE"
  /\ trade.mode = "dry-run" => trade.tx["approve"] = "NONE" /\ trade.tx["main"] = "NONE"
  /\ trade.status = "SIMULATED" => trade.mode = "dry-run"

\* The trade has moved tokens.
Done(trade, sent) == sent["main"] = "success" \/ trade.status = "SIMULATED"

\* What the steps of an execution, and its answer, say of its trade.
Answered(e, trade, sent) ==
  /\ e.side = trade.side
  /\ e.pc # "done" => trade.status # "SIMULATED"
  /\ e.pc \in {"send", "sent", "wait", "mined"} =>
       trade.mode = "live" /\ trade.tx[e.step] # "NONE" /\ (e.step = "approve" => trade.side = "SELL")
  /\ e.pc = "done" /\ e.outcome = "ok" => Done(trade, sent)
  /\ e.pc = "done" /\ e.outcome \in {"unknown", "measure"} =>
       trade.tx[e.step] # "NONE" /\ (e.step = "approve" => trade.tx["main"] = "NONE")
  /\ e.pc = "done" /\ e.outcome \in {"plain", "unsafe"} =>
       sent["main"] \in {"unsent", "reverted"} /\ trade.status # "SIMULATED"

\* The trades of a pair and its execution.
Working(ts, cs, e) ==
  /\ \A i \in DOMAIN ts : Regular(ts[i])
  /\ e.trade # 0 => Answered(e, ts[e.trade], cs[e.trade])
  /\ e.pc = "none" => e.trade = 0
  /\ e.trade = 0 /\ e.pc = "done" => e.outcome = "plain"

Side(ts, side) == {i \in DOMAIN ts : ts[i].side = side}

\* What holds of the session s wherever it is held: in its row, by an
\* operation, or by the exit monitor.
Credible(ts, cs, s) ==
  /\ s.entry => \E i \in Side(ts, "BUY") : Done(ts[i], cs[i])
  /\ s.exit => s.entry /\ \E i \in Side(ts, "SELL") : Done(ts[i], cs[i])
  /\ s.status \in {"HOLDING", "SELL_PENDING"} => Open(s)
  /\ s.status = "CLOSED" => s.exit
  /\ s.status \in {Waiting, "RISK_CHECKING", "BUY_PENDING"} => ~s.entry
  /\ s.status \in {Waiting, "RISK_CHECKING", "BUY_PENDING", "HOLDING"} => ~HasRef(s)

\* What holds of the trade and of the transaction its reference names, while
\* an execution works on trade t.
Referred(ts, cs, t, s) ==
  HasRef(s) =>
    LET i == s.ref.trade IN
    /\ i \in DOMAIN ts /\ i # t
    /\ ts[i].tx[s.ref.step] # "NONE"
    /\ s.ref.step = "approve" => ts[i].tx["main"] = "NONE"
    /\ ts[i].side = "SELL" =>
         s.entry /\ (s.exit => s.ref.step = "main" /\ cs[i]["main"] = "success")
    /\ ts[i].side = "BUY" =>
         /\ ~s.exit /\ (s.entry => cs[i]["main"] = "success")
         /\ \A j \in Side(ts, "BUY") : j <= i

\* The operation of a pair, the execution it waits for and the row.
Operating(ts, cs, e, d, l, k, o) ==
  /\ o.kind = "none" => o.pc = "done"
  /\ o.kind = "buy" =>
       /\ o.pc \in {"count", "risk", "amount", "exec"}
       /\ o.ses = d /\ ~k /\ ~l
       /\ d.status = IF o.pc \in {"count", "risk"} THEN "RISK_CHECKING" ELSE "BUY_PENDING"
       /\ o.pc # "exec" => ts = <<>>
       /\ o.pc = "exec" => e.side = "BUY"
  /\ o.kind = "sell" =>
       /\ o.pc = "exec" /\ e.side = "SELL" /\ ~l
       /\ o.ses.status = "SELL_PENDING"
       /\ d.status \in {"HOLDING", "SELL_PENDING"}
  /\ o.kind = "recovery" =>
       /\ o.pc \in {"claimed", "exec"} /\ l
       /\ o.pc = "claimed" => o.ses = d
       /\ o.pc = "exec" /\ e.side = "BUY" =>
            o.ses = With(d, "BUY_PENDING") /\ d.status \in {"RISK_CHECKING", "BUY_PENDING"}
       /\ o.pc = "exec" /\ e.side = "SELL" =>
            o.ses = d /\ d.status = "SELL_PENDING" /\ ~HasRef(d)
  /\ o.pc = "exec" <=> e.pc # "none"
  /\ o.kind # "none" => Credible(ts, cs, o.ses) /\ Referred(ts, cs, e.trade, o.ses)

\* The copy the exit monitor holds.
Copied(ts, cs, d, k, m) ==
  m # <<>> =>
    /\ ExitMonitor /\ ~k /\ d.entry
    /\ m[1].status = "HOLDING" /\ Credible(ts, cs, m[1])

\* The condition of claimNext.
ClaimsRow(d, k) == ~k /\ (d.status \in InFlight \/ (d.status = "MANUAL_REVIEW" /\ HasRef(d)))

\* The row.
Stored(ts, cs, e, d, l, k, o) ==
  /\ Credible(ts, cs, d) /\ Referred(ts, cs, e.trade, d)
  /\ l => ClaimsRow(d, k)
  /\ k => d.status \in {"MANUAL_REVIEW", "SELL_PENDING", "CLOSED"} /\ o.kind \in {"none", "sell"}
  /\ d.status = Waiting => ts = <<>> /\ o.kind = "none"
  /\ Side(ts, "SELL") # {} \/ (e.pc # "none" /\ e.side = "SELL") => d.entry

\* Nothing was bought by the trade.
Dead(trade, sent) == sent["main"] = "unsent" /\ trade.status # "SIMULATED"

\* Of the purchases of a pair, only the last may have bought.
Buying(ts, cs, e) ==
  /\ \A i, j \in Side(ts, "BUY") : i < j => Dead(ts[i], cs[i])
  /\ e.pc # "none" /\ e.side = "BUY" =>
       IF e.trade = 0 THEN \A i \in Side(ts, "BUY") : Dead(ts[i], cs[i])
                      ELSE \A i \in Side(ts, "BUY") : i <= e.trade

Life(ts, cs, e, d, l, k, o, m) ==
  /\ Working(ts, cs, e)
  /\ Operating(ts, cs, e, d, l, k, o)
  /\ Copied(ts, cs, d, k, m)
  /\ Stored(ts, cs, e, d, l, k, o)
  /\ Buying(ts, cs, e)

\* The operations of other pairs, and the monitor, while a recovery runs; and
\* nothing is in memory while the process is down.
Apart ==
  /\ \A p \in Pairs : op[p].kind = "recovery" =>
       /\ \A q \in Pairs : q # p => op[q].kind = "none"
       /\ \A q \in Pairs : loaded[q] = <<>>
  /\ \A p \in Pairs : op[p].kind # "none" \/ loaded[p] # <<>> => up

\* The inductive invariant.
LifeInv ==
  /\ TypeOK /\ ExecInv /\ Apart
  /\ \A p \in Pairs :
       Life(trades[p], chain[p], exec[p], db[p], leased[p], quarantined[p], op[p], loaded[p])

------------------------------------------------------------------------------
(* What a step of the executor makes of the trade it works on.              *)

\* A step takes the execution e of a trade from its row and its transactions
\* to others.
Moved(e, trade, sent, e2, trade2, sent2) ==
  /\ e2.side = e.side /\ e2.trade = e.trade
  /\ trade2.side = trade.side /\ trade2.mode = trade.mode
  /\ e2.pc \notin {"none", "queued"}
  /\ \A s \in Steps : trade.tx[s] # "NONE" => trade2.tx[s] # "NONE"
  /\ \A s \in Steps : sent2[s] = sent[s] \/ (e.step = s /\ sent[s] = "unsent" /\ sent2[s] = "pending")
  /\ Regular(trade2) /\ Answered(e2, trade2, sent2)

\* Nothing but trade t of p, its transactions and its execution differs.
Touched(p, t) ==
  /\ \A q \in Pairs : q # p => trades'[q] = trades[q] /\ chain'[q] = chain[q] /\ exec'[q] = exec[q]
  /\ DOMAIN trades'[p] = DOMAIN trades[p] /\ DOMAIN chain'[p] = DOMAIN chain[p]
  /\ \A i \in DOMAIN trades[p] : i # t => trades'[p][i] = trades[p][i] /\ chain'[p][i] = chain[p][i]

\* The three things a step of the executor may do: work on its trade, create
\* one, or give up before it has one.
Works(p) ==
  LET t == exec[p].trade IN
  /\ t # 0
  /\ Touched(p, t)
  /\ Moved(exec[p], trades[p][t], chain[p][t], exec'[p], trades'[p][t], chain'[p][t])

Creates(p) ==
  /\ exec[p].trade = 0 /\ exec[p].pc = "queued"
  /\ \A q \in Pairs : q # p => trades'[q] = trades[q] /\ chain'[q] = chain[q] /\ exec'[q] = exec[q]
  /\ \E mode \in Modes : trades'[p] = Append(trades[p], NewTrade(exec[p].side, mode))
  /\ chain'[p] = Append(chain[p], Unsent)
  /\ exec'[p] = [exec[p] EXCEPT !.pc = "quote", !.trade = Len(trades[p]) + 1]

GivesUp(p) ==
  /\ exec[p].trade = 0
  /\ trades' = trades /\ chain' = chain
  /\ exec' = [exec EXCEPT ![p].pc = "done", ![p].outcome = "plain"]

\* The trade an execution works on and what is known of it.
Busy(p) ==
  /\ ExecInv
  /\ Working(trades[p], chain[p], exec[p])
  /\ exec[p].trade # 0 /\ exec[p].pc \notin {"none", "done"}

\* One trade and one execution are written.
LEMMA TouchedByWrite ==
  ASSUME ExecInv, NEW p \in Pairs, NEW t \in DOMAIN trades[p],
         NEW trade \in TradeRecord, NEW sent \in [Steps -> ChainStatus], NEW e \in ExecRecord,
         trades' = [trades EXCEPT ![p] = [trades[p] EXCEPT ![t] = trade]],
         chain' = [chain EXCEPT ![p] = [chain[p] EXCEPT ![t] = sent]],
         exec' = [exec EXCEPT ![p] = e]
  PROVE  Touched(p, t)
<1>1. /\ trades \in [Pairs -> Seq(TradeRecord)] /\ chain \in [Pairs -> Seq([Steps -> ChainStatus])]
      /\ exec \in [Pairs -> ExecRecord]
      /\ trades[p] \in Seq(TradeRecord) /\ chain[p] \in Seq([Steps -> ChainStatus])
      /\ Len(chain[p]) = Len(trades[p])
  BY DEF ExecInv, ExecTypeOK
<1>2. DOMAIN trades[p] = DOMAIN chain[p]
  BY <1>1, LenProperties
<1>5. /\ \A q \in Pairs : DOMAIN trades'[q] = DOMAIN trades[q]
      /\ \A q \in Pairs : q # p => trades'[q] = trades[q]
      /\ \A j \in DOMAIN trades[p] : trades'[p][j] = IF j = t THEN trade ELSE trades[p][j]
  BY <1>1, UpdateOne
<1>6. /\ \A q \in Pairs : DOMAIN chain'[q] = DOMAIN chain[q]
      /\ \A q \in Pairs : q # p => chain'[q] = chain[q]
      /\ \A j \in DOMAIN chain[p] : chain'[p][j] = IF j = t THEN sent ELSE chain[p][j]
  BY <1>1, <1>2, UpdateOne
<1>7. exec'[p] = e /\ \A q \in Pairs : q # p => exec'[q] = exec[q]
  BY <1>1
<1> QED
  BY <1>2, <1>5, <1>6, <1>7 DEF Touched

\* TouchedByWrite for the trade at work.
LEMMA WorksByWrite ==
  ASSUME NEW p \in Pairs, Busy(p),
         NEW trade \in TradeRecord, NEW sent \in [Steps -> ChainStatus], NEW e \in ExecRecord,
         \/ trades' = [trades EXCEPT ![p] = [trades[p] EXCEPT ![exec[p].trade] = trade]]
         \/ trades' = trades /\ trade = trades[p][exec[p].trade],
         \/ chain' = [chain EXCEPT ![p] = [chain[p] EXCEPT ![exec[p].trade] = sent]]
         \/ chain' = chain /\ sent = chain[p][exec[p].trade],
         exec' = [exec EXCEPT ![p] = e],
         Moved(exec[p], trades[p][exec[p].trade], chain[p][exec[p].trade], e, trade, sent)
  PROVE  Works(p)
<1>1. ExecInv /\ exec[p].trade # 0
  BY DEF Busy
<1>2. exec[p].trade \in DOMAIN trades[p]
  BY <1>1, AtWork
<1>3. trades \in [Pairs -> Seq(TradeRecord)] /\ chain \in [Pairs -> Seq([Steps -> ChainStatus])]
  BY <1>1 DEF ExecInv, ExecTypeOK
<1>4. PICK t \in DOMAIN trades[p] : t = exec[p].trade
  BY <1>2
<1>5. trades' = [trades EXCEPT ![p] = [trades[p] EXCEPT ![t] = trade]]
  BY <1>3, <1>4, UpdateSame
<1>6. chain' = [chain EXCEPT ![p] = [chain[p] EXCEPT ![t] = sent]]
  BY <1>3, <1>4, UpdateSame
<1>7. Touched(p, t)
  BY <1>1, <1>5, <1>6, TouchedByWrite
<1>8. exec'[p] = e /\ t \in DOMAIN chain[p]
  BY <1>1, LenProperties DEF ExecInv, ExecTypeOK
<1>9. trades'[p][t] = trade /\ chain'[p][t] = sent
  BY <1>3, <1>5, <1>6, <1>8
<1> QED
  BY <1>1, <1>4, <1>7, <1>8, <1>9 DEF Works, Touched

\* What is known of the trade at work, in one place.
LEMMA AtBusy ==
  ASSUME NEW p \in Pairs, Busy(p)
  PROVE  LET t == exec[p].trade IN
         /\ trades[p][t] \in TradeRecord /\ chain[p][t] \in [Steps -> ChainStatus] /\ exec[p] \in ExecRecord
         /\ Sound(trades[p][t], chain[p][t]) /\ Known(exec[p], trades[p][t], chain[p][t])
         /\ Regular(trades[p][t]) /\ Answered(exec[p], trades[p][t], chain[p][t])
BY AtWork DEF Busy, Working

------------------------------------------------------------------------------
\* An execution ends, its trade left as it is or with another status.
LEMMA EndsStatusMoves ==
  ASSUME NEW p \in Pairs, Busy(p), NEW out \in Outcomes, Finish(p, out), chain' = chain,
         \/ trades' = trades
         \/ \E status \in TradeStatus \ {"SIMULATED"} : Save(p, status),
         out = "ok" => chain[p][exec[p].trade]["main"] = "success",
         out \in {"unknown", "measure"} =>
           /\ trades[p][exec[p].trade].tx[exec[p].step] # "NONE"
           /\ exec[p].step = "approve" => trades[p][exec[p].trade].tx["main"] = "NONE",
         out \in {"plain", "unsafe"} => chain[p][exec[p].trade]["main"] \in {"unsent", "reverted"}
  PROVE  Works(p)
<1> DEFINE e == [exec[p] EXCEPT !.pc = "done", !.outcome = out]
           old == trades[p][exec[p].trade]
           sent == chain[p][exec[p].trade]
<1>1. ExecInv /\ exec[p].trade # 0
  BY DEF Busy
<1>2. exec' = [exec EXCEPT ![p] = e]
  BY <1>1, Moves
<1>3. e \in ExecRecord /\ e.pc = "done" /\ e.outcome = out /\ e.side = exec[p].side
      /\ e.trade = exec[p].trade /\ e.step = exec[p].step
  BY AtBusy DEF ExecRecord, ExecPc
<1>4. PICK trade \in TradeRecord :
        /\ \/ trades' = [trades EXCEPT ![p] = [trades[p] EXCEPT ![exec[p].trade] = trade]]
           \/ trades' = trades /\ trade = old
        /\ trade.status # "SIMULATED" /\ trade.tx = old.tx /\ trade.side = old.side /\ trade.mode = old.mode
  <2>1. CASE trades' = trades
    BY <2>1, AtBusy DEF Busy, Answered
  <2>2. CASE \E status \in TradeStatus \ {"SIMULATED"} : Save(p, status)
    BY <1>1, <2>2, SaveWrites
  <2> QED
    BY <2>1, <2>2
<1> HIDE DEF e
<1>5. Moved(exec[p], old, sent, e, trade, sent)
  BY <1>3, <1>4, AtBusy DEF Moved, Regular, Answered, Done
<1> QED
  BY <1>2, <1>3, <1>4, <1>5, AtBusy, WorksByWrite

\* A transaction at work is written with its trade, and the execution goes on
\* or ends.
LEMMA LifecycleMoves ==
  ASSUME NEW p \in Pairs, Busy(p), exec[p].pc \in {"send", "sent", "wait"},
         NEW status \in TradeStatus \ {"SIMULATED"}, NEW tx \in TxStatus \ {"NONE"},
         SaveLifecycle(p, status, tx),
         NEW e \in ExecRecord, exec' = [exec EXCEPT ![p] = e],
         e.side = exec[p].side, e.trade = exec[p].trade, e.step = exec[p].step,
         e.pc \in {"wait", "mined", "done"},
         NEW sent \in [Steps -> ChainStatus],
         \/ chain' = [chain EXCEPT ![p] = [chain[p] EXCEPT ![exec[p].trade] = sent]]
         \/ chain' = chain /\ sent = chain[p][exec[p].trade],
         \A s \in Steps : \/ sent[s] = chain[p][exec[p].trade][s]
                          \/ exec[p].step = s /\ chain[p][exec[p].trade][s] = "unsent" /\ sent[s] = "pending",
         e.pc = "done" => e.outcome \in {"plain", "unknown"},
         e.pc = "done" /\ e.outcome = "plain" => sent["main"] \in {"unsent", "reverted"}
  PROVE  Works(p)
<1> DEFINE old == trades[p][exec[p].trade]
<1>1. ExecInv /\ exec[p].trade # 0
  BY DEF Busy
<1>2. PICK trade \in TradeRecord :
        /\ trades' = [trades EXCEPT ![p] = [trades[p] EXCEPT ![exec[p].trade] = trade]]
        /\ trade.status = status
        /\ \A s \in Steps : trade.tx[s] = IF s = exec[p].step THEN tx ELSE old.tx[s]
        /\ trade.side = old.side /\ trade.mode = old.mode
  BY <1>1, LifecycleWrites
<1>3. exec[p].step \in Steps /\ e.step \in Steps
  BY AtBusy DEF ExecRecord
<1>4. old.mode = "live" /\ (exec[p].step = "approve" => old.side = "SELL")
      /\ (exec[p].step = "approve" => old.tx["main"] = "NONE")
  BY AtBusy DEF Answered, Known
<1>5. Regular(trade)
  BY <1>2, <1>3, <1>4, AtBusy DEF Regular, Steps
<1>6. Answered(e, trade, sent)
  <2>1. trade.tx[e.step] # "NONE"
    BY <1>2, <1>3
  <2>2. e.step = "approve" => trade.tx["main"] = "NONE"
    BY <1>2, <1>4 DEF Steps
  <2> QED
    BY <1>2, <1>4, <2>1, <2>2, AtBusy DEF Answered
<1>7. Moved(exec[p], old, chain[p][exec[p].trade], e, trade, sent)
  BY <1>2, <1>5, <1>6 DEF Moved
<1> QED
  BY <1>2, <1>7, WorksByWrite

\* raiseUnknown ends an execution whose transaction was saved.
LEMMA RaiseMoves ==
  ASSUME NEW p \in Pairs, Busy(p), exec[p].pc \in {"send", "sent", "wait"}, RaiseUnknown(p),
         NEW sent \in [Steps -> ChainStatus],
         \/ chain' = [chain EXCEPT ![p] = [chain[p] EXCEPT ![exec[p].trade] = sent]]
         \/ chain' = chain /\ sent = chain[p][exec[p].trade],
         \A s \in Steps : \/ sent[s] = chain[p][exec[p].trade][s]
                          \/ exec[p].step = s /\ chain[p][exec[p].trade][s] = "unsent" /\ sent[s] = "pending"
  PROVE  Works(p)
<1> DEFINE e == [exec[p] EXCEPT !.pc = "done", !.outcome = "unknown"]
           old == trades[p][exec[p].trade]
<1>1. exec' = [exec EXCEPT ![p] = e]
  BY Moves DEF RaiseUnknown, Outcomes, Busy
<1>2. e \in ExecRecord /\ e.pc = "done" /\ e.outcome = "unknown" /\ e.side = exec[p].side
      /\ e.trade = exec[p].trade /\ e.step = exec[p].step
  <2>1. exec[p] \in ExecRecord
    BY AtBusy
  <2> QED
    BY <2>1 DEF ExecRecord, ExecPc, Outcomes
<1> HIDE DEF e
<1>3. CASE SaveLifecycle(p, "UNKNOWN", "UNKNOWN")
  <2>1. "UNKNOWN" \in TradeStatus \ {"SIMULATED"} /\ "UNKNOWN" \in TxStatus \ {"NONE"}
    BY DEF TradeStatus, TxStatus
  <2> QED
    BY <1>1, <1>2, <1>3, <2>1, LifecycleMoves
<1>4. CASE NotSaved
  <2>1. Answered(e, old, sent)
    BY <1>2, AtBusy DEF Answered, Known, Done
  <2>2. Moved(exec[p], old, chain[p][exec[p].trade], e, old, sent)
    BY <1>2, <2>1, AtBusy DEF Moved
  <2> QED
    BY <1>1, <1>2, <1>4, <2>2, AtBusy, WorksByWrite DEF NotSaved
<1> QED
  BY <1>3, <1>4 DEF RaiseUnknown

\* The steps before anything is prepared.
LEMMA StartDoes ==
  ASSUME NEW p \in Pairs, ExecInv, Working(trades[p], chain[p], exec[p]), Start(p)
  PROVE  Works(p) \/ Creates(p)
<1>1. CASE exec[p].trade # 0
  <2> DEFINE e == [exec[p] EXCEPT !.pc = "quote", !.trade = exec[p].trade]
             old == trades[p][exec[p].trade]
  <2>1. Busy(p)
    BY <1>1 DEF Busy, Start
  <2>2. exec' = [exec EXCEPT ![p] = e] /\ chain' = chain
    BY <1>1 DEF Start
  <2>3. e \in ExecRecord /\ e.pc = "quote" /\ e.trade = exec[p].trade /\ e.side = exec[p].side
    BY <2>1, AtBusy DEF ExecRecord, ExecPc
  <2>4. Save(p, "CREATED") /\ "CREATED" \in TradeStatus
    BY <1>1 DEF Start, Save, TradeStatus
  <2>5. PICK t \in TradeRecord :
          /\ trades' = [trades EXCEPT ![p] = [trades[p] EXCEPT ![exec[p].trade] = t]]
          /\ t.status = "CREATED" /\ t.tx = old.tx /\ t.side = old.side /\ t.mode = old.mode
    BY <1>1, <2>4, SaveWrites
  <2> HIDE DEF e
  <2>6. Moved(exec[p], old, chain[p][exec[p].trade], e, t, chain[p][exec[p].trade])
    BY <2>1, <2>3, <2>5, AtBusy DEF Moved, Regular, Answered
  <2> QED
    BY <2>1, <2>2, <2>3, <2>5, <2>6, AtBusy, WorksByWrite
<1>2. CASE exec[p].trade = 0
  <2>1. exec \in [Pairs -> ExecRecord] /\ trades \in [Pairs -> Seq(TradeRecord)]
        /\ chain \in [Pairs -> Seq([Steps -> ChainStatus])]
    BY DEF ExecInv, ExecTypeOK
  <2>2. PICK mode \in Modes :
          trades' = [trades EXCEPT ![p] = Append(trades[p], NewTrade(exec[p].side, mode))]
    BY <1>2 DEF Start
  <2>3. /\ chain' = [chain EXCEPT ![p] = Append(chain[p], Unsent)]
        /\ exec' = [exec EXCEPT ![p].pc = "quote", ![p].trade = Len(trades[p]) + 1]
        /\ exec[p].pc = "queued"
    BY <1>2 DEF Start
  <2>4. exec'[p] = [exec[p] EXCEPT !.pc = "quote", !.trade = Len(trades[p]) + 1]
        /\ \A q \in Pairs : q # p => exec'[q] = exec[q]
    BY <2>1, <2>3
  <2>5. trades'[p] = Append(trades[p], NewTrade(exec[p].side, mode))
        /\ chain'[p] = Append(chain[p], Unsent)
        /\ \A q \in Pairs : q # p => trades'[q] = trades[q] /\ chain'[q] = chain[q]
    BY <2>1, <2>2, <2>3
  <2> QED
    BY <1>2, <2>3, <2>4, <2>5 DEF Creates
<1> QED
  BY <1>1, <1>2

LEMMA NotStartedDoes ==
  ASSUME NEW p \in Pairs, ExecInv, Working(trades[p], chain[p], exec[p]), NotStarted(p)
  PROVE  Works(p) \/ GivesUp(p)
<1>1. CASE exec[p].trade = 0
  BY <1>1 DEF NotStarted, Finish, GivesUp
<1>2. CASE exec[p].trade # 0
  <2>1. Busy(p)
    BY <1>2 DEF Busy, NotStarted
  <2>2. chain[p][exec[p].trade]["main"] = "unsent"
    BY <2>1, AtBusy DEF NotStarted, Known, Sound, Steps
  <2> QED
    BY <2>1, <2>2, EndsStatusMoves DEF NotStarted, Outcomes
<1> QED
  BY <1>1, <1>2

LEMMA WrongWalletDoes == ASSUME NEW p \in Pairs, Busy(p), WrongWallet(p) PROVE Works(p)
<1>1. chain[p][exec[p].trade]["main"] = "unsent"
  BY AtBusy DEF WrongWallet, Known, Sound, Steps
<1> QED
  BY <1>1, EndsStatusMoves DEF WrongWallet, Outcomes, TradeStatus

LEMMA AbandonDoes == ASSUME NEW p \in Pairs, Busy(p), Abandon(p) PROVE Works(p)
<1>1. chain[p][exec[p].trade]["main"] = "unsent"
  BY AtQuote DEF Abandon, Busy
<1> QED
  BY <1>1, EndsStatusMoves DEF Abandon, NotSaved, Outcomes, TradeStatus

LEMMA SimulateDoes == ASSUME NEW p \in Pairs, Busy(p), Simulate(p) PROVE Works(p)
<1> DEFINE e == [exec[p] EXCEPT !.pc = "done", !.outcome = "ok"]
           old == trades[p][exec[p].trade]
<1>1. chain[p][exec[p].trade]["main"] = "unsent" /\ ExecInv /\ exec[p].trade # 0 /\ old.mode = "dry-run"
  BY AtQuote DEF Simulate, Busy, Mode
<1>2. CASE NotSaved /\ Finish(p, "plain")
  BY <1>1, <1>2, EndsStatusMoves DEF Simulate, NotSaved, Outcomes
<1>3. CASE Save(p, "SIMULATED") /\ Finish(p, "ok")
  <2>1. exec' = [exec EXCEPT ![p] = e]
    BY <1>1, <1>3, Moves DEF Outcomes
  <2>2. e \in ExecRecord /\ e.pc = "done" /\ e.outcome = "ok" /\ e.side = exec[p].side /\ e.trade = exec[p].trade
    BY AtBusy DEF ExecRecord, ExecPc, Outcomes
  <2>3. "SIMULATED" \in TradeStatus
    BY DEF TradeStatus
  <2>4. PICK t \in TradeRecord :
          /\ trades' = [trades EXCEPT ![p] = [trades[p] EXCEPT ![exec[p].trade] = t]]
          /\ t.status = "SIMULATED" /\ t.tx = old.tx /\ t.side = old.side /\ t.mode = old.mode
    BY <1>1, <1>3, <2>3, SaveWrites
  <2> HIDE DEF e
  <2>5. Moved(exec[p], old, chain[p][exec[p].trade], e, t, chain[p][exec[p].trade])
    BY <1>1, <2>2, <2>4, AtBusy DEF Moved, Regular, Answered, Done
  <2> QED
    BY <2>1, <2>2, <2>4, <2>5, AtBusy, WorksByWrite DEF Simulate
<1> QED
  BY <1>2, <1>3 DEF Simulate

\* A transaction is saved before it is sent.
LEMMA PrepareDoes == ASSUME NEW p \in Pairs, Busy(p), Prepare(p) PROVE Works(p)
<1> DEFINE old == trades[p][exec[p].trade]
           sent == chain[p][exec[p].trade]
<1>1. /\ exec[p].pc = "quote" /\ chain' = chain /\ sent["main"] = "unsent" /\ old.mode = "live"
      /\ exec[p].trade # 0 /\ ExecInv
  BY AtQuote DEF Prepare, Mode, Busy
<1>2. \E step \in Steps :
        /\ step = "approve" => exec[p].side = "SELL" /\ old.tx["approve"] = "NONE"
        /\ \/ /\ trades' = [trades EXCEPT ![p][exec[p].trade].status = "CREATED",
                                          ![p][exec[p].trade].tx[step] = "PENDING_BROADCAST"]
              /\ exec' = [exec EXCEPT ![p].pc = "send", ![p].step = step]
           \/ /\ NotSaved \/ (step = "approve" /\ StoreFaults /\ Save(p, "FAILED"))
              /\ Finish(p, "plain")
  BY DEF Prepare
<1>3. CASE NotSaved /\ Finish(p, "plain")
  BY <1>1, <1>3, EndsStatusMoves DEF NotSaved, Outcomes
<1>4. CASE Save(p, "FAILED") /\ Finish(p, "plain")
  BY <1>1, <1>4, EndsStatusMoves DEF Outcomes, TradeStatus
<1>5. ASSUME NEW step \in Steps,
             step = "approve" => exec[p].side = "SELL",
             trades' = [trades EXCEPT ![p][exec[p].trade].status = "CREATED",
                                      ![p][exec[p].trade].tx[step] = "PENDING_BROADCAST"],
             exec' = [exec EXCEPT ![p].pc = "send", ![p].step = step]
      PROVE  Works(p)
  <2> DEFINE txs == [old.tx EXCEPT ![step] = "PENDING_BROADCAST"]
             t == [old EXCEPT !.status = "CREATED", !.tx = txs]
             e == [exec[p] EXCEPT !.pc = "send", !.step = step]
  <2>1. /\ old \in TradeRecord /\ exec[p] \in ExecRecord /\ sent \in [Steps -> ChainStatus]
        /\ Regular(old) /\ Answered(exec[p], old, sent)
        /\ exec[p].trade \in DOMAIN trades[p]
    BY <1>1, AtBusy, AtWork
  <2>2. trades[p] \in Seq(TradeRecord) /\ trades \in [Pairs -> Seq(TradeRecord)]
    BY <1>1 DEF ExecInv, ExecTypeOK
  <2>3. trades' = [trades EXCEPT ![p] = [trades[p] EXCEPT ![exec[p].trade] = t]]
    BY <1>5, <2>1, <2>2 DEF TradeRecord
  <2>4. txs \in [Steps -> TxStatus] /\ \A s \in Steps : txs[s] = IF s = step THEN "PENDING_BROADCAST" ELSE old.tx[s]
    BY <2>1 DEF TradeRecord, TxStatus
  <2>5. t \in TradeRecord /\ t.status = "CREATED" /\ t.tx = txs /\ t.side = old.side /\ t.mode = old.mode
    BY <2>1, <2>4 DEF TradeRecord, TradeStatus
  <2>6. /\ exec' = [exec EXCEPT ![p] = e] /\ e \in ExecRecord
        /\ e.trade = exec[p].trade /\ e.pc = "send" /\ e.step = step /\ e.side = exec[p].side
    BY <1>5, <2>1 DEF ExecRecord, ExecPc
  <2> HIDE DEF t, e, txs
  <2>7. Regular(t)
    BY <1>1, <1>5, <2>1, <2>4, <2>5 DEF Regular, Answered, Steps
  <2>8. Answered(e, t, sent)
    BY <1>1, <1>5, <2>1, <2>4, <2>5, <2>6 DEF Answered
  <2>9. Moved(exec[p], old, sent, e, t, sent)
    BY <2>4, <2>5, <2>6, <2>7, <2>8 DEF Moved
  <2> QED
    BY <1>1, <2>1, <2>3, <2>5, <2>6, <2>9, WorksByWrite
<1> QED
  BY <1>2, <1>3, <1>4, <1>5

------------------------------------------------------------------------------
\* The steps of a transaction that is sent.
LEMMA SendAcceptedDoes == ASSUME NEW p \in Pairs, Busy(p), SendAccepted(p) PROVE Works(p)
<1> DEFINE e == [exec[p] EXCEPT !.pc = "sent"]
           old == trades[p][exec[p].trade]
<1>1. exec[p].pc = "send" /\ trades' = trades /\ exec[p].trade # 0 /\ ExecInv
  BY DEF SendAccepted, Busy
<1>2. PICK sent \in [Steps -> ChainStatus] :
        /\ chain' = [chain EXCEPT ![p] = [chain[p] EXCEPT ![exec[p].trade] = sent]]
        /\ \A s \in Steps : sent[s] = IF s = exec[p].step THEN "pending" ELSE chain[p][exec[p].trade][s]
  BY <1>1, Sending DEF SendAccepted
<1>3. exec' = [exec EXCEPT ![p] = e]
  BY <1>1, Moves DEF SendAccepted, ExecPc
<1>4. e \in ExecRecord /\ e.trade = exec[p].trade /\ e.pc = "sent" /\ e.step = exec[p].step /\ e.side = exec[p].side
  <2>1. exec[p] \in ExecRecord
    BY AtBusy
  <2> QED
    BY <2>1 DEF ExecRecord, ExecPc
<1> HIDE DEF e
<1>5. Moved(exec[p], old, chain[p][exec[p].trade], e, old, sent)
  <2>1. Answered(e, old, sent) /\ Regular(old)
    BY <1>1, <1>4, AtBusy DEF Answered
  <2>2. chain[p][exec[p].trade][exec[p].step] = "unsent"
    BY <1>1, AtBusy DEF Known
  <2> QED
    BY <1>2, <1>4, <2>1, <2>2 DEF Moved
<1> QED
  BY <1>1, <1>2, <1>3, <1>4, <1>5, AtBusy, WorksByWrite

LEMMA SendRejectedDoes == ASSUME NEW p \in Pairs, Busy(p), SendRejected(p) PROVE Works(p)
<1> DEFINE e == [exec[p] EXCEPT !.pc = "done", !.outcome = "plain"]
           sent == chain[p][exec[p].trade]
<1>1. exec[p].pc = "send" /\ chain' = chain /\ Finish(p, "plain") /\ exec[p].trade # 0 /\ ExecInv
  BY DEF SendRejected, Busy
<1>2. sent["main"] = "unsent"
  <2>1. exec[p].step \in Steps
    BY AtBusy DEF ExecRecord
  <2> QED
    BY <1>1, <2>1, AtBusy DEF Known, Sound, Steps
<1>3. CASE SaveLifecycle(p, "FAILED", "REJECTED")
  <2>1. "FAILED" \in TradeStatus \ {"SIMULATED"} /\ "REJECTED" \in TxStatus \ {"NONE"}
    BY DEF TradeStatus, TxStatus
  <2>2. exec' = [exec EXCEPT ![p] = e]
    BY <1>1, Moves DEF Outcomes
  <2>3. e \in ExecRecord /\ e.pc = "done" /\ e.outcome = "plain" /\ e.side = exec[p].side
        /\ e.trade = exec[p].trade /\ e.step = exec[p].step
    <3>1. exec[p] \in ExecRecord
      BY AtBusy
    <3> QED
      BY <3>1 DEF ExecRecord, ExecPc, Outcomes
  <2> HIDE DEF e
  <2> QED
    BY <1>1, <1>2, <1>3, <2>1, <2>2, <2>3, AtBusy, LifecycleMoves
<1>4. CASE NotSaved
  BY <1>1, <1>2, <1>4, EndsStatusMoves DEF NotSaved, Outcomes
<1>5. CASE Save(p, "FAILED")
  BY <1>1, <1>2, <1>5, EndsStatusMoves DEF Outcomes, TradeStatus
<1> QED
  BY <1>3, <1>4, <1>5 DEF SendRejected

LEMMA SendAmbiguousDoes == ASSUME NEW p \in Pairs, Busy(p), SendAmbiguous(p) PROVE Works(p)
<1>1. exec[p].pc = "send" /\ exec[p].trade # 0 /\ RaiseUnknown(p) /\ ExecInv
  BY DEF SendAmbiguous, Busy
<1>2. CASE chain' = [chain EXCEPT ![p][exec[p].trade][exec[p].step] = "pending"]
  <2>1. PICK sent \in [Steps -> ChainStatus] :
          /\ chain' = [chain EXCEPT ![p] = [chain[p] EXCEPT ![exec[p].trade] = sent]]
          /\ \A s \in Steps : sent[s] = IF s = exec[p].step THEN "pending" ELSE chain[p][exec[p].trade][s]
    BY <1>1, <1>2, Sending
  <2>2. chain[p][exec[p].trade][exec[p].step] = "unsent"
    BY <1>1, AtBusy DEF Known
  <2> QED
    BY <1>1, <2>1, <2>2, RaiseMoves
<1>3. CASE chain' = chain
  BY <1>1, <1>3, AtBusy, RaiseMoves
<1> QED
  BY <1>2, <1>3 DEF SendAmbiguous

LEMMA ReceiptTimeoutDoes == ASSUME NEW p \in Pairs, Busy(p), ReceiptTimeout(p) PROVE Works(p)
BY AtBusy, RaiseMoves DEF ReceiptTimeout

\* What Goto makes of an execution.
LEMMA GoesTo ==
  ASSUME NEW p \in Pairs, Busy(p), NEW pc \in ExecPc, Goto(p, pc)
  PROVE  \E e \in ExecRecord :
           /\ exec' = [exec EXCEPT ![p] = e]
           /\ e.pc = pc /\ e.side = exec[p].side /\ e.trade = exec[p].trade /\ e.step = exec[p].step
<1> DEFINE e == [exec[p] EXCEPT !.pc = pc]
<1>1. exec[p] \in ExecRecord
  BY AtBusy
<1>2. e \in ExecRecord /\ e.pc = pc /\ e.side = exec[p].side /\ e.trade = exec[p].trade /\ e.step = exec[p].step
  BY <1>1 DEF ExecRecord
<1>3. exec' = [exec EXCEPT ![p] = e]
  BY Moves DEF Busy
<1> QED
  BY <1>2, <1>3

LEMMA RecordBroadcastDoes == ASSUME NEW p \in Pairs, Busy(p), RecordBroadcast(p) PROVE Works(p)
<1>1. exec[p].pc = "sent" /\ chain' = chain
  BY DEF RecordBroadcast
<1>2. CASE RaiseUnknown(p)
  BY <1>1, <1>2, AtBusy, RaiseMoves
<1>3. CASE SaveLifecycle(p, "SUBMITTED", "BROADCASTED") /\ Goto(p, "wait")
  <2>1. "SUBMITTED" \in TradeStatus \ {"SIMULATED"} /\ "BROADCASTED" \in TxStatus \ {"NONE"} /\ "wait" \in ExecPc
    BY DEF TradeStatus, TxStatus, ExecPc
  <2>2. PICK e \in ExecRecord :
          /\ exec' = [exec EXCEPT ![p] = e]
          /\ e.pc = "wait" /\ e.side = exec[p].side /\ e.trade = exec[p].trade /\ e.step = exec[p].step
    BY <1>3, <2>1, GoesTo
  <2> QED
    BY <1>1, <1>3, <2>1, <2>2, AtBusy, LifecycleMoves
<1> QED
  BY <1>2, <1>3 DEF RecordBroadcast

LEMMA ReceiptSuccessDoes == ASSUME NEW p \in Pairs, Busy(p), ReceiptSuccess(p) PROVE Works(p)
<1> DEFINE status == IF exec[p].step = "main" THEN "SUBMITTED" ELSE "CREATED"
<1>1. exec[p].pc = "wait" /\ chain' = chain
  BY DEF ReceiptSuccess
<1>2. CASE RaiseUnknown(p)
  BY <1>1, <1>2, AtBusy, RaiseMoves
<1>3. CASE SaveLifecycle(p, status, "CONFIRMED") /\ Goto(p, "mined")
  <2>1. status \in TradeStatus \ {"SIMULATED"} /\ "CONFIRMED" \in TxStatus \ {"NONE"} /\ "mined" \in ExecPc
    BY DEF TradeStatus, TxStatus, ExecPc
  <2> HIDE DEF status
  <2>2. PICK e \in ExecRecord :
          /\ exec' = [exec EXCEPT ![p] = e]
          /\ e.pc = "mined" /\ e.side = exec[p].side /\ e.trade = exec[p].trade /\ e.step = exec[p].step
    BY <1>3, <2>1, GoesTo
  <2> QED
    BY <1>1, <1>3, <2>1, <2>2, AtBusy, LifecycleMoves
<1> QED
  BY <1>2, <1>3 DEF ReceiptSuccess

LEMMA ReceiptRevertedDoes == ASSUME NEW p \in Pairs, Busy(p), ReceiptReverted(p) PROVE Works(p)
<1> DEFINE e == [exec[p] EXCEPT !.pc = "done", !.outcome = "plain"]
           sent == chain[p][exec[p].trade]
<1>1. exec[p].pc = "wait" /\ chain' = chain /\ sent[exec[p].step] = "reverted"
  BY DEF ReceiptReverted, OnChain
<1>2. CASE RaiseUnknown(p)
  BY <1>1, <1>2, AtBusy, RaiseMoves
<1>3. CASE SaveLifecycle(p, "REVERTED", "REVERTED") /\ Finish(p, "plain")
  <2>1. "REVERTED" \in TradeStatus \ {"SIMULATED"} /\ "REVERTED" \in TxStatus \ {"NONE"}
    BY DEF TradeStatus, TxStatus
  <2>2. exec' = [exec EXCEPT ![p] = e]
    BY <1>3, Moves DEF Outcomes, Busy
  <2>3. e \in ExecRecord /\ e.pc = "done" /\ e.outcome = "plain" /\ e.side = exec[p].side
        /\ e.trade = exec[p].trade /\ e.step = exec[p].step
    <3>1. exec[p] \in ExecRecord
      BY AtBusy
    <3> QED
      BY <3>1 DEF ExecRecord, ExecPc, Outcomes
  <2>4. sent["main"] \in {"unsent", "reverted"}
    <3>1. exec[p].step \in Steps
      BY AtBusy DEF ExecRecord
    <3> QED
      BY <1>1, <3>1, AtBusy DEF Known, Sound, Steps
  <2> HIDE DEF e
  <2> QED
    BY <1>1, <1>3, <2>1, <2>2, <2>3, <2>4, AtBusy, LifecycleMoves
<1> QED
  BY <1>2, <1>3 DEF ReceiptReverted

\* Once the receipt is there, the trade is only given another status.
LEMMA MeasureDoes == ASSUME NEW p \in Pairs, Busy(p), Measure(p) PROVE Works(p)
<1> DEFINE old == trades[p][exec[p].trade]
           sent == chain[p][exec[p].trade]
<1>1. exec[p].pc = "mined" /\ chain' = chain /\ ExecInv /\ exec[p].trade # 0
  BY DEF Measure, Busy
<1>2. CASE exec[p].step # "approve"
  <2>1. sent["main"] = "success"
    BY <1>1, <1>2, AtBusy DEF Known, ExecRecord, Steps
  <2> QED
    BY <1>1, <1>2, <2>1, EndsStatusMoves DEF Measure, Outcomes, TradeStatus
<1>3. CASE exec[p].step = "approve"
  <2>1. Save(p, "CREATED") /\ "CREATED" \in TradeStatus /\ Goto(p, "quote") /\ "quote" \in ExecPc
    BY <1>3 DEF Measure, TradeStatus, ExecPc
  <2>2. PICK t \in TradeRecord :
          /\ trades' = [trades EXCEPT ![p] = [trades[p] EXCEPT ![exec[p].trade] = t]]
          /\ t.status = "CREATED" /\ t.tx = old.tx /\ t.side = old.side /\ t.mode = old.mode
    BY <1>1, <2>1, SaveWrites
  <2>3. PICK e \in ExecRecord :
          /\ exec' = [exec EXCEPT ![p] = e]
          /\ e.pc = "quote" /\ e.side = exec[p].side /\ e.trade = exec[p].trade /\ e.step = exec[p].step
    BY <2>1, GoesTo
  <2>4. Moved(exec[p], old, sent, e, t, sent)
    BY <2>2, <2>3, AtBusy DEF Moved, Regular, Answered
  <2> QED
    BY <1>1, <2>2, <2>3, <2>4, AtBusy, WorksByWrite
<1> QED
  BY <1>2, <1>3

LEMMA MeasureFailedDoes == ASSUME NEW p \in Pairs, Busy(p), MeasureFailed(p) PROVE Works(p)
<1> DEFINE old == trades[p][exec[p].trade]
<1>1. /\ exec[p].pc = "mined" /\ chain' = chain /\ Finish(p, "measure") /\ "measure" \in Outcomes
      /\ trades' = trades \/ \E status \in TradeStatus \ {"SIMULATED"} : Save(p, status)
  BY DEF MeasureFailed, NotSaved, Outcomes, TradeStatus
<1>2. old.tx[exec[p].step] # "NONE" /\ (exec[p].step = "approve" => old.tx["main"] = "NONE")
  BY <1>1, AtBusy DEF Answered, Known
<1> QED
  BY <1>1, <1>2, EndsStatusMoves

\* A step of the executor does one of three things.
LEMMA ExecutorStepDoes ==
  ASSUME NEW p \in Pairs, ExecInv, Working(trades[p], chain[p], exec[p]), ExecutorStep(p)
  PROVE  Works(p) \/ Creates(p) \/ GivesUp(p)
<1>1. CASE Start(p) \/ NotStarted(p)
  BY <1>1, StartDoes, NotStartedDoes
<1>2. CASE ~Start(p) /\ ~NotStarted(p)
  <2>1. exec[p].trade # 0 /\ exec[p].pc \notin {"none", "done"}
    <3>1. CASE WrongWallet(p)
      BY <3>1 DEF WrongWallet
    <3>2. CASE Abandon(p) \/ Simulate(p) \/ Prepare(p)
      BY <3>2, AtQuote DEF Abandon, Simulate, Prepare
    <3>3. CASE SendAccepted(p) \/ SendRejected(p) \/ SendAmbiguous(p) \/ RecordBroadcast(p)
      BY <3>3, AtSend DEF SendAccepted, SendRejected, SendAmbiguous, RecordBroadcast
    <3>4. CASE ReceiptSuccess(p) \/ ReceiptReverted(p) \/ ReceiptTimeout(p) \/ Measure(p) \/ MeasureFailed(p)
      BY <3>4, AtSend DEF ReceiptSuccess, ReceiptReverted, ReceiptTimeout, Measure, MeasureFailed
    <3> QED
      BY <1>2, <3>1, <3>2, <3>3, <3>4 DEF ExecutorStep
  <2>2. Busy(p)
    BY <2>1 DEF Busy
  <2> QED
    BY <1>2, <2>2, WrongWalletDoes, AbandonDoes, SimulateDoes, PrepareDoes, SendAcceptedDoes,
       SendRejectedDoes, SendAmbiguousDoes, RecordBroadcastDoes, ReceiptSuccessDoes,
       ReceiptRevertedDoes, ReceiptTimeoutDoes, MeasureDoes, MeasureFailedDoes
    DEF ExecutorStep
<1> QED
  BY <1>1, <1>2

------------------------------------------------------------------------------
(* Sessions, operations and rows.                                           *)

OpRecord ==
  [kind : {"none", "buy", "sell", "recovery"},
   pc : {"done", "count", "risk", "amount", "exec", "claimed"},
   ses : SessionRecord]

Reference == [trade : Nat, step : Steps]

\* A session with another status.
LEMMA WithTyped ==
  ASSUME NEW s \in SessionRecord, NEW status \in Status
  PROVE  LET r == With(s, status) IN
         /\ r \in SessionRecord
         /\ r.status = status /\ r.entry = s.entry /\ r.exit = s.exit /\ r.ref = s.ref
BY DEF With, SessionRecord

LEMMA NoRefTyped == NoRef \in Reference
BY DEF NoRef, Reference, Steps

\* The sessions of a purchase and of a sale that are done.
LEMMA EnteredTyped ==
  ASSUME NEW s \in SessionRecord
  PROVE  /\ Entered(s) \in SessionRecord
         /\ Entered(s).status = "HOLDING" /\ Entered(s).entry = TRUE
         /\ Entered(s).exit = s.exit /\ Entered(s).ref = NoRef
BY NoRefTyped DEF Entered, SessionRecord, Reference, Status, Active

LEMMA ExitedTyped ==
  ASSUME NEW s \in SessionRecord
  PROVE  /\ Exited(s) \in SessionRecord
         /\ Exited(s).status = "CLOSED" /\ Exited(s).exit = TRUE
         /\ Exited(s).entry = s.entry /\ Exited(s).ref = NoRef
BY NoRefTyped DEF Exited, SessionRecord, Reference, Status, Terminal

\* A session with a reference.
LEMMA RefTyped ==
  ASSUME NEW s \in SessionRecord, NEW ref \in Reference, NEW status \in Status
  PROVE  /\ [s EXCEPT !.ref = ref] \in SessionRecord
         /\ [s EXCEPT !.status = status, !.ref = ref] \in SessionRecord
BY DEF Reference, SessionRecord

LEMMA NoOpTyped == NoOp \in OpRecord /\ NoOp.kind = "none" /\ NoOp.pc = "done"
<1>1. NewSession \in SessionRecord
  BY NoRefTyped DEF NewSession, SessionRecord, Reference, Status, Active, Waiting
<1> QED
  BY <1>1 DEF NoOp, OpRecord

\* The rows of p, its operation and the copy of the monitor are written.
Rows(p, d, l, k, o, m) ==
  /\ d \in SessionRecord /\ l \in BOOLEAN /\ k \in BOOLEAN /\ o \in OpRecord
  /\ m \in {<<>>} \cup [{1} -> SessionRecord]
  /\ db' = [db EXCEPT ![p] = d]
  /\ leased' = [leased EXCEPT ![p] = l]
  /\ quarantined' = [quarantined EXCEPT ![p] = k]
  /\ op' = [op EXCEPT ![p] = o]
  /\ loaded' = [loaded EXCEPT ![p] = m]
  /\ up' = up

\* An operation may only begin beside others when no recovery runs.
LEMMA PairStep ==
  ASSUME LifeInv, NEW p \in Pairs, NEW d, NEW l, NEW k, NEW o, NEW m, Rows(p, d, l, k, o, m),
         ExecInv',
         \A q \in Pairs : q # p => trades'[q] = trades[q] /\ chain'[q] = chain[q] /\ exec'[q] = exec[q],
         Life(trades'[p], chain'[p], exec'[p], d, l, k, o, m),
         o.kind # "none" /\ op[p].kind = "none" => ~Recovering,
         o.kind = "recovery" =>
           \/ op[p].kind = "recovery" /\ m = <<>>
           \/ m = <<>> /\ \A q \in Pairs : op[q].kind = "none" /\ loaded[q] = <<>>,
         m # <<>> /\ loaded[p] = <<>> => ~Recovering,
         o.kind # "none" \/ m # <<>> => up
  PROVE  LifeInv'
<1>1. /\ db \in [Pairs -> SessionRecord] /\ leased \in [Pairs -> BOOLEAN] /\ quarantined \in [Pairs -> BOOLEAN]
      /\ op \in [Pairs -> OpRecord] /\ up \in BOOLEAN
      /\ loaded \in [Pairs -> {<<>>} \cup [{1} -> SessionRecord]]
  BY DEF LifeInv, TypeOK, OpRecord
<1>2. /\ db'[p] = d /\ leased'[p] = l /\ quarantined'[p] = k /\ op'[p] = o
      /\ \A q \in Pairs : q # p => /\ db'[q] = db[q] /\ leased'[q] = leased[q]
                                  /\ quarantined'[q] = quarantined[q] /\ op'[q] = op[q]
  BY <1>1 DEF Rows
<1>3. loaded'[p] = m /\ \A q \in Pairs : q # p => loaded'[q] = loaded[q]
  BY <1>1 DEF Rows
<1>4. TypeOK'
  <2>1. ExecTypeOK'
    BY DEF ExecInv
  <2>2. db' \in [Pairs -> SessionRecord] /\ op' \in [Pairs -> OpRecord]
    BY <1>1 DEF Rows
  <2>3. leased' \in [Pairs -> BOOLEAN] /\ quarantined' \in [Pairs -> BOOLEAN]
    BY <1>1 DEF Rows
  <2>4. loaded' \in [Pairs -> {<<>>} \cup [{1} -> SessionRecord]] /\ up' \in BOOLEAN
    BY <1>1 DEF Rows
  <2> QED
    BY <2>1, <2>2, <2>3, <2>4 DEF TypeOK, OpRecord
<1>5. Apart'
  <2>1. ASSUME NEW r \in Pairs, op'[r].kind = "recovery", NEW q \in Pairs
        PROVE  (q # r => op'[q].kind = "none") /\ loaded'[q] = <<>>
    <3>1. CASE r = p
      BY <2>1, <3>1, <1>2, <1>3 DEF LifeInv, Apart
    <3>2. CASE r # p
      BY <2>1, <3>2, <1>2, <1>3 DEF LifeInv, Apart, Recovering
    <3> QED
      BY <3>1, <3>2
  <2>2. ASSUME NEW q \in Pairs, op'[q].kind # "none" \/ loaded'[q] # <<>> PROVE up'
    BY <2>2, <1>2, <1>3 DEF LifeInv, Apart, Rows
  <2> QED
    BY <2>1, <2>2 DEF Apart
<1>6. ASSUME NEW q \in Pairs
      PROVE  Life(trades'[q], chain'[q], exec'[q], db'[q], leased'[q], quarantined'[q], op'[q], loaded'[q])
  <2>1. CASE q = p
    BY <2>1, <1>2, <1>3
  <2>2. CASE q # p
    BY <2>2, <1>2, <1>3 DEF LifeInv
  <2> QED
    BY <2>1, <2>2
<1> QED
  BY <1>4, <1>5, <1>6 DEF LifeInv

\* The values of a pair.
LEMMA AtPair ==
  ASSUME LifeInv, NEW p \in Pairs
  PROVE  /\ db[p] \in SessionRecord /\ leased[p] \in BOOLEAN /\ quarantined[p] \in BOOLEAN
         /\ op[p] \in OpRecord /\ op[p].ses \in SessionRecord
         /\ loaded[p] \in {<<>>} \cup [{1} -> SessionRecord]
         /\ Working(trades[p], chain[p], exec[p])
         /\ Operating(trades[p], chain[p], exec[p], db[p], leased[p], quarantined[p], op[p])
         /\ Copied(trades[p], chain[p], db[p], quarantined[p], loaded[p])
         /\ Stored(trades[p], chain[p], exec[p], db[p], leased[p], quarantined[p], op[p])
         /\ Buying(trades[p], chain[p], exec[p])
<1>1. op[p] \in OpRecord
  BY DEF LifeInv, TypeOK, OpRecord
<1>2. op[p].ses \in SessionRecord
  BY <1>1 DEF OpRecord
<1>3. db[p] \in SessionRecord /\ leased[p] \in BOOLEAN /\ quarantined[p] \in BOOLEAN
      /\ loaded[p] \in {<<>>} \cup [{1} -> SessionRecord]
  BY DEF LifeInv, TypeOK
<1> QED
  BY <1>1, <1>2, <1>3 DEF LifeInv, Life

LEMMA ExecStays == ASSUME ExecInv, UNCHANGED execVars PROVE ExecInv'
BY DEF execVars, ExecInv, ExecTypeOK, Executing, TradesSound, Knows

\* Trades, chain and executions stay as they are.
LEMMA QuietStep ==
  ASSUME LifeInv, NEW p \in Pairs, NEW d, NEW l, NEW k, NEW o, NEW m, Rows(p, d, l, k, o, m),
         UNCHANGED execVars,
         Operating(trades[p], chain[p], exec[p], d, l, k, o),
         Copied(trades[p], chain[p], d, k, m),
         Stored(trades[p], chain[p], exec[p], d, l, k, o),
         o.kind # "none" /\ op[p].kind = "none" => ~Recovering,
         o.kind = "recovery" =>
           \/ op[p].kind = "recovery" /\ m = <<>>
           \/ m = <<>> /\ \A q \in Pairs : op[q].kind = "none" /\ loaded[q] = <<>>,
         m # <<>> /\ loaded[p] = <<>> => ~Recovering,
         o.kind # "none" \/ m # <<>> => up
  PROVE  LifeInv'
<1>1. trades' = trades /\ chain' = chain /\ exec' = exec
  BY DEF execVars
<1>2. ExecInv'
  BY ExecStays DEF LifeInv
<1>3. Life(trades'[p], chain'[p], exec'[p], d, l, k, o, m)
  BY <1>1, AtPair DEF Life
<1> QED
  BY <1>1, <1>2, <1>3, PairStep

\* An operation ends, the row written or not.
LEMMA EndStep ==
  ASSUME LifeInv, NEW p \in Pairs, NEW d, NEW l, NEW k,
         Rows(p, d, l, k, NoOp, loaded[p]), UNCHANGED execVars,
         exec[p].pc = "none",
         Copied(trades[p], chain[p], d, k, loaded[p]),
         Stored(trades[p], chain[p], exec[p], d, l, k, NoOp)
  PROVE  LifeInv'
<1>1. Operating(trades[p], chain[p], exec[p], d, l, k, NoOp)
  BY NoOpTyped DEF Operating
<1>2. loaded[p] # <<>> => up
  BY DEF LifeInv, Apart
<1> QED
  BY <1>1, <1>2, NoOpTyped, QuietStep

LEMMA ObserveBuyKeeps == ASSUME LifeInv, NEW p \in Pairs, ObserveBuy(p) PROVE LifeInv'
<1> DEFINE d == With(db[p], "RISK_CHECKING")
           o == [kind |-> "buy", pc |-> "count", ses |-> d]
<1>1. /\ d \in SessionRecord /\ d.status = "RISK_CHECKING"
      /\ d.entry = db[p].entry /\ d.exit = db[p].exit /\ d.ref = db[p].ref
  BY AtPair, WithTyped DEF Status, Active, InFlight
<1>2. o \in OpRecord /\ o.kind = "buy" /\ o.pc = "count" /\ o.ses = d
  BY <1>1 DEF OpRecord
<1>3. /\ db' = [db EXCEPT ![p] = d] /\ op' = [op EXCEPT ![p] = o] /\ ~leased[p]
      /\ leased' = leased /\ quarantined' = quarantined /\ loaded' = loaded /\ up' = up
      /\ UNCHANGED execVars /\ op[p].kind = "none" /\ up /\ ~Recovering /\ db[p].status = Waiting
  BY DEF ObserveBuy, Store, Begin, Free
<1> HIDE DEF d, o
<1>4. Rows(p, d, leased[p], quarantined[p], o, loaded[p])
  BY <1>1, <1>2, <1>3, AtPair DEF Rows, LifeInv, TypeOK
<1>5. Credible(trades[p], chain[p], d) /\ Referred(trades[p], chain[p], exec[p].trade, d)
  BY <1>1, <1>3, AtPair DEF Stored, Credible, Referred, Open, HasRef, Waiting
<1>6. Operating(trades[p], chain[p], exec[p], d, leased[p], quarantined[p], o)
  BY <1>1, <1>2, <1>3, <1>5, AtPair DEF Operating, Stored, Waiting
<1>7. Copied(trades[p], chain[p], d, quarantined[p], loaded[p])
  BY <1>1, AtPair DEF Copied
<1>8. Stored(trades[p], chain[p], exec[p], d, leased[p], quarantined[p], o)
  BY <1>1, <1>2, <1>3, <1>5, AtPair DEF Stored, Waiting
<1> QED
  BY <1>2, <1>3, <1>4, <1>6, <1>7, <1>8, QuietStep

\* An operation that has started no execution ends and leaves the row.
LEMMA LeaveStep ==
  ASSUME LifeInv, NEW p \in Pairs, exec[p].pc = "none", End(p),
         UNCHANGED <<execVars, rowVars, loaded, up>>
  PROVE  LifeInv'
<1>1. Rows(p, db[p], leased[p], quarantined[p], NoOp, loaded[p])
  BY AtPair, NoOpTyped DEF Rows, LifeInv, TypeOK, End, rowVars
<1>2. Stored(trades[p], chain[p], exec[p], db[p], leased[p], quarantined[p], NoOp)
  BY AtPair, NoOpTyped DEF Stored
<1> QED
  BY <1>1, <1>2, AtPair, EndStep

\* It ends with the last save of the session s.
LEMMA EndSaved ==
  ASSUME LifeInv, NEW p \in Pairs, exec[p].pc = "none", End(p), UNCHANGED <<execVars, loaded, up>>,
         NEW s \in SessionRecord, StoreLast(p, s), ~quarantined[p], s.status # Waiting,
         db[p].entry => s.entry,
         Credible(trades[p], chain[p], s), Referred(trades[p], chain[p], exec[p].trade, s)
  PROVE  LifeInv'
<1>1. CASE Store(p, s)
  <2>1. ~leased[p] /\ db' = [db EXCEPT ![p] = s] /\ leased' = leased /\ quarantined' = quarantined
    BY <1>1 DEF Store
  <2>2. Rows(p, s, leased[p], quarantined[p], NoOp, loaded[p])
    BY <2>1, AtPair, NoOpTyped DEF Rows, LifeInv, TypeOK, End
  <2>3. Copied(trades[p], chain[p], s, quarantined[p], loaded[p])
    BY AtPair DEF Copied
  <2>4. Stored(trades[p], chain[p], exec[p], s, leased[p], quarantined[p], NoOp)
    BY <2>1, AtPair, NoOpTyped DEF Stored
  <2> QED
    BY <2>2, <2>3, <2>4, EndStep
<1>2. CASE StoreFails(p)
  BY <1>2, LeaveStep DEF StoreFails
<1> QED
  BY <1>1, <1>2 DEF StoreLast

LEMMA RejectKeeps == ASSUME LifeInv, NEW p \in Pairs, Reject(p) PROVE LifeInv'
<1> DEFINE s == With(op[p].ses, "REJECTED")
<1>1. /\ op[p].ses = db[p] /\ exec[p].pc = "none" /\ ~quarantined[p]
      /\ db[p].status \in {"RISK_CHECKING", "BUY_PENDING"}
  BY AtPair DEF Reject, Operating
<1>2. /\ s \in SessionRecord /\ s.status = "REJECTED"
      /\ s.entry = db[p].entry /\ s.exit = db[p].exit /\ s.ref = db[p].ref
  BY <1>1, AtPair, WithTyped DEF Status, Terminal
<1>3. StoreLast(p, s) /\ End(p) /\ UNCHANGED <<execVars, loaded, up>>
  BY DEF Reject
<1> HIDE DEF s
<1>4. Credible(trades[p], chain[p], s) /\ Referred(trades[p], chain[p], exec[p].trade, s)
  BY <1>1, <1>2, AtPair DEF Stored, Credible, Referred, Open, HasRef, Waiting
<1> QED
  BY <1>1, <1>2, <1>3, <1>4, EndSaved DEF Waiting

\* What Begin and Advance make of an operation.
LEMMA BeginTyped ==
  ASSUME NEW kind \in {"buy", "sell", "recovery"},
         NEW pc \in {"count", "risk", "amount", "exec", "claimed"}, NEW s \in SessionRecord
  PROVE  LET o == [kind |-> kind, pc |-> pc, ses |-> s] IN
         o \in OpRecord /\ o.kind = kind /\ o.pc = pc /\ o.ses = s
BY DEF OpRecord

LEMMA Advances ==
  ASSUME LifeInv, NEW p \in Pairs, NEW pc \in {"risk", "amount", "exec"}, NEW s \in SessionRecord,
         Advance(p, pc, s)
  PROVE  \E o \in OpRecord :
           op' = [op EXCEPT ![p] = o] /\ o.kind = op[p].kind /\ o.pc = pc /\ o.ses = s
<1> DEFINE o == [op[p] EXCEPT !.pc = pc, !.ses = s]
<1>1. op \in [Pairs -> OpRecord] /\ op[p] \in OpRecord
  BY AtPair DEF LifeInv, TypeOK, OpRecord
<1>2. op' = [op EXCEPT ![p] = o]
  BY <1>1 DEF Advance
<1>3. o \in OpRecord /\ o.kind = op[p].kind /\ o.pc = pc /\ o.ses = s
  BY <1>1 DEF OpRecord
<1> QED
  BY <1>2, <1>3

LEMMA CountPositionsKeeps == ASSUME LifeInv, NEW p \in Pairs, CountPositions(p) PROVE LifeInv'
<1>1. op[p].kind = "buy" /\ op[p].pc = "count" /\ UNCHANGED <<execVars, rowVars, loaded, up>>
  BY DEF CountPositions
<1> PICK s \in SessionRecord : s = op[p].ses
  BY AtPair
<1>2. PICK o \in OpRecord :
        op' = [op EXCEPT ![p] = o] /\ o.kind = "buy" /\ o.pc = "risk" /\ o.ses = op[p].ses
  <2>1. Advance(p, "risk", s)
    BY DEF CountPositions
  <2> QED
    BY <1>1, <2>1, Advances
<1>3. Rows(p, db[p], leased[p], quarantined[p], o, loaded[p])
  BY <1>1, <1>2, AtPair DEF Rows, LifeInv, TypeOK, rowVars
<1>4. Operating(trades[p], chain[p], exec[p], db[p], leased[p], quarantined[p], o)
  BY <1>1, <1>2, AtPair DEF Operating
<1>5. Stored(trades[p], chain[p], exec[p], db[p], leased[p], quarantined[p], o)
  BY <1>1, <1>2, AtPair DEF Stored
<1>6. up
  BY <1>1 DEF LifeInv, Apart
<1> QED
  BY <1>1, <1>2, <1>3, <1>4, <1>5, <1>6, AtPair, QuietStep

LEMMA AcceptRiskKeeps == ASSUME LifeInv, NEW p \in Pairs, AcceptRisk(p) PROVE LifeInv'
<1> DEFINE s == With(op[p].ses, "BUY_PENDING")
<1>1. /\ op[p].kind = "buy" /\ op[p].pc = "risk" /\ UNCHANGED <<execVars, loaded, up>>
      /\ op[p].ses = db[p] /\ db[p].status = "RISK_CHECKING" /\ exec[p].pc = "none" /\ trades[p] = <<>>
      /\ ~leased[p] /\ ~quarantined[p]
  BY AtPair DEF AcceptRisk, Operating
<1>2. CASE StoreFails(p) /\ End(p)
  BY <1>1, <1>2, LeaveStep DEF StoreFails
<1>3. CASE Store(p, s) /\ Advance(p, "amount", s)
  <2>1. /\ s \in SessionRecord /\ s.status = "BUY_PENDING"
        /\ s.entry = db[p].entry /\ s.exit = db[p].exit /\ s.ref = db[p].ref
    BY <1>1, AtPair, WithTyped DEF Status, Active, InFlight
  <2>2. PICK o \in OpRecord :
          op' = [op EXCEPT ![p] = o] /\ o.kind = "buy" /\ o.pc = "amount" /\ o.ses = s
    <3>1. PICK r \in SessionRecord : r = s
      BY <2>1
    <3>2. Advance(p, "amount", r)
      BY <1>3, <3>1
    <3> QED
      BY <1>1, <3>1, <3>2, Advances
  <2>3. db' = [db EXCEPT ![p] = s] /\ leased' = leased /\ quarantined' = quarantined
    BY <1>3 DEF Store
  <2> HIDE DEF s
  <2>4. Rows(p, s, leased[p], quarantined[p], o, loaded[p])
    BY <1>1, <2>1, <2>2, <2>3, AtPair DEF Rows, LifeInv, TypeOK
  <2>5. Credible(trades[p], chain[p], s) /\ Referred(trades[p], chain[p], exec[p].trade, s)
    BY <1>1, <2>1, AtPair DEF Stored, Credible, Referred, Open, HasRef, Waiting
  <2>6. Operating(trades[p], chain[p], exec[p], s, leased[p], quarantined[p], o)
    BY <1>1, <2>1, <2>2, <2>5, AtPair DEF Operating
  <2>7. Copied(trades[p], chain[p], s, quarantined[p], loaded[p])
    BY <2>1, AtPair DEF Copied
  <2>8. Stored(trades[p], chain[p], exec[p], s, leased[p], quarantined[p], o)
    BY <1>1, <2>1, <2>2, <2>5, AtPair DEF Stored, Waiting
  <2>9. up
    BY <1>1 DEF LifeInv, Apart
  <2> QED
    BY <1>1, <2>2, <2>4, <2>6, <2>7, <2>8, <2>9, QuietStep
<1> QED
  BY <1>2, <1>3 DEF AcceptRisk

LEMMA AmountFailsKeeps == ASSUME LifeInv, NEW p \in Pairs, AmountFails(p) PROVE LifeInv'
<1>1. exec[p].pc = "none"
  BY AtPair DEF AmountFails, Operating
<1> QED
  BY <1>1, LeaveStep DEF AmountFails

\* A row is written beside no operation.
LEMMA RowStep ==
  ASSUME LifeInv, NEW p \in Pairs, NEW s \in SessionRecord, op[p].kind = "none", Store(p, s),
         UNCHANGED <<execVars, op, loaded, up>>,
         Credible(trades[p], chain[p], s), Referred(trades[p], chain[p], exec[p].trade, s),
         db[p].entry => s.entry, s.status # Waiting,
         quarantined[p] => s.status \in {"MANUAL_REVIEW", "SELL_PENDING", "CLOSED"}
  PROVE  LifeInv'
<1>1. ~leased[p] /\ db' = [db EXCEPT ![p] = s] /\ leased' = leased /\ quarantined' = quarantined
  BY DEF Store
<1>2. Rows(p, s, leased[p], quarantined[p], op[p], loaded[p])
  BY <1>1, AtPair DEF Rows, LifeInv, TypeOK
<1>3. Operating(trades[p], chain[p], exec[p], s, leased[p], quarantined[p], op[p])
  BY AtPair DEF Operating
<1>4. Copied(trades[p], chain[p], s, quarantined[p], loaded[p])
  BY AtPair DEF Copied
<1>5. Stored(trades[p], chain[p], exec[p], s, leased[p], quarantined[p], op[p])
  BY <1>1, AtPair DEF Stored
<1>6. op[p].kind # "none" \/ loaded[p] # <<>> => up
  BY DEF LifeInv, Apart
<1> QED
  BY <1>2, <1>3, <1>4, <1>5, <1>6, QuietStep

\* The row is written with another status only.
LEMMA StatusStep ==
  ASSUME LifeInv, NEW p \in Pairs, op[p].kind = "none", ~quarantined[p],
         NEW status \in {"EXPIRED", "REJECTED", "MANUAL_REVIEW"}, Store(p, With(db[p], status)),
         UNCHANGED <<execVars, op, loaded, up>>
  PROVE  LifeInv'
<1> DEFINE s == With(db[p], status)
<1>1. /\ s \in SessionRecord /\ s.status = status
      /\ s.entry = db[p].entry /\ s.exit = db[p].exit /\ s.ref = db[p].ref
  BY AtPair, WithTyped DEF Status, Active, Terminal
<1> HIDE DEF s
<1>2. Credible(trades[p], chain[p], s) /\ Referred(trades[p], chain[p], exec[p].trade, s)
  BY <1>1, AtPair DEF Stored, Credible, Referred, Open, HasRef, Waiting
<1> QED
  BY <1>1, <1>2, RowStep DEF s, Waiting

LEMMA RowActionsKeep ==
  ASSUME LifeInv, NEW p \in Pairs, ReviewByPolicy(p) \/ Expire(p) \/ IgnoreManually(p)
  PROVE  LifeInv'
<1>1. op[p].kind = "none" /\ UNCHANGED <<execVars, op, loaded, up>>
  BY DEF ReviewByPolicy, Expire, IgnoreManually, Free
<1>2. ~quarantined[p]
  BY AtPair DEF ReviewByPolicy, Expire, IgnoreManually, Stored, Waiting
<1> QED
  BY <1>1, <1>2, StatusStep DEF ReviewByPolicy, Expire, IgnoreManually

LEMMA MonitorLoadsKeeps == ASSUME LifeInv, NEW p \in Pairs, MonitorLoads(p) PROVE LifeInv'
<1>1. /\ UNCHANGED <<execVars, rowVars, op, up>> /\ up /\ ~Recovering /\ ExitMonitor
      /\ db[p].status = "HOLDING" /\ db[p].entry
      /\ loaded' = [loaded EXCEPT ![p] = <<db[p]>>]
  BY DEF MonitorLoads
<1> DEFINE m == <<db[p]>>
<1>2. m \in [{1} -> SessionRecord] /\ m[1] = db[p] /\ m # <<>>
  BY AtPair
<1> HIDE DEF m
<1>3. Rows(p, db[p], leased[p], quarantined[p], op[p], m)
  BY <1>1, <1>2, AtPair DEF Rows, LifeInv, TypeOK, rowVars, m
<1>4. Copied(trades[p], chain[p], db[p], quarantined[p], m)
  BY <1>1, <1>2, AtPair DEF Copied, Stored
<1>5. op[p].kind # "recovery"
  BY <1>1 DEF Recovering
<1> QED
  BY <1>1, <1>3, <1>4, <1>5, AtPair, QuietStep

LEMMA MonitorSavesKeeps == ASSUME LifeInv, NEW p \in Pairs, MonitorSaves(p) PROVE LifeInv'
<1> DEFINE s == loaded[p][1]
<1>1. /\ loaded[p] # <<>> /\ loaded' = [loaded EXCEPT ![p] = <<>>] /\ UNCHANGED <<execVars, op, up>>
      /\ StoreLast(p, s)
  BY DEF MonitorSaves
<1>2. /\ s \in SessionRecord /\ s.status = "HOLDING" /\ Credible(trades[p], chain[p], s)
      /\ ~quarantined[p] /\ db[p].entry
  BY <1>1, AtPair DEF Copied
<1>3. op[p].kind # "recovery" /\ up
  BY <1>1 DEF LifeInv, Apart
<1>4. op[p].kind # "buy"
  BY <1>2, AtPair DEF Operating, Stored, Credible, Waiting
<1> HIDE DEF s
<1>5. ~HasRef(s) /\ s.entry
  BY <1>2 DEF Credible, Open
<1>6. CASE StoreFails(p)
  <2>1. Rows(p, db[p], leased[p], quarantined[p], op[p], <<>>)
    BY <1>1, <1>6, AtPair DEF Rows, LifeInv, TypeOK, rowVars, StoreFails
  <2>2. Copied(trades[p], chain[p], db[p], quarantined[p], <<>>)
    BY DEF Copied
  <2> QED
    BY <1>1, <1>3, <2>1, <2>2, AtPair, QuietStep
<1>7. CASE Store(p, s)
  <2>1. ~leased[p] /\ db' = [db EXCEPT ![p] = s] /\ leased' = leased /\ quarantined' = quarantined
    BY <1>7 DEF Store
  <2>2. Rows(p, s, leased[p], quarantined[p], op[p], <<>>)
    BY <1>1, <1>2, <2>1, AtPair DEF Rows, LifeInv, TypeOK
  <2>3. Copied(trades[p], chain[p], s, quarantined[p], <<>>)
    BY DEF Copied
  <2>4. Operating(trades[p], chain[p], exec[p], s, leased[p], quarantined[p], op[p])
    BY <1>2, <1>3, <1>4, AtPair DEF Operating
  <2>5. Stored(trades[p], chain[p], exec[p], s, leased[p], quarantined[p], op[p])
    BY <1>2, <1>5, <2>1, AtPair DEF Stored, Referred, Waiting
  <2> QED
    BY <1>1, <1>3, <2>2, <2>3, <2>4, <2>5, QuietStep
<1> QED
  BY <1>1, <1>6, <1>7 DEF StoreLast

------------------------------------------------------------------------------
(* The choice of recovery.                                                  *)

\* A set of positions has a last one.
LEMMA LastOf ==
  ASSUME NEW n \in Nat, NEW S \in SUBSET (1..n), S # {}
  PROVE  \E i \in S : \A j \in S : j <= i
<1> DEFINE R == {ss \in Nat \X Nat : ss[1] < ss[2]}
           T == {n - i : i \in S}
<1>1. IsWellFoundedOn(R, Nat)
  BY NatLessThanWellFounded DEF OpToRel
<1>2. T \subseteq Nat /\ T # {}
  <2>1. \A i \in S : n - i \in Nat
    OBVIOUS
  <2> QED
    BY <2>1
<1> HIDE DEF R, T
<1>3. PICK x \in T : \A y \in T : ~ (<<y, x>> \in R)
  BY <1>1, <1>2, WFMin
<1>4. \A y \in T : ~ (y < x)
  BY <1>2, <1>3 DEF R
<1>5. PICK i \in S : x = n - i
  BY <1>3 DEF T
<1> SUFFICES ASSUME NEW j \in S PROVE j <= i
  OBVIOUS
<1>6. n - j \in T
  BY DEF T
<1> QED
  BY <1>4, <1>5, <1>6

LEMMA ClaimKeeps == ASSUME LifeInv, NEW p \in Pairs, Claim(p) PROVE LifeInv'
<1> DEFINE o == [kind |-> "recovery", pc |-> "claimed", ses |-> db[p]]
<1>1. o \in OpRecord /\ o.kind = "recovery" /\ o.pc = "claimed" /\ o.ses = db[p]
  BY AtPair, BeginTyped
<1>2. /\ op' = [op EXCEPT ![p] = o] /\ leased' = [leased EXCEPT ![p] = TRUE]
      /\ db' = db /\ quarantined' = quarantined /\ loaded' = loaded /\ up' = up /\ up
      /\ UNCHANGED execVars
      /\ \A q \in Pairs : op[q].kind = "none" /\ loaded[q] = <<>>
  BY DEF Claim, Begin
<1>3. ClaimsRow(db[p], quarantined[p]) /\ ~Recovering
  BY <1>2 DEF Claim, Claimable, ClaimsRow, Recovering
<1> HIDE DEF o
<1>4. Rows(p, db[p], TRUE, quarantined[p], o, loaded[p])
  BY <1>1, <1>2, AtPair DEF Rows, LifeInv, TypeOK
<1>5. exec[p].pc = "none"
  BY <1>2, AtPair DEF Operating
<1>6. Operating(trades[p], chain[p], exec[p], db[p], TRUE, quarantined[p], o)
  BY <1>1, <1>5, AtPair DEF Operating, Stored
<1>7. Stored(trades[p], chain[p], exec[p], db[p], TRUE, quarantined[p], o)
  BY <1>1, <1>3, AtPair DEF Stored, ClaimsRow, InFlight, Waiting
<1> QED
  BY <1>1, <1>2, <1>3, <1>4, <1>6, <1>7, AtPair, QuietStep

\* What is known once a row is claimed.
LEMMA AtClaim ==
  ASSUME LifeInv, NEW p \in Pairs, Claimed(p)
  PROVE  /\ op[p].ses = db[p] /\ db[p] \in SessionRecord /\ leased[p] /\ ~quarantined[p]
         /\ db[p].status \in InFlight \/ (db[p].status = "MANUAL_REVIEW" /\ HasRef(db[p]))
         /\ exec[p].pc = "none" /\ exec[p].trade = 0 /\ loaded[p] = <<>> /\ up
         /\ Credible(trades[p], chain[p], db[p]) /\ Referred(trades[p], chain[p], 0, db[p])
<1>1. op[p].kind = "recovery" /\ op[p].pc = "claimed"
  BY DEF Claimed
<1>2. exec[p].pc = "none" /\ op[p].ses = db[p] /\ leased[p] /\ exec[p].trade = 0
  BY <1>1, AtPair DEF Operating, Working
<1>3. loaded[p] = <<>> /\ up
  BY <1>1 DEF LifeInv, Apart
<1> QED
  BY <1>1, <1>2, <1>3, AtPair DEF Stored, ClaimsRow

\* The trade recovery selects, and its transaction.
LEMMA Selected ==
  ASSUME LifeInv, NEW p \in Pairs, Claimed(p)
  PROVE  LET t == SelectTrade(p)
             side == IF db[p].status = "SELL_PENDING" THEN "SELL" ELSE "BUY"
         IN /\ t = 0 => ~HasRef(db[p]) /\ Side(trades[p], side) = {}
            /\ t # 0 => t \in DOMAIN trades[p] /\ SelectStep(p) \in Steps
            /\ t # 0 /\ HasRef(db[p]) => t = db[p].ref.trade /\ SelectStep(p) = db[p].ref.step
            /\ t # 0 /\ ~HasRef(db[p]) =>
                 /\ t \in Side(trades[p], side)
                 /\ \A j \in Side(trades[p], side) : j <= t
                 /\ SelectStep(p) = IF trades[p][t].tx["main"] # "NONE" THEN "main" ELSE "approve"
<1> DEFINE side == IF db[p].status = "SELL_PENDING" THEN "SELL" ELSE "BUY"
           mine == {i \in DOMAIN trades[p] : trades[p][i].side = side}
<1>1. op[p].ses = db[p] /\ db[p] \in SessionRecord /\ Referred(trades[p], chain[p], 0, db[p])
  BY AtClaim
<1>2. trades[p] \in Seq(TradeRecord) /\ DOMAIN trades[p] = 1..Len(trades[p]) /\ Len(trades[p]) \in Nat
  BY LenProperties DEF LifeInv, TypeOK, ExecTypeOK
<1>3. CASE HasRef(db[p])
  <2>1. SelectTrade(p) = db[p].ref.trade
    BY <1>1, <1>3 DEF SelectTrade
  <2>2. SelectStep(p) = db[p].ref.step
    BY <1>1, <1>3 DEF SelectStep
  <2>3. db[p].ref.trade \in DOMAIN trades[p] /\ db[p].ref.step \in Steps
    BY <1>1, <1>3 DEF Referred, SessionRecord
  <2>4. db[p].ref.trade # 0
    BY <1>2, <2>3
  <2> QED
    BY <1>3, <2>1, <2>2, <2>3, <2>4
<1>4. CASE ~HasRef(db[p])
  <2>1. SelectTrade(p) = IF mine = {} THEN 0 ELSE CHOOSE i \in mine : \A j \in mine : j <= i
    BY <1>1, <1>4 DEF SelectTrade
  <2>2. SelectStep(p) = IF trades[p][SelectTrade(p)].tx["main"] # "NONE" THEN "main" ELSE "approve"
    BY <1>1, <1>4 DEF SelectStep
  <2>3. mine = Side(trades[p], side)
    BY DEF Side
  <2>4. ASSUME mine # {}
        PROVE  SelectTrade(p) \in mine /\ \A j \in mine : j <= SelectTrade(p)
    <3>1. mine \in SUBSET (1..Len(trades[p]))
      BY <1>2
    <3>2. \E i \in mine : \A j \in mine : j <= i
      BY <1>2, <2>4, <3>1, LastOf
    <3> HIDE DEF mine
    <3> QED
      BY <2>1, <2>4, <3>2
  <2>5. mine \subseteq DOMAIN trades[p] /\ ~(0 \in mine)
    BY <1>2
  <2>6. SelectStep(p) \in Steps
    BY <2>2 DEF Steps
  <2> HIDE DEF mine
  <2> QED
    BY <1>4, <2>1, <2>2, <2>3, <2>4, <2>5, <2>6
<1> QED
  BY <1>3, <1>4

\* A decision that leaves the trade as it is.
LEMMA DecideStep ==
  ASSUME LifeInv, NEW p \in Pairs, Claimed(p), NEW s \in SessionRecord,
         \/ ApplyRow(p, s, FALSE) /\ trades' = trades
         \/ ApplyFails,
         End(p), UNCHANGED <<chain, exec, loaded, up>>,
         s.status # Waiting, db[p].entry => s.entry,
         Credible(trades[p], chain[p], s), Referred(trades[p], chain[p], 0, s)
  PROVE  LifeInv'
<1>1. CASE ApplyRow(p, s, FALSE) /\ trades' = trades
  <2>1. /\ db' = [db EXCEPT ![p] = s] /\ leased' = [leased EXCEPT ![p] = FALSE]
        /\ quarantined' = [quarantined EXCEPT ![p] = FALSE] /\ UNCHANGED execVars
    BY <1>1 DEF ApplyRow, execVars
  <2>2. Rows(p, s, FALSE, FALSE, NoOp, loaded[p])
    BY <2>1, AtPair, NoOpTyped DEF Rows, LifeInv, TypeOK, End
  <2>3. Copied(trades[p], chain[p], s, FALSE, loaded[p])
    BY AtClaim DEF Copied
  <2>4. Stored(trades[p], chain[p], exec[p], s, FALSE, FALSE, NoOp)
    BY AtPair, AtClaim, NoOpTyped DEF Stored
  <2> QED
    BY <2>1, <2>2, <2>3, <2>4, AtClaim, EndStep
<1>2. CASE ApplyFails
  <2>1. UNCHANGED <<execVars, rowVars, loaded, up>>
    BY <1>2 DEF ApplyFails, execVars
  <2> QED
    BY <2>1, AtClaim, LeaveStep
<1> QED
  BY <1>1, <1>2

\* A reference to the transaction recovery has selected is a sound one.
LEMMA SelectedReferred ==
  ASSUME LifeInv, NEW p \in Pairs, Claimed(p), HasTransaction(p),
         NEW s \in SessionRecord, s.ref = [trade |-> SelectTrade(p), step |-> SelectStep(p)],
         s.entry = db[p].entry, s.exit = db[p].exit
  PROVE  Referred(trades[p], chain[p], 0, s)
<1> DEFINE t == SelectTrade(p)
           step == SelectStep(p)
           side == IF db[p].status = "SELL_PENDING" THEN "SELL" ELSE "BUY"
<1>1. t # 0 /\ trades[p][t].tx[step] # "NONE"
  BY DEF HasTransaction
<1>2. /\ t \in DOMAIN trades[p] /\ step \in Steps
      /\ HasRef(db[p]) => t = db[p].ref.trade /\ step = db[p].ref.step
      /\ ~HasRef(db[p]) =>
           /\ t \in Side(trades[p], side)
           /\ \A j \in Side(trades[p], side) : j <= t
           /\ step = IF trades[p][t].tx["main"] # "NONE" THEN "main" ELSE "approve"
  BY <1>1, Selected
<1>3. s.ref.trade = t /\ s.ref.step = step
  OBVIOUS
<1> HIDE DEF t, step
<1>4. CASE HasRef(db[p])
  BY <1>1, <1>2, <1>3, <1>4, AtClaim DEF Referred
<1>5. CASE ~HasRef(db[p])
  <2>1. trades[p][t].side = side /\ (step = "approve" => trades[p][t].tx["main"] = "NONE")
    BY <1>2, <1>5 DEF Side
  <2>2. db[p].status \in InFlight
    BY <1>5, AtClaim
  <2>3. side = "SELL" => db[p].entry /\ ~db[p].exit
    BY AtClaim DEF Credible, Open
  <2>4. side = "BUY" => ~db[p].entry /\ ~db[p].exit
    BY <2>2, AtClaim DEF Credible, InFlight
  <2> QED
    BY <1>1, <1>2, <1>3, <1>5, <2>1, <2>3, <2>4 DEF Referred
<1> QED
  BY <1>4, <1>5

\* The session recovery leaves for review.
LEMMA ReviewedTyped ==
  ASSUME LifeInv, NEW p \in Pairs, Claimed(p), HasTransaction(p), NEW s \in SessionRecord
  PROVE  /\ Reviewed(p, s) \in SessionRecord
         /\ Reviewed(p, s).status = "MANUAL_REVIEW"
         /\ Reviewed(p, s).entry = s.entry /\ Reviewed(p, s).exit = s.exit
         /\ Reviewed(p, s).ref = [trade |-> SelectTrade(p), step |-> SelectStep(p)]
<1> DEFINE ref == [trade |-> SelectTrade(p), step |-> SelectStep(p)]
<1>1. SelectTrade(p) \in DOMAIN trades[p] /\ SelectStep(p) \in Steps
  BY Selected DEF HasTransaction
<1>2. DOMAIN trades[p] \subseteq Nat
  BY LenProperties DEF LifeInv, TypeOK, ExecTypeOK
<1>3. ref \in Reference
  BY <1>1, <1>2 DEF Reference
<1>4. Reviewed(p, s) = [s EXCEPT !.status = "MANUAL_REVIEW", !.ref = ref]
  BY DEF Reviewed
<1> HIDE DEF ref
<1>5. "MANUAL_REVIEW" \in Status
  BY DEF Status, Active
<1> QED
  BY <1>3, <1>4, <1>5 DEF SessionRecord, Reference, ref

LEMMA ObservePendingKeeps == ASSUME LifeInv, NEW p \in Pairs, ObservePending(p) PROVE LifeInv'
<1>1. Claimed(p)
  BY DEF ObservePending, Observes
<1>2. PICK s \in SessionRecord : s = db[p]
  BY AtPair
<1>3. /\ \/ ApplyRow(p, s, FALSE) /\ trades' = trades
         \/ ApplyFails
      /\ End(p) /\ UNCHANGED <<chain, exec, loaded, up>>
  BY <1>1, <1>2, AtClaim DEF ObservePending, Decide
<1>4. s.status # Waiting
  BY <1>1, <1>2, AtClaim DEF InFlight, Waiting
<1> QED
  BY <1>1, <1>2, <1>3, <1>4, AtClaim, DecideStep

LEMMA ObserveNothingKeeps == ASSUME LifeInv, NEW p \in Pairs, ObserveNothing(p) PROVE LifeInv'
<1>1. Claimed(p) /\ HasTransaction(p)
  BY DEF ObserveNothing, Observes
<1>2. PICK s0 \in SessionRecord : s0 = op[p].ses
  BY AtPair
<1>3. PICK s \in SessionRecord : s = Reviewed(p, s0)
  BY <1>1, ReviewedTyped
<1>4. /\ \/ ApplyRow(p, s, FALSE) /\ trades' = trades
         \/ ApplyFails
      /\ End(p) /\ UNCHANGED <<chain, exec, loaded, up>>
  BY <1>2, <1>3 DEF ObserveNothing, Decide
<1>5. /\ s.status = "MANUAL_REVIEW" /\ s.entry = db[p].entry /\ s.exit = db[p].exit
      /\ s.ref = [trade |-> SelectTrade(p), step |-> SelectStep(p)]
  BY <1>1, <1>2, <1>3, ReviewedTyped, AtClaim
<1>6. Referred(trades[p], chain[p], 0, s)
  BY <1>1, <1>5, SelectedReferred
<1>7. Credible(trades[p], chain[p], s)
  BY <1>1, <1>5, AtClaim DEF Credible, Waiting
<1> QED
  BY <1>1, <1>4, <1>5, <1>6, <1>7, DecideStep DEF Waiting

\* An intent names no transaction: the status tells the side of its trade.
LEMMA AtIntent ==
  ASSUME LifeInv, NEW p \in Pairs, NEW statuses \in SUBSET InFlight, Intent(p, statuses)
  PROVE  LET t == SelectTrade(p)
             side == IF db[p].status = "SELL_PENDING" THEN "SELL" ELSE "BUY"
         IN /\ Claimed(p) /\ db[p].status \in statuses /\ ~HasRef(db[p])
            /\ t = 0 => Side(trades[p], side) = {}
            /\ t # 0 => /\ t \in Side(trades[p], side)
                        /\ \A j \in Side(trades[p], side) : j <= t
                        /\ \A step \in Steps : trades[p][t].tx[step] = "NONE"
            /\ side = "SELL" => db[p].entry /\ ~db[p].exit
            /\ side = "BUY" => ~db[p].entry /\ ~db[p].exit
<1>1. Claimed(p) /\ ~HasTransaction(p) /\ db[p].status \in statuses
  BY AtClaim DEF Intent
<1>2. ~HasRef(db[p])
  BY <1>1, AtClaim, Selected DEF HasTransaction, Referred
<1>3. SelectTrade(p) # 0 => \A step \in Steps : trades[p][SelectTrade(p)].tx[step] = "NONE"
  BY <1>1, <1>2, Selected DEF HasTransaction, Steps
<1>4. db[p].status \in InFlight
  BY <1>1
<1> QED
  BY <1>1, <1>2, <1>3, <1>4, Selected, AtClaim DEF Credible, Open, InFlight

LEMMA RestoreSimulatedKeeps == ASSUME LifeInv, NEW p \in Pairs, RestoreSimulated(p) PROVE LifeInv'
<1> DEFINE t == SelectTrade(p)
           side == IF db[p].status = "SELL_PENDING" THEN "SELL" ELSE "BUY"
<1>1. Intent(p, InFlight) /\ t # 0 /\ trades[p][t].status = "SIMULATED"
  BY DEF RestoreSimulated, Simulated
<1>2. /\ Claimed(p) /\ t \in Side(trades[p], side)
      /\ side = "SELL" => db[p].entry /\ ~db[p].exit
      /\ side = "BUY" => ~db[p].entry /\ ~db[p].exit
  BY <1>1, AtIntent
<1>3. PICK s0 \in SessionRecord : s0 = op[p].ses
  BY AtPair
<1>4. s0.entry = db[p].entry /\ s0.exit = db[p].exit
  BY <1>2, <1>3, AtClaim
<1>5. trades[p][t].side = side /\ t \in DOMAIN trades[p]
  BY <1>2 DEF Side
<1>6. Done(trades[p][t], chain[p][t])
  BY <1>1 DEF Done
<1>7. PICK s : s = Measured(p)
  OBVIOUS
<1>8. s = IF side = "BUY" THEN Entered(s0) ELSE Exited(s0)
  BY <1>3, <1>5, <1>7 DEF Measured, SelectedSide
<1>9. /\ \/ ApplyRow(p, s, FALSE) /\ trades' = trades
         \/ ApplyFails
      /\ End(p) /\ UNCHANGED <<chain, exec, loaded, up>>
  BY <1>7 DEF RestoreSimulated, Decide
<1> HIDE DEF t
<1>10. CASE side = "BUY"
  <2>1. /\ s \in SessionRecord /\ s.status = "HOLDING" /\ s.entry = TRUE /\ ~s.exit
        /\ s.ref = NoRef
    BY <1>2, <1>4, <1>8, <1>10, EnteredTyped
  <2>2. Credible(trades[p], chain[p], s) /\ Referred(trades[p], chain[p], 0, s)
    BY <1>2, <1>6, <1>10, <2>1 DEF Credible, Referred, Open, HasRef, Waiting
  <2> QED
    BY <1>2, <1>9, <2>1, <2>2, DecideStep DEF Waiting
<1>11. CASE side = "SELL"
  <2>1. /\ s \in SessionRecord /\ s.status = "CLOSED" /\ s.entry = TRUE /\ s.exit = TRUE
        /\ s.ref = NoRef
    BY <1>2, <1>4, <1>8, <1>11, ExitedTyped
  <2>2. Credible(trades[p], chain[p], s) /\ Referred(trades[p], chain[p], 0, s)
    BY <1>2, <1>6, <1>11, <2>1, AtClaim DEF Credible, Referred, Open, HasRef, Waiting
  <2> QED
    BY <1>2, <1>9, <2>1, <2>2, DecideStep DEF Waiting
<1> QED
  BY <1>10, <1>11

LEMMA RetryRiskKeeps == ASSUME LifeInv, NEW p \in Pairs, RetryRisk(p) PROVE LifeInv'
<1>1. Claimed(p) /\ db[p].status = "RISK_CHECKING"
  BY AtIntent DEF RetryRisk, InFlight
<1>2. PICK s \in SessionRecord : s = db[p]
  BY AtPair
<1>3. /\ \/ ApplyRow(p, s, FALSE) /\ trades' = trades
         \/ ApplyFails
      /\ End(p) /\ UNCHANGED <<chain, exec, loaded, up>>
  BY <1>1, <1>2, AtClaim DEF RetryRisk, Decide
<1> QED
  BY <1>1, <1>2, <1>3, AtClaim, DecideStep DEF Waiting

LEMMA DropBuyKeeps == ASSUME LifeInv, NEW p \in Pairs, DropBuy(p) PROVE LifeInv'
<1>1. /\ Claimed(p) /\ ~HasRef(db[p]) /\ ~db[p].entry /\ ~db[p].exit
  BY AtIntent DEF DropBuy, InFlight
<1>2. PICK s0 \in SessionRecord : s0 = op[p].ses
  BY AtPair
<1>3. "REJECTED" \in Status
  BY DEF Status, Terminal
<1>4. PICK s \in SessionRecord : s = With(s0, "REJECTED")
  BY <1>3, WithTyped
<1>5. s.status = "REJECTED" /\ s.entry = db[p].entry /\ s.exit = db[p].exit /\ s.ref = db[p].ref
  BY <1>1, <1>2, <1>3, <1>4, WithTyped, AtClaim
<1>6. /\ \/ ApplyRow(p, s, FALSE) /\ trades' = trades
         \/ ApplyFails
      /\ End(p) /\ UNCHANGED <<chain, exec, loaded, up>>
  BY <1>2, <1>4 DEF DropBuy, Decide
<1>7. Credible(trades[p], chain[p], s) /\ Referred(trades[p], chain[p], 0, s)
  BY <1>1, <1>5 DEF Credible, Referred, HasRef, Waiting
<1> QED
  BY <1>1, <1>5, <1>6, <1>7, DecideStep DEF Waiting

LEMMA ResumeThrowsKeeps == ASSUME LifeInv, NEW p \in Pairs, ResumeThrows(p) PROVE LifeInv'
<1>1. Claimed(p)
  BY DEF ResumeThrows, Intent
<1> QED
  BY <1>1, AtClaim, LeaveStep DEF ResumeThrows

------------------------------------------------------------------------------
(* An operation calls the executor.                                         *)

\* The execution a call starts.
Queued(side, t) == [Idle EXCEPT !.pc = "queued", !.side = side, !.trade = t]

LEMMA QueuedTyped ==
  ASSUME NEW side \in Sides, NEW t \in Nat
  PROVE  LET e == Queued(side, t) IN
         /\ e \in ExecRecord /\ e.pc = "queued" /\ e.side = side /\ e.trade = t
BY IdleTyped DEF Queued, ExecRecord, ExecPc, Idle

\* A call for a new trade.
LEMMA CallStep ==
  ASSUME LifeInv, NEW p \in Pairs, NEW side \in Sides, Call(p, side, 0), trades' = trades, chain' = chain,
         NEW d, NEW l, NEW k, NEW o, Rows(p, d, l, k, o, loaded[p]),
         side = "BUY" => \A i \in Side(trades[p], "BUY") : Dead(trades[p][i], chain[p][i]),
         Operating(trades[p], chain[p], Queued(side, 0), d, l, k, o),
         Copied(trades[p], chain[p], d, k, loaded[p]),
         Stored(trades[p], chain[p], Queued(side, 0), d, l, k, o),
         o.kind # "none" /\ op[p].kind = "none" => ~Recovering,
         o.kind = "recovery" => op[p].kind = "recovery",
         up
  PROVE  LifeInv'
<1> DEFINE e == Queued(side, 0)
<1>1. e \in ExecRecord /\ e.pc = "queued" /\ e.side = side /\ e.trade = 0
  BY QueuedTyped
<1>2. exec \in [Pairs -> ExecRecord] /\ exec' = [exec EXCEPT ![p] = e]
  BY DEF Call, Queued, LifeInv, TypeOK, ExecTypeOK
<1> HIDE DEF e
<1>3. exec'[p] = e /\ \A q \in Pairs : q # p => exec'[q] = exec[q]
  BY <1>2
<1>4. ExecInv'
  BY <1>1, <1>2, <1>3, ExecOnly DEF LifeInv
<1>5. Working(trades[p], chain[p], e)
  BY <1>1, AtPair DEF Working
<1>6. Buying(trades[p], chain[p], e)
  BY <1>1, AtPair DEF Buying
<1>7. Life(trades'[p], chain'[p], exec'[p], d, l, k, o, loaded[p])
  BY <1>3, <1>5, <1>6 DEF Life, e
<1>8. o.kind = "recovery" => loaded[p] = <<>>
  BY DEF LifeInv, Apart
<1> QED
  BY <1>3, <1>4, <1>7, <1>8, PairStep

LEMMA BuyKeeps == ASSUME LifeInv, NEW p \in Pairs, Buy(p) PROVE LifeInv'
<1>1. /\ op[p].kind = "buy" /\ op[p].pc = "amount" /\ Call(p, "BUY", 0)
      /\ trades' = trades /\ chain' = chain /\ UNCHANGED <<rowVars, loaded, up>>
  BY DEF Buy
<1>2. /\ op[p].ses = db[p] /\ ~quarantined[p] /\ ~leased[p] /\ db[p].status = "BUY_PENDING"
      /\ trades[p] = <<>> /\ exec[p].pc = "none" /\ exec[p].trade = 0
  BY <1>1, AtPair DEF Operating, Working
<1>3. PICK s \in SessionRecord : s = op[p].ses
  BY AtPair
<1>4. PICK o \in OpRecord : op' = [op EXCEPT ![p] = o] /\ o.kind = "buy" /\ o.pc = "exec" /\ o.ses = db[p]
  <2>1. Advance(p, "exec", s)
    BY <1>3 DEF Buy
  <2> QED
    BY <1>1, <1>2, <1>3, <2>1, Advances
<1>5. Rows(p, db[p], leased[p], quarantined[p], o, loaded[p])
  BY <1>1, <1>4, AtPair DEF Rows, LifeInv, TypeOK, rowVars
<1> DEFINE e == Queued("BUY", 0)
<1>6. e.pc = "queued" /\ e.side = "BUY" /\ e.trade = 0 /\ "BUY" \in Sides
  BY QueuedTyped DEF Sides
<1>7. Side(trades[p], "BUY") = {} /\ Side(trades[p], "SELL") = {}
  BY <1>2 DEF Side
<1> HIDE DEF e
<1>8. Operating(trades[p], chain[p], e, db[p], leased[p], quarantined[p], o)
  BY <1>1, <1>2, <1>4, <1>6, AtPair DEF Operating, Stored
<1>9. Stored(trades[p], chain[p], e, db[p], leased[p], quarantined[p], o)
  BY <1>1, <1>2, <1>4, <1>6, <1>7, AtPair DEF Stored, Waiting
<1>10. up
  BY <1>1 DEF LifeInv, Apart
<1> QED
  BY <1>1, <1>4, <1>5, <1>6, <1>7, <1>8, <1>9, <1>10, AtPair, CallStep DEF e

LEMMA PerformSellKeeps ==
  ASSUME LifeInv, NEW p \in Pairs, Free(p), Open(db[p]), PerformSell(p),
         db[p].status \in {"HOLDING", "MANUAL_REVIEW"},
         trades' = trades, chain' = chain, UNCHANGED <<loaded, up>>
  PROVE  LifeInv'
<1> DEFINE s == With(db[p], "SELL_PENDING")
           o == [kind |-> "sell", pc |-> "exec", ses |-> s]
           e == Queued("SELL", 0)
<1>1. /\ s \in SessionRecord /\ s.status = "SELL_PENDING"
      /\ s.entry = db[p].entry /\ s.exit = db[p].exit /\ s.ref = db[p].ref
  BY AtPair, WithTyped DEF Status, Active, InFlight
<1>2. o \in OpRecord /\ o.kind = "sell" /\ o.pc = "exec" /\ o.ses = s
  BY <1>1, BeginTyped
<1>3. /\ ~leased[p] /\ db' = [db EXCEPT ![p] = s] /\ leased' = leased /\ quarantined' = quarantined
      /\ op' = [op EXCEPT ![p] = o] /\ Call(p, "SELL", 0)
      /\ op[p].kind = "none" /\ up /\ ~Recovering
  BY DEF PerformSell, Store, Begin, Free
<1>4. e.pc = "queued" /\ e.side = "SELL" /\ e.trade = 0 /\ "SELL" \in Sides
  BY QueuedTyped DEF Sides
<1> HIDE DEF s, o, e
<1>5. exec[p].pc = "none" /\ exec[p].trade = 0
  BY <1>3, AtPair DEF Operating, Working
<1>6. Rows(p, s, leased[p], quarantined[p], o, loaded[p])
  BY <1>1, <1>2, <1>3, AtPair DEF Rows, LifeInv, TypeOK
<1>7. Credible(trades[p], chain[p], s) /\ Referred(trades[p], chain[p], 0, s)
  BY <1>1, <1>5, AtPair DEF Stored, Credible, Referred, Open, HasRef, Waiting
<1>8. Operating(trades[p], chain[p], e, s, leased[p], quarantined[p], o)
  BY <1>1, <1>2, <1>3, <1>4, <1>7 DEF Operating
<1>9. Copied(trades[p], chain[p], s, quarantined[p], loaded[p])
  BY <1>1, AtPair DEF Copied
<1>10. Stored(trades[p], chain[p], e, s, leased[p], quarantined[p], o)
  BY <1>1, <1>2, <1>3, <1>4, <1>7 DEF Stored, Open, Waiting
<1> QED
  BY <1>2, <1>3, <1>4, <1>6, <1>8, <1>9, <1>10, CallStep DEF e

LEMMA SellManuallyKeeps == ASSUME LifeInv, NEW p \in Pairs, SellManually(p) PROVE LifeInv'
BY PerformSellKeeps DEF SellManually, CanSellManually

LEMMA SellByPolicyKeeps == ASSUME LifeInv, NEW p \in Pairs, SellByPolicy(p) PROVE LifeInv'
BY PerformSellKeeps DEF SellByPolicy

LEMMA ResumeBuyKeeps == ASSUME LifeInv, NEW p \in Pairs, ResumeBuy(p) PROVE LifeInv'
<1> DEFINE t == SelectTrade(p)
           e == Queued("BUY", 0)
<1>1. /\ Intent(p, {"RISK_CHECKING", "BUY_PENDING"}) /\ ~Simulated(p) /\ Call(p, "BUY", 0)
      /\ trades' = trades /\ chain' = chain /\ UNCHANGED <<rowVars, loaded, up>>
  BY DEF ResumeBuy
<1>2. /\ Claimed(p) /\ db[p].status \in {"RISK_CHECKING", "BUY_PENDING"}
      /\ ~HasRef(db[p]) /\ ~db[p].entry /\ ~db[p].exit
      /\ t = 0 => Side(trades[p], "BUY") = {}
      /\ t # 0 => /\ t \in Side(trades[p], "BUY")
                  /\ \A j \in Side(trades[p], "BUY") : j <= t
                  /\ \A step \in Steps : trades[p][t].tx[step] = "NONE"
  BY <1>1, AtIntent DEF InFlight
<1>3. t # 0 => trades[p][t].status # "SIMULATED"
  BY <1>1 DEF Simulated
<1>4. ASSUME NEW i \in Side(trades[p], "BUY") PROVE Dead(trades[p][i], chain[p][i])
  <2>1. t # 0 /\ t \in DOMAIN trades[p] /\ i \in DOMAIN trades[p] /\ DOMAIN trades[p] \subseteq Nat
    BY <1>2, LenProperties DEF Side, LifeInv, TypeOK, ExecTypeOK
  <2>2. CASE i = t
    <3>1. Sound(trades[p][t], chain[p][t])
      BY <2>1 DEF LifeInv, ExecInv, TradesSound
    <3> QED
      BY <1>2, <1>3, <2>1, <2>2, <3>1 DEF Dead, Sound, Steps
  <2>3. CASE i # t
    <3>1. i < t
      BY <1>2, <2>1, <2>3
    <3> QED
      BY <1>2, <2>1, <3>1, AtPair DEF Buying
  <2> QED
    BY <2>2, <2>3
<1> HIDE DEF t
<1>5. PICK s0 \in SessionRecord : s0 = op[p].ses
  BY AtPair
<1>6. "BUY_PENDING" \in Status
  BY DEF Status, Active, InFlight
<1>7. PICK s \in SessionRecord : s = With(s0, "BUY_PENDING")
  BY <1>6, WithTyped
<1>8. s.status = "BUY_PENDING" /\ s.entry = db[p].entry /\ s.exit = db[p].exit /\ s.ref = db[p].ref
  BY <1>2, <1>5, <1>6, <1>7, WithTyped, AtClaim
<1>9. s = With(db[p], "BUY_PENDING") /\ leased[p] /\ ~quarantined[p] /\ up
  BY <1>2, <1>5, <1>7, AtClaim
<1>10. PICK o \in OpRecord : op' = [op EXCEPT ![p] = o] /\ o.kind = "recovery" /\ o.pc = "exec" /\ o.ses = s
  <2>1. Advance(p, "exec", s)
    BY <1>5, <1>7 DEF ResumeBuy
  <2> QED
    BY <1>2, <2>1, Advances DEF Claimed
<1>11. Rows(p, db[p], leased[p], quarantined[p], o, loaded[p])
  BY <1>1, <1>10, AtPair DEF Rows, LifeInv, TypeOK, rowVars
<1>12. e.pc = "queued" /\ e.side = "BUY" /\ e.trade = 0 /\ "BUY" \in Sides
  BY QueuedTyped DEF Sides
<1> HIDE DEF e
<1>13. Credible(trades[p], chain[p], s) /\ Referred(trades[p], chain[p], 0, s)
  BY <1>2, <1>8 DEF Credible, Referred, HasRef, Waiting
<1>14. Operating(trades[p], chain[p], e, db[p], leased[p], quarantined[p], o)
  BY <1>2, <1>9, <1>10, <1>12, <1>13 DEF Operating
<1>15. Stored(trades[p], chain[p], e, db[p], leased[p], quarantined[p], o)
  BY <1>2, <1>9, <1>10, <1>12, AtClaim, AtPair DEF Stored, Waiting
<1> QED
  BY <1>1, <1>2, <1>4, <1>9, <1>10, <1>11, <1>12, <1>14, <1>15, AtPair, CallStep DEF e, Claimed

LEMMA ResumeSellKeeps == ASSUME LifeInv, NEW p \in Pairs, ResumeSell(p) PROVE LifeInv'
<1> DEFINE e == Queued("SELL", 0)
<1>1. /\ Intent(p, {"SELL_PENDING"}) /\ Call(p, "SELL", 0)
      /\ trades' = trades /\ chain' = chain /\ UNCHANGED <<rowVars, loaded, up>>
  BY DEF ResumeSell
<1>2. Claimed(p) /\ db[p].status = "SELL_PENDING" /\ ~HasRef(db[p]) /\ db[p].entry /\ ~db[p].exit
  BY <1>1, AtIntent DEF InFlight
<1>3. PICK s \in SessionRecord : s = op[p].ses
  BY AtPair
<1>4. PICK o \in OpRecord : op' = [op EXCEPT ![p] = o] /\ o.kind = "recovery" /\ o.pc = "exec" /\ o.ses = db[p]
  <2>1. Advance(p, "exec", s)
    BY <1>3 DEF ResumeSell
  <2> QED
    BY <1>2, <1>3, <2>1, Advances, AtClaim DEF Claimed
<1>5. Rows(p, db[p], leased[p], quarantined[p], o, loaded[p])
  BY <1>1, <1>4, AtPair DEF Rows, LifeInv, TypeOK, rowVars
<1>6. e.pc = "queued" /\ e.side = "SELL" /\ e.trade = 0 /\ "SELL" \in Sides
  BY QueuedTyped DEF Sides
<1> HIDE DEF e
<1>7. Operating(trades[p], chain[p], e, db[p], leased[p], quarantined[p], o)
  BY <1>2, <1>4, <1>6, AtClaim DEF Operating
<1>8. Stored(trades[p], chain[p], e, db[p], leased[p], quarantined[p], o)
  BY <1>2, <1>4, <1>6, AtClaim, AtPair DEF Stored, Waiting
<1> QED
  BY <1>1, <1>2, <1>4, <1>5, <1>6, <1>7, <1>8, AtClaim, AtPair, CallStep DEF e, Claimed

------------------------------------------------------------------------------
(* The executor answers.                                                    *)

\* The operation ends with the row d.
LEMMA ReturnStep ==
  ASSUME LifeInv, NEW p \in Pairs, End(p), Return(p), trades' = trades, chain' = chain,
         UNCHANGED <<loaded, up>>,
         NEW d \in SessionRecord, NEW l \in BOOLEAN, NEW k \in BOOLEAN,
         db' = [db EXCEPT ![p] = d], leased' = [leased EXCEPT ![p] = l],
         quarantined' = [quarantined EXCEPT ![p] = k],
         k => loaded[p] = <<>> \/ quarantined[p],
         db[p].entry => d.entry, d.status # Waiting,
         Credible(trades[p], chain[p], d), Referred(trades[p], chain[p], 0, d),
         l => ClaimsRow(d, k),
         k => d.status \in {"MANUAL_REVIEW", "SELL_PENDING", "CLOSED"}
  PROVE  LifeInv'
<1>1. Idle \in ExecRecord /\ Idle.pc = "none" /\ Idle.trade = 0
  BY IdleTyped
<1>2. exec \in [Pairs -> ExecRecord] /\ exec' = [exec EXCEPT ![p] = Idle]
  BY DEF Return, LifeInv, TypeOK, ExecTypeOK
<1>3. exec'[p] = Idle /\ \A q \in Pairs : q # p => exec'[q] = exec[q]
  BY <1>2
<1>4. ExecInv'
  BY <1>1, <1>2, <1>3, ExecOnly DEF LifeInv
<1>5. Rows(p, d, l, k, NoOp, loaded[p])
  BY AtPair, NoOpTyped DEF Rows, LifeInv, TypeOK, End
<1>6. Working(trades[p], chain[p], Idle) /\ Buying(trades[p], chain[p], Idle)
  BY <1>1, AtPair DEF Working, Buying
<1>7. Operating(trades[p], chain[p], Idle, d, l, k, NoOp)
  BY <1>1, NoOpTyped DEF Operating
<1>8. Copied(trades[p], chain[p], d, k, loaded[p])
  BY AtPair DEF Copied
<1>9. Stored(trades[p], chain[p], Idle, d, l, k, NoOp)
  BY <1>1, AtPair, NoOpTyped DEF Stored
<1>10. Life(trades'[p], chain'[p], exec'[p], d, l, k, NoOp, loaded[p])
  BY <1>3, <1>6, <1>7, <1>8, <1>9 DEF Life
<1>11. loaded[p] # <<>> => up
  BY DEF LifeInv, Apart
<1> QED
  BY <1>3, <1>4, <1>5, <1>10, <1>11, NoOpTyped, PairStep

\* No reference names trade 0.
LEMMA ReferredStays ==
  ASSUME LifeInv, NEW p \in Pairs, NEW t, NEW s \in SessionRecord, Referred(trades[p], chain[p], t, s)
  PROVE  Referred(trades[p], chain[p], 0, s)
<1>1. ~(0 \in DOMAIN trades[p])
  BY LenProperties DEF LifeInv, TypeOK, ExecTypeOK
<1> QED
  BY <1>1 DEF Referred

\* It ends with the last save of the session s.
LEMMA ReturnSaved ==
  ASSUME LifeInv, NEW p \in Pairs, End(p), Return(p), trades' = trades, chain' = chain,
         UNCHANGED <<loaded, up>>, op[p].kind # "none",
         NEW s \in SessionRecord, StoreLast(p, s),
         db[p].entry => s.entry, s.status # Waiting,
         Credible(trades[p], chain[p], s), Referred(trades[p], chain[p], 0, s),
         quarantined[p] => s.status \in {"MANUAL_REVIEW", "SELL_PENDING", "CLOSED"}
  PROVE  LifeInv'
<1>1. /\ db \in [Pairs -> SessionRecord] /\ leased \in [Pairs -> BOOLEAN] /\ quarantined \in [Pairs -> BOOLEAN]
      /\ db[p] \in SessionRecord /\ leased[p] \in BOOLEAN /\ quarantined[p] \in BOOLEAN
  BY DEF LifeInv, TypeOK
<1>2. leased = [leased EXCEPT ![p] = leased[p]] /\ quarantined = [quarantined EXCEPT ![p] = quarantined[p]]
      /\ db = [db EXCEPT ![p] = db[p]]
  BY <1>1
<1>3. CASE Store(p, s)
  <2>1. ~leased[p] /\ db' = [db EXCEPT ![p] = s] /\ leased' = leased /\ quarantined' = quarantined
    BY <1>3 DEF Store
  <2> QED
    BY <1>1, <1>2, <2>1, ReturnStep
<1>4. CASE StoreFails(p)
  <2>1. db' = db /\ leased' = leased /\ quarantined' = quarantined
    BY <1>4 DEF StoreFails, rowVars
  <2>2. Credible(trades[p], chain[p], db[p]) /\ db[p].status # Waiting
        /\ (leased[p] => ClaimsRow(db[p], quarantined[p]))
        /\ (quarantined[p] => db[p].status \in {"MANUAL_REVIEW", "SELL_PENDING", "CLOSED"})
    BY AtPair DEF Stored
  <2>3. Referred(trades[p], chain[p], 0, db[p])
    BY AtPair, ReferredStays DEF Stored
  <2> QED
    BY <1>1, <1>2, <2>1, <2>2, <2>3, ReturnStep
<1> QED
  BY <1>3, <1>4 DEF StoreLast

\* An answer that the trade is done.
LEMMA AnswerDone ==
  ASSUME LifeInv, NEW p \in Pairs, exec[p].pc = "done", exec[p].outcome = "ok"
  PROVE  \E i \in Side(trades[p], exec[p].side) : Done(trades[p][i], chain[p][i])
<1>1. exec[p].trade # 0 /\ Answered(exec[p], trades[p][exec[p].trade], chain[p][exec[p].trade])
  BY AtPair DEF Working
<1>2. exec[p].trade \in DOMAIN trades[p]
  BY <1>1, AtWork DEF LifeInv
<1> QED
  BY <1>1, <1>2 DEF Answered, Side

\* An answer that leaves the outcome open: the reference it gives is sound.
LEMMA AnswerReferred ==
  ASSUME LifeInv, NEW p \in Pairs, exec[p].pc = "done", NEW s \in SessionRecord,
         exec[p].side = "SELL" => s.entry /\ ~s.exit,
         exec[p].side = "BUY" => ~s.entry /\ ~s.exit,
         Referred(trades[p], chain[p], exec[p].trade, s)
  PROVE  LET r == WithOutcome(p, s) IN
         /\ r \in SessionRecord
         /\ r.status = s.status /\ r.entry = s.entry /\ r.exit = s.exit
         /\ exec[p].outcome \notin {"unknown", "measure"} => r.ref = s.ref
         /\ Referred(trades[p], chain[p], 0, r)
<1>1. CASE exec[p].outcome \notin {"unknown", "measure"}
  <2>1. WithOutcome(p, s) = s
    BY <1>1 DEF WithOutcome
  <2> QED
    BY <2>1, ReferredStays
<1>2. CASE exec[p].outcome \in {"unknown", "measure"}
  <2> DEFINE ref == [trade |-> exec[p].trade, step |-> exec[p].step]
             r == [s EXCEPT !.ref = ref]
  <2>1. exec[p].trade # 0
    BY <1>2, AtPair DEF Working
  <2>2. /\ exec[p] \in ExecRecord /\ exec[p].trade \in DOMAIN trades[p]
        /\ Answered(exec[p], trades[p][exec[p].trade], chain[p][exec[p].trade])
    BY <2>1, AtWork, AtPair DEF LifeInv, Working
  <2>3. ref \in Reference /\ ref.trade = exec[p].trade /\ ref.step = exec[p].step
    BY <2>2 DEF Reference, ExecRecord
  <2>4. WithOutcome(p, s) = r
    BY <1>2 DEF WithOutcome
  <2>5. exec[p].side = "BUY" => \A j \in Side(trades[p], "BUY") : j <= exec[p].trade
    BY <2>1, AtPair DEF Buying
  <2> HIDE DEF ref
  <2>6. /\ r \in SessionRecord /\ r.status = s.status /\ r.entry = s.entry /\ r.exit = s.exit /\ r.ref = ref
    BY <2>3, RefTyped DEF SessionRecord
  <2>7. ~(0 \in DOMAIN trades[p])
    BY LenProperties DEF LifeInv, TypeOK, ExecTypeOK
  <2> HIDE DEF r
  <2>8. Referred(trades[p], chain[p], 0, r)
    BY <1>2, <2>2, <2>3, <2>5, <2>6, <2>7 DEF Answered, Referred
  <2> QED
    BY <1>2, <2>4, <2>6, <2>8
<1> QED
  BY <1>1, <1>2

\* The session a purchase leaves, whatever the answer.
LEMMA EndBuyKeeps == ASSUME LifeInv, NEW p \in Pairs, EndBuy(p) PROVE LifeInv'
<1>1. /\ op[p].kind = "buy" /\ op[p].pc = "exec" /\ exec[p].pc = "done" /\ BuyAnswered(p)
      /\ End(p) /\ Return(p) /\ trades' = trades /\ chain' = chain /\ UNCHANGED <<loaded, up>>
  BY DEF EndBuy
<1>2. /\ op[p].ses = db[p] /\ db[p].status = "BUY_PENDING" /\ ~quarantined[p] /\ exec[p].side = "BUY"
      /\ Credible(trades[p], chain[p], db[p]) /\ Referred(trades[p], chain[p], exec[p].trade, db[p])
  BY <1>1, AtPair DEF Operating, Stored
<1>3. PICK s \in SessionRecord : s = op[p].ses
  BY AtPair
<1>4. /\ s = db[p] /\ ~s.entry /\ ~s.exit /\ ~HasRef(s) /\ s.status = "BUY_PENDING"
  BY <1>2, <1>3 DEF Credible
<1>5. {"REJECTED", "MANUAL_REVIEW"} \subseteq Status
  BY DEF Status, Active, Terminal
<1>6. CASE exec[p].outcome = "ok"
  <2>1. PICK r \in SessionRecord : r = Entered(s)
    BY EnteredTyped
  <2>2. r.status = "HOLDING" /\ r.entry = TRUE /\ ~r.exit /\ r.ref = NoRef
    BY <1>4, <2>1, EnteredTyped
  <2>3. \E i \in Side(trades[p], "BUY") : Done(trades[p][i], chain[p][i])
    BY <1>1, <1>2, <1>6, AnswerDone
  <2>4. PICK w \in SessionRecord : w = With(r, "REJECTED")
    BY <1>5, WithTyped
  <2>5. w.status = "REJECTED" /\ w.entry = TRUE /\ ~w.exit /\ w.ref = NoRef
    BY <1>5, <2>2, <2>4, WithTyped
  <2>6. StoreLast(p, r) \/ StoreLast(p, w)
    BY <1>1, <1>3, <1>6, <2>1, <2>4 DEF BuyAnswered, StoreLast
  <2>7. /\ Credible(trades[p], chain[p], r) /\ Referred(trades[p], chain[p], 0, r)
        /\ Credible(trades[p], chain[p], w) /\ Referred(trades[p], chain[p], 0, w)
    BY <2>2, <2>3, <2>5 DEF Credible, Referred, Open, HasRef, Waiting
  <2> QED
    BY <1>1, <1>2, <2>2, <2>5, <2>6, <2>7, ReturnSaved DEF Waiting
<1>7. CASE exec[p].outcome # "ok"
  <2>1. PICK r \in SessionRecord : r = WithOutcome(p, s)
    BY <1>1, <1>2, <1>4, AnswerReferred
  <2>2. r.entry = s.entry /\ r.exit = s.exit /\ Referred(trades[p], chain[p], 0, r)
    BY <1>1, <1>2, <1>4, <2>1, AnswerReferred
  <2>3. PICK m \in SessionRecord : m = With(r, "MANUAL_REVIEW")
    BY <1>5, WithTyped
  <2>4. m.status = "MANUAL_REVIEW" /\ m.entry = s.entry /\ m.exit = s.exit /\ m.ref = r.ref
    BY <1>5, <2>2, <2>3, WithTyped
  <2>5. PICK w \in SessionRecord : w = With(s, "REJECTED")
    BY <1>5, WithTyped
  <2>6. w.status = "REJECTED" /\ w.entry = s.entry /\ w.exit = s.exit /\ w.ref = s.ref
    BY <1>5, <2>5, WithTyped
  <2>7. StoreLast(p, m) \/ StoreLast(p, w)
    BY <1>1, <1>3, <1>7, <2>1, <2>3, <2>5 DEF BuyAnswered
  <2>8. Credible(trades[p], chain[p], m) /\ Credible(trades[p], chain[p], w)
    BY <1>4, <2>4, <2>6 DEF Credible, Waiting
  <2>9. Referred(trades[p], chain[p], 0, m)
    BY <2>2, <2>4 DEF Referred, HasRef
  <2>10. Referred(trades[p], chain[p], 0, w)
    BY <1>4, <2>6 DEF Referred, HasRef
  <2> QED
    BY <1>1, <1>2, <1>4, <2>4, <2>6, <2>7, <2>8, <2>9, <2>10, ReturnSaved DEF Waiting
<1> QED
  BY <1>6, <1>7

\* The session a sale leaves.
LEMMA EndSellKeeps == ASSUME LifeInv, NEW p \in Pairs, EndSell(p) PROVE LifeInv'
<1>1. /\ op[p].kind = "sell" /\ exec[p].pc = "done" /\ SellAnswered(p)
      /\ End(p) /\ Return(p) /\ trades' = trades /\ chain' = chain /\ UNCHANGED <<loaded, up>>
  BY DEF EndSell
<1>2. PICK s \in SessionRecord : s = op[p].ses
  BY AtPair
<1>3. /\ s.status = "SELL_PENDING" /\ exec[p].side = "SELL"
      /\ Credible(trades[p], chain[p], s) /\ Referred(trades[p], chain[p], exec[p].trade, s)
  BY <1>1, <1>2, AtPair DEF Operating
<1>4. s.entry /\ ~s.exit /\ \E i \in Side(trades[p], "BUY") : Done(trades[p][i], chain[p][i])
  BY <1>3 DEF Credible, Open
<1>5. "MANUAL_REVIEW" \in Status
  BY DEF Status, Active
<1>6. CASE exec[p].outcome = "ok"
  <2>1. PICK r \in SessionRecord : r = Exited(s)
    BY ExitedTyped
  <2>2. r.status = "CLOSED" /\ r.entry /\ r.exit = TRUE /\ r.ref = NoRef
    BY <1>4, <2>1, ExitedTyped
  <2>3. \E i \in Side(trades[p], "SELL") : Done(trades[p][i], chain[p][i])
    BY <1>1, <1>3, <1>6, AnswerDone
  <2>4. PICK w \in SessionRecord : w = With(r, "MANUAL_REVIEW")
    BY <1>5, WithTyped
  <2>5. w.status = "MANUAL_REVIEW" /\ w.entry /\ w.exit = TRUE /\ w.ref = NoRef
    BY <1>5, <2>2, <2>4, WithTyped
  <2>6. StoreLast(p, r) \/ StoreLast(p, w)
    BY <1>1, <1>2, <1>6, <2>1, <2>4 DEF SellAnswered, StoreLast
  <2>7. /\ Credible(trades[p], chain[p], r) /\ Referred(trades[p], chain[p], 0, r)
        /\ Credible(trades[p], chain[p], w) /\ Referred(trades[p], chain[p], 0, w)
    BY <1>4, <2>2, <2>3, <2>5 DEF Credible, Referred, Open, HasRef, Waiting
  <2> QED
    BY <1>1, <2>2, <2>5, <2>6, <2>7, ReturnSaved DEF Waiting
<1>7. CASE exec[p].outcome # "ok"
  <2>1. PICK r \in SessionRecord : r = WithOutcome(p, s)
    BY <1>1, <1>3, <1>4, AnswerReferred
  <2>2. r.entry = s.entry /\ r.exit = s.exit /\ Referred(trades[p], chain[p], 0, r)
    BY <1>1, <1>3, <1>4, <2>1, AnswerReferred
  <2>3. PICK m \in SessionRecord : m = With(r, "MANUAL_REVIEW")
    BY <1>5, WithTyped
  <2>4. m.status = "MANUAL_REVIEW" /\ m.entry = s.entry /\ m.exit = s.exit /\ m.ref = r.ref
    BY <1>5, <2>2, <2>3, WithTyped
  <2>5. StoreLast(p, m)
    BY <1>1, <1>2, <1>7, <2>1, <2>3 DEF SellAnswered
  <2>6. Credible(trades[p], chain[p], m)
    BY <1>4, <2>4 DEF Credible, Waiting
  <2>7. Referred(trades[p], chain[p], 0, m)
    BY <2>2, <2>4 DEF Referred, HasRef
  <2> QED
    BY <1>1, <1>4, <2>4, <2>5, <2>6, <2>7, ReturnSaved DEF Waiting
<1> QED
  BY <1>6, <1>7

\* The session a resumed purchase or sale leaves.
LEMMA EndResumeKeeps == ASSUME LifeInv, NEW p \in Pairs, EndResume(p) PROVE LifeInv'
<1>1. /\ op[p].kind = "recovery" /\ exec[p].pc = "done"
      /\ ApplyRow(p, Resumed(p), FALSE) \/ (StoreFaults /\ UNCHANGED rowVars)
      /\ End(p) /\ Return(p) /\ trades' = trades /\ chain' = chain /\ UNCHANGED <<loaded, up>>
  BY DEF EndResume
<1>2. PICK s \in SessionRecord : s = op[p].ses
  BY AtPair
<1>3. /\ Credible(trades[p], chain[p], s) /\ Referred(trades[p], chain[p], exec[p].trade, s)
      /\ db[p] \in SessionRecord /\ leased[p] \in BOOLEAN /\ quarantined[p] \in BOOLEAN
      /\ leased[p] /\ ~quarantined[p] /\ loaded[p] = <<>>
  BY <1>1, <1>2, AtPair DEF Operating, Stored, LifeInv, Apart
<1>4. /\ db \in [Pairs -> SessionRecord] /\ leased \in [Pairs -> BOOLEAN] /\ quarantined \in [Pairs -> BOOLEAN]
      /\ leased = [leased EXCEPT ![p] = leased[p]] /\ quarantined = [quarantined EXCEPT ![p] = quarantined[p]]
      /\ db = [db EXCEPT ![p] = db[p]]
  BY DEF LifeInv, TypeOK
<1>5. CASE UNCHANGED rowVars
  <2>1. db' = db /\ leased' = leased /\ quarantined' = quarantined
    BY <1>5 DEF rowVars
  <2>2. Credible(trades[p], chain[p], db[p]) /\ db[p].status # Waiting /\ ClaimsRow(db[p], quarantined[p])
    BY <1>1, <1>3, AtPair DEF Stored
  <2>3. Referred(trades[p], chain[p], 0, db[p])
    BY AtPair, ReferredStays DEF Stored
  <2> QED
    BY <1>1, <1>3, <1>4, <2>1, <2>2, <2>3, ReturnStep
<1>6. ASSUME NEW r \in SessionRecord, ApplyRow(p, r, FALSE),
             db[p].entry => r.entry, r.status # Waiting,
             Credible(trades[p], chain[p], r), Referred(trades[p], chain[p], 0, r)
      PROVE  LifeInv'
  BY <1>1, <1>6, ReturnStep DEF ApplyRow
<1>7. exec[p].pc # "none" /\ op[p].pc = "exec"
  BY <1>1, AtPair DEF Operating
<1>8. exec[p].side = "BUY" \/ exec[p].side = "SELL"
  BY DEF LifeInv, TypeOK, ExecTypeOK, ExecRecord, Sides
<1>9. {"REJECTED", "MANUAL_REVIEW", "HOLDING"} \subseteq Status
  BY DEF Status, Active, Terminal
<1>10. CASE exec[p].side = "BUY" /\ ApplyRow(p, Resumed(p), FALSE)
  <2>1. s = With(db[p], "BUY_PENDING") /\ "BUY_PENDING" \in Status
    BY <1>1, <1>2, <1>7, <1>10, AtPair DEF Operating, Status, Active, InFlight
  <2>2. s.status = "BUY_PENDING" /\ s.entry = db[p].entry
    BY <1>3, <2>1, WithTyped
  <2>3. ~s.entry /\ ~s.exit /\ ~HasRef(s)
    BY <1>3, <2>2 DEF Credible
  <2>4. CASE exec[p].outcome = "ok"
    <3>1. PICK r \in SessionRecord : r = Entered(s)
      BY EnteredTyped
    <3>2. r.status = "HOLDING" /\ r.entry = TRUE /\ ~r.exit /\ r.ref = NoRef
      BY <2>3, <3>1, EnteredTyped
    <3>3. ApplyRow(p, r, FALSE)
      BY <1>2, <1>10, <2>4, <3>1 DEF Resumed
    <3>4. \E i \in Side(trades[p], "BUY") : Done(trades[p][i], chain[p][i])
      BY <1>1, <1>10, <2>4, AnswerDone
    <3>5. Credible(trades[p], chain[p], r) /\ Referred(trades[p], chain[p], 0, r)
      BY <3>2, <3>4 DEF Credible, Referred, Open, HasRef, Waiting
    <3> QED
      BY <1>6, <3>2, <3>3, <3>5 DEF Waiting
  <2>5. CASE exec[p].outcome # "ok"
    <3>1. PICK w \in SessionRecord : w = WithOutcome(p, s)
      BY <1>1, <1>3, <1>10, <2>3, AnswerReferred
    <3>2. w.entry = s.entry /\ w.exit = s.exit /\ Referred(trades[p], chain[p], 0, w)
      BY <1>1, <1>3, <1>10, <2>3, <3>1, AnswerReferred
    <3>3. PICK status \in {"REJECTED", "MANUAL_REVIEW"} :
            status = IF NeedsReview(p) THEN "MANUAL_REVIEW" ELSE "REJECTED"
      OBVIOUS
    <3>4. PICK r \in SessionRecord : r = With(w, status)
      BY <1>9, WithTyped
    <3>5. r.status = status /\ r.entry = s.entry /\ r.exit = s.exit /\ r.ref = w.ref
      BY <1>9, <3>2, <3>4, WithTyped
    <3>6. ApplyRow(p, r, FALSE)
      BY <1>2, <1>10, <2>5, <3>1, <3>3, <3>4 DEF Resumed
    <3>7. Credible(trades[p], chain[p], r) /\ Referred(trades[p], chain[p], 0, r)
      BY <2>3, <3>2, <3>5 DEF Credible, Referred, HasRef, Waiting
    <3> QED
      BY <1>6, <2>2, <3>5, <3>6, <3>7 DEF Waiting
  <2> QED
    BY <2>4, <2>5
<1>11. CASE exec[p].side = "SELL" /\ ApplyRow(p, Resumed(p), FALSE)
  <2>1. s = db[p] /\ s.status = "SELL_PENDING" /\ ~HasRef(s)
    BY <1>1, <1>2, <1>7, <1>11, AtPair DEF Operating
  <2>2. s.entry /\ ~s.exit /\ \E i \in Side(trades[p], "BUY") : Done(trades[p][i], chain[p][i])
    BY <1>3, <2>1 DEF Credible, Open
  <2>3. exec[p].side # "BUY"
    BY <1>11
  <2>4. CASE exec[p].outcome = "ok"
    <3>1. PICK r \in SessionRecord : r = Exited(s)
      BY ExitedTyped
    <3>2. r.status = "CLOSED" /\ r.entry /\ r.exit = TRUE /\ r.ref = NoRef
      BY <2>2, <3>1, ExitedTyped
    <3>3. ApplyRow(p, r, FALSE)
      BY <1>2, <1>11, <2>3, <2>4, <3>1 DEF Resumed
    <3>4. \E i \in Side(trades[p], "SELL") : Done(trades[p][i], chain[p][i])
      BY <1>1, <1>11, <2>4, AnswerDone
    <3>5. Credible(trades[p], chain[p], r) /\ Referred(trades[p], chain[p], 0, r)
      BY <2>2, <3>2, <3>4 DEF Credible, Referred, Open, HasRef, Waiting
    <3> QED
      BY <1>6, <3>2, <3>3, <3>5 DEF Waiting
  <2>5. CASE exec[p].outcome # "ok"
    <3>1. PICK w \in SessionRecord : w = WithOutcome(p, s)
      BY <1>1, <1>3, <1>11, <2>2, <2>3, AnswerReferred
    <3>2. /\ w.entry = s.entry /\ w.exit = s.exit /\ Referred(trades[p], chain[p], 0, w)
          /\ exec[p].outcome \notin {"unknown", "measure"} => w.ref = s.ref
      BY <1>1, <1>3, <1>11, <2>2, <2>3, <3>1, AnswerReferred
    <3>3. PICK status \in {"HOLDING", "MANUAL_REVIEW"} :
            status = IF NeedsReview(p) THEN "MANUAL_REVIEW" ELSE "HOLDING"
      OBVIOUS
    <3>4. PICK r \in SessionRecord : r = With(w, status)
      BY <1>9, WithTyped
    <3>5. r.status = status /\ r.entry = s.entry /\ r.exit = s.exit /\ r.ref = w.ref
      BY <1>9, <3>2, <3>4, WithTyped
    <3>6. ApplyRow(p, r, FALSE)
      BY <1>2, <1>11, <2>3, <2>5, <3>1, <3>3, <3>4 DEF Resumed
    <3>7. status = "HOLDING" => ~HasRef(r)
      BY <2>1, <3>2, <3>3, <3>5 DEF NeedsReview, HasRef
    <3>8. Credible(trades[p], chain[p], r) /\ Referred(trades[p], chain[p], 0, r)
      BY <2>2, <3>2, <3>5, <3>7 DEF Credible, Referred, Open, HasRef, Waiting
    <3> QED
      BY <1>6, <2>2, <3>5, <3>6, <3>8 DEF Waiting
  <2> QED
    BY <2>4, <2>5
<1> QED
  BY <1>1, <1>5, <1>8, <1>10, <1>11

------------------------------------------------------------------------------
(* Trades and transactions move on under a session.                         *)

\* From ts and cs to ts2 and cs2 trades keep their side and what they have
\* done, and only trade t may have got a transaction or sent one.
Grown(ts, cs, ts2, cs2, t) ==
  /\ DOMAIN ts2 = DOMAIN ts
  /\ \A i \in DOMAIN ts :
       /\ ts2[i].side = ts[i].side
       /\ Done(ts[i], cs[i]) => Done(ts2[i], cs2[i])
       /\ cs[i]["main"] = "success" => cs2[i]["main"] = "success"
       /\ i # t /\ Dead(ts[i], cs[i]) => Dead(ts2[i], cs2[i])
       /\ i # t => \A s \in Steps : ts2[i].tx[s] = "NONE" <=> ts[i].tx[s] = "NONE"

LEMMA GrownKeeps ==
  ASSUME NEW ts, NEW cs, NEW ts2, NEW cs2, NEW t, Grown(ts, cs, ts2, cs2, t)
  PROVE  /\ \A side : Side(ts2, side) = Side(ts, side)
         /\ \A s \in SessionRecord : Credible(ts, cs, s) => Credible(ts2, cs2, s)
         /\ \A s \in SessionRecord : Referred(ts, cs, t, s) => Referred(ts2, cs2, t, s)
<1>1. ASSUME NEW side PROVE Side(ts2, side) = Side(ts, side)
  BY DEF Grown, Side
<1>2. ASSUME NEW side, NEW i \in Side(ts, side), Done(ts[i], cs[i]) PROVE Done(ts2[i], cs2[i])
  BY <1>2 DEF Grown, Side
<1>3. ASSUME NEW s \in SessionRecord, Credible(ts, cs, s) PROVE Credible(ts2, cs2, s)
  BY <1>1, <1>2, <1>3 DEF Credible
<1>4. ASSUME NEW s \in SessionRecord, Referred(ts, cs, t, s) PROVE Referred(ts2, cs2, t, s)
  <2>1. s.ref.step \in Steps /\ "main" \in Steps
    BY DEF SessionRecord, Steps
  <2> QED
    BY <1>1, <1>4, <2>1 DEF Referred, Grown
<1> QED
  BY <1>1, <1>3, <1>4

\* The transaction recovery observes, its trade and its session.
LEMMA AtObserve ==
  ASSUME LifeInv, NEW p \in Pairs, Claimed(p), HasTransaction(p),
         NEW t, t = SelectTrade(p), NEW step, step = SelectStep(p)
  PROVE  /\ t \in DOMAIN trades[p] /\ step \in Steps
         /\ trades[p][t] \in TradeRecord /\ chain[p][t] \in [Steps -> ChainStatus]
         /\ Sound(trades[p][t], chain[p][t]) /\ Regular(trades[p][t])
         /\ trades[p][t].tx[step] # "NONE" /\ trades[p][t].status # "SIMULATED"
         /\ step = "approve" => trades[p][t].tx["main"] = "NONE" /\ trades[p][t].side = "SELL"
         /\ trades[p][t].side = "SELL" =>
              db[p].entry /\ (db[p].exit => step = "main" /\ chain[p][t]["main"] = "success")
         /\ trades[p][t].side = "BUY" =>
              /\ ~db[p].exit /\ (db[p].entry => chain[p][t]["main"] = "success")
              /\ \A j \in Side(trades[p], "BUY") : j <= t
<1>1. PICK s \in SessionRecord : s = db[p]
  BY AtPair
<1>2. PICK r \in SessionRecord : r = Reviewed(p, s)
  BY ReviewedTyped
<1>3. /\ r.entry = s.entry /\ r.exit = s.exit /\ r.ref = [trade |-> SelectTrade(p), step |-> SelectStep(p)]
  BY <1>2, ReviewedTyped
<1>4. Referred(trades[p], chain[p], 0, r)
  BY <1>1, <1>3, SelectedReferred
<1>5. t # 0 /\ trades[p][t].tx[step] # "NONE"
  BY DEF HasTransaction
<1>6. r.ref.trade = t /\ r.ref.step = step /\ HasRef(r)
  BY <1>3, <1>5 DEF HasRef, NoRef
<1>7. t \in DOMAIN trades[p] /\ step \in Steps
  BY <1>5, Selected
<1>8. trades[p][t] \in TradeRecord /\ chain[p][t] \in [Steps -> ChainStatus]
  BY <1>7, ElementOfSeq, LenProperties DEF LifeInv, TypeOK, ExecTypeOK
<1>9. Sound(trades[p][t], chain[p][t]) /\ Regular(trades[p][t])
  BY <1>7, AtPair DEF LifeInv, ExecInv, TradesSound, Working
<1>10. trades[p][t].status # "SIMULATED"
  BY <1>5, <1>7, <1>9 DEF Regular, Steps
<1>11. step = "approve" => trades[p][t].tx["main"] = "NONE" /\ trades[p][t].side = "SELL"
  BY <1>4, <1>5, <1>6, <1>8, <1>9 DEF Referred, Regular, TradeRecord, Sides
<1> QED
  BY <1>1, <1>3, <1>4, <1>5, <1>6, <1>7, <1>8, <1>9, <1>10, <1>11 DEF Referred

\* What applyDecision writes of a trade.
LEMMA ApplyWrites ==
  ASSUME LifeInv, NEW p \in Pairs, Claimed(p), HasTransaction(p),
         NEW t, t = SelectTrade(p), NEW step, step = SelectStep(p),
         NEW status \in TradeStatus \ {"SIMULATED"}, NEW tx \in TxStatus \ {"NONE"}, ApplyTrade(p, status, tx)
  PROVE  \E trade \in TradeRecord :
           /\ trades' = [trades EXCEPT ![p] = [trades[p] EXCEPT ![t] = trade]]
           /\ trade.status = status /\ trade.side = trades[p][t].side /\ trade.mode = trades[p][t].mode
           /\ \A s \in Steps : trade.tx[s] = IF s = step THEN tx ELSE trades[p][t].tx[s]
<1> DEFINE old == trades[p][t]
           txs == [old.tx EXCEPT ![step] = tx]
           trade == [old EXCEPT !.status = status, !.tx = txs]
<1>1. t \in DOMAIN trades[p] /\ step \in Steps /\ old \in TradeRecord
  BY AtObserve
<1>2. trades \in [Pairs -> Seq(TradeRecord)] /\ trades[p] \in Seq(TradeRecord)
  BY DEF LifeInv, TypeOK, ExecTypeOK
<1>3. trades' = [trades EXCEPT ![p][t].status = status, ![p][t].tx[step] = tx]
  BY DEF ApplyTrade
<1>4. trades' = [trades EXCEPT ![p] = [trades[p] EXCEPT ![t] = trade]]
  BY <1>1, <1>2, <1>3 DEF TradeRecord
<1>5. txs \in [Steps -> TxStatus] /\ \A s \in Steps : txs[s] = IF s = step THEN tx ELSE old.tx[s]
  BY <1>1 DEF TradeRecord
<1> HIDE DEF txs
<1>6. trade \in TradeRecord /\ trade.status = status /\ trade.tx = txs /\ trade.side = old.side /\ trade.mode = old.mode
  BY <1>1, <1>5 DEF TradeRecord
<1> QED
  BY <1>4, <1>5, <1>6

\* The trade is written as the chain says; the execution of the pair is e.
LEMMA Applied ==
  ASSUME LifeInv, NEW p \in Pairs, Claimed(p), HasTransaction(p),
         NEW status \in TradeStatus \ {"SIMULATED", "FAILED"}, NEW tx \in {"CONFIRMED", "REVERTED"},
         ApplyTrade(p, status, tx), chain' = chain,
         tx = "CONFIRMED" => chain[p][SelectTrade(p)][SelectStep(p)] = "success",
         tx = "REVERTED" => chain[p][SelectTrade(p)][SelectStep(p)] = "reverted",
         exec' # exec =>
           /\ exec' = [exec EXCEPT ![p] = Queued("SELL", SelectTrade(p))]
           /\ SelectStep(p) = "approve" /\ tx = "CONFIRMED"
  PROVE  /\ ExecInv'
         /\ \A q \in Pairs : q # p => trades'[q] = trades[q]
         /\ Grown(trades[p], chain[p], trades'[p], chain[p], 0)
         /\ \A i \in DOMAIN trades'[p] : Regular(trades'[p][i])
         /\ trades'[p][SelectTrade(p)].status = status
<1>17. PICK t, step : t = SelectTrade(p) /\ step = SelectStep(p)
  OBVIOUS
<1> DEFINE old == trades[p][t]
           sent == chain[p][t]
<1>1. /\ t \in DOMAIN trades[p] /\ step \in Steps
      /\ old \in TradeRecord /\ sent \in [Steps -> ChainStatus]
      /\ Sound(old, sent) /\ Regular(old) /\ old.tx[step] # "NONE" /\ old.status # "SIMULATED"
      /\ step = "approve" => old.tx["main"] = "NONE" /\ old.side = "SELL"
  BY <1>17, AtObserve
<1>2. tx \in TxStatus \ {"NONE"} /\ status \in TradeStatus \ {"SIMULATED"}
  BY DEF TxStatus
<1>3. PICK trade \in TradeRecord :
        /\ trades' = [trades EXCEPT ![p] = [trades[p] EXCEPT ![t] = trade]]
        /\ trade.status = status /\ trade.side = old.side /\ trade.mode = old.mode
        /\ \A s \in Steps : trade.tx[s] = IF s = step THEN tx ELSE old.tx[s]
  BY <1>2, <1>17, ApplyWrites
<1>4. /\ trades \in [Pairs -> Seq(TradeRecord)] /\ chain \in [Pairs -> Seq([Steps -> ChainStatus])]
      /\ ExecInv
  BY DEF LifeInv, TypeOK, ExecTypeOK
<1>5. /\ DOMAIN trades'[p] = DOMAIN trades[p]
      /\ \A q \in Pairs : q # p => trades'[q] = trades[q]
      /\ \A j \in DOMAIN trades[p] : trades'[p][j] = IF j = t THEN trade ELSE trades[p][j]
  BY <1>1, <1>3, <1>4, UpdateOne
<1>6. \A s \in Steps : trade.tx[s] = "NONE" <=> old.tx[s] = "NONE"
  BY <1>1, <1>3
<1>7. Regular(trade)
  BY <1>1, <1>3, <1>6 DEF Regular, Steps
<1>8. chain' = [chain EXCEPT ![p] = [chain[p] EXCEPT ![t] = sent]]
  BY <1>4, UpdateSame
<1>9. Sound(trade, sent)
  BY <1>1, <1>3, <1>17 DEF Sound
<1>18. PICK e \in ExecRecord :
         /\ exec' = [exec EXCEPT ![p] = e]
         /\ \/ e = exec[p]
            \/ e = Queued("SELL", t) /\ step = "approve" /\ tx = "CONFIRMED"
  <2>1. exec \in [Pairs -> ExecRecord] /\ exec[p] \in ExecRecord /\ exec = [exec EXCEPT ![p] = exec[p]]
    BY DEF LifeInv, TypeOK, ExecTypeOK
  <2>2. Queued("SELL", t) \in ExecRecord
    BY <1>1, <1>4, LenProperties, QueuedTyped DEF Sides
  <2> QED
    BY <1>17, <2>1, <2>2
<1>10. exec[p].trade = 0 /\ exec[p].pc = "none"
  BY AtClaim
<1>11. t \in Nat /\ t # 0
  BY <1>1, <1>4, LenProperties
<1>12. e.trade = t => Known(e, trade, sent)
  <2>1. CASE e = exec[p]
    BY <2>1, <1>10, <1>11
  <2>2. CASE e = Queued("SELL", t) /\ step = "approve" /\ tx = "CONFIRMED"
    <3>1. e.pc = "queued"
      BY <2>2, <1>11, QueuedTyped DEF Sides
    <3>2. trade.tx["approve"] = "CONFIRMED" /\ trade.tx["main"] = "NONE"
      BY <1>1, <1>3, <2>2 DEF Steps
    <3> QED
      BY <3>1, <3>2 DEF Known
  <2> QED
    BY <1>18, <2>1, <2>2
<1>13. e.trade \in {0, t} /\ e.pc \in {"none", "queued"}
  BY <1>10, <1>11, <1>18, QueuedTyped DEF Sides
<1>14. ExecInv'
  BY <1>1, <1>3, <1>4, <1>8, <1>9, <1>12, <1>13, <1>18, OneTrade
<1>15. Grown(trades[p], chain[p], trades'[p], chain[p], 0)
  BY <1>1, <1>3, <1>5, <1>6 DEF Grown, Done, Dead
<1>16. \A i \in DOMAIN trades'[p] : Regular(trades'[p][i])
  BY <1>5, <1>7, AtPair DEF Working
<1> QED
  BY <1>1, <1>3, <1>5, <1>14, <1>15, <1>16, <1>17

\* A decision with the update of its trade.
LEMMA DecideUpdated ==
  ASSUME LifeInv, NEW p \in Pairs, Claimed(p), HasTransaction(p),
         NEW status \in TradeStatus \ {"SIMULATED", "FAILED"}, NEW tx \in {"CONFIRMED", "REVERTED"},
         tx = "CONFIRMED" => chain[p][SelectTrade(p)][SelectStep(p)] = "success",
         tx = "REVERTED" => chain[p][SelectTrade(p)][SelectStep(p)] = "reverted",
         NEW s \in SessionRecord,
         \/ ApplyRow(p, s, FALSE) /\ ApplyTrade(p, status, tx)
         \/ ApplyFails,
         End(p), UNCHANGED <<chain, exec, loaded, up>>,
         s.status # Waiting, db[p].entry => s.entry,
         Credible(trades[p], chain[p], s), Referred(trades[p], chain[p], 0, s)
  PROVE  LifeInv'
<1>1. CASE ApplyFails
  BY <1>1, DecideStep
<1>2. CASE ApplyRow(p, s, FALSE) /\ ApplyTrade(p, status, tx)
  <2>1. exec \in [Pairs -> ExecRecord] /\ exec[p] \in ExecRecord
    BY DEF LifeInv, TypeOK, ExecTypeOK
  <2>2. exec' = [exec EXCEPT ![p] = exec[p]] /\ chain' = chain /\ exec' = exec
    BY <2>1
  <2>3. /\ ExecInv'
        /\ \A q \in Pairs : q # p => trades'[q] = trades[q]
        /\ Grown(trades[p], chain[p], trades'[p], chain[p], 0)
        /\ \A i \in DOMAIN trades'[p] : Regular(trades'[p][i])
    BY <1>2, <2>2, Applied
  <2> DEFINE ts == trades'[p]
             cs == chain[p]
  <2>4. /\ \A side : Side(ts, side) = Side(trades[p], side)
        /\ Credible(ts, cs, s) /\ Referred(ts, cs, 0, s)
    BY <2>3, GrownKeeps
  <2>5. exec[p].pc = "none" /\ exec[p].trade = 0 /\ loaded[p] = <<>>
    BY AtClaim
  <2>6. Rows(p, s, FALSE, FALSE, NoOp, loaded[p])
    BY <1>2, AtPair, NoOpTyped DEF Rows, LifeInv, TypeOK, End, ApplyRow
  <2>7. \A i, j \in Side(ts, "BUY") : i < j => Dead(ts[i], cs[i])
    <3>1. ASSUME NEW i \in Side(trades[p], "BUY"), NEW j \in Side(trades[p], "BUY"), i < j
          PROVE  Dead(ts[i], cs[i])
      <4>1. i \in DOMAIN trades[p] /\ i # 0
        BY LenProperties DEF Side, LifeInv, TypeOK, ExecTypeOK
      <4> QED
        BY <2>3, <3>1, <4>1, AtPair DEF Buying, Grown
    <3> QED
      BY <2>4, <3>1
  <2> HIDE DEF ts, cs
  <2>8. Working(ts, cs, exec[p]) /\ Buying(ts, cs, exec[p])
    BY <2>3, <2>5, <2>7 DEF Working, Buying, ts
  <2>9. Operating(ts, cs, exec[p], s, FALSE, FALSE, NoOp)
    BY <2>5, NoOpTyped DEF Operating
  <2>10. Copied(ts, cs, s, FALSE, loaded[p])
    BY <2>5 DEF Copied
  <2>11. Stored(ts, cs, exec[p], s, FALSE, FALSE, NoOp)
    BY <2>4, <2>5, AtPair, NoOpTyped DEF Stored
  <2>12. Life(trades'[p], chain'[p], exec'[p], s, FALSE, FALSE, NoOp, loaded[p])
    BY <2>2, <2>8, <2>9, <2>10, <2>11 DEF Life, ts, cs
  <2> QED
    BY <2>2, <2>3, <2>5, <2>6, <2>12, NoOpTyped, PairStep
<1> QED
  BY <1>1, <1>2

LEMMA ObserveRevertedKeeps == ASSUME LifeInv, NEW p \in Pairs, ObserveReverted(p) PROVE LifeInv'
<1>1. /\ Claimed(p) /\ HasTransaction(p) /\ chain[p][SelectTrade(p)][SelectStep(p)] = "reverted"
  BY DEF ObserveReverted, Observes
<1>2. PICK t, step : t = SelectTrade(p) /\ step = SelectStep(p)
  OBVIOUS
<1>3. PICK s0 \in SessionRecord : s0 = op[p].ses
  BY AtPair
<1>4. s0 = db[p] /\ Credible(trades[p], chain[p], s0)
  BY <1>1, <1>3, AtClaim
<1> DEFINE status == IF trades[p][t].side = "BUY" THEN "REJECTED" ELSE "HOLDING"
           s == [s0 EXCEPT !.status = status, !.ref = NoRef]
<1>5. s \in SessionRecord /\ s.status = status /\ s.entry = s0.entry /\ s.exit = s0.exit /\ s.ref = NoRef
  BY NoRefTyped DEF SessionRecord, Reference, Status, Active, Terminal
<1>6. /\ \/ ApplyRow(p, s, FALSE) /\ ApplyTrade(p, "REVERTED", "REVERTED")
         \/ ApplyFails
      /\ End(p) /\ UNCHANGED <<chain, exec, loaded, up>>
  BY <1>2, <1>3 DEF ObserveReverted, Decide, SelectedSide
<1>7. /\ trades[p][t].side = "SELL" => db[p].entry /\ ~db[p].exit
      /\ trades[p][t].side \in Sides
  BY <1>1, <1>2, AtObserve DEF TradeRecord
<1>8. status = "HOLDING" => db[p].entry /\ ~db[p].exit
  BY <1>7 DEF Sides
<1>9. "REVERTED" \in TradeStatus \ {"SIMULATED", "FAILED"}
  BY DEF TradeStatus
<1>10. s.status \in {"REJECTED", "HOLDING"}
  BY <1>5
<1> HIDE DEF s, status
<1>11. Credible(trades[p], chain[p], s) /\ Referred(trades[p], chain[p], 0, s)
  BY <1>4, <1>5, <1>8, <1>10 DEF Credible, Referred, Open, HasRef, Waiting
<1>12. s.status # Waiting /\ (db[p].entry => s.entry)
  BY <1>4, <1>5, <1>10 DEF Waiting
<1> QED
  BY <1>1, <1>5, <1>6, <1>9, <1>11, <1>12, DecideUpdated

\* The session of a transaction that is mined: what the trade has done is
\* known.
LEMMA AtMined ==
  ASSUME LifeInv, NEW p \in Pairs, Claimed(p), HasTransaction(p), SelectStep(p) = "main",
         chain[p][SelectTrade(p)][SelectStep(p)] = "success"
  PROVE  /\ Measured(p) \in SessionRecord
         /\ Credible(trades[p], chain[p], Measured(p)) /\ Measured(p).ref = NoRef
         /\ Measured(p).entry = TRUE /\ Measured(p).status \in {"HOLDING", "CLOSED"}
         /\ trades[p][SelectTrade(p)].side = "BUY" => ~Measured(p).exit
<1>1. PICK t : t = SelectTrade(p)
  OBVIOUS
<1>2. PICK s0 \in SessionRecord : s0 = op[p].ses
  BY AtPair
<1>3. s0 = db[p] /\ Credible(trades[p], chain[p], s0)
  BY <1>2, AtClaim
<1>4. /\ t \in DOMAIN trades[p] /\ trades[p][t].side \in Sides
      /\ trades[p][t].side = "SELL" => s0.entry
      /\ trades[p][t].side = "BUY" => ~s0.exit
  BY <1>1, <1>3, AtObserve DEF TradeRecord
<1>5. Done(trades[p][t], chain[p][t])
  BY <1>1 DEF Done
<1>6. CASE trades[p][t].side = "BUY"
  <2>1. Measured(p) = Entered(s0)
    BY <1>1, <1>2, <1>6 DEF Measured, SelectedSide
  <2>2. PICK r \in SessionRecord : r = Entered(s0)
    BY EnteredTyped
  <2>3. r.status = "HOLDING" /\ r.entry = TRUE /\ ~r.exit /\ r.ref = NoRef
    BY <1>4, <1>6, <2>2, EnteredTyped
  <2>4. t \in Side(trades[p], "BUY")
    BY <1>4, <1>6 DEF Side
  <2>5. Credible(trades[p], chain[p], r)
    BY <1>5, <2>3, <2>4 DEF Credible, Open, HasRef, Waiting
  <2> QED
    BY <2>1, <2>2, <2>3, <2>5
<1>7. CASE trades[p][t].side = "SELL"
  <2>1. Measured(p) = Exited(s0)
    BY <1>1, <1>2, <1>7 DEF Measured, SelectedSide
  <2>2. PICK r \in SessionRecord : r = Exited(s0)
    BY ExitedTyped
  <2>3. r.status = "CLOSED" /\ r.entry = TRUE /\ r.exit = TRUE /\ r.ref = NoRef
    BY <1>4, <1>7, <2>2, ExitedTyped DEF SessionRecord
  <2>4. t \in Side(trades[p], "SELL")
    BY <1>4, <1>7 DEF Side
  <2>5. Credible(trades[p], chain[p], r)
    BY <1>3, <1>4, <1>5, <1>7, <2>3, <2>4 DEF Credible, Open, HasRef, Waiting
  <2> QED
    BY <1>1, <1>7, <2>1, <2>2, <2>3, <2>5
<1> QED
  BY <1>4, <1>6, <1>7 DEF Sides

LEMMA ObserveMinedKeeps == ASSUME LifeInv, NEW p \in Pairs, ObserveMined(p) PROVE LifeInv'
<1>1. /\ Claimed(p) /\ HasTransaction(p) /\ SelectStep(p) = "main"
      /\ chain[p][SelectTrade(p)][SelectStep(p)] = "success"
  BY DEF ObserveMined, Observes
<1>2. PICK s \in SessionRecord : s = Measured(p)
  BY <1>1, AtMined
<1>3. /\ Credible(trades[p], chain[p], s) /\ s.ref = NoRef /\ s.entry = TRUE
      /\ s.status \in {"HOLDING", "CLOSED"}
  BY <1>1, <1>2, AtMined
<1>4. /\ \/ ApplyRow(p, s, FALSE) /\ ApplyTrade(p, "CONFIRMED", "CONFIRMED")
         \/ ApplyFails
      /\ End(p) /\ UNCHANGED <<chain, exec, loaded, up>>
  BY <1>2 DEF ObserveMined, Decide
<1>5. "CONFIRMED" \in TradeStatus \ {"SIMULATED", "FAILED"}
  BY DEF TradeStatus
<1>6. Referred(trades[p], chain[p], 0, s) /\ s.status # Waiting
  BY <1>3 DEF Referred, HasRef, Waiting
<1> QED
  BY <1>1, <1>3, <1>4, <1>5, <1>6, DecideUpdated

LEMMA ObserveUnmeasuredKeeps == ASSUME LifeInv, NEW p \in Pairs, ObserveUnmeasured(p) PROVE LifeInv'
<1>1. /\ Claimed(p) /\ HasTransaction(p) /\ SelectStep(p) = "main"
      /\ chain[p][SelectTrade(p)][SelectStep(p)] = "success"
  BY DEF ObserveUnmeasured, Observes
<1>2. PICK t : t = SelectTrade(p)
  OBVIOUS
<1>3. PICK s0 \in SessionRecord :
        /\ s0 = db[p] \/ s0 = Measured(p)
        /\ \/ ApplyRow(p, Reviewed(p, s0), FALSE) /\ ApplyTrade(p, "CONFIRMED", "CONFIRMED")
           \/ ApplyFails
        /\ End(p) /\ UNCHANGED <<chain, exec, loaded, up>>
  <2>1. op[p].ses = db[p] /\ db[p] \in SessionRecord
    BY <1>1, AtClaim
  <2>2. Measured(p) \in SessionRecord
    BY <1>1, AtMined
  <2>3. PICK s0 : /\ s0 = op[p].ses \/ s0 = Measured(p)
                  /\ Decide(p, Reviewed(p, s0), ApplyTrade(p, "CONFIRMED", "CONFIRMED"))
    BY DEF ObserveUnmeasured
  <2> QED
    BY <2>1, <2>2, <2>3 DEF Decide
<1>4. PICK s \in SessionRecord : s = Reviewed(p, s0)
  BY <1>1, ReviewedTyped
<1>5. /\ s.status = "MANUAL_REVIEW" /\ s.entry = s0.entry /\ s.exit = s0.exit
      /\ s.ref = [trade |-> SelectTrade(p), step |-> SelectStep(p)]
  BY <1>1, <1>4, ReviewedTyped
<1>6. s.ref.trade = t /\ s.ref.step = "main"
  BY <1>1, <1>2, <1>5
<1>7. Credible(trades[p], chain[p], s0)
  BY <1>1, <1>3, AtClaim, AtMined
<1>8. /\ db[p].entry => s0.entry
      /\ trades[p][t].side = "SELL" => s0.entry
      /\ trades[p][t].side = "BUY" => ~s0.exit
  <2>1. CASE s0 = db[p]
    BY <1>1, <1>2, <2>1, AtObserve
  <2>2. CASE s0 = Measured(p)
    BY <1>1, <1>2, <2>2, AtMined
  <2> QED
    BY <1>3, <2>1, <2>2
<1>9. Credible(trades[p], chain[p], s)
  BY <1>5, <1>7 DEF Credible, Waiting
<1>10. t \in DOMAIN trades[p] /\ t # 0 /\ trades[p][t].tx["main"] # "NONE" /\ chain[p][t]["main"] = "success"
       /\ (trades[p][t].side = "BUY" => \A j \in Side(trades[p], "BUY") : j <= t)
  BY <1>1, <1>2, AtObserve DEF HasTransaction
<1>11. Referred(trades[p], chain[p], 0, s)
  BY <1>5, <1>6, <1>8, <1>10 DEF Referred
<1>12. "CONFIRMED" \in TradeStatus \ {"SIMULATED", "FAILED"}
  BY DEF TradeStatus
<1>13. \/ ApplyRow(p, s, FALSE) /\ ApplyTrade(p, "CONFIRMED", "CONFIRMED")
       \/ ApplyFails
  BY <1>3, <1>4
<1>14. s.status # Waiting /\ (db[p].entry => s.entry)
  BY <1>5, <1>8 DEF Waiting
<1> QED
  BY <1>1, <1>3, <1>9, <1>11, <1>12, <1>13, <1>14, DecideUpdated

LEMMA ObserveApprovedKeeps == ASSUME LifeInv, NEW p \in Pairs, ObserveApproved(p) PROVE LifeInv'
<1>1. /\ Claimed(p) /\ HasTransaction(p) /\ SelectStep(p) = "approve"
      /\ chain[p][SelectTrade(p)][SelectStep(p)] = "success"
      /\ chain' = chain /\ UNCHANGED <<loaded, up>>
  BY DEF ObserveApproved, Observes
<1>2. PICK t : t = SelectTrade(p)
  OBVIOUS
<1>3. PICK s0 \in SessionRecord : s0 = op[p].ses
  BY AtPair
<1> DEFINE s == [s0 EXCEPT !.status = "SELL_PENDING", !.ref = NoRef]
<1>4. s0 = db[p] /\ Credible(trades[p], chain[p], s0)
  BY <1>1, <1>3, AtClaim
<1>5. /\ s \in SessionRecord /\ s.status = "SELL_PENDING"
      /\ s.entry = s0.entry /\ s.exit = s0.exit /\ s.ref = NoRef
  BY NoRefTyped DEF SessionRecord, Reference, Status, Active, InFlight
<1>6. CASE ApplyFails /\ End(p) /\ exec' = exec
  <2>1. UNCHANGED <<execVars, rowVars, loaded, up>>
    BY <1>1, <1>6 DEF ApplyFails, execVars
  <2> QED
    BY <1>1, <1>6, <2>1, AtClaim, LeaveStep
<1>7. CASE /\ ApplyRow(p, s, TRUE) /\ ApplyTrade(p, "CREATED", "CONFIRMED")
           /\ Advance(p, "exec", s) /\ Call(p, "SELL", SelectTrade(p))
  <2>1. /\ t \in DOMAIN trades[p] /\ t # 0 /\ trades[p][t].side = "SELL"
        /\ s0.entry /\ ~s0.exit /\ t \in Nat
    BY <1>1, <1>2, <1>4, AtObserve, LenProperties DEF HasTransaction, LifeInv, TypeOK, ExecTypeOK
  <2> DEFINE e == Queued("SELL", t)
             ts == trades'[p]
             cs == chain[p]
  <2>2. e.pc = "queued" /\ e.side = "SELL" /\ e.trade = t
    BY <2>1, QueuedTyped DEF Sides
  <2>3. exec' = [exec EXCEPT ![p] = Queued("SELL", SelectTrade(p))]
    BY <1>7 DEF Call, Queued
  <2>4. "CREATED" \in TradeStatus \ {"SIMULATED", "FAILED"}
    BY DEF TradeStatus
  <2>5. /\ ExecInv'
        /\ \A q \in Pairs : q # p => trades'[q] = trades[q]
        /\ Grown(trades[p], chain[p], trades'[p], chain[p], 0)
        /\ \A i \in DOMAIN trades'[p] : Regular(trades'[p][i])
        /\ trades'[p][t].status = "CREATED"
    BY <1>1, <1>2, <1>7, <2>3, <2>4, Applied
  <2>6. PICK o \in OpRecord : op' = [op EXCEPT ![p] = o] /\ o.kind = "recovery" /\ o.pc = "exec" /\ o.ses = s
    <3>1. PICK r \in SessionRecord : r = s
      BY <1>5
    <3> HIDE DEF s
    <3>2. Advance(p, "exec", r)
      BY <1>7, <3>1
    <3> QED
      BY <1>1, <3>1, <3>2, Advances DEF Claimed
  <2>7. exec'[p] = e /\ \A q \in Pairs : q # p => exec'[q] = exec[q]
    BY <1>2, <2>3 DEF LifeInv, TypeOK, ExecTypeOK
  <2> HIDE DEF s, e
  <2>8. Credible(trades[p], chain[p], s)
    BY <1>4, <1>5, <2>1 DEF Credible, Open, Waiting
  <2>9. Credible(ts, cs, s) /\ \A side : Side(ts, side) = Side(trades[p], side)
    BY <1>5, <2>5, <2>8, GrownKeeps
  <2>10. Rows(p, s, TRUE, FALSE, o, loaded[p])
    BY <1>1, <1>5, <1>7, <2>6, AtPair DEF Rows, LifeInv, TypeOK, ApplyRow
  <2>11. ts[t].side = "SELL" /\ ts[t].status = "CREATED"
    BY <2>1, <2>5 DEF Grown
  <2>12. \A i, j \in Side(ts, "BUY") : i < j => Dead(ts[i], cs[i])
    <3>1. ASSUME NEW i \in Side(trades[p], "BUY"), NEW j \in Side(trades[p], "BUY"), i < j
          PROVE  Dead(ts[i], cs[i])
      <4>1. i \in DOMAIN trades[p] /\ i # 0
        BY LenProperties DEF Side, LifeInv, TypeOK, ExecTypeOK
      <4> QED
        BY <2>5, <3>1, <4>1, AtPair DEF Buying, Grown
    <3> QED
      BY <2>9, <3>1
  <2>13. \A i \in DOMAIN ts : Regular(ts[i])
    BY <2>5
  <2> HIDE DEF ts, cs
  <2>14. Working(ts, cs, e) /\ Buying(ts, cs, e)
    BY <2>1, <2>2, <2>11, <2>12, <2>13 DEF Working, Answered, Buying
  <2>15. Referred(ts, cs, t, s)
    BY <1>5 DEF Referred, HasRef
  <2>16. Operating(ts, cs, e, s, TRUE, FALSE, o)
    BY <1>5, <2>2, <2>6, <2>9, <2>15 DEF Operating, HasRef
  <2>17. loaded[p] = <<>> /\ up
    BY <1>1, AtClaim
  <2>18. Stored(ts, cs, e, s, TRUE, FALSE, o)
    BY <1>5, <2>1, <2>2, <2>9, <2>15, <1>4 DEF Stored, ClaimsRow, InFlight, Waiting
  <2>19. Life(trades'[p], chain'[p], exec'[p], s, TRUE, FALSE, o, loaded[p])
    BY <1>1, <2>7, <2>14, <2>16, <2>17, <2>18 DEF Life, Copied, ts, cs
  <2> QED
    BY <1>1, <2>5, <2>6, <2>7, <2>10, <2>17, <2>19, PairStep DEF Claimed
<1> QED
  BY <1>3, <1>6, <1>7 DEF ObserveApproved

------------------------------------------------------------------------------
(* The executor and the chain work while the session waits.                 *)

LEMMA WorldStep ==
  ASSUME LifeInv, NEW p \in Pairs, UNCHANGED sessionVars, ExecInv',
         \A q \in Pairs : q # p => trades'[q] = trades[q] /\ chain'[q] = chain[q] /\ exec'[q] = exec[q],
         Working(trades'[p], chain'[p], exec'[p]),
         Operating(trades'[p], chain'[p], exec'[p], db[p], leased[p], quarantined[p], op[p]),
         Copied(trades'[p], chain'[p], db[p], quarantined[p], loaded[p]),
         Stored(trades'[p], chain'[p], exec'[p], db[p], leased[p], quarantined[p], op[p]),
         Buying(trades'[p], chain'[p], exec'[p])
  PROVE  LifeInv'
<1>1. Rows(p, db[p], leased[p], quarantined[p], op[p], loaded[p])
  BY AtPair DEF Rows, LifeInv, TypeOK, sessionVars
<1>2. Life(trades'[p], chain'[p], exec'[p], db[p], leased[p], quarantined[p], op[p], loaded[p])
  BY DEF Life
<1>3. /\ op[p].kind = "recovery" => loaded[p] = <<>>
      /\ op[p].kind # "none" \/ loaded[p] # <<>> => up
  BY DEF LifeInv, Apart
<1> QED
  BY <1>1, <1>2, <1>3, PairStep

\* The copy of the exit monitor is a session.
LEMMA CopyTyped ==
  ASSUME LifeInv, NEW p \in Pairs, loaded[p] # <<>>
  PROVE  loaded[p][1] \in SessionRecord
BY AtPair

\* WorldStep for a step under which the trades have grown.
LEMMA GrownStep ==
  ASSUME LifeInv, NEW p \in Pairs, UNCHANGED sessionVars, ExecInv',
         \A q \in Pairs : q # p => trades'[q] = trades[q] /\ chain'[q] = chain[q] /\ exec'[q] = exec[q],
         Working(trades'[p], chain'[p], exec'[p]),
         Buying(trades'[p], chain'[p], exec'[p]),
         NEW t, Grown(trades[p], chain[p], trades'[p], chain'[p], t),
         exec'[p].trade = exec[p].trade, exec'[p].side = exec[p].side,
         exec'[p].pc = "none" <=> exec[p].pc = "none",
         t \in {0, exec[p].trade}
  PROVE  LifeInv'
<1> DEFINE ts == trades'[p]
           cs == chain'[p]
           e == exec'[p]
<1>1. ~(0 \in DOMAIN trades[p])
  BY LenProperties DEF LifeInv, TypeOK, ExecTypeOK
<1>2. /\ \A side : Side(ts, side) = Side(trades[p], side)
      /\ \A s \in SessionRecord : Credible(trades[p], chain[p], s) => Credible(ts, cs, s)
      /\ \A s \in SessionRecord : Referred(trades[p], chain[p], t, s) => Referred(ts, cs, t, s)
  BY GrownKeeps
<1>3. ASSUME NEW s \in SessionRecord, Referred(trades[p], chain[p], exec[p].trade, s)
      PROVE  Referred(ts, cs, exec[p].trade, s)
  <2>1. Referred(trades[p], chain[p], t, s)
    BY <1>1, <1>3 DEF Referred
  <2>2. Referred(ts, cs, t, s)
    BY <1>2, <2>1
  <2> QED
    BY <1>3, <2>2 DEF Referred
<1>4. (trades[p] = <<>>) => (ts = <<>>)
  <2>1. trades[p] \in Seq(TradeRecord) /\ ts \in Seq(TradeRecord) /\ DOMAIN ts = DOMAIN trades[p]
    BY DEF LifeInv, TypeOK, ExecInv, ExecTypeOK, Grown
  <2> QED
    BY <2>1, LenProperties, EmptySeq
<1> HIDE DEF ts, cs, e
<1>5. Operating(ts, cs, e, db[p], leased[p], quarantined[p], op[p])
  BY <1>2, <1>3, <1>4, AtPair DEF Operating, e
<1>6. Copied(ts, cs, db[p], quarantined[p], loaded[p])
  BY <1>2, AtPair, CopyTyped DEF Copied
<1>7. Stored(ts, cs, e, db[p], leased[p], quarantined[p], op[p])
  BY <1>2, <1>3, <1>4, AtPair DEF Stored, e
<1> QED
  BY <1>5, <1>6, <1>7, WorldStep DEF ts, cs, e

\* An execution that makes a step is under way.
LEMMA UnderWay ==
  ASSUME ExecInv, NEW p \in Pairs, ExecutorStep(p)
  PROVE  exec[p].pc \notin {"none", "done"}
BY DEF ExecutorStep, Start, NotStarted, WrongWallet, Abandon, Simulate, Prepare, SendAccepted, SendRejected,
       SendAmbiguous, RecordBroadcast, ReceiptSuccess, ReceiptReverted, ReceiptTimeout, Measure, MeasureFailed

LEMMA WorksKeeps ==
  ASSUME LifeInv, NEW p \in Pairs, Works(p), exec[p].pc \notin {"none", "done"}, ExecInv', UNCHANGED sessionVars
  PROVE  LifeInv'
<1> DEFINE old == trades[p][exec[p].trade]
           new == trades'[p][exec[p].trade]
           sent == chain[p][exec[p].trade]
           sent2 == chain'[p][exec[p].trade]
<1>1. PICK t : t = exec[p].trade
  OBVIOUS
<1>2. /\ t # 0 /\ t \in DOMAIN trades[p] /\ Answered(exec[p], trades[p][t], chain[p][t])
      /\ chain[p][t] \in [Steps -> ChainStatus]
  BY <1>1, AtWork, AtPair DEF Works, LifeInv, Working
<1>3. /\ DOMAIN trades'[p] = DOMAIN trades[p]
      /\ \A i \in DOMAIN trades[p] : i # t => trades'[p][i] = trades[p][i] /\ chain'[p][i] = chain[p][i]
      /\ \A q \in Pairs : q # p => trades'[q] = trades[q] /\ chain'[q] = chain[q] /\ exec'[q] = exec[q]
  <2>1. Touched(p, t)
    BY <1>1 DEF Works
  <2> QED
    BY <2>1 DEF Touched
<1>4. Moved(exec[p], trades[p][t], chain[p][t], exec'[p], trades'[p][t], chain'[p][t])
  BY <1>1 DEF Works
<1>5. /\ exec'[p].side = exec[p].side /\ exec'[p].trade = t
      /\ trades'[p][t].side = trades[p][t].side /\ exec'[p].pc # "none"
      /\ chain'[p][t]["main"] = chain[p][t]["main"] \/ chain[p][t]["main"] = "unsent"
      /\ Regular(trades'[p][t]) /\ Answered(exec'[p], trades'[p][t], chain'[p][t])
  BY <1>1, <1>4 DEF Moved, Steps
<1>6. trades[p][t].status # "SIMULATED" /\ exec[p].side = trades[p][t].side
  BY <1>2 DEF Answered
<1>7. Grown(trades[p], chain[p], trades'[p], chain'[p], t)
  <2>1. Done(trades[p][t], chain[p][t]) => Done(trades'[p][t], chain'[p][t])
    BY <1>5, <1>6 DEF Done
  <2> QED
    BY <1>3, <1>5, <2>1 DEF Grown
<1>8. Working(trades'[p], chain'[p], exec'[p])
  BY <1>2, <1>3, <1>5, AtPair DEF Working
<1>9. \A side : Side(trades'[p], side) = Side(trades[p], side)
  BY <1>7, GrownKeeps
<1>10. Buying(trades'[p], chain'[p], exec'[p])
  <2>1. exec[p].side = "BUY" => \A i \in Side(trades[p], "BUY") : i <= t
    BY <1>1, <1>2, AtPair DEF Buying
  <2>2. ASSUME NEW i \in Side(trades[p], "BUY"), NEW j \in Side(trades[p], "BUY"), i < j
        PROVE  i # t
    <3>1. i \in Nat /\ j \in Nat
      BY LenProperties DEF Side, LifeInv, TypeOK, ExecTypeOK
    <3>2. i = t => exec[p].side = "BUY"
      BY <1>6 DEF Side
    <3> QED
      BY <2>1, <2>2, <3>1, <3>2
  <2>3. ASSUME NEW i \in Side(trades[p], "BUY"), NEW j \in Side(trades[p], "BUY"), i < j
        PROVE  Dead(trades'[p][i], chain'[p][i])
    <3>1. i \in DOMAIN trades[p] /\ i # t
      BY <2>2, <2>3 DEF Side
    <3> QED
      BY <1>3, <2>3, <3>1, AtPair DEF Buying
  <2> QED
    BY <1>2, <1>5, <1>9, <2>1, <2>3 DEF Buying
<1> QED
  BY <1>1, <1>3, <1>5, <1>7, <1>8, <1>10, GrownStep

LEMMA GivesUpKeeps ==
  ASSUME LifeInv, NEW p \in Pairs, GivesUp(p), exec[p].pc \notin {"none", "done"}, ExecInv', UNCHANGED sessionVars
  PROVE  LifeInv'
<1>1. exec \in [Pairs -> ExecRecord]
  BY DEF LifeInv, TypeOK, ExecTypeOK
<1>2. /\ exec'[p].pc = "done" /\ exec'[p].outcome = "plain" /\ exec'[p].trade = 0 /\ exec[p].trade = 0
      /\ exec'[p].side = exec[p].side
      /\ \A q \in Pairs : q # p => exec'[q] = exec[q]
  BY <1>1 DEF GivesUp, ExecRecord
<1>3. trades' = trades /\ chain' = chain
  BY DEF GivesUp
<1>4. Working(trades[p], chain[p], exec'[p]) /\ Buying(trades[p], chain[p], exec'[p])
  BY <1>2, AtPair DEF Working, Buying
<1>5. Grown(trades[p], chain[p], trades[p], chain[p], 0)
  BY DEF Grown
<1> QED
  BY <1>2, <1>3, <1>4, <1>5, GrownStep

LEMMA MineKeepsLife ==
  ASSUME LifeInv, NEW p \in Pairs, Mine(p), UNCHANGED sessionVars
  PROVE  LifeInv'
<1>1. PICK i \in DOMAIN chain[p], step \in Steps, result \in {"success", "reverted"} :
        chain[p][i][step] = "pending" /\ chain' = [chain EXCEPT ![p][i][step] = result]
  BY DEF Mine
<1>2. trades' = trades /\ exec' = exec /\ ExecInv'
  BY MineKeeps DEF Mine, LifeInv
<1>3. /\ chain \in [Pairs -> Seq([Steps -> ChainStatus])]
      /\ chain[p] \in Seq([Steps -> ChainStatus]) /\ trades[p] \in Seq(TradeRecord)
      /\ Len(chain[p]) = Len(trades[p])
  BY DEF LifeInv, TypeOK, ExecTypeOK
<1>4. DOMAIN chain[p] = DOMAIN trades[p] /\ DOMAIN chain[p] = 1..Len(chain[p])
  BY <1>3, LenProperties
<1>5. chain[p][i] \in [Steps -> ChainStatus]
  BY <1>3, <1>4, ElementOfSeq
<1>6. \A q \in Pairs : q # p => chain'[q] = chain[q]
  BY <1>1, <1>3
<1>7. chain'[p] = [chain[p] EXCEPT ![i] = [chain[p][i] EXCEPT ![step] = result]]
  BY <1>1, <1>3
<1>8. \A j \in DOMAIN trades[p] : j # i => chain'[p][j] = chain[p][j]
  BY <1>4, <1>7
<1>9. chain'[p][i] = [chain[p][i] EXCEPT ![step] = result]
  BY <1>4, <1>7
<1>10. chain'[p][i]["main"] = chain[p][i]["main"] \/ (chain[p][i]["main"] = "pending" /\ chain'[p][i]["main"] = result)
  BY <1>1, <1>5, <1>9 DEF Steps
<1>11. \A j \in DOMAIN trades[p] :
         \/ chain'[p][j]["main"] = chain[p][j]["main"]
         \/ chain[p][j]["main"] = "pending" /\ chain'[p][j]["main"] \in {"success", "reverted"}
  BY <1>8, <1>10
<1>12. Grown(trades[p], chain[p], trades'[p], chain'[p], 0)
  BY <1>2, <1>11 DEF Grown, Done, Dead
<1>13. exec[p].trade # 0 => exec[p].trade \in DOMAIN trades[p]
  BY AtWork DEF LifeInv
<1>14. Working(trades'[p], chain'[p], exec'[p])
  <2>1. ASSUME exec[p].trade # 0
        PROVE  Answered(exec[p], trades[p][exec[p].trade], chain'[p][exec[p].trade])
    BY <2>1, <1>11, <1>13, AtPair DEF Working, Answered, Done
  <2> QED
    BY <1>2, <2>1, AtPair DEF Working
<1>15. Buying(trades'[p], chain'[p], exec'[p])
  BY <1>2, <1>11, AtPair DEF Buying, Dead, Side
<1> QED
  BY <1>2, <1>6, <1>12, <1>14, <1>15, GrownStep

\* ts2 and cs2 are ts and cs with one more trade, that has done nothing.
Longer(ts, cs, ts2, cs2, n) ==
  /\ DOMAIN ts = 1..n /\ DOMAIN ts2 = 1..(n + 1)
  /\ \A i \in 1..n : ts2[i] = ts[i] /\ cs2[i] = cs[i]
  /\ cs2[n + 1]["main"] = "unsent" /\ ts2[n + 1].status = "CREATED"

LEMMA LongerSides ==
  ASSUME NEW ts, NEW cs, NEW ts2, NEW cs2, NEW n \in Nat, Longer(ts, cs, ts2, cs2, n), NEW side
  PROVE  /\ Side(ts, side) \subseteq Side(ts2, side)
         /\ \A i \in Side(ts2, side) : i \in Side(ts, side) \/ (i = n + 1 /\ ts2[i].side = side)
BY DEF Longer, Side

LEMMA LongerCredible ==
  ASSUME NEW ts, NEW cs, NEW ts2, NEW cs2, NEW n \in Nat, Longer(ts, cs, ts2, cs2, n),
         NEW s \in SessionRecord, Credible(ts, cs, s)
  PROVE  Credible(ts2, cs2, s)
<1>1. ASSUME NEW side, NEW i \in Side(ts, side), Done(ts[i], cs[i])
      PROVE  \E j \in Side(ts2, side) : Done(ts2[j], cs2[j])
  <2>1. i \in 1..n /\ i \in Side(ts2, side)
    BY LongerSides DEF Side, Longer
  <2> QED
    BY <1>1, <2>1 DEF Longer
<1> QED
  BY <1>1 DEF Credible

LEMMA LongerReferred ==
  ASSUME NEW ts, NEW cs, NEW ts2, NEW cs2, NEW n \in Nat, Longer(ts, cs, ts2, cs2, n),
         NEW s \in SessionRecord, Referred(ts, cs, 0, s),
         ts2[n + 1].side = "BUY" => ~HasRef(s)
  PROVE  Referred(ts2, cs2, n + 1, s)
<1> SUFFICES ASSUME HasRef(s) PROVE Referred(ts2, cs2, n + 1, s)
  BY DEF Referred
<1>1. s.ref.trade \in 1..n
  BY DEF Referred, Longer
<1>2. ts2[n + 1].side # "BUY"
  OBVIOUS
<1>3. \A j \in Side(ts2, "BUY") : j \in Side(ts, "BUY")
  BY <1>2, LongerSides
<1> QED
  BY <1>1, <1>3 DEF Referred, Longer

\* A new trade and the execution that works on it.
LEMMA CreatesLonger ==
  ASSUME LifeInv, NEW p \in Pairs, Creates(p)
  PROVE  LET n == Len(trades[p]) IN
         /\ n \in Nat /\ exec[p].trade = 0 /\ exec[p].pc = "queued"
         /\ exec'[p].pc = "quote" /\ exec'[p].trade = n + 1 /\ exec'[p].side = exec[p].side
         /\ Longer(trades[p], chain[p], trades'[p], chain'[p], n)
         /\ trades'[p][n + 1].side = exec[p].side
         /\ Regular(trades'[p][n + 1]) /\ Answered(exec'[p], trades'[p][n + 1], chain'[p][n + 1])
<1> DEFINE ts == trades[p]
           cs == chain[p]
           ts2 == trades'[p]
           cs2 == chain'[p]
           e == exec[p]
           e2 == exec'[p]
           n == Len(trades[p])
<1>1. /\ ts \in Seq(TradeRecord) /\ cs \in Seq([Steps -> ChainStatus]) /\ Len(cs) = Len(ts)
      /\ n \in Nat /\ DOMAIN ts = 1..n /\ DOMAIN cs = 1..n /\ e \in ExecRecord
  BY LenProperties DEF LifeInv, TypeOK, ExecTypeOK
<1>2. e.trade = 0 /\ e.pc = "queued"
  BY DEF Creates
<1>3. PICK mode \in Modes : ts2 = Append(ts, NewTrade(e.side, mode))
  BY DEF Creates
<1>4. cs2 = Append(cs, Unsent) /\ e2 = [e EXCEPT !.pc = "quote", !.trade = n + 1]
  BY DEF Creates
<1> DEFINE new == NewTrade(e.side, mode)
<1>5. new \in TradeRecord /\ Unsent \in [Steps -> ChainStatus]
  BY <1>1 DEF NewTrade, Unsent, TradeRecord, ExecRecord, TradeStatus, TxStatus, ChainStatus
<1>6. /\ e2.pc = "quote" /\ e2.trade = n + 1 /\ e2.side = e.side
  BY <1>1, <1>4 DEF ExecRecord
<1>7. /\ new.side = e.side /\ new.mode = mode /\ new.status = "CREATED"
      /\ new.tx["approve"] = "NONE" /\ new.tx["main"] = "NONE" /\ Unsent["main"] = "unsent"
  BY DEF NewTrade, Unsent, Steps
<1>8. /\ DOMAIN ts2 = 1..(n + 1) /\ \A i \in 1..n : ts2[i] = ts[i]
      /\ ts2[n + 1] = new
  <2>1. PICK r \in TradeRecord : r = new
    BY <1>5
  <2>2. ts2 = Append(ts, r)
    BY <1>3, <2>1
  <2>3. ts2 \in Seq(TradeRecord) /\ Len(ts2) = n + 1 /\ (\A i \in 1..n : ts2[i] = ts[i]) /\ ts2[n + 1] = r
    <3> HIDE DEF ts2, new
    <3> QED
      BY <1>1, <2>2, AppendProperties
  <2> HIDE DEF ts2, new
  <2> QED
    BY <2>1, <2>3, LenProperties
<1>9. (\A i \in 1..n : cs2[i] = cs[i]) /\ cs2[n + 1] = Unsent
  BY <1>1, <1>4, <1>5, AppendProperties
<1>10. Longer(ts, cs, ts2, cs2, n) /\ ts2[n + 1].side = e.side
  BY <1>1, <1>7, <1>8, <1>9 DEF Longer
<1>11. Regular(ts2[n + 1]) /\ Answered(e2, ts2[n + 1], cs2[n + 1])
  BY <1>6, <1>7, <1>8 DEF Regular, Answered
<1> QED
  BY <1>1, <1>2, <1>6, <1>10, <1>11

LEMMA CreatesKeeps ==
  ASSUME LifeInv, NEW p \in Pairs, Creates(p), ExecInv', UNCHANGED sessionVars
  PROVE  LifeInv'
<1> DEFINE ts == trades[p]
           cs == chain[p]
           ts2 == trades'[p]
           cs2 == chain'[p]
           e == exec[p]
           e2 == exec'[p]
           n == Len(trades[p])
<1>1. /\ n \in Nat /\ e.trade = 0 /\ e.pc = "queued"
      /\ e2.pc = "quote" /\ e2.trade = n + 1 /\ e2.side = e.side
      /\ Longer(ts, cs, ts2, cs2, n) /\ ts2[n + 1].side = e.side
      /\ Regular(ts2[n + 1]) /\ Answered(e2, ts2[n + 1], cs2[n + 1])
  BY CreatesLonger
<1>2. /\ DOMAIN ts = 1..n /\ DOMAIN ts2 = 1..(n + 1)
      /\ \A i \in 1..n : ts2[i] = ts[i] /\ cs2[i] = cs[i]
  BY <1>1 DEF Longer
<1>3. /\ db[p] \in SessionRecord /\ op[p].ses \in SessionRecord
      /\ Operating(ts, cs, e, db[p], leased[p], quarantined[p], op[p])
      /\ Stored(ts, cs, e, db[p], leased[p], quarantined[p], op[p])
      /\ Working(ts, cs, e) /\ Copied(ts, cs, db[p], quarantined[p], loaded[p]) /\ Buying(ts, cs, e)
  BY AtPair
<1> HIDE DEF ts, cs, ts2, cs2, e, e2, n
<1>4. op[p].pc = "exec" /\ op[p].kind # "none" /\ db[p].status # Waiting
  BY <1>1, <1>3 DEF Operating, Stored
<1>5. Working(ts2, cs2, e2)
  <2>1. \A i \in DOMAIN ts2 : i \in 1..n \/ i = n + 1
    BY <1>1, <1>2
  <2> QED
    BY <1>1, <1>2, <1>3, <2>1 DEF Working
<1>6. Buying(ts2, cs2, e2)
  <2>1. \A i \in Side(ts2, "BUY") : i \in Side(ts, "BUY") \/ (i = n + 1 /\ e.side = "BUY")
    BY <1>1, LongerSides
  <2>2. \A i \in Side(ts, "BUY") : i \in 1..n /\ (Dead(ts[i], cs[i]) => Dead(ts2[i], cs2[i]))
    BY <1>1, <1>2 DEF Side
  <2>3. ASSUME NEW i \in Side(ts2, "BUY"), NEW j \in Side(ts2, "BUY"), i < j
        PROVE  Dead(ts2[i], cs2[i])
    <3>1. i \in Side(ts, "BUY")
      BY <1>1, <2>1, <2>2, <2>3
    <3> QED
      BY <1>1, <1>3, <2>1, <2>2, <2>3, <3>1 DEF Buying
  <2>4. \A i \in Side(ts2, "BUY") : i <= n + 1
    BY <1>1, <2>1, <2>2
  <2> QED
    BY <1>1, <2>3, <2>4 DEF Buying
<1>7. e.side = "BUY" => ~HasRef(db[p]) /\ ~HasRef(op[p].ses)
  <2>1. With(db[p], "BUY_PENDING").ref = db[p].ref
    BY <1>3, WithTyped DEF Status, Active, InFlight
  <2>2. op[p].kind \in {"buy", "sell", "recovery"}
    BY <1>4, AtPair DEF OpRecord
  <2> QED
    BY <1>3, <1>4, <2>1, <2>2 DEF Operating, Stored, Credible, HasRef
<1>8. ASSUME NEW s \in SessionRecord, Credible(ts, cs, s)
      PROVE  Credible(ts2, cs2, s)
  BY <1>1, <1>8, LongerCredible
<1>9. ASSUME NEW s \in SessionRecord, Referred(ts, cs, 0, s), e.side = "BUY" => ~HasRef(s)
      PROVE  Referred(ts2, cs2, n + 1, s)
  BY <1>1, <1>9, LongerReferred
<1>10. Operating(ts2, cs2, e2, db[p], leased[p], quarantined[p], op[p])
  BY <1>1, <1>3, <1>4, <1>7, <1>8, <1>9 DEF Operating
<1>11. Copied(ts2, cs2, db[p], quarantined[p], loaded[p])
  BY <1>3, <1>8, CopyTyped DEF Copied
<1>12. Stored(ts2, cs2, e2, db[p], leased[p], quarantined[p], op[p])
  <2>1. Side(ts2, "SELL") # {} => Side(ts, "SELL") # {} \/ e.side = "SELL"
    BY <1>1, LongerSides
  <2> QED
    BY <1>1, <1>3, <1>4, <1>7, <1>8, <1>9, <2>1 DEF Stored
<1> QED
  BY <1>5, <1>6, <1>10, <1>11, <1>12, WorldStep DEF ts2, cs2, e2, Creates

LEMMA ExecutorStepKeepsLife ==
  ASSUME LifeInv, NEW p \in Pairs, ExecutorStep(p), UNCHANGED sessionVars
  PROVE  LifeInv'
<1>1. ExecInv /\ ExecInv' /\ exec[p].pc \notin {"none", "done"}
  BY ExecutorStepKeeps, UnderWay DEF LifeInv
<1>2. Works(p) \/ Creates(p) \/ GivesUp(p)
  BY <1>1, AtPair, ExecutorStepDoes
<1> QED
  BY <1>1, <1>2, WorksKeeps, CreatesKeeps, GivesUpKeeps

------------------------------------------------------------------------------
(* The process dies and is started again.                                   *)

\* A pair of which only the row is left.
LEMMA AloneLife ==
  ASSUME NEW ts, NEW cs, NEW e \in ExecRecord, NEW d, NEW l, NEW k,
         e.pc = "none", e.trade = 0,
         \A i \in DOMAIN ts : Regular(ts[i]),
         Buying(ts, cs, e),
         Stored(ts, cs, e, d, l, k, NoOp)
  PROVE  Life(ts, cs, e, d, l, k, NoOp, <<>>)
<1>1. Working(ts, cs, e) /\ Copied(ts, cs, d, k, <<>>)
  BY DEF Working, Copied
<1>2. Operating(ts, cs, e, d, l, k, NoOp)
  BY NoOpTyped DEF Operating
<1> QED
  BY <1>1, <1>2 DEF Life

LEMMA CrashKeeps == ASSUME LifeInv, Crash PROVE LifeInv'
<1>1. /\ op' = [q \in Pairs |-> NoOp] /\ loaded' = [q \in Pairs |-> <<>>] /\ exec' = [q \in Pairs |-> Idle]
      /\ up' = FALSE
      /\ UNCHANGED <<trades, chain, db, leased, quarantined>>
  BY DEF Crash, rowVars
<1>2. ExecInv'
  BY <1>1, ExecutorCrashKeeps DEF ExecutorCrash, LifeInv
<1>3. TypeOK'
  <2>1. op' \in [Pairs -> OpRecord] /\ loaded' \in [Pairs -> {<<>>} \cup [{1} -> SessionRecord]]
    BY <1>1, NoOpTyped
  <2> QED
    BY <1>1, <1>2, <2>1 DEF TypeOK, OpRecord, ExecInv, LifeInv
<1>4. Apart'
  BY <1>1, NoOpTyped DEF Apart
<1>5. ASSUME NEW p \in Pairs
      PROVE  Life(trades[p], chain[p], Idle, db[p], leased[p], quarantined[p], NoOp, <<>>)
  <2>1. Referred(trades[p], chain[p], 0, db[p])
    BY AtPair, ReferredStays DEF Stored
  <2>2. Stored(trades[p], chain[p], Idle, db[p], leased[p], quarantined[p], NoOp)
    BY <2>1, AtPair, IdleTyped, NoOpTyped DEF Stored
  <2>3. Buying(trades[p], chain[p], Idle) /\ \A i \in DOMAIN trades[p] : Regular(trades[p][i])
    BY AtPair, IdleTyped DEF Buying, Working
  <2> QED
    BY <2>2, <2>3, IdleTyped, AloneLife
<1> QED
  BY <1>1, <1>2, <1>3, <1>4, <1>5 DEF LifeInv

LEMMA FreshStartKeeps == ASSUME LifeInv, FreshStart PROVE LifeInv'
<1> DEFINE cut == {q \in Pairs : db[q].status \in Active /\ ~quarantined[q]}
<1>1. /\ ~up /\ up' = TRUE
      /\ db' = [q \in Pairs |-> IF q \in cut THEN With(db[q], "MANUAL_REVIEW") ELSE db[q]]
      /\ leased' = [q \in Pairs |-> leased[q] /\ q \notin cut]
      /\ quarantined' = [q \in Pairs |-> quarantined[q] \/ q \in cut]
      /\ UNCHANGED <<trades, chain, exec, op, loaded>>
  BY DEF FreshStart, execVars
<1>2. ExecInv'
  BY <1>1, ExecStays DEF LifeInv, execVars
<1>3. "MANUAL_REVIEW" \in Status
  BY DEF Status, Active
<1>4. TypeOK'
  <2>1. \A q \in Pairs : With(db[q], "MANUAL_REVIEW") \in SessionRecord /\ db[q] \in SessionRecord
    BY <1>3, AtPair, WithTyped
  <2>2. db' \in [Pairs -> SessionRecord]
    BY <1>1, <2>1
  <2>3. leased' \in [Pairs -> BOOLEAN] /\ quarantined' \in [Pairs -> BOOLEAN]
    BY <1>1
  <2> QED
    BY <1>1, <1>2, <2>2, <2>3 DEF TypeOK, ExecInv, LifeInv
<1>5. Apart'
  BY <1>1 DEF Apart, LifeInv
<1>6. ASSUME NEW p \in Pairs
      PROVE  Life(trades[p], chain[p], exec[p], db'[p], leased'[p], quarantined'[p], op[p], <<>>)
  <2>1. op[p].kind = "none" /\ loaded[p] = <<>>
    BY <1>1 DEF LifeInv, Apart
  <2>2. exec[p].pc = "none" /\ exec[p].trade = 0
    BY <2>1, AtPair DEF Operating, Working
  <2>3. CASE p \notin cut
    BY <1>1, <2>1, <2>3, AtPair DEF LifeInv
  <2>4. CASE p \in cut
    <3>1. PICK d \in SessionRecord : d = With(db[p], "MANUAL_REVIEW")
      BY <1>3, AtPair, WithTyped
    <3>2. d.status = "MANUAL_REVIEW" /\ d.entry = db[p].entry /\ d.exit = db[p].exit /\ d.ref = db[p].ref
      BY <1>3, <3>1, AtPair, WithTyped
    <3>3. db'[p] = d /\ leased'[p] = FALSE /\ quarantined'[p] = TRUE
      BY <1>1, <2>4, <3>1
    <3>4. Credible(trades[p], chain[p], d) /\ Referred(trades[p], chain[p], exec[p].trade, d)
      BY <3>2, AtPair DEF Credible, Referred, HasRef, Stored, Waiting
    <3>5. Stored(trades[p], chain[p], exec[p], d, FALSE, TRUE, op[p])
      BY <2>1, <3>2, <3>4, AtPair DEF Stored, Waiting
    <3>6. Operating(trades[p], chain[p], exec[p], d, FALSE, TRUE, op[p])
      BY <2>1, AtPair DEF Operating
    <3> QED
      BY <3>3, <3>5, <3>6, AtPair DEF Life, Copied
  <2> QED
    BY <2>3, <2>4
<1>7. \A p \in Pairs : loaded[p] = <<>>
  BY <1>1 DEF LifeInv, Apart
<1> QED
  BY <1>1, <1>2, <1>4, <1>5, <1>6, <1>7 DEF LifeInv

LEMMA LifeInit == ASSUME Init PROVE LifeInv
<1>1. ExecInv
  <2>1. ExecTypeOK
    BY IdleTyped, EmptySeq DEF Init, ExecInit, ExecTypeOK, Executing
  <2>2. ASSUME NEW p \in Pairs PROVE TradesSound(p) /\ Knows(p)
    BY IdleTyped DEF Init, ExecInit, TradesSound, Knows
  <2> QED
    BY <2>1, <2>2 DEF ExecInv
<1>2. /\ NewSession \in SessionRecord /\ NewSession.status = Waiting /\ NewSession.entry = FALSE
      /\ NewSession.exit = FALSE /\ NewSession.ref = NoRef
  BY NoRefTyped DEF NewSession, SessionRecord, Reference, Status, Active, Waiting
<1>3. TypeOK
  BY <1>1, <1>2, NoOpTyped DEF Init, TypeOK, OpRecord, ExecInv
<1>4. Apart
  BY NoOpTyped DEF Init, Apart
<1>5. Life(<<>>, <<>>, Idle, NewSession, FALSE, FALSE, NoOp, <<>>)
  <2>1. DOMAIN <<>> = {} /\ \A side : Side(<<>>, side) = {}
    BY DEF Side
  <2>2. Credible(<<>>, <<>>, NewSession) /\ Referred(<<>>, <<>>, Idle.trade, NewSession)
    BY <1>2, <2>1 DEF Credible, Referred, HasRef, Waiting
  <2>3. Stored(<<>>, <<>>, Idle, NewSession, FALSE, FALSE, NoOp)
    BY <1>2, <2>1, <2>2, IdleTyped, NoOpTyped DEF Stored
  <2>4. Buying(<<>>, <<>>, Idle)
    BY <2>1, IdleTyped DEF Buying
  <2> QED
    BY <2>1, <2>3, <2>4, IdleTyped, AloneLife
<1> QED
  BY <1>1, <1>3, <1>4, <1>5 DEF Init, ExecInit, LifeInv

LEMMA LifeStays == ASSUME LifeInv, UNCHANGED allVars PROVE LifeInv'
<1>1. UNCHANGED execVars /\ UNCHANGED sessionVars
  BY DEF allVars
<1>2. ExecInv'
  BY <1>1, ExecStays DEF LifeInv
<1> QED
  BY <1>1, <1>2 DEF LifeInv, execVars, sessionVars, TypeOK, ExecInv, Apart

LEMMA LifeNext == ASSUME LifeInv, [Next]_allVars PROVE LifeInv'
<1>1. CASE UNCHANGED allVars
  BY <1>1, LifeStays
<1>2. ASSUME NEW p \in Pairs, EngineBegin(p) PROVE LifeInv'
  BY <1>2, ObserveBuyKeeps, RowActionsKeep, SellManuallyKeeps, SellByPolicyKeeps DEF EngineBegin
<1>3. ASSUME NEW p \in Pairs, EngineAdvance(p) PROVE LifeInv'
  BY <1>3, CountPositionsKeeps, RejectKeeps, AcceptRiskKeeps, AmountFailsKeeps, BuyKeeps, EndBuyKeeps, EndSellKeeps
     DEF EngineAdvance
<1>4. ASSUME NEW p \in Pairs, RecoveryAdvance(p) PROVE LifeInv'
  BY <1>4, ObservePendingKeeps, ObserveNothingKeeps, ObserveRevertedKeeps, ObserveMinedKeeps, ObserveUnmeasuredKeeps,
     ObserveApprovedKeeps, RestoreSimulatedKeeps, RetryRiskKeeps, DropBuyKeeps, ResumeThrowsKeeps,
     ResumeBuyKeeps, ResumeSellKeeps, EndResumeKeeps DEF RecoveryAdvance
<1>5. ASSUME NEW p \in Pairs, Claim(p) \/ MonitorLoads(p) \/ MonitorSaves(p) PROVE LifeInv'
  BY <1>5, ClaimKeeps, MonitorLoadsKeeps, MonitorSavesKeeps
<1>6. ASSUME NEW p \in Pairs, ExecutorStep(p) \/ Mine(p), UNCHANGED sessionVars PROVE LifeInv'
  BY <1>6, ExecutorStepKeepsLife, MineKeepsLife
<1>7. CASE Crash \/ FreshStart
  BY <1>7, CrashKeeps, FreshStartKeeps
<1> QED
  BY <1>1, <1>2, <1>3, <1>4, <1>5, <1>6, <1>7 DEF Next

------------------------------------------------------------------------------
(* Theorems.                                                                *)

\* Whatever fails and whenever the process dies, the operation in memory, the
\* execution it has started and the row of a session agree.
THEOREM LifeInvariant == Spec => []LifeInv
BY LifeInit, LifeNext, PTL DEF Spec

\* The two ways to name the trades of a side.
LEMMA SidesOf ==
  ASSUME LifeInv, NEW p \in Pairs
  PROVE  /\ Sales(p) = Side(trades[p], "SELL") /\ Purchases(p) = Side(trades[p], "BUY")
         /\ \A i \in DOMAIN trades[p] :
              i \in Nat /\ i # 0 /\ trades[p][i] \in TradeRecord /\ chain[p][i] \in [Steps -> ChainStatus]
<1>1. /\ trades[p] \in Seq(TradeRecord) /\ DOMAIN trades[p] = 1..Len(trades[p])
      /\ chain[p] \in Seq([Steps -> ChainStatus]) /\ Len(chain[p]) = Len(trades[p])
  BY LenProperties DEF LifeInv, TypeOK, ExecTypeOK
<1>2. \A i \in DOMAIN trades[p] : trades[p][i] \in TradeRecord /\ chain[p][i] \in [Steps -> ChainStatus]
  BY <1>1, ElementOfSeq
<1>3. \A i \in DOMAIN trades[p] : trades[p][i].side \in {"BUY", "SELL"}
  BY <1>2 DEF TradeRecord, Sides
<1> QED
  BY <1>1, <1>2, <1>3 DEF Sales, Purchases, Side

\* A trade is done when its transaction has succeeded or was simulated.
LEMMA DoneSucceeds ==
  ASSUME LifeInv, NEW p \in Pairs, NEW side \in Sides, NEW i \in Side(trades[p], side), Done(trades[p][i], chain[p][i])
  PROVE  i \in Succeeded(p, IF side = "SELL" THEN Sales(p) ELSE Purchases(p))
BY SidesOf DEF Done, Succeeded, Simulation, Sides

LEMMA LifeSays ==
  ASSUME LifeInv
  PROVE  BookSound /\ NoDoubleBuy /\ LeaseReturns /\ QuarantineHolds
<1>1. RefRecorded
  BY AtPair DEF RefRecorded, Stored, Referred
<1>2. BookMatchesChain
  <2>1. ASSUME NEW p \in Pairs
        PROVE  /\ db[p].entry => Succeeded(p, Purchases(p)) # {}
               /\ db[p].exit => Succeeded(p, Sales(p)) # {} /\ db[p].entry
    <3>1. ASSUME NEW i \in Side(trades[p], "BUY"), Done(trades[p][i], chain[p][i])
          PROVE  Succeeded(p, Purchases(p)) # {}
      BY <3>1, DoneSucceeds DEF Sides
    <3>2. ASSUME NEW i \in Side(trades[p], "SELL"), Done(trades[p][i], chain[p][i])
          PROVE  Succeeded(p, Sales(p)) # {}
      BY <3>2, DoneSucceeds DEF Sides
    <3>3. Credible(trades[p], chain[p], db[p])
      BY AtPair DEF Stored
    <3> QED
      BY <3>1, <3>2, <3>3 DEF Credible
  <2>2. \A p \in Pairs : Credible(trades[p], chain[p], db[p])
    BY AtPair DEF Stored
  <2> QED
    BY <2>1, <2>2 DEF BookMatchesChain, Credible
<1>3. NoDoubleBuy
  <2>1. ASSUME NEW p \in Pairs, NEW i \in Purchases(p), NEW j \in Purchases(p),
               Moving(p, i), Moving(p, j), i < j
        PROVE  FALSE
    BY <2>1, SidesOf, AtPair DEF Buying, Dead, Moving, Simulation
  <2>2. \A p \in Pairs : \A i \in Purchases(p) : i \in Nat
    BY SidesOf DEF Side
  <2>3. ASSUME NEW p \in Pairs, NEW i \in Purchases(p), NEW j \in Purchases(p), Moving(p, i), Moving(p, j)
        PROVE  i = j
    <3>1. i < j \/ j < i \/ i = j
      BY <2>2
    <3> QED
      BY <2>1, <2>3, <3>1
  <2> QED
    BY <2>3 DEF NoDoubleBuy
<1>4. LeaseReturns
  BY AtPair DEF LeaseReturns, Claimable, ClaimsRow, Stored
<1>5. QuarantineHolds
  BY AtPair DEF QuarantineHolds, Stored
<1>6. TypeOK
  BY DEF LifeInv
<1> QED
  BY <1>1, <1>2, <1>3, <1>4, <1>5, <1>6 DEF BookSound

\* The database is typed, every reference names a transaction recovery will
\* find, and no row claims of a position what the chain has not done.
THEOREM BookIsSound == Spec => []BookSound
BY LifeInvariant, LifeSays, PTL

\* However often its purchase is resumed or its recovery dies, a token is
\* bought by one transaction.
THEOREM BoughtOnce == Spec => []NoDoubleBuy
BY LifeInvariant, LifeSays, PTL

\* The lease of a recovery that dies, or cannot write its decision, is on a
\* row the next pass claims again.
THEOREM LeasesReturn == Spec => []LeaseReturns
BY LifeInvariant, LifeSays, PTL

\* After a fresh start only the operator moves a quarantined session, and only
\* by a sale.
THEOREM QuarantineIsKept == Spec => []QuarantineHolds
BY LifeInvariant, LifeSays, PTL

\* Under the engine, recovery and the crashes of the process too, the saved
\* trades say of the chain only what is so.
THEOREM LifecycleRecordsSound == Spec => []RecordsSound
<1>1. LifeInv => RecordsSound
  BY InvariantSays DEF LifeInv, ExecInv, RecordsSound
<1> QED
  BY <1>1, LifeInvariant, PTL

\* Under the engine and recovery too, every transaction was saved before it
\* was sent.
THEOREM LifecycleBroadcastRecorded == Spec => []BroadcastRecorded
<1>1. LifeInv => BroadcastRecorded
  BY InvariantSays DEF LifeInv
<1> QED
  BY <1>1, LifeInvariant, PTL

\* Neither the engine nor recovery ever sends a transaction again.
THEOREM LifecycleSentOnce == Spec => SentOnce
<1> DEFINE Once == \A p \in Pairs : \A i \in DOMAIN trades[p], s \in Steps :
                     chain'[p][i][s] = "pending" /\ chain[p][i][s] # "pending" =>
                       chain[p][i][s] = "unsent" /\ trades[p][i].tx[s] = "PENDING_BROADCAST"
<1>1. ASSUME LifeInv, [Next]_allVars PROVE chain' = chain \/ [ExecNext]_execVars
  <2>1. CASE UNCHANGED allVars
    BY <2>1 DEF allVars, execVars
  <2>2. ASSUME NEW p \in Pairs, EngineBegin(p) PROVE chain' = chain
    BY <2>2 DEF EngineBegin, ObserveBuy, Expire, IgnoreManually, SellManually, SellByPolicy, ReviewByPolicy, execVars
  <2>3. ASSUME NEW p \in Pairs, EngineAdvance(p) PROVE chain' = chain
    BY <2>3 DEF EngineAdvance, CountPositions, Reject, AcceptRisk, AmountFails, Buy, EndBuy, EndSell, execVars
  <2>4. ASSUME NEW p \in Pairs, RecoveryAdvance(p) PROVE chain' = chain
    BY <2>4 DEF RecoveryAdvance, ObservePending, ObserveNothing, ObserveReverted, ObserveMined, ObserveUnmeasured,
       ObserveApproved, RestoreSimulated, RetryRisk, DropBuy, ResumeThrows, ResumeBuy, ResumeSell, EndResume,
       Decide, execVars
  <2>5. ASSUME NEW p \in Pairs, Claim(p) \/ MonitorLoads(p) \/ MonitorSaves(p) PROVE chain' = chain
    BY <2>5 DEF Claim, MonitorLoads, MonitorSaves, execVars
  <2>6. ASSUME NEW p \in Pairs, ExecutorStep(p) \/ Mine(p) PROVE ExecNext
    BY <2>6 DEF ExecNext
  <2>7. CASE Crash \/ FreshStart
    BY <2>7 DEF Crash, FreshStart, execVars
  <2> QED
    BY <1>1, <2>1, <2>2, <2>3, <2>4, <2>5, <2>6, <2>7 DEF Next
<1>2. ASSUME LifeInv, [Next]_allVars, NEW q \in Pairs, NEW i \in DOMAIN trades[q], NEW s \in Steps,
             chain'[q][i][s] = "pending", chain[q][i][s] # "pending"
      PROVE  chain[q][i][s] = "unsent" /\ trades[q][i].tx[s] = "PENDING_BROADCAST"
  <2>1. [ExecNext]_execVars /\ ExecInv
    BY <1>1, <1>2 DEF LifeInv
  <2>2. \E p \in Pairs : Sends(p)
    BY <1>2, <2>1, OthersSendNothing
  <2> QED
    BY <1>2, <2>1, <2>2, SendsPrepared
<1>3. LifeInv /\ [Next]_allVars => Once
  BY <1>2
<1> HIDE DEF Once
<1>4. Spec => [][Once]_execVars
  BY <1>3, LifeInvariant, PTL DEF Spec
<1> QED
  BY <1>4 DEF Once, SentOnce

------------------------------------------------------------------------------
(* What the book has recorded stays.                                        *)

\* A row of p may be replaced by s: nothing recorded is lost.
Keeps(p, s) == (db[p].entry => s.entry) /\ (db[p].exit => s.exit)

LEMMA RowKept ==
  ASSUME LifeInv, NEW p \in Pairs, NEW s,
         db' = db \/ (db' = [db EXCEPT ![p] = s] /\ Keeps(p, s))
  PROVE  \A q \in Pairs : (db[q].entry => db'[q].entry) /\ (db[q].exit => db'[q].exit)
BY DEF Keeps, LifeInv, TypeOK

LEMMA WithKeeps ==
  ASSUME LifeInv, NEW p \in Pairs, NEW s \in SessionRecord, Keeps(p, s), NEW status \in Status
  PROVE  Keeps(p, With(s, status))
BY WithTyped DEF Keeps

\* What an operation holds says of the position what the row says, or the row
\* has recorded neither more.
LEMMA HeldKeeps ==
  ASSUME LifeInv, NEW p \in Pairs, op[p].kind # "none"
  PROVE  Keeps(p, op[p].ses)
<1>1. op[p].kind \in {"buy", "sell", "recovery"} /\ db[p] \in SessionRecord /\ op[p].ses \in SessionRecord
  BY AtPair DEF OpRecord
<1>2. "BUY_PENDING" \in Status
  BY DEF Status, Active, InFlight
<1>3. CASE op[p].kind = "sell"
  BY <1>3, AtPair DEF Operating, Stored, Credible, Open, Keeps
<1>4. CASE op[p].kind = "buy"
  BY <1>4, AtPair DEF Operating, Keeps
<1>5. CASE op[p].kind = "recovery"
  <2>1. op[p].ses = db[p] \/ op[p].ses = With(db[p], "BUY_PENDING")
    <3>1. exec[p].side \in {"BUY", "SELL"}
      BY DEF LifeInv, TypeOK, ExecTypeOK, ExecRecord, Sides
    <3> QED
      BY <1>5, <3>1, AtPair DEF Operating
  <2>2. Keeps(p, db[p])
    BY DEF Keeps
  <2> QED
    BY <1>1, <1>2, <2>1, <2>2, WithKeeps
<1> QED
  BY <1>1, <1>3, <1>4, <1>5

\* The session an operation holds, and what is made of it.
LEMMA MadeKeeps ==
  ASSUME LifeInv, NEW p \in Pairs, op[p].kind # "none"
  PROVE  LET s == op[p].ses IN
         /\ Keeps(p, s) /\ Keeps(p, Entered(s)) /\ Keeps(p, Exited(s)) /\ Keeps(p, Measured(p))
         /\ \A status \in Status :
              /\ Keeps(p, With(s, status)) /\ Keeps(p, With(Entered(s), status)) /\ Keeps(p, With(Exited(s), status))
              /\ Keeps(p, With(WithOutcome(p, s), status))
              /\ Keeps(p, [s EXCEPT !.status = status, !.ref = NoRef])
         /\ Keeps(p, Reviewed(p, s)) /\ Keeps(p, Reviewed(p, Measured(p)))
<1>1. PICK s \in SessionRecord : s = op[p].ses
  BY AtPair
<1>2. Keeps(p, s)
  BY <1>1, HeldKeeps
<1>3. /\ Entered(s) \in SessionRecord /\ Keeps(p, Entered(s))
      /\ Exited(s) \in SessionRecord /\ Keeps(p, Exited(s))
  BY <1>2, EnteredTyped, ExitedTyped DEF Keeps
<1>4. PICK m : m = Measured(p) /\ (m = Entered(s) \/ m = Exited(s))
  BY <1>1 DEF Measured
<1>5. m \in SessionRecord /\ Keeps(p, m)
  BY <1>3, <1>4
<1>6. \A status \in Status : Keeps(p, [s EXCEPT !.status = status, !.ref = NoRef])
  BY <1>2 DEF Keeps, SessionRecord
<1>7. ASSUME NEW r \in SessionRecord, Keeps(p, r) PROVE Keeps(p, Reviewed(p, r))
  BY <1>7 DEF Keeps, Reviewed, SessionRecord
<1>8. \A status \in Status :
        Keeps(p, With(s, status)) /\ Keeps(p, With(Entered(s), status)) /\ Keeps(p, With(Exited(s), status))
  BY <1>2, <1>3, WithKeeps
<1>9. \A status \in Status : Keeps(p, With(WithOutcome(p, s), status))
  BY <1>2 DEF Keeps, WithOutcome, With, SessionRecord
<1> QED
  BY <1>1, <1>2, <1>3, <1>4, <1>5, <1>6, <1>7, <1>8, <1>9

\* A step that writes a row of p writes one that keeps what is recorded.
WritesKeeping(p) == db' = db \/ \E s : db' = [db EXCEPT ![p] = s] /\ Keeps(p, s)

LEMMA Statuses ==
  /\ {"RISK_CHECKING", "BUY_PENDING", "SELL_PENDING", "MANUAL_REVIEW", "REJECTED", "EXPIRED", "HOLDING"} \subseteq Status
  /\ InFlight \subseteq Status
BY DEF Status, Active, InFlight, Terminal

LEMMA EngineWrites ==
  ASSUME LifeInv, NEW p \in Pairs, EngineBegin(p) \/ EngineAdvance(p)
  PROVE  WritesKeeping(p)
<1>1. \A status \in Status : Keeps(p, With(db[p], status))
  <2>1. Keeps(p, db[p]) /\ db[p] \in SessionRecord
    BY AtPair DEF Keeps
  <2> QED
    BY <2>1, WithKeeps
<1>2. CASE EngineBegin(p)
  <2>1. CASE ObserveBuy(p)
    BY <1>1, <2>1, Statuses DEF ObserveBuy, Store, WritesKeeping
  <2>2. CASE SellManually(p) \/ SellByPolicy(p)
    BY <1>1, <2>2, Statuses DEF SellManually, SellByPolicy, PerformSell, Store, WritesKeeping
  <2>3. CASE Expire(p) \/ IgnoreManually(p) \/ ReviewByPolicy(p)
    BY <1>1, <2>3, Statuses DEF Expire, IgnoreManually, ReviewByPolicy, Store, WritesKeeping
  <2> QED
    BY <1>2, <2>1, <2>2, <2>3 DEF EngineBegin
<1>3. CASE EngineAdvance(p)
  <2>1. CASE CountPositions(p) \/ AmountFails(p) \/ Buy(p)
    BY <2>1 DEF CountPositions, AmountFails, Buy, rowVars, WritesKeeping
  <2>2. CASE Reject(p)
    BY <2>2, MadeKeeps, Statuses DEF Reject, StoreLast, Store, StoreFails, rowVars, WritesKeeping
  <2>3. CASE AcceptRisk(p)
    BY <2>3, MadeKeeps, Statuses DEF AcceptRisk, Store, StoreFails, rowVars, WritesKeeping
  <2>4. CASE EndBuy(p)
    BY <2>4, MadeKeeps, Statuses DEF EndBuy, BuyAnswered, StoreLast, Store, StoreFails, rowVars, WritesKeeping
  <2>5. CASE EndSell(p)
    BY <2>5, MadeKeeps, Statuses DEF EndSell, SellAnswered, StoreLast, Store, StoreFails, rowVars, WritesKeeping
  <2> QED
    BY <1>3, <2>1, <2>2, <2>3, <2>4, <2>5 DEF EngineAdvance
<1> QED
  BY <1>2, <1>3

LEMMA RecoveryWrites ==
  ASSUME LifeInv, NEW p \in Pairs, RecoveryAdvance(p)
  PROVE  WritesKeeping(p)
<1>1. op[p].kind # "none"
  <2>1. CASE EndResume(p)
    BY <2>1 DEF EndResume
  <2>2. CASE ~EndResume(p)
    <3>1. Claimed(p)
      BY <2>2 DEF RecoveryAdvance, ObservePending, ObserveNothing, ObserveReverted, ObserveMined, ObserveUnmeasured,
         ObserveApproved, RestoreSimulated, RetryRisk, DropBuy, ResumeThrows, ResumeBuy, ResumeSell, Observes, Intent
    <3> QED
      BY <3>1 DEF Claimed
  <2> QED
    BY <2>1, <2>2
<1>3. CASE ObservePending(p) \/ ObserveNothing(p) \/ RetryRisk(p)
  BY <1>1, <1>3, MadeKeeps
     DEF ObservePending, ObserveNothing, RetryRisk, Decide, ApplyRow, ApplyFails, rowVars, WritesKeeping
<1>4. CASE DropBuy(p)
  BY <1>1, <1>4, MadeKeeps, Statuses DEF DropBuy, Decide, ApplyRow, ApplyFails, rowVars, WritesKeeping
<1>5. CASE ObserveReverted(p)
  <2>1. PICK status \in {"REJECTED", "HOLDING"} : status = IF SelectedSide(p) = "BUY" THEN "REJECTED" ELSE "HOLDING"
    OBVIOUS
  <2>2. Decide(p, [op[p].ses EXCEPT !.status = status, !.ref = NoRef], ApplyTrade(p, "REVERTED", "REVERTED"))
    BY <1>5, <2>1 DEF ObserveReverted
  <2>3. Keeps(p, [op[p].ses EXCEPT !.status = status, !.ref = NoRef])
    BY <1>1, MadeKeeps, Statuses
  <2> QED
    BY <2>2, <2>3 DEF Decide, ApplyRow, ApplyFails, rowVars, WritesKeeping
<1>6. CASE ObserveMined(p) \/ RestoreSimulated(p)
  BY <1>1, <1>6, MadeKeeps DEF ObserveMined, RestoreSimulated, Decide, ApplyRow, ApplyFails, rowVars, WritesKeeping
<1>7. CASE ObserveUnmeasured(p)
  BY <1>1, <1>7, MadeKeeps DEF ObserveUnmeasured, Decide, ApplyRow, ApplyFails, rowVars, WritesKeeping
<1>8. CASE ObserveApproved(p)
  BY <1>1, <1>8, MadeKeeps, Statuses DEF ObserveApproved, ApplyRow, ApplyFails, rowVars, WritesKeeping
<1>9. CASE ResumeThrows(p) \/ ResumeBuy(p) \/ ResumeSell(p)
  BY <1>9 DEF ResumeThrows, ResumeBuy, ResumeSell, rowVars, WritesKeeping
<1>10. CASE EndResume(p)
  <2>1. PICK r : r = Resumed(p)
    OBVIOUS
  <2>2. \/ r = Entered(op[p].ses) \/ r = Exited(op[p].ses)
        \/ \E status \in Status : r = With(WithOutcome(p, op[p].ses), status)
    BY <2>1, Statuses DEF Resumed
  <2>3. Keeps(p, r)
    BY <1>1, <2>2, MadeKeeps
  <2> QED
    BY <1>10, <2>1, <2>3 DEF EndResume, ApplyRow, rowVars, WritesKeeping
<1> QED
  BY <1>3, <1>4, <1>5, <1>6, <1>7, <1>8, <1>9, <1>10 DEF RecoveryAdvance

LEMMA BookStep ==
  ASSUME LifeInv, [Next]_allVars
  PROVE  \A q \in Pairs : (db[q].entry => db'[q].entry) /\ (~ExitMonitor /\ db[q].exit => db'[q].exit)
<1>1. ASSUME NEW p \in Pairs, WritesKeeping(p)
      PROVE  \A q \in Pairs : (db[q].entry => db'[q].entry) /\ (db[q].exit => db'[q].exit)
  BY <1>1, RowKept DEF WritesKeeping
<1>2. CASE db' = db
  BY <1>2
<1>3. CASE \E p \in Pairs : EngineBegin(p) \/ EngineAdvance(p) \/ RecoveryAdvance(p)
  BY <1>1, <1>3, EngineWrites, RecoveryWrites
<1>4. ASSUME NEW p \in Pairs, MonitorSaves(p)
      PROVE  \A q \in Pairs : (db[q].entry => db'[q].entry) /\ (~ExitMonitor /\ db[q].exit => db'[q].exit)
  <2>1. loaded[p] # <<>>
    BY <1>4 DEF MonitorSaves
  <2>2. ExitMonitor /\ loaded[p][1].entry
    BY <2>1, AtPair DEF Copied, Credible, Open
  <2>3. db' = db \/ db' = [db EXCEPT ![p] = loaded[p][1]]
    BY <1>4 DEF MonitorSaves, StoreLast, Store, StoreFails, rowVars
  <2> QED
    BY <2>2, <2>3 DEF LifeInv, TypeOK
<1>5. CASE FreshStart
  <2>1. ASSUME NEW q \in Pairs PROVE db'[q] = db[q] \/ db'[q] = With(db[q], "MANUAL_REVIEW")
    BY <1>5 DEF FreshStart
  <2>2. ASSUME NEW q \in Pairs
        PROVE  With(db[q], "MANUAL_REVIEW").entry = db[q].entry /\ With(db[q], "MANUAL_REVIEW").exit = db[q].exit
    BY AtPair, WithTyped, Statuses
  <2> QED
    BY <2>1, <2>2
<1>6. CASE UNCHANGED allVars
  BY <1>2, <1>6 DEF allVars, sessionVars
<1>7. CASE \E p \in Pairs : Claim(p) \/ MonitorLoads(p)
  BY <1>2, <1>7 DEF Claim, MonitorLoads, rowVars
<1>8. CASE (\E p \in Pairs : (ExecutorStep(p) \/ Mine(p)) /\ UNCHANGED sessionVars) \/ Crash
  BY <1>2, <1>8 DEF sessionVars, Crash, rowVars
<1> QED
  BY <1>3, <1>4, <1>5, <1>6, <1>7, <1>8 DEF Next

\* An entry stays in the book whatever happens; without the exit monitor, an
\* exit does too (a copy the monitor has read before the sale may be saved
\* over the exit).
THEOREM BookIsPermanent ==
  /\ Spec => [][\A p \in Pairs : db[p].entry => db'[p].entry]_allVars
  /\ ~ExitMonitor => (Spec => BookPermanent)
<1> DEFINE Entries == \A p \in Pairs : db[p].entry => db'[p].entry
           Book == \A p \in Pairs : (db[p].entry => db'[p].entry) /\ (db[p].exit => db'[p].exit)
<1>1. LifeInv /\ [Next]_allVars => Entries
  BY BookStep
<1>2. ASSUME ~ExitMonitor PROVE LifeInv /\ [Next]_allVars => Book
  BY <1>2, BookStep
<1> HIDE DEF Entries, Book
<1>3. Spec => [][Entries]_allVars
  BY <1>1, LifeInvariant, PTL DEF Spec
<1>4. ASSUME ~ExitMonitor PROVE Spec => [][Book]_allVars
  BY <1>2, <1>4, LifeInvariant, PTL DEF Spec
<1> QED
  BY <1>3, <1>4 DEF Entries, Book, BookPermanent

------------------------------------------------------------------------------
(* Without any fault.                                                       *)

NoFaults == ~StoreFaults /\ ~Crashes /\ ~ExitMonitor

\* A trade that may still move tokens, or a sale that has.
Loose(trade, sent) == sent["main"] = "pending" \/ (trade.side = "SELL" /\ Done(trade, sent))

\* While nothing executes for it the row follows every such trade: it is
\* under review with a reference to it, unless the sale is in the book.
Followed(ts, cs, d) ==
  \A i \in DOMAIN ts :
    cs[i]["main"] = "pending" \/ (Loose(ts[i], cs[i]) /\ Open(d)) =>
      d.status = "MANUAL_REVIEW" /\ d.ref = [trade |-> i, step |-> "main"]

Settled(ts, cs, e, d) ==
  /\ \A i, j \in Side(ts, "SELL") : Loose(ts[i], cs[i]) /\ Loose(ts[j], cs[j]) => i = j
  /\ e.pc # "none" => \A i \in DOMAIN ts : Loose(ts[i], cs[i]) => i = e.trade
  /\ e.pc = "none" => Followed(ts, cs, d)

\* The inductive invariant without faults.
CleanInv ==
  /\ LifeInv /\ up
  /\ \A p \in Pairs : ~quarantined[p] /\ Settled(trades[p], chain[p], exec[p], db[p])

------------------------------------------------------------------------------
(* When every write succeeds.                                               *)

\* The purchase of a token was sent, or simulated, and may have succeeded.
Bought(ts, cs) ==
  \E i \in Side(ts, "BUY") : cs[i]["main"] \in {"pending", "success"} \/ ts[i].status = "SIMULATED"
Sold(ts, cs) == \E i \in Side(ts, "SELL") : Done(ts[i], cs[i])

\* A pair that holds tokens or has been counted as if it did.
Commits(ts, cs, e, o) ==
  \/ Bought(ts, cs) /\ ~Sold(ts, cs)
  \/ o.kind = "buy" /\ o.pc # "count"
  \/ e.pc # "none" /\ e.side = "BUY"
Committed == {p \in Pairs : Commits(trades[p], chain[p], exec[p], op[p])}

\* A row that is not counted is one of a pair that has bought nothing; u is up.
Within(ts, cs, d, o, u) ==
  /\ d.status \in {Waiting, "REJECTED", "EXPIRED"} => ~Bought(ts, cs)
  /\ d.status = "RISK_CHECKING" /\ u /\ o.pc # "exec" => ~Bought(ts, cs)
  /\ Open(d) => d.status \notin Terminal

\* The inductive invariants when every write succeeds.
PositionInv == LifeInv /\ \A p \in Pairs : Within(trades[p], chain[p], db[p], op[p], up)

CapacityInv ==
  /\ PositionInv
  /\ Cardinality(Committed) <= MaxPositions
  /\ \A p, q \in Pairs : op[p].kind = "buy" /\ op[q].kind = "buy" => p = q

------------------------------------------------------------------------------
(* Steps of a session and steps of the world.                               *)

\* The trades of ts2 and cs2 are those of ts and cs, and have done the same.
Alike(ts, cs, ts2, cs2) ==
  /\ DOMAIN ts2 = DOMAIN ts
  /\ \A i \in DOMAIN ts :
       /\ ts2[i].side = ts[i].side
       /\ cs2[i] = cs[i]
       /\ Done(ts2[i], cs2[i]) <=> Done(ts[i], cs[i])
       /\ ts2[i].status = "SIMULATED" <=> ts[i].status = "SIMULATED"

LEMMA AlikeSame == ASSUME NEW ts, NEW cs PROVE Alike(ts, cs, ts, cs)
BY DEF Alike

\* A decision of recovery changes no trade but in its record.
LEMMA AppliedAlike ==
  ASSUME LifeInv, NEW p \in Pairs, Claimed(p), HasTransaction(p),
         NEW status \in TradeStatus \ {"SIMULATED"}, NEW tx \in TxStatus \ {"NONE"}, ApplyTrade(p, status, tx),
         chain' = chain
  PROVE  \A q \in Pairs : Alike(trades[q], chain[q], trades'[q], chain'[q])
<1>1. PICK t : t = SelectTrade(p)
  OBVIOUS
<1>2. PICK step : step = SelectStep(p)
  OBVIOUS
<1>3. t \in DOMAIN trades[p] /\ trades[p][t].status # "SIMULATED"
  BY <1>1, <1>2, AtObserve
<1>4. PICK trade \in TradeRecord :
        /\ trades' = [trades EXCEPT ![p] = [trades[p] EXCEPT ![t] = trade]]
        /\ trade.status = status /\ trade.side = trades[p][t].side
  BY <1>1, <1>2, ApplyWrites
<1>5. /\ trades \in [Pairs -> Seq(TradeRecord)] /\ chain \in [Pairs -> Seq([Steps -> ChainStatus])]
  BY DEF LifeInv, TypeOK, ExecTypeOK
<1>6. /\ \A q \in Pairs : DOMAIN trades'[q] = DOMAIN trades[q]
      /\ \A q \in Pairs : q # p => trades'[q] = trades[q]
      /\ \A j \in DOMAIN trades[p] : trades'[p][j] = IF j = t THEN trade ELSE trades[p][j]
  BY <1>3, <1>4, <1>5, UpdateOne
<1>7. Alike(trades[p], chain[p], trades'[p], chain'[p])
  BY <1>3, <1>4, <1>6 DEF Alike, Done
<1> QED
  BY <1>6, <1>7, AlikeSame

\* The engine, the monitor and recovery send nothing and create no trade.
LEMMA SessionTrades ==
  ASSUME LifeInv, NEW p \in Pairs, EngineBegin(p) \/ EngineAdvance(p) \/ Claim(p) \/ RecoveryAdvance(p)
  PROVE  chain' = chain /\ \A q \in Pairs : Alike(trades[q], chain[q], trades'[q], chain'[q])
<1>1. CASE trades' = trades /\ chain' = chain
  BY <1>1, AlikeSame
<1>2. CASE EngineBegin(p)
  BY <1>1, <1>2
     DEF EngineBegin, ObserveBuy, Expire, IgnoreManually, SellManually, SellByPolicy, ReviewByPolicy, execVars
<1>3. CASE EngineAdvance(p)
  BY <1>1, <1>3 DEF EngineAdvance, CountPositions, Reject, AcceptRisk, AmountFails, Buy, EndBuy, EndSell, execVars
<1>4. CASE Claim(p)
  BY <1>1, <1>4 DEF Claim, execVars
<1>5. CASE ObservePending(p) \/ ObserveNothing(p) \/ RestoreSimulated(p) \/ RetryRisk(p) \/ DropBuy(p)
  BY <1>1, <1>5 DEF ObservePending, ObserveNothing, RestoreSimulated, RetryRisk, DropBuy, Decide, ApplyFails
<1>6. CASE ResumeThrows(p) \/ ResumeBuy(p) \/ ResumeSell(p) \/ EndResume(p)
  BY <1>1, <1>6 DEF ResumeThrows, ResumeBuy, ResumeSell, EndResume, execVars
<1>7. CASE ObserveReverted(p) \/ ObserveMined(p) \/ ObserveUnmeasured(p) \/ ObserveApproved(p)
  <2>1. /\ Claimed(p) /\ HasTransaction(p) /\ chain' = chain
    BY <1>7 DEF ObserveReverted, ObserveMined, ObserveUnmeasured, ObserveApproved, Observes, Decide
  <2>2. \/ trades' = trades
        \/ ApplyTrade(p, "REVERTED", "REVERTED") \/ ApplyTrade(p, "CONFIRMED", "CONFIRMED")
        \/ ApplyTrade(p, "CREATED", "CONFIRMED")
    BY <1>7 DEF ObserveReverted, ObserveMined, ObserveUnmeasured, ObserveApproved, Decide, ApplyFails
  <2>3. /\ {"REVERTED", "CONFIRMED", "CREATED"} \subseteq TradeStatus \ {"SIMULATED"}
        /\ {"REVERTED", "CONFIRMED"} \subseteq TxStatus \ {"NONE"}
    BY DEF TradeStatus, TxStatus
  <2> QED
    BY <1>1, <2>1, <2>2, <2>3, AppliedAlike
<1> QED
  BY <1>2, <1>3, <1>4, <1>5, <1>6, <1>7 DEF RecoveryAdvance

LEMMA AlikeSettled ==
  ASSUME NEW ts, NEW cs, NEW ts2, NEW cs2, Alike(ts, cs, ts2, cs2), NEW e, NEW d, Settled(ts, cs, e, d)
  PROVE  Settled(ts2, cs2, e, d)
<1>1. Side(ts2, "SELL") = Side(ts, "SELL")
  BY DEF Alike, Side
<1>2. \A i \in DOMAIN ts : Loose(ts2[i], cs2[i]) <=> Loose(ts[i], cs[i])
  BY DEF Alike, Loose
<1>3. \A i \in Side(ts, "SELL") : i \in DOMAIN ts
  BY DEF Side
<1> QED
  BY <1>1, <1>2, <1>3 DEF Alike, Settled, Followed

\* A step of the session of p keeps the invariant if p stays settled.
LEMMA CleanStep ==
  ASSUME CleanInv, LifeInv', NEW p \in Pairs, EngineBegin(p) \/ EngineAdvance(p) \/ Claim(p) \/ RecoveryAdvance(p),
         \A q \in Pairs : q # p => exec'[q] = exec[q] /\ db'[q] = db[q],
         \A q \in Pairs : ~quarantined'[q],
         up' = up,
         Settled(trades[p], chain[p], exec'[p], db'[p])
  PROVE  CleanInv'
<1>1. \A q \in Pairs : Alike(trades[q], chain[q], trades'[q], chain'[q])
  BY SessionTrades DEF CleanInv
<1>2. ASSUME NEW q \in Pairs PROVE Settled(trades[q], chain[q], exec'[q], db'[q])
  BY DEF CleanInv
<1>3. ASSUME NEW q \in Pairs PROVE Settled(trades'[q], chain'[q], exec'[q], db'[q])
  BY <1>1, <1>2, AlikeSettled
<1> QED
  BY <1>3 DEF CleanInv

------------------------------------------------------------------------------
(* Without faults: the sessions.                                            *)

LEMMA AtClean ==
  ASSUME CleanInv, NEW p \in Pairs
  PROVE  LifeInv /\ up /\ ~quarantined[p] /\ Settled(trades[p], chain[p], exec[p], db[p])
BY DEF CleanInv

\* A row is written, or not, while nothing executes.
LEMMA CleanRow ==
  ASSUME CleanInv, LifeInv', NEW p \in Pairs, EngineBegin(p) \/ EngineAdvance(p) \/ Claim(p) \/ RecoveryAdvance(p),
         exec' = exec, up' = up,
         quarantined' = quarantined \/ quarantined' = [quarantined EXCEPT ![p] = FALSE],
         \/ db' = db
         \/ \E s : db' = [db EXCEPT ![p] = s] /\ Settled(trades[p], chain[p], exec[p], s)
  PROVE  CleanInv'
<1>1. db \in [Pairs -> SessionRecord] /\ quarantined \in [Pairs -> BOOLEAN]
  BY DEF CleanInv, LifeInv, TypeOK
<1>2. \A q \in Pairs : ~quarantined'[q]
  BY <1>1 DEF CleanInv
<1>3. Settled(trades[p], chain[p], exec'[p], db'[p]) /\ \A q \in Pairs : q # p => db'[q] = db[q]
  BY <1>1, AtClean
<1> QED
  BY <1>2, <1>3, CleanStep

\* The status changes and nothing under review leaves it.
LEMMA WithSettled ==
  ASSUME CleanInv, NEW p \in Pairs, exec[p].pc = "none", NEW status \in Status,
         db[p].status = "MANUAL_REVIEW" => status = "MANUAL_REVIEW"
  PROVE  Settled(trades[p], chain[p], exec[p], With(db[p], status))
<1>1. PICK s \in SessionRecord : s = With(db[p], status)
  BY AtClean, AtPair, WithTyped
<1>2. s.status = status /\ s.entry = db[p].entry /\ s.exit = db[p].exit /\ s.ref = db[p].ref
  BY <1>1, AtClean, AtPair, WithTyped
<1>3. Settled(trades[p], chain[p], exec[p], s)
  BY <1>2, AtClean DEF Settled, Followed, Open
<1> QED
  BY <1>1, <1>3

\* An operation that does not wait for an execution.
LEMMA NotExecuting ==
  ASSUME CleanInv, NEW p \in Pairs, op[p].pc # "exec"
  PROVE  exec[p].pc = "none" /\ exec[p].trade = 0
BY AtClean, AtPair DEF Operating, Working

LEMMA BeginsClean ==
  ASSUME CleanInv, LifeInv', NEW p \in Pairs,
         ObserveBuy(p) \/ Expire(p) \/ IgnoreManually(p) \/ ReviewByPolicy(p) \/ Claim(p)
  PROVE  CleanInv'
<1>1. op[p].kind = "none"
  BY DEF ObserveBuy, Expire, IgnoreManually, ReviewByPolicy, Claim, Free
<1>2. exec[p].pc = "none"
  BY <1>1, NotExecuting, AtClean, AtPair DEF Operating
<1>3. exec' = exec /\ up' = up /\ quarantined' = quarantined
  BY DEF ObserveBuy, Expire, IgnoreManually, ReviewByPolicy, Claim, Store, execVars
<1>4. EngineBegin(p) \/ Claim(p)
  BY DEF EngineBegin
<1>5. CASE Claim(p)
  BY <1>3, <1>5, CleanRow DEF Claim
<1>6. CASE ~Claim(p)
  <2>1. \E status \in Status : /\ db' = [db EXCEPT ![p] = With(db[p], status)]
                               /\ db[p].status = "MANUAL_REVIEW" => status = "MANUAL_REVIEW"
    BY <1>6, Statuses DEF ObserveBuy, Expire, IgnoreManually, ReviewByPolicy, Store, Waiting
  <2> QED
    BY <1>2, <1>3, <1>4, <2>1, WithSettled, CleanRow
<1> QED
  BY <1>5, <1>6

LEMMA PurchaseClean ==
  ASSUME CleanInv, LifeInv', NEW p \in Pairs, CountPositions(p) \/ Reject(p) \/ AcceptRisk(p) \/ AmountFails(p)
  PROVE  CleanInv'
<1>1. op[p].kind = "buy" /\ op[p].pc # "exec"
  BY DEF CountPositions, Reject, AcceptRisk, AmountFails
<1>2. exec[p].pc = "none" /\ op[p].ses = db[p] /\ db[p].status \in {"RISK_CHECKING", "BUY_PENDING"}
  BY <1>1, NotExecuting, AtClean, AtPair DEF Operating
<1>3. exec' = exec /\ up' = up /\ quarantined' = quarantined
  BY DEF CountPositions, Reject, AcceptRisk, AmountFails, StoreLast, Store, StoreFails, rowVars, execVars
<1>4. EngineAdvance(p)
  BY DEF EngineAdvance
<1>5. db' = db \/ \E status \in Status : db' = [db EXCEPT ![p] = With(db[p], status)]
  BY <1>2, Statuses DEF CountPositions, Reject, AcceptRisk, AmountFails, StoreLast, Store, StoreFails, rowVars
<1> QED
  BY <1>2, <1>3, <1>4, <1>5, WithSettled, CleanRow

\* Nothing is on its way and no sale has been made: an execution may begin.
LEMMA NoneLoose ==
  ASSUME CleanInv, NEW p \in Pairs, exec[p].pc = "none", ~db[p].exit,
         db[p].status # "MANUAL_REVIEW" \/ (db[p].entry /\ ~IsSale(p, db[p].ref))
  PROVE  \A i \in DOMAIN trades[p] : ~Loose(trades[p][i], chain[p][i])
<1> SUFFICES ASSUME NEW i \in DOMAIN trades[p], Loose(trades[p][i], chain[p][i]) PROVE FALSE
  OBVIOUS
<1>1. trades[p][i].side \in {"BUY", "SELL"} /\ i # 0
  BY AtClean, SidesOf DEF TradeRecord, Sides
<1>2. trades[p][i].side = "SELL" => db[p].entry
  BY AtClean, AtPair DEF Stored, Side
<1>3. chain[p][i]["main"] = "pending" \/ Open(db[p])
  BY <1>2 DEF Loose, Open
<1>4. db[p].status = "MANUAL_REVIEW" /\ db[p].ref = [trade |-> i, step |-> "main"]
  BY <1>3, AtClean DEF Settled, Followed
<1>5. HasRef(db[p]) /\ db[p].ref.trade = i /\ db[p].ref.step = "main"
  BY <1>1, <1>4 DEF HasRef, NoRef
<1>6. db[p].entry /\ trades[p][i].side = "BUY"
  BY <1>1, <1>4, <1>5 DEF IsSale, HasRef
<1>7. chain[p][i]["main"] = "success"
  BY <1>5, <1>6, AtClean, AtPair DEF Stored, Referred
<1> QED
  BY <1>6, <1>7 DEF Loose

\* An execution begins.
LEMMA CallClean ==
  ASSUME CleanInv, LifeInv', NEW p \in Pairs, EngineBegin(p) \/ EngineAdvance(p) \/ RecoveryAdvance(p),
         \A i \in DOMAIN trades[p] : ~Loose(trades[p][i], chain[p][i]),
         NEW side \in Sides, NEW t \in Nat, exec' = [exec EXCEPT ![p] = Queued(side, t)],
         \A q \in Pairs : q # p => db'[q] = db[q],
         quarantined' = quarantined \/ quarantined' = [quarantined EXCEPT ![p] = FALSE],
         up' = up
  PROVE  CleanInv'
<1>1. exec \in [Pairs -> ExecRecord] /\ quarantined \in [Pairs -> BOOLEAN]
  BY DEF CleanInv, LifeInv, TypeOK, ExecTypeOK
<1>2. exec'[p] = Queued(side, t) /\ \A q \in Pairs : q # p => exec'[q] = exec[q]
  BY <1>1
<1>3. exec'[p].pc = "queued"
  BY <1>2, QueuedTyped
<1>4. Settled(trades[p], chain[p], exec'[p], db'[p])
  BY <1>3 DEF Settled, Side
<1>5. \A q \in Pairs : ~quarantined'[q]
  BY <1>1 DEF CleanInv
<1> QED
  BY <1>2, <1>4, <1>5, CleanStep

LEMMA CallsClean ==
  ASSUME CleanInv, LifeInv', NEW p \in Pairs,
         Buy(p) \/ SellManually(p) \/ SellByPolicy(p) \/ ResumeBuy(p) \/ ResumeSell(p)
  PROVE  CleanInv'
<1>1. EngineBegin(p) \/ EngineAdvance(p) \/ RecoveryAdvance(p)
  BY DEF EngineBegin, EngineAdvance, RecoveryAdvance
<1>2. exec' = [exec EXCEPT ![p] = Queued("BUY", 0)] \/ exec' = [exec EXCEPT ![p] = Queued("SELL", 0)]
  BY DEF Buy, SellManually, SellByPolicy, PerformSell, ResumeBuy, ResumeSell, Call, Queued
<1>3. /\ up' = up /\ quarantined' = quarantined
      /\ \A q \in Pairs : q # p => db'[q] = db[q]
  BY AtClean DEF Buy, SellManually, SellByPolicy, PerformSell, ResumeBuy, ResumeSell, Store, rowVars,
     LifeInv, TypeOK
<1>4. exec[p].pc = "none"
  BY DEF Buy, SellManually, SellByPolicy, PerformSell, ResumeBuy, ResumeSell, Call
<1>5. ~db[p].exit /\ (db[p].status # "MANUAL_REVIEW" \/ (db[p].entry /\ ~IsSale(p, db[p].ref)))
  <2>1. CASE SellManually(p) \/ SellByPolicy(p)
    BY <2>1 DEF SellManually, SellByPolicy, CanSellManually, Open
  <2>2. Credible(trades[p], chain[p], db[p])
    BY AtClean, AtPair DEF Stored
  <2>3. CASE Buy(p)
    BY <2>2, <2>3, AtClean, AtPair DEF Buy, Operating, Credible
  <2>4. CASE ResumeBuy(p) \/ ResumeSell(p)
    <3>1. Claimed(p) /\ op[p].ses.status \in {"RISK_CHECKING", "BUY_PENDING", "SELL_PENDING"}
      BY <2>4 DEF ResumeBuy, ResumeSell, Intent
    <3>2. db[p].status \in {"RISK_CHECKING", "BUY_PENDING", "SELL_PENDING"}
      BY <3>1, AtClean, AtClaim
    <3> QED
      BY <2>2, <3>2 DEF Credible, Open
  <2> QED
    BY <2>1, <2>3, <2>4
<1>6. \A i \in DOMAIN trades[p] : ~Loose(trades[p][i], chain[p][i])
  BY <1>4, <1>5, NoneLoose
<1>7. {"BUY", "SELL"} \subseteq Sides /\ 0 \in Nat
  BY DEF Sides
<1> QED
  BY <1>1, <1>2, <1>3, <1>6, <1>7, CallClean

\* The trade that is loose is the one recovery looks at.
LEMMA SelectedLoose ==
  ASSUME CleanInv, NEW p \in Pairs, Claimed(p), NEW i \in DOMAIN trades[p],
         \/ chain[p][i]["main"] = "pending"
         \/ Loose(trades[p][i], chain[p][i]) /\ Open(db[p])
  PROVE  /\ HasRef(db[p]) /\ db[p].status = "MANUAL_REVIEW"
         /\ SelectTrade(p) = i /\ SelectStep(p) = "main"
<1>1. exec[p].pc = "none"
  BY NotExecuting DEF Claimed
<1>2. db[p].status = "MANUAL_REVIEW" /\ db[p].ref = [trade |-> i, step |-> "main"]
  BY <1>1, AtClean DEF Settled, Followed
<1>3. i # 0
  BY AtClean, SidesOf
<1>4. HasRef(db[p]) /\ db[p].ref.trade = i /\ db[p].ref.step = "main"
  BY <1>2, <1>3 DEF HasRef, NoRef
<1>5. op[p].ses = db[p]
  BY AtClean, AtClaim
<1> QED
  BY <1>2, <1>4, <1>5 DEF SelectTrade, SelectStep

\* Recovery writes a session that follows what was loose.
LEMMA DecidedSettled ==
  ASSUME CleanInv, NEW p \in Pairs, Claimed(p), NEW s \in SessionRecord,
         Open(s) => Open(db[p]) \/ Side(trades[p], "SELL") = {},
         \A i \in DOMAIN trades[p] :
           (chain[p][i]["main"] = "pending" \/ (Loose(trades[p][i], chain[p][i]) /\ Open(db[p]))) /\
           (chain[p][i]["main"] = "pending" \/ Open(s)) =>
             s.status = "MANUAL_REVIEW" /\ s.ref = [trade |-> i, step |-> "main"]
  PROVE  Settled(trades[p], chain[p], exec[p], s)
<1>1. exec[p].pc = "none"
  BY NotExecuting DEF Claimed
<1>2. Followed(trades[p], chain[p], s)
  BY DEF Followed, Loose, Side
<1> QED
  BY <1>1, <1>2, AtClean DEF Settled

LEMMA DecisionClean ==
  ASSUME CleanInv, NoFaults, LifeInv', NEW p \in Pairs, Claimed(p), RecoveryAdvance(p), NEW s, NEW update,
         ApplyRow(p, s, FALSE) \/ ApplyFails, exec' = exec, up' = up,
         Settled(trades[p], chain[p], exec[p], s)
  PROVE  CleanInv'
BY CleanRow DEF ApplyRow, ApplyFails, NoFaults

\* The session stays what it is, or its status changes within a purchase.
LEMMA KeptClean ==
  ASSUME CleanInv, NoFaults, LifeInv', NEW p \in Pairs,
         ObservePending(p) \/ RetryRisk(p) \/ DropBuy(p) \/ ResumeThrows(p)
  PROVE  CleanInv'
<1>1. Claimed(p) /\ RecoveryAdvance(p)
  BY DEF ObservePending, RetryRisk, DropBuy, ResumeThrows, Observes, Intent, RecoveryAdvance
<1>2. exec' = exec /\ up' = up
  BY DEF ObservePending, RetryRisk, DropBuy, ResumeThrows, Decide, execVars
<1>3. op[p].ses = db[p] /\ exec[p].pc = "none"
  BY <1>1, AtClean, AtClaim
<1>4. CASE ResumeThrows(p)
  BY <1>1, <1>2, <1>4, CleanRow DEF ResumeThrows, rowVars
<1>5. CASE ObservePending(p) \/ RetryRisk(p)
  <2>1. ApplyRow(p, db[p], FALSE) \/ ApplyFails
    BY <1>3, <1>5 DEF ObservePending, RetryRisk, Decide
  <2> QED
    BY <1>1, <1>2, <2>1, AtClean, DecisionClean
<1>6. CASE DropBuy(p)
  <2>1. ApplyRow(p, With(db[p], "REJECTED"), FALSE) \/ ApplyFails
    BY <1>3, <1>6 DEF DropBuy, Decide
  <2>2. db[p].status # "MANUAL_REVIEW"
    BY <1>3, <1>6 DEF DropBuy, Intent
  <2>3. Settled(trades[p], chain[p], exec[p], With(db[p], "REJECTED"))
    BY <1>3, <2>2, WithSettled, Statuses
  <2> QED
    BY <1>1, <1>2, <2>1, <2>3, DecisionClean
<1> QED
  BY <1>4, <1>5, <1>6

\* The session goes under review with what recovery has looked at.
LEMMA ReviewClean ==
  ASSUME CleanInv, NoFaults, LifeInv', NEW p \in Pairs, ObserveNothing(p) \/ ObserveUnmeasured(p)
  PROVE  CleanInv'
<1>1. Claimed(p) /\ RecoveryAdvance(p) /\ HasTransaction(p)
  BY DEF ObserveNothing, ObserveUnmeasured, Observes, RecoveryAdvance
<1>2. PICK s0 \in SessionRecord : s0 = op[p].ses
  BY AtClean, AtPair
<1>3. (ApplyRow(p, Reviewed(p, s0), FALSE) \/ ApplyFails) /\ exec' = exec /\ up' = up
  BY <1>2 DEF NoFaults, ObserveNothing, ObserveUnmeasured, Decide
<1>4. PICK s \in SessionRecord : s = Reviewed(p, s0)
  BY <1>1, AtClean, ReviewedTyped
<1>5. /\ s.status = "MANUAL_REVIEW" /\ s.entry = s0.entry /\ s.exit = s0.exit
      /\ s.ref = [trade |-> SelectTrade(p), step |-> SelectStep(p)]
  BY <1>1, <1>4, AtClean, ReviewedTyped
<1>6. s0 = db[p]
  BY <1>1, <1>2, AtClean, AtClaim
<1>7. Settled(trades[p], chain[p], exec[p], s)
  <2>1. Open(s) => Open(db[p])
    BY <1>5, <1>6 DEF Open
  <2> QED
    BY <1>1, <1>5, <2>1, SelectedLoose, DecidedSettled
<1> QED
  BY <1>1, <1>3, <1>4, <1>7, DecisionClean

LEMMA RevertedClean ==
  ASSUME CleanInv, NoFaults, LifeInv', NEW p \in Pairs, ObserveReverted(p)
  PROVE  CleanInv'
<1>1. Claimed(p) /\ RecoveryAdvance(p) /\ HasTransaction(p) /\ chain[p][SelectTrade(p)][SelectStep(p)] = "reverted"
  BY DEF ObserveReverted, Observes, RecoveryAdvance
<1>2. PICK s \in SessionRecord :
        /\ ApplyRow(p, s, FALSE) \/ ApplyFails
        /\ s.entry = db[p].entry /\ s.exit = db[p].exit
  <2>1. PICK status \in {"REJECTED", "HOLDING"} : status = IF SelectedSide(p) = "BUY" THEN "REJECTED" ELSE "HOLDING"
    OBVIOUS
  <2>2. op[p].ses = db[p] /\ db[p] \in SessionRecord /\ status \in Status
    BY <1>1, AtClean, AtClaim, Statuses
  <2> DEFINE s == [db[p] EXCEPT !.status = status, !.ref = NoRef]
  <2>3. s \in SessionRecord /\ s.entry = db[p].entry /\ s.exit = db[p].exit
    BY <2>2, RefTyped, NoRefTyped DEF SessionRecord
  <2>4. ApplyRow(p, s, FALSE) \/ ApplyFails
    BY <2>1, <2>2 DEF ObserveReverted, Decide
  <2> QED
    BY <2>3, <2>4
<1>3. exec' = exec /\ up' = up
  BY DEF ObserveReverted, Decide
<1>4. ASSUME NEW i \in DOMAIN trades[p],
             chain[p][i]["main"] = "pending" \/ (Loose(trades[p][i], chain[p][i]) /\ Open(db[p]))
      PROVE  FALSE
  <2>1. SelectTrade(p) = i /\ SelectStep(p) = "main"
    BY <1>1, <1>4, SelectedLoose
  <2>2. trades[p][i].status # "SIMULATED"
    BY <1>1, <2>1, AtClean, AtObserve
  <2> QED
    BY <1>1, <1>4, <2>1, <2>2 DEF Loose, Done
<1>5. Settled(trades[p], chain[p], exec[p], s)
  BY <1>1, <1>2, <1>4, DecidedSettled DEF Open
<1> QED
  BY <1>1, <1>2, <1>3, <1>5, DecisionClean

LEMMA MinedClean ==
  ASSUME CleanInv, NoFaults, LifeInv', NEW p \in Pairs, ObserveMined(p)
  PROVE  CleanInv'
<1>1. /\ Claimed(p) /\ RecoveryAdvance(p) /\ HasTransaction(p) /\ SelectStep(p) = "main"
      /\ chain[p][SelectTrade(p)][SelectStep(p)] = "success"
  BY DEF ObserveMined, Observes, RecoveryAdvance
<1>2. PICK t : t = SelectTrade(p)
  OBVIOUS
<1>3. PICK s \in SessionRecord : s = Measured(p)
  BY <1>1, AtClean, AtMined
<1>4. (ApplyRow(p, s, FALSE) \/ ApplyFails) /\ exec' = exec /\ up' = up
  BY <1>3 DEF ObserveMined, Decide
<1>5. op[p].ses = db[p] /\ db[p] \in SessionRecord
  BY <1>1, AtClean, AtClaim
<1>6. /\ trades[p][t].side = "BUY" => ~db[p].exit
      /\ t \in DOMAIN trades[p] /\ trades[p][t].side \in {"BUY", "SELL"}
  BY <1>1, <1>2, AtClean, AtObserve DEF TradeRecord, Sides
<1>7. trades[p][t].side = "SELL" => ~Open(s)
  BY <1>2, <1>3, <1>5, ExitedTyped DEF Measured, SelectedSide, Open
<1>8. Open(s) => Open(db[p]) \/ Side(trades[p], "SELL") = {}
  BY <1>6, <1>7, AtClean, AtPair DEF Stored, Open
<1>9. ASSUME NEW i \in DOMAIN trades[p],
             chain[p][i]["main"] = "pending" \/ (Loose(trades[p][i], chain[p][i]) /\ Open(db[p])),
             chain[p][i]["main"] = "pending" \/ Open(s)
      PROVE  FALSE
  <2>1. i = t
    BY <1>1, <1>2, <1>9, SelectedLoose
  <2>2. chain[p][i]["main"] # "pending"
    BY <1>1, <1>2, <2>1
  <2> QED
    BY <1>6, <1>7, <1>9, <2>1, <2>2 DEF Loose
<1>10. Settled(trades[p], chain[p], exec[p], s)
  BY <1>1, <1>8, <1>9, DecidedSettled
<1> QED
  BY <1>1, <1>4, <1>10, DecisionClean

LEMMA SimulatedClean ==
  ASSUME CleanInv, NoFaults, LifeInv', NEW p \in Pairs, RestoreSimulated(p)
  PROVE  CleanInv'
<1>1. Claimed(p) /\ RecoveryAdvance(p) /\ Intent(p, InFlight) /\ Simulated(p)
  BY DEF RestoreSimulated, Intent, RecoveryAdvance
<1>2. PICK t : t = SelectTrade(p)
  OBVIOUS
<1>3. op[p].ses = db[p] /\ db[p] \in SessionRecord /\ exec[p].pc = "none"
  BY <1>1, AtClean, AtClaim
<1>4. /\ db[p].status \in InFlight /\ t # 0
      /\ t \in Side(trades[p], IF db[p].status = "SELL_PENDING" THEN "SELL" ELSE "BUY")
      /\ db[p].status = "SELL_PENDING" => db[p].entry /\ ~db[p].exit
      /\ db[p].status # "SELL_PENDING" => ~db[p].entry
  BY <1>1, <1>2, AtClean, AtIntent DEF Simulated
<1>5. \A i \in DOMAIN trades[p] :
        chain[p][i]["main"] # "pending" /\ ~(Loose(trades[p][i], chain[p][i]) /\ Open(db[p]))
  BY <1>3, <1>4, AtClean DEF Settled, Followed, InFlight
<1>6. db[p].status # "SELL_PENDING"
  <2>1. trades[p][t].status = "SIMULATED"
    BY <1>1, <1>2 DEF Simulated
  <2> QED
    BY <1>4, <1>5, <2>1 DEF Loose, Done, Open, Side
<1>7. Side(trades[p], "SELL") = {}
  BY <1>4, <1>6, AtClean, AtPair DEF Stored
<1>8. Measured(p) = Entered(db[p])
  BY <1>2, <1>3, <1>4, <1>6 DEF Measured, SelectedSide, Side
<1>9. PICK s \in SessionRecord : s = Entered(db[p])
  BY <1>3, EnteredTyped
<1>10. (ApplyRow(p, s, FALSE) \/ ApplyFails) /\ exec' = exec /\ up' = up
  BY <1>8, <1>9 DEF RestoreSimulated, Decide
<1>11. Settled(trades[p], chain[p], exec[p], s)
  BY <1>1, <1>5, <1>7, DecidedSettled
<1> QED
  BY <1>1, <1>10, <1>11, DecisionClean

LEMMA ApprovedClean ==
  ASSUME CleanInv, NoFaults, LifeInv', NEW p \in Pairs, ObserveApproved(p)
  PROVE  CleanInv'
<1>1. /\ Claimed(p) /\ RecoveryAdvance(p) /\ HasTransaction(p) /\ SelectStep(p) = "approve"
  BY DEF ObserveApproved, Observes, RecoveryAdvance
<1>2. PICK t : t = SelectTrade(p)
  OBVIOUS
<1>3. PICK s : s = [op[p].ses EXCEPT !.status = "SELL_PENDING", !.ref = NoRef]
  OBVIOUS
<1>4. ApplyRow(p, s, TRUE) /\ Call(p, "SELL", t) /\ up' = up
  BY <1>2, <1>3 DEF ObserveApproved, ApplyFails, NoFaults
<1>5. t \in Nat /\ "SELL" \in Sides
  BY <1>1, <1>2, AtClean, AtObserve, SidesOf DEF Sides
<1>6. exec' = [exec EXCEPT ![p] = Queued("SELL", t)] /\ exec[p].pc = "none"
  BY <1>4 DEF Call, Queued
<1>7. /\ db[p].entry /\ ~db[p].exit
  BY <1>1, <1>2, AtClean, AtObserve
<1>8. db[p].status # "MANUAL_REVIEW" \/ ~IsSale(p, db[p].ref)
  <2>1. HasRef(db[p]) => db[p].ref.step = "approve"
    BY <1>1, AtClean, AtClaim DEF SelectStep
  <2> QED
    BY <2>1 DEF IsSale, HasRef
<1>9. \A i \in DOMAIN trades[p] : ~Loose(trades[p][i], chain[p][i])
  BY <1>6, <1>7, <1>8, NoneLoose
<1>10. quarantined' = [quarantined EXCEPT ![p] = FALSE] /\ \A q \in Pairs : q # p => db'[q] = db[q]
  BY <1>4, AtClean DEF ApplyRow, LifeInv, TypeOK
<1> QED
  BY <1>1, <1>4, <1>5, <1>6, <1>9, <1>10, CallClean

\* What the answer of an execution leaves loose.
LEMMA AtAnswer ==
  ASSUME CleanInv, NEW p \in Pairs, exec[p].pc = "done",
         NEW i \in DOMAIN trades[p], Loose(trades[p][i], chain[p][i])
  PROVE  /\ i = exec[p].trade /\ trades[p][i].side = exec[p].side
         /\ \/ exec[p].outcome = "ok" /\ chain[p][i]["main"] # "pending"
            \/ exec[p].outcome \in {"unknown", "measure"} /\ exec[p].step = "main"
<1>1. i = exec[p].trade /\ i # 0
  BY AtClean, SidesOf DEF Settled
<1>2. /\ Answered(exec[p], trades[p][i], chain[p][i]) /\ Regular(trades[p][i])
  BY <1>1, AtClean, AtPair DEF Working
<1>3. Sound(trades[p][i], chain[p][i]) /\ trades[p][i] \in TradeRecord
  BY AtClean, SidesOf DEF LifeInv, ExecInv, TradesSound
<1>4. trades[p][i].tx["main"] = "NONE" => chain[p][i]["main"] = "unsent"
  BY <1>3 DEF Sound, Steps
<1>5. trades[p][i].status = "SIMULATED" =>
        \A s \in Steps : trades[p][i].tx[s] = "NONE"
  BY <1>2 DEF Regular, Steps
<1>6. exec[p].outcome \in Outcomes /\ exec[p].step \in Steps
  BY AtClean DEF LifeInv, TypeOK, ExecTypeOK, ExecRecord
<1>7. CASE exec[p].outcome = "ok"
  BY <1>1, <1>2, <1>4, <1>5, <1>7 DEF Answered, Done, Steps
<1>8. CASE exec[p].outcome \in {"unknown", "measure"}
  <2>1. trades[p][i].status # "SIMULATED"
    BY <1>2, <1>5, <1>6, <1>8 DEF Answered
  <2>2. chain[p][i]["main"] # "unsent"
    BY <2>1 DEF Loose, Done
  <2> QED
    BY <1>1, <1>2, <1>4, <1>6, <1>8, <2>2 DEF Answered, Steps
<1>9. CASE exec[p].outcome \in {"plain", "unsafe"}
  BY <1>2, <1>9 DEF Answered, Loose, Done
<1> QED
  BY <1>6, <1>7, <1>8, <1>9 DEF Outcomes

\* The row written with the answer follows what the execution has left.
LEMMA AnswerClean ==
  ASSUME CleanInv, LifeInv', NEW p \in Pairs, EngineAdvance(p) \/ RecoveryAdvance(p),
         exec[p].pc = "done", Return(p), up' = up,
         quarantined' = quarantined \/ quarantined' = [quarantined EXCEPT ![p] = FALSE],
         NEW s, db' = [db EXCEPT ![p] = s],
         exec[p].outcome = "ok" /\ exec[p].side = "SELL" => s.exit = TRUE,
         exec[p].outcome \in {"unknown", "measure"} =>
           s.status = "MANUAL_REVIEW" /\ s.ref = [trade |-> exec[p].trade, step |-> exec[p].step]
  PROVE  CleanInv'
<1>1. /\ db \in [Pairs -> SessionRecord] /\ quarantined \in [Pairs -> BOOLEAN] /\ exec \in [Pairs -> ExecRecord]
  BY DEF CleanInv, LifeInv, TypeOK, ExecTypeOK
<1>2. /\ db'[p] = s /\ exec'[p] = Idle
      /\ \A q \in Pairs : q # p => db'[q] = db[q] /\ exec'[q] = exec[q]
  BY <1>1 DEF Return
<1>3. Followed(trades[p], chain[p], s)
  <2>1. ASSUME NEW i \in DOMAIN trades[p], Loose(trades[p][i], chain[p][i]),
               chain[p][i]["main"] = "pending" \/ ~s.exit
        PROVE  s.status = "MANUAL_REVIEW" /\ s.ref = [trade |-> i, step |-> "main"]
    <3>1. i = exec[p].trade /\ trades[p][i].side = exec[p].side
      BY <2>1, AtAnswer
    <3>2. CASE exec[p].outcome = "ok" /\ chain[p][i]["main"] # "pending"
      <4>1. exec[p].side # "SELL"
        BY <2>1, <3>2
      <4> QED
        BY <2>1, <3>1, <3>2, <4>1 DEF Loose
    <3>3. CASE exec[p].outcome \in {"unknown", "measure"} /\ exec[p].step = "main"
      BY <3>1, <3>3
    <3> QED
      BY <2>1, <3>2, <3>3, AtAnswer
  <2> QED
    BY <2>1 DEF Followed, Loose, Open
<1>4. Settled(trades[p], chain[p], Idle, s)
  BY <1>3, AtClean, IdleTyped DEF Settled
<1>5. \A q \in Pairs : ~quarantined'[q]
  BY <1>1 DEF CleanInv
<1> QED
  BY <1>2, <1>4, <1>5, CleanStep

\* The session to be written when the outcome is unknown.
LEMMA OutcomeReferred ==
  ASSUME NEW p, NEW s \in SessionRecord, NEW status, exec[p].outcome \in {"unknown", "measure"}
  PROVE  LET r == With(WithOutcome(p, s), status) IN
         r.status = status /\ r.ref = [trade |-> exec[p].trade, step |-> exec[p].step]
BY DEF With, WithOutcome, SessionRecord

LEMMA EndBuyClean ==
  ASSUME CleanInv, NoFaults, LifeInv', NEW p \in Pairs, EndBuy(p)
  PROVE  CleanInv'
<1>1. /\ exec[p].pc = "done" /\ Return(p) /\ up' = up /\ op[p].kind = "buy" /\ op[p].pc = "exec"
      /\ BuyAnswered(p) /\ EngineAdvance(p)
  BY DEF EndBuy, EngineAdvance
<1>2. exec[p].side = "BUY" /\ ~leased[p] /\ op[p].ses \in SessionRecord
  BY <1>1, AtClean, AtPair DEF Operating
<1>3. \A s : StoreLast(p, s) => Store(p, s)
  BY <1>2 DEF StoreLast, StoreFails, NoFaults
<1>4. PICK s :
        /\ Store(p, s)
        /\ exec[p].outcome \in {"unknown", "measure"} => s = With(WithOutcome(p, op[p].ses), "MANUAL_REVIEW")
  BY <1>1, <1>3 DEF BuyAnswered, NeedsReview, NoFaults
<1>5. quarantined' = quarantined /\ db' = [db EXCEPT ![p] = s]
  BY <1>4 DEF Store
<1>6. exec[p].outcome \in {"unknown", "measure"} =>
        s.status = "MANUAL_REVIEW" /\ s.ref = [trade |-> exec[p].trade, step |-> exec[p].step]
  BY <1>2, <1>4, OutcomeReferred
<1> QED
  BY <1>1, <1>2, <1>5, <1>6, AnswerClean

LEMMA EndSellClean ==
  ASSUME CleanInv, NoFaults, LifeInv', NEW p \in Pairs, EndSell(p)
  PROVE  CleanInv'
<1>1. /\ exec[p].pc = "done" /\ Return(p) /\ up' = up /\ op[p].kind = "sell"
      /\ SellAnswered(p) /\ EngineAdvance(p)
  BY DEF EndSell, EngineAdvance
<1>2. ~leased[p] /\ op[p].ses \in SessionRecord
  BY <1>1, AtClean, AtPair DEF Operating
<1>3. \A s : StoreLast(p, s) => Store(p, s)
  BY <1>2 DEF StoreLast, StoreFails, NoFaults
<1>4. PICK s :
        /\ Store(p, s)
        /\ exec[p].outcome = "ok" => s = Exited(op[p].ses)
        /\ exec[p].outcome # "ok" => s = With(WithOutcome(p, op[p].ses), "MANUAL_REVIEW")
  BY <1>1, <1>3 DEF SellAnswered, NoFaults
<1>5. quarantined' = quarantined /\ db' = [db EXCEPT ![p] = s]
  BY <1>4 DEF Store
<1>6. exec[p].outcome \in {"unknown", "measure"} =>
        s.status = "MANUAL_REVIEW" /\ s.ref = [trade |-> exec[p].trade, step |-> exec[p].step]
  BY <1>2, <1>4, OutcomeReferred
<1>7. exec[p].outcome = "ok" => s.exit = TRUE
  BY <1>2, <1>4, ExitedTyped
<1> QED
  BY <1>1, <1>5, <1>6, <1>7, AnswerClean

LEMMA EndResumeClean ==
  ASSUME CleanInv, NoFaults, LifeInv', NEW p \in Pairs, EndResume(p)
  PROVE  CleanInv'
<1>1. /\ exec[p].pc = "done" /\ Return(p) /\ up' = up
      /\ ApplyRow(p, Resumed(p), FALSE) /\ RecoveryAdvance(p) /\ op[p].ses \in SessionRecord
  BY AtClean, AtPair DEF EndResume, RecoveryAdvance, NoFaults
<1>2. PICK s : s = Resumed(p)
  OBVIOUS
<1>3. quarantined' = [quarantined EXCEPT ![p] = FALSE] /\ db' = [db EXCEPT ![p] = s]
  BY <1>1, <1>2 DEF ApplyRow
<1>4. exec[p].outcome \in {"unknown", "measure"} => s = With(WithOutcome(p, op[p].ses), "MANUAL_REVIEW")
  BY <1>2 DEF Resumed, NeedsReview
<1>5. exec[p].outcome \in {"unknown", "measure"} =>
        s.status = "MANUAL_REVIEW" /\ s.ref = [trade |-> exec[p].trade, step |-> exec[p].step]
  BY <1>1, <1>4, OutcomeReferred
<1>6. exec[p].outcome = "ok" /\ exec[p].side = "SELL" => s.exit = TRUE
  BY <1>1, <1>2, ExitedTyped DEF Resumed
<1> QED
  BY <1>1, <1>3, <1>5, <1>6, AnswerClean

------------------------------------------------------------------------------
(* Without faults: the executor and the chain.                              *)

\* The trade an execution works on, and what the step leaves alone.
LEMMA WorksOn ==
  ASSUME LifeInv, NEW p \in Pairs, Works(p)
  PROVE  LET t == exec[p].trade IN
         /\ t \in DOMAIN trades[p] /\ exec'[p].trade = t /\ exec'[p].pc # "none" /\ exec'[p].side = exec[p].side
         /\ exec[p].side = trades[p][t].side
         /\ DOMAIN trades'[p] = DOMAIN trades[p]
         /\ \A i \in DOMAIN trades[p] : trades'[p][i].side = trades[p][i].side
         /\ \A i \in DOMAIN trades[p] : i # t => trades'[p][i] = trades[p][i] /\ chain'[p][i] = chain[p][i]
         /\ \A q \in Pairs : q # p => trades'[q] = trades[q] /\ chain'[q] = chain[q] /\ exec'[q] = exec[q]
<1>1. PICK t : t = exec[p].trade
  OBVIOUS
<1>2. /\ t # 0 /\ t \in DOMAIN trades[p] /\ Answered(exec[p], trades[p][t], chain[p][t])
  BY <1>1, AtWork, AtPair DEF Works, LifeInv, Working
<1>3. Touched(p, t) /\ Moved(exec[p], trades[p][t], chain[p][t], exec'[p], trades'[p][t], chain'[p][t])
  BY <1>1 DEF Works
<1>4. /\ exec'[p].trade = t /\ exec'[p].pc # "none" /\ exec'[p].side = exec[p].side
      /\ trades'[p][t].side = trades[p][t].side /\ exec[p].side = trades[p][t].side
  BY <1>1, <1>2, <1>3 DEF Moved, Answered
<1>5. /\ DOMAIN trades'[p] = DOMAIN trades[p]
      /\ \A i \in DOMAIN trades[p] : i # t => trades'[p][i] = trades[p][i] /\ chain'[p][i] = chain[p][i]
      /\ \A q \in Pairs : q # p => trades'[q] = trades[q] /\ chain'[q] = chain[q] /\ exec'[q] = exec[q]
  BY <1>3 DEF Touched
<1> QED
  BY <1>1, <1>2, <1>4, <1>5

LEMMA WorldClean ==
  ASSUME CleanInv, LifeInv', NEW p \in Pairs, UNCHANGED sessionVars,
         \A q \in Pairs : q # p => trades'[q] = trades[q] /\ chain'[q] = chain[q] /\ exec'[q] = exec[q],
         Settled(trades'[p], chain'[p], exec'[p], db[p])
  PROVE  CleanInv'
<1>1. db' = db /\ quarantined' = quarantined /\ up' = up
  BY DEF sessionVars
<1>2. ASSUME NEW q \in Pairs PROVE Settled(trades'[q], chain'[q], exec'[q], db'[q])
  BY <1>1 DEF CleanInv
<1> QED
  BY <1>1, <1>2 DEF CleanInv

\* While it executes, only the trade it works on may be loose.
LEMMA ExecutingSettled ==
  ASSUME NEW ts, NEW cs, NEW e, NEW d, e.pc # "none",
         \A i \in DOMAIN ts : Loose(ts[i], cs[i]) => i = e.trade
  PROVE  Settled(ts, cs, e, d)
BY DEF Settled, Side

LEMMA ExecutorStepClean ==
  ASSUME CleanInv, LifeInv', NEW p \in Pairs, ExecutorStep(p), UNCHANGED sessionVars
  PROVE  CleanInv'
<1>1. exec[p].pc \notin {"none", "done"}
  BY AtClean, UnderWay DEF LifeInv
<1>2. \A i \in DOMAIN trades[p] : Loose(trades[p][i], chain[p][i]) => i = exec[p].trade
  BY <1>1, AtClean DEF Settled
<1>3. Works(p) \/ Creates(p) \/ GivesUp(p)
  BY AtClean, AtPair, ExecutorStepDoes DEF LifeInv
<1>4. CASE Works(p)
  <2>1. PICK t : t = exec[p].trade
    OBVIOUS
  <2>2. /\ t \in DOMAIN trades[p] /\ exec'[p].trade = t /\ exec'[p].pc # "none"
        /\ DOMAIN trades'[p] = DOMAIN trades[p]
        /\ \A i \in DOMAIN trades[p] : i # t => trades'[p][i] = trades[p][i] /\ chain'[p][i] = chain[p][i]
        /\ \A q \in Pairs : q # p => trades'[q] = trades[q] /\ chain'[q] = chain[q] /\ exec'[q] = exec[q]
    BY <1>4, <2>1, AtClean, WorksOn
  <2>3. \A i \in DOMAIN trades'[p] : Loose(trades'[p][i], chain'[p][i]) => i = exec'[p].trade
    BY <1>2, <2>1, <2>2
  <2>4. Settled(trades'[p], chain'[p], exec'[p], db[p])
    BY <2>2, <2>3, ExecutingSettled
  <2> QED
    BY <2>2, <2>4, WorldClean
<1>5. CASE Creates(p)
  <2>1. PICK n \in Nat : n = Len(trades[p])
    BY <1>5, AtClean, CreatesLonger
  <2>2. /\ exec[p].trade = 0 /\ exec'[p].pc = "quote" /\ exec'[p].trade = n + 1
        /\ Longer(trades[p], chain[p], trades'[p], chain'[p], n)
    BY <1>5, <2>1, AtClean, CreatesLonger
  <2>3. \A i \in DOMAIN trades'[p] : Loose(trades'[p][i], chain'[p][i]) => i = exec'[p].trade
    <3>1. \A i \in 1..n : ~Loose(trades[p][i], chain[p][i])
      BY <1>2, <2>2 DEF Longer
    <3> QED
      BY <2>2, <3>1 DEF Longer
  <2>4. Settled(trades'[p], chain'[p], exec'[p], db[p])
    BY <2>2, <2>3, ExecutingSettled
  <2>5. \A q \in Pairs : q # p => trades'[q] = trades[q] /\ chain'[q] = chain[q] /\ exec'[q] = exec[q]
    BY <1>5 DEF Creates
  <2> QED
    BY <2>4, <2>5, WorldClean
<1>6. CASE GivesUp(p)
  <2>1. exec \in [Pairs -> ExecRecord]
    BY AtClean DEF LifeInv, TypeOK, ExecTypeOK
  <2>2. /\ trades' = trades /\ chain' = chain
        /\ exec'[p].pc = "done" /\ exec'[p].trade = exec[p].trade
        /\ \A q \in Pairs : q # p => exec'[q] = exec[q]
    BY <1>6, <2>1 DEF GivesUp, ExecRecord
  <2>3. Settled(trades'[p], chain'[p], exec'[p], db[p])
    BY <1>2, <2>2, ExecutingSettled
  <2> QED
    BY <2>2, <2>3, WorldClean
<1> QED
  BY <1>3, <1>4, <1>5, <1>6

\* What Mine decides.
LEMMA Mined ==
  ASSUME LifeInv, NEW p \in Pairs, Mine(p)
  PROVE  \E i \in DOMAIN trades[p] :
           /\ trades' = trades /\ exec' = exec
           /\ \A q \in Pairs : q # p => chain'[q] = chain[q]
           /\ \A j \in DOMAIN trades[p] : j # i => chain'[p][j] = chain[p][j]
           /\ \/ chain'[p][i]["main"] = chain[p][i]["main"]
              \/ chain[p][i]["main"] = "pending" /\ chain'[p][i]["main"] \in {"success", "reverted"}
<1>1. PICK i \in DOMAIN chain[p], step \in Steps, result \in {"success", "reverted"} :
        chain[p][i][step] = "pending" /\ chain' = [chain EXCEPT ![p][i][step] = result]
  BY DEF Mine
<1>2. /\ chain \in [Pairs -> Seq([Steps -> ChainStatus])]
      /\ chain[p] \in Seq([Steps -> ChainStatus]) /\ trades[p] \in Seq(TradeRecord)
      /\ Len(chain[p]) = Len(trades[p])
  BY DEF LifeInv, TypeOK, ExecTypeOK
<1>3. DOMAIN chain[p] = DOMAIN trades[p]
  BY <1>2, LenProperties
<1>4. chain[p][i] \in [Steps -> ChainStatus]
  BY <1>3, SidesOf
<1>5. \A q \in Pairs : q # p => chain'[q] = chain[q]
  BY <1>1, <1>2
<1>6. chain'[p] = [chain[p] EXCEPT ![i] = [chain[p][i] EXCEPT ![step] = result]]
  BY <1>1, <1>2
<1>7. \A j \in DOMAIN trades[p] : j # i => chain'[p][j] = chain[p][j]
  BY <1>3, <1>6
<1>8. chain'[p][i] = [chain[p][i] EXCEPT ![step] = result]
  BY <1>3, <1>6
<1>9. chain'[p][i]["main"] = chain[p][i]["main"] \/ (chain[p][i]["main"] = "pending" /\ chain'[p][i]["main"] = result)
  BY <1>1, <1>4, <1>8 DEF Steps
<1> QED
  BY <1>3, <1>5, <1>7, <1>9 DEF Mine

LEMMA MineClean ==
  ASSUME CleanInv, LifeInv', NEW p \in Pairs, Mine(p), UNCHANGED sessionVars
  PROVE  CleanInv'
<1>1. PICK i \in DOMAIN trades[p] :
        /\ trades' = trades /\ exec' = exec
        /\ \A q \in Pairs : q # p => chain'[q] = chain[q]
        /\ \A j \in DOMAIN trades[p] : j # i => chain'[p][j] = chain[p][j]
        /\ \/ chain'[p][i]["main"] = chain[p][i]["main"]
           \/ chain[p][i]["main"] = "pending" /\ chain'[p][i]["main"] \in {"success", "reverted"}
  BY AtClean, Mined
<1>2. \A j \in DOMAIN trades[p] :
        /\ Loose(trades[p][j], chain'[p][j]) => Loose(trades[p][j], chain[p][j])
        /\ chain'[p][j]["main"] = "pending" => chain[p][j]["main"] = "pending"
  BY <1>1 DEF Loose, Done
<1>3. Settled(trades[p], chain'[p], exec[p], db[p])
  BY <1>2, AtClean DEF Settled, Followed, Side
<1> QED
  BY <1>1, <1>3, WorldClean

LEMMA CleanInit == ASSUME Init PROVE CleanInv
<1>1. LifeInv /\ up
  BY LifeInit DEF Init
<1>2. ASSUME NEW p \in Pairs PROVE ~quarantined[p] /\ Settled(trades[p], chain[p], exec[p], db[p])
  <2>1. trades[p] = <<>> /\ exec[p] = Idle /\ quarantined[p] = FALSE
    BY DEF Init, ExecInit
  <2>2. DOMAIN <<>> = {} /\ \A side : Side(<<>>, side) = {}
    BY DEF Side
  <2> QED
    BY <2>1, <2>2 DEF Settled, Followed
<1> QED
  BY <1>1, <1>2 DEF CleanInv

\* Without faults nothing but the engine, recovery, the executor and the chain
\* takes a step.
LEMMA CleanSteps ==
  ASSUME NoFaults, CleanInv, [Next]_allVars
  PROVE  \/ UNCHANGED allVars
         \/ \E p \in Pairs : EngineBegin(p) \/ EngineAdvance(p) \/ Claim(p) \/ RecoveryAdvance(p)
         \/ \E p \in Pairs : (ExecutorStep(p) \/ Mine(p)) /\ UNCHANGED sessionVars
<1>1. ~Crash /\ ~FreshStart
  BY DEF NoFaults, Crash, FreshStart, CleanInv
<1>2. ASSUME NEW p \in Pairs PROVE ~MonitorLoads(p) /\ ~MonitorSaves(p)
  BY AtClean, AtPair DEF NoFaults, MonitorLoads, MonitorSaves, Copied
<1> QED
  BY <1>1, <1>2 DEF Next

LEMMA CleanNext == ASSUME NoFaults, CleanInv, [Next]_allVars PROVE CleanInv'
<1>1. LifeInv'
  BY LifeNext DEF CleanInv
<1>2. CASE UNCHANGED allVars
  BY <1>1, <1>2 DEF CleanInv, allVars, execVars, sessionVars
<1>3. ASSUME NEW p \in Pairs, EngineBegin(p) \/ Claim(p) PROVE CleanInv'
  BY <1>1, <1>3, BeginsClean, CallsClean DEF EngineBegin
<1>4. ASSUME NEW p \in Pairs, EngineAdvance(p) PROVE CleanInv'
  BY <1>1, <1>4, PurchaseClean, CallsClean, EndBuyClean, EndSellClean DEF EngineAdvance, NoFaults
<1>5. ASSUME NEW p \in Pairs, RecoveryAdvance(p) PROVE CleanInv'
  BY <1>1, <1>5, KeptClean, ReviewClean, RevertedClean, MinedClean, ApprovedClean, SimulatedClean, CallsClean,
     EndResumeClean DEF RecoveryAdvance
<1>6. ASSUME NEW p \in Pairs, ExecutorStep(p) \/ Mine(p), UNCHANGED sessionVars PROVE CleanInv'
  BY <1>1, <1>6, ExecutorStepClean, MineClean
<1> QED
  BY <1>2, <1>3, <1>4, <1>5, <1>6, CleanSteps

LEMMA CleanSays == ASSUME CleanInv PROVE TradesFollowed
<1>1. ASSUME NEW p \in Pairs, NEW i \in Sales(p), NEW j \in Sales(p), Moving(p, i), Moving(p, j)
      PROVE  i = j
  <2>1. i \in Side(trades[p], "SELL") /\ j \in Side(trades[p], "SELL")
    BY AtClean, SidesOf
  <2>2. Loose(trades[p][i], chain[p][i]) /\ Loose(trades[p][j], chain[p][j])
    BY <1>1, <2>1 DEF Moving, Simulation, Loose, Done, Side
  <2> QED
    BY <2>1, <2>2, AtClean DEF Settled
<1>2. ASSUME NEW p \in Pairs, NEW i \in DOMAIN chain[p], chain[p][i]["main"] = "pending", op[p].kind = "none"
      PROVE  Claimable(p)
  <2>1. i \in DOMAIN trades[p]
    BY AtClean, LenProperties DEF LifeInv, TypeOK, ExecTypeOK
  <2>2. exec[p].pc = "none"
    BY <1>2, AtClean, AtPair DEF Operating
  <2>3. db[p].status = "MANUAL_REVIEW" /\ db[p].ref = [trade |-> i, step |-> "main"]
    BY <1>2, <2>1, <2>2, AtClean DEF Settled, Followed
  <2>4. i # 0
    BY <2>1, AtClean, SidesOf
  <2>5. HasRef(db[p])
    BY <2>3, <2>4 DEF HasRef, NoRef
  <2> QED
    BY <2>3, <2>5, AtClean DEF Claimable
<1> QED
  BY <1>1, <1>2 DEF TradesFollowed, NoDoubleSale, NothingForgotten

\* Without faults the reference or the operation of a session leads to every
\* trade that may still move tokens.
THEOREM CleanInvariant == NoFaults => (Spec => []CleanInv)
<1> SUFFICES ASSUME NoFaults PROVE Spec => []CleanInv
  OBVIOUS
<1>1. Init => CleanInv
  BY CleanInit
<1>2. CleanInv /\ [Next]_allVars => CleanInv'
  BY CleanNext
<1> QED
  BY <1>1, <1>2, PTL DEF Spec

\* As long as every write succeeds, the process stays up and the exit monitor
\* does not run, a position is sold by one transaction and no session with a
\* transaction on its way is left alone.
THEOREM TradesAreFollowed == NoFaults => (Spec => []TradesFollowed)
<1>1. CleanInv => TradesFollowed
  BY CleanSays
<1> QED
  BY <1>1, CleanInvariant, PTL

------------------------------------------------------------------------------
(* Without faults: the contract of a position.                              *)

\* The trades of a side that have moved tokens.
Tally(ts, cs, side) == {i \in Side(ts, side) : Done(ts[i], cs[i])}

LEMMA TallyOf ==
  ASSUME LifeInv, NEW p \in Pairs
  PROVE  /\ Succeeded(p, Purchases(p)) = Tally(trades[p], chain[p], "BUY")
         /\ Succeeded(p, Sales(p)) = Tally(trades[p], chain[p], "SELL")
BY SidesOf DEF Succeeded, Tally, Done, Simulation

\* The same after a step.
LEMMA TallyNext ==
  LifeInv' => \A p \in Pairs : /\ Succeeded(p, Purchases(p))' = Tally(trades[p], chain[p], "BUY")'
                               /\ Succeeded(p, Sales(p))' = Tally(trades[p], chain[p], "SELL")'
<1> DEFINE Same == \A p \in Pairs : /\ Succeeded(p, Purchases(p)) = Tally(trades[p], chain[p], "BUY")
                                    /\ Succeeded(p, Sales(p)) = Tally(trades[p], chain[p], "SELL")
<1>1. LifeInv => Same
  BY TallyOf
<1> HIDE DEF Same
<1>2. LifeInv' => Same'
  BY <1>1, PTL
<1> QED
  BY <1>2 DEF Same

\* A token is bought once and sold once.
Single(S) == \A i, j \in S : i = j

LEMMA TallySingle ==
  ASSUME CleanInv, NEW p \in Pairs, NEW side \in Sides
  PROVE  Single(Tally(trades[p], chain[p], side))
<1>1. CASE side = "SELL"
  BY <1>1, AtClean DEF Settled, Single, Tally, Loose, Side
<1>2. CASE side = "BUY"
  <2>1. NoDoubleBuy
    BY AtClean, LifeSays
  <2> QED
    BY <1>2, <2>1, AtClean, SidesOf DEF NoDoubleBuy, Moving, Simulation, Tally, Done, Single
<1> QED
  BY <1>1, <1>2 DEF Sides

LEMMA SingleNext ==
  CleanInv' => \A p \in Pairs, side \in Sides : Single(Tally(trades[p], chain[p], side))'
<1> DEFINE All == \A p \in Pairs, side \in Sides : Single(Tally(trades[p], chain[p], side))
<1>1. CleanInv => All
  BY TallySingle
<1> HIDE DEF All
<1>2. CleanInv' => All'
  BY <1>1, PTL
<1> QED
  BY <1>2 DEF All

LEMMA OneOf ==
  ASSUME NEW S, Single(S)
  PROVE  /\ S = {} => Cardinality(S) = 0
         /\ S # {} => Cardinality(S) = 1
<1>1. CASE S = {}
  BY <1>1, FS_EmptySet
<1>2. CASE S # {}
  <2>1. PICK x : x \in S
    BY <1>2
  <2>2. S = {x}
    BY <2>1 DEF Single
  <2> QED
    BY <2>2, FS_Singleton
<1> QED
  BY <1>1, <1>2

\* What a trade has done stays done.
LEMMA WorksDone ==
  ASSUME LifeInv, NEW p \in Pairs, Works(p), exec[p].pc \notin {"none", "done"},
         Done(trades[p][exec[p].trade], chain[p][exec[p].trade])
  PROVE  Done(trades'[p][exec[p].trade], chain'[p][exec[p].trade])
<1>1. PICK t : t = exec[p].trade
  OBVIOUS
<1>2. t # 0 /\ Moved(exec[p], trades[p][t], chain[p][t], exec'[p], trades'[p][t], chain'[p][t])
  BY <1>1 DEF Works
<1>3. Answered(exec[p], trades[p][t], chain[p][t])
  BY <1>1, <1>2, AtPair DEF Working
<1>4. chain[p][t]["main"] = "success"
  BY <1>1, <1>3 DEF Answered, Done
<1> QED
  BY <1>1, <1>2, <1>4 DEF Moved, Done, Steps

\* A step of p that touches only trade t of p, and undoes nothing, leaves the
\* tallies but for that of the side of t, which it may open.
Adds(ts, cs, ts2, cs2, t, side) ==
  /\ DOMAIN ts2 = DOMAIN ts /\ t \in DOMAIN ts /\ side = ts[t].side
  /\ \A i \in DOMAIN ts : ts2[i].side = ts[i].side
  /\ \A i \in DOMAIN ts : i # t => (Done(ts2[i], cs2[i]) <=> Done(ts[i], cs[i]))
  /\ Done(ts[t], cs[t]) => Done(ts2[t], cs2[t])
  /\ Single(Tally(ts2, cs2, side))

LEMMA TallyGrows ==
  ASSUME NEW t, NEW side, NEW ts, NEW cs, NEW ts2, NEW cs2, Adds(ts, cs, ts2, cs2, t, side)
  PROVE  /\ \A other : other # side => Tally(ts2, cs2, other) = Tally(ts, cs, other)
         /\ \/ Tally(ts2, cs2, side) = Tally(ts, cs, side)
            \/ Tally(ts, cs, side) = {} /\ Tally(ts2, cs2, side) # {}
<1>1. \A other : Side(ts2, other) = Side(ts, other)
  BY DEF Adds, Side
<1>2. \A other : other # side => Tally(ts2, cs2, other) = Tally(ts, cs, other)
  BY <1>1 DEF Adds, Tally, Side
<1>3. Tally(ts, cs, side) \subseteq Tally(ts2, cs2, side)
  BY <1>1 DEF Adds, Tally, Side
<1> QED
  BY <1>2, <1>3 DEF Adds, Single

\* A trade that is created has moved nothing.
LEMMA LongerTally ==
  ASSUME NEW ts, NEW cs, NEW ts2, NEW cs2, NEW n \in Nat, Longer(ts, cs, ts2, cs2, n), NEW side
  PROVE  Tally(ts2, cs2, side) = Tally(ts, cs, side)
<1>1. ~Done(ts2[n + 1], cs2[n + 1])
  BY DEF Longer, Done
<1>2. \A i \in DOMAIN ts : i # n + 1 /\ i \in DOMAIN ts2 /\ ts2[i] = ts[i] /\ cs2[i] = cs[i]
  BY DEF Longer
<1>3. \A i \in DOMAIN ts2 : i \in DOMAIN ts \/ i = n + 1
  BY DEF Longer
<1> QED
  BY <1>1, <1>2, <1>3 DEF Tally, Side

\* A step of the executor or of the chain: at most one tally is opened, and
\* that of the sales only with the entry in the book.
Counts(p) ==
  /\ db' = db
  /\ \A q \in Pairs : q # p => trades'[q] = trades[q] /\ chain'[q] = chain[q]
  /\ \E side \in Sides :
       /\ \A other \in Sides : other # side => Tally(trades'[p], chain'[p], other) = Tally(trades[p], chain[p], other)
       /\ \/ Tally(trades'[p], chain'[p], side) = Tally(trades[p], chain[p], side)
          \/ /\ Tally(trades[p], chain[p], side) = {} /\ Tally(trades'[p], chain'[p], side) # {}
             /\ side = "SELL" => db[p].entry

\* The trade t of p is the only one of which the step may change anything.
LEMMA CountsTrade ==
  ASSUME CleanInv, CleanInv', NEW p \in Pairs, UNCHANGED sessionVars,
         \A q \in Pairs : q # p => trades'[q] = trades[q] /\ chain'[q] = chain[q],
         NEW t \in DOMAIN trades[p], DOMAIN trades'[p] = DOMAIN trades[p],
         \A i \in DOMAIN trades[p] : trades'[p][i].side = trades[p][i].side,
         \A i \in DOMAIN trades[p] : i # t => (Done(trades'[p][i], chain'[p][i]) <=> Done(trades[p][i], chain[p][i])),
         Done(trades[p][t], chain[p][t]) => Done(trades'[p][t], chain'[p][t])
  PROVE  Counts(p)
<1>1. PICK side \in Sides : side = trades[p][t].side
  BY AtClean, SidesOf DEF TradeRecord
<1>2. LifeInv /\ LifeInv'
  BY DEF CleanInv
<1>3. Single(Tally(trades'[p], chain'[p], side))
  BY SingleNext
<1>4. PICK ts, cs, ts2, cs2 : ts = trades[p] /\ cs = chain[p] /\ ts2 = trades'[p] /\ cs2 = chain'[p]
  OBVIOUS
<1>6. /\ \A other : other # side => Tally(ts2, cs2, other) = Tally(ts, cs, other)
      /\ \/ Tally(ts2, cs2, side) = Tally(ts, cs, side)
         \/ Tally(ts, cs, side) = {} /\ Tally(ts2, cs2, side) # {}
  <2>1. /\ DOMAIN ts2 = DOMAIN ts /\ t \in DOMAIN ts /\ side = ts[t].side
        /\ \A i \in DOMAIN ts : ts2[i].side = ts[i].side
        /\ \A i \in DOMAIN ts : i # t => (Done(ts2[i], cs2[i]) <=> Done(ts[i], cs[i]))
        /\ Done(ts[t], cs[t]) => Done(ts2[t], cs2[t])
    BY <1>1, <1>4
  <2>2. Single(Tally(ts2, cs2, side))
    BY <1>3, <1>4
  <2>3. Adds(ts, cs, ts2, cs2, t, side)
    BY <2>1, <2>2 DEF Adds
  <2> QED
    BY <2>3, TallyGrows
<1>5. side = "SELL" => db[p].entry
  BY <1>1, AtClean, AtPair DEF Stored, Side
<1> QED
  BY <1>4, <1>5, <1>6 DEF Counts, sessionVars

LEMMA ExecutorCounts ==
  ASSUME CleanInv, CleanInv', NEW p \in Pairs, ExecutorStep(p), UNCHANGED sessionVars
  PROVE  Counts(p)
<1>1. exec[p].pc \notin {"none", "done"}
  BY AtClean, UnderWay DEF LifeInv
<1>2. Works(p) \/ Creates(p) \/ GivesUp(p)
  BY AtClean, AtPair, ExecutorStepDoes DEF LifeInv
<1>3. CASE Works(p)
  <2>1. PICK t : t = exec[p].trade
    OBVIOUS
  <2>2. /\ t \in DOMAIN trades[p] /\ DOMAIN trades'[p] = DOMAIN trades[p]
        /\ \A i \in DOMAIN trades[p] : trades'[p][i].side = trades[p][i].side
        /\ \A i \in DOMAIN trades[p] : i # t => trades'[p][i] = trades[p][i] /\ chain'[p][i] = chain[p][i]
        /\ \A q \in Pairs : q # p => trades'[q] = trades[q] /\ chain'[q] = chain[q]
    BY <1>3, <2>1, AtClean, WorksOn
  <2>3. Done(trades[p][t], chain[p][t]) => Done(trades'[p][t], chain'[p][t])
    BY <1>1, <1>3, <2>1, AtClean, WorksDone
  <2> QED
    BY <2>2, <2>3, CountsTrade
<1>4. CASE Creates(p)
  <2>1. PICK n \in Nat : n = Len(trades[p])
    BY <1>4, AtClean, CreatesLonger
  <2>2. Longer(trades[p], chain[p], trades'[p], chain'[p], n)
    BY <1>4, <2>1, AtClean, CreatesLonger
  <2>4. \A side \in Sides : Tally(trades'[p], chain'[p], side) = Tally(trades[p], chain[p], side)
    BY <2>2, LongerTally
  <2>5. \A q \in Pairs : q # p => trades'[q] = trades[q] /\ chain'[q] = chain[q]
    BY <1>4 DEF Creates
  <2> QED
    BY <2>4, <2>5 DEF Counts, sessionVars, Sides
<1>5. CASE GivesUp(p)
  <2>1. trades' = trades /\ chain' = chain
    BY <1>5 DEF GivesUp
  <2> QED
    BY <2>1 DEF Counts, sessionVars, Sides
<1> QED
  BY <1>2, <1>3, <1>4, <1>5

LEMMA MineCounts ==
  ASSUME CleanInv, CleanInv', NEW p \in Pairs, Mine(p), UNCHANGED sessionVars
  PROVE  Counts(p)
<1>1. PICK i \in DOMAIN trades[p] :
        /\ trades' = trades /\ exec' = exec
        /\ \A q \in Pairs : q # p => chain'[q] = chain[q]
        /\ \A j \in DOMAIN trades[p] : j # i => chain'[p][j] = chain[p][j]
        /\ \/ chain'[p][i]["main"] = chain[p][i]["main"]
           \/ chain[p][i]["main"] = "pending" /\ chain'[p][i]["main"] \in {"success", "reverted"}
  BY AtClean, Mined
<1>2. Done(trades[p][i], chain[p][i]) => Done(trades[p][i], chain'[p][i])
  BY <1>1 DEF Done
<1> QED
  BY <1>1, <1>2, CountsTrade

LEMMA AlikeTally ==
  ASSUME NEW ts, NEW cs, NEW ts2, NEW cs2, Alike(ts, cs, ts2, cs2), NEW side
  PROVE  Side(ts2, side) = Side(ts, side) /\ Tally(ts2, cs2, side) = Tally(ts, cs, side)
BY DEF Alike, Tally, Side

\* A step of a session: nothing moves, and at most the entry or the exit of p
\* is recorded, once the chain has done it.
Books(p) ==
  /\ \A q \in Pairs : \A side \in Sides : Tally(trades'[q], chain'[q], side) = Tally(trades[q], chain[q], side)
  /\ \A q \in Pairs : q # p => db'[q] = db[q]
  /\ \/ db'[p].entry = db[p].entry /\ db'[p].exit = db[p].exit
     \/ /\ db[p].entry = FALSE /\ db'[p].entry = TRUE /\ db'[p].exit = db[p].exit
        /\ Tally(trades[p], chain[p], "BUY") # {}
     \/ /\ db[p].exit = FALSE /\ db'[p].exit = TRUE /\ db'[p].entry = db[p].entry
        /\ Tally(trades[p], chain[p], "SELL") # {}

\* What a row says has been done, if it is credible.
LEMMA CredibleTally ==
  ASSUME NEW ts, NEW cs, NEW s, Credible(ts, cs, s)
  PROVE  /\ s.entry => Tally(ts, cs, "BUY") # {}
         /\ s.exit => s.entry /\ Tally(ts, cs, "SELL") # {}
BY DEF Credible, Tally

LEMMA SessionBooks ==
  ASSUME CleanInv, CleanInv', NEW p \in Pairs, EngineBegin(p) \/ EngineAdvance(p) \/ Claim(p) \/ RecoveryAdvance(p)
  PROVE  Books(p)
<1>1. \A q \in Pairs : Alike(trades[q], chain[q], trades'[q], chain'[q])
  BY AtClean, SessionTrades
<1>2. ASSUME NEW q \in Pairs, NEW side \in Sides
      PROVE  /\ Side(trades'[q], side) = Side(trades[q], side)
             /\ Tally(trades'[q], chain'[q], side) = Tally(trades[q], chain[q], side)
  BY <1>1, AlikeTally
<1>3. {"BUY", "SELL"} \subseteq Sides
  BY DEF Sides
<1>4. db' = db \/ \E s : db' = [db EXCEPT ![p] = s] /\ Keeps(p, s)
  BY AtClean, EngineWrites, RecoveryWrites DEF Claim, WritesKeeping
<1>5. db \in [Pairs -> SessionRecord] /\ db'[p] \in SessionRecord /\ db[p] \in SessionRecord
  BY DEF CleanInv, LifeInv, TypeOK
<1>6. /\ \A q \in Pairs : q # p => db'[q] = db[q]
      /\ (db[p].entry => db'[p].entry) /\ (db[p].exit => db'[p].exit)
  BY <1>4, <1>5 DEF Keeps
<1>7. db[p].entry \in BOOLEAN /\ db[p].exit \in BOOLEAN /\ db'[p].entry \in BOOLEAN /\ db'[p].exit \in BOOLEAN
  BY <1>5 DEF SessionRecord
<1>8. Credible(trades[p], chain[p], db[p])
  BY AtClean, AtPair DEF Stored
<1>9. Credible(trades'[p], chain'[p], db'[p])
  BY DEF CleanInv, LifeInv, Life, Stored
<1>10. /\ db'[p].entry => Tally(trades[p], chain[p], "BUY") # {}
       /\ db'[p].exit => db'[p].entry /\ Tally(trades[p], chain[p], "SELL") # {}
       /\ db[p].exit => db[p].entry
  BY <1>2, <1>3, <1>8, <1>9, CredibleTally
<1>11. Tally(trades[p], chain[p], "SELL") # {} => db[p].entry
  BY AtClean, AtPair DEF Stored, Tally
<1>12. \/ db'[p].entry = db[p].entry /\ db'[p].exit = db[p].exit
       \/ /\ db[p].entry = FALSE /\ db'[p].entry = TRUE /\ db'[p].exit = db[p].exit
          /\ Tally(trades[p], chain[p], "BUY") # {}
       \/ /\ db[p].exit = FALSE /\ db'[p].exit = TRUE /\ db'[p].entry = db[p].entry
          /\ Tally(trades[p], chain[p], "SELL") # {}
  BY <1>6, <1>7, <1>10, <1>11
<1> QED
  BY <1>2, <1>6, <1>12 DEF Books

\* The variables of the contract, before and after a step.
LEMMA ContractValues ==
  ASSUME LifeInv, LifeInv', NEW p \in Pairs
  PROVE  /\ Succeeded(p, Purchases(p)) = Tally(trades[p], chain[p], "BUY")
         /\ Succeeded(p, Sales(p)) = Tally(trades[p], chain[p], "SELL")
         /\ Succeeded(p, Purchases(p))' = Tally(trades'[p], chain'[p], "BUY")
         /\ Succeeded(p, Sales(p))' = Tally(trades'[p], chain'[p], "SELL")
BY TallyOf, TallyNext

LEMMA TallyCounted ==
  ASSUME CleanInv, CleanInv', NEW p \in Pairs, NEW side \in Sides
  PROVE  /\ LET S == Tally(trades[p], chain[p], side)
            IN (S = {} => Cardinality(S) = 0) /\ (S # {} => Cardinality(S) = 1)
         /\ LET S == Tally(trades'[p], chain'[p], side)
            IN (S = {} => Cardinality(S) = 0) /\ (S # {} => Cardinality(S) = 1)
<1>1. Single(Tally(trades[p], chain[p], side)) /\ Single(Tally(trades'[p], chain'[p], side))
  BY TallySingle, SingleNext
<1> QED
  BY <1>1, OneOf

LEMMA WorldKeepsContract ==
  ASSUME CleanInv, CleanInv', NEW p \in Pairs, Counts(p)
  PROVE  [Contract!ContractNext]_Contract!contractVars
<1> DEFINE B(q) == Cardinality(Succeeded(q, Purchases(q)))
           S(q) == Cardinality(Succeeded(q, Sales(q)))
<1>1. LifeInv /\ LifeInv'
  BY DEF CleanInv
<1>2. {"BUY", "SELL"} \subseteq Sides
  BY DEF Sides
<1>3. db' = db /\ \A q \in Pairs : q # p => B(q)' = B(q) /\ S(q)' = S(q)
  BY <1>1, ContractValues DEF Counts
<1>4. \/ B(p)' = B(p) /\ S(p)' = S(p)
      \/ B(p) = 0 /\ B(p)' = 1 /\ S(p)' = S(p)
      \/ S(p) = 0 /\ S(p)' = 1 /\ B(p)' = B(p) /\ db[p].entry
  <2>1. PICK side \in Sides :
          /\ \A other \in Sides : other # side => Tally(trades'[p], chain'[p], other) = Tally(trades[p], chain[p], other)
          /\ \/ Tally(trades'[p], chain'[p], side) = Tally(trades[p], chain[p], side)
             \/ /\ Tally(trades[p], chain[p], side) = {} /\ Tally(trades'[p], chain'[p], side) # {}
                /\ side = "SELL" => db[p].entry
    BY DEF Counts
  <2>2. /\ B(p) = Cardinality(Tally(trades[p], chain[p], "BUY"))
        /\ S(p) = Cardinality(Tally(trades[p], chain[p], "SELL"))
        /\ B(p)' = Cardinality(Tally(trades'[p], chain'[p], "BUY"))
        /\ S(p)' = Cardinality(Tally(trades'[p], chain'[p], "SELL"))
    BY <1>1, ContractValues
  <2>3. side = "BUY" \/ side = "SELL"
    BY DEF Sides
  <2> HIDE DEF B, S
  <2>4. CASE Tally(trades'[p], chain'[p], side) = Tally(trades[p], chain[p], side)
    BY <1>2, <2>1, <2>2, <2>3, <2>4
  <2>5. CASE Tally(trades'[p], chain'[p], side) # Tally(trades[p], chain[p], side)
    <3>1. /\ Cardinality(Tally(trades[p], chain[p], side)) = 0
          /\ Cardinality(Tally(trades'[p], chain'[p], side)) = 1
      BY <2>1, <2>5, TallyCounted
    <3> QED
      BY <1>2, <2>1, <2>2, <2>3, <2>5, <3>1
  <2> QED
    BY <2>4, <2>5
<1>5. /\ [q \in Pairs |-> db[q].entry]' = [q \in Pairs |-> db[q].entry]
      /\ [q \in Pairs |-> db[q].exit]' = [q \in Pairs |-> db[q].exit]
  BY <1>3
<1> DEFINE buys == [q \in Pairs |-> Cardinality(Succeeded(q, Purchases(q)))]
           sales == [q \in Pairs |-> Cardinality(Succeeded(q, Sales(q)))]
<1>6. CASE B(p)' = B(p) /\ S(p)' = S(p)
  <2>1. buys' = buys /\ sales' = sales
    BY <1>3, <1>6
  <2> QED
    BY <1>5, <2>1 DEF Contract!contractVars
<1>7. CASE B(p) = 0 /\ B(p)' = 1 /\ S(p)' = S(p)
  <2>1. buys' = [buys EXCEPT ![p] = 1] /\ sales' = sales /\ buys[p] = 0
    BY <1>3, <1>7
  <2> QED
    BY <1>5, <2>1 DEF Contract!ContractNext, Contract!Bought
<1>8. CASE S(p) = 0 /\ S(p)' = 1 /\ B(p)' = B(p) /\ db[p].entry
  <2>1. sales' = [sales EXCEPT ![p] = 1] /\ buys' = buys /\ sales[p] = 0
    BY <1>3, <1>8
  <2>2. [q \in Pairs |-> db[q].entry][p]
    BY <1>8
  <2> QED
    BY <1>5, <2>1, <2>2 DEF Contract!ContractNext, Contract!Sold
<1> QED
  BY <1>4, <1>6, <1>7, <1>8

LEMMA SessionKeepsContract ==
  ASSUME CleanInv, CleanInv', NEW p \in Pairs, Books(p)
  PROVE  [Contract!ContractNext]_Contract!contractVars
<1> DEFINE B(q) == Cardinality(Succeeded(q, Purchases(q)))
           S(q) == Cardinality(Succeeded(q, Sales(q)))
           buys == [q \in Pairs |-> Cardinality(Succeeded(q, Purchases(q)))]
           sales == [q \in Pairs |-> Cardinality(Succeeded(q, Sales(q)))]
           entry == [q \in Pairs |-> db[q].entry]
           exit == [q \in Pairs |-> db[q].exit]
<1>1. LifeInv /\ LifeInv'
  BY DEF CleanInv
<1>2. {"BUY", "SELL"} \subseteq Sides
  BY DEF Sides
<1>3. \A q \in Pairs : B(q)' = B(q) /\ S(q)' = S(q)
  BY <1>1, <1>2, ContractValues DEF Books
<1>4. buys' = buys /\ sales' = sales
  BY <1>3
<1>5. \A q \in Pairs : q # p => db'[q] = db[q]
  BY DEF Books
<1>6. /\ Tally(trades[p], chain[p], "BUY") # {} => B(p) = 1
      /\ Tally(trades[p], chain[p], "SELL") # {} => S(p) = 1
  BY <1>1, <1>2, ContractValues, TallyCounted
<1>7. CASE db'[p].entry = db[p].entry /\ db'[p].exit = db[p].exit
  <2>1. entry' = entry /\ exit' = exit
    BY <1>5, <1>7
  <2> QED
    BY <1>4, <2>1 DEF Contract!contractVars
<1>8. CASE /\ db[p].entry = FALSE /\ db'[p].entry = TRUE /\ db'[p].exit = db[p].exit
           /\ Tally(trades[p], chain[p], "BUY") # {}
  <2>1. entry' = [entry EXCEPT ![p] = TRUE] /\ exit' = exit /\ ~entry[p] /\ buys[p] = 1
    BY <1>5, <1>6, <1>8
  <2> QED
    BY <1>4, <2>1 DEF Contract!ContractNext, Contract!Entered
<1>9. CASE /\ db[p].exit = FALSE /\ db'[p].exit = TRUE /\ db'[p].entry = db[p].entry
           /\ Tally(trades[p], chain[p], "SELL") # {}
  <2>1. exit' = [exit EXCEPT ![p] = TRUE] /\ entry' = entry /\ ~exit[p] /\ sales[p] = 1
    BY <1>5, <1>6, <1>9
  <2> QED
    BY <1>4, <2>1 DEF Contract!ContractNext, Contract!Exited
<1> QED
  BY <1>7, <1>8, <1>9 DEF Books

LEMMA ContractStays ==
  ASSUME CleanInv, CleanInv', UNCHANGED allVars
  PROVE  UNCHANGED Contract!contractVars
<1>1. trades' = trades /\ chain' = chain /\ db' = db
  BY DEF allVars, execVars, sessionVars
<1>2. \A q \in Pairs : /\ Succeeded(q, Purchases(q))' = Succeeded(q, Purchases(q))
                       /\ Succeeded(q, Sales(q))' = Succeeded(q, Sales(q))
  BY <1>1, ContractValues DEF CleanInv
<1> QED
  BY <1>1, <1>2 DEF Contract!contractVars

LEMMA ContractStep ==
  ASSUME NoFaults, CleanInv, CleanInv', [Next]_allVars
  PROVE  [Contract!ContractNext]_Contract!contractVars
<1>1. ASSUME NEW p \in Pairs, EngineBegin(p) \/ EngineAdvance(p) \/ Claim(p) \/ RecoveryAdvance(p)
      PROVE  [Contract!ContractNext]_Contract!contractVars
  BY <1>1, SessionBooks, SessionKeepsContract
<1>2. ASSUME NEW p \in Pairs, ExecutorStep(p) \/ Mine(p), UNCHANGED sessionVars
      PROVE  [Contract!ContractNext]_Contract!contractVars
  BY <1>2, ExecutorCounts, MineCounts, WorldKeepsContract
<1> QED
  BY <1>1, <1>2, CleanSteps, ContractStays

LEMMA ContractStarts == ASSUME Init PROVE Contract!ContractInit
<1>1. ASSUME NEW p \in Pairs
      PROVE  /\ Succeeded(p, Purchases(p)) = {} /\ Succeeded(p, Sales(p)) = {}
             /\ db[p].entry = FALSE /\ db[p].exit = FALSE
  BY DEF Init, ExecInit, Succeeded, Purchases, Sales, NewSession
<1>2. Cardinality({}) = 0
  BY FS_EmptySet
<1> QED
  BY <1>1, <1>2 DEF Contract!ContractInit

\* As long as every write succeeds, the process stays up and the exit monitor
\* does not run, the engine, recovery, the executor and the chain together
\* keep the contract: every step buys, enters, sells or exits one position, in
\* this order and each once, or leaves all positions as they are.
THEOREM ContractIsKept == NoFaults => (Spec => KeepsContract)
<1> SUFFICES ASSUME NoFaults PROVE Spec => KeepsContract
  OBVIOUS
<1>1. Init => Contract!ContractInit
  BY ContractStarts
<1>2. CleanInv /\ CleanInv' /\ [Next]_allVars => [Contract!ContractNext]_Contract!contractVars
  BY ContractStep
<1> QED
  BY <1>1, <1>2, CleanInvariant, PTL DEF Spec, KeepsContract, Contract!ContractSpec

------------------------------------------------------------------------------
(* When every write succeeds: a position stays sellable.                    *)

LEMMA AtPosition ==
  ASSUME PositionInv, NEW p \in Pairs
  PROVE  LifeInv /\ Within(trades[p], chain[p], db[p], op[p], up)
BY DEF PositionInv

LEMMA AlikeBought ==
  ASSUME NEW ts, NEW cs, NEW ts2, NEW cs2, Alike(ts, cs, ts2, cs2)
  PROVE  (Bought(ts2, cs2) <=> Bought(ts, cs)) /\ (Sold(ts2, cs2) <=> Sold(ts, cs))
BY DEF Alike, Bought, Sold, Side

\* A step of the session of p keeps the invariant if p stays within it.
LEMMA PositionStep ==
  ASSUME PositionInv, LifeInv', NEW p \in Pairs, EngineBegin(p) \/ EngineAdvance(p) \/ Claim(p) \/ RecoveryAdvance(p),
         \A q \in Pairs : q # p => op'[q] = op[q] /\ db'[q] = db[q],
         up' = up,
         Within(trades[p], chain[p], db'[p], op'[p], up)
  PROVE  PositionInv'
<1>1. \A q \in Pairs : Alike(trades[q], chain[q], trades'[q], chain'[q])
  BY AtPosition, SessionTrades
<1>2. \A q \in Pairs : Bought(trades'[q], chain'[q]) <=> Bought(trades[q], chain[q])
  BY <1>1, AlikeBought
<1>3. ASSUME NEW q \in Pairs PROVE Within(trades[q], chain[q], db'[q], op'[q], up')
  BY AtPosition
<1>4. ASSUME NEW q \in Pairs PROVE Within(trades'[q], chain'[q], db'[q], op'[q], up')
  BY <1>2, <1>3 DEF Within
<1> QED
  BY <1>4 DEF PositionInv

\* Statuses of pairs that are counted, or whose purchase has not begun.
LEMMA CountedWithin ==
  ASSUME NEW ts, NEW cs, NEW d, NEW o, NEW u,
         \/ d.status \in {"BUY_PENDING", "HOLDING", "SELL_PENDING", "MANUAL_REVIEW"}
         \/ ~Open(d) /\ d.status = "CLOSED"
         \/ ~Open(d) /\ ~Bought(ts, cs)
         \/ d.status = "RISK_CHECKING" /\ (~Bought(ts, cs) \/ o.pc = "exec")
  PROVE  Within(ts, cs, d, o, u)
BY DEF Within, Terminal, Waiting

LEMMA NothingBought ==
  ASSUME NEW cs
  PROVE  ~Bought(<<>>, cs)
BY DEF Bought, Side

\* Only dead purchases: nothing was bought.
LEMMA DeadBought ==
  ASSUME NEW ts, NEW cs,
         \A i \in Side(ts, "BUY") : cs[i]["main"] \in {"unsent", "reverted"} /\ ts[i].status # "SIMULATED"
  PROVE  ~Bought(ts, cs)
BY DEF Bought

\* The last purchase has bought nothing: none has.
LEMMA LastBought ==
  ASSUME LifeInv, NEW p \in Pairs, NEW t \in Side(trades[p], "BUY"),
         \A i \in Side(trades[p], "BUY") : i <= t,
         chain[p][t]["main"] \in {"unsent", "reverted"}, trades[p][t].status # "SIMULATED"
  PROVE  ~Bought(trades[p], chain[p])
<1>1. ASSUME NEW i \in Side(trades[p], "BUY"), i # t PROVE Dead(trades[p][i], chain[p][i])
  <2>1. i \in Nat /\ t \in Nat
    BY SidesOf DEF Side
  <2>2. i < t
    BY <1>1, <2>1
  <2> QED
    BY <2>2, AtPair DEF Buying
<1> QED
  BY <1>1, DeadBought DEF Dead

\* A step of a session touches its own row and operation only.
LEMMA SessionTouches ==
  ASSUME LifeInv, NEW p \in Pairs, EngineBegin(p) \/ EngineAdvance(p) \/ Claim(p) \/ RecoveryAdvance(p)
  PROVE  (\A q \in Pairs : q # p => op'[q] = op[q] /\ db'[q] = db[q]) /\ up' = up
<1>1. \A q \in Pairs : q # p => db'[q] = db[q]
  <2>1. db' = db \/ \E s : db' = [db EXCEPT ![p] = s]
    BY EngineWrites, RecoveryWrites DEF WritesKeeping, Claim
  <2> QED
    BY <2>1 DEF LifeInv, TypeOK
<1>2. (op' = op \/ \E o : op' = [op EXCEPT ![p] = o]) /\ up' = up
  <2>1. CASE EngineBegin(p)
    BY <2>1 DEF EngineBegin, ObserveBuy, Expire, IgnoreManually, SellManually, SellByPolicy, ReviewByPolicy,
       PerformSell, Begin
  <2>2. CASE EngineAdvance(p)
    BY <2>2 DEF EngineAdvance, CountPositions, Reject, AcceptRisk, AmountFails, Buy, EndBuy, EndSell, End, Advance
  <2>3. CASE Claim(p)
    BY <2>3 DEF Claim, Begin
  <2>4. CASE RecoveryAdvance(p)
    BY <2>4 DEF RecoveryAdvance, ObservePending, ObserveNothing, ObserveReverted,
       ObserveMined, ObserveUnmeasured, ObserveApproved, RestoreSimulated, RetryRisk, DropBuy, ResumeThrows,
       ResumeBuy, ResumeSell, EndResume, Decide, End, Advance
  <2> QED
    BY <2>1, <2>2, <2>3, <2>4
<1>3. \A q \in Pairs : q # p => op'[q] = op[q]
  BY <1>2 DEF LifeInv, TypeOK
<1> QED
  BY <1>1, <1>2, <1>3

\* PositionStep for a session that stays in a status in which it is within.
LEMMA PositionRow ==
  ASSUME PositionInv, LifeInv', NEW p \in Pairs, EngineBegin(p) \/ EngineAdvance(p) \/ Claim(p) \/ RecoveryAdvance(p),
         Within(trades[p], chain[p], db'[p], op'[p], up)
  PROVE  PositionInv'
BY AtPosition, SessionTouches, PositionStep

\* Nothing has been bought for an operation that has not executed anything.
LEMMA PurchaseWithin ==
  ASSUME PositionInv, LifeInv', NEW p \in Pairs,
         ObserveBuy(p) \/ CountPositions(p) \/ Reject(p) \/ AcceptRisk(p) \/ AmountFails(p) \/ Expire(p)
  PROVE  PositionInv'
<1>1. EngineBegin(p) \/ EngineAdvance(p)
  BY DEF EngineBegin, EngineAdvance
<1>2. trades[p] = <<>> /\ ~Open(db[p])
  <2>1. Credible(trades[p], chain[p], db[p])
    BY AtPosition, AtPair DEF Stored
  <2>2. db[p].status \in {Waiting, "RISK_CHECKING", "BUY_PENDING"} /\ trades[p] = <<>>
    BY AtPosition, AtPair
       DEF ObserveBuy, CountPositions, Reject, AcceptRisk, AmountFails, Expire, Operating, Stored
  <2> QED
    BY <2>1, <2>2 DEF Credible, Open
<1>3. db' = db \/ \E status \in Status : db' = [db EXCEPT ![p] = With(db[p], status)]
  <2>1. CASE ObserveBuy(p) \/ Expire(p)
    BY <2>1, Statuses DEF ObserveBuy, Expire, Store
  <2>2. CASE ~(ObserveBuy(p) \/ Expire(p))
    <3>1. op[p].ses = db[p]
      BY <2>2, AtPosition, AtPair DEF CountPositions, Reject, AcceptRisk, AmountFails, Operating
    <3> QED
      BY <2>2, <3>1, Statuses DEF CountPositions, Reject, AcceptRisk, AmountFails, StoreLast, Store, StoreFails, rowVars
  <2> QED
    BY <2>1, <2>2
<1>4. ~Open(db'[p])
  <2>1. db[p] \in SessionRecord /\ db \in [Pairs -> SessionRecord]
    BY AtPosition DEF LifeInv, TypeOK
  <2> QED
    BY <1>2, <1>3, <2>1, WithTyped DEF Open
<1>5. Within(trades[p], chain[p], db'[p], op'[p], up)
  BY <1>2, <1>4, NothingBought, CountedWithin
<1> QED
  BY <1>1, <1>5, PositionRow

\* A session that is counted, whatever it has bought.
LEMMA CountedRow ==
  ASSUME PositionInv, LifeInv', NEW p \in Pairs, EngineBegin(p) \/ EngineAdvance(p) \/ Claim(p) \/ RecoveryAdvance(p),
         NEW s \in SessionRecord, db' = [db EXCEPT ![p] = s],
         \/ s.status \in {"BUY_PENDING", "HOLDING", "SELL_PENDING", "MANUAL_REVIEW"}
         \/ s.status = "CLOSED" /\ s.exit = TRUE
         \/ ~s.entry /\ ~Bought(trades[p], chain[p])
  PROVE  PositionInv'
<1>1. db'[p] = s
  BY AtPosition DEF LifeInv, TypeOK
<1>2. Within(trades[p], chain[p], s, op'[p], up)
  BY CountedWithin DEF Open
<1> QED
  BY <1>1, <1>2, PositionRow

\* A session whose row stays, when it leaves an operation or begins one.
LEMMA SameRow ==
  ASSUME PositionInv, LifeInv', NEW p \in Pairs, EngineBegin(p) \/ EngineAdvance(p) \/ Claim(p) \/ RecoveryAdvance(p),
         db'[p] = db[p], op[p].pc # "exec" \/ op'[p].pc = "exec"
  PROVE  PositionInv'
BY AtPosition, PositionRow DEF Within

LEMMA WithMade ==
  ASSUME NEW s \in SessionRecord, NEW status \in Status
  PROVE  \E r \in SessionRecord :
           r = With(s, status) /\ r.status = status /\ r.entry = s.entry /\ r.exit = s.exit /\ r.ref = s.ref
BY WithTyped

LEMMA SellsWithin ==
  ASSUME PositionInv, LifeInv', NEW p \in Pairs,
         IgnoreManually(p) \/ SellManually(p) \/ SellByPolicy(p) \/ ReviewByPolicy(p)
  PROVE  PositionInv'
<1>1. EngineBegin(p)
  BY DEF EngineBegin
<1>2. db[p] \in SessionRecord
  BY AtPosition, AtPair
<1>3. CASE IgnoreManually(p)
  <2>1. ~Open(db[p]) /\ db[p].status \in {Waiting, "REJECTED", "EXPIRED"} /\ db' = [db EXCEPT ![p] = With(db[p], "REJECTED")]
    BY <1>3 DEF IgnoreManually, Store
  <2>2. ~Bought(trades[p], chain[p])
    BY <2>1, AtPosition DEF Within
  <2>3. db'[p] = With(db[p], "REJECTED") /\ "REJECTED" \in Status
    BY <2>1, AtPosition, Statuses DEF LifeInv, TypeOK
  <2>6. PICK r \in SessionRecord : r = With(db[p], "REJECTED") /\ r.entry = db[p].entry /\ r.exit = db[p].exit
    BY <1>2, <2>3, WithMade
  <2>4. ~Open(db'[p])
    BY <2>1, <2>3, <2>6 DEF Open
  <2>5. Within(trades[p], chain[p], db'[p], op'[p], up)
    BY <2>2, <2>4, CountedWithin
  <2> QED
    BY <1>1, <2>5, PositionRow
<1>4. CASE SellManually(p) \/ SellByPolicy(p) \/ ReviewByPolicy(p)
  <2>1. PICK status \in {"SELL_PENDING", "MANUAL_REVIEW"} : db' = [db EXCEPT ![p] = With(db[p], status)]
    BY <1>4 DEF SellManually, SellByPolicy, ReviewByPolicy, PerformSell, Store
  <2>3. status \in Status
    BY Statuses
  <2>2. PICK s \in SessionRecord : s = With(db[p], status) /\ s.status = status
    BY <1>2, <2>3, WithMade
  <2> QED
    BY <1>1, <2>1, <2>2, CountedRow
<1> QED
  BY <1>3, <1>4

LEMMA BeginWithin ==
  ASSUME PositionInv, LifeInv', NEW p \in Pairs, Claim(p) \/ Buy(p)
  PROVE  PositionInv'
<1>1. db' = db
  BY DEF Claim, Buy, rowVars
<1>2. op[p].pc # "exec"
  BY AtPosition, AtPair DEF Claim, Buy, Operating
<1> QED
  BY <1>1, <1>2, SameRow DEF EngineAdvance

\* A purchase that has failed for good has bought nothing.
LEMMA FailedBought ==
  ASSUME LifeInv, NEW p \in Pairs, exec[p].pc = "done", exec[p].side = "BUY",
         exec[p].outcome \in {"plain", "unsafe"}
  PROVE  ~Bought(trades[p], chain[p])
<1>1. Working(trades[p], chain[p], exec[p]) /\ Buying(trades[p], chain[p], exec[p]) /\ ExecInv
  BY AtPair DEF LifeInv
<1>2. CASE exec[p].trade = 0
  BY <1>1, <1>2, DeadBought DEF Buying, Dead
<1>3. CASE exec[p].trade # 0
  <2>1. PICK t : t = exec[p].trade
    OBVIOUS
  <2>2. t \in DOMAIN trades[p]
    BY <1>1, <1>3, <2>1, AtWork
  <2>3. Answered(exec[p], trades[p][t], chain[p][t])
    BY <1>1, <1>3, <2>1 DEF Working
  <2>4. t \in Side(trades[p], "BUY")
    BY <2>2, <2>3 DEF Answered, Side
  <2>5. \A i \in Side(trades[p], "BUY") : i <= t
    BY <1>1, <1>3, <2>1 DEF Buying
  <2>6. chain[p][t]["main"] \in {"unsent", "reverted"} /\ trades[p][t].status # "SIMULATED"
    BY <2>3 DEF Answered
  <2> QED
    BY <2>4, <2>5, <2>6, LastBought
<1> QED
  BY <1>2, <1>3

LEMMA EndBuyWithin ==
  ASSUME PositionInv, ~StoreFaults, LifeInv', NEW p \in Pairs, EndBuy(p)
  PROVE  PositionInv'
<1>1. EngineAdvance(p) /\ exec[p].pc = "done" /\ op[p].kind = "buy" /\ op[p].pc = "exec" /\ BuyAnswered(p)
  BY DEF EndBuy, EngineAdvance
<1>2. exec[p].side = "BUY" /\ ~leased[p] /\ exec[p].outcome \in Outcomes
  BY <1>1, AtPosition, AtPair DEF Operating, LifeInv, TypeOK, ExecTypeOK, ExecRecord
<1>3. PICK s0 \in SessionRecord : s0 = op[p].ses
  BY AtPosition, AtPair
<1>4. ~s0.entry
  <2>1. s0 = db[p] /\ db[p].status = "BUY_PENDING" /\ Credible(trades[p], chain[p], db[p])
    BY <1>1, <1>3, AtPosition, AtPair DEF Operating, Stored
  <2> QED
    BY <2>1 DEF Credible
<1>5. \A s : StoreLast(p, s) => Store(p, s)
  BY <1>2 DEF StoreLast, StoreFails
<1>6. CASE db' = [db EXCEPT ![p] = Entered(s0)]
  BY <1>1, <1>3, <1>6, EnteredTyped, CountedRow
<1>7. CASE NeedsReview(p) /\ db' = [db EXCEPT ![p] = With(WithOutcome(p, s0), "MANUAL_REVIEW")]
  <2>1. WithOutcome(p, s0) \in SessionRecord
    BY <1>1, <1>2, <1>3, <1>4, AnswerReferred, AtPosition, AtPair DEF Operating, Credible
  <2>2. PICK s \in SessionRecord : s = With(WithOutcome(p, s0), "MANUAL_REVIEW") /\ s.status = "MANUAL_REVIEW"
    BY <2>1, WithTyped, Statuses
  <2> QED
    BY <1>1, <1>7, <2>2, CountedRow
<1>8. CASE /\ exec[p].outcome # "ok" /\ ~NeedsReview(p)
           /\ db' = [db EXCEPT ![p] = With(s0, "REJECTED")]
  <2>1. exec[p].outcome = "plain"
    BY <1>2, <1>8 DEF NeedsReview, Outcomes
  <2>3. "REJECTED" \in Status
    BY Statuses
  <2>2. PICK s \in SessionRecord : s = With(s0, "REJECTED") /\ s.entry = s0.entry
    BY <1>3, <2>3, WithMade
  <2> QED
    BY <1>1, <1>2, <1>4, <1>8, <2>1, <2>2, AtPosition, FailedBought, CountedRow
<1> QED
  BY <1>1, <1>3, <1>5, <1>6, <1>7, <1>8 DEF BuyAnswered, Store

LEMMA EndSellWithin ==
  ASSUME PositionInv, ~StoreFaults, LifeInv', NEW p \in Pairs, EndSell(p)
  PROVE  PositionInv'
<1>1. EngineAdvance(p) /\ exec[p].pc = "done" /\ op[p].kind = "sell" /\ SellAnswered(p)
  BY DEF EndSell, EngineAdvance
<1>2. ~leased[p] /\ db' \in [Pairs -> SessionRecord]
  BY <1>1, AtPosition, AtPair DEF Operating, LifeInv, TypeOK
<1>3. PICK s0 \in SessionRecord : s0 = op[p].ses
  BY AtPosition, AtPair
<1>5. \A s : StoreLast(p, s) => Store(p, s)
  BY <1>2 DEF StoreLast, StoreFails
<1>6. CASE db' = [db EXCEPT ![p] = Exited(s0)]
  BY <1>1, <1>3, <1>6, ExitedTyped, CountedRow
<1>7. CASE db' = [db EXCEPT ![p] = With(WithOutcome(p, s0), "MANUAL_REVIEW")]
  <2>1. db'[p] = With(WithOutcome(p, s0), "MANUAL_REVIEW")
    BY <1>7, AtPosition DEF LifeInv, TypeOK
  <2>2. db'[p].status = "MANUAL_REVIEW"
    BY <1>3, <2>1 DEF With, WithOutcome, SessionRecord
  <2>3. Within(trades[p], chain[p], db'[p], op'[p], up)
    BY <2>2, CountedWithin
  <2> QED
    BY <1>1, <2>3, PositionRow
<1> QED
  BY <1>1, <1>3, <1>5, <1>6, <1>7 DEF SellAnswered, Store

\* Recovery leaves the row as it is, or puts it under review.
LEMMA LeavesWithin ==
  ASSUME PositionInv, ~StoreFaults, LifeInv', NEW p \in Pairs,
         ObservePending(p) \/ RetryRisk(p) \/ ResumeThrows(p) \/ ResumeBuy(p) \/ ResumeSell(p)
  PROVE  PositionInv'
<1>1. Claimed(p) /\ RecoveryAdvance(p)
  BY DEF ObservePending, RetryRisk, ResumeThrows, ResumeBuy, ResumeSell, Observes, Intent, RecoveryAdvance
<1>2. op[p].ses = db[p] /\ op[p].pc # "exec"
  BY <1>1, AtPosition, AtClaim DEF Claimed
<1>3. db'[p] = db[p]
  <2>1. CASE ObservePending(p) \/ RetryRisk(p)
    BY <1>2, <2>1, AtPosition DEF ObservePending, RetryRisk, Decide, ApplyRow, ApplyFails, LifeInv, TypeOK
  <2>2. CASE ResumeThrows(p) \/ ResumeBuy(p) \/ ResumeSell(p)
    BY <2>2 DEF ResumeThrows, ResumeBuy, ResumeSell, rowVars
  <2> QED
    BY <2>1, <2>2
<1> QED
  BY <1>1, <1>2, <1>3, SameRow

LEMMA ReviewWithin ==
  ASSUME PositionInv, ~StoreFaults, LifeInv', NEW p \in Pairs, ObserveNothing(p) \/ ObserveUnmeasured(p)
  PROVE  PositionInv'
<1>1. Claimed(p) /\ RecoveryAdvance(p) /\ HasTransaction(p)
  BY DEF ObserveNothing, ObserveUnmeasured, Observes, RecoveryAdvance
<1>2. PICK s0 \in SessionRecord : s0 = op[p].ses
  BY AtPosition, AtPair
<1>3. db' = [db EXCEPT ![p] = Reviewed(p, s0)]
  BY <1>2 DEF ObserveNothing, ObserveUnmeasured, Decide, ApplyRow, ApplyFails
<1>4. PICK s \in SessionRecord : s = Reviewed(p, s0) /\ s.status = "MANUAL_REVIEW"
  BY <1>1, AtPosition, ReviewedTyped
<1> QED
  BY <1>1, <1>3, <1>4, CountedRow

\* The sessions an operation makes of a purchase and of a sale.
LEMMA MadeStatus ==
  ASSUME NEW s0 \in SessionRecord, NEW s, s = Entered(s0) \/ s = Exited(s0)
  PROVE  s \in SessionRecord /\ (s.status = "HOLDING" \/ (s.status = "CLOSED" /\ s.exit = TRUE))
<1>1. CASE s = Entered(s0)
  BY <1>1, EnteredTyped
<1>2. CASE s = Exited(s0)
  BY <1>2, ExitedTyped
<1> QED
  BY <1>1, <1>2

LEMMA MeasuredWithin ==
  ASSUME PositionInv, ~StoreFaults, LifeInv', NEW p \in Pairs, ObserveMined(p) \/ RestoreSimulated(p)
  PROVE  PositionInv'
<1>1. RecoveryAdvance(p) /\ db' = [db EXCEPT ![p] = Measured(p)]
  BY DEF ObserveMined, RestoreSimulated, Decide, ApplyRow, ApplyFails, RecoveryAdvance
<1>2. PICK s0 \in SessionRecord : s0 = op[p].ses
  BY AtPosition, AtPair
<1>3. PICK s : s = Measured(p) /\ (s = Entered(s0) \/ s = Exited(s0))
  BY <1>2 DEF Measured
<1>4. s \in SessionRecord /\ (s.status = "HOLDING" \/ (s.status = "CLOSED" /\ s.exit = TRUE))
  BY <1>3, MadeStatus
<1> QED
  BY <1>1, <1>3, <1>4, CountedRow

LEMMA ApprovedWithin ==
  ASSUME PositionInv, ~StoreFaults, LifeInv', NEW p \in Pairs, ObserveApproved(p)
  PROVE  PositionInv'
<1>1. PICK s0 \in SessionRecord : s0 = op[p].ses
  BY AtPosition, AtPair
<1> DEFINE s == [s0 EXCEPT !.status = "SELL_PENDING", !.ref = NoRef]
<1>2. RecoveryAdvance(p) /\ db' = [db EXCEPT ![p] = s]
  BY <1>1 DEF ObserveApproved, ApplyRow, ApplyFails, RecoveryAdvance
<1>3. s \in SessionRecord /\ s.status = "SELL_PENDING"
  BY NoRefTyped, RefTyped, Statuses DEF SessionRecord
<1> QED
  BY <1>2, <1>3, CountedRow

LEMMA RevertedWithin ==
  ASSUME PositionInv, ~StoreFaults, LifeInv', NEW p \in Pairs, ObserveReverted(p)
  PROVE  PositionInv'
<1>1. /\ Claimed(p) /\ RecoveryAdvance(p) /\ HasTransaction(p)
      /\ chain[p][SelectTrade(p)][SelectStep(p)] = "reverted"
  BY DEF ObserveReverted, Observes, RecoveryAdvance
<1>2. PICK t : t = SelectTrade(p)
  OBVIOUS
<1>3. PICK step : step = SelectStep(p)
  OBVIOUS
<1>4. /\ t \in DOMAIN trades[p] /\ trades[p][t].side \in {"BUY", "SELL"} /\ step \in {"approve", "main"}
      /\ trades[p][t].status # "SIMULATED" /\ chain[p][t][step] = "reverted"
      /\ step = "approve" => trades[p][t].side = "SELL"
      /\ trades[p][t].side = "BUY" =>
           /\ db[p].entry => chain[p][t]["main"] = "success"
           /\ \A j \in Side(trades[p], "BUY") : j <= t
  BY <1>1, <1>2, <1>3, AtPosition, AtObserve DEF TradeRecord, Sides, Steps
<1>5. db[p] \in SessionRecord /\ op[p].ses = db[p]
  BY <1>1, AtPosition, AtClaim
<1>6. PICK status \in {"REJECTED", "HOLDING"} : status = IF trades[p][t].side = "BUY" THEN "REJECTED" ELSE "HOLDING"
  OBVIOUS
<1> DEFINE s == [db[p] EXCEPT !.status = status, !.ref = NoRef]
<1>7. db' = [db EXCEPT ![p] = s]
  BY <1>2, <1>5, <1>6 DEF ObserveReverted, Decide, ApplyRow, ApplyFails, SelectedSide
<1>8. s \in SessionRecord /\ s.status = status /\ s.entry = db[p].entry
  BY <1>5, NoRefTyped, RefTyped, Statuses DEF SessionRecord
<1>9. CASE trades[p][t].side = "BUY"
  <2>1. chain[p][t]["main"] = "reverted" /\ t \in Side(trades[p], "BUY")
    BY <1>4, <1>9 DEF Side
  <2>2. ~db[p].entry /\ ~Bought(trades[p], chain[p])
    BY <1>4, <1>9, <2>1, AtPosition, LastBought
  <2> QED
    BY <1>1, <1>7, <1>8, <2>2, CountedRow
<1>10. CASE trades[p][t].side # "BUY"
  BY <1>1, <1>6, <1>7, <1>8, <1>10, CountedRow
<1> QED
  BY <1>9, <1>10

LEMMA DropBuyWithin ==
  ASSUME PositionInv, ~StoreFaults, LifeInv', NEW p \in Pairs, DropBuy(p)
  PROVE  PositionInv'
<1>1. Claimed(p) /\ RecoveryAdvance(p) /\ Intent(p, {"RISK_CHECKING", "BUY_PENDING"}) /\ ~Simulated(p)
  BY DEF DropBuy, Intent, RecoveryAdvance
<1>2. PICK t : t = SelectTrade(p)
  OBVIOUS
<1>3. db[p] \in SessionRecord /\ op[p].ses = db[p]
  BY <1>1, AtPosition, AtClaim
<1>4. {"RISK_CHECKING", "BUY_PENDING"} \in SUBSET InFlight
  BY DEF InFlight
<1>5. /\ ~db[p].entry
      /\ t = 0 => Side(trades[p], "BUY") = {}
      /\ t # 0 => /\ t \in Side(trades[p], "BUY")
                  /\ \A j \in Side(trades[p], "BUY") : j <= t
                  /\ \A step \in Steps : trades[p][t].tx[step] = "NONE"
  BY <1>1, <1>2, <1>4, AtPosition, AtIntent
<1>6. ~Bought(trades[p], chain[p])
  <2>1. CASE t = 0
    BY <1>5, <2>1 DEF Bought
  <2>2. CASE t # 0
    <3>1. Sound(trades[p][t], chain[p][t]) /\ trades[p][t].tx["main"] = "NONE"
      BY <1>5, <2>2, AtPosition DEF Side, LifeInv, ExecInv, TradesSound, Steps
    <3>2. chain[p][t]["main"] = "unsent"
      BY <3>1 DEF Sound, Steps
    <3>3. trades[p][t].status # "SIMULATED"
      BY <1>1, <1>2, <2>2 DEF Simulated
    <3> QED
      BY <1>5, <2>2, <3>2, <3>3, AtPosition, LastBought
  <2> QED
    BY <2>1, <2>2
<1>7. PICK s \in SessionRecord : s = With(db[p], "REJECTED") /\ s.entry = db[p].entry
  <2>1. "REJECTED" \in Status
    BY Statuses
  <2> QED
    BY <1>3, <2>1, WithMade
<1>8. db' = [db EXCEPT ![p] = s]
  BY <1>3, <1>7 DEF DropBuy, Decide, ApplyRow, ApplyFails
<1> QED
  BY <1>1, <1>5, <1>6, <1>7, <1>8, CountedRow

LEMMA EndResumeWithin ==
  ASSUME PositionInv, ~StoreFaults, LifeInv', NEW p \in Pairs, EndResume(p)
  PROVE  PositionInv'
<1>1. /\ RecoveryAdvance(p) /\ op[p].kind = "recovery" /\ exec[p].pc = "done"
      /\ db' = [db EXCEPT ![p] = Resumed(p)]
  BY DEF EndResume, ApplyRow, RecoveryAdvance
<1>2. PICK s0 \in SessionRecord : s0 = op[p].ses
  BY AtPosition, AtPair
<1>3. exec[p].outcome \in Outcomes
  BY AtPosition DEF LifeInv, TypeOK, ExecTypeOK, ExecRecord
<1>4. CASE exec[p].outcome = "ok"
  <2>1. PICK s : s = Resumed(p) /\ (s = Entered(s0) \/ s = Exited(s0))
    BY <1>2, <1>4 DEF Resumed
  <2>2. s \in SessionRecord /\ (s.status = "HOLDING" \/ (s.status = "CLOSED" /\ s.exit = TRUE))
    BY <2>1, MadeStatus
  <2> QED
    BY <1>1, <2>1, <2>2, CountedRow
<1>5. CASE exec[p].outcome # "ok"
  <2>1. PICK status \in {"MANUAL_REVIEW", "HOLDING", "REJECTED"} :
          /\ Resumed(p) = With(WithOutcome(p, s0), status)
          /\ status = "REJECTED" => ~NeedsReview(p) /\ exec[p].side = "BUY"
    BY <1>2, <1>5 DEF Resumed
  <2>2. db'[p] = With(WithOutcome(p, s0), status)
    BY <1>1, <2>1, AtPosition DEF LifeInv, TypeOK
  <2>3. db'[p].status = status /\ db'[p].entry = s0.entry
    BY <2>2 DEF With, WithOutcome, SessionRecord
  <2>4. CASE status # "REJECTED"
    <3>1. Within(trades[p], chain[p], db'[p], op'[p], up)
      BY <2>3, <2>4, CountedWithin
    <3> QED
      BY <1>1, <3>1, PositionRow
  <2>5. CASE status = "REJECTED"
    <3>1. exec[p].side = "BUY" /\ exec[p].outcome = "plain"
      BY <1>3, <1>5, <2>1, <2>5 DEF NeedsReview, Outcomes
    <3>2. ~Bought(trades[p], chain[p])
      BY <1>1, <3>1, AtPosition, FailedBought
    <3>3. ~s0.entry
      <4>1. s0 = With(db[p], "BUY_PENDING") /\ Credible(trades[p], chain[p], s0)
        BY <1>1, <1>2, <3>1, AtPosition, AtPair DEF Operating
      <4>2. s0.status = "BUY_PENDING"
        BY <4>1, AtPosition, AtPair DEF With, SessionRecord
      <4> QED
        BY <4>1, <4>2 DEF Credible
    <3>4. Within(trades[p], chain[p], db'[p], op'[p], up)
      BY <2>3, <3>2, <3>3, CountedWithin DEF Open
    <3> QED
      BY <1>1, <3>4, PositionRow
  <2> QED
    BY <2>4, <2>5
<1> QED
  BY <1>4, <1>5

\* While an operation waits for its execution its row is counted.
LEMMA ExecutingWithin ==
  ASSUME LifeInv, NEW p \in Pairs, exec[p].pc # "none", NEW ts, NEW cs, NEW u
  PROVE  Within(ts, cs, db[p], op[p], u)
<1>1. op[p].pc = "exec" /\ op[p].kind \in {"buy", "sell", "recovery"} /\ exec[p].side \in {"BUY", "SELL"}
  BY AtPair DEF Operating, OpRecord, LifeInv, TypeOK, ExecTypeOK, ExecRecord, Sides
<1>2. db[p].status \in {"BUY_PENDING", "HOLDING", "SELL_PENDING"} \/ db[p].status = "RISK_CHECKING"
  BY <1>1, AtPair DEF Operating
<1> QED
  BY <1>1, <1>2, CountedWithin

LEMMA ExecutorWithin ==
  ASSUME PositionInv, LifeInv', NEW p \in Pairs, ExecutorStep(p), UNCHANGED sessionVars
  PROVE  PositionInv'
<1>1. exec[p].pc # "none"
  BY AtPosition, UnderWay DEF LifeInv
<1>2. Works(p) \/ Creates(p) \/ GivesUp(p)
  BY AtPosition, AtPair, ExecutorStepDoes DEF LifeInv
<1>3. \A q \in Pairs : q # p => trades'[q] = trades[q] /\ chain'[q] = chain[q]
  BY <1>2 DEF Works, Touched, Creates, GivesUp
<1>4. db' = db /\ op' = op /\ up' = up
  BY DEF sessionVars
<1>5. Within(trades'[p], chain'[p], db[p], op[p], up)
  BY <1>1, AtPosition, ExecutingWithin
<1>6. ASSUME NEW q \in Pairs PROVE Within(trades'[q], chain'[q], db'[q], op'[q], up')
  BY <1>3, <1>4, <1>5, AtPosition
<1> QED
  BY <1>6 DEF PositionInv

\* A transaction that is mined was on its way.
LEMMA MinedBought ==
  ASSUME LifeInv, NEW p \in Pairs, Mine(p)
  PROVE  /\ trades' = trades /\ exec' = exec
         /\ \A q \in Pairs : Bought(trades[q], chain'[q]) => Bought(trades[q], chain[q])
         /\ \A q \in Pairs : Sold(trades[q], chain[q]) => Sold(trades[q], chain'[q])
<1>1. PICK i \in DOMAIN trades[p] :
        /\ trades' = trades /\ exec' = exec
        /\ \A q \in Pairs : q # p => chain'[q] = chain[q]
        /\ \A j \in DOMAIN trades[p] : j # i => chain'[p][j] = chain[p][j]
        /\ \/ chain'[p][i]["main"] = chain[p][i]["main"]
           \/ chain[p][i]["main"] = "pending" /\ chain'[p][i]["main"] \in {"success", "reverted"}
  BY Mined
<1>2. Bought(trades[p], chain'[p]) => Bought(trades[p], chain[p])
  BY <1>1 DEF Bought, Side
<1>3. Sold(trades[p], chain[p]) => Sold(trades[p], chain'[p])
  BY <1>1 DEF Sold, Side, Done
<1> QED
  BY <1>1, <1>2, <1>3

LEMMA MineWithin ==
  ASSUME PositionInv, LifeInv', NEW p \in Pairs, Mine(p), UNCHANGED sessionVars
  PROVE  PositionInv'
<1>1. trades' = trades /\ \A q \in Pairs : Bought(trades[q], chain'[q]) => Bought(trades[q], chain[q])
  BY AtPosition, MinedBought
<1>2. db' = db /\ op' = op /\ up' = up
  BY DEF sessionVars
<1>3. ASSUME NEW q \in Pairs PROVE Within(trades'[q], chain'[q], db'[q], op'[q], up')
  BY <1>1, <1>2, AtPosition DEF Within
<1> QED
  BY <1>3 DEF PositionInv

LEMMA MonitorWithin ==
  ASSUME PositionInv, LifeInv', NEW p \in Pairs, MonitorLoads(p) \/ MonitorSaves(p)
  PROVE  PositionInv'
<1>1. trades' = trades /\ chain' = chain /\ op' = op /\ up' = up
  BY DEF MonitorLoads, MonitorSaves, execVars
<1>2. CASE db' = db
  BY <1>1, <1>2 DEF PositionInv
<1>3. CASE db' # db
  <2>1. loaded[p] # <<>> /\ db' = [db EXCEPT ![p] = loaded[p][1]]
    BY <1>3 DEF MonitorLoads, MonitorSaves, StoreLast, Store, StoreFails, rowVars
  <2>2. loaded[p][1].status = "HOLDING"
    BY <2>1, AtPosition, AtPair DEF Copied
  <2>3. Within(trades[p], chain[p], db'[p], op[p], up) /\ \A q \in Pairs : q # p => db'[q] = db[q]
    BY <2>1, <2>2, AtPosition, CountedWithin DEF LifeInv, TypeOK
  <2>4. ASSUME NEW q \in Pairs PROVE Within(trades'[q], chain'[q], db'[q], op'[q], up')
    BY <1>1, <2>3, AtPosition
  <2> QED
    BY <2>4 DEF PositionInv
<1> QED
  BY <1>2, <1>3

LEMMA ProcessWithin ==
  ASSUME PositionInv, LifeInv', Crash \/ FreshStart
  PROVE  PositionInv'
<1>1. trades' = trades /\ chain' = chain
  BY DEF Crash, FreshStart, execVars
<1>2. CASE Crash
  <2>1. up' = FALSE /\ db' = db
    BY <1>2 DEF Crash, rowVars
  <2>2. ASSUME NEW q \in Pairs PROVE Within(trades'[q], chain'[q], db'[q], op'[q], up')
    BY <1>1, <2>1, AtPosition DEF Within
  <2> QED
    BY <2>2 DEF PositionInv
<1>3. CASE FreshStart
  <2>1. op' = op /\ \A q \in Pairs : db'[q] = IF db[q].status \in Active /\ ~quarantined[q]
                                                THEN With(db[q], "MANUAL_REVIEW") ELSE db[q]
    BY <1>3 DEF FreshStart
  <2>2. ASSUME NEW q \in Pairs PROVE Within(trades[q], chain[q], db'[q], op'[q], up')
    <3>1. CASE db[q].status \in Active /\ ~quarantined[q]
      <4>1. db'[q].status = "MANUAL_REVIEW"
        BY <2>1, <3>1, AtPosition, AtPair DEF With, SessionRecord
      <4> QED
        BY <4>1, CountedWithin
    <3>2. CASE ~(db[q].status \in Active /\ ~quarantined[q])
      <4>1. db'[q] = db[q] /\ db[q].status # "RISK_CHECKING"
        BY <2>1, <3>2, AtPosition, AtPair DEF Stored, Active, InFlight
      <4> QED
        BY <2>1, <4>1, AtPosition DEF Within
    <3> QED
      BY <3>1, <3>2
  <2> QED
    BY <1>1, <2>2 DEF PositionInv
<1> QED
  BY <1>2, <1>3

LEMMA PositionInit == ASSUME Init PROVE PositionInv
<1>1. ASSUME NEW p \in Pairs PROVE Within(trades[p], chain[p], db[p], op[p], up)
  <2>1. trades[p] = <<>> /\ ~Open(db[p])
    BY DEF Init, ExecInit, NewSession, Open
  <2> QED
    BY <2>1, NothingBought, CountedWithin
<1> QED
  BY <1>1, LifeInit DEF PositionInv

LEMMA PositionNext == ASSUME ~StoreFaults, PositionInv, [Next]_allVars PROVE PositionInv'
<1>1. LifeInv'
  BY LifeNext DEF PositionInv
<1>2. CASE UNCHANGED allVars
  BY <1>1, <1>2 DEF PositionInv, allVars, execVars, sessionVars
<1>3. ASSUME NEW p \in Pairs, EngineBegin(p) \/ Claim(p) PROVE PositionInv'
  BY <1>1, <1>3, PurchaseWithin, SellsWithin, BeginWithin DEF EngineBegin
<1>4. ASSUME NEW p \in Pairs, EngineAdvance(p) PROVE PositionInv'
  BY <1>1, <1>4, PurchaseWithin, BeginWithin, EndBuyWithin, EndSellWithin DEF EngineAdvance
<1>5. ASSUME NEW p \in Pairs, RecoveryAdvance(p) PROVE PositionInv'
  BY <1>1, <1>5, LeavesWithin, ReviewWithin, MeasuredWithin, ApprovedWithin, RevertedWithin, DropBuyWithin,
     EndResumeWithin DEF RecoveryAdvance
<1>6. ASSUME NEW p \in Pairs, ExecutorStep(p) \/ Mine(p), UNCHANGED sessionVars PROVE PositionInv'
  BY <1>1, <1>6, ExecutorWithin, MineWithin
<1>7. ASSUME NEW p \in Pairs, MonitorLoads(p) \/ MonitorSaves(p) PROVE PositionInv'
  BY <1>1, <1>7, MonitorWithin
<1>8. CASE Crash \/ FreshStart
  BY <1>1, <1>8, ProcessWithin
<1> QED
  BY <1>2, <1>3, <1>4, <1>5, <1>6, <1>7, <1>8 DEF Next

\* When every write succeeds, a row that is not counted as a position is one
\* of a pair that has bought nothing.
THEOREM PositionInvariant == ~StoreFaults => (Spec => []PositionInv)
<1> SUFFICES ASSUME ~StoreFaults PROVE Spec => []PositionInv
  OBVIOUS
<1>1. Init => PositionInv
  BY PositionInit
<1>2. PositionInv /\ [Next]_allVars => PositionInv'
  BY PositionNext
<1> QED
  BY <1>1, <1>2, PTL DEF Spec

\* When every write succeeds, a token that was bought and not sold is never in
\* a session that has ended, through crashes, fresh starts and the exit
\* monitor too.
THEOREM PositionIsKept == ~StoreFaults => (Spec => []PositionKept)
<1>1. PositionInv => PositionKept
  BY DEF PositionInv, Within, PositionKept
<1> QED
  BY <1>1, PositionInvariant, PTL

------------------------------------------------------------------------------
(* When every write succeeds: the number of positions.                      *)

\* A pair that has begun to buy: the operation that buys, or its execution.
Begun(e, o) ==
  \/ o.kind = "buy" /\ o.pc # "count"
  \/ e.pc # "none" /\ e.side = "BUY"

LEMMA CommitsOf ==
  ASSUME NEW ts, NEW cs, NEW e, NEW o
  PROVE  Commits(ts, cs, e, o) <=> (Bought(ts, cs) /\ ~Sold(ts, cs)) \/ Begun(e, o)
BY DEF Commits, Begun

\* What a step of a session does to its operation and execution, but for the
\* two that begin to buy.
LEMMA SessionBegins ==
  ASSUME LifeInv, NEW p \in Pairs, EngineBegin(p) \/ EngineAdvance(p) \/ Claim(p) \/ RecoveryAdvance(p)
  PROVE  /\ \A q \in Pairs : q # p => exec'[q] = exec[q]
         /\ Begun(exec'[p], op'[p]) => Begun(exec[p], op[p]) \/ CountPositions(p) \/ ResumeBuy(p)
         /\ op'[p].kind = "buy" => op[p].kind = "buy" \/ ObserveBuy(p)
<1>1. exec \in [Pairs -> ExecRecord] /\ op \in [Pairs -> OpRecord]
  BY DEF LifeInv, TypeOK, ExecTypeOK, OpRecord
<1>2. "BUY" # "SELL" /\ NoOp.kind = "none" /\ Idle.pc = "none"
  BY NoOpTyped, IdleTyped
<1>3. CASE UNCHANGED <<exec, op>>
  BY <1>3
<1>4. CASE End(p) /\ (exec' = exec \/ Return(p))
  BY <1>1, <1>2, <1>4 DEF End, Return, Begun
<1>5. CASE ObserveBuy(p) \/ Claim(p)
  BY <1>1, <1>5 DEF ObserveBuy, Claim, Begin, Begun, execVars
<1>6. CASE CountPositions(p)
  BY <1>1, <1>6 DEF CountPositions, Advance, execVars, OpRecord
<1>7. CASE AcceptRisk(p) /\ ~End(p)
  BY <1>1, <1>7 DEF AcceptRisk, Advance, execVars, OpRecord, Begun
<1>8. CASE Buy(p)
  BY <1>1, <1>8 DEF Buy, Advance, Call, OpRecord, Begun
<1>9. CASE SellManually(p) \/ SellByPolicy(p)
  <2>1. op' = [op EXCEPT ![p] = [kind |-> "sell", pc |-> "exec", ses |-> With(db[p], "SELL_PENDING")]]
    BY <1>9 DEF SellManually, SellByPolicy, PerformSell, Begin
  <2>2. exec' = [exec EXCEPT ![p] = Queued("SELL", 0)]
    BY <1>9 DEF SellManually, SellByPolicy, PerformSell, Call, Queued
  <2>3. Queued("SELL", 0).side = "SELL"
    BY DEF Queued, Idle
  <2> QED
    BY <1>1, <2>1, <2>2, <2>3 DEF Begun
<1>10. CASE ResumeBuy(p)
  BY <1>1, <1>10 DEF ResumeBuy, Intent, Claimed, Advance, Call, OpRecord
<1>11. ASSUME NEW t, NEW s, Call(p, "SELL", t), Advance(p, "exec", s), op[p].kind = "recovery"
       PROVE  ~Begun(exec'[p], op'[p]) /\ op'[p].kind = "recovery" /\ \A q \in Pairs : q # p => exec'[q] = exec[q]
  <2>1. exec' = [exec EXCEPT ![p] = Queued("SELL", t)]
    BY <1>11 DEF Call, Queued
  <2>2. Queued("SELL", t).side = "SELL"
    BY DEF Queued, Idle
  <2>3. op'[p].kind = "recovery"
    BY <1>1, <1>11 DEF Advance, OpRecord
  <2> QED
    BY <1>1, <2>1, <2>2, <2>3 DEF Begun
<1>12. CASE Expire(p) \/ IgnoreManually(p) \/ ReviewByPolicy(p)
  BY <1>3, <1>12 DEF Expire, IgnoreManually, ReviewByPolicy, execVars
<1>13. CASE Reject(p) \/ AmountFails(p) \/ EndBuy(p) \/ EndSell(p) \/ (AcceptRisk(p) /\ End(p))
  BY <1>4, <1>13 DEF Reject, AmountFails, EndBuy, EndSell, AcceptRisk, execVars
<1>14. CASE ObservePending(p) \/ ObserveNothing(p) \/ ObserveReverted(p) \/ ObserveMined(p) \/ ObserveUnmeasured(p)
  BY <1>4, <1>14 DEF ObservePending, ObserveNothing, ObserveReverted, ObserveMined, ObserveUnmeasured, Decide
<1>15. CASE RestoreSimulated(p) \/ RetryRisk(p) \/ DropBuy(p) \/ ResumeThrows(p) \/ EndResume(p)
  BY <1>4, <1>15 DEF RestoreSimulated, RetryRisk, DropBuy, ResumeThrows, EndResume, Decide, execVars
<1>16. CASE ResumeSell(p)
  <2>1. op[p].kind = "recovery"
    BY <1>16 DEF ResumeSell, Intent, Claimed
  <2> QED
    BY <1>11, <1>16, <2>1 DEF ResumeSell
<1>17. CASE ObserveApproved(p)
  <2>1. op[p].kind = "recovery"
    BY <1>17 DEF ObserveApproved, Observes, Claimed
  <2>2. \/ End(p) /\ exec' = exec
        \/ \E t, s : Call(p, "SELL", t) /\ Advance(p, "exec", s)
    BY <1>17 DEF ObserveApproved
  <2> QED
    BY <1>4, <1>11, <2>1, <2>2
<1> QED
  BY <1>5, <1>6, <1>7, <1>8, <1>9, <1>10, <1>12, <1>13, <1>14, <1>15, <1>16, <1>17
     DEF EngineBegin, EngineAdvance, RecoveryAdvance

\* The values of a pair say that it is committed.
PairCommits(p) == Commits(trades[p], chain[p], exec[p], op[p])

LEMMA CommittedIs ==
  /\ Committed = {p \in Pairs : PairCommits(p)}
  /\ Committed' = {p \in Pairs : PairCommits(p)'}
BY DEF Committed, PairCommits

\* A step of a session commits its pair only if it begins to buy.
LEMMA SessionCommits ==
  ASSUME LifeInv, NEW p \in Pairs, EngineBegin(p) \/ EngineAdvance(p) \/ Claim(p) \/ RecoveryAdvance(p)
  PROVE  /\ \A q \in Pairs : q # p => (q \in Committed' => q \in Committed)
         /\ p \in Committed' => p \in Committed \/ CountPositions(p) \/ ResumeBuy(p)
<1>1. \A q \in Pairs : Alike(trades[q], chain[q], trades'[q], chain'[q])
  BY SessionTrades
<1>2. \A q \in Pairs : /\ Bought(trades'[q], chain'[q]) <=> Bought(trades[q], chain[q])
                       /\ Sold(trades'[q], chain'[q]) <=> Sold(trades[q], chain[q])
  BY <1>1, AlikeBought
<1>3. \A q \in Pairs : q # p => exec'[q] = exec[q] /\ op'[q] = op[q]
  BY SessionBegins, SessionTouches
<1>4. Begun(exec'[p], op'[p]) => Begun(exec[p], op[p]) \/ CountPositions(p) \/ ResumeBuy(p)
  BY SessionBegins
<1>5. ASSUME NEW q \in Pairs, Begun(exec'[q], op'[q]) => Begun(exec[q], op[q]), q \in Committed'
      PROVE  q \in Committed
  BY <1>2, <1>5, CommittedIs, CommitsOf DEF PairCommits
<1>6. ASSUME NEW q \in Pairs, q # p, q \in Committed' PROVE q \in Committed
  BY <1>3, <1>5, <1>6
<1>7. ASSUME p \in Committed', ~CountPositions(p), ~ResumeBuy(p) PROVE p \in Committed
  BY <1>4, <1>5, <1>7
<1> QED
  BY <1>6, <1>7

\* A sale that is created buys nothing, and what was sold stays sold.
LEMMA LongerBought ==
  ASSUME NEW ts, NEW cs, NEW ts2, NEW cs2, NEW n \in Nat, Longer(ts, cs, ts2, cs2, n), ts2[n + 1].side = "SELL"
  PROVE  (Bought(ts2, cs2) => Bought(ts, cs)) /\ (Sold(ts, cs) => Sold(ts2, cs2))
<1>1. \A i \in Side(ts2, "BUY") : i \in Side(ts, "BUY")
  BY LongerSides
<1>2. \A i \in Side(ts, "SELL") : i \in Side(ts2, "SELL")
  BY LongerSides
<1>3. \A side : \A i \in Side(ts, side) : ts2[i] = ts[i] /\ cs2[i] = cs[i]
  BY DEF Longer, Side
<1>4. Bought(ts2, cs2) => Bought(ts, cs)
  BY <1>1, <1>3 DEF Bought
<1>5. Sold(ts, cs) => Sold(ts2, cs2)
  BY <1>2, <1>3 DEF Sold
<1> QED
  BY <1>4, <1>5

\* The execution of a purchase goes on, and buys for the pair it was counted for.
LEMMA ExecutorCommits ==
  ASSUME LifeInv, NEW p \in Pairs, ExecutorStep(p), UNCHANGED sessionVars
  PROVE  \A q \in Pairs : q \in Committed' => q \in Committed
<1>1. exec[p].pc \notin {"none", "done"}
  BY UnderWay DEF LifeInv
<1>2. Works(p) \/ Creates(p) \/ GivesUp(p)
  BY AtPair, ExecutorStepDoes DEF LifeInv
<1>3. /\ \A q \in Pairs : q # p => trades'[q] = trades[q] /\ chain'[q] = chain[q] /\ exec'[q] = exec[q]
      /\ op' = op
  BY <1>2 DEF Works, Touched, Creates, GivesUp, LifeInv, TypeOK, ExecTypeOK, sessionVars
<1>4. exec'[p].side = exec[p].side /\ exec[p].side \in {"BUY", "SELL"}
  BY <1>2, WorksOn, CreatesLonger DEF GivesUp, LifeInv, TypeOK, ExecTypeOK, ExecRecord, Sides
<1>5. ASSUME exec[p].side = "SELL"
      PROVE  /\ Bought(trades'[p], chain'[p]) => Bought(trades[p], chain[p])
             /\ Sold(trades[p], chain[p]) => Sold(trades'[p], chain'[p])
  <2>1. CASE GivesUp(p)
    BY <2>1 DEF GivesUp
  <2>2. CASE Creates(p)
    <3>1. PICK n \in Nat : n = Len(trades[p]) /\ Longer(trades[p], chain[p], trades'[p], chain'[p], n)
                           /\ trades'[p][n + 1].side = "SELL"
      BY <1>5, <2>2, CreatesLonger
    <3> QED
      BY <3>1, LongerBought
  <2>3. CASE Works(p)
    <3>1. PICK t : t = exec[p].trade
      OBVIOUS
    <3>2. /\ t \in DOMAIN trades[p] /\ trades[p][t].side = "SELL" /\ DOMAIN trades'[p] = DOMAIN trades[p]
          /\ \A i \in DOMAIN trades[p] : trades'[p][i].side = trades[p][i].side
          /\ \A i \in DOMAIN trades[p] : i # t => trades'[p][i] = trades[p][i] /\ chain'[p][i] = chain[p][i]
      BY <1>5, <2>3, <3>1, WorksOn
    <3>3. Done(trades[p][t], chain[p][t]) => Done(trades'[p][t], chain'[p][t])
      BY <1>1, <2>3, <3>1, WorksDone
    <3> QED
      BY <3>2, <3>3 DEF Bought, Sold, Side
  <2> QED
    BY <1>2, <2>1, <2>2, <2>3
<1>6. p \in Committed' => p \in Committed
  <2>1. CASE exec[p].side = "BUY"
    BY <1>1, <2>1, CommittedIs, CommitsOf DEF PairCommits, Begun
  <2>2. CASE exec[p].side = "SELL"
    <3>1. Begun(exec'[p], op'[p]) => Begun(exec[p], op[p])
      BY <1>3, <1>4, <2>2 DEF Begun
    <3> QED
      BY <1>5, <2>2, <3>1, CommittedIs, CommitsOf DEF PairCommits
  <2> QED
    BY <1>4, <2>1, <2>2
<1>7. ASSUME NEW q \in Pairs, q # p PROVE q \in Committed' => q \in Committed
  BY <1>3, <1>7, CommittedIs DEF PairCommits
<1> QED
  BY <1>6, <1>7

\* Nothing else commits a pair.
LEMMA WorldCommits ==
  ASSUME LifeInv,
         \/ \E p \in Pairs : Mine(p) /\ UNCHANGED sessionVars
         \/ \E p \in Pairs : MonitorLoads(p) \/ MonitorSaves(p)
         \/ Crash \/ FreshStart
         \/ UNCHANGED allVars
  PROVE  \A q \in Pairs : q \in Committed' => q \in Committed
<1>1. CASE \E p \in Pairs : Mine(p) /\ UNCHANGED sessionVars
  <2>1. PICK p \in Pairs : Mine(p) /\ UNCHANGED sessionVars
    BY <1>1
  <2>2. /\ trades' = trades /\ exec' = exec /\ op' = op
        /\ \A q \in Pairs : Bought(trades[q], chain'[q]) => Bought(trades[q], chain[q])
        /\ \A q \in Pairs : Sold(trades[q], chain[q]) => Sold(trades[q], chain'[q])
    BY <2>1, MinedBought DEF sessionVars
  <2>3. ASSUME NEW q \in Pairs, q \in Committed' PROVE q \in Committed
    BY <2>2, <2>3, CommittedIs DEF PairCommits, Commits
  <2> QED
    BY <2>3
<1>2. CASE trades' = trades /\ chain' = chain /\ exec' = exec /\ op' = op
  BY <1>2 DEF Committed
<1>3. CASE \E p \in Pairs : MonitorLoads(p) \/ MonitorSaves(p)
  BY <1>2, <1>3 DEF MonitorLoads, MonitorSaves, execVars
<1>4. CASE FreshStart \/ UNCHANGED allVars
  BY <1>2, <1>4 DEF FreshStart, execVars, allVars, sessionVars
<1>5. CASE Crash
  <2>1. /\ trades' = trades /\ chain' = chain
        /\ \A q \in Pairs : exec'[q] = Idle /\ op'[q] = NoOp
    BY <1>5 DEF Crash
  <2>2. ASSUME NEW q \in Pairs PROVE ~Begun(exec'[q], op'[q])
    BY <2>1, NoOpTyped, IdleTyped DEF Begun
  <2>3. ASSUME NEW q \in Pairs, q \in Committed' PROVE q \in Committed
    BY <2>1, <2>2, <2>3, CommittedIs, CommitsOf DEF PairCommits
  <2> QED
    BY <2>3
<1> QED
  BY <1>1, <1>3, <1>4, <1>5

\* A pair that holds tokens and buys none is counted as a position.
LEMMA CommittedCounted ==
  ASSUME PositionInv, up, NEW q \in Pairs, op[q].pc # "exec", op[q].kind = "buy" => op[q].pc = "count", q \in Committed
  PROVE  q \in Counted
<1>1. ~Begun(exec[q], op[q])
  BY AtPosition, AtPair DEF Operating, Begun
<1>2. Bought(trades[q], chain[q]) /\ ~Sold(trades[q], chain[q])
  BY <1>1, CommittedIs, CommitsOf DEF PairCommits
<1>3. /\ db[q].status \notin {Waiting, "REJECTED", "EXPIRED", "RISK_CHECKING"}
      /\ db[q].status \in Status
  BY <1>2, AtPosition DEF Within, LifeInv, TypeOK, SessionRecord
<1>4. db[q].status # "CLOSED"
  BY <1>2, AtPosition, AtPair DEF Stored, Credible, Sold
<1> QED
  BY <1>3, <1>4 DEF Counted, Status, Active, InFlight, Terminal

\* The number of committed pairs when p is committed after the pairs that are
\* counted, p aside, were fewer than the most.
LEMMA OneMore ==
  ASSUME LifeInv, IsFiniteSet(Pairs), NEW p \in Pairs, NEW C \in SUBSET Pairs, Cardinality(C) < MaxPositions,
         NEW D \in SUBSET Pairs, D \subseteq C \cup {p}
  PROVE  Cardinality(D) <= MaxPositions
<1>1. IsFiniteSet(C)
  BY FS_Subset
<1>2. IsFiniteSet(C \cup {p}) /\ Cardinality(C \cup {p}) <= Cardinality(C) + 1
  <2>1. Cardinality(C) \in Nat
    BY <1>1, FS_CardinalityType
  <2>2. IsFiniteSet(C \cup {p}) /\ Cardinality(C \cup {p}) \in {Cardinality(C), Cardinality(C) + 1}
    BY <1>1, FS_AddElement
  <2> QED
    BY <2>1, <2>2
<1>3. Cardinality(D) <= Cardinality(C \cup {p})
  BY <1>2, FS_Subset
<1>4. Cardinality(D) \in Nat /\ Cardinality(C) \in Nat /\ Cardinality(C \cup {p}) \in Nat
  BY <1>1, <1>2, FS_Subset, FS_CardinalityType
<1> QED
  BY <1>2, <1>3, <1>4, LifecycleAssumption

LEMMA AtCapacity ==
  ASSUME CapacityInv
  PROVE  /\ PositionInv /\ LifeInv /\ Cardinality(Committed) <= MaxPositions
         /\ \A p, q \in Pairs : op[p].kind = "buy" /\ op[q].kind = "buy" => p = q
BY DEF CapacityInv, PositionInv

LEMMA CommittedPairs == Committed \subseteq Pairs /\ Committed' \subseteq Pairs
BY CommittedIs

\* A step that commits no pair keeps the number.
LEMMA NoMore ==
  ASSUME CapacityInv, IsFiniteSet(Pairs), \A q \in Pairs : q \in Committed' => q \in Committed
  PROVE  Cardinality(Committed') <= MaxPositions
<1>1. PICK C \in SUBSET Pairs : C = Committed
  BY CommittedPairs
<1>2. PICK D \in SUBSET Pairs : D = Committed'
  BY CommittedPairs
<1>3. D \in SUBSET C
  BY <1>1, <1>2
<1>4. /\ Cardinality(D) <= Cardinality(C) /\ Cardinality(C) <= MaxPositions
      /\ Cardinality(D) \in Nat /\ Cardinality(C) \in Nat
  BY <1>1, <1>3, AtCapacity, FS_Subset, FS_CardinalityType
<1> QED
  BY <1>2, <1>4, LifecycleAssumption

\* The count of the engine: swaps are handled one at a time, and no recovery
\* runs beside them.
LEMMA CountPositionsFits ==
  ASSUME CapacityInv, IsFiniteSet(Pairs), NEW p \in Pairs, CountPositions(p)
  PROVE  Cardinality(Committed') <= MaxPositions
<1>1. op[p].kind = "buy" /\ op[p].pc = "count" /\ Cardinality(Counted) < MaxPositions
  BY DEF CountPositions
<1>2. up
  BY <1>1, AtCapacity DEF LifeInv, Apart
<1>3. ASSUME NEW q \in Pairs, q # p, q \in Committed' PROVE q \in Counted
  <2>1. q \in Committed
    BY <1>3, AtCapacity, SessionCommits DEF EngineAdvance
  <2>2. op[q].kind # "buy" /\ op[q].kind # "recovery"
    BY <1>1, <1>3, AtCapacity DEF LifeInv, Apart
  <2>3. CASE op[q].pc # "exec"
    BY <1>2, <2>1, <2>2, <2>3, AtCapacity, CommittedCounted
  <2>4. CASE op[q].pc = "exec"
    <3>1. op[q].kind = "sell"
      BY <2>2, <2>4, AtCapacity, AtPair DEF Operating, LifeInv, TypeOK
    <3>2. db[q].status \in {"HOLDING", "SELL_PENDING"}
      BY <3>1, AtCapacity, AtPair DEF Operating
    <3> QED
      BY <3>2 DEF Counted
  <2> QED
    BY <2>3, <2>4
<1>4. PICK C \in SUBSET Pairs : C = Counted
  BY DEF Counted
<1>5. PICK D \in SUBSET Pairs : D = Committed'
  BY CommittedPairs
<1>6. D \subseteq C \cup {p}
  BY <1>3, <1>4, <1>5
<1> QED
  BY <1>1, <1>4, <1>5, <1>6, AtCapacity, OneMore

\* The count of recovery, which runs alone.
LEMMA ResumeBuyFits ==
  ASSUME CapacityInv, IsFiniteSet(Pairs), NEW p \in Pairs, ResumeBuy(p)
  PROVE  Cardinality(Committed') <= MaxPositions
<1>1. op[p].kind = "recovery" /\ Cardinality(Counted \ {p}) < MaxPositions
  BY DEF ResumeBuy, HasCapacity, Intent, Claimed
<1>2. up /\ \A q \in Pairs : q # p => op[q].kind = "none"
  BY <1>1, AtCapacity DEF LifeInv, Apart
<1>3. ASSUME NEW q \in Pairs, q # p, q \in Committed' PROVE q \in Counted
  <2>1. q \in Committed
    BY <1>3, AtCapacity, SessionCommits DEF RecoveryAdvance
  <2>2. op[q].kind = "none" /\ op[q].pc = "done"
    BY <1>2, <1>3, AtCapacity, AtPair DEF Operating
  <2> QED
    BY <1>2, <2>1, <2>2, AtCapacity, CommittedCounted
<1>4. PICK C \in SUBSET Pairs : C = Counted \ {p}
  BY DEF Counted
<1>5. PICK D \in SUBSET Pairs : D = Committed'
  BY CommittedPairs
<1>6. D \subseteq C \cup {p}
  BY <1>3, <1>4, <1>5
<1> QED
  BY <1>1, <1>4, <1>5, <1>6, AtCapacity, OneMore

\* At most one pair buys for the engine.
LEMMA OneBuyer ==
  ASSUME CapacityInv, [Next]_allVars
  PROVE  \A p, q \in Pairs : op'[p].kind = "buy" /\ op'[q].kind = "buy" => p = q
<1>1. ASSUME \A q \in Pairs : op'[q].kind = "buy" => op[q].kind = "buy"
      PROVE  \A p, q \in Pairs : op'[p].kind = "buy" /\ op'[q].kind = "buy" => p = q
  BY <1>1, AtCapacity
<1>2. CASE \E p \in Pairs : EngineBegin(p) \/ EngineAdvance(p) \/ Claim(p) \/ RecoveryAdvance(p)
  <2>1. PICK p \in Pairs : EngineBegin(p) \/ EngineAdvance(p) \/ Claim(p) \/ RecoveryAdvance(p)
    BY <1>2
  <2>2. \A q \in Pairs : q # p => op'[q] = op[q]
    BY <2>1, AtCapacity, SessionTouches
  <2>3. op'[p].kind = "buy" => op[p].kind = "buy" \/ ObserveBuy(p)
    BY <2>1, AtCapacity, SessionBegins
  <2>4. CASE ObserveBuy(p)
    <3>1. \A q \in Pairs : op[q].kind # "buy"
      BY <2>4 DEF ObserveBuy
    <3> QED
      BY <2>2, <3>1
  <2>5. CASE ~ObserveBuy(p)
    BY <1>1, <2>2, <2>3, <2>5
  <2> QED
    BY <2>4, <2>5
<1>3. CASE op' = op
  BY <1>1, <1>3
<1>4. CASE Crash
  BY <1>1, <1>4, NoOpTyped DEF Crash
<1> QED
  BY <1>2, <1>3, <1>4 DEF Next, MonitorLoads, MonitorSaves, sessionVars, FreshStart, allVars

LEMMA CapacityInit == ASSUME Init PROVE CapacityInv
<1>1. ASSUME NEW p \in Pairs PROVE p \notin Committed
  <2>1. trades[p] = <<>> /\ exec[p] = Idle /\ op[p] = NoOp
    BY DEF Init, ExecInit
  <2> QED
    BY <2>1, NothingBought, NoOpTyped, IdleTyped, CommittedIs DEF PairCommits, Commits
<1>2. Committed = {}
  BY <1>1, CommittedPairs
<1>3. Cardinality(Committed) <= MaxPositions
  BY <1>2, FS_EmptySet, LifecycleAssumption
<1>4. \A p \in Pairs : op[p].kind = "none"
  BY NoOpTyped DEF Init
<1> QED
  BY <1>3, <1>4, PositionInit DEF CapacityInv

LEMMA CapacityNext ==
  ASSUME ~StoreFaults, IsFiniteSet(Pairs), CapacityInv, [Next]_allVars
  PROVE  CapacityInv'
<1>1. PositionInv'
  BY AtCapacity, PositionNext
<1>2. \A p, q \in Pairs : op'[p].kind = "buy" /\ op'[q].kind = "buy" => p = q
  BY OneBuyer
<1>3. ASSUME NEW p \in Pairs, EngineBegin(p) \/ EngineAdvance(p) \/ Claim(p) \/ RecoveryAdvance(p)
      PROVE  Cardinality(Committed') <= MaxPositions
  <2>2. CASE CountPositions(p) \/ ResumeBuy(p)
    BY <2>2, CountPositionsFits, ResumeBuyFits
  <2>3. CASE ~CountPositions(p) /\ ~ResumeBuy(p)
    <3>1. \A q \in Pairs : q \in Committed' => q \in Committed
      BY <1>3, <2>3, AtCapacity, SessionCommits
    <3> QED
      BY <3>1, NoMore
  <2> QED
    BY <2>2, <2>3
<1>4. ASSUME NEW p \in Pairs, ExecutorStep(p), UNCHANGED sessionVars
      PROVE  Cardinality(Committed') <= MaxPositions
  <2>1. \A q \in Pairs : q \in Committed' => q \in Committed
    BY <1>4, AtCapacity, ExecutorCommits
  <2> QED
    BY <2>1, NoMore
<1>5. ASSUME \/ \E p \in Pairs : Mine(p) /\ UNCHANGED sessionVars
             \/ \E p \in Pairs : MonitorLoads(p) \/ MonitorSaves(p)
             \/ Crash \/ FreshStart
             \/ UNCHANGED allVars
      PROVE  Cardinality(Committed') <= MaxPositions
  <2>1. \A q \in Pairs : q \in Committed' => q \in Committed
    BY <1>5, AtCapacity, WorldCommits
  <2> QED
    BY <2>1, NoMore
<1>6. Cardinality(Committed') <= MaxPositions
  BY <1>3, <1>4, <1>5 DEF Next
<1> QED
  BY <1>1, <1>2, <1>6 DEF CapacityInv

\* When every write succeeds, the pairs that hold tokens or have been counted
\* to buy some are never more than MaxPositions.
THEOREM CapacityInvariant == ~StoreFaults /\ IsFiniteSet(Pairs) => (Spec => []CapacityInv)
<1> SUFFICES ASSUME ~StoreFaults, IsFiniteSet(Pairs) PROVE Spec => []CapacityInv
  OBVIOUS
<1>1. Init => CapacityInv
  BY CapacityInit
<1>2. CapacityInv /\ [Next]_allVars => CapacityInv'
  BY CapacityNext
<1> QED
  BY <1>1, <1>2, PTL DEF Spec

LEMMA CapacitySays == ASSUME IsFiniteSet(Pairs), CapacityInv PROVE CapacityRespected
<1> DEFINE Holders == {p \in Pairs : (\E i \in Purchases(p) : Moving(p, i)) /\ Succeeded(p, Sales(p)) = {}}
<1>1. ASSUME NEW p \in Holders PROVE p \in Committed
  <2>1. Sales(p) = Side(trades[p], "SELL") /\ Purchases(p) = Side(trades[p], "BUY")
    BY AtCapacity, SidesOf
  <2>2. Bought(trades[p], chain[p])
    BY <2>1 DEF Bought, Moving, Simulation
  <2>3. ~Sold(trades[p], chain[p])
    BY <2>1 DEF Sold, Done, Succeeded, Simulation
  <2> QED
    BY <2>2, <2>3, CommittedIs, CommitsOf DEF PairCommits
<1>2. PICK C \in SUBSET Pairs : C = Committed
  BY CommittedPairs
<1>3. PICK D : D = Holders
  OBVIOUS
<1>4. D \in SUBSET C
  BY <1>1, <1>2, <1>3
<1>5. /\ Cardinality(D) <= Cardinality(C) /\ Cardinality(C) <= MaxPositions
      /\ Cardinality(D) \in Nat /\ Cardinality(C) \in Nat
  BY <1>2, <1>4, AtCapacity, FS_Subset, FS_CardinalityType
<1>6. Cardinality(D) <= MaxPositions
  BY <1>5, LifecycleAssumption
<1> QED
  BY <1>3, <1>6 DEF CapacityRespected

\* When every write succeeds, no more than MaxPositions pairs hold tokens or
\* have sent a transaction for some: the engine counts before it buys,
\* recovery before it buys again, and a session that was counted stays counted
\* until its tokens are sold or its purchase is known to have failed.
THEOREM CapacityIsRespected == ~StoreFaults /\ IsFiniteSet(Pairs) => (Spec => []CapacityRespected)
<1> SUFFICES ASSUME ~StoreFaults, IsFiniteSet(Pairs) PROVE Spec => []CapacityRespected
  OBVIOUS
<1>1. CapacityInv => CapacityRespected
  BY CapacitySays
<1>2. Spec => []CapacityInv
  BY CapacityInvariant
<1> QED
  BY <1>1, <1>2, PTL
==============================================================================
