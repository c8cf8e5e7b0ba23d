------------------------- MODULE TradeExecutorProofs -------------------------
(****************************************************************************)
(* The properties of TradeExecutor, for every set of pairs, every bound and *)
(* every caller.  ExecInv strengthens them with what an execution in memory *)
(* knows of its trade at each of its steps.                                 *)
(****************************************************************************)
EXTENDS TradeExecutor, SequenceTheorems, TLAPS

\* What holds of a trade of the database, whoever works on it.
Sound(trade, sent) ==
  /\ \A s \in Steps :
       /\ trade.tx[s] = "NONE" => sent[s] = "unsent"
       /\ trade.tx[s] = "CONFIRMED" => sent[s] = "success"
       /\ trade.tx[s] = "REVERTED" => sent[s] = "reverted"
       /\ trade.tx[s] = "REJECTED" => sent[s] = "unsent"
  /\ trade.status = "FAILED" => sent["main"] = "unsent" /\ sent["approve"] \in {"unsent", "success"}
  /\ sent["main"] # "unsent" => sent["approve"] \in {"unsent", "success"}

\* What an execution knows of the trade it works on.
Known(e, trade, sent) ==
  /\ e.pc = "queued" => trade.tx["approve"] = "CONFIRMED" /\ trade.tx["main"] = "NONE"
  /\ e.pc = "quote" => trade.tx["main"] = "NONE"
  /\ e.pc \in {"send", "sent", "wait", "mined"} /\ e.step = "approve" => trade.tx["main"] = "NONE"
  /\ e.pc = "quote" \/ (e.pc = "send" /\ e.step = "main") => sent["approve"] \in {"unsent", "success"}
  /\ e.pc = "send" =>
       /\ trade.status = "CREATED"
       /\ trade.tx[e.step] = "PENDING_BROADCAST"
       /\ sent[e.step] = "unsent"
  /\ e.pc = "mined" => sent[e.step] = "success"

TradesSound(p) == \A i \in DOMAIN trades[p] : Sound(trades[p][i], chain[p][i])
Knows(p) ==
  exec[p].trade # 0 =>
    Known(exec[p], trades[p][exec[p].trade], chain[p][exec[p].trade])

\* The inductive invariant.
ExecInv == ExecTypeOK /\ \A p \in Pairs : TradesSound(p) /\ Knows(p)
------------------------------------------------------------------------------
(* Updates of one element.                                                  *)

\* A function of sequences changed at one place.
LEMMA UpdateOne ==
  ASSUME NEW S, NEW f \in [Pairs -> Seq(S)], NEW p \in Pairs, NEW i \in DOMAIN f[p], NEW e \in S,
         NEW g, g = [f EXCEPT ![p] = [f[p] EXCEPT ![i] = e]]
  PROVE  /\ g \in [Pairs -> Seq(S)]
         /\ \A q \in Pairs : Len(g[q]) = Len(f[q]) /\ DOMAIN g[q] = DOMAIN f[q]
         /\ \A q \in Pairs : q # p => g[q] = f[q]
         /\ \A j \in DOMAIN f[p] : g[p][j] = IF j = i THEN e ELSE f[p][j]
<1>1. f[p] \in Seq(S) /\ i \in 1..Len(f[p])
  BY LenProperties
<1> DEFINE h == [f[p] EXCEPT ![i] = e]
<1>2. h \in Seq(S) /\ Len(h) = Len(f[p]) /\ \A j \in 1..Len(f[p]) : h[j] = IF j = i THEN e ELSE f[p][j]
  BY <1>1, ExceptSeq
<1>3. g[p] = h /\ \A q \in Pairs : q # p => g[q] = f[q]
  OBVIOUS
<1>4. g \in [Pairs -> Seq(S)]
  BY <1>2
<1> HIDE DEF h
<1>5. \A q \in Pairs : Len(g[q]) = Len(f[q])
  BY <1>2, <1>3
<1>6. \A q \in Pairs : DOMAIN g[q] = 1..Len(g[q]) /\ DOMAIN f[q] = 1..Len(f[q])
  BY <1>4, LenProperties
<1>7. \A j \in DOMAIN f[p] : g[p][j] = IF j = i THEN e ELSE f[p][j]
  BY <1>2, <1>3, <1>6
<1> QED
  BY <1>3, <1>4, <1>5, <1>6, <1>7

\* Writing what is there changes nothing.
LEMMA UpdateSame ==
  ASSUME NEW S, NEW f \in [Pairs -> Seq(S)], NEW p \in Pairs, NEW i
  PROVE  f = [f EXCEPT ![p] = [f[p] EXCEPT ![i] = f[p][i]]]
<1>1. f[p] = [f[p] EXCEPT ![i] = f[p][i]]
  BY LenProperties
<1> QED
  BY <1>1

\* A step that touches one trade and the execution of its pair keeps the
\* invariant if the trade stays sound and the execution knows it.
LEMMA OneTrade ==
  ASSUME ExecInv, NEW p \in Pairs, NEW t \in DOMAIN trades[p],
         NEW trade \in TradeRecord, NEW sent \in [Steps -> ChainStatus], NEW e \in ExecRecord,
         trades' = [trades EXCEPT ![p] = [trades[p] EXCEPT ![t] = trade]],
         chain' = [chain EXCEPT ![p] = [chain[p] EXCEPT ![t] = sent]],
         exec' = [exec EXCEPT ![p] = e],
         Sound(trade, sent),
         e.trade = t => Known(e, trade, sent),
         e.trade \in {0, t} \/ e = exec[p],
         e.pc \in {"none", "queued", "done"} \/ e.trade # 0
  PROVE  ExecInv'
<1> USE DEF ExecInv
<1>1. /\ trades \in [Pairs -> Seq(TradeRecord)]
      /\ chain \in [Pairs -> Seq([Steps -> ChainStatus])]
      /\ exec \in [Pairs -> ExecRecord]
      /\ \A q \in Pairs : Len(chain[q]) = Len(trades[q])
      /\ \A q \in Pairs : DOMAIN chain[q] = 1..Len(chain[q]) /\ DOMAIN trades[q] = 1..Len(trades[q])
  BY LenProperties DEF ExecTypeOK
<1>2. t \in DOMAIN chain[p]
  BY <1>1
<1>3. /\ trades' \in [Pairs -> Seq(TradeRecord)]
      /\ \A q \in Pairs : Len(trades'[q]) = Len(trades[q]) /\ DOMAIN trades'[q] = DOMAIN trades[q]
      /\ \A q \in Pairs : q # p => trades'[q] = trades[q]
      /\ \A j \in DOMAIN trades[p] : trades'[p][j] = IF j = t THEN trade ELSE trades[p][j]
  BY <1>1, UpdateOne
<1>4. /\ chain' \in [Pairs -> Seq([Steps -> ChainStatus])]
      /\ \A q \in Pairs : Len(chain'[q]) = Len(chain[q])
      /\ \A q \in Pairs : q # p => chain'[q] = chain[q]
      /\ \A j \in DOMAIN trades[p] : chain'[p][j] = IF j = t THEN sent ELSE chain[p][j]
  BY <1>1, <1>2, UpdateOne
<1>5. exec' \in [Pairs -> ExecRecord] /\ exec'[p] = e /\ \A q \in Pairs : q # p => exec'[q] = exec[q]
  BY <1>1
<1>6. ExecTypeOK'
  <2>1. \A q \in Pairs : exec'[q].trade <= Len(trades'[q])
    BY <1>1, <1>3, <1>5 DEF ExecTypeOK, ExecRecord
  <2>2. \A q \in Pairs : Executing(q)' => exec'[q].trade # 0
    BY <1>5 DEF ExecTypeOK, Executing
  <2> QED
    BY <1>1, <1>3, <1>4, <1>5, <2>1, <2>2 DEF ExecTypeOK
<1>7. ASSUME NEW q \in Pairs PROVE TradesSound(q)'
  BY <1>3, <1>4 DEF TradesSound
<1>8. ASSUME NEW q \in Pairs PROVE Knows(q)'
  <2>1. CASE q # p
    BY <2>1, <1>3, <1>4, <1>5 DEF Knows
  <2>2. CASE q = p /\ e.trade = t
    BY <2>2, <1>3, <1>4, <1>5 DEF Knows
  <2>3. CASE q = p /\ e.trade # t /\ e.trade # 0
    <3>1. e = exec[p] /\ e.trade \in DOMAIN trades[p]
      BY <2>3, <1>1 DEF ExecTypeOK, ExecRecord
    <3> QED
      BY <2>3, <3>1, <1>3, <1>4, <1>5 DEF Knows
  <2>4. CASE q = p /\ e.trade = 0
    BY <2>4, <1>5 DEF Knows
  <2> QED
    BY <2>1, <2>2, <2>3, <2>4
<1> QED
  BY <1>6, <1>7, <1>8
------------------------------------------------------------------------------
(* The steps of the executor.                                               *)

\* The trade an execution works on, with its types and what is known of it.
LEMMA AtWork ==
  ASSUME ExecInv, NEW p \in Pairs, exec[p].trade # 0
  PROVE  /\ exec[p].trade \in DOMAIN trades[p]
         /\ trades[p][exec[p].trade] \in TradeRecord
         /\ chain[p][exec[p].trade] \in [Steps -> ChainStatus]
         /\ exec[p] \in ExecRecord
         /\ Sound(trades[p][exec[p].trade], chain[p][exec[p].trade])
         /\ Known(exec[p], trades[p][exec[p].trade], chain[p][exec[p].trade])
<1>1. exec[p].trade \in Nat /\ exec[p].trade <= Len(trades[p]) /\ Len(chain[p]) = Len(trades[p])
  BY DEF ExecInv, ExecTypeOK, ExecRecord
<1>2. trades[p] \in Seq(TradeRecord) /\ chain[p] \in Seq([Steps -> ChainStatus]) /\ exec[p] \in ExecRecord
  BY DEF ExecInv, ExecTypeOK
<1>3. exec[p].trade \in 1..Len(trades[p]) /\ exec[p].trade \in 1..Len(chain[p])
  BY <1>1, <1>2, LenProperties
<1>4. exec[p].trade \in DOMAIN trades[p]
  BY <1>2, <1>3, LenProperties
<1> QED
  BY <1>2, <1>3, <1>4, ElementOfSeq DEF ExecInv, TradesSound, Knows

\* OneTrade for the trade at work, in the shapes the actions have.
LEMMA WorkStep ==
  ASSUME ExecInv, NEW p \in Pairs, exec[p].trade # 0,
         NEW trade \in TradeRecord, NEW sent \in [Steps -> ChainStatus], NEW e \in ExecRecord,
         \/ trades' = [trades EXCEPT ![p] = [trades[p] EXCEPT ![exec[p].trade] = trade]]
         \/ trades' = trades /\ trade = trades[p][exec[p].trade],
         \/ chain' = [chain EXCEPT ![p] = [chain[p] EXCEPT ![exec[p].trade] = sent]]
         \/ chain' = chain /\ sent = chain[p][exec[p].trade],
         exec' = [exec EXCEPT ![p] = e],
         e.trade = exec[p].trade,
         Sound(trade, sent),
         Known(e, trade, sent)
  PROVE  ExecInv'
<1>1. trades \in [Pairs -> Seq(TradeRecord)] /\ chain \in [Pairs -> Seq([Steps -> ChainStatus])]
  BY DEF ExecInv, ExecTypeOK
<1>2. trades' = [trades EXCEPT ![p] = [trades[p] EXCEPT ![exec[p].trade] = trade]]
  BY <1>1, UpdateSame
<1>3. chain' = [chain EXCEPT ![p] = [chain[p] EXCEPT ![exec[p].trade] = sent]]
  BY <1>1, UpdateSame
<1>4. exec[p].trade \in DOMAIN trades[p]
  BY AtWork
<1> QED
  BY <1>2, <1>3, <1>4, OneTrade

\* What Goto and Finish make of an execution.
LEMMA Moves ==
  ASSUME ExecInv, NEW p \in Pairs
  PROVE  /\ \A pc \in ExecPc : LET e == [exec[p] EXCEPT !.pc = pc] IN
              /\ Goto(p, pc) => exec' = [exec EXCEPT ![p] = e]
              /\ e \in ExecRecord /\ e.trade = exec[p].trade /\ e.step = exec[p].step /\ e.pc = pc
         /\ \A out \in Outcomes : LET e == [exec[p] EXCEPT !.pc = "done", !.outcome = out] IN
              /\ Finish(p, out) => exec' = [exec EXCEPT ![p] = e]
              /\ e \in ExecRecord /\ e.trade = exec[p].trade /\ e.pc = "done"
  BY DEF ExecInv, ExecTypeOK, ExecRecord, Goto, Finish, ExecPc

\* What Save makes of the trade at work.
LEMMA SaveWrites ==
  ASSUME ExecInv, NEW p \in Pairs, exec[p].trade # 0, NEW status \in TradeStatus, Save(p, status)
  PROVE  \E t \in TradeRecord :
           /\ trades' = [trades EXCEPT ![p] = [trades[p] EXCEPT ![exec[p].trade] = t]]
           /\ t.status = status /\ t.tx = trades[p][exec[p].trade].tx
           /\ t.side = trades[p][exec[p].trade].side /\ t.mode = trades[p][exec[p].trade].mode
<1> DEFINE t == [trades[p][exec[p].trade] EXCEPT !.status = status]
<1>1. trades[p][exec[p].trade] \in TradeRecord
  BY AtWork
<1>2. trades' = [trades EXCEPT ![p] = [trades[p] EXCEPT ![exec[p].trade] = t]]
  BY DEF Save
<1>3. /\ t \in TradeRecord /\ t.status = status /\ t.tx = trades[p][exec[p].trade].tx
      /\ t.side = trades[p][exec[p].trade].side /\ t.mode = trades[p][exec[p].trade].mode
  BY <1>1 DEF TradeRecord
<1> QED
  BY <1>2, <1>3

\* What SaveLifecycle makes of it.
LEMMA LifecycleWrites ==
  ASSUME ExecInv, NEW p \in Pairs, exec[p].trade # 0,
         NEW status \in TradeStatus, NEW tx \in TxStatus, SaveLifecycle(p, status, tx)
  PROVE  \E t \in TradeRecord :
           /\ trades' = [trades EXCEPT ![p] = [trades[p] EXCEPT ![exec[p].trade] = t]]
           /\ t.status = status
           /\ \A s \in Steps : t.tx[s] = IF s = exec[p].step THEN tx ELSE trades[p][exec[p].trade].tx[s]
           /\ t.side = trades[p][exec[p].trade].side /\ t.mode = trades[p][exec[p].trade].mode
<1> DEFINE old == trades[p][exec[p].trade]
           txs == [old.tx EXCEPT ![exec[p].step] = tx]
           t == [old EXCEPT !.status = status, !.tx = txs]
<1>1. old \in TradeRecord /\ exec[p].step \in Steps /\ exec[p].trade \in DOMAIN trades[p]
  BY AtWork DEF ExecRecord
<1>2. trades[p] \in Seq(TradeRecord) /\ trades \in [Pairs -> Seq(TradeRecord)]
  BY DEF ExecInv, ExecTypeOK
<1>3. txs \in [Steps -> TxStatus] /\ \A s \in Steps : txs[s] = IF s = exec[p].step THEN tx ELSE old.tx[s]
  BY <1>1 DEF TradeRecord
<1>4. t \in TradeRecord /\ t.status = status /\ t.tx = txs /\ t.side = old.side /\ t.mode = old.mode
  BY <1>1, <1>3 DEF TradeRecord
<1>5. trades' = [trades EXCEPT ![p] = [trades[p] EXCEPT ![exec[p].trade] = t]]
  BY <1>1, <1>2 DEF SaveLifecycle, TradeRecord
<1> QED
  BY <1>3, <1>4, <1>5

\* An execution that ends knows nothing any more: its trade must be sound.
LEMMA EndsSaved ==
  ASSUME ExecInv, NEW p \in Pairs, exec[p].trade # 0, NEW out \in Outcomes, Finish(p, out),
         NEW trade \in TradeRecord, NEW sent \in [Steps -> ChainStatus],
         \/ trades' = [trades EXCEPT ![p] = [trades[p] EXCEPT ![exec[p].trade] = trade]]
         \/ trades' = trades /\ trade = trades[p][exec[p].trade],
         \/ chain' = [chain EXCEPT ![p] = [chain[p] EXCEPT ![exec[p].trade] = sent]]
         \/ chain' = chain /\ sent = chain[p][exec[p].trade],
         Sound(trade, sent)
  PROVE  ExecInv'
<1> DEFINE e == [exec[p] EXCEPT !.pc = "done", !.outcome = out]
<1>1. exec' = [exec EXCEPT ![p] = e] /\ e \in ExecRecord /\ e.trade = exec[p].trade /\ e.pc = "done"
  BY Moves
<1> HIDE DEF e
<1>2. Known(e, trade, sent)
  BY <1>1 DEF Known
<1> QED
  BY <1>1, <1>2, WorkStep

\* Nothing is written.
LEMMA EndsUnsaved ==
  ASSUME ExecInv, NEW p \in Pairs, exec[p].trade # 0, NEW out \in Outcomes, Finish(p, out),
         trades' = trades, chain' = chain
  PROVE  ExecInv'
BY AtWork, EndsSaved

\* Only the status of the trade is written.
LEMMA EndsStatus ==
  ASSUME ExecInv, NEW p \in Pairs, exec[p].trade # 0, NEW out \in Outcomes, Finish(p, out),
         NEW status \in TradeStatus, Save(p, status), chain' = chain,
         status = "FAILED" =>
           /\ chain[p][exec[p].trade]["main"] = "unsent"
           /\ chain[p][exec[p].trade]["approve"] \in {"unsent", "success"}
  PROVE  ExecInv'
<1>1. PICK t \in TradeRecord :
        /\ trades' = [trades EXCEPT ![p] = [trades[p] EXCEPT ![exec[p].trade] = t]]
        /\ t.status = status /\ t.tx = trades[p][exec[p].trade].tx
  BY SaveWrites
<1>2. Sound(t, chain[p][exec[p].trade])
  BY <1>1, AtWork DEF Sound
<1> QED
  BY <1>1, <1>2, AtWork, EndsSaved

\* raiseUnknown, whatever the node has done with the transaction.
LEMMA RaisesUnknown ==
  ASSUME ExecInv, NEW p \in Pairs, exec[p].trade # 0, RaiseUnknown(p),
         NEW sent \in [Steps -> ChainStatus],
         \/ chain' = [chain EXCEPT ![p] = [chain[p] EXCEPT ![exec[p].trade] = sent]]
         \/ chain' = chain /\ sent = chain[p][exec[p].trade],
         Sound(trades[p][exec[p].trade], sent)
  PROVE  ExecInv'
<1>1. CASE NotSaved /\ Finish(p, "unknown")
  BY <1>1, AtWork, EndsSaved DEF NotSaved, Outcomes
<1>2. CASE SaveLifecycle(p, "UNKNOWN", "UNKNOWN") /\ Finish(p, "unknown")
  <2>1. "UNKNOWN" \in TradeStatus /\ "UNKNOWN" \in TxStatus
    BY DEF TradeStatus, TxStatus
  <2>2. PICK t \in TradeRecord :
          /\ trades' = [trades EXCEPT ![p] = [trades[p] EXCEPT ![exec[p].trade] = t]]
          /\ t.status = "UNKNOWN"
          /\ \A s \in Steps : t.tx[s] = IF s = exec[p].step THEN "UNKNOWN" ELSE trades[p][exec[p].trade].tx[s]
    BY <1>2, <2>1, LifecycleWrites
  <2>3. Sound(t, sent)
    BY <2>2 DEF Sound
  <2> QED
    BY <1>2, <2>2, <2>3, EndsSaved DEF Outcomes
<1> QED
  BY <1>1, <1>2 DEF RaiseUnknown
\* A trade is saved anew, or a recovered one is started again.
LEMMA StartKeeps == ASSUME ExecInv, NEW p \in Pairs, Start(p) PROVE ExecInv'
<1>1. CASE exec[p].trade # 0
  <2> DEFINE e == [exec[p] EXCEPT !.pc = "quote", !.trade = exec[p].trade]
  <2>1. exec' = [exec EXCEPT ![p] = e] /\ chain' = chain
    BY <1>1 DEF Start
  <2>2. e \in ExecRecord /\ e.trade = exec[p].trade /\ e.pc = "quote"
    BY <1>1, AtWork DEF ExecRecord, ExecPc
  <2>3. Save(p, "CREATED") /\ "CREATED" \in TradeStatus
    BY <1>1 DEF Start, Save, TradeStatus
  <2>4. PICK t \in TradeRecord :
          /\ trades' = [trades EXCEPT ![p] = [trades[p] EXCEPT ![exec[p].trade] = t]]
          /\ t.status = "CREATED" /\ t.tx = trades[p][exec[p].trade].tx
    BY <1>1, <2>3, SaveWrites
  <2> HIDE DEF e
  <2>5. Sound(t, chain[p][exec[p].trade])
    BY <1>1, <2>4, AtWork DEF Sound
  <2>6. Known(e, t, chain[p][exec[p].trade])
    BY <1>1, <2>2, <2>4, AtWork DEF Known, Sound, Steps, Start
  <2> QED
    BY <1>1, <2>1, <2>2, <2>4, <2>5, <2>6, AtWork, WorkStep
<1>2. CASE exec[p].trade = 0
  <2>0. PICK mode \in Modes :
          trades' = [trades EXCEPT ![p] = Append(@, NewTrade(exec[p].side, mode))]
    BY <1>2 DEF Start
  <2> DEFINE n == Len(trades[p]) + 1
             e == [exec[p] EXCEPT !.pc = "quote", !.trade = n]
             t == NewTrade(exec[p].side, mode)
  <2>1. /\ trades \in [Pairs -> Seq(TradeRecord)] /\ chain \in [Pairs -> Seq([Steps -> ChainStatus])]
        /\ trades[p] \in Seq(TradeRecord) /\ chain[p] \in Seq([Steps -> ChainStatus])
        /\ exec \in [Pairs -> ExecRecord]
        /\ Len(trades[p]) \in Nat /\ Len(chain[p]) = Len(trades[p])
    BY LenProperties DEF ExecInv, ExecTypeOK
  <2>2. t \in TradeRecord /\ Unsent \in [Steps -> ChainStatus]
    BY <2>1 DEF NewTrade, TradeRecord, ExecRecord, Unsent, TradeStatus, TxStatus, ChainStatus
  <2>3. t.tx["main"] = "NONE" /\ t.tx["approve"] = "NONE" /\ t.status = "CREATED"
        /\ Unsent["main"] = "unsent" /\ Unsent["approve"] = "unsent"
    BY DEF NewTrade, Unsent, Steps
  <2>4. Sound(t, Unsent) /\ (\A x \in ExecRecord : x.pc = "quote" => Known(x, t, Unsent))
    BY <2>3 DEF Sound, Known, Steps
  <2> HIDE DEF t
  <2>5. /\ trades' = [trades EXCEPT ![p] = Append(trades[p], t)]
        /\ chain' = [chain EXCEPT ![p] = Append(chain[p], Unsent)]
        /\ exec' = [exec EXCEPT ![p] = e]
    BY <1>2, <2>0 DEF Start, t
  <2>6. e \in ExecRecord /\ e.trade = n /\ e.pc = "quote" /\ n \in Nat /\ n # 0
    <3>1. n \in Nat /\ n # 0 /\ exec[p] \in ExecRecord
      BY <2>1
    <3> HIDE DEF n
    <3> QED
      BY <3>1 DEF ExecRecord, ExecPc
  <2> HIDE DEF e
  <2>7. /\ trades'[p] \in Seq(TradeRecord) /\ Len(trades'[p]) = n
        /\ \A i \in 1..Len(trades[p]) : trades'[p][i] = trades[p][i]
        /\ trades'[p][n] = t
    BY <2>1, <2>2, <2>5, AppendProperties
  <2>8. /\ chain'[p] \in Seq([Steps -> ChainStatus]) /\ Len(chain'[p]) = n
        /\ \A i \in 1..Len(trades[p]) : chain'[p][i] = chain[p][i]
        /\ chain'[p][n] = Unsent
    BY <2>1, <2>2, <2>5, AppendProperties
  <2>9. \A q \in Pairs : q # p => trades'[q] = trades[q] /\ chain'[q] = chain[q] /\ exec'[q] = exec[q]
    BY <2>1, <2>5
  <2>10. exec'[p] = e
    BY <2>1, <2>5
  <2>11. ExecTypeOK'
    <3>1. trades' \in [Pairs -> Seq(TradeRecord)] /\ chain' \in [Pairs -> Seq([Steps -> ChainStatus])]
      BY <2>1, <2>5, <2>7, <2>8
    <3>2. exec' \in [Pairs -> ExecRecord]
      BY <2>1, <2>5, <2>6
    <3>3. \A q \in Pairs : Len(chain'[q]) = Len(trades'[q]) /\ exec'[q].trade <= Len(trades'[q])
      <4>1. ASSUME NEW q \in Pairs, q # p
            PROVE  Len(chain'[q]) = Len(trades'[q]) /\ exec'[q].trade <= Len(trades'[q])
        BY <4>1, <2>9 DEF ExecInv, ExecTypeOK
      <4>2. Len(chain'[p]) = Len(trades'[p]) /\ exec'[p].trade <= Len(trades'[p])
        BY <2>6, <2>7, <2>8, <2>10
      <4> QED
        BY <4>1, <4>2
    <3>4. \A q \in Pairs : Executing(q)' => exec'[q].trade # 0
      BY <2>6, <2>9, <2>10 DEF ExecInv, ExecTypeOK, Executing
    <3> QED
      BY <3>1, <3>2, <3>3, <3>4 DEF ExecTypeOK
  <2>12. ASSUME NEW q \in Pairs PROVE TradesSound(q)' /\ Knows(q)'
    <3>1. CASE q # p
      BY <3>1, <2>9 DEF ExecInv, TradesSound, Knows
    <3>2. CASE q = p
      <4>1. DOMAIN trades'[p] = 1..n /\ DOMAIN trades[p] = 1..Len(trades[p])
        BY <2>1, <2>7, LenProperties
      <4>2. \A i \in 1..n : i \in 1..Len(trades[p]) \/ i = n
        BY <2>1
      <4>3. TradesSound(p)'
        BY <4>1, <4>2, <2>4, <2>7, <2>8 DEF ExecInv, TradesSound
      <4>4. Knows(p)'
        BY <2>4, <2>6, <2>7, <2>8, <2>10 DEF Knows
      <4> QED
        BY <3>2, <4>3, <4>4
    <3> QED
      BY <3>1, <3>2
  <2> QED
    BY <2>11, <2>12 DEF ExecInv
<1> QED
  BY <1>1, <1>2
\* The steps that end an execution before anything is prepared.
LEMMA NotStartedKeeps == ASSUME ExecInv, NEW p \in Pairs, NotStarted(p) PROVE ExecInv'
<1> DEFINE e == [exec[p] EXCEPT !.pc = "done", !.outcome = "plain"]
<1>1. /\ exec' = [exec EXCEPT ![p] = e] /\ e \in ExecRecord /\ e.trade = exec[p].trade /\ e.pc = "done"
      /\ trades' = trades /\ chain' = chain
  BY Moves DEF NotStarted, Outcomes
<1> HIDE DEF e
<1>2. CASE exec[p].trade # 0
  BY <1>2, EndsUnsaved DEF NotStarted, Outcomes
<1>3. CASE exec[p].trade = 0
  <2>1. ExecTypeOK'
    BY <1>1, <1>3 DEF ExecInv, ExecTypeOK, Executing
  <2>2. ASSUME NEW q \in Pairs PROVE TradesSound(q)' /\ Knows(q)'
    BY <1>1, <1>3 DEF ExecInv, ExecTypeOK, TradesSound, Knows
  <2> QED
    BY <2>1, <2>2 DEF ExecInv
<1> QED
  BY <1>2, <1>3

LEMMA WrongWalletKeeps == ASSUME ExecInv, NEW p \in Pairs, WrongWallet(p) PROVE ExecInv'
<1>1. exec[p].trade # 0 /\ chain' = chain
  BY DEF WrongWallet
<1>2. /\ chain[p][exec[p].trade]["main"] = "unsent"
      /\ chain[p][exec[p].trade]["approve"] \in {"unsent", "success"}
  BY <1>1, AtWork DEF WrongWallet, Known, Sound, Steps
<1>3. CASE Save(p, "FAILED") /\ Finish(p, "unsafe")
  BY <1>1, <1>2, <1>3, EndsStatus DEF Outcomes, TradeStatus
<1>4. CASE Save(p, "CREATED") /\ Finish(p, "plain")
  BY <1>1, <1>4, EndsStatus DEF Outcomes, TradeStatus
<1> QED
  BY <1>3, <1>4 DEF WrongWallet

\* An execution at its quote has sent no main transaction, and its approval,
\* if it has one, has succeeded.
LEMMA AtQuote ==
  ASSUME ExecInv, NEW p \in Pairs, exec[p].pc = "quote"
  PROVE  /\ exec[p].trade # 0
         /\ chain[p][exec[p].trade]["main"] = "unsent"
         /\ chain[p][exec[p].trade]["approve"] \in {"unsent", "success"}
<1>1. exec[p].trade # 0
  BY DEF ExecInv, ExecTypeOK, Executing
<1> QED
  BY <1>1, AtWork DEF Known, Sound, Steps

LEMMA AbandonKeeps == ASSUME ExecInv, NEW p \in Pairs, Abandon(p) PROVE ExecInv'
<1>1. CASE Save(p, "FAILED")
  BY <1>1, AtQuote, EndsStatus DEF Abandon, Outcomes, TradeStatus
<1>2. CASE NotSaved
  BY <1>2, AtQuote, EndsUnsaved DEF Abandon, NotSaved, Outcomes
<1> QED
  BY <1>1, <1>2 DEF Abandon

LEMMA SimulateKeeps == ASSUME ExecInv, NEW p \in Pairs, Simulate(p) PROVE ExecInv'
<1>1. CASE Save(p, "SIMULATED") /\ Finish(p, "ok")
  BY <1>1, AtQuote, EndsStatus DEF Simulate, Outcomes, TradeStatus
<1>2. CASE NotSaved /\ Finish(p, "plain")
  BY <1>2, AtQuote, EndsUnsaved DEF Simulate, NotSaved, Outcomes
<1> QED
  BY <1>1, <1>2 DEF Simulate

\* A transaction is prepared: it has never been sent.
LEMMA PrepareKeeps == ASSUME ExecInv, NEW p \in Pairs, Prepare(p) PROVE ExecInv'
<1>1. /\ exec[p].pc = "quote" /\ chain' = chain
      /\ \E step \in Steps :
           /\ step = "approve" => exec[p].side = "SELL" /\ trades[p][exec[p].trade].tx["approve"] = "NONE"
           /\ \/ /\ trades' = [trades EXCEPT ![p][exec[p].trade].status = "CREATED",
                                             ![p][exec[p].trade].tx[step] = "PENDING_BROADCAST"]
                 /\ exec' = [exec EXCEPT ![p].pc = "send", ![p].step = step]
              \/ /\ NotSaved \/ (step = "approve" /\ StoreFaults /\ Save(p, "FAILED"))
                 /\ Finish(p, "plain")
  BY DEF Prepare
<1>2. CASE NotSaved /\ Finish(p, "plain")
  BY <1>1, <1>2, AtQuote, EndsUnsaved DEF NotSaved, Outcomes
<1>3. CASE Save(p, "FAILED") /\ Finish(p, "plain")
  BY <1>1, <1>3, AtQuote, EndsStatus DEF Outcomes, TradeStatus
<1>4. ASSUME NEW step \in Steps,
             step = "approve" => trades[p][exec[p].trade].tx["approve"] = "NONE",
             trades' = [trades EXCEPT ![p][exec[p].trade].status = "CREATED",
                                      ![p][exec[p].trade].tx[step] = "PENDING_BROADCAST"],
             exec' = [exec EXCEPT ![p].pc = "send", ![p].step = step]
      PROVE  ExecInv'
  <2> DEFINE old == trades[p][exec[p].trade]
             sent == chain[p][exec[p].trade]
             txs == [old.tx EXCEPT ![step] = "PENDING_BROADCAST"]
             t == [old EXCEPT !.status = "CREATED", !.tx = txs]
             e == [exec[p] EXCEPT !.pc = "send", !.step = step]
  <2>1. /\ exec[p].trade # 0 /\ old \in TradeRecord /\ exec[p] \in ExecRecord
        /\ exec[p].trade \in DOMAIN trades[p] /\ sent \in [Steps -> ChainStatus]
    BY <1>1, AtQuote, AtWork
  <2>2. trades[p] \in Seq(TradeRecord) /\ trades \in [Pairs -> Seq(TradeRecord)]
    BY DEF ExecInv, ExecTypeOK
  <2>3. trades' = [trades EXCEPT ![p] = [trades[p] EXCEPT ![exec[p].trade] = t]]
    BY <1>4, <2>1, <2>2 DEF TradeRecord
  <2>4. txs \in [Steps -> TxStatus] /\ \A s \in Steps : txs[s] = IF s = step THEN "PENDING_BROADCAST" ELSE old.tx[s]
    BY <2>1 DEF TradeRecord, TxStatus
  <2>5. t \in TradeRecord /\ t.status = "CREATED" /\ t.tx = txs
    BY <2>1, <2>4 DEF TradeRecord, TradeStatus
  <2>6. exec' = [exec EXCEPT ![p] = e] /\ e \in ExecRecord /\ e.trade = exec[p].trade /\ e.pc = "send" /\ e.step = step
    BY <1>4, <2>1 DEF ExecRecord, ExecPc
  <2>7. old.tx["main"] = "NONE" /\ sent["main"] = "unsent" /\ sent["approve"] \in {"unsent", "success"}
        /\ Sound(old, sent)
    BY <1>1, <2>1, AtQuote, AtWork DEF Known
  <2> HIDE DEF t, e, txs, old, sent
  <2>8. sent[step] = "unsent"
    BY <1>4, <2>7 DEF Steps, Sound, old
  <2>9. Sound(t, sent)
    BY <2>4, <2>5, <2>7 DEF Sound
  <2>10. Known(e, t, sent)
    BY <2>4, <2>5, <2>6, <2>7, <2>8 DEF Known, Steps
  <2> QED
    BY <1>1, <2>1, <2>3, <2>5, <2>6, <2>9, <2>10, WorkStep DEF sent
<1> QED
  BY <1>1, <1>2, <1>3, <1>4
\* An execution that has prepared its transaction works on a trade.
LEMMA AtSend ==
  ASSUME ExecInv, NEW p \in Pairs, exec[p].pc \in {"send", "sent", "wait", "mined"}
  PROVE  exec[p].trade # 0 /\ exec[p].step \in Steps
<1>1. exec[p].trade # 0
  BY DEF ExecInv, ExecTypeOK, Executing
<1> QED
  BY <1>1, AtWork DEF ExecRecord

\* The node has, or may have, taken the transaction: its trade stays sound.
LEMMA Sending ==
  ASSUME ExecInv, NEW p \in Pairs, exec[p].pc = "send",
         chain' = [chain EXCEPT ![p][exec[p].trade][exec[p].step] = "pending"]
  PROVE  \E sent \in [Steps -> ChainStatus] :
           /\ chain' = [chain EXCEPT ![p] = [chain[p] EXCEPT ![exec[p].trade] = sent]]
           /\ \A s \in Steps : sent[s] = IF s = exec[p].step THEN "pending" ELSE chain[p][exec[p].trade][s]
           /\ Sound(trades[p][exec[p].trade], sent)
<1> DEFINE trade == trades[p][exec[p].trade]
           old == chain[p][exec[p].trade]
           sent == [old EXCEPT ![exec[p].step] = "pending"]
<1>1. /\ old \in [Steps -> ChainStatus] /\ exec[p].step \in Steps
      /\ Sound(trade, old) /\ Known(exec[p], trade, old)
  BY AtSend, AtWork
<1>2. /\ sent \in [Steps -> ChainStatus]
      /\ \A s \in Steps : sent[s] = IF s = exec[p].step THEN "pending" ELSE old[s]
  BY <1>1 DEF ChainStatus
<1>3. chain' = [chain EXCEPT ![p] = [chain[p] EXCEPT ![exec[p].trade] = sent]]
  OBVIOUS
<1> HIDE DEF trade, old, sent
<1>4. Sound(trade, sent)
  <2>1. CASE exec[p].step = "main"
    BY <1>1, <1>2, <2>1 DEF Sound, Known, Steps
  <2>2. CASE exec[p].step = "approve"
    BY <1>1, <1>2, <2>2 DEF Sound, Known, Steps
  <2> QED
    BY <1>1, <2>1, <2>2 DEF Steps
<1> QED
  BY <1>2, <1>3, <1>4 DEF trade, old

LEMMA SendAcceptedKeeps == ASSUME ExecInv, NEW p \in Pairs, SendAccepted(p) PROVE ExecInv'
<1> DEFINE e == [exec[p] EXCEPT !.pc = "sent"]
<1>1. exec[p].pc = "send" /\ trades' = trades /\ exec[p].trade # 0
  BY AtSend DEF SendAccepted
<1>2. PICK sent \in [Steps -> ChainStatus] :
        /\ chain' = [chain EXCEPT ![p] = [chain[p] EXCEPT ![exec[p].trade] = sent]]
        /\ Sound(trades[p][exec[p].trade], sent)
  BY Sending DEF SendAccepted
<1>3. exec' = [exec EXCEPT ![p] = e] /\ e \in ExecRecord /\ e.trade = exec[p].trade
      /\ e.pc = "sent" /\ e.step = exec[p].step
  BY Moves DEF SendAccepted, ExecPc
<1> HIDE DEF e
<1>4. Known(e, trades[p][exec[p].trade], sent)
  BY <1>1, <1>3, AtWork DEF Known
<1> QED
  BY <1>1, <1>2, <1>3, <1>4, AtWork, WorkStep

LEMMA SendRejectedKeeps == ASSUME ExecInv, NEW p \in Pairs, SendRejected(p) PROVE ExecInv'
<1> DEFINE trade == trades[p][exec[p].trade]
           sent == chain[p][exec[p].trade]
<1>1. /\ exec[p].pc = "send" /\ exec[p].trade # 0 /\ exec[p].step \in Steps
      /\ chain' = chain /\ Finish(p, "plain")
  BY AtSend DEF SendRejected
<1>2. sent \in [Steps -> ChainStatus] /\ Sound(trade, sent) /\ Known(exec[p], trade, sent)
  BY <1>1, AtWork
<1>3. sent["main"] = "unsent" /\ sent["approve"] \in {"unsent", "success"}
  BY <1>1, <1>2 DEF Sound, Known, Steps
<1>4. CASE SaveLifecycle(p, "FAILED", "REJECTED")
  <2>1. "FAILED" \in TradeStatus /\ "REJECTED" \in TxStatus /\ "plain" \in Outcomes
    BY DEF TradeStatus, TxStatus, Outcomes
  <2>2. PICK t \in TradeRecord :
          /\ trades' = [trades EXCEPT ![p] = [trades[p] EXCEPT ![exec[p].trade] = t]]
          /\ t.status = "FAILED"
          /\ \A s \in Steps : t.tx[s] = IF s = exec[p].step THEN "REJECTED" ELSE trade.tx[s]
    BY <1>1, <1>4, <2>1, LifecycleWrites
  <2>3. Sound(t, sent)
    BY <1>1, <1>2, <1>3, <2>2 DEF Sound, Known
  <2> QED
    BY <1>1, <1>2, <2>1, <2>2, <2>3, EndsSaved
<1>5. CASE NotSaved
  BY <1>1, <1>5, EndsUnsaved DEF NotSaved, Outcomes
<1>6. CASE Save(p, "FAILED")
  BY <1>1, <1>3, <1>6, EndsStatus DEF Outcomes, TradeStatus
<1> QED
  BY <1>4, <1>5, <1>6 DEF SendRejected

LEMMA SendAmbiguousKeeps == ASSUME ExecInv, NEW p \in Pairs, SendAmbiguous(p) PROVE ExecInv'
<1>1. exec[p].pc = "send" /\ exec[p].trade # 0 /\ RaiseUnknown(p)
  BY AtSend DEF SendAmbiguous
<1>2. CASE chain' = [chain EXCEPT ![p][exec[p].trade][exec[p].step] = "pending"]
  <2>1. PICK sent \in [Steps -> ChainStatus] :
          /\ chain' = [chain EXCEPT ![p] = [chain[p] EXCEPT ![exec[p].trade] = sent]]
          /\ Sound(trades[p][exec[p].trade], sent)
    BY <1>1, <1>2, Sending
  <2> QED
    BY <1>1, <2>1, RaisesUnknown
<1>3. CASE chain' = chain
  BY <1>1, <1>3, AtWork, RaisesUnknown
<1> QED
  BY <1>2, <1>3 DEF SendAmbiguous

LEMMA ReceiptTimeoutKeeps == ASSUME ExecInv, NEW p \in Pairs, ReceiptTimeout(p) PROVE ExecInv'
BY AtSend, AtWork, RaisesUnknown DEF ReceiptTimeout

LEMMA RecordBroadcastKeeps == ASSUME ExecInv, NEW p \in Pairs, RecordBroadcast(p) PROVE ExecInv'
<1> DEFINE trade == trades[p][exec[p].trade]
           sent == chain[p][exec[p].trade]
           e == [exec[p] EXCEPT !.pc = "wait"]
<1>1. exec[p].pc = "sent" /\ exec[p].trade # 0 /\ exec[p].step \in Steps /\ chain' = chain
  BY AtSend DEF RecordBroadcast
<1>2. sent \in [Steps -> ChainStatus] /\ Sound(trade, sent) /\ Known(exec[p], trade, sent)
  BY <1>1, AtWork
<1>3. CASE RaiseUnknown(p)
  BY <1>1, <1>2, <1>3, RaisesUnknown
<1>4. CASE SaveLifecycle(p, "SUBMITTED", "BROADCASTED") /\ Goto(p, "wait")
  <2>1. "SUBMITTED" \in TradeStatus /\ "BROADCASTED" \in TxStatus
    BY DEF TradeStatus, TxStatus
  <2>2. PICK t \in TradeRecord :
          /\ trades' = [trades EXCEPT ![p] = [trades[p] EXCEPT ![exec[p].trade] = t]]
          /\ t.status = "SUBMITTED"
          /\ \A s \in Steps : t.tx[s] = IF s = exec[p].step THEN "BROADCASTED" ELSE trade.tx[s]
    BY <1>1, <1>4, <2>1, LifecycleWrites
  <2>3. exec' = [exec EXCEPT ![p] = e] /\ e \in ExecRecord /\ e.trade = exec[p].trade
        /\ e.pc = "wait" /\ e.step = exec[p].step
    BY <1>4, Moves DEF ExecPc
  <2> HIDE DEF e
  <2>4. Sound(t, sent)
    BY <1>2, <2>2 DEF Sound
  <2>5. Known(e, t, sent)
    BY <1>1, <1>2, <2>2, <2>3 DEF Known, Steps
  <2> QED
    BY <1>1, <1>2, <2>2, <2>3, <2>4, <2>5, WorkStep
<1> QED
  BY <1>3, <1>4 DEF RecordBroadcast
LEMMA ReceiptSuccessKeeps == ASSUME ExecInv, NEW p \in Pairs, ReceiptSuccess(p) PROVE ExecInv'
<1> DEFINE trade == trades[p][exec[p].trade]
           sent == chain[p][exec[p].trade]
           e == [exec[p] EXCEPT !.pc = "mined"]
           status == IF exec[p].step = "main" THEN "SUBMITTED" ELSE "CREATED"
<1>1. /\ exec[p].pc = "wait" /\ exec[p].trade # 0 /\ exec[p].step \in Steps
      /\ sent[exec[p].step] = "success" /\ chain' = chain
  BY AtSend DEF ReceiptSuccess, OnChain
<1>2. sent \in [Steps -> ChainStatus] /\ Sound(trade, sent) /\ Known(exec[p], trade, sent)
  BY <1>1, AtWork
<1>3. CASE RaiseUnknown(p)
  BY <1>1, <1>2, <1>3, RaisesUnknown
<1>4. CASE SaveLifecycle(p, status, "CONFIRMED") /\ Goto(p, "mined")
  <2>1. status \in TradeStatus /\ "CONFIRMED" \in TxStatus /\ status # "FAILED"
    BY DEF TradeStatus, TxStatus
  <2> HIDE DEF status
  <2>2. PICK t \in TradeRecord :
          /\ trades' = [trades EXCEPT ![p] = [trades[p] EXCEPT ![exec[p].trade] = t]]
          /\ t.status = status
          /\ \A s \in Steps : t.tx[s] = IF s = exec[p].step THEN "CONFIRMED" ELSE trade.tx[s]
    BY <1>1, <1>4, <2>1, LifecycleWrites
  <2>3. exec' = [exec EXCEPT ![p] = e] /\ e \in ExecRecord /\ e.trade = exec[p].trade
        /\ e.pc = "mined" /\ e.step = exec[p].step
    BY <1>4, Moves DEF ExecPc
  <2> HIDE DEF e
  <2>4. Sound(t, sent)
    BY <1>1, <1>2, <2>1, <2>2 DEF Sound
  <2>5. Known(e, t, sent)
    BY <1>1, <1>2, <2>2, <2>3 DEF Known, Steps
  <2> QED
    BY <1>1, <1>2, <2>2, <2>3, <2>4, <2>5, WorkStep
<1> QED
  BY <1>3, <1>4 DEF ReceiptSuccess

LEMMA ReceiptRevertedKeeps == ASSUME ExecInv, NEW p \in Pairs, ReceiptReverted(p) PROVE ExecInv'
<1> DEFINE trade == trades[p][exec[p].trade]
           sent == chain[p][exec[p].trade]
<1>1. /\ exec[p].pc = "wait" /\ exec[p].trade # 0 /\ exec[p].step \in Steps
      /\ sent[exec[p].step] = "reverted" /\ chain' = chain
  BY AtSend DEF ReceiptReverted, OnChain
<1>2. sent \in [Steps -> ChainStatus] /\ Sound(trade, sent)
  BY <1>1, AtWork
<1>3. CASE RaiseUnknown(p)
  BY <1>1, <1>2, <1>3, RaisesUnknown
<1>4. CASE SaveLifecycle(p, "REVERTED", "REVERTED") /\ Finish(p, "plain")
  <2>1. "REVERTED" \in TradeStatus /\ "REVERTED" \in TxStatus /\ "plain" \in Outcomes
    BY DEF TradeStatus, TxStatus, Outcomes
  <2>2. PICK t \in TradeRecord :
          /\ trades' = [trades EXCEPT ![p] = [trades[p] EXCEPT ![exec[p].trade] = t]]
          /\ t.status = "REVERTED"
          /\ \A s \in Steps : t.tx[s] = IF s = exec[p].step THEN "REVERTED" ELSE trade.tx[s]
    BY <1>1, <1>4, <2>1, LifecycleWrites
  <2>3. Sound(t, sent)
    BY <1>1, <1>2, <2>2 DEF Sound
  <2> QED
    BY <1>1, <1>2, <1>4, <2>1, <2>2, <2>3, EndsSaved
<1> QED
  BY <1>3, <1>4 DEF ReceiptReverted

\* A measured approval brings the sale back to its quote.
LEMMA MeasureKeeps == ASSUME ExecInv, NEW p \in Pairs, Measure(p) PROVE ExecInv'
<1> DEFINE trade == trades[p][exec[p].trade]
           sent == chain[p][exec[p].trade]
           e == [exec[p] EXCEPT !.pc = "quote"]
<1>1. exec[p].pc = "mined" /\ exec[p].trade # 0 /\ exec[p].step \in Steps /\ chain' = chain
  BY AtSend DEF Measure
<1>2. sent \in [Steps -> ChainStatus] /\ Sound(trade, sent) /\ Known(exec[p], trade, sent)
  BY <1>1, AtWork
<1>3. CASE exec[p].step = "main"
  BY <1>1, <1>3, EndsStatus DEF Measure, Outcomes, TradeStatus
<1>4. CASE exec[p].step = "approve"
  <2>1. Save(p, "CREATED") /\ "CREATED" \in TradeStatus /\ Goto(p, "quote")
    BY <1>4 DEF Measure, TradeStatus
  <2>2. PICK t \in TradeRecord :
          /\ trades' = [trades EXCEPT ![p] = [trades[p] EXCEPT ![exec[p].trade] = t]]
          /\ t.status = "CREATED" /\ t.tx = trade.tx
    BY <1>1, <2>1, SaveWrites
  <2>3. exec' = [exec EXCEPT ![p] = e] /\ e \in ExecRecord /\ e.trade = exec[p].trade /\ e.pc = "quote"
    BY <2>1, Moves DEF ExecPc
  <2> HIDE DEF e
  <2>4. Sound(t, sent)
    BY <1>2, <2>2 DEF Sound
  <2>5. Known(e, t, sent)
    BY <1>1, <1>2, <1>4, <2>2, <2>3 DEF Known
  <2> QED
    BY <1>1, <1>2, <2>2, <2>3, <2>4, <2>5, WorkStep
<1> QED
  BY <1>1, <1>3, <1>4 DEF Steps

LEMMA MeasureFailedKeeps == ASSUME ExecInv, NEW p \in Pairs, MeasureFailed(p) PROVE ExecInv'
<1>1. exec[p].trade # 0 /\ chain' = chain /\ Finish(p, "measure") /\ "measure" \in Outcomes
  BY AtSend DEF MeasureFailed, Outcomes
<1>2. CASE NotSaved
  BY <1>1, <1>2, EndsUnsaved DEF NotSaved
<1>3. CASE Save(p, "UNKNOWN")
  BY <1>1, <1>3, EndsStatus DEF TradeStatus
<1>4. CASE Save(p, "CONFIRMED")
  BY <1>1, <1>4, EndsStatus DEF TradeStatus
<1> QED
  BY <1>2, <1>3, <1>4 DEF MeasureFailed

LEMMA ExecutorStepKeeps == ASSUME ExecInv, NEW p \in Pairs, ExecutorStep(p) PROVE ExecInv'
BY StartKeeps, NotStartedKeeps, WrongWalletKeeps, AbandonKeeps, SimulateKeeps, PrepareKeeps,
   SendAcceptedKeeps, SendRejectedKeeps, SendAmbiguousKeeps, RecordBroadcastKeeps,
   ReceiptSuccessKeeps, ReceiptRevertedKeeps, ReceiptTimeoutKeeps, MeasureKeeps, MeasureFailedKeeps
DEF ExecutorStep

------------------------------------------------------------------------------
(* The chain, the caller and the process.                                   *)

LEMMA MineKeeps == ASSUME ExecInv, NEW p \in Pairs, Mine(p) PROVE ExecInv'
<1>1. PICK i \in DOMAIN chain[p], step \in Steps, result \in {"success", "reverted"} :
        chain[p][i][step] = "pending" /\ chain' = [chain EXCEPT ![p][i][step] = result]
  BY DEF Mine
<1> DEFINE trade == trades[p][i]
           old == chain[p][i]
           sent == [old EXCEPT ![step] = result]
<1>2. /\ trades \in [Pairs -> Seq(TradeRecord)] /\ trades[p] \in Seq(TradeRecord)
      /\ chain[p] \in Seq([Steps -> ChainStatus]) /\ Len(chain[p]) = Len(trades[p])
      /\ exec \in [Pairs -> ExecRecord] /\ exec[p] \in ExecRecord
  BY DEF ExecInv, ExecTypeOK
<1>3. i \in DOMAIN trades[p] /\ i \in 1..Len(trades[p])
  BY <1>2, LenProperties
<1>4. trade \in TradeRecord /\ old \in [Steps -> ChainStatus]
  BY <1>2, <1>3, ElementOfSeq
<1>5. Sound(trade, old)
  BY <1>3 DEF ExecInv, TradesSound
<1>6. exec[p].trade = i => Known(exec[p], trade, old)
  BY <1>2, <1>3 DEF ExecInv, Knows
<1>7. /\ sent \in [Steps -> ChainStatus]
      /\ \A s \in Steps : sent[s] = IF s = step THEN result ELSE old[s]
  BY <1>1, <1>4 DEF ChainStatus
<1>8. chain' = [chain EXCEPT ![p] = [chain[p] EXCEPT ![i] = sent]]
  BY <1>1
<1>9. trades' = [trades EXCEPT ![p] = [trades[p] EXCEPT ![i] = trade]]
  BY <1>2, UpdateSame DEF Mine
<1>10. exec' = [exec EXCEPT ![p] = exec[p]]
  BY <1>2 DEF Mine
<1>11. old[step] = "pending"
  BY <1>1
<1> HIDE DEF trade, old, sent
<1>12. Sound(trade, sent)
  BY <1>5, <1>7, <1>11 DEF Sound, Steps
<1>13. exec[p].trade = i => Known(exec[p], trade, sent)
  <2>1. exec[p].step \in Steps
    BY <1>2 DEF ExecRecord
  <2> QED
    BY <2>1, <1>6, <1>7, <1>11 DEF Known, Steps
<1>14. exec[p].pc \in {"none", "queued", "done"} \/ exec[p].trade # 0
  BY DEF ExecInv, ExecTypeOK, Executing
<1> QED
  BY <1>2, <1>3, <1>4, <1>7, <1>8, <1>9, <1>10, <1>12, <1>13, <1>14, OneTrade

\* A step of the caller or of the process: executions that know their trade.
LEMMA ExecOnly ==
  ASSUME ExecInv, trades' = trades, chain' = chain, exec' \in [Pairs -> ExecRecord],
         \A p \in Pairs : exec'[p] = exec[p] \/ exec'[p].pc \in {"none", "queued"},
         \A p \in Pairs : exec'[p] # exec[p] =>
           exec'[p].trade = 0 \/ (exec'[p].trade \in DOMAIN trades[p] /\ Recoverable(p, exec'[p].trade))
  PROVE  ExecInv'
<1> USE DEF ExecInv
<1>1. \A p \in Pairs : trades[p] \in Seq(TradeRecord) /\ DOMAIN trades[p] = 1..Len(trades[p]) /\ Len(trades[p]) \in Nat
  BY LenProperties DEF ExecTypeOK
<1>2. ASSUME NEW p \in Pairs PROVE exec'[p].trade <= Len(trades'[p])
  <2>1. CASE exec'[p] = exec[p]
    BY <2>1 DEF ExecTypeOK
  <2>2. CASE exec'[p].trade = 0
    BY <1>1, <2>2
  <2>3. CASE exec'[p].trade \in DOMAIN trades[p]
    BY <1>1, <2>3
  <2> QED
    BY <2>1, <2>2, <2>3
<1>3. ASSUME NEW p \in Pairs, Executing(p)' PROVE exec'[p].trade # 0
  BY <1>3 DEF ExecTypeOK, Executing
<1>4. ExecTypeOK'
  BY <1>2, <1>3 DEF ExecTypeOK
<1>5. ASSUME NEW p \in Pairs PROVE TradesSound(p)' /\ Knows(p)'
  <2>1. TradesSound(p)'
    BY DEF TradesSound
  <2>2. CASE exec'[p] = exec[p]
    BY <2>1, <2>2 DEF Knows
  <2>3. CASE exec'[p] # exec[p]
    BY <2>1, <2>3 DEF Knows, Known, Recoverable
  <2> QED
    BY <2>2, <2>3
<1> QED
  BY <1>4, <1>5

LEMMA IdleTyped == Idle \in ExecRecord /\ Idle.pc = "none" /\ Idle.trade = 0
BY DEF Idle, ExecRecord, ExecPc, Sides, Steps, Outcomes

LEMMA AnyCallKeeps == ASSUME ExecInv, NEW p \in Pairs, AnyCall(p) PROVE ExecInv'
<1>1. PICK side \in Sides, i \in Nat :
        Call(p, side, i) /\ (i = 0 \/ (i \in DOMAIN trades[p] /\ Recoverable(p, i)))
  <2>1. DOMAIN trades[p] \subseteq Nat
    BY LenProperties DEF ExecInv, ExecTypeOK
  <2> QED
    BY <2>1 DEF AnyCall, Sides
<1> DEFINE e == [Idle EXCEPT !.pc = "queued", !.side = side, !.trade = i]
<1>2. e \in ExecRecord /\ e.pc = "queued" /\ e.trade = i
  BY IdleTyped DEF ExecRecord, ExecPc
<1>3. exec' = [exec EXCEPT ![p] = e] /\ exec \in [Pairs -> ExecRecord]
  BY <1>1 DEF Call, ExecInv, ExecTypeOK
<1> HIDE DEF e
<1> QED
  BY <1>1, <1>2, <1>3, ExecOnly DEF AnyCall

LEMMA AnyReturnKeeps == ASSUME ExecInv, NEW p \in Pairs, AnyReturn(p) PROVE ExecInv'
<1>1. exec' = [exec EXCEPT ![p] = Idle] /\ exec \in [Pairs -> ExecRecord]
  BY DEF AnyReturn, Return, ExecInv, ExecTypeOK
<1> QED
  BY <1>1, IdleTyped, ExecOnly DEF AnyReturn

LEMMA ExecutorCrashKeeps == ASSUME ExecInv, ExecutorCrash PROVE ExecInv'
BY IdleTyped, ExecOnly DEF ExecutorCrash

------------------------------------------------------------------------------
(* Theorems.                                                                *)

\* The inductive invariant holds of the executor with any caller.
THEOREM ExecutorInvariant == ExecSpec => []ExecInv
<1>1. ASSUME ExecInit PROVE ExecInv
  <2>1. ExecTypeOK
    BY <1>1, IdleTyped, EmptySeq DEF ExecInit, ExecTypeOK, Executing
  <2>2. ASSUME NEW p \in Pairs PROVE TradesSound(p) /\ Knows(p)
    BY <1>1, IdleTyped DEF ExecInit, TradesSound, Knows
  <2> QED
    BY <2>1, <2>2 DEF ExecInv
<1>2. ASSUME ExecInv, [ExecNext]_execVars PROVE ExecInv'
  <2>1. CASE UNCHANGED execVars
    BY <1>2, <2>1 DEF execVars, ExecInv, ExecTypeOK, Executing, TradesSound, Knows
  <2>2. CASE ExecNext
    BY <1>2, <2>2, ExecutorStepKeeps, MineKeeps, AnyCallKeeps, AnyReturnKeeps, ExecutorCrashKeeps DEF ExecNext
  <2> QED
    BY <1>2, <2>1, <2>2
<1> QED
  BY <1>1, <1>2, PTL DEF ExecSpec

\* Types, and an execution under way works on a trade of the database.
THEOREM ExecutorTyped == ExecSpec => []ExecTypeOK
<1>1. ExecInv => ExecTypeOK
  BY DEF ExecInv
<1> QED
  BY <1>1, ExecutorInvariant, PTL

\* What the invariant says of each trade.
LEMMA InvariantSays ==
  ExecInv => BroadcastRecorded /\ RecordsTruthful /\ FailedIsFinal /\ ApprovedFirst
BY DEF ExecInv, TradesSound, Sound, BroadcastRecorded, RecordsTruthful, FailedIsFinal, ApprovedFirst

\* submit saves before it sends: whatever fails and whenever the process
\* dies, a transaction the chain knows is in the database.
THEOREM NothingSentUnrecorded == ExecSpec => []BroadcastRecorded
BY InvariantSays, ExecutorInvariant, PTL

\* Confirmed, reverted and refused mean it: no error of the node or of the
\* database is saved as what the chain has not said.
THEOREM DatabaseTruthful == ExecSpec => []RecordsTruthful
BY InvariantSays, ExecutorInvariant, PTL

\* FAILED is final: such a trade has moved no token and never will.
THEOREM FailureFinal == ExecSpec => []FailedIsFinal
BY InvariantSays, ExecutorInvariant, PTL

\* A sale is sent after its approval has succeeded, recovered or not.
THEOREM ApprovalComesFirst == ExecSpec => []ApprovedFirst
BY InvariantSays, ExecutorInvariant, PTL

\* The database is typed and tells the truth about the chain, whatever fails.
THEOREM RecordsAreSound == ExecSpec => []RecordsSound
BY ExecutorTyped, DatabaseTruthful, FailureFinal, ApprovalComesFirst, PTL DEF RecordsSound

\* A step sends p the transaction it has prepared, or sends p nothing.
Sends(p) ==
  /\ exec[p].pc = "send"
  /\ chain' = [chain EXCEPT ![p][exec[p].trade][exec[p].step] = "pending"]

\* What is sent has just been prepared and saved, and was never sent before.
LEMMA SendsPrepared ==
  ASSUME ExecInv, NEW p \in Pairs, Sends(p),
         NEW q \in Pairs, NEW i \in DOMAIN trades[q], NEW s \in Steps,
         chain'[q][i][s] = "pending", chain[q][i][s] # "pending"
  PROVE  chain[q][i][s] = "unsent" /\ trades[q][i].tx[s] = "PENDING_BROADCAST"
<1>1. exec[p].trade # 0 /\ exec[p].step \in Steps
  BY AtSend DEF Sends
<1>2. Known(exec[p], trades[p][exec[p].trade], chain[p][exec[p].trade])
  BY <1>1, AtWork
<1>3. q = p /\ i = exec[p].trade /\ s = exec[p].step
  <2>1. /\ chain \in [Pairs -> Seq([Steps -> ChainStatus])]
        /\ chain[p] \in Seq([Steps -> ChainStatus]) /\ chain[q] \in Seq([Steps -> ChainStatus])
        /\ trades[q] \in Seq(TradeRecord) /\ Len(chain[q]) = Len(trades[q])
    BY DEF ExecInv, ExecTypeOK
  <2>2. i \in 1..Len(chain[q])
    BY <2>1, LenProperties
  <2>3. chain[q][i] \in [Steps -> ChainStatus]
    BY <2>1, <2>2, ElementOfSeq
  <2>4. PICK sent \in [Steps -> ChainStatus] :
          /\ chain' = [chain EXCEPT ![p] = [chain[p] EXCEPT ![exec[p].trade] = sent]]
          /\ \A x \in Steps : sent[x] = IF x = exec[p].step THEN "pending" ELSE chain[p][exec[p].trade][x]
    BY Sending DEF Sends
  <2>5. q # p => chain'[q] = chain[q]
    BY <2>1, <2>4
  <2>6. q = p
    BY <2>5
  <2>7. chain'[p] = [chain[p] EXCEPT ![exec[p].trade] = sent]
    BY <2>1, <2>4
  <2>8. i \in DOMAIN chain[p]
    BY <2>1, <2>2, <2>6, LenProperties
  <2>9. i # exec[p].trade => chain'[p][i] = chain[p][i]
    BY <2>7, <2>8
  <2>10. i = exec[p].trade
    BY <2>6, <2>9
  <2>11. chain'[p][i] = sent
    BY <2>7, <2>8, <2>10
  <2> QED
    BY <2>4, <2>6, <2>10, <2>11
<1> QED
  BY <1>2, <1>3 DEF Known, Sends

\* Every other step leaves the chain alone, adds a trade that has sent
\* nothing, or mines.
LEMMA OthersSendNothing ==
  ASSUME ExecInv, [ExecNext]_execVars, ~ \E p \in Pairs : Sends(p),
         NEW q \in Pairs, NEW i \in DOMAIN trades[q], NEW s \in Steps,
         chain'[q][i][s] = "pending"
  PROVE  chain[q][i][s] = "pending"
<1>1. /\ chain \in [Pairs -> Seq([Steps -> ChainStatus])]
      /\ trades \in [Pairs -> Seq(TradeRecord)]
      /\ \A p \in Pairs : Len(chain[p]) = Len(trades[p])
      /\ exec \in [Pairs -> ExecRecord]
  BY DEF ExecInv, ExecTypeOK
<1>2. chain[q] \in Seq([Steps -> ChainStatus]) /\ i \in 1..Len(chain[q]) /\ i \in DOMAIN chain[q]
  BY <1>1, LenProperties
<1>3. chain[q][i] \in [Steps -> ChainStatus]
  BY <1>2, ElementOfSeq
<1>4. CASE chain' = chain
  BY <1>4
<1>5. ASSUME NEW p \in Pairs, Start(p), chain' # chain PROVE chain[q][i][s] = "pending"
  <2>1. chain' = [chain EXCEPT ![p] = Append(chain[p], Unsent)]
    BY <1>5 DEF Start
  <2>2. Unsent \in [Steps -> ChainStatus] /\ chain[p] \in Seq([Steps -> ChainStatus])
    BY <1>1 DEF Unsent, ChainStatus
  <2>3. chain'[q][i] = chain[q][i]
    BY <1>1, <1>2, <2>1, <2>2, AppendProperties
  <2> QED
    BY <2>3
<1>6. ASSUME NEW p \in Pairs, Mine(p) PROVE chain[q][i][s] = "pending"
  <2>1. PICK j \in DOMAIN chain[p], step \in Steps, result \in {"success", "reverted"} :
          chain[p][j][step] = "pending" /\ chain' = [chain EXCEPT ![p][j][step] = result]
    BY <1>6 DEF Mine
  <2>2. q = p /\ i = j /\ s = step => chain'[q][i][s] = result
    BY <1>1, <1>2, <1>3, <2>1
  <2>3. ~(q = p /\ i = j /\ s = step) => chain'[q][i][s] = chain[q][i][s]
    BY <1>1, <1>2, <1>3, <2>1
  <2> QED
    BY <2>2, <2>3
<1>7. chain' = chain \/ (\E p \in Pairs : Start(p)) \/ (\E p \in Pairs : Mine(p))
  <2>1. CASE UNCHANGED execVars
    BY <2>1 DEF execVars
  <2>2. CASE ExecutorCrash
    BY <2>2 DEF ExecutorCrash
  <2>3. ASSUME NEW p \in Pairs, AnyCall(p) \/ AnyReturn(p) PROVE chain' = chain
    BY <2>3 DEF AnyCall, AnyReturn
  <2>4. ASSUME NEW p \in Pairs, ExecutorStep(p) PROVE chain' = chain \/ Start(p)
    <3>1. CASE NotStarted(p) \/ WrongWallet(p) \/ Abandon(p) \/ Simulate(p) \/ Prepare(p)
      BY <3>1 DEF NotStarted, WrongWallet, Abandon, Simulate, Prepare
    <3>2. CASE SendAccepted(p) \/ SendRejected(p) \/ SendAmbiguous(p) \/ RecordBroadcast(p)
      BY <3>2 DEF SendAccepted, SendRejected, SendAmbiguous, RecordBroadcast, Sends
    <3>3. CASE ReceiptSuccess(p) \/ ReceiptReverted(p) \/ ReceiptTimeout(p) \/ Measure(p) \/ MeasureFailed(p)
      BY <3>3 DEF ReceiptSuccess, ReceiptReverted, ReceiptTimeout, Measure, MeasureFailed
    <3> QED
      BY <2>4, <3>1, <3>2, <3>3 DEF ExecutorStep
  <2> QED
    BY <2>1, <2>2, <2>3, <2>4 DEF ExecNext
<1> QED
  BY <1>4, <1>5, <1>6, <1>7

\* No transaction is sent twice, nor after it was decided, refused or given
\* up: retries and recoveries send what they have prepared themselves.
THEOREM EachSentOnce == ExecSpec => SentOnce
<1> DEFINE Once == \A p \in Pairs : \A i \in DOMAIN trades[p], s \in Steps :
                     chain'[p][i][s] = "pending" /\ chain[p][i][s] # "pending" =>
                       chain[p][i][s] = "unsent" /\ trades[p][i].tx[s] = "PENDING_BROADCAST"
<1>1. ASSUME ExecInv, [ExecNext]_execVars,
             NEW q \in Pairs, NEW i \in DOMAIN trades[q], NEW s \in Steps,
             chain'[q][i][s] = "pending", chain[q][i][s] # "pending"
      PROVE  chain[q][i][s] = "unsent" /\ trades[q][i].tx[s] = "PENDING_BROADCAST"
  <2>1. CASE \E p \in Pairs : Sends(p)
    BY <1>1, <2>1, SendsPrepared
  <2>2. CASE ~ \E p \in Pairs : Sends(p)
    BY <1>1, <2>2, OthersSendNothing
  <2> QED
    BY <2>1, <2>2
<1>2. ExecInv /\ [ExecNext]_execVars => Once
  BY <1>1
<1> HIDE DEF Once
<1>3. ExecSpec => [][Once]_execVars
  BY <1>2, ExecutorInvariant, PTL DEF ExecSpec
<1> QED
  BY <1>3 DEF Once, SentOnce
==============================================================================
