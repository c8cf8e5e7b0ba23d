------------------------------ MODULE ExitPolicy ------------------------------
(****************************************************************************)
(* The exit policy of open positions: its settings and their revisions      *)
(* (position-exit-settings.provider.ts, position-exit.repository.ts), the   *)
(* pure evaluation (position-exit-evaluator.ts), the periodic pass that     *)
(* evaluates every position and takes up the open decisions                 *)
(* (position-exit-monitor.ts), and the exit that SessionEngine executes     *)
(* under the lock of the pair (session-engine.ts, requestPolicyExitLocked   *)
(* and performSell).  A pair is entered once: the entry in the key of a     *)
(* decision is left out.                                                    *)
(****************************************************************************)
EXTENDS Integers, Sequences, FiniteSets, FiniteSetsExt, SequencesExt

CONSTANTS
  Pairs,
  Policies,   \* the settings an operator may choose
  Default,    \* the settings of the configuration
  Markets,    \* what the gateways may answer about a position
  Bps,        \* basis points in a whole
  Cost,       \* entryCostWei
  Overlap,    \* may a position change between the monitor's load and its save?
  Moves, MaxBuys, Faults   \* bounds: changes of the world or the settings, buys, faults

VARIABLES
  history,    \* strategy_settings and its audit: the policy of each revision, from 0
  market, aged,
  session,    \* token_sessions
  decision,   \* position_exit_decisions, by idempotency key
  pass,       \* the pass of the monitor
  call,       \* the operation that holds the lock of a pair
  sold,       \* the chain: the decision that sold the position, NoKey for a human
  left

worldVars == <<market, aged>>
vars == <<history, worldVars, session, decision, pass, call, sold, left>>

ASSUME ExitAssumption ==
  /\ Default \in Policies /\ Bps \in Nat \ {0} /\ Cost \in Nat /\ Overlap \in BOOLEAN
  /\ {Moves, MaxBuys, Faults} \subseteq Nat
  /\ \A m \in Markets : /\ m.tax \in 0..Bps /\ m.probe \in {"SAFE", "BLOCKED", "UNKNOWN"}
                         /\ {m.quote, m.gas} \subseteq Nat /\ m.liquidity \in Nat \ {0}
  /\ \A pol \in Policies : /\ pol.drawdown < pol.activation /\ pol.buffer \in 0..Bps
                            /\ {pol.target, pol.gasRatio, pol.emergencyGas} \subseteq Nat

------------------------------------------------------------------------------
(* position-exit-evaluator.ts                                               *)

Reduced(value, bps) == (value * (Bps - bps)) \div Bps

PrudentNet(quote, tax, buffer, gas) ==
  Max({0, Reduced(Reduced(quote, tax), buffer) - gas})

ReachedLoss(now, reference, bps) == now * Bps <= reference * (Bps - bps)
ReachedGain(now, reference, bps) == now * Bps >= reference * (Bps + bps)

Peak(pol, memo, x) == IF pol.trailing THEN Max({memo.peak, x.net}) ELSE memo.peak
Armed(pol, memo, x) ==
  memo.armed \/ (pol.trailing /\ ReachedGain(x.net, Cost, pol.activation))

Rules == <<"SELLABILITY_UNCERTAIN", "SELLABILITY_BLOCKED", "LIQUIDITY_DROP", "STOP_LOSS",
           "MAX_HOLDING_TIME", "TRAILING_STOP", "TAKE_PROFIT", "TARGET_BUYS">>

Holds(rule, pol, memo, x, old, buys) ==
  CASE rule = "SELLABILITY_UNCERTAIN" -> x.probe = "UNKNOWN"
    [] rule = "SELLABILITY_BLOCKED" -> x.probe = "BLOCKED"
    [] rule = "LIQUIDITY_DROP" ->
         memo.ref # 0 /\ ReachedLoss(x.liquidity, memo.ref, pol.liquidityDrop)
    [] rule = "STOP_LOSS" -> ReachedLoss(x.net, Cost, pol.stopLoss)
    [] rule = "MAX_HOLDING_TIME" -> old
    [] rule = "TRAILING_STOP" ->
         /\ pol.trailing /\ Armed(pol, memo, x)
         /\ ReachedLoss(x.net, Peak(pol, memo, x), pol.drawdown)
    [] rule = "TAKE_PROFIT" -> ~pol.trailing /\ ReachedGain(x.net, Cost, pol.takeProfit)
    [] rule = "TARGET_BUYS" -> buys >= pol.target

Hold == [action |-> "HOLD", rule |-> "none"]
Review(rule) == [action |-> "MANUAL_REVIEW", rule |-> rule]

\* The first rule in order decides; the gas may turn a sale into a review.
Verdict(pol, memo, x, old, buys) ==
  LET triggered == {i \in DOMAIN Rules : Holds(Rules[i], pol, memo, x, old, buys)}
      first == Rules[Min(triggered)]
  IN CASE triggered = {} -> Hold
       [] triggered # {} /\ first \in {"SELLABILITY_UNCERTAIN", "SELLABILITY_BLOCKED"} ->
            Review(first)
       [] triggered # {} /\ first = "LIQUIDITY_DROP" ->
            IF x.gas > pol.emergencyGas THEN Review("EMERGENCY_GAS_EXCEEDED")
            ELSE [action |-> "EMERGENCY_SELL", rule |-> first]
       [] OTHER ->
            IF x.net = 0 \/ x.gas * Bps > x.net * pol.gasRatio THEN Review("GAS_RATIO_EXCEEDED")
            ELSE [action |-> "SELL", rule |-> first]

\* Faulty variant: the peak is the last value.
RememberedAnew(pol, memo, x) ==
  [ref |-> IF memo.ref = 0 THEN x.liquidity ELSE memo.ref,
   peak |-> x.net, armed |-> Armed(pol, memo, x), probe |-> x.probe, tax |-> x.tax]

\* The monitoring state after an evaluation; a reference of 0 is none yet.
Remembered(pol, memo, x) ==
  [ref |-> IF memo.ref = 0 THEN x.liquidity ELSE memo.ref,
   peak |-> Peak(pol, memo, x), armed |-> Armed(pol, memo, x),
   probe |-> x.probe, tax |-> x.tax]

\* PositionMetricsService.collect; a probe that fails leaves the last tax.
Metrics(pol, memo, m, asked) ==
  LET due == asked \/ memo.probe = "none"
      probe == IF due THEN m.probe ELSE memo.probe
      tax == IF due /\ m.probe # "UNKNOWN" THEN m.tax ELSE memo.tax
  IN [net |-> PrudentNet(m.quote, tax, pol.buffer, m.gas), liquidity |-> m.liquidity,
      gas |-> m.gas, probe |-> probe, tax |-> tax]

------------------------------------------------------------------------------

Revision == Len(history) - 1
PolicyOf(revision) == history[revision + 1]

NoKey == <<>>
Unsold == <<"no">>

\* Faulty variant: the key names the revision that comes next.
KeyAhead(p, revision, rule) == <<p, revision + 1, rule>>

Key(p, revision, rule) == <<p, revision, rule>>
NoMemo == [ref |-> 0, peak |-> 0, armed |-> FALSE, probe |-> "none", tax |-> Bps]
Opened == [status |-> "HOLDING", exit |-> FALSE, unresolved |-> FALSE, quarantined |-> FALSE,
           buys |-> 0, memo |-> NoMemo]
NoCall == [pc |-> "idle", by |-> "none", key |-> NoKey]
NoPass == [pc |-> "idle", open |-> <<>>, copies |-> <<>>, at |-> NoKey]

Init ==
  /\ history = <<Default>>
  /\ market \in [Pairs -> Markets] /\ aged = {}
  /\ session = [p \in Pairs |-> Opened]
  /\ decision = <<>>
  /\ pass = NoPass /\ call = [p \in Pairs |-> NoCall]
  /\ sold = [p \in Pairs |-> Unsold]
  /\ left = [moves |-> Moves, faults |-> Faults]

Spend(of) == left[of] > 0 /\ left' = [left EXCEPT ![of] = @ - 1]

------------------------------------------------------------------------------
(* The world, and the operator.                                             *)

MoveMarket(p) ==
  /\ Spend("moves")
  /\ \E m \in Markets \ {market[p]} : market' = [market EXCEPT ![p] = m]
  /\ UNCHANGED <<history, aged, session, decision, pass, call, sold>>

\* maxHoldingMinutes have passed.
Age(p) ==
  /\ p \notin aged /\ aged' = aged \cup {p} /\ Spend("moves")
  /\ UNCHANGED <<history, market, session, decision, pass, call, sold>>

\* saveSettings and resetSettings: a revision of its own, whatever its content;
\* with another expected revision nothing changes.
SaveSettings ==
  /\ Spend("moves")
  /\ \E pol \in Policies : history' = Append(history, pol)
  /\ UNCHANGED <<worldVars, session, decision, pass, call, sold>>

ResetSettings ==
  /\ 0 < Revision /\ Spend("moves")
  /\ history' = Append(history, history[1])
  /\ UNCHANGED <<worldVars, session, decision, pass, call, sold>>

------------------------------------------------------------------------------
(* Decisions: createDecision and transitionDecision.                        *)

Created(k, action) ==
  [j \in DOMAIN decision \cup {k} |->
     IF j \in DOMAIN decision THEN decision[j] ELSE [status |-> "PENDING", action |-> action]]

Transition(k, expected, next) ==
  IF k = NoKey \/ decision[k].status # expected THEN decision
  ELSE [decision EXCEPT ![k].status = next]

Recoverable == {k \in DOMAIN decision : decision[k].status \in {"PENDING", "EXECUTING"}}

------------------------------------------------------------------------------
(* PositionExitMonitor: one pass.                                           *)

PassStart ==
  /\ pass.pc = "idle"
  /\ pass' = [NoPass EXCEPT !.pc = "open",
                            !.open = [k \in Recoverable |-> decision[k].status]]
  /\ UNCHANGED <<history, worldVars, session, decision, call, sold, left>>

Without(f, x) == [y \in DOMAIN f \ {x} |-> f[y]]

\* Faulty variants: a sale that is under way is taken for one that has failed; a sale
\* that has failed is never tried again.
TakenForFailed(s) == ~s.unresolved
NeverRequeued(s) == FALSE

\* The position is back after a sale that came to nothing.
Requeues(s) == s.status = "HOLDING" /\ ~s.unresolved

\* reconcilePendingDecisions: one decision, as it was listed.
TakeUp(k) ==
  /\ pass.pc = "open" /\ pass.at = NoKey /\ k \in DOMAIN pass.open
  /\ LET s == session[k[1]]
         holding == s.status = "HOLDING"
         skip == pass' = [pass EXCEPT !.open = Without(@, k)]
         ask == pass' = [pass EXCEPT !.open = Without(@, k), !.at = k]
     IN \/ /\ pass.open[k] = "PENDING" /\ holding
           /\ ask /\ UNCHANGED decision
        \/ /\ pass.open[k] = "PENDING" /\ ~holding
           /\ skip /\ decision' = Transition(k, "PENDING", "SUPERSEDED")
        \/ /\ pass.open[k] = "EXECUTING" /\ Requeues(s)
           /\ decision' = Transition(k, "EXECUTING", "PENDING")
           /\ IF decision[k].status = "EXECUTING" THEN ask ELSE skip
        \/ /\ pass.open[k] = "EXECUTING" /\ s.status = "CLOSED" /\ s.exit
           /\ skip /\ decision' = Transition(k, "EXECUTING", "EXECUTED")
        \/ /\ pass.open[k] = "EXECUTING"
           /\ ~Requeues(s) /\ ~(s.status = "CLOSED" /\ s.exit)
           /\ skip /\ UNCHANGED decision
  /\ UNCHANGED <<history, worldVars, session, call, sold, left>>

LoadHolding ==
  /\ pass.pc = "open" /\ pass.at = NoKey /\ pass.open = <<>>
  /\ Overlap \/ \A p \in Pairs : call[p].pc = "idle"
  /\ pass' = [pass EXCEPT !.pc = "holding",
                 !.copies = [p \in {q \in Pairs : session[q].status = "HOLDING"} |-> session[p]]]
  /\ UNCHANGED <<history, worldVars, session, decision, call, sold, left>>

\* evaluateSession, on the copy that the pass has loaded: what it saves is the copy.
Evaluate(p, asked) ==
  /\ pass.pc = "holding" /\ pass.at = NoKey /\ p \in DOMAIN pass.copies
  /\ LET copy == pass.copies[p]
         pol == PolicyOf(Revision)
         x == Metrics(pol, copy.memo, market[p], asked)
         v == Verdict(pol, copy.memo, x, p \in aged, copy.buys)
         k == Key(p, Revision, v.rule)
         acts == market[p].readable /\ v.action # "HOLD"
     IN /\ session' = [session EXCEPT ![p] =
             IF market[p].readable
             THEN [copy EXCEPT !.memo = Remembered(pol, @, x)] ELSE copy]
        /\ decision' = IF acts THEN Created(k, v.action) ELSE decision
        /\ pass' = [pass EXCEPT !.copies = Without(@, p), !.at = IF acts THEN k ELSE NoKey]
  /\ UNCHANGED <<history, worldVars, call, sold, left>>

\* requestPolicyExit takes the lock and reads the session again.
AskExit ==
  /\ pass.at # NoKey /\ \A p \in Pairs : call[p].by # "monitor"
  /\ call[pass.at[1]].pc = "idle"
  /\ call' = [call EXCEPT ![pass.at[1]] = [pc |-> "check", by |-> "monitor", key |-> pass.at]]
  /\ UNCHANGED <<history, worldVars, session, decision, pass, sold, left>>

PassEnd ==
  /\ pass.pc = "holding" /\ pass.at = NoKey /\ pass.copies = <<>>
  /\ pass' = NoPass
  /\ UNCHANGED <<history, worldVars, session, decision, call, sold, left>>

------------------------------------------------------------------------------
(* SessionEngine: what holds the lock of a pair.                            *)

\* The position is not between the monitor's load and its save.
Free(p) == call[p].pc = "idle" /\ (Overlap \/ p \notin DOMAIN pass.copies)

\* Faulty variant: a pass that throws is not followed by another one.
LastPass(p, throws) ==
  /\ call' = [call EXCEPT ![p] = NoCall]
  /\ pass' = IF call[p].by # "monitor" THEN pass
             ELSE IF throws THEN [NoPass EXCEPT !.pc = "ended"] ELSE [pass EXCEPT !.at = NoKey]

\* The end of a call; when it throws, the pass goes on with the next position, but
\* not with the next open decision.
Finish(p, throws) ==
  /\ call' = [call EXCEPT ![p] = NoCall]
  /\ pass' = IF call[p].by # "monitor" THEN pass
             ELSE IF throws /\ pass.pc = "open" THEN NoPass ELSE [pass EXCEPT !.at = NoKey]

\* onSwap: a buy after the entry; from the target of the settings in force on (the copy
\* of it in the session is refreshed first), it evaluates the position.
Buy(p) ==
  /\ Free(p) /\ session[p].status = "HOLDING" /\ session[p].buys < MaxBuys
  /\ LET s == [session[p] EXCEPT !.buys = @ + 1]
         pol == PolicyOf(Revision)
         x == Metrics(pol, s.memo, market[p], TRUE)
         v == Verdict(pol, s.memo, x, p \in aged, s.buys)
         k == Key(p, Revision, v.rule)
         evaluates == s.buys >= pol.target /\ market[p].readable
         acts == evaluates /\ v.action # "HOLD"
     IN /\ session' = [session EXCEPT ![p] =
             IF evaluates THEN [s EXCEPT !.memo = Remembered(pol, @, x)] ELSE s]
        /\ decision' = IF acts THEN Created(k, v.action) ELSE decision
        /\ call' = IF acts THEN [call EXCEPT ![p] = [pc |-> "check", by |-> "swap", key |-> k]]
                   ELSE call
  /\ UNCHANGED <<history, worldVars, pass, sold, left>>

\* sellManually: not while a sale is to be reconciled.
SellManually(p) ==
  /\ Free(p) /\ ~session[p].exit /\ ~session[p].unresolved
  /\ session[p].status \in {"HOLDING", "MANUAL_REVIEW"}
  /\ session' = [session EXCEPT ![p].status = "SELL_PENDING"]
  /\ call' = [call EXCEPT ![p] = [pc |-> "selling", by |-> "human", key |-> NoKey]]
  /\ UNCHANGED <<history, worldVars, decision, pass, sold, left>>

Asked(p) == call[p].key
Status(p) == decision[Asked(p)].status

Pending(p) == Status(p) = "PENDING"

\* Faulty variant: the session is not read again under the lock.
OpenWhenAsked(p) == TRUE

OpenPosition(p) == session[p].status = "HOLDING" /\ ~session[p].exit

\* requestPolicyExitLocked, up to the measure.
Check(p) ==
  /\ call[p].pc = "check"
  /\ LET open == OpenPosition(p)
         current == Asked(p)[2] = Revision
     IN IF open /\ Pending(p) /\ current
        THEN /\ call' = [call EXCEPT ![p].pc = "probe"]
             /\ UNCHANGED <<pass, decision>>
        ELSE /\ Finish(p, FALSE)
             /\ decision' = IF open /\ ~Pending(p) THEN decision
                            ELSE Transition(Asked(p), "PENDING", "SUPERSEDED")
  /\ UNCHANGED <<history, worldVars, session, sold, left>>

\* Faulty variant: the measure that is repeated decides nothing.
ClaimsAnyway(p, v) == TRUE

Claims(p, v) == v.action = decision[Asked(p)].action

\* The measure under the same settings with a probe, and what it leads to.
Revalidate(p) ==
  /\ call[p].pc = "probe"
  /\ LET pol == PolicyOf(Asked(p)[2])
         s == session[p]
         x == Metrics(pol, s.memo, market[p], TRUE)
         v == Verdict(pol, s.memo, x, p \in aged, s.buys)
         seen == [s EXCEPT !.memo = Remembered(pol, @, x)]
     IN \/ /\ ~market[p].readable /\ Finish(p, TRUE) /\ UNCHANGED <<session, decision>>
        \/ /\ market[p].readable /\ v.action = "MANUAL_REVIEW"
           /\ decision' = Transition(Asked(p), "PENDING", "MANUAL_REVIEW")
           /\ session' = [session EXCEPT ![p] = [seen EXCEPT !.status = "MANUAL_REVIEW"]]
           /\ Finish(p, FALSE)
        \/ /\ market[p].readable /\ v.action # "MANUAL_REVIEW" /\ ~Claims(p, v)
           /\ decision' = Transition(Asked(p), "PENDING", "SUPERSEDED")
           /\ session' = [session EXCEPT ![p] = seen]
           /\ Finish(p, FALSE)
        \/ /\ market[p].readable /\ v.action # "MANUAL_REVIEW" /\ Claims(p, v)
           /\ decision' = Transition(Asked(p), "PENDING", "EXECUTING")
           /\ IF Pending(p)
              THEN /\ session' = [session EXCEPT ![p] = [seen EXCEPT !.status = "SELL_PENDING"]]
                   /\ call' = [call EXCEPT ![p].pc = "selling"] /\ UNCHANGED pass
              ELSE Finish(p, FALSE) /\ UNCHANGED session
  /\ UNCHANGED <<history, worldVars, sold, left>>

\* performSell: the sale is confirmed and saved.
Sell(p) ==
  /\ call[p].pc = "selling" /\ sold[p] = Unsold
  /\ sold' = [sold EXCEPT ![p] = Asked(p)]
  /\ session' = [session EXCEPT ![p].status = "CLOSED", ![p].exit = TRUE]
  /\ call' = [call EXCEPT ![p].pc = "settle"]
  /\ UNCHANGED <<history, worldVars, decision, pass, left>>

\* The sale fails: nothing was sent, it reverted, or the position is gone already.
SaleFails(p) ==
  /\ call[p].pc = "selling"
  /\ IF sold[p] = Unsold THEN Spend("faults") ELSE UNCHANGED left
  /\ session' = [session EXCEPT ![p].status = "MANUAL_REVIEW"]
  /\ decision' = Transition(Asked(p), "EXECUTING", "FAILED")
  /\ Finish(p, FALSE)
  /\ UNCHANGED <<history, worldVars, sold>>

\* The sale is confirmed, and the save of CLOSED fails: handled as a failed sale.
ClosingFails(p) ==
  /\ call[p].pc = "selling" /\ sold[p] = Unsold /\ Spend("faults")
  /\ sold' = [sold EXCEPT ![p] = Asked(p)]
  /\ session' = [session EXCEPT ![p].status = "MANUAL_REVIEW", ![p].exit = TRUE]
  /\ decision' = Transition(Asked(p), "EXECUTING", "FAILED")
  /\ Finish(p, FALSE)
  /\ UNCHANGED <<history, worldVars>>

\* Faulty variant: a missing receipt counts as a failed sale.
UnresolvedAsFailed(p) ==
  /\ call[p].pc = "selling" /\ sold[p] = Unsold /\ Spend("faults")
  /\ \E who \in {Unsold, Asked(p)} : sold' = [sold EXCEPT ![p] = who]
  /\ session' = [session EXCEPT ![p].status = "MANUAL_REVIEW", ![p].unresolved = TRUE]
  /\ decision' = Transition(Asked(p), "EXECUTING", "FAILED")
  /\ Finish(p, FALSE)
  /\ UNCHANGED <<history, worldVars>>

\* No receipt: the reference is kept, and the decision with it.
SaleUnresolved(p) ==
  /\ call[p].pc = "selling" /\ sold[p] = Unsold /\ Spend("faults")
  /\ \E who \in {Unsold, Asked(p)} : sold' = [sold EXCEPT ![p] = who]
  /\ session' = [session EXCEPT ![p].status = "MANUAL_REVIEW", ![p].unresolved = TRUE]
  /\ Finish(p, FALSE)
  /\ UNCHANGED <<history, worldVars, decision>>

Settle(p) ==
  /\ call[p].pc = "settle"
  /\ decision' = Transition(Asked(p), "EXECUTING", "EXECUTED")
  /\ Finish(p, FALSE)
  /\ UNCHANGED <<history, worldVars, session, sold, left>>

------------------------------------------------------------------------------
(* Recovery, alone under the barrier, and the fresh start.                  *)

Recover(p) ==
  /\ pass.pc = "idle" /\ \A q \in Pairs : call[q].pc = "idle"
  /\ session[p].status = "MANUAL_REVIEW" /\ session[p].unresolved /\ ~session[p].quarantined
  /\ session' = [session EXCEPT ![p].unresolved = FALSE, ![p].exit = sold[p] # Unsold,
                   ![p].status = IF sold[p] = Unsold THEN "HOLDING" ELSE "CLOSED"]
  /\ UNCHANGED <<history, worldVars, decision, pass, call, sold, left>>

\* A crash; the fresh start of the next process puts every open session under review,
\* unless an earlier one has, and every open decision.
Restart ==
  /\ Spend("faults")
  /\ \E landed \in SUBSET {p \in Pairs : call[p].pc = "selling" /\ sold[p] = Unsold} :
       sold' = [p \in Pairs |-> IF p \in landed THEN Asked(p) ELSE sold[p]]
  /\ session' = [p \in Pairs |->
                   IF session[p].status = "CLOSED" \/ session[p].quarantined THEN session[p]
                   ELSE [session[p] EXCEPT !.status = "MANUAL_REVIEW", !.quarantined = TRUE]]
  /\ decision' = [k \in DOMAIN decision |->
                    IF k \in Recoverable THEN [decision[k] EXCEPT !.status = "MANUAL_REVIEW"]
                    ELSE decision[k]]
  /\ pass' = NoPass /\ call' = [p \in Pairs |-> NoCall]
  /\ UNCHANGED <<history, worldVars>>

World == ResetSettings \/ SaveSettings \/ \E p \in Pairs : MoveMarket(p) \/ Age(p)
Monitoring ==
  \/ PassStart \/ LoadHolding \/ AskExit \/ PassEnd
  \/ \E k \in DOMAIN pass.open : TakeUp(k)
  \/ \E p \in Pairs, asked \in BOOLEAN : Evaluate(p, asked)
Calling(p) == Check(p) \/ Revalidate(p) \/ Sell(p) \/ Settle(p) \/ (sold[p] # Unsold /\ SaleFails(p))
Failing(p) == SaleFails(p) \/ ClosingFails(p) \/ SaleUnresolved(p)

Next ==
  \/ World \/ Monitoring \/ Restart
  \/ \E p \in Pairs : Calling(p) \/ Failing(p) \/ Buy(p) \/ SellManually(p) \/ Recover(p)

Spec == Init /\ [][Next]_vars

\* Promises resolve, the timer of the monitor and the interval of recovery come
\* again, and the interval of the probe elapses.
Fairness ==
  /\ WF_vars(Monitoring) /\ \A p \in Pairs : WF_vars(Calling(p))
  /\ \A p \in Pairs : SF_vars(Evaluate(p, TRUE)) /\ SF_vars(Recover(p))

FairSpec == Spec /\ Fairness

------------------------------------------------------------------------------
(* Properties.                                                              *)

Statuses == {"PENDING", "EXECUTING", "EXECUTED", "FAILED", "MANUAL_REVIEW", "SUPERSEDED"}
AllRules == Range(Rules) \cup {"EMERGENCY_GAS_EXCEEDED", "GAS_RATIO_EXCEEDED"}

Memos == [ref : Nat, peak : Nat, armed : BOOLEAN,
          probe : {"none", "SAFE", "BLOCKED", "UNKNOWN"}, tax : 0..Bps]
Sessions == [status : {"HOLDING", "SELL_PENDING", "CLOSED", "MANUAL_REVIEW"},
             exit : BOOLEAN, unresolved : BOOLEAN, quarantined : BOOLEAN,
             buys : 0..MaxBuys, memo : Memos]
Decisions == [status : Statuses, action : {"SELL", "EMERGENCY_SELL", "MANUAL_REVIEW"}]
Calls(keys) == [pc : {"idle", "check", "probe", "selling", "settle"},
                by : {"none", "monitor", "swap", "human"}, key : keys \cup {NoKey}]

\* Every variable holds a value of its kind; the key of a decision names a revision
\* that existed when it was taken, and a call is about its own pair
\* (position_exit_decisions, token_sessions).
ExitTypeOK ==
  /\ history \in Seq(Policies) /\ Revision \in 0..Moves
  /\ market \in [Pairs -> Markets] /\ aged \subseteq Pairs
  /\ session \in [Pairs -> Sessions]
  /\ DOMAIN decision \subseteq Pairs \X (0..Revision) \X AllRules
  /\ \A k \in DOMAIN decision : decision[k] \in Decisions
  /\ call \in [Pairs -> Calls(DOMAIN decision)]
  /\ \A p \in Pairs : Asked(p) # NoKey => Asked(p)[1] = p
  /\ \A p \in Pairs : call[p].pc \in {"check", "probe"} => Asked(p) # NoKey
  /\ sold \in [Pairs -> {Unsold, NoKey} \cup DOMAIN decision]
  /\ pass.pc \in {"idle", "open", "holding"} /\ pass.at \in DOMAIN decision \cup {NoKey}
  /\ DOMAIN pass.open \subseteq DOMAIN decision
  /\ DOMAIN pass.copies \subseteq Pairs
  /\ \A p \in DOMAIN pass.copies : pass.copies[p] \in Sessions
  /\ left \in [moves : 0..Moves, faults : 0..Faults]

\* While the monitor saves no stale copy, no sale of the policy is under way for a
\* position that is sold already, whoever asked for it first: the swap that counts
\* the target buy, the periodic pass, a human, or the pass after a recovery.
SoldOnce ==
  \A p \in Pairs :
    ~Overlap /\ call[p].pc = "selling" /\ Asked(p) # NoKey => sold[p] = Unsold

\* A decision says what became of its sale: EXECUTED only for a position that is sold
\* with its exit saved; FAILED never while its own sale has reached the chain and the
\* exit is not known.
DecisionTruth ==
  \A k \in DOMAIN decision :
    /\ decision[k].status = "EXECUTED" => sold[k[1]] # Unsold /\ session[k[1]].exit
    /\ decision[k].status = "FAILED" /\ sold[k[1]] = k => session[k[1]].exit

\* While a sale of the policy is under way its decision is EXECUTING, so that whatever
\* comes after a failure or a crash can find it.
SaleRecorded ==
  \A p \in Pairs : call[p].pc = "selling" /\ Asked(p) # NoKey => Status(p) = "EXECUTING"

\* The decisions are typed and say what is, and what became, of their sales.
DecisionsSound == ExitTypeOK /\ DecisionTruth /\ SaleRecorded

\* Reasons to sell, each in its own terms: the liquidity has fallen from the first one
\* seen by the share the settings tolerate, or the gas is small against a positive net
\* value and a rule on the value, the age or the buys is met.
Fallen(pol, memo, x) == memo.ref # 0 /\ ReachedLoss(x.liquidity, memo.ref, pol.liquidityDrop)

Reason(action, pol, memo, x, old, buys) ==
  \/ action = "EMERGENCY_SELL" /\ Fallen(pol, memo, x) /\ x.gas <= pol.emergencyGas
  \/ /\ action = "SELL" /\ ~Fallen(pol, memo, x)
     /\ x.net > 0 /\ x.gas * Bps <= x.net * pol.gasRatio
     /\ \E rule \in {"STOP_LOSS", "MAX_HOLDING_TIME", "TRAILING_STOP", "TAKE_PROFIT", "TARGET_BUYS"} :
          Holds(rule, pol, memo, x, old, buys)

\* When a sale of the policy starts, whatever has changed since it was decided: its
\* decision is open and was taken under a revision that has been in force, the position
\* is held and can be sold, and its value has, under that revision, the very reason
\* that the decision has recorded, an emergency or a common sale.
SoldForReason ==
  [][\A p \in Pairs :
       LET k == call'[p].key IN
       call[p].pc # "selling" /\ call'[p].pc = "selling" /\ k # NoKey =>
         /\ decision[k].status = "PENDING" /\ k[2] \in 0..Revision
         /\ session[p].status = "HOLDING" /\ ~session[p].exit
         /\ LET pol == PolicyOf(k[2])
                x == Metrics(pol, session[p].memo, market[p], TRUE)
            IN /\ market[p].readable /\ x.probe = "SAFE"
               /\ Reason(decision[k].action, pol, session[p].memo, x, p \in aged,
                         session[p].buys)]_vars

\* What the evaluation has learnt of a position is never lost: the peak does not fall,
\* the trailing stop stays armed, the reference liquidity stays the first one, through
\* passes, target buys, changed settings, sales that fail and restarts.
PeakKept ==
  [][\A p \in Pairs :
       ~Overlap => /\ session'[p].memo.peak >= session[p].memo.peak
                   /\ session[p].memo.armed => session'[p].memo.armed
                   /\ session[p].memo.ref # 0 => session'[p].memo.ref = session[p].memo.ref]_vars

\* Is a position open that the settings want sold, or reviewed, as things are now?
Warranted(p) ==
  LET pol == PolicyOf(Revision)
      x == Metrics(pol, session[p].memo, market[p], TRUE)
  IN /\ session[p].status = "HOLDING" /\ market[p].readable
     /\ Verdict(pol, session[p].memo, x, p \in aged, session[p].buys).action # "HOLD"

\* The rule that would decide has decided before under these settings, to no avail.
Burnt(p) ==
  LET pol == PolicyOf(Revision)
      x == Metrics(pol, session[p].memo, market[p], TRUE)
      k == Key(p, Revision, Verdict(pol, session[p].memo, x, p \in aged, session[p].buys).rule)
  IN k \in DOMAIN decision /\ decision[k].status # "PENDING"

\* An open decision of a position that cannot be measured ends every pass.
Blocked == \E k \in Recoverable : session[k[1]].status = "HOLDING" /\ ~market[k[1]].readable

\* A position that its rules want out of is not kept for ever: it is sold or put under
\* review, unless the rule has been used up for this revision or another position
\* stops the passes.
ExitServed ==
  \A p \in Pairs : []<>~(Warranted(p) /\ ~Burnt(p) /\ ~Blocked)

\* Every open decision comes to an end, through failed sales, missing receipts, restarts
\* and changed settings, while all positions can be measured; one whose sale has begun
\* may wait as long as its position is under review.
DecisionsSettle ==
  \A p \in Pairs :
    []<>(Blocked \/ \A k \in Recoverable :
                      k[1] = p => /\ decision[k].status = "EXECUTING"
                                  /\ session[p].status = "MANUAL_REVIEW")

\* What the rules ask for is done, and what is decided comes to an end.
ExitsSettle == ExitServed /\ DecisionsSettle
==============================================================================
