-------------------------- MODULE ExitPolicyProofs ---------------------------
(****************************************************************************)
(* What holds of the exit policy for every set of positions, every settings *)
(* and every market: decisions that say what became of their sales, one     *)
(* sale of a position, made for the reason that decided it, and a memory of *)
(* the position that is never lost.                                         *)
(****************************************************************************)
EXTENDS ExitPolicy, TLAPS

------------------------------------------------------------------------------
(* The evaluation.                                                          *)

LEMMA MaxOfTwo ==
  ASSUME NEW i \in Int, NEW j \in Int
  PROVE  Max({i, j}) \in {i, j} /\ Max({i, j}) >= i /\ Max({i, j}) >= j
<1>1. \E x \in {i, j} : \A y \in {i, j} : x >= y
  OBVIOUS
<1> QED  BY <1>1 DEF Max

LEMMA ReducedInt ==
  ASSUME NEW v \in Int, NEW b \in Int PROVE Reduced(v, b) \in Int
<1>1. /\ Bps \in Nat \ {0}
  BY ExitAssumption
<1> QED  BY <1>1 DEF Reduced

LEMMA PrudentNetNat ==
  ASSUME NEW quote \in Int, NEW tax \in Int, NEW buffer \in Int, NEW gas \in Int
  PROVE  PrudentNet(quote, tax, buffer, gas) \in Nat
<1> DEFINE i == Reduced(Reduced(quote, tax), buffer) - gas
<1>1. i \in Int
  <2>1. PICK r : r = Reduced(quote, tax)
    OBVIOUS
  <2>2. r \in Int
    BY <2>1, ReducedInt
  <2>3. PICK q : q = Reduced(r, buffer)
    OBVIOUS
  <2>4. q \in Int
    BY <2>2, <2>3, ReducedInt
  <2> QED  BY <2>1, <2>3, <2>4
<1> HIDE DEF i
<1>2. Max({0, i}) \in {0, i} /\ Max({0, i}) >= 0
  BY <1>1, MaxOfTwo
<1>3. Max({0, i}) \in Nat
  BY <1>1, <1>2
<1> QED  BY <1>3 DEF PrudentNet, i

Measures == [net : Nat, liquidity : Nat \ {0}, gas : Nat,
             probe : {"SAFE", "BLOCKED", "UNKNOWN"}, tax : 0..Bps]

LEMMA MetricsTyped ==
  ASSUME NEW pol \in Policies, NEW memo \in Memos, NEW m \in Markets, NEW asked \in BOOLEAN
  PROVE  Metrics(pol, memo, m, asked) \in Measures
<1> DEFINE due == asked \/ memo.probe = "none"
           probe == IF due THEN m.probe ELSE memo.probe
           tax == IF due /\ m.probe # "UNKNOWN" THEN m.tax ELSE memo.tax
<1>1. /\ Bps \in Nat \ {0} /\ m.tax \in 0..Bps /\ m.probe \in {"SAFE", "BLOCKED", "UNKNOWN"}
      /\ m.quote \in Nat /\ m.gas \in Nat /\ m.liquidity \in Nat \ {0} /\ pol.buffer \in 0..Bps
  BY ExitAssumption
<1>2. probe \in {"SAFE", "BLOCKED", "UNKNOWN"} /\ tax \in 0..Bps
  BY <1>1 DEF Memos
<1> HIDE DEF probe, tax
<1>3. PrudentNet(m.quote, tax, pol.buffer, m.gas) \in Nat
  <2>1. PICK q, t, b, g : q = m.quote /\ t = tax /\ b = pol.buffer /\ g = m.gas
    OBVIOUS
  <2>2. q \in Int /\ t \in Int /\ b \in Int /\ g \in Int
    BY <1>1, <1>2, <2>1
  <2>3. PrudentNet(q, t, b, g) \in Nat
    BY <2>2, PrudentNetNat
  <2> QED  BY <2>1, <2>3
<1>4. Metrics(pol, memo, m, asked) =
        [net |-> PrudentNet(m.quote, tax, pol.buffer, m.gas), liquidity |-> m.liquidity,
         gas |-> m.gas, probe |-> probe, tax |-> tax]
  BY DEF Metrics, probe, tax
<1> QED  BY <1>1, <1>2, <1>3, <1>4 DEF Measures

LEMMA PeakGrows ==
  ASSUME NEW pol, NEW memo \in Memos, NEW x \in Measures
  PROVE  Peak(pol, memo, x) \in Nat /\ Peak(pol, memo, x) >= memo.peak
<1>1. memo.peak \in Nat /\ x.net \in Nat
  BY DEF Memos, Measures
<1>2. /\ Max({memo.peak, x.net}) \in {memo.peak, x.net}
      /\ Max({memo.peak, x.net}) >= memo.peak
  <2>1. PICK i, j : i = memo.peak /\ j = x.net
    OBVIOUS
  <2>2. i \in Int /\ j \in Int
    BY <1>1, <2>1
  <2>3. Max({i, j}) \in {i, j} /\ Max({i, j}) >= i
    BY <2>2, MaxOfTwo
  <2> QED  BY <2>1, <2>3
<1> QED  BY <1>1, <1>2 DEF Peak

\* What an evaluation remembers is typed, and nothing it knew is lost.
Learnt(old, new) ==
  /\ new.peak >= old.peak
  /\ old.armed => new.armed
  /\ old.ref # 0 => new.ref = old.ref

LEMMA RememberedKeeps ==
  ASSUME NEW pol \in Policies, NEW memo \in Memos, NEW x \in Measures
  PROVE  Remembered(pol, memo, x) \in Memos /\ Learnt(memo, Remembered(pol, memo, x))
<1>1. Peak(pol, memo, x) \in Nat /\ Peak(pol, memo, x) >= memo.peak
  BY PeakGrows
<1>2. Armed(pol, memo, x) \in BOOLEAN /\ (memo.armed => Armed(pol, memo, x))
  BY DEF Armed, Memos
<1>3. /\ memo.ref \in Nat /\ x.liquidity \in Nat /\ x.probe \in {"SAFE", "BLOCKED", "UNKNOWN"}
      /\ x.tax \in 0..Bps
  BY DEF Memos, Measures
<1>4. PICK peak, armed : peak = Peak(pol, memo, x) /\ armed = Armed(pol, memo, x)
  OBVIOUS
<1>5. Remembered(pol, memo, x) =
        [ref |-> IF memo.ref = 0 THEN x.liquidity ELSE memo.ref, peak |-> peak, armed |-> armed,
         probe |-> x.probe, tax |-> x.tax]
  BY <1>4 DEF Remembered
<1>6. peak \in Nat /\ peak >= memo.peak /\ armed \in BOOLEAN /\ (memo.armed => armed)
  BY <1>1, <1>2, <1>4
<1> QED  BY <1>3, <1>5, <1>6 DEF Memos, Learnt

Outcomes == [action : {"HOLD", "SELL", "EMERGENCY_SELL", "MANUAL_REVIEW"},
             rule : AllRules \cup {"none"}]

LEMMA MinOfEight ==
  ASSUME NEW S \in SUBSET (1..8), S # {}
  PROVE  Min(S) \in S /\ \A j \in S : Min(S) =< j
<1>1. PICK i \in S : i \in 1..8
  OBVIOUS
<1>2. \E m \in S : \A j \in S : m =< j
  <2>1. CASE 1 \in S
    BY <2>1
  <2>2. CASE 1 \notin S /\ 2 \in S
    BY <2>2
  <2>3. CASE 1 \notin S /\ 2 \notin S /\ 3 \in S
    BY <2>3
  <2>4. CASE S \cap {1, 2, 3} = {} /\ 4 \in S
    BY <2>4
  <2>5. CASE S \cap {1, 2, 3, 4} = {} /\ 5 \in S
    BY <2>5
  <2>6. CASE S \cap {1, 2, 3, 4, 5} = {} /\ 6 \in S
    BY <2>6
  <2>7. CASE S \cap {1, 2, 3, 4, 5, 6} = {} /\ 7 \in S
    BY <2>7
  <2>8. CASE S \cap {1, 2, 3, 4, 5, 6, 7} = {}
    BY <1>1, <2>8
  <2> QED  BY <2>1, <2>2, <2>3, <2>4, <2>5, <2>6, <2>7, <2>8
<1> QED  BY <1>2 DEF Min

LEMMA VerdictTyped ==
  ASSUME NEW pol, NEW memo, NEW x, NEW old, NEW buys
  PROVE  /\ Verdict(pol, memo, x, old, buys) \in Outcomes
         /\ Verdict(pol, memo, x, old, buys).action # "HOLD" =>
              Verdict(pol, memo, x, old, buys).rule \in AllRules
<1> DEFINE triggered == {i \in DOMAIN Rules : Holds(Rules[i], pol, memo, x, old, buys)}
           first == Rules[Min(triggered)]
           v == Verdict(pol, memo, x, old, buys)
<1>1. DOMAIN Rules = 1..8
  BY DEF Rules
<1>2. triggered # {} => first \in AllRules
  <2>1. triggered \subseteq 1..8
    BY <1>1
  <2> HIDE DEF triggered
  <2> SUFFICES ASSUME triggered # {} PROVE first \in AllRules
    OBVIOUS
  <2>2. Min(triggered) \in 1..8
    BY <2>1, MinOfEight
  <2>3. \A i \in 1..8 : Rules[i] \in Range(Rules)
    BY <1>1 DEF Range
  <2> QED  BY <2>2, <2>3 DEF AllRules
<1> HIDE DEF first
<1>3. v \in {Hold, Review("SELLABILITY_UNCERTAIN")} \cup
           {Review(r) : r \in AllRules} \cup
           {[action |-> a, rule |-> r] : a \in {"SELL", "EMERGENCY_SELL"}, r \in AllRules}
  <2>1. CASE triggered = {}
    BY <2>1 DEF Verdict
  <2>2. CASE triggered # {}
    <3>1. {"EMERGENCY_GAS_EXCEEDED", "GAS_RATIO_EXCEEDED"} \subseteq AllRules
      BY DEF AllRules
    <3>2. first \in AllRules
      BY <1>2, <2>2
    <3>3. v \in {Review(first), Review("EMERGENCY_GAS_EXCEEDED"), Review("GAS_RATIO_EXCEEDED"),
                 [action |-> "EMERGENCY_SELL", rule |-> first], [action |-> "SELL", rule |-> first]}
      BY <2>2 DEF Verdict, first
    <3> HIDE DEF v
    <3> QED  BY <3>1, <3>2, <3>3
  <2> QED  BY <2>1, <2>2
<1>4. "SELLABILITY_UNCERTAIN" \in AllRules
  BY DEF AllRules, Range, Rules
<1> HIDE DEF v
<1>5. v \in Outcomes /\ (v.action # "HOLD" => v.rule \in AllRules)
  BY <1>3, <1>4 DEF Hold, Review, Outcomes
<1> QED  BY <1>5 DEF v
------------------------------------------------------------------------------
(* Decisions.                                                               *)

DecisionsTyped(d, revision) ==
  /\ DOMAIN d \subseteq Pairs \X (0..revision) \X AllRules
  /\ \A k \in DOMAIN d : d[k] \in Decisions

LEMMA KeysAreKeys ==
  ASSUME NEW revision, NEW k \in Pairs \X (0..revision) \X AllRules
  PROVE  k # NoKey /\ k # Unsold /\ k[1] \in Pairs /\ k[2] \in 0..revision
<1>1. PICK p \in Pairs, r \in 0..revision, rule \in AllRules : k = <<p, r, rule>>
  OBVIOUS
<1>2. Len(<<p, r, rule>>) = 3 /\ Len(NoKey) = 0 /\ Len(Unsold) = 1
  BY DEF NoKey, Unsold
<1> QED  BY <1>1, <1>2

\* One decision moves from one status to another, if it has that status.
MovesOne(d, e, k, from, to) ==
  /\ DOMAIN e = DOMAIN d
  /\ \A j \in DOMAIN d :
       e[j] = IF j = k /\ d[j].status = from THEN [d[j] EXCEPT !.status = to] ELSE d[j]

LEMMA TransitionMoves ==
  ASSUME NEW revision, DecisionsTyped(decision, revision),
         NEW k \in DOMAIN decision \cup {NoKey}, NEW from, NEW to
  PROVE  MovesOne(decision, Transition(k, from, to), k, from, to)
<1>1. \A j \in DOMAIN decision : j # NoKey
  BY KeysAreKeys DEF DecisionsTyped
<1>2. CASE k = NoKey
  BY <1>1, <1>2 DEF MovesOne, Transition
<1>3. CASE k # NoKey /\ decision[k].status # from
  BY <1>3 DEF MovesOne, Transition
<1>4. CASE k # NoKey /\ decision[k].status = from
  <2>1. k \in DOMAIN decision
    BY <1>4
  <2>2. Transition(k, from, to) = [decision EXCEPT ![k] = [decision[k] EXCEPT !.status = to]]
    BY <1>4 DEF Transition
  <2> QED  BY <1>4, <2>1, <2>2 DEF MovesOne
<1> QED  BY <1>2, <1>3, <1>4

LEMMA MovedTyped ==
  ASSUME NEW d, NEW e, NEW k, NEW from, NEW to \in Statuses, NEW revision,
         DecisionsTyped(d, revision), MovesOne(d, e, k, from, to)
  PROVE  DecisionsTyped(e, revision)
<1>1. \A j \in DOMAIN d : [d[j] EXCEPT !.status = to] \in Decisions
  BY DEF DecisionsTyped, Decisions
<1> QED  BY <1>1 DEF DecisionsTyped, MovesOne

\* A decision is taken unless there is one with its key.
AddsOne(d, e, k, action) ==
  /\ DOMAIN e = DOMAIN d \cup {k}
  /\ \A j \in DOMAIN d : e[j] = d[j]
  /\ k \notin DOMAIN d => e[k] = [status |-> "PENDING", action |-> action]

LEMMA CreatedAdds ==
  ASSUME NEW k, NEW action
  PROVE  AddsOne(decision, Created(k, action), k, action)
  BY DEF AddsOne, Created

LEMMA AddedTyped ==
  ASSUME NEW d, NEW e, NEW revision, NEW k \in Pairs \X (0..revision) \X AllRules,
         NEW action \in {"SELL", "EMERGENCY_SELL", "MANUAL_REVIEW"},
         DecisionsTyped(d, revision), AddsOne(d, e, k, action)
  PROVE  DecisionsTyped(e, revision)
<1>1. [status |-> "PENDING", action |-> action] \in Decisions
  BY DEF Decisions, Statuses
<1>2. \A j \in DOMAIN e : e[j] \in Decisions
  BY <1>1 DEF DecisionsTyped, AddsOne
<1>3. DOMAIN e \subseteq Pairs \X (0..revision) \X AllRules
  BY DEF DecisionsTyped, AddsOne
<1> QED  BY <1>2, <1>3 DEF DecisionsTyped

LEMMA RevisionsGrow ==
  ASSUME NEW d, NEW m \in Int, NEW n \in Int, m <= n, DecisionsTyped(d, m)
  PROVE  DecisionsTyped(d, n)
<1>1. \A k \in Pairs \X (0..m) \X AllRules : k \in Pairs \X (0..n) \X AllRules
  <2> SUFFICES ASSUME NEW p \in Pairs, NEW r \in 0..m, NEW rule \in AllRules
               PROVE  <<p, r, rule>> \in Pairs \X (0..n) \X AllRules
    OBVIOUS
  <2>1. r \in 0..n
    OBVIOUS
  <2> QED  BY <2>1
<1> QED  BY <1>1 DEF DecisionsTyped

------------------------------------------------------------------------------
(* What is typed, and what the lock of a pair knows of its session.         *)

CallSound(p, s, c) ==
  /\ c.key # NoKey => c.key[1] = p
  /\ c.pc \in {"check", "probe"} => c.key # NoKey
  /\ s.status = "HOLDING" => ~s.exit
  /\ c.pc = "probe" => s.status = "HOLDING"

PassSound(ps, keys) ==
  /\ ps = [pc |-> ps.pc, open |-> ps.open, copies |-> ps.copies, at |-> ps.at]
  /\ ps.pc \in {"idle", "open", "holding"} /\ ps.at \in keys \cup {NoKey}
  /\ DOMAIN ps.open \subseteq keys
  /\ DOMAIN ps.copies \subseteq Pairs
  /\ \A p \in DOMAIN ps.copies :
       ps.copies[p] \in Sessions /\ ps.copies[p].status = "HOLDING" /\ ~ps.copies[p].exit

WorldTyped ==
  /\ history \in Seq(Policies) /\ Len(history) >= 1
  /\ left \in [moves : 0..Moves, faults : 0..Faults] /\ Revision + left.moves <= Moves
  /\ market \in [Pairs -> Markets] /\ aged \subseteq Pairs

Sellers(keys) == {Unsold, NoKey} \cup keys

BaseInv ==
  /\ WorldTyped
  /\ DecisionsTyped(decision, Revision)
  /\ session \in [Pairs -> Sessions]
  /\ call \in [Pairs -> Calls(DOMAIN decision)]
  /\ sold \in [Pairs -> Sellers(DOMAIN decision)]
  /\ \A p \in Pairs : CallSound(p, session[p], call[p])
  /\ PassSound(pass, DOMAIN decision)

LEMMA BaseIsTyped == BaseInv => ExitTypeOK
<1> SUFFICES ASSUME BaseInv PROVE ExitTypeOK
  OBVIOUS
<1>1. Revision \in 0..Moves
  BY ExitAssumption DEF BaseInv, WorldTyped, Revision
<1>2. /\ \A p \in Pairs : Asked(p) # NoKey => Asked(p)[1] = p
      /\ \A p \in Pairs : call[p].pc \in {"check", "probe"} => Asked(p) # NoKey
  BY DEF BaseInv, CallSound, Asked
<1> QED  BY <1>1, <1>2 DEF BaseInv, WorldTyped, DecisionsTyped, PassSound, ExitTypeOK, Sellers

LEMMA NoPassSound == ASSUME NEW keys PROVE PassSound(NoPass, keys)
<1>1. DOMAIN NoPass.open = {} /\ DOMAIN NoPass.copies = {}
  BY DEF NoPass
<1> QED  BY <1>1 DEF PassSound, NoPass

LEMMA BaseInit == Init => BaseInv
<1> SUFFICES ASSUME Init PROVE BaseInv
  OBVIOUS
<1>1. DOMAIN decision = {}
  BY DEF Init
<1>2. DecisionsTyped(decision, Revision)
  BY <1>1 DEF DecisionsTyped
<1>3. Default \in Policies /\ Moves \in Nat /\ Faults \in Nat /\ Bps \in Nat /\ MaxBuys \in Nat
  BY ExitAssumption
<1>4. WorldTyped
  <2>1. Len(history) = 1 /\ history \in Seq(Policies)
    BY <1>3 DEF Init
  <2>2. left = [moves |-> Moves, faults |-> Faults] /\ market \in [Pairs -> Markets] /\ aged = {}
    BY DEF Init
  <2> QED  BY <1>3, <2>1, <2>2 DEF WorldTyped, Revision
<1>5. NoMemo \in Memos
  BY <1>3 DEF NoMemo, Memos
<1>6. Opened \in Sessions
  BY <1>3, <1>5 DEF Opened, Sessions
<1>7. NoCall \in Calls(DOMAIN decision)
  BY DEF NoCall, Calls
<1>8. \A p \in Pairs : CallSound(p, session[p], call[p])
  BY DEF Init, CallSound, Opened, NoCall
<1>9. PassSound(pass, DOMAIN decision)
  BY NoPassSound DEF Init
<1> QED  BY <1>2, <1>4, <1>6, <1>7, <1>8, <1>9 DEF BaseInv, Init, Sellers
------------------------------------------------------------------------------
(* A step at one pair, or at none.                                          *)

LEMMA KeysStay ==
  ASSUME BaseInv, NEW keys, DOMAIN decision \subseteq keys
  PROVE  /\ call \in [Pairs -> Calls(keys)] /\ sold \in [Pairs -> Sellers(keys)]
         /\ PassSound(pass, keys)
<1>1. Calls(DOMAIN decision) \subseteq Calls(keys) /\ Sellers(DOMAIN decision) \subseteq Sellers(keys)
  BY DEF Calls, Sellers
<1>2. PassSound(pass, keys)
  BY DEF BaseInv, PassSound
<1> QED  BY <1>1, <1>2 DEF BaseInv

LEMMA StepNowhere ==
  ASSUME BaseInv, WorldTyped', DecisionsTyped(decision', Revision'),
         DOMAIN decision \subseteq DOMAIN decision', PassSound(pass', DOMAIN decision'),
         UNCHANGED <<session, call, sold>>
  PROVE  BaseInv'
<1>1. call \in [Pairs -> Calls(DOMAIN decision')] /\ sold \in [Pairs -> Sellers(DOMAIN decision')]
  BY KeysStay
<1>2. \A q \in Pairs : CallSound(q, session'[q], call'[q])
  BY DEF BaseInv
<1> QED  BY <1>1, <1>2 DEF BaseInv

LEMMA StepAtPair ==
  ASSUME BaseInv, WorldTyped', DecisionsTyped(decision', Revision'),
         DOMAIN decision \subseteq DOMAIN decision', PassSound(pass', DOMAIN decision'),
         NEW p \in Pairs, NEW s \in Sessions, NEW c \in Calls(DOMAIN decision'),
         NEW w \in Sellers(DOMAIN decision'), CallSound(p, s, c),
         session' = [session EXCEPT ![p] = s], call' = [call EXCEPT ![p] = c],
         sold' = [sold EXCEPT ![p] = w]
  PROVE  BaseInv'
<1>1. call \in [Pairs -> Calls(DOMAIN decision')] /\ sold \in [Pairs -> Sellers(DOMAIN decision')]
  BY KeysStay
<1>2. /\ call' \in [Pairs -> Calls(DOMAIN decision')] /\ sold' \in [Pairs -> Sellers(DOMAIN decision')]
      /\ session' \in [Pairs -> Sessions]
  BY <1>1 DEF BaseInv
<1>3. \A q \in Pairs : CallSound(q, session'[q], call'[q])
  <2> SUFFICES ASSUME NEW q \in Pairs PROVE CallSound(q, session'[q], call'[q])
    OBVIOUS
  <2>1. session \in [Pairs -> Sessions] /\ call \in [Pairs -> Calls(DOMAIN decision)]
    BY DEF BaseInv
  <2>2. CASE q = p
    <3>1. session'[q] = s /\ call'[q] = c
      BY <2>1, <2>2
    <3> QED  BY <2>2, <3>1
  <2>3. CASE q # p
    <3>1. session'[q] = session[q] /\ call'[q] = call[q]
      BY <2>1, <2>3
    <3>2. CallSound(q, session[q], call[q])
      BY DEF BaseInv
    <3> QED  BY <3>1, <3>2
  <2> QED  BY <2>2, <2>3
<1> QED  BY <1>2, <1>3 DEF BaseInv

LEMMA StepUnchanged ==
  ASSUME BaseInv, NEW p \in Pairs
  PROVE  /\ session = [session EXCEPT ![p] = session[p]]
         /\ call = [call EXCEPT ![p] = call[p]]
         /\ sold = [sold EXCEPT ![p] = sold[p]]
         /\ session[p] \in Sessions /\ call[p] \in Calls(DOMAIN decision)
         /\ sold[p] \in Sellers(DOMAIN decision)
         /\ CallSound(p, session[p], call[p])
BY DEF BaseInv

LEMMA WorldStays ==
  ASSUME BaseInv, UNCHANGED <<history, market, aged>>, Spend("faults") \/ UNCHANGED left
  PROVE  WorldTyped' /\ Revision' = Revision
<1>1. Revision' = Revision /\ Revision \in Int
  BY DEF Revision, BaseInv, WorldTyped
<1>2. left' \in [moves : 0..Moves, faults : 0..Faults] /\ left'.moves = left.moves
  BY ExitAssumption DEF Spend, BaseInv, WorldTyped
<1> QED  BY <1>1, <1>2 DEF BaseInv, WorldTyped

LEMMA FinishSound ==
  ASSUME BaseInv, NEW keys, DOMAIN decision \subseteq keys, NEW p \in Pairs,
         NEW throws \in BOOLEAN, Finish(p, throws)
  PROVE  call' = [call EXCEPT ![p] = NoCall] /\ PassSound(pass', keys)
<1>1. PassSound(pass, keys)
  BY KeysStay
<1>2. PassSound([pass EXCEPT !.at = NoKey], keys)
  BY <1>1 DEF PassSound
<1>3. PassSound(NoPass, keys)
  BY NoPassSound
<1> QED  BY <1>1, <1>2, <1>3 DEF Finish

LEMMA NoCallSound ==
  ASSUME NEW p, NEW s, NEW keys, s.status = "HOLDING" => ~s.exit
  PROVE  NoCall \in Calls(keys) /\ CallSound(p, s, NoCall)
BY DEF NoCall, Calls, CallSound

LEMMA RevisionsExist ==
  ASSUME BaseInv
  PROVE  /\ Revision \in 0..Moves
         /\ PolicyOf(Revision) \in Policies
         /\ \A r \in 0..Revision : PolicyOf(r) \in Policies
<1>1. /\ history \in Seq(Policies) /\ Len(history) \in Nat /\ Len(history) >= 1
      /\ Revision = Len(history) - 1 /\ Revision + left.moves <= Moves /\ left.moves \in 0..Moves
      /\ Moves \in Nat
  BY ExitAssumption DEF BaseInv, WorldTyped, Revision
<1>2. Revision \in 0..Moves
  BY <1>1
<1>3. \A r \in 0..Revision : history[r + 1] \in Policies
  BY <1>1
<1> QED  BY <1>2, <1>3 DEF PolicyOf

\* What the evaluation of a position returns.
LEMMA EvaluationTyped ==
  ASSUME BaseInv, NEW r \in 0..Revision, NEW s \in Sessions, NEW m \in Markets,
         NEW asked \in BOOLEAN, NEW old, NEW buys, NEW x, NEW v,
         x = Metrics(PolicyOf(r), s.memo, m, asked),
         v = Verdict(PolicyOf(r), s.memo, x, old, buys)
  PROVE  /\ Remembered(PolicyOf(r), s.memo, x) \in Memos
         /\ Learnt(s.memo, Remembered(PolicyOf(r), s.memo, x))
         /\ v \in Outcomes /\ (v.action # "HOLD" => v.rule \in AllRules)
<1>1. PICK pol \in Policies : pol = PolicyOf(r)
  BY RevisionsExist
<1>2. PICK memo \in Memos : memo = s.memo
  BY DEF Sessions
<1>3. x \in Measures
  BY <1>1, <1>2, MetricsTyped
<1>4. Remembered(pol, memo, x) \in Memos /\ Learnt(memo, Remembered(pol, memo, x))
  BY <1>3, RememberedKeeps
<1>5. v \in Outcomes /\ (v.action # "HOLD" => v.rule \in AllRules)
  BY <1>1, <1>2, VerdictTyped
<1> QED  BY <1>1, <1>2, <1>4, <1>5
------------------------------------------------------------------------------
(* The base, action by action.                                              *)

LEMMA WorldBase == BaseInv /\ World => BaseInv'
<1> SUFFICES ASSUME BaseInv, World PROVE BaseInv'
  OBVIOUS
<1>1. /\ left.moves \in 0..Moves /\ left.faults \in 0..Faults
      /\ left = [moves |-> left.moves, faults |-> left.faults]
      /\ history \in Seq(Policies) /\ Len(history) \in Nat /\ Len(history) >= 1
      /\ Moves \in Nat /\ Faults \in Nat /\ Len(history) - 1 + left.moves <= Moves
      /\ market \in [Pairs -> Markets] /\ aged \subseteq Pairs
  BY ExitAssumption DEF BaseInv, WorldTyped, Revision
<1>2. ASSUME Spend("moves")
      PROVE  /\ left' \in [moves : 0..Moves, faults : 0..Faults]
             /\ left'.moves = left.moves - 1
  BY <1>1, <1>2 DEF Spend
<1>3. PassSound(pass, DOMAIN decision)
  BY DEF BaseInv
<1>4. ASSUME NEW pol \in Policies, history' = Append(history, pol), Spend("moves"),
             UNCHANGED <<worldVars, session, decision, pass, call, sold>>
      PROVE  BaseInv'
  <2>1. Len(history') = Len(history) + 1 /\ history' \in Seq(Policies)
    BY <1>1, <1>4
  <2>2. WorldTyped'
    BY <1>1, <1>2, <1>4, <2>1 DEF WorldTyped, worldVars, Revision
  <2>3. DecisionsTyped(decision, Revision')
    <3>1. Revision \in Int /\ Revision' \in Int /\ Revision <= Revision'
      BY <1>1, <2>1 DEF Revision
    <3>2. DecisionsTyped(decision, Revision)
      BY DEF BaseInv
    <3>3. PICK m \in Int, n \in Int : m = Revision /\ n = Revision'
      BY <3>1
    <3>4. DecisionsTyped(decision, n)
      BY <3>1, <3>2, <3>3, RevisionsGrow
    <3> QED  BY <3>3, <3>4
  <2> QED  BY <1>3, <1>4, <2>2, <2>3, StepNowhere DEF worldVars
<1>5. CASE ResetSettings
  <2>1. history[1] \in Policies
    BY <1>1
  <2> QED  BY <1>4, <1>5, <2>1 DEF ResetSettings
<1>6. CASE SaveSettings
  BY <1>4, <1>6 DEF SaveSettings
<1>7. ASSUME Spend("moves"), market' \in [Pairs -> Markets], aged' \subseteq Pairs,
             UNCHANGED <<history, session, decision, pass, call, sold>>
      PROVE  BaseInv'
  <2>1. WorldTyped' /\ Revision' = Revision
    BY <1>1, <1>2, <1>7 DEF WorldTyped, Revision
  <2>2. DecisionsTyped(decision', Revision')
    BY <1>7, <2>1 DEF BaseInv
  <2> QED  BY <1>3, <1>7, <2>1, <2>2, StepNowhere
<1>8. ASSUME NEW p \in Pairs, MoveMarket(p) PROVE BaseInv'
  <2>1. market' \in [Pairs -> Markets]
    BY <1>1, <1>8 DEF MoveMarket
  <2> QED  BY <1>1, <1>7, <1>8, <2>1 DEF MoveMarket
<1>9. ASSUME NEW p \in Pairs, Age(p) PROVE BaseInv'
  <2>1. aged' \subseteq Pairs
    BY <1>1, <1>9 DEF Age
  <2> QED  BY <1>1, <1>7, <1>9, <2>1 DEF Age
<1> QED  BY <1>5, <1>6, <1>8, <1>9 DEF World

\* A step of the monitor that touches no session.
LEMMA PassBase ==
  ASSUME BaseInv, PassStart \/ LoadHolding \/ PassEnd PROVE BaseInv'
<1>1. UNCHANGED <<history, market, aged, session, decision, call, sold, left>>
  BY DEF PassStart, LoadHolding, PassEnd, worldVars
<1>2. WorldTyped' /\ DecisionsTyped(decision', Revision')
  BY <1>1 DEF BaseInv, WorldTyped, Revision
<1>3. PassSound(pass, DOMAIN decision)
  BY DEF BaseInv
<1>4. PassSound(pass', DOMAIN decision)
  <2>1. CASE PassStart
    <3> DEFINE open == [k \in Recoverable |-> decision[k].status]
    <3>1. pass' = [NoPass EXCEPT !.pc = "open", !.open = open]
      BY <2>1 DEF PassStart
    <3>2. DOMAIN open \subseteq DOMAIN decision
      BY DEF Recoverable
    <3> HIDE DEF open
    <3>3. DOMAIN NoPass.copies = {}
      BY DEF NoPass
    <3> QED  BY <3>1, <3>2, <3>3 DEF PassSound, NoPass
  <2>2. CASE LoadHolding
    <3> DEFINE held == {q \in Pairs : session[q].status = "HOLDING"}
               copies == [q \in held |-> session[q]]
    <3>1. pass' = [pass EXCEPT !.pc = "holding", !.copies = copies]
      BY <2>2 DEF LoadHolding
    <3>2. \A q \in DOMAIN copies : /\ q \in Pairs /\ copies[q] \in Sessions
                                   /\ copies[q].status = "HOLDING" /\ ~copies[q].exit
      BY DEF BaseInv, CallSound
    <3> HIDE DEF copies
    <3> QED  BY <1>3, <3>1, <3>2 DEF PassSound
  <2>3. CASE PassEnd
    BY <2>3, NoPassSound DEF PassEnd
  <2> QED  BY <2>1, <2>2, <2>3
<1> QED  BY <1>1, <1>2, <1>4, StepNowhere

LEMMA AskExitBase == ASSUME BaseInv, AskExit PROVE BaseInv'
<1> DEFINE p == pass.at[1]
           c == [pc |-> "check", by |-> "monitor", key |-> pass.at]
<1>1. UNCHANGED <<history, market, aged, session, decision, pass, sold, left>>
  BY DEF AskExit, worldVars
<1>2. WorldTyped' /\ DecisionsTyped(decision', Revision') /\ PassSound(pass', DOMAIN decision')
  BY <1>1 DEF BaseInv, WorldTyped, Revision
<1>3. pass.at \in DOMAIN decision
  BY DEF AskExit, BaseInv, PassSound
<1>4. p \in Pairs /\ pass.at # NoKey
  <2>1. pass.at \in Pairs \X (0..Revision) \X AllRules
    BY <1>3 DEF BaseInv, DecisionsTyped
  <2>2. PICK k : k = pass.at
    OBVIOUS
  <2> QED  BY <2>1, <2>2, KeysAreKeys
<1>5. call' = [call EXCEPT ![p] = c] /\ c \in Calls(DOMAIN decision)
  BY <1>3 DEF AskExit, Calls
<1>6. CallSound(p, session[p], c)
  BY <1>4 DEF CallSound, BaseInv
<1> HIDE DEF c, p
<1>7. PICK s \in Sessions, w \in Sellers(DOMAIN decision), q \in Pairs :
        q = p /\ s = session[q] /\ w = sold[q]
  BY <1>4, StepUnchanged
<1>8. session' = [session EXCEPT ![q] = s] /\ sold' = [sold EXCEPT ![q] = w]
  BY <1>1, <1>7, StepUnchanged
<1> QED  BY <1>1, <1>2, <1>5, <1>6, <1>7, <1>8, StepAtPair

LEMMA StatusesAre ==
  {"PENDING", "EXECUTING", "EXECUTED", "FAILED", "MANUAL_REVIEW", "SUPERSEDED"} = Statuses
BY DEF Statuses

\* What taking up a decision does: to the pass, and to that decision.
TakesUp(k, from, to) ==
  /\ MovesOne(decision, decision', k, from, to)
  /\ \E at \in {NoKey, k} : pass' = [pass EXCEPT !.open = Without(@, k), !.at = at]

LEMMA TakeUpMoves ==
  ASSUME NEW revision, DecisionsTyped(decision, revision), NEW k \in DOMAIN decision,
         pass = [pc |-> pass.pc, open |-> pass.open, copies |-> pass.copies, at |-> pass.at],
         TakeUp(k)
  PROVE  \/ TakesUp(k, "PENDING", "PENDING")
         \/ TakesUp(k, "PENDING", "SUPERSEDED") /\ session[k[1]].status # "HOLDING"
         \/ TakesUp(k, "EXECUTING", "PENDING") /\ Requeues(session[k[1]])
         \/ TakesUp(k, "EXECUTING", "EXECUTED") /\ session[k[1]].exit
<1> DEFINE s == session[k[1]]
           skip == pass' = [pass EXCEPT !.open = Without(@, k)]
           ask == pass' = [pass EXCEPT !.open = Without(@, k), !.at = k]
<1>1. skip => pass' = [pass EXCEPT !.open = Without(@, k), !.at = NoKey]
  BY DEF TakeUp
<1>2. skip \/ ask => \E at \in {NoKey, k} : pass' = [pass EXCEPT !.open = Without(@, k), !.at = at]
  BY <1>1
<1>3. \A from, to : MovesOne(decision, Transition(k, from, to), k, from, to)
  BY TransitionMoves
<1>4. MovesOne(decision, decision, k, "PENDING", "PENDING")
  BY DEF MovesOne, DecisionsTyped, Decisions
<1>5. \/ (skip \/ ask) /\ UNCHANGED decision
      \/ skip /\ decision' = Transition(k, "PENDING", "SUPERSEDED") /\ s.status # "HOLDING"
      \/ (skip \/ ask) /\ decision' = Transition(k, "EXECUTING", "PENDING") /\ Requeues(s)
      \/ skip /\ decision' = Transition(k, "EXECUTING", "EXECUTED") /\ s.exit
  BY DEF TakeUp
<1> HIDE DEF skip, ask, s
<1> QED  BY <1>2, <1>3, <1>4, <1>5 DEF TakesUp, s

LEMMA TakeUpBase ==
  ASSUME BaseInv, NEW k \in DOMAIN pass.open, TakeUp(k) PROVE BaseInv'
<1>1. UNCHANGED <<history, market, aged, session, call, sold, left>>
  BY DEF TakeUp, worldVars
<1>2. WorldTyped' /\ Revision' = Revision
  BY <1>1 DEF BaseInv, WorldTyped, Revision
<1>3. /\ DecisionsTyped(decision, Revision) /\ k \in DOMAIN decision
      /\ PassSound(pass, DOMAIN decision)
  BY DEF BaseInv, PassSound
<1>4. pass = [pc |-> pass.pc, open |-> pass.open, copies |-> pass.copies, at |-> pass.at]
  BY <1>3 DEF PassSound
<1>5. PICK from \in Statuses, to \in Statuses : TakesUp(k, from, to)
  BY <1>3, <1>4, TakeUpMoves, StatusesAre
<1>6. DecisionsTyped(decision', Revision)
  BY <1>3, <1>5, MovedTyped DEF TakesUp
<1>7. DOMAIN decision' = DOMAIN decision
  BY <1>5 DEF TakesUp, MovesOne
<1>8. PassSound(pass', DOMAIN decision)
  <2>1. PICK at \in {NoKey, k} : pass' = [pass EXCEPT !.open = Without(@, k), !.at = at]
    BY <1>5 DEF TakesUp
  <2>2. DOMAIN Without(pass.open, k) \subseteq DOMAIN pass.open
    BY DEF Without
  <2> QED  BY <1>3, <2>1, <2>2 DEF PassSound
<1> QED  BY <1>1, <1>2, <1>6, <1>7, <1>8, StepNowhere

LEMMA KeyTyped ==
  ASSUME NEW p \in Pairs, NEW r \in 0..Revision, NEW rule \in AllRules
  PROVE  Key(p, r, rule) \in Pairs \X (0..Revision) \X AllRules /\ Key(p, r, rule)[1] = p
BY DEF Key

\* What the measure of a position, with the settings of revision r, may lead to.
Measured(s, r, new, v) ==
  /\ new \in Memos /\ Learnt(s.memo, new)
  /\ v \in Outcomes /\ (v.action # "HOLD" => v.rule \in AllRules)

\* The pass saves its copy, or the copy with what the evaluation has learnt, and asks for
\* the exit of decision k, or of none.
EvaluatedTo(p, s, k, action) ==
  /\ s.status = pass.copies[p].status /\ s.exit = pass.copies[p].exit
  /\ s.unresolved = pass.copies[p].unresolved
  /\ Learnt(pass.copies[p].memo, s.memo)
  /\ session' = [session EXCEPT ![p] = s]
  /\ k # NoKey => k[1] = p /\ AddsOne(decision, decision', k, action)
  /\ k = NoKey => decision' = decision
  /\ pass' = [pass EXCEPT !.copies = Without(@, p), !.at = k]

LEMMA EvaluateDoes ==
  ASSUME BaseInv, NEW p \in Pairs, NEW asked \in BOOLEAN, Evaluate(p, asked)
  PROVE  \E s \in Sessions, k \in (Pairs \X (0..Revision) \X AllRules) \cup {NoKey},
            action \in {"SELL", "EMERGENCY_SELL", "MANUAL_REVIEW"} :
           EvaluatedTo(p, s, k, action)
<1> DEFINE copy == pass.copies[p]
           pol == PolicyOf(Revision)
           x == Metrics(pol, copy.memo, market[p], asked)
           v == Verdict(pol, copy.memo, x, p \in aged, copy.buys)
           k == Key(p, Revision, v.rule)
           acts == market[p].readable /\ v.action # "HOLD"
           new == Remembered(pol, copy.memo, x)
           seen == [copy EXCEPT !.memo = new]
           s == IF market[p].readable THEN seen ELSE copy
           at == IF acts THEN k ELSE NoKey
<1>1. /\ session' = [session EXCEPT ![p] = s]
      /\ decision' = IF acts THEN Created(k, v.action) ELSE decision
      /\ pass' = [pass EXCEPT !.copies = Without(@, p), !.at = at]
  BY DEF Evaluate
<1>2. Revision \in 0..Revision /\ Revision \in 0..Moves
  BY RevisionsExist
<1>3. copy \in Sessions /\ market[p] \in Markets
  BY DEF Evaluate, BaseInv, PassSound, WorldTyped
<1>4. Measured(copy, Revision, new, v)
  <2>1. PICK r, c, m, old, buys :
          r = Revision /\ c = copy /\ m = market[p] /\ old = (p \in aged) /\ buys = copy.buys
    OBVIOUS
  <2> DEFINE y == Metrics(PolicyOf(r), c.memo, m, asked)
             w == Verdict(PolicyOf(r), c.memo, y, old, buys)
  <2>2. r \in 0..Revision /\ c \in Sessions /\ m \in Markets
    BY <1>2, <1>3, <2>1
  <2>3. PICK yy, ww : yy = y /\ ww = w
    OBVIOUS
  <2>4. ww = Verdict(PolicyOf(r), c.memo, yy, old, buys) /\ yy = Metrics(PolicyOf(r), c.memo, m, asked)
    BY <2>3
  <2> HIDE DEF y, w
  <2>5. Measured(c, r, Remembered(PolicyOf(r), c.memo, yy), ww)
    BY <2>2, <2>4, EvaluationTyped DEF Measured
  <2> QED  BY <2>1, <2>3, <2>5 DEF y, w
<1> HIDE DEF v, new, copy
<1>5. /\ seen \in Sessions /\ seen.status = copy.status /\ seen.exit = copy.exit
      /\ seen.unresolved = copy.unresolved /\ seen.memo = new
  <2>1. new \in Memos
    BY <1>4 DEF Measured
  <2> QED  BY <1>3, <2>1 DEF Sessions
<1> HIDE DEF seen
<1>6. Learnt(copy.memo, copy.memo) /\ Learnt(copy.memo, seen.memo)
  <2>1. copy.memo.peak \in Nat
    BY <1>3 DEF Sessions, Memos
  <2> QED  BY <1>4, <1>5, <2>1 DEF Measured, Learnt
<1>7. s \in Sessions /\ s.status = copy.status /\ s.exit = copy.exit
      /\ s.unresolved = copy.unresolved /\ Learnt(copy.memo, s.memo)
  BY <1>3, <1>5, <1>6
<1>8. acts => /\ k \in Pairs \X (0..Revision) \X AllRules /\ k[1] = p /\ k # NoKey
              /\ v.action \in {"SELL", "EMERGENCY_SELL", "MANUAL_REVIEW"}
  <2> SUFFICES ASSUME acts
               PROVE  /\ k \in Pairs \X (0..Revision) \X AllRules /\ k[1] = p /\ k # NoKey
                      /\ v.action \in {"SELL", "EMERGENCY_SELL", "MANUAL_REVIEW"}
    OBVIOUS
  <2>1. v.rule \in AllRules /\ v.action \in {"SELL", "EMERGENCY_SELL", "MANUAL_REVIEW"}
    BY <1>4 DEF Measured, Outcomes
  <2>2. PICK r \in 0..Revision, rule \in AllRules : r = Revision /\ rule = v.rule
    BY <1>2, <2>1
  <2>3. Key(p, r, rule) \in Pairs \X (0..Revision) \X AllRules /\ Key(p, r, rule)[1] = p
    BY <1>2, <2>2, KeyTyped
  <2>4. Key(p, r, rule) # NoKey
    BY <2>3, KeysAreKeys
  <2> QED  BY <2>1, <2>2, <2>3, <2>4
<1> HIDE DEF acts, k, s
<1>9. CASE acts
  <2>1. at = k /\ decision' = Created(k, v.action)
    BY <1>1, <1>9
  <2>2. AddsOne(decision, decision', k, v.action)
    BY <2>1, CreatedAdds
  <2>3. PICK s1, k1, a1 : s1 = s /\ k1 = k /\ a1 = v.action
    OBVIOUS
  <2>4. /\ s1 \in Sessions /\ k1 \in Pairs \X (0..Revision) \X AllRules /\ k1[1] = p /\ k1 # NoKey
        /\ a1 \in {"SELL", "EMERGENCY_SELL", "MANUAL_REVIEW"}
    BY <1>7, <1>8, <1>9, <2>3
  <2>5. /\ s1.status = pass.copies[p].status /\ s1.exit = pass.copies[p].exit
        /\ s1.unresolved = pass.copies[p].unresolved
        /\ Learnt(pass.copies[p].memo, s1.memo)
        /\ session' = [session EXCEPT ![p] = s1]
    BY <1>1, <1>7, <2>3 DEF copy
  <2>6. /\ AddsOne(decision, decision', k1, a1)
        /\ pass' = [pass EXCEPT !.copies = Without(@, p), !.at = k1]
    BY <1>1, <2>1, <2>2, <2>3
  <2> HIDE DEF at
  <2>7. EvaluatedTo(p, s1, k1, a1)
    BY <2>4, <2>5, <2>6 DEF EvaluatedTo
  <2> QED  BY <2>4, <2>7
<1>10. CASE ~acts
  <2>1. at = NoKey /\ decision' = decision
    BY <1>1, <1>10
  <2>2. PICK s1 : s1 = s
    OBVIOUS
  <2>3. s1 \in Sessions /\ NoKey \in (Pairs \X (0..Revision) \X AllRules) \cup {NoKey}
    BY <1>7, <2>2
  <2>4. /\ s1.status = pass.copies[p].status /\ s1.exit = pass.copies[p].exit
        /\ s1.unresolved = pass.copies[p].unresolved
        /\ Learnt(pass.copies[p].memo, s1.memo)
        /\ session' = [session EXCEPT ![p] = s1]
    BY <1>1, <1>7, <2>2 DEF copy
  <2>5. pass' = [pass EXCEPT !.copies = Without(@, p), !.at = NoKey]
    BY <1>1, <2>1
  <2> HIDE DEF at
  <2>6. EvaluatedTo(p, s1, NoKey, "SELL")
    BY <2>1, <2>4, <2>5 DEF EvaluatedTo
  <2> QED  BY <2>3, <2>6
<1> QED  BY <1>9, <1>10

LEMMA EvaluateBase ==
  ASSUME BaseInv, NEW p \in Pairs, NEW asked \in BOOLEAN, Evaluate(p, asked) PROVE BaseInv'
<1>1. PICK s \in Sessions, k \in (Pairs \X (0..Revision) \X AllRules) \cup {NoKey},
           action \in {"SELL", "EMERGENCY_SELL", "MANUAL_REVIEW"} :
           EvaluatedTo(p, s, k, action)
  BY EvaluateDoes
<1>1a. /\ s.status = pass.copies[p].status /\ s.exit = pass.copies[p].exit
       /\ session' = [session EXCEPT ![p] = s]
       /\ k # NoKey => AddsOne(decision, decision', k, action)
       /\ k = NoKey => decision' = decision
       /\ pass' = [pass EXCEPT !.copies = Without(@, p), !.at = k]
  BY <1>1 DEF EvaluatedTo
<1>2. UNCHANGED <<history, market, aged, call, sold, left>>
  BY DEF Evaluate, worldVars
<1>3. WorldTyped' /\ Revision' = Revision
  BY <1>2 DEF BaseInv, WorldTyped, Revision
<1>4. DecisionsTyped(decision, Revision) /\ PassSound(pass, DOMAIN decision)
  BY DEF BaseInv
<1>5. DecisionsTyped(decision', Revision) /\ DOMAIN decision \subseteq DOMAIN decision'
      /\ k \in DOMAIN decision' \cup {NoKey}
  <2>1. CASE k = NoKey
    BY <1>1a, <1>4, <2>1
  <2>2. CASE k # NoKey
    <3>1. k \in Pairs \X (0..Revision) \X AllRules
      BY <2>2
    <3>2. DecisionsTyped(decision', Revision)
      BY <1>1a, <1>4, <2>2, <3>1, AddedTyped
    <3> QED  BY <1>1a, <2>2, <3>2 DEF AddsOne
  <2> QED  BY <2>1, <2>2
<1>6. PassSound(pass', DOMAIN decision')
  <2>1. DOMAIN Without(pass.copies, p) \subseteq DOMAIN pass.copies
        /\ \A q \in DOMAIN Without(pass.copies, p) : Without(pass.copies, p)[q] = pass.copies[q]
    BY DEF Without
  <2>2. PICK f : f = Without(pass.copies, p)
    OBVIOUS
  <2>3. pass' = [pass EXCEPT !.copies = f, !.at = k]
    BY <1>1a, <2>2
  <2> QED  BY <1>4, <1>5, <2>1, <2>2, <2>3 DEF PassSound
<1>7. p \in DOMAIN pass.copies
  BY DEF Evaluate
<1>8. s.status = "HOLDING" /\ ~s.exit
  BY <1>1a, <1>4, <1>7 DEF PassSound
<1>9. CallSound(p, s, call[p]) /\ call[p] \in Calls(DOMAIN decision')
  <2>1. CallSound(p, session[p], call[p])
    BY StepUnchanged
  <2>2. CallSound(p, s, call[p])
    BY <1>8, <2>1 DEF CallSound
  <2>3. call \in [Pairs -> Calls(DOMAIN decision')]
    BY <1>5, KeysStay
  <2> QED  BY <2>2, <2>3
<1>10. sold[p] \in Sellers(DOMAIN decision')
  BY <1>5, KeysStay
<1>11. PICK c \in Calls(DOMAIN decision'), w \in Sellers(DOMAIN decision') :
         c = call[p] /\ w = sold[p]
  BY <1>9, <1>10
<1>12. call' = [call EXCEPT ![p] = c] /\ sold' = [sold EXCEPT ![p] = w]
  BY <1>2, <1>11, StepUnchanged
<1> QED  BY <1>1a, <1>3, <1>5, <1>6, <1>9, <1>11, <1>12, StepAtPair

\* The evaluation of an arbitrary position, cut loose from the state.
LEMMA MeasuredAt ==
  ASSUME BaseInv, NEW r \in 0..Revision, NEW s \in Sessions, NEW m \in Markets,
         NEW asked \in BOOLEAN, NEW old, NEW buys, NEW v, NEW new,
         v = Verdict(PolicyOf(r), s.memo, Metrics(PolicyOf(r), s.memo, m, asked), old, buys),
         new = Remembered(PolicyOf(r), s.memo, Metrics(PolicyOf(r), s.memo, m, asked))
  PROVE  Measured(s, r, new, v)
<1>1. PICK x : x = Metrics(PolicyOf(r), s.memo, m, asked)
  OBVIOUS
<1>2. v = Verdict(PolicyOf(r), s.memo, x, old, buys) /\ new = Remembered(PolicyOf(r), s.memo, x)
  BY <1>1
<1> QED  BY <1>1, <1>2, EvaluationTyped DEF Measured

\* A buy counts, and at the target decides with decision k, or with none.
BoughtTo(p, s, k, action) ==
  /\ s.status = session[p].status /\ s.exit = session[p].exit
  /\ s.unresolved = session[p].unresolved
  /\ Learnt(session[p].memo, s.memo)
  /\ session' = [session EXCEPT ![p] = s]
  /\ k # NoKey => /\ k[1] = p /\ AddsOne(decision, decision', k, action)
                  /\ call' = [call EXCEPT ![p] = [pc |-> "check", by |-> "swap", key |-> k]]
  /\ k = NoKey => decision' = decision /\ call' = call

LEMMA BuyDoes ==
  ASSUME BaseInv, NEW p \in Pairs, Buy(p)
  PROVE  \E s \in Sessions, k \in (Pairs \X (0..Revision) \X AllRules) \cup {NoKey},
            action \in {"SELL", "EMERGENCY_SELL", "MANUAL_REVIEW"} :
           BoughtTo(p, s, k, action)
<1> DEFINE s0 == [session[p] EXCEPT !.buys = @ + 1]
           pol == PolicyOf(Revision)
           x == Metrics(pol, s0.memo, market[p], TRUE)
           v == Verdict(pol, s0.memo, x, p \in aged, s0.buys)
           k == Key(p, Revision, v.rule)
           evaluates == s0.buys >= pol.target /\ market[p].readable
           acts == evaluates /\ v.action # "HOLD"
           new == Remembered(pol, s0.memo, x)
           s == IF evaluates THEN [s0 EXCEPT !.memo = new] ELSE s0
<1>1. /\ session' = [session EXCEPT ![p] = s]
      /\ decision' = IF acts THEN Created(k, v.action) ELSE decision
      /\ call' = IF acts THEN [call EXCEPT ![p] = [pc |-> "check", by |-> "swap", key |-> k]]
                 ELSE call
  BY DEF Buy
<1>2. Revision \in 0..Revision /\ Revision \in 0..Moves
  BY RevisionsExist
<1>3. /\ session[p] \in Sessions /\ market[p] \in Markets /\ session[p].buys < MaxBuys
      /\ MaxBuys \in Nat
  BY ExitAssumption DEF Buy, BaseInv, WorldTyped
<1>4. /\ s0 \in Sessions /\ s0.status = session[p].status /\ s0.exit = session[p].exit
      /\ s0.unresolved = session[p].unresolved /\ s0.memo = session[p].memo
  BY <1>3 DEF Sessions
<1> HIDE DEF s0
<1>5. Measured(s0, Revision, new, v)
  <2>1. PICK r, c, m, old, buys, n, w :
          r = Revision /\ c = s0 /\ m = market[p] /\ old = (p \in aged) /\ buys = s0.buys
          /\ n = new /\ w = v
    OBVIOUS
  <2>2. r \in 0..Revision /\ c \in Sessions /\ m \in Markets
    BY <1>2, <1>3, <1>4, <2>1
  <2>3. Measured(c, r, n, w)
    BY <2>1, <2>2, MeasuredAt
  <2> QED  BY <2>1, <2>3
<1> HIDE DEF v, new
<1>6. Learnt(s0.memo, s0.memo)
  BY <1>4 DEF Sessions, Memos, Learnt
<1>7. /\ s \in Sessions /\ s.status = s0.status /\ s.exit = s0.exit
      /\ s.unresolved = s0.unresolved /\ Learnt(s0.memo, s.memo)
  <2>1. new \in Memos /\ Learnt(s0.memo, new)
    BY <1>5 DEF Measured
  <2>2. PICK n : n = new
    OBVIOUS
  <2>3. /\ [s0 EXCEPT !.memo = n] \in Sessions
        /\ [s0 EXCEPT !.memo = n].memo = n
    BY <1>4, <2>1, <2>2 DEF Sessions
  <2>4. /\ [s0 EXCEPT !.memo = n].status = s0.status /\ [s0 EXCEPT !.memo = n].exit = s0.exit
        /\ [s0 EXCEPT !.memo = n].unresolved = s0.unresolved
    BY <1>4 DEF Sessions
  <2> QED  BY <1>4, <1>6, <2>1, <2>2, <2>3, <2>4
<1>8. acts => /\ k \in Pairs \X (0..Revision) \X AllRules /\ k[1] = p /\ k # NoKey
              /\ v.action \in {"SELL", "EMERGENCY_SELL", "MANUAL_REVIEW"}
  <2> SUFFICES ASSUME acts
               PROVE  /\ k \in Pairs \X (0..Revision) \X AllRules /\ k[1] = p /\ k # NoKey
                      /\ v.action \in {"SELL", "EMERGENCY_SELL", "MANUAL_REVIEW"}
    OBVIOUS
  <2>1. v.rule \in AllRules /\ v.action \in {"SELL", "EMERGENCY_SELL", "MANUAL_REVIEW"}
    BY <1>5 DEF Measured, Outcomes
  <2>2. PICK r \in 0..Revision, rule \in AllRules : r = Revision /\ rule = v.rule
    BY <1>2, <2>1
  <2>3. Key(p, r, rule) \in Pairs \X (0..Revision) \X AllRules /\ Key(p, r, rule)[1] = p
    BY <1>2, <2>2, KeyTyped
  <2>4. Key(p, r, rule) # NoKey
    BY <2>3, KeysAreKeys
  <2> QED  BY <2>1, <2>2, <2>3, <2>4
<1> HIDE DEF acts, k, s, evaluates
<1>9. PICK s1 : s1 = s
  OBVIOUS
<1>10. /\ s1 \in Sessions
       /\ s1.status = session[p].status /\ s1.exit = session[p].exit
       /\ s1.unresolved = session[p].unresolved
       /\ Learnt(session[p].memo, s1.memo)
       /\ session' = [session EXCEPT ![p] = s1]
  BY <1>1, <1>4, <1>7, <1>9
<1>11. CASE acts
  <2>1. decision' = Created(k, v.action)
        /\ call' = [call EXCEPT ![p] = [pc |-> "check", by |-> "swap", key |-> k]]
    BY <1>1, <1>11
  <2>2. PICK k1, a1 : k1 = k /\ a1 = v.action
    OBVIOUS
  <2>3. /\ k1 \in Pairs \X (0..Revision) \X AllRules /\ k1[1] = p /\ k1 # NoKey
        /\ a1 \in {"SELL", "EMERGENCY_SELL", "MANUAL_REVIEW"}
    BY <1>8, <1>11, <2>2
  <2>4. AddsOne(decision, decision', k1, a1)
    BY <2>1, <2>2, CreatedAdds
  <2>5. BoughtTo(p, s1, k1, a1)
    BY <1>10, <2>1, <2>2, <2>3, <2>4 DEF BoughtTo
  <2> QED  BY <1>10, <2>3, <2>5
<1>12. CASE ~acts
  <2>1. BoughtTo(p, s1, NoKey, "SELL")
    BY <1>1, <1>10, <1>12 DEF BoughtTo
  <2> QED  BY <1>10, <2>1
<1> QED  BY <1>11, <1>12

LEMMA BuyBase == ASSUME BaseInv, NEW p \in Pairs, Buy(p) PROVE BaseInv'
<1>1. PICK s \in Sessions, k \in (Pairs \X (0..Revision) \X AllRules) \cup {NoKey},
           action \in {"SELL", "EMERGENCY_SELL", "MANUAL_REVIEW"} : BoughtTo(p, s, k, action)
  BY BuyDoes
<1>2. UNCHANGED <<history, market, aged, pass, sold, left>>
  BY DEF Buy, worldVars
<1>3. WorldTyped' /\ Revision' = Revision
  BY <1>2 DEF BaseInv, WorldTyped, Revision
<1>4. DecisionsTyped(decision, Revision)
  BY DEF BaseInv
<1>5. DecisionsTyped(decision', Revision) /\ DOMAIN decision \subseteq DOMAIN decision'
      /\ k \in DOMAIN decision' \cup {NoKey}
  <2>1. CASE k = NoKey
    BY <1>1, <1>4, <2>1 DEF BoughtTo
  <2>2. CASE k # NoKey
    <3>1. k \in Pairs \X (0..Revision) \X AllRules /\ AddsOne(decision, decision', k, action)
      BY <1>1, <2>2 DEF BoughtTo
    <3>2. DecisionsTyped(decision', Revision)
      BY <1>4, <3>1, AddedTyped
    <3> QED  BY <3>1, <3>2 DEF AddsOne
  <2> QED  BY <2>1, <2>2
<1>6. /\ PassSound(pass', DOMAIN decision') /\ sold \in [Pairs -> Sellers(DOMAIN decision')]
      /\ call \in [Pairs -> Calls(DOMAIN decision')]
  BY <1>2, <1>5, KeysStay
<1>7. CallSound(p, session[p], call[p]) /\ call = [call EXCEPT ![p] = call[p]]
  BY StepUnchanged
<1>8. PICK c \in Calls(DOMAIN decision') :
        CallSound(p, s, c) /\ call' = [call EXCEPT ![p] = c]
  <2>1. CASE k = NoKey
    <3>1. CallSound(p, s, call[p])
      BY <1>1, <1>7 DEF BoughtTo, CallSound
    <3>2. call' = [call EXCEPT ![p] = call[p]]
      BY <1>1, <1>7, <2>1 DEF BoughtTo
    <3>3. PICK c : c = call[p]
      OBVIOUS
    <3> QED  BY <1>6, <3>1, <3>2, <3>3
  <2>2. CASE k # NoKey
    <3>1. [pc |-> "check", by |-> "swap", key |-> k] \in Calls(DOMAIN decision')
      BY <1>5 DEF Calls
    <3>2. CallSound(p, s, [pc |-> "check", by |-> "swap", key |-> k])
      BY <1>1, <1>7, <2>2 DEF BoughtTo, CallSound
    <3>3. call' = [call EXCEPT ![p] = [pc |-> "check", by |-> "swap", key |-> k]]
      BY <1>1, <2>2 DEF BoughtTo
    <3> QED  BY <3>1, <3>2, <3>3
  <2> QED  BY <2>1, <2>2
<1>9. PICK w \in Sellers(DOMAIN decision') : w = sold[p]
  BY <1>6
<1>10. sold' = [sold EXCEPT ![p] = w]
  BY <1>2, <1>9, StepUnchanged
<1>11. session' = [session EXCEPT ![p] = s]
  BY <1>1 DEF BoughtTo
<1> QED  BY <1>3, <1>5, <1>6, <1>8, <1>9, <1>10, <1>11, StepAtPair

LEMMA AskedOf ==
  ASSUME BaseInv, NEW p \in Pairs
  PROVE  /\ Asked(p) \in DOMAIN decision \cup {NoKey}
         /\ Asked(p) # NoKey => /\ Asked(p) \in DOMAIN decision /\ Asked(p)[1] = p
                                /\ Asked(p)[2] \in 0..Revision
<1>1. call[p].key \in DOMAIN decision \cup {NoKey} /\ (call[p].key # NoKey => call[p].key[1] = p)
  BY DEF BaseInv, Calls, CallSound
<1>2. PICK k : k = call[p].key
  OBVIOUS
<1>3. k \in DOMAIN decision => k[2] \in 0..Revision
  BY KeysAreKeys DEF BaseInv, DecisionsTyped
<1> QED  BY <1>1, <1>2, <1>3 DEF Asked

LEMMA CheckDoes ==
  ASSUME BaseInv, NEW p \in Pairs, Check(p)
  PROVE  /\ Asked(p) \in DOMAIN decision
         /\ \/ /\ OpenPosition(p) /\ UNCHANGED <<pass, decision>>
               /\ call' = [call EXCEPT ![p].pc = "probe"]
            \/ /\ Finish(p, FALSE)
               /\ \E to \in {"PENDING", "SUPERSEDED"} :
                    MovesOne(decision, decision', Asked(p), "PENDING", to)
<1>1. Asked(p) # NoKey
  BY DEF Check, BaseInv, CallSound, Asked
<1>2. Asked(p) \in DOMAIN decision
  BY <1>1, AskedOf
<1>3. PICK k \in DOMAIN decision : k = Asked(p)
  BY <1>2
<1>4. DecisionsTyped(decision, Revision)
  BY DEF BaseInv
<1>5. PICK r : r = Revision
  OBVIOUS
<1>6. MovesOne(decision, Transition(k, "PENDING", "SUPERSEDED"), k, "PENDING", "SUPERSEDED")
  BY <1>4, <1>5, TransitionMoves
<1>7. MovesOne(decision, decision, k, "PENDING", "PENDING")
  BY <1>4 DEF MovesOne, DecisionsTyped, Decisions
<1>8. \/ /\ OpenPosition(p) /\ UNCHANGED <<pass, decision>>
         /\ call' = [call EXCEPT ![p].pc = "probe"]
      \/ Finish(p, FALSE) /\ decision' = decision
      \/ Finish(p, FALSE) /\ decision' = Transition(k, "PENDING", "SUPERSEDED")
  BY <1>3 DEF Check
<1> QED  BY <1>2, <1>3, <1>6, <1>7, <1>8

\* What the repeated measure leads to: the session and the decision move, and the call
\* ends or goes on to sell.
RevalidatedTo(p, s, to) ==
  /\ s.exit = session[p].exit /\ s.unresolved = session[p].unresolved
  /\ Learnt(session[p].memo, s.memo)
  /\ session' = [session EXCEPT ![p] = s]
  /\ MovesOne(decision, decision', Asked(p), "PENDING", to)
  /\ \/ /\ s.status \in {session[p].status, "MANUAL_REVIEW"}
        /\ to \in {"PENDING", "MANUAL_REVIEW", "SUPERSEDED", "EXECUTING"}
        /\ \E throws \in BOOLEAN : Finish(p, throws)
     \/ /\ s.status = "SELL_PENDING" /\ to = "EXECUTING" /\ Pending(p)
        /\ call' = [call EXCEPT ![p].pc = "selling"] /\ UNCHANGED pass

LEMMA RevalidateDoes ==
  ASSUME BaseInv, NEW p \in Pairs, Revalidate(p)
  PROVE  \E s \in Sessions, to \in Statuses : RevalidatedTo(p, s, to)
<1> DEFINE pol == PolicyOf(Asked(p)[2])
           x == Metrics(pol, session[p].memo, market[p], TRUE)
           v == Verdict(pol, session[p].memo, x, p \in aged, session[p].buys)
           new == Remembered(pol, session[p].memo, x)
           seen == [session[p] EXCEPT !.memo = new]
<1>1. Asked(p) # NoKey
  BY DEF Revalidate, BaseInv, CallSound, Asked
<1>2. PICK k \in DOMAIN decision : k = Asked(p) /\ k[2] \in 0..Revision
  BY <1>1, AskedOf
<1>3. session[p] \in Sessions /\ market[p] \in Markets
  BY DEF BaseInv, WorldTyped
<1>4. new \in Memos /\ Learnt(session[p].memo, new)
  <2>1. PICK r, c, m, old, buys, n, w :
          r = Asked(p)[2] /\ c = session[p] /\ m = market[p] /\ old = (p \in aged)
          /\ buys = session[p].buys /\ n = new /\ w = v
    OBVIOUS
  <2>2. r \in 0..Revision /\ c \in Sessions /\ m \in Markets
    BY <1>2, <1>3, <2>1
  <2>3. Measured(c, r, n, w)
    BY <2>1, <2>2, MeasuredAt
  <2> QED  BY <2>1, <2>3 DEF Measured
<1>5. \/ Finish(p, TRUE) /\ UNCHANGED <<session, decision>>
      \/ /\ decision' = Transition(k, "PENDING", "MANUAL_REVIEW")
         /\ session' = [session EXCEPT ![p] = [seen EXCEPT !.status = "MANUAL_REVIEW"]]
         /\ Finish(p, FALSE)
      \/ /\ decision' = Transition(k, "PENDING", "SUPERSEDED")
         /\ session' = [session EXCEPT ![p] = seen]
         /\ Finish(p, FALSE)
      \/ /\ decision' = Transition(k, "PENDING", "EXECUTING") /\ Pending(p)
         /\ session' = [session EXCEPT ![p] = [seen EXCEPT !.status = "SELL_PENDING"]]
         /\ call' = [call EXCEPT ![p].pc = "selling"] /\ UNCHANGED pass
      \/ /\ decision' = Transition(k, "PENDING", "EXECUTING")
         /\ Finish(p, FALSE) /\ UNCHANGED session
  BY <1>2 DEF Revalidate
<1> HIDE DEF new
<1>6. PICK n \in Memos : n = new
  BY <1>4
<1>7. \A st \in {"MANUAL_REVIEW", "SELL_PENDING"} :
         /\ [seen EXCEPT !.status = st] \in Sessions
         /\ [seen EXCEPT !.status = st].status = st
         /\ [seen EXCEPT !.status = st].memo = new
         /\ [seen EXCEPT !.status = st].exit = session[p].exit
         /\ [seen EXCEPT !.status = st].unresolved = session[p].unresolved
  BY <1>3, <1>6 DEF Sessions
<1>8. /\ seen \in Sessions /\ seen.memo = new /\ seen.status = session[p].status
      /\ seen.exit = session[p].exit /\ seen.unresolved = session[p].unresolved
  BY <1>3, <1>6 DEF Sessions
<1> HIDE DEF seen
<1>9. Learnt(session[p].memo, session[p].memo) /\ session = [session EXCEPT ![p] = session[p]]
  <2>1. Learnt(session[p].memo, session[p].memo)
    BY <1>3 DEF Sessions, Memos, Learnt
  <2> QED  BY <2>1, StepUnchanged
<1>10. \A to : MovesOne(decision, Transition(k, "PENDING", to), k, "PENDING", to)
  <2>1. DecisionsTyped(decision, Revision)
    BY DEF BaseInv
  <2>2. PICK r : r = Revision
    OBVIOUS
  <2> QED  BY <2>1, <2>2, TransitionMoves
<1>11. MovesOne(decision, decision, k, "PENDING", "PENDING")
  BY DEF MovesOne, DecisionsTyped, Decisions, BaseInv
<1>12. CASE Finish(p, TRUE) /\ UNCHANGED <<session, decision>>
  <2>1. PICK s \in Sessions : s = session[p]
    BY <1>3
  <2>2. RevalidatedTo(p, s, "PENDING")
    BY <1>2, <1>9, <1>11, <1>12, <2>1 DEF RevalidatedTo
  <2> QED  BY <2>2, StatusesAre
<1>13. CASE /\ decision' = Transition(k, "PENDING", "MANUAL_REVIEW")
            /\ session' = [session EXCEPT ![p] = [seen EXCEPT !.status = "MANUAL_REVIEW"]]
            /\ Finish(p, FALSE)
  <2>1. PICK s \in Sessions : s = [seen EXCEPT !.status = "MANUAL_REVIEW"]
    BY <1>7
  <2>2. RevalidatedTo(p, s, "MANUAL_REVIEW")
    BY <1>2, <1>4, <1>7, <1>10, <1>13, <2>1 DEF RevalidatedTo
  <2> QED  BY <2>2, StatusesAre
<1>14. CASE /\ decision' = Transition(k, "PENDING", "SUPERSEDED")
            /\ session' = [session EXCEPT ![p] = seen]
            /\ Finish(p, FALSE)
  <2>1. PICK s \in Sessions : s = seen
    BY <1>8
  <2>2. RevalidatedTo(p, s, "SUPERSEDED")
    BY <1>2, <1>4, <1>8, <1>10, <1>14, <2>1 DEF RevalidatedTo
  <2> QED  BY <2>2, StatusesAre
<1>15. CASE /\ decision' = Transition(k, "PENDING", "EXECUTING") /\ Pending(p)
            /\ session' = [session EXCEPT ![p] = [seen EXCEPT !.status = "SELL_PENDING"]]
            /\ call' = [call EXCEPT ![p].pc = "selling"] /\ UNCHANGED pass
  <2>1. PICK s \in Sessions : s = [seen EXCEPT !.status = "SELL_PENDING"]
    BY <1>7
  <2>2. RevalidatedTo(p, s, "EXECUTING")
    BY <1>2, <1>4, <1>7, <1>10, <1>15, <2>1 DEF RevalidatedTo
  <2> QED  BY <2>2, StatusesAre
<1>16. CASE /\ decision' = Transition(k, "PENDING", "EXECUTING")
            /\ Finish(p, FALSE) /\ UNCHANGED session
  <2>1. PICK s \in Sessions : s = session[p]
    BY <1>3
  <2>2. RevalidatedTo(p, s, "EXECUTING")
    BY <1>2, <1>9, <1>10, <1>16, <2>1 DEF RevalidatedTo
  <2> QED  BY <2>2, StatusesAre
<1> QED  BY <1>5, <1>12, <1>13, <1>14, <1>15, <1>16

\* A call goes on, or ends, with its decision moved and its session saved.
LEMMA CallBase ==
  ASSUME BaseInv, NEW p \in Pairs, NEW s \in Sessions, NEW w \in Sellers(DOMAIN decision),
         NEW c \in Calls(DOMAIN decision), CallSound(p, s, c),
         UNCHANGED <<history, market, aged>>, Spend("faults") \/ UNCHANGED left,
         NEW from, NEW to \in Statuses, MovesOne(decision, decision', Asked(p), from, to),
         session' = [session EXCEPT ![p] = s], sold' = [sold EXCEPT ![p] = w],
         call' = [call EXCEPT ![p] = c], PassSound(pass', DOMAIN decision)
  PROVE  BaseInv'
<1>1. WorldTyped' /\ Revision' = Revision
  BY WorldStays
<1>2. DOMAIN decision' = DOMAIN decision
  BY DEF MovesOne
<1>3. PICK r, k : r = Revision /\ k = Asked(p)
  OBVIOUS
<1>4. DecisionsTyped(decision, r) /\ MovesOne(decision, decision', k, from, to)
  BY <1>3 DEF BaseInv
<1>5. DecisionsTyped(decision', r)
  BY <1>4, MovedTyped
<1>6. DecisionsTyped(decision', Revision')
  BY <1>1, <1>3, <1>5
<1>7. /\ c \in Calls(DOMAIN decision') /\ w \in Sellers(DOMAIN decision')
      /\ DOMAIN decision \subseteq DOMAIN decision' /\ PassSound(pass', DOMAIN decision')
  BY <1>2
<1> QED  BY <1>1, <1>6, <1>7, StepAtPair

\* A call that ends.
LEMMA EndBase ==
  ASSUME BaseInv, NEW p \in Pairs, NEW s \in Sessions, NEW w \in Sellers(DOMAIN decision),
         s.status = "HOLDING" => ~s.exit, NEW throws \in BOOLEAN, Finish(p, throws),
         UNCHANGED <<history, market, aged>>, Spend("faults") \/ UNCHANGED left,
         NEW from, NEW to \in Statuses, MovesOne(decision, decision', Asked(p), from, to),
         session' = [session EXCEPT ![p] = s], sold' = [sold EXCEPT ![p] = w]
  PROVE  BaseInv'
<1>1. call' = [call EXCEPT ![p] = NoCall] /\ PassSound(pass', DOMAIN decision)
  BY FinishSound
<1>2. CallSound(p, s, NoCall) /\ NoCall \in Calls(DOMAIN decision)
  BY NoCallSound
<1> QED  BY <1>1, <1>2, CallBase

LEMMA MovesStill ==
  ASSUME BaseInv, NEW k PROVE MovesOne(decision, decision, k, "PENDING", "PENDING")
BY DEF MovesOne, DecisionsTyped, Decisions, BaseInv

LEMMA AskedMoves ==
  ASSUME BaseInv, NEW p \in Pairs, NEW from, NEW to, decision' = Transition(Asked(p), from, to)
  PROVE  MovesOne(decision, decision', Asked(p), from, to)
<1>1. PICK k \in DOMAIN decision \cup {NoKey} : k = Asked(p)
  BY AskedOf
<1>2. PICK r : r = Revision /\ DecisionsTyped(decision, r)
  BY DEF BaseInv
<1> QED  BY <1>1, <1>2, TransitionMoves

LEMMA CheckBase == ASSUME BaseInv, NEW p \in Pairs, Check(p) PROVE BaseInv'
<1>1. UNCHANGED <<history, market, aged, session, sold, left>>
  BY DEF Check, worldVars
<1>2. /\ session' = [session EXCEPT ![p] = session[p]] /\ sold' = [sold EXCEPT ![p] = sold[p]]
      /\ session[p] \in Sessions /\ sold[p] \in Sellers(DOMAIN decision)
      /\ CallSound(p, session[p], call[p]) /\ call[p] \in Calls(DOMAIN decision)
  BY <1>1, StepUnchanged
<1>3. PICK s \in Sessions, w \in Sellers(DOMAIN decision) : s = session[p] /\ w = sold[p]
  BY <1>2
<1>4. \/ /\ OpenPosition(p) /\ UNCHANGED <<pass, decision>>
         /\ call' = [call EXCEPT ![p].pc = "probe"]
      \/ /\ Finish(p, FALSE)
         /\ \E to \in {"PENDING", "SUPERSEDED"} :
              MovesOne(decision, decision', Asked(p), "PENDING", to)
  BY CheckDoes
<1>5. CASE /\ OpenPosition(p) /\ UNCHANGED <<pass, decision>>
           /\ call' = [call EXCEPT ![p].pc = "probe"]
  <2>1. PICK c : c = [call[p] EXCEPT !.pc = "probe"]
    OBVIOUS
  <2>2. call' = [call EXCEPT ![p] = c]
    BY <1>5, <2>1
  <2>3. c \in Calls(DOMAIN decision) /\ c.pc = "probe" /\ c.key = call[p].key
    BY <1>2, <2>1 DEF Calls
  <2>4. CallSound(p, s, c)
    <3>1. call[p].key # NoKey
      BY <1>2 DEF Check, CallSound
    <3> QED  BY <1>2, <1>3, <1>5, <2>3, <3>1 DEF CallSound, OpenPosition
  <2>5. MovesOne(decision, decision', Asked(p), "PENDING", "PENDING")
    BY <1>5, MovesStill
  <2>6. PassSound(pass', DOMAIN decision)
    BY <1>5 DEF BaseInv
  <2> QED  BY <1>1, <1>2, <1>3, <2>2, <2>3, <2>4, <2>5, <2>6, CallBase, StatusesAre
<1>6. CASE /\ Finish(p, FALSE)
           /\ \E to \in {"PENDING", "SUPERSEDED"} :
                MovesOne(decision, decision', Asked(p), "PENDING", to)
  <2>1. PICK to \in Statuses : MovesOne(decision, decision', Asked(p), "PENDING", to)
    BY <1>6, StatusesAre
  <2>2. s.status = "HOLDING" => ~s.exit
    BY <1>2, <1>3 DEF CallSound
  <2> QED  BY <1>1, <1>2, <1>3, <1>6, <2>1, <2>2, EndBase
<1> QED  BY <1>4, <1>5, <1>6

LEMMA RevalidateBase == ASSUME BaseInv, NEW p \in Pairs, Revalidate(p) PROVE BaseInv'
<1>1. PICK s \in Sessions, to \in Statuses : RevalidatedTo(p, s, to)
  BY RevalidateDoes
<1>2. UNCHANGED <<history, market, aged, sold, left>>
  BY DEF Revalidate, worldVars
<1>3. /\ sold' = [sold EXCEPT ![p] = sold[p]] /\ sold[p] \in Sellers(DOMAIN decision)
      /\ CallSound(p, session[p], call[p]) /\ call[p] \in Calls(DOMAIN decision)
  BY <1>2, StepUnchanged
<1>4. PICK w \in Sellers(DOMAIN decision) : w = sold[p]
  BY <1>3
<1>5. /\ session' = [session EXCEPT ![p] = s]
      /\ MovesOne(decision, decision', Asked(p), "PENDING", to)
      /\ s.exit = session[p].exit
  BY <1>1 DEF RevalidatedTo
<1>6. CASE /\ s.status \in {session[p].status, "MANUAL_REVIEW"}
           /\ \E throws \in BOOLEAN : Finish(p, throws)
  <2>1. s.status = "HOLDING" => ~s.exit
    BY <1>3, <1>5, <1>6 DEF CallSound
  <2> QED  BY <1>2, <1>3, <1>4, <1>5, <1>6, <2>1, EndBase
<1>7. CASE /\ s.status = "SELL_PENDING" /\ call' = [call EXCEPT ![p].pc = "selling"]
           /\ UNCHANGED pass
  <2>1. PICK c : c = [call[p] EXCEPT !.pc = "selling"]
    OBVIOUS
  <2>2. call' = [call EXCEPT ![p] = c]
    BY <1>7, <2>1
  <2>3. c \in Calls(DOMAIN decision) /\ c.pc = "selling" /\ c.key = call[p].key
    BY <1>3, <2>1 DEF Calls
  <2>4. CallSound(p, s, c)
    BY <1>3, <1>7, <2>3 DEF CallSound
  <2>5. PassSound(pass', DOMAIN decision)
    BY <1>7 DEF BaseInv
  <2> QED  BY <1>2, <1>3, <1>4, <1>5, <2>2, <2>3, <2>4, <2>5, CallBase
<1> QED  BY <1>1, <1>6, <1>7 DEF RevalidatedTo

LEMMA SellManuallyBase == ASSUME BaseInv, NEW p \in Pairs, SellManually(p) PROVE BaseInv'
<1>1. UNCHANGED <<history, market, aged, decision, pass, sold, left>>
  BY DEF SellManually, worldVars
<1>2. /\ sold' = [sold EXCEPT ![p] = sold[p]] /\ sold[p] \in Sellers(DOMAIN decision)
      /\ session[p] \in Sessions
  BY <1>1, StepUnchanged
<1>3. PICK w \in Sellers(DOMAIN decision) : w = sold[p]
  BY <1>2
<1>4. PICK s : s = [session[p] EXCEPT !.status = "SELL_PENDING"]
  OBVIOUS
<1>5. s \in Sessions /\ s.status = "SELL_PENDING" /\ session' = [session EXCEPT ![p] = s]
  BY <1>2, <1>4 DEF Sessions, SellManually
<1>6. PICK c : c = [pc |-> "selling", by |-> "human", key |-> NoKey]
  OBVIOUS
<1>7. c \in Calls(DOMAIN decision) /\ CallSound(p, s, c) /\ call' = [call EXCEPT ![p] = c]
  BY <1>5, <1>6 DEF Calls, CallSound, SellManually
<1>8. MovesOne(decision, decision', Asked(p), "PENDING", "PENDING")
  BY <1>1, MovesStill
<1>9. PassSound(pass', DOMAIN decision)
  BY <1>1 DEF BaseInv
<1> QED  BY <1>1, <1>2, <1>3, <1>5, <1>7, <1>8, <1>9, CallBase, StatusesAre

LEMMA SellersAre ==
  ASSUME BaseInv, NEW p \in Pairs
  PROVE  Asked(p) \in Sellers(DOMAIN decision) /\ Unsold \in Sellers(DOMAIN decision)
BY AskedOf DEF Sellers

LEMMA SellBase == ASSUME BaseInv, NEW p \in Pairs, Sell(p) PROVE BaseInv'
<1>1. UNCHANGED <<history, market, aged, decision, pass, left>>
  BY DEF Sell, worldVars
<1>2. /\ session[p] \in Sessions /\ CallSound(p, session[p], call[p])
      /\ call[p] \in Calls(DOMAIN decision)
  BY StepUnchanged
<1>3. PICK w \in Sellers(DOMAIN decision) : w = Asked(p)
  BY SellersAre
<1>4. PICK s : s = [session[p] EXCEPT !.status = "CLOSED", !.exit = TRUE]
  OBVIOUS
<1>5. /\ s \in Sessions /\ s.status = "CLOSED"
      /\ session' = [session EXCEPT ![p] = s] /\ sold' = [sold EXCEPT ![p] = w]
  BY <1>2, <1>3, <1>4 DEF Sessions, Sell
<1>6. PICK c : c = [call[p] EXCEPT !.pc = "settle"]
  OBVIOUS
<1>7. c \in Calls(DOMAIN decision) /\ CallSound(p, s, c) /\ call' = [call EXCEPT ![p] = c]
  BY <1>2, <1>5, <1>6 DEF Calls, CallSound, Sell
<1>8. MovesOne(decision, decision', Asked(p), "PENDING", "PENDING")
  BY <1>1, MovesStill
<1>9. PassSound(pass', DOMAIN decision)
  BY <1>1 DEF BaseInv
<1> QED  BY <1>1, <1>2, <1>3, <1>5, <1>7, <1>8, <1>9, CallBase, StatusesAre

\* What the end of a sale that is not confirmed and saved does.
SaleEnds(p, s, w, to) ==
  /\ s.status = "MANUAL_REVIEW" /\ s.memo = session[p].memo
  /\ session' = [session EXCEPT ![p] = s] /\ sold' = [sold EXCEPT ![p] = w]
  /\ MovesOne(decision, decision', Asked(p), "EXECUTING", to)
  /\ Finish(p, FALSE)
  /\ \/ /\ to = "FAILED" /\ w = sold[p]
        /\ s.exit = session[p].exit /\ s.unresolved = session[p].unresolved
     \/ /\ to = "FAILED" /\ w = Asked(p) /\ sold[p] = Unsold
        /\ s.exit /\ s.unresolved = session[p].unresolved
     \/ /\ to = "EXECUTING" /\ w \in {Unsold, Asked(p)} /\ sold[p] = Unsold
        /\ s.exit = session[p].exit /\ s.unresolved

LEMMA SaleEndsSo ==
  ASSUME BaseInv, NEW p \in Pairs, SaleFails(p) \/ ClosingFails(p) \/ SaleUnresolved(p)
  PROVE  \E s \in Sessions, w \in Sellers(DOMAIN decision), to \in {"FAILED", "EXECUTING"} :
           SaleEnds(p, s, w, to)
<1>1. session[p] \in Sessions /\ sold[p] \in Sellers(DOMAIN decision)
      /\ sold = [sold EXCEPT ![p] = sold[p]]
  BY StepUnchanged
<1>2. CASE SaleFails(p)
  <2>1. PICK s, w : s = [session[p] EXCEPT !.status = "MANUAL_REVIEW"] /\ w = sold[p]
    OBVIOUS
  <2>2. /\ s \in Sessions /\ w \in Sellers(DOMAIN decision) /\ s.status = "MANUAL_REVIEW"
        /\ s.memo = session[p].memo
        /\ s.exit = session[p].exit /\ s.unresolved = session[p].unresolved
    BY <1>1, <2>1 DEF Sessions
  <2>3. /\ session' = [session EXCEPT ![p] = s] /\ sold' = [sold EXCEPT ![p] = w]
        /\ decision' = Transition(Asked(p), "EXECUTING", "FAILED") /\ Finish(p, FALSE)
    BY <1>1, <1>2, <2>1 DEF SaleFails
  <2>4. MovesOne(decision, decision', Asked(p), "EXECUTING", "FAILED")
    BY <2>3, AskedMoves
  <2>5. SaleEnds(p, s, w, "FAILED")
    BY <2>1, <2>2, <2>3, <2>4 DEF SaleEnds
  <2> QED  BY <2>2, <2>5
<1>3. CASE ClosingFails(p)
  <2>1. PICK s, w : s = [session[p] EXCEPT !.status = "MANUAL_REVIEW", !.exit = TRUE]
                    /\ w = Asked(p)
    OBVIOUS
  <2>2. /\ s \in Sessions /\ w \in Sellers(DOMAIN decision) /\ s.status = "MANUAL_REVIEW"
        /\ s.memo = session[p].memo /\ s.exit /\ s.unresolved = session[p].unresolved
    BY <1>1, <2>1, SellersAre DEF Sessions
  <2>3. /\ session' = [session EXCEPT ![p] = s] /\ sold' = [sold EXCEPT ![p] = w]
        /\ decision' = Transition(Asked(p), "EXECUTING", "FAILED") /\ Finish(p, FALSE)
        /\ sold[p] = Unsold
    BY <1>1, <1>3, <2>1 DEF ClosingFails, Sessions
  <2>4. MovesOne(decision, decision', Asked(p), "EXECUTING", "FAILED")
    BY <2>3, AskedMoves
  <2>5. SaleEnds(p, s, w, "FAILED")
    BY <2>1, <2>2, <2>3, <2>4 DEF SaleEnds
  <2> QED  BY <2>2, <2>5
<1>4. CASE SaleUnresolved(p)
  <2>1. PICK w \in {Unsold, Asked(p)} : sold' = [sold EXCEPT ![p] = w]
    BY <1>4 DEF SaleUnresolved
  <2>2. PICK s : s = [session[p] EXCEPT !.status = "MANUAL_REVIEW", !.unresolved = TRUE]
    OBVIOUS
  <2>3. /\ s \in Sessions /\ w \in Sellers(DOMAIN decision) /\ s.status = "MANUAL_REVIEW"
        /\ s.memo = session[p].memo /\ s.exit = session[p].exit /\ s.unresolved
    BY <1>1, <2>1, <2>2, SellersAre DEF Sessions
  <2>4. /\ session' = [session EXCEPT ![p] = s] /\ sold[p] = Unsold
        /\ decision' = decision /\ Finish(p, FALSE)
    BY <1>1, <1>4, <2>2 DEF SaleUnresolved, Sessions
  <2>5. MovesOne(decision, decision', Asked(p), "EXECUTING", "EXECUTING")
    BY <2>4 DEF MovesOne, DecisionsTyped, Decisions, BaseInv
  <2>6. SaleEnds(p, s, w, "EXECUTING")
    BY <2>1, <2>3, <2>4, <2>5 DEF SaleEnds
  <2> QED  BY <2>3, <2>6
<1> QED  BY <1>2, <1>3, <1>4

LEMMA SaleEndsBase ==
  ASSUME BaseInv, NEW p \in Pairs, SaleFails(p) \/ ClosingFails(p) \/ SaleUnresolved(p)
  PROVE  BaseInv'
<1>1. PICK s \in Sessions, w \in Sellers(DOMAIN decision), to \in Statuses : SaleEnds(p, s, w, to)
  BY SaleEndsSo, StatusesAre
<1>2. UNCHANGED <<history, market, aged>> /\ (Spend("faults") \/ UNCHANGED left)
  BY DEF SaleFails, ClosingFails, SaleUnresolved, worldVars
<1>3. /\ session' = [session EXCEPT ![p] = s] /\ sold' = [sold EXCEPT ![p] = w]
      /\ MovesOne(decision, decision', Asked(p), "EXECUTING", to) /\ Finish(p, FALSE)
      /\ s.status = "MANUAL_REVIEW"
  BY <1>1 DEF SaleEnds
<1> QED  BY <1>2, <1>3, EndBase

LEMMA SettleBase == ASSUME BaseInv, NEW p \in Pairs, Settle(p) PROVE BaseInv'
<1>1. UNCHANGED <<history, market, aged, session, sold, left>>
  BY DEF Settle, worldVars
<1>2. /\ session' = [session EXCEPT ![p] = session[p]] /\ sold' = [sold EXCEPT ![p] = sold[p]]
      /\ session[p] \in Sessions /\ sold[p] \in Sellers(DOMAIN decision)
      /\ CallSound(p, session[p], call[p])
  BY <1>1, StepUnchanged
<1>3. PICK s \in Sessions, w \in Sellers(DOMAIN decision) : s = session[p] /\ w = sold[p]
  BY <1>2
<1>4. decision' = Transition(Asked(p), "EXECUTING", "EXECUTED") /\ Finish(p, FALSE)
  BY DEF Settle
<1>5. MovesOne(decision, decision', Asked(p), "EXECUTING", "EXECUTED")
  BY <1>4, AskedMoves
<1>6. s.status = "HOLDING" => ~s.exit
  BY <1>2, <1>3 DEF CallSound
<1> QED  BY <1>1, <1>2, <1>3, <1>4, <1>5, <1>6, EndBase, StatusesAre

LEMMA RecoverBase == ASSUME BaseInv, NEW p \in Pairs, Recover(p) PROVE BaseInv'
<1>1. UNCHANGED <<history, market, aged, decision, pass, call, sold, left>>
  BY DEF Recover, worldVars
<1>2. /\ sold' = [sold EXCEPT ![p] = sold[p]] /\ call' = [call EXCEPT ![p] = call[p]]
      /\ session[p] \in Sessions /\ sold[p] \in Sellers(DOMAIN decision)
      /\ CallSound(p, session[p], call[p]) /\ call[p] \in Calls(DOMAIN decision)
  BY <1>1, StepUnchanged
<1>3. PICK s : s = [session[p] EXCEPT !.unresolved = FALSE, !.exit = sold[p] # Unsold,
                                      !.status = IF sold[p] = Unsold THEN "HOLDING" ELSE "CLOSED"]
  OBVIOUS
<1>4. /\ s \in Sessions /\ (s.status = "HOLDING" => ~s.exit)
      /\ session' = [session EXCEPT ![p] = s]
  BY <1>2, <1>3 DEF Sessions, Recover
<1>5. PICK w \in Sellers(DOMAIN decision), c \in Calls(DOMAIN decision) : w = sold[p] /\ c = call[p]
  BY <1>2
<1>6. CallSound(p, s, c)
  BY <1>2, <1>4, <1>5 DEF CallSound, Recover
<1>7. MovesOne(decision, decision', Asked(p), "PENDING", "PENDING")
  BY <1>1, MovesStill
<1>8. PassSound(pass', DOMAIN decision)
  BY <1>1 DEF BaseInv
<1> QED  BY <1>1, <1>2, <1>4, <1>5, <1>6, <1>7, <1>8, CallBase, StatusesAre

LEMMA RestartBase == ASSUME BaseInv, Restart PROVE BaseInv'
<1>1. UNCHANGED <<history, market, aged>> /\ Spend("faults")
  BY DEF Restart, worldVars
<1>2. WorldTyped' /\ Revision' = Revision
  BY <1>1, WorldStays
<1>3. /\ DOMAIN decision' = DOMAIN decision
      /\ \A k \in DOMAIN decision :
           decision'[k] = IF k \in Recoverable
                          THEN [decision[k] EXCEPT !.status = "MANUAL_REVIEW"] ELSE decision[k]
  BY DEF Restart
<1>4. DecisionsTyped(decision', Revision')
  <2>1. \A k \in DOMAIN decision : decision[k] \in Decisions
    BY DEF BaseInv, DecisionsTyped
  <2>2. \A k \in DOMAIN decision : [decision[k] EXCEPT !.status = "MANUAL_REVIEW"] \in Decisions
    BY <2>1 DEF Decisions, Statuses
  <2>3. DOMAIN decision \subseteq Pairs \X (0..Revision) \X AllRules
    BY DEF BaseInv, DecisionsTyped
  <2> QED  BY <1>2, <1>3, <2>1, <2>2, <2>3 DEF DecisionsTyped
<1>5. session' = [p \in Pairs |->
                   IF session[p].status = "CLOSED" \/ session[p].quarantined THEN session[p]
                   ELSE [session[p] EXCEPT !.status = "MANUAL_REVIEW", !.quarantined = TRUE]]
  BY DEF Restart
<1>6. \A p \in Pairs :
        LET s == [session[p] EXCEPT !.status = "MANUAL_REVIEW", !.quarantined = TRUE]
        IN session[p] \in Sessions /\ s \in Sessions /\ s.status = "MANUAL_REVIEW"
  BY DEF BaseInv, Sessions
<1>7. session' \in [Pairs -> Sessions] /\ \A p \in Pairs : session'[p].status # "HOLDING" \/ ~session'[p].exit
  BY <1>5, <1>6 DEF BaseInv, CallSound
<1>8. NoCall \in Calls(DOMAIN decision) /\ call' = [p \in Pairs |-> NoCall]
  BY DEF NoCall, Calls, Restart
<1>9. sold' \in [Pairs -> Sellers(DOMAIN decision)]
  <2>1. \A p \in Pairs : Asked(p) \in Sellers(DOMAIN decision) /\ sold[p] \in Sellers(DOMAIN decision)
    BY SellersAre DEF BaseInv
  <2>2. PICK landed : sold' = [p \in Pairs |-> IF p \in landed THEN Asked(p) ELSE sold[p]]
    BY DEF Restart
  <2> QED  BY <2>1, <2>2
<1>10. \A p \in Pairs : CallSound(p, session'[p], call'[p])
  BY <1>7, <1>8 DEF CallSound, NoCall
<1>11. PassSound(pass', DOMAIN decision')
  BY NoPassSound DEF Restart
<1>12. DOMAIN decision' = DOMAIN decision
  BY <1>3
<1> QED  BY <1>2, <1>4, <1>7, <1>8, <1>9, <1>10, <1>11, <1>12 DEF BaseInv

LEMMA BaseStep == BaseInv /\ [Next]_vars => BaseInv'
<1> SUFFICES ASSUME BaseInv, [Next]_vars PROVE BaseInv'
  OBVIOUS
<1>1. CASE World
  BY <1>1, WorldBase
<1>2. CASE Monitoring
  <2>1. ASSUME NEW k \in DOMAIN pass.open, TakeUp(k) PROVE BaseInv'
    BY <2>1, TakeUpBase
  <2>2. ASSUME NEW p \in Pairs, NEW asked \in BOOLEAN, Evaluate(p, asked) PROVE BaseInv'
    BY <2>2, EvaluateBase
  <2> QED  BY <1>2, <2>1, <2>2, PassBase, AskExitBase DEF Monitoring
<1>3. CASE Restart
  BY <1>3, RestartBase
<1>4. ASSUME NEW p \in Pairs,
             Calling(p) \/ Failing(p) \/ Buy(p) \/ SellManually(p) \/ Recover(p)
      PROVE  BaseInv'
  BY <1>4, CheckBase, RevalidateBase, SellBase, SettleBase, SaleEndsBase, BuyBase,
     SellManuallyBase, RecoverBase DEF Calling, Failing
<1>5. CASE UNCHANGED vars
  BY <1>5, StepNowhere DEF vars, worldVars, BaseInv, WorldTyped, Revision
<1> QED  BY <1>1, <1>2, <1>3, <1>4, <1>5 DEF Next

\* Types, and what the lock of a pair guarantees of the call that holds it (withLock,
\* requestPolicyExitLocked): whatever is saved by whom.
THEOREM BaseInvariant == Spec => []BaseInv
BY BaseInit, BaseStep, PTL DEF Spec

\* Every variable of the exit policy keeps its type, whatever is saved by whom: the key of
\* a decision names a position, a revision of the settings that exists and a rule, and a
\* call is about the position whose lock it holds.
THEOREM ExitsAreTyped == Spec => []ExitTypeOK
BY BaseInvariant, BaseIsTyped, PTL

------------------------------------------------------------------------------
(* Why a position is sold.                                                  *)

LEMMA MeasureSells ==
  ASSUME BaseInv, Next, NEW p \in Pairs, call[p].pc # "selling", call'[p].pc = "selling",
         call'[p].key # NoKey
  PROVE  Revalidate(p)
<1>1. call \in [Pairs -> Calls(DOMAIN decision)] /\ call'[p] # call[p] /\ NoCall.pc = "idle"
  BY DEF BaseInv, NoCall
<1>2. CASE World
  BY <1>1, <1>2 DEF World, ResetSettings, SaveSettings, MoveMarket, Age
<1>3. CASE Monitoring
  <2>1. CASE AskExit
    <3>1. PICK q, c : q = pass.at[1] /\ c = [pc |-> "check", by |-> "monitor", key |-> pass.at]
      OBVIOUS
    <3>2. call' = [call EXCEPT ![q] = c] /\ c.pc = "check"
      BY <2>1, <3>1 DEF AskExit
    <3> QED  BY <1>1, <3>2
  <2>2. CASE PassStart \/ LoadHolding \/ PassEnd
    BY <1>1, <2>2 DEF PassStart, LoadHolding, PassEnd
  <2>3. ASSUME NEW k \in DOMAIN pass.open, TakeUp(k) PROVE FALSE
    BY <1>1, <2>3 DEF TakeUp
  <2>4. ASSUME NEW q \in Pairs, NEW asked \in BOOLEAN, Evaluate(q, asked) PROVE FALSE
    BY <1>1, <2>4 DEF Evaluate
  <2> QED  BY <1>3, <2>1, <2>2, <2>3, <2>4 DEF Monitoring
<1>4. CASE Restart
  BY <1>1, <1>4 DEF Restart
<1>5. ASSUME NEW q \in Pairs,
             Calling(q) \/ Failing(q) \/ Buy(q) \/ SellManually(q) \/ Recover(q)
      PROVE  Revalidate(p)
  <2>1. CASE q = p
    <3>1. CASE Check(p)
      <4>1. call' = [call EXCEPT ![p] = [call[p] EXCEPT !.pc = "probe"]]
            \/ call' = [call EXCEPT ![p] = NoCall]
        BY <3>1 DEF Check, Finish
      <4>2. call[p] \in Calls(DOMAIN decision)
        BY <1>1
      <4> QED  BY <1>1, <4>1, <4>2 DEF Calls
    <3>2. CASE Sell(p) \/ SaleFails(p) \/ ClosingFails(p) \/ SaleUnresolved(p)
      BY <3>2 DEF Sell, SaleFails, ClosingFails, SaleUnresolved
    <3>3. CASE Settle(p)
      BY <1>1, <3>3 DEF Settle, Finish
    <3>4. CASE Buy(p)
      <4>1. PICK k : call' = call
                     \/ call' = [call EXCEPT ![p] = [pc |-> "check", by |-> "swap", key |-> k]]
        BY <3>4, BuyDoes DEF BoughtTo
      <4> QED  BY <1>1, <4>1
    <3>5. CASE SellManually(p)
      BY <1>1, <3>5 DEF SellManually
    <3>6. CASE Recover(p)
      BY <1>1, <3>6 DEF Recover
    <3> QED  BY <1>5, <2>1, <3>1, <3>2, <3>3, <3>4, <3>5, <3>6 DEF Calling, Failing
  <2>2. CASE q # p
    <3>1. CASE call' = call
      BY <1>1, <3>1
    <3>2. ASSUME NEW c, call' = [call EXCEPT ![q] = c] PROVE FALSE
      BY <1>1, <2>2, <3>2
    <3>3. CASE Check(q)
      <4>1. call' = [call EXCEPT ![q] = [call[q] EXCEPT !.pc = "probe"]]
            \/ call' = [call EXCEPT ![q] = NoCall]
        BY <3>3 DEF Check, Finish
      <4> QED  BY <3>2, <4>1
    <3>4. CASE Revalidate(q)
      <4>1. call' = [call EXCEPT ![q] = [call[q] EXCEPT !.pc = "selling"]]
            \/ call' = [call EXCEPT ![q] = NoCall]
        BY <3>4 DEF Revalidate, Finish
      <4> QED  BY <3>2, <4>1
    <3>5. CASE Sell(q)
      <4>1. call' = [call EXCEPT ![q] = [call[q] EXCEPT !.pc = "settle"]]
        BY <3>5 DEF Sell
      <4> QED  BY <3>2, <4>1
    <3>6. CASE SaleFails(q) \/ ClosingFails(q) \/ SaleUnresolved(q) \/ Settle(q)
      <4>1. call' = [call EXCEPT ![q] = NoCall]
        BY <3>6 DEF SaleFails, ClosingFails, SaleUnresolved, Settle, Finish
      <4> QED  BY <3>2, <4>1
    <3>7. CASE Buy(q)
      <4>1. PICK k : call' = call
                     \/ call' = [call EXCEPT ![q] = [pc |-> "check", by |-> "swap", key |-> k]]
        BY <3>7, BuyDoes DEF BoughtTo
      <4> QED  BY <3>1, <3>2, <4>1
    <3>8. CASE SellManually(q)
      <4>1. call' = [call EXCEPT ![q] = [pc |-> "selling", by |-> "human", key |-> NoKey]]
        BY <3>8 DEF SellManually
      <4> QED  BY <3>2, <4>1
    <3>9. CASE Recover(q)
      BY <1>1, <3>9 DEF Recover
    <3> QED  BY <1>5, <3>3, <3>4, <3>5, <3>6, <3>7, <3>8, <3>9 DEF Calling, Failing
  <2> QED  BY <2>1, <2>2
<1> QED  BY <1>2, <1>3, <1>4, <1>5 DEF Next

\* A verdict that sells has the reason for what it asks.
LEMMA VerdictMeans ==
  ASSUME NEW pol, NEW memo, NEW x \in Measures, NEW old, NEW buys, NEW v,
         v = Verdict(pol, memo, x, old, buys), v.action \in {"SELL", "EMERGENCY_SELL"},
         {pol.gasRatio, pol.emergencyGas} \subseteq Nat
  PROVE  x.probe = "SAFE" /\ Reason(v.action, pol, memo, x, old, buys)
<1> DEFINE triggered == {i \in DOMAIN Rules : Holds(Rules[i], pol, memo, x, old, buys)}
           met(rule) == Holds(rule, pol, memo, x, old, buys)
<1>1. DOMAIN Rules = 1..8
  BY DEF Rules
<1>2. triggered # {}
  BY DEF Verdict, Hold
<1>3. PICK i \in 1..8 : i = Min(triggered) /\ i \in triggered /\ \A j \in triggered : i =< j
  <2>1. triggered \subseteq 1..8
    BY <1>1
  <2> HIDE DEF triggered
  <2> QED  BY <1>2, <2>1, MinOfEight
<1>4. /\ Rules[1] = "SELLABILITY_UNCERTAIN" /\ Rules[2] = "SELLABILITY_BLOCKED"
      /\ Rules[3] = "LIQUIDITY_DROP" /\ Rules[4] = "STOP_LOSS" /\ Rules[5] = "MAX_HOLDING_TIME"
      /\ Rules[6] = "TRAILING_STOP" /\ Rules[7] = "TAKE_PROFIT" /\ Rules[8] = "TARGET_BUYS"
  BY DEF Rules
<1>5. /\ met(Rules[i]) /\ \A j \in 1..8 : met(Rules[j]) => i =< j
      /\ v = CASE triggered = {} -> Hold
              [] triggered # {} /\ Rules[i] \in {"SELLABILITY_UNCERTAIN", "SELLABILITY_BLOCKED"} ->
                   Review(Rules[i])
              [] triggered # {} /\ Rules[i] = "LIQUIDITY_DROP" ->
                   IF x.gas > pol.emergencyGas THEN Review("EMERGENCY_GAS_EXCEEDED")
                   ELSE [action |-> "EMERGENCY_SELL", rule |-> Rules[i]]
              [] OTHER ->
                   IF x.net = 0 \/ x.gas * Bps > x.net * pol.gasRatio THEN Review("GAS_RATIO_EXCEEDED")
                   ELSE [action |-> "SELL", rule |-> Rules[i]]
  BY <1>1, <1>3 DEF Verdict
<1> HIDE DEF triggered
<1>6. Rules[i] \notin {"SELLABILITY_UNCERTAIN", "SELLABILITY_BLOCKED"}
  BY <1>2, <1>5 DEF Review
<1>7. i # 1 /\ i # 2
  BY <1>4, <1>6
<1>8. ~met("SELLABILITY_UNCERTAIN") /\ ~met("SELLABILITY_BLOCKED") /\ (i # 3 => ~met("LIQUIDITY_DROP"))
  BY <1>4, <1>5, <1>7
<1>9. x.probe = "SAFE"
  BY <1>8 DEF Holds, Measures
<1>10. met("LIQUIDITY_DROP") <=> Fallen(pol, memo, x)
  BY DEF Holds, Fallen
<1>11. Bps \in Nat /\ x.gas \in Nat /\ x.net \in Nat /\ pol.gasRatio \in Nat /\ pol.emergencyGas \in Nat
  BY ExitAssumption DEF Measures
<1>12. x.gas * Bps \in Nat /\ x.net * pol.gasRatio \in Nat
  BY <1>11
<1>13. CASE i = 3
  <2>1. v.action = "EMERGENCY_SELL" /\ ~(x.gas > pol.emergencyGas)
    BY <1>2, <1>4, <1>5, <1>13 DEF Review
  <2>2. Fallen(pol, memo, x) /\ x.gas <= pol.emergencyGas
    BY <1>4, <1>5, <1>10, <1>11, <1>13, <2>1
  <2> QED  BY <1>9, <2>1, <2>2 DEF Reason
<1>14. CASE i # 3
  <2>1. i \in 4..8
    BY <1>7, <1>14
  <2>2. Rules[i] \in {"STOP_LOSS", "MAX_HOLDING_TIME", "TRAILING_STOP", "TAKE_PROFIT", "TARGET_BUYS"}
    BY <1>4, <2>1
  <2>3. v.action = "SELL" /\ ~(x.net = 0 \/ x.gas * Bps > x.net * pol.gasRatio)
    BY <1>2, <1>5, <1>6, <2>2 DEF Review
  <2>4. x.net > 0 /\ x.gas * Bps <= x.net * pol.gasRatio
    BY <1>11, <1>12, <2>3
  <2>5. ~Fallen(pol, memo, x)
    BY <1>8, <1>10, <1>14
  <2> QED  BY <1>5, <1>9, <2>2, <2>3, <2>4, <2>5 DEF Reason
<1> QED  BY <1>13, <1>14

\* A sale that starts has the reason its decision has recorded.
LEMMA SaleHasReason ==
  ASSUME BaseInv, NEW p \in Pairs, Revalidate(p), call'[p].pc = "selling", NEW k, k = call'[p].key
  PROVE  /\ decision[k].status = "PENDING" /\ k[2] \in 0..Revision
         /\ session[p].status = "HOLDING" /\ ~session[p].exit
         /\ LET pol == PolicyOf(k[2])
                x == Metrics(pol, session[p].memo, market[p], TRUE)
            IN /\ market[p].readable /\ x.probe = "SAFE"
               /\ Reason(decision[k].action, pol, session[p].memo, x, p \in aged,
                         session[p].buys)
<1>1. Asked(p) # NoKey /\ session[p].status = "HOLDING" /\ ~session[p].exit
  BY DEF Revalidate, BaseInv, CallSound, Asked
<1>2. Asked(p) \in DOMAIN decision /\ Asked(p)[2] \in 0..Revision
  BY <1>1, AskedOf
<1>3. ~(\E throws \in BOOLEAN : Finish(p, throws))
  BY DEF Finish, NoCall, BaseInv
<1>4. call' = [call EXCEPT ![p].pc = "selling"]
  BY <1>3 DEF Revalidate
<1>5. Asked(p) = k
  BY <1>4 DEF Asked, BaseInv, Calls
<1>6. PICK pol, memo, m, old, buys :
        pol = PolicyOf(k[2]) /\ memo = session[p].memo /\ m = market[p]
        /\ old = (p \in aged) /\ buys = session[p].buys
  OBVIOUS
<1>7. PICK x : x = Metrics(pol, memo, m, TRUE)
  OBVIOUS
<1>8. PICK v : v = Verdict(pol, memo, x, old, buys)
  OBVIOUS
<1>9. /\ m.readable /\ v.action # "MANUAL_REVIEW" /\ Claims(p, v) /\ Pending(p)
  BY <1>3, <1>5, <1>6, <1>7, <1>8 DEF Revalidate
<1>10. decision[k].action \in {"SELL", "EMERGENCY_SELL", "MANUAL_REVIEW"} /\ v.action = decision[k].action
  BY <1>2, <1>5, <1>9 DEF BaseInv, DecisionsTyped, Decisions, Claims
<1>11. pol \in Policies /\ memo \in Memos /\ m \in Markets
  BY <1>2, <1>5, <1>6, RevisionsExist DEF BaseInv, WorldTyped, Sessions
<1>12. x \in Measures
  BY <1>7, <1>11, MetricsTyped
<1>13. {pol.gasRatio, pol.emergencyGas} \subseteq Nat
  BY <1>11, ExitAssumption
<1>14. x.probe = "SAFE" /\ Reason(v.action, pol, memo, x, old, buys)
  BY <1>8, <1>9, <1>10, <1>12, <1>13, VerdictMeans
<1> QED  BY <1>1, <1>2, <1>5, <1>6, <1>7, <1>9, <1>10, <1>14 DEF Pending, Status

\* No sale of the policy starts but for its reason: whatever was evaluated before the
\* lock of the pair was taken, its decision is open, the position is held, and under the
\* settings of the revision that decided it, in the market as it is then, it has the
\* reason the decision records (requestPolicyExitLocked), also while the monitor saves
\* stale copies.
THEOREM PolicySellsForReason == Spec => SoldForReason
<1>1. BaseInv /\ [Next]_vars =>
        [\A p \in Pairs :
           LET k == call'[p].key IN
           call[p].pc # "selling" /\ call'[p].pc = "selling" /\ k # NoKey =>
             /\ decision[k].status = "PENDING" /\ k[2] \in 0..Revision
             /\ session[p].status = "HOLDING" /\ ~session[p].exit
             /\ LET pol == PolicyOf(k[2])
                    x == Metrics(pol, session[p].memo, market[p], TRUE)
                IN /\ market[p].readable /\ x.probe = "SAFE"
                   /\ Reason(decision[k].action, pol, session[p].memo, x, p \in aged,
                             session[p].buys)]_vars
  <2> SUFFICES ASSUME BaseInv, Next, NEW p \in Pairs,
                      call[p].pc # "selling", call'[p].pc = "selling", call'[p].key # NoKey
               PROVE  LET k == call'[p].key IN
                      /\ decision[k].status = "PENDING" /\ k[2] \in 0..Revision
                      /\ session[p].status = "HOLDING" /\ ~session[p].exit
                      /\ LET pol == PolicyOf(k[2])
                             x == Metrics(pol, session[p].memo, market[p], TRUE)
                         IN /\ market[p].readable /\ x.probe = "SAFE"
                            /\ Reason(decision[k].action, pol, session[p].memo, x, p \in aged,
                                      session[p].buys)
    OBVIOUS
  <2>1. Revalidate(p)
    BY MeasureSells
  <2>2. PICK k : k = call'[p].key
    OBVIOUS
  <2> QED  BY <2>1, <2>2, SaleHasReason
<1> QED  BY <1>1, BaseInvariant, PTL DEF Spec, SoldForReason
------------------------------------------------------------------------------
(* What becomes of a sale, while the monitor saves no stale copy.           *)

\* The copies of a pass are the sessions, and nobody holds their locks.
CopiesTrue(ps, sess, calls) ==
  /\ ps.pc # "holding" => DOMAIN ps.copies = {}
  /\ \A p \in DOMAIN ps.copies : ps.copies[p] = sess[p] /\ calls[p].pc = "idle"
  /\ ps.at # NoKey => ps.at[1] \notin DOMAIN ps.copies

\* What the session of a pair, its decisions, its call and the chain know of one another.
PairInv(p, d, s, w, c) ==
  /\ s.status = "HOLDING" => w = Unsold /\ ~s.unresolved
  /\ s.exit => w # Unsold
  /\ s.status = "CLOSED" => s.exit
  /\ c.pc = "selling" => s.status = "SELL_PENDING"
  /\ c.pc = "selling" /\ c.key # NoKey => w = Unsold /\ d[c.key].status = "EXECUTING"
  /\ c.pc = "settle" => s.exit
  /\ \A k \in DOMAIN d :
       k[1] = p => /\ d[k].status = "EXECUTED" => s.exit
                   /\ d[k].status = "FAILED" /\ w = k => s.exit

ExitInv ==
  /\ BaseInv
  /\ CopiesTrue(pass, session, call)
  /\ \A p \in Pairs : PairInv(p, decision, session[p], sold[p], call[p])

LEMMA ExitInit == Init => ExitInv
<1> SUFFICES ASSUME Init PROVE ExitInv
  OBVIOUS
<1>1. DOMAIN decision = {} /\ DOMAIN NoPass.copies = {}
  BY DEF Init, NoPass
<1>2. CopiesTrue(pass, session, call)
  BY <1>1 DEF Init, CopiesTrue, NoPass
<1>3. \A p \in Pairs : PairInv(p, decision, session[p], sold[p], call[p])
  BY <1>1 DEF Init, PairInv, Opened, NoCall
<1> QED  BY <1>2, <1>3, BaseInit DEF ExitInv

\* The decisions of the other pairs stay as they are.
OthersSame(p, d, e) ==
  \A k \in DOMAIN e : k[1] # p => k \in DOMAIN d /\ e[k] = d[k]

LEMMA MovedOthers ==
  ASSUME BaseInv, NEW p, NEW k, k # NoKey => k[1] = p, NEW from, NEW to,
         MovesOne(decision, decision', k, from, to)
  PROVE  OthersSame(p, decision, decision')
<1>1. \A j \in DOMAIN decision : j # NoKey
  BY KeysAreKeys DEF BaseInv, DecisionsTyped
<1> QED  BY <1>1 DEF MovesOne, OthersSame

LEMMA AddedOthers ==
  ASSUME NEW p, NEW k, k[1] = p, NEW action, AddsOne(decision, decision', k, action)
  PROVE  OthersSame(p, decision, decision')
BY DEF AddsOne, OthersSame

LEMMA OthersKeepInv ==
  ASSUME NEW p, NEW q, q # p, NEW d, NEW e, OthersSame(p, d, e), NEW s, NEW w, NEW c,
         c.key # NoKey => c.key[1] = q /\ c.key \in DOMAIN e,
         PairInv(q, d, s, w, c)
  PROVE  PairInv(q, e, s, w, c)
BY DEF PairInv, OthersSame

LEMMA InvAtPair ==
  ASSUME ExitInv, BaseInv', CopiesTrue(pass', session', call'), NEW p \in Pairs,
         NEW s, NEW w, NEW c, PairInv(p, decision', s, w, c),
         OthersSame(p, decision, decision'), DOMAIN decision \subseteq DOMAIN decision',
         session' = [session EXCEPT ![p] = s], call' = [call EXCEPT ![p] = c],
         sold' = [sold EXCEPT ![p] = w]
  PROVE  ExitInv'
<1>1. \A q \in Pairs : PairInv(q, decision', session'[q], sold'[q], call'[q])
  <2> SUFFICES ASSUME NEW q \in Pairs
               PROVE  PairInv(q, decision', session'[q], sold'[q], call'[q])
    OBVIOUS
  <2>1. /\ session \in [Pairs -> Sessions] /\ call \in [Pairs -> Calls(DOMAIN decision)]
        /\ sold \in [Pairs -> Sellers(DOMAIN decision)]
    BY DEF ExitInv, BaseInv
  <2>2. CASE q = p
    <3>1. session'[q] = s /\ sold'[q] = w /\ call'[q] = c
      BY <2>1, <2>2
    <3> QED  BY <2>2, <3>1
  <2>3. CASE q # p
    <3>1. session'[q] = session[q] /\ sold'[q] = sold[q] /\ call'[q] = call[q]
      BY <2>1, <2>3
    <3>2. PICK s1, w1, c1 : s1 = session[q] /\ w1 = sold[q] /\ c1 = call[q]
      OBVIOUS
    <3>3. c1.key # NoKey => c1.key[1] = q /\ c1.key \in DOMAIN decision'
      BY <2>1, <3>2 DEF ExitInv, BaseInv, CallSound, Calls
    <3>4. PairInv(q, decision, s1, w1, c1)
      BY <3>2 DEF ExitInv
    <3>5. PairInv(q, decision', s1, w1, c1)
      BY <2>3, <3>3, <3>4, OthersKeepInv
    <3> QED  BY <3>1, <3>2, <3>5
  <2> QED  BY <2>2, <2>3
<1> QED  BY <1>1 DEF ExitInv

\* A step at a pair that is none of the copies.
LEMMA CopiesStay ==
  ASSUME ExitInv, NEW p, p \notin DOMAIN pass.copies, NEW s, NEW c,
         session' = [session EXCEPT ![p] = s], call' = [call EXCEPT ![p] = c],
         pass' \in {pass, [pass EXCEPT !.at = NoKey], NoPass}
  PROVE  CopiesTrue(pass', session', call')
<1>1. /\ session \in [Pairs -> Sessions] /\ call \in [Pairs -> Calls(DOMAIN decision)]
      /\ DOMAIN pass.copies \subseteq Pairs
      /\ pass = [pc |-> pass.pc, open |-> pass.open, copies |-> pass.copies, at |-> pass.at]
  BY DEF ExitInv, BaseInv, PassSound
<1>2. \A q \in DOMAIN pass.copies : session'[q] = session[q] /\ call'[q] = call[q]
  BY <1>1
<1>3. CopiesTrue(pass, session', call')
  BY <1>2 DEF ExitInv, CopiesTrue
<1>4. CASE pass' = pass
  BY <1>3, <1>4
<1>5. CASE pass' = [pass EXCEPT !.at = NoKey]
  BY <1>1, <1>3, <1>5 DEF CopiesTrue
<1>6. CASE pass' = NoPass
  <2>1. DOMAIN NoPass.copies = {} /\ NoPass.at = NoKey
    BY DEF NoPass
  <2> QED  BY <1>6, <2>1 DEF CopiesTrue
<1> QED  BY <1>4, <1>5, <1>6

LEMMA BusyNotCopied ==
  ASSUME ExitInv, NEW p, call[p].pc # "idle" PROVE p \notin DOMAIN pass.copies
BY DEF ExitInv, CopiesTrue

LEMMA FinishPass ==
  ASSUME NEW p \in Pairs, NEW throws \in BOOLEAN, Finish(p, throws)
  PROVE  /\ pass' \in {pass, [pass EXCEPT !.at = NoKey], NoPass}
         /\ call' = [call EXCEPT ![p] = NoCall]
BY DEF Finish

LEMMA StillInv ==
  ASSUME ExitInv, BaseInv', CopiesTrue(pass', session, call), UNCHANGED <<session, call, sold, decision>>
  PROVE  ExitInv'
BY DEF ExitInv

LEMMA WorldExit == ASSUME ExitInv, World PROVE ExitInv'
<1>1. UNCHANGED <<session, decision, pass, call, sold>>
  BY DEF World, ResetSettings, SaveSettings, MoveMarket, Age
<1>2. BaseInv'
  BY WorldBase DEF ExitInv
<1>3. CopiesTrue(pass', session, call)
  BY <1>1 DEF ExitInv
<1> QED  BY <1>1, <1>2, <1>3, StillInv

LEMMA PassExit ==
  ASSUME ~Overlap, ExitInv, PassStart \/ LoadHolding \/ PassEnd PROVE ExitInv'
<1>1. UNCHANGED <<session, decision, call, sold>> /\ BaseInv'
  BY PassBase DEF PassStart, LoadHolding, PassEnd, ExitInv
<1>2. DOMAIN NoPass.copies = {} /\ NoPass.at = NoKey
  BY DEF NoPass
<1>3. CASE PassStart
  <2>1. PICK open : pass' = [NoPass EXCEPT !.pc = "open", !.open = open]
    BY <1>3 DEF PassStart
  <2>2. DOMAIN pass'.copies = {} /\ pass'.at = NoKey
    BY <1>2, <2>1 DEF NoPass
  <2>3. CopiesTrue(pass', session, call)
    BY <2>2 DEF CopiesTrue
  <2> QED  BY <1>1, <2>3, StillInv
<1>4. CASE LoadHolding
  <2> DEFINE copies == [p \in {q \in Pairs : session[q].status = "HOLDING"} |-> session[p]]
  <2>1. /\ pass' = [pass EXCEPT !.pc = "holding", !.copies = copies] /\ pass.at = NoKey
        /\ \A p \in Pairs : call[p].pc = "idle"
    BY <1>4 DEF LoadHolding
  <2>2. \A p \in DOMAIN copies : p \in Pairs /\ copies[p] = session[p]
    OBVIOUS
  <2>3. pass = [pc |-> pass.pc, open |-> pass.open, copies |-> pass.copies, at |-> pass.at]
    BY DEF ExitInv, BaseInv, PassSound
  <2> HIDE DEF copies
  <2>4. pass'.pc = "holding" /\ pass'.copies = copies /\ pass'.at = NoKey
    BY <2>1, <2>3
  <2>5. CopiesTrue(pass', session, call)
    BY <2>1, <2>2, <2>4 DEF CopiesTrue
  <2> QED  BY <1>1, <2>5, StillInv
<1>5. CASE PassEnd
  <2>1. CopiesTrue(pass', session, call)
    BY <1>2, <1>5 DEF CopiesTrue, PassEnd
  <2> QED  BY <1>1, <2>1, StillInv
<1> QED  BY <1>3, <1>4, <1>5

LEMMA TakeUpExit ==
  ASSUME ExitInv, NEW k \in DOMAIN pass.open, TakeUp(k) PROVE ExitInv'
<1>1. UNCHANGED <<session, call, sold>> /\ BaseInv' /\ pass.pc = "open"
  BY TakeUpBase DEF TakeUp, ExitInv
<1>2. /\ DecisionsTyped(decision, Revision) /\ k \in DOMAIN decision
      /\ pass = [pc |-> pass.pc, open |-> pass.open, copies |-> pass.copies, at |-> pass.at]
  BY DEF ExitInv, BaseInv, PassSound
<1>3. k # NoKey /\ k[1] \in Pairs
  BY <1>2, KeysAreKeys DEF DecisionsTyped
<1>4. PICK p \in Pairs : p = k[1]
  BY <1>3
<1>5. \/ TakesUp(k, "PENDING", "PENDING")
      \/ TakesUp(k, "PENDING", "SUPERSEDED")
      \/ TakesUp(k, "EXECUTING", "PENDING") /\ session[p].status = "HOLDING"
      \/ TakesUp(k, "EXECUTING", "EXECUTED") /\ session[p].exit
  <2>1. PICK r : r = Revision
    OBVIOUS
  <2> QED  BY <1>2, <1>4, <2>1, TakeUpMoves DEF Requeues
<1>6. PICK from, to : TakesUp(k, from, to) /\
        \/ from = "PENDING" /\ to \in {"PENDING", "SUPERSEDED"}
        \/ from = "EXECUTING" /\ to = "PENDING" /\ session[p].status = "HOLDING"
        \/ from = "EXECUTING" /\ to = "EXECUTED" /\ session[p].exit
  BY <1>5
<1>7. MovesOne(decision, decision', k, from, to)
  BY <1>6 DEF TakesUp
<1>8. CopiesTrue(pass', session', call')
  <2>1. PICK at, open : pass' = [pass EXCEPT !.open = open, !.at = at]
    BY <1>6 DEF TakesUp
  <2>2. pass'.copies = pass.copies /\ DOMAIN pass.copies = {}
    BY <1>1, <1>2, <2>1 DEF ExitInv, CopiesTrue
  <2> QED  BY <2>2 DEF CopiesTrue
<1>9. /\ session' = [session EXCEPT ![p] = session[p]] /\ call' = [call EXCEPT ![p] = call[p]]
      /\ sold' = [sold EXCEPT ![p] = sold[p]] /\ call[p] \in Calls(DOMAIN decision)
      /\ PairInv(p, decision, session[p], sold[p], call[p])
  BY <1>1, StepUnchanged DEF ExitInv
<1>10. PICK s, w, c : s = session[p] /\ w = sold[p] /\ c = call[p]
  OBVIOUS
<1>11. PairInv(p, decision', s, w, c)
  <2>1. PairInv(p, decision, s, w, c) /\ c.key \in DOMAIN decision \cup {NoKey}
    BY <1>9, <1>10 DEF Calls
  <2>2. c.pc = "selling" /\ c.key # NoKey => decision'[c.key].status = "EXECUTING"
    BY <1>6, <1>7, <1>10, <2>1 DEF PairInv, MovesOne
  <2>3. \A j \in DOMAIN decision' :
          /\ decision'[j].status = "FAILED" => decision[j].status = "FAILED"
          /\ decision'[j].status = "EXECUTED" => decision[j].status = "EXECUTED" \/ s.exit
    BY <1>2, <1>6, <1>7, <1>10 DEF MovesOne, DecisionsTyped, Decisions
  <2>4. DOMAIN decision' = DOMAIN decision
    BY <1>7 DEF MovesOne
  <2> QED  BY <2>1, <2>2, <2>3, <2>4 DEF PairInv
<1>12. OthersSame(p, decision, decision') /\ DOMAIN decision \subseteq DOMAIN decision'
  <2>1. BaseInv
    BY DEF ExitInv
  <2> QED  BY <1>4, <1>7, <2>1, MovedOthers DEF MovesOne
<1> QED  BY <1>1, <1>8, <1>9, <1>10, <1>11, <1>12, InvAtPair

LEMMA EvaluateExit ==
  ASSUME ExitInv, NEW p \in Pairs, NEW asked \in BOOLEAN, Evaluate(p, asked) PROVE ExitInv'
<1>1. BaseInv /\ BaseInv' /\ UNCHANGED <<call, sold>> /\ p \in DOMAIN pass.copies
      /\ pass.pc = "holding"
  BY EvaluateBase DEF ExitInv, Evaluate
<1>2. PICK s \in Sessions, k \in (Pairs \X (0..Revision) \X AllRules) \cup {NoKey},
           action \in {"SELL", "EMERGENCY_SELL", "MANUAL_REVIEW"} : EvaluatedTo(p, s, k, action)
  BY <1>1, EvaluateDoes
<1>3. pass.copies[p] = session[p] /\ call[p].pc = "idle"
  BY <1>1 DEF ExitInv, CopiesTrue
<1>4. /\ s.status = session[p].status /\ s.exit = session[p].exit
      /\ s.unresolved = session[p].unresolved /\ session' = [session EXCEPT ![p] = s]
      /\ pass' = [pass EXCEPT !.copies = Without(@, p), !.at = k]
  BY <1>2, <1>3 DEF EvaluatedTo
<1>5. /\ call' = [call EXCEPT ![p] = call[p]] /\ sold' = [sold EXCEPT ![p] = sold[p]]
      /\ session \in [Pairs -> Sessions]
  BY <1>1, StepUnchanged DEF BaseInv
<1>6. CopiesTrue(pass', session', call')
  <2>1. pass = [pc |-> pass.pc, open |-> pass.open, copies |-> pass.copies, at |-> pass.at]
    BY <1>1 DEF BaseInv, PassSound
  <2>2. PICK f : f = Without(pass.copies, p)
    OBVIOUS
  <2>3. pass'.pc = "holding" /\ pass'.copies = f /\ pass'.at = k
    BY <1>1, <1>4, <2>1, <2>2
  <2>4. DOMAIN f = DOMAIN pass.copies \ {p} /\ \A q \in DOMAIN f : f[q] = pass.copies[q]
    BY <2>2 DEF Without
  <2>5. \A q \in DOMAIN f : session'[q] = session[q] /\ call'[q] = call[q]
    BY <1>1, <1>4, <1>5, <2>4
  <2>6. k # NoKey => k[1] = p
    BY <1>2 DEF EvaluatedTo
  <2> QED  BY <2>3, <2>4, <2>5, <2>6 DEF ExitInv, CopiesTrue
<1>7. PICK w, c : w = sold[p] /\ c = call[p]
  OBVIOUS
<1>8. PairInv(p, decision, session[p], w, c)
  BY <1>7 DEF ExitInv
<1>9. PairInv(p, decision', s, w, c) /\ OthersSame(p, decision, decision')
      /\ DOMAIN decision \subseteq DOMAIN decision'
  <2>1. CASE k = NoKey
    <3>1. decision' = decision
      BY <1>2, <2>1 DEF EvaluatedTo
    <3> QED  BY <1>4, <1>8, <3>1 DEF PairInv, OthersSame
  <2>2. CASE k # NoKey
    <3>1. k[1] = p /\ AddsOne(decision, decision', k, action)
      BY <1>2, <2>2 DEF EvaluatedTo
    <3>2. \A j \in DOMAIN decision' : \/ j \in DOMAIN decision /\ decision'[j] = decision[j]
                                      \/ decision'[j].status = "PENDING"
      BY <3>1 DEF AddsOne
    <3>3. c.pc = "idle"
      BY <1>3, <1>7
    <3>4. PairInv(p, decision', s, w, c)
      BY <1>4, <1>8, <3>2, <3>3 DEF PairInv
    <3> QED  BY <3>1, <3>4, AddedOthers DEF AddsOne
  <2> QED  BY <2>1, <2>2
<1> QED  BY <1>1, <1>4, <1>5, <1>6, <1>7, <1>9, InvAtPair

LEMMA AskExitExit == ASSUME ExitInv, AskExit PROVE ExitInv'
<1>1. /\ UNCHANGED <<session, decision, pass, sold>> /\ pass.at # NoKey
      /\ call[pass.at[1]].pc = "idle" /\ BaseInv /\ BaseInv'
  BY AskExitBase DEF ExitInv, AskExit
<1>2. PICK k \in DOMAIN decision : k = pass.at
  BY <1>1 DEF BaseInv, PassSound
<1>3. PICK p \in Pairs : p = k[1]
  BY <1>1, <1>2, KeysAreKeys DEF BaseInv, DecisionsTyped
<1>4. PICK c : c = [pc |-> "check", by |-> "monitor", key |-> k]
  OBVIOUS
<1>5. call' = [call EXCEPT ![p] = c] /\ p \notin DOMAIN pass.copies
  BY <1>1, <1>2, <1>3, <1>4 DEF AskExit, ExitInv, CopiesTrue
<1>6. PICK s, w : s = session[p] /\ w = sold[p]
  OBVIOUS
<1>7. session' = [session EXCEPT ![p] = s] /\ sold' = [sold EXCEPT ![p] = w]
  BY <1>1, <1>6, StepUnchanged
<1>8. PairInv(p, decision, s, w, call[p])
  BY <1>6 DEF ExitInv
<1>9. PairInv(p, decision', s, w, c)
  BY <1>1, <1>4, <1>8 DEF PairInv
<1>10. CopiesTrue(pass', session', call')
  BY <1>1, <1>5, <1>7, CopiesStay
<1>11. OthersSame(p, decision, decision') /\ DOMAIN decision \subseteq DOMAIN decision'
  BY <1>1 DEF OthersSame
<1> QED  BY <1>1, <1>5, <1>7, <1>9, <1>10, <1>11, InvAtPair

LEMMA BuyExit == ASSUME ~Overlap, ExitInv, NEW p \in Pairs, Buy(p) PROVE ExitInv'
<1>1. BaseInv /\ BaseInv' /\ UNCHANGED <<pass, sold>> /\ call[p].pc = "idle"
      /\ p \notin DOMAIN pass.copies
  BY BuyBase DEF ExitInv, Buy, Free
<1>2. PICK s \in Sessions, k \in (Pairs \X (0..Revision) \X AllRules) \cup {NoKey},
           action \in {"SELL", "EMERGENCY_SELL", "MANUAL_REVIEW"} : BoughtTo(p, s, k, action)
  BY <1>1, BuyDoes
<1>3. /\ s.status = session[p].status /\ s.exit = session[p].exit
      /\ s.unresolved = session[p].unresolved /\ session' = [session EXCEPT ![p] = s]
  BY <1>2 DEF BoughtTo
<1>4. PICK w : w = sold[p] /\ sold' = [sold EXCEPT ![p] = w]
  BY <1>1, StepUnchanged
<1>5. PairInv(p, decision, session[p], w, call[p]) /\ call = [call EXCEPT ![p] = call[p]]
  BY <1>1, <1>4, StepUnchanged DEF ExitInv
<1>6. CASE k = NoKey
  <2>1. decision' = decision /\ call' = call
    BY <1>2, <1>6 DEF BoughtTo
  <2>2. PICK c : c = call[p] /\ call' = [call EXCEPT ![p] = c]
    BY <1>5, <2>1
  <2>3. PairInv(p, decision', s, w, c)
    BY <1>3, <1>5, <2>1, <2>2 DEF PairInv
  <2>4. CopiesTrue(pass', session', call')
    BY <1>1, <1>3, <2>2, CopiesStay
  <2>5. OthersSame(p, decision, decision') /\ DOMAIN decision \subseteq DOMAIN decision'
    BY <2>1 DEF OthersSame
  <2> QED  BY <1>1, <1>3, <1>4, <2>2, <2>3, <2>4, <2>5, InvAtPair
<1>7. CASE k # NoKey
  <2>1. PICK c : c = [pc |-> "check", by |-> "swap", key |-> k]
    OBVIOUS
  <2>2. k[1] = p /\ AddsOne(decision, decision', k, action) /\ call' = [call EXCEPT ![p] = c]
    BY <1>2, <1>7, <2>1 DEF BoughtTo
  <2>3. \A j \in DOMAIN decision' : \/ j \in DOMAIN decision /\ decision'[j] = decision[j]
                                    \/ decision'[j].status = "PENDING"
    BY <2>2 DEF AddsOne
  <2>4. PairInv(p, decision', s, w, c)
    BY <1>3, <1>5, <2>1, <2>3 DEF PairInv
  <2>5. CopiesTrue(pass', session', call')
    BY <1>1, <1>3, <2>2, CopiesStay
  <2>6. OthersSame(p, decision, decision') /\ DOMAIN decision \subseteq DOMAIN decision'
    BY <2>2, AddedOthers DEF AddsOne
  <2> QED  BY <1>1, <1>3, <1>4, <2>2, <2>4, <2>5, <2>6, InvAtPair
<1> QED  BY <1>6, <1>7

\* A step of the call that holds the lock of a pair.
LEMMA CallExit ==
  ASSUME ExitInv, BaseInv', NEW p \in Pairs, p \notin DOMAIN pass.copies,
         NEW s, NEW w, NEW c, NEW from, NEW to,
         MovesOne(decision, decision', Asked(p), from, to),
         session' = [session EXCEPT ![p] = s], call' = [call EXCEPT ![p] = c],
         sold' = [sold EXCEPT ![p] = w],
         pass' \in {pass, [pass EXCEPT !.at = NoKey], NoPass},
         PairInv(p, decision', s, w, c)
  PROVE  ExitInv'
<1>1. CopiesTrue(pass', session', call')
  BY CopiesStay
<1>2. PICK k : k = Asked(p)
  OBVIOUS
<1>3. BaseInv /\ (k # NoKey => k[1] = p)
  BY <1>2, AskedOf DEF ExitInv
<1>4. OthersSame(p, decision, decision')
  BY <1>2, <1>3, MovedOthers
<1>5. DOMAIN decision \subseteq DOMAIN decision'
  BY DEF MovesOne
<1> QED  BY <1>1, <1>4, <1>5, InvAtPair

LEMMA SellManuallyExit ==
  ASSUME ~Overlap, ExitInv, NEW p \in Pairs, SellManually(p) PROVE ExitInv'
<1>1. /\ BaseInv /\ BaseInv' /\ UNCHANGED <<pass, sold, decision>> /\ call[p].pc = "idle"
      /\ p \notin DOMAIN pass.copies /\ ~session[p].exit /\ session[p] \in Sessions
  BY SellManuallyBase DEF ExitInv, SellManually, Free, BaseInv
<1>2. PICK s : s = [session[p] EXCEPT !.status = "SELL_PENDING"]
  OBVIOUS
<1>3. /\ s.status = "SELL_PENDING" /\ s.exit = session[p].exit
      /\ session' = [session EXCEPT ![p] = s]
  BY <1>1, <1>2 DEF Sessions, SellManually
<1>4. PICK c : c = [pc |-> "selling", by |-> "human", key |-> NoKey]
  OBVIOUS
<1>5. call' = [call EXCEPT ![p] = c]
  BY <1>4 DEF SellManually
<1>6. PICK w : w = sold[p] /\ sold' = [sold EXCEPT ![p] = w]
  BY <1>1, StepUnchanged
<1>7. PairInv(p, decision, session[p], w, call[p])
  BY <1>6 DEF ExitInv
<1>8. PairInv(p, decision', s, w, c)
  BY <1>1, <1>3, <1>4, <1>7 DEF PairInv
<1>9. MovesOne(decision, decision', Asked(p), "PENDING", "PENDING")
  BY <1>1, MovesStill
<1> QED  BY <1>1, <1>3, <1>5, <1>6, <1>8, <1>9, CallExit

\* A move from PENDING disturbs no sale under way, and settles nothing.
LEMMA PendingMoves ==
  ASSUME NEW p, NEW d, NEW e, NEW k, NEW to \in {"PENDING", "MANUAL_REVIEW", "SUPERSEDED", "EXECUTING"},
         MovesOne(d, e, k, "PENDING", to), NEW s, NEW w, NEW c, NEW t, NEW b,
         \A j \in DOMAIN d : d[j] \in Decisions,
         PairInv(p, d, s, w, c), t.exit = s.exit,
         t.status \in {"MANUAL_REVIEW", "SELL_PENDING"} \/
           (t.status = s.status /\ t.unresolved = s.unresolved),
         b.pc \notin {"selling", "settle"}
  PROVE  PairInv(p, e, t, w, b)
<1>1. \A j \in DOMAIN e : /\ j \in DOMAIN d
                          /\ e[j].status = "FAILED" => d[j].status = "FAILED"
                          /\ e[j].status = "EXECUTED" => d[j].status = "EXECUTED"
  BY DEF MovesOne, Decisions
<1> QED  BY <1>1 DEF PairInv

LEMMA CheckExit == ASSUME ExitInv, NEW p \in Pairs, Check(p) PROVE ExitInv'
<1>1. /\ BaseInv /\ BaseInv' /\ UNCHANGED <<session, sold>> /\ p \notin DOMAIN pass.copies
      /\ \A j \in DOMAIN decision : decision[j] \in Decisions
  BY CheckBase, BusyNotCopied DEF ExitInv, Check, BaseInv, DecisionsTyped
<1>2. PICK s, w : s = session[p] /\ w = sold[p]
  OBVIOUS
<1>3. session' = [session EXCEPT ![p] = s] /\ sold' = [sold EXCEPT ![p] = w]
  BY <1>1, <1>2, StepUnchanged
<1>4. PairInv(p, decision, s, w, call[p]) /\ call[p] \in Calls(DOMAIN decision)
  BY <1>1, <1>2 DEF ExitInv, BaseInv
<1>5. PICK c, to :
        /\ to \in {"PENDING", "SUPERSEDED"}
        /\ call' = [call EXCEPT ![p] = c] /\ c.pc \in {"probe", "idle"}
        /\ MovesOne(decision, decision', Asked(p), "PENDING", to)
        /\ pass' \in {pass, [pass EXCEPT !.at = NoKey], NoPass}
  <2>1. CASE /\ OpenPosition(p) /\ UNCHANGED <<pass, decision>>
             /\ call' = [call EXCEPT ![p].pc = "probe"]
    <3>1. PICK c : c = [call[p] EXCEPT !.pc = "probe"]
      OBVIOUS
    <3>2. call' = [call EXCEPT ![p] = c] /\ c.pc = "probe"
      BY <1>4, <2>1, <3>1 DEF Calls
    <3>3. MovesOne(decision, decision', Asked(p), "PENDING", "PENDING")
      BY <1>1, <2>1, MovesStill
    <3> QED  BY <2>1, <3>2, <3>3
  <2>2. CASE /\ Finish(p, FALSE)
             /\ \E to \in {"PENDING", "SUPERSEDED"} :
                  MovesOne(decision, decision', Asked(p), "PENDING", to)
    <3>1. NoCall.pc = "idle"
      BY DEF NoCall
    <3>2. /\ pass' \in {pass, [pass EXCEPT !.at = NoKey], NoPass}
          /\ call' = [call EXCEPT ![p] = NoCall]
      BY <2>2, FinishPass
    <3> QED  BY <2>2, <3>1, <3>2
  <2> QED  BY <1>1, <2>1, <2>2, CheckDoes
<1>6. PICK k, b : k = Asked(p) /\ b = call[p]
  OBVIOUS
<1>7. PairInv(p, decision', s, w, c)
  <2>1. MovesOne(decision, decision', k, "PENDING", to) /\ PairInv(p, decision, s, w, b)
    BY <1>4, <1>5, <1>6
  <2>2. c.pc \notin {"selling", "settle"}
    BY <1>5
  <2> QED  BY <1>1, <1>5, <2>1, <2>2, PendingMoves
<1> QED  BY <1>1, <1>3, <1>5, <1>7, CallExit

LEMMA RevalidateExit == ASSUME ExitInv, NEW p \in Pairs, Revalidate(p) PROVE ExitInv'
<1>1. /\ BaseInv /\ BaseInv' /\ UNCHANGED sold /\ p \notin DOMAIN pass.copies
      /\ \A j \in DOMAIN decision : decision[j] \in Decisions
      /\ session[p].status = "HOLDING" /\ call[p].key # NoKey
  BY RevalidateBase, BusyNotCopied DEF ExitInv, Revalidate, BaseInv, DecisionsTyped, CallSound
<1>2. PICK s \in Sessions, to \in Statuses : RevalidatedTo(p, s, to)
  BY <1>1, RevalidateDoes
<1>3. PICK w : w = sold[p] /\ sold' = [sold EXCEPT ![p] = w]
  BY <1>1, StepUnchanged
<1>4. PairInv(p, decision, session[p], w, call[p]) /\ call[p] \in Calls(DOMAIN decision)
  BY <1>1, <1>3 DEF ExitInv, BaseInv
<1>5. PICK k \in DOMAIN decision : k = Asked(p) /\ k = call[p].key
  BY <1>1, AskedOf DEF Asked
<1>6. /\ s.exit = session[p].exit /\ s.unresolved = session[p].unresolved
      /\ session' = [session EXCEPT ![p] = s]
      /\ MovesOne(decision, decision', Asked(p), "PENDING", to)
  BY <1>2 DEF RevalidatedTo
<1>7. CASE /\ s.status \in {session[p].status, "MANUAL_REVIEW"}
           /\ to \in {"PENDING", "MANUAL_REVIEW", "SUPERSEDED", "EXECUTING"}
           /\ \E throws \in BOOLEAN : Finish(p, throws)
  <2>1. NoCall.pc = "idle"
    BY DEF NoCall
  <2>2. /\ pass' \in {pass, [pass EXCEPT !.at = NoKey], NoPass}
        /\ call' = [call EXCEPT ![p] = NoCall]
    BY <1>7, FinishPass
  <2>3. PICK s0, c0, b : s0 = session[p] /\ c0 = call[p] /\ b = NoCall
    OBVIOUS
  <2>4. PairInv(p, decision', s, w, b)
    BY <1>1, <1>4, <1>5, <1>6, <1>7, <2>1, <2>3, PendingMoves
  <2> QED  BY <1>1, <1>3, <1>6, <2>2, <2>3, <2>4, CallExit
<1>8. CASE /\ s.status = "SELL_PENDING" /\ to = "EXECUTING" /\ Pending(p)
           /\ call' = [call EXCEPT ![p].pc = "selling"] /\ UNCHANGED pass
  <2>1. PICK c : c = [call[p] EXCEPT !.pc = "selling"]
    OBVIOUS
  <2>2. call' = [call EXCEPT ![p] = c] /\ c.pc = "selling" /\ c.key = k
    BY <1>4, <1>5, <1>8, <2>1 DEF Calls
  <2>3. decision'[k].status = "EXECUTING"
    BY <1>1, <1>5, <1>6, <1>8 DEF Pending, Status, MovesOne, Decisions
  <2>4. w = Unsold /\ ~s.exit
    BY <1>1, <1>4, <1>6 DEF PairInv
  <2>5. \A j \in DOMAIN decision' : /\ j \in DOMAIN decision
                                    /\ decision'[j].status = "FAILED" => decision[j].status = "FAILED"
                                    /\ decision'[j].status = "EXECUTED" => decision[j].status = "EXECUTED"
    BY <1>1, <1>6, <1>8 DEF MovesOne, Decisions
  <2>6. PairInv(p, decision', s, w, c)
    BY <1>4, <1>6, <1>8, <2>2, <2>3, <2>4, <2>5 DEF PairInv
  <2> QED  BY <1>1, <1>3, <1>6, <1>8, <2>2, <2>6, CallExit
<1> QED  BY <1>2, <1>7, <1>8 DEF RevalidatedTo

LEMMA SellExit == ASSUME ExitInv, NEW p \in Pairs, Sell(p) PROVE ExitInv'
<1>1. /\ BaseInv /\ BaseInv' /\ UNCHANGED <<pass, decision>> /\ p \notin DOMAIN pass.copies
      /\ session[p] \in Sessions /\ call[p] \in Calls(DOMAIN decision)
      /\ call[p].pc = "selling" /\ sold[p] = Unsold
  BY SellBase, BusyNotCopied DEF ExitInv, Sell, BaseInv
<1>2. PICK s : s = [session[p] EXCEPT !.status = "CLOSED", !.exit = TRUE]
  OBVIOUS
<1>3. s.status = "CLOSED" /\ s.exit /\ session' = [session EXCEPT ![p] = s]
  BY <1>1, <1>2 DEF Sessions, Sell
<1>4. PICK c : c = [call[p] EXCEPT !.pc = "settle"]
  OBVIOUS
<1>5. c.pc = "settle" /\ c.key = call[p].key /\ call' = [call EXCEPT ![p] = c]
  BY <1>1, <1>4 DEF Calls, Sell
<1>6. PICK w : w = Asked(p) /\ sold' = [sold EXCEPT ![p] = w]
  BY DEF Sell
<1>7. w # Unsold
  <2>1. w \in DOMAIN decision \cup {NoKey}
    BY <1>1, <1>6, AskedOf
  <2>2. NoKey # Unsold
    BY DEF NoKey, Unsold
  <2> QED  BY <1>1, <2>1, <2>2, KeysAreKeys DEF BaseInv, DecisionsTyped
<1>8. PairInv(p, decision', s, w, c)
  BY <1>1, <1>3, <1>5, <1>7 DEF PairInv
<1>9. MovesOne(decision, decision', Asked(p), "PENDING", "PENDING")
  BY <1>1, MovesStill
<1> QED  BY <1>1, <1>3, <1>5, <1>6, <1>8, <1>9, CallExit

LEMMA SaleEndsExit ==
  ASSUME ExitInv, NEW p \in Pairs, SaleFails(p) \/ ClosingFails(p) \/ SaleUnresolved(p)
  PROVE  ExitInv'
<1>1. /\ BaseInv /\ BaseInv' /\ call[p].pc = "selling" /\ p \notin DOMAIN pass.copies
      /\ \A j \in DOMAIN decision : decision[j] \in Decisions
  BY SaleEndsBase, BusyNotCopied
     DEF ExitInv, SaleFails, ClosingFails, SaleUnresolved, BaseInv, DecisionsTyped
<1>2. PICK s \in Sessions, w \in Sellers(DOMAIN decision), to \in {"FAILED", "EXECUTING"} :
        SaleEnds(p, s, w, to)
  BY <1>1, SaleEndsSo
<1>3. PICK k : k = Asked(p) /\ k = call[p].key
  BY DEF Asked
<1>4. /\ session' = [session EXCEPT ![p] = s] /\ sold' = [sold EXCEPT ![p] = w]
      /\ MovesOne(decision, decision', k, "EXECUTING", to) /\ Finish(p, FALSE)
      /\ s.status = "MANUAL_REVIEW"
  BY <1>2, <1>3 DEF SaleEnds
<1>5. PICK c : c = NoCall
  OBVIOUS
<1>5a. c.pc = "idle"
  BY <1>5 DEF NoCall
<1>6. /\ pass' \in {pass, [pass EXCEPT !.at = NoKey], NoPass}
      /\ call' = [call EXCEPT ![p] = c]
  BY <1>4, <1>5, FinishPass
<1>7. PairInv(p, decision, session[p], sold[p], call[p])
  BY DEF ExitInv
<1>8. k # Unsold /\ (k # NoKey => k \in DOMAIN decision /\ k[1] = p)
  <2>1. k \in DOMAIN decision \cup {NoKey} /\ (k # NoKey => k[1] = p)
    BY <1>1, <1>3, AskedOf
  <2>2. NoKey # Unsold
    BY DEF NoKey, Unsold
  <2> QED  BY <1>1, <2>1, <2>2, KeysAreKeys DEF BaseInv, DecisionsTyped
<1>9. \A j \in DOMAIN decision : j # NoKey
  BY <1>1, KeysAreKeys DEF BaseInv, DecisionsTyped
<1>10. \A j \in DOMAIN decision' :
         /\ j \in DOMAIN decision
         /\ j # k => decision'[j] = decision[j]
         /\ j = k => decision[j].status = "EXECUTING" /\ decision'[j].status = to
  BY <1>1, <1>3, <1>4, <1>7, <1>8, <1>9 DEF MovesOne, PairInv, Decisions
<1>11. PairInv(p, decision', s, w, c)
  <2>1. CASE /\ to = "FAILED" /\ w = sold[p]
             /\ s.exit = session[p].exit /\ s.unresolved = session[p].unresolved
    <3>1. k # NoKey => w = Unsold
      BY <1>1, <1>3, <1>7, <2>1 DEF PairInv
    <3> QED  BY <1>4, <1>5a, <1>7, <1>8, <1>9, <1>10, <2>1, <3>1 DEF PairInv
  <2>2. CASE /\ to = "FAILED" /\ w = k /\ sold[p] = Unsold
             /\ s.exit /\ s.unresolved = session[p].unresolved
    BY <1>4, <1>5a, <1>7, <1>8, <1>10, <2>2 DEF PairInv
  <2>3. CASE /\ to = "EXECUTING" /\ w \in {Unsold, k} /\ sold[p] = Unsold
             /\ s.exit = session[p].exit /\ s.unresolved
    <3>1. ~s.exit
      BY <1>7, <2>3 DEF PairInv
    <3>2. \A j \in DOMAIN decision' : w = j => decision'[j].status = "EXECUTING"
      <4>1. \A j \in DOMAIN decision : j # Unsold
        BY <1>1, KeysAreKeys DEF BaseInv, DecisionsTyped
      <4> QED  BY <1>10, <2>3, <4>1
    <3>3. \A j \in DOMAIN decision' : j[1] = p => decision'[j].status # "EXECUTED"
      BY <1>7, <1>10, <2>3, <3>1 DEF PairInv
    <3> QED  BY <1>4, <1>5a, <3>1, <3>2, <3>3 DEF PairInv
  <2> QED  BY <1>2, <1>3, <2>1, <2>2, <2>3 DEF SaleEnds
<1> QED  BY <1>1, <1>3, <1>4, <1>6, <1>11, CallExit

LEMMA SettleExit == ASSUME ExitInv, NEW p \in Pairs, Settle(p) PROVE ExitInv'
<1>1. /\ BaseInv /\ BaseInv' /\ UNCHANGED <<session, sold>> /\ call[p].pc = "settle"
      /\ p \notin DOMAIN pass.copies /\ \A j \in DOMAIN decision : decision[j] \in Decisions
  BY SettleBase, BusyNotCopied DEF ExitInv, Settle, BaseInv, DecisionsTyped
<1>2. PICK s, w : s = session[p] /\ w = sold[p]
  OBVIOUS
<1>3. session' = [session EXCEPT ![p] = s] /\ sold' = [sold EXCEPT ![p] = w]
  BY <1>1, <1>2, StepUnchanged
<1>4. PairInv(p, decision, s, w, call[p])
  BY <1>2 DEF ExitInv
<1>5. decision' = Transition(Asked(p), "EXECUTING", "EXECUTED") /\ Finish(p, FALSE)
  BY DEF Settle
<1>6. MovesOne(decision, decision', Asked(p), "EXECUTING", "EXECUTED")
  BY <1>1, <1>5, AskedMoves
<1>7. PICK c : c = NoCall
  OBVIOUS
<1>7a. c.pc = "idle"
  BY <1>7 DEF NoCall
<1>8. /\ pass' \in {pass, [pass EXCEPT !.at = NoKey], NoPass}
      /\ call' = [call EXCEPT ![p] = c]
  BY <1>5, <1>7, FinishPass
<1>9. \A j \in DOMAIN decision' : /\ j \in DOMAIN decision
                                  /\ decision'[j].status = "FAILED" => decision[j].status = "FAILED"
  BY <1>1, <1>6 DEF MovesOne, Decisions
<1>10. PairInv(p, decision', s, w, c)
  BY <1>1, <1>4, <1>7a, <1>9 DEF PairInv
<1> QED  BY <1>1, <1>3, <1>6, <1>8, <1>10, CallExit

LEMMA RecoverExit == ASSUME ExitInv, NEW p \in Pairs, Recover(p) PROVE ExitInv'
<1>1. /\ BaseInv /\ BaseInv' /\ UNCHANGED <<decision, pass, call, sold>> /\ pass.pc = "idle"
      /\ call[p].pc = "idle" /\ session[p] \in Sessions
  BY RecoverBase DEF ExitInv, Recover, BaseInv
<1>2. PICK w, c : w = sold[p] /\ c = call[p]
  OBVIOUS
<1>3. sold' = [sold EXCEPT ![p] = w] /\ call' = [call EXCEPT ![p] = c]
  BY <1>1, <1>2, StepUnchanged
<1>4. PICK s : s = [session[p] EXCEPT !.unresolved = FALSE, !.exit = sold[p] # Unsold,
                                      !.status = IF sold[p] = Unsold THEN "HOLDING" ELSE "CLOSED"]
  OBVIOUS
<1>5. /\ ~s.unresolved /\ s.exit = (w # Unsold)
      /\ s.status = IF w = Unsold THEN "HOLDING" ELSE "CLOSED"
      /\ session' = [session EXCEPT ![p] = s]
  BY <1>1, <1>2, <1>4 DEF Sessions, Recover
<1>6. PairInv(p, decision, session[p], w, c)
  BY <1>2 DEF ExitInv
<1>7. PairInv(p, decision', s, w, c)
  BY <1>1, <1>2, <1>5, <1>6, KeysAreKeys DEF PairInv, BaseInv, DecisionsTyped
<1>8. p \notin DOMAIN pass.copies
  BY <1>1 DEF ExitInv, CopiesTrue
<1>9. MovesOne(decision, decision', Asked(p), "PENDING", "PENDING")
  BY <1>1, MovesStill
<1> QED  BY <1>1, <1>3, <1>5, <1>7, <1>8, <1>9, CallExit

LEMMA RestartExit == ASSUME ExitInv, Restart PROVE ExitInv'
<1>1. BaseInv /\ BaseInv' /\ DOMAIN NoPass.copies = {} /\ NoPass.at = NoKey /\ NoCall.pc = "idle"
  BY RestartBase DEF ExitInv, NoPass, NoCall
<1>2. CopiesTrue(pass', session', call')
  BY <1>1 DEF Restart, CopiesTrue
<1>3. PICK landed \in SUBSET {p \in Pairs : call[p].pc = "selling" /\ sold[p] = Unsold} :
        sold' = [p \in Pairs |-> IF p \in landed THEN Asked(p) ELSE sold[p]]
  BY DEF Restart
<1>4. /\ DOMAIN decision' = DOMAIN decision
      /\ \A k \in DOMAIN decision :
           decision'[k] = IF k \in Recoverable
                          THEN [decision[k] EXCEPT !.status = "MANUAL_REVIEW"] ELSE decision[k]
      /\ \A k \in DOMAIN decision : decision[k] \in Decisions
      /\ \A k \in DOMAIN decision : k # Unsold
  BY <1>1, KeysAreKeys DEF Restart, BaseInv, DecisionsTyped
<1>5. ASSUME NEW p \in Pairs PROVE PairInv(p, decision', session'[p], sold'[p], call'[p])
  <2>1. session[p] \in Sessions
    BY <1>1 DEF BaseInv
  <2>2. PICK s : s = IF session[p].status = "CLOSED" \/ session[p].quarantined THEN session[p]
                     ELSE [session[p] EXCEPT !.status = "MANUAL_REVIEW", !.quarantined = TRUE]
    OBVIOUS
  <2>3. /\ session'[p] = s /\ s.status \in {session[p].status, "MANUAL_REVIEW"}
        /\ s.exit = session[p].exit /\ s.unresolved = session[p].unresolved
    BY <2>1, <2>2 DEF Restart, Sessions
  <2>4. PICK w, k : w = sold'[p] /\ k = Asked(p)
    OBVIOUS
  <2>5. \/ w = sold[p]
        \/ w = k /\ call[p].pc = "selling" /\ sold[p] = Unsold
    BY <1>3, <2>4
  <2>6. PairInv(p, decision, session[p], sold[p], call[p]) /\ k = call[p].key
    BY <2>4 DEF ExitInv, Asked
  <2>7. k # Unsold
    <3>1. k \in DOMAIN decision \cup {NoKey}
      BY <1>1, <2>4, AskedOf
    <3>2. NoKey # Unsold
      BY DEF NoKey, Unsold
    <3> QED  BY <1>4, <3>1, <3>2
  <2>8. \A j \in DOMAIN decision' :
          /\ j \in DOMAIN decision
          /\ decision'[j].status = "FAILED" => decision[j].status = "FAILED"
          /\ decision'[j].status = "EXECUTED" => decision[j].status = "EXECUTED"
    BY <1>4 DEF Decisions
  <2>9. \A j \in DOMAIN decision' : w = j /\ w # sold[p] => decision'[j].status # "FAILED"
    <3>1. \A j \in DOMAIN decision : j # NoKey
      BY <1>1, KeysAreKeys DEF BaseInv, DecisionsTyped
    <3> QED  BY <2>5, <2>6, <2>8, <3>1 DEF PairInv
  <2>10. call'[p].pc = "idle"
    BY <1>1 DEF Restart
  <2>11. PICK c : c = call'[p] /\ c.pc = "idle"
    BY <2>10
  <2>12. PairInv(p, decision', s, w, c)
    BY <2>3, <2>5, <2>6, <2>7, <2>8, <2>9, <2>11 DEF PairInv
  <2> QED  BY <2>3, <2>4, <2>11, <2>12
<1> QED  BY <1>1, <1>2, <1>5 DEF ExitInv

LEMMA ExitStep == ASSUME ~Overlap PROVE ExitInv /\ [Next]_vars => ExitInv'
<1> SUFFICES ASSUME ExitInv, [Next]_vars PROVE ExitInv'
  OBVIOUS
<1>1. CASE World
  BY <1>1, WorldExit
<1>2. CASE Monitoring
  <2>1. ASSUME NEW k \in DOMAIN pass.open, TakeUp(k) PROVE ExitInv'
    BY <2>1, TakeUpExit
  <2>2. ASSUME NEW p \in Pairs, NEW asked \in BOOLEAN, Evaluate(p, asked) PROVE ExitInv'
    BY <2>2, EvaluateExit
  <2> QED  BY <1>2, <2>1, <2>2, PassExit, AskExitExit DEF Monitoring
<1>3. CASE Restart
  BY <1>3, RestartExit
<1>4. ASSUME NEW p \in Pairs,
             Calling(p) \/ Failing(p) \/ Buy(p) \/ SellManually(p) \/ Recover(p)
      PROVE  ExitInv'
  BY <1>4, CheckExit, RevalidateExit, SellExit, SettleExit, SaleEndsExit, BuyExit,
     SellManuallyExit, RecoverExit DEF Calling, Failing
<1>5. CASE UNCHANGED vars
  <2>1. BaseInv'
    BY <1>5, BaseStep DEF ExitInv
  <2> QED  BY <1>5, <2>1, StillInv DEF vars, ExitInv
<1> QED  BY <1>1, <1>2, <1>3, <1>4, <1>5 DEF Next

\* While no pass saves a stale copy, what a pass has read of a position is what is stored,
\* and session, decisions, call and chain of a position agree
\* (position-exit-monitor.ts, performSell).
THEOREM ExitInvariant == ~Overlap => (Spec => []ExitInv)
<1> SUFFICES ASSUME ~Overlap PROVE Spec => []ExitInv
  OBVIOUS
<1>1. Init => ExitInv
  BY ExitInit
<1>2. ExitInv /\ [Next]_vars => ExitInv'
  BY ExitStep
<1> QED  BY <1>1, <1>2, PTL DEF Spec

LEMMA ExitIsSound == ExitInv => DecisionsSound /\ SoldOnce
<1> SUFFICES ASSUME ExitInv PROVE DecisionsSound /\ SoldOnce
  OBVIOUS
<1>1. ExitTypeOK
  BY BaseIsTyped DEF ExitInv
<1>2. DecisionTruth
  <2> SUFFICES ASSUME NEW k \in DOMAIN decision
               PROVE  /\ decision[k].status = "EXECUTED" => sold[k[1]] # Unsold /\ session[k[1]].exit
                      /\ decision[k].status = "FAILED" /\ sold[k[1]] = k => session[k[1]].exit
    BY DEF DecisionTruth
  <2>1. k[1] \in Pairs
    BY KeysAreKeys DEF ExitInv, BaseInv, DecisionsTyped
  <2>2. PICK p \in Pairs : p = k[1]
    BY <2>1
  <2>3. PairInv(p, decision, session[p], sold[p], call[p])
    BY DEF ExitInv
  <2> QED  BY <2>2, <2>3 DEF PairInv
<1>3. SaleRecorded /\ SoldOnce
  BY DEF ExitInv, PairInv, SaleRecorded, SoldOnce, Asked, Status
<1> QED  BY <1>1, <1>2, <1>3 DEF DecisionsSound

\* The decisions of the policy say what is, and what became, of their sales, through failed
\* and unresolved sales, humans who sell, recoveries and restarts: EXECUTING while the sale
\* is under way, EXECUTED only for a position sold with its exit saved, FAILED never while
\* their own sale has reached the chain unknown to the session (position_exit_decisions),
\* as long as no pass saves a stale copy.
THEOREM DecisionsAreSound == ~Overlap => (Spec => []DecisionsSound)
<1> SUFFICES ASSUME ~Overlap PROVE Spec => []DecisionsSound
  OBVIOUS
<1>1. ExitInv => DecisionsSound
  BY ExitIsSound
<1> QED  BY <1>1, ExitInvariant, PTL

\* No sale of the policy is ever under way for a position that is sold already, whoever sold
\* it (requestPolicyExitLocked reads the session again under the lock).
THEOREM PositionsAreSoldOnce == Spec => []SoldOnce
<1>1. CASE Overlap
  <2>1. SoldOnce
    BY <1>1 DEF SoldOnce
  <2> QED  BY <2>1, PTL
<1>2. CASE ~Overlap
  <2>1. ExitInv => SoldOnce
    BY ExitIsSound
  <2> QED  BY <1>2, <2>1, ExitInvariant, PTL
<1> QED  BY <1>1, <1>2

------------------------------------------------------------------------------
(* What the evaluation has learnt is kept.                                  *)

LEMMA LearntByItself ==
  ASSUME BaseInv, NEW p \in Pairs PROVE Learnt(session[p].memo, session[p].memo)
BY DEF BaseInv, Sessions, Memos, Learnt

LEMMA LearntAt ==
  ASSUME BaseInv, NEW q \in Pairs, NEW s, session' = [session EXCEPT ![q] = s],
         Learnt(session[q].memo, s.memo), NEW p \in Pairs
  PROVE  Learnt(session[p].memo, session'[p].memo)
<1>1. session \in [Pairs -> Sessions]
  BY DEF BaseInv
<1>2. CASE p = q
  <2>1. session'[p] = s
    BY <1>1, <1>2
  <2> QED  BY <1>2, <2>1
<1>3. CASE p # q
  <2>1. session'[p] = session[p]
    BY <1>1, <1>3
  <2> QED  BY <2>1, LearntByItself
<1> QED  BY <1>2, <1>3

LEMMA LearntAlways ==
  ASSUME ~Overlap, ExitInv, Next, NEW p \in Pairs
  PROVE  Learnt(session[p].memo, session'[p].memo)
<1>1. BaseInv /\ session \in [Pairs -> Sessions]
  BY DEF ExitInv, BaseInv
<1>2. CASE UNCHANGED session
  BY <1>1, <1>2, LearntByItself
<1>3. CASE World
  <2>1. UNCHANGED session
    BY <1>3 DEF World, ResetSettings, SaveSettings, MoveMarket, Age
  <2> QED  BY <1>2, <2>1
<1>4. CASE Monitoring
  <2>1. ASSUME NEW k \in DOMAIN pass.open, TakeUp(k) PROVE UNCHANGED session
    BY <2>1 DEF TakeUp
  <2>2. ASSUME NEW q \in Pairs, NEW asked \in BOOLEAN, Evaluate(q, asked)
        PROVE  Learnt(session[p].memo, session'[p].memo)
    <3>1. pass.copies[q] = session[q]
      BY <2>2 DEF Evaluate, ExitInv, CopiesTrue
    <3>2. PICK s \in Sessions, k \in (Pairs \X (0..Revision) \X AllRules) \cup {NoKey},
               action \in {"SELL", "EMERGENCY_SELL", "MANUAL_REVIEW"} : EvaluatedTo(q, s, k, action)
      BY <1>1, <2>2, EvaluateDoes
    <3>3. session' = [session EXCEPT ![q] = s] /\ Learnt(session[q].memo, s.memo)
      BY <3>1, <3>2 DEF EvaluatedTo
    <3> QED  BY <1>1, <3>3, LearntAt
  <2>3. PassStart \/ LoadHolding \/ AskExit \/ PassEnd => UNCHANGED session
    BY DEF PassStart, LoadHolding, AskExit, PassEnd
  <2> QED  BY <1>2, <1>4, <2>1, <2>2, <2>3 DEF Monitoring
<1>5. CASE Restart
  <2>1. session'[p].memo = session[p].memo
    BY <1>1, <1>5 DEF Restart, Sessions
  <2> QED  BY <1>1, <2>1, LearntByItself
<1>6. ASSUME NEW q \in Pairs,
             Calling(q) \/ Failing(q) \/ Buy(q) \/ SellManually(q) \/ Recover(q)
      PROVE  Learnt(session[p].memo, session'[p].memo)
  <2>1. CASE Check(q) \/ Settle(q)
    BY <1>2, <2>1 DEF Check, Settle
  <2>2. CASE Revalidate(q)
    <3>1. PICK s \in Sessions, to \in Statuses : RevalidatedTo(q, s, to)
      BY <1>1, <2>2, RevalidateDoes
    <3>2. session' = [session EXCEPT ![q] = s] /\ Learnt(session[q].memo, s.memo)
      BY <3>1 DEF RevalidatedTo
    <3> QED  BY <1>1, <3>2, LearntAt
  <2>3. CASE Buy(q)
    <3>1. PICK s \in Sessions, k \in (Pairs \X (0..Revision) \X AllRules) \cup {NoKey},
               action \in {"SELL", "EMERGENCY_SELL", "MANUAL_REVIEW"} : BoughtTo(q, s, k, action)
      BY <1>1, <2>3, BuyDoes
    <3>2. session' = [session EXCEPT ![q] = s] /\ Learnt(session[q].memo, s.memo)
      BY <3>1 DEF BoughtTo
    <3> QED  BY <1>1, <3>2, LearntAt
  <2>4. ASSUME NEW s, session' = [session EXCEPT ![q] = s], s.memo = session[q].memo
        PROVE  Learnt(session[p].memo, session'[p].memo)
    <3>1. Learnt(session[q].memo, s.memo)
      BY <1>1, <2>4, LearntByItself
    <3> QED  BY <1>1, <2>4, <3>1, LearntAt
  <2>5. CASE Sell(q)
    <3>1. PICK s : s = [session[q] EXCEPT !.status = "CLOSED", !.exit = TRUE]
      OBVIOUS
    <3>2. session' = [session EXCEPT ![q] = s] /\ s.memo = session[q].memo
      BY <1>1, <2>5, <3>1 DEF Sell, Sessions
    <3> QED  BY <2>4, <3>2
  <2>6. CASE SaleFails(q) \/ ClosingFails(q) \/ SaleUnresolved(q)
    <3>1. PICK s \in Sessions, w \in Sellers(DOMAIN decision), to \in {"FAILED", "EXECUTING"} :
            SaleEnds(q, s, w, to)
      BY <1>1, <2>6, SaleEndsSo
    <3>2. session' = [session EXCEPT ![q] = s] /\ s.memo = session[q].memo
      BY <3>1 DEF SaleEnds
    <3> QED  BY <2>4, <3>2
  <2>7. CASE SellManually(q)
    <3>1. PICK s : s = [session[q] EXCEPT !.status = "SELL_PENDING"]
      OBVIOUS
    <3>2. session' = [session EXCEPT ![q] = s] /\ s.memo = session[q].memo
      BY <1>1, <2>7, <3>1 DEF SellManually, Sessions
    <3> QED  BY <2>4, <3>2
  <2>8. CASE Recover(q)
    <3>1. PICK s : s = [session[q] EXCEPT !.unresolved = FALSE, !.exit = sold[q] # Unsold,
                                !.status = IF sold[q] = Unsold THEN "HOLDING" ELSE "CLOSED"]
      OBVIOUS
    <3>2. session' = [session EXCEPT ![q] = s] /\ s.memo = session[q].memo
      BY <1>1, <2>8, <3>1 DEF Recover, Sessions
    <3> QED  BY <2>4, <3>2
  <2> QED  BY <1>6, <2>1, <2>2, <2>3, <2>5, <2>6, <2>7, <2>8 DEF Calling, Failing
<1> QED  BY <1>3, <1>4, <1>5, <1>6 DEF Next

\* What the evaluation knows of a position is never lost, while no pass saves a stale copy:
\* the peak does not fall, the trailing stop stays armed and the reference of the liquidity
\* stays the first one, through passes, target buys, changed settings, sales and restarts.
THEOREM PeakIsKept == Spec => PeakKept
<1>1. CASE Overlap
  <2>1. [Next]_vars =>
          [\A p \in Pairs :
             ~Overlap => /\ session'[p].memo.peak >= session[p].memo.peak
                         /\ session[p].memo.armed => session'[p].memo.armed
                         /\ session[p].memo.ref # 0 => session'[p].memo.ref = session[p].memo.ref]_vars
    BY <1>1
  <2> QED  BY <2>1, PTL DEF Spec, PeakKept
<1>2. CASE ~Overlap
  <2>1. ExitInv /\ [Next]_vars =>
          [\A p \in Pairs :
             ~Overlap => /\ session'[p].memo.peak >= session[p].memo.peak
                         /\ session[p].memo.armed => session'[p].memo.armed
                         /\ session[p].memo.ref # 0 => session'[p].memo.ref = session[p].memo.ref]_vars
    BY <1>2, LearntAlways DEF Learnt
  <2>2. Spec => []ExitInv
    BY <1>2, ExitInvariant
  <2> QED  BY <2>1, <2>2, PTL DEF Spec, PeakKept
<1> QED  BY <1>1, <1>2
==============================================================================
