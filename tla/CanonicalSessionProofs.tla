------------------------ MODULE CanonicalSessionProofs ------------------------
(****************************************************************************)
(* What the canonical chain does for the sessions. A transaction whose      *)
(* event was orphaned leaves its session to a human, whatever fails. And,   *)
(* where no fork comes back, as long as the process lives: no event is      *)
(* skipped, and a session is the image of the canonical swaps of its pair.  *)
(****************************************************************************)
EXTENDS CanonicalChainProofs

------------------------------------------------------------------------------
(* Nothing is skipped, as long as the process lives.                         *)

\* One PairCreated event per pair (the factory emits it once).
OneCreation == \A e, f \in Created : PairOf[e] = PairOf[f] => e = f

Statuses == {"none", "WAITING_FIRST_BUY", "HOLDING", "CLOSED", "REJECTED", "MANUAL_REVIEW"}
SessionRecord == [status : Statuses, entry : Events \cup {0}, counted : SUBSET Events]

\* The session of a pair that is in the database and not taken back.
Stored(s) == s.status \notin {"none", "REJECTED"}

\* A pair that is listened to has a session, but where a handler has failed.
SessionsTyped ==
  /\ Len(cutoff) = 1
  /\ session \in [Pairs -> SessionRecord]
  /\ \A p \in Pairs : session[p].status = "none" => session[p] = NoSession
  /\ DOMAIN wallet = Pairs
  /\ ~Stuck => \A p \in Pairs : monitor[p] # "off" => Stored(session[p])

\* A canonical row is of a block that has the event.
RowsSound ==
  \A e \in Events :
    /\ row[e].before \in SessionRecord
    /\ row[e].canonical => /\ e \in Range(EventsAt(row[e].block)) /\ Len(row[e].block) > 1
                           /\ e \notin Created => Stored(row[e].before)

\* What the rollback has found out about the pairs it affects.
ImpactSound ==
  request.pc = "project" =>
    /\ DOMAIN Affected \subseteq Pairs
    /\ \A p \in DOMAIN Affected :
         /\ Affected[p].before \in SessionRecord
         /\ Affected[p].before = NoSession \/ Stored(Affected[p].before)
         /\ Affected[p].discovery \in BOOLEAN /\ Affected[p].wallet \in BOOLEAN
         /\ Affected[p].discovery =>
              \A e \in Created, n \in 1..Len(Tip) : PairOf[e] = p => e \notin Range(EventsAt(Upto(Tip, n)))

\* A request that reads on reads from the checkpoints of its listeners, or from before.
Forward == {"tip", "scan", "chunk", "logs"}
TargetsSound ==
  request.pc \in Forward =>
    /\ request.from >= 2
    /\ request.kind = "pairs" => request.from = Len(checkpoint[PairCreated]) + 1
    /\ request.kind = "swaps" =>
         /\ ~InReplay => asked = None
         /\ \A p \in DOMAIN request.targets :
              /\ request.targets[p] >= request.from
              /\ InReplay => request.targets[p] = NextOf(checkpoint[p])
              /\ ~InReplay /\ p \notin gone =>
                   /\ monitor[p] # "off"
                   /\ monitor[p] = "on" =>
                        request.targets[p] = 2 \/ request.targets[p] <= Len(checkpoint[p]) + 1

\* The checkpoints that a pass has read before it waits are not ahead of the stored
\* ones when its turn comes.
AskedSound ==
  \A p \in DOMAIN asked : p \notin gone =>
    /\ monitor[p] # "off"
    /\ monitor[p] = "on" /\ coord.state = "HEALTHY" => Len(asked[p]) <= Len(checkpoint[p])
    /\ monitor[p] = "on" /\ coord.state = "RECONCILING" =>
         \/ Len(asked[p]) <= Len(coord.last[2])
         \/ request.pc # "rewind" /\ Len(asked[p]) <= Len(checkpoint[p])

\* What it is for an event of a block to have been handled.
Seen(p) == session[p] # NoSession /\ ~Reappeared(p)
Done(e, block) == IF e \in Created THEN PairOf[e] \notin Incompatible => Seen(PairOf[e])
                                   ELSE row[e].canonical /\ row[e].block = block

\* The events of block n that the running request has to handle.
Relevant(e, n) ==
  IF request.kind = "pairs" THEN e \in Created
  ELSE e \notin Created /\ PairOf[e] \in Concerned /\ request.targets[PairOf[e]] <= n

LogSound(x) ==
  /\ \E n \in request.from..Until : x.block = Upto(request.scan, n)
  /\ x.event \in Range(EventsAt(x.block))
  /\ IF request.kind = "pairs" THEN x.event \in Created
     ELSE x.event \notin Created /\ PairOf[x.event] \in Concerned

\* Of the blocks the node still has, every event is handled or still to handle.
LogsSound ==
  request.pc = "logs" =>
    /\ \A i \in DOMAIN request.todo : LogSound(request.todo[i])
    /\ \A n \in request.from..Until : ~Abandoned(Upto(request.scan, n)) =>
         \A e \in Range(EventsAt(Upto(request.scan, n))) : Relevant(e, n) =>
           \/ Done(e, Upto(request.scan, n))
           \/ \E i \in DOMAIN request.todo :
                request.todo[i] = [event |-> e, block |-> Upto(request.scan, n)]

\* Of the blocks the node still has, every event up to a checkpoint is handled.
Mine(l, e) == IF e \in Created THEN l = PairCreated ELSE l = PairOf[e]
ReadSoFar ==
  \A l \in Listeners : \A n \in 2..Len(checkpoint[l]) : ~Abandoned(Upto(checkpoint[l], n)) =>
    \A e \in Range(EventsAt(Upto(checkpoint[l], n))) : Mine(l, e) => Done(e, Upto(checkpoint[l], n))

SkipInv == /\ SessionsTyped /\ RowsSound /\ ImpactSound /\ TargetsSound /\ AskedSound
           /\ LogsSound /\ ReadSoFar
Ground == ChainInv /\ BelowInv /\ ReplayInv /\ TurnsSound /\ DivergenceSound

LEMMA GroundNext ==
  ASSUME ~Comeback, Ground, [Next]_vars
  PROVE  Ground' /\ Moved
<1>1. Ground'
  BY ChainNext, BelowNext, ReplayNext, TurnsNext, DivergenceNext DEF Ground
<1>2. Moved
  BY NodeIsMoved DEF Ground
<1> QED
  BY <1>1, <1>2

\* Which steps touch what.
LEMMA WhoMoves ==
  ASSUME [Next]_vars, ~Restart
  PROVE  /\ cutoff' = cutoff
         /\ session' # session => \/ AdmitPair \/ HandleSwap \/ Project \/ HandlerFails
                                  \/ \E p \in Pairs : PolicySale(p)
         /\ wallet' # wallet => HandleSwap \/ \E p \in Pairs : PolicySale(p)
         /\ row' # row => AdmitPair \/ HandleSwap \/ Rewind
         /\ checkpoint' # checkpoint => CommitChunk \/ Rewind \/ \E p \in Pairs : Retire(p)
         /\ monitor' # monitor => \/ HandleSwap \/ Project \/ AdmitReplay
                                  \/ \E p \in Pairs : StartMonitor(p) \/ Retire(p)
         /\ gone' # gone => Ask \/ Project \/ \E p \in Pairs : Retire(p)
         /\ asked' # asked => Ask \/ DropAsked \/ SwapsRequest
         /\ audit' # audit => Rewind \/ DeepReorg \/ Project \/ Complete
<1>1. ASSUME Aside
      PROVE  /\ cutoff' = cutoff /\ row' = row
             /\ session' # session => \E p \in Pairs : PolicySale(p)
             /\ wallet' # wallet => \E p \in Pairs : PolicySale(p)
             /\ checkpoint' # checkpoint => \E p \in Pairs : Retire(p)
             /\ monitor' # monitor => AdmitReplay \/ \E p \in Pairs : StartMonitor(p) \/ Retire(p)
             /\ gone' # gone => Ask \/ \E p \in Pairs : Retire(p)
             /\ asked' # asked => Ask \/ DropAsked
             /\ audit' # audit => Complete
  <2>1. ASSUME NEW p \in Pairs, StartMonitor(p)
        PROVE  UNCHANGED <<cutoff, row, session, wallet, checkpoint, gone, asked, audit>>
    BY <2>1 DEF StartMonitor, nodeVars, storeVars, projections
  <2>2. ASSUME NEW p \in Pairs, Retire(p)
        PROVE  UNCHANGED <<cutoff, row, session, wallet, asked, audit>>
    BY <2>2 DEF Retire, nodeVars, projections
  <2>3. ASSUME NEW p \in Pairs, PolicySale(p)
        PROVE  UNCHANGED <<cutoff, row, checkpoint, monitor, gone, asked, audit>>
    BY <2>3 DEF PolicySale, nodeVars, idleVars, monitors
  <2>4. CASE Extend \/ Replace \/ Ask \/ DropAsked \/ Replaying
    BY <2>4 DEF Extend, Replace, Ask, DropAsked, Replaying, Finalize, AdmitReplay, SkipStep, Complete,
                nodeVars, storeVars, projections, idleVars, monitors
  <2> QED
    BY <1>1, <2>1, <2>2, <2>3, <2>4 DEF Aside
<1>2. ASSUME Ending
      PROVE  /\ UNCHANGED <<cutoff, row, wallet, checkpoint, asked>>
             /\ session' # session => Project \/ HandlerFails
             /\ monitor' # monitor \/ gone' # gone => Project
             /\ audit' # audit => DeepReorg \/ Project
  BY <1>2 DEF Ending, RpcFails, ScanThrows, ChunkThrows, HandlingFails, WalkThrows, HandlerFails,
              DeepReorg, Prune, Project, nodeVars, storeVars, projections, idleVars, monitors
<1>3. ASSUME Going
      PROVE  /\ UNCHANGED <<cutoff, gone>>
             /\ session' # session => AdmitPair \/ HandleSwap
             /\ wallet' # wallet => HandleSwap
             /\ row' # row => AdmitPair \/ HandleSwap \/ Rewind
             /\ checkpoint' # checkpoint => CommitChunk \/ Rewind
             /\ monitor' # monitor => HandleSwap
             /\ asked' # asked => SwapsRequest
             /\ audit' # audit => Rewind
  <2>1. CASE HandleSwap
    BY <2>1, Zenon DEF HandleSwap, nodeVars, projections, monitors
  <2>2. CASE ~HandleSwap
    BY <1>3, <2>2 DEF Going, PairsRequest, SwapsRequest, TipHolds, TipDiverges, ScanHeader, PersistJournal,
              ReadLogs, AdmitPair, CommitChunk, ReadNewTip, Walk, NoAncestor,
              Diverge, Rewind, requestOnly, nodeVars, storeVars, projections, idleVars, monitors
  <2> QED
    BY <2>1, <2>2
<1>4. CASE UNCHANGED vars
  BY <1>4 DEF vars, nodeVars, storeVars, projections, idleVars, monitors
<1> QED
  BY <1>1, <1>2, <1>3, <1>4, StepIs


\* The events of a block are those of its content that no block below has.
LEMMA InBlock ==
  ASSUME NEW h \in Chains, Len(h) \in Heights, NEW e
  PROVE  e \in Range(EventsAt(h)) <=>
           /\ e \in Events /\ e \in Range(Content[Len(h)][h[Len(h)]])
           /\ \A n \in 1..Len(h) - 1 : e \notin Range(Content[n][h[n]])
<1>1. Last(h) \in Labels /\ Last(h) = h[Len(h)]
  BY DEF Chains, Last, Heights
<1>2. PICK c : c = Content[Len(h)][Last(h)]
  OBVIOUS
<1>3. c \in Seq(Events)
  BY <1>1, <1>2, ConstantsTyped
<1>4. PICK S : S = {x \in Events : \A n \in 1..Len(h) - 1 : x \notin Range(Content[n][h[n]])}
  OBVIOUS
<1>5. EventsAt(h) = Keep(c, S)
  BY <1>2, <1>4 DEF EventsAt
<1>6. (\E i \in DOMAIN Keep(c, S) : Keep(c, S)[i] = e) <=> e \in S /\ \E i \in DOMAIN c : c[i] = e
  BY <1>3, KeepIs
<1>7. e \in Range(EventsAt(h)) <=> e \in S /\ e \in Range(c)
  BY <1>5, <1>6 DEF Range
<1> QED
  BY <1>1, <1>2, <1>4, <1>7

\* An event of a block is of no block above.
LEMMA OneBlock ==
  ASSUME NEW g \in Chains, NEW h \in Chains, IsPrefix(g, h), Len(g) >= 1, Len(g) < Len(h),
         Len(h) <= MaxHeight, NEW e, e \in Range(EventsAt(g))
  PROVE  e \notin Range(EventsAt(h))
<1>1. Len(g) \in Nat /\ Len(h) \in Nat /\ MaxHeight \in Nat
  BY ConstantsTyped DEF Chains
<1>2. Len(g) \in Heights /\ Len(h) \in Heights /\ Len(g) \in 1..Len(h) - 1
  BY <1>1 DEF Heights
<1>3. PICK n, f : n = Len(g) /\ f = g[n]
  OBVIOUS
<1>4. f = h[n]
  BY <1>1, <1>3, PrefixIs
<1>5. e \in Range(Content[n][f])
  BY <1>2, <1>3, InBlock
<1> QED
  BY <1>2, <1>3, <1>4, <1>5, InBlock

\* The block of an event on one chain is unique.
LEMMA SameBlock ==
  ASSUME NEW g \in Chains, NEW h \in Chains, NEW t \in Chains, IsPrefix(g, t), IsPrefix(h, t),
         Len(g) >= 1, Len(h) >= 1, Len(t) <= MaxHeight,
         NEW e, e \in Range(EventsAt(g)), e \in Range(EventsAt(h))
  PROVE  g = h
<1>1. /\ Len(g) \in Nat /\ Len(h) \in Nat /\ Len(t) \in Nat /\ MaxHeight \in Nat
      /\ Len(g) <= Len(t) /\ Len(h) <= Len(t)
  BY ConstantsTyped, PrefixIs DEF Chains
<1>2. Len(g) <= MaxHeight /\ Len(h) <= MaxHeight
  BY <1>1
<1>3. ASSUME Len(g) < Len(h) PROVE FALSE
  <2>1. IsPrefix(g, h)
    BY <1>1, <1>3, ShorterPrefix
  <2> QED
    BY <1>2, <1>3, <2>1, OneBlock
<1>4. ASSUME Len(h) < Len(g) PROVE FALSE
  <2>1. IsPrefix(h, g)
    BY <1>1, <1>4, ShorterPrefix
  <2> QED
    BY <1>2, <1>4, <2>1, OneBlock
<1>5. Len(g) = Len(h)
  BY <1>1, <1>3, <1>4
<1>6. IsPrefix(g, h)
  BY <1>1, <1>5, ShorterPrefix
<1> QED
  BY <1>5, <1>6, SamePrefix

\* Where a handler has failed, only a restart goes on.
LEMMA StuckStays ==
  ASSUME ChainInv, TurnsSound, [Next]_vars, ~Restart, Stuck
  PROVE  Stuck'
<1>1. request = Idle /\ request.pc = "idle" /\ coord.state = "RECONCILING" /\ ~coord.ready
  BY DEF Stuck, Idle
<1>2. ~InReplay /\ replay.step = "none"
  BY <1>1 DEF TurnsSound, InReplay
<1>3. ~Going
  BY <1>1, <1>2, GoingOn, StartIs
<1>4. ~Ending
  BY <1>1, EndingIs
<1>5. request' = request
  BY <1>3, <1>4, AsideIs, StepIs DEF vars
<1>6. ~Diverge /\ ~DeepReorg /\ ~Project /\ ~Complete
  BY <1>1, <1>2 DEF Diverge, DeepReorg, Project, Complete
<1>7. coord' = coord
  BY <1>6, CoordStays
<1> QED
  BY <1>1, <1>5, <1>7 DEF Stuck

\* A handler that fails leaves the coordinator stuck.
LEMMA FailureSticks ==
  ASSUME TurnsSound, HandlerFails
  PROVE  Stuck'
<1>1. request.pc \in {"rewind", "project"} /\ coord' = coord /\ request' = Idle
  BY DEF HandlerFails, Throw
<1> QED
  BY <1>1 DEF TurnsSound, Stuck

\* The log at hand, where the listeners of the chunk are active.
LEMMA AtLog ==
  ASSUME Ground, LogsSound, request.pc = "logs", request.todo # <<>>
  PROVE  /\ Log.event \in Events /\ Log.block \in Chains /\ IsPrefix(Log.block, Tip)
         /\ LogSound(Log) /\ Log = request.todo[1]
         /\ PairOf[Log.event] \in Pairs /\ ~Stuck
         /\ request.kind = "pairs" => Log.event \in Created
         /\ request.kind # "pairs" => Log.event \notin Created /\ PairOf[Log.event] \in Concerned
         /\ request.kind # "pairs" /\ AllActive => monitor[PairOf[Log.event]] = "on"
<1>1. Log.event \in Events /\ Log.block \in Chains /\ IsPrefix(Log.block, Tip)
  BY LogIs DEF Ground
<1>2. PICK todo : todo = request.todo
  OBVIOUS
<1>3. todo \in Seq(LogRecord) /\ todo # <<>>
  BY <1>2, AtRequest DEF RequestRecord, LogRecord, Ground
<1>4. Log = todo[1] /\ 1 \in DOMAIN todo
  BY <1>2, <1>3 DEF Log
<1>5. LogSound(Log)
  BY <1>2, <1>4 DEF LogsSound
<1>6. PairOf[Log.event] \in Pairs
  BY <1>1, ConstantsTyped
<1>7. ~Stuck
  BY DEF Stuck, Idle
<1>8. AllActive => Concerned \subseteq On
  BY DEF AllActive
<1> QED
  BY <1>1, <1>2, <1>4, <1>5, <1>6, <1>7, <1>8 DEF LogSound, On


LEMMA FreshIs ==
  /\ NoSession \in SessionRecord /\ NoSession.status = "none"
  /\ Fresh \in SessionRecord /\ Fresh.status = "WAITING_FIRST_BUY"
<1>1. NoSession \in SessionRecord /\ NoSession.status = "none"
  BY DEF NoSession, SessionRecord, Statuses
<1>2. Fresh \in SessionRecord /\ Fresh.status = "WAITING_FIRST_BUY"
  BY DEF Fresh, NoSession, SessionRecord, Statuses
<1> QED
  BY <1>1, <1>2

LEMMA StatusSet ==
  ASSUME NEW s \in SessionRecord, NEW x \in Statuses
  PROVE  [s EXCEPT !.status = x] \in SessionRecord /\ [s EXCEPT !.status = x].status = x
BY DEF SessionRecord

LEMMA EntrySet ==
  ASSUME NEW s \in SessionRecord, NEW x \in Statuses, NEW e \in Events
  PROVE  /\ [s EXCEPT !.status = x, !.entry = e] \in SessionRecord
         /\ [s EXCEPT !.status = x, !.entry = e].status = x
BY DEF SessionRecord

LEMMA CountedSet ==
  ASSUME NEW s \in SessionRecord, NEW S \in SUBSET Events
  PROVE  [s EXCEPT !.counted = S] \in SessionRecord /\ [s EXCEPT !.counted = S].status = s.status
BY DEF SessionRecord

LEMMA SoldSet ==
  ASSUME NEW s \in SessionRecord, NEW x \in Statuses, NEW S \in SUBSET Events
  PROVE  /\ [s EXCEPT !.status = x, !.counted = S] \in SessionRecord
         /\ [s EXCEPT !.status = x, !.counted = S].status = x
BY DEF SessionRecord

\* What a swap makes of the session of its pair.
LEMMA SwapIs ==
  ASSUME Ground, SessionsTyped, LogsSound, HandleSwap
  PROVE  LET p == PairOf[Log.event]
         IN /\ monitor[p] = "on" /\ Stored(session[p])
            /\ \/ session' = session /\ monitor' = monitor /\ wallet' = wallet
               \/ /\ \E after \in SessionRecord : Stored(after) /\ session' = [session EXCEPT ![p] = after]
                  /\ monitor' = monitor \/ monitor' = [monitor EXCEPT ![p] = "stopped"]
                  /\ wallet' = wallet \/ \E x : wallet' = [wallet EXCEPT ![p] = Append(@, x)]
<1>1. PICK e, p, s : e = Log.event /\ p = PairOf[e] /\ s = session[p]
  OBVIOUS
<1>2. request.pc = "logs" /\ request.kind = "swaps" /\ request.todo # <<>> /\ AllActive
  BY DEF HandleSwap
<1>3. e \in Events /\ p \in Pairs /\ monitor[p] = "on" /\ ~Stuck
  BY <1>1, <1>2, AtLog
<1>4. s \in SessionRecord /\ Stored(s)
  BY <1>1, <1>3 DEF SessionsTyped
<1>5. CASE ~Claims(e)
  <2>1. UNCHANGED <<projections, monitors>>
    BY <1>1, <1>5 DEF HandleSwap
  <2> QED
    BY <1>1, <1>3, <1>4, <2>1 DEF projections, monitors
<1>6. CASE Claims(e)
  <2> DEFINE buys == s.status = "WAITING_FIRST_BUY"
             counts == s.status = "HOLDING"
             sells == counts /\ Cardinality(s.counted) + 1 >= Target
             after == CASE buys  -> [s EXCEPT !.status = "HOLDING", !.entry = e]
                        [] sells -> [s EXCEPT !.status = "CLOSED", !.counted = @ \cup {e}]
                        [] counts /\ ~sells -> [s EXCEPT !.counted = @ \cup {e}]
                        [] OTHER -> s
  <2>1. /\ session' = [session EXCEPT ![p] = after]
        /\ IF buys \/ sells THEN Transact(p, e) ELSE UNCHANGED wallet
        /\ IF Monitorable(after) THEN UNCHANGED monitors
           ELSE /\ monitor' = [monitor EXCEPT ![p] = "stopped"]
                /\ retiring' = retiring \cup {p} /\ UNCHANGED gone
    BY <1>1, <1>6 DEF HandleSwap
  <2>2. after \in SessionRecord /\ Stored(after)
    <3>1. CASE buys
      <4>1. after = [s EXCEPT !.status = "HOLDING", !.entry = e]
        BY <3>1
      <4>2. "HOLDING" \in Statuses
        BY DEF Statuses
      <4> HIDE DEF after
      <4>3. [s EXCEPT !.status = "HOLDING", !.entry = e] \in SessionRecord
            /\ [s EXCEPT !.status = "HOLDING", !.entry = e].status = "HOLDING"
        BY <1>3, <1>4, <4>2, EntrySet
      <4> QED
        BY <4>1, <4>3 DEF Stored
    <3>2. CASE sells
      <4>1. after = [s EXCEPT !.status = "CLOSED", !.counted = s.counted \cup {e}]
        BY <3>2
      <4>2. PICK S : S = s.counted \cup {e}
        OBVIOUS
      <4>3. S \in SUBSET Events /\ "CLOSED" \in Statuses
        BY <1>3, <1>4, <4>2 DEF SessionRecord, Statuses
      <4> HIDE DEF after
      <4>4. [s EXCEPT !.status = "CLOSED", !.counted = S] \in SessionRecord
            /\ [s EXCEPT !.status = "CLOSED", !.counted = S].status = "CLOSED"
        BY <1>4, <4>3, SoldSet
      <4> QED
        BY <4>1, <4>2, <4>4 DEF Stored
    <3>3. CASE counts /\ ~sells
      <4>1. after = [s EXCEPT !.counted = s.counted \cup {e}]
        BY <3>3
      <4>2. PICK S : S = s.counted \cup {e}
        OBVIOUS
      <4>3. S \in SUBSET Events /\ "HOLDING" \in Statuses
        BY <1>3, <1>4, <4>2 DEF SessionRecord, Statuses
      <4> HIDE DEF after
      <4>4. [s EXCEPT !.counted = S] \in SessionRecord /\ [s EXCEPT !.counted = S].status = s.status
        BY <1>4, <4>3, CountedSet
      <4> QED
        BY <1>4, <4>1, <4>2, <4>4 DEF Stored
    <3>4. CASE ~buys /\ ~counts
      <4>1. after = s
        BY <3>4
      <4> QED
        BY <1>4, <4>1
    <3> QED
      BY <3>1, <3>2, <3>3, <3>4
  <2>3. wallet' = wallet \/ \E x : wallet' = [wallet EXCEPT ![p] = Append(@, x)]
    BY <2>1 DEF Transact
  <2>4. monitor' = monitor \/ monitor' = [monitor EXCEPT ![p] = "stopped"]
    BY <2>1 DEF monitors
  <2> HIDE DEF after
  <2> QED
    BY <1>1, <1>3, <1>4, <2>1, <2>2, <2>3, <2>4
<1> QED
  BY <1>5, <1>6

\* What a reconciliation makes of a session.
LEMMA ReconciledIs ==
  ASSUME SessionsTyped, ImpactSound, request.pc = "project", NEW p \in DOMAIN Affected
  PROVE  /\ p \in Pairs
         /\ Reconciled(p) \in SessionRecord /\ Reconciled(p).status # "none"
         /\ Reconciled(p).status = "REJECTED" => Affected[p].discovery
<1>1. PICK a : a = Affected[p]
  OBVIOUS
<1>2. p \in Pairs /\ a.before \in SessionRecord /\ a.discovery \in BOOLEAN /\ a.wallet \in BOOLEAN
      /\ (a.before = NoSession \/ Stored(a.before))
  BY <1>1 DEF ImpactSound
<1>3. PICK s : s = session[p]
  OBVIOUS
<1>4. s \in SessionRecord
  BY <1>2, <1>3 DEF SessionsTyped
<1>5. CASE a.wallet \/ (~a.wallet /\ ~a.discovery /\ a.before = NoSession)
  <2>1. Reconciled(p) = [s EXCEPT !.status = "MANUAL_REVIEW"]
    BY <1>1, <1>2, <1>3, <1>5 DEF Reconciled
  <2>2. "MANUAL_REVIEW" \in Statuses
    BY DEF Statuses
  <2> QED
    BY <1>2, <1>4, <2>1, <2>2, StatusSet
<1>6. CASE ~a.wallet /\ a.discovery
  <2>1. Reconciled(p) = [s EXCEPT !.status = "REJECTED"]
    BY <1>1, <1>2, <1>3, <1>6 DEF Reconciled
  <2>2. "REJECTED" \in Statuses
    BY DEF Statuses
  <2> QED
    BY <1>1, <1>2, <1>4, <1>6, <2>1, <2>2, StatusSet
<1>7. CASE ~a.wallet /\ ~a.discovery /\ a.before # NoSession
  <2>1. Reconciled(p) = Restored(p)
    BY <1>1, <1>2, <1>7 DEF Reconciled
  <2>2. PICK b : b = a.before
    OBVIOUS
  <2>3. b \in SessionRecord /\ Stored(b)
    BY <1>2, <1>7, <2>2
  <2>4. Restored(p) = b \/ \E S \in SUBSET Events : Restored(p) = [b EXCEPT !.counted = S]
    <3> DEFINE S == {e \in {f \in BuysOf(p) : row[f].canonical} : Precedes(b.entry, e)}
    <3>1. S \in SUBSET Events
      BY DEF BuysOf
    <3>2. Restored(p) = IF b.entry = 0 THEN b ELSE [b EXCEPT !.counted = S]
      BY <1>1, <2>2 DEF Restored
    <3> HIDE DEF S
    <3> QED
      BY <3>1, <3>2
  <2>5. Restored(p) \in SessionRecord /\ Restored(p).status = b.status
    <3>1. b.status \in Statuses
      BY <2>3 DEF SessionRecord
    <3>2. ASSUME NEW S \in SUBSET Events
          PROVE  [b EXCEPT !.counted = S] \in SessionRecord /\ [b EXCEPT !.counted = S].status = b.status
      BY <2>3, <3>1, CountedSet
    <3> QED
      BY <2>3, <2>4, <3>2
  <2> QED
    BY <1>2, <2>1, <2>3, <2>5 DEF Stored
<1> QED
  BY <1>2, <1>5, <1>6, <1>7


\* What a step makes of the sessions, where it is not the end of a rollback.
LEMMA SessionMoves ==
  ASSUME Ground, SkipInv, [Next]_vars, ~Restart, ~Project, ~HandlerFails
  PROVE  /\ session' \in [Pairs -> SessionRecord] /\ DOMAIN wallet' = Pairs
         /\ \A p \in Pairs : \/ session'[p] = session[p] /\ wallet'[p] = wallet[p]
                             \/ session'[p] = session[p] /\ Stored(session[p])
                             \/ Stored(session'[p])
<1>1. session \in [Pairs -> SessionRecord] /\ DOMAIN wallet = Pairs /\ LogsSound /\ SessionsTyped
  BY DEF SkipInv, SessionsTyped
<1>2. CASE session' = session /\ wallet' = wallet
  BY <1>1, <1>2
<1>3. CASE AdmitPair
  <2>1. PICK p : p = PairOf[Log.event]
    OBVIOUS
  <2>2. wallet' = wallet /\ (session' = session \/ session' = [session EXCEPT ![p] = Fresh])
    BY <1>3, <2>1 DEF AdmitPair
  <2>3. Fresh \in SessionRecord /\ Stored(Fresh)
    BY FreshIs DEF Stored
  <2> QED
    BY <1>1, <2>2, <2>3
<1>4. CASE HandleSwap
  <2>1. PICK p : p = PairOf[Log.event]
    OBVIOUS
  <2>2. /\ Stored(session[p])
        /\ \/ session' = session /\ monitor' = monitor /\ wallet' = wallet
           \/ /\ \E after \in SessionRecord : Stored(after) /\ session' = [session EXCEPT ![p] = after]
              /\ monitor' = monitor \/ monitor' = [monitor EXCEPT ![p] = "stopped"]
              /\ wallet' = wallet \/ \E x : wallet' = [wallet EXCEPT ![p] = Append(@, x)]
    BY <1>1, <1>4, <2>1, SwapIs
  <2>3. CASE session' = session /\ wallet' = wallet
    BY <1>1, <2>3
  <2>4. ASSUME NEW after \in SessionRecord, Stored(after), session' = [session EXCEPT ![p] = after],
               wallet' = wallet \/ \E x : wallet' = [wallet EXCEPT ![p] = Append(@, x)]
        PROVE  /\ session' \in [Pairs -> SessionRecord] /\ DOMAIN wallet' = Pairs
               /\ \A q \in Pairs : \/ session'[q] = session[q] /\ wallet'[q] = wallet[q]
                                   \/ Stored(session'[q])
    <3>1. session' \in [Pairs -> SessionRecord] /\ DOMAIN wallet' = Pairs
      BY <1>1, <2>4
    <3>2. ASSUME NEW q \in Pairs, q # p PROVE session'[q] = session[q] /\ wallet'[q] = wallet[q]
      BY <1>1, <2>4, <3>2
    <3>3. p \in Pairs => session'[p] = after
      BY <1>1, <2>4
    <3> QED
      BY <2>4, <3>1, <3>2, <3>3
  <2> QED
    BY <2>2, <2>3, <2>4
<1>5. ASSUME NEW p \in Pairs, PolicySale(p)
      PROVE  /\ session' \in [Pairs -> SessionRecord] /\ DOMAIN wallet' = Pairs
             /\ \A q \in Pairs : \/ session'[q] = session[q] /\ wallet'[q] = wallet[q]
                                 \/ Stored(session'[q])
  <2>1. PICK s : s = [session[p] EXCEPT !.status = "CLOSED"]
    OBVIOUS
  <2>2. session' = [session EXCEPT ![p] = s]
    BY <1>5, <2>1 DEF PolicySale
  <2>3. s \in SessionRecord /\ s.status = "CLOSED"
    <3>1. session[p] \in SessionRecord /\ "CLOSED" \in Statuses
      BY <1>1 DEF Statuses
    <3> QED
      BY <2>1, <3>1, StatusSet
  <2>4. wallet' = wallet \/ wallet' = [wallet EXCEPT ![p] = Append(@, 0)]
    BY <1>5 DEF PolicySale, Transact
  <2>5. ASSUME NEW q \in Pairs, q # p PROVE session'[q] = session[q] /\ wallet'[q] = wallet[q]
    BY <1>1, <2>2, <2>4, <2>5
  <2>6. session'[p] = s
    BY <1>1, <2>2
  <2>7. session' \in [Pairs -> SessionRecord] /\ DOMAIN wallet' = Pairs
    BY <1>1, <2>2, <2>3, <2>4
  <2> QED
    BY <2>3, <2>5, <2>6, <2>7 DEF Stored
<1> QED
  BY <1>2, <1>3, <1>4, <1>5, WhoMoves

\* The same at the end of a rollback, or where it fails.
LEMMA SessionsReconciled ==
  ASSUME Ground, SkipInv, Project \/ HandlerFails
  PROVE  /\ session' \in [Pairs -> SessionRecord] /\ wallet' = wallet
         /\ \A p \in Pairs : \/ session'[p] = session[p]
                             \/ /\ request.pc = "project" /\ p \in DOMAIN Affected
                                /\ session'[p] = Reconciled(p)
<1>1. session \in [Pairs -> SessionRecord] /\ SessionsTyped /\ ImpactSound
  BY DEF SkipInv, SessionsTyped
<1>2. wallet' = wallet
  BY DEF Project, HandlerFails
<1>3. CASE session' = session
  BY <1>1, <1>2, <1>3
<1>4. ASSUME NEW S \in SUBSET (DOMAIN Affected), request.pc = "project",
             session' = [p \in Pairs |-> IF p \in S THEN Reconciled(p) ELSE session[p]]
      PROVE  /\ session' \in [Pairs -> SessionRecord]
             /\ \A p \in Pairs : session'[p] = session[p] \/ (p \in DOMAIN Affected /\ session'[p] = Reconciled(p))
  <2>1. ASSUME NEW p \in S PROVE Reconciled(p) \in SessionRecord
    BY <1>1, <1>4, <2>1, ReconciledIs
  <2> QED
    BY <1>1, <1>4, <2>1
<1>5. CASE Project
  <2>1. /\ request.pc = "project"
        /\ session' = [p \in Pairs |-> IF p \in DOMAIN Affected THEN Reconciled(p) ELSE session[p]]
    BY <1>5 DEF Project
  <2> QED
    BY <1>2, <1>4, <2>1
<1>6. CASE HandlerFails
  <2>1. \/ session' = session
        \/ /\ request.pc = "project"
           /\ \E S \in SUBSET (DOMAIN Affected) :
                session' = [p \in Pairs |-> IF p \in S THEN Reconciled(p) ELSE session[p]]
    BY <1>6 DEF HandlerFails
  <2> QED
    BY <1>2, <1>3, <1>4, <2>1
<1> QED
  BY <1>5, <1>6


\* A listener stays with a pair only as long as its session is there.
LEMMA MonitorsFollow ==
  ASSUME Ground, SkipInv, [Next]_vars, ~Restart, ~HandlerFails, ~Stuck,
         NEW p \in Pairs, monitor'[p] # "off"
  PROVE  monitor[p] # "off" \/ Stored(session'[p])
<1>1. monitor \in [Pairs -> {"off", "on", "stopped"}]
  BY AtCoord DEF Ground
<1>2. CASE monitor' = monitor
  BY <1>2
<1>3. CASE HandleSwap
  <2>1. PICK q : q = PairOf[Log.event]
    OBVIOUS
  <2>2. monitor[q] = "on" /\ (monitor' = monitor \/ monitor' = [monitor EXCEPT ![q] = "stopped"])
    BY <1>3, <2>1, SwapIs DEF SkipInv
  <2> QED
    BY <1>1, <2>2
<1>4. CASE Project
  <2>1. monitor' = [q \in Pairs |-> IF Monitorable(session'[q]) THEN monitor[q] ELSE "off"]
    BY <1>4 DEF Project
  <2> QED
    BY <2>1
<1>5. CASE AdmitReplay
  <2>1. monitor' = [q \in Pairs |-> IF monitor[q] = "off" /\ Monitorable(session[q]) THEN "on"
                                     ELSE monitor[q]] /\ session' = session
    BY <1>5 DEF AdmitReplay, storeVars, projections
  <2> QED
    BY <2>1 DEF Monitorable, Stored
<1>6. ASSUME NEW q \in Pairs, StartMonitor(q) PROVE monitor[p] # "off" \/ Stored(session'[p])
  <2>1. monitor' = [monitor EXCEPT ![q] = "on"] /\ Monitorable(session[q]) /\ session' = session
    BY <1>6 DEF StartMonitor, storeVars, projections
  <2> QED
    BY <1>1, <2>1 DEF Monitorable, Stored
<1>7. ASSUME NEW q \in Pairs, Retire(q) PROVE monitor[p] # "off"
  <2>1. monitor' = [monitor EXCEPT ![q] = "off"]
    BY <1>7 DEF Retire
  <2> QED
    BY <1>1, <2>1
<1> QED
  BY <1>2, <1>3, <1>4, <1>5, <1>6, <1>7, WhoMoves

LEMMA SessionsNext ==
  ASSUME Ground, SkipInv, [Next]_vars, ~Restart
  PROVE  SessionsTyped'
<1>1. SessionsTyped /\ cutoff' = cutoff
  BY WhoMoves DEF SkipInv
<1>2. CASE ~Project /\ ~HandlerFails
  <2>1. /\ session' \in [Pairs -> SessionRecord] /\ DOMAIN wallet' = Pairs
        /\ \A p \in Pairs : \/ session'[p] = session[p] /\ wallet'[p] = wallet[p]
                            \/ session'[p] = session[p] /\ Stored(session[p])
                            \/ Stored(session'[p])
    BY <1>2, SessionMoves
  <2>2. \A p \in Pairs : session'[p].status = "none" => session'[p] = NoSession
    BY <1>1, <2>1 DEF SessionsTyped, Stored
  <2>3. ASSUME ~Stuck', NEW p \in Pairs, monitor'[p] # "off" PROVE Stored(session'[p])
    <3>1. ~Stuck
      BY <2>3, StuckStays DEF Ground
    <3>2. monitor[p] # "off" => Stored(session[p])
      BY <1>1, <3>1 DEF SessionsTyped
    <3>3. monitor[p] # "off" \/ Stored(session'[p])
      BY <1>2, <2>3, <3>1, MonitorsFollow
    <3> QED
      BY <2>1, <3>2, <3>3
  <2> QED
    BY <1>1, <2>1, <2>2, <2>3 DEF SessionsTyped
<1>3. CASE Project \/ HandlerFails
  <2>1. /\ session' \in [Pairs -> SessionRecord] /\ wallet' = wallet
        /\ \A p \in Pairs : \/ session'[p] = session[p]
                            \/ /\ request.pc = "project" /\ p \in DOMAIN Affected
                               /\ session'[p] = Reconciled(p)
    BY <1>3, SessionsReconciled
  <2>2. \A p \in Pairs : session'[p].status = "none" => session'[p] = NoSession
    BY <1>1, <2>1, ReconciledIs DEF SessionsTyped, SkipInv
  <2>3. ASSUME ~Stuck', NEW p \in Pairs, monitor'[p] # "off" PROVE Stored(session'[p])
    <3>1. ~HandlerFails
      BY <2>3, FailureSticks DEF Ground
    <3>2. monitor' = [q \in Pairs |-> IF Monitorable(session'[q]) THEN monitor[q] ELSE "off"]
      BY <1>3, <3>1 DEF Project
    <3>3. Monitorable(session'[p])
      BY <2>3, <3>2
    <3> QED
      BY <3>3 DEF Monitorable, Stored
  <2> QED
    BY <1>1, <2>1, <2>2, <2>3 DEF SessionsTyped
<1> QED
  BY <1>2, <1>3

\* A pair that is seen stays so, unless a rollback takes its discovery back.
LEMMA SeenStays ==
  ASSUME Ground, SkipInv, [Next]_vars, ~Restart, NEW p \in Pairs, Seen(p)
  PROVE  \/ Seen(p)'
         \/ request.pc = "project" /\ p \in DOMAIN Affected /\ Affected[p].discovery
<1>1. CASE ~Project /\ ~HandlerFails
  <2>1. \/ session'[p] = session[p] /\ wallet'[p] = wallet[p]
        \/ Stored(session'[p])
    BY <1>1, SessionMoves
  <2> QED
    BY <2>1 DEF Seen, Reappeared, Stored, NoSession
<1>2. CASE Project \/ HandlerFails
  <2>1. /\ wallet' = wallet
        /\ \/ session'[p] = session[p]
           \/ request.pc = "project" /\ p \in DOMAIN Affected /\ session'[p] = Reconciled(p)
    BY <1>2, SessionsReconciled
  <2>2. CASE session'[p] = session[p]
    BY <2>1, <2>2 DEF Seen, Reappeared
  <2>3. CASE request.pc = "project" /\ p \in DOMAIN Affected /\ session'[p] = Reconciled(p)
    <3>1. Reconciled(p).status # "none" /\ (Reconciled(p).status = "REJECTED" => Affected[p].discovery)
      BY <2>3, ReconciledIs DEF SkipInv
    <3> QED
      BY <2>3, <3>1 DEF Seen, Reappeared, NoSession
  <2> QED
    BY <2>1, <2>2, <2>3
<1> QED
  BY <1>1, <1>2


\* The blocks of the chunk are on the stored chain.
LEMMA InChunk ==
  ASSUME Ground, SkipInv, request.pc \in {"chunk", "logs"}, NEW n \in request.from..Until
  PROVE  /\ n \in Nat /\ n >= 2 /\ n <= Len(Tip)
         /\ Upto(request.scan, n) \in Chains /\ Len(Upto(request.scan, n)) = n
         /\ IsPrefix(Upto(request.scan, n), Tip)
<1>1. /\ request.scan = Tip /\ Len(Tip) = request.head /\ request.head \in Nat
      /\ request.from \in Nat /\ Tip \in Chains
  BY AtRequest, AtChain DEF Ground
<1>2. request.from >= 2
  BY DEF SkipInv, TargetsSound, Forward
<1>3. Until \in Int /\ Until <= request.head
  BY <1>1, UntilIs
<1>4. n \in Nat /\ n >= 2 /\ n <= Len(Tip)
  <2>1. n \in Int /\ n >= request.from /\ n <= Until
    BY <1>1, <1>3
  <2> QED
    BY <1>1, <1>2, <1>3, <2>1
<1>5. PICK t : t = Tip
  OBVIOUS
<1>6. n \in 0..Len(t)
  BY <1>4, <1>5
<1> QED
  BY <1>1, <1>4, <1>5, <1>6, UptoIs, UptoIsPrefix

\* What the handling of a log or a rollback makes of the rows.
LEMMA RowMoves ==
  ASSUME [Next]_vars, ~Restart
  PROVE  \/ row' = row
         \/ (AdmitPair \/ HandleSwap) /\ row' = [row EXCEPT ![Log.event] = Processed]
         \/ Rewind /\ row' = [e \in Events |-> RewoundRow(e)]
<1>1. AdmitPair => row' = row \/ row' = [row EXCEPT ![Log.event] = Processed]
  BY DEF AdmitPair
<1>2. HandleSwap => row' = row \/ row' = [row EXCEPT ![Log.event] = Processed]
  BY DEF HandleSwap, projections
<1>3. Rewind => row' = row \/ row' = [e \in Events |-> RewoundRow(e)]
  BY DEF Rewind
<1> QED
  BY <1>1, <1>2, <1>3, WhoMoves

LEMMA ProcessedIs ==
  /\ Processed.block = Log.block /\ Processed.canonical = TRUE
  /\ Processed.before = session[PairOf[Log.event]]
BY DEF Processed

\* A rolled back row keeps its block and its snapshot.
LEMMA RewoundRowIs ==
  ASSUME ChainInv, NEW e \in Events
  PROVE  /\ RewoundRow(e).block = row[e].block /\ RewoundRow(e).before = row[e].before
         /\ RewoundRow(e).canonical <=> row[e].canonical /\ Len(row[e].block) <= Len(request.scan)
<1>1. PICK x, n : x = row[e] /\ n = Len(request.scan)
  OBVIOUS
<1>2. x = [block |-> x.block, canonical |-> x.canonical, before |-> x.before] /\ x.canonical \in BOOLEAN
  BY <1>1, AtStore DEF RowSound
<1>3. PICK c : c = (x.canonical /\ Len(x.block) <= n)
  OBVIOUS
<1>4. RewoundRow(e) = [x EXCEPT !.canonical = c]
  BY <1>1, <1>3 DEF RewoundRow
<1>5. [x EXCEPT !.canonical = c] = [block |-> x.block, canonical |-> c, before |-> x.before]
  BY <1>2
<1> QED
  BY <1>1, <1>3, <1>4, <1>5

LEMMA RowsNext ==
  ASSUME Ground, SkipInv, [Next]_vars, ~Restart
  PROVE  RowsSound'
<1>1. RowsSound /\ SessionsTyped /\ DOMAIN row = Events
  BY AtStore DEF SkipInv, Ground
<1>2. CASE row' = row
  BY <1>1, <1>2 DEF RowsSound
<1>3. CASE (AdmitPair \/ HandleSwap) /\ row' = [row EXCEPT ![Log.event] = Processed]
  <2>1. PICK e, x, b : e = Log.event /\ x = Processed /\ b = Log.block
    OBVIOUS
  <2>2. request.pc = "logs" /\ request.todo # <<>> /\ LogsSound
    BY <1>3 DEF AdmitPair, HandleSwap, SkipInv
  <2>3. e \in Events /\ LogSound(Log) /\ PairOf[e] \in Pairs
        /\ (AdmitPair => e \in Created)
    BY <2>1, <2>2, AtLog DEF AdmitPair
  <2>4. x.before = session[PairOf[e]] /\ x.block = b /\ x.canonical
    BY <2>1, ProcessedIs
  <2>5. x.before \in SessionRecord
    BY <1>1, <2>3, <2>4 DEF SessionsTyped
  <2>6. e \in Range(EventsAt(b)) /\ Len(b) > 1
    <3>1. e \in Range(EventsAt(b)) /\ \E n \in request.from..Until : b = Upto(request.scan, n)
      BY <2>1, <2>3 DEF LogSound
    <3>2. PICK n \in request.from..Until : b = Upto(request.scan, n)
      BY <3>1
    <3>3. n \in Nat /\ n >= 2 /\ Len(b) = n
      BY <2>2, <3>2, InChunk
    <3> QED
      BY <3>1, <3>3
  <2>7. e \notin Created => Stored(x.before)
    BY <1>3, <2>1, <2>3, <2>4, SwapIs DEF SkipInv
  <2>8. row'[e] = x /\ \A f \in Events : f # e => row'[f] = row[f]
    BY <1>1, <1>3, <2>1, <2>3
  <2> QED
    BY <1>1, <2>4, <2>5, <2>6, <2>7, <2>8 DEF RowsSound
<1>4. CASE Rewind /\ row' = [e \in Events |-> RewoundRow(e)]
  <2>1. ASSUME NEW e \in Events
        PROVE  /\ row'[e].block = row[e].block /\ row'[e].before = row[e].before
               /\ row'[e].canonical => row[e].canonical
    <3>1. row'[e] = RewoundRow(e)
      BY <1>4
    <3> QED
      BY <3>1, RewoundRowIs DEF Ground
  <2> QED
    BY <1>1, <2>1 DEF RowsSound
<1> QED
  BY <1>2, <1>3, <1>4, RowMoves


\* A canonical event is in its block, on the stored chain.
LEMMA Placed ==
  ASSUME Ground, SkipInv, NEW e \in Events, row[e].canonical
  PROVE  /\ row[e].block \in Chains /\ Len(row[e].block) \in Nat /\ Len(row[e].block) > 1
         /\ IsPrefix(row[e].block, Tip)
         /\ e \in Range(EventsAt(row[e].block))
         /\ Len(row[e].block) \in Heights
<1>1. RowSound(row[e], Tip, chain, cutoff)
  BY AtStore DEF Ground
<1>2. /\ e \in Range(EventsAt(row[e].block)) /\ Len(row[e].block) > 1
      /\ Len(cutoff) = 1
  BY DEF SkipInv, RowsSound, SessionsTyped
<1>3. row[e].block \in Chains /\ IsPrefix(row[e].block, Tip) /\ Len(row[e].block) <= Len(chain)
  BY <1>1, <1>2 DEF RowSound
<1>4. Len(row[e].block) \in Nat
  BY <1>3 DEF Chains
<1>5. Len(chain) <= MaxHeight /\ MaxHeight \in Nat /\ Len(chain) \in Nat
  BY AtChain, ConstantsTyped DEF Ground
<1>6. Len(row[e].block) \in Heights
  BY <1>2, <1>3, <1>4, <1>5 DEF Heights
<1> QED
  BY <1>2, <1>3, <1>4, <1>6

OnTip(e) ==
  /\ row[e].block \in Chains /\ Len(row[e].block) \in Heights /\ IsPrefix(row[e].block, Tip)
  /\ e \in Range(EventsAt(row[e].block))

\* Of any events of the stored chain there is a first one.
LEMMA FirstBuyIs ==
  ASSUME ChainInv, NEW buys \in SUBSET Events, buys # {}, \A e \in buys : OnTip(e)
  PROVE  FirstBuy(buys) \in buys /\ \A g \in buys \ {FirstBuy(buys)} : Precedes(FirstBuy(buys), g)
<1>1. PICK f \in buys : \A g \in buys : Len(row[f].block) <= Len(row[g].block)
  <2> DEFINE S == {Len(row[e].block) : e \in buys}
  <2>1. S \in SUBSET Nat /\ S # {}
    <3>1. \A e \in buys : Len(row[e].block) \in Nat
      BY DEF OnTip, Heights
    <3> QED
      BY <3>1
  <2>2. PICK m \in S : \A n \in S : m <= n
    BY <2>1, LeastOne
  <2>3. PICK f \in buys : m = Len(row[f].block)
    BY <2>2
  <2>4. \A g \in buys : Len(row[f].block) <= Len(row[g].block)
    BY <2>2, <2>3
  <2> QED
    BY <2>4
<1>2. PICK h, logs : h = row[f].block /\ logs = EventsAt(h)
  OBVIOUS
<1>3. h \in Chains /\ Len(h) \in Nat /\ Len(h) \in Heights /\ IsPrefix(h, Tip) /\ f \in Range(logs)
  BY <1>1, <1>2 DEF OnTip, Heights
<1>4. logs \in Seq(Events)
  BY <1>2, <1>3, EventsTyped
<1>5. DOMAIN logs \subseteq Nat /\ \E i \in DOMAIN logs : logs[i] = f
  BY <1>3, <1>4 DEF Range
<1>6. PICK i \in DOMAIN logs : /\ logs[i] \in buys /\ row[logs[i]].block = h
                               /\ \A j \in DOMAIN logs : logs[j] \in buys /\ row[logs[j]].block = h => i <= j
  <2> DEFINE I == {i \in DOMAIN logs : logs[i] \in buys /\ row[logs[i]].block = h}
  <2>1. I \in SUBSET Nat /\ I # {}
    BY <1>1, <1>2, <1>5
  <2>2. PICK i \in I : \A j \in I : i <= j
    BY <2>1, LeastOne
  <2> QED
    BY <2>2
<1>7. PICK e : e = logs[i]
  OBVIOUS
<1>8. ASSUME NEW g \in buys \ {e} PROVE Precedes(e, g)
  <2>1. row[e].block = h /\ Len(h) <= Len(row[g].block)
    BY <1>1, <1>2, <1>6, <1>7
  <2>2. CASE Len(h) < Len(row[g].block)
    BY <2>1, <2>2 DEF Precedes
  <2>3. CASE Len(h) = Len(row[g].block)
    <3>1. row[g].block \in Chains /\ IsPrefix(row[g].block, Tip) /\ g \in Range(EventsAt(row[g].block))
      BY DEF OnTip
    <3>2. row[g].block = h
      <4>1. PICK b, t : b = row[g].block /\ t = Tip
        OBVIOUS
      <4>2. b \in Chains /\ t \in Chains /\ Len(b) <= Len(h)
        BY <1>3, <2>3, <3>1, <4>1, AtChain
      <4>3. IsPrefix(b, h)
        BY <1>3, <3>1, <4>1, <4>2, ShorterPrefix
      <4> QED
        BY <1>3, <2>3, <4>1, <4>2, <4>3, SamePrefix
    <3>3. PICK j \in DOMAIN logs : logs[j] = g
      BY <1>2, <3>1, <3>2 DEF Range
    <3>4. i <= j /\ i # j
      BY <1>6, <1>7, <3>2, <3>3
    <3>5. i < j
      BY <1>5, <3>3, <3>4
    <3> QED
      BY <1>2, <1>7, <2>1, <3>2, <3>3, <3>5 DEF Precedes
  <2> QED
    BY <1>3, <2>1, <2>2, <2>3 DEF OnTip, Heights
<1>9. \E x \in buys : \A g \in buys \ {x} : Precedes(x, g)
  BY <1>6, <1>7, <1>8
<1> QED
  BY <1>9 DEF FirstBuy


\* The rollback of a divergence is not in the audit yet, and drops what is above
\* the ancestor.
LEMMA RewindIs ==
  ASSUME Ground, Rewind
  PROVE  /\ coord.last \notin DOMAIN audit /\ coord' = coord
         /\ row' = [e \in Events |-> RewoundRow(e)]
         /\ checkpoint' = [l \in Listeners |-> RewoundCheckpoint(l)]
         /\ Tip' = request.scan /\ request.scan \in Chains /\ request.scan # None
         /\ Len(request.scan) \in Nat /\ Len(request.scan) < Len(Tip)
         /\ IsPrefix(request.scan, Tip)
         /\ Affected' = [p \in {PairOf[e] : e \in Above(request.scan)} |-> Impact(p, Above(request.scan))]
<1>1. request.pc = "rewind" /\ request.scan # None /\ coord' = coord
  BY DEF Rewind, idleVars
<1>2. coord.last[1] = Tip /\ Len(request.scan) < Len(Tip)
      /\ \A id \in DOMAIN audit : ~IsPrefix(id[1], Tip)
  BY <1>1 DEF Ground, TurnsSound, DivergenceSound
<1>3. coord.last \notin DOMAIN audit
  BY <1>2, AtChain, PrefixOfItself DEF Ground
<1>4. Tip' = request.scan
  BY <1>3, RewoundTip DEF Ground
<1>5. request.scan \in journal
  BY <1>1, AtCoord DEF Ground, RequestSound
<1>6. PICK orphans, affected : /\ orphans = Above(request.scan)
                               /\ affected = [p \in {PairOf[e] : e \in orphans} |-> Impact(p, orphans)]
  OBVIOUS
<1>7. /\ row' = [e \in Events |-> RewoundRow(e)]
      /\ checkpoint' = [l \in Listeners |-> RewoundCheckpoint(l)]
      /\ audit' = Audited([status |-> "RECONCILING", affected |-> affected])
  BY <1>3, <1>6 DEF Rewind
<1>8. audit'[coord.last].affected = affected
  BY <1>7 DEF Audited
<1>9. Affected' = affected
  BY <1>1, <1>8 DEF Affected
<1>10. request.scan \in Chains /\ Len(request.scan) \in Nat /\ IsPrefix(request.scan, Tip)
  <2>1. PICK h : h = request.scan
    OBVIOUS
  <2> QED
    BY <1>5, <2>1, AtChain DEF Ground, Chains
<1> QED
  BY <1>1, <1>2, <1>3, <1>4, <1>6, <1>7, <1>9, <1>10

LEMMA ImpactIs ==
  ASSUME OneCreation, Ground, SkipInv, Rewind, NEW p \in {PairOf[e] : e \in Above(request.scan)}
  PROVE  LET a == Impact(p, Above(request.scan))
         IN /\ a.before \in SessionRecord /\ (a.before = NoSession \/ Stored(a.before))
            /\ a.discovery \in BOOLEAN /\ a.wallet \in BOOLEAN
            /\ a.discovery => \A e \in Created, n \in 1..Len(request.scan) : PairOf[e] = p =>
                                e \notin Range(EventsAt(Upto(request.scan, n)))
<1>1. PICK h, orphans, a : h = request.scan /\ orphans = Above(h) /\ a = Impact(p, orphans)
  OBVIOUS
<1>2. \A e \in orphans : e \in Events /\ row[e].canonical /\ Len(row[e].block) > Len(h)
  BY <1>1 DEF Above
<1>3. PICK buys, discovery, wal : /\ buys = orphans \cap BuysOf(p)
                                  /\ discovery = (\E e \in orphans \cap Created : PairOf[e] = p)
                                  /\ wal = TouchesWallet(p, orphans)
  OBVIOUS
<1>4. a = [discovery |-> discovery, wallet |-> wal,
           before |-> IF buys = {} THEN NoSession ELSE row[FirstBuy(buys)].before]
  BY <1>1, <1>3 DEF Impact
<1>5. discovery \in BOOLEAN /\ wal \in BOOLEAN
  BY <1>3 DEF TouchesWallet
<1>6. a.before \in SessionRecord /\ (a.before = NoSession \/ Stored(a.before))
  <2>1. CASE buys = {}
    BY <1>4, <2>1, FreshIs
  <2>2. CASE buys # {}
    <3>1. FirstBuy(buys) \in buys
      <4>1. buys \in SUBSET Events /\ \A e \in buys : row[e].canonical
        BY <1>2, <1>3
      <4>2. \A e \in buys : OnTip(e)
        BY <4>1, Placed DEF OnTip
      <4> QED
        BY <2>2, <4>1, <4>2, FirstBuyIs DEF Ground
    <3>2. PICK e : e = FirstBuy(buys)
      OBVIOUS
    <3>3. e \in Events /\ row[e].canonical /\ e \notin Created
      BY <1>2, <1>3, <3>1, <3>2 DEF BuysOf
    <3> QED
      BY <1>4, <2>2, <3>2, <3>3 DEF SkipInv, RowsSound
  <2> QED
    BY <2>1, <2>2
<1>7. ASSUME a.discovery, NEW e \in Created, NEW n \in 1..Len(h), PairOf[e] = p
      PROVE  e \notin Range(EventsAt(Upto(h, n)))
  <2>1. PICK f \in orphans \cap Created : PairOf[f] = p
    BY <1>3, <1>4, <1>7
  <2>2. e = f
    BY <1>7, <2>1 DEF OneCreation
  <2>3. PICK b, g, t : b = row[e].block /\ g = Upto(h, n) /\ t = Tip
    OBVIOUS
  <2>4. e \in Events /\ row[e].canonical /\ Len(b) > Len(h)
    BY <1>2, <2>1, <2>2, <2>3
  <2>5. b \in Chains /\ Len(b) \in Nat /\ Len(b) > 1 /\ IsPrefix(b, t) /\ e \in Range(EventsAt(b))
    BY <2>3, <2>4, Placed
  <2>6. h \in Chains /\ Len(h) \in Nat /\ IsPrefix(h, t) /\ t \in Chains /\ Len(t) <= MaxHeight
    <3>1. Len(Tip) <= Len(chain) /\ Len(chain) <= MaxHeight /\ Len(Tip) \in Nat /\ Len(chain) \in Nat
          /\ MaxHeight \in Nat /\ Tip \in Chains
      BY AtChain, ConstantsTyped DEF Ground
    <3>2. Len(Tip) <= MaxHeight
      BY <3>1
    <3> QED
      BY <1>1, <2>3, <3>1, <3>2, RewindIs
  <2>7. g \in Chains /\ Len(g) = n /\ IsPrefix(g, h) /\ n >= 1 /\ n <= Len(h) /\ n \in Nat
    <3>1. n \in 0..Len(h) /\ n >= 1 /\ n <= Len(h) /\ n \in Nat
      BY <2>6
    <3> QED
      BY <2>3, <2>6, <3>1, UptoIs, UptoIsPrefix
  <2>8. IsPrefix(g, t)
    BY <2>6, <2>7, PrefixThrough
  <2>9. Len(g) # Len(b)
    BY <2>4, <2>5, <2>6, <2>7
  <2>10. Len(g) >= 1 /\ Len(b) >= 1
    BY <2>5, <2>7
  <2> QED
    BY <2>3, <2>5, <2>6, <2>7, <2>8, <2>9, <2>10, SameBlock
<1>8. a.discovery \in BOOLEAN /\ a.wallet \in BOOLEAN
  BY <1>4, <1>5
<1> QED
  BY <1>1, <1>6, <1>7, <1>8

LEMMA ImpactNext ==
  ASSUME OneCreation, Ground, SkipInv, [Next]_vars, ~Restart
  PROVE  ImpactSound'
<1> SUFFICES ASSUME request'.pc = "project"
             PROVE  (/\ DOMAIN Affected \subseteq Pairs
                     /\ \A p \in DOMAIN Affected :
                          /\ Affected[p].before \in SessionRecord
                          /\ Affected[p].before = NoSession \/ Stored(Affected[p].before)
                          /\ Affected[p].discovery \in BOOLEAN /\ Affected[p].wallet \in BOOLEAN
                          /\ Affected[p].discovery =>
                               \A e \in Created, n \in 1..Len(Tip) : PairOf[e] = p =>
                                 e \notin Range(EventsAt(Upto(Tip, n))))'
  BY DEF ImpactSound
<1>1. CASE request' = request
  <2>1. request.pc = "project" /\ request # Idle
    BY <1>1 DEF Idle
  <2>2. ~Rewind /\ ~DeepReorg /\ ~Project /\ ~Complete /\ ~Diverge /\ ~PersistJournal
    <3>1. ~Rewind /\ ~DeepReorg /\ ~Diverge /\ ~PersistJournal /\ ~Complete
      BY <2>1 DEF Rewind, DeepReorg, Diverge, PersistJournal, Complete
    <3>2. ~Project
      BY <1>1, <2>1 DEF Project, Return
    <3> QED
      BY <3>1, <3>2
  <2>3. audit' = audit /\ coord' = coord /\ Tip' = Tip
    BY <2>2, WhoMoves, CoordStays, TipMoves DEF Ground
  <2>4. Affected' = Affected
    BY <2>3 DEF Affected
  <2> QED
    BY <2>1, <2>3, <2>4 DEF SkipInv, ImpactSound, Upto
<1>2. CASE request' # request
  <2>1. Rewind
    BY <1>2, LeadsTo DEF Ground
  <2>2. PICK h, orphans : h = request.scan /\ orphans = Above(h)
    OBVIOUS
  <2>3. /\ Affected' = [p \in {PairOf[e] : e \in orphans} |-> Impact(p, orphans)]
        /\ Tip' = h
    BY <2>1, <2>2, RewindIs
  <2>4. orphans \subseteq Events
    BY <2>2 DEF Above
  <2>5. DOMAIN Affected' \subseteq Pairs
    BY <2>3, <2>4, ConstantsTyped
  <2>6. ASSUME NEW p \in DOMAIN Affected'
        PROVE  /\ Affected'[p].before \in SessionRecord
               /\ Affected'[p].before = NoSession \/ Stored(Affected'[p].before)
               /\ Affected'[p].discovery \in BOOLEAN /\ Affected'[p].wallet \in BOOLEAN
               /\ Affected'[p].discovery =>
                    \A e \in Created, n \in 1..Len(h) : PairOf[e] = p => e \notin Range(EventsAt(Upto(h, n)))
    <3>1. p \in {PairOf[e] : e \in orphans} /\ Affected'[p] = Impact(p, orphans)
      BY <2>3, <2>6
    <3> QED
      BY <2>1, <2>2, <3>1, ImpactIs
  <2> QED
    BY <2>3, <2>5, <2>6 DEF Upto
<1> QED
  BY <1>1, <1>2


LEMMA TargetsTyped ==
  ASSUME Ground
  PROVE  /\ DOMAIN request.targets \subseteq Pairs
         /\ \A p \in DOMAIN request.targets : request.targets[p] \in Nat
<1>1. PICK t : t = request.targets
  OBVIOUS
<1>2. t \in UNION {[T -> Nat] : T \in SUBSET Pairs}
  BY <1>1, AtCoord DEF Ground, RequestSound, RequestRecord
<1>3. PICK T \in SUBSET Pairs : t \in [T -> Nat]
  BY <1>2
<1> QED
  BY <1>1, <1>3

\* A request that reads on keeps its listeners and its range, but at the end of a chunk.
LEMMA ForwardGoes ==
  ASSUME Ground, [Next]_vars, ~Restart, request'.pc \in Forward, ~PairsRequest, ~SwapsRequest
  PROVE  /\ request.pc \in Forward /\ request'.kind = request.kind /\ replay' = replay
         /\ CommitChunk \/ (request'.from = request.from /\ request'.targets = request.targets)
<1>1. CASE request' = request
  <2>1. request.pc \in Forward /\ request.pc # "idle" /\ request # Idle
    BY <1>1 DEF Forward, Idle
  <2>2. ~Finalize /\ ~SkipStep /\ ~Complete
    BY <2>1 DEF Finalize, SkipStep, Complete
  <2>3. ~AdmitReplay
    <3>1. SUFFICES ASSUME AdmitReplay PROVE FALSE
      OBVIOUS
    <3>2. InReplay /\ replay.step = "admit"
      BY <3>1 DEF AdmitReplay, InReplay
    <3>3. request.kind = "admit"
      BY <2>1, <3>2 DEF Ground, ReplayInv
    <3>4. request.kind \in {"none", "pairs", "swaps"}
      BY AtCoord DEF Ground, RequestSound, RequestRecord
    <3> QED
      BY <3>3, <3>4
  <2>4. ~Ending
    <3>1. Ending => request' = Idle
      BY EndingIs
    <3> QED
      BY <1>1, <2>1, <3>1
  <2>5. replay' = replay
    BY <2>2, <2>3, <2>4, ReplayStays, StepIs DEF Replaying
  <2> QED
    BY <1>1, <2>1, <2>5
<1>2. CASE request' # request
  <2>1. request'.pc # "idle"
    BY DEF Forward
  <2>2. /\ Going
        /\ TipHolds \/ ScanHeader \/ PersistJournal \/ CommitChunk \/ ReadLogs \/ AdmitPair \/ HandleSwap
    BY <1>2, <2>1, LeadsTo DEF Ground, Forward
  <2>3. replay' = replay
    BY <2>2, ReplayStays
  <2>4. /\ request'.kind = request.kind
        /\ CommitChunk \/ (request'.from = request.from /\ request'.targets = request.targets)
    BY <2>2, GoingOn DEF Ground
  <2>5. request.pc \in {"tip", "scan", "logs", "chunk"}
    BY <2>2 DEF TipHolds, ScanHeader, PersistJournal, CommitChunk, ReadLogs, AtChunk, AdmitPair, HandleSwap
  <2> QED
    BY <2>3, <2>4, <2>5 DEF Forward
<1> QED
  BY <1>1, <1>2

\* The listeners of the running request, whose checkpoints only its chunks move.
LEMMA TargetsHeld ==
  ASSUME Ground, SkipInv, [Next]_vars, ~Restart, request'.pc \in Forward,
         ~PairsRequest, ~SwapsRequest, ~CommitChunk
  PROVE  TargetsSound'
<1>1. /\ request.pc \in Forward /\ request'.kind = request.kind /\ replay' = replay
      /\ request'.from = request.from /\ request'.targets = request.targets
      /\ request.pc # "idle" /\ request # Idle /\ request'.pc # "idle" /\ request'.pc # "project"
      /\ Idle.pc = "idle"
  BY ForwardGoes DEF Forward, Idle
<1>2. InReplay' <=> InReplay
  BY <1>1 DEF InReplay
<1>3. ~Rewind /\ ~Project
  <2>1. ~Rewind
    BY <1>1, LeadsTo, GoingOn DEF Ground, Rewind, Forward
  <2>2. Project => request' = Idle
    BY DEF Project, Return
  <2> QED
    BY <1>1, <2>1, <2>2
<1>4. /\ DOMAIN checkpoint = Listeners /\ monitor \in [Pairs -> {"off", "on", "stopped"}]
      /\ PairCreated \notin Pairs /\ PairCreated \in Listeners /\ Pairs \subseteq Listeners
  BY AtStore, AtCoord, ChainAssumption, ConstantsTyped DEF Ground
<1>5. ASSUME NEW l \in Listeners, l \notin Pairs \/ l \in DOMAIN request.targets
      PROVE  checkpoint'[l] = checkpoint[l]
  <2>1. ASSUME NEW q \in Pairs, Retire(q) PROVE checkpoint'[l] = checkpoint[l]
    <3>1. q \notin DOMAIN request.targets /\ checkpoint' = [checkpoint EXCEPT ![q] = None]
      BY <2>1 DEF Retire
    <3> QED
      BY <1>4, <1>5, <3>1
  <2> QED
    BY <1>3, <2>1, WhoMoves
<1>6. TargetsSound
  BY DEF SkipInv
<1>7. CASE request.kind # "swaps"
  BY <1>1, <1>4, <1>5, <1>6, <1>7 DEF TargetsSound
<1>8. CASE request.kind = "swaps"
  <2>1. ~InReplay => asked' = None
    <3>1. SUFFICES ASSUME ~InReplay PROVE asked' = None
      OBVIOUS
    <3>2. asked = None
      BY <1>1, <1>6, <1>8, <3>1 DEF TargetsSound
    <3>3. ~Ask /\ ~DropAsked
      BY <1>8, <3>2 DEF Ask, DropAsked
    <3> QED
      BY <3>2, <3>3, WhoMoves
  <2>2. ASSUME NEW p \in DOMAIN request.targets
        PROVE  /\ p \in Pairs /\ checkpoint'[p] = checkpoint[p]
               /\ ~InReplay /\ p \notin gone' =>
                    p \notin gone /\ monitor'[p] # "off" /\ (monitor'[p] = "on" => monitor[p] = "on")
    <3>1. p \in Pairs /\ checkpoint'[p] = checkpoint[p]
      BY <1>4, <1>5, TargetsTyped
    <3>2. SUFFICES ASSUME ~InReplay, p \notin gone'
                   PROVE  p \notin gone /\ monitor'[p] # "off" /\ (monitor'[p] = "on" => monitor[p] = "on")
      BY <3>1
    <3>3. p \notin gone
      <4>1. ~Ask
        BY <1>8 DEF Ask
      <4>2. ASSUME NEW q \in Pairs, Retire(q) PROVE p \notin gone
        BY <3>2, <4>2 DEF Retire
      <4> QED
        BY <1>3, <3>2, <4>1, <4>2, WhoMoves
    <3>4. monitor[p] # "off"
      BY <1>1, <1>6, <1>8, <3>2, <3>3 DEF TargetsSound
    <3>5. CASE monitor' = monitor
      BY <3>3, <3>4, <3>5
    <3>6. CASE HandleSwap
      <4>1. PICK q : q = PairOf[Log.event]
        OBVIOUS
      <4>2. monitor' = monitor \/ monitor' = [monitor EXCEPT ![q] = "stopped"]
        BY <3>6, <4>1, SwapIs DEF SkipInv
      <4> QED
        BY <1>4, <3>1, <3>3, <3>4, <4>2
    <3>7. CASE AdmitReplay
      BY <3>2, <3>7 DEF AdmitReplay, InReplay
    <3>8. ASSUME NEW q \in Pairs, StartMonitor(q)
          PROVE  monitor'[p] # "off" /\ (monitor'[p] = "on" => monitor[p] = "on")
      <4>1. monitor[q] = "off" /\ monitor' = [monitor EXCEPT ![q] = "on"]
        BY <3>8 DEF StartMonitor
      <4> QED
        BY <1>4, <3>1, <3>4, <4>1
    <3>9. ASSUME NEW q \in Pairs, Retire(q)
          PROVE  monitor'[p] # "off" /\ (monitor'[p] = "on" => monitor[p] = "on")
      <4>1. q \notin DOMAIN request.targets /\ monitor' = [monitor EXCEPT ![q] = "off"]
        BY <3>9 DEF Retire
      <4> QED
        BY <1>4, <3>1, <3>4, <4>1
    <3> QED
      BY <1>3, <3>3, <3>5, <3>6, <3>7, <3>8, <3>9, WhoMoves
  <2>3. \A p \in DOMAIN request.targets : NextOf(checkpoint[p])' = NextOf(checkpoint[p])
    BY <2>2, WhoMoves DEF NextOf
  <2>4. request.from >= 2 /\ \A p \in DOMAIN request.targets :
              /\ request.targets[p] >= request.from
              /\ InReplay => request.targets[p] = NextOf(checkpoint[p])
              /\ ~InReplay /\ p \notin gone =>
                   (monitor[p] = "on" =>
                      request.targets[p] = 2 \/ request.targets[p] <= Len(checkpoint[p]) + 1)
    BY <1>1, <1>6, <1>8 DEF TargetsSound
  <2> QED
    BY <1>1, <1>2, <1>8, <2>1, <2>2, <2>3, <2>4 DEF TargetsSound
<1> QED
  BY <1>7, <1>8


\* The end of a chunk, in full.
LEMMA CommitIs ==
  ASSUME Ground, CommitChunk
  PROVE  LET moved == IF request.kind = "pairs" THEN {PairCreated} ELSE Concerned
         IN /\ request.pc = "logs" /\ request.todo = <<>> /\ AllActive
            /\ Until \in Nat /\ Until >= 1 /\ Until <= Len(Tip)
            /\ Upto(Tip, Until) \in Chains /\ Len(Upto(Tip, Until)) = Until
            /\ IsPrefix(Upto(Tip, Until), Tip) /\ request.scan = Tip
            /\ checkpoint' = [l \in Listeners |-> IF l \in moved THEN Upto(Tip, Until) ELSE checkpoint[l]]
            /\ request'.pc = "chunk" /\ request'.kind = request.kind /\ request'.from = Until + 1
            /\ request'.targets = [p \in DOMAIN request.targets |->
                                     IF p \in moved THEN Until + 1 ELSE request.targets[p]]
            /\ UNCHANGED <<chain, cutoff, row, session, wallet, asked, coord, replay, monitor, gone>>
<1>1. request.pc = "logs" /\ request \in RequestRecord /\ request.todo = <<>> /\ AllActive
  BY AtRequest DEF CommitChunk, Ground
<1>2. UNCHANGED <<chain, cutoff, row, session, wallet, asked, coord, replay, monitor, gone>>
  BY DEF CommitChunk, nodeVars, projections, idleVars, monitors
<1>3. PICK moved, until, h, kept, t :
        /\ moved = IF request.kind = "pairs" THEN {PairCreated} ELSE Concerned
        /\ until = Until /\ h = Upto(request.scan, Until) /\ kept = (request.kept \/ request.kind = "pairs")
        /\ t = Tip
  OBVIOUS
<1>4. PICK targets : targets = [p \in DOMAIN request.targets |->
                                  IF p \in moved THEN until + 1 ELSE request.targets[p]]
  OBVIOUS
<1>5. /\ checkpoint' = [l \in Listeners |-> IF l \in moved THEN h ELSE checkpoint[l]]
      /\ request' = [request EXCEPT !.pc = "chunk", !.from = until + 1, !.kept = kept, !.targets = targets]
  BY <1>3, <1>4 DEF CommitChunk
<1>6. until \in Nat /\ until >= 1 /\ until <= Len(t) /\ request.scan = t /\ t \in Chains
  <2>1. until \in Int /\ until <= request.head /\ until >= 1
    BY <1>1, <1>3, AtRequest, UntilIs DEF Ground
  <2> QED
    BY <1>1, <1>3, <2>1, AtRequest, AtChain DEF Ground
<1>7. h = Upto(t, until) /\ until \in 0..Len(t)
  BY <1>3, <1>6
<1>8. h \in Chains /\ Len(h) = until /\ IsPrefix(h, t)
  BY <1>6, <1>7, UptoIs, UptoIsPrefix
<1>9. /\ request'.pc = "chunk" /\ request'.kind = request.kind /\ request'.from = until + 1
      /\ request'.targets = targets
  BY <1>1, <1>5 DEF RequestRecord
<1> QED
  BY <1>1, <1>2, <1>3, <1>4, <1>5, <1>6, <1>7, <1>8, <1>9

\* The end of a chunk moves the checkpoints and the listeners of the request together.
LEMMA TargetsCommit ==
  ASSUME Ground, SkipInv, CommitChunk
  PROVE  TargetsSound'
<1>1. PICK moved, until, h :
        /\ moved = IF request.kind = "pairs" THEN {PairCreated} ELSE Concerned
        /\ until = Until /\ h = Upto(Tip, Until)
  OBVIOUS
<1>2. /\ request.pc = "logs" /\ until \in Nat /\ until >= 1 /\ h \in Chains /\ Len(h) = until
      /\ checkpoint' = [l \in Listeners |-> IF l \in moved THEN h ELSE checkpoint[l]]
      /\ request'.kind = request.kind /\ request'.from = until + 1
      /\ request'.targets = [p \in DOMAIN request.targets |-> IF p \in moved THEN until + 1 ELSE request.targets[p]]
      /\ UNCHANGED <<cutoff, asked, replay, monitor, gone>>
  BY <1>1, CommitIs
<1>3. TargetsSound /\ request.pc \in Forward /\ Len(cutoff) = 1
  BY <1>2 DEF SkipInv, SessionsTyped, Forward
<1>4. PairCreated \in Listeners /\ Pairs \subseteq Listeners
  BY ConstantsTyped
<1>5. until + 1 >= 2
  BY <1>2
<1>6. ASSUME request.kind = "pairs" PROVE until + 1 = Len(checkpoint'[PairCreated]) + 1
  BY <1>1, <1>2, <1>4, <1>6
<1>7. ASSUME request.kind = "swaps"
      PROVE  /\ ~InReplay => asked = None
             /\ \A p \in DOMAIN request'.targets :
                  /\ request'.targets[p] >= until + 1
                  /\ InReplay => request'.targets[p] = NextOf(checkpoint'[p])
                  /\ ~InReplay /\ p \notin gone =>
                       /\ monitor[p] # "off"
                       /\ monitor[p] = "on" =>
                            request'.targets[p] = 2 \/ request'.targets[p] <= Len(checkpoint'[p]) + 1
  <2>1. ~InReplay => asked = None
    BY <1>3, <1>7 DEF TargetsSound
  <2>2. moved = Concerned
    BY <1>1, <1>7
  <2>3. ASSUME NEW p \in DOMAIN request.targets
        PROVE  /\ request'.targets[p] >= until + 1
               /\ InReplay => request'.targets[p] = NextOf(checkpoint'[p])
               /\ ~InReplay /\ p \notin gone =>
                    /\ monitor[p] # "off"
                    /\ monitor[p] = "on" =>
                         request'.targets[p] = 2 \/ request'.targets[p] <= Len(checkpoint'[p]) + 1
    <3>1. p \in Listeners /\ request.targets[p] \in Nat
      BY <1>4, TargetsTyped
    <3>2. /\ InReplay => request.targets[p] = NextOf(checkpoint[p])
          /\ ~InReplay /\ p \notin gone =>
               /\ monitor[p] # "off"
               /\ monitor[p] = "on" =>
                    request.targets[p] = 2 \/ request.targets[p] <= Len(checkpoint[p]) + 1
      BY <1>3, <1>7 DEF TargetsSound
    <3>3. CASE p \in moved
      <4>1. checkpoint'[p] = h /\ request'.targets[p] = until + 1
        BY <1>2, <3>1, <3>3
      <4>2. h # None
        BY <1>2 DEF None
      <4>3. NextOf(h) = Len(h) + 1
        BY <4>2 DEF NextOf
      <4> QED
        BY <1>2, <3>2, <4>1, <4>3
    <3>4. CASE p \notin moved
      <4>1. checkpoint'[p] = checkpoint[p] /\ request'.targets[p] = request.targets[p]
        BY <1>2, <3>1, <3>4
      <4>2. ~(request.targets[p] <= until)
        BY <1>1, <2>2, <3>4 DEF Concerned
      <4>3. request.targets[p] >= until + 1
        BY <1>2, <3>1, <4>2
      <4> QED
        BY <3>2, <4>1, <4>3
    <3> QED
      BY <3>3, <3>4
  <2>4. DOMAIN request'.targets = DOMAIN request.targets
    BY <1>2
  <2> QED
    BY <2>1, <2>3, <2>4
<1>8. InReplay' <=> InReplay
  BY <1>2 DEF InReplay
<1>9. \A c : NextOf(c)' = NextOf(c)
  BY <1>2 DEF NextOf
<1> QED
  BY <1>2, <1>5, <1>6, <1>7, <1>8, <1>9 DEF TargetsSound, NextOf

\* A request starts from the checkpoints it has read.
LEMMA TargetsStart ==
  ASSUME Ground, SkipInv, PairsRequest \/ SwapsRequest
  PROVE  TargetsSound'
<1>1. CASE PairsRequest
  <2>1. PICK n : n = Len(checkpoint[PairCreated])
    OBVIOUS
  <2>2. UNCHANGED checkpoint /\ request'.from = n + 1 /\ request'.kind = "pairs"
    BY <1>1, <2>1 DEF PairsRequest, Start, storeVars, Idle
  <2>3. n \in Nat /\ n >= 1
    <3>1. PICK c : c = checkpoint[PairCreated]
      OBVIOUS
    <3>2. c \in Chains /\ c # None
      BY <3>1, AtChain, AtStore, ConstantsTyped DEF Ground
    <3> QED
      BY <2>1, <3>1, <3>2 DEF Chains, None
  <2>4. n + 1 >= 2
    BY <2>3
  <2> QED
    BY <2>1, <2>2, <2>4 DEF TargetsSound
<1>2. CASE SwapsRequest
  <2>1. PICK read : read = IF InReplay THEN Snapshot ELSE asked
    OBVIOUS
  <2>2. PICK from, targets, anchor :
          /\ from = FirstOf(read) /\ targets = [p \in DOMAIN read |-> NextOf(read[p])]
          /\ request' = [Idle EXCEPT !.pc = "tip", !.kind = "swaps", !.head = Len(chain), !.from = from,
                                     !.targets = targets, !.anchor = anchor]
          /\ DOMAIN read # {}
    BY <1>2, <2>1 DEF SwapsRequest, Start
  <2>3. request'.kind = "swaps" /\ request'.from = from /\ request'.targets = targets
    BY <2>2 DEF Idle
  <2>4. /\ UNCHANGED <<cutoff, checkpoint, replay, monitor, gone>>
        /\ asked' = IF InReplay THEN asked ELSE None
        /\ ~InReplay => coord.state = "HEALTHY"
    BY <1>2 DEF SwapsRequest, Admitted, nodeVars, storeVars, monitors
  <2>5. DOMAIN read \subseteq Pairs /\ \A p \in DOMAIN read : read[p] \in Chains
    BY <2>1, SnapshotTyped, AtCoord DEF Ground
  <2>6. Len(cutoff) = 1 /\ AskedSound
    BY DEF SkipInv, SessionsTyped
  <2>7. ASSUME NEW c \in Chains
        PROVE  /\ NextOf(c) \in Nat /\ NextOf(c) >= 2
               /\ NextOf(c) = IF c = None THEN 2 ELSE Len(c) + 1
    <3>1. NextOf(c) = IF c = None THEN 2 ELSE Len(c) + 1
      BY <2>6 DEF NextOf
    <3>2. Len(c) \in Nat /\ (c # None => Len(c) >= 1)
      BY DEF Chains, None
    <3> QED
      BY <3>1, <3>2
  <2>8. from >= 2 /\ \A p \in DOMAIN read : targets[p] >= from
    <3> DEFINE S == {NextOf(read[p]) : p \in DOMAIN read}
    <3>1. S \in SUBSET Nat /\ S # {} /\ \A n \in S : n >= 2
      BY <2>2, <2>5, <2>7
    <3>2. from = Min(S) /\ \A p \in DOMAIN read : targets[p] \in S
      BY <2>2 DEF FirstOf
    <3> HIDE DEF S
    <3>3. from \in S /\ \A n \in S : from <= n
      BY <3>1, <3>2, MinOfNats
    <3> QED
      BY <3>1, <3>2, <3>3
  <2>9. ASSUME NEW p \in DOMAIN read
        PROVE  /\ InReplay => targets[p] = NextOf(checkpoint[p])
               /\ ~InReplay /\ p \notin gone =>
                    /\ monitor[p] # "off"
                    /\ monitor[p] = "on" => targets[p] = 2 \/ targets[p] <= Len(checkpoint[p]) + 1
    <3>1. targets[p] = NextOf(read[p])
      BY <2>2
    <3>2. CASE InReplay
      BY <2>1, <3>1, <3>2 DEF Snapshot
    <3>3. CASE ~InReplay
      <4>1. read = asked /\ coord.state = "HEALTHY"
        BY <2>1, <2>4, <3>3
      <4>2. p \notin gone => monitor[p] # "off" /\ (monitor[p] = "on" => Len(read[p]) <= Len(checkpoint[p]))
        BY <2>6, <4>1 DEF AskedSound
      <4>3. PICK c, n : c = read[p] /\ n = Len(checkpoint[p])
        OBVIOUS
      <4>4. c \in Chains /\ Len(c) \in Nat /\ n \in Nat
        <5>1. p \in Listeners
          BY <2>5, ConstantsTyped
        <5> QED
          BY <2>5, <4>3, <5>1, AtChain DEF Ground, Chains
      <4>5. targets[p] = IF c = None THEN 2 ELSE Len(c) + 1
        BY <2>7, <3>1, <4>3, <4>4
      <4> QED
        BY <3>3, <4>2, <4>3, <4>4, <4>5
    <3> QED
      BY <3>2, <3>3
  <2>10. \A c : NextOf(c)' = NextOf(c)
    BY <2>4 DEF NextOf
  <2>11. InReplay' <=> InReplay
    BY <2>4 DEF InReplay
  <2>12. DOMAIN targets = DOMAIN read
    BY <2>2
  <2> QED
    BY <2>3, <2>4, <2>8, <2>9, <2>10, <2>11, <2>12 DEF TargetsSound, NextOf
<1> QED
  BY <1>1, <1>2

LEMMA TargetsNext ==
  ASSUME Ground, SkipInv, [Next]_vars, ~Restart
  PROVE  TargetsSound'
<1>1. request'.pc \notin Forward => TargetsSound'
  BY DEF TargetsSound
<1> QED
  BY <1>1, TargetsHeld, TargetsCommit, TargetsStart


\* The pairs of the pass that waits keep their listeners, or are known to have lost them.
LEMMA AskedStay ==
  ASSUME Ground, SkipInv, [Next]_vars, ~Restart, ~Ask, NEW p \in DOMAIN asked', p \notin gone'
  PROVE  /\ p \in DOMAIN asked /\ p \in Pairs /\ asked'[p] = asked[p] /\ p \notin gone
         /\ monitor[p] # "off" /\ monitor'[p] # "off" /\ (monitor'[p] = "on" => monitor[p] = "on")
         /\ ~Retire(p)
<1>1. p \in DOMAIN asked /\ asked'[p] = asked[p]
  <2>1. DOMAIN None = {}
    BY DEF None
  <2>2. asked' = asked \/ asked' = None
    BY WhoMoves DEF SwapsRequest, DropAsked
  <2> QED
    BY <2>1, <2>2
<1>2. p \in Pairs /\ monitor \in [Pairs -> {"off", "on", "stopped"}]
  BY <1>1, AtCoord DEF Ground
<1>3. ~Retire(p)
  BY <1>1 DEF Retire
<1>4. p \notin gone
  BY WhoMoves DEF Project, Retire
<1>5. monitor[p] # "off"
  BY <1>1, <1>4 DEF SkipInv, AskedSound
<1>6. CASE monitor' = monitor
  BY <1>1, <1>2, <1>3, <1>4, <1>5, <1>6
<1>7. ASSUME HandleSwap PROVE monitor'[p] # "off" /\ (monitor'[p] = "on" => monitor[p] = "on")
  <2>1. PICK q : q = PairOf[Log.event]
    OBVIOUS
  <2>2. monitor' = monitor \/ monitor' = [monitor EXCEPT ![q] = "stopped"]
    BY <1>7, <2>1, SwapIs DEF SkipInv
  <2> QED
    BY <1>2, <1>5, <2>2
<1>8. ASSUME Project PROVE monitor'[p] # "off" /\ (monitor'[p] = "on" => monitor[p] = "on")
  <2>1. /\ monitor' = [q \in Pairs |-> IF Monitorable(session'[q]) THEN monitor[q] ELSE "off"]
        /\ gone' = gone \cup {q \in DOMAIN asked : monitor'[q] = "off"}
    BY <1>8 DEF Project
  <2> QED
    BY <1>1, <1>2, <2>1
<1>9. ASSUME AdmitReplay PROVE monitor'[p] # "off" /\ (monitor'[p] = "on" => monitor[p] = "on")
  <2>1. monitor' = [q \in Pairs |-> IF monitor[q] = "off" /\ Monitorable(session[q]) THEN "on"
                                     ELSE monitor[q]]
    BY <1>9 DEF AdmitReplay
  <2> QED
    BY <1>2, <1>5, <2>1
<1>10. ASSUME NEW q \in Pairs, StartMonitor(q)
       PROVE  monitor'[p] # "off" /\ (monitor'[p] = "on" => monitor[p] = "on")
  <2>1. monitor[q] = "off" /\ monitor' = [monitor EXCEPT ![q] = "on"]
    BY <1>10 DEF StartMonitor
  <2> QED
    BY <1>2, <1>5, <2>1
<1>11. ASSUME NEW q \in Pairs, Retire(q)
       PROVE  monitor'[p] # "off" /\ (monitor'[p] = "on" => monitor[p] = "on")
  <2>1. monitor' = [monitor EXCEPT ![q] = "off"] /\ q # p
    BY <1>3, <1>11 DEF Retire
  <2> QED
    BY <1>2, <1>5, <2>1
<1> QED
  BY <1>1, <1>2, <1>3, <1>4, <1>5, <1>6, <1>7, <1>8, <1>9, <1>10, <1>11, WhoMoves

\* But for a rollback, the checkpoint of a pair of the waiting pass does not fall back.
LEMMA CheckpointsHold ==
  ASSUME Ground, SkipInv, [Next]_vars, ~Restart, ~Rewind, NEW p \in Pairs, p \in DOMAIN asked, ~Retire(p)
  PROVE  Len(checkpoint[p]) <= Len(checkpoint'[p])
<1>1. p \in Listeners /\ DOMAIN checkpoint = Listeners /\ Len(checkpoint[p]) \in Nat
  BY AtStore, AtChain, ConstantsTyped DEF Ground
<1>2. CASE checkpoint' = checkpoint
  BY <1>1, <1>2
<1>3. ASSUME NEW q \in Pairs, Retire(q) PROVE Len(checkpoint[p]) <= Len(checkpoint'[p])
  <2>1. checkpoint' = [checkpoint EXCEPT ![q] = None] /\ q # p
    BY <1>3 DEF Retire
  <2>2. checkpoint'[p] = checkpoint[p]
    BY <1>1, <2>1
  <2> QED
    BY <1>1, <2>2
<1>4. CASE CommitChunk
  <2>1. PICK moved, until, h :
          /\ moved = IF request.kind = "pairs" THEN {PairCreated} ELSE Concerned
          /\ until = Until /\ h = Upto(Tip, Until)
    OBVIOUS
  <2>2. /\ checkpoint' = [l \in Listeners |-> IF l \in moved THEN h ELSE checkpoint[l]]
        /\ Len(h) = until /\ until \in Nat /\ request.pc = "logs"
    BY <1>4, <2>1, CommitIs
  <2>3. CASE p \notin moved
    BY <1>1, <2>2, <2>3
  <2>4. CASE p \in moved
    <3>1. request.kind = "swaps" /\ p \in Concerned
      <4>1. p # PairCreated
        BY ChainAssumption
      <4>2. request.kind \in {"none", "pairs", "swaps"} /\ request.pc # "idle"
        BY <2>2, AtCoord DEF Ground, RequestSound, RequestRecord
      <4>3. request.kind # "none"
        BY <4>2 DEF Ground, TurnsSound
      <4> QED
        BY <2>1, <2>4, <4>1, <4>2, <4>3
    <3>2. p \in DOMAIN request.targets /\ request.targets[p] <= until
      BY <2>1, <3>1 DEF Concerned
    <3>3. asked # None
      BY DEF None
    <3>4. InReplay /\ request.targets[p] = NextOf(checkpoint[p])
      BY <2>2, <3>1, <3>2, <3>3 DEF SkipInv, TargetsSound, Forward
    <3>5. PICK c : c = checkpoint[p]
      OBVIOUS
    <3>6. Len(c) \in Nat /\ NextOf(c) = IF c = None THEN 2 ELSE Len(c) + 1
      BY <1>1, <3>5 DEF SkipInv, SessionsTyped, NextOf
    <3>7. Len(c) <= until
      BY <2>2, <3>2, <3>4, <3>5, <3>6 DEF None
    <3> QED
      BY <1>1, <2>2, <2>4, <3>5, <3>7
  <2> QED
    BY <2>3, <2>4
<1> QED
  BY <1>2, <1>3, <1>4, WhoMoves


\* A pass that waits through a divergence is not ahead of the replay that follows it.
LEMMA AskedNext ==
  ASSUME Ground, SkipInv, [Next]_vars, ~Restart
  PROVE  AskedSound'
<1> SUFFICES ASSUME NEW p \in DOMAIN asked', p \notin gone'
             PROVE  /\ monitor'[p] # "off"
                    /\ monitor'[p] = "on" /\ coord'.state = "HEALTHY" =>
                         Len(asked'[p]) <= Len(checkpoint'[p])
                    /\ monitor'[p] = "on" /\ coord'.state = "RECONCILING" =>
                         \/ Len(asked'[p]) <= Len(coord'.last[2])
                         \/ request'.pc # "rewind" /\ Len(asked'[p]) <= Len(checkpoint'[p])
  BY DEF AskedSound
<1>1. CASE Ask
  <2>1. asked' = Snapshot /\ UNCHANGED <<checkpoint, monitor, coord, request>>
    BY <1>1 DEF Ask, storeVars
  <2>2. p \in On /\ asked'[p] = checkpoint[p] /\ monitor[p] = "on" /\ p \in Listeners
    BY <2>1, ConstantsTyped DEF Snapshot, On
  <2>3. Len(checkpoint[p]) \in Nat /\ Len(checkpoint[p]) <= Len(Tip) /\ Len(Tip) \in Nat
        /\ Len(coord.last[2]) \in Nat
    BY <2>2, AtChain, LastTyped DEF Ground
  <2>4. request.pc = "rewind" => Len(Tip) <= Len(coord.last[2])
    BY DEF Ground, DivergenceSound
  <2>5. request.pc = "rewind" => Len(checkpoint[p]) <= Len(coord.last[2])
    BY <2>3, <2>4
  <2>6. Len(checkpoint[p]) <= Len(checkpoint[p])
    BY <2>3
  <2> QED
    BY <2>1, <2>2, <2>5, <2>6
<1>2. CASE ~Ask
  <2>1. /\ p \in DOMAIN asked /\ p \in Pairs /\ asked'[p] = asked[p] /\ p \notin gone
        /\ monitor[p] # "off" /\ monitor'[p] # "off" /\ (monitor'[p] = "on" => monitor[p] = "on")
        /\ ~Retire(p)
    BY <1>2, AskedStay
  <2>2. PICK a, k, m, head : /\ a = Len(asked[p]) /\ k = Len(checkpoint[p]) /\ m = Len(coord.last[2])
                             /\ head = request.head
    OBVIOUS
  <2>3. a \in Nat /\ k \in Nat /\ m \in Nat /\ k <= Len(Tip) /\ Len(Tip) \in Nat /\ head \in Nat
    <3>1. asked[p] \in Chains /\ request \in RequestRecord
      BY <2>1, AtCoord DEF Ground, RequestSound
    <3>2. Len(asked[p]) \in Nat
      BY <3>1 DEF Chains
    <3>3. head \in Nat
      BY <2>2, <3>1 DEF RequestRecord
    <3>4. p \in Listeners
      BY <2>1, ConstantsTyped
    <3> QED
      BY <2>2, <3>2, <3>3, <3>4, AtChain, LastTyped DEF Ground
  <2>4. PICK k2 : k2 = Len(checkpoint'[p])
    OBVIOUS
  <2>5. ~Rewind => k <= k2
    BY <2>1, <2>2, <2>4, CheckpointsHold
  <2>6. k2 \in Nat
    <3>1. ChainInv'
      BY ChainNext DEF Ground
    <3>2. checkpoint'[p] \in Chains
      BY <2>1, <3>1, ConstantsTyped DEF ChainInv
    <3> QED
      BY <2>4, <3>2 DEF Chains
  <2>7. SUFFICES ASSUME monitor'[p] = "on", coord'.state \in {"HEALTHY", "RECONCILING"}
                 PROVE  /\ coord'.state = "HEALTHY" => a <= k2
                        /\ coord'.state = "RECONCILING" =>
                             a <= Len(coord'.last[2]) \/ (request'.pc # "rewind" /\ a <= k2)
    BY <2>1, <2>2, <2>4
  <2>8. /\ coord.state = "HEALTHY" => a <= k
        /\ coord.state = "RECONCILING" => a <= m \/ (request.pc # "rewind" /\ a <= k)
    BY <2>1, <2>2, <2>7 DEF SkipInv, AskedSound
  <2>9. Rewind => request.pc = "rewind" /\ coord.state = "RECONCILING"
    BY DEF Rewind, Ground, TurnsSound
  <2>10. request'.pc = "rewind" => Diverge \/ request.pc = "rewind"
    <3>1. request'.pc = "rewind" /\ request' # request => Diverge
      BY LeadsTo DEF Ground
    <3> QED
      BY <3>1
  <2>11. CASE coord' = coord
    <3>1. CASE coord.state = "HEALTHY"
      <4>1. a <= k /\ k <= k2
        BY <2>5, <2>8, <2>9, <3>1
      <4>2. a <= k2
        BY <2>3, <2>6, <4>1
      <4> QED
        BY <2>11, <3>1, <4>2
    <3>2. CASE coord.state = "RECONCILING" /\ a <= m
      BY <2>2, <2>11, <3>2
    <3>3. CASE coord.state = "RECONCILING" /\ request.pc # "rewind" /\ a <= k
      <4>1. k <= k2
        BY <2>5, <2>9, <3>3
      <4>2. a <= k2
        BY <2>3, <2>6, <3>3, <4>1
      <4>3. ~Diverge
        <5>1. Diverge => ~coord'.ready /\ request.pc = "verify"
          BY CoordMoves DEF Diverge, Ground
        <5>6. "verify" \in Busy
          BY DEF Busy
        <5>2. request.pc \in Busy /\ ~InReplay => coord.state = "HEALTHY"
          BY DEF Ground, TurnsSound
        <5>3. coord.state = "RECONCILING" /\ ~coord.ready => request.pc \notin Busy
          BY DEF Ground, TurnsSound, Busy, Idle
        <5>4. CoordSound(coord, audit, replay, request)
          BY AtCoord DEF Ground
        <5>5. coord.ready \in BOOLEAN
          BY <5>4 DEF CoordSound
        <5> QED
          BY <2>11, <3>3, <5>1, <5>3, <5>5, <5>6
      <4> QED
        BY <2>10, <2>11, <3>3, <4>2, <4>3
    <3> QED
      BY <2>7, <2>8, <2>11, <3>1, <3>2, <3>3
  <2>12. CASE Diverge
    <3>1. request.pc = "verify" /\ coord'.last[2] = request.new /\ coord'.state = "RECONCILING"
      <4>1. PICK t, new : t = Tip /\ new = request.new
        OBVIOUS
      <4>2. coord'.last = <<t, new>> /\ coord'.state = "RECONCILING"
        BY <2>12, <4>1, CoordMoves DEF Ground
      <4>3. request.pc = "verify"
        BY <2>12 DEF Diverge
      <4> QED
        BY <4>1, <4>2, <4>3
    <3>2. Len(request.new) = head /\ Len(Tip) <= head
      BY <2>2, <3>1 DEF Ground, ReplayInv, HeadsSound, DivergenceSound
    <3>3. coord.state # "MANUAL_REVIEW"
      BY <3>1 DEF Ground, ReplayInv
    <3>4. coord.state = "RECONCILING" => m <= head
      <4>1. request.pc \in Busy
        BY <3>1 DEF Busy
      <4>2. coord.state = "RECONCILING" => InReplay
        BY <4>1 DEF Ground, TurnsSound
      <4> QED
        BY <2>2, <2>3, <4>1, <4>2 DEF Ground, ReplayInv, ReadSound
    <3>5. coord.state \in {"HEALTHY", "RECONCILING", "MANUAL_REVIEW"}
      BY LastTyped DEF Ground, States
    <3>6. a <= m \/ a <= k
      BY <2>8, <3>3, <3>5
    <3>7. a <= head
      <4>1. CASE a <= k
        BY <2>3, <3>2, <4>1
      <4>2. CASE ~(a <= k)
        <5>1. coord.state = "RECONCILING" /\ a <= m
          BY <2>8, <3>3, <3>5, <4>2
        <5> QED
          BY <2>3, <3>4, <5>1
      <4> QED
        BY <4>1, <4>2
    <3> QED
      BY <3>1, <3>2, <3>7
  <2>13. CASE DeepReorg
    BY <2>7, <2>13, CoordMoves DEF Ground
  <2>14. CASE Project
    <3>1. request.pc = "project" /\ request'.pc = "idle" /\ coord'.last = coord.last
      <4>1. CoordSound(coord, audit, replay, request)
        BY AtCoord DEF Ground
      <4>2. PICK c : c = coord
        OBVIOUS
      <4>3. c \in [state : States, ready : BOOLEAN, last : Chains \X Chains, pending : Seq(DOMAIN audit)]
        BY <4>1, <4>2 DEF CoordSound
      <4>4. \/ coord' = [c EXCEPT !.state = "MANUAL_REVIEW", !.ready = FALSE, !.last = c.last]
            \/ coord' = [[c EXCEPT !.state = "RECONCILING", !.ready = TRUE, !.last = c.last]
                           EXCEPT !.pending = Append(@, c.last)]
        BY <2>14, <4>2 DEF Project, Status
      <4>5. coord'.last = c.last
        BY <4>3, <4>4
      <4> QED
        BY <2>14, <4>2, <4>5 DEF Project, Return, Idle
    <3>2. coord.state = "RECONCILING" /\ checkpoint' = checkpoint
      BY <2>14, <3>1 DEF Ground, TurnsSound, Project
    <3>3. coord'.state # "HEALTHY"
      BY <2>14, CoordMoves DEF Ground
    <3> QED
      BY <2>2, <2>4, <2>8, <3>1, <3>2, <3>3
  <2>15. CASE Complete
    <3>1. request' = request /\ checkpoint' = checkpoint /\ request = Idle /\ replay.step = "complete"
      BY <2>15 DEF Complete
    <3>2. coord'.last = coord.last
      <4>1. PICK c : c = coord
        OBVIOUS
      <4>2. c \in [state : States, ready : BOOLEAN, last : Chains \X Chains, pending : Seq(DOMAIN audit)]
        BY <4>1, AtCoord DEF Ground, CoordSound
      <4>3. \E pending, state, ready : coord' = [c EXCEPT !.pending = pending, !.state = state, !.ready = ready]
        BY <2>15, <4>1 DEF Complete
      <4> QED
        BY <4>1, <4>2, <4>3
    <3>3. CASE coord'.state = coord.state
      BY <2>2, <2>4, <2>7, <2>8, <3>1, <3>2, <3>3
    <3>4. CASE coord'.state = "HEALTHY" /\ coord.state = "RECONCILING" /\ ~replay.again
      <4>1. request.pc = "idle"
        BY <3>1 DEF Idle
      <4>2. p \in On
        BY <2>1, <2>7 DEF On
      <4>3. Len(checkpoint[p]) >= Len(coord.last[2])
        BY <3>1, <3>4, <4>1, <4>2 DEF Ground, ReplayInv, StepsSound, Undisturbed
      <4>4. a <= k
        BY <2>2, <2>3, <2>8, <3>4, <4>3
      <4> QED
        BY <2>2, <2>4, <3>1, <3>4, <4>4
    <3> QED
      BY <2>15, <3>3, <3>4, CoordMoves DEF Ground
  <2> QED
    BY <2>11, <2>12, <2>13, <2>14, <2>15, CoordStays
<1> QED
  BY <1>1, <1>2


\* What has been handled stays so, but for what a rollback takes back.
LEMMA DoneStays ==
  ASSUME Ground, SkipInv, [Next]_vars, ~Restart, NEW e \in Events, NEW b \in Chains, Done(e, b),
         Rewind => Len(b) <= Len(request.scan)
  PROVE  \/ Done(e, b)'
         \/ /\ e \in Created /\ request.pc = "project" /\ PairOf[e] \in DOMAIN Affected
            /\ Affected[PairOf[e]].discovery
<1>1. CASE e \in Created
  <2>1. PICK p : p = PairOf[e]
    OBVIOUS
  <2>2. p \in Pairs
    BY <2>1, ConstantsTyped
  <2>3. CASE p \in Incompatible
    BY <1>1, <2>1, <2>3 DEF Done
  <2>4. CASE p \notin Incompatible
    <3>1. Seen(p)
      BY <1>1, <2>1, <2>4 DEF Done
    <3>2. \/ Seen(p)'
          \/ request.pc = "project" /\ p \in DOMAIN Affected /\ Affected[p].discovery
      BY <2>2, <3>1, SeenStays
    <3> QED
      BY <1>1, <2>1, <3>2 DEF Done
  <2> QED
    BY <2>3, <2>4
<1>2. CASE e \notin Created
  <2>1. row[e].canonical /\ row[e].block = b
    BY <1>2 DEF Done
  <2>2. SUFFICES row'[e].canonical /\ row'[e].block = b
    BY <1>2 DEF Done
  <2>3. DOMAIN row = Events
    BY AtStore DEF Ground
  <2>4. CASE row' = row
    BY <2>1, <2>4
  <2>5. CASE (AdmitPair \/ HandleSwap) /\ row' = [row EXCEPT ![Log.event] = Processed] /\ row' # row
    <3>1. Log.event # e
      <4>1. CASE AdmitPair
        <5>1. Log.event \in Created
          BY <4>1, AtLog DEF AdmitPair, SkipInv
        <5> QED
          BY <1>2, <5>1
      <4>2. CASE HandleSwap
        <5>1. ~Claims(Log.event) => row' = row
          BY <4>2 DEF HandleSwap, projections
        <5> QED
          BY <2>1, <2>5, <5>1 DEF Claims
      <4> QED
        BY <2>5, <4>1, <4>2
    <3> QED
      BY <2>1, <2>3, <2>5, <3>1
  <2>6. CASE Rewind /\ row' = [f \in Events |-> RewoundRow(f)]
    <3>1. row'[e] = RewoundRow(e)
      BY <2>6
    <3> QED
      BY <2>1, <2>6, <3>1, RewoundRowIs DEF Ground
  <2> QED
    BY <2>4, <2>5, <2>6, RowMoves
<1> QED
  BY <1>1, <1>2

\* A log is handled, or has been under the same block.
LEMMA HandledIs ==
  ASSUME Ground, SkipInv, [Next]_vars, ~Restart, AdmitPair \/ HandleSwap,
         NEW e, NEW b, e = Log.event, b = Log.block
  PROVE  Done(e, b)'
<1>1. request.pc = "logs" /\ request.todo # <<>> /\ LogsSound
  BY DEF AdmitPair, HandleSwap, SkipInv
<1>2. /\ e \in Events /\ b \in Chains /\ IsPrefix(b, Tip) /\ LogSound(Log) /\ ~Stuck
      /\ PairOf[e] \in Pairs /\ DOMAIN row = Events
  BY <1>1, AtLog, AtStore DEF Ground
<1>3. e \in Range(EventsAt(b)) /\ Len(b) >= 1
  <2>1. PICK n \in request.from..Until : b = Upto(request.scan, n)
    BY <1>2 DEF LogSound
  <2>2. Len(b) = n /\ n >= 2 /\ n \in Nat
    BY <1>1, <2>1, InChunk
  <2> QED
    BY <1>2, <2>2 DEF LogSound
<1>4. CASE AdmitPair
  <2>1. PICK p : p = PairOf[e]
    OBVIOUS
  <2>2. e \in Created /\ p \in Pairs
    BY <1>1, <1>2, <1>4, <2>1, AtLog DEF AdmitPair
  <2>3. session \in [Pairs -> SessionRecord] /\ (monitor[p] # "off" => Stored(session[p]))
    BY <1>2, <2>2 DEF SkipInv, SessionsTyped
  <2>4. SUFFICES ASSUME p \notin Incompatible PROVE Seen(p)'
    BY <2>1, <2>2 DEF Done
  <2>5. /\ wallet' = wallet
        /\ IF monitor[p] = "off" /\ (session[p] = NoSession \/ Reappeared(p))
           THEN session' = [session EXCEPT ![p] = Fresh] ELSE session' = session
    BY <1>4, <2>1, <2>4 DEF AdmitPair
  <2>6. CASE monitor[p] = "off" /\ (session[p] = NoSession \/ Reappeared(p))
    <3>1. session'[p] = Fresh /\ Fresh.status = "WAITING_FIRST_BUY"
      BY <2>2, <2>3, <2>5, <2>6, FreshIs
    <3> QED
      BY <3>1 DEF Seen, Reappeared, NoSession
  <2>7. CASE ~(monitor[p] = "off" /\ (session[p] = NoSession \/ Reappeared(p)))
    <3>1. Seen(p)
      BY <2>3, <2>7 DEF Seen, Reappeared, Stored, NoSession
    <3>2. session' = session /\ wallet' = wallet
      BY <2>5, <2>7
    <3> QED
      BY <3>1, <3>2 DEF Seen, Reappeared
  <2> QED
    BY <2>6, <2>7
<1>5. CASE HandleSwap
  <2>1. e \notin Created
    <3>1. request.kind # "pairs"
      BY <1>5, Zenon DEF HandleSwap
    <3> QED
      BY <1>1, <3>1, AtLog
  <2>2. SUFFICES row'[e].canonical /\ row'[e].block = b
    BY <2>1 DEF Done
  <2>3. CASE Claims(e)
    <3>1. row' = [row EXCEPT ![e] = Processed]
      BY <1>5, <2>3, Zenon DEF HandleSwap
    <3>2. row'[e] = Processed
      BY <1>2, <3>1
    <3> QED
      BY <3>2, ProcessedIs
  <2>4. CASE ~Claims(e)
    <3>1. row' = row
      BY <1>5, <2>4 DEF HandleSwap, projections
    <3>2. row[e].canonical
      BY <2>4 DEF Claims
    <3>3. PICK g, t : g = row[e].block /\ t = Tip
      OBVIOUS
    <3>4. g \in Chains /\ Len(g) \in Nat /\ Len(g) > 1 /\ IsPrefix(g, t) /\ e \in Range(EventsAt(g))
      BY <1>2, <3>2, <3>3, Placed
    <3>5. t \in Chains /\ Len(t) <= MaxHeight /\ Len(g) >= 1
      <4>1. Len(t) <= Len(chain) /\ Len(chain) <= MaxHeight /\ Len(t) \in Nat /\ Len(chain) \in Nat
            /\ MaxHeight \in Nat /\ t \in Chains
        BY <3>3, AtChain, ConstantsTyped DEF Ground
      <4> QED
        BY <3>4, <4>1
    <3>6. g = b
      BY <1>2, <1>3, <3>3, <3>4, <3>5, SameBlock
    <3> QED
      BY <3>1, <3>2, <3>3, <3>6
  <2> QED
    BY <2>3, <2>4
<1> QED
  BY <1>4, <1>5


\* What the handling of a log leaves of the request.
LEMMA LogGoes ==
  ASSUME Ground, [Next]_vars, ~Restart, request.pc = "logs", request'.pc = "logs"
  PROVE  /\ request'.kind = request.kind /\ request'.from = request.from
         /\ request'.scan = request.scan /\ request'.targets = request.targets
         /\ Until' = Until /\ Concerned' = Concerned
         /\ \/ request'.todo = request.todo
            \/ /\ AdmitPair \/ HandleSwap
               /\ request.todo # <<>> /\ request'.todo = Tail(request.todo)
<1>1. request \in RequestRecord
  BY AtCoord DEF Ground, RequestSound
<1>2. CASE request' = request
  BY <1>2 DEF Until, Concerned
<1>3. CASE request' # request
  <2>1. AdmitPair \/ HandleSwap
    <3>1. request'.pc # "idle" /\ ~ReadLogs
      BY DEF ReadLogs, AtChunk
    <3> QED
      BY <1>3, <3>1, LeadsTo DEF Ground
  <2>2. PICK rest : rest = Tail(request.todo)
    OBVIOUS
  <2>3. request' = [request EXCEPT !.todo = rest] /\ request.todo # <<>>
    BY <2>1, <2>2 DEF AdmitPair, HandleSwap, NextLog
  <2>4. /\ request'.kind = request.kind /\ request'.from = request.from /\ request'.head = request.head
        /\ request'.scan = request.scan /\ request'.targets = request.targets /\ request'.todo = rest
    BY <1>1, <2>3 DEF RequestRecord
  <2>5. Until' = Until /\ Concerned' = Concerned
    BY <2>4 DEF Until, Concerned
  <2> QED
    BY <2>1, <2>2, <2>3, <2>4, <2>5
<1> QED
  BY <1>2, <1>3

\* While the logs are handled, one after the other, none is lost.
LEMMA LogsStay ==
  ASSUME Ground, SkipInv, [Next]_vars, ~Restart, Moved, request.pc = "logs", request'.pc = "logs"
  PROVE  LogsSound'
<1>1. PICK todo, rest, scan, from, until :
        /\ todo = request.todo /\ rest = request'.todo /\ scan = request.scan /\ from = request.from
        /\ until = Until
  OBVIOUS
<1>2. /\ request'.kind = request.kind /\ request'.from = from
      /\ request'.scan = scan /\ request'.targets = request.targets
      /\ Until' = until /\ Concerned' = Concerned
      /\ \/ rest = todo
         \/ (AdmitPair \/ HandleSwap) /\ todo # <<>> /\ rest = Tail(todo)
  BY <1>1, LogGoes
<1>3. /\ LogsSound /\ todo \in Seq(LogRecord) /\ ~Rewind /\ scan = Tip /\ Tip \in Chains
      /\ chain \in Chains
  BY <1>1, AtRequest, AtChain DEF Ground, SkipInv, Rewind, RequestRecord, LogRecord
<1>4. \A i \in DOMAIN rest : \E j \in DOMAIN todo : rest[i] = todo[j]
  <2>1. CASE rest = todo
    BY <2>1
  <2>2. CASE todo # <<>> /\ rest = Tail(todo)
    <3>1. \A i \in DOMAIN rest : i + 1 \in DOMAIN todo /\ rest[i] = todo[i + 1]
      BY <1>3, <2>2
    <3> QED
      BY <3>1
  <2> QED
    BY <1>2, <2>1, <2>2
<1>5. \A j \in DOMAIN todo : \/ \E i \in DOMAIN rest : rest[i] = todo[j]
                             \/ (AdmitPair \/ HandleSwap) /\ todo[j] = Log
  <2>1. CASE rest = todo
    BY <2>1
  <2>2. CASE (AdmitPair \/ HandleSwap) /\ todo # <<>> /\ rest = Tail(todo)
    <3>1. Log = todo[1]
      BY <1>1, <1>3, <2>2 DEF Log
    <3>2. \A j \in DOMAIN todo : j = 1 \/ (j - 1 \in DOMAIN rest /\ rest[j - 1] = todo[j])
      BY <1>3, <2>2
    <3> QED
      BY <2>2, <3>1, <3>2
  <2> QED
    BY <1>2, <2>1, <2>2
<1>6. \A i \in DOMAIN rest : LogSound(rest[i])'
  <2>1. SUFFICES ASSUME NEW x, LogSound(x) PROVE LogSound(x)'
    <3>1. \A j \in DOMAIN todo : LogSound(todo[j])
      BY <1>1, <1>3 DEF LogsSound
    <3>2. ASSUME NEW i \in DOMAIN rest PROVE LogSound(rest[i])'
      <4>1. PICK x : x = rest[i]
        OBVIOUS
      <4>2. LogSound(x)
        BY <1>4, <3>1, <4>1
      <4> QED
        BY <2>1, <4>1, <4>2
    <3> QED
      BY <3>2
  <2> QED
    BY <1>1, <1>2, <2>1 DEF LogSound
<1>7. ASSUME NEW n \in from..until, ~Abandoned(Upto(scan, n))',
             NEW e \in Range(EventsAt(Upto(scan, n))), Relevant(e, n)'
      PROVE  \/ Done(e, Upto(scan, n))'
             \/ \E i \in DOMAIN rest : rest[i] = [event |-> e, block |-> Upto(scan, n)]
  <2>1. PICK b : b = Upto(scan, n)
    OBVIOUS
  <2>2. n \in Nat /\ n >= 2 /\ n <= Len(Tip) /\ b \in Chains /\ Len(b) = n /\ IsPrefix(b, Tip)
    BY <1>1, <2>1, InChunk
  <2>3. PICK t : t = Tip
    OBVIOUS
  <2>4. Below(b)
    BY <1>3, <2>2, <2>3, BelowPrefix DEF Ground, BelowInv
  <2>5. ~Abandoned(b)
    BY <1>7, <2>1, <2>2, <2>4, AbandonedStays
  <2>6. Relevant(e, n)
    BY <1>2, <1>7 DEF Relevant
  <2>7. Done(e, b) \/ \E j \in DOMAIN todo : todo[j] = [event |-> e, block |-> b]
    BY <1>1, <1>3, <1>7, <2>1, <2>5, <2>6 DEF LogsSound
  <2>8. CASE Done(e, b)
    <3>1. e \in Events
      <4>1. Len(b) \in Heights
        <5>1. Len(Tip) <= Len(chain) /\ Len(chain) <= MaxHeight /\ Len(Tip) \in Nat /\ Len(chain) \in Nat
          BY AtChain, ConstantsTyped DEF Ground
        <5> QED
          BY <2>2, <5>1, ConstantsTyped DEF Heights
      <4> QED
        BY <1>7, <2>1, <2>2, <4>1, InBlock
    <3>2. Done(e, b)'
      BY <1>3, <2>2, <2>8, <3>1, DoneStays
    <3> QED
      BY <2>1, <3>2
  <2>9. CASE \E j \in DOMAIN todo : todo[j] = [event |-> e, block |-> b]
    <3>1. PICK j \in DOMAIN todo : todo[j] = [event |-> e, block |-> b]
      BY <2>9
    <3>2. CASE \E i \in DOMAIN rest : rest[i] = todo[j]
      BY <2>1, <3>1, <3>2
    <3>3. CASE (AdmitPair \/ HandleSwap) /\ todo[j] = Log
      <4>1. e = Log.event /\ b = Log.block
        BY <3>1, <3>3
      <4>2. Done(e, b)'
        BY <3>3, <4>1, HandledIs
      <4> QED
        BY <2>1, <4>2
    <3> QED
      BY <1>5, <3>2, <3>3
  <2> QED
    BY <2>7, <2>8, <2>9
<1> QED
  BY <1>1, <1>2, <1>6, <1>7 DEF LogsSound


\* What the node answers of a block, and what of it counts.
LEMMA AnswerIs ==
  ASSUME ChainInv, NEW n \in 1..Len(chain), NEW e
  PROVE  (\E i \in DOMAIN Answer(n) : Answer(n)[i] = e) <=>
           /\ e \in Range(EventsAt(Upto(chain, n)))
           /\ IF request.kind = "pairs" THEN e \in Created
              ELSE e \notin Created /\ PairOf[e] \in Concerned
<1>1. PICK h : h = Upto(chain, n)
  OBVIOUS
<1>2. h \in Chains /\ Len(h) \in Heights
  <2>1. n \in 0..Len(chain) /\ n \in Heights
    BY AtChain, ConstantsTyped DEF Heights
  <2> QED
    BY <1>1, <2>1, AtChain, UptoIs
<1>3. PICK c, S : /\ c = EventsAt(h)
                  /\ S = IF request.kind = "pairs" THEN Created
                         ELSE {f \in Events \ Created : PairOf[f] \in Concerned}
  OBVIOUS
<1>4. c \in Seq(Events)
  BY <1>2, <1>3, EventsTyped
<1>5. Answer(n) = Keep(c, S)
  BY <1>1, <1>3 DEF Answer
<1>6. (\E i \in DOMAIN Keep(c, S) : Keep(c, S)[i] = e) <=> e \in S /\ \E i \in DOMAIN c : c[i] = e
  BY <1>4, KeepIs
<1>7. e \in Range(c) <=> \E i \in DOMAIN c : c[i] = e
  BY DEF Range
<1>8. e \in Range(c) => e \in Events
  BY <1>4, <1>7
<1> QED
  BY <1>1, <1>3, <1>5, <1>6, <1>7, <1>8

\* The logs of a chunk are the events of its blocks that concern its listeners.
LEMMA TodoIs ==
  ASSUME ChainInv, request.pc = "chunk", request.from <= request.head, NEW x
  PROVE  (\E i \in DOMAIN Todo : Todo[i] = x) <=>
           \E n \in request.from..Until : \E e \in Range(EventsAt(Upto(chain, n))) :
             Relevant(e, n) /\ x = [event |-> e, block |-> Upto(request.scan, n)]
<1>1. /\ request.scan = Tip /\ Len(Tip) = request.head /\ request.head \in Nat
      /\ request.head <= Len(chain) /\ request.from \in Nat /\ request.from >= 1
  BY AtRequest, AtChain
<1>2. PICK t, first, until : t = Tip /\ first = request.from /\ until = Until
  OBVIOUS
<1>3. /\ t \in Chains /\ Len(t) = request.head /\ first \in Nat /\ first >= 1
      /\ until \in Nat /\ first <= until /\ until <= Len(t)
  <2>1. until \in Int /\ until <= request.head /\ first <= until
    BY <1>1, <1>2, UntilIs
  <2> QED
    BY <1>1, <1>2, <2>1, AtChain
<1> DEFINE of(n) == Keep(Answer(n), IF request.kind = "pairs" THEN Events
                                ELSE {e \in Events : PairOf[e] \in Concerned
                                                      /\ request.targets[PairOf[e]] <= n})
           placed(n) == [i \in DOMAIN of(n) |-> [event |-> of(n)[i], block |-> Upto(request.scan, n)]]
           ss == [i \in 1..(Until - request.from + 1) |-> placed(request.from + i - 1)]
           In(n) == \E e \in Range(EventsAt(Upto(chain, n))) :
                      Relevant(e, n) /\ x = [event |-> e, block |-> Upto(request.scan, n)]
<1>4. ASSUME NEW n \in first..until
      PROVE  placed(n) \in Seq(LogRecord) /\ ((\E i \in DOMAIN placed(n) : placed(n)[i] = x) <=> In(n))
  <2>1. n \in 1..Len(chain) /\ n \in 0..Len(t)
    BY <1>1, <1>3
  <2>2. PICK answer, S : /\ answer = Answer(n)
                         /\ S = IF request.kind = "pairs" THEN Events
                                ELSE {e \in Events : PairOf[e] \in Concerned
                                                      /\ request.targets[PairOf[e]] <= n}
    OBVIOUS
  <2>3. answer \in Seq(Events)
    BY <2>1, <2>2, AnswerTyped
  <2>4. PICK o, block, here : o = Keep(answer, S) /\ block = Upto(t, n) /\ here = Range(EventsAt(Upto(chain, n)))
    OBVIOUS
  <2>5. o \in Seq(Events) /\ of(n) = o
    BY <2>2, <2>3, <2>4, KeepIs
  <2>6. ASSUME NEW e PROVE (\E i \in DOMAIN o : o[i] = e) <=> e \in here /\ Relevant(e, n)
    <3>1. (\E i \in DOMAIN o : o[i] = e) <=> e \in S /\ \E i \in DOMAIN answer : answer[i] = e
      BY <2>3, <2>4, KeepIs
    <3>2. (\E i \in DOMAIN answer : answer[i] = e) <=>
            /\ e \in here
            /\ IF request.kind = "pairs" THEN e \in Created
               ELSE e \notin Created /\ PairOf[e] \in Concerned
      BY <2>1, <2>2, <2>4, AnswerIs
    <3>3. (\E i \in DOMAIN answer : answer[i] = e) => e \in Events
      BY <2>3
    <3>4. e \in S <=> e \in Events /\ (request.kind = "pairs" \/ (PairOf[e] \in Concerned
                                                      /\ request.targets[PairOf[e]] <= n))
      BY <2>2
    <3> QED
      BY <3>1, <3>2, <3>3, <3>4 DEF Relevant
  <2>7. block \in Chains
    BY <1>3, <2>1, <2>4, UptoIs
  <2> HIDE DEF of
  <2>8. placed(n) = [i \in DOMAIN o |-> [event |-> o[i], block |-> block]]
    BY <1>1, <1>2, <2>4, <2>5
  <2>9. DOMAIN o = 1..Len(o) /\ Len(o) \in Nat /\ \A i \in 1..Len(o) : o[i] \in Events
    BY <2>5
  <2>10. \A i \in 1..Len(o) : [event |-> o[i], block |-> block] \in LogRecord
    BY <2>7, <2>9 DEF LogRecord
  <2>11. In(n) <=> \E e \in here : Relevant(e, n) /\ x = [event |-> e, block |-> block]
    BY <1>1, <1>2, <2>4
  <2> HIDE DEF placed, In
  <2>12. placed(n) \in Seq(LogRecord)
    BY <2>8, <2>9, <2>10
  <2>13. (\E i \in DOMAIN placed(n) : placed(n)[i] = x)
           <=> \E i \in DOMAIN o : x = [event |-> o[i], block |-> block]
    BY <2>8
  <2>14. (\E i \in DOMAIN o : x = [event |-> o[i], block |-> block])
           <=> \E e \in here : Relevant(e, n) /\ x = [event |-> e, block |-> block]
    BY <2>6
  <2> QED
    BY <2>11, <2>12, <2>13, <2>14
<1> HIDE DEF placed, of, In
<1>5. ss = [i \in 1..(until - first + 1) |-> placed(first + i - 1)]
  BY <1>2
<1>6. PICK m : m = until - first + 1
  OBVIOUS
<1>7. /\ m \in Nat /\ m > 0
      /\ \A i \in 1..m : first + i - 1 \in first..until
      /\ \A n \in first..until : n - first + 1 \in 1..m /\ first + (n - first + 1) - 1 = n
  BY <1>3, <1>6
<1>8. ss \in Seq(Seq(LogRecord)) /\ Len(ss) > 0
  <2>1. \A i \in 1..m : placed(first + i - 1) \in Seq(LogRecord)
    BY <1>4, <1>7
  <2>2. PICK B : B = Seq(LogRecord)
    OBVIOUS
  <2> HIDE DEF ss
  <2>3. ss \in [1..m -> B]
    BY <1>5, <1>6, <2>1, <2>2
  <2>4. ss \in Seq(B) /\ Len(ss) = m
    BY <1>7, <2>3
  <2> QED
    BY <1>7, <2>2, <2>4
<1>9. PICK y : y = ss
  OBVIOUS
<1>10. Todo = FlattenSeq(y)
  BY <1>9 DEF Todo, placed, of
<1>11. y = [i \in 1..m |-> placed(first + i - 1)]
  BY <1>5, <1>6, <1>9
<1>12. y \in Seq(Seq(LogRecord)) /\ Len(y) > 0
  BY <1>8, <1>9
<1> HIDE DEF ss
<1>13. (\E i \in DOMAIN FlattenSeq(y) : FlattenSeq(y)[i] = x)
         <=> \E k \in DOMAIN y : \E i \in DOMAIN y[k] : y[k][i] = x
  <2>1. \A z : (\E i \in DOMAIN FlattenSeq(y) : FlattenSeq(y)[i] = z)
                <=> \E k \in DOMAIN y : \E i \in DOMAIN y[k] : y[k][i] = z
    <3>1. PICK A : A = LogRecord
      OBVIOUS
    <3>2. y \in Seq(Seq(A)) /\ Len(y) > 0
      BY <1>12, <3>1
    <3> QED
      BY <3>2, FlatIs, ZenonT(30)
  <2> QED
    BY <2>1
<1>14. DOMAIN y = 1..m /\ \A k \in 1..m : y[k] = placed(first + k - 1)
  BY <1>11
<1>15. (\E k \in 1..m : \E i \in DOMAIN y[k] : y[k][i] = x) <=> \E n \in first..until : In(n)
  <2>1. ASSUME NEW k \in 1..m PROVE (\E i \in DOMAIN y[k] : y[k][i] = x) <=> In(first + k - 1)
    <3>1. PICK n : n = first + k - 1
      OBVIOUS
    <3>2. n \in first..until
      BY <1>7, <3>1
    <3>3. y[k] = placed(n)
      BY <1>14, <3>1
    <3> QED
      BY <1>4, <3>1, <3>2, <3>3
  <2>2. ASSUME NEW k \in 1..m, \E i \in DOMAIN y[k] : y[k][i] = x PROVE \E n \in first..until : In(n)
    BY <1>7, <2>1, <2>2
  <2>3. ASSUME NEW n \in first..until, In(n) PROVE \E k \in 1..m : \E i \in DOMAIN y[k] : y[k][i] = x
    <3>1. PICK k : k = n - first + 1
      OBVIOUS
    <3>2. k \in 1..m /\ first + k - 1 = n
      BY <1>7, <3>1
    <3> QED
      BY <2>1, <2>3, <3>2
  <2> QED
    BY <2>2, <2>3
<1>16. (\E n \in first..until : In(n)) <=>
           \E n \in request.from..Until : \E e \in Range(EventsAt(Upto(chain, n))) :
             Relevant(e, n) /\ x = [event |-> e, block |-> Upto(request.scan, n)]
  BY <1>2 DEF In
<1> QED
  BY <1>10, <1>13, <1>14, <1>15, <1>16


\* The blocks of a chunk, on the chain of the node too.
LEMMA InNode ==
  ASSUME Ground, SkipInv, request.pc \in {"chunk", "logs"}, NEW n \in request.from..Until
  PROVE  n \in 1..Len(chain)
<1>1. n \in Nat /\ n >= 2 /\ n <= Len(Tip)
  BY InChunk
<1>2. Len(Tip) \in Nat /\ Len(chain) \in Nat /\ Len(Tip) <= Len(chain)
  BY AtChain DEF Ground
<1> QED
  BY <1>1, <1>2

LEMMA LogsRead ==
  ASSUME Ground, SkipInv, ReadLogs
  PROVE  LogsSound'
<1>1. PICK todo, scan, from, until :
        /\ todo = Todo /\ scan = request.scan /\ from = request.from /\ until = Until
  OBVIOUS
<1>2. /\ request.pc = "chunk" /\ request.from <= request.head /\ ~Foreign
      /\ request' = [request EXCEPT !.pc = "logs", !.todo = todo]
      /\ UNCHANGED <<chain, row, session, wallet>>
  BY <1>1 DEF ReadLogs, AtChunk, requestOnly, nodeVars, storeVars, projections
<1>3. request \in RequestRecord
  BY AtCoord DEF Ground, RequestSound
<1>4. /\ request'.kind = request.kind /\ request'.from = from /\ request'.head = request.head
      /\ request'.scan = scan /\ request'.targets = request.targets /\ request'.todo = todo
  BY <1>1, <1>2, <1>3 DEF RequestRecord
<1>5. Until' = until /\ Concerned' = Concerned
  <2>1. Until' = Until /\ Concerned' = Concerned
    BY <1>1, <1>4 DEF Until, Concerned
  <2> QED
    BY <1>1, <2>1
<1>6. ASSUME NEW i \in DOMAIN todo PROVE LogSound(todo[i])'
  <2>1. PICK x : x = todo[i]
    OBVIOUS
  <2>2. PICK n \in from..until : \E e \in Range(EventsAt(Upto(chain, n))) :
             Relevant(e, n) /\ x = [event |-> e, block |-> Upto(scan, n)]
    <3>1. \E j \in DOMAIN Todo : Todo[j] = x
      BY <1>1, <1>6, <2>1
    <3> QED
      BY <1>1, <1>2, <3>1, TodoIs DEF Ground
  <2>3. PICK e \in Range(EventsAt(Upto(chain, n))) :
             Relevant(e, n) /\ x = [event |-> e, block |-> Upto(scan, n)]
    BY <2>2
  <2>4. n \in 1..Len(chain)
    BY <1>1, <1>2, InNode
  <2>5. \E j \in DOMAIN Answer(n) : Answer(n)[j] = e
    BY <2>3, <2>4, AnswerIs DEF Relevant, Ground
  <2>6. Answer(n) # <<>>
    BY <2>5
  <2>7. Upto(chain, n) = Upto(scan, n)
    BY <1>1, <1>2, <2>6 DEF Foreign
  <2>8. LogSound(x)'
    <3>1. x.block = Upto(scan, n) /\ x.event = e /\ e \in Range(EventsAt(x.block))
      BY <2>3, <2>7
    <3> QED
      BY <1>4, <1>5, <2>3, <3>1 DEF LogSound, Relevant
  <2> QED
    BY <2>1, <2>8
<1>7. ASSUME NEW n \in from..until, ~Abandoned(Upto(scan, n))',
             NEW e \in Range(EventsAt(Upto(scan, n))), Relevant(e, n)'
      PROVE  \E i \in DOMAIN todo : todo[i] = [event |-> e, block |-> Upto(scan, n)]
  <2>1. PICK b, c : b = Upto(scan, n) /\ c = chain
    OBVIOUS
  <2>2. b \in Chains /\ Len(b) = n /\ c \in Chains
    BY <1>1, <1>2, <2>1, InChunk, AtChain DEF Ground
  <2>3. IsPrefix(b, c)
    BY <1>2, <1>7, <2>1 DEF Abandoned
  <2>4. Upto(c, n) = b
    BY <2>2, <2>3, PrefixIsUpto
  <2>5. Relevant(e, n)
    BY <1>4, <1>5, <1>7 DEF Relevant
  <2>6. PICK x : x = [event |-> e, block |-> b]
    OBVIOUS
  <2>7. \E k \in request.from..Until : \E f \in Range(EventsAt(Upto(chain, k))) :
             Relevant(f, k) /\ x = [event |-> f, block |-> Upto(request.scan, k)]
    BY <1>1, <1>7, <2>1, <2>4, <2>5, <2>6
  <2>8. \E i \in DOMAIN Todo : Todo[i] = x
    BY <1>2, <2>7, TodoIs DEF Ground
  <2> QED
    BY <1>1, <2>1, <2>6, <2>8
<1> QED
  BY <1>1, <1>4, <1>5, <1>6, <1>7 DEF LogsSound

LEMMA LogsNext ==
  ASSUME Ground, SkipInv, [Next]_vars, ~Restart, Moved
  PROVE  LogsSound'
<1>1. SUFFICES ASSUME request'.pc = "logs" PROVE LogsSound'
  BY DEF LogsSound
<1>2. CASE request.pc = "logs"
  BY <1>1, <1>2, LogsStay
<1>3. CASE request.pc # "logs"
  <2>1. ReadLogs
    <3>1. request' # request /\ ~AdmitPair /\ ~HandleSwap
      BY <1>1, <1>3 DEF AdmitPair, HandleSwap
    <3> QED
      BY <1>1, <3>1, LeadsTo DEF Ground
  <2> QED
    BY <2>1, LogsRead
<1> QED
  BY <1>2, <1>3


\* What a listener has read of the stored chain is handled.
LEMMA AlreadyRead ==
  ASSUME Ground, ReadSoFar, NEW l \in Listeners, NEW n \in Nat, n >= 2, n <= Len(checkpoint[l]),
         NEW b, b = Upto(Tip, n), ~Abandoned(b), NEW e \in Range(EventsAt(b)), Mine(l, e)
  PROVE  Done(e, b)
<1>1. PICK c, t : c = checkpoint[l] /\ t = Tip
  OBVIOUS
<1>2. c \in Chains /\ t \in Chains /\ IsPrefix(c, t) /\ Len(c) \in Nat
  BY <1>1, AtChain DEF Ground
<1>3. n \in 0..Len(c) /\ n \in 2..Len(c)
  BY <1>1, <1>2
<1>4. Upto(c, n) = b
  BY <1>1, <1>2, <1>3, UptoOfPrefix
<1> QED
  BY <1>1, <1>3, <1>4 DEF ReadSoFar

\* Only the end of a chunk moves a checkpoint on.
LEMMA CheckpointFalls ==
  ASSUME Ground, [Next]_vars, ~Restart, ~CommitChunk, NEW l \in Listeners
  PROVE  /\ checkpoint'[l] \in Chains /\ IsPrefix(checkpoint'[l], checkpoint[l])
         /\ Rewind => Len(checkpoint'[l]) <= Len(request.scan)
<1>1. PICK c, t : c = checkpoint[l] /\ t = Tip
  OBVIOUS
<1>2. c \in Chains /\ Len(c) \in Nat /\ IsPrefix(c, t) /\ t \in Chains /\ DOMAIN checkpoint = Listeners
  BY <1>1, AtChain, AtStore DEF Ground
<1>3. CASE Rewind
  <2>1. PICK h : h = request.scan
    OBVIOUS
  <2>2. /\ checkpoint' = [k \in Listeners |-> RewoundCheckpoint(k)]
        /\ h \in Chains /\ Len(h) \in Nat /\ IsPrefix(h, t)
    BY <1>1, <1>3, <2>1, RewindIs
  <2>3. checkpoint'[l] = IF Len(c) > Len(h) THEN h ELSE c
    BY <1>1, <2>1, <2>2 DEF RewoundCheckpoint
  <2>4. CASE Len(c) > Len(h)
    <3>1. IsPrefix(h, c) /\ Len(h) <= Len(h)
      BY <1>2, <2>2, <2>4, ShorterPrefix
    <3> QED
      BY <1>1, <2>1, <2>2, <2>3, <2>4, <3>1
  <2>5. CASE ~(Len(c) > Len(h))
    <3>1. IsPrefix(c, c) /\ Len(c) <= Len(h)
      BY <1>2, <2>2, <2>5, PrefixOfItself
    <3> QED
      BY <1>1, <1>2, <2>1, <2>3, <2>5, <3>1
  <2> QED
    BY <2>4, <2>5
<1>4. CASE ~Rewind
  <2>1. checkpoint'[l] = c \/ checkpoint'[l] = None
    <3>1. ASSUME NEW q \in Pairs, Retire(q) PROVE checkpoint'[l] = c \/ checkpoint'[l] = None
      <4>1. checkpoint' = [checkpoint EXCEPT ![q] = None]
        BY <3>1 DEF Retire
      <4> QED
        BY <1>1, <1>2, <4>1
    <3> QED
      BY <1>1, <1>4, <3>1, WhoMoves
  <2> QED
    BY <1>1, <1>2, <1>4, <2>1, PrefixOfItself, NoneIsPrefix
<1> QED
  BY <1>3, <1>4

LEMMA ReadSoFarHeld ==
  ASSUME Ground, SkipInv, [Next]_vars, ~Restart, Moved, ~CommitChunk
  PROVE  ReadSoFar'
<1> SUFFICES ASSUME NEW l \in Listeners, NEW n \in 2..Len(checkpoint'[l]), ~Abandoned(Upto(checkpoint[l], n))',
                    NEW e \in Range(EventsAt(Upto(checkpoint[l], n)))', Mine(l, e)
             PROVE  Done(e, Upto(checkpoint[l], n))'
  BY DEF ReadSoFar
<1>1. PICK c, d, t, b : c = checkpoint[l] /\ d = checkpoint'[l] /\ t = Tip /\ b = Upto(d, n)
  OBVIOUS
<1>2. /\ c \in Chains /\ d \in Chains /\ t \in Chains /\ IsPrefix(d, c) /\ IsPrefix(c, t)
      /\ Rewind => Len(d) <= Len(request.scan)
      /\ chain \in Chains /\ Len(t) <= Len(chain) /\ Len(chain) <= MaxHeight /\ Len(chain) \in Nat
  BY <1>1, CheckpointFalls, AtChain DEF Ground
<1>3. /\ Len(c) \in Nat /\ Len(d) \in Nat /\ Len(t) \in Nat /\ Len(d) <= Len(c) /\ Len(c) <= Len(t)
      /\ IsPrefix(d, t)
  BY <1>2, PrefixIs, PrefixThrough DEF Chains
<1>4. n \in Nat /\ n >= 2 /\ n <= Len(d) /\ n \in 0..Len(d)
  BY <1>1, <1>3
<1>5. b = Upto(t, n) /\ b \in Chains /\ Len(b) = n /\ n \in 0..Len(t)
  BY <1>1, <1>2, <1>3, <1>4, UptoOfPrefix, UptoIs
<1>6. IsPrefix(b, t)
  BY <1>2, <1>5, UptoIsPrefix
<1>7. Below(b)
  BY <1>1, <1>2, <1>5, <1>6, BelowPrefix DEF Ground, BelowInv
<1>8. ~Abandoned(b)
  BY <1>1, <1>5, <1>7, AbandonedStays
<1>9. Done(e, b)
  <2>1. n <= Len(checkpoint[l]) /\ b = Upto(Tip, n) /\ e \in Range(EventsAt(b))
    BY <1>1, <1>3, <1>4, <1>5
  <2> QED
    BY <1>4, <1>8, <2>1, AlreadyRead DEF SkipInv
<1>10. e \in Events
  <2>1. Len(b) \in Heights
    BY <1>2, <1>3, <1>4, <1>5, ConstantsTyped DEF Heights
  <2> QED
    BY <1>1, <1>5, <2>1, InBlock
<1>11. Rewind => Len(b) <= Len(request.scan)
  <2>1. ASSUME Rewind PROVE Len(b) <= Len(request.scan)
    <3>1. Len(request.scan) \in Nat /\ Len(d) <= Len(request.scan)
      BY <1>2, <2>1, RewindIs
    <3> QED
      BY <1>3, <1>4, <1>5, <3>1
  <2> QED
    BY <2>1
<1>12. ~(/\ e \in Created /\ request.pc = "project" /\ PairOf[e] \in DOMAIN Affected
         /\ Affected[PairOf[e]].discovery)
  <2>1. SUFFICES ASSUME e \in Created, request.pc = "project", PairOf[e] \in DOMAIN Affected,
                        Affected[PairOf[e]].discovery
                 PROVE  FALSE
    OBVIOUS
  <2>2. n \in 1..Len(Tip)
    BY <1>1, <1>3, <1>4
  <2>3. e \notin Range(EventsAt(Upto(Tip, n)))
    BY <2>1, <2>2 DEF SkipInv, ImpactSound
  <2> QED
    BY <1>1, <1>5, <2>3
<1>13. Done(e, b)'
  BY <1>5, <1>9, <1>10, <1>11, <1>12, DoneStays
<1> QED
  BY <1>1, <1>13

LEMMA ReadSoFarCommit ==
  ASSUME Ground, SkipInv, CommitChunk
  PROVE  ReadSoFar'
<1>1. PICK moved, until, h, t :
        /\ moved = IF request.kind = "pairs" THEN {PairCreated} ELSE Concerned
        /\ until = Until /\ h = Upto(Tip, Until) /\ t = Tip
  OBVIOUS
<1>2. /\ request.pc = "logs" /\ request.todo = <<>> /\ AllActive
      /\ until \in Nat /\ until >= 1 /\ until <= Len(t)
      /\ h \in Chains /\ Len(h) = until /\ IsPrefix(h, t) /\ request.scan = t
      /\ checkpoint' = [l \in Listeners |-> IF l \in moved THEN h ELSE checkpoint[l]]
      /\ UNCHANGED <<chain, row, session, wallet>>
  BY <1>1, CommitIs
<1>3. SUFFICES ASSUME NEW l \in Listeners, NEW n \in 2..Len(checkpoint'[l]), ~Abandoned(Upto(checkpoint[l], n))',
                    NEW e \in Range(EventsAt(Upto(checkpoint[l], n)))', Mine(l, e)
             PROVE  Done(e, Upto(checkpoint[l], n))'
  BY DEF ReadSoFar
<1>4. PICK c, d, b : c = checkpoint[l] /\ d = checkpoint'[l] /\ b = Upto(d, n)
  OBVIOUS
<1>5. c \in Chains /\ t \in Chains /\ Len(c) \in Nat /\ Len(t) \in Nat /\ IsPrefix(c, t)
  BY <1>1, <1>4, AtChain DEF Ground
<1>6. d = IF l \in moved THEN h ELSE c
  BY <1>2, <1>4
<1>7. d \in Chains /\ IsPrefix(d, t) /\ Len(d) \in Nat
  BY <1>2, <1>5, <1>6
<1>8. n \in Nat /\ n >= 2 /\ n <= Len(d) /\ n \in 0..Len(d)
  BY <1>4, <1>7
<1>9. b = Upto(t, n)
  BY <1>4, <1>5, <1>7, <1>8, UptoOfPrefix
<1>10. ~Abandoned(b) /\ e \in Range(EventsAt(b))
  BY <1>2, <1>3, <1>4 DEF Abandoned
<1>11. SUFFICES Done(e, b)
  BY <1>2, <1>4 DEF Done, Seen, Reappeared
<1>12. ASSUME n <= Len(c) PROVE Done(e, b)
  BY <1>1, <1>3, <1>4, <1>8, <1>9, <1>10, <1>12, AlreadyRead DEF SkipInv
<1>13. ASSUME n >= request.from, l \in moved, Relevant(e, n) PROVE Done(e, b)
  <2>1. n \in request.from..Until
    <3>1. request.from \in Nat
      BY <1>2, AtRequest DEF Ground
    <3> QED
      BY <1>1, <1>2, <1>6, <1>8, <1>13, <3>1
  <2>2. /\ LogsSound
        /\ ~\E i \in DOMAIN request.todo : request.todo[i] = [event |-> e, block |-> Upto(request.scan, n)]
    BY <1>2 DEF SkipInv
  <2>3. b = Upto(request.scan, n)
    BY <1>2, <1>9
  <2> QED
    BY <1>2, <1>10, <1>13, <2>1, <2>2, <2>3 DEF LogsSound
<1>14. CASE l \notin moved
  BY <1>6, <1>8, <1>12, <1>14
<1>15. CASE l \in moved /\ request.kind = "pairs"
  <2>1. l = PairCreated
    BY <1>1, <1>15
  <2>2. e \in Created
    <3>1. SUFFICES ASSUME e \notin Created PROVE FALSE
      OBVIOUS
    <3>2. e \in Events
      <4>1. b \in Chains /\ Len(b) = n
        BY <1>4, <1>7, <1>8, UptoIs
      <4>2. n \in Heights
        <5>1. Len(t) <= MaxHeight
          BY <1>1, AtChain, ConstantsTyped DEF Ground
        <5>2. Len(d) <= Len(t)
          BY <1>5, <1>7, PrefixIs
        <5> QED
          BY <1>5, <1>7, <1>8, <5>1, <5>2, ConstantsTyped DEF Heights
      <4> QED
        BY <1>10, <4>1, <4>2, InBlock
    <3>3. PairOf[e] \in Pairs /\ PairCreated \notin Pairs
      BY <3>2, ChainAssumption
    <3> QED
      BY <1>3, <2>1, <3>1, <3>3 DEF Mine
  <2>3. request.from = Len(c) + 1
    BY <1>2, <1>4, <1>15, <2>1 DEF SkipInv, TargetsSound, Forward
  <2>4. CASE n >= request.from
    BY <1>13, <1>15, <2>2, <2>4 DEF Relevant
  <2>5. CASE ~(n >= request.from)
    BY <1>5, <1>8, <1>12, <2>3, <2>5
  <2> QED
    BY <2>4, <2>5
<1>16. CASE l \in moved /\ request.kind # "pairs"
  <2>1. request.kind = "swaps"
    <3>1. request.kind \in {"none", "pairs", "swaps"} /\ request.pc # "idle"
      BY <1>2, AtCoord DEF Ground, RequestSound, RequestRecord
    <3>2. request.kind # "none"
      BY <3>1 DEF Ground, TurnsSound
    <3> QED
      BY <1>16, <3>1, <3>2
  <2>2. l \in Concerned
    BY <1>1, <1>16
  <2>3. l \in DOMAIN request.targets /\ l \in Pairs /\ l # PairCreated
    BY <2>2, TargetsTyped, ChainAssumption DEF Concerned
  <2>4. e \notin Created /\ l = PairOf[e]
    BY <1>3, <2>3 DEF Mine
  <2>5. PICK k : k = request.targets[l]
    OBVIOUS
  <2>6. k \in Nat /\ request.from \in Nat
    BY <1>2, <2>3, <2>5, TargetsTyped, AtRequest DEF Ground
  <2>7. k >= request.from
    BY <1>2, <2>1, <2>3, <2>5 DEF SkipInv, TargetsSound, Forward
  <2>8. k = 2 \/ k <= Len(c) + 1
    <3>1. CASE InReplay
      <4>1. k = NextOf(c)
        BY <1>2, <1>4, <2>1, <2>3, <2>5, <3>1 DEF SkipInv, TargetsSound, Forward
      <4>2. NextOf(c) = IF c = None THEN 2 ELSE Len(c) + 1
        BY DEF SkipInv, SessionsTyped, NextOf
      <4> QED
        BY <1>5, <4>1, <4>2
    <3>2. CASE ~InReplay
      <4>1. l \in On /\ l \notin gone
        BY <1>2, <2>2, <3>2 DEF AllActive
      <4>2. monitor[l] = "on"
        BY <4>1 DEF On
      <4> QED
        BY <1>2, <1>4, <2>1, <2>3, <2>5, <3>2, <4>1, <4>2 DEF SkipInv, TargetsSound, Forward
    <3> QED
      BY <3>1, <3>2
  <2>9. CASE n >= k
    <3>1. Relevant(e, n)
      BY <1>16, <2>2, <2>4, <2>5, <2>9 DEF Relevant
    <3>2. n >= request.from
      BY <1>8, <2>6, <2>7, <2>9
    <3> QED
      BY <1>13, <1>16, <3>1, <3>2
  <2>10. CASE ~(n >= k)
    <3>1. n <= Len(c)
      BY <1>5, <1>8, <2>6, <2>8, <2>10
    <3> QED
      BY <1>12, <3>1
  <2> QED
    BY <2>9, <2>10
<1> QED
  BY <1>14, <1>15, <1>16


LEMMA SkipNext ==
  ASSUME ~Comeback, OneCreation, Ground, SkipInv, [Next]_vars, ~Restart
  PROVE  SkipInv'
<1>1. Ground' /\ Moved
  BY GroundNext
<1>2. SessionsTyped'
  BY SessionsNext
<1>3. RowsSound'
  BY RowsNext
<1>4. ImpactSound'
  BY ImpactNext
<1>5. TargetsSound'
  BY TargetsNext
<1>6. AskedSound'
  BY AskedNext
<1>7. LogsSound'
  BY <1>1, LogsNext
<1>8. ReadSoFar'
  BY <1>1, ReadSoFarHeld, ReadSoFarCommit
<1> QED
  BY <1>2, <1>3, <1>4, <1>5, <1>6, <1>7, <1>8 DEF SkipInv

LEMMA SkipInit == Init => SkipInv
<1> SUFFICES ASSUME Init PROVE SkipInv
  OBVIOUS
<1>1. /\ Len(cutoff) = 1 /\ request = Idle /\ Idle.pc = "idle" /\ asked = None /\ DOMAIN None = {}
      /\ DOMAIN wallet = Pairs /\ Len(None) = 0
  BY DEF Init, Idle, None
<1>2. SessionsTyped
  <2>1. session = [p \in Pairs |-> NoSession] /\ monitor = [p \in Pairs |-> "off"]
    BY DEF Init
  <2> QED
    BY <1>1, <2>1, FreshIs DEF SessionsTyped
<1>3. RowsSound
  <2>1. ASSUME NEW e \in Events PROVE row[e].before \in SessionRecord /\ ~row[e].canonical
    <3>1. row[e] = NoRow
      BY DEF Init
    <3> QED
      BY <3>1, FreshIs DEF NoRow
  <2> QED
    BY <2>1 DEF RowsSound
<1>4. ImpactSound /\ TargetsSound /\ LogsSound
  BY <1>1 DEF ImpactSound, TargetsSound, LogsSound, Forward
<1>5. AskedSound
  BY <1>1 DEF AskedSound
<1>6. ReadSoFar
  <2>1. ASSUME NEW l \in Listeners PROVE \A n \in 2..Len(checkpoint[l]) : FALSE
    <3>1. checkpoint[l] = <<1>> \/ checkpoint[l] = None
      BY DEF Init
    <3>2. PICK k : k = Len(checkpoint[l])
      OBVIOUS
    <3>3. k = 1 \/ k = 0
      BY <1>1, <3>1, <3>2
    <3>4. \A n \in 2..k : FALSE
      BY <3>3
    <3> QED
      BY <3>2, <3>4
  <2> QED
    BY <2>1 DEF ReadSoFar
<1> QED
  BY <1>2, <1>3, <1>4, <1>5, <1>6 DEF SkipInv

LEMMA ReadIsNotSkipped ==
  ASSUME ChainInv, SessionsTyped, ReadSoFar
  PROVE  NothingSkipped
<1> SUFFICES ASSUME NEW l \in Listeners, NEW n \in Heights, n \in Len(cutoff) + 1..Len(checkpoint[l]),
                    Upto(chain, Len(checkpoint[l])) = checkpoint[l],
                    NEW e \in Range(EventsAt(Upto(chain, n)))
             PROVE  IF e \in Created
                    THEN l = PairCreated /\ PairOf[e] \notin Incompatible =>
                           session[PairOf[e]] # NoSession /\ ~Reappeared(PairOf[e])
                    ELSE l = PairOf[e] => row[e].canonical /\ row[e].block = Upto(chain, n)
  BY DEF NothingSkipped
<1>1. PICK c, d, b : c = checkpoint[l] /\ d = chain /\ b = Upto(c, n)
  OBVIOUS
<1>2. c \in Chains /\ Len(c) \in Nat /\ d \in Chains /\ Len(d) \in Nat /\ Len(c) <= Len(d)
  BY <1>1, AtChain
<1>3. IsPrefix(c, d)
  BY <1>1, <1>2, PrefixIsUpto
<1>4. n \in 2..Len(c) /\ n \in 0..Len(c)
  <2>1. Len(cutoff) = 1
    BY DEF SessionsTyped
  <2> QED
    BY <1>1, <1>2, <2>1
<1>5. b = Upto(d, n) /\ b \in Chains /\ IsPrefix(b, d)
  BY <1>1, <1>2, <1>3, <1>4, UptoOfPrefix, UptoIs, UptoIsPrefix, PrefixThrough
<1>6. ~Abandoned(b)
  BY <1>1, <1>5 DEF Abandoned
<1>7. Mine(l, e) => Done(e, b)
  BY <1>1, <1>4, <1>5, <1>6 DEF ReadSoFar
<1> QED
  BY <1>1, <1>5, <1>7 DEF Mine, Done, Seen

\* A restart uses up a fault, so it is no stutter.
LEMMA RestartChanges ==
  ASSUME ChainInv, UNCHANGED vars
  PROVE  ~Restart
<1> SUFFICES ASSUME Restart PROVE FALSE
  OBVIOUS
<1>1. left.faults > 0 /\ left' = [left EXCEPT !["faults"] = @ - 1, !.all = @ - 1]
  BY DEF Restart, Spend
<1>2. left \in [forks : Nat, faults : Nat, all : Nat]
  BY AtCoord
<1>3. left'.all = left.all - 1 /\ left.all \in Nat
  BY <1>1, <1>2
<1>4. left' = left
  BY DEF vars
<1> QED
  BY <1>3, <1>4

\* Where no fork comes back and a pair is created once, then as long as the process
\* lives, what is at rest, what a request holds and what waits for its turn agree on
\* what has been read and handled: sessions, rows, the impact of a rollback, the
\* targets and the logs of a request, the checkpoints (token_sessions, swap_events,
\* chain_reorgs, listener_checkpoints, the grouped pass).
THEOREM SkipInvariant ==
  ASSUME ~Comeback, OneCreation
  PROVE  Spec /\ [][~Restart]_vars => [](Ground /\ SkipInv)
<1>1. Init => SkipInv
  BY SkipInit
<1>2. Ground /\ SkipInv /\ [Next]_vars /\ [~Restart]_vars => SkipInv'
  <2>1. SUFFICES ASSUME Ground, SkipInv, [Next]_vars, [~Restart]_vars PROVE SkipInv'
    OBVIOUS
  <2>2. ~Restart
    BY <2>1, RestartChanges DEF Ground
  <2> QED
    BY <2>1, <2>2, SkipNext
<1>3. Spec => []Ground
  <2>1. ChainInv /\ BelowInv /\ ReplayInv /\ TurnsSound /\ DivergenceSound => Ground
    BY DEF Ground
  <2> QED
    BY <2>1, ChainInvariant, ForksLeftBehind, ReplayInvariant, RequestsTakeTurns, DivergencesAreReal, PTL
<1> QED
  BY <1>1, <1>2, <1>3, PTL DEF Spec

\* Nothing is skipped: where no fork comes back and a pair is created once, then as
\* long as the process lives a checkpoint only passes a block of the node's chain
\* when every event of it has been handled under that block, and no interleaving
\* of chunks, rollbacks, replays, retirements and failures puts it ahead
\* (setManyAtomically, setCheckpoint, rewindToAncestor; the checkpoint rule of
\* canonical-chain.coordinator.ts).
THEOREM NothingIsSkipped ==
  ASSUME ~Comeback, OneCreation
  PROVE  Spec /\ [][~Restart]_vars => []NothingSkipped
<1>1. Ground /\ SkipInv => NothingSkipped
  BY ReadIsNotSkipped DEF Ground, SkipInv
<1> QED
  BY <1>1, SkipInvariant, PTL


------------------------------------------------------------------------------
(* What becomes of the sessions, whatever happens.                           *)

\* The sessions, the snapshots and the sources are what they are taken for, and
\* the events are in their blocks.
SnapshotsTyped(affected) ==
  \A p \in DOMAIN affected :
    affected[p].before \in SessionRecord /\ affected[p].discovery \in BOOLEAN /\ affected[p].wallet \in BOOLEAN
LogPlaced(x) == x.event \in Range(EventsAt(x.block)) /\ Len(x.block) >= 1
RowPlaced(x, e) ==
  x.before \in SessionRecord /\ (x.canonical => e \in Range(EventsAt(x.block)) /\ Len(x.block) >= 1)
StoreTyped ==
  /\ session \in [Pairs -> SessionRecord]
  /\ \A e \in Events : RowPlaced(row[e], e)
  /\ \A id \in DOMAIN audit : SnapshotsTyped(audit[id].affected)
  /\ request.pc = "logs" => \A i \in DOMAIN request.todo : LogPlaced(request.todo[i])

\* The source of a transaction is an event of its pair.
Sources == Seq(Events \cup {0})
SourcesSound ==
  wallet \in [Pairs -> Sources] /\ \A p \in Pairs : \A e \in Range(wallet[p]) : e # 0 => PairOf[e] = p

\* Between the rollback and its review the pair is known to be lost; after it, the
\* session and the coordinator wait for a human.
Orphaned(e) == ~row[e].canonical /\ Len(row[e].block) > Len(cutoff)
InDanger(p) == \E e \in Range(wallet[p]) \ {0} : Orphaned(e)
WalletSound ==
  ~Stuck => \A p \in Pairs : InDanger(p) =>
    IF request.pc = "project" THEN p \in DOMAIN Affected /\ Affected[p].wallet
    ELSE session[p].status = "MANUAL_REVIEW" /\ coord.state = "MANUAL_REVIEW"
WalletInv == StoreTyped /\ SourcesSound /\ WalletSound

\* The snapshot of a rollback is typed.
LEMMA ImpactTyped ==
  ASSUME ChainInv, StoreTyped, request.scan \in Chains, Len(request.scan) >= Len(cutoff), NEW p
  PROVE  LET a == Impact(p, Above(request.scan))
         IN a.before \in SessionRecord /\ a.discovery \in BOOLEAN /\ a.wallet \in BOOLEAN
<1>1. PICK h, orphans, a : h = request.scan /\ orphans = Above(h) /\ a = Impact(p, orphans)
  OBVIOUS
<1>2. PICK buys, discovery, wal : /\ buys = orphans \cap BuysOf(p)
                                  /\ discovery = (\E e \in orphans \cap Created : PairOf[e] = p)
                                  /\ wal = TouchesWallet(p, orphans)
  OBVIOUS
<1>3. a = [discovery |-> discovery, wallet |-> wal,
           before |-> IF buys = {} THEN NoSession ELSE row[FirstBuy(buys)].before]
  BY <1>1, <1>2 DEF Impact
<1>4. discovery \in BOOLEAN /\ wal \in BOOLEAN
  BY <1>2 DEF TouchesWallet
<1>5. ASSUME NEW e \in orphans PROVE e \in Events /\ OnTip(e)
  <2>1. e \in Events /\ row[e].canonical /\ Len(row[e].block) > Len(h)
    BY <1>1 DEF Above
  <2>2. RowSound(row[e], Tip, chain, cutoff)
    BY <2>1, AtStore
  <2>3. PICK b : b = row[e].block
    OBVIOUS
  <2>4. b \in Chains /\ Len(b) \in Nat /\ Len(h) \in Nat /\ Len(cutoff) \in Nat /\ Len(cutoff) >= 1
        /\ Len(b) <= Len(chain)
    BY <1>1, <2>2, <2>3, AtChain DEF RowSound, Chains
  <2>5. Len(b) > Len(cutoff) /\ Len(b) >= 1
    BY <1>1, <2>1, <2>3, <2>4
  <2>6. IsPrefix(b, Tip) /\ e \in Range(EventsAt(b))
    BY <2>1, <2>2, <2>3, <2>5 DEF RowSound, StoreTyped, RowPlaced
  <2>7. Len(b) \in Heights
    <3>1. Len(chain) <= MaxHeight /\ MaxHeight \in Nat /\ Len(chain) \in Nat
      BY AtChain, ConstantsTyped
    <3> QED
      BY <2>4, <2>5, <3>1 DEF Heights
  <2> QED
    BY <2>1, <2>3, <2>4, <2>6, <2>7 DEF OnTip
<1>6. a.before \in SessionRecord
  <2>1. CASE buys = {}
    BY <1>3, <2>1, FreshIs
  <2>2. CASE buys # {}
    <3>1. buys \in SUBSET Events /\ \A e \in buys : OnTip(e)
      BY <1>2, <1>5
    <3>2. FirstBuy(buys) \in buys
      BY <2>2, <3>1, FirstBuyIs
    <3>3. PICK e : e = FirstBuy(buys)
      OBVIOUS
    <3> QED
      BY <1>3, <2>2, <3>1, <3>2, <3>3 DEF StoreTyped, RowPlaced
  <2> QED
    BY <2>1, <2>2
<1>7. a.discovery \in BOOLEAN /\ a.wallet \in BOOLEAN
  BY <1>3, <1>4
<1> QED
  BY <1>1, <1>6, <1>7

\* A reconciled session is a session, and one that is lost is reviewed.
LEMMA ReconciledTyped ==
  ASSUME StoreTyped, NEW p \in Pairs, coord.last \in DOMAIN audit, p \in DOMAIN Affected
  PROVE  /\ Reconciled(p) \in SessionRecord
         /\ Affected[p].wallet => Reconciled(p).status = "MANUAL_REVIEW"
<1>1. PICK a, s : a = Affected[p] /\ s = session[p]
  OBVIOUS
<1>2. a.before \in SessionRecord /\ a.discovery \in BOOLEAN /\ a.wallet \in BOOLEAN /\ s \in SessionRecord
  <2>1. PICK af : af = Affected
    OBVIOUS
  <2>2. SnapshotsTyped(af)
    BY <2>1 DEF StoreTyped, Affected
  <2> QED
    BY <1>1, <2>1, <2>2 DEF SnapshotsTyped, StoreTyped
<1>3. "MANUAL_REVIEW" \in Statuses /\ "REJECTED" \in Statuses
  BY DEF Statuses
<1>4. CASE a.wallet \/ (~a.wallet /\ ~a.discovery /\ a.before = NoSession)
  <2>1. Reconciled(p) = [s EXCEPT !.status = "MANUAL_REVIEW"]
    BY <1>1, <1>2, <1>4 DEF Reconciled
  <2> QED
    BY <1>2, <1>3, <2>1, StatusSet
<1>5. CASE ~a.wallet /\ a.discovery
  <2>1. Reconciled(p) = [s EXCEPT !.status = "REJECTED"]
    BY <1>1, <1>2, <1>5 DEF Reconciled
  <2> QED
    BY <1>1, <1>2, <1>3, <1>5, <2>1, StatusSet
<1>6. CASE ~a.wallet /\ ~a.discovery /\ a.before # NoSession
  <2>1. Reconciled(p) = Restored(p)
    BY <1>1, <1>2, <1>6 DEF Reconciled
  <2>2. PICK b, S : b = a.before /\ S = {e \in {f \in BuysOf(p) : row[f].canonical} : Precedes(b.entry, e)}
    OBVIOUS
  <2>3. S \in SUBSET Events
    BY <2>2 DEF BuysOf
  <2>4. Restored(p) = IF b.entry = 0 THEN b ELSE [b EXCEPT !.counted = S]
    BY <1>1, <2>2 DEF Restored
  <2>5. [b EXCEPT !.counted = S] \in SessionRecord
    BY <1>2, <2>2, <2>3, CountedSet
  <2> QED
    BY <1>1, <1>2, <1>6, <2>1, <2>2, <2>4, <2>5
<1> QED
  BY <1>2, <1>4, <1>5, <1>6

\* What a claimed swap makes of its row, of the session and of the wallet.
SwapOf(s, e, after) ==
  \/ /\ s.status = "WAITING_FIRST_BUY" /\ after.status = "HOLDING"
     /\ after.entry = e /\ after.counted = s.counted
  \/ /\ s.status = "HOLDING" /\ after.status \in {"HOLDING", "CLOSED"}
     /\ after.entry = s.entry /\ after.counted = s.counted \cup {e}
  \/ s.status \notin {"WAITING_FIRST_BUY", "HOLDING"} /\ after = s
LEMMA AfterIs ==
  ASSUME HandleSwap, session \in [Pairs -> SessionRecord],
         NEW e \in Events, NEW p \in Pairs, NEW s, e = Log.event, p = PairOf[e], s = session[p]
  PROVE  \/ ~Claims(e) /\ UNCHANGED <<row, session, wallet>>
         \/ /\ Claims(e) /\ row' = [row EXCEPT ![e] = Processed]
            /\ \E after \in SessionRecord :
                 SwapOf(s, e, after) /\ session' = [session EXCEPT ![p] = after]
            /\ wallet' = wallet \/ wallet' = [wallet EXCEPT ![p] = Append(@, e)]
<1>1. s \in SessionRecord
  OBVIOUS
<1>2. CASE ~Claims(e)
  BY <1>2 DEF HandleSwap, projections
<1>3. CASE Claims(e)
  <2> DEFINE buys == s.status = "WAITING_FIRST_BUY"
             counts == s.status = "HOLDING"
             sells == counts /\ Cardinality(s.counted) + 1 >= Target
             after == CASE buys  -> [s EXCEPT !.status = "HOLDING", !.entry = e]
                        [] sells -> [s EXCEPT !.status = "CLOSED", !.counted = @ \cup {e}]
                        [] counts /\ ~sells -> [s EXCEPT !.counted = @ \cup {e}]
                        [] OTHER -> s
  <2>1. /\ row' = [row EXCEPT ![e] = Processed]
        /\ session' = [session EXCEPT ![p] = after]
        /\ IF buys \/ sells THEN Transact(p, e) ELSE UNCHANGED wallet
    BY <1>3 DEF HandleSwap
  <2>2. wallet' = wallet \/ wallet' = [wallet EXCEPT ![p] = Append(@, e)]
    BY <2>1 DEF Transact
  <2>3. "HOLDING" \in Statuses /\ "CLOSED" \in Statuses
    BY DEF Statuses
  <2>4. PICK S : S = s.counted \cup {e}
    OBVIOUS
  <2>5. S \in SUBSET Events
    BY <1>1, <2>4 DEF SessionRecord
  <2>6. after \in SessionRecord /\ SwapOf(s, e, after)
    <3>1. CASE buys
      <4>1. after = [s EXCEPT !.status = "HOLDING", !.entry = e]
        BY <3>1
      <4> HIDE DEF after
      <4> QED
        BY <1>1, <2>3, <3>1, <4>1 DEF SwapOf, SessionRecord
    <3>2. CASE sells
      <4>1. after = [s EXCEPT !.status = "CLOSED", !.counted = S]
        BY <2>4, <3>2
      <4>2. s.status = "HOLDING"
        BY <3>2
      <4> HIDE DEF after, sells, counts, buys
      <4> QED
        BY <1>1, <2>3, <2>4, <2>5, <4>1, <4>2 DEF SwapOf, SessionRecord
    <3>3. CASE counts /\ ~sells
      <4>1. after = [s EXCEPT !.counted = S]
        BY <2>4, <3>3
      <4>2. s.status = "HOLDING"
        BY <3>3
      <4> HIDE DEF after, sells, counts, buys
      <4> QED
        BY <1>1, <2>3, <2>4, <2>5, <4>1, <4>2 DEF SwapOf, SessionRecord
    <3>4. CASE ~buys /\ ~counts
      <4>1. after = s
        BY <3>4
      <4> HIDE DEF after
      <4> QED
        BY <1>1, <3>4, <4>1 DEF SwapOf
    <3> QED
      BY <3>1, <3>2, <3>3, <3>4
  <2> HIDE DEF after
  <2> QED
    BY <1>3, <2>1, <2>2, <2>6
<1> QED
  BY <1>2, <1>3

\* The log at hand, its row and its pair.
LEMMA AtPlacedLog ==
  ASSUME ChainInv, StoreTyped, request.pc = "logs", request.todo # <<>>
  PROVE  /\ Log.event \in Events /\ PairOf[Log.event] \in Pairs /\ LogPlaced(Log)
         /\ RowPlaced(Processed, Log.event)
         /\ NextLog => \A i \in DOMAIN request'.todo : LogPlaced(request'.todo[i])
<1>1. Log.event \in Events
  BY LogIs
<1>2. PICK todo, rest : todo = request.todo /\ rest = Tail(todo)
  OBVIOUS
<1>3. todo \in Seq(LogRecord) /\ todo # <<>> /\ \A i \in DOMAIN todo : LogPlaced(todo[i])
  BY <1>2, AtRequest DEF RequestRecord, LogRecord, StoreTyped
<1>4. Log = todo[1] /\ 1 \in DOMAIN todo /\ \A i \in DOMAIN rest : i + 1 \in DOMAIN todo /\ rest[i] = todo[i + 1]
  BY <1>2, <1>3 DEF Log
<1>5. LogPlaced(Log) /\ \A i \in DOMAIN rest : LogPlaced(rest[i])
  BY <1>3, <1>4
<1>6. PairOf[Log.event] \in Pairs
  BY <1>1, ConstantsTyped
<1>7. RowPlaced(Processed, Log.event)
  <2>1. PICK e, s, x : e = Log.event /\ s = session[PairOf[e]] /\ x = Processed
    OBVIOUS
  <2>2. s \in SessionRecord
    BY <1>6, <2>1 DEF StoreTyped
  <2>3. x.before = s /\ x.block = Log.block
    BY <2>1, ProcessedIs
  <2> QED
    BY <1>5, <2>1, <2>2, <2>3 DEF RowPlaced, LogPlaced
<1>8. ASSUME NextLog PROVE request'.todo = rest
  BY <1>2, <1>8, AtRequest DEF NextLog, RequestRecord
<1> QED
  BY <1>1, <1>5, <1>6, <1>7, <1>8

\* A log that is read is of the block it is handled under.
LEMMA TodoPlaced ==
  ASSUME ChainInv, ReadLogs, NEW i \in DOMAIN Todo
  PROVE  LogPlaced(Todo[i])
<1>1. request.pc = "chunk" /\ request.from <= request.head /\ ~Foreign
  BY DEF ReadLogs, AtChunk
<1>2. PICK x, t : x = Todo[i] /\ t = request.scan
  OBVIOUS
<1>3. PICK n \in request.from..Until : \E e \in Range(EventsAt(Upto(chain, n))) :
             Relevant(e, n) /\ x = [event |-> e, block |-> Upto(t, n)]
  BY <1>1, <1>2, TodoIs
<1>4. PICK e \in Range(EventsAt(Upto(chain, n))) : Relevant(e, n) /\ x = [event |-> e, block |-> Upto(t, n)]
  BY <1>3
<1>5. /\ request.from \in Nat /\ request.from >= 1 /\ request.head \in Nat /\ request.head <= Len(chain)
      /\ t = Tip /\ Len(t) = request.head /\ t \in Chains /\ Len(chain) \in Nat
  BY <1>1, <1>2, AtRequest, AtChain
<1>6. Until \in Int /\ Until <= request.head
  BY <1>5, UntilIs
<1>7. n \in 1..Len(chain) /\ n \in 0..Len(t) /\ n >= 1
  <2>1. n \in Int /\ n >= request.from /\ n <= Until
    BY <1>5, <1>6
  <2> QED
    BY <1>5, <1>6, <2>1
<1>8. \E j \in DOMAIN Answer(n) : Answer(n)[j] = e
  BY <1>4, <1>7, AnswerIs DEF Relevant
<1>9. Upto(chain, n) = Upto(t, n)
  <2>1. Answer(n) # <<>>
    BY <1>8
  <2> QED
    BY <1>1, <1>2, <1>3, <2>1 DEF Foreign
<1>10. Len(Upto(t, n)) = n
  BY <1>5, <1>7, UptoIs
<1> QED
  BY <1>2, <1>4, <1>7, <1>9, <1>10 DEF LogPlaced

LEMMA RowsTypedNext ==
  ASSUME ChainInv, StoreTyped, [Next]_vars, NEW e \in Events
  PROVE  RowPlaced(row'[e], e)
<1>1. RowPlaced(row[e], e) /\ DOMAIN row = Events
  BY AtStore DEF StoreTyped
<1>2. CASE row' = row
  BY <1>1, <1>2
<1>3. CASE (AdmitPair \/ HandleSwap) /\ row' = [row EXCEPT ![Log.event] = Processed]
  <2>1. request.pc = "logs" /\ request.todo # <<>>
    BY <1>3 DEF AdmitPair, HandleSwap
  <2>2. PICK f, x : f = Log.event /\ x = Processed
    OBVIOUS
  <2>3. f \in Events /\ RowPlaced(x, f)
    BY <2>1, <2>2, AtPlacedLog
  <2>4. row'[e] = IF e = f THEN x ELSE row[e]
    BY <1>1, <1>3, <2>2, <2>3
  <2> QED
    BY <1>1, <2>3, <2>4
<1>4. CASE Rewind /\ row' = [f \in Events |-> RewoundRow(f)]
  <2>1. row'[e] = RewoundRow(e)
    BY <1>4
  <2>2. row'[e].block = row[e].block /\ row'[e].before = row[e].before /\ (row'[e].canonical => row[e].canonical)
    BY <2>1, RewoundRowIs
  <2> QED
    BY <1>1, <2>2 DEF RowPlaced
<1>5. CASE Restart
  BY <1>1, <1>5 DEF Restart
<1> QED
  BY <1>2, <1>3, <1>4, <1>5, RowMoves

LEMMA LogsTypedNext ==
  ASSUME ChainInv, StoreTyped, [Next]_vars, request'.pc = "logs", NEW i \in DOMAIN request'.todo
  PROVE  LogPlaced(request'.todo[i])
<1>1. CASE request' = request
  BY <1>1 DEF StoreTyped
<1>2. CASE AdmitPair \/ HandleSwap
  BY <1>2, AtPlacedLog DEF AdmitPair, HandleSwap
<1>3. CASE ReadLogs
  <2>1. PICK todo : todo = Todo
    OBVIOUS
  <2>2. request' = [request EXCEPT !.pc = "logs", !.todo = todo] /\ request.pc # "idle"
    BY <1>3, <2>1 DEF ReadLogs, AtChunk
  <2>3. request'.todo = todo
    BY <2>2, AtRequest DEF RequestRecord
  <2> QED
    BY <1>3, <2>1, <2>3, TodoPlaced
<1> QED
  BY <1>1, <1>2, <1>3, LeadsTo

LEMMA AuditTypedNext ==
  ASSUME ChainInv, StoreTyped, [Next]_vars, NEW id \in DOMAIN audit'
  PROVE  SnapshotsTyped(audit'[id].affected)
<1>1. \A i \in DOMAIN audit : SnapshotsTyped(audit[i].affected)
  BY DEF StoreTyped
<1>2. CASE audit' = audit
  BY <1>1, <1>2
<1>3. ASSUME NEW affected, NEW status, SnapshotsTyped(affected),
             audit' = Audited([status |-> status, affected |-> affected])
      PROVE  SnapshotsTyped(audit'[id].affected)
  <2>1. id \in DOMAIN audit \cup {coord.last}
        /\ audit'[id] = IF id = coord.last THEN [status |-> status, affected |-> affected] ELSE audit[id]
    BY <1>3 DEF Audited
  <2> QED
    BY <1>1, <1>3, <2>1
<1>4. ASSUME NEW last \in DOMAIN audit, NEW status, audit' = [audit EXCEPT ![last].status = status]
      PROVE  SnapshotsTyped(audit'[id].affected)
  <2>1. PICK a : a = audit
    OBVIOUS
  <2>2. id \in DOMAIN a /\ audit'[id] = IF id = last THEN [a[last] EXCEPT !.status = status] ELSE a[id]
    BY <1>4, <2>1
  <2>3. \A i \in DOMAIN a : a[i] = [status |-> a[i].status, affected |-> a[i].affected]
    BY <2>1, AtCoord DEF CoordSound
  <2>4. PICK x : x = a[last]
    OBVIOUS
  <2>5. x = [status |-> x.status, affected |-> x.affected]
    BY <1>4, <2>1, <2>3, <2>4
  <2>6. [x EXCEPT !.status = status].affected = x.affected
    BY <2>5
  <2>7. audit'[id].affected = a[id].affected
    BY <2>2, <2>4, <2>6
  <2> QED
    BY <1>1, <2>1, <2>2, <2>7
<1>5. ASSUME audit' = Reviewed, coord.last \in DOMAIN audit PROVE SnapshotsTyped(audit'[id].affected)
  <2>1. PICK last, status : /\ last = coord.last
                            /\ status = IF audit[last].status = "RECONCILING" THEN "MANUAL_REVIEW"
                                        ELSE audit[last].status
    OBVIOUS
  <2>2. audit' = [audit EXCEPT ![last].status = status]
    BY <1>5, <2>1 DEF Reviewed
  <2> QED
    BY <1>4, <1>5, <2>1, <2>2
<1>6. CASE Rewind
  <2>1. CASE coord.last \in DOMAIN audit
    BY <1>2, <1>6, <2>1 DEF Rewind
  <2>2. CASE coord.last \notin DOMAIN audit
    <3>1. PICK orphans, affected : /\ orphans = Above(request.scan)
                                   /\ affected = [p \in {PairOf[e] : e \in orphans} |-> Impact(p, orphans)]
      OBVIOUS
    <3>2. audit' = Audited([status |-> "RECONCILING", affected |-> affected])
      BY <1>6, <2>2, <3>1 DEF Rewind
    <3>3. request.scan \in Chains /\ Len(request.scan) >= Len(cutoff)
      BY <1>6, AtRequest, AtCoord DEF Rewind, RequestSound
    <3>4. SnapshotsTyped(affected)
      <4> SUFFICES ASSUME NEW p \in DOMAIN affected
                   PROVE  /\ affected[p].before \in SessionRecord
                          /\ affected[p].discovery \in BOOLEAN /\ affected[p].wallet \in BOOLEAN
        BY DEF SnapshotsTyped
      <4>1. affected[p] = Impact(p, orphans)
        BY <3>1
      <4> QED
        BY <3>1, <3>3, <4>1, ImpactTyped
    <3> QED
      BY <1>3, <3>2, <3>4
  <2> QED
    BY <2>1, <2>2
<1>7. CASE DeepReorg
  <2>1. SnapshotsTyped(<<>>)
    BY DEF SnapshotsTyped
  <2> QED
    BY <1>3, <1>5, <1>7, <2>1 DEF DeepReorg
<1>8. CASE Project
  <2>1. coord.last \in DOMAIN audit
    BY <1>8, AtCoord DEF Project, CoordSound
  <2> QED
    BY <1>2, <1>5, <1>8, <2>1 DEF Project
<1>9. CASE Complete
  <2>1. PICK done, status : /\ done = Head(coord.pending)
                            /\ status = IF audit[done].status = "RECONCILING" THEN "RECOVERED"
                                        ELSE audit[done].status
    OBVIOUS
  <2>2. audit' = [audit EXCEPT ![done].status = status]
    BY <1>9, <2>1 DEF Complete
  <2>3. done \in DOMAIN audit
    <3>1. PICK S, pending : S = DOMAIN audit /\ pending = coord.pending
      OBVIOUS
    <3>2. pending \in Seq(S) /\ pending # <<>>
      BY <1>9, <3>1, AtCoord DEF CoordSound, Complete
    <3>3. Head(pending) \in S
      BY <3>2
    <3> QED
      BY <2>1, <3>1, <3>3
  <2> QED
    BY <1>4, <2>2, <2>3
<1>10. CASE Restart
  BY <1>2, <1>10 DEF Restart
<1> QED
  BY <1>2, <1>6, <1>7, <1>8, <1>9, <1>10, WhoMoves

LEMMA SessionsTypedNext ==
  ASSUME ChainInv, StoreTyped, [Next]_vars
  PROVE  session' \in [Pairs -> SessionRecord]
<1>1. session \in [Pairs -> SessionRecord]
  BY DEF StoreTyped
<1>2. CASE session' = session
  BY <1>1, <1>2
<1>3. CASE AdmitPair
  <2>1. PICK p : p = PairOf[Log.event]
    OBVIOUS
  <2>2. session' = session \/ session' = [session EXCEPT ![p] = Fresh]
    BY <1>3, <2>1 DEF AdmitPair
  <2> QED
    BY <1>1, <2>2, FreshIs
<1>4. CASE HandleSwap
  <2>1. request.pc = "logs" /\ request.todo # <<>>
    BY <1>4 DEF HandleSwap
  <2>2. PICK e, p, s : e = Log.event /\ p = PairOf[e] /\ s = session[p]
    OBVIOUS
  <2>3. e \in Events /\ p \in Pairs
    BY <2>1, <2>2, AtPlacedLog
  <2>4. session' = session \/ \E after \in SessionRecord : session' = [session EXCEPT ![p] = after]
    BY <1>1, <1>4, <2>2, <2>3, AfterIs
  <2> QED
    BY <1>1, <2>4
<1>5. CASE Project \/ HandlerFails
  <2>1. \/ session' = session
        \/ /\ request.pc = "project"
           /\ \E S \in SUBSET (DOMAIN Affected) :
                session' = [p \in Pairs |-> IF p \in S THEN Reconciled(p) ELSE session[p]]
    BY <1>5 DEF Project, HandlerFails
  <2>2. ASSUME request.pc = "project", NEW S \in SUBSET (DOMAIN Affected), NEW p \in Pairs, p \in S
        PROVE  Reconciled(p) \in SessionRecord
    <3>1. coord.last \in DOMAIN audit
      BY <2>2, AtCoord DEF CoordSound
    <3> QED
      BY <2>2, <3>1, ReconciledTyped
  <2> QED
    BY <1>1, <2>1, <2>2
<1>6. CASE \E p \in Pairs : PolicySale(p)
  <2>1. PICK p \in Pairs : PolicySale(p)
    BY <1>6
  <2>2. session' = [session EXCEPT ![p].status = "CLOSED"]
    BY <2>1 DEF PolicySale
  <2>3. PICK s, x : s = session[p] /\ x = [s EXCEPT !.status = "CLOSED"]
    OBVIOUS
  <2>4. x \in SessionRecord
    BY <1>1, <2>3, StatusSet DEF Statuses
  <2>5. session' = [session EXCEPT ![p] = x]
    BY <2>2, <2>3
  <2> QED
    BY <1>1, <2>4, <2>5
<1>7. CASE Restart
  <2>1. session' = [p \in Pairs |-> IF session[p].status \in Active
                                    THEN [session[p] EXCEPT !.status = "MANUAL_REVIEW"] ELSE session[p]]
    BY <1>7 DEF Restart
  <2>2. ASSUME NEW p \in Pairs PROVE [session[p] EXCEPT !.status = "MANUAL_REVIEW"] \in SessionRecord
    BY <1>1, StatusSet DEF Statuses
  <2> QED
    BY <1>1, <2>1, <2>2
<1> QED
  BY <1>2, <1>3, <1>4, <1>5, <1>6, <1>7, WhoMoves

LEMMA StoreTypedNext ==
  ASSUME ChainInv, StoreTyped, [Next]_vars
  PROVE  StoreTyped'
<1>1. session' \in [Pairs -> SessionRecord]
  BY SessionsTypedNext
<1>2. \A e \in Events : RowPlaced(row'[e], e)
  BY RowsTypedNext
<1>3. \A id \in DOMAIN audit' : SnapshotsTyped(audit'[id].affected)
  BY AuditTypedNext
<1>4. request'.pc = "logs" => \A i \in DOMAIN request'.todo : LogPlaced(request'.todo[i])
  BY LogsTypedNext
<1> QED
  BY <1>1, <1>2, <1>3, <1>4 DEF StoreTyped, RowPlaced, SnapshotsTyped, LogPlaced

\* A transaction is entered with the event of its pair it answers, while that is canonical.
LEMMA SourcesNext ==
  ASSUME ChainInv, StoreTyped, SourcesSound, [Next]_vars
  PROVE  /\ wallet' \in [Pairs -> Sources]
         /\ \A p \in Pairs : \A e \in Range(wallet'[p]) :
              e \in Range(wallet[p]) \/ e = 0 \/ (PairOf[e] = p /\ e \in Events /\ row'[e].canonical)
<1>1. wallet \in [Pairs -> Sources]
  BY DEF SourcesSound
<1>2. ASSUME NEW p \in Pairs, NEW e \in Events \cup {0}, wallet' = [wallet EXCEPT ![p] = Append(@, e)],
             e = 0 \/ (PairOf[e] = p /\ e \in Events /\ row'[e].canonical)
      PROVE  /\ wallet' \in [Pairs -> Sources]
             /\ \A q \in Pairs : \A f \in Range(wallet'[q]) :
                  f \in Range(wallet[q]) \/ f = 0 \/ (PairOf[f] = q /\ f \in Events /\ row'[f].canonical)
  <2>1. PICK w, A : w = wallet[p] /\ A = Events \cup {0}
    OBVIOUS
  <2>2. w \in Seq(A) /\ e \in A
    BY <1>1, <1>2, <2>1 DEF Sources
  <2>3. Append(w, e) \in Seq(A) /\ \A f \in Range(Append(w, e)) : f \in Range(w) \/ f = e
    BY <2>2 DEF Range
  <2>4. wallet' = [wallet EXCEPT ![p] = Append(w, e)]
    BY <1>2, <2>1
  <2>5. wallet'[p] = Append(w, e) /\ \A q \in Pairs : q # p => wallet'[q] = wallet[q]
    BY <1>1, <2>4
  <2>6. wallet' \in [Pairs -> Sources]
    BY <1>1, <2>1, <2>3, <2>4 DEF Sources
  <2> QED
    BY <1>2, <2>1, <2>3, <2>5, <2>6
<1>3. CASE wallet' = wallet
  BY <1>1, <1>3
<1>4. CASE HandleSwap
  <2>1. request.pc = "logs" /\ request.todo # <<>>
    BY <1>4 DEF HandleSwap
  <2>2. PICK e, p, s, x : e = Log.event /\ p = PairOf[e] /\ s = session[p] /\ x = Processed
    OBVIOUS
  <2>3. e \in Events /\ p \in Pairs
    BY <2>1, <2>2, AtPlacedLog
  <2>4. wallet' = wallet \/ (row' = [row EXCEPT ![e] = x] /\ wallet' = [wallet EXCEPT ![p] = Append(@, e)])
    BY <1>4, <2>2, <2>3, AfterIs DEF StoreTyped
  <2>5. x.canonical
    BY <2>2, ProcessedIs
  <2>6. row' = [row EXCEPT ![e] = x] => row'[e].canonical
    BY <2>3, <2>5, AtStore
  <2> QED
    BY <1>2, <1>3, <2>2, <2>3, <2>4, <2>6
<1>5. CASE \E p \in Pairs : PolicySale(p)
  <2>1. PICK p \in Pairs : PolicySale(p)
    BY <1>5
  <2>2. wallet' = wallet \/ wallet' = [wallet EXCEPT ![p] = Append(@, 0)]
    BY <2>1 DEF PolicySale, Transact
  <2> QED
    BY <1>2, <1>3, <2>2
<1>6. CASE Restart
  BY <1>3, <1>6 DEF Restart
<1> QED
  BY <1>3, <1>4, <1>5, <1>6, WhoMoves

\* A rollback ends with the review of its sessions, or where that fails.
LEMMA ProjectEnds ==
  ASSUME ChainInv, [Next]_vars, ~Restart, request.pc = "project"
  PROVE  \/ Project \/ HandlerFails
         \/ request' = request /\ coord' = coord /\ audit' = audit
<1>1. request # Idle
  BY DEF Idle
<1>2. ~Going
  BY <1>1, GoingOn, StartIs
<1>3. ~Complete /\ ~Diverge /\ ~DeepReorg
  BY <1>1 DEF Complete, Diverge, DeepReorg
<1>4. CASE Ending
  BY <1>4 DEF Ending, RpcFails, ScanThrows, ChunkThrows, AtChunk, HandlingFails, WalkThrows, DeepReorg, Prune
<1>5. CASE Aside /\ ~Project
  <2>1. request' = request
    BY <1>5, AsideIs
  <2>2. ~Rewind
    BY DEF Rewind
  <2> QED
    BY <1>3, <1>5, <2>1, <2>2, CoordStays, WhoMoves
<1>6. CASE UNCHANGED vars
  BY <1>6 DEF vars, idleVars, storeVars
<1> QED
  BY <1>2, <1>4, <1>5, <1>6, StepIs

\* Where the coordinator waits for a human, so do the sessions it has lost.
LEMMA ReviewStays ==
  ASSUME ChainInv, ReplayInv, StoreTyped, [Next]_vars, ~Restart, coord.state = "MANUAL_REVIEW"
  PROVE  /\ coord'.state = "MANUAL_REVIEW" /\ request'.pc # "project" /\ row' = row
         /\ \A p \in Pairs : session[p].status = "MANUAL_REVIEW" => session'[p] = session[p]
<1>1. request.pc = "idle"
  BY DEF ReplayInv
<1>2. ~Diverge /\ ~DeepReorg /\ ~Project /\ ~Rewind /\ ~AdmitPair /\ ~HandleSwap /\ ~HandlerFails
  BY <1>1 DEF Diverge, DeepReorg, Project, Rewind, AdmitPair, HandleSwap, HandlerFails
<1>3. coord'.state = "MANUAL_REVIEW"
  <2>1. Complete => coord'.state = "MANUAL_REVIEW"
    BY CoordMoves
  <2>2. ~Complete => coord' = coord
    BY <1>2, CoordStays
  <2> QED
    BY <2>1, <2>2
<1>4. request'.pc # "project"
  <2>1. request' = request => request'.pc # "project"
    BY <1>1
  <2> QED
    BY <1>2, <2>1, LeadsTo
<1>5. ASSUME NEW p \in Pairs, session[p].status = "MANUAL_REVIEW" PROVE session'[p] = session[p]
  <2>1. ASSUME NEW q \in Pairs, PolicySale(q) PROVE session'[p] = session[p]
    <3>1. session' = [session EXCEPT ![q].status = "CLOSED"] /\ session[q].status = "HOLDING"
      BY <2>1 DEF PolicySale
    <3>2. session \in [Pairs -> SessionRecord] /\ q # p
      BY <1>5, <3>1 DEF StoreTyped
    <3> QED
      BY <3>1, <3>2
  <2> QED
    BY <1>2, <2>1, WhoMoves
<1>6. row' = row
  BY <1>2, WhoMoves
<1> QED
  BY <1>3, <1>4, <1>5, <1>6

\* What a rollback orphans it knows; nothing was orphaned before it.
LEMMA RewindKnows ==
  ASSUME ChainInv, TurnsSound, WalletInv, Rewind, [Next]_vars, NEW p \in Pairs, InDanger(p)'
  PROVE  p \in DOMAIN Affected' /\ Affected'[p].wallet
<1>1. request.pc = "rewind" /\ request # Idle /\ coord' = coord /\ cutoff' = cutoff /\ wallet' = wallet
  BY DEF Rewind, Idle, idleVars, nodeVars
<1>2. ~InDanger(p)
  <2>1. coord.state = "RECONCILING" /\ ~Stuck
    BY <1>1 DEF TurnsSound, Stuck
  <2> QED
    BY <1>1, <2>1 DEF WalletInv, WalletSound
<1>3. PICK e \in Range(wallet[p]) \ {0} : Orphaned(e)'
  BY <1>1 DEF InDanger
<1>4. e \in Events /\ PairOf[e] = p
  <2>1. wallet[p] \in Seq(Events \cup {0}) /\ PairOf[e] = p
    BY <1>3 DEF WalletInv, SourcesSound, Sources
  <2>2. e \in Events \cup {0}
    <3>1. PICK w : w = wallet[p]
      OBVIOUS
    <3>2. w \in Seq(Events \cup {0}) /\ e \in Range(w)
      BY <1>3, <2>1, <3>1
    <3> QED
      BY <3>2 DEF Range
  <2> QED
    BY <1>3, <2>1, <2>2
<1>5. ~Orphaned(e)
  BY <1>2, <1>3 DEF InDanger
<1>6. coord.last \notin DOMAIN audit /\ row' = [f \in Events |-> RewoundRow(f)]
  BY <1>1, <1>3, <1>5 DEF Rewind, Orphaned
<1>7. row'[e] = RewoundRow(e)
  BY <1>4, <1>6
<1>8. row'[e].block = row[e].block
      /\ (row'[e].canonical <=> row[e].canonical /\ Len(row[e].block) <= Len(request.scan))
  BY <1>4, <1>7, RewoundRowIs
<1>9. row[e].canonical /\ Len(row[e].block) > Len(request.scan)
  <2>1. Len(row[e].block) \in Nat /\ Len(request.scan) \in Nat
    BY <1>1, <1>4, AtStore, AtRequest DEF RowSound, Chains
  <2> QED
    BY <1>1, <1>3, <1>5, <1>8, <2>1 DEF Orphaned
<1>10. PICK orphans, affected : /\ orphans = Above(request.scan)
                                /\ affected = [q \in {PairOf[f] : f \in orphans} |-> Impact(q, orphans)]
  OBVIOUS
<1>11. audit' = Audited([status |-> "RECONCILING", affected |-> affected])
  BY <1>6, <1>10 DEF Rewind
<1>12. Affected' = affected
  BY <1>1, <1>11 DEF Audited, Affected
<1>13. e \in orphans
  BY <1>4, <1>9, <1>10 DEF Above
<1>14. p \in DOMAIN affected /\ affected[p] = Impact(p, orphans)
  BY <1>4, <1>10, <1>13
<1>15. Impact(p, orphans).wallet = TouchesWallet(p, orphans)
  BY DEF Impact
<1>16. TouchesWallet(p, orphans)
  BY <1>3, <1>13 DEF TouchesWallet
<1> QED
  BY <1>12, <1>14, <1>15, <1>16

LEMMA DangerStays ==
  ASSUME ChainInv, StoreTyped, SourcesSound, [Next]_vars, ~Restart, ~Rewind, NEW p \in Pairs, InDanger(p)'
  PROVE  InDanger(p)
<1>1. PICK e \in Range(wallet'[p]) \ {0} : Orphaned(e)'
  BY DEF InDanger
<1>2. cutoff' = cutoff /\ ~row'[e].canonical
  BY <1>1, WhoMoves DEF Orphaned
<1>3. e \in Range(wallet[p])
  BY <1>1, <1>2, SourcesNext
<1>4. e \in Events
  <2>1. PICK w : w = wallet[p]
    OBVIOUS
  <2>2. w \in Seq(Events \cup {0}) /\ e \in Range(w)
    BY <1>3, <2>1 DEF SourcesSound, Sources
  <2> QED
    BY <1>1, <2>2 DEF Range
<1>5. row'[e] = row[e]
  <2>1. CASE row' = row
    BY <2>1
  <2>2. CASE (AdmitPair \/ HandleSwap) /\ row' = [row EXCEPT ![Log.event] = Processed]
    <3>1. PICK f, x : f = Log.event /\ x = Processed
      OBVIOUS
    <3>2. x.canonical
      BY <3>1, ProcessedIs
    <3>3. e # f
      BY <1>2, <1>4, <2>2, <3>1, <3>2, AtStore
    <3> QED
      BY <2>2, <3>1, <3>3
  <2> QED
    BY <2>1, <2>2, RowMoves
<1> QED
  BY <1>1, <1>2, <1>3, <1>5 DEF InDanger, Orphaned

LEMMA WalletSoundNext ==
  ASSUME ChainInv, ReplayInv, TurnsSound, WalletInv, [Next]_vars
  PROVE  WalletSound'
<1> DEFINE Kept(p) == IF request'.pc = "project" THEN p \in DOMAIN Affected' /\ Affected'[p].wallet
                      ELSE session'[p].status = "MANUAL_REVIEW" /\ coord'.state = "MANUAL_REVIEW"
<1> SUFFICES ASSUME ~Stuck', NEW p \in Pairs, InDanger(p)'
             PROVE  Kept(p)
  BY DEF WalletSound
<1>1. StoreTyped /\ SourcesSound
  BY DEF WalletInv
<1>2. ~Restart
  <2>1. ASSUME Restart PROVE FALSE
    <3>1. PICK e \in Range(wallet'[p]) \ {0} : Orphaned(e)'
      BY DEF InDanger
    <3>2. wallet' = wallet /\ row' = row /\ cutoff' = chain
      BY <2>1 DEF Restart
    <3>3. e \in Events
      <4>1. PICK w : w = wallet[p]
        OBVIOUS
      <4>2. w \in Seq(Events \cup {0}) /\ e \in Range(w)
        BY <1>1, <3>1, <3>2, <4>1 DEF SourcesSound, Sources
      <4> QED
        BY <3>1, <4>2 DEF Range
    <3>4. Len(row[e].block) <= Len(chain) /\ Len(row[e].block) \in Nat /\ Len(chain) \in Nat
      BY <3>3, AtStore, AtChain DEF RowSound, Chains
    <3> QED
      BY <3>1, <3>2, <3>4 DEF Orphaned
  <2> QED
    BY <2>1
<1>3. ~Stuck
  BY <1>2, StuckStays
<1>4. CASE Rewind
  <2>1. request'.pc = "project"
    BY <1>4, AtRequest DEF Rewind, RequestRecord
  <2> QED
    BY <1>4, <2>1, RewindKnows
<1>5. CASE ~Rewind
  <2>1. InDanger(p)
    BY <1>1, <1>2, <1>5, DangerStays
  <2>2. CASE request.pc = "project"
    <3>1. p \in DOMAIN Affected /\ Affected[p].wallet
      BY <1>3, <2>1, <2>2 DEF WalletInv, WalletSound
    <3>2. CASE Project
      <4>1. coord.last \in DOMAIN audit
        BY <2>2, AtCoord DEF CoordSound
      <4>2. session'[p] = Reconciled(p) /\ Lost # {}
        BY <3>1, <3>2 DEF Project, Lost
      <4>3. session'[p].status = "MANUAL_REVIEW"
        BY <1>1, <3>1, <4>1, <4>2, ReconciledTyped
      <4>4. coord'.state = "MANUAL_REVIEW"
        <5>1. PICK c, l : c = coord /\ l = coord.last
          OBVIOUS
        <5>2. c \in [state : States, ready : BOOLEAN, last : Chains \X Chains, pending : Seq(DOMAIN audit)]
          BY <5>1, AtCoord DEF CoordSound
        <5>3. coord' = [c EXCEPT !.state = "MANUAL_REVIEW", !.ready = FALSE, !.last = l]
          BY <3>2, <4>2, <5>1 DEF Project, Status
        <5> QED
          BY <5>2, <5>3
      <4>5. request'.pc # "project"
        BY <3>2 DEF Project, Return, Idle
      <4> QED
        BY <4>3, <4>4, <4>5
    <3>3. CASE HandlerFails
      BY <3>3, FailureSticks
    <3>4. CASE request' = request /\ coord' = coord /\ audit' = audit
      <4>1. Affected' = Affected
        BY <3>4 DEF Affected
      <4> QED
        BY <2>2, <3>1, <3>4, <4>1
    <3> QED
      BY <1>2, <2>2, <3>2, <3>3, <3>4, ProjectEnds
  <2>3. CASE request.pc # "project"
    <3>1. session[p].status = "MANUAL_REVIEW" /\ coord.state = "MANUAL_REVIEW"
      BY <1>3, <2>1, <2>3 DEF WalletInv, WalletSound
    <3> QED
      BY <1>1, <1>2, <3>1, ReviewStays
  <2> QED
    BY <2>2, <2>3
<1> QED
  BY <1>4, <1>5

LEMMA WalletNext ==
  ASSUME ChainInv, ReplayInv, TurnsSound, WalletInv, [Next]_vars
  PROVE  WalletInv'
<1>1. StoreTyped'
  BY StoreTypedNext DEF WalletInv
<1>2. SourcesSound'
  BY SourcesNext DEF WalletInv, SourcesSound
<1> QED
  BY <1>1, <1>2, WalletSoundNext DEF WalletInv

LEMMA WalletInit == Init => WalletInv
<1> SUFFICES ASSUME Init PROVE WalletInv
  OBVIOUS
<1>1. StoreTyped
  <2>1. session \in [Pairs -> SessionRecord]
    BY FreshIs DEF Init
  <2>2. ASSUME NEW e \in Events PROVE RowPlaced(row[e], e)
    <3>1. row[e] = NoRow /\ NoRow.before = NoSession /\ NoRow.canonical = FALSE
      BY DEF Init, NoRow
    <3> QED
      BY <3>1, FreshIs DEF RowPlaced
  <2>3. DOMAIN audit = {}
    BY DEF Init
  <2>4. request.pc # "logs"
    BY DEF Init, Idle
  <2> QED
    BY <2>1, <2>2, <2>3, <2>4 DEF StoreTyped
<1>2. SourcesSound /\ \A p \in Pairs : Range(wallet[p]) = {}
  <2>1. PICK w : w = <<>>
    OBVIOUS
  <2>2. w \in Seq(Events \cup {0}) /\ Range(w) = {}
    BY <2>1 DEF Range
  <2>3. wallet = [p \in Pairs |-> w]
    BY <2>1 DEF Init
  <2> QED
    BY <2>2, <2>3 DEF SourcesSound, Sources
<1> QED
  BY <1>1, <1>2 DEF WalletInv, WalletSound, InDanger

\* The sessions, the snapshots and the sources of the transactions stay what they
\* are taken for, through crashes and forks that win again (session, swap_events,
\* chain_reorgs, executions).
THEOREM WalletInvariant == Spec => []WalletInv
<1>1. ChainInv /\ ReplayInv /\ TurnsSound /\ WalletInv /\ [Next]_vars => WalletInv'
  BY WalletNext
<1> QED
  BY <1>1, WalletInit, ChainInvariant, ReplayInvariant, RequestsTakeTurns, PTL DEF Spec

\* A pair that has a transaction whose source event was orphaned is left to a
\* human, whatever fails or crashes on the way (reorg-session-reconciler.ts).
THEOREM WalletsAreKept == Spec => []WalletKept
<1>1. WalletInv => WalletKept
  <2> SUFFICES ASSUME WalletInv, NEW p \in Pairs, NEW e \in Events,
                      request.pc # "project", ~Stuck, e \in Range(wallet[p]), ~row[e].canonical,
                      Len(row[e].block) > Len(cutoff)
               PROVE  session[p].status = "MANUAL_REVIEW"
    BY DEF WalletKept
  <2>1. e # 0
    BY ChainAssumption
  <2>2. InDanger(p)
    BY <2>1 DEF InDanger, Orphaned
  <2> QED
    BY <2>2 DEF WalletInv, WalletSound
<1> QED
  BY <1>1, WalletInvariant, PTL

------------------------------------------------------------------------------
(* The order of the logs.                                                   *)

Distinct(s) == \A i, j \in DOMAIN s : s[i] = s[j] => i = j

\* Position b of the kept sequence stems from a position of s, and what is kept of
\* the positions before that one is before b.
StemsFrom(l, s, S, j, b) ==
  /\ s[j] = l[b]
  /\ \A i \in 1..j - 1 : s[i] \in S => \E a \in 1..b - 1 : l[a] = s[i]

\* Keep leaves out, and neither reorders nor repeats.
LEMMA KeepOrder ==
  ASSUME NEW A, NEW s \in Seq(A), NEW S
  PROVE  /\ \A b \in DOMAIN Keep(s, S) : \E j \in DOMAIN s : StemsFrom(Keep(s, S), s, S, j, b)
         /\ Distinct(s) => Distinct(Keep(s, S))
<1>1. PICK k : KeptUpto(k, s, S, Len(s)) /\ Keep(s, S) = k[Len(s)]
  BY KeepBy
<1> DEFINE Here(n) == \A i \in 1..n : s[i] \in S => \E a \in 1..Len(k[n]) : k[n][a] = s[i]
           Order(n) == \A b \in 1..Len(k[n]) : \E j \in 1..n : StemsFrom(k[n], s, S, j, b)
           Once(n) == Distinct(s) => Distinct(k[n])
           Good(n) == k[n] \in Seq(A) /\ Here(n) /\ Order(n) /\ Once(n)
           Bad == {n \in 0..Len(s) : ~Good(n)}
<1>2. /\ k[0] = <<>>
      /\ \A n \in 1..Len(s) : k[n] = IF s[n] \in S THEN Append(k[n - 1], s[n]) ELSE k[n - 1]
  <2>1. k = [i \in 0..Len(s) |-> IF i = 0 THEN <<>>
                                 ELSE IF s[i] \in S THEN Append(k[i - 1], s[i]) ELSE k[i - 1]]
    BY <1>1 DEF KeptUpto
  <2>2. \A i \in 0..Len(s) : k[i] = IF i = 0 THEN <<>>
                                    ELSE IF s[i] \in S THEN Append(k[i - 1], s[i]) ELSE k[i - 1]
    BY <2>1
  <2>3. Len(s) \in Nat /\ 0 \in 0..Len(s) /\ \A n \in 1..Len(s) : n \in 0..Len(s) /\ n # 0
    OBVIOUS
  <2> QED
    BY <2>2, <2>3
<1>3. Good(0)
  <2>1. k[0] \in Seq(A) /\ Len(k[0]) = 0 /\ DOMAIN k[0] = {}
    BY <1>2
  <2> QED
    BY <2>1 DEF Distinct
<1>4. ASSUME NEW n \in 1..Len(s), Good(n - 1) PROVE Good(n)
  <2>1. PICK l, l2, e, m : l = k[n - 1] /\ l2 = k[n] /\ e = s[n] /\ m = Len(l)
    OBVIOUS
  <2>2. l \in Seq(A) /\ e \in A /\ l2 = (IF e \in S THEN Append(l, e) ELSE l) /\ m \in Nat /\ DOMAIN l = 1..m
    BY <1>2, <1>4, <2>1
  <2>3. l2 \in Seq(A)
    BY <2>2
  <2>4. \A i \in 1..n - 1 : s[i] \in S => \E a \in 1..m : l[a] = s[i]
    BY <1>4, <2>1
  <2>5. \A b \in 1..m : \E j \in 1..n - 1 : StemsFrom(l, s, S, j, b)
    BY <1>4, <2>1
  <2>6. Distinct(s) => Distinct(l)
    BY <1>4, <2>1
  <2>7. n \in Nat /\ n >= 1 /\ n \in DOMAIN s /\ \A i \in 1..n - 1 : i \in DOMAIN s /\ i < n
    OBVIOUS
  <2>8. CASE e \notin S
    <3>1. l2 = l /\ Len(l2) = m
      BY <2>1, <2>2, <2>8
    <3>2. Here(n)
      <4>1. ASSUME NEW i \in 1..n, s[i] \in S PROVE \E a \in 1..m : l[a] = s[i]
        <5>1. i # n /\ i \in 1..n - 1
          BY <2>1, <2>7, <2>8, <4>1
        <5> QED
          BY <2>4, <4>1, <5>1
      <4> QED
        BY <2>1, <3>1, <4>1
    <3>3. Order(n)
      BY <2>1, <2>5, <2>7, <3>1
    <3>4. Once(n)
      BY <2>1, <2>6, <3>1
    <3> QED
      BY <2>1, <2>3, <3>2, <3>3, <3>4
  <2>9. CASE e \in S
    <3>1. /\ l2 = Append(l, e) /\ Len(l2) = m + 1 /\ DOMAIN l2 = 1..m + 1
          /\ l2[m + 1] = e /\ \A i \in 1..m : l2[i] = l[i]
      BY <2>1, <2>2, <2>9
    <3>2. Here(n)
      <4>1. ASSUME NEW i \in 1..n, s[i] \in S PROVE \E a \in 1..m + 1 : l2[a] = s[i]
        <5>1. CASE i = n
          <6>1. m + 1 \in 1..m + 1
            BY <2>2
          <6>2. l2[m + 1] = s[i]
            BY <2>1, <3>1, <5>1
          <6> QED
            BY <6>1, <6>2
        <5>2. CASE i # n
          <6>1. i \in 1..n - 1
            BY <2>7, <5>2
          <6>2. PICK a \in 1..m : l[a] = s[i]
            BY <2>4, <4>1, <6>1
          <6>3. a \in 1..m + 1
            BY <2>2, <6>2
          <6>4. l2[a] = s[i]
            BY <3>1, <6>2
          <6> QED
            BY <6>3, <6>4
        <5> QED
          BY <5>1, <5>2
      <4> QED
        BY <2>1, <3>1, <4>1
    <3>3. Order(n)
      <4>1. ASSUME NEW b \in 1..m PROVE \E j \in 1..n : StemsFrom(l2, s, S, j, b)
        <5>1. PICK j \in 1..n - 1 : StemsFrom(l, s, S, j, b)
          BY <2>5
        <5>2. \A a \in 1..b - 1 : a \in 1..m
          BY <2>2
        <5>3. StemsFrom(l2, s, S, j, b)
          BY <3>1, <5>1, <5>2 DEF StemsFrom
        <5> QED
          BY <2>7, <5>3
      <4>2. StemsFrom(l2, s, S, n, m + 1)
        <5>1. (m + 1) - 1 = m
          BY <2>2
        <5>2. \A i \in 1..n - 1 : s[i] \in S => \E a \in 1..m : l2[a] = s[i]
          BY <2>4, <3>1
        <5> QED
          BY <2>1, <3>1, <5>1, <5>2 DEF StemsFrom
      <4>3. \A b \in 1..m + 1 : b \in 1..m \/ b = m + 1
        BY <2>2
      <4>4. ASSUME NEW b \in 1..m + 1 PROVE \E j \in 1..n : StemsFrom(l2, s, S, j, b)
        BY <2>7, <4>1, <4>2, <4>3
      <4> QED
        BY <2>1, <3>1, <4>4
    <3>4. Once(n)
      <4> SUFFICES ASSUME Distinct(s) PROVE Distinct(l2)
        BY <2>1
      <4>1. ASSUME NEW i \in 1..m PROVE l2[i] # e
        <5>1. PICK j \in 1..n - 1 : s[j] = l[i]
          BY <2>5 DEF StemsFrom
        <5>2. s[j] # s[n]
          BY <2>7, <5>1 DEF Distinct
        <5> QED
          BY <2>1, <3>1, <5>1, <5>2
      <4>2. Distinct(l)
        BY <2>6
      <4>3. ASSUME NEW i \in 1..m + 1, NEW j \in 1..m + 1, l2[i] = l2[j] PROVE i = j
        <5>1. (i \in 1..m \/ i = m + 1) /\ (j \in 1..m \/ j = m + 1)
          BY <2>2
        <5>2. CASE i \in 1..m /\ j \in 1..m
          BY <2>2, <3>1, <4>2, <4>3, <5>2 DEF Distinct
        <5> QED
          BY <3>1, <4>1, <4>3, <5>1, <5>2
      <4> QED
        BY <3>1, <4>3 DEF Distinct
    <3> QED
      BY <2>1, <2>3, <3>2, <3>3, <3>4
  <2> QED
    BY <2>8, <2>9
<1>5. Bad = {}
  <2> SUFFICES ASSUME Bad # {} PROVE FALSE
    OBVIOUS
  <2>1. PICK n \in Bad : \A m \in Bad : n <= m
    <3>1. Bad \subseteq Nat
      OBVIOUS
    <3> HIDE DEF Bad
    <3> QED
      BY <3>1, LeastOne
  <2> HIDE DEF Good
  <2>2. n # 0 /\ n \in 1..Len(s) /\ n - 1 \in 0..Len(s)
    BY <1>3, <2>1
  <2>3. n - 1 \notin Bad
    BY <2>1, <2>2
  <2> QED
    BY <1>4, <2>1, <2>2, <2>3
<1>6. Good(Len(s))
  <2> HIDE DEF Good
  <2>1. Len(s) \in 0..Len(s)
    OBVIOUS
  <2> QED
    BY <1>5, <2>1
<1>7. PICK o : o = Keep(s, S)
  OBVIOUS
<1>8. o \in Seq(A) /\ o = k[Len(s)]
  BY <1>1, <1>6, <1>7
<1>9. DOMAIN s = 1..Len(s) /\ DOMAIN o = 1..Len(o)
  BY <1>8
<1>10. \A b \in 1..Len(o) : \E j \in 1..Len(s) : StemsFrom(o, s, S, j, b)
  BY <1>6, <1>8
<1>11. Distinct(s) => Distinct(o)
  BY <1>6, <1>8
<1> QED
  BY <1>7, <1>9, <1>10, <1>11

\* An event is emitted once in a block.
LogsOnce == \A n \in Heights, f \in Labels : Distinct(Content[n][f])

LEMMA EventsDistinct ==
  ASSUME LogsOnce, NEW h \in Chains, Len(h) \in Heights
  PROVE  Distinct(EventsAt(h))
<1>1. Last(h) \in Labels
  BY DEF Chains, Last, Heights
<1>2. PICK c : c = Content[Len(h)][Last(h)]
  OBVIOUS
<1>3. c \in Seq(Events) /\ Distinct(c)
  BY <1>1, <1>2, ConstantsTyped DEF LogsOnce
<1>4. PICK S : S = {e \in Events : \A n \in 1..Len(h) - 1 : e \notin Range(Content[n][h[n]])}
  OBVIOUS
<1> QED
  BY <1>2, <1>3, <1>4, KeepOrder DEF EventsAt

\* Event e of block g is emitted before event f of block h.
Sooner(e, g, f, h) ==
  \/ Len(g) < Len(h)
  \/ g = h /\ \E i, j \in DOMAIN EventsAt(g) : i < j /\ EventsAt(g)[i] = e /\ EventsAt(g)[j] = f

LEMMA PrecedesIs ==
  ASSUME NEW e, NEW f
  PROVE  Precedes(e, f) <=> Sooner(e, row[e].block, f, row[f].block)
BY DEF Precedes, Sooner

\* Of two events of one chain one is sooner, and not the other.
LEMMA SoonerTotal ==
  ASSUME NEW t \in Chains, NEW g \in Chains, NEW h \in Chains, IsPrefix(g, t), IsPrefix(h, t),
         Len(g) \in Heights, Len(h) \in Heights,
         NEW e, NEW f, e # f, e \in Range(EventsAt(g)), f \in Range(EventsAt(h))
  PROVE  Sooner(e, g, f, h) \/ Sooner(f, h, e, g)
<1>1. Len(g) \in Nat /\ Len(h) \in Nat
  BY DEF Heights
<1>2. CASE Len(g) = Len(h)
  <2>1. IsPrefix(g, h)
    BY <1>1, <1>2, ShorterPrefix
  <2>2. g = h
    BY <1>2, <2>1, SamePrefix
  <2>3. PICK logs : logs = EventsAt(g)
    OBVIOUS
  <2>4. logs \in Seq(Events)
    BY <2>3, EventsTyped
  <2>5. PICK i \in DOMAIN logs, j \in DOMAIN logs : logs[i] = e /\ logs[j] = f
    BY <2>2, <2>3 DEF Range
  <2>6. i \in Nat /\ j \in Nat /\ i # j
    BY <2>4, <2>5
  <2>7. i < j \/ j < i
    BY <2>6
  <2> QED
    BY <2>2, <2>3, <2>5, <2>7 DEF Sooner
<1> QED
  BY <1>1, <1>2 DEF Sooner

LEMMA SoonerOnce ==
  ASSUME LogsOnce, NEW g \in Chains, NEW h \in Chains, Len(g) \in Heights, Len(h) \in Heights,
         NEW e, NEW f, Sooner(e, g, f, h)
  PROVE  ~Sooner(f, h, e, g)
<1>1. SUFFICES ASSUME Sooner(f, h, e, g) PROVE FALSE
  OBVIOUS
<1>2. Len(g) \in Nat /\ Len(h) \in Nat
  BY DEF Heights
<1>3. g = h
  BY <1>1, <1>2 DEF Sooner
<1>4. PICK logs : logs = EventsAt(g)
  OBVIOUS
<1>5. logs \in Seq(Events) /\ Distinct(logs)
  BY <1>4, EventsTyped, EventsDistinct
<1>6. PICK i \in DOMAIN logs, j \in DOMAIN logs : i < j /\ logs[i] = e /\ logs[j] = f
  BY <1>2, <1>3, <1>4 DEF Sooner
<1>7. PICK k \in DOMAIN logs, l \in DOMAIN logs : k < l /\ logs[k] = f /\ logs[l] = e
  BY <1>1, <1>2, <1>3, <1>4 DEF Sooner
<1>8. k = j /\ l = i
  BY <1>5, <1>6, <1>7 DEF Distinct
<1>9. i \in Nat /\ j \in Nat
  BY <1>5
<1> QED
  BY <1>6, <1>7, <1>8, <1>9

\* Position b of the concatenation stems from position i of part n, and the parts
\* before and the positions before that one are before b.
PartOf(l, ss, n, i, b) ==
  /\ ss[n][i] = l[b]
  /\ \A m \in 1..n - 1 : \A j \in DOMAIN ss[m] : \E a \in 1..b - 1 : l[a] = ss[m][j]
  /\ \A j \in 1..i - 1 : \E a \in 1..b - 1 : l[a] = ss[n][j]

\* The concatenation keeps the order of the parts and of what is in them.
LEMMA FlatOrder ==
  ASSUME NEW A, NEW ss \in Seq(Seq(A)), Len(ss) > 0
  PROVE  \A b \in DOMAIN FlattenSeq(ss) : \E n \in DOMAIN ss : \E i \in DOMAIN ss[n] :
           PartOf(FlattenSeq(ss), ss, n, i, b)
<1>1. PICK k : FlatUpto(k, ss, Len(ss)) /\ FlattenSeq(ss) = k[Len(ss)]
  BY FlatBy
<1> DEFINE Here(n) == \A m \in 1..n : \A j \in DOMAIN ss[m] : \E a \in 1..Len(k[n]) : k[n][a] = ss[m][j]
           Order(n) == \A b \in 1..Len(k[n]) : \E m \in 1..n : \E i \in DOMAIN ss[m] : PartOf(k[n], ss, m, i, b)
           Good(n) == k[n] \in Seq(A) /\ Here(n) /\ Order(n)
           Bad == {n \in 1..Len(ss) : ~Good(n)}
<1>2. /\ k[1] = ss[1]
      /\ \A n \in 2..Len(ss) : k[n] = k[n - 1] \o ss[n]
  <2>1. k = [i \in 1..Len(ss) |-> IF i = 1 THEN ss[i] ELSE k[i - 1] \o ss[i]]
    BY <1>1 DEF FlatUpto
  <2>2. \A i \in 1..Len(ss) : k[i] = IF i = 1 THEN ss[i] ELSE k[i - 1] \o ss[i]
    BY <2>1
  <2>3. Len(ss) \in Nat /\ 1 \in 1..Len(ss) /\ \A n \in 2..Len(ss) : n \in 1..Len(ss) /\ n # 1
    OBVIOUS
  <2> QED
    BY <2>2, <2>3
<1>3. Good(1)
  <2>1. PICK s : s = ss[1]
    OBVIOUS
  <2>2. s \in Seq(A) /\ DOMAIN s = 1..Len(s) /\ Len(s) \in Nat
    BY <2>1
  <2>3. \A m \in 1..1 : m = 1
    OBVIOUS
  <2>4. Here(1)
    BY <1>2, <2>1, <2>2, <2>3
  <2>5. Order(1)
    <3>1. ASSUME NEW b \in 1..Len(s) PROVE PartOf(s, ss, 1, b, b)
      <4>1. 1..1 - 1 = {} /\ \A j \in 1..b - 1 : j \in 1..b - 1
        OBVIOUS
      <4> QED
        BY <2>1, <4>1 DEF PartOf
    <3>2. 1 \in 1..1
      OBVIOUS
    <3> QED
      BY <1>2, <2>1, <2>2, <3>1, <3>2
  <2> QED
    BY <1>2, <2>1, <2>2, <2>4, <2>5
<1>4. ASSUME NEW n \in 2..Len(ss), Good(n - 1) PROVE Good(n)
  <2>1. PICK l, l2, s, c : l = k[n - 1] /\ l2 = k[n] /\ s = ss[n] /\ c = Len(l)
    OBVIOUS
  <2>2. l \in Seq(A) /\ s \in Seq(A) /\ l2 = l \o s
    <3>1. ss[n] \in Seq(A)
      <4>1. n \in 1..Len(ss)
        OBVIOUS
      <4> QED
        BY <4>1
    <3>2. k[n] = k[n - 1] \o ss[n]
      BY <1>2
    <3>3. k[n - 1] \in Seq(A)
      BY <1>4
    <3> HIDE DEF Good
    <3> QED
      BY <2>1, <3>1, <3>2, <3>3
  <2>3. l2 \in Seq(A)
    BY <2>2
  <2>4. /\ c \in Nat /\ Len(s) \in Nat /\ DOMAIN l = 1..c /\ DOMAIN s = 1..Len(s)
        /\ Len(l2) = c + Len(s)
        /\ \A i \in 1..c : l2[i] = l[i]
        /\ \A i \in 1..Len(s) : l2[c + i] = s[i]
    <3>1. /\ Len(l) \in Nat /\ Len(s) \in Nat /\ DOMAIN l = 1..Len(l) /\ DOMAIN s = 1..Len(s)
          /\ Len(l2) = Len(l) + Len(s)
          /\ \A i \in 1..Len(l) : l2[i] = l[i]
          /\ \A i \in 1..Len(s) : l2[Len(l) + i] = s[i]
      BY <2>2
    <3> QED
      BY <2>1, <3>1
  <2>5. /\ \A m \in 1..n - 1 : \A j \in DOMAIN ss[m] : \E a \in 1..c : l[a] = ss[m][j]
        /\ \A b \in 1..c : \E m \in 1..n - 1 : \E i \in DOMAIN ss[m] : PartOf(l, ss, m, i, b)
    BY <1>4, <2>1
  <2>6. n \in Nat /\ \A m : m \in 1..n <=> (m \in 1..(n - 1) \/ m = n)
    OBVIOUS
  <2> HIDE DEF Good
  <2>7. Here(n)
    <3>1. ASSUME NEW m \in 1..n, NEW j \in DOMAIN ss[m] PROVE \E a \in 1..c + Len(s) : l2[a] = ss[m][j]
      <4>1. CASE m = n
        <5>0. j \in 1..Len(s)
          BY <2>1, <2>4, <4>1
        <5>1. j \in 1..Len(s) /\ c + j \in 1..c + Len(s)
          BY <2>4, <5>0
        <5>2. l2[c + j] = ss[m][j]
          BY <2>1, <2>4, <4>1, <5>1
        <5> QED
          BY <5>1, <5>2
      <4>2. CASE m \in 1..n - 1
        <5>1. PICK a \in 1..c : l[a] = ss[m][j]
          BY <2>5, <4>2
        <5>2. a \in 1..c + Len(s)
          BY <2>4
        <5>3. l2[a] = ss[m][j]
          BY <2>4, <5>1
        <5> QED
          BY <5>2, <5>3
      <4> QED
        BY <2>6, <4>1, <4>2
    <3>2. \A m \in 1..n : \A j \in DOMAIN ss[m] : \E a \in 1..Len(l2) : l2[a] = ss[m][j]
      BY <2>4, <3>1
    <3> QED
      BY <2>1, <3>2
  <2>8. Order(n)
    <3>1. ASSUME NEW b \in 1..c + Len(s) PROVE \E m \in 1..n : \E i \in DOMAIN ss[m] : PartOf(l2, ss, m, i, b)
      <4>1. CASE b \in 1..c
        <5>1. PICK m \in 1..n - 1 : \E i \in DOMAIN ss[m] : PartOf(l, ss, m, i, b)
          BY <2>5, <4>1
        <5>0. PICK i \in DOMAIN ss[m] : PartOf(l, ss, m, i, b)
          BY <5>1
        <5>2. \A a \in 1..b - 1 : l2[a] = l[a]
          <6>1. \A a \in 1..b - 1 : a \in 1..c
            BY <2>4, <4>1
          <6> QED
            BY <2>4, <6>1
        <5>3. l2[b] = l[b]
          BY <2>4, <4>1
        <5>4. PartOf(l2, ss, m, i, b)
          BY <5>0, <5>2, <5>3 DEF PartOf
        <5>5. m \in 1..n
          BY <2>6
        <5> QED
          BY <5>4, <5>5
      <4>2. CASE b \notin 1..c
        <5>1. PICK i : i = b - c
          OBVIOUS
        <5>2. i \in 1..Len(s) /\ c + i = b
          BY <2>4, <4>2, <5>1
        <5>3. ss[n][i] = l2[b]
          BY <2>1, <2>4, <5>2
        <5>4. ASSUME NEW m \in 1..n - 1, NEW j \in DOMAIN ss[m] PROVE \E a \in 1..b - 1 : l2[a] = ss[m][j]
          <6>1. PICK a \in 1..c : l[a] = ss[m][j]
            BY <2>5
          <6>2. a \in 1..b - 1
            BY <2>4, <5>2
          <6>3. l2[a] = ss[m][j]
            BY <2>4, <6>1
          <6> QED
            BY <6>2, <6>3
        <5>5. ASSUME NEW j \in 1..i - 1 PROVE \E a \in 1..b - 1 : l2[a] = ss[n][j]
          <6>1. j \in 1..Len(s) /\ c + j \in 1..b - 1
            BY <2>4, <5>2
          <6>2. l2[c + j] = ss[n][j]
            BY <2>1, <2>4, <6>1
          <6> QED
            BY <6>1, <6>2
        <5>6. PartOf(l2, ss, n, i, b)
          BY <5>3, <5>4, <5>5 DEF PartOf
        <5>7. n \in 1..n /\ i \in DOMAIN ss[n]
          BY <2>1, <2>4, <2>6, <5>2
        <5> QED
          BY <5>6, <5>7
      <4> QED
        BY <4>1, <4>2
    <3> QED
      BY <2>1, <2>4, <3>1
  <2> QED
    BY <2>1, <2>3, <2>7, <2>8 DEF Good
<1>5. Bad = {}
  <2> SUFFICES ASSUME Bad # {} PROVE FALSE
    OBVIOUS
  <2>1. PICK n \in Bad : \A m \in Bad : n <= m
    <3>1. Bad \subseteq Nat
      OBVIOUS
    <3> HIDE DEF Bad
    <3> QED
      BY <3>1, LeastOne
  <2> HIDE DEF Good
  <2>2. n # 1 /\ n \in 2..Len(ss) /\ n - 1 \in 1..Len(ss)
    BY <1>3, <2>1
  <2>3. n - 1 \notin Bad
    BY <2>1, <2>2
  <2> QED
    BY <1>4, <2>1, <2>2, <2>3
<1>6. PICK o : o = FlattenSeq(ss)
  OBVIOUS
<1>7. /\ o \in Seq(A)
      /\ \A b \in 1..Len(o) : \E m \in 1..Len(ss) : \E i \in DOMAIN ss[m] : PartOf(o, ss, m, i, b)
  <2>1. Good(Len(ss))
    <3> HIDE DEF Good
    <3>1. Len(ss) \in 1..Len(ss)
      OBVIOUS
    <3> QED
      BY <1>5, <3>1
  <2> QED
    BY <1>1, <1>6, <2>1
<1>8. DOMAIN ss = 1..Len(ss) /\ DOMAIN o = 1..Len(o)
  BY <1>7
<1> QED
  BY <1>6, <1>7, <1>8

LEMMA KeptSooner ==
  ASSUME NEW A, NEW s \in Seq(A), NEW S, Distinct(s), NEW o, o = Keep(s, S), NEW i \in DOMAIN o,
         NEW x \in S, NEW k \in DOMAIN s, NEW l \in DOMAIN s, k < l, s[k] = x, s[l] = o[i]
  PROVE  \E a \in 1..i - 1 : o[a] = x
<1>1. PICK j \in DOMAIN s : StemsFrom(o, s, S, j, i)
  BY KeepOrder
<1>2. j = l
  BY <1>1 DEF StemsFrom, Distinct
<1>3. k \in 1..j - 1
  BY <1>2
<1> QED
  BY <1>1, <1>3 DEF StemsFrom

\* Filtered or not, the logs of a block are in the order they were emitted.
LEMMA AnswerOrder ==
  ASSUME ChainInv, LogsOnce, NEW n \in 1..Len(chain), NEW g, g = Upto(chain, n), NEW S, NEW o,
         o = Keep(Answer(n), S), NEW i \in DOMAIN o, NEW e \in S, e \in Range(Answer(n)),
         Sooner(e, g, o[i], g)
  PROVE  \E a \in 1..i - 1 : o[a] = e
<1>1. g \in Chains /\ Len(g) = n /\ n \in Heights
  <2>1. chain \in Chains /\ Len(chain) \in Nat /\ Len(chain) <= MaxHeight /\ MaxHeight \in Nat
    BY AtChain, ConstantsTyped
  <2>2. n \in 0..Len(chain)
    BY <2>1
  <2>3. n \in 1..MaxHeight
    BY <2>1
  <2> QED
    BY <2>1, <2>2, <2>3, UptoIs DEF Heights
<1>2. PICK logs, T : /\ logs = EventsAt(g)
                     /\ T = IF request.kind = "pairs" THEN Created
                            ELSE {x \in Events \ Created : PairOf[x] \in Concerned}
  OBVIOUS
<1>3. logs \in Seq(Events) /\ Distinct(logs)
  BY <1>1, <1>2, EventsTyped, EventsDistinct
<1>4. PICK answer : answer = Answer(n)
  OBVIOUS
<1>5. answer = Keep(logs, T)
  BY <1>2, <1>4 DEF Answer
<1>6. answer \in Seq(Events) /\ Distinct(answer)
  BY <1>3, <1>5, KeepIs, KeepOrder
<1>7. e \in T
  <2>1. \E k \in DOMAIN answer : answer[k] = e
    BY <1>4 DEF Range
  <2> QED
    BY <1>3, <1>5, <2>1, KeepIs
<1>8. PICK j \in DOMAIN answer : answer[j] = o[i]
  <2>1. PICK j \in DOMAIN answer : StemsFrom(o, answer, S, j, i)
    BY <1>4, <1>6, KeepOrder
  <2> QED
    BY <2>1 DEF StemsFrom
<1>9. PICK k \in DOMAIN logs, l \in DOMAIN logs : k < l /\ logs[k] = e /\ logs[l] = o[i]
  <2>1. Len(g) \in Nat
    BY <1>1
  <2> QED
    BY <1>2, <2>1 DEF Sooner
<1>10. PICK a \in 1..j - 1 : answer[a] = e
  BY <1>3, <1>5, <1>7, <1>8, <1>9, KeptSooner
<1>11. a \in DOMAIN answer /\ a < j
  BY <1>6, <1>8, <1>10
<1> QED
  BY <1>4, <1>6, <1>8, <1>10, <1>11, KeptSooner

\* The logs of a chunk are in the order of the chain.
LEMMA TodoOrder ==
  ASSUME ChainInv, LogsOnce, request.pc = "chunk", request.from <= request.head, NEW b \in DOMAIN Todo
  PROVE  \E n \in request.from..Until :
           /\ Todo[b].block = Upto(request.scan, n)
           /\ Todo[b].event \in Range(EventsAt(Upto(chain, n))) /\ Relevant(Todo[b].event, n)
           /\ \A m \in request.from..n : \A e \in Range(EventsAt(Upto(chain, m))) :
                Relevant(e, m) /\ (m < n \/ Sooner(e, Upto(chain, n), Todo[b].event, Upto(chain, n))) =>
                  \E a \in 1..b - 1 : Todo[a].event = e
<1>1. /\ request.scan = Tip /\ Len(Tip) = request.head /\ request.head \in Nat
      /\ request.head <= Len(chain) /\ request.from \in Nat /\ request.from >= 1
  BY AtRequest, AtChain
<1>2. PICK t, first, until : t = Tip /\ first = request.from /\ until = Until
  OBVIOUS
<1>3. /\ t \in Chains /\ Len(t) = request.head /\ first \in Nat /\ first >= 1
      /\ until \in Nat /\ first <= until /\ until <= Len(t)
  <2>1. until \in Int /\ until <= request.head /\ first <= until
    BY <1>1, <1>2, UntilIs
  <2> QED
    BY <1>1, <1>2, <2>1, AtChain
<1> DEFINE of(n) == Keep(Answer(n), IF request.kind = "pairs" THEN Events
                                ELSE {e \in Events : PairOf[e] \in Concerned
                                                      /\ request.targets[PairOf[e]] <= n})
           placed(n) == [i \in DOMAIN of(n) |-> [event |-> of(n)[i], block |-> Upto(request.scan, n)]]
           ss == [i \in 1..(Until - request.from + 1) |-> placed(request.from + i - 1)]
           Here(n, e) == e \in Range(EventsAt(Upto(chain, n))) /\ Relevant(e, n)
           Part(n) == /\ placed(n) \in Seq(LogRecord)
                      /\ \A i \in DOMAIN placed(n) :
                           placed(n)[i].block = Upto(request.scan, n) /\ Here(n, placed(n)[i].event)
                      /\ \A e : Here(n, e) => \E i \in DOMAIN placed(n) : placed(n)[i].event = e
                      /\ \A i \in DOMAIN placed(n) : \A e :
                           Here(n, e) /\ Sooner(e, Upto(chain, n), placed(n)[i].event, Upto(chain, n)) =>
                             \E a \in 1..i - 1 : placed(n)[a].event = e
<1>4. ASSUME NEW n \in first..until PROVE Part(n)
  <2>1. n \in 1..Len(chain) /\ n \in 0..Len(t)
    BY <1>1, <1>3
  <2>2. PICK answer, S : /\ answer = Answer(n)
                         /\ S = IF request.kind = "pairs" THEN Events
                                ELSE {e \in Events : PairOf[e] \in Concerned
                                                      /\ request.targets[PairOf[e]] <= n}
    OBVIOUS
  <2>3. answer \in Seq(Events)
    BY <2>1, <2>2, AnswerTyped
  <2>4. PICK o, block, g, here : /\ o = Keep(answer, S) /\ block = Upto(t, n) /\ g = Upto(chain, n)
                                 /\ here = Range(EventsAt(g))
    OBVIOUS
  <2>5. o \in Seq(Events) /\ of(n) = o
    BY <2>2, <2>3, <2>4, KeepIs
  <2>6. ASSUME NEW e PROVE /\ (\E i \in DOMAIN o : o[i] = e) <=> Here(n, e)
                           /\ Here(n, e) => e \in S /\ e \in Range(answer)
    <3>1. (\E i \in DOMAIN o : o[i] = e) <=> e \in S /\ \E i \in DOMAIN answer : answer[i] = e
      BY <2>3, <2>4, KeepIs
    <3>2. (\E i \in DOMAIN answer : answer[i] = e) <=>
            /\ e \in here
            /\ IF request.kind = "pairs" THEN e \in Created
               ELSE e \notin Created /\ PairOf[e] \in Concerned
      BY <2>1, <2>2, <2>4, AnswerIs
    <3>3. (\E i \in DOMAIN answer : answer[i] = e) => e \in Events
      BY <2>3
    <3>4. e \in S <=> e \in Events /\ (request.kind = "pairs" \/ (PairOf[e] \in Concerned
                                                      /\ request.targets[PairOf[e]] <= n))
      BY <2>2
    <3>5. e \in Range(answer) <=> \E i \in DOMAIN answer : answer[i] = e
      BY DEF Range
    <3>6. Here(n, e) <=> e \in here /\ Relevant(e, n)
      BY <2>4
    <3> HIDE DEF Here
    <3> QED
      BY <3>1, <3>2, <3>3, <3>4, <3>5, <3>6 DEF Relevant
  <2>7. block \in Chains
    BY <1>3, <2>1, <2>4, UptoIs
  <2> HIDE DEF of, Here
  <2>8. placed(n) = [i \in DOMAIN o |-> [event |-> o[i], block |-> block]]
    BY <1>1, <1>2, <2>4, <2>5
  <2>9. DOMAIN o = 1..Len(o) /\ Len(o) \in Nat /\ \A i \in 1..Len(o) : o[i] \in Events
    BY <2>5
  <2>10. PICK pl : pl = placed(n)
    OBVIOUS
  <2>11. /\ DOMAIN pl = DOMAIN o
         /\ \A i \in DOMAIN o : pl[i] = [event |-> o[i], block |-> block]
    BY <2>8, <2>10
  <2>12. \A i \in DOMAIN o : pl[i].event = o[i] /\ pl[i].block = block
    BY <2>11
  <2>13. pl \in Seq(LogRecord)
    <3>1. \A i \in 1..Len(o) : [event |-> o[i], block |-> block] \in LogRecord
      BY <2>7, <2>9 DEF LogRecord
    <3>2. pl = [i \in DOMAIN o |-> [event |-> o[i], block |-> block]]
      BY <2>8, <2>10
    <3> HIDE DEF placed
    <3> QED
      BY <2>9, <3>1, <3>2
  <2>14. ASSUME NEW i \in DOMAIN pl, NEW e, Here(n, e), Sooner(e, g, pl[i].event, g)
         PROVE  \E a \in 1..i - 1 : pl[a].event = e
    <3>1. i \in DOMAIN o /\ Sooner(e, g, o[i], g)
      BY <2>11, <2>12, <2>14
    <3>2. e \in S /\ e \in Range(answer)
      BY <2>6, <2>14
    <3>3. o = Keep(Answer(n), S) /\ e \in Range(Answer(n))
      BY <2>2, <2>4, <3>2
    <3>4. PICK a \in 1..i - 1 : o[a] = e
      BY <2>1, <2>4, <3>1, <3>2, <3>3, AnswerOrder
    <3>5. a \in DOMAIN o
      BY <2>9, <3>1, <3>4
    <3> QED
      BY <2>12, <3>4, <3>5
  <2>15. /\ \A i \in DOMAIN pl : pl[i].block = block /\ Here(n, pl[i].event)
         /\ \A e : Here(n, e) => \E i \in DOMAIN pl : pl[i].event = e
    <3>1. \A e : (\E i \in DOMAIN o : o[i] = e) <=> Here(n, e)
      BY <2>6
    <3> QED
      BY <2>11, <2>12, <3>1
  <2>16. block = Upto(request.scan, n)
    BY <1>1, <1>2, <2>4
  <2> HIDE DEF placed
  <2> QED
    BY <2>4, <2>10, <2>13, <2>14, <2>15, <2>16
<1> HIDE DEF placed, of, Here
<1>5. ss = [i \in 1..(until - first + 1) |-> placed(first + i - 1)]
  BY <1>2
<1>6. PICK c : c = until - first + 1
  OBVIOUS
<1>7. /\ c \in Nat /\ c > 0
      /\ \A i \in 1..c : first + i - 1 \in first..until
      /\ \A n \in first..until : n - first + 1 \in 1..c /\ first + (n - first + 1) - 1 = n
  BY <1>3, <1>6
<1>8. PICK y : y = ss
  OBVIOUS
<1>9. Todo = FlattenSeq(y)
  BY <1>8 DEF Todo, placed, of
<1>10. y = [i \in 1..c |-> placed(first + i - 1)]
  BY <1>5, <1>6, <1>8
<1> HIDE DEF ss
<1>11. PICK A : A = LogRecord
  OBVIOUS
<1>12. y \in Seq(Seq(A)) /\ Len(y) > 0
  <2>1. \A i \in 1..c : placed(first + i - 1) \in Seq(A)
    BY <1>4, <1>7, <1>11
  <2>2. PICK B : B = Seq(A)
    OBVIOUS
  <2>3. y \in [1..c -> B]
    BY <1>10, <2>1, <2>2
  <2>4. y \in Seq(B) /\ Len(y) = c
    BY <1>7, <2>3
  <2> QED
    BY <1>7, <2>2, <2>4
<1>13. DOMAIN y = 1..c /\ \A k \in 1..c : y[k] = placed(first + k - 1)
  BY <1>10
<1>14. PICK todo : todo = FlattenSeq(y)
  OBVIOUS
<1>15. PICK k \in DOMAIN y : \E i \in DOMAIN y[k] : PartOf(todo, y, k, i, b)
  BY <1>9, <1>12, <1>14, FlatOrder
<1>16. PICK i \in DOMAIN y[k] : PartOf(todo, y, k, i, b)
  BY <1>15
<1>17. PICK n : n = first + k - 1
  OBVIOUS
<1>18. n \in first..until /\ y[k] = placed(n) /\ todo[b] = y[k][i]
  BY <1>7, <1>13, <1>15, <1>16, <1>17 DEF PartOf
<1>19. todo[b].block = Upto(request.scan, n) /\ Here(n, todo[b].event)
  <2>1. Part(n)
    BY <1>4, <1>18
  <2> QED
    BY <1>16, <1>18, <2>1
<1>20. ASSUME NEW m \in first..n, NEW e, Here(m, e),
              m < n \/ Sooner(e, Upto(chain, n), todo[b].event, Upto(chain, n))
       PROVE  \E a \in 1..b - 1 : todo[a].event = e
  <2>1. m \in first..until
    BY <1>3, <1>18
  <2>2. Part(m) /\ Part(n)
    BY <1>4, <1>18, <2>1
  <2>3. CASE m < n
    <3>1. PICK l : l = m - first + 1
      OBVIOUS
    <3>2. l \in 1..k - 1 /\ y[l] = placed(m)
      <4>1. first \in Nat /\ m \in Nat /\ k \in Nat
        BY <1>3, <1>13, <2>1
      <4>2. l \in 1..k - 1 /\ l \in 1..c /\ first + l - 1 = m
        BY <1>3, <1>7, <1>17, <2>1, <2>3, <3>1, <4>1
      <4> QED
        BY <1>13, <4>2
    <3>3. PICK j \in DOMAIN y[l] : y[l][j].event = e
      BY <1>20, <2>2, <3>2
    <3>4. PICK a \in 1..b - 1 : todo[a] = y[l][j]
      BY <1>16, <3>2, <3>3 DEF PartOf
    <3> QED
      BY <3>3, <3>4
  <2>4. CASE m = n
    <3>1. n \in Int
      BY <1>18
    <3>2. Sooner(e, Upto(chain, n), todo[b].event, Upto(chain, n))
      BY <1>20, <2>4, <3>1
    <3>3. PICK j \in 1..i - 1 : y[k][j].event = e
      BY <1>16, <1>18, <1>20, <2>2, <2>4, <3>2
    <3>4. PICK a \in 1..b - 1 : todo[a] = y[k][j]
      BY <1>16, <3>3 DEF PartOf
    <3> QED
      BY <3>3, <3>4
  <2>5. m < n \/ m = n
    BY <1>18
  <2> QED
    BY <2>3, <2>4, <2>5
<1>21. todo = Todo /\ first = request.from /\ until = Until
  BY <1>2, <1>9, <1>14
<1> QED
  BY <1>18, <1>19, <1>20, <1>21 DEF Here

------------------------------------------------------------------------------
(* A followed session is the image of the canonical swaps of its pair.       *)

Buys == Events \ Created

\* Event e is in block g of the stored chain.
InStore(e, g) ==
  g \in Chains /\ Len(g) \in Heights /\ IsPrefix(g, Tip) /\ Len(g) > 1 /\ e \in Range(EventsAt(g))

\* The pair is created in block g or below.
HasCreation(p, g) ==
  \E n \in 1..Len(g), c \in Created : PairOf[c] = p /\ c \in Range(EventsAt(Upto(g, n)))

\* The chain of the node has no swap of a pair before its creation (a pair cannot
\* trade before the factory has made it).
CreatedFirst ==
  \A n \in 1..Len(chain) : \A e \in Range(EventsAt(Upto(chain, n))) \ Created :
    HasCreation(PairOf[e], Upto(chain, n))

\* What has been handled, or will be, is of a pair that was created below.
CreationSound ==
  /\ \A e \in Buys : row[e].canonical => HasCreation(PairOf[e], row[e].block)
  /\ request.pc = "logs" => \A i \in DOMAIN request.todo : request.todo[i].event \in Buys =>
       HasCreation(PairOf[request.todo[i].event], request.todo[i].block)

\* On the stored chain e comes before event f of block h, of the same pair.
Ahead(e, f, h) == PairOf[e] = PairOf[f] /\ \E g \in Chains : InStore(e, g) /\ Sooner(e, g, f, h)

\* The swaps of a pair are handled in the order of the chain, one after the other.
InOrder == \A e \in Buys, f \in Buys : row[f].canonical /\ Ahead(e, f, row[f].block) => row[e].canonical
TodoInOrder ==
  request.pc = "logs" /\ request.kind = "swaps" =>
    \A i \in DOMAIN request.todo : \A e \in Buys : Ahead(e, request.todo[i].event, request.todo[i].block) =>
      row[e].canonical \/ \E j \in 1..i - 1 : request.todo[j].event = e

\* The swaps a session has seen, the entry before those it has counted.
Image(s) == ({s.entry} \ {0}) \cup s.counted
Shape(s) ==
  /\ s.entry = 0 => s.counted = {}
  /\ s.status = "WAITING_FIRST_BUY" => s.entry = 0
  /\ s.status = "HOLDING" => s.entry # 0
  /\ \A f \in s.counted : Precedes(s.entry, f)
Counts(p) == {e \in BuysOf(p) : row[e].canonical}
Followed(p, s) == Monitorable(s) => Shape(s) /\ Image(s) = Counts(p)

\* The snapshot that was saved with a swap is the image of the swaps before it.
SnapOf(e) ==
  row[e].canonical /\ Monitorable(row[e].before) =>
    /\ Shape(row[e].before)
    /\ Image(row[e].before) = {f \in Counts(PairOf[e]) : Precedes(f, e)}
Snapshots == \A e \in Buys : SnapOf(e)

\* A session is the image of the canonical swaps, but where a handler has failed;
\* between a rollback and its projection the snapshot is.
FollowOf(p) ==
  IF request.pc = "project" /\ p \in DOMAIN Affected
  THEN ~Affected[p].wallet /\ ~Affected[p].discovery => Followed(p, Affected[p].before)
  ELSE Followed(p, session[p]) /\ (~Stored(session[p]) => Counts(p) = {})
FollowSound == ~Stuck => \A p \in Pairs : FollowOf(p)

ImageInv == CreationSound /\ InOrder /\ TodoInOrder /\ Snapshots /\ FollowSound

LEMMA InStoreOnce ==
  ASSUME ChainInv, NEW e, NEW g, NEW h, InStore(e, g), InStore(e, h)
  PROVE  g = h
<1>1. PICK t : t = Tip
  OBVIOUS
<1>2. t \in Chains /\ Len(t) <= MaxHeight
  <2>1. Len(t) \in Nat /\ Len(t) <= Len(chain) /\ Len(chain) \in Nat /\ Len(chain) <= MaxHeight
        /\ MaxHeight \in Nat
    BY <1>1, AtChain, ConstantsTyped
  <2> QED
    BY <1>1, <2>1, AtChain
<1>3. /\ g \in Chains /\ h \in Chains /\ IsPrefix(g, t) /\ IsPrefix(h, t)
      /\ Len(g) \in Heights /\ Len(h) \in Heights
      /\ e \in Range(EventsAt(g)) /\ e \in Range(EventsAt(h))
  BY <1>1 DEF InStore
<1>4. Len(g) >= 1 /\ Len(h) >= 1
  BY <1>3 DEF Heights
<1> QED
  BY <1>2, <1>3, <1>4, SameBlock

LEMMA InStoreOrder ==
  ASSUME ChainInv, NEW e, NEW f, NEW g, NEW h, e # f, InStore(e, g), InStore(f, h)
  PROVE  Sooner(e, g, f, h) \/ Sooner(f, h, e, g)
<1>1. PICK t : t = Tip
  OBVIOUS
<1>2. t \in Chains
  BY <1>1, AtChain
<1> QED
  BY <1>1, <1>2, SoonerTotal DEF InStore

LEMMA RowInStore ==
  ASSUME Ground, SkipInv, NEW e \in Events, row[e].canonical
  PROVE  InStore(e, row[e].block)
BY Placed DEF InStore

\* What is stored as high as the tip was is in its old place.
LEMMA StoreMoves ==
  ASSUME Ground, [Next]_vars, ~Restart, NEW e, NEW g, InStore(e, g)', Len(g) <= Len(Tip)
  PROVE  InStore(e, g)
<1>1. PICK t, u : t = Tip /\ u = Tip'
  OBVIOUS
<1>2. t \in Chains /\ u \in Chains /\ Len(t) \in Nat
  <2>1. t \in Chains /\ Len(t) \in Nat
    BY <1>1, AtChain DEF Ground
  <2>2. PersistJournal => request.scan \in Chains
    BY AtRequest DEF PersistJournal, Ground
  <2>3. Rewind => u \in Chains
    BY <1>1, RewindIs
  <2> QED
    BY <1>1, <2>1, <2>2, <2>3, TipMoves DEF Ground
<1>3. g \in Chains /\ Len(g) \in Heights /\ IsPrefix(g, u) /\ Len(g) > 1 /\ e \in Range(EventsAt(g))
  BY <1>1 DEF InStore
<1>4. IsPrefix(g, t)
  <2>1. CASE u = t
    BY <1>3, <2>1
  <2>2. CASE PersistJournal /\ u = request.scan
    <3>1. request.pc = "scan" /\ request.at > request.head /\ ScanSound(request, Tip) /\ Len(Tip) <= request.head
          /\ request.at \in Int /\ request.head \in Nat
      BY <2>2, AtRequest DEF PersistJournal, Ground
    <3>2. request.at > Len(t)
      BY <1>1, <1>2, <3>1
    <3>3. IsPrefix(t, u)
      BY <1>1, <2>2, <3>1, <3>2 DEF ScanSound
    <3> QED
      BY <1>1, <1>2, <1>3, <3>3, ShorterPrefix
  <2>3. CASE Rewind
    <3>1. IsPrefix(u, t)
      BY <1>1, <2>3, RewindIs
    <3> QED
      BY <1>2, <1>3, <3>1, PrefixThrough
  <2> QED
    BY <1>1, <2>1, <2>2, <2>3, TipMoves DEF Ground
<1> QED
  BY <1>1, <1>3, <1>4 DEF InStore

\* The logs to handle are in the stored chain.
LEMMA LogInStore ==
  ASSUME Ground, SkipInv, request.pc = "logs", NEW i \in DOMAIN request.todo
  PROVE  InStore(request.todo[i].event, request.todo[i].block)
<1>1. PICK x : x = request.todo[i]
  OBVIOUS
<1>2. LogSound(x)
  BY <1>1 DEF SkipInv, LogsSound
<1>3. PICK n \in request.from..Until : x.block = Upto(request.scan, n)
  BY <1>2 DEF LogSound
<1>4. /\ n \in Nat /\ n >= 2 /\ n <= Len(Tip) /\ x.block \in Chains /\ Len(x.block) = n
      /\ IsPrefix(x.block, Tip)
  BY <1>3, InChunk
<1>5. n \in Heights /\ n > 1
  <2>1. Len(Tip) \in Nat /\ Len(Tip) <= Len(chain) /\ Len(chain) \in Nat /\ Len(chain) <= MaxHeight
        /\ MaxHeight \in Nat
    BY AtChain, ConstantsTyped DEF Ground
  <2>2. n \in 1..MaxHeight /\ n > 1
    BY <1>4, <2>1
  <2> QED
    BY <2>2 DEF Heights
<1> QED
  BY <1>1, <1>2, <1>4, <1>5 DEF InStore, LogSound

\* A swap before one that is handled is canonical by then.
LEMMA InOrderNext ==
  ASSUME Ground, SkipInv, ImageInv, [Next]_vars, ~Restart
  PROVE  InOrder'
<1>1. SUFFICES ASSUME NEW e \in Buys, NEW f \in Buys, row'[f].canonical, PairOf[e] = PairOf[f],
                      NEW g \in Chains, InStore(e, g)', Sooner(e, g, f, row'[f].block)
               PROVE  row'[e].canonical
  BY DEF InOrder, Ahead
<1>2. e \in Events /\ f \in Events /\ e \notin Created /\ f \notin Created
  BY DEF Buys
<1>3. ASSUME NEW h \in Chains, InStore(f, h), h = row'[f].block PROVE InStore(e, g)
  <2>1. Len(g) \in Nat /\ Len(h) \in Nat /\ Len(Tip) \in Nat
    BY <1>1, <1>3, AtChain DEF InStore, Heights, Ground
  <2>2. Len(g) <= Len(h)
    BY <1>1, <1>3, <2>1 DEF Sooner
  <2>3. Len(h) <= Len(Tip)
    <3>1. PICK t : t = Tip
      OBVIOUS
    <3>2. t \in Chains /\ IsPrefix(h, t)
      BY <1>3, <3>1, AtChain DEF InStore, Ground
    <3>3. Len(h) <= Len(t)
      BY <3>2, PrefixIs
    <3> QED
      BY <3>1, <3>3
  <2>4. Len(g) <= Len(Tip)
    BY <2>1, <2>2, <2>3
  <2> QED
    BY <1>1, <2>4, StoreMoves
<1>4. ASSUME row[f].canonical, row'[f].block = row[f].block PROVE InStore(e, g) /\ row[e].canonical
  <2>1. InStore(f, row[f].block)
    BY <1>2, <1>4, RowInStore
  <2>2. InStore(e, g)
    BY <1>3, <1>4, <2>1 DEF InStore
  <2>3. Ahead(e, f, row[f].block)
    BY <1>1, <1>4, <2>2 DEF Ahead
  <2> QED
    BY <1>4, <2>2, <2>3 DEF ImageInv, InOrder
<1>5. CASE row' = row
  BY <1>1, <1>4, <1>5
<1>6. CASE (AdmitPair \/ HandleSwap) /\ row' = [row EXCEPT ![Log.event] = Processed]
  <2>1. /\ DOMAIN row = Events /\ request.pc = "logs" /\ request.todo # <<>>
        /\ request.kind = IF AdmitPair THEN "pairs" ELSE "swaps"
    BY <1>6, AtStore, Zenon DEF Ground, AdmitPair, HandleSwap
  <2>2. SUFFICES row[e].canonical
    BY <1>2, <1>6, <2>1, ProcessedIs
  <2>3. CASE f # Log.event
    <3>1. row'[f] = row[f]
      BY <1>2, <1>6, <2>1, <2>3
    <3> QED
      BY <1>1, <1>4, <3>1
  <2>4. CASE f = Log.event
    <3>1. Log = request.todo[1] /\ (request.kind = "pairs" => Log.event \in Created)
      BY <2>1, AtLog DEF SkipInv
    <3>2. 1 \in DOMAIN request.todo
      BY <2>1, AtRequest DEF RequestRecord, Ground
    <3>3. row'[f].block = Log.block
      BY <1>2, <1>6, <2>1, <2>4, ProcessedIs
    <3>4. InStore(f, Log.block)
      BY <2>1, <2>4, <3>1, <3>2, LogInStore
    <3>5. InStore(e, g)
      BY <1>3, <3>3, <3>4 DEF InStore
    <3>6. Ahead(e, Log.event, Log.block)
      BY <1>1, <2>4, <3>3, <3>5 DEF Ahead
    <3>7. request.kind = "swaps"
      BY <1>2, <2>1, <2>4, <3>1
    <3>8. row[e].canonical \/ \E j \in 1..1 - 1 : request.todo[j].event = e
      BY <2>1, <3>1, <3>2, <3>6, <3>7 DEF ImageInv, TodoInOrder
    <3> QED
      BY <3>8
  <2> QED
    BY <2>3, <2>4
<1>7. CASE Rewind /\ row' = [x \in Events |-> RewoundRow(x)]
  <2>1. /\ row'[f].block = row[f].block
        /\ row[f].canonical /\ Len(row[f].block) <= Len(request.scan)
    BY <1>1, <1>2, <1>7, RewoundRowIs DEF Ground
  <2>2. InStore(e, g) /\ row[e].canonical
    BY <1>4, <2>1
  <2>3. row[e].block = g
    <3>1. InStore(e, row[e].block)
      BY <1>2, <2>2, RowInStore
    <3> QED
      BY <2>2, <3>1, InStoreOnce DEF Ground
  <2>4. Len(g) <= Len(row[f].block)
    <3>1. Len(g) \in Nat
      BY <1>1 DEF InStore, Heights
    <3> QED
      BY <1>1, <2>1, <3>1 DEF Sooner
  <2>5. Len(row[e].block) <= Len(request.scan)
    <3>1. Len(g) \in Nat /\ Len(row[f].block) \in Nat /\ Len(request.scan) \in Nat
      BY <1>1, <1>2, <1>7, <2>1, Placed, RewindIs DEF InStore, Heights
    <3> QED
      BY <2>1, <2>3, <2>4, <3>1
  <2>6. RewoundRow(e).canonical
    BY <1>2, <2>2, <2>5, RewoundRowIs DEF Ground
  <2> QED
    BY <1>2, <1>7, <2>6
<1> QED
  BY <1>5, <1>6, <1>7, RowMoves


\* As a log is handled, the order of the others stays.
LEMMA TodoStaysOrdered ==
  ASSUME Ground, SkipInv, ImageInv, [Next]_vars, ~Restart, request.pc = "logs", request'.pc = "logs"
  PROVE  TodoInOrder'
<1>1. PICK todo, rest : todo = request.todo /\ rest = request'.todo
  OBVIOUS
<1>2. /\ request'.kind = request.kind
      /\ \/ rest = todo
         \/ (AdmitPair \/ HandleSwap) /\ todo # <<>> /\ rest = Tail(todo)
  BY <1>1, LogGoes DEF Ground
<1>3. todo \in Seq(LogRecord)
  BY <1>1, AtRequest DEF Ground, RequestRecord, LogRecord
<1>4. \/ rest = todo
      \/ /\ AdmitPair \/ HandleSwap
         /\ todo # <<>> /\ \A i \in DOMAIN rest : i + 1 \in DOMAIN todo /\ i \in Nat /\ rest[i] = todo[i + 1]
         /\ todo[1] = Log /\ \A j \in Nat \ {0, 1} : j \in DOMAIN todo => j - 1 \in DOMAIN rest /\ rest[j - 1] = todo[j]
  <2>1. ASSUME todo # <<>>, rest = Tail(todo)
        PROVE  /\ \A i \in DOMAIN rest : i + 1 \in DOMAIN todo /\ i \in Nat /\ rest[i] = todo[i + 1]
               /\ todo[1] = Log /\ \A j \in Nat \ {0, 1} : j \in DOMAIN todo => j - 1 \in DOMAIN rest /\ rest[j - 1] = todo[j]
    <3>1. Log = Head(todo)
      BY <1>1 DEF Log
    <3> QED
      BY <1>3, <2>1, <3>1
  <2> QED
    BY <1>2, <2>1
<1>5. SUFFICES ASSUME request.kind = "swaps", NEW i \in DOMAIN rest, NEW e \in Buys,
                      PairOf[e] = PairOf[rest[i].event],
                      NEW g \in Chains, InStore(e, g)', Sooner(e, g, rest[i].event, rest[i].block)
               PROVE  row'[e].canonical \/ \E j \in 1..i - 1 : rest[j].event = e
  BY <1>1, <1>2 DEF TodoInOrder, Ahead
<1>6. e \in Events /\ e \notin Created
  BY DEF Buys
<1>7. PICK k \in DOMAIN todo : todo[k] = rest[i] /\ (rest = todo => k = i) /\ (rest # todo => k = i + 1)
  BY <1>4
<1>8. InStore(e, g)
  <2>1. PICK h, t : h = todo[k].block /\ t = Tip
    OBVIOUS
  <2>2. InStore(todo[k].event, h)
    BY <1>1, <2>1, LogInStore
  <2>3. h \in Chains /\ t \in Chains /\ IsPrefix(h, t) /\ Len(h) \in Nat /\ Len(t) \in Nat /\ Len(g) \in Nat
    BY <1>5, <2>1, <2>2, AtChain DEF InStore, Heights, Ground
  <2>4. Len(h) <= Len(t) /\ Len(g) <= Len(h)
    BY <1>5, <1>7, <2>1, <2>3, PrefixIs DEF Sooner
  <2>5. Len(g) <= Len(Tip)
    BY <2>1, <2>3, <2>4
  <2> QED
    BY <1>5, <2>5, StoreMoves
<1>9. row[e].canonical \/ \E j \in 1..k - 1 : todo[j].event = e
  <2>1. Ahead(e, todo[k].event, todo[k].block)
    BY <1>5, <1>7, <1>8 DEF Ahead
  <2> QED
    BY <1>1, <1>5, <2>1 DEF ImageInv, TodoInOrder
<1>10. ASSUME row[e].canonical PROVE row'[e].canonical
  <2>1. ~Rewind /\ DOMAIN row = Events
    BY AtStore DEF Rewind, Ground
  <2> QED
    BY <1>6, <1>10, <2>1, RowMoves, ProcessedIs
<1>11. ASSUME NEW j \in 1..k - 1, todo[j].event = e
       PROVE  row'[e].canonical \/ \E l \in 1..i - 1 : rest[l].event = e
  <2>0. i \in Nat /\ k \in Nat /\ j \in Nat /\ j # 0 /\ j \in DOMAIN todo
    BY <1>3, <1>4, <1>7
  <2>1. CASE rest = todo
    BY <1>7, <1>11, <2>1
  <2>2. CASE rest # todo /\ j = 1
    <3>1. AdmitPair \/ HandleSwap
      BY <1>4, <2>2
    <3>2. e = Log.event
      BY <1>4, <1>11, <2>2
    <3>3. PICK b : b = Log.block
      OBVIOUS
    <3>4. Done(e, b)'
      BY <3>1, <3>2, <3>3, HandledIs
    <3> QED
      BY <1>6, <3>4 DEF Done
  <2>3. CASE rest # todo /\ j # 1
    <3>1. j - 1 \in DOMAIN rest /\ rest[j - 1] = todo[j]
      BY <1>4, <2>0, <2>3
    <3>2. j - 1 \in 1..i - 1
      BY <1>7, <1>11, <2>0, <2>3
    <3> QED
      BY <1>11, <3>1, <3>2
  <2> QED
    BY <2>1, <2>2, <2>3
<1> QED
  BY <1>9, <1>10, <1>11

\* A grouped pass reads a listener from no further than the block after its checkpoint.
LEMMA TargetIs ==
  ASSUME Ground, SkipInv, request.pc \in {"chunk", "logs"}, request.kind = "swaps", AllActive, NEW p \in Concerned
  PROVE  /\ p \in Pairs /\ request.targets[p] \in Nat /\ request.targets[p] >= request.from
         /\ request.targets[p] = 2 \/ request.targets[p] <= Len(checkpoint[p]) + 1
<1>1. p \in DOMAIN request.targets /\ p \in Pairs
  BY TargetsTyped DEF Concerned
<1>2. PICK k, c : k = request.targets[p] /\ c = checkpoint[p]
  OBVIOUS
<1>3. k \in Nat /\ c \in Chains /\ Len(c) \in Nat
  BY <1>1, <1>2, TargetsTyped, AtChain, ConstantsTyped DEF Ground
<1>4. k >= request.from
  BY <1>1, <1>2 DEF SkipInv, TargetsSound, Forward
<1>5. CASE InReplay
  <2>1. k = NextOf(c)
    BY <1>1, <1>2, <1>5 DEF SkipInv, TargetsSound, Forward
  <2>2. NextOf(c) = IF c = None THEN 2 ELSE Len(c) + 1
    BY DEF SkipInv, SessionsTyped, NextOf
  <2> QED
    BY <1>1, <1>2, <1>3, <1>4, <2>1, <2>2
<1>6. CASE ~InReplay
  <2>1. p \in On /\ p \notin gone
    BY <1>6 DEF AllActive
  <2>2. monitor[p] = "on"
    BY <2>1 DEF On
  <2> QED
    BY <1>1, <1>2, <1>3, <1>4, <1>6, <2>1, <2>2 DEF SkipInv, TargetsSound, Forward
<1> QED
  BY <1>5, <1>6

\* The logs that a pass has read are in the order of the chain, and what is before
\* them was handled by an earlier pass.
LEMMA TodoReadInOrder ==
  ASSUME LogsOnce, Ground, SkipInv, ReadLogs
  PROVE  TodoInOrder'
<1>1. PICK todo, from, until, t, c :
        todo = Todo /\ from = request.from /\ until = Until /\ t = Tip /\ c = chain
  OBVIOUS
<1>2. /\ request.pc = "chunk" /\ request.from <= request.head /\ ~Foreign /\ AllActive
      /\ request' = [request EXCEPT !.pc = "logs", !.todo = todo]
      /\ UNCHANGED <<chain, journal, row>>
  BY <1>1 DEF ReadLogs, AtChunk, requestOnly, nodeVars, storeVars, projections
<1>3. request'.kind = request.kind /\ request'.todo = todo
  <2>1. request \in RequestRecord
    BY AtCoord DEF Ground, RequestSound
  <2> QED
    BY <1>2, <2>1 DEF RequestRecord
<1>4. t \in Chains /\ c \in Chains /\ Len(t) \in Nat /\ request.scan = t /\ from \in Nat /\ until \in Nat
  <2>1. Until \in Int /\ from \in Nat /\ from >= 1 /\ from <= Until
    BY <1>1, <1>2, UntilIs, AtRequest DEF Ground
  <2> QED
    BY <1>1, <1>2, <2>1, AtRequest, AtChain DEF Ground
<1>5. SUFFICES ASSUME request.kind = "swaps", NEW b \in DOMAIN todo, NEW e \in Buys,
                      PairOf[e] = PairOf[todo[b].event],
                      NEW g \in Chains, InStore(e, g), Sooner(e, g, todo[b].event, todo[b].block)
               PROVE  row[e].canonical \/ \E j \in 1..b - 1 : todo[j].event = e
  <2>1. Tip' = Tip
    BY <1>2 DEF Tip
  <2> QED
    BY <1>2, <1>3, <2>1 DEF TodoInOrder, Ahead, InStore
<1>6. e \in Events /\ e \notin Created
  BY DEF Buys
<1>7. PICK f, h : f = todo[b].event /\ h = todo[b].block
  OBVIOUS
<1>8. PICK n \in from..until :
        /\ h = Upto(t, n)
        /\ f \in Range(EventsAt(Upto(chain, n))) /\ Relevant(f, n)
        /\ \A m \in from..n : \A x \in Range(EventsAt(Upto(chain, m))) :
             Relevant(x, m) /\ (m < n \/ Sooner(x, Upto(chain, n), f, Upto(chain, n))) =>
               \E a \in 1..b - 1 : todo[a].event = x
  BY <1>1, <1>2, <1>4, <1>5, <1>7, TodoOrder DEF Ground
<1>9. n \in 1..Len(c) /\ n \in Nat /\ n <= Len(t) /\ n \in 0..Len(t)
  <2>1. n \in 1..Len(chain)
    BY <1>1, <1>2, InNode
  <2>2. n <= Len(Tip) /\ n \in Nat
    BY <1>1, <1>2, InChunk
  <2> QED
    BY <1>1, <1>4, <2>1, <2>2
<1>10. Upto(chain, n) = h
  <2>1. \E j \in DOMAIN Answer(n) : Answer(n)[j] = f
    BY <1>1, <1>8, <1>9, AnswerIs DEF Relevant, Ground
  <2>2. Answer(n) # <<>>
    BY <2>1
  <2> QED
    BY <1>1, <1>2, <1>4, <1>8, <2>2 DEF Foreign
<1>11. h \in Chains /\ Len(h) = n /\ IsPrefix(h, t) /\ IsPrefix(h, c)
  <2>1. n \in 0..Len(c)
    BY <1>9
  <2> QED
    BY <1>1, <1>4, <1>8, <1>9, <1>10, <2>1, UptoIs, UptoIsPrefix
<1>12. PICK m : m = Len(g)
  OBVIOUS
<1>13. /\ m \in Nat /\ m >= 2 /\ m <= n /\ m \in 0..n /\ IsPrefix(g, t) /\ IsPrefix(g, c)
       /\ e \in Range(EventsAt(g)) /\ g = Upto(t, m) /\ g = Upto(c, m)
  <2>1. m \in Nat /\ m > 1 /\ IsPrefix(g, t) /\ e \in Range(EventsAt(g))
    BY <1>1, <1>5, <1>12 DEF InStore, Heights
  <2>2. m <= n
    BY <1>5, <1>7, <1>9, <1>11, <1>12, <2>1 DEF Sooner
  <2>3. IsPrefix(g, h)
    BY <1>4, <1>5, <1>11, <1>12, <2>1, <2>2, ShorterPrefix
  <2>4. IsPrefix(g, c)
    BY <1>4, <1>11, <2>3, PrefixThrough
  <2>5. g = Upto(t, m) /\ g = Upto(c, m)
    BY <1>4, <1>12, <2>1, <2>4, PrefixIsUpto
  <2>6. m >= 2 /\ m \in 0..n
    BY <1>9, <2>1, <2>2
  <2> QED
    BY <2>1, <2>2, <2>4, <2>5, <2>6
<1>14. PICK p : p = PairOf[e]
  OBVIOUS
<1>15. p \in Concerned /\ PairOf[f] = p /\ request.targets[p] <= n
  BY <1>5, <1>7, <1>8, <1>14 DEF Relevant
<1>16. PICK k : k = request.targets[p]
  OBVIOUS
<1>17. p \in Pairs /\ k \in Nat /\ k >= from /\ (k = 2 \/ k <= Len(checkpoint[p]) + 1)
  BY <1>1, <1>2, <1>5, <1>15, <1>16, TargetIs
<1>18. CASE m < k
  <2>1. p \in Listeners /\ Len(checkpoint[p]) \in Nat
    BY <1>17, ConstantsTyped, AtChain DEF Ground
  <2>2. m <= Len(checkpoint[p])
    BY <1>13, <1>17, <1>18, <2>1
  <2>3. ~Abandoned(g) /\ Mine(p, e)
    BY <1>1, <1>6, <1>13, <1>14 DEF Abandoned, Mine
  <2>4. Done(e, g)
    BY <1>1, <1>13, <2>1, <2>2, <2>3, AlreadyRead DEF SkipInv
  <2> QED
    BY <1>6, <2>4 DEF Done
<1>19. CASE ~(m < k)
  <2>1. m \in from..n
    BY <1>4, <1>13, <1>17, <1>19
  <2>2. Relevant(e, m)
    <3>1. k <= m
      BY <1>13, <1>17, <1>19
    <3> QED
      BY <1>5, <1>6, <1>14, <1>15, <1>16, <3>1 DEF Relevant
  <2>3. e \in Range(EventsAt(Upto(chain, m)))
    BY <1>1, <1>13
  <2>4. m < n \/ Sooner(e, Upto(chain, n), f, Upto(chain, n))
    <3>1. CASE m = n
      <4>1. g = h
        BY <1>8, <1>13, <3>1
      <4> QED
        BY <1>5, <1>7, <1>10, <4>1
    <3> QED
      BY <1>9, <1>13, <3>1
  <2> QED
    BY <1>8, <2>1, <2>2, <2>3, <2>4
<1> QED
  BY <1>18, <1>19

LEMMA TodoInOrderNext ==
  ASSUME LogsOnce, Ground, SkipInv, ImageInv, [Next]_vars, ~Restart
  PROVE  TodoInOrder'
<1>1. SUFFICES ASSUME request'.pc = "logs" PROVE TodoInOrder'
  BY DEF TodoInOrder
<1>2. CASE request.pc = "logs"
  BY <1>1, <1>2, TodoStaysOrdered
<1>3. CASE request.pc # "logs"
  <2>1. ReadLogs
    <3>1. request' # request /\ ~AdmitPair /\ ~HandleSwap
      BY <1>1, <1>3 DEF AdmitPair, HandleSwap
    <3> QED
      BY <1>1, <3>1, LeadsTo DEF Ground
  <2> QED
    BY <2>1, TodoReadInOrder
<1> QED
  BY <1>2, <1>3

\* What is handled, or read to be, is of a pair that was created before.
LEMMA CreationNext ==
  ASSUME CreatedFirst, Ground, SkipInv, ImageInv, [Next]_vars, ~Restart
  PROVE  CreationSound'
<1>1. ASSUME NEW e \in Buys, row'[e].canonical PROVE HasCreation(PairOf[e], row'[e].block)
  <2>1. e \in Events /\ DOMAIN row = Events
    BY AtStore DEF Buys, Ground
  <2>2. row[e].canonical => HasCreation(PairOf[e], row[e].block)
    BY DEF ImageInv, CreationSound
  <2>3. CASE row' = row
    BY <1>1, <2>2, <2>3
  <2>4. CASE (AdmitPair \/ HandleSwap) /\ row' = [row EXCEPT ![Log.event] = Processed]
    <3>1. CASE e # Log.event
      BY <1>1, <2>1, <2>2, <2>4, <3>1
    <3>2. CASE e = Log.event
      <4>1. request.pc = "logs" /\ request.todo # <<>>
        BY <2>4 DEF AdmitPair, HandleSwap
      <4>2. Log = request.todo[1] /\ 1 \in DOMAIN request.todo
        <5>1. 1 \in DOMAIN request.todo
          BY <4>1, AtRequest DEF RequestRecord, Ground
        <5> QED
          BY <4>1, <5>1, AtLog DEF SkipInv
      <4>3. HasCreation(PairOf[Log.event], Log.block)
        BY <3>2, <4>1, <4>2 DEF ImageInv, CreationSound
      <4>4. row'[e].block = Log.block
        BY <2>1, <2>4, <3>2, ProcessedIs
      <4> QED
        BY <3>2, <4>3, <4>4
    <3> QED
      BY <3>1, <3>2
  <2>5. CASE row' = [x \in Events |-> RewoundRow(x)]
    BY <1>1, <2>1, <2>2, <2>5, RewoundRowIs DEF Ground
  <2> QED
    BY <2>3, <2>4, <2>5, RowMoves
<1>2. ASSUME request'.pc = "logs", NEW i \in DOMAIN request'.todo, request'.todo[i].event \in Buys
      PROVE  HasCreation(PairOf[request'.todo[i].event], request'.todo[i].block)
  <2>1. PICK x : x = request'.todo[i]
    OBVIOUS
  <2>2. CASE request.pc = "logs"
    <3>1. PICK todo, rest : todo = request.todo /\ rest = request'.todo
      OBVIOUS
    <3>2. todo \in Seq(LogRecord) /\ ((rest = todo \/ (todo # <<>> /\ rest = Tail(todo))))
      BY <1>2, <2>2, <3>1, LogGoes, AtRequest DEF Ground, RequestRecord, LogRecord
    <3>3. \E j \in DOMAIN todo : rest[i] = todo[j]
      <4>1. CASE rest = todo
        BY <1>2, <3>1, <4>1
      <4>2. CASE todo # <<>> /\ rest = Tail(todo)
        <5>1. i \in DOMAIN rest
          BY <1>2, <3>1
        <5>2. i + 1 \in DOMAIN todo /\ rest[i] = todo[i + 1]
          BY <3>2, <4>2, <5>1
        <5> QED
          BY <5>2
      <4> QED
        BY <3>2, <4>1, <4>2
    <3>4. PICK j \in DOMAIN todo : x = todo[j]
      BY <2>1, <3>1, <3>3
    <3>5. x.event \in Buys
      BY <1>2, <2>1
    <3>6. HasCreation(PairOf[x.event], x.block)
      BY <2>2, <3>1, <3>4, <3>5 DEF ImageInv, CreationSound
    <3> QED
      BY <2>1, <3>6
  <2>3. CASE request.pc # "logs"
    <3>1. ReadLogs
      <4>1. request' # request /\ ~AdmitPair /\ ~HandleSwap
        BY <1>2, <2>3 DEF AdmitPair, HandleSwap
      <4> QED
        BY <1>2, <4>1, LeadsTo DEF Ground
    <3>2. /\ request.pc = "chunk" /\ request.from <= request.head /\ ~Foreign
          /\ request' = [request EXCEPT !.pc = "logs", !.todo = Todo]
      BY <3>1 DEF ReadLogs, AtChunk
    <3>3. request'.todo = Todo
      <4>1. request \in RequestRecord
        BY AtCoord DEF Ground, RequestSound
      <4> QED
        BY <3>2, <4>1 DEF RequestRecord
    <3>4. \E j \in DOMAIN Todo : Todo[j] = x
      BY <1>2, <2>1, <3>3
    <3>5. PICK n \in request.from..Until : \E e \in Range(EventsAt(Upto(chain, n))) :
             Relevant(e, n) /\ x = [event |-> e, block |-> Upto(request.scan, n)]
      BY <3>2, <3>4, TodoIs DEF Ground
    <3>6. PICK e \in Range(EventsAt(Upto(chain, n))) :
             Relevant(e, n) /\ x = [event |-> e, block |-> Upto(request.scan, n)]
      BY <3>5
    <3>7. n \in 1..Len(chain)
      BY <3>2, InNode
    <3>8. \E j \in DOMAIN Answer(n) : Answer(n)[j] = e
      BY <3>6, <3>7, AnswerIs DEF Relevant, Ground
    <3>9. Answer(n) # <<>>
      BY <3>8
    <3>10. Upto(chain, n) = Upto(request.scan, n)
      BY <3>2, <3>9 DEF Foreign
    <3>11. x.event = e /\ x.block = Upto(chain, n)
      BY <3>6, <3>10
    <3>12. e \notin Created
      BY <1>2, <2>1, <3>11 DEF Buys
    <3>13. HasCreation(PairOf[e], Upto(chain, n))
      BY <3>6, <3>7, <3>12 DEF CreatedFirst
    <3> QED
      BY <2>1, <3>11, <3>13
  <2> QED
    BY <2>2, <2>3
<1> QED
  BY <1>1, <1>2 DEF CreationSound

\* The rows of a pair stay what they are but for their snapshots.
Unmoved(p) ==
  \A e \in BuysOf(p) : row'[e].block = row[e].block /\ (row'[e].canonical <=> row[e].canonical)

LEMMA PrecedesStays ==
  ASSUME NEW e, NEW f, row'[e].block = row[e].block, row'[f].block = row[f].block
  PROVE  Precedes(e, f)' <=> Precedes(e, f)
BY DEF Precedes

LEMMA ShapeStays ==
  ASSUME NEW s, Shape(s), NEW S, \A e \in S : row'[e].block = row[e].block, Image(s) \subseteq S
  PROVE  Shape(s)'
<1>1. ASSUME NEW f \in s.counted PROVE Precedes(s.entry, f)'
  <2>1. s.entry # 0 /\ Precedes(s.entry, f)
    BY DEF Shape
  <2>2. s.entry \in S /\ f \in S
    BY <2>1 DEF Image
  <2> QED
    BY <2>1, <2>2, PrecedesStays
<1> QED
  BY <1>1 DEF Shape

LEMMA FollowedStays ==
  ASSUME NEW p, NEW s, Unmoved(p)
  PROVE  Counts(p)' = Counts(p) /\ (Followed(p, s) => Followed(p, s)')
<1>1. Counts(p)' = Counts(p)
  BY DEF Counts, Unmoved, BuysOf
<1>2. ASSUME Followed(p, s), Monitorable(s) PROVE Shape(s)' /\ Image(s) = Counts(p)'
  <2>1. Shape(s) /\ Image(s) = Counts(p)
    BY <1>2 DEF Followed
  <2>2. PICK S : S = BuysOf(p)
    OBVIOUS
  <2>3. Image(s) \subseteq S /\ \A e \in S : row'[e].block = row[e].block
    BY <2>1, <2>2 DEF Counts, Unmoved
  <2> QED
    BY <1>1, <2>1, <2>3, ShapeStays
<1> QED
  BY <1>1, <1>2 DEF Followed, Image

LEMMA SnapStays ==
  ASSUME NEW e \in Buys, SnapOf(e), Unmoved(PairOf[e]), row'[e].before = row[e].before
  PROVE  SnapOf(e)'
<1>1. PICK p, s, S, C : p = PairOf[e] /\ s = row[e].before /\ S = BuysOf(p) /\ C = Counts(p)
  OBVIOUS
<1>2. e \in S
  BY <1>1 DEF Buys, BuysOf
<1>3. \A f \in S : row'[f].block = row[f].block /\ (row'[f].canonical <=> row[f].canonical)
  BY <1>1 DEF Unmoved
<1>4. SUFFICES ASSUME row'[e].canonical, Monitorable(s)
               PROVE  Shape(s)' /\ Image(s) = {f \in Counts(p)' : Precedes(f, e)'}
  BY <1>1 DEF SnapOf, Image
<1>5. Shape(s) /\ Image(s) = {f \in C : Precedes(f, e)}
  BY <1>1, <1>2, <1>3, <1>4 DEF SnapOf
<1>6. C \subseteq S /\ Counts(p)' = C
  BY <1>1, FollowedStays DEF Counts
<1>7. Image(s) \subseteq S
  BY <1>5, <1>6
<1>8. Shape(s)'
  BY <1>3, <1>5, <1>7, ShapeStays
<1>9. \A f \in C : Precedes(f, e)' <=> Precedes(f, e)
  BY <1>2, <1>3, <1>6, PrecedesStays
<1> QED
  BY <1>5, <1>6, <1>8, <1>9

\* Of two canonical events one precedes the other.
LEMMA RowsOrdered ==
  ASSUME LogsOnce, Ground, SkipInv, NEW e \in Events, NEW f \in Events, row[e].canonical, row[f].canonical
  PROVE  /\ e # f => Precedes(e, f) \/ Precedes(f, e)
         /\ ~(Precedes(e, f) /\ Precedes(f, e))
<1>1. PICK g, h : g = row[e].block /\ h = row[f].block
  OBVIOUS
<1>2. InStore(e, g) /\ InStore(f, h)
  BY <1>1, RowInStore
<1>3. g \in Chains /\ h \in Chains /\ Len(g) \in Heights /\ Len(h) \in Heights
  BY <1>2 DEF InStore
<1>4. e # f => Sooner(e, g, f, h) \/ Sooner(f, h, e, g)
  BY <1>2, InStoreOrder DEF Ground
<1>5. ~(Sooner(e, g, f, h) /\ Sooner(f, h, e, g))
  BY <1>3, SoonerOnce
<1>6. (Precedes(e, f) <=> Sooner(e, g, f, h)) /\ (Precedes(f, e) <=> Sooner(f, h, e, g))
  BY <1>1, PrecedesIs
<1> QED
  BY <1>4, <1>5, <1>6

LEMMA PrecedesNext ==
  ASSUME NEW e, NEW f, NEW g, NEW h, row'[e].block = g, row'[f].block = h
  PROVE  Precedes(e, f)' <=> Sooner(e, g, f, h)
BY DEF Precedes, Sooner

\* A swap that is claimed comes after those of its pair that were.
LEMMA SwapComes ==
  ASSUME LogsOnce, Ground, SkipInv, ImageInv, HandleSwap, NEW e, e = Log.event, Claims(e),
         row' = [row EXCEPT ![e] = Processed]
  PROVE  /\ e \in Buys /\ ~row[e].canonical
         /\ row'[e].canonical /\ row'[e].before = session[PairOf[e]]
         /\ \A f \in Events \ {e} : row'[f] = row[f]
         /\ Counts(PairOf[e])' = Counts(PairOf[e]) \cup {e}
         /\ \A f \in Counts(PairOf[e]) : Precedes(f, e)' /\ ~Precedes(e, f)'
         /\ ~Precedes(e, e)'
<1>1. request.pc = "logs" /\ request.todo # <<>> /\ request.kind = "swaps"
  BY DEF HandleSwap
<1>2. /\ e \in Buys /\ ~row[e].canonical /\ Log = request.todo[1] /\ 1 \in DOMAIN request.todo
  <2>1. 1 \in DOMAIN request.todo
    BY <1>1, AtRequest DEF RequestRecord, Ground
  <2>2. e \in Events /\ e \notin Created /\ Log = request.todo[1]
    BY <1>1, AtLog DEF SkipInv
  <2> QED
    BY <2>1, <2>2 DEF Claims, Buys
<1>3. DOMAIN row = Events /\ e \in Events
  BY <1>2, AtStore DEF Ground, Buys
<1>4. PICK h : h = Log.block
  OBVIOUS
<1>5. /\ row'[e].block = h /\ row'[e].canonical /\ row'[e].before = session[PairOf[e]]
      /\ \A f \in Events \ {e} : row'[f] = row[f]
  BY <1>3, <1>4, ProcessedIs
<1>6. InStore(e, h)
  BY <1>1, <1>2, <1>4, LogInStore
<1>7. Counts(PairOf[e])' = Counts(PairOf[e]) \cup {e}
  BY <1>2, <1>5 DEF Counts, BuysOf, Buys
<1>8. ASSUME NEW f \in Counts(PairOf[e]) PROVE Precedes(f, e)' /\ ~Precedes(e, f)'
  <2>1. f \in Buys /\ row[f].canonical /\ PairOf[f] = PairOf[e] /\ f # e /\ f \in Events
    BY <1>2 DEF Counts, BuysOf, Buys
  <2>2. PICK g : g = row[f].block
    OBVIOUS
  <2>3. InStore(f, g)
    BY <2>1, <2>2, RowInStore
  <2>4. ~Sooner(e, h, f, g)
    <3>1. SUFFICES ASSUME Sooner(e, h, f, g) PROVE FALSE
      OBVIOUS
    <3>2. h \in Chains
      BY <1>6 DEF InStore
    <3>3. Ahead(e, f, row[f].block)
      BY <1>6, <2>1, <2>2, <3>1, <3>2 DEF Ahead
    <3> QED
      BY <1>2, <2>1, <3>3 DEF ImageInv, InOrder
  <2>5. Sooner(f, g, e, h)
    BY <1>6, <2>1, <2>3, <2>4, InStoreOrder DEF Ground
  <2>6. row'[f].block = g
    BY <1>5, <2>1, <2>2
  <2>7. (Precedes(f, e)' <=> Sooner(f, g, e, h)) /\ (Precedes(e, f)' <=> Sooner(e, h, f, g))
    BY <1>5, <2>6, PrecedesNext
  <2> QED
    BY <2>4, <2>5, <2>7
<1>9. ~Precedes(e, e)'
  <2>1. Precedes(e, e)' <=> Sooner(e, h, e, h)
    BY <1>5, PrecedesNext
  <2>2. h \in Chains /\ Len(h) \in Heights
    BY <1>6 DEF InStore
  <2> QED
    BY <2>1, <2>2, SoonerOnce
<1> QED
  BY <1>2, <1>5, <1>7, <1>8, <1>9

\* The pair of a discovery keeps its swaps, and so does every pair but that of a swap.
LEMMA OthersUnmoved ==
  ASSUME Ground, NEW e \in Events, row' = [row EXCEPT ![e] = Processed], NEW p,
         e \in Created \/ PairOf[e] # p
  PROVE  Unmoved(p)
BY AtStore DEF Ground, Unmoved, BuysOf

LEMMA SnapshotsSwap ==
  ASSUME LogsOnce, Ground, SkipInv, ImageInv, HandleSwap, NEW e, e = Log.event, Claims(e),
         row' = [row EXCEPT ![e] = Processed], NEW f \in Buys
  PROVE  SnapOf(f)'
<1>1. f \in Events /\ SnapOf(f)
  BY DEF Buys, ImageInv, Snapshots
<1>2. /\ e \in Events /\ ~row[e].canonical
      /\ row'[e].canonical /\ row'[e].before = session[PairOf[e]]
      /\ \A x \in Events \ {e} : row'[x] = row[x]
      /\ Counts(PairOf[e])' = Counts(PairOf[e]) \cup {e}
      /\ \A x \in Counts(PairOf[e]) : Precedes(x, e)' /\ ~Precedes(e, x)'
      /\ ~Precedes(e, e)'
  BY SwapComes DEF Buys
<1>3. CASE PairOf[f] # PairOf[e]
  <2>1. Unmoved(PairOf[f])
    BY <1>2, <1>3, OthersUnmoved
  <2>2. row'[f].before = row[f].before
    BY <1>1, <1>2, <1>3
  <2> QED
    BY <1>1, <2>1, <2>2, SnapStays
<1>4. CASE PairOf[f] = PairOf[e]
  <2>1. PICK p, C : p = PairOf[e] /\ C = Counts(PairOf[e])
    OBVIOUS
  <2>2. C \subseteq Events /\ e \notin C /\ Counts(p)' = C \cup {e}
    BY <1>2, <2>1 DEF Counts, BuysOf
  <2>3. \A x \in C : row'[x].block = row[x].block
    BY <1>2, <2>2
  <2>4. PICK s : s = row'[f].before
    OBVIOUS
  <2>5. SUFFICES ASSUME row'[f].canonical, Monitorable(s)
                 PROVE  Shape(s)' /\ Image(s) = {g \in C \cup {e} : Precedes(g, f)'}
    BY <1>4, <2>1, <2>2, <2>4 DEF SnapOf, Image, Monitorable
  <2>6. CASE f = e
    <3>1. s = session[p] /\ p \in Pairs /\ ~Stuck /\ request.pc = "logs"
      <4>1. PairOf[Log.event] \in Pairs /\ ~Stuck
        BY AtLog DEF HandleSwap, SkipInv
      <4> QED
        BY <1>2, <2>1, <2>4, <2>6, <4>1 DEF HandleSwap
    <3>2. Shape(s) /\ Image(s) = C
      BY <2>1, <2>5, <3>1 DEF ImageInv, FollowSound, FollowOf, Followed
    <3>3. Shape(s)'
      BY <2>3, <3>2, ShapeStays
    <3>4. {g \in C \cup {e} : Precedes(g, f)'} = C
      BY <1>2, <2>1, <2>2, <2>6
    <3> QED
      BY <3>2, <3>3, <3>4
  <2>7. CASE f # e
    <3>1. row'[f] = row[f] /\ row[f].canonical /\ s = row[f].before
      BY <1>1, <1>2, <2>4, <2>5, <2>7
    <3>2. Shape(s) /\ Image(s) = {g \in C : Precedes(g, f)}
      BY <1>1, <1>4, <2>1, <2>5, <3>1 DEF SnapOf
    <3>3. Image(s) \subseteq C
      BY <3>2
    <3>4. Shape(s)'
      BY <2>3, <3>2, <3>3, ShapeStays
    <3>5. f \in C
      BY <1>4, <2>1, <3>1 DEF Counts, BuysOf, Buys
    <3>6. \A g \in C : Precedes(g, f)' <=> Precedes(g, f)
      BY <2>3, <3>5, PrecedesStays
    <3>7. ~Precedes(e, f)'
      BY <1>2, <2>1, <3>5
    <3> QED
      BY <3>2, <3>4, <3>6, <3>7
  <2> QED
    BY <2>6, <2>7
<1> QED
  BY <1>3, <1>4

\* A rollback takes from the rows what is above the ancestor.
LEMMA RewoundRows ==
  ASSUME Ground, Rewind
  PROVE  \A e \in Events :
           /\ row'[e].block = row[e].block /\ row'[e].before = row[e].before
           /\ row'[e].canonical <=> row[e].canonical /\ Len(row[e].block) <= Len(request.scan)
<1>1. row' = [e \in Events |-> RewoundRow(e)]
  BY RewindIs
<1> QED
  BY <1>1, RewoundRowIs DEF Ground

LEMMA SnapshotsRewind ==
  ASSUME LogsOnce, Ground, SkipInv, ImageInv, Rewind, NEW f \in Buys
  PROVE  SnapOf(f)'
<1>1. f \in Events /\ SnapOf(f)
  BY DEF Buys, ImageInv, Snapshots
<1>2. PICK p, C, s, D : p = PairOf[f] /\ C = Counts(p) /\ s = row[f].before /\ D = Counts(p)'
  OBVIOUS
<1>3. /\ C \subseteq Events /\ \A g \in C : row[g].canonical
      /\ D = {g \in C : Len(row[g].block) <= Len(request.scan)}
  BY <1>2, RewoundRows DEF Counts, BuysOf
<1>4. \A g \in Events : row'[g].block = row[g].block
  BY RewoundRows
<1>5. row'[f].before = s
  BY <1>1, <1>2, RewoundRows
<1>6. SUFFICES ASSUME row'[f].canonical, Monitorable(s)
               PROVE  Shape(s)' /\ Image(s) = {g \in D : Precedes(g, f)'}
  BY <1>2, <1>5 DEF SnapOf, Image, Monitorable
<1>7. row[f].canonical /\ Len(row[f].block) <= Len(request.scan)
  BY <1>1, <1>6, RewoundRows
<1>8. Shape(s) /\ Image(s) = {g \in C : Precedes(g, f)}
  BY <1>1, <1>2, <1>6, <1>7 DEF SnapOf
<1>9. Shape(s)'
  <2>1. Image(s) \subseteq C
    BY <1>8
  <2> QED
    BY <1>3, <1>4, <1>8, <2>1, ShapeStays
<1>10. ASSUME NEW g \in C PROVE Precedes(g, f)' <=> Precedes(g, f)
  BY <1>1, <1>3, <1>4, PrecedesStays
<1>11. ASSUME NEW g \in C, Precedes(g, f) PROVE g \in D
  <2>1. PICK m, n, k : m = Len(row[g].block) /\ n = Len(row[f].block) /\ k = Len(request.scan)
    OBVIOUS
  <2>2. m \in Nat /\ n \in Nat /\ k \in Nat
    BY <1>1, <1>3, <1>7, <2>1, Placed, RewindIs
  <2>3. m <= n
    BY <1>11, <2>1, <2>2 DEF Precedes
  <2> QED
    BY <1>3, <1>7, <2>1, <2>2, <2>3
<1> QED
  BY <1>3, <1>8, <1>9, <1>10, <1>11

\* What a step makes of the snapshots.
LEMMA SnapshotsNext ==
  ASSUME LogsOnce, Ground, SkipInv, ImageInv, [Next]_vars, ~Restart
  PROVE  Snapshots'
<1>1. SUFFICES ASSUME NEW f \in Buys PROVE SnapOf(f)'
  BY DEF Snapshots
<1>2. f \in Events /\ SnapOf(f) /\ DOMAIN row = Events
  BY AtStore DEF Buys, ImageInv, Snapshots, Ground
<1>3. CASE row' = row
  <2>1. Unmoved(PairOf[f]) /\ row'[f].before = row[f].before
    BY <1>3 DEF Unmoved
  <2> QED
    BY <1>2, <2>1, SnapStays
<1>4. CASE AdmitPair /\ row' = [row EXCEPT ![Log.event] = Processed]
  <2>1. Log.event \in Events /\ Log.event \in Created
    BY <1>4, AtLog DEF AdmitPair, SkipInv
  <2>2. Unmoved(PairOf[f])
    BY <1>4, <2>1, OthersUnmoved
  <2>3. row'[f].before = row[f].before
    BY <1>2, <1>4, <2>1 DEF Buys
  <2> QED
    BY <1>2, <2>2, <2>3, SnapStays
<1>5. CASE HandleSwap /\ row' = [row EXCEPT ![Log.event] = Processed]
  <2>1. PICK e : e = Log.event
    OBVIOUS
  <2>2. e \in Events /\ PairOf[e] \in Pairs
    BY <1>5, <2>1, AtLog DEF HandleSwap, SkipInv
  <2>3. ~Claims(e) => row' = row
    BY <1>5, <2>1, <2>2, AfterIs DEF SkipInv, SessionsTyped
  <2>4. CASE Claims(e)
    BY <1>5, <2>1, <2>4, SnapshotsSwap
  <2> QED
    BY <1>3, <2>3, <2>4
<1>6. CASE Rewind
  BY <1>6, SnapshotsRewind
<1> QED
  BY <1>3, <1>4, <1>5, <1>6, RowMoves

------------------------------------------------------------------------------
(* The sessions, step by step.                                               *)

LEMMA FollowStays ==
  ASSUME NEW p, Unmoved(p), FollowOf(p), session'[p] = session[p],
         request.pc # "project" \/ p \notin DOMAIN Affected,
         request'.pc # "project" \/ p \notin DOMAIN Affected'
  PROVE  FollowOf(p)'
<1>1. PICK s : s = session[p]
  OBVIOUS
<1>2. Followed(p, s) /\ (~Stored(s) => Counts(p) = {})
  BY <1>1 DEF FollowOf
<1>3. Followed(p, s)' /\ Counts(p)' = Counts(p)
  BY <1>2, FollowedStays
<1> QED
  BY <1>1, <1>2, <1>3 DEF FollowOf, Followed, Monitorable, Shape, Image, Stored

\* A discovery gives a session to a pair that has none.
LEMMA FollowAdmit ==
  ASSUME Ground, SkipInv, ImageInv, AdmitPair, NEW p \in Pairs
  PROVE  FollowOf(p)'
<1>1. /\ request.pc = "logs" /\ request.todo # <<>> /\ request'.pc = "logs"
      /\ row' = row \/ row' = [row EXCEPT ![Log.event] = Processed]
      /\ \/ session' = session
         \/ /\ session' = [session EXCEPT ![PairOf[Log.event]] = Fresh]
            /\ session[PairOf[Log.event]] = NoSession \/ Reappeared(PairOf[Log.event])
  <2>1. request \in RequestRecord
    BY AtCoord DEF Ground, RequestSound
  <2> QED
    BY <2>1 DEF AdmitPair, NextLog, RequestRecord
<1>2. Log.event \in Events /\ Log.event \in Created /\ ~Stuck /\ PairOf[Log.event] \in Pairs
  BY AtLog DEF AdmitPair, SkipInv
<1>3. Unmoved(p)
  <2>1. row' = row => Unmoved(p)
    BY DEF Unmoved
  <2> QED
    BY <1>1, <1>2, <2>1, OthersUnmoved
<1>4. FollowOf(p) /\ session \in [Pairs -> SessionRecord]
  BY <1>2 DEF ImageInv, FollowSound, SkipInv, SessionsTyped
<1>5. CASE session'[p] = session[p]
  BY <1>1, <1>3, <1>4, <1>5, FollowStays
<1>6. CASE session'[p] # session[p]
  <2>1. p = PairOf[Log.event] /\ session'[p] = Fresh /\ (session[p] = NoSession \/ Reappeared(p))
    BY <1>1, <1>2, <1>4, <1>6
  <2>2. ~Stored(session[p])
    BY <2>1 DEF Stored, NoSession, Reappeared
  <2>3. Counts(p)' = {}
    BY <1>1, <1>3, <1>4, <2>2, FollowedStays DEF FollowOf
  <2>4. PICK s : s = Fresh
    OBVIOUS
  <2>5. s.status = "WAITING_FIRST_BUY" /\ s.entry = 0 /\ s.counted = {}
    BY <2>4 DEF Fresh, NoSession
  <2>6. Shape(s)' /\ Image(s) = {}
    BY <2>5 DEF Shape, Image
  <2>7. Stored(s)
    BY <2>5 DEF Stored
  <2>8. session'[p] = s
    BY <2>1, <2>4
  <2> QED
    BY <1>1, <2>3, <2>6, <2>7, <2>8 DEF FollowOf, Followed, Shape, Image, Stored
<1> QED
  BY <1>5, <1>6

\* A swap that is claimed joins what its session has seen.
LEMMA FollowSwap ==
  ASSUME LogsOnce, Ground, SkipInv, ImageInv, HandleSwap, NEW p \in Pairs
  PROVE  FollowOf(p)'
<1>1. PICK e : e = Log.event
  OBVIOUS
<1>2. /\ request.pc = "logs" /\ request'.pc = "logs"
      /\ e \in Events /\ ~Stuck /\ PairOf[e] \in Pairs
  <2>1. request \in RequestRecord
    BY AtCoord DEF Ground, RequestSound
  <2>2. request.pc = "logs" /\ request.todo # <<>> /\ request'.pc = "logs"
    BY <2>1 DEF HandleSwap, NextLog, RequestRecord
  <2> QED
    BY <1>1, <2>2, AtLog DEF SkipInv
<1>3. FollowOf(p) /\ session \in [Pairs -> SessionRecord]
  BY <1>2 DEF ImageInv, FollowSound, SkipInv, SessionsTyped
<1>4. PICK s : s = session[PairOf[e]]
  OBVIOUS
<1>5. CASE UNCHANGED <<row, session, wallet>>
  <2>1. Unmoved(p) /\ session'[p] = session[p]
    BY <1>5 DEF Unmoved
  <2> QED
    BY <1>2, <1>3, <2>1, FollowStays
<1>6. ASSUME Claims(e), row' = [row EXCEPT ![e] = Processed],
             NEW after \in SessionRecord, SwapOf(s, e, after),
             session' = [session EXCEPT ![PairOf[e]] = after]
      PROVE  FollowOf(p)'
  <2>1. CASE p # PairOf[e]
    <3>1. Unmoved(p)
      BY <1>2, <1>6, <2>1, OthersUnmoved
    <3> QED
      BY <1>2, <1>3, <1>6, <2>1, <3>1, FollowStays
  <2>2. CASE p = PairOf[e]
    <3>1. PICK C : C = Counts(p)
      OBVIOUS
    <3>2. /\ e \in Buys /\ \A f \in Events \ {e} : row'[f] = row[f]
          /\ ~row[e].canonical /\ Counts(p)' = C \cup {e} /\ \A f \in C : Precedes(f, e)'
      BY <1>1, <1>6, <2>2, <3>1, SwapComes
    <3>3. C \subseteq Events \ {e} /\ e # 0
      BY <3>1, <3>2, ConstantsTyped DEF Counts, BuysOf, Buys
    <3>4. session'[p] = after /\ s = session[p]
      BY <1>3, <1>4, <1>6, <2>2
    <3>5. Stored(s)
      BY <1>1, <2>2, <3>4, SwapIs DEF SkipInv
    <3>6. Followed(p, s)
      BY <1>2, <1>3, <3>4 DEF FollowOf
    <3>7. ASSUME Shape(s), NEW f \in Image(s) PROVE f \in C => row'[f].block = row[f].block
      BY <3>2, <3>3
    <3>8. CASE s.status = "WAITING_FIRST_BUY"
      <4>1. after.status = "HOLDING" /\ after.entry = e /\ after.counted = s.counted
        BY <1>6, <3>8 DEF SwapOf
      <4>2. s.entry = 0 /\ s.counted = {} /\ C = {}
        BY <3>1, <3>6, <3>8 DEF Followed, Monitorable, Shape, Image
      <4>3. Shape(after)' /\ Image(after) = {e} /\ Stored(after)
        BY <3>3, <4>1, <4>2 DEF Shape, Image, Stored
      <4> QED
        BY <1>2, <3>2, <3>4, <4>2, <4>3 DEF FollowOf, Followed, Shape, Image, Stored
    <3>9. CASE s.status = "HOLDING"
      <4>1. /\ after.status \in {"HOLDING", "CLOSED"} /\ after.entry = s.entry
            /\ after.counted = s.counted \cup {e}
        BY <1>6, <3>9 DEF SwapOf
      <4>2. Shape(s) /\ Image(s) = C
        BY <3>1, <3>6, <3>9 DEF Followed, Monitorable
      <4>3. Shape(s)'
        BY <3>2, <3>3, <4>2, ShapeStays
      <4>4. s.entry # 0 /\ s.entry \in C
        BY <3>9, <4>2 DEF Shape, Image
      <4>5. \A f \in s.counted \cup {e} : Precedes(s.entry, f)'
        BY <3>2, <4>3, <4>4 DEF Shape
      <4>6. Shape(after)'
        BY <4>1, <4>4, <4>5 DEF Shape
      <4>7. Image(after) = C \cup {e} /\ Stored(after)
        BY <4>1, <4>2 DEF Image, Stored
      <4> QED
        BY <1>2, <3>2, <3>4, <4>6, <4>7 DEF FollowOf, Followed, Shape, Image, Stored
    <3>10. CASE s.status \notin {"WAITING_FIRST_BUY", "HOLDING"}
      <4>1. after = s
        BY <1>6, <3>10 DEF SwapOf
      <4>2. ~Monitorable(after)
        BY <3>10, <4>1 DEF Monitorable
      <4> QED
        BY <1>2, <3>4, <3>5, <4>1, <4>2 DEF FollowOf, Followed, Monitorable, Stored
    <3> QED
      BY <3>8, <3>9, <3>10
  <2> QED
    BY <2>1, <2>2
<1>7. \/ UNCHANGED <<row, session, wallet>>
      \/ /\ Claims(e) /\ row' = [row EXCEPT ![e] = Processed]
         /\ \E after \in SessionRecord :
              SwapOf(s, e, after) /\ session' = [session EXCEPT ![PairOf[e]] = after]
  BY <1>1, <1>2, <1>3, <1>4, AfterIs
<1> QED
  BY <1>5, <1>6, <1>7

\* The snapshot saved with the first orphaned swap is the image of those that stay.
LEMMA SnapshotStays ==
  ASSUME LogsOnce, Ground, SkipInv, ImageInv, Rewind, NEW p \in Pairs, NEW buys,
         buys = Above(request.scan) \cap BuysOf(p), buys # {},
         NEW s, s = row[FirstBuy(buys)].before, Monitorable(s)
  PROVE  Shape(s)' /\ Image(s) = Counts(p)'
<1>1. PICK f, C, k : /\ f = FirstBuy(buys) /\ s = row[f].before
                     /\ C = Counts(p) /\ k = Len(request.scan)
  OBVIOUS
<1>2. \A e \in buys : /\ e \in Events /\ e \in Buys /\ PairOf[e] = p /\ row[e].canonical
                      /\ Len(row[e].block) > k
  BY <1>1 DEF Above, BuysOf, Buys
<1>3. f \in buys /\ \A g \in buys \ {f} : Precedes(f, g)
  <2>1. \A e \in buys : OnTip(e)
    BY <1>2, Placed DEF OnTip
  <2>2. buys \in SUBSET Events
    BY <1>2
  <2> QED
    BY <1>1, <2>1, <2>2, FirstBuyIs DEF Ground
<1>4. Shape(s) /\ Image(s) = {g \in C : Precedes(g, f)}
  <2>1. SnapOf(f)
    BY <1>2, <1>3 DEF ImageInv, Snapshots
  <2> QED
    BY <1>1, <1>2, <1>3, <2>1 DEF SnapOf
<1>5. Image(s) \subseteq C /\ C \subseteq Events
  BY <1>1, <1>4 DEF Counts, BuysOf
<1>6. Shape(s)'
  BY <1>4, <1>5, RewoundRows, ShapeStays
<1>7. Counts(p)' = {g \in C : Len(row[g].block) <= k}
  BY <1>1, <1>5, RewoundRows DEF Counts, BuysOf
<1>8. ASSUME NEW g \in C PROVE Precedes(g, f) <=> Len(row[g].block) <= k
  <2>1. g \in Events /\ row[g].canonical /\ g \in BuysOf(p) /\ f \in Events /\ row[f].canonical
    BY <1>1, <1>2, <1>3 DEF Counts, BuysOf
  <2>2. PICK m, n : m = Len(row[g].block) /\ n = Len(row[f].block)
    OBVIOUS
  <2>3. m \in Nat /\ n \in Nat /\ k \in Nat /\ n > k
    BY <1>1, <1>2, <1>3, <2>1, <2>2, Placed, RewindIs
  <2>4. CASE m <= k
    <3>1. m < n
      BY <2>3, <2>4
    <3> QED
      BY <2>2, <2>4, <3>1 DEF Precedes
  <2>5. CASE ~(m <= k)
    <3>1. g \in buys
      BY <1>1, <2>1, <2>2, <2>3, <2>5 DEF Above
    <3>2. g = f \/ Precedes(f, g)
      BY <1>3, <3>1
    <3>3. ~Precedes(g, f)
      BY <2>1, <3>2, RowsOrdered
    <3> QED
      BY <2>2, <2>5, <3>3
  <2> QED
    BY <2>4, <2>5
<1> QED
  BY <1>1, <1>4, <1>6, <1>7, <1>8

LEMMA FollowRewind ==
  ASSUME LogsOnce, Ground, SkipInv, ImageInv, Rewind, NEW p \in Pairs
  PROVE  FollowOf(p)'
<1>1. request.pc = "rewind" /\ request'.pc = "project" /\ session' = session /\ ~Stuck
  <2>1. request \in RequestRecord
    BY AtCoord DEF Ground, RequestSound
  <2>2. request.pc = "rewind" /\ request'.pc = "project" /\ session' = session
    BY <2>1 DEF Rewind, RequestRecord
  <2> QED
    BY <2>2 DEF Stuck, Idle
<1>2. FollowOf(p)
  BY <1>1 DEF ImageInv, FollowSound
<1>3. PICK O, af : O = Above(request.scan) /\ af = Affected'
  OBVIOUS
<1>4. af = [q \in {PairOf[e] : e \in O} |-> Impact(q, O)]
  BY <1>3, RewindIs
<1>5. CASE p \notin DOMAIN af
  <2>1. \A e \in O : PairOf[e] # p
    BY <1>4, <1>5
  <2>2. ASSUME NEW e \in BuysOf(p)
        PROVE  row'[e].block = row[e].block /\ (row'[e].canonical <=> row[e].canonical)
    <3>1. e \in Events /\ PairOf[e] = p /\ e \notin O
      BY <2>1 DEF BuysOf
    <3>2. ~row[e].canonical \/ ~(Len(row[e].block) > Len(request.scan))
      BY <1>3, <3>1 DEF Above
    <3>3. PICK m, k : m = Len(row[e].block) /\ k = Len(request.scan)
      OBVIOUS
    <3>4. row[e].canonical => m \in Nat /\ k \in Nat
      BY <3>1, <3>3, Placed, RewindIs
    <3>5. row[e].canonical => m <= k
      BY <3>2, <3>3, <3>4
    <3> QED
      BY <3>1, <3>3, <3>5, RewoundRows
  <2>3. Unmoved(p)
    BY <2>2 DEF Unmoved
  <2>4. p \notin DOMAIN Affected'
    BY <1>3, <1>5
  <2> QED
    BY <1>1, <1>2, <2>3, <2>4, FollowStays
<1>6. CASE p \in DOMAIN af
  <2>1. af[p] = Impact(p, O)
    BY <1>4, <1>6
  <2>2. PICK buys, s : buys = O \cap BuysOf(p) /\ s = af[p].before
    OBVIOUS
  <2>3. s = IF buys = {} THEN NoSession ELSE row[FirstBuy(buys)].before
    BY <2>1, <2>2 DEF Impact
  <2>4. CASE Monitorable(s)
    <3>1. buys # {} /\ s = row[FirstBuy(buys)].before
      BY <2>3, <2>4 DEF Monitorable, NoSession
    <3>2. Shape(s)' /\ Image(s) = Counts(p)'
      BY <1>3, <2>2, <2>4, <3>1, SnapshotStays
    <3> QED
      BY <1>1, <1>3, <1>6, <2>2, <3>2 DEF FollowOf, Followed, Shape, Image
  <2>5. CASE ~Monitorable(s)
    BY <1>1, <1>3, <1>6, <2>2, <2>5 DEF FollowOf, Followed, Monitorable
  <2> QED
    BY <2>4, <2>5
<1> QED
  BY <1>5, <1>6

\* What a rollback restores is the snapshot, with the swaps that stay.
LEMMA FollowRestored ==
  ASSUME NEW p, Affected[p].before \in SessionRecord, Followed(p, Affected[p].before)
  PROVE  Followed(p, Restored(p)) /\ Restored(p).status = Affected[p].before.status
<1>1. PICK s, C, S : s = Affected[p].before /\ C = Counts(p) /\ S = {e \in C : Precedes(s.entry, e)}
  OBVIOUS
<1>2. Restored(p) = IF s.entry = 0 THEN s ELSE [s EXCEPT !.counted = S]
  BY <1>1 DEF Restored, Counts
<1>3. CASE s.entry = 0
  BY <1>1, <1>2, <1>3
<1>4. CASE s.entry # 0
  <2>1. PICK r : r = [s EXCEPT !.counted = S]
    OBVIOUS
  <2>2. r.status = s.status /\ r.entry = s.entry /\ r.counted = S
    BY <1>1, <2>1 DEF SessionRecord
  <2>3. ASSUME Monitorable(s) PROVE Shape(r) /\ Image(r) = C
    <3>1. Shape(s) /\ Image(s) = C
      BY <1>1, <2>3 DEF Followed
    <3>2. Shape(r)
      BY <1>1, <1>4, <2>2, <3>1 DEF Shape
    <3>3. \A e \in C : e = s.entry \/ Precedes(s.entry, e)
      BY <3>1 DEF Image, Shape
    <3>4. s.entry \in C
      BY <1>4, <3>1 DEF Image
    <3> QED
      BY <1>1, <1>4, <2>2, <3>2, <3>3, <3>4 DEF Image
  <2>4. Followed(p, r)
    BY <1>1, <2>2, <2>3 DEF Followed, Monitorable
  <2> QED
    BY <1>1, <1>2, <1>4, <2>1, <2>2, <2>4
<1> QED
  BY <1>3, <1>4

\* Without its creation a pair has no swaps.
LEMMA NoSwapsLeft ==
  ASSUME Ground, SkipInv, ImageInv, request.pc = "project", NEW p \in DOMAIN Affected, Affected[p].discovery
  PROVE  Counts(p) = {}
<1>1. SUFFICES ASSUME NEW e \in Counts(p) PROVE FALSE
  OBVIOUS
<1>2. e \in Buys /\ e \in Events /\ PairOf[e] = p /\ row[e].canonical
  BY DEF Counts, BuysOf, Buys
<1>3. PICK g : g = row[e].block
  OBVIOUS
<1>4. g \in Chains /\ Len(g) \in Nat /\ IsPrefix(g, Tip) /\ Tip \in Chains /\ Len(Tip) \in Nat
  BY <1>2, <1>3, Placed, AtChain DEF Ground
<1>5. PICK n \in 1..Len(g), c \in Created : PairOf[c] = p /\ c \in Range(EventsAt(Upto(g, n)))
  BY <1>2, <1>3 DEF ImageInv, CreationSound, HasCreation
<1>6. n \in 0..Len(g) /\ n \in 1..Len(Tip)
  <2>1. Len(g) <= Len(Tip)
    BY <1>4, PrefixIsUpto
  <2> QED
    BY <1>4, <2>1
<1>7. Upto(g, n) = Upto(Tip, n)
  BY <1>4, <1>6, UptoOfPrefix
<1>8. c \notin Range(EventsAt(Upto(Tip, n)))
  BY <1>5, <1>6 DEF SkipInv, ImpactSound
<1> QED
  BY <1>5, <1>7, <1>8

LEMMA FollowProject ==
  ASSUME Ground, SkipInv, ImageInv, Project, NEW p \in Pairs
  PROVE  FollowOf(p)'
<1>1. /\ request.pc = "project" /\ request' = Idle /\ row' = row
      /\ session'[p] = IF p \in DOMAIN Affected THEN Reconciled(p) ELSE session[p]
  BY DEF Project, Return
<1>2. request'.pc # "project" /\ Unmoved(p) /\ ~Stuck
  <2>1. Idle.pc = "idle"
    BY DEF Idle
  <2> QED
    BY <1>1, <2>1 DEF Unmoved, Stuck
<1>3. FollowOf(p)
  BY <1>2 DEF ImageInv, FollowSound
<1>4. CASE p \notin DOMAIN Affected
  BY <1>1, <1>2, <1>3, <1>4, FollowStays
<1>5. CASE p \in DOMAIN Affected
  <2>1. PICK a, s, r : a = Affected[p] /\ s = session[p] /\ r = Reconciled(p)
    OBVIOUS
  <2>2. /\ a.before \in SessionRecord /\ (a.before = NoSession \/ Stored(a.before))
        /\ a.discovery \in BOOLEAN /\ a.wallet \in BOOLEAN
    BY <1>1, <1>5, <2>1 DEF SkipInv, ImpactSound
  <2>3. s \in SessionRecord
    BY <2>1 DEF SkipInv, SessionsTyped
  <2>4. SUFFICES Followed(p, r) /\ (~Stored(r) => Counts(p) = {})
    <3>1. session'[p] = r
      BY <1>1, <1>5, <2>1
    <3>2. ASSUME Followed(p, r), ~Stored(r) => Counts(p) = {} PROVE FollowOf(p)'
      <4>1. Followed(p, r)' /\ Counts(p)' = Counts(p)
        BY <1>2, <3>2, FollowedStays
      <4> QED
        BY <1>2, <3>1, <3>2, <4>1 DEF FollowOf, Followed, Monitorable, Shape, Image, Stored
    <3> QED
      BY <3>2
  <2>5. CASE a.wallet \/ (~a.wallet /\ ~a.discovery /\ a.before = NoSession)
    <3>1. r = [s EXCEPT !.status = "MANUAL_REVIEW"]
      BY <2>1, <2>2, <2>5 DEF Reconciled
    <3>2. r.status = "MANUAL_REVIEW"
      BY <2>3, <3>1 DEF SessionRecord
    <3> QED
      BY <3>2 DEF Followed, Monitorable, Stored
  <2>6. CASE ~a.wallet /\ a.discovery
    <3>1. r = [s EXCEPT !.status = "REJECTED"]
      BY <2>1, <2>2, <2>6 DEF Reconciled
    <3>2. r.status = "REJECTED"
      BY <2>3, <3>1 DEF SessionRecord
    <3>3. Counts(p) = {}
      BY <1>1, <1>5, <2>1, <2>6, NoSwapsLeft
    <3> QED
      BY <3>2, <3>3 DEF Followed, Monitorable, Stored
  <2>7. CASE ~a.wallet /\ ~a.discovery /\ a.before # NoSession
    <3>1. r = Restored(p)
      BY <2>1, <2>2, <2>7 DEF Reconciled
    <3>2. Followed(p, Affected[p].before)
      BY <1>1, <1>3, <1>5, <2>1, <2>7 DEF FollowOf
    <3>3. Followed(p, r) /\ r.status = a.before.status
      BY <2>1, <2>2, <3>1, <3>2, FollowRestored
    <3> QED
      BY <2>2, <2>7, <3>3 DEF Stored
  <2> QED
    BY <2>2, <2>5, <2>6, <2>7
<1> QED
  BY <1>4, <1>5

LEMMA FollowSoundNext ==
  ASSUME LogsOnce, Ground, SkipInv, ImageInv, [Next]_vars, ~Restart
  PROVE  FollowSound'
<1>1. SUFFICES ASSUME ~Stuck', NEW p \in Pairs PROVE FollowOf(p)'
  BY DEF FollowSound
<1>2. ~Stuck /\ ~HandlerFails
  BY <1>1, StuckStays, FailureSticks DEF Ground
<1>3. FollowOf(p)
  BY <1>2 DEF ImageInv, FollowSound
<1>4. CASE AdmitPair
  BY <1>4, FollowAdmit
<1>5. CASE HandleSwap
  BY <1>5, FollowSwap
<1>6. CASE Rewind
  BY <1>6, FollowRewind
<1>7. CASE Project
  BY <1>7, FollowProject
<1>8. ASSUME ~AdmitPair, ~HandleSwap, ~Rewind, ~Project PROVE FollowOf(p)'
  <2>1. row' = row
    BY <1>8, RowMoves
  <2>2. Unmoved(p)
    BY <2>1 DEF Unmoved
  <2>3. ASSUME request.pc = "project" PROVE request' = request /\ Affected' = Affected
    <3>1. request' = request /\ coord' = coord /\ audit' = audit
      BY <1>2, <1>8, <2>3, ProjectEnds DEF Ground
    <3> QED
      BY <3>1 DEF Affected
  <2>4. request'.pc = "project" => request.pc = "project"
    BY <1>8, LeadsTo DEF Ground
  <2>5. CASE session' = session
    <3>1. CASE request.pc # "project"
      BY <1>3, <2>2, <2>4, <2>5, <3>1, FollowStays
    <3>2. CASE request.pc = "project" /\ p \notin DOMAIN Affected
      BY <1>3, <2>2, <2>3, <2>5, <3>2, FollowStays
    <3>3. CASE request.pc = "project" /\ p \in DOMAIN Affected
      <4>1. PICK a : a = Affected[p]
        OBVIOUS
      <4>2. request'.pc = "project" /\ p \in DOMAIN Affected' /\ Affected'[p] = a
        BY <2>3, <3>3, <4>1
      <4>3. ~a.wallet /\ ~a.discovery => Followed(p, a.before)
        BY <1>3, <3>3, <4>1 DEF FollowOf
      <4>4. PICK s : s = a.before
        OBVIOUS
      <4>5. Followed(p, s) => Followed(p, s)'
        BY <2>2, FollowedStays
      <4> QED
        BY <4>2, <4>3, <4>4, <4>5 DEF FollowOf, Followed, Monitorable, Shape, Image
    <3> QED
      BY <3>1, <3>2, <3>3
  <2>6. CASE \E q \in Pairs : PolicySale(q)
    <3>1. PICK q \in Pairs : PolicySale(q)
      BY <2>6
    <3>2. /\ request' = request /\ request.pc # "project"
          /\ session' = [session EXCEPT ![q].status = "CLOSED"]
      BY <3>1 DEF PolicySale
    <3>3. session \in [Pairs -> SessionRecord]
      BY DEF SkipInv, SessionsTyped
    <3>4. CASE p # q
      BY <1>3, <2>2, <3>2, <3>3, <3>4, FollowStays
    <3>5. CASE p = q
      <4>1. PICK s : s = session'[p]
        OBVIOUS
      <4>2. s.status = "CLOSED"
        BY <3>2, <3>3, <3>5, <4>1 DEF SessionRecord
      <4>3. ~Monitorable(s) /\ Stored(s)
        BY <4>2 DEF Monitorable, Stored
      <4> QED
        BY <3>2, <4>1, <4>3 DEF FollowOf, Followed, Monitorable, Stored
    <3> QED
      BY <3>4, <3>5
  <2> QED
    BY <1>2, <1>8, <2>5, <2>6, WhoMoves
<1> QED
  BY <1>4, <1>5, <1>6, <1>7, <1>8

LEMMA ImageNext ==
  ASSUME LogsOnce, CreatedFirst, Ground, SkipInv, ImageInv, [Next]_vars, ~Restart
  PROVE  ImageInv'
<1>1. CreationSound' /\ InOrder' /\ TodoInOrder'
  BY CreationNext, InOrderNext, TodoInOrderNext
<1>2. Snapshots' /\ FollowSound'
  BY SnapshotsNext, FollowSoundNext
<1> QED
  BY <1>1, <1>2 DEF ImageInv

LEMMA ImageInit == Init => ImageInv
<1> SUFFICES ASSUME Init PROVE ImageInv
  OBVIOUS
<1>1. request.pc = "idle" /\ \A e \in Events : ~row[e].canonical
  BY DEF Init, Idle, NoRow
<1>2. \A e \in Buys : e \in Events
  BY DEF Buys
<1>3. CreationSound /\ InOrder /\ TodoInOrder /\ Snapshots
  BY <1>1, <1>2 DEF CreationSound, InOrder, TodoInOrder, Snapshots, SnapOf
<1>4. ASSUME NEW p \in Pairs PROVE FollowOf(p)
  <2>1. ~Monitorable(session[p])
    BY DEF Init, NoSession, Monitorable
  <2>2. Counts(p) = {}
    BY <1>1 DEF Counts, BuysOf
  <2> QED
    BY <1>1, <2>1, <2>2 DEF FollowOf, Followed
<1> QED
  BY <1>3, <1>4 DEF ImageInv, FollowSound

LEMMA ImageIsTrue ==
  ASSUME SkipInv, ImageInv
  PROVE  ProjectionTrue
<1> SUFFICES ASSUME NEW p \in Pairs, Monitorable(session[p]), request.pc # "project", ~Stuck
             PROVE  ({session[p].entry} \ {0}) \cup session[p].counted
                      = {e \in BuysOf(p) : row[e].canonical /\ Len(row[e].block) > Len(cutoff)}
  BY DEF ProjectionTrue
<1>1. Image(session[p]) = Counts(p)
  BY DEF ImageInv, FollowSound, FollowOf, Followed
<1>2. Len(cutoff) = 1 /\ \A e \in BuysOf(p) : row[e].canonical => Len(row[e].block) > 1
  BY DEF SkipInv, SessionsTyped, RowsSound, BuysOf
<1> QED
  BY <1>1, <1>2 DEF Image, Counts

\* Where no fork comes back, an event is emitted once and a pair is created once and
\* before its swaps, then as long as the process lives the swaps of a pair are handled
\* in the order of the chain, the snapshot saved with a swap is the image of the swaps
\* before it, and a session is that of all of them, through every rollback and replay
\* (onSwap, session_before of swap_events, rewindToAncestor, reconcilePair).
THEOREM ImageInvariant ==
  ASSUME ~Comeback, OneCreation, LogsOnce
  PROVE  Spec /\ [][~Restart]_vars /\ []CreatedFirst => [](SkipInv /\ ImageInv)
<1>1. Ground /\ SkipInv /\ CreatedFirst /\ ImageInv /\ [Next]_vars /\ [~Restart]_vars => ImageInv'
  <2>1. SUFFICES ASSUME Ground, SkipInv, CreatedFirst, ImageInv, [Next]_vars, [~Restart]_vars
                 PROVE  ImageInv'
    OBVIOUS
  <2>2. ~Restart
    BY <2>1, RestartChanges DEF Ground
  <2> QED
    BY <2>1, <2>2, ImageNext
<1> QED
  BY <1>1, ImageInit, SkipInvariant, PTL DEF Spec

\* Under the same assumptions a session that is followed is the image of the canonical
\* swaps of its pair and of nothing else, however chunks, failures, rollbacks, replays
\* and sales interleave, and a transaction whose event was orphaned leaves its session
\* to a human (reorg-session-reconciler.ts, rewindToAncestor).
THEOREM SessionsAreTrue ==
  ASSUME ~Comeback, OneCreation, LogsOnce
  PROVE  Spec /\ [][~Restart]_vars /\ []CreatedFirst => []SessionsSound
<1>1. SkipInv /\ ImageInv => ProjectionTrue
  BY ImageIsTrue
<1>2. ProjectionTrue /\ WalletKept => SessionsSound
  BY DEF SessionsSound
<1> QED
  BY <1>1, <1>2, ImageInvariant, WalletsAreKept, PTL
==============================================================================
