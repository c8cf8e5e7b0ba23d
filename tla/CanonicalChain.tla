---------------------------- MODULE CanonicalChain ----------------------------
(****************************************************************************)
(* The canonical chain: how a confirmed range is read, verified against the *)
(* stored journal and handed to a listener, how a divergence is found,      *)
(* rolled back and replayed (canonical-chain.coordinator.ts,                *)
(* canonical-chain.repository.ts, reorg-session-reconciler.ts, app.ts), and *)
(* what a fresh start keeps (fresh-start.repository.ts).                    *)
(*                                                                          *)
(* The node's confirmed chain is a sequence of fork labels, and the hash of *)
(* block n is its prefix of length n: a parent hash is the shorter prefix,  *)
(* so two headers are continuous iff one extends the other by one label.    *)
(* The coordinator runs one request at a time; a replay issues its requests *)
(* inside the finalization of the rollback that caused it.                  *)
(****************************************************************************)
EXTENDS Integers, Sequences, FiniteSets, FiniteSetsExt, SequencesExt

CONSTANTS
  Pairs,
  Events,        \* positive numbers
  Content,       \* [height -> [label -> the events of that block, in order]]
  PairOf,        \* the pair of an event
  Created,       \* the PairCreated events; the others are buys on their pair
  Incompatible,  \* the pairs whose token is no BEP-20: discovered, without a session
  Modes,         \* execution modes, "live" or "dry-run"
  Target,        \* targetBuysAfterEntry
  Retention,     \* DEFAULT_CANONICAL_RETENTION
  ChunkSize,
  MaxHeight,     \* bound on the confirmed head
  Forks,         \* bound on the replacements of blocks
  Comeback,      \* may an abandoned fork win again?
  Faults,        \* bound on failures, crashes and sales without an event, together
  Troubles       \* bound on forks and faults together

Heights == 1..MaxHeight
Labels == 1..Forks + 1
None == <<>>
PairCreated == "pair-created"
Listeners == Pairs \cup {PairCreated}

ASSUME ChainAssumption ==
  /\ PairCreated \notin Pairs /\ Incompatible \subseteq Pairs
  /\ Modes \subseteq {"live", "dry-run"}
  /\ Events \subseteq Nat \ {0} /\ Created \subseteq Events
  /\ \A e \in Events : PairOf[e] \in Pairs
  /\ \A n \in Heights, f \in Labels : Content[n][f] \in Seq(Events)
  /\ {Target, Retention, ChunkSize, MaxHeight} \subseteq Nat \ {0}
  /\ {Forks, Faults, Troubles} \subseteq Nat
  /\ Comeback \in BOOLEAN

VARIABLES
  chain,       \* the confirmed chain of the node
  cutoff,      \* the block of the fresh start
  journal,     \* canonical_blocks
  checkpoint,  \* listener_checkpoints; None: no row
  row,         \* discovered_tokens and swap_events: block, canonical, session_before
  session,     \* token_sessions
  wallet,      \* source events of the transactions of a pair; 0: no source event
  audit,       \* chain_reorgs
  coord,       \* the coordinator's status and the FIFO of pending rollbacks
  request,     \* the request that runs
  replay,      \* the finalization that runs
  asked,       \* checkpoints read by the grouped pass that waits for its turn
  monitor,     \* the listener of each pair: off, on or stopped
  retiring,    \* terminalRetirementOperations
  gone,        \* pairs whose listener was taken off since the grouped pass read them
  mode, left

nodeVars == <<chain, cutoff, mode>>
projections == <<row, session, wallet>>
storeVars == <<journal, checkpoint, projections, audit>>
monitors == <<monitor, retiring, gone>>
idleVars == <<coord, replay, asked, monitors>>
vars == <<nodeVars, storeVars, idleVars, request, left>>
requestOnly == UNCHANGED <<nodeVars, storeVars, idleVars, left>>

Upto(h, n) == SubSeq(h, 1, n)
Tip == CHOOSE h \in journal : \A g \in journal : Len(g) <= Len(h)
Spend(of) == /\ left[of] > 0 /\ left.all > 0
             /\ left' = [left EXCEPT ![of] = @ - 1, !.all = @ - 1]

NoSession == [status |-> "none", entry |-> 0, counted |-> {}]
Fresh == [NoSession EXCEPT !.status = "WAITING_FIRST_BUY"]
Monitorable(s) == s.status \in {"WAITING_FIRST_BUY", "HOLDING"}
NoRow == [block |-> None, canonical |-> FALSE, before |-> NoSession]
Idle == [pc |-> "idle", kind |-> "none", head |-> 0, from |-> 0, targets |-> <<>>,
         anchor |-> None, save |-> FALSE, first |-> 0, kept |-> FALSE,
         at |-> 0, scan |-> None, todo |-> <<>>, new |-> None]
NoReplay == [step |-> "none", again |-> FALSE]
InReplay == replay.step # "none"
NoReorg == <<None, None>>

Init ==
  /\ chain = <<1>> /\ cutoff = <<1>> /\ mode \in Modes
  /\ journal = {<<1>>}
  /\ checkpoint = [l \in Listeners |-> IF l = PairCreated THEN <<1>> ELSE None]
  /\ row = [e \in Events |-> NoRow]
  /\ session = [p \in Pairs |-> NoSession]
  /\ wallet = [p \in Pairs |-> <<>>]
  /\ audit = <<>>
  /\ coord = [state |-> "HEALTHY", ready |-> FALSE, last |-> NoReorg, pending |-> <<>>]
  /\ request = Idle /\ replay = NoReplay /\ asked = None
  /\ monitor = [p \in Pairs |-> "off"] /\ retiring = {} /\ gone = {}
  /\ left = [forks |-> Forks, faults |-> Faults, all |-> Troubles]

------------------------------------------------------------------------------
(* The node.                                                                *)

Extend ==
  /\ Len(chain) < MaxHeight
  /\ chain' = Append(chain, Last(chain))
  /\ UNCHANGED <<cutoff, mode, storeVars, idleVars, request, left>>

\* The blocks from n on are replaced by as many of another fork.
Replace ==
  /\ Spend("forks")
  /\ \E n \in 2..Len(chain), f \in Labels :
       /\ f # chain[n]
       /\ Comeback \/ f = Forks + 2 - left.forks
       /\ chain' = [i \in 1..Len(chain) |-> IF i < n THEN chain[i] ELSE f]
  /\ UNCHANGED <<cutoff, mode, storeVars, idleVars, request>>

\* The elements of s that are in S: SelectSeq, as a function one can prove about.
Keep(s, S) ==
  LET kept[i \in 0..Len(s)] ==
        IF i = 0 THEN <<>> ELSE IF s[i] \in S THEN Append(kept[i - 1], s[i]) ELSE kept[i - 1]
  IN kept[Len(s)]

\* A transaction is in one block of a chain only.
EventsAt(h) ==
  Keep(Content[Len(h)][Last(h)],
       {e \in Events : \A n \in 1..Len(h) - 1 : e \notin Range(Content[n][h[n]])})

------------------------------------------------------------------------------
(* reconcile() and execute(): a request.                                    *)

\* Requests are serialized, and outside a replay only a healthy chain is read.
Admitted(kind) ==
  /\ request = Idle
  /\ IF InReplay THEN replay.step = kind /\ coord.state # "MANUAL_REVIEW"
                 ELSE coord.state = "HEALTHY"
  /\ Len(Tip) <= Len(chain)

Start(kind, from, targets, anchor) ==
  request' = [Idle EXCEPT !.pc = "tip", !.kind = kind, !.head = Len(chain), !.from = from,
                          !.targets = targets, !.anchor = anchor]

\* PairCreated reads on from its own checkpoint.
PairsRequest ==
  /\ Admitted("pairs")
  /\ Start("pairs", Len(checkpoint[PairCreated]) + 1, <<>>, checkpoint[PairCreated])
  /\ UNCHANGED <<nodeVars, storeVars, idleVars, left>>

\* The grouped pass reads the checkpoints of its targets, then queues its request;
\* the orchestrator runs one pass at a time.
On == {p \in Pairs : monitor[p] = "on"}
Snapshot == [p \in On |-> checkpoint[p]]
Ask ==
  /\ ~InReplay /\ asked = None /\ On # {} /\ request.kind # "swaps"
  /\ asked' = Snapshot /\ gone' = {}
  /\ UNCHANGED <<nodeVars, storeVars, coord, replay, monitor, retiring, request, left>>

\* Without a row a pair is read from its creation, and nothing before the cutoff.
NextOf(c) == IF c = None THEN Len(cutoff) + 1 ELSE Len(c) + 1
FirstOf(targets) == Min({NextOf(targets[p]) : p \in DOMAIN targets})
Anchors(targets) ==
  {targets[p] : p \in {q \in DOMAIN targets : NextOf(targets[q]) = FirstOf(targets)}} \ {None}

SwapsRequest ==
  /\ Admitted("swaps")
  /\ LET targets == IF InReplay THEN Snapshot ELSE asked
     IN /\ DOMAIN targets # {} /\ Cardinality(Anchors(targets)) <= 1
        /\ Start("swaps", FirstOf(targets), [p \in DOMAIN targets |-> NextOf(targets[p])],
                 IF Anchors(targets) = {} THEN None ELSE CHOOSE c \in Anchors(targets) : TRUE)
  /\ asked' = IF InReplay THEN asked ELSE None
  /\ UNCHANGED <<nodeVars, storeVars, coord, replay, monitors, left>>

\* The coordinator ignores the request, or the checkpoints contradict each other.
DropAsked ==
  /\ asked # None /\ asked' = None
  /\ coord.state = "MANUAL_REVIEW" \/ Cardinality(Anchors(asked)) > 1
  /\ UNCHANGED <<nodeVars, storeVars, coord, replay, monitors, request, left>>

\* A request that throws ends the replay it belongs to.
Throw == request' = Idle /\ replay' = NoReplay

\* Faulty variant: the replay ends with the pairs.
PairsOnly(step) == "complete"

NextStep(step) == IF step = "pairs" THEN "admit" ELSE "complete"
Return(diverged) ==
  /\ request' = Idle
  /\ replay' = IF InReplay
               THEN [step |-> NextStep(replay.step), again |-> replay.again \/ diverged]
               ELSE NoReplay

RpcFails ==
  /\ request.pc \notin {"idle", "rewind", "project"} /\ Spend("faults")
  /\ Throw
  /\ UNCHANGED <<nodeVars, storeVars, coord, asked, monitors>>

WindowStart(head) == Max({1, head - Retention + 1})
Rows == {Len(checkpoint[l]) : l \in {k \in Listeners : checkpoint[k] # None}}
OldestCheckpoint == Max({Len(cutoff), Min(Rows)})
JournalStart(head) == Max({Len(cutoff), Min({OldestCheckpoint, WindowStart(head)})})
Known == {h \in journal : Len(h) > Len(Tip) - Retention /\ Len(h) >= Len(cutoff)}
Cached(head) == /\ head - JournalStart(head) + 1 <= Retention
                /\ \A n \in JournalStart(head)..head : \E h \in Known : Len(h) = n
ScanStart ==
  Min({request.head + 1}
      \cup (IF Cached(request.head) THEN {} ELSE {JournalStart(request.head)})
      \cup (IF request.from <= request.head THEN {request.from} ELSE {}))

\* The stored tip against the block of its number: the same, or a divergence.
TipHolds ==
  /\ request.pc = "tip" /\ Upto(chain, Len(Tip)) = Tip
  /\ request' = [request EXCEPT
       !.pc = "scan", !.at = ScanStart, !.first = JournalStart(request.head),
       !.save = ~Cached(request.head),
       !.scan = IF ScanStart = Len(Tip) + 1 THEN Tip
                ELSE IF ScanStart = Len(request.anchor) + 1 THEN request.anchor ELSE None]
  /\ requestOnly

TipDiverges ==
  /\ request.pc = "tip" /\ Upto(chain, Len(Tip)) # Tip
  /\ request' = [request EXCEPT !.pc = "new tip", !.scan = Upto(chain, Len(Tip))]
  /\ requestOnly

\* Faulty variant: a header is only linked to the one before.
LinkedOnly(h) == request.scan # None => Upto(h, Len(h) - 1) = request.scan

\* A header continues the one before, and agrees with the journal and the checkpoint.
Verified(h) ==
  /\ request.scan # None => Upto(h, Len(h) - 1) = request.scan
  /\ \A g \in Known : Len(g) = Len(h) => g = h
  /\ Len(request.anchor) = Len(h) => request.anchor = h

\* prepareCanonicalScan.
ScanHeader ==
  /\ request.pc = "scan" /\ request.at <= request.head
  /\ Verified(Upto(chain, request.at))
  /\ request' = [request EXCEPT !.scan = Upto(chain, request.at), !.at = @ + 1]
  /\ requestOnly

ScanThrows ==
  /\ request.pc = "scan" /\ request.at <= request.head
  /\ ~Verified(Upto(chain, request.at))
  /\ Throw
  /\ UNCHANGED <<nodeVars, storeVars, coord, asked, monitors, left>>

\* persistJournal: one row per number.
PersistJournal ==
  /\ request.pc = "scan" /\ request.at > request.head
  /\ LET saved == IF request.save THEN {Upto(request.scan, n) : n \in request.first..request.head}
                                  ELSE {}
     IN journal' = saved \cup {h \in journal : \A g \in saved : Len(g) # Len(h)}
  /\ request' = [request EXCEPT !.pc = "chunk", !.kept = request.save]
  /\ UNCHANGED <<nodeVars, checkpoint, projections, audit, idleVars, left>>

------------------------------------------------------------------------------
(* processChunk, under the runtime barrier: PairCreated or the grouped pass. *)

Until == Min({request.head, request.from + ChunkSize - 1})
Concerned == {p \in DOMAIN request.targets : request.targets[p] <= Until}
\* The listeners the pass has read, and not those that a pair was given since.
AllActive == Concerned \subseteq On /\ (InReplay \/ Concerned \cap gone = {})

\* The logs of block n that the node returns.
Answer(n) ==
  Keep(EventsAt(Upto(chain, n)),
       IF request.kind = "pairs" THEN Created
       ELSE {e \in Events \ Created : PairOf[e] \in Concerned})

\* A log of a block that is not the prepared one.
Foreign == \E n \in request.from..Until :
             Upto(chain, n) # Upto(request.scan, n) /\ Answer(n) # <<>>

\* Of a pair that has been read further, only what follows counts.
Todo ==
  LET of(n) == Keep(Answer(n), IF request.kind = "pairs" THEN Events
                                ELSE {e \in Events : PairOf[e] \in Concerned
                                                      /\ request.targets[PairOf[e]] <= n})
      placed(n) == [i \in DOMAIN of(n) |-> [event |-> of(n)[i], block |-> Upto(request.scan, n)]]
  IN FlattenSeq([i \in 1..(Until - request.from + 1) |-> placed(request.from + i - 1)])

AtChunk == request.pc = "chunk" /\ request.from <= request.head

ReadLogs ==
  /\ AtChunk /\ AllActive /\ ~Foreign
  /\ request' = [request EXCEPT !.pc = "logs", !.todo = Todo]
  /\ requestOnly

ChunkThrows ==
  /\ \/ AtChunk /\ (~AllActive \/ Foreign)
     \/ request.pc = "logs" /\ ~AllActive
  /\ Throw
  /\ UNCHANGED <<nodeVars, storeVars, coord, asked, monitors, left>>

Log == Head(request.todo)
Processed == [block |-> Log.block, canonical |-> TRUE, before |-> session[PairOf[Log.event]]]
NextLog == request' = [request EXCEPT !.todo = Tail(@)]

\* restoreReappearedPairSession: a discovery that a reorg had taken back.
Reappeared(p) == session[p].status = "REJECTED" /\ wallet[p] = <<>>

\* PairAdmissionService.admit.
AdmitPair ==
  /\ request.pc = "logs" /\ request.kind = "pairs" /\ request.todo # <<>>
  /\ LET p == PairOf[Log.event]
         admitted == monitor[p] = "off" /\ (session[p] = NoSession \/ Reappeared(p))
     IN /\ row' = IF admitted THEN [row EXCEPT ![Log.event] = Processed] ELSE row
        /\ session' = IF admitted /\ p \notin Incompatible
                      THEN [session EXCEPT ![p] = Fresh] ELSE session
  /\ NextLog
  /\ UNCHANGED <<nodeVars, journal, checkpoint, wallet, audit, idleVars, left>>

Transact(p, source) == wallet' = IF mode = "live" THEN [wallet EXCEPT ![p] = Append(@, source)]
                                                  ELSE wallet

\* claim: an event that a reorg orphaned can be claimed again.
Claims(e) == ~row[e].canonical

\* onSwap: the first buy is followed, the Target-th one after it sells.
HandleSwap ==
  /\ request.pc = "logs" /\ request.kind = "swaps" /\ request.todo # <<>> /\ AllActive
  /\ LET e == Log.event
         p == PairOf[e]
         s == session[p]
         buys == s.status = "WAITING_FIRST_BUY"
         counts == s.status = "HOLDING"
         sells == counts /\ Cardinality(s.counted) + 1 >= Target
         after == CASE buys  -> [s EXCEPT !.status = "HOLDING", !.entry = e]
                    [] sells -> [s EXCEPT !.status = "CLOSED", !.counted = @ \cup {e}]
                    [] counts /\ ~sells -> [s EXCEPT !.counted = @ \cup {e}]
                    [] OTHER -> s
     IN IF Claims(e)
        THEN /\ row' = [row EXCEPT ![e] = Processed]
             /\ session' = [session EXCEPT ![p] = after]
             /\ IF buys \/ sells THEN Transact(p, e) ELSE UNCHANGED wallet
             /\ IF Monitorable(after) THEN UNCHANGED monitors
                ELSE /\ monitor' = [monitor EXCEPT ![p] = "stopped"]
                     /\ retiring' = retiring \cup {p} /\ UNCHANGED gone
        ELSE UNCHANGED <<projections, monitors>>
  /\ NextLog
  /\ UNCHANGED <<nodeVars, journal, checkpoint, audit, coord, replay, asked, left>>

\* The handling of a log fails: the events before it stay processed.
HandlingFails ==
  /\ request.pc = "logs" /\ request.todo # <<>> /\ Spend("faults")
  /\ Throw
  /\ UNCHANGED <<nodeVars, storeVars, coord, asked, monitors>>

\* Faulty variant: the checkpoint is the head of the request, not the end of the chunk.
CommitHead ==
  /\ request.pc = "logs" /\ request.todo = <<>> /\ AllActive
  /\ LET moved == IF request.kind = "pairs" THEN {PairCreated} ELSE Concerned
     IN /\ checkpoint' = [l \in Listeners |-> IF l \in moved THEN request.scan ELSE checkpoint[l]]
        /\ request' = [request EXCEPT !.pc = "chunk", !.from = Until + 1,
             !.kept = @ \/ request.kind = "pairs",
             !.targets = [p \in DOMAIN @ |-> IF p \in moved THEN Until + 1 ELSE @[p]]]
  /\ UNCHANGED <<nodeVars, journal, projections, audit, idleVars, left>>

\* setManyAtomically of the grouped pass, or setCheckpoint: the end of the chunk.
CommitChunk ==
  /\ request.pc = "logs" /\ request.todo = <<>> /\ AllActive
  /\ LET moved == IF request.kind = "pairs" THEN {PairCreated} ELSE Concerned
     IN /\ checkpoint' = [l \in Listeners |-> IF l \in moved THEN Upto(request.scan, Until)
                                                             ELSE checkpoint[l]]
        /\ request' = [request EXCEPT !.pc = "chunk", !.from = Until + 1,
             !.kept = @ \/ request.kind = "pairs",
             !.targets = [p \in DOMAIN @ |-> IF p \in moved THEN Until + 1 ELSE @[p]]]
  /\ UNCHANGED <<nodeVars, journal, projections, audit, idleVars, left>>

\* The end of the request: the journal keeps the window and the oldest checkpoint.
Prune ==
  /\ request.pc = "chunk" /\ request.from > request.head
  /\ journal' = IF request.kept
                THEN {h \in journal : Len(h) >= JournalStart(request.head)} ELSE journal
  /\ Return(FALSE)
  /\ UNCHANGED <<nodeVars, checkpoint, projections, audit, coord, asked, monitors, left>>

------------------------------------------------------------------------------
(* reconcileDivergence: the ancestor, the rollback, the sessions.           *)

ReadNewTip ==
  /\ request.pc = "new tip"
  /\ request' = [request EXCEPT !.pc = "walk", !.new = Upto(chain, request.head),
                                !.at = Len(Tip) - 1]
  /\ requestOnly

\* Is block number at in the retained window?
InWindow == \E h \in Known : Len(h) = request.at

\* The stored block is on the node's chain too: the ancestor.
Walk ==
  /\ request.pc = "walk" /\ InWindow
  /\ LET remote == Upto(chain, request.at)
     IN /\ remote = Upto(request.scan, request.at)
        /\ request' = IF remote \in journal
                      THEN [request EXCEPT !.pc = "verify", !.scan = remote]
                      ELSE [request EXCEPT !.at = @ - 1]
  /\ requestOnly

NoAncestor ==
  /\ request.pc = "walk" /\ ~InWindow
  /\ request' = [request EXCEPT !.pc = "verify", !.scan = None]
  /\ requestOnly

\* A block read changed since: discontinuity, or another tip.
WalkThrows ==
  /\ \/ /\ request.pc = "walk" /\ InWindow
        /\ Upto(chain, request.at) # Upto(request.scan, request.at)
     \/ request.pc = "verify" /\ Upto(chain, request.head) # request.new
  /\ Throw
  /\ UNCHANGED <<nodeVars, storeVars, coord, asked, monitors, left>>

Reorg == <<Tip, request.new>>
Status(state, ready, last) == [coord EXCEPT !.state = state, !.ready = ready, !.last = last]

Diverge ==
  /\ request.pc = "verify" /\ Upto(chain, request.head) = request.new
  /\ request' = [request EXCEPT !.pc = "rewind"]
  /\ coord' = Status("RECONCILING", FALSE, Reorg)
  /\ UNCHANGED <<nodeVars, storeVars, replay, asked, monitors, left>>

\* The audit with an entry for the divergence at hand.
Audited(entry) ==
  [id \in DOMAIN audit \cup {coord.last} |-> IF id = coord.last THEN entry ELSE audit[id]]

\* What becomes of the audit of a rollback that a human has to look at.
Reviewed == [audit EXCEPT ![coord.last].status = IF @ = "RECONCILING" THEN "MANUAL_REVIEW" ELSE @]

\* recordDeepReorg; FreshStartBoundaryError.
DeepReorg ==
  /\ request.pc = "rewind" /\ request.scan = None
  /\ coord' = Status("MANUAL_REVIEW", FALSE, coord.last)
  /\ audit' = IF coord.last \in DOMAIN audit THEN Reviewed
              ELSE Audited([status |-> "MANUAL_REVIEW", affected |-> <<>>])
  /\ Throw
  /\ UNCHANGED <<nodeVars, journal, checkpoint, projections, asked, monitors, left>>

Above(h) == {e \in Events : row[e].canonical /\ Len(row[e].block) > Len(h)}
Precedes(e, f) ==
  \/ Len(row[e].block) < Len(row[f].block)
  \/ /\ row[e].block = row[f].block
     /\ LET logs == EventsAt(row[e].block)
        IN \E i, j \in DOMAIN logs : i < j /\ logs[i] = e /\ logs[j] = f
BuysOf(p) == {e \in Events \ Created : PairOf[e] = p}

\* Faulty variant: no transaction is traced to the event it answered.
NoTransaction(p, orphans) == FALSE

\* The pair has a transaction whose source event is orphaned.
TouchesWallet(p, orphans) == Range(wallet[p]) \cap orphans # {}

\* Faulty variant: the snapshot of the last orphaned buy.
LastBuy(buys) == CHOOSE e \in buys : \A f \in buys \ {e} : Precedes(f, e)

FirstBuy(buys) == CHOOSE e \in buys : \A f \in buys \ {e} : Precedes(e, f)

\* What the rollback means for a pair: its discovery, its transactions, its session.
Impact(p, orphans) ==
  LET buys == orphans \cap BuysOf(p)
  IN [discovery |-> \E e \in orphans \cap Created : PairOf[e] = p,
      wallet |-> TouchesWallet(p, orphans),
      before |-> IF buys = {} THEN NoSession ELSE row[FirstBuy(buys)].before]

\* Faulty variants: the rollback forgets the events, or the checkpoints.
KeptRow(e) == row[e]
KeptCheckpoint(l) == checkpoint[l]

RewoundRow(e) ==
  [row[e] EXCEPT !.canonical = @ /\ Len(row[e].block) <= Len(request.scan)]
RewoundCheckpoint(l) ==
  IF Len(checkpoint[l]) > Len(request.scan) THEN request.scan ELSE checkpoint[l]

\* rewindToAncestor, one transaction; a rollback known to the audit is not repeated.
Rewind ==
  /\ request.pc = "rewind" /\ request.scan # None
  /\ LET orphans == Above(request.scan)
         affected == [p \in {PairOf[e] : e \in orphans} |-> Impact(p, orphans)]
     IN IF coord.last \in DOMAIN audit THEN UNCHANGED <<row, journal, checkpoint, audit>>
        ELSE /\ row' = [e \in Events |-> RewoundRow(e)]
             /\ journal' = {h \in journal : Len(h) <= Len(request.scan)}
             /\ checkpoint' = [l \in Listeners |-> RewoundCheckpoint(l)]
             /\ audit' = Audited([status |-> "RECONCILING", affected |-> affected])
  /\ request' = [request EXCEPT !.pc = "project"]
  /\ UNCHANGED <<nodeVars, session, wallet, idleVars, left>>

Affected == audit[coord.last].affected
Lost == {p \in DOMAIN Affected : Affected[p].wallet}

\* The session before the first orphaned buy, with the buys that are still canonical.
Restored(p) ==
  LET s == Affected[p].before
      still == {e \in BuysOf(p) : row[e].canonical}
  IN IF s.entry = 0 THEN s
     ELSE [s EXCEPT !.counted = {e \in still : Precedes(s.entry, e)}]

\* reconcilePair.
Reconciled(p) ==
  CASE Affected[p].wallet -> [session[p] EXCEPT !.status = "MANUAL_REVIEW"]
    [] ~Affected[p].wallet /\ Affected[p].discovery -> [session[p] EXCEPT !.status = "REJECTED"]
    [] ~Affected[p].wallet /\ ~Affected[p].discovery /\ Affected[p].before = NoSession ->
         [session[p] EXCEPT !.status = "MANUAL_REVIEW"]
    [] OTHER -> Restored(p)

Missing == {p \in DOMAIN Affected : session[p] = NoSession}

\* The sessions, the listeners and the end of the handler: a review, or a replay to come.
Project ==
  /\ request.pc = "project" /\ Missing = {}
  /\ session' = [p \in Pairs |-> IF p \in DOMAIN Affected THEN Reconciled(p) ELSE session[p]]
  /\ monitor' = [p \in Pairs |-> IF Monitorable(session'[p]) THEN monitor[p] ELSE "off"]
  /\ gone' = gone \cup {p \in DOMAIN asked : monitor'[p] = "off"}
  /\ IF Lost # {}
     THEN /\ coord' = Status("MANUAL_REVIEW", FALSE, coord.last)
          /\ audit' = Reviewed
     ELSE /\ coord' = [Status("RECONCILING", TRUE, coord.last)
                         EXCEPT !.pending = Append(@, coord.last)]
          /\ audit' = audit
  /\ Return(TRUE)
  /\ UNCHANGED <<nodeVars, journal, checkpoint, row, wallet, asked, retiring, left>>

\* The handler throws: nothing of the rollback, or it and some of the sessions, is saved.
HandlerFails ==
  /\ \/ request.pc = "rewind" /\ request.scan # None /\ Spend("faults") /\ UNCHANGED session
     \/ /\ request.pc = "project"
        /\ IF Missing # {} THEN UNCHANGED left ELSE Spend("faults")
        /\ \E saved \in SUBSET (DOMAIN Affected \ Missing) :
             /\ saved # DOMAIN Affected
             /\ session' = [p \in Pairs |-> IF p \in saved THEN Reconciled(p) ELSE session[p]]
  /\ Throw
  /\ UNCHANGED <<nodeVars, journal, checkpoint, row, wallet, audit, coord, asked, monitors>>

------------------------------------------------------------------------------
(* finalizePendingReorg: the replay of the pending rollbacks.               *)

Stuck == coord.state = "RECONCILING" /\ ~coord.ready /\ request = Idle

\* Faulty variant: the rollback leaves the queue before it is replayed.
FinalizeShifted ==
  /\ coord.state = "RECONCILING" /\ coord.ready /\ coord.pending # <<>>
  /\ request = Idle /\ ~InReplay
  /\ replay' = [step |-> "pairs", again |-> FALSE]
  /\ coord' = [coord EXCEPT !.pending = Tail(@)]
  /\ UNCHANGED <<nodeVars, storeVars, asked, monitors, request, left>>

Finalize ==
  /\ coord.state = "RECONCILING" /\ coord.ready /\ coord.pending # <<>>
  /\ request = Idle /\ ~InReplay
  /\ replay' = [step |-> "pairs", again |-> FALSE]
  /\ UNCHANGED <<nodeVars, storeVars, coord, asked, monitors, request, left>>

\* admitReorgReplaySessions: the listeners of the restored sessions.
AdmitReplay ==
  /\ replay.step = "admit"
  /\ monitor' = [p \in Pairs |-> IF monitor[p] = "off" /\ Monitorable(session[p]) THEN "on"
                                 ELSE monitor[p]]
  /\ replay' = [replay EXCEPT !.step = "swaps"]
  /\ UNCHANGED <<nodeVars, storeVars, coord, asked, retiring, gone, request, left>>

\* Nothing to read, or the coordinator ignores the request.
SkipStep ==
  /\ request = Idle /\ replay.step \in {"pairs", "swaps"}
  /\ coord.state = "MANUAL_REVIEW" \/ (replay.step = "swaps" /\ On = {})
  /\ replay' = [replay EXCEPT !.step = NextStep(@)]
  /\ UNCHANGED <<nodeVars, storeVars, coord, asked, monitors, request, left>>

\* completeReorg of the oldest pending rollback; the next one, or the promotion.
Complete ==
  /\ request = Idle /\ replay.step = "complete"
  /\ LET done == Head(coord.pending)
         next == replay.again /\ coord.state = "RECONCILING" /\ Len(coord.pending) > 1
         healthy == ~replay.again /\ coord.state = "RECONCILING" /\ done = coord.last
     IN /\ audit' = [audit EXCEPT ![done].status = IF @ = "RECONCILING" THEN "RECOVERED" ELSE @]
        /\ coord' = [coord EXCEPT !.pending = Tail(@),
                                  !.state = IF healthy THEN "HEALTHY" ELSE @,
                                  !.ready = @ /\ ~healthy]
        /\ replay' = IF next THEN [step |-> "pairs", again |-> FALSE] ELSE NoReplay
  /\ UNCHANGED <<nodeVars, journal, checkpoint, projections, asked, monitors, request, left>>

------------------------------------------------------------------------------
(* Beside the coordinator.                                                  *)

\* The scheduler starts a listener.
StartMonitor(p) ==
  /\ ~InReplay /\ monitor[p] = "off" /\ Monitorable(session[p])
  /\ monitor' = [monitor EXCEPT ![p] = "on"]
  /\ UNCHANGED <<nodeVars, storeVars, coord, replay, asked, retiring, gone, request, left>>

\* retireTerminalMonitor, once the pass the pair took part in is over; late, it takes
\* the listener away that a replay has given the pair since.
Retire(p) ==
  /\ p \in retiring /\ retiring' = retiring \ {p}
  /\ p \notin DOMAIN request.targets
  /\ monitor' = [monitor EXCEPT ![p] = "off"]
  /\ gone' = gone \cup ({p} \cap DOMAIN asked)
  /\ checkpoint' = [checkpoint EXCEPT ![p] = None]
  /\ UNCHANGED <<nodeVars, journal, projections, audit, coord, replay, asked, request, left>>

\* The exit monitor, or a manual sale: no event is its source.
PolicySale(p) ==
  /\ session[p].status = "HOLDING" /\ request.pc \notin {"rewind", "project"}
  /\ Spend("faults")
  /\ session' = [session EXCEPT ![p].status = "CLOSED"]
  /\ Transact(p, 0)
  /\ UNCHANGED <<nodeVars, journal, checkpoint, row, audit, idleVars, request>>

Active == {"WAITING_FIRST_BUY", "HOLDING", "MANUAL_REVIEW"}

\* A crash, and the fresh start of the next process at the confirmed head.
Restart ==
  /\ Spend("faults")
  /\ Len(chain) >= Len(cutoff) /\ (Len(chain) = Len(cutoff) => chain = cutoff)
  /\ cutoff' = chain /\ journal' = {chain}
  /\ checkpoint' = [l \in Listeners |-> IF l = PairCreated \/ checkpoint[l] # None THEN chain
                                        ELSE None]
  /\ session' = [p \in Pairs |-> IF session[p].status \in Active
                                 THEN [session[p] EXCEPT !.status = "MANUAL_REVIEW"] ELSE session[p]]
  /\ coord' = [state |-> "HEALTHY", ready |-> FALSE, last |-> NoReorg, pending |-> <<>>]
  /\ request' = Idle /\ replay' = NoReplay /\ asked' = None
  /\ monitor' = [p \in Pairs |-> "off"] /\ retiring' = {} /\ gone' = {}
  /\ UNCHANGED <<chain, mode, row, wallet, audit>>

Reading == \/ PairsRequest \/ SwapsRequest \/ TipHolds \/ TipDiverges \/ ScanHeader \/ ScanThrows
           \/ PersistJournal \/ ReadLogs \/ ChunkThrows \/ AdmitPair \/ HandleSwap
           \/ CommitChunk \/ Prune
RollingBack == \/ ReadNewTip \/ Walk \/ NoAncestor \/ WalkThrows \/ Diverge \/ DeepReorg
               \/ Rewind \/ Project
Replaying == Finalize \/ AdmitReplay \/ SkipStep \/ Complete
Faulting == RpcFails \/ HandlingFails \/ HandlerFails \/ Restart \/ Replace
Beside == Ask \/ DropAsked \/ \E p \in Pairs : StartMonitor(p) \/ Retire(p) \/ PolicySale(p)

Next == Extend \/ Reading \/ RollingBack \/ Replaying \/ Faulting \/ Beside

Spec == Init /\ [][Next]_vars

\* Promises resolve; the tail is first in, first out, so neither kind of request
\* is passed over for ever; the intervals and the scheduler ask again.
Fairness ==
  /\ WF_vars(Reading \/ RollingBack \/ Replaying)
  /\ WF_vars(request.pc = "project" /\ Missing # {} /\ HandlerFails)
  /\ SF_vars(PairsRequest) /\ SF_vars(SwapsRequest)
  /\ WF_vars(Ask) /\ WF_vars(DropAsked)
  /\ \A p \in Pairs : WF_vars(StartMonitor(p)) /\ WF_vars(Retire(p))

FairSpec == Spec /\ Fairness

------------------------------------------------------------------------------
(* What the canonical chain promises.                                       *)

Outcomes == {"RECONCILING", "RECOVERED", "MANUAL_REVIEW"}

\* Types, and the shape of the coordinator's bookkeeping: a pending rollback has
\* an audit, and a replay runs on behalf of one.
ChainTypeOK ==
  /\ chain \in Seq(Labels) /\ Len(chain) \in Heights /\ Len(cutoff) \in Heights
  /\ \A l \in Listeners : checkpoint[l] \in Seq(Labels)
  /\ \A id \in DOMAIN audit : audit[id].status \in Outcomes
  /\ \A i \in DOMAIN coord.pending : coord.pending[i] \in DOMAIN audit
  /\ InReplay => coord.pending # <<>> /\ coord.state # "HEALTHY"
  /\ \A p \in Pairs : monitor[p] \in {"off", "on", "stopped"}

\* The stored chain is one chain: the journal has no gap, every block continues
\* the one before, and every checkpoint stands on it
\* (persistJournal, pruneCanonicalBefore, rewindToAncestor, setCheckpoint).
StoredChain ==
  /\ \A h \in journal : IsPrefix(h, Tip)
  /\ \A h \in journal, n \in Heights : Len(h) < n /\ n < Len(Tip) => Upto(Tip, n) \in journal
  /\ \A l \in Listeners : IsPrefix(checkpoint[l], Tip)

\* An event counts as canonical only as long as its block is on the stored chain.
CanonicalRows ==
  \A e \in Events : row[e].canonical /\ Len(row[e].block) > Len(cutoff) =>
    IsPrefix(row[e].block, Tip)

\* "A checkpoint is advanced only after ... all its logs have been processed":
\* up to a checkpoint that is on the node's chain, every swap of the pair has been
\* handled under its block, and every discovered pair has a session.
NothingSkipped ==
  \A l \in Listeners, n \in Heights :
    n \in Len(cutoff) + 1..Len(checkpoint[l]) /\ Upto(chain, Len(checkpoint[l])) = checkpoint[l] =>
      \A e \in Range(EventsAt(Upto(chain, n))) :
        IF e \in Created
        THEN l = PairCreated /\ PairOf[e] \notin Incompatible =>
               session[PairOf[e]] # NoSession /\ ~Reappeared(PairOf[e])
        ELSE l = PairOf[e] => row[e].canonical /\ row[e].block = Upto(chain, n)

\* A session that is followed is the image of the canonical swaps of its pair and
\* of nothing else: a rollback takes back what the lost blocks had done to it.
ProjectionTrue ==
  \A p \in Pairs : Monitorable(session[p]) /\ request.pc # "project" /\ ~Stuck =>
    ({session[p].entry} \ {0}) \cup session[p].counted
      = {e \in BuysOf(p) : row[e].canonical /\ Len(row[e].block) > Len(cutoff)}

\* A transaction whose source event was orphaned leaves its session to a human.
WalletKept ==
  \A p \in Pairs, e \in Events :
    (/\ request.pc # "project" /\ ~Stuck
     /\ e \in Range(wallet[p]) /\ ~row[e].canonical /\ Len(row[e].block) > Len(cutoff))
    => session[p].status = "MANUAL_REVIEW"

\* The stored chain and its events are one chain.
ChainSound == ChainTypeOK /\ StoredChain /\ CanonicalRows

\* The sessions say what the canonical events and the wallet say.
SessionsSound == ProjectionTrue /\ WalletKept

\* The chain is healthy again only once every listener has replayed it at least
\* to the tip that won.
HealthyReplayed ==
  [][coord.state = "RECONCILING" /\ coord'.state = "HEALTHY" /\ ~Restart =>
       \A l \in On \cup {PairCreated} : Len(checkpoint[l]) >= Len(coord.last[2])]_vars

\* When the node settles, the listeners reach its head, or the coordinator is
\* visibly held for a human, or for a restart after a handler that failed.
Settled == /\ coord.state = "HEALTHY" /\ Tip = chain
           /\ \A l \in On \cup {PairCreated} : checkpoint[l] = chain
CatchesUp == <>[](coord.state = "MANUAL_REVIEW" \/ Stuck \/ Settled)

\* "A confirmed wallet transaction is authoritative evidence of wallet state": a
\* position that was sold is never held again.
SoldStaysSold == \A p \in Pairs : Len(wallet[p]) > 1 => session[p].status # "HOLDING"
=============================================================================
