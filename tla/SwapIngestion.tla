---------------------------- MODULE SwapIngestion ----------------------------
(****************************************************************************)
(* How the swaps of the chain reach the sessions: the grouped pass over all *)
(* monitored pairs (swap-log-batch-reconciler.ts), what a listener does     *)
(* with one log (swap.listener.ts), the claim of an event and its handling  *)
(* (session-engine.ts, entry-observation.ts, SwapEventRepository), the      *)
(* checkpoint of each pair, and the stop, retirement and return of          *)
(* monitors beside a running pass (app.ts, terminal-monitor-retirement.ts). *)
(*                                                                          *)
(* Log is the log of swaps in canonical order; an event is its position in  *)
(* it.  The handling of one event runs under the lock of its pair, which    *)
(* every other operation on that session takes too (SessionLocks), so it is *)
(* one step.                                                                *)
(****************************************************************************)
EXTENDS Integers, Sequences, FiniteSets, FiniteSetsExt

CONSTANTS
  Pairs,
  Log,            \* the swaps: pair, block, tx and kind of each
  FirstBuys,      \* ENTRY_OBSERVATION_BUYS
  TargetBuys,     \* targetBuysAfterEntry
  ChunkSize,      \* blocks of a chunk
  MarkFaults,     \* may markFailed fail too?
  Faults,         \* bound on the passes that fail
  Disturbances    \* bound on the stops and returns of monitors

Events == DOMAIN Log
Blocks == {Log[e].block : e \in Events}

ASSUME IngestionAssumption ==
  /\ Log \in Seq([pair : Pairs, block : Nat \ {0}, tx : Nat, kind : {"BUY", "SELL"}])
  /\ \A e, f \in Events : e < f => Log[e].block <= Log[f].block
  /\ FirstBuys \in Nat \ {0} /\ TargetBuys \in Nat \ {0}
  /\ ChunkSize \in Nat \ {0}
  /\ MarkFaults \in BOOLEAN /\ Faults \in Nat /\ Disturbances \in Nat

VARIABLES
  head,          \* the last confirmed block of the node
  checkpoint,    \* listener_checkpoints; 0: no row, the pair is read from its creation
  row,           \* processing_status of the events in swap_events
  session,       \* the row of token_sessions
  monitor,       \* the listener of the pair: running, being retired, or none
  pass,          \* the running pass
  left           \* faults and disturbances left

vars == <<head, checkpoint, row, session, monitor, pass, left>>
passUnchanged == UNCHANGED <<head, checkpoint, row, session, monitor, left>>

Waiting == "WAITING_FIRST_BUY"
InFlight == {"RISK_CHECKING", "BUY_PENDING", "SELL_PENDING"}
Status == InFlight \cup {Waiting, "HOLDING", "MANUAL_REVIEW", "CLOSED", "REJECTED", "EXPIRED"}
Monitorable(s) == s.status \in {Waiting, "HOLDING"}
EventsOf(p) == {e \in Events : Log[e].pair = p}

NoPass == [pc |-> "idle", live |-> {}, next |-> <<>>, from |-> 0, head |-> 0, done |-> 0]
On == {p \in Pairs : monitor[p] = "on"}

IngestInit ==
  /\ head = 0
  /\ checkpoint = [p \in Pairs |-> 0]
  /\ row = [e \in Events |-> "none"]
  /\ session = [p \in Pairs |-> [status |-> Waiting, observed |-> {}, entry |-> 0, counted |-> {}]]
  /\ monitor = [p \in Pairs |-> "on"]
  /\ pass = NoPass
  /\ left = [faults |-> Faults, disturbances |-> Disturbances]

------------------------------------------------------------------------------
(* The pass: a snapshot of targets, then chunk after chunk.                 *)

\* reconcile: the targets asked for, each from the block after its checkpoint.
Snapshot(targets) ==
  /\ pass.pc = "idle" /\ targets # {}
  /\ LET next == [p \in targets |-> checkpoint[p] + 1]
     IN pass' = [pc |-> "chunk", live |-> targets, next |-> next,
                 from |-> Min({next[p] : p \in targets}), head |-> head, done |-> 0]
  /\ passUnchanged

\* The interval asks for every listener, a signal for some.
PassOfAll == Snapshot(On)
PassOfSome == \E targets \in (SUBSET On) \ {On} : Snapshot(targets)

Until == IF pass.from + ChunkSize - 1 < pass.head THEN pass.from + ChunkSize - 1 ELSE pass.head
Targets == DOMAIN pass.next

\* Faulty variant: the whole snapshot counts as read up to the end of the chunk.
ConcernedAll == Targets

\* The pairs that have not been read beyond the chunk.
Concerned == {p \in Targets : pass.next[p] <= Until}

\* assertActive of every concerned pair.
AllActive == Concerned \subseteq pass.live

Step(pc) == pass' = [pass EXCEPT !.pc = pc]
EndPass == pass' = NoPass
Spend(of) == left[of] > 0 /\ left' = [left EXCEPT ![of] = @ - 1]

PassDone == pass.pc = "chunk" /\ pass.from > pass.head /\ EndPass /\ passUnchanged

BeginChunk ==
  /\ pass.pc = "chunk" /\ pass.from <= pass.head /\ AllActive
  /\ Step("expire")
  /\ passUnchanged

\* expireIfNeeded of every concerned pair: if one has waited too long its
\* listener stops and the chunk, and with it the pass, ends without an error.
Expire ==
  /\ pass.pc = "expire"
  /\ \E late \in SUBSET {p \in Concerned \cap pass.live : session[p].status = Waiting} :
       /\ late # {}
       /\ session' = [p \in Pairs |->
                        IF p \in late THEN [session[p] EXCEPT !.status = "EXPIRED"] ELSE session[p]]
       /\ monitor' = [p \in Pairs |-> IF p \in late THEN "retiring" ELSE monitor[p]]
  /\ EndPass
  /\ UNCHANGED <<head, checkpoint, row, left>>

NoneExpires == pass.pc = "expire" /\ AllActive /\ Step("read") /\ passUnchanged

\* getContractEvents of every batch of addresses, merged and sorted.
ReadLogs == pass.pc = "read" /\ Step("logs") /\ passUnchanged

\* The logs of the chunk that are still to be handed to their listener.
Pending ==
  {e \in Events : /\ e > pass.done
                  /\ Log[e].pair \in Concerned
                  /\ Log[e].block \in pass.next[Log[e].pair]..Until}

LogsDone == pass.pc = "logs" /\ Pending = {} /\ AllActive /\ Step("commit") /\ passUnchanged

\* Faulty variant: the checkpoint is the next block to read.
CommitNextBlock ==
  /\ pass.pc = "commit"
  /\ checkpoint' = [p \in Pairs |-> IF p \in Concerned THEN Until + 1 ELSE checkpoint[p]]
  /\ pass' = [pass EXCEPT !.pc = "chunk", !.from = Until + 1, !.done = 0,
                          !.next = [p \in Targets |-> IF p \in Concerned THEN Until + 1 ELSE @[p]]]
  /\ UNCHANGED <<head, row, session, monitor, left>>

\* setManyAtomically, after the last assertActive.
CommitChunk ==
  /\ pass.pc = "commit"
  /\ checkpoint' = [p \in Pairs |-> IF p \in Concerned THEN Until ELSE checkpoint[p]]
  /\ pass' = [pass EXCEPT !.pc = "chunk", !.from = Until + 1, !.done = 0,
                          !.next = [p \in Targets |-> IF p \in Concerned THEN Until + 1 ELSE @[p]]]
  /\ UNCHANGED <<head, row, session, monitor, left>>

\* A target was stopped meanwhile: the next assertActive throws.
TargetGone ==
  /\ \/ pass.pc = "chunk" /\ pass.from <= pass.head /\ ~AllActive
     \/ pass.pc = "expire" /\ ~AllActive
     \/ pass.pc = "logs" /\ Pending = {} /\ ~AllActive
     \/ pass.pc = "logs" /\ Pending # {} /\ Log[Min(Pending)].pair \notin pass.live
  /\ EndPass
  /\ passUnchanged

\* The expiry, the read, the claim or the write of the checkpoints throws.
PassFails ==
  /\ pass.pc \in {"expire", "read", "logs", "commit"}
  /\ Spend("faults")
  /\ EndPass
  /\ UNCHANGED <<head, checkpoint, row, session, monitor>>

------------------------------------------------------------------------------
(* One log: onSwap under the lock of its pair.                              *)

\* Faulty variant: any of the logs, unsorted.
FirstUnsorted(logs) == CHOOSE e \in logs : \A f \in logs : e >= f

\* The order of block, transaction index and log index.
First(logs) == Min(logs)

Due(e) ==
  /\ pass.pc = "logs" /\ Pending # {} /\ e = First(Pending)
  /\ Log[e].pair \in pass.live

\* Faulty variant: the listener is left running.
LeaveRunning(p) == UNCHANGED monitor

\* stopAndNotifyTerminal.
StopListener(p) == monitor' = [monitor EXCEPT ![p] = "retiring"]

\* The session is not monitorable: nothing is claimed, the listener stops,
\* and the chunk ends with an error.
Refuse(e) ==
  /\ Due(e)
  /\ LET p == Log[e].pair
     IN ~Monitorable(session[p]) /\ StopListener(p)
  /\ EndPass
  /\ UNCHANGED <<head, checkpoint, row, session, left>>

\* Faulty variant: what failed once is not taken again.
ClaimFirstTime(e) == row[e] \in {"none", "PROCESSING"}

\* A new or failed event is claimed; one in PROCESSING after 60 seconds.
Claims(e) == row[e] \in {"none", "FAILED", "PROCESSING"}

\* The event is processed, or in PROCESSING for less than 60 seconds: skipped.
Skip(e) ==
  /\ Due(e)
  /\ Monitorable(session[Log[e].pair])
  /\ ~Claims(e) \/ row[e] = "PROCESSING"
  /\ pass' = [pass EXCEPT !.done = e]
  /\ passUnchanged

\* Faulty variant: each log of a transaction is recorded.
RecordedEvent(recorded, e) == e \in recorded

\* A transaction is recorded once, whatever the number of its logs.
Recorded(recorded, e) == \E f \in recorded : Log[f].tx = Log[e].tx

\* The purchase is mined at some later point of the chain.
EntryPoints(s) == {k \in Events : \A f \in s.observed : f <= k}

With(s, statuses) == {[s EXCEPT !.status = st] : st \in statuses}
Observed(s, e) == [s EXCEPT !.observed = @ \cup {e}]
Counted(s, e) == [s EXCEPT !.counted = @ \cup {e}]
Enough(s) == Cardinality(s.observed) >= FirstBuys
Reached(s) == Cardinality(s.counted) >= TargetBuys

\* handle, where the session waits: the last of the observed buys leads to
\* the analysis and the purchase; before it the early analysis may reject.
Observe(s, e) ==
  LET t == Observed(s, e)
  IN IF ~Enough(t) THEN With(t, {Waiting, "REJECTED"})
     ELSE With(t, {"REJECTED", "MANUAL_REVIEW"})
            \cup {[t EXCEPT !.status = "HOLDING", !.entry = k] : k \in EntryPoints(t)}

\* handle, where a position is held: the buy is counted, and from the target
\* on the exit policy holds or sells.
Count(s, e) ==
  LET t == Counted(s, e)
  IN IF Reached(t) THEN With(t, {"HOLDING", "CLOSED", "MANUAL_REVIEW"}) ELSE {t}

Observes(s, e) == s.status = Waiting /\ Log[e].kind = "BUY" /\ ~Recorded(s.observed, e)
Counts(s, e) ==
  s.status = "HOLDING" /\ Log[e].kind = "BUY" /\ e > s.entry /\ ~Recorded(s.counted, e)

\* What handle leaves when it returns.
Handled(s, e) ==
  CASE Observes(s, e) -> Observe(s, e)
    [] Counts(s, e)   -> Count(s, e)
    [] OTHER          -> {s}

\* What its saves on the way leave when a later step throws.
HalfWay(s, e) ==
  CASE Observes(s, e) -> LET t == Observed(s, e)
                         IN With(t, {Waiting} \cup IF Enough(t) THEN {"RISK_CHECKING", "BUY_PENDING"} ELSE {})
    [] Counts(s, e)   -> LET t == Counted(s, e)
                         IN With(t, {"HOLDING"} \cup IF Reached(t) THEN {"SELL_PENDING"} ELSE {})
    [] OTHER          -> {}

\* What is left when handle, or markProcessed after it, throws.
Interrupted(s, e) == {s} \cup HalfWay(s, e) \cup Handled(s, e)

\* The event is claimed and handled; the chunk goes on if the session is
\* monitorable still.
Process(e) ==
  /\ Due(e) /\ Claims(e)
  /\ LET p == Log[e].pair IN
       /\ Monitorable(session[p])
       /\ \E s \in Handled(session[p], e) :
            /\ session' = [session EXCEPT ![p] = s]
            /\ row' = [row EXCEPT ![e] = "PROCESSED"]
            /\ IF Monitorable(s)
                 THEN pass' = [pass EXCEPT !.done = e] /\ UNCHANGED monitor
                 ELSE EndPass /\ StopListener(p)
  /\ UNCHANGED <<head, checkpoint, left>>

\* Faulty variant: the event is marked as processed before it is handled.
MarkedEarly == {"PROCESSED"}

\* markFailed; when it fails too the event stays in PROCESSING.
Marked == IF MarkFaults THEN {"FAILED", "PROCESSING"} ELSE {"FAILED"}

\* The event is claimed and its handling throws: so does the pass.
ProcessFails(e) ==
  /\ Due(e) /\ Claims(e)
  /\ LET p == Log[e].pair IN
       /\ Monitorable(session[p])
       /\ \E s \in Interrupted(session[p], e) : session' = [session EXCEPT ![p] = s]
  /\ \E status \in Marked : row' = [row EXCEPT ![e] = status]
  /\ Spend("faults")
  /\ EndPass
  /\ UNCHANGED <<head, checkpoint, monitor>>

------------------------------------------------------------------------------
(* The rest of the program, beside a pass.                                  *)

NewBlock ==
  /\ head < Max(Blocks)
  /\ head' = head + 1
  /\ UNCHANGED <<checkpoint, row, session, monitor, pass, left>>

\* A sale or an ignore asked for elsewhere takes the session out of the
\* hands of the listener, which runs on.
Leave(p) ==
  /\ Monitorable(session[p])
  /\ \E st \in IF session[p].status = Waiting THEN {"REJECTED"}
               ELSE {"SELL_PENDING", "MANUAL_REVIEW", "CLOSED"} :
       session' = [session EXCEPT ![p].status = st]
  /\ UNCHANGED <<head, checkpoint, row, monitor, pass, left>>

\* Recovery, between chunks, settles a session: the purchase or the sale
\* did or did not take place.
Return(p) ==
  /\ Spend("disturbances")
  /\ pass.pc \in {"idle", "chunk"}
  /\ LET s == session[p] IN
       /\ s.status \in InFlight \cup {"MANUAL_REVIEW"}
       /\ \/ s.entry = 0 /\ session' = [session EXCEPT ![p].status = "REJECTED"]
          \/ s.entry = 0 /\ \E k \in EntryPoints(s) :
               session' = [session EXCEPT ![p].status = "HOLDING", ![p].entry = k]
          \/ s.entry # 0 /\ \E st \in {"HOLDING", "CLOSED"} :
               session' = [session EXCEPT ![p].status = st]
  /\ UNCHANGED <<head, checkpoint, row, monitor, pass>>

\* stopMonitor: by the dashboard, by the scheduler, by the drain of a recovery.
Stop(p) ==
  /\ Spend("disturbances")
  /\ monitor[p] = "on"
  /\ monitor' = [monitor EXCEPT ![p] = "off"]
  /\ pass' = [pass EXCEPT !.live = @ \ {p}]
  /\ UNCHANGED <<head, checkpoint, row, session>>

\* retireTerminalMonitor: the checkpoint goes, then the place is free.
Retire(p) ==
  /\ monitor[p] = "retiring"
  /\ monitor' = [monitor EXCEPT ![p] = "off"]
  /\ checkpoint' = [checkpoint EXCEPT ![p] = 0]
  /\ UNCHANGED <<head, row, session, pass, left>>

\* startMonitor: a new listener, which no running pass has in its snapshot.
Start(p) ==
  /\ monitor[p] = "off" /\ Monitorable(session[p])
  /\ monitor' = [monitor EXCEPT ![p] = "on"]
  /\ UNCHANGED <<head, checkpoint, row, session, pass, left>>

------------------------------------------------------------------------------
PassProgress ==
  \/ PassDone \/ BeginChunk \/ NoneExpires \/ ReadLogs \/ LogsDone \/ CommitChunk \/ TargetGone
  \/ \E e \in Events : Refuse(e) \/ Skip(e) \/ Process(e)

PassNext ==
  \/ PassProgress \/ PassOfAll \/ PassOfSome \/ Expire \/ PassFails
  \/ \E e \in Events : ProcessFails(e)

OthersNext == NewBlock \/ \E p \in Pairs : Leave(p) \/ Return(p) \/ Stop(p) \/ Retire(p) \/ Start(p)

IngestNext == PassNext \/ OthersNext

IngestSpec == IngestInit /\ [][IngestNext]_vars

\* The steps of a pass are awaited one after the other, so it goes on; the
\* interval asks for every listener again and again, and its request is not
\* forgotten by the passes in between.  Errors are temporary (Faults).
FairIngestSpec ==
  /\ IngestSpec
  /\ WF_vars(PassProgress)
  /\ SF_vars(PassOfAll)

------------------------------------------------------------------------------
(* Properties.                                                              *)

\* Each variable of the ingestion holds a value of its kind.
IngestTypeOK ==
  /\ head \in Nat
  /\ checkpoint \in [Pairs -> 0..head]
  /\ row \in [Events -> {"none", "PROCESSING", "PROCESSED", "FAILED"}]
  /\ session \in [Pairs -> [status : Status, observed : SUBSET Events,
                            entry : {0} \cup Events, counted : SUBSET Events]]
  /\ monitor \in [Pairs -> {"on", "retiring", "off"}]
  /\ pass.pc \in {"idle", "chunk", "expire", "read", "logs", "commit"}
  /\ pass.live \subseteq Pairs /\ pass.head \in 0..head /\ pass.done \in {0} \cup Events
  /\ left \in [faults : 0..Faults, disturbances : 0..Disturbances]

\* No swap is dropped: what the checkpoint of a pair has passed is processed,
\* though reads, handlers and saves fail, monitors stop in the middle of a
\* chunk, and a pair is retired and comes back.
NothingDropped ==
  \A p \in Pairs : \A e \in EventsOf(p) :
    Log[e].block <= checkpoint[p] => row[e] = "PROCESSED"

BuysProcessed(p) == {e \in EventsOf(p) : Log[e].kind = "BUY" /\ row[e] = "PROCESSED"}

\* What a session has recorded is what was processed: each processed buy is
\* among the observed ones while the session waits, and counted if it came
\* after the entry while the position is held; and nothing is recorded that
\* was not claimed.
CountsComplete ==
  \A p \in Pairs : LET s == session[p] IN
    /\ s.status = Waiting =>
         \A e \in BuysProcessed(p) : \E f \in s.observed : Log[f].tx = Log[e].tx
    /\ s.status = "HOLDING" =>
         \A e \in BuysProcessed(p) : e > s.entry => \E f \in s.counted : Log[f].tx = Log[e].tx
    /\ \A e \in s.observed \cup s.counted : row[e] # "none" /\ Log[e].pair = p

\* A position is entered only after as many different transactions as the
\* configuration asks for, though logs are delivered again.
EntryEarned ==
  \A p \in Pairs : session[p].entry # 0 =>
    Cardinality({Log[e].tx : e \in session[p].observed}) >= FirstBuys

\* The rows are typed, and the sessions have recorded what was processed and earned.
CountsSound == IngestTypeOK /\ CountsComplete /\ EntryEarned

\* The swaps of a pair are processed in the order of the chain: none before
\* all the earlier ones of its pair.
InOrder ==
  [][\A e \in Events : row[e] # "PROCESSED" /\ row'[e] = "PROCESSED" =>
       \A f \in EventsOf(Log[e].pair) : f < e => row[f] = "PROCESSED"]_vars

\* A checkpoint never goes back, except when the pair is retired.
NeverBackwards ==
  [][\A p \in Pairs : checkpoint'[p] >= checkpoint[p] \/ monitor[p] = "retiring"]_vars

\* What is processed and what is passed only moves forward along the chain.
MovesForward == InOrder /\ NeverBackwards

\* Every pair that stays monitored is read up to the head again and again:
\* no other pair, stopped or failing, keeps it from that.
CatchesUp ==
  \A p \in Pairs : []<>(monitor[p] # "on" \/ checkpoint[p] = head)
=============================================================================
