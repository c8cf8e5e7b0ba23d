# Formal models of the BSC token listener

This directory holds TLA+ specifications of the bot in `src/`, the TLC runs that
check them on small instances, and theorems about them that TLAPS checks for
every value of the constants. File and line references are relative to `src/`,
the bot's own sources being `src/src/`.

    tlc -workers 2 -config LifecycleFaults.cfg MCSessionLifecycle.tla
    tlapm SessionLocksProofs.tla

## 1. The system and its parts

The bot watches a factory for new pairs, follows the confirmed swaps of each
pair, buys a token after its first buyers, and sells it again when a policy or
its operator says so. One Node.js process runs it, over a PostgreSQL database
and a pool of RPC nodes. There are no threads: concurrency is that of promises,
and everything between two awaits is atomic.

| component | state | operations | interacts with |
|---|---|---|---|
| recovery barrier (`recovery/runtime-recovery-barrier.ts`) | a counter, a flag, two wait lists | `runListener`, `runRecovery` | every component that touches sessions |
| session locks (`strategy/session-engine.ts`, `withLock`) | a promise chain per pair | lock, run, unlock | barrier, chunks, dashboard, exit monitor |
| session engine (`strategy/session-engine.ts`) | rows of `token_sessions` | `onSwap`, `sellManually`, `requestPolicyExit`, `ignoreManually`, `expireIfNeeded` | executor, risk analysis, exit decisions |
| trade executor (`execution/`) | `trades`, `trade_transactions` | `buy`, `sell` | node, transaction queue |
| session recovery (`recovery/`) | leases on rows, `reconciliation_decisions` | claim, observe, decide, resume | barrier, executor, node |
| fresh start (`runtime/fresh-start.*`) | quarantine marks, `fresh_start_runs` | `apply` at startup | sessions, decisions, checkpoints, canonical blocks |
| exit monitor (`strategy/position-exit-monitor.ts`) | metrics and decisions of positions | a pass every few seconds | engine, decisions, node |
| exit decisions (`strategy/position-exit.repository.ts`, settings, evaluator) | `position_exit_decisions`, revisions of settings | create, transition | engine, monitor, dashboard |
| swap ingestion (`listeners/swap.listener.ts`, `monitoring/swap-log-batch-reconciler.ts`) | `swap_events`, `listener_checkpoints` | claim, process, checkpoint | canonical chain, engine |
| pair discovery (`listeners/pair-created.listener.ts`, `discovery/`) | `discovered_tokens`, a checkpoint | reconcile, admit | canonical chain, monitors |
| canonical chain (`chain/canonical-chain.*`) | `canonical_blocks`, `chain_reorgs` | reconcile a range, rewind, replay | listeners, barrier, reorg handler |
| reorg replay (`chain/reorg-session-reconciler.ts`, `runtime/reorg-*`) | rewound sessions, replay admission | rebuild sessions, replay, activate | canonical chain, monitors, recovery |
| monitors (`monitoring/monitor-scheduler.ts`, `swap-reconcile-orchestrator.ts`) | running monitors, queued requests, waiters | reconcile, signal, wait | swap listeners, recovery |
| startup and shutdown (`app.ts`, `runtime/`) | order of components | start, drain, stop | all |
| RPC pool (`rpc/clients.ts`) | cooldowns of nodes, in-flight reads | read, broadcast | all that call the node |
| risk analysis (`security/`) | reports | `analyze` | engine, recovery |
| dashboard (`dashboard/`) | none of its own | sell, ignore, change settings | engine, exit decisions |

What makes each of them correct:

- barrier: no recovery beside a listener operation; nobody sleeps for good;
  recoveries go first, in order;
- locks: one operation per pair; the two waits close a circle in one known way only;
- executor: nothing is sent before it is recorded; nothing is sent twice; the
  database never says more than the chain;
- engine, recovery, fresh start, monitor: a token is bought once and sold once,
  a position is never lost, a session in the middle of something is brought out
  of it, a quarantined one trades only by hand;
- exit decisions: a decision is executed once, under the settings that made it;
- ingestion: every canonical event is processed once, in order, before the
  checkpoint passes it;
- canonical chain and reorg replay: what is stored is a chain of parents; after
  a reorganisation sessions are those the canonical events lead to;
- monitors: capacity is respected, every waiter is answered;
- RPC pool: a cooled-down node is used again; a broadcast is not repeated.

Hard behaviours: interleaved operations on one session; the two orders in which
the pair lock and the barrier are taken; failures of each database write between
two calls of the node; ambiguous answers of the node; death of the process at
any await and the fresh start that follows; recovery resuming what the engine
left; reorganisations. The hazards, each with its line and the properties that
would catch it going wrong, are listed in `PROJECT.json`.

## 2. The modules

| module | models | EXTENDS / uses |
|---|---|---|
| `RecoveryBarrier` | `RuntimeRecoveryBarrier` | |
| `SessionLocks` | `SessionEngine.withLock` and its callers | `RecoveryBarrier` |
| `SessionLocksProofs` | the theorems of both; implementation of the barrier by the locks | `SessionLocks` |
| `TradeExecutor` | `TradeExecutor` and `TransactionQueue` over database and chain | |
| `TradeExecutorProofs` | its theorems | `TradeExecutor` |
| `PositionContract` | what the bot promises of a position (abstract) | |
| `SessionLifecycle` | engine, recovery, fresh start, exit monitor | `TradeExecutor`, `PositionContract` |
| `SessionLifecycleProofs` | its theorems under all faults, and when some are excluded; the contract | `SessionLifecycle`, `TradeExecutorProofs` |
| `SwapIngestion` | passes over the swaps, event claims, checkpoints, counting, monitors beside a pass | |
| `SwapIngestionProofs` | its theorems | `SwapIngestion` |
| `CanonicalChain` | the stored chain, its requests, rollback and replay, sessions rebuilt after a reorganisation | |
| `CanonicalChainProofs` | its theorems on the stored chain, rollback and replay | `CanonicalChain` |
| `CanonicalSessionProofs` | its theorems on events, sessions and transactions | `CanonicalChainProofs` |
| `ExitPolicy` | settings, evaluation and decisions of exits, and their execution | |
| `ExitPolicyProofs` | its theorems | `ExitPolicy` |
| `MonitorReplay` | scheduler and orchestrator of monitors beside the finalization of a reorganisation | |
| `MonitorReplayProofs` | its theorems on places, gate, queue and audit | `MonitorReplay` |
| `MC...` | instances for TLC | |

### RecoveryBarrier

`activeListeners`, `recoveryActive`, `listenerWaiters`, `recoveryWaiters` are the
fields of the class. `pc` says where each task is; a task is "inside" from the
moment its resolve function is called. One action is one synchronous stretch:
`EnterListener` and `QueueListener` the two outcomes of `acquireListener`,
`ReleaseListener` its release with `startNextRecovery`, and likewise for
recoveries. `nested` is the inner `runListener` of a task that is already in a
listener scope (lines 15-17): it is not counted. `Detaching` names the tasks
whose operation does not await it.

### SessionLocks

`queue[p]` is the promise chain of a pair. A *chunk* (a chunk of swap logs, or a
pass of the exit monitor) enters the barrier and then takes pair locks: a swap
chunk first queues on all its pairs together to expire them
(`swap-log-batch-reconciler.ts` 271-273), then on one pair after another. A
*direct* call (dashboard sale or ignore, expiry by the scheduler) takes the lock
and then the barrier. Recovery passes and reorg handlers are the recoveries. The two
kinds act on the same pairs in the code; `ChunkPairs` and `DirectPairs` may overlap in
any way.

### TradeExecutor

`trades[p]` is the database, `chain[p]` what became of each transaction, `exec[p]`
the call in progress. A trade has one transaction that moves tokens ("main") and,
if it is a sale, perhaps an "approve". Each trade is of the mode, live or dry-run,
of the process that made it; `Modes` are the modes the process is ever started
in, and a dry-run trade ends in `Simulate`. Actions follow the awaits of `submit`:
`Prepare` (save before send), `SendAccepted`/`SendRejected`/`SendAmbiguous`,
`RecordBroadcast`, `ReceiptSuccess`/`ReceiptReverted`/`ReceiptTimeout`, `Measure`/
`MeasureFailed`. With `StoreFaults` each save may fail, and the error path of the
code is taken. `outcome` is the class of the error the caller receives: plain,
unknown (`ExecutionOutcomeUnknownError`), measure (`ExecutionMeasurementError`) or
unsafe (`ExecutionRecoverySafetyError`). Quotes, amounts, gas, hashes, allowances
and wallets are abstracted to the choices they decide. The FIFO order of the
queue is abstracted to "one execution at a time".

### SessionLifecycle

`db[p]` is the row of a session: status, whether it has an entry and an exit, and
the transaction its `unreconciledExecution` names. `leased` and `quarantined` are
the recovery columns. `op[p]` is the operation in memory, `loaded[p]` the
snapshot of the exit monitor, `up` the process. Actions are grouped as in the
code: the engine (`ObserveBuy` ... `EndBuy`, `SellManually`, `SellByPolicy`,
`ReviewByPolicy`, `EndSell`, `Expire`, `IgnoreManually`), the monitor, a pass of
recovery (`Claim`, the `Observe...` decisions, the resumptions of an intent,
`EndResume`), and the process (`Crash`, `FreshStart`).

What it takes as given, and why:

- One operation per pair and no recovery beside one: that is what the lock
  modules establish. Detached nested runs are not carried over.
- Swaps are handled one at a time whatever their pair: they run behind the tail
  of the canonical coordinator (`ObserveBuy`).
- Clock time is abstracted: a row is old enough and an expired lease is expired
  at any time; a pass may claim any number of sessions.
- `reconcileWithoutTransaction` on a `MANUAL_REVIEW` session, and the missing
  intent service, are unreachable in production: a reference names a transaction
  (`RefRecorded`) and `app.ts` passes the service.
- The early risk precheck of a waiting session has the effect of
  `IgnoreManually` and is not an action of its own.
- After a resumed intent the trade is written back as it was claimed; a resumed
  intent has a trade without transaction, which that write leaves as it is.
- A broadcast is tried once (`rpc/clients.ts` 955-995, no retry).
- A reorganisation does not reset sessions here; that is in `CanonicalChain`.
- The decisions of the exit policy are in `ExitPolicy`; here a sale by policy may
  come at any time.

`PositionContract` is the abstract specification: bought at most once, sold at
most once and only after the entry is in the book, book entries final and never
ahead of the chain. `KeepsContract` maps successful transactions of the chain and
the row to it.

### SwapIngestion

`Log` is the canonical log of swaps (a constant: pair, block, transaction, buy or
sell), an event its position in it. `row[e]` is the status of its row in
`swap_events`, `checkpoint[p]` the row of `listener_checkpoints` (0: none, the
pair is read from its creation), `session[p]` the status with the recorded buys,
`monitor[p]` the listener, `pass` the running pass with its snapshot: the targets
(`next`, the block each is read from) and those not stopped since (`live`). A pass
takes its snapshot, then for each chunk checks its targets, expires, reads, hands
log after log to its listener (`Refuse`, `Skip`, `Process`, `ProcessFails`), checks
again and writes all checkpoints in one transaction (`CommitChunk`). Beside it
sessions leave the hands of the listener (`Leave`) and come back by recovery
(`Return`), and monitors stop, are retired with their checkpoint, and start.

What it takes as given: `onSwap` runs under the lock of its pair, which every other
operation on the session takes, so it is one step (`SessionLocks`); the analysis,
the purchase and the exit policy have any of the outcomes `SessionLifecycle` gives
them; a node returns all logs of a range or an error. Clock time is abstracted: an
event in `PROCESSING` may be older than 60 seconds or not. `Faults` bounds the
passes that fail and `Disturbances` the stops and returns. A crash needs no action:
the fresh start anchors the checkpoints anew and quarantines every session. The
saves of the exit monitor beside the engine, which can take counted buys back, are
in `SessionLifecycle` (`LifecycleStaleMonitor`). Reorganisations and orphaned
events are in `CanonicalChain`; the path of a listener without central
reconciliation is left out.

### CanonicalChain

The confirmed chain of the node is a sequence of fork labels, and the hash of block
`n` is its prefix of length `n`: a parent is the shorter prefix, so the model needs
no hash function. `Content` says which events each block of each fork holds.
`journal` is `canonical_blocks`, `checkpoint` is `listener_checkpoints`, `row` joins
`discovered_tokens` and `swap_events` (block, canonical or not, session before),
`audit` is `chain_reorgs`, `wallet` the source events of the transactions of a pair
(0 for one without: a sale by the exit monitor or by hand). `coord` holds the status
of the coordinator and its FIFO of pending rollbacks, `request` the request that
runs, `replay` the finalization inside which further requests run.

A request goes through `tip` (`TipHolds`, `TipDiverges`), `scan` (one header after
the other, each checked against its parent, the journal and the anchor), the journal,
and then chunk after chunk `ReadLogs`, the events (`AdmitPair`, `HandleSwap`) and
`CommitChunk`. A divergence goes through `Walk` to the common ancestor, is verified
once more, and is rolled back in one transaction (`Rewind`); `Project` rebuilds the
sessions and ends with a review or with a pending rollback, which `Finalize`,
the two requests of the replay and `Complete` bring to an end. Each header, each log
answer and each event is read at a moment of its own, and `Replace` may come between
any two of them. `HandlerFails`, `HandlingFails`, `RpcFails` and `Restart` are the
failures. In dry-run no transaction reaches the wallet. `Ask` is the grouped pass of the
orchestrator, one at a time: it may wait in the queue through a rollback and its replay,
and `gone` remembers whose listener was taken off meanwhile, since `assertActive` looks
at the listener that was read and not at one the pair was given later.

What it takes as given: the runtime barrier keeps other operations on sessions out
of a chunk and out of the handler (`SessionLocks`); a provider answers from one chain
at a time; the analysis accepts every pair (rejections are in `SessionLifecycle`).
Left out: the hydration of audits that an earlier process persisted, checkpoints
without a hash, the spool files of headers, providers whose head lags behind the
journal (`Admitted` waits for them). A rollback is identified by its two tips:
`Comeback = FALSE` lets each replacement of blocks bring a new fork; see section 3.

### ExitPolicy

`history` is the audit of the settings, the policy of each revision; `market` what
the gateways answer about a position, readable or not; `session` the row with its
monitoring state `memo` (reference liquidity, peak, armed or not, last probe);
`decision` is `position_exit_decisions` by idempotency key (pair, revision, rule).
`Verdict` is `evaluatePositionExit`: the first rule of `Rules` that holds, turned into
a review by the limits on gas, over integers as the code computes them (basis points
with truncating division). `pass` is the pass of the monitor: it takes up the open
decisions (`TakeUp`), loads the positions, evaluates each (`Evaluate`), saves what it
has learnt and asks for the exit (`AskExit`). `call` is the operation that holds the
lock of the pair: `Check`, `Revalidate` (the second evaluation, with a fresh probe),
`Sell` and its outcomes, `Settle`. `Buy` is the swap that counts a target buy,
(from the target of the settings in force at that swap on, as `handle` refreshes the copy
of it in the session before it counts: `session-engine.ts` 394-409, one step here),
`SellManually` the human, `Recover` the pass of the reconciler over an unresolved
sale, `Restart` the crash with the fresh start, which leaves alone the sessions an
earlier one has quarantined. `sold[p]` is the chain: the decision
whose sale went through, `NoKey` for a human, `Unsold`. It names the decision because
`DecisionTruth` is about a decision and its own sale: a decision that failed with nothing
sent stays `FAILED` when a later one sells the same position. With `Overlap = FALSE` no operation
comes between a load and the save of the monitor; what happens otherwise is the
subject of run `LifecycleStaleMonitor`.

### MonitorReplay

`status` is the session, `flag` whether its token is ignored or its time is over,
`mon` the monitor in `app.ts`: live, prepared (admitted by a replay, not yet
activated), ending, leaving, stopped (to be drained). `sched` is the turn of
`MonitorScheduler` (`SchedLoad` ... `SchedEnd`), `orch` the pass of
`SwapReconcileOrchestrator` with its `requests`, `waiting` and `rejected` the callers
of `requestAndWait`, `listener` the pass of `PairCreatedListener`, `queue` the tail of
the coordinator. `fin` is the finalization of a reorganisation, step by step as
`reorg-replay-lifecycle.ts` and `app.ts` order it: drain the monitors of the recovered
sessions, reconcile the new pairs, wait for the scheduler, admit, wait, reconcile the
swaps, wait, complete, and activate the prepared monitors. A call has a scope, as its
`AsyncLocalStorage` gives it: a request from inside a replay runs at once, any other
one waits in `queue` behind it. What the coordinator will do with a request while a
rollback is not completed is decided by its state at the call, not at the turn of the
request (`retries`): one that was made in such a state tries the finalization again
(`Retry`), one that was made before is passed over (`Passed`). `caught` is what has been
read since the rollback, and `caught.late` the monitors that came when a running pass had
taken its targets and were told by its end that their swaps had been read (`Late`).
Steps are interleaved without regard to how long they
take, with one exception: a start of the scheduler, which reads the session from the
database, does not overtake a pass that has only microtasks left to begin or to answer
(the guard on `orch.pc` in `SchedStart`). `recovery` is a periodic pass that synchronizes
monitors and drains them, during which `canRun` and `canSchedule` hold everything
back. What a request reads is in `CanonicalChain`; here it is a step that may open or
end a session.

## 3. The runs

Passing runs. A property in the table may be a conjunction, whose parts carry their
own comments in the module: `BarrierSound` is types, `Exclusion` and `NoLostWakeup`;
`AdmissionOrder` is `RecoveryBeforeListeners` and `RecoveryOrder`;
`EveryoneServed` is `CallsAnswered` and `RecoveryAdmitted`; `TradesFollowed` is
`NoDoubleSale` and `NothingForgotten`; `BookSound` is types, `RefRecorded` and
`BookMatchesChain`; `RecordsSound` is types, `RecordsTruthful`, `FailedIsFinal` and
`ApprovedFirst`; `CountsSound` is types, `CountsComplete` and `EntryEarned`;
`MovesForward` is `InOrder` and `NeverBackwards`; `ChainSound` is types,
`StoredChain` and `CanonicalRows`; `SessionsSound` is `ProjectionTrue` and
`WalletKept`; `DecisionsSound` is types, `DecisionTruth` and `SaleRecorded`;
`ExitsSettle` is `ExitServed` and `DecisionsSettle`; `MonitorsSound` is types and
`CapacityKept`.

| run | instance | what it shows |
|---|---|---|
| `Barrier` | 3 listeners, 3 recoveries, fair | `BarrierSound`, `AdmissionOrder`, `RecoveryServed` |
| `Locks` | 2 chunks on 2 pairs, 2 direct calls on one of them, 1 recovery, fair | `OnlyCrossings`, the barrier's `Spec`, `EveryoneServed` |
| `LifecycleClean` | 1 pair, 4 trades, no fault, fair | `TradesFollowed`, `KeepsContract`, `InFlightSettles`, `ReviewSettles` |
| `LifecycleFaults` | 1 pair, 3 trades, live and dry-run, failing writes and crashes | `BookSound`, `RecordsSound`, `BroadcastRecorded`, `NoDoubleBuy`, `LeaseReturns`, `QuarantineHolds`, `BookPermanent`, `SentOnce` |
| `LifecycleCapacity` | 2 pairs for 1 position, 2 trades each, crashes, monitor | `CapacityRespected`, `PositionKept` |
| `Ingestion` | 2 pairs, 5 swaps in 2 blocks, chunks of 1 block, 1 failing pass, 1 stop or return, fair | `NothingDropped`, `CountsSound`, `MovesForward`, `CatchesUp` |
| `Chain` | 1 pair, 3 blocks, up to 2 replacements of blocks, 1 fault, 2 of them together, chunks of 1 block, a window of 2, both modes, fair | `ChainSound`, `NothingSkipped`, `SessionsSound`, `HealthyReplayed`, `CatchesUp` |
| `Exits` | 1 position, 6 states of the market, 2 policies, 2 changes, 1 buy, 1 fault, fair | `DecisionsSound`, `SoldOnce`, `SoldForReason`, `PeakKept`, `ExitsSettle` |
| `Replay` | 2 pairs for 1 place, 1 reorganisation, 2 events from outside, fair | `MonitorsSound`, `GateHolds`, `AuditAfterReplay`, `ReplayEnds`, `WaitersAnswered`, `PlacesServed` |

The bounds. The barrier treats tasks alike and its decisions look at "none",
"one" and "several": three listeners and three recoveries give every mixture of
parked and running tasks, and a queue of two behind the one that runs. A circle
of waits needs one chunk, one direct call and one recovery that meet on one pair; the
second ones add queueing on a lock, and the other pair a chunk that meets nobody. A
double sale needs two sales after one purchase, and one more for an approval that is
left over: three or four trades. Two pairs are needed only where pairs compete, for the transaction queue and the limit on
positions. In `Ingestion` one pair has two logs of one transaction, the second buy
of an entry and one buy after it, so that an observation, an entry, a count and a
sale all occur; the other shares its chunk; a redelivery takes one failing pass,
and a rescan one return after a retirement. In `Chain` the second fork swaps the two
buys of a block and the third one moves the creation of the pair, so that entries,
counts and discoveries are all taken back; two replacements give a reorganisation during
the replay of another, a fault one in the middle of it. The safety
properties have also been checked for two pairs in one pass (`MCTwo` and what follows it,
four blocks, a window of 4, dry-run: a million states), as the lowest checkpoint of a pass
anchors its scan and that of another pair could hide one that has fallen behind. In `Exits` the markets reach
every rule, both limits on gas, a failing probe and a failing read; two changes reach
two revisions of the settings with a market of their own. One fault gives one restart: the
fresh start that skips the sessions of an earlier one is in the proofs only. In `Replay` two pairs for one
place make a position displace an observation, and the two events are any two of a swap,
a new pair, a sale, an ignored token, an expiry, a pass of recovery (and a request of the
pairs that joins one already asked for costs none, so that requests from before the
reorganisation are in the queue behind it). `MaxTrades` bounds the calls that start a trade (`Room`, `Call`);
`CHECK_DEADLOCK FALSE` is said in all runs but `Barrier`: in `Locks` a crossing stops
everyone; elsewhere sessions that are over, out of trades, swaps, blocks or events, leave
nothing to do.

Runs that end in a violation, each a disagreement of the code with what the
repository says:

| run | property | what happens |
|---|---|---|
| `LifecycleStaleMonitor` | `NoDoubleSale` | a snapshot of the exit monitor puts `HOLDING` back over a sale |
| `ChainSold` | `SoldStaysSold` | entry in one block, a counted buy in the next, a sale by the exit monitor, then the later block is replaced: the rollback traces transactions by `trades.source_event_id` only (`canonical-chain.repository.ts` 623) and restores `HOLDING` |
| `ReplayDeadlock` | `NoReplayDeadlock` | a pass of `PairCreatedListener` waits in the queue of the coordinator behind the finalization, which waits for that very pass |

The circle of `ReplayDeadlock` closes in two more ways, which `Stuck` names: the
activation of a prepared monitor (`app.ts` 656-671) waits for an answer of a pass
queued behind the finalization; and the drain of a stopped monitor waits for an answer
of a pass that `canRun` holds back until the drain is over (`app.ts` 307-310,
`swap-reconcile-orchestrator.ts` 82-127, `Stranded`). The liveness properties of
`Replay` hold outside of these circles: each has `Stuck` as its exception.

Further disagreements are found by changing the constants of a run; they have no run
of their own in order to keep the set small:

| change | property | what happens |
|---|---|---|
| `LifecycleCapacity` with `StoreFaults = TRUE`, `MaxTrades = 1` | `PositionKept` | the purchase succeeds, the save of `HOLDING` fails, `reject` saves `REJECTED`: `session-engine.ts` 533 |
| `Ingestion` with `MarkFaults = TRUE` | `NothingDropped` | handler and `markFailed` both fail; the next pass finds the event in `PROCESSING`, skips it and moves the checkpoint past it: `repositories.ts` 194 |
| `Chain` with `Comeback = TRUE` | `NothingSkipped` | a fork wins again with the two tips of an earlier rollback, whose audit is found, and nothing is rolled back: `canonical-chain.repository.ts` 576-590 |

So `NoDoubleSale` and `PositionKept` hold only under the conditions of the
passing runs: no failing write, and for `NoDoubleSale` no crash and no exit
monitor either. That is the result, not a choice of convenience. `NoDoubleSale` fails
in two more ways, which `LifecycleClean` shows when its constants are changed:

- with `Crashes = TRUE`: a crash during a sale, a fresh start that moves the session
  to `MANUAL_REVIEW` without a reference (`fresh-start.repository.ts` 146), and a
  manual sale (against `docs/strategy.md` 90-93);
- with `StoreFaults = TRUE`: the reference that an earlier purchase or approval
  left in the session survives into a newer sale whose saves fail
  (`session-engine.ts` 729); recovery judges the session by that older, confirmed
  transaction, puts it back in `HOLDING` or sends the sale of the approval, and a
  second sale goes out beside the new one (against
  `2026-07-28-crash-reconciliation-design.md` 189-191).

Limits that the properties name as their exceptions, each a behaviour of the code:

- `Crossing` in `OnlyCrossings` and `EveryoneServed`: a dashboard call, or an expiry of
  the scheduler, holds a pair and is parked at the barrier behind a recovery; the recovery
  waits for a chunk inside; the chunk waits for the pair (`session-engine.ts` 269-303).
  None of the three can go on, nor can whoever comes after them: a deadlock until the
  process ends (`CrossingsLast`). Run `Locks` reaches it, and shows that there is no
  other circle and that nobody waits for ever without it;
- a transaction that is known to have succeeded and cannot be measured, in
  `ReviewSettles`: when the wallet has another transaction in the same block the amounts
  are not told apart, which stays so however often the node is asked, and the session keeps
  `MANUAL_REVIEW` and its reference until the operator acts (`session-reconciler.ts` 300,
  360, 460-469);
- `Stuck` in `CatchesUp`: when the handler of a rollback throws after the ancestor was
  found, the coordinator stays in `RECONCILING`, not ready, and ignores every request
  until a restart (`canonical-chain.coordinator.ts` 1198-1209);
- `Blocked` in `ExitsSettle`: an open decision whose position cannot be measured throws
  outside the `try` of the pass (`position-exit-monitor.ts` 91-94, 149), so no other
  position is evaluated while that lasts (against
  `2026-07-29-position-exit-policy-design.md` 363);
- `Burnt` in `ExitServed`: a decision that came to nothing is not made again for the
  same rule under the same revision (`position-exit-monitor.ts` 236-243);
- `Shut` in `PlacesServed`: a token that is put on the ignore list while its session has
  its first buy makes `ignoreManually` throw and ends every turn of the scheduler
  (`dashboard-action.service.ts` 33-43, `monitor-scheduler.ts` 237,
  `session-engine.ts` 209-214);
- `caught.late` in `AuditAfterReplay`: the end of a pass answers the waiters of every pair
  that was requested and is registered by then, also of a pair that was not registered
  when the pass took its targets (`swap-reconcile-orchestrator.ts` 203-247). The replay
  then ends although the swaps of that pair have not been read (against the comment at
  `reorg-replay-lifecycle.ts` 40); the next pass reads them. It takes two places, so that a
  monitor that is started again meets a pass for another one, and the run, with one, does
  not get there; a search guided to it does, in 46 steps. The property speaks otherwise of
  monitors whose admission is over: the scheduler may be in the middle of starting one.

Smaller disagreements the models share with the code have no run of their
own, being a single step each:

- a nested `runListener` that its caller does not await is not counted and runs
  beside the recovery that the outer release admits (the case `Detaching # {}`
  of `RecoveryBarrier`, where `SessionsQuiet` of `SessionLocks` fails; every caller in
  the source awaits it; `README.md` 187 speaks of committed listener operations
  being drained);
- `FreshStart` skips a session an earlier start has quarantined, even in
  `SELL_PENDING` (`fresh-start.repository.ts` 161, against
  `2026-07-29-fresh-start-cutoff-design.md` 38-45);
- recovery never claims a quarantined row, not even for the reference of a
  manual sale made since (`reconciliation.repository.ts` 99, against
  `README.md` 198-199);
- recovery of a session under review whose approval is confirmed sends the sale
  (`session-reconciler.ts` 431, against
  `2026-07-28-crash-reconciliation-design.md` 205-206).

Nor is it promised that a parked listener is admitted: two recoveries that
alternate keep it out.

### Fairness

Barrier and locks: an operation that got in ends, since callers pass finite
operations made of bounded RPC and database calls. Nobody is obliged to call.
The release of a listener is under strong fairness because it is disabled while
a nested run is in progress, and an operation makes finitely many of those.
Lifecycle: a promise that can settle settles (weak fairness of engine, executor
and recovery steps, of mining, and of the monitor's save); a pass of recovery
gets the barrier now and then, which is `RecoveryServed` of the barrier (strong
fairness of `Claim`); asked again and again about a transaction the chain knows, the node eventually
answers (strong fairness of those decisions together). That the amounts are ever found is
not assumed: the answer may each time be that the transaction succeeded and cannot be
measured (`ObserveUnmeasured`). Nothing is assumed of the node at any particular moment, of
users, or of crashes.
Ingestion: the steps of a pass are awaited one after the other (weak fairness of
`PassProgress`); the interval sets a request for every listener that no other pass
clears without serving it (strong fairness of `PassOfAll`). Errors are temporary:
`Faults` bounds them. Monitors need not start, nor be retired.
Chain: promises resolve (weak fairness of reading, rolling back and replaying, and of a
handler that has to throw); the queue of the coordinator is first in, first out, so
neither kind of request is passed over for ever (strong fairness of `PairsRequest` and
`SwapsRequest`); intervals and the scheduler come again (`Ask`, `StartMonitor`,
`Retire`). The bounds on forks and faults make the node settle; `Extend` is not fair.
Exits: the pass and a call go on (weak fairness); the interval asks for an evaluation
again and again and a recovery comes back (strong fairness of `Evaluate` and
`Recover`). No market, human or failure is fair.
Replay: turns, passes, finalizations and drains go on (weak fairness of `Scheduling`,
`Orchestrating`, `Recovering`, `Retire`, `Leave`, `SellEnds`); the queue and the
finalization are served although a pass of recovery, or requests before them, disable
them now and then (strong fairness of `Serving` and `Replaying`); the interval of the
orchestrator ticks (`Tick`). A pass of recovery need not begin, but one that has begun
goes on to its end. No swap and no human has to come.

## 4. What is proved

The constants are arbitrary in every theorem: any set of pairs, any number of tasks,
trades, faults. Where a theorem has a hypothesis beside the assumptions of its module,
the hypothesis excludes a failure under which the property is false, and section 3 says
what happens then.

**Barrier** (`SessionLocksProofs`), from `BarrierAssumption` (finitely many listeners,
disjoint from the recoveries): the inductive invariant is `IInv`: type correctness,
`Bookkeeping` (the counter counts the listeners inside, the wait lists hold exactly the
waiting tasks and no one twice, the flag speaks for a recovery), `Exclusion` and
`NoLostWakeup`. `Exclusion` alone is not inductive: a release decides by the counter and
the lists, so they must be known to agree with where tasks are. From it follow
`BarrierIsSound`, `AdmissionInOrder` (recoveries before listeners; and a recovery that is
let in is the head of the list, or finds it empty) and, when nothing is detached,
`DrainedBeforeRecovery`.

**Locks** (`SessionLocksProofs`), from `LocksAssumption` and the barrier's: every step of
the locks is a step of the barrier or leaves it alone (`LocksUseBarrier`), so what is
proved of the barrier holds of sessions (`SessionsExcludeRecovery`,
`SessionsQuietHolds`). `LocksInv` says who is in the queue of a pair: chunks, all inside
the barrier, and direct calls, of which only the head has asked for the barrier and each
is on one pair. `CirclesAreCrossings` follows for any pairs of chunks and of direct calls,
however they overlap (pairs and tasks having different names): an operation inside that
belongs to a circle is a chunk that waits for a pair, and the pair belongs to the circle only
if its head is parked at the barrier, as only a direct call can be: a crossing. Without one
no operation inside belongs to a circle, and then no recovery, no pair and no parked listener
does either. `CrossingIsForGood` says that a crossing is never undone: the chunk is inside,
so no recovery is, so the head of the queue stays parked and keeps the pair.

**Executor** (`TradeExecutorProofs`), from `ExecutorAssumption`: the inductive invariant
`ExecInv` adds to type correctness that each saved trade agrees with the chain
(`TradesSound`) and that a call in progress knows where its trade stands (`Knows`: for
instance at "send" the step is recorded and unsent). `RecordsAreSound`,
`NothingSentUnrecorded` and `EachSentOnce` speak of the executor with any caller.

**Lifecycle, all faults** (`SessionLifecycleProofs`), from the executor's assumption and
`LifecycleAssumption`: failing writes, ambiguous nodes, crashes, fresh starts and the exit
monitor may all occur. The inductive invariant `LifeInv` says of each pair what the four
places that know of a position know of one another: the operation in memory
(`Operating`: where it stands, whether it executes, and that the session it will save
claims nothing the chain has not done), the execution (`Working`), the row with its lease
(`Stored`) and the copy of the exit monitor (`Copied`); of the purchases of a pair only
the last may have bought (`Buying`); and while recovery works on a pair nobody else works
(`Apart`). None of the properties is inductive without it: an operation that ends writes
a session it read before its execution, a recovery writes one whose reference names an
older trade, so what both hold in memory must be known to be true when it is saved. From
it follow `BookIsSound`, `BoughtOnce`, `LeasesReturn`, `QuarantineIsKept` and
`BookIsPermanent`. The executor's theorems are proved once more for its steps under these
callers (`LifecycleRecordsSound`, `LifecycleBroadcastRecorded`, `LifecycleSentOnce`),
which is the statement run `LifecycleFaults` checks.

**Lifecycle, fewer faults** (the same module). `TradesAreFollowed` and
`ContractIsKept` need `NoFaults`: no failing write, no crash, no exit monitor; the node
still fails at will. `CleanInv` adds to `LifeInv` that every trade which may still move
tokens is the one under execution or the one the row refers to under review
(`Followed`); two sales would be two such trades. `ContractIsKept` is the refinement: each
step either leaves the successful transactions and the book of every pair alone, or does
to one pair what an action of `PositionContract` does. `PositionIsKept` and
`CapacityIsRespected` need `~StoreFaults` only, the latter finitely many pairs as well.
`PositionInv` says which statuses speak of a pair that has bought nothing; `CapacityInv`
counts as committed, beside the pairs that hold tokens, a purchase that has been counted
and not sent (`Committed`), without which the count the engine makes before it buys would
prove nothing about the moment at which it does.

**Ingestion** (`SwapIngestionProofs`), from `IngestionAssumption`, for any log: when the
mark of a failed event can be written (`~MarkFaults`), `NoSwapIsDropped`,
`SwapsAreCounted` and `SwapsMoveForward`. In `IngestInv`, `PassSound` says that each target
of the running pass is read from the block after its checkpoint, which does not move while
the pass runs, and that the events it has left behind are processed; `InSequence` that the
processed swaps of a pair are its first ones; `SessionSound` what a session has recorded
of them, status by status.

**Canonical chain** (`CanonicalChainProofs`), from `ChainAssumption`, for any content of the
blocks, forks that come back included: `ChainIsSound`. `StoredChain` is not inductive, as
headers are read one at a time while the node replaces its blocks; `ChainInv` says what
a request may rely on at each of its steps (`RequestSound`): during the scan, that the
headers behind the stored tip continue it, because they continue one another from a block
that agrees with the journal, and that a scan which is not saved ends at the tip
(`ScanSound`); in a chunk, that the prepared chain is the stored one; before a rollback,
that the ancestor is in the journal and not before the cutoff. The rest is `CoordSound`:
a pending rollback has its audit, and a replay a pending rollback. What the filters and
the concatenation of logs return (`KeepIs`, `FlatIs`) is proved by the smallest
counterexample, over the recursive functions they are defined by. `ReplaysAreComplete`
needs a second invariant, `ReplayInv`: the node never falls behind the tip that won, so that
a request of a replay reaches it (`HeadsSound`); the request reads from the checkpoint of
each listener that is on, or from the cutoff (`ReadSound`); and a step that has ended
without a new divergence has brought its listeners to that tip (`StepsSound`).

**Events and sessions of the canonical chain** (`CanonicalSessionProofs`).
`NothingIsSkipped` has three hypotheses. No fork comes back (`~Comeback`): otherwise the
property is false, as section 3 says. A pair is created once (`OneCreation`), as the
factory emits it. And the process lives (`[][~Restart]_vars`): after a fresh start the row
of an event may still be canonical for a block at or before the cutoff that the node has
left since, and `claim` then refuses the event under its new block; blocks that old do
not belong to what the listener reads, but nothing in the store says so of the event. The
runs restart as well, within their bounds. The argument has three layers.
`ForksLeftBehind` numbers the forks: labels only grow at a height (`Moved`), so a chain
that was read from the node and is not a prefix of its chain now never will be again.
`RequestsTakeTurns` and `DivergencesAreReal` follow a divergence from the stored tip that
the node has left to its rollback: the tips of earlier rollbacks are abandoned, so the
identity of this one is new and it is carried out. `SkipInv` is then inductive:
`ReadSoFar`, the property itself for every block that is not abandoned; `LogsSound`, that
of each block of a chunk every event that concerns its listeners is handled or still
among the logs; `TargetsSound` and `AskedSound`, that a pass never reads a listener from
beyond its stored checkpoint, although checkpoints are read before the pass waits its turn
and are rolled back, or taken away, while it waits; `ImpactSound`, that a discovery a rollback
takes back is on no block the store keeps; and `RowsSound` and `SessionsTyped`.

`WalletsAreKept`, the half of `SessionsSound` about transactions, needs no hypothesis.
`WalletInv` says of a pair that has a transaction whose source event is orphaned
(`InDanger`) that the running rollback has it in its impact, with `wallet` set, or that its
session and the coordinator wait for a human already: the rewind orphans an event and
computes the impact in one transaction, the projection of the pair puts it under review,
and nothing takes it out of there.

`SessionsAreTrue` puts both together. It has the hypotheses of `NothingIsSkipped` and two
about what the factory and the pairs emit: an event is emitted once in a block
(`LogsOnce`), and the chain of the node has no swap of a pair below its creation
(`CreatedFirst`). Without the latter a rollback could take a discovery back, and leave
canonical swaps to a pair that is then rejected and, created again, starts from nothing.
The contents of the runs satisfy all of them. A session is rebuilt from the snapshot saved
with the first orphaned swap, so `ProjectionTrue` says nothing by itself of the session
that a rollback will restore. `ImageInv` says where the image of the swaps is at every
moment: in the session; in the snapshot that the running rollback has found, once the
rows are rewound and until the session is projected (`FollowSound`); and, for what comes
next, in the snapshot of every canonical swap, which is the image of the swaps before it
(`Snapshots`). That needs the order: swaps are handled in the order of the chain, none
before an earlier one of its pair (`InOrder`, for the stored rows; `TodoInOrder`, for the
logs a pass has read and not handled), for which the filters and the concatenation of logs
are shown to keep the order of the blocks and of the logs in each (`KeepOrder`,
`FlatOrder`), and a pass to read a listener from no further than the block after its
checkpoint (`TargetIs`). `CreationSound` says that a canonical swap has its creation
below, so that a pair whose discovery is gone has no swap left. After a handler that has
failed (`Stuck`) nothing is claimed of the sessions until the restart, by the property or
by the theorem.

**Exits** (`ExitPolicyProofs`), from `ExitAssumption`, for any settings, rules and markets.
Two invariants: `BaseInv` holds whatever is saved by whom, and gives `ExitsAreTyped` and
`PolicySellsForReason`; it has what the lock gives to the call that holds it (the row of a
call between its two evaluations is `HOLDING`, and what it then decides is what its
decision has recorded). `PolicySellsForReason` says of the start of every sale of the policy
that its decision is open, that the position is held, and that under the very revision that
decided it the position has at that moment the reason for the very action the decision
recorded, an emergency or a common sale; the reasons (`Fallen`, `Reason`) are stated apart
from the evaluator that finds them. `ExitInv` holds when no pass saves a stale
copy (`~Overlap`): what a pass has read is what is stored (`CopiesTrue`), and a position
agrees with its decisions, its call and the chain (`PairInv`: one that is `HOLDING` is not
sold, a decision under execution is of one that is not sold, an executed one of one whose
exit is saved). It gives `DecisionsAreSound`. `PositionsAreSoldOnce` and `PeakIsKept` name
`Overlap` in the property itself.

**Monitors** (`MonitorReplayProofs`), from `ReplayAssumption` (finitely many pairs, at
least one place): the scheduler looks at the places, then stops a monitor that gives way
or reads the session again, and only then starts the new monitor, while the coordinator,
the replay, a recovery and the dashboard go on. `CapacityKept` is therefore not inductive;
`PlacesInv` adds that, while a session is read again, the monitors without the one still
to be stopped leave a place. Every step that is not one of the scheduler's is shown to be
`Quiet`: it brings no monitor to life and no turn to a start. `PlacesAreKept` and
`GateIsKept` follow. `KindsInv` adds the kinds of all values, that each owner has one
request in the queue of the coordinator exactly while it waits there (an append needs to
know that there is none yet, the service of the head that there is no other), and that the
request which has tried a finalization again is still in the queue when that has failed:
`MonitorsAreSound`. `AuditIsComplete` rests on `AuditInv`: once the swaps of all monitors
have been read, a monitor that comes later is admitted with the answer of a pass, and that
pass has read its swaps, has failed, or was one that had taken its targets before the
monitor came (`LateCaught`, the exception `caught.late` of section 3). It has no hypothesis:
what it says is that there is no other way around the audit.

Model-checked only:

- `NoDoubleSale` and `NothingForgotten` beyond `NoFaults`, where they are false;
- `NothingSkipped` and `ProjectionTrue` (the other half of `SessionsSound`) after a restart;
- liveness, which the proof system does not reach.

## 5. Plan

In this order, most important behaviour first:

1. `RecoveryBarrier`, `SessionLocks`, `TradeExecutor`, `SessionLifecycle` with
   `PositionContract`: done, as above.
2. `SwapIngestion`, `CanonicalChain`, `ExitPolicy`, `MonitorReplay`: done, as above.
3. Theorems about the barrier, the locks, the executor, the lifecycle, the ingestion, the
   exit policy, the stored chain, its replay and the sessions it feeds, the monitors: done,
   as in section 4. Open: `NothingSkipped` and `ProjectionTrue` over a restart.
4. Left to model, none of it with much control of its own: the hydration of persisted
   rollbacks at startup, the swap classifier, entry sizing, trade accounting and the
   risk evaluator as operators over bounded inputs, the order of the shutdown.

## 6. Not modelled

The components with status `not_modelled` in `PROJECT.json`: the RPC pool, whose
cooldowns and budgets are timing and whose outcomes every module allows at will; the
risk analysis, entry sizing and trade accounting, which are tables and arithmetic
without state; and pure input/output, formatting and declarations (gateways,
configuration, logging, heartbeat, ABIs, pages of the dashboard, scripts, the probe
contract), which hold no state the properties speak of.

Of the components that are partly modelled, what is left out is said under their module
in section 2: clock time everywhere; in `CanonicalChain` persisted rollbacks, old
checkpoints, spools and lagging providers; in `MonitorReplay` the wording of failures
and the length of intervals; of the dashboard everything but its actions; of startup
and shutdown everything but the wiring of the components.
