# sipjsserver: specification and proofs

TLA+ models of the SIP back-to-back user agent in `src/` (an Effect-TS worker
fleet behind a stateless front proxy): what the workers promise each other when
they replicate call state, what one worker promises a call while many fibers work on
it, what its write-behind promises of the store, how it comes to follow its
peers and gets ready, how the front proxy learns which workers to use, what the
call limiter counts, and how the SIP transactions of a call begin and end. Paths
below are those of the repository (`src/...` is its implementation directory,
`repos/effect` the vendored runtime).

- [Inventory](#inventory) - the system's parts, their state, what is hard
- [What is modelled](#what-is-modelled) - modules and their correspondence to the code
- [Runs](#runs) - what each model-checking run asks and shows
- [Proofs](#proofs) - theorems, assumptions, the inductive invariant
- [Where code and documents disagree](#where-code-and-documents-disagree)
- [What is not modelled](#what-is-not-modelled)
- [Plan](#plan)

To repeat: `tlc -config ReplogOneCall.cfg MCReplog`, and so for the other
configurations: `Replog*.cfg` with `MCReplog`, `Call*.cfg` with
`MCCallHandling`, `StoreOrder.cfg` with `MCCallStore`, `PullersReady.cfg` with
`MCSupervision`, `WorkersLeft.cfg` with `MCWorkerHealth`, `LimiterCounts.cfg` with
`MCCallLimiter`, `TxnsEnd.cfg` with `MCTransactions`. The proofs: `tlapm` on each of the eight modules `*Proofs.tla`.

## Inventory

A call enters at the **front proxy**, which picks a worker (its *owner*) and
names a second one (its *backup*) in the `w_pri`/`w_bak` parameters of its
Record-Route. The owner runs the call; every flushed state is written to the
owner's key-value backend under `pri:{owner}:call:{ref}` and announced on the
channel `propagate:{backup}`. The backup pulls that channel and keeps
`bak:{owner}:call:{ref}`. When the owner fails, the proxy sends the call's next
request to the backup, which loads the copy and goes on; when the owner is back
it pulls what happened meanwhile.

### Call state and its handlers (`src/call`, `src/sip/SipRouter.ts`, `src/sip/PerCallDispatcher.ts`)

| | |
|---|---|
| State | per callRef: a bounded queue and a worker fiber (`perCallQueues`); the record in `callsMap`; a permit in `semaphores`; timer fibers in `fibersMap`; on the record its legs, timers, limiter entries, `callGen`, `_topology` |
| Operations | dispatch an event; create a call from an INVITE; resolve and load a call; run the rules; apply the result (`processResult`: update, critical effects, outbound messages, limiter release, CDR, removal); fork an asynchronous REFER lookup; schedule, cancel, cancel all timers; force-purge by safety timer or orphan sweep; flush, remove, rehydrate at boot |
| Interacts with | transactions (events, retransmission), the backend (load, flush, delete), the limiter and the decision service (awaits in the middle of a handler) |
| Hard | a handler holds what it loaded across awaits; its time budget may interrupt it between any two effects; a slot of the permit map is dropped while fibers wait on the permit; two purgers do not ask for the permit; a timer's handler reschedules the timer it was fired by; the queue's POISON discards what is behind it |
| Correct if | no change is written over unseen; effects run only for a call that was found; a terminating call always leaves memory; a finished call is billed, and its limiter slots are released, once; no fiber waits for itself |

### Storage (`src/storage/KvBackend.ts`, `src/cache/PartitionedRelayStorageKvBacked.ts`)

| | |
|---|---|
| State | bodies with TTL and generation sidecar, index keys, per-peer channels bucketed by the writer's incarnation, one counter per bucket |
| Operations | put or delete with an announcement, batched read after a position, head of a channel, replica apply, scan of a partition |
| Hard | entries carry no body: frames are read later than they are announced; two implementations (memory, Lua) must agree; positions compare lexicographically by (gen, counter) |
| Correct if | positions are unique and grow, the last announcement of a call is in the channel, both implementations compute the same head |

### Replication (`src/replication`)

| | |
|---|---|
| State | server: cursor of each open stream. Backup: watermark per peer, fiber slot per peer, attempt counter, `everCaughtUp`. Both: incarnation (`gen`) |
| Operations | serve a stream (batch, frames, noop at head, idle pause); connect, receive, apply behind the generation gate, advance, reconnect with backoff; reconcile peers with fibers; bootstrap scan at boot; readiness gate; take-over and failback |
| Hard | frames lost with a connection and delivered again; a fiber interrupted between apply and advance; restarts of both ends with or without their backend; incarnations mixed in one comparison; a call deleted and created again; an apply that fails |
| Correct if | what the watermark covers is on the backup; nothing is passed over; the watermark never goes back; every announcement is covered in the end; readiness only after catching up |

### Write-behind (`src/cache/BufferedTerminateWriter.ts`)

A bounded queue of storage writes, several drainers, and a direct write when the
queue is full. Hard: a direct write overtakes queued ones of the same call; a
load reads past the queue. Correct if the storage ends up with the last
submitted write and every job lands or fails.

### Call limiter (`src/call/CallLimiter*.ts`)

Windowed counters in Redis, incremented on admission and decremented on the
call's end, with a timeout after which a call is admitted anyway. Hard: an
increment that timed out may land; a decrement can be lost or doubled; windows
rotate under long calls. Correct if counts return to zero and the limit is
respected while the limiter answers.

### SIP transactions (`src/sip/TransactionLayer.ts`)

A map of client and server transactions by Via branch, each with timer fibers, and
the bounded queue of events for the router. Operations: a request comes in (new,
repeated, ACK, CANCEL), a response comes in, the handler sends one or the other,
timers fire, the sweep runs, an evicted call's transactions are cancelled. Hard:
a response before the timers of its request are recorded; CANCEL against a final
response; eviction beside a handler in the middle of sending; packets that come
after cleanup. Correct if each transaction ends, its outcome is reported once, a
request goes up once, and nothing of an evicted call fires.

### Fleet control

- **Front proxy** (`src/sip-front-proxy`): worker selection, load bands, health
  probes, self gate, CANCEL branches remembered in an LRU; policy plus three
  small state machines (health, self gate, LRU).
- **Readiness and supervision** (`ReadinessController`, `ReplicationSupervisor`):
  a worker turns ready between T_min and T_max.
- **Overload and draining** (`b2bua/OverloadController.ts`,
  `b2bua/DrainingState.ts`): hysteresis tiers, drain sequence.
- **Incarnations** (`EpochCounter.ts`): wall clock and restart count packed in
  one integer.

### Not part of the logic

Parsers, generators and the call codec (data conversions), transports and
status server (I/O), CDR and metrics (I/O; the CDR buffer drops by design),
decision service client, rule set (policy), native parser, SDK, test harness,
vendored runtime. `PROJECT.json` lists every component with its status, and the
hazards each at its line with the properties that would catch it.

## What is modelled

| Module | What it is |
|---|---|
| `KvChannel` | operators of one propagate channel: entries, positions, batch, the two head computations |
| `Replog` | replication of one owner's calls to one backup: state machine and properties |
| `ReplogInv` | the inductive invariant of `Replog`, in named parts |
| `CallHandling` | the fibers of one worker that work on one callRef |
| `OrderedStore` | abstract: a register per call, one line of requests served in their order |
| `CallStore` | the write-behind of call state, its connection, loads and the boot scan; implements `OrderedStore` |
| `Supervision` | bootstrap scans, one puller per peer, the readiness controller |
| `WorkerHealth` | the proxy's probe and registry against workers that boot, drain and crash |
| `CallLimiter` | the window counters of one limiter id and the calls that use them |
| `Transactions` | the client and server transactions of one call on one worker |
| `MC*` | an instance of each for TLC |
| `ReplogProofs`, `ReplogUpdateProofs` | theorems about `Replog`, the second module resting on the first |
| `CallHandlingProofs`, `CallStoreProofs`, `SupervisionProofs`, `WorkerHealthProofs`, `CallLimiterProofs`, `TransactionsProofs` | theorems about these modules |

`ReplogInv` extends `Replog`, which extends `KvChannel`; `CallStore` instantiates
`OrderedStore`. The state machines meet where one's action is another's
environment:

- `CallHandling` ends with "the call leaves memory"; that is `Remove` and
  `DropTerminating` in `Replog`, and `Remove` or `Purge` in `CallStore`.
- `Replog` lets storage writes land in the order they are submitted. `CallStore`
  says when that is so: `Settled` and the refinement hold for calls that did not
  *slip*.
- `Replog` has one puller that reconnects and may be interrupted or die.
  `Supervision` says when there is one, for any number of peers.
- `CallHandling` awaits the limiter at the points where `CallLimiter` has its
  commands; a purge beside a handler is `ReleaseAgain` there.
- `Transactions` is what `CallHandling` gets its messages from and sends by: its
  handler is reduced to what touches transactions, with the same two ways out of
  memory (`Remove` under the permit, `Purge` without).

The `map` of `PROJECT.json` gives the lines of each definition. A definition that
stands directly before the one it resembles (`BumpForgotten` before `Bumped`,
`LoadAnyway` before `Load`, `ReapLate` before `Reap`) is never used by a
specification. It is the code with one plausible mistake, kept so that each
property can be shown to notice a mistake.

### Replog: one owner, one backup

| Variable | Code |
|---|---|
| `epoch` | the worker's incarnation, packed by `EpochCounter.packGen` |
| `mem`, `flushCache` | `callsMap` and the object-identity flush cache of `CallState` |
| `body`, `idx` | `pri:{owner}:call:*` with its sidecar; the backup's `idx:*` keys |
| `chan`, `seq` | `propagate:{backup}:gen:*` sorted sets and `seq:*` counters |
| `conn`, `cursor`, `phase` | the stream's scope, `ReplogTickState` of `buildPullStream` |
| `pipe`, `noops` | frames written by the server and not yet read by the puller |
| `wm`, `caughtUp` | the puller's watermark and `everCaughtUp` |
| `replica`, `lag` | `bak:{owner}:call:*`; calls whose TTL the owner renewed alone |
| `lives`, `last`, `skipped` | history, for the properties only |

Actions: the owner's `Create`, `Touch` (an update in memory), `Flush`,
`FlushDedup`, `Remove`, `LoadCall`, `DropTerminating` (a terminating call found
at boot), `Expire`, `OwnerRestart`; the server's `PullBatch` and `IdleTick`; the
puller's `Connect`, `ApplyFrame`, `SkipFrame` (gate), `ReceiveNoop`, `Refork`;
the faults `Disconnect`, `InterruptedApply`, `ApplyFails`, `ReplicaExpire`,
`IndexExpire`, `BackupRestart`.

Frames carry the body of the moment they are read, not of the moment they were
announced: an update may turn into a delete, and a body may be newer than its
entry. A copy is a record (life, generation, encoding): *life* tells creations
of a callRef apart, which the code does not store - the gate that compares
generations cannot see it, which is what `LifeInv` is about.

Abstractions:

- Storage writes land in the order they are submitted. The write-behind queue
  can reorder them; see `CallStore`.
- Frames in flight are dropped when the owner restarts (its process held the
  response) and on `Disconnect`.
- The bootstrap import is one step with a complete or partial result. Retries
  and deadlines show only in which result it is.
- A stored call is loaded, never created over (`Create` needs no stored body).
  `flushAllCalls` is `Touch` and `Flush` of each call. Legacy calls without
  topology (generation 0) are left out.
- Incarnations increase strictly over restarts. The code takes wall clock and
  restart count; a clock set back is listed as a hazard.
- The gate's read and the write after it are one step: in one direction only
  this puller writes `bak:{owner}`. At failback that is no longer so (hazard).
- `MaxWire` stands for the back-pressure of the HTTP response.

### CallHandling: one callRef, many fibers

Five fibers: the per-call *worker* (queue items), the *timer* handler of one
call timer (keepalive, limiter refresh and the like), the asynchronous lookup
*fork*, and the two purgers, *safety* timer and orphan *sweep*.

| Variable | Code |
|---|---|
| `exists`, `queue` | the entry of `perCallQueues`, its bounded queue |
| `call` | the record in `callsMap`: which creation, its state, legs that refreshed the safety timer |
| `slot`, `holder`, `sem` | `semaphores`: the permit a newcomer gets, who holds which, which one a handler uses |
| `entry` | `fibersMap` of `TimerService`: none, asleep, or running its handler |
| `direct` | the timer fiber that fired and has not given way since |
| `pc`, `base`, `out` | where a handler is, the record it loaded, what the rules made of it |
| `stored` | the active bodies the callRef was flushed with (`pri:{self}:call:*`, at any time) |
| `caller`, `events`, `forks`, `lives`, `cdrs`, `released`, `revived`, `stale` | environment and history; `revived` are the creations that were read back from the storage after their removal |

A handler goes through `Enter` (get the permit object, wait) and `Load`: the call is in
memory, or the storage is asked (step `"fetch"`), which answers with a call (`ReadBack`),
with none (`NotFound`, then `Vanished`: a 481, the permit's slot dropped) or with an
error (`FetchFails`). Then come `Update`, `CriticalKeep`/`CriticalTerminate`/
`CriticalEnd`, `Outbound` (or `OutboundAndFork`), and for a terminated call
`ReleaseLimiter`, `WriteCdr`: the order of `SipRouter.processResult`. `Create`
puts the skeleton in memory without the permit, `FastReject` is the 481 to a
terminating call. A purger goes through `SafetyTimerFires` or `Sweep`,
`PurgeReleases`, `PurgeRemoves`; it asks for no permit. `BudgetRunsOut` interrupts
a handler between any two steps. One step is what runs under an uninterruptible
mask or without an await.

Each fiber the runtime forks is scheduled separately, so steps of different
fibers interleave freely - except after a timer fires. `Effect.timeoutOrElse`
runs the handler in a race (`repos/effect/packages/effect/src/internal/effect.ts:1445-1479`)
that starts it at once; only when the handler first gives way is the timer's own
fiber parked in the race. `direct` names the timer in between, and `GiveWay`
ends that stretch. It matters because `TimerService.schedule` and `cancel`
compare the fiber of the map with the current one, and the current one is the
raced handler, never the timer's fiber. A handler that has given way and
reschedules its own timer waits, uninterruptibly, for a fiber that waits for it
(`Hangs`, step `"stuck"`); one that has not given way ends the timer's fiber and
goes on. The safety timer's purge is interruptible and is cut short instead
(`PurgeCutShort`): its call stays in memory for the sweep. The vendored runtime
is 4.0.0-beta.66, `package.json` pins 4.0.0-beta.43; the race was read in the
vendored one.

Abstractions:

- One call timer stands for all but the safety timer; the record's data is its
  state and which legs refreshed the safety timer. The time of a deadline is left
  out: `DeadlineMayPass` lets it pass whenever no fiber that changes the call
  is about to end (a handler ends long before the 64 s it would have set).
- The second `CallState.update` after `handleInitialInvite`
  (`src/sip/SipRouter.ts:1278`) rewrites trace ids of the current record: no effect here.
- A call-routed lookup is treated as any other lookup.
- An INVITE with the same Call-ID and From tag comes again only after a final
  answer.
- In a `cancelAll` that hangs, which sleeping timers were cancelled before is
  left open.
- The storage answers with any active body written so far, or with none: which of the
  writes have landed (queued ones, ones that an older write overtook, ones given up) is
  left to `CallStore`. A terminating body counts as none, as in `loadCall`; that
  its delete is then submitted once more changes nothing here. What is read is put into
  memory over whatever is there by then.
- A new permit is the smallest that nobody holds or waits for: permits that are over
  are never compared again.
- Rehydration at boot is in `CallStore`. Events routed inline, the global concurrency
  and queue caps are in neither.

### CallStore: write-behind, connection, loads

| Variable | Code |
|---|---|
| `mem`, `clean`, `fresh` | `callsMap`, the flush cache, callRefs not used yet |
| `queue` | the bounded queue of `BufferedTerminateWriter` |
| `busy` | who waits for a reply: a drainer, a handler that fell through, the boot recovery, the sweep |
| `wire`, `done`, `seen` | commands on the one Redis connection without a reply; how many this connection, and how many some connection, has executed |
| `store` | `pri:{self}:call:*` |
| `scan` | what `loadOwnedCalls` has read and not gone through |
| `newest`, `slip` | history, see below |

Actions: `Create`, `Flush`, `FlushAgain` (the duplicate gate), `Remove`, `Purge`,
`Load` and `LoadReply`; the drainers' `Take`; Redis's `Execute` and `Reply`; the
fall-through's `Timeout`; `Refuse`, `Reconnect` (what had no reply is issued
again), `GiveUp`; `Crash` with `ScanRead` and `Rehydrate`. A load is a command of
the same connection: that is why a command executed twice never shows to this
worker's reads, and why `seen` rather than `done` decides what a reader may
have seen.

`slip` names the calls for which ordered landing is not promised: the newest
write was issued directly past an older one still queued, or was given up.
`OrderedStore` has the same variable, so that the exemption is part of the abstract
promise and not of the mapping. There all requests of the worker, reads included,
wait in one line: what was issued on the connection and not executed by any, and
behind it the queue. A direct write joins before the queue, which is what makes a
call slip. The mapping's registers are what a reader gets once every command that
some connection has executed is through (`Registers`).

Bodies are a state and a generation. The no-peer put and delete of the backend,
several commands in the code, are one. The scan takes terminated bodies as any
others, as the code does.

### Supervision: scans, pullers, readiness

| Variable | Code |
|---|---|
| `listed` | `currentPeers` of `PeerEnumerator` |
| `import`, `left` | attempts of `runPeerScanBootstrap`, ticks to its deadline |
| `pc`, `snap`, `todo`, `held` | where `reconcile` is, the peers it read, slots with a fiber |
| `life` | the fiber itself: running, ending (interrupted), dead (defect) |
| `view`, `caught` | `fiberState`, `everCaughtUp` |
| `delay`, `since`, `sleep` | the puller's backoff, its time since the first error, its pause |
| `elapsed`, `worker` | the controller's clock and `WorkerState` |
| `always` | history: peers listed without a break since boot |

DNS answers arbitrary subsets of the peers (`Lookup`), scans succeed, fail and
hang, streams break (`Lost`), a failed apply kills the fiber (`Die`), and an interrupted
fiber ends at its own time (`Disappear`). A reconcile is not atomic: DNS, pullers
and controller go on between its steps. Time is in ticks; a fork loop waits for
nothing, so no tick falls into it.

### WorkerHealth: probe, registry, drain

| Variable | Code |
|---|---|
| `phase`, `clock` | the worker's readiness and `DrainingMode`; ticks in a drain tier, or since it last served |
| `deleting`, `gone`, `fresh` | the pod's `deletionTimestamp`; its object deleted; made again, not yet seen |
| `stage`, `wait`, `probed`, `pending`, `misses` | the probe's loop, OPTIONS on the way, `pendingByCallId`, `consecutiveMisses` |
| `reply` | the last reply on the way or in the proxy's queue |
| `k8s`, `probe`, `drained` | the registry's pair of health values, `drainingSince` |
| `hot` | workers in the band above critical |
| `lossless` | history: draining workers of which no packet was lost |

A worker boots, serves, drains (`SigTerm`, or `Delete` of its pod), falls `Quiet`
after the first tier, exits after the second, crashes and is started again, in
the same pod or a new one. The probe fans out, hears replies late, loses them,
and reaps. The watch observes pods at any time, late or after a gap. A Kubernetes
value and a probe value are combined by the most restrictive side; `NewDialog`
and `InDialog` are what the proxy makes of it. The load in a reply is arbitrary
except in `draining-new`, where the worker always reports 1.000. `Observe` reads
the pod as it is: `/ready` answers 200 only when ready and serving.

### CallLimiter: windows, fail-open, repeats

| Variable | Code |
|---|---|
| `window`, `count` | the current window; the value of each window's key |
| `phase`, `entry` | where a call's handler is; its `limiterEntries` element |
| `wire`, `reply` | the call's commands at Redis or on the way; the answer of the oldest |
| `twice`, `late`, `leaked` | history: decrements made twice, calls admitted into a past window or moved from before the summed ones, a count lost track of |

`Admit`, `Migrate` (refresh of an older entry), `Release`, `ReleaseAgain`; `Hear`,
`Timeout` (the command may still be executed), `Refuse`; `Execute` with the
three Lua scripts; `Resend`, `Lose`, `Vanish` (the worker dies). A window is its
position; 0 is the window of an entry admitted without a count.

### Transactions: one call's requests, in and out

| Variable | Code |
|---|---|
| `txn` | `txnMap`: state, last response, whether fibers are recorded and the request is kept, age |
| `watch`, `resend`, `cleanup` | the fibers of Timers B and F, of retransmission, of Timers H and J |
| `queued` | how many events `eventQueue` holds |
| `inbound` | what the one fiber of inbound packets has looked up and not finished with |
| `handler`, `live`, `evict` | where the call's handler is in `sendRequest`; the call in `callsMap`; what each `cancelTxnsForCall` has found and not yet cancelled |
| `heard`, `peer`, `peerAge`, `flight` | the environment: peers and responses on the way to them |
| `told`, `handed`, `answers`, `cancelled`, `late`, `excused` | history |

The runtime makes a fiber give way after 2048 operations, wherever it is, so the
fiber of inbound packets and a handler may be overtaken between any two steps.
`sendRequest` is therefore `Store`, `Transmit`, `Fork` and `Record`; a final
response is `FinalArrives` and `FinalFinishes`, CANCEL likewise; an eviction
takes its victims as it found them, one after the other (`CancelOne`). A timer's
wake-up is a fresh stretch of few operations and is one step. `RunsOut` and
`SendResponseRunsOut` are the handler's budget between two of these.

Abstractions: a packet a peer sends arrives at once or never, what the worker sends
arrives within the tick or never, so packets cross but do not overtake each other.
Storing, sending and evicting take no ticks. The To-tag shows only where it
decides (the ACK of the stateless 503 has none); an INVITE always passes the
gate or not, whatever its To-tag. ACKs the worker sends have no effect on
the peer here, who may repeat a response in any case. What the queue's events say
is left to `CallHandling`; which responses a handler sends is free, but for one
final per request.

### Constants and bounds

Each module names its assumption (`ReplogAssumption`, `HandlingAssumption`,
`CallStoreAssumption`, `SupervisionAssumption`, `WorkerHealthAssumption`,
`CallLimiterAssumption`, `TransactionsAssumption`): natural numbers and Booleans, at least one of what the
code divides or waits by. `SupervisionAssumption` orders T_min and T_max,
`TransactionsAssumption` has the sweep's age not below the timers (35 s, 32 s), and
`WorkerHealthAssumption` bounds how late a reply is handled by the probe's
timeout: a proxy whose receive queue is further behind than that has other
troubles. The proofs assume nothing else.

Bounds in guards: `MaxEpoch`, `MaxCounter`, `MaxLives`, `MaxWire`, `MaxFaults`
in `Replog`; `MaxLives`, `MaxEvents`, `MaxForks` in `CallHandling`; `MaxSubmits`,
`MaxFaults` in `CallStore`; `MaxWindow`, `MaxFaults` in `CallLimiter`; `Mixes` in
`Transactions`, the sets of requests that occur together.
`Supervision` and `WorkerHealth` have none: their counters stop at the values the
code compares them with. Because bounded counters stop a behaviour in the
end, and because a fleet without traffic stands still, every configuration
sets `CHECK_DEADLOCK FALSE`. That the loops themselves do not stop is what the
liveness properties say.

## Runs

| Run | Instance | Asks |
|---|---|---|
| `ReplogOneCall` | 1 call created twice, 2 incarnations, 3 announcements each, 2 faults of any kind | `NoLostUpdate`, `HeadParity`, `IInv` (2.1 M states) |
| `ReplogTwoCalls` | 2 calls, 2 incarnations, 2 announcements each, 1 fault, fair loops | `NothingPassedOver`, `WatermarkNeverBack`, `EventuallyCovered`, `CatchesUp` (0.5 M states) |
| `CallBudgets` | 1 leg, 1 message, 1 lookup; budgets may run out; fair fibers | `TypeOK`, `NoLostUpdate`, `TerminatingEnds` (0.19 M states) |
| `CallBilled` | 2 legs, 2 messages, 1 lookup; timers' handlers may wait | `EndedIsBilled`, `ReleasedIsEnding`, `NoLostUpdate` (4.6 M states) |
| `StoreOrder` | 1 call, 2 drainers, a queue of one, 3 writes, 2 faults | `TypeOK`, `Settled`, `LoadsNewest`, `KeepsThePromise`, `EventuallySettled` |
| `PullersReady` | 2 peers | `TypeOK`, `SlotsTrue`, `ImportsFirst`, `ReadyHeardAll`, `EventuallyReady`, `ListedIsPulled` (0.15 M states) |
| `WorkersLeft` | 1 worker, half-second ticks, the default times | `TypeOK`, `SilentIsLeft`, `DrainIsSeen`, `EventuallyRouted` (0.7 M states) |
| `LimiterCounts` | 3 calls, limit 1, 2 summed windows of 3, 2 faults | `TypeOK`, `NeverUndercounts`, `LimitHonoured`, `ReleasedExactly` (3.7 M states) |
| `TxnsEnd` | an INVITE of a peer, or another request, or an INVITE of the worker; timers of 2 ticks, a queue of one | `TypeOK`, `HandedUpOnce`, `CancelledIsAnswered`, `TimeoutIsLast`, `EvictedIsSilent`, `ReportedInTheEnd`, `TxnsLeave` (0.35 M states) |
| `ReplogOwnCalls`, `ReplogApplyError`, `CallTimerHangs` | small | one documented claim each, which the code does not keep ([below](#where-code-and-documents-disagree)) |

What the properties say:

- **`Replog!NoLostUpdate`**: a call whose last announcement the watermark covers
  is on the backup exactly as the owner stored it last, or is gone there if it
  was deleted. Exempt by name are a body the owner itself lost to its TTL, a
  copy that expired first because a duplicate flush renewed only the owner's TTL
  (`lag`), and calls in `skipped`.
- **`NothingPassedOver`**: an announcement above the watermark is in the channel
  and is, on an open stream, still to be read or on the wire.
- **`WatermarkNeverBack`**: no step but a restart of the backup's process moves
  the watermark back, not even an owner that lost its channel.
- **`HeadParity`**: the largest position and the bucket counter are the same head.
- **`EventuallyCovered`, `CatchesUp`**: every announcement is covered in the
  end, and the puller keeps reporting that it caught up.
- **`CallHandling!NoLostUpdate`**: no handler writes the record back over a
  change it has not seen (within one use of a callRef, and unless the call was read back
  from the storage after its removal).
- **`TerminatingEnds`**: a terminating call leaves memory, wherever handlers run
  out of budget. One that was read back may become active again instead, when an older
  body is read over it.
- **`EndedIsBilled`**: a call that is over has a CDR, whoever ended it.
- **`ReleasedIsEnding`**: a call whose limiter slots were released is over or
  on its way there: no handler that had loaded it brings it back. A call that is read
  back from the storage later (`revived`) is exempt; that it happens is
  told [below](#where-code-and-documents-disagree).
- **`Settled`, `EventuallySettled`, `KeepsThePromise`**: once nothing is outstanding,
  and in the end always, the store holds the write submitted last; the write-behind
  is an `OrderedStore`. Exempt are the calls in `slip`.
- **`LoadsNewest`**: a call read back is the newest write unless a write of it is
  still outstanding (or it is in `slip`); then it may be an older one.
- **`SlotsTrue`**: never two pullers of one peer, and none writes the view of a peer
  that disappeared.
- **`ImportsFirst`**: while a scan may still write, nothing else does and the
  worker is not ready.
- **`ReadyHeardAll`, `EventuallyReady`, `ListedIsPulled`**: ready before T_max only
  by evidence of every peer listed since boot (a peer that left and came back counts
  as heard by what it said before: `everCaughtUp` is kept, and nothing is claimed of
  it); ready in any case; a peer that
  stays listed is streamed from again and again unless its fiber died.
- **`SilentIsLeft`**: a worker that has not been fit for a call for longer than
  Threshold * (Interval + Timeout) + Timeout gets no message of a dialog. Exempt
  is a draining pod within its grace that the probe does not hold alive: the
  Kubernetes side hides the probe's then, by design of the most restrictive rule.
- **`DrainIsSeen`**: without loss, no new call is placed on a worker once it
  has fallen silent.
- **`EventuallyRouted`**: a worker that serves for good gets new calls for good.
- **`NeverUndercounts`**: from any window on, the counters are at least the calls
  that go on and were counted there.
- **`LimitHonoured`**: no more counted calls go on than the limit allows.
- **`ReleasedExactly`**: when all is over every counter is zero. What each of the
  three exempts (`twice`, `late`, `leaked`) is set by the action that is to blame.
- **`HandedUpOnce`**: a peer's request goes to the router once, however it is
  repeated and however its transaction ended.
- **`CancelledIsAnswered`**: an INVITE whose cancellation goes to the router has
  been sent a final response, on which the rules rely. Exempt are the INVITE that
  was swept while it rang and the one whose completion a budget cut short
  (`excused`).
- **`TimeoutIsLast`**: no timeout after a final response.
- **`EvictedIsSilent`**: once a `cancelTxnsForCall` is over, only requests stored
  after it had begun (`late`) time out.
- **`ReportedInTheEnd`**: of each request the router hears a final response or a
  timeout, unless the call is evicted, the event does not fit in the queue or
  the handler is cut short before it forks the timers (`excused`).
- **`TxnsLeave`**: every transaction leaves the map.

Why the bounds are enough for the interesting cases.

- *Replog*: two incarnations give every mix of old and new positions in one
  comparison; three announcements make a call written, deleted and written
  again; two lives meet the gate across a re-creation; two faults include a
  restart of each end around one stream; two calls give batches that split what
  belongs together. One frame on the wire keeps the second run small;
  `ReplogOneCall` has two.
- *CallHandling*: one message and a lookup already put three handlers on
  two permits, next to both purgers; `CallBilled` adds the second leg's refresh of
  the safety timer and enough messages to fill a queue of depth 2. Both runs use
  a callRef once. A second use would be one more writer and is in the plan.
- *CallStore*: two drainers can have two writes of one call on the wire, a queue
  of one is full at once, the third write meets both; two faults break a
  connection and restart the worker. Calls do not interact but through the queue's
  room, which drainers fill and empty for one call as for many.
- *Supervision*: peers share the supervisor, which waits for one of them at a
  time; two make it wait for one while the other is listed, dropped or dead.
- *WorkerHealth*: workers share only the cycle of the probe. A tick is half a
  second, so the defaults are Interval 2, Timeout 3, Threshold 2, Tier1 6, Tier2 10
  and Grace 10; replies may be as late as the timeout.
- *CallLimiter*: with limit 1 and three calls two compete for the same place
  while a third is refused or leaves; three windows let an entry fall out of the two
  that are summed; two faults are a timeout and a repeat of the same command.
  Calls are interchangeable (symmetry; no liveness is checked there). Limit 2
  passes as well (7.4 M states).
- *Transactions*: requests meet only in the queue and in an eviction's list,
  which a queue of one and arbitrary starts of the handler stand for, so they are
  checked apart (the safety properties also passed with an INVITE and a BYE of the worker
  together, timers of 1 tick, 7 M states). Two ticks let a request be repeated before
  and after its answer, and the sweep come after the timers.

The constants `Budgets` and `TimerWaits` split the call's runs, because each
property holds under one of them only, and that is part of the result:
`TerminatingEnds` fails when a timer's handler hangs with the permit (the
orphan sweep then hangs on it as well), `EndedIsBilled` fails when a budget runs
out between the removal and the CDR. `CallBudgets` therefore has
`TimerWaits = FALSE` and `CallBilled` has `Budgets = FALSE`. In the same way
`ApplyMayFail` is FALSE where the puller's liveness is checked;
`ReplogApplyError` shows what it does.

### Fairness

- `Replog`: weak fairness of `ServerStep` and of `PullerStep`. The server's
  stream and the puller's loop are fibers that always have a next step while
  there is one to take; the puller reconnects for ever with a capped backoff
  (`PullerFiber.ts:198-266`). Nothing is assumed of the owner's traffic or of
  faults; `MaxFaults` bounds them, so a stream is up long enough in the end.
- `CallHandling`: weak fairness of `GiveWay`, strong fairness of each fiber's
  steps. A runnable fiber gets its turn, the permit is handed out in order of
  arrival (so that a waiter does not starve: strong), sleeps end, the sweep
  ticks every minute and a deadline once passed stays passed. Callers and peers
  may fall silent at any time.
- `CallStore`: weak fairness of each drainer's `Take`, of `Execute`, of replies, and
  of the boot scan. Handlers, the fall-through's timeout and faults are free.
- `Supervision`: weak fairness of time, of the controller's and the supervisor's
  loops, of a puller's connect and of the end of a scan's attempt. That a scan
  or a lookup ever answers is not assumed.
- `WorkerHealth`: weak fairness of time, of the probe's loop, of packets (which
  may be lost), of the watch, and of the drain's timers. That a worker answers,
  stays or comes back is not assumed.
- `Transactions`: weak fairness of the handler's steps of sending, of the second
  half of what the inbound fiber does, of eviction, timers and the sweep; strong fairness
  of time, which goes on although the inbound fiber is busy again and again. Peers,
  the handler's decisions and the purge are free.

## Proofs

TLAPS proves, for any calls, drainers, peers, workers, times, bounds and number
of faults:

| Theorem | Says |
|---|---|
| `TypeCorrect` (ReplogProofs) | `Spec => []TypeOK` |
| `HeadsAgree` (ReplogProofs) | `Spec => []HeadParity` |
| `NoAnnouncementPassedOver` (ReplogProofs) | `Spec => []NothingPassedOver` |
| `InductiveInvariant` (ReplogUpdateProofs) | `Spec => []IInv` |
| `NoUpdateLost` (ReplogUpdateProofs) | `Spec => []NoLostUpdate` |
| `WatermarkForward` (ReplogUpdateProofs) | `Spec => WatermarkNeverBack` |
| `TypeCorrect` (CallHandlingProofs) | `Spec => []TypeOK` |
| `NoUpdateLost`, `ReleasedEnds`, `EndedHasCdr` (CallHandlingProofs) | `MaxLives = 1` implies `Spec => NoLostUpdate` and `Spec => []ReleasedIsEnding` (both of a call that was not read back); with `Budgets = FALSE` also `Spec => []EndedIsBilled` |
| `TypeCorrect`, `LineKept`, `StoreSettles`, `LoadedIsNewest` (CallStoreProofs) | `Spec => []TypeOK`, `[]LineInv`, `[]Settled`, `LoadsNewest` |
| `ImplementsOrderedStore` (CallStoreProofs) | `Spec => KeepsThePromise`, that is, `CallStore` refines `OrderedStore` |
| `TypeCorrect`, `OnePuller`, `ImportsComeFirst`, `ReadyByEvidence` (SupervisionProofs) | `Spec => []TypeOK`, `[]SlotsTrue`, `[]ImportsFirst`, `ReadyHeardAll` |
| `TypeCorrect`, `SilentLeft`, `DrainSeen` (WorkerHealthProofs) | `Spec => []TypeOK`, `[]SilentIsLeft`; `Tier1 > Cycle` implies `Spec => []DrainIsSeen` |
| `TypeCorrect`, `CountsGivenBack`, `NeverUnder`, `LimitKept` (CallLimiterProofs) | `Spec => []TypeOK`, `[]ReleasedExactly`, `[]NeverUndercounts`, `[]LimitHonoured` |
| `TypeCorrect`, `HandedUpOnceHolds`, `CancelledIsAnsweredHolds`, `TimeoutIsLastHolds`, `EvictedIsSilentHolds` (TransactionsProofs) | `Spec => []TypeOK`, `[]HandedUpOnce`, `[]CancelledIsAnswered`, `TimeoutIsLast`, `EvictedIsSilent` |

So every invariant and every action property that the passing runs check is a theorem.
What the properties exempt (see [Runs](#runs)) the theorems exempt as well.
Only the named assumptions of the constants are assumed, and what the table
says. `Call` of `Replog` need not even be finite.

**Replog.** `NoLostUpdate` is not inductive: whether applying a frame leaves
the right copy depends on what is on the wire, in the channel and in the gate.
`IInv` adds, in the order the proof modules establish them:

1. `ChanInv` - entries lie below the bucket counters, no two share a position,
   the counter's own position is always occupied, a call's last announcement is
   its newest entry. The last two give `HeadParity`. (`ZADD` replaces the member
   of the same call and operation, so a position may be vacated, but never
   the newest one.)
2. `StreamInv` - watermark ≤ wire ≤ cursor ≤ top of the channel, and every entry
   above the watermark is still to be read or on the wire. From it: the frame
   the puller receives next is at the least position not covered, so moving the
   watermark to it covers nothing else. `NothingPassedOver` follows.
3. `CopyInv` - no copy anywhere is newer than the owner's of the same life; an
   update frame at the position of the last announcement carries the stored
   body, unless that has expired since.
4. `LifeInv` - a copy of an earlier life, on the wire or on the backup, has a
   delete still to come in the channel. This is why the gate, which compares
   generations of different lives, does no harm in the end: the delete is
   not gated and comes after the old copy and before the new ones.
5. `NoLostUpdate` - when the frame of the last announcement is applied, either
   it is taken, and then the copies are equal by (3); or the gate refuses it, and
   then the held copy is of the same life (4), not newer (3) and not older
   (the gate), hence equal.

Each part has one lemma per action or group of actions that disturbs it
(`StreamPullBatch`, `LifeApplied`, `UpdateBackupRestart`, ...), and `...Next`
puts them together. TLC checks `IInv` itself in `ReplogOneCall`.

**CallHandling.** `NoLostUpdate` rests on `HandlingInv`. `PermitInv` says that while a
call is in memory everybody who waits for or has a permit has the one of the slot, and
who runs holds it; the exception is the worker that creates the call without a permit,
and then there is nobody else (`Creating => Alone`). So no two handlers run, and what
one loaded is what is in memory (`BaseInv`). The purgers, which take no permit, are
seen to by `ReleaseInv`: who is about to release slots has ended the call or has seen it
terminating, and no handler loads an active call after that. These three hold until the
call is read back from the storage (`revived = {}` in `HandlingInv`): who reads it back may
have another permit than who works on it. `EndedIsBilled` does not depend on them; it
rests on `BillInv`: of a call that is gone, for the first time or again, either the CDR is written or the handler that will
write it cannot be interrupted any more, its timer's cancellation included.

`MaxLives = 1` is the scope of these three properties: a callRef names one call. A caller
that repeats its INVITE with Call-ID and From tag gets the callRef of a call that fibers
may still be busy with, and TLC finds each of the three violated with `MaxLives = 2`
(see [Plan](#plan)). `Budgets = FALSE` in `EndedIsBilled` is the assumption of its run: a
handler interrupted between removal and CDR writes none. `TypeOK` needs neither.

**CallStore.** `Settled` needs two facts that hold at any time: the body in the
store is what the last executed write of the call says (`StoreFollows`), and for a
call that did not slip the newest write is the last of the outstanding ones, first
the queue and then the wire (`NewestIsLast`). Both are parts of `LineInv`. The
delicate steps are those that change the connection: what is issued again is
executed in the same order, so the last write stays the last. `LoadsNewest` adds
`AnswerInv`: a load that Redis has executed answers with the body that the writes
executed before it left there, and nothing of the same connection changes that afterwards.

`ImplementsOrderedStore` maps every step to a step of `OrderedStore` or a stutter, one
`Promise...` lemma per action. A command is served, in the abstract, when the first
connection executes it (`seen`); executing it again on the next connection changes the
store but not the mapped registers, because everything up to `seen` is executed again
before any reply that reads them. What a register holds after some of the line is the
last write of the call among them (`After`), which is a `CHOOSE` of the last index
and not a recursion: where the argument needs an induction (the last of some
indices) it takes the least element of a well-founded order instead (`WFMin`).

**Supervision.** `SlotsTrue` is inductive given the types. `ImportsFirst` rests on
`MainFirst`: before the scans are over nothing else has begun. `ReadyHeardAll` rests
on `Followed`: from the end of the first reconcile on, a peer listed without a break
since boot has a fiber, so that "every fiber caught up" speaks of it; and no time
passes before that.

**WorkerHealth.** `SilentIsLeft` bounds a time, so its invariant `Found` counts down.
`Remaining` is how many ticks are left until the threshold-th miss, given the stage of the
probe, its sleep and the misses; `Due` says that the ticks a worker has been silent and
those left never exceed `Detection`. The other parts say how old a reply on the way
may be. `DrainIsSeen` needs `Tier1 > Cycle`: then a whole probe cycle falls into the first
tier (`Noticed` names what of it is still to come). With the defaults 3 s exceeds 2.5 s.

**CallLimiter.** `ReleasedExactly` follows from `BooksInv`: as long as no count was lost
track of, each counter is the number of calls counted in its window (`Within`), and
every call has no command out but the one it waits for or a decrement it gave up
waiting for (`Tidy`).

`NeverUndercounts` is an inequality about sums and must hold with faults. Its
invariant `OweInv` counts two things against the counters: the calls that claim a count
at or after a window (`Claims`: they go on and were counted, or the decrement they sent is
still to come), and the calls with a second decrement still to come (`Again`). Every fault
that adds a decrement adds to `twice` in the same step. The windows of a call never go
back (`OrderInv`): so a refresh, which adds in the new window and takes from the old one,
lowers no sum from a window on. `LimitHonoured` follows with `LimitInv`: nothing is counted
in a window that has not come, so the sum a check compares is a sum from some window on
(`TotalIsSum`), it covers the calls that go on (`RecentCovered`), and one more call keeps
within the limit; a call whose check comes to Redis in a later window is in `late`.

`MapThenSumSet` is a recursive function by `CHOOSE`, for which the library's induction
theorems would need an operator as a parameter. The lemmas about sums (`SumPick`,
`SumChange`, `SumRemove`, `SumZeros`) take the smallest of the sets that would violate them
(`Smallest`, from the well-founded order of the naturals) and come to a smaller one.

**Transactions.** `OutlivesInv` bounds a transaction's age by its sender's: it is never
older than the sender's repetitions, whatever timer or purge ends it, so that once it is gone
the sender has stopped; `HandedUpOnce` follows. `AnswerInv` says which transactions a
CANCEL can still answer with 487: the open ones no final response has closed, while of
every other request that was handed up a final response was sent, or its loss is
accounted for (`excused`). `ClientInv` is about the two halves of the inbound fiber: what
it did not find it will not find later, and an eviction that has begun has every
transaction that was there on its list. `TimeoutIsLast` and `EvictedIsSilent` follow.

Checked by TLC only: the liveness properties (fairness and ENABLED are beyond the
prover), and the three properties that the code does not keep.

## Where code and documents disagree

Three configurations show a claim of a document or a comment that the code does
not keep. Each quotes its claim in the comment of its property.

- **`ReplogOwnCalls`** - `docs/replication/call-cache-backup.md:706` has the
  owner's calls survive a crash in the sidecar; the bootstrap at boot imports
  what a lagging backup holds over them, without the gate.
- **`ReplogApplyError`** - `PullerFiber.ts:158-159` has apply errors retried;
  `main.ts` gives the callback with `Effect.orDie`, the fiber dies of the
  defect, and `reconcile` skips the slot as long as the peer stays listed.
- **`CallTimerHangs`** - `TimerService.ts:92-98` says a timer never interrupts
  its own fiber; see `direct` above.

Met while reading and modelling, without a configuration of their own:

- `loadCall` reads the storage past the write-behind queue (`CallState.ts:451`). A
  message or a forked lookup that waited for the permit while the call was removed, its
  slots released and its CDR written, finds the last active body as long as the
  delete is on its way, and the call goes on; `CallState.ts:983-985` has the slots released
  when the call truly ends, `:443-446` a deleted call not found. `ReadBack` is this
  step. With `MaxLives = 1` and two messages TLC reaches
  `call.life \in released /\ call.state = "active"`.
- `CallState.ts:507-511` calls the dropped permit slot benign, a missing call having no
  shared state, and `:439-441` has the events of a callRef serialised. A handler that
  waits on the dropped permit may read the call back, and a newcomer with a new
  permit then works on it at the same time: two handlers with `pc[h] = "run"`, in the
  same instance.
- Delete frames carry no index keys (`ReplicationProtocol.ts:533`), which
  `EchoApply.ts:110-114` has stamped on deletes too. The backup's `idx:*` keys
  outlive the call until their TTL.
- A backup that lost its sidecar seeds its watermark at the head
  (`PeerScanBootstrap.ts:355`); `docs/replication/architecture.md:297` has it pull
  from the origin. The copies it had of other owners' calls are not pulled again.
- `ActionExecutor.ts:2134-2136` says the cancellation of a call's timers does not
  reach the safety timer; line 2137 does, and only a later update of a leg or the
  orphan sweep makes up for it.
- A purge that awaits the limiter (`CallState.ts:989`) and a handler that finalises
  the call meanwhile both decrement; `docs/adr/0004:111` has exactly one.
- A fail-open admission is refreshed like any other entry
  (`FrameworkLimiterRefresh.ts:42`): the key of window 0 is decremented, the current
  window is incremented, and nothing gives that back. `docs/adr/0004:112` has a
  fail-open admission emit no decrement. `CallLimiter` counts this as `leaked`.
- `SipRouter.ts:389-394` and `:941` call a timeout that finds no call unreachable,
  the sign of an eviction that forgot the transactions. It is reached without one:
  the timeout is already queued, fires between the removal from memory and
  `cancelTxnsForCall` (which `CallState.ts:741-744` has the other way round), or is
  of a request stored beside a purge.
- The sweep deletes an INVITE's server transaction 35 s after it came, answered or
  not (`TransactionLayer.ts:475`). A CANCEL after that is answered 200 and handed up
  without a 487, and the rules send none either: `LifecycleRules.ts:70-71` has the INVITE
  completed by the layer. A call that rings that long (through a failover to
  another b-leg) and is cancelled leaves the caller without a final response.
- CANCEL writes back the INVITE's record as it was looked up
  (`TransactionLayer.ts:652-659`): a 200 sent in between is followed by a 487.
- The ACK of a failure deletes the transaction at once (no Timer I): the ACK of a
  repeated failure is handed up, where line 11 of the header has it absorbed. A
  failure is resent only for a repeated INVITE (no Timer G), which
  does not come once a provisional response was heard.
- Timer B is not stopped by a provisional response: after 32 s of ringing the call
  is ended by `handle-timeout`, which sends the caller no final response
  (`ActionExecutor.ts:2122` has the rule do it).
- The boot scan puts an older body over a call already in memory
  (`CallState.ts:902`); `CallModel.ts:521-523` has a monotonic generation.
- The puller's backoff and its time of the first error are never reset
  (`PullerFiber.ts:263`); its header, lines 29-31, and
  `docs/replication/state-machine.md:83` have them reset.
- The bound of `SilentIsLeft` is 6.5 s with the defaults.
  `HealthProbe.ts:117-119`, `DrainingState.ts:51-57` and `docs/adr/0008:80` speak of
  at most 2 s; the drain leaves 3 s and 5 s, so that a silent worker exits
  before the probe calls it dead. In-dialog requests sent to it in between are
  lost, or go on to the backup.
- `docs/replication/state-machine.md:21` has a worker without peers wait for ever;
  the code (and `architecture.md:284`) has it ready at T_min.
- `ReadinessController.drain` is called by nothing. An OPTIONS to a draining
  worker that was never ready is answered 200.
- Emergency INVITEs bypass the critical band and so can land on a draining worker.

## What is not modelled

The components with status `not_modelled` in `PROJECT.json` have their reason
there: I/O (transports, status server, peer cache HTTP, CDR, metrics), data
conversions (parsers, generators, codec), policy (the rule set, the decision
service's answers), third-party and test code. By number of lines the repository is
mostly that: vendored `repos/effect`, generated codecs and clients, and tests. Hazards
that no property covers yet are listed with the reason.

Of modelled components these parts are left out:

- `Replog`: taking a call over and handing it back (the second direction of the
  channel), key encoding, legacy calls.
- `CallHandling`: a callRef used twice, events routed inline, global caps.
- `CallStore`: metrics and the drain at shutdown.
- `Supervision`: the single-node mode (`K8S_NAMESPACE` unset), which is ready at
  once; backoff of the DNS watch.
- `WorkerHealth`: hashing among candidates, AIMD caps and tokens, the guard of fresh
  pods, failover to the backup, remembered CANCEL branches, the registrar.
- `Transactions`: reordering within one direction, requests without a branch,
  several calls, the intervals of retransmission.
- `CallLimiter`: expiry of keys (a TTL of 1200 s against a summed range of
  900 s, which no code relates), several limiter ids per call, clock skew between
  workers, a call taken over by another worker.

## Plan

In this order:

1. `BackupPromise` - what a backup promises (a register per call, updated in
   order, possibly late), with `Replog` shown to implement it by TLC and the
   step simulation proved from `IInv`.
2. A callRef used twice in `CallHandling` (a forked lookup of the former life, the
   POISON that discards a retried INVITE): what still holds of the two calls together.
3. `TakeOver` - both directions of `Replog` for one call, load from `bak`,
   failback through the peer's channel, the gate's two steps against the owner's
   own flush.
4. Front proxy: failover to the backup, CANCEL branches, caps; the overload
   controller's hysteresis; `EpochCounter` packing as an algorithm over bounded
   inputs, with a clock set back.
