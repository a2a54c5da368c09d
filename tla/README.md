# Formal models of the Mento monitoring monorepo

TLA+ models of the parts of this repository that keep state while other things
happen at the same time: the alert handlers that must tell people about an
on-chain event once and not lose it, the indexer handlers whose entities the
dashboard and the alerts are computed from, the two monitors of the metrics
bridge that remember something between polls, and the mutex and commands that
move an issue on the project board. TLC checks each model on a small instance;
TLAPS proves the safety properties and the refinements for every value of the
constants.

Paths below are relative to the repository root; `PROJECT.json` writes them with
`src/` in front and gives the exact lines of every definition under `map`.

Check a model with `tlc -config MCX.cfg MCX`, a proof with `tlapm X_proofs.tla`;
which module is checked by which run is in section 4.

---

## 1. Inventory

### How the parts interact

```
 chain ── QuickNode ──► onchain-event-handler (Cloud Function) ──► Slack
                          │  nonce, candidates, records, cursor, dead letters
                          ▼
                        Cloud Storage ◄── retry function (Cloud Scheduler)
                          ▲
                          └── redrive script (operators)

 chain ── QuickNode ──► governance-watchdog (Cloud Function) ──► Discord, Telegram
                          └─ nonces in Cloud Storage, a cache per instance

 chain ── HyperSync/RPC ──► indexer (Envio) ──► Postgres/GraphQL ──► dashboard
                                                      │
                                                      └──► metrics-bridge ──► Prometheus ──► Grafana alerts
                                 venues, structural lane ──► peg monitor ─┘

 Splunk On-Call ──► oncall-announcer (Cloud Function, Mondays 10:05 and 10:20) ──► Slack usergroup, channel
                          └─ one state object in Cloud Storage

 agents, operators ──► issue-board helper (command line) ──► GitHub labels, project fields
                          └─ a Git ref per issue as its mutex
```

Nothing calls across those five columns. Within the first one all coordination
goes through conditional writes (`ifGenerationMatch`) on Cloud Storage objects.
Within the third, the indexer is sequential (one handler at a time, in block and
log order; it may be stopped anywhere and resumes from its last batch) and
everybody else reads what it stored; the metrics bridge keeps what it needs
between two polls in memory only. The announcer runs one request at a time. The
issue-board helper is run by several agents at once and coordinates through
compare-and-swap on the ref.

### Components

| Component | State | Operations | What is hard | What makes it correct |
|---|---|---|---|---|
| Watched-LP delivery records (`alerts/infra/onchain-event-handler/src/pool-liquidity-withdrawal.ts`) | one record per candidate: generation, state, lease | read, claim, take over, ignore, post, commit | two workers, leases that expire, timed-out writes that still land, posts whose answer is lost | delivered only when posted, ignored never posted, terminal records final |
| Watched-LP retry scan (`pool-liquidity-scan.ts`, `pool-liquidity-retry.ts`) | saved cursor, candidate objects | read cursor, list page, handle key, save, wrap | overlapping runs, a deadline in the middle of a page, keys that always fail | nothing skipped, nothing starved |
| Watched-LP burn proof (`pool-liquidity-proof.ts`) | none | decode a receipt | ambiguity of an RPC answer | its verdict is honest |
| On-chain alert webhook (`index.ts`, `quicknode-replay-protection.ts`) | nonce object | reserve, stage, process, answer | background staging, overlapping retries, crash after the nonce | a 200 loses no burn; Safe events processed once at most |
| Safe alert batch (`process-events.ts`, `dead-letter.ts`) | transactions announced, counts, abort timer | send, suppress, fall back, cut off, dead-letter | a budget that ends anywhere, a failure in the middle | no silent suppression, no lost rendered message |
| Webhook validation (`validate-quicknode-webhook.ts` ...) | none | verify, parse | none | pure |
| Dead-letter redrive (`scripts/redrive-onchain-deadletter.mjs`) | dead letters, archive | list, look, post, copy, delete | failure between two calls, two operators | nothing lost, nothing archived unposted |
| Governance watchdog (`governance-watchdog/src`) | nonces, cache per instance | reserve, deduplicate, send twice | retries on another instance, cache trimming, one channel failing | once per window, one sender per nonce, both channels tried |
| Indexer: deviation breaches (`indexer-envio/src/deviationBreach.ts`, `pool.ts`, `pool/health.ts`, handlers) | anchor, mirrors and totals on the pool, rows | nine event handlers | several events of one transaction, prices that are stale, frozen or read elsewhere | anchor, rows and totals agree |
| Indexer: oracle feed state (`oracleFeedState.ts`, `oracleExpiryState.ts`, `handlers/sortedOracles.ts`) | reports per reporter, expiry, a watermark per row | report, remove, median, set expiry, first reading from the chain | rows that begin in the middle of a block, blocks delivered again after a restart | the rows are the contract's lists; each median is blended once; no log stops the indexer |
| Indexer: health score (`healthScore.ts`) | accumulators | accumulate a segment | boundaries of trading time | intervals neither lost nor counted twice |
| Indexer: Wormhole pairing (`handlers/wormhole/`, `wormhole/pairing.ts`) | transfers, attestations, scratch rows of both sides, daily rollups | six handlers, three on each side | two chains in any order, several transfers in a transaction, logs missing or read again | a transfer is counted once, and takes nobody else's data |
| Indexer: Liquity, stables, volumes | ledgers, snapshots | add up | arithmetic | sums |
| Indexer: RPC access (`rpc/`) | none | read with retries and fallbacks | partial answers | honest failure |
| Metrics bridge: deviation alert (`deviation-alert-state.ts`) | per-pool alert state and last transition, in memory | classify a row, seed, escalate, report a transition, prune | polls of a moving row, restarts in the middle of a breach, weekends | a restarted bridge reports what one that never stopped reports |
| Metrics bridge: rebalance probe | a guard | probe cycle | overlap | at most one cycle |
| Metrics bridge: peg monitoring (`peg/`) | per policy version and source: last book, its identities, blind and absence counts | poll under each policy, publish, commit | repeated and reordered books, failures before and after publication, policy rollover | a book counts once, what is shown is fresh, the blind count counts decisions |
| On-call announcer (`oncall-announcer/src/rotation.ts`) | last announced rotation | read, update group, announce, write | crash between announce and write, overrides, edited state | a recorded handover was announced, and once |
| Issue-board mutex (`scripts/pr/issue-board-lock.mjs`) | a Git ref per issue | read, prepare a commit, compare and swap, release, retain, recover | ambiguous compare-and-swap answers, crashes | one holder |
| Issue board (`issue-board-transactions.mjs`, `-release.mjs`, `-commands.mjs`, `-ownership.mjs`) | queue labels and ownership fields of an issue | claim, release, review, the repair of each | every write a call of its own that may fail after it took effect; people move labels | seen from outside the mutex, whole moves only; nobody's ownership overwritten |
| Aegis, integration probes, dashboard, infrastructure | gauges, one snapshot, none, none | read and publish | none that lasts | independent reads |

The hazards, each at the line where it bites, with the properties that would
notice it, are the list `hazards` in `PROJECT.json`.

---

## 2. Plan

Order: first what loses or doubles an alert for good, then what makes the numbers
wrong that alerts are computed from, then tooling.

1. `WithdrawalPromise`, `PoolDelivery`: the promise of the alert and the record
   protocol that implements it. Done, proved.
2. `PoolRetryScan`: how candidates reach that protocol. Done, safety proved.
3. `QuicknodeWebhook`: how candidates come to exist. Done, proved.
4. `SafeBatch`, `DeadLetterRedrive`: the other alert of the same function, and
   its second chance. Done, proved.
5. `GovernanceWebhook`. Done, proved.
6. `DeviationBreach`. Done, proved.
7. `WormholePairing`, `OracleFeed`: the rest of the indexer whose state depends on
   the order of events. Done, proved.
8. `PegPoller`, `DeviationAlert`: what the metrics bridge remembers. Done, proved.
9. `IssueMutex`, `IssuePromise`, `IssueBoard`: the mutex, what the commands under
   it promise, and the commands. Done, proved, the refinement included.
10. `OncallRotation`. Done, proved.
11. Planned proofs: no safety property of a run is left. The pairing for transactions
    of more than two transfers, which the model does not have yet; liveness is out of
    the prover's reach.
12. Planned models: the health-score accumulators, whose intervals are bounded by
    the same trading clock as a breach; pools that leave a feed; the sync and
    backfill commands of the issue board.

Abstract specifications: the promise of the watched-LP alert (`WithdrawalPromise`),
the board as it looks whenever its mutex is free (`IssuePromise`).

### How the modules compose

`PoolDelivery` is the life of one candidate and `WithdrawalPromise` what it
promises (`INSTANCE WithdrawalPromise WITH ...`, property `KeepsPromise`).
`PoolRetryScan` leaves what happens to a candidate to `PoolDelivery`, and keeps
of it only that a candidate was handed over and that it may settle or stay.
`QuicknodeWebhook` ends where an object is staged, which is where the scan's
`Stage` begins. Processing the Safe events is one step there and all of
`SafeBatch` here. A dead letter `SafeBatch` keeps is a `Write` of
`DeadLetterRedrive`. The interfaces are sets of objects in Cloud Storage, so each
module treats the other side as an environment that may do anything the object
protocol allows; no module relies on another's timing.

`IssueBoard` EXTENDS `IssueMutex`: every step of a command is a step of the mutex
or leaves it alone (theorem `BoardFollowsMutex`), and seen while the mutex is free
the board implements `IssuePromise` (`INSTANCE IssuePromise WITH ...`).

`OracleFeed` decides whether a median is fresh, which `DeviationBreach` takes as its
`median`; what `DeviationBreach` and the peg monitor publish is polled by Prometheus
and needs no model. `DeviationAlert` reads the rows `DeviationBreach` writes, but by
two queries of its own that need not agree with one another, so it takes them as
inputs.

`X_proofs` modules hold the proofs about `X` (those about `IssueMutex` are in
`IssueBoard_proofs`), `MCX` modules what TLC needs besides: sets of constants,
symmetry. Three of them instantiate several modules that share no variable:
`MCIndexer` (breaches, pairing, feed), `MCWatchdogs` (governance webhook, peg
monitor, alert state, announcer) and `MCQuicknodeWebhook` (webhook, batch). A
behaviour there follows one part, named by `part`, and leaves the others in one of
their initial states; the state space is the sum of the parts' and each property
is about its own part.

---

## 3. The modules and the code

Names follow the code where TLA+ allows it. A definition whose name ends in
`_Something` beside one without it is a variant: the same definition with one
plausible mistake. It is used only to show that a property can tell the
difference (section 5) and is in no next-state relation.

### PoolDelivery (`pool-liquidity-withdrawal.ts`, the posting part of `slack.ts`)

One candidate. `obj` is its record in Cloud Storage with the generation the
store gives it; `gen = 0` means that it does not exist. A worker is one run of the
retry function; `pc[w]` is the `await` it stands at, `job[w]` the function that
await belongs to.

| Code | Action |
|---|---|
| `readRecord`: metadata, then content with `ifGenerationMatch` | `Begin`, `ReadMeta`, `ReadContent` |
| `onKey` on an existing record | `DecideCheck` |
| `provePoolLiquidityWithdrawal` | `Prove` (verdict nondeterministic) |
| `deliverPoolLiquidityWithdrawal`: build, create, lose, look, take over | `BuildRecord`, `ServePut`, `LostFirstPut`, `DecideDeliver` |
| `ignorePoolCandidate` | the same with `job = "ignore"`, `DecideIgnore` |
| `sendToSlack` under its signal | `StartSend`, `SlackAccept` |
| commit of `delivered` | `StartCommit`, `ServePut`, `EndPut` |
| timeout, network error, killed instance | `Abandon` |
| an abandoned write or post that still arrives | `ServeOrphan`, `SlackAcceptLate` |

Time: `Date.now()` is `now`. A call cannot outlive its timeout (`Tick` waits for
`due`), computation between awaits takes none. The receipt proof goes through an
RPC client, whose time is not bounded here. Every answer of a receipt is allowed
every time: RPC nodes are not assumed to agree.

### PoolRetryScan (`pool-liquidity-scan.ts`, `pool-liquidity-retry.ts`)

Candidate names are the numbers `1..Keys` in lexicographic order. The cursor's
generation is kept as "is what the run read still current" (`current`), all that
the precondition of a write depends on. `Fail` is a failing call or a dying
instance at any place, with its cursor write applied or not. The deadline may
pass at any `onKey`, and at a save unless the run has only listed one page
(`OnlyListed`): 145 s are not used up by a few calls of 10 s.
`opened` and `tried` are history variables of the current pass over the list; no
action reads them.

### QuicknodeWebhook (`index.ts`, `quicknode-replay-protection.ts`, `build-event-context.ts`)

One webhook and every attempt to deliver it. Staging is a second activity
beside the handler (`StageBurn`, `StageEnd`); the handler awaits it only at
`Finish`. Signature and payload decide before any state changes: `Refuse`.

### SafeBatch (`process-events.ts`, `dead-letter.ts`, `utils.ts`)

One batch in the order `buildEventContext` gives it (`Prioritised`), one log after
the other. `expired` is what the loop's clock says, `aborted` whether the timer's
callback has run; they differ because the callback needs a turn of the event
loop. `fate` says what became of each log.

### DeadLetterRedrive (`scripts/redrive-onchain-deadletter.mjs`)

Every call of the script is an action and may fail before or after it took
effect. `posted` counts posts up to `MaxPosts`; `known` is a history variable: the
runs that took the letter at hand when its archived copy existed.

### GovernanceWebhook (`governance-watchdog/src`)

Ages replace times: the cache keeps for each event how long ago it was
registered, up to one past the window, since nothing distinguishes older
entries. `Register` is look-up and registration in one step, because there is no
`await` between them. `handled` is the same history without the trimming.

### DeviationBreach (`deviationBreach.ts`, `pool.ts`, `pool/health.ts`, `handlers/fpmm*`, `handlers/sortedOracles.ts`)

One FPMM pool. Actions are handlers; `Record` is `recordBreachTransition`, its six
disjuncts are the six cases of that function, `NextAnchor` is
`nextDeviationBreachStartedAt`, `Upsert` the part of `upsertPool` that decides
whether a price reaches the pipeline. What is taken as given:

- `UpdateReserves` is followed in the same transaction by the event that explains
  it (`owed`), and while an anchor is held for that event the reserves do not
  change again; `ConfirmReserves` is the repeated event. This is the order the
  contract emits.
- `median` is the freshness the handlers compute: `fresh`, `stale`, or `none` when
  no `MedianUpdated` with a price has been indexed. Which reports lead to it is the
  subject of `OracleFeed`.
- the decimals of both tokens are known, and the pool is no VirtualPool;
- causes are "unknown" or named, since the code compares them with nothing else;
  rows are numbered; transaction hashes, `rebalanceCountDuring` and
  `entryPriceDifference` are left out;
- `cold` is a history variable: some handler was answered by the contract while
  the entity had no usable median. Properties that need it to be false say so;
  finding 4 is what happens when it is true.

### OracleFeed (`oracleFeedState.ts`, `oracleExpiryState.ts`, `handlers/sortedOracles.ts`)

One rate feed, its two rows and the pools that refer to it. `logs` is the block
being read and `opening` what the contract held before it; `After` is the contract
inside the block, which the rows must come to equal. `rows` is what the handlers
see, `disk` what a restart finds: the database is written at a cut of a batch, the
progress only at the end of a block.

| Code | Definition |
|---|---|
| `handlers/sortedOracles.ts`, one per event | `FeedReported`, `FeedReportRemoved`, `FeedMedianUpdated`, `TokenReportExpirySet`, `ReportExpirySet` |
| other handlers that give a pool this feed, or write one | `PoolWritten` |
| first reading by RPC, `oracleFeedBootstrapInputs` | `FeedBase`, `ExpiryBase`, `BootstrapThrough` |
| the watermark: `isEventAlreadyApplied`, `eventPosition` | `Ignored`, `Behind`, `On`, `through`, `mark` |
| `claimMedianUpdate` | `Claim` |
| the exceptions of the transitions, and of a median without its feed's row | `Throws`, with `ReportThrows` and `ExpiryThrows`: the handler is not enabled |
| Envio's batches | `Cut`, `Restart` |

A report's time is its block number. Values and medians are left out: only which
reports are live and which medians are blended. Of the pools' own copies only the
block of their last change is kept, because the first reading depends on it. The
feed has a breaker that averages medians. A reading that fails fails its batch,
which is `Restart`.

### WormholePairing (`handlers/wormhole/nttManager.ts`, `wormholeTransceiver.ts`, `wormhole/pairing.ts`, `wormhole/status.ts`)

`log[s]` is what happened on a side and `at[s]` how far it has been read, so the two
chains advance independently. A handler is an operator named after its event, and
`Apply` hands it the next log. `Miss` skips one, `Replay` leads a side back to the
beginning of a transaction, over the rows as they are. `sending` and `arriving` are
the scratch rows that events of one transaction leave for each other, `Scratched` is
`findPendingScratch` with its walk back. `rolled` is `BridgeDailySnapshot` and the
counts of `BridgeBridger`. A transfer is on one transaction per side, except that
the redemption of a queued one comes later; the two transfers happen in the same
order on both sides; addresses and amounts are represented by the transfer
they belong to.

### PegPoller (`metrics-bridge/src/peg/`)

One asset and its deep source. A cycle (`RunCycle`) takes the bundle of policies
from the structural lane, builds each policy's snapshot on a copy of the source's
state (`Build`), and publishes (`Publish`); a failure at either place commits
nothing (`BuildFails`, `PublishFails`). `PollSource` is `pollSource`: the set of
results over everything the venue may answer, and each of its paths is a definition
(`DuePoll`, `ListingOnly`, `Cached`, `Refreshed`, `Halt`, `Accepted`, `Unsized`).
Left out or fixed:

- both policies of a rollover have the same settings; `fetchListing` is always there;
- a book's price is reduced to priced, thin or halted; a cause of failure to
  failed or not; regressions of `checkedAt` and exceptions inside `pollSource` are
  left out;
- a partial cycle has at most one completed policy; a bundle that brings back a
  retired version is refused (`MayFollow`), and a rollback to an older one starts
  with a fresh state;
- nothing is persisted, so a restart is an initial state;
- `shown` (what was last published for a version), `successes`, `counted` and
  `waiting` are what Prometheus has seen; `counted` and `waiting` are history.

### DeviationAlert (`metrics-bridge/src/deviation-alert-state.ts`)

One pool. `AlertSnapshot` is `buildCurrentSnapshot`: `Classified`, `EnteredAt` with
`InitialEnteredAt`, `SignalEnteredAt`, `CriticalCanFire`; `Transition` is
`buildTransition`, `Reason` and `ShouldRecord` included. Two bridges poll the same
rows: `steady` never stops, `forgetful` may lose its memory at any time (`Forget`, a
restart or a poll without the pool). The difference between the two is what a
restart costs. `Rows` are the rows a poll may get: the breach start as the indexer
has it, none, or a new one within `IndexLag`; ratio and peak come from two
queries and are independent. Polls may fail, but not for a whole weekend. `excused`
remembers what no row could have told the restarted bridge: since when the ratio has
been absent, or high without a breach; that the breach replaced another one between
two polls; since when the other bridge has been warning, once it has de-escalated on
its own. `Week` is the trading week, named by the reopening it began with; `episode`
is a history variable that counts how often the bridges that were restarted told the
escalation of one breach in one week. A breach start that is no number, clock skew, labels and durations are left
out.

### OncallRotation (`oncall-announcer/src/rotation.ts`)

`handleRotation` call by call: `FetchCurrent`, `ReadState`, `UpdateGroup`, `Post`,
`WriteState`; `Fail` ends the invocation at any of them with the call carried out or
not. The function runs one request at a time on at most one instance
(`oncall-announcer/main.tf`), so there is one invocation. Outside it:
`Change` (an override), `Tamper` (the state object deleted or edited), `NextMonday`.
`accepted` are the message ids Slack recognises; it forgets them before the next
week. The look-ups of email and account can only fail. Two history variables:
`told`, how often the channel got each handover this morning since the recorded
engineer last changed, and `earlier`, which handovers it had got this morning until then.

### IssueMutex, IssuePromise, IssueBoard (`scripts/pr/issue-board-*.mjs`)

`IssueMutex` is `withIssueMutationLock`: `Prepare`, `ReadRef`, the compare-and-swap
as a request (`flight`) that the server carries out or refuses (`Serve`) at any time,
also after its command has stopped; the command learns the answer (`Acquired`,
`Lost`) or not (`Unknown`). `Leave` asks for the release, `Retain` keeps the lock,
`Crash` stops a command anywhere, `Recover` is the operator's move of the ref. What a
command does inside is left to `IssueBoard`: places in `job[c].at`, one call of
GitHub each. Reads and their demands are `ClaimIssue`, `Release`, `Review`; the
catch blocks `CompletePartial`, `ParkPartial`, `RestoreRelease`, `LookReview`;
`Throws` says where an error leads; `Write` makes the label and field writes,
`Fails` lets one fail with all, half or nothing of it done. `IssuePromise` is what
is seen of the issue while the ref says UNLOCK (`kept`).

- A token stands for Claim ID, Branch and the branch's PR; Agent and Claimed At go
  with Branch.
- A board write does not land after its error was reported; a ref update may.
- People move labels, the issue and pull requests, and leave the fields alone.
- An operator either leaves an untouched board or clears it to grooming.
- The ref has been initialised; no sync, backfill, groom, `--rebind-branch`, sweep
  or dry run.

---

## 4. Runs

Every run finishes its state space. "Deadlock off" where the system may really be
done: no worker has to start, no webhook has to come.

| Run | Module | Instance | What it shows | States |
|---|---|---|---|---|
| `pool_delivery` | `MCPoolDelivery` | 2 workers, `Lease` 5, `CallTimeout` 1, `SendTimeout` 2, clock to 7, 1 orphan | the record protocol and its promise | 2,334,966 |
| `pool_send_lease` | `MCPoolDelivery` | 1 worker, the code's constants in units of 5 s | violation, finding 1 | |
| `pool_scan` | `MCPoolRetryScan` | 2 runs, 3 names (one malformed), pages of 2, 2 pages | passes are whole; every candidate settles | 270,200 |
| `webhook` | `MCQuicknodeWebhook` | 3 attempts, 2 burns; every batch of 3 logs over 2 transactions | a 200 loses nothing; suppression, dead letters, counts, headroom | 854,754 |
| `safe_batch_two` | `MCSafeBatch` | the same batches | violation, finding 2 | |
| `redrive` | `MCDeadLetterRedrive` | 2 runs, 2 letters | no loss, no blind archive, everything cleared | 16,563 |
| `watchdogs` | `MCWatchdogs` | see below | governance: deduplication, nonces, both channels; peg: counts and freshness; alert: restarts; announcer: one handover, one message | 970,668 |
| `governance_malformed` | `MCGovernanceWebhook` | 2 deliveries of a nonce | violation, finding 3 | |
| `indexer` | `MCIndexer` | see below | breaches: anchor, rows, totals, copies, causes; pairing: counts and data of a transfer; feed: rows, medians, no halt | 678,600 |
| `breach_orphan` | `MCDeviationBreach` | the breaches of `indexer` | violation, finding 4 | |
| `breach_copies` | `MCDeviationBreach` | the breaches of `indexer` | violation, finding 5 | |
| `issue_board` | `MCIssueBoard` | 3 commands, 2 tokens, budget 3 | exclusion, whole moves, ownership, causes of a stale lock | 561,216 |

The longest run takes about three minutes with two workers.

Why the bounds are enough:

- *Delivery.* A lost claim needs an expired lease and a second worker: the clock
  goes past one lease and two units more, so the second claimant can post
  and commit while the first one's write or post is still under way. One orphan
  is the write that lands late; a second one would only be refused.
- *Scan.* Three names in pages of two give a full page and a short one, a token that
  names a malformed key, a candidate staged before, inside and after the page, and a
  wrap while the other run is in the middle. The page limit of two is never the reason
  to stop: a run that stops there leaves what one that stops at its deadline leaves,
  and deadlines fall anywhere. A page of one would list the cursor's own key for ever;
  the code uses 1000, and `ScanAssumption` says "not 1". Safety alone holds of four
  names as well (2,018,678 states).
- *Webhook.* Two burns are what a failure between two needs; three attempts are a
  winner, a replay, and one that comes after both.
- *Batch.* Three logs are two Safe events and a fallback, or a Safe event, its
  fallback and a log behind it; every kind, hash and address is tried at every
  place. What is left of a batch is counted the same way however long it is.
- *Governance.* 2 deliveries of a nonce and 1 by token, 2 instances, window
  1, cache 1, a batch with an event that fails its assertion between two good ones and
  one that is not the governor's behind them: a cache of one is over its limit with the second event, and
  window 1 has an age inside, at and past it.
- *Peg.* Five cycles with a venue polled every second one, three identities of which
  two are remembered, lags behind, at and past staleness and ahead within the skew:
  a book can be accepted, repeated, reordered, cleared by a failure, and offered
  again. The reference size changes at the beginning and back at any time (`Sized`). A replica that serves both versions polls twice per cycle and gets a calmer
  venue for three cycles (`Calm` in `MCWatchdogs`), which is a whole rollover.
- *Alert.* Seven minutes with a weekend of one, late enough to follow an escalation,
  are a breach that begins before, inside and after the weekend, warns, escalates, is
  still there when trading begins again, and ends, with a restart at any time. A
  warning is pending for one minute and a breach critical after two, the order they
  have in the code. Two weekends in eight minutes and a threshold of one hold as well.
- *Announcer.* Three engineers are a handover, an override and a way back; with two
  overrides beside the weekly handover the first handover can come back on the same
  morning. Three overrides hold as well.
- *Breach.* 100 bps is a breach of 98 (with the 1 % tolerance) and none of 105;
  110 is a breach of both and critical for 98 only. Blocks 1 and 4 put a breach
  across the weekend second and past the grace. Two rows are needed for a row that
  outlives its breach beside the next one.
- *Pairing.* Two transfers in one transaction of one manager or of two, together or
  interleaved, is where a scratch row can be taken by the wrong one; one log missing
  and one repeated pass are enough for every pair of handlers to meet in either
  order. A manifest that lacks one manager on one side is among the initial states.
- *Feed.* Two pools, two reporters, two expiry times, one block of one log and one of
  three: the first block makes the row, or leaves it to be made in the middle of the
  second, and a median behind its report has something before and after it. Blocks of
  two and three logs from any opening hold as well (8,336,232 states), so do two
  blocks of three and two, three of two, one and two, and one of four.
- *Board.* A budget of three is three commands and no trouble, or one command and two
  troubles, or any mix: a failing write, its failing repair, a person or a crash in
  between. The second token is the other agent.

Symmetry is used for interchangeable workers, runs, attempts, transactions,
commands, tokens and publication identities, in runs that check no liveness.

### Fairness

- `pool_scan`, `FairSpec`: Cloud Scheduler keeps invoking the function, and a run goes
  on while it lives (weak fairness of its next step). Whatever calls failed and
  instances died before, at some time the scan's own calls succeed; a candidate may
  fail after that, but not for ever (strong fairness of settling it). Deadlines may
  cut off every run, new candidates may come at any time, and nothing is assumed about
  which of the overlapping runs gets how far or whose cursor write is refused.
- `redrive`, `FairSpec`: a run that started goes on (weak fairness of its next
  step), operators rerun the script, and at some time failures stop. A letter that
  fails for ever on its own stays where it is, as it should.
- No other run assumes fairness; all other properties are safety properties.

---

## 5. Properties

The definitions carry their statement as a comment. The ones a reader should know:

- **One announcement or one ignore** (`KeepsPromise`, with `DeliveredWasPosted`,
  `IgnoredNeverPosted`, `TerminalIsFinal`): a candidate's record is `delivered`
  only after Slack accepted the post of the claim that the record replaces, and an
  ignored candidate was never posted, although workers may get contradictory
  receipts. Posting twice is allowed, as in the code.
- **Leases** (`LostClaimHadExpired`, `SendStartsUnderLease`): two workers post at
  the same time only when the first has outlived its lease, and a post starts
  under its lease whatever four storage calls take.
- **No candidate lost to the cursor** (`CursorPassesOnlyTried`, `WholePass`,
  `EveryCandidateSettles`).
- **200 means done** (`AcceptedMeansStaged`, `OkMeansTried`): the answer that stops
  the sender's retries is given only when the work it stands for is durable, or
  was tried.
- **Nonces** (`ProcessedAtMostOnce`, `OneSenderPerNonce`), and the cache that
  supplements them (`OncePerWindow`).
- **Batch under a budget** (`SuppressedWasAnnounced`, `RenderedIsKept`,
  `HeadroomServesFallback`, `CountsAddUp`).
- **Dead letters** (`NothingLost`, `DoneWasPosted`, `ArchivedNotReposted`,
  `EveryLetterCleared`).
- **Breaches** (`OpenRowIsAnchor`, `TotalsMatchRows`, `PeakCoversPrice`,
  `MirrorKept`, `CauseIsKnown`, `EndIsAttributed`).
- **Transfers** (`CountedOnce`, `RowIsOutcome`, `OwnData`, `ScratchDrained`): what the
  rows and rollups say depends on the set of logs read, not on their order or on how
  often they were read, and no transfer takes another one's data.
- **Feed** (`FeedFollowsChain`, `MedianBlendedOnce`, `NeverHalts`): wherever the row
  began and wherever the process stopped, the rows end a block equal to the contract,
  a median enters the average once, and no exception stops the indexer.
- **Peg** (`OneSuccessPerIdentity`, `ShownIsHonest`, `GoneStaysGone`,
  `BlindCountsSlots`).
- **Alert state** (`RecoveryKeepsContext`, `EscalatedOnce`): a bridge that was
  restarted tells the end of every alert that one which was not tells, and the
  escalation of a breach once in a week of trading.
- **Handover** (`HandoverShownOnce`): a recorded handover has been shown, and once; one
  that comes back on the same morning is not shown again.
- **Board** (`InsideHoldsLock`, `KeepsIssuePromise`, `OwnershipIsOwners`,
  `StaleHasCause`): one command at a time; whatever failed, an unlocked issue has made
  a whole move or none; no command writes over another agent; a lock that waits for an
  operator has a cause outside the program.

`DeliveredWasPosted`, `IgnoredNeverPosted`, `TerminalIsFinal`,
`SendStartsUnderLease`, `CursorPassesOnlyTried`, `ArchivedNotReposted` and the type
invariants of the modules with proofs are proved for every value of the constants
and not checked by a run besides; all others are properties of a run.

`PROJECT.json` lists under `mutants` one variant per property of a run: a dropped
precondition, an off-by-one, a missing reset, a swapped case. With the variant in
place of the definition TLC reports the property violated in the same run.

### Findings

1. **A post may outlive its lease** (`pool_send_lease`). The lease of 60 s is
   computed before up to four storage calls of 10 s each; the post then has its
   own 45 s. The comment at `pool-liquidity-withdrawal.ts:292` wants them "below
   the GCS lease". A second worker may then post as well; the record stays correct.
2. **Two Safe transactions and a spent budget** (`safe_batch_two`). All Safe events
   sort first, and after a failure the code looks for the fallback only in the
   next log. A transaction whose Safe alert failed can end without any alert,
   against the comment at `process-events.ts:106`.
3. **A malformed body takes the nonce** (`governance_malformed`), against the
   comment at `governance-watchdog/src/index.ts:146`.
4. **A row that is never closed** (`breach_orphan`). While the entity has no usable
   median the price comes from the contract at `UpdateReserves` and from nowhere at
   the event that follows, so a held anchor is not closed; the next breach starts a
   new anchor, and the row of the first one stays open.
5. **A copy that is not the row's** (`breach_copies`). `OracleReported` moves anchor and
   row but not the pool's copies of the row's peak and entry threshold
   (`sortedOracles.ts:259`), which the schema describes as those of the open breach, 0
   when there is none, and on which the metrics bridge scores the critical signal. A
   breach that it begins has the peak 0 on the pool until another event and the entry
   threshold 0 to its end; one that it ends leaves its peak to the next. It takes a
   reading that failed before. No other handler separates the copies from the row
   (`MirrorKept`, proved).

Observed besides, and stated around by the properties:

- A send whose details were missing when its digest was first read is never counted
  as sent, also when a later pass finds them: the count is taken only at
  `firstTimeSent` (`nttManager.ts:307`). The same holds for a manager missing from the
  manifest, whose rollups the comment at `nttManager.ts:295` speaks of. `CountedOnce`
  says "if its first digest event had its details".
- A repeated `MessageAttestedTo` returns before it drains its scratch row, which stays
  behind and may be taken by a later attestation of the same transceiver in that
  transaction if a log is missing as well (`OwnData`, `ScratchDrained`).
- After a restart with an old breach one critical reading makes the bridge critical at
  once, because its signal is seeded from the start of the breach. When that reading
  goes, the bridge de-escalates and its warning begins anew, so a recovery within the
  next 900 s is not reported, although seeding is there to prevent that
  (`deviation-alert-state.ts:309-317`). And if polls fail for 15 minutes, the
  escalation of an absent ratio can be reported again after a restart.
- A bridge that is down over a whole weekend tells the escalation of a breach from
  before it a second time when trading begins again, as a bridge that was up does,
  since both start anew at the reopening. `EscalatedOnce` therefore says "in a week of
  trading". The invariant that the proof needs brought this out.
- Two overrides in one morning that lead a → b → a → b produce the same message id for
  the first and the third handover, and Slack swallows the third: `HandoverShownOnce`
  says so with `earlier`. An announced handover whose write failed and which an
  override then undoes is never taken back in the channel.
- With two logs of a chain missing, the details of one send and the digest of the next
  one's, a digest may take the other send's details, and the send is counted with that
  one's amount. `CountedOnce` and `OwnData` say "at most one log missing"; this too was
  found while looking for the invariant.
- A median that arrives while no pool refers to the feed has no row to be claimed in
  and is blended again after a restart, as ADR 0105 says.
- A pool that leaves its feed (`self-heal.ts:258`) may leave a row behind that is no
  longer maintained; if one joins again, a removal would find its reporter missing.

---

## 6. Proofs

TLAPS checks every theorem for any number of workers, runs, attempts, instances,
letters, burns, logs of a batch or of a block, names, events, pools, reporters, commands,
policies and engineers, and any prices, thresholds, times, weekends and limits; the
transfers of the pairing are two. Every
safety property that a passing run checks, invariant or action property, and both
refinements are theorems.

| Module | Theorems | Assumptions on the constants |
|---|---|---|
| `PoolDelivery_proofs` | `TypeCorrect`, `Posted`, `IgnoredSilent`, `LostLease`, `Final`, `SendInTime`, `Refines` | times are naturals; `4 * CallTimeout < Lease` |
| `PoolRetryScan_proofs` | `ScanTypes`, `NothingPassedUnseen`, `PassesAreWhole` | page size at least 2, page limit at least 1 |
| `QuicknodeWebhook_proofs` (webhook) | `WebhookTypes`, `NoBurnLost`, `SafeOnce` | number of burns is a natural |
| `QuicknodeWebhook_proofs` (batch) | `BatchInvariant`, `SuppressedIsAnnounced`, `CountsAre`, `HeadroomServes`, `RenderedKept` | the missing hash is no hash; bound of the length is a natural |
| `DeadLetterRedrive_proofs` | `RedriveTypes`, `NoRepost`, `LettersSafe`, `ArchiveMeansPosted` | bound of the count is positive |
| `GovernanceWebhook_proofs` (governance) | `GovernanceTypes`, `DedupHolds`, `NonceHolds`, `OkIsTried` | window at least 1 |
| `DeviationBreach_proofs` (breaches) | `BreachTypes`, `AnchorAndRowAgree`, `TotalsAreRows`, `PeakCovers`, `CauseKnown`, `EndAttributed`, `MirrorsKept` | prices and thresholds are naturals, times positive |
| `DeviationBreach_proofs` (pairing) | `PairingInvariant`, `OutcomeOnly`, `RollupsExact`, `DataIsOwn`, `NothingLeft` | the null value is no transfer, manager or token; the walk back and the bounds are naturals |
| `DeviationBreach_proofs` (feed) | `FeedKnows`, `FeedFollows`, `MedianBlended`, `FeedNeverHalts` | expiries are positive, the bounds naturals; the value for "no row" is no row |
| `IssueBoard_proofs` | `MutexTypes`, `MutexExcludes`, `BoardFollowsMutex`, `BoardExcludes`, `BoardInvariant`, `OwnersKeepTheirs`, `BoardStaysWhole`, `StaleHasACause`, `BoardImplementsPromise` | the null value is no command, no token and no label |
| `PegPoller_proofs` (peg) | `PegCountsOnce`, `PegShowsHonestly`, `PegCountsBlindSlots`, `PegGoneStaysGone` | intervals and limits are positive, the null value is no version, book or number |
| `PegPoller_proofs` (alert) | `AlertKnows`, `EscalatesOnce`, `RecoveryKept` | times are naturals; the values for "nothing yet" are no snapshot and no transition |
| `GovernanceWebhook_proofs` (announcer) | `RotationKnows`, `HandoverTold` | the value for "no one" is no engineer |

The arguments:

- **PoolDelivery.** None of the checked properties is inductive. `ClaimInv` adds who
  owns a claim: from the moment the store grants it the record is that claim or
  was replaced after its lease. `OrphanInv` adds what an abandoned write can still
  do; this is where the generation precondition carries the proof, since an orphan
  is either refused for ever or replaces exactly the record it was meant to.
  `ReadInv` says that a record which was read is still the one in the store as long
  as the generation is. `LeaseInv` adds up the time of the calls after the lease
  was computed; `MarginAssumption` enters only there. `Refines` maps the record to
  the promise: a granted write is a step of it or stutters.
- **PoolRetryScan.** `PassInv` says of a run that may still write the cursor that
  every candidate of the pass has been tried, is on its page, or lies behind its
  page token (`Accounted`). A run that may not write any more is refused, so
  nothing need be known of it. The lemma `FirstOfClosed` is the one fact about pages: a
  page leaves out no name before its last.
- **QuicknodeWebhook.** `StageOK`: as long as an attempt counts no failure, all burns
  before the one at hand are staged. `NonceInv`: who was told "valid" is the only
  one.
- **SafeBatch** (in `QuicknodeWebhook_proofs`, as it is the other loop of the same
  function). `FateInv`: what lies behind the log at hand is settled for good, what
  lies before it untouched. `SentInv`: every transaction in `sent` has a posted Safe
  alert. `CountInv`: while the loop goes on, the count is at most the number of
  failures; each of the four exits then adds the length of a tail (`TailCounts`).
  `HeadroomInv` rests on `FallbackIsNext`: the sort puts the only Safe event first and
  a fallback of it second, so the rule that looks only at the next log finds it, and
  `sent` is empty as long as that Safe alert has not been posted.
- **DeadLetterRedrive.** `RunKnows`: who is about to copy has posted, or found a
  copy that someone who had posted made.
- **GovernanceWebhook.** `CacheRemembers`: what was let through within the window
  is still in the cache, whatever was trimmed. `NonceKept` and `Progress` are per
  delivery; lemma `OthersProgress` is that others do not disturb it.
- **DeviationBreach.** `OpenRowIsAnchor` is not inductive: a handler must not find an
  anchor without a breach, nor a breach without a price. `HeldIsFresh` is the
  missing half: between transactions an anchor means a price in breach, and an
  anchor that `UpdateReserves` holds meets the next handler with a fresh median, so
  that handler decides it. That is what a cold reading breaks.
  The other four rest on `StepMoves`: every step hands a sample of the pool to
  `recordBreachTransition`, or leaves rows and price alone. `PeakCovers` follows from
  what a transition writes, without `OpenRowIsAnchor`. `CauseInv` says when a row may
  carry the cause "unknown": in its own block, while the event to come is owed and
  will find a fresh median, so that its transition reaches the row.
  `TotalsMatchRows` needs `Numbered`: every row has a number below the number of rows,
  so a row that is written is new among the open ones and one that is closed is new
  among the closed ones. The sums are folds over a set; `GatherTakes` and `GatherSame`
  show that such a sum does not depend on the order in which it takes the rows, and
  `TotalAdds` that a new row adds its share. The induction is over a set of naturals
  (`Upward`).
- **WormholePairing** (in `DeviationBreach_proofs`, the indexer's other entity of several
  handlers). The theorems are about the two transfers the model has, of any managers,
  with any number of logs missing and of readings repeated unless the property says
  less. `RowIsOutcome` does not say that a counted attestation has its own row, nor
  that an early token is the destination's; `Records` makes of each field of the row the
  trace of one kind of event, and the attestation row the witness of its count. One
  lemma per handler (`SentDigest`, `AttestedTo`, `Queued`, `Redeemed`, `ScratchLeft`)
  says what it leaves in the row of its transfer and that it leaves the others alone.
  These lemmas hold for logs of any length and content. The other three properties depend
  on which events meet in a transaction, and use the shape of the initial states' logs
  (`LogShape`, `Together`, `Apart`: two transfers, of one manager or of two). `SendingInv`
  and `ArrivingInv` say what a scratch row that is there, or is not, tells of the logs
  that were left out, which is all that `ScratchDrained` asks. With it `OwnFound` shows
  that a walk back finds the transfer's own row, so the fields are its own (`FieldInv`,
  `DataInv`). `CountInv` says the counts in terms of the rows: the rollups hold what the
  rows owe (`Owed`), and each handler adds what it makes a row owe.
- **OracleFeed** (in `DeviationBreach_proofs`). `Knows(r, a)` says of a set of rows that
  they hold the first `a` logs of the block: each row is the contract's state there
  (`After[a]`) as far as its mark goes, and a row that does not exist yet could not
  have been made. A handler keeps it when its log is one of these and brings it to
  `a + 1` when its log is the next, whatever the rows it starts from; so it holds of
  `rows` with an `a` at or past the place of the handler and of `disk` with any, and a
  restart, which only goes back in place, needs no case of its own. At the end of the
  block it is `FeedFollowsChain` and `MedianBlendedOnce`. What an environment may log
  enters by `PoolsAnnounced` and `LogsInOrder`. `After` is a recursive function; that it
  unfolds is proved by induction on its domain (`AfterUnfolds`). `NeverHalts` is stated
  by the handlers' exceptions (`Throws`) rather than by ENABLED.
- **IssueBoard.** `MutexInv` says of each place of a command what the ref and its
  request may be; the commits of one command occur once, so a late compare-and-swap
  finds its parent or nothing. Every step of the board is a step of the mutex or
  leaves it alone (`StepsFollowMutex`), which hands mutual exclusion to the board.
  `BoardInv` then says for each place of a command, its repairs included, which
  ownership fields are still those of its snapshot or its token; while a command is
  inside, no other one writes. One lemma per group of places (`ClaimReads`,
  `PartReads`, `ReleaseReads`, `UndoReads`, `ReviewReads`, `LookReads`) and one per
  kind of write carries it.
  For the labels two more parts are needed (`BoardWhole`). `CalmInv` says what a command
  that nothing has gone wrong for since it read the ref knows of the issue at each
  place; such a command never comes to retain its lock, which is `StaleHasCause`.
  `WholeInv` says at each place how the issue differs from `kept`, as it was when the
  mutex was last free, unless people have moved it. When the release is granted the
  difference is an `Outcome`: nothing, or one whole move. That makes the step of the
  unlock a step of `IssuePromise` and every other step a stutter
  (`BoardImplementsPromise`).
- **PegPoller.** A source's state is `Retainable` (its book is of a market whose listing
  is known, and it keeps no price beside a cause of failure), and every result of a
  poll is `Sound`: the shown book is fresh, a success is counted for a new identity
  only, a slot moves the blind count by one. There is a lemma for each path through
  `pollSource`. `StageSound` says that a copy is one sound poll away from the state as
  it still is.
  `CountedRemembered` ties the history to the state: a counted book is older than
  the last accepted one or among its remembered identities. `RetainedShown` says that
  a book that is kept was shown, which is what `GoneStaysGone` needs, and `NoneWaits`
  that a version without a state has nothing waiting.
- **DeviationAlert** (in `PegPoller_proofs`, the bridge's other memory). Both bridges
  classify the same row, so they agree on state, breach and signal but for the
  escalation (`Together`), and the proof is about time. `Held` says which snapshots
  there are, in particular that no date in one is from before the trading week.
  `Recalls` says that the restarted bridge, unless excused, dates nothing later than
  the other one, so it is critical when the other one is and in an alert when the other
  one is: that is `RecoveryKeepsContext`. `EpisodeOK` says that a breach whose
  escalation has been told is old enough to be critical at the first row any bridge gets
  in the same week, so that a restarted one begins as critical and has nothing to tell.
- **OncallRotation** (in `GovernanceWebhook_proofs`, the other function that announces).
  `Reads`: what an invocation read is still the record unless that was edited, and
  past the post the message has been accepted. `ShownOnce`: what the channel was shown
  since the record changed is what Slack has accepted and had not accepted before.

Model-checked only: the two liveness properties, `EveryCandidateSettles` and
`EveryLetterCleared`, since TLAPS handles neither liveness under strong fairness nor
ENABLED; and the five violation runs, which show a behaviour and prove nothing.

The bounds of counters (`MaxPosts`, `MaxCycles`, `MaxChanges`, `MaxMinute` and their
like) are arbitrary constants in the proofs.

---

## 7. What is not modelled

- *Receipts, ABI decoding, signatures, payload shapes*: their verdicts are inputs.
- *Retries inside one send* (`slack.ts`, Telegram, Discord): a send is one step that
  may be accepted any number of times, which is what its retries can do.
- *What a message says*.
- *The rest of the indexer's handlers*: volumes, snapshots, trading limits, health
  accumulators, Liquity, stables. They write other fields or other entities, one
  event at a time, and add up; none of them writes what the modelled handlers read.
- *RPC access*: its answers and failures are inputs of `DeviationBreach` and
  `OracleFeed`.
- *Governance*: the `MedianUpdated` health event, unauthenticated answers and the
  health endpoint touch neither nonce nor cache.
- *Aegis, integration probes, dashboard, infrastructure*: they read and publish;
  nothing of theirs depends on the order of two steps. Their limits (instances,
  cron, deadlines) appear above as assumptions.
- *Metrics bridge*: the rebalance probe, whose cycles leave nothing behind; of the
  peg monitor the contents of decision packages, the adapters' parsing, and a second
  source of an asset, which has a state of its own.
- *Issue board*: sync, backfill, groom, `--rebind-branch`, the sweep of abandoned
  claims and dry runs; the claim engine is the external package
  `@mento-protocol/issues/claims`, modelled from its use. Text of comments.
- *Pools that leave a feed* (see "Observed besides").
