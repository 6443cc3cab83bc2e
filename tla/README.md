# alPool in TLA+

alPool is a local proxy, written for Node.js, that spreads Claude Code requests
over a pool of accounts: Anthropic OAuth subscriptions, GLM and Kimi provider
accounts, and other alPool instances linked as remote pools. This directory
holds a TLA+ model of its core logic, the TLC configurations that check it on
small instances, and TLAPS proofs of what holds for every instance.

Paths below are relative to the repository root. Run everything inside this
directory: `tlc -workers 2 -config MCSupervisor.cfg MCSupervisor.tla`,
`tlapm HandoverProofs.tla`. `PROJECT.json` lists the runs, the mutants that
each property must catch, the source lines of each definition, and the hazards.

## The system

| Component | Source | State | Interacts with |
|---|---|---|---|
| Supervisor and reload baton | `src/index.js` 219-570, `src/reload-protocol.js` | listening socket, active worker, current turn, reload in flight | worker processes, by IPC messages and exit events |
| Worker life | `src/index.js` 960-1690 | lease, draining flag, restart latch, reload watchdog | supervisor; token refresh, prober, state file (all under the lease) |
| Restart controller | `src/restart-controller.js` | pending, restarting, active requests | worker life, admission gate |
| Token refresh | `src/account-manager.js` 4304-4500, `src/oauth.js` 33-113, `src/index.js` 870-945, 1245-1372 | one refresh in flight per account, tokens in memory and on disk | OAuth server, config file, other writers of the config |
| Admission queue | `src/account-manager.js` 1299-1417, `src/server.js` 3032-3350 | FIFO of waiting requests, byte and count budgets | selection, forwarding |
| Upstream breaker | `src/account-manager.js` 1147-1290 | open-until, probe claim, ambiguous 429s | selection, forwarding |
| Availability and selection | `src/account-manager.js` 607-1141, 1426-3512 | quota windows, cooldowns, caps, session bindings | quota updates from headers, probes and linked pools |
| Request forwarding | `src/server.js` 716-2136, 3795-4075 | attempts, excluded accounts, committed stream | selection, breaker, queue, token refresh |
| State and config files | `src/config.js`, `src/index.js` 737-945 | generation, write queues | every worker that flushes |
| Prober | `src/prober.js`, `src/reset-policy.js`, `src/zai-reset-cards.js`, `src/claude-reset-grants.js` | sweep in flight, pacing gap, tries of a card | account manager, lease |
| Thread gate | `src/thread-gate.js` | which account holds a conversation, refusals in a row | forwarding |
| Capacity ledger | `src/capacity-ledger.js` | open cycle, closed cycles, day buckets | usage updates, expiry, state file |
| Pool links | `src/pool-link.js`, `src/account-manager.js` 4844-5003 | identities a linked pool holds, mirrored rows | availability, state file |
| Updater, secrets | `src/updater.js`, `src/secret-resolver.js` | small latches and caches | worker life |
| Presentation | `src/tui.js`, `src/control-service.js`, `src/event-log.js`, `macos/` | views | read the above, call its setters |

### What is hard

- **The handover.** A reload replaces the worker while it serves. The socket
  and the right to rotate tokens must move together, from a process that may
  crash, hang, be told to quit or be slow at any point, under a supervisor
  whose loop and whose reload react to the same exit events. Getting it wrong
  costs an account: a refresh token is single-use, and two processes that
  rotate it log the user out.
- **Token refresh.** A refresh is a network call whose answer may be lost, its
  result is saved asynchronously, the account list may change meanwhile, and
  another process may have saved a newer login.
- **Waiting and waking.** Requests wait in a FIFO with budgets while accounts
  cool down; each path that leaves the queue must give back exactly what it took.
- **The breaker.** One request probes a throttled upstream while the others wait.
- **Files.** Old and new worker, the prober and the control service all write.
- **Three that close one cycle.** The sweep's clock, whoever expires a quota and
  a probe with a new reset stamp end the same capacity cycle, unaware of each other.
- **Two answers to one question.** Selection and the retry oracle read the same
  accounts by different code; where they disagree a client spins, or waits for
  an account that is long back.
- **Awaits in the prober.** Between the reading of a quota and the spending of a
  card are up to five network calls, and the owner may change his mind at each.

### What makes each component correct

- Handover: one writer, one acceptor, no orphan, service resumes, the latch clears.
- Tokens: the token on disk is never older than one the server accepted; no
  account gets another's token; a refresh in flight is waited for.
- Queue: FIFO among those that can be served, budgets never negative or leaked,
  nobody waits for ever while a slot is free.
- Breaker: a probe is carried by a live request, and the breaker does not stay
  half-open.
- Forwarding: every lease is given back, nothing is replayed to a client that has
  seen bytes, nothing is sent for a client that left, every request ends.
- Restart: a latch that refuses requests is always about to be taken back.
- Selection: the oracle says "available" only when selection agrees, and names
  no instant later than the one at which an account comes back.
- Files: no lost update between generations; the lease holder can always save.
- Ledger: tokens are counted once, a boundary is one row, a row that counts was
  watched.
- Pool links: a login has one writer; a mirror is routed to a pool that lists it.
- Prober: nothing is spent against the owner's settings; a prober that was
  stopped does nothing more.
- Threads: a turn that names a thread reaches the account that holds it.

## Modules

### Supervisor

`Supervisor.tla` models `supervisorCommand`, `orchestrateReload`,
`runReloadBaton`, `makeWorkerChannel`, `reapOldWorker` and the life of the
supervised worker processes. One action is one event-loop turn of one process:
a message handled, an exit observed, a timer fired, or a step of an `async`
function between two awaits.

- `loop`, `active`, `master`, `baton` are the supervisor's: where the `while`
  loop waits, `activeWorker`, whether `masterServer` listens, and how far
  `runReloadBaton` has come, with its two workers. `loop = "turn"` is also
  "`endTurn` is set": an exit of the active worker resolves it once.
- `st[w]` is where process w is in its life. `"primary"` holds the lease;
  `"releasing"` to `"released"` is `releaseBatonAndDrain`; `"quitting"` and
  `"restarting"` are `shutdownGracefully` and `restartWorkerNow`; `"dead"` has
  exited but its exit is not handled yet. All the draining states together are
  the code's `draining = true`.
- `down[w]`, `up[w]` are the IPC messages in flight. A set per process is enough
  because no kind is sent twice before it is read, except a second
  `reload-request`, which the supervisor drops. Where the order of two kinds
  matters, a guard says so.
- `writing` is a refresh, probe or save in flight. It starts under the lease and
  may outlast it: that is what `RELEASED` has to wait for.
- `verdict` is a history variable: why the last reload was rolled back, in the
  words of `reload-protocol.js` 16-20.

The exit code decides what the loop does next (`AfterExit`): 75 respawns, 0
stops, anything else respawns or stops by how long the worker ran; the model
leaves that time open. A process id is reused once the process is gone and
nothing names it.

`Mishaps` switches on three kinds of exit that come at a bad moment, each of
which breaks the handover of the code as it is (see *What the runs found*). The
safety properties and their proofs are stated for `Mishaps = {}`, where crashes,
failed listens, quits and signals still happen at every other moment; the
liveness run allows all of them.

`WriterBaton.tla` is what the header of `reload-protocol.js` promises: a
socket and a lease that one process owns, that are put down before another
takes them, and that only the owner writes under. `ImplementsBaton` maps the
owner to the process that listens, has a handle on its way, holds the lease or
has a write in flight.

### TokenRotation

`TokenRotation.tla` follows the single-use refresh tokens through the worker
processes of one alPool, the OAuth server and the config file.

- A token is the number of its issue. `spent` is what the server refuses,
  because it was used or revoked; `disk` is the token of each account in the
  file, 0 if the account is not in it.
- `list`, `mem`, `from`, `status` are a process's account manager: the order of
  the accounts (refreshes are addressed by index), `refreshToken`,
  `_refreshedFrom`, and the two latches that put an account out, status
  `'error'` and `refreshDead`.
- `job[w][a]` is the refresh behind `_refreshPromise`: sent, answered or
  refused by the server, then waiting for its save.
- `chain` and `content` are the writes of the config file. `atomicConfigUpdate`
  reads the file (`ConfigRead`), and later replaces it as a whole
  (`ConfigWrite`); updates of one process run one after the other, those of two
  processes do not. The four kinds of update are `persistTokenRefresh` of a
  rotated and of an adopted token, `persistLiveConfig`, and the deletion.
- `phase` is the part of the supervisor's protocol that matters here: a
  headless worker boots from the file, the primary releases, waits for its
  refreshes and writes (`Released`), and the headless one re-syncs and takes
  over (`TakeOver`). That no two processes rotate at once is a guard here and a
  theorem of `HandoverProofs` there.
- `cut` is a history variable: the accounts that lost their token in a way no
  client can prevent (a kill while the token was on its way, an answer that
  never came, a failed write, a revocation). The properties speak of the others.

`Mishaps` again names what breaks the code as it is, so that the properties can
be stated for the rest: `"delete"` (deletions while a refresh is in flight or a
process boots), `"overlap"` (a headless worker writes the config), `"login"` (a
refresh that a login overtook succeeds).

### AdmissionControl and Forwarding

`AdmissionControl.tla` is the shared part of `account-manager.js` that requests
compete for, as one record `am` and operators from record to record: the leases
(`busy`), the benches (`cool`, `prov`, `dead`), the breaker (`until`, `probing`,
`failed`, `amb`) and the queue (`waiting`, `bytes`, the ramp after a throttle).
Each operator is a method: `Throttled` is `markUpstreamThrottled`, `Cleared`
`clearUpstreamThrottle`, and so on; `map` has the lines.

`Forwarding.tla` is `forwardRequest` and `queueAndRetry` of `server.js` over that
record. A request is a record of what the code keeps in the arguments of
`forwardRequest` and in `requestInfo`; an action is what runs between two awaits:
the choice of an account, the refresh of its token, an answer, the end of a
stream, one poll of the queue, the departure of the client. Which available
account is chosen is left open, so the properties hold for every score. Times
are what is left of them, in ticks, so the clock needs no bound.

A behaviour is about one *world*: the accounts that work at its start and the
faults that may happen in it, as often as they like. Together the worlds of
`MCForwarding` hold every fault: 529, 429 whose scope is known or not, 401, 5xx,
no answer, an exception, a token that cannot be refreshed, bodies rejected,
repaired or sent elsewhere, both kinds of refusal, and a client that leaves.

### The worker's services

Seven modules for the parts of a worker that do not compete for requests. They
meet only through what each takes from its environment, which is left open, so
`MCServices.tla` composes them with a `focus`: a behaviour is about one of them,
and the others stand still. One run checks them all.

- `RestartController.tla`: every method of the controller, and the worker's end
  of a reload. `ctl` is the controller with the flags of `index.js` that go with
  it; `swap` is the supervisor, of which only the verdict counts here.
- `StateFile.tla`: `state.json` over the workers of a reload. A save is a job of
  `_stateWriteChain` in two steps, the read of the generation and the write;
  `known` is `stateGeneration`, `flushed` is `capacityFlushSnapshot`. The file
  carries the ledger of one account, which `mergeFlushCapacityDelta` adds to.
- `CapacityLedger.tla`: one window of one account. `cycles` is the ledger,
  `quota` what the account believes and `vendor` what is true; `answer` is a
  probe in flight. Time is in minutes, fullness in tenths.
- `PoolLinks.tla`: what each linked pool offers (`remote`), what is known of it
  (`link`), the copies benched here, the mirror rows, and the identities saved.
  `heard` is a history variable. Time is in days, of which only the age of a
  seed counts.
- `Prober.tla`: `at[a]` names the network call that account `a` waits for; each
  action is the answer to one. The owner, a linked pool and `stop` may come in
  between any two. The week's fullness has the three levels the policy tells
  apart.
- `ThreadGate.tla`: `owners` is the LRU map of the gate. `holder` and `row` are
  histories of what really happened, against which the answers are judged.
- `Routing.tla`: `_isAvailable`, the passes of `_selectNext`, and
  `nextRetryForRequest` with `_retryInfo`, as operators on a fleet that changes
  by headers, probes, rejections, cooldowns, caps, the owner and time. A window
  is four ticks, so that a cap which rises toward the reset crosses a reading
  between the ends of a window.

## Runs

| Run | Configuration | Properties | States |
|---|---|---|---|
| `handover` | 3 processes, 2 troubles, no mishaps | `TypeOK`, `SingleWriter`, `SingleAcceptor`, `ReleasedMeansQuiet`, `MasterListensOnlyInGaps`, `Supervised`, `ImplementsBaton` | 170,000 |
| `handover_live` | 2 processes, 1 trouble, all mishaps | `ReleasedStaysQuiet`, `NoStrayHeadless`, `ServiceResumes`, `LatchClears` | 41,000 |
| `asker_dies`, `released_dies`, `quit_races`, `broken_build` | 3 processes, one mishap each | one property each, violated | |
| `token_rotation` | 2 accounts, 2 processes, 2 tokens issued, 1 trouble, no mishaps | `TypeOK`, `NoTokenLost`, `HolderIsCurrent`, `BlameIsDeserved` | 1,200,000 |
| `index_shifts`, `headless_writes` | 2 accounts, one mishap each | `NoTokenLost`, violated | |
| `forwarding` | 2 requests of one session, 9 worlds of 2 accounts | `TypeOK`, `LeasesCounted`, `ProbeIsCarried`, `NoPhantomBytes`, `QueueIsLive`, `NoQueueJumping`, `NoReplayAfterBytes`, `NothingSentForTheGone`, `EveryRequestEnds` | 150,000 |
| `refusal_resent` | the same, one world | `RefusalIsFinal`, violated | |
| `services` | see below | `TypeOK`, `NoOrphanedLatch`, `RestartSettles`, `NeverOvercounted`, `HolderCanSave`, `ReleasedIsSaved`, `RowsAreDistinct`, `TokensAccountedFor`, `CountedIsWatched`, `SingleWriter`, `MirrorTakesOver`, `StopIsFinal`, `ActsForTheOwner`, `ThreadIsHeld`, `NoSpin`, `HoldIsNotLate` | 600,000 |

What the passing runs show:

- One process at most holds the lease or still writes, one at most accepts
  connections; `RELEASED` is only sent when nothing is in flight; the supervisor
  accepts connections itself only between two workers; whoever accepts is
  watched, so its exit brings a new worker; and the whole is an implementation
  of the baton.
- When timers fire and processes run, a primary accepts again after every
  crash, a rejected reload lets the next one start, a headless worker ends up
  promoted or gone, and a released process stays quiet.
- Across refreshes, syncs, saved settings, logins and a whole reload with a
  kill or a failed write anywhere, a rotated token reaches the disk before its
  process is done, the lease holder presents no token twice, and only an
  account whose own current token is refused is put out.

- Over every mixture of answers, failovers, holds, repairs and departures, a
  lease, a probe, a place in the queue and its bytes are given back exactly once;
  nobody is admitted before one who came first and can be served; a client that
  has seen bytes sees no second attempt; and every request ends.
- A restart that refuses requests is carried out or taken back. The lease holder's
  saves are accepted, and no merge of two ledgers counts a token twice. A
  capacity cycle that three parties may close is closed once, and counts only if
  no outage cut it. A login that a linked pool holds is not used here, through
  outages of the link and restarts of this pool. A prober acts on the owner's
  settings as they are when it acts. The oracle and selection agree.

### Bounds, and why they are enough

Three processes are the old worker, the new one, and the one that the loop
spawns cold when the other two go wrong; a fourth can only wait for one of
these. Ids are reused, so any number of reloads follow each other. `MaxTroubles`
bounds the crashes, failed listens and repeated signals of one behaviour; two
allow a failure of the recovery from a failure. In `TokenRotation`, two
accounts show what an index shift and a whole-file write do to a neighbour, two
processes are those of a reload, and two issues are a rotation and the
rotation, or the login, that overtakes it. `MaxQueue` bounds only the updates
that a user queues: refreshes and syncs always queue theirs. Processes are
interchangeable, so the safety runs use symmetry; the liveness run does not.

In `MCForwarding`, two requests are enough for each of the pairs of the queue
(head and follower, live and ghost, probe and waiter): the code compares
requests only two by two. They are of one session, since only those evict each
other's ghosts. `MaxAttempts`, `Window` (the hold), `HeadSkip`, `Bench` and
`MaxFailed` are counters that the code compares with a limit; a limit of one or
two reaches it, and each of the paths before it. Two accounts are the one that
fails and the one that is failed over to.

`MCServices`: three workers are two reloads that overlap, so that two released
workers may both have something to merge, though not at once: `TwoMerge` is
FALSE, see below. Two tokens and one periodic save are a save that a merge
overtakes. A window of two minutes and a clock of four let a cycle be closed by
the clock, by the stamp and by a probe, and the next one open; two rows are a
full ledger. Two links of one login are a login two pools claim. Three days
outlast a seed. One provider and one subscription are the two kinds of account
of a sweep, which probes accounts one by one. Two sessions fill the map of the
gate. One account of each kind, two events and three ticks of the clock are
each pair of blockers of an account and the time that both end: the oracle folds
over accounts with a minimum, so one account of a kind is as good as many.

### Fairness

`Fairness` in `Supervisor.tla` is weak fairness of steps that Node.js and the
operating system take by themselves: an event loop handles its messages, a
timer fires, an exit is reported, a write that was started ends, a boot
succeeds or fails, a draining process exits. Nothing is assumed of crashes,
signals, requests, key presses, or of a boot's success.

`Fairness` in `Forwarding.tla`: time passes, and a request that can go on does.
The second is justified by the timeouts: the guards on the time to the first
byte, on idle streams and on bodies settle each attempt. No fault has to stop.
`RestartFairness`: the drain timer and the reload watchdog fire once armed; the
supervisor may never answer and the clients may never leave. The other services
have no liveness property: a sweep, a poll or a save that never comes breaks no
promise of theirs.

### Mutants

Every property of a passing run is violated once the code is changed in one
place, as a mistake would change it: the release that only flips the flag, the
fall-back that forgets the new worker, the swap that leaves the supervisor
listening, the exit that ends a turn whoever it was, the missing re-sync at the
takeover, the missing barrier on the config writes, the login that leaves the
latch, the account not released when a client leaves, the stale head that keeps
its bytes, the probe that is not handed back, the request still counted when it
has ended, the second close that is a row of its own, the merge that does not
compare cycles, the failed poll that forgets what was heard, the failed read that
clears a flag. These variants stand before the definition they replace,
marked `(mutant: ...)`.

## What the runs found

Each of these is a run that fails, of the code as it is. The full account, with
the comment that the code contradicts, is under `findings` in `PROJECT.json`.

| Run | What happens |
|---|---|
| `asker_dies` | The worker that asked for a reload crashes while the new one boots. The loop spawns a cold worker; the baton, still running, falls back, kills its own two workers and forgets the cold one. The next turn spawns another: two writers. |
| `released_dies` | The old worker has nothing to drain and exits right after `RELEASED`, before the swap. Its exit code 0 ends the turn and the loop returns, as if the user had quit. The new primary runs on with nobody to respawn it. |
| `quit_races` | A worker told to quit during its reload answers `RELEASED` at once, with a write still in flight. |
| `broken_build` | A new worker that dies during its boot is reported to the old one as slow, so the watchdog restarts cold into the build that cannot boot. |
| `index_shifts` | An account is deleted while a later one is being refreshed. The index is stale, and the rotated token is saved nowhere. |
| `headless_writes` | The account sync of a headless worker rewrites the file without the lease, over a rotation that the primary saved in between. |
| `refusal_resent` | A safeguard of Anthropic refuses a turn that no configured provider may serve. It finds no route and is queued, and the queue resumes it without its exclusions: Anthropic gets the refused turn again, once per poll, until the hold ends in a 429. |

The mishaps are narrow: with `"quit races"` alone `SingleAcceptor` and
`MasterListensOnlyInGaps` still hold, whereas `"released dies"` breaks
`SingleWriter`, `SingleAcceptor`, `MasterListensOnlyInGaps` and
`ReleasedMeansQuiet` as well.

Met while modelling, and in the model, but without a run: no document promises
otherwise, or the property names the exception.

- `HoldIsNotLate` excludes two windows by name (`Untimed`). A rejection that
  rests on a full five-hour window alone is timed by the weekly reset
  (`account-manager.js` 2008-2033, 3421-3427), and the session window of a
  provider is not timed at all (1717, 2110-2159).
- While the upstream is throttled the oracle answers with the end of the
  throttle, even if a provider frees sooner (609-612).
- `HolderCanSave` is stated for `TwoMerge = FALSE`. With two released workers
  that merge in the same second, the later write puts back the older file, and
  the merge can revert a flush of the new primary between its read and its write
  (`index.js` 785-807); with TRUE, TLC finds the property violated.
- Loss of tokens in that merge is not excluded by `NeverOvercounted`, which only
  says that nothing is counted twice.
- `reloadIsForUpdate` is never reset (`index.js` 965, 1375, 1391). A seamless
  reload latches `restarting` at once, so that new requests get 503 while the
  new worker boots (`restart-controller.js` 16-25, 95-101).
- A capacity cycle that opens on a disabled account is not flagged; headers
  overwrite a reset stamp without closing the cycle it belonged to, and the next
  to notice closes both as one.
- The age of the identities of all links is one number, the latest (4867-4870),
  so a link that is down lives on the confirmation of one that is up.
- The saved flag of outside use does not survive a restart (4832, `prober.js`
  256-261), and the bench of a key is not read again after the listing of its
  cards (`prober.js` 208).
- A throttle mark that arrives while a probe is out reopens the claim (1151), so
  two probes may be out.

## Proofs

| Theorem | Module | For every ... |
|---|---|---|
| `TypeCorrect`, `TheReleasedStayQuiet`, `HeadlessOnesAreKnown` | `SupervisorProofs` | set of processes, bound and set of mishaps |
| `OneWriter`, `OneAcceptor`, `NoWriteAfterReleased`, `NoUnwatchedAcceptor`, `MasterKeepsToGaps` | `HandoverProofs` | set of processes and bound, no mishaps |
| `HandoverImplementsBaton` | `HandoverProofs` | the same |
| `TypeCorrect` | `TokenProofs` | number of accounts, tokens, processes, bound and set of mishaps |
| `NothingIsLost`, `NothingIsPresentedTwice`, `NoneIsBlamedForAnother` | `TokenProofs` | the same, no mishaps |
| `ForwardingTyped`, `EveryLeaseIsCounted`, `EveryProbeIsCarried`, `QueueBytesAreReal`, `EveryTicketWaits`, `TheQueueIsNotJumped`, `ResponsesAreNotReplayed`, `TheGoneAreLetGo` | `ForwardingProofs` | finite set of requests, set of accounts, bound, kind of repair and fault |
| `RestartTypes`, `LatchIsArmed` | `ServiceProofs` | set of requests and number of restarts |
| `StoppedForGood`, `OwnerIsObeyed` | `ServiceProofs` | set of accounts and clock |
| `TheHolderIsAsked` | `ServiceProofs` | set of sessions, set of accounts, size of the map and bound of refusals |
| `ProberTypes`, `GateTypes`, `ServicesTyped` | `ServiceProofs` | the constants of the services |
| `EachRunsAlone` | `ServiceProofs` | the same |
| `PoolTypes`, `OneWriterPerLogin`, `MirrorsAreListed` | `FleetProofs` | number of links, set of logins, life of a seed and clock |
| `RouteTypes`, `OracleAgreesWithSelection`, `HoldsEndInTime` | `FleetProofs` | sets of subscriptions and of keyed accounts, clock and number of events |
| `StateFileTypes` | `LedgerProofs` | number of workers, tokens and saves |
| `SavesAreAccepted`, `TheLastSaveIsOnDisk` | `LedgerProofs` | the same, if `~TwoMerge` |
| `NothingIsCountedTwice` | `CountProofs` | number of workers, tokens and saves, any number of merges at once |
| `LedgerTypes`, `CountedRowsAreWatched`, `OneRowPerBoundary`, `EveryTokenIsHeldOnce` | `LedgerProofs` | window, clock, number of rows and of outages |

The assumptions are the named ones on the constants (`SupervisorAssumption`:
`NoWorker` is no process, `MaxTroubles` a natural number; `TokenAssumption`,
`RestartAssumption`, `PoolAssumption`, `StateFileAssumption`, `AdmissionAssumption`,
`ForwardingAssumption`: the bounds are natural numbers, those of attempts,
benches, rows and links at least one; the requests, and the repairs that a body
can get, are finitely many; `LedgerAssumption`: the same, and a window lasts
longer than the two minutes by which an outage moves the clock, as the vendor's
window outlasts a restart; `ProberAssumption`: no account is both a provider's
and a subscription) and, for the handover and the tokens, `Mishaps = {}`, for
the saves, `~TwoMerge`: without these the theorems are false, which is what the
previous section shows. `Worker` of the supervisor, `Calls`, `Logins` and the
accounts need not be finite.

None of the safety properties is inductive. What each invariant adds:

**The handover.** `SingleWriter`, for
example, survives the new worker's `takeover` message only because no other
process can then still be writing, and this because `released` was read before,
and this because it was sent with no write in flight. `BatonInv` states the
chain. Its first part says where an owner can be: a process that accepts,
writes, or holds the handle is the active worker of the loop or one of the two
workers of the baton. Its second part goes through the phases of the baton and
says what each implies of the two workers, the messages in flight and the
supervisor's own socket. `HandoverProofs` shows that `Init` implies it, that
each action preserves it (one lemma per group of actions), and that it implies
the properties. The refinement uses it too: a step of the code that moves the
owner from one process to another, without passing through "nobody", would be
no step of the baton. `MasterKeepsToGaps` adds `InGap`: a process that accepts
while the supervisor still does has the message in its pipe that stops it, or has
not told the supervisor yet. The two theorems that hold under every mishap need
`CalmInv` instead, which says of one process at a time that it is young only
while the reload it belongs to is under way.

**The tokens.** `TokenInv` follows a token from its issue to the file. A process
that rotates holds a token of each account that the server takes, or waits for
the answer that brings one, and what the file holds is either the same, or an
update in the queue of that process replaces it (`Good`, `Due`): this is what a
kill, a boot and a takeover need. The rest is there to keep it: an update of a
refresh saves what its account holds, unless a login queued behind it saves a
newer one (`Rotations`); a headless process writes only what the file holds
already, and only while nobody else is between its read and its write
(`Adoptions`); the file is never ahead of the process that rotates (`Order`);
with no process rotating, the file itself is good (`Vacancy`); and no token is in
use for two accounts (`Apart`), or a refusal of one would be another's.
`Mishaps = {}` is needed: `index_shifts` and `headless_writes` show
what happens without it. TLC checked `TokenInv` on three instances before it
was proved.

**The requests.** A handler takes its request out of the shared state (the lease
is released, the ticket leaves the queue) and puts it back: under another lease,
into the queue, or nowhere. `FwdInv` is the conjunction of the five safety
properties with `AllSettled`, which says what the fields of one request imply of
each other: an admission is used up by the lease that it was for, a ticket
belongs to a request that waits, the queue's heartbeat is not the header of a
response that has begun. Between the two halves of a handler none of this holds,
and `ForwardingProofs` states what does (`Apart`); each handler is shown to reach
it, and each way to go on to leave it. The queue is a sequence from which handlers
drop what has left or expired, and `Kept` of `AdmissionControl` says so by
position (the places that stay, each at its rank among them), so that its lemmas
are about functions and need no induction over sequences. The three action
properties follow from the actions and the types.

**The services.**

- `LatchIsArmed`: a drain that is under way has a request to wait for, and a
  reload under way a watchdog, whoever of the two is asked next.
- `StoppedForGood`, `OwnerIsObeyed`: what a call in flight implies of the sweep
  and of the account. The calls that spend are entered only from an action that
  reads the owner's switch and the last reading in the same turn.
- `TheHolderIsAsked` (`GateInv`): the map has one entry for a key, its owner is
  the account that served the last threaded turn of the session, and it counts no
  more refusals than there were in a row. It may count fewer: the entry that a
  full map drops takes its count with it, and the client is then refused longer
  than the bound, never forwarded sooner. That a key names one thing, a session
  or an account, is what `NO_SESSION_PREFIX` is for (`GateAssumption`).
- `OneWriterPerLogin`: the property must survive a boot, so what was heard and
  saved must be in the file, confirmed there no earlier than it was heard
  (`FileRemembers`), and so what was heard must be in the link, with a
  confirmation that the next flush writes down (`LinkRemembers`). The flush
  writes the maximum over the links; that a finite set of integers has one is
  `MaxOfFinite`.
- `MirrorsAreListed`: the rows of a link that answers are what was heard of it.
- `SavesAreAccepted`: a save and a merge write at the generation that they read.
  What the holder read is not below the file, so its save advances it; what a
  merge read is not above, so it puts the file back; there is one holder, which
  took over when there was none; and only the head of a chain has read
  (`SavesInOrder`, `StagesInv`).
- `TheLastSaveIsOnDisk` (`LeaseInv`): the last job of a worker that releases is
  its final save, which no generation can refuse; from then on, a merge that
  would put the file back to the generation of that save has read it then or
  later (`SavedOf`); and workers take over in the order of their births.
- `NothingIsCountedTwice` (`CountInv`): what a released worker has delivered since
  its snapshot is in no ledger but its own until its merge is on disk, so each
  other ledger - on disk, in a memory, in a save or a snapshot that waits to be
  written - holds no more than was delivered even if all that the released still
  owe is added to it, in all and in the cycle that is open (`Fits`). What they
  owe is a sum over the workers, taken as the size of a set of pairs (`Pairs`).
  A merge moves a worker's part from what is owed to what is on disk. That a
  merge reads the file of another, or puts an older one back, only loses tokens,
  so `~TwoMerge` is not needed. TLC checked `CountInv` with three workers and
  four tokens, with `TwoMerge`, before it was proved.
- `EachRunsAlone`: the run that checks the services lets one of them move at a
  time, and a behaviour of it is one of each service; the theorems above are
  therefore about the run too, and `ServicesTyped` puts the types together.
- `CountedRowsAreWatched`: no row ends and no outage lies in the future, and an
  open cycle that would count has seen no outage since it started.
- `OneRowPerBoundary` (`OrderInv`): two rows of one boundary need not be
  neighbours, so rows are compared by the order of their resets. They are in
  order because a stamp that is taken over, from a probe or from headers, is not
  in the past, and no row is behind it (`StampsAhead`).
- `EveryTokenIsHeldOnce`: the sum over the rows is the size of a set of pairs,
  one for each token of each row (`TokensOf`), so a row that is added, grows by a
  fold or is dropped adds or removes a column of that set, and no induction over
  the sequence is needed.
- `OracleAgreesWithSelection` needs no invariant: it is about two operators on
  one state.
- `HoldsEndInTime`: each window that keeps an account out now, and not at a later
  instant, is shown to be timed no later than that instant. Only a rising cap
  lets go before its window ends, in the last tick, and only for the reading that
  it meets there (`CapLetsGo`). This needs that the readings are those a header
  or a probe brings, and that a subscription keeps no window that has ended
  (`RouteInv`). An account is a subscription or a provider's, not both
  (`RoutingAssumption`).

Only model-checked, not proved:

- the liveness properties (`EveryRequestEnds`, `ServiceResumes`, `LatchClears`,
  `RestartSettles`), which are out of the prover's reach;
- the properties of the runs that expect a violation: they are false.

## Not modelled

- Supervisor: the terminal (raw mode, re-assertion, log muzzles), the length of
  timers and of the crash back-off, the unsupervised mode, what a write under
  the lease contains, messages that a killed process had sent and nobody had
  read.
- Tokens: expiry times other than their order (a later issue expires later),
  `enabled` and `poolBenchedBy` (whether a refresh is wanted is open), the
  cooldown of a failed refresh, the command-line tools `alpool login`,
  `import` and `accounts`, which write the same file without coordination,
  accounts added at run time, and a sync during a pending deletion.
- Forwarding: the contents of bodies, headers and errors, requests pinned by
  another pool, bodies over the retry buffer, the growth of the back-off.
- Selection: scores, session bindings, the preferred and the pinned account,
  rebalancing, and the last resort of `_selectNext`, which ignores exclusions and
  revives an account whose time has passed. They choose among the accounts that
  `Routing` calls available, and `Forwarding` leaves that choice open.
- Files: a state file that cannot be read, the quarantine of a broken config,
  migrations of old formats.
- Ledger: the retention of day buckets, seals of old rows, the views.
- Prober: the adaptive length of the gap, the cards of the five-hour window, the
  parsing of listings, the choice among several cards.
- Updater and secret resolver: a version check and a cache, each with one latch
  and no other actor. The control service calls setters of the modules above.
- Pure presentation (`tui.js` rendering, the event log, the macOS views) and the
  operator scripts: they keep no state that a property over several steps could
  be about.

## Plan

1. `WriterBaton`, `Supervisor`, their runs and proofs. Done.
2. `TokenRotation`: model, runs, mutants and proofs done. Next the command-line
   tools as one more actor.
3. `AdmissionControl` and `Forwarding`: the queue, the breaker and the loop of
   attempts, in one run with liveness, and the theorems of its safety. Done.
4. `RestartController`, `StateFile`, `CapacityLedger`, `PoolLinks`, `Prober`,
   `ThreadGate`, `Routing`: done, with the proofs above.
5. Session bindings and the choice among available accounts.

Runs are few and wide: modules that do not interact share a run through an MC
module that lets one of them move at a time.
