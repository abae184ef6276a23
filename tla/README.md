# Formal model of wacht

wacht watches services: *probes* run checks and upload results to a *server*,
which decides by majority whether a check is up or down, records incidents in
Postgres and calls webhooks. This directory holds TLA+ modules translated from
the Go code, the TLC configurations that check them on small instances, and
proofs of their main properties for instances of any size.

Paths below are relative to the repository.

## 1. Inventory

| Component | State | Operations | What makes it correct |
|---|---|---|---|
| `CheckMachine` (`internal/monitoring/check_machine.go`) | last outcome, streak, deadline, vote of one probe on one check | `ObserveUp`, `ObserveDown`, `LoseEvidence`, `MarkError` (tests only) | a vote needs two equal outcomes in a row |
| `QuorumMachine` (`quorum_machine.go`) | aggregate state, last stable state, incident flag; one CheckMachine per assigned probe | `AddProbe`, `Observe*`, `LoseEvidence`, `Recompute` | strict majority; a stable state must repeat before it is promoted |
| `ProbeMachine` (`probe_machine.go`) | online/offline, last heartbeat | `ReceiveHeartbeat`, `ExpireHeartbeat` | a silent probe goes offline |
| `Runtime` (`runtime.go`, `result.go`, `heartbeat.go`) | all machines, one RWMutex | result batches with commit and rollback, heartbeats, `EnsureCheck`, `AddProbe`, `RemoveCheck` | memory and tables agree; a failed batch leaves no trace |
| Sweepers (`sweepers.go`, `cmd/wacht-server/monitoring_sweepers.go`) | none of their own | `SweepProbes`, `SweepChecks` | old evidence and silent probes leave the quorum |
| Recovery (`recovery.go`) | none of its own | `LoadRuntime` | a restart neither forgets nor invents incidents or streaks |
| Store, monitoring (`internal/store/monitoring.go`) | `check_probe_state`, `probes.last_seen_at` | `PersistMonitoringBatch` and its parts | one transaction per batch |
| Store, checks and probes (`store.go`, `probes.go`) | `checks`, `probes` | create, update, soft delete, seed, register, authenticate | nothing of a deleted check stays open |
| Store, incidents (`incident_notifications.go`) | `incidents`, `incident_notifications` | open, resolve, claim, mark delivered, mark retry | a finished notification stays finished |
| `Sender` (`internal/alert`) | worker goroutines | claim, send, mark, `Close` | every notification is delivered or superseded, normally once |
| `resultBatcher` (`cmd/wacht-probe/result_batcher.go`) | queue, wake channel, flush goroutine | `Enqueue`, `Close`, flush, requeue, trim | results in order, oldest dropped first, no lost wakeup |
| Probe API client (`internal/api/probe`) | none | register, heartbeat, fetch, `PostResults` | the right errors are retried |
| Probe scheduler (`cmd/wacht-probe/scheduler.go`) | one worker per check | `Reconcile`, `Close` | one live worker per check, of the current definition |
| Accounts (`internal/store/auth.go`, `internal/server/auth*.go`) | users, sessions, signup requests, rate limiter windows | login, signup, approve, set up password | tokens are used once |
| Server start-up (`cmd/wacht-server/main.go`) | none of its own | seed probes, user and checks; load; serve | what is served depends on the configuration and the API, not on how earlier starts ended |
| Status views (`internal/server/status_view.go`) | none | read Runtime and tables | no promise that relates the two reads |
| Check execution, configuration, network policy, logging, wire types, mock, web interface, smoke tests, docs | none relevant here | | |

Interaction. A probe's scheduler enqueues results in its batcher, which uploads
them. The server authenticates the probe, looks the checks up, takes the
Runtime's mutex, applies every result of the batch to the machines, collects
one write per result, commits them in one transaction and, if that fails,
undoes the batch. The transaction opens or resolves incidents and inserts
notification rows. The sender's workers poll those rows. Two sweep loops share
the mutex with the handlers. The API handlers for checks and probes change the
database first and the Runtime second.

Hard behaviours. Handlers interleave between their database step and their
Runtime step; a commit may fail, or succeed and report an error; the server may
die at any point and is rebuilt from rows that were written at different
moments; start-up is a row of statements that may be cut off anywhere; marks of
webhooks arrive after the row has changed; transactions lock the same rows in
opposite orders; calls decide with a time from before they waited for a lock;
uploads are repeated when the answer is lost, or run on when the probe has given
them up; queues overflow while a batch is
out; cancelled workers run on. The list `hazards` in `PROJECT.json` places each at its line.

## 2. Modules

| Module | Models | Lines of thought |
|---|---|---|
| `QuorumMachine` | `CheckMachine`, `QuorumMachine` | pure operators: each returns the state the Go method leaves |
| `Monitoring` | Runtime, handlers, sweepers, recovery, tables | the state machine; extends `QuorumMachine` |
| `MCMonitoring` | | symmetry for the instances of `Monitoring` |
| `MonitoringProofs` | | type correctness, known probes, votes and states, rollback |
| `IncidentProofs` | | incidents and rows agree with the Runtime |
| `Notifications` | incidents and notification rows, `Sender` | one action per statement or transaction |
| `NotificationsProofs` | | what a resolved incident and a final row guarantee |
| `CheckRows` | | abstract: the rows of one check when every transaction is one step |
| `RowLocks` | `PersistMonitoringBatch` against `DeleteCheck` | one action per SQL statement, with row locks; extends `CheckRows` |
| `RowLocksProofs` | | transactions are atomic; which locks keep a deleted check quiet |
| `ResultBatcher` | the probe's batcher and `PostResults` | one action per critical section |
| `Uploads` | `ResultBatcher` composed with the server's handlers and `QuorumMachine` | a result from the probe's queue to its vote |
| `UploadsProofs` | | the queue, the signal, the order of uploads and the evidence |
| `Scheduler` | the probe's main, `scheduler`, the check API | the table, the list that was fetched, the workers |
| `SchedulerProofs` | | one worker per check |
| `SignupLedger` | | abstract: what the signup flow promises |
| `Signup` | the signup handlers and their transactions | implements `SignupLedger` |
| `SignupProofs` | | the refinement and the life of a token |
| `MCSignup` | | symmetry of the calls |
| `Startup` | `main` of the server, seeding, credentials | one action per statement of the start |
| `StartupProofs` | | what a start leaves behind |
| `MCStartup` | | the configurations an operator goes through |

Definitions named `X_Something` with the comment *Mutant* are deliberately
wrong variants of `X`. No specification uses them; substituting one for `X`
makes TLC report the property named beside it in `PROJECT.json`, which shows
that the property depends on that piece of code.

### Monitoring

The variables come in four groups: the Runtime (`phase`, `known`, `quorum`,
`assigned`, `exec`, `probe`), handlers between two of their steps (`creating`,
`deleting`, `registering`, `requests`), the critical section that is writing
(`txn`), and the tables (`status`, `row`, `openIncidents`, `provisioned`,
`lastSeen`). `drifted`, `before` and `trail` are history, and no guard or
assignment to the other variables reads them: `before` is the Runtime when the
transaction began, `trail` the Runtime before each entry of the undo log.

- *Mutex.* `txn.step # "idle"` means that a batch or one step of the check
  sweeper holds it. Actions that need it have the guard `txn.step = "idle"`;
  actions that only touch the database do not. `ApplyObservedResult` handles
  one result of the batch, `PersistMonitoringBatch` is the transaction,
  `RollbackObservedResult` undoes one entry.
- *Faults.* `commit_fails` rolls back in the database; `commit_unknown` commits
  and reports an error. An error of the lookup in `SweepChecks` has the effect
  of the first. `Crash` clears everything that is not a table.
- *Time.* Deadlines are the number of ticks left. `NoTime` is Go's zero time.
  `Tick` does not run inside a critical section: no code reads the clock there.
  It does not run between `LoadRuntime` and the first sweep either, which use
  the clock once.
- *Abstractions.* A streak is not told apart beyond `StreakCap`; the code only
  compares it with 2. Error texts, targets and payloads are left out, except the
  two counts that an alert carries. `normalizeCheckStateWrite`, which stores a
  zero deadline as the time of the last result, is `StoredState`. Looking up
  the checks of an upload is one step: results of checks that are deleted are
  dropped, so an upload whose lookups straddle a delete is a shorter upload.
- *Credentials.* The secret of a new credential is returned after `AddProbe`,
  so nothing can use the row before; insert and `AddProbe` are one action. The
  property `ProbesKnown` shows that the error path for a probe outside the
  Runtime is never taken.

### Notifications

A row's `timer` is the time until `next_attempt_at`, or until the claim is
stale. `Claim` is the `UPDATE ... FOR UPDATE SKIP LOCKED` statement (the code
claims one row at a time), `Send` the HTTP call, `MarkDelivered` and `MarkRetry`
the statements after it. `HoldLimit` bounds how long a worker takes from claim to
mark. In the code the HTTP client gives up after 5 s and a claim is stale after
20 s: `HoldLimit < StaleAfter` is the normal case, `HoldLimit >= StaleAfter` a
stalled process or database. `MarkFails` is a mark that returns an error.

### CheckRows and RowLocks

The other modules take `PersistMonitoringBatch` and `DeleteCheck` as single steps.
`RowLocks` justifies it for the rows of one check. `CheckRows` has the rows (`db`) and
what each transaction does to them in one step; `RowLocks` has the statements, and
`ImplementsRows` says that it implements `CheckRows`, a transaction being the step of
its commit and everything before it a stutter. The abstract `DeleteCheck` says what
the locks cannot promise: it takes back every down alert and resolves every incident,
but may miss an up notification that a result commits after the statement that looks
for them. In `RowLocks`, `db` is what is committed, and a
transaction in `tx` has its statement, its locks and its uncommitted rows. An
UPDATE is two actions: it finds its rows (`Scan...`), then waits until they are
free and writes those that still match. Postgres is external: READ COMMITTED, row
locks, the KEY SHARE lock of a foreign key, `SKIP LOCKED`, and the error for one of
two transactions that wait for each other. The Runtime's mutex allows one ingesting
transaction at a time; the state rows of the check are one row. The check's row is
written when it is locked, as the transaction keeps that lock to its end.

### ResultBatcher and Uploads

Results are numbered. An upload ends in one of four ways: accepted, rejected for
good (dropped), failed before the server processed it, or processed with the
answer lost; the last two are retried.

`Uploads` adds the server's side for one check and one probe. `Receive` is
`handleResult` up to the Runtime's mutex, `Lock`, `ApplyResult`, `Persist` and
`Rollback` are `applyObservedResultBatch`, one result per step. `Upload` is the
batcher's step after the upload, with an answer that the server's progress allows.
The client gives up after `DefaultRequestTimeout`, but the handler looks at no
context: it goes on, holding a batch that the probe puts back and sends again.
`current` is the handler the probe waits for, so every other busy one is such an
orphan. `outcome` is what the probe measures, `exec` the CheckMachine and `before` what
a rollback restores; `processed` and `overtaken` are histories.

### Scheduler

`table` is the server's `checks`, `fetched` the list of the latest `FetchChecks`,
`running` the scheduler's map and `workers` the goroutines. `Reconcile` cancels
the workers of removed and changed checks and starts new ones without waiting for the
old; a cancelled worker ends only when its `select` takes `ctx.Done`. A definition
(type, target, interval) is a model value. `Close` is never called:
`checkSyncLoop` does not return. `MaxWorkers` bounds the goroutines alive; the
instance has as many as edits, so that `Reconcile` is not held up.

### Signup

A call takes its time (`now`) when it starts, then reads its row with
`SELECT ... FOR UPDATE`, then decides, writes and commits in one step; in between
others may hold the row and the clock may go on. A row keeps the one time that is
compared with now. The refinement maps a row to its status and its time, the
approvals to offers, the used tokens to taken offers, and each call to the token that it
has brought in time:

    Ledger == INSTANCE SignupLedger WITH
      Holders <- Calls, bid <- [c |-> Presented(c)],
      status <- [e |-> row[e].status], wait <- [e |-> row[e].until],
      offers <- approvals, taken <- used

Reads and waits are stutters; each transaction is one step of the ledger or a
stutter. `SetupPassword` compares the expiry with the time at which the call began, so
its commit may come after the token has expired. The ledger says so: a token is presented
(`Present`) before its time is over, by the start of the call, and accepted (`Accept`) or
withdrawn later. A call that begins after the token has expired presents nothing, and the
ledger accepts nothing from it.

### Startup

`boot` says which loop of `main` runs and `todo` what is left of it. `SeedProbes` and
`SeedChecks` have no transaction, so `Crash` may come between any two entries. The
configuration may change at every start. Requests that change what the next start
finds (credentials, the password, checks) run while the server is up. `Monitoring`
begins where this module's `Load` ends.

## 3. Runs

| Run | Instance | Shows |
|---|---|---|
| `quorum` | 1 check, 3 probes | `AlertsNeedMajority`, `PromotionRepeats` while probes join and report in any order; liveness: `OutageDetected` |
| `lifecycle` | 1 check, 1 probe, batches of 2, create, delete, time, commit faults, crash | `TypeOK`, `NoIncidentForDeletedCheck`, `IncidentAgreement`, `RecoveryRowsCurrent`, `RollbackRestores` |
| `freshness` | 1 check, 1 probe that is created through the API and registers, time, crash | `ProbesKnown`, `StateMatchesVotes` under both sweepers; liveness: `ExpiredEvidenceLeaves`, `SilentProbeGoesOffline` |
| `lost_alert` | 1 check, 3 probes, time, heartbeats | violated: see below |
| `notifications` | 2 workers, 1 incident, claims that go stale, crash, delete, failed marks | `TypeOK`, `NoLiveDownAfterRecovery`, `NoDuplicateSends`, `FinalStatesStay`; liveness: `NotificationsSettle` |
| `batcher` | 5 results, queue of 4, batches of 2, every answer | `NoHoleInQueue`, `FullBatchIsSignalled`, `UploadsInOrder`; liveness: `ResultsLeave`, `CloseReturns` |
| `uploads` | 3 results, queue and batches of 2, 2 handlers, every answer | `UploadsTypeOK`, `EvidenceIsNewest` |
| `uploads_twice` | 5 results, 1 handler, lost answers | violated: see below |
| `row_locks` | 1 ingesting transaction, 1 delete at a time, 2 incidents | `TypeOK` (no row is written without its lock), `NoIncidentForDeletedCheck`, `NoDownAlertForDeletedCheck`; refinement: `ImplementsRows`; liveness: `TransactionsEnd` |
| `signup` | 1 email, 3 calls, 2 tokens, 5 moments | `TypeOK`, `ApprovalStands`, `OneSessionPerSignup`; refinement: `ImplementsLedger` |
| `scheduler` | 1 check, 4 edits, 1 restart of the probe | `TypeOK`, `OneWorkerPerCheck`; liveness: `ProbeCatchesUp` |
| `startup` | 2 probes, 2 checks, 3 starts, 5 configurations | `TypeOK`, `ConfigDecidesProbes`, `RuntimeMatchesTable`, `ConfiguredChecksServed` |

Why the bounds are enough. Checks share nothing but the mutex, so one check
shows the machines' behaviour; the proofs cover any number. Three probes give a
majority against one, a tie while only two have joined, and every order of joining;
three are also the smallest number for which losing a probe's vote can repeat a
majority against it. Two results in one batch reach the same (check, probe) pair
twice, which is what the order of the rollback is about. Lifetimes of one tick let
each deadline pass before or after every other event. Five results overflow the
queue of four, both by `Enqueue` and by a requeue in front of three. Two handlers and
three results let an orphan and the upload that replaces it hold different batches and
take the mutex in either order. A claim is stale
after two ticks and a worker may hold it for three: marks come before and after
another worker has taken the row over. `AttemptCap` is large enough for the backoff to
reach its limit (an assumption that TLC evaluates). Three signup calls are one that
holds the row and two that wait with old times; the clock outlasts a token and a retry
window. Four edits with two definitions change a check and change it back while
an old worker is alive. Three starts are one that leaves something, one that dies
over it and one that must cope. With two incidents a result meets the open incident of
an earlier one (the conflict of the INSERT), and an outage follows a recovery. Some
larger instances are too slow for liveness or for every run, and have been explored for
safety: `row_locks` with two deletes at a time (215 415 states up to symmetry), the votes
of two probes under results, both sweepers, failed commits and crashes
(`StateMatchesVotes`, 1 918 153 states), and `scheduler` with two checks.

`NoDuplicateSends` excepts rows whose claim was once not marked in time. For those two
workers may send the same webhook; delivery is at least once, and the code does
not claim more. For the same reason `NotificationsSettle` assumes that marks which come
too late end one day: a late success mark does nothing to a row that another worker
has put back to retrying, so two workers that always overtake each other would never
finish. The code rules this out by a client timeout of 5 s against a staleness of 20 s.

### The disagreement that `lost_alert` shows

`SweepProbes` clears the votes of a silent probe and recomputes its quorums in
memory (`internal/monitoring/sweepers.go:71`). A recompute promotes a state that
the aggregate already had, so the sweep itself can complete a transition from up to
down or from down to up. It writes nothing: there is no incident and no
webhook, and no later result makes up for them, because it sees no transition any
more. The documentation says "Webhook alerts fire on stable state transitions"
(`docs-site/docs/wacht/alerts-and-quorum.md:89`). `IncidentAgreement` is the
same claim with that case, and the commit that reports an error, excluded by
`drifted`; it holds.

### The disagreement that `uploads_twice` shows

"A probe contributes a down vote only after two consecutive down results for a
check" (`alerts-and-quorum.md:56`). `flushOne` uploads a batch again when its answer
was lost (`cmd/wacht-probe/result_batcher.go:133`), results carry no identity, and
the server counts the second copy: one down result becomes a down vote. The order of
the evidence survives a lost answer (`EvidenceIsNewest`), its count does not.

### Observations

Not stated as runs:

- A handler whose client has given up may take the mutex after the upload that
  replaced it. Then the evidence is that of an older result, with a new deadline,
  until the next upload is processed. The code keeps no number of a result and
  promises nothing here; `EvidenceIsNewest` excepts this case (`overtaken`), and TLC
  finds it when the exception is taken away.
- The comment on `SweepChecks` says that only incident side effects are persisted,
  and the code also writes the recovery row.
- Evidence cleared by `SweepProbes` stays in its row, so a restart brings the
  vote back until it expires.
- A restart keeps a stable `down` but not a stable `up`, so a check that goes down
  right after a restart opens no incident.
- `SeedProbes` returns early for an empty list (`internal/store/probes.go:55`), so the
  probes of the previous configuration keep authenticating although `main.go:56` logs
  that all requests will be rejected. `ConfigDecidesProbes` excepts the empty list.
- `main` finds the owner of the seeded checks by logging in with the configured password
  (`cmd/wacht-server/main.go:73`). After the user has changed it, the next start inserts
  every configured check again with owner 0, and both copies run, although
  `internal/store/store.go:154` says that existing checks are left unchanged. In
  `Startup` this is a check whose owners are `{"user", "nobody"}`;
  `ConfiguredChecksServed` asks for the user's own check only while the password is the
  configured one.
- `UpdateUserPassword` compares and replaces the hash in two statements; of two
  concurrent changes that verified the same password the later one stands.
- A recovery that commits between the notification UPDATE of `DeleteCheck` and its
  commit leaves an *up* notification for the deleted check;
  `NoDownAlertForDeletedCheck` is about down alerts only.

## 4. Fairness

- Go runs a goroutine that can run: weak fairness of every step inside a handler
  and of the batcher's loop.
- The sweep loops tick for ever and `sync.RWMutex` does not starve a waiting
  writer, while the condition they look for may come and go: strong fairness per
  probe and per assignment.
- `Crash`, the faults and the requests are never fair. After a crash the server is
  started again (`LoadRuntime`, `Serve`).
- `ReportingSpec`, for `OutageDetected` only, adds what the probes contribute: each
  keeps reporting the check down and its uploads reach the mutex.
- Notifications: time passes, the HTTP client has a timeout, rows are claimed
  oldest first (strong fairness per row), and a receiver that is tried for ever
  accepts one day.
- Batcher: a `select` with several ready cases picks one at random, so `stop` is
  strongly fair. `Enqueue` and `Close` are not fair.
- `ReportingSpec` leaves the sweepers out: `OutageDetected` does not rest on them.
- Row locks: those who wait for a row are served in turn (strong fairness of each
  transaction's statements), and Postgres looks for deadlocks. Nobody has to start a
  transaction.
- Scheduler: the server answers again and again, a probe that ended is started again
  (`restart: unless-stopped`), a run of a check has a timeout, and `select` takes
  `ctx.Done` one day (strong).

## 5. Proofs

Each theorem holds for every value of the constants that satisfies the named
assumption of its module: positive lifetimes and sizes, finite sets of probes and
checks, a streak cap of at least the threshold, different names for different
things. The number of checks, probes, workers, calls, incidents, deletes and
configurations is arbitrary. Every invariant below was first checked with TLC, as
an invariant of the runs' instances; most properties are not inductive, and the
text says what had to be added and why.

### Monitoring (`MonitoringProofs`, `IncidentProofs`)

- `TypeCorrect`: `Spec => []TypeOK`. One step per action; the lemmas say that the
  operators of `QuorumMachine`, the writes and the rows keep their types.
- `ProvisionedProbesKnown`: `Spec => []ProbesKnown`.
- `VotesInvariant`: `Spec => []VotesInv`, from which `StatesMatchVotes`,
  `AlertsHaveMajority`, `RollbacksRestore` and `PromotionsRepeat` follow.
- `IncidentInvariant`: `Spec => []IncidentInv`, from which
  `IncidentAgreementHolds` and `DeletedChecksHaveNoIncident` follow.
- `RowsStayCurrent`: `Spec => []RecoveryRowsCurrent`, from the two invariants and
  `RowsInv`.

`StateMatchesVotes` is not inductive because of the rollback, which puts old states
back without recomputing them: it is right only if the old states were. `VotesInv`
therefore speaks of the Runtime and of every element of `trail`:

- `MemoryOK(m)`: in the Runtime `m` each check shows the state its votes give; a
  check outside the map has no state; evidence belongs to assigned probes, and the
  state of a CheckMachine is its vote (`EvidenceOK`, also of rows and writes).
- `TrailInv`: undoing entry `i` of the log leads to `trail[i]`, and the first
  element of the trail is `before`. `RollbackRestores` is what is left of it when
  the log is empty.
- `AlertsNeedMajority` itself. `AggregateFacts` says which counts give which
  state, for any finite set of probes; `ThresholdGrows` and `JoiningBringsNoState`
  that a probe without evidence only raises the threshold. A first result
  recomputes twice (the probe joins, then its outcome counts), and these two lemmas
  show that the first recompute opens nothing that the second, whose counts the
  alert carries, does not justify. They also give `PromotionRepeats`.
- `SameVotesSameState` covers the passing of time: deadlines do not vote until a
  sweep removes the evidence.

`IncidentAgreement` speaks of states between transactions and is not inductive: a
commit must know that the prepared writes describe what the Runtime did, and a
rollback that the undo log leads back to where the transaction began.
`IncidentInv` adds this:

- `MachineInv`: an incident flag implies a stable state of down; a check that
  the Runtime does not know has no state. `EffectIsFlagChange` then shows that
  the effect computed from the stable states before and after one or two
  recomputes is exactly the change of the flag.
- `LifecycleInv`: no handler, upload or write refers to a check that was never
  created; `RemoveCheck` is for deleted checks; no deleted check has an incident.
- `UndoInv`: the first entry of the log for a check holds the quorum from when
  the transaction began, and a check without an entry is unchanged.
- `AgreementInv`: between transactions the flag agrees with the table; during
  one, the flag from before it does, and the last incident write of each check
  gives the current flag.

`RowsInv` is the same argument for rows: between transactions the row of a pair
holds its evidence, during one it holds the evidence from `before`, and the last
prepared write of the pair holds the current one. A commit needs the last clause, a
rollback the second with `RollbackRestores`. That `normalizeCheckStateWrite` changes
nothing that was observed needs the deadline in `EvidenceOK`.

### RowLocks (`RowLocksProofs`)

`RowLocksTypes`, `NoIncidentAfterDelete` and `NoDownAlertAfterDelete`, for any
number of deletes and incidents (the run has one delete at a time and two incidents). The
properties speak of committed rows; the invariant `RowLocksInv` says what the
transactions on their way will do to them. The argument:

- a delete that holds the check has found every live down notification and every
  open incident, and has written those it is past (`DeleteProgress`). The sets it
  has to cover only shrink meanwhile: no claim passes the lock on the check, no mark
  revives a notification, and a result that would add an incident or a down
  notification commits only with a lock on the check (`IngestOK`);
- opening an incident reads `deleted_at` long before it locks the check, so a delete
  could commit in between. It cannot: a result holds the state row from its first
  statement on. If that row existed, the delete must take it as well and waits; if it
  did not, the result's insert has locked the check already. So at the commit of
  a delete no result is past its first statement (`CommitDeleteKeeps`).

For this, which rows are locked exclusively need not be known beyond the check and the
state row (`LocksExclude`).

`TransactionsAreAtomic`: `Spec => ImplementsRows`. The step of a commit must be one that
`CheckRows` allows in the rows as they are then, not as the statements found them.
`AtomicInv` says that the two agree where it matters:

- what a transaction has written is what it has locked (`LocksAreWrites`), and no two
  have locked the same row (`RowsExclude`);
- `IngestWrites` gives what a result has written, statement by statement, and with it
  what is still true of the committed rows: the incident it opens does not exist and no
  other is open; the one it resolves is open; at its commit the down notification it
  has locked is the one that has to be taken back, if there is one. A mark that comes
  between the UPDATE's look and its lock is seen by the second condition on the state,
  and one that comes later finds the row locked or delivered (`NoteMovesAtomic`);
- `DeleteWrites` is the same for deletes, with `DeleteProgress` for what must not be
  missed;
- `IncidentRows`: one incident is open at most, and a notification comes after its
  incident. Without it a result could insert a notification over one that is there.

`IncidentRows` is an invariant of `CheckRows`. `RowsStepKeeps` proves it once for the
abstract steps, and `StepsRefine` carries it to the statements.

### Notifications (`NotificationsProofs`)

`NotificationsTypes`, `RecoveryEndsDown`, `SendsOnce`, and the action property
`FinalRowsStay`. `NotificationsInv` relates every row to the incident it belongs to
(`RowOK`) and to the workers that hold a claim of it (`ClaimOK`, `Holding`): a row with
a claim in time is held by one worker, which is what a late mark or a second
claim would have to break.

### Uploads (`UploadsProofs`)

Of the batcher alone (`Spec`): `BatcherInvariant`, and from it `BatcherTypes`,
`QueueHasNoHole`, `FullBatchSignalled` and the action property `UploadsStayInOrder`.
`BatcherInv` gives the queue and the batch by their numbers: the queue is the last
`Len(pending)` results, the batch a run before it that touches it while the queue has
room. `NextEnd` is where the batch on its way ends or, without one, the batch that would
be taken next. It never moves back (`EnqueueBound`, `TakeBatchBound`,
`PostResultsBound`): a requeue keeps it because `takeBatch` then takes at least as much
as before, also after trimming. `NewestBound`, `newest <= NextEnd`, is what the order
of the uploads needs.

Of the composition: `UploadsImplementsBatcher` (`UploadsSpec => Spec`: the server adds
nothing to what the batcher can do), `ServerInvariant`, `UploadsTypes` and
`EvidenceStaysNewest`. `EvidenceIsNewest` speaks of the moments between two batches; while
a handler holds the mutex, `ServerInv` says the same of `before`, which a rollback brings
back, and that the evidence is the result applied last (`HandlerOK`). Whatever a
handler holds or the server has processed is at most `NextEnd`, orphans included. The
upload that the probe waits for has the batch on its way (`CurrentOK`), which ends at
`NextEnd`: so its last result is the newest of all when it is persisted. Since a batch is
applied one result per step, this needs no induction over the batch.

### Scheduler (`SchedulerProofs`)

`SchedulerTypes` and `WorkersOnce`. `OneWorkerPerCheck` needs `PointsToWorker`: what the
scheduler's map points at is alive and works on that check; otherwise a slot that
was freed and taken again could be cancelled for another check. The proof also shows that
`Placement` exists wherever `Reconcile` is enabled (an injection between finite
sets).

### Signup (`SignupProofs`)

`SignupTypes`, `TokensStand`, `SessionsOnce`, and `SignupImplementsLedger`: the initial
states map to those of `SignupLedger`, and every step to a step of it or to a stutter
(`RowCases`: a step opens, declines, offers or accepts one row, or leaves all alone; and
`CallCases`: one that leaves the rows alone at most brings or withdraws one token). That
the accepted token was presented in time follows from the expiry in the approval being the
one in the row, which the call has read under its lock.
`SignupInv` says that what a call has read under its lock is still the row (`CallInv`) and
that each token belongs to the approval it was made for (`TokenInv`).

### Startup (`StartupProofs`)

`StartupTypes`, `ConfigurationDecides`, `RuntimeCounts`, and the action property
`ChecksServed`. `StartupInv` says for every loop of `main` what is done already and what is
still in `todo` (`ProbesInv`, `ChecksInv`), so that a crash between two entries loses
nothing the next start does not do again. That the checks get their owner needs, besides,
that no request changes the password between the statement that looks for the owner and
the end of the start.

### Only model-checked

- The liveness properties: fairness and `ENABLED` are outside the prover's reach.
- The two properties that a run violates.

## 6. Not modelled, and the plan

Not modelled:

- network I/O of the checks, configuration parsing, address policy, logging, wire
  formats, request decoding, the mock and the web interface: no state of the system;
- the status views: two reads, of the store and of the Runtime, that change nothing,
  and no promise that they show the same moment;
- login, logout and session lookup: single statements on `sessions` that no rule
  relates to each other;
- the rate limiter: one critical section on a counter and its deadline;
- `MarkError` of the CheckMachine, which only tests call; migrations.

Every safety property that a passing run checks is proved, for every value of the
constants.
