# Verification of agent_control

`agent_control` is a TypeScript service that collects Microsoft 365 agent and package
inventories from Microsoft Graph and Power Platform, publishes them in PostgreSQL as
immutable generations, and changes them on behalf of signed-in administrators (blocking
packages, quarantining Copilot Studio agents). The hard part is neither the reads nor the
writes. It is the durable protocols around them: leases that expire under live workers,
processes that die between two transactions, writes whose answer is lost, sign-outs that
race with work in flight, and several of these processes on one database. This directory
models those protocols in TLA+, checks them with TLC and proves invariants with TLAPS.

All paths below are relative to `src/backend/src`.

## 1. Inventory

| Component | Code | State | Operations | What must hold |
|---|---|---|---|---|
| Package mutation jobs | `db/jobs.ts`, `services/bulkJobs.ts` | tables `jobs`, `job_items`, `job_attempts`; process map of running jobs; advisory lock per package | submit, claim, begin, mark sent, finish, release, pause, cancel, reconcile, recover | one write per item, no outcome that denies a write, no lost update between jobs, nothing unsent goes out after a cancel, a sign-out stops the workers of its process at once and others where they next mark a write, every job settles |
| Data generations | `db/dataGenerations.ts`, triggers of `db/currentSchema.ts` | `data_generations`, `data_generation_heads`, `data_scope_epochs`, `data_principal_epochs` | begin, renew, append, observe, validate, publish, abort, invalidate, revoke | readers see only complete generations; a fenced writer never publishes; several scopes publish atomically; heads advance by one |
| Generation admission | `db/generationAdmission.ts` | in-process queue per pool | admit, pump, expire, abort | every request answers once; an admitted lease is never orphaned |
| Data sync coordinator | `services/dataSync.ts`, `db/dataSync.ts` | `data_sync_runs`, sources, links to child jobs; in-process workers, admissions and trackers of children | start, refresh when due, retry, track, settle, cancel, sign out, read status, recover | one account's run at a time; a closed run has settled sources; what is saved was published; a stop that answers has stopped the work |
| Inventory generations | `db/inventoryGenerations.ts`, `services/inventoryReconciliation.ts`, `services/inventoryRuntime.ts` | `inventory_roots`, memberships and changes by revision; `inventory_reconciliation` with its keys, pins and frontier; pending controls; authorities of signed-in accounts | request, claim, derive, publish, fail, take over, fence, read back, collect | each row of the inputs is published once, as it is, next to all that it matches; nothing fenced is published; collection spares what is read; the last change gets in |
| User sources | `db/userSources.ts`, `db/userSourceStages.ts`, `services/userSourceProvider.ts` | staged pages and continuation | start, stage page, resume, publish | a resumed collection neither skips nor repeats a page |
| Copilot Studio quarantine jobs | `db/copilotStudioQuarantine.ts`, `services/copilotStudioQuarantineJobs.ts` | its own jobs and items; process map of active jobs; advisory lock per target | submit, launch, claim, begin, mark sent, finish, pause, cancel, reconcile, recover, drain | one write at a time per target, also across jobs; no outcome or evidence that denies a write; recovery finds every item left running |
| Mutation canaries | `db/packageMutationQualifications.ts`, `db/copilotStudioQuarantineCanaries.ts` | one row per canary | start, write, undo, recover | a canary's write is undone or reported |
| Refresh jobs | `db/packageRefreshJobs.ts`, `services/packageInventory.ts`, `db/powerPlatformRefreshJobs.ts`, `services/powerPlatformInventory.ts` | job rows with deadlines; in-process executions with their abort controllers | submit, start, publish, cancel, resume, recover | results of a cancelled or lapsed one are not published; who waits for one hears of its end |
| Official report imports | `db/officialReportImports.ts` | upload session, parts | create, put part, publish, expire | published reports are complete uploads |
| Reads and exports | `services/dataSelections.ts`, `services/dataExports.ts`, `db/inventorySelections.ts` | pinned selections, cursors, export slots | select, page, export | a page sequence reads one generation |
| Audit and hunting searches | `services/purviewAudit.ts`, `services/defenderHunting.ts` | search jobs | submit, poll, collect, cancel | no second provider search for one job |
| Sessions and authority | `db/sessions.ts`, `auth/*` | in-memory generations, `data_principal_epochs`, per-account queue | sign-in, sign-out, refresh | after a sign-out nothing acts with the old session in the process that handled it |
| Pools | `db/boundedPool.ts`, `db/dataConnections.ts` | waiters, in-use connections | acquire, abort, release | a connection is returned once, a waiter answers once |
| Operational state | `services/operationalState.ts`, `services/maintenance.ts`, `server.ts` | mode row, in-process flags | enter and leave maintenance, recover, drain | no admission after maintenance begins |

Components meet in three ways. They share rows: reconciliation and recovery update the job
a worker leases; inventory generations read heads that data generations publish. They share
PostgreSQL advisory locks: a worker and a reconciler take the same lock of a package; sync,
reports and inventories take locks per scope and principal. And they call back: a sign-out
calls every component's cleanup, the 30 second timer of `server.ts` calls recovery.

What is hard to test here: the interleavings of transactions of several processes (tests run
one at a time against one database), commits whose acknowledgement is lost, an abort that
leaves a request on the wire, expiry of leases and deadlines in the middle of anything, and
the state after each of these followed by a resume or a recovery. `PROJECT.json` lists each
such hazard at its line.

## 2. Plan

Order of work; a module is started when the one before it is checked.

1. `PackageJobs` with `PackageJobsProofs` and `PackageOutcomeProofs`: the durable mutation job.
   Done (section 3).
2. `PublishedHeads` and `DataGenerations`: what readers are promised (a head moves from one
   complete generation to the next, one revision at a time, never to a generation of a fenced
   writer) and the protocol that provides it, shown to implement it by a refinement mapping.
   Done, with `DataGenerationsProofs` and `GenerationOutcomeProofs` (section 4).
3. `RefreshJobs` and `DataSync`: the jobs that collect one source, and the coordinator that
   submits, tracks and stops them, composed in one specification. Done, with `DataSyncProofs`
   (section 5).
4. `QuarantineJobs` with `QuarantineJobsProofs`: the questions of `PackageJobs`, asked of a
   protocol with a lock per target and jobs that meet on one. Done (section 6).
5. `InventoryReconciliation`: how the canonical inventory is derived incrementally from
   sources that move, are fenced and are collected. Done, with `InventoryReconciliationProofs`
   and `InventoryDerivationProofs` (section 7).
6. `GenerationAdmission` and `AccountQueue`: two in-process queues, with liveness.
7. `BoundedPool` and `Maintenance`, then user sources, imports, searches and exports.

Every safety property of these modules is proved; the liveness properties stay with TLC.

## 3. Package mutation jobs

### Model

`PackageJobs.tla` has the rows of the three tables as functions over jobs and items, the
provider's state of each package, the lock of each package, the principal's session generation
in each process and epoch in the database, and the locals of each worker (`runBulkJob`) and reconciler (`reconcileBulkJob`). One
action is one transaction, one provider call, or one exit.

| Code | Action |
|---|---|
| `submit`, `cancel` | `Submit`, `Cancel` |
| `launchBulkJob`, resume route | `Launch(w, j, resume)` |
| `waitForAuthorization` | `AuthorizationFails` |
| `claim` | `Claim`, `ClaimRefused` |
| `beginItem` | `BeginItem`, `BeginItemExpired` |
| `withTargetLock`, its `finally` | `TakeTargetLock`, `Unlock` within the steps that leave it |
| reads before dispatch | `ReadBefore`, `ReadImmediate` |
| `markSent` | `MarkSent` |
| block, unblock, patch | `Post`; its effect is `WriteLands` or `WriteIsLost`, any time later |
| verification readbacks | `Verify` |
| `finishAuthorized`, `finishItem` | `FinishAuthorized`, `FinishFailed` |
| the catch block | `ItemFails`, then `PauseItem`, `FinishFailed`, `CatchRefused` or `LeaseLost` |
| `release`, `pauseForAuthorization` | `Release` |
| `reconcileBulkJob`, `recordReconciliation` | `ReconcileLock`, `ReconcileRead`, `RecordReconciliation`, `ReconcileFails` |
| `recover` from timer, startup and resume | `Recover(j, includeQueued, batch)` |
| sign-out | `RevokeSession`, `PauseQueuedJobs`, `RevokeEpoch` |
| process death | `Crash` |

`lease_until` is a flag that `LeaseExpires` clears, `deadline_at` one that `DeadlinePasses`
sets: comparisons with the clock only ever change in that direction until the next claim.
`job_attempts` is a function from lease version to outcome. An acknowledgement that gets lost
(`ack = FALSE`) commits the row and leaves the worker in its error path. A batch of recovery
is any subset of the candidates, because the code bounds batches by bytes and time.

A sign-out is heard at two different times. Session generations are a map of each process
(`db/sessions.ts:82`): `RevokeSession(h)` moves the generation of the process that handles the
sign-out and of no other, so `Signed(w)`, which a worker checks before each step at the
provider, only knows sign-outs of its own process. The cleanup queued there parks queued jobs
(`PauseQueuedJobs(h)`) and moves the epoch (`RevokeEpoch(h)`, which may fail), and workers of any
process compare the epoch they claimed under with it in `markSent`. A worker of another process
that is past `markSent` therefore still writes its item. `wbarred` is a history variable: for
each worker, the items that a sign-out since its launch has put out of its reach.

Left out: the recovery of canary jobs inside the same tables, the publication of observed
controls into the saved catalogue (its failure is: a worker may stop after `FinishAuthorized`),
request validation, and paging of job reads. The ordinary renewal of a lease is the absence
of `LeaseExpires`: a worker renews far more often than the lease lasts, and the model lets
the lease expire under it at any time, which is weaker.

### Runs

| Run | Instance | Shows |
|---|---|---|
| `package_shared` | two jobs that each replace the principals one package is available to (at first nobody) by their own, in one process, one expiry per claim, any two of: edit, lock loss, crash | `NoLostUpdate` |
| `package_takeover` | one job of two packages, two processes, two attempts, a sign-out at any step | `TypeOK`, `AtMostOnceDispatch`, `RunningAttemptIsCurrent`, `NoWriteAfterSignOut` |
| `package_outcomes` | a worker and a reconciler of one job of two packages, lost acknowledgements, crashes, cancel, deadline, late writes | `HonestOutcome`, `CancelStopsUnsentWork`, `OutcomesAreFinal` |
| `package_settle` | two jobs under a limit of one, the first of which can become partial with work left; fair clock and recovery timer | `OutstandingWithinLimit`, `EveryJobSettles` |
| `package_stuck` | a reconciliation between two items of a leased job, then a resume | a counterexample to `EveryJobSettles` |

Bounds: `MaxAttempts` is 1 or 2 where the code has 10, `MaxOutstanding` 1 where the limit is the
question (5 in the code), `MaxFaults` 0, 1 or 2 of crashes, lost acknowledgements, lost lock
connections, edits and sign-outs together. Two attempts are enough for a stale worker to meet
its successor, which is the only way leases interact: a third version differs from the
current one exactly as the first does. Two items make an item that runs and one that waits;
the third in `package_stuck` is the one that keeps the job resumable. `package_settle` starts
(`OpenPackages`) with all packages open: which of its two jobs has work to do is then fixed, and the
other initial states only exchange block and unblock. `package_shared` and
`package_takeover` use symmetry: workers of one process are interchangeable, and so are two workers
together with their processes and two jobs together with their items and effects; no choice in the
model tells them apart, and neither run checks liveness. `Disruptions` names the
kinds an instance explores; every kind is explored by some run. Deadlock checking is off
because all jobs may be over.

### Fairness

`EveryJobSettles` assumes that leases that are not renewed expire, that deadlines pass, and
that the timer of `server.ts` calls `recover` without `includeQueued` for every job. It assumes
nothing of workers, requests, reconcilers or the provider: the claim is that a job settles
even if its worker is gone and its owner never comes back. Expiry is fair although a live
worker renews: the claim is about work whose worker is no longer there, and the item and job
deadlines bound the others.

### Findings

`package_stuck` finds an execution in which a job never settles. It has two causes.

* `recordReconciliation` (`db/jobs.ts:579`) stores the aggregate status of a job without regard to
  its lease. `aggregate` returns `running` only while an item runs, so a reconciliation that
  lands between two items of a leased job stores `partial` over `running`. The item begun next
  runs in a job that the recovery query does not select before the deadline. The test
  `db/jobs.test.ts:214` "keeps an active attempt recoverable during $status reconciliation"
  covers the case where the attempt began first.
* If the lease of such a job lapses, resume claims it again over the running item and raises
  `lease_version`. Recovery (`db/jobs.ts:658`) then completes an audit event that was never
  started, `completeEvent` throws (`services/auditLog.ts:51`), the transaction rolls back, and
  so does every later one: the item runs for ever. `db/jobs.test.ts:20` says that recovery
  "eventually settles every item".

In instances without a reconciler the property holds (`package_settle`).

### Proofs

`PackageJobsProofs.tla` proves, for all values of the constants that satisfy `PackageAssumption`
(foreign keys are functions, `None` is nobody's name, workers are not reconcilers):

* `TypeCorrectness`: `Spec => []TypeOK`. `TypeOK` alone is not inductive. `LocalsSet` and `RitemSet`
  add that a worker or reconciler past the steps that set its locals has them set, and
  `PrestateSet` that a prestate is recorded for whatever was submitted or written.
* `DispatchAtMostOnce`: `Spec => []AtMostOnceDispatch`. `DispatchInv` adds that whatever was
  written is marked, that a worker about to write has marked an item that is not written, and
  that no two such workers have one item. Every action but `MarkSent` and `Post` satisfies
  `Undisturbed`, from which one lemma gives the invariant; the two get a lemma each. The proof
  uses neither leases nor locks: `sent_at`, checked and set in one transaction and never
  cleared, is what prevents a second write.

`PackageOutcomeProofs.tla` proves the other safety properties from there. `StepKinds` splits
the steps in two: a `Passive` one, in which at most rows move on and workers only leave, and an `Active`
one, in which one worker takes one step under its lease; most parts of the invariant are kept by the passive
ones as a whole.

* `OutcomesAreHonest`, `OutcomesStayFinal`, `CancelledWorkIsNotSent`: `HonestOutcome`,
  `OutcomesAreFinal`, `CancelStopsUnsentWork`. The invariant is `OutcomeInv`. `BoundInv` and `LeaseInv`
  say that a worker knows a version that was claimed, and that no two workers know the same one of a job: this is what makes
  `lease_version` in the WHERE clause of every update a proof of ownership. `SentInv` says that
  whoever holds the lease of a running item knows whether the item was sent, or may have been.
  `SettledInv` says which outcomes an item that was sent may have.
* `SignOutStopsWrites`: `NoWriteAfterSignOut`, by `BarredInv`. A worker writes nothing after a sign-out that its own
  process handled, and after one of another process, once the epoch has moved, only what was marked sent before. The
  invariant says that a worker with something barred which its own process would still let go on has claimed its job
  under an epoch older than the stored one, so `markSent` refuses it, and that it is not about to write a barred item.
  The property says no more than the code provides: a worker of another process that was launched before the sign-out
  and claims its job after it captures the new epoch and is not stopped.
* `NoUpdateLost`: `NoLostUpdate`. By `LockInv` a worker under the package lock holds it unless its connection
  died, so between the read that confirms the prestate and the write nobody else under that lock
  changes the package (`EnvMove`). The property excepts workers that lost the lock and those in `disturbed`, whose
  package was changed since their last read by someone outside of the system or by a write that lands late.
* `OutstandingIsLimited`: `OutstandingWithinLimit`, by `LimitInv`, which counts the jobs with work left. Jobs need
  not be finite in number; those submitted are.
* `RunningAttemptsAreCurrent`: `RunningAttemptIsCurrent` under the hypothesis `Reconcilers = {}`, by `LeasedInv`. The hypothesis
  is needed for every number of steps: the second cause of the `package_stuck` finding is a job claimed again over a
  running item, which is a violation. The instance of `package_takeover` has no reconciler either.

Only `EveryJobSettles` stays with TLC: liveness under fairness is out of the prover's reach.

## 4. Data generations

### Model

`DataGenerations.tla` has the rows of `data_generations` as functions over generations (a row's
writer and scope are constants, `WriterOf` and `ScopeOf`), the epoch and head of each scope, the
epoch of each principal, the run or refresh job of each writer, and the locals of each writer:
either an `execute()` of `db/dataGenerations.ts` (in `Managed`) or the `reconcile()` of
`db/officeAppAdoption.ts`, which derives a pair of generations with one job.

| Code | Action |
|---|---|
| request of a collection, `vector` of a derivation | `Start` |
| `admitGeneration` without success | `LeaveQueue` |
| `begin` | `BeginOpen` (locks and counts), then `BeginCommit` (with the closing `fence`) |
| `validate`, `validationStep` | `Validate`, `FinishValidation` |
| the two replay checks of a derivation, its completion | `ReplayPrimary`, `CompletePair` |
| `publish` | `PublishOpen`, `Fence` for each lease, `SendCommit`, `ServerCommits`, `CommitAcknowledged` |
| a `COMMIT` that fails after the server's commit | `CommitUnacknowledged` |
| `generationHeartbeat`, the abort listener | `Signal`, `ListenerAborts` |
| catch block of `execute`, of `reconcile` | `AbortLease`, `AbortFails`, `Acknowledge`, `GivesUp` |
| `revokePrincipal` | `RevokeOpen`, `RevokeGeneration` for each row, `RevokeCommit`, `RevokeFails` |
| `invalidate`, `clear_admitted_data_sync_snapshots`, `cancel` of a run | `Invalidate`, `Clear`, `CancelJob` |
| retention | `FailAbandoned`, `RetireExpired` |

Most transactions are one action. Three are taken apart. `begin` is split after its counts,
because those counts are of other writers' rows and only the admission lock makes them
meaningful. `publish` is split at each lease and around its `COMMIT`. A sign-out is split at each
row its `UPDATE` locks. Between the parts, `MutexFree` (`data-sync:<tenant>`), `AdmissionFree`
(3650147) and `RowFree` say who must wait. The fences of a publication are evaluated when a
lease's rows get locked and not again, as in the code: that they still hold at the commit is a
consequence of the locks, which `SignedOutNeverPublishes` and `KeepsPromise` test.

Abstractions. `lease_until` is `leaseLive`, cleared by `LeaseLapses` at any time: this covers a
renewal that does not come and `deadline_at`. A row's `cancellation` is nonzero exactly when its
state has left `staging` and `validating` other than by publication, so the state stands for it.
A head row that is absent reads as no generation at revision 0, which is what `begin` inserts.
`Clear` is enabled also while refresh jobs run, where the trigger refuses: the model allows more.
Whether a derivation equals what is published is a choice wherever something is published.
Left out: the contents (`append`, `observePage`), reserved bytes, the share of uploads in the
writer limit, scopes of a principal (a sign-out leaves their epochs alone: its only caller
passes `preserveSources`), and the deletion of retired rows.

### Abstract specification

`PublishedHeads.tla` says what readers are promised: a scope shows at most one dataset, a
publication shows datasets that were neither shown nor spent before and spends what they
replace, and what was replaced, withdrawn or given up never comes back. `KeepsPromise` is this
specification under the mapping: a scope shows its head if that is published and of the scope's
epoch, else nothing; spent are generations that failed, were cancelled or retired, and
published ones of an older epoch.

### Runs

| Run | Instance | Shows |
|---|---|---|
| `generations_publish` | two collections of one scope, one run-backed and for a principal; sign-out, clear, invalidation, cancellation, a lost acknowledgement, heartbeat aborts, lapses | `TypeOK`, `OutcomeIsHonest`, `CurrentGenerationIsHead`, `CancelledJobPublishesNothing`, `SignedOutNeverPublishes`, `KeepsPromise` |
| `generations_inputs` | directory is published; it is collected again while an Office pair is derived from it and another derivation writes the same Office source; a lost acknowledgement or a failing abort | `OneWriterPerSource`, `PairPublishesTogether`, `DerivedFromCurrentInputs` |
| `generations_ends` | a collection in each of two tenants, one for a principal who signs out, a limit of one, under `FairSpec`; a crash, heartbeat aborts, lapses | `WriterLimit`, `Reclaimed`, `WriterEnds` |

Bounds: the limits are 1 or 2 where the code has 4 and 2, so that two or three writers meet them;
in `generations_inputs` a pair begins its second lease at the limit. That run starts
(`AfterFirstSpec`) in the state a first publication of directory leaves, which is the state from
which a derivation can have inputs at all: before it, every derivation only fails to start. `MaxEpoch` is 1, so each
epoch moves once in an instance: fences and readers compare epochs for equality only, and an
epoch never goes back. `MaxFaults` is one crash, lost
acknowledgement or failed abort: what follows such a fault never depends on an earlier one of
another writer except through the rows, which one fault already leaves in every state. Two
writers of a scope are the generation that is shown and its successor; a third collection of a
scope differs from the second only in the revision it expects. `Disruptions` names the kinds
an instance explores. Deadlock checking is off because all writers may be over.

### Fairness

`FairSpec` assumes that transactions that are open go on to their end (`BeginCommit` or the error
of `begin`, `Fence`, `SendCommit`, `ServerCommits`, `CommitAcknowledged`, the rows of a sign-out), that
a writer notices an aborted signal or a fence that fails (`Stops`: the next renewal or statement
throws), that its error path runs to its end, that every lease lapses (no renewal goes beyond
`deadline_at`) and that retention comes round (`FailAbandoned`, called by the poll
of `services/reportExportDispatcher.ts` every two seconds). It does not assume that providers answer, that collections are
validated or published, that a request leaves the queue, or that anyone signs out or clears.

### Proofs

`DataGenerationsProofs.tla` proves five theorems for every number of writers, generations,
scopes, tenants and principals, every choice of columns and every bound that satisfy
`GenerationAssumption`. Its last two clauses are unique lease columns (a writer leases a scope
once) and the single lease of a collection.

- `GenerationTypes`: `TypeOK`. The strengthening is `RoomToRevoke`: a sign-out that is open still
  has room to count its principal's epoch up, because `AdmissionFree` lets no second one start.
- `SignedOutPublishNothing` and `CancelledJobsPublishNothing`. The invariant is `LockInv`: while a
  writer has locked a row in its publication, no sign-out has marked the row, the row is still
  being validated, and its epochs, its principal and its job are as the fence found them
  (`LocksHold`); and at the `COMMIT` all that is published is locked (`CommittingIsFenced`). It
  holds because each handler that would break a fence first updates the active rows it concerns
  and so waits for their locks. `OnlyCommitsPublish` concludes that what becomes visible was
  fenced. Time is the exception: a lease may lapse between the fence and the `COMMIT`.
- `PublishedIsHead`: `CurrentGenerationIsHead`, with the facts that generations never have an epoch
  ahead of their scope and that heads name generations of their own scope (`HeadInv`).
- `ImplementsPublishedHeads`: `KeepsPromise`. A server's commit is a `Publish` of the locked
  generations (`CommitPublishes`); all other steps satisfy `OnlyWithdraws`, which says that they
  publish nothing, bring nothing back and move no epoch down, and so are a `Withdraw` of whatever is
  spent after them.

`GenerationOutcomeProofs.tla` proves what concerns writers and pairs. `LineageAssumption` says what
it needs of the constants: a writer leases its primary generation and at most one related to it, all in one tenant, and derives
from collected inventory of that tenant. Three lemmas, `StepsOnRows`, `StepsOnPc` and
`StepsOnHeads`, say once what each action may do to rows, to a writer's place in its code and to heads. The invariant
`WritersInv` rests on the ones above:

- `SourcesHaveOneWriter` and `WritersStayWithinLimits`: `OneWriterPerSource` and `WriterLimit`, by
  `MutexInv` (of the tenant's lock: at most one writer is in a section that needs it) and
  `AdmissionInv`, which says that what an open `begin` counted still holds when it inserts, because whoever could add a writer
  waits for its admission lock, and leases only end.
- `PairsPublishTogether`: `PairPublishesTogether`. Once one lease of a writer has been shown, all that its publication
  makes visible has been (`ShownTogether`), and what a writer holds it has begun (`HeldAreBegun`).
- `WritersReportHonestly`: `OutcomeIsHonest`. `ReportInv` says for each place in the error path what is known there of the
  rows: the acknowledgement may be lost, the listener may have aborted, the abort may fail.
- `DerivationsAreCurrent`: `DerivedFromCurrentInputs`. From the check of its inputs to its `COMMIT` a derivation
  holds the tenant's lock, without which no head or epoch of the tenant moves, so the inputs stay what it
  captured (`InputsHeld`).

`Reclaimed` and `WriterEnds` are liveness properties and stay with TLC.

## 5. Data sync coordinator and refresh jobs

### Model

`RefreshJobs.tla` has the job rows of one provider source and the executions one process runs
for them. `DataSync.tla` extends it with runs, their sources and links (`run`, `src`, `linked`), and
what the coordinator keeps in memory: the worker of each run with the continuation of each
source (`work`), its abort controller (`ctl`), the children it tracks and those whose clean-up
failed (`kids`, `dirty`), the HTTP admissions, and cancellations and sign-outs in progress. A
restart loses all of the latter. `launch` gives a run a new tracker (`services/dataSync.ts:441`) while the one of the previous
worker may still owe clean-ups in `cleanupPending`: these are `owed`, and the ones that the code then lets drop are collected in `forgotten`,
which nothing reads. A child is named by its idempotency key: run, source, attempt.

| Code | Action |
|---|---|
| `submit` of a refresh job | `SubmitJob` |
| `startWithAuthority`, `startRefresh` | `StartRefresh`, `MarkRunning` (`LoseStart` without its acknowledgement), `DenyStart`, `Dispatch` |
| `run` of an execution, its catch | `StopRun`, then `LeaveRun`, or `LoseOutcome` when that write fails; or `CompleteJob` |
| `cancel` of a refresh job | `CancelRows` (transaction), then `AbortCancelled` (controller) |
| deadlines, `recoverInterrupted` of the jobs | `LapseJob`, `RecoverJobs` |
| `start`, `refreshDue`, `retry` | `Admit`, `AdmitClean`, then `StartCommit`; `DuePrepare`, `DueCommit`; `RetryPrepare`, `RetryCancel`, `RetryCommit`; `Refuse` when aborted |
| `launch` and the rest of the request | `Launch`, `Tail` |
| `runPackages`, `runPowerPlatform` | `WorkSubmit`, `WorkAttach`, `WorkMark`, `WorkStart`, `WorkStarted`, `WorkReport`, `WorkPoll` |
| their failure paths | `WorkClean`, `WorkFail` |
| `run`, catch and finally of `launch` | `WorkSettle`, `WorkAuto`, `WorkCatch`, `WorkFinish` |
| `inventoryJobInput`, `completeInventoryJob` | `ChildBegins`, `PublishChild` |
| `cancel` | `CancelAsk`, `CancelRow`, `CancelChildren` (twice), `CancelAnswer` |
| `waitForPrincipalAuthorization` | `SignOut`, `SignOutChildren`, `SignOutPause`, `SignOutClean` |
| `reconcileRun`, `reconcileUsage` of a status read | `ViewRead`, `ViewWrite`; `ReadUsage` |
| routes of a refresh job | `UserResumes`, `UserCancels` |
| process death and recovery, lost authority | `Restart`, `LoseAuthority` |

A repository call is one action, since each holds the tenant's advisory lock; what lies between
two calls is an `await`, where everything else may happen. Cancelling a child is two steps
because the row is updated before the execution is signalled. A write of the coordinator may
fail (`break`), and the two inserts may commit without an acknowledgement (`lost`).

A refresh job is written by its execution twice, and both writes can get lost (`ChildForgets`). The
closing one may fail, which is only logged (`services/packageInventory.ts:399-401`, `:598-608`,
`services/powerPlatformInventory.ts:174-176`, `:362-374`); the admission may commit without its
acknowledgement, and the start then fails with `markedRunning` unset (`:367-388`). Either way the row
says `running` and nothing executes it, until a restart recovers it or its `deadline_at` passes
(`ChildTimesOut`); the coordinator polls it meanwhile.

Abstractions. A revoked session aborts its controllers with `auth` at once, where the code notices
at the next check. The reads of one request are one action. A principal has at most one active
run (unique index, `db/currentSchema.ts:5405`). `MaxRefreshes` is per provider domain in the code;
the instances have one provider. A status read of an automatic run ends by closing it
(`finishRun`), which the update of its last source has done by then. Left out: the Users source
(`runUsers`), detail lanes and progress, the expiry of a run after 30 days, the shutdown drain and the clearing of
saved data.

### Runs

| Run | Instance | Shows |
|---|---|---|
| `sync_run` | one account, one collected source, two attempts, any two of restart, failed write (of the coordinator or the child), lost acknowledgement, sign-out, lapse, job resumed or cancelled by hand, cancelled run, lost authority | `SyncTypeOK`, `HonestRuns`, `LinkedJobIsOfThisAttempt`, `StoppedMeansStopped`, `CancelledIsFinal` |
| `sync_stop` | one account, one collected source and a usage report, one attempt, any two of restart, failed write, lost acknowledgement, sign-out, job cancelled by hand, cancelled run, lost authority, under `FairSpec` | `NobodyWaitsForever` |

`HonestRuns` joins `ClosedRunIsSettled` (a run that has ended has no open source, a completed one has
all of them) and `SavedMeansPublished` (what reads as saved was published by the child of its own
attempt): the two halves of what a status page may claim.

`StoppedMeansStopped` has two parts: the child a source shows has been told to
stop, if it executes at all; a child that serves an earlier attempt has been told too, or is being told. Its exceptions are what the code does. A child
may be left alone if its failed clean-up was owed by a tracker that a launch had replaced: a cancellation of the run uses the
new tracker and drops the debt of the old one (`services/dataSync.ts:245`, `:258`), and so does the end of a worker that owes
clean-ups itself (`:463`). The answer is then clean and the old child goes on, for no source and unable to publish. And a run cancelled
while a sign-out has started may owe such a debt to the sign-out, which tells the child next.

It speaks of children the coordinator knows of. A child whose submission was never acknowledged is not
cancelled with its run; it collects for nobody (`Claims` fails), and only its owner can start it. A child that
has been aborted may serve until it notices, and has its signal then. It says nothing of the rows: one whose closing write
was lost reads as running without an execution, as described above.

A `launch` does nothing for a run that has a worker, and nothing if no source is to be collected (`rest`). The first case arises: a retry
admitted between the commit of a start and its launch finds no worker, and may commit a new attempt of a source while the
start's worker runs. The reopened source then stays queued, without a worker, until the run is cancelled or the process restarts.

`LinkedJobIsOfThisAttempt` says less than one may expect. A job whose attach never committed is not
linked, and the late `handleSourceFailure` of its attempt (`services/dataSync.ts:718-735`) may write it
on a later attempt's source: the shown job is then of the old attempt, and stays harmless because
`SavedMeansPublished` and the fence of a publication look at the job itself. A child resumed
through its own route runs without a worker of the coordinator.

Bounds. Two attempts (20 in the code) let a worker of one attempt meet the rows of the next, and
a third attempt meets the second in the same way. One request is enough for a race with a worker,
a cancellation and a sign-out; two requests of one account meet in the unique index, between the commit of
a start and its launch, and in the clean-ups a request settles first. All of that is left to the theorems, which hold for any
number of requests: with a second request the instance has 6 million states. In particular a launch finds a tracker that owes a clean-up only
with two requests (a start that is committed and not launched, and a retry admitted meanwhile) and two interruptions, so that
in the runs `owed` and `forgotten` stay empty. `MaxActive`
equals the number of runs that could execute. `MaxFaults` counts interruptions of all kinds together;
the ones that need each other (a failed clean-up, then a sign-out or restart) need two. The
runs have one account: accounts meet only in `AnotherCollector` of a submission or retry, which the
instances therefore leave without effect, and in the generations their children write, where
`OneWriterPerSource` (section 4) keeps them apart. `sync_stop` leaves out the lapse and the manual
resumption of a child, which nobody waits for. Deadlock checking is off because runs may be over
and requests absent.

### Fairness

`FairSpec` assumes that the process executes its own continuations: each source's worker, the
end of a worker, executions of children, admissions, cancellations and sign-outs. It also assumes that a row
which reads as running of nothing that runs reaches its deadline (`ChildTimesOut`): `deadline_at` is a time of the
row, and every read compares it with the clock (`db/packageRefreshJobs.ts:422`). An execution ends
because every provider call in it and the run itself have deadlines. Nothing is assumed of the
provider's success, of users, of the publication of a child or of restarts. `NobodyWaitsForever`
is then about who waits for whom: a cancellation waits for admissions and the
worker, a worker for the signal of a clean-up, a sign-out for all three.

### Proofs

`DataSyncProofs.tla` proves five theorems for every number of accounts, runs, sources, requests and attempts and
every bound that satisfy `SyncAssumption` (a child is a run, a source and an attempt; no source is collected and
imported at once; there is a source to collect).

`Writers` says once which actions write which variable. What they do to the rows is said by three relations: `RefreshStep`
lists the steps of a refresh job, `TrackStep` what may happen to the tracked children of a run, and `DbStep`
the eight ways in which the two tables of the coordinator change. The two that carry the argument are `MayMove` (a
source of an open run takes over a status, its own job, or as its first one the job of its own attempt) and `MayOpen` (a
retry opens what may be retried). `DbSteps` shows that every handler is one of the eight.

The first part of the invariant is `StateInv`. `BaseInv` has the types and what each continuation may rely on: the job in
a worker's, a request's or a status read's locals was submitted, and what they saw of it is still so. `DbInv` has
`ClosedRunIsSettled` with what makes it inductive (`Settled` also of a cancelled run, automatic runs without
a report) and `SavedMeansPublished`.

* `SyncTypes`: `SyncTypeOK`.
* `RunsAreHonest`: `HonestRuns`. Each of the eight ways has a lemma that it keeps `DbInv`.
* `CancelledRunsStay`: `CancelledIsFinal`. Of the eight, only `Queue` changes a cancelled run.

The second part is `AdmitInv`. It says what the admissions, cancellations and sign-outs in progress know of each
other, and is needed because `LinkedJobIsOfThisAttempt` rests on who may write a source at once:

* `ActiveInv`, the unique index: an account has one active run. `ExistInv`: whoever works on, stops or asks for a run has one.
* `HaltInv`, `OutInv`: while a run is cancelled or its account signed out, every request about it has been aborted and its worker's
  controller too, so that neither goes on to launch or attach; and no other request is aborted.
* `RetryInv`: one retry of a run at a time. `SeenInv`: a status read about to write has read a job of a source that had one.
* `LaunchInv`: a run that was created and whose launch is still owed is as `Queue` left it, and a retry admitted meanwhile has not got
  beyond its preparation.
* `SubmitInv`: a worker that has just submitted a source's job holds the job of the source's current attempt, and while a retry
  prepares, a source still to be submitted or attached is untouched and queued, which a retry does not take.

`StatusSteps`, `SourceSteps`, `RequestSteps`, `LaunchSteps`, `WorkerSteps`, `WorkSteps`, `StopSteps` and `OutSteps` say once, variable by
variable, what a step may do; each conjunct has a lemma that it is kept (`ActiveNext`, `HaltNext`, `LaunchNext`, ...).

* `LinkedJobsAreCurrent`: `LinkedJobIsOfThisAttempt`. By `SubmitInv`, `WorkAttach` links the job of the attempt; an update cannot put
  back a linked job (`Updatable`), and `Queue` leaves the reopened source without one.

The third part is `TellInv`. `StoppedMeansStopped` is about one moment, the answer, and what holds afterwards, but a child that serves
an attempt its source no longer shows may have been left at any time before. The invariant follows it from there. A job is
`AccountedFor` if its row is final and its execution, if any, has been or is being told (`Halted`), or if its clean-up failed and is on
record or was dropped (`Debt`). `AccountedStays` says that it then stays so: a debt ends only when the child is told.

* `RetryTold`, with `SelInv` and `LinkInv`: before a retry commits, the child of every source it takes is accounted for. `LostIsTold`: so is every
  child whose source stops showing it.
* `TrackInv`, `ViewTold`: who may still give a source back an earlier job, the worker that gave that job up and the status read that saw it,
  does so with a job that is accounted for. Without this a late write would bring back an unaccounted child.
* `OrphanInv`: an execution that serves and is not shown has been told, is being told, or is a debt.
* `SucceededInv`: a job that published and is started again by its worker is denied before it serves.
* `StopTold`, `OutTold`: what a cancellation has told when it answers and what a sign-out has told once it is past the children.
* `QuietInv`: what the answer left (`Quieted`) stays: no worker, no launch under way, and executions that only end.

What a step does to an execution, to who gives a source its job, to a source's continuation and to a cancellation or sign-out is said
once in `ExecSteps`, `JobSteps`, `WorkGoes`, `StopMoves` and `OutMoves`. TLC checked each conjunct before it was proved, on one and two requests.

* `StoppedRunsStop`: `StoppedMeansStopped`, from `QuietInv`.

Model-checked only: `NobodyWaitsForever`, a liveness property.

## 6. Copilot Studio quarantine jobs

### Model

`QuarantineJobs.tla` models the same kind of durable job as `PackageJobs`, but a different protocol:
a submission requires that its targets have no unsettled write, an item locks its target for its
whole attempt, reads it twice, and proves a write by the time of the provider's last update.

| Code | Action |
|---|---|
| `submit` | `Submit` |
| `cancel`, then the abort of the active job | `Cancel`, `AbortCancelled` |
| `launchCopilotStudioQuarantineJob` | `Launch` |
| `claim` | `Claim`, `NotClaimed` |
| `beginItem` | `BeginItem` |
| `withTargetLock` and the first `getStatus` | `ReadFirst` |
| the second `getStatus` | `ReadAgain` |
| `markSent` | `MarkSent` |
| the request and its effect | `Post`; `WriteLands`, any time later or never |
| `verifyCopilotStudioQuarantineConverged` | `Verify` |
| `finishItem` | `Finish` |
| the catch block | `ItemFails`, then `PauseItem`, `FinishFailed` or `PersistFails` |
| `release` | `Release` |
| `reconcileCopilotStudioQuarantineJob` | `ReconcileRead`, `RecordReconciliation`, `ReconcileFails` |
| `recover` from timer and startup | `Recover`, `RecoverQueued`, `Listen` |
| sign-out | `RevokeSession`, `ParkQueued` |
| drain, process death | `Drain`, `ProcessEnds` |
| time, connections, other administrators | `LeaseExpires`, `JobExpires`, `LockIsLost`, `ExternalEdit` |

The service is deployed as one process (`docs/azure-production-deployment.md:25`, from the
repository's root), and its map
of active jobs admits one worker per job, so the worker of a job is named by the job. The model
therefore has no lease versions: a lease that expired can only be claimed by the next worker of this
process. The state before a write (`prestate`) is the provider's value at submission, and each
change moves the provider's clock forward. A lease may expire at any time except while an item
is being worked on, whose calls end within 30 seconds of a lease of 120. A job past its deadline
leaves its unfinished items to be cancelled by the user. A `finishItem` whose evidence is refused
is `PersistFails`. The drain's abort and the maintenance flag that precedes it are one action.

Left out: the check that the saved inventory still names the target, settlement of saved controls
and its retries (`quarantine_target_unavailable`), canary jobs in the same tables, retention, and the
byte and item limits of one recovery pass.

### Run

| Run | Instance | Shows |
|---|---|---|
| `quarantine_targets` | two jobs of one item on one target, one reconciler, two attempts, expiring leases and one of: cancellation, lost acknowledgement, sign-out, drain, crash, expired job, outside edit, lost lock | `QuarantineTypeOK`, `OneUnsettledWritePerTarget`, `HonestOutcome`, `EvidenceIsSound`, `NoItemIsStranded`, `OneWriteAtATime`, `CancelStopsUnsentWork` |

Two jobs are what meets on a target: everything a target's lock and the submission check compare is
between pairs. One disruption is enough to put an item into each of the states a second one could find;
expiry is not counted. The proofs below lift these bounds. Deadlock checking is off because all
jobs may be over. Liveness is not checked: `NoItemIsStranded` is the safety fact it would rest on (an item
left running belongs to a worker or is found by the next recovery).

### Proofs

`QuarantineJobsProofs.tla` proves all seven properties of the run for every number of jobs, items, targets
and reconcilers and every bound that satisfy `QuarantineAssumption`: `QuarantineTypes`,
`UnsettledWritesAreAlone`, `OutcomesAreHonest`, `EvidenceSupportsVerdicts`, `NoItemStranded`,
`OneWriteAtATimeHolds` and `CancelledWorkIsNotSent`.

The invariant `IInv` has six parts. `SentInv` says what a `sent_at` tells of a request: what has been
posted is marked, and a worker has a mark exactly from `MarkSent` on. `JobInv` relates a job's status
to its items. `LeaseInv` says that a worker with an item in hand holds a live lease and that the item runs,
and that workers are idle while the process starts. `ReadingInv` says what a reading since the
prestate tells: each change of the target moves its time forward, so a reading of the prestate's time is the
prestate, and a write that landed has a later time than that. The last two are
`OneUnsettledWritePerTarget` and `EvidenceIsSound` themselves: the first is inductive only with
`SentInv`, since `Submit` and `MarkSent` look at settled items while requests are still under way.

Most of the handlers end by aggregating the job. They are used only through `AggregateEffect`, which says that
aggregating changes nothing but the job's status, and `ItemMoves` lists what any step may do to
an item; each part of the invariant then has one lemma per group of actions.

## 7. Inventory generations and reconciliation

### Model

`InventoryReconciliation.tla` has two halves. The sources (`inventory_packages`,
`inventory_power_platform`) are a history of revisions, each with its contents and the root it
belongs to, the epoch of the scope, the changes logged since a root began, the controls waiting to
be read back, and how far memberships have been collected. The canonical side is the row
of `inventory_reconciliation` with its three input vectors (pending, active, published) and their
sequences, the keys, the pins of workers and the published root. A pass of the runtime is a
worker; its claim names it, as `active_id` names its job.

| Code | Action |
|---|---|
| publication of a catalogue, of an exact or detail refresh | `PublishBaseline`, `PublishDelta` |
| `inventory_fence_control_readback`, `inventory_fence_native_readback` | `FenceControl` |
| `publishControls`, `publishNativeControls`; `pruneControls` | `PublishControl`; `PruneControl` |
| `clear_admitted_data_sync_snapshots` | `Clear` |
| `enqueue`: the read of the roots, then `request` | `ReadRoots`, then `Request` or `RequestRefused` |
| `runNext`: its claim | `Claim`, `NothingClaimed` |
| `execute` with its first `validateInputs` | `Begin` |
| `seed` | `Seed` |
| `reconcileIsolated`, `reconcileSmallComponents`, `expand` and `reconcileComponent`, `publishMembership`, `completeJob` | `Publish`, by `Component` and `Records` |
| its catch block | `Fail` |
| `active_until`, `active_deadline` and the pins' expiry | `LapseLease`, `PassDeadline` |
| `gcSlice`, `gcMetadataSlice` of `collect` | `CollectRoot`; `CollectChanges`, `CollectKeys` |
| process death | `Crash` |

A transaction is one action. `request` reads the roots before its transaction and their revisions
in it, so `ReadRoots` remembers only the epochs. The components that a pass writes, one
transaction after the other, are read from captured revisions and staged under its generation, so
no order among them shows, and they are one action with the publication that reveals them. What
could change under them is stated instead: `InputsKept` for what they read, `Unhindered` for the
fences each statement meets. A pass that meets one can only take `Fail`.

The derivation is kept, since its fast paths are where an incremental result may differ from
a full one: `Isolated` and `Small` decide from the previous records and the current matches that a
component needs no expansion, and `Component` is whichever the code tries first.

What resolution makes of a component is left open. `publishComponents` hands all that matches to
`resolvePackageAgentLinks` and `buildRecords` (`services/packageAgentIdentity.ts:209-257`,
`services/inventoryComponent.ts:12-110`), which may link rows into one record, or leave a conflicting or
ambiguous one alone, depending on the metadata and the age of every row. In `Records` a choice of
`link` \in `Linkings` says for each publication which rows end up together; a record has its `members` and
its `company`: all rows it was resolved among, with the contents they had. `Siblings` reads former members
only, as `expand` does. The proofs hold for any set of linkings; the run has the three that put everything
together, everything apart, and one package apart.

`OutputFollowsInputs` says what holds of the published records nevertheless: the rows of the inputs, and
no others, are each in exactly one record; the company of a record includes, as they are now, all rows
that its members match in any number of steps now; and a record that kept its company together has lost
nobody. It does not say that the inventory is what a full derivation of its inputs would give, because that is
not so. Let an agent R and two packages P1 and P2 that disagree about it be split into {R}, {P1} and {P2}.
When P1 leaves by an exact refresh, only the record of P1 is found through the old inventory (`:272-283`),
and R and P2 keep the resolution they had next to P1, until one of them changes or a broad pass comes. The
run reaches such states.

Abstractions. Items are packages and agents, an agent of one scope, as `buildRecords` has no others. The
survivor and the canonical identity of a record are left out. A clear also counts the revisions of
the sources' heads up, which leaves a gap in numbers that are only compared. A lease
and a deadline lapse at any time. Sessions' epochs and the fence of the generation itself are
in `DataGenerations`. The pins of readers (`data_generation_pins`), the limit of 20 admissions,
compaction of the canonical root, expired identities, the order of exact observations and the
choice among native roots of one environment are left out.

### Run

| Run | Instance | Shows |
|---|---|---|
| `inventory_canonical` | one package source without a first root, refreshed twice as a catalogue or exactly, four packages of which one comes to match two others or is removed, two passes, one of: saved control, clear, failure, crash, lapsed lease, passed deadline; under `FairSpec` | `InventoryTypeOK`, `OutputFollowsInputs`, `InputsKept`, `FencedIsNotPublished`, `CatchesUp` |

The four packages are the least in which a component grows, shrinks and falls apart while another record
stays out of it: `Small` differs from `Expanded` from the third member on. Two passes make a stale
one and its successor; a third is stale in the same way. Two refreshes and the readback of a control
make up to three revisions: the published one, the one a pass captured and the one it does not know of. One
source suffices because sources meet in nothing but the sum of their changes, and one disruption
because a takeover resets all that an earlier one left. Larger instances, with two disruptions
(about a million states) or with a second source (1.6 million), satisfy the safety properties too; they
are no runs of the project because of their time. `Native` is empty: its members only
restrict `FenceControl` and widen `Clear`. Deadlock checking is off because everything may be published
and collected.

### Fairness

`CatchesUp` says that once the sources rest, the inventory is of their last revisions. `FairSpec`
assumes that the timer of `start`, every 30 seconds, goes on waking passes: this holds for a
tenant as long as an account of it is signed in, because `pass` works for the accounts whose
authority the process holds. It assumes that a pass takes its steps or fails at a fence, that a lease nobody
renews lapses, and that a saved control is read back or dropped, for which the account that saved it must still be
signed in. Nothing is assumed of refreshes, disruptions or the collection.

### Proofs

All four safety properties are proved, for all sources, items, keys, values, revisions, passes and bounds that satisfy
the assumptions of the module: finitely many items, a revision at least, and a name (`None`) that is no vector of revisions
(`NullAssumption`).

`InventoryReconciliationProofs.tla` is about the protocol: `InventoryTypes` (`InventoryTypeOK`),
`CollectionKeepsInputs` (`InputsKept`) and `PublishesUnfenced` (`FencedIsNotPublished`). Its invariant `IInv` has the order of
revisions, roots and collected memberships of a source (`SourceInv`, `CollectionInv`), what the
vectors of the row may name (`VectorInv`, `RowInv`), and `InputsKept` itself.

`InventoryDerivationProofs.tla` is about the derivation: `PublishedFollowsInputs` (`OutputFollowsInputs`).

* The component of an item is a recursive function over a number of steps. No induction over data is available, but one over these steps
  is an invariant of naturals: `ReachSteps` and `StepsGrow` say how the sets grow, and since the items are finite they stop growing, so
  that the component is the least set with the item that is closed under matching (`ReachIsLeast`).
* Hence whatever the fast paths or the expansion take as a component has all that its members match and all their former
  records (`TouchedRecords`). The records put together for it have missed nobody (`NewRecords`); those left alone were
  resolved among what they match, of which nothing changed (`KeptRecords`); and the two together follow the new contents if
  the old ones followed the old contents (`AmendedRecords`), however each publication links or splits.
* `DInv` carries this through a history: `SequenceInv` orders requests, claims and what is published, `LogInv` says that the log of changes
  covers what the sources say now and did not say at the published or the claimed vector of the same roots, `ClaimInv` that the keys, base and inputs of a live claim
  fit each other, and `OutputInv` that the published records follow the published vector (`Follows`).

The proofs speak of the contents as of a vector (`ValuesAt`). `CatchesUp` stays with TLC.

## 8. Not modelled

| Part | Why |
|---|---|
| Saved controls, mutation canaries | Follow a verified write. They publish into the saved catalogue and need its model first. |
| Generation admission, account queue, bounded pool | In-process queues; planned as small modules of their own. The models that use them allow every order the queues could produce. |
| User sources, imports, searches | Protocols of their own, not yet modelled. |
| Read selections, exports | They pin a generation; `PublishedHeads` says what they may see. |
| Operational state, startup, shutdown | The timer, recovery and drain calls are in the models of the jobs they recover; the maintenance row is planned. |
| Capabilities, retention | Data and clocks. |
| Presentation, discovery, frontend, MCP server, infrastructure, schema installation | No durable protocol of their own: pure read models, browser state, read-only clients, DDL. |

Everywhere, liveness under fairness and enabledness stay with TLC: the prover has neither. Induction over data is not
available to the proofs either; where it matters (section 7) they argue with the natural numbers that count its steps.
