---------------------------- MODULE PackageJobs ----------------------------
(***************************************************************************)
(* Durable package mutation jobs: the job repository (db/jobs.ts), the     *)
(* in-process workers that execute its items against Microsoft Graph       *)
(* (services/bulkJobs.ts), the GET-only reconciler, and the recovery pass  *)
(* of the server's timer.  A step of the model is one database transaction *)
(* or one provider call; workers, reconcilers, requests, recovery, clocks  *)
(* and the provider interleave freely between them.                        *)
(***************************************************************************)
EXTENDS Naturals, FiniteSets

CONSTANTS
  Jobs,            \* job identifiers (idempotency keys) of one principal
  Items,           \* job items; JobOf and TargetOf are their foreign keys
  Targets,         \* package ids
  States,          \* provider states of a package that a mutation observes
  Workers,         \* slots of the process-wide work map, two per process
  Processes,       \* values of processOwner
  Reconcilers,     \* concurrent reconcile requests
  None,            \* SQL NULL
  JobOf, TargetOf, Ordinal, HostOf,
  Effect,          \* Effect[j][s]: expectedPackageMutationState
  MaxAttempts,     \* claims of a job (10 in the code)
  MaxOutstanding,  \* unfinished jobs of a principal (5 in the code)
  Disruptions,     \* the kinds of disruption an instance explores
  MaxFaults        \* bound on crashes, lost acks, lost locks, edits, revocations

ASSUME PackageAssumption ==
  /\ JobOf \in [Items -> Jobs]
  /\ TargetOf \in [Items -> Targets]
  /\ Ordinal \in [Items -> Nat]
  /\ HostOf \in [Workers -> Processes]
  /\ Effect \in [Jobs -> [States -> States]]
  /\ MaxAttempts \in Nat
  /\ MaxOutstanding \in Nat
  /\ MaxFaults \in Nat
  /\ None \notin Processes \cup Workers \cup Reconcilers \cup Jobs \cup Items \cup States
  /\ Workers \cap Reconcilers = {}

VARIABLES
  \* row of table jobs; lease_until is leaseLive while leaseOwner is set
  jobStatus, cancelRequested, leaseOwner, leaseVersion, leaseLive, deadlinePassed,
  \* row of table job_items, and its job_attempts rows by lease version
  itemStatus, sentAt, reconciliation, prestate, attempts,
  \* Microsoft Graph: package states, the write each item has sent, writes sent
  provider, write, posted,
  \* session advisory locks per package, lock connections that died, and
  \* workers whose package was changed from outside since their last read
  lockHolder, lost, disturbed,
  \* session generation in the memory of each process, processes whose queue
  \* holds the cleanup of a sign-out, and data_principal_epochs.epoch
  session, revoking, epoch,
  \* locals of runBulkJob
  pc, wjob, wresume, wversion, witem, wsent, wsession, wepoch,
  \* history: the items a worker may no longer write, as the sign-outs it
  \* lived through left them (only NoWriteAfterSignOut reads it)
  wbarred,
  \* locals of reconcileBulkJob
  rpc, ritem, robserved,
  faults

jobVars      == <<jobStatus, cancelRequested, leaseOwner, leaseVersion, leaseLive, deadlinePassed>>
leaseVars    == <<leaseOwner, leaseVersion, leaseLive>>
itemVars     == <<itemStatus, sentAt, reconciliation, prestate, attempts>>
providerVars == <<provider, write, posted>>
lockVars     == <<lockHolder, lost, disturbed>>
sessionVars  == <<session, revoking, epoch>>
workerLocals == <<wjob, wresume, wversion, witem, wsent, wsession, wepoch, wbarred>>
workerVars   == <<pc, workerLocals>>
reconcilerVars == <<rpc, ritem, robserved>>
vars == <<jobVars, itemVars, providerVars, lockVars, sessionVars, workerVars, reconcilerVars, faults>>

JobStatus == {"queued", "running", "waiting_authorization", "succeeded", "failed", "cancelled", "partial"}
ItemOutcome == {"succeeded", "failed", "cancelled", "inconclusive", "skipped"}
ItemStatus == {"queued", "running"} \cup ItemOutcome
ReconciliationStatus ==
  {"not_required", "required", "verified_applied", "verified_not_applied", "conflict"}
WorkerPc == {"idle", "authorizing", "loop", "begun", "locked", "confirmed", "matched", "marked",
             "posted", "verified", "unchanged", "pausing", "failing", "releasing"}

ItemsOf(j) == {i \in Items : JobOf[i] = j}
HasStatus(j, st, s) == \E i \in ItemsOf(j) : st[i] = s
Version == 1..MaxAttempts

JobTypeOK ==
  /\ jobStatus \in [Jobs -> JobStatus \cup {"absent"}]
  /\ cancelRequested \in [Jobs -> BOOLEAN]
  /\ leaseOwner \in [Jobs -> Processes \cup {None}]
  /\ leaseVersion \in [Jobs -> 0..MaxAttempts]
  /\ leaseLive \in [Jobs -> BOOLEAN]
  /\ deadlinePassed \in [Jobs -> BOOLEAN]

ItemTypeOK ==
  /\ itemStatus \in [Items -> ItemStatus \cup {"absent"}]
  /\ sentAt \in [Items -> BOOLEAN]
  /\ reconciliation \in [Items -> ReconciliationStatus]
  /\ prestate \in [Items -> States \cup {None}]
  /\ attempts \in [Items -> [Version -> ItemOutcome \cup {"none", "open"}]]

ProviderTypeOK ==
  /\ provider \in [Targets -> States]
  /\ write \in [Items -> {"none", "inflight", "applied", "lost"}]
  /\ posted \in [Items -> Nat]

LockTypeOK ==
  /\ lockHolder \in [Targets -> Workers \cup Reconcilers \cup {None}]
  /\ lost \subseteq Workers \cup Reconcilers
  /\ disturbed \subseteq Workers

SessionTypeOK ==
  /\ session \in [Processes -> Nat]
  /\ revoking \subseteq Processes
  /\ epoch \in Nat

WorkerTypeOK ==
  /\ pc \in [Workers -> WorkerPc]
  /\ wjob \in [Workers -> Jobs \cup {None}]
  /\ wresume \in [Workers -> BOOLEAN]
  /\ wversion \in [Workers -> 0..MaxAttempts]
  /\ witem \in [Workers -> Items \cup {None}]
  /\ wsent \in [Workers -> BOOLEAN]
  /\ wsession \in [Workers -> Nat]
  /\ wepoch \in [Workers -> Nat]
  /\ wbarred \in [Workers -> SUBSET Items]

ReconcilerTypeOK ==
  /\ rpc \in [Reconcilers -> {"idle", "locked", "read"}]
  /\ ritem \in [Reconcilers -> Items \cup {None}]
  /\ robserved \in [Reconcilers -> States \cup {None}]

(* Every row, local and lock keeps to the values its column or variable may *)
(* hold; in particular no claim exceeds the attempts a job has.             *)
TypeOK ==
  /\ JobTypeOK
  /\ ItemTypeOK
  /\ ProviderTypeOK
  /\ LockTypeOK
  /\ SessionTypeOK
  /\ WorkerTypeOK
  /\ ReconcilerTypeOK
  /\ faults \in 0..MaxFaults

Init ==
  /\ jobStatus = [j \in Jobs |-> "absent"]
  /\ cancelRequested = [j \in Jobs |-> FALSE]
  /\ leaseOwner = [j \in Jobs |-> None]
  /\ leaseVersion = [j \in Jobs |-> 0]
  /\ leaseLive = [j \in Jobs |-> FALSE]
  /\ deadlinePassed = [j \in Jobs |-> FALSE]
  /\ itemStatus = [i \in Items |-> "absent"]
  /\ sentAt = [i \in Items |-> FALSE]
  /\ reconciliation = [i \in Items |-> "not_required"]
  /\ prestate = [i \in Items |-> None]
  /\ attempts = [i \in Items |-> [v \in Version |-> "none"]]
  /\ provider \in [Targets -> States]
  /\ write = [i \in Items |-> "none"]
  /\ posted = [i \in Items |-> 0]
  /\ lockHolder = [t \in Targets |-> None]
  /\ lost = {}
  /\ disturbed = {}
  /\ session = [h \in Processes |-> 0]
  /\ revoking = {}
  /\ epoch = 0
  /\ pc = [w \in Workers |-> "idle"]
  /\ wjob = [w \in Workers |-> None]
  /\ wresume = [w \in Workers |-> FALSE]
  /\ wversion = [w \in Workers |-> 0]
  /\ witem = [w \in Workers |-> None]
  /\ wsent = [w \in Workers |-> FALSE]
  /\ wsession = [w \in Workers |-> 0]
  /\ wepoch = [w \in Workers |-> 0]
  /\ wbarred = [w \in Workers |-> {}]
  /\ rpc = [r \in Reconcilers |-> "idle"]
  /\ ritem = [r \in Reconcilers |-> None]
  /\ robserved = [r \in Reconcilers |-> None]
  /\ faults = 0

-----------------------------------------------------------------------------
(* Conditions shared by the repository's statements *)

Expected(i) == Effect[JobOf[i]][prestate[i]]
Exhausted(j) == deadlinePassed[j] \/ leaseVersion[j] >= MaxAttempts
Unfinished(j) == HasStatus(j, itemStatus, "queued") \/ HasStatus(j, itemStatus, "running")
(* Faulty: partial jobs with work left do not count. *)
OutstandingIgnoresPartial(j) == jobStatus[j] \in {"queued", "running", "waiting_authorization"}

Outstanding(j) ==
  \/ jobStatus[j] \in {"queued", "running", "waiting_authorization"}
  \/ jobStatus[j] = "partial" /\ Unfinished(j)

(* What aggregate() stores, given the items' statuses and the cancel flag. *)
Aggregate(j, st, cancelled) ==
  IF HasStatus(j, st, "running") THEN "running"
  ELSE IF HasStatus(j, st, "inconclusive") THEN "partial"
  ELSE IF HasStatus(j, st, "queued") THEN "waiting_authorization"
  ELSE IF cancelled \/ HasStatus(j, st, "cancelled") THEN "cancelled"
  ELSE IF \A i \in ItemsOf(j) : st[i] = "failed" THEN "failed"
  ELSE IF HasStatus(j, st, "failed") THEN "partial"
  ELSE "succeeded"

(* Faulty: any live lease will do. *)
FencedWhileLive(w) == leaseLive[wjob[w]]

(* The lease row still belongs to worker w: owner, version and lease_until. *)
Fenced(w) ==
  LET j == wjob[w] IN
  leaseOwner[j] = HostOf[w] /\ leaseVersion[j] = wversion[w] /\ leaseLive[j]

(* assertAccountSessionValidation: no sign-out since the launch of worker w *)
(* was handled by its own process.                                          *)
Signed(w) == wsession[w] = session[HostOf[w]]

(* withPackageLock's finally: session advisory locks go with the connection. *)
Unlock(p) ==
  /\ lockHolder' = [t \in Targets |-> IF lockHolder[t] = p THEN None ELSE lockHolder[t]]
  /\ lost' = lost \ {p}
  /\ disturbed' = disturbed \ {p}

(* What may go wrong in an instance; faults are counted, the rest is not. *)
Explored(kind) == kind \in Disruptions
Fault(kind) == Explored(kind) /\ faults < MaxFaults /\ faults' = faults + 1
Ack(ack) == IF ack THEN UNCHANGED faults ELSE Fault("ack")

-----------------------------------------------------------------------------
(* Requests: submit, cancel, and the sign-out of the principal *)

(* submit: the confirmed prestate is what the preflight read found. *)
Submit(j) ==
  /\ jobStatus[j] = "absent"
  /\ Cardinality({k \in Jobs : Outstanding(k)}) < MaxOutstanding
  /\ jobStatus' = [jobStatus EXCEPT ![j] = "queued"]
  /\ itemStatus' = [i \in Items |-> IF JobOf[i] = j THEN "queued" ELSE itemStatus[i]]
  /\ prestate' = [i \in Items |-> IF JobOf[i] = j THEN provider[TargetOf[i]] ELSE prestate[i]]
  /\ UNCHANGED <<cancelRequested, leaseVars, deadlinePassed, sentAt, reconciliation, attempts,
                 providerVars, lockVars, sessionVars, workerVars, reconcilerVars, faults>>

Cancel(j) ==
  /\ Explored("cancel")
  /\ jobStatus[j] \in {"queued", "running", "waiting_authorization", "partial"}
  /\ cancelRequested' = [cancelRequested EXCEPT ![j] = TRUE]
  /\ LET st == [i \in Items |-> IF JobOf[i] = j /\ itemStatus[i] = "queued"
                                THEN "cancelled" ELSE itemStatus[i]]
     IN /\ itemStatus' = st
        /\ jobStatus' = IF HasStatus(j, st, "running") THEN jobStatus
                        ELSE [jobStatus EXCEPT ![j] = Aggregate(j, st, TRUE)]
  /\ UNCHANGED <<leaseVars, deadlinePassed, sentAt, reconciliation, prestate, attempts,
                 providerVars, lockVars, sessionVars, workerVars, reconcilerVars, faults>>

(* revokeAccountSessionMutations bumps the generation of the process that   *)
(* handles the sign-out, at once, and queues the cleanup there; what runs   *)
(* in other processes does not see it ...                                   *)
RevokeSession(h) ==
  /\ h \notin revoking
  /\ Fault("signout")
  /\ session' = [session EXCEPT ![h] = @ + 1]
  /\ revoking' = revoking \cup {h}
  /\ wbarred' = [w \in Workers |-> IF HostOf[w] = h /\ pc[w] # "idle" THEN Items ELSE wbarred[w]]
  /\ UNCHANGED <<jobVars, itemVars, providerVars, lockVars, epoch, pc, wjob, wresume, wversion,
                 witem, wsent, wsession, wepoch, reconcilerVars>>

(* ... of which one part parks unleased queued jobs ...                     *)
PauseQueuedJobs(h) ==
  /\ h \in revoking
  /\ jobStatus' = [j \in Jobs |->
       IF /\ jobStatus[j] = "queued"
          /\ leaseOwner[j] = None
          /\ HasStatus(j, itemStatus, "queued")
       THEN "waiting_authorization" ELSE jobStatus[j]]
  /\ UNCHANGED <<cancelRequested, leaseVars, deadlinePassed, itemVars, providerVars, lockVars,
                 sessionVars, workerVars, reconcilerVars, faults>>

(* ... and another, which may fail, revokes the principal's epoch in the    *)
(* database: what is not marked sent then is out of reach of every worker   *)
(* that has claimed its job, in any process.                                *)
RevokeEpoch(h) ==
  /\ h \in revoking
  /\ revoking' = revoking \ {h}
  /\ epoch' \in {epoch, epoch + 1}
  /\ wbarred' = [w \in Workers |->
       IF epoch' # epoch /\ pc[w] \notin {"idle", "authorizing"}
       THEN wbarred[w] \cup {i \in Items : ~sentAt[i]} ELSE wbarred[w]]
  /\ UNCHANGED <<jobVars, itemVars, providerVars, lockVars, session, pc, wjob, wresume, wversion,
                 witem, wsent, wsession, wepoch, reconcilerVars, faults>>

-----------------------------------------------------------------------------
(* A worker: launchBulkJob and runBulkJob *)

(* Every exit of runBulkJob drops its locals; withPackageLock unlocks first. *)
Exit(w) ==
  /\ pc' = [pc EXCEPT ![w] = "idle"]
  /\ wjob' = [wjob EXCEPT ![w] = None]
  /\ wresume' = [wresume EXCEPT ![w] = FALSE]
  /\ wversion' = [wversion EXCEPT ![w] = 0]
  /\ witem' = [witem EXCEPT ![w] = None]
  /\ wsent' = [wsent EXCEPT ![w] = FALSE]
  /\ wsession' = [wsession EXCEPT ![w] = 0]
  /\ wepoch' = [wepoch EXCEPT ![w] = 0]
  /\ wbarred' = [wbarred EXCEPT ![w] = {}]
  /\ Unlock(w)

Goto(w, label) == pc' = [pc EXCEPT ![w] = label]

CanResume(j) ==
  /\ jobStatus[j] \in {"waiting_authorization", "partial"}
  /\ ~Exhausted(j)
  /\ ~cancelRequested[j]
  /\ HasStatus(j, itemStatus, "queued")

(* A process runs a job once at a time; sign-in waits for the cleanup above. *)
Launch(w, j, resume) ==
  /\ pc[w] = "idle"
  /\ jobStatus[j] # "absent"
  /\ \A v \in Workers : HostOf[v] = HostOf[w] => wjob[v] # j
  /\ resume => CanResume(j)
  /\ HostOf[w] \notin revoking
  /\ Goto(w, "authorizing")
  /\ wjob' = [wjob EXCEPT ![w] = j]
  /\ wresume' = [wresume EXCEPT ![w] = resume]
  /\ wsession' = [wsession EXCEPT ![w] = session[HostOf[w]]]
  /\ UNCHANGED <<jobVars, itemVars, providerVars, lockVars, sessionVars, wversion, witem, wsent,
                 wepoch, wbarred, reconcilerVars, faults>>

(* No current authority: waitForAuthorization, then the worker stops. *)
AuthorizationFails(w) ==
  LET j == wjob[w] IN
  /\ pc[w] = "authorizing"
  /\ jobStatus' = IF jobStatus[j] = "queued" /\ leaseOwner[j] = None
                  THEN [jobStatus EXCEPT ![j] = "waiting_authorization"] ELSE jobStatus
  /\ Exit(w)
  /\ UNCHANGED <<cancelRequested, leaseVars, deadlinePassed, itemVars, providerVars, sessionVars,
                 reconcilerVars, faults>>

(* Faulty: no limit on attempts. *)
ClaimableForever(j, resume) ==
  /\ ~cancelRequested[j]
  /\ ~deadlinePassed[j]
  /\ leaseOwner[j] = None \/ ~leaseLive[j]
  /\ \/ jobStatus[j] = "queued"
     \/ resume /\ jobStatus[j] \in {"waiting_authorization", "partial"}
  /\ HasStatus(j, itemStatus, "queued")

Claimable(j, resume) ==
  /\ ~cancelRequested[j]
  /\ ~Exhausted(j)
  /\ leaseOwner[j] = None \/ ~leaseLive[j]
  /\ \/ jobStatus[j] = "queued"
     \/ resume /\ jobStatus[j] \in {"waiting_authorization", "partial"}
  /\ HasStatus(j, itemStatus, "queued")

(* claim; ack is FALSE when the acknowledgement of the COMMIT is lost. *)
Claim(w, ack) ==
  LET j == wjob[w] IN
  /\ pc[w] = "authorizing"
  /\ Claimable(j, wresume[w])
  /\ jobStatus' = [jobStatus EXCEPT ![j] = "running"]
  /\ leaseOwner' = [leaseOwner EXCEPT ![j] = HostOf[w]]
  /\ leaseVersion' = [leaseVersion EXCEPT ![j] = @ + 1]
  /\ leaseLive' = [leaseLive EXCEPT ![j] = TRUE]
  /\ IF ack
     THEN /\ Goto(w, "loop")
          /\ wversion' = [wversion EXCEPT ![w] = leaseVersion[j] + 1]
          /\ wepoch' = [wepoch EXCEPT ![w] = epoch]
          /\ UNCHANGED <<wjob, wresume, witem, wsent, wsession, wbarred, lockVars>>
     ELSE Exit(w)
  /\ Ack(ack)
  /\ UNCHANGED <<cancelRequested, deadlinePassed, itemVars, providerVars, sessionVars, reconcilerVars>>

ClaimRefused(w) ==
  /\ pc[w] = "authorizing"
  /\ ~Claimable(wjob[w], wresume[w])
  /\ Exit(w)
  /\ UNCHANGED <<jobVars, itemVars, providerVars, sessionVars, reconcilerVars, faults>>

QueuedItems(j) == {i \in ItemsOf(j) : itemStatus[i] = "queued"}
FirstQueued(j) == {i \in QueuedItems(j) : \A k \in QueuedItems(j) : Ordinal[i] <= Ordinal[k]}

(* beginItem: the first queued item starts an attempt of this lease. *)
BeginItem(w, ack) ==
  LET j == wjob[w] IN
  /\ pc[w] = "loop"
  /\ Signed(w)
  /\ Fenced(w)
  /\ ~cancelRequested[j]
  /\ ~deadlinePassed[j]
  /\ \E i \in FirstQueued(j) :
       /\ itemStatus' = [itemStatus EXCEPT ![i] = "running"]
       /\ attempts' = [attempts EXCEPT ![i][wversion[w]] = "open"]
       /\ witem' = [witem EXCEPT ![w] = IF ack THEN i ELSE None]
  /\ Goto(w, IF ack THEN "begun" ELSE "releasing")
  /\ Ack(ack)
  /\ UNCHANGED <<jobVars, sentAt, reconciliation, prestate, providerVars, lockVars, sessionVars,
                 wjob, wresume, wversion, wsent, wsession, wepoch, wbarred, reconcilerVars>>

(* beginItem after the deadline fails everything still queued. *)
BeginItemExpired(w) ==
  LET j == wjob[w] IN
  /\ pc[w] = "loop"
  /\ Signed(w)
  /\ Fenced(w)
  /\ ~cancelRequested[j]
  /\ deadlinePassed[j]
  /\ itemStatus' = [i \in Items |-> IF i \in QueuedItems(j) THEN "failed" ELSE itemStatus[i]]
  /\ Goto(w, "releasing")
  /\ UNCHANGED <<jobVars, sentAt, reconciliation, prestate, attempts, providerVars, lockVars,
                 sessionVars, wjob, wresume, wversion, witem, wsent, wsession, wepoch, wbarred,
                 reconcilerVars, faults>>

(* The loop ends: nothing to begin, cancelled, aborted, or no authority. *)
Stop(w) ==
  /\ pc[w] = "loop"
  /\ Goto(w, "releasing")
  /\ UNCHANGED <<jobVars, itemVars, providerVars, lockVars, sessionVars, workerLocals,
                 reconcilerVars, faults>>

(* release in the finally block, and pauseForAuthorization, which differs   *)
(* from it only in the error it raises while an item is running.            *)
Release(w) ==
  LET j == wjob[w] IN
  /\ pc[w] = "releasing"
  /\ IF Fenced(w) /\ ~HasStatus(j, itemStatus, "running")
     THEN /\ jobStatus' = [jobStatus EXCEPT ![j] = Aggregate(j, itemStatus, cancelRequested[j])]
          /\ leaseOwner' = [leaseOwner EXCEPT ![j] = None]
          /\ leaseLive' = [leaseLive EXCEPT ![j] = FALSE]
     ELSE UNCHANGED <<jobStatus, leaseOwner, leaseLive>>
  /\ Exit(w)
  /\ UNCHANGED <<cancelRequested, leaseVersion, deadlinePassed, itemVars, providerVars, sessionVars,
                 reconcilerVars, faults>>

-----------------------------------------------------------------------------
(* One item: lock, confirm the prestate, mark sent, write, verify, finish *)

(* Faulty: the lock does not exclude anyone. *)
LockIgnored(t) == t \in Targets

LockFree(t) == lockHolder[t] = None

(* withTargetLock: wait for the package's advisory lock, then fence. *)
TakeTargetLock(w) ==
  LET t == TargetOf[witem[w]] IN
  /\ pc[w] = "begun"
  /\ LockFree(t)
  /\ Fenced(w)
  /\ lockHolder' = [lockHolder EXCEPT ![t] = w]
  /\ Goto(w, "locked")
  /\ UNCHANGED <<jobVars, itemVars, providerVars, lost, disturbed, sessionVars, workerLocals,
                 reconcilerVars, faults>>

(* The first read: already as requested, or a change that still applies. *)
ReadBefore(w) ==
  LET i == witem[w] IN
  /\ pc[w] = "locked"
  /\ Signed(w)
  /\ provider[TargetOf[i]] = prestate[i]
  /\ Goto(w, IF Expected(i) = prestate[i] THEN "unchanged" ELSE "confirmed")
  /\ UNCHANGED <<jobVars, itemVars, providerVars, lockVars, sessionVars, workerLocals,
                 reconcilerVars, faults>>

(* The read immediately before dispatch. *)
ReadImmediate(w) ==
  LET i == witem[w] IN
  /\ pc[w] = "confirmed"
  /\ Signed(w)
  /\ provider[TargetOf[i]] = prestate[i]
  /\ Goto(w, "matched")
  /\ disturbed' = disturbed \ {w}
  /\ UNCHANGED <<jobVars, itemVars, providerVars, lockHolder, lost, sessionVars, workerLocals,
                 reconcilerVars, faults>>

(* The statement markSent's transaction commits, with all its guards. *)
Markable(w) ==
  LET i == witem[w] IN
  /\ Signed(w)
  /\ wepoch[w] = epoch
  /\ Fenced(w)
  /\ ~cancelRequested[wjob[w]]
  /\ ~deadlinePassed[wjob[w]]
  /\ itemStatus[i] = "running"
  /\ ~sentAt[i]

MarkSent(w, ack) ==
  /\ pc[w] = "matched"
  /\ Markable(w)
  /\ sentAt' = [sentAt EXCEPT ![witem[w]] = TRUE]
  /\ IF ack
     THEN /\ Goto(w, "marked")
          /\ wsent' = [wsent EXCEPT ![w] = TRUE]
          /\ UNCHANGED lockVars
     ELSE /\ Goto(w, "failing")
          /\ Unlock(w)
          /\ UNCHANGED wsent
  /\ Ack(ack)
  /\ UNCHANGED <<jobVars, itemStatus, reconciliation, prestate, attempts, providerVars,
                 sessionVars, wjob, wresume, wversion, witem, wsession, wepoch, wbarred,
                 reconcilerVars>>

(* Faulty: a transport that sends the write again after a timeout. *)
PostRetries(w) ==
  LET i == witem[w] IN
  /\ pc[w] \in {"marked", "posted"}
  /\ Signed(w)
  /\ write' = [write EXCEPT ![i] = "inflight"]
  /\ posted' = [posted EXCEPT ![i] = @ + 1]
  /\ Goto(w, "posted")
  /\ UNCHANGED <<jobVars, itemVars, provider, lockVars, sessionVars, workerLocals,
                 reconcilerVars, faults>>

(* Faulty: authority is not checked again between markSent and the write. *)
PostWithoutSession(w) ==
  LET i == witem[w] IN
  /\ pc[w] = "marked"
  /\ write' = [write EXCEPT ![i] = "inflight"]
  /\ posted' = [posted EXCEPT ![i] = @ + 1]
  /\ Goto(w, "posted")
  /\ UNCHANGED <<jobVars, itemVars, provider, lockVars, sessionVars, workerLocals,
                 reconcilerVars, faults>>

(* The one write: from here on its effect is up to the network. *)
Post(w) ==
  LET i == witem[w] IN
  /\ pc[w] = "marked"
  /\ Signed(w)
  /\ write' = [write EXCEPT ![i] = "inflight"]
  /\ posted' = [posted EXCEPT ![i] = @ + 1]
  /\ Goto(w, "posted")
  /\ UNCHANGED <<jobVars, itemVars, provider, lockVars, sessionVars, workerLocals,
                 reconcilerVars, faults>>

(* verifyPackageMutationConverged: some bounded readback shows the request. *)
Verify(w) ==
  LET i == witem[w] IN
  /\ pc[w] = "posted"
  /\ Signed(w)
  /\ write[i] = "applied"
  /\ provider[TargetOf[i]] = Expected(i)
  /\ Goto(w, "verified")
  /\ UNCHANGED <<jobVars, itemVars, providerVars, lockVars, sessionVars, workerLocals,
                 reconcilerVars, faults>>

(* finishItem's update of the item and of the attempt of this lease. *)
Finished(i, v, outcome) ==
  /\ itemStatus' = [itemStatus EXCEPT ![i] = outcome]
  /\ reconciliation' = [reconciliation EXCEPT
       ![i] = IF outcome = "inconclusive" THEN "required" ELSE "not_required"]
  /\ attempts' = [attempts EXCEPT ![i][v] = outcome]
  /\ UNCHANGED <<sentAt, prestate>>

(* finishAuthorized: publish the verified outcome, then give up the lock.   *)
(* Publishing controls may fail afterwards, which ends the worker.          *)
FinishAuthorized(w, ack) ==
  LET i == witem[w] IN
  /\ pc[w] \in {"verified", "unchanged"}
  /\ Signed(w)
  /\ wepoch[w] = epoch
  /\ Fenced(w)
  /\ itemStatus[i] = "running"
  /\ Finished(i, wversion[w], IF pc[w] = "verified" THEN "succeeded" ELSE "skipped")
  /\ \E label \in IF ack THEN {"loop", "releasing"} ELSE {"pausing", "failing"} :
       /\ label = "pausing" => ~wsent[w]
       /\ Goto(w, label)
       /\ IF ack
          THEN /\ witem' = [witem EXCEPT ![w] = None]
               /\ wsent' = [wsent EXCEPT ![w] = FALSE]
          ELSE UNCHANGED <<witem, wsent>>
  /\ Unlock(w)
  /\ Ack(ack)
  /\ UNCHANGED <<jobVars, providerVars, sessionVars, wjob, wresume, wversion,
                 wsession, wepoch, wbarred, reconcilerVars>>

AtItem == {"begun", "locked", "confirmed", "matched", "marked", "posted", "verified", "unchanged"}

(* Any error while an item is in hand: a timeout, a provider or database    *)
(* error, a prestate conflict, a superseded readback, an abort or a lost    *)
(* authority.  The lock goes before the catch block runs.                   *)
ItemFails(w, label) ==
  /\ pc[w] \in AtItem
  /\ label = "pausing" => ~wsent[w]
  /\ Goto(w, label)
  /\ Unlock(w)
  /\ UNCHANGED <<jobVars, itemVars, providerVars, sessionVars, workerLocals,
                 reconcilerVars, faults>>

(* A fence that fails raises lease_lost, which ends the worker at once. *)
LeaseLost(w) ==
  /\ pc[w] \in {"loop", "begun", "matched", "verified", "unchanged", "pausing", "failing"}
  /\ ~Fenced(w)
  /\ Exit(w)
  /\ UNCHANGED <<jobVars, itemVars, providerVars, sessionVars, reconcilerVars, faults>>

PausedAttempt(outcome) == IF outcome = "open" THEN "cancelled" ELSE outcome

(* pauseItemForAuthorization: an unsent attempt returns to the queue, and   *)
(* the job gives up its lease.                                              *)
PauseItem(w) ==
  LET i == witem[w]
      j == wjob[w]
      st == [itemStatus EXCEPT ![i] = IF cancelRequested[j] THEN "cancelled" ELSE "queued"]
  IN
  /\ pc[w] = "pausing"
  /\ Fenced(w)
  /\ itemStatus[i] = "running"
  /\ ~sentAt[i]
  /\ itemStatus' = st
  /\ attempts' = [attempts EXCEPT ![i][wversion[w]] = PausedAttempt(@)]
  /\ jobStatus' = [jobStatus EXCEPT ![j] = Aggregate(j, st, cancelRequested[j])]
  /\ leaseOwner' = [leaseOwner EXCEPT ![j] = None]
  /\ leaseLive' = [leaseLive EXCEPT ![j] = FALSE]
  /\ Exit(w)
  /\ UNCHANGED <<cancelRequested, leaseVersion, deadlinePassed, sentAt, reconciliation, prestate,
                 providerVars, sessionVars, reconcilerVars, faults>>

(* The rest of the catch block: sent work is uncertain, the rest is over.   *)
FinishFailed(w) ==
  LET i == witem[w] IN
  /\ pc[w] = "failing"
  /\ Fenced(w)
  /\ itemStatus[i] = "running"
  /\ \E outcome \in IF wsent[w] THEN {"inconclusive"} ELSE {"cancelled", "failed"} :
       Finished(i, wversion[w], outcome)
  /\ \E label \in {"loop", "releasing"} : Goto(w, label)
  /\ witem' = [witem EXCEPT ![w] = None]
  /\ wsent' = [wsent EXCEPT ![w] = FALSE]
  /\ UNCHANGED <<jobVars, providerVars, lockVars, sessionVars, wjob, wresume, wversion,
                 wsession, wepoch, wbarred, reconcilerVars, faults>>

(* The row is not what the catch block expects (an acknowledgement was      *)
(* lost): already_dispatched or terminal_item leaves the loop.              *)
CatchRefused(w) ==
  LET i == witem[w] IN
  /\ \/ pc[w] = "pausing" /\ (itemStatus[i] # "running" \/ sentAt[i])
     \/ pc[w] = "failing" /\ itemStatus[i] # "running"
  /\ Fenced(w)
  /\ Goto(w, "releasing")
  /\ UNCHANGED <<jobVars, itemVars, providerVars, lockVars, sessionVars, workerLocals,
                 reconcilerVars, faults>>

(* The worker's process dies, or its database calls keep failing. *)
Crash(w) ==
  /\ pc[w] # "idle"
  /\ Fault("crash")
  /\ Exit(w)
  /\ UNCHANGED <<jobVars, itemVars, providerVars, sessionVars, reconcilerVars>>

-----------------------------------------------------------------------------
(* reconcileBulkJob: GET-only, one item at a time *)

Reconcilable(i) ==
  /\ ~cancelRequested[JobOf[i]]
  /\ itemStatus[i] = "inconclusive"
  /\ reconciliation[i] = "required"

(* withReconciliationLock, with the check made under the lock. *)
ReconcileLock(r, i) ==
  /\ rpc[r] = "idle"
  /\ Reconcilable(i)
  /\ LockFree(TargetOf[i])
  /\ lockHolder' = [lockHolder EXCEPT ![TargetOf[i]] = r]
  /\ rpc' = [rpc EXCEPT ![r] = "locked"]
  /\ ritem' = [ritem EXCEPT ![r] = i]
  /\ UNCHANGED <<jobVars, itemVars, providerVars, lost, disturbed, sessionVars, workerVars,
                 robserved, faults>>

ReconcileRead(r) ==
  /\ rpc[r] = "locked"
  /\ robserved' = [robserved EXCEPT ![r] = provider[TargetOf[ritem[r]]]]
  /\ rpc' = [rpc EXCEPT ![r] = "read"]
  /\ UNCHANGED <<jobVars, itemVars, providerVars, lockVars, sessionVars, workerVars, ritem, faults>>

ReconcileExit(r) ==
  /\ rpc' = [rpc EXCEPT ![r] = "idle"]
  /\ ritem' = [ritem EXCEPT ![r] = None]
  /\ robserved' = [robserved EXCEPT ![r] = None]
  /\ Unlock(r)

Verdict(i, observed) ==
  IF observed = Expected(i) THEN "verified_applied"
  ELSE IF observed = prestate[i] THEN "verified_not_applied" ELSE "conflict"

(* recordReconciliation checks the item again, stores the verdict and       *)
(* aggregates the job, whoever holds its lease.                             *)
RecordReconciliation(r) ==
  LET i == ritem[r]
      j == JobOf[i]
      verdict == Verdict(i, robserved[r])
      st == [itemStatus EXCEPT ![i] = IF verdict = "verified_applied" THEN "succeeded" ELSE @]
  IN
  /\ rpc[r] = "read"
  /\ Reconcilable(i)
  /\ itemStatus' = st
  /\ reconciliation' = [reconciliation EXCEPT ![i] = verdict]
  /\ jobStatus' = [jobStatus EXCEPT ![j] = Aggregate(j, st, cancelRequested[j])]
  /\ ReconcileExit(r)
  /\ UNCHANGED <<cancelRequested, leaseVars, deadlinePassed, sentAt, prestate, attempts,
                 providerVars, sessionVars, workerVars, faults>>

(* Refused, timed out, signed out, or no longer reconcilable. *)
ReconcileFails(r) ==
  /\ rpc[r] # "idle"
  /\ ReconcileExit(r)
  /\ UNCHANGED <<jobVars, itemVars, providerVars, sessionVars, workerVars, faults>>

-----------------------------------------------------------------------------
(* recover: the 30 second timer, and with includeQueued startup and resume *)

(* Faulty: only running jobs, and queued ones on request. *)
RecoverableRunningOnly(j, includeQueued) ==
  /\ leaseOwner[j] = None \/ ~leaseLive[j]
  /\ jobStatus[j] = "running" \/ (includeQueued /\ jobStatus[j] = "queued")

Recoverable(j, includeQueued) ==
  /\ leaseOwner[j] = None \/ ~leaseLive[j]
  /\ \/ jobStatus[j] = "running"
     \/ includeQueued /\ jobStatus[j] = "queued"
     \/ /\ jobStatus[j] \in {"queued", "waiting_authorization", "partial"}
        /\ Exhausted(j)
        /\ Unfinished(j)

(* Faulty: selects what was sent instead of what is running. *)
RecoverCandidatesBySend(j, st) ==
  {i \in ItemsOf(j) : st[i] = "running" \/ sentAt[i] \/ (Exhausted(j) /\ st[i] = "queued")}

RecoverCandidates(j, st) ==
  {i \in ItemsOf(j) : st[i] = "running" \/ (Exhausted(j) /\ st[i] = "queued")}

(* Faulty: a restart queues interrupted work again, sent or not. *)
RecoveredStatusForgetsSend(i) ==
  IF itemStatus[i] = "queued" THEN "failed"
  ELSE IF cancelRequested[JobOf[i]] THEN "cancelled" ELSE "queued"

(* Faulty: a restart forgets that the job was cancelled. *)
RecoveredStatusForgetsCancel(i) ==
  IF itemStatus[i] = "queued" THEN "failed"
  ELSE IF sentAt[i] THEN "inconclusive" ELSE "queued"

RecoveredStatus(i) ==
  IF itemStatus[i] = "queued" THEN "failed"
  ELSE IF sentAt[i] THEN "inconclusive"
  ELSE IF cancelRequested[JobOf[i]] THEN "cancelled" ELSE "queued"

ClosedAttempt(i) == IF sentAt[i] THEN "inconclusive" ELSE "cancelled"

(* One transaction settles a byte- and time-bounded batch.  It completes    *)
(* the audit event of the job's current lease version for each interrupted  *)
(* item, and rolls back when that attempt never began.                      *)
Recover(j, includeQueued, batch) ==
  /\ Recoverable(j, includeQueued)
  /\ batch # {} \/ RecoverCandidates(j, itemStatus) = {}
  /\ \A i \in batch : itemStatus[i] = "running" => attempts[i][leaseVersion[j]] # "none"
  /\ LET st == [i \in Items |-> IF i \in batch THEN RecoveredStatus(i) ELSE itemStatus[i]]
         interrupted == {i \in batch : itemStatus[i] = "running"}
     IN /\ itemStatus' = st
        /\ reconciliation' = [i \in Items |-> IF i \in interrupted
             THEN IF sentAt[i] THEN "required" ELSE "not_required" ELSE reconciliation[i]]
        /\ attempts' = [i \in Items |-> IF i \in interrupted
             THEN [v \in Version |-> IF attempts[i][v] = "open" THEN ClosedAttempt(i)
                                     ELSE attempts[i][v]]
             ELSE attempts[i]]
        /\ IF RecoverCandidates(j, st) = {}
           THEN /\ jobStatus' = [jobStatus EXCEPT ![j] = Aggregate(j, st, cancelRequested[j])]
                /\ leaseOwner' = [leaseOwner EXCEPT ![j] = None]
                /\ leaseLive' = [leaseLive EXCEPT ![j] = FALSE]
           ELSE UNCHANGED <<jobStatus, leaseOwner, leaseLive>>
  /\ UNCHANGED <<cancelRequested, leaseVersion, deadlinePassed, sentAt, prestate, providerVars,
                 lockVars, sessionVars, workerVars, reconcilerVars, faults>>

RecoverJob(j, includeQueued) ==
  \E batch \in SUBSET RecoverCandidates(j, itemStatus) : Recover(j, includeQueued, batch)

-----------------------------------------------------------------------------
(* Clocks, the provider, administrators outside the application, PostgreSQL *)

LeaseExpires(j) ==
  /\ Explored("expiry")
  /\ leaseLive[j]
  /\ leaseLive' = [leaseLive EXCEPT ![j] = FALSE]
  /\ UNCHANGED <<jobStatus, cancelRequested, leaseOwner, leaseVersion, deadlinePassed, itemVars,
                 providerVars, lockVars, sessionVars, workerVars, reconcilerVars, faults>>

DeadlinePasses(j) ==
  /\ Explored("deadline")
  /\ jobStatus[j] # "absent"
  /\ ~deadlinePassed[j]
  /\ deadlinePassed' = [deadlinePassed EXCEPT ![j] = TRUE]
  /\ UNCHANGED <<jobStatus, cancelRequested, leaseVars, itemVars, providerVars, lockVars,
                 sessionVars, workerVars, reconcilerVars, faults>>

(* The workers that rely on their last read of package t. *)
Reading(t) == {w \in Workers : pc[w] \in {"matched", "marked"} /\ TargetOf[witem[w]] = t}

(* A write lands when it lands: also after its worker gave up or died. *)
WriteLands(i) ==
  LET t == TargetOf[i]
      guarded == \E w \in Workers : pc[w] = "posted" /\ witem[w] = i /\ w \notin lost
  IN
  /\ write[i] = "inflight"
  /\ write' = [write EXCEPT ![i] = "applied"]
  /\ provider' = [provider EXCEPT ![t] = Expected(i)]
  /\ disturbed' = IF guarded THEN disturbed ELSE disturbed \cup Reading(t)
  /\ UNCHANGED <<jobVars, itemVars, posted, lockHolder, lost, sessionVars, workerVars,
                 reconcilerVars, faults>>

WriteIsLost(i) ==
  /\ write[i] = "inflight"
  /\ write' = [write EXCEPT ![i] = "lost"]
  /\ UNCHANGED <<jobVars, itemVars, provider, posted, lockVars, sessionVars, workerVars,
                 reconcilerVars, faults>>

ExternalEdit(t, s) ==
  /\ Fault("edit")
  /\ provider[t] # s
  /\ provider' = [provider EXCEPT ![t] = s]
  /\ disturbed' = disturbed \cup Reading(t)
  /\ UNCHANGED <<jobVars, itemVars, write, posted, lockHolder, lost, sessionVars, workerVars, reconcilerVars>>

(* The connection that holds the lock dies before its client notices. *)
LockIsLost(t) ==
  /\ lockHolder[t] # None
  /\ Fault("lock")
  /\ lost' = lost \cup {lockHolder[t]}
  /\ lockHolder' = [lockHolder EXCEPT ![t] = None]
  /\ UNCHANGED <<jobVars, itemVars, providerVars, disturbed, sessionVars, workerVars, reconcilerVars>>

-----------------------------------------------------------------------------
RequestStep == \E j \in Jobs : Submit(j) \/ Cancel(j)
SessionStep == \E h \in Processes : RevokeSession(h) \/ PauseQueuedJobs(h) \/ RevokeEpoch(h)
WorkerStep(w) ==
  \/ \E j \in Jobs, resume \in BOOLEAN : Launch(w, j, resume)
  \/ \E ack \in BOOLEAN : Claim(w, ack) \/ BeginItem(w, ack) \/ MarkSent(w, ack)
                          \/ FinishAuthorized(w, ack)
  \/ AuthorizationFails(w) \/ ClaimRefused(w) \/ BeginItemExpired(w) \/ Stop(w) \/ Release(w)
  \/ TakeTargetLock(w) \/ ReadBefore(w) \/ ReadImmediate(w) \/ Post(w) \/ Verify(w)
  \/ \E label \in {"pausing", "failing"} : ItemFails(w, label)
  \/ LeaseLost(w) \/ PauseItem(w) \/ FinishFailed(w) \/ CatchRefused(w) \/ Crash(w)
ReconcilerStep(r) ==
  \/ \E i \in Items : ReconcileLock(r, i)
  \/ ReconcileRead(r) \/ RecordReconciliation(r) \/ ReconcileFails(r)
RecoveryStep == \E j \in Jobs, includeQueued \in BOOLEAN : RecoverJob(j, includeQueued)
ClockStep == \E j \in Jobs : LeaseExpires(j) \/ DeadlinePasses(j)
ProviderStep ==
  \/ \E i \in Items : WriteLands(i) \/ WriteIsLost(i)
  \/ \E t \in Targets : LockIsLost(t) \/ \E s \in States : ExternalEdit(t, s)

Next ==
  \/ RequestStep
  \/ SessionStep
  \/ \E w \in Workers : WorkerStep(w)
  \/ \E r \in Reconcilers : ReconcilerStep(r)
  \/ RecoveryStep
  \/ ClockStep
  \/ ProviderStep

Spec == Init /\ [][Next]_vars

(* Time passes and the recovery timer fires; nobody is obliged to resume,   *)
(* cancel, reconcile or keep a worker alive.                                *)
Fairness ==
  \A j \in Jobs :
    /\ WF_vars(LeaseExpires(j))
    /\ WF_vars(DeadlinePasses(j))
    /\ WF_vars(RecoverJob(j, FALSE))

FairSpec == Spec /\ Fairness

-----------------------------------------------------------------------------
(* Properties *)

(* An item is written to the provider at most once, across crashes,         *)
(* takeovers, resumption and lost acknowledgements ("An item must never be  *)
(* dispatched twice").                                                      *)
AtMostOnceDispatch == \A i \in Items : posted[i] <= 1

(* An item that may have changed the provider is never reported as failed,  *)
(* cancelled, skipped or still waiting: it is running, verified, or         *)
(* inconclusive until a reconciliation. And a job reported as over has      *)
(* nothing left to run.                                                     *)
HonestOutcome ==
  /\ \A i \in Items : posted[i] > 0 => itemStatus[i] \in {"running", "succeeded", "inconclusive"}
  /\ \A j \in Jobs : jobStatus[j] \in {"succeeded", "failed", "cancelled"} => ~Unfinished(j)

(* Unless its lock connection died, or an administrator or an abandoned     *)
(* write changed the package since, a worker about to write overwrites the  *)
(* state that was confirmed: no other job gets between its last read and it.*)
NoLostUpdate ==
  \A w \in Workers :
    (pc[w] \in {"matched", "marked"} /\ w \notin lost \cup disturbed)
      => provider[TargetOf[witem[w]]] = prestate[witem[w]]

(* Attempts account for items: only a running item has an open attempt, and *)
(* that attempt is of the job's current lease, which is where recovery and  *)
(* the audit trail look for it.                                             *)
RunningAttemptIsCurrent ==
  \A i \in Items :
    {v \in Version : attempts[i][v] = "open"} =
      IF itemStatus[i] = "running" THEN {leaseVersion[JobOf[i]]} ELSE {}

(* Never more jobs with work left than the limit admits at submission. *)
OutstandingWithinLimit == Cardinality({j \in Jobs : Unfinished(j)}) <= MaxOutstanding

(* Cancellation stops work that was not sent: afterwards such an item is    *)
(* never sent, never starts, and never goes back to the queue.              *)
CancelStopsUnsentWork ==
  [][\A i \in Items :
       (cancelRequested[JobOf[i]] /\ ~sentAt[i])
         => /\ ~sentAt'[i]
            /\ itemStatus'[i] \in {itemStatus[i]} \cup (ItemOutcome \ {"succeeded", "inconclusive"})
    ]_vars

(* Outcomes are final: nothing rewrites one, except that reconciliation may *)
(* turn an inconclusive item that was really sent into a success.           *)
OutcomesAreFinal ==
  [][\A i \in Items :
       (itemStatus[i] \in ItemOutcome /\ itemStatus'[i] # itemStatus[i])
         => /\ itemStatus[i] = "inconclusive" /\ itemStatus'[i] = "succeeded"
            /\ sentAt[i] /\ reconciliation'[i] = "verified_applied"
    ]_vars

(* A sign-out stops the principal's workers.  In the process that handles   *)
(* it, whatever runs then writes nothing more to the provider.  Elsewhere,  *)
(* once the revocation is in the database, a worker that had claimed its    *)
(* job by then writes at most what it had already marked as sent.  (A       *)
(* worker of another process that was launched before and claims after is   *)
(* not stopped, and nothing here says it is.)                               *)
NoWriteAfterSignOut ==
  [][\A w \in Workers :
       (pc[w] = "marked" /\ pc'[w] = "posted") => witem[w] \notin wbarred[w]
    ]_vars

(* Every job a user submits comes to rest without anyone's help: its items  *)
(* leave queued and running for good, whatever workers do.                  *)
EveryJobSettles ==
  \A j \in Jobs : (jobStatus[j] # "absent") ~> [](jobStatus[j] # "absent" /\ ~Unfinished(j))
=============================================================================
