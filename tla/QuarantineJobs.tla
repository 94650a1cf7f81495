-------------------------- MODULE QuarantineJobs --------------------------
(***************************************************************************)
(* Durable Copilot Studio quarantine jobs: the repository                  *)
(* (db/copilotStudioQuarantine.ts), the worker that executes a job's items *)
(* and the GET-only reconciler (services/copilotStudioQuarantineJobs.ts),  *)
(* and the recovery of server.ts.  Unlike PackageJobs, two jobs meet here  *)
(* on a target: the confirmed prestate is a state and a timestamp of the   *)
(* provider, and a target with an unsettled write admits no other.  The    *)
(* server is one process, and its map of active jobs holds one worker per  *)
(* job, so workers are named by their jobs.                                *)
(***************************************************************************)
EXTENDS Naturals, FiniteSets

CONSTANTS
  Jobs, Items, Targets,  \* jobs of one principal, their items, (environment, bot) pairs
  JobOf, TargetOf,       \* foreign keys of an item
  Ordinal,               \* position of an item in its job
  Wants,                 \* the quarantine states a job may be submitted with
  Reconcilers,           \* concurrent reconcile requests
  None,                  \* SQL NULL
  MaxActive,             \* workers of the process (2 in the code)
  MaxOutstanding,        \* unfinished jobs of a principal (5 in the code)
  MaxAttempts,           \* claims of a job (10 in the code)
  Disruptions,           \* the kinds of disruption an instance explores
  MaxFaults              \* bound on those that are counted

ASSUME QuarantineAssumption ==
  /\ JobOf \in [Items -> Jobs] /\ TargetOf \in [Items -> Targets] /\ Ordinal \in [Items -> Nat]
  /\ Wants \in [Jobs -> SUBSET BOOLEAN]
  /\ MaxActive \in Nat /\ MaxOutstanding \in Nat /\ MaxAttempts \in Nat /\ MaxFaults \in Nat
  /\ None \notin Jobs \cup Items \cup Reconcilers
  /\ Jobs \cap Reconcilers = {}

VARIABLES
  job,       \* rows of copilot_quarantine_jobs
  item,      \* rows of copilot_quarantine_job_items
  provider,  \* what the provider reports of a target: quarantined, lastUpdateTimeUtc
  write,     \* the POST of each item, and the provider time at which it landed
  lock,      \* session advisory lock of a target
  worker,    \* locals of runCopilotStudioQuarantineJob
  rec,       \* locals of reconcileCopilotStudioQuarantineJob
  phase,     \* of the server process
  revoking,  \* a sign-out has not yet parked the queued jobs
  faults

vars == <<job, item, provider, write, lock, worker, rec, phase, revoking, faults>>
server == <<phase, revoking>>

JobStatus == {"queued", "running", "waiting_authorization", "succeeded", "failed", "cancelled",
              "partial", "inconclusive"}
Outcomes == {"succeeded", "skipped", "failed", "cancelled", "inconclusive"}
Reconciliations == {"not_required", "required", "verified_applied", "verified_not_applied", "conflict"}
ItemsOf(j) == {i \in Items : JobOf[i] = j}
Reading == [on : BOOLEAN, time : Nat]
HeldPc == {"begun", "confirmed", "matched", "marked", "posted", "verified", "unchanged"}
Idle == [pc |-> "idle", item |-> None, sent |-> FALSE, seen |-> None, stop |-> "none"]
NoRequest == [pc |-> "idle", item |-> None, seen |-> None]

(* Every row and local keeps to the values its column or variable may hold, *)
(* and a worker holds an item of its job from its beginning to its outcome. *)
QuarantineTypeOK ==
  /\ job \in [Jobs -> [status : JobStatus \cup {"absent"}, wants : BOOLEAN, cancel : BOOLEAN,
                       lease : {"none", "live", "expired"}, attempts : 0..MaxAttempts,
                       expired : BOOLEAN]]
  /\ item \in [Items -> [status : Outcomes \cup {"queued", "running", "absent"}, sent : BOOLEAN,
                         recon : Reconciliations, prestate : Reading \cup {None},
                         observed : Reading \cup {None}]]
  /\ provider \in [Targets -> Reading]
  /\ write \in [Items -> [state : {"none", "inflight", "landed"}, time : Nat]]
  /\ lock \in [Targets -> Jobs \cup Reconcilers \cup {None}]
  /\ worker \in [Jobs -> [pc : HeldPc \cup {"idle", "authorizing", "resuming", "loop", "failing", "releasing"},
                          item : Items \cup {None}, sent : BOOLEAN, seen : Reading \cup {None},
                          stop : {"none", "auth", "stop"}]]
  /\ \A j \in Jobs : worker[j].pc \in HeldPc \cup {"failing"} <=> worker[j].item \in ItemsOf(j)
  /\ rec \in [Reconcilers -> [pc : {"idle", "read", "stale"}, item : Items \cup {None},
                              seen : Reading \cup {None}]]
  /\ phase \in {"starting", "up", "draining"} /\ revoking \in BOOLEAN
  /\ faults \in 0..MaxFaults

Init ==
  /\ job = [j \in Jobs |-> [status |-> "absent", wants |-> TRUE, cancel |-> FALSE, lease |-> "none",
                            attempts |-> 0, expired |-> FALSE]]
  /\ item = [i \in Items |-> [status |-> "absent", sent |-> FALSE, recon |-> "not_required",
                              prestate |-> None, observed |-> None]]
  /\ provider = [t \in Targets |-> [on |-> FALSE, time |-> 0]]
  /\ write = [i \in Items |-> [state |-> "none", time |-> 0]]
  /\ lock = [t \in Targets |-> None]
  /\ worker = [j \in Jobs |-> Idle]
  /\ rec = [r \in Reconcilers |-> NoRequest]
  /\ phase = "up" /\ revoking = FALSE
  /\ faults = 0

-----------------------------------------------------------------------------
(* Conditions and writes shared by the repository's statements *)

Explored(kind) == kind \in Disruptions
Fault(kind) == Explored(kind) /\ faults < MaxFaults /\ faults' = faults + 1
Ack(ack) == IF ack THEN UNCHANGED faults ELSE Fault("ack")

Has(j, it, status) == \E i \in ItemsOf(j) : it[i].status = status

(* The status aggregate() stores for a job whose items are it. *)
StatusOf(j, it) ==
  IF Has(j, it, "running") THEN "running"
  ELSE IF \E i \in ItemsOf(j) : it[i].status = "inconclusive" /\ it[i].recon = "required"
       THEN "inconclusive"
  ELSE IF Has(j, it, "queued") THEN "waiting_authorization"
  ELSE IF Has(j, it, "cancelled") THEN "cancelled"
  ELSE IF \A i \in ItemsOf(j) : it[i].status = "failed" THEN "failed"
  ELSE IF Has(j, it, "failed") \/ Has(j, it, "inconclusive") THEN "partial"
  ELSE "succeeded"

(* aggregate() first cancels what is queued in a cancelled job. *)
Aggregated(j, row, it) ==
  LET done == [i \in Items |-> IF i \in ItemsOf(j) /\ row.cancel /\ it[i].status = "queued"
                               THEN [it[i] EXCEPT !.status = "cancelled"] ELSE it[i]]
  IN /\ item' = done
     /\ job' = [job EXCEPT ![j] = [row EXCEPT !.status = StatusOf(j, done)]]

Fenced(j) == job[j].lease = "live"

(* Faulty: only what reconciliation awaits counts, not what is being written. *)
UnsettledIfInconclusive(i) == item[i].status = "inconclusive" /\ item[i].recon = "required"

(* A write whose effect is not known: running and sent, or inconclusive. *)
Unsettled(i) ==
  \/ item[i].status = "running" /\ item[i].sent
  \/ item[i].status = "inconclusive" /\ item[i].recon = "required"

(* requireNoUnresolvedTarget, of every job of the tenant. *)
TargetSettled(i) == \A k \in Items \ {i} : TargetOf[k] = TargetOf[i] => ~Unsettled(k)

Authorized(j) == ~job[j].cancel /\ ~job[j].expired

Unlocked(p) == [t \in Targets |-> IF lock[t] = p THEN None ELSE lock[t]]

-----------------------------------------------------------------------------
(* Requests: submit, cancel, and the sign-out of the principal *)

Outstanding(j) == job[j].status \in {"queued", "running", "waiting_authorization"}

Submit(j, wants) ==
  /\ phase = "up" /\ ~revoking
  /\ job[j].status = "absent"
  /\ \A i \in ItemsOf(j), k \in Items :
       TargetOf[k] = TargetOf[i] => ~(item[k].status = "inconclusive" /\ item[k].recon = "required")
  /\ Cardinality({k \in Jobs : Outstanding(k)}) < MaxOutstanding
  /\ job' = [job EXCEPT ![j].status = "queued", ![j].wants = wants]
  /\ item' = [i \in Items |-> IF i \in ItemsOf(j)
                THEN [item[i] EXCEPT !.status = "queued", !.prestate = provider[TargetOf[i]]]
                ELSE item[i]]
  /\ UNCHANGED <<provider, write, lock, worker, rec, server, faults>>

Cancel(j) ==
  /\ phase = "up"
  /\ job[j].status # "absent" /\ ~job[j].cancel
  /\ Fault("cancel")
  /\ Aggregated(j, [job[j] EXCEPT !.cancel = TRUE], item)
  /\ UNCHANGED <<provider, write, lock, worker, rec, server>>

Stopped(w, why) == IF w.pc # "idle" /\ w.stop = "none" THEN [w EXCEPT !.stop = why] ELSE w

Refused(request) == IF request.pc = "idle" THEN request ELSE [request EXCEPT !.pc = "stale"]

(* ... and once the row is cancelled, the request aborts the worker. *)
AbortCancelled(j) ==
  /\ job[j].cancel
  /\ worker[j].pc # "idle" /\ worker[j].stop = "none"
  /\ worker' = [worker EXCEPT ![j] = Stopped(@, "stop")]
  /\ UNCHANGED <<job, item, provider, write, lock, rec, server, faults>>

(* A sign-out makes every check of authority fail at once ... *)
RevokeSession ==
  /\ ~revoking
  /\ Fault("signout")
  /\ revoking' = TRUE
  /\ worker' = [j \in Jobs |-> Stopped(worker[j], "auth")]
  /\ rec' = [r \in Reconcilers |-> Refused(rec[r])]
  /\ UNCHANGED <<job, item, provider, write, lock, phase>>

Parked(row) ==
  IF row.status = "queued" /\ row.lease = "none"
  THEN [row EXCEPT !.status = "waiting_authorization"] ELSE row

(* ... and its cleanup parks the jobs nobody has claimed. *)
ParkQueued ==
  /\ revoking
  /\ revoking' = FALSE
  /\ job' = [j \in Jobs |-> Parked(job[j])]
  /\ UNCHANGED <<item, provider, write, lock, worker, rec, phase, faults>>

(* drainCopilotStudioQuarantineJobs, before the process ends. *)
Drain ==
  /\ phase = "up"
  /\ Fault("drain")
  /\ phase' = "draining"
  /\ worker' = [j \in Jobs |-> Stopped(worker[j], "stop")]
  /\ rec' = [r \in Reconcilers |-> Refused(rec[r])]
  /\ UNCHANGED <<job, item, provider, write, lock, revoking>>

-----------------------------------------------------------------------------
(* A worker: launch, claim, the loop over items, release *)

Goto(j, label) == worker' = [worker EXCEPT ![j].pc = label]
(* Faulty: the locals of the last item survive it. *)
KeepItem(j, label) == Goto(j, label)

LeaveItem(j, label) ==
  worker' = [worker EXCEPT ![j] = [Idle EXCEPT !.pc = label, !.stop = worker[j].stop]]

CanResume(j) ==
  /\ job[j].status = "waiting_authorization"
  /\ Authorized(j) /\ job[j].attempts < MaxAttempts
  /\ Has(j, item, "queued")

Launch(j, resume) ==
  /\ phase = "up" /\ ~revoking
  /\ worker[j].pc = "idle"
  /\ Cardinality({k \in Jobs : worker[k].pc # "idle"}) < MaxActive
  /\ IF resume THEN CanResume(j) ELSE job[j].status = "queued"
  /\ Goto(j, IF resume THEN "resuming" ELSE "authorizing")
  /\ UNCHANGED <<job, item, provider, write, lock, rec, server, faults>>

Claimable(j, resume) ==
  /\ Authorized(j) /\ job[j].attempts < MaxAttempts
  /\ job[j].lease # "live"
  /\ \/ job[j].status = "queued"
     \/ resume /\ job[j].status = "waiting_authorization"
  /\ Has(j, item, "queued")

Claim(j) ==
  /\ worker[j].pc \in {"authorizing", "resuming"}
  /\ worker[j].stop = "none"
  /\ Claimable(j, worker[j].pc = "resuming")
  /\ job' = [job EXCEPT ![j].status = "running", ![j].lease = "live", ![j].attempts = @ + 1]
  /\ Goto(j, "loop")
  /\ UNCHANGED <<item, provider, write, lock, rec, server, faults>>

(* No authority: waitForAuthorization; or the claim finds nothing to do. *)
NotClaimed(j) ==
  /\ worker[j].pc \in {"authorizing", "resuming"}
  /\ \/ job' = [job EXCEPT ![j] = Parked(@)]
     \/ ~Claimable(j, worker[j].pc = "resuming") /\ UNCHANGED job
  /\ worker' = [worker EXCEPT ![j] = Idle]
  /\ UNCHANGED <<item, provider, write, lock, rec, server, faults>>

Queued(j) == {i \in ItemsOf(j) : item[i].status = "queued"}

BeginItem(j) ==
  /\ worker[j].pc = "loop" /\ worker[j].stop = "none"
  /\ Fenced(j) /\ Authorized(j)
  /\ \E i \in Queued(j) :
       /\ \A k \in Queued(j) : Ordinal[i] <= Ordinal[k]
       /\ item' = [item EXCEPT ![i].status = "running"]
       /\ worker' = [worker EXCEPT ![j].pc = "begun", ![j].item = i]
  /\ job' = [job EXCEPT ![j].status = "running"]
  /\ UNCHANGED <<provider, write, lock, rec, server, faults>>

(* The loop ends (no item, cancelled, expired, aborted, no authority), and  *)
(* release; lease_lost is ignored, and so is a job with an item running.    *)
Release(j) ==
  LET row == [job[j] EXCEPT !.lease = "none"] IN
  /\ worker[j].pc \in {"loop", "releasing"}
  /\ IF ~Fenced(j) THEN UNCHANGED <<job, item>>
     ELSE IF Has(j, item, "running") THEN job' = [job EXCEPT ![j] = row] /\ UNCHANGED item
     ELSE Aggregated(j, row, item)
  /\ worker' = [worker EXCEPT ![j] = Idle]
  /\ UNCHANGED <<provider, write, lock, rec, server, faults>>

-----------------------------------------------------------------------------
(* One item: lock, confirm the prestate twice, mark sent, write, verify *)

TargetAt(j) == TargetOf[worker[j].item]

(* requireCurrentItem: the session and the abort signal; the deadline of    *)
(* the item is one of the reasons of ItemFails.                             *)
Current(j) == worker[j].stop = "none"

(* assertDispatchReady, then a GET in the lock of the target: the state is   *)
(* already as requested, or it is the one that was confirmed.               *)
ReadStatus(j) ==
  LET i == worker[j].item
      status == provider[TargetOf[i]]
  IN
  /\ Fenced(j) /\ Current(j) /\ Authorized(j) /\ TargetSettled(i)
  /\ \/ /\ status.on = job[j].wants
        /\ worker' = [worker EXCEPT ![j].pc = "unchanged", ![j].seen = status]
     \/ /\ status.on # job[j].wants /\ status = item[i].prestate
        /\ Goto(j, IF worker[j].pc = "begun" THEN "confirmed" ELSE "matched")
  /\ UNCHANGED <<job, item, provider, write, rec, server, faults>>

(* withTargetLock and the first read ...                                    *)
ReadFirst(j) ==
  /\ worker[j].pc = "begun"
  /\ lock[TargetAt(j)] = None
  /\ lock' = [lock EXCEPT ![TargetAt(j)] = j]
  /\ ReadStatus(j)

(* ... and a second one right before the write.                             *)
ReadAgain(j) ==
  /\ worker[j].pc = "confirmed"
  /\ ReadStatus(j)
  /\ UNCHANGED lock

(* Faulty: other writes to the target are only checked before the last read. *)
MarkableUnchecked(j) ==
  LET i == worker[j].item IN
  Fenced(j) /\ Current(j) /\ Authorized(j) /\ item[i].status = "running" /\ ~item[i].sent

(* Faulty: a cancelled job may still send. *)
MarkableCancelled(j) ==
  LET i == worker[j].item IN
  Fenced(j) /\ Current(j) /\ TargetSettled(i) /\ item[i].status = "running" /\ ~item[i].sent

Markable(j) ==
  LET i == worker[j].item IN
  Fenced(j) /\ Current(j) /\ Authorized(j) /\ TargetSettled(i) /\ item[i].status = "running" /\ ~item[i].sent

(* markSent; ack is FALSE when the acknowledgement of the COMMIT is lost. *)
MarkSent(j, ack) ==
  /\ worker[j].pc = "matched"
  /\ Markable(j)
  /\ item' = [item EXCEPT ![worker[j].item].sent = TRUE]
  /\ worker' = [worker EXCEPT ![j].pc = IF ack THEN "marked" ELSE "failing", ![j].sent = ack]
  /\ lock' = IF ack THEN lock ELSE Unlocked(j)
  /\ Ack(ack)
  /\ UNCHANGED <<job, provider, write, rec, server>>

(* The one POST: from here on its effect is up to the network. *)
Post(j) ==
  /\ worker[j].pc = "marked" /\ Current(j)
  /\ write' = [write EXCEPT ![worker[j].item].state = "inflight"]
  /\ Goto(j, "posted")
  /\ UNCHANGED <<job, item, provider, lock, rec, server, faults>>

(* verifyCopilotStudioQuarantineConverged: some readback shows the request. *)
Verify(j) ==
  /\ worker[j].pc = "posted" /\ Current(j)
  /\ provider[TargetAt(j)].on = job[j].wants
  /\ worker' = [worker EXCEPT ![j].pc = "verified", ![j].seen = provider[TargetAt(j)]]
  /\ UNCHANGED <<job, item, provider, write, lock, rec, server, faults>>

(* finishAuthorized: authority once more, then the outcome and its evidence. *)
Finish(j, ack) ==
  LET w == worker[j] IN
  /\ w.pc \in {"verified", "unchanged"}
  /\ Current(j) /\ Fenced(j) /\ Authorized(j)
  /\ item[w.item].status = "running"
  /\ item' = [item EXCEPT ![w.item].status = IF w.pc = "verified" THEN "succeeded" ELSE "skipped",
                          ![w.item].observed = w.seen]
  /\ IF ack THEN LeaveItem(j, "loop") ELSE Goto(j, "failing")
  /\ lock' = Unlocked(j)
  /\ Ack(ack)
  /\ UNCHANGED <<job, provider, write, rec, server>>

(* Any error with an item in hand; the lock goes before the catch block. *)
ItemFails(j) ==
  /\ worker[j].pc \in HeldPc
  /\ Goto(j, "failing")
  /\ lock' = Unlocked(j)
  /\ UNCHANGED <<job, item, provider, write, rec, server, faults>>

(* The catch block sees the reason of the abort before the error. *)
Reasons(j) ==
  IF worker[j].stop # "none" THEN {worker[j].stop}
  ELSE {"auth", "failed"} \cup (IF job[j].cancel THEN {"stop"} ELSE {})

(* pauseItemForAuthorization: unsent work returns to the queue, unleased. *)
PauseItem(j) ==
  LET i == worker[j].item IN
  /\ worker[j].pc = "failing" /\ ~worker[j].sent /\ "auth" \in Reasons(j)
  /\ Fenced(j) /\ item[i].status = "running" /\ ~item[i].sent
  /\ Aggregated(j, [job[j] EXCEPT !.lease = "none"], [item EXCEPT ![i].status = "queued"])
  /\ LeaveItem(j, "releasing")
  /\ UNCHANGED <<provider, write, lock, rec, server, faults>>

(* Faulty: the catch block does not ask whether the write was sent. *)
FailedForgetsSend(j) ==
  {IF reason = "stop" THEN "cancelled" ELSE "failed" : reason \in Reasons(j) \ {"auth"}}

FailedAs(j) ==
  IF worker[j].sent THEN {"inconclusive"}
  ELSE {IF reason = "stop" THEN "cancelled" ELSE "failed" : reason \in Reasons(j) \ {"auth"}}

(* finishItem in the catch block: sent work is uncertain, the rest is over. *)
FinishFailed(j) ==
  LET i == worker[j].item IN
  /\ worker[j].pc = "failing"
  /\ Fenced(j) /\ item[i].status = "running"
  /\ \E outcome \in FailedAs(j) :
       item' = [item EXCEPT ![i].status = outcome,
                  ![i].recon = IF outcome = "inconclusive" THEN "required" ELSE "not_required"]
  /\ LeaveItem(j, IF worker[j].stop = "none" THEN "loop" ELSE "releasing")
  /\ UNCHANGED <<job, provider, write, lock, rec, server, faults>>

(* The catch block cannot store that: the lease or the authority to publish *)
(* evidence is gone, the row already has an outcome, or the database fails. *)
PersistFails(j) ==
  /\ worker[j].pc = "failing"
  /\ LeaveItem(j, "releasing")
  /\ UNCHANGED <<job, item, provider, write, lock, rec, server, faults>>

-----------------------------------------------------------------------------
(* reconcileCopilotStudioQuarantineJob: GET-only, one item at a time *)

AwaitsReconciliation(i) == item[i].status = "inconclusive" /\ item[i].recon = "required"

(* withReconciliationLock, and the one read in it. *)
ReconcileRead(r, i) ==
  /\ phase = "up" /\ ~revoking
  /\ rec[r].pc = "idle"
  /\ AwaitsReconciliation(i) /\ lock[TargetOf[i]] = None
  /\ lock' = [lock EXCEPT ![TargetOf[i]] = r]
  /\ rec' = [rec EXCEPT ![r] = [pc |-> "read", item |-> i, seen |-> provider[TargetOf[i]]]]
  /\ UNCHANGED <<job, item, provider, write, worker, server, faults>>

(* Faulty: the state alone shows that nothing changed. *)
VerdictByState(i, seen) ==
  IF seen.on = job[JobOf[i]].wants THEN "verified_applied"
  ELSE IF seen.on = item[i].prestate.on THEN "verified_not_applied" ELSE "conflict"

Verdict(i, seen) ==
  IF seen.on = job[JobOf[i]].wants THEN "verified_applied"
  ELSE IF seen = item[i].prestate THEN "verified_not_applied" ELSE "conflict"

(* recordReconciliation: only once, whoever holds the job's lease. *)
RecordReconciliation(r) ==
  LET i == rec[r].item
      verdict == Verdict(i, rec[r].seen)
  IN
  /\ rec[r].pc = "read"
  /\ AwaitsReconciliation(i)
  /\ Aggregated(JobOf[i], job[JobOf[i]],
       [item EXCEPT ![i].recon = verdict, ![i].observed = rec[r].seen,
                    ![i].status = IF verdict = "verified_applied" THEN "succeeded" ELSE @])
  /\ rec' = [rec EXCEPT ![r] = NoRequest]
  /\ lock' = Unlocked(r)
  /\ UNCHANGED <<provider, write, worker, server, faults>>

(* Refused, timed out, signed out, or no longer awaiting reconciliation. *)
ReconcileFails(r) ==
  /\ rec[r].pc # "idle"
  /\ rec' = [rec EXCEPT ![r] = NoRequest]
  /\ lock' = Unlocked(r)
  /\ UNCHANGED <<job, item, provider, write, worker, server, faults>>

-----------------------------------------------------------------------------
(* recover: at startup whatever runs, from then on what lost its lease *)

(* Faulty: a job that runs is recovered, whether or not its lease is live. *)
RecoverableLive(j) == job[j].status = "running" /\ phase \in {"starting", "up"}

(* Faulty: a released job with an item still running is never found. *)
RecoverableIfExpired(j) ==
  /\ job[j].status = "running"
  /\ \/ phase = "starting"
     \/ phase = "up" /\ job[j].lease = "expired"

Recoverable(j) ==
  /\ job[j].status = "running"
  /\ \/ phase = "starting"
     \/ phase = "up" /\ job[j].lease # "live"

Recovered(row, cancelled) ==
  IF row.status = "running" /\ row.sent THEN [row EXCEPT !.status = "inconclusive", !.recon = "required"]
  ELSE IF row.status = "running" THEN [row EXCEPT !.status = IF cancelled THEN "cancelled" ELSE "queued"]
  ELSE IF row.status = "queued" /\ cancelled THEN [row EXCEPT !.status = "cancelled"] ELSE row

Recover(j) ==
  /\ Recoverable(j)
  /\ Aggregated(j, [job[j] EXCEPT !.lease = "none"],
       [i \in Items |-> IF i \in ItemsOf(j) THEN Recovered(item[i], job[j].cancel) ELSE item[i]])
  /\ UNCHANGED <<provider, write, lock, worker, rec, server, faults>>

(* Startup also parks what was queued, once nothing is left to recover. *)
RecoverQueued(j) ==
  /\ phase = "starting"
  /\ \A k \in Jobs : job[k].status # "running"
  /\ job[j].status = "queued" /\ job[j].lease = "none"
  /\ job' = [job EXCEPT ![j] = Parked(@)]
  /\ UNCHANGED <<item, provider, write, lock, worker, rec, server, faults>>

(* Maintenance may close the admissions before all is recovered. *)
Listen ==
  /\ phase = "starting"
  /\ phase' = "up"
  /\ UNCHANGED <<job, item, provider, write, lock, worker, rec, revoking, faults>>

(* The process ends, with its memory and its connections; another starts. *)
ProcessEnds ==
  /\ \/ phase = "draining" /\ UNCHANGED faults
     \/ phase = "up" /\ Fault("crash")
  /\ phase' = "starting"
  /\ revoking' = FALSE
  /\ worker' = [j \in Jobs |-> Idle]
  /\ rec' = [r \in Reconcilers |-> NoRequest]
  /\ lock' = [t \in Targets |-> None]
  /\ UNCHANGED <<job, item, provider, write>>

-----------------------------------------------------------------------------
(* Clocks, the network, administrators outside the application, PostgreSQL *)

(* A lease lasts 120 seconds and is renewed when an item is begun, which is *)
(* stopped after 30 seconds: it ends under a worker that cannot finish.     *)
LeaseExpires(j) ==
  /\ Explored("expiry")
  /\ job[j].lease = "live" /\ worker[j].pc \notin HeldPc
  /\ job' = [job EXCEPT ![j].lease = "expired"]
  /\ UNCHANGED <<item, provider, write, lock, worker, rec, server, faults>>

JobExpires(j) ==
  /\ job[j].status # "absent" /\ ~job[j].expired
  /\ Fault("deadline")
  /\ job' = [job EXCEPT ![j].expired = TRUE]
  /\ UNCHANGED <<item, provider, write, lock, worker, rec, server>>

Changed(t, on) == provider' = [provider EXCEPT ![t] = [on |-> on, time |-> @.time + 1]]

(* A write lands when it lands, also after its worker gave up, or never. *)
WriteLands(i) ==
  LET t == TargetOf[i] IN
  /\ write[i].state = "inflight"
  /\ Changed(t, job[JobOf[i]].wants)
  /\ write' = [write EXCEPT ![i] = [state |-> "landed", time |-> provider[t].time + 1]]
  /\ UNCHANGED <<job, item, lock, worker, rec, server, faults>>

ExternalEdit(t) ==
  /\ Fault("edit")
  /\ Changed(t, ~provider[t].on)
  /\ UNCHANGED <<job, item, write, lock, worker, rec, server>>

(* The connection that holds the lock dies before its client notices. *)
LockIsLost(t) ==
  /\ lock[t] # None
  /\ Fault("lock")
  /\ lock' = [lock EXCEPT ![t] = None]
  /\ UNCHANGED <<job, item, provider, write, worker, rec, server>>

-----------------------------------------------------------------------------
JobStep(j) ==
  \/ \E wants \in Wants[j] : Submit(j, wants)
  \/ Cancel(j) \/ AbortCancelled(j) \/ JobExpires(j) \/ LeaseExpires(j)
  \/ Recover(j) \/ RecoverQueued(j)
WorkerStep(j) ==
  \/ \E resume \in BOOLEAN : Launch(j, resume)
  \/ Claim(j) \/ NotClaimed(j) \/ BeginItem(j) \/ Release(j)
  \/ ReadFirst(j) \/ ReadAgain(j) \/ Post(j) \/ Verify(j)
  \/ \E ack \in BOOLEAN : MarkSent(j, ack) \/ Finish(j, ack)
  \/ ItemFails(j) \/ PauseItem(j) \/ FinishFailed(j) \/ PersistFails(j)
ReconcilerStep(r) ==
  \/ \E i \in Items : ReconcileRead(r, i)
  \/ RecordReconciliation(r) \/ ReconcileFails(r)
EnvironmentStep ==
  \/ RevokeSession \/ ParkQueued \/ Drain \/ ProcessEnds \/ Listen
  \/ \E i \in Items : WriteLands(i)
  \/ \E t \in Targets : ExternalEdit(t) \/ LockIsLost(t)

Next ==
  \/ \E j \in Jobs : JobStep(j) \/ WorkerStep(j)
  \/ \E r \in Reconcilers : ReconcilerStep(r)
  \/ EnvironmentStep

Spec == Init /\ [][Next]_vars

-----------------------------------------------------------------------------
(* Properties *)

(* Across jobs, crashes and lost locks, at most one write to a target has   *)
(* an effect that is not known: requireNoUnresolvedTarget in the tenant's   *)
(* lock, with recovery and reconciliation moving items in and out.          *)
OneUnsettledWritePerTarget ==
  \A i, k \in Items :
    (i # k /\ TargetOf[i] = TargetOf[k]) => ~(Unsettled(i) /\ Unsettled(k))

(* What may have been written is never reported as failed, cancelled,       *)
(* skipped or waiting ("use GET reconciliation and never replay this        *)
(* item"), and a job that is not under way reports inconclusive exactly as  *)
(* long as one of its items awaits reconciliation.                          *)
HonestOutcome ==
  /\ \A i \in Items :
       write[i].state # "none" => item[i].status \in {"running", "succeeded", "inconclusive"}
  /\ \A j \in Jobs :
       job[j].status \notin {"running", "queued"}
         => (job[j].status = "inconclusive" <=> \E i \in ItemsOf(j) : AwaitsReconciliation(i))

(* The evidence stored with a verdict supports it: a write judged not       *)
(* applied had not landed when the provider was read, and a success shows   *)
(* the requested state at a time after the confirmed prestate.              *)
EvidenceIsSound ==
  \A i \in Items :
    /\ (item[i].recon = "verified_not_applied" /\ write[i].state = "landed")
         => item[i].observed.time < write[i].time
    /\ item[i].status = "succeeded"
         => /\ item[i].observed.on = job[JobOf[i]].wants
            /\ item[i].observed.time > item[i].prestate.time

(* A POST leaves once per item, while the database still says that the item *)
(* is being written and no other item of the target is unsettled; never     *)
(* after recovery has taken the item or a reconciliation has judged it.     *)
OneWriteAtATime ==
  [][\A j \in Jobs :
       (worker[j].pc = "marked" /\ worker'[j].pc = "posted")
         => LET i == worker[j].item IN
            /\ write[i].state = "none"
            /\ item[i].status = "running" /\ item[i].sent
            /\ TargetSettled(i)
    ]_vars

(* After a cancellation, an item that was not marked sent is never sent,    *)
(* and ends without claiming that it was verified.                          *)
CancelStopsUnsentWork ==
  [][\A i \in Items :
       (job[JobOf[i]].cancel /\ ~item[i].sent)
         => ~item'[i].sent /\ item'[i].status \in {item[i].status, "failed", "cancelled"}
    ]_vars

(* No way out of an item loses it: the recovery finds a running item now,   *)
(* or as soon as its lease has expired, or when the process starts again.   *)
NoItemIsStranded ==
  \A i \in Items :
    LET j == JobOf[i] IN
    item[i].status = "running" =>
      \/ job[j].lease = "live" /\ job[j].status = "running"
      \/ Recoverable(j)
      \/ phase = "draining"
=============================================================================
