------------------------------ MODULE DataSync ------------------------------
(***************************************************************************)
(* The data sync coordinator (services/dataSync.ts) and its runs           *)
(* (db/dataSync.ts), composed with the refresh jobs its sources submit.    *)
(* A run row and its sources are durable; the worker of a run, the         *)
(* requests being admitted, the trackers of child jobs whose clean-up is   *)
(* owed, a cancellation and a sign-out in progress live in one process and *)
(* are gone when it restarts.                                              *)
(* A source's child is <<run, source, attempt>>: its idempotency key.      *)
(***************************************************************************)
EXTENDS RefreshJobs

CONSTANTS
  Runs, OwnerOf,   \* runs, and the principal of each
  Providers,       \* sources collected by a child job
  Usage,           \* {usage_reports}, or empty
  Requests,        \* HTTP requests being admitted at once
  MaxAttempts,     \* bounds a source's attempts (20 in the code)
  MaxActive,       \* runs that execute at once (4 in the code)
  FaultKinds, MaxFaults \* interruptions that occur, and how many in a behaviour

ASSUME SyncAssumption ==
  /\ Jobs = Runs \X Providers \X (1..MaxAttempts)
  /\ Providers # {} /\ Providers \cap Usage = {}
  /\ MaxAttempts \in Nat \ {0} /\ MaxActive \in Nat /\ MaxFaults \in Nat
  /\ "none" \notin Runs

VARIABLES
  run, src, linked, \* data_sync_runs, data_sync_run_sources, data_sync_source_jobs
  accepted,         \* a complete usage bundle has been imported
  worker, work,     \* the worker of a run, and of each of its sources
  ctl,              \* why the controller of a run's tracker was aborted
  kids, dirty,      \* tracked children, and those whose clean-up failed
  owed,             \* failed clean-ups of the tracker that a launch replaced
  forgotten,        \* children whose failed clean-up is no longer on record
  request,          \* the admissions
  stop, out,        \* cancel and sign-out in progress
  session,          \* principals signed in
  view,             \* a status read about to write what it saw
  quiet,            \* runs stopped with a clean answer and not continued since
  faults            \* interruptions left

dbVars == <<run, src, linked, accepted>>
debtVars == <<owed, forgotten>>
trackVars == <<ctl, kids, dirty, debtVars>>
procVars == <<worker, work, trackVars>>
askVars == <<request, stop, out, session, view, quiet>>
syncVars == <<refreshVars, dbVars, procVars, askVars, faults>>

Sources == Providers \cup Usage
Principals == {OwnerOf[r] : r \in Runs}
RunsOf(p) == {r \in Runs : OwnerOf[r] = p}
ChildrenOf(R) == {j \in Jobs : j[1] \in R}
Open == {"queued", "running"}
Retryable == {"waiting", "failed", "cancelled"}
Absent == [status |-> "absent", job |-> 0, attempt |-> 1]
Idle == [pc |-> "off", seen |-> "none", job |-> 0]
NoRequest == [pc |-> "idle", kind |-> "none", who |-> "none", run |-> "none", sel |-> {}, why |-> "none"]
NoView == [pc |-> "idle", run |-> "none", source |-> "none", job |-> 0, seen |-> "none"]

SyncTypeOK ==
  /\ RefreshTypeOK
  /\ run \in [Runs -> [status : {"none", "running", "waiting", "completed", "partial", "cancelled"}, auto : BOOLEAN]]
  /\ src \in [Runs -> [Sources -> [status : Open \cup Retryable \cup {"absent", "upload", "succeeded"},
                                   job : 0..MaxAttempts, attempt : 1..MaxAttempts]]]
  /\ linked \subseteq Jobs /\ accepted \in BOOLEAN
  /\ worker \in [Runs -> {"no", "work", "auto", "catch", "finish"}]
  /\ \A r \in Runs : kids[r] \subseteq Jobs /\ dirty[r] \subseteq kids[r] /\ owed[r] \subseteq Jobs
  /\ forgotten \subseteq Jobs
  /\ ctl \in [Runs -> {"none", "cancel", "auth"}]
  /\ session \subseteq Principals /\ quiet \subseteq Runs

SyncInit ==
  /\ RefreshInit
  /\ run = [r \in Runs |-> [status |-> "none", auto |-> FALSE]]
  /\ src = [r \in Runs |-> [s \in Sources |-> Absent]]
  /\ linked = {} /\ accepted = FALSE
  /\ worker = [r \in Runs |-> "no"]
  /\ work = [r \in Runs |-> [s \in Providers |-> Idle]]
  /\ ctl = [r \in Runs |-> "none"]
  /\ kids = [r \in Runs |-> {}] /\ dirty = [r \in Runs |-> {}]
  /\ owed = [r \in Runs |-> {}] /\ forgotten = {}
  /\ request = [q \in Requests |-> NoRequest]
  /\ stop = [r \in Runs |-> [pc |-> "no", ok |-> TRUE]]
  /\ out = [p \in Principals |-> [pc |-> "no", runs |-> {}, ok |-> TRUE]]
  /\ session = Principals /\ view = NoView /\ quiet = {}
  /\ faults = MaxFaults

\* One more interruption of a kind, while the budget lasts.
Fault(kind) == kind \in FaultKinds /\ faults > 0 /\ faults' = faults - 1

----------------------------------------------------------------------------
(* The repository's transactions, each under the tenant's advisory lock *)

RunActive(r) == run[r].status \in {"running", "waiting"}
StatusesOf(f) == {f[s].status : s \in Sources} \ {"absent"}

Outcome(f) ==
  LET has == StatusesOf(f) IN
  CASE has \cap Open # {} -> "running"
    [] has \cap Open = {} /\ has \cap {"waiting", "upload"} # {} -> "waiting"
    [] has = {"succeeded"} -> "completed"
    [] has = {"cancelled"} -> "cancelled"
    [] OTHER -> "partial"

\* finalizeDataSyncRun, after the sources became f.
Finalized(r, f) ==
  IF RunActive(r) \/ (run[r].status = "partial" /\ Outcome(f) = "completed") THEN Outcome(f) ELSE run[r].status

SetSources(r, f) ==
  /\ src' = [src EXCEPT ![r] = f]
  /\ run' = [run EXCEPT ![r].status = Finalized(r, f)]

\* Faulty: a status is written whatever attempt its job was.
UpdatableByAnyJob(r, s, status, j) ==
  /\ \/ RunActive(r)
     \/ run[r].status = "partial" /\ src[r][s].status = "upload" /\ status = "succeeded"
  /\ src[r][s].status \notin {"absent", "succeeded"}

\* Faulty: only what is saved is protected.
UpdatableUnlessSaved(r, s, status, j) ==
  /\ src[r][s].status \notin {"absent", "succeeded"}
  /\ j # 0 => /\ src[r][s].job \in {0, j}
              /\ <<r, s, j>> \in linked => src[r][s].attempt = j

\* The job of an update is unknown (0), the source's own or its first, and not
\* one that another attempt of the source is linked to.
Updatable(r, s, status, j) ==
  /\ \/ RunActive(r)
     \/ run[r].status = "partial" /\ src[r][s].status = "upload" /\ status = "succeeded"
  /\ src[r][s].status \notin {"absent", "succeeded"}
  /\ j # 0 => /\ src[r][s].job \in {0, j}
              /\ <<r, s, j>> \in linked => src[r][s].attempt = j

UpdateSource(r, s, status, j) ==
  IF Updatable(r, s, status, j)
  THEN SetSources(r, [src[r] EXCEPT ![s].status = status, ![s].job = IF j = 0 THEN @ ELSE j])
  ELSE UNCHANGED <<run, src>>

\* A transaction that creates a run or opens sources of it again.
Queue(r, S, auto) ==
  /\ run' = [run EXCEPT ![r] = [status |-> "running", auto |-> auto]]
  /\ src' = [src EXCEPT ![r] = [s \in Sources |->
       IF s \in S THEN [status |-> "queued", job |-> 0,
                        attempt |-> IF @[s].status = "absent" THEN 1 ELSE @[s].attempt + 1]
                  ELSE @[s]]]

Collected(p, s) == \E r \in Runs : OwnerOf[r] # p /\ RunActive(r) /\ src[r][s].status \in Open
AnotherCollector(p, S) == \E s \in S : Collected(p, s)
ActiveRunsOf(p) == {r \in RunsOf(p) : RunActive(r)}
Fresh(p) == {r \in RunsOf(p) : run[r].status = "none"}

\* pausePrincipal, for all of a principal's runs or for one of them.
PauseRuns(R) ==
  LET paused(r) == [s \in Sources |-> IF s \in Providers /\ src[r][s].status \in Open
                                      THEN [src[r][s] EXCEPT !.status = "waiting"] ELSE src[r][s]]
      ending(r) == IF \E s \in Sources : paused(r)[s].status = "waiting"
                   THEN IF run[r].auto THEN "partial" ELSE "waiting" ELSE run[r].status
      active == {r \in R : RunActive(r)} IN
  /\ src' = [r \in Runs |-> IF r \in active THEN paused(r) ELSE src[r]]
  /\ run' = [r \in Runs |-> IF r \in active THEN [run[r] EXCEPT !.status = ending(r)] ELSE run[r]]

\* Faulty: whatever is not complete is partial.
FinishedAnyhow(r) ==
  IF ~RunActive(r) THEN run[r].status ELSE IF Outcome(src[r]) = "completed" THEN "completed" ELSE "partial"

\* finishRun: what is left to the user closes the run as partial.
FinishedRun(r) ==
  IF ~RunActive(r) THEN run[r].status
  ELSE IF Outcome(src[r]) = "waiting" THEN "partial" ELSE Outcome(src[r])

----------------------------------------------------------------------------
(* Child jobs: tracking and clean-up *)

Stopping(r) == IF ctl[r] = "cancel" THEN "cancelled" ELSE "cleaned"
Owed(r) == owed[r] # {} \/ (worker[r] = "no" /\ dirty[r] # {})
Persisted(r) == {<<r, s, src[r][s].job>> : s \in {x \in Providers :
                   src[r][x].job # 0 /\ src[r][x].status # "succeeded"}}

\* cleanupTrackedChildren: every cancellation is tried; one may fail.
CleanUp(r, S) ==
  /\ kids' = [kids EXCEPT ![r] = @ \cup S]
  /\ \/ /\ CancelRows(S, Stopping(r))
        /\ dirty' = [dirty EXCEPT ![r] = @ \ S]
        /\ UNCHANGED faults
     \/ /\ S # {} /\ Fault("break")
        /\ dirty' = [dirty EXCEPT ![r] = @ \cup S]
        /\ UNCHANGED refreshVars

\* The same for a replaced tracker, which nobody has cancelled.
CleanUpOwed(r) ==
  LET S == owed[r] \cup Persisted(r) IN
  \/ /\ CancelRows(S, "cleaned")
     /\ owed' = [owed EXCEPT ![r] = {}]
     /\ UNCHANGED faults
  \/ /\ Fault("break")
     /\ owed' = [owed EXCEPT ![r] = @ \cup S]
     /\ UNCHANGED refreshVars

\* What a sign-out in progress still has to settle of a replaced tracker.
KeptDebt(r) == IF r \in out[OwnerOf[r]].runs THEN owed[r] ELSE {}

\* Faulty: does not wait.
SignallingIgnored(r) == FALSE

\* A clean-up has updated a row and not yet aborted its execution.
Signalling(r) == kids[r] \cap aborting # {}

----------------------------------------------------------------------------
(* The worker of a run: runPackages, runPowerPlatform *)

Current(r) == ctl[r] = "none"
At(r, s, pc) == worker[r] = "work" /\ work[r][s].pc = pc
Child(r, s) == <<r, s, work[r][s].job>>
To(r, s, pc) == work' = [work EXCEPT ![r][s].pc = pc]
Status(r, s, j) == <<src'[r][s].job, src'[r][s].status>> = j

workFrame == <<accepted, worker, ctl, debtVars, askVars>>

WorkSubmit(r, s) ==
  /\ At(r, s, "submit")
  /\ LET j == <<r, s, src[r][s].attempt>> IN
     \/ /\ Current(r) /\ RunActive(r)
        /\ SubmitJob(j)
        /\ work' = [work EXCEPT ![r][s] = [@ EXCEPT !.pc = "attach", !.job = j[3]]]
        /\ kids' = [kids EXCEPT ![r] = @ \cup {j}]
        /\ UNCHANGED faults
     \/ To(r, s, "fail") /\ UNCHANGED <<refreshVars, kids, faults>> \* refused
     \/ /\ Current(r) /\ RunActive(r) /\ Fault("lost") \* committed, never acknowledged
        /\ SubmitJob(j) /\ To(r, s, "fail") /\ UNCHANGED kids
  /\ UNCHANGED <<run, src, linked, dirty, workFrame>>

WorkAttach(r, s) ==
  /\ At(r, s, "attach")
  /\ LET j == work[r][s].job
         attachable == /\ Current(r) /\ RunActive(r)
                       /\ src[r][s].status \in Open \cup {"waiting"}
                       /\ src[r][s].job \in {0, j} IN
     \/ /\ attachable
        /\ linked' = linked \cup {Child(r, s)}
        /\ src' = [src EXCEPT ![r][s].job = j]
        /\ To(r, s, "mark") /\ UNCHANGED faults
     \/ /\ IF attachable THEN Fault("break") ELSE UNCHANGED faults
        /\ To(r, s, "clean") /\ UNCHANGED <<src, linked>>
  /\ UNCHANGED <<refreshVars, run, kids, dirty, workFrame>>

\* Report progress; the source must have taken it.
WorkMark(r, s) ==
  /\ At(r, s, "mark")
  /\ IF Current(r) THEN UpdateSource(r, s, "running", work[r][s].job) ELSE UNCHANGED <<run, src>>
  /\ To(r, s, IF Current(r) /\ Status(r, s, <<work[r][s].job, "running">>) THEN "start" ELSE "clean")
  /\ UNCHANGED <<refreshVars, linked, kids, dirty, workFrame, faults>>

WorkStart(r, s) ==
  /\ At(r, s, "start")
  /\ IF Current(r) /\ CanStart(Child(r, s))
     THEN StartRefresh(Child(r, s)) /\ To(r, s, "starting")
     ELSE To(r, s, "clean") /\ UNCHANGED refreshVars
  /\ UNCHANGED <<run, src, linked, kids, dirty, workFrame, faults>>

WorkStarted(r, s) ==
  /\ At(r, s, "starting")
  /\ Child(r, s) \in dispatched \/ exec[Child(r, s)] = "idle"
  /\ work' = [work EXCEPT ![r][s] = [@ EXCEPT
       !.pc = IF Current(r) /\ Child(r, s) \in dispatched THEN "report" ELSE "clean",
       !.seen = IF Child(r, s) \in dispatched THEN Visible(Child(r, s)) ELSE "denied"]]
  /\ UNCHANGED <<refreshVars, run, src, linked, kids, dirty, workFrame, faults>>

\* trackPackageJob: write what was read of the child; go on while it runs.
WorkReport(r, s) ==
  /\ At(r, s, "report")
  /\ LET j == work[r][s].job
         seen == work[r][s].seen IN
     /\ IF Current(r) /\ seen # "cleaned" THEN UpdateSource(r, s, seen, j) ELSE UNCHANGED <<run, src>>
     /\ To(r, s, CASE ~Current(r) -> "clean"
                   [] Current(r) /\ seen # "running" -> "done"
                   [] Current(r) /\ seen = "running" /\ Status(r, s, <<j, "succeeded">>) -> "done"
                   [] Current(r) /\ seen = "running" /\ Status(r, s, <<j, "running">>) -> "poll"
                   [] OTHER -> "clean")
  /\ UNCHANGED <<refreshVars, linked, kids, dirty, workFrame, faults>>

WorkPoll(r, s) ==
  /\ At(r, s, "poll")
  /\ work' = [work EXCEPT ![r][s] = IF Current(r) THEN [@ EXCEPT !.pc = "report", !.seen = Visible(Child(r, s))]
                                                  ELSE [@ EXCEPT !.pc = "clean"]]
  /\ UNCHANGED <<refreshVars, run, src, linked, kids, dirty, workFrame, faults>>

WorkClean(r, s) ==
  /\ At(r, s, "clean")
  /\ CleanUp(r, {Child(r, s)})
  /\ To(r, s, "fail")
  /\ UNCHANGED <<run, src, linked, workFrame>>

\* handleSourceFailure: not fenced by the session, and the last word of a source.
WorkFail(r, s) ==
  /\ At(r, s, "fail") /\ Child(r, s) \notin aborting
  /\ \/ /\ \E status \in CASE ctl[r] = "cancel" -> {"cancelled"}
                           [] ctl[r] = "auth" -> {"waiting"}
                           [] ctl[r] = "none" -> {"failed"} \cup
                                 (IF work[r][s].job = 0 \/ work[r][s].seen = "denied" THEN {"waiting"} ELSE {}) :
             UpdateSource(r, s, status, work[r][s].job)
        /\ To(r, s, "done") /\ UNCHANGED faults
     \/ Fault("break") /\ To(r, s, "threw") /\ UNCHANGED <<run, src>>
  /\ UNCHANGED <<refreshVars, linked, kids, dirty, workFrame>>

\* All sources have settled.  A failed write is met by the catch of launch; an
\* automatic run cancels the children it leaves behind.
WorkSettle(r) ==
  /\ worker[r] = "work"
  /\ \A s \in Providers : work[r][s].pc \in {"off", "done", "threw"}
  /\ worker' = [worker EXCEPT ![r] = IF \E s \in Providers : work[r][s].pc = "threw" THEN "catch"
                                     ELSE IF run[r].auto THEN "auto" ELSE "finish"]
  /\ UNCHANGED <<refreshVars, dbVars, work, trackVars, askVars, faults>>

WorkAuto(r) ==
  /\ worker[r] = "auto"
  /\ CleanUp(r, Persisted(r))
  /\ worker' = [worker EXCEPT ![r] = IF dirty'[r] = {} THEN "finish" ELSE "catch"]
  /\ UNCHANGED <<dbVars, work, ctl, debtVars, askVars>>

WorkCatch(r) ==
  /\ worker[r] = "catch"
  /\ LET left == {s \in Providers : work[r][s].pc # "off" /\ src[r][s].status \in Open} IN
     \/ /\ \E status \in {"failed", "waiting"} :
             IF RunActive(r) /\ left # {}
             THEN SetSources(r, [s \in Sources |-> IF s \in left THEN [src[r][s] EXCEPT !.status = status] ELSE src[r][s]])
             ELSE UNCHANGED <<run, src>>
        /\ UNCHANGED faults
     \/ Fault("break") /\ UNCHANGED <<run, src>>
  /\ worker' = [worker EXCEPT ![r] = "finish"]
  /\ UNCHANGED <<refreshVars, linked, accepted, work, trackVars, askVars>>

\* The tracker of a cancellation or sign-out in progress outlives the worker; one
\* that owes clean-ups takes the place of the one it replaced, which returns otherwise.
Held(r) == stop[r].pc # "no" \/ r \in out[OwnerOf[r]].runs

WorkFinish(r) ==
  /\ worker[r] = "finish" /\ ~Signalling(r)
  /\ \/ run' = [run EXCEPT ![r].status = FinishedRun(r)] /\ UNCHANGED faults
     \/ Fault("break") /\ UNCHANGED run
  /\ worker' = [worker EXCEPT ![r] = "no"]
  /\ work' = [work EXCEPT ![r] = [s \in Providers |-> Idle]]
  /\ LET kept == IF dirty[r] = {} THEN owed[r] ELSE KeptDebt(r)
         back == IF stop[r].pc = "no" THEN kept ELSE {} IN
     /\ dirty' = [dirty EXCEPT ![r] = @ \cup back]
     /\ kids' = [kids EXCEPT ![r] = (IF dirty[r] = {} /\ ~Held(r) THEN {} ELSE @) \cup back]
     /\ owed' = [owed EXCEPT ![r] = kept \ back]
     /\ forgotten' = forgotten \cup (owed[r] \ kept)
  /\ UNCHANGED <<refreshVars, src, linked, accepted, ctl, askVars>>

----------------------------------------------------------------------------
(* The executions of the children.  An execution collects for the run whose   *)
(* source has the job when it begins (inventoryJobInput).                     *)

Claims(j) == src[j[1]][j[2]].job = j[3]

ChildBegins(j) == Dispatch(j, Claims(j)) /\ UNCHANGED <<dbVars, procVars, askVars, faults>>

\* completeInventoryJob: the source must still be collecting this job.
MayPublish(j) == exec[j] = "serving" => Claims(j) /\ src[j[1]][j[2]].status = "running" /\ RunActive(j[1])

PublishChild(j) ==
  /\ MayPublish(j) /\ CompleteJob(j)
  /\ IF exec[j] = "serving" THEN SetSources(j[1], [src[j[1]] EXCEPT ![j[2]].status = "succeeded"])
                               ELSE UNCHANGED <<run, src>>
  /\ UNCHANGED <<linked, accepted, procVars, askVars, faults>>

ChildStep(j) == ExecStep(j) /\ UNCHANGED <<dbVars, procVars, askVars, faults>>
ChildAborted(j) == AbortCancelled(j) /\ UNCHANGED <<dbVars, procVars, askVars, faults>>
\* A write that closes or admits an execution is lost; nobody is told.
ChildForgets(j) ==
  /\ \/ Fault("break") /\ LoseOutcome(j)
     \/ Fault("lost") /\ LoseStart(j)
  /\ UNCHANGED <<dbVars, procVars, askVars>>

\* A row that says running of nothing that runs is over at its deadline.
ChildTimesOut(j) ==
  /\ row[j] = "running" /\ exec[j] = "idle"
  /\ LapseJob(j) /\ UNCHANGED <<dbVars, procVars, askVars, faults>>
ChildExpires(j) == Fault("lapse") /\ LapseJob(j) /\ UNCHANGED <<dbVars, procVars, askVars>>

----------------------------------------------------------------------------
(* Admissions: start, retry, automatic refresh *)

Asking == {q \in Requests : request[q].pc # "idle"}
Assigned(q) == IF request[q].kind = "retry" \/ request[q].pc \in {"tail", "rest"} THEN request[q].run ELSE "none"

\* A request that launched a worker shares its controller.
Why(q) == IF request[q].pc = "tail" /\ request[q].why = "none" THEN ctl[request[q].run] ELSE request[q].why
Answer(q) == request' = [request EXCEPT ![q] = NoRequest]
Step(q, pc) == request' = [request EXCEPT ![q].pc = pc]
askFrame == <<stop, out, session, view>>

\* The runs whose owed clean-up a request settles before anything else.
Owing(p, kind, r) == {x \in RunsOf(p) : Owed(x) /\ (kind = "retry" => x = r)}

Admit(q, p, kind, r) ==
  /\ q \notin Asking /\ p \in session
  /\ kind = "retry" <=> r \in RunsOf(p)
  /\ kind = "retry" => /\ worker[r] = "no" /\ stop[r].pc = "no" /\ run[r].status # "none"
                       /\ \A o \in Asking : Assigned(o) # r
  /\ LET owing == Owing(p, kind, r)
         others == {x \in Runs : Owed(x)} \ owing
         working == {x \in Runs : worker[x] # "no"} IN
     /\ Cardinality(working) + Cardinality(others) + Cardinality({o \in Asking : request[o].pc # "tail"}) < MaxActive
     /\ request' = [request EXCEPT ![q] = [NoRequest EXCEPT
          !.pc = IF owing = {} THEN "prepare" ELSE "clean", !.kind = kind, !.who = p, !.run = r]]
  /\ UNCHANGED <<refreshVars, dbVars, procVars, askFrame, quiet, faults>>

\* An interrupted admission, and one that must not go on, answers with the error.
Refuse(q) ==
  /\ request[q].pc \in {"clean", "prepare", "commit"}
  /\ request[q].why # "none" /\ Answer(q)
  /\ UNCHANGED <<refreshVars, dbVars, procVars, askFrame, quiet, faults>>

AdmitClean(q) ==
  /\ request[q].pc = "clean" /\ request[q].why = "none"
  /\ LET owing == Owing(request[q].who, request[q].kind, request[q].run) IN
     IF owing = {} THEN Step(q, "prepare") /\ UNCHANGED <<refreshVars, trackVars, faults>>
     ELSE \E r \in owing :
            /\ IF owed[r] # {}
               THEN CleanUpOwed(r) /\ UNCHANGED <<kids, dirty>>
               ELSE CleanUp(r, kids[r] \cup Persisted(r)) /\ UNCHANGED owed
            /\ IF owed'[r] = {} /\ (owed[r] = {} => dirty'[r] = {}) THEN UNCHANGED request ELSE Answer(q)
            /\ UNCHANGED <<ctl, forgotten>>
  /\ UNCHANGED <<dbVars, worker, work, askFrame, quiet>>

\* refreshDue: close the previous run, after cancelling the children it left.
DuePrepare(q) ==
  LET p == request[q].who
      previous == IF ActiveRunsOf(p) # {} THEN ActiveRunsOf(p) ELSE RunsOf(p) \ Fresh(p) IN
  /\ request[q].pc = "prepare" /\ request[q].kind = "due" /\ request[q].why = "none"
  /\ \/ /\ (previous = {} \/ \E r \in previous : run[r].status = "running" \/ worker[r] # "no")
        /\ Step(q, "commit") /\ UNCHANGED <<refreshVars, run, trackVars, faults>>
     \/ \E r \in previous :
          /\ run[r].status # "running" /\ worker[r] = "no"
          /\ CleanUp(r, Persisted(r))
          /\ IF dirty'[r] = {} THEN Step(q, "commit") /\ run' = [run EXCEPT ![r].status = FinishedRun(r)]
                               ELSE Answer(q) /\ UNCHANGED run
          /\ UNCHANGED <<ctl, debtVars>>
  /\ UNCHANGED <<src, linked, accepted, worker, work, askFrame, quiet>>

\* submit and submitDue: the active run, if there is one, or a new one.  The
\* COMMIT may be lost on its way back.
Create(q, S, auto) ==
  LET p == request[q].who IN
  /\ request[q].why = "none"
  /\ IF ActiveRunsOf(p) # {} \/ S = {} \/ (~auto /\ AnotherCollector(p, S)) \/ Fresh(p) = {}
     THEN Answer(q) /\ UNCHANGED <<run, src, faults>>
     ELSE \E r \in Fresh(p) :
            /\ Queue(r, S, auto)
            /\ \/ request' = [request EXCEPT ![q].pc = "launch", ![q].run = r, ![q].sel = S] /\ UNCHANGED faults
               \/ Fault("lost") /\ Answer(q)
  /\ UNCHANGED <<refreshVars, linked, accepted, procVars, askFrame, quiet>>

StartCommit(q) == request[q].pc = "prepare" /\ request[q].kind = "start" /\ Create(q, Sources, FALSE)

\* A source another run of the tenant has open is not due; age decides the rest.
DueCommit(q) ==
  /\ request[q].pc = "commit" /\ request[q].kind = "due"
  /\ \E S \in SUBSET {s \in Providers : \A r \in Runs : ~(RunActive(r) /\ src[r][s].status \in Open)} : Create(q, S, TRUE)

\* retry reads the run as state() does, selects, and cancels the old children.
\* A run that works is its worker's to reconcile.
RetryPrepare(q) ==
  LET r == request[q].run
      fresh(s) == IF worker[r] = "no" /\ s \in Providers /\ src[r][s].job # 0 /\ src[r][s].status \in Open \cup {"waiting"}
                  THEN Visible(<<r, s, src[r][s].job>>) ELSE "cleaned"
      read == [s \in Sources |-> IF fresh(s) # "cleaned" /\ Updatable(r, s, fresh(s), src[r][s].job)
                                 THEN [src[r][s] EXCEPT !.status = fresh(s)] ELSE src[r][s]] IN
  /\ request[q].pc = "prepare" /\ request[q].kind = "retry" /\ request[q].why = "none"
  /\ SetSources(r, read)
  /\ \/ \E S \in (SUBSET {s \in Sources : read[s].status \in Retryable}) \ {{}} :
          request' = [request EXCEPT ![q].pc = "cancel", ![q].sel = S]
     \/ Answer(q) \* nothing to retry, or a source that cannot be
  /\ UNCHANGED <<refreshVars, linked, accepted, procVars, askFrame, quiet, faults>>

RetryCancel(q) ==
  LET r == request[q].run IN
  /\ request[q].pc = "cancel"
  /\ IF request[q].why # "none" THEN Answer(q) /\ UNCHANGED <<refreshVars, kids, dirty, faults>>
     ELSE /\ CleanUp(r, {j \in Persisted(r) : j[2] \in request[q].sel})
          /\ IF dirty'[r] = {} THEN Step(q, "commit") ELSE Answer(q)
  /\ UNCHANGED <<dbVars, worker, work, ctl, debtVars, askFrame, quiet>>

\* Faulty: one attempt too many.
AttemptsUsed(r, s) == src[r][s].attempt <= MaxAttempts

AttemptsLeft(r, s) == src[r][s].attempt < MaxAttempts

RetryCommit(q) ==
  LET r == request[q].run
      S == request[q].sel IN
  /\ request[q].pc = "commit" /\ request[q].kind = "retry" /\ request[q].why = "none" /\ ~Signalling(r)
  /\ IF /\ ActiveRunsOf(OwnerOf[r]) \subseteq {r}
        /\ \A s \in S : src[r][s].status \in Retryable /\ AttemptsLeft(r, s)
        /\ ~AnotherCollector(OwnerOf[r], S)
     THEN /\ Queue(r, S, run[r].auto) /\ quiet' = quiet \ {r}
          /\ \/ Step(q, "launch") /\ UNCHANGED faults
             \/ Fault("lost") /\ Answer(q)
     ELSE Answer(q) /\ UNCHANGED <<run, src, quiet, faults>>
  /\ UNCHANGED <<refreshVars, linked, accepted, procVars, askFrame>>

\* launch: nothing is to be done for a run that works already, or has no source
\* to collect.
Launch(q) ==
  LET r == request[q].run
      S == request[q].sel \cap Providers IN
  /\ request[q].pc = "launch"
  /\ IF request[q].why # "none"
     THEN PauseRuns({r}) /\ Answer(q) /\ UNCHANGED procVars
     ELSE IF S = {} \/ worker[r] # "no"
     THEN Step(q, "rest") /\ UNCHANGED <<run, src, procVars>>
     ELSE /\ Step(q, "tail") /\ UNCHANGED <<run, src>>
          /\ worker' = [worker EXCEPT ![r] = "work"]
          /\ work' = [work EXCEPT ![r] = [s \in Providers |-> IF s \in S THEN [Idle EXCEPT !.pc = "submit"] ELSE Idle]]
          /\ ctl' = [ctl EXCEPT ![r] = "none"]
          /\ kids' = [kids EXCEPT ![r] = {}] /\ dirty' = [dirty EXCEPT ![r] = {}]
          /\ owed' = [owed EXCEPT ![r] = @ \cup dirty[r]] /\ UNCHANGED forgotten
  /\ UNCHANGED <<refreshVars, linked, accepted, askFrame, quiet, faults>>

\* What the request still does before it answers.
Tail(q) ==
  /\ request[q].pc \in {"tail", "rest"}
  /\ IF Why(q) = "none" THEN UNCHANGED <<run, src>> ELSE PauseRuns({request[q].run})
  /\ Answer(q)
  /\ UNCHANGED <<refreshVars, linked, accepted, procVars, askFrame, quiet, faults>>

RequestStep(q) ==
  \/ Refuse(q) \/ AdmitClean(q) \/ DuePrepare(q) \/ StartCommit(q) \/ DueCommit(q)
  \/ RetryPrepare(q) \/ RetryCancel(q) \/ RetryCommit(q) \/ Launch(q) \/ Tail(q)

----------------------------------------------------------------------------
(* Cancellation of a run *)

Aborted(Q, why) == [q \in Requests |-> IF q \in Q /\ request[q].why = "none" THEN [request[q] EXCEPT !.why = why] ELSE request[q]]

CancelAsk(r) ==
  LET unassigned == {q \in Asking : Assigned(q) = "none" /\ RunActive(r) /\ request[q].who = OwnerOf[r]}
      stopped == {q \in Asking : Assigned(q) = r} \cup unassigned
      tracked == worker[r] # "no" \/ dirty[r] # {} IN
  /\ OwnerOf[r] \in session /\ stop[r].pc = "no" /\ run[r].status # "none" /\ Fault("cancel")
  /\ RunActive(r) \/ run[r].status = "cancelled" \/ \E q \in Asking : Assigned(q) = r
  /\ request' = Aborted(stopped, "cancel")
  /\ ctl' = [ctl EXCEPT ![r] = IF tracked /\ @ # "none" THEN @ ELSE "cancel"]
  /\ kids' = [kids EXCEPT ![r] = (IF tracked THEN @ ELSE {}) \cup Persisted(r)]
  /\ stop' = [stop EXCEPT ![r] = [pc |-> IF run[r].status = "cancelled" /\ stopped = {} THEN "clean" ELSE "row", ok |-> TRUE]]
  /\ UNCHANGED <<refreshVars, dbVars, worker, work, dirty, debtVars, out, session, view, quiet>>

\* Faulty: waits for every request of the account, also those it did not stop.
AdmissionsOfOwner(r) == {q \in Asking : request[q].who = OwnerOf[r]}

\* The requests a cancellation waits for.
Admissions(r) == {q \in Asking : \/ request[q].why # "none" /\ request[q].who = OwnerOf[r]
                                 \/ request[q].pc = "tail" /\ request[q].run = r}

CancelRow(r) ==
  /\ stop[r].pc = "row" /\ Admissions(r) = {}
  /\ LET cancels == RunActive(r) \/ run[r].status = "cancelled" IN
     /\ run' = IF cancels THEN [run EXCEPT ![r].status = "cancelled"] ELSE run
     /\ src' = IF ~cancels THEN src ELSE [src EXCEPT ![r] = [s \in Sources |->
                  IF @[s].status \in {"absent", "succeeded"} THEN @[s] ELSE [@[s] EXCEPT !.status = "cancelled"]]]
     /\ stop' = [stop EXCEPT ![r] = [pc |-> "clean", ok |-> cancels]]
  /\ UNCHANGED <<refreshVars, linked, accepted, procVars, request, out, session, view, quiet, faults>>

CancelChildren(r) ==
  /\ \/ stop[r].pc = "clean" /\ CleanUp(r, kids[r]) /\ stop' = [stop EXCEPT ![r].pc = "again"]
     \/ /\ stop[r].pc = "again" /\ worker[r] = "no" /\ ~Signalling(r)
        /\ CleanUp(r, kids[r] \cup Persisted(r)) /\ stop' = [stop EXCEPT ![r].pc = "answer"]
  /\ UNCHANGED <<dbVars, worker, work, ctl, debtVars, request, out, session, view, quiet>>

CancelAnswer(r) ==
  /\ stop[r].pc = "answer" /\ ~Signalling(r)
  /\ stop' = [stop EXCEPT ![r] = [pc |-> "no", ok |-> TRUE]]
  /\ quiet' = IF stop[r].ok /\ dirty[r] = {} THEN quiet \cup {r} ELSE quiet
  /\ dirty' = [dirty EXCEPT ![r] = @ \cup KeptDebt(r)]
  /\ kids' = [kids EXCEPT ![r] = IF dirty'[r] = {} THEN {} ELSE @ \cup KeptDebt(r)]
  /\ owed' = [owed EXCEPT ![r] = {}]
  /\ forgotten' = forgotten \cup (owed[r] \ KeptDebt(r))
  /\ UNCHANGED <<refreshVars, dbVars, worker, work, ctl, request, out, session, view, faults>>

CancelStep(r) == CancelRow(r) \/ CancelChildren(r) \/ CancelAnswer(r)

----------------------------------------------------------------------------
(* Sign-out: revoke the session, abort the children, then the coordinator *)

SignOut(p) ==
  LET mine == RunsOf(p) IN
  /\ p \in session /\ Fault("signout")
  /\ session' = session \ {p}
  /\ request' = Aborted({q \in Asking : request[q].who = p}, "auth")
  /\ ctl' = [r \in Runs |-> IF r \in mine /\ worker[r] # "no" /\ ctl[r] = "none" THEN "auth" ELSE ctl[r]]
  /\ out' = [out EXCEPT ![p] = [pc |-> "children", runs |-> {r \in mine : worker[r] # "no" \/ Owed(r)}, ok |-> TRUE]]
  /\ UNCHANGED <<refreshVars, dbVars, worker, work, kids, dirty, debtVars, stop, view, quiet>>

SignOutChildren(p) ==
  /\ out[p].pc = "children"
  /\ signal' = Signalled(ChildrenOf(RunsOf(p)), "auth")
  /\ out' = [out EXCEPT ![p].pc = "pause"]
  /\ UNCHANGED <<row, lapsed, exec, dispatched, aborting, dbVars, procVars, request, stop, session, view, quiet, faults>>

SignOutPause(p) ==
  /\ out[p].pc = "pause"
  /\ PauseRuns(RunsOf(p))
  /\ out' = [out EXCEPT ![p].pc = "clean"]
  /\ UNCHANGED <<refreshVars, linked, accepted, procVars, request, stop, session, view, quiet, faults>>

\* Once the admissions and workers of the principal have ended.
SignOutClean(p) ==
  /\ out[p].pc = "clean"
  /\ \A q \in Asking : request[q].who # p
  /\ \A r \in RunsOf(p) : worker[r] = "no" /\ ~Signalling(r)
  /\ IF out[p].runs = {}
     THEN /\ out' = [out EXCEPT ![p] = [pc |-> "no", runs |-> {}, ok |-> TRUE]]
          /\ quiet' = IF out[p].ok THEN quiet \cup (RunsOf(p) \ Fresh(p)) ELSE quiet
          /\ UNCHANGED <<refreshVars, trackVars, faults>>
     ELSE \E r \in out[p].runs :
          /\ CleanUp(r, kids[r] \cup owed[r] \cup Persisted(r))
          /\ owed' = [owed EXCEPT ![r] = {}]
          /\ out' = [out EXCEPT ![p].runs = @ \ {r}, ![p].ok = @ /\ dirty'[r] = {}]
          /\ UNCHANGED <<ctl, forgotten, quiet>>
  /\ UNCHANGED <<dbVars, worker, work, request, stop, session, view>>

SignOutStep(p) == SignOutChildren(p) \/ SignOutPause(p) \/ SignOutClean(p)

SignIn(p) ==
  /\ p \notin session /\ out[p].pc = "no"
  /\ session' = session \cup {p}
  /\ UNCHANGED <<refreshVars, dbVars, procVars, request, stop, out, view, quiet, faults>>

----------------------------------------------------------------------------
(* state(): a status read reconciles runs that no worker owns *)

ViewRead(r, s) ==
  /\ view.pc = "idle" /\ OwnerOf[r] \in session /\ worker[r] = "no"
  /\ src[r][s].job # 0 /\ src[r][s].status \in Open \cup {"waiting"}
  /\ view' = [pc |-> "write", run |-> r, source |-> s, job |-> src[r][s].job, seen |-> Visible(<<r, s, src[r][s].job>>)]
  /\ UNCHANGED <<refreshVars, dbVars, procVars, request, stop, out, session, quiet, faults>>

ViewWrite ==
  /\ view.pc = "write"
  /\ IF view.seen = "cleaned" THEN UNCHANGED <<run, src>> ELSE UpdateSource(view.run, view.source, view.seen, view.job)
  /\ view' = NoView
  /\ UNCHANGED <<refreshVars, linked, accepted, procVars, request, stop, out, session, quiet, faults>>

\* The read ends by closing an automatic run whose sources are all final. The
\* update of its last source has closed it by then, so that is no step here.
ReadUsage(r, s) ==
  /\ s \in Usage /\ run[r].status \notin {"none", "cancelled"}
  /\ LET status == IF accepted THEN "succeeded" ELSE "upload" IN
     src[r][s].status # status /\ UpdateSource(r, s, status, 0)
  /\ UNCHANGED <<refreshVars, linked, accepted, procVars, askVars, faults>>

ImportUsage ==
  /\ Usage # {} /\ ~accepted /\ accepted' = TRUE
  /\ UNCHANGED <<refreshVars, run, src, linked, procVars, askVars, faults>>

\* The refresh-job routes act on a child directly.
UserResumes(j) ==
  /\ OwnerOf[j[1]] \in session /\ row[j] = "waiting" /\ StartRefresh(j)
  /\ quiet' = quiet \ {j[1]} /\ Fault("resume")
  /\ UNCHANGED <<dbVars, procVars, request, stop, out, session, view>>

UserCancels(j) ==
  /\ OwnerOf[j[1]] \in session /\ row[j] \in Unfinished /\ CancelRows({j}, "cancelled")
  /\ Fault("stop") /\ UNCHANGED <<dbVars, procVars, askVars>>

----------------------------------------------------------------------------
(* The process stops at any moment; the next one recovers before it listens *)

Restart ==
  /\ Fault("crash")
  /\ RecoverJobs
  /\ LET left(r) == [s \in Sources |-> IF RunActive(r) /\ s \in Providers /\ src[r][s].status \in Open
                                       THEN [src[r][s] EXCEPT !.status = "waiting"] ELSE src[r][s]]
         halted(r) == RunActive(r) /\ StatusesOf(left(r)) \cap Open = {} /\ StatusesOf(left(r)) \cap {"waiting", "upload"} # {} IN
     /\ src' = [r \in Runs |-> left(r)]
     /\ run' = [r \in Runs |-> IF halted(r) THEN [run[r] EXCEPT !.status = IF run[r].auto THEN "partial" ELSE "waiting"]
                               ELSE run[r]]
  /\ worker' = [r \in Runs |-> "no"] /\ work' = [r \in Runs |-> [s \in Providers |-> Idle]]
  /\ ctl' = [r \in Runs |-> "none"] /\ kids' = [r \in Runs |-> {}] /\ dirty' = [r \in Runs |-> {}]
  /\ owed' = [r \in Runs |-> {}] /\ forgotten' = {}
  /\ request' = [q \in Requests |-> NoRequest] /\ view' = NoView
  /\ stop' = [r \in Runs |-> [pc |-> "no", ok |-> TRUE]]
  /\ out' = [p \in Principals |-> [pc |-> "no", runs |-> {}, ok |-> TRUE]]
  /\ UNCHANGED <<linked, accepted, session, quiet>>

\* withReadAuthorityRefresh: the authority of a running worker is lost.
LoseAuthority(r) ==
  /\ worker[r] # "no" /\ ctl[r] = "none" /\ Fault("revoke")
  /\ ctl' = [ctl EXCEPT ![r] = "auth"]
  /\ UNCHANGED <<refreshVars, dbVars, worker, work, kids, dirty, debtVars, askVars>>

WorkStep(r, s) ==
  \/ WorkSubmit(r, s) \/ WorkAttach(r, s) \/ WorkMark(r, s) \/ WorkStart(r, s) \/ WorkStarted(r, s)
  \/ WorkReport(r, s) \/ WorkPoll(r, s) \/ WorkClean(r, s) \/ WorkFail(r, s)
WorkEnd(r) == WorkSettle(r) \/ WorkAuto(r) \/ WorkCatch(r) \/ WorkFinish(r)

Next ==
  \/ \E r \in Runs, s \in Providers : WorkStep(r, s) \/ ViewRead(r, s)
  \/ \E r \in Runs : WorkEnd(r) \/ CancelAsk(r) \/ CancelStep(r) \/ LoseAuthority(r)
  \/ \E r \in Runs, s \in Usage : ReadUsage(r, s)
  \/ \E j \in Jobs : \/ ChildStep(j) \/ ChildBegins(j) \/ ChildAborted(j) \/ PublishChild(j)
                     \/ ChildForgets(j) \/ ChildTimesOut(j) \/ ChildExpires(j)
                     \/ UserResumes(j) \/ UserCancels(j)
  \/ \E q \in Requests, p \in Principals : Admit(q, p, "start", "none") \/ Admit(q, p, "due", "none")
  \/ \E q \in Requests, r \in Runs : Admit(q, OwnerOf[r], "retry", r)
  \/ \E q \in Requests : RequestStep(q)
  \/ \E p \in Principals : SignOut(p) \/ SignOutStep(p) \/ SignIn(p)
  \/ ViewWrite \/ ImportUsage \/ Restart

Spec == SyncInit /\ [][Next]_syncVars

\* The process runs its own continuations, and an execution ends: its provider
\* calls and the run itself have deadlines, and so has a row nobody executes.
Fairness ==
  /\ \A r \in Runs : WF_syncVars(WorkEnd(r)) /\ WF_syncVars(CancelStep(r))
  /\ \A r \in Runs, s \in Providers : WF_syncVars(WorkStep(r, s))
  /\ \A j \in Jobs : /\ WF_syncVars(ChildStep(j)) /\ WF_syncVars(ChildBegins(j))
                      /\ WF_syncVars(ChildAborted(j)) /\ WF_syncVars(ChildTimesOut(j))
  /\ \A q \in Requests : WF_syncVars(RequestStep(q))
  /\ \A p \in Principals : WF_syncVars(SignOutStep(p))

FairSpec == Spec /\ Fairness

----------------------------------------------------------------------------
(* Properties *)

\* A run that has ended has no source left open, and a completed run has every
\* source it asked for: finalizeDataSyncRun, cancel, pausePrincipal, finishRun
\* and the restart each write the two tables in their own way.
ClosedRunIsSettled ==
  \A r \in Runs :
    /\ ~RunActive(r) => StatusesOf(src[r]) \cap Open = {}
    /\ run[r].status = "completed" => StatusesOf(src[r]) = {"succeeded"}

\* A source reads as saved only when the child job of its own attempt published:
\* the job row and the source change in one transaction, or the source later.
SavedMeansPublished ==
  \A r \in Runs, s \in Providers :
    src[r][s].status = "succeeded" => src[r][s].job # 0 /\ row[<<r, s, src[r][s].job>>] = "succeeded"

\* What a run and its sources say is what happened, whichever of the ten
\* transactions that write them came last.
HonestRuns == ClosedRunIsSettled /\ SavedMeansPublished

\* A job that an attempt is linked to is shown only in that attempt: no late write
\* of an earlier attempt's failure or status read takes a retried source back.
LinkedJobIsOfThisAttempt ==
  \A r \in Runs, s \in Providers :
    <<r, s, src[r][s].job>> \in linked => src[r][s].job = src[r][s].attempt

\* After a cancellation or a sign-out answered without an error, and until the user
\* retries the run or resumes the child: the child that a source shows has been told
\* to stop, if it still runs or is about to, whatever became of the write that
\* closed its row; and so has one that served an earlier attempt, or its row is
\* cancelled and it is being told, a sign-out is about to tell it, or it is one of
\* those whose failed clean-up was dropped with a tracker that a launch had replaced.
StoppedMeansStopped ==
  \A r \in quiet : \A j \in ChildrenOf({r}) :
    /\ exec[j] # "idle" /\ Claims(j) => signal[j] # "none"
    /\ exec[j] = "serving" => \/ signal[j] # "none" \/ j \in aborting \cup forgotten
                               \/ out[OwnerOf[r]].pc = "children"

\* A cancelled run changes again only by a retry, which opens a new attempt.
CancelledIsFinal ==
  [][\A r \in Runs : run[r].status = "cancelled" /\ src'[r] # src[r]
       => \E s \in Sources : src'[r][s].attempt > src[r][s].attempt]_syncVars

\* Every worker ends, every cancellation and every sign-out answers: they wait
\* for each other, for admissions and for child executions, never in a circle.
NobodyWaitsForever ==
  /\ \A r \in Runs : worker[r] # "no" ~> worker[r] = "no"
  /\ \A r \in Runs : stop[r].pc # "no" ~> stop[r].pc = "no"
  /\ \A p \in Principals : out[p].pc # "no" ~> out[p].pc = "no"
=============================================================================
