----------------------------- MODULE RefreshJobs -----------------------------
(***************************************************************************)
(* Refresh jobs of one provider source: the rows of package_refresh_jobs   *)
(* and power_platform_refresh_jobs (db/packageRefreshJobs.ts,              *)
(* db/powerPlatformRefreshJobs.ts) and the executions that one process     *)
(* runs for them (services/packageInventory.ts, powerPlatformInventory.ts).*)
(* A job waits for authorization, runs, and ends; cancelling updates the   *)
(* row first and signals the execution afterwards.  DataSync composes this *)
(* module with the coordinator that submits the jobs.                      *)
(***************************************************************************)
EXTENDS Naturals, FiniteSets

CONSTANTS
  Jobs,        \* refresh jobs
  MaxRefreshes \* executions a process runs at once (4 in the code)

ASSUME RefreshAssumption == MaxRefreshes \in Nat

VARIABLES
  row,         \* status of a job; "cleaned" is cancelled by a sync's clean-up
  lapsed,      \* jobs whose deadline_at has passed
  exec,        \* the execution of a job in this process
  dispatched,  \* jobs whose latest start got as far as running
  signal,      \* the reason an execution's controller was aborted with
  aborting     \* cancelled rows whose execution has not been signalled yet

refreshVars == <<row, lapsed, exec, dispatched, signal, aborting>>

JobStatus == {"none", "waiting", "running", "succeeded", "failed", "cancelled", "cleaned"}
ExecState == {"idle", "starting", "marked", "running", "serving", "failing", "cancelling", "pausing"}
Unfinished == {"waiting", "running"}

RefreshTypeOK ==
  /\ row \in [Jobs -> JobStatus]
  /\ exec \in [Jobs -> ExecState]
  /\ signal \in [Jobs -> {"none", "cancel", "auth"}]
  /\ lapsed \subseteq Jobs /\ dispatched \subseteq Jobs /\ aborting \subseteq Jobs

RefreshInit ==
  /\ row = [j \in Jobs |-> "none"]
  /\ exec = [j \in Jobs |-> "idle"]
  /\ signal = [j \in Jobs |-> "none"]
  /\ lapsed = {} /\ dispatched = {} /\ aborting = {}

\* Past its deadline an unfinished job reads as failed, whatever its row says.
Visible(j) == IF row[j] \in Unfinished /\ j \in lapsed THEN "failed" ELSE row[j]

SubmitJob(j) ==
  /\ row' = [row EXCEPT ![j] = IF @ = "none" THEN "waiting" ELSE @]
  /\ UNCHANGED <<lapsed, exec, dispatched, signal, aborting>>

Reserved == {j \in Jobs : exec[j] # "idle"}
CanStart(j) == exec[j] = "idle" /\ Cardinality(Reserved) < MaxRefreshes

StartRefresh(j) ==
  /\ CanStart(j)
  /\ exec' = [exec EXCEPT ![j] = "starting"]
  /\ signal' = [signal EXCEPT ![j] = "none"]
  /\ dispatched' = dispatched \ {j}
  /\ UNCHANGED <<row, lapsed, aborting>>

----------------------------------------------------------------------------
(* An execution *)

\* startRefresh: the row must still be waiting when the admission commits.
Admitted(j) == signal[j] = "none" /\ row[j] = "waiting" /\ j \notin lapsed

MarkRunning(j) ==
  /\ exec[j] = "starting"
  /\ row' = [row EXCEPT ![j] = IF Admitted(j) THEN "running" ELSE @]
  /\ exec' = [exec EXCEPT ![j] = IF Admitted(j) THEN "marked" ELSE "idle"]
  /\ UNCHANGED <<lapsed, dispatched, signal, aborting>>

\* The admission commits and its acknowledgement is lost: the start fails with
\* markedRunning unset, so the row stays running and nothing executes it.
LoseStart(j) ==
  /\ exec[j] = "starting" /\ Admitted(j)
  /\ row' = [row EXCEPT ![j] = "running"]
  /\ exec' = [exec EXCEPT ![j] = "idle"]
  /\ UNCHANGED <<lapsed, dispatched, signal, aborting>>

\* Refused: a missing permission (for Power Platform any failure but of the
\* sign-in) fails the waiting revision the admission read; for want of capacity,
\* time or sign-in the row is left waiting.
DenyStart(j) ==
  /\ exec[j] = "starting"
  /\ \/ signal[j] = "none" /\ row' = [row EXCEPT ![j] = IF @ = "waiting" THEN "failed" ELSE @]
     \/ UNCHANGED row
  /\ exec' = [exec EXCEPT ![j] = "idle"]
  /\ UNCHANGED <<lapsed, dispatched, signal, aborting>>

Interrupted(j) == IF signal[j] = "cancel" THEN "cancelling" ELSE "pausing"

\* It runs by itself, or serves a sync run whose source has the job.
Dispatch(j, serves) ==
  /\ exec[j] = "marked"
  /\ exec' = [exec EXCEPT ![j] = IF signal[j] # "none" THEN Interrupted(j) ELSE IF serves THEN "serving" ELSE "running"]
  /\ dispatched' = IF signal[j] = "none" THEN dispatched \cup {j} ELSE dispatched
  /\ UNCHANGED <<row, lapsed, signal, aborting>>

Running(j) == exec[j] \in {"running", "serving"}

\* run: the provider fails, the deadline passes, or the controller is aborted;
\* which of them is decided before the row is written.
StopRun(j) ==
  /\ Running(j)
  /\ exec' = [exec EXCEPT ![j] = IF signal[j] = "none" THEN "failing" ELSE Interrupted(j)]
  /\ UNCHANGED <<row, lapsed, dispatched, signal, aborting>>

\* completeInventoryJob: in the publication's transaction, fenced by the row.
MayComplete(j) == Running(j) /\ signal[j] = "none" /\ row[j] = "running" /\ j \notin lapsed

CompleteJob(j) ==
  /\ MayComplete(j)
  /\ row' = [row EXCEPT ![j] = "succeeded"]
  /\ exec' = [exec EXCEPT ![j] = "idle"]
  /\ UNCHANGED <<lapsed, dispatched, signal, aborting>>

Stopped(j) ==
  CASE exec[j] = "failing" -> IF row[j] \in Unfinished THEN "failed" ELSE row[j]
    [] exec[j] = "cancelling" -> IF row[j] \in Unfinished THEN "cancelled" ELSE row[j]
    [] exec[j] = "pausing" -> IF row[j] # "running" THEN row[j]
                              ELSE IF j \in lapsed THEN "failed" ELSE "waiting"

LeaveRun(j) ==
  /\ exec[j] \in {"failing", "cancelling", "pausing"}
  /\ row' = [row EXCEPT ![j] = Stopped(j)]
  /\ exec' = [exec EXCEPT ![j] = "idle"]
  /\ UNCHANGED <<lapsed, dispatched, signal, aborting>>

\* The closing write fails, which is only logged: the execution is gone and the
\* row keeps saying that it runs, until a restart or the deadline.
LoseOutcome(j) ==
  /\ exec[j] \in {"failing", "cancelling", "pausing"}
  /\ exec' = [exec EXCEPT ![j] = "idle"]
  /\ UNCHANGED <<row, lapsed, dispatched, signal, aborting>>

----------------------------------------------------------------------------
(* Cancellation, sign-out, deadlines, restarts *)

\* An execution is signalled once, and one that starts later finds the row.
CancelRows(S, status) ==
  /\ row' = [j \in Jobs |-> IF j \in S /\ row[j] \in Unfinished THEN status ELSE row[j]]
  /\ aborting' = aborting \cup {j \in S : exec[j] # "idle"}
  /\ UNCHANGED <<lapsed, exec, dispatched, signal>>

Signalled(S, reason) ==
  [j \in Jobs |-> IF j \in S /\ exec[j] # "idle" /\ signal[j] = "none" THEN reason ELSE signal[j]]

AbortCancelled(j) ==
  /\ j \in aborting
  /\ signal' = Signalled({j}, "cancel")
  /\ aborting' = aborting \ {j}
  /\ UNCHANGED <<row, lapsed, exec, dispatched>>

LapseJob(j) ==
  /\ row[j] \in Unfinished /\ j \notin lapsed
  /\ lapsed' = lapsed \cup {j}
  /\ UNCHANGED <<row, exec, dispatched, signal, aborting>>

\* recoverInterrupted, before the restarted process takes requests.
RecoverJobs ==
  /\ row' = [j \in Jobs |-> IF row[j] \in Unfinished /\ j \in lapsed THEN "failed"
                            ELSE IF row[j] = "running" THEN "waiting" ELSE row[j]]
  /\ exec' = [j \in Jobs |-> "idle"]
  /\ signal' = [j \in Jobs |-> "none"]
  /\ dispatched' = {} /\ aborting' = {}
  /\ UNCHANGED lapsed

\* What the process does for an execution besides dispatching and publishing it.
ExecStep(j) == MarkRunning(j) \/ DenyStart(j) \/ StopRun(j) \/ LeaveRun(j)
=============================================================================
