--------------------------- MODULE DataSyncProofs ---------------------------
(***************************************************************************)
(* Proofs about DataSync, for any number of accounts, runs, sources,       *)
(* attempts, requests and interruptions.                                   *)
(***************************************************************************)
EXTENDS DataSync, TLAPS

USE DEF refreshVars, dbVars, debtVars, trackVars, procVars, askVars, askFrame, workFrame

-----------------------------------------------------------------------------
(* Which steps write which variables *)

DbWrite ==
  \/ \E r \in Runs, s \in Providers : WorkAttach(r, s) \/ WorkMark(r, s) \/ WorkReport(r, s) \/ WorkFail(r, s)
  \/ \E r \in Runs : WorkCatch(r) \/ WorkFinish(r) \/ CancelRow(r)
  \/ \E r \in Runs, s \in Usage : ReadUsage(r, s)
  \/ \E j \in Jobs : PublishChild(j)
  \/ \E q \in Requests : \/ DuePrepare(q) \/ StartCommit(q) \/ DueCommit(q)
                         \/ RetryPrepare(q) \/ RetryCommit(q) \/ Launch(q) \/ Tail(q)
  \/ \E p \in Principals : SignOutPause(p)
  \/ ViewWrite \/ Restart

WorkWrite ==
  \/ \E r \in Runs, s \in Providers : WorkStep(r, s)
  \/ \E r \in Runs : WorkFinish(r)
  \/ \E q \in Requests : Launch(q)
  \/ Restart

WorkerWrite ==
  \/ \E r \in Runs : WorkEnd(r)
  \/ \E q \in Requests : Launch(q)
  \/ Restart

CtlWrite ==
  \/ \E r \in Runs : CancelAsk(r) \/ LoseAuthority(r)
  \/ \E q \in Requests : Launch(q)
  \/ \E p \in Principals : SignOut(p)
  \/ Restart

RequestWrite ==
  \/ \E q \in Requests, p \in Principals, kind \in {"start", "due"} : Admit(q, p, kind, "none")
  \/ \E q \in Requests, r \in Runs : Admit(q, OwnerOf[r], "retry", r)
  \/ \E q \in Requests : RequestStep(q)
  \/ \E r \in Runs : CancelAsk(r)
  \/ \E p \in Principals : SignOut(p)
  \/ Restart

StopWrite == (\E r \in Runs : CancelAsk(r) \/ CancelStep(r)) \/ Restart

OutWrite == (\E p \in Principals : SignOut(p) \/ SignOutStep(p)) \/ Restart

SessionWrite == \E p \in Principals : SignOut(p) \/ SignIn(p)

ViewChange == (\E r \in Runs, s \in Providers : ViewRead(r, s)) \/ ViewWrite \/ Restart

QuietWrite ==
  \/ \E q \in Requests : RetryCommit(q)
  \/ \E r \in Runs : CancelStep(r)
  \/ \E p \in Principals : SignOutStep(p)
  \/ \E j \in Jobs : UserResumes(j)

(* Every step of the coordinator is one of its actions, and each of its     *)
(* variables is written by a few of them.                                   *)
LEMMA Writers ==
  ASSUME Next
  PROVE  /\ UNCHANGED <<run, src>> \/ DbWrite
         /\ UNCHANGED work \/ WorkWrite
         /\ UNCHANGED worker \/ WorkerWrite
         /\ UNCHANGED ctl \/ CtlWrite
         /\ UNCHANGED request \/ RequestWrite
         /\ UNCHANGED stop \/ StopWrite
         /\ UNCHANGED out \/ OutWrite
         /\ UNCHANGED session \/ SessionWrite
         /\ UNCHANGED view \/ ViewChange
         /\ linked' = linked \/ \E r \in Runs, s \in Providers : WorkAttach(r, s)
         /\ UNCHANGED quiet \/ QuietWrite
         /\ accepted' = accepted \/ accepted' = TRUE
<1> DEFINE Goal ==
       /\ UNCHANGED <<run, src>> \/ DbWrite
       /\ UNCHANGED work \/ WorkWrite
       /\ UNCHANGED worker \/ WorkerWrite
       /\ UNCHANGED ctl \/ CtlWrite
       /\ UNCHANGED request \/ RequestWrite
       /\ UNCHANGED stop \/ StopWrite
       /\ UNCHANGED out \/ OutWrite
       /\ UNCHANGED session \/ SessionWrite
       /\ UNCHANGED view \/ ViewChange
       /\ linked' = linked \/ \E r \in Runs, s \in Providers : WorkAttach(r, s)
       /\ UNCHANGED quiet \/ QuietWrite
       /\ accepted' = accepted \/ accepted' = TRUE
<1>1. ASSUME NEW r \in Runs, NEW s \in Providers, WorkSubmit(r, s)
       PROVE  Goal
  BY <1>1 DEF WorkSubmit, DbWrite, WorkWrite, WorkerWrite, WorkStep, WorkEnd
<1>2. ASSUME NEW r \in Runs, NEW s \in Providers, WorkAttach(r, s)
       PROVE  Goal
  BY <1>2 DEF WorkAttach, DbWrite, WorkWrite, WorkerWrite, WorkStep, WorkEnd
<1>3. ASSUME NEW r \in Runs, NEW s \in Providers, WorkMark(r, s)
       PROVE  Goal
  BY <1>3 DEF WorkMark, DbWrite, WorkWrite, WorkerWrite, WorkStep, WorkEnd
<1>4. ASSUME NEW r \in Runs, NEW s \in Providers, WorkStart(r, s)
       PROVE  Goal
  BY <1>4 DEF WorkStart, DbWrite, WorkWrite, WorkerWrite, WorkStep, WorkEnd
<1>5. ASSUME NEW r \in Runs, NEW s \in Providers, WorkStarted(r, s)
       PROVE  Goal
  BY <1>5 DEF WorkStarted, DbWrite, WorkWrite, WorkerWrite, WorkStep, WorkEnd
<1>6. ASSUME NEW r \in Runs, NEW s \in Providers, WorkReport(r, s)
       PROVE  Goal
  BY <1>6 DEF WorkReport, DbWrite, WorkWrite, WorkerWrite, WorkStep, WorkEnd
<1>7. ASSUME NEW r \in Runs, NEW s \in Providers, WorkPoll(r, s)
       PROVE  Goal
  BY <1>7 DEF WorkPoll, DbWrite, WorkWrite, WorkerWrite, WorkStep, WorkEnd
<1>8. ASSUME NEW r \in Runs, NEW s \in Providers, WorkClean(r, s)
       PROVE  Goal
  BY <1>8 DEF WorkClean, DbWrite, WorkWrite, WorkerWrite, WorkStep, WorkEnd
<1>9. ASSUME NEW r \in Runs, NEW s \in Providers, WorkFail(r, s)
       PROVE  Goal
  BY <1>9 DEF WorkFail, DbWrite, WorkWrite, WorkerWrite, WorkStep, WorkEnd
<1>10. ASSUME NEW r \in Runs, NEW s \in Providers, ViewRead(r, s)
       PROVE  Goal
  BY <1>10 DEF ViewRead, DbWrite, WorkWrite, WorkerWrite, CtlWrite, RequestWrite, RequestStep,
     StopWrite, CancelStep, OutWrite, SignOutStep, SessionWrite, ViewChange, QuietWrite
<1>11. ASSUME NEW r \in Runs, WorkSettle(r)
       PROVE  Goal
  BY <1>11 DEF WorkSettle, DbWrite, WorkWrite, WorkerWrite, WorkStep, WorkEnd
<1>12. ASSUME NEW r \in Runs, WorkAuto(r)
       PROVE  Goal
  BY <1>12 DEF WorkAuto, DbWrite, WorkWrite, WorkerWrite, WorkStep, WorkEnd
<1>13. ASSUME NEW r \in Runs, WorkCatch(r)
       PROVE  Goal
  BY <1>13 DEF WorkCatch, DbWrite, WorkWrite, WorkerWrite, WorkStep, WorkEnd
<1>14. ASSUME NEW r \in Runs, WorkFinish(r)
       PROVE  Goal
  BY <1>14 DEF WorkFinish, DbWrite, WorkWrite, WorkerWrite, WorkStep, WorkEnd
<1>15. ASSUME NEW r \in Runs, CancelAsk(r)
       PROVE  Goal
  BY <1>15 DEF CancelAsk, DbWrite, WorkWrite, WorkerWrite, CtlWrite, RequestWrite, RequestStep,
     StopWrite, CancelStep, OutWrite, SignOutStep, SessionWrite, ViewChange, QuietWrite
<1>16. ASSUME NEW r \in Runs, CancelRow(r)
       PROVE  Goal
  BY <1>16 DEF CancelRow, DbWrite, WorkWrite, WorkerWrite, CtlWrite, RequestWrite, RequestStep,
     StopWrite, CancelStep, OutWrite, SignOutStep, SessionWrite, ViewChange, QuietWrite
<1>17. ASSUME NEW r \in Runs, CancelChildren(r)
       PROVE  Goal
  BY <1>17 DEF CancelChildren, DbWrite, WorkWrite, WorkerWrite, CtlWrite, RequestWrite,
     RequestStep, StopWrite, CancelStep, OutWrite, SignOutStep, SessionWrite, ViewChange, QuietWrite
<1>18. ASSUME NEW r \in Runs, CancelAnswer(r)
       PROVE  Goal
  BY <1>18 DEF CancelAnswer, DbWrite, WorkWrite, WorkerWrite, CtlWrite, RequestWrite, RequestStep,
     StopWrite, CancelStep, OutWrite, SignOutStep, SessionWrite, ViewChange, QuietWrite
<1>19. ASSUME NEW r \in Runs, LoseAuthority(r)
       PROVE  Goal
  BY <1>19 DEF LoseAuthority, DbWrite, WorkWrite, WorkerWrite, CtlWrite, RequestWrite,
     RequestStep, StopWrite, CancelStep, OutWrite, SignOutStep, SessionWrite, ViewChange, QuietWrite
<1>20. ASSUME NEW r \in Runs, NEW s \in Usage, ReadUsage(r, s)
       PROVE  Goal
  BY <1>20 DEF ReadUsage, DbWrite, WorkWrite, WorkerWrite, CtlWrite, RequestWrite, RequestStep,
     StopWrite, CancelStep, OutWrite, SignOutStep, SessionWrite, ViewChange, QuietWrite
<1>21. ASSUME NEW j \in Jobs, ChildStep(j)
       PROVE  Goal
  BY <1>21 DEF ChildStep, DbWrite, WorkWrite, WorkerWrite, CtlWrite, RequestWrite, RequestStep,
     StopWrite, CancelStep, OutWrite, SignOutStep, SessionWrite, ViewChange, QuietWrite
<1>22. ASSUME NEW j \in Jobs, ChildBegins(j)
       PROVE  Goal
  BY <1>22 DEF ChildBegins, DbWrite, WorkWrite, WorkerWrite, CtlWrite, RequestWrite, RequestStep,
     StopWrite, CancelStep, OutWrite, SignOutStep, SessionWrite, ViewChange, QuietWrite
<1>23. ASSUME NEW j \in Jobs, ChildAborted(j)
       PROVE  Goal
  BY <1>23 DEF ChildAborted, DbWrite, WorkWrite, WorkerWrite, CtlWrite, RequestWrite, RequestStep,
     StopWrite, CancelStep, OutWrite, SignOutStep, SessionWrite, ViewChange, QuietWrite
<1>24. ASSUME NEW j \in Jobs, PublishChild(j)
       PROVE  Goal
  BY <1>24 DEF PublishChild, DbWrite, WorkWrite, WorkerWrite, CtlWrite, RequestWrite, RequestStep,
     StopWrite, CancelStep, OutWrite, SignOutStep, SessionWrite, ViewChange, QuietWrite
<1>25. ASSUME NEW j \in Jobs, ChildExpires(j)
       PROVE  Goal
  BY <1>25 DEF ChildExpires, DbWrite, WorkWrite, WorkerWrite, CtlWrite, RequestWrite, RequestStep,
     StopWrite, CancelStep, OutWrite, SignOutStep, SessionWrite, ViewChange, QuietWrite
<1>25a. ASSUME NEW j \in Jobs, ChildForgets(j)
       PROVE  Goal
  BY <1>25a DEF ChildForgets, DbWrite, WorkWrite, WorkerWrite, CtlWrite, RequestWrite, RequestStep,
     StopWrite, CancelStep, OutWrite, SignOutStep, SessionWrite, ViewChange, QuietWrite
<1>25b. ASSUME NEW j \in Jobs, ChildTimesOut(j)
       PROVE  Goal
  BY <1>25b DEF ChildTimesOut, DbWrite, WorkWrite, WorkerWrite, CtlWrite, RequestWrite, RequestStep,
     StopWrite, CancelStep, OutWrite, SignOutStep, SessionWrite, ViewChange, QuietWrite
<1>26. ASSUME NEW j \in Jobs, UserResumes(j)
       PROVE  Goal
  BY <1>26 DEF UserResumes, DbWrite, WorkWrite, WorkerWrite, CtlWrite, RequestWrite, RequestStep,
     StopWrite, CancelStep, OutWrite, SignOutStep, SessionWrite, ViewChange, QuietWrite
<1>27. ASSUME NEW j \in Jobs, UserCancels(j)
       PROVE  Goal
  BY <1>27 DEF UserCancels, DbWrite, WorkWrite, WorkerWrite, CtlWrite, RequestWrite, RequestStep,
     StopWrite, CancelStep, OutWrite, SignOutStep, SessionWrite, ViewChange, QuietWrite
<1>28. ASSUME NEW q \in Requests, NEW p \in Principals, NEW kind \in {"start", "due"}, Admit(q, p, kind, "none")
       PROVE  Goal
  BY <1>28 DEF Admit, DbWrite, WorkWrite, WorkerWrite, CtlWrite, RequestWrite, RequestStep,
     StopWrite, CancelStep, OutWrite, SignOutStep, SessionWrite, ViewChange, QuietWrite
<1>29. ASSUME NEW q \in Requests, NEW r \in Runs, Admit(q, OwnerOf[r], "retry", r)
       PROVE  Goal
  BY <1>29 DEF Admit, DbWrite, WorkWrite, WorkerWrite, CtlWrite, RequestWrite, RequestStep,
     StopWrite, CancelStep, OutWrite, SignOutStep, SessionWrite, ViewChange, QuietWrite
<1>30. ASSUME NEW q \in Requests, Refuse(q)
       PROVE  Goal
  BY <1>30 DEF Refuse, DbWrite, WorkWrite, WorkerWrite, CtlWrite, RequestWrite, RequestStep,
     StopWrite, CancelStep, OutWrite, SignOutStep, SessionWrite, ViewChange, QuietWrite
<1>31. ASSUME NEW q \in Requests, AdmitClean(q)
       PROVE  Goal
  BY <1>31 DEF AdmitClean, DbWrite, WorkWrite, WorkerWrite, CtlWrite, RequestWrite, RequestStep,
     StopWrite, CancelStep, OutWrite, SignOutStep, SessionWrite, ViewChange, QuietWrite
<1>32. ASSUME NEW q \in Requests, DuePrepare(q)
       PROVE  Goal
  BY <1>32 DEF DuePrepare, DbWrite, WorkWrite, WorkerWrite, CtlWrite, RequestWrite, RequestStep,
     StopWrite, CancelStep, OutWrite, SignOutStep, SessionWrite, ViewChange, QuietWrite
<1>33. ASSUME NEW q \in Requests, StartCommit(q)
       PROVE  Goal
  BY <1>33 DEF StartCommit, DbWrite, WorkWrite, WorkerWrite, CtlWrite, RequestWrite, RequestStep,
     StopWrite, CancelStep, OutWrite, SignOutStep, SessionWrite, ViewChange, QuietWrite, Create
<1>34. ASSUME NEW q \in Requests, DueCommit(q)
       PROVE  Goal
  BY <1>34 DEF DueCommit, DbWrite, WorkWrite, WorkerWrite, CtlWrite, RequestWrite, RequestStep,
     StopWrite, CancelStep, OutWrite, SignOutStep, SessionWrite, ViewChange, QuietWrite, Create
<1>35. ASSUME NEW q \in Requests, RetryPrepare(q)
       PROVE  Goal
  BY <1>35 DEF RetryPrepare, DbWrite, WorkWrite, WorkerWrite, CtlWrite, RequestWrite, RequestStep,
     StopWrite, CancelStep, OutWrite, SignOutStep, SessionWrite, ViewChange, QuietWrite
<1>36. ASSUME NEW q \in Requests, RetryCancel(q)
       PROVE  Goal
  BY <1>36 DEF RetryCancel, DbWrite, WorkWrite, WorkerWrite, CtlWrite, RequestWrite, RequestStep,
     StopWrite, CancelStep, OutWrite, SignOutStep, SessionWrite, ViewChange, QuietWrite
<1>37. ASSUME NEW q \in Requests, RetryCommit(q)
       PROVE  Goal
  BY <1>37 DEF RetryCommit, DbWrite, WorkWrite, WorkerWrite, CtlWrite, RequestWrite, RequestStep,
     StopWrite, CancelStep, OutWrite, SignOutStep, SessionWrite, ViewChange, QuietWrite
<1>38. ASSUME NEW q \in Requests, Launch(q)
       PROVE  Goal
  BY <1>38 DEF Launch, DbWrite, WorkWrite, WorkerWrite, CtlWrite, RequestWrite, RequestStep,
     StopWrite, CancelStep, OutWrite, SignOutStep, SessionWrite, ViewChange, QuietWrite
<1>39. ASSUME NEW q \in Requests, Tail(q)
       PROVE  Goal
  BY <1>39 DEF Tail, DbWrite, WorkWrite, WorkerWrite, CtlWrite, RequestWrite, RequestStep,
     StopWrite, CancelStep, OutWrite, SignOutStep, SessionWrite, ViewChange, QuietWrite
<1>40. ASSUME NEW p \in Principals, SignOut(p)
       PROVE  Goal
  BY <1>40 DEF SignOut, DbWrite, WorkWrite, WorkerWrite, CtlWrite, RequestWrite, RequestStep,
     StopWrite, CancelStep, OutWrite, SignOutStep, SessionWrite, ViewChange, QuietWrite
<1>41. ASSUME NEW p \in Principals, SignOutChildren(p)
       PROVE  Goal
  BY <1>41 DEF SignOutChildren, DbWrite, WorkWrite, WorkerWrite, CtlWrite, RequestWrite,
     RequestStep, StopWrite, CancelStep, OutWrite, SignOutStep, SessionWrite, ViewChange, QuietWrite
<1>42. ASSUME NEW p \in Principals, SignOutPause(p)
       PROVE  Goal
  BY <1>42 DEF SignOutPause, DbWrite, WorkWrite, WorkerWrite, CtlWrite, RequestWrite, RequestStep,
     StopWrite, CancelStep, OutWrite, SignOutStep, SessionWrite, ViewChange, QuietWrite
<1>43. ASSUME NEW p \in Principals, SignOutClean(p)
       PROVE  Goal
  BY <1>43 DEF SignOutClean, DbWrite, WorkWrite, WorkerWrite, CtlWrite, RequestWrite, RequestStep,
     StopWrite, CancelStep, OutWrite, SignOutStep, SessionWrite, ViewChange, QuietWrite
<1>44. ASSUME NEW p \in Principals, SignIn(p)
       PROVE  Goal
  BY <1>44 DEF SignIn, DbWrite, WorkWrite, WorkerWrite, CtlWrite, RequestWrite, RequestStep,
     StopWrite, CancelStep, OutWrite, SignOutStep, SessionWrite, ViewChange, QuietWrite
<1>45. ASSUME ViewWrite
       PROVE  Goal
  BY <1>45 DEF ViewWrite, DbWrite, WorkWrite, WorkerWrite, CtlWrite, RequestWrite, RequestStep,
     StopWrite, CancelStep, OutWrite, SignOutStep, SessionWrite, ViewChange, QuietWrite
<1>46. ASSUME ImportUsage
       PROVE  Goal
  BY <1>46 DEF ImportUsage, DbWrite, WorkWrite, WorkerWrite, CtlWrite, RequestWrite, RequestStep,
     StopWrite, CancelStep, OutWrite, SignOutStep, SessionWrite, ViewChange, QuietWrite
<1>47. ASSUME Restart
       PROVE  Goal
  BY <1>47 DEF Restart, DbWrite, WorkWrite, WorkerWrite, CtlWrite, RequestWrite, RequestStep,
     StopWrite, CancelStep, OutWrite, SignOutStep, SessionWrite, ViewChange, QuietWrite
<1> QED
  BY <1>1, <1>2, <1>3, <1>4, <1>5, <1>6, <1>7, <1>8, <1>9, <1>10, <1>11, <1>12, <1>13, <1>14,
     <1>15, <1>16, <1>17, <1>18, <1>19, <1>20, <1>21, <1>22, <1>23, <1>24, <1>25, <1>25a, <1>25b,
     <1>26, <1>27,
     <1>28, <1>29, <1>30, <1>31, <1>32, <1>33, <1>34, <1>35, <1>36, <1>37, <1>38, <1>39, <1>40,
     <1>41, <1>42, <1>43, <1>44, <1>45, <1>46, <1>47
     DEF Next, WorkStep, WorkEnd, CancelStep, RequestStep, SignOutStep, Principals

-----------------------------------------------------------------------------
(* The inductive invariant, first part: the types of the coordinator's      *)
(* variables, and what they say about the rows of child jobs.               *)

RunRow == [status : {"none", "running", "waiting", "completed", "partial", "cancelled"}, auto : BOOLEAN]
SourceStatus == Open \cup Retryable \cup {"absent", "upload", "succeeded"}
SourceRow == [status : SourceStatus, job : 0..MaxAttempts, attempt : 1..MaxAttempts]
Seen == JobStatus \cup {"denied"}
TrackingPc == {"attach", "mark", "start", "starting", "report", "poll", "clean"}
WorkPc == {"off", "submit", "fail", "done", "threw"} \cup TrackingPc
WorkRow == [pc : WorkPc, seen : Seen, job : 0..MaxAttempts]
PreparingPc == {"clean", "prepare", "cancel", "commit"}
RequestPc == {"idle", "launch", "tail", "rest"} \cup PreparingPc
Reason == {"none", "cancel", "auth"}
RequestRow == [pc : RequestPc, kind : {"none", "start", "due", "retry"}, who : Principals \cup {"none"},
               run : Runs \cup {"none"}, sel : SUBSET Sources, why : Reason]
StopRow == [pc : {"no", "row", "clean", "again", "answer"}, ok : BOOLEAN]
OutRow == [pc : {"no", "children", "pause", "clean"}, runs : SUBSET Runs, ok : BOOLEAN]
ViewRow == [pc : {"idle", "write"}, run : Runs \cup {"none"}, source : Providers \cup {"none"},
            job : 0..MaxAttempts, seen : JobStatus]

Typed ==
  /\ RefreshTypeOK
  /\ run \in [Runs -> RunRow]
  /\ src \in [Runs -> [Sources -> SourceRow]]
  /\ linked \subseteq Jobs /\ accepted \in BOOLEAN
  /\ worker \in [Runs -> {"no", "work", "auto", "catch", "finish"}]
  /\ work \in [Runs -> [Providers -> WorkRow]]
  /\ ctl \in [Runs -> Reason]
  /\ kids \in [Runs -> SUBSET Jobs] /\ dirty \in [Runs -> SUBSET Jobs]
  /\ \A r \in Runs : dirty[r] \subseteq kids[r]
  /\ owed \in [Runs -> SUBSET Jobs] /\ forgotten \subseteq Jobs
  /\ request \in [Requests -> RequestRow]
  /\ stop \in [Runs -> StopRow]
  /\ out \in [Principals -> OutRow]
  /\ session \subseteq Principals /\ quiet \subseteq Runs
  /\ view \in ViewRow

(* Job n of source s has been submitted for run r.                          *)
Submitted(r, s, n) == n # 0 /\ row[<<r, s, n>>] # "none"

(* What was seen of a job whose success is final.                           *)
SeenOf(r, s, n, seen) == Submitted(r, s, n) /\ (seen = "succeeded" => row[<<r, s, n>>] = "succeeded")

(* A source that tracks a job has submitted it, and what it reports of the  *)
(* job is what it saw.                                                      *)
WorkInv ==
  \A r \in Runs, s \in Providers :
    LET w == work[r][s] IN
    /\ w.pc \in {"off", "submit"} => w.job = 0
    /\ w.pc \in TrackingPc => w.job # 0
    /\ w.job = 0 => w.seen = "none"
    /\ w.job # 0 => SeenOf(r, s, w.job, w.seen)
    /\ w.pc = "report" => w.seen \notin {"none", "denied"}

(* A run that does not exist has no sources; the job of a source exists.    *)
SourceInv ==
  \A r \in Runs :
    /\ run[r].status = "none" => \A s \in Sources : src[r][s] = Absent
    /\ \A s \in Providers : src[r][s].job # 0 => Submitted(r, s, src[r][s].job)

RequestInv ==
  \A q \in Requests :
    LET a == request[q] IN
    /\ a.pc = "idle" <=> a = NoRequest
    /\ a.pc # "idle" => a.who \in Principals /\ a.kind # "none"
    /\ a.kind = "retry" \/ a.pc \in {"launch", "tail", "rest"} => a.run \in RunsOf(a.who)
    /\ a.kind = "retry" /\ a.pc \in {"cancel", "commit"} => a.sel # {}
    /\ a.pc = "cancel" => a.kind = "retry"
    /\ a.pc \in PreparingPc /\ a.kind # "retry" => a.run = "none"

ViewInv ==
  view.pc = "write" =>
    /\ view.run \in Runs /\ view.source \in Providers
    /\ view.seen # "none" /\ SeenOf(view.run, view.source, view.job, view.seen)

BaseInv == Typed /\ WorkInv /\ SourceInv /\ RequestInv /\ ViewInv

(* The job of an attempt is a job, and a job is that of an attempt.         *)
LEMMA ChildIsJob ==
  ASSUME NEW r \in Runs, NEW s \in Providers, NEW n \in 0..MaxAttempts, n # 0
  PROVE  <<r, s, n>> \in Jobs
BY SyncAssumption

LEMMA JobIsChild ==
  ASSUME NEW j \in Jobs
  PROVE  j[1] \in Runs /\ j[2] \in Providers /\ j[3] \in 1..MaxAttempts /\ j = <<j[1], j[2], j[3]>>
BY SyncAssumption

LEMMA TrackedIsJob ==
  ASSUME Typed, WorkInv, NEW r \in Runs, NEW s \in Providers, work[r][s].pc \in TrackingPc
  PROVE  Child(r, s) \in Jobs
<1>1. work[r][s] \in WorkRow /\ work[r][s].job # 0
  BY DEF Typed, WorkInv
<1> QED
  BY <1>1, ChildIsJob DEF Child, WorkRow

LEMMA PersistedAreJobs ==
  ASSUME Typed, NEW r \in Runs
  PROVE  Persisted(r) \subseteq Jobs
<1>1. \A s \in Providers : src[r][s].job \in 0..MaxAttempts
  BY DEF Typed, SourceRow, Sources
<1> QED
  BY <1>1, ChildIsJob DEF Persisted

-----------------------------------------------------------------------------
(* What a step does to the refresh jobs                                     *)

(* The worker of a source starts its job, or the user does.                 *)
Starts(j) ==
  /\ StartRefresh(j)
  /\ UserResumes(j) \/ \E r \in Runs, s \in Providers : WorkStart(r, s) /\ Current(r) /\ j = Child(r, s)

RefreshStep ==
  \/ UNCHANGED refreshVars
  \/ \E j \in Jobs : SubmitJob(j) \/ Starts(j) \/ ExecStep(j) \/ AbortCancelled(j) \/ LapseJob(j)
  \/ \E j \in Jobs : LoseStart(j) \/ LoseOutcome(j)
  \/ \E j \in Jobs : ChildBegins(j) \/ PublishChild(j)
  \/ \E S \in SUBSET Jobs, status \in {"cancelled", "cleaned"} : CancelRows(S, status)
  \/ \E S \in SUBSET Jobs : signal' = Signalled(S, "auth") /\ UNCHANGED <<row, lapsed, exec, dispatched, aborting>>
  \/ RecoverJobs

(* Job j is cancelled, and its execution, if it has one, is being told.     *)
Told(j) == row'[j] \notin Unfinished /\ (exec'[j] # "idle" => j \in aborting')

(* The worker of run r takes or gives back its tracker, or a cancellation does. *)
Drops(r) ==
  \/ WorkFinish(r) \/ CancelAsk(r) \/ CancelAnswer(r)
  \/ \E q \in Requests : Launch(q) /\ request[q].run = r /\ worker'[r] # worker[r]

(* The trackers of run r hold K, D and O, and F are forgotten: what r owed   *)
(* before is owed or forgotten still, or it has been told.                   *)
Tracks(r, K, D, O, F) ==
  /\ D \subseteq K /\ forgotten \subseteq F
  /\ kids' = [kids EXCEPT ![r] = K] /\ dirty' = [dirty EXCEPT ![r] = D]
  /\ owed' = [owed EXCEPT ![r] = O] /\ forgotten' = F
  /\ \A j \in (dirty[r] \cup owed[r]) \ (D \cup O \cup F) : Told(j)
  /\ Drops(r) \/ (kids[r] \subseteq K /\ \A j \in dirty[r] \ D : Told(j))

TrackStep ==
  \/ UNCHANGED <<kids, dirty, debtVars>>
  \/ \E r \in Runs, K, D, O, F \in SUBSET Jobs : Tracks(r, K, D, O, F)
  \/ Restart

LEMMA CancelledAreTold ==
  ASSUME NEW S \in SUBSET Jobs, NEW status \in {"cancelled", "cleaned"}, CancelRows(S, status), NEW j \in S
  PROVE  Told(j)
BY DEF CancelRows, Told, Unfinished

(* A clean-up of tracked, owed or other children is one step of the jobs and *)
(* one of the tracker, also when it settles what a replaced tracker owed.    *)
LEMMA CleanUpTracks ==
  ASSUME Typed, NEW r \in Runs, NEW S \in SUBSET Jobs, CleanUp(r, S),
         \/ UNCHANGED debtVars
         \/ owed[r] \subseteq S /\ owed' = [owed EXCEPT ![r] = {}] /\ UNCHANGED forgotten
  PROVE  RefreshStep /\ TrackStep
<1>1. /\ kids \in [Runs -> SUBSET Jobs] /\ dirty \in [Runs -> SUBSET Jobs] /\ dirty[r] \subseteq kids[r]
      /\ owed \in [Runs -> SUBSET Jobs] /\ forgotten \in SUBSET Jobs
  BY DEF Typed
<1>2. PICK O \in {owed[r], {}} : /\ owed' = [owed EXCEPT ![r] = O] /\ forgotten' = forgotten
                                /\ owed[r] \ O \subseteq S
  BY <1>1
<1>3. CASE CancelRows(S, Stopping(r)) /\ dirty' = [dirty EXCEPT ![r] = @ \ S]
  <2>1. Stopping(r) \in {"cancelled", "cleaned"}
    BY DEF Stopping
  <2>2. \A j \in S : Told(j)
    BY <1>3, <2>1, CancelledAreTold
  <2>3. RefreshStep
    BY <1>3, <2>1 DEF RefreshStep
  <2> DEFINE K == kids[r] \cup S
             D == dirty[r] \ S
  <2>4. K \in SUBSET Jobs /\ D \in SUBSET Jobs /\ O \in SUBSET Jobs /\ D \subseteq K
    BY <1>1, <1>2
  <2>5. (dirty[r] \cup owed[r]) \ (D \cup O \cup forgotten) \subseteq S /\ dirty[r] \ D \subseteq S /\ kids[r] \subseteq K
    BY <1>2
  <2>6. kids' = [kids EXCEPT ![r] = K] /\ dirty' = [dirty EXCEPT ![r] = D]
    BY <1>1, <1>3 DEF CleanUp
  <2> HIDE DEF K, D
  <2>7. Tracks(r, K, D, O, forgotten)
    BY <1>2, <2>2, <2>4, <2>5, <2>6 DEF Tracks
  <2> QED
    BY <1>1, <2>3, <2>4, <2>7 DEF TrackStep
<1>4. CASE UNCHANGED refreshVars /\ dirty' = [dirty EXCEPT ![r] = @ \cup S]
  <2> DEFINE K == kids[r] \cup S
             D == dirty[r] \cup S
  <2>1. K \in SUBSET Jobs /\ D \in SUBSET Jobs /\ O \in SUBSET Jobs /\ D \subseteq K
    BY <1>1, <1>2
  <2>2. (dirty[r] \cup owed[r]) \ (D \cup O \cup forgotten) = {} /\ dirty[r] \ D = {} /\ kids[r] \subseteq K
    BY <1>2
  <2>3. kids' = [kids EXCEPT ![r] = K] /\ dirty' = [dirty EXCEPT ![r] = D]
    BY <1>1, <1>4 DEF CleanUp
  <2> HIDE DEF K, D
  <2>4. Tracks(r, K, D, O, forgotten)
    BY <1>2, <2>1, <2>2, <2>3 DEF Tracks
  <2> QED
    BY <1>1, <1>4, <2>1, <2>4 DEF TrackStep, RefreshStep
<1> QED
  BY <1>3, <1>4 DEF CleanUp

LEMMA CleanUpOwedTracks ==
  ASSUME Typed, NEW r \in Runs, CleanUpOwed(r), UNCHANGED <<kids, dirty, forgotten>>
  PROVE  RefreshStep /\ TrackStep
<1> DEFINE S == owed[r] \cup Persisted(r)
<1>1. /\ kids \in [Runs -> SUBSET Jobs] /\ dirty \in [Runs -> SUBSET Jobs] /\ dirty[r] \subseteq kids[r]
      /\ owed \in [Runs -> SUBSET Jobs] /\ forgotten \in SUBSET Jobs /\ S \in SUBSET Jobs
  BY PersistedAreJobs DEF Typed
<1>2. kids' = [kids EXCEPT ![r] = kids[r]] /\ dirty' = [dirty EXCEPT ![r] = dirty[r]] /\ forgotten' = forgotten
  BY <1>1
<1>3. CASE CancelRows(S, "cleaned") /\ owed' = [owed EXCEPT ![r] = {}]
  <2>1. \A j \in owed[r] : Told(j)
    BY <1>1, <1>3, CancelledAreTold
  <2>2. Tracks(r, kids[r], dirty[r], {}, forgotten)
    BY <1>1, <1>2, <1>3, <2>1 DEF Tracks
  <2> QED
    BY <1>1, <1>3, <2>2 DEF TrackStep, RefreshStep
<1>4. CASE UNCHANGED refreshVars /\ owed' = [owed EXCEPT ![r] = owed[r] \cup S]
  <2>1. Tracks(r, kids[r], dirty[r], owed[r] \cup S, forgotten)
    BY <1>1, <1>2, <1>4 DEF Tracks
  <2> QED
    BY <1>1, <1>4, <2>1 DEF TrackStep, RefreshStep
<1> QED
  BY <1>3, <1>4 DEF CleanUpOwed

(* A step is at most one operation of the refresh jobs and of the tracker.  *)
LEMMA RefreshSteps ==
  ASSUME Typed, WorkInv, RequestInv, Next
  PROVE  RefreshStep /\ TrackStep
<1> DEFINE Goal == RefreshStep /\ TrackStep
<1>a. ASSUME UNCHANGED refreshVars, UNCHANGED <<kids, dirty, debtVars>>
      PROVE  Goal
  BY <1>a DEF RefreshStep, TrackStep
<1>b. ASSUME UNCHANGED <<dirty, debtVars>>, NEW r \in Runs, NEW S \in SUBSET Jobs,
             dirty[r] \subseteq S, kids' = [kids EXCEPT ![r] = S], Drops(r) \/ kids[r] \subseteq S
      PROVE  TrackStep
  <2>1. /\ dirty' = [dirty EXCEPT ![r] = dirty[r]] /\ owed' = [owed EXCEPT ![r] = owed[r]]
        /\ dirty[r] \in SUBSET Jobs /\ owed[r] \in SUBSET Jobs /\ forgotten \in SUBSET Jobs
    BY <1>b DEF Typed
  <2>2. Tracks(r, S, dirty[r], owed[r], forgotten)
    BY <1>b, <2>1 DEF Tracks
  <2> QED
    BY <2>1, <2>2 DEF TrackStep
<1>c. ASSUME NEW r \in Runs
      PROVE  kids[r] \in SUBSET Jobs /\ dirty[r] \subseteq kids[r] /\ dirty[r] \subseteq Jobs
  BY DEF Typed
<1>o. ASSUME NEW r \in Runs
      PROVE  owed[r] \in SUBSET Jobs /\ forgotten \in SUBSET Jobs
  BY DEF Typed
<1>d. ASSUME NEW r \in Runs
      PROVE  kids[r] \cup Persisted(r) \in SUBSET Jobs
  BY <1>c, PersistedAreJobs
<1>1. ASSUME NEW r \in Runs, NEW s \in Providers, WorkSubmit(r, s)
       PROVE  Goal
  <2> DEFINE j == <<r, s, src[r][s].attempt>>
  <2>1. j \in Jobs
    BY ChildIsJob DEF Typed, SourceRow, Sources
  <2>2. CASE UNCHANGED <<refreshVars, kids, dirty, debtVars>>
    BY <2>2, <1>a
  <2>3. CASE SubmitJob(j) /\ UNCHANGED <<dirty, debtVars>> /\ kids' \in {kids, [kids EXCEPT ![r] = @ \cup {j}]}
    <3>1. RefreshStep
      BY <2>1, <2>3 DEF RefreshStep
    <3>2. kids[r] \cup {j} \in SUBSET Jobs /\ dirty[r] \subseteq kids[r] \cup {j} /\ kids[r] \subseteq kids[r] \cup {j}
      BY <2>1, <1>c
    <3>3. TrackStep
      BY <2>3, <3>2, <1>b DEF TrackStep
    <3> QED
      BY <3>1, <3>3
  <2> QED
    BY <2>2, <2>3, <1>1 DEF WorkSubmit
<1>2. ASSUME NEW r \in Runs, NEW s \in Providers, WorkAttach(r, s)
       PROVE  Goal
  BY <1>2, <1>a DEF WorkAttach
<1>3. ASSUME NEW r \in Runs, NEW s \in Providers, WorkMark(r, s)
       PROVE  Goal
  BY <1>3, <1>a DEF WorkMark
<1>4. ASSUME NEW r \in Runs, NEW s \in Providers, WorkStart(r, s)
       PROVE  Goal
  <2>1. CASE UNCHANGED <<refreshVars, kids, dirty, debtVars>>
    BY <2>1, <1>a
  <2>2. CASE Current(r) /\ StartRefresh(Child(r, s)) /\ UNCHANGED <<kids, dirty, debtVars>>
    <3>1. Child(r, s) \in Jobs
      BY <1>4, TrackedIsJob DEF WorkStart, At, TrackingPc
    <3>2. Starts(Child(r, s))
      BY <1>4, <2>2 DEF Starts
    <3> QED
      BY <2>2, <3>1, <3>2 DEF RefreshStep, TrackStep
  <2> QED
    BY <2>1, <2>2, <1>4 DEF WorkStart
<1>5. ASSUME NEW r \in Runs, NEW s \in Providers, WorkStarted(r, s)
       PROVE  Goal
  BY <1>5, <1>a DEF WorkStarted
<1>6. ASSUME NEW r \in Runs, NEW s \in Providers, WorkReport(r, s)
       PROVE  Goal
  BY <1>6, <1>a DEF WorkReport
<1>7. ASSUME NEW r \in Runs, NEW s \in Providers, WorkPoll(r, s)
       PROVE  Goal
  BY <1>7, <1>a DEF WorkPoll
<1>8. ASSUME NEW r \in Runs, NEW s \in Providers, WorkClean(r, s)
       PROVE  Goal
  <2>1. {Child(r, s)} \in SUBSET Jobs
    BY <1>8, TrackedIsJob DEF WorkClean, At, TrackingPc
  <2> QED
    BY <1>8, <2>1, CleanUpTracks DEF WorkClean
<1>9. ASSUME NEW r \in Runs, NEW s \in Providers, WorkFail(r, s)
       PROVE  Goal
  BY <1>9, <1>a DEF WorkFail
<1>10. ASSUME NEW r \in Runs, NEW s \in Providers, ViewRead(r, s)
       PROVE  Goal
  BY <1>10, <1>a DEF ViewRead
<1>11. ASSUME NEW r \in Runs, WorkSettle(r)
       PROVE  Goal
  BY <1>11, <1>a DEF WorkSettle
<1>12. ASSUME NEW r \in Runs, WorkAuto(r)
       PROVE  Goal
  BY <1>12, PersistedAreJobs, CleanUpTracks DEF WorkAuto
<1>13. ASSUME NEW r \in Runs, WorkCatch(r)
       PROVE  Goal
  BY <1>13, <1>a DEF WorkCatch
<1>14. ASSUME NEW r \in Runs, WorkFinish(r)
       PROVE  Goal
  <2> DEFINE kept == IF dirty[r] = {} THEN owed[r] ELSE KeptDebt(r)
             back == IF stop[r].pc = "no" THEN kept ELSE {}
             K == (IF dirty[r] = {} /\ ~Held(r) THEN {} ELSE kids[r]) \cup back
             D == dirty[r] \cup back
             O == kept \ back
             F == forgotten \cup (owed[r] \ kept)
  <2>1. kept \subseteq owed[r] /\ back \subseteq kept
    BY DEF KeptDebt
  <2>2. K \in SUBSET Jobs /\ D \in SUBSET Jobs /\ O \in SUBSET Jobs /\ F \in SUBSET Jobs /\ D \subseteq K
    <3> HIDE DEF kept, back
    <3> QED
      BY <1>c, <1>o, <2>1
  <2>3. (dirty[r] \cup owed[r]) \subseteq D \cup O \cup F
    <3> HIDE DEF kept, back
    <3> QED
      BY <2>1
  <2>4. Tracks(r, K, D, O, F)
    <3>1. /\ kids' = [kids EXCEPT ![r] = K] /\ dirty' = [dirty EXCEPT ![r] = D]
          /\ owed' = [owed EXCEPT ![r] = O] /\ forgotten' = F
      BY <1>14 DEF WorkFinish
    <3>2. forgotten \subseteq F
      OBVIOUS
    <3> HIDE DEF K, D, O, F
    <3> QED
      BY <1>14, <2>2, <2>3, <3>1, <3>2 DEF Tracks, Drops
  <2>5. UNCHANGED refreshVars
    BY <1>14 DEF WorkFinish
  <2> HIDE DEF K, D, O, F
  <2> QED
    BY <2>2, <2>4, <2>5 DEF TrackStep, RefreshStep
<1>15. ASSUME NEW r \in Runs, CancelAsk(r)
       PROVE  Goal
  <2>1. \E S \in {Persisted(r), kids[r] \cup Persisted(r)} :
           dirty[r] \subseteq S /\ kids' = [kids EXCEPT ![r] = S]
    BY <1>15, <1>c DEF CancelAsk
  <2> QED
    <3>1. Drops(r) /\ UNCHANGED <<refreshVars, dirty, debtVars>>
      BY <1>15 DEF Drops, CancelAsk
    <3>2. PICK S \in SUBSET Jobs : dirty[r] \subseteq S /\ kids' = [kids EXCEPT ![r] = S]
      BY <2>1, <1>d, PersistedAreJobs
    <3>3. TrackStep
      BY <3>1, <3>2, <1>b
    <3> QED
      BY <3>1, <3>3 DEF RefreshStep
<1>16. ASSUME NEW r \in Runs, CancelRow(r)
       PROVE  Goal
  BY <1>16, <1>a DEF CancelRow
<1>17. ASSUME NEW r \in Runs, CancelChildren(r)
       PROVE  Goal
  BY <1>17, <1>c, <1>d, CleanUpTracks DEF CancelChildren
<1>18. ASSUME NEW r \in Runs, CancelAnswer(r)
       PROVE  Goal
  <2> DEFINE D == dirty[r] \cup KeptDebt(r)
             K == IF D = {} THEN {} ELSE kids[r] \cup KeptDebt(r)
             F == forgotten \cup (owed[r] \ KeptDebt(r))
  <2>1. KeptDebt(r) \subseteq owed[r]
    BY DEF KeptDebt
  <2>2. K \in SUBSET Jobs /\ D \in SUBSET Jobs /\ F \in SUBSET Jobs /\ D \subseteq K
    BY <1>c, <1>o, <2>1
  <2>3. (dirty[r] \cup owed[r]) \subseteq D \cup {} \cup F
    OBVIOUS
  <2>4. Tracks(r, K, D, {}, F)
    <3>1. dirty' = [dirty EXCEPT ![r] = D] /\ dirty'[r] = D
      BY <1>18 DEF CancelAnswer, Typed
    <3>2. kids' = [kids EXCEPT ![r] = K] /\ owed' = [owed EXCEPT ![r] = {}] /\ forgotten' = F
      BY <1>18, <3>1 DEF CancelAnswer
    <3>3. forgotten \subseteq F
      OBVIOUS
    <3> HIDE DEF K, D, F
    <3> QED
      BY <1>18, <2>2, <2>3, <3>1, <3>2, <3>3 DEF Tracks, Drops
  <2>5. UNCHANGED refreshVars
    BY <1>18 DEF CancelAnswer
  <2> HIDE DEF K, D, F
  <2> QED
    BY <2>2, <2>4, <2>5 DEF TrackStep, RefreshStep
<1>19. ASSUME NEW r \in Runs, LoseAuthority(r)
       PROVE  Goal
  BY <1>19, <1>a DEF LoseAuthority
<1>20. ASSUME NEW r \in Runs, NEW s \in Usage, ReadUsage(r, s)
       PROVE  Goal
  BY <1>20, <1>a DEF ReadUsage
<1>21. ASSUME NEW j \in Jobs, ChildStep(j)
       PROVE  Goal
  BY <1>21 DEF ChildStep, RefreshStep, TrackStep
<1>22. ASSUME NEW j \in Jobs, ChildBegins(j)
       PROVE  Goal
  <2>1. UNCHANGED <<kids, dirty, debtVars>>
    BY <1>22 DEF ChildBegins
  <2> QED
    BY <1>22, <2>1 DEF RefreshStep, TrackStep
<1>23. ASSUME NEW j \in Jobs, ChildAborted(j)
       PROVE  Goal
  BY <1>23 DEF ChildAborted, RefreshStep, TrackStep
<1>24. ASSUME NEW j \in Jobs, PublishChild(j)
       PROVE  Goal
  <2>1. UNCHANGED <<kids, dirty, debtVars>>
    BY <1>24 DEF PublishChild
  <2> QED
    BY <1>24, <2>1 DEF RefreshStep, TrackStep
<1>25. ASSUME NEW j \in Jobs, ChildExpires(j)
       PROVE  Goal
  BY <1>25 DEF ChildExpires, RefreshStep, TrackStep
<1>25a. ASSUME NEW j \in Jobs, ChildForgets(j)
       PROVE  Goal
  BY <1>25a DEF ChildForgets, RefreshStep, TrackStep
<1>25b. ASSUME NEW j \in Jobs, ChildTimesOut(j)
       PROVE  Goal
  BY <1>25b DEF ChildTimesOut, RefreshStep, TrackStep
<1>26. ASSUME NEW j \in Jobs, UserResumes(j)
       PROVE  Goal
  <2>1. UNCHANGED <<kids, dirty, debtVars>> /\ Starts(j)
    BY <1>26 DEF UserResumes, Starts
  <2> QED
    BY <2>1 DEF RefreshStep, TrackStep
<1>27. ASSUME NEW j \in Jobs, UserCancels(j)
       PROVE  Goal
  BY <1>27 DEF UserCancels, RefreshStep, TrackStep
<1>28. ASSUME NEW q \in Requests, NEW p \in Principals, NEW kind \in {"start", "due"}, Admit(q, p, kind, "none")
       PROVE  Goal
  BY <1>28, <1>a DEF Admit
<1>29. ASSUME NEW q \in Requests, NEW r \in Runs, Admit(q, OwnerOf[r], "retry", r)
       PROVE  Goal
  BY <1>29, <1>a DEF Admit
<1>30. ASSUME NEW q \in Requests, Refuse(q)
       PROVE  Goal
  BY <1>30, <1>a DEF Refuse
<1>31. ASSUME NEW q \in Requests, AdmitClean(q)
       PROVE  Goal
  <2>1. CASE UNCHANGED <<refreshVars, trackVars>>
    BY <2>1, <1>a
  <2>2. CASE \E r \in Runs : CleanUp(r, kids[r] \cup Persisted(r)) /\ UNCHANGED debtVars
    BY <2>2, <1>d, CleanUpTracks
  <2>3. CASE \E r \in Runs : CleanUpOwed(r) /\ UNCHANGED <<kids, dirty, forgotten>>
    BY <2>3, CleanUpOwedTracks
  <2>4. Owing(request[q].who, request[q].kind, request[q].run) \subseteq Runs
    BY DEF Owing, RunsOf
  <2> QED
    BY <1>31, <2>1, <2>2, <2>3, <2>4 DEF AdmitClean
<1>32. ASSUME NEW q \in Requests, DuePrepare(q)
       PROVE  Goal
  <2>1. CASE UNCHANGED <<refreshVars, trackVars>>
    BY <2>1, <1>a
  <2>2. CASE \E r \in Runs : CleanUp(r, Persisted(r)) /\ UNCHANGED debtVars
    BY <2>2, PersistedAreJobs, CleanUpTracks
  <2> QED
    BY <1>32, <2>1, <2>2 DEF DuePrepare, RunsOf, ActiveRunsOf
<1>33. ASSUME NEW q \in Requests, StartCommit(q)
       PROVE  Goal
  BY <1>33, <1>a DEF StartCommit, Create
<1>34. ASSUME NEW q \in Requests, DueCommit(q)
       PROVE  Goal
  BY <1>34, <1>a DEF DueCommit, Create
<1>35. ASSUME NEW q \in Requests, RetryPrepare(q)
       PROVE  Goal
  BY <1>35, <1>a DEF RetryPrepare
<1>36. ASSUME NEW q \in Requests, RetryCancel(q)
       PROVE  Goal
  <2> DEFINE r == request[q].run
  <2>1. CASE UNCHANGED <<refreshVars, kids, dirty, debtVars>>
    BY <2>1, <1>a
  <2>2. CASE CleanUp(r, {j \in Persisted(r) : j[2] \in request[q].sel}) /\ UNCHANGED debtVars
    <3>1. r \in Runs
      BY <1>36 DEF RetryCancel, RequestInv, RunsOf
    <3>2. {j \in Persisted(r) : j[2] \in request[q].sel} \in SUBSET Jobs
      BY <3>1, PersistedAreJobs
    <3> QED
      BY <2>2, <3>1, <3>2, CleanUpTracks
  <2> QED
    BY <1>36, <2>1, <2>2 DEF RetryCancel
<1>37. ASSUME NEW q \in Requests, RetryCommit(q)
       PROVE  Goal
  BY <1>37, <1>a DEF RetryCommit
<1>38. ASSUME NEW q \in Requests, Launch(q)
       PROVE  Goal
  <2> DEFINE r == request[q].run
  <2>1. CASE UNCHANGED <<refreshVars, kids, dirty, debtVars>>
    BY <2>1, <1>a
  <2>2. CASE /\ UNCHANGED <<refreshVars, forgotten>> /\ owed' = [owed EXCEPT ![r] = @ \cup dirty[r]]
             /\ kids' = [kids EXCEPT ![r] = {}] /\ dirty' = [dirty EXCEPT ![r] = {}]
             /\ worker[r] = "no" /\ worker' = [worker EXCEPT ![r] = "work"]
    <3>1. r \in Runs
      BY <1>38 DEF Launch, RequestInv, RunsOf
    <3>2. owed[r] \cup dirty[r] \in SUBSET Jobs /\ owed' = [owed EXCEPT ![r] = owed[r] \cup dirty[r]]
      BY <2>2, <3>1, <1>c, <1>o
    <3>3. Drops(r)
      BY <1>38, <2>2, <3>1 DEF Drops, Typed
    <3>4. Tracks(r, {}, {}, owed[r] \cup dirty[r], forgotten)
      BY <2>2, <3>2, <3>3 DEF Tracks
    <3> QED
      BY <2>2, <3>1, <3>2, <3>4, <1>o DEF TrackStep, RefreshStep
  <2> QED
    BY <1>38, <2>1, <2>2 DEF Launch
<1>39. ASSUME NEW q \in Requests, Tail(q)
       PROVE  Goal
  BY <1>39, <1>a DEF Tail
<1>40. ASSUME NEW p \in Principals, SignOut(p)
       PROVE  Goal
  BY <1>40, <1>a DEF SignOut
<1>41. ASSUME NEW p \in Principals, SignOutChildren(p)
       PROVE  Goal
  <2>1. ChildrenOf(RunsOf(p)) \in SUBSET Jobs
    BY DEF ChildrenOf
  <2> QED
    BY <1>41, <2>1 DEF SignOutChildren, RefreshStep, TrackStep
<1>42. ASSUME NEW p \in Principals, SignOutPause(p)
       PROVE  Goal
  BY <1>42, <1>a DEF SignOutPause
<1>43. ASSUME NEW p \in Principals, SignOutClean(p)
       PROVE  Goal
  <2>1. CASE UNCHANGED <<refreshVars, trackVars>>
    BY <2>1, <1>a
  <2>2. ASSUME NEW r \in out[p].runs, CleanUp(r, kids[r] \cup owed[r] \cup Persisted(r)),
               owed' = [owed EXCEPT ![r] = {}], UNCHANGED forgotten
        PROVE  Goal
    <3>1. out[p].runs \subseteq Runs
      BY DEF Typed, OutRow
    <3>2. kids[r] \cup owed[r] \cup Persisted(r) \in SUBSET Jobs
      BY <3>1, <1>d, <1>o
    <3> QED
      BY <2>2, <3>1, <3>2, CleanUpTracks
  <2> QED
    BY <1>43, <2>1, <2>2 DEF SignOutClean
<1>44. ASSUME NEW p \in Principals, SignIn(p)
       PROVE  Goal
  BY <1>44, <1>a DEF SignIn
<1>45. ASSUME ViewWrite
       PROVE  Goal
  BY <1>45, <1>a DEF ViewWrite
<1>46. ASSUME ImportUsage
       PROVE  Goal
  BY <1>46, <1>a DEF ImportUsage
<1>47. ASSUME Restart
       PROVE  Goal
  BY <1>47 DEF Restart, RefreshStep, TrackStep
<1> HIDE DEF Goal
<1> QED
  BY <1>1, <1>2, <1>3, <1>4, <1>5, <1>6, <1>7, <1>8, <1>9, <1>10, <1>11, <1>12, <1>13, <1>14,
     <1>15, <1>16, <1>17, <1>18, <1>19, <1>20, <1>21, <1>22, <1>23, <1>24, <1>25, <1>25a, <1>25b,
     <1>26, <1>27,
     <1>28, <1>29, <1>30, <1>31, <1>32, <1>33, <1>34, <1>35, <1>36, <1>37, <1>38, <1>39, <1>40,
     <1>41, <1>42, <1>43, <1>44, <1>45, <1>46, <1>47
     DEF Next, WorkStep, WorkEnd, CancelStep, RequestStep, SignOutStep, Principals, Goal

-----------------------------------------------------------------------------
(* A row that has ended keeps its status, and none is deleted.              *)

RowsGoOn ==
  \A j \in Jobs : /\ row[j] \notin Unfinished \cup {"none"} => row'[j] = row[j]
                  /\ row[j] # "none" => row'[j] # "none"

LEMMA RefreshKeeps ==
  ASSUME RefreshTypeOK, RefreshStep
  PROVE  RefreshTypeOK' /\ RowsGoOn
<1> DEFINE Goal == RefreshTypeOK' /\ RowsGoOn
<1> USE DEF RefreshTypeOK, RowsGoOn, JobStatus, ExecState, Unfinished
<1>1. ASSUME UNCHANGED refreshVars
      PROVE  Goal
  BY <1>1
<1>2. ASSUME NEW j \in Jobs, SubmitJob(j)
      PROVE  Goal
  BY <1>2 DEF SubmitJob
<1>3. ASSUME NEW j \in Jobs, Starts(j)
      PROVE  Goal
  BY <1>3 DEF Starts, StartRefresh, CanStart
<1>4. ASSUME NEW j \in Jobs, MarkRunning(j)
      PROVE  Goal
  BY <1>4 DEF MarkRunning, Admitted
<1>5. ASSUME NEW j \in Jobs, DenyStart(j)
      PROVE  Goal
  BY <1>5 DEF DenyStart
<1>6. ASSUME NEW j \in Jobs, StopRun(j)
      PROVE  Goal
  BY <1>6 DEF StopRun, Running, Interrupted
<1>7. ASSUME NEW j \in Jobs, LeaveRun(j)
      PROVE  Goal
  <2>1. Stopped(j) \in JobStatus \ {"none", "running"} \/ Stopped(j) = row[j]
    BY <1>7 DEF LeaveRun, Stopped
  <2>2. row[j] \notin Unfinished => Stopped(j) = row[j]
    BY <1>7 DEF LeaveRun, Stopped
  <2> QED
    BY <1>7, <2>1, <2>2 DEF LeaveRun
<1>8. ASSUME NEW j \in Jobs, PublishChild(j)
      PROVE  Goal
  BY <1>8 DEF PublishChild, CompleteJob, MayComplete
<1>9. ASSUME NEW j \in Jobs, AbortCancelled(j)
      PROVE  Goal
  BY <1>9 DEF AbortCancelled, Signalled
<1>10. ASSUME NEW j \in Jobs, LapseJob(j)
       PROVE  Goal
  BY <1>10 DEF LapseJob
<1>11. ASSUME NEW j \in Jobs, ChildBegins(j)
       PROVE  Goal
  BY <1>11 DEF ChildBegins, Dispatch, Interrupted
<1>12. ASSUME NEW S \in SUBSET Jobs, NEW status \in {"cancelled", "cleaned"}, CancelRows(S, status)
       PROVE  Goal
  BY <1>12 DEF CancelRows
<1>13. ASSUME NEW S \in SUBSET Jobs, signal' = Signalled(S, "auth"),
              UNCHANGED <<row, lapsed, exec, dispatched, aborting>>
       PROVE  Goal
  BY <1>13 DEF Signalled
<1>14. ASSUME RecoverJobs
       PROVE  Goal
  BY <1>14 DEF RecoverJobs
<1>15. ASSUME NEW j \in Jobs, LoseStart(j)
       PROVE  Goal
  BY <1>15 DEF LoseStart, Admitted
<1>16. ASSUME NEW j \in Jobs, LoseOutcome(j)
       PROVE  Goal
  BY <1>16 DEF LoseOutcome
<1> QED
  BY <1>1, <1>2, <1>3, <1>4, <1>5, <1>6, <1>7, <1>8, <1>9, <1>10, <1>11, <1>12, <1>13, <1>14,
     <1>15, <1>16 DEF RefreshStep, ExecStep

(* What was seen of a job stays true of it.                                 *)
LEMMA SeenStays ==
  ASSUME RowsGoOn, NEW r \in Runs, NEW s \in Providers, NEW n \in 0..MaxAttempts, NEW seen, SeenOf(r, s, n, seen)
  PROVE  SeenOf(r, s, n, seen)'
BY ChildIsJob DEF SeenOf, Submitted, RowsGoOn, Unfinished

LEMMA SubmittedStays ==
  ASSUME RowsGoOn, NEW r \in Runs, NEW s \in Providers, NEW n \in 0..MaxAttempts, Submitted(r, s, n)
  PROVE  Submitted(r, s, n)'
BY ChildIsJob DEF Submitted, RowsGoOn

-----------------------------------------------------------------------------
(* What a step does to a run and its sources                                *)

(* Source s of run r may become g: the run is open, or a report is uploaded; *)
(* the job is the source's, or its first; saved means published; and a report *)
(* is waited for or there.                                                   *)
MayMove(r, s, g) ==
  LET old == src[r][s] IN
  /\ old.status \notin {"absent", "succeeded"} /\ g.status # "absent"
  /\ RunActive(r) \/ (run[r].status = "partial" /\ old.status = "upload" /\ g.status = "succeeded")
  /\ g.attempt = old.attempt
  /\ \/ g.job = old.job
     \/ /\ old.job = 0
        /\ s \in Providers => Submitted(r, s, g.job)
        /\ <<r, s, g.job>> \in linked => old.attempt = g.job
  /\ s \in Providers /\ g.status = "succeeded" => g.job # 0 /\ row'[<<r, s, g.job>>] = "succeeded"
  /\ s \notin Providers => g.status \in {"upload", "succeeded"}

Moves(r, f) == /\ f \in [Sources -> SourceRow]
               /\ \A s \in Sources : f[s] = src[r][s] \/ MayMove(r, s, f[s])

(* A new run's sources, or those of a retry, may be opened, while no other  *)
(* run of the account is active.                                            *)
MayOpen(r, S, auto) ==
  /\ ActiveRunsOf(OwnerOf[r]) \subseteq {r}
  /\ \/ /\ run[r].status = "none" /\ S # {}
        /\ auto => S \subseteq Providers
     \/ /\ S # {} /\ auto = run[r].auto
        /\ \A s \in S : src[r][s].status \in Retryable /\ AttemptsLeft(r, s)
        /\ \E q \in Requests : RetryCommit(q) /\ request[q].run = r

DbStep ==
  \/ UNCHANGED <<run, src>>
  \/ \E r \in Runs : \E f \in [Sources -> SourceRow] : Moves(r, f) /\ SetSources(r, f)
  \/ \E r \in Runs, s \in Providers : WorkAttach(r, s)
  \/ \E r \in Runs, S \in SUBSET Sources, auto \in BOOLEAN : MayOpen(r, S, auto) /\ Queue(r, S, auto)
  \/ \E R \in SUBSET Runs : PauseRuns(R)
  \/ \E r \in Runs : run' = [run EXCEPT ![r].status = FinishedRun(r)] /\ UNCHANGED src
  \/ \E r \in Runs : CancelRow(r)
  \/ Restart

LEMMA UpdateMoves ==
  ASSUME Typed, NEW r \in Runs, NEW s \in Sources, NEW status \in SourceStatus \ {"absent"},
         NEW n \in 0..MaxAttempts,
         s \in Providers /\ n # 0 => Submitted(r, s, n),
         s \in Providers /\ status = "succeeded" => n # 0 /\ row'[<<r, s, n>>] = "succeeded",
         s \notin Providers => status \in {"upload", "succeeded"},
         UpdateSource(r, s, status, n)
  PROVE  DbStep
<1>1. CASE ~Updatable(r, s, status, n)
  BY <1>1 DEF UpdateSource, DbStep
<1>2. CASE Updatable(r, s, status, n)
  <2> DEFINE f == [src[r] EXCEPT ![s].status = status, ![s].job = IF n = 0 THEN @ ELSE n]
             g == [status |-> status, job |-> IF n = 0 THEN src[r][s].job ELSE n, attempt |-> src[r][s].attempt]
  <2>1. SetSources(r, f)
    BY <1>2 DEF UpdateSource
  <2>2. src[r] \in [Sources -> SourceRow]
    BY DEF Typed
  <2>3. f[s] = g /\ g \in SourceRow
    BY <2>2 DEF SourceRow
  <2>4. f \in [Sources -> SourceRow] /\ \A x \in Sources \ {s} : f[x] = src[r][x]
    BY <2>2, <2>3 DEF SourceRow
  <2>5. MayMove(r, s, g)
    BY <1>2 DEF Updatable, MayMove
  <2>6. Moves(r, f)
    BY <2>3, <2>4, <2>5 DEF Moves
  <2> HIDE DEF f
  <2> QED
    BY <2>1, <2>4, <2>6 DEF DbStep
<1> QED
  BY <1>1, <1>2

(* Every write of a run or its sources is one of these.                     *)
LEMMA DbSteps ==
  ASSUME BaseInv, Next
  PROVE  DbStep
<1>a. /\ Typed /\ WorkInv /\ SourceInv /\ RequestInv /\ ViewInv
      /\ \A r \in Runs : src[r] \in [Sources -> SourceRow] /\ run[r] \in RunRow
      /\ \A r \in Runs, s \in Providers : work[r][s] \in WorkRow
      /\ \A r \in Runs, s \in Sources : src[r][s] \in SourceRow
      /\ Providers \subseteq Sources /\ Usage \subseteq Sources
  BY DEF BaseInv, Typed, Sources
<1>w. ASSUME NEW r \in Runs, NEW s \in Providers
      PROVE  /\ work[r][s].job \in 0..MaxAttempts /\ work[r][s].seen \in Seen
             /\ work[r][s].job # 0 => SeenOf(r, s, work[r][s].job, work[r][s].seen)
             /\ work[r][s].pc \in TrackingPc => work[r][s].job # 0
  BY <1>a DEF WorkInv, WorkRow
<1>1. ASSUME NEW r \in Runs, NEW s \in Providers, WorkMark(r, s)
      PROVE  DbStep
  <2>1. CASE UNCHANGED <<run, src>>
    BY <2>1 DEF DbStep
  <2>2. CASE UpdateSource(r, s, "running", work[r][s].job)
    <3>1. "running" \in SourceStatus \ {"absent"}
      BY DEF SourceStatus, Open
    <3> QED
      BY <1>a, <1>w, <2>2, <3>1, UpdateMoves DEF SeenOf
  <2> QED
    BY <1>1, <2>1, <2>2 DEF WorkMark
<1>2. ASSUME NEW r \in Runs, NEW s \in Providers, WorkReport(r, s)
      PROVE  DbStep
  <2> DEFINE n == work[r][s].job
             seen == work[r][s].seen
  <2>1. CASE UNCHANGED <<run, src>>
    BY <2>1 DEF DbStep
  <2>2. CASE seen # "cleaned" /\ UpdateSource(r, s, seen, n)
    <3>1. work[r][s].pc = "report" /\ row' = row
      BY <1>2 DEF WorkReport, At
    <3>2. seen \notin {"none", "denied"} /\ n # 0
      BY <1>a, <1>w, <3>1 DEF WorkInv, TrackingPc
    <3>3. seen \in SourceStatus \ {"absent"}
      BY <1>w, <2>2, <3>2 DEF Seen, JobStatus, SourceStatus, Open, Retryable
    <3>4. n \in 0..MaxAttempts /\ SeenOf(r, s, n, seen)
      BY <1>w, <3>2
    <3>5. Submitted(r, s, n) /\ (seen = "succeeded" => row'[<<r, s, n>>] = "succeeded")
      BY <3>1, <3>4 DEF SeenOf
    <3> HIDE DEF n, seen
    <3> QED
      BY <1>a, <2>2, <3>2, <3>3, <3>4, <3>5, UpdateMoves
  <2> QED
    BY <1>2, <2>1, <2>2 DEF WorkReport
<1>3. ASSUME NEW r \in Runs, NEW s \in Providers, WorkFail(r, s)
      PROVE  DbStep
  <2>1. CASE UNCHANGED <<run, src>>
    BY <2>1 DEF DbStep
  <2>2. CASE \E status \in {"cancelled", "waiting", "failed"} : UpdateSource(r, s, status, work[r][s].job)
    <3>1. {"cancelled", "waiting", "failed"} \subseteq SourceStatus \ {"absent", "succeeded"}
      BY DEF SourceStatus, Retryable
    <3> QED
      BY <1>a, <1>w, <2>2, <3>1, UpdateMoves DEF SeenOf
  <2>3. ctl[r] \in {"none", "cancel", "auth"}
    BY <1>a DEF Typed, Reason
  <2> QED
    BY <1>3, <2>1, <2>2, <2>3 DEF WorkFail
<1>4. ASSUME NEW r \in Runs, WorkCatch(r)
      PROVE  DbStep
  <2> DEFINE left == {s \in Providers : work[r][s].pc # "off" /\ src[r][s].status \in Open}
             f(status) == [s \in Sources |-> IF s \in left THEN [src[r][s] EXCEPT !.status = status] ELSE src[r][s]]
  <2>1. CASE UNCHANGED <<run, src>>
    BY <2>1 DEF DbStep
  <2>2. ASSUME NEW status \in {"failed", "waiting"}, RunActive(r), SetSources(r, f(status))
        PROVE  DbStep
    <3>1. f(status) \in [Sources -> SourceRow]
      BY <1>a DEF SourceRow, SourceStatus, Retryable
    <3>2. ASSUME NEW s \in left
          PROVE  MayMove(r, s, f(status)[s])
      <4>1. s \in Sources /\ s \in Providers /\ src[r][s] \in SourceRow /\ src[r][s].status \in Open
        BY <1>a
      <4>2. f(status)[s] = [src[r][s] EXCEPT !.status = status]
        BY <4>1
      <4>3. /\ f(status)[s].status = status /\ f(status)[s].job = src[r][s].job
            /\ f(status)[s].attempt = src[r][s].attempt
        BY <4>1, <4>2 DEF SourceRow
      <4> HIDE DEF f, left
      <4> QED
        BY <2>2, <4>1, <4>3 DEF MayMove, Open
    <3>3. Moves(r, f(status))
      BY <3>1, <3>2 DEF Moves
    <3> HIDE DEF f, left
    <3> QED
      BY <2>2, <3>1, <3>3 DEF DbStep
  <2> HIDE DEF f
  <2>3. \/ UNCHANGED <<run, src>>
        \/ \E status \in {"failed", "waiting"} : RunActive(r) /\ SetSources(r, f(status))
    BY <1>4 DEF WorkCatch, f
  <2> QED
    BY <2>1, <2>2, <2>3
<1>5. ASSUME NEW r \in Runs, WorkFinish(r) \/ CancelRow(r)
      PROVE  DbStep
  BY <1>5 DEF WorkFinish, DbStep
<1>6. ASSUME NEW r \in Runs, NEW s \in Usage, ReadUsage(r, s)
      PROVE  DbStep
  <2>1. s \in Sources /\ s \notin Providers
    BY <1>a, SyncAssumption
  <2>2. {"succeeded", "upload"} \subseteq SourceStatus \ {"absent"}
    BY DEF SourceStatus
  <2>3. \E status \in {"succeeded", "upload"} : UpdateSource(r, s, status, 0)
    BY <1>6 DEF ReadUsage
  <2>4. 0 \in 0..MaxAttempts
    BY SyncAssumption
  <2> QED
    BY <1>a, <2>1, <2>2, <2>3, <2>4, UpdateMoves
<1>7. ASSUME NEW j \in Jobs, PublishChild(j)
      PROVE  DbStep
  <2> DEFINE r == j[1]
             s == j[2]
             f == [src[r] EXCEPT ![s].status = "succeeded"]
  <2>1. r \in Runs /\ s \in Providers /\ j[3] \in 1..MaxAttempts /\ j = <<r, s, j[3]>>
    BY JobIsChild
  <2>2. CASE UNCHANGED <<run, src>>
    BY <2>2 DEF DbStep
  <2>3. CASE exec[j] = "serving" /\ SetSources(r, f)
    <3>1. src[r][s].job = j[3] /\ src[r][s].status = "running" /\ RunActive(r)
      BY <1>7, <2>3 DEF PublishChild, MayPublish, Claims
    <3>2. row'[<<r, s, j[3]>>] = "succeeded"
      <4>1. row' = [row EXCEPT ![j] = "succeeded"]
        BY <1>7 DEF PublishChild, CompleteJob
      <4>2. row \in [Jobs -> JobStatus]
        BY <1>a DEF Typed, RefreshTypeOK
      <4>3. row'[j] = "succeeded"
        BY <1>7, <4>1, <4>2
      <4> QED
        BY <2>1, <4>3
    <3>3. s \in Sources /\ src[r] \in [Sources -> SourceRow]
      BY <1>a, <2>1
    <3>4. f[s] = [src[r][s] EXCEPT !.status = "succeeded"]
      BY <3>3
    <3>5. f[s].status = "succeeded" /\ f[s].job = src[r][s].job /\ f[s].attempt = src[r][s].attempt /\ f[s] \in SourceRow
      BY <1>a, <3>3, <3>4 DEF SourceRow, SourceStatus
    <3>6. f \in [Sources -> SourceRow] /\ \A x \in Sources \ {s} : f[x] = src[r][x]
      BY <3>3, <3>5
    <3> HIDE DEF f, r, s
    <3>7. MayMove(r, s, f[s])
      BY <2>1, <3>1, <3>2, <3>5 DEF MayMove
    <3> QED
      BY <2>1, <2>3, <3>6, <3>7 DEF DbStep, Moves
  <2> QED
    BY <1>7, <2>2, <2>3 DEF PublishChild
<1>8. ASSUME NEW q \in Requests, DuePrepare(q)
      PROVE  DbStep
  BY <1>8 DEF DuePrepare, DbStep, RunsOf, ActiveRunsOf
<1>9. ASSUME NEW q \in Requests, StartCommit(q) \/ DueCommit(q)
      PROVE  DbStep
  <2>1. ASSUME NEW S \in SUBSET Sources, NEW auto \in BOOLEAN, auto => S \subseteq Providers, Create(q, S, auto)
        PROVE  DbStep
    <3>1. CASE UNCHANGED <<run, src>>
      BY <3>1 DEF DbStep
    <3>2. CASE S # {} /\ ActiveRunsOf(request[q].who) = {} /\ \E r \in Fresh(request[q].who) : Queue(r, S, auto)
      BY <2>1, <3>2 DEF DbStep, MayOpen, Fresh, RunsOf
    <3> QED
      BY <2>1, <3>1, <3>2 DEF Create
  <2>2. CASE StartCommit(q)
    BY <2>1, <2>2 DEF StartCommit
  <2>3. CASE DueCommit(q)
    BY <1>a, <2>1, <2>3 DEF DueCommit
  <2> QED
    BY <1>9, <2>2, <2>3
<1>10. ASSUME NEW q \in Requests, RetryPrepare(q)
       PROVE  DbStep
  <2> DEFINE r == request[q].run
             fresh(s) == IF worker[r] = "no" /\ s \in Providers /\ src[r][s].job # 0 /\ src[r][s].status \in Open \cup {"waiting"}
                         THEN Visible(<<r, s, src[r][s].job>>) ELSE "cleaned"
             told(s) == fresh(s) # "cleaned" /\ Updatable(r, s, fresh(s), src[r][s].job)
             f == [s \in Sources |-> IF told(s) THEN [src[r][s] EXCEPT !.status = fresh(s)] ELSE src[r][s]]
  <2>1. SetSources(r, f) /\ row' = row
    BY <1>10 DEF RetryPrepare
  <2>2. r \in Runs
    BY <1>10, <1>a DEF RetryPrepare, RequestInv, RunsOf
  <2>3. ASSUME NEW s \in Sources, told(s)
        PROVE  f[s] \in SourceRow /\ MayMove(r, s, f[s])
    <3>1. /\ s \in Providers /\ src[r][s].job # 0
          /\ fresh(s) = Visible(<<r, s, src[r][s].job>>) /\ fresh(s) # "cleaned"
          /\ Updatable(r, s, fresh(s), src[r][s].job)
      BY <2>3
    <3> DEFINE n == src[r][s].job
    <3>2. n \in 0..MaxAttempts /\ Submitted(r, s, n) /\ <<r, s, n>> \in Jobs
      BY <1>a, <2>2, <3>1, ChildIsJob DEF SourceInv, SourceRow
    <3>3. row[<<r, s, n>>] \in JobStatus \ {"none"}
      BY <1>a, <3>2 DEF Submitted, Typed, RefreshTypeOK
    <3>4. /\ fresh(s) \in SourceStatus \ {"absent"}
          /\ fresh(s) = "succeeded" => row[<<r, s, n>>] = "succeeded"
      BY <3>1, <3>3 DEF Visible, JobStatus, SourceStatus, Open, Retryable
    <3>5. f[s] = [src[r][s] EXCEPT !.status = fresh(s)]
      BY <2>3
    <3> HIDE DEF f, fresh, told
    <3>6. f[s].status = fresh(s) /\ f[s].job = n /\ f[s].attempt = src[r][s].attempt /\ f[s] \in SourceRow
      BY <1>a, <2>2, <3>4, <3>5 DEF SourceRow
    <3> HIDE DEF r, n
    <3>7. MayMove(r, s, f[s])
      BY <2>1, <3>1, <3>4, <3>6 DEF MayMove, Updatable, n
    <3> QED
      BY <3>6, <3>7
  <2>4. ASSUME NEW s \in Sources, ~told(s)
        PROVE  f[s] = src[r][s] /\ f[s] \in SourceRow
    BY <1>a, <2>2, <2>4
  <2>5. f \in [Sources -> SourceRow] /\ Moves(r, f)
    <3>1. f = [s \in Sources |-> f[s]]
      OBVIOUS
    <3> HIDE DEF f, told, fresh, r
    <3> QED
      BY <2>3, <2>4, <3>1 DEF Moves
  <2> HIDE DEF f, told, fresh, r
  <2> QED
    BY <2>1, <2>2, <2>5 DEF DbStep
<1>11. ASSUME NEW q \in Requests, RetryCommit(q)
       PROVE  DbStep
  <2> DEFINE r == request[q].run
             S == request[q].sel
  <2>1. CASE UNCHANGED <<run, src>>
    BY <2>1 DEF DbStep
  <2>2. CASE /\ Queue(r, S, run[r].auto)
             /\ ActiveRunsOf(OwnerOf[r]) \subseteq {r}
             /\ \A s \in S : src[r][s].status \in Retryable /\ AttemptsLeft(r, s)
    <3>1. request[q] \in RequestRow /\ r \in Runs /\ S # {}
      BY <1>11, <1>a DEF RetryCommit, RequestInv, RunsOf, Typed
    <3>2. S \in SUBSET Sources /\ run[r].auto \in BOOLEAN
      BY <1>a, <3>1 DEF RequestRow, RunRow
    <3>3. \E x \in Requests : RetryCommit(x) /\ request[x].run = r
      BY <1>11
    <3> HIDE DEF r, S
    <3>4. MayOpen(r, S, run[r].auto)
      BY <2>2, <3>1, <3>3 DEF MayOpen
    <3> QED
      BY <2>2, <3>1, <3>2, <3>4 DEF DbStep
  <2> QED
    BY <1>11, <2>1, <2>2 DEF RetryCommit
<1>12. ASSUME NEW q \in Requests, Launch(q) \/ Tail(q)
       PROVE  DbStep
  <2>1. request[q].run \in Runs
    BY <1>12, <1>a DEF Launch, Tail, RequestInv, RunsOf
  <2>2. UNCHANGED <<run, src>> \/ PauseRuns({request[q].run})
    BY <1>12 DEF Launch, Tail
  <2> QED
    BY <2>1, <2>2 DEF DbStep
<1>13. ASSUME NEW p \in Principals, SignOutPause(p)
       PROVE  DbStep
  BY <1>13 DEF SignOutPause, DbStep, RunsOf
<1>14. ASSUME ViewWrite
       PROVE  DbStep
  <2>1. CASE UNCHANGED <<run, src>>
    BY <2>1 DEF DbStep
  <2>2. CASE view.seen # "cleaned" /\ UpdateSource(view.run, view.source, view.seen, view.job)
    <3>1. /\ view.run \in Runs /\ view.source \in Providers /\ view.seen # "none"
          /\ SeenOf(view.run, view.source, view.job, view.seen)
          /\ view.job \in 0..MaxAttempts /\ view.seen \in JobStatus /\ row' = row
      BY <1>14, <1>a DEF ViewWrite, ViewInv, Typed, ViewRow
    <3>2. view.seen \in SourceStatus \ {"absent"}
      BY <2>2, <3>1 DEF JobStatus, SourceStatus, Open, Retryable
    <3>3. /\ Submitted(view.run, view.source, view.job) /\ view.job # 0
          /\ view.seen = "succeeded" => row'[<<view.run, view.source, view.job>>] = "succeeded"
      BY <3>1 DEF SeenOf, Submitted
    <3> QED
      BY <1>a, <2>2, <3>1, <3>2, <3>3, UpdateMoves
  <2> QED
    BY <1>14, <2>1, <2>2 DEF ViewWrite
<1>15. UNCHANGED <<run, src>> \/ DbWrite
  BY Writers
<1> QED
  BY <1>1, <1>2, <1>3, <1>4, <1>5, <1>6, <1>7, <1>8, <1>9, <1>10, <1>11, <1>12, <1>13, <1>14, <1>15
     DEF DbWrite, DbStep

-----------------------------------------------------------------------------
(* A run that has ended has settled sources                                 *)

Settled(status, f) ==
  /\ status \notin {"running", "waiting"} => StatusesOf(f) \cap Open = {}
  /\ status = "completed" => StatusesOf(f) = {"succeeded"}
  /\ status = "cancelled" => StatusesOf(f) \subseteq {"cancelled", "succeeded"}

(* An automatic run collects; it does not wait for a report.                *)
ClosedInv ==
  \A r \in Runs :
    /\ Settled(run[r].status, src[r])
    /\ \A s \in Usage : run[r].auto = TRUE => src[r][s].status = "absent"

LEMMA ClosedAfter ==
  ASSUME \A r \in Runs : Settled(run'[r].status, src'[r]),
         \A r \in Runs : \A s \in Usage : run'[r].auto = TRUE => src'[r][s].status = "absent"
  PROVE  ClosedInv'
<1>1. \A r \in Runs : Settled(run[r].status, src[r])'
  BY DEF Settled, StatusesOf, Open
<1> QED
  BY <1>1 DEF ClosedInv

LEMMA OutcomeSettles ==
  ASSUME NEW f
  PROVE  /\ Outcome(f) \in {"running", "waiting", "completed", "partial", "cancelled"}
         /\ Settled(Outcome(f), f)
         /\ Outcome(f) = "waiting" => StatusesOf(f) \cap Open = {}
<1> DEFINE has == StatusesOf(f)
<1>1. CASE has \cap Open # {}
  BY <1>1 DEF Outcome, Settled, Open
<1>2. CASE has \cap Open = {} /\ has \cap {"waiting", "upload"} # {}
  <2>1. Outcome(f) = "waiting"
    BY <1>2 DEF Outcome
  <2> QED
    BY <1>2, <2>1 DEF Settled
<1>3. CASE has = {"succeeded"}
  <2>1. has \cap Open = {} /\ has \cap {"waiting", "upload"} = {}
    BY <1>3 DEF Open
  <2>2. Outcome(f) = "completed"
    BY <1>3, <2>1 DEF Outcome
  <2> QED
    BY <1>3, <2>1, <2>2 DEF Settled
<1>4. CASE has = {"cancelled"}
  <2>1. has \cap Open = {} /\ has \cap {"waiting", "upload"} = {} /\ has # {"succeeded"}
    BY <1>4 DEF Open
  <2>2. Outcome(f) = "cancelled"
    BY <1>4, <2>1 DEF Outcome
  <2> QED
    BY <1>4, <2>1, <2>2 DEF Settled
<1>5. CASE /\ has \cap Open = {} /\ has \cap {"waiting", "upload"} = {}
           /\ has # {"succeeded"} /\ has # {"cancelled"}
  <2>1. Outcome(f) = "partial"
    BY <1>5 DEF Outcome
  <2> QED
    BY <1>5, <2>1 DEF Settled
<1> QED
  BY <1>1, <1>2, <1>3, <1>4, <1>5

LEMMA FinalizedSettles ==
  ASSUME Typed, NEW r \in Runs, NEW f \in [Sources -> SourceRow], Moves(r, f),
         Settled(run[r].status, src[r])
  PROVE  /\ Settled(Finalized(r, f), f)
         /\ Finalized(r, f) \in {"running", "waiting", "completed", "partial", "cancelled", run[r].status}
<1>1. CASE RunActive(r)
  BY <1>1, OutcomeSettles DEF Finalized
<1>2. CASE ~RunActive(r) /\ run[r].status = "partial" /\ Outcome(f) = "completed"
  BY <1>2, OutcomeSettles DEF Finalized
<1>3. CASE ~RunActive(r) /\ ~(run[r].status = "partial" /\ Outcome(f) = "completed")
  <2>1. Finalized(r, f) = run[r].status
    BY <1>3 DEF Finalized
  <2>2. \A s \in Sources : f[s] = src[r][s] \/ (run[r].status = "partial" /\ f[s].status = "succeeded")
    BY <1>3 DEF Moves, MayMove
  <2>3. StatusesOf(src[r]) \cap Open = {} => StatusesOf(f) \cap Open = {}
    BY <2>2 DEF StatusesOf, Open
  <2>4. run[r].status # "partial" => StatusesOf(f) = StatusesOf(src[r])
    BY <2>2 DEF StatusesOf
  <2> QED
    BY <1>3, <2>1, <2>3, <2>4 DEF Settled, RunActive
<1> QED
  BY <1>1, <1>2, <1>3

(* What holds of the runs and sources after a step.                         *)
DbInv ==
  /\ run \in [Runs -> RunRow]
  /\ src \in [Runs -> [Sources -> SourceRow]]
  /\ SourceInv /\ ClosedInv /\ SavedMeansPublished

LEMMA MovesKeep ==
  ASSUME BaseInv, DbInv, RowsGoOn, NEW r \in Runs, NEW f \in [Sources -> SourceRow],
         Moves(r, f), SetSources(r, f)
  PROVE  DbInv'
<1>1. Typed /\ SourceInv /\ ClosedInv /\ SavedMeansPublished /\ run[r] \in RunRow
  BY DEF BaseInv, DbInv
<1>2. /\ Settled(Finalized(r, f), f)
      /\ Finalized(r, f) \in {"running", "waiting", "completed", "partial", "cancelled", run[r].status}
  BY <1>1, FinalizedSettles DEF ClosedInv
<1>3. /\ src' = [src EXCEPT ![r] = f] /\ src'[r] = f
      /\ \A x \in Runs \ {r} : src'[x] = src[x] /\ run'[x] = run[x]
      /\ run' = [run EXCEPT ![r].status = Finalized(r, f)]
      /\ run'[r].status = Finalized(r, f) /\ run'[r].auto = run[r].auto
  BY <1>1 DEF SetSources, DbInv, RunRow
<1>4. /\ run' \in [Runs -> RunRow]
      /\ src' \in [Runs -> [Sources -> SourceRow]]
  BY <1>1, <1>2, <1>3 DEF DbInv, RunRow
<1>5. SourceInv'
  <2>1. ASSUME NEW s \in Providers, f[s].job # 0
        PROVE  Submitted(r, s, f[s].job)
    BY <1>1, <2>1 DEF Moves, MayMove, SourceInv, Sources
  <2>2. ASSUME run[r].status = "none"
        PROVE  f = src[r]
    <3>1. \A s \in Sources : f[s] = src[r][s]
      BY <1>1, <2>2 DEF Moves, MayMove, RunActive
    <3> QED
      BY <3>1 DEF DbInv
  <2>3. run'[r].status = "none" => run[r].status = "none"
    BY <1>2, <1>3
  <2>4. ASSUME NEW x \in Runs, NEW s \in Providers, src'[x][s].job # 0
        PROVE  row'[<<x, s, src'[x][s].job>>] # "none"
    <3>1. src'[x][s].job \in 0..MaxAttempts
      BY <1>4 DEF SourceRow, Sources
    <3>2. row[<<x, s, src'[x][s].job>>] # "none"
      BY <1>1, <1>3, <2>1, <2>4 DEF SourceInv, Submitted
    <3> QED
      BY <2>4, <3>1, <3>2, ChildIsJob DEF RowsGoOn
  <2> QED
    BY <1>1, <1>3, <2>2, <2>3, <2>4 DEF SourceInv, Submitted
<1>6. ClosedInv'
  <2>1. ASSUME run[r].auto = TRUE, NEW s \in Usage
        PROVE  f[s].status = "absent"
    <3>1. src[r][s].status = "absent" /\ s \in Sources
      BY <1>1, <2>1 DEF ClosedInv, Sources
    <3> QED
      BY <3>1 DEF Moves, MayMove
  <2>2. Settled(run'[r].status, src'[r])
    BY <1>2, <1>3
  <2>3. \A x \in Runs : Settled(run'[x].status, src'[x])
    <3> TAKE x \in Runs
    <3>1. CASE x = r
      BY <2>2, <3>1
    <3>2. CASE x # r
      <4>1. Settled(run[x].status, src[x]) /\ run'[x] = run[x] /\ src'[x] = src[x]
        BY <1>1, <1>3, <3>2 DEF ClosedInv
      <4> QED
        BY <4>1
    <3> QED
      BY <3>1, <3>2
  <2>4. ASSUME NEW x \in Runs, NEW s \in Usage, run'[x].auto = TRUE
        PROVE  src'[x][s].status = "absent"
    <3>1. CASE x = r
      <4>1. run[r].auto = TRUE /\ src'[r] = f
        BY <1>3, <2>4, <3>1
      <4>2. f[s].status = "absent"
        BY <2>1, <4>1
      <4> QED
        BY <3>1, <4>1, <4>2
    <3>2. CASE x # r
      <4>1. run[x].auto = TRUE /\ src'[x] = src[x]
        BY <1>3, <2>4, <3>2
      <4> QED
        BY <1>1, <4>1 DEF ClosedInv
    <3> QED
      BY <3>1, <3>2
  <2> QED
    BY <2>3, <2>4, ClosedAfter
<1>7. SavedMeansPublished'
  <2>1. ASSUME NEW s \in Providers, f[s].status = "succeeded"
        PROVE  f[s].job # 0 /\ row'[<<r, s, f[s].job>>] = "succeeded"
    <3>1. s \in Sources /\ f[s] \in SourceRow
      BY DEF Sources
    <3>2. CASE f[s] = src[r][s]
      <4>1. f[s].job # 0 /\ row[<<r, s, f[s].job>>] = "succeeded"
        BY <1>1, <2>1, <3>2 DEF SavedMeansPublished
      <4>2. <<r, s, f[s].job>> \in Jobs
        BY <3>1, <4>1, ChildIsJob DEF SourceRow
      <4> QED
        BY <4>1, <4>2 DEF RowsGoOn, Unfinished
    <3>3. CASE MayMove(r, s, f[s])
      BY <2>1, <3>3 DEF MayMove
    <3> QED
      BY <3>1, <3>2, <3>3 DEF Moves
  <2>2. ASSUME NEW x \in Runs \ {r}, NEW s \in Providers, src[x][s].status = "succeeded"
        PROVE  src[x][s].job # 0 /\ row'[<<x, s, src[x][s].job>>] = "succeeded"
    <3>1. src[x][s].job # 0 /\ row[<<x, s, src[x][s].job>>] = "succeeded"
      BY <1>1, <2>2 DEF SavedMeansPublished
    <3>2. <<x, s, src[x][s].job>> \in Jobs
      BY <3>1, ChildIsJob DEF DbInv, SourceRow, Sources
    <3> QED
      BY <3>1, <3>2 DEF RowsGoOn, Unfinished
  <2> QED
    BY <1>3, <2>1, <2>2 DEF SavedMeansPublished
<1> QED
  BY <1>4, <1>5, <1>6, <1>7 DEF DbInv

(* A write that leaves every saved source, and gives none a job.            *)
LEMMA NarrowKeeps ==
  ASSUME BaseInv, DbInv, RowsGoOn,
         run' \in [Runs -> RunRow], src' \in [Runs -> [Sources -> SourceRow]],
         \A r \in Runs : run'[r].status = "none" => run[r].status = "none" /\ src'[r] = src[r],
         \A r \in Runs, s \in Providers : /\ src'[r][s].job \in {0, src[r][s].job}
                                          /\ src'[r][s].status = "succeeded" => src'[r][s] = src[r][s],
         ClosedInv'
  PROVE  DbInv'
<1>1. SourceInv /\ SavedMeansPublished
  BY DEF DbInv
<1>2. \A r \in Runs, s \in Providers : src[r][s].job \in 0..MaxAttempts
  BY DEF DbInv, SourceRow, Sources
<1>3. SourceInv'
  <2>1. ASSUME NEW r \in Runs, NEW s \in Providers, src'[r][s].job # 0
        PROVE  row'[<<r, s, src'[r][s].job>>] # "none"
    <3>1. src'[r][s].job = src[r][s].job /\ row[<<r, s, src[r][s].job>>] # "none"
      BY <1>1, <2>1 DEF SourceInv, Submitted
    <3> QED
      BY <1>2, <2>1, <3>1, ChildIsJob DEF RowsGoOn
  <2> QED
    BY <1>1, <2>1 DEF SourceInv, Submitted
<1>4. SavedMeansPublished'
  <2>1. ASSUME NEW r \in Runs, NEW s \in Providers, src'[r][s].status = "succeeded"
        PROVE  src'[r][s].job # 0 /\ row'[<<r, s, src'[r][s].job>>] = "succeeded"
    <3>1. src[r][s].job # 0 /\ row[<<r, s, src[r][s].job>>] = "succeeded" /\ src'[r][s] = src[r][s]
      BY <1>1, <2>1 DEF SavedMeansPublished
    <3>2. <<r, s, src[r][s].job>> \in Jobs
      BY <1>2, <3>1, ChildIsJob
    <3> QED
      BY <3>1, <3>2 DEF RowsGoOn, Unfinished
  <2> QED
    BY <2>1 DEF SavedMeansPublished
<1> QED
  BY <1>3, <1>4 DEF DbInv

LEMMA QueueKeeps ==
  ASSUME BaseInv, DbInv, RowsGoOn, NEW r \in Runs, NEW S \in SUBSET Sources, NEW auto \in BOOLEAN,
         MayOpen(r, S, auto), Queue(r, S, auto)
  PROVE  DbInv'
<1>1. /\ SourceInv /\ ClosedInv /\ run \in [Runs -> RunRow] /\ src \in [Runs -> [Sources -> SourceRow]]
      /\ \A x \in Runs, s \in Sources : src[x][s] \in SourceRow
  BY DEF DbInv
<1> DEFINE opened(s) == [status |-> "queued", job |-> 0,
                         attempt |-> IF src[r][s].status = "absent" THEN 1 ELSE src[r][s].attempt + 1]
           f == [s \in Sources |-> IF s \in S THEN opened(s) ELSE src[r][s]]
<1>2. /\ run' = [run EXCEPT ![r] = [status |-> "running", auto |-> auto]]
      /\ src' = [src EXCEPT ![r] = f]
  BY DEF Queue
<1>3. /\ \A x \in Runs \ {r} : run'[x] = run[x] /\ src'[x] = src[x]
      /\ run'[r] = [status |-> "running", auto |-> auto] /\ src'[r] = f
  BY <1>1, <1>2
<1>4. ASSUME NEW s \in S
      PROVE  opened(s) \in SourceRow
  <2>1. s \in Sources /\ src[r][s].attempt \in 1..MaxAttempts
    BY <1>1 DEF SourceRow
  <2>2. src[r][s].status = "absent" \/ src[r][s].attempt < MaxAttempts
    BY <1>1, <2>1 DEF MayOpen, SourceInv, Absent, AttemptsLeft
  <2> QED
    BY <2>1, <2>2, SyncAssumption DEF SourceRow, SourceStatus, Open
<1>5. f \in [Sources -> SourceRow]
  <2> HIDE DEF opened
  <2> QED
    BY <1>1, <1>4
<1>6. run' \in [Runs -> RunRow] /\ src' \in [Runs -> [Sources -> SourceRow]]
  <2>1. [status |-> "running", auto |-> auto] \in RunRow
    BY DEF RunRow
  <2> HIDE DEF f
  <2> QED
    BY <1>1, <1>2, <1>5, <2>1
<1>7. ClosedInv'
  <2>1. ASSUME auto = TRUE, NEW s \in Usage
        PROVE  f[s].status = "absent"
    <3>1. s \in Sources /\ s \notin Providers
      BY SyncAssumption DEF Sources
    <3>2. s \notin S /\ src[r][s].status = "absent"
      <4>1. CASE run[r].status = "none" /\ (auto => S \subseteq Providers)
        BY <1>1, <2>1, <3>1, <4>1 DEF SourceInv, Absent
      <4>2. CASE auto = run[r].auto /\ \A x \in S : src[r][x].status \in Retryable
        <5>1. src[r][s].status = "absent"
          BY <1>1, <2>1, <4>2 DEF ClosedInv
        <5> QED
          BY <4>2, <5>1 DEF Retryable
      <4> QED
        BY <4>1, <4>2 DEF MayOpen
    <3> QED
      BY <3>1, <3>2
  <2> HIDE DEF f
  <2>2. \A x \in Runs : Settled(run'[x].status, src'[x])
    BY <1>1, <1>3 DEF ClosedInv, Settled
  <2>3. ASSUME NEW x \in Runs, NEW s \in Usage, run'[x].auto = TRUE
        PROVE  src'[x][s].status = "absent"
    <3>1. CASE x = r
      <4>1. run'[r].auto = auto /\ src'[r] = f
        BY <1>3
      <4>2. auto = TRUE
        BY <2>3, <3>1, <4>1
      <4>3. f[s].status = "absent"
        BY <2>1, <4>2
      <4> QED
        BY <3>1, <4>1, <4>3
    <3>2. CASE x # r
      <4>1. run[x].auto = TRUE /\ src'[x] = src[x]
        BY <1>3, <2>3, <3>2
      <4> QED
        BY <1>1, <4>1 DEF ClosedInv
    <3> QED
      BY <3>1, <3>2
  <2> QED
    BY <2>2, <2>3, ClosedAfter
<1>8. \A s \in Providers : f[s].job \in {0, src[r][s].job} /\ (f[s].status = "succeeded" => f[s] = src[r][s])
  BY DEF Sources
<1> HIDE DEF f
<1> QED
  BY <1>3, <1>6, <1>7, <1>8, NarrowKeeps

LEMMA PauseKeeps ==
  ASSUME BaseInv, DbInv, RowsGoOn, NEW R \in SUBSET Runs, PauseRuns(R)
  PROVE  DbInv'
<1>1. /\ ClosedInv /\ run \in [Runs -> RunRow] /\ src \in [Runs -> [Sources -> SourceRow]]
      /\ \A x \in Runs : run[x] \in RunRow
      /\ \A x \in Runs, s \in Sources : src[x][s] \in SourceRow
  BY DEF DbInv
<1> DEFINE paused(r) == [s \in Sources |-> IF s \in Providers /\ src[r][s].status \in Open
                                           THEN [src[r][s] EXCEPT !.status = "waiting"] ELSE src[r][s]]
           waits(r) == \E s \in Sources : paused(r)[s].status = "waiting"
           ending(r) == IF waits(r) THEN IF run[r].auto THEN "partial" ELSE "waiting" ELSE run[r].status
           active == {r \in R : RunActive(r)}
<1>2. /\ src' = [r \in Runs |-> IF r \in active THEN paused(r) ELSE src[r]]
      /\ run' = [r \in Runs |-> IF r \in active THEN [run[r] EXCEPT !.status = ending(r)] ELSE run[r]]
  BY DEF PauseRuns
<1>3. ASSUME NEW r \in Runs
      PROVE  paused(r) \in [Sources -> SourceRow]
  BY <1>1 DEF SourceRow, SourceStatus, Retryable
<1>4. ASSUME NEW r \in active
      PROVE  /\ ending(r) \in {"running", "waiting", "partial"}
             /\ Settled(ending(r), paused(r))
             /\ \A s \in Usage : run[r].auto = TRUE => paused(r)[s].status = "absent"
  <2>1. r \in Runs /\ run[r].status \in {"running", "waiting"}
    BY DEF RunActive
  <2>2. ending(r) \in {"running", "waiting", "partial"} /\ (ending(r) = "partial" => run[r].auto = TRUE)
    BY <2>1
  <2>3. \A s \in Usage : run[r].auto = TRUE => paused(r)[s].status = "absent"
    BY <1>1, <2>1, SyncAssumption DEF ClosedInv, Sources
  <2>4. \A s \in Providers : paused(r)[s].status \notin Open
    <3>1. ASSUME NEW s \in Providers
          PROVE  paused(r)[s].status \notin Open
      <4>1. s \in Sources /\ src[r][s] \in SourceRow
        BY <1>1, <2>1 DEF Sources
      <4>2. paused(r)[s] = IF src[r][s].status \in Open THEN [src[r][s] EXCEPT !.status = "waiting"] ELSE src[r][s]
        BY <4>1
      <4> HIDE DEF paused
      <4> QED
        BY <4>1, <4>2 DEF SourceRow, Open
    <3> QED
      BY <3>1
  <2> HIDE DEF paused, ending
  <2>5. run[r].auto = TRUE => StatusesOf(paused(r)) \cap Open = {}
    BY <2>3, <2>4 DEF StatusesOf, Sources
  <2>6. Settled(ending(r), paused(r))
    BY <2>2, <2>5 DEF Settled
  <2> QED
    BY <2>2, <2>3, <2>6
<1>5. \A r \in Runs, s \in Providers : /\ paused(r)[s].job = src[r][s].job
                                       /\ paused(r)[s].status = "succeeded" => paused(r)[s] = src[r][s]
  <2>1. ASSUME NEW r \in Runs, NEW s \in Providers
        PROVE  /\ paused(r)[s].job = src[r][s].job
               /\ paused(r)[s].status = "succeeded" => paused(r)[s] = src[r][s]
    <3>1. s \in Sources /\ src[r][s] \in SourceRow
      BY <1>1 DEF Sources
    <3>2. paused(r)[s] = IF src[r][s].status \in Open THEN [src[r][s] EXCEPT !.status = "waiting"] ELSE src[r][s]
      BY <3>1
    <3> HIDE DEF paused
    <3> QED
      BY <3>1, <3>2 DEF SourceRow
  <2> QED
    BY <2>1
<1>6. ASSUME NEW r \in active
      PROVE  /\ r \in Runs /\ [run[r] EXCEPT !.status = ending(r)] \in RunRow
             /\ run'[r].status = ending(r) /\ run'[r].auto = run[r].auto /\ src'[r] = paused(r)
  <2>1. r \in Runs /\ run[r] \in RunRow
    BY <1>1
  <2>2. ending(r) \in {"running", "waiting", "partial"}
    BY <1>4
  <2> HIDE DEF ending, paused, active
  <2> QED
    BY <1>2, <2>1, <2>2 DEF RunRow
<1>7. \A r \in Runs \ active : run'[r] = run[r] /\ src'[r] = src[r]
  BY <1>2
<1>8. run' \in [Runs -> RunRow] /\ src' \in [Runs -> [Sources -> SourceRow]]
  <2> HIDE DEF ending, paused, active
  <2> QED
    BY <1>1, <1>2, <1>3, <1>6
<1> HIDE DEF paused, ending, active
<1>9. ClosedInv'
  <2>1. \A r \in Runs : Settled(run'[r].status, src'[r])
    BY <1>1, <1>4, <1>6, <1>7 DEF ClosedInv
  <2>2. ASSUME NEW r \in Runs, NEW s \in Usage, run'[r].auto = TRUE
        PROVE  src'[r][s].status = "absent"
    <3>1. CASE r \in active
      <4>1. run'[r].auto = run[r].auto /\ src'[r] = paused(r)
        BY <1>6, <3>1
      <4>2. run[r].auto = TRUE
        BY <2>2, <4>1
      <4>3. paused(r)[s].status = "absent"
        BY <1>4, <3>1, <4>2
      <4> QED
        BY <4>1, <4>3
    <3>2. CASE r \notin active
      <4>1. run[r].auto = TRUE /\ src'[r] = src[r]
        BY <1>7, <2>2, <3>2
      <4> QED
        BY <1>1, <4>1 DEF ClosedInv
    <3> QED
      BY <3>1, <3>2
  <2> QED
    BY <2>1, <2>2, ClosedAfter
<1>10. \A r \in Runs : run'[r].status = "none" => run[r].status = "none" /\ src'[r] = src[r]
  <2>1. \A r \in active : run'[r].status # "none"
    BY <1>4, <1>6
  <2> QED
    BY <1>7, <2>1
<1>11. \A r \in Runs, s \in Providers : src'[r][s].job = src[r][s].job /\ (src'[r][s].status = "succeeded" => src'[r][s] = src[r][s])
  <2>1. \A r \in active : src'[r] = paused(r)
    BY <1>6
  <2> QED
    BY <1>5, <1>7, <2>1
<1> QED
  BY <1>8, <1>9, <1>10, <1>11, NarrowKeeps

LEMMA FinishKeeps ==
  ASSUME BaseInv, DbInv, RowsGoOn, NEW r \in Runs,
         run' = [run EXCEPT ![r].status = FinishedRun(r)], UNCHANGED src
  PROVE  DbInv'
<1>1. /\ ClosedInv /\ run \in [Runs -> RunRow] /\ src \in [Runs -> [Sources -> SourceRow]]
      /\ run[r] \in RunRow
  BY DEF DbInv
<1>2. /\ FinishedRun(r) \in {"running", "waiting", "completed", "partial", "cancelled", run[r].status}
      /\ Settled(FinishedRun(r), src[r])
      /\ FinishedRun(r) = "none" => run[r].status = "none"
  <2>1. CASE ~RunActive(r)
    BY <1>1, <2>1 DEF FinishedRun, ClosedInv
  <2>2. CASE RunActive(r)
    BY <2>2, OutcomeSettles DEF FinishedRun, Settled, Open
  <2> QED
    BY <2>1, <2>2
<1>3. /\ run'[r].status = FinishedRun(r) /\ run'[r].auto = run[r].auto
      /\ \A x \in Runs \ {r} : run'[x] = run[x]
      /\ run' \in [Runs -> RunRow]
  BY <1>1, <1>2 DEF RunRow
<1>4. ClosedInv'
  <2>1. \A x \in Runs : Settled(run'[x].status, src'[x])
    BY <1>1, <1>2, <1>3 DEF ClosedInv
  <2>2. \A x \in Runs : \A s \in Usage : run'[x].auto = TRUE => src'[x][s].status = "absent"
    BY <1>1, <1>3 DEF ClosedInv
  <2> QED
    BY <2>1, <2>2, ClosedAfter
<1>5. \A x \in Runs : run'[x].status = "none" => run[x].status = "none"
  BY <1>2, <1>3
<1> QED
  BY <1>1, <1>3, <1>4, <1>5, NarrowKeeps

LEMMA CancelRowKeeps ==
  ASSUME BaseInv, DbInv, RowsGoOn, NEW r \in Runs, CancelRow(r)
  PROVE  DbInv'
<1>1. /\ ClosedInv /\ run \in [Runs -> RunRow] /\ src \in [Runs -> [Sources -> SourceRow]]
      /\ run[r] \in RunRow /\ \A s \in Sources : src[r][s] \in SourceRow
      /\ \A x \in Runs : src[x] = src[x]
  BY DEF DbInv
<1> DEFINE f == [s \in Sources |-> IF src[r][s].status \in {"absent", "succeeded"} THEN src[r][s]
                                   ELSE [src[r][s] EXCEPT !.status = "cancelled"]]
<1>2. CASE UNCHANGED <<run, src>>
  <2>1. ClosedInv'
    BY <1>1, <1>2, ClosedAfter DEF ClosedInv
  <2> QED
    BY <1>1, <1>2, <2>1, NarrowKeeps
<1>3. CASE /\ run[r].status # "none" /\ run' = [run EXCEPT ![r].status = "cancelled"]
           /\ src' = [src EXCEPT ![r] = f]
  <2>1. ASSUME NEW s \in Sources
        PROVE  /\ f[s] \in SourceRow /\ f[s].job = src[r][s].job
               /\ f[s].status \in {"absent", "succeeded"} => f[s] = src[r][s]
               /\ f[s].status \in {"absent", "succeeded", "cancelled"}
               /\ src[r][s].status = "absent" => f[s].status = "absent"
    <3>1. f[s] = IF src[r][s].status \in {"absent", "succeeded"} THEN src[r][s]
                 ELSE [src[r][s] EXCEPT !.status = "cancelled"]
      OBVIOUS
    <3>2. src[r][s] \in SourceRow
      BY <1>1
    <3> HIDE DEF f
    <3> QED
      BY <3>1, <3>2 DEF SourceRow, SourceStatus, Retryable
  <2>2. f \in [Sources -> SourceRow]
    <3>1. f = [s \in Sources |-> f[s]]
      OBVIOUS
    <3> HIDE DEF f
    <3> QED
      BY <2>1, <3>1
  <2> HIDE DEF f
  <2>3. /\ run'[r].status = "cancelled" /\ run'[r].auto = run[r].auto /\ src'[r] = f
        /\ \A x \in Runs \ {r} : run'[x] = run[x] /\ src'[x] = src[x]
        /\ run' \in [Runs -> RunRow] /\ src' \in [Runs -> [Sources -> SourceRow]]
    BY <1>1, <1>3, <2>2 DEF RunRow
  <2>4. StatusesOf(f) \subseteq {"succeeded", "cancelled"}
    BY <2>1 DEF StatusesOf
  <2>5. Settled("cancelled", f)
    BY <2>4 DEF Settled, Open
  <2>6. ClosedInv'
    <3>1. \A x \in Runs : Settled(run'[x].status, src'[x])
      BY <1>1, <2>3, <2>5 DEF ClosedInv
    <3>2. ASSUME NEW x \in Runs, run'[x].auto = TRUE, NEW s \in Usage
          PROVE  src'[x][s].status = "absent"
      BY <1>1, <2>1, <2>3, <3>2 DEF ClosedInv, Sources
    <3> QED
      BY <3>1, <3>2, ClosedAfter
  <2>7. \A s \in Providers : f[s].job = src[r][s].job /\ (f[s].status = "succeeded" => f[s] = src[r][s])
    BY <2>1 DEF Sources
  <2> QED
    BY <1>1, <1>3, <2>3, <2>6, <2>7, NarrowKeeps
<1> QED
  BY <1>2, <1>3 DEF CancelRow, RunActive

LEMMA RestartKeeps ==
  ASSUME BaseInv, DbInv, RowsGoOn, Restart
  PROVE  DbInv'
<1>1. /\ ClosedInv /\ run \in [Runs -> RunRow] /\ src \in [Runs -> [Sources -> SourceRow]]
      /\ \A x \in Runs : run[x] \in RunRow
      /\ \A x \in Runs, s \in Sources : src[x][s] \in SourceRow
  BY DEF DbInv
<1> DEFINE left(r) == [s \in Sources |-> IF RunActive(r) /\ s \in Providers /\ src[r][s].status \in Open
                                         THEN [src[r][s] EXCEPT !.status = "waiting"] ELSE src[r][s]]
           halted(r) == RunActive(r) /\ StatusesOf(left(r)) \cap Open = {} /\ StatusesOf(left(r)) \cap {"waiting", "upload"} # {}
           end(r) == IF run[r].auto THEN "partial" ELSE "waiting"
<1>2. /\ src' = [r \in Runs |-> left(r)]
      /\ run' = [r \in Runs |-> IF halted(r) THEN [run[r] EXCEPT !.status = end(r)] ELSE run[r]]
  BY DEF Restart
<1>3. ASSUME NEW r \in Runs, NEW s \in Sources
      PROVE  /\ left(r)[s] \in SourceRow /\ left(r)[s].job = src[r][s].job
             /\ left(r)[s].status = "succeeded" => left(r)[s] = src[r][s]
             /\ src[r][s].status = "absent" => left(r)[s].status = "absent"
             /\ ~RunActive(r) => left(r)[s] = src[r][s]
  <2>1. left(r)[s] = IF RunActive(r) /\ s \in Providers /\ src[r][s].status \in Open
                     THEN [src[r][s] EXCEPT !.status = "waiting"] ELSE src[r][s]
    OBVIOUS
  <2>2. src[r][s] \in SourceRow
    BY <1>1
  <2> HIDE DEF left
  <2> QED
    BY <2>1, <2>2 DEF SourceRow, SourceStatus, Retryable, Open
<1>4. ASSUME NEW r \in Runs
      PROVE  left(r) \in [Sources -> SourceRow] /\ (~RunActive(r) => left(r) = src[r])
  <2>1. left(r) = [s \in Sources |-> left(r)[s]]
    OBVIOUS
  <2> HIDE DEF left
  <2> QED
    BY <1>1, <1>3, <2>1
<1>5. ASSUME NEW r \in Runs
      PROVE  /\ run'[r] \in RunRow /\ run'[r].auto = run[r].auto /\ src'[r] = left(r)
             /\ run'[r].status \in {run[r].status, "partial", "waiting"}
             /\ Settled(run'[r].status, left(r))
             /\ run'[r].status = "none" => run[r].status = "none"
  <2>1. src'[r] = left(r) /\ run'[r] = IF halted(r) THEN [run[r] EXCEPT !.status = end(r)] ELSE run[r]
    BY <1>2
  <2>2. run[r] \in RunRow /\ Settled(run[r].status, src[r])
    BY <1>1 DEF ClosedInv
  <2>3. CASE halted(r)
    <3>1. StatusesOf(left(r)) \cap Open = {} /\ end(r) \in {"partial", "waiting"}
      BY <2>3
    <3> HIDE DEF left, halted, end
    <3>2. run'[r] = [run[r] EXCEPT !.status = end(r)]
      BY <2>1, <2>3
    <3>3. run'[r].status = end(r) /\ run'[r].auto = run[r].auto /\ run'[r] \in RunRow
      BY <2>2, <3>1, <3>2 DEF RunRow
    <3> QED
      BY <2>1, <3>1, <3>3 DEF Settled
  <2>4. CASE ~halted(r) /\ RunActive(r)
    <3> HIDE DEF left, halted, end
    <3> QED
      BY <2>1, <2>2, <2>4 DEF Settled, RunActive
  <2>5. CASE ~RunActive(r)
    <3>1. ~halted(r) /\ left(r) = src[r]
      BY <1>4, <2>5
    <3> HIDE DEF left, halted, end
    <3> QED
      BY <2>1, <2>2, <3>1
  <2> QED
    BY <2>3, <2>4, <2>5
<1>6. run' \in [Runs -> RunRow] /\ src' \in [Runs -> [Sources -> SourceRow]]
  <2>1. run' = [r \in Runs |-> run'[r]]
    BY <1>2
  <2> HIDE DEF left, halted, end
  <2> QED
    BY <1>2, <1>4, <1>5, <2>1
<1> HIDE DEF left, halted, end
<1>7. ClosedInv'
  <2>1. \A x \in Runs : Settled(run'[x].status, src'[x])
    BY <1>5
  <2>2. ASSUME NEW x \in Runs, run'[x].auto = TRUE, NEW s \in Usage
        PROVE  src'[x][s].status = "absent"
    BY <1>1, <1>3, <1>5, <2>2 DEF ClosedInv, Sources
  <2> QED
    BY <2>1, <2>2, ClosedAfter
<1>8. \A r \in Runs : run'[r].status = "none" => run[r].status = "none" /\ src'[r] = src[r]
  BY <1>4, <1>5 DEF RunActive
<1>9. \A r \in Runs, s \in Providers : src'[r][s].job = src[r][s].job /\ (src'[r][s].status = "succeeded" => src'[r][s] = src[r][s])
  BY <1>3, <1>5 DEF Sources
<1> QED
  BY <1>6, <1>7, <1>8, <1>9, NarrowKeeps

LEMMA AttachKeeps ==
  ASSUME BaseInv, DbInv, RowsGoOn, NEW r \in Runs, NEW s \in Providers, WorkAttach(r, s)
  PROVE  DbInv'
<1> DEFINE n == work[r][s].job
<1>1. /\ SourceInv /\ ClosedInv /\ SavedMeansPublished
      /\ run \in [Runs -> RunRow] /\ src \in [Runs -> [Sources -> SourceRow]]
      /\ src[r][s] \in SourceRow /\ s \in Sources
  BY DEF DbInv, Sources
<1>2. n \in 0..MaxAttempts /\ Submitted(r, s, n)
  BY DEF BaseInv, Typed, WorkRow, WorkInv, WorkAttach, At, TrackingPc, SeenOf
<1>3. run' = run /\ row' = row
  BY DEF WorkAttach
<1>4. CASE UNCHANGED src
  <2>1. ClosedInv'
    BY <1>1, <1>3, <1>4, ClosedAfter DEF ClosedInv
  <2> QED
    BY <1>1, <1>3, <1>4, <2>1, NarrowKeeps
<1>5. CASE /\ src[r][s].status \in Open \cup {"waiting"} /\ RunActive(r)
           /\ src' = [src EXCEPT ![r][s].job = n]
  <2> HIDE DEF n
  <2>1. /\ \A x \in Runs \ {r} : src'[x] = src[x]
        /\ \A y \in Sources \ {s} : src'[r][y] = src[r][y]
        /\ src'[r][s].job = n /\ src'[r][s].status = src[r][s].status
        /\ src'[r][s] \in SourceRow
    BY <1>1, <1>2, <1>5 DEF SourceRow
  <2>2. src' \in [Runs -> [Sources -> SourceRow]]
    BY <1>1, <1>5, <2>1
  <2>3. \A x \in Runs : StatusesOf(src'[x]) = StatusesOf(src[x])
    BY <2>1 DEF StatusesOf
  <2>4. ClosedInv'
    <3>1. \A x \in Runs : Settled(run[x].status, src'[x])
      BY <1>1, <2>3 DEF ClosedInv, Settled
    <3>2. \A x \in Runs, y \in Usage : src'[x][y].status = src[x][y].status
      BY <2>1 DEF Sources
    <3> QED
      BY <1>1, <1>3, <3>1, <3>2, ClosedAfter DEF ClosedInv
  <2>5. SourceInv'
    <3>1. ASSUME NEW x \in Runs, run[x].status = "none"
          PROVE  src'[x] = src[x]
      BY <1>5, <2>1, <3>1 DEF RunActive
    <3>2. ASSUME NEW x \in Runs, NEW y \in Providers, src'[x][y].job # 0
          PROVE  row[<<x, y, src'[x][y].job>>] # "none"
      BY <1>1, <1>2, <2>1, <3>2 DEF SourceInv, Submitted, Sources
    <3> QED
      BY <1>1, <1>3, <3>1, <3>2 DEF SourceInv, Submitted
  <2>6. SavedMeansPublished'
    BY <1>1, <1>3, <1>5, <2>1 DEF SavedMeansPublished, Open, Sources
  <2> QED
    BY <1>1, <1>3, <2>2, <2>4, <2>5, <2>6 DEF DbInv
<1> QED
  BY <1>4, <1>5 DEF WorkAttach

(* Every step keeps them.                                                   *)
LEMMA DbKeeps ==
  ASSUME BaseInv, DbInv, RowsGoOn, Next
  PROVE  DbInv'
<1>1. CASE UNCHANGED <<run, src>>
  <2>1. ClosedInv' /\ run \in [Runs -> RunRow] /\ src \in [Runs -> [Sources -> SourceRow]]
    BY <1>1, ClosedAfter DEF DbInv, ClosedInv
  <2> QED
    BY <1>1, <2>1, NarrowKeeps
<1> QED
  BY <1>1, DbSteps, MovesKeep, AttachKeeps, QueueKeeps, PauseKeeps, FinishKeeps, CancelRowKeeps,
     RestartKeeps
     DEF DbStep

-----------------------------------------------------------------------------
(* The variables of the coordinator keep their types                        *)

LEMMA TrackKeeps ==
  ASSUME Typed, TrackStep
  PROVE  /\ kids' \in [Runs -> SUBSET Jobs] /\ dirty' \in [Runs -> SUBSET Jobs]
         /\ \A r \in Runs : dirty'[r] \subseteq kids'[r]
         /\ owed' \in [Runs -> SUBSET Jobs] /\ forgotten' \subseteq Jobs
<1>1. /\ kids \in [Runs -> SUBSET Jobs] /\ dirty \in [Runs -> SUBSET Jobs]
      /\ \A r \in Runs : dirty[r] \subseteq kids[r]
      /\ owed \in [Runs -> SUBSET Jobs] /\ forgotten \subseteq Jobs
  BY DEF Typed
<1>2. CASE UNCHANGED <<kids, dirty, debtVars>>
  BY <1>1, <1>2
<1>3. CASE \E r \in Runs, K, D, O, F \in SUBSET Jobs : Tracks(r, K, D, O, F)
  BY <1>1, <1>3 DEF Tracks
<1>4. CASE Restart
  BY <1>4 DEF Restart
<1> QED
  BY <1>2, <1>3, <1>4 DEF TrackStep

(* What a source's worker holds, after the rows have moved on.              *)
HonestWork(r, s, w) ==
  /\ w.pc \in {"off", "submit"} => w.job = 0
  /\ w.pc \in TrackingPc => w.job # 0
  /\ w.job = 0 => w.seen = "none"
  /\ w.job # 0 => row'[<<r, s, w.job>>] # "none"
  /\ w.job # 0 /\ w.seen = "succeeded" => row'[<<r, s, w.job>>] = "succeeded"
  /\ w.pc = "report" => w.seen \notin {"none", "denied"}

LEMMA WorkStays ==
  ASSUME Typed, WorkInv, RowsGoOn
  PROVE  \A r \in Runs, s \in Providers : work[r][s] \in WorkRow /\ HonestWork(r, s, work[r][s])
<1>1. ASSUME NEW r \in Runs, NEW s \in Providers
      PROVE  work[r][s] \in WorkRow /\ HonestWork(r, s, work[r][s])
  <2> DEFINE w == work[r][s]
  <2>1. /\ w \in WorkRow
        /\ w.pc \in {"off", "submit"} => w.job = 0
        /\ w.pc \in TrackingPc => w.job # 0
        /\ w.job = 0 => w.seen = "none"
        /\ w.job # 0 => SeenOf(r, s, w.job, w.seen)
        /\ w.pc = "report" => w.seen \notin {"none", "denied"}
    BY DEF Typed, WorkInv
  <2> HIDE DEF w
  <2>2. w.job # 0 => <<r, s, w.job>> \in Jobs
    BY <2>1, ChildIsJob DEF WorkRow
  <2>3. w.job # 0 => row'[<<r, s, w.job>>] # "none"
    BY <2>1, <2>2 DEF SeenOf, Submitted, RowsGoOn
  <2>4. w.job # 0 /\ w.seen = "succeeded" => row'[<<r, s, w.job>>] = "succeeded"
    BY <2>1, <2>2 DEF SeenOf, RowsGoOn, Unfinished
  <2>5. w \in WorkRow /\ HonestWork(r, s, w)
    BY <2>1, <2>3, <2>4 DEF HonestWork
  <2> QED
    BY <2>5 DEF w
<1> QED
  BY <1>1

LEMMA WorkAfter ==
  ASSUME work' \in [Runs -> [Providers -> WorkRow]],
         \A r \in Runs, s \in Providers : HonestWork(r, s, work'[r][s])
  PROVE  WorkInv'
<1>1. ASSUME NEW r \in Runs, NEW s \in Providers
      PROVE  LET w == work'[r][s] IN
             /\ w.pc \in {"off", "submit"} => w.job = 0
             /\ w.pc \in TrackingPc => w.job # 0
             /\ w.job = 0 => w.seen = "none"
             /\ w.job # 0 => /\ row'[<<r, s, w.job>>] # "none"
                             /\ w.seen = "succeeded" => row'[<<r, s, w.job>>] = "succeeded"
             /\ w.pc = "report" => w.seen \notin {"none", "denied"}
  BY DEF HonestWork
<1> QED
  BY <1>1 DEF WorkInv, SeenOf, Submitted, TrackingPc

LEMMA OneSourceMoves ==
  ASSUME Typed, WorkInv, RowsGoOn, NEW r \in Runs, NEW s \in Providers, NEW w \in WorkRow,
         HonestWork(r, s, w), work' = [work EXCEPT ![r][s] = w]
  PROVE  work' \in [Runs -> [Providers -> WorkRow]] /\ WorkInv'
<1>1. work \in [Runs -> [Providers -> WorkRow]]
  BY DEF Typed
<1>2. work' \in [Runs -> [Providers -> WorkRow]]
  BY <1>1
<1>3. /\ work'[r][s] = w
      /\ \A y \in Providers \ {s} : work'[r][y] = work[r][y]
      /\ \A x \in Runs \ {r} : work'[x] = work[x]
  BY <1>1
<1>4. ASSUME NEW x \in Runs, NEW y \in Providers
      PROVE  HonestWork(x, y, work'[x][y])
  <2>1. CASE x = r /\ y = s
    BY <1>3, <2>1
  <2>2. CASE ~(x = r /\ y = s)
    <3>1. work'[x][y] = work[x][y]
      BY <1>3, <2>2
    <3> QED
      BY <3>1, WorkStays
  <2> QED
    BY <2>1, <2>2
<1> QED
  BY <1>2, <1>4, WorkAfter

LEMMA IdleIsHonest ==
  ASSUME NEW r, NEW s
  PROVE  Idle \in WorkRow /\ HonestWork(r, s, Idle) /\ [Idle EXCEPT !.pc = "submit"] \in WorkRow
         /\ HonestWork(r, s, [Idle EXCEPT !.pc = "submit"])
<1>1. 0 \in 0..MaxAttempts
  BY SyncAssumption
<1> QED
  BY <1>1 DEF Idle, WorkRow, WorkPc, TrackingPc, Seen, JobStatus, HonestWork

(* A source's worker goes from one place to the next.                       *)
LEMMA WorkKeeps ==
  ASSUME Typed, WorkInv, RequestInv, RowsGoOn, Next
  PROVE  work' \in [Runs -> [Providers -> WorkRow]] /\ WorkInv'
<1> DEFINE Goal == work' \in [Runs -> [Providers -> WorkRow]] /\ WorkInv'
<1>a. ASSUME NEW r \in Runs, NEW s \in Providers
      PROVE  work[r][s] \in WorkRow /\ HonestWork(r, s, work[r][s])
  BY WorkStays
<1>t. work \in [Runs -> [Providers -> WorkRow]]
  BY DEF Typed
<1>p. ASSUME NEW r \in Runs, NEW s \in Providers, NEW pc \in {"fail", "done", "threw", "mark", "start", "starting", "poll", "clean"},
             pc \in TrackingPc => work[r][s].pc \in TrackingPc,
             To(r, s, pc)
      PROVE  Goal
  <2> DEFINE w == [work[r][s] EXCEPT !.pc = pc]
  <2>1. work' = [work EXCEPT ![r][s] = w]
    BY <1>p, <1>t DEF To
  <2>2. /\ w.pc = pc /\ w.job = work[r][s].job /\ w.seen = work[r][s].seen /\ w \in WorkRow
    BY <1>a DEF WorkRow, WorkPc, TrackingPc
  <2>3. work[r][s].pc \in TrackingPc => work[r][s].job # 0
    BY DEF WorkInv
  <2> HIDE DEF w
  <2>4. HonestWork(r, s, w)
    BY <1>a, <1>p, <2>2, <2>3 DEF HonestWork
  <2> QED
    BY <2>1, <2>2, <2>4, OneSourceMoves
<1>s. ASSUME NEW r \in Runs, NEW s \in Providers, NEW pc \in {"report", "clean"}, NEW seen \in Seen,
             work[r][s].pc \in TrackingPc, row' = row,
             seen \in {row[Child(r, s)], "failed", "denied"}, pc = "report" => seen # "denied",
             work' = [work EXCEPT ![r][s] = [@ EXCEPT !.pc = pc, !.seen = seen]]
      PROVE  Goal
  <2> DEFINE w == [work[r][s] EXCEPT !.pc = pc, !.seen = seen]
  <2>1. work' = [work EXCEPT ![r][s] = w]
    BY <1>s, <1>t
  <2>2. /\ w.pc = pc /\ w.job = work[r][s].job /\ w.seen = seen /\ w \in WorkRow
    BY <1>a, <1>s DEF WorkRow, WorkPc, TrackingPc
  <2>3. work[r][s].job # 0 /\ row[Child(r, s)] # "none" /\ Child(r, s) = <<r, s, work[r][s].job>>
    BY <1>s DEF WorkInv, SeenOf, Submitted, Child
  <2> HIDE DEF w
  <2>4. HonestWork(r, s, w)
    BY <1>s, <2>2, <2>3 DEF HonestWork, TrackingPc
  <2> QED
    BY <2>1, <2>2, <2>4, OneSourceMoves
<1>v. ASSUME NEW r \in Runs, NEW s \in Providers, work[r][s].pc \in TrackingPc
      PROVE  /\ Visible(Child(r, s)) \in Seen /\ Visible(Child(r, s)) # "denied"
             /\ Visible(Child(r, s)) \in {row[Child(r, s)], "failed"}
  <2>1. Child(r, s) \in Jobs
    BY <1>v, TrackedIsJob
  <2>2. row[Child(r, s)] \in JobStatus
    BY <2>1 DEF Typed, RefreshTypeOK
  <2> QED
    BY <2>2 DEF Visible, Seen, JobStatus
<1>1. ASSUME NEW r \in Runs, NEW s \in Providers, WorkSubmit(r, s)
      PROVE  Goal
  <2> DEFINE n == src[r][s].attempt
  <2>1. n \in 1..MaxAttempts /\ <<r, s, n>> \in Jobs
    BY ChildIsJob DEF Typed, SourceRow, Sources
  <2>2. work[r][s].pc = "submit" /\ work[r][s].job = 0 /\ work[r][s].seen = "none"
    BY <1>1 DEF WorkSubmit, At, WorkInv
  <2>3. CASE To(r, s, "fail")
    BY <1>p, <2>3 DEF TrackingPc
  <2>4. CASE SubmitJob(<<r, s, n>>) /\ work' = [work EXCEPT ![r][s] = [@ EXCEPT !.pc = "attach", !.job = n]]
    <3> DEFINE w == [work[r][s] EXCEPT !.pc = "attach", !.job = n]
    <3> HIDE DEF n
    <3>1. work' = [work EXCEPT ![r][s] = w]
      BY <1>t, <2>4
    <3>2. w.pc = "attach" /\ w.job = n /\ w.seen = "none" /\ w \in WorkRow
      <4>1. work[r][s] \in WorkRow /\ n \in 0..MaxAttempts
        BY <1>a, <2>1
      <4>2. w.pc = "attach" /\ w.job = n /\ w.seen = work[r][s].seen
        BY <4>1 DEF WorkRow
      <4> QED
        BY <2>2, <4>1, <4>2 DEF WorkRow, WorkPc, TrackingPc
    <3>3. row'[<<r, s, n>>] # "none"
      BY <2>1, <2>4 DEF SubmitJob, Typed, RefreshTypeOK
    <3> HIDE DEF w
    <3>4. HonestWork(r, s, w)
      BY <2>1, <3>2, <3>3 DEF HonestWork
    <3> QED
      BY <3>1, <3>2, <3>4, OneSourceMoves
  <2> QED
    BY <1>1, <2>3, <2>4 DEF WorkSubmit
<1>2. ASSUME NEW r \in Runs, NEW s \in Providers,
             WorkAttach(r, s) \/ WorkMark(r, s) \/ WorkStart(r, s) \/ WorkClean(r, s) \/ WorkFail(r, s)
      PROVE  Goal
  <2>1. \E pc \in {"fail", "done", "threw", "mark", "start", "starting", "clean"} :
           To(r, s, pc) /\ (pc \in TrackingPc => work[r][s].pc \in TrackingPc)
    BY <1>2 DEF WorkAttach, WorkMark, WorkStart, WorkClean, WorkFail, At, TrackingPc
  <2> QED
    BY <1>p, <2>1
<1>3. ASSUME NEW r \in Runs, NEW s \in Providers, WorkReport(r, s)
      PROVE  Goal
  <2>1. work[r][s].pc \in TrackingPc
    BY <1>3 DEF WorkReport, At, TrackingPc
  <2>2. \E pc \in {"done", "poll", "clean"} : To(r, s, pc)
    BY <1>3 DEF WorkReport
  <2> QED
    BY <1>p, <2>1, <2>2
<1>4. ASSUME NEW r \in Runs, NEW s \in Providers, WorkStarted(r, s)
      PROVE  Goal
  <2>1. work[r][s].pc \in TrackingPc /\ row' = row
    BY <1>4 DEF WorkStarted, At, TrackingPc
  <2> DEFINE pc == IF Current(r) /\ Child(r, s) \in dispatched THEN "report" ELSE "clean"
             seen == IF Child(r, s) \in dispatched THEN Visible(Child(r, s)) ELSE "denied"
  <2>2. work' = [work EXCEPT ![r][s] = [@ EXCEPT !.pc = pc, !.seen = seen]]
    BY <1>4 DEF WorkStarted
  <2>3. /\ pc \in {"report", "clean"} /\ seen \in Seen /\ (pc = "report" => seen # "denied")
        /\ seen \in {row[Child(r, s)], "failed", "denied"}
    BY <1>v, <2>1 DEF Seen
  <2> HIDE DEF pc, seen
  <2> QED
    BY <1>s, <2>1, <2>2, <2>3
<1>5. ASSUME NEW r \in Runs, NEW s \in Providers, WorkPoll(r, s)
      PROVE  Goal
  <2>1. work[r][s].pc \in TrackingPc /\ row' = row
    BY <1>5 DEF WorkPoll, At, TrackingPc
  <2>2. CASE Current(r)
    <3> DEFINE seen == Visible(Child(r, s))
    <3>1. work' = [work EXCEPT ![r][s] = [@ EXCEPT !.pc = "report", !.seen = seen]]
      BY <1>5, <2>2 DEF WorkPoll
    <3>2. seen \in Seen /\ seen # "denied" /\ seen \in {row[Child(r, s)], "failed", "denied"}
      BY <1>v, <2>1
    <3> HIDE DEF seen
    <3> QED
      BY <1>s, <2>1, <3>1, <3>2
  <2>3. CASE ~Current(r)
    <3>1. To(r, s, "clean")
      BY <1>5, <2>3, <1>t DEF WorkPoll, To
    <3> QED
      BY <1>p, <2>1, <3>1
  <2> QED
    BY <2>2, <2>3
<1>6. ASSUME NEW r \in Runs, NEW f \in [Providers -> WorkRow], \A s \in Providers : HonestWork(r, s, f[s]),
             work' = [work EXCEPT ![r] = f]
      PROVE  Goal
  <2>1. work' \in [Runs -> [Providers -> WorkRow]] /\ work'[r] = f /\ \A x \in Runs \ {r} : work'[x] = work[x]
    BY <1>6, <1>t
  <2>2. \A x \in Runs, y \in Providers : HonestWork(x, y, work'[x][y])
    BY <1>6, <1>a, <2>1
  <2> QED
    BY <2>1, <2>2, WorkAfter
<1>7. ASSUME NEW r \in Runs, WorkFinish(r)
      PROVE  Goal
  <2>1. [s \in Providers |-> Idle] \in [Providers -> WorkRow] /\ \A s \in Providers : HonestWork(r, s, Idle)
    BY IdleIsHonest
  <2> QED
    BY <1>6, <1>7, <2>1 DEF WorkFinish
<1>8. ASSUME NEW q \in Requests, Launch(q)
      PROVE  Goal
  <2> DEFINE r == request[q].run
             f == [s \in Providers |-> IF s \in request[q].sel THEN [Idle EXCEPT !.pc = "submit"] ELSE Idle]
  <2>1. r \in Runs
    BY <1>8 DEF Launch, RequestInv, RunsOf
  <2>2. CASE UNCHANGED work
    <3>1. \A x \in Runs, y \in Providers : HonestWork(x, y, work'[x][y])
      BY <1>a, <2>2
    <3> QED
      BY <1>t, <2>2, <3>1, WorkAfter
  <2>3. CASE work' = [work EXCEPT ![r] = f]
    <3>1. f \in [Providers -> WorkRow] /\ \A s \in Providers : HonestWork(r, s, f[s])
      BY IdleIsHonest
    <3> HIDE DEF f, r
    <3> QED
      BY <1>6, <2>1, <2>3, <3>1
  <2>4. UNCHANGED work \/ work' = [work EXCEPT ![r] = f]
    BY <1>8 DEF Launch
  <2> QED
    BY <2>2, <2>3, <2>4
<1>9. CASE Restart
  <2>1. work' = [r \in Runs |-> [s \in Providers |-> Idle]]
    BY <1>9 DEF Restart
  <2>2. work' \in [Runs -> [Providers -> WorkRow]]
    BY <2>1, IdleIsHonest
  <2>3. \A r \in Runs, s \in Providers : HonestWork(r, s, work'[r][s])
    BY <2>1, IdleIsHonest
  <2> QED
    BY <2>2, <2>3, WorkAfter
<1>10. CASE UNCHANGED work
  <2>1. \A x \in Runs, y \in Providers : HonestWork(x, y, work'[x][y])
    BY <1>a, <1>10
  <2> QED
    BY <1>t, <1>10, <2>1, WorkAfter
<1>11. UNCHANGED work \/ WorkWrite
  BY Writers
<1> HIDE DEF Goal
<1> QED
  BY <1>1, <1>2, <1>3, <1>4, <1>5, <1>7, <1>8, <1>9, <1>10, <1>11 DEF WorkWrite, WorkStep, Goal

(* The requests, cancellations, sign-outs and status reads.                 *)
HonestRequest(a) ==
  /\ a \in RequestRow
  /\ a.pc = "idle" <=> a = NoRequest
  /\ a.pc # "idle" => a.who \in Principals /\ a.kind # "none"
  /\ a.kind = "retry" \/ a.pc \in {"launch", "tail", "rest"} => a.run \in RunsOf(a.who)
  /\ a.kind = "retry" /\ a.pc \in {"cancel", "commit"} => a.sel # {}
  /\ a.pc = "cancel" => a.kind = "retry"
  /\ a.pc \in PreparingPc /\ a.kind # "retry" => a.run = "none"

LEMMA RequestAfter ==
  ASSUME request' \in [Requests -> RequestRow], \A q \in Requests : HonestRequest(request'[q])
  PROVE  RequestInv'
<1>1. \A q \in Requests :
        LET a == request'[q] IN
        /\ a.pc = "idle" <=> a = NoRequest
        /\ a.pc # "idle" => a.who \in Principals /\ a.kind # "none"
        /\ a.kind = "retry" \/ a.pc \in {"launch", "tail", "rest"} => a.run \in RunsOf(a.who)
        /\ a.kind = "retry" /\ a.pc \in {"cancel", "commit"} => a.sel # {}
        /\ a.pc = "cancel" => a.kind = "retry"
        /\ a.pc \in PreparingPc /\ a.kind # "retry" => a.run = "none"
  BY DEF HonestRequest
<1> QED
  BY <1>1 DEF RequestInv, NoRequest, Principals, RunsOf

LEMMA RequestsAre ==
  ASSUME Typed, RequestInv
  PROVE  \A q \in Requests : HonestRequest(request[q])
BY DEF Typed, RequestInv, HonestRequest

LEMMA NoRequestIsHonest == HonestRequest(NoRequest)
BY DEF HonestRequest, NoRequest, RequestRow, RequestPc, PreparingPc, Reason, Principals, RunsOf

LEMMA RequestKeeps ==
  ASSUME Typed, RequestInv, Next
  PROVE  request' \in [Requests -> RequestRow] /\ RequestInv'
<1> DEFINE Goal == request' \in [Requests -> RequestRow] /\ RequestInv'
<1>a. request \in [Requests -> RequestRow] /\ \A q \in Requests : HonestRequest(request[q])
  BY RequestsAre DEF Typed
<1>b. ASSUME NEW q \in Requests, NEW a, HonestRequest(a), request' = [request EXCEPT ![q] = a]
      PROVE  Goal
  <2>1. request' \in [Requests -> RequestRow] /\ \A x \in Requests : HonestRequest(request'[x])
    BY <1>a, <1>b DEF HonestRequest
  <2> QED
    BY <2>1, RequestAfter
<1>c. ASSUME NEW q \in Requests, Answer(q)
      PROVE  Goal
  BY <1>b, <1>c, NoRequestIsHonest DEF Answer
<1>d. ASSUME NEW q \in Requests, NEW pc \in {"prepare", "commit", "launch", "tail", "rest"}, Step(q, pc),
             request[q].pc # "idle",
             pc \in {"launch", "tail", "rest"} => request[q].kind = "retry" \/ request[q].pc = "launch",
             pc = "commit" => request[q].kind # "retry" \/ request[q].pc = "cancel",
             pc \in {"prepare", "commit"} => request[q].pc \in PreparingPc
      PROVE  Goal
  <2> DEFINE a == [request[q] EXCEPT !.pc = pc]
  <2>1. request' = [request EXCEPT ![q] = a]
    BY <1>a, <1>d DEF Step
  <2>2. HonestRequest(request[q]) /\ request[q] \in RequestRow
    BY <1>a
  <2>3. /\ a.pc = pc /\ a.kind = request[q].kind /\ a.who = request[q].who /\ a.run = request[q].run
        /\ a.sel = request[q].sel /\ a \in RequestRow
    BY <2>2 DEF RequestRow, RequestPc, PreparingPc
  <2>4. a # NoRequest
    BY <2>3 DEF NoRequest
  <2> HIDE DEF a
  <2>5. HonestRequest(a)
    BY <1>d, <2>2, <2>3, <2>4 DEF HonestRequest, PreparingPc
  <2> QED
    BY <1>b, <2>1, <2>5
<1>e. ASSUME NEW Q \in SUBSET Asking, NEW why \in {"cancel", "auth"}, request' = Aborted(Q, why)
      PROVE  Goal
  <2>1. ASSUME NEW q \in Requests
        PROVE  HonestRequest(request'[q])
    <3>1. CASE request'[q] = request[q]
      BY <1>a, <3>1
    <3>2. CASE q \in Q /\ request'[q] = [request[q] EXCEPT !.why = why]
      <4> DEFINE a == [request[q] EXCEPT !.why = why]
      <4>1. HonestRequest(request[q]) /\ request[q] \in RequestRow /\ request[q].pc # "idle"
        BY <1>a, <3>2 DEF Asking
      <4>2. /\ a.pc = request[q].pc /\ a.kind = request[q].kind /\ a.who = request[q].who
            /\ a.run = request[q].run /\ a.sel = request[q].sel /\ a \in RequestRow
        BY <4>1 DEF RequestRow, Reason
      <4>3. a # NoRequest
        BY <4>1, <4>2 DEF NoRequest
      <4> HIDE DEF a
      <4>4. HonestRequest(a)
        BY <4>1, <4>2, <4>3 DEF HonestRequest
      <4> QED
        BY <3>2, <4>4 DEF a
    <3> QED
      BY <1>e, <3>1, <3>2 DEF Aborted
  <2>2. request' \in [Requests -> RequestRow]
    <3>1. request' = [q \in Requests |-> request'[q]]
      BY <1>e DEF Aborted
    <3> QED
      BY <2>1, <3>1 DEF HonestRequest
  <2> QED
    BY <2>1, <2>2, RequestAfter
<1>u. ASSUME UNCHANGED request
      PROVE  Goal
  BY <1>a, <1>u, RequestAfter
<1>1. ASSUME NEW q \in Requests, NEW p \in Principals, NEW kind \in {"start", "due", "retry"},
             NEW r \in Runs \cup {"none"}, kind # "retry" => r = "none", Admit(q, p, kind, r)
      PROVE  Goal
  <2>1. \E pc \in {"prepare", "clean"} : request' = [request EXCEPT ![q] =
           [NoRequest EXCEPT !.pc = pc, !.kind = kind, !.who = p, !.run = r]]
    BY <1>1 DEF Admit
  <2>2. PICK pc \in {"prepare", "clean"} : request' = [request EXCEPT ![q] =
           [NoRequest EXCEPT !.pc = pc, !.kind = kind, !.who = p, !.run = r]]
    BY <2>1
  <2> DEFINE a == [NoRequest EXCEPT !.pc = pc, !.kind = kind, !.who = p, !.run = r]
  <2>3. request' = [request EXCEPT ![q] = a]
    BY <2>2
  <2>4. NoRequest \in RequestRow
    BY NoRequestIsHonest DEF HonestRequest
  <2>6. a.pc = pc /\ a.kind = kind /\ a.who = p /\ a.run = r /\ a \in RequestRow
    BY <2>4 DEF RequestRow, RequestPc, PreparingPc
  <2>7. a # NoRequest
    BY <2>6 DEF NoRequest
  <2> HIDE DEF a
  <2>5. HonestRequest(a)
    BY <1>1, <2>6, <2>7 DEF Admit, HonestRequest
  <2> QED
    BY <1>b, <2>3, <2>5
<1>2. ASSUME NEW q \in Requests, Refuse(q) \/ Tail(q)
      PROVE  Goal
  BY <1>2, <1>c DEF Refuse, Tail
<1>3. ASSUME NEW q \in Requests, AdmitClean(q)
      PROVE  Goal
  <2>1. UNCHANGED request \/ Answer(q) \/ (Step(q, "prepare") /\ request[q].pc = "clean")
    BY <1>3 DEF AdmitClean
  <2> QED
    BY <1>c, <1>d, <1>u, <2>1 DEF PreparingPc
<1>4. ASSUME NEW q \in Requests, DuePrepare(q)
      PROVE  Goal
  <2>1. Answer(q) \/ (Step(q, "commit") /\ request[q].pc = "prepare" /\ request[q].kind = "due")
    BY <1>4 DEF DuePrepare
  <2> QED
    BY <1>c, <1>d, <2>1 DEF PreparingPc
<1>5. ASSUME NEW q \in Requests, StartCommit(q) \/ DueCommit(q)
      PROVE  Goal
  <2>1. ASSUME NEW S \in SUBSET Sources, NEW auto, Create(q, S, auto), request[q].pc # "idle", request[q].kind # "retry"
        PROVE  Goal
    <3>1. CASE Answer(q)
      BY <1>c, <3>1
    <3>2. ASSUME NEW r \in Fresh(request[q].who),
                 request' = [request EXCEPT ![q].pc = "launch", ![q].run = r, ![q].sel = S]
          PROVE  Goal
      <4> DEFINE a == [request[q] EXCEPT !.pc = "launch", !.run = r, !.sel = S]
      <4>1. request' = [request EXCEPT ![q] = a]
        BY <1>a, <3>2
      <4>2. HonestRequest(request[q]) /\ request[q] \in RequestRow /\ r \in RunsOf(request[q].who) /\ r \in Runs
        BY <1>a DEF Fresh, RunsOf
      <4>3. /\ a.pc = "launch" /\ a.kind = request[q].kind /\ a.who = request[q].who /\ a.run = r
            /\ a \in RequestRow
        BY <4>2 DEF RequestRow, RequestPc
      <4>4. a # NoRequest
        BY <4>3 DEF NoRequest
      <4> HIDE DEF a
      <4>5. HonestRequest(a)
        BY <2>1, <4>2, <4>3, <4>4 DEF HonestRequest, PreparingPc
      <4> QED
        BY <1>b, <4>1, <4>5
    <3> QED
      BY <2>1, <3>1, <3>2 DEF Create
  <2>2. CASE StartCommit(q)
    BY <2>1, <2>2 DEF StartCommit
  <2>3. CASE DueCommit(q)
    BY <2>1, <2>3 DEF DueCommit, Sources
  <2> QED
    BY <1>5, <2>2, <2>3
<1>6. ASSUME NEW q \in Requests, RetryPrepare(q)
      PROVE  Goal
  <2>1. CASE Answer(q)
    BY <1>c, <2>1
  <2>2. ASSUME NEW S \in SUBSET Sources, S # {}, request' = [request EXCEPT ![q].pc = "cancel", ![q].sel = S]
        PROVE  Goal
    <3> DEFINE a == [request[q] EXCEPT !.pc = "cancel", !.sel = S]
    <3>1. request' = [request EXCEPT ![q] = a]
      BY <1>a, <2>2
    <3>2. HonestRequest(request[q]) /\ request[q] \in RequestRow /\ request[q].kind = "retry" /\ request[q].pc # "idle"
      BY <1>a, <1>6 DEF RetryPrepare
    <3>3. /\ a.pc = "cancel" /\ a.kind = "retry" /\ a.who = request[q].who /\ a.run = request[q].run /\ a.sel = S
          /\ a \in RequestRow
      BY <3>2 DEF RequestRow, RequestPc, PreparingPc
    <3>4. a # NoRequest
      BY <3>3 DEF NoRequest
    <3> HIDE DEF a
    <3>5. HonestRequest(a)
      BY <2>2, <3>2, <3>3, <3>4 DEF HonestRequest
    <3> QED
      BY <1>b, <3>1, <3>5
  <2> DEFINE r == request[q].run
             fresh(s) == IF worker[r] = "no" /\ s \in Providers /\ src[r][s].job # 0 /\ src[r][s].status \in Open \cup {"waiting"}
                         THEN Visible(<<r, s, src[r][s].job>>) ELSE "cleaned"
             read == [s \in Sources |-> IF fresh(s) # "cleaned" /\ Updatable(r, s, fresh(s), src[r][s].job)
                                        THEN [src[r][s] EXCEPT !.status = fresh(s)] ELSE src[r][s]]
             able == {s \in Sources : read[s].status \in Retryable}
  <2>3. Answer(q) \/ \E S \in (SUBSET able) \ {{}} : request' = [request EXCEPT ![q].pc = "cancel", ![q].sel = S]
    BY <1>6 DEF RetryPrepare, Answer
  <2>4. able \subseteq Sources
    OBVIOUS
  <2> HIDE DEF Goal, able, read, fresh, r
  <2> QED
    BY <2>1, <2>2, <2>3, <2>4
<1>7. ASSUME NEW q \in Requests, RetryCancel(q) \/ RetryCommit(q) \/ Launch(q)
      PROVE  Goal
  <2>1. request[q].pc = "cancel" => request[q].kind = "retry"
    BY DEF RequestInv
  <2>2. \/ Answer(q)
        \/ Step(q, "commit") /\ request[q].pc = "cancel"
        \/ Step(q, "launch") /\ request[q].pc = "commit" /\ request[q].kind = "retry"
        \/ request[q].pc = "launch" /\ (Step(q, "tail") \/ Step(q, "rest"))
    BY <1>7, <2>1 DEF RetryCancel, RetryCommit, Launch
  <2> QED
    BY <1>c, <1>d, <2>2 DEF PreparingPc
<1>8. ASSUME NEW r \in Runs, CancelAsk(r)
      PROVE  Goal
  <2>1. \E Q \in SUBSET Asking : request' = Aborted(Q, "cancel")
    BY <1>8 DEF CancelAsk
  <2> QED
    BY <1>e, <2>1
<1>9. ASSUME NEW p \in Principals, SignOut(p)
      PROVE  Goal
  <2>1. \E Q \in SUBSET Asking : request' = Aborted(Q, "auth")
    BY <1>9 DEF SignOut
  <2> QED
    BY <1>e, <2>1
<1>10. CASE Restart
  <2>1. request' = [q \in Requests |-> NoRequest]
    BY <1>10 DEF Restart
  <2>2. request' \in [Requests -> RequestRow] /\ \A q \in Requests : HonestRequest(request'[q])
    BY <2>1, NoRequestIsHonest DEF HonestRequest
  <2> QED
    BY <2>2, RequestAfter
<1>11. UNCHANGED request \/ RequestWrite
  BY Writers
<1>12. ASSUME NEW q \in Requests, NEW r \in Runs, Admit(q, OwnerOf[r], "retry", r)
       PROVE  Goal
  <2>1. OwnerOf[r] \in Principals
    BY DEF Principals
  <2> HIDE DEF Goal
  <2> QED
    BY <1>1, <1>12, <2>1
<1>13. ASSUME NEW q \in Requests, NEW p \in Principals, NEW kind \in {"start", "due"}, Admit(q, p, kind, "none")
       PROVE  Goal
  <2> HIDE DEF Goal
  <2> QED
    BY <1>1, <1>13
<1> HIDE DEF Goal
<1> QED
  BY <1>2, <1>3, <1>4, <1>5, <1>6, <1>7, <1>8, <1>9, <1>10, <1>11, <1>12, <1>13, <1>u
     DEF RequestWrite, RequestStep, Goal

LEMMA ViewKeeps ==
  ASSUME Typed, SourceInv, ViewInv, RowsGoOn, Next
  PROVE  view' \in ViewRow /\ ViewInv'
<1>1. view \in ViewRow /\ NoView \in ViewRow
  BY SyncAssumption DEF Typed, ViewRow, NoView, JobStatus
<1>2. ASSUME NEW r \in Runs, NEW s \in Providers, ViewRead(r, s)
      PROVE  view' \in ViewRow /\ ViewInv'
  <2> DEFINE n == src[r][s].job
             seen == Visible(<<r, s, n>>)
  <2>1. n \in 0..MaxAttempts /\ n # 0 /\ row' = row
    BY <1>2 DEF ViewRead, Typed, SourceRow, Sources
  <2>2. Submitted(r, s, n) /\ <<r, s, n>> \in Jobs
    BY <2>1, ChildIsJob DEF SourceInv
  <2>3. row[<<r, s, n>>] \in JobStatus \ {"none"}
    BY <2>2 DEF Submitted, Typed, RefreshTypeOK
  <2>4. seen \in JobStatus \ {"none"} /\ (seen = "succeeded" => row[<<r, s, n>>] = "succeeded")
    BY <2>3 DEF Visible, JobStatus
  <2>5. view' = [pc |-> "write", run |-> r, source |-> s, job |-> n, seen |-> seen]
    BY <1>2 DEF ViewRead
  <2> HIDE DEF n, seen
  <2>6. view' \in ViewRow
    BY <2>1, <2>4, <2>5 DEF ViewRow
  <2> QED
    BY <2>1, <2>2, <2>4, <2>5, <2>6 DEF ViewInv, SeenOf, Submitted
<1>3. CASE view' = NoView
  BY <1>1, <1>3 DEF ViewInv, NoView
<1>4. CASE UNCHANGED view
  <2>1. view.pc = "write" =>
          /\ view.run \in Runs /\ view.source \in Providers /\ view.seen # "none"
          /\ SeenOf(view.run, view.source, view.job, view.seen)
          /\ view.job \in 0..MaxAttempts
    BY <1>1 DEF ViewInv, ViewRow
  <2>2. view.pc = "write" => /\ view.job # 0 /\ row'[<<view.run, view.source, view.job>>] # "none"
                             /\ view.seen = "succeeded" => row'[<<view.run, view.source, view.job>>] = "succeeded"
    <3>1. view.pc = "write" => <<view.run, view.source, view.job>> \in Jobs
      BY <2>1, ChildIsJob DEF SeenOf, Submitted
    <3> QED
      BY <2>1, <3>1 DEF SeenOf, Submitted, RowsGoOn, Unfinished
  <2> QED
    BY <1>1, <1>4, <2>1, <2>2 DEF ViewInv, SeenOf, Submitted
<1>5. UNCHANGED view \/ ViewChange
  BY Writers
<1> QED
  BY <1>2, <1>3, <1>4, <1>5 DEF ViewChange, ViewWrite, Restart

(* The variables that only their types say something of.                    *)
LEMMA RestKeeps ==
  ASSUME Typed, WorkInv, Next
  PROVE  /\ worker' \in [Runs -> {"no", "work", "auto", "catch", "finish"}]
         /\ ctl' \in [Runs -> Reason]
         /\ stop' \in [Runs -> StopRow] /\ out' \in [Principals -> OutRow]
         /\ session' \subseteq Principals /\ quiet' \subseteq Runs
         /\ linked' \subseteq Jobs /\ accepted' \in BOOLEAN
<1>1. worker' \in [Runs -> {"no", "work", "auto", "catch", "finish"}]
  <2>1. UNCHANGED worker \/ WorkerWrite
    BY Writers
  <2>2. worker \in [Runs -> {"no", "work", "auto", "catch", "finish"}]
    BY DEF Typed
  <2> DEFINE Pc == {"no", "work", "auto", "catch", "finish"}
  <2>3. ASSUME NEW r \in Runs, WorkEnd(r)
        PROVE  \E pc \in Pc : worker' = [worker EXCEPT ![r] = pc]
    BY <2>3 DEF WorkEnd, WorkSettle, WorkAuto, WorkCatch, WorkFinish
  <2>4. ASSUME NEW q \in Requests, Launch(q)
        PROVE  UNCHANGED worker \/ worker' = [worker EXCEPT ![request[q].run] = "work"]
    BY <2>4 DEF Launch
  <2>5. CASE Restart
    BY <2>5 DEF Restart
  <2> QED
    BY <2>1, <2>2, <2>3, <2>4, <2>5 DEF WorkerWrite
<1>2. ctl' \in [Runs -> Reason]
  <2>1. UNCHANGED ctl \/ CtlWrite
    BY Writers
  <2>2. ctl \in [Runs -> Reason]
    BY DEF Typed
  <2> QED
    BY <2>1, <2>2 DEF CtlWrite, CancelAsk, LoseAuthority, Launch, SignOut, Restart, Reason
<1>3. stop' \in [Runs -> StopRow]
  <2>1. UNCHANGED stop \/ StopWrite
    BY Writers
  <2>2. stop \in [Runs -> StopRow]
    BY DEF Typed
  <2>3. ASSUME NEW r \in Runs, CancelAsk(r)
        PROVE  stop' \in [Runs -> StopRow]
    BY <2>2, <2>3 DEF CancelAsk, StopRow
  <2>4. ASSUME NEW r \in Runs, CancelRow(r)
        PROVE  stop' \in [Runs -> StopRow]
    <3>1. \E ok \in BOOLEAN : stop' = [stop EXCEPT ![r] = [pc |-> "clean", ok |-> ok]]
      BY <2>4 DEF CancelRow
    <3> QED
      BY <2>2, <3>1 DEF StopRow
  <2>5. ASSUME NEW r \in Runs, CancelChildren(r) \/ CancelAnswer(r)
        PROVE  stop' \in [Runs -> StopRow]
    <3>1. \E pc \in {"no", "again", "answer"}, ok \in {TRUE, stop[r].ok} :
             stop' = [stop EXCEPT ![r] = [pc |-> pc, ok |-> ok]]
      <4>1. stop[r] \in StopRow
        BY <2>2
      <4>2. \A pc \in {"again", "answer"} : [stop[r] EXCEPT !.pc = pc] = [pc |-> pc, ok |-> stop[r].ok]
        BY <4>1 DEF StopRow
      <4>3. \/ \E pc \in {"again", "answer"} : stop' = [stop EXCEPT ![r] = [stop[r] EXCEPT !.pc = pc]]
            \/ stop' = [stop EXCEPT ![r] = [pc |-> "no", ok |-> TRUE]]
        BY <2>2, <2>5 DEF CancelChildren, CancelAnswer
      <4> QED
        BY <4>2, <4>3
    <3>2. stop[r].ok \in BOOLEAN
      BY <2>2 DEF StopRow
    <3>3. PICK pc \in {"no", "again", "answer"}, ok \in {TRUE, stop[r].ok} :
             stop' = [stop EXCEPT ![r] = [pc |-> pc, ok |-> ok]]
      BY <3>1
    <3>4. [pc |-> pc, ok |-> ok] \in StopRow
      BY <3>2, <3>3 DEF StopRow
    <3> QED
      BY <2>2, <3>3, <3>4
  <2>6. CASE Restart
    BY <2>6 DEF Restart, StopRow
  <2> QED
    BY <2>1, <2>2, <2>3, <2>4, <2>5, <2>6 DEF StopWrite, CancelStep
<1>4. out' \in [Principals -> OutRow]
  <2>1. UNCHANGED out \/ OutWrite
    BY Writers
  <2>2. out \in [Principals -> OutRow]
    BY DEF Typed
  <2>3. ASSUME NEW p \in Principals, SignOut(p)
        PROVE  out' \in [Principals -> OutRow]
    <3>1. {r \in RunsOf(p) : worker[r] # "no" \/ Owed(r)} \in SUBSET Runs
      BY DEF RunsOf
    <3> QED
      BY <2>2, <2>3, <3>1 DEF SignOut, OutRow
  <2>4. ASSUME NEW p \in Principals, SignOutChildren(p) \/ SignOutPause(p)
        PROVE  out' \in [Principals -> OutRow]
    BY <2>2, <2>4 DEF SignOutChildren, SignOutPause, OutRow
  <2>5. ASSUME NEW p \in Principals, SignOutClean(p)
        PROVE  out' \in [Principals -> OutRow]
    <3>1. out[p] \in OutRow
      BY <2>2
    <3>2. CASE out' = [out EXCEPT ![p] = [pc |-> "no", runs |-> {}, ok |-> TRUE]]
      BY <2>2, <3>2 DEF OutRow
    <3>3. ASSUME NEW r \in out[p].runs, NEW ok \in BOOLEAN,
                 out' = [out EXCEPT ![p].runs = @ \ {r}, ![p].ok = ok]
          PROVE  out' \in [Principals -> OutRow]
      <4> DEFINE a == [out[p] EXCEPT !.runs = @ \ {r}, !.ok = ok]
      <4>1. out' = [out EXCEPT ![p] = a]
        BY <2>2, <3>3
      <4>2. a \in OutRow
        BY <3>1 DEF OutRow
      <4> HIDE DEF a
      <4> QED
        BY <2>2, <4>1, <4>2
    <3>4. \/ out' = [out EXCEPT ![p] = [pc |-> "no", runs |-> {}, ok |-> TRUE]]
          \/ \E r \in out[p].runs : \E ok \in BOOLEAN : out' = [out EXCEPT ![p].runs = @ \ {r}, ![p].ok = ok]
      BY <2>5, <3>1 DEF SignOutClean, OutRow
    <3> QED
      BY <3>2, <3>3, <3>4
  <2>6. CASE Restart
    BY <2>6 DEF Restart, OutRow
  <2> QED
    BY <2>1, <2>2, <2>3, <2>4, <2>5, <2>6 DEF OutWrite, SignOutStep
<1>5. session' \subseteq Principals
  <2>1. UNCHANGED session \/ SessionWrite
    BY Writers
  <2> QED
    BY <2>1 DEF Typed, SessionWrite, SignOut, SignIn
<1>6. quiet' \subseteq Runs
  <2>1. UNCHANGED quiet \/ QuietWrite
    BY Writers
  <2>2. quiet \subseteq Runs
    BY DEF Typed
  <2>3. ASSUME NEW p \in Principals, SignOutStep(p)
        PROVE  quiet' \subseteq Runs
    <3>1. quiet' \subseteq quiet \cup RunsOf(p)
      BY <2>3 DEF SignOutStep, SignOutChildren, SignOutPause, SignOutClean
    <3> QED
      BY <2>2, <3>1 DEF RunsOf
  <2>4. ASSUME NEW r \in Runs, CancelStep(r)
        PROVE  quiet' \subseteq Runs
    BY <2>2, <2>4 DEF CancelStep, CancelRow, CancelChildren, CancelAnswer
  <2> QED
    BY <2>1, <2>2, <2>3, <2>4 DEF QuietWrite, RetryCommit, UserResumes
<1>7. linked' \subseteq Jobs
  <2>1. linked' = linked \/ \E r \in Runs, s \in Providers : WorkAttach(r, s)
    BY Writers
  <2>2. ASSUME NEW r \in Runs, NEW s \in Providers, WorkAttach(r, s)
        PROVE  linked' \subseteq linked \cup {Child(r, s)} /\ Child(r, s) \in Jobs
    BY <2>2, TrackedIsJob DEF WorkAttach, At, TrackingPc
  <2> QED
    BY <2>1, <2>2 DEF Typed
<1>8. accepted' \in BOOLEAN
  BY Writers DEF Typed
<1> QED
  BY <1>1, <1>2, <1>3, <1>4, <1>5, <1>6, <1>7, <1>8

(* The first part of the inductive invariant.                               *)
StateInv == BaseInv /\ DbInv

LEMMA StateInit ==
  ASSUME SyncInit
  PROVE  StateInv
<1> USE DEF SyncInit
<1>1. 0 \in 0..MaxAttempts /\ 1 \in 1..MaxAttempts
  BY SyncAssumption
<1>2. RefreshTypeOK
  BY DEF RefreshInit, RefreshTypeOK, JobStatus, ExecState
<1>3. run \in [Runs -> RunRow] /\ src \in [Runs -> [Sources -> SourceRow]] /\ work \in [Runs -> [Providers -> WorkRow]]
  BY <1>1, IdleIsHonest DEF RunRow, SourceRow, SourceStatus, Absent
<1>4. request \in [Requests -> RequestRow] /\ RequestInv
  <2>1. NoRequest \in RequestRow /\ NoRequest.pc = "idle" /\ NoRequest.kind = "none"
    BY NoRequestIsHonest DEF HonestRequest, NoRequest
  <2> QED
    BY <2>1 DEF RequestInv, PreparingPc
<1>5. stop \in [Runs -> StopRow] /\ out \in [Principals -> OutRow] /\ view \in ViewRow /\ ViewInv
  BY <1>1 DEF StopRow, OutRow, ViewRow, ViewInv, NoView, JobStatus
<1>6. /\ kids \in [Runs -> SUBSET Jobs] /\ dirty \in [Runs -> SUBSET Jobs]
      /\ \A r \in Runs : dirty[r] \subseteq kids[r]
      /\ ctl \in [Runs -> Reason] /\ worker \in [Runs -> {"no", "work", "auto", "catch", "finish"}]
  BY DEF Reason
<1>7. Typed
  BY <1>2, <1>3, <1>4, <1>5, <1>6 DEF Typed
<1>8. \A r \in Runs, s \in Sources : src[r][s] = Absent
  OBVIOUS
<1>9. WorkInv /\ SourceInv
  BY <1>8 DEF WorkInv, SourceInv, Idle, Absent, TrackingPc, Sources
<1>10. ClosedInv
  <2>1. \A r \in Runs : StatusesOf(src[r]) = {} /\ run[r].status = "none"
    BY <1>8 DEF StatusesOf, Absent
  <2>2. \A r \in Runs : \A s \in Usage : src[r][s].status = "absent"
    BY <1>8 DEF Absent, Sources
  <2> QED
    BY <2>1, <2>2 DEF ClosedInv, Settled
<1>11. SavedMeansPublished
  BY <1>8 DEF SavedMeansPublished, Absent, Sources
<1> QED
  BY <1>2, <1>3, <1>4, <1>5, <1>7, <1>9, <1>10, <1>11 DEF StateInv, BaseInv, DbInv

LEMMA StateNext ==
  ASSUME StateInv, Next
  PROVE  StateInv' /\ RowsGoOn
<1>1. BaseInv /\ DbInv /\ Typed /\ WorkInv /\ SourceInv /\ RequestInv /\ ViewInv /\ RefreshTypeOK
  BY DEF StateInv, BaseInv, Typed
<1>2. RefreshStep /\ TrackStep
  BY <1>1, RefreshSteps
<1>3. RefreshTypeOK' /\ RowsGoOn
  BY <1>1, <1>2, RefreshKeeps
<1>4. DbInv'
  BY <1>1, <1>3, DbKeeps
<1>5. Typed'
  BY <1>1, <1>2, <1>3, <1>4, TrackKeeps, WorkKeeps, RequestKeeps, ViewKeeps, RestKeeps
     DEF Typed, DbInv
<1>6. WorkInv' /\ RequestInv' /\ ViewInv'
  BY <1>1, <1>3, WorkKeeps, RequestKeeps, ViewKeeps
<1> QED
  BY <1>3, <1>4, <1>5, <1>6 DEF StateInv, BaseInv, DbInv

LEMMA StateStutters ==
  ASSUME StateInv, UNCHANGED syncVars
  PROVE  StateInv'
<1> USE DEF syncVars
<1>1. Typed'
  BY DEF StateInv, BaseInv, Typed, RefreshTypeOK
<1>2. WorkInv' /\ SourceInv' /\ RequestInv' /\ ViewInv'
  BY DEF StateInv, BaseInv, WorkInv, SourceInv, RequestInv, ViewInv, SeenOf, Submitted
<1>3. ClosedInv'
  BY ClosedAfter DEF StateInv, DbInv, ClosedInv
<1>4. SavedMeansPublished'
  BY DEF StateInv, DbInv, SavedMeansPublished
<1> QED
  BY <1>1, <1>2, <1>3, <1>4 DEF StateInv, BaseInv, DbInv, Typed

LEMMA StateHolds == Spec => []StateInv
<1>1. SyncInit => StateInv
  BY StateInit
<1>2. StateInv /\ [Next]_syncVars => StateInv'
  BY StateNext, StateStutters
<1> QED
  BY <1>1, <1>2, PTL DEF Spec

(* The variables of the coordinator and of the refresh jobs keep their types, *)
(* and a child whose clean-up failed stays tracked.                          *)
THEOREM SyncTypes == Spec => []SyncTypeOK
<1>1. StateInv => SyncTypeOK
  BY DEF StateInv, BaseInv, Typed, SyncTypeOK, RunRow, SourceRow, SourceStatus, Reason
<1> QED
  BY <1>1, StateHolds, PTL

(* Of every run, whichever of the transactions that write it came last: when *)
(* it has ended no source of it is open, when it is complete every source it *)
(* asked for is saved, and a source reads as saved only if the job it shows  *)
(* published (services/dataSync.ts, db/dataSync.ts).                         *)
THEOREM RunsAreHonest == Spec => []HonestRuns
<1>1. StateInv => HonestRuns
  <2>1. ASSUME StateInv
        PROVE  ClosedRunIsSettled
    BY <2>1 DEF StateInv, DbInv, ClosedInv, Settled, ClosedRunIsSettled, RunActive
  <2> QED
    BY <2>1 DEF StateInv, DbInv, HonestRuns
<1> QED
  BY <1>1, StateHolds, PTL

-----------------------------------------------------------------------------
(* A cancelled run                                                          *)

(* It stays as it is, or a retry of it opens sources.                       *)
LEMMA CancelledKeeps ==
  ASSUME StateInv, Next, NEW r \in Runs, run[r].status = "cancelled"
  PROVE  \/ run'[r].status = "cancelled" /\ src'[r] = src[r]
         \/ \E S \in SUBSET Sources, auto \in BOOLEAN : MayOpen(r, S, auto) /\ Queue(r, S, auto)
<1> DEFINE Goal == \/ run'[r].status = "cancelled" /\ src'[r] = src[r]
                   \/ \E S \in SUBSET Sources, auto \in BOOLEAN : MayOpen(r, S, auto) /\ Queue(r, S, auto)
<1>1. /\ BaseInv /\ ClosedInv /\ ~RunActive(r)
      /\ src \in [Runs -> [Sources -> SourceRow]] /\ run \in [Runs -> RunRow]
      /\ \A s \in Sources : src[r][s] \in SourceRow
      /\ \A s \in Sources : src[r][s].status \in {"absent", "succeeded", "cancelled"}
  <2>1. StatusesOf(src[r]) \subseteq {"cancelled", "succeeded"}
    BY DEF StateInv, DbInv, ClosedInv, Settled
  <2> QED
    BY <2>1 DEF StateInv, DbInv, RunActive, StatusesOf
<1>2. ASSUME NEW x \in Runs, NEW f \in [Sources -> SourceRow], Moves(x, f), SetSources(x, f)
      PROVE  Goal
  <2>1. src' = [src EXCEPT ![x] = f] /\ run' = [run EXCEPT ![x].status = Finalized(x, f)]
    BY <1>2 DEF SetSources
  <2>2. CASE x # r
    BY <1>1, <2>1, <2>2
  <2>3. CASE x = r
    <3>1. \A s \in Sources : f[s] = src[r][s]
      BY <1>1, <1>2, <2>3 DEF Moves, MayMove
    <3>2. f = src[r]
      BY <1>1, <3>1
    <3>3. Finalized(r, f) = "cancelled"
      BY <1>1 DEF Finalized
    <3> QED
      BY <1>1, <2>1, <2>3, <3>2, <3>3 DEF RunRow
  <2> QED
    BY <2>2, <2>3
<1>3. ASSUME NEW x \in Runs, NEW s \in Providers, WorkAttach(x, s)
      PROVE  Goal
  <2>1. UNCHANGED run
    BY <1>3 DEF WorkAttach
  <2>2. src'[r] = src[r]
    BY <1>1, <1>3 DEF WorkAttach
  <2> QED
    BY <2>1, <2>2
<1>4. ASSUME NEW x \in Runs, NEW S \in SUBSET Sources, NEW auto \in BOOLEAN, MayOpen(x, S, auto), Queue(x, S, auto)
      PROVE  Goal
  <2>1. x # r => run'[r] = run[r] /\ src'[r] = src[r]
    BY <1>1, <1>4 DEF Queue
  <2> QED
    BY <1>4, <2>1
<1>5. ASSUME NEW R \in SUBSET Runs, PauseRuns(R)
      PROVE  Goal
  BY <1>1, <1>5 DEF PauseRuns
<1>6. ASSUME NEW x \in Runs, CancelRow(x)
      PROVE  Goal
  <2> DEFINE f(y) == [s \in Sources |-> IF src[y][s].status \in {"absent", "succeeded"} THEN src[y][s]
                                        ELSE [src[y][s] EXCEPT !.status = "cancelled"]]
  <2>1. UNCHANGED src \/ src' = [src EXCEPT ![x] = f(x)]
    BY <1>6 DEF CancelRow
  <2>2. src'[r] \in {src[r], f(r)}
    BY <1>1, <2>1
  <2>5. run'[r].status = "cancelled"
    BY <1>1, <1>6 DEF CancelRow, RunRow
  <2>3. ASSUME NEW s \in Sources
        PROVE  f(r)[s] = src[r][s]
    <3>1. f(r)[s] = IF src[r][s].status \in {"absent", "succeeded"} THEN src[r][s]
                    ELSE [src[r][s] EXCEPT !.status = "cancelled"]
      OBVIOUS
    <3>2. src[r][s].status = "cancelled" => [src[r][s] EXCEPT !.status = "cancelled"] = src[r][s]
      BY <1>1 DEF SourceRow
    <3> HIDE DEF f
    <3> QED
      BY <1>1, <3>1, <3>2
  <2>4. f(r) = src[r]
    <3>1. f(r) = [s \in Sources |-> f(r)[s]]
      OBVIOUS
    <3> HIDE DEF f
    <3> QED
      BY <1>1, <2>3, <3>1
  <2> QED
    BY <2>2, <2>4, <2>5
<1>7. CASE Restart
  <2> DEFINE left(y) == [s \in Sources |-> IF RunActive(y) /\ s \in Providers /\ src[y][s].status \in Open
                                           THEN [src[y][s] EXCEPT !.status = "waiting"] ELSE src[y][s]]
  <2>1. src' = [y \in Runs |-> left(y)]
    BY <1>7 DEF Restart
  <2>2. left(r) = [s \in Sources |-> src[r][s]]
    BY <1>1
  <2>3. run'[r] = run[r]
    BY <1>1, <1>7 DEF Restart
  <2> QED
    BY <1>1, <2>1, <2>2, <2>3
<1>9. ASSUME NEW x \in Runs, run' = [run EXCEPT ![x].status = FinishedRun(x)], UNCHANGED src
      PROVE  Goal
  BY <1>1, <1>9 DEF FinishedRun, RunRow
<1>10. ASSUME UNCHANGED <<run, src>>
       PROVE  Goal
  BY <1>10
<1>8. DbStep
  BY <1>1, DbSteps
<1> HIDE DEF Goal
<1> QED
  BY <1>2, <1>3, <1>4, <1>5, <1>6, <1>7, <1>8, <1>9, <1>10 DEF DbStep, Goal

LEMMA CancelledStays ==
  ASSUME StateInv, Next, NEW r \in Runs, run[r].status = "cancelled", src'[r] # src[r]
  PROVE  \E s \in Sources : src'[r][s].attempt > src[r][s].attempt
<1>1. /\ src \in [Runs -> [Sources -> SourceRow]] /\ \A s \in Sources : src[r][s] \in SourceRow
  BY DEF StateInv, DbInv
<1>2. PICK S \in SUBSET Sources, auto \in BOOLEAN : MayOpen(r, S, auto) /\ Queue(r, S, auto)
  BY CancelledKeeps
<1> DEFINE f == [s \in Sources |-> IF s \in S THEN [status |-> "queued", job |-> 0,
                      attempt |-> IF src[r][s].status = "absent" THEN 1 ELSE src[r][s].attempt + 1]
                      ELSE src[r][s]]
<1>3. src' = [src EXCEPT ![r] = f]
  BY <1>2 DEF Queue
<1>4. src'[r] = f
  BY <1>1, <1>3
<1>5. S # {} /\ \A s \in S : src[r][s].status \in Retryable
  BY <1>2 DEF MayOpen
<1>6. PICK s \in S : s \in Sources /\ src[r][s].status # "absent" /\ src[r][s].attempt \in 1..MaxAttempts
  BY <1>1, <1>5 DEF Retryable, SourceRow
<1>7. f[s].attempt = src[r][s].attempt + 1
  BY <1>6
<1> HIDE DEF f
<1> QED
  BY <1>4, <1>6, <1>7

(* A run that was cancelled changes again only when a retry opens a new      *)
(* attempt of a source: no late write of its worker, of a status read, of a  *)
(* child that publishes, of a restart or of a sign-out reaches it.           *)
THEOREM CancelledRunsStay == Spec => CancelledIsFinal
<1> DEFINE Act == \A r \in Runs : run[r].status = "cancelled" /\ src'[r] # src[r]
                                    => \E s \in Sources : src'[r][s].attempt > src[r][s].attempt
<1>1. StateInv /\ [Next]_syncVars => [Act]_syncVars
  BY CancelledStays
<1>2. CancelledIsFinal <=> [][Act]_syncVars
  BY DEF CancelledIsFinal
<1> HIDE DEF Act
<1> QED
  BY <1>1, <1>2, StateHolds, PTL DEF Spec

-----------------------------------------------------------------------------
(* The inductive invariant, second part: what the admissions, cancellations *)
(* and sign-outs in progress know of each other.                            *)

(* Request q is about run r.                                                *)
On(q, r) == request[q].pc # "idle" /\ request[q].run = r
Retries(q) == request[q].kind = "retry"
Undisturbed(q) == request[q].why = "none"
Halting(r) == stop[r].pc # "no" \/ out[OwnerOf[r]].pc # "no"

(* An account has one active run.                                           *)
ActiveInv == \A x, y \in Runs : RunActive(x) /\ RunActive(y) /\ OwnerOf[x] = OwnerOf[y] => x = y

(* Who works on a run, stops it or asks for it has a run that exists.       *)
ExistInv ==
  \A r \in Runs :
    /\ worker[r] # "no" => run[r].status # "none"
    /\ stop[r].pc # "no" => run[r].status # "none"
    /\ \A q \in Requests : On(q, r) => run[r].status # "none"

(* While a sign-out is in progress every request of the account is aborted. *)
OutInv ==
  \A p \in Principals : out[p].pc # "no" =>
    /\ p \notin session
    /\ \A q \in Requests : request[q].pc # "idle" /\ request[q].who = p => ~Undisturbed(q)

(* A run that is being stopped has no request and no worker that would go   *)
(* on; and only those of such a run are aborted.                            *)
HaltInv ==
  \A r \in Runs :
    /\ Halting(r) => /\ \A q \in Requests : On(q, r) => ~Undisturbed(q)
                     /\ worker[r] # "no" => ~Current(r)
    /\ \A q \in Requests : On(q, r) /\ ~Undisturbed(q) => stop[r].pc = "row" \/ out[OwnerOf[r]].pc # "no"

(* A source that no worker has taken up.                                    *)
Untouched(r, s) == src[r][s].job = 0 /\ src[r][s].attempt = 1

(* A request that has created a run and not yet launched it finds the run as *)
(* it created it; a retry of it has found nothing to retry.                 *)
LaunchInv ==
  \A q \in Requests, r \in Runs :
    On(q, r) /\ request[q].pc = "launch" /\ ~Retries(q) /\ Undisturbed(q) =>
      /\ worker[r] = "no"
      /\ \A s \in Providers : Untouched(r, s) /\ src[r][s].status \in {"absent", "queued"}
      /\ \E s \in Providers : src[r][s].status = "queued"
      /\ \A s \in Usage : src[r][s].status \notin Retryable
      /\ \A s \in Providers : s \in request[q].sel => src[r][s].status = "queued"
      /\ \A o \in Requests : o # q /\ On(o, r) => Retries(o) /\ request[o].pc \in {"clean", "prepare"}

(* One retry of a run at a time.                                            *)
RetryInv == \A q, o \in Requests, r \in Runs : On(q, r) /\ On(o, r) /\ Retries(q) /\ Retries(o) => q = o

(* A status read that has seen a job saw one of a source that had one.      *)
SeenInv == view.pc = "write" => ~Untouched(view.run, view.source)

(* A source about to be submitted, or just submitted, is still collected by *)
(* the attempt its worker knows: a retry that runs meanwhile will not take it. *)
Retrying(r) == \E q \in Requests : On(q, r) /\ Retries(q) /\ Undisturbed(q) /\ request[q].pc \in PreparingPc

SubmitInv ==
  \A r \in Runs, s \in Providers :
    worker[r] = "work" /\ Current(r) /\ work[r][s].pc \in {"submit", "attach"} =>
      /\ work[r][s].pc = "attach" => work[r][s].job = src[r][s].attempt
      /\ Retrying(r) => Untouched(r, s) /\ src[r][s].status = "queued"

AdmitInv == ActiveInv /\ ExistInv /\ OutInv /\ HaltInv /\ LaunchInv /\ RetryInv /\ SeenInv /\ SubmitInv

-----------------------------------------------------------------------------
(* What a step does to the status of a run, and to a source                 *)

(* A run goes on existing; it becomes active while no other of the account is. *)
LEMMA StatusSteps ==
  ASSUME StateInv, Next, NEW r \in Runs
  PROVE  /\ run[r].status # "none" => run'[r].status # "none"
         /\ run'[r].status \in {"running", "waiting"} =>
              \/ RunActive(r)
              \/ /\ ActiveRunsOf(OwnerOf[r]) \subseteq {r}
                 /\ \A x \in Runs \ {r} : run'[x] = run[x]
<1> DEFINE Goal == /\ run[r].status # "none" => run'[r].status # "none"
                   /\ run'[r].status \in {"running", "waiting"} =>
                        \/ RunActive(r)
                        \/ /\ ActiveRunsOf(OwnerOf[r]) \subseteq {r}
                           /\ \A x \in Runs \ {r} : run'[x] = run[x]
<1>1. /\ run \in [Runs -> RunRow] /\ run[r] \in RunRow
      /\ \A x \in Runs : run[x].status \in {"none", "running", "waiting", "completed", "partial", "cancelled"}
  BY DEF StateInv, BaseInv, Typed, RunRow
<1>a. ASSUME run'[r].status = run[r].status
             \/ (RunActive(r) /\ run'[r].status # "none")
             \/ run'[r].status \notin {"running", "waiting", "none"}
      PROVE  Goal
  BY <1>a DEF RunActive
<1>b. ASSUME NEW x \in Runs, NEW status, run' = [run EXCEPT ![x].status = status],
             status = run[x].status \/ (RunActive(x) /\ status # "none") \/ status \notin {"running", "waiting", "none"}
      PROVE  Goal
  <2>1. x # r => run'[r] = run[r]
    BY <1>1, <1>b
  <2>2. x = r => run'[r].status = status
    BY <1>1, <1>b DEF RunRow
  <2> HIDE DEF Goal
  <2> QED
    BY <1>a, <1>b, <2>1, <2>2
<1>2. ASSUME UNCHANGED <<run, src>>
      PROVE  Goal
  BY <1>2, <1>a
<1>3. ASSUME NEW x \in Runs, NEW f \in [Sources -> SourceRow], Moves(x, f), SetSources(x, f)
      PROVE  Goal
  <2>1. Outcome(f) \in {"running", "waiting", "completed", "partial", "cancelled"}
    BY OutcomeSettles
  <2>2. \/ Finalized(x, f) = run[x].status
        \/ RunActive(x) /\ Finalized(x, f) # "none"
        \/ Finalized(x, f) \notin {"running", "waiting", "none"}
    BY <2>1 DEF Finalized
  <2>3. run' = [run EXCEPT ![x].status = Finalized(x, f)]
    BY <1>3 DEF SetSources
  <2> HIDE DEF Goal
  <2> QED
    BY <1>b, <2>2, <2>3
<1>4. ASSUME NEW x \in Runs, NEW s \in Providers, WorkAttach(x, s)
      PROVE  Goal
  BY <1>4, <1>a DEF WorkAttach
<1>5. ASSUME NEW x \in Runs, NEW S \in SUBSET Sources, NEW auto \in BOOLEAN, MayOpen(x, S, auto), Queue(x, S, auto)
      PROVE  Goal
  <2>1. run' = [run EXCEPT ![x] = [status |-> "running", auto |-> auto]] /\ ActiveRunsOf(OwnerOf[x]) \subseteq {x}
    BY <1>5 DEF MayOpen, Queue
  <2>2. CASE x = r
    BY <1>1, <2>1, <2>2
  <2>3. CASE x # r
    <3>1. run'[r] = run[r]
      BY <1>1, <2>1, <2>3
    <3> QED
      BY <3>1, <1>a
  <2> QED
    BY <2>2, <2>3
<1>6. ASSUME NEW R \in SUBSET Runs, PauseRuns(R)
      PROVE  Goal
  <2>1. run'[r] = run[r] \/ (RunActive(r) /\ \E status \in {"partial", "waiting", run[r].status} : run'[r] = [run[r] EXCEPT !.status = status])
    BY <1>6 DEF PauseRuns
  <2>2. run'[r].status = run[r].status \/ (RunActive(r) /\ run'[r].status \in {"partial", "waiting", run[r].status})
    BY <1>1, <2>1 DEF RunRow
  <2> QED
    BY <2>2, <1>a DEF RunActive
<1>7. ASSUME NEW x \in Runs, run' = [run EXCEPT ![x].status = FinishedRun(x)]
      PROVE  Goal
  <2>1. Outcome(src[x]) \in {"running", "waiting", "completed", "partial", "cancelled"}
    BY OutcomeSettles
  <2>2. FinishedRun(x) = run[x].status \/ (RunActive(x) /\ FinishedRun(x) # "none")
    BY <2>1 DEF FinishedRun
  <2> HIDE DEF Goal
  <2> QED
    BY <1>b, <1>7, <2>2
<1>8. ASSUME NEW x \in Runs, CancelRow(x)
      PROVE  Goal
  <2>1. run' = run \/ run' = [run EXCEPT ![x].status = "cancelled"]
    BY <1>8 DEF CancelRow
  <2>2. run' = run => Goal
    BY <1>a
  <2> HIDE DEF Goal
  <2> QED
    BY <1>b, <2>1, <2>2
<1>9. ASSUME Restart
      PROVE  Goal
  <2>1. run'[r] = run[r] \/ (RunActive(r) /\ \E status \in {"partial", "waiting"} : run'[r] = [run[r] EXCEPT !.status = status])
    BY <1>9 DEF Restart
  <2>2. run'[r].status = run[r].status \/ (RunActive(r) /\ run'[r].status \in {"partial", "waiting"})
    BY <1>1, <2>1 DEF RunRow
  <2> QED
    BY <2>2, <1>a
<1>10. DbStep
  BY DbSteps DEF StateInv
<1> QED
  <2> HIDE DEF Goal
  <2>1. Goal
    BY <1>2, <1>3, <1>4, <1>5, <1>6, <1>7, <1>8, <1>9, <1>10 DEF DbStep
  <2> QED
    BY <2>1 DEF Goal

(* The job and the attempt of a source change when it moves to its first     *)
(* job, when its worker attaches one, and when it is opened.                 *)
Kept(r, s) == src'[r][s].job = src[r][s].job /\ src'[r][s].attempt = src[r][s].attempt
Moved(r, s) ==
  /\ src[r][s].job = 0 /\ Submitted(r, s, src'[r][s].job) /\ src'[r][s].attempt = src[r][s].attempt
  /\ <<r, s, src'[r][s].job>> \in linked => src'[r][s].job = src[r][s].attempt
Attached(r, s) == /\ Current(r) /\ work[r][s].job # 0
                  /\ src'[r][s].job = work[r][s].job /\ src'[r][s].attempt = src[r][s].attempt
Opened(r, s) ==
  /\ src'[r][s].job = 0
  /\ \/ src[r][s] = Absent /\ run[r].status = "none"
     \/ /\ src[r][s].status \in Retryable /\ src'[r][s].attempt = src[r][s].attempt + 1
        /\ \E q \in Requests : RetryCommit(q) /\ request[q].run = r

LEMMA SourceSteps ==
  ASSUME StateInv, Next, NEW r \in Runs, NEW s \in Providers
  PROVE  Kept(r, s) \/ Moved(r, s) \/ (WorkAttach(r, s) /\ Attached(r, s)) \/ Opened(r, s)
<1> DEFINE Goal == Kept(r, s) \/ Moved(r, s) \/ (WorkAttach(r, s) /\ Attached(r, s)) \/ Opened(r, s)
<1>1. /\ src \in [Runs -> [Sources -> SourceRow]] /\ s \in Sources
      /\ src[r][s] \in SourceRow /\ src[r] \in [Sources -> SourceRow]
      /\ run[r].status = "none" => src[r][s] = Absent
  BY DEF StateInv, BaseInv, Typed, Sources, SourceInv
<1>a. ASSUME src'[r][s] = src[r][s] \/ \E status : src'[r][s] = [src[r][s] EXCEPT !.status = status]
      PROVE  Goal
  BY <1>1, <1>a DEF Kept, SourceRow
<1>2. ASSUME UNCHANGED <<run, src>>
      PROVE  Goal
  BY <1>2, <1>a
<1>3. ASSUME NEW x \in Runs, NEW f \in [Sources -> SourceRow], Moves(x, f), SetSources(x, f)
      PROVE  Goal
  <2>1. src' = [src EXCEPT ![x] = f]
    BY <1>3 DEF SetSources
  <2>2. CASE x = r
    <3>1. src'[r][s] = f[s] /\ (f[s] = src[r][s] \/ MayMove(r, s, f[s]))
      BY <1>1, <1>3, <2>1, <2>2 DEF Moves
    <3> QED
      BY <1>a, <3>1 DEF MayMove, Kept, Moved
  <2>3. CASE x # r
    BY <1>1, <1>a, <2>1, <2>3
  <2> QED
    BY <2>2, <2>3
<1>4. ASSUME NEW x \in Runs, NEW y \in Providers, WorkAttach(x, y)
      PROVE  Goal
  <2>1. src' = src \/ (Current(x) /\ src' = [src EXCEPT ![x][y].job = work[x][y].job])
    BY <1>4 DEF WorkAttach
  <2>2. work[x][y].job # 0
    BY <1>4 DEF WorkAttach, At, StateInv, BaseInv, WorkInv, TrackingPc
  <2>3. y \in Sources /\ src[x] \in [Sources -> SourceRow] /\ src[x][y] \in SourceRow
    BY <1>1 DEF Sources
  <2>4. CASE Current(x) /\ src' = [src EXCEPT ![x][y].job = work[x][y].job]
    <3>1. CASE x = r /\ y = s
      <4>1. src'[r][s] = [src[r][s] EXCEPT !.job = work[r][s].job]
        BY <1>1, <2>4, <3>1
      <4> QED
        BY <1>1, <1>4, <2>2, <2>4, <3>1, <4>1 DEF SourceRow, Attached
    <3>2. CASE ~(x = r /\ y = s)
      <4>1. src'[r][s] = src[r][s]
        BY <1>1, <2>3, <2>4, <3>2
      <4> QED
        BY <1>a, <4>1
    <3> QED
      BY <3>1, <3>2
  <2> QED
    BY <1>a, <2>1, <2>4
<1>5. ASSUME NEW x \in Runs, NEW S \in SUBSET Sources, NEW auto \in BOOLEAN, MayOpen(x, S, auto), Queue(x, S, auto)
      PROVE  Goal
  <2>1. CASE x = r /\ s \in S
    <3>1. src'[r][s] = [status |-> "queued", job |-> 0,
                        attempt |-> IF src[r][s].status = "absent" THEN 1 ELSE src[r][s].attempt + 1]
      BY <1>1, <1>5, <2>1 DEF Queue
    <3>2. \/ run[r].status = "none"
          \/ src[r][s].status \in Retryable /\ \E q \in Requests : RetryCommit(q) /\ request[q].run = r
      BY <1>5, <2>1 DEF MayOpen
    <3> QED
      BY <1>1, <3>1, <3>2 DEF Opened, Retryable
  <2>2. CASE x = r /\ s \notin S
    BY <1>1, <1>5, <1>a, <2>2 DEF Queue
  <2>3. CASE x # r
    BY <1>1, <1>5, <1>a, <2>3 DEF Queue
  <2> QED
    BY <2>1, <2>2, <2>3
<1>6. ASSUME NEW R \in SUBSET Runs, PauseRuns(R)
      PROVE  Goal
  <2>1. src'[r] = src[r] \/ src'[r] = [y \in Sources |-> IF y \in Providers /\ src[r][y].status \in Open
                                      THEN [src[r][y] EXCEPT !.status = "waiting"] ELSE src[r][y]]
    BY <1>6 DEF PauseRuns
  <2>2. src'[r][s] = src[r][s] \/ src'[r][s] = [src[r][s] EXCEPT !.status = "waiting"]
    BY <1>1, <2>1
  <2> QED
    BY <1>a, <2>2
<1>7. ASSUME UNCHANGED src
      PROVE  Goal
  BY <1>a, <1>7
<1>8. ASSUME NEW x \in Runs, CancelRow(x)
      PROVE  Goal
  <2> DEFINE f == [y \in Sources |-> IF src[x][y].status \in {"absent", "succeeded"} THEN src[x][y]
                                     ELSE [src[x][y] EXCEPT !.status = "cancelled"]]
  <2>1. UNCHANGED src \/ src' = [src EXCEPT ![x] = f]
    BY <1>8 DEF CancelRow
  <2>2. f[s] = src[x][s] \/ f[s] = [src[x][s] EXCEPT !.status = "cancelled"]
    BY <1>1
  <2>3. src'[r][s] = src[r][s] \/ (x = r /\ src'[r][s] = f[s])
    <3> HIDE DEF f
    <3> QED
      BY <1>1, <2>1
  <2> QED
    BY <1>a, <2>2, <2>3
<1>9. ASSUME Restart
      PROVE  Goal
  <2> DEFINE left(y) == [z \in Sources |-> IF RunActive(y) /\ z \in Providers /\ src[y][z].status \in Open
                                           THEN [src[y][z] EXCEPT !.status = "waiting"] ELSE src[y][z]]
  <2>1. src' = [y \in Runs |-> left(y)]
    BY <1>9 DEF Restart
  <2>2. src'[r][s] = left(r)[s]
    BY <2>1
  <2>3. left(r)[s] = src[r][s] \/ left(r)[s] = [src[r][s] EXCEPT !.status = "waiting"]
    BY <1>1
  <2> QED
    BY <1>a, <2>2, <2>3
<1>10. DbStep
  BY DbSteps DEF StateInv
<1> QED
  <2> HIDE DEF Goal
  <2>1. Goal
    BY <1>2, <1>3, <1>4, <1>5, <1>6, <1>7, <1>8, <1>9, <1>10 DEF DbStep
  <2> QED
    BY <2>1 DEF Goal

(* What has been taken up is not untouched again.                           *)
LEMMA TouchedStays ==
  ASSUME StateInv, Next, NEW r \in Runs, NEW s \in Providers, ~Untouched(r, s)
  PROVE  ~Untouched(r, s)'
<1>1. src[r][s] \in SourceRow /\ src[r][s].attempt \in 1..MaxAttempts /\ src[r][s] # Absent
      /\ (src[r][s].job # 0 \/ src[r][s].attempt # 1)
  BY DEF StateInv, BaseInv, Typed, Sources, SourceRow, Untouched, Absent
<1>2. src'[r][s].job # 0 \/ src'[r][s].attempt # 1
  <2>1. CASE Kept(r, s)
    BY <1>1, <2>1 DEF Kept
  <2>2. CASE Moved(r, s)
    BY <2>2 DEF Moved, Submitted
  <2>3. CASE Attached(r, s)
    BY <2>3 DEF Attached
  <2>4. CASE Opened(r, s)
    BY <1>1, <2>4, SyncAssumption DEF Opened
  <2> QED
    BY <2>1, <2>2, <2>3, <2>4, SourceSteps
<1> QED
  BY <1>2 DEF Untouched

-----------------------------------------------------------------------------
(* What a step does to a request                                            *)

Alike(q) == /\ request'[q].kind = request[q].kind /\ request'[q].who = request[q].who
            /\ request'[q].run = request[q].run
Others(q) == \A o \in Requests \ {q} : request'[o] = request[o]

(* It is left alone, or aborted by a cancellation or a sign-out.            *)
Aborting(q) ==
  \/ SignOut(request[q].who)
  \/ \E r \in Runs : /\ CancelAsk(r)
                     /\ \/ Assigned(q) = r
                        \/ Assigned(q) = "none" /\ RunActive(r) /\ request[q].who = OwnerOf[r]
Stays(q) ==
  /\ Alike(q) /\ request'[q].pc = request[q].pc /\ request'[q].sel = request[q].sel
  /\ \/ request'[q].why = request[q].why
     \/ request[q].why = "none" /\ request[q].pc # "idle" /\ request'[q].why # "none" /\ Aborting(q)

(* It answers.                                                              *)
Answers(q) == request'[q].pc = "idle"

(* It is new.                                                               *)
Asked(q) ==
  /\ request[q].pc = "idle" /\ Others(q)
  /\ request'[q].pc \in {"clean", "prepare"} /\ request'[q].why = "none" /\ request'[q].who \in session
  /\ IF request'[q].kind = "retry"
     THEN request'[q].run \in Runs /\ Admit(q, OwnerOf[request'[q].run], "retry", request'[q].run)
     ELSE request'[q].run = "none"
  /\ UNCHANGED <<run, src, worker, work, ctl, stop, out, session, view>>

(* It goes on.                                                              *)
Goes(q) ==
  /\ Alike(q) /\ Others(q) /\ request[q].why = "none" /\ request'[q].why = "none"
  /\ request[q].pc \notin {"idle", "tail", "rest"}
  /\ \/ /\ request[q].pc \in PreparingPc /\ request'[q].pc \in {"prepare", "commit"}
        /\ request'[q].pc = "commit" =>
             \/ request[q].kind = "due"
             \/ request[q].pc = "cancel" /\ RetryCancel(q) /\ request'[q].sel = request[q].sel
     \/ RetryPrepare(q) /\ request'[q].pc = "cancel"
     \/ RetryCommit(q) /\ request'[q].pc = "launch"
     \/ Launch(q) /\ request[q].pc = "launch" /\ request'[q].pc \in {"tail", "rest"}

(* It creates its run.                                                      *)
Created(q) ==
  LET r == request'[q].run
      S == request'[q].sel IN
  /\ request[q].kind # "retry" /\ request'[q].kind = request[q].kind /\ request'[q].who = request[q].who
  /\ Others(q) /\ request[q].why = "none" /\ request'[q].why = "none"
  /\ request[q].pc \in {"prepare", "commit"} /\ request'[q].pc = "launch"
  /\ r \in Runs /\ OwnerOf[r] = request[q].who /\ run[r].status = "none"
  /\ S \subseteq Sources /\ S \cap Providers # {}
  /\ \E auto \in BOOLEAN : Queue(r, S, auto)
  /\ UNCHANGED <<worker, work, ctl, stop, out, session, view>>

LEMMA RequestSteps ==
  ASSUME StateInv, Next, NEW q \in Requests
  PROVE  Stays(q) \/ Answers(q) \/ Asked(q) \/ Goes(q) \/ Created(q)
<1> DEFINE Goal == Stays(q) \/ Answers(q) \/ Asked(q) \/ Goes(q) \/ Created(q)
<1>a. /\ request \in [Requests -> RequestRow] /\ request[q] \in RequestRow
      /\ NoRequest.pc = "idle" /\ NoRequest \in RequestRow
      /\ request[q].pc = "cancel" => request[q].kind = "retry"
  BY NoRequestIsHonest DEF StateInv, BaseInv, Typed, NoRequest, RequestInv, HonestRequest
<1>s. ASSUME request'[q] = request[q]
      PROVE  Goal
  BY <1>s DEF Stays, Alike
<1>b. ASSUME NEW x \in Requests, NEW b, request' = [request EXCEPT ![x] = b]
      PROVE  /\ x # q => request'[q] = request[q]
             /\ x = q => request'[q] = b /\ Others(q)
  BY <1>a, <1>b DEF Others
<1>c. ASSUME NEW x \in Requests, Answer(x)
      PROVE  Goal
  <2>1. request' = [request EXCEPT ![x] = NoRequest]
    BY <1>c DEF Answer
  <2>2. x # q => request'[q] = request[q]
    BY <1>b, <2>1
  <2>3. x = q => request'[q] = NoRequest
    BY <1>b, <2>1
  <2> QED
    BY <1>a, <1>s, <2>2, <2>3 DEF Answers
<1>d. ASSUME NEW x \in Requests, NEW pc, Step(x, pc)
      PROVE  /\ x # q => request'[q] = request[q]
             /\ x = q => /\ Alike(q) /\ Others(q) /\ request'[q].pc = pc
                         /\ request'[q].sel = request[q].sel /\ request'[q].why = request[q].why
  <2> DEFINE b == [request[x] EXCEPT !.pc = pc]
  <2>1. request' = [request EXCEPT ![x] = b]
    BY <1>a, <1>d DEF Step
  <2>2. x = q => /\ b.pc = pc /\ b.kind = request[q].kind /\ b.who = request[q].who /\ b.run = request[q].run
                 /\ b.sel = request[q].sel /\ b.why = request[q].why
    BY <1>a DEF RequestRow
  <2> HIDE DEF b
  <2>3. x # q => request'[q] = request[q]
    BY <1>b, <2>1
  <2>4. x = q => request'[q] = b /\ Others(q)
    BY <1>b, <2>1
  <2> QED
    BY <2>2, <2>3, <2>4 DEF Alike
<1>1. ASSUME NEW x \in Requests, NEW p \in Principals, NEW kind \in {"start", "due"}, Admit(x, p, kind, "none")
      PROVE  Goal
  <2>1. PICK pc \in {"prepare", "clean"} : request' = [request EXCEPT ![x] =
           [NoRequest EXCEPT !.pc = pc, !.kind = kind, !.who = p, !.run = "none"]]
    BY <1>1 DEF Admit
  <2> DEFINE b == [NoRequest EXCEPT !.pc = pc, !.kind = kind, !.who = p, !.run = "none"]
  <2>2. request' = [request EXCEPT ![x] = b]
    BY <2>1
  <2>3. b.pc = pc /\ b.kind = kind /\ b.who = p /\ b.run = "none" /\ b.why = "none"
    BY DEF NoRequest
  <2> HIDE DEF b
  <2>4. x # q => request'[q] = request[q]
    BY <1>b, <2>2
  <2>5. x = q => request'[q] = b /\ Others(q)
    BY <1>b, <2>2
  <2>6. x = q => Asked(q)
    BY <1>1, <2>3, <2>5 DEF Admit, Asked, Asking
  <2> QED
    BY <1>s, <2>4, <2>6
<1>2. ASSUME NEW x \in Requests, NEW r \in Runs, Admit(x, OwnerOf[r], "retry", r)
      PROVE  Goal
  <2>1. PICK pc \in {"prepare", "clean"} : request' = [request EXCEPT ![x] =
           [NoRequest EXCEPT !.pc = pc, !.kind = "retry", !.who = OwnerOf[r], !.run = r]]
    BY <1>2 DEF Admit
  <2> DEFINE b == [NoRequest EXCEPT !.pc = pc, !.kind = "retry", !.who = OwnerOf[r], !.run = r]
  <2>2. request' = [request EXCEPT ![x] = b]
    BY <2>1
  <2>3. b.pc = pc /\ b.kind = "retry" /\ b.who = OwnerOf[r] /\ b.run = r /\ b.why = "none"
    BY DEF NoRequest
  <2> HIDE DEF b
  <2>4. x # q => request'[q] = request[q]
    BY <1>b, <2>2
  <2>5. x = q => request'[q] = b /\ Others(q)
    BY <1>b, <2>2
  <2>7. /\ x \notin Asking /\ OwnerOf[r] \in session
        /\ UNCHANGED <<run, src, worker, work, ctl, stop, out, session, view>>
    BY <1>2 DEF Admit
  <2>6. x = q => Asked(q)
    BY <1>2, <2>3, <2>5, <2>7 DEF Asked, Asking
  <2> QED
    BY <1>s, <2>4, <2>6
<1>3. ASSUME NEW x \in Requests, Refuse(x) \/ Tail(x)
      PROVE  Goal
  BY <1>3, <1>c DEF Refuse, Tail
<1>4. ASSUME NEW x \in Requests, AdmitClean(x)
      PROVE  Goal
  <2>1. UNCHANGED request \/ Answer(x) \/ (Step(x, "prepare") /\ request[x].pc = "clean" /\ request[x].why = "none")
    BY <1>4 DEF AdmitClean
  <2>2. Step(x, "prepare") /\ request[x].pc = "clean" /\ request[x].why = "none" => Goal
    BY <1>d, <1>s DEF Goes, PreparingPc
  <2> QED
    BY <1>c, <1>s, <2>1, <2>2
<1>5. ASSUME NEW x \in Requests, DuePrepare(x)
      PROVE  Goal
  <2>1. Answer(x) \/ (Step(x, "commit") /\ request[x].pc = "prepare" /\ request[x].kind = "due" /\ request[x].why = "none")
    BY <1>5 DEF DuePrepare
  <2>2. Step(x, "commit") /\ request[x].pc = "prepare" /\ request[x].kind = "due" /\ request[x].why = "none" => Goal
    BY <1>d, <1>s DEF Goes, PreparingPc
  <2> QED
    BY <1>c, <2>1, <2>2
<1>6. ASSUME NEW x \in Requests, StartCommit(x) \/ DueCommit(x)
      PROVE  Goal
  <2>1. ASSUME NEW S \in SUBSET Sources, NEW auto \in BOOLEAN, Create(x, S, auto), S # {} => S \cap Providers # {},
               request[x].kind # "retry", request[x].pc \in {"prepare", "commit"}
        PROVE  Goal
    <3>1. CASE Answer(x)
      BY <1>c, <3>1
    <3>2. ASSUME NEW r \in Fresh(request[x].who), Queue(r, S, auto), S # {},
                 request' = [request EXCEPT ![x].pc = "launch", ![x].run = r, ![x].sel = S]
          PROVE  Goal
      <4> DEFINE b == [request[x] EXCEPT !.pc = "launch", !.run = r, !.sel = S]
      <4>1. request' = [request EXCEPT ![x] = b]
        BY <1>a, <3>2
      <4>2. r \in Runs /\ OwnerOf[r] = request[x].who /\ run[r].status = "none"
        BY <3>2 DEF Fresh, RunsOf
      <4>3. x = q => /\ b.pc = "launch" /\ b.kind = request[q].kind /\ b.who = request[q].who /\ b.run = r
                     /\ b.sel = S /\ b.why = request[q].why
        BY <1>a DEF RequestRow
      <4> HIDE DEF b
      <4>4. x # q => request'[q] = request[q]
        BY <1>b, <4>1
      <4>5. x = q => request'[q] = b /\ Others(q)
        BY <1>b, <4>1
      <4>6. request[x].why = "none" /\ UNCHANGED <<worker, work, ctl, stop, out, session, view>>
        BY <2>1 DEF Create
      <4>7. x = q => Created(q)
        BY <2>1, <3>2, <4>2, <4>3, <4>5, <4>6 DEF Created
      <4> QED
        BY <1>s, <4>4, <4>7
    <3> QED
      BY <2>1, <3>1, <3>2 DEF Create
  <2>2. CASE StartCommit(x)
    BY <2>1, <2>2, SyncAssumption DEF StartCommit, Sources
  <2>3. CASE DueCommit(x)
    <3>1. PICK S \in SUBSET Providers : Create(x, S, TRUE)
      BY <2>3 DEF DueCommit
    <3> QED
      BY <2>1, <2>3, <3>1 DEF DueCommit, Sources
  <2> QED
    BY <1>6, <2>2, <2>3
<1>7. ASSUME NEW x \in Requests, RetryPrepare(x)
      PROVE  Goal
  <2>1. CASE Answer(x)
    BY <1>c, <2>1
  <2>2. ASSUME NEW S, request' = [request EXCEPT ![x].pc = "cancel", ![x].sel = S]
        PROVE  Goal
    <3> DEFINE b == [request[x] EXCEPT !.pc = "cancel", !.sel = S]
    <3>1. request' = [request EXCEPT ![x] = b]
      BY <1>a, <2>2
    <3>2. request[x].why = "none" /\ request[x].pc = "prepare"
      BY <1>7 DEF RetryPrepare
    <3>3. x = q => /\ b.pc = "cancel" /\ b.kind = request[q].kind /\ b.who = request[q].who
                   /\ b.run = request[q].run /\ b.why = request[q].why
      BY <1>a DEF RequestRow
    <3> HIDE DEF b
    <3>4. x # q => request'[q] = request[q]
      BY <1>b, <3>1
    <3>5. x = q => request'[q] = b /\ Others(q)
      BY <1>b, <3>1
    <3>6. x = q => Goes(q)
      BY <1>7, <3>2, <3>3, <3>5 DEF Goes, Alike
    <3> QED
      BY <1>s, <3>4, <3>6
  <2>3. Answer(x) \/ \E S : request' = [request EXCEPT ![x].pc = "cancel", ![x].sel = S]
    BY <1>7 DEF RetryPrepare
  <2> HIDE DEF Goal
  <2> QED
    BY <2>1, <2>2, <2>3 DEF Goal
<1>8. ASSUME NEW x \in Requests, RetryCancel(x)
      PROVE  Goal
  <2>1. Answer(x) \/ (Step(x, "commit") /\ request[x].pc = "cancel" /\ request[x].why = "none")
    BY <1>8 DEF RetryCancel
  <2>2. Step(x, "commit") /\ request[x].pc = "cancel" /\ request[x].why = "none" => Goal
    BY <1>8, <1>d, <1>s DEF Goes, PreparingPc
  <2> QED
    BY <1>c, <2>1, <2>2
<1>9. ASSUME NEW x \in Requests, RetryCommit(x)
      PROVE  Goal
  <2>1. Answer(x) \/ (Step(x, "launch") /\ request[x].pc = "commit" /\ request[x].why = "none")
    BY <1>9 DEF RetryCommit
  <2>2. Step(x, "launch") /\ request[x].pc = "commit" /\ request[x].why = "none" => Goal
    BY <1>d, <1>s, <1>9 DEF Goes
  <2> QED
    BY <1>c, <2>1, <2>2
<1>10. ASSUME NEW x \in Requests, Launch(x)
       PROVE  Goal
  <2>1. Answer(x) \/ (request[x].pc = "launch" /\ request[x].why = "none" /\ \E pc \in {"tail", "rest"} : Step(x, pc))
    BY <1>10 DEF Launch
  <2>2. ASSUME NEW pc \in {"tail", "rest"}, Step(x, pc), request[x].pc = "launch", request[x].why = "none"
        PROVE  Goal
    BY <1>d, <1>s, <1>10, <2>2 DEF Goes
  <2> HIDE DEF Goal
  <2> QED
    BY <1>c, <2>1, <2>2
<1>11. ASSUME NEW r \in Runs, CancelAsk(r)
       PROVE  Goal
  <2> DEFINE Q == {x \in Asking : Assigned(x) = r} \cup
                  {x \in Asking : Assigned(x) = "none" /\ RunActive(r) /\ request[x].who = OwnerOf[r]}
  <2>1. request' = Aborted(Q, "cancel")
    BY <1>11 DEF CancelAsk
  <2>2. request'[q] = request[q] \/ (q \in Q /\ request[q].why = "none" /\ request'[q] = [request[q] EXCEPT !.why = "cancel"])
    BY <2>1 DEF Aborted
  <2>3. q \in Q => Aborting(q) /\ request[q].pc # "idle"
    BY <1>11 DEF Aborting, Asking
  <2> HIDE DEF Q
  <2>4. CASE q \in Q /\ request[q].why = "none" /\ request'[q] = [request[q] EXCEPT !.why = "cancel"]
    BY <1>a, <2>3, <2>4 DEF Stays, Alike, RequestRow
  <2> QED
    BY <1>s, <2>2, <2>4
<1>12. ASSUME NEW p \in Principals, SignOut(p)
       PROVE  Goal
  <2> DEFINE Q == {x \in Asking : request[x].who = p}
  <2>1. request' = Aborted(Q, "auth")
    BY <1>12 DEF SignOut
  <2>2. request'[q] = request[q] \/ (q \in Q /\ request[q].why = "none" /\ request'[q] = [request[q] EXCEPT !.why = "auth"])
    BY <2>1 DEF Aborted
  <2>3. q \in Q => Aborting(q) /\ request[q].pc # "idle"
    BY <1>12 DEF Aborting, Asking
  <2> HIDE DEF Q
  <2>4. CASE q \in Q /\ request[q].why = "none" /\ request'[q] = [request[q] EXCEPT !.why = "auth"]
    BY <1>a, <2>3, <2>4 DEF Stays, Alike, RequestRow
  <2> QED
    BY <1>s, <2>2, <2>4
<1>13. ASSUME Restart
       PROVE  Goal
  BY <1>a, <1>13 DEF Restart, Answers
<1>14. ASSUME UNCHANGED request
       PROVE  Goal
  BY <1>14, <1>s
<1>15. UNCHANGED request \/ RequestWrite
  BY Writers
<1> HIDE DEF Goal
<1> QED
  BY <1>1, <1>2, <1>3, <1>4, <1>5, <1>6, <1>7, <1>8, <1>9, <1>10, <1>11, <1>12, <1>13, <1>14, <1>15
     DEF RequestWrite, RequestStep, Goal

-----------------------------------------------------------------------------
(* What a step does to a worker, a cancellation and a sign-out              *)

(* Request q launches the worker of its run r.                              *)
Launched(q, r) ==
  /\ On(q, r) /\ Launch(q) /\ request[q].pc = "launch" /\ Undisturbed(q) /\ worker[r] = "no"
  /\ request'[q].pc = "tail" /\ Others(q) /\ UNCHANGED <<run, src, stop, out, session, view>>
  /\ \A s \in Providers : work'[r][s].pc = IF s \in request[q].sel THEN "submit" ELSE "off"

LEMMA LaunchSteps ==
  ASSUME StateInv, NEW q \in Requests, Launch(q), worker' # worker \/ ctl' # ctl \/ work' # work
  PROVE  /\ Launched(q, request[q].run) /\ request[q].run \in Runs
         /\ \A x \in Runs \ {request[q].run} : worker'[x] = worker[x] /\ ctl'[x] = ctl[x] /\ work'[x] = work[x]
<1> DEFINE r == request[q].run
           S == request[q].sel \cap Providers
           f == [s \in Providers |-> IF s \in S THEN [Idle EXCEPT !.pc = "submit"] ELSE Idle]
<1>1. /\ worker \in [Runs -> {"no", "work", "auto", "catch", "finish"}] /\ ctl \in [Runs -> Reason]
      /\ work \in [Runs -> [Providers -> WorkRow]] /\ request \in [Requests -> RequestRow] /\ request[q] \in RequestRow
      /\ request[q].pc = "launch" => r \in Runs
  BY DEF StateInv, BaseInv, Typed, RequestInv, RunsOf
<1>2. /\ request[q].pc = "launch" /\ request[q].why = "none" /\ worker[r] = "no" /\ Step(q, "tail")
      /\ UNCHANGED <<run, src, stop, out, session, view>>
      /\ worker' = [worker EXCEPT ![r] = "work"] /\ ctl' = [ctl EXCEPT ![r] = "none"]
      /\ work' = [work EXCEPT ![r] = f]
  BY DEF Launch
<1>3. request'[q].pc = "tail" /\ Others(q)
  BY <1>1, <1>2 DEF Step, RequestRow, Others
<1>4. \A s \in Providers : f[s].pc = IF s \in request[q].sel THEN "submit" ELSE "off"
  BY DEF Idle
<1> HIDE DEF f
<1>5. work'[r] = f /\ r \in Runs
  BY <1>1, <1>2
<1>6. Launched(q, r)
  BY <1>2, <1>3, <1>4, <1>5 DEF Launched, On, Undisturbed
<1> QED
  BY <1>1, <1>2, <1>5, <1>6

LEMMA WorkerSteps ==
  ASSUME StateInv, Next, NEW r \in Runs
  PROVE  \/ worker'[r] = "no"
         \/ /\ worker[r] # "no"
            /\ worker'[r] = "work" => worker[r] = "work"
            /\ ctl'[r] = "none" => ctl[r] = "none"
         \/ \E q \in Requests : Launched(q, r)
<1>1. worker \in [Runs -> {"no", "work", "auto", "catch", "finish"}] /\ ctl \in [Runs -> Reason]
  BY DEF StateInv, BaseInv, Typed
<1>2. CASE \E q \in Requests : Launch(q) /\ (worker' # worker \/ ctl' # ctl \/ work' # work)
  <2>1. PICK q \in Requests : Launch(q) /\ (worker' # worker \/ ctl' # ctl \/ work' # work)
    BY <1>2
  <2>2. CASE r = request[q].run
    BY <2>1, <2>2, LaunchSteps
  <2>3. CASE r # request[q].run
    BY <2>1, <2>3, LaunchSteps
  <2> QED
    BY <2>2, <2>3
<1>3. CASE Restart
  BY <1>3 DEF Restart
<1>4. worker'[r] = "no" \/ worker'[r] = worker[r] \/ (worker[r] # "no" /\ worker'[r] # "work")
      \/ \E q \in Requests : Launch(q) /\ worker' # worker
  <2>1. UNCHANGED worker \/ WorkerWrite
    BY Writers
  <2>2. ASSUME NEW x \in Runs, WorkEnd(x)
        PROVE  worker'[r] = "no" \/ worker'[r] = worker[r] \/ (worker[r] # "no" /\ worker'[r] # "work")
    BY <1>1, <2>2 DEF WorkEnd, WorkSettle, WorkAuto, WorkCatch, WorkFinish
  <2> QED
    BY <1>3, <2>1, <2>2 DEF WorkerWrite, Restart
<1>5. (ctl'[r] = "none" => ctl[r] = "none") \/ Restart \/ \E q \in Requests : Launch(q) /\ ctl' # ctl
  <2>1. UNCHANGED ctl \/ CtlWrite
    BY Writers
  <2>2. ASSUME NEW x \in Runs, CancelAsk(x) \/ LoseAuthority(x)
        PROVE  ctl'[r] = "none" => ctl[r] = "none"
    BY <1>1, <2>2 DEF CancelAsk, LoseAuthority
  <2>3. ASSUME NEW p \in Principals, SignOut(p)
        PROVE  ctl'[r] = "none" => ctl[r] = "none"
    BY <1>1, <2>3 DEF SignOut
  <2> QED
    BY <2>1, <2>2, <2>3 DEF CtlWrite
<1> QED
  BY <1>2, <1>3, <1>4, <1>5

LEMMA WorkSteps ==
  ASSUME StateInv, Next, NEW r \in Runs, NEW s \in Providers,
         work'[r][s].pc \in {"submit", "attach"}
  PROVE  \/ work'[r][s] = work[r][s]
         \/ /\ WorkSubmit(r, s) /\ work'[r][s].pc = "attach" /\ work'[r][s].job = src[r][s].attempt
            /\ Current(r) /\ UNCHANGED <<run, src, request>>
         \/ \E q \in Requests : Launched(q, r)
<1> DEFINE Goal == \/ work'[r][s] = work[r][s]
                   \/ /\ WorkSubmit(r, s) /\ work'[r][s].pc = "attach" /\ work'[r][s].job = src[r][s].attempt
                      /\ Current(r) /\ UNCHANGED <<run, src, request>>
                   \/ \E q \in Requests : Launched(q, r)
<1>1. /\ work \in [Runs -> [Providers -> WorkRow]] /\ \A x \in Runs : work[x] \in [Providers -> WorkRow]
      /\ \A x \in Runs, y \in Providers : work[x][y] \in WorkRow
  BY DEF StateInv, BaseInv, Typed
<1>2. ASSUME NEW q \in Requests, Launch(q)
      PROVE  Goal
  <2>1. CASE work' = work
    BY <2>1
  <2>2. CASE work' # work /\ r = request[q].run
    BY <1>2, <2>2, LaunchSteps
  <2>3. CASE work' # work /\ r # request[q].run
    BY <1>2, <2>3, LaunchSteps
  <2> QED
    BY <2>1, <2>2, <2>3
<1>3. ASSUME Restart
      PROVE  Goal
  BY <1>3 DEF Restart, Idle
<1>4. ASSUME NEW x \in Runs, WorkFinish(x)
      PROVE  Goal
  <2>1. work' = [work EXCEPT ![x] = [y \in Providers |-> Idle]]
    BY <1>4 DEF WorkFinish
  <2>2. x = r => work'[r][s] = Idle
    BY <1>1, <2>1
  <2>3. x # r => work'[r][s] = work[r][s]
    BY <1>1, <2>1
  <2> QED
    BY <2>2, <2>3 DEF Idle
<1>5. ASSUME NEW x \in Runs, NEW y \in Providers, NEW w, work' = [work EXCEPT ![x][y] = w],
             x = r /\ y = s => w.pc \notin {"submit", "attach"}
      PROVE  Goal
  <2>1. x = r /\ y = s => work'[r][s] = w
    BY <1>1, <1>5
  <2>2. ~(x = r /\ y = s) => work'[r][s] = work[r][s]
    BY <1>1, <1>5
  <2> HIDE DEF Goal
  <2> QED
    BY <1>5, <2>1, <2>2 DEF Goal
<1>6. ASSUME NEW x \in Runs, NEW y \in Providers, NEW pc, pc \notin {"submit", "attach"}, To(x, y, pc)
      PROVE  Goal
  <2> DEFINE w == [work[x][y] EXCEPT !.pc = pc]
  <2>1. work' = [work EXCEPT ![x][y] = w]
    BY <1>1, <1>6 DEF To
  <2>2. w.pc = pc
    BY <1>1 DEF WorkRow
  <2> HIDE DEF Goal, w
  <2> QED
    BY <1>5, <1>6, <2>1, <2>2
<1>7. ASSUME NEW x \in Runs, NEW y \in Providers, WorkSubmit(x, y)
      PROVE  Goal
  <2> DEFINE w == [work[x][y] EXCEPT !.pc = "attach", !.job = src[x][y].attempt]
  <2>1. To(x, y, "fail") \/ (work' = [work EXCEPT ![x][y] = w] /\ Current(x))
    BY <1>1, <1>7 DEF WorkSubmit
  <2>2. w.pc = "attach" /\ w.job = src[x][y].attempt
    BY <1>1 DEF WorkRow
  <2>3. UNCHANGED <<run, src, request>>
    BY <1>7 DEF WorkSubmit
  <2> HIDE DEF w
  <2>4. CASE work' = [work EXCEPT ![x][y] = w] /\ Current(x)
    <3>1. x = r /\ y = s => work'[r][s] = w
      BY <1>1, <2>4
    <3>2. ~(x = r /\ y = s) => work'[r][s] = work[r][s]
      BY <1>1, <2>4
    <3> QED
      BY <1>7, <2>2, <2>3, <2>4, <3>1, <3>2
  <2> HIDE DEF Goal
  <2>5. To(x, y, "fail") => Goal
    BY <1>6
  <2> QED
    BY <2>1, <2>4, <2>5 DEF Goal
<1>8. ASSUME NEW x \in Runs, NEW y \in Providers,
             WorkAttach(x, y) \/ WorkMark(x, y) \/ WorkStart(x, y) \/ WorkReport(x, y) \/ WorkClean(x, y) \/ WorkFail(x, y)
      PROVE  Goal
  <2>1. \E pc \in {"mark", "clean", "start", "starting", "done", "poll", "fail", "threw"} : To(x, y, pc)
    BY <1>8 DEF WorkAttach, WorkMark, WorkStart, WorkReport, WorkClean, WorkFail
  <2> HIDE DEF Goal
  <2> QED
    BY <1>6, <2>1
<1>9. ASSUME NEW x \in Runs, NEW y \in Providers, WorkStarted(x, y) \/ WorkPoll(x, y)
      PROVE  Goal
  <2>1. \E pc \in {"report", "clean"}, seen \in {Visible(Child(x, y)), "denied"} :
           work' = [work EXCEPT ![x][y] = [work[x][y] EXCEPT !.pc = pc, !.seen = seen]]
           \/ work' = [work EXCEPT ![x][y] = [work[x][y] EXCEPT !.pc = pc]]
    BY <1>1, <1>9 DEF WorkStarted, WorkPoll
  <2>2. PICK pc \in {"report", "clean"}, seen \in {Visible(Child(x, y)), "denied"} :
           work' = [work EXCEPT ![x][y] = [work[x][y] EXCEPT !.pc = pc, !.seen = seen]]
           \/ work' = [work EXCEPT ![x][y] = [work[x][y] EXCEPT !.pc = pc]]
    BY <2>1
  <2> DEFINE v == [work[x][y] EXCEPT !.pc = pc, !.seen = seen]
             w == [work[x][y] EXCEPT !.pc = pc]
  <2>3. v.pc = pc /\ w.pc = pc
    BY <1>1 DEF WorkRow
  <2>4. work' = [work EXCEPT ![x][y] = v] \/ work' = [work EXCEPT ![x][y] = w]
    BY <2>2
  <2> HIDE DEF Goal, v, w
  <2>5. work' = [work EXCEPT ![x][y] = v] => Goal
    BY <1>5, <2>3
  <2>6. work' = [work EXCEPT ![x][y] = w] => Goal
    BY <1>5, <2>3
  <2> QED
    BY <2>4, <2>5, <2>6
<1>10. UNCHANGED work \/ WorkWrite
  BY Writers
<1>11. ASSUME UNCHANGED work
       PROVE  Goal
  BY <1>11
<1> HIDE DEF Goal
<1> QED
  BY <1>2, <1>3, <1>4, <1>7, <1>8, <1>9, <1>10, <1>11 DEF WorkWrite, WorkStep, Goal

(* A cancellation begins by being asked for, and goes on when no aborted     *)
(* request is left; so does a sign-out, which ends when no request is left.  *)
LEMMA StopSteps ==
  ASSUME StateInv, Next, NEW r \in Runs
  PROVE  /\ stop'[r].pc # "no" => stop[r].pc # "no" \/ CancelAsk(r)
         /\ stop[r].pc = "row" =>
              \/ stop'[r].pc = "row"
              \/ Admissions(r) = {} /\ UNCHANGED request
              \/ Restart
<1>1. stop \in [Runs -> StopRow] /\ \A x \in Runs : stop[x] \in StopRow
  BY DEF StateInv, BaseInv, Typed
<1>2. UNCHANGED stop \/ StopWrite
  BY Writers
<1> DEFINE Goal == /\ stop'[r].pc # "no" => stop[r].pc # "no" \/ CancelAsk(r)
                   /\ stop[r].pc = "row" =>
                        \/ stop'[r].pc = "row"
                        \/ Admissions(r) = {} /\ UNCHANGED request
                        \/ Restart
<1>3. ASSUME NEW x \in Runs, CancelAsk(x)
      PROVE  Goal
  BY <1>1, <1>3 DEF CancelAsk
<1>4. ASSUME NEW x \in Runs, CancelRow(x)
      PROVE  Goal
  <2>1. x # r => stop'[r] = stop[r]
    BY <1>1, <1>4 DEF CancelRow
  <2>2. x = r => stop[r].pc = "row" /\ Admissions(r) = {} /\ UNCHANGED request
    BY <1>4 DEF CancelRow
  <2> QED
    BY <2>1, <2>2
<1>5. ASSUME NEW x \in Runs, CancelChildren(x) \/ CancelAnswer(x)
      PROVE  Goal
  <2>1. x # r => stop'[r] = stop[r]
    BY <1>1, <1>5 DEF CancelChildren, CancelAnswer
  <2>2. stop[x].pc \in {"clean", "again", "answer"}
    BY <1>5 DEF CancelChildren, CancelAnswer
  <2> QED
    BY <2>1, <2>2
<1>6. ASSUME Restart
      PROVE  Goal
  BY <1>1, <1>6 DEF Restart
<1>7. ASSUME UNCHANGED stop
      PROVE  Goal
  BY <1>7
<1> HIDE DEF Goal
<1> QED
  BY <1>2, <1>3, <1>4, <1>5, <1>6, <1>7 DEF StopWrite, CancelStep, Goal

LEMMA OutSteps ==
  ASSUME StateInv, Next, NEW p \in Principals
  PROVE  /\ out'[p].pc # "no" => out[p].pc # "no" \/ SignOut(p)
         /\ out[p].pc # "no" =>
              \/ out'[p].pc # "no"
              \/ (\A q \in Asking : request[q].who # p) /\ UNCHANGED request
              \/ Restart
         /\ p \in session' => p \in session \/ (out[p].pc = "no" /\ UNCHANGED out)
<1>1. out \in [Principals -> OutRow] /\ \A x \in Principals : out[x] \in OutRow
  BY DEF StateInv, BaseInv, Typed
<1>2. UNCHANGED out \/ OutWrite
  BY Writers
<1> DEFINE Goal == /\ out'[p].pc # "no" => out[p].pc # "no" \/ SignOut(p)
                   /\ out[p].pc # "no" =>
                        \/ out'[p].pc # "no"
                        \/ (\A q \in Asking : request[q].who # p) /\ UNCHANGED request
                        \/ Restart
<1>3. ASSUME NEW x \in Principals, SignOut(x)
      PROVE  Goal
  BY <1>1, <1>3 DEF SignOut
<1>4. ASSUME NEW x \in Principals, SignOutChildren(x) \/ SignOutPause(x)
      PROVE  Goal
  BY <1>1, <1>4 DEF SignOutChildren, SignOutPause, OutRow
<1>5. ASSUME NEW x \in Principals, SignOutClean(x)
      PROVE  Goal
  <2>1. out[x].pc = "clean" /\ (\A q \in Asking : request[q].who # x) /\ UNCHANGED request
    BY <1>5 DEF SignOutClean
  <2>2. \/ out' = [out EXCEPT ![x] = [pc |-> "no", runs |-> {}, ok |-> TRUE]]
        \/ \E z \in out[x].runs : out' = [out EXCEPT ![x].runs = @ \ {z}, ![x].ok = @ /\ dirty'[z] = {}]
    BY <1>5 DEF SignOutClean
  <2>3. x # p => out'[p] = out[p]
    BY <1>1, <2>2
  <2> QED
    BY <2>1, <2>3
<1>6. ASSUME Restart
      PROVE  Goal
  BY <1>1, <1>6 DEF Restart
<1>7. ASSUME UNCHANGED out
      PROVE  Goal
  BY <1>7
<1>8. Goal
  <2> HIDE DEF Goal
  <2> QED
    BY <1>2, <1>3, <1>4, <1>5, <1>6, <1>7 DEF OutWrite, SignOutStep
<1>9. p \in session' => p \in session \/ (out[p].pc = "no" /\ UNCHANGED out)
  <2>1. UNCHANGED session \/ SessionWrite
    BY Writers
  <2> QED
    BY <2>1 DEF SessionWrite, SignOut, SignIn
<1> QED
  BY <1>8, <1>9

-----------------------------------------------------------------------------
(* Who leaves a source alone that nobody has taken up                       *)

(* A report is asked for, uploaded or saved until its run is cancelled.     *)
LEMMA UsageStays ==
  ASSUME StateInv, Next, NEW r \in Runs, NEW s \in Usage, src[r][s].status \notin Retryable, stop[r].pc # "row"
  PROVE  src'[r][s].status \notin Retryable
<1> DEFINE Goal == src'[r][s].status \notin Retryable
<1>1. /\ src \in [Runs -> [Sources -> SourceRow]] /\ s \in Sources /\ s \notin Providers
      /\ src[r][s] \in SourceRow /\ src[r] \in [Sources -> SourceRow]
  <2>1. s \in Sources /\ s \notin Providers
    BY SyncAssumption DEF Sources
  <2> QED
    BY <2>1 DEF StateInv, BaseInv, Typed
<1>a. ASSUME src'[r][s] = src[r][s]
      PROVE  Goal
  BY <1>a
<1>2. ASSUME UNCHANGED <<run, src>>
      PROVE  Goal
  BY <1>2
<1>3. ASSUME NEW x \in Runs, NEW f \in [Sources -> SourceRow], Moves(x, f), SetSources(x, f)
      PROVE  Goal
  <2>1. src' = [src EXCEPT ![x] = f]
    BY <1>3 DEF SetSources
  <2>2. CASE x = r
    <3>1. src'[r][s] = f[s] /\ (f[s] = src[r][s] \/ f[s].status \in {"upload", "succeeded"})
      BY <1>1, <1>3, <2>1, <2>2 DEF Moves, MayMove
    <3> QED
      BY <3>1 DEF Retryable
  <2>3. CASE x # r
    BY <1>1, <1>a, <2>1, <2>3
  <2> QED
    BY <2>2, <2>3
<1>4. ASSUME NEW x \in Runs, NEW y \in Providers, WorkAttach(x, y)
      PROVE  Goal
  <2>1. src' = src \/ src' = [src EXCEPT ![x][y].job = work[x][y].job]
    BY <1>4 DEF WorkAttach
  <2>2. y \in Sources /\ y # s /\ src[x] \in [Sources -> SourceRow]
    BY <1>1 DEF Sources
  <2>3. src'[r][s] = src[r][s]
    BY <1>1, <2>1, <2>2
  <2> QED
    BY <1>a, <2>3
<1>5. ASSUME NEW x \in Runs, NEW S \in SUBSET Sources, NEW auto \in BOOLEAN, MayOpen(x, S, auto), Queue(x, S, auto)
      PROVE  Goal
  <2>1. CASE x = r /\ s \in S
    <3>1. src'[r][s].status = "queued"
      BY <1>1, <1>5, <2>1 DEF Queue
    <3> QED
      BY <3>1 DEF Retryable
  <2>2. CASE x = r /\ s \notin S
    BY <1>1, <1>5, <1>a, <2>2 DEF Queue
  <2>3. CASE x # r
    BY <1>1, <1>5, <1>a, <2>3 DEF Queue
  <2> QED
    BY <2>1, <2>2, <2>3
<1>6. ASSUME NEW R \in SUBSET Runs, PauseRuns(R)
      PROVE  Goal
  <2>1. src'[r] = src[r] \/ src'[r] = [y \in Sources |-> IF y \in Providers /\ src[r][y].status \in Open
                                      THEN [src[r][y] EXCEPT !.status = "waiting"] ELSE src[r][y]]
    BY <1>6 DEF PauseRuns
  <2>2. src'[r][s] = src[r][s]
    BY <1>1, <2>1
  <2> QED
    BY <1>a, <2>2
<1>7. ASSUME UNCHANGED src
      PROVE  Goal
  BY <1>7
<1>8. ASSUME NEW x \in Runs, CancelRow(x)
      PROVE  Goal
  <2>1. x # r
    BY <1>8 DEF CancelRow
  <2> DEFINE f == [y \in Sources |-> IF src[x][y].status \in {"absent", "succeeded"} THEN src[x][y]
                                     ELSE [src[x][y] EXCEPT !.status = "cancelled"]]
  <2>2. UNCHANGED src \/ src' = [src EXCEPT ![x] = f]
    BY <1>8 DEF CancelRow
  <2>3. src'[r] = src[r]
    <3> HIDE DEF f
    <3> QED
      BY <1>1, <2>1, <2>2
  <2> QED
    BY <1>a, <2>3
<1>9. ASSUME Restart
      PROVE  Goal
  <2> DEFINE left(y) == [z \in Sources |-> IF RunActive(y) /\ z \in Providers /\ src[y][z].status \in Open
                                           THEN [src[y][z] EXCEPT !.status = "waiting"] ELSE src[y][z]]
  <2>1. src' = [y \in Runs |-> left(y)]
    BY <1>9 DEF Restart
  <2>2. src'[r][s] = left(r)[s]
    BY <2>1
  <2>3. left(r)[s] = src[r][s]
    BY <1>1
  <2> QED
    BY <1>a, <2>2, <2>3
<1>10. DbStep
  BY DbSteps DEF StateInv
<1> HIDE DEF Goal
<1> QED
  BY <1>2, <1>3, <1>4, <1>5, <1>6, <1>7, <1>8, <1>9, <1>10 DEF DbStep, Goal

(* A source that is queued and untouched, or absent, stays as it is unless   *)
(* its own worker attaches its job, its run is cancelled or paused, or the   *)
(* process restarts.                                                         *)
LEMMA QueuedStays ==
  ASSUME StateInv, SeenInv, Next, NEW r \in Runs, NEW s \in Providers,
         Untouched(r, s), src[r][s].status \in {"absent", "queued"}, run[r].status # "none",
         worker[r] = "no" \/ (worker[r] = "work" /\ work[r][s].pc \in {"submit", "attach"} /\ ~WorkAttach(r, s)),
         stop[r].pc # "row", out[OwnerOf[r]].pc # "pause", ~Restart,
         \A q \in Requests : On(q, r) => /\ request[q].pc = "launch" => Undisturbed(q)
                                         /\ request[q].pc \in {"tail", "rest"} => Why(q) = "none"
  PROVE  src'[r][s] = src[r][s]
<1> DEFINE Goal == src'[r][s] = src[r][s]
<1>1. /\ src \in [Runs -> [Sources -> SourceRow]] /\ s \in Sources /\ s \notin Usage
      /\ src[r][s] \in SourceRow /\ \A x \in Runs : src[x] \in [Sources -> SourceRow]
      /\ src[r][s].job = 0 /\ src[r][s].status \notin Retryable
      /\ Providers \subseteq Sources /\ Usage \subseteq Sources
  <2>1. s \in Sources /\ s \notin Usage /\ Providers \subseteq Sources /\ Usage \subseteq Sources
    BY SyncAssumption DEF Sources
  <2>2. src \in [Runs -> [Sources -> SourceRow]]
    BY DEF StateInv, BaseInv, Typed
  <2>3. src[r][s].job = 0 /\ src[r][s].status \notin Retryable
    BY DEF Untouched, Retryable
  <2> QED
    BY <2>1, <2>2, <2>3
<1>a. ASSUME NEW x \in Runs, NEW y \in Sources, NEW status, NEW n, UpdateSource(x, y, status, n), x # r \/ y # s
      PROVE  Goal
  <2> DEFINE f == [src[x] EXCEPT ![y].status = status, ![y].job = IF n = 0 THEN @ ELSE n]
  <2>1. src' = src \/ src' = [src EXCEPT ![x] = f]
    BY <1>a DEF UpdateSource, SetSources
  <2>2. x = r => f[s] = src[r][s]
    BY <1>1, <1>a
  <2> HIDE DEF f
  <2> QED
    BY <1>1, <2>1, <2>2
<1>b. ASSUME NEW x \in Runs, NEW y \in Providers,
             WorkMark(x, y) \/ WorkReport(x, y) \/ WorkFail(x, y)
      PROVE  (x # r \/ y # s) /\ (UNCHANGED src \/ \E status : UpdateSource(x, y, status, work[x][y].job))
  BY <1>b DEF WorkMark, WorkReport, WorkFail, At
<1>2. ASSUME NEW x \in Runs, NEW y \in Providers, WorkMark(x, y) \/ WorkReport(x, y) \/ WorkFail(x, y)
      PROVE  Goal
  <2>1. y \in Sources
    BY <1>1
  <2> HIDE DEF Goal
  <2>2. UNCHANGED src => Goal
    BY DEF Goal
  <2> QED
    BY <1>2, <1>a, <1>b, <2>1, <2>2
<1>3. ASSUME NEW x \in Runs, NEW y \in Providers, WorkAttach(x, y)
      PROVE  Goal
  <2>1. src' = src \/ src' = [src EXCEPT ![x][y].job = work[x][y].job]
    BY <1>3 DEF WorkAttach
  <2>2. y \in Sources /\ (x # r \/ y # s)
    BY <1>1, <1>3 DEF WorkAttach, At
  <2> QED
    BY <1>1, <2>1, <2>2
<1>4. ASSUME NEW x \in Runs, WorkCatch(x)
      PROVE  Goal
  <2>1. x # r
    BY <1>4 DEF WorkCatch
  <2> DEFINE left == {y \in Providers : work[x][y].pc # "off" /\ src[x][y].status \in Open}
             f(status) == [y \in Sources |-> IF y \in left THEN [src[x][y] EXCEPT !.status = status] ELSE src[x][y]]
  <2>2. UNCHANGED src \/ \E status \in {"failed", "waiting"} : SetSources(x, f(status))
    BY <1>4 DEF WorkCatch
  <2> HIDE DEF f
  <2> QED
    BY <1>1, <2>1, <2>2 DEF SetSources
<1>5. ASSUME NEW x \in Runs, NEW y \in Usage, ReadUsage(x, y)
      PROVE  Goal
  <2>1. \E status : UpdateSource(x, y, status, 0)
    BY <1>5 DEF ReadUsage
  <2>2. y \in Sources /\ y # s
    BY <1>1
  <2> HIDE DEF Goal
  <2> QED
    BY <1>a, <2>1, <2>2
<1>6. ASSUME NEW j \in Jobs, PublishChild(j)
      PROVE  Goal
  <2>1. j[1] \in Runs /\ j[2] \in Providers /\ j[3] \in 1..MaxAttempts
    BY JobIsChild
  <2>2. \/ UNCHANGED src
        \/ src[j[1]][j[2]].job = j[3] /\ src' = [src EXCEPT ![j[1]] = [src[j[1]] EXCEPT ![j[2]].status = "succeeded"]]
    BY <1>6 DEF PublishChild, MayPublish, Claims, SetSources
  <2>3. CASE src[j[1]][j[2]].job = j[3] /\ src' = [src EXCEPT ![j[1]] = [src[j[1]] EXCEPT ![j[2]].status = "succeeded"]]
    <3>1. j[1] # r \/ j[2] # s
      BY <1>1, <2>1, <2>3, SyncAssumption
    <3> QED
      BY <1>1, <2>1, <2>3, <3>1
  <2> QED
    BY <2>2, <2>3
<1>7. ASSUME NEW x \in Runs, NEW S, NEW auto, Queue(x, S, auto), x = r => s \notin S
      PROVE  Goal
  <2>1. CASE x = r
    BY <1>1, <1>7, <2>1 DEF Queue
  <2>2. CASE x # r
    BY <1>1, <1>7, <2>2 DEF Queue
  <2> QED
    BY <2>1, <2>2
<1>8. ASSUME NEW q \in Requests, StartCommit(q) \/ DueCommit(q)
      PROVE  Goal
  <2>1. UNCHANGED src \/ \E x \in Fresh(request[q].who) : \E S, auto : Queue(x, S, auto)
    BY <1>8 DEF StartCommit, DueCommit, Create
  <2>2. \A x \in Fresh(request[q].who) : x \in Runs /\ x # r
    BY DEF Fresh, RunsOf
  <2> HIDE DEF Goal
  <2>3. UNCHANGED src => Goal
    BY DEF Goal
  <2> QED
    BY <1>7, <2>1, <2>2, <2>3
<1>9. ASSUME NEW q \in Requests, RetryPrepare(q)
      PROVE  Goal
  <2> DEFINE x == request[q].run
             fresh(y) == IF worker[x] = "no" /\ y \in Providers /\ src[x][y].job # 0 /\ src[x][y].status \in Open \cup {"waiting"}
                         THEN Visible(<<x, y, src[x][y].job>>) ELSE "cleaned"
             read == [y \in Sources |-> IF fresh(y) # "cleaned" /\ Updatable(x, y, fresh(y), src[x][y].job)
                                        THEN [src[x][y] EXCEPT !.status = fresh(y)] ELSE src[x][y]]
  <2>1. src' = [src EXCEPT ![x] = read]
    BY <1>9 DEF RetryPrepare, SetSources
  <2>2. x = r => read[s] = src[r][s]
    BY <1>1
  <2> HIDE DEF read, x
  <2> QED
    BY <1>1, <2>1, <2>2
<1>10. ASSUME NEW q \in Requests, RetryCommit(q)
       PROVE  Goal
  <2>1. UNCHANGED src \/ (Queue(request[q].run, request[q].sel, run[request[q].run].auto)
                          /\ \A y \in request[q].sel : src[request[q].run][y].status \in Retryable)
    BY <1>10 DEF RetryCommit
  <2>2. request[q].run \in Runs
    BY <1>10 DEF RetryCommit, StateInv, BaseInv, RequestInv, RunsOf
  <2> HIDE DEF Goal
  <2>3. UNCHANGED src => Goal
    BY DEF Goal
  <2> QED
    BY <1>1, <1>7, <2>1, <2>2, <2>3
<1>11. ASSUME NEW R \in SUBSET Runs, PauseRuns(R), r \notin R
       PROVE  Goal
  BY <1>1, <1>11 DEF PauseRuns
<1>12. ASSUME NEW q \in Requests, Launch(q) \/ Tail(q)
       PROVE  Goal
  <2>1. UNCHANGED src \/ (/\ PauseRuns({request[q].run})
                           /\ \/ request[q].pc = "launch" /\ ~Undisturbed(q)
                              \/ request[q].pc \in {"tail", "rest"} /\ Why(q) # "none")
    <3>1. CASE Launch(q)
      BY <3>1 DEF Launch, Undisturbed
    <3>2. CASE Tail(q)
      BY <3>2 DEF Tail
    <3> QED
      BY <1>12, <3>1, <3>2
  <2>2. request[q].pc \in {"launch", "tail", "rest"} => request[q].run \in Runs /\ (request[q].run = r => On(q, r))
    BY DEF StateInv, BaseInv, RequestInv, RunsOf, On
  <2> HIDE DEF Goal
  <2>3. UNCHANGED src => Goal
    BY DEF Goal
  <2>4. request[q].pc \in {"launch", "tail", "rest"} => {request[q].run} \in SUBSET Runs
    BY <2>2
  <2>5. CASE /\ PauseRuns({request[q].run})
             /\ \/ request[q].pc = "launch" /\ ~Undisturbed(q)
                \/ request[q].pc \in {"tail", "rest"} /\ Why(q) # "none"
    <3>1. r # request[q].run
      BY <2>2, <2>5
    <3> QED
      BY <1>11, <2>4, <2>5, <3>1 DEF Goal
  <2> QED
    BY <2>1, <2>3, <2>5 DEF Goal
<1>13. ASSUME NEW p \in Principals, SignOutPause(p)
       PROVE  Goal
  <2>1. PauseRuns(RunsOf(p)) /\ RunsOf(p) \in SUBSET Runs /\ r \notin RunsOf(p)
    BY <1>13 DEF SignOutPause, RunsOf
  <2> QED
    BY <1>11, <2>1
<1>14. ASSUME ViewWrite
       PROVE  Goal
  <2>1. view.run \in Runs /\ view.source \in Providers /\ (view.run # r \/ view.source # s)
    BY <1>14 DEF ViewWrite, SeenInv, StateInv, BaseInv, ViewInv
  <2>2. UNCHANGED src \/ UpdateSource(view.run, view.source, view.seen, view.job)
    BY <1>14 DEF ViewWrite
  <2>3. view.source \in Sources
    BY <1>1, <2>1
  <2> HIDE DEF Goal
  <2>4. UNCHANGED src => Goal
    BY DEF Goal
  <2> QED
    BY <1>a, <2>1, <2>2, <2>3, <2>4
<1>15. ASSUME NEW x \in Runs, CancelRow(x)
       PROVE  Goal
  <2>1. x # r
    BY <1>15 DEF CancelRow
  <2> DEFINE f == [y \in Sources |-> IF src[x][y].status \in {"absent", "succeeded"} THEN src[x][y]
                                     ELSE [src[x][y] EXCEPT !.status = "cancelled"]]
  <2>2. UNCHANGED src \/ src' = [src EXCEPT ![x] = f]
    BY <1>15 DEF CancelRow
  <2> HIDE DEF f
  <2> QED
    BY <1>1, <2>1, <2>2
<1>16. ASSUME UNCHANGED src
       PROVE  Goal
  BY <1>16
<1>17. UNCHANGED <<run, src>> \/ DbWrite
  BY Writers
<1>18. \A x \in Runs : WorkFinish(x) => UNCHANGED src
  BY DEF WorkFinish
<1>19. \A q \in Requests : DuePrepare(q) => UNCHANGED src
  BY DEF DuePrepare
<1> HIDE DEF Goal
<1> QED
  BY <1>2, <1>3, <1>4, <1>5, <1>6, <1>8, <1>9, <1>10, <1>12, <1>13, <1>14, <1>15, <1>16, <1>17,
     <1>18, <1>19
     DEF DbWrite, Goal

-----------------------------------------------------------------------------
(* The second part of the invariant, conjunct by conjunct                   *)

LEMMA OnWho ==
  ASSUME StateInv, NEW q \in Requests, NEW r \in Runs, On(q, r)
  PROVE  /\ request[q].who = OwnerOf[r] /\ OwnerOf[r] \in Principals
         /\ Retries(q) \/ request[q].pc \in {"launch", "tail", "rest"}
<1>1. request[q] \in RequestRow
  BY DEF StateInv, BaseInv, Typed
<1>2. Retries(q) \/ request[q].pc \in {"launch", "tail", "rest"}
  BY <1>1, SyncAssumption DEF StateInv, BaseInv, RequestInv, On, Retries, RequestRow, RequestPc
<1> QED
  BY <1>2 DEF StateInv, BaseInv, RequestInv, On, Retries, RunsOf, Principals

(* A run whose launch is owed is active.                                    *)
LEMMA LaunchIsActive ==
  ASSUME StateInv, LaunchInv, NEW q \in Requests, NEW r \in Runs,
         On(q, r), request[q].pc = "launch", ~Retries(q), Undisturbed(q)
  PROVE  RunActive(r)
<1>1. PICK s \in Providers : src[r][s].status = "queued"
  BY DEF LaunchInv
<1>2. s \in Sources
  BY DEF Sources
<1>3. "queued" \in StatusesOf(src[r]) \cap Open
  BY <1>1, <1>2 DEF StatusesOf, Open
<1> QED
  BY <1>3 DEF StateInv, DbInv, ClosedInv, Settled, RunActive

LEMMA ActiveNext ==
  ASSUME StateInv, ActiveInv, Next
  PROVE  ActiveInv'
<1>1. ASSUME NEW x \in Runs, NEW y \in Runs, RunActive(x)', RunActive(y)', OwnerOf[x] = OwnerOf[y], x # y
      PROVE  FALSE
  <2>1. /\ run'[x].status \in {"running", "waiting"} /\ run'[y].status \in {"running", "waiting"}
    BY <1>1 DEF RunActive
  <2>2. \/ RunActive(x)
        \/ ActiveRunsOf(OwnerOf[x]) \subseteq {x} /\ run'[y] = run[y]
    BY <1>1, <2>1, StatusSteps
  <2>3. \/ RunActive(y)
        \/ ActiveRunsOf(OwnerOf[y]) \subseteq {y} /\ run'[x] = run[x]
    BY <1>1, <2>1, StatusSteps
  <2>4. RunActive(x) => x \in ActiveRunsOf(OwnerOf[y])
    BY <1>1 DEF ActiveRunsOf, RunsOf
  <2>5. RunActive(y) => y \in ActiveRunsOf(OwnerOf[x])
    BY <1>1 DEF ActiveRunsOf, RunsOf
  <2>6. ~(RunActive(x) /\ RunActive(y))
    BY <1>1 DEF ActiveInv
  <2> QED
    BY <1>1, <2>1, <2>2, <2>3, <2>4, <2>5, <2>6 DEF RunActive
<1> QED
  BY <1>1 DEF ActiveInv

LEMMA ExistNext ==
  ASSUME StateInv, ExistInv, Next
  PROVE  ExistInv'
<1>1. ASSUME NEW r \in Runs, run[r].status # "none"
      PROVE  run'[r].status # "none"
  BY <1>1, StatusSteps
<1>2. ASSUME NEW r \in Runs, worker'[r] # "no"
      PROVE  run'[r].status # "none"
  BY <1>1, <1>2, WorkerSteps DEF ExistInv, Launched
<1>3. ASSUME NEW r \in Runs, stop'[r].pc # "no"
      PROVE  run'[r].status # "none"
  BY <1>1, <1>3, StopSteps DEF ExistInv, CancelAsk
<1>4. ASSUME NEW r \in Runs, NEW q \in Requests, request'[q].pc # "idle", request'[q].run = r
      PROVE  run'[r].status # "none"
  <2>1. CASE Stays(q) \/ Goes(q)
    BY <1>1, <1>4, <2>1 DEF Stays, Goes, Alike, ExistInv, On
  <2>2. CASE Asked(q)
    <3>1. Admit(q, OwnerOf[r], "retry", r)
      BY <1>4, <2>2, SyncAssumption DEF Asked
    <3> QED
      BY <1>1, <3>1 DEF Admit
  <2>3. CASE Created(q)
    BY <1>4, <2>3 DEF Created, Queue, StateInv, BaseInv, Typed
  <2> QED
    BY <1>4, <2>1, <2>2, <2>3, RequestSteps DEF Answers
<1> QED
  BY <1>2, <1>3, <1>4 DEF ExistInv, On

LEMMA OutNext ==
  ASSUME StateInv, OutInv, Next
  PROVE  OutInv'
<1>1. ASSUME NEW p \in Principals, out'[p].pc # "no"
      PROVE  /\ p \notin session'
             /\ \A q \in Requests : request'[q].pc # "idle" /\ request'[q].who = p => request'[q].why # "none"
  <2>1. CASE out[p].pc # "no"
    <3>1. p \notin session
      BY <2>1 DEF OutInv
    <3>2. p \notin session'
      BY <2>1, <3>1, OutSteps
    <3>3. ASSUME NEW q \in Requests, request'[q].pc # "idle", request'[q].who = p, request'[q].why = "none"
          PROVE  FALSE
      <4>1. request[q].pc # "idle" /\ request[q].who = p => request[q].why # "none"
        BY <2>1 DEF OutInv, Undisturbed
      <4>2. ~Stays(q)
        BY <3>3, <4>1 DEF Stays, Alike
      <4>3. ~Asked(q)
        BY <3>1, <3>3 DEF Asked
      <4>4. ~Goes(q)
        BY <3>3, <4>1 DEF Goes, Alike
      <4>5. ~Created(q)
        BY <3>3, <4>1 DEF Created
      <4> QED
        BY <3>3, <4>2, <4>3, <4>4, <4>5, RequestSteps DEF Answers
    <3> QED
      BY <3>2, <3>3
  <2>2. CASE SignOut(p)
    <3>1. request \in [Requests -> RequestRow] /\ \A q \in Requests : request[q] \in RequestRow
      BY DEF StateInv, BaseInv, Typed
    <3>2. \A q \in Requests : request'[q] = IF (request[q].pc # "idle" /\ request[q].who = p) /\ request[q].why = "none"
                                            THEN [request[q] EXCEPT !.why = "auth"] ELSE request[q]
      BY <2>2 DEF SignOut, Aborted, Asking
    <3>3. \A q \in Requests : request'[q].pc = request[q].pc /\ request'[q].who = request[q].who
      BY <3>1, <3>2 DEF RequestRow
    <3>4. \A q \in Requests : request[q].pc # "idle" /\ request[q].who = p => request'[q].why # "none"
      BY <3>1, <3>2 DEF RequestRow
    <3> QED
      BY <2>2, <3>3, <3>4 DEF SignOut
  <2> QED
    BY <1>1, <2>1, <2>2, OutSteps
<1> QED
  BY <1>1 DEF OutInv, Undisturbed, Principals

LEMMA RetryNext ==
  ASSUME StateInv, RetryInv, Next
  PROVE  RetryInv'
<1>1. ASSUME NEW q \in Requests, NEW o \in Requests, NEW r \in Runs, q # o,
             request'[q].pc # "idle", request'[q].run = r, request'[q].kind = "retry",
             request'[o].pc # "idle", request'[o].run = r, request'[o].kind = "retry"
      PROVE  FALSE
  <2>1. ASSUME NEW x \in Requests, request'[x].pc # "idle", request'[x].run = r, request'[x].kind = "retry", ~Asked(x)
        PROVE  On(x, r) /\ Retries(x)
    <3>1. Stays(x) \/ Goes(x)
      BY <2>1, RequestSteps DEF Answers, Created
    <3> QED
      BY <2>1, <3>1 DEF Stays, Goes, Alike, On, Retries
  <2>2. ASSUME NEW x \in Requests, NEW y \in Requests, x # y, Asked(x),
               request'[x].run = r, request'[x].kind = "retry",
               request'[y].pc # "idle", request'[y].run = r, request'[y].kind = "retry"
        PROVE  FALSE
    <3>1. Admit(x, OwnerOf[r], "retry", r)
      BY <2>2 DEF Asked
    <3>2. request'[y] = request[y]
      BY <2>2 DEF Asked, Others
    <3>3. y \in Asking /\ Assigned(y) = r
      BY <2>2, <3>2 DEF Asking, Assigned
    <3> QED
      BY <3>1, <3>3 DEF Admit
  <2>3. ~Asked(q) /\ ~Asked(o)
    BY <1>1, <2>2
  <2> QED
    BY <1>1, <2>1, <2>3 DEF RetryInv
<1> QED
  BY <1>1 DEF RetryInv, On, Retries

LEMMA SeenNext ==
  ASSUME StateInv, SeenInv, Next
  PROVE  SeenInv'
<1>1. ASSUME NEW r \in Runs, NEW s \in Providers, ViewRead(r, s)
      PROVE  SeenInv'
  <2>1. view'.run = r /\ view'.source = s /\ src' = src /\ src[r][s].job # 0
    BY <1>1 DEF ViewRead
  <2> QED
    BY <2>1 DEF SeenInv, Untouched
<1>2. CASE view' = NoView
  BY <1>2 DEF SeenInv, NoView
<1>3. CASE UNCHANGED view
  <2>1. CASE view.pc = "write"
    <3>1. view.run \in Runs /\ view.source \in Providers /\ ~Untouched(view.run, view.source)
      BY <2>1 DEF SeenInv, StateInv, BaseInv, ViewInv
    <3>2. ~Untouched(view.run, view.source)'
      <4>1. \A r \in Runs, s \in Providers : ~Untouched(r, s) => src'[r][s].job # 0 \/ src'[r][s].attempt # 1
        BY TouchedStays DEF Untouched
      <4>2. src'[view.run][view.source].job # 0 \/ src'[view.run][view.source].attempt # 1
        BY <3>1, <4>1
      <4> QED
        BY <1>3, <4>2 DEF Untouched
    <3> QED
      BY <1>3, <3>2 DEF SeenInv
  <2>2. CASE view.pc # "write"
    BY <1>3, <2>2 DEF SeenInv
  <2> QED
    BY <2>1, <2>2
<1>4. UNCHANGED view \/ ViewChange
  BY Writers
<1> QED
  BY <1>1, <1>2, <1>3, <1>4 DEF ViewChange, ViewWrite, Restart

LEMMA HaltNext ==
  ASSUME StateInv, AdmitInv, Next
  PROVE  HaltInv'
<1>1. ActiveInv /\ ExistInv /\ OutInv /\ HaltInv /\ LaunchInv
  BY DEF AdmitInv
<1>2. /\ request \in [Requests -> RequestRow] /\ \A q \in Requests : request[q] \in RequestRow
      /\ stop \in [Runs -> StopRow] /\ out \in [Principals -> OutRow]
      /\ worker \in [Runs -> {"no", "work", "auto", "catch", "finish"}] /\ ctl \in [Runs -> Reason]
  BY DEF StateInv, BaseInv, Typed
<1>3. \A r \in Runs : OwnerOf[r] \in Principals
  BY DEF Principals
<1>4. ASSUME NEW r \in Runs, NEW q \in Requests, Halting(r),
             request'[q].pc # "idle", request'[q].run = r, request'[q].why = "none"
      PROVE  FALSE
  <2>1. On(q, r) => ~Undisturbed(q)
    BY <1>1, <1>4 DEF HaltInv
  <2>2. run[r].status # "none" \/ out[OwnerOf[r]].pc # "no"
    BY <1>1, <1>4 DEF Halting, ExistInv
  <2>3. ~Stays(q) /\ ~Goes(q)
    BY <1>4, <2>1 DEF Stays, Goes, Alike, On, Undisturbed
  <2>4. ~Asked(q)
    <3>1. SUFFICES ASSUME Asked(q) PROVE FALSE
      OBVIOUS
    <3>2. Admit(q, OwnerOf[r], "retry", r)
      BY <1>4, <3>1, SyncAssumption DEF Asked
    <3>3. stop[r].pc = "no" /\ OwnerOf[r] \in session
      BY <3>2 DEF Admit
    <3> QED
      BY <1>1, <1>3, <1>4, <3>3 DEF OutInv, Halting
  <2>5. ~Created(q)
    <3>1. SUFFICES ASSUME Created(q) PROVE FALSE
      OBVIOUS
    <3>2. run[r].status = "none" /\ OwnerOf[r] = request[q].who /\ request[q].why = "none" /\ request[q].pc # "idle"
      BY <1>4, <3>1 DEF Created
    <3> QED
      BY <1>1, <1>3, <2>2, <3>2 DEF OutInv, Undisturbed
  <2> QED
    BY <1>4, <2>3, <2>4, <2>5, RequestSteps DEF Answers
<1>5. ASSUME NEW r \in Runs, Halting(r), worker'[r] # "no"
      PROVE  ctl'[r] # "none"
  <2>1. worker[r] # "no" => ctl[r] # "none"
    BY <1>1, <1>5 DEF HaltInv, Current
  <2>2. \A q \in Requests : ~Launched(q, r)
    BY <1>1, <1>5 DEF HaltInv, Launched
  <2> QED
    BY <1>5, <2>1, <2>2, WorkerSteps
<1>6. ASSUME NEW r \in Runs, CancelAsk(r)
      PROVE  /\ \A q \in Requests : On(q, r) => request'[q].why # "none"
             /\ \A q \in Requests : request'[q].pc = request[q].pc /\ request'[q].run = request[q].run
             /\ ctl'[r] # "none" /\ UNCHANGED worker
  <2> DEFINE Q == {x \in Asking : Assigned(x) = r} \cup
                  {x \in Asking : Assigned(x) = "none" /\ RunActive(r) /\ request[x].who = OwnerOf[r]}
  <2>1. request' = Aborted(Q, "cancel") /\ UNCHANGED worker
    BY <1>6 DEF CancelAsk
  <2>2. ctl'[r] # "none"
    BY <1>2, <1>6 DEF CancelAsk
  <2>3. \A q \in Requests : request'[q] = IF q \in Q /\ request[q].why = "none"
                                          THEN [request[q] EXCEPT !.why = "cancel"] ELSE request[q]
    BY <2>1 DEF Aborted
  <2>4. ASSUME NEW q \in Requests, On(q, r), Undisturbed(q)
        PROVE  q \in Q
    <3>1. /\ request[q].who = OwnerOf[r] /\ q \in Asking /\ request[q].run = r
          /\ Retries(q) \/ request[q].pc \in {"launch", "tail", "rest"}
      BY <2>4, OnWho DEF Asking, On
    <3>2. CASE Retries(q) \/ request[q].pc \in {"tail", "rest"}
      BY <3>1, <3>2 DEF Retries, Assigned
    <3>3. CASE ~Retries(q) /\ request[q].pc = "launch"
      <4>1. RunActive(r)
        BY <1>1, <2>4, <3>3, LaunchIsActive
      <4> QED
        BY <3>1, <3>3, <4>1 DEF Retries, Assigned
    <3> QED
      BY <3>1, <3>2, <3>3
  <2> HIDE DEF Q
  <2>5. \A q \in Requests : On(q, r) => request'[q].why # "none"
    BY <1>2, <2>3, <2>4 DEF Undisturbed, RequestRow
  <2>6. \A q \in Requests : request'[q].pc = request[q].pc /\ request'[q].run = request[q].run
    BY <1>2, <2>3 DEF RequestRow
  <2> QED
    BY <2>1, <2>2, <2>5, <2>6
<1>7. ASSUME NEW r \in Runs, SignOut(OwnerOf[r])
      PROVE  /\ \A q \in Requests : On(q, r) => request'[q].why # "none"
             /\ \A q \in Requests : request'[q].pc = request[q].pc /\ request'[q].run = request[q].run
             /\ worker[r] # "no" => ctl'[r] # "none"
             /\ UNCHANGED worker
  <2> DEFINE p == OwnerOf[r]
             Q == {q \in Asking : request[q].who = p}
  <2>1. request' = Aborted(Q, "auth") /\ UNCHANGED worker
    BY <1>7 DEF SignOut
  <2>2. worker[r] # "no" => ctl'[r] # "none"
    BY <1>2, <1>7 DEF SignOut, RunsOf
  <2>3. \A q \in Requests : request'[q] = IF q \in Q /\ request[q].why = "none"
                                          THEN [request[q] EXCEPT !.why = "auth"] ELSE request[q]
    BY <2>1 DEF Aborted
  <2>4. ASSUME NEW q \in Requests, On(q, r)
        PROVE  q \in Q
    BY <2>4, OnWho DEF Asking, On
  <2> HIDE DEF Q
  <2>5. \A q \in Requests : On(q, r) => request'[q].why # "none"
    BY <1>2, <2>3, <2>4 DEF RequestRow
  <2>6. \A q \in Requests : request'[q].pc = request[q].pc /\ request'[q].run = request[q].run
    BY <1>2, <2>3 DEF RequestRow
  <2> QED
    BY <2>1, <2>2, <2>5, <2>6
<1>8. ASSUME NEW r \in Runs, stop'[r].pc # "no" \/ out'[OwnerOf[r]].pc # "no"
      PROVE  /\ \A q \in Requests : request'[q].pc # "idle" /\ request'[q].run = r => request'[q].why # "none"
             /\ worker'[r] # "no" => ctl'[r] # "none"
  <2>1. CASE Halting(r)
    BY <1>4, <1>5, <2>1
  <2>2. CASE CancelAsk(r)
    BY <1>6, <2>2 DEF On
  <2>3. CASE SignOut(OwnerOf[r])
    BY <1>7, <2>3 DEF On
  <2>4. Halting(r) \/ CancelAsk(r) \/ SignOut(OwnerOf[r])
    BY <1>3, <1>8, StopSteps, OutSteps DEF Halting
  <2> QED
    BY <2>1, <2>2, <2>3, <2>4
<1>9. ASSUME NEW r \in Runs, NEW q \in Requests,
             request'[q].pc # "idle", request'[q].run = r, request'[q].why # "none"
      PROVE  stop'[r].pc = "row" \/ out'[OwnerOf[r]].pc # "no"
  <2>1. Stays(q)
    BY <1>9, RequestSteps DEF Answers, Asked, Goes, Created
  <2>2. On(q, r) /\ request'[q].pc = request[q].pc
    BY <1>9, <2>1 DEF Stays, Alike, On
  <2>3. request[q].who = OwnerOf[r] /\ q \in Asking /\ (Retries(q) \/ request[q].pc \in {"launch", "tail", "rest"})
    BY <2>2, OnWho DEF Asking, On
  <2>4. ~Restart
    BY <1>9 DEF Restart, NoRequest
  <2>5. CASE ~Undisturbed(q)
    <3>1. stop[r].pc = "row" \/ out[OwnerOf[r]].pc # "no"
      BY <1>1, <2>2, <2>5 DEF HaltInv
    <3>2. q \in Admissions(r)
      BY <2>3, <2>5 DEF Admissions, Undisturbed
    <3>3. stop[r].pc = "row" => stop'[r].pc = "row"
      BY <2>4, <3>2, StopSteps
    <3>4. out[OwnerOf[r]].pc # "no" => out'[OwnerOf[r]].pc # "no"
      BY <1>3, <2>3, <2>4, OutSteps
    <3> QED
      BY <3>1, <3>3, <3>4
  <2>6. CASE Undisturbed(q) /\ SignOut(OwnerOf[r])
    BY <1>2, <1>3, <2>6 DEF SignOut
  <2>7. ASSUME Undisturbed(q), NEW x \in Runs, CancelAsk(x),
               \/ Assigned(q) = x
               \/ Assigned(q) = "none" /\ RunActive(x) /\ request[q].who = OwnerOf[x]
        PROVE  stop'[r].pc = "row"
    <3>1. CASE Assigned(q) = x
      <4>1. x = r
        BY <2>2, <3>1, SyncAssumption DEF Assigned, On
      <4> QED
        BY <1>2, <2>3, <2>7, <3>1, <4>1 DEF CancelAsk
    <3>2. CASE Assigned(q) = "none" /\ RunActive(x) /\ request[q].who = OwnerOf[x]
      <4>1. ~Retries(q) /\ request[q].pc = "launch"
        BY <2>2, <2>3, <3>2, SyncAssumption DEF Assigned, On, Retries
      <4>2. RunActive(r)
        BY <1>1, <2>2, <2>7, <4>1, LaunchIsActive
      <4>3. x = r
        BY <1>1, <2>3, <3>2, <4>2 DEF ActiveInv
      <4> QED
        BY <1>2, <2>3, <2>7, <3>2, <4>3 DEF CancelAsk
    <3> QED
      BY <2>7, <3>1, <3>2
  <2>8. Undisturbed(q) => Aborting(q)
    BY <1>9, <2>1 DEF Stays, Undisturbed
  <2> QED
    BY <2>3, <2>5, <2>6, <2>7, <2>8 DEF Aborting
<1>10. \A r \in Runs : Halting(r)' <=> stop'[r].pc # "no" \/ out'[OwnerOf[r]].pc # "no"
  BY DEF Halting
<1> QED
  BY <1>8, <1>9, <1>10 DEF HaltInv, On, Undisturbed, Current

LEMMA LaunchNext ==
  ASSUME StateInv, AdmitInv, Next
  PROVE  LaunchInv'
<1>1. ExistInv /\ HaltInv /\ LaunchInv /\ SeenInv
  BY DEF AdmitInv
<1>2. /\ src \in [Runs -> [Sources -> SourceRow]] /\ Providers \subseteq Sources /\ Usage \subseteq Sources
  BY DEF StateInv, BaseInv, Typed, Sources
<1> DEFINE Kind(q) == request'[q].kind = "retry"
           Fine(q, r) ==
             /\ worker'[r] = "no"
             /\ \A s \in Providers : /\ src'[r][s].job = 0 /\ src'[r][s].attempt = 1
                                     /\ src'[r][s].status \in {"absent", "queued"}
             /\ \E s \in Providers : src'[r][s].status = "queued"
             /\ \A s \in Usage : src'[r][s].status \notin Retryable
             /\ \A s \in Providers : s \in request'[q].sel => src'[r][s].status = "queued"
             /\ \A o \in Requests : o # q /\ request'[o].pc # "idle" /\ request'[o].run = r
                                      => Kind(o) /\ request'[o].pc \in {"clean", "prepare"}
<1>3. ASSUME NEW q \in Requests, NEW r \in Runs, request'[q].run = r, Created(q)
      PROVE  Fine(q, r)
  <2> DEFINE S == request'[q].sel
  <2>1. /\ run[r].status = "none" /\ S \subseteq Sources /\ S \cap Providers # {} /\ UNCHANGED worker /\ Others(q)
    BY <1>3 DEF Created
  <2>2. \A s \in Sources : src[r][s] = Absent
    BY <2>1 DEF StateInv, BaseInv, SourceInv
  <2>3. \A s \in Sources : src'[r][s] = IF s \in S THEN [status |-> "queued", job |-> 0, attempt |-> 1] ELSE Absent
    <3>1. PICK auto \in BOOLEAN : Queue(r, S, auto)
      BY <1>3 DEF Created
    <3> QED
      BY <1>2, <2>2, <3>1 DEF Queue, Absent
  <2>4. worker[r] = "no" /\ \A o \in Requests : ~On(o, r)
    BY <1>1, <2>1 DEF ExistInv
  <2>5. \A o \in Requests : o # q => ~(request'[o].pc # "idle" /\ request'[o].run = r)
    BY <2>1, <2>4 DEF Others, On
  <2>6. \E s \in Providers : src'[r][s].status = "queued"
    BY <1>2, <2>1, <2>3
  <2>7. \A s \in Sources : src'[r][s].status \notin Retryable
    BY <2>3 DEF Absent, Retryable
  <2>8. \A s \in Providers : /\ src'[r][s].job = 0 /\ src'[r][s].attempt = 1
                             /\ src'[r][s].status \in {"absent", "queued"}
                             /\ s \in S => src'[r][s].status = "queued"
    BY <1>2, <2>3 DEF Absent
  <2> QED
    BY <1>2, <2>1, <2>4, <2>5, <2>6, <2>7, <2>8
<1>4. ASSUME NEW q \in Requests, NEW r \in Runs,
             request'[q].pc = "launch", request'[q].run = r, ~Kind(q), request'[q].why = "none", Stays(q)
      PROVE  Fine(q, r)
  <2>1. /\ On(q, r) /\ request[q].pc = "launch" /\ ~Retries(q) /\ Undisturbed(q) /\ request'[q].sel = request[q].sel
    BY <1>4 DEF Stays, Alike, On, Retries, Undisturbed
  <2>2. /\ worker[r] = "no"
        /\ \A s \in Providers : Untouched(r, s) /\ src[r][s].status \in {"absent", "queued"}
        /\ \E s \in Providers : src[r][s].status = "queued"
        /\ \A s \in Usage : src[r][s].status \notin Retryable
        /\ \A s \in Providers : s \in request[q].sel => src[r][s].status = "queued"
        /\ \A o \in Requests : o # q /\ On(o, r) => Retries(o) /\ request[o].pc \in {"clean", "prepare"}
    BY <1>1, <2>1 DEF LaunchInv
  <2>3. stop[r].pc = "no" /\ out[OwnerOf[r]].pc = "no" /\ run[r].status # "none"
    BY <1>1, <2>1 DEF HaltInv, Halting, ExistInv
  <2>4. ~Restart
    BY <1>4 DEF Restart, NoRequest
  <2>5. \A o \in Requests : On(o, r) => /\ request[o].pc = "launch" => Undisturbed(o)
                                        /\ request[o].pc \in {"tail", "rest"} => Why(o) = "none"
    BY <2>1, <2>2
  <2>6. \A s \in Providers : src'[r][s] = src[r][s]
    BY <1>1, <2>2, <2>3, <2>4, <2>5, QueuedStays
  <2>7. \A s \in Usage : src'[r][s].status \notin Retryable
    BY <2>2, <2>3, UsageStays
  <2>8. worker'[r] = "no"
    <3>1. \A o \in Requests : ~Launched(o, r)
      BY <1>4, <2>2 DEF Launched
    <3> QED
      BY <2>2, <3>1, WorkerSteps
  <2>9. ASSUME NEW o \in Requests, o # q, request'[o].pc # "idle", request'[o].run = r
        PROVE  Kind(o) /\ request'[o].pc \in {"clean", "prepare"}
    <3>1. CASE Stays(o)
      BY <2>2, <2>9, <3>1 DEF Stays, Alike, On, Retries
    <3>2. CASE Asked(o)
      BY <2>9, <3>2, SyncAssumption DEF Asked
    <3>3. CASE Goes(o)
      <4>1. On(o, r) /\ Retries(o) /\ request[o].pc \in {"clean", "prepare"}
        BY <2>2, <2>9, <3>3 DEF Goes, Alike, On
      <4>2. request'[o].pc # "cancel"
        <5>1. SUFFICES ASSUME RetryPrepare(o), request'[o].pc = "cancel" PROVE FALSE
          BY <3>3, <4>1 DEF Goes
        <5> DEFINE x == request[o].run
                   fresh(s) == IF worker[x] = "no" /\ s \in Providers /\ src[x][s].job # 0 /\ src[x][s].status \in Open \cup {"waiting"}
                               THEN Visible(<<x, s, src[x][s].job>>) ELSE "cleaned"
                   read == [s \in Sources |-> IF fresh(s) # "cleaned" /\ Updatable(x, s, fresh(s), src[x][s].job)
                                              THEN [src[x][s] EXCEPT !.status = fresh(s)] ELSE src[x][s]]
                   able == {s \in Sources : read[s].status \in Retryable}
        <5>2. x = r
          BY <4>1 DEF On
        <5>3. \A s \in Sources : read[s] = src[r][s]
          BY <2>2, <5>2, SyncAssumption DEF Sources, Untouched
        <5>4. \A s \in Sources : src[r][s].status \notin Retryable
          BY <2>2 DEF Sources, Retryable
        <5>5. able = {}
          BY <5>3, <5>4
        <5>6. Answer(o) \/ \E S \in (SUBSET able) \ {{}} : request' = [request EXCEPT ![o].pc = "cancel", ![o].sel = S]
          BY <5>1 DEF RetryPrepare
        <5>7. Answer(o)
          <6> HIDE DEF able
          <6> QED
            BY <5>5, <5>6
        <5> QED
          BY <5>1, <5>7 DEF Answer, NoRequest, StateInv, BaseInv, Typed
      <4> QED
        BY <2>9, <3>3, <4>1, <4>2 DEF Goes, Alike, Retries, RetryCommit
    <3>4. CASE Created(o)
      BY <2>3, <2>9, <3>4 DEF Created
    <3> QED
      BY <2>9, <3>1, <3>2, <3>3, <3>4, RequestSteps DEF Answers
  <2> HIDE DEF Kind
  <2> QED
    BY <2>1, <2>2, <2>6, <2>7, <2>8, <2>9 DEF Untouched
<1>5. ASSUME NEW q \in Requests, NEW r \in Runs,
             request'[q].pc = "launch", request'[q].run = r, ~Kind(q), request'[q].why = "none"
      PROVE  Fine(q, r)
  <2>1. Stays(q) \/ Created(q)
    BY <1>5, RequestSteps DEF Answers, Asked, Goes, Alike, RetryCommit
  <2> HIDE DEF Kind, Fine
  <2> QED
    BY <1>3, <1>4, <1>5, <2>1
<1> QED
  BY <1>5 DEF LaunchInv, On, Retries, Undisturbed, Untouched, Retryable

LEMMA SubmitNext ==
  ASSUME StateInv, AdmitInv, Next
  PROVE  SubmitInv'
<1>1. ExistInv /\ HaltInv /\ LaunchInv /\ RetryInv /\ SeenInv /\ SubmitInv
  BY DEF AdmitInv
<1>2. /\ src \in [Runs -> [Sources -> SourceRow]] /\ work \in [Runs -> [Providers -> WorkRow]]
      /\ request \in [Requests -> RequestRow]
      /\ \A r \in Runs, s \in Providers : src[r][s] \in SourceRow /\ work[r][s] \in WorkRow
  BY DEF StateInv, BaseInv, Typed, Sources
<1> DEFINE Again(r) == \E q \in Requests : /\ request'[q].pc # "idle" /\ request'[q].run = r
                                           /\ request'[q].kind = "retry" /\ request'[q].why = "none"
                                           /\ request'[q].pc \in PreparingPc
           Fine(r, s) == /\ work'[r][s].pc = "attach" => work'[r][s].job = src'[r][s].attempt
                         /\ Again(r) => src'[r][s].job = 0 /\ src'[r][s].attempt = 1 /\ src'[r][s].status = "queued"
<1>3. ASSUME NEW r \in Runs, NEW s \in Providers, NEW q \in Requests, Launched(q, r), work'[r][s].pc \in {"submit", "attach"}
      PROVE  Fine(r, s)
  <2>1. /\ On(q, r) /\ request[q].pc = "launch" /\ Undisturbed(q) /\ request'[q].pc = "tail" /\ Others(q)
        /\ UNCHANGED src /\ work'[r][s].pc = "submit" /\ s \in request[q].sel
    BY <1>3 DEF Launched
  <2>2. ASSUME Again(r)
        PROVE  Untouched(r, s) /\ src[r][s].status = "queued"
    <3>1. PICK o \in Requests : /\ request'[o].pc # "idle" /\ request'[o].run = r
                                /\ request'[o].kind = "retry" /\ request'[o].pc \in PreparingPc
      BY <2>2
    <3>2. o # q /\ request'[o] = request[o]
      BY <2>1, <3>1 DEF Others, PreparingPc
    <3>3. On(o, r) /\ Retries(o)
      BY <3>1, <3>2 DEF On, Retries
    <3>4. ~Retries(q)
      BY <1>1, <2>1, <3>2, <3>3 DEF RetryInv
    <3> QED
      BY <1>1, <2>1, <3>4 DEF LaunchInv
  <2> HIDE DEF Again
  <2> QED
    BY <2>1, <2>2 DEF Untouched
<1>4. ASSUME NEW r \in Runs, NEW s \in Providers, worker[r] = "work", ctl[r] = "none", worker'[r] = "work",
             work'[r][s].pc \in {"submit", "attach"}, work'[r][s] = work[r][s]
      PROVE  Fine(r, s)
  <2>1. /\ work[r][s].pc = "attach" => work[r][s].job = src[r][s].attempt
        /\ Retrying(r) => Untouched(r, s) /\ src[r][s].status = "queued"
    BY <1>1, <1>4 DEF SubmitInv, Current
  <2>2. ~Halting(r) /\ run[r].status # "none"
    BY <1>1, <1>4 DEF HaltInv, Current, ExistInv
  <2>3. \A q \in Requests : On(q, r) => Undisturbed(q)
    BY <1>1, <2>2 DEF HaltInv, Halting
  <2>4. src'[r][s].attempt = src[r][s].attempt
    <3>1. ~Opened(r, s)
      <4>1. SUFFICES ASSUME Opened(r, s) PROVE FALSE
        OBVIOUS
      <4>2. PICK q \in Requests : RetryCommit(q) /\ request[q].run = r
        BY <2>2, <4>1 DEF Opened
      <4>3. On(q, r) /\ Retries(q) /\ Undisturbed(q) /\ request[q].pc \in PreparingPc
        BY <4>2 DEF RetryCommit, On, Retries, Undisturbed, PreparingPc
      <4>4. src[r][s].status = "queued"
        BY <2>1, <4>3 DEF Retrying
      <4> QED
        BY <2>2, <4>1, <4>4 DEF Opened, Retryable
    <3> QED
      BY <3>1, SourceSteps DEF Kept, Moved, Attached
  <2>5. ASSUME Again(r)
        PROVE  src'[r][s].job = 0 /\ src'[r][s].attempt = 1 /\ src'[r][s].status = "queued"
    <3>1. PICK q \in Requests : /\ request'[q].pc # "idle" /\ request'[q].run = r
                                /\ request'[q].kind = "retry" /\ request'[q].why = "none"
                                /\ request'[q].pc \in PreparingPc
      BY <2>5
    <3>2. ~Asked(q)
      <4>1. SUFFICES ASSUME Asked(q) PROVE FALSE
        OBVIOUS
      <4>2. Admit(q, OwnerOf[r], "retry", r)
        BY <3>1, <4>1 DEF Asked
      <4> QED
        BY <1>4, <4>2 DEF Admit
    <3>3. Stays(q) \/ Goes(q)
      BY <3>1, <3>2, RequestSteps DEF Answers, Created
    <3>4. On(q, r) /\ Retries(q) /\ Undisturbed(q) /\ request[q].pc \in PreparingPc
      BY <3>1, <3>3 DEF Stays, Goes, Alike, On, Retries, Undisturbed, PreparingPc, RetryPrepare
    <3>5. Untouched(r, s) /\ src[r][s].status = "queued"
      BY <2>1, <3>4 DEF Retrying
    <3>6. ~WorkAttach(r, s)
      <4>1. SUFFICES ASSUME WorkAttach(r, s) PROVE FALSE
        OBVIOUS
      <4>2. To(r, s, "mark") \/ To(r, s, "clean")
        BY <4>1 DEF WorkAttach
      <4>3. work'[r][s].pc \in {"mark", "clean"}
        BY <1>2, <4>2 DEF To, WorkRow
      <4> QED
        BY <1>4, <4>3
    <3>7. ~Restart
      BY <1>4 DEF Restart
    <3>8. \A o \in Requests : On(o, r) => Undisturbed(o) /\ Why(o) = "none"
      BY <1>4, <2>3 DEF Why, On, Undisturbed
    <3>9. stop[r].pc # "row" /\ out[OwnerOf[r]].pc # "pause"
      BY <2>2 DEF Halting
    <3>10. src'[r][s] = src[r][s]
      BY <1>1, <1>4, <2>2, <3>5, <3>6, <3>7, <3>8, <3>9, QueuedStays
    <3> QED
      BY <3>5, <3>10 DEF Untouched
  <2> HIDE DEF Again
  <2> QED
    BY <1>4, <2>1, <2>4, <2>5
<1>5. ASSUME NEW r \in Runs, NEW s \in Providers, WorkSubmit(r, s), work'[r][s].pc = "attach",
             work'[r][s].job = src[r][s].attempt, Current(r), UNCHANGED <<run, src, request>>
      PROVE  Fine(r, s)
  <2>1. worker[r] = "work" /\ work[r][s].pc = "submit"
    BY <1>5 DEF WorkSubmit, At
  <2>2. Retrying(r) => Untouched(r, s) /\ src[r][s].status = "queued"
    BY <1>1, <1>5, <2>1 DEF SubmitInv
  <2>3. Again(r) => Retrying(r)
    BY <1>5 DEF Retrying, On, Retries, Undisturbed
  <2> HIDE DEF Again
  <2> QED
    BY <1>5, <2>2, <2>3 DEF Untouched
<1>6. ASSUME NEW r \in Runs, NEW s \in Providers, worker'[r] = "work", ctl'[r] = "none",
             work'[r][s].pc \in {"submit", "attach"}
      PROVE  Fine(r, s)
  <2>1. (worker[r] = "work" /\ ctl[r] = "none") \/ \E q \in Requests : Launched(q, r)
    BY <1>6, WorkerSteps
  <2>2. \/ work'[r][s] = work[r][s]
        \/ /\ WorkSubmit(r, s) /\ work'[r][s].pc = "attach" /\ work'[r][s].job = src[r][s].attempt
           /\ Current(r) /\ UNCHANGED <<run, src, request>>
        \/ \E q \in Requests : Launched(q, r)
    BY <1>6, WorkSteps
  <2> HIDE DEF Fine
  <2> QED
    BY <1>3, <1>4, <1>5, <1>6, <2>1, <2>2
<1>7. \A r \in Runs : Again(r) <=> Retrying(r)'
  BY DEF Retrying, On, Retries, Undisturbed
<1> HIDE DEF Again
<1> QED
  BY <1>6, <1>7 DEF SubmitInv, Current, Untouched

LEMMA AdmitInit ==
  ASSUME SyncInit
  PROVE  AdmitInv
<1>1. /\ \A r \in Runs : run[r].status = "none" /\ worker[r] = "no" /\ stop[r].pc = "no"
      /\ \A p \in Principals : out[p].pc = "no"
      /\ \A q \in Requests : request[q].pc = "idle"
      /\ view.pc = "idle"
  BY DEF SyncInit, NoRequest, NoView
<1>2. \A q \in Requests : \A r \in Runs : ~On(q, r)
  BY <1>1 DEF On
<1>3. \A r \in Runs : ~Halting(r) /\ ~RunActive(r)
  BY <1>1 DEF Halting, RunActive, Principals
<1> QED
  BY <1>1, <1>2, <1>3
     DEF AdmitInv, ActiveInv, ExistInv, OutInv, HaltInv, LaunchInv, RetryInv, SeenInv, SubmitInv

LEMMA AdmitNext ==
  ASSUME StateInv, AdmitInv, Next
  PROVE  AdmitInv'
BY ActiveNext, ExistNext, OutNext, HaltNext, LaunchNext, RetryNext, SeenNext, SubmitNext
   DEF AdmitInv

LEMMA AdmitStutters ==
  ASSUME AdmitInv, UNCHANGED syncVars
  PROVE  AdmitInv'
<1> USE DEF syncVars
<1>1. ActiveInv' /\ ExistInv' /\ OutInv' /\ SeenInv'
  BY DEF AdmitInv, ActiveInv, ExistInv, OutInv, SeenInv, RunActive, On, Undisturbed, Untouched
<1>2. HaltInv' /\ RetryInv'
  BY DEF AdmitInv, HaltInv, RetryInv, On, Undisturbed, Halting, Current, Retries
<1>3. LaunchInv'
  BY DEF AdmitInv, LaunchInv, On, Undisturbed, Untouched, Retries
<1>4. SubmitInv'
  BY DEF AdmitInv, SubmitInv, On, Undisturbed, Untouched, Retries, Retrying, Current
<1> QED
  BY <1>1, <1>2, <1>3, <1>4 DEF AdmitInv

-----------------------------------------------------------------------------
(* The job that a source shows                                              *)

LEMMA LinkedNext ==
  ASSUME StateInv, AdmitInv, LinkedJobIsOfThisAttempt, Next
  PROVE  LinkedJobIsOfThisAttempt'
<1>1. linked \subseteq Jobs /\ linked' \subseteq Jobs
  <2>1. StateInv'
    BY StateNext
  <2> QED
    BY <2>1 DEF StateInv, BaseInv, Typed
<1>2. ASSUME NEW r \in Runs, NEW s \in Providers, WorkAttach(r, s), Current(r)
      PROVE  work[r][s].job = src[r][s].attempt
  BY <1>2 DEF WorkAttach, At, AdmitInv, SubmitInv
<1>3. \/ linked' = linked
      \/ \E r \in Runs, s \in Providers : WorkAttach(r, s) /\ Current(r) /\ linked' = linked \cup {Child(r, s)}
  <2>1. linked' = linked \/ \E r \in Runs, s \in Providers : WorkAttach(r, s)
    BY Writers
  <2>2. ASSUME NEW r \in Runs, NEW s \in Providers, WorkAttach(r, s)
        PROVE  linked' = linked \/ (Current(r) /\ linked' = linked \cup {Child(r, s)})
    BY <2>2 DEF WorkAttach
  <2> QED
    BY <2>1, <2>2
<1>4. ASSUME NEW r \in Runs, NEW s \in Providers, NEW n, <<r, s, n>> \in linked'
      PROVE  \/ <<r, s, n>> \in linked
             \/ WorkAttach(r, s) /\ Current(r) /\ n = work[r][s].job
  BY <1>3, <1>4 DEF Child
<1>5. ASSUME NEW r \in Runs, NEW s \in Providers, <<r, s, src'[r][s].job>> \in linked'
      PROVE  src'[r][s].job = src'[r][s].attempt
  <2>1. \/ <<r, s, src'[r][s].job>> \in linked
        \/ src'[r][s].job = src[r][s].attempt
    BY <1>2, <1>4, <1>5
  <2>2. CASE Kept(r, s)
    BY <2>1, <2>2 DEF Kept, LinkedJobIsOfThisAttempt
  <2>3. CASE Moved(r, s)
    BY <2>1, <2>3 DEF Moved
  <2>4. CASE WorkAttach(r, s) /\ Attached(r, s)
    BY <1>2, <2>4 DEF Attached
  <2>5. CASE Opened(r, s)
    <3>1. <<r, s, 0>> \in Jobs
      BY <1>1, <1>5, <2>5 DEF Opened
    <3> QED
      BY <3>1, SyncAssumption
  <2> QED
    BY <2>2, <2>3, <2>4, <2>5, SourceSteps
<1> QED
  BY <1>5 DEF LinkedJobIsOfThisAttempt

(* A source that shows a job some attempt is linked to shows that of its own *)
(* attempt: no worker, status read or retry that comes late gives it back the *)
(* job of an earlier one (db/dataSync.ts attachJob and updateSource).        *)
THEOREM LinkedJobsAreCurrent == Spec => []LinkedJobIsOfThisAttempt
<1> DEFINE Inv == StateInv /\ AdmitInv /\ LinkedJobIsOfThisAttempt
<1>1. SyncInit => Inv
  BY StateInit, AdmitInit DEF LinkedJobIsOfThisAttempt, SyncInit
<1>2. Inv /\ [Next]_syncVars => Inv'
  <2>1. Inv /\ Next => Inv'
    BY StateNext, AdmitNext, LinkedNext
  <2>2. Inv /\ UNCHANGED syncVars => Inv'
    BY StateStutters, AdmitStutters DEF LinkedJobIsOfThisAttempt, syncVars
  <2> QED
    BY <2>1, <2>2
<1>3. Inv => LinkedJobIsOfThisAttempt
  OBVIOUS
<1> HIDE DEF Inv
<1> QED
  BY <1>1, <1>2, <1>3, PTL DEF Spec

-----------------------------------------------------------------------------
(* What a step does to an execution                                         *)

(* It ends, or begins, or goes on: a signal stays, and one that is owed is   *)
(* given; it serves the source that shows it; nothing but its own success    *)
(* makes its row succeed, and that ends it.                                  *)
GoesOn(j) ==
  /\ exec[j] # "idle"
  /\ signal[j] # "none" => signal'[j] # "none"
  /\ j \in aborting => j \in aborting' \/ signal'[j] # "none"
  /\ exec'[j] = "serving" => \/ exec[j] = "serving"
                             \/ signal[j] = "none" /\ Claims(j) /\ UNCHANGED <<run, src>>
  /\ exec[j] = "starting" => exec'[j] = "starting" \/ row[j] = "waiting"
  /\ exec[j] # "starting" => exec'[j] # "starting"
  /\ row'[j] = "succeeded" => row[j] = "succeeded"
  /\ j \in dispatched' => j \in dispatched \/ exec[j] = "marked"

LEMMA ExecSteps ==
  ASSUME RefreshTypeOK, RefreshStep, NEW j \in Jobs
  PROVE  exec'[j] = "idle" \/ Starts(j) \/ GoesOn(j)
<1> DEFINE Goal == exec'[j] = "idle" \/ Starts(j) \/ GoesOn(j)
<1> USE DEF RefreshTypeOK, GoesOn
<1>1. ASSUME UNCHANGED refreshVars
      PROVE  Goal
  BY <1>1
<1>2. ASSUME NEW i \in Jobs, SubmitJob(i)
      PROVE  Goal
  BY <1>2 DEF SubmitJob
<1>3. ASSUME NEW i \in Jobs, Starts(i)
      PROVE  Goal
  <2>1. CASE i = j
    BY <1>3, <2>1
  <2>2. CASE i # j
    BY <1>3, <2>2 DEF Starts, StartRefresh
  <2> QED
    BY <2>1, <2>2
<1>4. ASSUME NEW i \in Jobs, MarkRunning(i)
      PROVE  Goal
  BY <1>4 DEF MarkRunning, Admitted
<1>5. ASSUME NEW i \in Jobs, DenyStart(i)
      PROVE  Goal
  BY <1>5 DEF DenyStart
<1>6. ASSUME NEW i \in Jobs, StopRun(i)
      PROVE  Goal
  BY <1>6 DEF StopRun, Running, Interrupted
<1>7. ASSUME NEW i \in Jobs, LeaveRun(i)
      PROVE  Goal
  BY <1>7 DEF LeaveRun
<1>8. ASSUME NEW i \in Jobs, PublishChild(i)
      PROVE  Goal
  BY <1>8 DEF PublishChild, CompleteJob
<1>9. ASSUME NEW i \in Jobs, AbortCancelled(i)
      PROVE  Goal
  BY <1>9 DEF AbortCancelled, Signalled
<1>10. ASSUME NEW i \in Jobs, LapseJob(i)
       PROVE  Goal
  BY <1>10 DEF LapseJob
<1>11. ASSUME NEW i \in Jobs, ChildBegins(i)
       PROVE  Goal
  BY <1>11 DEF ChildBegins, Dispatch, Interrupted
<1>12. ASSUME NEW S \in SUBSET Jobs, NEW status \in {"cancelled", "cleaned"}, CancelRows(S, status)
       PROVE  Goal
  BY <1>12 DEF CancelRows
<1>13. ASSUME NEW S \in SUBSET Jobs, signal' = Signalled(S, "auth"),
              UNCHANGED <<row, lapsed, exec, dispatched, aborting>>
       PROVE  Goal
  BY <1>13 DEF Signalled
<1>14. ASSUME RecoverJobs
       PROVE  Goal
  BY <1>14 DEF RecoverJobs
<1>15. ASSUME NEW i \in Jobs, LoseStart(i)
       PROVE  Goal
  BY <1>15 DEF LoseStart, Admitted
<1>16. ASSUME NEW i \in Jobs, LoseOutcome(i)
       PROVE  Goal
  BY <1>16 DEF LoseOutcome
<1> HIDE DEF Goal
<1> QED
  BY <1>1, <1>2, <1>3, <1>4, <1>5, <1>6, <1>7, <1>8, <1>9, <1>10, <1>11, <1>12, <1>13, <1>14,
     <1>15, <1>16 DEF RefreshStep, ExecStep, Goal

-----------------------------------------------------------------------------
(* The inductive invariant, third part: a child that its source no longer    *)
(* shows, or will show only late, is cancelled and told, or its failed       *)
(* clean-up is on record or was dropped.                                     *)

Final(j) == row[j] \notin Unfinished \cup {"none"}
Halted(j) == Final(j) /\ (exec[j] \in {"idle", "starting"} \/ signal[j] # "none" \/ j \in aborting)
Debt(j) == j \in dirty[j[1]] \cup owed[j[1]] \cup forgotten
AccountedFor(j) == Halted(j) \/ Debt(j)

LEMMA FinalStays ==
  ASSUME RowsGoOn, NEW j \in Jobs, Final(j)
  PROVE  Final(j)' /\ row'[j] = row[j]
BY DEF RowsGoOn, Final, Unfinished

LEMMA ToldIsHalted ==
  ASSUME RowsGoOn, NEW j \in Jobs, row[j] # "none", Told(j)
  PROVE  Halted(j)'
BY DEF RowsGoOn, Told, Halted, Final

LEMMA HaltedStays ==
  ASSUME RefreshTypeOK, RefreshStep, RowsGoOn, NEW j \in Jobs, Halted(j)
  PROVE  Halted(j)'
<1>1. Final(j) /\ Final(j)' /\ row[j] # "waiting"
  BY FinalStays DEF Halted, Final, Unfinished
<1>2. CASE exec'[j] = "idle"
  BY <1>1, <1>2 DEF Halted
<1>3. CASE Starts(j)
  <2>1. exec'[j] = "starting"
    BY <1>3 DEF Starts, StartRefresh, RefreshTypeOK
  <2> QED
    BY <1>1, <2>1 DEF Halted
<1>4. CASE GoesOn(j)
  BY <1>1, <1>4 DEF GoesOn, Halted
<1> QED
  BY <1>2, <1>3, <1>4, ExecSteps

(* A debt is settled by telling the child, unless the process restarts.     *)
LEMMA DebtStays ==
  ASSUME Typed, TrackStep, ~Restart, NEW j \in Jobs, Debt(j)
  PROVE  Debt(j)' \/ Told(j)
<1>1. /\ dirty \in [Runs -> SUBSET Jobs] /\ owed \in [Runs -> SUBSET Jobs] /\ j[1] \in Runs
  BY JobIsChild DEF Typed
<1>2. CASE UNCHANGED <<kids, dirty, debtVars>>
  BY <1>2 DEF Debt
<1>3. CASE \E r \in Runs, K, D, O, F \in SUBSET Jobs : Tracks(r, K, D, O, F)
  <2>1. PICK r \in Runs, K \in SUBSET Jobs, D \in SUBSET Jobs, O \in SUBSET Jobs, F \in SUBSET Jobs : Tracks(r, K, D, O, F)
    BY <1>3
  <2>2. /\ dirty' = [dirty EXCEPT ![r] = D] /\ owed' = [owed EXCEPT ![r] = O] /\ forgotten' = F
        /\ forgotten \subseteq F
        /\ \A i \in (dirty[r] \cup owed[r]) \ (D \cup O \cup F) : Told(i)
    BY <2>1 DEF Tracks
  <2>3. CASE j[1] = r
    <3>1. dirty'[j[1]] = D /\ owed'[j[1]] = O
      BY <1>1, <2>2, <2>3
    <3> QED
      BY <2>2, <2>3, <3>1 DEF Debt
  <2>4. CASE j[1] # r
    <3>1. dirty'[j[1]] = dirty[j[1]] /\ owed'[j[1]] = owed[j[1]]
      BY <1>1, <2>2, <2>4
    <3> QED
      BY <2>2, <3>1 DEF Debt
  <2> QED
    BY <2>3, <2>4
<1> QED
  BY <1>2, <1>3 DEF TrackStep

LEMMA AccountedStays ==
  ASSUME StateInv, Next, ~Restart, NEW j \in Jobs, row[j] # "none", AccountedFor(j)
  PROVE  AccountedFor(j)'
<1>1. Typed /\ RefreshTypeOK /\ RowsGoOn
  BY StateNext DEF StateInv, BaseInv, Typed
<1>2. RefreshStep /\ TrackStep
  BY RefreshSteps DEF StateInv, BaseInv
<1>3. CASE Halted(j)
  BY <1>1, <1>2, <1>3, HaltedStays DEF AccountedFor
<1>4. CASE Debt(j)
  BY <1>1, <1>2, <1>4, DebtStays, ToldIsHalted DEF AccountedFor
<1> QED
  BY <1>3, <1>4 DEF AccountedFor

-----------------------------------------------------------------------------
(* Who gives a source a job                                                 *)

(* Source s of run r keeps its job; it is not queued again, and it stays saved. *)
Shows(r, s) ==
  /\ src'[r][s].job = src[r][s].job
  /\ src'[r][s].status = "queued" => src[r][s].status = "queued"
  /\ src[r][s].status = "succeeded" => src'[r][s].status = "succeeded"

(* It is opened for a new attempt.                                          *)
Reopened(r, s) ==
  /\ src'[r][s].job = 0
  /\ \/ run[r].status = "none"
     \/ \E q \in Requests : /\ RetryCommit(q) /\ request[q].run = r /\ request'[q].pc \in {"launch", "idle"}
                            /\ s \in request[q].sel /\ src[r][s].status \in Retryable

(* A report of its worker, or a status read, gives it a job.                *)
Updated(r, s, n) ==
  /\ n # 0 /\ src[r][s].job \in {0, n} /\ (<<r, s, n>> \in linked => src[r][s].attempt = n)
  /\ src'[r][s].job = n /\ src'[r][s].status # "queued" /\ src[r][s].status # "succeeded"

LEMMA JobSteps ==
  ASSUME StateInv, Next, NEW r \in Runs, NEW s \in Providers
  PROVE  \/ Shows(r, s)
         \/ WorkAttach(r, s) /\ Current(r) /\ src'[r][s] = [src[r][s] EXCEPT !.job = work[r][s].job]
         \/ Reopened(r, s)
         \/ ViewWrite /\ view.run = r /\ view.source = s /\ Updated(r, s, view.job)
         \/ /\ work[r][s].pc \in {"mark", "report", "fail"} /\ Updated(r, s, work[r][s].job)
<1> DEFINE Goal == \/ Shows(r, s)
                   \/ WorkAttach(r, s) /\ Current(r) /\ src'[r][s] = [src[r][s] EXCEPT !.job = work[r][s].job]
                   \/ Reopened(r, s)
                   \/ ViewWrite /\ view.run = r /\ view.source = s /\ Updated(r, s, view.job)
                   \/ /\ work[r][s].pc \in {"mark", "report", "fail"} /\ Updated(r, s, work[r][s].job)
<1>1. /\ src \in [Runs -> [Sources -> SourceRow]] /\ s \in Sources /\ s \notin Usage
      /\ src[r][s] \in SourceRow /\ \A x \in Runs : src[x] \in [Sources -> SourceRow]
      /\ Providers \subseteq Sources /\ Usage \subseteq Sources
      /\ work \in [Runs -> [Providers -> WorkRow]] /\ \A x \in Runs, y \in Providers : work[x][y] \in WorkRow
  <2>1. s \in Sources /\ s \notin Usage /\ Providers \subseteq Sources /\ Usage \subseteq Sources
    BY SyncAssumption DEF Sources
  <2>2. src \in [Runs -> [Sources -> SourceRow]] /\ work \in [Runs -> [Providers -> WorkRow]]
    BY DEF StateInv, BaseInv, Typed
  <2> QED
    BY <2>1, <2>2
<1>s. ASSUME src'[r][s] = src[r][s]
      PROVE  Goal
  BY <1>s DEF Shows
<1>t. ASSUME NEW status \in SourceStatus \ {"queued"}, src'[r][s] = [src[r][s] EXCEPT !.status = status],
             src[r][s].status = "succeeded" => status = "succeeded"
      PROVE  Goal
  BY <1>1, <1>t DEF Shows, SourceRow
<1>u. ASSUME NEW x \in Runs, NEW y \in Sources, NEW status \in SourceStatus \ {"queued"}, NEW n, UpdateSource(x, y, status, n)
      PROVE  \/ src'[r][s] = src[r][s]
             \/ x = r /\ y = s /\ n = 0 /\ Shows(r, s)
             \/ x = r /\ y = s /\ n # 0 /\ Updated(r, s, n)
  <2> DEFINE g == [src[x][y] EXCEPT !.status = status, !.job = IF n = 0 THEN @ ELSE n]
             f == [src[x] EXCEPT ![y].status = status, ![y].job = IF n = 0 THEN @ ELSE n]
  <2>1. \/ src' = src
        \/ Updatable(x, y, status, n) /\ src' = [src EXCEPT ![x] = f]
    BY <1>u DEF UpdateSource, SetSources
  <2>2. CASE src' = src
    BY <2>2
  <2>3. CASE Updatable(x, y, status, n) /\ src' = [src EXCEPT ![x] = f]
    <3>1. src'[x] = f
      BY <1>1, <2>3
    <3>2. f[y].status = status /\ f[y].job = (IF n = 0 THEN src[x][y].job ELSE n)
      BY <1>1 DEF SourceRow
    <3>3. \A z \in Sources \ {y} : f[z] = src[x][z]
      BY <1>1
    <3>4. \A z \in Runs \ {x} : src'[z] = src[z]
      BY <1>1, <2>3
    <3> HIDE DEF f
    <3>5. CASE x = r /\ y = s
      BY <2>3, <3>1, <3>2, <3>5 DEF Updatable, Shows, Updated
    <3>6. CASE ~(x = r /\ y = s)
      BY <1>1, <3>1, <3>3, <3>4, <3>6
    <3> QED
      BY <3>5, <3>6
  <2> QED
    BY <2>1, <2>2, <2>3
<1>2. ASSUME NEW x \in Runs, NEW y \in Providers, WorkMark(x, y) \/ WorkReport(x, y) \/ WorkFail(x, y)
      PROVE  Goal
  <2>1. work[x][y].pc \in {"mark", "report", "fail"}
    BY <1>2 DEF WorkMark, WorkReport, WorkFail, At
  <2>2. UNCHANGED src \/ \E status \in SourceStatus \ {"queued"} : UpdateSource(x, y, status, work[x][y].job)
    <3>1. "running" \in SourceStatus \ {"queued"} /\ {"cancelled", "waiting", "failed"} \subseteq SourceStatus \ {"queued"}
      BY DEF SourceStatus, Open, Retryable
    <3>2. CASE WorkMark(x, y)
      BY <3>1, <3>2 DEF WorkMark
    <3>3. CASE WorkReport(x, y)
      <4>1. work[x][y].seen \in JobStatus \ {"none"}
        BY <1>1, <3>3 DEF WorkReport, At, StateInv, BaseInv, WorkInv, WorkRow, Seen
      <4>2. work[x][y].seen # "cleaned" => work[x][y].seen \in SourceStatus \ {"queued"}
        BY <4>1 DEF JobStatus, SourceStatus, Open, Retryable
      <4> QED
        BY <3>3, <4>2 DEF WorkReport
    <3>4. CASE WorkFail(x, y)
      <4>1. ctl[x] \in {"cancel", "auth", "none"}
        BY DEF StateInv, BaseInv, Typed, Reason
      <4>2. CASE UNCHANGED src
        BY <4>2
      <4>3. CASE ~UNCHANGED src /\ ctl[x] = "cancel"
        BY <3>1, <3>4, <4>3 DEF WorkFail
      <4>4. CASE ~UNCHANGED src /\ ctl[x] = "auth"
        BY <3>1, <3>4, <4>4 DEF WorkFail
      <4>5. CASE ~UNCHANGED src /\ ctl[x] = "none"
        <5>1. \E status \in {"failed"} \cup (IF work[x][y].job = 0 \/ work[x][y].seen = "denied" THEN {"waiting"} ELSE {}) :
                 UpdateSource(x, y, status, work[x][y].job)
          BY <3>4, <4>5 DEF WorkFail
        <5> QED
          BY <3>1, <5>1
      <4> QED
        BY <4>1, <4>2, <4>3, <4>4, <4>5
    <3> QED
      BY <1>2, <3>2, <3>3, <3>4
  <2>3. y \in Sources
    BY <1>1
  <2>4. CASE UNCHANGED src
    BY <1>s, <2>4
  <2>5. CASE \E status \in SourceStatus \ {"queued"} : UpdateSource(x, y, status, work[x][y].job)
    <3>1. \/ src'[r][s] = src[r][s]
          \/ x = r /\ y = s /\ Shows(r, s)
          \/ x = r /\ y = s /\ Updated(r, s, work[x][y].job)
      BY <1>u, <2>3, <2>5
    <3> QED
      BY <1>s, <2>1, <3>1
  <2> HIDE DEF Goal
  <2> QED
    BY <2>2, <2>4, <2>5
<1>3. ASSUME NEW x \in Runs, NEW y \in Providers, WorkAttach(x, y)
      PROVE  Goal
  <2>1. src' = src \/ (Current(x) /\ src' = [src EXCEPT ![x][y].job = work[x][y].job])
    BY <1>3 DEF WorkAttach
  <2>2. CASE x = r /\ y = s /\ src' # src
    <3>1. Current(r) /\ src' = [src EXCEPT ![r][s].job = work[r][s].job]
      BY <2>1, <2>2
    <3>2. src'[r][s] = [src[r][s] EXCEPT !.job = work[r][s].job]
      BY <1>1, <3>1
    <3> QED
      BY <1>3, <2>2, <3>1, <3>2
  <2>3. CASE ~(x = r /\ y = s) \/ src' = src
    <3>1. src'[r][s] = src[r][s]
      BY <1>1, <2>1, <2>3
    <3> QED
      BY <1>s, <3>1
  <2> HIDE DEF Goal
  <2> QED
    BY <2>2, <2>3
<1>4. ASSUME NEW x \in Runs, WorkCatch(x)
      PROVE  Goal
  <2> DEFINE left == {y \in Providers : work[x][y].pc # "off" /\ src[x][y].status \in Open}
             f(status) == [y \in Sources |-> IF y \in left THEN [src[x][y] EXCEPT !.status = status] ELSE src[x][y]]
  <2>1. UNCHANGED src \/ \E status \in {"failed", "waiting"} : src' = [src EXCEPT ![x] = f(status)]
    BY <1>4 DEF WorkCatch, SetSources
  <2>2. CASE UNCHANGED src
    BY <1>s, <2>2
  <2>3. ASSUME NEW status \in {"failed", "waiting"}, src' = [src EXCEPT ![x] = f(status)]
        PROVE  Goal
    <3>1. status \in SourceStatus \ {"queued"}
      BY DEF SourceStatus, Retryable
    <3>2. x # r => src'[r][s] = src[r][s]
      BY <1>1, <2>3
    <3>3. x = r => src'[r][s] = f(status)[s]
      BY <1>1, <2>3
    <3>4. x = r => f(status)[s] = IF s \in left THEN [src[r][s] EXCEPT !.status = status] ELSE src[r][s]
      BY <1>1
    <3>5. x = r /\ s \in left => src[r][s].status # "succeeded"
      BY DEF Open
    <3> HIDE DEF f, left, Goal
    <3> QED
      BY <1>s, <1>t, <3>1, <3>2, <3>3, <3>4, <3>5
  <2> HIDE DEF Goal, f
  <2> QED
    BY <2>1, <2>2, <2>3
<1>5. ASSUME NEW x \in Runs, NEW y \in Usage, ReadUsage(x, y)
      PROVE  Goal
  <2>1. \E status \in {"succeeded", "upload"} : UpdateSource(x, y, status, 0)
    BY <1>5 DEF ReadUsage
  <2>2. {"succeeded", "upload"} \subseteq SourceStatus \ {"queued"} /\ y \in Sources /\ y # s
    BY <1>1 DEF SourceStatus, Open, Retryable
  <2> QED
    BY <1>s, <1>u, <2>1, <2>2
<1>6. ASSUME NEW j \in Jobs, PublishChild(j)
      PROVE  Goal
  <2>1. j[1] \in Runs /\ j[2] \in Providers
    BY JobIsChild
  <2>2. \/ UNCHANGED src
        \/ src' = [src EXCEPT ![j[1]] = [src[j[1]] EXCEPT ![j[2]].status = "succeeded"]]
    BY <1>6 DEF PublishChild, SetSources
  <2>3. src'[r][s] = src[r][s] \/ src'[r][s] = [src[r][s] EXCEPT !.status = "succeeded"]
    <3> DEFINE f == [src[j[1]] EXCEPT ![j[2]].status = "succeeded"]
    <3>1. j[1] = r /\ j[2] = s => f[s] = [src[r][s] EXCEPT !.status = "succeeded"]
      BY <1>1, <2>1
    <3>2. j[1] = r /\ j[2] # s => f[s] = src[r][s]
      BY <1>1, <2>1
    <3>3. src' = src \/ src' = [src EXCEPT ![j[1]] = f]
      BY <2>2
    <3> HIDE DEF f
    <3>4. src'[r][s] = src[r][s] \/ (j[1] = r /\ src'[r][s] = f[s])
      BY <1>1, <2>1, <3>3
    <3> QED
      BY <3>1, <3>2, <3>4
  <2>4. "succeeded" \in SourceStatus \ {"queued"}
    BY DEF SourceStatus, Open, Retryable
  <2> HIDE DEF Goal
  <2> QED
    BY <1>s, <1>t, <2>3, <2>4
<1>7. ASSUME NEW x \in Runs, NEW S, NEW auto, Queue(x, S, auto), x = r /\ s \in S => Reopened(r, s) \/ src'[r][s].job # 0
      PROVE  Goal
  <2> DEFINE f == [y \in Sources |-> IF y \in S THEN [status |-> "queued", job |-> 0,
                        attempt |-> IF src[x][y].status = "absent" THEN 1 ELSE src[x][y].attempt + 1]
                        ELSE src[x][y]]
  <2>1. src' = [src EXCEPT ![x] = f]
    BY <1>7 DEF Queue
  <2>2. x # r => src'[r][s] = src[r][s]
    BY <1>1, <2>1
  <2>3. x = r => src'[r][s] = f[s]
    BY <1>1, <2>1
  <2>4. s \notin S => f[s] = src[x][s]
    BY <1>1
  <2>5. s \in S => f[s].job = 0
    BY <1>1
  <2> HIDE DEF f, Goal
  <2>6. CASE x = r /\ s \in S
    BY <1>7, <2>3, <2>5, <2>6 DEF Goal
  <2>7. CASE ~(x = r /\ s \in S)
    BY <1>s, <2>2, <2>3, <2>4, <2>7
  <2> QED
    BY <2>6, <2>7
<1>8. ASSUME NEW q \in Requests, StartCommit(q) \/ DueCommit(q)
      PROVE  Goal
  <2>1. UNCHANGED src \/ \E x \in Fresh(request[q].who) : \E S, auto : Queue(x, S, auto)
    BY <1>8 DEF StartCommit, DueCommit, Create
  <2>2. \A x \in Fresh(request[q].who) : x \in Runs /\ run[x].status = "none"
    BY DEF Fresh, RunsOf
  <2> HIDE DEF Goal
  <2>3. UNCHANGED src => Goal
    BY <1>s
  <2>4. ASSUME NEW x \in Fresh(request[q].who), NEW S, NEW auto, Queue(x, S, auto)
        PROVE  Goal
    <3>1. x = r => Reopened(r, s) \/ src'[r][s].job # 0
      BY <2>2 DEF Reopened
    <3> QED
      BY <1>7, <2>2, <2>4, <3>1
  <2> QED
    BY <2>1, <2>3, <2>4
<1>9. ASSUME NEW q \in Requests, RetryPrepare(q)
      PROVE  Goal
  <2> DEFINE x == request[q].run
             fresh(y) == IF worker[x] = "no" /\ y \in Providers /\ src[x][y].job # 0 /\ src[x][y].status \in Open \cup {"waiting"}
                         THEN Visible(<<x, y, src[x][y].job>>) ELSE "cleaned"
             read == [y \in Sources |-> IF fresh(y) # "cleaned" /\ Updatable(x, y, fresh(y), src[x][y].job)
                                        THEN [src[x][y] EXCEPT !.status = fresh(y)] ELSE src[x][y]]
  <2>1. src' = [src EXCEPT ![x] = read] /\ x \in Runs
    BY <1>9 DEF RetryPrepare, SetSources, StateInv, BaseInv, RequestInv, RunsOf
  <2>2. x # r => src'[r][s] = src[r][s]
    BY <1>1, <2>1
  <2>3. x = r => src'[r][s] = read[s]
    BY <1>1, <2>1
  <2>4. read[s] = IF fresh(s) # "cleaned" /\ Updatable(x, s, fresh(s), src[x][s].job)
                  THEN [src[x][s] EXCEPT !.status = fresh(s)] ELSE src[x][s]
    BY <1>1
  <2>5. fresh(s) # "cleaned" /\ x = r => fresh(s) \in SourceStatus \ {"queued"}
    <3>1. SUFFICES ASSUME fresh(s) # "cleaned", x = r PROVE fresh(s) \in SourceStatus \ {"queued"}
      OBVIOUS
    <3>2. src[r][s].job # 0 /\ fresh(s) = Visible(<<r, s, src[r][s].job>>)
      BY <3>1
    <3>3. <<r, s, src[r][s].job>> \in Jobs /\ row[<<r, s, src[r][s].job>>] # "none"
      BY <1>1, <3>2, ChildIsJob DEF SourceRow, StateInv, BaseInv, SourceInv, Submitted
    <3>4. row[<<r, s, src[r][s].job>>] \in JobStatus \ {"none"}
      BY <3>3 DEF StateInv, BaseInv, Typed, RefreshTypeOK
    <3>5. fresh(s) \in JobStatus \ {"none"}
      <4> HIDE DEF fresh
      <4> QED
        BY <3>2, <3>4 DEF Visible, JobStatus
    <3> HIDE DEF fresh
    <3> QED
      BY <3>1, <3>5 DEF JobStatus, SourceStatus, Open, Retryable
  <2>6. Updatable(x, s, fresh(s), src[x][s].job) => src[x][s].status # "succeeded"
    BY DEF Updatable
  <2> HIDE DEF read, fresh, Goal, x
  <2> QED
    BY <1>s, <1>t, <2>2, <2>3, <2>4, <2>5, <2>6
<1>10. ASSUME NEW q \in Requests, RetryCommit(q)
       PROVE  Goal
  <2> DEFINE x == request[q].run
             Retried == /\ Queue(x, request[q].sel, run[x].auto)
                        /\ \A y \in request[q].sel : src[x][y].status \in Retryable
                        /\ request'[q].pc \in {"launch", "idle"}
  <2>1. request[q].run \in Runs /\ request[q] \in RequestRow /\ request \in [Requests -> RequestRow]
    BY <1>10 DEF RetryCommit, StateInv, BaseInv, RequestInv, RunsOf, Typed
  <2>2. Step(q, "launch") \/ Answer(q) => request'[q].pc \in {"launch", "idle"}
    BY <2>1 DEF Step, Answer, NoRequest, RequestRow
  <2>3. UNCHANGED src \/ Retried
    BY <1>10, <2>2 DEF RetryCommit
  <2>4. Retried => Queue(x, request[q].sel, run[x].auto)
    OBVIOUS
  <2>5. Retried => (x = r /\ s \in request[q].sel => Reopened(r, s) \/ src'[r][s].job # 0)
    BY <1>10 DEF Reopened
  <2>6. x \in Runs
    BY <2>1
  <2> HIDE DEF Goal, Retried, x
  <2>7. UNCHANGED src => Goal
    BY <1>s
  <2>8. ASSUME Retried
        PROVE  Goal
    BY <1>7, <2>4, <2>5, <2>6, <2>8
  <2> QED
    BY <2>3, <2>7, <2>8
<1>11. ASSUME NEW R, PauseRuns(R)
       PROVE  Goal
  <2>1. src'[r][s] = src[r][s] \/ (src[r][s].status \in Open /\ src'[r][s] = [src[r][s] EXCEPT !.status = "waiting"])
    BY <1>1, <1>11 DEF PauseRuns
  <2>2. "waiting" \in SourceStatus \ {"queued"} /\ "succeeded" \notin Open
    BY DEF SourceStatus, Open, Retryable
  <2> HIDE DEF Goal
  <2> QED
    BY <1>s, <1>t, <2>1, <2>2
<1>12. ASSUME NEW q \in Requests, Launch(q) \/ Tail(q)
       PROVE  Goal
  <2>1. UNCHANGED src \/ PauseRuns({request[q].run})
    BY <1>12 DEF Launch, Tail
  <2> HIDE DEF Goal
  <2> QED
    BY <1>s, <1>11, <2>1
<1>13. ASSUME NEW p \in Principals, SignOutPause(p)
       PROVE  Goal
  BY <1>11, <1>13 DEF SignOutPause
<1>14. ASSUME ViewWrite
       PROVE  Goal
  <2>1. view.run \in Runs /\ view.source \in Providers /\ view.seen \in JobStatus \ {"none"} /\ view.job # 0
    BY <1>14 DEF ViewWrite, StateInv, BaseInv, ViewInv, Typed, ViewRow, SeenOf, Submitted
  <2>2. UNCHANGED src \/ (view.seen # "cleaned" /\ UpdateSource(view.run, view.source, view.seen, view.job))
    BY <1>14 DEF ViewWrite
  <2>3. view.seen # "cleaned" => view.seen \in SourceStatus \ {"queued"}
    BY <2>1 DEF JobStatus, SourceStatus, Open, Retryable
  <2>4. view.source \in Sources
    BY <1>1, <2>1
  <2>5. \/ src'[r][s] = src[r][s]
        \/ view.run = r /\ view.source = s /\ Updated(r, s, view.job)
    BY <1>u, <2>1, <2>2, <2>3, <2>4
  <2> QED
    BY <1>s, <1>14, <2>5
<1>15. ASSUME NEW x \in Runs, CancelRow(x)
       PROVE  Goal
  <2> DEFINE f == [y \in Sources |-> IF src[x][y].status \in {"absent", "succeeded"} THEN src[x][y]
                                     ELSE [src[x][y] EXCEPT !.status = "cancelled"]]
  <2>1. UNCHANGED src \/ src' = [src EXCEPT ![x] = f]
    BY <1>15 DEF CancelRow
  <2>2. f[s] = IF src[x][s].status \in {"absent", "succeeded"} THEN src[x][s] ELSE [src[x][s] EXCEPT !.status = "cancelled"]
    BY <1>1
  <2>3. src'[r][s] = src[r][s] \/ (x = r /\ src'[r][s] = f[s])
    <3> HIDE DEF f
    <3> QED
      BY <1>1, <2>1
  <2>4. "cancelled" \in SourceStatus \ {"queued"}
    BY DEF SourceStatus, Open, Retryable
  <2> HIDE DEF f, Goal
  <2> QED
    BY <1>s, <1>t, <2>2, <2>3, <2>4
<1>16. ASSUME Restart
       PROVE  Goal
  <2> DEFINE left(y) == [z \in Sources |-> IF RunActive(y) /\ z \in Providers /\ src[y][z].status \in Open
                                           THEN [src[y][z] EXCEPT !.status = "waiting"] ELSE src[y][z]]
  <2>1. src' = [y \in Runs |-> left(y)]
    BY <1>16 DEF Restart
  <2>2. src'[r][s] = left(r)[s]
    BY <2>1
  <2>3. left(r)[s] = src[r][s] \/ (src[r][s].status \in Open /\ left(r)[s] = [src[r][s] EXCEPT !.status = "waiting"])
    BY <1>1
  <2>4. "waiting" \in SourceStatus \ {"queued"} /\ "succeeded" \notin Open
    BY DEF SourceStatus, Open, Retryable
  <2> HIDE DEF left, Goal
  <2> QED
    BY <1>s, <1>t, <2>2, <2>3, <2>4
<1>17. ASSUME UNCHANGED src
       PROVE  Goal
  BY <1>s, <1>17
<1>18. UNCHANGED <<run, src>> \/ DbWrite
  BY Writers
<1>19. \A x \in Runs : WorkFinish(x) => UNCHANGED src
  BY DEF WorkFinish
<1>20. \A q \in Requests : DuePrepare(q) => UNCHANGED src
  BY DEF DuePrepare
<1> HIDE DEF Goal
<1> QED
  BY <1>2, <1>3, <1>4, <1>5, <1>6, <1>8, <1>9, <1>10, <1>12, <1>13, <1>14, <1>15, <1>16, <1>17,
     <1>18, <1>19, <1>20
     DEF DbWrite, Goal

-----------------------------------------------------------------------------
(* Where the worker of a source, a cancellation and a sign-out go           *)

LEMMA WorkMoves ==
  ASSUME StateInv, Next, NEW r \in Runs, NEW s \in Providers
  PROVE  \/ work'[r][s] = work[r][s]
         \/ WorkStep(r, s)
         \/ WorkFinish(r) /\ work'[r][s] = Idle
         \/ Restart /\ work'[r][s] = Idle
         \/ \E q \in Requests : Launched(q, r)
<1> DEFINE Goal == \/ work'[r][s] = work[r][s]
                   \/ WorkStep(r, s)
                   \/ WorkFinish(r) /\ work'[r][s] = Idle
                   \/ Restart /\ work'[r][s] = Idle
                   \/ \E q \in Requests : Launched(q, r)
<1>1. work \in [Runs -> [Providers -> WorkRow]] /\ \A x \in Runs : work[x] \in [Providers -> WorkRow]
  BY DEF StateInv, BaseInv, Typed
<1>2. ASSUME NEW q \in Requests, Launch(q)
      PROVE  Goal
  <2>1. CASE work' = work
    BY <2>1
  <2>2. CASE work' # work /\ r = request[q].run
    BY <1>2, <2>2, LaunchSteps
  <2>3. CASE work' # work /\ r # request[q].run
    BY <1>2, <2>3, LaunchSteps
  <2> QED
    BY <2>1, <2>2, <2>3
<1>3. ASSUME Restart
      PROVE  Goal
  BY <1>3 DEF Restart
<1>4. ASSUME NEW x \in Runs, WorkFinish(x)
      PROVE  Goal
  <2>1. work' = [work EXCEPT ![x] = [y \in Providers |-> Idle]]
    BY <1>4 DEF WorkFinish
  <2> QED
    BY <1>1, <1>4, <2>1
<1>5. ASSUME NEW x \in Runs, NEW y \in Providers, WorkStep(x, y)
      PROVE  Goal
  <2>1. CASE x = r /\ y = s
    BY <1>5, <2>1
  <2>2. CASE ~(x = r /\ y = s)
    <3>1. \E w : work' = [work EXCEPT ![x][y] = w]
      <4> DEFINE Other == \E w : work' = [work EXCEPT ![x][y] = w]
      <4>1. ASSUME NEW pc, To(x, y, pc) PROVE Other
        BY <1>1, <4>1 DEF To
      <4>2. CASE WorkSubmit(x, y)
        BY <4>1, <4>2 DEF WorkSubmit
      <4>3. CASE WorkStarted(x, y) \/ WorkPoll(x, y)
        BY <4>3 DEF WorkStarted, WorkPoll
      <4>4. CASE WorkAttach(x, y) \/ WorkMark(x, y) \/ WorkStart(x, y) \/ WorkReport(x, y) \/ WorkClean(x, y) \/ WorkFail(x, y)
        <5>1. \E pc : To(x, y, pc)
          BY <4>4 DEF WorkAttach, WorkMark, WorkStart, WorkReport, WorkClean, WorkFail
        <5>2. Other
          <6> HIDE DEF Other
          <6> QED
            BY <4>1, <5>1
        <5> QED
          BY <5>2
      <4> QED
        BY <1>5, <4>2, <4>3, <4>4 DEF WorkStep
    <3>2. PICK w : work' = [work EXCEPT ![x][y] = w]
      BY <3>1
    <3>3. work'[r][s] = work[r][s]
      BY <1>1, <2>2, <3>2
    <3> QED
      BY <3>3
  <2> QED
    BY <2>1, <2>2
<1>6. UNCHANGED work \/ WorkWrite
  BY Writers
<1>7. ASSUME UNCHANGED work
      PROVE  Goal
  BY <1>7
<1> HIDE DEF Goal
<1> QED
  BY <1>2, <1>3, <1>4, <1>5, <1>6, <1>7 DEF WorkWrite, Goal

(* It takes up a linked job only where it attached it, keeps it, and lets go *)
(* of a job only after its clean-up.                                        *)
LinkedPc == {"mark", "start", "starting", "report", "poll"}
Attaches(r, s) == /\ WorkAttach(r, s) /\ Current(r) /\ work'[r][s].pc = "mark"
                  /\ linked' = linked \cup {Child(r, s)} /\ src[r][s].job \in {0, work[r][s].job}
                  /\ src' = [src EXCEPT ![r][s].job = work[r][s].job]

LEMMA WorkGoes ==
  ASSUME StateInv, Next, NEW r \in Runs, NEW s \in Providers
  PROVE  \/ work'[r][s] = work[r][s]
         \/ work'[r][s].pc \in {"off", "submit", "attach", "clean", "done", "threw"}
         \/ work'[r][s].job = work[r][s].job /\ work'[r][s].pc = "mark" /\ Attaches(r, s)
         \/ work'[r][s].job = work[r][s].job /\ work[r][s].pc \in LinkedPc /\ work'[r][s].pc \in LinkedPc \ {"mark"}
         \/ work'[r][s].job = work[r][s].job /\ work'[r][s].pc = "fail" /\ (work[r][s].job = 0 \/ WorkClean(r, s))
<1> DEFINE w == work[r][s]
           v == work'[r][s]
           Goal == \/ v = w
                   \/ v.pc \in {"off", "submit", "attach", "clean", "done", "threw"}
                   \/ v.job = w.job /\ v.pc = "mark" /\ Attaches(r, s)
                   \/ v.job = w.job /\ w.pc \in LinkedPc /\ v.pc \in LinkedPc \ {"mark"}
                   \/ v.job = w.job /\ v.pc = "fail" /\ (w.job = 0 \/ WorkClean(r, s))
<1>1. /\ work \in [Runs -> [Providers -> WorkRow]] /\ \A x \in Runs : work[x] \in [Providers -> WorkRow]
      /\ w \in WorkRow /\ WorkInv
  BY DEF StateInv, BaseInv, Typed
<1>2. ASSUME NEW pc, To(r, s, pc)
      PROVE  v.pc = pc /\ v.job = w.job
  <2>1. v = [w EXCEPT !.pc = pc]
    BY <1>1, <1>2 DEF To
  <2> QED
    BY <1>1, <2>1 DEF WorkRow
<1>3. CASE WorkSubmit(r, s)
  <2>1. CASE To(r, s, "fail")
    <3>1. w.pc = "submit" /\ w.job = 0
      BY <1>1, <1>3 DEF WorkSubmit, At, WorkInv
    <3> QED
      BY <1>2, <2>1, <3>1
  <2>2. CASE work' = [work EXCEPT ![r][s] = [@ EXCEPT !.pc = "attach", !.job = src[r][s].attempt]]
    <3>1. v.pc = "attach"
      BY <1>1, <2>2 DEF WorkRow
    <3> QED
      BY <3>1
  <2> QED
    BY <1>3, <2>1, <2>2 DEF WorkSubmit
<1>4. CASE WorkAttach(r, s)
  <2>1. CASE To(r, s, "clean")
    BY <1>2, <2>1
  <2>2. CASE ~To(r, s, "clean")
    <3>1. To(r, s, "mark")
      BY <1>4, <2>2 DEF WorkAttach
    <3>2. v.pc = "mark" /\ v.job = w.job
      BY <1>2, <3>1
    <3>3. Attaches(r, s)
      BY <1>4, <2>2, <3>2 DEF WorkAttach, Attaches
    <3> QED
      BY <3>2, <3>3
  <2> QED
    BY <2>1, <2>2
<1>5. CASE WorkMark(r, s) \/ WorkStart(r, s)
  <2>1. w.pc \in LinkedPc /\ \E pc \in {"start", "starting", "clean"} : To(r, s, pc)
    BY <1>5 DEF WorkMark, WorkStart, At, LinkedPc
  <2>2. PICK pc \in {"start", "starting", "clean"} : To(r, s, pc)
    BY <2>1
  <2>3. v.pc = pc /\ v.job = w.job
    BY <1>2, <2>2
  <2> QED
    BY <2>1, <2>3 DEF LinkedPc
<1>6. CASE WorkReport(r, s)
  <2>1. w.pc \in LinkedPc /\ \E pc \in {"done", "poll", "clean"} : To(r, s, pc)
    BY <1>6 DEF WorkReport, At, LinkedPc
  <2>2. PICK pc \in {"done", "poll", "clean"} : To(r, s, pc)
    BY <2>1
  <2>3. v.pc = pc /\ v.job = w.job
    BY <1>2, <2>2
  <2> QED
    BY <2>1, <2>3 DEF LinkedPc
<1>7. CASE WorkStarted(r, s) \/ WorkPoll(r, s)
  <2>1. w.pc \in LinkedPc
    BY <1>7 DEF WorkStarted, WorkPoll, At, LinkedPc
  <2>2. \E pc \in {"report", "clean"}, seen \in {Visible(Child(r, s)), "denied"} :
           v = [w EXCEPT !.pc = pc, !.seen = seen] \/ v = [w EXCEPT !.pc = pc]
    <3>1. CASE WorkStarted(r, s)
      <4> DEFINE pc == IF Current(r) /\ Child(r, s) \in dispatched THEN "report" ELSE "clean"
                 seen == IF Child(r, s) \in dispatched THEN Visible(Child(r, s)) ELSE "denied"
      <4>1. work' = [work EXCEPT ![r][s] = [@ EXCEPT !.pc = pc, !.seen = seen]]
        BY <3>1 DEF WorkStarted
      <4>2. pc \in {"report", "clean"} /\ seen \in {Visible(Child(r, s)), "denied"}
        OBVIOUS
      <4> HIDE DEF pc, seen
      <4>3. v = [w EXCEPT !.pc = pc, !.seen = seen]
        BY <1>1, <4>1
      <4> QED
        BY <4>2, <4>3
    <3>2. CASE WorkPoll(r, s) /\ Current(r)
      <4>1. v = [w EXCEPT !.pc = "report", !.seen = Visible(Child(r, s))]
        BY <1>1, <3>2 DEF WorkPoll
      <4> QED
        BY <4>1
    <3>3. CASE WorkPoll(r, s) /\ ~Current(r)
      <4>1. v = [w EXCEPT !.pc = "clean"]
        BY <1>1, <3>3 DEF WorkPoll
      <4> QED
        BY <4>1
    <3> QED
      BY <1>7, <3>1, <3>2, <3>3
  <2>3. PICK pc \in {"report", "clean"}, seen \in {Visible(Child(r, s)), "denied"} :
           v = [w EXCEPT !.pc = pc, !.seen = seen] \/ v = [w EXCEPT !.pc = pc]
    BY <2>2
  <2>4. v.pc = pc /\ v.job = w.job
    BY <1>1, <2>3 DEF WorkRow
  <2> QED
    BY <2>1, <2>4 DEF LinkedPc
<1>8. CASE WorkClean(r, s)
  BY <1>2, <1>8 DEF WorkClean
<1>9. CASE WorkFail(r, s)
  BY <1>2, <1>9 DEF WorkFail
<1>10. CASE WorkStep(r, s)
  BY <1>3, <1>4, <1>5, <1>6, <1>7, <1>8, <1>9, <1>10 DEF WorkStep
<1>11. ASSUME NEW q \in Requests, Launched(q, r)
       PROVE  Goal
  BY <1>11 DEF Launched
<1>12. CASE v = Idle
  BY <1>12 DEF Idle
<1>13. CASE v = w
  BY <1>13
<1> HIDE DEF Goal
<1> QED
  BY <1>10, <1>11, <1>12, <1>13, WorkMoves DEF Goal

(* A worker waits for the child it is starting.                             *)
LEMMA StartingWaits ==
  ASSUME StateInv, Next, NEW r \in Runs, NEW s \in Providers, worker[r] = "work", work[r][s].pc = "starting"
  PROVE  \/ worker'[r] = "work" /\ work'[r][s] = work[r][s]
         \/ WorkStarted(r, s) \/ Restart
<1>1. worker \in [Runs -> {"no", "work", "auto", "catch", "finish"}]
  BY DEF StateInv, BaseInv, Typed
<1>2. WorkStep(r, s) => WorkStarted(r, s)
  BY DEF WorkStep, WorkSubmit, WorkAttach, WorkMark, WorkStart, WorkReport, WorkPoll, WorkClean, WorkFail, At
<1>3. ~WorkFinish(r) /\ \A q \in Requests : ~Launched(q, r)
  BY DEF WorkFinish, Launched
<1>4. work'[r][s] = work[r][s] \/ WorkStarted(r, s) \/ Restart
  BY <1>2, <1>3, WorkMoves
<1>5. worker'[r] = "work" \/ Restart
  <2>1. UNCHANGED worker \/ WorkerWrite
    BY Writers
  <2>2. ASSUME NEW x \in Runs, WorkEnd(x)
        PROVE  worker'[r] = worker[r]
    <3>1. x # r
      BY <2>2 DEF WorkEnd, WorkSettle, WorkAuto, WorkCatch, WorkFinish
    <3> QED
      BY <1>1, <2>2, <3>1 DEF WorkEnd, WorkSettle, WorkAuto, WorkCatch, WorkFinish
  <2>3. ASSUME NEW q \in Requests, Launch(q), worker' # worker
        PROVE  worker'[r] = worker[r]
    BY <1>3, <2>3, LaunchSteps
  <2> QED
    BY <2>1, <2>2, <2>3 DEF WorkerWrite
<1> QED
  BY <1>4, <1>5

LEMMA StopMoves ==
  ASSUME StateInv, Next, NEW r \in Runs
  PROVE  stop'[r] = stop[r] \/ CancelAsk(r) \/ CancelStep(r) \/ (Restart /\ stop'[r].pc = "no")
<1>1. stop \in [Runs -> StopRow]
  BY DEF StateInv, BaseInv, Typed
<1>2. UNCHANGED stop \/ StopWrite
  BY Writers
<1>3. ASSUME NEW x \in Runs, x # r, CancelAsk(x) \/ CancelStep(x)
      PROVE  stop'[r] = stop[r]
  BY <1>1, <1>3 DEF CancelAsk, CancelStep, CancelRow, CancelChildren, CancelAnswer
<1>4. Restart => stop'[r].pc = "no"
  BY DEF Restart
<1> QED
  BY <1>2, <1>3, <1>4 DEF StopWrite

LEMMA OutMoves ==
  ASSUME StateInv, Next, NEW p \in Principals
  PROVE  out'[p] = out[p] \/ SignOut(p) \/ SignOutStep(p) \/ (Restart /\ out'[p].pc = "no" /\ out'[p].runs = {})
<1>1. out \in [Principals -> OutRow]
  BY DEF StateInv, BaseInv, Typed
<1>2. UNCHANGED out \/ OutWrite
  BY Writers
<1>3. ASSUME NEW x \in Principals, x # p, SignOut(x) \/ SignOutStep(x)
      PROVE  out'[p] = out[p]
  <2>1. CASE SignOut(x) \/ SignOutChildren(x) \/ SignOutPause(x)
    BY <1>1, <1>3, <2>1 DEF SignOut, SignOutChildren, SignOutPause
  <2>2. CASE SignOutClean(x)
    <3>1. \E o : out' = [out EXCEPT ![x] = o]
      BY <1>1, <2>2 DEF SignOutClean
    <3> QED
      BY <1>1, <1>3, <3>1
  <2> QED
    BY <1>3, <2>1, <2>2 DEF SignOutStep
<1>4. Restart => out'[p].pc = "no" /\ out'[p].runs = {}
  BY DEF Restart
<1> QED
  BY <1>2, <1>3, <1>4 DEF OutWrite

(* A retry that opens a cancelled run takes it back.                        *)
LEMMA CancelledOrRetried ==
  ASSUME StateInv, Next, NEW r \in Runs, run[r].status = "cancelled"
  PROVE  \/ run'[r].status = "cancelled" /\ src'[r] = src[r]
         \/ r \notin quiet' /\ \E q \in Requests : RetryCommit(q) /\ request[q].run = r
<1>1. CASE run'[r].status = "cancelled" /\ src'[r] = src[r]
  BY <1>1
<1>2. CASE \E S \in SUBSET Sources, auto \in BOOLEAN : MayOpen(r, S, auto) /\ Queue(r, S, auto)
  <2>1. PICK q \in Requests : RetryCommit(q) /\ request[q].run = r
    BY <1>2 DEF MayOpen
  <2>2. UNCHANGED <<run, src>> \/ quiet' = quiet \ {r}
    BY <2>1 DEF RetryCommit
  <2> QED
    BY <2>1, <2>2
<1> QED
  BY <1>1, <1>2, CancelledKeeps

-----------------------------------------------------------------------------
(* The invariant, conjunct by conjunct                                      *)

(* An attempt is linked to a job of its own, which is the one it shows.     *)
LinkInv ==
  \A r \in Runs, s \in Providers : \A n \in 1..MaxAttempts : <<r, s, n>> \in linked =>
     n <= src[r][s].attempt /\ (n = src[r][s].attempt => src[r][s].job = n)

(* A worker reports of a linked job, and lets go of a job after its clean-up. *)
TrackInv ==
  \A r \in Runs, s \in Providers :
    /\ work[r][s].pc \in LinkedPc => Child(r, s) \in linked
    /\ work[r][s].pc = "fail" /\ work[r][s].job # 0 => AccountedFor(Child(r, s))

(* A status read that writes late writes of a job that is accounted for.    *)
ViewTold ==
  view.pc = "write" /\ src[view.run][view.source].job # view.job =>
    AccountedFor(<<view.run, view.source, view.job>>)

(* A retry does not take what is queued; before it commits, the old children *)
(* of the sources it takes have been cancelled.                             *)
Selecting(q, r) == On(q, r) /\ Retries(q) /\ Undisturbed(q) /\ request[q].pc \in {"cancel", "commit"}
SelInv ==
  \A q \in Requests, r \in Runs : Selecting(q, r) =>
    \A s \in request[q].sel \cap Providers : src[r][s].status # "queued"
RetryTold ==
  \A q \in Requests, r \in Runs : Selecting(q, r) /\ request[q].pc = "commit" =>
    \A s \in request[q].sel \cap Providers :
      src[r][s].job # 0 /\ src[r][s].status # "succeeded" => AccountedFor(<<r, s, src[r][s].job>>)

(* A child that serves and is not shown has been told, or its debt is on record. *)
OrphanInv ==
  \A j \in Jobs : exec[j] = "serving" /\ ~Claims(j) => signal[j] # "none" \/ j \in aborting \/ Debt(j)

(* A job that published runs again only until its start finds the row.      *)
SucceededInv ==
  \A j \in Jobs : row[j] = "succeeded" /\ exec[j] # "idle" =>
    /\ exec[j] = "starting" /\ j \notin dispatched
    /\ worker[j[1]] = "work" /\ work[j[1]][j[2]].pc = "starting" /\ work[j[1]][j[2]].job = j[3]

LEMMA LinkNext ==
  ASSUME StateInv, AdmitInv, LinkInv, Next
  PROVE  LinkInv'
<1>1. /\ src \in [Runs -> [Sources -> SourceRow]] /\ Providers \subseteq Sources /\ linked \subseteq Jobs
      /\ \A r \in Runs, s \in Providers : src[r][s] \in SourceRow
  <2>1. Providers \subseteq Sources
    BY DEF Sources
  <2> QED
    BY <2>1 DEF StateInv, BaseInv, Typed
<1>2. ASSUME NEW r \in Runs, NEW s \in Providers, NEW n \in 1..MaxAttempts, <<r, s, n>> \in linked'
      PROVE  \/ <<r, s, n>> \in linked
             \/ /\ WorkAttach(r, s) /\ n = work[r][s].job /\ n = src[r][s].attempt
                /\ src' = [src EXCEPT ![r][s].job = n]
  <2>1. linked' = linked \/ \E x \in Runs, y \in Providers : WorkAttach(x, y)
    BY Writers
  <2>2. ASSUME NEW x \in Runs, NEW y \in Providers, WorkAttach(x, y), <<r, s, n>> \notin linked
        PROVE  /\ x = r /\ y = s /\ n = work[r][s].job /\ Current(r) /\ At(r, s, "attach")
               /\ src' = [src EXCEPT ![r][s].job = work[r][s].job]
    BY <1>2, <2>2 DEF WorkAttach, Child
  <2>3. At(r, s, "attach") /\ Current(r) => work[r][s].job = src[r][s].attempt
    BY DEF At, AdmitInv, SubmitInv
  <2> QED
    BY <1>2, <2>1, <2>2, <2>3
<1>3. ASSUME NEW r \in Runs, NEW s \in Providers, NEW n \in 1..MaxAttempts, <<r, s, n>> \in linked'
      PROVE  n <= src'[r][s].attempt /\ (n = src'[r][s].attempt => src'[r][s].job = n)
  <2>1. CASE /\ n = src[r][s].attempt /\ src' = [src EXCEPT ![r][s].job = n]
    <3>1. src'[r][s] = [src[r][s] EXCEPT !.job = n]
      BY <1>1, <2>1
    <3>2. src'[r][s].job = n /\ src'[r][s].attempt = n
      BY <1>1, <2>1, <3>1 DEF SourceRow
    <3> QED
      BY <3>2
  <2>2. CASE <<r, s, n>> \in linked
    <3>1. /\ n <= src[r][s].attempt /\ (n = src[r][s].attempt => src[r][s].job = n) /\ n # 0
          /\ src[r][s].attempt \in Nat /\ n \in Nat
      BY <1>1, <2>2, SyncAssumption DEF LinkInv, SourceRow
    <3>2. CASE Kept(r, s)
      BY <3>1, <3>2 DEF Kept
    <3>3. CASE Moved(r, s)
      BY <3>1, <3>3 DEF Moved
    <3>4. CASE WorkAttach(r, s) /\ Attached(r, s)
      <4>1. work[r][s].job = src[r][s].attempt
        BY <3>4 DEF Attached, WorkAttach, At, AdmitInv, SubmitInv
      <4> QED
        BY <3>1, <3>4, <4>1 DEF Attached
    <3>5. CASE Opened(r, s) /\ src[r][s] = Absent
      <4>1. n = 1 /\ src[r][s].job = 0
        BY <3>1, <3>5 DEF Absent
      <4> QED
        BY <3>1, <3>5, <4>1 DEF Absent
    <3>6. CASE Opened(r, s) /\ src[r][s] # Absent
      <4>1. src'[r][s].attempt = src[r][s].attempt + 1
        BY <3>6 DEF Opened
      <4> QED
        BY <3>1, <4>1
    <3> QED
      BY <3>2, <3>3, <3>4, <3>5, <3>6, SourceSteps
  <2> QED
    BY <1>2, <1>3, <2>1, <2>2
<1> QED
  BY <1>3 DEF LinkInv

LEMMA TrackNext ==
  ASSUME StateInv, TrackInv, Next
  PROVE  TrackInv'
<1>1. /\ WorkInv /\ Typed /\ RowsGoOn /\ linked \subseteq linked'
  <2>1. linked \subseteq linked'
    <3>1. \A r \in Runs, s \in Providers : WorkAttach(r, s) => linked \subseteq linked'
      BY DEF WorkAttach
    <3> QED
      BY <3>1, Writers
  <2> QED
    BY <2>1, StateNext DEF StateInv, BaseInv
<1>2. ASSUME NEW r \in Runs, NEW s \in Providers
      PROVE  /\ work'[r][s].pc \in LinkedPc => Child(r, s)' \in linked'
             /\ work'[r][s].pc = "fail" /\ work'[r][s].job # 0 => AccountedFor(Child(r, s))'
  <2>1. work'[r][s].job = work[r][s].job => Child(r, s)' = Child(r, s)
    BY DEF Child
  <2>2. work[r][s].job # 0 => Child(r, s) \in Jobs /\ row[Child(r, s)] # "none"
    <3>1. work[r][s].job \in 0..MaxAttempts
      BY <1>1 DEF Typed, WorkRow
    <3> QED
      BY <1>1, <3>1, ChildIsJob DEF WorkInv, SeenOf, Submitted, Child
  <2>3. CASE work'[r][s] = work[r][s]
    <3>1. work[r][s].pc = "fail" /\ work[r][s].job # 0 => ~Restart
      <4>1. Restart => work'[r][s].pc = "off"
        BY DEF Restart, Idle
      <4> QED
        BY <2>3, <4>1
    <3>2. work[r][s].pc = "fail" /\ work[r][s].job # 0 => AccountedFor(Child(r, s))'
      <4>1. SUFFICES ASSUME work[r][s].pc = "fail", work[r][s].job # 0 PROVE AccountedFor(Child(r, s))'
        OBVIOUS
      <4>2. AccountedFor(Child(r, s))
        BY <4>1 DEF TrackInv
      <4> DEFINE j == Child(r, s)
      <4>3. j \in Jobs /\ row[j] # "none" /\ AccountedFor(j) /\ j' = j
        BY <2>1, <2>2, <2>3, <4>1, <4>2
      <4>4. ASSUME NEW i \in Jobs, i = j PROVE AccountedFor(i)'
        BY <3>1, <4>1, <4>3, <4>4, AccountedStays
      <4>5. PICK i \in Jobs : i = j
        BY <4>3
      <4>6. AccountedFor(i)' /\ i = j'
        BY <4>3, <4>4, <4>5
      <4> HIDE DEF j
      <4> QED
        BY <4>6 DEF AccountedFor, Halted, Final, Debt, j
    <3>3. work[r][s].pc \in LinkedPc => Child(r, s)' \in linked'
      BY <1>1, <2>1, <2>3 DEF TrackInv
    <3> QED
      BY <2>3, <3>2, <3>3
  <2>4. CASE work'[r][s].pc \in {"off", "submit", "attach", "clean", "done", "threw"}
    BY <2>4 DEF LinkedPc
  <2>5. CASE work'[r][s].job = work[r][s].job /\ work'[r][s].pc = "mark" /\ Attaches(r, s)
    BY <2>1, <2>5 DEF Attaches, LinkedPc
  <2>6. CASE work'[r][s].job = work[r][s].job /\ work[r][s].pc \in LinkedPc /\ work'[r][s].pc \in LinkedPc \ {"mark"}
    BY <1>1, <2>1, <2>6 DEF TrackInv, LinkedPc
  <2>7. CASE work'[r][s].job = work[r][s].job /\ work'[r][s].pc = "fail" /\ work[r][s].job # 0 /\ WorkClean(r, s)
    <3> DEFINE j == Child(r, s)
    <3>1. j \in Jobs /\ row[j] # "none" /\ j' = j /\ j[1] = r
      BY <2>1, <2>2, <2>7 DEF Child
    <3>2. CleanUp(r, {j})
      BY <2>7 DEF WorkClean
    <3>3. Told(j) \/ j \in dirty'[r]
      <4>1. CASE CancelRows({j}, Stopping(r))
        <5>1. Stopping(r) \in {"cancelled", "cleaned"}
          BY DEF Stopping
        <5>2. {j} \in SUBSET Jobs /\ j \in {j}
          BY <3>1
        <5> HIDE DEF j
        <5> QED
          BY <4>1, <5>1, <5>2, CancelledAreTold
      <4>2. CASE dirty' = [dirty EXCEPT ![r] = @ \cup {j}]
        BY <1>1, <4>2 DEF Typed
      <4> HIDE DEF j
      <4> QED
        BY <3>2, <4>1, <4>2 DEF CleanUp
    <3> HIDE DEF j
    <3>4. CASE Told(j)
      <4>1. Halted(j)'
        BY <1>1, <3>1, <3>4, ToldIsHalted
      <4> QED
        BY <2>7, <4>1, <3>1 DEF AccountedFor, LinkedPc, j
    <3>5. CASE j \in dirty'[r]
      <4>1. j' \in dirty'[j'[1]]
        BY <3>1, <3>5
      <4> QED
        BY <2>7, <4>1 DEF AccountedFor, Debt, LinkedPc, j
    <3> QED
      BY <3>3, <3>4, <3>5
  <2>8. CASE work'[r][s].job = work[r][s].job /\ work'[r][s].pc = "fail" /\ work[r][s].job = 0
    BY <2>8 DEF LinkedPc
  <2> QED
    BY <2>3, <2>4, <2>5, <2>6, <2>7, <2>8, WorkGoes
<1> QED
  BY <1>2 DEF TrackInv

(* What a commit of a retry opens, it has accounted for.                    *)
LEMMA RetriedAreTold ==
  ASSUME StateInv, RetryTold, NEW q \in Requests, NEW r \in Runs, NEW s \in Providers,
         RetryCommit(q), request[q].run = r, s \in request[q].sel, src[r][s].status \in Retryable, src[r][s].job # 0
  PROVE  AccountedFor(<<r, s, src[r][s].job>>)
<1>1. Selecting(q, r) /\ request[q].pc = "commit"
  BY DEF RetryCommit, Selecting, On, Retries, Undisturbed
<1>2. src[r][s].status # "succeeded"
  BY DEF Retryable
<1> QED
  BY <1>1, <1>2 DEF RetryTold

(* A source that shows a job loses it to a retry, which has accounted for it. *)
LEMMA LostIsTold ==
  ASSUME StateInv, RetryTold, Next, NEW r \in Runs, NEW s \in Providers,
         src[r][s].job # 0, src'[r][s].job # src[r][s].job
  PROVE  AccountedFor(<<r, s, src[r][s].job>>) /\ ~Restart
<1>1. run[r].status # "none"
  <2>1. s \in Sources
    BY DEF Sources
  <2> QED
    BY <2>1 DEF StateInv, BaseInv, SourceInv, Absent
<1>2. src \in [Runs -> [Sources -> SourceRow]] /\ s \in Sources
  BY DEF StateInv, BaseInv, Typed, Sources
<1>3. ~Shows(r, s)
  BY DEF Shows
<1>4. ~(ViewWrite /\ view.run = r /\ view.source = s /\ Updated(r, s, view.job))
  BY DEF Updated
<1>5. ~(work[r][s].pc \in {"mark", "report", "fail"} /\ Updated(r, s, work[r][s].job))
  BY DEF Updated
<1>6. ~(WorkAttach(r, s) /\ Current(r) /\ src'[r][s] = [src[r][s] EXCEPT !.job = work[r][s].job])
  <2>1. SUFFICES ASSUME WorkAttach(r, s) PROVE src'[r][s].job = src[r][s].job
    OBVIOUS
  <2>2. CASE src' = src
    BY <2>2
  <2>3. CASE src[r][s].job = work[r][s].job /\ src' = [src EXCEPT ![r][s].job = work[r][s].job]
    BY <1>2, <2>3 DEF SourceRow
  <2> QED
    BY <2>1, <2>2, <2>3 DEF WorkAttach
<1>7. Reopened(r, s)
  BY <1>3, <1>4, <1>5, <1>6, JobSteps
<1>8. PICK q \in Requests : /\ RetryCommit(q) /\ request[q].run = r /\ request'[q].pc \in {"launch", "idle"}
                            /\ s \in request[q].sel /\ src[r][s].status \in Retryable
  BY <1>1, <1>7 DEF Reopened
<1>9. AccountedFor(<<r, s, src[r][s].job>>)
  BY <1>8, RetriedAreTold
<1>10. ~Restart
  <2>1. SUFFICES ASSUME Restart PROVE src'[r][s].job = src[r][s].job
    OBVIOUS
  <2> DEFINE left(y) == [z \in Sources |-> IF RunActive(y) /\ z \in Providers /\ src[y][z].status \in Open
                                           THEN [src[y][z] EXCEPT !.status = "waiting"] ELSE src[y][z]]
  <2>2. src' = [y \in Runs |-> left(y)]
    BY <2>1 DEF Restart
  <2>3. src'[r][s] = left(r)[s]
    BY <2>2
  <2>4. left(r)[s].job = src[r][s].job
    BY <1>2 DEF SourceRow
  <2> QED
    BY <2>3, <2>4
<1> QED
  BY <1>9, <1>10

LEMMA ViewToldNext ==
  ASSUME StateInv, ViewTold, RetryTold, Next
  PROVE  ViewTold'
<1>1. SUFFICES ASSUME view'.pc = "write", src'[view'.run][view'.source].job # view'.job
               PROVE  AccountedFor(<<view.run, view.source, view.job>>)'
  BY DEF ViewTold, AccountedFor, Halted, Final, Debt
<1>2. UNCHANGED view
  <2>1. ASSUME NEW r \in Runs, NEW s \in Providers, ViewRead(r, s)
        PROVE  FALSE
    BY <1>1, <2>1 DEF ViewRead
  <2>2. ~ViewWrite /\ ~Restart
    BY <1>1 DEF ViewWrite, Restart, NoView
  <2> QED
    BY <2>1, <2>2, Writers DEF ViewChange
<1> DEFINE r == view.run
           s == view.source
           j == <<r, s, view.job>>
<1>3. /\ view.pc = "write" /\ r \in Runs /\ s \in Providers /\ view.job \in 0..MaxAttempts /\ view.job # 0
      /\ row[j] # "none" /\ j \in Jobs
  <2>1. /\ view.pc = "write" /\ r \in Runs /\ s \in Providers /\ view.job \in 0..MaxAttempts /\ view.job # 0
        /\ row[j] # "none"
    BY <1>1, <1>2 DEF StateInv, BaseInv, ViewInv, Typed, ViewRow, SeenOf, Submitted
  <2> QED
    BY <2>1, ChildIsJob
<1>4. AccountedFor(j) /\ ~Restart
  <2>1. ~Restart
    BY <1>1 DEF Restart, NoView
  <2>2. CASE src[r][s].job # view.job
    BY <1>3, <2>1, <2>2 DEF ViewTold
  <2>3. CASE src[r][s].job = view.job
    BY <1>1, <1>2, <1>3, <2>1, <2>3, LostIsTold
  <2> QED
    BY <2>2, <2>3
<1> HIDE DEF j
<1>5. AccountedFor(j)'
  <2>1. ASSUME NEW i \in Jobs, i = j PROVE AccountedFor(i)'
    BY <1>3, <1>4, <2>1, AccountedStays
  <2>2. PICK i \in Jobs : i = j
    BY <1>3
  <2>3. j' = j
    BY <1>2 DEF j
  <2>4. AccountedFor(i)' /\ i = j'
    BY <2>1, <2>2, <2>3
  <2> QED
    BY <2>4 DEF AccountedFor, Halted, Final, Debt
<1> QED
  BY <1>5 DEF j, AccountedFor, Halted, Final, Debt

(* A retry that has selected its sources goes on to cancel their children and *)
(* then commits.                                                            *)
LEMMA SelectingSteps ==
  ASSUME StateInv, Next, NEW q \in Requests, NEW r \in Runs, Selecting(q, r)'
  PROVE  \/ /\ Selecting(q, r) /\ request'[q].sel = request[q].sel /\ request'[q].pc = request[q].pc
         \/ /\ On(q, r) /\ RetryPrepare(q) /\ request'[q].pc = "cancel"
         \/ /\ Selecting(q, r) /\ RetryCancel(q) /\ request'[q].sel = request[q].sel
            /\ request[q].pc = "cancel" /\ request'[q].pc = "commit"
<1>1. request'[q].pc \in {"cancel", "commit"} /\ request'[q].kind = "retry" /\ request'[q].run = r /\ request'[q].why = "none"
  BY DEF Selecting, On, Retries, Undisturbed
<1>2. CASE Stays(q)
  BY <1>1, <1>2 DEF Stays, Alike, Selecting, On, Retries, Undisturbed
<1>3. CASE Goes(q)
  BY <1>1, <1>3 DEF Goes, Alike, Selecting, On, Retries, Undisturbed
<1>4. ~Answers(q) /\ ~Asked(q) /\ ~Created(q)
  BY <1>1 DEF Answers, Asked, Created
<1> QED
  BY <1>2, <1>3, <1>4, RequestSteps

(* While it does, no other retry opens a source of the run.                 *)
LEMMA SelectingAlone ==
  ASSUME StateInv, AdmitInv, Next, NEW q \in Requests, NEW r \in Runs, On(q, r), Retries(q),
         request'[q].pc \in {"cancel", "commit"}, NEW s \in Providers
  PROVE  ~Reopened(r, s)
<1>1. run[r].status # "none"
  BY DEF AdmitInv, ExistInv
<1>2. ASSUME NEW o \in Requests, RetryCommit(o), request[o].run = r, request'[o].pc \in {"launch", "idle"}
      PROVE  FALSE
  <2>1. On(o, r) /\ Retries(o)
    BY <1>2 DEF RetryCommit, On, Retries
  <2>2. o = q
    BY <2>1 DEF AdmitInv, RetryInv
  <2> QED
    BY <1>2, <2>2
<1> QED
  BY <1>1, <1>2 DEF Reopened

LEMMA SelNext ==
  ASSUME StateInv, AdmitInv, SelInv, Next
  PROVE  SelInv'
<1>0. src \in [Runs -> [Sources -> SourceRow]] /\ Providers \subseteq Sources
  BY DEF StateInv, BaseInv, Typed, Sources
<1>1. ASSUME NEW q \in Requests, NEW r \in Runs, Selecting(q, r)', NEW s \in request'[q].sel \cap Providers
      PROVE  src'[r][s].status # "queued"
  <2>1. CASE Selecting(q, r) /\ request'[q].sel = request[q].sel
    <3>1. src[r][s].status # "queued"
      BY <1>1, <2>1 DEF SelInv
    <3>2. ~Reopened(r, s)
      BY <1>1, <2>1, SelectingAlone DEF Selecting
    <3>3. src'[r][s] = [src[r][s] EXCEPT !.job = work[r][s].job] => src'[r][s].status = src[r][s].status
      BY <1>0 DEF SourceRow
    <3> QED
      BY <3>1, <3>2, <3>3, JobSteps DEF Shows, Updated
  <2>2. CASE On(q, r) /\ RetryPrepare(q) /\ request'[q].pc = "cancel"
    <3> DEFINE fresh(y) == IF worker[r] = "no" /\ y \in Providers /\ src[r][y].job # 0 /\ src[r][y].status \in Open \cup {"waiting"}
                           THEN Visible(<<r, y, src[r][y].job>>) ELSE "cleaned"
               read == [y \in Sources |-> IF fresh(y) # "cleaned" /\ Updatable(r, y, fresh(y), src[r][y].job)
                                          THEN [src[r][y] EXCEPT !.status = fresh(y)] ELSE src[r][y]]
               able == {y \in Sources : read[y].status \in Retryable}
    <3>1. request[q].run = r
      BY <2>2 DEF On
    <3>2. src' = [src EXCEPT ![r] = read]
      BY <2>2, <3>1 DEF RetryPrepare, SetSources
    <3>3. Answer(q) \/ \E S \in SUBSET able : request' = [request EXCEPT ![q].pc = "cancel", ![q].sel = S]
      BY <2>2, <3>1 DEF RetryPrepare
    <3>4. request'[q].sel \subseteq able
      <4>1. request \in [Requests -> RequestRow]
        BY DEF StateInv, BaseInv, Typed
      <4>2. ~Answer(q)
        BY <2>2, <4>1 DEF Answer, NoRequest
      <4> HIDE DEF able
      <4>3. PICK S \in SUBSET able : request' = [request EXCEPT ![q].pc = "cancel", ![q].sel = S]
        BY <3>3, <4>2
      <4>4. request'[q] = [request[q] EXCEPT !.pc = "cancel", !.sel = S]
        BY <4>1, <4>3
      <4>5. request'[q].sel = S
        BY <4>1, <4>4 DEF RequestRow
      <4> QED
        BY <4>5
    <3>5. src'[r] = read
      <4> HIDE DEF read
      <4> QED
        BY <1>0, <3>2
    <3>6. read[s].status \in Retryable
      <4>1. s \in able
        BY <3>4
      <4> HIDE DEF read
      <4> QED
        BY <4>1
    <3> HIDE DEF read
    <3> QED
      BY <3>5, <3>6 DEF Retryable
  <2> QED
    BY <1>1, <2>1, <2>2, SelectingSteps
<1> QED
  BY <1>1 DEF SelInv

LEMMA RetryToldNext ==
  ASSUME StateInv, AdmitInv, LinkInv, TrackInv, ViewTold, SelInv, RetryTold, Next
  PROVE  RetryTold'
<1>0. /\ src \in [Runs -> [Sources -> SourceRow]] /\ Providers \subseteq Sources /\ linked \subseteq Jobs
      /\ StateInv' /\ RowsGoOn /\ Typed
  BY StateNext DEF StateInv, BaseInv, Typed, Sources
<1>1. ASSUME NEW q \in Requests, NEW r \in Runs, Selecting(q, r)', request'[q].pc = "commit",
             NEW s \in request'[q].sel \cap Providers, src'[r][s].job # 0, src'[r][s].status # "succeeded"
      PROVE  \E n \in 1..MaxAttempts : n = src'[r][s].job /\ AccountedFor(<<r, s, n>>)'
  <2> DEFINE Goal == \E n \in 1..MaxAttempts : n = src'[r][s].job /\ AccountedFor(<<r, s, n>>)'
  <2>1. src'[r][s].job \in 1..MaxAttempts
    <3>1. src' \in [Runs -> [Sources -> SourceRow]]
      BY <1>0 DEF StateInv, BaseInv, Typed
    <3>2. src'[r][s] \in SourceRow
      BY <1>0, <3>1
    <3> QED
      BY <1>1, <3>2, SyncAssumption DEF SourceRow
  <2>2. ~Restart
    BY <1>1 DEF Restart, NoRequest
  <2>3. ASSUME NEW n \in 1..MaxAttempts, n = src'[r][s].job, row[<<r, s, n>>] # "none", AccountedFor(<<r, s, n>>)
        PROVE  Goal
    <3>1. <<r, s, n>> \in Jobs
      BY ChildIsJob, SyncAssumption
    <3>2. ASSUME NEW j \in Jobs, j = <<r, s, n>> PROVE AccountedFor(j)'
      BY <2>2, <2>3, <3>2, AccountedStays
    <3>3. AccountedFor(<<r, s, n>>)'
      BY <3>1, <3>2
    <3> QED
      BY <2>3, <3>3
  <2>4. CASE /\ Selecting(q, r) /\ request'[q].sel = request[q].sel /\ request'[q].pc = request[q].pc
    <3>1. request[q].pc = "commit" /\ src[r][s].status # "queued"
          /\ (src[r][s].job # 0 /\ src[r][s].status # "succeeded" => AccountedFor(<<r, s, src[r][s].job>>))
      BY <1>1, <2>4 DEF SelInv, RetryTold
    <3>2. ~Reopened(r, s)
      BY <1>1, <2>4, SelectingAlone DEF Selecting
    <3>3. ~(WorkAttach(r, s) /\ Current(r))
      <4>1. Retrying(r)
        BY <1>1, <2>4 DEF Retrying, Selecting, PreparingPc
      <4> QED
        BY <3>1, <4>1 DEF AdmitInv, SubmitInv, WorkAttach, At
    <3>4. src[r][s].job # 0 => row[<<r, s, src[r][s].job>>] # "none"
      BY DEF StateInv, BaseInv, SourceInv, Submitted
    <3>5. CASE Shows(r, s)
      <4>1. AccountedFor(<<r, s, src[r][s].job>>) /\ src'[r][s].job = src[r][s].job
        BY <1>1, <3>1, <3>5 DEF Shows
      <4> QED
        BY <1>1, <2>1, <2>3, <3>4, <4>1
    <3>6. CASE ViewWrite /\ view.run = r /\ view.source = s /\ Updated(r, s, view.job)
      <4>1. src'[r][s].job = view.job /\ src[r][s].status # "succeeded" /\ src[r][s].job \in {0, view.job}
        BY <3>6 DEF Updated
      <4>2. AccountedFor(<<r, s, view.job>>)
        <5>1. CASE src[r][s].job = view.job
          BY <1>1, <3>1, <4>1, <5>1
        <5>2. CASE src[r][s].job # view.job
          BY <3>6, <5>2 DEF ViewTold, ViewWrite
        <5> QED
          BY <5>1, <5>2
      <4>3. row[<<r, s, view.job>>] # "none"
        BY <3>6 DEF ViewWrite, StateInv, BaseInv, ViewInv, SeenOf, Submitted
      <4> QED
        BY <2>1, <2>3, <4>1, <4>2, <4>3
    <3>7. CASE work[r][s].pc \in {"mark", "report", "fail"} /\ Updated(r, s, work[r][s].job)
      <4> DEFINE n == work[r][s].job
      <4>1. /\ src'[r][s].job = n /\ src[r][s].status # "succeeded" /\ src[r][s].job \in {0, n} /\ n # 0
            /\ (<<r, s, n>> \in linked => src[r][s].attempt = n)
        BY <3>7 DEF Updated
      <4>2. AccountedFor(<<r, s, n>>)
        <5>1. CASE src[r][s].job = n
          BY <1>1, <3>1, <4>1, <5>1
        <5>2. CASE src[r][s].job = 0 /\ work[r][s].pc \in {"mark", "report"}
          <6>1. <<r, s, n>> \in linked
            BY <5>2 DEF TrackInv, LinkedPc, Child
          <6>2. src[r][s].job = n
            BY <2>1, <4>1, <6>1 DEF LinkInv
          <6> QED
            BY <4>1, <5>2, <6>2
        <5>3. CASE work[r][s].pc = "fail"
          BY <4>1, <5>3 DEF TrackInv, Child
        <5> QED
          BY <3>7, <4>1, <5>1, <5>2, <5>3
      <4>3. row[<<r, s, n>>] # "none"
        BY <4>1 DEF StateInv, BaseInv, WorkInv, SeenOf, Submitted
      <4> QED
        BY <2>1, <2>3, <4>1, <4>2, <4>3
    <3> QED
      BY <3>2, <3>3, <3>5, <3>6, <3>7, JobSteps
  <2>5. CASE /\ Selecting(q, r) /\ RetryCancel(q) /\ request'[q].sel = request[q].sel /\ request[q].pc = "cancel"
    <3> DEFINE S == {j \in Persisted(r) : j[2] \in request[q].sel}
               n == src'[r][s].job
               j == <<r, s, n>>
    <3>1. request[q].run = r /\ request[q].why = "none" /\ src' = src
      BY <2>5 DEF Selecting, On, Undisturbed, RetryCancel
    <3>2. CleanUp(r, S) /\ dirty'[r] = {}
      <4>1. CleanUp(r, S) /\ (dirty'[r] = {} \/ Answer(q))
        BY <2>5, <3>1 DEF RetryCancel
      <4>2. ~Answer(q)
        BY <1>1, <1>0 DEF Answer, NoRequest, Typed
      <4> QED
        BY <4>1, <4>2
    <3>3. j \in S
      BY <1>1, <2>1, <2>5, <3>1 DEF Persisted
    <3>4. S \subseteq Jobs
      BY <1>0, PersistedAreJobs
    <3>5. j \in Jobs /\ row[j] # "none" /\ n \in 1..MaxAttempts
      BY <1>1, <2>1, <3>1, <3>3, <3>4 DEF StateInv, BaseInv, SourceInv, Submitted
    <3>6. CancelRows(S, Stopping(r))
      <4>1. dirty' = [dirty EXCEPT ![r] = @ \cup S] => S \subseteq dirty'[r]
        <5> HIDE DEF S
        <5> QED
          BY <1>0 DEF Typed
      <4> HIDE DEF S
      <4> QED
        BY <3>2, <3>3, <4>1 DEF CleanUp
    <3>7. Stopping(r) \in {"cancelled", "cleaned"}
      BY DEF Stopping
    <3> HIDE DEF S, j
    <3>8. Told(j)
      BY <3>3, <3>4, <3>6, <3>7, CancelledAreTold
    <3>9. ASSUME NEW i \in Jobs, i = j PROVE AccountedFor(i)'
      <4>1. Halted(i)'
        BY <1>0, <3>5, <3>8, <3>9, ToldIsHalted
      <4> QED
        BY <4>1 DEF AccountedFor
    <3>10. PICK m \in 1..MaxAttempts : m = n
      BY <3>5
    <3>11. <<r, s, m>> \in Jobs /\ <<r, s, m>> = j
      BY <3>5, <3>10 DEF j
    <3>12. AccountedFor(<<r, s, m>>)'
      BY <3>9, <3>11
    <3> QED
      BY <3>10, <3>12
  <2>6. ~(RetryPrepare(q) /\ request'[q].pc = "cancel")
    BY <1>1
  <2> QED
    BY <1>1, <2>4, <2>5, <2>6, SelectingSteps
<1>2. ASSUME NEW q \in Requests, NEW r \in Runs, Selecting(q, r)', request'[q].pc = "commit",
             NEW s \in request'[q].sel \cap Providers, src'[r][s].job # 0, src'[r][s].status # "succeeded"
      PROVE  AccountedFor(<<r, s, src[r][s].job>>)'
  <2>1. PICK n \in 1..MaxAttempts : n = src'[r][s].job /\ AccountedFor(<<r, s, n>>)'
    BY <1>1, <1>2
  <2> QED
    BY <2>1 DEF AccountedFor, Halted, Final, Debt
<1>3. ASSUME NEW q \in Requests, NEW r \in Runs, Selecting(q, r)', request'[q].pc = "commit"
      PROVE  \A s \in request'[q].sel \cap Providers :
               src'[r][s].job # 0 /\ src'[r][s].status # "succeeded" => AccountedFor(<<r, s, src[r][s].job>>)'
  BY <1>2, <1>3
<1> QED
  BY <1>3 DEF RetryTold

(* An execution that is not told goes on; a debt becomes a signal or stays.  *)
LEMMA TellingStays ==
  ASSUME StateInv, Next, NEW j \in Jobs, GoesOn(j), exec'[j] # "idle",
         signal[j] # "none" \/ j \in aborting \/ Debt(j)
  PROVE  signal'[j] # "none" \/ j \in aborting' \/ Debt(j)'
<1>1. ~Restart
  BY DEF Restart, RecoverJobs
<1>2. Typed /\ TrackStep
  BY RefreshSteps DEF StateInv, BaseInv
<1>3. CASE Debt(j)
  BY <1>1, <1>2, <1>3, DebtStays DEF Told
<1>4. CASE signal[j] # "none" \/ j \in aborting
  BY <1>4 DEF GoesOn
<1> QED
  BY <1>3, <1>4

LEMMA OrphanNext ==
  ASSUME StateInv, RetryTold, OrphanInv, Next
  PROVE  OrphanInv'
<1>1. RefreshTypeOK /\ RefreshStep
  BY RefreshSteps DEF StateInv, BaseInv, Typed
<1>2. ASSUME NEW j \in Jobs, exec'[j] = "serving", ~Claims(j)'
      PROVE  signal'[j] # "none" \/ j \in aborting' \/ Debt(j)'
  <2>1. GoesOn(j)
    <3>1. ~Starts(j)
      BY <1>1, <1>2 DEF Starts, StartRefresh, RefreshTypeOK
    <3> QED
      BY <1>1, <1>2, <3>1, ExecSteps
  <2>2. exec[j] = "serving"
    BY <1>2, <2>1 DEF GoesOn, Claims
  <2>3. CASE ~Claims(j)
    BY <1>2, <2>1, <2>2, <2>3, TellingStays DEF OrphanInv
  <2>4. CASE Claims(j)
    <3>1. /\ j[1] \in Runs /\ j[2] \in Providers /\ j[3] # 0 /\ j = <<j[1], j[2], j[3]>>
      BY JobIsChild, SyncAssumption
    <3>2. AccountedFor(j)
      BY <1>2, <2>4, <3>1, LostIsTold DEF Claims
    <3>3. signal[j] # "none" \/ j \in aborting \/ Debt(j)
      BY <2>2, <3>2 DEF AccountedFor, Halted
    <3> QED
      BY <1>2, <2>1, <3>3, TellingStays
  <2> QED
    BY <2>3, <2>4
<1> QED
  BY <1>2 DEF OrphanInv

LEMMA SucceededNext ==
  ASSUME StateInv, SucceededInv, Next
  PROVE  SucceededInv'
<1>1. RefreshTypeOK /\ RefreshStep /\ Typed
  BY RefreshSteps DEF StateInv, BaseInv, Typed
<1>2. ASSUME NEW j \in Jobs, row'[j] = "succeeded", exec'[j] # "idle"
      PROVE  /\ exec'[j] = "starting" /\ j \notin dispatched'
             /\ worker'[j[1]] = "work" /\ work'[j[1]][j[2]].pc = "starting" /\ work'[j[1]][j[2]].job = j[3]
  <2>0. /\ j[1] \in Runs /\ j[2] \in Providers /\ j = <<j[1], j[2], j[3]>>
    BY JobIsChild
  <2>1. CASE Starts(j)
    <3>1. exec'[j] = "starting" /\ j \notin dispatched' /\ row' = row
      BY <1>1, <2>1 DEF Starts, StartRefresh, RefreshTypeOK
    <3>2. ~UserResumes(j)
      BY <1>2, <3>1 DEF UserResumes
    <3>3. PICK r \in Runs, s \in Providers : WorkStart(r, s) /\ Current(r) /\ j = Child(r, s)
      BY <2>1, <3>2 DEF Starts
    <3>4. r = j[1] /\ s = j[2] /\ work[r][s].job = j[3]
      BY <3>3 DEF Child
    <3>5. worker[r] = "work" /\ worker' = worker
      BY <3>3 DEF WorkStart, At
    <3>6. To(r, s, "starting")
      BY <2>1, <3>3 DEF WorkStart, Starts, StartRefresh
    <3>7. work'[r][s].pc = "starting" /\ work'[r][s].job = work[r][s].job
      <4>1. work'[r][s] = [work[r][s] EXCEPT !.pc = "starting"] /\ work[r][s] \in WorkRow
        BY <1>1, <3>6 DEF To, Typed
      <4> QED
        BY <4>1 DEF WorkRow
    <3> QED
      BY <3>1, <3>4, <3>5, <3>7
  <2>2. CASE GoesOn(j)
    <3>1. row[j] = "succeeded" /\ exec[j] # "idle"
      BY <1>2, <2>2 DEF GoesOn
    <3>2. /\ exec[j] = "starting" /\ j \notin dispatched
          /\ worker[j[1]] = "work" /\ work[j[1]][j[2]].pc = "starting" /\ work[j[1]][j[2]].job = j[3]
      BY <3>1 DEF SucceededInv
    <3>3. exec'[j] = "starting" /\ j \notin dispatched'
      BY <2>2, <3>1, <3>2 DEF GoesOn
    <3>4. ~WorkStarted(j[1], j[2]) /\ ~Restart
      <4>1. ~Restart
        BY <1>2 DEF Restart, RecoverJobs
      <4>2. Child(j[1], j[2]) = j
        BY <2>0, <3>2 DEF Child
      <4> QED
        BY <3>2, <4>1, <4>2 DEF WorkStarted
    <3> QED
      BY <2>0, <3>2, <3>3, <3>4, StartingWaits
  <2> QED
    BY <1>1, <1>2, <2>1, <2>2, ExecSteps
<1> QED
  BY <1>2 DEF SucceededInv

-----------------------------------------------------------------------------
(* What a cancellation and a sign-out have told when they answer            *)

StopTold ==
  \A r \in Runs :
    /\ stop[r].pc \in {"clean", "again", "answer"} /\ stop[r].ok => run[r].status = "cancelled"
    /\ stop[r].pc = "answer" => worker[r] = "no"
    /\ stop[r].pc = "answer" /\ stop[r].ok =>
         \A j \in ChildrenOf({r}) : Claims(j) /\ j \notin dirty[r] =>
            Final(j) /\ (exec[j] = "idle" \/ signal[j] # "none" \/ j \in kids[r] \cap aborting)

OutTold ==
  /\ \A p \in Principals : out[p].pc = "no" => out[p].runs = {}
  /\ \A r \in Runs : out[OwnerOf[r]].pc \in {"pause", "clean"} =>
       \A j \in ChildrenOf({r}) : exec[j] # "idle" => signal[j] # "none"

(* No worker is launched while the run is being stopped.                    *)
LEMMA NoLaunchWhileHalting ==
  ASSUME StateInv, AdmitInv, NEW r \in Runs, Halting(r), NEW q \in Requests
  PROVE  ~Launched(q, r) /\ ~(RetryCommit(q) /\ request[q].run = r)
<1>1. On(q, r) => ~Undisturbed(q)
  BY DEF AdmitInv, HaltInv
<1> QED
  BY <1>1 DEF Launched, RetryCommit, On, Undisturbed

LEMMA OutToldNext ==
  ASSUME StateInv, AdmitInv, OutTold, Next
  PROVE  OutTold'
<1>1. RefreshTypeOK /\ RefreshStep /\ Typed /\ \A r \in Runs : OwnerOf[r] \in Principals
  BY RefreshSteps DEF StateInv, BaseInv, Typed, Principals
<1>2. ASSUME NEW p \in Principals, out'[p].pc = "no"
      PROVE  out'[p].runs = {}
  <2>1. ~SignOut(p) /\ ~SignOutChildren(p) /\ ~SignOutPause(p)
    BY <1>1, <1>2 DEF SignOut, SignOutChildren, SignOutPause, Typed, OutRow
  <2>2. SignOutClean(p) => out'[p].runs = {}
    <3>1. SUFFICES ASSUME SignOutClean(p) PROVE out'[p].runs = {}
      OBVIOUS
    <3>2. CASE out' = [out EXCEPT ![p] = [pc |-> "no", runs |-> {}, ok |-> TRUE]]
      BY <1>1, <3>2 DEF Typed
    <3>3. ASSUME NEW r \in out[p].runs, out' = [out EXCEPT ![p].runs = @ \ {r}, ![p].ok = @ /\ dirty'[r] = {}]
          PROVE  FALSE
      <4>1. out'[p].pc = out[p].pc
        BY <1>1, <3>3 DEF Typed, OutRow
      <4> QED
        BY <1>2, <3>1, <4>1 DEF SignOutClean
    <3> QED
      BY <3>1, <3>2, <3>3 DEF SignOutClean
  <2> QED
    BY <1>2, <2>1, <2>2, OutMoves DEF OutTold, SignOutStep
<1>3. ASSUME NEW r \in Runs, out'[OwnerOf[r]].pc \in {"pause", "clean"}, NEW j \in ChildrenOf({r}), exec'[j] # "idle"
      PROVE  signal'[j] # "none"
  <2> DEFINE p == OwnerOf[r]
  <2>1. j \in Jobs /\ j[1] = r /\ p \in Principals /\ r \in RunsOf(p)
    BY <1>1 DEF ChildrenOf, RunsOf
  <2>2. CASE SignOutChildren(p)
    <3>1. signal' = Signalled(ChildrenOf(RunsOf(p)), "auth") /\ exec' = exec
      BY <2>2 DEF SignOutChildren
    <3>2. j \in ChildrenOf(RunsOf(p))
      BY <2>1 DEF ChildrenOf
    <3> QED
      BY <1>3, <2>1, <3>1, <3>2 DEF Signalled
  <2>3. CASE out[p].pc \in {"pause", "clean"}
    <3>1. ~Starts(j)
      <4>1. ~UserResumes(j)
        BY <2>1, <2>3 DEF UserResumes, AdmitInv, OutInv
      <4>2. ASSUME NEW x \in Runs, NEW y \in Providers, WorkStart(x, y), Current(x), j = Child(x, y)
            PROVE  FALSE
        <5>1. x = r /\ worker[r] # "no"
          BY <2>1, <4>2 DEF WorkStart, At, Child
        <5> QED
          BY <2>3, <4>2, <5>1 DEF AdmitInv, HaltInv, Halting
      <4> QED
        BY <4>1, <4>2 DEF Starts
    <3>2. GoesOn(j)
      BY <1>1, <1>3, <2>1, <3>1, ExecSteps
    <3>3. signal[j] # "none"
      BY <1>3, <2>3, <3>2 DEF OutTold, GoesOn
    <3> QED
      BY <3>2, <3>3 DEF GoesOn
  <2>4. out[p].pc \in {"pause", "clean"} \/ SignOutChildren(p)
    <3>1. ~SignOut(p)
      BY <1>1, <1>3, <2>1 DEF SignOut, Typed
    <3>2. SignOutPause(p) \/ SignOutClean(p) => out[p].pc \in {"pause", "clean"}
      BY DEF SignOutPause, SignOutClean
    <3> QED
      BY <1>3, <2>1, <3>1, <3>2, OutMoves DEF SignOutStep
  <2> QED
    BY <2>2, <2>3, <2>4
<1> QED
  BY <1>2, <1>3 DEF OutTold, ChildrenOf

(* A tracker that nobody drops loses a child only when it has been told.    *)
LEMMA TrackerStays ==
  ASSUME Typed, TrackStep, ~Restart, NEW r \in Runs, ~Drops(r)
  PROVE  kids[r] \subseteq kids'[r] /\ \A j \in dirty[r] \ dirty'[r] : Told(j)
<1>1. kids \in [Runs -> SUBSET Jobs] /\ dirty \in [Runs -> SUBSET Jobs]
  BY DEF Typed
<1>2. CASE UNCHANGED <<kids, dirty, debtVars>>
  BY <1>2
<1>3. CASE \E x \in Runs, K, D, O, F \in SUBSET Jobs : Tracks(x, K, D, O, F)
  <2>1. PICK x \in Runs, K \in SUBSET Jobs, D \in SUBSET Jobs, O \in SUBSET Jobs, F \in SUBSET Jobs : Tracks(x, K, D, O, F)
    BY <1>3
  <2>2. kids' = [kids EXCEPT ![x] = K] /\ dirty' = [dirty EXCEPT ![x] = D]
    BY <2>1 DEF Tracks
  <2>3. CASE x = r
    <3>1. kids'[r] = K /\ dirty'[r] = D
      BY <1>1, <2>2, <2>3
    <3> QED
      BY <2>1, <2>3, <3>1 DEF Tracks
  <2>4. CASE x # r
    BY <1>1, <2>2, <2>4
  <2> QED
    BY <2>3, <2>4
<1> QED
  BY <1>2, <1>3 DEF TrackStep

LEMMA StopToldNext ==
  ASSUME StateInv, AdmitInv, SucceededInv, StopTold, Next
  PROVE  StopTold'
<1>1. /\ RefreshTypeOK /\ RefreshStep /\ TrackStep /\ RowsGoOn /\ Typed
      /\ run \in [Runs -> RunRow] /\ stop \in [Runs -> StopRow] /\ dirty \in [Runs -> SUBSET Jobs]
      /\ kids \in [Runs -> SUBSET Jobs] /\ \A r \in Runs : run[r] \in RunRow /\ stop[r] \in StopRow
  BY StateNext, RefreshSteps DEF StateInv, BaseInv, Typed
<1>2. ASSUME NEW r \in Runs, CancelChildren(r)
      PROVE  /\ stop[r].pc \in {"clean", "again"} /\ stop'[r].ok = stop[r].ok
             /\ stop'[r].pc = "answer" => stop[r].pc = "again"
  <2>1. CASE stop[r].pc = "clean" /\ stop' = [stop EXCEPT ![r].pc = "again"]
    BY <1>1, <2>1 DEF StopRow
  <2>2. CASE stop[r].pc = "again" /\ stop' = [stop EXCEPT ![r].pc = "answer"]
    BY <1>1, <2>2 DEF StopRow
  <2> QED
    BY <1>2, <2>1, <2>2 DEF CancelChildren
(* Only a cancelled run is answered for without an error.                   *)
<1>3. ASSUME NEW r \in Runs, stop'[r].pc \in {"clean", "again", "answer"}, stop'[r].ok
      PROVE  run'[r].status = "cancelled"
  <2>1. CASE CancelAsk(r)
    <3>1. stop'[r].pc = IF run[r].status = "cancelled" /\ {q \in Asking : Assigned(q) = r} \cup
                 {q \in Asking : Assigned(q) = "none" /\ RunActive(r) /\ request[q].who = OwnerOf[r]} = {}
               THEN "clean" ELSE "row"
      BY <1>1, <2>1 DEF CancelAsk
    <3>2. run' = run
      BY <2>1 DEF CancelAsk
    <3> QED
      BY <1>3, <3>1, <3>2
  <2>2. CASE CancelRow(r)
    <3>1. stop'[r].ok = (RunActive(r) \/ run[r].status = "cancelled")
      BY <1>1, <2>2 DEF CancelRow
    <3>2. run' = [run EXCEPT ![r].status = "cancelled"]
      BY <1>3, <2>2, <3>1 DEF CancelRow
    <3> QED
      BY <1>1, <3>2 DEF RunRow
  <2>3. CASE CancelChildren(r)
    BY <1>2, <1>3, <2>3 DEF StopTold, CancelChildren
  <2>4. CASE CancelAnswer(r)
    BY <1>1, <1>3, <2>4 DEF CancelAnswer
  <2>5. CASE stop'[r] = stop[r]
    <3>1. run[r].status = "cancelled" /\ Halting(r)
      BY <1>3, <2>5 DEF StopTold, Halting
    <3> QED
      BY <3>1, CancelledOrRetried, NoLaunchWhileHalting
  <2> QED
    BY <1>3, <2>1, <2>2, <2>3, <2>4, <2>5, StopMoves DEF CancelStep
(* It answers when the worker has ended, and none is launched then.         *)
<1>4. ASSUME NEW r \in Runs, stop'[r].pc = "answer"
      PROVE  worker'[r] = "no" /\ (CancelChildren(r) \/ stop'[r] = stop[r])
  <2>1. CASE CancelChildren(r)
    BY <1>2, <1>4, <2>1 DEF CancelChildren
  <2>2. CASE stop'[r] = stop[r]
    <3>1. worker[r] = "no" /\ Halting(r)
      BY <1>4, <2>2 DEF StopTold, Halting
    <3> QED
      BY <2>2, <3>1, WorkerSteps, NoLaunchWhileHalting
  <2>3. ~CancelAsk(r) /\ ~CancelRow(r) /\ ~CancelAnswer(r)
    BY <1>1, <1>4 DEF CancelAsk, CancelRow, CancelAnswer
  <2> QED
    BY <1>4, <2>1, <2>2, <2>3, StopMoves DEF CancelStep
<1>5. ASSUME NEW r \in Runs, stop'[r].pc = "answer", stop'[r].ok, CancelChildren(r),
             NEW j \in ChildrenOf({r}), Claims(j)', j \notin dirty'[r]
      PROVE  Final(j)' /\ (exec'[j] = "idle" \/ signal'[j] # "none" \/ j \in kids'[r] \cap aborting')
  <2> DEFINE S == kids[r] \cup Persisted(r)
  <2>1. worker[r] = "no" /\ CleanUp(r, S) /\ src' = src
    BY <1>2, <1>5 DEF CancelChildren
  <2>2. j \in Jobs /\ j[1] = r /\ j[2] \in Providers /\ j[3] # 0 /\ j = <<r, j[2], src[r][j[2]].job>>
    BY <1>5, <2>1, JobIsChild, SyncAssumption DEF ChildrenOf, Claims
  <2>3. row[j] # "none"
    BY <2>2 DEF StateInv, BaseInv, SourceInv, Submitted
  <2>4. CASE src[r][j[2]].status = "succeeded"
    <3>1. row[j] = "succeeded"
      BY <2>2, <2>4 DEF StateInv, DbInv, SavedMeansPublished
    <3>2. exec[j] = "idle"
      BY <2>1, <2>2, <3>1 DEF SucceededInv
    <3>3. exec' = exec
      BY <2>1 DEF CleanUp, CancelRows
    <3>4. Final(j)
      BY <3>1 DEF Final, Unfinished
    <3> QED
      BY <1>1, <2>2, <3>2, <3>3, <3>4, FinalStays
  <2>5. CASE src[r][j[2]].status # "succeeded"
    <3>1. j \in S
      BY <2>2, <2>5 DEF Persisted
    <3>2. S \in SUBSET Jobs
      BY <1>1, PersistedAreJobs
    <3> HIDE DEF S
    <3>3. CancelRows(S, Stopping(r)) /\ kids' = [kids EXCEPT ![r] = @ \cup S]
      <4>1. dirty' = [dirty EXCEPT ![r] = @ \cup S] => S \subseteq dirty'[r]
        BY <1>1
      <4> QED
        BY <1>5, <2>1, <3>1, <4>1 DEF CleanUp
    <3>4. Stopping(r) \in {"cancelled", "cleaned"}
      BY DEF Stopping
    <3>5. Told(j) /\ j \in kids'[r]
      BY <1>1, <3>1, <3>2, <3>3, <3>4, CancelledAreTold
    <3>6. Final(j)'
      BY <1>1, <2>2, <2>3, <3>5, ToldIsHalted DEF Halted
    <3> QED
      BY <3>5, <3>6 DEF Told
  <2> QED
    BY <2>4, <2>5
<1>6. ASSUME NEW r \in Runs, stop'[r].pc = "answer", stop'[r].ok, stop'[r] = stop[r],
             NEW j \in ChildrenOf({r}), Claims(j)', j \notin dirty'[r]
      PROVE  Final(j)' /\ (exec'[j] = "idle" \/ signal'[j] # "none" \/ j \in kids'[r] \cap aborting')
  <2>1. /\ Halting(r) /\ run[r].status = "cancelled" /\ worker[r] = "no" /\ worker'[r] = "no"
    BY <1>4, <1>6 DEF StopTold, Halting
  <2>2. j \in Jobs /\ j[1] = r /\ j[2] \in Providers /\ j[3] # 0 /\ j = <<r, j[2], j[3]>>
    BY <1>6, JobIsChild, SyncAssumption DEF ChildrenOf
  <2>3. Claims(j)
    <3>1. src'[r] = src[r]
      BY <2>1, CancelledOrRetried, NoLaunchWhileHalting
    <3> QED
      BY <1>6, <2>2, <3>1 DEF Claims
  <2>4. ~Restart
    BY <1>6 DEF Restart
  <2>5. ~Drops(r)
    <3>1. ~WorkFinish(r) /\ ~CancelAsk(r)
      BY <1>6, <2>1 DEF WorkFinish, CancelAsk
    <3>2. ~CancelAnswer(r)
      BY <1>1, <1>6 DEF CancelAnswer
    <3> QED
      BY <2>1, <3>1, <3>2 DEF Drops
  <2>6. kids[r] \subseteq kids'[r] /\ dirty[r] \subseteq kids[r] /\ \A i \in dirty[r] \ dirty'[r] : Told(i)
    BY <1>1, <2>4, <2>5, TrackerStays DEF Typed
  <2>7. CASE j \in dirty[r]
    <3>1. row[j] # "none"
      BY <2>2, <2>3 DEF Claims, StateInv, BaseInv, SourceInv, Submitted
    <3>2. Told(j) /\ j \in kids'[r]
      BY <1>6, <2>6, <2>7
    <3>3. Final(j)'
      BY <1>1, <2>2, <3>1, <3>2, ToldIsHalted DEF Halted
    <3> QED
      BY <3>2, <3>3 DEF Told
  <2>8. CASE j \notin dirty[r]
    <3>1. Final(j) /\ (exec[j] = "idle" \/ signal[j] # "none" \/ j \in kids[r] \cap aborting)
      BY <1>6, <2>3, <2>8 DEF StopTold
    <3>2. ~Starts(j)
      <4>1. ~UserResumes(j)
        BY <3>1 DEF UserResumes, Final, Unfinished
      <4>2. ASSUME NEW x \in Runs, NEW y \in Providers, WorkStart(x, y), j = Child(x, y)
            PROVE  FALSE
        BY <2>1, <2>2, <4>2 DEF WorkStart, At, Child
      <4> QED
        BY <4>1, <4>2 DEF Starts
    <3>3. exec'[j] = "idle" \/ GoesOn(j)
      BY <1>1, <2>2, <3>2, ExecSteps
    <3>4. Final(j)'
      BY <1>1, <2>2, <3>1, FinalStays
    <3>5. GoesOn(j) => signal'[j] # "none" \/ j \in kids'[r] \cap aborting'
      BY <2>6, <3>1 DEF GoesOn
    <3> QED
      BY <3>3, <3>4, <3>5
  <2> QED
    BY <2>7, <2>8
<1>7. ASSUME NEW r \in Runs, stop'[r].pc = "answer", stop'[r].ok, NEW j \in ChildrenOf({r}), Claims(j)', j \notin dirty'[r]
      PROVE  Final(j)' /\ (exec'[j] = "idle" \/ signal'[j] # "none" \/ j \in kids'[r] \cap aborting')
  BY <1>4, <1>5, <1>6, <1>7
<1>8. \A r \in Runs : /\ stop'[r].pc \in {"clean", "again", "answer"} /\ stop'[r].ok => run'[r].status = "cancelled"
                      /\ stop'[r].pc = "answer" => worker'[r] = "no"
  BY <1>3, <1>4
<1> QED
  BY <1>7, <1>8 DEF StopTold, ChildrenOf

-----------------------------------------------------------------------------
(* A stopped run stays stopped                                              *)

(* No worker runs it and no request is about to launch one; its children    *)
(* have been told, all of them when it was signed out, and those it shows    *)
(* when it was cancelled; one that serves an attempt it no longer shows has  *)
(* been told, is being told, or nobody owes it anything any more.           *)
Quieted(r) ==
  /\ worker[r] = "no" /\ run[r].status # "none"
  /\ \A q \in Requests : On(q, r) /\ request[q].pc = "launch" => ~Undisturbed(q)
  /\ \A j \in ChildrenOf({r}) : exec[j] = "serving" =>
       signal[j] # "none" \/ j \in aborting \cup forgotten \/ out[OwnerOf[r]].pc = "children"
  /\ \/ \A j \in ChildrenOf({r}) : exec[j] # "idle" => signal[j] # "none"
     \/ /\ run[r].status = "cancelled"
        /\ \A j \in ChildrenOf({r}) : exec[j] # "idle" /\ Claims(j) => signal[j] # "none"

QuietInv == \A r \in quiet : Quieted(r)

LEMMA QuietSteps ==
  ASSUME StateInv, Next, NEW r \in quiet'
  PROVE  \/ /\ r \in quiet
            /\ \A j \in ChildrenOf({r}) : ~UserResumes(j)
            /\ \A q \in Requests : RetryCommit(q) /\ request[q].run = r => request'[q].pc # "launch"
         \/ CancelAnswer(r) /\ stop[r].ok /\ dirty[r] = {}
         \/ \E p \in Principals : SignOutClean(p) /\ out[p].runs = {} /\ r \in RunsOf(p) \ Fresh(p)
<1>1. request \in [Requests -> RequestRow]
  BY DEF StateInv, BaseInv, Typed
<1>2. \A j \in ChildrenOf({r}) : ~UserResumes(j)
  BY DEF UserResumes, ChildrenOf
<1>3. ASSUME NEW q \in Requests, RetryCommit(q), request[q].run = r
      PROVE  request'[q].pc # "launch"
  BY <1>1, <1>3 DEF RetryCommit, Answer, NoRequest
<1>4. ASSUME r \notin quiet
      PROVE  \/ CancelAnswer(r) /\ stop[r].ok /\ dirty[r] = {}
             \/ \E p \in Principals : SignOutClean(p) /\ out[p].runs = {} /\ r \in RunsOf(p) \ Fresh(p)
  <2>1. QuietWrite
    BY <1>4, Writers
  <2>2. ASSUME NEW x \in Runs, CancelStep(x)
        PROVE  CancelAnswer(r) /\ stop[r].ok /\ dirty[r] = {}
    BY <1>4, <2>2 DEF CancelStep, CancelRow, CancelChildren, CancelAnswer
  <2>3. ASSUME NEW p \in Principals, SignOutStep(p)
        PROVE  SignOutClean(p) /\ out[p].runs = {} /\ r \in RunsOf(p) \ Fresh(p)
    BY <1>4, <2>3 DEF SignOutStep, SignOutChildren, SignOutPause, SignOutClean
  <2>4. ASSUME NEW q \in Requests, RetryCommit(q)
        PROVE  FALSE
    BY <1>4, <2>4 DEF RetryCommit
  <2>5. ASSUME NEW j \in Jobs, UserResumes(j)
        PROVE  FALSE
    BY <1>4, <2>5 DEF UserResumes
  <2> QED
    BY <2>1, <2>2, <2>3, <2>4, <2>5 DEF QuietWrite
<1> QED
  BY <1>2, <1>3, <1>4

(* A cancellation that answers without an error has quieted its run.        *)
LEMMA CancelQuiets ==
  ASSUME StateInv, AdmitInv, OrphanInv, StopTold, OutTold, NEW r \in Runs,
         CancelAnswer(r), stop[r].ok, dirty[r] = {}
  PROVE  Quieted(r)'
<1>1. /\ Halting(r) /\ stop[r].pc = "answer" /\ ~Signalling(r)
      /\ UNCHANGED <<refreshVars, run, src, worker, request, out>>
      /\ forgotten' = forgotten \cup (owed[r] \ KeptDebt(r))
  BY DEF CancelAnswer, Halting
<1>2. worker[r] = "no" /\ run[r].status = "cancelled"
  BY <1>1 DEF StopTold
<1>3. \A q \in Requests : On(q, r) => ~Undisturbed(q)
  BY <1>1 DEF AdmitInv, HaltInv
<1>4. ASSUME NEW j \in ChildrenOf({r}), exec[j] # "idle", Claims(j)
      PROVE  signal[j] # "none"
  BY <1>1, <1>4 DEF StopTold, Signalling
<1>5. ASSUME NEW j \in ChildrenOf({r}), exec[j] = "serving", signal[j] = "none", j \notin aborting \cup forgotten'
      PROVE  out[OwnerOf[r]].pc = "children"
  <2>1. j \in Jobs /\ j[1] = r /\ OwnerOf[r] \in Principals
    BY DEF ChildrenOf, Principals
  <2>2. ~Claims(j)
    BY <1>4, <1>5
  <2>3. Debt(j)
    BY <1>5, <2>1, <2>2 DEF OrphanInv
  <2>4. j \in KeptDebt(r)
    BY <1>1, <1>5, <2>1, <2>3 DEF Debt
  <2>5. out[OwnerOf[r]].pc # "no"
    BY <2>1, <2>4 DEF KeptDebt, OutTold
  <2>6. out[OwnerOf[r]].pc \notin {"pause", "clean"}
    BY <1>5 DEF OutTold
  <2>7. out[OwnerOf[r]] \in OutRow
    BY <2>1 DEF StateInv, BaseInv, Typed
  <2> QED
    BY <2>5, <2>6, <2>7 DEF OutRow
<1>6. \A j \in ChildrenOf({r}) : exec'[j] = "serving" =>
        signal'[j] # "none" \/ j \in aborting' \cup forgotten' \/ out'[OwnerOf[r]].pc = "children"
  BY <1>1, <1>5
<1>7. \A j \in ChildrenOf({r}) : exec'[j] # "idle" /\ Claims(j)' => signal'[j] # "none"
  BY <1>1, <1>4 DEF Claims
<1>8. \A q \in Requests : On(q, r)' /\ request'[q].pc = "launch" => ~Undisturbed(q)'
  BY <1>1, <1>3 DEF On, Undisturbed
<1> QED
  BY <1>1, <1>2, <1>6, <1>7, <1>8 DEF Quieted, ChildrenOf

(* So has a sign-out, all the runs of its principal.                        *)
LEMMA SignOutQuiets ==
  ASSUME StateInv, OutTold, NEW p \in Principals, NEW r \in RunsOf(p) \ Fresh(p),
         SignOutClean(p), out[p].runs = {}
  PROVE  Quieted(r)'
<1>1. r \in Runs /\ OwnerOf[r] = p /\ run[r].status # "none"
  BY DEF RunsOf, Fresh
<1>2. out[p].pc = "clean" /\ worker[r] = "no" /\ UNCHANGED <<refreshVars, run, worker, request>>
  BY DEF SignOutClean
<1>3. \A q \in Requests : ~On(q, r)
  BY <1>1, OnWho DEF SignOutClean, Asking, On
<1>4. \A j \in ChildrenOf({r}) : exec[j] # "idle" => signal[j] # "none"
  BY <1>1, <1>2 DEF OutTold
<1>5. \A j \in ChildrenOf({r}) : exec'[j] # "idle" => signal'[j] # "none"
  BY <1>2, <1>4
<1>6. \A q \in Requests : ~On(q, r)'
  BY <1>2, <1>3 DEF On
<1> QED
  BY <1>1, <1>2, <1>5, <1>6 DEF Quieted, ChildrenOf

(* Until the user goes on with the run, it stays so.                        *)
LEMMA QuietedStays ==
  ASSUME StateInv, AdmitInv, OutTold, Next, NEW r \in Runs, r \in quiet', Quieted(r),
         \A j \in ChildrenOf({r}) : ~UserResumes(j),
         \A q \in Requests : RetryCommit(q) /\ request[q].run = r => request'[q].pc # "launch"
  PROVE  Quieted(r)'
<1>1. RefreshTypeOK /\ RefreshStep /\ TrackStep /\ OutTold' /\ OwnerOf[r] \in Principals
  BY RefreshSteps, OutToldNext DEF StateInv, BaseInv, Typed, Principals
<1>2. worker'[r] = "no" /\ run'[r].status # "none"
  <2>1. \A q \in Requests : ~Launched(q, r)
    BY DEF Launched, Quieted
  <2> QED
    BY <2>1, WorkerSteps, StatusSteps DEF Quieted
<1>3. ASSUME NEW q \in Requests, On(q, r)', request'[q].pc = "launch"
      PROVE  ~Undisturbed(q)'
  <2>1. CASE Stays(q)
    BY <1>3, <2>1 DEF Stays, Alike, On, Undisturbed, Quieted
  <2>2. CASE Answers(q) \/ Asked(q)
    BY <1>3, <2>2 DEF Answers, Asked
  <2>3. CASE Goes(q)
    BY <1>3, <2>3 DEF Goes, Alike, On
  <2>4. CASE Created(q)
    BY <1>3, <2>4 DEF Created, On, Quieted
  <2> QED
    BY <2>1, <2>2, <2>3, <2>4, RequestSteps
<1>4. ASSUME NEW j \in ChildrenOf({r}), exec'[j] # "idle"
      PROVE  GoesOn(j)
  <2>1. j \in Jobs /\ j[1] = r
    BY DEF ChildrenOf
  <2>2. ASSUME NEW x \in Runs, NEW y \in Providers, WorkStart(x, y), j = Child(x, y)
        PROVE  FALSE
    BY <2>1, <2>2 DEF WorkStart, At, Child, Quieted
  <2>3. ~Starts(j)
    BY <2>2 DEF Starts
  <2> QED
    BY <1>1, <1>4, <2>1, <2>3, ExecSteps
<1>5. \/ \A j \in ChildrenOf({r}) : exec'[j] # "idle" => signal'[j] # "none"
      \/ /\ run'[r].status = "cancelled"
         /\ \A j \in ChildrenOf({r}) : exec'[j] # "idle" /\ Claims(j)' => signal'[j] # "none"
  <2>1. CASE \A j \in ChildrenOf({r}) : exec[j] # "idle" => signal[j] # "none"
    BY <1>4, <2>1 DEF GoesOn
  <2>2. CASE /\ run[r].status = "cancelled"
             /\ \A j \in ChildrenOf({r}) : exec[j] # "idle" /\ Claims(j) => signal[j] # "none"
    <3>1. run'[r].status = "cancelled" /\ src'[r] = src[r]
      BY <2>2, CancelledOrRetried
    <3>2. \A j \in ChildrenOf({r}) : Claims(j)' => Claims(j)
      BY <3>1 DEF Claims, ChildrenOf
    <3>3. ASSUME NEW j \in ChildrenOf({r}), exec'[j] # "idle", Claims(j)'
          PROVE  signal'[j] # "none"
      <4>1. GoesOn(j) /\ Claims(j)
        BY <1>4, <3>2, <3>3
      <4>2. signal[j] # "none"
        BY <2>2, <4>1 DEF GoesOn
      <4> QED
        BY <4>1, <4>2 DEF GoesOn
    <3> QED
      BY <3>1, <3>3
  <2> QED
    BY <2>1, <2>2 DEF Quieted
<1>6. ASSUME NEW j \in ChildrenOf({r}), exec'[j] = "serving"
      PROVE  signal'[j] # "none" \/ j \in aborting' \cup forgotten' \/ out'[OwnerOf[r]].pc = "children"
  <2>1. GoesOn(j)
    BY <1>4, <1>6
  <2>2. exec[j] = "serving"
    <3>1. exec[j] # "idle" /\ Claims(j) => signal[j] # "none"
      BY DEF Quieted
    <3> QED
      BY <1>6, <2>1, <3>1 DEF GoesOn
  <2>3. CASE signal[j] # "none" \/ j \in aborting
    BY <2>1, <2>3 DEF GoesOn
  <2>4. CASE j \in forgotten
    <3>1. ~Restart
      BY <1>6 DEF Restart, RecoverJobs, ChildrenOf
    <3>2. forgotten \subseteq forgotten'
      BY <1>1, <3>1 DEF TrackStep, Tracks
    <3> QED
      BY <2>4, <3>2
  <2>5. CASE out[OwnerOf[r]].pc = "children"
    <3> DEFINE p == OwnerOf[r]
    <3>1. out \in [Principals -> OutRow]
      BY DEF StateInv, BaseInv, Typed
    <3>2. SignOut(p) => out'[p].pc = "children"
      BY <1>1, <3>1 DEF SignOut
    <3>3. SignOutStep(p) => out'[p].pc = "pause"
      BY <1>1, <2>5, <3>1 DEF SignOutStep, SignOutChildren, SignOutPause, SignOutClean, OutRow
    <3>4. ~Restart
      BY <1>6 DEF Restart, RecoverJobs, ChildrenOf
    <3>5. out'[p].pc \in {"children", "pause"}
      BY <1>1, <2>5, <3>2, <3>3, <3>4, OutMoves
    <3>6. out'[p].pc = "pause" => signal'[j] # "none"
      BY <1>1, <1>6 DEF OutTold, ChildrenOf
    <3> QED
      BY <3>5, <3>6
  <2> QED
    BY <2>2, <2>3, <2>4, <2>5 DEF Quieted
<1> QED
  BY <1>2, <1>3, <1>5, <1>6 DEF Quieted, ChildrenOf

LEMMA QuietNext ==
  ASSUME StateInv, AdmitInv, OrphanInv, StopTold, OutTold, QuietInv, Next
  PROVE  QuietInv'
<1>1. quiet \subseteq Runs /\ quiet' \subseteq Runs
  BY RestKeeps DEF StateInv, BaseInv, Typed
<1>2. ASSUME NEW r \in quiet'
      PROVE  Quieted(r)'
  <2>1. r \in Runs
    BY <1>1
  <2>2. CASE /\ r \in quiet
             /\ \A j \in ChildrenOf({r}) : ~UserResumes(j)
             /\ \A q \in Requests : RetryCommit(q) /\ request[q].run = r => request'[q].pc # "launch"
    BY <2>1, <2>2, QuietedStays DEF QuietInv
  <2>3. CASE CancelAnswer(r) /\ stop[r].ok /\ dirty[r] = {}
    BY <2>1, <2>3, CancelQuiets
  <2>4. CASE \E p \in Principals : SignOutClean(p) /\ out[p].runs = {} /\ r \in RunsOf(p) \ Fresh(p)
    BY <2>4, SignOutQuiets
  <2> QED
    BY <2>2, <2>3, <2>4, QuietSteps
<1> QED
  BY <1>2 DEF QuietInv

TellInv ==
  /\ LinkInv /\ TrackInv /\ ViewTold /\ SelInv /\ RetryTold
  /\ OrphanInv /\ SucceededInv /\ StopTold /\ OutTold /\ QuietInv

LEMMA TellInit ==
  ASSUME SyncInit
  PROVE  TellInv
<1>1. LinkInv /\ ViewTold /\ OrphanInv /\ SucceededInv
  BY DEF SyncInit, RefreshInit, NoView, LinkInv, ViewTold, OrphanInv, SucceededInv
<1>2. TrackInv
  BY DEF SyncInit, TrackInv, Idle, LinkedPc
<1>3. SelInv /\ RetryTold
  BY DEF SyncInit, SelInv, RetryTold, Selecting, On, NoRequest
<1>4. StopTold /\ OutTold
  BY DEF SyncInit, StopTold, OutTold, Principals
<1>5. QuietInv
  BY DEF SyncInit, QuietInv
<1> QED
  BY <1>1, <1>2, <1>3, <1>4, <1>5 DEF TellInv

LEMMA TellNext ==
  ASSUME StateInv, AdmitInv, TellInv, Next
  PROVE  TellInv'
BY LinkNext, TrackNext, ViewToldNext, SelNext, RetryToldNext, OrphanNext, SucceededNext,
   StopToldNext, OutToldNext, QuietNext DEF TellInv

LEMMA TellStutters ==
  ASSUME TellInv, UNCHANGED syncVars
  PROVE  TellInv'
<1> USE DEF syncVars, TellInv, ChildrenOf, On, Retries, Undisturbed, Claims, AccountedFor, Halted, Debt, Final
<1>1. LinkInv' /\ TrackInv' /\ ViewTold'
  BY DEF LinkInv, TrackInv, ViewTold, Child
<1>2. SelInv' /\ RetryTold'
  BY DEF SelInv, RetryTold, Selecting
<1>3. OrphanInv' /\ SucceededInv'
  BY DEF OrphanInv, SucceededInv
<1>4. StopTold' /\ OutTold'
  BY DEF StopTold, OutTold
<1>5. QuietInv'
  BY DEF QuietInv, Quieted
<1> QED
  BY <1>1, <1>2, <1>3, <1>4, <1>5

(* Once a cancellation or a sign-out has answered without an error, and      *)
(* until a retry or the user resumes it, a run's children that it shows are  *)
(* told to stop, and so is any that served an earlier attempt of it, but for  *)
(* one whose failed clean-up went with a tracker that a launch replaced      *)
(* (services/dataSync.ts cancel, signOut, launch and cleanupRuns).           *)
THEOREM StoppedRunsStop == Spec => []StoppedMeansStopped
<1> DEFINE Inv == StateInv /\ AdmitInv /\ TellInv
<1>1. SyncInit => Inv
  BY StateInit, AdmitInit, TellInit
<1>2. Inv /\ [Next]_syncVars => Inv'
  <2>1. Inv /\ Next => Inv'
    BY StateNext, AdmitNext, TellNext
  <2>2. Inv /\ UNCHANGED syncVars => Inv'
    BY StateStutters, AdmitStutters, TellStutters
  <2> QED
    BY <2>1, <2>2
<1>3. Inv => StoppedMeansStopped
  <2> SUFFICES ASSUME Inv, NEW r \in quiet, NEW j \in ChildrenOf({r})
               PROVE  /\ exec[j] # "idle" /\ Claims(j) => signal[j] # "none"
                      /\ exec[j] = "serving" => \/ signal[j] # "none" \/ j \in aborting \cup forgotten
                                                 \/ out[OwnerOf[r]].pc = "children"
    BY DEF StoppedMeansStopped
  <2>1. Quieted(r)
    BY DEF TellInv, QuietInv
  <2> QED
    BY <2>1 DEF Quieted
<1> HIDE DEF Inv
<1> QED
  BY <1>1, <1>2, <1>3, PTL DEF Spec
=============================================================================
