------------------------- MODULE PackageJobsProofs -------------------------
(***************************************************************************)
(* Proofs about PackageJobs, for every number of jobs, items, packages,    *)
(* workers, processes, reconcilers and faults: the rows and locals keep    *)
(* their types, and no item is written to the provider twice.              *)
(***************************************************************************)
EXTENDS PackageJobs, TLAPS

-----------------------------------------------------------------------------
(* Type correctness.  TypeOK is not inductive: the actions of a worker or   *)
(* reconciler index the tables by its locals, which must be known to be set *)
(* at each of its program points, and a write that lands computes its       *)
(* effect from the prestate recorded at submission.                         *)

ItemInHand == AtItem \cup {"pausing", "failing"}

LocalsSet ==
  \A w \in Workers :
    /\ pc[w] # "idle" => wjob[w] \in Jobs
    /\ pc[w] \notin {"idle", "authorizing"} => wversion[w] \in Version
    /\ pc[w] \in ItemInHand => witem[w] \in Items

PrestateSet ==
  /\ \A i \in Items : itemStatus[i] # "absent" => prestate[i] \in States
  /\ \A i \in Items : write[i] # "none" => prestate[i] \in States
  /\ \A w \in Workers : pc[w] \in ItemInHand => prestate[witem[w]] \in States

RitemSet == \A r \in Reconcilers : rpc[r] # "idle" => ritem[r] \in Items

TypeInv == TypeOK /\ LocalsSet /\ PrestateSet /\ RitemSet

USE DEF leaseVars, jobVars, itemVars, providerVars, lockVars, sessionVars, workerVars,
        reconcilerVars, workerLocals

(* What aggregate() stores is one of the statuses a job can have.           *)
LEMMA AggregateType ==
  ASSUME NEW j, NEW st, NEW cancelled
  PROVE  Aggregate(j, st, cancelled) \in JobStatus
BY DEF Aggregate, JobStatus

(* The tables start empty and every worker idle.                            *)
LEMMA InitType ==
  Init => TypeInv
BY PackageAssumption
DEF Init, TypeInv, TypeOK, JobTypeOK, ItemTypeOK, ProviderTypeOK, LockTypeOK, SessionTypeOK,
    WorkerTypeOK, ReconcilerTypeOK, LocalsSet, PrestateSet, RitemSet, ItemInHand, AtItem,
    ReconciliationStatus, WorkerPc

USE DEF TypeInv, TypeOK, JobTypeOK, ItemTypeOK, ProviderTypeOK, LockTypeOK, SessionTypeOK,
        WorkerTypeOK, ReconcilerTypeOK, LocalsSet, PrestateSet, RitemSet, ItemInHand, AtItem,
        WorkerPc

(* Cancelling writes statuses of items and of their job.                    *)
LEMMA CancelKeepsTypes ==
  ASSUME TypeInv,
         NEW j \in Jobs,
         Cancel(j)
  PROVE  TypeInv'
<1>1. ItemTypeOK'
  BY DEF Cancel, ItemStatus, ItemOutcome
<1>2. JobTypeOK'
  BY AggregateType DEF Cancel
<1>3. PrestateSet'
  BY DEF Cancel
<1> QED BY <1>1, <1>2, <1>3 DEF Cancel

(* A claim stays within the attempts: exhausted jobs are not claimable.     *)
LEMMA ClaimKeepsTypes ==
  ASSUME TypeInv,
         NEW w \in Workers,
         NEW ack \in BOOLEAN,
         Claim(w, ack)
  PROVE  TypeInv'
<1>1. wjob[w] \in Jobs /\ leaseVersion[wjob[w]] \in 0..MaxAttempts
  BY DEF Claim
<1>2. leaseVersion[wjob[w]] + 1 \in Version
  BY <1>1, PackageAssumption DEF Claim, Claimable, Exhausted, Version
<1>3. leaseVersion[wjob[w]] + 1 \in 0..MaxAttempts
  BY <1>2, PackageAssumption DEF Version
<1>4. HostOf[w] \in Processes
  BY PackageAssumption
<1>5. JobTypeOK'
  BY <1>1, <1>3, <1>4 DEF Claim, JobStatus
<1>6. CASE ack
  <2>1. WorkerTypeOK'
    <3>1. /\ pc' = [pc EXCEPT ![w] = "loop"]
          /\ wversion' = [wversion EXCEPT ![w] = leaseVersion[wjob[w]] + 1]
          /\ wepoch' = [wepoch EXCEPT ![w] = epoch]
          /\ UNCHANGED <<wjob, wresume, witem, wsent, wsession, wbarred>>
      BY <1>6 DEF Claim, Goto
    <3> QED BY <3>1, <1>3
  <2>2. LocalsSet'
    BY <1>1, <1>2, <1>6 DEF Claim, Goto
  <2>3. PrestateSet'
    BY <1>6 DEF Claim, Goto
  <2> QED BY <1>5, <1>6, <2>1, <2>2, <2>3 DEF Claim, Ack
<1>7. CASE ~ack
  <2>1. WorkerTypeOK' /\ LocalsSet' /\ PrestateSet'
    <3>1. Exit(w)
      BY <1>7 DEF Claim
    <3>2. WorkerTypeOK'
      BY <3>1, PackageAssumption DEF Exit
    <3>3. LocalsSet'
      BY <3>1 DEF Exit
    <3>4. PrestateSet'
      BY <3>1 DEF Exit, Claim
    <3> QED BY <3>2, <3>3, <3>4
  <2>2. LockTypeOK'
    BY <1>7 DEF Claim, Exit, Unlock
  <2>3. (faults \in 0..MaxFaults)'
    BY <1>7, PackageAssumption DEF Claim, Ack, Fault
  <2> QED BY <1>5, <2>1, <2>2, <2>3 DEF Claim, Exit
<1> QED BY <1>6, <1>7

(* The attempt row is written under the version the worker claimed.         *)
LEMMA BeginItemKeepsTypes ==
  ASSUME TypeInv,
         NEW w \in Workers,
         NEW ack \in BOOLEAN,
         BeginItem(w, ack)
  PROVE  TypeInv'
<1>1. PICK i \in Items :
         /\ itemStatus[i] = "queued"
         /\ itemStatus' = [itemStatus EXCEPT ![i] = "running"]
         /\ attempts' = [attempts EXCEPT ![i][wversion[w]] = "open"]
         /\ witem' = [witem EXCEPT ![w] = IF ack THEN i ELSE None]
  BY DEF BeginItem, FirstQueued, QueuedItems, ItemsOf
<1>2. wversion[w] \in Version
  BY DEF BeginItem
<1>3. [attempts[i] EXCEPT ![wversion[w]] = "open"]
        \in [Version -> ItemOutcome \cup {"none", "open"}]
  BY <1>2
<1>4. ItemTypeOK'
  BY <1>1, <1>3 DEF BeginItem, ItemStatus
<1>5. WorkerTypeOK'
  BY <1>1 DEF BeginItem, Goto
<1>6. LocalsSet'
  BY <1>1 DEF BeginItem, Goto
<1>7. PrestateSet'
  <2>1. prestate[i] \in States /\ UNCHANGED <<prestate, write>>
    BY <1>1 DEF BeginItem
  <2>2. \A k \in Items : itemStatus'[k] # "absent" => itemStatus[k] # "absent"
    BY <1>1
  <2>3. \A v \in Workers : pc'[v] \in ItemInHand => prestate[witem'[v]] \in States
    BY <1>1, <2>1 DEF BeginItem, Goto
  <2> QED BY <2>1, <2>2, <2>3
<1>8. (faults \in 0..MaxFaults)'
  BY PackageAssumption DEF BeginItem, Ack, Fault
<1> QED BY <1>4, <1>5, <1>6, <1>7, <1>8 DEF BeginItem

(* A released job takes the aggregate status.                               *)
LEMMA ReleaseKeepsTypes ==
  ASSUME TypeInv,
         NEW w \in Workers,
         Release(w)
  PROVE  TypeInv'
<1>1. JobTypeOK'
  <2>1. Aggregate(wjob[w], itemStatus, cancelRequested[wjob[w]]) \in JobStatus
    BY DEF Aggregate, JobStatus
  <2>2. wjob[w] \in Jobs
    BY DEF Release
  <2>3. CASE Fenced(w) /\ ~HasStatus(wjob[w], itemStatus, "running")
    <3>1. /\ jobStatus' = [jobStatus EXCEPT
                 ![wjob[w]] = Aggregate(wjob[w], itemStatus, cancelRequested[wjob[w]])]
          /\ leaseOwner' = [leaseOwner EXCEPT ![wjob[w]] = None]
          /\ leaseLive' = [leaseLive EXCEPT ![wjob[w]] = FALSE]
          /\ UNCHANGED <<cancelRequested, leaseVersion, deadlinePassed>>
      BY <2>3 DEF Release
    <3>2. /\ cancelRequested' \in [Jobs -> BOOLEAN]
          /\ leaseVersion' \in [Jobs -> 0..MaxAttempts]
          /\ deadlinePassed' \in [Jobs -> BOOLEAN]
      BY <3>1
    <3>3. jobStatus' \in [Jobs -> JobStatus \cup {"absent"}]
      BY <2>1, <2>2, <3>1
    <3>4. leaseOwner' \in [Jobs -> Processes \cup {None}] /\ leaseLive' \in [Jobs -> BOOLEAN]
      BY <2>2, <3>1
    <3> QED BY <3>2, <3>3, <3>4
  <2>4. CASE ~(Fenced(w) /\ ~HasStatus(wjob[w], itemStatus, "running"))
    BY <2>4 DEF Release
  <2> QED BY <2>3, <2>4
<1>2. WorkerTypeOK' /\ LockTypeOK'
  BY PackageAssumption DEF Release, Exit, Unlock
<1>3. LocalsSet' /\ PrestateSet'
  BY DEF Release, Exit
<1> QED BY <1>1, <1>2, <1>3 DEF Release

(* Marking touches one flag of an item in hand.                             *)
LEMMA MarkSentKeepsTypes ==
  ASSUME TypeInv,
         NEW w \in Workers,
         NEW ack \in BOOLEAN,
         MarkSent(w, ack)
  PROVE  TypeInv'
<1>1. LockTypeOK'
  BY DEF MarkSent, Unlock
<1>2. ItemTypeOK'
  BY DEF MarkSent
<1>3. WorkerTypeOK'
  <2>1. CASE ack
    <3>1. pc' = [pc EXCEPT ![w] = "marked"] /\ wsent' = [wsent EXCEPT ![w] = TRUE]
      BY <2>1 DEF MarkSent, Goto
    <3>2. UNCHANGED <<wjob, wresume, wversion, witem, wsession, wepoch, wbarred>>
      BY DEF MarkSent
    <3> QED BY <3>1, <3>2
  <2>2. CASE ~ack
    <3>1. pc' = [pc EXCEPT ![w] = "failing"]
      BY <2>2 DEF MarkSent, Goto
    <3>2. UNCHANGED <<wjob, wresume, wversion, witem, wsent, wsession, wepoch, wbarred>>
      BY <2>2 DEF MarkSent
    <3> QED BY <3>1, <3>2
  <2> QED BY <2>1, <2>2
<1>4. PICK label \in {"marked", "failing"} : pc' = [pc EXCEPT ![w] = label]
  BY DEF MarkSent, Goto
<1>5. LocalsSet'
  BY <1>4 DEF MarkSent
<1>6. PrestateSet'
  BY <1>4 DEF MarkSent
<1>7. (faults \in 0..MaxFaults)'
  BY PackageAssumption DEF MarkSent, Ack, Fault
<1> QED BY <1>1, <1>2, <1>3, <1>5, <1>6, <1>7 DEF MarkSent

(* A verified outcome closes the attempt of the version claimed.            *)
LEMMA FinishAuthorizedKeepsTypes ==
  ASSUME TypeInv,
         NEW w \in Workers,
         NEW ack \in BOOLEAN,
         FinishAuthorized(w, ack)
  PROVE  TypeInv'
<1>1. PICK label \in {"loop", "releasing", "pausing", "failing"} :
         /\ pc' = [pc EXCEPT ![w] = label]
         /\ ack => label \in {"loop", "releasing"}
  BY DEF FinishAuthorized, Goto
<1>2. witem' = IF ack THEN [witem EXCEPT ![w] = None] ELSE witem
  BY DEF FinishAuthorized
<1>3. wsent' = IF ack THEN [wsent EXCEPT ![w] = FALSE] ELSE wsent
  BY DEF FinishAuthorized
<1>4. WorkerTypeOK'
  BY <1>1, <1>2, <1>3 DEF FinishAuthorized
<1>5. LockTypeOK'
  BY DEF FinishAuthorized, Unlock
<1>6. ItemTypeOK'
  BY DEF FinishAuthorized, Finished, ItemStatus, ItemOutcome, ReconciliationStatus
<1>7. LocalsSet'
  BY <1>1, <1>2 DEF FinishAuthorized
<1>8. PrestateSet'
  BY <1>1, <1>2 DEF FinishAuthorized, Finished
<1>9. (faults \in 0..MaxFaults)'
  BY PackageAssumption DEF FinishAuthorized, Ack, Fault
<1> QED BY <1>4, <1>5, <1>6, <1>7, <1>8, <1>9 DEF FinishAuthorized

(* So does the outcome of a failed item.                                    *)
LEMMA FinishFailedKeepsTypes ==
  ASSUME TypeInv,
         NEW w \in Workers,
         FinishFailed(w)
  PROVE  TypeInv'
<1>1. PICK outcome \in {"inconclusive", "cancelled", "failed"} :
         Finished(witem[w], wversion[w], outcome)
  BY DEF FinishFailed
<1>2. [attempts[witem[w]] EXCEPT ![wversion[w]] = outcome]
        \in [Version -> ItemOutcome \cup {"none", "open"}]
  BY DEF FinishFailed, ItemOutcome
<1>3. ItemTypeOK'
  BY <1>1, <1>2 DEF FinishFailed, Finished, ItemStatus, ItemOutcome, ReconciliationStatus
<1>4. PICK label \in {"loop", "releasing"} : pc' = [pc EXCEPT ![w] = label]
  BY DEF FinishFailed, Goto
<1>5. WorkerTypeOK'
  BY <1>4 DEF FinishFailed
<1>6. LocalsSet'
  BY <1>4 DEF FinishFailed
<1>7. PrestateSet'
  BY <1>1, <1>4 DEF FinishFailed, Finished
<1> QED BY <1>3, <1>5, <1>6, <1>7 DEF FinishFailed

(* A write is of an item in hand, whose prestate is known.                  *)
LEMMA PostKeepsTypes ==
  ASSUME TypeInv,
         NEW w \in Workers,
         Post(w)
  PROVE  TypeInv'
<1>1. ProviderTypeOK'
  BY DEF Post
<1>2. WorkerTypeOK' /\ LocalsSet'
  BY DEF Post, Goto
<1>3. PrestateSet'
  BY DEF Post, Goto
<1> QED BY <1>1, <1>2, <1>3 DEF Post

(* Recovery settles candidates, and the job with the last of them.          *)
LEMMA RecoverKeepsTypes ==
  ASSUME TypeInv,
         NEW j \in Jobs,
         NEW includeQueued \in BOOLEAN,
         NEW batch \in SUBSET RecoverCandidates(j, itemStatus),
         Recover(j, includeQueued, batch)
  PROVE  TypeInv'
<1>1. JobTypeOK'
  <2>1. \A st : Aggregate(j, st, cancelRequested[j]) \in JobStatus
    BY DEF Aggregate, JobStatus
  <2>2. PICK status \in JobStatus :
          \/ /\ jobStatus' = [jobStatus EXCEPT ![j] = status]
             /\ leaseOwner' = [leaseOwner EXCEPT ![j] = None]
             /\ leaseLive' = [leaseLive EXCEPT ![j] = FALSE]
          \/ UNCHANGED <<jobStatus, leaseOwner, leaseLive>>
    <3> DEFINE st == [i \in Items |-> IF i \in batch THEN RecoveredStatus(i) ELSE itemStatus[i]]
    <3>1. CASE RecoverCandidates(j, st) = {}
      BY <2>1, <3>1 DEF Recover
    <3>2. CASE RecoverCandidates(j, st) # {}
      BY <3>2 DEF Recover, JobStatus
    <3> QED BY <3>1, <3>2
  <2>3. UNCHANGED <<cancelRequested, leaseVersion, deadlinePassed>>
    BY DEF Recover
  <2>4. CASE /\ jobStatus' = [jobStatus EXCEPT ![j] = status]
             /\ leaseOwner' = [leaseOwner EXCEPT ![j] = None]
             /\ leaseLive' = [leaseLive EXCEPT ![j] = FALSE]
    BY <2>3, <2>4
  <2>5. CASE UNCHANGED <<jobStatus, leaseOwner, leaseLive>>
    BY <2>3, <2>5
  <2> QED BY <2>2, <2>4, <2>5
<1>2. ItemTypeOK'
  BY DEF Recover, RecoveredStatus, ClosedAttempt, ItemStatus, ItemOutcome, ReconciliationStatus
<1>3. PrestateSet'
  BY DEF Recover, RecoverCandidates, ItemsOf
<1> QED BY <1>1, <1>2, <1>3 DEF Recover

(* A write that lands leaves the package in a state it can have.            *)
LEMMA WriteLandsKeepsTypes ==
  ASSUME TypeInv,
         NEW i \in Items,
         WriteLands(i)
  PROVE  TypeInv'
<1>1. prestate[i] \in States /\ Effect[JobOf[i]] \in [States -> States]
  BY PackageAssumption DEF WriteLands
<1>2. Expected(i) \in States
  BY <1>1 DEF Expected
<1>3. TargetOf[i] \in Targets
  BY PackageAssumption
<1>4. ProviderTypeOK'
  BY <1>2, <1>3 DEF WriteLands
<1>5. LockTypeOK'
  <2>1. disturbed' \in {disturbed, disturbed \cup Reading(TargetOf[i])}
    BY DEF WriteLands
  <2> QED BY <2>1 DEF WriteLands, Reading
<1>6. PrestateSet'
  BY DEF WriteLands
<1> QED BY <1>4, <1>5, <1>6 DEF WriteLands

(* One step per action of the next-state relation.                          *)
LEMMA NextKeepsTypes ==
  ASSUME TypeInv, [Next]_vars
  PROVE  TypeInv'
<1> HIDE DEF TypeInv
<1>1. ASSUME NEW j \in Jobs, Submit(j) PROVE TypeInv'
  BY <1>1, PackageAssumption DEF TypeInv, Submit, JobStatus, ItemStatus
<1>2. ASSUME NEW j \in Jobs, Cancel(j) PROVE TypeInv'
  BY <1>2, CancelKeepsTypes
<1>3. ASSUME NEW h \in Processes, RevokeSession(h) PROVE TypeInv'
  BY <1>3, PackageAssumption DEF TypeInv, RevokeSession, Fault
<1>4. ASSUME NEW h \in Processes, PauseQueuedJobs(h) PROVE TypeInv'
  BY <1>4, AggregateType DEF TypeInv, PauseQueuedJobs, JobStatus
<1>5. ASSUME NEW h \in Processes, RevokeEpoch(h) PROVE TypeInv'
  BY <1>5 DEF TypeInv, RevokeEpoch
<1>6. ASSUME NEW w \in Workers, NEW j \in Jobs, NEW resume \in BOOLEAN, Launch(w, j, resume)
      PROVE  TypeInv'
  BY <1>6, PackageAssumption DEF TypeInv, Launch, Goto, WorkerPc
<1>7. ASSUME NEW w \in Workers, AuthorizationFails(w) PROVE TypeInv'
  BY <1>7, PackageAssumption, AggregateType DEF TypeInv, AuthorizationFails, Exit, Unlock, JobStatus
<1>8. ASSUME NEW w \in Workers, NEW ack \in BOOLEAN, Claim(w, ack) PROVE TypeInv'
  BY <1>8, ClaimKeepsTypes
<1>9. ASSUME NEW w \in Workers, ClaimRefused(w) PROVE TypeInv'
  BY <1>9, PackageAssumption DEF TypeInv, ClaimRefused, Exit, Unlock
<1>10. ASSUME NEW w \in Workers, NEW ack \in BOOLEAN, BeginItem(w, ack) PROVE TypeInv'
  BY <1>10, BeginItemKeepsTypes
<1>11. ASSUME NEW w \in Workers, BeginItemExpired(w) PROVE TypeInv'
  <2> USE DEF TypeInv
  <2>1. ItemTypeOK'
    BY <1>11 DEF BeginItemExpired, ItemOutcome, ItemStatus
  <2>2. WorkerTypeOK' /\ LocalsSet'
    BY <1>11 DEF BeginItemExpired, Goto
  <2>3. PrestateSet'
    BY <1>11 DEF BeginItemExpired, Goto, QueuedItems, ItemsOf
  <2> QED BY <1>11, <2>1, <2>2, <2>3 DEF BeginItemExpired
<1>12. ASSUME NEW w \in Workers, Stop(w) PROVE TypeInv'
  BY <1>12 DEF TypeInv, Stop, Goto
<1>13. ASSUME NEW w \in Workers, Release(w) PROVE TypeInv'
  BY <1>13, ReleaseKeepsTypes
<1>14. ASSUME NEW w \in Workers, TakeTargetLock(w) PROVE TypeInv'
  BY <1>14, PackageAssumption DEF TypeInv, TakeTargetLock, Goto
<1>15. ASSUME NEW w \in Workers, ReadBefore(w) PROVE TypeInv'
  BY <1>15 DEF TypeInv, ReadBefore, Goto
<1>16. ASSUME NEW w \in Workers, ReadImmediate(w) PROVE TypeInv'
  BY <1>16 DEF TypeInv, ReadImmediate, Goto
<1>17. ASSUME NEW w \in Workers, NEW ack \in BOOLEAN, MarkSent(w, ack) PROVE TypeInv'
  BY <1>17, MarkSentKeepsTypes
<1>18. ASSUME NEW w \in Workers, Post(w) PROVE TypeInv'
  BY <1>18, PostKeepsTypes
<1>19. ASSUME NEW w \in Workers, Verify(w) PROVE TypeInv'
  BY <1>19 DEF TypeInv, Verify, Goto
<1>20. ASSUME NEW w \in Workers, NEW ack \in BOOLEAN, FinishAuthorized(w, ack) PROVE TypeInv'
  BY <1>20, FinishAuthorizedKeepsTypes
<1>21. ASSUME NEW w \in Workers, NEW label \in {"pausing", "failing"}, ItemFails(w, label)
       PROVE  TypeInv'
  BY <1>21 DEF TypeInv, ItemFails, Goto, Unlock
<1>22. ASSUME NEW w \in Workers, LeaseLost(w) PROVE TypeInv'
  BY <1>22, PackageAssumption DEF TypeInv, LeaseLost, Exit, Unlock
<1>23. ASSUME NEW w \in Workers, PauseItem(w) PROVE TypeInv'
  BY <1>23, PackageAssumption, AggregateType
  DEF TypeInv, PauseItem, Exit, Unlock, PausedAttempt, ItemOutcome, ItemStatus
<1>24. ASSUME NEW w \in Workers, FinishFailed(w) PROVE TypeInv'
  BY <1>24, FinishFailedKeepsTypes
<1>25. ASSUME NEW w \in Workers, CatchRefused(w) PROVE TypeInv'
  BY <1>25 DEF TypeInv, CatchRefused, Goto
<1>26. ASSUME NEW w \in Workers, Crash(w) PROVE TypeInv'
  BY <1>26, PackageAssumption DEF TypeInv, Crash, Exit, Unlock, Fault
<1>27. ASSUME NEW r \in Reconcilers, NEW i \in Items, ReconcileLock(r, i) PROVE TypeInv'
  BY <1>27, PackageAssumption DEF TypeInv, ReconcileLock
<1>28. ASSUME NEW r \in Reconcilers, ReconcileRead(r) PROVE TypeInv'
  BY <1>28, PackageAssumption DEF TypeInv, ReconcileRead
<1>29. ASSUME NEW r \in Reconcilers, RecordReconciliation(r) PROVE TypeInv'
  BY <1>29, PackageAssumption, AggregateType
  DEF TypeInv, RecordReconciliation, ReconcileExit, Unlock, Reconcilable, Verdict, ItemOutcome,
      ItemStatus, ReconciliationStatus
<1>30. ASSUME NEW r \in Reconcilers, ReconcileFails(r) PROVE TypeInv'
  BY <1>30 DEF TypeInv, ReconcileFails, ReconcileExit, Unlock
<1>31. ASSUME NEW j \in Jobs, NEW includeQueued \in BOOLEAN,
              NEW batch \in SUBSET RecoverCandidates(j, itemStatus),
              Recover(j, includeQueued, batch)
       PROVE  TypeInv'
  BY <1>31, RecoverKeepsTypes
<1>32. ASSUME NEW j \in Jobs, LeaseExpires(j) PROVE TypeInv'
  BY <1>32 DEF TypeInv, LeaseExpires
<1>33. ASSUME NEW j \in Jobs, DeadlinePasses(j) PROVE TypeInv'
  BY <1>33 DEF TypeInv, DeadlinePasses
<1>34. ASSUME NEW i \in Items, WriteLands(i) PROVE TypeInv'
  BY <1>34, WriteLandsKeepsTypes
<1>35. ASSUME NEW i \in Items, WriteIsLost(i) PROVE TypeInv'
  BY <1>35 DEF TypeInv, WriteIsLost
<1>36. ASSUME NEW t \in Targets, NEW s \in States, ExternalEdit(t, s) PROVE TypeInv'
  BY <1>36, PackageAssumption DEF TypeInv, ExternalEdit, Fault, Reading
<1>37. ASSUME NEW t \in Targets, LockIsLost(t) PROVE TypeInv'
  BY <1>37, PackageAssumption DEF TypeInv, LockIsLost, Fault
<1>38. ASSUME RequestStep PROVE TypeInv'
  BY <1>38, <1>1, <1>2
  DEF RequestStep
<1>39. ASSUME SessionStep PROVE TypeInv'
  BY <1>39, <1>3, <1>4, <1>5
  DEF SessionStep
<1>40. ASSUME NEW w \in Workers, WorkerStep(w) PROVE TypeInv'
  <2>1. ASSUME NEW j \in Jobs, NEW resume \in BOOLEAN, Launch(w, j, resume) PROVE TypeInv'
    BY <2>1, <1>6
  <2>2. ASSUME NEW ack \in BOOLEAN,
               Claim(w, ack) \/ BeginItem(w, ack) \/ MarkSent(w, ack) \/ FinishAuthorized(w, ack)
        PROVE  TypeInv'
    BY <2>2, <1>8, <1>10, <1>17, <1>20
  <2>3. CASE \E label \in {"pausing", "failing"} : ItemFails(w, label)
    BY <2>3, <1>21
  <2> QED
    BY <1>40, <2>1, <2>2, <2>3,
       <1>7, <1>9, <1>11, <1>12, <1>13, <1>14, <1>15, <1>16, <1>18, <1>19, <1>22,
       <1>23, <1>24, <1>25, <1>26
    DEF WorkerStep
<1>41. ASSUME NEW r \in Reconcilers, ReconcilerStep(r) PROVE TypeInv'
  BY <1>41, <1>27, <1>28, <1>29, <1>30
  DEF ReconcilerStep
<1>42. ASSUME RecoveryStep PROVE TypeInv'
  BY <1>42, <1>31
  DEF RecoveryStep, RecoverJob
<1>43. ASSUME ClockStep PROVE TypeInv'
  BY <1>43, <1>32, <1>33
  DEF ClockStep
<1>44. ASSUME ProviderStep PROVE TypeInv'
  BY <1>44, <1>34, <1>35, <1>36, <1>37
  DEF ProviderStep
<1>45. ASSUME UNCHANGED vars PROVE TypeInv'
  BY <1>45 DEF vars, TypeInv
<1> QED BY <1>38, <1>39, <1>40, <1>41, <1>42, <1>43, <1>44, <1>45 DEF Next

(* Every row, local and lock holds a value of its type, and a job is never  *)
(* claimed more often than the attempts it has (db/jobs.ts claim).          *)
THEOREM TypeCorrectness == Spec => []TypeOK
<1>1. Init => TypeInv
  BY InitType
<1>2. TypeInv /\ [Next]_vars => TypeInv'
  BY NextKeepsTypes
<1>3. TypeInv => TypeOK
  OBVIOUS
<1> QED BY <1>1, <1>2, <1>3, PTL DEF Spec

-----------------------------------------------------------------------------
(* At most one write per item.  What makes the invariant inductive is that  *)
(* sent_at is set before the write and never reset: an item that was        *)
(* written is marked, a worker about to write has marked its item and has   *)
(* not written it yet, and no two workers have marked the same item.        *)

DispatchInv ==
  /\ AtMostOnceDispatch
  /\ \A i \in Items : posted[i] > 0 => sentAt[i]
  /\ \A w \in Workers : pc[w] = "marked" => sentAt[witem[w]] /\ posted[witem[w]] = 0
  /\ \A v, w \in Workers :
       (pc[v] = "marked" /\ pc[w] = "marked" /\ witem[v] = witem[w]) => v = w

(* A step that neither marks nor writes, and starts no worker's write.      *)
Undisturbed ==
  /\ UNCHANGED <<sentAt, posted>>
  /\ \A w \in Workers : pc'[w] = "marked" => pc[w] = "marked" /\ witem'[w] = witem[w]

LEMMA UndisturbedKeepsDispatch ==
  ASSUME TypeInv, DispatchInv, Undisturbed
  PROVE  DispatchInv'
BY DEF Undisturbed, DispatchInv, AtMostOnceDispatch

(* markSent admits only an item that was never marked, hence never written. *)
LEMMA MarkSentKeepsDispatch ==
  ASSUME TypeInv, DispatchInv, NEW w \in Workers, NEW ack \in BOOLEAN, MarkSent(w, ack)
  PROVE  DispatchInv'
<1>1. witem[w] \in Items /\ ~sentAt[witem[w]]
  BY DEF MarkSent, Markable
<1>2. posted[witem[w]] = 0
  BY <1>1 DEF DispatchInv
<1>3. \A v \in Workers : pc[v] = "marked" => witem[v] # witem[w]
  BY <1>1 DEF DispatchInv
<1>4. sentAt' = [sentAt EXCEPT ![witem[w]] = TRUE] /\ posted' = posted /\ witem' = witem
  BY DEF MarkSent
<1>5. PICK label \in {"marked", "failing"} : pc' = [pc EXCEPT ![w] = label]
  BY DEF MarkSent, Goto
<1>6. AtMostOnceDispatch' /\ \A i \in Items : posted'[i] > 0 => sentAt'[i]
  BY <1>1, <1>4 DEF DispatchInv, AtMostOnceDispatch
<1>7. ASSUME NEW v \in Workers, pc'[v] = "marked"
      PROVE  sentAt'[witem'[v]] /\ posted'[witem'[v]] = 0
  BY <1>1, <1>2, <1>4, <1>5, <1>7 DEF DispatchInv
<1>8. ASSUME NEW u \in Workers, NEW v \in Workers,
             pc'[u] = "marked", pc'[v] = "marked", witem'[u] = witem'[v]
      PROVE  u = v
  BY <1>3, <1>4, <1>5, <1>8 DEF DispatchInv
<1> QED BY <1>6, <1>7, <1>8 DEF DispatchInv

(* The write leaves the only program point from which it is made.           *)
LEMMA PostKeepsDispatch ==
  ASSUME TypeInv, DispatchInv, NEW w \in Workers, Post(w)
  PROVE  DispatchInv'
<1>1. witem[w] \in Items /\ sentAt[witem[w]] /\ posted[witem[w]] = 0
  BY DEF Post, DispatchInv
<1>2. /\ posted' = [posted EXCEPT ![witem[w]] = @ + 1]
      /\ sentAt' = sentAt
      /\ witem' = witem
      /\ pc' = [pc EXCEPT ![w] = "posted"]
  BY DEF Post, Goto
<1>3. \A v \in Workers : pc'[v] = "marked" => pc[v] = "marked" /\ witem[v] # witem[w]
  BY <1>2 DEF Post, DispatchInv
<1>4. AtMostOnceDispatch' /\ \A i \in Items : posted'[i] > 0 => sentAt'[i]
  BY <1>1, <1>2 DEF DispatchInv, AtMostOnceDispatch
<1>5. \A v \in Workers : pc'[v] = "marked" => sentAt'[witem'[v]] /\ posted'[witem'[v]] = 0
  BY <1>2, <1>3 DEF DispatchInv
<1>6. \A u, v \in Workers :
        (pc'[u] = "marked" /\ pc'[v] = "marked" /\ witem'[u] = witem'[v]) => u = v
  BY <1>2, <1>3 DEF DispatchInv
<1> QED BY <1>4, <1>5, <1>6 DEF DispatchInv

(* Every other step of a worker leaves marks and writes alone.              *)
LEMMA WorkerKeepsDispatch ==
  ASSUME TypeInv, DispatchInv, NEW w \in Workers, WorkerStep(w)
  PROVE  DispatchInv'
<1>1. ASSUME NEW j \in Jobs, NEW resume \in BOOLEAN, Launch(w, j, resume) PROVE Undisturbed
  BY <1>1 DEF Launch, Goto, Undisturbed
<1>2. ASSUME NEW ack \in BOOLEAN, Claim(w, ack) PROVE Undisturbed
  BY <1>2 DEF Claim, Goto, Exit, Undisturbed
<1>3. ASSUME NEW ack \in BOOLEAN, BeginItem(w, ack) PROVE Undisturbed
  BY <1>3 DEF BeginItem, Goto, Undisturbed
<1>4. ASSUME NEW ack \in BOOLEAN, FinishAuthorized(w, ack) PROVE Undisturbed
  BY <1>4 DEF FinishAuthorized, Finished, Goto, Undisturbed
<1>5. ASSUME NEW label \in {"pausing", "failing"}, ItemFails(w, label) PROVE Undisturbed
  BY <1>5 DEF ItemFails, Goto, Undisturbed
<1>6. ASSUME AuthorizationFails(w) PROVE Undisturbed
  BY <1>6 DEF AuthorizationFails, Exit, Undisturbed
<1>7. ASSUME ClaimRefused(w) PROVE Undisturbed
  BY <1>7 DEF ClaimRefused, Exit, Undisturbed
<1>8. ASSUME BeginItemExpired(w) PROVE Undisturbed
  BY <1>8 DEF BeginItemExpired, Goto, Undisturbed
<1>9. ASSUME Stop(w) PROVE Undisturbed
  BY <1>9 DEF Stop, Goto, Undisturbed
<1>10. ASSUME Release(w) PROVE Undisturbed
  BY <1>10 DEF Release, Exit, Undisturbed
<1>11. ASSUME TakeTargetLock(w) PROVE Undisturbed
  BY <1>11 DEF TakeTargetLock, Goto, Undisturbed
<1>12. ASSUME ReadBefore(w) PROVE Undisturbed
  BY <1>12 DEF ReadBefore, Goto, Undisturbed
<1>13. ASSUME ReadImmediate(w) PROVE Undisturbed
  BY <1>13 DEF ReadImmediate, Goto, Undisturbed
<1>14. ASSUME Verify(w) PROVE Undisturbed
  BY <1>14 DEF Verify, Goto, Undisturbed
<1>15. ASSUME LeaseLost(w) PROVE Undisturbed
  BY <1>15 DEF LeaseLost, Exit, Undisturbed
<1>16. ASSUME PauseItem(w) PROVE Undisturbed
  BY <1>16 DEF PauseItem, Exit, Undisturbed
<1>17. ASSUME FinishFailed(w) PROVE Undisturbed
  BY <1>17 DEF FinishFailed, Goto, Finished, Undisturbed
<1>18. ASSUME CatchRefused(w) PROVE Undisturbed
  BY <1>18 DEF CatchRefused, Goto, Undisturbed
<1>19. ASSUME Crash(w) PROVE Undisturbed
  BY <1>19 DEF Crash, Exit, Undisturbed
<1>20. ASSUME NEW ack \in BOOLEAN, MarkSent(w, ack) PROVE DispatchInv'
  BY <1>20, MarkSentKeepsDispatch
<1>21. ASSUME Post(w) PROVE DispatchInv'
  BY <1>21, PostKeepsDispatch
<1>22. ASSUME Undisturbed PROVE DispatchInv'
  BY <1>22, UndisturbedKeepsDispatch
<1> QED
  BY <1>1, <1>2, <1>3, <1>4, <1>5, <1>6, <1>7, <1>8, <1>9, <1>10, <1>11, <1>12, <1>13,
     <1>14, <1>15, <1>16, <1>17, <1>18, <1>19, <1>20, <1>21, <1>22
  DEF WorkerStep

(* No other part of the system marks items or writes to the provider.       *)
LEMMA NextKeepsDispatch ==
  ASSUME TypeInv, DispatchInv, [Next]_vars
  PROVE  DispatchInv'
<1>1. CASE RequestStep
  BY <1>1, UndisturbedKeepsDispatch DEF RequestStep, Submit, Cancel, Undisturbed
<1>2. CASE SessionStep
  BY <1>2, UndisturbedKeepsDispatch
  DEF SessionStep, RevokeSession, PauseQueuedJobs, RevokeEpoch, Undisturbed
<1>3. CASE \E w \in Workers : WorkerStep(w)
  BY <1>3, WorkerKeepsDispatch
<1>4. ASSUME NEW r \in Reconcilers, ReconcilerStep(r) PROVE Undisturbed
  BY <1>4 DEF ReconcilerStep, ReconcileLock, ReconcileRead, RecordReconciliation, ReconcileFails,
              ReconcileExit, Undisturbed
<1>5. ASSUME NEW j \in Jobs, NEW includeQueued \in BOOLEAN, RecoverJob(j, includeQueued)
      PROVE  Undisturbed
  BY <1>5 DEF RecoverJob, Recover, Undisturbed
<1>6. CASE ClockStep
  BY <1>6, UndisturbedKeepsDispatch DEF ClockStep, LeaseExpires, DeadlinePasses, Undisturbed
<1>7. CASE ProviderStep
  BY <1>7, UndisturbedKeepsDispatch
  DEF ProviderStep, WriteLands, WriteIsLost, ExternalEdit, LockIsLost, Undisturbed
<1>8. CASE UNCHANGED vars
  BY <1>8, UndisturbedKeepsDispatch DEF vars, Undisturbed
<1> QED
  BY <1>1, <1>2, <1>3, <1>4, <1>5, <1>6, <1>7, <1>8, UndisturbedKeepsDispatch
  DEF Next, RecoveryStep

(* No item of any job is ever written to the provider twice, whatever       *)
(* crashes, lease takeovers, lost acknowledgements, resumptions and         *)
(* recoveries happen around it (db/jobs.ts markSent, services/bulkJobs.ts). *)
THEOREM DispatchAtMostOnce == Spec => []AtMostOnceDispatch
<1>1. Init => TypeInv /\ DispatchInv
  <2>1. Init => DispatchInv
    BY DEF Init, DispatchInv, AtMostOnceDispatch
  <2> QED BY <2>1, InitType
<1>2. TypeInv /\ DispatchInv /\ [Next]_vars => (TypeInv /\ DispatchInv)'
  BY NextKeepsTypes, NextKeepsDispatch
<1>3. DispatchInv => AtMostOnceDispatch
  BY DEF DispatchInv
<1> QED BY <1>1, <1>2, <1>3, PTL DEF Spec
============================================================================
