------------------------ MODULE PackageOutcomeProofs ------------------------
(***************************************************************************)
(* More proofs about PackageJobs, for every number of jobs, items,         *)
(* packages, workers, processes, reconcilers and faults: what the status   *)
(* of an item and of a job may claim, what cancellation, sign-out and the  *)
(* package lock prevent, and where the attempts of running items are.      *)
(***************************************************************************)
EXTENDS PackageJobsProofs, FiniteSetTheorems

USE DEF leaseVars, jobVars, itemVars, providerVars, lockVars, sessionVars, workerVars,
        reconcilerVars, workerLocals

-----------------------------------------------------------------------------
(* The steps that store nothing about an item, claim no job and begin       *)
(* nothing: each worker stays, stops or goes on within its item.            *)

(* The points at which a worker has claimed its job.                        *)
Claimed == WorkerPc \ {"idle", "authorizing"}

GoesOn(w) ==
  \/ pc'[w] = pc[w]
  \/ pc[w] \in Claimed /\ pc'[w] = "releasing"
  \/ pc[w] \in {"begun", "locked", "confirmed"}
       /\ pc'[w] \in {"locked", "confirmed", "matched", "unchanged"}
  \/ pc[w] = "posted" /\ pc'[w] = "verified"
  \/ pc[w] \in AtItem /\ pc'[w] = "failing"
  \/ pc[w] \in AtItem /\ pc'[w] = "pausing" /\ ~wsent[w]

Passive ==
  /\ UNCHANGED <<cancelRequested, leaseOwner, leaseVersion, itemVars, posted>>
  /\ \A j \in Jobs :
       /\ leaseLive'[j] => leaseLive[j]
       /\ \/ jobStatus'[j] = jobStatus[j]
          \/ /\ jobStatus[j] = "queued" /\ leaseOwner[j] = None
             /\ jobStatus'[j] = "waiting_authorization"
  /\ \A w \in Workers :
       \/ pc'[w] = "idle" /\ ~wsent'[w]
       \/ /\ wjob'[w] = wjob[w] /\ wversion'[w] = wversion[w]
          /\ witem'[w] = witem[w] /\ wsent'[w] = wsent[w]
          /\ GoesOn(w)

(* The other steps, one for each transaction of the repository.             *)
Active ==
  \/ \E j \in Jobs :
       \/ Submit(j) \/ Cancel(j)
       \/ \E includeQueued \in BOOLEAN : RecoverJob(j, includeQueued)
  \/ \E w \in Workers :
       \/ \E j \in Jobs, resume \in BOOLEAN : Launch(w, j, resume)
       \/ \E ack \in BOOLEAN : Claim(w, ack) \/ BeginItem(w, ack) \/ MarkSent(w, ack)
                               \/ FinishAuthorized(w, ack)
       \/ BeginItemExpired(w) \/ Release(w) \/ Post(w) \/ PauseItem(w) \/ FinishFailed(w)
  \/ \E r \in Reconcilers : RecordReconciliation(r)

(* Nothing else happens than these.                                         *)
LEMMA StepKinds ==
  ASSUME TypeInv, [Next]_vars
  PROVE  Passive \/ Active
<1> USE DEF TypeInv, TypeOK, JobTypeOK, ItemTypeOK, ProviderTypeOK, LockTypeOK, SessionTypeOK,
            WorkerTypeOK, LocalsSet, ItemInHand, AtItem, WorkerPc
<1>1. ASSUME SessionStep PROVE Passive
  BY <1>1 DEF SessionStep, RevokeSession, PauseQueuedJobs, RevokeEpoch, Passive, GoesOn
<1>2. ASSUME NEW w \in Workers, AuthorizationFails(w) PROVE Passive
  BY <1>2 DEF AuthorizationFails, Exit, Passive, GoesOn
<1>3. ASSUME NEW w \in Workers, ClaimRefused(w) PROVE Passive
  BY <1>3 DEF ClaimRefused, Exit, Passive, GoesOn
<1>4. ASSUME NEW w \in Workers, Stop(w) PROVE Passive
  BY <1>4 DEF Stop, Goto, Passive, GoesOn, Claimed
<1>5. ASSUME NEW w \in Workers, TakeTargetLock(w) PROVE Passive
  BY <1>5 DEF TakeTargetLock, Goto, Passive, GoesOn
<1>6. ASSUME NEW w \in Workers, ReadBefore(w) PROVE Passive
  BY <1>6 DEF ReadBefore, Goto, Passive, GoesOn
<1>7. ASSUME NEW w \in Workers, ReadImmediate(w) PROVE Passive
  BY <1>7 DEF ReadImmediate, Goto, Passive, GoesOn
<1>8. ASSUME NEW w \in Workers, Verify(w) PROVE Passive
  BY <1>8 DEF Verify, Goto, Passive, GoesOn
<1>9. ASSUME NEW w \in Workers, NEW label \in {"pausing", "failing"}, ItemFails(w, label)
      PROVE  Passive
  BY <1>9 DEF ItemFails, Goto, Passive, GoesOn
<1>10. ASSUME NEW w \in Workers, LeaseLost(w) PROVE Passive
  BY <1>10 DEF LeaseLost, Exit, Passive, GoesOn
<1>11. ASSUME NEW w \in Workers, CatchRefused(w) PROVE Passive
  BY <1>11 DEF CatchRefused, Goto, Passive, GoesOn, Claimed
<1>12. ASSUME NEW w \in Workers, Crash(w) PROVE Passive
  BY <1>12 DEF Crash, Exit, Passive, GoesOn
<1>13. ASSUME NEW r \in Reconcilers, ReconcilerStep(r) PROVE Passive \/ RecordReconciliation(r)
  <2>1. ASSUME NEW i \in Items, ReconcileLock(r, i) PROVE Passive
    BY <2>1 DEF ReconcileLock, Passive, GoesOn
  <2>2. ASSUME ReconcileRead(r) PROVE Passive
    BY <2>2 DEF ReconcileRead, Passive, GoesOn
  <2>3. ASSUME ReconcileFails(r) PROVE Passive
    BY <2>3 DEF ReconcileFails, ReconcileExit, Passive, GoesOn
  <2> QED BY <1>13, <2>1, <2>2, <2>3 DEF ReconcilerStep
<1>14. ASSUME ClockStep PROVE Passive
  <2>1. ASSUME NEW j \in Jobs, LeaseExpires(j) PROVE Passive
    BY <2>1 DEF LeaseExpires, Passive, GoesOn
  <2>2. ASSUME NEW j \in Jobs, DeadlinePasses(j) PROVE Passive
    BY <2>2 DEF DeadlinePasses, Passive, GoesOn
  <2> QED BY <1>14, <2>1, <2>2 DEF ClockStep
<1>15. ASSUME ProviderStep PROVE Passive
  BY <1>15 DEF ProviderStep, WriteLands, WriteIsLost, ExternalEdit, LockIsLost, Passive, GoesOn
<1>16. ASSUME UNCHANGED vars PROVE Passive
  BY <1>16 DEF vars, Passive, GoesOn
<1>17. ASSUME NEW w \in Workers, WorkerStep(w) PROVE Passive \/ Active
  BY <1>17, <1>2, <1>3, <1>4, <1>5, <1>6, <1>7, <1>8, <1>9, <1>10, <1>11, <1>12
  DEF WorkerStep, Active
<1>18. ASSUME RequestStep \/ RecoveryStep PROVE Active
  BY <1>18 DEF RequestStep, RecoveryStep, Active
<1> QED
  BY <1>1, <1>13, <1>14, <1>15, <1>16, <1>17, <1>18 DEF Next, Active

-----------------------------------------------------------------------------
(* Rows and workers belong together: what has not been submitted has        *)
(* nothing, and a worker's item is one of its job.                          *)

BoundInv ==
  /\ \A i \in Items : jobStatus[JobOf[i]] = "absent" => itemStatus[i] = "absent"
  /\ \A j \in Jobs : jobStatus[j] = "absent" => ~cancelRequested[j]
  /\ \A w \in Workers : pc[w] # "idle" => jobStatus[wjob[w]] # "absent"
  /\ \A w \in Workers : pc[w] \in ItemInHand => JobOf[witem[w]] = wjob[w]

(* No version of a lease is claimed twice.                                  *)
LeaseInv ==
  /\ \A w \in Workers : pc[w] \in Claimed => wversion[w] <= leaseVersion[wjob[w]]
  /\ \A v, w \in Workers :
       (pc[v] \in Claimed /\ pc[w] \in Claimed /\ wjob[v] = wjob[w] /\ wversion[v] = wversion[w])
         => v = w

(* A worker's flag is set between markSent and the outcome, and then the    *)
(* row is marked; so is what is called inconclusive.                        *)
SentInv ==
  /\ \A w \in Workers : wsent[w] => pc[w] \in {"marked", "posted", "verified", "failing", "releasing"}
  /\ \A w \in Workers : pc[w] \in {"marked", "posted", "verified"} => wsent[w]
  /\ \A w \in Workers : pc[w] \in ItemInHand /\ wsent[w] => sentAt[witem[w]]
  /\ \A i \in Items : itemStatus[i] = "inconclusive" => sentAt[i]

(* What was written, or is about to be, is known to the row, and to the     *)
(* worker that holds the job's lease with it.                               *)
Dispatched(i) == posted[i] > 0 \/ \E w \in Workers : pc[w] = "marked" /\ witem[w] = i

SettledInv ==
  /\ \A i \in Items : Dispatched(i) => itemStatus[i] \in {"running", "succeeded", "inconclusive"}
  /\ \A i \in Items, w \in Workers :
       /\ Dispatched(i) /\ itemStatus[i] = "running"
       /\ pc[w] \in ItemInHand /\ witem[w] = i /\ wversion[w] = leaseVersion[wjob[w]]
       => wsent[w]
  /\ \A j \in Jobs : jobStatus[j] \in {"succeeded", "failed", "cancelled"} => ~Unfinished(j)

OutcomeInv == TypeInv /\ DispatchInv /\ BoundInv /\ LeaseInv /\ SentInv /\ SettledInv

(* A step that leaves a worker's locals alone.                              *)
SameLocals(w) ==
  /\ wjob'[w] = wjob[w] /\ wversion'[w] = wversion[w]
  /\ witem'[w] = witem[w] /\ wsent'[w] = wsent[w]

(* What a step may do to a worker: it exits, stays or goes on, is launched, *)
(* claims, begins an item, marks it, writes it, or is done with it.         *)
Starts(w) ==
  /\ pc[w] = "idle" /\ pc'[w] = "authorizing"
  /\ wjob'[w] \in Jobs /\ jobStatus[wjob'[w]] # "absent" /\ wsent'[w] = wsent[w]
Claims(w) ==
  /\ pc[w] = "authorizing" /\ pc'[w] = "loop"
  /\ wjob'[w] = wjob[w] /\ wsent'[w] = wsent[w]
  /\ wversion'[w] = leaseVersion[wjob[w]] + 1
  /\ leaseVersion' = [leaseVersion EXCEPT ![wjob[w]] = @ + 1]
  /\ \A u \in Workers \ {w} : pc'[u] = pc[u]
Begins(w) ==
  /\ pc[w] = "loop" /\ pc'[w] = "begun"
  /\ wjob'[w] = wjob[w] /\ wversion'[w] = wversion[w] /\ wsent'[w] = wsent[w]
  /\ witem'[w] \in Items /\ JobOf[witem'[w]] = wjob[w] /\ itemStatus[witem'[w]] = "queued"
Marks(w) ==
  /\ pc[w] = "matched" /\ pc'[w] = "marked"
  /\ wjob'[w] = wjob[w] /\ wversion'[w] = wversion[w] /\ witem'[w] = witem[w]
  /\ wsent'[w] /\ sentAt'[witem[w]]
  /\ itemStatus[witem[w]] = "running" /\ itemStatus' = itemStatus
  /\ wversion[w] = leaseVersion[wjob[w]] /\ leaseVersion' = leaseVersion
Writes(w) == pc[w] = "marked" /\ pc'[w] = "posted" /\ SameLocals(w)
Drops(w) ==
  /\ pc[w] \in Claimed /\ pc'[w] \in {"loop", "releasing"}
  /\ wjob'[w] = wjob[w] /\ wversion'[w] = wversion[w]
  /\ wsent'[w] => wsent[w] /\ pc'[w] = "releasing"

WorkerMove(w) ==
  \/ pc'[w] = "idle" /\ ~wsent'[w]
  \/ GoesOn(w) /\ SameLocals(w)
  \/ Starts(w) \/ Claims(w) \/ Begins(w) \/ Marks(w) \/ Writes(w) \/ Drops(w)

(* A worker that exits has no locals left, and the others stay.             *)
LEMMA Leaves ==
  ASSUME TypeInv, NEW w \in Workers, Exit(w)
  PROVE  \A u \in Workers : WorkerMove(u)
<1> USE DEF TypeInv, TypeOK, WorkerTypeOK
<1>1. pc'[w] = "idle" /\ ~wsent'[w]
  BY DEF Exit
<1>2. ASSUME NEW u \in Workers \ {w} PROVE pc'[u] = pc[u] /\ SameLocals(u)
  BY DEF Exit, SameLocals
<1> QED BY <1>1, <1>2 DEF WorkerMove, GoesOn

(* Who else is about stays while one worker moves.                          *)
LEMMA WorkerMoves ==
  ASSUME TypeInv, Passive \/ Active
  PROVE  \A u \in Workers : WorkerMove(u)
<1>1. CASE Passive
  BY <1>1 DEF Passive, WorkerMove, SameLocals
<1>2. ASSUME UNCHANGED <<pc, wjob, wversion, witem, wsent>>
      PROVE  \A u \in Workers : WorkerMove(u)
  BY <1>2 DEF WorkerMove, GoesOn, SameLocals
<1>3. ASSUME NEW w \in Workers, WorkerMove(w),
             \A u \in Workers \ {w} : pc'[u] = pc[u] /\ SameLocals(u)
      PROVE  \A u \in Workers : WorkerMove(u)
  BY <1>3 DEF WorkerMove, GoesOn
<1>4. ASSUME NEW w \in Workers, NEW j \in Jobs, NEW resume \in BOOLEAN, Launch(w, j, resume)
      PROVE  \A u \in Workers : WorkerMove(u)
  <2> USE DEF TypeInv, TypeOK, WorkerTypeOK
  <2>1. Starts(w)
    BY <1>4 DEF Launch, Goto, Starts
  <2>2. \A u \in Workers \ {w} : pc'[u] = pc[u] /\ SameLocals(u)
    BY <1>4 DEF Launch, Goto, SameLocals
  <2> HIDE DEF TypeInv
  <2> QED BY <1>3, <2>1, <2>2 DEF WorkerMove
<1>5. ASSUME NEW w \in Workers, NEW ack \in BOOLEAN, Claim(w, ack)
      PROVE  \A u \in Workers : WorkerMove(u)
  <2>1. CASE ack
    <3> USE DEF TypeInv, TypeOK, WorkerTypeOK
    <3>1. \A u \in Workers \ {w} : pc'[u] = pc[u] /\ SameLocals(u)
      BY <1>5, <2>1 DEF Claim, Goto, SameLocals
    <3>2. Claims(w)
      BY <1>5, <2>1, <3>1 DEF Claim, Goto, Claims
    <3> HIDE DEF TypeInv
    <3> QED BY <1>3, <3>1, <3>2 DEF WorkerMove
  <2>2. CASE ~ack
    BY <1>5, <2>2, Leaves DEF Claim
  <2> QED BY <2>1, <2>2
<1>6. ASSUME NEW w \in Workers, NEW ack \in BOOLEAN, BeginItem(w, ack)
      PROVE  \A u \in Workers : WorkerMove(u)
  <2> USE DEF TypeInv, TypeOK, WorkerTypeOK
  <2>1. \A u \in Workers \ {w} : pc'[u] = pc[u] /\ SameLocals(u)
    BY <1>6 DEF BeginItem, Goto, SameLocals
  <2>2. CASE ack
    <3>1. Begins(w)
      BY <1>6, <2>2 DEF BeginItem, Goto, Begins, FirstQueued, QueuedItems, ItemsOf
    <3> HIDE DEF TypeInv
    <3> QED BY <1>3, <2>1, <3>1 DEF WorkerMove
  <2>3. CASE ~ack
    <3>1. Drops(w)
      BY <1>6, <2>3 DEF BeginItem, Goto, Drops, Claimed, WorkerPc
    <3> HIDE DEF TypeInv
    <3> QED BY <1>3, <2>1, <3>1 DEF WorkerMove
  <2> QED BY <2>2, <2>3
<1>7. ASSUME NEW w \in Workers, NEW ack \in BOOLEAN, MarkSent(w, ack)
      PROVE  \A u \in Workers : WorkerMove(u)
  <2> USE DEF TypeInv, TypeOK, WorkerTypeOK
  <2>1. /\ UNCHANGED <<wjob, wversion, witem>>
        /\ pc' = [pc EXCEPT ![w] = IF ack THEN "marked" ELSE "failing"]
        /\ wsent' = IF ack THEN [wsent EXCEPT ![w] = TRUE] ELSE wsent
    BY <1>7 DEF MarkSent, Goto
  <2>2. \A u \in Workers \ {w} : pc'[u] = pc[u] /\ SameLocals(u)
    BY <2>1 DEF SameLocals
  <2>3. CASE ack
    <3>1. witem[w] \in Items /\ pc[w] = "matched"
      BY <1>7 DEF MarkSent, LocalsSet, ItemInHand, AtItem
    <3>2. sentAt'[witem[w]]
      BY <1>7, <3>1 DEF MarkSent, ItemTypeOK
    <3>3. /\ itemStatus[witem[w]] = "running" /\ itemStatus' = itemStatus
          /\ wversion[w] = leaseVersion[wjob[w]] /\ leaseVersion' = leaseVersion
      BY <1>7 DEF MarkSent, Markable, Fenced
    <3>4. Marks(w)
      BY <2>1, <2>3, <3>1, <3>2, <3>3 DEF Marks
    <3> HIDE DEF TypeInv
    <3> QED BY <1>3, <2>2, <3>4 DEF WorkerMove
  <2>4. CASE ~ack
    <3>1. GoesOn(w) /\ SameLocals(w)
      BY <1>7, <2>1, <2>4 DEF MarkSent, GoesOn, SameLocals, AtItem
    <3> HIDE DEF TypeInv
    <3> QED BY <1>3, <2>2, <3>1 DEF WorkerMove
  <2> QED BY <2>3, <2>4
<1>8. ASSUME NEW w \in Workers, NEW ack \in BOOLEAN, FinishAuthorized(w, ack)
      PROVE  \A u \in Workers : WorkerMove(u)
  <2> USE DEF TypeInv, TypeOK, WorkerTypeOK
  <2>1. PICK label \in {"loop", "releasing", "pausing", "failing"} :
          /\ pc' = [pc EXCEPT ![w] = label]
          /\ label \in IF ack THEN {"loop", "releasing"} ELSE {"pausing", "failing"}
          /\ label = "pausing" => ~wsent[w]
    BY <1>8 DEF FinishAuthorized, Goto
  <2>2. /\ UNCHANGED <<wjob, wversion>>
        /\ witem' = IF ack THEN [witem EXCEPT ![w] = None] ELSE witem
        /\ wsent' = IF ack THEN [wsent EXCEPT ![w] = FALSE] ELSE wsent
    BY <1>8 DEF FinishAuthorized
  <2>3. \A u \in Workers \ {w} : pc'[u] = pc[u] /\ SameLocals(u)
    BY <2>1, <2>2 DEF SameLocals
  <2>4. pc[w] \in {"verified", "unchanged"}
    BY <1>8 DEF FinishAuthorized
  <2>5. CASE ack
    <3>1. Drops(w)
      BY <2>1, <2>2, <2>4, <2>5 DEF Drops, Claimed, WorkerPc
    <3> HIDE DEF TypeInv
    <3> QED BY <1>3, <2>3, <3>1 DEF WorkerMove
  <2>6. CASE ~ack
    <3>1. GoesOn(w) /\ SameLocals(w)
      BY <2>1, <2>2, <2>4, <2>6 DEF GoesOn, SameLocals, AtItem
    <3> HIDE DEF TypeInv
    <3> QED BY <1>3, <2>3, <3>1 DEF WorkerMove
  <2> QED BY <2>5, <2>6
<1>9. ASSUME NEW w \in Workers, BeginItemExpired(w)
      PROVE  \A u \in Workers : WorkerMove(u)
  BY <1>9 DEF BeginItemExpired, Goto, WorkerMove, GoesOn, SameLocals, Claimed,
              TypeInv, TypeOK, WorkerTypeOK, WorkerPc
<1>10. ASSUME NEW w \in Workers, Release(w) \/ PauseItem(w)
       PROVE  \A u \in Workers : WorkerMove(u)
  BY <1>10, Leaves DEF Release, PauseItem
<1>11. ASSUME NEW w \in Workers, Post(w)
       PROVE  \A u \in Workers : WorkerMove(u)
  BY <1>11 DEF Post, Goto, WorkerMove, GoesOn, SameLocals, Writes, TypeInv, TypeOK, WorkerTypeOK
<1>12. ASSUME NEW w \in Workers, FinishFailed(w)
       PROVE  \A u \in Workers : WorkerMove(u)
  <2> USE DEF TypeInv, TypeOK, WorkerTypeOK
  <2>1. \A u \in Workers \ {w} : pc'[u] = pc[u] /\ SameLocals(u)
    BY <1>12 DEF FinishFailed, Goto, SameLocals
  <2>2. Drops(w)
    BY <1>12 DEF FinishFailed, Goto, Drops, Claimed, WorkerPc
  <2> HIDE DEF TypeInv
  <2> QED BY <1>3, <2>1, <2>2 DEF WorkerMove
<1>13. ASSUME \/ \E j \in Jobs :
                   \/ Submit(j) \/ Cancel(j)
                   \/ \E includeQueued \in BOOLEAN : RecoverJob(j, includeQueued)
              \/ \E r \in Reconcilers : RecordReconciliation(r)
       PROVE  UNCHANGED <<pc, wjob, wversion, witem, wsent>>
  <2>1. ASSUME NEW j \in Jobs, Submit(j) \/ Cancel(j)
        PROVE  UNCHANGED <<pc, wjob, wversion, witem, wsent>>
    BY <2>1 DEF Submit, Cancel
  <2>2. ASSUME NEW j \in Jobs, NEW includeQueued \in BOOLEAN, RecoverJob(j, includeQueued)
        PROVE  UNCHANGED <<pc, wjob, wversion, witem, wsent>>
    BY <2>2 DEF RecoverJob, Recover
  <2>3. ASSUME NEW r \in Reconcilers, RecordReconciliation(r)
        PROVE  UNCHANGED <<pc, wjob, wversion, witem, wsent>>
    BY <2>3 DEF RecordReconciliation
  <2> QED BY <1>13, <2>1, <2>2, <2>3
<1> QED
  BY <1>1, <1>2, <1>4, <1>5, <1>6, <1>7, <1>8, <1>9, <1>10, <1>11, <1>12, <1>13 DEF Active

(* The worker that holds the lease of item i's job, with i in hand.         *)
Holding(w, i) ==
  pc[w] \in ItemInHand /\ witem[w] = i /\ wversion[w] = leaseVersion[wjob[w]]

(* What a step may do to the status of an item: submit it, settle it        *)
(* unstarted, begin it; end it by its worker; recover or pause it by        *)
(* whether it was sent; or find that it did apply.                          *)
EndedBy(w, i) ==
  \/ itemStatus'[i] = "succeeded" /\ pc[w] = "verified"
  \/ itemStatus'[i] = "skipped" /\ pc[w] = "unchanged"
  \/ itemStatus'[i] = "inconclusive" /\ wsent[w]
  \/ itemStatus'[i] \in {"cancelled", "failed"} /\ ~wsent[w]

Interrupted(i) ==
  \/ sentAt[i] /\ itemStatus'[i] = "inconclusive"
  \/ ~sentAt[i] /\ itemStatus'[i] = "cancelled"
  \/ ~sentAt[i] /\ itemStatus'[i] = "queued" /\ ~cancelRequested[JobOf[i]]

ItemMove(i) ==
  \/ itemStatus'[i] = itemStatus[i]
  \/ /\ jobStatus[JobOf[i]] = "absent" /\ jobStatus'[JobOf[i]] # "absent"
     /\ itemStatus'[i] = "queued"
  \/ itemStatus[i] = "queued" /\ itemStatus'[i] \in {"cancelled", "failed"}
  \/ itemStatus[i] = "queued" /\ itemStatus'[i] = "running" /\ ~cancelRequested[JobOf[i]]
  \/ itemStatus[i] = "running" /\ \E w \in Workers : Holding(w, i) /\ EndedBy(w, i)
  \/ itemStatus[i] = "running" /\ Interrupted(i)
  \/ /\ itemStatus[i] = "inconclusive" /\ itemStatus'[i] = "succeeded"
     /\ reconciliation'[i] = "verified_applied" /\ ~cancelRequested[JobOf[i]]

LEMMA ItemMoves ==
  ASSUME TypeInv, BoundInv, Passive \/ Active
  PROVE  \A i \in Items : ItemMove(i)
<1>1. CASE Passive
  BY <1>1 DEF Passive, ItemMove
<1>2. ASSUME itemStatus' = itemStatus PROVE \A i \in Items : ItemMove(i)
  BY <1>2 DEF ItemMove
<1>3. ASSUME NEW j \in Jobs, Submit(j) PROVE \A i \in Items : ItemMove(i)
  BY <1>3, PackageAssumption DEF Submit, ItemMove, TypeInv, TypeOK, JobTypeOK
<1>4. ASSUME NEW j \in Jobs, Cancel(j) PROVE \A i \in Items : ItemMove(i)
  BY <1>4 DEF Cancel, ItemMove
<1>5. ASSUME NEW j \in Jobs, NEW includeQueued \in BOOLEAN,
             NEW batch \in SUBSET RecoverCandidates(j, itemStatus),
             Recover(j, includeQueued, batch)
      PROVE  \A i \in Items : ItemMove(i)
  BY <1>5 DEF Recover, RecoverCandidates, RecoveredStatus, ItemMove, Interrupted
<1>6. ASSUME NEW w \in Workers, NEW ack \in BOOLEAN, BeginItem(w, ack)
      PROVE  \A i \in Items : ItemMove(i)
  BY <1>6 DEF BeginItem, FirstQueued, QueuedItems, ItemsOf, ItemMove, TypeInv, TypeOK, ItemTypeOK
<1>7. ASSUME NEW w \in Workers, BeginItemExpired(w) PROVE \A i \in Items : ItemMove(i)
  BY <1>7 DEF BeginItemExpired, QueuedItems, ItemMove
<1>8. ASSUME NEW w \in Workers, NEW outcome, NEW i \in Items, Fenced(w), pc[w] \in ItemInHand,
             witem[w] = i, itemStatus[i] = "running",
             itemStatus' = [itemStatus EXCEPT ![i] = outcome], EndedBy(w, i)
      PROVE  \A k \in Items : ItemMove(k)
  <2>1. Holding(w, i)
    BY <1>8 DEF Holding, Fenced
  <2>2. \A k \in Items \ {i} : itemStatus'[k] = itemStatus[k]
    BY <1>8 DEF TypeInv, TypeOK, ItemTypeOK
  <2> QED BY <1>8, <2>1, <2>2 DEF ItemMove
<1>9. ASSUME NEW w \in Workers, NEW ack \in BOOLEAN, FinishAuthorized(w, ack)
      PROVE  \A i \in Items : ItemMove(i)
  <2>1. pc[w] \in ItemInHand /\ witem[w] \in Items
    BY <1>9 DEF FinishAuthorized, TypeInv, LocalsSet, ItemInHand, AtItem
  <2>2. PICK outcome \in {"succeeded", "skipped"} :
          /\ itemStatus' = [itemStatus EXCEPT ![witem[w]] = outcome]
          /\ outcome = IF pc[w] = "verified" THEN "succeeded" ELSE "skipped"
    BY <1>9 DEF FinishAuthorized, Finished
  <2>3. Fenced(w) /\ itemStatus[witem[w]] = "running" /\ pc[w] \in {"verified", "unchanged"}
    BY <1>9 DEF FinishAuthorized
  <2>4. EndedBy(w, witem[w])
    BY <2>1, <2>2, <2>3 DEF EndedBy, TypeInv, TypeOK, ItemTypeOK
  <2> QED BY <1>8, <2>1, <2>2, <2>3, <2>4
<1>10. ASSUME NEW w \in Workers, FinishFailed(w) PROVE \A i \in Items : ItemMove(i)
  <2>1. pc[w] \in ItemInHand /\ witem[w] \in Items
    BY <1>10 DEF FinishFailed, TypeInv, LocalsSet, ItemInHand, AtItem
  <2>2. PICK outcome \in IF wsent[w] THEN {"inconclusive"} ELSE {"cancelled", "failed"} :
          itemStatus' = [itemStatus EXCEPT ![witem[w]] = outcome]
    BY <1>10 DEF FinishFailed, Finished
  <2>3. Fenced(w) /\ itemStatus[witem[w]] = "running"
    BY <1>10 DEF FinishFailed
  <2>4. EndedBy(w, witem[w])
    BY <2>1, <2>2, <2>3 DEF EndedBy, TypeInv, TypeOK, ItemTypeOK
  <2> QED BY <1>8, <2>1, <2>2, <2>3, <2>4
<1>11. ASSUME NEW w \in Workers, PauseItem(w) PROVE \A i \in Items : ItemMove(i)
  <2>1. /\ witem[w] \in Items /\ JobOf[witem[w]] = wjob[w]
        /\ itemStatus[witem[w]] = "running" /\ ~sentAt[witem[w]]
    BY <1>11 DEF PauseItem, TypeInv, LocalsSet, ItemInHand, BoundInv
  <2>2. itemStatus' = [itemStatus EXCEPT
          ![witem[w]] = IF cancelRequested[wjob[w]] THEN "cancelled" ELSE "queued"]
    BY <1>11 DEF PauseItem
  <2>3. Interrupted(witem[w])
    BY <2>1, <2>2 DEF Interrupted, TypeInv, TypeOK, ItemTypeOK
  <2>4. \A k \in Items \ {witem[w]} : itemStatus'[k] = itemStatus[k]
    BY <2>2 DEF TypeInv, TypeOK, ItemTypeOK
  <2> QED BY <2>1, <2>3, <2>4 DEF ItemMove
<1>12. ASSUME NEW r \in Reconcilers, RecordReconciliation(r) PROVE \A i \in Items : ItemMove(i)
  <2>1. ritem[r] \in Items /\ Reconcilable(ritem[r])
    BY <1>12 DEF RecordReconciliation, TypeInv, RitemSet
  <2>2. PICK verdict :
          /\ itemStatus' = [itemStatus EXCEPT
               ![ritem[r]] = IF verdict = "verified_applied" THEN "succeeded" ELSE @]
          /\ reconciliation' = [reconciliation EXCEPT ![ritem[r]] = verdict]
    BY <1>12 DEF RecordReconciliation
  <2> QED BY <2>1, <2>2 DEF ItemMove, Reconcilable, TypeInv, TypeOK, ItemTypeOK
<1> QED
  BY <1>1, <1>2, <1>3, <1>4, <1>5, <1>6, <1>7, <1>9, <1>10, <1>11, <1>12
  DEF Active, RecoverJob, Launch, Claim, MarkSent, Release, Post

(* A mark is set while the item runs and nobody has cancelled.              *)
SentMove(i) ==
  \/ sentAt'[i] <=> sentAt[i]
  \/ sentAt'[i] /\ itemStatus'[i] = itemStatus[i] /\ ~cancelRequested[JobOf[i]]

LEMMA SentMoves ==
  ASSUME TypeInv, BoundInv, Passive \/ Active
  PROVE  \A i \in Items : SentMove(i)
<1>1. ASSUME NEW w \in Workers, NEW ack \in BOOLEAN, MarkSent(w, ack)
      PROVE  \A i \in Items : SentMove(i)
  <2>1. witem[w] \in Items /\ JobOf[witem[w]] = wjob[w] /\ ~cancelRequested[wjob[w]]
    BY <1>1 DEF MarkSent, Markable, TypeInv, LocalsSet, ItemInHand, AtItem, BoundInv
  <2>2. sentAt' = [sentAt EXCEPT ![witem[w]] = TRUE] /\ itemStatus' = itemStatus
    BY <1>1 DEF MarkSent
  <2> QED BY <2>1, <2>2 DEF SentMove, TypeInv, TypeOK, ItemTypeOK
<1>2. ASSUME sentAt' = sentAt PROVE \A i \in Items : SentMove(i)
  BY <1>2 DEF SentMove
<1>3. CASE Passive
  BY <1>2, <1>3 DEF Passive
<1>4. ASSUME NEW j \in Jobs,
             \/ Submit(j) \/ Cancel(j)
             \/ \E includeQueued \in BOOLEAN : RecoverJob(j, includeQueued)
      PROVE  sentAt' = sentAt
  BY <1>4 DEF RecoverJob, Submit, Cancel, Recover
<1>5. ASSUME NEW w \in Workers,
             \/ \E j \in Jobs, resume \in BOOLEAN : Launch(w, j, resume)
             \/ \E ack \in BOOLEAN : Claim(w, ack) \/ BeginItem(w, ack) \/ FinishAuthorized(w, ack)
             \/ BeginItemExpired(w) \/ Release(w) \/ Post(w) \/ PauseItem(w) \/ FinishFailed(w)
      PROVE  sentAt' = sentAt
  <2>1. ASSUME NEW ack \in BOOLEAN, Claim(w, ack) \/ BeginItem(w, ack) \/ FinishAuthorized(w, ack)
        PROVE  sentAt' = sentAt
    BY <2>1 DEF Claim, BeginItem, FinishAuthorized, Finished
  <2>2. CASE FinishFailed(w)
    BY <2>2 DEF FinishFailed, Finished
  <2> QED BY <1>5, <2>1, <2>2 DEF Launch, BeginItemExpired, Release, Post, PauseItem
<1>6. ASSUME NEW r \in Reconcilers, RecordReconciliation(r) PROVE sentAt' = sentAt
  BY <1>6 DEF RecordReconciliation
<1> QED BY <1>1, <1>2, <1>3, <1>4, <1>5, <1>6 DEF Active

(* Only a worker that has marked its item writes it.                        *)
LEMMA PostMoves ==
  ASSUME TypeInv, Passive \/ Active
  PROVE  \A i \in Items :
           posted'[i] = posted[i] \/ \E w \in Workers : pc[w] = "marked" /\ witem[w] = i
<1>1. ASSUME NEW w \in Workers, Post(w)
      PROVE  \A i \in Items : posted'[i] = posted[i] \/ (pc[w] = "marked" /\ witem[w] = i)
  BY <1>1 DEF Post, TypeInv, TypeOK, ProviderTypeOK
<1>2. CASE Passive
  BY <1>2 DEF Passive
<1>3. ASSUME NEW j \in Jobs,
             \/ Submit(j) \/ Cancel(j)
             \/ \E includeQueued \in BOOLEAN : RecoverJob(j, includeQueued)
      PROVE  posted' = posted
  BY <1>3 DEF RecoverJob, Submit, Cancel, Recover
<1>4. ASSUME NEW w \in Workers,
             \/ \E j \in Jobs, resume \in BOOLEAN : Launch(w, j, resume)
             \/ \E ack \in BOOLEAN : Claim(w, ack) \/ BeginItem(w, ack) \/ MarkSent(w, ack)
                                     \/ FinishAuthorized(w, ack)
             \/ BeginItemExpired(w) \/ Release(w) \/ PauseItem(w) \/ FinishFailed(w)
      PROVE  posted' = posted
  BY <1>4 DEF Launch, Claim, BeginItem, MarkSent, FinishAuthorized, BeginItemExpired, Release,
              PauseItem, FinishFailed
<1>5. ASSUME NEW r \in Reconcilers, RecordReconciliation(r) PROVE posted' = posted
  BY <1>5 DEF RecordReconciliation
<1> QED BY <1>1, <1>2, <1>3, <1>4, <1>5 DEF Active

(* What aggregate() calls over has nothing left to do.                      *)
Over == {"succeeded", "failed", "cancelled"}

LEMMA AggregateOver ==
  ASSUME NEW j \in Jobs, NEW st, NEW cancelled, Aggregate(j, st, cancelled) \in Over
  PROVE  ~HasStatus(j, st, "queued") /\ ~HasStatus(j, st, "running")
BY DEF Aggregate, Over

(* A job's status stays, is one of a job with work, or is aggregated.       *)
JobMove(j) ==
  \/ jobStatus'[j] = jobStatus[j]
  \/ jobStatus'[j] \in JobStatus \ Over
  \/ \E cancelled : jobStatus'[j] = Aggregate(j, itemStatus', cancelled)

LEMMA JobMoves ==
  ASSUME TypeInv, Passive \/ Active
  PROVE  \A j \in Jobs : JobMove(j)
<1> USE DEF TypeInv, TypeOK, JobTypeOK
<1>1. CASE Passive
  BY <1>1 DEF Passive, JobMove, JobStatus, Over
<1>2. ASSUME jobStatus' = jobStatus PROVE \A j \in Jobs : JobMove(j)
  BY <1>2 DEF JobMove
<1>3. ASSUME NEW j \in Jobs, NEW status, jobStatus' = [jobStatus EXCEPT ![j] = status],
             \/ status \in JobStatus \ Over
             \/ \E cancelled : status = Aggregate(j, itemStatus', cancelled)
      PROVE  \A k \in Jobs : JobMove(k)
  BY <1>3 DEF JobMove
<1>4. ASSUME NEW j \in Jobs, Submit(j) PROVE \A k \in Jobs : JobMove(k)
  BY <1>3, <1>4 DEF Submit, JobStatus, Over
<1>5. ASSUME NEW j \in Jobs, Cancel(j) PROVE \A k \in Jobs : JobMove(k)
  <2>1. \/ jobStatus' = jobStatus
        \/ jobStatus' = [jobStatus EXCEPT ![j] = Aggregate(j, itemStatus', TRUE)]
    BY <1>5 DEF Cancel
  <2> QED BY <1>2, <1>3, <2>1
<1>6. ASSUME NEW j \in Jobs, NEW includeQueued \in BOOLEAN,
             NEW batch \in SUBSET RecoverCandidates(j, itemStatus),
             Recover(j, includeQueued, batch)
      PROVE  \A k \in Jobs : JobMove(k)
  <2>1. \/ jobStatus' = jobStatus
        \/ jobStatus' = [jobStatus EXCEPT ![j] = Aggregate(j, itemStatus', cancelRequested[j])]
    BY <1>6 DEF Recover
  <2> QED BY <1>2, <1>3, <2>1
<1>7. ASSUME NEW w \in Workers, NEW ack \in BOOLEAN, Claim(w, ack)
      PROVE  \A k \in Jobs : JobMove(k)
  <2>1. wjob[w] \in Jobs /\ jobStatus' = [jobStatus EXCEPT ![wjob[w]] = "running"]
    BY <1>7 DEF Claim, LocalsSet
  <2> QED BY <1>3, <2>1 DEF JobStatus, Over
<1>8. ASSUME NEW w \in Workers, Release(w) \/ PauseItem(w) PROVE \A k \in Jobs : JobMove(k)
  <2>1. wjob[w] \in Jobs
    BY <1>8 DEF Release, PauseItem, LocalsSet
  <2>2. \/ jobStatus' = jobStatus
        \/ \E c : jobStatus' = [jobStatus EXCEPT ![wjob[w]] = Aggregate(wjob[w], itemStatus', c)]
    <3>1. CASE Release(w)
      <4>1. itemStatus' = itemStatus
        BY <3>1 DEF Release
      <4>2. \/ jobStatus' = jobStatus
            \/ jobStatus' = [jobStatus EXCEPT
                 ![wjob[w]] = Aggregate(wjob[w], itemStatus, cancelRequested[wjob[w]])]
        BY <3>1 DEF Release
      <4> QED BY <4>1, <4>2
    <3>2. CASE PauseItem(w)
      <4>1. jobStatus' = [jobStatus EXCEPT
                 ![wjob[w]] = Aggregate(wjob[w], itemStatus', cancelRequested[wjob[w]])]
        BY <3>2 DEF PauseItem
      <4> QED BY <4>1
    <3> QED BY <1>8, <3>1, <3>2
  <2> QED BY <1>2, <1>3, <2>1, <2>2
<1>9. ASSUME NEW r \in Reconcilers, RecordReconciliation(r) PROVE \A k \in Jobs : JobMove(k)
  <2>1. ritem[r] \in Items
    BY <1>9 DEF RecordReconciliation, RitemSet
  <2>2. JobOf[ritem[r]] \in Jobs
    BY <2>1, PackageAssumption
  <2>3. jobStatus' = [jobStatus EXCEPT ![JobOf[ritem[r]]] =
          Aggregate(JobOf[ritem[r]], itemStatus', cancelRequested[JobOf[ritem[r]]])]
    BY <1>9 DEF RecordReconciliation
  <2> QED BY <1>3, <2>2, <2>3
<1>10. ASSUME Active, jobStatus' # jobStatus
       PROVE  \/ \E j \in Jobs : \/ Submit(j) \/ Cancel(j)
                                 \/ \E includeQueued \in BOOLEAN : RecoverJob(j, includeQueued)
              \/ \E w \in Workers : \/ \E ack \in BOOLEAN : Claim(w, ack)
                                    \/ Release(w) \/ PauseItem(w)
              \/ \E r \in Reconcilers : RecordReconciliation(r)
  BY <1>10 DEF Active, Launch, BeginItem, MarkSent, FinishAuthorized, BeginItemExpired, Post,
               FinishFailed
<1> HIDE DEF TypeInv
<1> QED
  BY <1>1, <1>2, <1>4, <1>5, <1>6, <1>7, <1>8, <1>9, <1>10 DEF RecoverJob

(* A job that is claimed again has a higher version.                        *)
LEMMA VersionsGrow ==
  ASSUME TypeInv, Passive \/ Active
  PROVE  \A j \in Jobs : leaseVersion'[j] \in Nat /\ leaseVersion[j] \in Nat
                         /\ leaseVersion'[j] >= leaseVersion[j]
<1>1. /\ leaseVersion \in [Jobs -> 0..MaxAttempts]
      /\ \A j \in Jobs : leaseVersion[j] \in Nat
  BY PackageAssumption DEF TypeInv, TypeOK, JobTypeOK
<1>2. ASSUME NEW w \in Workers, NEW ack \in BOOLEAN, Claim(w, ack)
      PROVE  \A j \in Jobs : leaseVersion'[j] \in {leaseVersion[j], leaseVersion[j] + 1}
  BY <1>1, <1>2 DEF Claim
<1>3. ASSUME Passive PROVE leaseVersion' = leaseVersion
  BY <1>3 DEF Passive
<1>4. ASSUME NEW j \in Jobs,
             \/ Submit(j) \/ Cancel(j)
             \/ \E includeQueued \in BOOLEAN : RecoverJob(j, includeQueued)
      PROVE  leaseVersion' = leaseVersion
  BY <1>4 DEF RecoverJob, Submit, Cancel, Recover
<1>5. ASSUME NEW w \in Workers,
             \/ \E j \in Jobs, resume \in BOOLEAN : Launch(w, j, resume)
             \/ \E ack \in BOOLEAN : BeginItem(w, ack) \/ MarkSent(w, ack)
                                     \/ FinishAuthorized(w, ack)
             \/ BeginItemExpired(w) \/ Release(w) \/ Post(w) \/ PauseItem(w) \/ FinishFailed(w)
      PROVE  leaseVersion' = leaseVersion
  BY <1>5 DEF Launch, BeginItem, MarkSent, FinishAuthorized, BeginItemExpired, Release, Post,
              PauseItem, FinishFailed
<1>6. ASSUME NEW r \in Reconcilers, RecordReconciliation(r) PROVE leaseVersion' = leaseVersion
  BY <1>6 DEF RecordReconciliation
<1>7. leaseVersion' = leaseVersion \/ \E w \in Workers, ack \in BOOLEAN : Claim(w, ack)
  BY <1>3, <1>4, <1>5, <1>6 DEF Active
<1> QED BY <1>1, <1>2, <1>7

(* Only what can be cancelled is, and that has been submitted.              *)
LEMMA CancelMoves ==
  ASSUME TypeInv, Passive \/ Active
  PROVE  \A j \in Jobs : cancelRequested'[j] =>
           cancelRequested[j] \/ jobStatus[j] # "absent"
<1>1. ASSUME NEW j \in Jobs, Cancel(j)
      PROVE  \A k \in Jobs : cancelRequested'[k] => cancelRequested[k] \/ jobStatus[k] # "absent"
  BY <1>1 DEF Cancel, TypeInv, TypeOK, JobTypeOK
<1>2. ASSUME Passive PROVE cancelRequested' = cancelRequested
  BY <1>2 DEF Passive
<1>3. ASSUME NEW j \in Jobs,
             Submit(j) \/ \E includeQueued \in BOOLEAN : RecoverJob(j, includeQueued)
      PROVE  cancelRequested' = cancelRequested
  BY <1>3 DEF RecoverJob, Submit, Recover
<1>4. ASSUME NEW w \in Workers,
             \/ \E j \in Jobs, resume \in BOOLEAN : Launch(w, j, resume)
             \/ \E ack \in BOOLEAN : Claim(w, ack) \/ BeginItem(w, ack) \/ MarkSent(w, ack)
                                     \/ FinishAuthorized(w, ack)
             \/ BeginItemExpired(w) \/ Release(w) \/ Post(w) \/ PauseItem(w) \/ FinishFailed(w)
      PROVE  cancelRequested' = cancelRequested
  BY <1>4 DEF Launch, Claim, BeginItem, MarkSent, FinishAuthorized, BeginItemExpired, Release,
              Post, PauseItem, FinishFailed
<1>5. ASSUME NEW r \in Reconcilers, RecordReconciliation(r)
      PROVE  cancelRequested' = cancelRequested
  BY <1>5 DEF RecordReconciliation
<1>6. cancelRequested' = cancelRequested \/ \E j \in Jobs : Cancel(j)
  BY <1>2, <1>3, <1>4, <1>5 DEF Active
<1> QED BY <1>1, <1>6

(* No step gives anything to a job that was not submitted.                  *)
LEMMA BoundKept ==
  ASSUME TypeInv, BoundInv, Passive \/ Active
  PROVE  BoundInv'
<1>1. \A j \in Jobs : jobStatus[j] # "absent" => jobStatus'[j] # "absent"
  BY JobMoves, AggregateType DEF JobMove, JobStatus
<1>2. \A i \in Items : jobStatus'[JobOf[i]] = "absent" => itemStatus'[i] = "absent"
  BY <1>1, ItemMoves, PackageAssumption DEF ItemMove, BoundInv
<1>3. \A j \in Jobs : jobStatus'[j] = "absent" => ~cancelRequested'[j]
  BY <1>1, CancelMoves DEF BoundInv
<1>4. ASSUME NEW w \in Workers
      PROVE  /\ pc'[w] # "idle" => jobStatus'[wjob'[w]] # "absent"
             /\ pc'[w] \in ItemInHand => JobOf[witem'[w]] = wjob'[w]
  <2>1. pc[w] # "idle" => wjob[w] \in Jobs /\ jobStatus[wjob[w]] # "absent"
    BY DEF BoundInv, TypeInv, LocalsSet
  <2>2. pc[w] \in ItemInHand => JobOf[witem[w]] = wjob[w]
    BY DEF BoundInv
  <2>3. CASE pc'[w] = "idle"
    BY <2>3 DEF ItemInHand, AtItem
  <2>4. CASE GoesOn(w) /\ SameLocals(w)
    BY <1>1, <2>1, <2>2, <2>4 DEF GoesOn, SameLocals, Claimed, ItemInHand, AtItem
  <2>5. CASE Starts(w)
    BY <1>1, <2>5 DEF Starts, ItemInHand, AtItem
  <2>6. CASE Claims(w) \/ Drops(w)
    BY <1>1, <2>1, <2>6 DEF Claims, Drops, Claimed, ItemInHand, AtItem
  <2>7. CASE Begins(w)
    BY <1>1, <2>1, <2>7 DEF Begins
  <2>8. CASE Marks(w) \/ Writes(w)
    BY <1>1, <2>1, <2>2, <2>8 DEF Marks, Writes, SameLocals, ItemInHand, AtItem
  <2> QED BY <2>3, <2>4, <2>5, <2>6, <2>7, <2>8, WorkerMoves DEF WorkerMove
<1> QED BY <1>2, <1>3, <1>4 DEF BoundInv

(* A claim counts the version up, and nothing else sets one.                *)
LEMMA LeaseKept ==
  ASSUME TypeInv, LeaseInv, Passive \/ Active
  PROVE  LeaseInv'
<1>1. \A w \in Workers : pc[w] # "idle" => wjob[w] \in Jobs
  BY DEF TypeInv, LocalsSet
<1>2. \A w \in Workers : wversion[w] \in Nat
  BY PackageAssumption DEF TypeInv, TypeOK, WorkerTypeOK
<1>3. ASSUME NEW w \in Workers, pc'[w] \in Claimed
      PROVE  \/ pc[w] \in Claimed /\ wjob'[w] = wjob[w] /\ wversion'[w] = wversion[w]
             \/ Claims(w)
  <2>1. CASE GoesOn(w) /\ SameLocals(w)
    BY <1>3, <2>1 DEF GoesOn, SameLocals, Claimed, AtItem, WorkerPc
  <2>2. CASE Begins(w) \/ Marks(w) \/ Writes(w) \/ Drops(w)
    BY <2>2 DEF Begins, Marks, Writes, Drops, SameLocals, Claimed, WorkerPc
  <2>3. pc'[w] # "idle" /\ ~Starts(w)
    BY <1>3 DEF Claimed, Starts
  <2> QED BY <2>1, <2>2, <2>3, WorkerMoves DEF WorkerMove
<1>4. ASSUME NEW w \in Workers, Claims(w)
      PROVE  /\ wjob'[w] \in Jobs /\ wjob'[w] = wjob[w]
             /\ wversion'[w] = leaseVersion[wjob[w]] + 1
             /\ leaseVersion'[wjob[w]] = leaseVersion[wjob[w]] + 1
             /\ \A v \in Workers \ {w} : pc[v] = pc'[v] /\ ~Claims(v)
  <2>1. wjob[w] \in Jobs
    BY <1>1, <1>4 DEF Claims
  <2>2. \A v \in Workers \ {w} : pc[v] = pc'[v] /\ ~Claims(v)
    BY <1>4 DEF Claims
  <2>3. leaseVersion' = [leaseVersion EXCEPT ![wjob[w]] = @ + 1]
    BY <1>4 DEF Claims
  <2> QED BY <1>4, <2>1, <2>2, <2>3 DEF Claims, TypeInv, TypeOK, JobTypeOK
<1>5. \A w \in Workers : pc[w] \in Claimed => wjob[w] \in Jobs
  BY <1>1 DEF Claimed
<1>6. ASSUME NEW w \in Workers, pc'[w] \in Claimed
      PROVE  wversion'[w] <= leaseVersion'[wjob'[w]]
  <2>1. CASE pc[w] \in Claimed /\ wjob'[w] = wjob[w] /\ wversion'[w] = wversion[w]
    BY <1>2, <1>5, <2>1, VersionsGrow DEF LeaseInv
  <2>2. CASE Claims(w)
    <3>1. leaseVersion[wjob[w]] \in Nat
      BY <1>1, <2>2, VersionsGrow DEF Claims
    <3> QED BY <1>4, <2>2, <3>1
  <2> QED BY <1>3, <1>6, <2>1, <2>2
<1>7. ASSUME NEW v \in Workers, NEW w \in Workers,
             pc'[v] \in Claimed, pc'[w] \in Claimed, wjob'[v] = wjob'[w],
             wversion'[v] = wversion'[w]
      PROVE  v = w
  <2>1. ASSUME NEW x \in Workers, NEW y \in Workers, Claims(x), x # y,
               pc'[x] \in Claimed, pc'[y] \in Claimed, wjob'[x] = wjob'[y],
               wversion'[x] = wversion'[y]
        PROVE  FALSE
    <3>1. pc[y] \in Claimed /\ wjob'[y] = wjob[y] /\ wversion'[y] = wversion[y]
      BY <1>3, <1>4, <2>1
    <3>2. wversion[y] <= leaseVersion[wjob[y]] /\ wjob[y] = wjob[x]
      BY <1>4, <2>1, <3>1 DEF LeaseInv
    <3>3. wversion[y] = leaseVersion[wjob[y]] + 1 /\ leaseVersion[wjob[y]] \in Nat
      BY <1>4, <2>1, <3>1, <3>2, VersionsGrow
    <3> QED BY <1>2, <3>2, <3>3
  <2>2. CASE Claims(v) \/ Claims(w)
    BY <1>7, <2>1, <2>2
  <2>3. CASE ~Claims(v) /\ ~Claims(w)
    BY <1>3, <1>7, <2>3 DEF LeaseInv
  <2> QED BY <2>2, <2>3
<1> QED BY <1>6, <1>7 DEF LeaseInv

(* The row is marked before the flag is set, and stays marked.              *)
LEMMA SentKept ==
  ASSUME TypeInv, BoundInv, SentInv, Passive \/ Active
  PROVE  SentInv'
<1>1. \A i \in Items : sentAt[i] => sentAt'[i]
  BY SentMoves DEF SentMove
<1>2. ASSUME NEW w \in Workers
      PROVE  /\ wsent'[w] => pc'[w] \in {"marked", "posted", "verified", "failing", "releasing"}
             /\ pc'[w] \in {"marked", "posted", "verified"} => wsent'[w]
             /\ pc'[w] \in ItemInHand /\ wsent'[w] => sentAt'[witem'[w]]
  <2>1. /\ wsent[w] => pc[w] \in {"marked", "posted", "verified", "failing", "releasing"}
        /\ pc[w] \in {"marked", "posted", "verified"} => wsent[w]
        /\ pc[w] \in ItemInHand /\ wsent[w] => sentAt'[witem[w]]
    BY <1>1 DEF SentInv, TypeInv, LocalsSet
  <2>2. CASE pc'[w] = "idle" /\ ~wsent'[w]
    BY <2>2
  <2>3. CASE GoesOn(w) /\ SameLocals(w)
    BY <2>1, <2>3 DEF GoesOn, SameLocals, ItemInHand, AtItem, Claimed
  <2>4. CASE Starts(w) \/ Claims(w) \/ Drops(w)
    BY <2>1, <2>4 DEF Starts, Claims, Drops, ItemInHand, AtItem
  <2>5. CASE Begins(w)
    BY <2>1, <2>5 DEF Begins
  <2>6. CASE Marks(w)
    BY <2>6 DEF Marks
  <2>7. CASE Writes(w)
    BY <2>1, <2>7 DEF Writes, SameLocals, ItemInHand, AtItem
  <2> QED BY <2>2, <2>3, <2>4, <2>5, <2>6, <2>7, WorkerMoves DEF WorkerMove
<1>3. ASSUME NEW i \in Items, itemStatus'[i] = "inconclusive" PROVE sentAt'[i]
  <2>1. itemStatus[i] = "inconclusive" => sentAt'[i]
    BY <1>1 DEF SentInv
  <2>2. ASSUME NEW w \in Workers, Holding(w, i), EndedBy(w, i) PROVE sentAt'[i]
    BY <1>1, <1>3, <2>2 DEF Holding, EndedBy, SentInv
  <2>3. Interrupted(i) => sentAt'[i]
    BY <1>1, <1>3 DEF Interrupted
  <2> QED BY <1>3, <2>1, <2>2, <2>3, ItemMoves DEF ItemMove
<1> QED BY <1>2, <1>3 DEF SentInv

(* Who newly dispatches an item is the worker that marks it.                *)
LEMMA NewlyDispatched ==
  ASSUME TypeInv, NEW i \in Items, Passive \/ Active,
         posted'[i] > 0 \/ \E w \in Workers : pc'[w] = "marked" /\ witem'[w] = i
  PROVE  Dispatched(i) \/ \E w \in Workers : Marks(w) /\ witem[w] = i
<1>1. CASE posted'[i] > 0
  BY <1>1, PostMoves DEF Dispatched
<1>2. ASSUME NEW w \in Workers, pc'[w] = "marked", witem'[w] = i
      PROVE  Dispatched(i) \/ (Marks(w) /\ witem[w] = i)
  <2>1. CASE GoesOn(w) /\ SameLocals(w)
    BY <1>2, <2>1 DEF GoesOn, SameLocals, Dispatched
  <2>2. CASE Marks(w)
    BY <1>2, <2>2 DEF Marks
  <2> QED
    BY <1>2, <2>1, <2>2, WorkerMoves DEF WorkerMove, Starts, Claims, Begins, Writes, Drops
<1> QED BY <1>1, <1>2

(* What is dispatched stays known to its row.                               *)
LEMMA DispatchedKept ==
  ASSUME OutcomeInv, NEW i \in Items, Passive \/ Active,
         posted'[i] > 0 \/ \E w \in Workers : pc'[w] = "marked" /\ witem'[w] = i
  PROVE  itemStatus'[i] \in {"running", "succeeded", "inconclusive"}
<1>1. CASE Dispatched(i)
  <2>1. itemStatus[i] \in {"running", "succeeded", "inconclusive"}
    BY <1>1 DEF OutcomeInv, SettledInv
  <2>2. sentAt[i]
    BY <1>1 DEF OutcomeInv, Dispatched, DispatchInv
  <2>3. jobStatus[JobOf[i]] # "absent"
    BY <2>1 DEF OutcomeInv, BoundInv
  <2>4. ASSUME NEW w \in Workers, itemStatus[i] = "running", Holding(w, i), EndedBy(w, i)
        PROVE  itemStatus'[i] \in {"succeeded", "inconclusive"}
    <3>1. wsent[w]
      BY <1>1, <2>4 DEF OutcomeInv, SettledInv, Holding
    <3>2. pc[w] # "unchanged"
      BY <3>1 DEF OutcomeInv, SentInv
    <3> QED BY <2>4, <3>1, <3>2 DEF EndedBy
  <2>5. Interrupted(i) => itemStatus'[i] = "inconclusive"
    BY <2>2 DEF Interrupted
  <2>6. ItemMove(i)
    BY ItemMoves DEF OutcomeInv
  <2> QED BY <2>1, <2>3, <2>4, <2>5, <2>6 DEF ItemMove
<1>2. ASSUME NEW w \in Workers, Marks(w), witem[w] = i
      PROVE  itemStatus'[i] = "running"
  BY <1>2 DEF Marks
<1> QED BY <1>1, <1>2, NewlyDispatched DEF OutcomeInv

(* The worker that holds the lease of a dispatched item knows.              *)
LEMMA HolderKnows ==
  ASSUME OutcomeInv, NEW i \in Items, NEW v \in Workers, Passive \/ Active,
         posted'[i] > 0 \/ \E w \in Workers : pc'[w] = "marked" /\ witem'[w] = i,
         itemStatus'[i] = "running",
         pc'[v] \in ItemInHand, witem'[v] = i, wversion'[v] = leaseVersion'[wjob'[v]]
  PROVE  wsent'[v]
<1> USE DEF OutcomeInv
<1>1. CASE Marks(v)
  BY <1>1 DEF Marks
<1>2. CASE Begins(v)
  <2>1. itemStatus[i] = "queued"
    BY <1>2 DEF Begins
  <2>2. ~Dispatched(i)
    BY <2>1 DEF SettledInv
  <2>3. \A w \in Workers : ~(Marks(w) /\ witem[w] = i)
    BY <2>1 DEF Marks
  <2> QED BY <2>2, <2>3, NewlyDispatched
<1>3. CASE Writes(v)
  BY <1>3 DEF Writes, SameLocals, SentInv
<1>4. CASE GoesOn(v) /\ SameLocals(v)
  <2>1. pc[v] \in ItemInHand /\ witem[v] = i /\ wjob'[v] = wjob[v] /\ wversion'[v] = wversion[v]
    BY <1>4 DEF GoesOn, SameLocals, ItemInHand, AtItem, Claimed
  <2>2. /\ pc[v] \in Claimed /\ wjob[v] \in Jobs /\ wversion[v] \in Nat
        /\ JobOf[i] = wjob[v]
    BY <2>1, PackageAssumption
    DEF Claimed, ItemInHand, AtItem, WorkerPc, BoundInv, TypeInv, LocalsSet, Version
  <2>3. wversion[v] = leaseVersion[wjob[v]]
    BY <2>1, <2>2, VersionsGrow DEF LeaseInv
  <2>4. CASE Dispatched(i)
    <3>1. itemStatus[i] = "running"
      <4>1. itemStatus[i] \in {"running", "succeeded", "inconclusive"} /\ ItemMove(i)
        BY <2>4, ItemMoves DEF SettledInv
      <4>2. jobStatus[JobOf[i]] # "absent"
        BY <4>1 DEF BoundInv
      <4> QED BY <4>1, <4>2 DEF ItemMove
    <3>2. wsent[v]
      BY <2>1, <2>3, <2>4, <3>1 DEF SettledInv
    <3> QED BY <1>4, <3>2 DEF SameLocals
  <2>5. ASSUME NEW w \in Workers, Marks(w), witem[w] = i
        PROVE  wsent'[v]
    <3>1. pc[w] \in Claimed /\ pc[w] \in ItemInHand /\ wversion[w] = leaseVersion[wjob[w]]
      BY <2>5 DEF Marks, Claimed, WorkerPc, ItemInHand, AtItem
    <3>2. wjob[w] = wjob[v]
      BY <2>2, <2>5, <3>1 DEF BoundInv
    <3>3. w = v
      BY <2>2, <2>3, <3>1, <3>2 DEF LeaseInv
    <3> QED BY <1>1, <2>5, <3>3
  <2> QED BY <2>4, <2>5, NewlyDispatched
<1>5. ~Starts(v) /\ ~Claims(v) /\ ~Drops(v) /\ pc'[v] # "idle"
  BY DEF Starts, Claims, Drops, ItemInHand, AtItem
<1> QED BY <1>1, <1>2, <1>3, <1>4, <1>5, WorkerMoves DEF WorkerMove

(* A job that is over gets no work back.                                    *)
LEMMA OverKept ==
  ASSUME OutcomeInv, NEW j \in Jobs, Passive \/ Active, jobStatus'[j] \in Over
  PROVE  ~HasStatus(j, itemStatus', "queued") /\ ~HasStatus(j, itemStatus', "running")
<1> USE DEF OutcomeInv
<1>1. CASE jobStatus'[j] = jobStatus[j]
  <2>1. ~HasStatus(j, itemStatus, "queued") /\ ~HasStatus(j, itemStatus, "running")
    BY <1>1 DEF SettledInv, Over, Unfinished
  <2>2. ASSUME NEW i \in ItemsOf(j)
        PROVE  itemStatus'[i] \notin {"queued", "running"}
    <3>1. i \in Items /\ JobOf[i] = j /\ itemStatus[i] \notin {"queued", "running"}
      BY <2>1 DEF ItemsOf, HasStatus
    <3>2. jobStatus[JobOf[i]] # "absent"
      BY <1>1, <3>1 DEF Over
    <3> QED BY <3>1, <3>2, ItemMoves DEF ItemMove
  <2> QED BY <2>2 DEF HasStatus
<1>2. ASSUME NEW cancelled, jobStatus'[j] = Aggregate(j, itemStatus', cancelled)
      PROVE  ~HasStatus(j, itemStatus', "queued") /\ ~HasStatus(j, itemStatus', "running")
  BY <1>2, AggregateOver
<1> QED BY <1>1, <1>2, JobMoves DEF JobMove

LEMMA SettledKept ==
  ASSUME OutcomeInv, Passive \/ Active
  PROVE  SettledInv'
<1>1. ASSUME NEW i \in Items, Dispatched(i)'
      PROVE  itemStatus'[i] \in {"running", "succeeded", "inconclusive"}
  BY <1>1, DispatchedKept DEF Dispatched
<1>2. ASSUME NEW i \in Items, NEW w \in Workers, Dispatched(i)', itemStatus'[i] = "running",
             pc'[w] \in ItemInHand, witem'[w] = i, wversion'[w] = leaseVersion'[wjob'[w]]
      PROVE  wsent'[w]
  BY <1>2, HolderKnows DEF Dispatched
<1>3. ASSUME NEW j \in Jobs, jobStatus'[j] \in {"succeeded", "failed", "cancelled"}
      PROVE  ~Unfinished(j)'
  BY <1>3, OverKept DEF Over, Unfinished
<1> QED BY <1>1, <1>2, <1>3 DEF SettledInv

(* Nothing is submitted, claimed or sent at first.                          *)
LEMMA InitOutcome ==
  Init => OutcomeInv
<1> SUFFICES ASSUME Init PROVE OutcomeInv
  OBVIOUS
<1>1. TypeInv
  BY InitType
<1>2. DispatchInv
  BY DEF Init, DispatchInv, AtMostOnceDispatch
<1>3. BoundInv /\ LeaseInv
  BY PackageAssumption DEF Init, BoundInv, LeaseInv, ItemInHand, AtItem, Claimed
<1>4. SentInv
  BY DEF Init, SentInv
<1>5. SettledInv
  BY DEF Init, SettledInv, Dispatched
<1> QED BY <1>1, <1>2, <1>3, <1>4, <1>5 DEF OutcomeInv

LEMMA NextOutcome ==
  ASSUME OutcomeInv, [Next]_vars
  PROVE  OutcomeInv'
<1>1. TypeInv' /\ DispatchInv'
  BY NextKeepsTypes, NextKeepsDispatch DEF OutcomeInv
<1>2. Passive \/ Active
  BY StepKinds DEF OutcomeInv
<1>3. BoundInv' /\ LeaseInv' /\ SentInv'
  BY <1>2, BoundKept, LeaseKept, SentKept DEF OutcomeInv
<1> QED BY <1>1, <1>2, <1>3, SettledKept DEF OutcomeInv

(* The invariant of this module is one of every behaviour.                  *)
THEOREM OutcomeInductive == Spec => []OutcomeInv
<1>1. OutcomeInv /\ [Next]_vars => OutcomeInv'
  BY NextOutcome
<1> QED BY <1>1, InitOutcome, PTL DEF Spec

(* For any number of workers, takeovers, lost acknowledgements and          *)
(* reconciliations, an item that may have changed the provider is running,  *)
(* verified or inconclusive, and a job reported as over has no work left    *)
(* (services/bulkJobs.ts catch block, db/jobs.ts recover and aggregate).    *)
THEOREM OutcomesAreHonest == Spec => []HonestOutcome
<1>1. OutcomeInv => HonestOutcome
  BY DEF OutcomeInv, SettledInv, Dispatched, HonestOutcome
<1> QED BY <1>1, OutcomeInductive, PTL

(* No step rewrites an outcome, but for the reconciliation that finds an    *)
(* uncertain write applied (db/jobs.ts finishItem, recordReconciliation).   *)
THEOREM OutcomesStayFinal == Spec => OutcomesAreFinal
<1>1. ASSUME OutcomeInv, [Next]_vars, NEW i \in Items,
             itemStatus[i] \in ItemOutcome, itemStatus'[i] # itemStatus[i]
      PROVE  /\ itemStatus[i] = "inconclusive" /\ itemStatus'[i] = "succeeded"
             /\ sentAt[i] /\ reconciliation'[i] = "verified_applied"
  <2>1. ItemMove(i)
    BY <1>1, StepKinds, ItemMoves DEF OutcomeInv
  <2>2. itemStatus[i] \notin {"absent", "queued", "running"}
    BY <1>1 DEF ItemOutcome
  <2>3. jobStatus[JobOf[i]] # "absent"
    BY <1>1, <2>2 DEF OutcomeInv, BoundInv
  <2>4. itemStatus[i] = "inconclusive" => sentAt[i]
    BY <1>1 DEF OutcomeInv, SentInv
  <2> QED BY <1>1, <2>1, <2>2, <2>3, <2>4 DEF ItemMove
<1>2. OutcomeInv /\ [Next]_vars =>
        [\A i \in Items :
           (itemStatus[i] \in ItemOutcome /\ itemStatus'[i] # itemStatus[i])
             => /\ itemStatus[i] = "inconclusive" /\ itemStatus'[i] = "succeeded"
                /\ sentAt[i] /\ reconciliation'[i] = "verified_applied"]_vars
  BY <1>1
<1> QED BY <1>2, OutcomeInductive, PTL DEF Spec, OutcomesAreFinal

(* After a cancellation, whatever was not sent is not sent, does not start  *)
(* and does not return to the queue (db/jobs.ts beginItem, markSent,        *)
(* pauseItemForAuthorization, recover).                                     *)
THEOREM CancelledWorkIsNotSent == Spec => CancelStopsUnsentWork
<1>1. ASSUME OutcomeInv, [Next]_vars, NEW i \in Items, cancelRequested[JobOf[i]], ~sentAt[i]
      PROVE  /\ ~sentAt'[i]
             /\ itemStatus'[i] \in {itemStatus[i]} \cup (ItemOutcome \ {"succeeded", "inconclusive"})
  <2>1. ItemMove(i) /\ SentMove(i)
    BY <1>1, StepKinds, ItemMoves, SentMoves DEF OutcomeInv
  <2>2. jobStatus[JobOf[i]] # "absent"
    BY <1>1, PackageAssumption DEF OutcomeInv, BoundInv
  <2>3. ASSUME NEW w \in Workers, Holding(w, i), EndedBy(w, i)
        PROVE  itemStatus'[i] \in {"skipped", "cancelled", "failed"}
    BY <1>1, <2>3 DEF Holding, EndedBy, OutcomeInv, SentInv
  <2>4. Interrupted(i) => itemStatus'[i] = "cancelled"
    BY <1>1 DEF Interrupted
  <2>5. itemStatus[i] # "inconclusive"
    BY <1>1 DEF OutcomeInv, SentInv
  <2> QED BY <1>1, <2>1, <2>2, <2>3, <2>4, <2>5 DEF ItemMove, SentMove, ItemOutcome
<1>2. OutcomeInv /\ [Next]_vars =>
        [\A i \in Items :
           (cancelRequested[JobOf[i]] /\ ~sentAt[i])
             => /\ ~sentAt'[i]
                /\ itemStatus'[i] \in
                     {itemStatus[i]} \cup (ItemOutcome \ {"succeeded", "inconclusive"})]_vars
  BY <1>1
<1> QED BY <1>2, OutcomeInductive, PTL DEF Spec, CancelStopsUnsentWork

-----------------------------------------------------------------------------
(* Sign-out and the package lock need to know more of a worker: under what  *)
(* authority it runs, and what it does while it holds the lock.             *)

UnderLock == {"locked", "confirmed", "matched", "marked", "posted", "verified", "unchanged"}

(* Worker u exits, is launched or claims under an authority, or keeps it:   *)
(* it stays, stops or begins, takes the lock, goes on under it, or reads.   *)
KeepsAuthority(u) == wsession'[u] = wsession[u] /\ wepoch'[u] = wepoch[u]

LocalMove(u) ==
  \/ pc'[u] = "idle"
  \/ pc[u] = "idle" /\ pc'[u] = "authorizing" /\ wsession'[u] = session[HostOf[u]]
  \/ pc[u] = "authorizing" /\ pc'[u] = "loop" /\ wsession'[u] = wsession[u] /\ wepoch'[u] = epoch
  \/ KeepsAuthority(u) /\ pc'[u] = pc[u] /\ witem'[u] = witem[u]
  \/ KeepsAuthority(u) /\ pc[u] \in Claimed /\ pc'[u] \in Claimed \ UnderLock
  \/ /\ KeepsAuthority(u) /\ pc[u] = "begun" /\ pc'[u] = "locked"
     /\ lockHolder'[TargetOf[witem'[u]]] = u
  \/ /\ KeepsAuthority(u) /\ pc[u] \in UnderLock /\ pc'[u] \in UnderLock \ {"matched"}
     /\ pc'[u] = "marked" => pc[u] = "matched" /\ Signed(u) /\ wepoch[u] = epoch
     /\ pc'[u] = "posted" => Signed(u)
     /\ witem'[u] = witem[u]
  \/ /\ KeepsAuthority(u) /\ pc[u] = "confirmed" /\ pc'[u] = "matched"
     /\ witem'[u] = witem[u] /\ UNCHANGED <<provider, prestate, lockHolder, lost>>
     /\ provider[TargetOf[witem[u]]] = prestate[witem[u]]

LEMMA LocalMoves ==
  ASSUME TypeInv, [Next]_vars
  PROVE  \A u \in Workers : LocalMove(u)
<1> DEFINE Moved == \A u \in Workers : LocalMove(u)
<1>1. ASSUME UNCHANGED <<pc, witem, wsession, wepoch>> PROVE Moved
  BY <1>1 DEF LocalMove, KeepsAuthority
<1>2. ASSUME NEW w \in Workers, Exit(w) PROVE Moved
  <2>1. pc'[w] = "idle"
    BY <1>2 DEF Exit, TypeInv, TypeOK, WorkerTypeOK
  <2>2. \A u \in Workers \ {w} : KeepsAuthority(u) /\ pc'[u] = pc[u] /\ witem'[u] = witem[u]
    BY <1>2 DEF Exit, TypeInv, TypeOK, WorkerTypeOK, KeepsAuthority
  <2> QED BY <2>1, <2>2 DEF LocalMove
<1>3. ASSUME NEW w \in Workers, NEW label, NEW item, pc' = [pc EXCEPT ![w] = label],
             witem' = [witem EXCEPT ![w] = item], UNCHANGED <<wsession, wepoch>>,
             pc[w] \in Claimed, label \in Claimed \ UnderLock
      PROVE  Moved
  BY <1>3 DEF LocalMove, KeepsAuthority, TypeInv, TypeOK, WorkerTypeOK
<1>4. ASSUME NEW w \in Workers, NEW label, pc' = [pc EXCEPT ![w] = label],
             UNCHANGED <<witem, wsession, wepoch>>,
             pc[w] \in Claimed, label \in Claimed \ UnderLock
      PROVE  Moved
  BY <1>4 DEF LocalMove, KeepsAuthority, TypeInv, TypeOK, WorkerTypeOK
<1>5. ASSUME NEW w \in Workers, NEW label, pc' = [pc EXCEPT ![w] = label],
             UNCHANGED <<witem, wsession, wepoch>>,
             pc[w] \in UnderLock, label \in UnderLock \ {"matched"},
             label = "marked" => pc[w] = "matched" /\ Signed(w) /\ wepoch[w] = epoch,
             label = "posted" => Signed(w)
      PROVE  Moved
  BY <1>5 DEF LocalMove, KeepsAuthority, TypeInv, TypeOK, WorkerTypeOK
<1> USE DEF Claimed, WorkerPc, UnderLock
<1>6. ASSUME NEW w \in Workers, NEW j \in Jobs, NEW resume \in BOOLEAN, Launch(w, j, resume)
      PROVE  Moved
  <2>1. /\ pc' = [pc EXCEPT ![w] = "authorizing"] /\ pc[w] = "idle"
        /\ wsession' = [wsession EXCEPT ![w] = session[HostOf[w]]] /\ UNCHANGED <<witem, wepoch>>
    BY <1>6 DEF Launch, Goto
  <2> QED BY <2>1 DEF LocalMove, KeepsAuthority, TypeInv, TypeOK, WorkerTypeOK
<1>7. ASSUME NEW w \in Workers, NEW ack \in BOOLEAN, Claim(w, ack) PROVE Moved
  <2>1. CASE ack
    <3>1. /\ pc' = [pc EXCEPT ![w] = "loop"] /\ pc[w] = "authorizing"
          /\ wepoch' = [wepoch EXCEPT ![w] = epoch] /\ UNCHANGED <<witem, wsession>>
      BY <1>7, <2>1 DEF Claim, Goto
    <3> QED BY <3>1 DEF LocalMove, KeepsAuthority, TypeInv, TypeOK, WorkerTypeOK
  <2>2. CASE ~ack
    BY <1>2, <1>7, <2>2 DEF Claim
  <2> QED BY <2>1, <2>2
<1>8. ASSUME NEW w \in Workers, NEW ack \in BOOLEAN, BeginItem(w, ack) PROVE Moved
  <2>1. PICK item :
          /\ pc' = [pc EXCEPT ![w] = IF ack THEN "begun" ELSE "releasing"] /\ pc[w] = "loop"
          /\ witem' = [witem EXCEPT ![w] = item] /\ UNCHANGED <<wsession, wepoch>>
    BY <1>8 DEF BeginItem, Goto
  <2> QED BY <1>3, <2>1
<1>9. ASSUME NEW w \in Workers, NEW ack \in BOOLEAN, MarkSent(w, ack) PROVE Moved
  <2>1. /\ pc' = [pc EXCEPT ![w] = IF ack THEN "marked" ELSE "failing"] /\ pc[w] = "matched"
        /\ UNCHANGED <<witem, wsession, wepoch>> /\ Signed(w) /\ wepoch[w] = epoch
    BY <1>9 DEF MarkSent, Markable, Goto
  <2> QED BY <1>4, <1>5, <2>1
<1>10. ASSUME NEW w \in Workers, NEW ack \in BOOLEAN, FinishAuthorized(w, ack) PROVE Moved
  <2>1. PICK label \in {"loop", "releasing", "pausing", "failing"} :
          pc' = [pc EXCEPT ![w] = label]
    BY <1>10 DEF FinishAuthorized, Goto
  <2>2. /\ witem' = IF ack THEN [witem EXCEPT ![w] = None] ELSE witem
        /\ UNCHANGED <<wsession, wepoch>> /\ pc[w] \in {"verified", "unchanged"}
    BY <1>10 DEF FinishAuthorized
  <2> QED BY <1>3, <1>4, <2>1, <2>2
<1>11. ASSUME NEW w \in Workers, FinishFailed(w) PROVE Moved
  <2>1. PICK label \in {"loop", "releasing"} :
          /\ pc' = [pc EXCEPT ![w] = label] /\ pc[w] = "failing"
          /\ witem' = [witem EXCEPT ![w] = None] /\ UNCHANGED <<wsession, wepoch>>
    BY <1>11 DEF FinishFailed, Goto
  <2> QED BY <1>3, <2>1
<1>12. ASSUME NEW w \in Workers, BeginItemExpired(w) \/ Stop(w) \/ CatchRefused(w) PROVE Moved
  <2>1. /\ pc' = [pc EXCEPT ![w] = "releasing"] /\ pc[w] \in {"loop", "pausing", "failing"}
        /\ UNCHANGED <<witem, wsession, wepoch>>
    BY <1>12 DEF BeginItemExpired, Stop, CatchRefused, Goto
  <2> QED BY <1>4, <2>1
<1>13. ASSUME NEW w \in Workers, NEW label \in {"pausing", "failing"}, ItemFails(w, label)
       PROVE  Moved
  <2>1. pc' = [pc EXCEPT ![w] = label] /\ UNCHANGED <<witem, wsession, wepoch>> /\ pc[w] \in AtItem
    BY <1>13 DEF ItemFails, Goto
  <2> QED BY <1>4, <2>1 DEF AtItem
<1>14. ASSUME NEW w \in Workers, TakeTargetLock(w) PROVE Moved
  <2>1. /\ pc' = [pc EXCEPT ![w] = "locked"] /\ pc[w] = "begun"
        /\ UNCHANGED <<witem, wsession, wepoch>>
        /\ lockHolder' = [lockHolder EXCEPT ![TargetOf[witem[w]]] = w]
    BY <1>14 DEF TakeTargetLock, Goto
  <2>2. TargetOf[witem[w]] \in Targets
    BY <2>1, PackageAssumption DEF TypeInv, LocalsSet, ItemInHand, AtItem
  <2> QED BY <2>1, <2>2 DEF LocalMove, KeepsAuthority, TypeInv, TypeOK, WorkerTypeOK, LockTypeOK
<1>15. ASSUME NEW w \in Workers, ReadImmediate(w) PROVE Moved
  <2>1. /\ pc' = [pc EXCEPT ![w] = "matched"] /\ pc[w] = "confirmed"
        /\ UNCHANGED <<witem, wsession, wepoch, provider, prestate, lockHolder, lost>>
        /\ provider[TargetOf[witem[w]]] = prestate[witem[w]]
    BY <1>15 DEF ReadImmediate, Goto
  <2> QED BY <2>1 DEF LocalMove, KeepsAuthority, TypeInv, TypeOK, WorkerTypeOK
<1>16. ASSUME NEW w \in Workers, ReadBefore(w) \/ Post(w) \/ Verify(w) PROVE Moved
  <2>1. UNCHANGED <<witem, wsession, wepoch>>
    BY <1>16 DEF ReadBefore, Post, Verify
  <2>2. \/ /\ pc[w] = "locked"
           /\ \E label \in {"unchanged", "confirmed"} : pc' = [pc EXCEPT ![w] = label]
        \/ pc[w] = "marked" /\ pc' = [pc EXCEPT ![w] = "posted"] /\ Signed(w)
        \/ pc[w] = "posted" /\ pc' = [pc EXCEPT ![w] = "verified"]
    BY <1>16 DEF ReadBefore, Post, Verify, Goto
  <2> QED BY <1>5, <2>1, <2>2
<1>17. ASSUME NEW w \in Workers,
              \/ AuthorizationFails(w) \/ ClaimRefused(w) \/ Release(w) \/ LeaseLost(w)
              \/ PauseItem(w) \/ Crash(w)
       PROVE  Moved
  BY <1>2, <1>17 DEF AuthorizationFails, ClaimRefused, Release, LeaseLost, PauseItem, Crash
<1>18. ASSUME NEW w \in Workers, WorkerStep(w) PROVE Moved
  BY <1>6, <1>7, <1>8, <1>9, <1>10, <1>11, <1>12, <1>13, <1>14, <1>15, <1>16, <1>17, <1>18
  DEF WorkerStep
<1>19. ASSUME RequestStep \/ RecoveryStep PROVE Moved
  <2>1. ASSUME RequestStep PROVE Moved
    BY <1>1, <2>1 DEF RequestStep, Submit, Cancel
  <2>2. ASSUME RecoveryStep PROVE Moved
    BY <1>1, <2>2 DEF RecoveryStep, RecoverJob, Recover
  <2> QED BY <1>19, <2>1, <2>2
<1>20. ASSUME SessionStep \/ ClockStep PROVE Moved
  BY <1>1, <1>20 DEF SessionStep, ClockStep, RevokeSession, PauseQueuedJobs, RevokeEpoch,
                     LeaseExpires, DeadlinePasses
<1>21. ASSUME ProviderStep PROVE Moved
  BY <1>1, <1>21 DEF ProviderStep, WriteLands, WriteIsLost, ExternalEdit, LockIsLost
<1>22. ASSUME NEW r \in Reconcilers, ReconcilerStep(r) PROVE Moved
  BY <1>1, <1>22 DEF ReconcilerStep, ReconcileLock, ReconcileRead, RecordReconciliation,
                     ReconcileFails
<1>23. ASSUME UNCHANGED vars PROVE Moved
  BY <1>1, <1>23 DEF vars
<1> QED BY <1>18, <1>19, <1>20, <1>21, <1>22, <1>23 DEF Next

-----------------------------------------------------------------------------
(* Sign-out.  A worker has nothing barred before it is launched; while its  *)
(* session still stands, it has something barred only if it had claimed its *)
(* job under an older epoch, and never the item it is about to write.       *)

Barred(u) ==
  /\ pc[u] = "idle" => wbarred[u] = {}
  /\ pc[u] # "idle" => wsession[u] <= session[HostOf[u]]
  /\ pc[u] \in Claimed => wepoch[u] <= epoch
  /\ pc[u] # "idle" /\ Signed(u) /\ wbarred[u] # {} => pc[u] \in Claimed /\ wepoch[u] < epoch
  /\ pc[u] = "marked" /\ Signed(u) => witem[u] \notin wbarred[u]

BarredInv == \A u \in Workers : Barred(u)

(* What a step may do to the sessions and to what worker u may not write:   *)
(* nothing, unless u exits; a sign-out in one process; its revocation.      *)
SameBar(u) ==
  \/ pc'[u] = "idle" /\ wbarred'[u] = {}
  \/ wbarred'[u] = wbarred[u] /\ (pc'[u] = "idle" => pc[u] = "idle")

Undone == UNCHANGED <<pc, witem, wsession, wepoch>>

BarMove(u) ==
  \/ SameBar(u) /\ UNCHANGED <<session, epoch>>
  \/ /\ Undone /\ UNCHANGED epoch
     /\ session'[HostOf[u]] = session[HostOf[u]] + 1
     /\ pc[u] = "idle" => wbarred'[u] = wbarred[u]
  \/ /\ Undone /\ UNCHANGED epoch
     /\ session'[HostOf[u]] = session[HostOf[u]]
     /\ wbarred'[u] = wbarred[u]
  \/ /\ Undone /\ UNCHANGED session
     /\ epoch' = epoch + 1
     /\ wbarred'[u] = IF pc[u] \in {"idle", "authorizing"} THEN wbarred[u]
                      ELSE wbarred[u] \cup {i \in Items : ~sentAt[i]}

LEMMA BarMoves ==
  ASSUME TypeInv, [Next]_vars
  PROVE  \A u \in Workers : BarMove(u)
<1> DEFINE Moved == \A u \in Workers : BarMove(u)
<1>1. ASSUME UNCHANGED <<pc, wbarred, session, epoch>> PROVE Moved
  BY <1>1 DEF BarMove, SameBar
<1>2. ASSUME NEW w \in Workers, Exit(w), UNCHANGED <<session, epoch>> PROVE Moved
  BY <1>2 DEF Exit, TypeInv, TypeOK, WorkerTypeOK, BarMove, SameBar
<1>3. ASSUME NEW w \in Workers, NEW label, label # "idle", pc' = [pc EXCEPT ![w] = label],
             UNCHANGED <<wbarred, session, epoch>>
      PROVE  Moved
  BY <1>3 DEF TypeInv, TypeOK, WorkerTypeOK, BarMove, SameBar
<1>4. ASSUME NEW h \in Processes, RevokeSession(h) PROVE Moved
  <2>1. /\ Undone /\ UNCHANGED epoch
        /\ session' = [session EXCEPT ![h] = @ + 1]
        /\ wbarred' = [w \in Workers |->
             IF HostOf[w] = h /\ pc[w] # "idle" THEN Items ELSE wbarred[w]]
    BY <1>4 DEF RevokeSession, Undone
  <2>2. ASSUME NEW u \in Workers PROVE BarMove(u)
    <3>1. HostOf[u] \in Processes
      BY PackageAssumption
    <3>2. CASE HostOf[u] = h
      BY <2>1, <3>1, <3>2 DEF TypeInv, TypeOK, SessionTypeOK, BarMove
    <3>3. CASE HostOf[u] # h
      BY <2>1, <3>1, <3>3 DEF TypeInv, TypeOK, SessionTypeOK, BarMove
    <3> QED BY <3>2, <3>3
  <2> QED BY <2>2
<1>5. ASSUME NEW h \in Processes, RevokeEpoch(h) PROVE Moved
  <2>1. CASE epoch' = epoch
    <3>1. UNCHANGED <<pc, session>> /\ \A u \in Workers : wbarred'[u] = wbarred[u]
      BY <1>5, <2>1 DEF RevokeEpoch
    <3> QED BY <2>1, <3>1 DEF BarMove, SameBar
  <2>2. CASE epoch' # epoch
    <3>1. epoch' = epoch + 1 /\ Undone /\ UNCHANGED session
      BY <1>5, <2>2 DEF RevokeEpoch, Undone
    <3>2. \A u \in Workers :
            wbarred'[u] = IF pc[u] \in {"idle", "authorizing"} THEN wbarred[u]
                          ELSE wbarred[u] \cup {i \in Items : ~sentAt[i]}
      BY <1>5, <2>2 DEF RevokeEpoch
    <3> QED BY <3>1, <3>2 DEF BarMove
  <2> QED BY <2>1, <2>2
<1>6. ASSUME NEW w \in Workers, NEW j \in Jobs, NEW resume \in BOOLEAN, Launch(w, j, resume)
      PROVE  Moved
  BY <1>3, <1>6 DEF Launch, Goto
<1>7. ASSUME NEW w \in Workers, NEW ack \in BOOLEAN, Claim(w, ack) PROVE Moved
  <2>1. UNCHANGED <<session, epoch>>
    BY <1>7 DEF Claim
  <2>2. CASE ack
    BY <1>3, <1>7, <2>1, <2>2 DEF Claim, Goto
  <2>3. CASE ~ack
    BY <1>2, <1>7, <2>1, <2>3 DEF Claim
  <2> QED BY <2>2, <2>3
<1>8. ASSUME NEW w \in Workers, NEW ack \in BOOLEAN,
             BeginItem(w, ack) \/ MarkSent(w, ack) \/ FinishAuthorized(w, ack)
      PROVE  Moved
  <2>1. UNCHANGED <<wbarred, session, epoch>>
    BY <1>8 DEF BeginItem, MarkSent, FinishAuthorized
  <2>2. \E label \in WorkerPc \ {"idle"} : pc' = [pc EXCEPT ![w] = label]
    BY <1>8 DEF BeginItem, MarkSent, FinishAuthorized, Goto, WorkerPc
  <2> QED BY <1>3, <2>1, <2>2
<1>9. ASSUME NEW w \in Workers, NEW label \in {"pausing", "failing"}, ItemFails(w, label)
      PROVE  Moved
  BY <1>3, <1>9 DEF ItemFails, Goto
<1>10. ASSUME NEW w \in Workers,
              \/ BeginItemExpired(w) \/ Stop(w) \/ TakeTargetLock(w) \/ ReadBefore(w)
              \/ ReadImmediate(w) \/ Post(w) \/ Verify(w) \/ FinishFailed(w) \/ CatchRefused(w)
       PROVE  Moved
  <2>1. UNCHANGED <<wbarred, session, epoch>>
    BY <1>10 DEF BeginItemExpired, Stop, TakeTargetLock, ReadBefore, ReadImmediate, Post, Verify,
                 FinishFailed, CatchRefused
  <2>2. \E label \in WorkerPc \ {"idle"} : pc' = [pc EXCEPT ![w] = label]
    BY <1>10 DEF BeginItemExpired, Stop, TakeTargetLock, ReadBefore, ReadImmediate, Post, Verify,
                 FinishFailed, CatchRefused, Goto, WorkerPc
  <2> QED BY <1>3, <2>1, <2>2
<1>11. ASSUME NEW w \in Workers,
              \/ AuthorizationFails(w) \/ ClaimRefused(w) \/ Release(w) \/ LeaseLost(w)
              \/ PauseItem(w) \/ Crash(w)
       PROVE  Moved
  BY <1>2, <1>11 DEF AuthorizationFails, ClaimRefused, Release, LeaseLost, PauseItem, Crash
<1>12. ASSUME NEW w \in Workers, WorkerStep(w) PROVE Moved
  BY <1>6, <1>7, <1>8, <1>9, <1>10, <1>11, <1>12 DEF WorkerStep
<1>13. ASSUME SessionStep PROVE Moved
  <2>1. ASSUME NEW h \in Processes, PauseQueuedJobs(h) PROVE Moved
    BY <1>1, <2>1 DEF PauseQueuedJobs
  <2> QED BY <1>4, <1>5, <1>13, <2>1 DEF SessionStep
<1>14. ASSUME RequestStep \/ RecoveryStep \/ ClockStep \/ UNCHANGED vars PROVE Moved
  BY <1>1, <1>14 DEF RequestStep, RecoveryStep, ClockStep, vars, Submit, Cancel, RecoverJob,
                     Recover, LeaseExpires, DeadlinePasses
<1>15. ASSUME ProviderStep PROVE Moved
  BY <1>1, <1>15 DEF ProviderStep, WriteLands, WriteIsLost, ExternalEdit, LockIsLost
<1>16. ASSUME NEW r \in Reconcilers, ReconcilerStep(r) PROVE Moved
  BY <1>1, <1>16 DEF ReconcilerStep, ReconcileLock, ReconcileRead, RecordReconciliation,
                     ReconcileFails
<1> QED BY <1>12, <1>13, <1>14, <1>15, <1>16 DEF Next

LEMMA BarredKept ==
  ASSUME TypeInv, SentInv, BarredInv, [Next]_vars
  PROVE  BarredInv'
<1> SUFFICES ASSUME NEW u \in Workers PROVE Barred(u)'
  BY DEF BarredInv
<1>1. /\ epoch \in Nat /\ wsession[u] \in Nat /\ wepoch[u] \in Nat
      /\ session[HostOf[u]] \in Nat /\ pc[u] \in WorkerPc
  BY PackageAssumption DEF TypeInv, TypeOK, SessionTypeOK, WorkerTypeOK
<1>2. Barred(u)
  BY DEF BarredInv
<1>3. UnderLock \cup {"begun"} \subseteq Claimed /\ Claimed = WorkerPc \ {"idle", "authorizing"}
  BY DEF UnderLock, Claimed, WorkerPc
<1>4. LocalMove(u) /\ BarMove(u)
  BY LocalMoves, BarMoves
<1>5. CASE SameBar(u) /\ UNCHANGED <<session, epoch>>
  <2>1. CASE pc'[u] = "idle"
    BY <1>2, <1>5, <2>1 DEF SameBar, Barred, Claimed
  <2>2. CASE pc'[u] # "idle"
    <3>1. wbarred'[u] = wbarred[u]
      BY <1>5, <2>2 DEF SameBar
    <3>2. CASE pc[u] = "idle" /\ pc'[u] = "authorizing" /\ wsession'[u] = session[HostOf[u]]
      BY <1>1, <1>2, <1>5, <3>1, <3>2 DEF Barred, Claimed
    <3>3. CASE pc[u] = "authorizing" /\ pc'[u] = "loop" /\ wsession'[u] = wsession[u]
               /\ wepoch'[u] = epoch
      BY <1>1, <1>2, <1>5, <3>1, <3>3 DEF Barred, Claimed, Signed
    <3>4. CASE KeepsAuthority(u) /\ pc'[u] = pc[u] /\ witem'[u] = witem[u]
      BY <1>1, <1>2, <1>5, <3>1, <3>4 DEF Barred, Signed, KeepsAuthority
    <3>5. CASE KeepsAuthority(u) /\ pc[u] \in Claimed /\ pc'[u] \in Claimed /\ pc'[u] # "marked"
      BY <1>1, <1>2, <1>3, <1>5, <3>1, <3>5 DEF Barred, Signed, KeepsAuthority
    <3>6. CASE /\ KeepsAuthority(u) /\ pc[u] \in Claimed /\ pc'[u] = "marked"
               /\ Signed(u) /\ wepoch[u] = epoch
      BY <1>1, <1>2, <1>3, <1>5, <3>1, <3>6 DEF Barred, Signed, KeepsAuthority
    <3> QED BY <1>3, <1>4, <2>2, <3>2, <3>3, <3>4, <3>5, <3>6 DEF LocalMove, UnderLock
  <2> QED BY <2>1, <2>2
<1>6. CASE /\ Undone /\ UNCHANGED epoch
           /\ session'[HostOf[u]] = session[HostOf[u]] + 1
           /\ pc[u] = "idle" => wbarred'[u] = wbarred[u]
  <2>1. pc[u] # "idle" => ~Signed(u)'
    BY <1>1, <1>2, <1>6 DEF Barred, Signed, Undone
  <2> QED BY <1>1, <1>2, <1>6, <2>1 DEF Barred, Undone
<1>7. CASE /\ Undone /\ UNCHANGED epoch
           /\ session'[HostOf[u]] = session[HostOf[u]]
           /\ wbarred'[u] = wbarred[u]
  BY <1>2, <1>7 DEF Barred, Signed, Undone
<1>8. CASE /\ Undone /\ UNCHANGED session
           /\ epoch' = epoch + 1
           /\ wbarred'[u] = IF pc[u] \in {"idle", "authorizing"} THEN wbarred[u]
                            ELSE wbarred[u] \cup {i \in Items : ~sentAt[i]}
  <2>1. pc[u] = "marked" => sentAt[witem[u]]
    BY DEF SentInv, ItemInHand, AtItem
  <2>2. CASE pc[u] \in {"idle", "authorizing"}
    BY <1>1, <1>2, <1>3, <1>8, <2>2 DEF Barred, Signed, Undone
  <2>3. CASE pc[u] \in Claimed
    BY <1>1, <1>2, <1>3, <1>8, <2>1, <2>3 DEF Barred, Signed, Undone
  <2> QED BY <1>1, <1>3, <2>2, <2>3
<1> QED BY <1>4, <1>5, <1>6, <1>7, <1>8 DEF BarMove

(* In the process that handles a sign-out no worker writes any more; in the *)
(* others, those that had claimed their job write what was marked before    *)
(* the revocation reached the database, at most (services/bulkJobs.ts       *)
(* assertMutationAuthority, db/sessions.ts revokeAccountSessionMutations,   *)
(* db/jobs.ts markSent).                                                    *)
THEOREM SignOutStopsWrites == Spec => NoWriteAfterSignOut
<1>1. Init => BarredInv
  BY DEF Init, BarredInv, Barred, Claimed
<1>2. OutcomeInv /\ BarredInv /\ [Next]_vars => BarredInv'
  BY BarredKept DEF OutcomeInv
<1>3. ASSUME OutcomeInv, BarredInv, [Next]_vars, NEW w \in Workers, pc[w] = "marked",
             pc'[w] = "posted"
      PROVE  witem[w] \notin wbarred[w]
  <2>1. Signed(w)
    BY <1>3, LocalMoves DEF OutcomeInv, LocalMove, UnderLock
  <2> QED BY <1>3, <2>1 DEF BarredInv, Barred
<1>4. OutcomeInv /\ BarredInv /\ [Next]_vars =>
        [\A w \in Workers :
           (pc[w] = "marked" /\ pc'[w] = "posted") => witem[w] \notin wbarred[w]]_vars
  BY <1>3
<1>5. Spec => []BarredInv
  BY <1>1, <1>2, OutcomeInductive, PTL DEF Spec
<1> QED BY <1>4, <1>5, OutcomeInductive, PTL DEF Spec, NoWriteAfterSignOut

-----------------------------------------------------------------------------
(* The package lock: a worker under it holds it, unless its connection died *)
(* (db/jobs.ts withTargetLock, withPackageLock).                            *)

LockInv ==
  \A w \in Workers :
    pc[w] \in UnderLock /\ w \notin lost => lockHolder[TargetOf[witem[w]]] = w

Relies == {"matched", "marked"}

(* What others may do to a worker that stays under its lock: its connection *)
(* dies, or its package changes, by a write whose worker is under the same  *)
(* lock or else to its knowledge.                                           *)
EnvMove(u) ==
  pc[u] \in UnderLock /\ pc'[u] \in UnderLock =>
    /\ u \in lost => u \in lost'
    /\ lockHolder[TargetOf[witem[u]]] = u =>
         lockHolder'[TargetOf[witem[u]]] = u \/ u \in lost'
    /\ prestate'[witem[u]] = prestate[witem[u]]
    /\ pc[u] \in Relies /\ pc'[u] \in Relies =>
         /\ u \in disturbed => u \in disturbed'
         /\ \/ provider'[TargetOf[witem[u]]] = provider[TargetOf[witem[u]]]
            \/ u \in disturbed'
            \/ \E v \in Workers : /\ pc[v] = "posted" /\ v \notin lost
                                  /\ TargetOf[witem[v]] = TargetOf[witem[u]]

LEMMA EnvMoves ==
  ASSUME TypeInv, BoundInv, [Next]_vars
  PROVE  \A u \in Workers : EnvMove(u)
<1> DEFINE Moved == \A u \in Workers : EnvMove(u)
<1>0. \A u \in Workers : pc[u] \in UnderLock =>
        /\ witem[u] \in Items /\ TargetOf[witem[u]] \in Targets
        /\ jobStatus[JobOf[witem[u]]] # "absent"
  BY PackageAssumption DEF TypeInv, LocalsSet, ItemInHand, AtItem, UnderLock, BoundInv
<1>1. ASSUME UNCHANGED <<lockHolder, lost, disturbed, provider, prestate>> PROVE Moved
  BY <1>1 DEF EnvMove
<1>2. ASSUME NEW p, Unlock(p), UNCHANGED <<provider, prestate>>,
             p \in Workers => pc'[p] \notin UnderLock
      PROVE  Moved
  <2>1. ASSUME NEW u \in Workers, u # p PROVE EnvMove(u)
    BY <1>0, <1>2, <2>1 DEF Unlock, EnvMove, TypeInv, TypeOK, LockTypeOK
  <2>2. p \in Workers => EnvMove(p)
    BY <1>2 DEF EnvMove
  <2> QED BY <2>1, <2>2
<1>3. ASSUME NEW w \in Workers, Exit(w), UNCHANGED <<provider, prestate>> PROVE Moved
  <2>1. pc'[w] \notin UnderLock /\ Unlock(w)
    BY <1>3 DEF Exit, TypeInv, TypeOK, WorkerTypeOK, UnderLock
  <2> QED BY <1>2, <1>3, <2>1
<1>4. ASSUME NEW w \in Workers, NEW label, pc' = [pc EXCEPT ![w] = label],
             label \notin UnderLock, Unlock(w), UNCHANGED <<provider, prestate>>
      PROVE  Moved
  <2>1. pc'[w] \notin UnderLock
    BY <1>4 DEF TypeInv, TypeOK, WorkerTypeOK
  <2> QED BY <1>2, <1>4, <2>1
<1>5. ASSUME NEW t, lockHolder[t] = None, NEW p, lockHolder' = [lockHolder EXCEPT ![t] = p],
             UNCHANGED <<lost, disturbed, provider, prestate>>
      PROVE  Moved
  <2>1. None \notin Workers
    BY PackageAssumption
  <2> QED BY <1>0, <1>5, <2>1 DEF EnvMove, TypeInv, TypeOK, LockTypeOK
<1>6. ASSUME NEW j \in Jobs, Submit(j) PROVE Moved
  <2>1. /\ prestate' = [i \in Items |-> IF JobOf[i] = j THEN provider[TargetOf[i]] ELSE prestate[i]]
        /\ UNCHANGED <<lockHolder, lost, disturbed, provider>> /\ jobStatus[j] = "absent"
    BY <1>6 DEF Submit
  <2> QED BY <1>0, <2>1 DEF EnvMove
<1>7. ASSUME NEW w \in Workers, NEW ack \in BOOLEAN,
             Claim(w, ack) \/ BeginItem(w, ack) \/ MarkSent(w, ack) \/ FinishAuthorized(w, ack)
      PROVE  Moved
  <2>1. CASE Claim(w, ack)
    <3>1. UNCHANGED lockVars \/ Exit(w)
      BY <2>1 DEF Claim
    <3>2. UNCHANGED <<provider, prestate>>
      BY <2>1 DEF Claim
    <3> QED BY <1>1, <1>3, <3>1, <3>2
  <2>2. CASE BeginItem(w, ack)
    BY <1>1, <2>2 DEF BeginItem
  <2>3. CASE MarkSent(w, ack)
    <3>1. UNCHANGED lockVars \/ (Unlock(w) /\ pc' = [pc EXCEPT ![w] = "failing"])
      BY <2>3 DEF MarkSent, Goto
    <3>2. UNCHANGED <<provider, prestate>>
      BY <2>3 DEF MarkSent
    <3> QED BY <1>1, <1>4, <3>1, <3>2 DEF UnderLock
  <2>4. CASE FinishAuthorized(w, ack)
    <3>1. PICK label \in {"loop", "releasing", "pausing", "failing"} :
            pc' = [pc EXCEPT ![w] = label]
      BY <2>4 DEF FinishAuthorized, Goto
    <3>2. Unlock(w) /\ UNCHANGED <<provider, prestate>>
      BY <2>4 DEF FinishAuthorized, Finished
    <3> QED BY <1>4, <3>1, <3>2 DEF UnderLock
  <2> QED BY <1>7, <2>1, <2>2, <2>3, <2>4
<1>8. ASSUME NEW w \in Workers, NEW label \in {"pausing", "failing"}, ItemFails(w, label)
      PROVE  Moved
  <2>1. /\ pc' = [pc EXCEPT ![w] = label] /\ Unlock(w) /\ UNCHANGED <<provider, prestate>>
    BY <1>8 DEF ItemFails, Goto
  <2> QED BY <1>4, <2>1 DEF UnderLock
<1>9. ASSUME NEW w \in Workers, TakeTargetLock(w) PROVE Moved
  BY <1>5, <1>9 DEF TakeTargetLock, LockFree
<1>10. ASSUME NEW w \in Workers, ReadImmediate(w) PROVE Moved
  <2>1. /\ pc[w] \notin Relies /\ disturbed' = disturbed \ {w}
        /\ UNCHANGED <<lockHolder, lost, provider, prestate>>
    BY <1>10 DEF ReadImmediate, Relies
  <2> QED BY <2>1 DEF EnvMove
<1>11. ASSUME NEW w \in Workers,
              \/ AuthorizationFails(w) \/ ClaimRefused(w) \/ Release(w) \/ LeaseLost(w)
              \/ PauseItem(w) \/ Crash(w)
       PROVE  Moved
  BY <1>3, <1>11 DEF AuthorizationFails, ClaimRefused, Release, LeaseLost, PauseItem, Crash
<1>12. ASSUME NEW w \in Workers,
              \/ \E j \in Jobs, resume \in BOOLEAN : Launch(w, j, resume)
              \/ BeginItemExpired(w) \/ Stop(w) \/ CatchRefused(w) \/ ReadBefore(w)
              \/ Post(w) \/ Verify(w)
       PROVE  Moved
  BY <1>1, <1>12 DEF Launch, BeginItemExpired, Stop, CatchRefused, ReadBefore, Post, Verify
<1>13. ASSUME NEW w \in Workers, FinishFailed(w) PROVE Moved
  BY <1>1, <1>13 DEF FinishFailed, Finished
<1>14. ASSUME NEW w \in Workers, WorkerStep(w) PROVE Moved
  BY <1>7, <1>8, <1>9, <1>10, <1>11, <1>12, <1>13, <1>14 DEF WorkerStep
<1>15. ASSUME NEW r \in Reconcilers, ReconcilerStep(r) PROVE Moved
  <2>1. r \notin Workers
    BY PackageAssumption
  <2>2. ASSUME NEW i \in Items, ReconcileLock(r, i) PROVE Moved
    BY <1>5, <2>2 DEF ReconcileLock, LockFree
  <2>3. CASE ReconcileRead(r)
    BY <1>1, <2>3 DEF ReconcileRead
  <2>4. CASE RecordReconciliation(r) \/ ReconcileFails(r)
    BY <1>2, <2>1, <2>4 DEF RecordReconciliation, ReconcileFails, ReconcileExit
  <2> QED BY <1>15, <2>2, <2>3, <2>4 DEF ReconcilerStep
<1>16. ASSUME NEW i \in Items, WriteLands(i) PROVE Moved
  <2>1. /\ UNCHANGED <<pc, witem, lockHolder, lost, prestate>>
        /\ provider' = [provider EXCEPT ![TargetOf[i]] = Expected(i)]
        /\ \/ \E v \in Workers : pc[v] = "posted" /\ witem[v] = i /\ v \notin lost
           \/ disturbed' = disturbed \cup Reading(TargetOf[i])
        /\ disturbed \subseteq disturbed'
    BY <1>16 DEF WriteLands
  <2>2. ASSUME NEW u \in Workers, pc[u] \in UnderLock, TargetOf[witem[u]] # TargetOf[i]
        PROVE  provider'[TargetOf[witem[u]]] = provider[TargetOf[witem[u]]]
    BY <1>0, <2>1, <2>2 DEF TypeInv, TypeOK, ProviderTypeOK
  <2>3. ASSUME NEW u \in Workers, pc[u] \in Relies, TargetOf[witem[u]] = TargetOf[i]
        PROVE  u \in Reading(TargetOf[i])
    BY <2>3 DEF Reading, Relies
  <2> QED BY <2>1, <2>2, <2>3 DEF EnvMove
<1>17. ASSUME NEW t \in Targets, NEW s \in States, ExternalEdit(t, s) PROVE Moved
  <2>1. /\ UNCHANGED <<pc, witem, lockHolder, lost, prestate>>
        /\ provider' = [provider EXCEPT ![t] = s]
        /\ disturbed' = disturbed \cup Reading(t)
    BY <1>17 DEF ExternalEdit
  <2>2. ASSUME NEW u \in Workers, pc[u] \in UnderLock, TargetOf[witem[u]] # t
        PROVE  provider'[TargetOf[witem[u]]] = provider[TargetOf[witem[u]]]
    BY <1>0, <2>1, <2>2 DEF TypeInv, TypeOK, ProviderTypeOK
  <2>3. ASSUME NEW u \in Workers, pc[u] \in Relies, TargetOf[witem[u]] = t
        PROVE  u \in Reading(t)
    BY <2>3 DEF Reading, Relies
  <2> QED BY <2>1, <2>2, <2>3 DEF EnvMove
<1>18. ASSUME NEW t \in Targets, LockIsLost(t) PROVE Moved
  <2>1. /\ lost' = lost \cup {lockHolder[t]} /\ lockHolder' = [lockHolder EXCEPT ![t] = None]
        /\ UNCHANGED <<disturbed, provider, prestate>>
    BY <1>18 DEF LockIsLost
  <2> QED BY <1>0, <2>1 DEF EnvMove, TypeInv, TypeOK, LockTypeOK
<1>19. ASSUME NEW i \in Items, WriteIsLost(i) PROVE Moved
  BY <1>1, <1>19 DEF WriteIsLost
<1>20. ASSUME NEW j \in Jobs, Cancel(j) \/ LeaseExpires(j) \/ DeadlinePasses(j) PROVE Moved
  BY <1>1, <1>20 DEF Cancel, LeaseExpires, DeadlinePasses
<1>21. ASSUME SessionStep \/ RecoveryStep \/ UNCHANGED vars PROVE Moved
  <2>1. CASE SessionStep
    BY <1>1, <2>1 DEF SessionStep, RevokeSession, PauseQueuedJobs, RevokeEpoch
  <2>2. CASE RecoveryStep
    BY <1>1, <2>2 DEF RecoveryStep, RecoverJob, Recover
  <2>3. CASE UNCHANGED vars
    BY <1>1, <2>3 DEF vars
  <2> QED BY <1>21, <2>1, <2>2, <2>3
<1> QED
  BY <1>6, <1>14, <1>15, <1>16, <1>17, <1>18, <1>19, <1>20, <1>21
  DEF Next, RequestStep, ClockStep, ProviderStep

(* A worker enters the lock by taking it, and leaves it before it gives it  *)
(* up.                                                                      *)
LEMMA UnderLockMoves ==
  ASSUME TypeInv, [Next]_vars, NEW u \in Workers, pc'[u] \in UnderLock
  PROVE  \/ pc[u] = "begun" /\ lockHolder'[TargetOf[witem'[u]]] = u /\ pc'[u] = "locked"
         \/ pc[u] \in UnderLock /\ witem'[u] = witem[u]
BY LocalMoves DEF LocalMove, UnderLock

LEMMA LockKept ==
  ASSUME TypeInv, BoundInv, LockInv, [Next]_vars
  PROVE  LockInv'
<1> SUFFICES ASSUME NEW u \in Workers, pc'[u] \in UnderLock, u \notin lost'
             PROVE  lockHolder'[TargetOf[witem'[u]]] = u
  BY DEF LockInv
<1>1. CASE pc[u] = "begun" /\ lockHolder'[TargetOf[witem'[u]]] = u
  BY <1>1
<1>2. CASE pc[u] \in UnderLock /\ witem'[u] = witem[u]
  <2>1. EnvMove(u)
    BY EnvMoves
  <2>2. u \notin lost
    BY <1>2, <2>1 DEF EnvMove
  <2>3. lockHolder[TargetOf[witem[u]]] = u
    BY <1>2, <2>2 DEF LockInv
  <2> QED BY <1>2, <2>1, <2>3 DEF EnvMove
<1> QED BY <1>1, <1>2, UnderLockMoves

(* The write that lands while another worker relies on what it read is not  *)
(* one of a worker that still has its lock: they would both hold it.        *)
LEMMA NoUpdateIsLost ==
  ASSUME TypeInv, BoundInv, LockInv, NoLostUpdate, [Next]_vars
  PROVE  NoLostUpdate'
<1> SUFFICES ASSUME NEW u \in Workers, pc'[u] \in Relies, u \notin lost', u \notin disturbed'
             PROVE  provider'[TargetOf[witem'[u]]] = prestate'[witem'[u]]
  BY DEF NoLostUpdate, Relies
<1>1. pc'[u] \in UnderLock /\ pc'[u] # "locked"
  BY DEF Relies, UnderLock
<1>2. pc[u] \in UnderLock /\ witem'[u] = witem[u]
  BY <1>1, UnderLockMoves
<1>3. EnvMove(u)
  BY EnvMoves
<1>4. u \notin lost
  BY <1>1, <1>2, <1>3 DEF EnvMove
<1>5. CASE pc[u] \in Relies
  <2>1. u \notin disturbed /\ prestate'[witem[u]] = prestate[witem[u]]
    BY <1>1, <1>2, <1>3, <1>5 DEF EnvMove
  <2>2. provider[TargetOf[witem[u]]] = prestate[witem[u]]
    BY <1>4, <1>5, <2>1 DEF NoLostUpdate, Relies
  <2>3. ASSUME NEW v \in Workers, pc[v] = "posted", v \notin lost,
               TargetOf[witem[v]] = TargetOf[witem[u]]
        PROVE  FALSE
    <3>1. lockHolder[TargetOf[witem[v]]] = v
      BY <2>3 DEF LockInv, UnderLock
    <3>2. lockHolder[TargetOf[witem[u]]] = u
      BY <1>2, <1>4 DEF LockInv
    <3> QED BY <1>5, <2>3, <3>1, <3>2 DEF Relies
  <2>4. provider'[TargetOf[witem[u]]] = provider[TargetOf[witem[u]]]
    BY <1>1, <1>2, <1>3, <1>5, <2>3 DEF EnvMove
  <2> QED BY <1>2, <2>1, <2>2, <2>4
<1>6. CASE pc[u] \notin Relies
  BY <1>2, <1>6, LocalMoves DEF LocalMove, Relies, UnderLock
<1> QED BY <1>5, <1>6

(* A worker that still has its lock and its package to itself overwrites    *)
(* the state that was confirmed, whichever other jobs have the package too  *)
(* (services/bulkJobs.ts runBulkJob, db/jobs.ts withPackageLock).           *)
THEOREM NoUpdateLost == Spec => []NoLostUpdate
<1> DEFINE Inv == OutcomeInv /\ LockInv /\ NoLostUpdate
<1>1. Init => Inv
  BY InitOutcome DEF Init, LockInv, NoLostUpdate, UnderLock
<1>2. Inv /\ [Next]_vars => Inv'
  BY NextOutcome, LockKept, NoUpdateIsLost DEF OutcomeInv
<1> QED BY <1>1, <1>2, PTL DEF Spec

-----------------------------------------------------------------------------
(* The limit on outstanding jobs: submission counts the outstanding ones,   *)
(* and no other step gives a job work to do.                                *)

Submitted == {j \in Jobs : jobStatus[j] # "absent"}
Busy == {j \in Jobs : Unfinished(j)}
Counted == {j \in Jobs : Outstanding(j)}

(* Only submission creates a job.                                           *)
LEMMA SubmissionCreates ==
  ASSUME TypeInv, BoundInv, Passive \/ Active,
         NEW j \in Jobs, jobStatus[j] = "absent", jobStatus'[j] # "absent"
  PROVE  Submit(j)
<1> USE DEF TypeInv, TypeOK, JobTypeOK
<1>1. ~Passive
  BY DEF Passive
<1>2. ASSUME NEW k \in Jobs, Submit(k) PROVE k = j
  BY <1>2 DEF Submit
<1>3. ASSUME NEW k \in Jobs, jobStatus[k] # "absent", NEW status,
             jobStatus' = [jobStatus EXCEPT ![k] = status]
      PROVE  FALSE
  BY <1>3
<1>4. ASSUME NEW k \in Jobs, Cancel(k) PROVE FALSE
  BY <1>3, <1>4 DEF Cancel
<1>5. ASSUME NEW k \in Jobs, NEW includeQueued \in BOOLEAN, RecoverJob(k, includeQueued)
      PROVE  FALSE
  BY <1>3, <1>5 DEF RecoverJob, Recover, Recoverable
<1>6. ASSUME NEW w \in Workers, NEW ack \in BOOLEAN, Claim(w, ack) PROVE FALSE
  <2>1. wjob[w] \in Jobs
    BY <1>6 DEF Claim, LocalsSet
  <2> QED BY <1>3, <1>6, <2>1 DEF Claim, Claimable
<1>7. ASSUME NEW w \in Workers, Release(w) \/ PauseItem(w) PROVE FALSE
  <2>1. wjob[w] \in Jobs /\ jobStatus[wjob[w]] # "absent"
    BY <1>7 DEF Release, PauseItem, LocalsSet, BoundInv
  <2> QED BY <1>3, <1>7, <2>1 DEF Release, PauseItem
<1>8. ASSUME NEW r \in Reconcilers, RecordReconciliation(r) PROVE FALSE
  <2>1. ritem[r] \in Items /\ itemStatus[ritem[r]] # "absent"
    BY <1>8 DEF RecordReconciliation, RitemSet, Reconcilable
  <2>2. JobOf[ritem[r]] \in Jobs /\ jobStatus[JobOf[ritem[r]]] # "absent"
    BY <2>1, PackageAssumption DEF BoundInv
  <2> QED BY <1>3, <1>8, <2>2 DEF RecordReconciliation
<1>9. ASSUME NEW w \in Workers,
             \/ \E k \in Jobs, resume \in BOOLEAN : Launch(w, k, resume)
             \/ \E ack \in BOOLEAN : BeginItem(w, ack) \/ MarkSent(w, ack)
                                     \/ FinishAuthorized(w, ack)
             \/ BeginItemExpired(w) \/ Post(w) \/ FinishFailed(w)
      PROVE  FALSE
  BY <1>9 DEF Launch, BeginItem, MarkSent, FinishAuthorized, BeginItemExpired, Post, FinishFailed
<1> HIDE DEF TypeInv
<1> QED BY <1>1, <1>2, <1>4, <1>5, <1>6, <1>7, <1>8, <1>9 DEF Active

(* Work left in a job that existed was there before.                        *)
LEMMA BusyShrinks ==
  ASSUME TypeInv, BoundInv, Passive \/ Active,
         \A j \in Jobs : jobStatus[j] = "absent" => jobStatus'[j] = "absent"
  PROVE  Busy' \subseteq Busy
<1>1. ASSUME NEW i \in Items, itemStatus'[i] \in {"queued", "running"}
      PROVE  itemStatus[i] \in {"queued", "running"}
  BY <1>1, ItemMoves, PackageAssumption DEF ItemMove, EndedBy
<1> QED BY <1>1 DEF Busy, Unfinished, HasStatus, ItemsOf

(* A job with work left counts as outstanding.                              *)
LEMMA BusyIsCounted ==
  ASSUME OutcomeInv
  PROVE  Busy \subseteq Counted /\ Counted \subseteq Submitted
<1>1. ASSUME NEW j \in Jobs, Unfinished(j) PROVE Outstanding(j)
  <2>1. jobStatus[j] \in JobStatus \cup {"absent"}
    BY DEF OutcomeInv, TypeInv, TypeOK, JobTypeOK
  <2>2. jobStatus[j] \notin {"succeeded", "failed", "cancelled"}
    BY <1>1 DEF OutcomeInv, SettledInv
  <2>3. jobStatus[j] # "absent"
    BY <1>1 DEF OutcomeInv, BoundInv, Unfinished, HasStatus, ItemsOf
  <2> QED BY <1>1, <2>1, <2>2, <2>3 DEF Outstanding, JobStatus
<1>2. \A j \in Jobs : Outstanding(j) => jobStatus[j] # "absent"
  BY DEF Outstanding
<1> QED BY <1>1, <1>2 DEF Busy, Counted, Submitted

LimitInv == IsFiniteSet(Submitted) /\ Cardinality(Busy) <= MaxOutstanding

LEMMA LimitKept ==
  ASSUME OutcomeInv, LimitInv, Passive \/ Active
  PROVE  LimitInv'
<1>1. MaxOutstanding \in Nat
  BY PackageAssumption
<1>2. /\ IsFiniteSet(Counted) /\ IsFiniteSet(Busy)
      /\ Cardinality(Counted) \in Nat /\ Cardinality(Busy) \in Nat
  BY BusyIsCounted, FS_Subset, FS_CardinalityType DEF LimitInv
<1>3. CASE \A j \in Jobs : jobStatus[j] = "absent" => jobStatus'[j] = "absent"
  <2>1. Submitted' \subseteq Submitted /\ Busy' \subseteq Busy
    BY <1>3, BusyShrinks DEF Submitted, OutcomeInv
  <2>2. IsFiniteSet(Submitted')
    BY <2>1, FS_Subset DEF LimitInv
  <2>3. Cardinality(Busy') <= Cardinality(Busy) /\ Cardinality(Busy') \in Nat
    BY <1>2, <2>1, FS_Subset, FS_CardinalityType
  <2> QED BY <1>1, <1>2, <2>2, <2>3 DEF LimitInv
<1>4. ASSUME NEW j \in Jobs, Submit(j) PROVE LimitInv'
  <2>1. /\ jobStatus' = [jobStatus EXCEPT ![j] = "queued"] /\ jobStatus[j] = "absent"
        /\ \A i \in Items : JobOf[i] # j => itemStatus'[i] = itemStatus[i]
        /\ Cardinality(Counted) < MaxOutstanding
    BY <1>4 DEF Submit, Counted
  <2>2. Submitted' \subseteq Submitted \cup {j}
    BY <2>1 DEF Submitted, OutcomeInv, TypeInv, TypeOK, JobTypeOK
  <2>3. Busy' \subseteq Counted \cup {j}
    <3>1. Busy' \subseteq Busy \cup {j}
      BY <2>1 DEF Busy, Unfinished, HasStatus, ItemsOf
    <3> QED BY <3>1, BusyIsCounted
  <2>4. IsFiniteSet(Submitted')
    BY <2>2, FS_AddElement, FS_Subset DEF LimitInv
  <2>5. /\ IsFiniteSet(Counted \cup {j})
        /\ Cardinality(Counted \cup {j}) \in {Cardinality(Counted), Cardinality(Counted) + 1}
    BY <1>2, FS_AddElement
  <2>6. Cardinality(Busy') <= Cardinality(Counted \cup {j}) /\ Cardinality(Busy') \in Nat
    BY <2>3, <2>5, FS_Subset, FS_CardinalityType
  <2> QED BY <1>1, <1>2, <2>1, <2>4, <2>5, <2>6 DEF LimitInv
<1>5. ASSUME NEW j \in Jobs, jobStatus[j] = "absent", jobStatus'[j] # "absent"
      PROVE  LimitInv'
  BY <1>4, <1>5, SubmissionCreates DEF OutcomeInv
<1> QED BY <1>3, <1>5

(* However many jobs there are and whatever happens to them, no more of     *)
(* them than the limit have work left (db/jobs.ts submit).                  *)
THEOREM OutstandingIsLimited == Spec => []OutstandingWithinLimit
<1> DEFINE Inv == OutcomeInv /\ LimitInv
<1>1. Init => Inv
  <2> SUFFICES ASSUME Init PROVE Inv
    OBVIOUS
  <2>1. Submitted = {} /\ Busy = {}
    BY DEF Init, Submitted, Busy, Unfinished, HasStatus, ItemsOf
  <2>2. IsFiniteSet({}) /\ Cardinality({}) = 0
    BY FS_EmptySet
  <2> QED BY <2>1, <2>2, InitOutcome, PackageAssumption DEF LimitInv
<1>2. Inv /\ [Next]_vars => Inv'
  BY NextOutcome, StepKinds, LimitKept DEF OutcomeInv
<1>3. Inv => OutstandingWithinLimit
  BY DEF LimitInv, Busy, OutstandingWithinLimit
<1> QED BY <1>1, <1>2, <1>3, PTL DEF Spec

-----------------------------------------------------------------------------
(* Where the open attempts are.  A reconciliation aggregates its job under  *)
(* whoever holds its lease, so that a live lease no longer means a running  *)
(* job; the rest of this section is about jobs nobody reconciles.           *)

(* Running items are in running jobs, and a job under a live lease runs     *)
(* until it is cancelled: a claim finds no item running.                    *)
LeasedInv ==
  /\ \A i \in Items : itemStatus[i] = "running" => jobStatus[JobOf[i]] = "running"
  /\ \A j \in Jobs : jobStatus[j] = "absent" => leaseOwner[j] = None
  /\ \A j \in Jobs :
       leaseOwner[j] # None /\ leaseLive[j] => jobStatus[j] = "running" \/ cancelRequested[j]

(* What a step may do to the row of a job nobody reconciles: leave it,      *)
(* aggregate it, park it or submit it unleased, or claim it.                *)
LeaseMove(j) ==
  \/ /\ jobStatus'[j] = jobStatus[j] /\ leaseOwner'[j] = leaseOwner[j]
     /\ leaseLive'[j] => leaseLive[j]
     /\ cancelRequested[j] => cancelRequested'[j]
  \/ /\ \E c : jobStatus'[j] = Aggregate(j, itemStatus', c)
     /\ leaseOwner'[j] = None \/ cancelRequested'[j]
  \/ /\ jobStatus[j] \in {"absent", "queued"} /\ leaseOwner[j] = None /\ leaseOwner'[j] = None
     /\ jobStatus'[j] \in {"queued", "waiting_authorization"}
  \/ jobStatus'[j] = "running"

LEMMA LeaseMoves ==
  ASSUME Reconcilers = {}, OutcomeInv, LeasedInv, Passive \/ Active
  PROVE  \A j \in Jobs : LeaseMove(j)
<1> USE DEF OutcomeInv
<1>1. /\ jobStatus \in [Jobs -> JobStatus \cup {"absent"}] /\ cancelRequested \in [Jobs -> BOOLEAN]
      /\ leaseOwner \in [Jobs -> Processes \cup {None}] /\ leaseLive \in [Jobs -> BOOLEAN]
  BY DEF TypeInv, TypeOK, JobTypeOK
<1>2. CASE Passive
  BY <1>2 DEF Passive, LeaseMove
<1>3. ASSUME UNCHANGED <<jobStatus, leaseOwner, leaseLive, cancelRequested>>
      PROVE  \A j \in Jobs : LeaseMove(j)
  BY <1>3 DEF LeaseMove
<1>4. ASSUME NEW j \in Jobs, Submit(j) PROVE \A k \in Jobs : LeaseMove(k)
  <2>1. /\ jobStatus' = [jobStatus EXCEPT ![j] = "queued"] /\ jobStatus[j] = "absent"
        /\ UNCHANGED <<leaseOwner, leaseLive, cancelRequested>>
    BY <1>4 DEF Submit
  <2> QED BY <1>1, <2>1 DEF LeaseMove, LeasedInv
<1>5. ASSUME NEW j \in Jobs, Cancel(j) PROVE \A k \in Jobs : LeaseMove(k)
  <2>1. /\ cancelRequested' = [cancelRequested EXCEPT ![j] = TRUE]
        /\ UNCHANGED <<leaseOwner, leaseLive>>
        /\ \/ jobStatus' = jobStatus
           \/ jobStatus' = [jobStatus EXCEPT ![j] = Aggregate(j, itemStatus', TRUE)]
    BY <1>5 DEF Cancel
  <2> QED BY <1>1, <2>1 DEF LeaseMove
<1>6. ASSUME NEW j \in Jobs, UNCHANGED cancelRequested,
             \E c : jobStatus' = [jobStatus EXCEPT ![j] = Aggregate(j, itemStatus', c)],
             leaseOwner' = [leaseOwner EXCEPT ![j] = None],
             leaseLive' = [leaseLive EXCEPT ![j] = FALSE]
      PROVE  \A k \in Jobs : LeaseMove(k)
  BY <1>1, <1>6 DEF LeaseMove
<1>7. ASSUME NEW j \in Jobs, NEW includeQueued \in BOOLEAN, RecoverJob(j, includeQueued)
      PROVE  \A k \in Jobs : LeaseMove(k)
  <2>1. \/ UNCHANGED <<jobStatus, leaseOwner, leaseLive>>
        \/ /\ jobStatus' = [jobStatus EXCEPT ![j] = Aggregate(j, itemStatus', cancelRequested[j])]
           /\ leaseOwner' = [leaseOwner EXCEPT ![j] = None]
           /\ leaseLive' = [leaseLive EXCEPT ![j] = FALSE]
    BY <1>7 DEF RecoverJob, Recover
  <2>2. UNCHANGED cancelRequested
    BY <1>7 DEF RecoverJob, Recover
  <2> QED BY <1>3, <1>6, <2>1, <2>2
<1>8. ASSUME NEW w \in Workers, NEW ack \in BOOLEAN, Claim(w, ack)
      PROVE  \A k \in Jobs : LeaseMove(k)
  <2>1. /\ wjob[w] \in Jobs /\ jobStatus' = [jobStatus EXCEPT ![wjob[w]] = "running"]
        /\ leaseOwner' = [leaseOwner EXCEPT ![wjob[w]] = HostOf[w]]
        /\ leaseLive' = [leaseLive EXCEPT ![wjob[w]] = TRUE]
        /\ UNCHANGED cancelRequested
    BY <1>8 DEF Claim, TypeInv, LocalsSet
  <2> QED BY <1>1, <2>1 DEF LeaseMove
<1>9. ASSUME NEW w \in Workers, Release(w) PROVE \A k \in Jobs : LeaseMove(k)
  <2>1. wjob[w] \in Jobs /\ UNCHANGED <<cancelRequested, itemStatus>>
    BY <1>9 DEF Release, TypeInv, LocalsSet
  <2>2. \/ UNCHANGED <<jobStatus, leaseOwner, leaseLive>>
        \/ /\ jobStatus' = [jobStatus EXCEPT
                ![wjob[w]] = Aggregate(wjob[w], itemStatus, cancelRequested[wjob[w]])]
           /\ leaseOwner' = [leaseOwner EXCEPT ![wjob[w]] = None]
           /\ leaseLive' = [leaseLive EXCEPT ![wjob[w]] = FALSE]
    BY <1>9 DEF Release
  <2> QED BY <1>3, <1>6, <2>1, <2>2
<1>10. ASSUME NEW w \in Workers, PauseItem(w) PROVE \A k \in Jobs : LeaseMove(k)
  <2>1. wjob[w] \in Jobs /\ UNCHANGED cancelRequested
    BY <1>10 DEF PauseItem, TypeInv, LocalsSet
  <2>2. /\ jobStatus' = [jobStatus EXCEPT
             ![wjob[w]] = Aggregate(wjob[w], itemStatus', cancelRequested[wjob[w]])]
        /\ leaseOwner' = [leaseOwner EXCEPT ![wjob[w]] = None]
        /\ leaseLive' = [leaseLive EXCEPT ![wjob[w]] = FALSE]
    BY <1>10 DEF PauseItem
  <2> QED BY <1>6, <2>1, <2>2
<1>11. ASSUME NEW w \in Workers,
              \/ \E j \in Jobs, resume \in BOOLEAN : Launch(w, j, resume)
              \/ \E ack \in BOOLEAN : BeginItem(w, ack) \/ MarkSent(w, ack)
                                      \/ FinishAuthorized(w, ack)
              \/ BeginItemExpired(w) \/ Post(w) \/ FinishFailed(w)
       PROVE  \A k \in Jobs : LeaseMove(k)
  BY <1>3, <1>11 DEF Launch, BeginItem, MarkSent, FinishAuthorized, BeginItemExpired, Post,
                     FinishFailed
<1> QED BY <1>2, <1>4, <1>5, <1>7, <1>8, <1>9, <1>10, <1>11 DEF Active

(* An item starts only in a running job.                                    *)
LEMMA StartsInRunningJob ==
  ASSUME OutcomeInv, LeasedInv, Passive \/ Active, NEW i \in Items,
         itemStatus[i] # "running", itemStatus'[i] = "running"
  PROVE  jobStatus[JobOf[i]] = "running" /\ jobStatus' = jobStatus
<1> USE DEF OutcomeInv
<1>1. itemStatus \in [Items -> ItemStatus \cup {"absent"}]
  BY DEF TypeInv, TypeOK, ItemTypeOK
<1>2. ASSUME NEW w \in Workers, NEW ack \in BOOLEAN, BeginItem(w, ack)
      PROVE  jobStatus[JobOf[i]] = "running" /\ jobStatus' = jobStatus
  <2>1. JobOf[i] = wjob[w]
    BY <1>1, <1>2 DEF BeginItem, FirstQueued, QueuedItems, ItemsOf
  <2>2. /\ leaseOwner[wjob[w]] = HostOf[w] /\ leaseLive[wjob[w]] /\ ~cancelRequested[wjob[w]]
        /\ jobStatus' = jobStatus
    BY <1>2 DEF BeginItem, Fenced
  <2>3. wjob[w] \in Jobs /\ HostOf[w] # None
    BY <1>2, PackageAssumption DEF BeginItem, TypeInv, LocalsSet
  <2> QED BY <2>1, <2>2, <2>3 DEF LeasedInv
<1>3. itemStatus[i] = "queued" /\ ItemMove(i)
  BY ItemMoves, PackageAssumption DEF ItemMove, EndedBy, Interrupted
<1>4. ASSUME itemStatus' = itemStatus PROVE FALSE
  BY <1>4
<1>5. ~Passive
  BY <1>4 DEF Passive
<1>6. ASSUME NEW j \in Jobs, Submit(j) PROVE FALSE
  BY <1>6 DEF Submit
<1>7. ASSUME NEW j \in Jobs, Cancel(j) PROVE FALSE
  BY <1>7 DEF Cancel
<1>8. ASSUME NEW j \in Jobs, NEW includeQueued \in BOOLEAN, RecoverJob(j, includeQueued)
      PROVE  FALSE
  BY <1>8 DEF RecoverJob, Recover, RecoveredStatus
<1>9. ASSUME NEW w \in Workers, NEW ack \in BOOLEAN, FinishAuthorized(w, ack) PROVE FALSE
  <2>1. \E outcome \in {"succeeded", "skipped"} :
          itemStatus' = [itemStatus EXCEPT ![witem[w]] = outcome]
    BY <1>9 DEF FinishAuthorized, Finished
  <2> QED BY <1>1, <2>1
<1>10. ASSUME NEW w \in Workers, FinishFailed(w) PROVE FALSE
  <2>1. \E outcome \in {"inconclusive", "cancelled", "failed"} :
          itemStatus' = [itemStatus EXCEPT ![witem[w]] = outcome]
    BY <1>10 DEF FinishFailed, Finished
  <2> QED BY <1>1, <2>1
<1>11. ASSUME NEW w \in Workers, PauseItem(w) PROVE FALSE
  <2>1. \E outcome \in {"queued", "cancelled"} :
          itemStatus' = [itemStatus EXCEPT ![witem[w]] = outcome]
    BY <1>11 DEF PauseItem
  <2> QED BY <1>1, <2>1
<1>12. ASSUME NEW w \in Workers, BeginItemExpired(w) PROVE FALSE
  BY <1>12 DEF BeginItemExpired
<1>13. ASSUME NEW w \in Workers,
              \/ \E j \in Jobs, resume \in BOOLEAN : Launch(w, j, resume)
              \/ \E ack \in BOOLEAN : Claim(w, ack) \/ MarkSent(w, ack)
              \/ Release(w) \/ Post(w)
       PROVE  FALSE
  BY <1>4, <1>13 DEF Launch, Claim, MarkSent, Release, Post
<1>14. ASSUME NEW r \in Reconcilers, RecordReconciliation(r) PROVE FALSE
  <2>1. \E outcome \in {"succeeded", itemStatus[ritem[r]]} :
          itemStatus' = [itemStatus EXCEPT ![ritem[r]] = outcome]
    BY <1>14 DEF RecordReconciliation
  <2> QED BY <1>1, <2>1
<1> QED
  BY <1>2, <1>5, <1>6, <1>7, <1>8, <1>9, <1>10, <1>11, <1>12, <1>13, <1>14 DEF Active

LEMMA LeasedKept ==
  ASSUME Reconcilers = {}, OutcomeInv, LeasedInv, Passive \/ Active
  PROVE  LeasedInv'
<1>1. ASSUME NEW i \in Items, itemStatus'[i] = "running"
      PROVE  jobStatus'[JobOf[i]] = "running"
  <2>1. JobOf[i] \in Jobs /\ i \in ItemsOf(JobOf[i])
    BY PackageAssumption DEF ItemsOf
  <2>2. CASE itemStatus[i] # "running"
    BY <1>1, <2>2, StartsInRunningJob
  <2>3. CASE itemStatus[i] = "running"
    <3>1. jobStatus[JobOf[i]] = "running"
      BY <2>3 DEF LeasedInv
    <3>2. HasStatus(JobOf[i], itemStatus', "running")
      BY <1>1, <2>1 DEF HasStatus
    <3>3. \A c : Aggregate(JobOf[i], itemStatus', c) = "running"
      BY <3>2 DEF Aggregate
    <3> QED BY <2>1, <3>1, <3>3, LeaseMoves DEF LeaseMove
  <2> QED BY <2>2, <2>3
<1>2. ASSUME NEW j \in Jobs
      PROVE  /\ jobStatus'[j] = "absent" => leaseOwner'[j] = None
             /\ leaseOwner'[j] # None /\ leaseLive'[j] =>
                  jobStatus'[j] = "running" \/ cancelRequested'[j]
  <2>1. LeaseMove(j)
    BY LeaseMoves
  <2>2. \A c : Aggregate(j, itemStatus', c) # "absent"
    BY AggregateType DEF JobStatus
  <2> QED BY <2>1, <2>2 DEF LeaseMove, LeasedInv
<1> QED BY <1>1, <1>2 DEF LeasedInv

(* The attempts of an item stay as it does, while its job is not claimed;   *)
(* one of the current version opens as it starts; and that one is closed    *)
(* when it ends, however it ends.                                           *)
AttemptMove(i) ==
  \/ /\ attempts'[i] = attempts[i]
     /\ itemStatus'[i] = "running" <=> itemStatus[i] = "running"
     /\ itemStatus[i] = "running" => leaseVersion'[JobOf[i]] = leaseVersion[JobOf[i]]
  \/ /\ itemStatus[i] # "running" /\ itemStatus'[i] = "running"
     /\ leaseVersion' = leaseVersion /\ leaseVersion[JobOf[i]] \in Version
     /\ attempts'[i] = [attempts[i] EXCEPT ![leaseVersion[JobOf[i]]] = "open"]
  \/ /\ itemStatus[i] = "running" /\ itemStatus'[i] # "running"
     /\ \A v \in Version :
          attempts'[i][v] = "open" => attempts[i][v] = "open" /\ v # leaseVersion[JobOf[i]]

LEMMA AttemptMoves ==
  ASSUME OutcomeInv, LeasedInv, Passive \/ Active
  PROVE  \A i \in Items : AttemptMove(i)
<1> USE DEF OutcomeInv
<1> DEFINE Moved == \A i \in Items : AttemptMove(i)
<1>1. /\ itemStatus \in [Items -> ItemStatus \cup {"absent"}]
      /\ attempts \in [Items -> [Version -> ItemOutcome \cup {"none", "open"}]]
  BY DEF TypeInv, TypeOK, ItemTypeOK
<1>2. ASSUME UNCHANGED <<attempts, leaseVersion>>,
             \A i \in Items : itemStatus'[i] = "running" <=> itemStatus[i] = "running"
      PROVE  Moved
  BY <1>2 DEF AttemptMove
<1>3. ASSUME NEW w \in Workers, Fenced(w), pc[w] \in ItemInHand, itemStatus[witem[w]] = "running",
             NEW status, status # "running", NEW outcome, outcome # "open",
             itemStatus' = [itemStatus EXCEPT ![witem[w]] = status],
             attempts' = [attempts EXCEPT ![witem[w]][wversion[w]] = outcome],
             leaseVersion' = leaseVersion
      PROVE  Moved
  <2>1. /\ witem[w] \in Items /\ wversion[w] \in Version
        /\ wversion[w] = leaseVersion[JobOf[witem[w]]]
    BY <1>3 DEF TypeInv, LocalsSet, ItemInHand, AtItem, BoundInv, Fenced
  <2>2. AttemptMove(witem[w])
    BY <1>1, <1>3, <2>1 DEF AttemptMove
  <2>3. ASSUME NEW i \in Items, i # witem[w] PROVE AttemptMove(i)
    BY <1>1, <1>3, <2>3 DEF AttemptMove
  <2> QED BY <2>2, <2>3
<1>4. CASE Passive
  BY <1>2, <1>4 DEF Passive
<1>5. ASSUME NEW j \in Jobs, Submit(j) PROVE Moved
  <2>1. \A i \in Items : itemStatus'[i] = itemStatus[i] \/
                           (itemStatus[i] = "absent" /\ itemStatus'[i] = "queued")
    BY <1>5 DEF Submit, BoundInv
  <2>2. UNCHANGED <<attempts, leaseVersion>>
    BY <1>5 DEF Submit
  <2> QED BY <1>2, <2>1, <2>2
<1>6. ASSUME NEW j \in Jobs, Cancel(j) PROVE Moved
  <2>1. \A i \in Items : itemStatus'[i] = "running" <=> itemStatus[i] = "running"
    BY <1>6 DEF Cancel
  <2>2. UNCHANGED <<attempts, leaseVersion>>
    BY <1>6 DEF Cancel
  <2> QED BY <1>2, <2>1, <2>2
<1>7. ASSUME NEW j \in Jobs, NEW includeQueued \in BOOLEAN,
             NEW batch \in SUBSET RecoverCandidates(j, itemStatus),
             Recover(j, includeQueued, batch), NEW i \in Items
      PROVE  AttemptMove(i)
  <2>1. /\ itemStatus'[i] = IF i \in batch THEN RecoveredStatus(i) ELSE itemStatus[i]
        /\ leaseVersion' = leaseVersion
    BY <1>7 DEF Recover
  <2>2. attempts'[i] = IF i \in batch /\ itemStatus[i] = "running"
                       THEN [v \in Version |-> IF attempts[i][v] = "open" THEN ClosedAttempt(i)
                                               ELSE attempts[i][v]]
                       ELSE attempts[i]
    BY <1>7 DEF Recover
  <2>3. ClosedAttempt(i) # "open" /\ RecoveredStatus(i) # "running"
    BY DEF ClosedAttempt, RecoveredStatus
  <2>4. CASE i \in batch /\ itemStatus[i] = "running"
    BY <2>1, <2>2, <2>3, <2>4 DEF AttemptMove
  <2>5. CASE ~(i \in batch /\ itemStatus[i] = "running")
    BY <2>1, <2>2, <2>3, <2>5 DEF AttemptMove
  <2> QED BY <2>4, <2>5
<1>8. ASSUME NEW w \in Workers, NEW ack \in BOOLEAN, Claim(w, ack) PROVE Moved
  <2>1. /\ wjob[w] \in Jobs /\ jobStatus[wjob[w]] # "running"
        /\ leaseVersion' = [leaseVersion EXCEPT ![wjob[w]] = @ + 1]
        /\ UNCHANGED <<attempts, itemStatus>>
    BY <1>8 DEF Claim, Claimable, TypeInv, LocalsSet
  <2>2. \A i \in Items : itemStatus[i] = "running" => JobOf[i] # wjob[w] /\ JobOf[i] \in Jobs
    BY <2>1, PackageAssumption DEF LeasedInv
  <2>3. \A i \in Items : itemStatus[i] = "running" =>
          leaseVersion'[JobOf[i]] = leaseVersion[JobOf[i]]
    BY <2>1, <2>2 DEF TypeInv, TypeOK, JobTypeOK
  <2> QED BY <2>1, <2>3 DEF AttemptMove
<1>9. ASSUME NEW w \in Workers, NEW ack \in BOOLEAN, BeginItem(w, ack) PROVE Moved
  <2>1. PICK i \in Items :
          /\ itemStatus[i] = "queued" /\ JobOf[i] = wjob[w]
          /\ itemStatus' = [itemStatus EXCEPT ![i] = "running"]
          /\ attempts' = [attempts EXCEPT ![i][wversion[w]] = "open"]
    BY <1>9 DEF BeginItem, FirstQueued, QueuedItems, ItemsOf
  <2>2. /\ wversion[w] = leaseVersion[JobOf[i]] /\ wversion[w] \in Version
        /\ leaseVersion' = leaseVersion
    BY <1>9, <2>1 DEF BeginItem, Fenced, TypeInv, LocalsSet
  <2>3. AttemptMove(i)
    BY <1>1, <2>1, <2>2 DEF AttemptMove
  <2>4. ASSUME NEW k \in Items, k # i PROVE AttemptMove(k)
    BY <1>1, <2>1, <2>2, <2>4 DEF AttemptMove
  <2> QED BY <2>3, <2>4
<1>10. ASSUME NEW w \in Workers, NEW ack \in BOOLEAN, FinishAuthorized(w, ack) PROVE Moved
  <2>1. /\ Fenced(w) /\ pc[w] \in ItemInHand /\ itemStatus[witem[w]] = "running"
        /\ leaseVersion' = leaseVersion
    BY <1>10 DEF FinishAuthorized, ItemInHand, AtItem
  <2>2. PICK outcome \in {"succeeded", "skipped"} : Finished(witem[w], wversion[w], outcome)
    BY <1>10 DEF FinishAuthorized
  <2> QED BY <1>3, <2>1, <2>2 DEF Finished
<1>11. ASSUME NEW w \in Workers, FinishFailed(w) PROVE Moved
  <2>1. PICK outcome \in {"inconclusive", "cancelled", "failed"} :
          Finished(witem[w], wversion[w], outcome)
    BY <1>11 DEF FinishFailed
  <2>2. /\ Fenced(w) /\ pc[w] \in ItemInHand /\ itemStatus[witem[w]] = "running"
        /\ leaseVersion' = leaseVersion
    BY <1>11 DEF FinishFailed, ItemInHand
  <2> QED BY <1>3, <2>1, <2>2 DEF Finished
<1>12. ASSUME NEW w \in Workers, PauseItem(w) PROVE Moved
  <2>1. /\ Fenced(w) /\ pc[w] \in ItemInHand /\ itemStatus[witem[w]] = "running"
        /\ leaseVersion' = leaseVersion
        /\ itemStatus' = [itemStatus EXCEPT
             ![witem[w]] = IF cancelRequested[wjob[w]] THEN "cancelled" ELSE "queued"]
        /\ attempts' = [attempts EXCEPT ![witem[w]][wversion[w]] = PausedAttempt(@)]
    BY <1>12 DEF PauseItem, ItemInHand
  <2>2. PausedAttempt(attempts[witem[w]][wversion[w]]) # "open"
    BY DEF PausedAttempt
  <2>3. witem[w] \in Items /\ wversion[w] \in Version
    BY <2>1 DEF TypeInv, LocalsSet, ItemInHand, AtItem
  <2>4. attempts' = [attempts EXCEPT
          ![witem[w]][wversion[w]] = PausedAttempt(attempts[witem[w]][wversion[w]])]
    BY <2>1
  <2> QED BY <1>3, <2>1, <2>2, <2>4
<1>13. ASSUME NEW w \in Workers, BeginItemExpired(w) PROVE Moved
  <2>1. \A i \in Items : itemStatus'[i] = "running" <=> itemStatus[i] = "running"
    BY <1>13 DEF BeginItemExpired, QueuedItems
  <2>2. UNCHANGED <<attempts, leaseVersion>>
    BY <1>13 DEF BeginItemExpired
  <2> QED BY <1>2, <2>1, <2>2
<1>14. ASSUME NEW w \in Workers,
              \/ \E j \in Jobs, resume \in BOOLEAN : Launch(w, j, resume)
              \/ \E ack \in BOOLEAN : MarkSent(w, ack)
              \/ Release(w) \/ Post(w)
       PROVE  Moved
  <2>1. UNCHANGED <<attempts, leaseVersion, itemStatus>>
    BY <1>14 DEF Launch, MarkSent, Release, Post
  <2> QED BY <1>2, <2>1
<1>15. ASSUME NEW r \in Reconcilers, RecordReconciliation(r) PROVE Moved
  <2>1. /\ \/ itemStatus' = itemStatus
           \/ itemStatus' = [itemStatus EXCEPT ![ritem[r]] = "succeeded"]
        /\ itemStatus[ritem[r]] = "inconclusive" /\ UNCHANGED <<attempts, leaseVersion>>
    <3>1. ritem[r] \in Items
      BY <1>15 DEF RecordReconciliation, TypeInv, RitemSet
    <3> QED BY <1>1, <1>15, <3>1 DEF RecordReconciliation, Reconcilable
  <2> QED BY <1>1, <1>2, <2>1
<1> QED
  BY <1>4, <1>5, <1>6, <1>7, <1>8, <1>9, <1>10, <1>11, <1>12, <1>13, <1>14, <1>15
  DEF Active, RecoverJob

LEMMA AttemptsKept ==
  ASSUME OutcomeInv, LeasedInv, RunningAttemptIsCurrent, Passive \/ Active
  PROVE  RunningAttemptIsCurrent'
<1> SUFFICES ASSUME NEW i \in Items
             PROVE  {v \in Version : attempts'[i][v] = "open"} =
                      IF itemStatus'[i] = "running" THEN {leaseVersion'[JobOf[i]]} ELSE {}
  BY DEF RunningAttemptIsCurrent
<1> DEFINE Open == {v \in Version : attempts[i][v] = "open"}
<1>1. Open = IF itemStatus[i] = "running" THEN {leaseVersion[JobOf[i]]} ELSE {}
  BY DEF RunningAttemptIsCurrent
<1>2. attempts[i] \in [Version -> ItemOutcome \cup {"none", "open"}]
  BY DEF OutcomeInv, TypeInv, TypeOK, ItemTypeOK
<1>3. AttemptMove(i)
  BY AttemptMoves
<1> QED BY <1>1, <1>2, <1>3 DEF AttemptMove

(* While nobody reconciles the job, only a running item has an open         *)
(* attempt, and it is of the current lease: whoever takes a job over finds  *)
(* nothing of it running under an older version (db/jobs.ts claim, recover, *)
(* beginItem, finishItem, pauseItemForAuthorization).                       *)
THEOREM RunningAttemptsAreCurrent ==
  ASSUME Reconcilers = {}
  PROVE  Spec => []RunningAttemptIsCurrent
<1> DEFINE Inv == OutcomeInv /\ LeasedInv /\ RunningAttemptIsCurrent
<1>1. Init => Inv
  BY InitOutcome DEF Init, LeasedInv, RunningAttemptIsCurrent
<1>2. Inv /\ [Next]_vars => Inv'
  BY NextOutcome, StepKinds, LeasedKept, AttemptsKept DEF OutcomeInv
<1> QED BY <1>1, <1>2, PTL DEF Spec
=============================================================================
