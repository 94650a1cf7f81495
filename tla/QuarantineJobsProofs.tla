----------------------- MODULE QuarantineJobsProofs -----------------------
(***************************************************************************)
(* Proofs about QuarantineJobs.  Types come first (Typed).  The invariant   *)
(* IInv has a part for what sent_at tells of an item (SentInv), for jobs    *)
(* and their items (JobInv), for the lease of a worker with an item in      *)
(* hand (LeaseInv) and for the readings of the provider (ReadingInv).  The  *)
(* actions that end in aggregate() are used through AggregateEffect, and    *)
(* ItemMoves lists what any step may do to an item: the last two parts of   *)
(* the invariant and CancelStopsUnsentWork follow from that list.           *)
(***************************************************************************)
EXTENDS QuarantineJobs, TLAPS

JobRow == [status : JobStatus \cup {"absent"}, wants : BOOLEAN, cancel : BOOLEAN,
           lease : {"none", "live", "expired"}, attempts : 0..MaxAttempts, expired : BOOLEAN]
ItemRow == [status : Outcomes \cup {"queued", "running", "absent"}, sent : BOOLEAN,
            recon : Reconciliations, prestate : Reading \cup {None},
            observed : Reading \cup {None}]
WriteRow == [state : {"none", "inflight", "landed"}, time : Nat]
WorkerRow == [pc : HeldPc \cup {"idle", "authorizing", "resuming", "loop", "failing", "releasing"},
              item : Items \cup {None}, sent : BOOLEAN, seen : Reading \cup {None},
              stop : {"none", "auth", "stop"}]
RequestRow == [pc : {"idle", "read", "stale"}, item : Items \cup {None}, seen : Reading \cup {None}]

Holds(j) == worker[j].item \in ItemsOf(j)
AtRest(j) == job[j].status \notin {"running", "queued"}

(* What sent_at tells of an item, and the worker's own copy of it. *)
SentInv ==
  /\ \A i \in Items : item[i].status \in {"absent", "queued"} => ~item[i].sent
  /\ \A i \in Items : item[i].status = "inconclusive" => item[i].sent
  /\ \A i \in Items : write[i].state # "none" => item[i].sent
  /\ \A j \in Jobs : worker[j].sent => Holds(j) /\ item[worker[j].item].sent
  /\ \A j \in Jobs : worker[j].pc \in {"begun", "confirmed", "matched", "unchanged"} => ~worker[j].sent
  /\ \A j \in Jobs : worker[j].pc \in {"marked", "posted", "verified"} => worker[j].sent
  /\ \A j \in Jobs : (Holds(j) /\ write[worker[j].item].state # "none") => worker[j].sent
  /\ \A j \in Jobs : worker[j].pc = "marked" => write[worker[j].item].state = "none"
  /\ \A i \in Items :
       write[i].state # "none" => item[i].status \in {"running", "succeeded", "inconclusive"}

(* How the status of a job follows those of its items. *)
JobInv ==
  /\ \A i \in Items : item[i].status = "running" => job[JobOf[i]].status = "running"
  /\ \A i \in Items : job[JobOf[i]].status = "queued" => item[i].status = "queued"
  /\ \A i \in Items : job[JobOf[i]].status = "absent" => item[i].status = "absent"
  /\ \A j \in Jobs : job[j].status = "absent" => ~job[j].cancel /\ job[j].lease = "none"
  /\ \A j \in Jobs : AtRest(j) =>
       (job[j].status = "inconclusive" <=> \E i \in ItemsOf(j) : AwaitsReconciliation(i))

(* While a worker handles an item, nothing takes the job from it. *)
LeaseInv ==
  /\ phase = "starting" => \A j \in Jobs : worker[j].pc = "idle"
  /\ \A j \in Jobs : worker[j].pc \in HeldPc =>
       job[j].lease = "live" /\ item[worker[j].item].status = "running"

(* A reading taken after the prestate: not older, and the same if of its time. *)
Since(i, reading) ==
  /\ reading \in Reading /\ item[i].prestate \in Reading
  /\ item[i].prestate.time <= reading.time
  /\ reading.time = item[i].prestate.time => reading = item[i].prestate
  /\ reading.time <= provider[TargetOf[i]].time
Toggles(i) == item[i].prestate.on # job[JobOf[i]].wants

(* What the readings of the provider tell of its past. *)
ReadingInv ==
  /\ \A i \in Items : item[i].status # "absent" => Since(i, provider[TargetOf[i]])
  /\ \A i \in Items : item[i].sent => Toggles(i)
  /\ \A j \in Jobs : worker[j].pc \in {"confirmed", "matched"} => Toggles(worker[j].item)
  /\ \A j \in Jobs : worker[j].pc = "verified" =>
       /\ Since(worker[j].item, worker[j].seen)
       /\ worker[j].seen.on = job[j].wants
  /\ \A r \in Reconcilers : rec[r].pc = "read" =>
       rec[r].item \in Items /\ item[rec[r].item].sent /\ Since(rec[r].item, rec[r].seen)
  /\ \A i \in Items : write[i].state = "landed" => write[i].time > item[i].prestate.time
  /\ \A i \in Items : item[i].status \notin {"inconclusive", "succeeded"} => item[i].recon = "not_required"
  /\ \A i \in Items : item[i].recon = "verified_not_applied" =>
       item[i].observed \in Reading /\ item[i].observed.time <= provider[TargetOf[i]].time

IInv ==
  /\ SentInv /\ JobInv /\ LeaseInv /\ ReadingInv
  /\ OneUnsettledWritePerTarget /\ EvidenceIsSound
-----------------------------------------------------------------------------
(* What aggregate() does, without its definition: only queued items of a    *)
(* cancelled job change, and the status follows the items.                  *)
AggregateEffect(j, row, it) ==
  /\ item' \in [Items -> ItemRow]
  /\ \A i \in Items : item'[i] # it[i] =>
       /\ JobOf[i] = j /\ row.cancel /\ it[i].status = "queued"
       /\ item'[i] = [it[i] EXCEPT !.status = "cancelled"]
  /\ \A i \in ItemsOf(j) : row.cancel => item'[i].status # "queued"
  /\ job' \in [Jobs -> JobRow]
  /\ \A k \in Jobs \ {j} : job'[k] = job[k]
  /\ \E status \in JobStatus \ {"queued"} :
       /\ job'[j] = [row EXCEPT !.status = status]
       /\ status = "running" <=> \E i \in ItemsOf(j) : item'[i].status = "running"
       /\ status = "inconclusive" => \E i \in ItemsOf(j) :
            item'[i].status = "inconclusive" /\ item'[i].recon = "required"
       /\ (\E i \in ItemsOf(j) : item'[i].status = "inconclusive" /\ item'[i].recon = "required")
            => status \in {"running", "inconclusive"}

LEMMA AggregateHasEffect ==
  ASSUME job \in [Jobs -> JobRow],
         NEW j \in Jobs, NEW row \in JobRow, NEW it \in [Items -> ItemRow],
         Aggregated(j, row, it)
  PROVE  AggregateEffect(j, row, it)
<1> DEFINE done == [i \in Items |-> IF i \in ItemsOf(j) /\ row.cancel /\ it[i].status = "queued"
                                    THEN [it[i] EXCEPT !.status = "cancelled"] ELSE it[i]]
           status == StatusOf(j, done)
<1>1. item' = done /\ job' = [job EXCEPT ![j] = [row EXCEPT !.status = status]]
  BY DEF Aggregated
<1>2. done \in [Items -> ItemRow]
  BY DEF ItemRow, Outcomes
<1>3. status \in JobStatus \ {"queued"}
  BY DEF StatusOf, JobStatus
<1>4. \A i \in Items : done[i] # it[i] =>
        /\ JobOf[i] = j /\ row.cancel /\ it[i].status = "queued"
        /\ done[i] = [it[i] EXCEPT !.status = "cancelled"]
  BY DEF ItemsOf
<1>5. \A i \in ItemsOf(j) : row.cancel => done[i].status # "queued"
  BY DEF ItemsOf, ItemRow
<1> HIDE DEF done
<1>6. status = "running" <=> \E i \in ItemsOf(j) : done[i].status = "running"
  BY DEF StatusOf, Has
<1>7. /\ status = "inconclusive" => \E i \in ItemsOf(j) :
           done[i].status = "inconclusive" /\ done[i].recon = "required"
      /\ (\E i \in ItemsOf(j) : done[i].status = "inconclusive" /\ done[i].recon = "required")
           => status \in {"running", "inconclusive"}
  BY DEF StatusOf, Has
<1> HIDE DEF status
<1>8. job' \in [Jobs -> JobRow] /\ \A k \in Jobs \ {j} : job'[k] = job[k]
  BY <1>1, <1>3 DEF JobRow
<1>9. job'[j] = [row EXCEPT !.status = status]
  BY <1>1
<1> QED BY <1>1, <1>2, <1>3, <1>4, <1>5, <1>6, <1>7, <1>8, <1>9 DEF AggregateEffect

-----------------------------------------------------------------------------
(* Type correctness *)

(* QuarantineTypeOK by rows; and a reconciliation under way has its item.   *)
Typed ==
  /\ job \in [Jobs -> JobRow]
  /\ item \in [Items -> ItemRow]
  /\ provider \in [Targets -> Reading]
  /\ write \in [Items -> WriteRow]
  /\ lock \in [Targets -> Jobs \cup Reconcilers \cup {None}]
  /\ worker \in [Jobs -> WorkerRow]
  /\ \A j \in Jobs : worker[j].pc \in HeldPc \cup {"failing"} <=> Holds(j)
  /\ rec \in [Reconcilers -> RequestRow]
  /\ \A r \in Reconcilers : rec[r].pc # "idle" => rec[r].item \in Items
  /\ phase \in {"starting", "up", "draining"} /\ revoking \in BOOLEAN
  /\ faults \in 0..MaxFaults

LEMMA TypedIsTypeOK == Typed => QuarantineTypeOK
BY DEF Typed, QuarantineTypeOK, JobRow, ItemRow, WriteRow, WorkerRow, RequestRow, Holds

(* The updates of single rows that the actions write.                       *)
LEMMA JobUpdates ==
  ASSUME NEW row \in JobRow, NEW wants \in BOOLEAN
  PROVE  /\ [row EXCEPT !.status = "queued", !.wants = wants] \in JobRow
         /\ [row EXCEPT !.status = "running"] \in JobRow
         /\ [row EXCEPT !.lease = "none"] \in JobRow
         /\ [row EXCEPT !.cancel = TRUE] \in JobRow
BY DEF JobRow, JobStatus

LEMMA ItemUpdates ==
  ASSUME NEW row \in ItemRow, NEW reading \in Reading \cup {None},
         NEW status \in Outcomes \cup {"queued", "running"}, NEW recon \in Reconciliations
  PROVE  /\ [row EXCEPT !.status = status] \in ItemRow
         /\ [row EXCEPT !.sent = TRUE] \in ItemRow
         /\ [row EXCEPT !.status = status, !.prestate = reading] \in ItemRow
         /\ [row EXCEPT !.status = status, !.observed = reading] \in ItemRow
         /\ [row EXCEPT !.status = status, !.recon = recon] \in ItemRow
         /\ [row EXCEPT !.recon = recon, !.observed = reading, !.status = status] \in ItemRow
BY DEF ItemRow

(* What a step does not write of a worker's locals keeps its value.          *)
LEMMA SameRow ==
  ASSUME NEW row \in WorkerRow, NEW label
  PROVE  [row EXCEPT !.pc = label] = [row EXCEPT !.pc = label, !.sent = row.sent, !.seen = row.seen]
BY DEF WorkerRow

LEMMA IdleRow ==
  /\ Idle \in WorkerRow /\ Idle.pc = "idle" /\ Idle.item = None
  /\ \A label \in {"loop", "releasing"}, why \in {"none", "auth", "stop"} :
       /\ [Idle EXCEPT !.pc = label, !.stop = why] \in WorkerRow
       /\ [Idle EXCEPT !.pc = label, !.stop = why].pc = label
       /\ [Idle EXCEPT !.pc = label, !.stop = why].item = None
BY DEF Idle, WorkerRow

(* A worker's new locals must name an item exactly when it has one in hand.  *)
LEMMA WorkerMoves ==
  ASSUME Typed, NEW j \in Jobs, NEW row \in WorkerRow,
         worker' = [worker EXCEPT ![j] = row],
         row.pc \in HeldPc \cup {"failing"} <=> row.item \in ItemsOf(j)
  PROVE  /\ worker' \in [Jobs -> WorkerRow]
         /\ \A k \in Jobs : worker'[k].pc \in HeldPc \cup {"failing"} <=> Holds(k)'
<1>1. worker \in [Jobs -> WorkerRow]
  BY DEF Typed
<1>2. worker' \in [Jobs -> WorkerRow]
  BY <1>1
<1>3. ASSUME NEW k \in Jobs PROVE worker'[k].pc \in HeldPc \cup {"failing"} <=> Holds(k)'
  <2>1. CASE k = j
    <3>1. worker'[j] = row
      BY <1>1
    <3> QED BY <2>1, <3>1 DEF Holds, ItemsOf
  <2>2. CASE k # j
    <3>1. worker'[k] = worker[k]
      BY <1>1, <2>2
    <3>2. worker[k].pc \in HeldPc \cup {"failing"} <=> Holds(k)
      BY DEF Typed
    <3> QED BY <3>1, <3>2 DEF Holds, ItemsOf
  <2> QED BY <2>1, <2>2
<1> QED BY <1>2, <1>3

LEMMA FaultsCounted ==
  ASSUME faults \in 0..MaxFaults, NEW kind, NEW ack \in BOOLEAN,
         Fault(kind) \/ Ack(ack) \/ faults' = faults
  PROVE  faults' \in 0..MaxFaults
BY QuarantineAssumption DEF Fault, Ack

(* The row a worker writes is that of an item of its job.                   *)
LEMMA HeldItem ==
  ASSUME Typed, NEW j \in Jobs, worker[j].pc \in HeldPc \cup {"failing"}
  PROVE  /\ worker[j].item \in Items /\ JobOf[worker[j].item] = j
         /\ TargetAt(j) \in Targets
         /\ provider[TargetAt(j)] \in Reading
         /\ item[worker[j].item] \in ItemRow /\ write[worker[j].item] \in WriteRow
<1>1. worker[j].item \in Items /\ JobOf[worker[j].item] = j
  BY DEF Typed, Holds, ItemsOf
<1> QED BY <1>1, QuarantineAssumption DEF Typed, TargetAt

Unleased(j) == [job[j] EXCEPT !.lease = "none"]
RecoveredItems(j) ==
  [i \in Items |-> IF i \in ItemsOf(j) THEN Recovered(item[i], job[j].cancel) ELSE item[i]]
PausedItems(j) == [item EXCEPT ![worker[j].item].status = "queued"]
Verdicts(r) == Verdict(rec[r].item, rec[r].seen)
JudgedStatus(r) == IF Verdicts(r) = "verified_applied" THEN "succeeded" ELSE item[rec[r].item].status
JudgedItems(r) ==
  [item EXCEPT ![rec[r].item] =
     [item[rec[r].item] EXCEPT !.recon = Verdicts(r), !.observed = rec[r].seen, !.status = JudgedStatus(r)]]

LEMMA CancelEffect ==
  ASSUME Typed, NEW j \in Jobs, Cancel(j)
  PROVE  AggregateEffect(j, [job[j] EXCEPT !.cancel = TRUE], item)
BY JobUpdates, AggregateHasEffect DEF Cancel, Typed

LEMMA ReleaseEffect ==
  ASSUME Typed, NEW j \in Jobs, Release(j)
  PROVE  \/ UNCHANGED <<job, item>>
         \/ job' = [job EXCEPT ![j] = Unleased(j)] /\ UNCHANGED item
         \/ AggregateEffect(j, Unleased(j), item)
<1>1. Unleased(j) \in JobRow
  BY JobUpdates DEF Typed, Unleased
<1>2. \/ UNCHANGED <<job, item>>
      \/ job' = [job EXCEPT ![j] = Unleased(j)] /\ UNCHANGED item
      \/ Aggregated(j, Unleased(j), item)
  BY DEF Release, Unleased
<1> QED BY <1>1, <1>2, AggregateHasEffect DEF Typed

LEMMA RecoverEffect ==
  ASSUME Typed, NEW j \in Jobs, Recover(j)
  PROVE  /\ AggregateEffect(j, Unleased(j), RecoveredItems(j))
         /\ RecoveredItems(j) \in [Items -> ItemRow]
<1>1. Unleased(j) \in JobRow
  BY JobUpdates DEF Typed, Unleased
<1>2. ASSUME NEW i \in Items PROVE Recovered(item[i], job[j].cancel) \in ItemRow
  <2>1. item[i] \in ItemRow
    BY DEF Typed
  <2> QED BY <2>1 DEF Recovered, ItemRow, Outcomes, Reconciliations
<1>3. RecoveredItems(j) \in [Items -> ItemRow]
  BY <1>2 DEF RecoveredItems, Typed
<1>4. Aggregated(j, Unleased(j), RecoveredItems(j))
  BY DEF Recover, Unleased, RecoveredItems
<1> QED BY <1>1, <1>3, <1>4, AggregateHasEffect DEF Typed

LEMMA PauseEffect ==
  ASSUME Typed, NEW j \in Jobs, PauseItem(j)
  PROVE  /\ AggregateEffect(j, Unleased(j), PausedItems(j))
         /\ PausedItems(j) \in [Items -> ItemRow]
<1>1. Unleased(j) \in JobRow
  BY JobUpdates DEF Typed, Unleased
<1>2. PausedItems(j) \in [Items -> ItemRow]
  <2> DEFINE i == worker[j].item
  <2>1. i \in Items /\ item[i] \in ItemRow
    BY HeldItem DEF PauseItem
  <2>2. [item[i] EXCEPT !.status = "queued"] \in ItemRow
    BY <2>1 DEF ItemRow
  <2>3. PausedItems(j) = [item EXCEPT ![i] = [item[i] EXCEPT !.status = "queued"]]
    BY DEF PausedItems
  <2>4. item \in [Items -> ItemRow]
    BY DEF Typed
  <2> QED BY ONLY <2>2, <2>3, <2>4
<1>3. Aggregated(j, Unleased(j), PausedItems(j))
  BY DEF PauseItem, Unleased, PausedItems
<1> QED BY <1>1, <1>2, <1>3, AggregateHasEffect DEF Typed

LEMMA RecordEffect ==
  ASSUME Typed, NEW r \in Reconcilers, RecordReconciliation(r)
  PROVE  /\ rec[r].item \in Items /\ JobOf[rec[r].item] \in Jobs
         /\ JudgedItems(r) \in [Items -> ItemRow]
         /\ AggregateEffect(JobOf[rec[r].item], job[JobOf[rec[r].item]], JudgedItems(r))
<1> DEFINE i == rec[r].item
<1>1. rec[r] \in RequestRow
  BY DEF Typed
<1>2. rec[r].seen \in Reading \cup {None}
  BY <1>1 DEF RequestRow
<1>3. Verdicts(r) \in Reconciliations
  BY DEF Verdicts, Verdict, Reconciliations
<1>4. i \in Items /\ item[i] \in ItemRow /\ JobOf[i] \in Jobs /\ job[JobOf[i]] \in JobRow
  BY QuarantineAssumption DEF RecordReconciliation, Typed
<1>5. JudgedStatus(r) \in Outcomes
  BY DEF RecordReconciliation, AwaitsReconciliation, JudgedStatus, Outcomes
<1>6. JudgedItems(r) \in [Items -> ItemRow]
  BY <1>2, <1>3, <1>4, <1>5, ItemUpdates DEF JudgedItems, Typed
<1>7. Aggregated(JobOf[i], job[JobOf[i]], JudgedItems(r))
  <2>1. JudgedItems(r) =
          [item EXCEPT ![i].recon = Verdicts(r), ![i].observed = rec[r].seen,
                       ![i].status = IF Verdicts(r) = "verified_applied" THEN "succeeded" ELSE @]
    BY <1>4 DEF JudgedItems, JudgedStatus, Typed
  <2> QED BY <2>1 DEF RecordReconciliation, Verdicts
<1> QED BY <1>4, <1>6, <1>7, AggregateHasEffect DEF Typed

(* Requests and the process: no item changes hands, but all may be dropped. *)
LEMMA RequestsKeepTypes ==
  ASSUME Typed, NEW j \in Jobs,
         \/ \E wants \in Wants[j] : Submit(j, wants)
         \/ Cancel(j) \/ AbortCancelled(j) \/ JobExpires(j) \/ LeaseExpires(j)
         \/ Recover(j) \/ RecoverQueued(j)
  PROVE  Typed'
<1> USE DEF Typed
<1>1. ASSUME NEW wants \in Wants[j], Submit(j, wants) PROVE Typed'
  <2>1. wants \in BOOLEAN
    BY QuarantineAssumption
  <2>2. job' \in [Jobs -> JobRow]
    <3>1. job' = [job EXCEPT ![j] = [job[j] EXCEPT !.status = "queued", !.wants = wants]]
      BY <1>1 DEF Submit
    <3>2. [job[j] EXCEPT !.status = "queued", !.wants = wants] \in JobRow
      BY <2>1, JobUpdates
    <3> QED BY <3>1, <3>2
  <2>3. item' \in [Items -> ItemRow]
    <3>1. ASSUME NEW i \in Items
          PROVE  [item[i] EXCEPT !.status = "queued", !.prestate = provider[TargetOf[i]]] \in ItemRow
      <4>1. provider[TargetOf[i]] \in Reading /\ item[i] \in ItemRow /\ "required" \in Reconciliations
        BY QuarantineAssumption DEF Reconciliations
      <4> QED BY <4>1, ItemUpdates
    <3> QED BY <1>1, <3>1 DEF Submit
  <2> QED BY <1>1, <2>2, <2>3 DEF Submit, server, Holds
<1>2. CASE Cancel(j)
  BY <1>2, CancelEffect, FaultsCounted
     DEF Cancel, server, AggregateEffect, Holds
<1>3. CASE AbortCancelled(j)
  <2>1. worker' \in [Jobs -> WorkerRow] /\ \A k \in Jobs :
          worker'[k].pc = worker[k].pc /\ worker'[k].item = worker[k].item
    <3>1. worker' = [worker EXCEPT ![j] = [worker[j] EXCEPT !.stop = "stop"]]
      BY <1>3 DEF AbortCancelled, Stopped
    <3>2. worker \in [Jobs -> WorkerRow] /\ worker[j] \in WorkerRow
      OBVIOUS
    <3>3. /\ [worker[j] EXCEPT !.stop = "stop"] \in WorkerRow
          /\ [worker[j] EXCEPT !.stop = "stop"].pc = worker[j].pc
          /\ [worker[j] EXCEPT !.stop = "stop"].item = worker[j].item
      BY ONLY <3>2 DEF WorkerRow
    <3> QED BY ONLY <3>1, <3>2, <3>3
  <2> QED BY <1>3, <2>1 DEF AbortCancelled, server, Holds
<1>4. CASE JobExpires(j)
  <2>1. job' = [job EXCEPT ![j] = [job[j] EXCEPT !.expired = TRUE]] /\ job \in [Jobs -> JobRow]
    BY <1>4 DEF JobExpires
  <2>2. job[j] \in JobRow
    BY <2>1
  <2>3. [job[j] EXCEPT !.expired = TRUE] \in JobRow
    BY ONLY <2>2 DEF JobRow
  <2>4. job' \in [Jobs -> JobRow]
    BY ONLY <2>1, <2>3
  <2> QED BY <1>4, <2>4, FaultsCounted DEF JobExpires, server, Holds
<1>5. CASE LeaseExpires(j)
  <2>0. job' = [job EXCEPT ![j].lease = "expired"] /\ job \in [Jobs -> JobRow]
    BY <1>5 DEF LeaseExpires
  <2>1. job' \in [Jobs -> JobRow]
    BY ONLY <2>0 DEF JobRow
  <2> QED BY <1>5, <2>1 DEF LeaseExpires, server, Holds
<1>6. CASE Recover(j)
  BY <1>6, RecoverEffect DEF Recover, server, AggregateEffect, Holds
<1>7. CASE RecoverQueued(j)
  <2>1. job' \in [Jobs -> JobRow]
    BY <1>7 DEF RecoverQueued, Parked, JobRow, JobStatus
  <2> QED BY <1>7, <2>1 DEF RecoverQueued, server, Holds
<1> QED BY <1>1, <1>2, <1>3, <1>4, <1>5, <1>6, <1>7

(* A worker between items.                                                  *)
LEMMA LoopKeepsTypes ==
  ASSUME Typed, NEW j \in Jobs,
         \/ \E resume \in BOOLEAN : Launch(j, resume)
         \/ Claim(j) \/ NotClaimed(j) \/ BeginItem(j) \/ Release(j)
  PROVE  Typed'
<1> DEFINE WorkerTyped ==
             /\ worker \in [Jobs -> WorkerRow]
             /\ \A k \in Jobs : worker[k].pc \in HeldPc \cup {"failing"} <=> Holds(k)
<1>0. /\ worker[j] \in WorkerRow /\ job[j] \in JobRow
      /\ worker \in [Jobs -> WorkerRow] /\ job \in [Jobs -> JobRow] /\ item \in [Items -> ItemRow]
  BY DEF Typed
<1>1. None \notin ItemsOf(j)
  BY QuarantineAssumption DEF ItemsOf
<1>2. ASSUME NEW label \in {"authorizing", "resuming", "loop"}, Goto(j, label),
             worker[j].pc \in {"idle", "authorizing", "resuming"}
      PROVE  WorkerTyped'
  <2> DEFINE row == [worker[j] EXCEPT !.pc = label]
  <2>1. row \in WorkerRow /\ row.pc = label /\ row.item = worker[j].item
    BY <1>0 DEF WorkerRow
  <2>2. ~Holds(j)
    BY <1>2 DEF Typed, HeldPc
  <2>3. worker' = [worker EXCEPT ![j] = row]
    BY <1>2 DEF Goto
  <2> HIDE DEF row
  <2>4. row.pc \in HeldPc \cup {"failing"} <=> row.item \in ItemsOf(j)
    BY <2>1, <2>2 DEF Holds, HeldPc
  <2> QED BY <2>1, <2>3, <2>4, WorkerMoves
<1>3. ASSUME worker' = [worker EXCEPT ![j] = Idle] PROVE WorkerTyped'
  <2>1. Idle.pc \in HeldPc \cup {"failing"} <=> Idle.item \in ItemsOf(j)
    BY <1>1, IdleRow DEF HeldPc
  <2> QED BY <1>3, <2>1, IdleRow, WorkerMoves
<1>4. ASSUME NEW resume \in BOOLEAN, Launch(j, resume) PROVE Typed'
  <2>1. WorkerTyped'
    BY <1>2, <1>4 DEF Launch
  <2> QED BY <1>4, <2>1 DEF Launch, server, Typed
<1>5. CASE Claim(j)
  <2>1. WorkerTyped'
    BY <1>2, <1>5 DEF Claim
  <2>2. job[j].attempts + 1 \in 0..MaxAttempts
    BY <1>0, <1>5, QuarantineAssumption DEF Claim, Claimable, JobRow
  <2>3. job' \in [Jobs -> JobRow]
    <3> DEFINE row == [job[j] EXCEPT !.status = "running", !.lease = "live", !.attempts = @ + 1]
    <3>1. row \in JobRow
      BY <1>0, <2>2 DEF JobRow, JobStatus
    <3>2. job' = [job EXCEPT ![j] = row]
      BY <1>5 DEF Claim
    <3> HIDE DEF row
    <3> QED BY <1>0, <3>1, <3>2
  <2> QED BY <1>5, <2>1, <2>3 DEF Claim, server, Typed
<1>6. CASE NotClaimed(j)
  <2>1. WorkerTyped'
    BY <1>3, <1>6 DEF NotClaimed
  <2>2. Parked(job[j]) \in JobRow
    BY <1>0 DEF Parked, JobRow, JobStatus
  <2>3. job' = [job EXCEPT ![j] = Parked(job[j])] \/ job' = job
    BY <1>6 DEF NotClaimed
  <2>4. job' \in [Jobs -> JobRow]
    BY <1>0, <2>2, <2>3
  <2> QED BY <1>6, <2>1, <2>4 DEF NotClaimed, server, Typed
<1>7. CASE BeginItem(j)
  <2>1. PICK i \in Queued(j) :
          /\ item' = [item EXCEPT ![i].status = "running"]
          /\ worker' = [worker EXCEPT ![j].pc = "begun", ![j].item = i]
    BY <1>7 DEF BeginItem
  <2>2. i \in ItemsOf(j) /\ i \in Items /\ item[i] \in ItemRow
    BY <1>0 DEF Queued, ItemsOf
  <2>3. WorkerTyped'
    <3> DEFINE row == [worker[j] EXCEPT !.pc = "begun", !.item = i]
    <3>1. row \in WorkerRow /\ row.pc = "begun" /\ row.item = i
      BY <1>0, <2>2 DEF HeldPc, WorkerRow
    <3>2. worker' = [worker EXCEPT ![j] = row]
      BY <2>1
    <3> HIDE DEF row
    <3>3. row.pc \in HeldPc \cup {"failing"} <=> row.item \in ItemsOf(j)
      BY <2>2, <3>1 DEF HeldPc
    <3> QED BY <3>1, <3>2, <3>3, WorkerMoves
  <2>4. job' \in [Jobs -> JobRow]
    <3>1. [job[j] EXCEPT !.status = "running"] \in JobRow
      BY <1>0 DEF JobRow, JobStatus
    <3>2. job' = [job EXCEPT ![j] = [job[j] EXCEPT !.status = "running"]]
      BY <1>7 DEF BeginItem
    <3> QED BY <1>0, <3>1, <3>2
  <2>5. item' \in [Items -> ItemRow]
    <3>1. [item[i] EXCEPT !.status = "running"] \in ItemRow
      BY <2>2 DEF ItemRow
    <3> QED BY <1>0, <2>1, <3>1
  <2> QED BY <1>7, <2>3, <2>4, <2>5 DEF BeginItem, server, Typed
<1>8. CASE Release(j)
  <2>1. WorkerTyped'
    BY <1>3, <1>8 DEF Release
  <2>2. Unleased(j) \in JobRow
    BY <1>0, JobUpdates DEF Unleased
  <2>3. job' \in [Jobs -> JobRow] /\ item' \in [Items -> ItemRow]
    BY <1>0, <1>8, <2>2, ReleaseEffect DEF AggregateEffect
  <2> QED BY <1>8, <2>1, <2>3 DEF Release, server, Typed
<1> QED BY <1>4, <1>5, <1>6, <1>7, <1>8

(* A worker's locals are those of its type whichever step it goes to.       *)
LEMMA GotoKeepsTypes ==
  ASSUME Typed, NEW j \in Jobs, NEW label, NEW seen \in Reading \cup {None}, NEW sent \in BOOLEAN,
         worker[j].pc \in HeldPc \cup {"failing"}, label \in HeldPc \cup {"failing"},
         worker' = [worker EXCEPT ![j] = [worker[j] EXCEPT !.pc = label, !.sent = sent, !.seen = seen]]
  PROVE  /\ worker' \in [Jobs -> WorkerRow]
         /\ \A k \in Jobs : worker'[k].pc \in HeldPc \cup {"failing"} <=> Holds(k)'
<1> DEFINE row == [worker[j] EXCEPT !.pc = label, !.sent = sent, !.seen = seen]
<1>1. worker[j] \in WorkerRow /\ Holds(j)
  BY DEF Typed
<1>2. row \in WorkerRow /\ row.pc = label /\ row.item = worker[j].item
  BY <1>1 DEF WorkerRow
<1> HIDE DEF row
<1>3. row.pc \in HeldPc \cup {"failing"} <=> row.item \in ItemsOf(j)
  BY <1>1, <1>2 DEF Holds
<1>4. worker' = [worker EXCEPT ![j] = row]
  BY DEF row
<1> QED BY <1>2, <1>3, <1>4, WorkerMoves

LEMMA LeaveKeepsTypes ==
  ASSUME Typed, NEW j \in Jobs, NEW label \in {"loop", "releasing"}, LeaveItem(j, label)
  PROVE  /\ worker' \in [Jobs -> WorkerRow]
         /\ \A k \in Jobs : worker'[k].pc \in HeldPc \cup {"failing"} <=> Holds(k)'
<1> DEFINE row == [Idle EXCEPT !.pc = label, !.stop = worker[j].stop]
<1>1. worker[j] \in WorkerRow
  BY DEF Typed
<1>2. worker[j].stop \in {"none", "auth", "stop"}
  BY <1>1 DEF WorkerRow
<1>3. row \in WorkerRow /\ row.pc = label /\ row.item = None
  BY <1>2, IdleRow
<1>4. worker' = [worker EXCEPT ![j] = row]
  BY DEF LeaveItem
<1> HIDE DEF row
<1>5. row.pc \in HeldPc \cup {"failing"} <=> row.item \in ItemsOf(j)
  BY <1>3, QuarantineAssumption DEF HeldPc, ItemsOf
<1> QED BY <1>3, <1>4, <1>5, WorkerMoves

LEMMA UnlockedType ==
  ASSUME Typed, NEW p
  PROVE  Unlocked(p) \in [Targets -> Jobs \cup Reconcilers \cup {None}]
BY DEF Typed, Unlocked

(* A worker with an item in hand.                                           *)
LEMMA ItemKeepsTypes ==
  ASSUME Typed, NEW j \in Jobs,
         \/ ReadFirst(j) \/ ReadAgain(j) \/ Post(j) \/ Verify(j)
         \/ \E ack \in BOOLEAN : MarkSent(j, ack) \/ Finish(j, ack)
         \/ ItemFails(j) \/ PauseItem(j) \/ FinishFailed(j) \/ PersistFails(j)
  PROVE  Typed'
<1> DEFINE w == worker[j]
           i == w.item
           StillHeld(label, sent, seen) ==
             worker' = [worker EXCEPT ![j] = [w EXCEPT !.pc = label, !.sent = sent, !.seen = seen]]
<1>0. w \in WorkerRow /\ w = [w EXCEPT !.sent = w.sent, !.seen = w.seen]
      /\ w.sent \in BOOLEAN /\ w.seen \in Reading \cup {None}
  BY DEF Typed, WorkerRow
<1>1. ASSUME w.pc \in {"begun", "confirmed"}, ReadStatus(j),
             lock' \in [Targets -> Jobs \cup Reconcilers \cup {None}]
      PROVE  Typed'
  <2>1. PICK label \in {"unchanged", "confirmed", "matched"}, seen \in {w.seen, provider[TargetAt(j)]} :
          StillHeld(label, w.sent, seen)
    <3>1. CASE /\ provider[TargetAt(j)].on = job[j].wants
               /\ worker' = [worker EXCEPT ![j].pc = "unchanged", ![j].seen = provider[TargetAt(j)]]
      <4>1. StillHeld("unchanged", w.sent, provider[TargetAt(j)])
        <5>1. worker' = [worker EXCEPT ![j] = [w EXCEPT !.pc = "unchanged", !.seen = provider[TargetAt(j)]]]
          BY <3>1
        <5>2. [w EXCEPT !.pc = "unchanged", !.seen = provider[TargetAt(j)]] =
                [w EXCEPT !.pc = "unchanged", !.sent = w.sent, !.seen = provider[TargetAt(j)]]
          BY ONLY <1>0 DEF WorkerRow
        <5> QED BY ONLY <5>1, <5>2
      <4> QED BY <4>1
    <3>2. CASE Goto(j, IF w.pc = "begun" THEN "confirmed" ELSE "matched")
      <4>1. StillHeld(IF w.pc = "begun" THEN "confirmed" ELSE "matched", w.sent, w.seen)
        BY <1>0, <3>2, SameRow DEF Goto
      <4> QED BY <4>1
    <3> QED BY <1>1, <3>1, <3>2 DEF ReadStatus, TargetAt
  <2>2. seen \in Reading \cup {None} /\ w.sent \in BOOLEAN
    BY <1>0, <1>1, HeldItem DEF HeldPc
  <2>3. w.pc \in HeldPc \cup {"failing"} /\ label \in HeldPc \cup {"failing"}
    BY <1>1 DEF HeldPc
  <2>4. /\ worker' \in [Jobs -> WorkerRow]
        /\ \A k \in Jobs : worker'[k].pc \in HeldPc \cup {"failing"} <=> Holds(k)'
    BY <2>1, <2>2, <2>3, GotoKeepsTypes
  <2> QED BY <1>1, <2>4 DEF Typed, ReadStatus, server
<1>2. CASE ReadFirst(j)
  <2>1. lock' \in [Targets -> Jobs \cup Reconcilers \cup {None}]
    BY <1>2 DEF ReadFirst, Typed
  <2> QED BY <1>1, <1>2, <2>1 DEF ReadFirst
<1>3. CASE ReadAgain(j)
  <2>1. lock' \in [Targets -> Jobs \cup Reconcilers \cup {None}]
    BY <1>3 DEF ReadAgain, Typed
  <2> QED BY <1>1, <1>3, <2>1 DEF ReadAgain
<1>4. CASE Post(j)
  <2>1. StillHeld("posted", w.sent, w.seen)
    BY <1>0, <1>4, SameRow DEF Post, Goto
  <2>2. /\ worker' \in [Jobs -> WorkerRow]
        /\ \A k \in Jobs : worker'[k].pc \in HeldPc \cup {"failing"} <=> Holds(k)'
    BY <1>0, <1>4, <2>1, GotoKeepsTypes DEF Post, HeldPc
  <2>3. write' \in [Items -> WriteRow]
    BY <1>4, HeldItem DEF Post, Typed, WriteRow, HeldPc
  <2> QED BY <1>4, <2>2, <2>3 DEF Typed, Post, server
<1>5. CASE Verify(j)
  <2>1. StillHeld("verified", w.sent, provider[TargetAt(j)])
    <3>1. worker' = [worker EXCEPT ![j] = [w EXCEPT !.pc = "verified", !.seen = provider[TargetAt(j)]]]
      BY <1>5 DEF Verify
    <3>2. [w EXCEPT !.pc = "verified", !.seen = provider[TargetAt(j)]] =
            [w EXCEPT !.pc = "verified", !.sent = w.sent, !.seen = provider[TargetAt(j)]]
      BY ONLY <1>0 DEF WorkerRow
    <3> QED BY ONLY <3>1, <3>2
  <2>2. provider[TargetAt(j)] \in Reading
    BY <1>5, HeldItem DEF Verify, HeldPc
  <2>3. /\ worker' \in [Jobs -> WorkerRow]
        /\ \A k \in Jobs : worker'[k].pc \in HeldPc \cup {"failing"} <=> Holds(k)'
    <3>1. w.pc \in HeldPc \cup {"failing"} /\ "verified" \in HeldPc \cup {"failing"}
      BY <1>5 DEF Verify, HeldPc
    <3> QED BY <1>0, <2>1, <2>2, <3>1, GotoKeepsTypes
  <2> QED BY <1>5, <2>3 DEF Typed, Verify, server
<1>6. ASSUME NEW ack \in BOOLEAN, MarkSent(j, ack) PROVE Typed'
  <2>1. StillHeld(IF ack THEN "marked" ELSE "failing", ack, w.seen)
    <3>1. worker' = [worker EXCEPT ![j] =
                       [w EXCEPT !.pc = IF ack THEN "marked" ELSE "failing", !.sent = ack]]
      BY <1>6 DEF MarkSent
    <3> DEFINE label == IF ack THEN "marked" ELSE "failing"
    <3> HIDE DEF label
    <3>2. [w EXCEPT !.pc = label, !.sent = ack] =
            [w EXCEPT !.pc = label, !.sent = ack, !.seen = w.seen]
      BY ONLY <1>0 DEF WorkerRow
    <3> QED BY ONLY <3>1, <3>2 DEF label
  <2>2. /\ worker' \in [Jobs -> WorkerRow]
        /\ \A k \in Jobs : worker'[k].pc \in HeldPc \cup {"failing"} <=> Holds(k)'
    <3>1. /\ w.pc \in HeldPc \cup {"failing"}
          /\ (IF ack THEN "marked" ELSE "failing") \in HeldPc \cup {"failing"}
      BY <1>6 DEF MarkSent, HeldPc
    <3> QED BY <1>0, <2>1, <3>1, GotoKeepsTypes
  <2>3. item' \in [Items -> ItemRow]
    <3>1. i \in Items /\ item[i] \in ItemRow
      BY <1>6, HeldItem DEF MarkSent, HeldPc
    <3>2. [item[i] EXCEPT !.sent = TRUE] \in ItemRow
      BY <3>1 DEF ItemRow
    <3> QED BY <1>6, <3>1, <3>2 DEF MarkSent, Typed
  <2>4. lock' \in [Targets -> Jobs \cup Reconcilers \cup {None}] /\ faults' \in 0..MaxFaults
    BY <1>6, UnlockedType, FaultsCounted DEF MarkSent, Typed
  <2> QED BY <1>6, <2>2, <2>3, <2>4 DEF Typed, MarkSent, server
<1>7. ASSUME NEW ack \in BOOLEAN, Finish(j, ack) PROVE Typed'
  <2>1. w.pc \in HeldPc
    BY <1>7 DEF Finish, HeldPc
  <2>2. /\ worker' \in [Jobs -> WorkerRow]
        /\ \A k \in Jobs : worker'[k].pc \in HeldPc \cup {"failing"} <=> Holds(k)'
    <3>1. CASE ack
      BY <1>7, <3>1, LeaveKeepsTypes DEF Finish
    <3>2. CASE ~ack
      <4>1. StillHeld("failing", w.sent, w.seen)
        BY <1>0, <1>7, <3>2, SameRow DEF Finish, Goto
      <4> QED BY <1>0, <2>1, <4>1, GotoKeepsTypes
    <3> QED BY <3>1, <3>2
  <2>3. item' \in [Items -> ItemRow]
    <3>1. PICK status \in {"succeeded", "skipped"} :
            item' = [item EXCEPT ![i] = [item[i] EXCEPT !.status = status, !.observed = w.seen]]
      BY <1>7, <2>1, HeldItem DEF Finish, Typed
    <3>2. [item[i] EXCEPT !.status = status, !.observed = w.seen] \in ItemRow
      <4>1. item[i] \in ItemRow /\ status \in Outcomes /\ "required" \in Reconciliations
        BY <2>1, HeldItem DEF Outcomes, Reconciliations
      <4> QED BY <1>0, <4>1, ItemUpdates
    <3> QED BY <3>1, <3>2 DEF Typed
  <2>4. lock' \in [Targets -> Jobs \cup Reconcilers \cup {None}] /\ faults' \in 0..MaxFaults
    BY <1>7, UnlockedType, FaultsCounted DEF Finish, Typed
  <2> QED BY <1>7, <2>2, <2>3, <2>4 DEF Typed, Finish, server
<1>8. CASE ItemFails(j)
  <2>1. StillHeld("failing", w.sent, w.seen)
    BY <1>0, <1>8, SameRow DEF ItemFails, Goto
  <2>2. /\ worker' \in [Jobs -> WorkerRow]
        /\ \A k \in Jobs : worker'[k].pc \in HeldPc \cup {"failing"} <=> Holds(k)'
    BY <1>0, <1>8, <2>1, GotoKeepsTypes DEF ItemFails
  <2> QED BY <1>8, <2>2, UnlockedType DEF Typed, ItemFails, server
<1>9. CASE PauseItem(j)
  <2>1. /\ worker' \in [Jobs -> WorkerRow]
        /\ \A k \in Jobs : worker'[k].pc \in HeldPc \cup {"failing"} <=> Holds(k)'
    BY <1>9, LeaveKeepsTypes DEF PauseItem
  <2>2. job' \in [Jobs -> JobRow] /\ item' \in [Items -> ItemRow]
    BY <1>9, PauseEffect DEF AggregateEffect
  <2> QED BY <1>9, <2>1, <2>2 DEF Typed, PauseItem, server
<1>10. CASE FinishFailed(j)
  <2>1. /\ worker' \in [Jobs -> WorkerRow]
        /\ \A k \in Jobs : worker'[k].pc \in HeldPc \cup {"failing"} <=> Holds(k)'
    BY <1>10, LeaveKeepsTypes DEF FinishFailed
  <2>2. PICK outcome \in {"inconclusive", "cancelled", "failed"}, recon \in {"required", "not_required"} :
          item' = [item EXCEPT ![i] = [item[i] EXCEPT !.status = outcome, !.recon = recon]]
    <3>1. PICK outcome \in FailedAs(j) :
            item' = [item EXCEPT ![i].status = outcome,
                       ![i].recon = IF outcome = "inconclusive" THEN "required" ELSE "not_required"]
      BY <1>10 DEF FinishFailed
    <3>2. outcome \in {"inconclusive", "cancelled", "failed"}
      BY <3>1 DEF FailedAs
    <3>3. item' = [item EXCEPT ![i] = [item[i] EXCEPT !.status = outcome,
                     !.recon = IF outcome = "inconclusive" THEN "required" ELSE "not_required"]]
      BY <1>10, <3>1, HeldItem DEF FinishFailed, Typed
    <3> QED BY <3>2, <3>3
  <2>3. [item[i] EXCEPT !.status = outcome, !.recon = recon] \in ItemRow
    <3>1. item[i] \in ItemRow
      BY <1>10, HeldItem DEF FinishFailed
    <3>2. outcome \in Outcomes /\ recon \in Reconciliations
      BY DEF Outcomes, Reconciliations
    <3> QED BY <1>0, <3>1, <3>2, ItemUpdates
  <2>4. item' \in [Items -> ItemRow]
    BY <2>2, <2>3 DEF Typed
  <2> QED BY <1>10, <2>1, <2>4 DEF Typed, FinishFailed, server
<1>11. CASE PersistFails(j)
  <2>1. /\ worker' \in [Jobs -> WorkerRow]
        /\ \A k \in Jobs : worker'[k].pc \in HeldPc \cup {"failing"} <=> Holds(k)'
    BY <1>11, LeaveKeepsTypes DEF PersistFails
  <2> QED BY <1>11, <2>1 DEF Typed, PersistFails, server
<1> QED BY <1>2, <1>3, <1>4, <1>5, <1>6, <1>7, <1>8, <1>9, <1>10, <1>11

(* The reconciler writes the evidence it read.                              *)
LEMMA ReconcilersKeepTypes ==
  ASSUME Typed, NEW r \in Reconcilers,
         \/ \E i \in Items : ReconcileRead(r, i)
         \/ RecordReconciliation(r) \/ ReconcileFails(r)
  PROVE  Typed'
<1>1. ASSUME NEW i \in Items, ReconcileRead(r, i) PROVE Typed'
  <2>1. provider[TargetOf[i]] \in Reading
    BY QuarantineAssumption DEF Typed
  <2>2. /\ rec' \in [Reconcilers -> RequestRow]
        /\ \A q \in Reconcilers : rec'[q].pc # "idle" => rec'[q].item \in Items
    <3>1. [pc |-> "read", item |-> i, seen |-> provider[TargetOf[i]]] \in RequestRow
      BY <2>1 DEF RequestRow
    <3> QED BY <1>1, <3>1 DEF ReconcileRead, Typed
  <2>3. lock' \in [Targets -> Jobs \cup Reconcilers \cup {None}]
    BY <1>1 DEF ReconcileRead, Typed
  <2> QED BY <1>1, <2>2, <2>3 DEF Typed, ReconcileRead, server, Holds
<1>2. NoRequest \in RequestRow
  BY DEF NoRequest, RequestRow
<1>3. CASE RecordReconciliation(r)
  <2>1. /\ rec' \in [Reconcilers -> RequestRow]
        /\ \A q \in Reconcilers : rec'[q].pc # "idle" => rec'[q].item \in Items
    BY <1>2, <1>3 DEF RecordReconciliation, NoRequest, Typed
  <2> QED BY <1>3, <2>1, RecordEffect, UnlockedType
       DEF Typed, RecordReconciliation, AggregateEffect, server, Holds
<1>4. CASE ReconcileFails(r)
  <2>1. /\ rec' \in [Reconcilers -> RequestRow]
        /\ \A q \in Reconcilers : rec'[q].pc # "idle" => rec'[q].item \in Items
    BY <1>2, <1>4 DEF ReconcileFails, NoRequest, Typed
  <2> QED BY <1>4, <2>1, UnlockedType DEF Typed, ReconcileFails, server, Holds
<1> QED BY <1>1, <1>3, <1>4

(* The principal, the process, the network: whole functions are replaced.   *)
LEMMA EnvironmentKeepsTypes ==
  ASSUME Typed, EnvironmentStep
  PROVE  Typed'
<1>1. Idle \in WorkerRow /\ NoRequest \in RequestRow
  BY DEF Idle, WorkerRow, NoRequest, RequestRow
<1>2. ASSUME NEW why \in {"auth", "stop"},
             worker' = [j \in Jobs |-> Stopped(worker[j], why)],
             rec' = [r \in Reconcilers |-> Refused(rec[r])]
      PROVE  /\ worker' \in [Jobs -> WorkerRow]
             /\ \A k \in Jobs : worker'[k].pc \in HeldPc \cup {"failing"} <=> Holds(k)'
             /\ rec' \in [Reconcilers -> RequestRow]
             /\ \A q \in Reconcilers : rec'[q].pc # "idle" => rec'[q].item \in Items
  <2>1. ASSUME NEW k \in Jobs
        PROVE  /\ worker'[k] \in WorkerRow
               /\ worker'[k].pc = worker[k].pc /\ worker'[k].item = worker[k].item
    <3>1. worker[k] \in WorkerRow
      BY DEF Typed
    <3>2. worker'[k] \in {worker[k], [worker[k] EXCEPT !.stop = why]}
      BY <1>2 DEF Stopped
    <3> QED BY ONLY <3>1, <3>2, <1>2 DEF WorkerRow
  <2>2. \A r \in Reconcilers : /\ rec'[r] \in RequestRow /\ rec'[r].item = rec[r].item
                               /\ rec'[r].pc = "idle" <=> rec[r].pc = "idle"
    BY <1>2 DEF Typed, Refused, RequestRow
  <2> QED BY <1>2, <2>1, <2>2 DEF Typed, Holds
<1>3. CASE RevokeSession
  BY <1>2, <1>3, FaultsCounted DEF Typed, RevokeSession
<1>4. CASE ParkQueued
  <2>1. job' \in [Jobs -> JobRow]
    BY <1>4 DEF ParkQueued, Parked, Typed, JobRow, JobStatus
  <2> QED BY <1>4, <2>1 DEF Typed, ParkQueued, Holds
<1>5. CASE Drain
  BY <1>2, <1>5, FaultsCounted DEF Typed, Drain
<1>6. CASE ProcessEnds
  <2>1. /\ worker' \in [Jobs -> WorkerRow]
        /\ \A k \in Jobs : worker'[k].pc \in HeldPc \cup {"failing"} <=> Holds(k)'
    BY <1>1, <1>6, QuarantineAssumption DEF ProcessEnds, Idle, Holds, HeldPc, ItemsOf
  <2>2. /\ rec' \in [Reconcilers -> RequestRow]
        /\ \A q \in Reconcilers : rec'[q].pc # "idle" => rec'[q].item \in Items
    BY <1>1, <1>6 DEF ProcessEnds, NoRequest
  <2> QED BY <1>6, <2>1, <2>2, FaultsCounted DEF Typed, ProcessEnds
<1>7. CASE Listen
  BY <1>7 DEF Typed, Listen, Holds
<1>8. ASSUME NEW t \in Targets, NEW on \in BOOLEAN, Changed(t, on)
      PROVE  provider' \in [Targets -> Reading]
  BY <1>8 DEF Typed, Changed, Reading
<1>9. ASSUME NEW i \in Items, WriteLands(i) PROVE Typed'
  <2>1. TargetOf[i] \in Targets /\ provider[TargetOf[i]].time \in Nat /\ job[JobOf[i]].wants \in BOOLEAN
    BY QuarantineAssumption DEF Typed, Reading, JobRow
  <2>2. provider' \in [Targets -> Reading]
    BY <1>8, <1>9, <2>1 DEF WriteLands
  <2>3. write' \in [Items -> WriteRow]
    BY <1>9, <2>1 DEF WriteLands, Typed, WriteRow
  <2> QED BY <1>9, <2>2, <2>3 DEF Typed, WriteLands, server, Holds
<1>10. ASSUME NEW t \in Targets, ExternalEdit(t) PROVE Typed'
  <2>1. provider' \in [Targets -> Reading]
    BY <1>8, <1>10 DEF ExternalEdit
  <2> QED BY <1>10, <2>1, FaultsCounted DEF Typed, ExternalEdit, server, Holds
<1>11. ASSUME NEW t \in Targets, LockIsLost(t) PROVE Typed'
  BY <1>11, FaultsCounted DEF Typed, LockIsLost, server, Holds
<1> QED BY <1>3, <1>4, <1>5, <1>6, <1>7, <1>9, <1>10, <1>11 DEF EnvironmentStep

LEMMA TypesInductive ==
  /\ Init => Typed
  /\ Typed /\ [Next]_vars => Typed'
<1>1. Init => Typed
  <2> SUFFICES ASSUME Init PROVE Typed
    OBVIOUS
  <2>1. None \notin Items
    BY QuarantineAssumption
  <2>2. job \in [Jobs -> JobRow]
    BY QuarantineAssumption DEF Init, JobRow
  <2>3. item \in [Items -> ItemRow]
    BY DEF Init, ItemRow, Reconciliations
  <2>4. provider \in [Targets -> Reading] /\ write \in [Items -> WriteRow]
    BY DEF Init, Reading, WriteRow
  <2>5. /\ worker \in [Jobs -> WorkerRow]
        /\ \A j \in Jobs : worker[j].pc \in HeldPc \cup {"failing"} <=> Holds(j)
    BY <2>1 DEF Init, WorkerRow, Idle, Holds, HeldPc, ItemsOf
  <2>6. /\ rec \in [Reconcilers -> RequestRow]
        /\ \A r \in Reconcilers : rec[r].pc # "idle" => rec[r].item \in Items
    BY DEF Init, RequestRow, NoRequest
  <2>7. faults \in 0..MaxFaults
    BY QuarantineAssumption DEF Init
  <2> QED BY <2>2, <2>3, <2>4, <2>5, <2>6, <2>7 DEF Init, Typed
<1>2. ASSUME Typed, [Next]_vars PROVE Typed'
  <2>1. CASE UNCHANGED vars
    BY <1>2, <2>1 DEF vars, Typed, Holds
  <2>2. CASE Next
    BY <1>2, <2>2, RequestsKeepTypes, LoopKeepsTypes, ItemKeepsTypes, ReconcilersKeepTypes,
       EnvironmentKeepsTypes DEF Next, JobStep, WorkerStep, ReconcilerStep
  <2> QED BY <1>2, <2>1, <2>2
<1> QED BY <1>1, <1>2

(* Every row and local keeps to the values of its column or variable.       *)
THEOREM QuarantineTypes == Spec => []QuarantineTypeOK
<1>1. Spec => []Typed
  BY TypesInductive, PTL DEF Spec
<1> QED BY <1>1, TypedIsTypeOK, PTL

-----------------------------------------------------------------------------
(* Sent writes *)

(* Aggregation moves an item at most from queued to cancelled.              *)
LEMMA AggregateFields ==
  ASSUME NEW j, NEW row, NEW it \in [Items -> ItemRow], AggregateEffect(j, row, it), NEW i \in Items
  PROVE  /\ item'[i].sent = it[i].sent /\ item'[i].recon = it[i].recon
         /\ item'[i].prestate = it[i].prestate /\ item'[i].observed = it[i].observed
         /\ \/ item'[i].status = it[i].status
            \/ /\ it[i].status = "queued" /\ item'[i].status = "cancelled"
               /\ JobOf[i] = j /\ row.cancel
<1>1. it[i] \in ItemRow
  OBVIOUS
<1> QED BY <1>1 DEF AggregateEffect, ItemRow

LEMMA AggregateJobFields ==
  ASSUME NEW j \in Jobs, NEW row \in JobRow, NEW it, AggregateEffect(j, row, it)
  PROVE  /\ job'[j].lease = row.lease /\ job'[j].cancel = row.cancel /\ job'[j].wants = row.wants
         /\ \A k \in Jobs \ {j} : job'[k] = job[k]
BY DEF AggregateEffect, JobRow

(* The fields of an item after each step that aggregates.                   *)
LEMMA RecoveredFields ==
  ASSUME Typed, NEW j \in Jobs, Recover(j), NEW i \in Items
  PROVE  /\ item'[i].sent = item[i].sent
         /\ item'[i].prestate = item[i].prestate /\ item'[i].observed = item[i].observed
         /\ \/ item'[i].status = item[i].status /\ item'[i].recon = item[i].recon
            \/ /\ JobOf[i] = j /\ item[i].status = "running" /\ item[i].sent
               /\ item'[i].status = "inconclusive" /\ item'[i].recon = "required"
            \/ /\ JobOf[i] = j /\ item[i].status \in {"running", "queued"}
               /\ item[i].status = "running" => ~item[i].sent
               /\ item'[i].recon = item[i].recon
               /\ item'[i].status = IF job[j].cancel THEN "cancelled" ELSE "queued"
<1>1. item[i] \in ItemRow
  BY DEF Typed
<1>2. LET it == RecoveredItems(j) IN
      /\ it[i].sent = item[i].sent
      /\ it[i].prestate = item[i].prestate /\ it[i].observed = item[i].observed
      /\ \/ it[i].status = item[i].status /\ it[i].recon = item[i].recon
            /\ ~(JobOf[i] = j /\ job[j].cancel /\ item[i].status = "queued")
         \/ /\ JobOf[i] = j /\ item[i].status = "running" /\ item[i].sent
            /\ it[i].status = "inconclusive" /\ it[i].recon = "required"
         \/ /\ JobOf[i] = j /\ item[i].status \in {"running", "queued"}
            /\ item[i].status = "running" => ~item[i].sent
            /\ it[i].recon = item[i].recon
            /\ it[i].status = IF job[j].cancel THEN "cancelled" ELSE "queued"
  BY <1>1 DEF RecoveredItems, Recovered, ItemsOf, ItemRow
<1>3. Unleased(j).cancel = job[j].cancel
  BY DEF Unleased, Typed, JobRow
<1> QED BY <1>2, <1>3, RecoverEffect, AggregateFields

LEMMA PausedFields ==
  ASSUME Typed, NEW j \in Jobs, PauseItem(j), NEW i \in Items
  PROVE  /\ item'[i].sent = item[i].sent /\ item'[i].recon = item[i].recon
         /\ item'[i].prestate = item[i].prestate /\ item'[i].observed = item[i].observed
         /\ \/ item'[i].status = item[i].status
            \/ /\ JobOf[i] = j
               /\ item[i].status \in {"running", "queued"}
               /\ item[i].status = "running" => ~item[i].sent
               /\ item'[i].status = IF job[j].cancel THEN "cancelled" ELSE "queued"
<1>1. item[i] \in ItemRow /\ worker[j].item \in Items /\ JobOf[worker[j].item] = j
  BY HeldItem DEF Typed, PauseItem
<1>2. LET it == PausedItems(j) IN
      /\ it[i].sent = item[i].sent /\ it[i].recon = item[i].recon
      /\ it[i].prestate = item[i].prestate /\ it[i].observed = item[i].observed
      /\ i # worker[j].item => it[i].status = item[i].status
      /\ i = worker[j].item => it[i].status = "queued"
  BY <1>1 DEF PausedItems, Typed, ItemRow
<1>3. item[worker[j].item].status = "running" /\ ~item[worker[j].item].sent
  BY DEF PauseItem
<1>4. Unleased(j).cancel = job[j].cancel
  BY DEF Unleased, Typed, JobRow
<1>5. job[j].cancel /\ JobOf[i] = j => item'[i].status # "queued"
  <2>1. AggregateEffect(j, Unleased(j), PausedItems(j))
    BY PauseEffect
  <2>2. i \in ItemsOf(j) /\ Unleased(j).cancel => item'[i].status # "queued"
    BY <2>1 DEF AggregateEffect
  <2> QED BY <1>4, <2>2 DEF ItemsOf
<1> QED BY <1>1, <1>2, <1>3, <1>4, <1>5, PauseEffect, AggregateFields

LEMMA JudgedFields ==
  ASSUME Typed, NEW r \in Reconcilers, RecordReconciliation(r), NEW i \in Items
  PROVE  /\ item'[i].sent = item[i].sent /\ item'[i].prestate = item[i].prestate
         /\ i # rec[r].item =>
              /\ item'[i].recon = item[i].recon /\ item'[i].observed = item[i].observed
              /\ \/ item'[i].status = item[i].status
                 \/ /\ item[i].status = "queued" /\ item'[i].status = "cancelled"
                    /\ job[JobOf[i]].cancel
         /\ i = rec[r].item =>
              /\ item[i].status = "inconclusive" /\ item[i].recon = "required"
              /\ item'[i].recon = Verdicts(r) /\ item'[i].observed = rec[r].seen
              /\ item'[i].status = IF Verdicts(r) = "verified_applied" THEN "succeeded" ELSE "inconclusive"
<1>1. item[i] \in ItemRow /\ rec[r].item \in Items
  BY RecordEffect DEF Typed
<1>2. AwaitsReconciliation(rec[r].item)
  BY DEF RecordReconciliation
<1>3. LET it == JudgedItems(r) IN
      /\ it[i].sent = item[i].sent /\ it[i].prestate = item[i].prestate
      /\ i # rec[r].item => it[i] = item[i]
      /\ i = rec[r].item =>
           /\ it[i].recon = Verdicts(r) /\ it[i].observed = rec[r].seen
           /\ it[i].status = IF Verdicts(r) = "verified_applied" THEN "succeeded" ELSE "inconclusive"
  BY <1>1, <1>2 DEF JudgedItems, JudgedStatus, AwaitsReconciliation, Typed, ItemRow
<1> QED BY <1>1, <1>2, <1>3, RecordEffect, AggregateFields DEF AwaitsReconciliation

(* Steps after which every worker is at the same place with the same item.  *)
SameWorkers ==
  \A j \in Jobs : /\ worker'[j].pc = worker[j].pc /\ worker'[j].item = worker[j].item
                  /\ worker'[j].sent = worker[j].sent /\ worker'[j].seen = worker[j].seen

LEMMA StoppedWorkersAreSame ==
  ASSUME Typed,
         \/ \E j \in Jobs : AbortCancelled(j)
         \/ RevokeSession \/ Drain
  PROVE  SameWorkers
<1>1. \A j \in Jobs : worker[j] \in WorkerRow
  BY DEF Typed
<1>2. ASSUME NEW j \in Jobs, NEW why
      PROVE  /\ Stopped(worker[j], why).pc = worker[j].pc
             /\ Stopped(worker[j], why).item = worker[j].item
             /\ Stopped(worker[j], why).sent = worker[j].sent
             /\ Stopped(worker[j], why).seen = worker[j].seen
  BY <1>1 DEF Stopped, WorkerRow
<1> QED BY <1>2 DEF SameWorkers, AbortCancelled, RevokeSession, Drain, Typed

(* Steps that leave each item, or move it as recovery and aggregation do,   *)
(* change nothing about what was sent.                                      *)
QuietItems ==
  \A i \in Items :
    /\ item'[i].sent = item[i].sent
    /\ \/ item'[i].status = item[i].status
       \/ item'[i].status \in {"queued", "cancelled"} /\ ~item[i].sent
       \/ item[i].status = "running" /\ item[i].sent /\ item'[i].status = "inconclusive"
       \/ item[i].status = "inconclusive" /\ item'[i].status = "succeeded"

LEMMA ItemsAreQuiet ==
  ASSUME Typed, SentInv,
         \/ \E j \in Jobs : Cancel(j) \/ Recover(j) \/ Release(j) \/ PauseItem(j)
         \/ \E r \in Reconcilers : RecordReconciliation(r)
  PROVE  QuietItems
<1>1. ASSUME NEW j \in Jobs, Cancel(j) PROVE QuietItems
  <2>1. AggregateEffect(j, [job[j] EXCEPT !.cancel = TRUE], item) /\ item \in [Items -> ItemRow]
    BY <1>1, CancelEffect DEF Typed
  <2>2. \A i \in Items : /\ item'[i].sent = item[i].sent
                         /\ \/ item'[i].status = item[i].status
                            \/ item[i].status = "queued" /\ item'[i].status = "cancelled"
    BY <2>1, AggregateFields
  <2> QED BY <2>2 DEF SentInv, QuietItems
<1>2. ASSUME NEW j \in Jobs, Recover(j) PROVE QuietItems
  BY <1>2, RecoveredFields DEF SentInv, QuietItems
<1>3. ASSUME NEW j \in Jobs, Release(j) PROVE QuietItems
  BY <1>3, ReleaseEffect, AggregateFields DEF Typed, SentInv, QuietItems
<1>4. ASSUME NEW j \in Jobs, PauseItem(j) PROVE QuietItems
  BY <1>4, PausedFields DEF SentInv, QuietItems
<1>5. ASSUME NEW r \in Reconcilers, RecordReconciliation(r) PROVE QuietItems
  BY <1>5, JudgedFields DEF SentInv, QuietItems
<1> QED BY <1>1, <1>2, <1>3, <1>4, <1>5

(* A worker that drops its item, or goes on with it in the same role.       *)
LEMMA QuietKeepsSent ==
  ASSUME Typed, SentInv, QuietItems \/ UNCHANGED item,
         \A i \in Items : write'[i].state = "none" <=> write[i].state = "none",
         \A j \in Jobs :
           \/ ~worker'[j].sent /\ ~Holds(j)' /\ worker'[j].pc \notin HeldPc
           \/ /\ worker'[j].item = worker[j].item /\ worker'[j].sent = worker[j].sent
              /\ \/ worker'[j].pc = worker[j].pc
                 \/ worker'[j].pc \notin HeldPc
                 \/ /\ worker[j].pc \in {"begun", "confirmed"}
                    /\ worker'[j].pc \in {"confirmed", "matched", "unchanged"}
                 \/ worker[j].pc = "posted" /\ worker'[j].pc = "verified"
  PROVE  SentInv'
<1>1. \A i \in Items :
        /\ item'[i].sent = item[i].sent
        /\ item'[i].status \in {"absent", "queued"} => ~item'[i].sent
        /\ item'[i].status = "inconclusive" => item'[i].sent
        /\ write'[i].state # "none" => item'[i].sent
        /\ write'[i].state # "none" => item'[i].status \in {"running", "succeeded", "inconclusive"}
  BY DEF SentInv, QuietItems
<1>2. ASSUME NEW j \in Jobs
      PROVE  /\ worker'[j].sent => Holds(j)' /\ item'[worker'[j].item].sent
             /\ worker'[j].pc \in {"begun", "confirmed", "matched", "unchanged"} => ~worker'[j].sent
             /\ worker'[j].pc \in {"marked", "posted", "verified"} => worker'[j].sent
             /\ (Holds(j)' /\ write'[worker'[j].item].state # "none") => worker'[j].sent
             /\ worker'[j].pc = "marked" => write'[worker'[j].item].state = "none"
  <2>1. CASE ~worker'[j].sent /\ ~Holds(j)' /\ worker'[j].pc \notin HeldPc
    BY <1>2, <2>1 DEF HeldPc
  <2>2. CASE ~(~worker'[j].sent /\ ~Holds(j)' /\ worker'[j].pc \notin HeldPc)
    <3>1. Holds(j)' <=> Holds(j)
      BY <1>2, <2>2 DEF Holds
    <3>2. Holds(j) => worker[j].item \in Items
      BY DEF Holds, ItemsOf
    <3>3. worker[j].pc \in HeldPc => Holds(j)
      BY <1>2 DEF Typed
    <3> QED BY <1>1, <1>2, <2>2, <3>1, <3>2, <3>3 DEF SentInv, HeldPc
  <2> QED BY <2>1, <2>2
<1> QED BY <1>1, <1>2 DEF SentInv

LEMMA RequestsKeepSent ==
  ASSUME Typed, Typed', SentInv, NEW j \in Jobs,
         JobInv,
         \/ \E wants \in Wants[j] : Submit(j, wants)
         \/ Cancel(j) \/ AbortCancelled(j) \/ JobExpires(j) \/ LeaseExpires(j)
         \/ Recover(j) \/ RecoverQueued(j)
  PROVE  SentInv'
<1>1. ASSUME NEW wants \in Wants[j], Submit(j, wants) PROVE SentInv'
  <2>1. \A i \in Items : item[i] \in ItemRow
    BY DEF Typed
  <2>2. \A i \in Items : /\ item'[i].sent = item[i].sent
                         /\ \/ item'[i].status = item[i].status
                            \/ item'[i].status = "queued" /\ item[i].status = "absent"
    <3>a. job[j].status = "absent"
      BY <1>1 DEF Submit
    <3>1. \A i \in ItemsOf(j) : item[i].status = "absent"
      BY <3>a DEF JobInv, ItemsOf
    <3>2. ASSUME NEW i \in Items
          PROVE  /\ item'[i].sent = item[i].sent
                 /\ \/ item'[i].status = item[i].status
                    \/ item'[i].status = "queued" /\ item[i].status = "absent"
      <4> DEFINE row == [item[i] EXCEPT !.status = "queued", !.prestate = provider[TargetOf[i]]]
      <4>1. item'[i] = IF i \in ItemsOf(j) THEN row ELSE item[i]
        BY <1>1 DEF Submit
      <4>2. item[i] \in ItemRow
        BY <2>1
      <4>3. row.sent = item[i].sent /\ row.status = "queued"
        BY ONLY <4>2 DEF ItemRow, row
      <4> HIDE DEF row
      <4>4. i \in ItemsOf(j) => item[i].status = "absent"
        BY <3>1
      <4> QED BY ONLY <4>1, <4>3, <4>4
    <3> QED BY <3>2
  <2>3. QuietItems
    BY <2>2 DEF QuietItems, SentInv
  <2> QED BY <1>1, <2>3, QuietKeepsSent DEF Submit
<1>2. CASE Cancel(j) \/ Recover(j)
  <2>1. QuietItems
    BY <1>2, ItemsAreQuiet
  <2> QED BY <1>2, <2>1, QuietKeepsSent DEF Cancel, Recover
<1>3. CASE AbortCancelled(j)
  BY <1>3, StoppedWorkersAreSame, QuietKeepsSent DEF AbortCancelled, SameWorkers
<1>4. CASE JobExpires(j) \/ LeaseExpires(j) \/ RecoverQueued(j)
  BY <1>4, QuietKeepsSent DEF JobExpires, LeaseExpires, RecoverQueued
<1> QED BY <1>1, <1>2, <1>3, <1>4

LEMMA LoopKeepsSent ==
  ASSUME Typed, Typed', SentInv, NEW j \in Jobs,
         \/ \E resume \in BOOLEAN : Launch(j, resume)
         \/ Claim(j) \/ NotClaimed(j) \/ BeginItem(j) \/ Release(j)
  PROVE  SentInv'
<1>1. ASSUME NEW label, label \notin HeldPc, Goto(j, label), UNCHANGED <<item, write>>
      PROVE SentInv'
  <2>1. \A k \in Jobs : /\ worker'[k].item = worker[k].item /\ worker'[k].sent = worker[k].sent
                        /\ worker'[k].pc = worker[k].pc \/ worker'[k].pc \notin HeldPc
    BY <1>1 DEF Goto, Typed, WorkerRow
  <2> QED BY <1>1, <2>1, QuietKeepsSent
<1>2. ASSUME NEW resume \in BOOLEAN, Launch(j, resume) PROVE SentInv'
  <2>1. (IF resume THEN "resuming" ELSE "authorizing") \notin HeldPc
    BY DEF HeldPc
  <2> QED BY <1>1, <1>2, <2>1 DEF Launch
<1>3. CASE Claim(j)
  <2>1. "loop" \notin HeldPc
    BY DEF HeldPc
  <2> QED BY <1>1, <1>3, <2>1 DEF Claim
<1>4. CASE NotClaimed(j) \/ Release(j)
  <2>1. ~worker'[j].sent /\ ~Holds(j)' /\ worker'[j].pc \notin HeldPc
    BY <1>4, QuarantineAssumption DEF NotClaimed, Release, Typed, Idle, Holds, HeldPc, ItemsOf
  <2>2. \A k \in Jobs \ {j} : worker'[k] = worker[k]
    BY <1>4 DEF NotClaimed, Release, Typed
  <2>3. QuietItems \/ UNCHANGED item
    BY <1>4, ItemsAreQuiet DEF NotClaimed
  <2>4. UNCHANGED write
    BY <1>4 DEF NotClaimed, Release
  <2> QED BY <2>1, <2>2, <2>3, <2>4, QuietKeepsSent
<1>5. CASE BeginItem(j)
  <2>1. PICK i \in Queued(j) :
          /\ item' = [item EXCEPT ![i].status = "running"]
          /\ worker' = [worker EXCEPT ![j].pc = "begun", ![j].item = i]
    BY <1>5 DEF BeginItem
  <2>2. i \in Items /\ JobOf[i] = j /\ item[i].status = "queued" /\ UNCHANGED write
    BY <1>5 DEF BeginItem, Queued, ItemsOf
  <2>3. \A k \in Items : /\ item'[k].sent = item[k].sent
                         /\ k # i => item'[k].status = item[k].status
                         /\ k = i => item'[k].status = "running"
    BY <2>1, <2>2 DEF Typed, ItemRow
  <2>4. \A k \in Jobs : /\ worker'[k].sent = worker[k].sent
                        /\ k # j => worker'[k] = worker[k]
                        /\ k = j => worker'[k].pc = "begun" /\ worker'[k].item = i
    BY <2>1 DEF Typed, WorkerRow
  <2>5. ~worker[j].sent /\ ~item[i].sent /\ write[i].state = "none"
    BY <1>5, <2>2 DEF BeginItem, SentInv, Typed, HeldPc
  <2>6. \A k \in Jobs : Holds(k)' <=> (k = j \/ Holds(k))
    BY <2>2, <2>4 DEF Holds, ItemsOf
  <2>7. \A k \in Jobs : Holds(k) => worker[k].item \in Items
    BY DEF Holds, ItemsOf
  <2>8. \A k \in Jobs : worker[k].pc \in HeldPc => Holds(k)
    BY DEF Typed
  <2> QED BY <2>2, <2>3, <2>4, <2>5, <2>6, <2>7, <2>8 DEF SentInv, HeldPc
<1> QED BY <1>2, <1>3, <1>4, <1>5

LEMMA ItemKeepsSent ==
  ASSUME Typed, Typed', SentInv, LeaseInv, NEW j \in Jobs,
         \/ ReadFirst(j) \/ ReadAgain(j) \/ Post(j) \/ Verify(j)
         \/ \E ack \in BOOLEAN : MarkSent(j, ack) \/ Finish(j, ack)
         \/ ItemFails(j) \/ PauseItem(j) \/ FinishFailed(j) \/ PersistFails(j)
  PROVE  SentInv'
<1> DEFINE i == worker[j].item
<1>1. /\ i \in Items /\ JobOf[i] = j /\ item[i] \in ItemRow /\ write[i] \in WriteRow
      /\ Holds(j) /\ worker[j] \in WorkerRow
  BY HeldItem DEF ReadFirst, ReadAgain, Post, Verify, MarkSent, Finish, ItemFails, PauseItem,
                  FinishFailed, PersistFails, HeldPc, Typed
<1>2. ASSUME worker[j].pc \in {"begun", "confirmed"}, ReadStatus(j) PROVE SentInv'
  <2>1. \A k \in Jobs : /\ worker'[k].item = worker[k].item /\ worker'[k].sent = worker[k].sent
                        /\ k # j => worker'[k].pc = worker[k].pc
    BY <1>2 DEF ReadStatus, Goto, Typed, WorkerRow
  <2>2. worker'[j].pc \in {"confirmed", "matched", "unchanged"}
    BY <1>2 DEF ReadStatus, Goto, Typed, WorkerRow
  <2>3. UNCHANGED <<item, write>>
    BY <1>2 DEF ReadStatus
  <2> QED BY <1>2, <2>1, <2>2, <2>3, QuietKeepsSent
<1>3. CASE ReadFirst(j) \/ ReadAgain(j)
  BY <1>2, <1>3 DEF ReadFirst, ReadAgain
<1>4. CASE Verify(j)
  <2>1. \A k \in Jobs : /\ worker'[k].item = worker[k].item /\ worker'[k].sent = worker[k].sent
                        /\ k # j => worker'[k].pc = worker[k].pc
    BY <1>4 DEF Verify, Typed, WorkerRow
  <2>2. worker[j].pc = "posted" /\ worker'[j].pc = "verified"
    BY <1>4 DEF Verify, Typed, WorkerRow
  <2>3. UNCHANGED <<item, write>>
    BY <1>4 DEF Verify
  <2> QED BY <2>1, <2>2, <2>3, QuietKeepsSent
<1>5. CASE ItemFails(j)
  <2>1. \A k \in Jobs : /\ worker'[k].item = worker[k].item /\ worker'[k].sent = worker[k].sent
                        /\ k # j => worker'[k].pc = worker[k].pc
    BY <1>5 DEF ItemFails, Goto, Typed, WorkerRow
  <2>2. worker'[j].pc \notin HeldPc
    BY <1>5 DEF ItemFails, Goto, Typed, WorkerRow, HeldPc
  <2>3. UNCHANGED <<item, write>>
    BY <1>5 DEF ItemFails
  <2> QED BY <2>1, <2>2, <2>3, QuietKeepsSent
<1>6. ASSUME NEW label \in {"loop", "releasing"}, LeaveItem(j, label)
      PROVE  /\ ~worker'[j].sent /\ ~Holds(j)' /\ worker'[j].pc \notin HeldPc
             /\ \A k \in Jobs \ {j} : worker'[k] = worker[k]
  BY <1>6, QuarantineAssumption DEF LeaveItem, Idle, Holds, HeldPc, ItemsOf, Typed
<1>7. CASE PauseItem(j) \/ PersistFails(j)
  <2>1. QuietItems \/ UNCHANGED item
    BY <1>7, ItemsAreQuiet DEF PersistFails
  <2>2. UNCHANGED write /\ LeaveItem(j, "releasing")
    BY <1>7 DEF PauseItem, PersistFails
  <2> QED BY <1>6, <2>1, <2>2, QuietKeepsSent
<1>8. CASE FinishFailed(j)
  <2>1. PICK outcome \in FailedAs(j) :
          item' = [item EXCEPT ![i].status = outcome,
                     ![i].recon = IF outcome = "inconclusive" THEN "required" ELSE "not_required"]
    BY <1>8 DEF FinishFailed
  <2>2. \A k \in Items : /\ item'[k].sent = item[k].sent
                         /\ k # i => item'[k].status = item[k].status
                         /\ k = i => item'[k].status = outcome
    BY <1>1, <2>1 DEF Typed, ItemRow
  <2>3. \/ outcome = "inconclusive" /\ item[i].sent
        \/ outcome \in {"cancelled", "failed"} /\ write[i].state = "none"
    BY <1>1, <2>1 DEF FailedAs, SentInv
  <2>4. UNCHANGED write /\ \E label \in {"loop", "releasing"} : LeaveItem(j, label)
    BY <1>8 DEF FinishFailed
  <2>5. /\ ~worker'[j].sent /\ ~Holds(j)' /\ worker'[j].pc \notin HeldPc
        /\ \A k \in Jobs \ {j} : worker'[k] = worker[k]
    BY <1>6, <2>4
  <2>6. \A k \in Jobs \ {j} : (Holds(k)' <=> Holds(k)) /\ (Holds(k) => worker[k].item \in Items)
    BY <2>5 DEF Holds, ItemsOf
  <2>7. \A k \in Jobs : worker[k].pc \in HeldPc => Holds(k)
    BY DEF Typed
  <2> QED BY <1>1, <2>2, <2>3, <2>4, <2>5, <2>6, <2>7 DEF SentInv, HeldPc
<1>9. ASSUME NEW ack \in BOOLEAN, Finish(j, ack) PROVE SentInv'
  <2>1. PICK status \in {"succeeded", "skipped"} :
          /\ item' = [item EXCEPT ![i].status = status, ![i].observed = worker[j].seen]
          /\ status = "skipped" => worker[j].pc = "unchanged"
    BY <1>9 DEF Finish
  <2>2. \A k \in Items : /\ item'[k].sent = item[k].sent
                         /\ k # i => item'[k].status = item[k].status
                         /\ k = i => item'[k].status = status
    BY <1>1, <2>1 DEF Typed, ItemRow
  <2>3. status = "skipped" => write[i].state = "none"
    BY <1>1, <2>1 DEF SentInv
  <2>4. /\ worker'[j].pc \notin HeldPc
        /\ \/ ~worker'[j].sent /\ ~Holds(j)'
           \/ worker'[j].sent = worker[j].sent /\ worker'[j].item = i
        /\ \A k \in Jobs \ {j} : worker'[k] = worker[k]
    <3>1. CASE ack
      BY <1>6, <1>9, <3>1 DEF Finish
    <3>2. CASE ~ack
      BY <1>1, <1>9, <3>2 DEF Finish, Goto, HeldPc, Typed, WorkerRow
    <3> QED BY <3>1, <3>2
  <2>5. UNCHANGED write
    BY <1>9 DEF Finish
  <2>6. \A k \in Jobs \ {j} : (Holds(k)' <=> Holds(k)) /\ (Holds(k) => worker[k].item \in Items)
    BY <2>4 DEF Holds, ItemsOf
  <2>7. worker'[j].item = i => Holds(j)'
    BY <1>1 DEF Holds
  <2>8. \A k \in Jobs : worker[k].pc \in HeldPc => Holds(k)
    BY DEF Typed
  <2> QED BY <1>1, <2>2, <2>3, <2>4, <2>5, <2>6, <2>7, <2>8 DEF SentInv, HeldPc
<1>10. ASSUME NEW ack \in BOOLEAN, MarkSent(j, ack) PROVE SentInv'
  <2>1. /\ item[i].status = "running" /\ ~item[i].sent /\ write[i].state = "none"
        /\ UNCHANGED write
    BY <1>1, <1>10 DEF MarkSent, Markable, SentInv
  <2>2. \A k \in Items : /\ k # i => item'[k] = item[k]
                         /\ k = i => item'[k].sent /\ item'[k].status = "running"
    <3>1. item \in [Items -> ItemRow] /\ i \in Items
      BY <1>1 DEF Typed
    <3>2. item' = [item EXCEPT ![i] = [item[i] EXCEPT !.sent = TRUE]]
      BY <1>10 DEF MarkSent
    <3>3. item[i] \in ItemRow
      BY <3>1
    <3>4. [item[i] EXCEPT !.sent = TRUE].sent /\ [item[i] EXCEPT !.sent = TRUE].status = "running"
      BY ONLY <2>1, <3>3 DEF ItemRow
    <3> QED BY ONLY <3>1, <3>2, <3>4
  <2>3. /\ worker'[j].pc = IF ack THEN "marked" ELSE "failing"
        /\ worker'[j].sent = ack /\ worker'[j].item = i
        /\ \A k \in Jobs \ {j} : worker'[k] = worker[k]
    <3> DEFINE row == [worker[j] EXCEPT !.pc = IF ack THEN "marked" ELSE "failing", !.sent = ack]
    <3>1. worker \in [Jobs -> WorkerRow] /\ worker[j] \in WorkerRow
      BY DEF Typed
    <3>2. worker' = [worker EXCEPT ![j] = row]
      BY <1>10 DEF MarkSent
    <3>3. row.pc = (IF ack THEN "marked" ELSE "failing") /\ row.sent = ack /\ row.item = i
      BY <3>1 DEF WorkerRow
    <3> HIDE DEF row
    <3> QED BY <3>1, <3>2, <3>3
  <2>4. \A k \in Jobs : (Holds(k)' <=> Holds(k)) /\ (Holds(k) => worker[k].item \in Items)
    BY <2>3 DEF Holds, ItemsOf
  <2>5. \A k \in Jobs : worker[k].pc \in HeldPc => Holds(k)
    BY DEF Typed
  <2>6. \A k \in Items : item[k].sent => item'[k].sent
    BY <2>2
  <2> QED BY <1>1, <2>1, <2>2, <2>3, <2>4, <2>5, <2>6 DEF SentInv, HeldPc
<1>11. CASE Post(j)
  <2>1. /\ worker[j].pc = "marked" /\ worker[j].sent /\ UNCHANGED item
        /\ item[i].sent /\ item[i].status = "running"
    BY <1>1, <1>11 DEF Post, SentInv, LeaseInv, HeldPc
  <2>2. \A k \in Items : k # i => write'[k] = write[k]
    BY <1>11 DEF Post, Typed
  <2>3. /\ worker'[j].pc = "posted"
        /\ worker'[j].sent = worker[j].sent /\ worker'[j].item = i
        /\ \A k \in Jobs \ {j} : worker'[k] = worker[k]
    BY <1>11 DEF Post, Goto, Typed, WorkerRow
  <2>4. \A k \in Jobs : /\ Holds(k)' <=> Holds(k)
                        /\ Holds(k) => worker[k].item \in Items /\ JobOf[worker[k].item] = k
    BY <2>3 DEF Holds, ItemsOf
  <2>5. \A k \in Jobs : worker[k].pc \in HeldPc => Holds(k)
    BY DEF Typed
  <2>6. \A k \in Jobs \ {j} : Holds(k) => worker[k].item # i
    BY <1>1, <2>4
  <2>7. \A k \in Items :
          write'[k].state # "none" => item[k].sent /\ item[k].status \in {"running", "succeeded", "inconclusive"}
    BY <2>1, <2>2 DEF SentInv
  <2>8. ASSUME NEW k \in Jobs
        PROVE  /\ worker'[k].sent => Holds(k)' /\ item[worker'[k].item].sent
               /\ worker'[k].pc \in {"begun", "confirmed", "matched", "unchanged"} => ~worker'[k].sent
               /\ worker'[k].pc \in {"marked", "posted", "verified"} => worker'[k].sent
               /\ (Holds(k)' /\ write'[worker'[k].item].state # "none") => worker'[k].sent
               /\ worker'[k].pc = "marked" => write'[worker'[k].item].state = "none"
    <3>1. CASE k = j
      BY <1>1, <2>1, <2>3, <2>4, <3>1
    <3>2. CASE k # j
      <4>1. worker'[k] = worker[k]
        BY <2>3, <3>2
      <4>2. Holds(k) => write'[worker[k].item] = write[worker[k].item]
        BY <2>2, <2>4, <2>6, <3>2
      <4> QED BY <2>4, <2>5, <2>8, <4>1, <4>2 DEF SentInv, HeldPc
    <3> QED BY <3>1, <3>2
  <2> QED BY <2>1, <2>7, <2>8 DEF SentInv
<1> QED BY <1>3, <1>4, <1>5, <1>7, <1>8, <1>9, <1>10, <1>11

LEMMA OthersKeepSent ==
  ASSUME Typed, Typed', SentInv,
         \/ \E r \in Reconcilers : ReconcilerStep(r)
         \/ EnvironmentStep
  PROVE  SentInv'
<1>1. ASSUME NEW r \in Reconcilers, ReconcilerStep(r) PROVE SentInv'
  <2>1. UNCHANGED <<write, worker>>
    BY <1>1 DEF ReconcilerStep, ReconcileRead, RecordReconciliation, ReconcileFails
  <2>2. QuietItems \/ UNCHANGED item
    BY <1>1, ItemsAreQuiet DEF ReconcilerStep, ReconcileRead, ReconcileFails
  <2> QED BY <2>1, <2>2, QuietKeepsSent
<1>2. CASE RevokeSession \/ Drain
  BY <1>2, StoppedWorkersAreSame, QuietKeepsSent DEF RevokeSession, Drain, SameWorkers
<1>3. CASE ProcessEnds
  <2>1. \A j \in Jobs : ~worker'[j].sent /\ ~Holds(j)' /\ worker'[j].pc \notin HeldPc
    BY <1>3, QuarantineAssumption DEF ProcessEnds, Idle, Holds, HeldPc, ItemsOf
  <2> QED BY <1>3, <2>1, QuietKeepsSent DEF ProcessEnds
<1>4. ASSUME NEW i \in Items, WriteLands(i) PROVE SentInv'
  <2>1. \A k \in Items : write'[k].state = "none" <=> write[k].state = "none"
    BY <1>4 DEF WriteLands, Typed
  <2> QED BY <1>4, <2>1, QuietKeepsSent DEF WriteLands
<1>5. CASE ParkQueued \/ Listen \/ \E t \in Targets : ExternalEdit(t) \/ LockIsLost(t)
  BY <1>5, QuietKeepsSent DEF ParkQueued, Listen, ExternalEdit, LockIsLost
<1> QED BY <1>1, <1>2, <1>3, <1>4, <1>5 DEF EnvironmentStep

-----------------------------------------------------------------------------
(* Jobs and their items *)

LEMMA AggregateKeepsJobs ==
  ASSUME Typed, JobInv, NEW j \in Jobs, job[j].status # "absent",
         NEW row \in JobRow, NEW it \in [Items -> ItemRow],
         \A i \in Items : JobOf[i] # j => it[i] = item[i],
         AggregateEffect(j, row, it)
  PROVE  JobInv'
<1>1. PICK status \in JobStatus \ {"queued"} :
        /\ job'[j] = [row EXCEPT !.status = status]
        /\ status = "running" <=> \E i \in ItemsOf(j) : item'[i].status = "running"
        /\ status = "inconclusive" => \E i \in ItemsOf(j) :
             item'[i].status = "inconclusive" /\ item'[i].recon = "required"
        /\ (\E i \in ItemsOf(j) : item'[i].status = "inconclusive" /\ item'[i].recon = "required")
             => status \in {"running", "inconclusive"}
  BY DEF AggregateEffect
<1>2. job'[j].status = status /\ status \notin {"queued", "absent"}
  BY <1>1 DEF JobRow, JobStatus
<1>3. \A k \in Jobs \ {j} : job'[k] = job[k]
  BY DEF AggregateEffect
<1>4. \A i \in Items : JobOf[i] # j => item'[i] = item[i]
  BY DEF AggregateEffect
<1>5. \A i \in Items : JobOf[i] \in Jobs
  BY QuarantineAssumption
<1>6. \A i \in Items : item'[i].status = "running" => job'[JobOf[i]].status = "running"
  <2> SUFFICES ASSUME NEW i \in Items, item'[i].status = "running" PROVE job'[JobOf[i]].status = "running"
    OBVIOUS
  <2>1. CASE JobOf[i] = j
    <3>1. i \in ItemsOf(j)
      BY <2>1 DEF ItemsOf
    <3> QED BY <1>1, <1>2, <2>1, <3>1
  <2>2. CASE JobOf[i] # j
    BY <1>3, <1>4, <1>5, <2>2 DEF JobInv
  <2> QED BY <2>1, <2>2
<1>7. \A i \in Items : /\ job'[JobOf[i]].status = "queued" => item'[i].status = "queued"
                       /\ job'[JobOf[i]].status = "absent" => item'[i].status = "absent"
  BY <1>2, <1>3, <1>4, <1>5 DEF JobInv
<1>8. \A k \in Jobs : job'[k].status = "absent" => ~job'[k].cancel /\ job'[k].lease = "none"
  BY <1>2, <1>3 DEF JobInv
<1>9. ASSUME NEW k \in Jobs, AtRest(k)'
      PROVE  job'[k].status = "inconclusive" <=> \E i \in ItemsOf(k) : AwaitsReconciliation(i)'
  <2>1. CASE k = j
    BY <1>1, <1>2, <1>9, <2>1 DEF AtRest, AwaitsReconciliation
  <2>2. CASE k # j
    <3>1. \A i \in ItemsOf(k) : AwaitsReconciliation(i)' <=> AwaitsReconciliation(i)
      BY <1>4, <2>2 DEF ItemsOf, AwaitsReconciliation
    <3>2. AtRest(k) /\ job'[k] = job[k]
      BY <1>3, <1>9, <2>2 DEF AtRest
    <3> QED BY <3>1, <3>2 DEF JobInv
  <2> QED BY <2>1, <2>2
<1>10. \A k \in Jobs : ItemsOf(k)' = ItemsOf(k)
  BY DEF ItemsOf
<1> QED BY <1>6, <1>7, <1>8, <1>9, <1>10 DEF JobInv

(* A job that is under way after a step may have changed any of its items.  *)
LEMMA RunningKeepsJobs ==
  ASSUME Typed, JobInv, NEW j \in Jobs, job'[j].status = "running",
         \A k \in Jobs \ {j} : job'[k] = job[k],
         \A i \in Items : JobOf[i] # j => item'[i] = item[i]
  PROVE  JobInv'
<1>1. \A i \in Items : JobOf[i] \in Jobs
  BY QuarantineAssumption
<1>2. \A i \in Items : /\ item'[i].status = "running" => job'[JobOf[i]].status = "running"
                       /\ job'[JobOf[i]].status = "queued" => item'[i].status = "queued"
                       /\ job'[JobOf[i]].status = "absent" => item'[i].status = "absent"
  BY <1>1 DEF JobInv
<1>3. \A k \in Jobs : job'[k].status = "absent" => ~job'[k].cancel /\ job'[k].lease = "none"
  BY DEF JobInv
<1>4. ASSUME NEW k \in Jobs, AtRest(k)'
      PROVE  job'[k].status = "inconclusive" <=> \E i \in ItemsOf(k) : AwaitsReconciliation(i)'
  <2>1. k # j /\ AtRest(k) /\ job'[k] = job[k]
    BY <1>4 DEF AtRest
  <2>2. \A i \in ItemsOf(k) : AwaitsReconciliation(i)' <=> AwaitsReconciliation(i)
    BY <2>1 DEF ItemsOf, AwaitsReconciliation
  <2> QED BY <2>1, <2>2 DEF JobInv
<1>5. \A k \in Jobs : ItemsOf(k)' = ItemsOf(k)
  BY DEF ItemsOf
<1> QED BY <1>2, <1>3, <1>4, <1>5 DEF JobInv

(* What only parks queued jobs, or changes no status at all.                *)
LEMMA QuietKeepsJobs ==
  ASSUME Typed, JobInv, UNCHANGED item,
         \A j \in Jobs :
           /\ \/ job'[j].status = job[j].status
              \/ job[j].status = "queued" /\ job'[j].status = "waiting_authorization"
           /\ job[j].status = "absent" => job'[j].cancel = job[j].cancel /\ job'[j].lease = job[j].lease
  PROVE  JobInv'
<1>1. \A i \in Items : JobOf[i] \in Jobs
  BY QuarantineAssumption
<1>2. \A i \in Items : /\ item'[i].status = "running" => job'[JobOf[i]].status = "running"
                       /\ job'[JobOf[i]].status = "queued" => item'[i].status = "queued"
                       /\ job'[JobOf[i]].status = "absent" => item'[i].status = "absent"
  BY <1>1 DEF JobInv
<1>3. \A k \in Jobs : job'[k].status = "absent" => ~job'[k].cancel /\ job'[k].lease = "none"
  BY DEF JobInv
<1>4. ASSUME NEW k \in Jobs, AtRest(k)'
      PROVE  job'[k].status = "inconclusive" <=> \E i \in ItemsOf(k) : AwaitsReconciliation(i)'
  <2>1. \A i \in ItemsOf(k) : AwaitsReconciliation(i)' <=> AwaitsReconciliation(i)
    BY DEF AwaitsReconciliation
  <2>2. CASE job[k].status = "queued"
    <3>1. \A i \in ItemsOf(k) : item[i].status = "queued"
      BY <2>2 DEF JobInv, ItemsOf
    <3>2. job'[k].status = "waiting_authorization"
      BY <1>4, <2>2 DEF AtRest
    <3> QED BY <2>1, <3>1, <3>2 DEF AwaitsReconciliation
  <2>3. CASE job[k].status # "queued"
    BY <1>4, <2>1, <2>3 DEF JobInv, AtRest
  <2> QED BY <2>2, <2>3
<1>5. \A k \in Jobs : ItemsOf(k)' = ItemsOf(k)
  BY DEF ItemsOf
<1> QED BY <1>2, <1>3, <1>4, <1>5 DEF JobInv

LEMMA ParkedRow ==
  ASSUME NEW row \in JobRow
  PROVE  /\ Parked(row).cancel = row.cancel /\ Parked(row).lease = row.lease
         /\ \/ Parked(row).status = row.status
            \/ row.status = "queued" /\ Parked(row).status = "waiting_authorization"
BY DEF Parked, JobRow

LEMMA RequestsKeepJobs ==
  ASSUME Typed, JobInv, NEW j \in Jobs, JobStep(j)
  PROVE  JobInv'
<1>1. ASSUME NEW wants \in Wants[j], Submit(j, wants) PROVE JobInv'
  <2>1. \A k \in Jobs \ {j} : job'[k] = job[k]
    BY <1>1 DEF Submit, Typed
  <2>2. job'[j].status = "queued"
    BY <1>1 DEF Submit, Typed, JobRow
  <2>3. \A i \in Items : /\ JobOf[i] # j => item'[i] = item[i]
                         /\ JobOf[i] = j => item'[i].status = "queued"
    <3>1. \A i \in Items : item[i] \in ItemRow
      BY DEF Typed
    <3> QED BY <1>1, <3>1 DEF Submit, ItemsOf, ItemRow
  <2>4. \A i \in Items : JobOf[i] \in Jobs
    BY QuarantineAssumption
  <2>5. ASSUME NEW k \in Jobs, AtRest(k)'
        PROVE  job'[k].status = "inconclusive" <=> \E i \in ItemsOf(k) : AwaitsReconciliation(i)'
    <3>1. k # j /\ AtRest(k) /\ job'[k] = job[k]
      BY <2>1, <2>2, <2>5 DEF AtRest
    <3>2. \A i \in ItemsOf(k) : AwaitsReconciliation(i)' <=> AwaitsReconciliation(i)
      BY <2>3, <3>1 DEF ItemsOf, AwaitsReconciliation
    <3> QED BY <3>1, <3>2 DEF JobInv
  <2>6. \A k \in Jobs : ItemsOf(k)' = ItemsOf(k)
    BY DEF ItemsOf
  <2>7. \A k \in Jobs : job'[k].status = "absent" => ~job'[k].cancel /\ job'[k].lease = "none"
    BY <2>1, <2>2 DEF JobInv
  <2>8. \A i \in Items : /\ item'[i].status = "running" => job'[JobOf[i]].status = "running"
                         /\ job'[JobOf[i]].status = "queued" => item'[i].status = "queued"
                         /\ job'[JobOf[i]].status = "absent" => item'[i].status = "absent"
    BY <2>1, <2>2, <2>3, <2>4 DEF JobInv
  <2> QED BY <2>5, <2>6, <2>7, <2>8 DEF JobInv
<1>2. CASE Cancel(j)
  <2>1. [job[j] EXCEPT !.cancel = TRUE] \in JobRow /\ item \in [Items -> ItemRow]
    BY JobUpdates DEF Typed
  <2> QED BY <1>2, <2>1, CancelEffect, AggregateKeepsJobs DEF Cancel
<1>3. CASE AbortCancelled(j)
  BY <1>3, QuietKeepsJobs DEF AbortCancelled
<1>4. CASE JobExpires(j) \/ LeaseExpires(j)
  <2>1. \A k \in Jobs : /\ job'[k].status = job[k].status /\ job'[k].cancel = job[k].cancel
                        /\ job[k].status = "absent" => job'[k].lease = job[k].lease
    BY <1>4 DEF JobExpires, LeaseExpires, Typed, JobRow, JobInv
  <2>2. UNCHANGED item
    BY <1>4 DEF JobExpires, LeaseExpires
  <2> QED BY <2>1, <2>2, QuietKeepsJobs
<1>5. CASE Recover(j)
  <2>1. job[j].status = "running" /\ Unleased(j) \in JobRow
    BY <1>5, JobUpdates DEF Recover, Recoverable, Unleased, Typed
  <2>2. \A i \in Items : JobOf[i] # j => RecoveredItems(j)[i] = item[i]
    BY DEF RecoveredItems, ItemsOf
  <2> QED BY <1>5, <2>1, <2>2, RecoverEffect, AggregateKeepsJobs
<1>6. CASE RecoverQueued(j)
  BY <1>6, ParkedRow, QuietKeepsJobs DEF RecoverQueued, Typed
<1> QED BY <1>1, <1>2, <1>3, <1>4, <1>5, <1>6 DEF JobStep

LEMMA WorkersKeepJobs ==
  ASSUME Typed, JobInv, LeaseInv, NEW j \in Jobs, WorkerStep(j)
  PROVE  JobInv'
<1> DEFINE i == worker[j].item
<1>1. CASE \/ \E resume \in BOOLEAN : Launch(j, resume)
           \/ ReadFirst(j) \/ ReadAgain(j) \/ Post(j) \/ Verify(j)
           \/ ItemFails(j) \/ PersistFails(j)
  <2>1. UNCHANGED <<job, item>>
    BY <1>1 DEF Launch, ReadFirst, ReadAgain, ReadStatus, Post, Verify, ItemFails, PersistFails
  <2> QED BY <2>1, QuietKeepsJobs
<1>2. CASE NotClaimed(j)
  <2>1. \A k \in Jobs : job'[k] = job[k] \/ job'[k] = Parked(job[k])
    BY <1>2 DEF NotClaimed, Typed
  <2>2. UNCHANGED item /\ \A k \in Jobs : job[k] \in JobRow
    BY <1>2 DEF NotClaimed, Typed
  <2> QED BY <2>1, <2>2, ParkedRow, QuietKeepsJobs
<1>3. CASE Claim(j) \/ BeginItem(j)
  <2>1. job'[j].status = "running"
    BY <1>3 DEF Claim, BeginItem, Typed, JobRow
  <2>2. \A k \in Jobs \ {j} : job'[k] = job[k]
    BY <1>3 DEF Claim, BeginItem, Typed
  <2>3. \A k \in Items : JobOf[k] # j => item'[k] = item[k]
    BY <1>3 DEF Claim, BeginItem, Queued, ItemsOf, Typed
  <2> QED BY <2>1, <2>2, <2>3, RunningKeepsJobs
<1>4. CASE Release(j)
  <2>1. CASE UNCHANGED <<job, item>>
    BY <2>1, QuietKeepsJobs
  <2>2. CASE ~UNCHANGED <<job, item>>
    <3>1. job[j].status # "absent"
      BY <1>4, <2>2 DEF Release, Fenced, JobInv
    <3>2. Unleased(j) \in JobRow /\ item \in [Items -> ItemRow]
      BY JobUpdates DEF Unleased, Typed
    <3>3. CASE job' = [job EXCEPT ![j] = Unleased(j)] /\ UNCHANGED item
      <4>1. \A k \in Jobs : job'[k].status = job[k].status /\ job'[k].cancel = job[k].cancel
        BY <3>3 DEF Unleased, Typed, JobRow
      <4>2. \A k \in Jobs : job[k].status = "absent" => job'[k].lease = job[k].lease
        BY <3>1, <3>3 DEF Typed
      <4> QED BY <3>3, <4>1, <4>2, QuietKeepsJobs
    <3>4. CASE AggregateEffect(j, Unleased(j), item)
      BY <3>1, <3>2, <3>4, AggregateKeepsJobs
    <3> QED BY <1>4, <2>2, <3>3, <3>4, ReleaseEffect
  <2> QED BY <2>1, <2>2
<1>5. CASE \/ \E ack \in BOOLEAN : MarkSent(j, ack) \/ Finish(j, ack)
           \/ FinishFailed(j)
  <2>1. i \in Items /\ JobOf[i] = j
    BY <1>5, HeldItem DEF MarkSent, Finish, FinishFailed, HeldPc
  <2>2. item[i].status = "running" /\ UNCHANGED job
    BY <1>5 DEF MarkSent, Markable, Finish, FinishFailed
  <2>3. job'[j].status = "running"
    BY <2>1, <2>2 DEF JobInv
  <2>4. \A k \in Items : k # i => item'[k] = item[k]
    BY <1>5, <2>1 DEF MarkSent, Finish, FinishFailed, Typed
  <2> QED BY <2>1, <2>2, <2>3, <2>4, RunningKeepsJobs
<1>6. CASE PauseItem(j)
  <2>1. i \in Items /\ JobOf[i] = j /\ item[i].status = "running"
    BY <1>6, HeldItem DEF PauseItem
  <2>2. job[j].status # "absent" /\ Unleased(j) \in JobRow
    BY <2>1, JobUpdates DEF JobInv, Unleased, Typed
  <2>3. \A k \in Items : JobOf[k] # j => PausedItems(j)[k] = item[k]
    BY <2>1 DEF PausedItems, Typed
  <2> QED BY <1>6, <2>2, <2>3, PauseEffect, AggregateKeepsJobs
<1> QED BY <1>1, <1>2, <1>3, <1>4, <1>5, <1>6 DEF WorkerStep

LEMMA OthersKeepJobs ==
  ASSUME Typed, JobInv,
         (\E r \in Reconcilers : ReconcilerStep(r)) \/ EnvironmentStep
  PROVE  JobInv'
<1>1. ASSUME NEW r \in Reconcilers, RecordReconciliation(r) PROVE JobInv'
  <2> DEFINE i == rec[r].item
  <2>1. i \in Items /\ JobOf[i] \in Jobs /\ item[i].status = "inconclusive"
    BY <1>1, RecordEffect DEF RecordReconciliation, AwaitsReconciliation
  <2>2. job[JobOf[i]].status # "absent" /\ job[JobOf[i]] \in JobRow
    BY <2>1 DEF JobInv, Typed
  <2>3. \A k \in Items : JobOf[k] # JobOf[i] => JudgedItems(r)[k] = item[k]
    BY <2>1 DEF JudgedItems, Typed
  <2> QED BY <1>1, <2>1, <2>2, <2>3, RecordEffect, AggregateKeepsJobs
<1>2. ASSUME NEW r \in Reconcilers, ReconcileFails(r) \/ \E i \in Items : ReconcileRead(r, i)
      PROVE  JobInv'
  BY <1>2, QuietKeepsJobs DEF ReconcileFails, ReconcileRead
<1>3. CASE ParkQueued
  BY <1>3, ParkedRow, QuietKeepsJobs DEF ParkQueued, Typed
<1>4. CASE \/ RevokeSession \/ Drain \/ ProcessEnds \/ Listen
           \/ \E i \in Items : WriteLands(i)
           \/ \E t \in Targets : ExternalEdit(t) \/ LockIsLost(t)
  <2>1. UNCHANGED <<job, item>>
    BY <1>4 DEF RevokeSession, Drain, ProcessEnds, Listen, WriteLands, ExternalEdit, LockIsLost
  <2> QED BY <2>1, QuietKeepsJobs
<1> QED BY <1>1, <1>2, <1>3, <1>4 DEF ReconcilerStep, EnvironmentStep

-----------------------------------------------------------------------------
(* The lease while an item is handled *)

(* A step keeps the lease of those who go on with their item.               *)
LEMMA LeaseFrame ==
  ASSUME Typed, LeaseInv,
         phase' = "starting" => \A j \in Jobs : worker'[j].pc = "idle",
         \A j \in Jobs : worker'[j].pc \in HeldPc =>
           /\ worker[j].pc \in HeldPc /\ worker'[j].item = worker[j].item
           /\ job[j].lease = "live" => job'[j].lease = "live",
         \A i \in Items : item[i].status = "running" =>
           item'[i].status = "running" \/ worker'[JobOf[i]].pc \notin HeldPc
  PROVE  LeaseInv'
<1>1. ASSUME NEW j \in Jobs, worker'[j].pc \in HeldPc
      PROVE  job'[j].lease = "live" /\ item'[worker'[j].item].status = "running"
  <2>1. worker[j].item \in Items /\ JobOf[worker[j].item] = j
    BY <1>1, HeldItem
  <2>2. job[j].lease = "live" /\ item[worker[j].item].status = "running"
    BY <1>1 DEF LeaseInv
  <2> QED BY <1>1, <2>1, <2>2
<1> QED BY <1>1 DEF LeaseInv

LEMMA RequestsKeepLease ==
  ASSUME Typed, LeaseInv, JobInv, NEW j \in Jobs, JobStep(j)
  PROVE  LeaseInv'
<1>1. ASSUME NEW wants \in Wants[j], Submit(j, wants) PROVE LeaseInv'
  <2>1. \A i \in Items : item[i].status = "running" => JobOf[i] # j /\ item'[i] = item[i]
    <3>1. \A i \in Items : JobOf[i] = j => item[i].status = "absent"
      BY <1>1 DEF Submit, JobInv
    <3> QED BY <1>1, <3>1 DEF Submit, ItemsOf
  <2>2. \A k \in Jobs : job'[k].lease = job[k].lease
    <3> DEFINE row == [job[j] EXCEPT !.status = "queued", !.wants = wants]
    <3>1. job \in [Jobs -> JobRow] /\ job[j] \in JobRow
      BY DEF Typed
    <3>2. job' = [job EXCEPT ![j] = row]
      BY <1>1 DEF Submit
    <3>3. row.lease = job[j].lease
      BY <3>1 DEF JobRow
    <3> HIDE DEF row
    <3> QED BY <3>1, <3>2, <3>3
  <2>3. UNCHANGED <<worker, phase>>
    BY <1>1 DEF Submit, server
  <2>4. phase' = "starting" => \A k \in Jobs : worker'[k].pc = "idle"
    BY <2>3 DEF LeaseInv
  <2> QED BY <2>1, <2>2, <2>3, <2>4, LeaseFrame
<1>2. CASE Cancel(j)
  <2>1. AggregateEffect(j, [job[j] EXCEPT !.cancel = TRUE], item) /\ item \in [Items -> ItemRow]
    BY <1>2, CancelEffect DEF Typed
  <2>2. \A i \in Items : item[i].status = "running" => item'[i].status = "running"
    BY <2>1, AggregateFields
  <2>3. \A k \in Jobs : job'[k].lease = job[k].lease
    <3>1. /\ [job[j] EXCEPT !.cancel = TRUE] \in JobRow
          /\ [job[j] EXCEPT !.cancel = TRUE].lease = job[j].lease
      <4>1. job[j] \in JobRow
        BY DEF Typed
      <4>2. [job[j] EXCEPT !.cancel = TRUE].lease = job[j].lease
        BY <4>1 DEF JobRow
      <4> QED BY <4>1, <4>2, JobUpdates
    <3> QED BY <2>1, <3>1, AggregateJobFields
  <2> QED BY <1>2, <2>2, <2>3, LeaseFrame DEF Cancel, server, LeaseInv
<1>3. CASE AbortCancelled(j)
  BY <1>3, StoppedWorkersAreSame, LeaseFrame DEF AbortCancelled, SameWorkers, server, LeaseInv
<1>4. CASE JobExpires(j) \/ RecoverQueued(j)
  <2>1. \A k \in Jobs : job'[k].lease = job[k].lease
    BY <1>4, ParkedRow DEF JobExpires, RecoverQueued, Typed, JobRow
  <2> QED BY <1>4, <2>1, LeaseFrame DEF JobExpires, RecoverQueued, server, LeaseInv
<1>5. CASE LeaseExpires(j)
  <2>1. \A k \in Jobs : worker[k].pc \in HeldPc => job'[k].lease = job[k].lease
    BY <1>5 DEF LeaseExpires, Typed, JobRow
  <2> QED BY <1>5, <2>1, LeaseFrame DEF LeaseExpires, server, LeaseInv
<1>6. CASE Recover(j)
  <2>1. worker[j].pc \notin HeldPc
    BY <1>6 DEF Recover, Recoverable, LeaseInv, HeldPc
  <2>2. \A i \in Items : JobOf[i] # j => item'[i].status = item[i].status
    BY <1>6, RecoveredFields
  <2>3. \A k \in Jobs \ {j} : job'[k] = job[k]
    BY <1>6, RecoverEffect DEF AggregateEffect
  <2>4. UNCHANGED <<worker, phase>>
    BY <1>6 DEF Recover, server
  <2> QED BY <2>1, <2>2, <2>3, <2>4, LeaseFrame DEF LeaseInv
<1> QED BY <1>1, <1>2, <1>3, <1>4, <1>5, <1>6 DEF JobStep

LEMMA WorkersKeepLease ==
  ASSUME Typed, LeaseInv, NEW j \in Jobs, WorkerStep(j)
  PROVE  LeaseInv'
<1> DEFINE i == worker[j].item
<1>1. UNCHANGED phase /\ phase # "starting"
  <2>1. UNCHANGED phase
    BY DEF WorkerStep, Launch, Claim, NotClaimed, BeginItem, Release, ReadFirst, ReadAgain, ReadStatus,
           Post, Verify, MarkSent, Finish, ItemFails, PauseItem, FinishFailed, PersistFails, server
  <2>2. worker[j].pc # "idle" \/ phase = "up"
    BY DEF WorkerStep, Launch, Claim, NotClaimed, BeginItem, Release, ReadFirst, ReadAgain,
           Post, Verify, MarkSent, Finish, ItemFails, PauseItem, FinishFailed, PersistFails, HeldPc
  <2> QED BY <2>1, <2>2 DEF LeaseInv
(* A worker that ends or starts without an item.                            *)
<1>2. ASSUME worker'[j].pc \notin HeldPc, \A k \in Jobs \ {j} : worker'[k] = worker[k] /\ job'[k] = job[k],
             \A k \in Items : JobOf[k] # j => item'[k].status = item[k].status
      PROVE  LeaseInv'
  <2>1. \A k \in Items : JobOf[k] = j => worker'[JobOf[k]].pc \notin HeldPc
    BY <1>2
  <2> QED BY <1>1, <1>2, <2>1, LeaseFrame
(* A worker that goes on with its item.                                     *)
<1>3. ASSUME worker[j].pc \in HeldPc, worker'[j].item = i, \A k \in Jobs \ {j} : worker'[k] = worker[k],
             UNCHANGED job, \A k \in Items : item'[k].status = item[k].status
      PROVE  LeaseInv'
  BY <1>1, <1>3, LeaseFrame
<1>4. CASE (\E resume \in BOOLEAN : Launch(j, resume)) \/ Claim(j) \/ NotClaimed(j)
  <2>1. /\ worker'[j].pc \notin HeldPc /\ UNCHANGED item
        /\ \A k \in Jobs \ {j} : worker'[k] = worker[k] /\ job'[k] = job[k]
    <3>0. worker \in [Jobs -> WorkerRow] /\ job \in [Jobs -> JobRow]
      BY DEF Typed
    <3>1. ASSUME NEW label, Goto(j, label)
          PROVE  worker'[j].pc = label /\ \A k \in Jobs \ {j} : worker'[k] = worker[k]
      BY <3>0, <3>1 DEF Goto, WorkerRow
    <3>2. CASE \E resume \in BOOLEAN : Launch(j, resume)
      BY <3>1, <3>2 DEF Launch, HeldPc
    <3>3. CASE Claim(j)
      BY <3>0, <3>1, <3>3 DEF Claim, HeldPc
    <3>4. CASE NotClaimed(j)
      <4>1. worker' = [worker EXCEPT ![j] = Idle] /\ UNCHANGED item
        BY <3>4 DEF NotClaimed
      <4>2. job' = [job EXCEPT ![j] = Parked(job[j])] \/ job' = job
        BY <3>4 DEF NotClaimed
      <4> QED BY <3>0, <4>1, <4>2, IdleRow DEF HeldPc
    <3> QED BY <1>4, <3>2, <3>3, <3>4
  <2> QED BY <1>2, <2>1
<1>5. CASE Release(j)
  <2>1. worker'[j].pc \notin HeldPc /\ \A k \in Jobs \ {j} : worker'[k] = worker[k]
    BY <1>5 DEF Release, Idle, HeldPc, Typed
  <2>2. \/ UNCHANGED <<job, item>>
        \/ job' = [job EXCEPT ![j] = Unleased(j)] /\ UNCHANGED item
        \/ AggregateEffect(j, Unleased(j), item)
    BY <1>5, ReleaseEffect
  <2>3. job \in [Jobs -> JobRow]
    BY DEF Typed
  <2>4. \A k \in Jobs \ {j} : job'[k] = job[k]
    BY ONLY <2>2, <2>3 DEF AggregateEffect
  <2>5. \A k \in Items : JobOf[k] # j => item'[k] = item[k]
    BY ONLY <2>2 DEF AggregateEffect
  <2> QED BY <1>2, <2>1, <2>4, <2>5
<1>6. CASE BeginItem(j)
  <2>1. PICK n \in Queued(j) :
          /\ item' = [item EXCEPT ![n].status = "running"]
          /\ worker' = [worker EXCEPT ![j].pc = "begun", ![j].item = n]
    BY <1>6 DEF BeginItem
  <2>2. n \in Items /\ item'[n].status = "running" /\ \A k \in Items : k # n => item'[k] = item[k]
    BY <2>1 DEF Queued, ItemsOf, Typed, ItemRow
  <2>3. worker'[j].item = n /\ \A k \in Jobs \ {j} : worker'[k] = worker[k]
    BY <2>1 DEF Typed, WorkerRow
  <2>4. job[j].lease = "live" /\ \A k \in Jobs : job'[k].lease = job[k].lease
    BY <1>6 DEF BeginItem, Fenced, Typed, JobRow
  <2>5. \A k \in Jobs \ {j} : worker[k].pc \in HeldPc => item'[worker[k].item].status = "running"
    <3>1. \A k \in Jobs \ {j} : worker[k].pc \in HeldPc => worker[k].item \in Items
      BY HeldItem
    <3> QED BY <2>2, <3>1 DEF LeaseInv
  <2> QED BY <1>1, <2>2, <2>3, <2>4, <2>5 DEF LeaseInv
<1>7. CASE ReadFirst(j) \/ ReadAgain(j) \/ Post(j) \/ Verify(j)
  <2>1. worker[j].pc \in HeldPc /\ UNCHANGED <<job, item>>
    BY <1>7 DEF ReadFirst, ReadAgain, ReadStatus, Post, Verify, HeldPc
  <2>2. worker'[j].item = i /\ \A k \in Jobs \ {j} : worker'[k] = worker[k]
    BY <1>7 DEF ReadFirst, ReadAgain, ReadStatus, Post, Verify, Goto, Typed, WorkerRow
  <2> QED BY <1>3, <2>1, <2>2
<1>8. ASSUME NEW ack \in BOOLEAN, MarkSent(j, ack) PROVE LeaseInv'
  <2>1. worker[j].pc \in HeldPc /\ UNCHANGED job
    BY <1>8 DEF MarkSent, HeldPc
  <2>2. worker'[j].item = i /\ \A k \in Jobs \ {j} : worker'[k] = worker[k]
    BY <1>8 DEF MarkSent, Typed, WorkerRow
  <2>3. \A k \in Items : item'[k].status = item[k].status
    BY <1>8 DEF MarkSent, Typed, ItemRow
  <2> QED BY <1>3, <2>1, <2>2, <2>3
<1>9. ASSUME NEW label, label \notin HeldPc, LeaveItem(j, label)
      PROVE  worker'[j].pc \notin HeldPc /\ \A k \in Jobs \ {j} : worker'[k] = worker[k]
  BY <1>9 DEF LeaveItem, Idle, Typed
<1>10. "loop" \notin HeldPc /\ "releasing" \notin HeldPc /\ "failing" \notin HeldPc
  BY DEF HeldPc
<1>11. CASE (\E ack \in BOOLEAN : Finish(j, ack)) \/ FinishFailed(j) \/ ItemFails(j) \/ PersistFails(j)
  <2>1. worker'[j].pc \notin HeldPc /\ \A k \in Jobs \ {j} : worker'[k] = worker[k]
    <3>1. CASE Goto(j, "failing")
      BY <1>10, <3>1 DEF Goto, Typed, WorkerRow
    <3>2. CASE LeaveItem(j, "loop") \/ LeaveItem(j, "releasing")
      BY <1>9, <1>10, <3>2
    <3> QED BY <1>11, <3>1, <3>2 DEF Finish, FinishFailed, ItemFails, PersistFails
  <2>2. i \in Items /\ JobOf[i] = j
    BY <1>11, HeldItem DEF Finish, FinishFailed, ItemFails, PersistFails, HeldPc
  <2>3. \A k \in Items : k # i => item'[k] = item[k]
    BY <1>11 DEF Finish, FinishFailed, ItemFails, PersistFails, Typed
  <2>4. UNCHANGED job
    BY <1>11 DEF Finish, FinishFailed, ItemFails, PersistFails
  <2> QED BY <1>2, <2>1, <2>2, <2>3, <2>4
<1>12. CASE PauseItem(j)
  <2>1. LeaveItem(j, "releasing")
    BY <1>12 DEF PauseItem
  <2>2. \A k \in Items : JobOf[k] # j => item'[k].status = item[k].status
    BY <1>12, PausedFields
  <2>3. \A k \in Jobs \ {j} : job'[k] = job[k]
    BY <1>12, PauseEffect DEF AggregateEffect
  <2> QED BY <1>2, <1>9, <1>10, <2>1, <2>2, <2>3
<1> QED BY <1>4, <1>5, <1>6, <1>7, <1>8, <1>11, <1>12 DEF WorkerStep

LEMMA OthersKeepLease ==
  ASSUME Typed, LeaseInv,
         (\E r \in Reconcilers : ReconcilerStep(r)) \/ EnvironmentStep
  PROVE  LeaseInv'
<1>1. ASSUME NEW r \in Reconcilers, RecordReconciliation(r) PROVE LeaseInv'
  <2>1. \A i \in Items : item[i].status = "running" => item'[i].status = "running"
    BY <1>1, JudgedFields
  <2>2. JobOf[rec[r].item] \in Jobs /\ job[JobOf[rec[r].item]] \in JobRow
    BY <1>1, RecordEffect DEF Typed
  <2>3. \A k \in Jobs : job'[k].lease = job[k].lease
    BY <1>1, <2>2, RecordEffect, AggregateJobFields
  <2>4. UNCHANGED <<worker, phase>>
    BY <1>1 DEF RecordReconciliation, server
  <2> QED BY <2>1, <2>3, <2>4, LeaseFrame DEF LeaseInv
<1>2. ASSUME NEW r \in Reconcilers, ReconcileFails(r) \/ \E i \in Items : ReconcileRead(r, i)
      PROVE  LeaseInv'
  <2>1. UNCHANGED <<job, item, worker, phase>>
    BY <1>2 DEF ReconcileFails, ReconcileRead, server
  <2> QED BY <2>1, LeaseFrame DEF LeaseInv
<1>3. CASE ParkQueued
  <2>1. \A k \in Jobs : job'[k].lease = job[k].lease
    BY <1>3, ParkedRow DEF ParkQueued, Typed
  <2> QED BY <1>3, <2>1, LeaseFrame DEF ParkQueued, LeaseInv
<1>4. CASE RevokeSession \/ Drain
  <2>1. SameWorkers
    BY <1>4, StoppedWorkersAreSame
  <2>2. UNCHANGED <<job, item>> /\ (phase' = "starting" => phase = "starting")
    BY <1>4 DEF RevokeSession, Drain
  <2> QED BY <2>1, <2>2, LeaseFrame DEF SameWorkers, LeaseInv
<1>5. CASE ProcessEnds
  <2>1. \A j \in Jobs : worker'[j].pc = "idle"
    BY <1>5 DEF ProcessEnds, Idle
  <2> QED BY <2>1 DEF LeaseInv, HeldPc
<1>6. CASE \/ Listen
           \/ \E i \in Items : WriteLands(i)
           \/ \E t \in Targets : ExternalEdit(t) \/ LockIsLost(t)
  <2>1. UNCHANGED <<job, item, worker>> /\ (phase' = "starting" => phase = "starting")
    BY <1>6 DEF Listen, WriteLands, ExternalEdit, LockIsLost, server
  <2> QED BY <2>1, LeaseFrame DEF LeaseInv
<1> QED BY <1>1, <1>2, <1>3, <1>4, <1>5, <1>6 DEF ReconcilerStep, EnvironmentStep

-----------------------------------------------------------------------------
(* Items, step by step: what one step may do to an item *)

(* It waits, runs again, or ends without a verified outcome.                *)
Waits(i) ==
  /\ item[i].status \in {"absent", "queued", "running"}
  /\ IF item[i].status = "absent" THEN item'[i].prestate = provider[TargetOf[i]] /\ UNCHANGED provider
                                  ELSE item'[i].prestate = item[i].prestate
  /\ item'[i].status \in {"queued", "running", "cancelled", "failed"}
  /\ item'[i].sent = item[i].sent /\ item'[i].recon = "not_required"
  /\ item'[i].sent => item'[i].status \notin {"queued", "running"}
  /\ job[JobOf[i]].cancel => item'[i].status \in {item[i].status, "failed", "cancelled"}

(* It is marked sent: the one way to become unsettled.                      *)
Marks(i) ==
  /\ item[i].status = "running" /\ item'[i].status = "running"
  /\ ~item[i].sent /\ item'[i].sent
  /\ item'[i].recon = item[i].recon /\ item'[i].prestate = item[i].prestate
  /\ Toggles(i) /\ TargetSettled(i) /\ ~job[JobOf[i]].cancel
  /\ \A k \in Items \ {i} : item'[k] = item[k]

Doubts(i) ==
  /\ item[i].status = "running" /\ item'[i].status = "inconclusive"
  /\ item[i].sent /\ item'[i].sent
  /\ item'[i].recon = "required" /\ item'[i].prestate = item[i].prestate

Ends(i) ==
  /\ item[i].status = "running" /\ item'[i].status \in {"succeeded", "skipped"}
  /\ item'[i].sent = item[i].sent /\ item'[i].recon = item[i].recon
  /\ item'[i].prestate = item[i].prestate /\ ~job[JobOf[i]].cancel
  /\ item'[i].status = "succeeded" =>
       Toggles(i) /\ Since(i, item'[i].observed) /\ item'[i].observed.on = job[JobOf[i]].wants

IsJudged(i) ==
  /\ item[i].status = "inconclusive" /\ item[i].recon = "required"
  /\ item[i].sent /\ item'[i].sent /\ item'[i].prestate = item[i].prestate
  /\ Since(i, item'[i].observed)
  /\ item'[i].recon = Verdict(i, item'[i].observed)
  /\ item'[i].status = IF item'[i].recon = "verified_applied" THEN "succeeded" ELSE "inconclusive"

ItemMoves(i) == item'[i] = item[i] \/ Waits(i) \/ Marks(i) \/ Doubts(i) \/ Ends(i) \/ IsJudged(i)

LEMMA SameItem ==
  ASSUME Typed, Typed', NEW i \in Items,
         item'[i].status = item[i].status, item'[i].sent = item[i].sent,
         item'[i].recon = item[i].recon, item'[i].prestate = item[i].prestate,
         item'[i].observed = item[i].observed
  PROVE  item'[i] = item[i]
<1>1. item[i] \in ItemRow /\ item'[i] \in ItemRow
  BY DEF Typed
<1>2. \A row \in ItemRow : row = [status |-> row.status, sent |-> row.sent, recon |-> row.recon,
                                  prestate |-> row.prestate, observed |-> row.observed]
  BY DEF ItemRow
<1> QED BY <1>1, <1>2

LEMMA RequestsMoveItems ==
  ASSUME Typed, Typed', SentInv, JobInv, ReadingInv, NEW j \in Jobs, JobStep(j), NEW i \in Items
  PROVE  ItemMoves(i)
<1>0. item[i] \in ItemRow /\ (item[i].status \notin {"inconclusive", "succeeded"} => item[i].recon = "not_required")
  BY DEF Typed, ReadingInv
<1>1. ASSUME NEW wants \in Wants[j], Submit(j, wants) PROVE ItemMoves(i)
  <2>1. CASE JobOf[i] = j
    <3>1. item[i].status = "absent" /\ ~job[j].cancel
      BY <1>1, <2>1 DEF Submit, JobInv
    <3>2. item'[i] = [item[i] EXCEPT !.status = "queued", !.prestate = provider[TargetOf[i]]]
      BY <1>1, <2>1 DEF Submit, ItemsOf
    <3>3. ~item[i].sent /\ UNCHANGED provider
      BY <1>1, <3>1 DEF Submit, SentInv
    <3> QED BY <1>0, <2>1, <3>1, <3>2, <3>3 DEF ItemMoves, Waits, ItemRow
  <2>2. CASE JobOf[i] # j
    BY <1>1, <2>2 DEF Submit, ItemsOf, ItemMoves
  <2> QED BY <2>1, <2>2
<1>2. CASE Cancel(j)
  <2>1. AggregateEffect(j, [job[j] EXCEPT !.cancel = TRUE], item) /\ item \in [Items -> ItemRow]
    BY <1>2, CancelEffect DEF Typed
  <2>2. /\ item'[i].sent = item[i].sent /\ item'[i].recon = item[i].recon
        /\ item'[i].prestate = item[i].prestate /\ item'[i].observed = item[i].observed
        /\ \/ item'[i].status = item[i].status
           \/ item[i].status = "queued" /\ item'[i].status = "cancelled"
    BY <2>1, AggregateFields
  <2> QED BY <1>0, <2>2, SameItem DEF ItemMoves, Waits
<1>3. CASE AbortCancelled(j) \/ JobExpires(j) \/ LeaseExpires(j) \/ RecoverQueued(j)
  BY <1>3 DEF AbortCancelled, JobExpires, LeaseExpires, RecoverQueued, ItemMoves
<1>4. CASE Recover(j)
  <2>1. CASE item'[i].status = item[i].status /\ item'[i].recon = item[i].recon
    BY <1>4, <2>1, RecoveredFields, SameItem DEF ItemMoves
  <2>2. CASE ~(item'[i].status = item[i].status /\ item'[i].recon = item[i].recon)
    <3>1. item[i].status = "queued" => ~item[i].sent
      BY DEF SentInv
    <3>2. CASE item[i].status = "running" /\ item[i].sent
      BY <1>4, <2>2, <3>2, RecoveredFields DEF ItemMoves, Doubts
    <3>3. CASE ~(item[i].status = "running" /\ item[i].sent)
      BY <1>0, <1>4, <2>2, <3>1, <3>3, RecoveredFields DEF ItemMoves, Waits
    <3> QED BY <3>2, <3>3
  <2> QED BY <2>1, <2>2
<1> QED BY <1>1, <1>2, <1>3, <1>4 DEF JobStep

LEMMA WorkersMoveItems ==
  ASSUME Typed, Typed', SentInv, JobInv, LeaseInv, ReadingInv, NEW j \in Jobs, WorkerStep(j),
         NEW i \in Items
  PROVE  ItemMoves(i)
<1> DEFINE h == worker[j].item
<1>0. /\ \A k \in Items : item[k] \in ItemRow
      /\ \A k \in Items : item[k].status \notin {"inconclusive", "succeeded"} => item[k].recon = "not_required"
      /\ worker[j] \in WorkerRow
  BY DEF Typed, ReadingInv
<1>1. CASE \/ \E resume \in BOOLEAN : Launch(j, resume)
           \/ Claim(j) \/ NotClaimed(j) \/ ReadFirst(j) \/ ReadAgain(j) \/ Post(j) \/ Verify(j)
           \/ ItemFails(j) \/ PersistFails(j)
  <2>1. UNCHANGED item
    BY <1>1 DEF Launch, Claim, NotClaimed, ReadFirst, ReadAgain, ReadStatus, Post, Verify, ItemFails,
                PersistFails
  <2> QED BY <2>1 DEF ItemMoves
<1>2. CASE BeginItem(j)
  <2>1. PICK n \in Queued(j) : item' = [item EXCEPT ![n].status = "running"]
    BY <1>2 DEF BeginItem
  <2>2. n \in Items /\ JobOf[n] = j /\ item[n].status = "queued" /\ ~item[n].sent /\ ~job[j].cancel
    BY <1>2, <2>1 DEF Queued, ItemsOf, BeginItem, Authorized, SentInv
  <2>3. i # n => item'[i] = item[i]
    BY <2>1, <2>2 DEF Typed
  <2>4. item'[n] = [item[n] EXCEPT !.status = "running"]
    BY <2>1, <2>2 DEF Typed
  <2>5. Waits(n)
    BY <1>0, <2>2, <2>4 DEF Waits, ItemRow
  <2> QED BY <2>3, <2>5 DEF ItemMoves
<1>3. CASE Release(j)
  <2>1. CASE UNCHANGED item
    BY <2>1 DEF ItemMoves
  <2>2. CASE ~UNCHANGED item
    <3>1. AggregateEffect(j, Unleased(j), item) /\ item \in [Items -> ItemRow]
      BY <1>3, <2>2, ReleaseEffect DEF Typed
    <3>2. /\ item'[i].sent = item[i].sent /\ item'[i].recon = item[i].recon
          /\ item'[i].prestate = item[i].prestate /\ item'[i].observed = item[i].observed
          /\ \/ item'[i].status = item[i].status
             \/ item[i].status = "queued" /\ item'[i].status = "cancelled"
      BY <3>1, AggregateFields
    <3> QED BY <1>0, <3>2, SameItem DEF ItemMoves, Waits
  <2> QED BY <2>1, <2>2
<1>4. ASSUME NEW ack \in BOOLEAN, MarkSent(j, ack) PROVE ItemMoves(i)
  <2>1. h \in Items /\ JobOf[h] = j
    BY <1>4, HeldItem DEF MarkSent, HeldPc
  <2>2. item' = [item EXCEPT ![h].sent = TRUE] /\ Markable(j) /\ worker[j].pc = "matched"
    BY <1>4 DEF MarkSent
  <2>3. Toggles(h) /\ TargetSettled(h) /\ ~job[j].cancel /\ item[h].status = "running" /\ ~item[h].sent
    BY <2>2 DEF Markable, Authorized, ReadingInv
  <2>4. item'[h] = [item[h] EXCEPT !.sent = TRUE] /\ \A k \in Items \ {h} : item'[k] = item[k]
    BY <2>1, <2>2 DEF Typed
  <2>5. Marks(h)
    BY <1>0, <2>1, <2>3, <2>4 DEF Marks, ItemRow
  <2> QED BY <2>4, <2>5 DEF ItemMoves
<1>5. ASSUME NEW ack \in BOOLEAN, Finish(j, ack) PROVE ItemMoves(i)
  <2>1. h \in Items /\ JobOf[h] = j /\ ~job[j].cancel /\ item[h].status = "running"
    BY <1>5, HeldItem DEF Finish, HeldPc, Authorized
  <2>2. /\ \A k \in Items : k # h => item'[k] = item[k]
        /\ item'[h] = [item[h] EXCEPT !.status = IF worker[j].pc = "verified" THEN "succeeded" ELSE "skipped",
                                      !.observed = worker[j].seen]
    BY <1>5, <2>1 DEF Finish, Typed
  <2>3. worker[j].pc = "verified" => /\ Toggles(h) /\ Since(h, worker[j].seen)
                                     /\ worker[j].seen.on = job[j].wants
    BY <2>1 DEF SentInv, ReadingInv
  <2>4. Ends(h)
    BY <1>0, <2>1, <2>2, <2>3 DEF Ends, ItemRow
  <2> QED BY <2>2, <2>4 DEF ItemMoves
<1>6. CASE PauseItem(j)
  <2>1. CASE item'[i].status = item[i].status
    BY <1>6, <2>1, PausedFields, SameItem DEF ItemMoves
  <2>2. CASE item'[i].status # item[i].status
    <3>1. item[i].status = "queued" => ~item[i].sent
      BY DEF SentInv
    <3>2. Waits(i)
      BY <1>0, <1>6, <2>2, <3>1, PausedFields DEF Waits
    <3> QED BY <3>2 DEF ItemMoves
  <2> QED BY <2>1, <2>2
<1>7. CASE FinishFailed(j)
  <2>1. PICK outcome \in FailedAs(j) :
          item' = [item EXCEPT ![h].status = outcome,
                     ![h].recon = IF outcome = "inconclusive" THEN "required" ELSE "not_required"]
    BY <1>7 DEF FinishFailed
  <2>2. h \in Items /\ JobOf[h] = j /\ item[h].status = "running"
    BY <1>7, HeldItem DEF FinishFailed
  <2>3. \/ outcome = "inconclusive" /\ item[h].sent
        \/ outcome \in {"cancelled", "failed"}
    BY <2>1 DEF FailedAs, SentInv
  <2>4. /\ \A k \in Items : k # h => item'[k] = item[k]
        /\ item'[h] = [item[h] EXCEPT !.status = outcome,
                         !.recon = IF outcome = "inconclusive" THEN "required" ELSE "not_required"]
    BY <2>1, <2>2 DEF Typed
  <2>5. Doubts(h) \/ Waits(h)
    BY <1>0, <2>2, <2>3, <2>4 DEF Doubts, Waits, ItemRow
  <2> QED BY <2>4, <2>5 DEF ItemMoves
<1> QED BY <1>1, <1>2, <1>3, <1>4, <1>5, <1>6, <1>7 DEF WorkerStep

LEMMA OthersMoveItems ==
  ASSUME Typed, Typed', SentInv, JobInv, ReadingInv,
         (\E r \in Reconcilers : ReconcilerStep(r)) \/ EnvironmentStep, NEW i \in Items
  PROVE  ItemMoves(i)
<1>1. ASSUME NEW r \in Reconcilers, RecordReconciliation(r) PROVE ItemMoves(i)
  <2>1. CASE i = rec[r].item
    <3>1. rec[r].pc = "read"
      BY <1>1 DEF RecordReconciliation
    <3>2. item[i].sent /\ Since(i, rec[r].seen)
      BY <2>1, <3>1 DEF ReadingInv
    <3> QED BY <1>1, <2>1, <3>2, JudgedFields DEF ItemMoves, IsJudged, Verdicts
  <2>2. CASE i # rec[r].item
    <3>1. item[i].status = "queued" => item[i].recon = "not_required"
      BY DEF ReadingInv
    <3>2. CASE item'[i].status = item[i].status
      BY <1>1, <2>2, <3>2, JudgedFields, SameItem DEF ItemMoves
    <3>3. CASE item'[i].status # item[i].status
      <4>1. item[i].status = "queued" /\ item'[i].status = "cancelled"
        BY <1>1, <2>2, <3>3, JudgedFields
      <4>2. Waits(i)
        BY <1>1, <2>2, <3>1, <4>1, JudgedFields DEF Waits
      <4> QED BY <4>2 DEF ItemMoves
    <3> QED BY <3>2, <3>3
  <2> QED BY <2>1, <2>2
<1>2. CASE \/ \E r \in Reconcilers : ReconcileFails(r) \/ \E k \in Items : ReconcileRead(r, k)
           \/ EnvironmentStep
  <2>1. UNCHANGED item
    BY <1>2 DEF ReconcileFails, ReconcileRead, EnvironmentStep, RevokeSession, ParkQueued, Drain,
                ProcessEnds, Listen, WriteLands, ExternalEdit, LockIsLost
  <2> QED BY <2>1 DEF ItemMoves
<1> QED BY <1>1, <1>2 DEF ReconcilerStep

-----------------------------------------------------------------------------
(* What the provider showed, and when *)

ProviderMoves ==
  \A t \in Targets : \/ provider'[t] = provider[t]
                     \/ provider'[t] \in Reading /\ provider'[t].time = provider[t].time + 1
WantsKept ==
  \A j \in Jobs : job[j].status # "absent" => job'[j].wants = job[j].wants
WriteMoves ==
  \A i \in Items :
    \/ write'[i].state # "landed"
    \/ write'[i] = write[i]
    \/ write[i].state = "inflight" /\ write'[i].time = provider[TargetOf[i]].time + 1

LEMMA ProviderSteps ==
  ASSUME Typed, Typed', Next
  PROVE  ProviderMoves /\ WriteMoves
<1>1. ASSUME NEW t \in Targets, NEW on \in BOOLEAN, Changed(t, on)
      PROVE  ProviderMoves
  BY <1>1 DEF Changed, ProviderMoves, Typed, Reading
<1>2. ASSUME NEW i \in Items, WriteLands(i) PROVE ProviderMoves /\ WriteMoves
  <2>1. TargetOf[i] \in Targets /\ job[JobOf[i]].wants \in BOOLEAN
    BY QuarantineAssumption DEF Typed, JobRow
  <2>2. WriteMoves
    BY <1>2 DEF WriteLands, WriteMoves, Typed
  <2> QED BY <1>1, <1>2, <2>1, <2>2 DEF WriteLands
<1>3. ASSUME NEW t \in Targets, ExternalEdit(t) PROVE ProviderMoves /\ WriteMoves
  <2>1. ProviderMoves
    BY <1>1, <1>3 DEF ExternalEdit
  <2>2. UNCHANGED write
    BY <1>3 DEF ExternalEdit
  <2> QED BY <2>1, <2>2 DEF WriteMoves
<1>4. ASSUME NEW j \in Jobs, Post(j) PROVE ProviderMoves /\ WriteMoves
  <2>1. worker[j].item \in Items
    BY <1>4, HeldItem DEF Post, HeldPc
  <2> QED BY <1>4, <2>1 DEF Post, ProviderMoves, WriteMoves, Typed, WriteRow
<1>5. ASSUME UNCHANGED <<provider, write>> PROVE ProviderMoves /\ WriteMoves
  BY <1>5 DEF ProviderMoves, WriteMoves
<1>6. ASSUME NEW j \in Jobs, JobStep(j) PROVE UNCHANGED <<provider, write>>
  BY <1>6 DEF JobStep, Submit, Cancel, AbortCancelled, JobExpires, LeaseExpires, Recover, RecoverQueued
<1>7. ASSUME NEW j \in Jobs, WorkerStep(j), ~Post(j) PROVE UNCHANGED <<provider, write>>
  BY <1>7 DEF WorkerStep, Launch, Claim, NotClaimed, BeginItem, Release, ReadFirst, ReadAgain, ReadStatus,
              Verify, MarkSent, Finish, ItemFails, PauseItem, FinishFailed, PersistFails
<1>8. ASSUME NEW r \in Reconcilers, ReconcilerStep(r) PROVE UNCHANGED <<provider, write>>
  BY <1>8 DEF ReconcilerStep, ReconcileRead, RecordReconciliation, ReconcileFails
<1>9. ASSUME RevokeSession \/ ParkQueued \/ Drain \/ ProcessEnds \/ Listen \/ \E t \in Targets : LockIsLost(t)
      PROVE  UNCHANGED <<provider, write>>
  BY <1>9 DEF RevokeSession, ParkQueued, Drain, ProcessEnds, Listen, LockIsLost
<1> QED BY <1>2, <1>3, <1>4, <1>5, <1>6, <1>7, <1>8, <1>9 DEF Next, EnvironmentStep

LEMMA WantsSteps ==
  ASSUME Typed, JobInv, Next
  PROVE  WantsKept
<1>0. \A j \in Jobs : job[j] \in JobRow
  BY DEF Typed
<1>1. ASSUME NEW j \in Jobs, NEW row \in JobRow, row.wants = job[j].wants, NEW it, AggregateEffect(j, row, it)
      PROVE  WantsKept
  BY <1>1, AggregateJobFields DEF WantsKept
<1>2. ASSUME NEW j \in Jobs, JobStep(j) PROVE WantsKept
  <2>1. CASE \E wants \in Wants[j] : Submit(j, wants)
    BY <2>1 DEF Submit, WantsKept, Typed
  <2>2. CASE Cancel(j)
    <3>0. job[j] \in JobRow
      BY <1>0
    <3>1. [job[j] EXCEPT !.cancel = TRUE] \in JobRow /\ [job[j] EXCEPT !.cancel = TRUE].wants = job[j].wants
      BY ONLY <3>0 DEF JobRow
    <3> QED BY <1>1, <2>2, <3>1, CancelEffect
  <2>3. CASE AbortCancelled(j)
    BY <2>3 DEF AbortCancelled, WantsKept
  <2>4. CASE JobExpires(j) \/ LeaseExpires(j) \/ RecoverQueued(j)
    <3>1. CASE JobExpires(j) \/ LeaseExpires(j)
      <4>1. job' = [job EXCEPT ![j].expired = TRUE] \/ job' = [job EXCEPT ![j].lease = "expired"]
        BY <3>1 DEF JobExpires, LeaseExpires
      <4>2. \A k \in Jobs : job'[k].wants = job[k].wants
        <5>1. \A row \in JobRow : /\ [row EXCEPT !.expired = TRUE].wants = row.wants
                                  /\ [row EXCEPT !.lease = "expired"].wants = row.wants
          BY DEF JobRow
        <5>2. \A k \in Jobs : job'[k] \in {job[k], [job[k] EXCEPT !.expired = TRUE],
                                          [job[k] EXCEPT !.lease = "expired"]}
          BY <4>1 DEF Typed
        <5> QED BY <1>0, <5>1, <5>2
      <4> QED BY <4>2 DEF WantsKept
    <3>2. CASE RecoverQueued(j)
      BY <1>0, <3>2 DEF RecoverQueued, Parked, WantsKept, Typed, JobRow
    <3> QED BY <2>4, <3>1, <3>2
  <2>5. CASE Recover(j)
    <3>1. Unleased(j) \in JobRow /\ Unleased(j).wants = job[j].wants
      BY <1>0, JobUpdates DEF JobRow, Unleased
    <3> QED BY <1>1, <2>5, <3>1, RecoverEffect
  <2> QED BY <1>2, <2>1, <2>2, <2>3, <2>4, <2>5 DEF JobStep
<1>3. ASSUME NEW j \in Jobs, WorkerStep(j) PROVE WantsKept
  <2>1. CASE UNCHANGED job
    BY <2>1 DEF WantsKept
  <2>2. CASE NotClaimed(j) \/ Claim(j) \/ BeginItem(j)
    <3>0. job \in [Jobs -> JobRow] /\ job[j] \in JobRow
      BY DEF Typed
    <3>1. PICK row : job' = [job EXCEPT ![j] = row] /\ row.wants = job[j].wants
      <4>1. CASE NotClaimed(j)
        <5>1. Parked(job[j]).wants = job[j].wants
          BY <3>0 DEF Parked, JobRow
        <5>2. job' = [job EXCEPT ![j] = Parked(job[j])] \/ job' = [job EXCEPT ![j] = job[j]]
          BY <3>0, <4>1 DEF NotClaimed
        <5> QED BY ONLY <5>1, <5>2
      <4>2. CASE Claim(j)
        <5> DEFINE new == [job[j] EXCEPT !.status = "running", !.lease = "live", !.attempts = @ + 1]
        <5>1. job' = [job EXCEPT ![j] = new]
          BY <4>2 DEF Claim
        <5>2. new.wants = job[j].wants
          BY <3>0 DEF JobRow
        <5> HIDE DEF new
        <5> QED BY ONLY <5>1, <5>2
      <4>3. CASE BeginItem(j)
        <5> DEFINE new == [job[j] EXCEPT !.status = "running"]
        <5>1. job' = [job EXCEPT ![j] = new]
          BY <4>3 DEF BeginItem
        <5>2. new.wants = job[j].wants
          BY <3>0 DEF JobRow
        <5> HIDE DEF new
        <5> QED BY ONLY <5>1, <5>2
      <4> QED BY <2>2, <4>1, <4>2, <4>3
    <3> QED BY <3>0, <3>1 DEF WantsKept
  <2>3. Unleased(j) \in JobRow /\ Unleased(j).wants = job[j].wants
    BY <1>0, JobUpdates DEF JobRow, Unleased
  <2>4. CASE Release(j)
    <3>1. CASE job' = [job EXCEPT ![j] = Unleased(j)]
      BY <2>3, <3>1 DEF WantsKept, Typed
    <3> QED BY <1>1, <2>1, <2>3, <2>4, <3>1, ReleaseEffect
  <2>5. CASE PauseItem(j)
    BY <1>1, <2>3, <2>5, PauseEffect
  <2>6. CASE \/ \E resume \in BOOLEAN : Launch(j, resume)
             \/ ReadFirst(j) \/ ReadAgain(j) \/ Post(j) \/ Verify(j)
             \/ \E ack \in BOOLEAN : MarkSent(j, ack) \/ Finish(j, ack)
             \/ ItemFails(j) \/ FinishFailed(j) \/ PersistFails(j)
    <3>1. UNCHANGED job
      BY <2>6 DEF Launch, ReadFirst, ReadAgain, ReadStatus, Post, Verify, MarkSent, Finish, ItemFails,
                  FinishFailed, PersistFails
    <3> QED BY <2>1, <3>1
  <2> QED BY <1>3, <2>2, <2>4, <2>5, <2>6 DEF WorkerStep
<1>4. ASSUME NEW r \in Reconcilers, ReconcilerStep(r) PROVE WantsKept
  <2>1. CASE UNCHANGED job
    BY <2>1 DEF WantsKept
  <2>2. CASE RecordReconciliation(r)
    BY <1>0, <1>1, <2>2, RecordEffect
  <2> QED BY <1>4, <2>1, <2>2 DEF ReconcilerStep, ReconcileRead, ReconcileFails
<1>5. CASE EnvironmentStep
  <2>1. CASE ParkQueued
    BY <1>0, <2>1 DEF ParkQueued, Parked, WantsKept, JobRow
  <2>2. CASE ~ParkQueued
    <3>1. UNCHANGED job
      BY <1>5, <2>2 DEF EnvironmentStep, RevokeSession, Drain, ProcessEnds, Listen, WriteLands,
                        ExternalEdit, LockIsLost
    <3> QED BY <3>1 DEF WantsKept
  <2> QED BY <2>1, <2>2
<1> QED BY <1>2, <1>3, <1>4, <1>5 DEF Next

(* What was known of a reading stays true while the provider goes on.       *)
LEMMA SinceStays ==
  ASSUME Typed, ProviderMoves, NEW i \in Items, NEW reading, Since(i, reading),
         item'[i].prestate = item[i].prestate
  PROVE  Since(i, reading)'
<1>1. TargetOf[i] \in Targets /\ provider[TargetOf[i]].time \in Nat /\ reading.time \in Nat
  BY QuarantineAssumption DEF Typed, Reading, Since
<1>2. provider'[TargetOf[i]].time \in {provider[TargetOf[i]].time, provider[TargetOf[i]].time + 1}
  BY <1>1 DEF ProviderMoves
<1> QED BY <1>1, <1>2 DEF Since

LEMMA ProviderSince ==
  ASSUME Typed, Typed', ProviderMoves, NEW i \in Items, Since(i, provider[TargetOf[i]]),
         item'[i].prestate = item[i].prestate
  PROVE  Since(i, provider[TargetOf[i]])'
<1>1. TargetOf[i] \in Targets /\ provider[TargetOf[i]].time \in Nat /\ provider'[TargetOf[i]] \in Reading
  BY QuarantineAssumption DEF Typed, Reading
<1>2. item[i].prestate.time \in Nat
  BY DEF Since, Reading
<1>3. provider'[TargetOf[i]].time \in Nat
  BY <1>1 DEF Reading
<1> QED BY <1>1, <1>2, <1>3 DEF Since, ProviderMoves

LEMMA ReadingsOfItems ==
  ASSUME Typed, Typed', SentInv, JobInv, ReadingInv, ProviderMoves, WantsKept, WriteMoves,
         NEW i \in Items, ItemMoves(i)
  PROVE  /\ item'[i].status # "absent" => Since(i, provider[TargetOf[i]])'
         /\ item'[i].sent => Toggles(i)'
         /\ write'[i].state = "landed" => write'[i].time > item'[i].prestate.time
         /\ item'[i].status \notin {"inconclusive", "succeeded"} => item'[i].recon = "not_required"
         /\ item'[i].recon = "verified_not_applied" =>
              item'[i].observed \in Reading /\ item'[i].observed.time <= provider'[TargetOf[i]].time
<1>1. /\ JobOf[i] \in Jobs /\ TargetOf[i] \in Targets
      /\ provider[TargetOf[i]] \in Reading /\ provider'[TargetOf[i]] \in Reading
  BY QuarantineAssumption DEF Typed
<1>2. CASE item[i].status = "absent"
  <2>1. ~item[i].sent /\ write[i].state = "none" /\ item[i].recon = "not_required"
    BY <1>2 DEF SentInv, ReadingInv
  <2>2. CASE item'[i] = item[i]
    <3>1. write'[i].state # "landed"
      BY <2>1 DEF WriteMoves
    <3> QED BY <1>2, <2>1, <2>2, <3>1
  <2>3. CASE item'[i] # item[i]
    <3>1. Waits(i)
      BY <1>2, <2>3 DEF ItemMoves, Marks, Doubts, Ends, IsJudged
    <3>2. item'[i].prestate = provider'[TargetOf[i]] /\ ~item'[i].sent /\ item'[i].recon = "not_required"
      BY <1>2, <2>1, <3>1 DEF Waits
    <3>3. write'[i].state # "landed"
      BY <2>1 DEF WriteMoves
    <3>4. provider'[TargetOf[i]].time \in Nat
      BY <1>1 DEF Reading
    <3> QED BY <1>1, <3>2, <3>3, <3>4 DEF Since
  <2> QED BY <2>2, <2>3
<1>3. CASE item[i].status # "absent"
  <2>1. item'[i].prestate = item[i].prestate
    BY <1>3 DEF ItemMoves, Waits, Marks, Doubts, Ends, IsJudged
  <2>2. Since(i, provider[TargetOf[i]]) /\ Since(i, provider[TargetOf[i]])'
    BY <1>3, <2>1, ProviderSince DEF ReadingInv
  <2>3. job'[JobOf[i]].wants = job[JobOf[i]].wants
    BY <1>1, <1>3 DEF JobInv, WantsKept
  <2>4. item'[i].sent => Toggles(i)'
    <3>1. item'[i].sent => Toggles(i)
      BY DEF ItemMoves, Waits, Marks, Doubts, Ends, IsJudged, ReadingInv
    <3> QED BY <2>1, <2>3, <3>1 DEF Toggles
  <2>5. write'[i].state = "landed" => write'[i].time > item'[i].prestate.time
    <3>1. item[i].prestate.time \in Nat /\ provider[TargetOf[i]].time \in Nat
      BY <1>1, <2>2 DEF Since, Reading
    <3> QED BY <2>1, <2>2, <3>1 DEF WriteMoves, ReadingInv, Since
  <2>6. item'[i].status \notin {"inconclusive", "succeeded"} => item'[i].recon = "not_required"
    BY DEF ItemMoves, Waits, Marks, Doubts, Ends, IsJudged, ReadingInv
  <2>7. ASSUME item'[i].recon = "verified_not_applied"
        PROVE  item'[i].observed \in Reading /\ item'[i].observed.time <= provider'[TargetOf[i]].time
    <3>1. \/ item'[i] = item[i]
          \/ Since(i, item'[i].observed)
      BY <2>7 DEF ItemMoves, Waits, Marks, Doubts, Ends, IsJudged, ReadingInv
    <3>2. item'[i].observed \in Reading /\ item'[i].observed.time <= provider[TargetOf[i]].time
      BY <2>7, <3>1 DEF Since, ReadingInv
    <3>3. item'[i].observed.time \in Nat /\ provider[TargetOf[i]].time \in Nat
      BY <1>1, <3>2 DEF Reading
    <3> QED BY <1>1, <3>2, <3>3 DEF ProviderMoves
  <2> QED BY <2>2, <2>4, <2>5, <2>6, <2>7
<1> QED BY <1>2, <1>3

(* How a worker comes to believe what it does of its target.                *)
LEMMA WorkerReadings ==
  ASSUME Typed, SentInv, LeaseInv, ReadingInv, Next, NEW k \in Jobs
  PROVE  /\ worker'[k].pc \in {"confirmed", "matched"} =>
              /\ worker[k].pc \in HeldPc /\ worker'[k].item = worker[k].item
              /\ Toggles(worker[k].item)
         /\ worker'[k].pc = "verified" =>
              /\ worker[k].pc \in HeldPc /\ worker'[k].item = worker[k].item
              /\ Since(worker[k].item, worker'[k].seen)
              /\ worker'[k].seen.on = job[k].wants
<1> DEFINE Believes ==
      /\ worker'[k].pc \in {"confirmed", "matched"} =>
           /\ worker[k].pc \in HeldPc /\ worker'[k].item = worker[k].item
           /\ Toggles(worker[k].item)
      /\ worker'[k].pc = "verified" =>
           /\ worker[k].pc \in HeldPc /\ worker'[k].item = worker[k].item
           /\ Since(worker[k].item, worker'[k].seen)
           /\ worker'[k].seen.on = job[k].wants
<1>1. ASSUME /\ worker'[k].pc = worker[k].pc /\ worker'[k].item = worker[k].item
             /\ worker'[k].seen = worker[k].seen
      PROVE  Believes
  BY <1>1 DEF ReadingInv, HeldPc
<1>2. ASSUME worker'[k].pc \notin {"confirmed", "matched", "verified"} PROVE Believes
  BY <1>2
<1>3. ASSUME NEW j \in Jobs, WorkerStep(j), k # j PROVE Believes
  <2>1. worker'[k] = worker[k]
    BY <1>3 DEF WorkerStep, Launch, Claim, NotClaimed, BeginItem, Release, ReadFirst, ReadAgain, ReadStatus,
                Post, Verify, MarkSent, Finish, ItemFails, PauseItem, FinishFailed, PersistFails, Goto,
                LeaveItem, Typed
  <2> QED BY <1>1, <2>1
<1>4. ASSUME worker[k].pc \in {"begun", "confirmed"}, ReadStatus(k) PROVE Believes
  <2>1. /\ worker[k].item \in Items /\ JobOf[worker[k].item] = k
        /\ worker[k].pc \in HeldPc /\ worker[k] \in WorkerRow
    BY <1>4, HeldItem DEF HeldPc, Typed
  <2>2. CASE worker' = [worker EXCEPT ![k].pc = "unchanged", ![k].seen = provider[TargetAt(k)]]
    <3>1. worker'[k].pc = "unchanged"
      BY <2>1, <2>2 DEF Typed, WorkerRow
    <3> QED BY <1>2, <3>1
  <2>3. CASE /\ provider[TargetAt(k)].on # job[k].wants /\ provider[TargetAt(k)] = item[worker[k].item].prestate
             /\ Goto(k, IF worker[k].pc = "begun" THEN "confirmed" ELSE "matched")
    <3>1. worker'[k].pc \in {"confirmed", "matched"} /\ worker'[k].item = worker[k].item
      BY <2>1, <2>3 DEF Goto, Typed, WorkerRow
    <3>2. Toggles(worker[k].item)
      BY <2>1, <2>3 DEF Toggles
    <3> QED BY <2>1, <3>1, <3>2
  <2> QED BY <1>4, <2>2, <2>3 DEF ReadStatus, TargetAt
<1>5. CASE Verify(k)
  <2>1. /\ worker[k].item \in Items /\ JobOf[worker[k].item] = k
        /\ worker[k].pc \in HeldPc /\ worker[k] \in WorkerRow
    BY <1>5, HeldItem DEF Verify, HeldPc, Typed
  <2>2. item[worker[k].item].status = "running"
    BY <2>1 DEF LeaseInv
  <2>3. Since(worker[k].item, provider[TargetAt(k)])
    BY <2>1, <2>2 DEF ReadingInv, TargetAt
  <2>4. /\ worker'[k].pc = "verified" /\ worker'[k].item = worker[k].item
        /\ worker'[k].seen = provider[TargetAt(k)] /\ provider[TargetAt(k)].on = job[k].wants
    BY <1>5, <2>1 DEF Verify, Typed, WorkerRow
  <2> QED BY <2>1, <2>3, <2>4
<1>6. ASSUME WorkerStep(k), ~ReadFirst(k), ~ReadAgain(k), ~Verify(k) PROVE Believes
  <2>1. \A label : Goto(k, label) => worker'[k].pc = label
    BY DEF Goto, Typed, WorkerRow
  <2>2. \A label : LeaveItem(k, label) => worker'[k].pc = label
    BY DEF LeaveItem, Idle, Typed
  <2>3. CASE (\E resume \in BOOLEAN : Launch(k, resume)) \/ Claim(k) \/ Post(k) \/ ItemFails(k)
    BY <1>2, <2>1, <2>3 DEF Launch, Claim, Post, ItemFails
  <2>4. CASE NotClaimed(k) \/ Release(k)
    <3>1. worker'[k].pc = "idle"
      BY <2>4 DEF NotClaimed, Release, Idle, Typed
    <3> QED BY <1>2, <3>1
  <2>5. CASE BeginItem(k)
    <3>1. worker'[k].pc = "begun"
      BY <2>5 DEF BeginItem, Typed, WorkerRow
    <3> QED BY <1>2, <3>1
  <2>6. CASE \E ack \in BOOLEAN : MarkSent(k, ack)
    <3>1. worker'[k].pc \in {"marked", "failing"}
      BY <2>6 DEF MarkSent, Typed, WorkerRow
    <3> QED BY <1>2, <3>1
  <2>7. CASE (\E ack \in BOOLEAN : Finish(k, ack)) \/ PauseItem(k) \/ FinishFailed(k) \/ PersistFails(k)
    <3>1. worker'[k].pc \in {"loop", "releasing", "failing"}
      BY <2>1, <2>2, <2>7 DEF Finish, PauseItem, FinishFailed, PersistFails
    <3> QED BY <1>2, <3>1
  <2> QED BY <1>6, <2>3, <2>4, <2>5, <2>6, <2>7 DEF WorkerStep
<1>7. ASSUME NEW j \in Jobs, JobStep(j) PROVE Believes
  <2>1. UNCHANGED worker \/ SameWorkers
    BY <1>7, StoppedWorkersAreSame
       DEF JobStep, Submit, Cancel, JobExpires, LeaseExpires, Recover, RecoverQueued
  <2> QED BY <1>1, <2>1 DEF SameWorkers
<1>8. ASSUME NEW r \in Reconcilers, ReconcilerStep(r) PROVE Believes
  <2>1. UNCHANGED worker
    BY <1>8 DEF ReconcilerStep, ReconcileRead, RecordReconciliation, ReconcileFails
  <2> QED BY <1>1, <2>1
<1>9. CASE EnvironmentStep
  <2>1. CASE ProcessEnds
    <3>1. worker'[k].pc = "idle"
      BY <2>1 DEF ProcessEnds, Idle
    <3> QED BY <1>2, <3>1
  <2>2. CASE ~ProcessEnds
    <3>1. UNCHANGED worker \/ SameWorkers
      BY <1>9, <2>2, StoppedWorkersAreSame
         DEF EnvironmentStep, ParkQueued, Listen, WriteLands, ExternalEdit, LockIsLost
    <3> QED BY <1>1, <3>1 DEF SameWorkers
  <2> QED BY <2>1, <2>2
<1>10. ASSUME ReadFirst(k) \/ ReadAgain(k) PROVE Believes
  BY <1>4, <1>10 DEF ReadFirst, ReadAgain
<1> QED BY <1>3, <1>5, <1>6, <1>7, <1>8, <1>9, <1>10 DEF Next

LEMMA ReconcilerReadings ==
  ASSUME Typed, SentInv, ReadingInv, Next, NEW r \in Reconcilers, rec'[r].pc = "read"
  PROVE  /\ rec'[r].item \in Items /\ item[rec'[r].item].sent
         /\ Since(rec'[r].item, rec'[r].seen)
<1>1. ASSUME NEW i \in Items, ReconcileRead(r, i)
      PROVE  /\ rec'[r].item \in Items /\ item[rec'[r].item].sent
             /\ Since(rec'[r].item, rec'[r].seen)
  <2>1. rec'[r].item = i /\ rec'[r].seen = provider[TargetOf[i]]
    BY <1>1 DEF ReconcileRead, Typed
  <2>2. item[i].sent /\ Since(i, provider[TargetOf[i]])
    BY <1>1 DEF ReconcileRead, AwaitsReconciliation, SentInv, ReadingInv
  <2> QED BY <2>1, <2>2
<1>2. ASSUME rec'[r] = rec[r]
      PROVE  /\ rec'[r].item \in Items /\ item[rec'[r].item].sent
             /\ Since(rec'[r].item, rec'[r].seen)
  BY <1>2 DEF ReadingInv
<1>3. ASSUME NEW j \in Jobs, JobStep(j) \/ WorkerStep(j) PROVE rec'[r] = rec[r]
  BY <1>3 DEF JobStep, Submit, Cancel, AbortCancelled, JobExpires, LeaseExpires, Recover, RecoverQueued,
              WorkerStep, Launch, Claim, NotClaimed, BeginItem, Release, ReadFirst, ReadAgain, ReadStatus,
              Post, Verify, MarkSent, Finish, ItemFails, PauseItem, FinishFailed, PersistFails
<1>4. ASSUME NEW q \in Reconcilers, ReconcilerStep(q), q # r PROVE rec'[r] = rec[r]
  BY <1>4 DEF ReconcilerStep, ReconcileRead, RecordReconciliation, ReconcileFails, Typed
<1>5. ASSUME RecordReconciliation(r) \/ ReconcileFails(r) PROVE FALSE
  <2>1. rec'[r].pc = "idle"
    BY <1>5 DEF RecordReconciliation, ReconcileFails, NoRequest, Typed
  <2> QED BY <2>1
<1>6. ASSUME EnvironmentStep PROVE rec'[r] = rec[r]
  <2>1. CASE RevokeSession \/ Drain
    <3>1. rec'[r] = Refused(rec[r]) /\ rec[r] \in RequestRow
      BY <2>1 DEF RevokeSession, Drain, Typed
    <3> QED BY <3>1 DEF Refused, RequestRow
  <2>2. CASE ProcessEnds
    BY <2>2 DEF ProcessEnds, NoRequest
  <2>3. CASE ParkQueued \/ Listen \/ (\E i \in Items : WriteLands(i))
             \/ \E t \in Targets : ExternalEdit(t) \/ LockIsLost(t)
    BY <2>3 DEF ParkQueued, Listen, WriteLands, ExternalEdit, LockIsLost
  <2> QED BY <1>6, <2>1, <2>2, <2>3 DEF EnvironmentStep
<1> QED BY <1>1, <1>2, <1>3, <1>4, <1>5, <1>6 DEF Next, ReconcilerStep

LEMMA ReadingsKept ==
  ASSUME Typed, Typed', SentInv, SentInv', JobInv, LeaseInv, ReadingInv, Next, \A i \in Items : ItemMoves(i)
  PROVE  ReadingInv'
<1>1. ProviderMoves /\ WriteMoves /\ WantsKept
  BY ProviderSteps, WantsSteps
<1>2. ASSUME NEW i \in Items, item[i].status # "absent"
      PROVE  /\ item'[i].prestate = item[i].prestate
             /\ job'[JobOf[i]].wants = job[JobOf[i]].wants
             /\ \A reading : Since(i, reading) => Since(i, reading)'
             /\ Toggles(i) => Toggles(i)'
  <2>1. item'[i].prestate = item[i].prestate
    BY <1>2 DEF ItemMoves, Waits, Marks, Doubts, Ends, IsJudged
  <2>2. job'[JobOf[i]].wants = job[JobOf[i]].wants
    BY <1>1, <1>2, QuarantineAssumption DEF JobInv, WantsKept
  <2> QED BY <1>1, <2>1, <2>2, SinceStays DEF Toggles
<1>3. ASSUME NEW i \in Items, item[i].sent \/ item[i].status = "running" PROVE item[i].status # "absent"
  BY <1>3 DEF SentInv
<1>4. \A j \in Jobs : worker[j].pc \in HeldPc =>
        /\ worker[j].item \in Items /\ JobOf[worker[j].item] = j
        /\ item[worker[j].item].status # "absent"
  BY HeldItem DEF LeaseInv
<1>5. \A i \in Items :
        /\ item'[i].status # "absent" => Since(i, provider[TargetOf[i]])'
        /\ item'[i].sent => Toggles(i)'
        /\ write'[i].state = "landed" => write'[i].time > item'[i].prestate.time
        /\ item'[i].status \notin {"inconclusive", "succeeded"} => item'[i].recon = "not_required"
        /\ item'[i].recon = "verified_not_applied" =>
             item'[i].observed \in Reading /\ item'[i].observed.time <= provider'[TargetOf[i]].time
  BY <1>1, ReadingsOfItems
<1>6. \A j \in Jobs : worker'[j].pc \in {"confirmed", "matched"} => Toggles(worker[j].item)'
  <2> SUFFICES ASSUME NEW j \in Jobs, worker'[j].pc \in {"confirmed", "matched"}
               PROVE  Toggles(worker[j].item)'
    OBVIOUS
  <2>1. /\ worker[j].pc \in HeldPc /\ worker'[j].item = worker[j].item
        /\ Toggles(worker[j].item)
    BY WorkerReadings
  <2> QED BY <1>2, <1>4, <2>1 DEF Toggles
<1>7. \A j \in Jobs : worker'[j].pc = "verified" =>
        /\ Since(worker[j].item, worker[j].seen)'
        /\ worker'[j].seen.on = job'[j].wants
  <2> SUFFICES ASSUME NEW j \in Jobs, worker'[j].pc = "verified"
               PROVE  /\ Since(worker[j].item, worker[j].seen)'
                      /\ worker'[j].seen.on = job'[j].wants
    OBVIOUS
  <2>1. /\ worker[j].pc \in HeldPc /\ worker'[j].item = worker[j].item
        /\ Since(worker[j].item, worker'[j].seen)
        /\ worker'[j].seen.on = job[j].wants
    BY WorkerReadings
  <2> QED BY <1>2, <1>4, <2>1 DEF Since
<1>8. \A r \in Reconcilers : rec'[r].pc = "read" =>
        rec'[r].item \in Items /\ item'[rec'[r].item].sent /\ Since(rec[r].item, rec[r].seen)'
  <2> SUFFICES ASSUME NEW r \in Reconcilers, rec'[r].pc = "read"
               PROVE  rec'[r].item \in Items /\ item'[rec'[r].item].sent /\ Since(rec[r].item, rec[r].seen)'
    OBVIOUS
  <2> DEFINE i == rec'[r].item
  <2>1. i \in Items /\ item[i].sent /\ Since(i, rec'[r].seen)
    BY ReconcilerReadings
  <2>2. item'[i].sent
    BY <2>1 DEF ItemMoves, Waits, Marks, Doubts, Ends, IsJudged
  <2> QED BY <1>2, <1>3, <2>1, <2>2 DEF Since
<1> QED BY <1>5, <1>6, <1>7, <1>8 DEF ReadingInv

(* Only marking makes an item unsettled, and it checks the others first.    *)
LEMMA UnsettledKept ==
  ASSUME OneUnsettledWritePerTarget, Typed, \A i \in Items : ItemMoves(i)
  PROVE  OneUnsettledWritePerTarget'
<1>1. ASSUME NEW i \in Items, Unsettled(i)' PROVE Unsettled(i) \/ Marks(i)
  BY <1>1 DEF Unsettled, ItemMoves, Waits, Doubts, Ends, IsJudged, Verdict
<1>2. ASSUME NEW i \in Items, NEW k \in Items, i # k, TargetOf[i] = TargetOf[k], Unsettled(i)', Unsettled(k)'
      PROVE  FALSE
  <2>1. CASE Marks(i)
    BY <1>2, <2>1 DEF Marks, TargetSettled, Unsettled
  <2>2. CASE Marks(k)
    BY <1>2, <2>2 DEF Marks, TargetSettled, Unsettled
  <2>3. CASE Unsettled(i) /\ Unsettled(k)
    BY <1>2, <2>3 DEF OneUnsettledWritePerTarget
  <2> QED BY <1>1, <1>2, <2>1, <2>2, <2>3
<1> QED BY <1>2 DEF OneUnsettledWritePerTarget

(* What a verdict or a success rests on, from the readings.                 *)
LEMMA EvidenceKept ==
  ASSUME Typed, Typed', SentInv, JobInv, ReadingInv, ReadingInv', EvidenceIsSound,
         ProviderMoves, WantsKept, WriteMoves, \A i \in Items : ItemMoves(i)
  PROVE  EvidenceIsSound'
<1> SUFFICES ASSUME NEW i \in Items
             PROVE  /\ (item'[i].recon = "verified_not_applied" /\ write'[i].state = "landed")
                         => item'[i].observed.time < write'[i].time
                    /\ item'[i].status = "succeeded"
                         => /\ item'[i].observed.on = job'[JobOf[i]].wants
                            /\ item'[i].observed.time > item'[i].prestate.time
  BY DEF EvidenceIsSound
<1>1. /\ JobOf[i] \in Jobs /\ TargetOf[i] \in Targets
      /\ provider[TargetOf[i]] \in Reading /\ provider[TargetOf[i]].time \in Nat
  BY QuarantineAssumption DEF Typed, Reading
<1>2. item[i].status # "absent" => job'[JobOf[i]].wants = job[JobOf[i]].wants
  BY <1>1 DEF JobInv, WantsKept
<1>3. CASE item'[i] = item[i]
  <2>1. ASSUME item[i].recon = "verified_not_applied", write'[i].state = "landed"
        PROVE  item[i].observed.time < write'[i].time
    <3>1. item[i].observed.time \in Nat /\ item[i].observed.time <= provider[TargetOf[i]].time
      BY <2>1 DEF ReadingInv, Reading
    <3> QED BY <1>1, <2>1, <3>1 DEF WriteMoves, EvidenceIsSound
  <2>2. ASSUME item[i].status = "succeeded"
        PROVE  /\ item[i].observed.on = job'[JobOf[i]].wants
               /\ item[i].observed.time > item[i].prestate.time
    BY <1>2, <2>2 DEF EvidenceIsSound
  <2> QED BY <1>3, <2>1, <2>2
<1>4. CASE Waits(i) \/ Marks(i) \/ Doubts(i)
  <2>1. item'[i].status # "succeeded"
    BY <1>4 DEF Waits, Marks, Doubts
  <2>2. item'[i].recon # "verified_not_applied"
    BY <1>4 DEF Waits, Marks, Doubts, ReadingInv
  <2> QED BY <2>1, <2>2
<1>5. CASE Ends(i)
  <2>1. item'[i].recon = "not_required"
    BY <1>5 DEF Ends, ReadingInv
  <2>2. item'[i].status = "succeeded" =>
          Toggles(i) /\ Since(i, item'[i].observed) /\ item'[i].observed.on = job[JobOf[i]].wants
    BY <1>5 DEF Ends
  <2>3. item'[i].prestate = item[i].prestate /\ item[i].status # "absent"
    BY <1>5 DEF Ends
  <2> QED BY <1>2, <2>1, <2>2, <2>3 DEF Since, Toggles, Reading
<1>6. CASE IsJudged(i)
  <2> DEFINE seen == item'[i].observed
  <2>1. /\ Since(i, seen) /\ Toggles(i)
        /\ item'[i].prestate = item[i].prestate /\ item[i].status # "absent"
    BY <1>6 DEF IsJudged, ReadingInv
  <2>2. seen.time \in Nat /\ item[i].prestate.time \in Nat
    BY <2>1 DEF Since, Reading
  <2>3. ASSUME item'[i].status = "succeeded"
        PROVE  seen.on = job'[JobOf[i]].wants /\ seen.time > item[i].prestate.time
    <3>1. seen.on = job[JobOf[i]].wants
      BY <1>6, <2>3 DEF IsJudged, Verdict
    <3> QED BY <1>2, <2>1, <2>2, <3>1 DEF Since, Toggles
  <2>4. ASSUME item'[i].recon = "verified_not_applied", write'[i].state = "landed"
        PROVE  seen.time < write'[i].time
    <3>1. seen = item[i].prestate
      BY <1>6, <2>4 DEF IsJudged, Verdict
    <3>2. write'[i].time > item'[i].prestate.time
      BY <2>4 DEF ReadingInv
    <3>3. write'[i].time \in Nat
      BY DEF Typed, WriteRow
    <3> QED BY <2>1, <2>2, <3>1, <3>2, <3>3
  <2> QED BY <2>1, <2>3, <2>4
<1> QED BY <1>3, <1>4, <1>5, <1>6 DEF ItemMoves

-----------------------------------------------------------------------------
(* The invariant, and what follows from it *)

LEMMA InitInvariant == Init => IInv
<1> SUFFICES ASSUME Init PROVE IInv
  OBVIOUS
<1>1. \A i \in Items : /\ item[i].status = "absent" /\ ~item[i].sent /\ item[i].recon = "not_required"
                       /\ write[i].state = "none"
                       /\ JobOf[i] \in Jobs
  BY QuarantineAssumption DEF Init
<1>2. \A j \in Jobs : /\ job[j].status = "absent" /\ ~job[j].cancel /\ job[j].lease = "none"
                      /\ worker[j].pc = "idle" /\ ~worker[j].sent /\ ~Holds(j)
  BY QuarantineAssumption DEF Init, Idle, Holds, ItemsOf
<1>3. \A r \in Reconcilers : rec[r].pc = "idle"
  BY DEF Init, NoRequest
<1>4. phase = "up"
  BY DEF Init
<1>5. SentInv
  BY <1>1, <1>2 DEF SentInv
<1>6. JobInv
  BY <1>1, <1>2 DEF JobInv, AwaitsReconciliation, ItemsOf
<1>7. LeaseInv
  BY <1>2, <1>4 DEF LeaseInv, HeldPc
<1>8. ReadingInv
  BY <1>1, <1>2, <1>3 DEF ReadingInv
<1>9. OneUnsettledWritePerTarget /\ EvidenceIsSound
  BY <1>1 DEF OneUnsettledWritePerTarget, Unsettled, EvidenceIsSound
<1> QED BY <1>5, <1>6, <1>7, <1>8, <1>9 DEF IInv

LEMMA StepsMoveItems ==
  ASSUME Typed, Typed', IInv, Next
  PROVE  \A i \in Items : ItemMoves(i)
<1>1. SentInv /\ JobInv /\ LeaseInv /\ ReadingInv
  BY DEF IInv
<1> QED BY <1>1, RequestsMoveItems, WorkersMoveItems, OthersMoveItems DEF Next

LEMMA NextInvariant ==
  ASSUME Typed, Typed', IInv, Next
  PROVE  IInv'
<1>1. SentInv /\ JobInv /\ LeaseInv /\ ReadingInv /\ OneUnsettledWritePerTarget /\ EvidenceIsSound
  BY DEF IInv
<1>2. SentInv'
  <2>1. ASSUME NEW j \in Jobs, JobStep(j) PROVE SentInv'
    BY <1>1, <2>1, RequestsKeepSent DEF JobStep
  <2>2. ASSUME NEW j \in Jobs, WorkerStep(j) PROVE SentInv'
    BY <1>1, <2>2, LoopKeepsSent, ItemKeepsSent DEF WorkerStep
  <2>3. ASSUME (\E r \in Reconcilers : ReconcilerStep(r)) \/ EnvironmentStep PROVE SentInv'
    BY <1>1, <2>3, OthersKeepSent
  <2> QED BY <2>1, <2>2, <2>3 DEF Next
<1>3. JobInv'
  BY <1>1, RequestsKeepJobs, WorkersKeepJobs, OthersKeepJobs DEF Next
<1>4. LeaseInv'
  BY <1>1, RequestsKeepLease, WorkersKeepLease, OthersKeepLease DEF Next
<1>5. \A i \in Items : ItemMoves(i)
  BY StepsMoveItems
<1>6. ReadingInv'
  BY <1>1, <1>2, <1>5, ReadingsKept
<1>7. OneUnsettledWritePerTarget'
  BY <1>1, <1>5, UnsettledKept
<1>8. EvidenceIsSound'
  BY <1>1, <1>5, <1>6, EvidenceKept, ProviderSteps, WantsSteps
<1> QED BY <1>2, <1>3, <1>4, <1>6, <1>7, <1>8 DEF IInv

LEMMA StutterInvariant ==
  ASSUME IInv, UNCHANGED vars
  PROVE  IInv'
<1>1. SentInv /\ JobInv /\ LeaseInv /\ ReadingInv /\ OneUnsettledWritePerTarget /\ EvidenceIsSound
  BY DEF IInv
<1>2. SentInv' /\ LeaseInv'
  BY <1>1 DEF vars, SentInv, LeaseInv, Holds
<1>3. JobInv'
  BY <1>1 DEF vars, JobInv, AtRest, AwaitsReconciliation
<1>4. ReadingInv'
  BY <1>1 DEF vars, ReadingInv, Since, Toggles
<1>5. OneUnsettledWritePerTarget' /\ EvidenceIsSound'
  BY <1>1 DEF vars, OneUnsettledWritePerTarget, Unsettled, EvidenceIsSound
<1> QED BY <1>2, <1>3, <1>4, <1>5 DEF IInv

LEMMA InvariantHolds == Spec => [](Typed /\ IInv)
<1>1. Init => Typed /\ IInv
  BY TypesInductive, InitInvariant
<1>2. Typed /\ IInv /\ [Next]_vars => (Typed /\ IInv)'
  BY TypesInductive, NextInvariant, StutterInvariant
<1> QED BY <1>1, <1>2, PTL DEF Spec

(* Across jobs, crashes and lost locks, at most one write to a target has   *)
(* an effect that is not known: marking is the one way to become unsettled, *)
(* and markSent looks at every other item of the target in its transaction. *)
THEOREM UnsettledWritesAreAlone == Spec => []OneUnsettledWritePerTarget
<1>1. IInv => OneUnsettledWritePerTarget
  BY DEF IInv
<1> QED BY <1>1, InvariantHolds, PTL

(* What may have been written is not reported as failed, cancelled, skipped *)
(* or waiting, and a job that is not under way is inconclusive exactly as   *)
(* long as one of its items is, whatever recovery and reconciliation do.    *)
THEOREM OutcomesAreHonest == Spec => []HonestOutcome
<1>1. IInv => HonestOutcome
  BY DEF IInv, HonestOutcome, SentInv, JobInv, AtRest
<1> QED BY <1>1, InvariantHolds, PTL

(* The reading stored with a verdict or a success supports it.              *)
THEOREM EvidenceSupportsVerdicts == Spec => []EvidenceIsSound
<1>1. IInv => EvidenceIsSound
  BY DEF IInv
<1> QED BY <1>1, InvariantHolds, PTL

(* A running item is within reach of the recovery, now or once its lease    *)
(* has expired: its job says running for as long as it does.                *)
THEOREM NoItemStranded == Spec => []NoItemIsStranded
<1>1. ASSUME Typed, IInv PROVE NoItemIsStranded
  <2> SUFFICES ASSUME NEW i \in Items, item[i].status = "running"
               PROVE  \/ job[JobOf[i]].lease = "live" /\ job[JobOf[i]].status = "running"
                      \/ Recoverable(JobOf[i])
                      \/ phase = "draining"
    BY DEF NoItemIsStranded
  <2>1. job[JobOf[i]].status = "running"
    BY <1>1 DEF IInv, JobInv
  <2>2. phase \in {"starting", "up", "draining"}
    BY <1>1 DEF Typed
  <2> QED BY <2>1, <2>2 DEF Recoverable
<1> QED BY <1>1, InvariantHolds, PTL

(* A POST leaves once per item, while the row still says that the item is   *)
(* being written and no other item of the target is unsettled.              *)
THEOREM OneWriteAtATimeHolds == Spec => OneWriteAtATime
<1> DEFINE A == \A j \in Jobs :
                  (worker[j].pc = "marked" /\ worker'[j].pc = "posted")
                    => LET i == worker[j].item IN
                       /\ write[i].state = "none"
                       /\ item[i].status = "running" /\ item[i].sent
                       /\ TargetSettled(i)
<1>1. ASSUME Typed, IInv PROVE A
  <2> SUFFICES ASSUME NEW j \in Jobs, worker[j].pc = "marked"
               PROVE  /\ write[worker[j].item].state = "none"
                      /\ item[worker[j].item].status = "running" /\ item[worker[j].item].sent
                      /\ TargetSettled(worker[j].item)
    OBVIOUS
  <2>1. SentInv /\ LeaseInv /\ OneUnsettledWritePerTarget
    BY <1>1 DEF IInv
  <2>2. worker[j].item \in Items
    BY <1>1, HeldItem DEF HeldPc
  <2>3. /\ write[worker[j].item].state = "none"
        /\ item[worker[j].item].status = "running" /\ item[worker[j].item].sent
    BY <2>1 DEF SentInv, LeaseInv, HeldPc
  <2>4. Unsettled(worker[j].item)
    BY <2>3 DEF Unsettled
  <2>5. TargetSettled(worker[j].item)
    BY <2>1, <2>2, <2>4 DEF OneUnsettledWritePerTarget, TargetSettled
  <2> QED BY <2>3, <2>5
<1>2. Typed /\ IInv => [A]_vars
  BY <1>1
<1>3. Spec => [][A]_vars
  BY <1>2, InvariantHolds, PTL
<1> QED BY <1>3 DEF OneWriteAtATime

(* After a cancellation, what was not marked sent is never sent, and ends   *)
(* without a claim that it was verified.                                    *)
THEOREM CancelledWorkIsNotSent == Spec => CancelStopsUnsentWork
<1> DEFINE A == \A i \in Items :
                  (job[JobOf[i]].cancel /\ ~item[i].sent)
                    => ~item'[i].sent /\ item'[i].status \in {item[i].status, "failed", "cancelled"}
<1>1. ASSUME Typed, Typed', IInv, Next PROVE A
  BY <1>1, StepsMoveItems DEF ItemMoves, Waits, Marks, Doubts, Ends, IsJudged
<1>2. UNCHANGED vars => [A]_vars
  OBVIOUS
<1>3. Typed /\ Typed' /\ IInv /\ [Next]_vars => [A]_vars
  BY <1>1, <1>2
<1>4. Spec => [][A]_vars
  BY <1>3, InvariantHolds, PTL DEF Spec
<1> QED BY <1>4 DEF CancelStopsUnsentWork

=============================================================================
