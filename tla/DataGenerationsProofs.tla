----------------------- MODULE DataGenerationsProofs -----------------------
(***************************************************************************)
(* Proofs about DataGenerations, for every number of writers, generations, *)
(* scopes, tenants, principals and faults.                                 *)
(***************************************************************************)
EXTENDS DataGenerations, TLAPS

-----------------------------------------------------------------------------
(* Type correctness.  TypeOK is not inductive by itself: a sign-out is      *)
(* opened while the epoch has room and commits later, so that it must be    *)
(* known that the room is still there.                                      *)

RoomToRevoke == \A p \in Principals : revoking[p] => principalEpoch[p] < MaxEpoch

TypeInv == TypeOK /\ RoomToRevoke

USE DEF rowVars, scopeVars, revokeVars, localVars, signalVars

(* The tables start empty.                                                  *)
LEMMA InitType == Init => TypeInv
BY GenerationAssumption
DEF Init, TypeInv, TypeOK, RoomToRevoke, State, Active, WriterPc, LeasesOf

(* Closing rows keeps their states states.                                  *)
LEMMA ClosedType ==
  ASSUME TypeOK, NEW G, NEW to \in {"failed", "cancelled"}
  PROVE  Closed(G, to) \in [Generations -> State]
BY DEF TypeOK, Closed, State, Active

(* Steps of the writer before it publishes.                                 *)
LEMMA BeginKeepsTypes ==
  ASSUME TypeInv, NEW w \in Writers, BeginStep(w)
  PROVE  TypeInv'
<1>1. CASE Start(w)
  <2>1. Actor[w] # None => Actor[w] \in Principals
    BY GenerationAssumption
  <2>2. actorEpoch' \in [Writers -> 0..MaxEpoch]
    BY <1>1, <2>1, GenerationAssumption DEF Start, TypeInv, TypeOK
  <2>3. pc' \in [Writers -> WriterPc]
    BY <1>1 DEF Start, Moves, TypeInv, TypeOK, WriterPc, Started
  <2> QED
    BY <1>1, <2>2, <2>3 DEF Start, TypeInv, TypeOK, RoomToRevoke, LeasesOf, ActorOf
<1>2. CASE LeaveQueue(w)
  BY <1>2 DEF LeaveQueue, Ends, TypeInv, TypeOK, RoomToRevoke, WriterPc, LeasesOf, ActorOf
<1>3. ASSUME NEW g \in LeasesOf(w), BeginOpen(w, g)
      PROVE  TypeInv'
  BY <1>3 DEF BeginOpen, Moves, TypeInv, TypeOK, RoomToRevoke, WriterPc, Started, LeasesOf, ActorOf
<1>4. ASSUME NEW g \in LeasesOf(w), NEW ack \in BOOLEAN, BeginCommit(w, g, ack)
      PROVE  TypeInv'
  <2> DEFINE s == ScopeOf[g]
             stale == {h \in Generations : ScopeOf[h] = s /\ ~leaseLive[h]}
  <2>1. g \in Generations /\ s \in Scopes
    BY GenerationAssumption DEF LeasesOf
  <2>2. Closed(stale, "failed") \in [Generations -> State]
    BY ClosedType DEF TypeInv
  <2>3. state' \in [Generations -> State]
    BY <1>4, <2>1, <2>2 DEF BeginCommit, State, Active
  <2>4. faults' \in 0..MaxFaults
    BY <1>4, GenerationAssumption DEF BeginCommit, Disrupt, TypeInv, TypeOK
  <2>5. pc' \in [Writers -> WriterPc]
    BY <1>4 DEF BeginCommit, Moves, TypeInv, TypeOK, WriterPc, Started
  <2>6. /\ held' \in [Writers -> SUBSET Generations]
        /\ \A x \in Writers : held'[x] \subseteq LeasesOf(x)
    BY <1>4, <2>1 DEF BeginCommit, TypeInv, TypeOK
  <2>7. /\ generationEpoch' \in [Generations -> 0..MaxEpoch]
        /\ expectedRevision' \in [Generations -> Nat]
        /\ leaseLive' \in [Generations -> BOOLEAN]
    BY <1>4, <2>1 DEF BeginCommit, TypeInv, TypeOK
  <2> QED
    BY <1>4, <2>3, <2>4, <2>5, <2>6, <2>7
    DEF BeginCommit, TypeInv, TypeOK, RoomToRevoke, LeasesOf, ActorOf
<1> QED
  BY <1>1, <1>2, <1>3, <1>4 DEF BeginStep

(* Completion and publication.                                              *)
LEMMA ServerCommitsKeepsTypes ==
  ASSUME TypeInv, NEW w \in Writers, ServerCommits(w)
  PROVE  TypeInv'
<1> DEFINE G == Publication(w)
           changed == {ScopeOf[g] : g \in G}
<1>1. G \subseteq Generations
  BY DEF Publication, LeasesOf
<1>2. state' \in [Generations -> State]
  BY <1>1 DEF ServerCommits, TypeInv, TypeOK, State
<1>3. head' \in [Scopes -> Generations \cup {None}]
  <2> SUFFICES ASSUME NEW s \in Scopes, s \in changed
               PROVE  (CHOOSE g \in G : ScopeOf[g] = s) \in Generations
    BY DEF ServerCommits, TypeInv, TypeOK
  <2>1. \E g \in G : ScopeOf[g] = s
    OBVIOUS
  <2> QED
    BY <1>1, <2>1
<1>4. revision' \in [Scopes -> Nat]
  BY DEF ServerCommits, TypeInv, TypeOK
<1>5. pc' \in [Writers -> WriterPc] /\ job' \in [Writers -> {"running", "cancelled", "done"}]
  BY DEF ServerCommits, Moves, TypeInv, TypeOK, WriterPc, Started
<1> QED
  BY <1>2, <1>3, <1>4, <1>5 DEF ServerCommits, TypeInv, TypeOK, RoomToRevoke, LeasesOf, ActorOf

LEMMA PublishKeepsTypes ==
  ASSUME TypeInv, NEW w \in Writers, PublishStep(w)
  PROVE  TypeInv'
<1>1. ASSUME NEW g \in LeasesOf(w), Validate(g)
      PROVE  TypeInv'
  BY <1>1 DEF Validate, TypeInv, TypeOK, RoomToRevoke, State, Active, LeasesOf, ActorOf
<1>2. ASSUME NEW g \in LeasesOf(w), FinishValidation(g)
      PROVE  TypeInv'
  BY <1>2 DEF FinishValidation, TypeInv, TypeOK, RoomToRevoke, LeasesOf, ActorOf
<1>3. ASSUME NEW g \in LeasesOf(w), Fence(w, g)
      PROVE  TypeInv'
  BY <1>3 DEF Fence, TypeInv, TypeOK, RoomToRevoke, LeasesOf, ActorOf
<1>4. ASSUME NEW ack \in BOOLEAN, ReplayPrimary(w, ack)
      PROVE  TypeInv'
  <2>1. Closed({Primary[w]}, "cancelled") \in [Generations -> State]
    BY ClosedType DEF TypeInv
  <2>2. faults' \in 0..MaxFaults
    BY <1>4, GenerationAssumption DEF ReplayPrimary, Disrupt, TypeInv, TypeOK
  <2>3. pc' \in [Writers -> WriterPc]
    BY <1>4 DEF ReplayPrimary, Moves, TypeInv, TypeOK, WriterPc, Started
  <2>4. outcome' \in [Writers -> {"none", "published", "same", "failed", "unfenced"}]
    BY <1>4 DEF ReplayPrimary, TypeInv, TypeOK
  <2> QED
    BY <1>4, <2>1, <2>2, <2>3, <2>4
    DEF ReplayPrimary, TypeInv, TypeOK, RoomToRevoke, LeasesOf, ActorOf
<1>5. ASSUME NEW same \in BOOLEAN, CompletePair(w, same)
      PROVE  TypeInv'
  <2> DEFINE dropped == IF same THEN LeasesOf(w) \ {Primary[w]} ELSE {}
  <2>1. Closed(dropped, "cancelled") \in [Generations -> State]
    BY ClosedType DEF TypeInv
  <2>2. state' \in [Generations -> State]
    BY <1>5, <2>1 DEF CompletePair, State, Active
  <2>3. validated' \in [Generations -> BOOLEAN]
    BY <1>5, Zenon DEF CompletePair, TypeInv, TypeOK
  <2> QED
    BY <1>5, <2>2, <2>3 DEF CompletePair, TypeInv, TypeOK, RoomToRevoke, LeasesOf, ActorOf
<1>6. CASE PublishOpen(w)
  BY <1>6
  DEF PublishOpen, Moves, TypeInv, TypeOK, RoomToRevoke, WriterPc, Started, LeasesOf, ActorOf
<1>7. CASE SendCommit(w)
  BY <1>7 DEF SendCommit, Moves, TypeInv, TypeOK, RoomToRevoke, WriterPc, Started, LeasesOf, ActorOf
<1>8. CASE ServerCommits(w)
  BY <1>8, ServerCommitsKeepsTypes
<1>9. CASE CommitAcknowledged(w)
  BY <1>9
  DEF CommitAcknowledged, Moves, TypeInv, TypeOK, RoomToRevoke, WriterPc, Started, LeasesOf, ActorOf
<1>10. CASE CommitUnacknowledged(w)
  BY <1>10, GenerationAssumption
  DEF CommitUnacknowledged, Disrupt, Moves, TypeInv, TypeOK, RoomToRevoke, WriterPc, Started,
      LeasesOf, ActorOf
<1>11. CASE Finish(w)
  BY <1>11 DEF Finish, Ends, TypeInv, TypeOK, RoomToRevoke, WriterPc, LeasesOf, ActorOf
<1> QED
  BY <1>1, <1>2, <1>3, <1>4, <1>5, <1>6, <1>7, <1>8, <1>9, <1>10, <1>11 DEF PublishStep

(* Failure.                                                                 *)
LEMMA FailureKeepsTypes ==
  ASSUME TypeInv, NEW w \in Writers, FailureStep(w)
  PROVE  TypeInv'
<1>1. CASE Throws(w)
  BY <1>1 DEF Throws, Moves, TypeInv, TypeOK, RoomToRevoke, WriterPc, Started, LeasesOf, ActorOf
<1>2. CASE Signal(w)
  BY <1>2 DEF Signal, TypeInv, TypeOK, RoomToRevoke, LeasesOf, ActorOf
<1>3. CASE ListenerAborts(w)
  <2>1. Closed(held[w], "cancelled") \in [Generations -> State]
    BY ClosedType DEF TypeInv
  <2> QED
    BY <1>3, <2>1 DEF ListenerAborts, TypeInv, TypeOK, RoomToRevoke, LeasesOf, ActorOf
<1>4. ASSUME NEW g \in LeasesOf(w), AbortLease(w, g)
      PROVE  TypeInv'
  <2>1. PICK to \in {"failed", "cancelled"} : state' = Closed({g}, to)
    BY <1>4 DEF AbortLease
  <2>2. state' \in [Generations -> State]
    BY <2>1, ClosedType DEF TypeInv
  <2>3. aborted' \in [Writers -> SUBSET Generations]
    BY <1>4 DEF AbortLease, TypeInv, TypeOK, LeasesOf
  <2> QED
    BY <1>4, <2>2, <2>3 DEF AbortLease, TypeInv, TypeOK, RoomToRevoke, LeasesOf, ActorOf
<1>5. ASSUME NEW g \in LeasesOf(w), AbortFails(w, g)
      PROVE  TypeInv'
  BY <1>5, GenerationAssumption
  DEF AbortFails, Disrupt, TypeInv, TypeOK, RoomToRevoke, LeasesOf, ActorOf
<1>6. CASE Acknowledge(w)
  BY <1>6 DEF Acknowledge, Ends, TypeInv, TypeOK, RoomToRevoke, WriterPc, LeasesOf, ActorOf
<1>7. CASE GivesUp(w)
  BY <1>7 DEF GivesUp, Ends, TypeInv, TypeOK, RoomToRevoke, WriterPc, LeasesOf, ActorOf
<1>8. CASE Crash(w)
  BY <1>8, GenerationAssumption
  DEF Crash, Disrupt, Moves, TypeInv, TypeOK, RoomToRevoke, WriterPc, LeasesOf, ActorOf
<1> QED
  BY <1>1, <1>2, <1>3, <1>4, <1>5, <1>6, <1>7, <1>8 DEF FailureStep

(* Sign-out.                                                                *)
LEMMA RevokeKeepsTypes ==
  ASSUME TypeInv, NEW p \in Principals, RevokeStep(p)
  PROVE  TypeInv'
<1>1. CASE RevokeOpen(p)
  BY <1>1 DEF RevokeOpen, TypeInv, TypeOK, RoomToRevoke, LeasesOf, ActorOf
<1>2. CASE RevokeCommit(p)
  <2>1. Closed(doomed[p], "cancelled") \in [Generations -> State]
    BY ClosedType DEF TypeInv
  <2>2. principalEpoch' \in [Principals -> 0..MaxEpoch]
    BY <1>2, GenerationAssumption DEF RevokeCommit, TypeInv, TypeOK, RoomToRevoke
  <2>3. RoomToRevoke'
    BY <1>2 DEF RevokeCommit, TypeInv, TypeOK, RoomToRevoke
  <2> QED
    BY <1>2, <2>1, <2>2, <2>3 DEF RevokeCommit, TypeInv, TypeOK, LeasesOf, ActorOf
<1>3. CASE RevokeFails(p)
  BY <1>3, GenerationAssumption
  DEF RevokeFails, Disrupt, TypeInv, TypeOK, RoomToRevoke, LeasesOf, ActorOf
<1>4. ASSUME NEW g \in Generations, RevokeGeneration(p, g)
      PROVE  TypeInv'
  <2>1. ActorOf(g) = p
    BY <1>4 DEF RevokeGeneration, ToRevoke
  <2> QED
    BY <1>4, <2>1 DEF RevokeGeneration, TypeInv, TypeOK, RoomToRevoke, LeasesOf, ActorOf
<1> QED
  BY <1>1, <1>2, <1>3, <1>4 DEF RevokeStep

(* Requests and maintenance.                                                *)
LEMMA RequestKeepsTypes ==
  ASSUME TypeInv, RequestStep
  PROVE  TypeInv'
<1>1. ASSUME NEW s \in Scopes, Invalidate(s)
      PROVE  TypeInv'
  <2> DEFINE G == {g \in Generations : ScopeOf[g] = s}
  <2>1. Closed(G, "cancelled") \in [Generations -> State]
    BY ClosedType DEF TypeInv
  <2>2. scopeEpoch' \in [Scopes -> 0..MaxEpoch]
    BY <1>1, GenerationAssumption DEF Invalidate, TypeInv, TypeOK
  <2> QED
    BY <1>1, <2>1, <2>2 DEF Invalidate, TypeInv, TypeOK, RoomToRevoke, LeasesOf, ActorOf
<1>2. ASSUME NEW t \in Tenants, NEW kept \in SUBSET Scopes, Clear(t, kept)
      PROVE  TypeInv'
  <2> DEFINE S == {s \in Scopes : TenantOf[s] = t}
             G == {g \in Generations : ScopeOf[g] \in S}
  <2>1. Closed(G, "cancelled") \in [Generations -> State]
    BY ClosedType DEF TypeInv
  <2>2. state' \in [Generations -> State]
    BY <1>2, <2>1 DEF Clear, State
  <2>3. scopeEpoch' \in [Scopes -> 0..MaxEpoch]
    BY <1>2, GenerationAssumption DEF Clear, TypeInv, TypeOK
  <2>4. revision' \in [Scopes -> Nat] /\ head' \in [Scopes -> Generations \cup {None}]
    BY <1>2 DEF Clear, TypeInv, TypeOK
  <2> QED
    BY <1>2, <2>2, <2>3, <2>4 DEF Clear, TypeInv, TypeOK, RoomToRevoke, LeasesOf, ActorOf
<1>3. ASSUME NEW w \in Writers, CancelJob(w)
      PROVE  TypeInv'
  <2>1. Closed(LeasesOf(w), "cancelled") \in [Generations -> State]
    BY ClosedType DEF TypeInv
  <2> QED
    BY <1>3, <2>1 DEF CancelJob, TypeInv, TypeOK, RoomToRevoke, LeasesOf, ActorOf
<1> QED
  BY <1>1, <1>2, <1>3 DEF RequestStep

LEMMA RetentionKeepsTypes ==
  ASSUME TypeInv, RetentionStep
  PROVE  TypeInv'
<1>1. ASSUME NEW g \in Generations, LeaseLapses(g)
      PROVE  TypeInv'
  BY <1>1 DEF LeaseLapses, TypeInv, TypeOK, RoomToRevoke, LeasesOf, ActorOf
<1>2. ASSUME NEW g \in Generations, FailAbandoned(g)
      PROVE  TypeInv'
  <2>1. Closed({g}, "failed") \in [Generations -> State]
    BY ClosedType DEF TypeInv
  <2> QED
    BY <1>2, <2>1 DEF FailAbandoned, TypeInv, TypeOK, RoomToRevoke, LeasesOf, ActorOf
<1>3. ASSUME NEW g \in Generations, RetireExpired(g)
      PROVE  TypeInv'
  BY <1>3 DEF RetireExpired, TypeInv, TypeOK, RoomToRevoke, State, LeasesOf, ActorOf
<1> QED
  BY <1>1, <1>2, <1>3 DEF RetentionStep

LEMMA NextKeepsTypes == TypeInv /\ [Next]_vars => TypeInv'
<1> SUFFICES ASSUME TypeInv, [Next]_vars
             PROVE  TypeInv'
  OBVIOUS
<1>1. CASE UNCHANGED vars
  BY <1>1 DEF vars, TypeInv, TypeOK, RoomToRevoke, LeasesOf, ActorOf
<1> QED
  BY <1>1, BeginKeepsTypes, PublishKeepsTypes, FailureKeepsTypes, RevokeKeepsTypes,
     RequestKeepsTypes, RetentionKeepsTypes
  DEF Next

(* Rows, heads, epochs and locals keep their types; in particular what a    *)
(* sign-out updates is of its own principal.                                *)
THEOREM GenerationTypes == Spec => []TypeOK
<1>1. TypeInv => TypeOK
  BY DEF TypeInv
<1> QED
  BY InitType, NextKeepsTypes, <1>1, PTL DEF Spec

-----------------------------------------------------------------------------
(* What the locks of a publication keep still.  While a writer has locked   *)
(* the row of a generation, no sign-out has marked it and its fence holds   *)
(* except for the time of its lease; what is being committed is locked.     *)

StaysFenced(g) ==
  /\ \A p \in Principals : g \notin doomed[p]
  /\ state[g] = "validating"
  /\ generationEpoch[g] = scopeEpoch[ScopeOf[g]]
  /\ ActorCurrent(WriterOf[g])
  /\ JobCurrent(WriterOf[g])

LocksHold == \A g \in Generations : LockedByWriter(g) => StaysFenced(g)

CommittingIsFenced == \A w \in Writers : pc[w] = "committing" => fenced[w] = Publication(w)

OnlyJobsAreCancelled == \A w \in Writers : job[w] = "cancelled" => w \in JobBacked

LockInv == LocksHold /\ CommittingIsFenced /\ OnlyJobsAreCancelled

(* A step that neither locks a row nor changes what a locked one depends on. *)
LocksUndisturbed ==
  \A g \in Generations :
    LockedByWriter(g)' =>
      /\ LockedByWriter(g)
      /\ \A p \in Principals : g \in doomed'[p] => g \in doomed[p]
      /\ state'[g] = state[g]
      /\ generationEpoch'[g] = generationEpoch[g]
      /\ scopeEpoch'[ScopeOf[g]] = scopeEpoch[ScopeOf[g]]
      /\ ActorCurrent(WriterOf[g])' = ActorCurrent(WriterOf[g])
      /\ job'[WriterOf[g]] = job[WriterOf[g]]

LEMMA UndisturbedKeepsLocks ==
  ASSUME LocksHold, LocksUndisturbed
  PROVE  LocksHold'
<1> SUFFICES ASSUME NEW g \in Generations, LockedByWriter(g)'
             PROVE  StaysFenced(g)'
  BY DEF LocksHold
<1>1. StaysFenced(g)
  BY DEF LocksHold, LocksUndisturbed
<1>2. /\ \A p \in Principals : g \in doomed'[p] => g \in doomed[p]
      /\ state'[g] = state[g]
      /\ generationEpoch'[g] = generationEpoch[g]
      /\ scopeEpoch'[ScopeOf[g]] = scopeEpoch[ScopeOf[g]]
      /\ ActorCurrent(WriterOf[g])' = ActorCurrent(WriterOf[g])
      /\ job'[WriterOf[g]] = job[WriterOf[g]]
  BY DEF LocksUndisturbed
<1> QED BY Zenon, <1>1, <1>2 DEF StaysFenced, JobCurrent

(* Beginning touches rows only when they are free.                          *)
LEMMA BeginKeepsLocks ==
  ASSUME TypeInv, LocksHold, NEW w \in Writers, BeginStep(w)
  PROVE  LocksHold'
<1> USE GenerationAssumption
    DEF TypeInv, TypeOK, LocksUndisturbed, LockedByWriter, InTransaction, ActorCurrent, LeasesOf
<1>1. CASE Start(w)
  <2>1. LocksUndisturbed
    BY <1>1 DEF Start, Moves
  <2> QED BY <2>1, UndisturbedKeepsLocks
<1>2. CASE LeaveQueue(w)
  <2>1. LocksUndisturbed
    BY <1>2 DEF LeaveQueue, Ends
  <2> QED BY <2>1, UndisturbedKeepsLocks
<1>3. ASSUME NEW g \in LeasesOf(w), BeginOpen(w, g)
      PROVE  LocksHold'
  <2>1. LocksUndisturbed
    BY <1>3 DEF BeginOpen, Moves
  <2> QED BY <2>1, UndisturbedKeepsLocks
<1>4. ASSUME NEW g \in LeasesOf(w), NEW ack \in BOOLEAN, BeginCommit(w, g, ack)
      PROVE  LocksHold'
  <2>1. LocksUndisturbed
    BY <1>4 DEF BeginCommit, Moves, LocksHold, StaysFenced, Closed, Active, RowFree
  <2> QED BY <2>1, UndisturbedKeepsLocks
<1> QED
  BY <1>1, <1>2, <1>3, <1>4 DEF BeginStep
(* A row is locked when it is free and its fence holds.                     *)
LEMMA PublishKeepsLocks ==
  ASSUME TypeInv, LocksHold, NEW w \in Writers, PublishStep(w)
  PROVE  LocksHold'
<1> USE GenerationAssumption
    DEF TypeInv, TypeOK, LocksUndisturbed, LockedByWriter, InTransaction, ActorCurrent, LeasesOf
<1>1. ASSUME NEW g \in LeasesOf(w), Validate(g)
      PROVE  LocksHold'
  <2>1. LocksUndisturbed
    BY <1>1 DEF Validate, RowFree
  <2> QED BY <2>1, UndisturbedKeepsLocks
<1>2. ASSUME NEW g \in LeasesOf(w), FinishValidation(g)
      PROVE  LocksHold'
  <2>1. LocksUndisturbed
    BY <1>2 DEF FinishValidation
  <2> QED BY <2>1, UndisturbedKeepsLocks
<1>3. ASSUME NEW g \in LeasesOf(w), Fence(w, g)
      PROVE  LocksHold'
  <2>1. StaysFenced(g)'
    BY <1>3 DEF Fence, Publishable, FenceHolds, RowFree, StaysFenced, JobCurrent
  <2>2. ASSUME NEW h \in Generations, h # g, LockedByWriter(h)'
        PROVE  LockedByWriter(h) /\ (StaysFenced(h) => StaysFenced(h)')
    BY <1>3, <2>2 DEF Fence, StaysFenced, JobCurrent
  <2> QED
    BY <2>1, <2>2 DEF LocksHold
<1>4. ASSUME NEW ack \in BOOLEAN, ReplayPrimary(w, ack)
      PROVE  LocksHold'
  <2>1. LocksUndisturbed
    BY <1>4 DEF ReplayPrimary, Moves, Closed, RowFree
  <2> QED BY <2>1, UndisturbedKeepsLocks
<1>5. ASSUME NEW same \in BOOLEAN, CompletePair(w, same)
      PROVE  LocksHold'
  <2>1. LocksUndisturbed
    BY <1>5 DEF CompletePair, Closed, RowFree
  <2> QED BY <2>1, UndisturbedKeepsLocks
<1>6. CASE PublishOpen(w)
  <2>1. LocksUndisturbed
    BY <1>6 DEF PublishOpen, Moves
  <2> QED BY <2>1, UndisturbedKeepsLocks
<1>7. CASE SendCommit(w)
  <2>1. LocksUndisturbed
    BY <1>7 DEF SendCommit, Moves
  <2> QED BY <2>1, UndisturbedKeepsLocks
<1>8. CASE ServerCommits(w)
  <2>1. LocksUndisturbed
    BY <1>8 DEF ServerCommits, Moves, LocksHold, StaysFenced, Publication
  <2> QED BY <2>1, UndisturbedKeepsLocks
<1>9. CASE CommitAcknowledged(w)
  <2>1. LocksUndisturbed
    BY <1>9
  DEF CommitAcknowledged, Moves
  <2> QED BY <2>1, UndisturbedKeepsLocks
<1>10. CASE CommitUnacknowledged(w)
  <2>1. LocksUndisturbed
    BY <1>10 DEF CommitUnacknowledged, Moves
  <2> QED BY <2>1, UndisturbedKeepsLocks
<1>11. CASE Finish(w)
  <2>1. LocksUndisturbed
    BY <1>11 DEF Finish, Ends
  <2> QED BY <2>1, UndisturbedKeepsLocks
<1> QED
  BY <1>1, <1>2, <1>3, <1>4, <1>5, <1>6, <1>7, <1>8, <1>9, <1>10, <1>11
  DEF PublishStep

(* An abort waits for the locks of its writer.                              *)
LEMMA FailureKeepsLocks ==
  ASSUME TypeInv, LocksHold, NEW w \in Writers, FailureStep(w)
  PROVE  LocksHold'
<1> USE GenerationAssumption
    DEF TypeInv, TypeOK, LocksUndisturbed, LockedByWriter, InTransaction, ActorCurrent, LeasesOf
<1>1. CASE Throws(w)
  <2>1. LocksUndisturbed
    BY <1>1 DEF Throws, Moves
  <2> QED BY <2>1, UndisturbedKeepsLocks
<1>2. CASE Signal(w)
  <2>1. LocksUndisturbed
    BY <1>2 DEF Signal
  <2> QED BY <2>1, UndisturbedKeepsLocks
<1>3. CASE ListenerAborts(w)
  <2>1. LocksUndisturbed
    BY <1>3 DEF ListenerAborts, Closed, Abortable, RowFree
  <2> QED BY <2>1, UndisturbedKeepsLocks
<1>4. ASSUME NEW g \in LeasesOf(w), AbortLease(w, g)
      PROVE  LocksHold'
  <2>1. LocksUndisturbed
    BY <1>4 DEF AbortLease, Closed, Abortable, RowFree
  <2> QED BY <2>1, UndisturbedKeepsLocks
<1>5. ASSUME NEW g \in LeasesOf(w), AbortFails(w, g)
      PROVE  LocksHold'
  <2>1. LocksUndisturbed
    BY <1>5 DEF AbortFails
  <2> QED BY <2>1, UndisturbedKeepsLocks
<1>6. CASE Acknowledge(w)
  <2>1. LocksUndisturbed
    BY <1>6 DEF Acknowledge, Ends
  <2> QED BY <2>1, UndisturbedKeepsLocks
<1>7. CASE GivesUp(w)
  <2>1. LocksUndisturbed
    BY <1>7 DEF GivesUp, Ends
  <2> QED BY <2>1, UndisturbedKeepsLocks
<1>8. CASE Crash(w)
  <2>1. LocksUndisturbed
    BY <1>8 DEF Crash, Moves
  <2> QED BY <2>1, UndisturbedKeepsLocks
<1> QED
  BY <1>1, <1>2, <1>3, <1>4, <1>5, <1>6, <1>7, <1>8
  DEF FailureStep

(* A sign-out commits when it has marked every active row of its principal. *)
LEMMA RevokeKeepsLocks ==
  ASSUME TypeInv, LocksHold, NEW p \in Principals, RevokeStep(p)
  PROVE  LocksHold'
<1> USE GenerationAssumption
    DEF TypeInv, TypeOK, LocksUndisturbed, LockedByWriter, InTransaction, ActorCurrent, LeasesOf
<1>1. CASE RevokeOpen(p)
  <2>1. LocksUndisturbed
    BY <1>1 DEF RevokeOpen
  <2> QED BY <2>1, UndisturbedKeepsLocks
<1>2. CASE RevokeCommit(p)
  <2>1. ASSUME NEW g \in Generations, LockedByWriter(g)
        PROVE  ActorOf(g) # p /\ g \notin doomed[p]
    BY <1>2, <2>1 DEF RevokeCommit, LocksHold, StaysFenced, ToRevoke, Active
  <2>2. LocksUndisturbed
    BY <1>2, <2>1 DEF RevokeCommit, Closed, ActorOf
  <2> QED BY <2>2, UndisturbedKeepsLocks
<1>3. CASE RevokeFails(p)
  <2>1. LocksUndisturbed
    BY <1>3 DEF RevokeFails
  <2> QED BY <2>1, UndisturbedKeepsLocks
<1>4. ASSUME NEW g \in Generations, RevokeGeneration(p, g)
      PROVE  LocksHold'
  <2>1. LocksUndisturbed
    BY <1>4 DEF RevokeGeneration, RowFree
  <2> QED BY <2>1, UndisturbedKeepsLocks
<1> QED
  BY <1>1, <1>2, <1>3, <1>4
  DEF RevokeStep

(* A request that changes an epoch or a job waits for the active rows.      *)
LEMMA RequestKeepsLocks ==
  ASSUME TypeInv, LocksHold, RequestStep
  PROVE  LocksHold'
<1> USE GenerationAssumption
    DEF TypeInv, TypeOK, LocksUndisturbed, LockedByWriter, InTransaction, ActorCurrent, LeasesOf
<1>1. ASSUME NEW s \in Scopes, Invalidate(s)
      PROVE  LocksHold'
  <2>1. LocksUndisturbed
    BY <1>1 DEF Invalidate, LocksHold, StaysFenced, Closed, Active, RowFree
  <2> QED BY <2>1, UndisturbedKeepsLocks
<1>2. ASSUME NEW t \in Tenants, NEW kept \in SUBSET Scopes, Clear(t, kept)
      PROVE  LocksHold'
  <2>1. LocksUndisturbed
    BY <1>2 DEF Clear, LocksHold, StaysFenced, Closed, Active, RowFree
  <2> QED BY <2>1, UndisturbedKeepsLocks
<1>3. ASSUME NEW w \in Writers, CancelJob(w)
      PROVE  LocksHold'
  <2>1. LocksUndisturbed
    BY <1>3 DEF CancelJob, LocksHold, StaysFenced, Closed, Active, RowFree
  <2> QED BY <2>1, UndisturbedKeepsLocks
<1> QED
  BY <1>1, <1>2, <1>3
  DEF RequestStep

(* Retention skips locked rows.                                             *)
LEMMA RetentionKeepsLocks ==
  ASSUME TypeInv, LocksHold, RetentionStep
  PROVE  LocksHold'
<1> USE GenerationAssumption
    DEF TypeInv, TypeOK, LocksUndisturbed, LockedByWriter, InTransaction, ActorCurrent, LeasesOf
<1>1. ASSUME NEW g \in Generations, LeaseLapses(g)
      PROVE  LocksHold'
  <2>1. LocksUndisturbed
    BY <1>1 DEF LeaseLapses
  <2> QED BY <2>1, UndisturbedKeepsLocks
<1>2. ASSUME NEW g \in Generations, FailAbandoned(g)
      PROVE  LocksHold'
  <2>1. LocksUndisturbed
    BY <1>2 DEF FailAbandoned, Closed, RowFree
  <2> QED BY <2>1, UndisturbedKeepsLocks
<1>3. ASSUME NEW g \in Generations, RetireExpired(g)
      PROVE  LocksHold'
  <2>1. LocksUndisturbed
    BY <1>3 DEF RetireExpired, LocksHold, StaysFenced
  <2> QED BY <2>1, UndisturbedKeepsLocks
<1> QED
  BY <1>1, <1>2, <1>3
  DEF RetentionStep

LEMMA NextKeepsLocks == TypeInv /\ LocksHold /\ [Next]_vars => LocksHold'
<1> SUFFICES ASSUME TypeInv, LocksHold, [Next]_vars
             PROVE  LocksHold'
  OBVIOUS
<1>1. CASE UNCHANGED vars
  BY <1>1 DEF vars, LocksHold, StaysFenced, LockedByWriter, ActorCurrent, JobCurrent
<1> QED
  BY <1>1, BeginKeepsLocks, PublishKeepsLocks, FailureKeepsLocks, RevokeKeepsLocks,
     RequestKeepsLocks, RetentionKeepsLocks
  DEF Next
(* Between its last fence and its COMMIT a writer completes nothing.        *)
LEMMA NextKeepsCommitting ==
  ASSUME TypeInv, CommittingIsFenced, [Next]_vars
  PROVE  CommittingIsFenced'
<1> DEFINE Keeps == \A v \in Writers :
             pc'[v] = "committing" =>
               /\ pc[v] = "committing" /\ fenced'[v] = fenced[v]
               /\ \A g \in LeasesOf(v) : validated'[g] = validated[g]
<1> USE GenerationAssumption DEF TypeInv, TypeOK
<1>1. Keeps => CommittingIsFenced'
  <2> SUFFICES ASSUME Keeps, NEW v \in Writers, pc'[v] = "committing"
               PROVE  fenced'[v] = Publication(v)'
    BY DEF CommittingIsFenced
  <2>1. \A g \in LeasesOf(v) : LeasesOf(WriterOf[g]) = LeasesOf(v)
    BY DEF LeasesOf
  <2>2. ASSUME NEW g \in LeasesOf(v) PROVE Dropped(g)' <=> Dropped(g)
    <3>1. \A h \in LeasesOf(v) : validated'[h] = validated[h]
      OBVIOUS
    <3>2. LeasesOf(WriterOf[g]) = LeasesOf(v)
      BY <2>1
    <3> HIDE DEF TypeInv, TypeOK
    <3> QED BY <3>1, <3>2 DEF Dropped
  <2>3. Publication(v)' = Publication(v)
    BY <2>2 DEF Publication, LeasesOf
  <2> QED
    BY <2>3 DEF CommittingIsFenced
<1>2. CASE UNCHANGED vars
  BY <1>1, <1>2 DEF vars
<1>3. ASSUME NEW w \in Writers, BeginStep(w) PROVE Keeps
  <2>1. CASE Start(w) \/ LeaveQueue(w)
    BY <2>1 DEF Start, LeaveQueue, Moves, Ends
  <2>2. ASSUME NEW g \in LeasesOf(w), BeginOpen(w, g) PROVE Keeps
    BY <2>2 DEF BeginOpen, Moves
  <2>3. ASSUME NEW g \in LeasesOf(w), NEW ack \in BOOLEAN, BeginCommit(w, g, ack) PROVE Keeps
    BY <2>3 DEF BeginCommit, Moves
  <2> QED
    BY <1>3, <2>1, <2>2, <2>3 DEF BeginStep
<1>4. ASSUME NEW w \in Writers, PublishStep(w) PROVE CommittingIsFenced'
  <2>1. ASSUME NEW g \in LeasesOf(w), Validate(g) \/ FinishValidation(g) \/ Fence(w, g) PROVE Keeps
    BY <2>1 DEF Validate, FinishValidation, Fence, LeasesOf
  <2>2. ASSUME NEW flag \in BOOLEAN, ReplayPrimary(w, flag) PROVE Keeps
    BY <2>2 DEF ReplayPrimary, Moves, LeasesOf
  <2>3. ASSUME NEW flag \in BOOLEAN, CompletePair(w, flag) PROVE Keeps
    <3>1. pc' = pc /\ fenced' = fenced /\ pc[w] = "working"
      BY <2>3 DEF CompletePair
    <3>2. \A g \in Generations : g \notin LeasesOf(w) => validated'[g] = validated[g]
      BY <2>3 DEF CompletePair
    <3> QED
      BY <3>1, <3>2 DEF LeasesOf
  <2>4. ASSUME PublishOpen(w) \/ ServerCommits(w) \/ CommitAcknowledged(w)
                 \/ CommitUnacknowledged(w) \/ Finish(w)
        PROVE  Keeps
    BY <2>4 DEF PublishOpen, ServerCommits, CommitAcknowledged, CommitUnacknowledged, Finish,
                Moves, Ends
  <2>5. ASSUME SendCommit(w) PROVE CommittingIsFenced'
    BY <2>5 DEF SendCommit, Moves, CommittingIsFenced, Publication, Dropped
  <2> QED
    BY <1>1, <1>4, <2>1, <2>2, <2>3, <2>4, <2>5 DEF PublishStep
<1>5. ASSUME NEW w \in Writers, FailureStep(w) PROVE Keeps
  <2>1. CASE Throws(w) \/ Acknowledge(w) \/ GivesUp(w) \/ Crash(w)
    BY <2>1 DEF Throws, Acknowledge, GivesUp, Crash, Moves, Ends
  <2>2. CASE Signal(w) \/ ListenerAborts(w)
    BY <2>2 DEF Signal, ListenerAborts
  <2>3. ASSUME NEW g \in LeasesOf(w), AbortLease(w, g) \/ AbortFails(w, g) PROVE Keeps
    BY <2>3 DEF AbortLease, AbortFails
  <2> QED BY <1>5, <2>1, <2>2, <2>3 DEF FailureStep
<1>6. ASSUME NEW p \in Principals, RevokeStep(p) PROVE Keeps
  BY <1>6 DEF RevokeStep, RevokeOpen, RevokeCommit, RevokeFails, RevokeGeneration
<1>7. ASSUME RequestStep PROVE Keeps
  BY <1>7 DEF RequestStep, Invalidate, Clear, CancelJob
<1>8. ASSUME RetentionStep PROVE Keeps
  BY <1>8 DEF RetentionStep, LeaseLapses, FailAbandoned, RetireExpired
<1> QED
  BY <1>1, <1>2, <1>3, <1>4, <1>5, <1>6, <1>7, <1>8 DEF Next

(* Nothing but a request cancels a job.                                     *)
LEMMA NextKeepsJobs ==
  ASSUME TypeInv, OnlyJobsAreCancelled, [Next]_vars
  PROVE  OnlyJobsAreCancelled'
<1> DEFINE Keeps == \A v \in Writers : job'[v] = "cancelled" => job[v] = "cancelled"
<1> USE DEF TypeInv, TypeOK
<1>1. Keeps => OnlyJobsAreCancelled'
  BY DEF OnlyJobsAreCancelled
<1>2. CASE UNCHANGED vars
  BY <1>1, <1>2 DEF vars
<1>3. ASSUME NEW w \in Writers, BeginStep(w) PROVE Keeps
  BY <1>3 DEF BeginStep, Start, LeaveQueue, BeginOpen, BeginCommit
<1>4. ASSUME NEW w \in Writers, PublishStep(w) PROVE Keeps
  BY <1>4 DEF PublishStep, Validate, FinishValidation, Fence, ReplayPrimary, CompletePair, PublishOpen,
              SendCommit, ServerCommits, CommitAcknowledged, CommitUnacknowledged, Finish
<1>5. ASSUME NEW w \in Writers, FailureStep(w) PROVE Keeps
  BY <1>5 DEF FailureStep, Throws, Signal, ListenerAborts, AbortLease, AbortFails, Acknowledge,
              GivesUp, Crash
<1>6. ASSUME NEW p \in Principals, RevokeStep(p) PROVE Keeps
  BY <1>6 DEF RevokeStep, RevokeOpen, RevokeCommit, RevokeFails, RevokeGeneration
<1>7. ASSUME RequestStep PROVE OnlyJobsAreCancelled'
  BY <1>7 DEF RequestStep, Invalidate, Clear, CancelJob, OnlyJobsAreCancelled
<1>8. ASSUME RetentionStep PROVE Keeps
  BY <1>8 DEF RetentionStep, LeaseLapses, FailAbandoned, RetireExpired
<1> QED
  BY <1>1, <1>2, <1>3, <1>4, <1>5, <1>6, <1>7, <1>8 DEF Next

LEMMA LocksInvariant == Spec => [](TypeInv /\ LockInv)
<1>1. Init => LockInv
  BY GenerationAssumption
  DEF Init, LockInv, LocksHold, CommittingIsFenced, OnlyJobsAreCancelled, LockedByWriter,
         InTransaction
<1>2. TypeInv /\ LockInv /\ [Next]_vars => (TypeInv /\ LockInv)'
  BY NextKeepsTypes, NextKeepsLocks, NextKeepsCommitting, NextKeepsJobs DEF LockInv
<1> QED
  BY InitType, <1>1, <1>2, PTL DEF Spec
-----------------------------------------------------------------------------
(* What readers see.  Every step but the COMMIT of a publication can only   *)
(* take generations away from them.                                         *)

EpochsBounded ==
  \A g \in Generations : generationEpoch[g] <= scopeEpoch[ScopeOf[g]]

HeadsOfTheirScope ==
  \A s \in Scopes : head[s] # None => ScopeOf[head[s]] = s

HeadInv == CurrentGenerationIsHead /\ EpochsBounded /\ HeadsOfTheirScope

OnlyWithdraws ==
  /\ \A g \in Generations :
       /\ state'[g] = "published" => state[g] = "published"
       /\ state[g] = "published" => state'[g] \in {"published", "retired"}
       /\ state[g] \in {"retired", "failed", "cancelled"} => state'[g] = state[g]
       /\ state[g] # "none" => generationEpoch'[g] = generationEpoch[g]
       /\ state[g] = "none" =>
            generationEpoch'[g] \in {generationEpoch[g], scopeEpoch[ScopeOf[g]]}
  /\ \A s \in Scopes :
       /\ scopeEpoch[s] <= scopeEpoch'[s]
       /\ \/ head'[s] = head[s]
          \/ head'[s] = None /\ \A g \in Generations : ScopeOf[g] = s => state'[g] # "published"

LEMMA OthersOnlyWithdraw ==
  ASSUME TypeInv, [Next]_vars, \A w \in Writers : ~ServerCommits(w)
  PROVE  OnlyWithdraws
<1> USE GenerationAssumption DEF TypeInv, TypeOK, OnlyWithdraws
<1>1. ASSUME UNCHANGED <<state, generationEpoch, scopeVars>> PROVE OnlyWithdraws
  BY <1>1
<1>2. ASSUME NEW G, NEW to \in {"failed", "cancelled"}, state' = Closed(G, to),
             UNCHANGED <<generationEpoch, scopeVars>>
      PROVE  OnlyWithdraws
  BY <1>2 DEF Closed, Active
<1>3. ASSUME NEW w \in Writers, BeginStep(w) PROVE OnlyWithdraws
  <2>1. ASSUME Start(w) \/ LeaveQueue(w) \/ \E g \in LeasesOf(w) : BeginOpen(w, g)
        PROVE  UNCHANGED <<state, generationEpoch, scopeVars>>
    BY <2>1 DEF Start, LeaveQueue, BeginOpen
  <2>2. ASSUME NEW g \in LeasesOf(w), NEW ack \in BOOLEAN, BeginCommit(w, g, ack)
        PROVE  OnlyWithdraws
    <3> DEFINE stale == {h \in Generations : ScopeOf[h] = ScopeOf[g] /\ ~leaseLive[h]}
    <3>1. g \in Generations /\ state[g] = "none"
      BY <2>2 DEF BeginCommit, Due, LeasesOf
    <3>2. state' = [Closed(stale, "failed") EXCEPT ![g] = "staging"]
      BY <2>2 DEF BeginCommit
    <3>3. state'[g] = "staging" /\ \A h \in Generations \ {g} : state'[h] = Closed(stale, "failed")[h]
      BY <3>1, <3>2 DEF Closed
    <3>4. generationEpoch' = [generationEpoch EXCEPT ![g] = scopeEpoch[ScopeOf[g]]]
            /\ UNCHANGED scopeVars
      BY <2>2 DEF BeginCommit
    <3>5. ASSUME NEW h \in Generations, h # g
          PROVE  state'[h] = state[h] \/ (state[h] \in Active /\ state'[h] = "failed")
      BY <3>3, <3>5 DEF Closed
    <3>6. /\ generationEpoch'[g] = scopeEpoch[ScopeOf[g]]
          /\ \A h \in Generations : h # g => generationEpoch'[h] = generationEpoch[h]
      BY <3>1, <3>4
    <3>7. \A s \in Scopes : scopeEpoch[s] <= scopeEpoch'[s] /\ head'[s] = head[s]
      BY <3>4
    <3> QED
      BY <3>1, <3>3, <3>5, <3>6, <3>7 DEF Active
  <2> QED
    BY <1>1, <1>3, <2>1, <2>2 DEF BeginStep
<1>4. ASSUME NEW w \in Writers, PublishStep(w) PROVE OnlyWithdraws
  <2>1. ASSUME NEW g \in LeasesOf(w), Validate(g) PROVE OnlyWithdraws
    BY <2>1 DEF Validate, LeasesOf
  <2>2. ASSUME NEW g \in LeasesOf(w), FinishValidation(g) \/ Fence(w, g) PROVE OnlyWithdraws
    BY <2>2, <1>1 DEF FinishValidation, Fence
  <2>3. ASSUME NEW ack \in BOOLEAN, ReplayPrimary(w, ack) PROVE OnlyWithdraws
    <3>1. state' = Closed({Primary[w]}, "cancelled") /\ UNCHANGED <<generationEpoch, scopeVars>>
      BY <2>3 DEF ReplayPrimary
    <3> QED BY <3>1, <1>2
  <2>4. ASSUME NEW same \in BOOLEAN, CompletePair(w, same) PROVE OnlyWithdraws
    BY <2>4 DEF CompletePair, Closed, Active, LeasesOf
  <2>5. ASSUME PublishOpen(w) \/ SendCommit(w) \/ CommitAcknowledged(w) \/ CommitUnacknowledged(w)
                 \/ Finish(w)
        PROVE  OnlyWithdraws
    BY <2>5, <1>1 DEF PublishOpen, SendCommit, CommitAcknowledged, CommitUnacknowledged, Finish
  <2> QED
    BY <1>4, <2>1, <2>2, <2>3, <2>4, <2>5 DEF PublishStep
<1>5. ASSUME NEW w \in Writers, FailureStep(w) PROVE OnlyWithdraws
  <2>1. ASSUME Throws(w) \/ Signal(w) \/ Acknowledge(w) \/ GivesUp(w) \/ Crash(w)
                 \/ \E g \in LeasesOf(w) : AbortFails(w, g)
        PROVE  UNCHANGED <<state, generationEpoch, scopeVars>>
    BY <2>1 DEF Throws, Signal, Acknowledge, GivesUp, Crash, AbortFails
  <2>2. ASSUME ListenerAborts(w) PROVE OnlyWithdraws
    BY <2>2, <1>2 DEF ListenerAborts
  <2>3. ASSUME NEW g \in LeasesOf(w), AbortLease(w, g) PROVE OnlyWithdraws
    BY <2>3, <1>2 DEF AbortLease
  <2> QED
    BY <1>1, <1>5, <2>1, <2>2, <2>3 DEF FailureStep
<1>6. ASSUME NEW p \in Principals, RevokeStep(p) PROVE OnlyWithdraws
  BY <1>6, <1>1, <1>2 DEF RevokeStep, RevokeOpen, RevokeCommit, RevokeFails, RevokeGeneration
<1>7. ASSUME RequestStep PROVE OnlyWithdraws
  <2>1. ASSUME NEW s \in Scopes, Invalidate(s) PROVE OnlyWithdraws
    BY <2>1 DEF Invalidate, Closed, Active
  <2>2. ASSUME NEW t \in Tenants, NEW kept \in SUBSET Scopes, Clear(t, kept) PROVE OnlyWithdraws
    BY <2>2 DEF Clear, Closed, Active
  <2>3. ASSUME NEW w \in Writers, CancelJob(w) PROVE OnlyWithdraws
    BY <2>3, <1>2 DEF CancelJob
  <2> QED
    BY <1>7, <2>1, <2>2, <2>3 DEF RequestStep
<1>8. ASSUME RetentionStep PROVE OnlyWithdraws
  <2>1. ASSUME NEW g \in Generations, LeaseLapses(g) PROVE OnlyWithdraws
    BY <2>1, <1>1 DEF LeaseLapses
  <2>2. ASSUME NEW g \in Generations, FailAbandoned(g) PROVE OnlyWithdraws
    BY <2>2, <1>2 DEF FailAbandoned
  <2>3. ASSUME NEW g \in Generations, RetireExpired(g) PROVE OnlyWithdraws
    BY <2>3 DEF RetireExpired
  <2> QED
    BY <1>8, <2>1, <2>2, <2>3 DEF RetentionStep
<1> QED
  BY <1>1, <1>3, <1>4, <1>5, <1>6, <1>7, <1>8 DEF Next, vars

(* What a COMMIT publishes is what its writer has locked.                   *)
LEMMA CommitsWhatIsFenced ==
  ASSUME TypeInv, LockInv, NEW w \in Writers, ServerCommits(w), NEW g \in Publication(w)
  PROVE  g \in Generations /\ WriterOf[g] = w /\ StaysFenced(g)
<1>1. g \in Generations /\ WriterOf[g] = w
  BY DEF Publication, LeasesOf
<1>2. LockedByWriter(g)
  BY <1>1 DEF ServerCommits, Moves, LockInv, CommittingIsFenced, LockedByWriter, InTransaction
<1> QED
  BY <1>1, <1>2 DEF LockInv, LocksHold

LEMMA OnlyCommitsPublish ==
  ASSUME TypeInv, LockInv, [Next]_vars,
         NEW g \in Generations, state[g] # "published", state'[g] = "published"
  PROVE  StaysFenced(g)
<1>1. PICK w \in Writers : ServerCommits(w)
  BY OthersOnlyWithdraw DEF OnlyWithdraws
<1>2. g \in Publication(w)
  BY <1>1 DEF ServerCommits
<1> QED
  BY <1>1, <1>2, CommitsWhatIsFenced

(* Whatever the interleaving of sign-outs and publications, nothing is      *)
(* published under a session that a committed sign-out has ended.           *)
THEOREM SignedOutPublishNothing == Spec => SignedOutNeverPublishes
<1>1. TypeInv /\ LockInv /\ [Next]_vars =>
        [\A g \in Generations :
           (state[g] # "published" /\ state'[g] = "published")
             => ActorOf(g) = None \/ principalEpoch[ActorOf(g)] = actorEpoch[WriterOf[g]]]_vars
  BY OnlyCommitsPublish DEF StaysFenced, ActorCurrent, ActorOf
<1> QED
  BY <1>1, LocksInvariant, PTL DEF Spec, SignedOutNeverPublishes

(* Nothing is published for a job whose cancellation has committed.         *)
THEOREM CancelledJobsPublishNothing == Spec => CancelledJobPublishesNothing
<1>1. TypeInv /\ LockInv /\ [Next]_vars =>
        [\A g \in Generations :
           (state[g] # "published" /\ state'[g] = "published") => job[WriterOf[g]] # "cancelled"]_vars
  BY OnlyCommitsPublish, GenerationAssumption DEF StaysFenced, JobCurrent, LockInv, OnlyJobsAreCancelled
<1> QED
  BY <1>1, LocksInvariant, PTL DEF Spec, CancelledJobPublishesNothing

(* The COMMIT of a publication moves its heads and retires what they showed. *)
LEMMA CommitKeepsHeads ==
  ASSUME TypeInv, LockInv, HeadInv, NEW w \in Writers, ServerCommits(w)
  PROVE  HeadInv'
<1> DEFINE G == Publication(w)
           changed == {ScopeOf[g] : g \in G}
<1> USE GenerationAssumption DEF TypeInv, TypeOK, HeadInv
<1>1. \A g \in G : g \in Generations /\ WriterOf[g] = w
  BY CommitsWhatIsFenced
<1>2. \A s \in Scopes : head'[s] = IF s \in changed THEN CHOOSE g \in G : ScopeOf[g] = s ELSE head[s]
  BY DEF ServerCommits
<1>3. ASSUME NEW g \in G PROVE head'[ScopeOf[g]] = g
  <2>1. g \in Generations /\ ScopeOf[g] \in Scopes /\ ScopeOf[g] \in changed
    BY <1>1
  <2>2. head'[ScopeOf[g]] = CHOOSE h \in G : ScopeOf[h] = ScopeOf[g]
    BY <1>2, <2>1
  <2>3. \A h \in G : ScopeOf[h] = ScopeOf[g] => h = g
    BY <1>1
  <2> HIDE DEF G
  <2> QED BY <2>2, <2>3
<1>4. UNCHANGED <<generationEpoch, scopeEpoch>>
  BY DEF ServerCommits
<1>5. EpochsBounded'
  BY <1>4 DEF EpochsBounded
<1>6. HeadsOfTheirScope'
  <2> SUFFICES ASSUME NEW s \in Scopes, head'[s] # None
               PROVE  ScopeOf[head'[s]] = s
    BY DEF HeadsOfTheirScope
  <2>1. CASE s \in changed
    BY <1>3, <2>1
  <2>2. CASE s \notin changed
    BY <1>2, <2>2 DEF HeadsOfTheirScope
  <2> QED
    BY <2>1, <2>2
<1>7. CurrentGenerationIsHead'
  <2> SUFFICES ASSUME NEW g \in Generations, state'[g] = "published",
                      generationEpoch[g] = scopeEpoch[ScopeOf[g]], g \notin G
               PROVE  head'[ScopeOf[g]] = g
    BY <1>3, <1>4 DEF CurrentGenerationIsHead, StaleScope
  <2>1. g \notin Replaced(w) /\ state[g] = "published"
    BY DEF ServerCommits
  <2>2. head[ScopeOf[g]] = g
    BY <2>1 DEF CurrentGenerationIsHead, StaleScope
  <2>3. ScopeOf[g] \notin changed
    BY <2>1, <2>2 DEF Replaced
  <2> QED
    BY <1>2, <2>2, <2>3
<1> QED
  BY <1>5, <1>6, <1>7

LEMMA NextKeepsHeads ==
  ASSUME TypeInv, LockInv, HeadInv, [Next]_vars
  PROVE  HeadInv'
<1>1. CASE \E w \in Writers : ServerCommits(w)
  BY <1>1, CommitKeepsHeads
<1>2. CASE \A w \in Writers : ~ServerCommits(w)
  <2>1. OnlyWithdraws
    BY <1>2, OthersOnlyWithdraw
  <2>2. /\ generationEpoch \in [Generations -> Nat]
        /\ scopeEpoch \in [Scopes -> Nat]
        /\ ScopeOf \in [Generations -> Scopes]
    BY GenerationAssumption DEF TypeInv, TypeOK
  <2>3. TypeOK'
    BY NextKeepsTypes DEF TypeInv
  <2>4. scopeEpoch' \in [Scopes -> Nat] /\ head' \in [Scopes -> Generations \cup {None}]
    BY <2>3, GenerationAssumption DEF TypeOK
  <2>5. \A g \in Generations :
          /\ generationEpoch[g] <= scopeEpoch[ScopeOf[g]]
          /\ scopeEpoch[ScopeOf[g]] <= scopeEpoch'[ScopeOf[g]]
          /\ generationEpoch'[g] \in {generationEpoch[g], scopeEpoch[ScopeOf[g]]}
    BY <2>1, <2>2 DEF OnlyWithdraws, HeadInv, EpochsBounded
  <2>6. EpochsBounded'
    BY <2>2, <2>4, <2>5 DEF EpochsBounded
  <2>7. HeadsOfTheirScope'
    BY <2>1 DEF OnlyWithdraws, HeadInv, HeadsOfTheirScope
  <2>8. CurrentGenerationIsHead'
    <3> SUFFICES ASSUME NEW g \in Generations, state'[g] = "published",
                        generationEpoch'[g] = scopeEpoch'[ScopeOf[g]]
                 PROVE  head'[ScopeOf[g]] = g
      BY DEF CurrentGenerationIsHead, StaleScope
    <3>1. state[g] = "published" /\ generationEpoch'[g] = generationEpoch[g]
      BY <2>1 DEF OnlyWithdraws
    <3>2. generationEpoch[g] = scopeEpoch[ScopeOf[g]]
      <4>1. /\ generationEpoch[g] \in Nat /\ scopeEpoch[ScopeOf[g]] \in Nat
            /\ scopeEpoch'[ScopeOf[g]] \in Nat
        BY <2>2, <2>4
      <4>2. /\ generationEpoch[g] <= scopeEpoch[ScopeOf[g]]
            /\ scopeEpoch[ScopeOf[g]] <= scopeEpoch'[ScopeOf[g]]
        BY <2>5
      <4>3. scopeEpoch'[ScopeOf[g]] = generationEpoch[g]
        BY <3>1
      <4> QED
        BY <4>1, <4>2, <4>3
    <3>3. head[ScopeOf[g]] = g
      BY <3>1, <3>2 DEF HeadInv, CurrentGenerationIsHead, StaleScope
    <3> QED
      BY <2>1, <2>2, <3>3 DEF OnlyWithdraws
  <2> QED
    BY <2>6, <2>7, <2>8 DEF HeadInv
<1> QED
  BY <1>1, <1>2

LEMMA HeadsInvariant == Spec => [](TypeInv /\ LockInv /\ HeadInv)
<1>1. Init => HeadInv
  BY GenerationAssumption
  DEF Init, HeadInv, CurrentGenerationIsHead, EpochsBounded, HeadsOfTheirScope
<1> QED
  BY <1>1, NextKeepsHeads, LocksInvariant, PTL DEF Spec

(* The generation published under a scope's current epoch is the one its    *)
(* head names, so that none is left behind by a publication or a clear.     *)
THEOREM PublishedIsHead == Spec => []CurrentGenerationIsHead
<1>1. HeadInv => CurrentGenerationIsHead
  BY DEF HeadInv
<1> QED
  BY <1>1, HeadsInvariant, PTL

-----------------------------------------------------------------------------
(* DataGenerations implements PublishedHeads: a COMMIT is a publication, and *)
(* every other step withdraws what it spends, or nothing.                   *)

ShownTo == [s \in Scopes |-> IF Readable(s) THEN head[s] ELSE None]

LEMMA InitialHeads == Init => Heads!Init
BY GenerationAssumption
DEF Init, Heads!Init, Readable, Spent

(* A published generation is shown unless it is spent.                      *)
LEMMA PublishedIsSpentOrShown ==
  ASSUME TypeInv, HeadInv, NEW g \in Generations
  PROVE  /\ (state[g] = "published" /\ g \notin Spent) <=> ShownTo[ScopeOf[g]] = g
         /\ g \in Heads!Shown <=> ShownTo[ScopeOf[g]] = g
<1>1. ScopeOf[g] \in Scopes /\ g # None
  BY GenerationAssumption
<1>2. ShownTo[ScopeOf[g]] = IF Readable(ScopeOf[g]) THEN head[ScopeOf[g]] ELSE None
  BY <1>1 DEF ShownTo
<1>3. (state[g] = "published" /\ g \notin Spent) => head[ScopeOf[g]] = g /\ Readable(ScopeOf[g])
  BY <1>1 DEF Spent, HeadInv, CurrentGenerationIsHead, StaleScope, Readable
<1>4. (head[ScopeOf[g]] = g /\ Readable(ScopeOf[g])) => state[g] = "published" /\ g \notin Spent
  BY <1>1 DEF Spent, StaleScope, Readable
<1> QED
  BY <1>1, <1>2, <1>3, <1>4 DEF Heads!Shown, ShownTo

LEMMA CommitPublishes ==
  ASSUME TypeInv, LockInv, HeadInv, NEW w \in Writers, ServerCommits(w)
  PROVE  Heads!Next
<1> DEFINE G == Publication(w)
<1>1. \A g \in G : /\ g \in Generations /\ WriterOf[g] = w
                   /\ state[g] = "validating" /\ generationEpoch[g] = scopeEpoch[ScopeOf[g]]
  BY CommitsWhatIsFenced DEF StaysFenced
<1>2. /\ state' = [g \in Generations |->
                     IF g \in G THEN "published"
                     ELSE IF g \in Replaced(w) /\ state[g] = "published" THEN "retired"
                     ELSE state[g]]
      /\ head' = [s \in Scopes |-> IF s \in Heads!Changed(G)
                                   THEN CHOOSE g \in G : ScopeOf[g] = s ELSE head[s]]
      /\ UNCHANGED <<generationEpoch, scopeEpoch>>
  BY DEF ServerCommits, Heads!Changed
<1>3. \A g, h \in G : ScopeOf[g] = ScopeOf[h] => g = h
  BY <1>1, GenerationAssumption
<1>4. HeadInv'
  BY CommitKeepsHeads
<1>5. G \cap (Spent \cup Heads!Shown) = {}
  BY <1>1, PublishedIsSpentOrShown DEF Spent, StaleScope
<1>6. ShownTo' = [s \in Scopes |-> IF s \in Heads!Changed(G)
                                   THEN CHOOSE g \in G : ScopeOf[g] = s ELSE ShownTo[s]]
  <2> SUFFICES ASSUME NEW s \in Scopes
               PROVE  (IF Readable(s)' THEN head'[s] ELSE None)
                        = IF s \in Heads!Changed(G) THEN CHOOSE g \in G : ScopeOf[g] = s
                          ELSE ShownTo[s]
    BY DEF ShownTo
  <2>1. CASE s \in Heads!Changed(G)
    <3>1. PICK g \in G : ScopeOf[g] = s
      BY <2>1 DEF Heads!Changed
    <3>2. head'[s] = (CHOOSE h \in G : ScopeOf[h] = s) /\ head'[s] = g
      BY <1>2, <1>3, <2>1, <3>1
    <3>3. Readable(s)'
      BY <1>1, <1>2, <3>1, <3>2, GenerationAssumption DEF Readable
    <3> QED
      BY <2>1, <3>2, <3>3
  <2>2. CASE s \notin Heads!Changed(G)
    <3>1. head'[s] = head[s]
      BY <1>2, <2>2
    <3>2. ASSUME head[s] # None PROVE state'[head[s]] = state[head[s]]
      <4>1. ScopeOf[head[s]] = s /\ head[s] \in Generations
        BY <3>2 DEF HeadInv, HeadsOfTheirScope, TypeInv, TypeOK
      <4>2. head[s] \notin G
        BY <2>2, <4>1 DEF Heads!Changed
      <4>3. head[s] \notin Replaced(w)
        <5> SUFFICES ASSUME NEW g \in G, head[s] = head[ScopeOf[g]]
                     PROVE  FALSE
          BY DEF Replaced
        <5>1. ScopeOf[g] \in Scopes /\ ScopeOf[head[ScopeOf[g]]] = ScopeOf[g]
          BY <1>1, <3>2, GenerationAssumption DEF HeadInv, HeadsOfTheirScope
        <5> QED
          BY <2>2, <4>1, <5>1 DEF Heads!Changed
      <4> QED
        BY <1>2, <4>1, <4>2, <4>3
    <3>3. Readable(s)' <=> Readable(s)
      BY <1>2, <3>1, <3>2 DEF Readable
    <3> QED
      BY <2>2, <3>1, <3>3 DEF ShownTo
  <2> QED
    BY <2>1, <2>2
<1>7. Spent' = Spent \cup {g \in Heads!Shown : ScopeOf[g] \in Heads!Changed(G)}
  <2> SUFFICES ASSUME NEW g \in Generations
               PROVE  g \in Spent' <=>
                        g \in Spent \/ (g \in Heads!Shown /\ ScopeOf[g] \in Heads!Changed(G))
    BY DEF Spent, Heads!Shown
  <2>1. CASE g \in G
    BY <1>1, <1>2, <1>5, <2>1 DEF Spent, StaleScope
  <2>2. CASE g \notin G /\ g \in Replaced(w) /\ state[g] = "published"
    <3>1. g \in Spent'
      BY <1>2, <2>2 DEF Spent
    <3>2. ScopeOf[g] \in Heads!Changed(G)
      <4>1. PICK h \in G : g = head[ScopeOf[h]]
        BY <2>2 DEF Replaced
      <4>2. ScopeOf[g] = ScopeOf[h]
        <5>1. ScopeOf[h] \in Scopes /\ head[ScopeOf[h]] # None
          BY <1>1, <4>1, GenerationAssumption
        <5>2. HeadsOfTheirScope
          BY DEF HeadInv
        <5> QED BY ONLY <4>1, <5>1, <5>2 DEF HeadsOfTheirScope
      <4> QED
        BY <4>2 DEF Heads!Changed
    <3> QED
      BY <2>2, <3>1, <3>2, PublishedIsSpentOrShown
  <2>3. CASE g \notin G /\ ~(g \in Replaced(w) /\ state[g] = "published")
    <3>1. g \in Spent' <=> g \in Spent
      BY <1>2, <2>3 DEF Spent, StaleScope
    <3>2. ASSUME g \in Heads!Shown, ScopeOf[g] \in Heads!Changed(G) PROVE FALSE
      <4>1. state[g] = "published" /\ head[ScopeOf[g]] = g
        BY <3>2, PublishedIsSpentOrShown DEF Spent, StaleScope, HeadInv, CurrentGenerationIsHead
      <4>2. PICK h \in G : ScopeOf[g] = ScopeOf[h]
        BY <3>2 DEF Heads!Changed
      <4>3. g \in Replaced(w)
        BY <4>1, <4>2 DEF Replaced
      <4> QED
        BY <2>3, <4>1, <4>3
    <3> QED
      BY <3>1, <3>2
  <2> QED
    BY <2>1, <2>2, <2>3
<1>8. PICK D \in SUBSET Generations : D = G
  BY <1>1
<1>9. Heads!Publish(D)
  BY <1>3, <1>5, <1>6, <1>7, <1>8 DEF Heads!Publish, ShownTo
<1> QED
  BY <1>9 DEF Heads!Next
LEMMA OtherStepsWithdraw ==
  ASSUME TypeInv, HeadInv, TypeOK', OnlyWithdraws
  PROVE  Heads!Next
<1>1. ASSUME NEW g \in Generations PROVE g \in Spent => g \in Spent'
  <2>1. /\ generationEpoch[g] \in Nat /\ scopeEpoch[ScopeOf[g]] \in Nat
        /\ scopeEpoch'[ScopeOf[g]] \in Nat
    <3>1. scopeEpoch' \in [Scopes -> Nat]
      BY GenerationAssumption DEF TypeOK
    <3>2. generationEpoch \in [Generations -> Nat] /\ scopeEpoch \in [Scopes -> Nat]
      BY GenerationAssumption DEF TypeInv, TypeOK
    <3>3. ScopeOf[g] \in Scopes
      BY GenerationAssumption
    <3> QED
      BY <3>1, <3>2, <3>3
  <2>2. /\ generationEpoch[g] <= scopeEpoch[ScopeOf[g]]
        /\ scopeEpoch[ScopeOf[g]] <= scopeEpoch'[ScopeOf[g]]
    BY GenerationAssumption DEF HeadInv, EpochsBounded, OnlyWithdraws
  <2>3. state[g] = "published" /\ generationEpoch[g] # scopeEpoch[ScopeOf[g]]
          => generationEpoch'[g] # scopeEpoch'[ScopeOf[g]]
    BY <2>1, <2>2 DEF OnlyWithdraws
  <2> QED
    BY <2>3 DEF Spent, StaleScope, OnlyWithdraws
<1>2. Spent' = Spent \cup Spent'
  BY <1>1 DEF Spent
<1>3. ASSUME NEW s \in Scopes
      PROVE  ShownTo'[s] = IF ShownTo[s] \in Spent' THEN None ELSE ShownTo[s]
  <2>1. ShownTo[s] = IF Readable(s) THEN head[s] ELSE None
    BY DEF ShownTo
  <2>2. ShownTo'[s] = IF Readable(s)' THEN head'[s] ELSE None
    BY DEF ShownTo
  <2>3. head[s] # None => head[s] \in Generations /\ ScopeOf[head[s]] = s
    BY DEF TypeInv, TypeOK, HeadInv, HeadsOfTheirScope
  <2>4. CASE Readable(s)'
    <3>1. head'[s] = head[s] /\ head[s] # None /\ state'[head[s]] = "published"
      BY <2>3, <2>4 DEF Readable, OnlyWithdraws, TypeOK
    <3>2. head[s] \notin Spent'
      BY <2>3, <2>4, <3>1 DEF Readable, Spent, StaleScope
    <3>3. Readable(s)
      BY <1>1, <2>3, <3>1, <3>2 DEF Readable, Spent, StaleScope, OnlyWithdraws
    <3> QED
      BY <2>1, <2>2, <2>4, <3>1, <3>2, <3>3
  <2>5. CASE Readable(s) /\ ~Readable(s)'
    <3>1. head[s] \in Generations /\ state[head[s]] = "published"
      BY <2>3, <2>5 DEF Readable
    <3>2. state'[head[s]] \in {"published", "retired"}
      BY <3>1 DEF OnlyWithdraws
    <3>3. head[s] \in Spent'
      BY <2>3, <2>5, <3>1, <3>2 DEF Readable, Spent, StaleScope, OnlyWithdraws
    <3> QED
      BY <2>1, <2>2, <2>5, <3>3
  <2> QED
    BY <2>1, <2>2, <2>4, <2>5
<1>4. ShownTo' = [s \in Scopes |-> IF ShownTo[s] \in Spent' THEN None ELSE ShownTo[s]]
  BY <1>3 DEF ShownTo
<1>5. PICK D \in SUBSET Generations : D = Spent'
  BY DEF Spent
<1>6. Heads!Withdraw(D)
  BY <1>2, <1>4, <1>5 DEF Heads!Withdraw, ShownTo
<1> QED
  BY <1>6 DEF Heads!Next

(* Every behaviour of the generation tables is one of PublishedHeads: a     *)
(* scope shows one dataset, a publication appears as a whole, and what was  *)
(* replaced, withdrawn or given up is never shown again.                    *)
THEOREM ImplementsPublishedHeads == Spec => KeepsPromise
<1>1. TypeInv /\ LockInv /\ HeadInv /\ [Next]_vars => Heads!Next
  <2> SUFFICES ASSUME TypeInv, LockInv, HeadInv, [Next]_vars
               PROVE  Heads!Next
    OBVIOUS
  <2>1. CASE \E w \in Writers : ServerCommits(w)
    BY <2>1, CommitPublishes
  <2>2. CASE \A w \in Writers : ~ServerCommits(w)
    <3>1. TypeOK'
      BY NextKeepsTypes DEF TypeInv
    <3> QED
      BY <2>2, <3>1, OthersOnlyWithdraw, OtherStepsWithdraw
  <2> QED
    BY <2>1, <2>2
<1> QED
  BY <1>1, InitialHeads, HeadsInvariant, PTL DEF Spec, KeepsPromise, Heads!Spec
=============================================================================
