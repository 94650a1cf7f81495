----------------------- MODULE GenerationOutcomeProofs -----------------------
(***************************************************************************)
(* More proofs about DataGenerations: who may write at the same time, what *)
(* is published together and over which inputs, and what a writer reports. *)
(***************************************************************************)
EXTENDS DataGenerationsProofs, FiniteSetTheorems

USE DEF rowVars, scopeVars, revokeVars, localVars, signalVars

-----------------------------------------------------------------------------
(* What a step does to the row of a generation.  Only a BeginCommit inserts *)
(* one and only a ServerCommits shows one; all other steps are quiet.       *)

Shown == {"published", "retired"}

Completing(w) == pc[w] = "working" /\ \A h \in LeasesOf(w) : state[h] \in Active

RowQuiet(g) ==
  /\ state[g] = "none" => state'[g] = "none"
  /\ state[g] # "none" => state'[g] # "none"
  /\ state[g] \in Shown => state'[g] \in Shown
  /\ state'[g] \in Shown => state[g] \in Shown
  /\ state'[g] \in Active => state[g] \in Active
  /\ leaseLive'[g] => leaseLive[g]
  /\ validated'[g] = validated[g] \/ Completing(WriterOf[g])

Quiet == held' = held /\ \A g \in Generations : RowQuiet(g)

Inserts(g) ==
  /\ state[g] = "none" /\ state'[g] = "staging"
  /\ validated'[g] = validated[g]
  /\ \A h \in Generations \ {g} : RowQuiet(h)

Shows(w) ==
  /\ held' = held
  /\ \A g \in Publication(w) : state[g] = "validating" /\ state'[g] = "published"
  /\ \A g \in Generations \ Publication(w) : RowQuiet(g)
  /\ leaseLive' = leaseLive /\ validated' = validated

(* Closing rows is quiet.                                                   *)
LEMMA ClosedIsQuiet ==
  ASSUME TypeOK, NEW G, NEW to \in {"failed", "cancelled"}, state' = Closed(G, to),
         UNCHANGED <<leaseLive, validated, held>>
  PROVE  Quiet
BY DEF TypeOK, Closed, Quiet, RowQuiet, Shown, Active

(* So is what leaves the rows alone.                                        *)
LEMMA UntouchedIsQuiet ==
  ASSUME TypeOK, UNCHANGED <<state, leaseLive, validated, held>>
  PROVE  Quiet
BY DEF Quiet, RowQuiet

LEMMA BeginCommitInserts ==
  ASSUME TypeOK, NEW w \in Writers, NEW g \in LeasesOf(w), NEW ack \in BOOLEAN,
         BeginCommit(w, g, ack)
  PROVE  Inserts(g)
<1> DEFINE stale == {h \in Generations : ScopeOf[h] = ScopeOf[g] /\ ~leaseLive[h]}
<1>1. g \in Generations /\ state[g] = "none"
  BY DEF BeginCommit, Due, LeasesOf
<1>2. /\ state' = [Closed(stale, "failed") EXCEPT ![g] = "staging"]
      /\ leaseLive' = [leaseLive EXCEPT ![g] = TRUE]
      /\ validated' = validated
  BY DEF BeginCommit
<1>3. state'[g] = "staging" /\ \A h \in Generations \ {g} : state'[h] = Closed(stale, "failed")[h]
  BY <1>1, <1>2 DEF Closed
<1>4. \A h \in Generations \ {g} : leaseLive'[h] = leaseLive[h]
  BY <1>1, <1>2 DEF TypeOK
<1>5. \A h \in Generations \ {g} :
        state'[h] = state[h] \/ (state[h] \in Active /\ state'[h] = "failed")
  BY <1>3 DEF Closed
<1>6. \A h \in Generations \ {g} : RowQuiet(h)
  BY <1>2, <1>4, <1>5 DEF RowQuiet, Shown, Active
<1> QED
  BY <1>1, <1>2, <1>3, <1>6 DEF Inserts

LEMMA ServerCommitsShows ==
  ASSUME TypeInv, LockInv, NEW w \in Writers, ServerCommits(w)
  PROVE  Shows(w)
<1>1. \A g \in Publication(w) : state[g] = "validating" /\ g \in Generations
  BY CommitsWhatIsFenced DEF StaysFenced
<1>2. /\ state' = [g \in Generations |->
                     IF g \in Publication(w) THEN "published"
                     ELSE IF g \in Replaced(w) /\ state[g] = "published" THEN "retired"
                     ELSE state[g]]
      /\ leaseLive' = leaseLive /\ validated' = validated /\ held' = held
  BY DEF ServerCommits
<1>3. \A g \in Generations \ Publication(w) :
        state'[g] = state[g] \/ (state[g] = "published" /\ state'[g] = "retired")
  BY <1>2
<1>4. \A g \in Generations \ Publication(w) : RowQuiet(g)
  BY <1>2, <1>3 DEF RowQuiet, Shown, Active
<1> QED
  BY <1>1, <1>2, <1>4 DEF Shows

(* A managed writer has one lease only, so that completing it completes all. *)
LEMMA ManagedHasOneLease ==
  ASSUME NEW g \in Generations, WriterOf[g] \in Managed, NEW h \in LeasesOf(WriterOf[g])
  PROVE  h = g
BY GenerationAssumption DEF LeasesOf

LEMMA StepsOnRows ==
  ASSUME TypeInv, LockInv, [Next]_vars
  PROVE  \/ \E w \in Writers : \E g \in LeasesOf(w) : \E ack \in BOOLEAN :
              BeginCommit(w, g, ack) /\ Inserts(g)
         \/ \E w \in Writers : ServerCommits(w) /\ Shows(w)
         \/ Quiet
<1> DEFINE Kinds ==
     \/ \E w \in Writers : \E g \in LeasesOf(w) : \E ack \in BOOLEAN :
          BeginCommit(w, g, ack) /\ Inserts(g)
     \/ \E w \in Writers : ServerCommits(w) /\ Shows(w)
     \/ Quiet
<1>0. TypeOK
  BY DEF TypeInv
<1>1. CASE UNCHANGED vars
  BY <1>0, <1>1, UntouchedIsQuiet DEF vars
<1>2. ASSUME NEW w \in Writers, BeginStep(w) PROVE Kinds
  <2>1. ASSUME Start(w) \/ LeaveQueue(w) \/ \E g \in LeasesOf(w) : BeginOpen(w, g)
        PROVE  UNCHANGED <<state, leaseLive, validated, held>>
    BY <2>1 DEF Start, LeaveQueue, BeginOpen
  <2>2. ASSUME NEW g \in LeasesOf(w), NEW ack \in BOOLEAN, BeginCommit(w, g, ack)
        PROVE  Kinds
    BY <1>0, <2>2, BeginCommitInserts
  <2> QED
    BY <1>0, <1>2, <2>1, <2>2, UntouchedIsQuiet DEF BeginStep
<1>3. ASSUME NEW w \in Writers, PublishStep(w) PROVE Kinds
  <2>1. ASSUME NEW g \in LeasesOf(w), Validate(g) PROVE Quiet
    <3>1. /\ g \in Generations /\ state[g] = "staging"
          /\ state' = [state EXCEPT ![g] = "validating"]
          /\ UNCHANGED <<leaseLive, validated, held>>
      BY <2>1 DEF Validate, LeasesOf
    <3> QED
      BY <1>0, <3>1 DEF TypeOK, Quiet, RowQuiet, Shown, Active
  <2>2. ASSUME NEW g \in LeasesOf(w), FinishValidation(g) PROVE Quiet
    <3>1. /\ g \in Generations /\ state[g] = "validating"
          /\ WriterOf[g] \in Managed /\ pc[WriterOf[g]] = "working"
          /\ validated' = [validated EXCEPT ![g] = TRUE]
          /\ UNCHANGED <<state, leaseLive, held>>
      BY <2>2 DEF FinishValidation, LeasesOf
    <3>2. Completing(WriterOf[g])
      BY <3>1, ManagedHasOneLease DEF Completing, Active
    <3> QED
      BY <1>0, <3>1, <3>2 DEF TypeOK, Quiet, RowQuiet, Shown, Active
  <2>3. ASSUME NEW ack \in BOOLEAN, ReplayPrimary(w, ack) PROVE Quiet
    <3>1. state' = Closed({Primary[w]}, "cancelled") /\ UNCHANGED <<leaseLive, validated, held>>
      BY <2>3 DEF ReplayPrimary
    <3> QED BY <1>0, <3>1, ClosedIsQuiet
  <2>4. ASSUME NEW same \in BOOLEAN, CompletePair(w, same) PROVE Quiet
    <3> DEFINE dropped == IF same THEN LeasesOf(w) \ {Primary[w]} ELSE {}
               kept == LeasesOf(w) \ dropped
    <3>1. /\ pc[w] = "working"
          /\ \A g \in LeasesOf(w) : state[g] = "staging"
          /\ state' = [g \in Generations |->
                         IF g \in kept THEN "validating" ELSE Closed(dropped, "cancelled")[g]]
          /\ validated' = [g \in Generations |-> g \in kept \/ validated[g]]
          /\ UNCHANGED <<leaseLive, held>>
      BY <2>4 DEF CompletePair
    <3>2. Completing(w)
      BY <3>1 DEF Completing, Active
    <3>3. \A g \in Generations : g \notin LeasesOf(w) => state'[g] = state[g] /\ validated'[g] = validated[g]
      BY <1>0, <3>1 DEF Closed, TypeOK
    <3>4. \A g \in LeasesOf(w) : state'[g] \in {"validating", "cancelled"} /\ WriterOf[g] = w
      BY <3>1 DEF Closed, LeasesOf, Active
    <3>5. ASSUME NEW g \in Generations PROVE RowQuiet(g)
      <4>1. CASE g \in LeasesOf(w)
        BY <4>1, <3>1, <3>2, <3>4 DEF RowQuiet, Shown, Active
      <4>2. CASE g \notin LeasesOf(w)
        BY <4>2, <3>1, <3>3 DEF RowQuiet
      <4> QED BY <4>1, <4>2
    <3> QED BY <3>1, <3>5 DEF Quiet
  <2>5. ASSUME \/ \E g \in LeasesOf(w) : Fence(w, g)
               \/ PublishOpen(w) \/ SendCommit(w) \/ CommitAcknowledged(w) \/ CommitUnacknowledged(w)
               \/ Finish(w)
        PROVE  UNCHANGED <<state, leaseLive, validated, held>>
    BY <2>5 DEF Fence, PublishOpen, SendCommit, CommitAcknowledged, CommitUnacknowledged, Finish
  <2>6. ASSUME ServerCommits(w) PROVE Kinds
    BY <2>6, ServerCommitsShows
  <2> QED
    BY <1>0, <1>3, <2>1, <2>2, <2>3, <2>4, <2>5, <2>6, UntouchedIsQuiet DEF PublishStep
<1>4. ASSUME NEW w \in Writers, FailureStep(w) PROVE Quiet
  <2>1. ASSUME Throws(w) \/ Signal(w) \/ Acknowledge(w) \/ GivesUp(w) \/ Crash(w)
                 \/ \E g \in LeasesOf(w) : AbortFails(w, g)
        PROVE  UNCHANGED <<state, leaseLive, validated, held>>
    BY <2>1 DEF Throws, Signal, Acknowledge, GivesUp, Crash, AbortFails
  <2>2. ASSUME ListenerAborts(w) PROVE Quiet
    <3>1. state' = Closed(held[w], "cancelled") /\ UNCHANGED <<leaseLive, validated, held>>
      BY <2>2 DEF ListenerAborts
    <3> QED BY <1>0, <3>1, ClosedIsQuiet
  <2>3. ASSUME NEW g \in LeasesOf(w), AbortLease(w, g) PROVE Quiet
    <3>1. PICK to \in {"failed", "cancelled"} : state' = Closed({g}, to)
      BY <2>3 DEF AbortLease
    <3>2. UNCHANGED <<leaseLive, validated, held>>
      BY <2>3 DEF AbortLease
    <3> QED BY <1>0, <3>1, <3>2, ClosedIsQuiet
  <2> QED
    BY <1>0, <1>4, <2>1, <2>2, <2>3, UntouchedIsQuiet DEF FailureStep
<1>5. ASSUME NEW p \in Principals, RevokeStep(p) PROVE Quiet
  <2>1. ASSUME RevokeCommit(p) PROVE Quiet
    <3>1. state' = Closed(doomed[p], "cancelled") /\ UNCHANGED <<leaseLive, validated, held>>
      BY <2>1 DEF RevokeCommit
    <3> QED BY <1>0, <3>1, ClosedIsQuiet
  <2>2. ASSUME RevokeOpen(p) \/ RevokeFails(p) \/ \E g \in Generations : RevokeGeneration(p, g)
        PROVE  UNCHANGED <<state, leaseLive, validated, held>>
    BY <2>2 DEF RevokeOpen, RevokeFails, RevokeGeneration
  <2> QED
    BY <1>0, <1>5, <2>1, <2>2, UntouchedIsQuiet DEF RevokeStep
<1>6. ASSUME RequestStep PROVE Quiet
  <2>1. ASSUME NEW s \in Scopes, Invalidate(s) PROVE Quiet
    <3>1. /\ state' = Closed({g \in Generations : ScopeOf[g] = s}, "cancelled")
          /\ UNCHANGED <<leaseLive, validated, held>>
      BY <2>1 DEF Invalidate
    <3> QED BY <1>0, <3>1, ClosedIsQuiet
  <2>2. ASSUME NEW t \in Tenants, NEW kept \in SUBSET Scopes, Clear(t, kept) PROVE Quiet
    <3> DEFINE G == {g \in Generations : ScopeOf[g] \in {s \in Scopes : TenantOf[s] = t}}
    <3>1. /\ state' = [g \in Generations |->
                         IF g \in G /\ state[g] = "published" THEN "retired"
                         ELSE Closed(G, "cancelled")[g]]
          /\ UNCHANGED <<leaseLive, validated, held>>
      BY <2>2 DEF Clear
    <3>2. \A g \in Generations :
            \/ state'[g] = state[g]
            \/ state[g] = "published" /\ state'[g] = "retired"
            \/ state[g] \in Active /\ state'[g] = "cancelled"
      BY <3>1 DEF Closed
    <3> QED
      BY <3>1, <3>2 DEF Quiet, RowQuiet, Shown, Active
  <2>3. ASSUME NEW w \in Writers, CancelJob(w) PROVE Quiet
    <3>1. state' = Closed(LeasesOf(w), "cancelled") /\ UNCHANGED <<leaseLive, validated, held>>
      BY <2>3 DEF CancelJob
    <3> QED BY <1>0, <3>1, ClosedIsQuiet
  <2> QED
    BY <1>6, <2>1, <2>2, <2>3 DEF RequestStep
<1>7. ASSUME RetentionStep PROVE Quiet
  <2>1. ASSUME NEW g \in Generations, LeaseLapses(g) PROVE Quiet
    <3>1. leaseLive' = [leaseLive EXCEPT ![g] = FALSE] /\ UNCHANGED <<state, validated, held>>
      BY <2>1 DEF LeaseLapses
    <3> QED BY <1>0, <3>1 DEF TypeOK, Quiet, RowQuiet
  <2>2. ASSUME NEW g \in Generations, FailAbandoned(g) PROVE Quiet
    <3>1. state' = Closed({g}, "failed") /\ UNCHANGED <<leaseLive, validated, held>>
      BY <2>2 DEF FailAbandoned
    <3> QED BY <1>0, <3>1, ClosedIsQuiet
  <2>3. ASSUME NEW g \in Generations, RetireExpired(g) PROVE Quiet
    <3>1. /\ state[g] = "published" /\ state' = [state EXCEPT ![g] = "retired"]
          /\ UNCHANGED <<leaseLive, validated, held>>
      BY <2>3 DEF RetireExpired
    <3> QED BY <1>0, <3>1 DEF TypeOK, Quiet, RowQuiet, Shown, Active
  <2> QED
    BY <1>7, <2>1, <2>2, <2>3 DEF RetentionStep
<1> QED
  BY <1>1, <1>2, <1>3, <1>4, <1>5, <1>6, <1>7 DEF Next

-----------------------------------------------------------------------------
(* The advisory lock of a tenant: one beginning or publishing transaction   *)
(* at a time.                                                               *)

Serial == InTransaction \cup {"opening"}

MutexInv ==
  \A v, w \in Writers :
    (pc[v] \in Serial /\ pc[w] \in Serial /\ TenantOfWriter(v) = TenantOfWriter(w)) => v = w

(* At most the writer that steps enters a transaction, having the lock.     *)
LEMMA StepsOnPc ==
  ASSUME TypeInv, [Next]_vars
  PROVE  \/ pc' = pc
         \/ \E w \in Writers :
              /\ \A v \in Writers \ {w} : pc'[v] = pc[v]
              /\ pc'[w] \in Serial => pc[w] \in Serial \/ MutexFree(TenantOfWriter(w))
              /\ \/ pc'[w] # "opening"
                 \/ \E g \in LeasesOf(w) : BeginOpen(w, g)
<1> DEFINE Moved(w) ==
     /\ \A v \in Writers \ {w} : pc'[v] = pc[v]
     /\ pc'[w] \in Serial => pc[w] \in Serial \/ MutexFree(TenantOfWriter(w))
     /\ \/ pc'[w] # "opening"
        \/ \E g \in LeasesOf(w) : BeginOpen(w, g)
<1>0. pc \in [Writers -> WriterPc]
  BY DEF TypeInv, TypeOK
<1>1. CASE UNCHANGED vars
  BY <1>1 DEF vars
<1>2. ASSUME NEW w \in Writers, BeginStep(w) PROVE Moved(w)
  <2>1. ASSUME NEW g \in LeasesOf(w), BeginOpen(w, g) PROVE Moved(w)
    BY <1>0, <2>1 DEF BeginOpen, Moves
  <2>2. ASSUME NEW g \in LeasesOf(w), NEW ack \in BOOLEAN, BeginCommit(w, g, ack) PROVE Moved(w)
    BY <1>0, <2>2 DEF BeginCommit, Moves, Serial, InTransaction
  <2>3. ASSUME Start(w) \/ LeaveQueue(w) PROVE Moved(w)
    BY <1>0, <2>3 DEF Start, LeaveQueue, Moves, Ends, Serial, InTransaction
  <2> QED BY <1>2, <2>1, <2>2, <2>3 DEF BeginStep
<1>3. ASSUME NEW w \in Writers, PublishStep(w) PROVE pc' = pc \/ Moved(w)
  <2>1. ASSUME \/ \E g \in LeasesOf(w) : Validate(g) \/ FinishValidation(g) \/ Fence(w, g)
               \/ \E same \in BOOLEAN : CompletePair(w, same)
        PROVE  pc' = pc
    BY <2>1 DEF Validate, FinishValidation, Fence, CompletePair
  <2>2. ASSUME NEW ack \in BOOLEAN, ReplayPrimary(w, ack) PROVE Moved(w)
    BY <1>0, <2>2 DEF ReplayPrimary, Moves, Serial, InTransaction
  <2>3. ASSUME PublishOpen(w) PROVE Moved(w)
    BY <1>0, <2>3 DEF PublishOpen, Moves
  <2>4. ASSUME SendCommit(w) PROVE Moved(w)
    BY <1>0, <2>4 DEF SendCommit, Moves, Serial, InTransaction
  <2>5. ASSUME ServerCommits(w) \/ CommitAcknowledged(w) \/ CommitUnacknowledged(w) \/ Finish(w)
        PROVE  Moved(w)
    BY <1>0, <2>5
    DEF ServerCommits, CommitAcknowledged, CommitUnacknowledged, Finish, Moves, Ends, Serial,
        InTransaction
  <2> QED BY <1>3, <2>1, <2>2, <2>3, <2>4, <2>5 DEF PublishStep
<1>4. ASSUME NEW w \in Writers, FailureStep(w) PROVE pc' = pc \/ Moved(w)
  <2>1. ASSUME Throws(w) \/ Acknowledge(w) \/ GivesUp(w) \/ Crash(w) PROVE Moved(w)
    BY <1>0, <2>1 DEF Throws, Acknowledge, GivesUp, Crash, Moves, Ends, Serial, InTransaction
  <2>2. ASSUME \/ Signal(w) \/ ListenerAborts(w)
               \/ \E g \in LeasesOf(w) : AbortLease(w, g) \/ AbortFails(w, g)
        PROVE  pc' = pc
    BY <2>2 DEF Signal, ListenerAborts, AbortLease, AbortFails
  <2> QED BY <1>4, <2>1, <2>2 DEF FailureStep
<1>5. ASSUME NEW p \in Principals, RevokeStep(p) PROVE pc' = pc
  BY <1>5 DEF RevokeStep, RevokeOpen, RevokeCommit, RevokeFails, RevokeGeneration
<1>6. ASSUME RequestStep PROVE pc' = pc
  BY <1>6 DEF RequestStep, Invalidate, Clear, CancelJob
<1>7. ASSUME RetentionStep PROVE pc' = pc
  BY <1>7 DEF RetentionStep, LeaseLapses, FailAbandoned, RetireExpired
<1> QED
  BY <1>1, <1>2, <1>3, <1>4, <1>5, <1>6, <1>7 DEF Next

LEMMA NextKeepsMutex ==
  ASSUME TypeInv, MutexInv, [Next]_vars
  PROVE  MutexInv'
<1>1. CASE pc' = pc
  BY <1>1 DEF MutexInv, TenantOfWriter
<1>2. ASSUME NEW w \in Writers,
             \A v \in Writers \ {w} : pc'[v] = pc[v],
             pc'[w] \in Serial => pc[w] \in Serial \/ MutexFree(TenantOfWriter(w))
      PROVE  MutexInv'
  <2> SUFFICES ASSUME NEW u \in Writers, NEW v \in Writers,
                      pc'[u] \in Serial, pc'[v] \in Serial,
                      TenantOfWriter(u) = TenantOfWriter(v), u # v
               PROVE  FALSE
    BY DEF MutexInv, TenantOfWriter
  <2>1. ASSUME NEW x \in Writers, x # w, pc[x] \in Serial, pc'[w] \in Serial,
               TenantOfWriter(x) = TenantOfWriter(w)
        PROVE  FALSE
    <3>1. ~MutexFree(TenantOfWriter(w))
      BY <2>1 DEF MutexFree, Serial
    <3> QED BY <1>2, <2>1, <3>1 DEF MutexInv
  <2>2. CASE u = w
    BY <1>2, <2>1, <2>2
  <2>3. CASE v = w
    BY <1>2, <2>1, <2>3
  <2>4. CASE u # w /\ v # w
    BY <1>2, <2>4 DEF MutexInv
  <2> QED BY <2>2, <2>3, <2>4
<1> QED
  BY <1>1, <1>2, StepsOnPc

-----------------------------------------------------------------------------
(* Admission.  Between its counts and its insert a begin holds the          *)
(* admission lock, so that no other writer can begin; what has lapsed or    *)
(* been closed meanwhile only makes room.                                   *)

(* The writers there will be when w has begun.                              *)
With(w) == LiveWriters \cup {w}
OfTenant(W, t) == {v \in W : TenantOfWriter(v) = t}

Admitted(w) ==
  /\ \A g \in Due(w) : SourceFree(g)
  /\ Cardinality(With(w)) <= GlobalLimit
  /\ Cardinality(OfTenant(With(w), TenantOfWriter(w))) <= TenantLimit

OneOpens == \A v, w \in Writers : (pc[v] = "opening" /\ pc[w] = "opening") => v = w

AdmissionInv ==
  /\ IsFiniteSet(LiveWriters)
  /\ OneWriterPerSource
  /\ WriterLimit
  /\ OneOpens
  /\ \A w \in Writers : pc[w] = "opening" => Admitted(w)

(* A writer has at most one lease to begin next.                            *)
LEMMA OneIsDue ==
  ASSUME TypeInv, NEW w \in Writers, \A g \in held[w] : state[g] # "none",
         NEW g \in Due(w), NEW h \in Due(w)
  PROVE  g = h
<1>1. g \in Generations /\ h \in Generations /\ WriterOf[g] = w /\ WriterOf[h] = w
  BY DEF Due, LeasesOf
<1>2. state[g] = "none" /\ state[h] = "none"
  BY DEF Due
<1>3. CASE Primary[w] \in held[w]
  <2>1. g # Primary[w] /\ h # Primary[w]
    BY <1>2, <1>3
  <2> QED BY <1>1, <2>1, LineageAssumption
<1>4. CASE Primary[w] \notin held[w]
  BY <1>4 DEF Due
<1> QED BY <1>3, <1>4

(* Fewer writers are fewer.                                                 *)
LEMMA FewerWriters ==
  ASSUME NEW A, NEW B, IsFiniteSet(B), A \subseteq B
  PROVE  /\ IsFiniteSet(A)
         /\ Cardinality(A) \in Nat /\ Cardinality(B) \in Nat
         /\ Cardinality(A) <= Cardinality(B)
<1>1. IsFiniteSet(A) /\ Cardinality(A) <= Cardinality(B)
  BY FS_Subset
<1> QED
  BY <1>1, FS_CardinalityType

(* One writer more is one more at most.                                     *)
LEMMA OneMoreWriter ==
  ASSUME NEW A, IsFiniteSet(A), NEW w, NEW n \in Nat, Cardinality(A) < n
  PROVE  IsFiniteSet(A \cup {w}) /\ Cardinality(A \cup {w}) <= n
<1>1. /\ IsFiniteSet(A \cup {w})
      /\ Cardinality(A \cup {w}) = IF w \in A THEN Cardinality(A) ELSE Cardinality(A) + 1
  BY FS_AddElement
<1>2. Cardinality(A) \in Nat
  BY FS_CardinalityType
<1> QED
  BY <1>1, <1>2

LEMMA OpenIsAdmitted ==
  ASSUME TypeInv, AdmissionInv, NEW w \in Writers, \A h \in held[w] : state[h] # "none",
         NEW g \in LeasesOf(w), BeginOpen(w, g)
  PROVE  Admitted(w)
<1> DEFINE t == TenantOfWriter(w)
           L == LiveWriters
           T == OfTenant(L, t)
<1>1. g \in Due(w) /\ SourceFree(g) /\ WithinLimits(w)
  BY DEF BeginOpen
<1>2. \A h \in Due(w) : SourceFree(h)
  BY <1>1, OneIsDue
<1>3. IsFiniteSet(L) /\ GlobalLimit \in Nat /\ TenantLimit \in Nat
  BY GenerationAssumption DEF AdmissionInv
<1>4. IsFiniteSet(T)
  BY <1>3, FewerWriters DEF OfTenant
<1>5. With(w) = L \cup {w} /\ OfTenant(With(w), t) = T \cup {w}
  BY DEF With, OfTenant
<1>6. CASE Paired(w)
  <2>1. PICK h \in LeasesOf(w) : Live(h)
    <3> SUFFICES ASSUME \A h \in LeasesOf(w) : ~Live(h) PROVE FALSE
      OBVIOUS
    <3>1. {h \in LeasesOf(w) : Live(h)} = {}
      OBVIOUS
    <3> QED BY <1>6, <3>1, FS_EmptySet DEF Paired
  <2>2. w \in L
    BY <2>1 DEF LiveWriters, LeasesOf
  <2>3. L \cup {w} = L /\ T \cup {w} = T
    BY <2>2 DEF OfTenant
  <2>4. t \in Tenants
    BY GenerationAssumption DEF TenantOfWriter
  <2>5. Cardinality(L) <= GlobalLimit /\ Cardinality(T) <= TenantLimit
    BY <2>4 DEF AdmissionInv, WriterLimit, OfTenant
  <2> QED BY <1>2, <1>5, <2>3, <2>5 DEF Admitted
<1>7. CASE ~Paired(w)
  <2>1. Cardinality(L) < GlobalLimit /\ Cardinality(T) < TenantLimit
    BY <1>1, <1>7 DEF WithinLimits, OfTenant
  <2>2. Cardinality(L \cup {w}) <= GlobalLimit /\ Cardinality(T \cup {w}) <= TenantLimit
    BY <1>3, <1>4, <2>1, OneMoreWriter
  <2> QED BY <1>2, <1>5, <2>2 DEF Admitted
<1> QED BY <1>6, <1>7

(* What lapses or is closed only makes room.                                *)
Fewer ==
  /\ \A g \in Generations : Live(g)' => Live(g)
  /\ \A g \in Generations : state'[g] = "none" => state[g] = "none"
  /\ held' = held

LEMMA FewerLiveWriters ==
  ASSUME Fewer
  PROVE  LiveWriters' \subseteq LiveWriters
BY DEF Fewer, LiveWriters

LEMMA FewerStayAdmitted ==
  ASSUME AdmissionInv, Fewer, NEW w \in Writers, Admitted(w)
  PROVE  Admitted(w)'
<1> DEFINE t == TenantOfWriter(w)
<1>1. LiveWriters' \subseteq LiveWriters
  BY FewerLiveWriters
<1>2. With(w)' \subseteq With(w) /\ OfTenant(With(w), t)' \subseteq OfTenant(With(w), t)
  BY <1>1 DEF With, OfTenant, TenantOfWriter
<1>3. IsFiniteSet(With(w))
  BY FS_AddElement DEF AdmissionInv, With
<1>4. IsFiniteSet(OfTenant(With(w), t))
  BY <1>3, FewerWriters DEF OfTenant
<1>5. /\ Cardinality(With(w)') \in Nat /\ Cardinality(With(w)) \in Nat
      /\ Cardinality(With(w)') <= Cardinality(With(w))
  BY <1>2, <1>3, FewerWriters
<1>6. /\ Cardinality(OfTenant(With(w), t)') \in Nat /\ Cardinality(OfTenant(With(w), t)) \in Nat
      /\ Cardinality(OfTenant(With(w), t)') <= Cardinality(OfTenant(With(w), t))
  BY <1>2, <1>4, FewerWriters
<1>7. GlobalLimit \in Nat /\ TenantLimit \in Nat
  BY GenerationAssumption
<1>8. Cardinality(With(w)) <= GlobalLimit /\ Cardinality(OfTenant(With(w), t)) <= TenantLimit
  BY DEF Admitted
<1>9. Cardinality(With(w)') <= GlobalLimit
  BY <1>5, <1>7, <1>8
<1>10. Cardinality(OfTenant(With(w), t)') <= TenantLimit
  BY <1>6, <1>7, <1>8
<1>11. \A g \in Due(w)' : SourceFree(g)'
  <2>1. Due(w)' \subseteq Due(w)
    BY DEF Fewer, Due, LeasesOf
  <2> QED BY <2>1 DEF Admitted, SourceFree, Rivals, Fewer
<1> QED BY <1>9, <1>10, <1>11 DEF Admitted, TenantOfWriter

LEMMA FewerKeepLimits ==
  ASSUME AdmissionInv, Fewer
  PROVE  IsFiniteSet(LiveWriters)' /\ OneWriterPerSource' /\ WriterLimit'
<1>1. LiveWriters' \subseteq LiveWriters /\ IsFiniteSet(LiveWriters)
  BY FewerLiveWriters DEF AdmissionInv
<1>2. GlobalLimit \in Nat /\ TenantLimit \in Nat
  BY GenerationAssumption
<1>3. IsFiniteSet(LiveWriters')
  BY <1>1, FewerWriters
<1>4. OneWriterPerSource'
  BY DEF AdmissionInv, Fewer, OneWriterPerSource, Rivals
<1>5. Cardinality(LiveWriters') <= GlobalLimit
  <2>1. Cardinality(LiveWriters) <= GlobalLimit
    BY DEF AdmissionInv, WriterLimit
  <2> QED BY <1>1, <1>2, <2>1, FewerWriters
<1>6. ASSUME NEW t \in Tenants
      PROVE  Cardinality({v \in LiveWriters' : TenantOfWriter(v) = t}) <= TenantLimit
  <2> DEFINE A == {v \in LiveWriters' : TenantOfWriter(v) = t}
             B == {v \in LiveWriters : TenantOfWriter(v) = t}
  <2>1. A \subseteq B /\ B \subseteq LiveWriters
    BY <1>1
  <2>2. IsFiniteSet(B)
    BY <1>1, <2>1, FewerWriters
  <2>3. Cardinality(B) <= TenantLimit
    BY DEF AdmissionInv, WriterLimit
  <2> QED BY <1>2, <2>1, <2>2, <2>3, FewerWriters
<1>7. WriterLimit'
  BY <1>5, <1>6 DEF WriterLimit, TenantOfWriter
<1> QED BY <1>3, <1>4, <1>7

(* A writer that begins joins the others as it was admitted.                *)
LEMMA CommitKeepsAdmission ==
  ASSUME TypeInv, AdmissionInv, NEW w \in Writers, NEW g \in LeasesOf(w), NEW ack \in BOOLEAN,
         BeginCommit(w, g, ack), Inserts(g)
  PROVE  AdmissionInv'
<1>1. g \in Generations /\ WriterOf[g] = w
  BY DEF LeasesOf
<1>2. /\ g \in Due(w) /\ pc[w] = "opening"
      /\ pc' = [pc EXCEPT ![w] = IF ack THEN "working" ELSE "failing"]
  BY DEF BeginCommit, Moves
<1>3. Admitted(w)
  BY <1>2 DEF AdmissionInv
<1>4. \A h \in Generations : Live(h)' => Live(h) \/ h = g
  BY DEF Inserts, RowQuiet, Live
<1>5. LiveWriters' \subseteq With(w)
  BY <1>1, <1>4 DEF LiveWriters, With
<1>6. IsFiniteSet(With(w))
  BY FS_AddElement DEF AdmissionInv, With
<1>7. GlobalLimit \in Nat /\ TenantLimit \in Nat
  BY GenerationAssumption
<1>8. IsFiniteSet(LiveWriters')
  BY <1>5, <1>6, FewerWriters
<1>9. Cardinality(LiveWriters') <= GlobalLimit
  <2>1. Cardinality(With(w)) <= GlobalLimit
    BY <1>3 DEF Admitted
  <2> QED BY <1>5, <1>6, <1>7, <2>1, FewerWriters
<1>10. ASSUME NEW t \in Tenants
       PROVE  Cardinality({v \in LiveWriters' : TenantOfWriter(v) = t}) <= TenantLimit
  <2> DEFINE A == {v \in LiveWriters' : TenantOfWriter(v) = t}
             B == OfTenant(With(w), t)
             C == {v \in LiveWriters : TenantOfWriter(v) = t}
  <2>1. CASE t = TenantOfWriter(w)
    <3>1. A \subseteq B /\ B \subseteq With(w)
      BY <1>5 DEF OfTenant
    <3>2. IsFiniteSet(B)
      BY <1>6, <3>1, FewerWriters
    <3>3. Cardinality(B) <= TenantLimit
      BY <1>3, <2>1 DEF Admitted
    <3> QED BY <1>7, <3>1, <3>2, <3>3, FewerWriters
  <2>2. CASE t # TenantOfWriter(w)
    <3>1. A \subseteq C /\ C \subseteq LiveWriters
      BY <1>5, <2>2 DEF With
    <3>2. IsFiniteSet(C)
      BY <3>1, FewerWriters DEF AdmissionInv
    <3>3. Cardinality(C) <= TenantLimit
      BY DEF AdmissionInv, WriterLimit
    <3> QED BY <1>7, <3>1, <3>2, <3>3, FewerWriters
  <2> QED BY <2>1, <2>2
<1>11. WriterLimit'
  BY <1>9, <1>10 DEF WriterLimit, TenantOfWriter
<1>12. OneWriterPerSource'
  <2> SUFFICES ASSUME NEW h \in Generations, NEW k \in Generations,
                      Live(h)', Live(k)', Rivals(h, k)
               PROVE  h = k
    BY DEF OneWriterPerSource, Rivals
  <2>1. SourceFree(g)
    BY <1>2, <1>3 DEF Admitted
  <2>2. ASSUME NEW x \in Generations, Live(x), Rivals(g, x) \/ Rivals(x, g)
        PROVE  FALSE
    BY <2>1, <2>2 DEF SourceFree, Rivals
  <2>3. CASE h = g
    BY <1>4, <2>2, <2>3
  <2>4. CASE k = g
    BY <1>4, <2>2, <2>4
  <2>5. CASE h # g /\ k # g
    BY <1>4, <2>5 DEF AdmissionInv, OneWriterPerSource
  <2> QED BY <2>3, <2>4, <2>5
<1>13. \A v \in Writers : pc'[v] # "opening"
  <2>1. pc'[w] # "opening"
    BY <1>2 DEF TypeInv, TypeOK
  <2>2. \A v \in Writers \ {w} : pc'[v] = pc[v] /\ pc[v] # "opening"
    BY <1>2 DEF TypeInv, TypeOK, AdmissionInv, OneOpens
  <2> QED BY <2>1, <2>2
<1> QED
  BY <1>8, <1>11, <1>12, <1>13 DEF AdmissionInv, OneOpens

HeldAreBegun == \A w \in Writers : \A g \in held[w] : state[g] # "none"

LEMMA NextKeepsAdmission ==
  ASSUME TypeInv, LockInv, HeldAreBegun, AdmissionInv, [Next]_vars
  PROVE  AdmissionInv'
<1>1. ASSUME NEW w \in Writers, NEW g \in LeasesOf(w), NEW ack \in BOOLEAN,
             BeginCommit(w, g, ack), Inserts(g)
      PROVE  AdmissionInv'
  BY <1>1, CommitKeepsAdmission
<1>2. ASSUME Fewer PROVE AdmissionInv'
  <2>1. IsFiniteSet(LiveWriters)' /\ OneWriterPerSource' /\ WriterLimit'
    BY <1>2, FewerKeepLimits
  <2>2. ASSUME NEW w \in Writers, NEW g \in LeasesOf(w), BeginOpen(w, g)
        PROVE  Admitted(w) /\ \A v \in Writers : pc[v] # "opening"
    <3>1. Admitted(w)
      BY <2>2, OpenIsAdmitted DEF HeldAreBegun
    <3> QED BY <2>2, <3>1 DEF BeginOpen, AdmissionFree
  <2>3. ASSUME NEW w \in Writers, pc'[w] = "opening" PROVE Admitted(w)
    BY <2>2, <2>3, StepsOnPc DEF AdmissionInv
  <2>4. \A w \in Writers : pc'[w] = "opening" => Admitted(w)'
    BY <1>2, <2>3, FewerStayAdmitted
  <2>5. OneOpens'
    <3>1. CASE pc' = pc
      BY <3>1 DEF AdmissionInv, OneOpens
    <3>2. ASSUME NEW w \in Writers, \A v \in Writers \ {w} : pc'[v] = pc[v],
                 pc'[w] # "opening" \/ \E g \in LeasesOf(w) : BeginOpen(w, g)
          PROVE  OneOpens'
      BY <2>2, <3>2 DEF AdmissionInv, OneOpens
    <3> QED BY <3>1, <3>2, StepsOnPc
  <2> QED BY <2>1, <2>4, <2>5 DEF AdmissionInv
<1>3. ASSUME Quiet PROVE Fewer
  BY <1>3 DEF Quiet, RowQuiet, Fewer, Live
<1>4. ASSUME NEW w \in Writers, Shows(w) PROVE Fewer
  <2>1. ASSUME NEW g \in Generations
        PROVE  (Live(g)' => Live(g)) /\ (state'[g] = "none" => state[g] = "none")
    <3>1. CASE g \in Publication(w)
      BY <1>4, <3>1 DEF Shows, Live, Active
    <3>2. CASE g \notin Publication(w)
      BY <1>4, <3>2 DEF Shows, RowQuiet, Live
    <3> QED BY <3>1, <3>2
  <2> QED BY <1>4, <2>1 DEF Shows, Fewer
<1> QED
  BY <1>1, <1>2, <1>3, <1>4, StepsOnRows

-----------------------------------------------------------------------------
(* What is published together.  Once a lease of a writer has been shown,    *)
(* everything its publication makes visible has been.                       *)

ShownTogether ==
  \A w \in Writers :
    (\E g \in LeasesOf(w) : state[g] \in Shown) => \A h \in Publication(w) : state[h] \in Shown

(* A step changes what a writer will publish only while it completes it.    *)
PublicationKept(w) ==
  (\A g \in LeasesOf(w) : validated'[g] = validated[g]) => Publication(w)' = Publication(w)

LEMMA SamePublication ==
  ASSUME NEW w \in Writers
  PROVE  PublicationKept(w)
<1> SUFFICES ASSUME \A g \in LeasesOf(w) : validated'[g] = validated[g]
             PROVE  Publication(w)' = Publication(w)
  BY DEF PublicationKept
<1>1. ASSUME NEW g \in LeasesOf(w) PROVE Dropped(g)' <=> Dropped(g)
  <2>1. LeasesOf(WriterOf[g]) = LeasesOf(w)
    BY DEF LeasesOf
  <2> QED BY <2>1 DEF Dropped
<1> QED BY <1>1 DEF Publication, LeasesOf

LEMMA NextKeepsShownTogether ==
  ASSUME TypeInv, LockInv, ShownTogether, [Next]_vars
  PROVE  ShownTogether'
<1> SUFFICES ASSUME NEW w \in Writers, NEW g \in LeasesOf(w), state'[g] \in Shown,
                    NEW h \in Publication(w)'
             PROVE  state'[h] \in Shown
  BY DEF ShownTogether, LeasesOf
<1>1. g \in Generations /\ WriterOf[g] = w /\ h \in LeasesOf(w) /\ h \in Generations
        /\ WriterOf[h] = w
  BY DEF Publication, LeasesOf
<1>2. ASSUME \A k \in LeasesOf(w) : RowQuiet(k)
      PROVE  state'[h] \in Shown
  <2>1. state[g] \in Shown
    BY <1>2 DEF RowQuiet
  <2>2. ~Completing(w)
    BY <2>1 DEF Completing, Shown, Active
  <2>3. \A k \in LeasesOf(w) : validated'[k] = validated[k]
    BY <1>2, <2>2 DEF RowQuiet, LeasesOf
  <2>4. h \in Publication(w)
    BY <2>3, SamePublication DEF PublicationKept
  <2>5. state[h] \in Shown
    BY <2>1, <2>4 DEF ShownTogether
  <2> QED BY <1>1, <1>2, <2>5 DEF RowQuiet
<1>3. CASE Quiet
  BY <1>2, <1>3 DEF Quiet, LeasesOf
<1>4. ASSUME NEW k \in Generations, Inserts(k)
      PROVE  state'[h] \in Shown
  <2>1. g # k /\ state[g] \in Shown
    BY <1>1, <1>4 DEF Inserts, RowQuiet, Shown
  <2>2. ~Completing(w)
    BY <2>1 DEF Completing, Shown, Active
  <2>3. \A x \in LeasesOf(w) : validated'[x] = validated[x]
    BY <1>4, <2>2 DEF Inserts, RowQuiet, LeasesOf
  <2>4. h \in Publication(w)
    BY <2>3, SamePublication DEF PublicationKept
  <2>5. state[h] \in Shown
    BY <2>1, <2>4 DEF ShownTogether
  <2>6. h # k
    BY <1>4, <2>5 DEF Inserts, Shown
  <2> QED BY <1>1, <1>4, <2>5, <2>6 DEF Inserts, RowQuiet
<1>5. ASSUME NEW v \in Writers, Shows(v)
      PROVE  state'[h] \in Shown
  <2>1. CASE v = w
    <3>1. h \in Publication(w)
      BY <1>5, SamePublication DEF Shows, PublicationKept
    <3> QED BY <1>5, <2>1, <3>1 DEF Shows, Shown
  <2>2. CASE v # w
    <3>1. \A k \in LeasesOf(w) : k \in Generations \ Publication(v)
      BY <2>2 DEF Publication, LeasesOf
    <3> QED BY <1>2, <1>5, <3>1 DEF Shows
  <2> QED BY <2>1, <2>2
<1>6. \A v \in Writers : \A k \in LeasesOf(v) : k \in Generations
  BY DEF LeasesOf
<1> QED
  BY <1>3, <1>4, <1>5, <1>6, StepsOnRows

-----------------------------------------------------------------------------
(* What a writer reports.                                                   *)

(* What every step leaves to a generation.                                  *)
RowKept(g) ==
  /\ state[g] # "none" => state'[g] # "none"
  /\ (state[g] # "none" /\ state[g] \notin Active) => state'[g] \notin Active
  /\ state[g] \in Shown => state'[g] \in Shown
  /\ validated'[g] = validated[g] \/ Completing(WriterOf[g])

LEMMA RowsAreKept ==
  ASSUME TypeInv, LockInv, [Next]_vars, NEW g \in Generations
  PROVE  RowKept(g)
<1>1. ASSUME RowQuiet(g) PROVE RowKept(g)
  BY <1>1 DEF RowQuiet, RowKept
<1>2. CASE Quiet
  BY <1>1, <1>2 DEF Quiet
<1>3. ASSUME NEW w \in Writers, NEW h \in LeasesOf(w), Inserts(h) PROVE RowKept(g)
  <2>1. CASE g = h
    BY <1>3, <2>1 DEF Inserts, RowKept, Shown
  <2>2. CASE g # h
    BY <1>1, <1>3, <2>2 DEF Inserts
  <2> QED BY <2>1, <2>2
<1>4. ASSUME NEW w \in Writers, Shows(w) PROVE RowKept(g)
  <2>1. CASE g \in Publication(w)
    BY <1>4, <2>1 DEF Shows, RowKept, Shown, Active
  <2>2. CASE g \notin Publication(w)
    BY <1>1, <1>4, <2>2 DEF Shows
  <2> QED BY <2>1, <2>2
<1> QED
  BY <1>2, <1>3, <1>4, StepsOnRows

RowsKept == \A g \in Generations : RowKept(g)

LEMMA NextKeepsHeld ==
  ASSUME TypeInv, LockInv, HeldAreBegun, [Next]_vars
  PROVE  HeldAreBegun'
<1>1. \A g \in Generations : state[g] # "none" => state'[g] # "none"
  BY RowsAreKept DEF RowKept
<1>2. \A w \in Writers : held[w] \subseteq Generations
  BY DEF TypeInv, TypeOK
<1>3. CASE held' = held
  BY <1>1, <1>2, <1>3 DEF HeldAreBegun
<1>4. ASSUME NEW w \in Writers, NEW g \in LeasesOf(w), NEW ack \in BOOLEAN,
             BeginCommit(w, g, ack), Inserts(g)
      PROVE  HeldAreBegun'
  <2>1. held' = [held EXCEPT ![w] = IF ack THEN @ \cup {g} ELSE @]
    BY <1>4 DEF BeginCommit
  <2>2. \A v \in Writers : held'[v] \subseteq held[v] \cup {g}
    BY <2>1 DEF TypeInv, TypeOK
  <2>3. state'[g] # "none"
    BY <1>4 DEF Inserts
  <2> QED BY <1>1, <1>2, <2>2, <2>3 DEF HeldAreBegun
<1>5. ASSUME NEW w \in Writers, Shows(w) PROVE held' = held
  BY <1>5 DEF Shows
<1> QED
  BY <1>3, <1>4, <1>5, StepsOnRows DEF Quiet

(* What a writer has reported, and what it relies on when it will.          *)
Reports(w) ==
  /\ pc[w] \in {"idle", "waiting"} => held[w] = {}
  /\ aborted[w] \subseteq held[w]
  /\ outcome[w] \in {"none", "unfenced"} \/ pc[w] = "ended"
  /\ outcome[w] = "none" => \A g \in aborted[w] : state[g] \notin Active
  /\ outcome[w] = "failed" => \A g \in held[w] : state[g] \notin Active
  /\ (pc[w] \in {"committed", "published"} \/ outcome[w] = "published")
       => \A g \in Publication(w) : state[g] \in Shown

ReportInv == \A w \in Writers : Reports(w)

(* What lets a report stand.                                                *)
LEMMA KeptFacts ==
  ASSUME TypeInv, HeldAreBegun, RowsKept, NEW w \in Writers, Reports(w)
  PROVE  /\ \A g \in held[w] : state[g] \notin Active => state'[g] \notin Active
         /\ outcome[w] = "none" => \A g \in aborted[w] : state'[g] \notin Active
         /\ outcome[w] = "failed" => \A g \in held[w] : state'[g] \notin Active
         /\ (pc[w] \in {"committed", "published"} \/ outcome[w] = "published")
              => \A g \in Publication(w)' : state'[g] \in Shown
<1>1. held[w] \subseteq Generations
  BY DEF TypeInv, TypeOK
<1>2. \A g \in held[w] : state[g] \notin Active => state'[g] \notin Active
  BY <1>1 DEF RowsKept, RowKept, HeldAreBegun
<1>3. outcome[w] = "none" => \A g \in aborted[w] : state'[g] \notin Active
  BY <1>2 DEF Reports
<1>4. outcome[w] = "failed" => \A g \in held[w] : state'[g] \notin Active
  BY <1>2 DEF Reports
<1>5. ASSUME pc[w] \in {"committed", "published"} \/ outcome[w] = "published"
      PROVE  \A g \in Publication(w)' : state'[g] \in Shown
  <2>1. ~Completing(w)
    BY <1>5 DEF Completing, Reports
  <2>2. \A g \in LeasesOf(w) : validated'[g] = validated[g]
    BY <2>1 DEF RowsKept, RowKept, LeasesOf
  <2>3. Publication(w)' = Publication(w)
    BY <2>2, SamePublication DEF PublicationKept
  <2>4. \A g \in Publication(w) : g \in Generations /\ state[g] \in Shown
    BY <1>5 DEF Reports, Publication, LeasesOf
  <2> QED BY <2>3, <2>4 DEF RowsKept, RowKept
<1> QED BY <1>2, <1>3, <1>4, <1>5

Passive(v) ==
  /\ pc'[v] = pc[v] /\ held'[v] = held[v] /\ aborted'[v] = aborted[v] /\ outcome'[v] = outcome[v]

LEMMA PassiveReports ==
  ASSUME TypeInv, HeldAreBegun, RowsKept, NEW w \in Writers, Reports(w), Passive(w)
  PROVE  Reports(w)'
BY KeptFacts DEF Reports, Passive

(* The writer goes on, or fails, without a report.                          *)
LEMMA GoesOn ==
  ASSUME TypeInv, HeldAreBegun, RowsKept, NEW w \in Writers, Reports(w),
         pc[w] # "ended", pc'[w] \notin {"idle", "waiting", "committed", "published"},
         held[w] \subseteq held'[w], aborted'[w] = aborted[w], outcome'[w] = outcome[w]
  PROVE  Reports(w)'
BY KeptFacts DEF Reports

LEMMA BeginReports ==
  ASSUME TypeInv, HeldAreBegun, RowsKept, NEW w \in Writers, Reports(w), BeginStep(w)
  PROVE  Reports(w)' /\ \A v \in Writers \ {w} : Passive(v)
<1> DEFINE Others == \A v \in Writers \ {w} : Passive(v)
<1>0. /\ pc \in [Writers -> WriterPc] /\ held \in [Writers -> SUBSET Generations]
      /\ aborted \in [Writers -> SUBSET Generations] /\ outcome \in [Writers -> {"none", "published",
           "same", "failed", "unfenced"}]
  BY DEF TypeInv, TypeOK
<1>1. ASSUME Start(w) PROVE Reports(w)' /\ Others
  <2>1. pc[w] = "idle" /\ pc' = [pc EXCEPT ![w] = "waiting"]
          /\ UNCHANGED <<held, aborted, outcome>>
    BY <1>1 DEF Start, Moves
  <2>2. Others
    BY <1>0, <2>1 DEF Passive
  <2>3. Reports(w)'
    BY <1>0, <2>1, KeptFacts DEF Reports
  <2> QED BY <2>2, <2>3
<1>2. ASSUME LeaveQueue(w) PROVE Reports(w)' /\ Others
  <2>1. /\ pc[w] = "waiting" /\ pc' = [pc EXCEPT ![w] = "ended"]
        /\ outcome' = [outcome EXCEPT ![w] = "failed"]
        /\ UNCHANGED <<held, aborted>>
    BY <1>2 DEF LeaveQueue, Ends
  <2>2. Others
    BY <1>0, <2>1 DEF Passive
  <2>3. held[w] = {} /\ aborted[w] = {}
    BY <2>1 DEF Reports
  <2>4. Reports(w)'
    BY <1>0, <2>1, <2>3 DEF Reports
  <2> QED BY <2>2, <2>4
<1>3. ASSUME NEW g \in LeasesOf(w), BeginOpen(w, g) PROVE Reports(w)' /\ Others
  <2>1. /\ pc[w] \in {"waiting", "working"} /\ pc' = [pc EXCEPT ![w] = "opening"]
        /\ UNCHANGED <<held, aborted, outcome>>
    BY <1>3 DEF BeginOpen, Moves
  <2>2. Others
    BY <1>0, <2>1 DEF Passive
  <2>3. pc'[w] = "opening"
    BY <1>0, <2>1
  <2> QED BY <2>1, <2>2, <2>3, GoesOn
<1>4. ASSUME NEW g \in LeasesOf(w), NEW ack \in BOOLEAN, BeginCommit(w, g, ack)
      PROVE  Reports(w)' /\ Others
  <2>1. /\ pc[w] = "opening" /\ pc' = [pc EXCEPT ![w] = IF ack THEN "working" ELSE "failing"]
        /\ held' = [held EXCEPT ![w] = IF ack THEN @ \cup {g} ELSE @]
        /\ UNCHANGED <<aborted, outcome>>
    BY <1>4 DEF BeginCommit, Moves
  <2>2. Others
    BY <1>0, <2>1 DEF Passive
  <2>3. pc'[w] \in {"working", "failing"} /\ held[w] \subseteq held'[w]
    BY <1>0, <2>1
  <2> QED BY <2>1, <2>2, <2>3, GoesOn
<1> QED
  BY <1>1, <1>2, <1>3, <1>4 DEF BeginStep

LEMMA PublishReports ==
  ASSUME TypeInv, LockInv, HeldAreBegun, RowsKept, NEW w \in Writers, Reports(w), PublishStep(w)
  PROVE  Reports(w)' /\ \A v \in Writers \ {w} : Passive(v)
<1> DEFINE Others == \A v \in Writers \ {w} : Passive(v)
<1>0. /\ pc \in [Writers -> WriterPc]
      /\ outcome \in [Writers -> {"none", "published", "same", "failed", "unfenced"}]
  BY DEF TypeInv, TypeOK
<1>1. ASSUME \/ \E g \in LeasesOf(w) : Validate(g) \/ FinishValidation(g) \/ Fence(w, g)
             \/ \E same \in BOOLEAN : CompletePair(w, same)
      PROVE  Reports(w)' /\ Others
  <2>1. UNCHANGED <<pc, held, aborted, outcome>>
    BY <1>1 DEF Validate, FinishValidation, Fence, CompletePair
  <2> QED BY <2>1, PassiveReports DEF Passive
<1>2. ASSUME NEW to \in {"fencing", "committing", "failing"}, pc[w] # "ended",
             pc' = [pc EXCEPT ![w] = to], UNCHANGED <<held, aborted, outcome>>
      PROVE  Reports(w)' /\ Others
  <2>1. pc'[w] = to /\ Others
    BY <1>0, <1>2 DEF Passive
  <2> QED BY <1>2, <2>1, GoesOn
<1>3. ASSUME NEW ack \in BOOLEAN, ReplayPrimary(w, ack) PROVE Reports(w)' /\ Others
  <2>1. pc[w] = "working" /\ UNCHANGED <<held, aborted>>
          /\ pc' = [pc EXCEPT ![w] = IF ack THEN "ended" ELSE "failing"]
    BY <1>3 DEF ReplayPrimary, Moves
  <2>2. CASE ack
    <3>1. pc' = [pc EXCEPT ![w] = "ended"]
      BY <2>1, <2>2
    <3>2. outcome' = [outcome EXCEPT ![w] = "same"]
      BY <1>3, <2>2 DEF ReplayPrimary
    <3> QED BY <1>0, <2>1, <3>1, <3>2, KeptFacts DEF Reports, Passive
  <2>3. CASE ~ack
    <3>1. pc' = [pc EXCEPT ![w] = "failing"] /\ outcome' = outcome
      BY <1>3, <2>1, <2>3 DEF ReplayPrimary
    <3> QED BY <1>2, <2>1, <3>1
  <2> QED BY <2>2, <2>3
<1>4. ASSUME PublishOpen(w) PROVE Reports(w)' /\ Others
  <2>1. pc[w] = "working" /\ pc' = [pc EXCEPT ![w] = "fencing"] /\ UNCHANGED <<held, aborted, outcome>>
    BY <1>4 DEF PublishOpen, Moves
  <2> QED BY <1>2, <2>1
<1>5. ASSUME SendCommit(w) PROVE Reports(w)' /\ Others
  <2>1. pc[w] = "fencing" /\ pc' = [pc EXCEPT ![w] = "committing"] /\ UNCHANGED <<held, aborted, outcome>>
    BY <1>5 DEF SendCommit, Moves
  <2> QED BY <1>2, <2>1
<1>6. ASSUME CommitUnacknowledged(w) PROVE Reports(w)' /\ Others
  <2>1. pc[w] = "committed" /\ pc' = [pc EXCEPT ![w] = "failing"] /\ UNCHANGED <<held, aborted, outcome>>
    BY <1>6 DEF CommitUnacknowledged, Moves
  <2> QED BY <1>2, <2>1
<1>7. ASSUME ServerCommits(w) PROVE Reports(w)' /\ Others
  <2>1. /\ pc[w] = "committing" /\ pc' = [pc EXCEPT ![w] = "committed"]
        /\ UNCHANGED <<held, aborted, outcome, validated>>
    BY <1>7 DEF ServerCommits, Moves
  <2>2. pc'[w] = "committed" /\ Others
    BY <1>0, <2>1 DEF Passive
  <2>3. Publication(w)' = Publication(w)
    BY <2>1, SamePublication DEF PublicationKept
  <2>4. \A g \in Publication(w) : state'[g] \in Shown
    BY <1>7, ServerCommitsShows DEF Shows, Shown
  <2>5. outcome[w] \in {"none", "unfenced"}
    BY <2>1 DEF Reports
  <2>6. Reports(w)'
    BY <2>1, <2>2, <2>3, <2>4, <2>5, KeptFacts DEF Reports
  <2> QED BY <2>2, <2>6
<1>8. ASSUME CommitAcknowledged(w) PROVE Reports(w)' /\ Others
  <2>1. /\ pc[w] = "committed" /\ pc' = [pc EXCEPT ![w] = "published"]
        /\ UNCHANGED <<held, aborted, outcome>>
    BY <1>8 DEF CommitAcknowledged, Moves
  <2>2. pc'[w] = "published" /\ Others
    BY <1>0, <2>1 DEF Passive
  <2>3. Reports(w)'
    BY <2>1, <2>2, KeptFacts DEF Reports
  <2> QED BY <2>2, <2>3
<1>9. ASSUME Finish(w) PROVE Reports(w)' /\ Others
  <2>1. /\ pc[w] = "published" /\ pc' = [pc EXCEPT ![w] = "ended"]
        /\ outcome' = [outcome EXCEPT ![w] = "published"]
        /\ UNCHANGED <<held, aborted>>
    BY <1>9 DEF Finish, Ends
  <2>2. pc'[w] = "ended" /\ outcome'[w] = "published" /\ Others
    BY <1>0, <2>1 DEF Passive
  <2>3. Reports(w)'
    BY <2>1, <2>2, KeptFacts DEF Reports
  <2> QED BY <2>2, <2>3
<1> QED
  BY <1>1, <1>3, <1>4, <1>5, <1>6, <1>7, <1>8, <1>9 DEF PublishStep

LEMMA FailureReports ==
  ASSUME TypeInv, LockInv, HeldAreBegun, ShownTogether, RowsKept, NEW w \in Writers, Reports(w),
         FailureStep(w)
  PROVE  Reports(w)' /\ \A v \in Writers \ {w} : Passive(v)
<1> DEFINE Others == \A v \in Writers \ {w} : Passive(v)
<1>0. /\ pc \in [Writers -> WriterPc] /\ aborted \in [Writers -> SUBSET Generations]
      /\ outcome \in [Writers -> {"none", "published", "same", "failed", "unfenced"}]
      /\ state \in [Generations -> State]
      /\ held[w] \subseteq Generations
  BY DEF TypeInv, TypeOK
<1>1. ASSUME Signal(w) PROVE Reports(w)' /\ Others
  <2>1. UNCHANGED <<pc, held, aborted, outcome>>
    BY <1>1 DEF Signal
  <2> QED BY <2>1, PassiveReports DEF Passive
<1>2. ASSUME Throws(w) \/ Crash(w) PROVE Reports(w)' /\ Others
  <2>1. PICK to \in {"failing", "crashed"} : pc' = [pc EXCEPT ![w] = to]
    BY <1>2 DEF Throws, Crash, Moves
  <2>2. pc[w] # "ended" /\ UNCHANGED <<held, aborted, outcome>>
    BY <1>2 DEF Throws, Crash, Moves, Started
  <2>3. pc'[w] = to /\ Others
    BY <1>0, <2>1, <2>2 DEF Passive
  <2> QED BY <2>2, <2>3, GoesOn
<1>3. ASSUME ListenerAborts(w) PROVE Reports(w)' /\ Others
  <2>1. /\ aborted' = [aborted EXCEPT ![w] = held[w]]
        /\ state' = Closed(held[w], "cancelled")
        /\ UNCHANGED <<pc, held, outcome>>
    BY <1>3 DEF ListenerAborts
  <2>2. \A g \in held[w] : state'[g] \notin Active
    BY <1>0, <2>1 DEF Closed, Active
  <2>3. aborted'[w] = held[w] /\ Others
    BY <1>0, <2>1 DEF Passive
  <2>4. Reports(w)'
    BY <2>1, <2>2, <2>3, KeptFacts DEF Reports
  <2> QED BY <2>3, <2>4
<1>4. ASSUME NEW g \in LeasesOf(w), AbortLease(w, g) PROVE Reports(w)' /\ Others
  <2>1. /\ pc[w] = "failing" /\ g \in held[w]
        /\ aborted' = [aborted EXCEPT ![w] = @ \cup {g}]
        /\ UNCHANGED <<pc, held, outcome>>
    BY <1>4 DEF AbortLease
  <2>2. PICK to \in {"failed", "cancelled"} : state' = Closed({g}, to)
    BY <1>4 DEF AbortLease
  <2>3. state'[g] \notin Active
    BY <1>0, <2>1, <2>2 DEF Closed, Active
  <2>4. aborted'[w] = aborted[w] \cup {g} /\ Others
    BY <1>0, <2>1 DEF Passive
  <2>5. Reports(w)'
    BY <2>1, <2>3, <2>4, KeptFacts DEF Reports
  <2> QED BY <2>4, <2>5
<1>5. ASSUME NEW g \in LeasesOf(w), AbortFails(w, g) PROVE Reports(w)' /\ Others
  <2>1. /\ pc[w] = "failing" /\ g \in held[w]
        /\ aborted' = [aborted EXCEPT ![w] = @ \cup {g}]
        /\ outcome' = [outcome EXCEPT ![w] = "unfenced"]
        /\ UNCHANGED <<pc, held>>
    BY <1>5 DEF AbortFails
  <2>2. aborted'[w] = aborted[w] \cup {g} /\ outcome'[w] = "unfenced" /\ Others
    BY <1>0, <2>1 DEF Passive
  <2>3. Reports(w)'
    BY <2>1, <2>2 DEF Reports
  <2> QED BY <2>2, <2>3
<1>6. ASSUME Acknowledge(w) PROVE Reports(w)' /\ Others
  <2> DEFINE own == head[ScopeOf[Primary[w]]] = Primary[w]
  <2>1. /\ pc[w] = "failing" /\ MaybeSame(Primary[w])
        /\ pc' = [pc EXCEPT ![w] = "ended"]
        /\ outcome' = [outcome EXCEPT ![w] = IF own THEN "published" ELSE "same"]
        /\ UNCHANGED <<held, aborted, state, validated>>
    BY <1>6 DEF Acknowledge, Ends
  <2>2. pc'[w] = "ended" /\ Others
    BY <1>0, <2>1 DEF Passive
  <2>3. outcome'[w] \in {"published", "same"} /\ (outcome'[w] = "published" => own)
    BY <1>0, <2>1
  <2>4. ASSUME own PROVE \A g \in Publication(w)' : state'[g] \in Shown
    <3>1. state[Primary[w]] \in Shown
      BY <2>1, <2>4 DEF MaybeSame, Shown
    <3>2. Primary[w] \in LeasesOf(w)
      BY GenerationAssumption, LineageAssumption DEF LeasesOf
    <3>3. \A g \in Publication(w) : state[g] \in Shown
      BY <3>1, <3>2 DEF ShownTogether
    <3>4. Publication(w)' = Publication(w)
      BY <2>1, SamePublication DEF PublicationKept
    <3> QED BY <2>1, <3>3, <3>4
  <2>5. Reports(w)'
    BY <2>1, <2>2, <2>3, <2>4 DEF Reports
  <2> QED BY <2>2, <2>5
<1>7. ASSUME GivesUp(w) PROVE Reports(w)' /\ Others
  <2>1. /\ pc[w] = "failing" /\ held[w] \subseteq aborted[w]
        /\ pc' = [pc EXCEPT ![w] = "ended"]
        /\ outcome' = [outcome EXCEPT ![w] = IF outcome[w] = "unfenced" THEN "unfenced" ELSE "failed"]
        /\ UNCHANGED <<held, aborted, state>>
    BY <1>7 DEF GivesUp, Ends, Settled
  <2>2. pc'[w] = "ended" /\ Others
    BY <1>0, <2>1 DEF Passive
  <2>3. \/ outcome[w] = "unfenced" /\ outcome'[w] = "unfenced"
        \/ outcome[w] = "none" /\ outcome'[w] = "failed"
    BY <1>0, <2>1 DEF Reports
  <2>4. Reports(w)'
    BY <2>1, <2>2, <2>3 DEF Reports
  <2> QED BY <2>2, <2>4
<1> QED
  BY <1>1, <1>2, <1>3, <1>4, <1>5, <1>6, <1>7 DEF FailureStep

LEMMA NextKeepsReports ==
  ASSUME TypeInv, LockInv, HeldAreBegun, ShownTogether, ReportInv, [Next]_vars
  PROVE  ReportInv'
<1>0. RowsKept
  BY RowsAreKept DEF RowsKept
<1>1. ASSUME NEW w \in Writers, Reports(w)', \A v \in Writers \ {w} : Passive(v)
      PROVE  ReportInv'
  BY <1>0, <1>1, PassiveReports DEF ReportInv
<1>2. ASSUME UNCHANGED <<pc, held, aborted, outcome>> PROVE ReportInv'
  BY <1>0, <1>2, PassiveReports DEF ReportInv, Passive
<1>3. ASSUME NEW w \in Writers, BeginStep(w) PROVE ReportInv'
  BY <1>0, <1>1, <1>3, BeginReports DEF ReportInv
<1>4. ASSUME NEW w \in Writers, PublishStep(w) PROVE ReportInv'
  BY <1>0, <1>1, <1>4, PublishReports DEF ReportInv
<1>5. ASSUME NEW w \in Writers, FailureStep(w) PROVE ReportInv'
  BY <1>0, <1>1, <1>5, FailureReports DEF ReportInv
<1>6. ASSUME NEW p \in Principals, RevokeStep(p) PROVE UNCHANGED <<pc, held, aborted, outcome>>
  BY <1>6 DEF RevokeStep, RevokeOpen, RevokeCommit, RevokeFails, RevokeGeneration
<1>7. ASSUME RequestStep PROVE UNCHANGED <<pc, held, aborted, outcome>>
  BY <1>7 DEF RequestStep, Invalidate, Clear, CancelJob
<1>8. ASSUME RetentionStep PROVE UNCHANGED <<pc, held, aborted, outcome>>
  BY <1>8 DEF RetentionStep, LeaseLapses, FailAbandoned, RetireExpired
<1>9. ASSUME UNCHANGED vars PROVE UNCHANGED <<pc, held, aborted, outcome>>
  BY <1>9 DEF vars
<1> QED
  BY <1>2, <1>3, <1>4, <1>5, <1>6, <1>7, <1>8, <1>9 DEF Next

-----------------------------------------------------------------------------
(* What a derivation is published over.  From the check of its inputs to    *)
(* its COMMIT the writer holds the advisory lock of their tenant, without   *)
(* which no head or epoch of the tenant moves, and retention leaves the     *)
(* readable inventory that its inputs are.                                  *)

InputsHeld == \A w \in Writers : pc[w] \in InTransaction => InputsUnchanged(w)

ScopeKept(s) ==
  scopeEpoch'[s] = scopeEpoch[s] /\ head'[s] = head[s] /\ revision'[s] = revision[s]

(* A published generation stays so, unless it is replaced, cleared or       *)
(* retired.                                                                 *)
RowStands(g) == state'[g] = state[g] /\ generationEpoch'[g] = generationEpoch[g]

PublishedStand == \A g \in Generations : state[g] = "published" => RowStands(g)

LEMMA ClosedLeavesPublished ==
  ASSUME NEW G, NEW to, state' = Closed(G, to), generationEpoch' = generationEpoch
  PROVE  PublishedStand
BY DEF PublishedStand, RowStands, Closed, Active

LEMMA StepsOnHeads ==
  ASSUME TypeInv, [Next]_vars
  PROVE  \/ UNCHANGED scopeVars /\ PublishedStand
         \/ \E w \in Writers : ServerCommits(w)
         \/ \E s \in Scopes : Invalidate(s)
         \/ \E t \in Tenants : \E kept \in SUBSET Scopes : Clear(t, kept)
         \/ \E g \in Generations : RetireExpired(g)
<1> DEFINE Calm == UNCHANGED scopeVars /\ PublishedStand
<1>0. TypeOK
  BY DEF TypeInv
<1>1. ASSUME UNCHANGED <<state, generationEpoch, scopeVars>> PROVE Calm
  BY <1>1 DEF PublishedStand, RowStands
<1>2. ASSUME NEW w \in Writers, BeginStep(w) PROVE Calm
  <2>1. ASSUME Start(w) \/ LeaveQueue(w) \/ \E g \in LeasesOf(w) : BeginOpen(w, g)
        PROVE  UNCHANGED <<state, generationEpoch, scopeVars>>
    BY <2>1 DEF Start, LeaveQueue, BeginOpen
  <2>2. ASSUME NEW g \in LeasesOf(w), NEW ack \in BOOLEAN, BeginCommit(w, g, ack) PROVE Calm
    <3> DEFINE stale == {h \in Generations : ScopeOf[h] = ScopeOf[g] /\ ~leaseLive[h]}
    <3>1. g \in Generations /\ state[g] = "none"
      BY <2>2 DEF BeginCommit, Due, LeasesOf
    <3>2. /\ state' = [Closed(stale, "failed") EXCEPT ![g] = "staging"]
          /\ generationEpoch' = [generationEpoch EXCEPT ![g] = scopeEpoch[ScopeOf[g]]]
          /\ UNCHANGED scopeVars
      BY <2>2 DEF BeginCommit
    <3>3. \A h \in Generations \ {g} :
            state'[h] = Closed(stale, "failed")[h] /\ generationEpoch'[h] = generationEpoch[h]
      BY <1>0, <3>1, <3>2 DEF Closed, TypeOK
    <3>4. PublishedStand
      BY <3>1, <3>3 DEF PublishedStand, RowStands, Closed, Active
    <3> QED BY <3>2, <3>4
  <2> QED BY <1>1, <1>2, <2>1, <2>2 DEF BeginStep
<1>3. ASSUME NEW w \in Writers, PublishStep(w) PROVE Calm \/ ServerCommits(w)
  <2>1. ASSUME NEW g \in LeasesOf(w), Validate(g) PROVE Calm
    <3>1. /\ g \in Generations /\ state[g] = "staging" /\ state' = [state EXCEPT ![g] = "validating"]
          /\ UNCHANGED <<generationEpoch, scopeVars>>
      BY <2>1 DEF Validate, LeasesOf
    <3> QED BY <1>0, <3>1 DEF PublishedStand, RowStands, TypeOK
  <2>2. ASSUME NEW ack \in BOOLEAN, ReplayPrimary(w, ack) PROVE Calm
    <3>1. state' = Closed({Primary[w]}, "cancelled") /\ UNCHANGED <<generationEpoch, scopeVars>>
      BY <2>2 DEF ReplayPrimary
    <3> QED BY <3>1, ClosedLeavesPublished
  <2>3. ASSUME NEW same \in BOOLEAN, CompletePair(w, same) PROVE Calm
    <3> DEFINE dropped == IF same THEN LeasesOf(w) \ {Primary[w]} ELSE {}
               kept == LeasesOf(w) \ dropped
    <3>1. /\ \A g \in LeasesOf(w) : state[g] = "staging"
          /\ state' = [g \in Generations |->
                         IF g \in kept THEN "validating" ELSE Closed(dropped, "cancelled")[g]]
          /\ UNCHANGED <<generationEpoch, scopeVars>>
      BY <2>3 DEF CompletePair
    <3>2. \A g \in Generations : state[g] = "published" => state'[g] = "published"
      BY <3>1 DEF Closed, Active
    <3> QED BY <3>1, <3>2 DEF PublishedStand, RowStands
  <2>4. ASSUME \/ \E g \in LeasesOf(w) : FinishValidation(g) \/ Fence(w, g)
               \/ PublishOpen(w) \/ SendCommit(w) \/ CommitAcknowledged(w) \/ CommitUnacknowledged(w)
               \/ Finish(w)
        PROVE  UNCHANGED <<state, generationEpoch, scopeVars>>
    BY <2>4 DEF FinishValidation, Fence, PublishOpen, SendCommit, CommitAcknowledged,
                CommitUnacknowledged, Finish
  <2> QED BY <1>1, <1>3, <2>1, <2>2, <2>3, <2>4 DEF PublishStep
<1>4. ASSUME NEW w \in Writers, FailureStep(w) PROVE Calm
  <2>1. ASSUME Throws(w) \/ Signal(w) \/ Acknowledge(w) \/ GivesUp(w) \/ Crash(w)
                 \/ \E g \in LeasesOf(w) : AbortFails(w, g)
        PROVE  UNCHANGED <<state, generationEpoch, scopeVars>>
    BY <2>1 DEF Throws, Signal, Acknowledge, GivesUp, Crash, AbortFails
  <2>2. ASSUME ListenerAborts(w) PROVE Calm
    BY <2>2, ClosedLeavesPublished DEF ListenerAborts
  <2>3. ASSUME NEW g \in LeasesOf(w), AbortLease(w, g) PROVE Calm
    BY <2>3, ClosedLeavesPublished DEF AbortLease
  <2> QED BY <1>1, <1>4, <2>1, <2>2, <2>3 DEF FailureStep
<1>5. ASSUME NEW p \in Principals, RevokeStep(p) PROVE Calm
  <2>1. ASSUME RevokeCommit(p) PROVE Calm
    BY <2>1, ClosedLeavesPublished DEF RevokeCommit
  <2>2. ASSUME RevokeOpen(p) \/ RevokeFails(p) \/ \E g \in Generations : RevokeGeneration(p, g)
        PROVE  UNCHANGED <<state, generationEpoch, scopeVars>>
    BY <2>2 DEF RevokeOpen, RevokeFails, RevokeGeneration
  <2> QED BY <1>1, <1>5, <2>1, <2>2 DEF RevokeStep
<1>6. ASSUME NEW w \in Writers, CancelJob(w) PROVE Calm
  BY <1>6, ClosedLeavesPublished DEF CancelJob
<1>7. ASSUME NEW g \in Generations, LeaseLapses(g) \/ FailAbandoned(g) PROVE Calm
  <2>1. ASSUME LeaseLapses(g) PROVE Calm
    BY <1>1, <2>1 DEF LeaseLapses
  <2>2. ASSUME FailAbandoned(g) PROVE Calm
    BY <2>2, ClosedLeavesPublished DEF FailAbandoned
  <2> QED BY <1>7, <2>1, <2>2
<1>8. CASE UNCHANGED vars
  BY <1>1, <1>8 DEF vars
<1> QED
  BY <1>2, <1>3, <1>4, <1>5, <1>6, <1>7, <1>8 DEF Next, RequestStep, RetentionStep

(* The inputs of a writer are of its tenant, and their heads too.           *)
LEMMA InputsOfTenant ==
  ASSUME TypeInv, NEW w \in Writers, NEW s \in Inputs[w]
  PROVE  s \in Scopes /\ TenantOf[s] = TenantOfWriter(w)
BY GenerationAssumption, LineageAssumption DEF TenantOfWriter

LEMMA InputHeadsAreHeld ==
  ASSUME TypeInv, HeadInv, NEW w \in Writers, NEW s \in Inputs[w], Readable(s)
  PROVE  /\ head[s] \in Generations /\ ScopeOf[head[s]] = s
         /\ state[head[s]] = "published" /\ ~StaleScope(head[s])
         /\ WriterOf[head[s]] \in Managed
<1>1. s \in Scopes
  BY InputsOfTenant
<1>2. head[s] \in Generations /\ ScopeOf[head[s]] = s
  BY <1>1 DEF Readable, TypeInv, TypeOK, HeadInv, HeadsOfTheirScope
<1> QED
  BY <1>2, LineageAssumption DEF Readable, StaleScope

LEMMA InputsStand ==
  ASSUME TypeInv, LockInv, HeadInv, MutexInv, [Next]_vars,
         NEW w \in Writers, pc[w] \in InTransaction, pc'[w] \in InTransaction,
         InputsUnchanged(w), NEW s \in Inputs[w]
  PROVE  ScopeKept(s) /\ RowStands(head[s])
<1> DEFINE Stands == ScopeKept(s) /\ RowStands(head[s])
           h == head[s]
<1>1. s \in Scopes /\ TenantOf[s] = TenantOfWriter(w)
  BY InputsOfTenant
<1>2. Readable(s)
  BY DEF InputsUnchanged
<1>3. /\ h \in Generations /\ ScopeOf[h] = s /\ state[h] = "published"
      /\ ~StaleScope(h) /\ WriterOf[h] \in Managed
  BY <1>2, InputHeadsAreHeld
<1>4. CASE UNCHANGED scopeVars /\ PublishedStand
  BY <1>3, <1>4 DEF ScopeKept, PublishedStand
<1>5. ASSUME NEW v \in Writers, ServerCommits(v) PROVE Stands
  <2>1. pc[v] = "committing" /\ pc' = [pc EXCEPT ![v] = "committed"]
    BY <1>5 DEF ServerCommits, Moves
  <2>2. v # w
    BY <2>1 DEF InTransaction, TypeInv, TypeOK
  <2>3. TenantOfWriter(v) # TenantOfWriter(w)
    BY <2>1, <2>2 DEF MutexInv, Serial, InTransaction
  <2>4. ASSUME NEW g \in Publication(v) PROVE ScopeOf[g] \in Scopes /\ ScopeOf[g] # s /\ g # h
    <3>1. g \in Generations /\ WriterOf[g] = v
      BY DEF Publication, LeasesOf
    <3>2. TenantOf[ScopeOf[g]] = TenantOfWriter(v)
      BY <3>1, LineageAssumption DEF TenantOfWriter
    <3> QED BY <1>1, <1>3, <2>3, <3>1, <3>2, GenerationAssumption
  <2>5. ASSUME NEW g \in Publication(v) PROVE head[ScopeOf[g]] # h
    <3>1. h # None
      BY <1>3, GenerationAssumption
    <3>2. \A r \in Scopes : head[r] # None => ScopeOf[head[r]] = r
      BY DEF HeadInv, HeadsOfTheirScope
    <3>3. ScopeOf[g] \in Scopes /\ ScopeOf[g] # s
      BY <2>4
    <3>4. SUFFICES ASSUME head[ScopeOf[g]] = h PROVE FALSE
      OBVIOUS
    <3>5. ScopeOf[h] = ScopeOf[g]
      BY <3>1, <3>2, <3>3, <3>4
    <3> QED BY <1>3, <3>3, <3>5
  <2>6. h \notin Publication(v) /\ h \notin Replaced(v)
    BY <2>4, <2>5 DEF Replaced
  <2>7. s \notin {ScopeOf[g] : g \in Publication(v)}
    BY <2>4
  <2>8. /\ scopeEpoch' = scopeEpoch /\ generationEpoch' = generationEpoch
        /\ head'[s] = head[s] /\ revision'[s] = revision[s]
    BY <1>1, <1>5, <2>7 DEF ServerCommits
  <2>9. state'[h] = state[h]
    BY <1>3, <1>5, <2>6 DEF ServerCommits
  <2> QED BY <2>8, <2>9 DEF ScopeKept, RowStands
<1>6. ASSUME NEW r \in Scopes, Invalidate(r) PROVE Stands
  <2>1. TenantOf[r] # TenantOfWriter(w)
    BY <1>6 DEF Invalidate, MutexFree
  <2>2. r # s
    BY <1>1, <2>1
  <2>3. /\ scopeEpoch' = [scopeEpoch EXCEPT ![r] = @ + 1]
        /\ state' = Closed({g \in Generations : ScopeOf[g] = r}, "cancelled")
        /\ UNCHANGED <<generationEpoch, head, revision>>
    BY <1>6 DEF Invalidate
  <2>4. ScopeKept(s)
    BY <1>1, <2>2, <2>3 DEF ScopeKept, TypeInv, TypeOK
  <2>5. RowStands(h)
    BY <1>3, <2>3, ClosedLeavesPublished DEF PublishedStand
  <2> QED BY <2>4, <2>5
<1>7. ASSUME NEW t \in Tenants, NEW kept \in SUBSET Scopes, Clear(t, kept) PROVE Stands
  <2> DEFINE S == {r \in Scopes : TenantOf[r] = t}
             G == {g \in Generations : ScopeOf[g] \in S}
  <2>1. t # TenantOfWriter(w)
    BY <1>7 DEF Clear, MutexFree
  <2>2. s \notin S /\ h \notin G
    BY <1>1, <1>3, <2>1
  <2>3. /\ scopeEpoch' = [r \in Scopes |-> IF r \in S THEN scopeEpoch[r] + 1 ELSE scopeEpoch[r]]
        /\ state' = [g \in Generations |->
                       IF g \in G /\ state[g] = "published" THEN "retired"
                       ELSE Closed(G, "cancelled")[g]]
        /\ revision' = [r \in Scopes |->
                          IF r \notin S THEN revision[r]
                          ELSE IF r \notin kept THEN 0
                          ELSE IF head[r] = None THEN revision[r] ELSE revision[r] + 1]
        /\ head' = [r \in Scopes |-> IF r \in S THEN None ELSE head[r]]
        /\ generationEpoch' = generationEpoch
    BY <1>7 DEF Clear
  <2>4. ScopeKept(s)
    BY <1>1, <2>2, <2>3 DEF ScopeKept
  <2>5. RowStands(h)
    BY <1>3, <2>2, <2>3 DEF RowStands, Closed
  <2> QED BY <2>4, <2>5
<1>8. ASSUME NEW g \in Generations, RetireExpired(g) PROVE Stands
  <2>1. g # h
    BY <1>3, <1>8 DEF RetireExpired
  <2>2. state' = [state EXCEPT ![g] = "retired"] /\ UNCHANGED <<generationEpoch, scopeVars>>
    BY <1>8 DEF RetireExpired
  <2> QED BY <1>3, <2>1, <2>2 DEF ScopeKept, RowStands, TypeInv, TypeOK
<1> QED
  BY <1>4, <1>5, <1>6, <1>7, <1>8, StepsOnHeads

(* Only a start captures a vector.                                          *)
LEMMA StepsOnVector ==
  ASSUME TypeInv, [Next]_vars, NEW w \in Writers, pc[w] # "idle"
  PROVE  vector'[w] = vector[w]
<1>1. ASSUME NEW v \in Writers, BeginStep(v) PROVE vector'[w] = vector[w]
  <2>1. ASSUME Start(v) PROVE vector'[w] = vector[w]
    <3>1. v # w /\ vector' = [vector EXCEPT ![v] = InputHeads(v)]
      BY <2>1 DEF Start, Moves
    <3> QED BY <3>1
  <2>2. ASSUME \/ LeaveQueue(v) \/ \E g \in LeasesOf(v) : BeginOpen(v, g)
               \/ \E g \in LeasesOf(v) : \E ack \in BOOLEAN : BeginCommit(v, g, ack)
        PROVE  vector' = vector
    BY <2>2 DEF LeaveQueue, BeginOpen, BeginCommit
  <2> QED BY <1>1, <2>1, <2>2 DEF BeginStep
<1>2. ASSUME NEW v \in Writers, PublishStep(v) PROVE vector' = vector
  BY <1>2 DEF PublishStep, Validate, FinishValidation, Fence, ReplayPrimary, CompletePair, PublishOpen,
              SendCommit, ServerCommits, CommitAcknowledged, CommitUnacknowledged, Finish
<1>3. ASSUME NEW v \in Writers, FailureStep(v) PROVE vector' = vector
  BY <1>3 DEF FailureStep, Throws, Signal, ListenerAborts, AbortLease, AbortFails, Acknowledge,
              GivesUp, Crash
<1>4. ASSUME NEW p \in Principals, RevokeStep(p) PROVE vector' = vector
  BY <1>4 DEF RevokeStep, RevokeOpen, RevokeCommit, RevokeFails, RevokeGeneration
<1>5. ASSUME RequestStep PROVE vector' = vector
  BY <1>5 DEF RequestStep, Invalidate, Clear, CancelJob
<1>6. ASSUME RetentionStep PROVE vector' = vector
  BY <1>6 DEF RetentionStep, LeaseLapses, FailAbandoned, RetireExpired
<1>7. ASSUME UNCHANGED vars PROVE vector' = vector
  BY <1>7 DEF vars
<1> QED
  BY <1>1, <1>2, <1>3, <1>4, <1>5, <1>6, <1>7 DEF Next

LEMMA StandingInputs ==
  ASSUME NEW w \in Writers, InputsUnchanged(w), vector'[w] = vector[w],
         \A s \in Inputs[w] : ScopeKept(s) /\ RowStands(head[s])
  PROVE  InputsUnchanged(w)'
<1>1. InputHeads(w)' = InputHeads(w)
  BY DEF InputHeads, ScopeKept
<1>2. ASSUME NEW s \in Inputs[w] PROVE Readable(s)'
  <2>1. Readable(s)
    BY DEF InputsUnchanged
  <2>2. ScopeKept(s) /\ RowStands(head[s])
    OBVIOUS
  <2> QED BY <2>1, <2>2 DEF Readable, ScopeKept, RowStands
<1> QED
  BY <1>1, <1>2 DEF InputsUnchanged

(* A transaction that publishes is opened with its inputs unchanged.        *)
LEMMA OpensWithInputs ==
  ASSUME TypeInv, [Next]_vars, NEW w \in Writers,
         pc[w] \notin InTransaction, pc'[w] \in InTransaction
  PROVE  InputsUnchanged(w)'
<1>0. pc \in [Writers -> WriterPc]
  BY DEF TypeInv, TypeOK
<1>1. ASSUME NEW v \in Writers, BeginStep(v) PROVE FALSE
  <2>1. ASSUME Start(v) \/ LeaveQueue(v) PROVE FALSE
    BY <1>0, <2>1 DEF Start, LeaveQueue, Moves, Ends, InTransaction
  <2>2. ASSUME NEW g \in LeasesOf(v), BeginOpen(v, g) PROVE FALSE
    BY <1>0, <2>2 DEF BeginOpen, Moves, InTransaction
  <2>3. ASSUME NEW g \in LeasesOf(v), NEW ack \in BOOLEAN, BeginCommit(v, g, ack) PROVE FALSE
    BY <1>0, <2>3 DEF BeginCommit, Moves, InTransaction
  <2> QED BY <1>1, <2>1, <2>2, <2>3 DEF BeginStep
<1>2. ASSUME NEW v \in Writers, PublishStep(v) PROVE PublishOpen(w)
  <2>1. ASSUME \/ \E g \in LeasesOf(v) : Validate(g) \/ FinishValidation(g) \/ Fence(v, g)
               \/ \E same \in BOOLEAN : CompletePair(v, same)
        PROVE  FALSE
    BY <2>1 DEF Validate, FinishValidation, Fence, CompletePair
  <2>2. ASSUME NEW ack \in BOOLEAN, ReplayPrimary(v, ack) PROVE FALSE
    BY <1>0, <2>2 DEF ReplayPrimary, Moves, InTransaction
  <2>3. ASSUME SendCommit(v) PROVE FALSE
    BY <1>0, <2>3 DEF SendCommit, Moves, InTransaction
  <2>4. ASSUME ServerCommits(v) \/ CommitAcknowledged(v) \/ CommitUnacknowledged(v) \/ Finish(v)
        PROVE  FALSE
    BY <1>0, <2>4
    DEF ServerCommits, CommitAcknowledged, CommitUnacknowledged, Finish, Moves, Ends, InTransaction
  <2>5. ASSUME PublishOpen(v) PROVE v = w
    BY <1>0, <2>5 DEF PublishOpen, Moves
  <2> QED BY <1>2, <2>1, <2>2, <2>3, <2>4, <2>5 DEF PublishStep
<1>3. ASSUME NEW v \in Writers, FailureStep(v) PROVE FALSE
  <2>1. ASSUME Throws(v) \/ Acknowledge(v) \/ GivesUp(v) \/ Crash(v) PROVE FALSE
    BY <1>0, <2>1 DEF Throws, Acknowledge, GivesUp, Crash, Moves, Ends, InTransaction
  <2>2. ASSUME \/ Signal(v) \/ ListenerAborts(v)
               \/ \E g \in LeasesOf(v) : AbortLease(v, g) \/ AbortFails(v, g)
        PROVE  FALSE
    BY <2>2 DEF Signal, ListenerAborts, AbortLease, AbortFails
  <2> QED BY <1>3, <2>1, <2>2 DEF FailureStep
<1>4. ASSUME NEW p \in Principals, RevokeStep(p) PROVE FALSE
  BY <1>4 DEF RevokeStep, RevokeOpen, RevokeCommit, RevokeFails, RevokeGeneration
<1>5. ASSUME RequestStep PROVE FALSE
  BY <1>5 DEF RequestStep, Invalidate, Clear, CancelJob
<1>6. ASSUME RetentionStep PROVE FALSE
  BY <1>6 DEF RetentionStep, LeaseLapses, FailAbandoned, RetireExpired
<1>7. ASSUME UNCHANGED vars PROVE FALSE
  BY <1>7 DEF vars
<1>8. PublishOpen(w)
  BY <1>1, <1>2, <1>3, <1>4, <1>5, <1>6, <1>7 DEF Next
<1>9. /\ InputsUnchanged(w)
      /\ UNCHANGED <<state, generationEpoch, scopeEpoch, head, revision, vector>>
  BY <1>8 DEF PublishOpen
<1> QED
  BY <1>9, StandingInputs DEF ScopeKept, RowStands

LEMMA NextKeepsInputs ==
  ASSUME TypeInv, LockInv, HeadInv, MutexInv, InputsHeld, [Next]_vars
  PROVE  InputsHeld'
<1> SUFFICES ASSUME NEW w \in Writers, pc'[w] \in InTransaction
             PROVE  InputsUnchanged(w)'
  BY DEF InputsHeld
<1>1. CASE pc[w] \notin InTransaction
  BY <1>1, OpensWithInputs
<1>2. CASE pc[w] \in InTransaction
  <2>1. InputsUnchanged(w)
    BY <1>2 DEF InputsHeld
  <2>2. \A s \in Inputs[w] : ScopeKept(s) /\ RowStands(head[s])
    BY <1>2, <2>1, InputsStand
  <2>3. vector'[w] = vector[w]
    BY <1>2, StepsOnVector DEF InTransaction
  <2> QED BY <2>1, <2>2, <2>3, StandingInputs
<1> QED BY <1>1, <1>2

-----------------------------------------------------------------------------
(* The invariant and what follows from it.                                  *)

WritersInv ==
  /\ MutexInv /\ HeldAreBegun /\ AdmissionInv
  /\ ShownTogether /\ ReportInv /\ InputsHeld

LEMMA InitWriters == Init => WritersInv
<1> SUFFICES ASSUME Init PROVE WritersInv
  OBVIOUS
<1>1. /\ \A g \in Generations : state[g] = "none"
      /\ \A w \in Writers : pc[w] = "idle" /\ held[w] = {} /\ aborted[w] = {} /\ outcome[w] = "none"
  BY DEF Init
<1>2. MutexInv /\ HeldAreBegun /\ ReportInv /\ InputsHeld
  BY <1>1 DEF MutexInv, Serial, InTransaction, HeldAreBegun, ReportInv, Reports, InputsHeld
<1>3. ShownTogether
  BY <1>1 DEF ShownTogether, Shown, LeasesOf
<1>4. \A g \in Generations : ~Live(g)
  BY <1>1 DEF Live, Active
<1>5. LiveWriters = {}
  BY <1>4 DEF LiveWriters
<1>6. \A t \in Tenants : {w \in LiveWriters : TenantOfWriter(w) = t} = {}
  BY <1>5
<1>7. IsFiniteSet(LiveWriters) /\ WriterLimit
  <2>1. GlobalLimit \in Nat /\ TenantLimit \in Nat
    BY GenerationAssumption
  <2> QED BY <1>5, <1>6, <2>1, FS_EmptySet DEF WriterLimit
<1>8. AdmissionInv
  BY <1>1, <1>4, <1>7 DEF AdmissionInv, OneWriterPerSource, OneOpens
<1> QED
  BY <1>2, <1>3, <1>8 DEF WritersInv

LEMMA WritersInvariant == Spec => [](TypeInv /\ LockInv /\ HeadInv /\ WritersInv)
<1>1. TypeInv /\ LockInv /\ HeadInv /\ WritersInv /\ [Next]_vars => WritersInv'
  BY NextKeepsMutex, NextKeepsHeld, NextKeepsAdmission, NextKeepsShownTogether, NextKeepsReports,
     NextKeepsInputs
  DEF WritersInv
<1> QED
  BY InitWriters, <1>1, HeadsInvariant, PTL DEF Spec

(* No two live generations of one source of a tenant: nobody is admitted    *)
(* between the counts of a begin and its insert.                            *)
THEOREM SourcesHaveOneWriter == Spec => []OneWriterPerSource
<1>1. WritersInv => OneWriterPerSource
  BY DEF WritersInv, AdmissionInv
<1> QED
  BY <1>1, WritersInvariant, PTL

(* Live writers stay within both limits, an Office pair counting once.      *)
THEOREM WritersStayWithinLimits == Spec => []WriterLimit
<1>1. WritersInv => WriterLimit
  BY DEF WritersInv, AdmissionInv
<1> QED
  BY <1>1, WritersInvariant, PTL

(* The two generations a derivation completes become visible in one step.   *)
THEOREM PairsPublishTogether == Spec => []PairPublishesTogether
<1>1. ASSUME ShownTogether PROVE PairPublishesTogether
  <2> SUFFICES ASSUME NEW g \in Generations, NEW h \in Generations,
                      WriterOf[g] = WriterOf[h], validated[g], validated[h]
               PROVE  state[g] \in Shown <=> state[h] \in Shown
    BY DEF PairPublishesTogether, Shown
  <2>1. WriterOf[g] \in Writers
    BY GenerationAssumption
  <2>2. g \in Publication(WriterOf[g]) /\ h \in Publication(WriterOf[g])
    BY DEF Publication, Dropped, LeasesOf
  <2>3. g \in LeasesOf(WriterOf[g]) /\ h \in LeasesOf(WriterOf[g])
    BY DEF LeasesOf
  <2> QED BY <1>1, <2>1, <2>2, <2>3 DEF ShownTogether
<1>2. WritersInv => PairPublishesTogether
  BY <1>1 DEF WritersInv
<1> QED
  BY <1>2, WritersInvariant, PTL

(* What a writer reports is so, whichever of its writes, commits, aborts    *)
(* and acknowledgements failed on the way.                                  *)
THEOREM WritersReportHonestly == Spec => []OutcomeIsHonest
<1>1. WritersInv => OutcomeIsHonest
  BY DEF WritersInv, ReportInv, Reports, OutcomeIsHonest, Shown
<1> QED
  BY <1>1, WritersInvariant, PTL

(* A derivation commits over the heads it captured when it started.         *)
THEOREM DerivationsAreCurrent == Spec => DerivedFromCurrentInputs
<1>1. WritersInv =>
        \A w \in Writers :
          pc[w] = "committing" => vector[w] = InputHeads(w) /\ \A s \in Inputs[w] : Readable(s)
  BY DEF WritersInv, InputsHeld, InTransaction, InputsUnchanged
<1>2. WritersInv /\ [Next]_vars =>
        [\A w \in Writers :
           (pc[w] = "committing" /\ pc'[w] = "committed")
             => vector[w] = InputHeads(w) /\ \A s \in Inputs[w] : Readable(s)]_vars
  BY <1>1
<1> QED
  BY <1>2, WritersInvariant, PTL DEF Spec, DerivedFromCurrentInputs
=============================================================================
