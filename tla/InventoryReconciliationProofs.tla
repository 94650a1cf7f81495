-------------------- MODULE InventoryReconciliationProofs --------------------
(***************************************************************************)
(* Proofs about InventoryReconciliation, for every number of sources,      *)
(* identities, passes, refreshes and faults: the row, the roots and the    *)
(* locals keep their types, collection takes nothing that a live claim or  *)
(* the published inventory reads, and what was fenced is not published.    *)
(***************************************************************************)
EXTENDS InventoryReconciliation, TLAPS, WellFoundedInduction

USE DEF sourceVars, gcVars, activeVars, rowVars, localVars

Row == [baseline : Nat, content : UNION {[ItemsOf(s) -> Values \cup {Absent}] : s \in Sources}]

(* The sources: every root is within the refreshes and readbacks there may  *)
(* be, no root is of a later epoch than its scope, and a scope with a saved *)
(* control has a readback to come.                                          *)
SourceInv ==
  /\ history \in [Sources -> Seq(Row)]
  /\ \A s \in Sources : \A r \in 1..Revision(s) :
       /\ Baseline(s, r) \in 1..r
       /\ history[s][r].content \in [ItemsOf(s) -> Values \cup {Absent}]
  /\ current \in [Sources -> BOOLEAN] /\ \A s \in Sources : current[s] => Revision(s) > 0
  /\ epoch \in [Sources -> Nat] /\ rootEpoch \in [Sources -> Nat]
  /\ \A s \in Sources : rootEpoch[s] <= epoch[s] /\ epoch[s] <= faults
  /\ changes \subseteq Revisions \X Items
  /\ controls \subseteq Sources
  /\ faults \in 0..MaxFaults
  /\ \A s \in Sources :
       /\ Revision(s) <= MaxRevision[s] + faults
       /\ s \in controls => Revision(s) < MaxRevision[s] + faults /\ faults > 0

(* Collection has gone no further than the last revision of a scope, and no *)
(* root that is served has been emptied.                                    *)
CollectionInv ==
  /\ collectedBefore \in [Sources -> [Revisions -> Nat]]
  /\ \A s \in Sources, b \in Revisions : collectedBefore[s][b] <= Revision(s)
  /\ emptied \subseteq Sources \X Revisions
  /\ \A s \in Sources, b \in Revisions : <<s, b>> \in emptied =>
       b <= Revision(s) /\ (current[s] => b # Baseline(s, Revision(s)))

(* A vector of roots that was read at some time: its revisions exist, and   *)
(* its epochs are not ahead of the sources.                                 *)
Captured(v) ==
  /\ v \in Vector
  /\ \A s \in DOMAIN v : v[s].revision \in 1..Revision(s) /\ v[s].epoch <= epoch[s]

VectorInv ==
  /\ pending # None => Captured(pending)
  /\ activeInputs # None \/ active # None => Captured(activeInputs)
  /\ published # None => Captured(published)
  /\ Captured(out.inputs)
  /\ \A w \in Workers : /\ pins[w] # None => Captured(pins[w])
                        /\ Captured(claim[w].roots)
                        /\ DOMAIN seen[w] \subseteq Sources

ClaimRow == [roots : Vector, sequence : Nat, after : Nat, broad : BOOLEAN, base : Nat, rooted : BOOLEAN]

(* The row of the runtime, and what a pass that holds its claim knows of it. *)
RowInv ==
  /\ active \in Workers \cup {None} /\ activeLive \in BOOLEAN
  /\ pendingSequence \in Nat /\ publishedSequence \in 0..pendingSequence
  /\ activeSequence \in 0..pendingSequence
  /\ pending # None \/ active # None => pendingSequence > 0
  /\ status \in {"idle", "running", "catching_up", "failed"}
  /\ keys \subseteq (1..pendingSequence) \X Items
  /\ pins = [v \in Workers |-> pins[v]]
  /\ out \in [current : BOOLEAN, revision : Nat, inputs : Vector, records : {out.records}]
  /\ pc \in [Workers -> {"idle", "read", "requested"} \cup Running]
  /\ DOMAIN seen = Workers /\ claim \in [Workers -> ClaimRow]
  /\ frontier \in [Workers -> SUBSET Items]
  /\ \A w \in Workers : pc[w] \in Running /\ active = w =>
       /\ activeInputs = claim[w].roots
       /\ activeLive => pins[w] = claim[w].roots

IInv == SourceInv /\ CollectionInv /\ VectorInv /\ RowInv /\ InputsKept

-----------------------------------------------------------------------------
(* Least elements *)

(* A set of naturals that is not empty has a least element.                  *)
LEMMA LeastExists ==
  ASSUME NEW T, T \subseteq Nat, T # {}
  PROVE  \E r \in T : \A q \in T : r <= q
<1> DEFINE less == {ss \in Nat \X Nat : ss[1] < ss[2]}
<1>1. IsWellFoundedOn(less, Nat)
  BY NatLessThanWellFounded DEF OpToRel
<1>2. \A q, r \in Nat : r <= q \/ <<q, r>> \in less
  OBVIOUS
<1> HIDE DEF less
<1>3. PICK r \in T : \A q \in T : ~ (<<q, r>> \in less)
  BY <1>1, WFMin
<1> QED BY <1>2, <1>3

(* One that is bounded has a greatest: the least of its bounds.              *)
LEMMA GreatestExists ==
  ASSUME NEW n \in Nat, NEW T, T \subseteq 0..n, T # {}
  PROVE  \E r \in T : \A q \in T : q <= r
<1> DEFINE U == {x \in Nat : \A q \in T : q <= x}
<1>1. PICK u \in U : \A v \in U : u <= v
  <2>1. n \in U
    OBVIOUS
  <2>2. U \subseteq Nat
    OBVIOUS
  <2> HIDE DEF U
  <2> QED BY <2>1, <2>2, LeastExists
<1>2. PICK q \in T : TRUE
  OBVIOUS
<1>3. u \in T
  <2> SUFFICES ASSUME u \notin T PROVE FALSE
    OBVIOUS
  <2>1. \A r \in T : r < u
    OBVIOUS
  <2>2. u - 1 \in U
    BY <2>1, <1>2
  <2> QED BY <2>2, <1>1
<1> QED BY <1>1, <1>3

-----------------------------------------------------------------------------
(* The sources *)

LEMMA ContentType ==
  ASSUME SourceInv, NEW s \in Sources, NEW change \in ChangesOf(s)
  PROVE  [Content(s) EXCEPT ![change[1]] = change[2]] \in [ItemsOf(s) -> Values \cup {Absent}]
<1>1. Content(s) \in [ItemsOf(s) -> Values \cup {Absent}]
  <2>1. CASE history[s] = <<>>
    BY <2>1, InventoryAssumption DEF Content, ItemsOf
  <2>2. CASE history[s] # <<>>
    <3>1. history[s] \in Seq(Row) /\ Revision(s) \in 1..Revision(s)
      BY <2>2 DEF SourceInv, Revision
    <3> QED BY <2>2, <3>1 DEF Content, SourceInv
  <2> QED BY <2>1, <2>2
<1>2. change[2] \in Values \cup {Absent}
  BY InventoryAssumption DEF ChangesOf
<1> QED BY <1>1, <1>2

(* A publication adds one revision to one scope and leaves the others.       *)
Added(s, baseline) ==
  /\ \A t \in Sources : Revision(t)' = IF t = s THEN Revision(s) + 1 ELSE Revision(t)
  /\ \A t \in Sources : \A r \in 1..Revision(t) : history'[t][r] = history[t][r]
  /\ history'[s][Revision(s) + 1].baseline = baseline

LEMMA PublishEffect ==
  ASSUME SourceInv, NEW s \in Sources, NEW baseline \in 1..(Revision(s) + 1),
         NEW content \in [ItemsOf(s) -> Values \cup {Absent}],
         Publishes(s, baseline, content)
  PROVE  /\ history' \in [Sources -> Seq(Row)]
         /\ \A t \in Sources : \A r \in 1..Revision(t)' :
              /\ history'[t][r].baseline \in 1..r
              /\ history'[t][r].content \in [ItemsOf(t) -> Values \cup {Absent}]
         /\ Added(s, baseline)
         /\ \A t \in Sources : Revision(t) \in Nat
<1> DEFINE row == [baseline |-> baseline, content |-> content]
<1>1. history \in [Sources -> Seq(Row)] /\ history' = [history EXCEPT ![s] = Append(history[s], row)]
  BY DEF Publishes, SourceInv
<1>2. \A t \in Sources : history[t] \in Seq(Row) /\ Revision(t) \in Nat
  BY <1>1 DEF Revision
<1>3. row \in Row
  BY <1>2 DEF Row
<1> HIDE DEF row
<1>4. history' \in [Sources -> Seq(Row)]
  BY <1>1, <1>2, <1>3
<1>5. /\ history'[s] = Append(history[s], row)
      /\ \A t \in Sources \ {s} : history'[t] = history[t]
  BY <1>1
<1>6. /\ Revision(s)' = Revision(s) + 1
      /\ \A r \in 1..Revision(s) : history'[s][r] = history[s][r]
      /\ history'[s][Revision(s) + 1] = row
  BY <1>2, <1>3, <1>5 DEF Revision
<1>7. \A t \in Sources \ {s} : Revision(t)' = Revision(t)
  BY <1>5 DEF Revision
<1>8. row.baseline = baseline /\ row.content = content
  BY DEF row
<1>9. ASSUME NEW t \in Sources, NEW r \in 1..Revision(t)'
      PROVE  /\ history'[t][r].baseline \in 1..r
             /\ history'[t][r].content \in [ItemsOf(t) -> Values \cup {Absent}]
  <2>1. CASE r \in 1..Revision(t)
    <3>1. history'[t][r] = history[t][r]
      BY <2>1, <1>5, <1>6
    <3> QED BY <2>1, <3>1 DEF SourceInv, Baseline
  <2>2. CASE r \notin 1..Revision(t)
    <3>1. t = s /\ r = Revision(s) + 1
      BY <2>2, <1>2, <1>6, <1>7
    <3> QED BY <3>1, <1>2, <1>6, <1>8
  <2> QED BY <2>1, <2>2
<1> QED BY <1>2, <1>4, <1>5, <1>6, <1>7, <1>8, <1>9 DEF Added

LEMMA RevisionsBounded ==
  ASSUME NEW s \in Sources, NEW r \in Nat, 0 < r, r <= MaxRevision[s] + MaxFaults
  PROVE  r \in Revisions
BY InventoryAssumption DEF Revisions

(* What a publication may change keeps SourceInv, if the scope has a         *)
(* revision to spare.                                                        *)
LEMMA PublishKeepsSources ==
  ASSUME SourceInv, NEW s \in Sources, NEW baseline \in 1..(Revision(s) + 1),
         NEW content \in [ItemsOf(s) -> Values \cup {Absent}],
         Publishes(s, baseline, content),
         controls' \subseteq controls,
         IF s \in controls' THEN Revision(s) + 1 < MaxRevision[s] + faults
         ELSE Revision(s) < MaxRevision[s] + faults,
         changes' \subseteq changes \cup {Revision(s) + 1} \X ItemsOf(s)
  PROVE  SourceInv'
<1>1. /\ history' \in [Sources -> Seq(Row)]
      /\ \A t \in Sources : \A r \in 1..Revision(t)' :
           /\ history'[t][r].baseline \in 1..r
           /\ history'[t][r].content \in [ItemsOf(t) -> Values \cup {Absent}]
      /\ \A t \in Sources : Revision(t)' = IF t = s THEN Revision(s) + 1 ELSE Revision(t)
      /\ \A t \in Sources : Revision(t) \in Nat
  BY PublishEffect DEF Added
<1>2. /\ current' = [current EXCEPT ![s] = TRUE] /\ rootEpoch' = [rootEpoch EXCEPT ![s] = epoch[s]]
      /\ epoch' = epoch /\ faults' = faults
  BY DEF Publishes
<1>3. /\ current' \in [Sources -> BOOLEAN] /\ \A t \in Sources : current'[t] => Revision(t)' > 0
      /\ epoch' \in [Sources -> Nat] /\ rootEpoch' \in [Sources -> Nat]
      /\ \A t \in Sources : rootEpoch'[t] <= epoch'[t] /\ epoch'[t] <= faults'
  BY <1>1, <1>2 DEF SourceInv
<1>4. changes' \subseteq Revisions \X Items
  <2>1. Revision(s) + 1 \in Revisions
    <3>1. Revision(s) + 1 <= MaxRevision[s] + MaxFaults
      BY <1>1, InventoryAssumption DEF SourceInv
    <3> QED BY <1>1, <3>1, RevisionsBounded
  <2> QED BY <2>1 DEF SourceInv, ItemsOf
<1>5. \A t \in Sources :
        /\ Revision(t)' <= MaxRevision[t] + faults'
        /\ t \in controls' => Revision(t)' < MaxRevision[t] + faults' /\ faults' > 0
  <2> TAKE t \in Sources
  <2>1. /\ Revision(t) <= MaxRevision[t] + faults
        /\ t \in controls => Revision(t) < MaxRevision[t] + faults /\ faults > 0
        /\ MaxRevision[t] \in Nat /\ faults \in Nat
    BY InventoryAssumption DEF SourceInv
  <2>2. Revision(t)' = IF t = s THEN Revision(s) + 1 ELSE Revision(t)
    BY <1>1
  <2>3. Revision(t) \in Nat
    BY <1>1
  <2> QED BY <1>2, <2>1, <2>2, <2>3
<1>6. \A t \in Sources : \A r \in 1..Revision(t)' :
       /\ Baseline(t, r)' \in 1..r
       /\ history'[t][r].content \in [ItemsOf(t) -> Values \cup {Absent}]
  BY <1>1 DEF Baseline
<1>7. controls' \subseteq Sources /\ faults' \in 0..MaxFaults
  BY <1>2 DEF SourceInv
<1>8. history' \in [Sources -> Seq(Row)]
  BY <1>1
<1> QED BY ONLY <1>3, <1>4, <1>5, <1>6, <1>7, <1>8 DEF SourceInv

(* The publications of a scope.                                              *)
SourcePublishes(s) == \E change \in ChangesOf(s) :
                  PublishBaseline(s, change) \/ PublishDelta(s, change) \/ PublishControl(s, change)

(* Each goes on with the root that is there or begins one.                   *)
LEMMA PublicationCases ==
  ASSUME SourceInv, NEW s \in Sources, SourcePublishes(s)
  PROVE  /\ \E baseline \in 1..(Revision(s) + 1), content \in [ItemsOf(s) -> Values \cup {Absent}] :
              /\ Publishes(s, baseline, content)
              /\ baseline = Revision(s) + 1 \/ (current[s] /\ baseline = Baseline(s, Revision(s)))
         /\ SourceInv'
<1> PICK change \in ChangesOf(s) :
           PublishBaseline(s, change) \/ PublishDelta(s, change) \/ PublishControl(s, change)
  BY DEF SourcePublishes
<1> DEFINE content == [Content(s) EXCEPT ![change[1]] = change[2]]
<1>1. content \in [ItemsOf(s) -> Values \cup {Absent}]
  BY ContentType
<1> HIDE DEF content
<1>2. Revision(s) \in Nat
  BY DEF SourceInv, Revision
<1>3. change[1] \in ItemsOf(s)
  BY InventoryAssumption DEF ChangesOf, ItemsOf
<1>4. current[s] => Baseline(s, Revision(s)) \in 1..(Revision(s) + 1)
  BY <1>2 DEF SourceInv
<1>5. CASE PublishBaseline(s, change)
  <2> DEFINE next == Revision(s) + 1
  <2>1. Publishes(s, next, content) /\ controls' = controls /\ changes' = changes
    BY <1>5 DEF PublishBaseline, content
  <2>2. IF s \in controls' THEN Revision(s) + 1 < MaxRevision[s] + faults
        ELSE Revision(s) < MaxRevision[s] + faults
    BY <1>2, <1>5, <2>1, InventoryAssumption DEF PublishBaseline, SourceInv
  <2>3. next \in 1..(Revision(s) + 1) /\ next = Revision(s) + 1
    BY <1>2
  <2> HIDE DEF next
  <2>4. SourceInv'
    BY <1>1, <2>1, <2>2, <2>3, PublishKeepsSources
  <2>5. next \in 1..(Revision(s) + 1)
    BY <2>3
  <2>6. next = Revision(s) + 1 \/ (current[s] /\ next = Baseline(s, Revision(s)))
    BY <2>3
  <2> QED BY ONLY <1>1, <2>1, <2>4, <2>5, <2>6
<1>6. CASE PublishDelta(s, change)
  <2>1. /\ Publishes(s, Baseline(s, Revision(s)), content) /\ controls' = controls
        /\ changes' \subseteq changes \cup {<<Revision(s) + 1, change[1]>>} /\ current[s]
    BY <1>6 DEF PublishDelta, Amends, Readable, content
  <2>2. IF s \in controls' THEN Revision(s) + 1 < MaxRevision[s] + faults
        ELSE Revision(s) < MaxRevision[s] + faults
    BY <1>2, <1>6, <2>1, InventoryAssumption DEF PublishDelta, SourceInv
  <2> QED BY <1>1, <1>3, <1>4, <2>1, <2>2, PublishKeepsSources
<1>7. CASE PublishControl(s, change)
  <2>1. /\ Publishes(s, Baseline(s, Revision(s)), content) /\ controls' = controls \ {s}
        /\ changes' \subseteq changes \cup {<<Revision(s) + 1, change[1]>>} /\ current[s] /\ s \in controls
    BY <1>7 DEF PublishControl, Amends, content
  <2>2. Revision(s) < MaxRevision[s] + faults
    BY <2>1 DEF SourceInv
  <2> QED BY <1>1, <1>3, <1>4, <2>1, <2>2, PublishKeepsSources
<1> QED BY <1>5, <1>6, <1>7

(* The steps that leave histories as they are: faults and epochs go up.      *)
Still == /\ history' = history /\ \A s \in Sources : current'[s] => current[s]
         /\ current' \in [Sources -> BOOLEAN]
         /\ epoch' \in [Sources -> Nat] /\ rootEpoch' = rootEpoch
         /\ \A s \in Sources : epoch[s] <= epoch'[s] /\ epoch'[s] <= faults'
         /\ changes' \subseteq changes
         /\ faults' \in 0..MaxFaults /\ faults <= faults'
         /\ controls' \subseteq controls \/ (controls' \subseteq Sources /\ faults' = faults + 1)

LEMMA StillKeepsSources ==
  ASSUME SourceInv, Still
  PROVE  SourceInv'
<1>1. \A s \in Sources : Revision(s) \in Nat /\ Revision(s)' = Revision(s)
  BY DEF SourceInv, Still, Revision
<1>2. /\ faults \in Nat /\ faults' \in Nat
      /\ \A s \in Sources : MaxRevision[s] \in Nat
  BY InventoryAssumption DEF SourceInv, Still
<1>3. \A s \in Sources :
        /\ Revision(s)' <= MaxRevision[s] + faults'
        /\ s \in controls' => Revision(s)' < MaxRevision[s] + faults' /\ faults' > 0
  BY <1>1, <1>2 DEF SourceInv, Still
<1>4. \A s \in Sources : rootEpoch'[s] <= epoch'[s] /\ epoch'[s] <= faults'
  BY DEF SourceInv, Still
<1>5. \A s \in Sources : \A r \in 1..Revision(s)' :
       /\ Baseline(s, r)' \in 1..r
       /\ history'[s][r].content \in [ItemsOf(s) -> Values \cup {Absent}]
  BY <1>1 DEF SourceInv, Still, Baseline
<1> QED BY <1>1, <1>3, <1>4, <1>5 DEF SourceInv, Still

(* A pass, the timer or the collection leaves the sources, if it collects no *)
(* changes; a fault may be counted.                                          *)
Apart == UNCHANGED sourceVars /\ faults' \in 0..MaxFaults /\ faults <= faults'

LEMMA ApartIsStill ==
  ASSUME SourceInv, Apart
  PROVE  Still
BY DEF SourceInv, Apart, Still

LEMMA Disrupted ==
  ASSUME SourceInv, NEW kind, Disrupt(kind)
  PROVE  faults' \in 0..MaxFaults /\ faults' = faults + 1
BY InventoryAssumption DEF SourceInv, Disrupt

LEMMA PassesAreApart ==
  ASSUME SourceInv, NEW w \in Workers, PassStep(w) \/ Fail(w) \/ Crash(w) \/ PassDeadline(w)
  PROVE  Apart /\ UNCHANGED gcVars
<1>0. faults \in 0..MaxFaults
  BY DEF SourceInv
<1>1. CASE PassStep(w)
  <2>1. CASE ReadRoots(w) \/ RequestRefused(w) \/ NothingClaimed(w)
    BY <1>0, <2>1 DEF ReadRoots, RequestRefused, NothingClaimed, Apart
  <2>2. CASE Request(w)
    BY <1>0, <2>2 DEF Request, Apart
  <2>3. CASE Claim(w)
    BY <1>0, <2>3 DEF Claim, Apart
  <2>4. CASE Begin(w) \/ Seed(w)
    BY <1>0, <2>4 DEF Begin, Seed, Apart
  <2>5. CASE Publish(w)
    BY <1>0, <2>5 DEF Publish, Apart
  <2> QED BY <1>1, <2>1, <2>2, <2>3, <2>4, <2>5 DEF PassStep
<1>2. CASE Fail(w)
  BY <1>0, <1>2, Disrupted DEF Fail, Apart
<1>3. CASE Crash(w)
  BY <1>0, <1>3, Disrupted DEF Crash, Apart
<1>4. CASE PassDeadline(w)
  BY <1>0, <1>4, Disrupted DEF PassDeadline, Apart
<1> QED BY <1>1, <1>2, <1>3, <1>4

LEMMA LapseIsApart ==
  ASSUME SourceInv, LapseLease
  PROVE  Apart /\ UNCHANGED gcVars
<1>0. faults \in 0..MaxFaults
  BY DEF SourceInv
<1> QED BY <1>0, Disrupted DEF LapseLease, Apart

(* What a step does to the sources and to what has been collected of them.   *)
LEMMA StepKinds ==
  ASSUME SourceInv, Next
  PROVE  \/ \E s \in Sources : SourcePublishes(s)
         \/ Still /\ UNCHANGED gcVars
         \/ \E s \in Sources, b \in Revisions : CollectRoot(s, b)
<1>0. /\ \A s \in Sources : epoch[s] \in Nat /\ epoch[s] <= faults
      /\ faults \in 0..MaxFaults /\ controls \subseteq Sources
      /\ current \in [Sources -> BOOLEAN] /\ epoch \in [Sources -> Nat]
  BY DEF SourceInv
<1>1. ASSUME NEW s \in Sources, FenceControl(s) PROVE Still /\ UNCHANGED gcVars
  <2>1. faults' \in 0..MaxFaults /\ faults' = faults + 1
    BY <1>1, Disrupted DEF FenceControl
  <2>2. epoch' = [epoch EXCEPT ![s] = epoch[s] + 1]
    BY <1>1 DEF FenceControl
  <2>3. epoch' \in [Sources -> Nat] /\ \A t \in Sources : epoch[t] <= epoch'[t] /\ epoch'[t] <= faults'
    BY <1>0, <2>1, <2>2
  <2> QED BY <1>0, <1>1, <2>1, <2>3 DEF FenceControl, Still
<1>2. ASSUME NEW s \in Sources, PruneControl(s) PROVE Still /\ UNCHANGED gcVars
  BY <1>0, <1>2 DEF PruneControl, Still
<1>3. ASSUME NEW kept \in SUBSET controls, Clear(kept) PROVE Still /\ UNCHANGED gcVars
  <2>1. faults' \in 0..MaxFaults /\ faults' = faults + 1
    BY <1>3, Disrupted DEF Clear
  <2> QED BY <1>0, <1>3, <2>1 DEF Clear, Still
<1>4. ASSUME CollectKeys \/ \E s \in Sources : CollectChanges(s) PROVE Still /\ UNCHANGED gcVars
  BY <1>0, <1>4 DEF CollectKeys, CollectChanges, Still
<1>5. ASSUME LapseLease \/ \E w \in Workers : PassStep(w) \/ Fail(w) \/ Crash(w) \/ PassDeadline(w)
      PROVE  Still /\ UNCHANGED gcVars
  BY <1>5, LapseIsApart, PassesAreApart, ApartIsStill
<1> QED BY <1>1, <1>2, <1>3, <1>4, <1>5 DEF Next, SourceStep, ControlStep, Collect, SourcePublishes

LEMMA RootCollected ==
  ASSUME SourceInv, NEW s, NEW b, CollectRoot(s, b)
  PROVE  Apart
<1>1. faults \in 0..MaxFaults
  BY DEF SourceInv
<1> QED BY <1>1 DEF CollectRoot, Apart

LEMMA SourcesKept ==
  ASSUME SourceInv, Next
  PROVE  SourceInv'
BY StepKinds, PublicationCases, RootCollected, ApartIsStill, StillKeepsSources

-----------------------------------------------------------------------------
(* Collection *)

(* The floor of a root is one of its revisions, and below none that is needed. *)
LEMMA FloorIsLeast ==
  ASSUME SourceInv, NEW s \in Sources, NEW b,
         \E r \in 1..Revision(s) : Baseline(s, r) = b
  PROVE  /\ Floor(s, b) \in 1..Revision(s)
         /\ \A r \in Needed(s, b) : Floor(s, b) <= r
<1>0. Revision(s) \in Nat
  BY DEF SourceInv, Revision
<1> DEFINE own == {r \in 1..Revision(s) : Baseline(s, r) = b}
<1>1. LastOf(s, b) \in 1..Revision(s)
  <2>1. own \subseteq 0..Revision(s) /\ own # {}
    BY <1>0
  <2>2. \E r \in own : \A q \in own : q <= r
    <3> HIDE DEF own
    <3> QED BY <1>0, <2>1, GreatestExists
  <2> QED BY <2>2 DEF LastOf
<1>2. Needed(s, b) \subseteq 1..Revision(s)
  BY DEF Needed, Retained, Pinned
<1> DEFINE held == Needed(s, b) \cup {LastOf(s, b)}
<1>3. held \subseteq Nat /\ held # {} /\ held \subseteq 1..Revision(s)
  BY <1>0, <1>1, <1>2
<1>4. \E r \in held : \A q \in held : r <= q
  <2> HIDE DEF held
  <2> QED BY <1>3, LeastExists
<1>5. Floor(s, b) \in held /\ \A q \in held : Floor(s, b) <= q
  BY <1>4 DEF Floor
<1> QED BY <1>3, <1>5

LEMMA CollectionKept ==
  ASSUME SourceInv, SourceInv', CollectionInv, Next
  PROVE  CollectionInv'
<1>0. \A s \in Sources : Revision(s) \in Nat
  BY DEF SourceInv, Revision
<1>a. \A s \in Sources : current[s] => Revision(s) \in 1..Revision(s)
  BY <1>0 DEF SourceInv
<1>1. ASSUME NEW s \in Sources, SourcePublishes(s) PROVE CollectionInv'
  <2>1. PICK baseline \in 1..(Revision(s) + 1), content \in [ItemsOf(s) -> Values \cup {Absent}] :
           /\ Publishes(s, baseline, content)
           /\ baseline = Revision(s) + 1 \/ (current[s] /\ baseline = Baseline(s, Revision(s)))
    BY <1>1, PublicationCases
  <2>2. Added(s, baseline)
    BY <2>1, PublishEffect
  <2>3. \A t \in Sources : Revision(t)' = IF t = s THEN Revision(s) + 1 ELSE Revision(t)
    BY <2>2 DEF Added
  <2>4. UNCHANGED gcVars /\ current' = [current EXCEPT ![s] = TRUE]
    BY <2>1 DEF Publishes
  <2>5. \A t \in Sources, b \in Revisions : collectedBefore'[t][b] <= Revision(t)'
    BY <1>0, <2>3, <2>4 DEF CollectionInv
  <2>6. ASSUME NEW t \in Sources, NEW b \in Revisions, <<t, b>> \in emptied'
        PROVE  b <= Revision(t)' /\ (current'[t] => b # Baseline(t, Revision(t))')
    <3>1. <<t, b>> \in emptied /\ b <= Revision(t) /\ (current[t] => b # Baseline(t, Revision(t)))
      BY <2>4, <2>6 DEF CollectionInv
    <3>2. b \in Nat
      BY InventoryAssumption DEF Revisions
    <3>3. CASE t = s
      <4>1. Baseline(s, Revision(s))' = baseline /\ Revision(s)' = Revision(s) + 1
        BY <2>2, <2>3 DEF Added, Baseline
      <4>2. b # baseline
        BY <1>0, <2>1, <3>1, <3>2, <3>3
      <4> QED BY <1>0, <3>1, <3>2, <3>3, <4>1, <4>2
    <3>4. CASE t # s
      <4>1. Revision(t)' = Revision(t) /\ current'[t] = current[t]
        BY <2>3, <2>4, <3>4 DEF SourceInv
      <4>2. ASSUME current[t] PROVE Baseline(t, Revision(t))' = Baseline(t, Revision(t))
        <5>1. Revision(t) \in 1..Revision(t)
          BY <1>a, <4>2
        <5>2. history'[t][Revision(t)] = history[t][Revision(t)]
          BY <2>2, <5>1 DEF Added
        <5> QED BY <4>1, <5>2 DEF Baseline
      <4> QED BY <3>1, <4>1, <4>2
    <3> QED BY <3>3, <3>4
  <2> QED BY <2>4, <2>5, <2>6 DEF CollectionInv
<1>2. ASSUME Still, UNCHANGED gcVars PROVE CollectionInv'
  <2>1. /\ \A t \in Sources : Revision(t)' = Revision(t)
        /\ \A t \in Sources : \A r : Baseline(t, r)' = Baseline(t, r)
        /\ \A t \in Sources : current'[t] => current[t]
    BY <1>2 DEF Still, Revision, Baseline
  <2>2. \A t \in Sources : Baseline(t, Revision(t))' = Baseline(t, Revision(t))
    BY <1>2 DEF Still, Revision, Baseline
  <2> QED BY <1>2, <2>1, <2>2 DEF CollectionInv
<1>3. ASSUME NEW s \in Sources, NEW b \in Revisions, CollectRoot(s, b) PROVE CollectionInv'
  <2>1. Floor(s, b) \in 1..Revision(s)
    BY <1>3, FloorIsLeast DEF CollectRoot
  <2>2. /\ collectedBefore' = [collectedBefore EXCEPT ![s][b] =
              IF Floor(s, b) > collectedBefore[s][b] THEN Floor(s, b) ELSE collectedBefore[s][b]]
        /\ \/ emptied' = emptied
           \/ emptied' = emptied \cup {<<s, b>>} /\ ~(current[s] /\ Baseline(s, Revision(s)) = b)
        /\ \E r \in 1..Revision(s) : Baseline(s, r) = b
        /\ history' = history /\ current' = current
    BY <1>3 DEF CollectRoot
  <2>3. /\ \A t \in Sources : Revision(t)' = Revision(t)
        /\ \A t \in Sources : Baseline(t, Revision(t))' = Baseline(t, Revision(t))
    BY <2>2 DEF Revision, Baseline
  <2>4. /\ collectedBefore' \in [Sources -> [Revisions -> Nat]]
        /\ \A t \in Sources, c \in Revisions : collectedBefore'[t][c] <= Revision(t)
    BY <1>0, <2>1, <2>2 DEF CollectionInv
  <2>5. b <= Revision(s)
    BY <1>0, <2>2 DEF SourceInv
  <2> QED BY <2>2, <2>3, <2>4, <2>5 DEF CollectionInv
<1> QED BY <1>1, <1>2, <1>3, StepKinds

-----------------------------------------------------------------------------
(* The vectors of roots, and the row *)

(* What was captured stays captured: revisions and epochs only grow.         *)
Grows ==
  /\ \A s \in Sources : /\ Revision(s) \in Nat /\ Revision(s)' \in Nat /\ Revision(s) <= Revision(s)'
                        /\ epoch[s] \in Nat /\ epoch'[s] \in Nat /\ epoch[s] <= epoch'[s]
  /\ \A s \in Sources : \A r \in 1..Revision(s) : Baseline(s, r)' = Baseline(s, r)

LEMMA SourcesGrow ==
  ASSUME SourceInv, SourceInv', Next
  PROVE  Grows
<1>0. \A s \in Sources : Revision(s) \in Nat /\ Revision(s)' \in Nat /\ epoch[s] \in Nat /\ epoch'[s] \in Nat
  BY DEF SourceInv, Revision
<1>1. ASSUME NEW s \in Sources, SourcePublishes(s) PROVE Grows
  <2>1. PICK baseline \in 1..(Revision(s) + 1), content \in [ItemsOf(s) -> Values \cup {Absent}] :
           Publishes(s, baseline, content)
    BY <1>1, PublicationCases
  <2>2. Added(s, baseline) /\ epoch' = epoch
    BY <2>1, PublishEffect DEF Publishes
  <2>3. \A t \in Sources : \A r \in 1..Revision(t) : Baseline(t, r)' = Baseline(t, r)
    BY <2>2 DEF Added, Baseline
  <2>4. \A t \in Sources : Revision(t)' = IF t = s THEN Revision(s) + 1 ELSE Revision(t)
    BY <2>2 DEF Added
  <2> QED BY <1>0, <2>2, <2>3, <2>4 DEF Grows
<1>2. ASSUME Still PROVE Grows
  <2>1. /\ \A s \in Sources : Revision(s)' = Revision(s) /\ epoch[s] <= epoch'[s]
        /\ \A s \in Sources : \A r \in 1..Revision(s) : Baseline(s, r)' = Baseline(s, r)
    BY <1>2 DEF Still, Revision, Baseline
  <2> QED BY <1>0, <2>1 DEF Grows
<1> QED BY <1>1, <1>2, StepKinds, RootCollected, ApartIsStill

LEMMA CapturedStays ==
  ASSUME Grows, NEW v, Captured(v)
  PROVE  /\ v \in Vector
         /\ \A s \in DOMAIN v : v[s].revision \in 1..Revision(s)' /\ v[s].epoch <= epoch'[s]
<1>1. DOMAIN v \subseteq Sources /\ v \in Vector
  BY DEF Captured, Vector
<1>2. \A s \in DOMAIN v : v[s].epoch \in Nat
  BY InventoryAssumption DEF Captured, Vector
<1> QED BY <1>1, <1>2 DEF Captured, Grows

(* The roots that a pass or a claim reads are captured by reading them.      *)
LEMMA RootsAreCaptured ==
  ASSUME SourceInv, NEW S \in SUBSET Sources, \A s \in S : Readable(s)
  PROVE  Captured([s \in S |-> Root(s)])
<1> DEFINE v == [s \in S |-> Root(s)]
<1>1. ASSUME NEW s \in S
      PROVE  /\ Revision(s) \in 1..Revision(s) /\ Revision(s) \in Revisions
             /\ epoch[s] \in 0..MaxFaults
  <2>1. Revision(s) \in Nat /\ Revision(s) > 0 /\ Revision(s) <= MaxRevision[s] + faults
    BY DEF Readable, SourceInv, Revision
  <2>2. faults \in 0..MaxFaults /\ MaxRevision[s] \in Nat /\ MaxFaults \in Nat
    BY InventoryAssumption DEF SourceInv
  <2>3. Revision(s) <= MaxRevision[s] + MaxFaults
    BY <2>1, <2>2
  <2>4. epoch[s] \in Nat /\ epoch[s] <= faults
    BY DEF SourceInv
  <2> QED BY <2>1, <2>2, <2>3, <2>4, RevisionsBounded
<1>2. v \in [S -> [revision : Revisions, epoch : 0..MaxFaults]]
  BY <1>1 DEF Root
<1>3. v \in Vector
  BY <1>2 DEF Vector
<1>4. \A s \in S : v[s].revision \in 1..Revision(s) /\ v[s].epoch <= epoch[s]
  BY <1>1 DEF Root
<1> QED BY <1>3, <1>4 DEF Captured

LEMMA NothingIsCaptured ==
  Captured(<<>>)
<1>1. <<>> \in [{} -> [revision : Revisions, epoch : 0..MaxFaults]]
  OBVIOUS
<1> QED BY <1>1 DEF Captured, Vector

(* Captured, of the next state.                                              *)
CapturedNext(v) ==
  /\ v \in Vector
  /\ \A s \in DOMAIN v : v[s].revision \in 1..Revision(s)' /\ v[s].epoch <= epoch'[s]

(* The steps that read no roots only hand vectors on, or drop them.          *)
VectorsStand ==
  /\ pending' \in {None, pending, activeInputs}
  /\ \/ activeInputs' = activeInputs /\ active' \in {None, active}
     \/ activeInputs' = None /\ active' = None
  /\ published' \in {None, published, activeInputs}
  /\ out'.inputs = out.inputs \/ (active # None /\ out'.inputs = activeInputs)
  /\ \A w \in Workers : /\ pins'[w] \in {None, pins[w]}
                        /\ claim'[w].roots \in {<<>>, claim[w].roots}
                        /\ DOMAIN seen'[w] \subseteq Sources

LEMMA StandingVectors ==
  ASSUME Grows, VectorInv, VectorsStand
  PROVE  VectorInv'
<1>1. \A v : Captured(v) => CapturedNext(v)
  BY CapturedStays DEF CapturedNext
<1>2. CapturedNext(<<>>)
  BY <1>1, NothingIsCaptured
<1>3. /\ pending' # None => CapturedNext(pending')
      /\ activeInputs' # None \/ active' # None => CapturedNext(activeInputs')
      /\ published' # None => CapturedNext(published')
      /\ CapturedNext(out'.inputs)
      /\ \A w \in Workers : /\ pins'[w] # None => CapturedNext(pins'[w])
                            /\ CapturedNext(claim'[w].roots)
  BY <1>1, <1>2 DEF VectorInv, VectorsStand
<1> QED BY <1>3 DEF VectorInv, VectorsStand, CapturedNext, Captured

(* Whatever else they do, these steps touch nothing of the row.              *)
RowStands == UNCHANGED <<rowVars, keys, pins, out, localVars>>

LEMMA NoRoots ==
  DOMAIN <<>> = {} /\ NoClaim \in ClaimRow /\ NoClaim.roots = <<>>
<1>1. <<>> \in Vector
  BY NothingIsCaptured DEF Captured
<1> QED BY <1>1 DEF NoClaim, ClaimRow

LEMMA RequestKeepsRow ==
  ASSUME SourceInv, Grows, VectorInv, RowInv, NEW w \in Workers, Request(w)
  PROVE  VectorInv' /\ RowInv'
<1> DEFINE captured == [s \in DOMAIN seen[w] |-> Root(s)]
<1>1. Captured(captured)
  BY RootsAreCaptured DEF Request, Acceptable, VectorInv
<1>2. \/ UNCHANGED <<pending, pendingSequence, keys>>
      \/ /\ pending' = captured /\ pendingSequence' = pendingSequence + 1
         /\ keys' \subseteq keys \cup ({pendingSequence + 1} \X Items)
  BY DEF Request, ChangedSince, ItemsOf
<1> HIDE DEF captured
<1>3. VectorInv'
  <2>1. \A v : Captured(v) => CapturedNext(v)
    BY CapturedStays DEF CapturedNext
  <2>2. /\ seen' = [seen EXCEPT ![w] = <<>>]
        /\ UNCHANGED <<active, activeInputs, published, out, pins, claim>>
    BY DEF Request
  <2>3. \A v \in Workers : DOMAIN seen'[v] \subseteq Sources
    BY <2>2, NoRoots DEF VectorInv, RowInv
  <2>4. pending' # None => CapturedNext(pending')
    BY <1>1, <1>2, <2>1 DEF VectorInv
  <2>5. /\ activeInputs' # None \/ active' # None => CapturedNext(activeInputs')
        /\ published' # None => CapturedNext(published')
        /\ CapturedNext(out'.inputs)
        /\ \A v \in Workers : /\ pins'[v] # None => CapturedNext(pins'[v])
                              /\ CapturedNext(claim'[v].roots)
    BY <2>1, <2>2 DEF VectorInv
  <2> QED BY <2>3, <2>4, <2>5 DEF VectorInv, CapturedNext, Captured
<1>4. /\ pc' = [pc EXCEPT ![w] = "requested"] /\ seen' = [seen EXCEPT ![w] = <<>>]
      /\ UNCHANGED <<activeVars, published, publishedSequence, status, pins, out, claim, frontier>>
  BY DEF Request, Moves
<1>5. /\ pendingSequence' \in Nat /\ pendingSequence <= pendingSequence'
      /\ keys' \subseteq (1..pendingSequence') \X Items
      /\ pending' # None \/ active # None => pendingSequence' > 0
  BY <1>2 DEF RowInv
<1>6. \A v \in Workers : pc'[v] \in Running => pc[v] \in Running
  BY <1>4 DEF RowInv, Running
<1>7. pc' \in [Workers -> {"idle", "read", "requested"} \cup Running] /\ DOMAIN seen' = Workers
  BY <1>4 DEF RowInv
<1>8. publishedSequence \in 0..pendingSequence' /\ activeSequence \in 0..pendingSequence'
  BY <1>5 DEF RowInv
<1>9. RowInv'
  BY <1>4, <1>5, <1>6, <1>7, <1>8 DEF RowInv
<1> QED BY <1>3, <1>9

LEMMA ClaimKeepsRow ==
  ASSUME SourceInv, Grows, VectorInv, RowInv, NEW w \in Workers, Claim(w)
  PROVE  VectorInv' /\ RowInv' /\ Captured(Recaptured)
<1>1. Latest # None /\ \A s \in DOMAIN Latest : Readable(s)
  BY DEF Claim, Claimable
<1>2. Captured(Latest)
  BY <1>1 DEF VectorInv, Latest
<1>3. DOMAIN Latest \subseteq Sources
  BY <1>2 DEF Captured, Vector
<1>4. Captured(Recaptured)
  BY <1>1, <1>3, RootsAreCaptured DEF Recaptured
<1> DEFINE roots == Recaptured
           sequence == IF pending = None /\ active = None THEN pendingSequence + 1 ELSE pendingSequence
<1>5. /\ pc' = [pc EXCEPT ![w] = "claimed"]
      /\ keys' \subseteq keys \cup ({sequence} \X Items)
      /\ pins' = [v \in Workers |-> IF v = w THEN roots ELSE IF v = active THEN None ELSE pins[v]]
      /\ pending' = None /\ pendingSequence' = sequence
      /\ active' = w /\ activeInputs' = roots /\ activeSequence' = sequence /\ activeLive' = TRUE
      /\ status' = "running"
      /\ \E row \in ClaimRow : row.roots = roots /\ claim' = [claim EXCEPT ![w] = row]
      /\ UNCHANGED <<published, publishedSequence, out, seen, frontier>>
  <2> DEFINE row == [NoClaim EXCEPT !.roots = roots, !.sequence = sequence,
                                    !.after = publishedSequence, !.broad = NeedsBroad(roots)]
  <2>1. sequence \in Nat /\ publishedSequence \in Nat /\ roots \in Vector /\ NeedsBroad(roots) \in BOOLEAN
    BY <1>4 DEF RowInv, Captured, NeedsBroad
  <2>2. row \in ClaimRow /\ row.roots = roots
    BY <2>1 DEF ClaimRow, NoClaim
  <2>3. claim' = [claim EXCEPT ![w] = row]
    BY DEF Claim
  <2> HIDE DEF row
  <2>4. \E r \in ClaimRow : r.roots = roots /\ claim' = [claim EXCEPT ![w] = r]
    BY <2>2, <2>3
  <2>5. keys' \subseteq keys \cup ({sequence} \X Items)
    BY DEF Claim, ChangedSince, ItemsOf
  <2> QED BY <2>4, <2>5 DEF Claim, Moves
<1>6. sequence \in Nat /\ sequence > 0 /\ pendingSequence <= sequence
  BY DEF RowInv
<1> HIDE DEF sequence, roots
<1>7. Captured(roots)
  BY <1>4 DEF roots
<1>8. PICK row \in ClaimRow : row.roots = roots /\ claim' = [claim EXCEPT ![w] = row]
  BY <1>5
<1>9. VectorInv'
  <2>1. \A v : Captured(v) => CapturedNext(v)
    BY CapturedStays DEF CapturedNext
  <2>2. /\ published' # None => CapturedNext(published')
        /\ CapturedNext(out'.inputs) /\ CapturedNext(activeInputs')
    BY <1>5, <1>7, <2>1 DEF VectorInv
  <2>3. \A v \in Workers : /\ pins'[v] # None => CapturedNext(pins'[v])
                           /\ CapturedNext(claim'[v].roots)
    BY <1>5, <1>7, <1>8, <2>1 DEF VectorInv, RowInv
  <2> QED BY <1>5, <2>2, <2>3 DEF VectorInv, CapturedNext, Captured
<1>10. RowInv'
  <2>1. /\ pc' \in [Workers -> {"idle", "read", "requested"} \cup Running]
        /\ claim' \in [Workers -> ClaimRow] /\ claim'[w].roots = roots
        /\ pins' = [v \in Workers |-> pins'[v]] /\ pins'[w] = roots
    BY <1>5, <1>8 DEF RowInv, Running
  <2>2. /\ keys' \subseteq (1..sequence) \X Items
        /\ publishedSequence' \in 0..sequence
    BY <1>5, <1>6 DEF RowInv
  <2> QED BY <1>5, <1>6, <2>1, <2>2 DEF RowInv
<1> QED BY <1>4, <1>9, <1>10

LEMMA StandingRow ==
  ASSUME VectorInv, RowInv, RowStands
  PROVE  VectorsStand /\ RowInv'
<1>1. VectorsStand
  BY DEF RowStands, VectorsStand, VectorInv
<1>2. RowInv'
  BY DEF RowStands, RowInv
<1> QED BY <1>1, <1>2

LEMMA SourceStepsLeaveRow ==
  ASSUME SourceStep \/ ControlStep \/ \E s \in Sources : CollectChanges(s) \/ \E b \in Revisions : CollectRoot(s, b)
  PROVE  RowStands
<1>1. ASSUME NEW s \in Sources, SourcePublishes(s) PROVE RowStands
  BY <1>1 DEF SourcePublishes, PublishBaseline, PublishDelta, PublishControl, Amends, Publishes, RowStands
<1>2. ASSUME NEW s \in Sources, FenceControl(s) \/ PruneControl(s) PROVE RowStands
  BY <1>2 DEF FenceControl, PruneControl, RowStands
<1>3. ASSUME NEW s \in Sources, CollectChanges(s) PROVE RowStands
  BY <1>3 DEF CollectChanges, RowStands
<1>4. ASSUME NEW s \in Sources, NEW b \in Revisions, CollectRoot(s, b) PROVE RowStands
  BY <1>4 DEF CollectRoot, RowStands
<1> QED BY <1>1, <1>2, <1>3, <1>4 DEF SourceStep, ControlStep, SourcePublishes

LEMMA ClearKeepsRow ==
  ASSUME VectorInv, RowInv, NEW kept \in SUBSET controls, Clear(kept)
  PROVE  VectorsStand /\ RowInv'
<1> DEFINE next == IF out.current THEN out.revision + 1 ELSE out.revision
<1>1. /\ out \in [current : BOOLEAN, revision : Nat, inputs : Vector, records : {out.records}]
      /\ next \in Nat
      /\ out' = [out EXCEPT !.current = FALSE, !.revision = next]
  BY DEF Clear, RowInv
<1> HIDE DEF next
<1>2. out'.inputs = out.inputs /\ out' \in [current : BOOLEAN, revision : Nat, inputs : Vector, records : {out'.records}]
  BY ONLY <1>1
<1>4. /\ activeSequence' = 0 /\ publishedSequence' = pendingSequence /\ pendingSequence' = pendingSequence
      /\ pending' = None /\ active' = None /\ activeLive' = FALSE /\ status' = "idle"
      /\ UNCHANGED <<keys, pins, pc, seen, claim, frontier>>
  BY DEF Clear
<1>5. /\ pendingSequence \in Nat /\ keys \subseteq (1..pendingSequence) \X Items /\ pins = [v \in Workers |-> pins[v]]
      /\ pc \in [Workers -> {"idle", "read", "requested"} \cup Running]
      /\ DOMAIN seen = Workers /\ claim \in [Workers -> ClaimRow]
      /\ frontier \in [Workers -> SUBSET Items]
  BY DEF RowInv
<1>7. \A w \in Workers : active' # w
  BY <1>4, InventoryAssumption
<1>3. VectorsStand
  BY <1>2 DEF Clear, VectorsStand, VectorInv
<1>6. RowInv'
  <2>1. /\ active' \in Workers \cup {None} /\ activeLive' \in BOOLEAN
        /\ status' \in {"idle", "running", "catching_up", "failed"}
        /\ pending' # None \/ active' # None => pendingSequence' > 0
    BY ONLY <1>4
  <2>2. /\ pendingSequence' \in Nat /\ publishedSequence' \in 0..pendingSequence'
        /\ activeSequence' \in 0..pendingSequence' /\ keys' \subseteq (1..pendingSequence') \X Items
    BY ONLY <1>4, <1>5
  <2>3. /\ pins' = [v \in Workers |-> pins'[v]]
        /\ pc' \in [Workers -> {"idle", "read", "requested"} \cup Running]
        /\ DOMAIN seen' = Workers /\ claim' \in [Workers -> ClaimRow]
        /\ frontier' \in [Workers -> SUBSET Items]
    BY ONLY <1>4, <1>5
  <2> QED BY ONLY <1>2, <1>7, <2>1, <2>2, <2>3 DEF RowInv
<1> QED BY <1>3, <1>6

LEMMA StartKeepsRow ==
  ASSUME VectorInv, RowInv, NEW w \in Workers,
         ReadRoots(w) \/ RequestRefused(w) \/ NothingClaimed(w)
  PROVE  VectorsStand /\ RowInv'
<1>1. /\ \E label \in {"idle", "read"} : pc' = [pc EXCEPT ![w] = label]
      /\ seen' = seen \/ \E v : DOMAIN v \subseteq Sources /\ seen' = [seen EXCEPT ![w] = v]
      /\ UNCHANGED <<rowVars, keys, pins, out, claim, frontier>>
  <2>1. DOMAIN [s \in DOMAIN Roots |-> epoch[s]] \subseteq Sources
    BY DEF Roots
  <2> QED BY <2>1, NoRoots DEF ReadRoots, RequestRefused, NothingClaimed, Moves
<1>2. DOMAIN seen' = Workers /\ \A v \in Workers : DOMAIN seen'[v] \subseteq Sources
  BY <1>1 DEF VectorInv, RowInv
<1>3. /\ pc' \in [Workers -> {"idle", "read", "requested"} \cup Running]
      /\ \A v \in Workers : pc'[v] \in Running => pc[v] \in Running
  BY <1>1 DEF RowInv, Running
<1>4. VectorsStand
  BY <1>1, <1>2 DEF VectorsStand
<1>5. RowInv'
  BY <1>1, <1>2, <1>3 DEF RowInv
<1> QED BY <1>4, <1>5

LEMMA DeriveKeepsRow ==
  ASSUME VectorInv, RowInv, NEW w \in Workers, Begin(w) \/ Seed(w)
  PROVE  VectorsStand /\ RowInv'
<1>0. claim[w] \in ClaimRow /\ out.revision \in Nat /\ out.current \in BOOLEAN
  BY DEF RowInv
<1>1. /\ pc[w] \in Running
      /\ \E label \in Running : pc' = [pc EXCEPT ![w] = label]
      /\ \E row \in ClaimRow : row.roots = claim[w].roots /\ claim' = [claim EXCEPT ![w] = row]
      /\ \E found \in SUBSET Items : frontier' = [frontier EXCEPT ![w] = found]
      /\ UNCHANGED <<rowVars, keys, pins, out, seen>>
  <2>1. CASE Begin(w)
    <3> DEFINE row == [claim[w] EXCEPT !.base = out.revision, !.rooted = out.current]
    <3>1. row \in ClaimRow /\ row.roots = claim[w].roots
      BY <1>0 DEF ClaimRow
    <3>2. claim' = [claim EXCEPT ![w] = row]
      BY <2>1 DEF Begin
    <3> HIDE DEF row
    <3>3. frontier' = [frontier EXCEPT ![w] = frontier[w]] /\ frontier[w] \in SUBSET Items
      BY <2>1 DEF Begin, RowInv
    <3> QED BY <2>1, <3>1, <3>2, <3>3 DEF Begin, Moves, Running
  <2>2. CASE Seed(w)
    <3>1. claim' = [claim EXCEPT ![w] = claim[w]]
      BY <2>2 DEF Seed, RowInv
    <3>2. \E found \in SUBSET Items : frontier' = [frontier EXCEPT ![w] = found]
      BY <2>2 DEF Seed, Rows
    <3> QED BY <1>0, <2>2, <3>1, <3>2 DEF Seed, Moves, Running
  <2> QED BY <2>1, <2>2
<1>2. /\ pc' \in [Workers -> {"idle", "read", "requested"} \cup Running]
      /\ \A v \in Workers : pc'[v] \in Running => pc[v] \in Running
  BY <1>1 DEF RowInv
<1>3. claim' \in [Workers -> ClaimRow] /\ \A v \in Workers : claim'[v].roots = claim[v].roots
  BY <1>1 DEF RowInv
<1>4. frontier' \in [Workers -> SUBSET Items]
  BY <1>1 DEF RowInv
<1>5. VectorsStand
  BY <1>1, <1>3 DEF VectorsStand, VectorInv
<1>6. RowInv'
  BY <1>1, <1>2, <1>3, <1>4 DEF RowInv
<1> QED BY <1>5, <1>6

(* A pass that is over keeps nothing.                                        *)
Ended(w) ==
  /\ pc' = [pc EXCEPT ![w] = "idle"]
  /\ claim' = [claim EXCEPT ![w] = NoClaim]
  /\ frontier' = [frontier EXCEPT ![w] = {}]

LEMMA EndedLocals ==
  ASSUME RowInv, NEW w \in Workers, Ended(w)
  PROVE  /\ pc' \in [Workers -> {"idle", "read", "requested"} \cup Running]
         /\ claim' \in [Workers -> ClaimRow] /\ frontier' \in [Workers -> SUBSET Items]
         /\ \A v \in Workers : pc'[v] \in Running => pc[v] \in Running /\ v # w
         /\ \A v \in Workers : IF v = w THEN claim'[v].roots = <<>> ELSE claim'[v] = claim[v]
<1>1. NoClaim \in ClaimRow /\ NoClaim.roots = <<>>
  BY NoRoots
<1>2. claim' \in [Workers -> ClaimRow] /\ \A v \in Workers : claim'[v] = IF v = w THEN NoClaim ELSE claim[v]
  BY <1>1 DEF RowInv, Ended
<1>3. /\ pc' \in [Workers -> {"idle", "read", "requested"} \cup Running]
      /\ \A v \in Workers : pc'[v] \in Running => pc[v] \in Running /\ v # w
  BY DEF RowInv, Ended, Running
<1>4. frontier' \in [Workers -> SUBSET Items]
  BY DEF RowInv, Ended
<1> QED BY <1>1, <1>2, <1>3, <1>4

LEMMA EndKeepsRow ==
  ASSUME VectorInv, RowInv, NEW w \in Workers, Publish(w) \/ Fail(w) \/ Crash(w)
  PROVE  VectorsStand /\ RowInv'
<1>1. Ended(w)
  BY DEF Publish, Fail, Crash, Moves, Ended
<1>2. /\ pc' \in [Workers -> {"idle", "read", "requested"} \cup Running]
      /\ claim' \in [Workers -> ClaimRow] /\ frontier' \in [Workers -> SUBSET Items]
      /\ \A v \in Workers : pc'[v] \in Running => pc[v] \in Running /\ v # w
      /\ \A v \in Workers : IF v = w THEN claim'[v].roots = <<>> ELSE claim'[v] = claim[v]
  BY <1>1, EndedLocals
<1>3. /\ seen' = seen \/ seen' = [seen EXCEPT ![w] = <<>>]
      /\ UNCHANGED <<pendingSequence, activeSequence, keys>>
  BY DEF Publish, Fail, Crash
<1>4. DOMAIN seen' = Workers /\ \A v \in Workers : DOMAIN seen'[v] \subseteq Sources
  BY <1>3, NoRoots DEF VectorInv, RowInv
<1>5. CASE Publish(w)
  <2>0. active = w /\ active # None
    BY <1>5, InventoryAssumption DEF Publish, ValidInputs, Holds
  <2>1. activeInputs \in Vector
    BY <2>0 DEF VectorInv, Captured
  <2>2. /\ out'.inputs = activeInputs
        /\ out' \in [current : BOOLEAN, revision : Nat, inputs : Vector, records : {out'.records}]
    BY <1>5, <2>1 DEF Publish, RowInv
  <2>3. /\ \A v \in Workers : pins'[v] \in {None, pins[v]}
        /\ pins' = [v \in Workers |-> pins'[v]]
    BY <1>5 DEF Publish, RowInv
  <2>5. VectorsStand
    BY <1>2, <1>4, <1>5, <2>0, <2>2, <2>3 DEF Publish, VectorsStand
  <2>6. active' = None /\ \A v \in Workers : active' # v
    BY <1>5, InventoryAssumption DEF Publish
  <2>7. RowInv'
    <3>1. /\ publishedSequence' = activeSequence /\ activeLive' = FALSE /\ pending' = pending
          /\ status' \in {"idle", "catching_up"} /\ UNCHANGED <<pendingSequence, activeSequence, keys>>
      BY <1>5 DEF Publish
    <3>2. /\ pendingSequence \in Nat /\ activeSequence \in 0..pendingSequence
          /\ pending # None \/ active # None => pendingSequence > 0
          /\ keys \subseteq (1..pendingSequence) \X Items
      BY DEF RowInv
    <3> QED BY ONLY <1>2, <1>4, <2>2, <2>3, <2>6, <3>1, <3>2 DEF RowInv
  <2> QED BY <2>5, <2>7
<1>6. CASE Fail(w)
  <2>3. /\ \A v \in Workers : pins'[v] = IF v = w THEN None ELSE pins[v]
        /\ pins' = [v \in Workers |-> pins'[v]]
    BY <1>6 DEF Fail, RowInv
  <2>5. VectorsStand
    BY <1>2, <1>4, <1>6, <2>3 DEF Fail, VectorsStand
  <2>6. /\ active' \in {None, active} /\ activeLive' \in BOOLEAN /\ (activeLive' => activeLive)
        /\ status' \in {status, "failed"}
        /\ pending' # None \/ active' # None => pending # None \/ active # None
    BY <1>6, InventoryAssumption DEF Fail, RowInv
  <2>7. \A v \in Workers : v # w => (active' = v => active = v)
    BY <2>6, InventoryAssumption
  <2>8. UNCHANGED <<activeInputs, pendingSequence, activeSequence, publishedSequence, keys, out>>
    BY <1>6 DEF Fail
  <2>9. RowInv'
    <3>1. \A v \in Workers : pc'[v] \in Running /\ active' = v =>
            /\ activeInputs = claim'[v].roots
            /\ activeLive' => pins'[v] = claim'[v].roots
      BY <1>2, <2>3, <2>6, <2>7 DEF RowInv
    <3>2. /\ active' \in Workers \cup {None} /\ activeLive' \in BOOLEAN
          /\ pendingSequence \in Nat /\ publishedSequence \in 0..pendingSequence
          /\ activeSequence \in 0..pendingSequence
          /\ keys \subseteq (1..pendingSequence) \X Items
          /\ pending' # None \/ active' # None => pendingSequence > 0
          /\ status' \in {"idle", "running", "catching_up", "failed"}
          /\ out \in [current : BOOLEAN, revision : Nat, inputs : Vector, records : {out.records}]
      BY <2>6 DEF RowInv
    <3> QED BY ONLY <1>2, <1>4, <2>3, <2>8, <3>1, <3>2 DEF RowInv
  <2> QED BY <2>5, <2>9
<1>7. CASE Crash(w)
  <2>1. UNCHANGED <<rowVars, keys, pins, out>>
    BY <1>7 DEF Crash
  <2>2. VectorsStand
    BY <1>2, <1>4, <2>1 DEF VectorsStand
  <2>3. RowInv'
    BY <1>2, <1>4, <2>1 DEF RowInv
  <2> QED BY <2>2, <2>3
<1> QED BY <1>5, <1>6, <1>7

LEMMA TimeKeepsRow ==
  ASSUME VectorInv, RowInv, LapseLease \/ CollectKeys \/ \E w \in Workers : PassDeadline(w)
  PROVE  VectorsStand /\ RowInv'
<1>1. CASE LapseLease \/ CollectKeys
  <2>1. VectorsStand
    BY <1>1 DEF LapseLease, CollectKeys, VectorsStand, VectorInv
  <2>0. activeLive \in BOOLEAN /\ keys \subseteq (1..pendingSequence) \X Items
    BY DEF RowInv
  <2>2. /\ activeLive' \in BOOLEAN /\ (activeLive' => activeLive) /\ keys' \subseteq keys
        /\ UNCHANGED <<pending, pendingSequence, active, activeInputs, activeSequence, published,
                       publishedSequence, status, pins, out, localVars>>
    <3>1. CASE LapseLease
      BY <2>0, <3>1 DEF LapseLease
    <3>2. CASE CollectKeys
      BY <2>0, <3>2 DEF CollectKeys
    <3> QED BY <1>1, <3>1, <3>2
  <2>4. keys' \subseteq (1..pendingSequence) \X Items
    BY <2>0, <2>2
  <2>3. RowInv'
    BY <2>2, <2>4 DEF RowInv
  <2> QED BY <2>1, <2>3
<1>2. ASSUME NEW w \in Workers, PassDeadline(w) PROVE VectorsStand /\ RowInv'
  <2>1. /\ \A v \in Workers : pins'[v] = IF v = w THEN None ELSE pins[v]
        /\ pins' = [v \in Workers |-> pins'[v]]
    BY <1>2 DEF PassDeadline, RowInv
  <2>2. activeLive' = (activeLive /\ active # w)
    BY <1>2 DEF PassDeadline
  <2>3. VectorsStand
    BY <1>2, <2>1 DEF PassDeadline, VectorsStand, VectorInv
  <2>4. UNCHANGED <<pending, pendingSequence, active, activeInputs, activeSequence, publishedSequence,
                    status, keys, out, localVars>>
    BY <1>2 DEF PassDeadline
  <2>5. RowInv'
    BY <2>1, <2>2, <2>4 DEF RowInv
  <2> QED BY <2>3, <2>5
<1> QED BY <1>1, <1>2

LEMMA RowKept ==
  ASSUME SourceInv, Grows, VectorInv, RowInv, Next
  PROVE  VectorInv' /\ RowInv'
<1>1. CASE \E w \in Workers : Request(w)
  BY <1>1, RequestKeepsRow
<1>2. CASE \E w \in Workers : Claim(w)
  BY <1>2, ClaimKeepsRow
<1>3. CASE \/ SourceStep \/ ControlStep \/ Collect \/ LapseLease
           \/ \E kept \in SUBSET controls : Clear(kept)
           \/ \E w \in Workers : \/ ReadRoots(w) \/ RequestRefused(w) \/ NothingClaimed(w)
                                 \/ Begin(w) \/ Seed(w) \/ Publish(w)
                                 \/ Fail(w) \/ Crash(w) \/ PassDeadline(w)
  <2>1. VectorsStand /\ RowInv'
    BY <1>3, SourceStepsLeaveRow, StandingRow, ClearKeepsRow, StartKeepsRow, DeriveKeepsRow, EndKeepsRow,
       TimeKeepsRow DEF Collect
  <2> QED BY <2>1, StandingVectors
<1> QED BY <1>1, <1>2, <1>3 DEF Next, PassStep

-----------------------------------------------------------------------------
(* The memberships that are read later on *)

(* Kept, of the next state.                                                  *)
StillKept(s, r) ==
  /\ r >= collectedBefore'[s][history'[s][r].baseline]
  /\ <<s, history'[s][r].baseline>> \notin emptied'

(* No step of the sources takes a membership of a revision that exists.      *)
LEMMA KeptStays ==
  ASSUME Grows, UNCHANGED gcVars, NEW s \in Sources, NEW r \in 1..Revision(s), Kept(s, r)
  PROVE  StillKept(s, r)
<1>1. history'[s][r].baseline = Baseline(s, r)
  BY DEF Grows, Baseline
<1> QED BY <1>1 DEF Kept, StillKept

(* The collection of a root takes none of a revision that is needed.         *)
LEMMA CollectionKeepsNeeded ==
  ASSUME SourceInv, CollectionInv, NEW s \in Sources, NEW b \in Revisions, CollectRoot(s, b),
         NEW t \in Sources, NEW r \in 1..Revision(t), Kept(t, r),
         r \in Needed(t, Baseline(t, r))
  PROVE  StillKept(t, r)
<1>1. \E q \in 1..Revision(s) : Baseline(s, q) = b
  BY DEF CollectRoot
<1>2. Floor(s, b) \in 1..Revision(s) /\ \A q \in Needed(s, b) : Floor(s, b) <= q
  BY <1>1, FloorIsLeast
<1>3. /\ collectedBefore' = [collectedBefore EXCEPT ![s][b] =
              IF Floor(s, b) > collectedBefore[s][b] THEN Floor(s, b) ELSE collectedBefore[s][b]]
      /\ emptied' = emptied \/ (emptied' = emptied \cup {<<s, b>>} /\ Needed(s, b) = {})
      /\ history' = history
  BY DEF CollectRoot
<1>4. history'[t][r].baseline = Baseline(t, r)
  BY <1>3 DEF Baseline
<1>5. Baseline(t, r) \in Revisions
  <2>1. /\ Baseline(t, r) \in 1..r /\ Revision(t) \in Nat /\ Revision(t) <= MaxRevision[t] + faults
        /\ faults \in 0..MaxFaults
    BY DEF SourceInv, Revision
  <2>2. MaxRevision[t] \in Nat /\ MaxFaults \in Nat
    BY InventoryAssumption
  <2>3. Baseline(t, r) \in Nat /\ 0 < Baseline(t, r) /\ Baseline(t, r) <= MaxRevision[t] + MaxFaults
    BY <2>1, <2>2
  <2> QED BY <2>3, RevisionsBounded
<1>6. CASE t = s /\ Baseline(t, r) = b
  <2>1. r \in Needed(s, b) /\ r >= collectedBefore[s][b] /\ Floor(s, b) <= r
    BY <1>2, <1>6 DEF Kept
  <2>2. r >= collectedBefore'[s][b]
    BY <1>3, <2>1 DEF CollectionInv
  <2>3. emptied' = emptied
    BY <1>3, <2>1
  <2> QED BY <1>4, <1>6, <2>2, <2>3 DEF Kept, StillKept
<1>7. CASE ~(t = s /\ Baseline(t, r) = b)
  <2>1. collectedBefore'[t][Baseline(t, r)] = collectedBefore[t][Baseline(t, r)]
    BY <1>3, <1>5, <1>7 DEF CollectionInv
  <2>2. <<t, Baseline(t, r)>> \notin emptied'
    BY <1>3, <1>7 DEF Kept
  <2> QED BY <1>4, <2>1, <2>2 DEF Kept, StillKept
<1> QED BY <1>6, <1>7

(* What a claim captures is there when it captures it.                       *)
LEMMA RootsAreKept ==
  ASSUME SourceInv, CollectionInv, NEW s \in Sources, Readable(s)
  PROVE  Kept(s, Revision(s))
<1>1. /\ Revision(s) \in 1..Revision(s) /\ current[s] /\ Revision(s) <= MaxRevision[s] + faults
      /\ faults \in 0..MaxFaults
  BY DEF Readable, SourceInv, Revision
<1>2. Baseline(s, Revision(s)) \in 1..Revision(s)
  BY <1>1 DEF SourceInv
<1>3. Baseline(s, Revision(s)) \in Revisions
  <2>1. MaxRevision[s] \in Nat /\ MaxFaults \in Nat /\ Revision(s) \in Nat
    BY InventoryAssumption DEF SourceInv, Revision
  <2>2. /\ Baseline(s, Revision(s)) \in Nat /\ 0 < Baseline(s, Revision(s))
        /\ Baseline(s, Revision(s)) <= MaxRevision[s] + MaxFaults
    BY <1>1, <1>2, <2>1
  <2> QED BY <2>2, RevisionsBounded
<1> QED BY <1>1, <1>3 DEF Kept, CollectionInv

(* A live claim comes from one that was live, or from Claim.                 *)
LEMMA LiveClaims ==
  ASSUME RowInv, Next, NEW w \in Workers, pc'[w] \in Running, Holds(w)'
  PROVE  \/ pc[w] \in Running /\ Holds(w) /\ claim'[w].roots = claim[w].roots
         \/ Claim(w) /\ claim'[w].roots = Recaptured
<1>0. \A v \in Workers : v # None /\ claim[v] \in ClaimRow
  BY InventoryAssumption DEF RowInv
<1>1. CASE RowStands
  BY <1>1 DEF RowStands, Holds
<1>2. ASSUME NEW v \in Workers, Claim(v)
      PROVE  Claim(w) /\ claim'[w].roots = Recaptured
  <2>1. active' = v /\ claim' = [claim EXCEPT ![v] = [NoClaim EXCEPT
                                   !.roots = Recaptured,
                                   !.sequence = IF pending = None /\ active = None THEN pendingSequence + 1
                                                ELSE pendingSequence,
                                   !.after = publishedSequence, !.broad = NeedsBroad(Recaptured)]]
    BY <1>2 DEF Claim
  <2>2. w = v
    BY <2>1 DEF Holds
  <2> QED BY <1>2, <2>1, <2>2, NoRoots DEF RowInv, ClaimRow
<1>3. ASSUME NEW v \in Workers, ReadRoots(v) \/ Request(v) \/ RequestRefused(v) \/ NothingClaimed(v)
      PROVE  pc[w] \in Running /\ Holds(w) /\ claim'[w].roots = claim[w].roots
  <2>1. /\ \E label \in {"idle", "read", "requested"} : pc' = [pc EXCEPT ![v] = label]
        /\ UNCHANGED <<active, activeLive, claim>>
    BY <1>3 DEF ReadRoots, Request, RequestRefused, NothingClaimed, Moves
  <2> QED BY <2>1 DEF RowInv, Running, Holds
<1>4. ASSUME NEW v \in Workers, Begin(v) \/ Seed(v)
      PROVE  pc[w] \in Running /\ Holds(w) /\ claim'[w].roots = claim[w].roots
  <2>1. /\ pc[v] \in Running /\ \E label \in Running : pc' = [pc EXCEPT ![v] = label]
        /\ UNCHANGED <<active, activeLive>>
    BY <1>4 DEF Begin, Seed, Moves, Running
  <2>2. claim' = claim \/ claim' = [claim EXCEPT ![v] = [claim[v] EXCEPT !.base = out.revision, !.rooted = out.current]]
    BY <1>4 DEF Begin, Seed
  <2>3. claim'[w].roots = claim[w].roots
    <3>1. [claim[v] EXCEPT !.base = out.revision, !.rooted = out.current].roots = claim[v].roots
      BY <1>0 DEF ClaimRow
    <3> QED BY <2>2, <3>1 DEF RowInv
  <2> QED BY <2>1, <2>3 DEF RowInv, Holds
<1>5. ASSUME NEW v \in Workers, Publish(v) \/ Fail(v) \/ Crash(v)
      PROVE  pc[w] \in Running /\ Holds(w) /\ claim'[w].roots = claim[w].roots
  <2>1. Ended(v)
    BY <1>5 DEF Publish, Fail, Crash, Moves, Ended
  <2>2. pc[w] \in Running /\ claim'[w] = claim[w]
    BY <2>1, EndedLocals
  <2>3. (active' = None /\ ~activeLive') \/ UNCHANGED <<active, activeLive>>
    BY <1>5 DEF Publish, Fail, Crash
  <2>4. Holds(w)
    BY <1>0, <2>3 DEF Holds
  <2> QED BY <2>2, <2>4
<1>6. ASSUME LapseLease \/ CollectKeys \/ \E v \in Workers : PassDeadline(v)
      PROVE  pc[w] \in Running /\ Holds(w) /\ claim'[w].roots = claim[w].roots
  <2>1. pc' = pc /\ claim' = claim /\ active' = active /\ (activeLive' => activeLive)
    <3>1. CASE LapseLease
      BY <3>1 DEF LapseLease
    <3>2. CASE CollectKeys
      BY <3>2 DEF CollectKeys
    <3>3. ASSUME NEW v \in Workers, PassDeadline(v)
          PROVE  pc' = pc /\ claim' = claim /\ active' = active /\ (activeLive' => activeLive)
      <4>1. pc' = pc /\ claim' = claim /\ active' = active
        BY <3>3 DEF PassDeadline
      <4>2. activeLive' = (activeLive /\ active # v)
        BY <3>3 DEF PassDeadline
      <4> QED BY <4>1, <4>2
    <3> QED BY <1>6, <3>1, <3>2, <3>3
  <2> QED BY <2>1 DEF Holds
<1>7. ASSUME NEW kept \in SUBSET controls, Clear(kept)
      PROVE  FALSE
  BY <1>0, <1>7 DEF Clear, Holds
<1>8. SourceStep \/ ControlStep \/ (\E s \in Sources : CollectChanges(s) \/ \E b \in Revisions : CollectRoot(s, b))
        => RowStands
  BY SourceStepsLeaveRow
<1> QED BY <1>1, <1>2, <1>3, <1>4, <1>5, <1>6, <1>7, <1>8 DEF Next, PassStep, Collect

LEMMA KeptNext ==
  ASSUME SourceInv, CollectionInv, Grows, Next,
         NEW s \in Sources, NEW r \in 1..Revision(s), Kept(s, r),
         r \in Needed(s, Baseline(s, r)) \/ UNCHANGED gcVars
  PROVE  StillKept(s, r)
<1>1. CASE UNCHANGED gcVars
  BY <1>1, KeptStays
<1>2. CASE \E t \in Sources, b \in Revisions : CollectRoot(t, b)
  <2>1. CASE r \in Needed(s, Baseline(s, r))
    BY <1>2, <2>1, CollectionKeepsNeeded
  <2> QED BY <1>1, <2>1
<1>3. CASE \E t \in Sources : SourcePublishes(t)
  <2>1. UNCHANGED gcVars
    BY <1>3, PublicationCases DEF Publishes
  <2> QED BY <2>1, <1>1
<1> QED BY <1>1, <1>2, <1>3, StepKinds

LEMMA LiveInputsStay ==
  ASSUME SourceInv, CollectionInv, VectorInv, RowInv, LiveInputsKept, Grows, Next
  PROVE  LiveInputsKept'
<1> SUFFICES ASSUME NEW w \in Workers, pc'[w] \in Running, Holds(w)',
                    NEW s \in DOMAIN claim'[w].roots
             PROVE  StillKept(s, claim'[w].roots[s].revision)
  BY DEF LiveInputsKept, Kept, Baseline, StillKept
<1>1. CASE pc[w] \in Running /\ Holds(w) /\ claim'[w].roots = claim[w].roots
  <2> DEFINE r == claim[w].roots[s].revision
  <2>1. s \in Sources /\ r \in 1..Revision(s) /\ claim[w].roots \in Vector
    BY <1>1 DEF VectorInv, Captured, Vector
  <2>2. Kept(s, r)
    BY <1>1 DEF LiveInputsKept
  <2>3. pins[w] = claim[w].roots /\ pins[w] # None
    BY <1>1, <2>1, NullAssumption DEF RowInv, Holds
  <2>4. r \in Pinned(s, Baseline(s, r))
    BY <1>1, <2>1, <2>3 DEF Pinned, NamedBy
  <2>5. r \in Needed(s, Baseline(s, r))
    BY <2>4 DEF Needed
  <2> HIDE DEF r
  <2>6. StillKept(s, r)
    BY <2>1, <2>2, <2>5, KeptNext
  <2> QED BY <1>1, <2>6 DEF r
<1>2. CASE Claim(w) /\ claim'[w].roots = Recaptured
  <2>1. Latest # None /\ \A t \in DOMAIN Latest : Readable(t)
    BY <1>2 DEF Claim, Claimable
  <2>2. DOMAIN Latest \subseteq Sources
    BY <2>1 DEF VectorInv, Latest, Captured, Vector
  <2>3. s \in Sources /\ Readable(s) /\ claim'[w].roots[s].revision = Revision(s)
    BY <1>2, <2>1, <2>2 DEF Recaptured, Root
  <2> DEFINE r == Revision(s)
  <2>4. Kept(s, r) /\ r \in 1..Revision(s)
    BY <2>3, RootsAreKept DEF Readable, SourceInv, Revision
  <2>5. UNCHANGED gcVars
    BY <1>2 DEF Claim
  <2> HIDE DEF r
  <2>6. StillKept(s, r)
    BY <2>3, <2>4, <2>5, KeptStays
  <2> QED BY <2>3, <2>6 DEF r
<1> QED BY <1>1, <1>2, LiveClaims

(* The published inventory stays what it is until a claim replaces it.       *)
LEMMA ShownSteps ==
  ASSUME RowInv, Next, out'.current
  PROVE  out' = out \/ \E w \in Workers : Publish(w)
<1>1. ASSUME NEW kept \in SUBSET controls, Clear(kept) PROVE FALSE
  <2>1. out \in [current : BOOLEAN, revision : Nat, inputs : Vector, records : {out.records}]
    BY DEF RowInv
  <2> DEFINE next == IF out.current THEN out.revision + 1 ELSE out.revision
  <2>2. out' = [out EXCEPT !.current = FALSE, !.revision = next]
    BY <1>1 DEF Clear
  <2> HIDE DEF next
  <2>3. ~out'.current
    BY <2>1, <2>2
  <2> QED BY <2>3
<1>2. ASSUME NEW w \in Workers, PassStep(w), ~Publish(w) PROVE out' = out
  BY <1>2 DEF PassStep, ReadRoots, Request, RequestRefused, Claim, NothingClaimed, Begin, Seed
<1>3. ASSUME NEW w \in Workers, Fail(w) \/ Crash(w) \/ PassDeadline(w) PROVE out' = out
  BY <1>3 DEF Fail, Crash, PassDeadline
<1>4. ASSUME LapseLease \/ CollectKeys PROVE out' = out
  BY <1>4 DEF LapseLease, CollectKeys
<1>5. ASSUME RowStands PROVE out' = out
  BY <1>5 DEF RowStands
<1> QED BY <1>1, <1>2, <1>3, <1>4, <1>5, SourceStepsLeaveRow DEF Next, Collect

LEMMA PublishedInputs ==
  ASSUME RowInv, NEW w \in Workers, Publish(w)
  PROVE  /\ pc[w] \in Running /\ Holds(w)
         /\ out'.inputs = claim[w].roots /\ out'.current
         /\ \A s \in DOMAIN claim[w].roots : epoch[s] = claim[w].roots[s].epoch
         /\ UNCHANGED <<sourceVars, gcVars>>
<1>1. pc[w] \in Running /\ active = w
  BY DEF Publish, Moves, ValidInputs, Holds, Running
<1>2. activeInputs = claim[w].roots
  BY <1>1 DEF RowInv
<1> QED BY <1>1, <1>2 DEF Publish, ValidInputs, Holds

LEMMA ShownInputsStay ==
  ASSUME SourceInv, CollectionInv, VectorInv, RowInv, LiveInputsKept, ShownInputsKept, Grows, Next
  PROVE  ShownInputsKept'
<1> SUFFICES ASSUME out'.current, NEW s \in DOMAIN out'.inputs, out'.inputs[s].epoch = epoch'[s]
             PROVE  StillKept(s, out'.inputs[s].revision)
  BY DEF ShownInputsKept, Kept, Baseline, StillKept
<1>1. CASE out' = out
  <2> DEFINE r == out.inputs[s].revision
  <2>1. /\ s \in Sources /\ r \in 1..Revision(s) /\ out.inputs[s].epoch <= epoch[s]
        /\ out.inputs[s] \in [revision : Revisions, epoch : 0..MaxFaults]
    BY <1>1 DEF VectorInv, Captured, Vector
  <2>2. out.inputs[s].epoch = epoch[s]
    <3>1. epoch[s] <= epoch'[s] /\ epoch[s] \in Nat /\ epoch'[s] \in Nat
      BY <2>1 DEF Grows
    <3> QED BY <1>1, <2>1, <3>1
  <2>3. Kept(s, r)
    BY <1>1, <2>2 DEF ShownInputsKept
  <2>4. out.inputs[s] = [revision |-> r, epoch |-> epoch[s]]
    BY <2>1, <2>2
  <2>5. r \in Needed(s, Baseline(s, r))
    BY <1>1, <2>1, <2>4 DEF Needed, Retained
  <2> HIDE DEF r
  <2>6. StillKept(s, r)
    BY <2>1, <2>3, <2>5, KeptNext
  <2> QED BY <1>1, <2>6 DEF r
<1>2. ASSUME NEW w \in Workers, Publish(w) PROVE StillKept(s, out'.inputs[s].revision)
  <2> DEFINE r == claim[w].roots[s].revision
  <2>1. pc[w] \in Running /\ Holds(w) /\ out'.inputs = claim[w].roots /\ UNCHANGED gcVars
    BY <1>2, PublishedInputs
  <2>2. s \in Sources /\ r \in 1..Revision(s)
    BY <2>1 DEF VectorInv, Captured, Vector
  <2>3. Kept(s, r)
    BY <2>1 DEF LiveInputsKept
  <2> HIDE DEF r
  <2>4. StillKept(s, r)
    BY <2>1, <2>2, <2>3, KeptStays
  <2> QED BY <2>1, <2>4 DEF r
<1> QED BY <1>1, <1>2, ShownSteps

-----------------------------------------------------------------------------
(* The theorems *)

LEMMA InitInv ==
  Init => IInv
<1> SUFFICES ASSUME Init PROVE IInv
  OBVIOUS
<1> DEFINE first(s) == [baseline |-> 1, content |-> [i \in ItemsOf(s) |-> Start[i]]]
<1>0. /\ \A s \in Sources : MaxRevision[s] \in Nat /\ MaxRevision[s] > 0
      /\ MaxFaults \in Nat /\ faults = 0
  BY InventoryAssumption DEF Init
<1>1. \A s \in Sources : /\ first(s) \in Row /\ first(s).baseline = 1
                         /\ first(s).content \in [ItemsOf(s) -> Values \cup {Absent}]
  BY InventoryAssumption DEF Row, ItemsOf
<1>2. history = [s \in Sources |-> IF s \in Late THEN <<>> ELSE <<first(s)>>]
  BY DEF Init
<1> HIDE DEF first
<1>3. \A s \in Sources : /\ history[s] \in Seq(Row)
                         /\ Revision(s) = IF s \in Late THEN 0 ELSE 1
                         /\ s \notin Late => history[s][1] = first(s)
  BY <1>1, <1>2 DEF Revision
<1>4. \A s \in Sources : \A r \in 1..Revision(s) :
        /\ Baseline(s, r) \in 1..r
        /\ history[s][r].content \in [ItemsOf(s) -> Values \cup {Absent}]
  <2> TAKE s \in Sources
  <2> TAKE r \in 1..Revision(s)
  <2>1. s \notin Late /\ r = 1
    BY <1>3
  <2> QED BY <1>1, <1>3, <2>1 DEF Baseline
<1>5. SourceInv
  <2>1. history \in [Sources -> Seq(Row)]
    BY <1>2, <1>3
  <2>2. /\ current = [s \in Sources |-> s \notin Late] /\ epoch = [s \in Sources |-> 0]
        /\ rootEpoch = [s \in Sources |-> 0] /\ changes = {} /\ controls = {}
    BY DEF Init
  <2>3. \A s \in Sources : current[s] => Revision(s) > 0
    <3>1. \A s \in Sources : current[s] <=> s \notin Late
      BY <2>2
    <3> QED BY <1>3, <3>1
  <2>4. \A s \in Sources : Revision(s) <= MaxRevision[s] + faults
    BY <1>0, <1>3
  <2> QED BY ONLY <1>0, <1>4, <2>1, <2>2, <2>3, <2>4 DEF SourceInv
<1>6. CollectionInv
  <2>1. collectedBefore = [s \in Sources |-> [b \in Revisions |-> 0]] /\ emptied = {}
    BY DEF Init
  <2>2. \A s \in Sources : Revision(s) >= 0
    BY <1>3
  <2> QED BY ONLY <2>1, <2>2 DEF CollectionInv
<1>7. VectorInv
  <2>1. \A w \in Workers : claim[w].roots = <<>> /\ seen[w] = <<>>
    BY NoRoots DEF Init
  <2> QED BY <2>1, NoRoots, NothingIsCaptured DEF Init, VectorInv
<1>8. RowInv
  <2>1. out \in [current : BOOLEAN, revision : Nat, inputs : Vector, records : {out.records}]
    BY NothingIsCaptured DEF Init, Captured
  <2>2. /\ pc \in [Workers -> {"idle", "read", "requested"} \cup Running]
        /\ DOMAIN seen = Workers /\ claim \in [Workers -> ClaimRow]
        /\ frontier \in [Workers -> SUBSET Items] /\ pins = [v \in Workers |-> pins[v]]
    BY NoRoots DEF Init
  <2>3. \A w \in Workers : active # w
    BY InventoryAssumption DEF Init
  <2>4. /\ pending = None /\ pendingSequence = 0 /\ active = None /\ activeSequence = 0
        /\ activeLive = FALSE /\ publishedSequence = 0 /\ status = "idle" /\ keys = {}
    BY DEF Init
  <2>5. /\ active \in Workers \cup {None} /\ activeLive \in BOOLEAN
        /\ pending # None \/ active # None => pendingSequence > 0
        /\ status \in {"idle", "running", "catching_up", "failed"}
        /\ keys \subseteq (1..pendingSequence) \X Items
    BY ONLY <2>4
  <2>6. /\ pendingSequence \in Nat /\ publishedSequence \in 0..pendingSequence
        /\ activeSequence \in 0..pendingSequence
    BY ONLY <2>4
  <2> QED BY ONLY <2>1, <2>2, <2>3, <2>5, <2>6 DEF RowInv
<1>9. InputsKept
  <2>1. \A w \in Workers : pc[w] \notin Running
    BY DEF Init, Running
  <2>2. ~out.current
    BY DEF Init
  <2> QED BY <2>1, <2>2 DEF InputsKept, LiveInputsKept, ShownInputsKept
<1> QED BY <1>5, <1>6, <1>7, <1>8, <1>9 DEF IInv

LEMMA NextInv ==
  IInv /\ [Next]_vars => IInv'
<1> SUFFICES ASSUME IInv, [Next]_vars PROVE IInv'
  OBVIOUS
<1>1. CASE Next
  <2>1. SourceInv'
    BY <1>1, SourcesKept DEF IInv
  <2>2. CollectionInv'
    BY <1>1, <2>1, CollectionKept DEF IInv
  <2>3. Grows
    BY <1>1, <2>1, SourcesGrow DEF IInv
  <2>4. VectorInv' /\ RowInv'
    BY <1>1, <2>3, RowKept DEF IInv
  <2>5. LiveInputsKept' /\ ShownInputsKept'
    BY <1>1, <2>3, LiveInputsStay, ShownInputsStay DEF IInv, InputsKept
  <2> QED BY <2>1, <2>2, <2>4, <2>5 DEF IInv, InputsKept
<1>2. CASE UNCHANGED vars
  <2>1. /\ UNCHANGED <<sourceVars, gcVars>> /\ faults' = faults
        /\ UNCHANGED <<pending, pendingSequence, active, activeInputs, activeSequence, activeLive, published,
                       publishedSequence, status, keys, pins, out, pc, seen, claim, frontier>>
    BY <1>2 DEF vars
  <2>2. SourceInv' /\ CollectionInv'
    BY <2>1 DEF IInv, SourceInv, CollectionInv, Revision, Baseline
  <2>3. VectorInv'
    BY <2>1 DEF IInv, VectorInv, Captured, Revision
  <2>4. RowInv'
    BY <2>1 DEF IInv, RowInv
  <2>5. InputsKept'
    BY <2>1 DEF IInv, InputsKept, LiveInputsKept, ShownInputsKept, Kept, Holds, Baseline
  <2> QED BY <2>2, <2>3, <2>4, <2>5 DEF IInv
<1> QED BY <1>1, <1>2

(* Every reachable state satisfies the inductive invariant.                  *)
THEOREM Inductive ==
  Spec => []IInv
BY InitInv, NextInv, PTL DEF Spec

LEMMA InvImpliesTypes ==
  IInv => InventoryTypeOK
<1> SUFFICES ASSUME IInv PROVE InventoryTypeOK
  OBVIOUS
<1>1. SourceInv /\ CollectionInv /\ VectorInv /\ RowInv
  BY DEF IInv
<1>2. \A s \in Sources : /\ Revision(s) \in {0} \cup Revisions
                         /\ epoch[s] \in 0..MaxFaults /\ rootEpoch[s] \in 0..MaxFaults
  <2> TAKE s \in Sources
  <2>1. /\ Revision(s) \in Nat /\ Revision(s) <= MaxRevision[s] + faults
        /\ epoch[s] \in Nat /\ rootEpoch[s] \in Nat /\ rootEpoch[s] <= epoch[s] /\ epoch[s] <= faults
        /\ faults \in 0..MaxFaults
    BY <1>1 DEF SourceInv, Revision
  <2>2. MaxRevision[s] \in Nat /\ MaxFaults \in Nat
    BY InventoryAssumption
  <2>3. Revision(s) <= MaxRevision[s] + MaxFaults
    BY <2>1, <2>2
  <2> QED BY <2>1, <2>2, <2>3, RevisionsBounded
<1>3. {rootEpoch, epoch} \subseteq [Sources -> 0..MaxFaults]
  BY <1>1, <1>2 DEF SourceInv
<1>4. {pending, activeInputs, published} \subseteq Vector \cup {None} /\ pins \in [Workers -> Vector \cup {None}]
  BY <1>1 DEF VectorInv, Captured, RowInv
<1>5. out.current \in BOOLEAN /\ out.revision \in Nat /\ out.inputs \in Vector /\ publishedSequence <= pendingSequence
  BY <1>1 DEF RowInv
<1> QED BY <1>1, <1>2, <1>3, <1>4, <1>5 DEF InventoryTypeOK, SourceInv, CollectionInv, RowInv

(* The rows of the runtime, the roots and what was collected of them, and    *)
(* the locals of every pass have their types, whatever the passes do.        *)
THEOREM InventoryTypes ==
  Spec => []InventoryTypeOK
BY Inductive, InvImpliesTypes, PTL

(* Collection takes no membership that a live claim has captured, nor one    *)
(* that the published inventory shows: the pins of a job and the inputs of   *)
(* the head hold the floor of every root down (gcSlice, retainedInputs).     *)
THEOREM CollectionKeepsInputs ==
  Spec => []InputsKept
<1>1. IInv => InputsKept
  BY DEF IInv
<1> QED BY <1>1, Inductive, PTL

(* What a pass publishes is of the epochs of that moment: no control that    *)
(* was saved and no clear is undone (validateInputs in the publication).     *)
THEOREM PublishesUnfenced ==
  Spec => FencedIsNotPublished
<1>1. ASSUME IInv, [Next]_vars, out'.current, out'.revision # out.revision,
             NEW s \in DOMAIN out'.inputs
      PROVE  out'.inputs[s].epoch = epoch[s]
  <2>1. Next
    BY <1>1 DEF vars
  <2>2. PICK w \in Workers : Publish(w)
    BY <1>1, <2>1, ShownSteps DEF IInv
  <2> QED BY <1>1, <2>2, PublishedInputs DEF IInv
<1>2. IInv /\ [Next]_vars =>
        [out'.current /\ out'.revision # out.revision =>
           \A s \in DOMAIN out'.inputs : out'.inputs[s].epoch = epoch[s]]_vars
  BY <1>1
<1> QED BY <1>2, Inductive, PTL DEF Spec, FencedIsNotPublished
=============================================================================
