----------------------- MODULE InventoryReconciliation -----------------------
(***************************************************************************)
(* The canonical inventory of a tenant, derived from its package and Power *)
(* Platform inventories (services/inventoryReconciliation.ts, driven by    *)
(* services/inventoryRuntime.ts, over db/inventoryGenerations.ts).  A pass *)
(* records the source roots it saw, claims the pending work, derives what  *)
(* changed since the last publication and publishes it, while the sources  *)
(* move on, controls fence them, data is cleared, workers lose their lease *)
(* or die, and old revisions and change keys are collected.                *)
(***************************************************************************)
EXTENDS Naturals, Sequences, FiniteSets

CONSTANTS
  Sources, Native,    \* scopes of inventory_packages and (native) inventory_power_platform
  Items, SourceOf,    \* identities and the scope each belongs to
  Values, Absent,     \* what a record holds, and an identity without a record
  Match,              \* the match:* facts of a value
  Linkings,           \* what resolution may make of rows that match: whom each is linked to
  Start, Late,        \* first contents; scopes with no root yet
  Changes,            \* the <<item, value>> pairs a source publication may bring
  Workers,            \* passes of the runtime; a pass names the job it claims
  None,               \* SQL NULL
  MaxRevision,        \* bound on the refreshes of each source; control readbacks come on top
  Disruptions, MaxFaults

ASSUME InventoryAssumption ==
  /\ Native \subseteq Sources
  /\ IsFiniteSet(Items) /\ SourceOf \in [Items -> Sources]
  /\ Absent \notin Values
  /\ Match \in [Values -> SUBSET Nat]
  /\ Linkings \subseteq [Items -> Items] /\ Linkings # {}
  /\ Start \in [Items -> Values \cup {Absent}]
  /\ Late \subseteq Sources
  /\ Changes \subseteq Items \X (Values \cup {Absent})
  /\ None \notin Workers
  /\ MaxRevision \in [Sources -> Nat \ {0}] /\ MaxFaults \in Nat

VARIABLES
  \* sources: inventory_roots and memberships by revision, data_scope_epochs,
  \* inventory_changes, and how far memberships have been collected
  history, current, rootEpoch, epoch, changes, collectedBefore, emptied,
  controls,           \* scopes with a row of inventory_(native_)control_pending
  \* the row of inventory_reconciliation and inventory_reconciliation_keys
  pending, pendingSequence, active, activeInputs, activeSequence, activeLive,
  published, publishedSequence, status, keys,
  pins,               \* inventory_worker_pins that have not expired, by job
  out,                \* the canonical root: current, head revision, inputs, records
  \* locals of a pass: where it is, the roots it read, its claim
  pc, seen, claim, frontier,
  faults

sourceVars == <<history, current, rootEpoch, epoch, changes, controls>>
gcVars     == <<collectedBefore, emptied>>
activeVars == <<active, activeInputs, activeSequence, activeLive>>
rowVars    == <<pending, pendingSequence, activeVars, published, publishedSequence, status>>
localVars  == <<pc, seen, claim, frontier>>
vars == <<sourceVars, gcVars, rowVars, keys, pins, out, localVars, faults>>

Revisions == UNION {1..(MaxRevision[s] + MaxFaults) : s \in Sources}
Running == {"claimed", "working", "derived"}
NoClaim == [roots |-> <<>>, sequence |-> 0, after |-> 0, broad |-> FALSE, base |-> 0, rooted |-> FALSE]

ItemsOf(s) == {i \in Items : SourceOf[i] = s}
\* A root is named by the first revision it holds.
Baseline(s, r) == history[s][r].baseline
Revision(s) == Len(history[s])
Readable(s) == current[s] /\ rootEpoch[s] = epoch[s]
Root(s) == [revision |-> Revision(s), epoch |-> epoch[s]]
Roots == [s \in {t \in Sources : Readable(t)} |-> Root(s)]
\* What the memberships of a captured revision still say.
Kept(s, r) == r >= collectedBefore[s][Baseline(s, r)] /\ <<s, Baseline(s, r)>> \notin emptied

Vector == UNION {[S -> [revision : Revisions, epoch : 0..MaxFaults]] : S \in SUBSET Sources}

ASSUME NullAssumption == None \notin Vector

InventoryTypeOK ==
  /\ \A s \in Sources :
       /\ Revision(s) \in {0} \cup Revisions
       /\ \A r \in 1..Revision(s) :
            /\ Baseline(s, r) \in 1..r
            /\ history[s][r].content \in [ItemsOf(s) -> Values \cup {Absent}]
  /\ current \in [Sources -> BOOLEAN]
  /\ {rootEpoch, epoch} \subseteq [Sources -> 0..MaxFaults]
  /\ changes \subseteq Revisions \X Items
  /\ collectedBefore \in [Sources -> [Revisions -> Nat]]
  /\ \A s \in Sources, b \in Revisions : collectedBefore[s][b] <= Revision(s)
  /\ emptied \subseteq Sources \X Revisions
  /\ controls \subseteq Sources
  /\ {pending, activeInputs, published} \subseteq Vector \cup {None}
  /\ active \in Workers \cup {None}
  /\ activeLive \in BOOLEAN
  /\ publishedSequence <= pendingSequence
  /\ activeSequence \in 0..pendingSequence
  /\ status \in {"idle", "running", "catching_up", "failed"}
  /\ keys \subseteq (1..pendingSequence) \X Items
  /\ pins \in [Workers -> Vector \cup {None}]
  /\ out.current \in BOOLEAN /\ out.revision \in Nat /\ out.inputs \in Vector
  /\ pc \in [Workers -> {"idle", "read", "requested"} \cup Running]
  /\ frontier \in [Workers -> SUBSET Items]
  /\ faults \in 0..MaxFaults

Init ==
  /\ history = [s \in Sources |->
       IF s \in Late THEN <<>>
       ELSE <<[baseline |-> 1, content |-> [i \in ItemsOf(s) |-> Start[i]]]>>]
  /\ current = [s \in Sources |-> s \notin Late]
  /\ rootEpoch = [s \in Sources |-> 0] /\ epoch = [s \in Sources |-> 0]
  /\ changes = {}
  /\ collectedBefore = [s \in Sources |-> [b \in Revisions |-> 0]]
  /\ emptied = {}
  /\ controls = {}
  /\ pending = None /\ pendingSequence = 0
  /\ active = None /\ activeInputs = None /\ activeSequence = 0 /\ activeLive = FALSE
  /\ published = None /\ publishedSequence = 0
  /\ status = "idle"
  /\ keys = {}
  /\ pins = [w \in Workers |-> None]
  /\ out = [current |-> FALSE, revision |-> 0, inputs |-> <<>>, records |-> {}]
  /\ pc = [w \in Workers |-> "idle"]
  /\ seen = [w \in Workers |-> <<>>]
  /\ claim = [w \in Workers |-> NoClaim]
  /\ frontier = [w \in Workers |-> {}]
  /\ faults = 0

Disrupt(kind) ==
  /\ kind \in Disruptions
  /\ faults < MaxFaults
  /\ faults' = faults + 1

Moves(w, from, to) ==
  /\ pc[w] \in from
  /\ pc' = [pc EXCEPT ![w] = to]

-----------------------------------------------------------------------------
(* The sources *)

Content(s) == IF history[s] = <<>> THEN [i \in ItemsOf(s) |-> Start[i]]
              ELSE history[s][Revision(s)].content

ChangesOf(s) == {c \in Changes : SourceOf[c[1]] = s}

Publishes(s, baseline, content) ==
  /\ history' = [history EXCEPT ![s] = Append(@, [baseline |-> baseline, content |-> content])]
  /\ current' = [current EXCEPT ![s] = TRUE]
  /\ rootEpoch' = [rootEpoch EXCEPT ![s] = epoch[s]]
  /\ UNCHANGED <<epoch, gcVars, rowVars, keys, pins, out, localVars, faults>>

(* A catalog refresh: a new root, whatever was known; no change is logged.   *)
PublishBaseline(s, change) ==
  /\ Revision(s) < MaxRevision[s]
  /\ Publishes(s, Revision(s) + 1, [Content(s) EXCEPT ![change[1]] = change[2]])
  /\ UNCHANGED <<changes, controls>>

(* An exact or detail refresh: the same root, and the identity if it changed. *)
Amends(s, change) ==
  /\ Publishes(s, Baseline(s, Revision(s)), [Content(s) EXCEPT ![change[1]] = change[2]])
  /\ changes' = IF change[2] = Content(s)[change[1]] THEN changes
                ELSE changes \cup {<<Revision(s) + 1, change[1]>>}

PublishDelta(s, change) ==
  /\ Revision(s) < MaxRevision[s]
  /\ Readable(s)
  /\ Amends(s, change)
  /\ UNCHANGED controls

(* A saved control observation moves the scope's epoch: what is captured is  *)
(* fenced until the readback has been published.                             *)
FenceControl(s) ==
  /\ Disrupt("control")
  /\ s \in Native => current[s]
  /\ epoch' = [epoch EXCEPT ![s] = @ + 1]
  /\ controls' = controls \cup {s}
  /\ UNCHANGED <<history, current, rootEpoch, changes, gcVars, rowVars, keys, pins, out, localVars>>

(* publishControls: the readback is a delta at the new epoch.                *)
PublishControl(s, change) ==
  /\ s \in controls
  /\ current[s]
  /\ Amends(s, change)
  /\ controls' = controls \ {s}

(* pruneControls: there is no root to read the control back into.            *)
PruneControl(s) ==
  /\ s \in controls
  /\ ~current[s]
  /\ controls' = controls \ {s}
  /\ UNCHANGED <<history, current, rootEpoch, epoch, changes, gcVars, rowVars, keys, pins, out,
                 localVars, faults>>

(* clear_admitted_data_sync_snapshots: of the saved controls, only the native *)
(* ones of the account that clears go.                                       *)
Clear(kept) ==
  /\ Disrupt("clear")
  /\ kept \subseteq controls /\ controls \ Native \subseteq kept
  /\ epoch' = [s \in Sources |-> epoch[s] + 1]
  /\ current' = [s \in Sources |-> FALSE]
  /\ controls' = kept
  /\ out' = [out EXCEPT !.current = FALSE,
                        !.revision = IF out.current THEN @ + 1 ELSE @]
  /\ pending' = None /\ published' = None
  /\ active' = None /\ activeInputs' = None /\ activeSequence' = 0 /\ activeLive' = FALSE
  /\ publishedSequence' = pendingSequence
  /\ status' = "idle"
  /\ UNCHANGED <<history, rootEpoch, changes, gcVars, pendingSequence, keys, pins, localVars>>

-----------------------------------------------------------------------------
(* request *)

Latest == IF pending # None THEN pending ELSE IF active # None THEN activeInputs ELSE published

(* The identities of a source that changed after revision r.                 *)
ChangedSince(s, r) == {i \in ItemsOf(s) : \E c \in changes : c[1] > r /\ c[2] = i}

(* enqueue: the roots are read before the transaction that records them.     *)
ReadRoots(w) ==
  /\ Moves(w, {"idle"}, "read")
  /\ controls = {}
  /\ Roots # <<>>
  /\ seen' = [seen EXCEPT ![w] = [s \in DOMAIN Roots |-> epoch[s]]]
  /\ UNCHANGED <<sourceVars, gcVars, rowVars, keys, pins, out, claim, frontier, faults>>

Acceptable(w) ==
  /\ controls = {}
  /\ \A s \in DOMAIN seen[w] : Readable(s) /\ epoch[s] = seen[w][s]

(* Nothing new: it is being worked on, is waiting, or has been published.    *)
Covered(captured) ==
  /\ Latest = captured
  /\ active # None \/ pending # None \/ out.current

Request(w) ==
  LET captured == [s \in DOMAIN seen[w] |-> Root(s)]
      since(s) == IF Latest # None /\ s \in DOMAIN Latest THEN Latest[s].revision
                  ELSE Baseline(s, Revision(s)) - 1
  IN
  /\ Acceptable(w)
  /\ Moves(w, {"read"}, "requested")
  /\ seen' = [seen EXCEPT ![w] = <<>>]
  /\ IF Covered(captured) THEN UNCHANGED <<pending, pendingSequence, keys>>
     ELSE /\ pending' = captured
          /\ pendingSequence' = pendingSequence + 1
          /\ keys' = keys \cup
               {<<pendingSequence + 1, i>> : i \in UNION {ChangedSince(s, since(s)) : s \in DOMAIN captured}}
  /\ UNCHANGED <<sourceVars, gcVars, activeVars, published, publishedSequence, status, pins, out,
                 claim, frontier, faults>>

(* inventory_input_fenced: a source or a control got in between.             *)
RequestRefused(w) ==
  /\ ~Acceptable(w)
  /\ Moves(w, {"read"}, "idle")
  /\ seen' = [seen EXCEPT ![w] = <<>>]
  /\ UNCHANGED <<sourceVars, gcVars, rowVars, keys, pins, out, claim, frontier, faults>>

-----------------------------------------------------------------------------
(* runNext: the claim *)

Recaptured == [s \in DOMAIN Latest |-> Root(s)]

UpToDate ==
  /\ out.current /\ pending = None /\ active = None /\ published # None
  /\ \A s \in DOMAIN Recaptured : s \in DOMAIN published /\ published[s] = Recaptured[s]

\* Faulty: a claim is its job's until the job ends.
ClaimableWhenFree ==
  /\ controls = {}
  /\ active = None
  /\ Latest # None
  /\ \A s \in DOMAIN Latest : Readable(s)
  /\ ~UpToDate

Claimable ==
  /\ controls = {}
  /\ ~(active # None /\ activeLive)
  /\ Latest # None
  /\ \A s \in DOMAIN Latest : Readable(s)
  /\ ~UpToDate

(* Changed keys are not enough: the sources or their roots are others, or    *)
(* there is no published inventory to amend.                                 *)
NeedsBroad(roots) ==
  \/ ~out.current \/ published = None
  \/ DOMAIN published # DOMAIN roots
  \/ \E s \in DOMAIN roots : Baseline(s, roots[s].revision) # Baseline(s, published[s].revision)

Claim(w) ==
  LET roots == Recaptured
      sequence == IF pending = None /\ active = None THEN pendingSequence + 1 ELSE pendingSequence
      since(s) == IF published # None /\ s \in DOMAIN published THEN published[s].revision ELSE 0
  IN
  /\ Claimable
  /\ Moves(w, {"requested"}, "claimed")
  /\ keys' = keys \cup {<<sequence, i>> : i \in UNION {ChangedSince(s, since(s)) : s \in DOMAIN roots}}
  /\ pins' = [v \in Workers |-> IF v = w THEN roots ELSE IF v = active THEN None ELSE pins[v]]
  /\ pending' = None /\ pendingSequence' = sequence
  /\ active' = w /\ activeInputs' = roots /\ activeSequence' = sequence /\ activeLive' = TRUE
  /\ status' = "running"
  /\ claim' = [claim EXCEPT ![w] = [NoClaim EXCEPT !.roots = roots, !.sequence = sequence,
                                     !.after = publishedSequence, !.broad = NeedsBroad(roots)]]
  /\ UNCHANGED <<sourceVars, gcVars, published, publishedSequence, out, seen, frontier, faults>>

(* Nothing to do, a live claim of another pass, or a fenced input.           *)
NothingClaimed(w) ==
  /\ ~Claimable
  /\ Moves(w, {"requested"}, "idle")
  /\ UNCHANGED <<sourceVars, gcVars, rowVars, keys, pins, out, seen, claim, frontier, faults>>

-----------------------------------------------------------------------------
(* The derivation of a claim, from the sources as of the captured revisions *)

ValuesAt(v) ==
  [i \in Items |-> IF SourceOf[i] \in DOMAIN v
                   THEN history[SourceOf[i]][v[SourceOf[i]].revision].content[i] ELSE Absent]
Rows(values) == {i \in Items : values[i] # Absent}
Neighbours(values, i) ==
  IF values[i] = Absent THEN {}
  ELSE {j \in Rows(values) \ {i} : Match[values[i]] \cap Match[values[j]] # {}}
(* The other members of the records an identity was part of.                 *)
Siblings(old, i) == UNION {r.members : r \in {q \in old : i \in q.members}}

(* The identities that nearby leads to from i, in any number of steps.       *)
Reach(nearby, i) ==
  LET within[n \in Nat] == IF n = 0 THEN {i} ELSE UNION {{k} \cup nearby[k] : k \in within[n - 1]}
  IN  within[Cardinality(Items) - 1]

(* expand *)
Expanded(values, old, i) ==
  Reach([k \in Items |-> Neighbours(values, k) \cup Siblings(old, k)], i)

(* reconcileIsolated: no match facts, and no company before.                 *)
Isolated(values, old, i) ==
  /\ i \in Rows(values)
  /\ Match[values[i]] = {}
  /\ Siblings(old, i) \subseteq {i}

\* Faulty: nobody asks what else the neighbour matches.
SmallSeen(values, old, i) ==
  LET pair == {i} \cup Neighbours(values, i) IN
  /\ i \in Rows(values)
  /\ Cardinality(pair) <= 2
  /\ \A j \in pair : Siblings(old, j) \subseteq pair

(* reconcileSmallComponents: one neighbour at most, which has no other, and  *)
(* neither was in a record with a third.                                     *)
Small(values, old, i) ==
  LET pair == {i} \cup Neighbours(values, i) IN
  /\ i \in Rows(values)
  /\ Cardinality(pair) <= 2
  /\ \A j \in pair : Neighbours(values, j) \subseteq pair /\ Siblings(old, j) \subseteq pair

Component(values, old, i) ==
  IF Isolated(values, old, i) THEN {i}
  ELSE IF Small(values, old, i) THEN {i} \cup Neighbours(values, i)
  ELSE Expanded(values, old, i)

(* publishComponents: the rows that match, in any number of steps, are       *)
(* resolved together, and those that link leaves with the same one make a    *)
(* record; conflicting and ambiguous rows stay alone.  What becomes of a row *)
(* depends on the metadata and the age of all its company, which the record  *)
(* states as evidence, reason and link state.                                *)
Records(values, C, link) ==
  LET nearby == [k \in Items |-> Neighbours(values, k) \cap C] IN
  {[members |-> {j \in Reach(nearby, i) : link[j] = link[i]},
    company |-> [j \in Reach(nearby, i) |-> values[j]]] : i \in C \cap Rows(values)}

Components(values, old, F) == {Component(values, old, i) : i \in F}

(* Every statement of the worker looks at its claim first.                   *)
Holds(w) == active = w /\ activeLive

\* Faulty: as if the epochs compared when the claim was made were enough.
ValidAtClaim(w) ==
  /\ controls = {}
  /\ claim[w].broad \/ out.current
  /\ Holds(w)
  /\ pins[w] # None

(* validateInputs, before the generation begins, on its heartbeat and within *)
(* the publication; active_until moves on.                                   *)
ValidInputs(w) ==
  LET roots == claim[w].roots IN
  /\ controls = {}
  /\ claim[w].broad \/ out.current
  /\ Holds(w)
  /\ pins[w] # None
  /\ \A s \in DOMAIN roots :
       /\ epoch[s] = roots[s].epoch
       /\ collectedBefore[s][Baseline(s, roots[s].revision)] <= roots[s].revision

Begin(w) ==
  /\ ValidInputs(w)
  /\ Moves(w, {"claimed"}, "working")
  /\ claim' = [claim EXCEPT ![w].base = out.revision, ![w].rooted = out.current]
  /\ UNCHANGED <<sourceVars, gcVars, rowVars, keys, pins, out, seen, frontier, faults>>

Seed(w) ==
  LET c == claim[w] IN
  /\ Holds(w)
  /\ Moves(w, {"working"}, "derived")
  /\ frontier' = [frontier EXCEPT ![w] =
       IF c.broad THEN Rows(ValuesAt(c.roots))
       ELSE {i \in Items : \E k \in keys : k[2] = i /\ c.after < k[1] /\ k[1] <= c.sequence}]
  /\ UNCHANGED <<sourceVars, gcVars, rowVars, keys, pins, out, seen, claim, faults>>

(* publishMembership and completeJob, in the publication's transaction.      *)
Publish(w) ==
  LET c == claim[w]
      values == ValuesAt(c.roots)
      old == IF c.rooted THEN out.records ELSE {}
      touched == Components(values, old, frontier[w])
      kept == IF c.broad \/ ~c.rooted THEN {}
              ELSE {r \in old : r.members \cap UNION touched = {}}
  IN
  /\ ValidInputs(w)
  /\ out.revision = c.base
  /\ Moves(w, {"derived"}, "idle")
  /\ \E link \in Linkings :
       out' = [current |-> TRUE, revision |-> out.revision + 1, inputs |-> activeInputs,
               records |-> kept \cup UNION {Records(values, C, link) : C \in touched}]
  /\ published' = activeInputs /\ publishedSequence' = activeSequence
  /\ active' = None /\ activeLive' = FALSE
  /\ status' = IF pending = None THEN "idle" ELSE "catching_up"
  /\ pins' = [pins EXCEPT ![w] = None]
  /\ claim' = [claim EXCEPT ![w] = NoClaim]
  /\ frontier' = [frontier EXCEPT ![w] = {}]
  /\ UNCHANGED <<sourceVars, gcVars, pending, pendingSequence, activeInputs, activeSequence, keys,
                 seen, faults>>

(* What a pass needs to take its next step.                                  *)
Unhindered(w) ==
  \/ pc[w] = "claimed" /\ ValidInputs(w)
  \/ pc[w] = "working" /\ Holds(w)
  \/ pc[w] = "derived" /\ ValidInputs(w) /\ out.revision = claim[w].base

(* The catch of runNext: a claim that is still the pass's is handed back.    *)
Fail(w) ==
  /\ IF Unhindered(w) THEN Disrupt("error") ELSE UNCHANGED faults
  /\ Moves(w, Running, "idle")
  /\ IF active = w
     THEN /\ active' = None /\ activeLive' = FALSE
          /\ status' = "failed"
          /\ pending' = IF pending = None THEN activeInputs ELSE pending
     ELSE UNCHANGED <<active, activeLive, status, pending>>
  /\ pins' = [pins EXCEPT ![w] = None]
  /\ claim' = [claim EXCEPT ![w] = NoClaim]
  /\ frontier' = [frontier EXCEPT ![w] = {}]
  /\ UNCHANGED <<sourceVars, gcVars, pendingSequence, activeInputs, activeSequence, published,
                 publishedSequence, keys, out, seen>>

-----------------------------------------------------------------------------
(* Crashes and time *)

Crash(w) ==
  /\ Disrupt("crash")
  /\ pc[w] # "idle"
  /\ pc' = [pc EXCEPT ![w] = "idle"]
  /\ seen' = [seen EXCEPT ![w] = <<>>]
  /\ claim' = [claim EXCEPT ![w] = NoClaim]
  /\ frontier' = [frontier EXCEPT ![w] = {}]
  /\ UNCHANGED <<sourceVars, gcVars, rowVars, keys, pins, out>>

(* active_until passes: nobody renews it, or the process was held up.        *)
LapseLease ==
  /\ active # None /\ activeLive
  /\ IF pc[active] \in Running THEN Disrupt("lapse") ELSE UNCHANGED faults
  /\ activeLive' = FALSE
  /\ UNCHANGED <<sourceVars, gcVars, pending, pendingSequence, active, activeInputs, activeSequence,
                 published, publishedSequence, status, keys, pins, out, localVars>>

(* The deadline of a job passes, that of its pins with it.                   *)
PassDeadline(w) ==
  /\ pins[w] # None
  /\ IF pc[w] \in Running THEN Disrupt("deadline") ELSE UNCHANGED faults
  /\ pins' = [pins EXCEPT ![w] = None]
  /\ activeLive' = (activeLive /\ active # w)
  /\ UNCHANGED <<sourceVars, gcVars, pending, pendingSequence, active, activeInputs, activeSequence,
                 published, publishedSequence, status, keys, out, localVars>>

-----------------------------------------------------------------------------
(* Collection (collect: not while a control is pending) *)

(* The captured revisions of a source that the row still names.              *)
NamedBy(v, s) == IF v # None /\ s \in DOMAIN v THEN {v[s].revision} ELSE {}
Named(s) ==
  NamedBy(published, s) \cup NamedBy(pending, s) \cup (IF active = None THEN {} ELSE NamedBy(activeInputs, s))

(* gcMetadataSlice: changes before every revision the row names.             *)
CollectChanges(s) ==
  LET doomed == {c \in changes : SourceOf[c[2]] = s /\ \A r \in Named(s) : c[1] < r} IN
  /\ controls = {}
  /\ doomed # {}
  /\ changes' = changes \ doomed
  /\ UNCHANGED <<history, current, rootEpoch, epoch, controls, gcVars, rowVars, keys, pins, out,
                 localVars, faults>>

(* gcMetadataSlice: keys of sequences that have been published.              *)
CollectKeys ==
  LET doomed == {k \in keys : k[1] <= publishedSequence} IN
  /\ controls = {}
  /\ doomed # {}
  /\ keys' = keys \ doomed
  /\ UNCHANGED <<sourceVars, gcVars, rowVars, pins, out, localVars, faults>>

(* retainedInputs and inventory_worker_pins: the revisions of a root that a  *)
(* reader of the canonical inventory or a worker may come back to.           *)
Retained(s, b) ==
  {r \in 1..Revision(s) : /\ Baseline(s, r) = b
                          /\ out.current /\ s \in DOMAIN out.inputs
                          /\ out.inputs[s] = [revision |-> r, epoch |-> epoch[s]]}
Pinned(s, b) ==
  {r \in 1..Revision(s) : /\ Baseline(s, r) = b
                          /\ \E w \in Workers : r \in NamedBy(pins[w], s)}

\* Faulty: only readers hold a revision.
NeededByReaders(s, b) == Retained(s, b)

Needed(s, b) == Retained(s, b) \cup Pinned(s, b)
LastOf(s, b) ==
  CHOOSE r \in 1..Revision(s) :
    Baseline(s, r) = b /\ \A q \in 1..Revision(s) : Baseline(s, q) = b => q <= r

\* Faulty: as if what ends with the floor were not read as of the floor.
FloorPast(s, b) == LastOf(s, b) + 1

(* The least revision that is needed, or else the one the root is at.        *)
Floor(s, b) ==
  LET held == Needed(s, b) \cup {LastOf(s, b)} IN CHOOSE r \in held : \A q \in held : r <= q

(* gcSlice: members of a root that ended before the floor, or all of them.   *)
CollectRoot(s, b) ==
  LET live == current[s] /\ Baseline(s, Revision(s)) = b IN
  /\ controls = {}
  /\ \E r \in 1..Revision(s) : Baseline(s, r) = b
  /\ <<s, b>> \notin emptied
  /\ collectedBefore' = [collectedBefore EXCEPT ![s][b] = IF Floor(s, b) > @ THEN Floor(s, b) ELSE @]
  /\ emptied' = IF live \/ Needed(s, b) # {} THEN emptied ELSE emptied \cup {<<s, b>>}
  /\ <<collectedBefore', emptied'>> # gcVars
  /\ UNCHANGED <<sourceVars, rowVars, keys, pins, out, localVars, faults>>

-----------------------------------------------------------------------------
SourceStep ==
  \E s \in Sources :
    \/ \E change \in ChangesOf(s) : PublishBaseline(s, change) \/ PublishDelta(s, change)
    \/ FenceControl(s)

ControlStep ==
  \E s \in Sources : PruneControl(s) \/ \E change \in ChangesOf(s) : PublishControl(s, change)

PassStep(w) ==
  \/ ReadRoots(w) \/ Request(w) \/ RequestRefused(w)
  \/ Claim(w) \/ NothingClaimed(w)
  \/ Begin(w) \/ Seed(w) \/ Publish(w)

Collect ==
  \/ CollectKeys
  \/ \E s \in Sources : CollectChanges(s) \/ \E b \in Revisions : CollectRoot(s, b)

Next ==
  \/ SourceStep \/ ControlStep
  \/ \E kept \in SUBSET controls : Clear(kept)
  \/ \E w \in Workers : PassStep(w) \/ Fail(w) \/ Crash(w) \/ PassDeadline(w)
  \/ LapseLease
  \/ Collect

Spec == Init /\ [][Next]_vars

(* The timer wakes passes that hold a session's authority, a pass that runs  *)
(* takes its steps, time passes, and saved controls are read back.           *)
FairSpec ==
  /\ Spec
  /\ \A w \in Workers : WF_vars(PassStep(w) \/ (Fail(w) /\ faults' = faults))
  /\ WF_vars(LapseLease /\ faults' = faults)
  /\ WF_vars(ControlStep)

-----------------------------------------------------------------------------
(* The rows of the inputs, and no others, are each in one record.            *)
RowsInOneRecord(values, records) ==
  /\ UNION {r.members : r \in records} = Rows(values)
  /\ \A r, q \in records : r.members \cap q.members # {} => r = q

(* A record was resolved among all that its members match now, in any number *)
(* of steps, as it is now; and if its company stayed together, no one has    *)
(* left that company since.                                                  *)
NoneMissed(values, r) ==
  \A i \in r.members :
    LET met == Reach([k \in Items |-> Neighbours(values, k)], i) IN
    /\ met \subseteq DOMAIN r.company /\ \A j \in met : r.company[j] = values[j]
    /\ r.members = DOMAIN r.company => met = r.members

(* Whatever was derived incrementally, collected, taken over, failed or      *)
(* requested out of order, the published inventory follows the source        *)
(* records at the revisions it names as its inputs: none is lost, shown      *)
(* twice or shown as it was before, and none that came or changed has been   *)
(* missed by the records of those it matches.  What may be missed is who     *)
(* left the company of a record that resolution had split.                   *)
OutputFollowsInputs ==
  out.current => LET values == ValuesAt(out.inputs) IN
    /\ RowsInOneRecord(values, out.records)
    /\ \A r \in out.records : NoneMissed(values, r)

(* The memberships a claim captured are there as long as its job may read    *)
(* them, however the source and the collection move on.                      *)
LiveInputsKept ==
  \A w \in Workers : pc[w] \in Running /\ Holds(w) =>
    \A s \in DOMAIN claim[w].roots : Kept(s, claim[w].roots[s].revision)

(* So are those the published inventory shows, until its source is fenced.   *)
ShownInputsKept ==
  out.current => \A s \in DOMAIN out.inputs :
    out.inputs[s].epoch = epoch[s] => Kept(s, out.inputs[s].revision)

(* Collection takes no membership that a live claim captured or that the     *)
(* published inventory shows.                                                *)
InputsKept == LiveInputsKept /\ ShownInputsKept

(* A control that was saved, or a clear, is not undone by a pass that read   *)
(* its sources before it: what is published is of the epochs of that moment. *)
FencedIsNotPublished ==
  [][out'.current /\ out'.revision # out.revision =>
       \A s \in DOMAIN out'.inputs : out'.inputs[s].epoch = epoch[s]]_vars

(* A source change reaches the published inventory once the sources rest.    *)
CaughtUp == Roots = <<>> \/ (out.current /\ out.inputs = Roots /\ status = "idle" /\ pending = None)
CatchesUp == <>[]CaughtUp
=============================================================================
