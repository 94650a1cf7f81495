--------------------------- MODULE DataGenerations ---------------------------
(***************************************************************************)
(* Generations of collected data (db/dataGenerations.ts and the triggers   *)
(* behind it): a writer leases a staging generation of a scope, fills and  *)
(* validates it, and moves the scope's head to it, while leases lapse,     *)
(* sign-outs, clears, cancellations and retention interfere and processes  *)
(* die.  A step is one transaction, except that beginning, publishing and  *)
(* revoking are taken apart where others can get between their statements. *)
(***************************************************************************)
EXTENDS Naturals, FiniteSets

CONSTANTS
  Writers,        \* executions: one collection or derivation each
  Generations,    \* rows of data_generations; WriterOf and ScopeOf are columns
  Scopes,         \* ids of data_scope_epochs, in lock order
  Tenants, Sources, Principals,
  None,           \* SQL NULL
  WriterOf, ScopeOf,
  Primary,        \* the lease a writer begins first
  TenantOf, SourceOf,
  Actor,          \* the principal a writer acts for, or None
  Inputs,         \* the scopes a derivation is computed from
  Managed,        \* writers run by execute(); the others derive Office pairs
  JobBacked,      \* writers whose fence checks a run or refresh job
  GlobalLimit, TenantLimit,  \* live writers (4 and 2 in the code)
  MaxEpoch,       \* bound on the epochs of scopes and principals
  Disruptions, MaxFaults     \* the kinds and the number of disturbances explored

ASSUME GenerationAssumption ==
  /\ Scopes \subseteq Nat
  /\ WriterOf \in [Generations -> Writers]
  /\ ScopeOf \in [Generations -> Scopes]
  /\ Primary \in [Writers -> Generations]
  /\ TenantOf \in [Scopes -> Tenants]
  /\ SourceOf \in [Scopes -> Sources]
  /\ Actor \in [Writers -> Principals \cup {None}]
  /\ Inputs \in [Writers -> SUBSET Scopes]
  /\ Managed \subseteq Writers /\ JobBacked \subseteq Writers
  /\ \A g \in Generations : WriterOf[g] \in Managed => g = Primary[WriterOf[g]]
  /\ GlobalLimit \in Nat /\ TenantLimit \in Nat /\ MaxEpoch \in Nat /\ MaxFaults \in Nat
  /\ None \notin Generations \cup Principals
  /\ \A g, h \in Generations :
       (WriterOf[g] = WriterOf[h] /\ ScopeOf[g] = ScopeOf[h]) => g = h

(* A writer has its primary lease and at most one related to it, all of one *)
(* tenant (data_related_publication_job); what it derives is computed from  *)
(* inventory of that tenant, which execute() collects.                      *)
ASSUME LineageAssumption ==
  /\ \A w \in Writers : WriterOf[Primary[w]] = w
  /\ \A g, h \in Generations :
       /\ WriterOf[g] = WriterOf[h]
       /\ g # Primary[WriterOf[g]] /\ h # Primary[WriterOf[h]]
       => g = h
  /\ \A g \in Generations : TenantOf[ScopeOf[g]] = TenantOf[ScopeOf[Primary[WriterOf[g]]]]
  /\ \A w \in Writers : \A s \in Inputs[w] :
       /\ TenantOf[s] = TenantOf[ScopeOf[Primary[w]]]
       /\ \A g \in Generations : ScopeOf[g] = s => WriterOf[g] \in Managed

VARIABLES
  \* data_generations: lease_until is leaseLive; cancellation is counted by state
  state, generationEpoch, expectedRevision, leaseLive, validated,
  \* data_scope_epochs, data_generation_heads; no row reads as revision 0
  scopeEpoch, head, revision,
  \* data_principal_epochs; open revocations and the rows they have updated
  principalEpoch, revoking, doomed,
  \* the run or refresh job of a writer
  job,
  \* locals of a writer: leases it knows of, leases its transaction has fenced,
  \* the actor's epoch and the input heads it started from
  pc, held, fenced, actorEpoch, vector,
  \* heartbeat.signal.aborted, the abort its listener started, the leases aborted
  signal, fencing, aborted,
  outcome,
  faults

rowVars    == <<state, generationEpoch, expectedRevision, leaseLive, validated>>
scopeVars  == <<scopeEpoch, head, revision>>
revokeVars == <<principalEpoch, revoking, doomed>>
localVars  == <<held, fenced, actorEpoch, vector>>
signalVars == <<signal, fencing, aborted>>
vars == <<rowVars, scopeVars, revokeVars, job, pc, localVars, signalVars, outcome, faults>>

Active == {"staging", "validating"}
State == Active \cup {"none", "published", "retired", "failed", "cancelled"}
Started == {"opening", "working", "fencing", "committing", "committed", "published", "failing"}
WriterPc == Started \cup {"idle", "waiting", "ended", "crashed"}
\* The writer's connection has a transaction open that holds row locks.
InTransaction == {"fencing", "committing"}

LeasesOf(w) == {g \in Generations : WriterOf[g] = w}
TenantOfWriter(w) == TenantOf[ScopeOf[Primary[w]]]
ActorOf(g) == Actor[WriterOf[g]]
InputHeads(w) == [s \in Inputs[w] |-> <<scopeEpoch[s], head[s], revision[s]>>]
\* sourceSql, inventory roots: a head whose generation is published and current
Readable(s) ==
  /\ head[s] # None
  /\ state[head[s]] = "published"
  /\ generationEpoch[head[s]] = scopeEpoch[s]

TypeOK ==
  /\ state \in [Generations -> State]
  /\ generationEpoch \in [Generations -> 0..MaxEpoch]
  /\ expectedRevision \in [Generations -> Nat]
  /\ leaseLive \in [Generations -> BOOLEAN]
  /\ validated \in [Generations -> BOOLEAN]
  /\ scopeEpoch \in [Scopes -> 0..MaxEpoch]
  /\ head \in [Scopes -> Generations \cup {None}]
  /\ revision \in [Scopes -> Nat]
  /\ principalEpoch \in [Principals -> 0..MaxEpoch]
  /\ revoking \in [Principals -> BOOLEAN]
  /\ doomed \in [Principals -> SUBSET Generations]
  /\ \A p \in Principals : \A g \in doomed[p] : ActorOf(g) = p
  /\ job \in [Writers -> {"running", "cancelled", "done"}]
  /\ pc \in [Writers -> WriterPc]
  /\ held \in [Writers -> SUBSET Generations]
  /\ fenced \in [Writers -> SUBSET Generations]
  /\ \A w \in Writers : held[w] \subseteq LeasesOf(w) /\ fenced[w] \subseteq LeasesOf(w)
  /\ actorEpoch \in [Writers -> 0..MaxEpoch]
  /\ signal \in [Writers -> BOOLEAN]
  /\ fencing \in [Writers -> {"none", "pending", "done"}]
  /\ aborted \in [Writers -> SUBSET Generations]
  /\ outcome \in [Writers -> {"none", "published", "same", "failed", "unfenced"}]
  /\ faults \in 0..MaxFaults

Init ==
  /\ state = [g \in Generations |-> "none"]
  /\ generationEpoch = [g \in Generations |-> 0]
  /\ expectedRevision = [g \in Generations |-> 0]
  /\ leaseLive = [g \in Generations |-> FALSE]
  /\ validated = [g \in Generations |-> FALSE]
  /\ scopeEpoch = [s \in Scopes |-> 0]
  /\ head = [s \in Scopes |-> None]
  /\ revision = [s \in Scopes |-> 0]
  /\ principalEpoch = [p \in Principals |-> 0]
  /\ revoking = [p \in Principals |-> FALSE]
  /\ doomed = [p \in Principals |-> {}]
  /\ job = [w \in Writers |-> "running"]
  /\ pc = [w \in Writers |-> "idle"]
  /\ held = [w \in Writers |-> {}]
  /\ fenced = [w \in Writers |-> {}]
  /\ actorEpoch = [w \in Writers |-> 0]
  /\ vector = [w \in Writers |-> <<>>]
  /\ signal = [w \in Writers |-> FALSE]
  /\ fencing = [w \in Writers |-> "none"]
  /\ aborted = [w \in Writers |-> {}]
  /\ outcome = [w \in Writers |-> "none"]
  /\ faults = 0

-----------------------------------------------------------------------------
(* Locks.  The advisory lock data-sync:<tenant> is taken by begin, publish, *)
(* invalidate, clear and cancel, admission (3650147) by begin and revoke.   *)

Disrupt(kind) ==
  /\ kind \in Disruptions
  /\ faults < MaxFaults
  /\ faults' = faults + 1

MutexFree(t) ==
  \A w \in Writers : pc[w] \in InTransaction \cup {"opening"} => TenantOfWriter(w) # t

(* Faulty: the admission lock is not taken. *)
AdmissionUnlocked == TRUE

AdmissionFree ==
  /\ \A w \in Writers : pc[w] # "opening"
  /\ \A p \in Principals : ~revoking[p]

(* Faulty: a publication does not lock its generations. *)
LocksNothing(g) == FALSE

LockedByWriter(g) == pc[WriterOf[g]] \in InTransaction /\ g \in fenced[WriterOf[g]]
RowFree(g) == ~LockedByWriter(g) /\ \A p \in Principals : g \notin doomed[p]

Ends(w, how) ==
  /\ pc' = [pc EXCEPT ![w] = "ended"]
  /\ outcome' = [outcome EXCEPT ![w] = how]

Moves(w, from, to) ==
  /\ pc[w] \in from
  /\ pc' = [pc EXCEPT ![w] = to]

(* UPDATE data_generations SET state=..., cancellation+1 of what is active.  *)
Closed(G, to) ==
  [g \in Generations |-> IF g \in G /\ state[g] \in Active THEN to ELSE state[g]]

-----------------------------------------------------------------------------
(* begin *)

Live(g) == state[g] \in Active /\ leaseLive[g]
LiveWriters == {WriterOf[g] : g \in {h \in Generations : Live(h)}}
Rivals(g, h) ==
  /\ TenantOf[ScopeOf[g]] = TenantOf[ScopeOf[h]]
  /\ SourceOf[ScopeOf[g]] = SourceOf[ScopeOf[h]]

(* Faulty: a generation that is being validated does not count. *)
StagingFree(g) == \A h \in Generations : (Live(h) /\ state[h] = "staging") => ~Rivals(g, h)

SourceFree(g) == \A h \in Generations : Live(h) => ~Rivals(g, h)

Paired(w) == w \notin Managed /\ Cardinality({g \in LeasesOf(w) : Live(g)}) = 1
WithinLimits(w) ==
  \/ Paired(w)
  \/ /\ Cardinality(LiveWriters) < GlobalLimit
     /\ Cardinality({v \in LiveWriters : TenantOfWriter(v) = TenantOfWriter(w)}) < TenantLimit

(* The leases a writer has yet to begin; a pair is begun from its primary. *)
Due(w) ==
  {g \in LeasesOf(w) : state[g] = "none" /\ (g = Primary[w] \/ Primary[w] \in held[w])}

ActorCurrent(w) == Actor[w] # None => principalEpoch[Actor[w]] = actorEpoch[w]

(* Faulty: fences do not look at the job. *)
JobUnchecked(w) == TRUE

JobCurrent(w) == w \in JobBacked => job[w] = "running"

(* A collection is requested with the epoch of its session; a derivation    *)
(* captures the input heads it will read, all of them readable.             *)
Start(w) ==
  /\ Moves(w, {"idle"}, "waiting")
  /\ \A s \in Inputs[w] : Readable(s)
  /\ actorEpoch' = [actorEpoch EXCEPT
                      ![w] = IF Actor[w] = None THEN 0 ELSE principalEpoch[Actor[w]]]
  /\ vector' = [vector EXCEPT ![w] = InputHeads(w)]
  /\ UNCHANGED <<rowVars, scopeVars, revokeVars, job, held, fenced, signalVars, outcome, faults>>

(* A request leaves the admission queue without a lease: its signal aborts, *)
(* its deadline passes, its session is fenced, or the source is busy and it *)
(* does not wait.                                                           *)
LeaveQueue(w) ==
  /\ pc[w] = "waiting"
  /\ Ends(w, "failed")
  /\ UNCHANGED <<rowVars, scopeVars, revokeVars, job, localVars, signalVars, faults>>

(* The locks of begin are taken and its counts are read.                    *)
BeginOpen(w, g) ==
  /\ g \in Due(w)
  /\ MutexFree(TenantOfWriter(w))
  /\ AdmissionFree
  /\ ActorCurrent(w)
  /\ SourceFree(g)
  /\ WithinLimits(w)
  /\ Moves(w, {"waiting", "working"}, "opening")
  /\ UNCHANGED <<rowVars, scopeVars, revokeVars, job, localVars, signalVars, outcome, faults>>

(* Stale generations of the scope are failed and the new one is inserted.   *)
(* Without an acknowledgement the caller does not know the lease it has.    *)
BeginCommit(w, g, ack) ==
  LET s == ScopeOf[g]
      stale == {h \in Generations : ScopeOf[h] = s /\ ~leaseLive[h]}
  IN
  /\ g \in Due(w)
  /\ JobCurrent(w)
  /\ \A h \in stale : state[h] \in Active => RowFree(h)
  /\ state' = [Closed(stale, "failed") EXCEPT ![g] = "staging"]
  /\ generationEpoch' = [generationEpoch EXCEPT ![g] = scopeEpoch[s]]
  /\ expectedRevision' = [expectedRevision EXCEPT ![g] = revision[s]]
  /\ leaseLive' = [leaseLive EXCEPT ![g] = TRUE]
  /\ held' = [held EXCEPT ![w] = IF ack THEN @ \cup {g} ELSE @]
  /\ Moves(w, {"opening"}, IF ack THEN "working" ELSE "failing")
  /\ IF ack THEN UNCHANGED faults ELSE Disrupt("ack")
  /\ UNCHANGED <<validated, scopeVars, revokeVars, job, fenced, actorEpoch, vector, signalVars, outcome>>

-----------------------------------------------------------------------------
(* Collection and validation *)

FenceHolds(g) ==
  /\ state[g] \in Active
  /\ leaseLive[g]
  /\ generationEpoch[g] = scopeEpoch[ScopeOf[g]]
  /\ ActorCurrent(WriterOf[g])
  /\ JobCurrent(WriterOf[g])

(* Faulty: any readable input will do. *)
InputsReadable(w) == \A s \in Inputs[w] : Readable(s)

InputsUnchanged(w) == vector[w] = InputHeads(w) /\ \A s \in Inputs[w] : Readable(s)

(* validate(): the counts agree and rows are walked ... *)
Validate(g) ==
  LET w == WriterOf[g] IN
  /\ pc[w] = "working" /\ held[w] = LeasesOf(w)
  /\ w \in Managed
  /\ RowFree(g) /\ MutexFree(TenantOfWriter(w))
  /\ FenceHolds(g) /\ state[g] = "staging"
  /\ state' = [state EXCEPT ![g] = "validating"]
  /\ UNCHANGED <<generationEpoch, expectedRevision, leaseLive, validated, scopeVars, revokeVars,
                 job, pc, localVars, signalVars, outcome, faults>>

(* ... and a last transaction records that all of them were good.           *)
FinishValidation(g) ==
  LET w == WriterOf[g] IN
  /\ pc[w] = "working"
  /\ w \in Managed
  /\ RowFree(g) /\ MutexFree(TenantOfWriter(w))
  /\ FenceHolds(g) /\ state[g] = "validating"
  /\ validated' = [validated EXCEPT ![g] = TRUE]
  /\ UNCHANGED <<state, generationEpoch, expectedRevision, leaseLive, scopeVars, revokeVars,
                 job, pc, localVars, signalVars, outcome, faults>>

(* What is derived may equal what is published already (content_hash).       *)
MaybeSame(g) == head[ScopeOf[g]] # None /\ state[head[ScopeOf[g]]] = "published"

(* The primary of a pair turns out to be the same: nothing is published.     *)
ReplayPrimary(w, ack) ==
  LET g == Primary[w] IN
  /\ w \notin Managed
  /\ held[w] = {g}
  /\ MutexFree(TenantOfWriter(w))
  /\ InputsUnchanged(w)
  /\ RowFree(g) /\ FenceHolds(g) /\ MaybeSame(g)
  /\ state' = Closed({g}, "cancelled")
  /\ job' = [job EXCEPT ![w] = "done"]
  /\ Moves(w, {"working"}, IF ack THEN "ended" ELSE "failing")
  /\ IF ack THEN outcome' = [outcome EXCEPT ![w] = "same"] ELSE UNCHANGED outcome
  /\ IF ack THEN UNCHANGED faults ELSE Disrupt("ack")
  /\ UNCHANGED <<generationEpoch, expectedRevision, leaseLive, validated, scopeVars, revokeVars,
                 localVars, signalVars>>

(* A derivation completes both of its generations in one transaction; the    *)
(* weekly one is given up when it would repeat the one that is published.    *)
CompletePair(w, same) ==
  LET dropped == IF same THEN LeasesOf(w) \ {Primary[w]} ELSE {}
      kept == LeasesOf(w) \ dropped
  IN
  /\ pc[w] = "working" /\ held[w] = LeasesOf(w)
  /\ w \notin Managed
  /\ MutexFree(TenantOfWriter(w))
  /\ InputsUnchanged(w)
  /\ \A g \in LeasesOf(w) : RowFree(g) /\ FenceHolds(g) /\ state[g] = "staging"
  /\ \A g \in dropped : MaybeSame(g)
  /\ state' = [g \in Generations |->
                 IF g \in kept THEN "validating" ELSE Closed(dropped, "cancelled")[g]]
  /\ validated' = [g \in Generations |-> g \in kept \/ validated[g]]
  /\ UNCHANGED <<generationEpoch, expectedRevision, leaseLive, scopeVars, revokeVars, job, pc,
                 localVars, signalVars, outcome, faults>>

-----------------------------------------------------------------------------
(* publish *)

(* A lease that the writer completed without.                               *)
Dropped(g) == ~validated[g] /\ \E h \in LeasesOf(WriterOf[g]) : validated[h]

(* Faulty: the related lease is left out. *)
PrimaryOnly(w) == {Primary[w]}

(* The generations a publication makes visible.                             *)
Publication(w) == {g \in LeasesOf(w) : ~Dropped(g)}

(* The heartbeat is paused, the mutex taken, the inputs locked and checked. *)
PublishOpen(w) ==
  /\ \A g \in Publication(w) : validated[g]
  /\ ~signal[w]
  /\ MutexFree(TenantOfWriter(w))
  /\ InputsUnchanged(w)
  /\ Moves(w, {"working"}, "fencing")
  /\ fenced' = [fenced EXCEPT ![w] = {}]
  /\ UNCHANGED <<rowVars, scopeVars, revokeVars, job, held, actorEpoch, vector, signalVars, outcome,
                 faults>>

Publishable(g) ==
  /\ FenceHolds(g)
  /\ state[g] = "validating" /\ validated[g]
  /\ expectedRevision[g] = revision[ScopeOf[g]]

(* Scope, head and generation of one lease are locked, in the order of the  *)
(* scopes, and the fence, the head's revision and data_protect_head checked.*)
Fence(w, g) ==
  /\ pc[w] = "fencing"
  /\ g \in Publication(w) \ fenced[w]
  /\ \A h \in Publication(w) \ fenced[w] : ScopeOf[g] <= ScopeOf[h]
  /\ RowFree(g)
  /\ Publishable(g)
  /\ fenced' = [fenced EXCEPT ![w] = @ \cup {g}]
  /\ UNCHANGED <<rowVars, scopeVars, revokeVars, job, pc, held, actorEpoch, vector, signalVars,
                 outcome, faults>>

(* COMMIT is on the wire.  The signal is looked at just before it.          *)
SendCommit(w) ==
  /\ fenced[w] = Publication(w)
  /\ ~signal[w]
  /\ Moves(w, {"fencing"}, "committing")
  /\ UNCHANGED <<rowVars, scopeVars, revokeVars, job, localVars, signalVars, outcome, faults>>

(* Faulty: the previous generation is not retired. *)
ReplacesNothing(w) == {}

(* The generations it replaces.                                             *)
Replaced(w) == {head[ScopeOf[g]] : g \in Publication(w)}

(* The server commits: heads, generations and the job change together.      *)
ServerCommits(w) ==
  LET G == Publication(w)
      changed == {ScopeOf[g] : g \in G}
  IN
  /\ Moves(w, {"committing"}, "committed")
  /\ state' = [g \in Generations |->
                 IF g \in G THEN "published"
                 ELSE IF g \in Replaced(w) /\ state[g] = "published" THEN "retired" ELSE state[g]]
  /\ head' = [s \in Scopes |-> IF s \in changed THEN CHOOSE g \in G : ScopeOf[g] = s ELSE head[s]]
  /\ revision' = [s \in Scopes |-> IF s \in changed THEN revision[s] + 1 ELSE revision[s]]
  /\ job' = [job EXCEPT ![w] = "done"]
  /\ UNCHANGED <<generationEpoch, expectedRevision, leaseLive, validated, scopeEpoch, revokeVars,
                 localVars, signalVars, outcome, faults>>

(* onCommitted runs: the writer knows, and a later abort is ignored.        *)
CommitAcknowledged(w) ==
  /\ Moves(w, {"committed"}, "published")
  /\ UNCHANGED <<rowVars, scopeVars, revokeVars, job, localVars, signalVars, outcome, faults>>

(* The connection breaks after the commit: publish throws what it believes  *)
(* to be a failure.                                                         *)
CommitUnacknowledged(w) ==
  /\ Disrupt("ack")
  /\ Moves(w, {"committed"}, "failing")
  /\ UNCHANGED <<rowVars, scopeVars, revokeVars, job, localVars, signalVars, outcome>>

Finish(w) ==
  /\ pc[w] = "published"
  /\ Ends(w, "published")
  /\ UNCHANGED <<rowVars, scopeVars, revokeVars, job, localVars, signalVars, faults>>

-----------------------------------------------------------------------------
(* Failure of a writer *)

(* Faulty: nothing tells a writer that it was fenced. *)
FenceIgnored(w) == FALSE

FenceLost(w) == \E g \in held[w] : ~Dropped(g) /\ ~FenceHolds(g)

(* A statement, a provider call or a check throws and what is open rolls    *)
(* back.                                                                    *)
Throws(w) ==
  /\ Moves(w, {"opening", "working", "fencing", "committing"}, "failing")
  /\ UNCHANGED <<rowVars, scopeVars, revokeVars, job, localVars, signalVars, outcome, faults>>

(* A writer stops on its aborted signal and on the first fence that fails.  *)
Stops(w) ==
  /\ \/ signal[w]
     \/ FenceLost(w)
     \/ ~InputsUnchanged(w)
     \/ pc[w] = "fencing" /\ \E g \in Publication(w) \ fenced[w] : ~Publishable(g)
  /\ pc[w] \in {"working", "fencing"}
  /\ Throws(w)

(* The parent aborts, or a renewal fails: the listener starts an abort that *)
(* runs beside the writer.                                                  *)
Signal(w) ==
  /\ "signal" \in Disruptions
  /\ w \in Managed
  /\ pc[w] \in Started \ {"opening", "published", "failing"}
  /\ held[w] # {}
  /\ ~signal[w]
  /\ signal' = [signal EXCEPT ![w] = TRUE]
  /\ fencing' = [fencing EXCEPT ![w] = "pending"]
  /\ UNCHANGED <<rowVars, scopeVars, revokeVars, job, pc, localVars, aborted, outcome, faults>>

Abortable(g) == RowFree(g) /\ pc[WriterOf[g]] \notin InTransaction

(* That abort: it waits for the scope while the writer publishes.           *)
ListenerAborts(w) ==
  /\ fencing[w] = "pending" /\ pc[w] # "crashed"
  /\ \A g \in held[w] : Abortable(g)
  /\ state' = Closed(held[w], "cancelled")
  /\ fencing' = [fencing EXCEPT ![w] = "done"]
  /\ aborted' = [aborted EXCEPT ![w] = held[w]]
  /\ UNCHANGED <<generationEpoch, expectedRevision, leaseLive, validated, scopeVars, revokeVars,
                 job, pc, localVars, signal, outcome, faults>>

(* The catch block aborts each lease unless the listener has started to.    *)
AbortLease(w, g) ==
  /\ pc[w] = "failing"
  /\ g \in held[w] \ aborted[w]
  /\ fencing[w] = "none"
  /\ Abortable(g)
  /\ \E to \in {"failed", "cancelled"} : state' = Closed({g}, to)
  /\ aborted' = [aborted EXCEPT ![w] = @ \cup {g}]
  /\ UNCHANGED <<generationEpoch, expectedRevision, leaseLive, validated, scopeVars, revokeVars,
                 job, pc, localVars, signal, fencing, outcome, faults>>

(* An abort itself fails, and the error of the writer says so.              *)
AbortFails(w, g) ==
  /\ Disrupt("abort")
  /\ pc[w] = "failing"
  /\ g \in held[w] \ aborted[w]
  /\ aborted' = [aborted EXCEPT ![w] = @ \cup {g}]
  /\ fencing' = [fencing EXCEPT ![w] = IF @ = "pending" THEN "done" ELSE @]
  /\ outcome' = [outcome EXCEPT ![w] = "unfenced"]
  /\ UNCHANGED <<rowVars, scopeVars, revokeVars, job, pc, localVars, signal>>

(* Before it aborts, a derivation looks whether readers see its result: its  *)
(* own publication, whose acknowledgement it missed, or an equal one.        *)
Acknowledge(w) ==
  LET shown == head[ScopeOf[Primary[w]]] IN
  /\ pc[w] = "failing" /\ w \notin Managed
  /\ held[w] # {}
  /\ InputsUnchanged(w)
  /\ \E v \in Writers \ Managed : job[v] = "done" /\ vector[v] = vector[w]
  /\ MaybeSame(Primary[w])
  /\ Ends(w, IF shown = Primary[w] THEN "published" ELSE "same")
  /\ UNCHANGED <<rowVars, scopeVars, revokeVars, job, localVars, signalVars, faults>>

(* Faulty: an abort that has started counts as done. *)
SettledUnawaited(w) == fencing[w] = "pending" \/ held[w] \subseteq aborted[w]

(* The leases of a writer are dealt with.                                   *)
Settled(w) == held[w] \subseteq aborted[w]

GivesUp(w) ==
  /\ pc[w] = "failing" /\ Settled(w)
  /\ Ends(w, IF outcome[w] = "unfenced" THEN "unfenced" ELSE "failed")
  /\ UNCHANGED <<rowVars, scopeVars, revokeVars, job, localVars, signalVars, faults>>

(* The process dies; an open transaction rolls back.                        *)
Crash(w) ==
  /\ Disrupt("crash")
  /\ Moves(w, Started \cup {"waiting"}, "crashed")
  /\ UNCHANGED <<rowVars, scopeVars, revokeVars, job, localVars, signalVars, outcome>>

-----------------------------------------------------------------------------
(* Sign-out: revokePrincipal with preserveSources *)

RevokeOpen(p) ==
  /\ "revoke" \in Disruptions
  /\ AdmissionFree
  /\ principalEpoch[p] < MaxEpoch
  /\ revoking' = [revoking EXCEPT ![p] = TRUE]
  /\ UNCHANGED <<rowVars, scopeVars, principalEpoch, doomed, job, pc, localVars, signalVars, outcome,
                 faults>>

(* Faulty: only generations of scopes of the principal, and there are none. *)
ToRevokeOfScopes(p) == {}

(* Faulty: the actor is not compared. *)
ToRevokeOfAll(p) == {g \in Generations : state[g] \in Active}

(* The rows the cancelling UPDATEs will change: the actor's active ones.    *)
ToRevoke(p) == {g \in Generations : ActorOf(g) = p /\ state[g] \in Active}

(* One of them is updated, once its lock is free.                           *)
RevokeGeneration(p, g) ==
  /\ revoking[p]
  /\ g \in ToRevoke(p) \ doomed[p]
  /\ RowFree(g)
  /\ doomed' = [doomed EXCEPT ![p] = @ \cup {g}]
  /\ UNCHANGED <<rowVars, scopeVars, principalEpoch, revoking, job, pc, localVars, signalVars, outcome,
                 faults>>

RevokeCommit(p) ==
  /\ revoking[p]
  /\ ToRevoke(p) \subseteq doomed[p]
  /\ state' = Closed(doomed[p], "cancelled")
  /\ principalEpoch' = [principalEpoch EXCEPT ![p] = @ + 1]
  /\ revoking' = [revoking EXCEPT ![p] = FALSE]
  /\ doomed' = [doomed EXCEPT ![p] = {}]
  /\ UNCHANGED <<generationEpoch, expectedRevision, leaseLive, validated, scopeVars, job, pc,
                 localVars, signalVars, outcome, faults>>

RevokeFails(p) ==
  /\ Disrupt("crash")
  /\ revoking[p]
  /\ revoking' = [revoking EXCEPT ![p] = FALSE]
  /\ doomed' = [doomed EXCEPT ![p] = {}]
  /\ UNCHANGED <<rowVars, scopeVars, principalEpoch, job, pc, localVars, signalVars, outcome>>

-----------------------------------------------------------------------------
(* Requests and maintenance that reach into the tables *)

(* A scope's epoch moves on; its head stays, unreadable.                    *)
Invalidate(s) ==
  LET G == {g \in Generations : ScopeOf[g] = s} IN
  /\ "invalidate" \in Disruptions
  /\ MutexFree(TenantOf[s])
  /\ scopeEpoch[s] < MaxEpoch
  /\ \A g \in G : state[g] \in Active => RowFree(g)
  /\ scopeEpoch' = [scopeEpoch EXCEPT ![s] = @ + 1]
  /\ state' = Closed(G, "cancelled")
  /\ UNCHANGED <<generationEpoch, expectedRevision, leaseLive, validated, head, revision, revokeVars,
                 job, pc, localVars, signalVars, outcome, faults>>

(* The administrator clears a tenant's saved data.  A head row is deleted,  *)
(* and so starts again at revision 0, or is emptied (kept).                 *)
Clear(t, kept) ==
  LET S == {s \in Scopes : TenantOf[s] = t}
      G == {g \in Generations : ScopeOf[g] \in S}
  IN
  /\ "clear" \in Disruptions
  /\ MutexFree(t)
  /\ \A s \in S : scopeEpoch[s] < MaxEpoch
  /\ \A g \in G : state[g] \in Active \cup {"published"} => RowFree(g)
  /\ scopeEpoch' = [s \in Scopes |-> IF s \in S THEN scopeEpoch[s] + 1 ELSE scopeEpoch[s]]
  /\ state' = [g \in Generations |->
                 IF g \in G /\ state[g] = "published" THEN "retired" ELSE Closed(G, "cancelled")[g]]
  /\ revision' = [s \in Scopes |->
                    IF s \notin S THEN revision[s]
                    ELSE IF s \notin kept THEN 0
                    ELSE IF head[s] = None THEN revision[s] ELSE revision[s] + 1]
  /\ head' = [s \in Scopes |-> IF s \in S THEN None ELSE head[s]]
  /\ UNCHANGED <<generationEpoch, expectedRevision, leaseLive, validated, revokeVars, job, pc,
                 localVars, signalVars, outcome, faults>>

(* A sync run is cancelled with the generations it has active.              *)
CancelJob(w) ==
  /\ "cancel" \in Disruptions
  /\ w \in JobBacked
  /\ pc[w] # "idle"
  /\ job[w] = "running"
  /\ MutexFree(TenantOfWriter(w))
  /\ \A g \in LeasesOf(w) : state[g] \in Active => RowFree(g)
  /\ job' = [job EXCEPT ![w] = "cancelled"]
  /\ state' = Closed(LeasesOf(w), "cancelled")
  /\ UNCHANGED <<generationEpoch, expectedRevision, leaseLive, validated, scopeVars, revokeVars, pc,
                 localVars, signalVars, outcome, faults>>

(* A lease is not renewed in time, at the latest because of its deadline.   *)
LeaseLapses(g) ==
  /\ "expiry" \in Disruptions
  /\ Live(g)
  /\ leaseLive' = [leaseLive EXCEPT ![g] = FALSE]
  /\ UNCHANGED <<state, generationEpoch, expectedRevision, validated, scopeVars, revokeVars, job, pc,
                 localVars, signalVars, outcome, faults>>

(* Retention fails abandoned generations and retires unreadable ones, and   *)
(* Office pairs also when they expire.  It skips rows that are locked.      *)
StaleScope(g) == generationEpoch[g] # scopeEpoch[ScopeOf[g]]

(* Faulty: lapsed leases are not reclaimed. *)
AbandonedByEpoch(g) == state[g] \in Active /\ StaleScope(g)

Abandoned(g) == state[g] \in Active /\ (~leaseLive[g] \/ StaleScope(g))

FailAbandoned(g) ==
  /\ Abandoned(g)
  /\ RowFree(g)
  /\ state' = Closed({g}, "failed")
  /\ UNCHANGED <<generationEpoch, expectedRevision, leaseLive, validated, scopeVars, revokeVars, job,
                 pc, localVars, signalVars, outcome, faults>>

RetireExpired(g) ==
  /\ state[g] = "published"
  /\ StaleScope(g) \/ WriterOf[g] \notin Managed
  /\ state' = [state EXCEPT ![g] = "retired"]
  /\ UNCHANGED <<generationEpoch, expectedRevision, leaseLive, validated, scopeVars, revokeVars, job,
                 pc, localVars, signalVars, outcome, faults>>

-----------------------------------------------------------------------------
BeginStep(w) ==
  \/ Start(w) \/ LeaveQueue(w)
  \/ \E g \in LeasesOf(w) : BeginOpen(w, g) \/ \E ack \in BOOLEAN : BeginCommit(w, g, ack)

PublishStep(w) ==
  \/ \E g \in LeasesOf(w) : Validate(g) \/ FinishValidation(g) \/ Fence(w, g)
  \/ \E flag \in BOOLEAN : ReplayPrimary(w, flag) \/ CompletePair(w, flag)
  \/ PublishOpen(w) \/ SendCommit(w) \/ ServerCommits(w)
  \/ CommitAcknowledged(w) \/ CommitUnacknowledged(w) \/ Finish(w)

FailureStep(w) ==
  \/ Throws(w) \/ Signal(w) \/ ListenerAborts(w)
  \/ \E g \in LeasesOf(w) : AbortLease(w, g) \/ AbortFails(w, g)
  \/ Acknowledge(w) \/ GivesUp(w) \/ Crash(w)

RevokeStep(p) ==
  \/ RevokeOpen(p) \/ RevokeCommit(p) \/ RevokeFails(p)
  \/ \E g \in Generations : RevokeGeneration(p, g)

RequestStep ==
  \/ \E s \in Scopes : Invalidate(s)
  \/ \E t \in Tenants : \E kept \in SUBSET Scopes : Clear(t, kept)
  \/ \E w \in Writers : CancelJob(w)

RetentionStep == \E g \in Generations : LeaseLapses(g) \/ FailAbandoned(g) \/ RetireExpired(g)

Next ==
  \/ \E w \in Writers : BeginStep(w) \/ PublishStep(w) \/ FailureStep(w)
  \/ \E p \in Principals : RevokeStep(p)
  \/ RequestStep
  \/ RetentionStep

Spec == Init /\ [][Next]_vars

(* Statements and transactions end, an aborted or fenced writer notices,    *)
(* deadlines end every lease, and retention comes round.                    *)
Fairness ==
  /\ \A w \in Writers :
       /\ WF_vars(\E g \in LeasesOf(w) : BeginCommit(w, g, TRUE))
       /\ WF_vars(pc[w] = "opening" /\ Throws(w))
       /\ WF_vars(\E g \in LeasesOf(w) : Fence(w, g))
       /\ WF_vars(SendCommit(w))
       /\ WF_vars(ServerCommits(w))
       /\ WF_vars(CommitAcknowledged(w))
       /\ WF_vars(Finish(w))
       /\ WF_vars(Stops(w))
       /\ WF_vars(ListenerAborts(w))
       /\ WF_vars(\E g \in LeasesOf(w) : AbortLease(w, g))
       /\ WF_vars(GivesUp(w))
  /\ \A p \in Principals :
       /\ WF_vars(\E g \in Generations : RevokeGeneration(p, g))
       /\ WF_vars(RevokeCommit(p))
  /\ \A g \in Generations : WF_vars(LeaseLapses(g)) /\ WF_vars(FailAbandoned(g))

FairSpec == Spec /\ Fairness

-----------------------------------------------------------------------------
(* Properties *)

(* What a reader finds published under a scope's epoch is what the head     *)
(* names: a superseded or cleared generation is never left published.       *)
CurrentGenerationIsHead ==
  \A g \in Generations :
    (state[g] = "published" /\ ~StaleScope(g)) => head[ScopeOf[g]] = g

(* Readers see what PublishedHeads promises.                                *)
Spent ==
  {g \in Generations : \/ state[g] \in {"retired", "failed", "cancelled"}
                       \/ state[g] = "published" /\ StaleScope(g)}
Heads == INSTANCE PublishedHeads WITH
  Datasets <- Generations,
  shown <- [s \in Scopes |-> IF Readable(s) THEN head[s] ELSE None],
  spent <- Spent
KeepsPromise == Heads!Spec

(* Nothing is published for a principal with the authority of a session     *)
(* that a committed sign-out has ended ("data_session_fenced").             *)
SignedOutNeverPublishes ==
  [][\A g \in Generations :
       (state[g] # "published" /\ state'[g] = "published")
         => ActorOf(g) = None \/ principalEpoch[ActorOf(g)] = actorEpoch[WriterOf[g]]
    ]_vars

(* Nothing is published for a run or refresh job that was cancelled         *)
(* ("data_source_job_fenced").                                              *)
CancelledJobPublishesNothing ==
  [][\A g \in Generations :
       (state[g] # "published" /\ state'[g] = "published") => job[WriterOf[g]] # "cancelled"
    ]_vars

(* What a writer reports is so: after success its generations were shown,   *)
(* after a failure no lease it knows of is still active, unless the error   *)
(* is the one that says the abort failed.                                   *)
OutcomeIsHonest ==
  \A w \in Writers :
    /\ outcome[w] = "published" =>
         \A g \in Publication(w) : state[g] \in {"published", "retired"}
    /\ outcome[w] = "failed" => \A g \in held[w] : state[g] \notin Active

(* No two live generations of one source of a tenant.                       *)
OneWriterPerSource ==
  \A g, h \in Generations : (Live(g) /\ Live(h) /\ Rivals(g, h)) => g = h

(* Ingestion stays within its limits, an Office pair counting once.         *)
WriterLimit ==
  /\ Cardinality(LiveWriters) <= GlobalLimit
  /\ \A t \in Tenants : Cardinality({w \in LiveWriters : TenantOfWriter(w) = t}) <= TenantLimit

(* A derivation is published only over the inputs it was computed from.     *)
DerivedFromCurrentInputs ==
  [][\A w \in Writers :
       (pc[w] = "committing" /\ pc'[w] = "committed")
         => vector[w] = InputHeads(w) /\ \A s \in Inputs[w] : Readable(s)
    ]_vars

(* The generations a derivation completes are published together or not at  *)
(* all.                                                                     *)
PairPublishesTogether ==
  \A g, h \in Generations :
    (WriterOf[g] = WriterOf[h] /\ validated[g] /\ validated[h]) =>
      (state[g] \in {"published", "retired"} <=> state[h] \in {"published", "retired"})

(* Whatever becomes of its writer, a generation does not stay active: the   *)
(* bytes it reserves are given back and its source is free again.           *)
Reclaimed == \A g \in Generations : (state[g] \in Active) ~> (state[g] \notin Active)

(* A writer that has begun comes to an end.                                 *)
WriterEnds == \A w \in Writers : (pc[w] \in Started) ~> (pc[w] \in {"ended", "crashed"})
=============================================================================
