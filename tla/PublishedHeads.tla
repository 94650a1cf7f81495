--------------------------- MODULE PublishedHeads ---------------------------
(***************************************************************************)
(* What the generation tables promise to readers: each scope shows at most *)
(* one dataset, datasets of one publication appear together, and a dataset *)
(* that was replaced, withdrawn or given up is never shown again.          *)
(***************************************************************************)
EXTENDS Naturals

CONSTANTS
  Datasets,   \* candidate contents of the scopes
  Scopes,     \* what a reader can ask for
  None,       \* a scope that shows nothing
  ScopeOf     \* the scope each dataset is collected for

VARIABLES
  shown,      \* the dataset a reader of the scope sees
  spent       \* datasets that are out of the question for good

headVars == <<shown, spent>>

TypeOK ==
  /\ shown \in [Scopes -> Datasets \cup {None}]
  /\ spent \subseteq Datasets

Init ==
  /\ shown = [s \in Scopes |-> None]
  /\ spent = {}

Shown == {d \in Datasets : shown[ScopeOf[d]] = d}
Changed(D) == {ScopeOf[d] : d \in D}

(* One publication shows its datasets and spends those they replace.        *)
Publish(D) ==
  /\ D \cap (spent \cup Shown) = {}
  /\ \A d, e \in D : ScopeOf[d] = ScopeOf[e] => d = e
  /\ shown' = [s \in Scopes |->
                 IF s \in Changed(D) THEN CHOOSE d \in D : ScopeOf[d] = s ELSE shown[s]]
  /\ spent' = spent \cup {d \in Shown : ScopeOf[d] \in Changed(D)}

(* Datasets are withdrawn or given up; what was shown of them disappears.   *)
Withdraw(D) ==
  /\ shown' = [s \in Scopes |-> IF shown[s] \in D THEN None ELSE shown[s]]
  /\ spent' = spent \cup D

Next == \E D \in SUBSET Datasets : Publish(D) \/ Withdraw(D)

Spec == Init /\ [][Next]_headVars
=============================================================================
