------------------------- MODULE MCDataGenerations -------------------------
(***************************************************************************)
(* Instances of DataGenerations small enough for TLC.                      *)
(***************************************************************************)
EXTENDS DataGenerations, TLC

CONSTANTS u, v, x, y, a, b, c, d, f, t1, t2, directory, office, history, alice

NoInputs == [w \in Writers |-> {}]
NobodyActs == [w \in Writers |-> None]
OnlyFirstActs == (u :> alice) @@ (v :> None)

(* Two collections of one scope. *)
SameScopeWriterOf == (a :> u) @@ (b :> v)
SameScopeScopeOf == (a :> 1) @@ (b :> 1)
SameScopePrimary == (u :> a) @@ (v :> b)
OneScopeTenant == 1 :> t1
OneScopeSource == 1 :> directory

(* A collection in each of two tenants. *)
ApartScopeOf == (a :> 1) @@ (b :> 2)
ApartTenants == (1 :> t1) @@ (2 :> t2)
ApartSources == (1 :> directory) @@ (2 :> directory)

(* u and y collect directory; v derives an Office pair from it, x the Office *)
(* generation alone.                                                        *)
InputWriterOf == (a :> u) @@ (f :> y) @@ (b :> v) @@ (c :> v) @@ (d :> x)
InputScopeOf == (a :> 1) @@ (f :> 1) @@ (b :> 2) @@ (c :> 3) @@ (d :> 2)
InputPrimary == (u :> a) @@ (y :> f) @@ (v :> b) @@ (x :> d)
InputTenants == (1 :> t1) @@ (2 :> t1) @@ (3 :> t1)
InputSources == (1 :> directory) @@ (2 :> office) @@ (3 :> history)
PairInputs == (u :> {}) @@ (y :> {}) @@ (v :> {1}) @@ (x :> {1})

(* The state u leaves behind when it has published before the others begin. *)
AfterFirst ==
  /\ state = [g \in Generations |-> IF g = a THEN "published" ELSE "none"]
  /\ generationEpoch = [g \in Generations |-> 0]
  /\ expectedRevision = [g \in Generations |-> 0]
  /\ leaseLive = [g \in Generations |-> g = a]
  /\ validated = [g \in Generations |-> g = a]
  /\ scopeEpoch = [s \in Scopes |-> 0]
  /\ head = [s \in Scopes |-> IF s = 1 THEN a ELSE None]
  /\ revision = [s \in Scopes |-> IF s = 1 THEN 1 ELSE 0]
  /\ principalEpoch = [p \in Principals |-> 0]
  /\ revoking = [p \in Principals |-> FALSE]
  /\ doomed = [p \in Principals |-> {}]
  /\ job = [w \in Writers |-> IF w = u THEN "done" ELSE "running"]
  /\ pc = [w \in Writers |-> IF w = u THEN "ended" ELSE "idle"]
  /\ held = [w \in Writers |-> IF w = u THEN {a} ELSE {}]
  /\ fenced = [w \in Writers |-> IF w = u THEN {a} ELSE {}]
  /\ actorEpoch = [w \in Writers |-> 0]
  /\ vector = [w \in Writers |-> <<>>]
  /\ signal = [w \in Writers |-> FALSE]
  /\ fencing = [w \in Writers |-> "none"]
  /\ aborted = [w \in Writers |-> {}]
  /\ outcome = [w \in Writers |-> IF w = u THEN "published" ELSE "none"]
  /\ faults = 0
AfterFirstSpec == AfterFirst /\ [][Next]_vars
=============================================================================
