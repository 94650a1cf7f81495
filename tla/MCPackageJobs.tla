--------------------------- MODULE MCPackageJobs ---------------------------
(***************************************************************************)
(* Instances of PackageJobs small enough for TLC.                          *)
(***************************************************************************)
EXTENDS PackageJobs, TLC

CONSTANTS j1, j2, a, b, c, p, q, t3, w1, w2, h1, h2, r1, blocked, open, nobody, alice, bob

(* Two jobs of one package: they meet in the package lock. *)
SharedPackageItems == {a, b}
SharedPackageJobOf == (a :> j1) @@ (b :> j2)
SharedPackageTargetOf == (a :> p) @@ (b :> p)
SharedPackageOrdinal == (a :> 0) @@ (b :> 0)

(* One job of two packages: its items follow each other under one lease. *)
TwoPackagesJobOf == (a :> j1) @@ (b :> j1)
TwoPackagesTargetOf == (a :> p) @@ (b :> q)
TwoPackagesOrdinal == (a :> 0) @@ (b :> 1)

(* One job of three packages. *)
ThreeItemsJobOf == (a :> j1) @@ (b :> j1) @@ (c :> j1)
ThreeItemsTargetOf == (a :> p) @@ (b :> q) @@ (c :> t3)
ThreeItemsOrdinal == (a :> 0) @@ (b :> 1) @@ (c :> 2)

(* One job of two packages and one of a single package. *)
LimitJobOf == (a :> j1) @@ (b :> j1) @@ (c :> j2)
LimitTargetOf == (a :> p) @@ (b :> q) @@ (c :> p)
LimitOrdinal == (a :> 0) @@ (b :> 1) @@ (c :> 0)

OneWorker == w1 :> h1
OneProcess == (w1 :> h1) @@ (w2 :> h1)
TwoProcesses == (w1 :> h1) @@ (w2 :> h2)

(* All packages are open at first. *)
OpenInit == Init /\ provider = [t \in Targets |-> open]
OpenPackages == OpenInit /\ [][Next]_vars /\ Fairness

(* j1 blocks, j2 unblocks. *)
BlockAndUnblock == [j \in Jobs |-> [state \in States |-> IF j = j1 THEN blocked ELSE open]]

(* Each job replaces the principals the package is available to by its own, *)
(* and both start from a package that nobody can use.                       *)
Principals == {nobody, alice, bob}
ReplacePrincipals == [j \in Jobs |-> [state \in Principals |-> IF j = j1 THEN alice ELSE bob]]
UnsharedInit == Init /\ provider = [t \in Targets |-> nobody]
UnsharedPackages == UnsharedInit /\ [][Next]_vars

(* Workers of one process are interchangeable, and so are two jobs together  *)
(* with their items and whom they make the package available to.             *)
SharedPackageSymmetry ==
  {f \in {w @@ j @@ i @@ s : w \in Permutations(Workers), j \in Permutations({j1, j2}),
                             i \in Permutations({a, b}), s \in Permutations({alice, bob})} :
     /\ f[a] = a <=> f[j1] = j1
     /\ f[alice] = alice <=> f[j1] = j1}

(* So are two workers together with their processes. *)
ProcessSymmetry ==
  {f \in {w @@ h : w \in Permutations(Workers), h \in Permutations(Processes)} :
     f[w1] = w1 <=> f[h1] = h1}
=============================================================================
