------------------------- MODULE MCQuarantineJobs -------------------------
(***************************************************************************)
(* An instance of QuarantineJobs small enough for TLC: two jobs of one     *)
(* item each that meet on a target.                                        *)
(***************************************************************************)
EXTENDS QuarantineJobs, TLC

CONSTANTS j1, j2, a, b, t1, r1

TwoJobsOf == (a :> j1) @@ (b :> j2)
TwoJobsTarget == (a :> t1) @@ (b :> t1)
TwoWants == (j1 :> {TRUE}) @@ (j2 :> BOOLEAN)
SingleItems == (a :> 0) @@ (b :> 0)
=============================================================================
