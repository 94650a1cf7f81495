----------------------------- MODULE MCDataSync -----------------------------
(* The instance of DataSync that TLC checks: one account and its run. *)
EXTENDS DataSync

CONSTANTS r1, p1

MCOne == [r \in {r1} |-> p1]
MCJobs == Runs \X Providers \X (1..MaxAttempts)
=============================================================================
