----------------------------- MODULE MCSchedules -----------------------------
(***************************************************************************)
(* Instances of Schedules for TLC: two scheduler processes, one of which   *)
(* may lose its connection, and a client.                                  *)
(***************************************************************************)
EXTENDS Schedules

CONSTANTS k1, steady, flaky

\* An administrator lets one run at a time or two, and one a day.
EditedQuota == {[inFlight |-> 1, daily |-> 1], [inFlight |-> 2, daily |-> 1]}
\* Nobody edits the policy.
FixedQuota == {[inFlight |-> 1, daily |-> 1]}
=============================================================================
