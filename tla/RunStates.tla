----------------------------- MODULE RunStates -----------------------------
(***************************************************************************)
(* The persisted life cycle of a Test Run: the status values of the        *)
(* contract, the groups the services test against, and the transition      *)
(* table of state_machine.py.  "ABSENT" stands for a run identifier whose  *)
(* row does not exist yet.                                                 *)
(***************************************************************************)

InFlight == {"QUEUED", "PREPARING", "RUNNING"}
Started == {"PREPARING", "RUNNING"}
Terminal == {"PASSED", "FAILED", "CANCELED", "TIMED_OUT", "INFRA_ERROR"}
Status == InFlight \cup Terminal \cup {"ABSENT"}

\* ALLOWED_RUN_TRANSITIONS, the terminal rows being empty.
Allowed ==
    [s \in Status |->
        CASE s = "QUEUED"    -> {"PREPARING", "CANCELED", "INFRA_ERROR"}
          [] s = "PREPARING" -> {"RUNNING", "CANCELED", "INFRA_ERROR"}
          [] s = "RUNNING"   -> Terminal
          [] OTHER           -> {}]

\* require_run_transition raises exactly when this is false.
CanMove(from, to) == to \in Allowed[from]
=============================================================================
