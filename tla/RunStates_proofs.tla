-------------------------- MODULE RunStates_proofs --------------------------
(***************************************************************************)
(* What the transition table of a Test Run admits, for the proofs about    *)
(* the modules that move runs through it.                                  *)
(***************************************************************************)
EXTENDS RunStates, TLAPS

\* What the transition table of state_machine.py admits, read backwards.
LEMMA TableFacts ==
    ASSUME NEW from \in Status, NEW to, CanMove(from, to)
    PROVE  /\ from \in InFlight
           /\ to \in Started \cup Terminal
           /\ to = "PREPARING" => from = "QUEUED"
           /\ to = "RUNNING" => from = "PREPARING"
BY DEF CanMove, Allowed, Status, InFlight, Started, Terminal

\* Every in-flight run may be canceled and may end in INFRA_ERROR.
LEMMA TableEnds ==
    ASSUME NEW from \in InFlight
    PROVE  CanMove(from, "CANCELED") /\ CanMove(from, "INFRA_ERROR")
BY DEF CanMove, Allowed, Status, InFlight, Started, Terminal
=============================================================================
