---------------------------- MODULE MCGovernance ----------------------------
(***************************************************************************)
(* Instances of Governance for TLC: a tester who writes, a reviewer, an    *)
(* administrator who may do both.                                          *)
(***************************************************************************)
EXTENDS Governance, TLC

CONSTANTS k1, k2, tester, reviewer, admin

KeySymmetry == Permutations(Keys)
=============================================================================
