---------------------------- MODULE MCRunControl ----------------------------
(***************************************************************************)
(* Instances of RunControl for TLC.  Two workers; w2 isolates execution    *)
(* more strongly than w1.                                                  *)
(***************************************************************************)
EXTENDS RunControl, TLC

CONSTANTS r1, r2, w1, w2, s1, s2

\* One slot on each worker.
HostSpread == (s1 :> w1) @@ (s2 :> w2)
SuitsAll == [r \in Runs |-> Workers]
RankEqual == [w \in Workers |-> 1]
RankMixed == (w1 :> 1) @@ (w2 :> 2)
\* The runs of one pool are interchangeable.
RunSymmetry == Permutations(Runs)
=============================================================================
