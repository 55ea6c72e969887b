--------------------------- MODULE MCProofPlanning ---------------------------
(***************************************************************************)
(* The instance of ProofPlanning that TLC checks. Memories, and actions,    *)
(* are interchangeable.                                                     *)
(***************************************************************************)
EXTENDS ProofPlanning, TLC

CONSTANTS m1, m2, a1, k1, w1, act, wait

Symmetry == Permutations(Ids) \cup Permutations(Actions)
=============================================================================
