------------------------- MODULE MCEvalCoordinator -------------------------
(***************************************************************************)
(* The instance of EvalCoordinator that TLC checks: see the README for its  *)
(* bounds. Workers and payloads are interchangeable.                        *)
(***************************************************************************)
EXTENDS EvalCoordinator, TLC

CONSTANTS w1, w2, p1, p2

Symmetry == Permutations(Workers) \cup Permutations(Payloads)
=============================================================================
