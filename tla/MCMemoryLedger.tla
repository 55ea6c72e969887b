--------------------------- MODULE MCMemoryLedger ---------------------------
(***************************************************************************)
(* The instance of MemoryLedger that TLC checks. Memories are               *)
(* interchangeable.                                                         *)
(***************************************************************************)
EXTENDS MemoryLedger, TLC

CONSTANTS m1, m2, m3, a1, k1

Symmetry == Permutations(Ids)
=============================================================================
