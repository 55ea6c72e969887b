-------------------------- MODULE MCEvidenceClosure --------------------------
(***************************************************************************)
(* The instances of EvidenceClosure that TLC checks: one closer that may    *)
(* crash, and two closers at once.                                          *)
(***************************************************************************)
EXTENDS EvidenceClosure

CONSTANTS c1, c2, i1, i2, i3, i4
=============================================================================
