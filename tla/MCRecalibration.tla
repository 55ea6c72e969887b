---------------------------- MODULE MCRecalibration ----------------------------
(***************************************************************************)
(* Two digests of each kind and one initial authority with its successors.  *)
(***************************************************************************)
EXTENDS CalibrationLifecycle
=============================================================================
