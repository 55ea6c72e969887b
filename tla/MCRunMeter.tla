------------------------------ MODULE MCRunMeter ------------------------------
(***************************************************************************)
(* Three scopes over a pool of two pairs.                                   *)
(***************************************************************************)
EXTENDS RunMeter
=============================================================================
