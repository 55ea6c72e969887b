----------------------- MODULE MCMaterializationClosure -----------------------
(***************************************************************************)
(* Two publishers and the closer, with two faults and one power loss. Six   *)
(* directory names are more than the attempts that the faults allow.        *)
(***************************************************************************)
EXTENDS MaterializationClosure
=============================================================================
