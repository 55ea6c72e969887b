----------------------- MODULE MCFrozenPanelExecutor -----------------------
(***************************************************************************)
(* The instance of FrozenPanelExecutor that TLC checks: see the README for  *)
(* its bounds.                                                              *)
(***************************************************************************)
EXTENDS FrozenPanelExecutor

CONSTANTS w1, p1, p2
=============================================================================
