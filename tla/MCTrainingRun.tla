---------------------------- MODULE MCTrainingRun ----------------------------
(***************************************************************************)
(* Two ranks over two small files, of two strides and of one.               *)
(***************************************************************************)
EXTENDS TrainingRun

MCRowGroups == <<3, 2>>
=============================================================================
