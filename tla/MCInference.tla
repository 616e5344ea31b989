---------------------------- MODULE MCInference ----------------------------
(***************************************************************************)
(* Small instances of Inference, and with it of DetectionShare, for TLC.   *)
(***************************************************************************)
EXTENDS Inference

=============================================================================
