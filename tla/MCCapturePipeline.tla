-------------------------- MODULE MCCapturePipeline --------------------------
(* Instances of CapturePipeline small enough for TLC.                      *)
EXTENDS CapturePipeline

CONSTANTS p1, p2

TwoProducers == {p1, p2}
=============================================================================
