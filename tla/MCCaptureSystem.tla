--------------------------- MODULE MCCaptureSystem ---------------------------
(* Instances of CaptureSystem small enough for TLC.                        *)
EXTENDS CaptureSystem

OneProducer == {"hook"}
LoopAndMain == {"loop", "main"}
=============================================================================
