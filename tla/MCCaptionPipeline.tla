------------------------- MODULE MCCaptionPipeline -------------------------
(* Small instances of the worker's caption path.                           *)
EXTENDS CaptionPipeline
=============================================================================
