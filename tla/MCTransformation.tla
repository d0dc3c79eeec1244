------------------------- MODULE MCTransformation -------------------------
(* Bounded instances of Transformation for TLC.                             *)
EXTENDS Transformation

ConversionFaults == {"convert", "alloc"}
InvalidSamples == {"invalid"}
============================================================================
