---------------------- MODULE MCTransformationPlugin ----------------------
(* A bounded instance of TransformationPlugin for TLC.                      *)
EXTENDS TransformationPlugin

CONSTANTS t1, t2, t3
ThreeTransforms == {t1, t2, t3}
EveryStage == Range(PluginStages) \cup Range(TransformStages)
============================================================================
