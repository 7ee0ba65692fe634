---------------------- MODULE MCTransformationPipeline ----------------------
EXTENDS TransformationPipeline, TLC
=============================================================================
