--------------------------- MODULE MCPipelineWait ---------------------------
(* A delivery pipeline of three stages.                                     *)
EXTENDS PipelineWait
CONSTANTS dev, nonprod, prod
ThreeTargets == {dev, nonprod, prod}
ThreeStages == <<dev, nonprod, prod>>
=============================================================================
