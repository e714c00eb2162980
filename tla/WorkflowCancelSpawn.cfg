SPECIFICATION Spec
CONSTANTS
  n1 = n1
  n2 = n2
  n3 = n3
  n4 = n4
  NoJob = NoJob
  Node <- MCNode
  SuccessEdges <- DiamondSuccess
  FailureEdges <- DiamondFailure
  AlwaysEdges <- DiamondAlways
  AllConverge = {}
  Outcomes = {"successful", "failed"}
  Deletable = {}
  InitStatuses = {"running"}
PROPERTY
  NothingSpawnedWhenCanceled
