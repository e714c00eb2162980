SPECIFICATION Spec
CONSTANTS
  n1 = n1
  n2 = n2
  n3 = n3
  n4 = n4
  NoJob = NoJob
  Node <- MCNode
  SuccessEdges <- ForkSuccess
  FailureEdges = {}
  AlwaysEdges <- ForkAlways
  AllConverge = {n4}
  Outcomes = {"successful", "failed", "error"}
  Deletable = {n3}
  InitStatuses = {"running"}
INVARIANTS
  TypeOK
  DnrHasNoJob
  ParentsSettled
  RanOnlyIfReached
  SkippedOnlyIfClosed
  FinishedMeansConcluded
  DoneMeansDecided
