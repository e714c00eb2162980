SPECIFICATION FairSpec
CONSTANTS
    project = project
    source = source
    inventory = inventory
    template = template
    hybrid = hybrid
    execution = execution
    controlplane = controlplane
    nodes1 = nodes1
    containers = containers
    None = None
    MaxTasks = 5
    MaxLaunches = 2
    MaxFaults = 1
    StartTaskLimit = 2
    ControlImpact = 1
    ControlPlane = controlplane
    Outcomes = {"successful", "failed"}
    Launchable <- MCLaunchable
    Target <- MCTarget
    UpdateOf <- MCUpdateOf
    SourcesOf <- MCSourcesOf
    SourceProject <- MCSourceProject
    Node <- MCNode
    NodeType <- MCNodeType
    Capacity <- MCCapacity
    Members <- MCMembers
    ContainerGroup <- MCContainerGroup
    MaxJobs <- MCMaxJobs
    MaxForks <- MCMaxForks
INVARIANTS TypeOK NoConflict DependenciesFirst UpdatesLinked WithinCapacity
PROPERTIES StartsUnblocked EveryTaskStarts
CHECK_DEADLOCK FALSE
