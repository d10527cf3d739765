CONSTANTS
    NodeIDs <- MCNodeIDs
    CoreIDToNodeIDMap <- MCCoreIDToNodeIDMap
    PodExcludes <- MCPodExcludes
    PodPhase <- MCPodPhase
    ReferenceContainer <- MCReferenceContainer
    NoReference = NoReference
    Namespace = AnyNamespace
    AnyNamespace = AnyNamespace
    AllocatableResponses <- MCAllocatableResponses
    PodLists <- MCPodLists
    NativeCapacity <- MCNativeCapacity
    ResourceExclude = {}
    ExcludeTerminalPods = FALSE
    RefreshNodeResources = TRUE
    MaxChanges = 1
SPECIFICATION Spec
PROPERTY TracksChanges
CHECK_DEADLOCK FALSE
