CONSTANTS
    NodeIDs <- MCNodeIDs
    CoreIDToNodeIDMap <- MCCoreIDToNodeIDMap
    PodExcludes <- MCPodExcludes
    PodPhase <- MCPodPhase
    ReferenceContainer <- MCReferenceContainer
    NoReference = NoReference
    Namespace = AnyNamespace
    AnyNamespace = AnyNamespace
    AllocatableResponses <- MCAllocatableResponses
    PodLists <- MCPodLists
    NativeCapacity <- MCNativeCapacity
    ResourceExclude = {}
    ExcludeTerminalPods = TRUE
    RefreshNodeResources = TRUE
    MaxChanges = 2
SPECIFICATION Spec
INVARIANTS TypeOK ZonesBounded ZonesOfOneAnswer CleanScanIsExact
PROPERTIES TracksUnlessMissed
CHECK_DEADLOCK FALSE
