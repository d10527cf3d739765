CONSTANTS
    NodeIDs <- MCNodeIDs
    CoreIDToNodeIDMap <- MCCoreIDToNodeIDMap
    PodExcludes <- MCPodExcludes
    PodPhase <- MCPodPhase
    ReferenceContainer <- MCReferenceContainer
    NoReference = NoReference
    Namespace = AnyNamespace
    AnyNamespace = AnyNamespace
    AllocatableResponses <- MCUnlocalResponses
    PodLists <- MCPodLists
    NativeCapacity <- MCNativeCapacity
    ResourceExclude = {}
    ExcludeTerminalPods = FALSE
    RefreshNodeResources = TRUE
    MaxChanges = 2
SPECIFICATION Spec
INVARIANT LegalAnswersDigested
CHECK_DEADLOCK FALSE
