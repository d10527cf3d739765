CONSTANTS
    NodeIDs <- MCNodeIDs
    CoreIDToNodeIDMap <- MCCoreIDToNodeIDMap
    PodExcludes <- MCPodExcludes
    PodPhase <- MCPodPhase
    ReferenceContainer <- MCReferenceContainer
    NoReference = NoReference
    AnyNamespace = AnyNamespace
    Answers <- MCAnswers
    Namespaces = {AnyNamespace, "ns2"}
SPECIFICATION Spec
INVARIANTS LoopCountsUnits CountersAreExact ChargedPodsFingerprinted
CHECK_DEADLOCK FALSE
