CONSTANTS
    ConditionTypes = {"PodresourcesFetched", "NodeTopologyUpdated"}
    KubeletTypes = {"Ready"}
SPECIFICATION InjectorSpec
PROPERTY SkipsOnlyTheUnchanged
