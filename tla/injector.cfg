CONSTANTS
    ConditionTypes = {"PodresourcesFetched", "NodeTopologyUpdated"}
    KubeletTypes = {"Ready"}
SPECIFICATION InjectorSpec
INVARIANTS InjectorTypeOK CacheIsServer
PROPERTIES KubeletConditionsKept StatusConverges
