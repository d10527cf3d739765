----------------------------- MODULE ScanInput -----------------------------
(***************************************************************************)
(* The way of one List answer of the kubelet through the middleware that   *)
(* main.go stacks on the podresources client, innermost first, to the pod  *)
(* fingerprint and to the counters of allocated resources.  The device     *)
(* entries are counted one by one, in any order: the code collects those   *)
(* of the CPUs from a Go map.                                              *)
(***************************************************************************)
EXTENDS PodResources

CONSTANTS
    Answers,      \* the List answers to look at
    Namespaces    \* what args.Namespace may be

ASSUME ScanAssumption == \A podRes \in Answers : ListMessage(podRes)

VARIABLES
    namespace,    \* args.Namespace
    methodAll,    \* the fingerprint takes all pods, not only those Verify allows
    excludeTerminalPods, \* -exclude-terminal-pods
    stage,        \* where the answer is
    answer,       \* what the kubelet answered
    podRes,       \* what the middleware made of it so far
    fingerprint,  \* the pods that were added to the fingerprint
    todo,         \* the device entries that are not counted yet
    counters      \* the allocated resources

vars == <<namespace, methodAll, excludeTerminalPods, stage, answer, podRes, fingerprint, todo, counters>>

Init ==
    /\ namespace \in Namespaces
    /\ methodAll \in BOOLEAN
    /\ excludeTerminalPods \in BOOLEAN
    /\ stage = "kubelet"
    /\ answer \in Answers
    /\ podRes = answer
    /\ fingerprint = <<>>
    /\ todo = {}
    /\ counters = <<>>

SharedCPUsPoolList ==
    /\ stage = "kubelet"
    /\ stage' = "sharedcpuspool"
    /\ podRes' = RemoveSharedPool(podRes)
    /\ UNCHANGED <<namespace, methodAll, excludeTerminalPods, answer, fingerprint, todo, counters>>

PodExcludeList ==
    /\ stage = "sharedcpuspool"
    /\ stage' = "podexclude"
    /\ podRes' = ExcludePods(podRes)
    /\ UNCHANGED <<namespace, methodAll, excludeTerminalPods, answer, fingerprint, todo, counters>>

\* This filter is stacked only when the flag is given.
TerminalPodsList ==
    /\ stage = "podexclude"
    /\ stage' = "terminalpods"
    /\ podRes' = FilterIfAsked(podRes, excludeTerminalPods)
    /\ UNCHANGED <<namespace, methodAll, excludeTerminalPods, answer, fingerprint, todo, counters>>

\* Scan: the fingerprint, and then GetAllContainerDevices.
ScanAnswer ==
    /\ stage = "terminalpods"
    /\ stage' = "counting"
    /\ fingerprint' = Fingerprinted(podRes, methodAll)
    /\ todo' = GetAllContainerDevices(podRes, namespace)
    /\ UNCHANGED <<namespace, methodAll, excludeTerminalPods, answer, podRes, counters>>

\* ContainerDevicesToPerNUMAResourceCounters, one entry at a time.
CountOne ==
    /\ stage = "counting"
    /\ \E dev \in todo :
          /\ counters' = CountDevice(counters, dev)
          /\ todo' = todo \ {dev}
    /\ UNCHANGED <<namespace, methodAll, excludeTerminalPods, stage, answer, podRes, fingerprint>>

CountingEnds ==
    /\ stage = "counting"
    /\ todo = {}
    /\ stage' = "scanned"
    /\ UNCHANGED <<namespace, methodAll, excludeTerminalPods, answer, podRes, fingerprint, todo, counters>>

Next ==
    \/ SharedCPUsPoolList \/ PodExcludeList \/ TerminalPodsList
    \/ ScanAnswer \/ CountOne \/ CountingEnds

Spec == Init /\ [][Next]_vars

----------------------------------------------------------------------------
(* Properties.                                                               *)

\* "A pod is in a terminal state if .status.phase in (Failed, Succeeded) is true."
Terminal(pr) ==
    PodIdent(pr) \in DOMAIN PodPhase /\ PodPhase[PodIdent(pr)] \in {"Failed", "Succeeded"}

\* The containers that should count: positions of pod and container.
Counted ==
    {ij \in ContainersIn(answer, namespace) :
        ~ ShouldExclude(answer[ij[1]]) /\ ~ (excludeTerminalPods /\ Terminal(answer[ij[1]]))}

\* The flag is given and there is a pod it is for.
TerminalPodsAsked == excludeTerminalPods /\ \E i \in DOMAIN answer : Terminal(answer[i])

\* The units of a resource a container has on NUMA node id, taken from the
\* kubelet's answer without the intermediate device entries.
Has(cnt, id, resource) ==
    LET ofDevices == UNION {{"device"} \X {k} \X (1 .. cnt.devices[k].count) :
                        k \in {d \in DOMAIN cnt.devices : cnt.devices[d].resource = resource
                                                       /\ id \in cnt.devices[d].nodes}}
        ofMemory == UNION {{"memory"} \X {k} \X (1 .. cnt.memory[k].size) :
                        k \in {b \in DOMAIN cnt.memory : cnt.memory[b].resource = resource
                                                      /\ id \in cnt.memory[b].nodes}}
        cpus == {cpu \in (cnt.cpus \cap DOMAIN CoreIDToNodeIDMap) \ SharedPoolCPUs(answer) :
                    resource = "cpu" /\ CoreIDToNodeIDMap[cpu] = id}
    IN  ofDevices \cup ofMemory \cup {"cpu"} \X cpus \X {1}

\* The units all containers that count have there.
Held(id, resource) ==
    UNION {{ij} \X Has(answer[ij[1]].containers[ij[2]], id, resource) : ij \in Counted}

\* All resources of the answer.
Resources ==
    {"cpu"} \cup UNION {{entry.resource : entry \in Range(answer[ij[1]].containers[ij[2]].devices)
                                           \cup Range(answer[ij[1]].containers[ij[2]].memory)} :
                         ij \in ContainersIn(answer, AnyNamespace)}

(***************************************************************************)
(* The loop over the device entries leaves in every counter the number of  *)
(* units of the entries it is for, in whatever order it takes them, and    *)
(* has a counter for every pair of a NUMA node and a resource that occurs, *)
(* and for no other.  ResourceMonitor takes the counters from here.        *)
(***************************************************************************)
LoopCountsUnits ==
    stage = "scanned" =>
        counters = PerNUMAResourceCounters(GetAllContainerDevices(podRes, namespace))

(***************************************************************************)
(* The counters are exact: for every NUMA node and resource they hold the  *)
(* number of units that the containers of the pods that are not excluded   *)
(* have there, the CPUs without those of the shared pool.  The pool is the *)
(* one of the kubelet's answer, also when the reference pod itself is      *)
(* excluded.  Not so when -exclude-terminal-pods is given and there are    *)
(* terminal pods: terminalpods then lets them all pass, and they count.    *)
(***************************************************************************)
CountersAreExact ==
    (stage = "scanned" /\ ~ TerminalPodsAsked) =>
        \A id \in NodeIDs, resource \in Resources :
            Lookup(counters, <<id, resource>>) = Cardinality(Held(id, resource))

(***************************************************************************)
(* The fingerprint covers the counters: with either method, every pod that *)
(* a counter charges to some NUMA node is in the fingerprint, so the       *)
(* scheduler cannot take an older set of pods for the one that was counted.*)
(***************************************************************************)
ChargedPodsFingerprinted ==
    stage = "scanned" =>
        \A ij \in ContainersIn(podRes, namespace), id \in NodeIDs, resource \in Resources :
            Has(answer[ij[1]].containers[ij[2]], id, resource) # {} => ij[1] \in DOMAIN fingerprint

============================================================================
