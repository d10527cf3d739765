---------------------------- MODULE PodResources ----------------------------
(***************************************************************************)
(* What one scan makes of the kubelet's podresources answers, as operators *)
(* (pkg/podres/middleware, pkg/podres/filter/numalocality and the counting *)
(* half of pkg/resourcemonitor).                                           *)
(*                                                                         *)
(* In a topology, nodes is the set of its NUMA IDs, empty when there is no *)
(* topology.  A glob pattern is the set of the names it matches, empty     *)
(* when it is malformed.                                                   *)
(*                                                                         *)
(* Neither the fingerprint nor a counter depends on the order of the pods  *)
(* or of the device entries.  A list the code filters is a function on the *)
(* positions of the kubelet's answer, without those that were left out; a  *)
(* list the code collects is a set, and its members say where they are     *)
(* from.                                                                   *)
(***************************************************************************)
EXTENDS Integers, Sequences, FiniteSets, FiniteSetsExt, Functions

CONSTANTS
    NodeIDs,           \* the indices of topo.Nodes; the code takes them for the IDs
    CoreIDToNodeIDMap, \* the NUMA node of every logical processor it knows
    PodExcludes,       \* podexclude.List: records [namespace, name] of patterns
    PodPhase,          \* the phase of every pod the API server knows, by identity
    ReferenceContainer,\* [namespace, pod, container], or NoReference
    NoReference,
    AnyNamespace       \* args.Namespace is empty

ASSUME PodResourcesAssumption ==
    /\ NodeIDs \subseteq Nat
    /\ \A cpu \in DOMAIN CoreIDToNodeIDMap : CoreIDToNodeIDMap[cpu] \in NodeIDs

\* The messages of the podresources API.
ContainerDevices == [resource : STRING, count : Nat, nodes : SUBSET Int]
ContainerMemory == [resource : STRING, size : Nat, nodes : SUBSET Int]
ContainerResources == [name : STRING, cpus : SUBSET Nat, devices : Seq(ContainerDevices),
                       memory : Seq(ContainerMemory)]
PodResourcesMessage == [namespace : STRING, name : STRING, containers : Seq(ContainerResources)]

\* They are finite.
FiniteMessage(cnt) ==
    /\ IsFiniteSet(cnt.cpus)
    /\ \A k \in DOMAIN cnt.memory : IsFiniteSet(cnt.memory[k].nodes)

ListMessage(podRes) ==
    /\ podRes \in Seq(PodResourcesMessage)
    /\ \A i \in DOMAIN podRes : \A j \in DOMAIN podRes[i].containers :
          FiniteMessage(podRes[i].containers[j])

----------------------------------------------------------------------------
(* The middleware main.go stacks on the podresources client, inner first.    *)

\* findSharedPoolCPUsInListResponse: the CPUs of the reference container.  Pods
\* and the containers of a pod have distinct names, so there is at most one.
SharedPoolCPUs(podRes) ==
    UNION {cnt.cpus : cnt \in
        {c \in UNION {Range(pr.containers) : pr \in
                 {p \in Range(podRes) : ReferenceContainer # NoReference
                                        /\ p.namespace = ReferenceContainer.namespace
                                        /\ p.name = ReferenceContainer.pod}} :
            c.name = ReferenceContainer.container}}

\* removeCPUs.
removeCPUs(cpus, toRemove) == cpus \ toRemove

WithoutCPUs(cnt, toRemove) == [cnt EXCEPT !.cpus = removeCPUs(@, toRemove)]

\* sharedcpuspool: no container of the answer keeps a CPU of the shared pool.
RemoveSharedPool(podRes) ==
    LET without(pr) == [j \in DOMAIN pr.containers |->
                           WithoutCPUs(pr.containers[j], SharedPoolCPUs(podRes))]
    IN  [i \in DOMAIN podRes |-> [podRes[i] EXCEPT !.containers = without(podRes[i])]]

\* podexclude.ShouldExclude.
ShouldExclude(pr) ==
    \E item \in PodExcludes : pr.namespace \in item.namespace /\ pr.name \in item.name

ExcludePods(podRes) ==
    Restrict(podRes, {i \in DOMAIN podRes : ~ ShouldExclude(podRes[i])})

PodIdent(pr) == [namespace |-> pr.namespace, name |-> pr.name]

\* terminalpods: what the informer's field selector lets through.  (The factory
\* is started before it knows the informer, which therefore never runs.)
TerminalPodsListed ==
    {id \in DOMAIN PodPhase : PodPhase[id] = "Failed" /\ PodPhase[id] = "Succeeded"}

\* terminalpods.FilterFrom.
FilterFrom(podRes) ==
    Restrict(podRes, {i \in DOMAIN podRes : PodIdent(podRes[i]) \notin TerminalPodsListed})

\* What -exclude-terminal-pods adds.
FilterIfAsked(podRes, excludeTerminalPods) ==
    IF excludeTerminalPods THEN FilterFrom(podRes) ELSE podRes

\* List() as resourceMonitor sees it.
ListPodResources(podRes, excludeTerminalPods) ==
    FilterIfAsked(ExcludePods(RemoveSharedPool(podRes)), excludeTerminalPods)

----------------------------------------------------------------------------
(* pkg/podres/filter/numalocality and the pod fingerprint.                   *)

\* IsPresent: -1 is a legal representation for "don't care about locality".
IsPresent(nodes) == \E id \in nodes : id >= 0

\* Mutant: only the first container is looked at.
VerifyFirst(pr) ==
    /\ pr.containers # <<>>
    /\ LET cr == pr.containers[1]
       IN  \/ cr.cpus # {}
           \/ \E mem \in Range(cr.memory) : IsPresent(mem.nodes)
           \/ \E dev \in Range(cr.devices) : dev.count > 0 /\ IsPresent(dev.nodes)

\* Verify: the pod has a resource that is assigned exclusively to a NUMA node.
Verify(pr) ==
    \E cr \in Range(pr.containers) :
        \/ cr.cpus # {}
        \/ \E mem \in Range(cr.memory) : IsPresent(mem.nodes)
        \/ \E dev \in Range(cr.devices) : dev.count > 0 /\ IsPresent(dev.nodes)

\* The pods that go into the fingerprint; its hash is not modelled.
Fingerprinted(podRes, methodAll) ==
    Restrict(podRes, {i \in DOMAIN podRes : methodAll \/ Verify(podRes[i])})

----------------------------------------------------------------------------
(* Counting.                                                                 *)

DeviceEntry(from, resource, amount, nodes) ==
    [from |-> from, resource |-> resource, amount |-> amount, nodes |-> nodes]

\* One device entry for each NUMA node that has some of the CPUs.
CPUDevices(cpus) ==
    LET known == cpus \cap DOMAIN CoreIDToNodeIDMap
        on(id) == {cpu \in known : CoreIDToNodeIDMap[cpu] = id}
    IN  {DeviceEntry(<<"cpu", 1, id>>, "cpu", Cardinality(on(id)), {id}) :
            id \in {CoreIDToNodeIDMap[cpu] : cpu \in known}}

\* Mutant: a memory block counts only on its first NUMA node.
MemoryDevicesFirst(memory) ==
    {DeviceEntry(<<"memory", k, 0>>, memory[k].resource, memory[k].size, {Min(memory[k].nodes)}) :
        k \in {b \in DOMAIN memory : memory[b].size # 0 /\ memory[b].nodes # {}}}

\* One device entry for each NUMA node of a memory block.
MemoryDevices(memory) ==
    UNION {{DeviceEntry(<<"memory", k, id>>, memory[k].resource, memory[k].size, {id}) :
               id \in memory[k].nodes} : k \in {b \in DOMAIN memory : memory[b].size # 0}}

\* NormalizeContainerDevices.
NormalizeContainerDevices(cnt) ==
    {DeviceEntry(<<"device", k, 0>>, cnt.devices[k].resource, cnt.devices[k].count,
                 cnt.devices[k].nodes) : k \in DOMAIN cnt.devices}
        \cup CPUDevices(cnt.cpus) \cup MemoryDevices(cnt.memory)

\* The positions of the containers of the pods in a namespace.
ContainersIn(podRes, namespace) ==
    UNION {{i} \X DOMAIN podRes[i].containers :
              i \in {k \in DOMAIN podRes : namespace \in {AnyNamespace, podRes[k].namespace}}}

\* GetAllContainerDevices.
GetAllContainerDevices(podRes, namespace) ==
    UNION {{DeviceEntry(<<ij, dev.from>>, dev.resource, dev.amount, dev.nodes) :
               dev \in NormalizeContainerDevices(podRes[ij[1]].containers[ij[2]])} :
              ij \in ContainersIn(podRes, namespace)}

\* A missing key of a Go map reads as zero.
Lookup(counters, p) == IF p \in DOMAIN counters THEN counters[p] ELSE 0

\* The counters an entry goes to: one for each NUMA node of its topology.
Charged(dev) == dev.nodes \X {dev.resource}

\* Mutant: an entry replaces what the counter held.
CountDeviceReplaces(counters, dev) ==
    [p \in DOMAIN counters \cup Charged(dev) |->
        IF p \in Charged(dev) THEN dev.amount ELSE Lookup(counters, p)]

\* The body of the loop in ContainerDevicesToPerNUMAResourceCounters: an entry
\* counts in full on every NUMA node of its topology.
CountDevice(counters, dev) ==
    [p \in DOMAIN counters \cup Charged(dev) |->
        Lookup(counters, p) + IF p \in Charged(dev) THEN dev.amount ELSE 0]

\* The units of the entries that go to a counter.
Units(devs, p) == UNION {{dev} \X (1 .. dev.amount) : dev \in {d \in devs : p \in Charged(d)}}

\* ContainerDevicesToPerNUMAResourceCounters: what its loop computes, as ScanInput
\* shows.  Only pairs that occur are in the domain.
PerNUMAResourceCounters(devs) ==
    [p \in UNION {Charged(dev) : dev \in devs} |-> Cardinality(Units(devs, p))]

============================================================================
