----------------------- MODULE ResourceMonitorProofs -----------------------
(***************************************************************************)
(* Proofs about ResourceMonitor: whatever the interleaving of a scan and a *)
(* refresh, a scan reports sane numbers.  ZonesBounded is not inductive:   *)
(* the entries are computed from allocated, nodeAllocatable and the map    *)
(* the scan holds, so these must be known to hold natural numbers.  That a *)
(* scan nothing overlaps is exact needs, in addition, how far the scan has *)
(* come and that the capacity of a device never differs from its           *)
(* allocatable, whichever refresh failed last.                             *)
(***************************************************************************)
EXTENDS ResourceMonitor, FiniteSetTheorems, WellFoundedInduction, TLAPS

----------------------------------------------------------------------------
(* The counters a scan and a refresh take from the kubelet's answers hold    *)
(* natural numbers: what is counted is finite.                               *)

\* A container that NormalizeContainerDevices can count.
Countable(cnt) ==
    /\ FiniteMessage(cnt)
    /\ IsFiniteSet(DOMAIN cnt.devices) /\ \A k \in DOMAIN cnt.devices : cnt.devices[k].count \in Nat
    /\ IsFiniteSet(DOMAIN cnt.memory) /\ \A k \in DOMAIN cnt.memory : cnt.memory[k].size \in Nat

\* A list that GetAllContainerDevices can count.
CountableList(podRes) ==
    /\ IsFiniteSet(DOMAIN podRes)
    /\ \A i \in DOMAIN podRes :
          /\ IsFiniteSet(DOMAIN podRes[i].containers)
          /\ \A j \in DOMAIN podRes[i].containers : Countable(podRes[i].containers[j])

\* Entries that ContainerDevicesToPerNUMAResourceCounters can count.
CountableEntries(devs) == IsFiniteSet(devs) /\ \A dev \in devs : dev.amount \in Nat

\* A function on a finite set takes finitely many values.
LEMMA FiniteImage ==
  ASSUME NEW f, IsFiniteSet(DOMAIN f)
  PROVE  IsFiniteSet({f[x] : x \in DOMAIN f})
  <1> DEFINE g == [x \in DOMAIN f |-> f[x]]
  <1>1. g \in Surjection(DOMAIN f, {f[x] : x \in DOMAIN f})
    BY DEF Surjection
  <1> QED
    BY <1>1, FS_Surjection

\* A union of finitely many finite sets is finite.
LEMMA FiniteUnion ==
  ASSUME NEW f, IsFiniteSet(DOMAIN f), \A x \in DOMAIN f : IsFiniteSet(f[x])
  PROVE  IsFiniteSet(UNION {f[x] : x \in DOMAIN f})
  <1>1. \A T \in {f[x] : x \in DOMAIN f} : IsFiniteSet(T)
    OBVIOUS
  <1> QED
    BY <1>1, FiniteImage, FS_UNION

\* The amount of a device entry.
LEMMA EntryAmount ==
  ASSUME NEW from, NEW resource, NEW amount, NEW nodes
  PROVE  DeviceEntry(from, resource, amount, nodes).amount = amount
  BY DEF DeviceEntry

\* A list has finitely many positions.
LEMMA SeqFinite ==
  ASSUME NEW S, NEW s \in Seq(S) PROVE IsFiniteSet(DOMAIN s)
  <1>1. DOMAIN s = 1 .. Len(s) /\ Len(s) \in Nat
    OBVIOUS
  <1> QED
    BY <1>1, FS_Interval

\* The messages of the kubelet can be counted.
LEMMA MessageCountable ==
  ASSUME NEW cnt \in ContainerResources, FiniteMessage(cnt) PROVE Countable(cnt)
  <1>1. cnt.devices \in Seq(ContainerDevices) /\ cnt.memory \in Seq(ContainerMemory)
    BY DEF ContainerResources
  <1>2. /\ \A k \in DOMAIN cnt.devices : cnt.devices[k] \in ContainerDevices
        /\ \A k \in DOMAIN cnt.memory : cnt.memory[k] \in ContainerMemory
    BY <1>1
  <1>3. /\ \A k \in DOMAIN cnt.devices : cnt.devices[k].count \in Nat
        /\ \A k \in DOMAIN cnt.memory : cnt.memory[k].size \in Nat
    BY <1>2 DEF ContainerDevices, ContainerMemory
  <1> QED
    BY <1>1, <1>3, SeqFinite DEF Countable

\* NormalizeContainerDevices makes finitely many entries, with finite amounts.
LEMMA NormalizeCountable ==
  ASSUME NEW cnt, Countable(cnt) PROVE CountableEntries(NormalizeContainerDevices(cnt))
  <1>1. CountableEntries({DeviceEntry(<<"device", k, 0>>, cnt.devices[k].resource,
                              cnt.devices[k].count, cnt.devices[k].nodes) : k \in DOMAIN cnt.devices})
    <2> DEFINE f == [k \in DOMAIN cnt.devices |->
                        DeviceEntry(<<"device", k, 0>>, cnt.devices[k].resource,
                                    cnt.devices[k].count, cnt.devices[k].nodes)]
    <2>1. IsFiniteSet({f[k] : k \in DOMAIN f})
      BY FiniteImage DEF Countable
    <2>2. \A k \in DOMAIN f : f[k].amount \in Nat
      BY EntryAmount DEF Countable
    <2> QED
      BY <2>1, <2>2 DEF CountableEntries
  <1>2. CountableEntries(CPUDevices(cnt.cpus))
    <2> DEFINE known == cnt.cpus \cap DOMAIN CoreIDToNodeIDMap
               on(id) == {cpu \in known : CoreIDToNodeIDMap[cpu] = id}
               node == [cpu \in known |-> CoreIDToNodeIDMap[cpu]]
               ids == {CoreIDToNodeIDMap[cpu] : cpu \in known}
               f == [id \in ids |-> DeviceEntry(<<"cpu", 1, id>>, "cpu", Cardinality(on(id)), {id})]
    <2>1. IsFiniteSet(known)
      BY FS_Intersection DEF Countable, FiniteMessage
    <2>2. IsFiniteSet(ids)
      <3>1. ids = {node[cpu] : cpu \in DOMAIN node}
        OBVIOUS
      <3> QED
        BY <2>1, <3>1, FiniteImage
    <2>3. IsFiniteSet({f[id] : id \in DOMAIN f})
      BY <2>2, FiniteImage
    <2>4. ASSUME NEW id \in ids PROVE f[id].amount \in Nat
      <3>1. on(id) \in SUBSET known
        OBVIOUS
      <3>2. IsFiniteSet(on(id))
        BY <2>1, <3>1, FS_Subset
      <3>3. Cardinality(on(id)) \in Nat
        BY <3>2, FS_CardinalityType
      <3> QED
        BY <3>3, EntryAmount
    <2>5. CPUDevices(cnt.cpus) = {f[id] : id \in ids}
      BY DEF CPUDevices
    <2> QED
      BY <2>3, <2>4, <2>5 DEF CountableEntries
  <1>3. CountableEntries(MemoryDevices(cnt.memory))
    <2> DEFINE blocks == {b \in DOMAIN cnt.memory : cnt.memory[b].size # 0}
               of(k) == {DeviceEntry(<<"memory", k, id>>, cnt.memory[k].resource, cnt.memory[k].size, {id}) :
                            id \in cnt.memory[k].nodes}
               f == [k \in blocks |-> of(k)]
    <2>1. IsFiniteSet(blocks)
      <3>1. blocks \in SUBSET DOMAIN cnt.memory
        OBVIOUS
      <3> QED
        BY <3>1, FS_Subset DEF Countable
    <2>2. ASSUME NEW k \in blocks
          PROVE  IsFiniteSet(of(k)) /\ \A dev \in of(k) : dev.amount \in Nat
      <3> DEFINE g == [id \in cnt.memory[k].nodes |->
                          DeviceEntry(<<"memory", k, id>>, cnt.memory[k].resource, cnt.memory[k].size, {id})]
      <3>1. IsFiniteSet({g[id] : id \in DOMAIN g})
        BY FiniteImage DEF Countable, FiniteMessage
      <3>2. of(k) = {g[id] : id \in DOMAIN g}
        OBVIOUS
      <3>3. \A id \in DOMAIN g : g[id].amount \in Nat
        BY EntryAmount DEF Countable
      <3> QED
        BY <3>1, <3>2, <3>3
    <2>3. MemoryDevices(cnt.memory) = UNION {of(k) : k \in blocks}
      BY DEF MemoryDevices
    <2> HIDE DEF of, blocks
    <2>4. IsFiniteSet(UNION {f[k] : k \in DOMAIN f})
      BY <2>1, <2>2, FiniteUnion
    <2>5. {f[k] : k \in DOMAIN f} = {of(k) : k \in blocks}
      OBVIOUS
    <2>6. IsFiniteSet(MemoryDevices(cnt.memory))
      BY <2>3, <2>4, <2>5
    <2>7. \A dev \in MemoryDevices(cnt.memory) : dev.amount \in Nat
      BY <2>2, <2>3
    <2> QED
      BY <2>6, <2>7 DEF CountableEntries
  <1> QED
    BY <1>1, <1>2, <1>3, FS_Union DEF CountableEntries, NormalizeContainerDevices

\* No middleware makes a list uncountable.
LEMMA ListCountable ==
  ASSUME NEW podRes, ListMessage(podRes), NEW excludeTerminalPods
  PROVE  CountableList(ListPodResources(podRes, excludeTerminalPods))
  <1> DEFINE unshared == RemoveSharedPool(podRes)
             without(pr) == [j \in DOMAIN pr.containers |->
                                WithoutCPUs(pr.containers[j], SharedPoolCPUs(podRes))]
  <1>1. podRes \in Seq(PodResourcesMessage)
    BY DEF ListMessage
  <1>2. \A i \in DOMAIN podRes : podRes[i] \in PodResourcesMessage
    BY <1>1
  <1>3. \A i \in DOMAIN podRes : podRes[i].containers \in Seq(ContainerResources)
    BY <1>2 DEF PodResourcesMessage
  <1>4. ASSUME NEW i \in DOMAIN podRes PROVE unshared[i].containers = without(podRes[i])
    <2>1. unshared[i] = [podRes[i] EXCEPT !.containers = without(podRes[i])]
      BY DEF RemoveSharedPool
    <2> HIDE DEF without, unshared
    <2> QED
      BY <1>2, <2>1 DEF PodResourcesMessage
  <1>5. ASSUME NEW i \in DOMAIN podRes, NEW j \in DOMAIN podRes[i].containers
        PROVE  Countable(unshared[i].containers[j])
    <2> DEFINE cnt == podRes[i].containers[j]
    <2>1. cnt \in ContainerResources /\ FiniteMessage(cnt)
      BY <1>3 DEF ListMessage
    <2>2. unshared[i].containers[j] = WithoutCPUs(cnt, SharedPoolCPUs(podRes))
      BY <1>4
    <2> HIDE DEF cnt, unshared
    <2>3. /\ unshared[i].containers[j].devices = cnt.devices
          /\ unshared[i].containers[j].memory = cnt.memory
          /\ unshared[i].containers[j].cpus \in SUBSET cnt.cpus
      BY <2>1, <2>2 DEF ContainerResources, WithoutCPUs, removeCPUs
    <2>4. IsFiniteSet(unshared[i].containers[j].cpus)
      BY <2>1, <2>3, FS_Subset DEF FiniteMessage
    <2> QED
      BY <2>1, <2>3, <2>4, MessageCountable DEF Countable, FiniteMessage
  <1>6. CountableList(unshared)
    <2>1. DOMAIN unshared = DOMAIN podRes /\ IsFiniteSet(DOMAIN podRes)
      BY <1>1, SeqFinite DEF RemoveSharedPool
    <2>2. \A i \in DOMAIN podRes :
             /\ DOMAIN unshared[i].containers = DOMAIN podRes[i].containers
             /\ IsFiniteSet(DOMAIN podRes[i].containers)
      BY <1>3, <1>4, SeqFinite
    <2> HIDE DEF unshared
    <2> QED
      BY <1>5, <2>1, <2>2 DEF CountableList
  <1>7. ASSUME NEW list, CountableList(list), NEW kept \in SUBSET DOMAIN list
        PROVE  CountableList(Restrict(list, kept))
    <2>1. DOMAIN Restrict(list, kept) = kept /\ \A i \in kept : Restrict(list, kept)[i] = list[i]
      BY DEF Restrict
    <2>2. IsFiniteSet(kept)
      BY <1>7, FS_Subset DEF CountableList
    <2> QED
      BY <1>7, <2>1, <2>2 DEF CountableList
  <1> HIDE DEF unshared
  <1>8. CountableList(ExcludePods(unshared))
    BY <1>6, <1>7 DEF ExcludePods
  <1>9. CountableList(FilterFrom(ExcludePods(unshared)))
    BY <1>7, <1>8 DEF FilterFrom
  <1> QED
    BY <1>8, <1>9 DEF ListPodResources, FilterIfAsked, unshared

\* GetAllContainerDevices makes finitely many entries.
LEMMA AllDevicesCountable ==
  ASSUME NEW podRes, CountableList(podRes), NEW namespace
  PROVE  CountableEntries(GetAllContainerDevices(podRes, namespace))
  <1> DEFINE cnts == ContainersIn(podRes, namespace)
             of(ij) == {DeviceEntry(<<ij, dev.from>>, dev.resource, dev.amount, dev.nodes) :
                           dev \in NormalizeContainerDevices(podRes[ij[1]].containers[ij[2]])}
             f == [ij \in cnts |-> of(ij)]
  <1>1. IsFiniteSet(cnts)
    <2> DEFINE in == {i \in DOMAIN podRes : namespace \in {AnyNamespace, podRes[i].namespace}}
               g == [i \in in |-> {i} \X DOMAIN podRes[i].containers]
    <2>1. IsFiniteSet(in)
      <3>1. in \in SUBSET DOMAIN podRes
        OBVIOUS
      <3> QED
        BY <3>1, FS_Subset DEF CountableList
    <2>2. ASSUME NEW i \in in PROVE IsFiniteSet({i} \X DOMAIN podRes[i].containers)
      BY FS_Singleton, FS_Product DEF CountableList
    <2>3. cnts = UNION {g[i] : i \in DOMAIN g}
      BY DEF ContainersIn
    <2> HIDE DEF in, cnts
    <2>4. IsFiniteSet(UNION {g[i] : i \in DOMAIN g})
      BY <2>1, <2>2, FiniteUnion
    <2> QED
      BY <2>3, <2>4
  <1>2. ASSUME NEW ij \in cnts
        PROVE  IsFiniteSet(of(ij)) /\ \A dev \in of(ij) : dev.amount \in Nat
    <2> DEFINE devs == NormalizeContainerDevices(podRes[ij[1]].containers[ij[2]])
               g == [dev \in devs |-> DeviceEntry(<<ij, dev.from>>, dev.resource, dev.amount, dev.nodes)]
    <2>1. ij[1] \in DOMAIN podRes /\ ij[2] \in DOMAIN podRes[ij[1]].containers
      BY DEF ContainersIn
    <2>2. CountableEntries(devs)
      BY <2>1, NormalizeCountable DEF CountableList
    <2>3. of(ij) = {g[dev] : dev \in DOMAIN g}
      OBVIOUS
    <2>4. IsFiniteSet({g[dev] : dev \in DOMAIN g})
      BY <2>2, FiniteImage DEF CountableEntries
    <2>5. \A dev \in DOMAIN g : g[dev].amount \in Nat
      BY <2>2, EntryAmount DEF CountableEntries
    <2> QED
      BY <2>3, <2>4, <2>5
  <1>3. GetAllContainerDevices(podRes, namespace) = UNION {of(ij) : ij \in cnts}
    BY DEF GetAllContainerDevices
  <1> HIDE DEF of, cnts
  <1>4. IsFiniteSet(UNION {f[ij] : ij \in DOMAIN f})
    BY <1>1, <1>2, FiniteUnion
  <1>5. {f[ij] : ij \in DOMAIN f} = {of(ij) : ij \in cnts}
    OBVIOUS
  <1>6. IsFiniteSet(GetAllContainerDevices(podRes, namespace))
    BY <1>3, <1>4, <1>5
  <1>7. \A dev \in GetAllContainerDevices(podRes, namespace) : dev.amount \in Nat
    BY <1>2, <1>3
  <1> QED
    BY <1>6, <1>7 DEF CountableEntries

\* The counters of finitely many entries are natural numbers.
LEMMA CountersOfEntries ==
  ASSUME NEW devs, CountableEntries(devs) PROVE IsCounters(PerNUMAResourceCounters(devs))
  <1> SUFFICES ASSUME NEW p PROVE Cardinality(Units(devs, p)) \in Nat
    BY DEF IsCounters, PerNUMAResourceCounters
  <1> DEFINE own == {d \in devs : p \in Charged(d)}
             f == [dev \in own |-> {dev} \X (1 .. dev.amount)]
  <1>1. IsFiniteSet(own)
    <2>1. own \in SUBSET devs
      OBVIOUS
    <2> QED
      BY <2>1, FS_Subset DEF CountableEntries
  <1>2. ASSUME NEW dev \in own PROVE IsFiniteSet({dev} \X (1 .. dev.amount))
    <2>1. dev.amount \in Nat
      BY DEF CountableEntries
    <2>2. IsFiniteSet(1 .. dev.amount)
      BY <2>1, FS_Interval
    <2>3. IsFiniteSet({dev})
      BY FS_Singleton
    <2> QED
      BY <2>2, <2>3, FS_Product
  <1>3. Units(devs, p) = UNION {f[dev] : dev \in DOMAIN f}
    BY DEF Units
  <1> HIDE DEF own
  <1>4. IsFiniteSet(UNION {f[dev] : dev \in DOMAIN f})
    BY <1>1, <1>2, FiniteUnion
  <1> QED
    BY <1>3, <1>4, FS_CardinalityType

\* What updateNodeAllocatable and Scan make of the kubelet's answers.
LEMMA AnswersCounted ==
  /\ \A resp \in AllocatableResponses : IsCounters(AllocatableOf[resp])
  /\ \A podRes \in PodLists : IsCounters(AllocatedOf[podRes])
  <1>1. ASSUME NEW resp \in AllocatableResponses PROVE IsCounters(AllocatableOf[resp])
    <2>1. CountableEntries(NormalizeContainerDevices(resp))
      BY MonitorAssumption, MessageCountable, NormalizeCountable
    <2> QED
      BY <2>1, CountersOfEntries DEF AllocatableOf
  <1>2. ASSUME NEW podRes \in PodLists PROVE IsCounters(AllocatedOf[podRes])
    <2>1. CountableEntries(GetAllContainerDevices(
                              ListPodResources(podRes, ExcludeTerminalPods), Namespace))
      BY MonitorAssumption, ListCountable, AllDevicesCountable
    <2> QED
      BY <2>1, CountersOfEntries DEF AllocatedOf
  <1> QED
    BY <1>1, <1>2

----------------------------------------------------------------------------
(* The zones are bounded.                                                    *)

CountersInv ==
    /\ kubelet \in AllocatableResponses
    /\ IsCounters(nodeCapacity)
    /\ IsCounters(nodeAllocatable)
    /\ IsCounters(allocated)
    /\ IsCounters(capCounters)

\* A missing key reads as zero, so reading a counter yields a natural number.
LEMMA LookupNat ==
  ASSUME NEW c, IsCounters(c), NEW p
  PROVE  Lookup(c, p) \in Nat
  BY DEF Lookup, IsCounters

\* ZoneEntry: the numbers of one resource are bounded by one another, however
\* little its three inputs have to do with each other.
LEMMA ZoneEntryBounded ==
  ASSUME NEW a \in Nat, NEW c \in Nat, NEW u \in Nat
  PROVE  LET e == ZoneEntry(a, c, u)
         IN  /\ 0 <= e.available
             /\ e.available <= e.allocatable
             /\ e.allocatable <= e.capacity
  BY DEF ZoneEntry

\* ZoneOf: the same for all entries of a zone.
LEMMA ZoneOfBounded ==
  ASSUME NEW id, NEW alloc, NEW cap, NEW used,
         IsCounters(alloc), IsCounters(cap), IsCounters(used),
         NEW p \in DOMAIN ZoneOf(id, alloc, cap, used)
  PROVE  LET e == ZoneOf(id, alloc, cap, used)[p]
         IN  /\ 0 <= e.available
             /\ e.available <= e.allocatable
             /\ e.allocatable <= e.capacity
  <1>1. Lookup(alloc, p) \in Nat /\ Lookup(cap, p) \in Nat /\ Lookup(used, p) \in Nat
    BY LookupNat
  <1>2. ZoneOf(id, alloc, cap, used)[p]
          = ZoneEntry(Lookup(alloc, p), Lookup(cap, p), Lookup(used, p))
    BY DEF ZoneOf
  <1>3. LET e == ZoneEntry(Lookup(alloc, p), Lookup(cap, p), Lookup(used, p))
        IN  /\ 0 <= e.available
            /\ e.available <= e.allocatable
            /\ e.allocatable <= e.capacity
    BY <1>1, ZoneEntryBounded
  <1> QED
    BY <1>2, <1>3

\* WithDevices: setting the devices' capacity leaves counters.
LEMMA WithDevicesCounters ==
  ASSUME NEW c, IsCounters(c), IsCounters(nodeAllocatable)
  PROVE  IsCounters(WithDevices(c))
  BY DEF WithDevices, DeviceEntries, IsCounters

----------------------------------------------------------------------------

\* The constructor starts with empty maps and no zones.
LEMMA MonitorInit == Init => CountersInv /\ ZonesBounded
  BY DEF Init, CountersInv, IsCounters, NoCounters, ZonesBounded

\* Every step keeps the maps maps of natural numbers.
LEMMA CountersStep == CountersInv /\ [Next]_vars => CountersInv'
  <1> SUFFICES ASSUME CountersInv, [Next]_vars PROVE CountersInv'
    OBVIOUS
  <1> USE DEF CountersInv
  <1>1. ASSUME NEW resp \in AllocatableResponses, KubeletChanges(resp) PROVE CountersInv'
    BY <1>1 DEF KubeletChanges, refreshVars, scanVars, IsCounters
  <1>2. CASE KubeletPublishes
    BY <1>2 DEF KubeletPublishes, scanVars, IsCounters
  <1>3. CASE ResUpdated
    BY <1>3 DEF ResUpdated, envVars, scanVars, IsCounters
  <1>4. CASE UpdateNodeCapacity
    BY <1>4, MonitorAssumption DEF MonitorAssumption, UpdateNodeCapacity, envVars, IsCounters
  <1>5. CASE UpdateNodeAllocatable
    <2>1. IsCounters(nodeAllocatable)'
      BY <1>5, AnswersCounted DEF UpdateNodeAllocatable
    <2> QED
      BY <1>5, <2>1 DEF UpdateNodeAllocatable, envVars, scanVars, IsCounters
  <1>6. CASE RefreshFails
    BY <1>6 DEF RefreshFails, envVars, scanVars, IsCounters
  <1>7. CASE UpdateDevicesCapacity
    <2>1. IsCounters(WithDevices(nodeCapacity)) /\ IsCounters(WithDevices(capCounters))
      BY WithDevicesCounters
    <2>2. nodeCapacity' \in {nodeCapacity, WithDevices(nodeCapacity)}
          /\ capCounters' \in {capCounters, WithDevices(capCounters)}
      BY <1>7 DEF UpdateDevicesCapacity
    <2>3. IsCounters(nodeCapacity') /\ IsCounters(capCounters')
      BY <2>1, <2>2
    <2> QED
      BY <1>7, <2>3 DEF UpdateDevicesCapacity, envVars, IsCounters
  <1>8. CASE InformerSynced
    BY <1>8 DEF InformerSynced, envVars, IsCounters
  <1>9. ASSUME NEW podRes \in PodLists, ScanList(podRes) PROVE CountersInv'
    <2>1. IsCounters(allocated)'
      BY <1>9, AnswersCounted DEF ScanList
    <2> QED
      BY <1>9, <2>1 DEF ScanList, envVars, refreshVars, IsCounters
  <1>10. CASE ScanFails \/ ScanZone \/ ScanResources \/ ScanReturns \/ MapRace
    BY <1>10 DEF ScanFails, ScanZone, ScanResources, ScanReturns, MapRace, envVars,
                 refreshVars, scanVars, IsCounters
  <1>11. CASE UNCHANGED vars
    BY <1>11 DEF vars, IsCounters
  <1> QED
    BY <1>1, <1>2, <1>3, <1>4, <1>5, <1>6, <1>7, <1>8, <1>9, <1>10, <1>11 DEF Next

\* Every step keeps the zones bounded; only ScanResources adds to them.
LEMMA ZonesStep == CountersInv /\ ZonesBounded /\ [Next]_vars => ZonesBounded'
  <1> SUFFICES ASSUME CountersInv, ZonesBounded, [Next]_vars PROVE ZonesBounded'
    OBVIOUS
  <1>1. CASE ScanResources
    <2> DEFINE zone == ZoneOf(NextNode, nodeAllocatable, capCounters, allocated)
    <2>1. zones' = [p \in DOMAIN zones \cup DOMAIN zone |->
                       IF p \in DOMAIN zone THEN zone[p] ELSE zones[p]]
      BY <1>1 DEF ScanResources
    <2>2. \A p \in DOMAIN zone : /\ 0 <= zone[p].available
                                 /\ zone[p].available <= zone[p].allocatable
                                 /\ zone[p].allocatable <= zone[p].capacity
      BY ZoneOfBounded DEF CountersInv
    <2> HIDE DEF zone
    <2> QED
      BY <2>1, <2>2 DEF ZonesBounded
  <1>2. ASSUME NEW podRes \in PodLists, ScanList(podRes) PROVE ZonesBounded'
    BY <1>2 DEF ScanList, ZonesBounded
  <1>3. CASE ScanFails
    BY <1>3 DEF ScanFails, ZonesBounded
  <1>4. CASE zones' = zones
    BY <1>4 DEF ZonesBounded
  <1>5. ASSUME NEW resp \in AllocatableResponses, KubeletChanges(resp) PROVE zones' = zones
    BY <1>5 DEF KubeletChanges, scanVars
  <1>6. CASE KubeletPublishes \/ ResUpdated \/ UpdateNodeCapacity \/ UpdateNodeAllocatable
             \/ RefreshFails \/ UpdateDevicesCapacity \/ InformerSynced
    BY <1>4, <1>6 DEF KubeletPublishes, ResUpdated, UpdateNodeCapacity,
         UpdateNodeAllocatable, RefreshFails, UpdateDevicesCapacity, InformerSynced, scanVars
  <1>7. CASE ScanZone \/ ScanReturns \/ MapRace \/ UNCHANGED vars
    BY <1>4, <1>7 DEF ScanZone, ScanReturns, MapRace, scanVars, vars
  <1> QED
    BY <1>1, <1>2, <1>3, <1>4, <1>5, <1>6, <1>7 DEF Next

\* ZonesBounded: 0 <= Available <= Allocatable <= Capacity in every zone a scan
\* builds, for all answers of the kubelet and all interleavings with a refresh.
THEOREM ScansAreBounded == Spec => []ZonesBounded
  BY MonitorInit, CountersStep, ZonesStep, PTL DEF Spec

----------------------------------------------------------------------------
(* Types.                                                                    *)

\* The natural numbers are well founded: NextNode is one of todo.
LEMMA MinIn ==
  ASSUME NEW S \in SUBSET Nat, S # {}
  PROVE  Min(S) \in S
  <1> DEFINE R == {ss \in Nat \X Nat : ss[1] < ss[2]}
  <1>1. OpToRel(<, Nat) = R
    BY Zenon DEF OpToRel
  <1>2. IsWellFoundedOn(R, Nat)
    BY <1>1, NatLessThanWellFounded, Zenon
  <1>3. \E x \in S : \A y \in S : ~ (<<y, x>> \in R)
    <2> HIDE DEF R
    <2> QED
      BY <1>2, WFMin
  <1>4. PICK x \in S : \A y \in S : ~ (<<y, x>> \in R)
    BY <1>3
  <1>5. ASSUME NEW y \in S PROVE x <= y
    <2>1. <<y, x>> \in Nat \X Nat => ~ (y < x)
      BY <1>4
    <2> QED
      BY <2>1
  <1> QED
    BY <1>5 DEF Min

\* ZoneOf: the entries of a zone are integers, and belong to the NUMA node.
LEMMA ZoneOfTyped ==
  ASSUME NEW id, NEW alloc, NEW cap, NEW used,
         IsCounters(alloc), IsCounters(cap), IsCounters(used),
         NEW p \in DOMAIN ZoneOf(id, alloc, cap, used)
  PROVE  ZoneOf(id, alloc, cap, used)[p] \in ZoneResource
  <1>1. Lookup(alloc, p) \in Nat /\ Lookup(cap, p) \in Nat /\ Lookup(used, p) \in Nat
    BY LookupNat
  <1>2. ZoneEntry(Lookup(alloc, p), Lookup(cap, p), Lookup(used, p)) \in ZoneResource
    BY <1>1 DEF ZoneEntry, ZoneResource
  <1> QED
    BY <1>2 DEF ZoneOf

\* What no counter depends on.
PositionsOK ==
    /\ named \in BOOLEAN
    /\ changes \in 0 .. MaxChanges
    /\ watching \in BOOLEAN
    /\ pending \in Nat
    /\ refPc \in {"idle", "capacity", "allocatable", "devices"}
    /\ scanPc \in {"new", "idle", "zone", "resources"}
    /\ todo \subseteq NodeIDs
    /\ capShared \in BOOLEAN
    /\ crashed \in BOOLEAN
    /\ clean \in BOOLEAN
    /\ missed \in BOOLEAN

ZonesTyped == \A p \in DOMAIN zones : zones[p] \in ZoneResource

\* Every step keeps the positions.
LEMMA PositionsStep == PositionsOK /\ [Next]_vars => PositionsOK'
  <1> SUFFICES ASSUME PositionsOK, [Next]_vars PROVE PositionsOK'
    OBVIOUS
  <1> USE MonitorAssumption DEF PositionsOK
  <1>1. ASSUME NEW resp \in AllocatableResponses, KubeletChanges(resp) PROVE PositionsOK'
    <2>1. changes' \in 0 .. MaxChanges
      BY <1>1 DEF KubeletChanges
    <2>2. missed' \in BOOLEAN /\ clean' \in BOOLEAN
      BY <1>1 DEF KubeletChanges
    <2> QED
      BY <1>1, <2>1, <2>2 DEF KubeletChanges, refreshVars, scanVars
  <1>2. CASE KubeletPublishes
    <2>1. pending' \in Nat
      BY <1>2 DEF KubeletPublishes
    <2>2. missed' \in BOOLEAN
      BY <1>2 DEF KubeletPublishes
    <2> QED
      BY <1>2, <2>1, <2>2 DEF KubeletPublishes, scanVars
  <1>3. CASE ResUpdated
    <2>1. pending' \in Nat
      BY <1>3 DEF ResUpdated
    <2> QED
      BY <1>3, <2>1 DEF ResUpdated, envVars, scanVars
  <1>4. CASE UpdateNodeCapacity \/ UpdateNodeAllocatable \/ RefreshFails \/ InformerSynced
    BY <1>4 DEF UpdateNodeCapacity, UpdateNodeAllocatable, RefreshFails, InformerSynced, Starting,
                envVars, scanVars
  <1>5. CASE UpdateDevicesCapacity
    BY <1>5 DEF UpdateDevicesCapacity, envVars
  <1>6. ASSUME NEW podRes \in PodLists, ScanList(podRes) PROVE PositionsOK'
    BY <1>6 DEF ScanList, envVars, refreshVars
  <1>7. CASE ScanFails \/ ScanZone \/ ScanResources \/ ScanReturns \/ MapRace
    BY <1>7 DEF ScanFails, ScanZone, ScanResources, ScanReturns, MapRace, envVars, refreshVars,
                scanVars
  <1>8. CASE UNCHANGED vars
    BY <1>8 DEF vars
  <1> QED
    BY <1>1, <1>2, <1>3, <1>4, <1>5, <1>6, <1>7, <1>8 DEF Next

\* The zones change in ScanList, ScanFails and ScanResources only.
LEMMA ZonesKept ==
  ASSUME [Next]_vars
  PROVE  \/ zones' = zones /\ todo' = todo
         \/ zones' = <<>> /\ (ScanFails \/ \E podRes \in PodLists : ScanList(podRes))
         \/ ScanResources
  BY DEF Next, vars, KubeletChanges, KubeletPublishes, ResUpdated, UpdateNodeCapacity,
         UpdateNodeAllocatable, RefreshFails, UpdateDevicesCapacity, InformerSynced, ScanList,
         ScanFails, ScanZone, ScanReturns, MapRace, scanVars

\* Every step keeps the zones typed.
LEMMA ZonesTypedStep == CountersInv /\ ZonesTyped /\ [Next]_vars => ZonesTyped'
  <1> SUFFICES ASSUME CountersInv, ZonesTyped, [Next]_vars PROVE ZonesTyped'
    OBVIOUS
  <1>1. CASE ScanResources
    <2> DEFINE zone == ZoneOf(NextNode, nodeAllocatable, capCounters, allocated)
    <2>1. zones' = [p \in DOMAIN zones \cup DOMAIN zone |->
                       IF p \in DOMAIN zone THEN zone[p] ELSE zones[p]]
      BY <1>1 DEF ScanResources
    <2>2. \A p \in DOMAIN zone : zone[p] \in ZoneResource
      BY ZoneOfTyped DEF CountersInv
    <2> HIDE DEF zone
    <2> QED
      BY <2>1, <2>2 DEF ZonesTyped
  <1>2. CASE zones' \in {zones, <<>>}
    BY <1>2 DEF ZonesTyped
  <1> QED
    BY <1>1, <1>2, ZonesKept

(***************************************************************************)
(* The monitor is type correct under every interleaving of a scan with a   *)
(* refresh; in particular the counters stay natural numbers.               *)
(***************************************************************************)
THEOREM TypeCorrect == Spec => []TypeOK
  <1>1. Init => CountersInv /\ PositionsOK /\ ZonesTyped
    <2>1. Init => changes \in 0 .. MaxChanges /\ pending \in Nat
      BY MonitorAssumption DEF Init
    <2>2. Init => PositionsOK
      BY <2>1, Zenon DEF Init, PositionsOK
    <2>3. Init => ZonesTyped
      BY DEF Init, ZonesTyped
    <2> QED
      BY <2>2, <2>3, MonitorInit
  <1>2. CountersInv /\ PositionsOK /\ ZonesTyped => TypeOK
    BY DEF CountersInv, PositionsOK, ZonesTyped, TypeOK
  <1> QED
    BY <1>1, <1>2, CountersStep, PositionsStep, ZonesTypedStep, PTL DEF Spec

----------------------------------------------------------------------------
(* Exactness.                                                                *)

\* The capacity of a device is its allocatable, or not there at all between
\* updateNodeCapacity and updateDevicesCapacity and when the refresh failed.
DevicesInv ==
    /\ refPc \in {"allocatable", "devices"} =>
          \A p \in DOMAIN nodeCapacity : p[2] \in NativeResources
    /\ \A p \in DOMAIN nodeCapacity :
          p[2] \notin NativeResources =>
              p \in DOMAIN nodeAllocatable /\ nodeCapacity[p] = nodeAllocatable[p]

\* Nothing has moved since a clean scan began.
CleanInv ==
    clean => /\ refPc = "idle"
             /\ nodeAllocatable = AllocatableOf[kubelet]
             /\ scanPc = "resources" => capCounters = nodeCapacity /\ todo # {}

\* What a clean scan has to say about one resource.
Exact(p, alloc) ==
    /\ zones[p].allocatable = alloc[p]
    /\ zones[p].available = Max({0, alloc[p] - Lookup(allocated, p)})
    /\ p[2] \notin NativeResources => zones[p].capacity = alloc[p]

Reported(alloc) == {p \in DOMAIN alloc : p[1] \in NodeIDs /\ p[2] \notin ResourceExclude}

\* A clean scan has been exact so far.
ScanInv ==
    clean /\ scanPc \in {"zone", "resources"} =>
        /\ \A p \in Reported(AllocatableOf[kubelet]) :
              p[1] \notin todo => p \in DOMAIN zones /\ Exact(p, AllocatableOf[kubelet])
        /\ \A p \in DOMAIN zones \ Reported(AllocatableOf[kubelet]) : zones[p].allocatable = 0

\* Every refresh, complete or not, keeps the devices' capacity.
LEMMA DevicesStep == DevicesInv /\ [Next]_vars => DevicesInv'
  <1> SUFFICES ASSUME DevicesInv, [Next]_vars PROVE DevicesInv'
    OBVIOUS
  <1>1. CASE UpdateNodeCapacity
    BY <1>1 DEF UpdateNodeCapacity, DevicesInv, NativeResources
  <1>2. CASE UpdateNodeAllocatable
    BY <1>2 DEF UpdateNodeAllocatable, DevicesInv
  <1>3. CASE RefreshFails
    BY <1>3 DEF RefreshFails, DevicesInv
  <1>4. CASE UpdateDevicesCapacity
    BY <1>4 DEF UpdateDevicesCapacity, DevicesInv, WithDevices, DeviceEntries
  <1>5. CASE UNCHANGED <<nodeCapacity, nodeAllocatable>>
             /\ (refPc' = refPc \/ refPc' \in {"idle", "capacity"})
    BY <1>5 DEF DevicesInv
  <1> QED
    BY <1>1, <1>2, <1>3, <1>4, <1>5
    DEF Next, vars, KubeletChanges, KubeletPublishes, ResUpdated, InformerSynced, ScanList, ScanFails,
        ScanZone, ScanResources, ScanReturns, MapRace, refreshVars

\* While the scan is clean, no refresh takes a step.
LEMMA CleanStep == CleanInv /\ [Next]_vars => CleanInv'
  <1> SUFFICES ASSUME CleanInv, [Next]_vars, clean' PROVE CleanInv'
    BY DEF CleanInv
  <1>1. ASSUME NEW podRes \in PodLists, ScanList(podRes) PROVE CleanInv'
    BY <1>1 DEF ScanList, CleanInv, envVars, refreshVars
  <1>2. CASE clean
    <2>1. UNCHANGED <<kubelet, refPc, nodeAllocatable, nodeCapacity>>
          \/ \E podRes \in PodLists : ScanList(podRes)
      BY <1>2
      DEF CleanInv, Next, vars, KubeletChanges, KubeletPublishes, ResUpdated, UpdateNodeCapacity,
          UpdateNodeAllocatable, RefreshFails, UpdateDevicesCapacity, InformerSynced, ScanFails,
          ScanZone, ScanResources, ScanReturns, MapRace, refreshVars, envVars
    <2>2. CASE UNCHANGED <<kubelet, refPc, nodeAllocatable, nodeCapacity>>
      <3>1. (scanPc' = "resources" => capCounters' = nodeCapacity' /\ todo' # {})
            \/ \E podRes \in PodLists : ScanList(podRes)
        BY <1>2, <2>2
        DEF CleanInv, Next, vars, KubeletChanges, KubeletPublishes, ResUpdated, UpdateNodeCapacity,
            UpdateNodeAllocatable, RefreshFails, UpdateDevicesCapacity, InformerSynced, ScanFails,
            ScanZone, ScanResources, ScanReturns, MapRace, scanVars
      <3> QED
        BY <1>1, <1>2, <2>2, <3>1 DEF CleanInv
    <2> QED
      BY <1>1, <2>1, <2>2
  <1>3. CASE ~ clean
    <2>1. \E podRes \in PodLists : ScanList(podRes)
      BY <1>3 DEF Next, vars, KubeletChanges, KubeletPublishes, ResUpdated, UpdateNodeCapacity,
         UpdateNodeAllocatable, RefreshFails, UpdateDevicesCapacity, InformerSynced, ScanFails,
         ScanZone, ScanResources, ScanReturns, MapRace
    <2> QED
      BY <1>1, <2>1
  <1> QED
    BY <1>2, <1>3

\* Max of FiniteSetsExt, on the pair CleanScanIsExact uses.
LEMMA MaxZero ==
  ASSUME NEW x \in Int
  PROVE  Max({0, x}) = IF x < 0 THEN 0 ELSE x
  <1> DEFINE m == IF x < 0 THEN 0 ELSE x
             IsMax(y) == \A z \in {0, x} : y >= z
  <1>1. m \in {0, x} /\ IsMax(m)
    OBVIOUS
  <1>2. Max({0, x}) \in {0, x} /\ IsMax(Max({0, x}))
    BY <1>1 DEF Max
  <1>3. \A y \in {0, x} : IsMax(y) => y = m
    OBVIOUS
  <1> QED
    BY <1>2, <1>3

\* ZoneEntry when the capacity is right, as it is for a device.
LEMMA ZoneEntryExact ==
  ASSUME NEW a \in Nat, NEW c \in Nat, NEW u \in Nat
  PROVE  LET e == ZoneEntry(a, c, u)
         IN  /\ e.allocatable = a
             /\ e.available = Max({0, a - u})
             /\ c \in {0, a} => e.capacity = a
  <1>1. Max({0, a - u}) = IF a - u < 0 THEN 0 ELSE a - u
    BY MaxZero
  <1> QED
    BY <1>1 DEF ZoneEntry

\* The entries of a zone are those of its NUMA node.
LEMMA ZoneOfEntries ==
  ASSUME NEW id, NEW alloc, NEW cap, NEW used
  PROVE  LET zone == ZoneOf(id, alloc, cap, used)
         IN  /\ \A p \in DOMAIN zone : p[1] = id /\ p[2] \notin ResourceExclude
             /\ \A p \in DOMAIN alloc : p[1] = id /\ p[2] \notin ResourceExclude => p \in DOMAIN zone
             /\ \A p \in DOMAIN zone :
                   zone[p] = ZoneEntry(Lookup(alloc, p), Lookup(cap, p), Lookup(used, p))
  <1> DEFINE zone == ZoneOf(id, alloc, cap, used)
             own == {p \in DOMAIN alloc : p[1] = id}
             entries == IF own = {} THEN {<<id, "cpu">>} ELSE own
  <1>1. zone = [p \in {q \in entries : q[2] \notin ResourceExclude} |->
                  ZoneEntry(Lookup(alloc, p), Lookup(cap, p), Lookup(used, p))]
    BY DEF ZoneOf
  <1>2. DOMAIN zone = {q \in entries : q[2] \notin ResourceExclude}
    BY <1>1
  <1>3. \A p \in DOMAIN zone : zone[p] = ZoneEntry(Lookup(alloc, p), Lookup(cap, p), Lookup(used, p))
    BY <1>1
  <1>4. (\A p \in entries : p[1] = id) /\ own \subseteq entries
    OBVIOUS
  <1>5. \A p \in DOMAIN alloc : p[1] = id => p \in own
    OBVIOUS
  <1> HIDE DEF zone, own, entries
  <1> QED
    BY <1>2, <1>3, <1>4, <1>5 DEF zone

\* ZoneOf when the capacity of the devices is right.
LEMMA ZoneOfExact ==
  ASSUME NEW id \in NodeIDs, NEW alloc, NEW cap, NEW used,
         IsCounters(alloc), IsCounters(cap), IsCounters(used),
         \A p \in DOMAIN cap :
             p[2] \notin NativeResources => p \in DOMAIN alloc /\ cap[p] = alloc[p]
  PROVE  LET zone == ZoneOf(id, alloc, cap, used)
         IN  /\ \A p \in Reported(alloc) : p[1] = id => p \in DOMAIN zone
             /\ \A p \in DOMAIN zone : p[1] = id
             /\ \A p \in DOMAIN zone \cap Reported(alloc) :
                   /\ zone[p].allocatable = alloc[p]
                   /\ zone[p].available = Max({0, alloc[p] - Lookup(used, p)})
                   /\ p[2] \notin NativeResources => zone[p].capacity = alloc[p]
             /\ \A p \in DOMAIN zone \ Reported(alloc) : zone[p].allocatable = 0
  <1> DEFINE zone == ZoneOf(id, alloc, cap, used)
             entry(p) == ZoneEntry(Lookup(alloc, p), Lookup(cap, p), Lookup(used, p))
  <1>1. \A p \in DOMAIN zone : zone[p] = entry(p) /\ p[2] \notin ResourceExclude /\ p[1] = id
    BY ZoneOfEntries
  <1>2. \A p \in Reported(alloc) : p[1] = id => p \in DOMAIN zone
    BY ZoneOfEntries DEF Reported
  <1>3. \A p : Lookup(alloc, p) \in Nat /\ Lookup(cap, p) \in Nat /\ Lookup(used, p) \in Nat
    BY LookupNat
  <1>4. \A p : /\ entry(p).allocatable = Lookup(alloc, p)
               /\ entry(p).available = Max({0, Lookup(alloc, p) - Lookup(used, p)})
               /\ Lookup(cap, p) \in {0, Lookup(alloc, p)} => entry(p).capacity = Lookup(alloc, p)
    BY <1>3, ZoneEntryExact
  <1>5. \A p : p[2] \notin NativeResources => Lookup(cap, p) \in {0, Lookup(alloc, p)}
    BY DEF Lookup
  <1>6. \A p \in Reported(alloc) : Lookup(alloc, p) = alloc[p]
    BY DEF Reported, Lookup
  <1>7. \A p \in DOMAIN zone \ Reported(alloc) : Lookup(alloc, p) = 0
    BY <1>1 DEF Reported, Lookup
  <1> HIDE DEF zone, entry
  <1>8. \A p \in DOMAIN zone : p[1] = id
    BY <1>1
  <1>9. ASSUME NEW p \in DOMAIN zone \cap Reported(alloc)
        PROVE  /\ zone[p].allocatable = alloc[p]
               /\ zone[p].available = Max({0, alloc[p] - Lookup(used, p)})
               /\ p[2] \notin NativeResources => zone[p].capacity = alloc[p]
    <2>1. zone[p] = entry(p) /\ Lookup(alloc, p) = alloc[p]
      BY <1>1, <1>6
    <2> QED
      BY <1>4, <1>5, <2>1
  <1>10. \A p \in DOMAIN zone \ Reported(alloc) : zone[p].allocatable = 0
    BY <1>1, <1>4, <1>7
  <1> QED
    BY <1>2, <1>8, <1>9, <1>10 DEF zone

ExactInv == CountersInv /\ PositionsOK /\ DevicesInv /\ CleanInv /\ ScanInv

\* The loop over the NUMA nodes.
LEMMA ScanInvResources ==
  ASSUME ExactInv, ScanResources
  PROVE  ScanInv'
  <1> SUFFICES ASSUME clean PROVE ScanInv'
    BY DEF ScanResources, ScanInv
  <1> DEFINE alloc == AllocatableOf[kubelet]
             zone == ZoneOf(NextNode, nodeAllocatable, capCounters, allocated)
  <1>1. /\ nodeAllocatable = alloc /\ capCounters = nodeCapacity /\ todo # {}
        /\ scanPc = "resources"
    BY DEF ScanResources, ExactInv, CleanInv
  <1>2. NextNode \in todo /\ NextNode \in NodeIDs
    <2>1. todo \in SUBSET Nat /\ todo \subseteq NodeIDs
      BY PodResourcesAssumption DEF ExactInv, PositionsOK
    <2> QED
      BY <1>1, <2>1, MinIn DEF NextNode
  <1>3. /\ zones' = [p \in DOMAIN zones \cup DOMAIN zone |->
                       IF p \in DOMAIN zone THEN zone[p] ELSE zones[p]]
        /\ todo' = todo \ {NextNode}
        /\ UNCHANGED <<kubelet, allocated, clean>>
    BY DEF ScanResources, envVars
  <1>4. /\ \A p \in Reported(alloc) : p[1] = NextNode => p \in DOMAIN zone
        /\ \A p \in DOMAIN zone : p[1] = NextNode
        /\ \A p \in DOMAIN zone \cap Reported(alloc) :
              /\ zone[p].allocatable = alloc[p]
              /\ zone[p].available = Max({0, alloc[p] - Lookup(allocated, p)})
              /\ p[2] \notin NativeResources => zone[p].capacity = alloc[p]
        /\ \A p \in DOMAIN zone \ Reported(alloc) : zone[p].allocatable = 0
    <2>1. /\ IsCounters(nodeAllocatable) /\ IsCounters(capCounters) /\ IsCounters(allocated)
          /\ \A p \in DOMAIN capCounters : p[2] \notin NativeResources =>
                p \in DOMAIN nodeAllocatable /\ capCounters[p] = nodeAllocatable[p]
      BY <1>1 DEF ExactInv, CountersInv, DevicesInv
    <2>2. /\ IsCounters(alloc) /\ zone = ZoneOf(NextNode, alloc, capCounters, allocated)
          /\ \A p \in DOMAIN capCounters : p[2] \notin NativeResources =>
                p \in DOMAIN alloc /\ capCounters[p] = alloc[p]
      BY <1>1, <2>1
    <2> HIDE DEF alloc, zone
    <2> QED
      BY ONLY <1>2, <2>1, <2>2, ZoneOfExact
  <1>5. /\ \A p \in Reported(alloc) : p[1] \notin todo => p \in DOMAIN zones /\ Exact(p, alloc)
        /\ \A p \in DOMAIN zones \ Reported(alloc) : zones[p].allocatable = 0
    BY <1>1 DEF ExactInv, ScanInv
  <1> HIDE DEF zone, alloc
  <1>6. ASSUME NEW p \in Reported(alloc), p[1] \notin todo'
        PROVE  p \in DOMAIN zones' /\ Exact(p, alloc)'
    <2>0. alloc' = alloc /\ Lookup(allocated, p)' = Lookup(allocated, p)
      BY <1>3 DEF alloc, Lookup
    <2>1. CASE p \in DOMAIN zone
      <3>1. p \in DOMAIN zones' /\ zones'[p] = zone[p]
        BY <1>3, <2>1
      <3> QED
        BY <1>4, <2>0, <2>1, <3>1 DEF Exact
    <2>2. CASE p \notin DOMAIN zone
      <3>1. p[1] \notin todo
        BY <1>3, <1>4, <1>6, <2>2
      <3>2. p \in DOMAIN zones /\ Exact(p, alloc)
        BY <1>5, <3>1
      <3>3. p \in DOMAIN zones' /\ zones'[p] = zones[p]
        BY <1>3, <2>2, <3>2
      <3> QED
        BY <2>0, <3>2, <3>3 DEF Exact
    <2> QED
      BY <2>1, <2>2
  <1>7. \A p \in DOMAIN zones' \ Reported(alloc) : zones'[p].allocatable = 0
    BY <1>3, <1>4, <1>5
  <1>8. alloc' = alloc /\ Reported(alloc)' = Reported(alloc)
    BY <1>3 DEF alloc, Reported
  <1> QED
    BY <1>6, <1>7, <1>8 DEF ScanInv, alloc

\* A clean scan stays exact.
LEMMA ScanInvStep == ExactInv /\ [Next]_vars => ScanInv'
  <1> SUFFICES ASSUME ExactInv, [Next]_vars PROVE ScanInv'
    OBVIOUS
  <1>1. CASE ScanResources
    BY <1>1, ScanInvResources
  <1>2. CASE zones' = <<>> /\ (ScanFails \/ \E podRes \in PodLists : ScanList(podRes))
    <2>1. DOMAIN zones' = {} /\ (scanPc' = "idle" \/ todo' = NodeIDs)
      BY <1>2 DEF ScanFails, ScanList
    <2>2. \A p \in Reported(AllocatableOf[kubelet'])  : p[1] \in NodeIDs
      BY DEF Reported
    <2> QED
      BY <2>1, <2>2 DEF ScanInv
  <1>3. CASE UNCHANGED <<zones, todo, kubelet, allocated>> /\ clean' = clean
             /\ (scanPc' \in {"zone", "resources"} => scanPc \in {"zone", "resources"})
    BY <1>3 DEF ExactInv, ScanInv, Exact, Reported, Lookup
  <1>4. CASE ~ clean' \/ scanPc' \notin {"zone", "resources"}
    BY <1>4 DEF ScanInv
  <1> QED
    BY <1>1, <1>2, <1>3, <1>4
    DEF Next, vars, KubeletChanges, KubeletPublishes, ResUpdated, UpdateNodeCapacity,
        UpdateNodeAllocatable, RefreshFails, UpdateDevicesCapacity, InformerSynced, ScanList,
        ScanFails, ScanZone, ScanReturns, MapRace, scanVars, envVars, refreshVars

(***************************************************************************)
(* A scan that overlaps with neither a refresh nor a change of the kubelet *)
(* is exact, whatever went wrong in the refreshes before: one that failed  *)
(* half-way leaves no stale capacity of a device behind.                   *)
(***************************************************************************)
THEOREM CleanScansAreExact == Spec => []CleanScanIsExact
  <1>1. Init => ExactInv
    <2>1. Init => changes \in 0 .. MaxChanges /\ pending \in Nat
      BY MonitorAssumption DEF Init
    <2>2. Init => PositionsOK
      BY <2>1, Zenon DEF Init, PositionsOK
    <2>3. Init => DevicesInv
      BY DEF Init, DevicesInv, NoCounters
    <2> QED
      BY <2>2, <2>3, MonitorInit DEF Init, ExactInv, CleanInv, ScanInv
  <1>2. ExactInv /\ [Next]_vars => ExactInv'
    BY CountersStep, PositionsStep, DevicesStep, CleanStep, ScanInvStep DEF ExactInv
  <1>3. ExactInv => CleanScanIsExact
    <2> SUFFICES ASSUME ExactInv, scanPc = "zone", todo = {}, clean
                 PROVE  CleanScanIsExact
      BY DEF CleanScanIsExact
    <2>1. /\ \A p \in Reported(AllocatableOf[kubelet]) :
                p \in DOMAIN zones /\ Exact(p, AllocatableOf[kubelet])
          /\ \A p \in DOMAIN zones \ Reported(AllocatableOf[kubelet]) : zones[p].allocatable = 0
      BY DEF ExactInv, ScanInv
    <2> QED
      BY <2>1 DEF CleanScanIsExact, Reported, Exact
  <1> QED
    BY <1>1, <1>2, <1>3, PTL DEF Spec

----------------------------------------------------------------------------
(* A torn scan.                                                              *)

IsAnswer(counters) == \E resp \in AllocatableResponses : counters = AllocatableOf[resp]

\* Once the constructor has got that far, nodeAllocatable is an answer as a whole.
AnswerInv ==
    (scanPc # "new" \/ refPc = "devices" \/ (refPc = "idle" /\ ~ crashed)) => IsAnswer(nodeAllocatable)

\* The zones built so far are those of the NUMA nodes the scan has visited.
VisitedInv ==
    /\ scanPc \in {"zone", "resources"} => \A p \in DOMAIN zones : p[1] \notin todo
    /\ scanPc = "resources" => todo # {}

TornInv == CountersInv /\ PositionsOK /\ AnswerInv /\ VisitedInv /\ ZonesOfOneAnswer

\* Every step keeps nodeAllocatable an answer; only updateNodeAllocatable assigns it.
LEMMA AnswerStep == CountersInv /\ AnswerInv /\ [Next]_vars => AnswerInv'
  <1> SUFFICES ASSUME CountersInv, AnswerInv, [Next]_vars PROVE AnswerInv'
    OBVIOUS
  <1>1. CASE UpdateNodeAllocatable
    <2>1. kubelet \in AllocatableResponses /\ nodeAllocatable' = AllocatableOf[kubelet]
      BY <1>1 DEF UpdateNodeAllocatable, CountersInv
    <2> QED
      BY <2>1 DEF AnswerInv, IsAnswer
  <1>2. CASE UNCHANGED nodeAllocatable
             /\ (scanPc' # "new" \/ refPc' = "devices" \/ (refPc' = "idle" /\ ~ crashed') =>
                    scanPc # "new" \/ refPc = "devices" \/ (refPc = "idle" /\ ~ crashed))
    BY <1>2 DEF AnswerInv, IsAnswer
  <1>3. CASE RefreshFails
    <2>1. nodeAllocatable' = nodeAllocatable /\ scanPc' = scanPc /\ refPc' = "idle"
      BY <1>3 DEF RefreshFails, scanVars
    <2>2. scanPc = "new" => crashed'
      BY <1>3, Zenon DEF RefreshFails, Starting
    <2> QED
      BY <1>2, <2>1, <2>2
  <1>4. CASE UpdateNodeCapacity \/ ResUpdated \/ UpdateDevicesCapacity \/ InformerSynced
    BY <1>2, <1>4 DEF UpdateNodeCapacity, ResUpdated, UpdateDevicesCapacity, InformerSynced, Starting,
                      scanVars, envVars
  <1>5. CASE KubeletPublishes \/ \E resp \in AllocatableResponses : KubeletChanges(resp)
    BY <1>2, <1>5 DEF KubeletPublishes, KubeletChanges, scanVars, refreshVars
  <1>6. CASE (\E podRes \in PodLists : ScanList(podRes)) \/ ScanFails \/ ScanZone \/ ScanResources
             \/ ScanReturns \/ MapRace
    BY <1>2, <1>6 DEF ScanList, ScanFails, ScanZone, ScanResources, ScanReturns, MapRace, scanVars,
                      refreshVars
  <1>7. CASE UNCHANGED vars
    BY <1>2, <1>7 DEF vars
  <1> QED
    BY <1>1, <1>3, <1>4, <1>5, <1>6, <1>7 DEF Next

\* The zone of a NUMA node has the allocatable resources of the counters, all of them.
LEMMA ZoneOfAnswer ==
  ASSUME NEW id, NEW alloc, NEW cap, NEW used
  PROVE  LET zone == ZoneOf(id, alloc, cap, used)
         IN  /\ \A p \in DOMAIN zone : p[1] = id /\ zone[p].allocatable = Lookup(alloc, p)
             /\ \A p \in DOMAIN alloc : p[1] = id /\ p[2] \notin ResourceExclude => p \in DOMAIN zone
  <1>1. \A a, c, u : ZoneEntry(a, c, u).allocatable = a
    BY DEF ZoneEntry
  <1> QED
    BY <1>1, ZoneOfEntries

\* The loop over the NUMA nodes: the zone that is added is of the answer
\* nodeAllocatable holds, and the others are left alone.
LEMMA TornResources ==
  ASSUME TornInv, ScanResources
  PROVE  VisitedInv' /\ ZonesOfOneAnswer'
  <1> DEFINE zone == ZoneOf(NextNode, nodeAllocatable, capCounters, allocated)
  <1>1. scanPc = "resources" /\ todo # {} /\ scanPc' = "zone"
    BY DEF ScanResources, TornInv, VisitedInv
  <1>2. NextNode \in todo
    <2>1. todo \in SUBSET Nat
      BY PodResourcesAssumption DEF TornInv, PositionsOK
    <2> QED
      BY <1>1, <2>1, MinIn DEF NextNode
  <1>3. /\ zones' = [p \in DOMAIN zones \cup DOMAIN zone |->
                       IF p \in DOMAIN zone THEN zone[p] ELSE zones[p]]
        /\ todo' = todo \ {NextNode}
    BY DEF ScanResources
  <1>4. /\ \A p \in DOMAIN zone : p[1] = NextNode /\ zone[p].allocatable = Lookup(nodeAllocatable, p)
        /\ \A p \in DOMAIN nodeAllocatable :
              p[1] = NextNode /\ p[2] \notin ResourceExclude => p \in DOMAIN zone
    BY ZoneOfAnswer
  <1>5. \A p \in DOMAIN zones : p[1] \notin todo
    BY <1>1 DEF TornInv, VisitedInv
  <1> HIDE DEF zone
  <1>6. VisitedInv'
    BY <1>1, <1>3, <1>4, <1>5 DEF VisitedInv
  <1>7. ASSUME NEW id \in NodeIDs \ todo'
        PROVE  \E resp \in AllocatableResponses : ZoneIsOf(id, AllocatableOf[resp])'
    <2>1. CASE id = NextNode
      <3>1. PICK resp \in AllocatableResponses : nodeAllocatable = AllocatableOf[resp]
        BY <1>1 DEF TornInv, AnswerInv, IsAnswer
      <3> DEFINE alloc == AllocatableOf[resp]
      <3> HIDE DEF alloc
      <3>2. nodeAllocatable = alloc
        BY <3>1 DEF alloc
      <3>3. \A p \in DOMAIN zones' : p[1] = id => zones'[p].allocatable = Lookup(alloc, p)
        BY <1>2, <1>3, <1>4, <1>5, <2>1, <3>2
      <3>4. \A p \in DOMAIN alloc : p[1] = id /\ p[2] \notin ResourceExclude => p \in DOMAIN zones'
        BY <1>3, <1>4, <2>1, <3>2
      <3>5. ZoneIsOf(id, alloc)'
        BY <3>3, <3>4 DEF ZoneIsOf, alloc, Lookup
      <3> QED
        BY <3>5 DEF alloc
    <2>2. CASE id # NextNode
      <3>1. PICK resp \in AllocatableResponses : ZoneIsOf(id, AllocatableOf[resp])
        BY <1>1, <1>3, <1>7, <2>2 DEF TornInv, ZonesOfOneAnswer
      <3> DEFINE alloc == AllocatableOf[resp]
      <3> HIDE DEF alloc
      <3>2. ZoneIsOf(id, alloc)
        BY <3>1 DEF alloc
      <3>3. \A p \in DOMAIN zones' : p[1] = id => zones'[p].allocatable = Lookup(alloc, p)
        BY <1>3, <1>4, <2>2, <3>2 DEF ZoneIsOf
      <3>4. \A p \in DOMAIN alloc : p[1] = id /\ p[2] \notin ResourceExclude => p \in DOMAIN zones'
        BY <1>3, <3>2 DEF ZoneIsOf
      <3>5. ZoneIsOf(id, alloc)'
        BY <3>3, <3>4 DEF ZoneIsOf, alloc, Lookup
      <3> QED
        BY <3>5 DEF alloc
    <2> QED
      BY <2>1, <2>2
  <1> QED
    BY <1>6, <1>7 DEF ZonesOfOneAnswer

\* Every other step leaves the zones alone or begins anew.
LEMMA TornStep == TornInv /\ [Next]_vars => VisitedInv' /\ ZonesOfOneAnswer'
  <1> SUFFICES ASSUME TornInv, [Next]_vars PROVE VisitedInv' /\ ZonesOfOneAnswer'
    OBVIOUS
  <1>1. CASE ScanResources
    BY <1>1, TornResources
  <1>2. CASE zones' = <<>> /\ (ScanFails \/ \E podRes \in PodLists : ScanList(podRes))
    <2>1. DOMAIN zones' = {} /\ (scanPc' = "idle" \/ (scanPc' = "zone" /\ todo' = NodeIDs))
      BY <1>2 DEF ScanFails, ScanList
    <2> QED
      BY <2>1 DEF VisitedInv, ZonesOfOneAnswer
  <1>3. CASE zones' = zones /\ todo' = todo
             /\ (scanPc' \in {"zone", "resources"} => scanPc \in {"zone", "resources"})
             /\ (scanPc' = "resources" => todo # {})
    <2>1. VisitedInv'
      BY <1>3 DEF TornInv, VisitedInv
    <2>2. ASSUME NEW id, NEW resp \in AllocatableResponses, ZoneIsOf(id, AllocatableOf[resp])
          PROVE  ZoneIsOf(id, AllocatableOf[resp])'
      BY <1>3, <2>2 DEF ZoneIsOf, Lookup
    <2> QED
      BY <1>3, <2>1, <2>2 DEF TornInv, ZonesOfOneAnswer
  <1>4. (zones' = zones /\ todo' = todo) =>
           \/ (scanPc' \in {"zone", "resources"} => scanPc \in {"zone", "resources"})
              /\ (scanPc' = "resources" => todo # {})
           \/ ScanFails \/ (\E podRes \in PodLists : ScanList(podRes)) \/ ScanResources
    BY DEF TornInv, VisitedInv, Next, vars, KubeletChanges, KubeletPublishes, ResUpdated,
           UpdateNodeCapacity, UpdateNodeAllocatable, RefreshFails, UpdateDevicesCapacity,
           InformerSynced, ScanZone, ScanReturns, MapRace, scanVars
  <1>5. ScanFails \/ (\E podRes \in PodLists : ScanList(podRes)) => zones' = <<>>
    BY DEF ScanFails, ScanList
  <1> QED
    BY <1>1, <1>2, <1>3, <1>4, <1>5, ZonesKept

(***************************************************************************)
(* However a scan and the refreshes interleave, the zone of a NUMA node is *)
(* that of one answer of the kubelet: updateNodeAllocatable replaces       *)
(* rm.nodeAllocatable as a whole, and Scan takes a NUMA node's counters    *)
(* from it once.                                                           *)
(***************************************************************************)
THEOREM ZonesAreOfOneAnswer == Spec => []ZonesOfOneAnswer
  <1>1. Init => TornInv
    <2>1. Init => changes \in 0 .. MaxChanges /\ pending \in Nat
      BY MonitorAssumption DEF Init
    <2>2. Init => PositionsOK
      BY <2>1, Zenon DEF Init, PositionsOK
    <2>3. Init => AnswerInv /\ VisitedInv /\ ZonesOfOneAnswer
      BY DEF Init, AnswerInv, VisitedInv, ZonesOfOneAnswer
    <2> QED
      BY <2>2, <2>3, MonitorInit DEF TornInv
  <1>2. TornInv /\ [Next]_vars => TornInv'
    BY CountersStep, PositionsStep, AnswerStep, TornStep DEF TornInv
  <1>3. TornInv => ZonesOfOneAnswer
    BY DEF TornInv
  <1> QED
    BY <1>1, <1>2, <1>3, PTL DEF Spec

============================================================================
