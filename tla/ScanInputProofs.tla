-------------------------- MODULE ScanInputProofs --------------------------
(***************************************************************************)
(* Proofs about ScanInput, for every answer of the kubelet and every order *)
(* in which the device entries are counted.                                *)
(***************************************************************************)
EXTENDS ScanInput, FiniteSetTheorems, TLAPS

\* There are n numbers from 1 to n.
LEMMA UpTo ==
    ASSUME NEW n \in Nat
    PROVE  IsFiniteSet(1 .. n) /\ Cardinality(1 .. n) = n
<1>1. IsFiniteSet(1 .. n) /\ Cardinality(1 .. n) = IF 1 > n THEN 0 ELSE n - 1 + 1
  BY FS_Interval
<1>2. (IF 1 > n THEN 0 ELSE n - 1 + 1) = n
  OBVIOUS
<1> QED
  BY <1>1, <1>2

----------------------------------------------------------------------------
(* What the middleware leaves of an answer.                                  *)

\* The terminal pods filter keeps every pod.
LEMMA TerminalPodsKept ==
    ASSUME NEW pods, NEW flag
    PROVE  /\ DOMAIN FilterIfAsked(pods, flag) = DOMAIN pods
           /\ \A i \in DOMAIN pods : FilterIfAsked(pods, flag)[i] = pods[i]
    BY DEF FilterIfAsked, FilterFrom, TerminalPodsListed, Restrict

\* The middleware has returned.
Listed == answer \in Answers /\ podRes = ListPodResources(answer, excludeTerminalPods)

\* List() drops the excluded pods, and of the others only the shared CPUs.
LEMMA Filtered ==
    ASSUME Listed
    PROVE  /\ DOMAIN podRes = {i \in DOMAIN answer : ~ ShouldExclude(answer[i])}
           /\ \A i \in DOMAIN podRes :
                 LET pr == podRes[i]
                 IN  /\ pr.namespace = answer[i].namespace
                     /\ DOMAIN pr.containers = DOMAIN answer[i].containers
                     /\ \A j \in DOMAIN pr.containers :
                           /\ pr.containers[j].devices = answer[i].containers[j].devices
                           /\ pr.containers[j].memory = answer[i].containers[j].memory
                           /\ pr.containers[j].cpus
                                 = answer[i].containers[j].cpus \ SharedPoolCPUs(answer)
<1> DEFINE unshared == RemoveSharedPool(answer)
<1> DEFINE without(pr) == [j \in DOMAIN pr.containers |->
                              WithoutCPUs(pr.containers[j], SharedPoolCPUs(answer))]
<1>1. answer \in Seq(PodResourcesMessage)
  BY ScanAssumption DEF ListMessage, Listed
<1>2. /\ DOMAIN unshared = DOMAIN answer
      /\ \A i \in DOMAIN answer : unshared[i] = [answer[i] EXCEPT !.containers = without(answer[i])]
  BY DEF RemoveSharedPool
<1>3. ASSUME NEW i \in DOMAIN answer
      PROVE  /\ unshared[i].namespace = answer[i].namespace
             /\ unshared[i].name = answer[i].name
             /\ unshared[i].containers = without(answer[i])
  <2>1. answer[i] \in PodResourcesMessage
    BY <1>1
  <2>2. unshared[i] = [answer[i] EXCEPT !.containers = without(answer[i])]
    BY <1>2
  <2> HIDE DEF without, unshared
  <2> QED
    BY <2>1, <2>2 DEF PodResourcesMessage
<1>4. ASSUME NEW i \in DOMAIN answer, NEW j \in DOMAIN answer[i].containers
      PROVE  /\ unshared[i].containers[j].devices = answer[i].containers[j].devices
             /\ unshared[i].containers[j].memory = answer[i].containers[j].memory
             /\ unshared[i].containers[j].cpus
                   = answer[i].containers[j].cpus \ SharedPoolCPUs(answer)
  <2>1. answer[i].containers[j] \in ContainerResources
    <3>1. answer[i] \in PodResourcesMessage
      BY <1>1
    <3>2. answer[i].containers \in Seq(ContainerResources)
      BY <3>1 DEF PodResourcesMessage
    <3> QED
      BY <3>2
  <2>2. unshared[i].containers[j] = WithoutCPUs(answer[i].containers[j], SharedPoolCPUs(answer))
    BY <1>3
  <2> QED
    BY <2>1, <2>2 DEF ContainerResources, WithoutCPUs, removeCPUs
<1>5. \A i \in DOMAIN answer : ShouldExclude(unshared[i]) <=> ShouldExclude(answer[i])
  BY <1>3 DEF ShouldExclude
<1>6. /\ DOMAIN ExcludePods(unshared) = {i \in DOMAIN answer : ~ ShouldExclude(answer[i])}
      /\ \A i \in DOMAIN ExcludePods(unshared) : ExcludePods(unshared)[i] = unshared[i]
  BY <1>2, <1>5 DEF ExcludePods, Restrict
<1>7. /\ DOMAIN podRes = {i \in DOMAIN answer : ~ ShouldExclude(answer[i])}
      /\ \A i \in DOMAIN podRes : podRes[i] = unshared[i]
  <2> DEFINE kept == ExcludePods(unshared)
  <2>1. podRes = FilterIfAsked(kept, excludeTerminalPods)
    BY DEF Listed, ListPodResources
  <2> HIDE DEF kept
  <2>2. DOMAIN podRes = DOMAIN kept /\ \A i \in DOMAIN kept : podRes[i] = kept[i]
    BY <2>1, TerminalPodsKept
  <2> QED
    BY <1>6, <2>2 DEF kept
<1>8. \A i \in DOMAIN answer : DOMAIN unshared[i].containers = DOMAIN answer[i].containers
  BY <1>3
<1> HIDE DEF unshared, without
<1> QED
  BY <1>3, <1>4, <1>7, <1>8

----------------------------------------------------------------------------
(* The device entries, and the units of the answer they stand for.           *)

Container(ij) == answer[ij[1]].containers[ij[2]]

\* The CPUs of a container on a NUMA node, without the shared ones.
CPUsOn(ij, id) ==
    {cpu \in (Container(ij).cpus \cap DOMAIN CoreIDToNodeIDMap) \ SharedPoolCPUs(answer) :
        CoreIDToNodeIDMap[cpu] = id}

FromDevice(ij, k) ==
    DeviceEntry(<<ij, <<"device", k, 0>>>>, Container(ij).devices[k].resource,
                Container(ij).devices[k].count, Container(ij).devices[k].nodes)

FromCPUs(ij, id) ==
    DeviceEntry(<<ij, <<"cpu", 1, id>>>>, "cpu", Cardinality(CPUsOn(ij, id)), {id})

FromMemory(ij, k, id) ==
    DeviceEntry(<<ij, <<"memory", k, id>>>>, Container(ij).memory[k].resource,
                Container(ij).memory[k].size, {id})

\* The device entries of the list that is scanned.
Entries == GetAllContainerDevices(podRes, namespace)

\* The containers of the pods that podexclude keeps, and the units they have.
Kept == {ij \in ContainersIn(answer, namespace) : ~ ShouldExclude(answer[ij[1]])}
KeptUnits(id, resource) == UNION {{ij} \X Has(Container(ij), id, resource) : ij \in Kept}

\* The containers that are scanned are those.
LEMMA KeptContainers ==
    ASSUME Listed
    PROVE  /\ Kept = ContainersIn(podRes, namespace)
           /\ \A ij \in Kept :
                 /\ ij = <<ij[1], ij[2]>>
                 /\ ij[1] \in DOMAIN answer /\ ij[1] \in DOMAIN podRes
                 /\ ij[2] \in DOMAIN answer[ij[1]].containers
                 /\ ij[2] \in DOMAIN podRes[ij[1]].containers
                 /\ Container(ij) \in ContainerResources
                 /\ FiniteMessage(Container(ij))
                 /\ podRes[ij[1]].containers[ij[2]].devices = Container(ij).devices
                 /\ podRes[ij[1]].containers[ij[2]].memory = Container(ij).memory
                 /\ podRes[ij[1]].containers[ij[2]].cpus
                       = Container(ij).cpus \ SharedPoolCPUs(answer)
<1>1. Kept = ContainersIn(podRes, namespace)
  <2> DEFINE in(list) == {i \in DOMAIN list : namespace \in {AnyNamespace, list[i].namespace}}
  <2>1. in(podRes) = {i \in in(answer) : ~ ShouldExclude(answer[i])}
    BY Filtered DEF Listed
  <2>2. \A i \in in(podRes) : DOMAIN podRes[i].containers = DOMAIN answer[i].containers
    BY Filtered DEF Listed
  <2>3. /\ ContainersIn(podRes, namespace) = UNION {{i} \X DOMAIN podRes[i].containers : i \in in(podRes)}
        /\ ContainersIn(answer, namespace) = UNION {{i} \X DOMAIN answer[i].containers : i \in in(answer)}
    BY DEF ContainersIn
  <2> HIDE DEF in
  <2>4. ASSUME NEW ij PROVE ij \in Kept <=> ij \in ContainersIn(podRes, namespace)
    BY <2>1, <2>2, <2>3 DEF Kept
  <2> QED
    BY <2>4 DEF Kept, ContainersIn
<1>2. ASSUME NEW ij \in Kept
      PROVE  /\ ij = <<ij[1], ij[2]>>
             /\ ij[1] \in DOMAIN answer /\ ~ ShouldExclude(answer[ij[1]])
             /\ ij[2] \in DOMAIN answer[ij[1]].containers
  BY DEF Kept, ContainersIn
<1>3. ASSUME NEW i \in DOMAIN answer, NEW j \in DOMAIN answer[i].containers
      PROVE  /\ answer[i].containers[j] \in ContainerResources
             /\ FiniteMessage(answer[i].containers[j])
  <2>1. ListMessage(answer)
    BY ScanAssumption DEF Listed
  <2>2. answer[i] \in PodResourcesMessage
    BY <2>1 DEF ListMessage
  <2>3. answer[i].containers \in Seq(ContainerResources)
    BY <2>2 DEF PodResourcesMessage
  <2> QED
    BY <2>1, <2>3 DEF ListMessage
<1>4. ASSUME NEW ij \in Kept
      PROVE  Container(ij) \in ContainerResources /\ FiniteMessage(Container(ij))
  BY <1>2, <1>3 DEF Container
<1>5. ASSUME NEW ij \in Kept
      PROVE  ij[1] \in DOMAIN podRes /\ ij[2] \in DOMAIN podRes[ij[1]].containers
  BY <1>2, Filtered DEF Listed
<1>6. ASSUME NEW ij \in Kept
      PROVE  /\ podRes[ij[1]].containers[ij[2]].devices = Container(ij).devices
             /\ podRes[ij[1]].containers[ij[2]].memory = Container(ij).memory
             /\ podRes[ij[1]].containers[ij[2]].cpus
                   = Container(ij).cpus \ SharedPoolCPUs(answer)
  BY <1>5, Filtered DEF Listed, Container
<1> QED
  BY <1>1, <1>2, <1>4, <1>5, <1>6

\* The fields of a device entry.
LEMMA EntryFields ==
    ASSUME NEW from, NEW resource, NEW amount, NEW nodes
    PROVE  LET dev == DeviceEntry(from, resource, amount, nodes)
           IN  dev.from = from /\ dev.resource = resource /\ dev.amount = amount /\ dev.nodes = nodes
    BY DEF DeviceEntry

\* There are three kinds of entries.
LEMMA EntryForms ==
    ASSUME Listed, NEW dev
    PROVE  dev \in Entries <=>
              \E ij \in Kept :
                  \/ \E k \in DOMAIN Container(ij).devices : dev = FromDevice(ij, k)
                  \/ \E id : CPUsOn(ij, id) # {} /\ dev = FromCPUs(ij, id)
                  \/ \E k \in DOMAIN Container(ij).memory :
                        /\ Container(ij).memory[k].size # 0
                        /\ \E id \in Container(ij).memory[k].nodes : dev = FromMemory(ij, k, id)
<1> DEFINE at(ij) == {DeviceEntry(<<ij, d.from>>, d.resource, d.amount, d.nodes) :
                         d \in NormalizeContainerDevices(podRes[ij[1]].containers[ij[2]])}
<1>1. dev \in Entries <=> \E ij \in Kept : dev \in at(ij)
  BY KeptContainers DEF Entries, GetAllContainerDevices
<1>2. ASSUME NEW ij \in Kept
      PROVE  dev \in at(ij) <=>
                \/ \E k \in DOMAIN Container(ij).devices : dev = FromDevice(ij, k)
                \/ \E id : CPUsOn(ij, id) # {} /\ dev = FromCPUs(ij, id)
                \/ \E k \in DOMAIN Container(ij).memory :
                      /\ Container(ij).memory[k].size # 0
                      /\ \E id \in Container(ij).memory[k].nodes : dev = FromMemory(ij, k, id)
  <2> DEFINE cnt == podRes[ij[1]].containers[ij[2]]
             tag(d) == DeviceEntry(<<ij, d.from>>, d.resource, d.amount, d.nodes)
             known == cnt.cpus \cap DOMAIN CoreIDToNodeIDMap
             dv(k) == DeviceEntry(<<"device", k, 0>>, Container(ij).devices[k].resource,
                          Container(ij).devices[k].count, Container(ij).devices[k].nodes)
             cp(id) == DeviceEntry(<<"cpu", 1, id>>, "cpu", Cardinality(CPUsOn(ij, id)), {id})
             mm(k, id) == DeviceEntry(<<"memory", k, id>>, Container(ij).memory[k].resource,
                             Container(ij).memory[k].size, {id})
             blocks == {b \in DOMAIN Container(ij).memory : Container(ij).memory[b].size # 0}
  <2>1. /\ cnt.devices = Container(ij).devices
        /\ cnt.memory = Container(ij).memory
        /\ cnt.cpus = Container(ij).cpus \ SharedPoolCPUs(answer)
    BY KeptContainers
  <2> HIDE DEF cnt
  <2>2. /\ \A k : tag(dv(k)) = FromDevice(ij, k)
        /\ \A id : tag(cp(id)) = FromCPUs(ij, id)
        /\ \A k, id : tag(mm(k, id)) = FromMemory(ij, k, id)
    <3>1. \A from, resource, amount, nodes :
             tag(DeviceEntry(from, resource, amount, nodes))
                = DeviceEntry(<<ij, from>>, resource, amount, nodes)
      BY EntryFields
    <3> HIDE DEF tag
    <3>2. \A k : tag(dv(k)) = FromDevice(ij, k)
      BY <3>1 DEF FromDevice
    <3>3. \A id : tag(cp(id)) = FromCPUs(ij, id)
      BY <3>1 DEF FromCPUs
    <3>4. \A k, id : tag(mm(k, id)) = FromMemory(ij, k, id)
      BY <3>1 DEF FromMemory
    <3> QED
      BY <3>2, <3>3, <3>4
  <2>3. \A id : CPUsOn(ij, id) = {cpu \in known : CoreIDToNodeIDMap[cpu] = id}
    BY <2>1 DEF CPUsOn
  <2>4. \A id : CPUsOn(ij, id) # {} <=> id \in {CoreIDToNodeIDMap[cpu] : cpu \in known}
    BY <2>3
  <2>5. CPUDevices(cnt.cpus) = {cp(id) : id \in {CoreIDToNodeIDMap[cpu] : cpu \in known}}
    BY <2>3 DEF CPUDevices
  <2>6. MemoryDevices(cnt.memory)
           = UNION {{mm(k, id) : id \in Container(ij).memory[k].nodes} : k \in blocks}
    BY <2>1 DEF MemoryDevices
  <2>7. NormalizeContainerDevices(cnt)
           = {dv(k) : k \in DOMAIN Container(ij).devices}
                \cup CPUDevices(cnt.cpus) \cup MemoryDevices(cnt.memory)
    BY <2>1 DEF NormalizeContainerDevices
  <2>8. dev \in at(ij) <=> \E d \in NormalizeContainerDevices(cnt) : dev = tag(d)
    BY DEF cnt
  <2> HIDE DEF tag, dv, cp, mm, known, at
  <2>9. \A d : d \in NormalizeContainerDevices(cnt) <=>
             \/ \E k \in DOMAIN Container(ij).devices : d = dv(k)
             \/ \E id : CPUsOn(ij, id) # {} /\ d = cp(id)
             \/ \E k \in blocks : \E id \in Container(ij).memory[k].nodes : d = mm(k, id)
    BY <2>4, <2>5, <2>6, <2>7
  <2> QED
    BY <2>2, <2>8, <2>9
<1> QED
  BY <1>1, <1>2

\* A unit of the answer: number u of the k-th entry of a kind, or CPU k.
Unit(ij, kind, k, u) == <<ij, <<kind, k, u>>>>

\* The units of the answer an entry stands for.
HeldBy(dev) ==
    LET ij == dev.from[1]
        of == dev.from[2]
    IN  IF of[1] = "cpu" THEN {Unit(ij, "cpu", cpu, 1) : cpu \in CPUsOn(ij, of[3])}
                         ELSE {Unit(ij, of[1], of[2], u) : u \in 1 .. dev.amount}

\* A unit of the answer says where it is from.
LEMMA UnitInjective ==
    ASSUME NEW ij1, NEW ij2, NEW kind1, NEW kind2, NEW k1, NEW k2, NEW u1, NEW u2,
           Unit(ij1, kind1, k1, u1) = Unit(ij2, kind2, k2, u2)
    PROVE  ij1 = ij2 /\ kind1 = kind2 /\ k1 = k2 /\ u1 = u2
    BY DEF Unit

\* The units the entries of each kind stand for.
LEMMA HeldByForms ==
    ASSUME NEW ij
    PROVE  /\ \A k : HeldBy(FromDevice(ij, k))
                        = {Unit(ij, "device", k, u) : u \in 1 .. Container(ij).devices[k].count}
           /\ \A id : HeldBy(FromCPUs(ij, id)) = {Unit(ij, "cpu", cpu, 1) : cpu \in CPUsOn(ij, id)}
           /\ \A k, id : HeldBy(FromMemory(ij, k, id))
                            = {Unit(ij, "memory", k, u) : u \in 1 .. Container(ij).memory[k].size}
<1>1. ASSUME NEW k
      PROVE  HeldBy(FromDevice(ij, k))
                = {Unit(ij, "device", k, u) : u \in 1 .. Container(ij).devices[k].count}
  <2>1. FromDevice(ij, k).from = <<ij, <<"device", k, 0>>>> /\ FromDevice(ij, k).amount = Container(ij).devices[k].count
    BY EntryFields DEF FromDevice
  <2> QED
    BY <2>1 DEF HeldBy
<1>2. ASSUME NEW id
      PROVE  HeldBy(FromCPUs(ij, id)) = {Unit(ij, "cpu", cpu, 1) : cpu \in CPUsOn(ij, id)}
  <2>1. FromCPUs(ij, id).from = <<ij, <<"cpu", 1, id>>>>
    BY EntryFields DEF FromCPUs
  <2> QED
    BY <2>1 DEF HeldBy
<1>3. ASSUME NEW k, NEW id
      PROVE  HeldBy(FromMemory(ij, k, id))
                = {Unit(ij, "memory", k, u) : u \in 1 .. Container(ij).memory[k].size}
  <2>1. FromMemory(ij, k, id).from = <<ij, <<"memory", k, id>>>> /\ FromMemory(ij, k, id).amount = Container(ij).memory[k].size
    BY EntryFields DEF FromMemory
  <2> QED
    BY <2>1 DEF HeldBy
<1> QED
  BY <1>1, <1>2, <1>3

\* The counters the entries of each kind go to.
LEMMA ChargedForms ==
    ASSUME NEW ij, NEW p
    PROVE  /\ \A k : p \in Charged(FromDevice(ij, k)) <=>
                  \E id \in Container(ij).devices[k].nodes : p = <<id, Container(ij).devices[k].resource>>
           /\ \A id : p \in Charged(FromCPUs(ij, id)) <=> p = <<id, "cpu">>
           /\ \A k, id : p \in Charged(FromMemory(ij, k, id))
                            <=> p = <<id, Container(ij).memory[k].resource>>
<1>1. ASSUME NEW k
      PROVE  p \in Charged(FromDevice(ij, k)) <=>
                \E id \in Container(ij).devices[k].nodes : p = <<id, Container(ij).devices[k].resource>>
  BY EntryFields DEF Charged, FromDevice
<1>2. ASSUME NEW id
      PROVE  p \in Charged(FromCPUs(ij, id)) <=> p = <<id, "cpu">>
  BY EntryFields DEF Charged, FromCPUs
<1>3. ASSUME NEW k, NEW id
      PROVE  p \in Charged(FromMemory(ij, k, id)) <=> p = <<id, Container(ij).memory[k].resource>>
  BY EntryFields DEF Charged, FromMemory
<1> QED
  BY <1>1, <1>2, <1>3

\* Two entries for the same counter stand for different units.
LEMMA EntriesDisjoint ==
    ASSUME Listed, NEW d1 \in Entries, NEW d2 \in Entries, NEW p,
           p \in Charged(d1), p \in Charged(d2), NEW x, x \in HeldBy(d1), x \in HeldBy(d2)
    PROVE  d1 = d2
<1>1. \A d \in {d1, d2} : \E ij \in Kept :
         \/ \E k, u : x = Unit(ij, "device", k, u) /\ d = FromDevice(ij, k)
         \/ \E cpu : x = Unit(ij, "cpu", cpu, 1) /\ d = FromCPUs(ij, p[1])
         \/ \E k, u : x = Unit(ij, "memory", k, u) /\ d = FromMemory(ij, k, p[1])
  <2> SUFFICES ASSUME NEW d \in Entries, p \in Charged(d), x \in HeldBy(d)
               PROVE  \E ij \in Kept :
                         \/ \E k, u : x = Unit(ij, "device", k, u) /\ d = FromDevice(ij, k)
                         \/ \E cpu : x = Unit(ij, "cpu", cpu, 1) /\ d = FromCPUs(ij, p[1])
                         \/ \E k, u : x = Unit(ij, "memory", k, u) /\ d = FromMemory(ij, k, p[1])
    OBVIOUS
  <2>1. PICK ij \in Kept :
           \/ \E k \in DOMAIN Container(ij).devices : d = FromDevice(ij, k)
           \/ \E id : CPUsOn(ij, id) # {} /\ d = FromCPUs(ij, id)
           \/ \E k \in DOMAIN Container(ij).memory :
                 /\ Container(ij).memory[k].size # 0
                 /\ \E id \in Container(ij).memory[k].nodes : d = FromMemory(ij, k, id)
    BY EntryForms
  <2>2. ASSUME NEW k, d = FromDevice(ij, k)
        PROVE  \E u : x = Unit(ij, "device", k, u)
    <3>1. HeldBy(d) = {Unit(ij, "device", k, u) : u \in 1 .. Container(ij).devices[k].count}
      BY <2>2, HeldByForms
    <3> QED
      BY <3>1
  <2>3. ASSUME NEW id, d = FromCPUs(ij, id)
        PROVE  id = p[1] /\ \E cpu : x = Unit(ij, "cpu", cpu, 1)
    <3>1. p = <<id, "cpu">>
      BY <2>3, ChargedForms
    <3>2. HeldBy(d) = {Unit(ij, "cpu", cpu, 1) : cpu \in CPUsOn(ij, id)}
      BY <2>3, HeldByForms
    <3> QED
      BY <3>1, <3>2
  <2>4. ASSUME NEW k, NEW id, d = FromMemory(ij, k, id)
        PROVE  id = p[1] /\ \E u : x = Unit(ij, "memory", k, u)
    <3>1. p = <<id, Container(ij).memory[k].resource>>
      <4>1. p \in Charged(FromMemory(ij, k, id))
        BY <2>4
      <4>2. Charged(FromMemory(ij, k, id)) = {<<id, Container(ij).memory[k].resource>>}
        BY ChargedForms
      <4> QED
        BY <4>1, <4>2
    <3>2. HeldBy(d) = {Unit(ij, "memory", k, u) : u \in 1 .. Container(ij).memory[k].size}
      BY <2>4, HeldByForms
    <3> QED
      BY <3>1, <3>2
  <2> QED
    BY <2>1, <2>2, <2>3, <2>4
<1>2. PICK ij1 \in Kept :
         \/ \E k, u : x = Unit(ij1, "device", k, u) /\ d1 = FromDevice(ij1, k)
         \/ \E cpu : x = Unit(ij1, "cpu", cpu, 1) /\ d1 = FromCPUs(ij1, p[1])
         \/ \E k, u : x = Unit(ij1, "memory", k, u) /\ d1 = FromMemory(ij1, k, p[1])
  BY <1>1
<1>3. PICK ij2 \in Kept :
         \/ \E k, u : x = Unit(ij2, "device", k, u) /\ d2 = FromDevice(ij2, k)
         \/ \E cpu : x = Unit(ij2, "cpu", cpu, 1) /\ d2 = FromCPUs(ij2, p[1])
         \/ \E k, u : x = Unit(ij2, "memory", k, u) /\ d2 = FromMemory(ij2, k, p[1])
  BY <1>1
<1> QED
  BY <1>2, <1>3, UnitInjective

\* A device entry or memory block of n has n units.
LEMMA UnitsOfBlock ==
    ASSUME NEW ij, NEW kind, NEW k, NEW n \in Nat
    PROVE  LET units == {Unit(ij, kind, k, u) : u \in 1 .. n}
           IN  IsFiniteSet(units) /\ Cardinality(units) = n
<1> DEFINE units == {Unit(ij, kind, k, u) : u \in 1 .. n}
           f == [u \in 1 .. n |-> Unit(ij, kind, k, u)]
<1>1. f \in Bijection(1 .. n, units)
  BY UnitInjective DEF Bijection, Injection, IsInjective, Surjection
<1>2. IsFiniteSet(1 .. n) /\ Cardinality(1 .. n) = n
  BY UpTo
<1> QED
  BY <1>1, <1>2, FS_Bijection DEF ExistsBijection

\* Every CPU is one unit.
LEMMA UnitsOfCPUs ==
    ASSUME NEW ij, NEW cpus, IsFiniteSet(cpus)
    PROVE  LET units == {Unit(ij, "cpu", cpu, 1) : cpu \in cpus}
           IN  IsFiniteSet(units) /\ Cardinality(units) = Cardinality(cpus)
<1> DEFINE units == {Unit(ij, "cpu", cpu, 1) : cpu \in cpus}
           f == [cpu \in cpus |-> Unit(ij, "cpu", cpu, 1)]
<1>1. f \in Bijection(cpus, units)
  BY UnitInjective DEF Bijection, Injection, IsInjective, Surjection
<1> QED
  BY <1>1, FS_Bijection DEF ExistsBijection

\* An entry stands for as many units as it is counted.
LEMMA EntryUnits ==
    ASSUME Listed, NEW dev \in Entries
    PROVE  /\ dev.amount \in Nat
           /\ IsFiniteSet(HeldBy(dev))
           /\ Cardinality(HeldBy(dev)) = dev.amount
<1>1. PICK ij \in Kept :
         \/ \E k \in DOMAIN Container(ij).devices : dev = FromDevice(ij, k)
         \/ \E id : CPUsOn(ij, id) # {} /\ dev = FromCPUs(ij, id)
         \/ \E k \in DOMAIN Container(ij).memory :
               /\ Container(ij).memory[k].size # 0
               /\ \E id \in Container(ij).memory[k].nodes : dev = FromMemory(ij, k, id)
  BY EntryForms
<1>2. Container(ij) \in ContainerResources /\ FiniteMessage(Container(ij))
  BY KeptContainers
<1>3. ASSUME NEW k \in DOMAIN Container(ij).devices, dev = FromDevice(ij, k)
      PROVE  /\ dev.amount \in Nat
             /\ IsFiniteSet(HeldBy(dev))
             /\ Cardinality(HeldBy(dev)) = dev.amount
  <2>1. dev.amount = Container(ij).devices[k].count
    BY <1>3, EntryFields DEF FromDevice
  <2>2. Container(ij).devices[k].count \in Nat
    <3>1. Container(ij).devices \in Seq(ContainerDevices)
      BY <1>2 DEF ContainerResources
    <3>2. Container(ij).devices[k] \in ContainerDevices
      BY <3>1
    <3> QED
      BY <3>2 DEF ContainerDevices
  <2>3. HeldBy(dev) = {Unit(ij, "device", k, u) : u \in 1 .. dev.amount}
    BY <1>3, <2>1, HeldByForms
  <2> QED
    BY <2>1, <2>2, <2>3, UnitsOfBlock
<1>4. ASSUME NEW id, dev = FromCPUs(ij, id)
      PROVE  /\ dev.amount \in Nat
             /\ IsFiniteSet(HeldBy(dev))
             /\ Cardinality(HeldBy(dev)) = dev.amount
  <2>1. dev.amount = Cardinality(CPUsOn(ij, id))
    BY <1>4, EntryFields DEF FromCPUs
  <2>2. IsFiniteSet(CPUsOn(ij, id))
    <3>1. CPUsOn(ij, id) \in SUBSET Container(ij).cpus
      BY DEF CPUsOn
    <3> QED
      BY <1>2, <3>1, FS_Subset DEF FiniteMessage
  <2>3. HeldBy(dev) = {Unit(ij, "cpu", cpu, 1) : cpu \in CPUsOn(ij, id)}
    BY <1>4, HeldByForms
  <2> QED
    BY <2>1, <2>2, <2>3, UnitsOfCPUs, FS_CardinalityType
<1>5. ASSUME NEW k \in DOMAIN Container(ij).memory, NEW id, dev = FromMemory(ij, k, id)
      PROVE  /\ dev.amount \in Nat
             /\ IsFiniteSet(HeldBy(dev))
             /\ Cardinality(HeldBy(dev)) = dev.amount
  <2>1. dev.amount = Container(ij).memory[k].size
    BY <1>5, EntryFields DEF FromMemory
  <2>2. Container(ij).memory[k].size \in Nat
    <3>1. Container(ij).memory \in Seq(ContainerMemory)
      BY <1>2 DEF ContainerResources
    <3>2. Container(ij).memory[k] \in ContainerMemory
      BY <3>1
    <3> QED
      BY <3>2 DEF ContainerMemory
  <2>3. HeldBy(dev) = {Unit(ij, "memory", k, u) : u \in 1 .. dev.amount}
    BY <1>5, <2>1, HeldByForms
  <2> QED
    BY <2>1, <2>2, <2>3, UnitsOfBlock
<1> QED
  BY <1>1, <1>3, <1>4, <1>5

\* The units of the answer the entries for a counter stand for.
HeldFor(devs, p) == UNION {HeldBy(dev) : dev \in {d \in devs : p \in Charged(d)}}

\* The units of a container on a NUMA node, by kind.
LEMMA HasForms ==
    ASSUME NEW ij, NEW id, NEW resource, NEW y
    PROVE  y \in Has(Container(ij), id, resource) <=>
              \/ \E k \in DOMAIN Container(ij).devices :
                    /\ Container(ij).devices[k].resource = resource
                    /\ id \in Container(ij).devices[k].nodes
                    /\ \E u \in 1 .. Container(ij).devices[k].count : y = <<"device", k, u>>
              \/ resource = "cpu" /\ \E cpu \in CPUsOn(ij, id) : y = <<"cpu", cpu, 1>>
              \/ \E k \in DOMAIN Container(ij).memory :
                    /\ Container(ij).memory[k].resource = resource
                    /\ id \in Container(ij).memory[k].nodes
                    /\ \E u \in 1 .. Container(ij).memory[k].size : y = <<"memory", k, u>>
<1> DEFINE cnt == Container(ij)
           devs == {d \in DOMAIN cnt.devices : cnt.devices[d].resource = resource
                                            /\ id \in cnt.devices[d].nodes}
           blocks == {b \in DOMAIN cnt.memory : cnt.memory[b].resource = resource
                                             /\ id \in cnt.memory[b].nodes}
           ofDevs == UNION {{"device"} \X {k} \X (1 .. cnt.devices[k].count) : k \in devs}
           ofBlocks == UNION {{"memory"} \X {k} \X (1 .. cnt.memory[k].size) : k \in blocks}
           ofCPUs == {"cpu"} \X {cpu \in (cnt.cpus \cap DOMAIN CoreIDToNodeIDMap) \ SharedPoolCPUs(answer) :
                                    resource = "cpu" /\ CoreIDToNodeIDMap[cpu] = id} \X {1}
<1>1. Has(cnt, id, resource) = ofDevs \cup ofBlocks \cup ofCPUs
  BY DEF Has
<1>2. y \in ofDevs <=> \E k \in devs : \E u \in 1 .. cnt.devices[k].count : y = <<"device", k, u>>
  OBVIOUS
<1>3. y \in ofBlocks <=> \E k \in blocks : \E u \in 1 .. cnt.memory[k].size : y = <<"memory", k, u>>
  OBVIOUS
<1>4. y \in ofCPUs <=> resource = "cpu" /\ \E cpu \in CPUsOn(ij, id) : y = <<"cpu", cpu, 1>>
  BY DEF CPUsOn
<1> HIDE DEF ofDevs, ofBlocks, ofCPUs
<1> QED
  BY <1>1, <1>2, <1>3, <1>4

\* The units of all containers that count, by kind.
LEMMA KeptUnitsForms ==
    ASSUME NEW id, NEW resource, NEW x
    PROVE  x \in KeptUnits(id, resource) <=>
              \E ij \in Kept :
                  \/ \E k \in DOMAIN Container(ij).devices :
                        /\ Container(ij).devices[k].resource = resource
                        /\ id \in Container(ij).devices[k].nodes
                        /\ \E u \in 1 .. Container(ij).devices[k].count : x = Unit(ij, "device", k, u)
                  \/ resource = "cpu" /\ \E cpu \in CPUsOn(ij, id) : x = Unit(ij, "cpu", cpu, 1)
                  \/ \E k \in DOMAIN Container(ij).memory :
                        /\ Container(ij).memory[k].resource = resource
                        /\ id \in Container(ij).memory[k].nodes
                        /\ \E u \in 1 .. Container(ij).memory[k].size : x = Unit(ij, "memory", k, u)
<1>1. x \in KeptUnits(id, resource) <=>
         \E ij \in Kept : \E y \in Has(Container(ij), id, resource) : x = <<ij, y>>
  BY DEF KeptUnits, Container
<1> QED
  BY <1>1, HasForms DEF Unit

\* The entries for a counter stand for all the units it is to count.
LEMMA EntriesComplete ==
    ASSUME Listed, NEW id, NEW resource
    PROVE  HeldFor(Entries, <<id, resource>>) = KeptUnits(id, resource)
<1> DEFINE p == <<id, resource>>
<1>1. ASSUME NEW x, x \in HeldFor(Entries, p)
      PROVE  x \in KeptUnits(id, resource)
  <2>1. PICK dev \in Entries : p \in Charged(dev) /\ x \in HeldBy(dev)
    BY <1>1 DEF HeldFor
  <2>2. PICK ij \in Kept :
           \/ \E k \in DOMAIN Container(ij).devices : dev = FromDevice(ij, k)
           \/ \E n : CPUsOn(ij, n) # {} /\ dev = FromCPUs(ij, n)
           \/ \E k \in DOMAIN Container(ij).memory :
                 /\ Container(ij).memory[k].size # 0
                 /\ \E n \in Container(ij).memory[k].nodes : dev = FromMemory(ij, k, n)
    BY EntryForms
  <2>3. ASSUME NEW k \in DOMAIN Container(ij).devices, dev = FromDevice(ij, k)
        PROVE  x \in KeptUnits(id, resource)
    <3>1. Container(ij).devices[k].resource = resource /\ id \in Container(ij).devices[k].nodes
      <4>1. PICK n \in Container(ij).devices[k].nodes : p = <<n, Container(ij).devices[k].resource>>
        BY <2>1, <2>3, ChargedForms
      <4> QED
        BY <4>1
    <3>2. HeldBy(dev) = {Unit(ij, "device", k, u) : u \in 1 .. Container(ij).devices[k].count}
      BY <2>3, HeldByForms
    <3>3. PICK u \in 1 .. Container(ij).devices[k].count : x = Unit(ij, "device", k, u)
      BY <2>1, <3>2
    <3> QED
      BY <3>1, <3>3, KeptUnitsForms
  <2>4. ASSUME NEW n, dev = FromCPUs(ij, n)
        PROVE  x \in KeptUnits(id, resource)
    <3>1. n = id /\ resource = "cpu"
      <4>1. p = <<n, "cpu">>
        BY <2>1, <2>4, ChargedForms
      <4> QED
        BY <4>1
    <3>2. HeldBy(dev) = {Unit(ij, "cpu", cpu, 1) : cpu \in CPUsOn(ij, n)}
      BY <2>4, HeldByForms
    <3>3. PICK cpu \in CPUsOn(ij, id) : x = Unit(ij, "cpu", cpu, 1)
      BY <2>1, <3>1, <3>2
    <3> QED
      BY <3>1, <3>3, KeptUnitsForms
  <2>5. ASSUME NEW k \in DOMAIN Container(ij).memory, NEW n \in Container(ij).memory[k].nodes,
               dev = FromMemory(ij, k, n)
        PROVE  x \in KeptUnits(id, resource)
    <3>1. n = id /\ resource = Container(ij).memory[k].resource
      <4>1. p \in Charged(FromMemory(ij, k, n))
        BY <2>1, <2>5
      <4>2. p = <<n, Container(ij).memory[k].resource>>
        BY <4>1, ChargedForms
      <4> QED
        BY <4>2
    <3>2. HeldBy(dev) = {Unit(ij, "memory", k, u) : u \in 1 .. Container(ij).memory[k].size}
      BY <2>5, HeldByForms
    <3>3. PICK u \in 1 .. Container(ij).memory[k].size : x = Unit(ij, "memory", k, u)
      BY <2>1, <3>2
    <3> QED
      BY <3>1, <3>3, KeptUnitsForms
  <2> QED
    BY <2>2, <2>3, <2>4, <2>5
<1>2. ASSUME NEW x, x \in KeptUnits(id, resource)
      PROVE  x \in HeldFor(Entries, p)
  <2>1. SUFFICES \E dev \in Entries : p \in Charged(dev) /\ x \in HeldBy(dev)
    BY DEF HeldFor
  <2>2. PICK ij \in Kept :
           \/ \E k \in DOMAIN Container(ij).devices :
                 /\ Container(ij).devices[k].resource = resource
                 /\ id \in Container(ij).devices[k].nodes
                 /\ \E u \in 1 .. Container(ij).devices[k].count : x = Unit(ij, "device", k, u)
           \/ resource = "cpu" /\ \E cpu \in CPUsOn(ij, id) : x = Unit(ij, "cpu", cpu, 1)
           \/ \E k \in DOMAIN Container(ij).memory :
                 /\ Container(ij).memory[k].resource = resource
                 /\ id \in Container(ij).memory[k].nodes
                 /\ \E u \in 1 .. Container(ij).memory[k].size : x = Unit(ij, "memory", k, u)
    BY <1>2, KeptUnitsForms
  <2>3. ASSUME NEW k \in DOMAIN Container(ij).devices,
               Container(ij).devices[k].resource = resource,
               id \in Container(ij).devices[k].nodes,
               \E u \in 1 .. Container(ij).devices[k].count : x = Unit(ij, "device", k, u)
        PROVE  \E dev \in Entries : p \in Charged(dev) /\ x \in HeldBy(dev)
    <3>1. FromDevice(ij, k) \in Entries
      BY EntryForms
    <3>2. p \in Charged(FromDevice(ij, k))
      BY <2>3, ChargedForms
    <3>3. HeldBy(FromDevice(ij, k))
             = {Unit(ij, "device", k, u) : u \in 1 .. Container(ij).devices[k].count}
      BY HeldByForms
    <3> QED
      BY <2>3, <3>1, <3>2, <3>3
  <2>4. ASSUME resource = "cpu", NEW cpu \in CPUsOn(ij, id), x = Unit(ij, "cpu", cpu, 1)
        PROVE  \E dev \in Entries : p \in Charged(dev) /\ x \in HeldBy(dev)
    <3>1. FromCPUs(ij, id) \in Entries
      BY EntryForms
    <3>2. p \in Charged(FromCPUs(ij, id))
      BY <2>4, ChargedForms
    <3>3. HeldBy(FromCPUs(ij, id)) = {Unit(ij, "cpu", c, 1) : c \in CPUsOn(ij, id)}
      BY HeldByForms
    <3> QED
      BY <2>4, <3>1, <3>2, <3>3
  <2>5. ASSUME NEW k \in DOMAIN Container(ij).memory,
               Container(ij).memory[k].resource = resource,
               id \in Container(ij).memory[k].nodes,
               \E u \in 1 .. Container(ij).memory[k].size : x = Unit(ij, "memory", k, u)
        PROVE  \E dev \in Entries : p \in Charged(dev) /\ x \in HeldBy(dev)
    <3>1. Container(ij).memory[k].size # 0
      BY <2>5
    <3>2. FromMemory(ij, k, id) \in Entries
      BY <2>5, <3>1, EntryForms
    <3>3. p \in Charged(FromMemory(ij, k, id))
      BY <2>5, ChargedForms
    <3>4. HeldBy(FromMemory(ij, k, id))
             = {Unit(ij, "memory", k, u) : u \in 1 .. Container(ij).memory[k].size}
      BY HeldByForms
    <3> QED
      BY <2>5, <3>2, <3>3, <3>4
  <2> QED
    BY <2>2, <2>3, <2>4, <2>5
<1>3. \A x : x \in HeldFor(Entries, p) <=> x \in KeptUnits(id, resource)
  BY <1>1, <1>2
<1> QED
  BY <1>3 DEF HeldFor, KeptUnits

----------------------------------------------------------------------------
(* The stages of the answer, and the fingerprint.                            *)

\* What the middleware has made of the answer, and what Scan has done with it.
StageInv ==
    /\ answer \in Answers
    /\ stage \in {"kubelet", "sharedcpuspool", "podexclude", "terminalpods", "counting", "scanned"}
    /\ stage = "kubelet" => podRes = answer
    /\ stage = "sharedcpuspool" => podRes = RemoveSharedPool(answer)
    /\ stage = "podexclude" => podRes = ExcludePods(RemoveSharedPool(answer))
    /\ stage \in {"terminalpods", "counting", "scanned"} =>
          podRes = ListPodResources(answer, excludeTerminalPods)
    /\ IF stage \in {"counting", "scanned"}
       THEN fingerprint = Fingerprinted(podRes, methodAll)
       ELSE counters = <<>>
    /\ stage = "scanned" => todo = {}

\* Initially the answer is as the kubelet gave it.
LEMMA StageInit == Init => StageInv
  BY DEF Init, StageInv

\* Every middleware does its part, and Scan works on what the last one leaves.
LEMMA StageStep == StageInv /\ [Next]_vars => StageInv'
<1> SUFFICES ASSUME StageInv, [Next]_vars PROVE StageInv'
  OBVIOUS
<1>1. CASE SharedCPUsPoolList
  BY <1>1 DEF StageInv, SharedCPUsPoolList
<1>2. CASE PodExcludeList
  BY <1>2 DEF StageInv, PodExcludeList
<1>3. CASE TerminalPodsList
  BY <1>3 DEF StageInv, TerminalPodsList, ListPodResources
<1>4. CASE ScanAnswer
  BY <1>4 DEF StageInv, ScanAnswer
<1>5. CASE CountOne
  BY <1>5 DEF StageInv, CountOne
<1>6. CASE CountingEnds
  BY <1>6 DEF StageInv, CountingEnds
<1>7. CASE UNCHANGED vars
  BY <1>7 DEF StageInv, vars
<1> QED
  BY <1>1, <1>2, <1>3, <1>4, <1>5, <1>6, <1>7 DEF Next

\* Scan works on what List() returns.
LEMMA StageListed ==
    ASSUME StageInv, stage \in {"terminalpods", "counting", "scanned"} PROVE Listed
    BY DEF StageInv, Listed

\* The answer goes through the middleware in the order main.go stacks it, and the
\* fingerprint is that of the list that is counted.
THEOREM StageSafe == Spec => []StageInv
  BY StageInit, StageStep, PTL DEF Spec

\* A container that has a unit on a NUMA node makes Verify take its pod.
LEMMA ChargedVerified ==
    ASSUME Listed, NEW ij \in Kept, NEW id \in NodeIDs, NEW resource,
           Has(Container(ij), id, resource) # {}
    PROVE  ij[1] \in DOMAIN podRes /\ Verify(podRes[ij[1]])
<1> DEFINE cr == podRes[ij[1]].containers[ij[2]]
<1>1. /\ ij[1] \in DOMAIN podRes
      /\ cr \in Range(podRes[ij[1]].containers)
  BY KeptContainers DEF Range
<1>2. /\ cr.devices = Container(ij).devices
      /\ cr.memory = Container(ij).memory
      /\ cr.cpus = Container(ij).cpus \ SharedPoolCPUs(answer)
  BY KeptContainers
<1>3. id >= 0
  BY PodResourcesAssumption
<1> HIDE DEF cr
<1>4. PICK y : y \in Has(Container(ij), id, resource)
  OBVIOUS
<1>5. \/ \E k \in DOMAIN Container(ij).devices :
            id \in Container(ij).devices[k].nodes /\ 1 .. Container(ij).devices[k].count # {}
      \/ CPUsOn(ij, id) # {}
      \/ \E k \in DOMAIN Container(ij).memory : id \in Container(ij).memory[k].nodes
  BY <1>4, HasForms
<1>6. CASE CPUsOn(ij, id) # {}
  <2>1. cr.cpus # {}
    BY <1>2, <1>6 DEF CPUsOn
  <2> QED
    BY <1>1, <2>1 DEF Verify
<1>7. ASSUME NEW k \in DOMAIN Container(ij).memory, id \in Container(ij).memory[k].nodes
      PROVE  Verify(podRes[ij[1]])
  <2>1. \E mem \in Range(cr.memory) : IsPresent(mem.nodes)
    BY <1>2, <1>3, <1>7 DEF Range, IsPresent
  <2> QED
    BY <1>1, <2>1 DEF Verify
<1>8. ASSUME NEW k \in DOMAIN Container(ij).devices, id \in Container(ij).devices[k].nodes,
             1 .. Container(ij).devices[k].count # {}
      PROVE  Verify(podRes[ij[1]])
  <2>1. Container(ij).devices[k].count \in Nat
    <3>1. Container(ij).devices \in Seq(ContainerDevices)
      BY KeptContainers DEF ContainerResources
    <3>2. Container(ij).devices[k] \in ContainerDevices
      BY <3>1
    <3> QED
      BY <3>2 DEF ContainerDevices
  <2>2. Container(ij).devices[k].count > 0
    BY <1>8, <2>1
  <2>3. \E dev \in Range(cr.devices) : dev.count > 0 /\ IsPresent(dev.nodes)
    BY <1>2, <1>3, <1>8, <2>2 DEF Range, IsPresent
  <2> QED
    BY <1>1, <2>3 DEF Verify
<1> QED
  BY <1>1, <1>5, <1>6, <1>7, <1>8

\* The pods that counters charge to NUMA nodes are fingerprinted (Scan takes the
\* fingerprint of the list it counts, and Verify looks at all containers).
THEOREM ChargedPodsFingerprintedSafe == Spec => []ChargedPodsFingerprinted
<1>1. StageInv => ChargedPodsFingerprinted
  <2> SUFFICES ASSUME StageInv, stage = "scanned",
                      NEW ij \in ContainersIn(podRes, namespace), NEW id \in NodeIDs,
                      NEW resource \in Resources,
                      Has(answer[ij[1]].containers[ij[2]], id, resource) # {}
               PROVE  ij[1] \in DOMAIN fingerprint
    BY DEF ChargedPodsFingerprinted
  <2>1. ij[1] \in DOMAIN podRes /\ Verify(podRes[ij[1]])
    BY StageListed, KeptContainers, ChargedVerified DEF Container
  <2>2. fingerprint = Fingerprinted(podRes, methodAll)
    BY DEF StageInv
  <2> QED
    BY <2>1, <2>2 DEF Fingerprinted, Restrict
<1> QED
  BY <1>1, StageSafe, PTL

----------------------------------------------------------------------------
(* The loop over the device entries.                                         *)

Done == Entries \ todo

\* The counters hold what was counted so far: the units of the entries, and the
\* units of the answer these stand for.
LoopInv ==
    stage \in {"counting", "scanned"} =>
        /\ todo \subseteq Entries
        /\ counters = [p \in DOMAIN counters |-> counters[p]]
        /\ DOMAIN counters = UNION {Charged(dev) : dev \in Done}
        /\ \A p : /\ IsFiniteSet(Units(Done, p))
                  /\ Cardinality(Units(Done, p)) = Lookup(counters, p)
                  /\ IsFiniteSet(HeldFor(Done, p))
                  /\ Cardinality(HeldFor(Done, p)) = Lookup(counters, p)

\* The size of a union of disjoint sets.
LEMMA DisjointUnion ==
    ASSUME NEW S, NEW T, IsFiniteSet(S), IsFiniteSet(T), S \cap T = {}
    PROVE  /\ IsFiniteSet(S \cup T)
           /\ Cardinality(S \cup T) = Cardinality(S) + Cardinality(T)
<1>1. Cardinality(S) \in Nat /\ Cardinality(T) \in Nat
  BY FS_CardinalityType
<1>2. /\ IsFiniteSet(S \cup T)
      /\ Cardinality(S \cup T) = Cardinality(S) + Cardinality(T) - Cardinality(S \cap T)
  BY FS_Union
<1>3. Cardinality(S \cap T) = 0
  BY FS_EmptySet
<1> QED
  BY <1>1, <1>2, <1>3

\* The body of the loop adds the entry to the counters it is for.
LEMMA CountDeviceAdds ==
    ASSUME NEW c, NEW dev, dev.amount \in Nat, \A p : Lookup(c, p) \in Nat
    PROVE  /\ CountDevice(c, dev) = [p \in DOMAIN CountDevice(c, dev) |-> CountDevice(c, dev)[p]]
           /\ DOMAIN CountDevice(c, dev) = DOMAIN c \cup Charged(dev)
           /\ \A p \in Charged(dev) : Lookup(CountDevice(c, dev), p) = Lookup(c, p) + dev.amount
           /\ \A p : p \notin Charged(dev) => Lookup(CountDevice(c, dev), p) = Lookup(c, p)
<1>1. /\ CountDevice(c, dev) = [p \in DOMAIN CountDevice(c, dev) |-> CountDevice(c, dev)[p]]
      /\ DOMAIN CountDevice(c, dev) = DOMAIN c \cup Charged(dev)
  BY DEF CountDevice
<1>2. \A p \in DOMAIN c \cup Charged(dev) :
         CountDevice(c, dev)[p] = Lookup(c, p) + IF p \in Charged(dev) THEN dev.amount ELSE 0
  BY DEF CountDevice
<1>3. ASSUME NEW p \in Charged(dev)
      PROVE  Lookup(CountDevice(c, dev), p) = Lookup(c, p) + dev.amount
  <2>1. Lookup(CountDevice(c, dev), p) = CountDevice(c, dev)[p]
    BY <1>1 DEF Lookup
  <2> QED
    BY <1>2, <2>1
<1>4. ASSUME NEW p, p \notin Charged(dev), p \in DOMAIN c
      PROVE  Lookup(CountDevice(c, dev), p) = Lookup(c, p)
  <2>1. Lookup(CountDevice(c, dev), p) = CountDevice(c, dev)[p]
    BY <1>1, <1>4 DEF Lookup
  <2> QED
    BY <1>2, <1>4, <2>1
<1>5. ASSUME NEW p, p \notin Charged(dev), p \notin DOMAIN c
      PROVE  Lookup(CountDevice(c, dev), p) = Lookup(c, p)
  BY <1>1, <1>5 DEF Lookup
<1> QED
  BY <1>1, <1>3, <1>4, <1>5

\* One more entry: its units are new.
LEMMA UnitsGrow ==
    ASSUME NEW devs, NEW dev, dev \notin devs, dev.amount \in Nat, NEW p, IsFiniteSet(Units(devs, p))
    PROVE  /\ IsFiniteSet(Units(devs \cup {dev}, p))
           /\ p \in Charged(dev) =>
                 Cardinality(Units(devs \cup {dev}, p)) = Cardinality(Units(devs, p)) + dev.amount
           /\ p \notin Charged(dev) => Units(devs \cup {dev}, p) = Units(devs, p)
<1>1. CASE p \notin Charged(dev)
  <2>1. {d \in devs \cup {dev} : p \in Charged(d)} = {d \in devs : p \in Charged(d)}
    BY <1>1
  <2>2. Units(devs \cup {dev}, p) = Units(devs, p)
    BY <2>1 DEF Units
  <2> QED
    BY <1>1, <2>2
<1>2. CASE p \in Charged(dev)
  <2> DEFINE new == {dev} \X (1 .. dev.amount)
  <2>1. IsFiniteSet({dev}) /\ Cardinality({dev}) = 1
    BY FS_Singleton
  <2>2. IsFiniteSet(1 .. dev.amount) /\ Cardinality(1 .. dev.amount) = dev.amount
    BY UpTo
  <2>3. IsFiniteSet(new) /\ Cardinality(new) = dev.amount
    <3>1. IsFiniteSet(new) /\ Cardinality(new) = Cardinality({dev}) * Cardinality(1 .. dev.amount)
      BY <2>1, <2>2, FS_Product
    <3> QED
      BY <2>1, <2>2, <3>1
  <2>4. {d \in devs \cup {dev} : p \in Charged(d)} = {d \in devs : p \in Charged(d)} \cup {dev}
    BY <1>2
  <2>5. Units(devs \cup {dev}, p) = Units(devs, p) \cup new
    BY <2>4 DEF Units
  <2>6. Units(devs, p) \cap new = {}
    <3>1. \A x \in new : x[1] = dev
      OBVIOUS
    <3>2. \A x \in Units(devs, p) : x[1] \in devs
      BY DEF Units
    <3> QED
      BY <3>1, <3>2
  <2> HIDE DEF new
  <2> QED
    BY <1>2, <2>3, <2>5, <2>6, DisjointUnion
<1> QED
  BY <1>1, <1>2

\* One more entry adds its units of the answer, and no entry counted before had
\* any of them.
LEMMA HeldGrows ==
    ASSUME Listed, NEW devs, devs \subseteq Entries, NEW dev \in Entries, dev \notin devs,
           NEW p, IsFiniteSet(HeldFor(devs, p))
    PROVE  /\ IsFiniteSet(HeldFor(devs \cup {dev}, p))
           /\ p \in Charged(dev) =>
                 Cardinality(HeldFor(devs \cup {dev}, p)) = Cardinality(HeldFor(devs, p)) + dev.amount
           /\ p \notin Charged(dev) => HeldFor(devs \cup {dev}, p) = HeldFor(devs, p)
<1>1. CASE p \notin Charged(dev)
  <2>1. {d \in devs \cup {dev} : p \in Charged(d)} = {d \in devs : p \in Charged(d)}
    BY <1>1
  <2>2. HeldFor(devs \cup {dev}, p) = HeldFor(devs, p)
    BY <2>1 DEF HeldFor
  <2> QED
    BY <1>1, <2>2
<1>2. CASE p \in Charged(dev)
  <2>1. IsFiniteSet(HeldBy(dev)) /\ Cardinality(HeldBy(dev)) = dev.amount
    BY EntryUnits
  <2>2. {d \in devs \cup {dev} : p \in Charged(d)} = {d \in devs : p \in Charged(d)} \cup {dev}
    BY <1>2
  <2>3. HeldFor(devs \cup {dev}, p) = HeldFor(devs, p) \cup HeldBy(dev)
    BY <2>2 DEF HeldFor
  <2>4. HeldFor(devs, p) \cap HeldBy(dev) = {}
    <3> SUFFICES ASSUME NEW x \in HeldFor(devs, p), x \in HeldBy(dev) PROVE FALSE
      OBVIOUS
    <3>1. PICK d \in devs : p \in Charged(d) /\ x \in HeldBy(d)
      BY DEF HeldFor
    <3>2. d = dev
      BY <1>2, <3>1, EntriesDisjoint
    <3> QED
      BY <3>2
  <2> QED
    BY <1>2, <2>1, <2>3, <2>4, DisjointUnion
<1> QED
  BY <1>1, <1>2

\* Initially nothing is counted.
LEMMA LoopInit == Init => LoopInv
  BY DEF Init, LoopInv

\* Nothing is counted when the loop starts.
LEMMA LoopStarts ==
    ASSUME StageInv, ScanAnswer PROVE LoopInv'
<1>1. counters' = <<>> /\ todo' = Entries /\ Entries' = Entries
  BY DEF StageInv, ScanAnswer, Entries
<1>2. Done' = {}
  BY <1>1 DEF Done
<1>3. \A p : Units(Done, p)' = {} /\ HeldFor(Done, p)' = {}
  BY <1>2 DEF Units, HeldFor
<1>4. DOMAIN <<>> = {}
  OBVIOUS
<1>5. \A p : Lookup(<<>>, p) = 0
  BY <1>4 DEF Lookup
<1>6. <<>> = [p \in DOMAIN <<>> |-> <<>>[p]]
  OBVIOUS
<1>7. \A p : Lookup(counters, p)' = 0
  BY <1>1, <1>5
<1>8. DOMAIN counters' = UNION {Charged(dev) : dev \in Done'}
  BY <1>1, <1>2, <1>4
<1>9. todo' \subseteq Entries' /\ counters' = [p \in DOMAIN counters' |-> counters'[p]]
  BY <1>1, <1>6
<1> QED
  BY <1>3, <1>7, <1>8, <1>9, FS_EmptySet DEF LoopInv

\* Counting one entry keeps the counters at what was counted so far.
LEMMA LoopCountsOne ==
    ASSUME StageInv, LoopInv, CountOne PROVE LoopInv'
<1>1. stage = "counting" /\ Listed
  BY StageListed DEF CountOne
<1>2. PICK dev \in todo : counters' = CountDevice(counters, dev) /\ todo' = todo \ {dev}
  BY DEF CountOne
<1>3. Entries' = Entries
  BY DEF CountOne, Entries
<1>4. /\ todo \subseteq Entries
      /\ DOMAIN counters = UNION {Charged(d) : d \in Done}
      /\ \A p : /\ IsFiniteSet(Units(Done, p))
                /\ Cardinality(Units(Done, p)) = Lookup(counters, p)
                /\ IsFiniteSet(HeldFor(Done, p))
                /\ Cardinality(HeldFor(Done, p)) = Lookup(counters, p)
  BY <1>1 DEF LoopInv
<1>5. dev \in Entries /\ dev \notin Done /\ Done \subseteq Entries
  BY <1>4 DEF Done
<1>6. Done' = Done \cup {dev}
  BY <1>2, <1>3, <1>4 DEF Done
<1>7. dev.amount \in Nat
  BY <1>1, <1>5, EntryUnits
<1>8. \A p : Lookup(counters, p) \in Nat
  BY <1>4, FS_CardinalityType
<1>9. /\ counters' = [p \in DOMAIN counters' |-> counters'[p]]
      /\ DOMAIN counters' = DOMAIN counters \cup Charged(dev)
      /\ \A p \in Charged(dev) : Lookup(counters', p) = Lookup(counters, p) + dev.amount
      /\ \A p : p \notin Charged(dev) => Lookup(counters', p) = Lookup(counters, p)
  <2> DEFINE next == CountDevice(counters, dev)
  <2>1. /\ next = [p \in DOMAIN next |-> next[p]]
        /\ DOMAIN next = DOMAIN counters \cup Charged(dev)
        /\ \A p \in Charged(dev) : Lookup(next, p) = Lookup(counters, p) + dev.amount
        /\ \A p : p \notin Charged(dev) => Lookup(next, p) = Lookup(counters, p)
    BY ONLY <1>7, <1>8, CountDeviceAdds
  <2>2. counters' = next
    BY <1>2
  <2> HIDE DEF next
  <2> QED
    BY ONLY <2>1, <2>2, Zenon
<1>10. DOMAIN counters' = UNION {Charged(d) : d \in Done'}
  BY <1>4, <1>6, <1>9
<1>11. ASSUME NEW p
       PROVE  /\ IsFiniteSet(Units(Done', p))
              /\ Cardinality(Units(Done', p)) = Lookup(counters', p)
  <2>1. /\ IsFiniteSet(Units(Done', p))
        /\ p \in Charged(dev) =>
              Cardinality(Units(Done', p)) = Cardinality(Units(Done, p)) + dev.amount
        /\ p \notin Charged(dev) => Units(Done', p) = Units(Done, p)
    BY <1>4, <1>5, <1>6, <1>7, UnitsGrow
  <2> QED
    BY <1>4, <1>9, <2>1
<1>12. ASSUME NEW p
       PROVE  /\ IsFiniteSet(HeldFor(Done', p))
              /\ Cardinality(HeldFor(Done', p)) = Lookup(counters', p)
  <2>1. /\ IsFiniteSet(HeldFor(Done \cup {dev}, p))
        /\ p \in Charged(dev) =>
              Cardinality(HeldFor(Done \cup {dev}, p)) = Cardinality(HeldFor(Done, p)) + dev.amount
        /\ p \notin Charged(dev) => HeldFor(Done \cup {dev}, p) = HeldFor(Done, p)
    BY <1>1, <1>4, <1>5, HeldGrows
  <2> QED
    BY <1>4, <1>6, <1>9, <2>1
<1>13. todo' \subseteq Entries'
  BY <1>2, <1>3, <1>4
<1>14. \A p : HeldFor(Done, p)' = HeldFor(Done', p)
  <2>1. answer' = answer
    BY DEF CountOne
  <2>2. \A ij, id : CPUsOn(ij, id)' = CPUsOn(ij, id)
    BY <2>1 DEF CPUsOn, Container
  <2>3. \A d : HeldBy(d)' = HeldBy(d)
    BY <2>2 DEF HeldBy
  <2> QED
    BY <2>3 DEF HeldFor
<1> QED
  BY <1>9, <1>10, <1>11, <1>12, <1>13, <1>14 DEF LoopInv

\* Every step keeps the counters at what was counted so far.
LEMMA LoopStep == StageInv /\ LoopInv /\ [Next]_vars => LoopInv'
<1> SUFFICES ASSUME StageInv, LoopInv, [Next]_vars PROVE LoopInv'
  OBVIOUS
<1>1. CASE SharedCPUsPoolList \/ PodExcludeList \/ TerminalPodsList
  BY <1>1 DEF LoopInv, SharedCPUsPoolList, PodExcludeList, TerminalPodsList
<1>2. CASE ScanAnswer
  BY <1>2, LoopStarts
<1>3. CASE CountOne
  BY <1>3, LoopCountsOne
<1>4. CASE CountingEnds \/ UNCHANGED vars
  <2>1. /\ stage' \in {"counting", "scanned"} => stage \in {"counting", "scanned"}
        /\ UNCHANGED <<namespace, answer, podRes, todo, counters>>
    BY <1>4 DEF CountingEnds, vars
  <2>2. Entries' = Entries /\ Done' = Done
    BY <2>1 DEF Done, Entries
  <2>3. \A ij, id : CPUsOn(ij, id)' = CPUsOn(ij, id)
    BY <2>1 DEF CPUsOn, Container
  <2>4. \A d : HeldBy(d)' = HeldBy(d)
    BY <2>3 DEF HeldBy
  <2>5. \A p : HeldFor(Done, p)' = HeldFor(Done, p)
    BY <2>2, <2>4 DEF HeldFor
  <2> QED
    BY <2>1, <2>2, <2>5 DEF LoopInv
<1> QED
  BY <1>1, <1>2, <1>3, <1>4 DEF Next

\* At every moment of the loop in ContainerDevicesToPerNUMAResourceCounters the
\* counters hold exactly the units of the entries it has taken.
THEOREM LoopSafe == Spec => [](StageInv /\ LoopInv)
<1>1. Init => StageInv /\ LoopInv
  BY StageInit, LoopInit
<1>2. StageInv /\ LoopInv /\ [Next]_vars => (StageInv /\ LoopInv)'
  BY StageStep, LoopStep
<1> QED
  BY <1>1, <1>2, PTL DEF Spec

\* When the loop ends every entry is counted.
LEMMA AllDone ==
    ASSUME StageInv, LoopInv, stage = "scanned"
    PROVE  /\ Listed /\ Done = Entries
           /\ counters = [p \in DOMAIN counters |-> counters[p]]
           /\ DOMAIN counters = UNION {Charged(dev) : dev \in Entries}
           /\ \A p : /\ Cardinality(Units(Entries, p)) = Lookup(counters, p)
                     /\ Cardinality(HeldFor(Entries, p)) = Lookup(counters, p)
<1>1. todo = {} /\ Listed
  BY StageListed DEF StageInv
<1>2. Done = Entries
  BY <1>1 DEF Done
<1> QED
  BY <1>1, <1>2 DEF LoopInv

\* The loop in ContainerDevicesToPerNUMAResourceCounters computes, in whatever
\* order it takes the entries, the counters ResourceMonitor works with.
THEOREM LoopCountsUnitsSafe == Spec => []LoopCountsUnits
<1>1. StageInv /\ LoopInv => LoopCountsUnits
  <2> SUFFICES ASSUME StageInv, LoopInv, stage = "scanned"
               PROVE  counters = PerNUMAResourceCounters(Entries)
    BY DEF LoopCountsUnits, Entries
  <2>1. \A p \in DOMAIN counters : counters[p] = Cardinality(Units(Entries, p))
    BY AllDone DEF Lookup
  <2> QED
    BY <2>1, AllDone DEF PerNUMAResourceCounters
<1> QED
  BY <1>1, LoopSafe, PTL

\* Every counter holds the number of the units of the kubelet's answer that the
\* pods that are not excluded have on its NUMA node: none is missed, none is
\* counted twice, whatever the answer and the order, unless there are terminal
\* pods and -exclude-terminal-pods is given.
THEOREM CountersAreExactSafe == Spec => []CountersAreExact
<1>1. StageInv /\ LoopInv => CountersAreExact
  <2> SUFFICES ASSUME StageInv, LoopInv, stage = "scanned", ~ TerminalPodsAsked, NEW id, NEW resource
               PROVE  Lookup(counters, <<id, resource>>) = Cardinality(Held(id, resource))
    BY DEF CountersAreExact
  <2>1. HeldFor(Entries, <<id, resource>>) = KeptUnits(id, resource)
    BY AllDone, EntriesComplete
  <2>2. \A ij \in ContainersIn(answer, namespace) : ij[1] \in DOMAIN answer
    BY DEF ContainersIn
  <2>3. Counted = Kept
    BY <2>2 DEF Counted, Kept, TerminalPodsAsked
  <2>4. Held(id, resource) = KeptUnits(id, resource)
    BY <2>3 DEF Held, KeptUnits, Container
  <2> QED
    BY <2>1, <2>4, AllDone
<1> QED
  BY <1>1, LoopSafe, PTL

============================================================================
