-------------------------- MODULE ResourceMonitor --------------------------
(***************************************************************************)
(* pkg/resourcemonitor: the scan, and the refresh of the node's capacity   *)
(* and allocatable that NewResourceMonitor does once and the node          *)
(* informer's goroutine repeats.  The two goroutines share nodeCapacity    *)
(* and nodeAllocatable without a lock: a scan may read one before and the  *)
(* other after a refresh replaced it.  A reader that holds an inner map of *)
(* nodeCapacity sees what updateDevicesCapacity writes into it, and when   *)
(* both use the map at the same time the Go runtime may end the process.   *)
(*                                                                         *)
(* The kubelet changes what it can allocate, and publishes the totals in   *)
(* the status of the Node some time later; the informer reports only       *)
(* changes of that status after its cache has synced.  The handler knows   *)
(* its Node by the environment variable NODE_NAME alone.                   *)
(***************************************************************************)
EXTENDS PodResources

CONSTANTS
    AllocatableResponses, \* what GetAllocatableResources may answer
    PodLists,             \* what List may answer
    NativeCapacity,       \* [NodeIDs \X native resources -> Nat], from sysfs
    Namespace,            \* args.Namespace
    ResourceExclude,      \* the excluded resources, for "*" or for rm.nodeName
    ExcludeTerminalPods,  \* args.ExcludeTerminalPods
    RefreshNodeResources, \* args.RefreshNodeResources
    MaxChanges            \* bound: how often the kubelet changes its mind

NativeResources == {p[2] : p \in DOMAIN NativeCapacity}

\* What updateNodeAllocatable makes of an answer.
AllocatableOf == [resp \in AllocatableResponses |->
    PerNUMAResourceCounters(NormalizeContainerDevices(resp))]

\* What Scan makes of an answer: the allocated resources.
AllocatedOf == [podRes \in PodLists |->
    PerNUMAResourceCounters(GetAllContainerDevices(ListPodResources(podRes, ExcludeTerminalPods), Namespace))]

\* Node.Status.Allocatable: what all NUMA nodes together have of a resource.
Totals == [resp \in AllocatableResponses |->
    LET counters == AllocatableOf[resp]
    IN  [r \in {p[2] : p \in DOMAIN counters} |->
            MapThenSumSet(LAMBDA p : counters[p], {p \in DOMAIN counters : p[2] = r})]]

\* A perNUMAResourceCounter: a function on pairs of NUMA ID and resource.
IsCounters(c) == \A p \in DOMAIN c : c[p] \in Nat

ASSUME MonitorAssumption ==
    /\ \A resp \in AllocatableResponses : resp \in ContainerResources /\ FiniteMessage(resp)
    /\ \A podRes \in PodLists : ListMessage(podRes)
    /\ IsCounters(NativeCapacity)
    /\ ExcludeTerminalPods \in BOOLEAN
    /\ RefreshNodeResources \in BOOLEAN
    /\ MaxChanges \in Nat

VARIABLES
    named,           \* NODE_NAME, and so rm.nodeName, is the name of this Node
    kubelet,         \* what GetAllocatableResources would answer now
    nodeStatus,      \* the totals the Node object shows
    changes,         \* how often the kubelet has changed
    watching,        \* the informer's cache has synced
    pending,         \* Node changes the informer has not delivered yet
    refPc,           \* where updateNodeResources is; "new" in the constructor
    nodeCapacity,    \* rm.nodeCapacity
    nodeAllocatable, \* rm.nodeAllocatable
    scanPc,          \* where Scan is
    allocated,       \* Scan's allocated
    todo,            \* the NUMA nodes Scan has still to visit
    capCounters,     \* Scan's resCapCounters: the inner map it holds
    capShared,       \* ... which is still one of nodeCapacity
    zones,           \* the zones built so far
    crashed,         \* the process has ended
    clean,           \* history: nothing moved since the scan began
    missed           \* history: no event for a change, or its refresh failed

refreshVars == <<watching, pending, refPc, nodeCapacity, nodeAllocatable>>
scanVars == <<scanPc, allocated, todo, capCounters, capShared, zones>>
envVars == <<named, kubelet, nodeStatus, changes>>
vars == <<named, kubelet, nodeStatus, changes, watching, pending, refPc, nodeCapacity,
          nodeAllocatable, scanPc, allocated, todo, capCounters, capShared, zones,
          crashed, clean, missed>>

ZoneResource == [available : Int, allocatable : Int, capacity : Int]

TypeOK ==
    /\ named \in BOOLEAN
    /\ kubelet \in AllocatableResponses
    /\ changes \in 0 .. MaxChanges
    /\ watching \in BOOLEAN
    /\ pending \in Nat
    /\ refPc \in {"idle", "capacity", "allocatable", "devices"}
    /\ IsCounters(nodeCapacity)
    /\ IsCounters(nodeAllocatable)
    /\ scanPc \in {"new", "idle", "zone", "resources"}
    /\ IsCounters(allocated)
    /\ todo \subseteq NodeIDs
    /\ IsCounters(capCounters)
    /\ capShared \in BOOLEAN
    /\ \A p \in DOMAIN zones : zones[p] \in ZoneResource
    /\ crashed \in BOOLEAN
    /\ clean \in BOOLEAN
    /\ missed \in BOOLEAN

NoCounters == <<>>

\* NewResourceMonitor, about to call updateNodeResources.  os.Getenv gives an empty
\* rm.nodeName when NODE_NAME is not set; nothing else is tried.
Init ==
    /\ named \in BOOLEAN
    /\ kubelet \in AllocatableResponses
    /\ nodeStatus = Totals[kubelet]
    /\ changes = 0
    /\ watching = FALSE
    /\ pending = 0
    /\ refPc = "capacity"
    /\ nodeCapacity = NoCounters
    /\ nodeAllocatable = NoCounters
    /\ scanPc = "new"
    /\ allocated = NoCounters
    /\ todo = {}
    /\ capCounters = NoCounters
    /\ capShared = FALSE
    /\ zones = <<>>
    /\ crashed = FALSE
    /\ clean = FALSE
    /\ missed = FALSE

----------------------------------------------------------------------------
(* The kubelet and the API server.                                           *)

KubeletChanges(resp) ==
    /\ changes < MaxChanges
    /\ resp # kubelet
    /\ kubelet' = resp
    /\ changes' = changes + 1
    /\ clean' = FALSE
    /\ missed' = (missed \/ nodeStatus = Totals[resp])
    /\ UNCHANGED <<named, nodeStatus, refreshVars, scanVars, crashed>>

\* The Node's status follows; the informer queues the change if it is watching.
KubeletPublishes ==
    /\ nodeStatus # Totals[kubelet]
    /\ nodeStatus' = Totals[kubelet]
    /\ pending' = IF watching THEN pending + 1 ELSE pending
    /\ missed' = (missed \/ ~ watching)
    /\ UNCHANGED <<named, kubelet, changes, watching, refPc, nodeCapacity, nodeAllocatable,
                   scanVars, crashed, clean>>

----------------------------------------------------------------------------
(* updateNodeResources, in the constructor or in the informer's goroutine.   *)

Starting == scanPc = "new"

\* Mutant: the comparison is inverted and the change ignored.
ResUpdatedIgnored ==
    /\ ~ crashed
    /\ refPc = "idle"
    /\ pending > 0
    /\ pending' = pending - 1
    /\ UNCHANGED <<envVars, watching, refPc, nodeCapacity, nodeAllocatable, scanVars,
                   crashed, clean, missed>>

\* resUpdated: the status of this Node changed.  The event is dropped when the
\* Node's name is not rm.nodeName.
ResUpdated ==
    /\ ~ crashed
    /\ refPc = "idle"
    /\ pending > 0
    /\ pending' = pending - 1
    /\ \/ ~ named /\ UNCHANGED <<refPc, clean>>
       \/ named /\ refPc' = "capacity" /\ clean' = FALSE
    /\ UNCHANGED <<envVars, watching, nodeCapacity, nodeAllocatable, scanVars,
                   crashed, missed>>

\* updateNodeCapacity: a new map, with the native resources only.
UpdateNodeCapacity ==
    /\ ~ crashed
    /\ refPc = "capacity"
    /\ nodeCapacity' = NativeCapacity
    /\ capShared' = FALSE
    /\ refPc' = "allocatable"
    /\ UNCHANGED <<envVars, watching, pending, nodeAllocatable, scanPc, allocated,
                   todo, capCounters, zones, crashed, clean, missed>>

\* Mutant: the new counters are written into the old map.
UpdateNodeAllocatableInPlace ==
    /\ ~ crashed
    /\ refPc = "allocatable"
    /\ LET new == AllocatableOf[kubelet]
       IN  nodeAllocatable' = [p \in DOMAIN nodeAllocatable \cup DOMAIN new |->
                                  IF p \in DOMAIN new THEN new[p] ELSE nodeAllocatable[p]]
    /\ refPc' = "devices"
    /\ UNCHANGED <<envVars, watching, pending, nodeCapacity, scanVars, crashed,
                   clean, missed>>

\* updateNodeAllocatable: the map is replaced as a whole.
UpdateNodeAllocatable ==
    /\ ~ crashed
    /\ refPc = "allocatable"
    /\ nodeAllocatable' = AllocatableOf[kubelet]
    /\ refPc' = "devices"
    /\ UNCHANGED <<envVars, watching, pending, nodeCapacity, scanVars, crashed,
                   clean, missed>>

\* Reading sysfs or calling the kubelet fails: the constructor gives up and so
\* does the process, the informer's goroutine logs the error and drops the event.
RefreshFails ==
    /\ ~ crashed
    /\ refPc \in {"capacity", "allocatable"}
    /\ refPc' = "idle"
    /\ crashed' = Starting
    /\ missed' = TRUE
    /\ UNCHANGED <<envVars, watching, pending, nodeCapacity, nodeAllocatable,
                   scanVars, clean>>

\* The entries of nodeAllocatable that are not native.
DeviceEntries == {p \in DOMAIN nodeAllocatable : p[2] \notin NativeResources}

\* counters with the capacity of the devices set to their allocatable.
WithDevices(counters) ==
    [p \in DOMAIN counters \cup DeviceEntries |->
        IF p \in DeviceEntries THEN nodeAllocatable[p] ELSE counters[p]]

\* updateDevicesCapacity: writing into the inner map of a NUMA ID that has none
\* is a panic; otherwise the refresh is over, and so is the constructor, except
\* for starting the informer.
UpdateDevicesCapacity ==
    /\ ~ crashed
    /\ refPc = "devices"
    /\ IF \E p \in DeviceEntries : p[1] \notin NodeIDs
       THEN /\ crashed' = TRUE
            /\ UNCHANGED <<nodeCapacity, capCounters, refPc, scanPc>>
       ELSE /\ nodeCapacity' = WithDevices(nodeCapacity)
            /\ capCounters' = IF capShared THEN WithDevices(capCounters) ELSE capCounters
            /\ refPc' = "idle"
            /\ scanPc' = IF Starting /\ ~ RefreshNodeResources THEN "idle" ELSE scanPc
            /\ UNCHANGED crashed
    /\ UNCHANGED <<envVars, watching, pending, nodeAllocatable, allocated, todo,
                   capShared, zones, clean, missed>>

\* addNodeInformerEvent: the cache has synced, the constructor returns.
InformerSynced ==
    /\ ~ crashed
    /\ Starting
    /\ refPc = "idle"
    /\ RefreshNodeResources
    /\ watching' = TRUE
    /\ scanPc' = "idle"
    /\ UNCHANGED <<envVars, pending, refPc, nodeCapacity, nodeAllocatable, allocated,
                   todo, capCounters, capShared, zones, crashed, clean, missed>>

----------------------------------------------------------------------------
(* Scan.                                                                     *)

\* Mutant: the loop over the NUMA nodes runs once too often.
ScanListOffByOne(podRes) ==
    /\ ~ crashed
    /\ scanPc = "idle"
    /\ allocated' = AllocatedOf[podRes]
    /\ todo' = NodeIDs \cup {Cardinality(NodeIDs)}
    /\ zones' = <<>>
    /\ scanPc' = "zone"
    /\ clean' = (refPc = "idle" /\ nodeAllocatable = AllocatableOf[kubelet])
    /\ UNCHANGED <<envVars, refreshVars, capCounters, capShared, crashed, missed>>

\* The List call and the counting.
ScanList(podRes) ==
    /\ ~ crashed
    /\ scanPc = "idle"
    /\ allocated' = AllocatedOf[podRes]
    /\ todo' = NodeIDs
    /\ zones' = <<>>
    /\ scanPc' = "zone"
    /\ clean' = (refPc = "idle" /\ nodeAllocatable = AllocatableOf[kubelet])
    /\ UNCHANGED <<envVars, refreshVars, capCounters, capShared, crashed, missed>>

\* List fails: ScanResponse{} and the error.
ScanFails ==
    /\ ~ crashed
    /\ scanPc = "idle"
    /\ zones' = <<>>
    /\ todo' = {}
    /\ UNCHANGED <<envVars, refreshVars, scanPc, allocated, capCounters, capShared,
                   crashed, clean, missed>>

\* The next NUMA node, in the order of topo.Nodes.
NextNode == Min(todo)

\* resCapCounters, ok := rm.nodeCapacity[nodeID]
ScanZone ==
    /\ ~ crashed
    /\ scanPc = "zone"
    /\ todo # {}
    /\ capCounters' = nodeCapacity
    /\ capShared' = TRUE
    /\ scanPc' = "resources"
    /\ UNCHANGED <<envVars, refreshVars, allocated, todo, zones, crashed, clean, missed>>

\* Mutant: a capacity below the allocatable is kept.
ZoneEntryUntrusting(resAlloc, resCap, resUsed) ==
    LET avail == resAlloc - resUsed
    IN  [available |-> IF avail < 0 THEN 0 ELSE avail, allocatable |-> resAlloc,
         capacity |-> IF resCap = 0 THEN resAlloc ELSE resCap]

\* Mutant: what is available is counted from the capacity.
ZoneEntryFromCapacity(resAlloc, resCap, resUsed) ==
    LET capacity == IF resCap = 0 \/ resAlloc > resCap THEN resAlloc ELSE resCap
        avail == capacity - resUsed
    IN  [available |-> IF avail < 0 THEN 0 ELSE avail,
         allocatable |-> resAlloc, capacity |-> capacity]

\* What the loop over resCounters puts into the zone for one resource.
ZoneEntry(resAlloc, resCap, resUsed) ==
    LET capacity == IF resCap = 0 \/ resAlloc > resCap THEN resAlloc ELSE resCap
        avail == resAlloc - resUsed
    IN  [available |-> IF avail < 0 THEN 0 ELSE avail,
         allocatable |-> resAlloc, capacity |-> capacity]

\* The entries of the zone of one NUMA node.  A NUMA node without allocatable
\* resources still has a zone: its CPUs are all reserved.
ZoneOf(id, alloc, cap, used) ==
    LET own == {p \in DOMAIN alloc : p[1] = id}
        entries == IF own = {} THEN {<<id, "cpu">>} ELSE own
    IN  [p \in {q \in entries : q[2] \notin ResourceExclude} |->
            ZoneEntry(Lookup(alloc, p), Lookup(cap, p), Lookup(used, p))]

\* resCounters, ok := rm.nodeAllocatable[nodeID], and the loop.
ScanResources ==
    /\ ~ crashed
    /\ scanPc = "resources"
    /\ LET zone == ZoneOf(NextNode, nodeAllocatable, capCounters, allocated)
       IN  zones' = [p \in DOMAIN zones \cup DOMAIN zone |->
                        IF p \in DOMAIN zone THEN zone[p] ELSE zones[p]]
    /\ todo' = todo \ {NextNode}
    /\ scanPc' = "zone"
    /\ UNCHANGED <<envVars, refreshVars, allocated, capCounters, capShared, crashed,
                   clean, missed>>

ScanReturns ==
    /\ ~ crashed
    /\ scanPc = "zone"
    /\ todo = {}
    /\ scanPc' = "idle"
    /\ UNCHANGED <<envVars, refreshVars, allocated, todo, capCounters, capShared,
                   zones, crashed, clean, missed>>

\* "concurrent map read and map write": the loop reads an inner map of
\* nodeCapacity while updateDevicesCapacity writes it.
MapRace ==
    /\ ~ crashed
    /\ scanPc = "resources"
    /\ capShared
    /\ refPc = "devices"
    /\ DeviceEntries # {}
    /\ crashed' = TRUE
    /\ UNCHANGED <<envVars, refreshVars, scanVars, clean, missed>>

----------------------------------------------------------------------------

Next ==
    \/ \E resp \in AllocatableResponses : KubeletChanges(resp)
    \/ KubeletPublishes
    \/ ResUpdated \/ UpdateNodeCapacity \/ UpdateNodeAllocatable
    \/ RefreshFails \/ UpdateDevicesCapacity \/ InformerSynced
    \/ \E podRes \in PodLists : ScanList(podRes)
    \/ ScanFails \/ ScanZone \/ ScanResources \/ ScanReturns
    \/ MapRace

(***************************************************************************)
(* The kubelet publishes its status, and the informer's goroutine and the  *)
(* constructor run.  Nothing is assumed of calls: they may always fail.    *)
(***************************************************************************)
Fairness ==
    /\ WF_vars(KubeletPublishes)
    /\ WF_vars(ResUpdated)
    /\ WF_vars(UpdateNodeCapacity \/ UpdateNodeAllocatable \/ RefreshFails
               \/ UpdateDevicesCapacity)
    /\ WF_vars(InformerSynced)

Spec == Init /\ [][Next]_vars /\ Fairness

----------------------------------------------------------------------------
(* Properties.                                                               *)

(***************************************************************************)
(* Whatever a scan reads while a refresh replaces the maps under it, every *)
(* resource it reports has 0 <= Available <= Allocatable <= Capacity.      *)
(***************************************************************************)
ZonesBounded ==
    \A p \in DOMAIN zones :
        /\ 0 <= zones[p].available
        /\ zones[p].available <= zones[p].allocatable
        /\ zones[p].allocatable <= zones[p].capacity

\* The zone of a NUMA node is what one answer of the kubelet makes of it.
ZoneIsOf(id, alloc) ==
    /\ \A p \in DOMAIN zones : p[1] = id => zones[p].allocatable = Lookup(alloc, p)
    /\ \A p \in DOMAIN alloc : p[1] = id /\ p[2] \notin ResourceExclude => p \in DOMAIN zones

(***************************************************************************)
(* A torn scan is torn between zones only.  Although a refresh may replace *)
(* the maps at any moment of a scan, the allocatable resources of one NUMA *)
(* node always come from one answer of the kubelet: none is missing, and   *)
(* none is left over from an earlier answer.                               *)
(***************************************************************************)
ZonesOfOneAnswer ==
    scanPc \in {"zone", "resources"} =>
        \A id \in NodeIDs \ todo : \E resp \in AllocatableResponses : ZoneIsOf(id, AllocatableOf[resp])

(***************************************************************************)
(* A scan that no refresh and no change of the kubelet overlaps reports    *)
(* for every NUMA node exactly what the kubelet has there: its allocatable *)
(* resources, minus what the pods use, and the devices with a capacity     *)
(* equal to their allocatable.                                             *)
(***************************************************************************)
CleanScanIsExact ==
    (scanPc = "zone" /\ todo = {} /\ clean) =>
        LET alloc == AllocatableOf[kubelet]
            reported == {p \in DOMAIN alloc : p[1] \in NodeIDs /\ p[2] \notin ResourceExclude}
        IN  /\ \A p \in reported :
                  /\ p \in DOMAIN zones
                  /\ zones[p].allocatable = alloc[p]
                  /\ zones[p].available
                        = Max({0, alloc[p] - Lookup(allocated, p)})
                  /\ p[2] \notin NativeResources => zones[p].capacity = alloc[p]
            /\ \A p \in DOMAIN zones \ reported : zones[p].allocatable = 0

\* nodeAllocatable is not what the kubelet would answer.
Stale ==
    /\ RefreshNodeResources /\ ~ crashed /\ ~ Starting
    /\ nodeAllocatable # AllocatableOf[kubelet]

(***************************************************************************)
(* With RefreshNodeResources the monitor catches up with every change of   *)
(* the kubelet, unless the change was published before the informer        *)
(* synced, does not show in the totals of the Node's status, a call failed *)
(* in its refresh, or NODE_NAME is not the name of the Node: then every    *)
(* event is dropped and nothing is tracked.                                *)
(***************************************************************************)
TracksUnlessMissed == Stale ~> (~ Stale \/ missed \/ ~ named)

(***************************************************************************)
(* "If enable, track changes in node's resources" (the flag                *)
(* -refresh-node-resources, pkg/config/flags.go): where NODE_NAME is set   *)
(* as the manifests set it, the monitor catches up with every change of    *)
(* the kubelet.                                                            *)
(***************************************************************************)
TracksChanges == (Stale /\ named) ~> ~ Stale

(***************************************************************************)
(* "setting node.ID == -1 is also a legal representation for don't care    *)
(* about locality" (pkg/podres/filter/numalocality): while no call fails   *)
(* and no scan runs, digesting an answer of the kubelet never ends the     *)
(* process.                                                                *)
(***************************************************************************)
LegalAnswersDigested == (refPc = "devices" /\ scanPc # "resources") => ~ crashed

============================================================================
