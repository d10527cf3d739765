------------------------- MODULE MCResourceMonitor -------------------------
(***************************************************************************)
(* Instances of ResourceMonitor: two NUMA nodes with two CPUs each and one *)
(* kind of device.  The kubelet may lose CPUs, memory and devices, one or  *)
(* all of them, and may keep nothing allocatable on NUMA node 0.           *)
(***************************************************************************)
EXTENDS ResourceMonitor, TLC

MCNodeIDs == {0, 1}
MCCoreIDToNodeIDMap == (0 :> 0) @@ (1 :> 0) @@ (2 :> 1) @@ (3 :> 1)
MCNativeCapacity ==
    [p \in MCNodeIDs \X {"cpu", "memory"} |->
        IF p[2] = "cpu" THEN 2 ELSE IF p[1] = 0 THEN 4 ELSE 0]

Resp(cpus, gpus, mem) ==
    [name |-> "", cpus |-> cpus,
     devices |-> IF gpus = 0 THEN <<>>
                 ELSE <<[resource |-> "gpu", count |-> gpus, nodes |-> {0}]>>,
     memory |-> IF mem = 0 THEN <<>>
                ELSE <<[resource |-> "memory", size |-> mem, nodes |-> {0, 1}]>>]

MCAllocatableResponses ==
    {Resp({0, 1, 2, 3}, 2, 3), Resp({1, 2, 3}, 1, 3), Resp({1, 2}, 0, 2), Resp({2, 3}, 0, 0)}

\* A device without locality, as the kubelet may report it.
MCUnlocalResponses ==
    {[name |-> "", cpus |-> {0, 2}, memory |-> <<>>,
      devices |-> <<[resource |-> "gpu", count |-> 1, nodes |-> {-1}]>>]}

Cnt(n, cpus, gpus, mem) == [Resp(cpus, gpus, mem) EXCEPT !.name = n]
Pod(ns, n, cnts) == [namespace |-> ns, name |-> n, containers |-> cnts]

MCPodLists ==
    {<<>>,
     <<Pod("rte", "rte", <<Cnt("shared", {3}, 0, 0)>>),
       Pod("ns1", "p1", <<Cnt("c", {0, 3}, 1, 0), Cnt("d", {2, 9}, 1, 2)>>),
       Pod("ns2", "p2", <<Cnt("c", {1}, 0, 2)>>)>>}

MCPodPhase == [namespace |-> "ns2", name |-> "p2"] :> "Running"
MCReferenceContainer == [namespace |-> "rte", pod |-> "rte", container |-> "shared"]
MCPodExcludes == {[namespace |-> {"rte", "ns1"}, name |-> {"rte"}]}

============================================================================
