---------------------------- MODULE MCScanInput ----------------------------
(***************************************************************************)
(* Instances of ScanInput: the reference pod, which is excluded, and up to *)
(* two other pods with all kinds of resources: CPUs of the shared pool, of *)
(* both NUMA nodes and of none, devices on one, two or no NUMA node, and   *)
(* memory blocks, one of them empty.                                       *)
(***************************************************************************)
EXTENDS ScanInput, TLC

MCNodeIDs == {0, 1}
MCCoreIDToNodeIDMap == (0 :> 0) @@ (1 :> 0) @@ (2 :> 1) @@ (3 :> 1)

Cnt(name, cpus, devs, mem) == [name |-> name, cpus |-> cpus, devices |-> devs, memory |-> mem]
Gpu(n, ids) == [resource |-> "gpu", count |-> n, nodes |-> ids]
Mem(n, ids) == [resource |-> "memory", size |-> n, nodes |-> ids]

Usages ==
    {<<{}, <<>>, <<>>>>, <<{0, 1}, <<>>, <<>>>>, <<{1}, <<>>, <<>>>>, <<{0, 2, 9}, <<>>, <<>>>>,
     <<{}, <<Gpu(2, {0}), Gpu(1, {0, 1})>>, <<>>>>, <<{}, <<Gpu(1, {-1})>>, <<>>>>,
     <<{}, <<Gpu(0, {1})>>, <<Mem(0, {0})>>>>, <<{3}, <<Gpu(1, {1})>>, <<Mem(2, {0, 1}), Mem(1, {1})>>>>}
Of(name, u) == Cnt(name, u[1], u[2], u[3])
Pod(ns, name, cnts) == [namespace |-> ns, name |-> name, containers |-> cnts]

MCAnswers ==
    LET rte == {Pod("rte", "rte", <<Cnt("rte", {0}, <<>>, <<>>), Cnt("shared", {1}, <<>>, <<>>)>>)}
        one == {Pod("ns1", "p1", <<Of("c", u)>>) : u \in Usages}
        two == {Pod("ns2", "p2", <<Of("c", u), Of("shared", v)>>) : u, v \in Usages}
    IN  {<<>>} \cup {<<r, p>> : r \in rte, p \in two} \cup {<<p, q>> : p \in one, q \in two}
           \cup {<<p, r, q>> : p \in one, r \in rte, q \in one \cup two}

MCPodPhase == ([namespace |-> "ns1", name |-> "p1"] :> "Succeeded")
              @@ ([namespace |-> "ns2", name |-> "p2"] :> "Running")
MCReferenceContainer == [namespace |-> "rte", pod |-> "rte", container |-> "shared"]
\* The reference pod, and a malformed name pattern.
MCPodExcludes == {[namespace |-> {"rte"}, name |-> {"rte", "p1"}], [namespace |-> {"ns2"}, name |-> {}]}

============================================================================
