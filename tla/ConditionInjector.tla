------------------------- MODULE ConditionInjector -------------------------
(***************************************************************************)
(* pkg/podreadiness: the goroutine that writes the exporter's conditions   *)
(* into the status of its own pod, and the cache that lets it skip what it *)
(* wrote last.  A condition is its type and its status: SetCondition       *)
(* derives reason and message from the two.  The pod's conditions live on  *)
(* the API server, survive a restart of the exporter, and are also written *)
(* by the kubelet, each writer its own types.                              *)
(***************************************************************************)
CONSTANTS
    ConditionTypes,  \* PodresourcesFetched and NodeTopologyUpdated
    KubeletTypes     \* the types of the conditions the kubelet writes

Status == {"True", "False"}
NoStatus == "none"                    \* no such condition, no such cache entry

ASSUME InjectorAssumption == ConditionTypes \cap KubeletTypes = {}

AllTypes == ConditionTypes \cup KubeletTypes
Conditions == [AllTypes -> Status \cup {NoStatus}]

VARIABLES
    podConditions,  \* pod.Status.Conditions on the API server
    lastUpdate,     \* ci.lastUpdate
    ciPc,           \* where Run() is
    cond,           \* the condition Inject was called with
    pod,            \* the conditions of the pod that Get returned
    podMoved,       \* the pod was written since: its resourceVersion is stale
    latest,         \* history: the status sent last for every type
    inDoubt         \* history: the types whose last write took effect unacknowledged

injectorVars == <<podConditions, lastUpdate, ciPc, cond, pod, podMoved, latest, inDoubt>>

Condition == [type : ConditionTypes, status : Status]

InjectorTypeOK ==
    /\ podConditions \in Conditions
    /\ lastUpdate \in [ConditionTypes -> Status \cup {NoStatus}]
    /\ ciPc \in {"select", "get", "update"}
    /\ cond \in Condition
    /\ pod \in Conditions
    /\ podMoved \in BOOLEAN
    /\ latest \in [ConditionTypes -> Status \cup {NoStatus}]
    /\ inDoubt \subseteq ConditionTypes

\* NewConditionInjector in a pod that has none of the conditions yet.
InjectorInit ==
    /\ podConditions = [t \in AllTypes |-> NoStatus]
    /\ lastUpdate = [t \in ConditionTypes |-> NoStatus]
    /\ ciPc = "select"
    /\ cond \in Condition
    /\ pod = podConditions
    /\ podMoved = FALSE
    /\ latest = [t \in ConditionTypes |-> NoStatus]
    /\ inDoubt = {}

----------------------------------------------------------------------------

\* Mutant: the status is not compared.
CachedType(c) == lastUpdate[c.type] # NoStatus

\* equalPodCondition(lastUpdate[c.Type], c)
Cached(c) == lastUpdate[c.type] = c.status

\* SetCondition sends c and Run() receives it; "avoid APIServer round trips if
\* nothing changed".
Receive(c) ==
    /\ ciPc = "select"
    /\ cond' = c
    /\ latest' = [latest EXCEPT ![c.type] = c.status]
    /\ ciPc' = IF Cached(c) THEN "select" ELSE "get"
    /\ UNCHANGED <<podConditions, lastUpdate, pod, podMoved, inDoubt>>

\* Mutant: only the exporter's own conditions are kept of the pod's.
GetPodOwn ==
    /\ ciPc = "get"
    /\ pod' = [t \in ConditionTypes |-> podConditions[t]]
    /\ podMoved' = FALSE
    /\ ciPc' = "update"
    /\ UNCHANGED <<podConditions, lastUpdate, cond, latest, inDoubt>>

\* Pods().Get
GetPod ==
    /\ ciPc = "get"
    /\ pod' = podConditions
    /\ podMoved' = FALSE
    /\ ciPc' = "update"
    /\ UNCHANGED <<podConditions, lastUpdate, cond, latest, inDoubt>>

\* Mutant: the cache is filled before the outcome is known.
InjectFailsCached ==
    /\ ciPc \in {"get", "update"}
    /\ ciPc' = "select"
    /\ lastUpdate' = [lastUpdate EXCEPT ![cond.type] = cond.status]
    /\ UNCHANGED <<podConditions, cond, pod, podMoved, latest, inDoubt>>

\* Get or UpdateStatus fails: Run() logs the error and goes on.
InjectFails ==
    /\ ciPc \in {"get", "update"}
    /\ ciPc' = "select"
    /\ UNCHANGED <<podConditions, lastUpdate, cond, pod, podMoved, latest, inDoubt>>

\* The condition replaces the one of its type, or is appended.
WithCondition(conds, c) == [conds EXCEPT ![c.type] = c.status]

\* Mutant: the write ignores the resourceVersion.
UpdateStatusBlind ==
    /\ ciPc = "update"
    /\ podConditions' = WithCondition(pod, cond)
    /\ lastUpdate' = [lastUpdate EXCEPT ![cond.type] = cond.status]
    /\ ciPc' = "select"
    /\ inDoubt' = inDoubt \ {cond.type}
    /\ UNCHANGED <<cond, pod, podMoved, latest>>

\* UpdateStatus, refused by the server when the pod has moved since the Get.
UpdateStatus ==
    /\ ciPc = "update"
    /\ ~ podMoved
    /\ podConditions' = WithCondition(pod, cond)
    /\ lastUpdate' = [lastUpdate EXCEPT ![cond.type] = cond.status]
    /\ ciPc' = "select"
    /\ inDoubt' = inDoubt \ {cond.type}
    /\ UNCHANGED <<cond, pod, podMoved, latest>>

\* UpdateStatus takes effect and its answer is lost.
UpdateStatusLost ==
    /\ ciPc = "update"
    /\ ~ podMoved
    /\ podConditions' = WithCondition(pod, cond)
    /\ ciPc' = "select"
    /\ inDoubt' = inDoubt \cup {cond.type}
    /\ UNCHANGED <<lastUpdate, cond, pod, podMoved, latest>>

----------------------------------------------------------------------------

\* The kubelet writes a condition of its own.
KubeletWrites(t, s) ==
    /\ podConditions[t] # s
    /\ podConditions' = [podConditions EXCEPT ![t] = s]
    /\ podMoved' = TRUE
    /\ UNCHANGED <<lastUpdate, ciPc, cond, pod, latest, inDoubt>>

\* The container restarts in the same pod: the cache is empty again.
RestartInjector ==
    /\ lastUpdate' = [t \in ConditionTypes |-> NoStatus]
    /\ latest' = [t \in ConditionTypes |-> NoStatus]
    /\ inDoubt' = {}
    /\ ciPc' = "select"
    /\ UNCHANGED <<podConditions, cond, pod, podMoved>>

InjectorNext ==
    \/ \E c \in Condition : Receive(c)
    \/ GetPod
    \/ InjectFails
    \/ UpdateStatus
    \/ UpdateStatusLost
    \/ \E t \in KubeletTypes, s \in Status : KubeletWrites(t, s)
    \/ RestartInjector

(***************************************************************************)
(* Every type is reported again and again, because every scan reports it;  *)
(* a call that is made again and again succeeds at some time, because the  *)
(* API server is not unavailable forever.                                  *)
(***************************************************************************)
InjectorFairness ==
    /\ \A t \in ConditionTypes :
          SF_injectorVars(\E s \in Status : Receive([type |-> t, status |-> s]))
    /\ WF_injectorVars(GetPod \/ UpdateStatus \/ InjectFails)
    /\ \A t \in ConditionTypes :
          /\ SF_injectorVars(cond.type = t /\ GetPod)
          /\ SF_injectorVars(cond.type = t /\ UpdateStatus)

InjectorSpec == InjectorInit /\ [][InjectorNext]_injectorVars /\ InjectorFairness

----------------------------------------------------------------------------
(* Properties.                                                               *)

(***************************************************************************)
(* The cache tells the truth: what lastUpdate holds for a type is what the *)
(* pod's status holds, unless the last write of that type took effect      *)
(* without being acknowledged.                                             *)
(***************************************************************************)
CacheIsServer ==
    \A t \in ConditionTypes \ inDoubt :
        lastUpdate[t] # NoStatus => podConditions[t] = lastUpdate[t]

(***************************************************************************)
(* The comment in Inject, "avoid APIServer round trips if nothing          *)
(* changed": a condition is skipped only if the pod already shows it.      *)
(***************************************************************************)
SkipsOnlyTheUnchanged ==
    [][\A c \in Condition :
          Receive(c) /\ Cached(c) => podConditions[c.type] = c.status]_injectorVars

(***************************************************************************)
(* Injecting a condition never undoes what the kubelet wrote between the   *)
(* injector's Get and its UpdateStatus.                                    *)
(***************************************************************************)
KubeletConditionsKept ==
    [][ciPc' # ciPc => \A t \in KubeletTypes : podConditions'[t] = podConditions[t]]_injectorVars

(***************************************************************************)
(* If from some time on the exporter only reports status s for a type, and *)
(* no unacknowledged write of that type stays in doubt, the pod's status   *)
(* ends up showing s for good, although Run() never retries a failed       *)
(* Inject: a failure leaves the cache alone, so the next report of the     *)
(* same status is not skipped.                                             *)
(***************************************************************************)
StatusConverges ==
    \A t \in ConditionTypes : \A s \in Status :
        <>[](latest[t] = s /\ t \notin inDoubt) => <>[](podConditions[t] = s)

============================================================================
