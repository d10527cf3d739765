---------------------- MODULE ConditionInjectorProofs ----------------------
(***************************************************************************)
(* Proofs about ConditionInjector.  CacheIsServer is not inductive: an     *)
(* UpdateStatus writes back every condition that Get returned, so it must  *)
(* be known that these are still the server's when the write is accepted   *)
(* (FetchedIsCurrent).                                                     *)
(***************************************************************************)
EXTENDS ConditionInjector, TLAPS

\* An UpdateStatus the server accepts starts from what the server holds.
FetchedIsCurrent == (ciPc = "update" /\ ~ podMoved) => pod = podConditions

\* The inductive core the other invariants rest on.
CoreInv == InjectorTypeOK /\ FetchedIsCurrent

----------------------------------------------------------------------------

\* The freshly started injector satisfies all invariants.
LEMMA InjectorStarts == InjectorInit => CoreInv /\ CacheIsServer
  <1> SUFFICES ASSUME InjectorInit PROVE CoreInv /\ CacheIsServer
    OBVIOUS
  <1>1. InjectorTypeOK
    BY DEF InjectorInit, InjectorTypeOK, Conditions, AllTypes
  <1>2. FetchedIsCurrent
    BY DEF InjectorInit, FetchedIsCurrent
  <1>3. CacheIsServer
    BY DEF InjectorInit, CacheIsServer
  <1> QED
    BY <1>1, <1>2, <1>3 DEF CoreInv

\* Replacing one condition leaves a set of conditions.
LEMMA WithConditionType ==
  ASSUME NEW conds \in Conditions, NEW c \in Condition
  PROVE  WithCondition(conds, c) \in Conditions
  BY DEF WithCondition, Conditions, Condition, AllTypes

\* Every step keeps the types and FetchedIsCurrent.
LEMMA CoreStep == CoreInv /\ [InjectorNext]_injectorVars => CoreInv'
  <1> SUFFICES ASSUME CoreInv, [InjectorNext]_injectorVars PROVE CoreInv'
    OBVIOUS
  <1> USE DEF CoreInv, InjectorTypeOK, FetchedIsCurrent
  <1>1. ASSUME NEW c \in Condition, Receive(c) PROVE CoreInv'
    BY <1>1 DEF Receive, Condition
  <1>2. CASE GetPod
    BY <1>2 DEF GetPod
  <1>3. CASE InjectFails
    BY <1>3 DEF InjectFails
  <1>4. CASE UpdateStatus
    <2>1. podConditions' \in Conditions
      BY <1>4, WithConditionType DEF UpdateStatus
    <2>2. lastUpdate' \in [ConditionTypes -> Status \cup {NoStatus}]
      BY <1>4 DEF UpdateStatus, Condition
    <2>3. inDoubt' \subseteq ConditionTypes
      BY <1>4 DEF UpdateStatus
    <2> QED
      BY <1>4, <2>1, <2>2, <2>3 DEF UpdateStatus
  <1>5. CASE UpdateStatusLost
    <2>1. podConditions' \in Conditions
      BY <1>5, WithConditionType DEF UpdateStatusLost
    <2>2. inDoubt' \subseteq ConditionTypes
      BY <1>5 DEF UpdateStatusLost, Condition
    <2> QED
      BY <1>5, <2>1, <2>2 DEF UpdateStatusLost
  <1>6. ASSUME NEW t \in KubeletTypes, NEW s \in Status, KubeletWrites(t, s)
        PROVE  CoreInv'
    BY <1>6 DEF KubeletWrites, Conditions, AllTypes
  <1>7. CASE RestartInjector
    BY <1>7 DEF RestartInjector
  <1>8. CASE UNCHANGED injectorVars
    BY <1>8 DEF injectorVars
  <1> QED
    BY <1>1, <1>2, <1>3, <1>4, <1>5, <1>6, <1>7, <1>8 DEF InjectorNext

\* InjectorTypeOK: the injector's variables keep their types.
THEOREM InjectorTypeCorrect == InjectorSpec => []InjectorTypeOK
  <1>1. CoreInv => InjectorTypeOK
    BY DEF CoreInv
  <1> QED
    BY InjectorStarts, CoreStep, <1>1, PTL DEF InjectorSpec

----------------------------------------------------------------------------

\* Every step keeps the cache truthful; a lost answer puts its type in doubt.
LEMMA CacheStep ==
  CoreInv /\ CacheIsServer /\ [InjectorNext]_injectorVars => CacheIsServer'
  <1> SUFFICES ASSUME CoreInv, CacheIsServer, [InjectorNext]_injectorVars
               PROVE  CacheIsServer'
    OBVIOUS
  <1> USE DEF CacheIsServer
  <1>1. ASSUME NEW c \in Condition, Receive(c) PROVE CacheIsServer'
    BY <1>1 DEF Receive
  <1>2. CASE GetPod
    BY <1>2 DEF GetPod
  <1>3. CASE InjectFails
    BY <1>3 DEF InjectFails
  <1>4. CASE UpdateStatus
    <2>1. pod = podConditions
      BY <1>4 DEF UpdateStatus, CoreInv, FetchedIsCurrent
    <2>2. podConditions' = [podConditions EXCEPT ![cond.type] = cond.status]
      BY <1>4, <2>1 DEF UpdateStatus, WithCondition
    <2>3. podConditions \in Conditions /\ cond \in Condition
          /\ lastUpdate \in [ConditionTypes -> Status \cup {NoStatus}]
      BY DEF CoreInv, InjectorTypeOK
    <2> QED
      BY <1>4, <2>2, <2>3 DEF UpdateStatus, Conditions, AllTypes, Condition
  <1>5. CASE UpdateStatusLost
    <2>1. pod = podConditions
      BY <1>5 DEF UpdateStatusLost, CoreInv, FetchedIsCurrent
    <2>2. podConditions' = [podConditions EXCEPT ![cond.type] = cond.status]
      BY <1>5, <2>1 DEF UpdateStatusLost, WithCondition
    <2>3. podConditions \in Conditions /\ cond \in Condition
      BY DEF CoreInv, InjectorTypeOK
    <2> QED
      BY <1>5, <2>2, <2>3 DEF UpdateStatusLost, Conditions, AllTypes, Condition
  <1>6. ASSUME NEW t \in KubeletTypes, NEW s \in Status, KubeletWrites(t, s)
        PROVE  CacheIsServer'
    <2>1. podConditions \in Conditions
      BY DEF CoreInv, InjectorTypeOK
    <2>2. \A u \in ConditionTypes : u # t
      BY InjectorAssumption DEF InjectorAssumption
    <2> QED
      BY <1>6, <2>1, <2>2 DEF KubeletWrites, Conditions, AllTypes
  <1>7. CASE RestartInjector
    BY <1>7 DEF RestartInjector
  <1>8. CASE UNCHANGED injectorVars
    BY <1>8 DEF injectorVars
  <1> QED
    BY <1>1, <1>2, <1>3, <1>4, <1>5, <1>6, <1>7, <1>8 DEF InjectorNext

\* CacheIsServer: for a type whose last write is not in doubt the cache never
\* disagrees with the pod's status, whatever the kubelet writes and whenever the
\* exporter restarts.
THEOREM CacheIsTruthful == InjectorSpec => []CacheIsServer
  BY InjectorStarts, CoreStep, CacheStep, PTL DEF InjectorSpec

\* KubeletConditionsKept: no step of the injector changes a condition of the
\* kubelet, whether its answer arrives or not.
THEOREM KubeletKeepsItsConditions == InjectorSpec => KubeletConditionsKept
  <1> DEFINE Kept == ciPc' # ciPc =>
                       \A t \in KubeletTypes : podConditions'[t] = podConditions[t]
  <1>1. CoreInv /\ [InjectorNext]_injectorVars => [Kept]_injectorVars
    <2> SUFFICES ASSUME CoreInv, InjectorNext, ciPc' # ciPc, NEW t \in KubeletTypes
                 PROVE  podConditions'[t] = podConditions[t]
      BY DEF injectorVars
    <2>1. ASSUME NEW c \in Condition, Receive(c)
          PROVE  podConditions'[t] = podConditions[t]
      BY <2>1 DEF Receive
    <2>2. CASE GetPod \/ InjectFails \/ RestartInjector
      BY <2>2 DEF GetPod, InjectFails, RestartInjector
    <2>3. CASE UpdateStatus \/ UpdateStatusLost
      <3>1. pod = podConditions
        BY <2>3 DEF UpdateStatus, UpdateStatusLost, CoreInv, FetchedIsCurrent
      <3>2. podConditions' = [podConditions EXCEPT ![cond.type] = cond.status]
        BY <2>3, <3>1 DEF UpdateStatus, UpdateStatusLost, WithCondition
      <3>3. podConditions \in Conditions /\ cond \in Condition
        BY DEF CoreInv, InjectorTypeOK
      <3>4. cond.type # t
        BY <3>3, InjectorAssumption DEF InjectorAssumption, Condition
      <3> QED
        BY <3>2, <3>3, <3>4 DEF Conditions, AllTypes
    <2>4. ASSUME NEW u \in KubeletTypes, NEW s \in Status, KubeletWrites(u, s)
          PROVE  podConditions'[t] = podConditions[t]
      BY <2>4 DEF KubeletWrites
    <2> QED
      BY <2>1, <2>2, <2>3, <2>4 DEF InjectorNext
  <1> QED
    BY InjectorStarts, CoreStep, <1>1, PTL DEF InjectorSpec, KubeletConditionsKept

============================================================================
