-------------------------- MODULE NRTUpdaterProofs --------------------------
(***************************************************************************)
(* Proofs about NRTUpdater, for every set of paths, values and scans, both *)
(* modes and every PatchResync.                                            *)
(***************************************************************************)
EXTENDS NRTUpdater, TLAPS

(***************************************************************************)
(* The paths updateNRTInfo and updateOwnerReferences write for a scan, and *)
(* what they write there.                                                  *)
(***************************************************************************)
Written(mi) ==
    {"zones", "attributes", "rte-update"}
        \cup {p \in AnnotationKeys : mi.annotations[p] # Absent}
        \cup (IF NodeReference = Absent THEN {} ELSE {"owners"})

Wanted(mi, p) ==
    CASE p = "zones" -> mi.zones
      [] p = "attributes" -> TMAppend[mi.attributes]
      [] p = "rte-update" -> UpdateReason(mi)
      [] p = "owners" -> NodeReference
      [] OTHER -> mi.annotations[p]

(***************************************************************************)
(* The updater changes an object only at its own paths, and what it writes *)
(* does not depend on the object.                                          *)
(***************************************************************************)
LEMMA MutatedAt ==
    ASSUME NEW obj \in NRT, NEW mi \in Infos
    PROVE  /\ Mutated(obj, mi) \in NRT
           /\ Written(mi) \subseteq OwnPaths
           /\ \A p \in Paths : Mutated(obj, mi)[p] =
                 IF p \in Written(mi) THEN Wanted(mi, p) ELSE obj[p]
<1> USE UpdaterAssumption DEF UpdaterAssumption
<1>1. /\ mi \in MonitorInfo
      /\ Written(mi) \subseteq OwnPaths
      /\ OwnPaths \subseteq Paths
  BY DEF Written, OwnPaths, Paths
<1>2. \A p \in Written(mi) : Wanted(mi, p) \in Held
  BY <1>1 DEF Wanted, Written, Held, MonitorInfo, UpdateReason
<1>3. /\ updateNRTInfo(obj, mi) \in [Paths -> Held]
      /\ \A p \in Paths : updateNRTInfo(obj, mi)[p] =
            IF p \in Written(mi) \ {"owners"} THEN Wanted(mi, p) ELSE obj[p]
  <2>1. \A p \in Paths : updateNRTInfo(obj, mi)[p] =
            IF p \in Written(mi) \ {"owners"} THEN Wanted(mi, p) ELSE obj[p]
    BY <1>1 DEF updateNRTInfo, Written, Wanted, OwnPaths
  <2>2. DOMAIN updateNRTInfo(obj, mi) = Paths
    BY DEF updateNRTInfo
  <2>3. updateNRTInfo(obj, mi) = [p \in Paths |-> updateNRTInfo(obj, mi)[p]]
    BY DEF updateNRTInfo
  <2> QED
    BY <1>1, <1>2, <2>1, <2>2, <2>3 DEF NRT
<1>4. CASE NodeReference = Absent
  BY <1>1, <1>3, <1>4 DEF Mutated, updateOwnerReferences, Written, OwnPaths, NRT
<1>5. CASE NodeReference # Absent
  <2>1. "owners" \in Paths /\ NodeReference \in Held
    BY DEF Paths, OwnPaths, Held
  <2>2. Mutated(obj, mi) = [updateNRTInfo(obj, mi) EXCEPT !["owners"] = NodeReference]
    BY <1>5 DEF Mutated, updateOwnerReferences
  <2>3. "owners" \in Written(mi) /\ Wanted(mi, "owners") = NodeReference
    BY <1>5 DEF Written, Wanted
  <2>4. Mutated(obj, mi) \in [Paths -> Held]
    BY <1>3, <2>1, <2>2
  <2>5. ASSUME NEW p \in Paths
        PROVE  Mutated(obj, mi)[p] = IF p \in Written(mi) THEN Wanted(mi, p) ELSE obj[p]
    <3>1. CASE p = "owners"
      BY <1>3, <2>1, <2>2, <2>3, <3>1
    <3>2. CASE p # "owners"
      BY <1>3, <2>2, <3>2
    <3> QED
      BY <3>1, <3>2
  <2> QED
    BY <1>1, <2>4, <2>5 DEF NRT
<1> QED
  BY <1>4, <1>5

(***************************************************************************)
(* What a mutated object carries: writing the same scan again is a no-op.  *)
(***************************************************************************)
LEMMA WrittenCarries ==
    ASSUME NEW obj \in NRT, NEW mi \in Infos,
           \A p \in Written(mi) : obj[p] = Wanted(mi, p)
    PROVE  Carries(obj, mi)
<1>1. Mutated(obj, mi) \in [Paths -> Held] /\ obj \in [Paths -> Held]
  BY MutatedAt DEF NRT
<1>2. \A p \in Paths : Mutated(obj, mi)[p] = obj[p]
  BY MutatedAt
<1> QED
  BY <1>1, <1>2 DEF Carries

\* A mutated object carries the MonitorInfo.
LEMMA MutatedCarries ==
    ASSUME NEW obj \in NRT, NEW mi \in Infos
    PROVE  Carries(Mutated(obj, mi), mi)
<1>1. \A p \in Written(mi) : Mutated(obj, mi)[p] = Wanted(mi, p)
  BY MutatedAt DEF Paths
<1> QED
  BY <1>1, MutatedAt, WrittenCarries

(***************************************************************************)
(* A patch computed from base and applied to obj writes the paths the scan *)
(* writes and base does not hold already, and leaves the others alone.     *)
(***************************************************************************)
LEMMA PatchAt ==
    ASSUME NEW base \in NRT, NEW obj \in NRT, NEW mi \in Infos
    PROVE  LET new == ApplyPatch(obj, MakeNRTPatch(base, Mutated(base, mi)))
           IN  /\ new \in NRT
               /\ \A p \in Paths : new[p] =
                     IF p \in Written(mi) /\ base[p] # Wanted(mi, p)
                     THEN Wanted(mi, p) ELSE obj[p]
<1> DEFINE patch == MakeNRTPatch(base, Mutated(base, mi))
           new == ApplyPatch(obj, patch)
<1>1. /\ DOMAIN patch = {q \in Paths : base[q] # Mutated(base, mi)[q]}
      /\ \A p \in DOMAIN patch : patch[p] = Mutated(base, mi)[p]
  BY DEF MakeNRTPatch
<1>2. \A p \in Paths : p \in DOMAIN patch <=> p \in Written(mi) /\ base[p] # Wanted(mi, p)
  BY <1>1, MutatedAt
<1>3. /\ DOMAIN new = Paths
      /\ \A p \in Paths : new[p] = IF p \in DOMAIN patch THEN patch[p] ELSE obj[p]
      /\ new = [p \in Paths |-> new[p]]
  BY DEF ApplyPatch
<1>4. \A p \in Paths : new[p] =
         IF p \in Written(mi) /\ base[p] # Wanted(mi, p) THEN Wanted(mi, p) ELSE obj[p]
  BY <1>1, <1>2, <1>3, MutatedAt
<1>5. \A p \in Paths : new[p] \in Held
  <2>1. \A p \in Paths : Mutated(base, mi)[p] \in Held /\ obj[p] \in Held
    BY MutatedAt DEF NRT
  <2> QED
    BY <2>1, <1>1, <1>3
<1> QED
  BY <1>3, <1>4, <1>5 DEF NRT

----------------------------------------------------------------------------

(***************************************************************************)
(* The inductive invariant.  Besides the types: a path through sendObject  *)
(* is entered only when the exporter publishes, a patch is attempted only  *)
(* below the resync bound and from a base, the base is current unless the  *)
(* object has drifted, and a fetched object is the one on the server       *)
(* unless it was written since.                                            *)
(***************************************************************************)
Sending == pc \in {"patch", "get", "create", "update"}

FetchedIsCurrent ==
    (pc = "update" /\ ~ moved /\ nrt # NoObject) => fetched = nrt

PatchBelowBound ==
    pc = "patch" => args.patchMode /\ (PatchResync > 0 => patchCount < PatchResync)

IInv ==
    /\ TypeOK
    /\ Sending => ~ args.noPublish
    /\ FetchedIsCurrent
    /\ PatchBelowBound
    /\ PatchBaseIsCurrent
    /\ ResyncBound
    /\ pc \notin {"update"} => fetched = NoObject

\* The initial state satisfies the inductive invariant.
LEMMA UpdaterInit == Init => IInv
<1> SUFFICES ASSUME Init PROVE IInv
  OBVIOUS
<1>1. patchCount \in Nat /\ PatchBelowBound /\ ResyncBound
  BY UpdaterAssumption DEF UpdaterAssumption, Init, PatchBelowBound, ResyncBound
<1> QED
  BY <1>1 DEF Init, IInv, TypeOK, Sending, FetchedIsCurrent, PatchBaseIsCurrent

\* The empty object is an NRT object.
LEMMA EmptyIsNRT == EmptyNRT \in NRT
BY DEF EmptyNRT, NRT, Held

\* Every step keeps the inductive invariant.
LEMMA UpdaterStep == IInv /\ [Next]_vars => IInv'
<1> USE UpdaterAssumption DEF UpdaterAssumption
<1> USE DEF IInv, TypeOK, Sending, FetchedIsCurrent
<1> SUFFICES ASSUME IInv, [Next]_vars PROVE IInv'
  OBVIOUS
<1> DEFINE Counting == patchCount \in Nat /\ PatchBelowBound /\ ResyncBound
<1> USE DEF PatchBelowBound, ResyncBound
<1>0. \A a \in ArgsChoices : a.patchMode \in BOOLEAN /\ a.noPublish \in BOOLEAN
                             /\ a.oneshot \in BOOLEAN
  OBVIOUS
<1>1. ASSUME NEW mi \in Infos, TakeInfo(mi) PROVE IInv'
  <2>1. Counting'
    BY <1>0, <1>1 DEF TakeInfo, Return, needsResync
  <2> HIDE DEF PatchBelowBound, ResyncBound
  <2> QED
    BY <1>0, <1>1, <2>1 DEF TakeInfo, Return, PatchBaseIsCurrent
<1>2. CASE PatchOk
  <2>1. nrt' \in NRT
    BY <1>2, PatchAt DEF PatchOk, PatchedNRT
  <2>2. Counting'
    BY <1>0, <1>2 DEF PatchOk, Return
  <2> HIDE DEF PatchBelowBound, ResyncBound
  <2> QED
    BY <1>0, <1>2, <2>1, <2>2 DEF PatchOk, Return, PatchBaseIsCurrent
<1>3. CASE PatchFails
  BY <1>0, <1>3 DEF PatchFails, PatchBaseIsCurrent
<1>4. CASE PatchLost
  <2>1. nrt' \in NRT
    BY <1>4, PatchAt DEF PatchLost, PatchedNRT
  <2> QED
    BY <1>0, <1>4, <2>1 DEF PatchLost, PatchBaseIsCurrent
<1>5. CASE GetOk \/ GetNotFound
  BY <1>0, <1>5 DEF GetOk, GetNotFound, PatchBaseIsCurrent
<1>6. CASE SendFails
  BY <1>0, <1>6 DEF SendFails, Return, PatchBaseIsCurrent
<1>7. CASE Create
  <2>1. nrt' \in NRT
    BY <1>7, EmptyIsNRT, MutatedAt DEF Create
  <2>2. Counting'
    BY <1>0, <1>7 DEF Create, FullWriteDone, FullWriteLost, Return
  <2> HIDE DEF PatchBelowBound, ResyncBound
  <2> QED
    BY <1>0, <1>7, <2>1, <2>2 DEF Create, FullWriteDone, FullWriteLost, Return, PatchBaseIsCurrent
<1>8. CASE Update
  <2>1. nrt' \in NRT
    BY <1>8, MutatedAt DEF Update
  <2>2. Counting'
    BY <1>0, <1>8 DEF Update, FullWriteDone, FullWriteLost, Return
  <2> HIDE DEF PatchBelowBound, ResyncBound
  <2> QED
    BY <1>0, <1>8, <2>1, <2>2 DEF Update, FullWriteDone, FullWriteLost, Return, PatchBaseIsCurrent
<1>9. CASE Report \/ Stop
  BY <1>0, <1>9 DEF Report, Stop, PatchBaseIsCurrent
<1>10. CASE Restart
  <2>1. Counting'
    BY <1>10 DEF Restart, FreshUpdater
  <2> HIDE DEF PatchBelowBound, ResyncBound
  <2> QED
    BY <1>0, <1>10, <2>1 DEF Restart, FreshUpdater, PatchBaseIsCurrent
<1>11. ASSUME NEW p \in OtherPaths, NEW v \in OtherValues, OtherWrites(p, v) PROVE IInv'
  <2>1. /\ nrt' \in NRT
        /\ \A q \in Paths : q # p => nrt'[q] = nrt[q]
    BY <1>11 DEF OtherWrites, NRT, Held
  <2>2. PatchBaseIsCurrent'
    BY <1>11, <2>1 DEF OtherWrites, PatchBaseIsCurrent, Paths
  <2> QED
    BY <1>0, <1>11, <2>1, <2>2 DEF OtherWrites
<1>12. CASE OtherDeletes
  BY <1>0, <1>12 DEF OtherDeletes, PatchBaseIsCurrent
<1>13. CASE UNCHANGED vars
  BY <1>13 DEF vars, PatchBaseIsCurrent
<1> QED
  BY <1>1, <1>2, <1>3, <1>4, <1>5, <1>6, <1>7, <1>8, <1>9, <1>10, <1>11, <1>12, <1>13
     DEF Next

\* The inductive invariant holds throughout.
LEMMA UpdaterInvariant == Spec => []IInv
BY UpdaterInit, UpdaterStep, PTL DEF Spec

(***************************************************************************)
(* Type correctness of the updater.                                        *)
(***************************************************************************)
THEOREM UpdaterTypeCorrect == Spec => []TypeOK
<1>1. IInv => TypeOK
  BY DEF IInv
<1> QED
  BY <1>1, UpdaterInvariant, PTL

(***************************************************************************)
(* The resync bound holds for every PatchResync.                           *)
(***************************************************************************)
THEOREM ResyncIsForced == Spec => []ResyncBound
<1>1. IInv => ResyncBound
  BY DEF IInv
<1> QED
  BY <1>1, UpdaterInvariant, PTL

(***************************************************************************)
(* Unless the object drifted, prevNRT and the server agree on the paths    *)
(* the exporter owns.                                                      *)
(***************************************************************************)
THEOREM PatchBaseCurrent == Spec => []PatchBaseIsCurrent
<1>1. IInv => PatchBaseIsCurrent
  BY DEF IInv
<1> QED
  BY <1>1, UpdaterInvariant, PTL

(***************************************************************************)
(* A successful Update leaves the scan on the server: every full write     *)
(* does, and so does every patch unless the object drifted.                *)
(***************************************************************************)
THEOREM SuccessPublishes == Spec => SuccessIsFaithful
<1>1. IInv /\ [Next]_vars =>
        [(Succeeds /\ (pc = "patch" => ~ drift)) => Carries(nrt', info)]_vars
  <2> SUFFICES ASSUME IInv, [Next]_vars, Succeeds, pc = "patch" => ~ drift
               PROVE  Carries(nrt', info)
    OBVIOUS
  <2> USE DEF Succeeds, IInv, TypeOK
  <2>1. CASE PatchOk
    <3>1. nrt' \in NRT
      BY <2>1, PatchAt DEF PatchOk, PatchedNRT
    <3>2. \A p \in OwnPaths : nrt[p] = prevNRT[p]
      BY <2>1 DEF PatchOk, PatchBelowBound, PatchBaseIsCurrent
    <3>3. \A p \in Written(info) : nrt'[p] = Wanted(info, p)
      <4>1. Written(info) \subseteq OwnPaths /\ OwnPaths \subseteq Paths
        BY EmptyIsNRT, MutatedAt DEF Paths
      <4>2. \A p \in Paths : PatchedNRT[p] =
               IF p \in Written(info) /\ prevNRT[p] # Wanted(info, p)
               THEN Wanted(info, p) ELSE nrt[p]
        BY <2>1, PatchAt DEF PatchOk, PatchedNRT
      <4> QED
        BY <2>1, <3>2, <4>1, <4>2 DEF PatchOk
    <3> QED
      BY <3>1, <3>3, WrittenCarries
  <2>2. CASE Create
    BY <2>2, EmptyIsNRT, MutatedCarries DEF Create
  <2>3. CASE Update
    BY <2>3, MutatedCarries DEF Update
  <2>4. CASE PatchFails \/ PatchLost \/ GetOk \/ GetNotFound \/ SendFails \/ Report \/ Stop
              \/ Restart \/ OtherDeletes \/ (\E mi \in Infos : TakeInfo(mi))
              \/ (\E p \in OtherPaths, v \in OtherValues : OtherWrites(p, v))
              \/ UNCHANGED vars
    BY <2>4 DEF PatchFails, PatchLost, GetOk, GetNotFound, SendFails, Return, Report,
       Stop, Restart, FreshUpdater, OtherDeletes, TakeInfo, OtherWrites, vars
  <2> QED
    BY <2>1, <2>2, <2>3, <2>4 DEF Next
<1> QED
  BY <1>1, UpdaterInvariant, PTL DEF Spec, SuccessIsFaithful

(***************************************************************************)
(* The exporter never undoes a change others made to their own paths and   *)
(* writes nothing with NoPublish.                                          *)
(***************************************************************************)
THEOREM OthersKeepTheirPaths == Spec => OnlyOwnPaths
<1>1. IInv /\ [Next]_vars =>
        [(pc' # pc /\ nrt # NoObject) =>
            /\ nrt' # NoObject
            /\ \A p \in ForeignPaths : nrt'[p] = nrt[p]
            /\ args.noPublish => nrt' = nrt]_vars
  <2> SUFFICES ASSUME IInv, [Next]_vars, pc' # pc, nrt # NoObject
               PROVE  /\ nrt' # NoObject
                      /\ \A p \in ForeignPaths : nrt'[p] = nrt[p]
                      /\ args.noPublish => nrt' = nrt
    OBVIOUS
  <2> USE DEF IInv, TypeOK
  <2>0. /\ \A p \in ForeignPaths : p \in Paths /\ p \notin Written(info)
        /\ NoObject \notin NRT
    BY UpdaterAssumption, EmptyIsNRT, MutatedAt DEF UpdaterAssumption, Paths
  <2>1. CASE PatchOk \/ PatchLost
    <3>0. /\ PatchedNRT \in NRT
          /\ \A p \in Paths : PatchedNRT[p] =
               IF p \in Written(info) /\ prevNRT[p] # Wanted(info, p)
               THEN Wanted(info, p) ELSE nrt[p]
      BY <2>1, PatchAt DEF PatchOk, PatchLost, PatchedNRT
    <3>1. /\ nrt' \in NRT
          /\ \A p \in Paths : p \notin Written(info) => nrt'[p] = nrt[p]
      BY <2>1, <3>0 DEF PatchOk, PatchLost
    <3>2. ~ args.noPublish
      BY <2>1 DEF PatchOk, PatchLost, Sending
    <3> QED
      BY <2>0, <3>1, <3>2
  <2>2. CASE Update
    <3>1. fetched = nrt /\ fetched \in NRT
      BY <2>2 DEF Update, FetchedIsCurrent
    <3>2. /\ nrt' \in NRT
          /\ \A p \in Paths : p \notin Written(info) => nrt'[p] = nrt[p]
      BY <2>2, <3>1, MutatedAt DEF Update
    <3>3. ~ args.noPublish
      BY <2>2 DEF Update, Sending
    <3> QED
      BY <2>0, <3>2, <3>3
  <2>3. CASE PatchFails \/ GetOk \/ GetNotFound \/ SendFails \/ Report \/ Stop \/ Restart
              \/ (\E mi \in Infos : TakeInfo(mi))
    BY <2>3 DEF PatchFails, GetOk, GetNotFound, SendFails, Report, Stop, Restart, TakeInfo
  <2>4. CASE Create \/ OtherDeletes \/ UNCHANGED vars
              \/ (\E p \in OtherPaths, v \in OtherValues : OtherWrites(p, v))
    BY <2>4 DEF Create, OtherDeletes, OtherWrites, vars
  <2> QED
    BY <2>1, <2>2, <2>3, <2>4 DEF Next
<1> QED
  BY <1>1, UpdaterInvariant, PTL DEF Spec, OnlyOwnPaths

----------------------------------------------------------------------------

\* An object carries a MonitorInfo when it holds what is to be written.
LEMMA CarriesWritten ==
    ASSUME NEW obj \in NRT, NEW mi \in Infos
    PROVE  Carries(obj, mi) <=> \A p \in Written(mi) : obj[p] = Wanted(mi, p)
<1>1. ASSUME Carries(obj, mi), NEW p \in Written(mi) PROVE obj[p] = Wanted(mi, p)
  BY <1>1, MutatedAt DEF Carries, Paths
<1> QED
  BY <1>1, WrittenCarries

\* A patch from a base that has not drifted shows the MonitorInfo.
LEMMA PatchCarries ==
    ASSUME IInv, pc = "patch", nrt # NoObject, ~ drift
    PROVE  PatchedNRT \in NRT /\ Carries(PatchedNRT, info)
<1> USE DEF IInv, TypeOK
<1>1. /\ PatchedNRT \in NRT
      /\ \A p \in Paths : PatchedNRT[p] =
            IF p \in Written(info) /\ prevNRT[p] # Wanted(info, p) THEN Wanted(info, p) ELSE nrt[p]
  BY PatchAt DEF PatchedNRT
<1>2. \A p \in OwnPaths : nrt[p] = prevNRT[p]
  BY DEF PatchBelowBound, PatchBaseIsCurrent
<1>3. Written(info) \subseteq OwnPaths /\ OwnPaths \subseteq Paths
  BY EmptyIsNRT, MutatedAt DEF Paths
<1>4. \A p \in Written(info) : PatchedNRT[p] = Wanted(info, p)
  BY <1>1, <1>2, <1>3
<1> QED
  BY <1>1, <1>4, WrittenCarries

\* A write to a path of others does not change what the object shows.
LEMMA ForeignWrite ==
    ASSUME NEW obj \in NRT, NEW new \in NRT, NEW p, p \notin OwnPaths,
           \A q \in Paths : q # p => new[q] = obj[q]
    PROVE  Shown(new) = Shown(obj)
<1>1. obj # NoObject /\ new # NoObject
  BY UpdaterAssumption DEF UpdaterAssumption
<1>2. ASSUME NEW mi \in Infos PROVE Carries(new, mi) <=> Carries(obj, mi)
  <2>1. Written(mi) \subseteq OwnPaths /\ OwnPaths \subseteq Paths
    BY MutatedAt DEF Paths
  <2>2. \A q \in Written(mi) : new[q] = obj[q]
    BY <2>1
  <2> QED
    BY <2>2, CarriesWritten
<1> QED
  BY <1>1, <1>2 DEF Shown

\* What an object shows are scan results.
LEMMA ShownIn == ASSUME NEW obj PROVE Shown(obj) \subseteq Infos
  BY DEF Shown

\* An object shows every MonitorInfo it carries.
LEMMA CarriesShown ==
    ASSUME NEW obj \in NRT, NEW mi \in Infos, Carries(obj, mi)
    PROVE  mi \in Shown(obj)
  BY UpdaterAssumption DEF UpdaterAssumption, Shown

\* The updater starts as a publisher does.
LEMMA PublisherInit == Init => P!Init
<1> SUFFICES ASSUME Init PROVE P!Init
  OBVIOUS
<1>1. args.noPublish \in BOOLEAN /\ args.oneshot \in BOOLEAN
  BY UpdaterAssumption DEF UpdaterAssumption, Init
<1> QED
  BY <1>1 DEF Init, P!Init, Shown

\* Every step of the updater, of the server and of others is one of a publisher.
LEMMA PublisherStep == IInv /\ [Next]_vars => [P!Next]_P!publisherVars
<1> SUFFICES ASSUME IInv, [Next]_vars PROVE [P!Next]_P!publisherVars
  OBVIOUS
<1>0. /\ args.noPublish \in BOOLEAN /\ args.oneshot \in BOOLEAN
      /\ \A a \in ArgsChoices : a.noPublish \in BOOLEAN /\ a.oneshot \in BOOLEAN
      /\ Sending => ~ args.noPublish
      /\ info \in Infos /\ drift \in BOOLEAN /\ misled \in BOOLEAN
  BY UpdaterAssumption DEF UpdaterAssumption, IInv, TypeOK
<1> USE <1>0 DEF Sending, P!SameArgs
<1>1. ASSUME NEW mi \in Infos, TakeInfo(mi) PROVE P!Next
  <2>1. CASE args.noPublish
    <3>1. P!Skip
      BY <1>1, <2>1 DEF TakeInfo, Return, P!Skip, P!Return
    <3> QED
      BY <3>1 DEF P!Next
  <2>2. CASE ~ args.noPublish
    <3>1. P!Take(mi)
      BY <1>1, <2>2 DEF TakeInfo, P!Take
    <3> QED
      BY <3>1 DEF P!Next
  <2> QED
    BY <2>1, <2>2
<1>2. CASE PatchOk
  <2>1. CASE drift
    <3>1. P!Misled
      BY <1>2, <2>1, ShownIn DEF PatchOk, Return, P!Misled, P!Return
    <3> QED
      BY <3>1 DEF P!Next
  <2>2. CASE ~ drift
    <3>1. info \in Shown(nrt')
      BY <1>2, <2>2, PatchCarries, CarriesShown DEF PatchOk
    <3>2. P!Succeed
      BY <1>2, <2>2, <3>1 DEF PatchOk, Return, P!Succeed, P!Return
    <3> QED
      BY <3>2 DEF P!Next
  <2> QED
    BY <2>1, <2>2
<1>3. CASE PatchLost
  <2>1. drift \/ info \in Shown(nrt')
    BY <1>3, PatchCarries, CarriesShown DEF PatchLost
  <2>2. P!Lands
    BY <1>3, <2>1, ShownIn DEF PatchLost, P!Lands
  <2> QED
    BY <2>2 DEF P!Next
<1>4. CASE PatchFails \/ GetOk \/ GetNotFound
  BY <1>4 DEF PatchFails, GetOk, GetNotFound, P!publisherVars
<1>5. CASE SendFails
  <2>1. P!Fail
    BY <1>5 DEF SendFails, Return, P!Fail, P!Return
  <2> QED
    BY <2>1 DEF P!Next
<1>6. CASE Create \/ Update
  <2>1. info \in Shown(nrt')
    <3>1. CASE Create
      BY <3>1, EmptyIsNRT, MutatedAt, MutatedCarries, CarriesShown DEF Create
    <3>2. CASE Update
      BY <3>2, MutatedAt, MutatedCarries, CarriesShown DEF Update, IInv, TypeOK
    <3> QED
      BY <1>6, <3>1, <3>2
  <2>2. pc \in {"create", "update"} /\ (FullWriteDone \/ FullWriteLost)
    BY <1>6 DEF Create, Update
  <2>3. CASE FullWriteDone
    <3>1. P!Succeed
      BY <2>1, <2>2, <2>3 DEF FullWriteDone, Return, P!Succeed, P!Return
    <3> QED
      BY <3>1 DEF P!Next
  <2>4. CASE FullWriteLost
    <3>1. P!Lost
      BY <2>1, <2>2, <2>4 DEF FullWriteLost, Return, P!Lost, P!Return
    <3> QED
      BY <3>1 DEF P!Next
  <2> QED
    BY <2>2, <2>3, <2>4
<1>7. CASE Report
  <2>1. P!Report
    BY <1>7 DEF Report, P!Report
  <2> QED
    BY <2>1 DEF P!Next
<1>8. CASE Stop
  <2>1. P!Stop
    BY <1>8 DEF Stop, P!Stop
  <2> QED
    BY <2>1 DEF P!Next
<1>9. CASE Restart
  <2>1. P!Restart
    BY <1>9 DEF Restart, FreshUpdater, P!Restart
  <2> QED
    BY <2>1 DEF P!Next
<1>10. ASSUME NEW p \in OtherPaths, NEW v \in OtherValues, OtherWrites(p, v)
       PROVE  [P!Next]_P!publisherVars
  <2>1. CASE p \in OwnPaths
    <3>1. P!Disturbed
      BY <1>10, <2>1, ShownIn DEF OtherWrites, P!Disturbed
    <3> QED
      BY <3>1 DEF P!Next
  <2>2. CASE p \notin OwnPaths
    <3>1. nrt \in NRT /\ nrt' \in NRT /\ \A q \in Paths : q # p => nrt'[q] = nrt[q]
      BY <1>10, UpdaterAssumption DEF UpdaterAssumption, OtherWrites, IInv, TypeOK, NRT, Held
    <3>2. Shown(nrt') = Shown(nrt)
      BY <2>2, <3>1, ForeignWrite
    <3> QED
      BY <1>10, <2>2, <3>2 DEF OtherWrites, P!publisherVars
  <2> QED
    BY <2>1, <2>2
<1>11. CASE OtherDeletes
  <2>1. P!Disturbed
    BY <1>11 DEF OtherDeletes, P!Disturbed, Shown
  <2> QED
    BY <2>1 DEF P!Next
<1>12. CASE UNCHANGED vars
  BY <1>12 DEF vars, P!publisherVars
<1> QED
  BY <1>1, <1>2, <1>3, <1>4, <1>5, <1>6, <1>7, <1>8, <1>9, <1>10, <1>11, <1>12 DEF Next

(***************************************************************************)
(* The updater implements Publisher, for every set of paths, values and    *)
(* scans, both modes, every PatchResync and all other writers: what        *)
(* Exporter takes for granted of Update is what NRTUpdater does.           *)
(***************************************************************************)
THEOREM UpdaterImplementsPublisher == Spec => ImplementsPublisher
BY PublisherInit, PublisherStep, UpdaterInvariant, PTL DEF Spec, ImplementsPublisher, P!Spec

============================================================================
