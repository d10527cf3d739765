----------------------------- MODULE NRTUpdater -----------------------------
(***************************************************************************)
(* pkg/nrtupdater: the goroutine that publishes scan results as the node's *)
(* NodeResourceTopology (NRT) object, with get+update or with patches.     *)
(*                                                                         *)
(* An NRT object is a function from its paths to values: one path for each *)
(* list (a JSON merge patch replaces a list as a whole) and one for each   *)
(* key of a map.  The API server, other writers of the object and restarts *)
(* of the exporter are part of the model.  A call to the API server may    *)
(* fail without effect, and it may take effect while its answer is lost.   *)
(***************************************************************************)
EXTENDS Integers

CONSTANTS
    AnnotationKeys,  \* annotations a scan may report (pod fingerprint, timing)
    ForeignPaths,    \* paths of the object the exporter never writes
    Values,          \* what a path may hold
    Absent,          \* the path is not set
    NoObject,        \* no object: on the server, or no prevNRT
    Infos,           \* the MonitorInfo values the observer may send
    ArgsChoices,     \* the Args a (re)start may use: patchMode, noPublish, oneshot
    PatchResync,     \* args.PatchResync
    TMAppend,        \* TMAppend[a]: attributes a, followed by makeAttributes()
    NodeReference,   \* the owner reference to the cached Node, or Absent
    OtherPaths,      \* paths other clients may write
    OtherValues      \* what they may write there; if empty, there are no others

OwnPaths == {"zones", "attributes", "rte-update", "owners"} \cup AnnotationKeys
Paths == OwnPaths \cup ForeignPaths

\* MonitorInfo: Annotations holds Absent for a key the scan does not report.
MonitorInfo == [timer : BOOLEAN, zones : Values, attributes : Values,
                annotations : [AnnotationKeys -> Values \cup {Absent}]]

\* What a path may hold.
Held == Values \cup OtherValues \cup {Absent, NodeReference, "periodic", "reactive"}
NRT == [Paths -> Held]

ASSUME UpdaterAssumption ==
    /\ Infos \subseteq MonitorInfo
    /\ ArgsChoices \subseteq [patchMode : BOOLEAN, noPublish : BOOLEAN, oneshot : BOOLEAN]
    /\ PatchResync \in Int
    /\ TMAppend \in [Values -> Values]
    /\ OtherPaths \subseteq Paths
    /\ NoObject \notin NRT
    /\ OwnPaths \cap ForeignPaths = {}
    /\ {"zones", "attributes", "rte-update", "owners"} \cap AnnotationKeys = {}

VARIABLES
    nrt,         \* the object on the API server
    args,        \* the arguments of the running exporter
    pc,          \* where Run() is
    info,        \* the MonitorInfo being published
    prevNRT,     \* te.prevNRT: the object the last success returned
    patchCount,  \* te.patchCount
    fetched,     \* the object Get returned, while sendObjectUpdate runs
    moved,       \* it was written since: the fetched resourceVersion is stale
    result,      \* how the last Update ended: "none", "ok" or "failed"
    drift,       \* history: nrt may have left prevNRT behind
    misled       \* history: a patch succeeded although it had

vars == <<nrt, args, pc, info, prevNRT, patchCount, fetched, moved, result, drift, misled>>

TypeOK ==
    /\ nrt \in NRT \cup {NoObject}
    /\ args \in ArgsChoices
    /\ pc \in {"select", "patch", "get", "create", "update", "report", "stopped"}
    /\ info \in Infos
    /\ prevNRT \in NRT \cup {NoObject}
    /\ patchCount \in Nat
    /\ fetched \in NRT \cup {NoObject}
    /\ (pc = "update") => fetched # NoObject
    /\ (pc = "patch") => prevNRT # NoObject
    /\ moved \in BOOLEAN
    /\ result \in {"none", "ok", "failed"}
    /\ drift \in BOOLEAN
    /\ misled \in BOOLEAN

\* NewNRTUpdater, at a start or a restart of the exporter.
FreshUpdater ==
    /\ args' \in ArgsChoices
    /\ pc' = "select"
    /\ prevNRT' = NoObject
    /\ patchCount' = 0
    /\ fetched' = NoObject
    /\ moved' = FALSE
    /\ result' = "none"

Init ==
    /\ nrt = NoObject
    /\ args \in ArgsChoices
    /\ pc = "select"
    /\ info \in Infos
    /\ prevNRT = NoObject
    /\ patchCount = 0
    /\ fetched = NoObject
    /\ moved = FALSE
    /\ result = "none"
    /\ drift = FALSE
    /\ misled = FALSE

----------------------------------------------------------------------------
(* What the updater computes.                                                *)

\* MonitorInfo.UpdateReason.
UpdateReason(mi) == IF mi.timer THEN "periodic" ELSE "reactive"

\* updateNRTInfo: annotations are merged, so a key the scan does not report
\* keeps its old value; zones and attributes are replaced.
updateNRTInfo(obj, mi) ==
    [p \in Paths |->
        CASE p = "zones" -> mi.zones
          [] p = "attributes" -> TMAppend[mi.attributes]
          [] p = "rte-update" -> UpdateReason(mi)
          [] p \in AnnotationKeys /\ mi.annotations[p] # Absent -> mi.annotations[p]
          [] OTHER -> obj[p]]

\* updateOwnerReferences: the list is replaced by the reference to the cached
\* Node, or left alone when there is none (NotConfigured, NotFound).
updateOwnerReferences(obj) ==
    IF NodeReference = Absent THEN obj ELSE [obj EXCEPT !["owners"] = NodeReference]

\* The object the updater wants to see on the server.
Mutated(obj, mi) == updateOwnerReferences(updateNRTInfo(obj, mi))

EmptyNRT == [p \in Paths |-> Absent]

\* MakeNRTPatch: a JSON merge patch holds the paths that differ.
MakeNRTPatch(old, new) == [p \in {q \in Paths : old[q] # new[q]} |-> new[p]]

\* How the API server applies a merge patch.
ApplyPatch(obj, patch) ==
    [p \in Paths |-> IF p \in DOMAIN patch THEN patch[p] ELSE obj[p]]

\* Mutant: one patch too many.
needsResyncLate == PatchResync > 0 /\ patchCount > PatchResync

needsResync == PatchResync > 0 /\ patchCount >= PatchResync

----------------------------------------------------------------------------
(* Run(), Update(), sendData() and sendObject(): one action per API call.    *)

\* sendObject and Update return; with Oneshot the break skips SetCondition and ends only the
\* select, so that Run() reads the next MonitorInfo.
Return(outcome) ==
    /\ result' = outcome
    /\ fetched' = NoObject
    /\ moved' = FALSE
    /\ pc' = IF args.oneshot THEN "select" ELSE "report"

\* Mutant: patching without an object to compute the patch from.
TakeInfoNoBase(mi) ==
    /\ pc = "select"
    /\ info' = mi
    /\ IF args.noPublish
       THEN Return("ok")
       ELSE /\ pc' = IF args.patchMode /\ ~ needsResync THEN "patch" ELSE "get"
            /\ UNCHANGED <<result, fetched, moved>>
    /\ UNCHANGED <<nrt, args, prevNRT, patchCount, drift, misled>>

\* case info := <-infoChannel, up to the first API call.
TakeInfo(mi) ==
    /\ pc = "select"
    /\ info' = mi
    /\ IF args.noPublish
       THEN Return("ok")
       ELSE /\ pc' = IF args.patchMode /\ ~ needsResync /\ prevNRT # NoObject
                     THEN "patch" ELSE "get"
            /\ UNCHANGED <<result, fetched, moved>>
    /\ UNCHANGED <<nrt, args, prevNRT, patchCount, drift, misled>>

\* patchNRT's Patch call.
PatchedNRT == ApplyPatch(nrt, MakeNRTPatch(prevNRT, Mutated(prevNRT, info)))

\* Mutant: the object the server returned is not remembered.
PatchOkKeepsBase ==
    /\ pc = "patch"
    /\ nrt # NoObject
    /\ nrt' = PatchedNRT
    /\ patchCount' = patchCount + 1
    /\ drift' = FALSE
    /\ misled' = drift
    /\ Return("ok")
    /\ UNCHANGED <<args, info, prevNRT>>

PatchOk ==
    /\ pc = "patch"
    /\ nrt # NoObject
    /\ nrt' = PatchedNRT
    /\ prevNRT' = nrt'
    /\ patchCount' = patchCount + 1
    /\ drift' = FALSE
    /\ misled' = drift
    /\ Return("ok")
    /\ UNCHANGED <<args, info>>

\* The patch fails, or there is nothing to patch: fall back to get+update.
PatchFails ==
    /\ pc = "patch"
    /\ pc' = "get"
    /\ UNCHANGED <<nrt, args, info, prevNRT, patchCount, fetched, moved, result, drift, misled>>

\* The patch is applied but the answer is lost.
PatchLost ==
    /\ pc = "patch"
    /\ nrt # NoObject
    /\ nrt' = PatchedNRT
    /\ drift' = TRUE
    /\ pc' = "get"
    /\ UNCHANGED <<args, info, prevNRT, patchCount, fetched, moved, result, misled>>

\* sendObjectUpdate's Get.
GetOk ==
    /\ pc = "get"
    /\ nrt # NoObject
    /\ fetched' = nrt
    /\ moved' = FALSE
    /\ pc' = "update"
    /\ UNCHANGED <<nrt, args, info, prevNRT, patchCount, result, drift, misled>>

GetNotFound ==
    /\ pc = "get"
    /\ nrt = NoObject
    /\ pc' = "create"
    /\ UNCHANGED <<nrt, args, info, prevNRT, patchCount, fetched, moved, result, drift, misled>>

\* Mutant: the error is not handed on.
SendFailsUnnoticed ==
    /\ pc \in {"get", "create", "update"}
    /\ Return("ok")
    /\ UNCHANGED <<nrt, args, info, prevNRT, patchCount, drift, misled>>

\* Get, Create or Update fails and has no effect; Update also fails when the
\* object has moved, Create when the object exists.
SendFails ==
    /\ pc \in {"get", "create", "update"}
    /\ Return("failed")
    /\ UNCHANGED <<nrt, args, info, prevNRT, patchCount, drift, misled>>

\* A full write succeeded.  sendObjectPatch remembers the object and restarts
\* the count; in get+update mode nobody does.
FullWriteDone ==
    /\ prevNRT' = IF args.patchMode THEN nrt' ELSE prevNRT
    /\ patchCount' = IF args.patchMode THEN 0 ELSE patchCount
    /\ drift' = FALSE
    /\ misled' = FALSE
    /\ Return("ok")
    /\ UNCHANGED <<args, info>>

\* The effect was there, but the caller sees an error.
FullWriteLost ==
    /\ drift' = TRUE
    /\ Return("failed")
    /\ UNCHANGED <<args, info, prevNRT, patchCount, misled>>

Create ==
    /\ pc = "create"
    /\ nrt = NoObject
    /\ nrt' = Mutated(EmptyNRT, info)
    /\ FullWriteDone \/ FullWriteLost

\* Mutant: the fetched object is sent instead of its mutated copy.
UpdateSendsFetched ==
    /\ pc = "update"
    /\ nrt # NoObject
    /\ ~ moved
    /\ nrt' = fetched
    /\ FullWriteDone \/ FullWriteLost

\* Mutant: the write ignores the resourceVersion.
UpdateBlind ==
    /\ pc = "update"
    /\ nrt # NoObject
    /\ nrt' = Mutated(fetched, info)
    /\ FullWriteDone \/ FullWriteLost

Update ==
    /\ pc = "update"
    /\ nrt # NoObject
    /\ ~ moved
    /\ nrt' = Mutated(fetched, info)
    /\ FullWriteDone \/ FullWriteLost

\* SetCondition(NodeTopologyUpdated).
Report ==
    /\ pc = "report"
    /\ pc' = "select"
    /\ UNCHANGED <<nrt, args, info, prevNRT, patchCount, fetched, moved, result, drift, misled>>

\* case <-te.stopChan
Stop ==
    /\ pc = "select"
    /\ pc' = "stopped"
    /\ UNCHANGED <<nrt, args, info, prevNRT, patchCount, fetched, moved, result, drift, misled>>

----------------------------------------------------------------------------
(* The rest of the world.                                                    *)

\* The exporter's process ends at any point and starts again.
Restart ==
    /\ FreshUpdater
    /\ drift' = FALSE
    /\ misled' = FALSE
    /\ UNCHANGED <<nrt, info>>

OtherWrites(p, v) ==
    /\ nrt # NoObject
    /\ nrt[p] # v
    /\ nrt' = [nrt EXCEPT ![p] = v]
    /\ moved' = (fetched # NoObject)
    /\ drift' = (drift \/ p \in OwnPaths)
    /\ UNCHANGED <<args, pc, info, prevNRT, patchCount, fetched, result, misled>>

OtherDeletes ==
    /\ OtherValues # {}
    /\ nrt # NoObject
    /\ nrt' = NoObject
    /\ moved' = (fetched # NoObject)
    /\ UNCHANGED <<args, pc, info, prevNRT, patchCount, fetched, result, drift, misled>>

Next ==
    \/ \E mi \in Infos : TakeInfo(mi)
    \/ PatchOk \/ PatchFails \/ PatchLost
    \/ GetOk \/ GetNotFound \/ SendFails
    \/ Create \/ Update
    \/ Report \/ Stop \/ Restart
    \/ \E p \in OtherPaths, v \in OtherValues : OtherWrites(p, v)
    \/ OtherDeletes

Spec == Init /\ [][Next]_vars

----------------------------------------------------------------------------
(* Properties.                                                               *)

\* obj carries mi: publishing mi once more would not change obj.
Carries(obj, mi) == obj = Mutated(obj, mi)

\* The MonitorInfos an object shows.
Shown(obj) == IF obj = NoObject THEN {} ELSE {mi \in Infos : Carries(obj, mi)}

P == INSTANCE Publisher WITH
        Nothing <- NoObject,
        publish <- ~ args.noPublish,
        oneshot <- args.oneshot,
        phase <- IF pc \in {"patch", "get", "create", "update"} THEN "update" ELSE pc,
        given <- IF pc \in {"patch", "get", "create", "update"} THEN info ELSE NoObject,
        ok <- pc = "report" /\ result = "ok",
        shown <- Shown(nrt),
        doubt <- drift \/ misled

(***************************************************************************)
(* Patches, resyncs, fallbacks and get+update are, for those who hand it   *)
(* MonitorInfos and those who read the object, nothing but what Publisher  *)
(* promises; Exporter relies on it.                                        *)
(***************************************************************************)
ImplementsPublisher == P!Spec

\* This step ends an Update that wrote to the server and reports success.
Succeeds == pc \in {"patch", "create", "update"} /\ pc' \in {"select", "report"} /\ result' = "ok"

(***************************************************************************)
(* An Update that succeeds leaves on the server an object that carries the *)
(* MonitorInfo it was given: always with a full write, and with a patch    *)
(* unless somebody else changed the object, or an answer was lost, since   *)
(* the last success.                                                       *)
(***************************************************************************)
SuccessIsFaithful ==
    [][(Succeeds /\ (pc = "patch" => ~ drift)) => Carries(nrt', info)]_vars

(***************************************************************************)
(* NodeTopologyUpdated "means that noderesourcetopology objects updated    *)
(* successfully" (pkg/podreadiness/condition.go): every Update that        *)
(* reports success leaves the MonitorInfo on the server.                   *)
(***************************************************************************)
EverySuccessIsFaithful == [][Succeeds => Carries(nrt', info)]_vars

(***************************************************************************)
(* The base a patch is computed from agrees with the server on every path  *)
(* the exporter owns, unless the object has drifted since the last success *)
(***************************************************************************)
PatchBaseIsCurrent ==
    (prevNRT # NoObject /\ nrt # NoObject /\ args.patchMode /\ ~ drift) =>
        \A p \in OwnPaths : nrt[p] = prevNRT[p]

(***************************************************************************)
(* The exporter never undoes what others did: its steps change only its    *)
(* own paths of an existing object (in get+update mode because a stale     *)
(* resourceVersion is refused, in patch mode because a patch holds only    *)
(* the differences), and change nothing at all with NoPublish.             *)
(***************************************************************************)
OnlyOwnPaths ==
    [][(pc' # pc /\ nrt # NoObject) =>
          /\ nrt' # NoObject
          /\ \A p \in ForeignPaths : nrt'[p] = nrt[p]
          /\ args.noPublish => nrt' = nrt]_vars

(***************************************************************************)
(* PatchResync: at most that many patches succeed in a row before a full   *)
(* get+update is forced.                                                   *)
(***************************************************************************)
ResyncBound == PatchResync > 0 => patchCount <= PatchResync

============================================================================
