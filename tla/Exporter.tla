------------------------------ MODULE Exporter ------------------------------
(***************************************************************************)
(* The running exporter, composed over its unbuffered channels: the        *)
(* observer's loop (ResourceObserver.Run), the dump loop of pkg/pfpdump    *)
(* behind the fingerprint's completion sink, the updater's loop            *)
(* (NRTUpdater.Run) and the injector's loop.  The event source is what     *)
(* Wakeups promises, and the updater does what Publisher promises: the     *)
(* details are in EventPipeline and NRTUpdater, which implement the two,   *)
(* and those of Inject in ConditionInjector.  The process may die at any   *)
(* time and is started again.                                              *)
(*                                                                         *)
(* The state of the node's pods is a version number; 0 is "nothing".       *)
(* With -no-publish nothing reaches the object; it is not looked at here.  *)
(* Nobody else writes to the object.                                       *)
(***************************************************************************)
EXTENDS Integers

CONSTANTS
    Switches,     \* the configurations looked at
    MaxVersion,   \* bound: how often the pods change
    MaxCrashes    \* bound: how often the process is killed

ASSUME ExporterAssumption ==
    /\ Switches \subseteq [exposeTiming : BOOLEAN, readiness : BOOLEAN, dump : BOOLEAN,
                           oneshot : BOOLEAN]
    /\ MaxVersion \in Nat \ {0}
    /\ MaxCrashes \in Nat

VARIABLES
    args,        \* the switches that decide how the loops are wired
    version,     \* the state the kubelet would report now
    notified,    \* history: the last version a notification announced
    pending,     \* Wakeups: an event is on its way
    owed,        \* Wakeups: no scan has started since the last notification
    obsPc,       \* where ResourceObserver.Run is
    found,       \* what its scan found, 0 if it failed
    dumpPc,      \* where dumpLoop is
    temp,        \* its temporary file
    target,      \* the status file
    updPc,       \* where NRTUpdater.Run is
    updInfo,     \* the MonitorInfo it publishes
    updOk,       \* whether Update returned nil
    doubt,       \* the object may differ from prevNRT after a lost answer
    published,   \* what the NRT object shows
    injPc,       \* where ConditionInjector.Run is
    failing,     \* history: the types of which the injector last received False
    crashes

eventVars == <<pending, owed>>
obsVars == <<obsPc, found>>
dumpVars == <<dumpPc, temp, target>>
updVars == <<updPc, updInfo, updOk, doubt, published>>
injVars == <<injPc, failing>>
podVars == <<version, notified>>
vars == <<args, podVars, eventVars, obsVars, dumpVars, updVars, injVars, crashes>>

Version == 0 .. MaxVersion
Types == {"PodresourcesFetched", "NodeTopologyUpdated"}
File == {"none", "partial", "whole"}

TypeOK ==
    /\ args \in Switches
    /\ version \in Version /\ notified \in Version
    /\ pending \in BOOLEAN /\ owed \in BOOLEAN
    /\ obsPc \in {"select", "scan", "mark", "send", "report"}
    /\ found \in Version
    /\ dumpPc \in {"receive", "create", "write", "rename"}
    /\ temp \in File /\ target \in File
    /\ updPc \in {"select", "update", "report"}
    /\ updInfo \in Version /\ updOk \in BOOLEAN /\ doubt \in BOOLEAN /\ published \in Version
    /\ injPc \in {"select", "inject"}
    /\ failing \subseteq Types
    /\ crashes \in 0 .. MaxCrashes

W == INSTANCE Wakeups WITH reader <- IF obsPc = "select" THEN "select" ELSE "scan",
                           source <- "running"

P == INSTANCE Publisher WITH Infos <- Version \ {0}, Nothing <- 0, publish <- TRUE,
                             oneshot <- args.oneshot, phase <- updPc, given <- updInfo,
                             ok <- updOk, shown <- {published} \ {0}

\* All goroutines are at the top of their loops, the initial event is pending.
Started ==
    /\ pending' = TRUE /\ owed' = TRUE
    /\ obsPc' = "select" /\ found' = 0
    /\ dumpPc' = "receive" /\ temp' = "none"
    /\ injPc' = "select"
    /\ P!Restart

Init ==
    /\ args \in Switches
    /\ version = 1 /\ notified = 1
    /\ pending = TRUE /\ owed = TRUE
    /\ obsPc = "select" /\ found = 0
    /\ dumpPc = "receive" /\ temp = "none" /\ target = "none"
    /\ updPc = "select" /\ updInfo = 0 /\ updOk = FALSE /\ doubt = FALSE /\ published = 0
    /\ injPc = "select" /\ failing = {}
    /\ crashes = 0

----------------------------------------------------------------------------
(* The environment.                                                          *)

\* Pods come and go, with a notification or without one.
PodsChange ==
    /\ version < MaxVersion
    /\ version' = version + 1
    /\ UNCHANGED <<args, obsVars, dumpVars, updVars, injVars, crashes>>
    /\ \/ notified' = version' /\ owed' = TRUE /\ W!Announce
       \/ UNCHANGED <<notified, eventVars>>

Tick ==
    /\ UNCHANGED <<owed, obsPc>>
    /\ W!Announce
    /\ UNCHANGED <<args, podVars, found, dumpVars, updVars, injVars, crashes>>

\* The process dies and is started again; files, API objects and the pod's status
\* stay.  A write it was waiting for was applied before (UpdateLands) or never.
Restart == UNCHANGED <<args, podVars, target, published, failing>> /\ Started

Killed ==
    /\ crashes < MaxCrashes
    /\ crashes' = crashes + 1
    /\ Restart

----------------------------------------------------------------------------
(* The injector's half of SetCondition.                                      *)

\* Mutant: the send on a nil channel blocks for ever.
SetConditionBlocks(type, ok) ==
    /\ args.readiness /\ injPc = "select"
    /\ injPc' = "inject"
    /\ failing' = IF ok THEN failing \ {type} ELSE failing \cup {type}

\* SetCondition: without a channel nothing, otherwise a rendezvous.
SetCondition(type, ok) ==
    \/ ~ args.readiness /\ UNCHANGED injVars
    \/ /\ args.readiness /\ injPc = "select"
       /\ injPc' = "inject"
       /\ failing' = IF ok THEN failing \ {type} ELSE failing \cup {type}

\* Inject returns; an error is only logged.
Injected ==
    /\ injPc = "inject"
    /\ injPc' = "select"
    /\ UNCHANGED <<args, podVars, eventVars, obsVars, dumpVars, updVars, failing, crashes>>

----------------------------------------------------------------------------
(* ResourceObserver.Run.                                                     *)

ObserverGoes(from, to) == obsPc = from /\ obsPc' = to /\ UNCHANGED <<args, podVars>>

Wake ==
    /\ ObserverGoes("select", "scan")
    /\ W!Wake
    /\ UNCHANGED <<found, dumpVars, updVars, injVars, crashes>>

\* Mutant: List may answer from a cache.
ScanOkStale ==
    /\ ObserverGoes("scan", IF args.dump THEN "mark" ELSE "send")
    /\ found' \in {version, IF version > 1 THEN version - 1 ELSE version}
    /\ UNCHANGED <<eventVars, dumpVars, updVars, injVars, crashes>>

\* List answers; the fingerprint is marked completed before the counting.
ScanOk ==
    /\ ObserverGoes("scan", IF args.dump THEN "mark" ELSE "send")
    /\ found' = version
    /\ UNCHANGED <<eventVars, dumpVars, updVars, injVars, crashes>>

\* Mutant: the loop goes on after a failed scan without saying so.
ScanFailsSilently ==
    /\ ~ args.exposeTiming
    /\ ObserverGoes("scan", "select")
    /\ found' = 0
    /\ UNCHANGED <<eventVars, dumpVars, updVars, injVars, crashes>>

\* List fails or runs into its timeout: no MonitorInfo, and the condition is False.
ScanFails ==
    /\ ~ args.exposeTiming
    /\ ObserverGoes("scan", "report")
    /\ found' = 0
    /\ UNCHANGED <<eventVars, dumpVars, updVars, injVars, crashes>>

\* The same with exposeTiming: the timing goes into the nil map of a failed scan's
\* response before the error is looked at, and the process panics.
ScanPanics ==
    /\ args.exposeTiming
    /\ obsPc = "scan"
    /\ Restart
    /\ UNCHANGED crashes

\* MarkCompleted sends the status to the sink; dumpLoop receives it.
MarkCompleted ==
    /\ ObserverGoes("mark", "send")
    /\ dumpPc = "receive"
    /\ dumpPc' = "create"
    /\ UNCHANGED <<found, eventVars, temp, target, updVars, injVars, crashes>>

\* rm.infoChan <- monInfo, received by the updater.
SendInfo ==
    /\ ObserverGoes("send", "report")
    /\ UNCHANGED <<found, eventVars, dumpVars, published, injVars, crashes>>
    /\ P!Take(found)

ObserverReport ==
    /\ ObserverGoes("report", "select")
    /\ SetCondition("PodresourcesFetched", found # 0)
    /\ found' = 0
    /\ UNCHANGED <<eventVars, dumpVars, updVars, crashes>>

----------------------------------------------------------------------------
(* dumpLoop and ToFile: a temporary file in the same directory, renamed.     *)

DumpStep(from, to) ==
    /\ dumpPc = from /\ dumpPc' = to
    /\ UNCHANGED <<args, podVars, eventVars, obsVars, updVars, injVars, crashes>>

\* Mutant: the status file itself is written.
DumpCreateInPlace ==
    DumpStep("create", "write") /\ temp' = "partial" /\ target' = "partial"

DumpCreate == DumpStep("create", "write") /\ temp' = "partial" /\ UNCHANGED target

\* Write and Close.
DumpWrite == DumpStep("write", "rename") /\ temp' = "whole" /\ UNCHANGED target

DumpRename == DumpStep("rename", "receive") /\ temp' = "none" /\ target' = temp

\* Mutant: a failed dump is tried again before the next status is received.
DumpFailsRetries ==
    /\ dumpPc # "receive"
    /\ DumpStep(dumpPc, "create") /\ temp' = "none" /\ UNCHANGED target

\* An error of any step: the temporary file is removed, the loop goes on.
DumpFails ==
    /\ dumpPc # "receive"
    /\ DumpStep(dumpPc, "receive") /\ temp' = "none" /\ UNCHANGED target

DumpLoop == DumpCreate \/ DumpWrite \/ DumpRename \/ DumpFails

----------------------------------------------------------------------------
(* NRTUpdater.Run.                                                           *)

\* What the object may show after a step of Update().
Publishing(versions) ==
    /\ published' \in versions
    /\ UNCHANGED <<args, podVars, eventVars, obsVars, dumpVars, injVars, crashes>>

UpdateOk == Publishing({updInfo}) /\ P!Succeed

UpdateFails == Publishing({published}) /\ P!Fail

UpdateLost == Publishing({updInfo}) /\ P!Lost

\* A patch against a prevNRT the object has left behind succeeds and leaves the
\* object as it was, or with parts of both.
UpdateMisled == Publishing(0 .. updInfo) /\ P!Misled

\* The same, or the whole object, when the patch's answer is lost: the full update
\* is still to come.
UpdateLands == Publishing(0 .. updInfo) /\ P!Lands

\* Mutant: only failures are reported.
UpdaterReportFailures ==
    /\ ~ updOk
    /\ SetCondition("NodeTopologyUpdated", FALSE)
    /\ UNCHANGED <<args, podVars, eventVars, obsVars, dumpVars, published, crashes>>
    /\ P!Report

UpdaterReport ==
    /\ SetCondition("NodeTopologyUpdated", updOk)
    /\ UNCHANGED <<args, podVars, eventVars, obsVars, dumpVars, published, crashes>>
    /\ P!Report

----------------------------------------------------------------------------

Observer ==
    Wake \/ ScanOk \/ ScanFails \/ ScanPanics \/ MarkCompleted \/ SendInfo \/ ObserverReport

\* Update() returns, or its outcome is reported.
Updater == UpdateOk \/ UpdateFails \/ UpdateLost \/ UpdateMisled \/ UpdaterReport

Next ==
    PodsChange \/ Tick \/ Killed \/ Observer \/ DumpLoop \/ Updater \/ UpdateLands \/ Injected

(***************************************************************************)
(* The goroutines run and calls return, List after its timeout at the      *)
(* latest.  A goroutine that waits for a reader gets its turn.  The ticker *)
(* ticks.  Calls do not fail for ever: a scan or an update that is tried   *)
(* again and again succeeds again and again (a patch is replaced by a full *)
(* update after PatchResync, see NRTUpdater).                              *)
(***************************************************************************)
Fairness ==
    /\ WF_vars(Tick)
    /\ SF_vars(Observer) /\ SF_vars(ScanOk)
    /\ SF_vars(Updater) /\ SF_vars(UpdateOk)
    /\ WF_vars(DumpLoop)
    /\ WF_vars(Injected)

Spec == Init /\ [][Next]_vars /\ Fairness

----------------------------------------------------------------------------
(* Properties.                                                               *)

(***************************************************************************)
(* The exporter is never behind in silence: when all loops rest and no     *)
(* scan is owed, the NRT object shows at least the state of the last       *)
(* notification, or one of the two readiness conditions is False.  The     *)
(* exceptions are named: no readiness conditions, -oneshot, and an object  *)
(* left in doubt by a lost answer.                                         *)
(***************************************************************************)
NeverSilent ==
    (/\ args.readiness /\ ~ args.oneshot /\ ~ doubt
     /\ obsPc = "select" /\ updPc = "select" /\ ~ owed) =>
        published >= notified \/ failing # {}

(***************************************************************************)
(* The published state never moves back, over all restarts, as long as no  *)
(* lost answer has left the object in doubt.                               *)
(***************************************************************************)
PublishedForward == [][doubt \/ published' >= published]_published

(***************************************************************************)
(* Whoever reads the status file finds a whole status, also after a crash  *)
(* in the middle of a dump, and a loop that rests leaves no temporary file *)
(* behind.                                                                 *)
(***************************************************************************)
DumpFileWhole == target # "partial" /\ (dumpPc = "receive" => temp = "none")

(***************************************************************************)
(* The observer comes back for the next event: dump loop, updater and      *)
(* injector never block it for good, whatever fails.  The fairness of      *)
(* EventPipeline relies on this.                                           *)
(***************************************************************************)
ObserverReturns == (obsPc # "select") ~> (obsPc = "select")

(***************************************************************************)
(* Every state of the pods is eventually published, or a later one, with   *)
(* or without a notification and in spite of the panics.                   *)
(***************************************************************************)
EventuallyPublished == \A v \in 1 .. MaxVersion : (version = v) ~> (published >= v)

(***************************************************************************)
(* Both conditions are reported again and again, which the fairness of     *)
(* ConditionInjector relies on.  With -oneshot the updater reports         *)
(* nothing, and with exposeTiming every failed scan kills the process,     *)
(* each time perhaps before the updater has reported.                      *)
(***************************************************************************)
ReportsKeepComing ==
    (args.readiness /\ ~ args.oneshot /\ ~ args.exposeTiming) =>
        []<><<ObserverReport>>_vars /\ []<><<UpdaterReport>>_vars

============================================================================
