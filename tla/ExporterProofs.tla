--------------------------- MODULE ExporterProofs ---------------------------
(***************************************************************************)
(* Proofs about Exporter, for every set of configurations and any number   *)
(* of changes and crashes.                                                 *)
(***************************************************************************)
EXTENDS Exporter, TLAPS

\* Initially the variables have their types.
LEMMA TypeInit == Init => TypeOK
<1>1. 0 \in Version /\ 1 \in Version /\ 0 \in 0 .. MaxCrashes
  BY ExporterAssumption DEF ExporterAssumption, Version
<1> QED
  BY <1>1 DEF Init, TypeOK, Types, File

\* A step of Update() takes what the object shows at most up to its MonitorInfo.
LEMMA UpdateStep ==
    ASSUME TypeOK, UpdateOk \/ UpdateFails \/ UpdateLost \/ UpdateMisled \/ UpdateLands
    PROVE  /\ published' \in 0 .. updInfo \/ published' = published
           /\ published' \in Version
           /\ updPc = "update"
           /\ doubt' \in BOOLEAN
           /\ UNCHANGED <<args, podVars, eventVars, obsVars, dumpVars, injVars, crashes>>
<1> USE DEF UpdateOk, UpdateFails, UpdateLost, UpdateMisled, UpdateLands, Publishing, TypeOK
<1>1. published' \in 0 .. updInfo \/ published' = published
  BY DEF Version
<1>2. published' \in Version
  BY <1>1, ExporterAssumption DEF ExporterAssumption, Version
<1>3. UNCHANGED <<args, podVars, eventVars, obsVars, dumpVars, injVars, crashes>>
  OBVIOUS
<1>4. updPc = "update" /\ doubt' \in BOOLEAN
  BY DEF P!Succeed, P!Fail, P!Lost, P!Misled, P!Lands
<1> QED
  BY <1>1, <1>2, <1>3, <1>4

\* Update() returns, and but for -oneshot its outcome is to be reported.
LEMMA UpdateReturns ==
    ASSUME UpdateOk \/ UpdateFails \/ UpdateLost \/ UpdateMisled
    PROVE  /\ updPc' = IF args.oneshot THEN "select" ELSE "report"
           /\ updInfo' = 0
           /\ updOk' \in BOOLEAN
BY DEF UpdateOk, UpdateFails, UpdateLost, UpdateMisled, P!Succeed, P!Fail, P!Lost, P!Misled,
   P!Return

\* What a success and what a failure of Update() mean.
LEMMA UpdateOutcome ==
    /\ UpdateOk => published' = updInfo
    /\ UpdateFails \/ UpdateLost => ~ updOk'
    /\ UpdateMisled => doubt'
BY DEF UpdateOk, UpdateFails, UpdateLost, UpdateMisled, Publishing, P!Fail, P!Lost, P!Misled, P!Return

\* Update() goes on after a patch whose answer was lost.
LEMMA UpdateStays == UpdateLands => UNCHANGED <<updPc, updInfo, updOk>> /\ doubt'
BY DEF UpdateLands, P!Lands

\* Every step keeps the types.
LEMMA TypeStep == TypeOK /\ [Next]_vars => TypeOK'
<1> USE DEF TypeOK, Types, File
<1> SUFFICES ASSUME TypeOK, [Next]_vars PROVE TypeOK'
  OBVIOUS
<1>0. 0 \in Version
  BY ExporterAssumption DEF ExporterAssumption, Version
<1> USE DEF podVars, eventVars, obsVars, dumpVars, updVars, injVars
<1>1. CASE PodsChange
  <2>1. version' \in Version
    BY <1>1, ExporterAssumption DEF ExporterAssumption, PodsChange, Version
  <2>2. UNCHANGED <<args, obsVars, dumpVars, updVars, injVars, crashes>>
    BY <1>1 DEF PodsChange
  <2>3. notified' \in Version /\ pending' \in BOOLEAN /\ owed' \in BOOLEAN
    BY <1>1, <2>1 DEF PodsChange, W!Announce
  <2> QED
    BY <2>1, <2>2, <2>3
<1>2. CASE Tick
  BY <1>2 DEF Tick, W!Announce
<1>3. CASE Killed
  <2>1. crashes' \in 0 .. MaxCrashes
    BY <1>3, ExporterAssumption DEF ExporterAssumption, Killed
  <2> QED
    BY <1>0, <1>3, <2>1 DEF Killed, Restart, Started, P!Restart
<1>4. CASE Observer
  <2> USE DEF ObserverGoes, SetCondition
  <2>1. CASE Wake
    BY <2>1 DEF Wake, W!Wake
  <2>2. CASE ScanOk \/ ScanFails
    <3>1. /\ found' \in Version
          /\ obsPc' \in {"mark", "send", "report"}
          /\ UNCHANGED <<args, podVars, eventVars, dumpVars, updVars, injVars, crashes>>
      BY <1>0, <2>2 DEF ScanOk, ScanFails
    <3> QED
      BY <3>1
  <2>3. CASE ScanPanics
    BY <1>0, <2>3 DEF ScanPanics, Restart, Started, P!Restart
  <2>4. CASE MarkCompleted
    BY <2>4 DEF MarkCompleted
  <2>5. CASE SendInfo
    BY <2>5 DEF SendInfo, P!Take
  <2>6. CASE ObserverReport
    <3>1. /\ found' \in Version
          /\ obsPc' = "select"
          /\ UNCHANGED <<args, podVars, eventVars, dumpVars, updVars, crashes>>
      BY <1>0, <2>6 DEF ObserverReport
    <3>2. injPc' \in {"select", "inject"} /\ failing' \subseteq Types
      BY <2>6 DEF ObserverReport
    <3> QED
      BY <3>1, <3>2
  <2> QED
    BY <1>4, <2>1, <2>2, <2>3, <2>4, <2>5, <2>6 DEF Observer
<1>5. CASE DumpLoop
  <2>1. UNCHANGED <<args, podVars, eventVars, obsVars, updVars, injVars, crashes>>
    BY <1>5 DEF DumpLoop, DumpCreate, DumpWrite, DumpRename, DumpFails, DumpStep
  <2>2. dumpPc' \in {"receive", "create", "write", "rename"} /\ temp' \in File /\ target' \in File
    BY <1>5 DEF DumpLoop, DumpCreate, DumpWrite, DumpRename, DumpFails, DumpStep
  <2> QED
    BY <2>1, <2>2
<1>6. CASE Updater
  <2>1. CASE UpdateOk \/ UpdateFails \/ UpdateLost \/ UpdateMisled
    <3>1. /\ UNCHANGED <<args, podVars, eventVars, obsVars, dumpVars, injVars, crashes>>
          /\ published' \in Version /\ doubt' \in BOOLEAN
      BY <2>1, UpdateStep
    <3>2. updPc' \in {"select", "report"} /\ updInfo' = 0 /\ updOk' \in BOOLEAN
      BY <2>1, UpdateReturns
    <3> QED
      BY <1>0, <3>1, <3>2
  <2>2. CASE UpdaterReport
    <3>1. /\ UNCHANGED <<args, podVars, eventVars, obsVars, dumpVars, updInfo, doubt, published,
                         crashes>>
          /\ updPc' = "select" /\ updOk' = FALSE
      BY <2>2 DEF UpdaterReport, P!Report
    <3>2. injPc' \in {"select", "inject"} /\ failing' \subseteq Types
      BY <2>2 DEF UpdaterReport, SetCondition
    <3> QED
      BY <3>1, <3>2
  <2> QED
    BY <1>6, <2>1, <2>2 DEF Updater
<1>7. CASE Injected
  BY <1>7 DEF Injected
<1>8. CASE UpdateLands
  <2>1. /\ UNCHANGED <<args, podVars, eventVars, obsVars, dumpVars, injVars, crashes>>
        /\ published' \in Version /\ doubt' \in BOOLEAN
    BY <1>8, UpdateStep
  <2>2. UNCHANGED <<updPc, updInfo, updOk>>
    BY <1>8, UpdateStays
  <2> QED
    BY <2>1, <2>2
<1>9. CASE UNCHANGED vars
  BY <1>9 DEF vars
<1> QED
  BY <1>1, <1>2, <1>3, <1>4, <1>5, <1>6, <1>7, <1>8, <1>9 DEF Next

\* TypeOK: the loops are where the code can be and the versions are versions.
THEOREM TypeCorrect == Spec => []TypeOK
BY TypeInit, TypeStep, PTL DEF Spec

----------------------------------------------------------------------------

(***************************************************************************)
(* The status file is renamed only from a temporary file that is whole.    *)
(***************************************************************************)
DumpInv == DumpFileWhole /\ (dumpPc = "rename" => temp = "whole")

\* Every step keeps the files as DumpInv says.
LEMMA DumpStepInv == DumpInv /\ [Next]_vars => DumpInv'
<1> USE DEF DumpInv, DumpFileWhole
<1> SUFFICES ASSUME DumpInv, [Next]_vars PROVE DumpInv'
  OBVIOUS
<1>1. CASE DumpLoop
  BY <1>1 DEF DumpLoop, DumpCreate, DumpWrite, DumpRename, DumpFails, DumpStep
<1>2. CASE Killed \/ ScanPanics
  BY <1>2 DEF Killed, ScanPanics, Restart, Started
<1>3. CASE MarkCompleted
  BY <1>3 DEF MarkCompleted
<1>4. CASE UNCHANGED dumpVars
  BY <1>4 DEF dumpVars
<1>5. CASE UNCHANGED vars
  BY <1>5 DEF vars, dumpVars
<1> QED
  BY <1>1, <1>2, <1>3, <1>4, <1>5 DEF Next, Observer, Updater, PodsChange, Tick, Wake, ScanOk,
     ScanFails, SendInfo, ObserverReport, UpdateOk, UpdateFails, UpdateLost, UpdateMisled,
     UpdateLands, Publishing, UpdaterReport, Injected

(***************************************************************************)
(* Write-then-rename keeps the status file whole at every moment, crashes  *)
(* in the middle of a dump included.                                       *)
(***************************************************************************)
THEOREM StatusFileIsWhole == Spec => []DumpFileWhole
<1>1. Init => DumpInv
  BY DEF Init, DumpInv, DumpFileWhole
<1>2. DumpInv => DumpFileWhole
  BY DEF DumpInv
<1> QED
  BY <1>1, <1>2, DumpStepInv, PTL DEF Spec

----------------------------------------------------------------------------

(***************************************************************************)
(* The versions along the way from the kubelet to the API server only fall *)
(* from step to step: what is published is not newer than what the updater *)
(* holds, that is not newer than what the observer holds, and that is not  *)
(* newer than what the kubelet would say.                                  *)
(***************************************************************************)
Chain ==
    /\ notified <= version
    /\ published <= version
    /\ updPc = "update" => published <= updInfo /\ updInfo <= version
    /\ obsPc \in {"mark", "send"} =>
          found <= version /\ published <= found /\ (updPc = "update" => updInfo <= found)

\* Every step keeps the order of the versions.
LEMMA ChainStep == TypeOK /\ Chain /\ [Next]_vars => Chain'
<1> USE ExporterAssumption DEF ExporterAssumption, TypeOK, Chain, Version
<1> SUFFICES ASSUME TypeOK, Chain, [Next]_vars PROVE Chain'
  OBVIOUS
<1> USE DEF podVars, eventVars, obsVars, dumpVars, updVars, injVars
<1>1. CASE PodsChange
  <2>1. UNCHANGED <<obsPc, found, updPc, updInfo, published>> /\ version' = version + 1
    BY <1>1 DEF PodsChange
  <2>2. notified' \in {notified, version'}
    BY <1>1 DEF PodsChange
  <2> QED
    BY <2>1, <2>2
<1>2. CASE Tick \/ Injected
  BY <1>2 DEF Tick, Injected
<1>3. CASE Killed \/ ScanPanics
  BY <1>3 DEF Killed, ScanPanics, Restart, Started, P!Restart
<1>4. CASE Wake \/ ScanOk \/ ScanFails
  BY <1>4 DEF ObserverGoes, Wake, ScanOk, ScanFails
<1>5. CASE MarkCompleted \/ SendInfo \/ ObserverReport
  BY <1>5 DEF ObserverGoes, MarkCompleted, SendInfo, ObserverReport, P!Take
<1>6. CASE DumpLoop
  BY <1>6 DEF DumpLoop, DumpCreate, DumpWrite, DumpRename, DumpFails, DumpStep
<1>7. CASE UpdateOk \/ UpdateFails \/ UpdateLost \/ UpdateMisled
  BY <1>7, UpdateStep, UpdateReturns
<1>8. CASE UpdateLands
  BY <1>8, UpdateStep, UpdateStays
<1>9. CASE UpdaterReport
  BY <1>9 DEF UpdaterReport, P!Report
<1>10. CASE UNCHANGED vars
  BY <1>10 DEF vars
<1> QED
  BY <1>1, <1>2, <1>3, <1>4, <1>5, <1>6, <1>7, <1>8, <1>9, <1>10 DEF Next, Observer, Updater

\* The order holds initially and in every reachable state.
LEMMA ChainAlways == Spec => []Chain
<1>1. Init => Chain
  BY DEF Init, Chain
<1> QED
  BY <1>1, ChainStep, TypeCorrect, PTL DEF Spec

(***************************************************************************)
(* The NRT object never moves back to an older state of the pods, over     *)
(* crashes and restarts, unless a lost answer has left it in doubt.        *)
(***************************************************************************)
THEOREM NeverBackwards == Spec => PublishedForward
<1>1. TypeOK /\ Chain /\ [Next]_vars => [doubt \/ published' >= published]_published
  <2> SUFFICES ASSUME TypeOK, Chain, [Next]_vars, published' # published, ~ doubt
               PROVE  published' >= published
    OBVIOUS
  <2>1. UpdateOk \/ UpdateLost \/ UpdateLands
    BY DEF Next, vars, podVars, eventVars, obsVars, dumpVars, updVars, injVars, PodsChange, Tick,
       Killed, Restart, Observer, Wake, ScanOk, ScanFails, ScanPanics, MarkCompleted, SendInfo,
       ObserverReport, DumpLoop, DumpCreate, DumpWrite, DumpRename, DumpFails, DumpStep, Updater,
       UpdateFails, UpdateMisled, P!Misled, Publishing, UpdaterReport, Injected
  <2>2. CASE UpdateOk \/ UpdateLost
    BY <2>2, UpdateStep DEF UpdateOk, UpdateLost, Publishing, Chain, TypeOK, Version
  <2>3. CASE UpdateLands
    <3>1. published' = updInfo
      BY <2>3 DEF UpdateLands, P!Lands
    <3> QED
      BY <2>3, <3>1, UpdateStep DEF Chain, TypeOK, Version
  <2> QED
    BY <2>1, <2>2, <2>3
<1> QED
  BY <1>1, ChainAlways, TypeCorrect, PTL DEF Spec, PublishedForward

----------------------------------------------------------------------------

(***************************************************************************)
(* Why the exporter is never behind in silence.  From the moment the scan  *)
(* for the last notification has started, that notification is taken care  *)
(* of: the scan is still running, its result is on its way, a failure is   *)
(* about to be reported or has been, or the updater has dealt with a state *)
(* that is recent enough.                                                  *)
(***************************************************************************)
UpdaterCovers ==
    \/ updPc = "update" /\ updInfo >= notified
    \/ updPc = "report" /\ (~ updOk \/ published >= notified \/ doubt)
    \/ updPc = "select" /\ (published >= notified \/ doubt \/ "NodeTopologyUpdated" \in failing)

Covered ==
    \/ obsPc = "scan"
    \/ obsPc \in {"mark", "send"} /\ found >= notified
    \/ obsPc = "report" /\ found = 0
    \/ obsPc \in {"report", "select"} /\ UpdaterCovers
    \/ obsPc = "select" /\ "PodresourcesFetched" \in failing

SilenceInv == (args.readiness /\ ~ args.oneshot /\ ~ owed) => Covered

\* Every step keeps the last notification taken care of.
LEMMA SilenceStep == TypeOK /\ Chain /\ SilenceInv /\ [Next]_vars => SilenceInv'
<1> SUFFICES ASSUME TypeOK, Chain, SilenceInv, [Next]_vars,
                    args'.readiness, ~ args'.oneshot, ~ owed'
             PROVE  Covered'
  BY DEF SilenceInv
<1> USE ExporterAssumption DEF ExporterAssumption, TypeOK, Version
<1>0. args' = args
  BY DEF Next, vars, PodsChange, Tick, Killed, Restart, Observer, Wake, ScanOk, ScanFails,
     ScanPanics, MarkCompleted, SendInfo, ObserverReport, ObserverGoes, DumpLoop, DumpCreate,
     DumpWrite, DumpRename, DumpFails, DumpStep, Updater, UpdateOk, UpdateFails, UpdateLost,
     UpdateMisled, UpdateLands, Publishing, UpdaterReport, Injected
<1> USE <1>0 DEF SilenceInv, Covered, UpdaterCovers, podVars, eventVars, obsVars, dumpVars,
                 updVars, injVars
<1>1. CASE PodsChange
  BY <1>1 DEF PodsChange
<1>2. CASE Tick
  BY <1>2 DEF Tick
<1>3. CASE Killed \/ ScanPanics
  BY <1>3 DEF Killed, ScanPanics, Restart, Started, P!Restart
<1>4. CASE Wake
  BY <1>4 DEF ObserverGoes, Wake
<1>5. CASE ScanOk
  BY <1>5 DEF ObserverGoes, ScanOk, Chain
<1>6. CASE ScanFails
  BY <1>6 DEF ObserverGoes, ScanFails
<1>7. CASE MarkCompleted
  BY <1>7 DEF ObserverGoes, MarkCompleted
<1>8. CASE SendInfo
  BY <1>8 DEF ObserverGoes, SendInfo, P!Take
<1>9. CASE ObserverReport
  BY <1>9 DEF ObserverGoes, ObserverReport, SetCondition
<1>10. CASE DumpLoop
  BY <1>10 DEF DumpLoop, DumpCreate, DumpWrite, DumpRename, DumpFails, DumpStep
<1>11. CASE UpdateOk
  BY <1>11, UpdateStep, UpdateReturns, UpdateOutcome
<1>12. CASE UpdateFails \/ UpdateLost \/ UpdateMisled
  BY <1>12, UpdateStep, UpdateReturns, UpdateOutcome
<1>13. CASE UpdaterReport
  BY <1>13 DEF UpdaterReport, SetCondition, P!Report
<1>14. CASE Injected
  BY <1>14 DEF Injected
<1>15. CASE UpdateLands
  BY <1>15, UpdateStep, UpdateStays
<1>16. CASE UNCHANGED vars
  BY <1>16 DEF vars
<1> QED
  BY <1>1, <1>2, <1>3, <1>4, <1>5, <1>6, <1>7, <1>8, <1>9, <1>10, <1>11, <1>12, <1>13, <1>14, <1>15,
     <1>16
     DEF Next, Observer, Updater

(***************************************************************************)
(* When all loops rest and no scan is owed, the NRT object shows the last  *)
(* notified state or a condition is False, whatever failed or crashed on   *)
(* the way; a lost answer, -oneshot and disabled conditions excepted.      *)
(***************************************************************************)
THEOREM NeverBehindInSilence == Spec => []NeverSilent
<1>1. Init => SilenceInv
  BY DEF Init, SilenceInv
<1>2. SilenceInv => NeverSilent
  BY DEF SilenceInv, Covered, UpdaterCovers, NeverSilent
<1> QED
  BY <1>1, <1>2, SilenceStep, ChainAlways, TypeCorrect, PTL DEF Spec

=============================================================================
