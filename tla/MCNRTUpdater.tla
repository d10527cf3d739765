--------------------------- MODULE MCNRTUpdater ---------------------------
(***************************************************************************)
(* Instances of NRTUpdater: scans that differ in their zones, in their     *)
(* fingerprint, in both or in their trigger, one of them without a         *)
(* fingerprint, and one path that belongs to others.                       *)
(***************************************************************************)
EXTENDS NRTUpdater, TLC

MCInfo(timer, z, f) ==
    [timer |-> timer, zones |-> z, attributes |-> "a", annotations |-> ("pfp" :> f)]

MCInfos == {MCInfo(FALSE, "v1", "v1"), MCInfo(FALSE, "v1", "v2"),
            MCInfo(TRUE, "v2", "v1"), MCInfo(FALSE, "v2", Absent)}

MCTMAppend == [v \in {"v1", "v2", "a", "a+tm"} |-> "a+tm"]

MCArgs == [patchMode : BOOLEAN, noPublish : {FALSE}, oneshot : {FALSE}]
            \cup [patchMode : {FALSE}, noPublish : {FALSE}, oneshot : {TRUE}]
            \cup [patchMode : {TRUE}, noPublish : {TRUE}, oneshot : {TRUE}]
MCPatchArgs == [patchMode : {TRUE}, noPublish : {FALSE}, oneshot : {FALSE}]

============================================================================
