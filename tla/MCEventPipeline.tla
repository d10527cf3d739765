-------------------------- MODULE MCEventPipeline --------------------------
(***************************************************************************)
(* An instance of EventPipeline: one notification file, spelled the way    *)
(* the watcher reports it, which is written or removed.                    *)
(***************************************************************************)
EXTENDS EventPipeline

MCNotifyFiles == {"p"}
MCCleanPath == [p \in MCNotifyFiles |-> p]
MCOpSets == {{"Write"}, {"Remove"}}

============================================================================
