------------------------------ MODULE Wakeups ------------------------------
(***************************************************************************)
(* What the event source, with or without its rate limiter, promises to    *)
(* the one who reads its events.  However many notifications and ticks     *)
(* there are and whichever of them are merged or dropped on the way:       *)
(*   - the reader wakes up only for an event;                              *)
(*   - from a notification on, an event is pending until the reader next   *)
(*     wakes up, so that a scan that starts after the notification follows *)
(*     it;                                                                 *)
(*   - nobody wakes up after Stop() and Wait() have returned.              *)
(* EventPipeline implements this specification, Exporter builds on it.     *)
(***************************************************************************)

VARIABLES
    pending,   \* an event is on its way to the reader
    owed,      \* no scan has started since the last notification
    reader,    \* the reader waits for an event, is busy with a scan, or left
    source     \* whether the source runs, is being stopped, or has stopped

wakeupVars == <<pending, owed, reader, source>>

TypeOK ==
    /\ pending \in BOOLEAN
    /\ owed \in BOOLEAN
    /\ reader \in {"select", "scan", "exited"}
    /\ source \in {"running", "stopping", "stopped"}

\* The initial event is pending and the first scan owed.
Init ==
    /\ pending = TRUE
    /\ owed = TRUE
    /\ reader = "select"
    /\ source = "running"

\* A tick or a notification; only a notification has a scan owed.
Announce ==
    /\ pending' = TRUE
    /\ owed' \in {owed, TRUE}
    /\ UNCHANGED <<reader, source>>

\* The reader takes one of the pending events; it may have been the only one.
Wake ==
    /\ pending
    /\ reader = "select"
    /\ source # "stopped"
    /\ reader' = "scan"
    /\ owed' = FALSE
    /\ pending' \in BOOLEAN
    /\ UNCHANGED source

Scanned ==
    /\ reader = "scan"
    /\ reader' = "select"
    /\ UNCHANGED <<pending, owed, source>>

ReaderLeaves ==
    /\ reader = "select"
    /\ reader' = "exited"
    /\ UNCHANGED <<pending, owed, source>>

StopCalled ==
    /\ source = "running"
    /\ source' = "stopping"
    /\ UNCHANGED <<pending, owed, reader>>

StopReturned ==
    /\ source = "stopping"
    /\ source' = "stopped"
    /\ UNCHANGED <<pending, owed, reader>>

Next == Announce \/ Wake \/ Scanned \/ ReaderLeaves \/ StopCalled \/ StopReturned

Spec == Init /\ [][Next]_wakeupVars

\* A scan that is owed starts, unless the reader leaves or the source is stopped.
OwedScanStarts == owed ~> (~ owed \/ source # "running" \/ reader = "exited")

\* Stop() and Wait() return while there is a reader.
StopEnds == (source = "stopping") ~> (source = "stopped" \/ reader = "exited")

============================================================================
