------------------------------ MODULE Publisher ------------------------------
(***************************************************************************)
(* What the updater's loop promises to those who hand it scan results and  *)
(* read the NRT object, however it talks to the API server:                *)
(*   - it takes one scan result at a time, and reports how it went;        *)
(*   - a success means that the object shows the result, unless the object *)
(*     was in doubt: an answer was lost or somebody else wrote to it;      *)
(*   - a failure leaves the object as it was, or leaves it in doubt;       *)
(*   - a restart takes away the doubt, a misled success does not.          *)
(* NRTUpdater implements this specification, Exporter builds on it.        *)
(***************************************************************************)

CONSTANTS
    Infos,     \* the scan results
    Nothing    \* no scan result

VARIABLES
    publish,   \* not NoPublish
    oneshot,   \* Oneshot
    phase,     \* waiting for a result, in Update(), or about to report
    given,     \* the result Update() was called with
    ok,        \* what there is to report
    shown,     \* the results the object shows: publishing one again changes nothing
    doubt      \* a success may not mean that the object shows the result

publisherVars == <<publish, oneshot, phase, given, ok, shown, doubt>>

Init ==
    /\ publish \in BOOLEAN
    /\ oneshot \in BOOLEAN
    /\ phase = "select"
    /\ given = Nothing
    /\ ok = FALSE
    /\ shown = {}
    /\ doubt = FALSE

SameArgs == publish' = publish /\ oneshot' = oneshot

Take(mi) ==
    /\ phase = "select"
    /\ publish
    /\ phase' = "update"
    /\ given' = mi
    /\ SameArgs
    /\ UNCHANGED <<ok, shown, doubt>>

\* Update() returns; with Oneshot nothing is reported.
Return(good) ==
    /\ phase' = IF oneshot THEN "select" ELSE "report"
    /\ given' = Nothing
    /\ ok' = (good /\ ~ oneshot)
    /\ SameArgs

\* NoPublish: a result is dropped, with success.
Skip ==
    /\ phase = "select"
    /\ ~ publish
    /\ Return(TRUE)
    /\ UNCHANGED <<shown, doubt>>

Succeed ==
    /\ phase = "update"
    /\ Return(TRUE)
    /\ given \in shown'
    /\ doubt' = FALSE

\* A patch computed from an object the server has not: anything may come out.
Misled ==
    /\ phase = "update"
    /\ doubt
    /\ Return(TRUE)
    /\ shown' \subseteq Infos
    /\ doubt' = TRUE

Fail ==
    /\ phase = "update"
    /\ Return(FALSE)
    /\ UNCHANGED <<shown, doubt>>

\* The last write took effect, but its answer was lost.
Lost ==
    /\ phase = "update"
    /\ Return(FALSE)
    /\ given \in shown'
    /\ doubt' = TRUE

\* A patch took effect, its answer was lost, and Update() tries something else.
Lands ==
    /\ phase = "update"
    /\ shown' \subseteq Infos
    /\ doubt \/ given \in shown'
    /\ doubt' = TRUE
    /\ SameArgs
    /\ UNCHANGED <<phase, given, ok>>

Report ==
    /\ phase = "report"
    /\ phase' = "select"
    /\ ok' = FALSE
    /\ SameArgs
    /\ UNCHANGED <<given, shown, doubt>>

Stop ==
    /\ phase = "select"
    /\ phase' = "stopped"
    /\ SameArgs
    /\ UNCHANGED <<given, ok, shown, doubt>>

\* The process starts again, perhaps with other arguments.
Restart ==
    /\ publish' \in BOOLEAN
    /\ oneshot' \in BOOLEAN
    /\ phase' = "select"
    /\ given' = Nothing
    /\ ok' = FALSE
    /\ doubt' = FALSE
    /\ UNCHANGED shown

\* Somebody else writes to the object, or deletes it.
Disturbed ==
    /\ \/ shown' \subseteq Infos /\ doubt' = TRUE
       \/ shown' = {} /\ UNCHANGED doubt
    /\ SameArgs
    /\ UNCHANGED <<phase, given, ok>>

Next ==
    \/ \E mi \in Infos : Take(mi)
    \/ Skip \/ Succeed \/ Misled \/ Fail \/ Lost \/ Lands
    \/ Report \/ Stop \/ Restart \/ Disturbed

Spec == Init /\ [][Next]_publisherVars

============================================================================
