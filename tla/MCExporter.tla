----------------------------- MODULE MCExporter -----------------------------
(***************************************************************************)
(* Configurations in which every switch meets every other one in both      *)
(* positions.                                                              *)
(***************************************************************************)
EXTENDS Exporter

Switch(timing, ready, dump, once) ==
    [exposeTiming |-> timing, readiness |-> ready, dump |-> dump, oneshot |-> once]

MCSwitches ==
    {Switch(FALSE, TRUE, TRUE, FALSE), Switch(FALSE, FALSE, FALSE, TRUE),
     Switch(TRUE, TRUE, FALSE, TRUE), Switch(TRUE, FALSE, TRUE, TRUE),
     Switch(TRUE, FALSE, FALSE, FALSE)}

=============================================================================
