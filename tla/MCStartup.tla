----------------------------- MODULE MCStartup -----------------------------
(***************************************************************************)
(* Scenarios for Startup: one field at a time is set by any combination of *)
(* sources, and a few scenarios set several fields or spoil a file.        *)
(***************************************************************************)
EXTENDS Startup, TLC

MCFields == {"debug", "hostname", "metricsMode", "metricsPort", "referenceContainer",
             "maxEventsPerTimeUnit", "topologyManagerPolicy", "topologyManagerScope",
             "podSetFingerprintStatusFile", "podReadinessEnable"}

MCValues == {Zero, Default, IllTyped, Odd, Incomplete, MinusOne, OSHostname,
             "main", "let1", "let2", "extra", "env", "flag"}

Nothing == <<>>
One(f, v) == f :> v
Say(f, vs) == {Nothing} \cup {One(f, v) : v \in vs}

\* What a source of field f may say.
FileValues(f, own) ==
    {own, Zero} \cup (IF f = "referenceContainer" THEN {Incomplete, Odd}
                      ELSE IF f = "maxEventsPerTimeUnit" THEN {MinusOne, IllTyped} ELSE {})

NoCmd == [given |-> Nothing, params |-> 0, version |-> FALSE, dump |-> "none"]

Plain == [main |-> Nothing, dir |-> TRUE, lets |-> <<>>, rootExtra |-> Missing,
          configExtra |-> Missing, env |-> Nothing, cmd |-> NoCmd, osHostname |-> OSHostname]

\* One field, any combination of sources.
OneField ==
    UNION {{[Plain EXCEPT !.main = m, !.lets = <<l>>, !.configExtra = x, !.env = e,
                          !.cmd.given = g] :
               m \in Say(f, FileValues(f, "main")), l \in Say(f, {"let1", Zero}),
               x \in Say(f, IF f \in ExtraFields THEN {"extra", IllTyped} ELSE {}),
               e \in Say(f, IF f \in EnvFields THEN {"env", Zero, IllTyped, Incomplete, Odd} ELSE {}),
               g \in Say(f, IF f \in FlagFields THEN {"flag", Zero} ELSE {})} :
           f \in {"debug", "hostname", "metricsPort", "referenceContainer",
                  "maxEventsPerTimeUnit", "topologyManagerPolicy"}}

\* Files that are missing, spoiled or not regular; two configlets.
Spoiled ==
    {[Plain EXCEPT !.main = m, !.dir = d, !.lets = <<l1, l2>>, !.rootExtra = x, !.cmd.params = n,
                   !.osHostname = h] :
        m \in {One("hostname", "main"), Missing, Unreadable}, d \in BOOLEAN,
        l1 \in {One("hostname", "let1"), Irregular, Unreadable, One("metricsPort", "let1")},
        l2 \in {One("hostname", "let2"), One("metricsPort", IllTyped)},
        x \in {Missing, Unreadable, One("topologyManagerScope", "extra")},
        n \in 0 .. 2, h \in {OSHostname, Zero}}

\* What decides how the exporter is wired up.
Wirings ==
    {[Plain EXCEPT !.cmd = [given |-> One("podReadinessEnable", r) @@ One("metricsMode", mode) @@ tms,
                            params |-> 0, version |-> v, dump |-> dump],
                   !.env = file, !.main = One("maxEventsPerTimeUnit", max)] :
        r \in {Zero, IllTyped, "flag"}, mode \in {"flag", Odd, Default},
        tms \in {Nothing, One("topologyManagerPolicy", "flag"),
                 One("topologyManagerPolicy", "flag") @@ One("topologyManagerScope", "flag")},
        v \in BOOLEAN, dump \in {"none", "andexit", "file"},
        file \in {Nothing, One("podSetFingerprintStatusFile", "env")}, max \in {"main", Zero}}

\* The environment alone: a port for the metrics, and one or both of the topology
\* manager's settings.
MCProvided ==
    {[Plain EXCEPT !.env = e] :
        e \in {Nothing, One("metricsPort", "env"), One("topologyManagerPolicy", "env"),
               One("topologyManagerPolicy", "env") @@ One("topologyManagerScope", "env")}}

MCScenarios == OneField \cup Spoiled \cup Wirings
MCRewrites == {Missing, One("hostname", "let2")}

============================================================================
