------------------------------ MODULE Startup ------------------------------
(***************************************************************************)
(* main() and Execute(): from the arguments LoadArgs returns to a running  *)
(* exporter.  Every step may end the process; klog.Fatalf does not wait    *)
(* for the goroutines started so far.  The Kubernetes API, the kubelet's   *)
(* podresources socket and the local files are external: a call to them    *)
(* fails or succeeds, and the first List waits until the socket serves.    *)
(***************************************************************************)
EXTENDS Config

\* A value that came with the arguments is told from one the kubelet gave.
ASSUME StartupAssumption == "hostname" \in Fields /\ "kubelet" \notin Values

VARIABLES
    pc,          \* where main() is
    serving,     \* the kubelet serves the podresources API
    tm,          \* the topology manager's settings the updater will publish
    channels,    \* the channels some goroutine will send on
    goroutines   \* what runs besides main()

vars == <<configVars, pc, serving, tm, channels, goroutines>>

NoTM == [policy |-> Zero, scope |-> Zero]
KubeletTM == [policy |-> "kubelet", scope |-> "kubelet"]

\* Who receives from a channel.
Reader == [completionSink |-> "dumpLoop", condChan |-> "injector", eventChan |-> "observer",
           infoChan |-> "updater", inCh |-> "rateLimiter"]

TypeOK ==
    /\ ConfigTypeOK
    /\ pc \in {"load", "clients", "podres", "waitForReady", "middleware", "metrics",
               "metricsServer", "pfpdump", "topologyManager", "nodeGetter", "podReadiness",
               "eventSource", "observer", "updater", "source", "running", "exited", "fatal"}
    /\ serving \in BOOLEAN
    /\ tm \in [policy : Values \cup {"kubelet"}, scope : Values \cup {"kubelet"}]
    /\ channels \subseteq DOMAIN Reader
    /\ goroutines \subseteq {"metricsServer", "nodeInformer", "source"} \cup {Reader[ch] : ch \in DOMAIN Reader}

Init ==
    /\ ConfigInit
    /\ pc = "load"
    /\ serving \in BOOLEAN
    /\ tm = NoTM
    /\ channels = {}
    /\ goroutines = {}

----------------------------------------------------------------------------

\* An argument; where an instance does not look at f, f has its default.
Arg(f) == IF f \in Fields THEN pArgs[f] ELSE IF f \in DefaultFields THEN Default ELSE Zero
Enabled(f) == Arg(f) # Zero
If(f, set) == IF Enabled(f) THEN set ELSE {}

\* main() goes from one step to the next, makes channels and starts goroutines.
Goes(from, to, made, started) ==
    /\ pc = from
    /\ pc' = to
    /\ channels' = channels \cup made
    /\ goroutines' = goroutines \cup started
    /\ UNCHANGED <<configVars, serving>>

Passes(from, to) == Goes(from, to, {}, {}) /\ UNCHANGED tm

\* klog.Fatalf, or Execute returned an error.
Fatal(from) == Passes(from, "fatal")

----------------------------------------------------------------------------
(* main().                                                                   *)

LoadFails == cfgPc = "failed" /\ Fatal("load")

\* -dump-config, then -version.
Loaded ==
    /\ cfgPc \in {"loaded", "version"}
    /\ \/ Passes("load", IF inputs.cmd.dump = "andexit" \/ cfgPc = "version"
                         THEN "exited" ELSE "clients")
       \/ inputs.cmd.dump = "file" /\ Fatal("load")

\* GetK8sClient and GetTopologyClient.
GetClients == Passes("clients", "podres") \/ Fatal("clients")

\* GetClient: the protocol has to be known, and gRPC dials in the background.
GetPodResClient ==
    \/ Arg("podResourcesSocketPath") \notin {Odd, Zero} /\ Passes("podres", "waitForReady")
    \/ Fatal("podres")

\* Mutant: to wait for the socket to appear misses one that is already there.
WaitForReadyNew ==
    /\ pc = "waitForReady" /\ ~ serving
    /\ pc' = "middleware" /\ serving' = TRUE
    /\ UNCHANGED <<configVars, tm, channels, goroutines>>

\* WaitForReady: the first List waits for the socket without a time limit.
WaitForReady == serving /\ (Passes("waitForReady", "middleware") \/ Fatal("waitForReady"))

\* The filters of ScanInput.  terminalpods starts its factory before it has an
\* informer: nothing runs, and there is no cache that could fail to sync.
StackMiddleware == Passes("middleware", "metrics")

\* NODE_NAME, as os.Getenv sees it.
NodeName == IF "hostname" \in DOMAIN inputs.env THEN inputs.env["hostname"] ELSE Zero

\* metrics.nodeName: NODE_NAME if it is set, though it may be empty.
MetricsName == IF "hostname" \in DOMAIN inputs.env THEN NodeName ELSE inputs.osHostname

\* Mutant: the error of os.Hostname is lost here, too.
SetUpMetricsLenient == Passes("metrics", "metricsServer")

\* metrics.Setup fails when os.Hostname does.
SetUpMetrics == IF MetricsName = Zero /\ "hostname" \notin DOMAIN inputs.env
                THEN Fatal("metrics") ELSE Passes("metrics", "metricsServer")

\* metricssrv.Setup, disabled by default; an error of the server itself is only
\* logged by its goroutine.
SetUpMetricsServer ==
    IF Arg("metricsMode") = Default THEN Passes("metricsServer", "pfpdump")
    ELSE \/ /\ Arg("metricsPort") \notin {Zero, MinusOne}
            /\ Goes("metricsServer", "pfpdump", {}, {"metricsServer"})
            /\ UNCHANGED tm
         \/ Fatal("metricsServer")

\* Mutant: the sink is set before the status file is looked at.
StartPfpDumpEarlySink ==
    /\ Goes("pfpdump", "topologyManager", If("podSetFingerprint", {"completionSink"}),
            If("podSetFingerprint", If("podSetFingerprintStatusFile", {"dumpLoop"})))
    /\ UNCHANGED tm

\* pfpdump.Execute.
StartPfpDump ==
    /\ Goes("pfpdump", "topologyManager",
            If("podSetFingerprint", If("podSetFingerprintStatusFile", {"completionSink"})),
            If("podSetFingerprint", If("podSetFingerprintStatusFile", {"dumpLoop"})))
    /\ UNCHANGED tm

----------------------------------------------------------------------------
(* Execute().                                                                *)

\* The settings, if both are given; otherwise both come from the kubelet.
GivenTM ==
    IF Enabled("topologyManagerPolicy") /\ Enabled("topologyManagerScope")
    THEN [policy |-> Arg("topologyManagerPolicy"), scope |-> Arg("topologyManagerScope")]
    ELSE KubeletTM

\* getTopologyManagerSettings: to read the kubelet's file may fail.
GetTopologyManagerSettings ==
    \/ /\ GivenTM = KubeletTM => Enabled("kubeletConfigFile")
       /\ Goes("topologyManager", "nodeGetter", {}, {})
       /\ tm' = GivenTM
    \/ GivenTM = KubeletTM /\ Fatal("topologyManager")

\* NewCachedNodeGetter lists the Nodes, once.
GetNodes ==
    \/ Passes("nodeGetter", "podReadiness")
    \/ Enabled("addNRTOwnerEnable") /\ Fatal("nodeGetter")

\* NewConditionInjector needs two variables of the environment.
StartInjector ==
    \/ /\ Goes("podReadiness", "eventSource", If("podReadinessEnable", {"condChan"}),
               If("podReadinessEnable", {"injector"}))
       /\ UNCHANGED tm
    \/ Enabled("podReadinessEnable") /\ Fatal("podReadiness")

RateLimited ==
    Arg("maxEventsPerTimeUnit") \notin {Zero, MinusOne} /\ Arg("timeUnitToLimitEvents") \notin {Zero, MinusOne}

\* createEventSource: nothing runs yet.
CreateEventSource ==
    \/ /\ Arg("sleepInterval") # MinusOne
       /\ Goes("eventSource", "observer", {"eventChan"} \cup IF RateLimited THEN {"inCh"} ELSE {}, {})
       /\ UNCHANGED tm
    \/ Fatal("eventSource")

\* NewResourceObserver reads the node's resources and waits for its informer.
StartObserver ==
    \/ /\ Goes("observer", "updater", {"infoChan"},
               {"observer"} \cup If("refreshNodeResources", {"nodeInformer"}))
       /\ UNCHANGED tm
    \/ Fatal("observer")

StartUpdater == Goes("updater", "source", {}, {"updater"}) /\ UNCHANGED tm

\* The source's initial event is sent when everybody else is there.
StartSource ==
    /\ Goes("source", "running", {}, {"source"} \cup IF RateLimited THEN {"rateLimiter"} ELSE {})
    /\ UNCHANGED tm

----------------------------------------------------------------------------

Main ==
    \/ LoadFails \/ Loaded \/ GetClients \/ GetPodResClient \/ WaitForReady \/ StackMiddleware
    \/ SetUpMetrics \/ SetUpMetricsServer \/ StartPfpDump \/ GetTopologyManagerSettings
    \/ GetNodes \/ StartInjector \/ CreateEventSource \/ StartObserver \/ StartUpdater \/ StartSource

\* The kubelet starts or stops serving.
KubeletTurns ==
    /\ serving' = ~ serving
    /\ UNCHANGED <<configVars, pc, tm, channels, goroutines>>

Next ==
    \/ LoadArgs /\ UNCHANGED <<pc, serving, tm, channels, goroutines>>
    \/ ConfigletChanges /\ UNCHANGED <<pc, serving, tm, channels, goroutines>>
    \/ Main
    \/ KubeletTurns

\* main() runs, the API server answers its calls, and a List whose connection is
\* ready again and again is answered.
Fairness ==
    /\ WF_vars(LoadArgs /\ UNCHANGED <<pc, serving, tm, channels, goroutines>>)
    /\ WF_vars(Main /\ pc # "waitForReady")
    /\ SF_vars(WaitForReady)

Spec == Init /\ [][Next]_vars /\ Fairness

----------------------------------------------------------------------------
(* Properties.                                                               *)

(***************************************************************************)
(* The wiring main() and Execute() leave behind is complete: every channel *)
(* a goroutine of the running exporter will send on has its reader, and a  *)
(* reader has its channel.  A channel without a reader would block the     *)
(* first scan for ever.                                                    *)
(***************************************************************************)
WiredUp ==
    pc = "running" =>
        \A ch \in DOMAIN Reader : (ch \in channels) <=> (Reader[ch] \in goroutines)

\* What the running exporter uses for a setting the environment may give.
InUse(f) ==
    IF f = "topologyManagerPolicy" THEN tm.policy
    ELSE IF f = "topologyManagerScope" THEN tm.scope ELSE pArgs[f]

(***************************************************************************)
(* "applying a series of patches from various user-provided sources        *)
(* (files, envs, flags...) over the builtin defaults"                      *)
(* (pkg/config/cfgfile.go), and "Explicitly set the topology manager       *)
(* policy instead of reading from the kubelet" (pkg/config/flags.go): the  *)
(* running exporter uses every setting a flag, a file or the environment   *)
(* gives, the most specific one where there are several.                   *)
(***************************************************************************)
ProvidedSettingsUsed ==
    pc = "running" =>
        \A f \in Fields \cap EnvFields : ~ IsEmpty(f, Reference(f)) => InUse(f) = Reference(f)

(***************************************************************************)
(* One node has one name: unless a file or a flag overrides the hostname,  *)
(* or NODE_NAME is set to nothing, the NRT object and the metrics, which   *)
(* look their names up in different ways, have the same one.  It is never  *)
(* empty, although Finalize loses the error of os.Hostname.                *)
(***************************************************************************)
NamesAgree ==
    (/\ pc = "running"
     /\ ~ Configured("hostname") /\ ~ Flagged("hostname")
     /\ "hostname" \in DOMAIN inputs.env => NodeName # Zero) =>
        Arg("hostname") = MetricsName /\ MetricsName # Zero

(***************************************************************************)
(* A start ends: if the kubelet comes back again and again, the exporter   *)
(* runs or the process ends, whatever files, environment and flags say.    *)
(***************************************************************************)
StartEnds == []<>serving => <>(pc \in {"running", "exited", "fatal"})

============================================================================
