------------------------------- MODULE Config -------------------------------
(***************************************************************************)
(* pkg/config: how LoadArgs makes the program's arguments out of defaults, *)
(* the daemon's configuration files, the extra file, the environment and   *)
(* the command line.                                                       *)
(*                                                                         *)
(* A value stands for the source it comes from: all that matters is who    *)
(* wins, whether the value is Go's zero value, and whether it is accepted. *)
(* Files may be removed or rewritten while they are read: they belong to a *)
(* volume that somebody else updates.                                      *)
(***************************************************************************)
EXTENDS Naturals, Sequences

CONSTANTS
    Fields,       \* the fields of ProgArgs an instance looks at
    Values,       \* the values they may have
    Missing,      \* a path where there is nothing (ErrNotExist)
    Unreadable,   \* a path that cannot be read, is no YAML, or is not allowed
    Irregular,    \* a directory entry that is not a regular file
    Scenarios,    \* the inputs a start may find, see Scenario
    Rewrites,     \* what a configlet may be replaced with while it is read
    MaxChanges    \* bound: how often the volume changes during a start

Zero == "zero"              \* "", 0, false or nil
Default == "default"        \* what SetDefaults assigns
IllTyped == "illTyped"      \* a value of another type
Odd == "odd"                \* of the right type, but no parser accepts it
Incomplete == "incomplete"  \* a reference container with an empty part
MinusOne == "minusOne"      \* -1
OSHostname == "osHostname"  \* what os.Hostname returns

----------------------------------------------------------------------------
(* Which field is known to which source.                                     *)

AllFields ==
    {"debug", "verbose", "kubeconfig", "noPublish", "oneShot", "hostname", "patchMode",
     "patchResync", "namespace", "sysfsRoot", "refreshNodeResources", "podSetFingerprint",
     "podSetFingerprintMethod", "exposeTiming", "podSetFingerprintStatusFile",
     "excludeTerminalPods", "podResourcesSocketPath", "sleepInterval", "podReadinessEnable",
     "notifyFilePath", "timeUnitToLimitEvents", "addNRTOwnerEnable", "metricsMode",
     "metricsPort", "metricsAddress", "metricsTLS", "referenceContainer",
     "maxEventsPerTimeUnit", "topologyManagerPolicy", "topologyManagerScope",
     "kubeletConfigFile", "resourceExclude", "podExclude"}

\* SetDefaults; the other fields start with their zero value.
DefaultFields ==
    {"verbose", "patchMode", "patchResync", "sysfsRoot", "podSetFingerprint",
     "podSetFingerprintMethod", "sleepInterval", "kubeletConfigFile",
     "podResourcesSocketPath", "podReadinessEnable", "addNRTOwnerEnable", "metricsMode",
     "metricsPort", "metricsAddress", "metricsTLS", "maxEventsPerTimeUnit",
     "timeUnitToLimitEvents"}

\* The fields of the extra file's config type.
ExtraFields ==
    {"topologyManagerPolicy", "topologyManagerScope", "resourceExclude", "podExclude"}

\* The keys dispatchConfObj binds; a file may hold others, which are ignored.
DaemonFields == AllFields \ (ExtraFields \cup {"kubeletConfigFile"})

\* FromEnv.
EnvFields ==
    {"hostname", "topologyManagerPolicy", "topologyManagerScope", "referenceContainer",
     "metricsPort", "metricsAddress", "podSetFingerprintStatusFile"}

\* FromFlags.
FlagFields == AllFields \ {"verbose", "timeUnitToLimitEvents", "resourceExclude", "podExclude"}

----------------------------------------------------------------------------
(* What a start finds.                                                       *)

\* What a file says: the fields it mentions, with their values.
IsGiven(g) == DOMAIN g \subseteq Fields /\ g \in [DOMAIN g -> Values]
IsFile(file) == file \in {Missing, Unreadable} \/ IsGiven(file)

\* The command line: flags, how many config roots, -version and -dump-config.
IsCommandLine(cmd) ==
    /\ IsGiven(cmd.given)
    /\ cmd.params \in Nat
    /\ cmd.version \in BOOLEAN
    /\ cmd.dump \in {"none", "print", "andexit", "file"}

\* rootExtra is the extra file below a config root given on the command line,
\* configExtra the one -config names (by default the legacy path).  dir is the
\* state of config.yaml.d, lets holds its entries in the order of their names.
IsScenario(s) ==
    /\ DOMAIN s = {"main", "dir", "lets", "rootExtra", "configExtra", "env", "cmd", "osHostname"}
    /\ IsFile(s.main) /\ IsFile(s.rootExtra) /\ IsFile(s.configExtra)
    /\ s.dir \in BOOLEAN
    /\ DOMAIN s.lets \subseteq Nat \ {0}
    /\ \A i \in DOMAIN s.lets : s.lets[i] = Irregular \/ IsFile(s.lets[i])
    /\ IsGiven(s.env)
    /\ IsCommandLine(s.cmd)
    /\ s.osHostname \in Values

ASSUME ConfigAssumption ==
    /\ Fields \subseteq AllFields
    /\ {Zero, Default, IllTyped, Odd, Incomplete, MinusOne, OSHostname} \subseteq Values
    /\ \A s \in Scenarios : IsScenario(s)
    /\ \A file \in Rewrites : IsFile(file)
    /\ MaxChanges \in Nat

VARIABLES
    inputs,    \* the Scenario; its configlets change while they are read
    changes,   \* how often they did
    cfgPc,     \* where LoadArgs is
    configlets,\* the positions of the regular files ReadConfigletDir returned
    pos,       \* the position of the last one that was read
    confObj,   \* the merged daemon configuration
    pArgs,     \* the arguments so far
    seen,      \* history: what the daemon's files said when they were read, by their
               \* positions; config.yaml has the position 0
    dropped    \* history: fromDaemonFiles ended with ErrNotExist

configVars == <<inputs, changes, cfgPc, configlets, pos, confObj, pArgs, seen, dropped>>

ConfigTypeOK ==
    /\ IsScenario(inputs)
    /\ changes \in 0 .. MaxChanges
    /\ cfgPc \in {"flags", "main", "dir", "configlets", "dispatch", "extra", "env",
                  "flagsAgain", "validate", "finalize", "loaded", "version", "failed"}
    /\ configlets \subseteq DOMAIN inputs.lets
    /\ pos \in Nat
    /\ IsGiven(confObj)
    /\ pArgs \in [Fields -> Values]
    /\ DOMAIN seen \subseteq Nat /\ \A i \in DOMAIN seen : IsGiven(seen[i])
    /\ dropped \in BOOLEAN

ConfigInit ==
    /\ inputs \in Scenarios
    /\ changes = 0
    /\ cfgPc = "flags"
    /\ configlets = {}
    /\ pos = 0
    /\ confObj = <<>>
    /\ pArgs = [f \in Fields |-> IF f \in DefaultFields THEN Default ELSE Zero]
    /\ seen = <<>>
    /\ dropped = FALSE

----------------------------------------------------------------------------
(* The sources as patches of the arguments.                                  *)

\* ContainerIdent.IsEmpty for the reference container, == "" or == 0 for others.
IsEmpty(f, v) == v = Zero \/ (f = "referenceContainer" /\ v = Incomplete)

\* mergeConfObj: the keys of upd replace those of obj.
mergeConfObj(obj, upd) ==
    [f \in DOMAIN obj \cup DOMAIN upd |-> IF f \in DOMAIN upd THEN upd[f] ELSE obj[f]]

\* dispatchConfObj fails on the first value of another type, and on a malformed
\* reference container.
DispatchFails(obj) ==
    \E f \in DOMAIN obj \cap DaemonFields :
        obj[f] = IllTyped \/ (f = "referenceContainer" /\ obj[f] = Odd)

\* Mutant: the arguments the files do not mention are lost.
DispatchedOnly(a, obj) == [f \in DOMAIN obj |-> obj[f]]

\* dispatchConfObj: a key that is not there leaves the field alone, but for the
\* reference container, which is always assigned; -1 stands for an absent
\* maxEventPerTimeUnit.
Dispatched(a, obj) ==
    [f \in Fields |->
        IF f \in DOMAIN obj \cap DaemonFields
           /\ ~ (f = "maxEventsPerTimeUnit" /\ obj[f] = MinusOne) THEN obj[f]
        ELSE IF f = "referenceContainer" THEN Zero ELSE a[f]]

\* setupArgsFromConfig: the excludes if there are any, the topology manager's
\* settings if they are not known yet.
SetUpFromConfig(a, conf) ==
    [f \in Fields |->
        IF /\ f \in DOMAIN conf \cap ExtraFields
           /\ conf[f] # Zero
           /\ f \in {"resourceExclude", "podExclude"} \/ a[f] = Zero
        THEN conf[f] ELSE a[f]]

\* Mutant: a set environment variable always wins.
FromEnvWins(a, env) ==
    [f \in Fields |-> IF f \in DOMAIN env \cap EnvFields THEN env[f] ELSE a[f]]

\* PortFromEnv and ContainerIdentFromEnv do not take every value.
EnvValue(f, v) ==
    IF (f = "metricsPort" /\ v = IllTyped) \/ (f = "referenceContainer" /\ v = Incomplete)
    THEN Zero ELSE v

\* FromEnv fills the fields that are still empty.
FromEnv(a, env) ==
    [f \in Fields |->
        IF f \in EnvFields /\ IsEmpty(f, a[f])
        THEN IF f \in DOMAIN env THEN EnvValue(f, env[f]) ELSE Zero
        ELSE a[f]]

\* FromFlags: the default of a flag is the current value, so that only the flags
\* given change something; an empty -reference-container does not.
FromFlags(a, given) ==
    [f \in Fields |->
        IF f \in DOMAIN given \cap FlagFields /\ ~ (f = "referenceContainer" /\ given[f] = Zero)
        THEN given[f] ELSE a[f]]

\* A value of another type: flag.Parse ends the process.
ParseFails(given) == \E f \in DOMAIN given \cap FlagFields : given[f] = IllTyped

\* FromFlags returns an error: several config roots, or a malformed reference
\* container, be it the flag's or the one its default is made of.
FlagsRefused(a, cmd) ==
    \/ cmd.params > 1
    \/ /\ "referenceContainer" \in Fields
       /\ Odd = IF "referenceContainer" \in DOMAIN cmd.given
                THEN cmd.given["referenceContainer"] ELSE a["referenceContainer"]

----------------------------------------------------------------------------
(* LoadArgs.                                                                 *)

Goto(label) == cfgPc' = label

\* The first pass over the command line: its values are discarded, but for
\* -debug, -version, -dump-config and the config root.
ReadFlags ==
    /\ cfgPc = "flags"
    /\ LET given == inputs.cmd.given
       IN  /\ pArgs' = [f \in Fields |-> IF f = "debug" /\ f \in DOMAIN given
                                         THEN given[f] ELSE pArgs[f]]
           /\ IF ParseFails(given) THEN Goto("failed")
              ELSE IF inputs.cmd.version THEN Goto("version")
              ELSE IF FlagsRefused(pArgs, inputs.cmd) THEN Goto("failed") ELSE Goto("main")
    /\ UNCHANGED <<inputs, changes, configlets, pos, confObj, seen, dropped>>

\* loadConfiglet, into confObj.
LoadConfiglet(i, file) ==
    /\ confObj' = mergeConfObj(confObj, file)
    /\ seen' = [j \in DOMAIN seen \cup {i} |-> IF j = i THEN file ELSE seen[j]]

\* ErrNotExist: fromDaemonFiles returns before it dispatches anything, and
\* FromFiles goes on with the extra file.
GiveUpDaemonFiles ==
    /\ Goto("extra")
    /\ dropped' = TRUE
    /\ UNCHANGED <<confObj, seen>>

\* The daemon file at position i: merged and on to label, or the end of them all.
ReadDaemonFile(i, file, label) ==
    \/ file = Missing /\ GiveUpDaemonFiles
    \/ file = Unreadable /\ Goto("failed") /\ UNCHANGED <<confObj, seen, dropped>>
    \/ file \notin {Missing, Unreadable} /\ LoadConfiglet(i, file) /\ Goto(label) /\ UNCHANGED dropped

ReadMain ==
    /\ cfgPc = "main"
    /\ ReadDaemonFile(0, inputs.main, "dir")
    /\ UNCHANGED <<inputs, changes, configlets, pos, pArgs>>

\* ReadConfigletDir: any error means that there are no configlets.
ListConfiglets ==
    /\ cfgPc = "dir"
    /\ configlets' = {i \in DOMAIN inputs.lets :
                          inputs.dir /\ inputs.lets[i] \notin {Missing, Irregular}}
    /\ Goto("configlets")
    /\ UNCHANGED <<inputs, changes, pos, confObj, pArgs, seen, dropped>>

\* The configlets still to be read, and the first of them.
Unread == {i \in configlets : i > pos}
IsNext(i) == i \in Unread /\ \A j \in Unread : i <= j

\* Mutant: a configlet that has gone is passed over.
ReadConfigletLenient ==
    /\ cfgPc = "configlets"
    /\ \E i \in configlets :
          /\ IsNext(i)
          /\ pos' = i
          /\ IF inputs.lets[i] = Missing
             THEN Goto("configlets") /\ UNCHANGED <<confObj, seen, dropped>>
             ELSE ReadDaemonFile(i, inputs.lets[i], "configlets")
    /\ UNCHANGED <<inputs, changes, configlets, pArgs>>

ReadConfiglet ==
    /\ cfgPc = "configlets"
    /\ \E i \in configlets :
          /\ IsNext(i)
          /\ pos' = i
          /\ ReadDaemonFile(i, inputs.lets[i], "configlets")
    /\ UNCHANGED <<inputs, changes, configlets, pArgs>>

ConfigletsDone ==
    /\ cfgPc = "configlets"
    /\ Unread = {}
    /\ Goto("dispatch")
    /\ UNCHANGED <<inputs, changes, configlets, pos, confObj, pArgs, seen, dropped>>

Dispatch ==
    /\ cfgPc = "dispatch"
    /\ \/ DispatchFails(confObj) /\ Goto("failed") /\ UNCHANGED pArgs
       \/ /\ ~ DispatchFails(confObj)
          /\ pArgs' = Dispatched(pArgs, confObj)
          /\ Goto("extra")
    /\ UNCHANGED <<inputs, changes, configlets, pos, confObj, seen, dropped>>

\* The extra file FromFlags chose: a config root on the command line has its own.
ExtraFile == IF inputs.cmd.params = 1 THEN inputs.rootExtra ELSE inputs.configExtra

ReadExtra ==
    /\ cfgPc = "extra"
    /\ \/ ExtraFile = Missing /\ Goto("env") /\ UNCHANGED pArgs
       \/ ExtraFile = Unreadable /\ Goto("failed") /\ UNCHANGED pArgs
       \/ /\ ExtraFile \notin {Missing, Unreadable}
          /\ IF \E f \in DOMAIN ExtraFile \cap ExtraFields : ExtraFile[f] = IllTyped
             THEN Goto("failed") /\ UNCHANGED pArgs
             ELSE pArgs' = SetUpFromConfig(pArgs, ExtraFile) /\ Goto("env")
    /\ UNCHANGED <<inputs, changes, configlets, pos, confObj, seen, dropped>>

ReadEnv ==
    /\ cfgPc = "env"
    /\ pArgs' = FromEnv(pArgs, inputs.env)
    /\ Goto("flagsAgain")
    /\ UNCHANGED <<inputs, changes, configlets, pos, confObj, seen, dropped>>

ReadFlagsAgain ==
    /\ cfgPc = "flagsAgain"
    /\ pArgs' = FromFlags(pArgs, inputs.cmd.given)
    /\ IF FlagsRefused(pArgs, inputs.cmd) THEN Goto("failed") ELSE Goto("validate")
    /\ UNCHANGED <<inputs, changes, configlets, pos, confObj, seen, dropped>>

\* ServingModeIsSupported and PFPMethodIsSupported; the spelling is normalised.
Accepts(a) ==
    \A f \in Fields \cap {"metricsMode", "podSetFingerprintMethod"} : a[f] \notin {Odd, Zero}

Validate ==
    /\ cfgPc = "validate"
    /\ IF Accepts(pArgs) THEN Goto("finalize") ELSE Goto("failed")
    /\ UNCHANGED <<inputs, changes, configlets, pos, confObj, pArgs, seen, dropped>>

\* Finalize: an error of os.Hostname is overwritten by the next call's.
Finalize ==
    /\ cfgPc = "finalize"
    /\ pArgs' = [f \in Fields |-> IF f = "hostname" /\ pArgs[f] = Zero
                                  THEN inputs.osHostname ELSE pArgs[f]]
    /\ Goto("loaded")
    /\ UNCHANGED <<inputs, changes, configlets, pos, confObj, seen, dropped>>

LoadArgs ==
    \/ ReadFlags \/ ReadMain \/ ListConfiglets \/ ReadConfiglet \/ ConfigletsDone
    \/ Dispatch \/ ReadExtra \/ ReadEnv \/ ReadFlagsAgain \/ Validate \/ Finalize

\* Somebody removes or rewrites a configlet.
ConfigletChanges ==
    /\ changes < MaxChanges
    /\ \E i \in DOMAIN inputs.lets, file \in Rewrites :
          /\ inputs.lets[i] \notin {file, Irregular}
          /\ inputs' = [inputs EXCEPT !.lets[i] = file]
    /\ changes' = changes + 1
    /\ UNCHANGED <<cfgPc, configlets, pos, confObj, pArgs, seen, dropped>>

ConfigNext == LoadArgs \/ ConfigletChanges

ConfigSpec == ConfigInit /\ [][ConfigNext]_configVars

----------------------------------------------------------------------------
(* Properties.                                                               *)

\* The last of the daemon's files that mentions f.
LastFile(f) ==
    CHOOSE i \in DOMAIN seen :
        f \in DOMAIN seen[i] /\ \A j \in DOMAIN seen : j > i => f \notin DOMAIN seen[j]

\* The daemon's files decide f.
Configured(f) ==
    /\ ~ dropped
    /\ f \in DaemonFields
    /\ \E i \in DOMAIN seen : f \in DOMAIN seen[i]
    /\ ~ (f = "maxEventsPerTimeUnit" /\ seen[LastFile(f)][f] = MinusOne)

\* The command line decides f.
Flagged(f) ==
    /\ f \in FlagFields \cap DOMAIN inputs.cmd.given
    /\ ~ (f = "referenceContainer" /\ inputs.cmd.given[f] = Zero)

\* The daemon's files, or else the defaults.
FileValue(f) ==
    IF Configured(f) THEN seen[LastFile(f)][f]
    ELSE IF f = "debug" /\ Flagged(f) THEN inputs.cmd.given[f]
    ELSE IF f \in DefaultFields THEN Default ELSE Zero

\* What the extra file and the environment offer for a field nobody has decided.
ExtraOffer(f) ==
    IF ExtraFile \notin {Missing, Unreadable} /\ f \in ExtraFields \cap DOMAIN ExtraFile
    THEN ExtraFile[f] ELSE Zero
EnvOffer(f) == IF f \in DOMAIN inputs.env THEN EnvValue(f, inputs.env[f]) ELSE Zero

\* The files together.
FromFiles(f) == IF FileValue(f) = Zero THEN ExtraOffer(f) ELSE FileValue(f)

\* Nothing but a builtin default is known of f when the environment is read.
OnlyDefault(f) == f \in EnvFields \cap DefaultFields /\ ~ Configured(f)

\* The value f should have when all sources are patches over the builtin defaults:
\* the command line's, or else that of the files, or else that of the environment,
\* or else the default.  The exclude lists only the extra file knows.
Reference(f) ==
    IF Flagged(f) THEN inputs.cmd.given[f]
    ELSE IF f \in EnvFields /\ (IsEmpty(f, FromFiles(f)) \/ (OnlyDefault(f) /\ EnvOffer(f) # Zero))
         THEN EnvOffer(f)
    ELSE FromFiles(f)

\* The environment is not asked: FromEnv fills in zero values only, and the default
\* is none.  This concerns METRICS_PORT and METRICS_ADDRESS.
Shadowed(f) == OnlyDefault(f) /\ ~ Flagged(f)

(***************************************************************************)
(* Precedence: what LoadArgs returns is, field by field, what the most     *)
(* specific source says, although it is computed as a series of patches in *)
(* another order, and although the files change while they are read.  The  *)
(* exception are the metrics' port and address: there the builtin default  *)
(* beats a variable of the environment that is set.                        *)
(***************************************************************************)
Precedence ==
    cfgPc = "loaded" =>
        \A f \in Fields :
            pArgs[f] = IF Shadowed(f) THEN Default
                       ELSE IF f = "hostname" /\ Reference(f) = Zero THEN inputs.osHostname
                       ELSE Reference(f)

(***************************************************************************)
(* The daemon's files count as a whole.  When FromFiles is done with them, *)
(* either config.yaml and every configlet that was listed have been read   *)
(* and each field has what the last of them says, or one was gone by the   *)
(* time it was read and none of them has any effect: no start runs on the  *)
(* first half of a configuration.                                          *)
(***************************************************************************)
DaemonFilesAllOrNothing ==
    cfgPc = "extra" =>
        /\ ~ dropped => DOMAIN seen = {0} \cup configlets
        /\ \A f \in Fields : pArgs[f] = FileValue(f)

============================================================================
