--------------------------- MODULE StartupProofs ---------------------------
(***************************************************************************)
(* Proofs about configuration and start-up, for every set of fields and    *)
(* values, every number of configlets and every change of them.            *)
(***************************************************************************)
EXTENDS Startup, TLAPS

----------------------------------------------------------------------------
(* The daemon's files.                                                       *)

\* Where confObj comes from: each of its keys has the value of the last file that
\* mentions it, and it has all the keys.
IsLast(i, f) ==
    /\ i \in DOMAIN seen
    /\ f \in DOMAIN seen[i]
    /\ \A j \in DOMAIN seen : j > i => f \notin DOMAIN seen[j]

Merged ==
    /\ \A i \in DOMAIN seen : DOMAIN seen[i] \subseteq DOMAIN confObj
    /\ \A f \in DOMAIN confObj : \E i \in DOMAIN seen : IsLast(i, f) /\ confObj[f] = seen[i][f]

\* Which files have been read when LoadArgs is where it is.
FilesInv ==
    /\ \A i \in configlets : IsFile(inputs.lets[i])
    /\ cfgPc \in {"flags", "main"} => DOMAIN seen = {} /\ pos = 0
    /\ cfgPc = "dir" => DOMAIN seen = {0} /\ pos = 0
    /\ cfgPc = "configlets" => DOMAIN seen = {0} \cup {i \in configlets : i <= pos}
    /\ cfgPc = "dispatch" => DOMAIN seen = {0} \cup configlets
    /\ cfgPc = "extra" /\ ~ dropped => DOMAIN seen = {0} \cup configlets
    /\ cfgPc \in {"flags", "main", "dir", "configlets", "dispatch"} => ~ dropped
    /\ Merged

ConfigTypes == ConfigTypeOK /\ FilesInv

\* At the start nothing has been read.
LEMMA FilesInit == ConfigInit => ConfigTypes
<1>. SUFFICES ASSUME ConfigInit PROVE ConfigTypes
  OBVIOUS
<1>1. /\ DOMAIN seen = {} /\ DOMAIN confObj = {} /\ confObj \in [{} -> Values]
  BY DEF ConfigInit
<1>2. pArgs \in [Fields -> Values]
  BY ConfigAssumption DEF ConfigInit
<1>3. ConfigTypeOK
  <2>1. IsScenario(inputs) /\ changes \in 0 .. MaxChanges
    BY ConfigAssumption DEF ConfigInit
  <2>2. IsGiven(confObj)
    BY <1>1 DEF IsGiven
  <2>. QED
    BY <1>1, <1>2, <2>1, <2>2 DEF ConfigInit, ConfigTypeOK
<1>. QED
  BY <1>1, <1>3 DEF ConfigInit, ConfigTypes, FilesInv, Merged

\* loadConfiglet merges a file that comes after all the others.
LEMMA LoadStep ==
    ASSUME NEW i \in Nat, NEW file,
           ConfigTypeOK, Merged,
           \A j \in DOMAIN seen : j < i,
           IsGiven(file), LoadConfiglet(i, file)
    PROVE  /\ IsGiven(confObj')
           /\ DOMAIN seen' = DOMAIN seen \cup {i}
           /\ \A j \in DOMAIN seen' : IsGiven(seen'[j])
           /\ Merged'
<1>1. /\ DOMAIN seen' = DOMAIN seen \cup {i}
      /\ seen'[i] = file
      /\ \A j \in DOMAIN seen : j # i /\ seen'[j] = seen[j]
  BY DEF LoadConfiglet, ConfigTypeOK
<1>2. /\ DOMAIN confObj' = DOMAIN confObj \cup DOMAIN file
      /\ \A f \in DOMAIN file : confObj'[f] = file[f]
      /\ \A f \in DOMAIN confObj \ DOMAIN file : confObj'[f] = confObj[f]
      /\ confObj' \in [DOMAIN confObj \cup DOMAIN file -> Values]
  BY DEF LoadConfiglet, mergeConfObj, ConfigTypeOK, IsGiven
<1>3. IsGiven(confObj')
  BY <1>2 DEF ConfigTypeOK, IsGiven
<1>4. \A j \in DOMAIN seen' : IsGiven(seen'[j])
  BY <1>1 DEF ConfigTypeOK
<1>5. \A j \in DOMAIN seen' : DOMAIN seen'[j] \subseteq DOMAIN confObj'
  BY <1>1, <1>2 DEF Merged
<1>6. ASSUME NEW f \in DOMAIN confObj'
      PROVE  \E k \in DOMAIN seen' : IsLast(k, f)' /\ confObj'[f] = seen'[k][f]
  <2>1. CASE f \in DOMAIN file
    <3>1. IsLast(i, f)'
      BY <1>1, <2>1 DEF IsLast, ConfigTypeOK
    <3>. QED
      BY <1>1, <1>2, <2>1, <3>1
  <2>2. CASE f \notin DOMAIN file
    <3>1. PICK k \in DOMAIN seen : IsLast(k, f) /\ confObj[f] = seen[k][f]
      BY <1>2, <2>2 DEF Merged
    <3>2. IsLast(k, f)'
      BY <1>1, <2>2, <3>1 DEF IsLast, ConfigTypeOK
    <3>. QED
      BY <1>1, <1>2, <2>2, <3>1, <3>2
  <2>. QED
    BY <2>1, <2>2
<1>7. Merged'
  BY <1>5, <1>6 DEF Merged
<1>. QED
  BY <1>1, <1>3, <1>4, <1>7

\* A file ReadDaemonFile is given, or its absence.
LEMMA ReadStep ==
    ASSUME NEW i \in Nat, NEW file, NEW label,
           ConfigTypeOK, Merged,
           \A j \in DOMAIN seen : j < i,
           IsFile(file), ReadDaemonFile(i, file, label)
    PROVE  /\ IsGiven(confObj')
           /\ DOMAIN seen' \subseteq Nat
           /\ \A j \in DOMAIN seen' : IsGiven(seen'[j])
           /\ Merged'
           /\ \/ cfgPc' = "extra" /\ dropped' = TRUE
              \/ cfgPc' = "failed" /\ dropped' = dropped
              \/ /\ cfgPc' = label /\ dropped' = dropped
                 /\ DOMAIN seen' = DOMAIN seen \cup {i}
<1>1. CASE UNCHANGED <<confObj, seen>>
  BY <1>1 DEF ReadDaemonFile, GiveUpDaemonFiles, LoadConfiglet, Goto, ConfigTypeOK, Merged, IsLast
<1>2. CASE IsGiven(file) /\ LoadConfiglet(i, file) /\ Goto(label) /\ UNCHANGED dropped
  BY <1>2, LoadStep DEF Goto, ConfigTypeOK
<1>. QED
  BY <1>1, <1>2 DEF ReadDaemonFile, IsFile, GiveUpDaemonFiles

\* A change of the configlets changes nothing else, and leaves files there.
LEMMA ChangeStep ==
    ASSUME ConfigTypes, ConfigletChanges
    PROVE  /\ IsScenario(inputs') /\ changes' \in 0 .. MaxChanges
           /\ DOMAIN inputs'.lets = DOMAIN inputs.lets
           /\ \A i \in configlets : IsFile(inputs'.lets[i])
           /\ \A s \in DOMAIN inputs \ {"lets"} : inputs'[s] = inputs[s]
<1>1. PICK i \in DOMAIN inputs.lets, file \in Rewrites : inputs' = [inputs EXCEPT !.lets[i] = file]
  BY DEF ConfigletChanges
<1>2. /\ DOMAIN inputs' = DOMAIN inputs
      /\ \A s \in DOMAIN inputs \ {"lets"} : inputs'[s] = inputs[s]
      /\ inputs'.lets = [inputs.lets EXCEPT ![i] = file]
  BY <1>1 DEF ConfigTypes, ConfigTypeOK, IsScenario
<1>3. /\ DOMAIN inputs'.lets = DOMAIN inputs.lets
      /\ inputs'.lets[i] = file
      /\ \A j \in DOMAIN inputs.lets \ {i} : inputs'.lets[j] = inputs.lets[j]
  BY <1>2
<1>4. IsFile(file)
  BY ConfigAssumption
<1>5. \A j \in configlets : IsFile(inputs'.lets[j])
  BY <1>3, <1>4 DEF ConfigTypes, ConfigTypeOK, FilesInv
<1>6. IsScenario(inputs')
  <2>1. IsScenario(inputs)
    BY DEF ConfigTypes, ConfigTypeOK
  <2>2. /\ inputs'.main = inputs.main /\ inputs'.rootExtra = inputs.rootExtra
        /\ inputs'.configExtra = inputs.configExtra /\ inputs'.dir = inputs.dir
        /\ inputs'.env = inputs.env /\ inputs'.cmd = inputs.cmd
        /\ inputs'.osHostname = inputs.osHostname
    BY <1>2, <2>1 DEF IsScenario
  <2>3. \A j \in DOMAIN inputs'.lets : inputs'.lets[j] = Irregular \/ IsFile(inputs'.lets[j])
    BY <1>3, <1>4, <2>1 DEF IsScenario
  <2>. QED
    BY <1>2, <1>3, <2>1, <2>2, <2>3 DEF IsScenario
<1>7. changes' \in 0 .. MaxChanges
  BY ConfigAssumption DEF ConfigletChanges, ConfigTypes, ConfigTypeOK
<1>. QED
  BY <1>2, <1>3, <1>5, <1>6, <1>7

\* The arguments keep their type.
LEMMA ArgsTyped ==
    ASSUME ConfigTypeOK, [ConfigNext]_configVars
    PROVE  pArgs' \in [Fields -> Values]
<1>. USE DEF ConfigTypeOK
<1>1. CASE ReadFlags
  BY <1>1 DEF ReadFlags, IsScenario, IsCommandLine, IsGiven
<1>2. CASE Dispatch
  <2>1. DOMAIN confObj \subseteq Fields /\ \A f \in DOMAIN confObj : confObj[f] \in Values
    BY DEF IsGiven
  <2>. QED
    BY <1>2, <2>1, ConfigAssumption DEF Dispatch, Dispatched
<1>3. CASE ReadExtra
  <2>1. CASE UNCHANGED pArgs
    BY <2>1
  <2>2. CASE ExtraFile \notin {Missing, Unreadable} /\ pArgs' = SetUpFromConfig(pArgs, ExtraFile)
    <3>1. IsGiven(ExtraFile)
      BY <2>2 DEF ExtraFile, IsScenario, IsFile
    <3>2. \A f \in DOMAIN ExtraFile : ExtraFile[f] \in Values
      BY <3>1 DEF IsGiven
    <3>. QED
      BY <2>2, <3>2 DEF SetUpFromConfig
  <2>. QED
    BY <1>3, <2>1, <2>2 DEF ReadExtra
<1>4. CASE ReadEnv
  <2>1. \A f \in DOMAIN inputs.env : inputs.env[f] \in Values
    BY DEF IsScenario, IsGiven
  <2>. QED
    BY <1>4, <2>1, ConfigAssumption DEF ReadEnv, FromEnv, EnvValue
<1>5. CASE ReadFlagsAgain
  <2>1. \A f \in DOMAIN inputs.cmd.given : inputs.cmd.given[f] \in Values
    BY DEF IsScenario, IsCommandLine, IsGiven
  <2>. QED
    BY <1>5, <2>1 DEF ReadFlagsAgain, FromFlags
<1>6. CASE Finalize
  BY <1>6 DEF Finalize, IsScenario
<1>7. CASE UNCHANGED pArgs
  BY <1>7
<1>. QED
  BY <1>1, <1>2, <1>3, <1>4, <1>5, <1>6, <1>7
  DEF ConfigNext, LoadArgs, ConfigletChanges, configVars, ReadMain, ListConfiglets,
      ReadConfiglet, ConfigletsDone, Validate

\* Every step of LoadArgs keeps account of the files.
LEMMA FilesStep ==
    ASSUME ConfigTypes, [ConfigNext]_configVars
    PROVE  ConfigTypes'
<1>. USE DEF ConfigTypes
<1>1. pArgs' \in [Fields -> Values]
  BY ArgsTyped
<1>2. CASE UNCHANGED configVars
  <2>1. ConfigTypeOK'
    BY <1>2 DEF configVars, ConfigTypeOK
  <2>2. Merged'
    BY <1>2 DEF configVars, FilesInv, Merged, IsLast
  <2>. QED
    BY <1>2, <2>1, <2>2 DEF configVars, FilesInv
<1>3. ASSUME UNCHANGED <<inputs, changes, configlets, pos, confObj, seen, dropped>>,
             \/ ReadFlags \/ ConfigletsDone \/ Dispatch \/ ReadExtra \/ ReadEnv
             \/ ReadFlagsAgain \/ Validate \/ Finalize
      PROVE  ConfigTypes'
  <2>1. /\ cfgPc = "flags" => cfgPc' \in {"version", "failed", "main"}
        /\ cfgPc = "configlets" => cfgPc' = "dispatch" /\ Unread = {}
        /\ cfgPc = "dispatch" => cfgPc' \in {"failed", "extra"}
        /\ cfgPc \notin {"flags", "configlets", "dispatch"} =>
               cfgPc' \in {"env", "flagsAgain", "validate", "finalize", "loaded", "failed"}
        /\ cfgPc \notin {"main", "dir"}
    BY <1>3 DEF ReadFlags, ConfigletsDone, Dispatch, ReadExtra, ReadEnv, ReadFlagsAgain,
                Validate, Finalize, Goto
  <2>2. ConfigTypeOK'
    BY <1>1, <1>3, <2>1 DEF ConfigTypeOK
  <2>3. Merged'
    BY <1>3 DEF FilesInv, Merged, IsLast
  <2>4. Unread = {} => {i \in configlets : i <= pos} = configlets
    BY DEF Unread, ConfigTypeOK, IsScenario
  <2>. QED
    BY <1>3, <2>1, <2>2, <2>3, <2>4 DEF FilesInv, ConfigTypeOK
<1>4. CASE ReadMain
  <2>1. IsFile(inputs.main) /\ DOMAIN seen = {} /\ ~ dropped /\ pos = 0
    BY <1>4 DEF ConfigTypeOK, IsScenario, FilesInv, ReadMain
  <2>2. /\ IsGiven(confObj')
        /\ DOMAIN seen' \subseteq Nat
        /\ \A j \in DOMAIN seen' : IsGiven(seen'[j])
        /\ Merged'
        /\ \/ cfgPc' = "extra" /\ dropped' = TRUE
           \/ cfgPc' = "failed" /\ dropped' = dropped
           \/ /\ cfgPc' = "dir" /\ dropped' = dropped
              /\ DOMAIN seen' = DOMAIN seen \cup {0}
    BY <1>4, <2>1, ReadStep, 0 \in Nat, Zenon DEF FilesInv, ReadMain
  <2>3. ConfigTypeOK'
    BY <1>1, <1>4, <2>2 DEF ConfigTypeOK, ReadMain
  <2>. QED
    BY <1>4, <2>1, <2>2, <2>3 DEF FilesInv, ReadMain
<1>5. CASE ListConfiglets
  <2>1. Merged'
    BY <1>5 DEF FilesInv, Merged, IsLast, ListConfiglets
  <2>2. ConfigTypeOK'
    BY <1>1, <1>5 DEF ConfigTypeOK, ListConfiglets, Goto
  <2>3. \A i \in configlets' : i > 0 /\ IsFile(inputs'.lets[i])
    BY <1>5 DEF ListConfiglets, ConfigTypeOK, IsScenario
  <2>4. {i \in configlets' : i <= 0} = {}
    BY <1>5, <2>3 DEF ListConfiglets, ConfigTypeOK, IsScenario
  <2>. QED
    BY <1>5, <2>1, <2>2, <2>3, <2>4 DEF FilesInv, ListConfiglets, Goto
<1>6. CASE ReadConfiglet
  <2>1. PICK i \in configlets :
            IsNext(i) /\ pos' = i /\ ReadDaemonFile(i, inputs.lets[i], "configlets")
    BY <1>6 DEF ReadConfiglet
  <2>2. i \in Nat /\ i > pos /\ configlets \subseteq Nat /\ pos \in Nat
    BY <2>1 DEF IsNext, Unread, ConfigTypeOK, IsScenario
  <2>3. DOMAIN seen = {0} \cup {j \in configlets : j <= pos}
    BY <1>6 DEF FilesInv, ReadConfiglet
  <2>4. IsFile(inputs.lets[i]) /\ ~ dropped /\ Merged
    BY <1>6 DEF FilesInv, ReadConfiglet
  <2>5. ASSUME NEW j \in DOMAIN seen PROVE j < i
    <3>1. j = 0 \/ (j \in configlets /\ j <= pos)
      BY <2>3
    <3>2. CASE j = 0
      BY <2>2, <3>2
    <3>3. CASE j \in configlets /\ j <= pos
      <4>1. j \in Nat
        BY <2>2, <3>3
      <4>. QED
        BY <2>2, <3>3, <4>1
    <3>. QED
      BY <3>1, <3>2, <3>3
  <2>6. /\ IsGiven(confObj')
        /\ DOMAIN seen' \subseteq Nat
        /\ \A j \in DOMAIN seen' : IsGiven(seen'[j])
        /\ Merged'
        /\ \/ cfgPc' = "extra" /\ dropped' = TRUE
           \/ cfgPc' = "failed" /\ dropped' = dropped
           \/ /\ cfgPc' = "configlets" /\ dropped' = dropped
              /\ DOMAIN seen' = DOMAIN seen \cup {i}
    BY <2>1, <2>2, <2>4, <2>5, ReadStep
  <2>7. \A j \in configlets : j <= i <=> (j <= pos \/ j = i)
    <3>1. \A j \in configlets : j > pos => i <= j
      BY <2>1 DEF IsNext, Unread
    <3>. QED
      BY <2>2, <3>1
  <2>8. {0} \cup {j \in configlets : j <= i} = ({0} \cup {j \in configlets : j <= pos}) \cup {i}
    BY <2>7
  <2>9. ConfigTypeOK'
    BY <1>1, <1>6, <2>1, <2>2, <2>6 DEF ConfigTypeOK, ReadConfiglet
  <2>10. UNCHANGED <<inputs, configlets>> /\ \A j \in configlets : IsFile(inputs.lets[j])
    BY <1>6 DEF ReadConfiglet, FilesInv
  <2>11. cfgPc' \in {"extra", "failed", "configlets"} /\ (cfgPc' = "extra" => dropped')
         /\ (cfgPc' = "configlets" => ~ dropped')
    BY <2>4, <2>6
  <2>12. cfgPc' = "configlets" => DOMAIN seen' = {0} \cup {j \in configlets' : j <= pos'}
    BY <2>1, <2>3, <2>6, <2>8, <2>10
  <2>. QED
    BY <2>6, <2>9, <2>10, <2>11, <2>12 DEF FilesInv
<1>7. CASE ConfigletChanges
  <2>1. UNCHANGED <<cfgPc, configlets, pos, confObj, pArgs, seen, dropped>>
    BY <1>7, Zenon DEF ConfigletChanges
  <2>2. /\ IsScenario(inputs') /\ changes' \in 0 .. MaxChanges
        /\ DOMAIN inputs'.lets = DOMAIN inputs.lets
        /\ \A i \in configlets : IsFile(inputs'.lets[i])
    BY <1>7, ChangeStep, Zenon
  <2>3. ConfigTypeOK'
    BY <1>1, <2>1, <2>2 DEF ConfigTypeOK
  <2>4. Merged'
    BY <2>1 DEF FilesInv, Merged, IsLast
  <2>. QED
    BY <2>1, <2>2, <2>3, <2>4 DEF FilesInv
<1>. QED
  BY <1>2, <1>3, <1>4, <1>5, <1>6, <1>7
  DEF ConfigNext, LoadArgs, ReadFlags, ConfigletsDone, Dispatch, ReadExtra, ReadEnv,
      ReadFlagsAgain, Validate, Finalize

----------------------------------------------------------------------------
(* The arguments.                                                            *)

\* What a field has before any file is read.
Base(f) ==
    IF f = "debug" /\ Flagged(f) THEN inputs.cmd.given[f]
    ELSE IF f \in DefaultFields THEN Default ELSE Zero

\* What confObj says is what the last file says.
LEMMA MergedValue ==
    ASSUME ConfigTypes, NEW f \in Fields
    PROVE  FileValue(f) =
               IF /\ ~ dropped
                  /\ f \in DOMAIN confObj \cap DaemonFields
                  /\ ~ (f = "maxEventsPerTimeUnit" /\ confObj[f] = MinusOne)
               THEN confObj[f] ELSE Base(f)
<1>1. CASE f \in DOMAIN confObj
  <2>1. PICK i \in DOMAIN seen : IsLast(i, f) /\ confObj[f] = seen[i][f]
    BY <1>1 DEF ConfigTypes, FilesInv, Merged
  <2>2. IsLast(LastFile(f), f)
    BY <2>1 DEF LastFile, IsLast
  <2>3. LastFile(f) \in Nat /\ i \in Nat
    BY <2>2 DEF IsLast, ConfigTypes, ConfigTypeOK
  <2>4. ~ (LastFile(f) > i) /\ ~ (i > LastFile(f))
    BY <2>1, <2>2 DEF IsLast
  <2>5. LastFile(f) = i
    BY <2>3, <2>4
  <2>. QED
    BY <1>1, <2>1, <2>5 DEF FileValue, Configured, Base, IsLast
<1>2. CASE f \notin DOMAIN confObj
  BY <1>2 DEF ConfigTypes, FilesInv, Merged, FileValue, Configured, Base
<1>. QED
  BY <1>1, <1>2

\* Nothing but the configlets changes under LoadArgs.
LEMMA InputsKept ==
    ASSUME ConfigTypes, [ConfigNext]_configVars
    PROVE  /\ inputs'.cmd = inputs.cmd /\ inputs'.env = inputs.env
           /\ inputs'.osHostname = inputs.osHostname /\ ExtraFile' = ExtraFile
<1>1. CASE ConfigletChanges
  <2>1. \A s \in DOMAIN inputs \ {"lets"} : inputs'[s] = inputs[s]
    BY <1>1, ChangeStep, Zenon
  <2>2. DOMAIN inputs = {"main", "dir", "lets", "rootExtra", "configExtra", "env", "cmd", "osHostname"}
    BY DEF ConfigTypes, ConfigTypeOK, IsScenario
  <2>. QED
    BY <2>1, <2>2 DEF ExtraFile
<1>2. CASE UNCHANGED inputs
  BY <1>2 DEF ExtraFile
<1>. QED
  BY <1>1, <1>2
  DEF ConfigNext, LoadArgs, configVars, ReadFlags, ReadMain, ListConfiglets, ReadConfiglet,
      ConfigletsDone, Dispatch, ReadExtra, ReadEnv, ReadFlagsAgain, Validate, Finalize

\* What the environment adds.
WithEnv(f) == IF f \in EnvFields /\ IsEmpty(f, FromFiles(f)) THEN EnvOffer(f) ELSE FromFiles(f)

\* What the patches make of f, in the order LoadArgs applies them.
Patched(f) == IF Flagged(f) THEN inputs.cmd.given[f] ELSE WithEnv(f)

\* What the sources say is the same before and after a step that reads no
\* daemon file.
LEMMA SourcesKept ==
    ASSUME ConfigTypes, [ConfigNext]_configVars, UNCHANGED <<seen, dropped>>, NEW f
    PROVE  /\ Flagged(f)' = Flagged(f) /\ Base(f)' = Base(f) /\ FileValue(f)' = FileValue(f)
           /\ ExtraOffer(f)' = ExtraOffer(f) /\ EnvOffer(f)' = EnvOffer(f)
           /\ FromFiles(f)' = FromFiles(f) /\ Patched(f)' = Patched(f)
<1>1. Flagged(f)' = Flagged(f) /\ ExtraOffer(f)' = ExtraOffer(f) /\ EnvOffer(f)' = EnvOffer(f)
  BY InputsKept DEF Flagged, ExtraOffer, EnvOffer
<1>2. Configured(f)' = Configured(f) /\ LastFile(f)' = LastFile(f)
  BY DEF Configured, LastFile
<1>3. Base(f)' = Base(f)
  BY <1>1, InputsKept DEF Base
<1>4. FileValue(f)' = FileValue(f)
  BY <1>1, <1>2, InputsKept DEF FileValue
<1>5. FromFiles(f)' = FromFiles(f)
  BY <1>1, <1>4 DEF FromFiles
<1>. QED
  BY <1>1, <1>3, <1>4, <1>5, InputsKept DEF Patched, WithEnv

\* What field f has when LoadArgs is where it is.
ArgInv(f) ==
    /\ cfgPc = "flags" => pArgs[f] = IF f \in DefaultFields THEN Default ELSE Zero
    /\ cfgPc \in {"main", "dir", "configlets", "dispatch"} => pArgs[f] = Base(f)
    /\ cfgPc = "extra" => pArgs[f] = FileValue(f)
    /\ cfgPc = "env" => pArgs[f] = FromFiles(f)
    /\ cfgPc = "flagsAgain" => pArgs[f] = WithEnv(f)
    /\ cfgPc \in {"validate", "finalize"} => pArgs[f] = Patched(f)
    /\ cfgPc = "loaded" => pArgs[f] = IF f = "hostname" /\ Patched(f) = Zero
                                      THEN inputs.osHostname ELSE Patched(f)

ConfigInv == ConfigTypes /\ \A f \in Fields : ArgInv(f)

\* The steps up to the dispatch.
LEMMA BaseStep ==
    ASSUME ConfigTypes, [ConfigNext]_configVars, NEW f \in Fields, ArgInv(f),
           ReadFlags \/ ReadMain \/ ListConfiglets \/ ReadConfiglet \/ ConfigletsDone
    PROVE  ArgInv(f)'
<1>1. Base(f)' = Base(f)
  BY InputsKept DEF Base, Flagged
<1>2. CASE ReadFlags
  <2>1. pArgs'[f] = Base(f)
    BY <1>2 DEF ReadFlags, ArgInv, Base, Flagged, FlagFields, AllFields
  <2>2. cfgPc' \in {"version", "failed", "main"}
    BY <1>2 DEF ReadFlags, Goto
  <2>. QED
    BY <1>1, <2>1, <2>2 DEF ArgInv
<1>3. CASE ReadMain \/ ListConfiglets \/ ReadConfiglet \/ ConfigletsDone
  <2>1. /\ pArgs[f] = Base(f) /\ UNCHANGED pArgs
        /\ \/ cfgPc' \in {"failed", "dir", "configlets", "dispatch"}
           \/ cfgPc' = "extra" /\ dropped' = TRUE
    BY <1>3 DEF ArgInv, ReadMain, ListConfiglets, ReadConfiglet, ConfigletsDone, ReadDaemonFile,
                GiveUpDaemonFiles, Goto
  <2>2. dropped' = TRUE => FileValue(f)' = Base(f)'
    BY DEF FileValue, Configured, Base
  <2>. QED
    BY <1>1, <2>1, <2>2 DEF ArgInv
<1>. QED
  BY <1>2, <1>3

\* dispatchConfObj and the steps after it.
LEMMA PatchStep ==
    ASSUME ConfigTypes, [ConfigNext]_configVars, NEW f \in Fields, ArgInv(f),
           \/ Dispatch \/ ReadExtra \/ ReadEnv \/ ReadFlagsAgain \/ Validate \/ Finalize
    PROVE  ArgInv(f)'
<1>1. UNCHANGED <<seen, dropped>> /\ inputs' = inputs
  BY DEF Dispatch, ReadExtra, ReadEnv, ReadFlagsAgain, Validate, Finalize
<1>2. /\ FileValue(f)' = FileValue(f) /\ FromFiles(f)' = FromFiles(f)
      /\ Patched(f)' = Patched(f) /\ EnvOffer(f)' = EnvOffer(f)
  BY <1>1, SourcesKept
<1>3. f \in ExtraFields => FileValue(f) = Zero
  BY DEF FileValue, Configured, DaemonFields, ExtraFields, DefaultFields
<1>4. CASE Dispatch
  <2>1. cfgPc = "dispatch" /\ ~ dropped /\ pArgs[f] = Base(f)
    BY <1>4 DEF Dispatch, ArgInv, ConfigTypes, FilesInv
  <2>2. f = "referenceContainer" => Base(f) = Zero
    BY DEF Base, DefaultFields
  <2>3. Dispatched(pArgs, confObj)[f] = FileValue(f)
    BY <2>1, <2>2, MergedValue DEF Dispatched
  <2>4. cfgPc' = "failed" \/ (cfgPc' = "extra" /\ pArgs' = Dispatched(pArgs, confObj))
    BY <1>4 DEF Dispatch, Goto
  <2>. QED
    BY <1>2, <2>3, <2>4 DEF ArgInv
<1>5. CASE ReadExtra
  <2>1. pArgs[f] = FileValue(f)
    BY <1>5 DEF ReadExtra, ArgInv
  <2>2. CASE ExtraFile = Missing /\ cfgPc' = "env" /\ pArgs' = pArgs
    <3>1. FromFiles(f) = FileValue(f)
      BY <2>2 DEF FromFiles, ExtraOffer
    <3>. QED
      BY <1>2, <2>1, <2>2, <3>1 DEF ArgInv
  <2>3. CASE /\ ExtraFile \notin {Missing, Unreadable} /\ cfgPc' = "env"
             /\ pArgs' = SetUpFromConfig(pArgs, ExtraFile)
    <3>1. pArgs'[f] = FromFiles(f)
      BY <1>3, <2>1, <2>3 DEF FromFiles, ExtraOffer, SetUpFromConfig
    <3>. QED
      BY <1>2, <2>3, <3>1 DEF ArgInv
  <2>4. CASE cfgPc' = "failed"
    BY <2>4 DEF ArgInv
  <2>. QED
    BY <1>5, <2>2, <2>3, <2>4 DEF ReadExtra, Goto
<1>6. CASE ReadEnv
  <2>1. pArgs[f] = FromFiles(f) /\ cfgPc' = "flagsAgain" /\ pArgs' = FromEnv(pArgs, inputs.env)
    BY <1>6 DEF ReadEnv, ArgInv, Goto
  <2>2. pArgs'[f] = WithEnv(f)
    BY <2>1 DEF FromEnv, WithEnv, EnvOffer
  <2>3. WithEnv(f)' = WithEnv(f)
    BY <1>2 DEF WithEnv
  <2>. QED
    BY <2>1, <2>2, <2>3 DEF ArgInv
<1>7. CASE ReadFlagsAgain
  <2>1. /\ pArgs[f] = WithEnv(f) /\ cfgPc' \in {"validate", "failed"}
        /\ pArgs' = FromFlags(pArgs, inputs.cmd.given)
    BY <1>7 DEF ReadFlagsAgain, ArgInv, Goto
  <2>2. pArgs'[f] = Patched(f)
    BY <2>1 DEF FromFlags, Patched, Flagged
  <2>. QED
    BY <1>2, <2>1, <2>2 DEF ArgInv
<1>8. CASE Validate
  BY <1>2, <1>8 DEF Validate, Goto, ArgInv
<1>9. CASE Finalize
  BY <1>1, <1>2, <1>9 DEF Finalize, Goto, ArgInv
<1>. QED
  BY <1>4, <1>5, <1>6, <1>7, <1>8, <1>9

\* ConfigInv is inductive.
LEMMA ConfigStep ==
    ASSUME ConfigInv, [ConfigNext]_configVars
    PROVE  ConfigInv'
<1>1. ConfigTypes /\ ConfigTypes'
  BY FilesStep DEF ConfigInv
<1>2. ASSUME NEW f \in Fields PROVE ArgInv(f)'
  <2>1. ArgInv(f)
    BY DEF ConfigInv
  <2>2. CASE ConfigletChanges \/ UNCHANGED configVars
    <3>1. UNCHANGED <<seen, dropped, cfgPc, pArgs>>
      BY <2>2, Zenon DEF ConfigletChanges, configVars
    <3>2. WithEnv(f)' = WithEnv(f)
      BY <1>1, <3>1, SourcesKept DEF WithEnv
    <3>3. inputs'.osHostname = inputs.osHostname
      BY <1>1, InputsKept
    <3>. QED
      BY <1>1, <2>1, <3>1, <3>2, <3>3, SourcesKept DEF ArgInv
  <2>. QED
    BY <1>1, <2>1, <2>2, BaseStep, PatchStep DEF ConfigNext, LoadArgs
<1>. QED
  BY <1>1, <1>2 DEF ConfigInv

----------------------------------------------------------------------------
(* Start-up.                                                                 *)

\* main() does not touch what LoadArgs computes.
LEMMA ConfigPart == [Next]_vars => [ConfigNext]_configVars
BY DEF Next, vars, ConfigNext, Main, KubeletTurns, LoadFails, Loaded, GetClients, GetPodResClient,
       WaitForReady, StackMiddleware, SetUpMetrics, SetUpMetricsServer, StartPfpDump,
       GetTopologyManagerSettings, GetNodes, StartInjector, CreateEventSource, StartObserver,
       StartUpdater, StartSource, Goes, Passes, Fatal

\* At the start no field is decided.
LEMMA ConfigInitially == ConfigInit => ConfigInv
<1>. SUFFICES ASSUME ConfigInit, NEW f \in Fields PROVE ArgInv(f)
  BY FilesInit DEF ConfigInv
<1>. QED
  BY DEF ConfigInit, ArgInv

\* Always, ConfigInv.
LEMMA ConfigAlways == Spec => []ConfigInv
<1>1. Init => ConfigInv
  BY ConfigInitially DEF Init
<1>2. ConfigInv /\ [Next]_vars => ConfigInv'
  BY ConfigStep, ConfigPart
<1>. QED
  BY <1>1, <1>2, PTL DEF Spec

\* The patches give f the most specific value, unless a default shadows it.
LEMMA PatchesAreReference ==
    ASSUME NEW f
    PROVE  /\ Shadowed(f) => Patched(f) = Default /\ f # "hostname"
           /\ ~ Shadowed(f) => Patched(f) = Reference(f)
<1>1. CASE Shadowed(f)
  <2>1. f \in DefaultFields /\ ~ Configured(f) /\ ~ Flagged(f)
    BY <1>1 DEF Shadowed, OnlyDefault
  <2>2. f \notin ExtraFields /\ f # "hostname"
    BY <2>1 DEF DefaultFields, ExtraFields
  <2>3. FromFiles(f) = Default
    BY <2>1, <2>2 DEF FromFiles, ExtraOffer, FileValue
  <2>4. ~ IsEmpty(f, Default)
    BY DEF IsEmpty, Default, Incomplete, Zero
  <2>. QED
    BY <1>1, <2>1, <2>2, <2>3, <2>4 DEF Patched, WithEnv
<1>2. CASE ~ Shadowed(f)
  BY <1>2 DEF Shadowed, Patched, WithEnv, Reference
<1>. QED
  BY <1>1, <1>2

(***************************************************************************)
(* LoadArgs: for all fields and values, however many configlets there are  *)
(* and whatever happens to them meanwhile, the arguments main() gets are   *)
(* those of the most specific source, but for the two defaults that keep   *)
(* the environment out.  The invariant says for each step of LoadArgs what *)
(* every field has, and that confObj has for each of its keys what the     *)
(* last of the files read so far says.                                     *)
(***************************************************************************)
THEOREM ArgumentsByPrecedence == Spec => []Precedence
<1>1. ConfigInv => Precedence
  <2>. SUFFICES ASSUME ConfigInv, cfgPc = "loaded", NEW f \in Fields
                PROVE  pArgs[f] = IF Shadowed(f) THEN Default
                                  ELSE IF f = "hostname" /\ Reference(f) = Zero THEN inputs.osHostname
                                  ELSE Reference(f)
    BY DEF Precedence
  <2>1. pArgs[f] = IF f = "hostname" /\ Patched(f) = Zero THEN inputs.osHostname ELSE Patched(f)
    BY DEF ConfigInv, ArgInv
  <2>. QED
    BY <2>1, PatchesAreReference
<1>. QED
  BY <1>1, ConfigAlways, PTL

(***************************************************************************)
(* fromDaemonFiles has an effect only when every file it listed was read.  *)
(***************************************************************************)
THEOREM NoHalfConfiguration == Spec => []DaemonFilesAllOrNothing
<1>1. ConfigInv => DaemonFilesAllOrNothing
  BY DEF ConfigInv, ConfigTypes, FilesInv, ArgInv, DaemonFilesAllOrNothing
<1>. QED
  BY <1>1, ConfigAlways, PTL

----------------------------------------------------------------------------

\* The steps of main() before a channel between observer and updater exists, and
\* those behind metrics.Setup.
Unwired == {"load", "clients", "podres", "waitForReady", "middleware", "metrics", "metricsServer",
            "pfpdump", "topologyManager", "nodeGetter", "podReadiness", "eventSource"}
Named == {"metricsServer", "pfpdump", "topologyManager", "nodeGetter", "podReadiness", "eventSource",
          "observer", "updater", "source", "running"}

Wired(made, started) ==
    /\ channels \cap {"eventChan", "infoChan", "inCh"}
           = made \cup IF RateLimited THEN {"inCh"} ELSE {}
    /\ goroutines \cap {"observer", "updater", "rateLimiter"} = started

WiringInv ==
    /\ "completionSink" \in channels <=> "dumpLoop" \in goroutines
    /\ "condChan" \in channels <=> "injector" \in goroutines
    /\ pc \in Unwired => /\ channels \cap {"eventChan", "infoChan", "inCh"} = {}
                        /\ goroutines \cap {"observer", "updater", "rateLimiter"} = {}
    /\ pc = "observer" => Wired({"eventChan"}, {})
    /\ pc = "updater" => Wired({"eventChan", "infoChan"}, {"observer"})
    /\ pc = "source" => Wired({"eventChan", "infoChan"}, {"observer", "updater"})
    /\ pc = "running" => Wired({"eventChan", "infoChan"}, {"observer", "updater"} \cup
                                   IF RateLimited THEN {"rateLimiter"} ELSE {})

NameInv == pc \in Named => MetricsName # Zero \/ "hostname" \in DOMAIN inputs.env

StartInv ==
    /\ ConfigInv
    /\ pc \notin {"load", "exited", "fatal"} => cfgPc = "loaded"
    /\ WiringInv
    /\ NameInv

\* Once the arguments are loaded they stay.
LEMMA ArgsStay ==
    ASSUME StartInv, [Next]_vars, pc \notin {"load", "exited", "fatal"}
    PROVE  /\ UNCHANGED pArgs /\ cfgPc' = "loaded"
           /\ RateLimited' = RateLimited
           /\ MetricsName' = MetricsName /\ inputs'.env = inputs.env
<1>1. cfgPc = "loaded" /\ ConfigTypes
  BY DEF StartInv, ConfigInv
<1>2. [ConfigNext]_configVars
  BY ConfigPart
<1>3. ConfigletChanges \/ UNCHANGED configVars
  BY <1>1, <1>2 DEF ConfigNext, LoadArgs, ReadFlags, ReadMain, ListConfiglets, ReadConfiglet,
     ConfigletsDone, Dispatch, ReadExtra, ReadEnv, ReadFlagsAgain, Validate, Finalize
<1>4. UNCHANGED <<pArgs, cfgPc>>
  BY <1>3, Zenon DEF ConfigletChanges, configVars
<1>5. inputs'.env = inputs.env /\ inputs'.osHostname = inputs.osHostname
  BY <1>1, <1>2, InputsKept
<1>. QED
  BY <1>1, <1>4, <1>5 DEF RateLimited, Arg, MetricsName, NodeName

\* A step that neither makes a channel nor starts a goroutine.
LEMMA PassStep ==
    ASSUME StartInv, NEW from, NEW to, Passes(from, to),
           to = "fatal" \/ (from \in Unwired /\ to \in Unwired)
    PROVE  WiringInv'
BY DEF StartInv, WiringInv, Passes, Goes, Unwired

\* What main() does to the wiring.
LEMMA WiringStep ==
    ASSUME StartInv, [Next]_vars
    PROVE  WiringInv'
<1>1. CASE LoadFails \/ Loaded
  BY <1>1, PassStep DEF LoadFails, Loaded, Fatal, Unwired, StartInv, WiringInv, Passes, Goes
<1>2. CASE GetClients \/ GetPodResClient \/ WaitForReady \/ StackMiddleware \/ SetUpMetrics \/ GetNodes
  BY <1>2, PassStep DEF GetClients, GetPodResClient, WaitForReady, StackMiddleware, SetUpMetrics,
     GetNodes, Fatal, Unwired
<1>3. CASE SetUpMetricsServer
  BY <1>3 DEF SetUpMetricsServer, Fatal, Passes, Goes, StartInv, WiringInv, Unwired
<1>4. CASE StartPfpDump
  BY <1>4 DEF StartPfpDump, Goes, If, StartInv, WiringInv, Unwired
<1>5. CASE GetTopologyManagerSettings
  BY <1>5 DEF GetTopologyManagerSettings, Fatal, Passes, Goes, StartInv, WiringInv, Unwired
<1>6. CASE StartInjector
  BY <1>6 DEF StartInjector, Fatal, Passes, Goes, If, StartInv, WiringInv, Unwired
<1>7. CASE CreateEventSource
  <2>1. pc = "eventSource" /\ RateLimited' = RateLimited
    BY <1>7, ArgsStay DEF CreateEventSource, Fatal, Passes, Goes
  <2>. QED
    BY <1>7, <2>1 DEF CreateEventSource, Fatal, Passes, Goes, StartInv, WiringInv, Wired, Unwired
<1>8. CASE StartObserver
  <2>1. pc = "observer" /\ RateLimited' = RateLimited
    BY <1>8, ArgsStay DEF StartObserver, Fatal, Passes, Goes
  <2>. QED
    BY <1>8, <2>1 DEF StartObserver, Fatal, Passes, Goes, If, StartInv, WiringInv, Wired, Unwired
<1>9. CASE StartUpdater
  <2>1. pc = "updater" /\ RateLimited' = RateLimited
    BY <1>9, ArgsStay DEF StartUpdater, Goes
  <2>. QED
    BY <1>9, <2>1 DEF StartUpdater, Goes, StartInv, WiringInv, Wired, Unwired
<1>10. CASE StartSource
  <2>1. pc = "source" /\ RateLimited' = RateLimited
    BY <1>10, ArgsStay DEF StartSource, Goes
  <2>. QED
    BY <1>10, <2>1 DEF StartSource, Goes, StartInv, WiringInv, Wired, Unwired
<1>11. CASE UNCHANGED <<pc, channels, goroutines>>
  <2>1. CASE pc \in {"load", "exited", "fatal"}
    BY <1>11, <2>1 DEF StartInv, WiringInv
  <2>2. CASE pc \notin {"load", "exited", "fatal"}
    BY <1>11, <2>2, ArgsStay DEF StartInv, WiringInv, Wired
  <2>. QED
    BY <2>1, <2>2
<1>. QED
  BY <1>1, <1>2, <1>3, <1>4, <1>5, <1>6, <1>7, <1>8, <1>9, <1>10, <1>11
  DEF Next, Main, KubeletTurns, vars

\* What main() knows of the node's name.
LEMMA NameStep ==
    ASSUME StartInv, [Next]_vars
    PROVE  NameInv' /\ (pc' \notin {"load", "exited", "fatal"} => cfgPc' = "loaded")
<1>1. CASE LoadFails \/ Loaded
  BY <1>1 DEF LoadFails, Loaded, Fatal, Passes, Goes, StartInv, NameInv, Named, configVars
<1>2. CASE pc \in {"load", "exited", "fatal"} /\ UNCHANGED pc
  BY <1>2 DEF StartInv, NameInv, Named
<1>3. CASE pc \notin {"load", "exited", "fatal"}
  <2>1. cfgPc' = "loaded" /\ MetricsName' = MetricsName /\ inputs'.env = inputs.env
    BY <1>3, ArgsStay
  <2>2. pc' \in Named => pc \in Named \/ SetUpMetrics
    BY <1>3
    DEF Next, Main, KubeletTurns, vars, LoadFails, Loaded, GetClients, GetPodResClient,
        WaitForReady, StackMiddleware, SetUpMetricsServer, StartPfpDump,
        GetTopologyManagerSettings, GetNodes, StartInjector, CreateEventSource, StartObserver,
        StartUpdater, StartSource, Goes, Passes, Fatal, Named
  <2>3. SetUpMetrics /\ pc' \in Named => MetricsName # Zero \/ "hostname" \in DOMAIN inputs.env
    BY DEF SetUpMetrics, Fatal, Passes, Goes, Named
  <2>. QED
    BY <2>1, <2>2, <2>3 DEF StartInv, NameInv
<1>. QED
  BY <1>1, <1>2, <1>3 DEF Next, Main, KubeletTurns, vars, GetClients, GetPodResClient,
     WaitForReady, StackMiddleware, SetUpMetrics, SetUpMetricsServer, StartPfpDump,
     GetTopologyManagerSettings, GetNodes, StartInjector, CreateEventSource, StartObserver,
     StartUpdater, StartSource, Goes, Passes, Fatal

\* Always, StartInv.
LEMMA StartAlways == Spec => []StartInv
<1>1. Init => StartInv
  BY ConfigInitially DEF Init, StartInv, WiringInv, NameInv, Unwired, Named
<1>2. StartInv /\ [Next]_vars => StartInv'
  <2>. SUFFICES ASSUME StartInv, [Next]_vars PROVE StartInv'
    OBVIOUS
  <2>1. ConfigInv'
    BY ConfigStep, ConfigPart DEF StartInv
  <2>. QED
    BY <2>1, WiringStep, NameStep DEF StartInv
<1>. QED
  BY <1>1, <1>2, PTL DEF Spec

(***************************************************************************)
(* Whatever the arguments, an exporter that runs has a reader for every    *)
(* channel and a channel for every reader.                                 *)
(***************************************************************************)
THEOREM WiringComplete == Spec => []WiredUp
<1>1. StartInv => WiredUp
  <2>. SUFFICES ASSUME StartInv, pc = "running", NEW ch \in DOMAIN Reader
                PROVE  (ch \in channels) <=> (Reader[ch] \in goroutines)
    BY DEF WiredUp
  <2>1. Wired({"eventChan", "infoChan"}, {"observer", "updater"} \cup
                   IF RateLimited THEN {"rateLimiter"} ELSE {})
    BY DEF StartInv, WiringInv
  <2>2. ch \in {"completionSink", "condChan", "eventChan", "infoChan", "inCh"}
    BY DEF Reader
  <2>. QED
    BY <2>1, <2>2 DEF StartInv, WiringInv, Wired, Reader
<1>. QED
  BY <1>1, StartAlways, PTL

(***************************************************************************)
(* Finalize and metrics.Setup agree on the node's name, which is not empty *)
(* although Finalize ignores the error of os.Hostname.                     *)
(***************************************************************************)
THEOREM OneNodeOneName == Spec => []NamesAgree
<1>1. StartInv => NamesAgree
  <2>. SUFFICES ASSUME StartInv, pc = "running", ~ Configured("hostname"), ~ Flagged("hostname"),
                       "hostname" \in DOMAIN inputs.env => NodeName # Zero
                PROVE  Arg("hostname") = MetricsName /\ MetricsName # Zero
    BY DEF NamesAgree
  <2>1. Arg("hostname") = IF Patched("hostname") = Zero THEN inputs.osHostname
                          ELSE Patched("hostname")
    BY StartupAssumption DEF StartInv, ConfigInv, ArgInv, Arg
  <2>2. FromFiles("hostname") = Zero
    BY DEF FromFiles, FileValue, ExtraOffer, ExtraFields, DefaultFields
  <2>3. Patched("hostname") = EnvOffer("hostname")
    BY <2>2 DEF Patched, WithEnv, EnvFields, IsEmpty
  <2>4. MetricsName # Zero
    BY DEF StartInv, NameInv, Named, MetricsName
  <2>. QED
    BY <2>1, <2>3, <2>4 DEF EnvOffer, EnvValue, MetricsName, NodeName
<1>. QED
  BY <1>1, StartAlways, PTL

(***************************************************************************)
(* Configuration and start-up are type correct.                            *)
(***************************************************************************)
THEOREM TypeCorrect == Spec => []TypeOK
<1>1. Init => TypeOK
  BY ConfigInitially, ConfigAssumption
  DEF Init, TypeOK, ConfigInv, ConfigTypes, NoTM, Zero
<1>2. TypeOK /\ ConfigInv' /\ [Next]_vars => TypeOK'
  <2>. SUFFICES ASSUME TypeOK, ConfigInv', [Next]_vars PROVE TypeOK'
    OBVIOUS
  <2>1. ConfigTypeOK'
    BY DEF ConfigInv, ConfigTypes
  <2>2. GivenTM \in [policy : Values \cup {"kubelet"}, scope : Values \cup {"kubelet"}]
    BY ConfigAssumption DEF GivenTM, KubeletTM, Arg, TypeOK, ConfigTypeOK
  <2>3. tm' \in {tm, GivenTM}
    BY DEF Next, Main, KubeletTurns, vars, LoadFails, Loaded, GetClients, GetPodResClient,
       WaitForReady, StackMiddleware, SetUpMetrics, SetUpMetricsServer, StartPfpDump,
       GetTopologyManagerSettings, GetNodes, StartInjector, CreateEventSource, StartObserver,
       StartUpdater, StartSource, Passes, Fatal
  <2>4. serving' \in BOOLEAN
    BY DEF Next, Main, KubeletTurns, vars, LoadFails, Loaded, GetClients, GetPodResClient,
       WaitForReady, StackMiddleware, SetUpMetrics, SetUpMetricsServer, StartPfpDump,
       GetTopologyManagerSettings, GetNodes, StartInjector, CreateEventSource, StartObserver,
       StartUpdater, StartSource, Passes, Fatal, Goes, TypeOK
  <2>. QED
    BY <2>1, <2>2, <2>3, <2>4
    DEF Next, Main, KubeletTurns, vars, LoadFails, Loaded, GetClients, GetPodResClient,
        WaitForReady, StackMiddleware, SetUpMetrics, SetUpMetricsServer, StartPfpDump,
        GetTopologyManagerSettings, GetNodes, StartInjector, CreateEventSource, StartObserver,
        StartUpdater, StartSource, Passes, Fatal, Goes, If, Reader, TypeOK
<1>. QED
  BY <1>1, <1>2, ConfigAlways, PTL DEF Spec

============================================================================
