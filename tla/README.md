# A TLA+ model of the resource-topology-exporter

The exporter (RTE) runs on every node of a cluster. It asks the kubelet which resources the pods on
its node hold, computes per NUMA zone what is left, and publishes the result as the node's
`NodeResourceTopology` (NRT) object. This directory models the exporter from the code in `src/`,
model-checks it with TLC on small instances, and proves its main safety properties with TLAPS.

## The system and its parts

| part | source | module | state of the model |
|---|---|---|---|
| configuration: defaults, files, environment, flags | `pkg/config` | `Config` | modelled |
| start-up and wiring | `cmd/`, `resourcetopologyexporter.go` | `Startup` | modelled |
| event source: initial event, ticker, file watcher | `pkg/notification` | `EventSource` | modelled |
| rate limiter: two goroutines around a bounded buffer | `pkg/ratelimiter` | `RateLimiter` | modelled |
| resource observer: event → scan → `MonitorInfo` | `resourceobserver.go` | `EventPipeline`, `Exporter` | modelled |
| podresources middleware: shared pool, pod excludes, terminal pods | `pkg/podres/middleware` | `PodResources`, `ScanInput` | modelled |
| NUMA locality filter and fingerprint membership | `pkg/podres/filter` | `PodResources`, `ScanInput` | modelled |
| resource monitor: scan, node capacity, refresh by informer | `pkg/resourcemonitor` | `ResourceMonitor` | modelled |
| NRT updater: get+update, patch, resync | `pkg/nrtupdater` | `NRTUpdater`, `Publisher`, `Exporter` | modelled |
| condition injector: readiness conditions of the own pod | `pkg/podreadiness` | `ConditionInjector`, `Exporter` | modelled |
| fingerprint dump: loop, write-then-rename | `pkg/pfpdump` | `Exporter` | modelled |
| podresources client, metrics set-up, API clients | `pkg/podres/client.go`, `pkg/metrics`, … | `Startup` | their part in a start |
| sysfs parsing, proxy, formatting, tools | `pkg/sysinfo`, `pkg/podres/proxy`, … | – | not modelled |

`main()` loads the configuration, waits for the kubelet's socket, and starts goroutines that hand
over through unbuffered channels: `event source → rate limiter (optional) → observer → updater`. A
scan of the observer also feeds the dump loop, and observer and updater report to the condition
injector. Concurrently, the node informer's goroutine refreshes the maps a scan reads.

## Modules

* `Config`, `Startup` (extends it). `LoadArgs` is one step per file or source. A value stands for
  the source it comes from, plus the special values the code tells apart (zero, of another type, not
  accepted, -1). `ConfigletChanges` removes or rewrites configlets between the steps. `main()` and
  `Execute()` go from label to label; each step makes channels and starts goroutines, or ends the
  process.
* `Wakeups`. What the reader of the events may rely on, in four variables: an event is pending, a
  scan is owed, where the reader is, whether the source runs.
* `EventSource`, `RateLimiter`, `EventPipeline` (extends both, implements `Wakeups`). A rendezvous on
  an unbuffered channel is one step of both sides (`SourceToReceiver`, `SenderToObserver`,
  `StopSource`, …). Every case of every `select` is an action. `limited` chooses whether
  `createEventSource` adds the limiter. `Later` stops telling instants apart after `MaxTime`.
  `FileTouched` ends the watch of a removed file. `CleanPath` gives the spelling the watcher reports; a
  notification under an unclean spelling never passes `FileFilter`, as in the code. `owed` is a
  history variable.
* `Publisher`. What the updater's loop promises to the observer and to the readers of the object: a
  success means that the object shows the scan unless it was in doubt, a failure leaves the object as
  it was or in doubt.
* `Exporter` (built on `Wakeups` and `Publisher`). Observer, dump loop, updater and injector,
  composed. The event source makes the steps of `Wakeups`, the updater those of `Publisher`. The state
  of the pods is a version number, the process may be killed at any step, and a failed scan panics
  with `-expose-timing`. `notified` and `failing` are history variables. `-no-publish` and other
  writers are left to `NRTUpdater`.
* `NRTUpdater` (implements `Publisher`). An NRT object is a function from paths to values, because a JSON merge patch replaces
  lists as a whole and map keys one by one. One action per API call; each call may fail without
  effect (`PatchFails`, `SendFails`) or take effect while the answer is lost (`PatchLost`,
  `FullWriteLost`). `moved` stands for a stale resourceVersion. `drift` and `misled` are history
  variables: the object may have left `prevNRT` behind, and a patch has succeeded on such an object.
  Publisher's doubt is either of the two.
* `ConditionInjector`. A condition is its type and status. `podMoved` stands for a stale
  resourceVersion; `latest` and `inDoubt` are history variables.
* `PodResources`. Pure operators: the three List filters in the order `main.go` stacks them,
  `Verify`, and the counting. Topologies are sets of NUMA IDs, glob patterns are the sets of names
  they match. A filtered list is a function on the positions that are left; a device entry carries the
  place in the kubelet's answer it was made from, so that equal entries stay apart in a set.
* `ScanInput`. One List answer on its way through the filters to the fingerprint, and then, device
  entry by device entry in any order, into the counters. The terminal pods filter is stacked when
  `excludeTerminalPods` is set.
* `ResourceMonitor`. The constructor, `resUpdated` and `Scan` as interleaved steps over the shared
  maps; a perNUMAResourceCounter is a function on pairs of NUMA ID and resource. `ScanZone` takes a
  reference to an inner map (`capShared`), so later writes are seen. `MapRace` is the Go runtime's
  abort on a concurrent map read and write. `named` says whether `NODE_NAME` names this Node: if not,
  `resUpdated` drops every event. `clean` and `missed` are history variables.
* `MC*`: instances for TLC. `*Proofs` and `EventPipelineRefinement`: theorems.

Operators introduced by a comment `Mutant:` are plausible bugs of the definition that follows them;
no specification uses them.

## Runs

| run | checks | instance |
|---|---|---|
| `startup` | `Precedence`, `DaemonFilesAllOrNothing`, `WiredUp`, `NamesAgree`, `StartEnds` | over 5000 combinations of sources, one change of a configlet, a kubelet that comes and goes |
| `pipeline` | `ImplementsWakeups`, `NoNotificationLost`, `SourceNeverOrphaned`, `BackwardsOnlyByTimer`, `QuietAfterStop`, `EventuallyScanned`, `StopReturns` | one file, buffer and queue of 1, three instants, the reader may stop |
| `exporter` | `NeverSilent`, `DumpFileWhole`, `PublishedForward`, `ObserverReturns`, `EventuallyPublished`, `ReportsKeepComing`, no deadlock | five configurations, two states of the pods, one crash, any number of panics |
| `nrt_faithful` | `SuccessIsFaithful`, `PatchBaseIsCurrent`, `ResyncBound`, `OnlyOwnPaths`, `ImplementsPublisher` | four scans, both modes, with and without oneshot, resync after 2, one other writer, restarts |
| `injector` | `CacheIsServer`, `KubeletConditionsKept`, `StatusConverges` | both conditions, one kubelet condition |
| `scan_input` | `LoopCountsUnits`, `CountersAreExact`, `ChargedPodsFingerprinted` | answers of up to three pods, two NUMA nodes, with and without `-exclude-terminal-pods` |
| `resmon` | `ZonesBounded`, `ZonesOfOneAnswer`, `CleanScanIsExact`, `TracksUnlessMissed` | two NUMA nodes, four kubelet states, two changes, `NODE_NAME` set or not |

`startup`, `pipeline`, `nrt_faithful`, `injector` and `resmon` also check the type invariant of their
module; that of `Exporter` is proved.

Five runs show where the code does something else than its documentation says:

| run | statement | what happens |
|---|---|---|
| `nrt_patch_drift` | "objects updated successfully" (`condition.go:17`) | after a lost patch answer and a failed fallback, the next patch starts from a stale `prevNRT` and reports success without publishing its scan |
| `injector_lost_answer` | "if nothing changed" (`conditioninjector.go:46`) | a write that took effect without an answer leaves the cache stale, and the repair is skipped |
| `resmon_track` | "track changes in node's resources" (`flags.go:62`) | a change before the informer has synced is never noticed |
| `resmon_unlocal` | -1 "is also a legal representation" (`numalocality.go:89`) | `updateDevicesCapacity` writes into a nil map |
| `startup_provided` | patches "from various user-provided sources (files, envs, flags...) over the builtin defaults" (`cfgfile.go:76`) | `METRICS_PORT` has no effect: `FromEnv` fills in zero values only, and the default has filled the field |

`startup_provided` stands for two more cases of the same property, `ProvidedSettingsUsed`:
`METRICS_ADDRESS`, and a topology manager policy or scope given alone, which does not count "instead
of reading from the kubelet" (`flags.go:67`), since `getTopologyManagerSettings` then reads both from
the kubelet (`GivenTM`).

Two properties that hold name such a case as their exception. `Precedence` is the documented order of
the sources except where a default keeps the environment out (`Shadowed`: the metrics' port and
address). `CountersAreExact` leaves out answers with a terminal pod when `-exclude-terminal-pods` is
given (`TerminalPodsAsked`).

Four more observations are part of the models without a run of their own:

* `-exclude-terminal-pods` excludes nothing (`flags.go:64` says it does): the field selector at
  `terminalpods.go:36` asks for Failed *and* Succeeded, and the factory is started before it has an
  informer (`TerminalPodsListed`, `StackMiddleware`).
* `-oneshot` does not "Update once and exit." (`flags.go:53`): the `break` at `nrtupdater.go:133` ends
  the `select`, not the loop, and skips the report (`Return`).
* Without `NODE_NAME` the monitor tracks no change of the Node even with `-refresh-node-resources`:
  its name is empty and `resUpdated` ignores every event (`resourcemonitor.go:195`, `:405`). `Finalize`
  and `metrics.Setup` fall back to the host's name then, so `NamesAgree` is about these two.
  `TracksUnlessMissed` and `TracksChanges` are about a monitor whose Node is named, as the manifests
  see to.
* A failed scan with `-expose-timing` panics: the timing is written into the nil map of the empty
  response before the error is looked at (`resourceobserver.go:70`, `ScanPanics`).

### Bounds

* `startup`: the fields are treated one by one, so that one field per scenario, set by any
  combination of sources, shows the precedence; further scenarios spoil files, list two configlets,
  or vary what decides the wiring. One change of a configlet between listing and reading suffices to
  lose it. The proofs cover all inputs and any number of changes.
* `pipeline`: with a buffer of 1 the receiver fills and overflows it while the sender holds an event.
  Three instants are enough for a tick to be stamped, overtaken and delivered. The proofs cover every
  size.
* `exporter`: a second version lets the pods change at every point of a first update; one crash meets
  every step, and panics are not bounded. Every two switches meet in all four
  combinations.
* `nrt_faithful`: `PatchResync = 2` has a first, a last and a refused patch.
* `resmon`: two changes of the kubelet let one arrive during the refresh of the other. Two of its
  states differ on both NUMA nodes, so that a torn scan shows.

`CHECK_DEADLOCK FALSE` is used where the system may stop: after a failed start, after `Stop`, after a
crash of the monitor, after a scan. `exporter`, the two `injector` runs and the `nrt` runs check deadlock.

### Fairness

* `Startup`: `main()` runs and its calls return. The first List has no time limit, so `StartEnds`
  asks for a kubelet that serves again and again, and for gRPC to use such a connection.
* `EventPipeline`: every goroutine that can run runs (weak fairness). Go's `select` picks uniformly
  among ready cases, so a case that is ready again and again is taken (strong fairness). Nothing is
  assumed of ticker, files or the caller of `Stop`. That a scan returns (`ObserverScanned`) is
  `ObserverReturns` of `Exporter`.
* `Exporter`: goroutines run, a sender waiting on a channel gets its turn, the ticker ticks, and a scan
  or an update that is tried for ever succeeds again and again. `ObserverReturns`
  holds without the last assumption, too.
* `ConditionInjector`: every type is reported again and again (`ReportsKeepComing` of `Exporter`), and
  calls to the API server do not fail for ever. `StatusConverges` needs this per condition type,
  otherwise one type could use up all successes.
* `ResourceMonitor`: the kubelet publishes its status and the informer's goroutine runs. Calls may
  always fail.

## Proofs

TLAPS proves, for every value of the constants that satisfies the named assumptions:

* `StartupProofs`: `TypeOK`, `Precedence`, `DaemonFilesAllOrNothing`, `WiredUp`, `NamesAgree`. `FilesInv` says that `confObj` is the merge of the files
  read so far and that these are an initial part of the listed ones; `ArgInv` gives the value of a
  field at every label, which turns a series of patches into a precedence (`PatchesAreReference`). `WiringInv` ties the
  channels and goroutines to the label `main()` has reached.
* `EventPipelineProofs`: `TypeOK`, `NoNotificationLost`, `SourceNeverOrphaned`, `QuietAfterStop`,
  `BackwardsOnlyByTimer`. The invariants tie the position of the caller of `Stop` to the positions of
  the goroutines it has stopped; the order of timestamps needs that all events between source and
  observer are sorted but for ticks.
* `EventPipelineRefinement`: `Spec => ImplementsWakeups`. An event is pending when one is anywhere
  between ticker or watch queue and the sender's hands; every step of source and limiter keeps such an
  event or maps to a step of `Wakeups`. It uses the type invariant and that nobody is left to send
  once `Stop` and `Wait` have returned.
* `ExporterProofs`: `TypeOK`, `DumpFileWhole`, `PublishedForward`, `NeverSilent`. The version numbers
  along the way from kubelet to NRT object are a chain (`Chain`), which the steps of `Publisher` keep; for `NeverSilent`, whoever holds the
  newest notified state will publish it or report a failure (`SilenceInv`), also across restarts.
* `NRTUpdaterProofs`: `TypeOK`, `ResyncBound`, `PatchBaseIsCurrent`, `SuccessIsFaithful`,
  `OnlyOwnPaths`. Needed in addition: what `Get` returned is the server's object while it has not
  moved. The same invariant proves `Spec => ImplementsPublisher`: a step of the updater, of the server
  or of another writer maps to the step of `Publisher` of its kind, or changes nothing `Publisher`
  sees (a failed patch before the fallback, a read, a write of others to a path of theirs). The object
  is mapped to the set of scans it carries, since two scans may write the same values.
* `ConditionInjectorProofs`: `InjectorTypeOK`, `CacheIsServer`, `KubeletConditionsKept`.
  `FetchedIsCurrent` says that an accepted `UpdateStatus` starts from what the server holds.
* `ResourceMonitorProofs`: `TypeOK`, `ZonesBounded`, `ZonesOfOneAnswer`, `CleanScanIsExact`. Of the kubelet's
  answers it is only assumed that they are finite messages: device entries of finite messages have
  finite amounts (`AnswersCounted`). All counters are then natural
  numbers under every interleaving of scan and refresh; while nothing has disturbed the scan, the maps
  are what the kubelet's last answers say, and the zones so far are exact. For a scan a refresh cuts in
  two, `nodeAllocatable` is at any moment what some answer says (`AnswerInv`), because a refresh replaces
  the map instead of editing it; a zone is taken from it in one step and not touched again.
* `ScanInputProofs`: `LoopCountsUnits`, `CountersAreExact`, `ChargedPodsFingerprinted`. `StageInv`
  says what each middleware has made of the answer. Every device entry stands for a set of units of
  the kubelet's answer (`HeldBy`), as many as its amount (`EntryUnits`); entries that go to the same
  counter stand for disjoint sets (`EntriesDisjoint`), and together for all units of the containers
  that count (`EntriesComplete`). `LoopInv` says that each counter holds the number of units of the
  entries counted so far. The order of the entries plays no part, and no induction over lists is
  needed.

The refinements fit together: `EventPipeline` implements `Wakeups` and `NRTUpdater` implements
`Publisher`, for all their parameters, and the steps of `Exporter` that involve the two are theirs.
`Exporter` adds one thing: an object patched from a stale base shows no state of the pods later than
the one that was handed over. `ResourceMonitor` uses the counters `ScanInput` shows the loop to compute. That
`Exporter` meets the fairness the others assume of it is model-checked.

Only model-checked: the liveness properties (`StartEnds`, `EventuallyScanned`, `StopReturns`,
`ObserverReturns`, `EventuallyPublished`, `ReportsKeepComing`, `StatusConverges`,
`TracksUnlessMissed`), which are out of the prover's reach, and the absence of deadlock, which is about
`ENABLED`.

## Not modelled

* The rate of the limiter (a delay of any length), the klog level, zone costs and attributes, the hash
  of the fingerprint, wording of conditions and logs, the metrics themselves, TLS.
* Parsing of sysfs (`pkg/sysinfo`): text to numbers; a constant of `ResourceMonitor`. NUMA IDs are
  taken for indices, as the code does.
* The podresources proxy, which forwards single calls and keeps nothing; the development tools.
* A request of a killed process that reaches the API server after the next process has started:
  `Exporter` decides at the latest when the process dies.
* The life of the Node behind the cached owner reference: the code reads it once and no document says
  what should happen when the Node is created again.
* The abort on a concurrent map access (`MapRace`) is in `ResourceMonitor`, but no document promises
  its absence and no property is stated about it.
