---------------------------- MODULE EventSource ----------------------------
(***************************************************************************)
(* pkg/notification: the UnlimitedEventSource.  One goroutine runs Run():  *)
(* it first sends an initial event, then loops over a select on the        *)
(* ticker, on the file watcher's events and errors, and on stopChan.       *)
(* eventChan, stopChan and doneChan are unbuffered, so a send is a step    *)
(* taken together with the receiver: SourceSend, SourceStop and SourceDone *)
(* are the source's half of such a step, and the module that composes the  *)
(* source with its reader supplies the other half.                         *)
(*                                                                         *)
(* The file watcher (fsnotify over inotify) and the ticker (package time)  *)
(* are external; they are modelled by the behaviour the source relies on.  *)
(***************************************************************************)
EXTENDS Naturals, Sequences

CONSTANTS
    SleepIntervalSet,  \* sleepInterval > 0: SetInterval enabled the ticker
    NotifyFiles,       \* the paths AddFile was called with, as spelled
    CleanPath,         \* CleanPath[p]: the spelling filepath.Clean gives p
    OpSets,            \* the operation masks the watcher may report
    WatchQueueSize,    \* bound: events the kernel queues for the watcher
    MaxTime            \* bound: the last instant the clock tells apart

ASSUME SourceAssumption ==
    /\ SleepIntervalSet \in BOOLEAN
    /\ NotifyFiles \subseteq DOMAIN CleanPath
    /\ \A ops \in OpSets : ops \subseteq {"Create", "Write", "Remove", "Rename", "Chmod"}
    /\ WatchQueueSize \in Nat \ {0}
    /\ MaxTime \in Nat

Time == 0 .. MaxTime

\* notification.Event: Timestamp, and whether TimerInterval > 0.
Event == [ts : Time, timer : BOOLEAN]

\* Event.IsTimer.
IsTimer(ev) == ev.timer

\* fsnotify reports an event under the cleaned spelling of a watched path.
WatchedPaths == {CleanPath[p] : p \in NotifyFiles}

\* fsnotify.Event: Name and Op.
FsEvent == [name : WatchedPaths, op : OpSets]

VARIABLES
    now,       \* the wall clock
    ticker,    \* ticker.C: a channel of capacity one, holding tick times
    watched,   \* the paths inotify still watches
    fsQueue,   \* watcher.Events: what is queued for the source, in order
    fsErr,     \* watcher.Errors: an error is waiting to be read
    esPc,      \* where Run() is
    esEv       \* the event Run() is sending, or sent last

sourceVars == <<now, ticker, watched, fsQueue, fsErr, esPc, esEv>>

SourceTypeOK ==
    /\ now \in Time
    /\ ticker \in Seq(Time)
    /\ Len(ticker) <= 1
    /\ watched \subseteq WatchedPaths
    /\ fsQueue \in Seq(FsEvent)
    /\ Len(fsQueue) <= WatchQueueSize
    /\ fsErr \in BOOLEAN
    /\ esPc \in {"initial", "select", "send", "done", "exited"}
    /\ esEv \in Event

\* Run() has started and holds the initial event; the ticker does not exist yet.
SourceInit ==
    /\ now = 0
    /\ ticker = <<>>
    /\ watched = WatchedPaths
    /\ fsQueue = <<>>
    /\ fsErr = FALSE
    /\ esPc = "initial"
    /\ esEv = [ts |-> 0, timer |-> FALSE]

----------------------------------------------------------------------------
(* The environment: the clock, the ticker and the watched files.            *)

\* The clock moves on; past MaxTime it no longer tells instants apart.
Later(t) == IF t < MaxTime THEN t + 1 ELSE t

\* The ticker fires.  It exists from the end of the initial send until Run
\* returns, and drops the tick when the channel still holds the previous one.
TickerFires ==
    /\ SleepIntervalSet
    /\ esPc \notin {"initial", "exited"}
    /\ now' = Later(now)
    /\ ticker' = IF ticker = <<>> THEN <<now'>> ELSE ticker
    /\ UNCHANGED <<watched, fsQueue, fsErr, esPc, esEv>>

\* The filter AddFile installs for path p: the name as spelled, Chmod or Write.
FileFilter(p, event) ==
    /\ event.name = p
    /\ event.op \cap {"Chmod", "Write"} # {}

\* AnyFilter: an event passes when at least one filter accepts it.
AnyFilter(event) == \E p \in NotifyFiles : FileFilter(p, event)

\* A watched file is touched and the kernel queues the event.  Removing or
\* renaming the file ends its watch, and nothing in the code adds it again.
FileTouched(event) ==
    /\ event.name \in watched
    /\ Len(fsQueue) < WatchQueueSize
    /\ now' = Later(now)
    /\ fsQueue' = Append(fsQueue, event)
    /\ watched' = IF event.op \cap {"Remove", "Rename"} # {}
                  THEN watched \ {event.name} ELSE watched
    /\ UNCHANGED <<ticker, fsErr, esPc, esEv>>

\* The kernel queue overflows: the event is lost, an error is reported.
WatchOverflow ==
    /\ watched # {}
    /\ Len(fsQueue) = WatchQueueSize
    /\ now' = Later(now)
    /\ fsErr' = TRUE
    /\ UNCHANGED <<ticker, watched, fsQueue, esPc, esEv>>

----------------------------------------------------------------------------
(* The goroutine that executes Run().                                        *)

\* The source's half of the send on eventChan.
SourceSend(ev) ==
    /\ esPc \in {"initial", "send"}
    /\ ev = esEv
    /\ esPc' = "select"
    /\ UNCHANGED <<now, ticker, watched, fsQueue, fsErr, esEv>>

\* Mutant: a tick does not say that it is one.
SourceTickUnmarked ==
    /\ esPc = "select"
    /\ ticker # <<>>
    /\ esEv' = [ts |-> ticker[1], timer |-> FALSE]
    /\ ticker' = <<>>
    /\ esPc' = "send"
    /\ UNCHANGED <<now, watched, fsQueue, fsErr>>

\* case tickTs := <-timeEvents
SourceTick ==
    /\ esPc = "select"
    /\ ticker # <<>>
    /\ esEv' = [ts |-> ticker[1], timer |-> TRUE]
    /\ ticker' = <<>>
    /\ esPc' = "send"
    /\ UNCHANGED <<now, watched, fsQueue, fsErr>>

\* Mutant: the accepted event is consumed and not sent.
SourceFsEventNotSent ==
    /\ esPc = "select"
    /\ fsQueue # <<>>
    /\ AnyFilter(Head(fsQueue))
    /\ fsQueue' = Tail(fsQueue)
    /\ UNCHANGED <<now, ticker, watched, fsErr, esPc, esEv>>

\* case event := <-es.watcher.Events, with an event some filter accepts
SourceFsEvent ==
    /\ esPc = "select"
    /\ fsQueue # <<>>
    /\ AnyFilter(Head(fsQueue))
    /\ esEv' = [ts |-> now, timer |-> FALSE]
    /\ fsQueue' = Tail(fsQueue)
    /\ esPc' = "send"
    /\ UNCHANGED <<now, ticker, watched, fsErr>>

\* The same case, with an event no filter accepts: the loop goes on.
SourceFsEventFiltered ==
    /\ esPc = "select"
    /\ fsQueue # <<>>
    /\ ~ AnyFilter(Head(fsQueue))
    /\ fsQueue' = Tail(fsQueue)
    /\ UNCHANGED <<now, ticker, watched, fsErr, esPc, esEv>>

\* Mutant: the loop ends on a watcher error.
SourceFsErrorEnds ==
    /\ esPc = "select"
    /\ fsErr
    /\ fsErr' = FALSE
    /\ esPc' = "done"
    /\ UNCHANGED <<now, ticker, watched, fsQueue, esEv>>

\* case err := <-es.watcher.Errors: logged, "and yes, keep going"
SourceFsError ==
    /\ esPc = "select"
    /\ fsErr
    /\ fsErr' = FALSE
    /\ UNCHANGED <<now, ticker, watched, fsQueue, esPc, esEv>>

\* case <-es.stopChan: the loop ends.
SourceStop ==
    /\ esPc = "select"
    /\ esPc' = "done"
    /\ UNCHANGED <<now, ticker, watched, fsQueue, fsErr, esEv>>

\* The send on doneChan, taken together with Wait().
SourceDone ==
    /\ esPc = "done"
    /\ esPc' = "exited"
    /\ UNCHANGED <<now, ticker, watched, fsQueue, fsErr, esEv>>

============================================================================
