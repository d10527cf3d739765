--------------------------- MODULE EventPipeline ---------------------------
(***************************************************************************)
(* How a notification becomes a scan: the event source, the optional rate  *)
(* limiter that createEventSource puts behind it, the wake-up half of      *)
(* ResourceObserver.Run that reads the events, and a client that calls     *)
(* Stop() and Wait() on the source.                                        *)
(*                                                                         *)
(* owed is a history variable: a scan is owed from the moment the watcher  *)
(* queues a notification the filters accept until the observer next wakes  *)
(* up, because only a scan that starts later is sure to see the change the *)
(* notification announces.  At the start the first scan is owed.           *)
(***************************************************************************)
EXTENDS RateLimiter

CONSTANT ReaderMayStop   \* somebody may call ResourceObserver.Stop

ASSUME ReaderAssumption == ReaderMayStop \in BOOLEAN

VARIABLES
    limited,   \* createEventSource decorated the source with a rate limiter
    obsPc,     \* where ResourceObserver.Run is
    obsEv,     \* the last event it read; its timestamp is lastWakeup
    owed,      \* history: no scan has started since the last notification
    stopPc     \* where the caller of Stop() and Wait() is

vars == <<now, ticker, watched, fsQueue, fsErr, esPc, esEv,
          rcvPc, rcvEv, bufferCh, sndPc, sndEv, rcvDone, sndDone,
          limited, obsPc, obsEv, owed, stopPc>>

StopSteps == {"idle", "stopSource", "waitSource", "stopReceiver", "stopSender",
              "waitReceiver", "waitSender", "stopped"}

TypeOK ==
    /\ SourceTypeOK
    /\ LimiterTypeOK
    /\ limited \in BOOLEAN
    /\ obsPc \in {"select", "scan", "exited"}
    /\ obsEv \in Event
    /\ owed \in BOOLEAN
    /\ stopPc \in StopSteps

Init ==
    /\ SourceInit
    /\ LimiterInit
    /\ limited \in BOOLEAN
    /\ obsPc = "select"
    /\ obsEv = NoEvent
    /\ owed = TRUE
    /\ stopPc = "idle"

----------------------------------------------------------------------------
(* Steps of one actor.                                                       *)

FsTouch ==
    \E event \in FsEvent :
        /\ FileTouched(event)
        /\ owed' = (owed \/ AnyFilter(event))
        /\ UNCHANGED <<limiterVars, limited, obsPc, obsEv, stopPc>>

Environment ==
    /\ TickerFires \/ WatchOverflow
    /\ UNCHANGED <<limiterVars, limited, obsPc, obsEv, owed, stopPc>>

SourceSelect ==
    /\ SourceTick \/ SourceFsEvent \/ SourceFsEventFiltered \/ SourceFsError
    /\ UNCHANGED <<limiterVars, limited, obsPc, obsEv, owed, stopPc>>

LimiterStep ==
    /\ ReceiverPut \/ ReceiverDrop \/ SenderTake \/ SenderLimited
    /\ UNCHANGED <<sourceVars, limited, obsPc, obsEv, owed, stopPc>>

\* Scan returned and its result was handed over; the loop selects again.
ObserverScanned ==
    /\ obsPc = "scan"
    /\ obsPc' = "select"
    /\ UNCHANGED <<sourceVars, limiterVars, limited, obsEv, owed, stopPc>>

\* case <-rm.stopChan
ObserverStop ==
    /\ ReaderMayStop
    /\ obsPc = "select"
    /\ obsPc' = "exited"
    /\ UNCHANGED <<sourceVars, limiterVars, limited, obsEv, owed, stopPc>>

----------------------------------------------------------------------------
(* Steps two actors take together over an unbuffered channel.                *)

\* case ev := <-eventsChan: lastWakeup becomes the event's timestamp and the
\* scan starts.
ObserverWake(ev) ==
    /\ obsPc = "select"
    /\ obsEv' = ev
    /\ obsPc' = "scan"
    /\ owed' = FALSE

SourceToObserver ==
    /\ ~ limited
    /\ SourceSend(esEv)
    /\ ObserverWake(esEv)
    /\ UNCHANGED <<limiterVars, limited, stopPc>>

SourceToReceiver ==
    /\ limited
    /\ SourceSend(esEv)
    /\ ReceiverTake(esEv)
    /\ UNCHANGED <<limited, obsPc, obsEv, owed, stopPc>>

SenderToObserver ==
    /\ SenderSend(sndEv)
    /\ ObserverWake(sndEv)
    /\ UNCHANGED <<sourceVars, limited, stopPc>>

----------------------------------------------------------------------------
(* Stop(): es.Stop(), es.Wait() and, with a rate limiter, stop(); the client *)
(* then calls Wait().                                                        *)

StopMove(from, to) ==
    /\ stopPc = from
    /\ stopPc' = to
    /\ UNCHANGED <<limited, obsPc, obsEv, owed>>

\* Mutant: the limiter's goroutines are stopped before the source.
StopCalledLimiterFirst ==
    /\ StopMove("idle", IF limited THEN "stopReceiver" ELSE "stopSource")
    /\ UNCHANGED <<sourceVars, limiterVars>>

StopCalled ==
    /\ StopMove("idle", "stopSource")
    /\ UNCHANGED <<sourceVars, limiterVars>>

StopSource ==
    /\ StopMove("stopSource", "waitSource")
    /\ SourceStop
    /\ UNCHANGED limiterVars

StopWaitSource ==
    /\ StopMove("waitSource", IF limited THEN "stopReceiver" ELSE "stopped")
    /\ SourceDone
    /\ UNCHANGED limiterVars

StopReceiver ==
    /\ StopMove("stopReceiver", "stopSender")
    /\ ReceiverStop
    /\ UNCHANGED sourceVars

StopSender ==
    /\ StopMove("stopSender", "waitReceiver")
    /\ SenderStop
    /\ UNCHANGED sourceVars

WaitReceiver ==
    /\ StopMove("waitReceiver", "waitSender")
    /\ ReceiverJoined
    /\ UNCHANGED sourceVars

WaitSender ==
    /\ StopMove("waitSender", "stopped")
    /\ SenderJoined
    /\ UNCHANGED sourceVars

Stopper ==
    \/ StopCalled \/ StopSource \/ StopWaitSource \/ StopReceiver
    \/ StopSender \/ WaitReceiver \/ WaitSender

----------------------------------------------------------------------------

Next ==
    \/ FsTouch
    \/ Environment
    \/ SourceSelect
    \/ LimiterStep
    \/ ObserverScanned
    \/ ObserverStop
    \/ SourceToObserver
    \/ SourceToReceiver
    \/ SenderToObserver
    \/ Stopper

(***************************************************************************)
(* Every goroutine that can run does run.  A select chooses uniformly      *)
(* among its ready cases, so a case that is ready again and again is       *)
(* taken: strong fairness for the cases of the source's and the sender's   *)
(* select.  The scan returns and the limiter lets events through.          *)
(* Nothing is assumed of the environment or of the caller of Stop().       *)
(***************************************************************************)
Fairness ==
    /\ SF_vars(SourceSelect /\ SourceTick)
    /\ SF_vars(SourceSelect /\ (SourceFsEvent \/ SourceFsEventFiltered))
    /\ WF_vars(SourceToObserver \/ SourceToReceiver)
    /\ WF_vars(LimiterStep /\ (ReceiverPut \/ ReceiverDrop))
    /\ SF_vars((LimiterStep /\ (SenderTake \/ SenderLimited)) \/ SenderToObserver)
    /\ WF_vars(ObserverScanned)
    /\ SF_vars(Stopper /\ stopPc # "idle")

Spec == Init /\ [][Next]_vars /\ Fairness

----------------------------------------------------------------------------
(* Properties.                                                               *)

\* An event is on its way to the observer.
InFlight ==
    \/ ticker # <<>>
    \/ \E i \in DOMAIN fsQueue : AnyFilter(fsQueue[i])
    \/ esPc \in {"initial", "send"}
    \/ rcvPc = "put"
    \/ bufferCh # <<>>
    \/ sndPc \in {"take", "send"}

SourceState ==
    IF stopPc = "idle" THEN "running" ELSE IF stopPc = "stopped" THEN "stopped" ELSE "stopping"

W == INSTANCE Wakeups WITH pending <- InFlight, owed <- owed, reader <- obsPc,
                           source <- SourceState

(***************************************************************************)
(* Source, limiter and observer implement Wakeups: whatever the receiver   *)
(* drops when bufferCh is full and the ticker when its channel is, the     *)
(* last event on its way is never lost, and the observer wakes up only for *)
(* an event, and never after Stop() and Wait() have returned.              *)
(***************************************************************************)
ImplementsWakeups == W!Spec

(***************************************************************************)
(* No notification is lost: while a scan is owed and nobody called Stop,   *)
(* some event is still on its way to the observer, although the receiver   *)
(* drops events when bufferCh is full and the source drops ticks.  The     *)
(* event that arrives need not be the one the notification caused.         *)
(***************************************************************************)
NoNotificationLost == (owed /\ stopPc = "idle") => InFlight

(***************************************************************************)
(* RateLimitedEventSource.Stop stops the source first: the source never    *)
(* holds an event that nobody is left to read from its channel.            *)
(***************************************************************************)
SourceNeverOrphaned ==
    (limited /\ esPc \in {"initial", "send"}) => rcvPc # "exited"

(***************************************************************************)
(* lastWakeup moves back only for a timer event: a tick is stamped when it *)
(* fires and may wait in the ticker's channel while a later file event     *)
(* overtakes it; events of the other kinds reach the observer in the order *)
(* of their timestamps, with or without the limiter.  After the first      *)
(* wake-up the delay measured for a notification is never negative, unless *)
(* the clock itself is set back.                                           *)
(***************************************************************************)
BackwardsOnlyByTimer == [][obsEv'.ts >= obsEv.ts \/ IsTimer(obsEv')]_obsEv

(***************************************************************************)
(* Once Stop() and Wait() have returned, the observer reads no event from  *)
(* the rate limited source any more.                                       *)
(***************************************************************************)
QuietAfterStop == [][stopPc # "stopped"]_obsEv

(***************************************************************************)
(* A scan that is owed is eventually started, unless the observer leaves   *)
(* or Stop is called.                                                      *)
(***************************************************************************)
EventuallyScanned == W!OwedScanStarts

(***************************************************************************)
(* Stop() and Wait() return while the observer keeps reading, whatever the *)
(* ticker and the watched files do in the meantime.                        *)
(***************************************************************************)
StopReturns == W!StopEnds

============================================================================
