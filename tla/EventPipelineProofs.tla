------------------------ MODULE EventPipelineProofs ------------------------
(***************************************************************************)
(* Proofs about EventPipeline, for every capacity of the buffer, every set *)
(* of notification files and every bound on the clock and on the watcher's *)
(* queue.                                                                  *)
(***************************************************************************)
EXTENDS EventPipeline, TLAPS

(***************************************************************************)
(* Type correctness: in particular the receiver never puts more than       *)
(* BufferSize events into bufferCh and the ticker never holds two ticks.   *)
(***************************************************************************)
LEMMA TypeInit == Init => TypeOK
<1> USE SourceAssumption, BufferAssumption DEF SourceAssumption, BufferAssumption
<1> SUFFICES ASSUME Init PROVE TypeOK
  OBVIOUS
<1>1. 0 \in Time /\ NoEvent \in Event
  BY DEF NoEvent, Event, Time
<1>2. SourceTypeOK
  <2>1. now \in Time /\ esEv \in Event
    BY <1>1 DEF Init, SourceInit, NoEvent
  <2>2. ticker \in Seq(Time) /\ Len(ticker) <= 1
    BY DEF Init, SourceInit
  <2>3. fsQueue \in Seq(FsEvent) /\ Len(fsQueue) <= WatchQueueSize
    BY DEF Init, SourceInit
  <2> QED
    BY <2>1, <2>2, <2>3 DEF Init, SourceInit, SourceTypeOK
<1>3. LimiterTypeOK
  <2>1. bufferCh \in Seq(Event) /\ Len(bufferCh) <= BufferSize
    BY DEF Init, LimiterInit
  <2> QED
    BY <1>1, <2>1 DEF Init, LimiterInit, LimiterTypeOK
<1> QED
  BY <1>1, <1>2, <1>3 DEF Init, TypeOK, StopSteps

\* Every step keeps the types.
LEMMA TypeStep == TypeOK /\ [Next]_vars => TypeOK'
<1> USE SourceAssumption, BufferAssumption DEF SourceAssumption, BufferAssumption
<1> USE DEF TypeOK, SourceTypeOK, LimiterTypeOK
<1> SUFFICES ASSUME TypeOK, [Next]_vars PROVE TypeOK'
  OBVIOUS
<1>0. Later(now) \in Time
  BY DEF Later, Time
<1>1. CASE FsTouch
  BY <1>0, <1>1 DEF FsTouch, FileTouched, limiterVars
<1>2. CASE Environment
  <2>1. CASE TickerFires
    BY <1>0, <1>2, <2>1 DEF Environment, TickerFires, limiterVars
  <2>2. CASE WatchOverflow
    BY <1>0, <1>2, <2>2 DEF Environment, WatchOverflow, limiterVars
  <2> QED
    BY <1>2, <2>1, <2>2 DEF Environment
<1>3. CASE SourceSelect
  <2>1. CASE SourceTick
    BY <1>3, <2>1 DEF SourceSelect, SourceTick, limiterVars, Event
  <2>2. CASE SourceFsEvent
    BY <1>3, <2>2 DEF SourceSelect, SourceFsEvent, limiterVars, Event
  <2>3. CASE SourceFsEventFiltered
    BY <1>3, <2>3 DEF SourceSelect, SourceFsEventFiltered, limiterVars
  <2>4. CASE SourceFsError
    BY <1>3, <2>4 DEF SourceSelect, SourceFsError, limiterVars
  <2> QED
    BY <1>3, <2>1, <2>2, <2>3, <2>4 DEF SourceSelect
<1>4. CASE LimiterStep
  <2>1. CASE ReceiverPut
    BY <1>4, <2>1 DEF LimiterStep, ReceiverPut, sourceVars
  <2>2. CASE ReceiverDrop
    BY <1>4, <2>2 DEF LimiterStep, ReceiverDrop, sourceVars
  <2>3. CASE SenderTake
    BY <1>4, <2>3 DEF LimiterStep, SenderTake, sourceVars
  <2>4. CASE SenderLimited
    BY <1>4, <2>4 DEF LimiterStep, SenderLimited, sourceVars
  <2> QED
    BY <1>4, <2>1, <2>2, <2>3, <2>4 DEF LimiterStep
<1>5. CASE ObserverScanned
  BY <1>5 DEF ObserverScanned, sourceVars, limiterVars
<1>6. CASE ObserverStop
  BY <1>6 DEF ObserverStop, sourceVars, limiterVars
<1>7. CASE SourceToObserver
  BY <1>7 DEF SourceToObserver, SourceSend, ObserverWake, limiterVars
<1>8. CASE SourceToReceiver
  BY <1>8 DEF SourceToReceiver, SourceSend, ReceiverTake
<1>9. CASE SenderToObserver
  BY <1>9 DEF SenderToObserver, SenderSend, ObserverWake, sourceVars
<1>10. CASE Stopper
  <2> USE DEF StopMove, StopSteps
  <2>1. CASE StopCalled
    BY <2>1 DEF StopCalled, sourceVars, limiterVars
  <2>2. CASE StopSource
    BY <2>2 DEF StopSource, SourceStop, limiterVars
  <2>3. CASE StopWaitSource
    BY <2>3 DEF StopWaitSource, SourceDone, limiterVars
  <2>4. CASE StopReceiver
    BY <2>4 DEF StopReceiver, ReceiverStop, sourceVars
  <2>5. CASE StopSender
    BY <2>5 DEF StopSender, SenderStop, sourceVars
  <2>6. CASE WaitReceiver
    <3>1. /\ UNCHANGED <<now, ticker, watched, fsQueue, fsErr, esPc, esEv, rcvPc, rcvEv,
                        bufferCh, sndPc, sndEv, limited, obsPc, obsEv, owed>>
          /\ rcvDone' = FALSE
          /\ UNCHANGED sndDone
          /\ stopPc' = "waitSender"
      BY <2>6 DEF WaitReceiver, ReceiverJoined, sourceVars
    <3>2. SourceTypeOK'
      BY <3>1
    <3>3. LimiterTypeOK'
      BY <3>1
    <3> QED
      BY <3>1, <3>2, <3>3
  <2>7. CASE WaitSender
    <3>1. /\ UNCHANGED <<now, ticker, watched, fsQueue, fsErr, esPc, esEv, rcvPc, rcvEv,
                        bufferCh, sndPc, sndEv, limited, obsPc, obsEv, owed>>
          /\ sndDone' = FALSE
          /\ UNCHANGED rcvDone
          /\ stopPc' = "stopped"
      BY <2>7 DEF WaitSender, SenderJoined, sourceVars
    <3>2. SourceTypeOK'
      BY <3>1
    <3>3. LimiterTypeOK'
      BY <3>1
    <3> QED
      BY <3>1, <3>2, <3>3
  <2> QED
    BY <1>10, <2>1, <2>2, <2>3, <2>4, <2>5, <2>6, <2>7 DEF Stopper
<1>11. CASE UNCHANGED vars
  BY <1>11 DEF vars
<1> QED
  BY <1>1, <1>2, <1>3, <1>4, <1>5, <1>6, <1>7, <1>8, <1>9, <1>10, <1>11 DEF Next

\* TypeOK: the variables of source, limiter, observer and stopper keep their types
\* and bufferCh, the ticker and the watcher's queue their capacities.
THEOREM TypeCorrect == Spec => []TypeOK
BY TypeInit, TypeStep, PTL DEF Spec

----------------------------------------------------------------------------

(***************************************************************************)
(* A queue entry that passes the filters survives the removal of a head    *)
(* that does not: the source filters without losing what comes behind.     *)
(***************************************************************************)
LEMMA PassingSurvivesTail ==
    ASSUME SourceTypeOK, fsQueue # <<>>, ~ AnyFilter(Head(fsQueue)),
           NEW i \in DOMAIN fsQueue, AnyFilter(fsQueue[i])
    PROVE  \E j \in DOMAIN Tail(fsQueue) : AnyFilter(Tail(fsQueue)[j])
<1>1. fsQueue \in Seq(FsEvent) /\ i \in 1 .. Len(fsQueue) /\ Len(fsQueue) \in Nat
  BY DEF SourceTypeOK
<1>2. i # 1
  BY <1>1 DEF SourceTypeOK
<1>3. /\ i - 1 \in 1 .. Len(fsQueue) - 1
      /\ Len(Tail(fsQueue)) = Len(fsQueue) - 1
      /\ Tail(fsQueue)[i - 1] = fsQueue[i]
      /\ DOMAIN Tail(fsQueue) = 1 .. Len(Tail(fsQueue))
  BY <1>1, <1>2
<1> QED
  BY <1>3

(***************************************************************************)
(* Only the observer's wake-up may take the last event on its way: all     *)
(* other steps, those of Stop included, leave one.                         *)
(***************************************************************************)
LEMMA InFlightStep ==
    ASSUME TypeOK, InFlight, [Next]_vars, ~ SourceToObserver, ~ SenderToObserver
    PROVE  InFlight'
<1> USE DEF InFlight
<1>1. CASE FsTouch
  <2> PICK event \in FsEvent : FileTouched(event) /\ UNCHANGED limiterVars
    BY <1>1 DEF FsTouch
  <2>1. /\ fsQueue \in Seq(FsEvent)
        /\ fsQueue' = Append(fsQueue, event)
        /\ DOMAIN fsQueue = 1 .. Len(fsQueue)
        /\ DOMAIN fsQueue' = 1 .. Len(fsQueue) + 1
        /\ Len(fsQueue) \in Nat
        /\ \A i \in 1 .. Len(fsQueue) : fsQueue'[i] = fsQueue[i]
    BY DEF FileTouched, TypeOK, SourceTypeOK
  <2> QED
    BY <2>1 DEF FileTouched, limiterVars
<1>2. CASE Environment
  BY <1>2 DEF Environment, TickerFires, WatchOverflow, limiterVars
<1>3. CASE SourceSelect
  <2>1. CASE SourceFsEventFiltered
    <3>1. CASE \E i \in DOMAIN fsQueue : AnyFilter(fsQueue[i])
      BY <3>1, <2>1, PassingSurvivesTail DEF SourceFsEventFiltered, TypeOK
    <3> QED
      BY <1>3, <2>1, <3>1 DEF SourceSelect, SourceFsEventFiltered, limiterVars
  <2> QED
    BY <1>3, <2>1 DEF SourceSelect, SourceTick, SourceFsEvent, SourceFsError, limiterVars
<1>4. CASE LimiterStep
  <2>1. CASE ReceiverPut
    <3>1. Append(bufferCh, rcvEv) # <<>>
      BY DEF TypeOK, LimiterTypeOK
    <3> QED
      BY <2>1, <3>1 DEF ReceiverPut
  <2>2. CASE ReceiverDrop
    BY <2>2, BufferAssumption DEF BufferAssumption, ReceiverDrop, TypeOK, LimiterTypeOK
  <2>3. CASE SenderTake \/ SenderLimited
    BY <2>3 DEF SenderTake, SenderLimited
  <2> QED
    BY <1>4, <2>1, <2>2, <2>3 DEF LimiterStep
<1>5. CASE ObserverScanned \/ ObserverStop
  BY <1>5 DEF ObserverScanned, ObserverStop, sourceVars, limiterVars
<1>6. CASE SourceToReceiver
  BY <1>6 DEF SourceToReceiver, ReceiverTake
<1>7. CASE Stopper
  <2>1. CASE StopCalled \/ StopSource \/ StopWaitSource
    BY <2>1 DEF StopCalled, StopSource, StopWaitSource, SourceStop, SourceDone,
       sourceVars, limiterVars
  <2>2. CASE StopReceiver \/ StopSender \/ WaitReceiver \/ WaitSender
    BY <2>2 DEF StopReceiver, StopSender, WaitReceiver, WaitSender, ReceiverStop, SenderStop,
       ReceiverJoined, SenderJoined, sourceVars
  <2> QED
    BY <1>7, <2>1, <2>2 DEF Stopper
<1>8. CASE UNCHANGED vars
  BY <1>8 DEF vars
<1> QED
  BY <1>1, <1>2, <1>3, <1>4, <1>5, <1>6, <1>7, <1>8 DEF Next

\* A notification that passes the filters is itself on its way.
LEMMA NotificationInFlight ==
    ASSUME TypeOK, NEW event \in FsEvent, FileTouched(event), AnyFilter(event)
    PROVE  InFlight'
<1>1. /\ fsQueue' = Append(fsQueue, event)
      /\ Len(fsQueue) + 1 \in DOMAIN fsQueue'
      /\ fsQueue'[Len(fsQueue) + 1] = event
  BY DEF FileTouched, TypeOK, SourceTypeOK
<1> QED
  BY <1>1 DEF InFlight

\* At the start the initial event is on its way.
LEMMA LostInit == Init => NoNotificationLost
BY DEF Init, SourceInit, NoNotificationLost, InFlight

\* A scan is owed anew only for a notification on its way, and a wake-up is a scan.
LEMMA LostStep == TypeOK /\ NoNotificationLost /\ [Next]_vars => NoNotificationLost'
<1> SUFFICES ASSUME TypeOK, NoNotificationLost, [Next]_vars, owed', stopPc' = "idle"
             PROVE  InFlight'
  BY DEF NoNotificationLost
<1>1. CASE SourceToObserver \/ SenderToObserver
  BY <1>1 DEF SourceToObserver, SenderToObserver, ObserverWake
<1>2. CASE \E event \in FsEvent : FileTouched(event) /\ AnyFilter(event)
  BY <1>2, NotificationInFlight
<1>3. CASE owed /\ stopPc = "idle" /\ ~ SourceToObserver /\ ~ SenderToObserver
  BY <1>3, InFlightStep DEF NoNotificationLost
<1>4. stopPc = "idle"
  BY DEF Next, vars, FsTouch, Environment, SourceSelect, LimiterStep, ObserverScanned,
     ObserverStop, SourceToObserver, SourceToReceiver, SenderToObserver, Stopper, StopMove,
     StopCalled, StopSource, StopWaitSource, StopReceiver, StopSender, WaitReceiver, WaitSender
<1>5. owed \/ \E event \in FsEvent : FileTouched(event) /\ AnyFilter(event)
  BY DEF TypeOK, Next, vars, FsTouch, Environment, SourceSelect, LimiterStep, ObserverScanned,
     ObserverStop, SourceToObserver, SourceToReceiver, SenderToObserver, ObserverWake,
     Stopper, StopMove, StopCalled, StopSource, StopWaitSource, StopReceiver, StopSender,
     WaitReceiver, WaitSender
<1> QED
  BY <1>1, <1>2, <1>3, <1>4, <1>5

(***************************************************************************)
(* No notification is lost, for any capacity of bufferCh: dropping the     *)
(* newest event of a burst and dropping ticks still leaves an event on its *)
(* way to the observer whenever a scan is owed.                            *)
(***************************************************************************)
THEOREM NotificationsReachAScan == Spec => []NoNotificationLost
BY LostInit, LostStep, TypeCorrect, PTL DEF Spec

----------------------------------------------------------------------------

(***************************************************************************)
(* The order Stop() imposes: past es.Stop() the source has left its loop,  *)
(* and the receiver ends only after es.Wait() has returned.  This makes    *)
(* SourceNeverOrphaned inductive.                                          *)
(***************************************************************************)
StopOrder ==
    /\ stopPc \notin {"idle", "stopSource"} => esPc \in {"done", "exited"}
    /\ rcvPc = "exited" =>
          stopPc \notin {"idle", "stopSource", "waitSource", "stopReceiver"}

\* At the start nobody has called Stop.
LEMMA StopOrderInit == Init => StopOrder
BY DEF Init, SourceInit, LimiterInit, StopOrder

\* Every step keeps the order of Stop.
LEMMA StopOrderStep == StopOrder /\ [Next]_vars => StopOrder'
<1> USE DEF StopOrder
<1> SUFFICES ASSUME StopOrder, [Next]_vars PROVE StopOrder'
  OBVIOUS
<1>1. CASE FsTouch \/ Environment
  BY <1>1 DEF FsTouch, FileTouched, Environment, TickerFires, WatchOverflow, limiterVars
<1>2. CASE SourceSelect
  BY <1>2 DEF SourceSelect, SourceTick, SourceFsEvent, SourceFsEventFiltered,
     SourceFsError, limiterVars
<1>3. CASE LimiterStep
  BY <1>3 DEF LimiterStep, ReceiverPut, ReceiverDrop, SenderTake, SenderLimited, sourceVars
<1>4. CASE ObserverScanned \/ ObserverStop
  BY <1>4 DEF ObserverScanned, ObserverStop, sourceVars, limiterVars
<1>5. CASE SourceToObserver \/ SourceToReceiver
  BY <1>5 DEF SourceToObserver, SourceToReceiver, SourceSend, ReceiverTake, limiterVars
<1>6. CASE SenderToObserver
  BY <1>6 DEF SenderToObserver, SenderSend, sourceVars
<1>7. CASE StopCalled \/ StopSource \/ StopWaitSource
  BY <1>7 DEF StopMove, StopCalled, StopSource, StopWaitSource, SourceStop,
     SourceDone, sourceVars, limiterVars
<1>8. CASE StopReceiver \/ StopSender \/ WaitReceiver \/ WaitSender
  BY <1>8 DEF StopMove, StopReceiver, StopSender, WaitReceiver, WaitSender,
     ReceiverStop, SenderStop, ReceiverJoined, SenderJoined, sourceVars
<1>9. CASE UNCHANGED vars
  BY <1>9 DEF vars
<1> QED
  BY <1>1, <1>2, <1>3, <1>4, <1>5, <1>6, <1>7, <1>8, <1>9 DEF Next, Stopper

(***************************************************************************)
(* RateLimitedEventSource.Stop never leaves the source blocked on a        *)
(* channel whose reader has exited.                                        *)
(***************************************************************************)
THEOREM SourceKeepsItsReader == Spec => []SourceNeverOrphaned
<1>1. StopOrder => SourceNeverOrphaned
  BY DEF StopOrder, SourceNeverOrphaned
<1> QED
  BY <1>1, StopOrderInit, StopOrderStep, PTL DEF Spec

----------------------------------------------------------------------------

(***************************************************************************)
(* What Stop() has achieved when it and Wait() have returned, and that the *)
(* limiter's goroutines do nothing when createEventSource did not start    *)
(* them.                                                                   *)
(***************************************************************************)
StopDone ==
    /\ ~ limited => rcvPc = "select" /\ sndPc = "select" /\ bufferCh = <<>>
    /\ stopPc \in {"stopReceiver", "stopSender", "waitReceiver", "waitSender"} => limited
    /\ stopPc \in {"stopReceiver", "stopSender", "waitReceiver", "waitSender", "stopped"}
          => esPc = "exited"
    /\ (limited /\ stopPc \in {"waitReceiver", "waitSender", "stopped"}) => sndPc = "exited"

\* At the start Stop has achieved nothing.
LEMMA StopDoneInit == Init => StopDone
BY DEF Init, SourceInit, LimiterInit, StopDone

\* Every step keeps what Stop has achieved.
LEMMA StopDoneStep == StopDone /\ [Next]_vars => StopDone'
<1> USE DEF StopDone
<1> SUFFICES ASSUME StopDone, [Next]_vars PROVE StopDone'
  OBVIOUS
<1>1. CASE FsTouch \/ Environment
  BY <1>1 DEF FsTouch, FileTouched, Environment, TickerFires, WatchOverflow, limiterVars
<1>2. CASE SourceSelect
  BY <1>2 DEF SourceSelect, SourceTick, SourceFsEvent, SourceFsEventFiltered,
     SourceFsError, limiterVars
<1>3. CASE LimiterStep
  BY <1>3 DEF LimiterStep, ReceiverPut, ReceiverDrop, SenderTake, SenderLimited, sourceVars
<1>4. CASE ObserverScanned \/ ObserverStop
  BY <1>4 DEF ObserverScanned, ObserverStop, sourceVars, limiterVars
<1>5. CASE SourceToObserver \/ SourceToReceiver
  BY <1>5 DEF SourceToObserver, SourceToReceiver, SourceSend, ReceiverTake, limiterVars
<1>6. CASE SenderToObserver
  BY <1>6 DEF SenderToObserver, SenderSend, sourceVars
<1>7. CASE StopCalled \/ StopSource \/ StopWaitSource
  BY <1>7 DEF StopMove, StopCalled, StopSource, StopWaitSource, SourceStop,
     SourceDone, sourceVars, limiterVars
<1>8. CASE StopReceiver \/ StopSender \/ WaitReceiver \/ WaitSender
  BY <1>8 DEF StopMove, StopReceiver, StopSender, WaitReceiver, WaitSender,
     ReceiverStop, SenderStop, ReceiverJoined, SenderJoined, sourceVars
<1>9. CASE UNCHANGED vars
  BY <1>9 DEF vars
<1> QED
  BY <1>1, <1>2, <1>3, <1>4, <1>5, <1>6, <1>7, <1>8, <1>9 DEF Next, Stopper

(***************************************************************************)
(* The observer reads no event once Stop() and Wait() have returned, with  *)
(* or without a rate limiter.                                              *)
(***************************************************************************)
THEOREM NothingAfterStop == Spec => QuietAfterStop
<1>1. StopDone /\ [Next]_vars => [stopPc # "stopped"]_obsEv
  <2> SUFFICES ASSUME StopDone, [Next]_vars, obsEv' # obsEv PROVE stopPc # "stopped"
    OBVIOUS
  <2>1. CASE SourceToObserver
    BY <2>1 DEF SourceToObserver, SourceSend, StopDone
  <2>2. CASE SenderToObserver
    BY <2>2 DEF SenderToObserver, SenderSend, StopDone
  <2> QED
    BY <2>1, <2>2 DEF Next, vars, FsTouch, Environment, SourceSelect, LimiterStep,
       ObserverScanned, ObserverStop, SourceToReceiver, Stopper, StopMove, StopCalled,
       StopSource, StopWaitSource, StopReceiver, StopSender, WaitReceiver, WaitSender
<1> QED
  BY <1>1, StopDoneInit, StopDoneStep, PTL DEF Spec, QuietAfterStop

----------------------------------------------------------------------------

(***************************************************************************)
(* The order of timestamps.  An event is in order after another one when   *)
(* it is a timer event or its timestamp is not smaller.  Every event on    *)
(* its way is in order after every event ahead of it and after lastWakeup. *)
(***************************************************************************)
InOrder(e, f) == IsTimer(f) \/ e.ts <= f.ts

NotAhead ==
    /\ obsEv.ts <= now /\ esEv.ts <= now /\ rcvEv.ts <= now /\ sndEv.ts <= now
    /\ \A i \in 1 .. Len(bufferCh) : bufferCh[i].ts <= now
    /\ ticker # <<>> => ticker[1] <= now

OrderAtSender ==
    sndPc \in {"take", "send"} => InOrder(obsEv, sndEv)

OrderInBuffer ==
    \A i \in 1 .. Len(bufferCh) :
        /\ InOrder(obsEv, bufferCh[i])
        /\ sndPc \in {"take", "send"} => InOrder(sndEv, bufferCh[i])
        /\ \A j \in 1 .. i - 1 : InOrder(bufferCh[j], bufferCh[i])

OrderAtReceiver ==
    rcvPc = "put" =>
        /\ InOrder(obsEv, rcvEv)
        /\ sndPc \in {"take", "send"} => InOrder(sndEv, rcvEv)
        /\ \A j \in 1 .. Len(bufferCh) : InOrder(bufferCh[j], rcvEv)

OrderAtSource ==
    esPc \in {"initial", "send"} =>
        /\ InOrder(obsEv, esEv)
        /\ sndPc \in {"take", "send"} => InOrder(sndEv, esEv)
        /\ \A j \in 1 .. Len(bufferCh) : InOrder(bufferCh[j], esEv)
        /\ rcvPc = "put" => InOrder(rcvEv, esEv)

OrderInv == NotAhead /\ OrderAtSender /\ OrderInBuffer /\ OrderAtReceiver /\ OrderAtSource

\* At the start there is one event, stamped with the current time.
LEMMA OrderInit == Init => OrderInv
BY DEF Init, SourceInit, LimiterInit, NoEvent, OrderInv, NotAhead, OrderAtSender,
   OrderInBuffer, OrderAtReceiver, OrderAtSource, InOrder, IsTimer

\* Every step keeps the events in order.
LEMMA OrderStep == TypeOK /\ StopDone /\ OrderInv /\ [Next]_vars => OrderInv'
<1> USE SourceAssumption, BufferAssumption DEF SourceAssumption, BufferAssumption
<1> USE DEF OrderInv, NotAhead, OrderAtSender, OrderInBuffer, OrderAtReceiver,
            OrderAtSource, InOrder, IsTimer
<1> SUFFICES ASSUME TypeOK, StopDone, OrderInv, [Next]_vars PROVE OrderInv'
  OBVIOUS
<1> DEFINE Typed ==
      /\ now \in Nat
      /\ ticker # <<>> => ticker[1] \in Nat
      /\ esEv.ts \in Nat /\ rcvEv.ts \in Nat /\ sndEv.ts \in Nat /\ obsEv.ts \in Nat
      /\ bufferCh \in Seq(Event)
      /\ Len(bufferCh) \in Nat
      /\ \A i \in 1 .. Len(bufferCh) : bufferCh[i].ts \in Nat
<1>0. Typed
  <2>1. \A e \in Event : e.ts \in Nat
    BY DEF Event, Time
  <2>2. ticker # <<>> => ticker[1] \in Nat
    BY DEF TypeOK, SourceTypeOK, Time
  <2>3. /\ bufferCh \in Seq(Event)
        /\ Len(bufferCh) \in Nat
        /\ \A i \in 1 .. Len(bufferCh) : bufferCh[i] \in Event
    BY DEF TypeOK, LimiterTypeOK
  <2> QED
    BY <2>1, <2>2, <2>3 DEF TypeOK, SourceTypeOK, LimiterTypeOK, Time
<1>a. Later(now) >= now /\ Later(now) \in Nat
  BY <1>0 DEF Later
<1>1. CASE FsTouch
  <2>1. /\ now' = Later(now)
        /\ UNCHANGED <<ticker, esPc, esEv, rcvPc, rcvEv, bufferCh, sndPc, sndEv, obsEv>>
    BY <1>1 DEF FsTouch, FileTouched, limiterVars
  <2> QED
    BY <1>0, <1>a, <2>1
<1>2. CASE Environment
  <2>1. CASE TickerFires
    <3>1. /\ now' = Later(now)
          /\ UNCHANGED <<esPc, esEv, rcvPc, rcvEv, bufferCh, sndPc, sndEv, obsEv>>
      BY <1>2, <2>1 DEF Environment, TickerFires, limiterVars
    <3>2. ticker' = <<now'>> \/ (ticker # <<>> /\ ticker' = ticker)
      BY <2>1 DEF TickerFires
    <3>3. ticker' # <<>> => ticker'[1] <= now'
      <4>1. CASE ticker' = <<now'>>
        BY <1>a, <3>1, <4>1
      <4>2. CASE ticker # <<>> /\ ticker' = ticker
        BY <1>0, <1>a, <3>1, <4>2
      <4> QED
        BY <3>2, <4>1, <4>2
    <3>4. NotAhead'
      BY <1>0, <1>a, <3>1, <3>3
    <3>5. OrderAtSender' /\ OrderInBuffer' /\ OrderAtReceiver' /\ OrderAtSource'
      BY <3>1
    <3> QED
      BY <3>4, <3>5
  <2>2. CASE WatchOverflow
    <3>1. /\ now' = Later(now)
          /\ UNCHANGED <<ticker, esPc, esEv, rcvPc, rcvEv, bufferCh, sndPc, sndEv, obsEv>>
      BY <1>2, <2>2 DEF Environment, WatchOverflow, limiterVars
    <3> QED
      BY <1>0, <1>a, <3>1
  <2> QED
    BY <1>2, <2>1, <2>2 DEF Environment
<1>3. CASE SourceSelect
  <2>1. CASE SourceTick
    BY <1>0, <1>3, <2>1 DEF SourceSelect, SourceTick, limiterVars
  <2>2. CASE SourceFsEvent
    <3>1. /\ esEv' = [ts |-> now, timer |-> FALSE]
          /\ esPc' = "send"
          /\ UNCHANGED <<now, ticker, rcvPc, rcvEv, bufferCh, sndPc, sndEv, obsEv>>
      BY <1>3, <2>2 DEF SourceSelect, SourceFsEvent, limiterVars
    <3>2. NotAhead'
      BY <1>0, <3>1
    <3>3. OrderAtSender' /\ OrderInBuffer' /\ OrderAtReceiver'
      BY <3>1
    <3>4. OrderAtSource'
      BY <1>0, <3>1
    <3> QED
      BY <3>2, <3>3, <3>4
  <2>3. CASE SourceFsEventFiltered \/ SourceFsError
    BY <1>3, <2>3 DEF SourceSelect, SourceFsEventFiltered, SourceFsError, limiterVars
  <2> QED
    BY <1>3, <2>1, <2>2, <2>3 DEF SourceSelect
<1>4. CASE LimiterStep
  <2>1. CASE ReceiverPut
    <3>1. /\ Len(bufferCh') = Len(bufferCh) + 1
          /\ \A i \in 1 .. Len(bufferCh) : bufferCh'[i] = bufferCh[i]
          /\ bufferCh'[Len(bufferCh) + 1] = rcvEv
      BY <1>0, <2>1 DEF ReceiverPut
    <3>2. /\ rcvPc = "put" /\ rcvPc' = "select"
          /\ UNCHANGED <<now, ticker, esPc, esEv, rcvEv, sndPc, sndEv, obsEv>>
      BY <1>4, <2>1 DEF LimiterStep, ReceiverPut, sourceVars
    <3>3. \A i \in 1 .. Len(bufferCh') : i \in 1 .. Len(bufferCh) \/ i = Len(bufferCh) + 1
      BY <1>0, <3>1
    <3>4. NotAhead'
      BY <1>0, <3>1, <3>2, <3>3
    <3>5. OrderAtSender' /\ OrderAtReceiver'
      BY <3>2
    <3>6. OrderInBuffer'
      <4> SUFFICES ASSUME NEW i \in 1 .. Len(bufferCh')
                   PROVE  /\ InOrder(obsEv, bufferCh'[i])
                          /\ sndPc \in {"take", "send"} => InOrder(sndEv, bufferCh'[i])
                          /\ \A j \in 1 .. i - 1 : InOrder(bufferCh'[j], bufferCh'[i])
        BY <3>2
      <4>1. CASE i \in 1 .. Len(bufferCh)
        <5>1. bufferCh'[i] = bufferCh[i]
              /\ \A j \in 1 .. i - 1 : bufferCh'[j] = bufferCh[j]
          BY <1>0, <3>1, <4>1
        <5> QED
          BY <4>1, <5>1
      <4>2. CASE i = Len(bufferCh) + 1
        <5>1. bufferCh'[i] = rcvEv /\ i - 1 = Len(bufferCh)
          BY <1>0, <3>1, <4>2
        <5>2. \A j \in 1 .. i - 1 : InOrder(bufferCh'[j], rcvEv)
          BY <3>1, <3>2, <5>1
        <5> QED
          BY <3>2, <5>1, <5>2
      <4> QED
        BY <3>3, <4>1, <4>2
    <3>7. OrderAtSource'
      BY <1>0, <3>1, <3>2, <3>3
    <3> QED
      BY <3>4, <3>5, <3>6, <3>7
  <2>2. CASE ReceiverDrop
    BY <1>0, <1>4, <2>2 DEF LimiterStep, ReceiverDrop, sourceVars
  <2>3. CASE SenderTake
    <3>1. /\ Len(bufferCh) >= 1
          /\ sndEv' = bufferCh[1]
          /\ Len(bufferCh') = Len(bufferCh) - 1
          /\ \A i \in 1 .. Len(bufferCh') : bufferCh'[i] = bufferCh[i + 1]
      BY <1>0, <2>3 DEF SenderTake
    <3>2. /\ sndPc' = "take"
          /\ UNCHANGED <<now, ticker, esPc, esEv, rcvPc, rcvEv, obsEv>>
      BY <1>4, <2>3 DEF LimiterStep, SenderTake, sourceVars
    <3>3. /\ 1 \in 1 .. Len(bufferCh)
          /\ \A i \in 1 .. Len(bufferCh') :
                /\ i + 1 \in 1 .. Len(bufferCh)
                /\ 1 \in 1 .. (i + 1) - 1
                /\ \A j \in 1 .. i - 1 : j \in 1 .. Len(bufferCh') /\ j + 1 \in 1 .. (i + 1) - 1
      BY <1>0, <3>1
    <3>4. NotAhead'
      BY <3>1, <3>2, <3>3
    <3>5. OrderAtSender'
      BY <3>1, <3>2, <3>3
    <3>6. OrderInBuffer'
      BY <3>1, <3>2, <3>3
    <3>7. OrderAtReceiver'
      BY <3>1, <3>2, <3>3
    <3>8. OrderAtSource'
      BY <3>1, <3>2, <3>3
    <3> QED
      BY <3>4, <3>5, <3>6, <3>7, <3>8
  <2>4. CASE SenderLimited
    BY <1>0, <1>4, <2>4 DEF LimiterStep, SenderLimited, sourceVars
  <2> QED
    BY <1>4, <2>1, <2>2, <2>3, <2>4 DEF LimiterStep
<1>5. CASE ObserverScanned \/ ObserverStop
  BY <1>5 DEF ObserverScanned, ObserverStop, sourceVars, limiterVars
<1>6. CASE SourceToObserver
  BY <1>0, <1>6 DEF SourceToObserver, SourceSend, ObserverWake, limiterVars, StopDone
<1>7. CASE SourceToReceiver
  BY <1>0, <1>7 DEF SourceToReceiver, SourceSend, ReceiverTake
<1>8. CASE SenderToObserver
  BY <1>0, <1>8 DEF SenderToObserver, SenderSend, ObserverWake, sourceVars
<1>9. CASE StopCalled \/ StopSource \/ StopWaitSource
  BY <1>0, <1>9 DEF StopMove, StopCalled, StopSource, StopWaitSource, SourceStop,
     SourceDone, sourceVars, limiterVars
<1>10. CASE StopReceiver \/ StopSender \/ WaitReceiver \/ WaitSender
  BY <1>0, <1>10 DEF StopMove, StopReceiver, StopSender, WaitReceiver, WaitSender,
     ReceiverStop, SenderStop, ReceiverJoined, SenderJoined, sourceVars
<1>11. CASE UNCHANGED vars
  BY <1>11 DEF vars
<1> QED
  BY <1>1, <1>2, <1>3, <1>4, <1>5, <1>6, <1>7, <1>8, <1>9, <1>10, <1>11 DEF Next, Stopper

(***************************************************************************)
(* lastWakeup moves back only when the observer reads a timer event.       *)
(***************************************************************************)
THEOREM TimestampOrder == Spec => BackwardsOnlyByTimer
<1>1. OrderInv /\ TypeOK /\ [Next]_vars => [obsEv'.ts >= obsEv.ts \/ IsTimer(obsEv')]_obsEv
  <2> SUFFICES ASSUME OrderInv, TypeOK, [Next]_vars, obsEv' # obsEv
               PROVE  obsEv'.ts >= obsEv.ts \/ IsTimer(obsEv')
    OBVIOUS
  <2>0. obsEv.ts \in Nat /\ esEv.ts \in Nat /\ sndEv.ts \in Nat
    BY DEF TypeOK, SourceTypeOK, LimiterTypeOK, Event, Time
  <2>1. CASE SourceToObserver
    BY <2>0, <2>1 DEF SourceToObserver, SourceSend, ObserverWake, OrderInv,
       OrderAtSource, InOrder
  <2>2. CASE SenderToObserver
    BY <2>0, <2>2 DEF SenderToObserver, SenderSend, ObserverWake, OrderInv,
       OrderAtSender, InOrder
  <2> QED
    BY <2>1, <2>2 DEF Next, vars, FsTouch, Environment, SourceSelect, LimiterStep,
       ObserverScanned, ObserverStop, SourceToReceiver, Stopper, StopMove, StopCalled,
       StopSource, StopWaitSource, StopReceiver, StopSender, WaitReceiver, WaitSender
<1> QED
  BY <1>1, OrderInit, OrderStep, StopDoneInit, StopDoneStep, TypeCorrect, PTL
     DEF Spec, BackwardsOnlyByTimer

============================================================================
