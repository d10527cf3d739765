---------------------- MODULE EventPipelineRefinement ----------------------
(***************************************************************************)
(* EventPipeline implements the safety part of Wakeups, for every capacity *)
(* of the buffers.  Only the observer's wake-up can take the last event on *)
(* its way (InFlightStep), and it finds the source not yet stopped         *)
(* (StopDone); every other step announces something or stutters.           *)
(***************************************************************************)
EXTENDS EventPipelineProofs

\* The pipeline starts in Wakeups' initial state.
LEMMA WakeupsInit == Init => W!Init
BY DEF Init, SourceInit, W!Init, InFlight, SourceState

\* A step that leaves owed, the observer and Stop alone announces or stutters.
LEMMA InternalStep ==
    ASSUME TypeOK, [Next]_vars, UNCHANGED <<obsPc, SourceState>>, owed' \in {owed, TRUE},
           owed' # owed => InFlight'
    PROVE  [W!Next]_(W!wakeupVars)
<1>1. ~ SourceToObserver /\ ~ SenderToObserver
  BY DEF SourceToObserver, SenderToObserver, ObserverWake
<1>2. CASE InFlight'
  BY <1>2 DEF W!Next, W!Announce
<1>3. CASE ~ InFlight'
  <2>1. ~ InFlight
    BY <1>1, <1>3, InFlightStep
  <2>2. InFlight' = InFlight /\ owed' = owed
    BY <1>3, <2>1 DEF InFlight
  <2> QED
    BY <2>2 DEF W!wakeupVars
<1> QED
  BY <1>2, <1>3

\* Every step of the pipeline is a step of Wakeups or stutters.
LEMMA WakeupsStep == TypeOK /\ StopDone /\ [Next]_vars => [W!Next]_(W!wakeupVars)
<1> SUFFICES ASSUME TypeOK, StopDone, [Next]_vars PROVE [W!Next]_(W!wakeupVars)
  OBVIOUS
<1>1. CASE FsTouch
  <2> PICK event \in FsEvent : /\ FileTouched(event)
                               /\ owed' = (owed \/ AnyFilter(event))
                               /\ UNCHANGED <<obsPc, stopPc>>
    BY <1>1 DEF FsTouch
  <2>1. owed' # owed => InFlight'
    BY NotificationInFlight DEF TypeOK
  <2>2. owed' \in {owed, TRUE}
    BY DEF TypeOK
  <2> QED
    BY <2>1, <2>2, InternalStep DEF SourceState
<1>2. CASE Environment \/ SourceSelect \/ LimiterStep \/ SourceToReceiver
  BY <1>2, InternalStep DEF Environment, SourceSelect, LimiterStep, SourceToReceiver, SourceState
<1>3. CASE ObserverScanned \/ ObserverStop
  <2>1. InFlight' = InFlight
    BY <1>3 DEF InFlight, ObserverScanned, ObserverStop, sourceVars, limiterVars
  <2>2. UNCHANGED <<owed, SourceState>>
    BY <1>3 DEF SourceState, ObserverScanned, ObserverStop
  <2> QED
    BY <1>3, <2>1, <2>2 DEF ObserverScanned, ObserverStop, W!Next, W!Scanned, W!ReaderLeaves
<1>4. CASE SourceToObserver \/ SenderToObserver
  <2>1. InFlight
    BY <1>4 DEF SourceToObserver, SourceSend, SenderToObserver, SenderSend, InFlight
  <2>2. SourceState # "stopped"
    BY <1>4 DEF SourceToObserver, SourceSend, SenderToObserver, SenderSend, StopDone, SourceState
  <2>3. obsPc = "select" /\ obsPc' = "scan" /\ owed' = FALSE /\ UNCHANGED SourceState
    BY <1>4 DEF SourceToObserver, SenderToObserver, ObserverWake, SourceState
  <2>4. InFlight' \in BOOLEAN
    BY DEF InFlight
  <2> QED
    BY <2>1, <2>2, <2>3, <2>4 DEF W!Next, W!Wake
<1>5. CASE StopCalled
  <2>1. InFlight' = InFlight /\ UNCHANGED <<owed, obsPc>>
    BY <1>5 DEF StopCalled, StopMove, InFlight, sourceVars, limiterVars
  <2> QED
    BY <1>5, <2>1 DEF StopCalled, StopMove, SourceState, W!Next, W!StopCalled
<1>6. CASE StopWaitSource /\ ~ limited
  <2>1. InFlight' = InFlight /\ UNCHANGED <<owed, obsPc>>
    BY <1>6 DEF StopWaitSource, StopMove, SourceDone, InFlight, limiterVars
  <2> QED
    BY <1>6, <2>1 DEF StopWaitSource, StopMove, SourceState, W!Next, W!StopReturned
<1>7. CASE WaitSender
  <2>1. InFlight' = InFlight /\ UNCHANGED <<owed, obsPc>>
    BY <1>7 DEF WaitSender, StopMove, SenderJoined, InFlight, sourceVars
  <2> QED
    BY <1>7, <2>1 DEF WaitSender, StopMove, SourceState, W!Next, W!StopReturned
<1>8. CASE StopSource \/ (StopWaitSource /\ limited) \/ StopReceiver \/ StopSender \/ WaitReceiver
  <2>1. UNCHANGED <<obsPc, owed, SourceState>>
    BY <1>8 DEF StopMove, StopSource, StopWaitSource, StopReceiver, StopSender, WaitReceiver,
       SourceState
  <2> QED
    BY <2>1, InternalStep
<1>9. CASE UNCHANGED vars
  BY <1>9, InternalStep DEF vars, SourceState
<1> QED
  BY <1>1, <1>2, <1>3, <1>4, <1>5, <1>6, <1>7, <1>8, <1>9 DEF Next, Stopper

(***************************************************************************)
(* Source, limiter and observer implement Wakeups: the observer wakes up   *)
(* only for an event and never after Stop, and dropping events never takes *)
(* the last one on its way.                                                *)
(***************************************************************************)
THEOREM PipelineImplementsWakeups == Spec => ImplementsWakeups
<1>1. Init /\ [][Next]_vars => []StopDone
  BY StopDoneInit, StopDoneStep, PTL
<1> QED
  BY <1>1, WakeupsInit, WakeupsStep, TypeCorrect, PTL DEF Spec, ImplementsWakeups, W!Spec

============================================================================
