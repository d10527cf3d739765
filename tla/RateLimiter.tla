---------------------------- MODULE RateLimiter ----------------------------
(***************************************************************************)
(* pkg/ratelimiter: the RateLimitedEventSource, which decorates an event   *)
(* source.  The receiver goroutine moves events from the source into       *)
(* bufferCh and silently drops an event that does not fit; the sender      *)
(* goroutine takes them out, waits for the limiter and sends them on.      *)
(* doneReceiverCh and doneSenderCh have capacity one; the two stop         *)
(* channels and outCh are unbuffered.                                      *)
(***************************************************************************)
EXTENDS EventSource

CONSTANT BufferSize    \* bufferSize, the capacity of bufferCh (5 in the code)

ASSUME BufferAssumption == BufferSize \in Nat \ {0}

VARIABLES
    rcvPc,      \* where receiver() is
    rcvEv,      \* incomingEvent, the event receiver() read last
    bufferCh,   \* the buffered events, oldest first
    sndPc,      \* where sender() is
    sndEv,      \* the event sender() read last
    rcvDone,    \* doneReceiverCh holds a token
    sndDone     \* doneSenderCh holds a token

limiterVars == <<rcvPc, rcvEv, bufferCh, sndPc, sndEv, rcvDone, sndDone>>

LimiterTypeOK ==
    /\ rcvPc \in {"select", "put", "exited"}
    /\ rcvEv \in Event
    /\ bufferCh \in Seq(Event)
    /\ Len(bufferCh) <= BufferSize
    /\ sndPc \in {"select", "take", "send", "exited"}
    /\ sndEv \in Event
    /\ rcvDone \in BOOLEAN
    /\ sndDone \in BOOLEAN

NoEvent == [ts |-> 0, timer |-> FALSE]

LimiterInit ==
    /\ rcvPc = "select"
    /\ rcvEv = NoEvent
    /\ bufferCh = <<>>
    /\ sndPc = "select"
    /\ sndEv = NoEvent
    /\ rcvDone = FALSE
    /\ sndDone = FALSE

----------------------------------------------------------------------------

\* receiver(): case incomingEvent := <-rles.inCh, the receiver's half.
ReceiverTake(ev) ==
    /\ rcvPc = "select"
    /\ rcvEv' = ev
    /\ rcvPc' = "put"
    /\ UNCHANGED <<bufferCh, sndPc, sndEv, rcvDone, sndDone>>

\* Mutant: the room is miscounted by one.
ReceiverPutOverfull ==
    /\ rcvPc = "put"
    /\ Len(bufferCh) <= BufferSize
    /\ bufferCh' = Append(bufferCh, rcvEv)
    /\ rcvPc' = "select"
    /\ UNCHANGED <<rcvEv, sndPc, sndEv, rcvDone, sndDone>>

\* The inner select: there is room in bufferCh.
ReceiverPut ==
    /\ rcvPc = "put"
    /\ Len(bufferCh) < BufferSize
    /\ bufferCh' = Append(bufferCh, rcvEv)
    /\ rcvPc' = "select"
    /\ UNCHANGED <<rcvEv, sndPc, sndEv, rcvDone, sndDone>>

\* The inner select's default: bufferCh is full, the event is dropped.
ReceiverDrop ==
    /\ rcvPc = "put"
    /\ Len(bufferCh) = BufferSize
    /\ rcvPc' = "select"
    /\ UNCHANGED <<rcvEv, bufferCh, sndPc, sndEv, rcvDone, sndDone>>

\* Mutant: the receiver returns without its token.
ReceiverStopSilent ==
    /\ rcvPc = "select"
    /\ rcvPc' = "exited"
    /\ UNCHANGED <<rcvEv, bufferCh, sndPc, sndEv, rcvDone, sndDone>>

\* receiver(): case <-rles.stopReceiverCh, then the token on doneReceiverCh.
ReceiverStop ==
    /\ rcvPc = "select"
    /\ rcvPc' = "exited"
    /\ rcvDone' = TRUE
    /\ UNCHANGED <<rcvEv, bufferCh, sndPc, sndEv, sndDone>>

\* sender(): case event := <-rles.bufferCh
SenderTake ==
    /\ sndPc = "select"
    /\ bufferCh # <<>>
    /\ sndEv' = Head(bufferCh)
    /\ bufferCh' = Tail(bufferCh)
    /\ sndPc' = "take"
    /\ UNCHANGED <<rcvPc, rcvEv, rcvDone, sndDone>>

\* rles.rt.Take() returns: the configured rate allows the next event.
SenderLimited ==
    /\ sndPc = "take"
    /\ sndPc' = "send"
    /\ UNCHANGED <<rcvPc, rcvEv, bufferCh, sndEv, rcvDone, sndDone>>

\* The send on outCh, the sender's half.
SenderSend(ev) ==
    /\ sndPc = "send"
    /\ ev = sndEv
    /\ sndPc' = "select"
    /\ UNCHANGED <<rcvPc, rcvEv, bufferCh, sndEv, rcvDone, sndDone>>

\* Mutant: the token is sent and the loop goes on.
SenderStopLoops ==
    /\ sndPc = "select"
    /\ sndDone' = TRUE
    /\ UNCHANGED <<rcvPc, rcvEv, bufferCh, sndPc, sndEv, rcvDone>>

\* sender(): case <-rles.stopSenderCh, whatever bufferCh still holds.
SenderStop ==
    /\ sndPc = "select"
    /\ sndPc' = "exited"
    /\ sndDone' = TRUE
    /\ UNCHANGED <<rcvPc, rcvEv, bufferCh, sndEv, rcvDone>>

\* wait(): <-rles.doneReceiverCh
ReceiverJoined ==
    /\ rcvDone
    /\ rcvDone' = FALSE
    /\ UNCHANGED <<rcvPc, rcvEv, bufferCh, sndPc, sndEv, sndDone>>

\* wait(): <-rles.doneSenderCh
SenderJoined ==
    /\ sndDone
    /\ sndDone' = FALSE
    /\ UNCHANGED <<rcvPc, rcvEv, bufferCh, sndPc, sndEv, rcvDone>>

============================================================================
