-------------------------- MODULE ProducerSignals --------------------------
(***************************************************************************)
(* What an application sees of a producer besides its results: the         *)
(* coalesced blocked notifications, the observation stream and the health  *)
(* views, while the event loop, a publication that fails its generation,   *)
(* readers and Shutdown run concurrently.  The stream is ObservationStream *)
(* itself; how a recovery gets its connection is the module Opening.       *)
(***************************************************************************)
EXTENDS ObservationStream

CONSTANTS MaxNotices,    \* bound on connection.blocked notifications
          MaxLosses,     \* bound on generations lost to the connection
          MaxPublishes   \* bound on the observations of publications

VARIABLES
    loop,          \* where runEvents is
    setting,       \* where its call of setBlocked is
    blocked, buffer, delivered,   \* producer.blocked, blockedEvents, last state received
    publisher,     \* a publication in failGeneration, which holds publishMu
    failure,       \* a value waits in producer.failure
    producer,      \* closed, unavailable, recovering, terminal, stopped
    shutdown,      \* where startShutdown and finishShutdown are
    stopEvents,    \* eventsContext is done
    unheard,       \* the loop or shutdown observed into a closed stream
    notices, lost, publishes

stream == <<channel, dropped, emitter, held, closing, tail, emitted, reported>>
notification == <<setting, blocked, buffer, delivered>>
bounds == <<notices, lost, publishes>>
signals == <<loop, notification, publisher, failure, producer, shutdown, stopEvents, unheard,
             bounds>>
allVars == <<stream, signals>>

ASSUME SignalsAssumption ==
    /\ Emitters = {"loop", "publisher", "shutdown"}
    /\ MaxNotices \in Nat /\ MaxLosses \in Nat /\ MaxPublishes \in Nat

Flags == {"closed", "unavailable", "recovering", "terminal", "stopped"}

SignalsTypeOK ==
    /\ TypeOK
    /\ loop \in {"running", "unblocking", "marking", "closing", "recovering", "dialing",
                 "recovered", "givingUp", "deferring", "releasing", "released", "done"}
    /\ setting \in {"idle", "offering", "taking", "again"}
    /\ blocked \in BOOLEAN /\ delivered \in BOOLEAN
    /\ buffer \in Seq(BOOLEAN) /\ Len(buffer) <= 1
    /\ publisher \in {"idle", "signalling"}
    /\ failure \in BOOLEAN
    /\ producer \in [Flags -> BOOLEAN]
    /\ shutdown \in {"none", "draining", "awaiting", "closing", "done"}
    /\ stopEvents \in BOOLEAN /\ unheard \in BOOLEAN
    /\ notices \in 0..MaxNotices /\ lost \in 0..MaxLosses /\ publishes \in 0..MaxPublishes

\* newProducerFromChannelWithRecovery; its first observation is left out.
SignalsInit ==
    /\ Init
    /\ loop = "running" /\ setting = "idle"
    /\ blocked = FALSE /\ buffer = <<>> /\ delivered = FALSE
    /\ publisher = "idle" /\ failure = FALSE
    /\ producer = [f \in Flags |-> FALSE]
    /\ shutdown = "none" /\ stopEvents = FALSE /\ unheard = FALSE
    /\ notices = 0 /\ lost = 0 /\ publishes = 0

\* producer.observe by the loop or by shutdown.
Observe(e) ==
    \/ Emit(e) /\ UNCHANGED unheard
    \/ closing = "done" /\ unheard' = TRUE /\ UNCHANGED stream

Quiet == UNCHANGED <<stream, unheard>>

\* The loop is neither inside emit nor inside setBlocked.
LoopReady == emitter["loop"] = "idle" /\ setting = "idle"

-----------------------------------------------------------------------------
(* setBlocked, called by the loop only.                                    *)

SetBlocked(active, next) ==
    /\ LoopReady
    /\ loop' = next
    /\ \/ /\ active = blocked
          /\ Quiet /\ UNCHANGED <<blocked, setting>>
       \/ /\ active # blocked
          /\ blocked' = active
          /\ setting' = "offering"
          /\ Observe("loop")
    /\ UNCHANGED <<buffer, delivered, publisher, failure, producer, shutdown, stopEvents, lost,
                   publishes>>

SettingUnchanged ==
    /\ Quiet
    /\ UNCHANGED <<loop, blocked, delivered, publisher, failure, producer, shutdown,
                   stopEvents, bounds>>

\* offerBlockedState.
Offer ==
    /\ setting = "offering" /\ emitter["loop"] = "idle"
    /\ \/ /\ buffer = <<>>
          /\ buffer' = <<blocked>>
          /\ setting' = "idle"
       \/ /\ buffer # <<>>
          /\ setting' = "taking"
          /\ UNCHANGED buffer
    /\ SettingUnchanged

\* Mutant: the state that waits is kept.
TakeNothing ==
    /\ setting = "taking"
    /\ setting' = "again"
    /\ UNCHANGED buffer
    /\ SettingUnchanged

\* takeBlockedState; a reader may have been faster.
Take ==
    /\ setting = "taking"
    /\ buffer' = <<>>
    /\ setting' = "again"
    /\ SettingUnchanged

OfferAgain ==
    /\ setting = "again"
    /\ buffer' = IF buffer = <<>> THEN <<blocked>> ELSE buffer
    /\ setting' = "idle"
    /\ SettingUnchanged

\* An application receives from BlockedNotifications().
ReadBlocked ==
    /\ buffer # <<>>
    /\ delivered' = Head(buffer)
    /\ buffer' = <<>>
    /\ Quiet
    /\ UNCHANGED <<loop, setting, blocked, publisher, failure, producer, shutdown, stopEvents,
                   bounds>>

-----------------------------------------------------------------------------
(* runEvents.                                                              *)

LoopUnchanged == UNCHANGED <<notification, publisher, shutdown, stopEvents, notices, publishes>>

\* runGeneration: a notification of the broker.
Notified(active) ==
    /\ loop = "running" /\ notices < MaxNotices
    /\ notices' = notices + 1
    /\ SetBlocked(active, "running")

\* The connection or the confirm channel fails, or a publication says so.
GenerationFailed ==
    /\ loop = "running" /\ LoopReady
    /\ \/ /\ lost < MaxLosses
          /\ lost' = lost + 1
          /\ UNCHANGED failure
       \/ /\ failure
          /\ failure' = FALSE
          /\ UNCHANGED lost
    /\ loop' = "unblocking"
    /\ Quiet /\ LoopUnchanged /\ UNCHANGED producer

GenerationStopped ==
    /\ loop = "running" /\ LoopReady /\ stopEvents
    /\ loop' = "deferring"
    /\ Quiet /\ LoopUnchanged /\ UNCHANGED <<failure, producer, lost>>

Unblock ==
    /\ loop = "unblocking"
    /\ SetBlocked(FALSE, "marking")
    /\ UNCHANGED notices

\* markRecovering, by the loop and by a publication.
MarkRecovering(e) ==
    \/ /\ ~producer["closed"] /\ ~producer["recovering"]
       /\ producer' = [producer EXCEPT !["unavailable"] = TRUE, !["recovering"] = TRUE]
       /\ Observe(e)
    \/ /\ producer["closed"] \/ producer["recovering"]
       /\ Quiet /\ UNCHANGED producer

MarkLost ==
    /\ loop = "marking" /\ LoopReady
    /\ MarkRecovering("loop")
    /\ loop' = "closing"
    /\ LoopUnchanged /\ UNCHANGED <<failure, lost>>

\* failAll, closeProducerGeneration and the drained failure channel.
CloseGeneration ==
    /\ loop = "closing" /\ LoopReady
    /\ failure' = FALSE
    /\ loop' = "recovering"
    /\ Quiet /\ LoopUnchanged /\ UNCHANGED <<producer, lost>>

\* recoverRuntime, with one attempt.
Recover ==
    /\ loop = "recovering"
    /\ \/ /\ stopEvents
          /\ loop' = "givingUp"
          /\ Quiet
       \/ /\ ~stopEvents
          /\ loop' = "dialing"
          /\ Observe("loop")
    /\ LoopUnchanged /\ UNCHANGED <<failure, producer, lost>>

\* The new generation is installed under publishMu, with a failure channel of its
\* own, unless the producer has been closed or the attempt has failed.
Install ==
    /\ loop = "dialing" /\ LoopReady
    /\ \/ /\ publisher = "idle" /\ ~producer["closed"]
          /\ producer' = [producer EXCEPT !["unavailable"] = FALSE, !["recovering"] = FALSE]
          /\ failure' = FALSE
          /\ loop' = "recovered"
       \/ /\ loop' = "givingUp"
          /\ UNCHANGED <<producer, failure>>
    /\ Quiet /\ LoopUnchanged /\ UNCHANGED lost

\* Mutant: recovery that succeeded makes the producer available once more.
FinishRecoveredAgain ==
    /\ loop = "recovered"
    /\ producer' = [producer EXCEPT !["recovering"] = FALSE, !["unavailable"] = FALSE]
    /\ Observe("loop")
    /\ loop' = "running"
    /\ LoopUnchanged /\ UNCHANGED <<failure, lost>>

\* finishRecovery(true).
FinishRecovered ==
    /\ loop = "recovered"
    /\ producer' = [producer EXCEPT !["recovering"] = FALSE]
    /\ Observe("loop")
    /\ loop' = "running"
    /\ LoopUnchanged /\ UNCHANGED <<failure, lost>>

\* finishRecovery(false).
GiveUp ==
    /\ loop = "givingUp"
    /\ producer' = [producer EXCEPT !["recovering"] = FALSE,
                                    !["terminal"] = @ \/ ~producer["closed"]]
    /\ IF producer["closed"] THEN Quiet ELSE Observe("loop")
    /\ loop' = "deferring"
    /\ LoopUnchanged /\ UNCHANGED <<failure, lost>>

\* The deferred end of runEvents.
Defer ==
    /\ loop = "deferring"
    /\ SetBlocked(FALSE, "releasing")
    /\ UNCHANGED notices

\* close(blockedEvents) and close(eventsDone).
Release ==
    /\ LoopReady
    /\ \/ loop = "releasing" /\ loop' = "released"
       \/ loop = "released" /\ loop' = "done"
    /\ Quiet /\ LoopUnchanged /\ UNCHANGED <<failure, producer, lost>>

-----------------------------------------------------------------------------
(* Publications.                                                           *)

PublisherUnchanged ==
    UNCHANGED <<loop, notification, shutdown, stopEvents, notices, lost>>

\* Anything a publication observes; the stream may be closed by then.
PublisherObserves ==
    /\ publishes < MaxPublishes
    /\ publishes' = publishes + 1
    /\ Emit("publisher")
    /\ PublisherUnchanged /\ UNCHANGED <<publisher, failure, producer, unheard>>

\* failGeneration marks the producer, then signals the loop of that generation.
FailGeneration ==
    /\ publisher = "idle" /\ emitter["publisher"] = "idle"
    /\ publishes < MaxPublishes
    /\ publishes' = publishes + 1
    /\ MarkRecovering("publisher")
    /\ publisher' = "signalling"
    /\ PublisherUnchanged /\ UNCHANGED failure

SignalFailure ==
    /\ publisher = "signalling" /\ emitter["publisher"] = "idle"
    /\ failure' = TRUE
    /\ publisher' = "idle"
    /\ Quiet /\ PublisherUnchanged /\ UNCHANGED <<producer, publishes>>

-----------------------------------------------------------------------------
(* Shutdown.                                                               *)

ShutdownUnchanged == UNCHANGED <<loop, notification, publisher, failure, bounds>>

StartShutdown ==
    /\ shutdown = "none"
    /\ producer' = [producer EXCEPT !["closed"] = TRUE]
    /\ Observe("shutdown")
    /\ shutdown' = "draining"
    /\ ShutdownUnchanged /\ UNCHANGED stopEvents

\* Mutant: the generation is closed but the loop is not told to stop.
StopEventsUnsignalled ==
    /\ shutdown = "draining" /\ emitter["shutdown"] = "idle"
    /\ shutdown' = "awaiting"
    /\ Quiet /\ ShutdownUnchanged /\ UNCHANGED <<producer, stopEvents>>

\* Drained, forced or timed out: stopEvents() and the current generation's close.
StopEvents ==
    /\ shutdown = "draining" /\ emitter["shutdown"] = "idle"
    /\ stopEvents' = TRUE
    /\ shutdown' = "awaiting"
    /\ Quiet /\ ShutdownUnchanged /\ UNCHANGED producer

\* Mutant: finishShutdown does not wait for eventsDone.
AwaitNothing ==
    /\ shutdown = "awaiting"
    /\ producer' = [producer EXCEPT !["stopped"] = TRUE]
    /\ Observe("shutdown")
    /\ shutdown' = "closing"
    /\ ShutdownUnchanged /\ UNCHANGED stopEvents

\* eventsDone, then stopped and the last observation.
AwaitEvents ==
    /\ shutdown = "awaiting" /\ loop = "done"
    /\ producer' = [producer EXCEPT !["stopped"] = TRUE]
    /\ Observe("shutdown")
    /\ shutdown' = "closing"
    /\ ShutdownUnchanged /\ UNCHANGED stopEvents

CloseStream ==
    /\ shutdown = "closing" /\ emitter["shutdown"] = "idle"
    /\ RequestClose
    /\ shutdown' = "done"
    /\ ShutdownUnchanged /\ UNCHANGED <<producer, stopEvents, unheard>>

-----------------------------------------------------------------------------
LoopSteps ==
    \/ Offer \/ Take \/ OfferAgain
    \/ GenerationStopped \/ Unblock \/ MarkLost \/ CloseGeneration \/ Recover \/ Install
    \/ FinishRecovered \/ GiveUp \/ Defer \/ Release

ShutdownSteps == StopEvents \/ AwaitEvents \/ CloseStream

StreamSteps == (\E e \in Emitters : EmitSteps(e)) \/ CloseSteps

SignalsNext ==
    \/ \E active \in BOOLEAN : Notified(active)
    \/ GenerationFailed \/ LoopSteps
    \/ ReadBlocked
    \/ PublisherObserves \/ FailGeneration \/ SignalFailure
    \/ StartShutdown \/ ShutdownSteps
    \/ (StreamSteps \/ Receive) /\ UNCHANGED signals

SignalsSpec == SignalsInit /\ [][SignalsNext]_allVars

\* The goroutines of the package run; readers, the broker and publications owe
\* nothing, except that failGeneration, once begun, does not stop in the middle.
\* One condition for all calls of emit and close is weaker than one for each, and
\* enough: a behaviour makes finitely many observations.
SignalsFairSpec ==
    /\ SignalsSpec
    /\ WF_allVars(LoopSteps) /\ WF_allVars(ShutdownSteps) /\ WF_allVars(SignalFailure)
    /\ WF_allVars(StreamSteps /\ UNCHANGED signals)

-----------------------------------------------------------------------------
(* health.go.                                                              *)

\* Mutant: a stopped producer is stopped, whatever happened before.
LivenessStoppedFirst ==
    CASE producer["stopped"] -> "stopped"
      [] ~producer["stopped"] /\ producer["terminal"] -> "failed"
      [] OTHER -> "live"

Liveness ==
    CASE producer["terminal"] -> "failed"
      [] ~producer["terminal"] /\ producer["stopped"] -> "stopped"
      [] OTHER -> "live"

Ready ==
    ~(producer["closed"] \/ producer["unavailable"] \/ producer["recovering"] \/ blocked
      \/ producer["terminal"])

DependencyHealth ==
    IF producer["terminal"] THEN "unavailable"
    ELSE IF producer["stopped"] \/ producer["closed"] THEN "unknown"
    ELSE IF producer["recovering"] THEN "recovering"
    ELSE IF blocked THEN "blocked"
    ELSE IF producer["unavailable"] THEN "unavailable"
    ELSE "available"

-----------------------------------------------------------------------------
(* Properties.                                                             *)

\* Between two calls of setBlocked the newest state waits in BlockedNotifications()
\* or is the last one received, however readers race with the replacement.
NewestBlockedKept ==
    setting = "idle" => blocked = IF buffer = <<>> THEN delivered ELSE buffer[1]

\* The blocked state ends with its generation (runEvents): no recovery runs, and the
\* channel is not closed, while the producer is still marked blocked.
BlockedEnds ==
    loop \in {"marking", "closing", "recovering", "dialing", "recovered", "releasing", "released",
              "done"} => ~blocked

\* Both: an application that reads BlockedNotifications() is never left with a state
\* that is not the newest, nor with that of a connection which is gone.
BlockedFaithful == NewestBlockedKept /\ BlockedEnds

\* Neither the event loop nor finishShutdown ever observes into a closed stream, so
\* the terminal event comes after everything they have to say.
LifecycleHeard == ~unheard

\* While a generation is being replaced, after the loop has ended, and from the
\* signal of a failed publication until its generation is replaced, the producer is
\* not ready and its dependency not available (Readiness, DependencyHealth).
OutageReported ==
    failure \/ loop \in {"closing", "recovering", "dialing", "givingUp", "deferring", "done"}
        => ~Ready /\ DependencyHealth # "available"

\* A producer that failed or stopped stays so in Liveness(): Shutdown of a failed
\* producer does not turn it into a stopped one, nor a late recovery a stopped one
\* into a failed.
LivenessFinal == [][Liveness # "live" => Liveness' = Liveness]_allVars

\* Shutdown ends runEvents and closes both streams (finishShutdown) without any reader.
StreamsClose == producer["closed"] ~> closing = "done" /\ loop = "done"
=============================================================================
