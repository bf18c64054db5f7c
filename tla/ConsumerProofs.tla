--------------------------- MODULE ConsumerProofs ---------------------------
(***************************************************************************)
(* What consumer.go promises about admission, the health it reports, the   *)
(* deliveries it settles, the connections it owns and the wake-ups of its  *)
(* loop, for any messages, workers, prefetch, attempts and generations.    *)
(***************************************************************************)
EXTENDS Consumer, SequenceTheorems, TLAPS

\* The job queue and the backlog are sequences.
Queues ==
    /\ generation \in Nat /\ read \in Nat
    /\ pending \in Seq(Nat)
    /\ jobs \in Seq(Nat \X Nat)

\* What held when admissionMu was taken still holds: only Pause, Resume and Shutdown
\* could change it, and they wait for the lock.
Admission ==
    loop = "admitting" =>
        pending # <<>> /\ (~paused \/ draining) /\ ~ShutdownAdmissionClosed

\* Every reason for which the loop ends for good leaves a trace in the state.
Ending ==
    /\ drain \in [Drains -> {"idle", "cancelling", "waiting", "aborting", "failing", "done"}]
    /\ \A d \in Drains : drain[d] # "idle" => stopping
    /\ lifetimeStopped => stopping \/ terminal
    /\ deliveriesClosed => stopping
    /\ loop \in {"ending", "waiting"} => stopping \/ terminal

\* recovering is set from the loss of a generation to the installation of the next;
\* while the loop still consumes, the signal that will make it stop is waiting.
Recovering ==
    /\ loop \in LoopPoints
    /\ loop \in {"closing", "recovering", "installing"} => recovering \/ stopping \/ terminal
    /\ loop \in Consuming /\ recovering => generation \in failure \/ stopping \/ terminal

\* Once the loop is done no worker is busy, and a settlement that failed while the
\* consumer was stopping is a drain error or about to become one.
Failing(w) == worker[w] = "failing" /\ OnCurrent(w)
Reporting ==
    /\ worker \in [Workers -> {"idle", "handling", "settling", "sent", "failing"}]
    /\ DOMAIN envelope = Workers
    /\ loop = "done" => jobs = <<>> /\ \A w \in Workers : worker[w] = "idle"
    /\ "unsettled" \in losses =>
           stopping /\ (drainErr \/ \E w \in Workers : Failing(w))
    /\ result \in [Drains -> {"none", "ok", "error"}]
    /\ \A d \in Drains : result[d] = "ok" => loop = "done" /\ "unsettled" \notin losses

-----------------------------------------------------------------------------
(* Admission.                                                              *)

\* newConsumerFromChannelWithRecovery starts with an empty backlog, outside the admission lock.
LEMMA AdmissionInit == Init => Queues /\ Admission
  BY DEF Init, Queues, Admission, ShutdownAdmissionClosed

\* The loop takes one delivery at a time, and only Admit adds to the job queue.
LEMMA QueueSteps ==
    ASSUME Admission, [Next]_vars
    PROVE  /\ generation' \in {generation, generation + 1}
           /\ read' \in {read, read + 1, 0}
           /\ \/ pending' \in {pending, <<>>, Append(pending, read')} /\ jobs' = jobs
              \/ pending' = pending /\ jobs # <<>> /\ jobs' = Tail(jobs)
              \/ /\ loop = "admitting" /\ pending # <<>>
                 /\ pending' = Tail(pending)
                 /\ jobs' = Append(jobs, <<generation, Head(pending)>>)
  <1>1. CASE LoopTop
    BY <1>1 DEF LoopTop, Leave, LoopUnchanged
  <1>2. CASE Admit
    BY <1>2 DEF Admit, Admission, LoopUnchanged
  <1>3. CASE ReceiveDelivery
    BY <1>3, Zenon DEF ReceiveDelivery, LoopUnchanged
  <1>4. CASE \/ ReceiveClose \/ Wake \/ ReceiveCancel \/ ReceiveFailure
             \/ ReceiveRecoveryDone \/ ReceiveLifetimeDone
    BY <1>4 DEF ReceiveClose, Wake, ReceiveCancel, ReceiveFailure, ReceiveRecoveryDone,
                ReceiveLifetimeDone, Return, Leave, LoopUnchanged
  <1>5. CASE RejectSent \/ RejectReturns \/ RejectFails
    BY <1>5 DEF RejectSent, RejectReturns, RejectFails, Return, Leave, LoopUnchanged
  <1>6. CASE \/ BeginRecovery \/ CloseLost \/ GiveUpRecovery \/ AttemptFails
             \/ AttemptSucceeds \/ Install \/ EndRun \/ FinishRun
    BY <1>6, Zenon DEF BeginRecovery, CloseLost, GiveUpRecovery, AttemptFails,
           AttemptSucceeds,
                Install, EndRun, FinishRun, RunUnchanged, workerVars
  <1>7. CASE \E w \in Workers : Worker(w)
    BY <1>7 DEF Worker, Take, HandlerReturns, SettleSent, SettleReturns, SettleFails,
                FailGeneration, WorkerUnchanged, loopVars
  <1>8. CASE CloseAdmission \/ ShutdownSteps \/ \E value \in BOOLEAN : SetPaused(value)
    BY <1>8 DEF CloseAdmission, ShutdownSteps, StopIntake, StartDrain, FinishShutdown,
                SetPaused, CallUnchanged, loopVars, workerVars
  <1>9. CASE StartDrain("caller") \/ \E d \in Drains : DrainSteps(d)
    BY <1>9, Zenon DEF StartDrain, DrainSteps, CancelGeneration, AbortDrain, DrainExpires,
           StopLifetime, FailDrain, CompleteDrain, CallUnchanged, loopVars, workerVars
  <1>10. CASE \E g \in Generations : Broker(g)
    BY <1>10 DEF Broker, Deliver, ConnectionLost, BrokerCancel, loopVars, workerVars
  <1>11. CASE UNCHANGED vars
    BY <1>11 DEF vars, loopVars, workerVars
  <1> QED
    BY <1>1, <1>2, <1>3, <1>4, <1>5, <1>6, <1>7, <1>8, <1>9, <1>10, <1>11 DEF Next, Loop

\* Backlog and job queue stay sequences of tags and envelopes.
LEMMA QueuesNext == Queues /\ Admission /\ [Next]_vars => Queues'
  <1> SUFFICES ASSUME Queues, Admission, [Next]_vars PROVE Queues'
    OBVIOUS
  <1>1. generation' \in Nat /\ read' \in Nat
    BY QueueSteps DEF Queues
  <1>2. Append(pending, read') \in Seq(Nat)
    BY <1>1, AppendProperties DEF Queues
  <1>3. pending # <<>> => Head(pending) \in Nat /\ Tail(pending) \in Seq(Nat)
    BY HeadTailProperties DEF Queues
  <1>4. jobs # <<>> => Tail(jobs) \in Seq(Nat \X Nat)
    BY HeadTailProperties DEF Queues
  <1>5. pending # <<>> => Append(jobs, <<generation, Head(pending)>>) \in Seq(Nat \X Nat)
    BY <1>3, AppendProperties DEF Queues
  <1>6. <<>> \in Seq(Nat)
    OBVIOUS
  <1>7. pending' \in Seq(Nat) /\ jobs' \in Seq(Nat \X Nat)
    BY QueueSteps, <1>2, <1>3, <1>4, <1>5, <1>6, Zenon DEF Queues
  <1> QED
    BY <1>1, <1>7 DEF Queues

\* Nothing the loop checked before it admits can change under its hands.
LEMMA AdmissionNext == Admission /\ [Next]_vars => Admission'
  <1> SUFFICES ASSUME Admission, [Next]_vars, loop' = "admitting"
               PROVE  pending' # <<>> /\ (~paused' \/ draining') /\ ~ShutdownAdmissionClosed'
    BY DEF Admission
  <1>1. CASE LoopTop
    BY <1>1, Zenon DEF LoopTop, Leave, AdmissionPaused, LoopUnchanged, shutdownVars,
                ShutdownAdmissionClosed
  <1>2. ASSUME loop = "admitting", UNCHANGED <<pending, paused, draining, shutdown>>
        PROVE  pending' # <<>> /\ (~paused' \/ draining') /\ ~ShutdownAdmissionClosed'
    BY <1>2 DEF Admission, ShutdownAdmissionClosed
  <1>3. CASE Loop /\ ~LoopTop
    <2>1. loop' # "admitting"
      BY <1>3, Zenon DEF Loop, Admit, ReceiveDelivery, ReceiveClose, Wake, ReceiveCancel,
             ReceiveFailure, ReceiveRecoveryDone, ReceiveLifetimeDone, RejectSent,
             RejectReturns, RejectFails, BeginRecovery, CloseLost, GiveUpRecovery,
             AttemptFails, AttemptSucceeds, Install, EndRun, FinishRun, Return, Leave
    <2> QED
      BY <2>1
  <1>4. CASE \E w \in Workers : Worker(w)
    BY <1>2, <1>4 DEF Worker, Take, HandlerReturns, SettleSent, SettleReturns, SettleFails,
                FailGeneration, WorkerUnchanged, loopVars, shutdownVars
  <1>5. CASE CloseAdmission \/ \E value \in BOOLEAN : SetPaused(value)
    BY <1>5 DEF CloseAdmission, SetPaused, AdmissionMuHeld, CallUnchanged, loopVars
  <1>6. CASE ShutdownSteps
    <2>1. shutdown # "open" /\ loop' = loop
      BY <1>6 DEF ShutdownSteps, StopIntake, StartDrain, FinishShutdown, CallUnchanged,
                loopVars
    <2> QED
      BY <2>1 DEF Admission, ShutdownAdmissionClosed
  <1>7. CASE StartDrain("caller") \/ \E d \in Drains : DrainSteps(d)
    BY <1>2, <1>7 DEF StartDrain, DrainSteps, CancelGeneration, AbortDrain, DrainExpires,
           StopLifetime, FailDrain, CompleteDrain, CallUnchanged, loopVars, shutdownVars
  <1>8. CASE \E g \in Generations : Broker(g)
    BY <1>2, <1>8 DEF Broker, Deliver, ConnectionLost, BrokerCancel, loopVars, shutdownVars
  <1>9. CASE UNCHANGED vars
    BY <1>2, <1>9 DEF vars, loopVars, shutdownVars
  <1> QED
    BY <1>1, <1>3, <1>4, <1>5, <1>6, <1>7, <1>8, <1>9 DEF Next

\* The two invariants of admission hold throughout.
LEMMA QueuesAlways == Spec => [](Queues /\ Admission)
  BY AdmissionInit, QueuesNext, AdmissionNext, PTL DEF Spec

\* Whatever Pause, Resume, Drain, Shutdown and the loop do to each other, a delivery
\* reaches the workers only while the consumer is neither paused, unless a drain
\* overrides it, nor closed for admission (consumeGeneration, admissionMu).
THEOREM AdmissionHeld == Spec => AdmissionRespected
  <1>1. ASSUME Queues, Admission, [Next]_vars
        PROVE  [Len(jobs') > Len(jobs) =>
                    (~paused \/ draining) /\ ~ShutdownAdmissionClosed]_vars
    <2>1. Len(jobs') > Len(jobs) => loop = "admitting"
      <3>1. jobs # <<>> => Len(Tail(jobs)) = Len(jobs) - 1
        BY HeadTailProperties DEF Queues
      <3>2. Len(jobs) \in Nat
        BY LenProperties DEF Queues
      <3>3. jobs' = jobs \/ (jobs # <<>> /\ jobs' = Tail(jobs)) \/ loop = "admitting"
        BY <1>1, QueueSteps
      <3> QED
        BY <3>1, <3>2, <3>3
    <2> QED
      BY <1>1, <2>1, Zenon DEF Admission
  <1> QED
    BY <1>1, QueuesAlways, PTL DEF Spec, AdmissionRespected

-----------------------------------------------------------------------------
(* Health.                                                                 *)

\* A new consumer neither stops nor recovers.
LEMMA HealthInit == Init => Ending /\ Recovering
  BY DEF Init, Ending, Recovering, Consuming, LoopPoints, Drains

\* The loop changes neither stopping nor the calls of Drain.
LEMMA LoopFrame ==
    ASSUME Loop
    PROVE  stopping' = stopping /\ drain' = drain /\ (terminal => terminal')
  <1>1. CASE \/ LoopTop \/ Admit \/ ReceiveDelivery \/ ReceiveClose \/ Wake \/ ReceiveCancel
             \/ ReceiveFailure \/ ReceiveRecoveryDone \/ ReceiveLifetimeDone
             \/ RejectSent \/ RejectReturns \/ RejectFails
    <2>1. LoopUnchanged
      BY <1>1, Zenon DEF LoopTop, Admit, ReceiveDelivery, ReceiveClose, Wake,
             ReceiveCancel, ReceiveFailure, ReceiveRecoveryDone, ReceiveLifetimeDone,
             RejectSent, RejectReturns, RejectFails
    <2> QED
      BY <2>1 DEF LoopUnchanged, drainVars
  <1>2. CASE \/ BeginRecovery \/ CloseLost \/ GiveUpRecovery \/ AttemptFails
             \/ AttemptSucceeds \/ Install \/ EndRun \/ FinishRun
    <2>1. RunUnchanged
      BY <1>2, Zenon DEF BeginRecovery, CloseLost, GiveUpRecovery, AttemptFails,
             AttemptSucceeds, Install, EndRun, FinishRun
    <2>2. terminal' = terminal \/ CloseLost \/ GiveUpRecovery
      BY <1>2, Zenon DEF BeginRecovery, AttemptFails, AttemptSucceeds, Install, EndRun,
             FinishRun
    <2>3. CloseLost \/ GiveUpRecovery => (terminal => terminal')
      BY Zenon DEF CloseLost, GiveUpRecovery
    <2>4. stopping' = stopping /\ drain' = drain
      BY <2>1 DEF RunUnchanged, drainVars
    <2> QED
      BY <2>2, <2>3, <2>4
  <1> QED
    BY <1>1, <1>2 DEF Loop

\* Neither do the workers.
LEMMA WorkerFrame ==
    ASSUME NEW w \in Workers, Worker(w)
    PROVE  UNCHANGED <<stopping, terminal, lifetimeStopped, generation, loop,
                       deliveriesClosed, drain, result>>
  <1>1. WorkerUnchanged
    BY Zenon DEF Worker, Take, HandlerReturns, SettleSent, SettleReturns, SettleFails,
           FailGeneration
  <1> QED
    BY <1>1 DEF WorkerUnchanged, loopVars, drainVars

\* stopping and terminal are never taken back.
LEMMA StopsStay == [Next]_vars => (stopping => stopping') /\ (terminal => terminal')
  <1> SUFFICES ASSUME [Next]_vars PROVE (stopping => stopping') /\ (terminal => terminal')
    OBVIOUS
  <1>1. CASE Loop
    BY <1>1, LoopFrame
  <1>2. CASE \E w \in Workers : Worker(w)
    BY <1>2, WorkerFrame
  <1>3. CASE CloseAdmission \/ ShutdownSteps \/ \E value \in BOOLEAN : SetPaused(value)
    BY <1>3 DEF CloseAdmission, ShutdownSteps, StopIntake, StartDrain, FinishShutdown,
                SetPaused, CallUnchanged
  <1>4. CASE StartDrain("caller") \/ \E d \in Drains : DrainSteps(d)
    BY <1>4 DEF StartDrain, DrainSteps, CancelGeneration, AbortDrain, DrainExpires,
           StopLifetime, FailDrain, CompleteDrain, CallUnchanged
  <1>5. CASE \E g \in Generations : Broker(g)
    BY <1>5 DEF Broker, Deliver, ConnectionLost, BrokerCancel, errorVars
  <1>6. CASE UNCHANGED vars
    BY <1>6 DEF vars, errorVars
  <1> QED
    BY <1>1, <1>2, <1>3, <1>4, <1>5, <1>6 DEF Next

\* The calls of Drain move in their own steps only.
LEMMA DrainMoves ==
    ASSUME [Next]_vars
    PROVE  \/ UNCHANGED <<drain, drained>>
           \/ StartDrain("caller") \/ StartDrain("shutdown") \/ \E d \in Drains : DrainSteps(d)
  <1>1. CASE Loop
    BY <1>1, Zenon
    DEF Loop, LoopTop, Admit, ReceiveDelivery, ReceiveClose, Wake, ReceiveCancel,
        ReceiveFailure, ReceiveRecoveryDone, ReceiveLifetimeDone, RejectSent, RejectReturns,
        RejectFails, BeginRecovery, CloseLost, GiveUpRecovery, AttemptFails, AttemptSucceeds,
        Install, EndRun, FinishRun, LoopUnchanged, RunUnchanged, drainVars
  <1>2. CASE \E w \in Workers : Worker(w)
    BY <1>2, Zenon DEF Worker, Take, HandlerReturns, SettleSent, SettleReturns, SettleFails,
           FailGeneration, WorkerUnchanged, drainVars
  <1>3. CASE \/ CloseAdmission \/ StopIntake \/ FinishShutdown
             \/ \E value \in BOOLEAN : SetPaused(value)
    BY <1>3 DEF CloseAdmission, StopIntake, FinishShutdown, SetPaused, drainVars
  <1>4. CASE (\E g \in Generations : Broker(g)) \/ UNCHANGED vars
    BY <1>4, Zenon DEF Broker, Deliver, ConnectionLost, BrokerCancel, vars, drainVars
  <1> QED
    BY <1>1, <1>2, <1>3, <1>4 DEF Next, ShutdownSteps

\* A call of Drain starts by setting stopping.
LEMMA DrainsNext ==
    ASSUME Ending, [Next]_vars
    PROVE  /\ drain' \in [Drains -> {"idle", "cancelling", "waiting", "aborting", "failing", "done"}]
           /\ \A d \in Drains : drain'[d] # "idle" => stopping'
  <1>1. (stopping => stopping') /\ (terminal => terminal')
    BY StopsStay
  <1>2. ASSUME NEW d \in Drains, StartDrain(d) \/ DrainSteps(d)
        PROVE  /\ drain' \in [Drains -> {"idle", "cancelling", "waiting", "aborting", "failing", "done"}]
               /\ stopping'
    <2>1. CASE StartDrain(d)
      BY <2>1 DEF StartDrain, Ending
    <2>2. CASE DrainSteps(d)
      <3>1. stopping'
        BY <1>1, <2>2 DEF DrainSteps, CancelGeneration, AbortDrain, DrainExpires,
               StopLifetime, FailDrain, CompleteDrain, Ending
      <3>2. drain' \in [Drains -> {"idle", "cancelling", "waiting", "aborting", "failing", "done"}]
        BY <2>2 DEF DrainSteps, CancelGeneration, AbortDrain, DrainExpires, StopLifetime,
               FailDrain, CompleteDrain, Ending
      <3> QED
        BY <3>1, <3>2
    <2> QED
      BY <1>2, <2>1, <2>2
  <1>3. \/ drain' = drain
        \/ StartDrain("caller") \/ StartDrain("shutdown") \/ \E d \in Drains : DrainSteps(d)
    BY DrainMoves
  <1>4. "caller" \in Drains /\ "shutdown" \in Drains
    BY DEF Drains
  <1>5. CASE drain' = drain
    BY <1>1, <1>5, Zenon DEF Ending
  <1> QED
    BY <1>2, <1>3, <1>4, <1>5

\* What the other actors leave to the loop.
LEMMA BesideLoop ==
    ASSUME [Next]_vars
    PROVE  \/ Loop
           \/ /\ UNCHANGED <<loop, deliveriesClosed, generation>>
              /\ \/ lifetimeStopped' = lifetimeStopped
                 \/ \E d \in Drains : AbortDrain(d) \/ DrainExpires(d)
              /\ UNCHANGED <<recovering, failure>> \/ \E w \in Workers : FailGeneration(w)
  <1>1. ASSUME NEW w \in Workers, Worker(w)
        PROVE  UNCHANGED <<recovering, failure>> \/ FailGeneration(w)
    BY <1>1 DEF Worker, Take, HandlerReturns, SettleSent, SettleReturns, SettleFails,
                CloseGeneration, generationVars
  <1>2. CASE CloseAdmission \/ ShutdownSteps \/ \E value \in BOOLEAN : SetPaused(value)
    BY <1>2 DEF CloseAdmission, ShutdownSteps, StopIntake, StartDrain, FinishShutdown,
                CloseGeneration, SetPaused, CallUnchanged, generationVars, signalVars,
                loopVars
  <1>3. CASE StartDrain("caller") \/ \E d \in Drains : DrainSteps(d)
    BY <1>3, Zenon DEF StartDrain, DrainSteps, CancelGeneration, AbortDrain, DrainExpires,
           StopLifetime, FailDrain,
                CompleteDrain, CloseGeneration, CallUnchanged, generationVars, signalVars,
                loopVars
  <1>4. CASE \E g \in Generations : Broker(g)
    BY <1>4 DEF Broker, Deliver, ConnectionLost, BrokerCancel, generationVars, signalVars,
                loopVars
  <1>5. CASE UNCHANGED vars
    BY <1>5 DEF vars, generationVars, signalVars, loopVars
  <1> QED
    BY <1>1, <1>2, <1>3, <1>4, <1>5, WorkerFrame DEF Next

\* The loop ends because the consumer is stopping or has failed.
LEMMA EndingNext == Ending /\ [Next]_vars => Ending'
  <1> SUFFICES ASSUME Ending, [Next]_vars PROVE Ending'
    OBVIOUS
  <1> DEFINE Reason == stopping' \/ terminal'
             Rest == /\ lifetimeStopped' => Reason
                     /\ deliveriesClosed' => stopping'
                     /\ loop' \in {"ending", "waiting"} => Reason
  <1>1. (stopping => stopping') /\ (terminal => terminal')
    BY StopsStay
  <1>2. /\ lifetimeStopped => Reason
        /\ deliveriesClosed => stopping'
        /\ loop \in {"ending", "waiting"} => Reason
    BY <1>1, Zenon DEF Ending
  <1>3. ASSUME \/ LoopTop \/ Admit \/ ReceiveDelivery \/ ReceiveClose \/ Wake
               \/ ReceiveCancel \/ ReceiveFailure \/ ReceiveRecoveryDone
               \/ ReceiveLifetimeDone \/ RejectSent \/ RejectReturns \/ RejectFails
        PROVE  Rest
    <2>1. lifetimeStopped' = lifetimeStopped
      <3>1. LoopUnchanged
        BY <1>3, Zenon DEF LoopTop, Admit, ReceiveDelivery, ReceiveClose, Wake,
             ReceiveCancel, ReceiveFailure, ReceiveRecoveryDone, ReceiveLifetimeDone,
             RejectSent, RejectReturns, RejectFails
      <3> QED
        BY <3>1 DEF LoopUnchanged
    <2>2. deliveriesClosed' => deliveriesClosed \/ stopping
      BY <1>3, Zenon DEF LoopTop, Admit, ReceiveDelivery, ReceiveClose, Wake,
             ReceiveCancel, ReceiveFailure, ReceiveRecoveryDone, ReceiveLifetimeDone,
             RejectSent, RejectReturns, RejectFails, Return, Leave
    <2>3. loop' \in {"ending", "waiting"} => deliveriesClosed \/ lifetimeStopped
      BY <1>3, Zenon DEF LoopTop, Admit, ReceiveDelivery, ReceiveClose, Wake,
             ReceiveCancel, ReceiveFailure, ReceiveRecoveryDone, ReceiveLifetimeDone,
             RejectSent, RejectReturns, RejectFails, Return, Leave
    <2> QED
      BY <1>1, <1>2, <2>1, <2>2, <2>3, Zenon
  <1>4. ASSUME \/ BeginRecovery \/ CloseLost \/ GiveUpRecovery \/ AttemptFails
               \/ AttemptSucceeds \/ Install \/ EndRun \/ FinishRun
        PROVE  Rest
    <2>1. lifetimeStopped' => lifetimeStopped \/ terminal
      BY <1>4, Zenon DEF BeginRecovery, CloseLost, GiveUpRecovery, AttemptFails,
             AttemptSucceeds, Install, EndRun, FinishRun
    <2>2. deliveriesClosed' = deliveriesClosed
      <3>1. RunUnchanged
        BY <1>4, Zenon DEF BeginRecovery, CloseLost, GiveUpRecovery, AttemptFails,
             AttemptSucceeds, Install, EndRun, FinishRun
      <3> QED
        BY <3>1 DEF RunUnchanged
    <2>3. loop' \in {"ending", "waiting"} => loop = "ending" \/ stopping \/ terminal'
      BY <1>4, Zenon DEF BeginRecovery, CloseLost, GiveUpRecovery, AttemptFails,
             AttemptSucceeds, Install, EndRun, FinishRun, DiscardInstalled
    <2> QED
      BY <1>1, <1>2, <2>1, <2>2, <2>3, Zenon
  <1>5. ASSUME UNCHANGED <<loop, deliveriesClosed>>,
               \/ lifetimeStopped' = lifetimeStopped
               \/ \E d \in Drains : AbortDrain(d) \/ DrainExpires(d)
        PROVE  Rest
    <2>1. (\E d \in Drains : AbortDrain(d) \/ DrainExpires(d)) => stopping
      BY Zenon DEF AbortDrain, DrainExpires, Ending
    <2> QED
      BY <1>1, <1>2, <1>5, <2>1
  <1>6. Rest
    BY <1>3, <1>4, <1>5, BesideLoop DEF Loop
  <1> QED
    BY <1>6, DrainsNext DEF Ending

\* The flag, the signal and the loop tell the same story.
LEMMA RecoveringNext == Recovering /\ [Next]_vars => Recovering'
  <1> SUFFICES ASSUME Recovering, [Next]_vars PROVE Recovering'
    OBVIOUS
  <1>1. (stopping => stopping') /\ (terminal => terminal')
    BY StopsStay
  <1>2. CASE \/ LoopTop \/ Admit \/ ReceiveDelivery \/ ReceiveClose \/ Wake
             \/ ReceiveCancel \/ ReceiveRecoveryDone
             \/ ReceiveLifetimeDone \/ RejectSent \/ RejectReturns \/ RejectFails
    <2>1. UNCHANGED <<generation, recovering, failure>>
      BY <1>2, Zenon DEF LoopTop, Admit, ReceiveDelivery, ReceiveClose, Wake,
             ReceiveCancel, ReceiveRecoveryDone, ReceiveLifetimeDone,
             RejectSent, RejectReturns, RejectFails, LoopUnchanged, CloseGeneration,
             generationVars
    <2>2. loop \in Consuming /\ loop' \in Consuming \cup {"lost", "ending"}
      BY <1>2, Zenon DEF LoopTop, Admit, ReceiveDelivery, ReceiveClose, Wake, Selecting,
             ReceiveCancel, ReceiveRecoveryDone, ReceiveLifetimeDone, Receiving,
             RejectSent, RejectReturns, RejectFails, Return, Leave, Consuming
    <2> QED
      BY <1>1, <2>1, <2>2 DEF Recovering, Consuming, LoopPoints
  <1>3. CASE ReceiveFailure
    BY <1>3 DEF ReceiveFailure, Return, Leave, Recovering, Consuming, LoopPoints
  <1>4. CASE BeginRecovery
    <2>1. recovering' \/ stopping \/ terminal
      BY <1>4, Zenon DEF BeginRecovery, RecoveryAllowed
    <2>2. loop' = "closing"
      BY <1>4 DEF BeginRecovery
    <2> QED
      BY <1>1, <2>1, <2>2 DEF Recovering, Consuming, LoopPoints
  <1>5. CASE CloseLost \/ GiveUpRecovery \/ AttemptFails \/ AttemptSucceeds
    <2>1. /\ loop \in {"closing", "recovering"}
          /\ loop' \in {"recovering", "installing", "ending"}
          /\ recovering' = recovering
      BY <1>5 DEF CloseLost, GiveUpRecovery, AttemptFails, AttemptSucceeds
    <2> QED
      BY <1>1, <2>1 DEF Recovering, Consuming, LoopPoints
  <1>6. CASE Install
    <2>1. loop' = "ending" \/ (loop' = "top" /\ ~recovering')
      BY <1>6 DEF Install
    <2> QED
      BY <2>1 DEF Recovering, Consuming, LoopPoints
  <1>7. CASE EndRun \/ FinishRun
    BY <1>7 DEF EndRun, FinishRun, Recovering, Consuming, LoopPoints
  <1>8. ASSUME NEW w \in Workers, FailGeneration(w), UNCHANGED <<loop, generation>>
        PROVE  Recovering'
    <2>1. /\ recovering' => recovering \/ RecoveryAllowed(OnCurrent(w))
          /\ recovering => recovering'
      BY <1>8, Zenon DEF FailGeneration
    <2>2. /\ generation \in failure => generation \in failure'
          /\ RecoveryAllowed(OnCurrent(w)) => generation \in failure'
      BY <1>8 DEF FailGeneration, RecoveryAllowed
    <2> QED
      BY <1>1, <1>8, <2>1, <2>2 DEF Recovering
  <1>9. CASE UNCHANGED <<loop, generation, recovering, failure>>
    BY <1>1, <1>9 DEF Recovering
  <1> QED
    BY <1>2, <1>3, <1>4, <1>5, <1>6, <1>7, <1>8, <1>9, BesideLoop DEF Loop

\* The two invariants behind the reported health hold throughout.
LEMMA HealthAlways == Spec => [](Ending /\ Recovering)
  BY HealthInit, EndingNext, RecoveringNext, PTL DEF Spec

\* The health a consumer reports follows its supervisor in every reachable state: it
\* is available only while the loop consumes or has just lost its generation, and a
\* consumer that still consumes but reports recovering has a failure signal waiting
\* (DependencyHealth, failGeneration, beginRecovery, finishRecovery).
THEOREM HealthHonest == Spec => []DependencyHonest
  <1>1. Ending /\ Recovering => DependencyHonest
    BY DEF Ending, Recovering, DependencyHonest, DependencyHealth, Consuming, LoopPoints
  <1> QED
    BY <1>1, HealthAlways, PTL

-----------------------------------------------------------------------------
(* Failed settlements.                                                     *)

\* A new consumer has no failed settlement.
LEMMA ReportingInit == Init => Reporting
  BY DEF Init, Reporting, Drains

\* A failed settlement stays on its way to the drain error until handle has set it.
LEMMA ReportingNext == Reporting /\ [Next]_vars => Reporting'
  <1> SUFFICES ASSUME Reporting, [Next]_vars PROVE Reporting'
    OBVIOUS
  <1>1. stopping => stopping'
    BY StopsStay
  <1>2. ASSUME \/ LoopTop \/ Admit \/ ReceiveDelivery \/ ReceiveClose \/ Wake
               \/ ReceiveCancel \/ ReceiveFailure \/ ReceiveRecoveryDone
               \/ ReceiveLifetimeDone \/ RejectSent \/ RejectReturns \/ RejectFails
        PROVE  Reporting'
    <2>1. LoopUnchanged
      BY <1>2, Zenon DEF LoopTop, Admit, ReceiveDelivery, ReceiveClose, Wake,
             ReceiveCancel, ReceiveFailure, ReceiveRecoveryDone, ReceiveLifetimeDone,
             RejectSent, RejectReturns, RejectFails
    <2>2. loop # "done" /\ loop' # "done"
      BY <1>2, Zenon DEF LoopTop, Admit, ReceiveDelivery, ReceiveClose, Wake, Selecting,
             ReceiveCancel, ReceiveFailure, ReceiveRecoveryDone, ReceiveLifetimeDone,
             Receiving, RejectSent, RejectReturns, RejectFails, Return, Leave
    <2>3. drainErr => drainErr'
      BY <1>2, Zenon DEF LoopTop, Admit, ReceiveDelivery, ReceiveClose, Wake,
             ReceiveCancel, ReceiveFailure, ReceiveRecoveryDone, ReceiveLifetimeDone,
             RejectSent, RejectReturns, RejectFails
    <2>4. "unsettled" \in losses' => "unsettled" \in losses
      <3>1. CASE LoopTop \/ ReceiveDelivery
        BY <3>1 DEF LoopTop, ReceiveDelivery, Drop, Lose, Dropped
      <3>2. CASE ReceiveClose \/ ReceiveCancel
        BY <3>2, Zenon DEF ReceiveClose, ReceiveCancel, Return, Drop, Lose, Dropped
      <3>3. CASE ReceiveFailure \/ ReceiveLifetimeDone \/ RejectFails
        BY <3>3 DEF ReceiveFailure, ReceiveLifetimeDone, RejectFails, Return, Drop, Lose,
               Dropped
      <3>4. CASE Admit \/ Wake \/ ReceiveRecoveryDone \/ RejectSent \/ RejectReturns
        BY <3>4 DEF Admit, Wake, ReceiveRecoveryDone, RejectSent, RejectReturns
      <3> QED
        BY <1>2, <3>1, <3>2, <3>3, <3>4
    <2>5. UNCHANGED <<worker, envelope, generation, stopping, result>>
      BY <2>1 DEF LoopUnchanged, drainVars
    <2> QED
      BY <2>2, <2>3, <2>4, <2>5 DEF Reporting, Failing, OnCurrent
  <1>3. ASSUME \/ BeginRecovery \/ CloseLost \/ GiveUpRecovery \/ AttemptFails
               \/ AttemptSucceeds \/ Install \/ EndRun \/ FinishRun
        PROVE  Reporting'
    <2>1. RunUnchanged
      BY <1>3, Zenon DEF BeginRecovery, CloseLost, GiveUpRecovery, AttemptFails,
             AttemptSucceeds, Install, EndRun, FinishRun
    <2>2. UNCHANGED <<worker, envelope, jobs, drainErr, stopping, result, losses>>
      BY <2>1 DEF RunUnchanged, workerVars, drainVars, historyVars
    <2>3. loop # "done" /\ (loop' = "done" => FinishRun)
      BY <1>3, Zenon DEF BeginRecovery, CloseLost, GiveUpRecovery, AttemptFails,
             AttemptSucceeds, Install, EndRun, FinishRun
    <2>4. generation' = generation \/ ~stopping
      BY <1>3, Zenon DEF BeginRecovery, CloseLost, GiveUpRecovery, AttemptFails,
             AttemptSucceeds, Install, EndRun, FinishRun, DiscardInstalled
    <2>5. FinishRun => jobs = <<>> /\ \A w \in Workers : worker[w] = "idle"
      BY DEF FinishRun
    <2> QED
      BY <2>2, <2>3, <2>4, <2>5 DEF Reporting, Failing, OnCurrent
  <1>4. ASSUME NEW w \in Workers, Worker(w)
        PROVE  Reporting'
    <2>1. UNCHANGED <<loop, generation, stopping, result>>
      BY <1>4, WorkerFrame
    <2>2. loop # "done"
      BY <1>4 DEF Worker, Take, HandlerReturns, SettleSent, SettleReturns, SettleFails,
             FailGeneration, Reporting
    <2>3. /\ worker' \in [Workers -> {"idle", "handling", "settling", "sent", "failing"}]
          /\ DOMAIN envelope' = Workers
          /\ \A v \in Workers \ {w} : worker'[v] = worker[v] /\ envelope'[v] = envelope[v]
      BY <1>4, Zenon DEF Worker, Take, HandlerReturns, SettleSent, SettleReturns, SettleFails,
             FailGeneration, WorkerDone, Reporting
    <2>4. drainErr => drainErr'
      BY <1>4, Zenon DEF Worker, Take, HandlerReturns, SettleSent, SettleReturns,
             SettleFails, FailGeneration
    <2>5. ~Failing(w) \/ drainErr' \/ ~stopping
      <3>1. CASE FailGeneration(w)
        BY <3>1, Zenon DEF FailGeneration, ReportsToDrain, Failing
      <3>2. CASE worker[w] # "failing"
        BY <3>2 DEF Failing
      <3> QED
        BY <1>4, <3>1, <3>2 DEF Worker, Take, HandlerReturns, SettleSent, SettleReturns,
               SettleFails
    <2>6. "unsettled" \in losses' => "unsettled" \in losses \/ (stopping /\ Failing(w)')
      <3>1. CASE SettleFails(w)
        BY <3>1, <2>1, Zenon DEF SettleFails, Failing, OnCurrent, Reporting
      <3>2. CASE ~SettleFails(w)
        BY <1>4, <3>2 DEF Worker, Take, HandlerReturns, SettleSent, SettleReturns,
               FailGeneration, historyVars
      <3> QED
        BY <3>1, <3>2
    <2>7. ASSUME "unsettled" \in losses'
          PROVE  stopping' /\ (drainErr' \/ \E v \in Workers : Failing(v)')
      BY <2>1, <2>3, <2>4, <2>5, <2>6, <2>7 DEF Reporting, Failing, OnCurrent
    <2> QED
      BY <2>1, <2>2, <2>3, <2>7, Zenon DEF Reporting, Failing, OnCurrent
  <1>5. ASSUME UNCHANGED <<loop, jobs, worker, envelope, generation, drainErr, losses>>,
               \/ result' = result
               \/ \E d \in Drains : FailDrain(d) \/ CompleteDrain(d)
        PROVE  Reporting'
    <2>1. \/ result' = result
          \/ \E d \in Drains : result' = [result EXCEPT ![d] = "error"]
          \/ \E d \in Drains : /\ result' = [result EXCEPT ![d] = "ok"]
                               /\ ~drainErr /\ loop = "done"
      BY <1>5, Zenon DEF FailDrain, CompleteDrain
    <2>2. loop = "done" /\ ~drainErr => "unsettled" \notin losses
      BY DEF Reporting, Failing
    <2> QED
      BY <1>1, <1>5, <2>1, <2>2 DEF Reporting, Failing, OnCurrent
  <1>6. CASE CloseAdmission \/ ShutdownSteps \/ \E value \in BOOLEAN : SetPaused(value)
    <2>1. CallUnchanged /\ result' = result
      BY <1>6 DEF CloseAdmission, ShutdownSteps, StopIntake, StartDrain, FinishShutdown,
             SetPaused, drainVars
    <2> QED
      BY <1>5, <2>1 DEF CallUnchanged, loopVars, workerVars, historyVars
  <1>7. CASE StartDrain("caller") \/ \E d \in Drains : DrainSteps(d)
    <2>1. CallUnchanged
      BY <1>7 DEF StartDrain, DrainSteps, CancelGeneration, AbortDrain, DrainExpires,
             StopLifetime, FailDrain, CompleteDrain
    <2>2. result' = result \/ \E d \in Drains : FailDrain(d) \/ CompleteDrain(d)
      BY <1>7, Zenon DEF StartDrain, DrainSteps, CancelGeneration, AbortDrain, DrainExpires,
             StopLifetime
    <2> QED
      BY <1>5, <2>1, <2>2 DEF CallUnchanged, loopVars, workerVars, historyVars
  <1>8. CASE \E g \in Generations : Broker(g)
    BY <1>5, <1>8 DEF Broker, Deliver, ConnectionLost, BrokerCancel, errorVars, loopVars,
                workerVars, drainVars, historyVars
  <1>9. CASE UNCHANGED vars
    BY <1>5, <1>9 DEF vars, errorVars, loopVars, workerVars, drainVars, historyVars
  <1> QED
    BY <1>2, <1>3, <1>4, <1>6, <1>7, <1>8, <1>9 DEF Next, Loop

\* For every configuration: when the settlement of a handled delivery fails on the
\* current generation after stopping was set, no Drain reports success, although the
\* worker records the failure in a later step and the loop may be ending
\* (failGeneration, finishRun, consumerCompletedDrainResult).  It says nothing of the
\* loop's own rejects, nor of failures before stopping was set.
THEOREM SettlementFailuresReported == Spec => []HandlerSettlementReported
  <1>1. Reporting => HandlerSettlementReported
    BY DEF Reporting, HandlerSettlementReported
  <1> QED
    BY <1>1, ReportingInit, ReportingNext, PTL DEF Spec

-----------------------------------------------------------------------------
(* Types.  What the broker has sent, what the loop has read of it and what *)
(* the workers hold bound each other.                                      *)

\* A delivery tag the broker has used on that generation.
Delivered(e) == e \in Envelopes /\ e[2] <= Len(sent[e[1]])

BrokerTyped ==
    /\ queue \subseteq Messages
    /\ sent \in [Generations -> Seq(Messages)]
    /\ \A g \in Generations : Len(sent[g]) <= MaxDeliveries
    /\ \A e \in unsettled : Delivered(e)
    /\ alive \in [Generations -> BOOLEAN]
    /\ cancelled \in [Generations -> BOOLEAN]
    /\ notice \in [Generations -> BOOLEAN]

GenerationTyped ==
    /\ closed \in [Generations -> {"open", "clean", "failed"}]
    /\ cancel \in [Generations -> {"none", "ok", "error"}]
    /\ failure \subseteq Generations
    /\ delegated \in [Generations -> BOOLEAN]

\* Nothing is pending that was not read, nothing read that was not sent; a loop
\* that does not consume has neither.
LoopTyped ==
    /\ loop \in LoopPoints
    /\ generation \in Generations
    /\ loop = "installing" => generation + 1 \in Generations
    /\ attempt \in 0..MaxAttempts
    /\ read \in 0..Len(sent[generation])
    /\ pending \in Seq(1..read) /\ Len(pending) <= Prefetch + 1
    /\ loop \notin Consuming => read = 0 /\ pending = <<>>

\* The jobs, and what the workers took from them, are deliveries.
WorkersTyped ==
    /\ jobs \in Seq(Envelopes) /\ Len(jobs) <= Prefetch
    /\ \A i \in 1..Len(jobs) : Delivered(jobs[i])
    /\ worker \in [Workers -> {"idle", "handling", "settling", "sent", "failing"}]
    /\ envelope \in [Workers -> Envelopes \cup {NoEnvelope}]
    /\ \A w \in Workers : IF worker[w] = "idle" THEN envelope[w] = NoEnvelope
                          ELSE Delivered(envelope[w])
    /\ verdict \in [Workers -> Verdicts \cup {"none"}]

CallsTyped ==
    /\ calls \in Scenarios
    /\ drain \in [Drains -> {"idle", "cancelling", "waiting", "aborting", "failing", "done"}]
    /\ drained \in [Drains -> 0..MaxGenerations]
    /\ result \in [Drains -> {"none", "ok", "error"}]
    /\ shutdown \in {"open", "admissionClosed", "draining", "done"}
    /\ crossed = {} /\ losses \subseteq {"dropped", "unsettled", "unrejected"}

BooleansTyped ==
    {stopping, recovering, terminal, drainErr, resourceErr, paused, draining,
     deliveriesClosed, pausedSnap, admissionChanged, recoveryStopped,
     lifetimeStopped, shutdownErr} \subseteq BOOLEAN

Types == BrokerTyped /\ GenerationTyped /\ LoopTyped /\ WorkersTyped /\ CallsTyped
         /\ BooleansTyped

\* An envelope is a generation and a tag.
LEMMA EnvelopePair == ASSUME NEW e \in Envelopes PROVE e = <<e[1], e[2]>>
  BY DEF Envelopes

\* Each of the sets of the model together is TypeOK.
LEMMA TypesSuffice == Types => TypeOK /\ OwnMessageSettled
<1> SUFFICES ASSUME Types PROVE TypeOK /\ OwnMessageSettled
  OBVIOUS
<1>1. unsettled \subseteq Envelopes
  BY DEF Types, BrokerTyped, Delivered
<1>2. Len(sent[generation]) \in 0..MaxDeliveries
  BY ConsumerAssumption, LenProperties DEF Types, BrokerTyped, LoopTyped
<1>3. read \in 0..MaxDeliveries /\ 1..read \subseteq Tags
  BY <1>2, ConsumerAssumption DEF Types, LoopTyped, Tags
<1>4. pending \in Seq(Tags)
  BY <1>3, SeqMonotonic DEF Types, LoopTyped
<1> QED
  BY <1>1, <1>3, <1>4
  DEF Types, BrokerTyped, GenerationTyped, LoopTyped, WorkersTyped, CallsTyped, BooleansTyped,
      TypeOK, OwnMessageSettled

\* A new consumer has its types.
LEMMA TypesInit == Init => Types
<1> SUFFICES ASSUME Init PROVE Types
  OBVIOUS
<1>1. 1 \in Generations /\ 0 \in 0..MaxGenerations
  BY ConsumerAssumption DEF Generations
<1>2. BooleansTyped
  BY Zenon DEF Init, BooleansTyped
<1>3. /\ alive \in [Generations -> BOOLEAN] /\ cancelled \in [Generations -> BOOLEAN]
      /\ notice \in [Generations -> BOOLEAN] /\ delegated \in [Generations -> BOOLEAN]
  BY Zenon DEF Init
<1>4. BrokerTyped
  BY <1>3, ConsumerAssumption DEF Init, BrokerTyped
<1>5. GenerationTyped
  BY <1>3 DEF Init, GenerationTyped
<1>6. LoopTyped
  BY <1>1, ConsumerAssumption DEF Init, LoopTyped, LoopPoints, Consuming
<1>7. WorkersTyped
  BY ConsumerAssumption DEF Init, WorkersTyped
<1>8. CallsTyped
  BY <1>1 DEF Init, CallsTyped
<1> QED
  BY <1>2, <1>4, <1>5, <1>6, <1>7, <1>8 DEF Types

\* What a step can do to the broker's side: deliver, lose a connection, take a
\* settlement, open a connection, or cancel.
LEMMA BrokerSteps ==
    ASSUME [Next]_vars
    PROVE  \/ UNCHANGED <<queue, sent, unsettled, alive>>
           \/ \E g \in Generations, m \in Messages : Deliver(g, m)
           \/ \E g : Disconnect(g)
           \/ \E e, v : ApplySettlement(e, v)
           \/ AttemptSucceeds
<1>1. CASE Loop
  BY <1>1, Zenon DEF Loop, LoopTop, Admit, ReceiveDelivery, ReceiveClose, Wake, ReceiveCancel,
      ReceiveFailure, ReceiveRecoveryDone, ReceiveLifetimeDone, RejectSent, RejectReturns,
      RejectFails, BeginRecovery, CloseLost, GiveUpRecovery, AttemptFails, Install, EndRun,
      FinishRun, CloseGeneration, brokerVars
<1>2. CASE \E w \in Workers : Worker(w)
  BY <1>2, Zenon DEF Worker, Take, HandlerReturns, SettleSent, SettleReturns, SettleFails,
      FailGeneration, CloseGeneration, brokerVars
<1>3. CASE CloseAdmission \/ ShutdownSteps \/ \E value \in BOOLEAN : SetPaused(value)
  BY <1>3, Zenon DEF CloseAdmission, ShutdownSteps, StopIntake, StartDrain, FinishShutdown,
      SetPaused, CloseGeneration, brokerVars
<1>4. CASE StartDrain("caller") \/ \E d \in Drains : DrainSteps(d)
  BY <1>4 DEF StartDrain, DrainSteps, CancelGeneration, AbortDrain, DrainExpires,
         StopLifetime, FailDrain, CompleteDrain, CloseGeneration, brokerVars
<1>5. CASE \E g \in Generations : Broker(g)
  BY <1>5 DEF Broker, ConnectionLost, BrokerCancel
<1>6. CASE UNCHANGED vars
  BY <1>6 DEF vars, brokerVars
<1> QED
  BY <1>1, <1>2, <1>3, <1>4, <1>5, <1>6 DEF Next

\* Cancellations are not taken back.
LEMMA CancelledSteps ==
    ASSUME BrokerTyped, [Next]_vars
    PROVE  /\ cancelled' \in [Generations -> BOOLEAN]
           /\ notice' \in [Generations -> BOOLEAN]
           /\ \A g \in Generations : cancelled[g] => cancelled'[g]
<1> USE DEF BrokerTyped
<1>1. CASE UNCHANGED <<cancelled, notice>>
  BY <1>1
<1>2. CASE ReceiveClose \/ ReceiveCancel
  BY <1>2, Zenon DEF ReceiveClose, ReceiveCancel
<1>3. CASE \E d \in Drains : CancelGeneration(d)
  <2>1. notice' = notice
    BY <1>3, Zenon DEF CancelGeneration
  <2>2. cancelled' = cancelled \/ \E g, b : cancelled' = [cancelled EXCEPT ![g] = @ \/ b]
    BY <1>3, Zenon DEF CancelGeneration
  <2>3. ASSUME NEW g, NEW b, cancelled' = [cancelled EXCEPT ![g] = @ \/ b]
        PROVE  /\ cancelled' \in [Generations -> BOOLEAN]
               /\ \A h \in Generations : cancelled[h] => cancelled'[h]
    BY <2>3, Zenon
  <2> QED
    BY <2>1, <2>2, <2>3, Zenon
<1>4. CASE \E g \in Generations : BrokerCancel(g)
  BY <1>4, Zenon DEF BrokerCancel
<1>5. \/ UNCHANGED <<cancelled, notice>>
      \/ ReceiveClose \/ ReceiveCancel
      \/ \E d \in Drains : CancelGeneration(d)
      \/ \E g \in Generations : BrokerCancel(g)
  <2>1. CASE Loop
    BY <2>1, Zenon DEF Loop, LoopTop, Admit, ReceiveDelivery, Wake,
        ReceiveFailure, ReceiveRecoveryDone, ReceiveLifetimeDone, RejectSent, RejectReturns,
        RejectFails, BeginRecovery, CloseLost, GiveUpRecovery, AttemptFails, AttemptSucceeds,
        Install, EndRun, FinishRun, CloseGeneration, Disconnect, ApplySettlement, brokerVars
  <2>2. CASE \E w \in Workers : Worker(w)
    BY <2>2, Zenon DEF Worker, Take, HandlerReturns, SettleSent, SettleReturns, SettleFails,
        FailGeneration, CloseGeneration, Disconnect, ApplySettlement, brokerVars
  <2>3. CASE CloseAdmission \/ ShutdownSteps \/ \E value \in BOOLEAN : SetPaused(value)
    BY <2>3, Zenon DEF CloseAdmission, ShutdownSteps, StopIntake, StartDrain, FinishShutdown,
        SetPaused, CloseGeneration, Disconnect, brokerVars
  <2>4. CASE StartDrain("caller") \/ \E d \in Drains : DrainSteps(d)
    BY <2>4 DEF StartDrain, DrainSteps, AbortDrain, DrainExpires, StopLifetime, FailDrain,
        CompleteDrain, CloseGeneration, Disconnect, brokerVars
  <2>5. CASE \E g \in Generations : Broker(g)
    BY <2>5 DEF Broker, Deliver, ConnectionLost, Disconnect
  <2>6. CASE UNCHANGED vars
    BY <2>6 DEF vars, brokerVars
  <2> QED
    BY <2>1, <2>2, <2>3, <2>4, <2>5, <2>6 DEF Next
<1> QED
  BY <1>1, <1>2, <1>3, <1>4, <1>5

\* The broker keeps its types; it only adds to what it has sent, and only on a
\* connection that is open and not cancelled; what is unsettled is on a connection
\* that is open; and only recovery opens one.
LEMMA BrokerNext ==
    ASSUME BrokerTyped, [Next]_vars
    PROVE  /\ BrokerTyped'
           /\ \A g \in Generations : /\ Len(sent[g]) <= Len(sent'[g])
                                     /\ cancelled[g] => sent'[g] = sent[g]
                                     /\ cancelled[g] => cancelled'[g]
                                     /\ alive'[g] => alive[g] \/ AttemptSucceeds
           /\ \A e \in unsettled' :
                 e \in unsettled \/ (e[2] > Len(sent[e[1]]) /\ alive[e[1]] /\ ~cancelled[e[1]])
           /\ (\A e \in unsettled : alive[e[1]]) => \A e \in unsettled' : alive'[e[1]]
<1> DEFINE Goal ==
           /\ queue' \subseteq Messages
           /\ sent' \in [Generations -> Seq(Messages)]
           /\ \A g \in Generations : Len(sent'[g]) <= MaxDeliveries
           /\ \A e \in unsettled' : Delivered(e)'
           /\ alive' \in [Generations -> BOOLEAN]
           /\ \A g \in Generations : /\ Len(sent[g]) <= Len(sent'[g])
                                     /\ cancelled[g] => sent'[g] = sent[g]
                                     /\ alive'[g] => alive[g] \/ AttemptSucceeds
           /\ \A e \in unsettled' :
                 e \in unsettled \/ (e[2] > Len(sent[e[1]]) /\ alive[e[1]] /\ ~cancelled[e[1]])
           /\ (\A e \in unsettled : alive[e[1]]) => \A e \in unsettled' : alive'[e[1]]
<1>1. \A g \in Generations : sent[g] \in Seq(Messages) /\ Len(sent[g]) \in Nat
  BY LenProperties DEF BrokerTyped
<1>2. \A e \in unsettled : /\ e \in Envelopes /\ e[1] \in Generations
                           /\ e[2] \in 1..Len(sent[e[1]]) /\ MessageOf(e) \in Messages
  <2> SUFFICES ASSUME NEW e \in unsettled
               PROVE  /\ e \in Envelopes /\ e[1] \in Generations
                      /\ e[2] \in 1..Len(sent[e[1]]) /\ MessageOf(e) \in Messages
    OBVIOUS
  <2>1. e \in Envelopes /\ e[1] \in Generations /\ e[2] \in Nat \ {0}
        /\ e[2] <= Len(sent[e[1]])
    BY DEF BrokerTyped, Delivered, Envelopes, Tags
  <2>2. e[2] \in 1..Len(sent[e[1]])
    BY <1>1, <2>1
  <2> QED
    BY <1>1, <2>1, <2>2, ElementOfSeq DEF MessageOf
<1>3. ASSUME UNCHANGED <<queue, sent, unsettled, alive>> PROVE Goal
  BY <1>1, <1>3 DEF BrokerTyped, Delivered
<1>4. ASSUME NEW g \in Generations, NEW m \in Messages, Deliver(g, m) PROVE Goal
  <2>1. /\ sent' = [sent EXCEPT ![g] = Append(sent[g], m)]
        /\ queue' = queue \ {m}
        /\ unsettled' = unsettled \cup {<<g, Len(sent[g]) + 1>>}
        /\ alive' = alive /\ alive[g] /\ ~cancelled[g]
        /\ Len(sent[g]) < MaxDeliveries
    BY <1>4 DEF Deliver
  <2>2. Append(sent[g], m) \in Seq(Messages) /\ Len(Append(sent[g], m)) = Len(sent[g]) + 1
    BY <1>1, AppendProperties
  <2>3. /\ sent' \in [Generations -> Seq(Messages)] /\ sent'[g] = Append(sent[g], m)
        /\ \A h \in Generations \ {g} : sent'[h] = sent[h]
    BY <2>1, <2>2 DEF BrokerTyped
  <2>4. \A h \in Generations : /\ Len(sent'[h]) <= MaxDeliveries
                               /\ Len(sent[h]) <= Len(sent'[h])
                               /\ cancelled[h] => sent'[h] = sent[h]
    BY <1>1, <2>1, <2>2, <2>3, ConsumerAssumption DEF BrokerTyped
  <2>5. <<g, Len(sent[g]) + 1>> \in Envelopes
    BY <1>1, <2>1, ConsumerAssumption DEF Envelopes, Tags
  <2>6. \A e \in unsettled' : Delivered(e)'
    <3> SUFFICES ASSUME NEW e \in unsettled' PROVE e \in Envelopes /\ e[2] <= Len(sent'[e[1]])
      BY DEF Delivered
    <3>1. CASE e \in unsettled
      BY <1>1, <1>2, <2>3, <2>4, <3>1
    <3>2. CASE e = <<g, Len(sent[g]) + 1>>
      BY <1>1, <2>2, <2>3, <2>5, <3>2
    <3> QED
      BY <2>1, <3>1, <3>2
  <2>7. \A e \in unsettled' :
           e \in unsettled \/ (e[2] > Len(sent[e[1]]) /\ alive[e[1]] /\ ~cancelled[e[1]])
    BY <1>1, <2>1
  <2>8. queue' \subseteq Messages /\ alive' \in [Generations -> BOOLEAN]
    BY <2>1 DEF BrokerTyped
  <2>9. \A h \in Generations : alive'[h] => alive[h]
    BY <2>1
  <2>10. (\A e \in unsettled : alive[e[1]]) => \A e \in unsettled' : alive'[e[1]]
    BY <2>1
  <2> QED
    BY <2>3, <2>4, <2>6, <2>7, <2>8, <2>9, <2>10
<1>5. ASSUME NEW g, Disconnect(g) PROVE Goal
  <2>1. alive' = [alive EXCEPT ![g] = FALSE]
    BY <1>5 DEF Disconnect
  <2>2. alive' \in [Generations -> BOOLEAN] /\ \A h \in Generations : alive'[h] => alive[h]
    BY <2>1, Zenon DEF BrokerTyped
  <2>3. \A h \in Generations \ {g} : alive'[h] = alive[h]
    BY <2>1 DEF BrokerTyped
  <2>4. unsettled' \subseteq unsettled /\ \A e \in unsettled' : e[1] # g
    BY <1>5 DEF Disconnect, On
  <2>5. sent' = sent /\ queue' \subseteq Messages
    BY <1>2, <1>5 DEF Disconnect, On, BrokerTyped
  <2>6. \A e \in unsettled' : Delivered(e)'
    BY <2>4, <2>5 DEF BrokerTyped, Delivered
  <2>7. (\A e \in unsettled : alive[e[1]]) => \A e \in unsettled' : alive'[e[1]]
    BY <1>2, <2>3, <2>4
  <2> QED
    BY <1>1, <2>2, <2>4, <2>5, <2>6, <2>7 DEF BrokerTyped
<1>6. ASSUME NEW e, NEW v, ApplySettlement(e, v) PROVE Goal
  <2>1. /\ UNCHANGED <<sent, alive>> /\ unsettled' \subseteq unsettled
        /\ queue' \subseteq queue \cup {MessageOf(e)} /\ e \in unsettled
    BY <1>6 DEF ApplySettlement
  <2>2. queue' \subseteq Messages
    BY <1>1, <1>2, <2>1 DEF BrokerTyped, Delivered
  <2>3. \A f \in unsettled' : Delivered(f)'
    BY <2>1, Zenon DEF BrokerTyped, Delivered
  <2> QED
    BY <1>1, <1>2, <2>1, <2>2, <2>3 DEF BrokerTyped
<1>7. ASSUME AttemptSucceeds PROVE Goal
  <2>1. /\ UNCHANGED <<queue, sent, unsettled>>
        /\ alive' = [alive EXCEPT ![generation + 1] = TRUE]
    BY <1>7 DEF AttemptSucceeds
  <2>2. alive' \in [Generations -> BOOLEAN] /\ \A h \in Generations : alive[h] => alive'[h]
    BY <2>1, Zenon DEF BrokerTyped
  <2> QED
    BY <1>1, <1>2, <1>7, <2>1, <2>2 DEF BrokerTyped, Delivered
<1>8. Goal
  BY <1>3, <1>4, <1>5, <1>6, <1>7, BrokerSteps, Zenon
<1> QED
  BY <1>8, CancelledSteps DEF BrokerTyped

\* The state of the generations keeps its types, and a delegated delivery is not
\* forgotten.
LEMMA GenerationNext ==
    ASSUME GenerationTyped, LoopTyped, [Next]_vars
    PROVE  GenerationTyped' /\ \A g \in Generations : delegated[g] => delegated'[g]
<1> USE DEF GenerationTyped
<1> DEFINE Goal == GenerationTyped' /\ \A g \in Generations : delegated[g] => delegated'[g]
<1>1. ASSUME UNCHANGED generationVars PROVE Goal
  BY <1>1 DEF generationVars
<1>2. ASSUME NEW g, NEW ending \in {"clean", "failed"}, CloseGeneration(g, ending) PROVE Goal
  BY <1>2, Zenon DEF CloseGeneration
<1>3. ASSUME NEW d \in Drains, CancelGeneration(d) PROVE Goal
  <2>1. UNCHANGED <<closed, failure, delegated>>
    BY <1>3, Zenon DEF CancelGeneration
  <2>2. cancel' \in [Generations -> {"none", "ok", "error"}]
    BY <1>3, Zenon DEF CancelGeneration
  <2> QED
    BY <2>1, <2>2
<1>4. ASSUME ReceiveFailure PROVE Goal
  BY <1>4 DEF ReceiveFailure
<1>5. ASSUME NEW w \in Workers, FailGeneration(w) PROVE Goal
  BY <1>5 DEF FailGeneration, LoopTyped
<1>6. ASSUME NEW w \in Workers, NEW v, HandlerReturns(w, v) PROVE Goal
  <2>1. UNCHANGED <<closed, cancel, failure>>
    BY <1>6, Zenon DEF HandlerReturns
  <2>2. delegated' = delegated \/ delegated' = [delegated EXCEPT ![envelope[w][1]] = TRUE]
    BY <1>6, Zenon DEF HandlerReturns
  <2>3. /\ delegated' \in [Generations -> BOOLEAN]
        /\ \A g \in Generations : delegated[g] => delegated'[g]
    BY <2>2, Zenon
  <2> QED
    BY <2>1, <2>3
<1>7. CASE Loop
  BY <1>1, <1>2, <1>4, <1>7, Zenon
  DEF Loop, LoopTop, Admit, ReceiveDelivery, ReceiveClose, Wake, ReceiveCancel,
      ReceiveRecoveryDone, ReceiveLifetimeDone, RejectSent, RejectReturns,
      RejectFails, BeginRecovery, CloseLost, GiveUpRecovery, AttemptFails, AttemptSucceeds,
      Install, EndRun, FinishRun
<1>8. CASE \E w \in Workers : Worker(w)
  BY <1>1, <1>2, <1>5, <1>6, <1>8, Zenon
  DEF Worker, Take, SettleSent, SettleReturns, SettleFails
<1>9. CASE CloseAdmission \/ ShutdownSteps \/ \E value \in BOOLEAN : SetPaused(value)
  BY <1>1, <1>2, <1>9
  DEF CloseAdmission, ShutdownSteps, StopIntake, StartDrain, FinishShutdown, SetPaused
<1>10. CASE StartDrain("caller") \/ \E d \in Drains : DrainSteps(d)
  <2>1. ASSUME NEW d, StartDrain(d) \/ AbortDrain(d) \/ DrainExpires(d) \/ CompleteDrain(d)
        PROVE  Goal
    BY <1>1, <2>1, Zenon DEF StartDrain, AbortDrain, DrainExpires, StopLifetime, CompleteDrain
  <2>2. ASSUME NEW d, FailDrain(d) PROVE Goal
    BY <1>2, <2>2, Zenon DEF FailDrain
  <2> QED
    BY <1>3, <1>10, <2>1, <2>2, Zenon DEF DrainSteps
<1>11. CASE \E g \in Generations : Broker(g)
  BY <1>1, <1>11, Zenon DEF Broker, Deliver, ConnectionLost, BrokerCancel
<1>12. CASE UNCHANGED vars
  BY <1>1, <1>12 DEF vars
<1> QED
  BY <1>7, <1>8, <1>9, <1>10, <1>11, <1>12 DEF Next

\* The flags stay flags.
LEMMA BooleansNext == BooleansTyped /\ [Next]_vars => BooleansTyped'
<1> SUFFICES ASSUME BooleansTyped, [Next]_vars PROVE BooleansTyped'
  OBVIOUS
<1> USE DEF BooleansTyped
<1>1. CASE \/ LoopTop \/ Admit \/ ReceiveDelivery \/ ReceiveClose \/ Wake \/ ReceiveCancel
           \/ ReceiveFailure \/ ReceiveRecoveryDone \/ ReceiveLifetimeDone
           \/ RejectSent \/ RejectReturns \/ RejectFails
  <2>1. {drainErr', draining', deliveriesClosed', pausedSnap', admissionChanged'} \subseteq BOOLEAN
    BY <1>1, Zenon DEF LoopTop, Admit, ReceiveDelivery, ReceiveClose, Wake, ReceiveCancel,
           ReceiveFailure, ReceiveRecoveryDone, ReceiveLifetimeDone, RejectSent,
           RejectReturns,
           RejectFails, Return, Leave, AdmissionPaused
  <2>2. UNCHANGED <<stopping, recovering, terminal, resourceErr, paused, recoveryStopped,
                    lifetimeStopped, shutdownErr>>
    BY <1>1, Zenon DEF LoopTop, Admit, ReceiveDelivery, ReceiveClose, Wake, ReceiveCancel,
           ReceiveFailure, ReceiveRecoveryDone, ReceiveLifetimeDone, RejectSent,
           RejectReturns,
           RejectFails, LoopUnchanged, shutdownVars
  <2> QED
    BY <2>1, <2>2
<1>2. CASE \/ BeginRecovery \/ CloseLost \/ GiveUpRecovery \/ AttemptFails \/ AttemptSucceeds
           \/ Install \/ EndRun \/ FinishRun
  <2>1. {recovering', terminal', resourceErr', recoveryStopped', lifetimeStopped'}
            \subseteq BOOLEAN
    BY <1>2, Zenon DEF BeginRecovery, CloseLost, GiveUpRecovery, AttemptFails,
           AttemptSucceeds,
           Install, EndRun, FinishRun
  <2>2. UNCHANGED <<stopping, drainErr, paused, admissionChanged, draining, deliveriesClosed,
                    pausedSnap, shutdownErr>>
    BY <1>2, Zenon DEF BeginRecovery, CloseLost, GiveUpRecovery, AttemptFails,
           AttemptSucceeds,
           Install, EndRun, FinishRun, RunUnchanged, shutdownVars
  <2> QED
    BY <2>1, <2>2
<1>3. CASE \E w \in Workers : Worker(w)
  <2>1. {recovering', drainErr', admissionChanged'} \subseteq BOOLEAN
    BY <1>3, Zenon DEF Worker, Take, HandlerReturns, SettleSent, SettleReturns, SettleFails,
           FailGeneration, WorkerDone
  <2>2. UNCHANGED <<stopping, terminal, resourceErr, paused, recoveryStopped, lifetimeStopped,
                    draining, deliveriesClosed, pausedSnap, shutdownErr>>
    BY <1>3, Zenon DEF Worker, Take, HandlerReturns, SettleSent, SettleReturns, SettleFails,
           FailGeneration, WorkerUnchanged, loopVars, shutdownVars
  <2> QED
    BY <2>1, <2>2
<1>4. CASE \/ CloseAdmission \/ ShutdownSteps \/ \E value \in BOOLEAN : SetPaused(value)
           \/ StartDrain("caller") \/ \E d \in Drains : DrainSteps(d)
  <2>1. {stopping', resourceErr', paused', admissionChanged', recoveryStopped', lifetimeStopped',
         shutdownErr'} \subseteq BOOLEAN
    BY <1>4, Zenon DEF CloseAdmission, ShutdownSteps, StopIntake, StartDrain, FinishShutdown,
           SetPaused, DrainSteps, CancelGeneration, AbortDrain, DrainExpires, StopLifetime,
           FailDrain, CompleteDrain, signalVars, shutdownVars
  <2>2. UNCHANGED <<recovering, terminal, drainErr, draining, deliveriesClosed, pausedSnap>>
    BY <1>4, Zenon DEF CloseAdmission, ShutdownSteps, StopIntake, StartDrain, FinishShutdown,
           SetPaused, DrainSteps, CancelGeneration, AbortDrain, DrainExpires, StopLifetime,
           FailDrain, CompleteDrain, CallUnchanged, loopVars
  <2> QED
    BY <2>1, <2>2
<1>5. CASE \E g \in Generations : Broker(g)
  BY <1>5, ZenonT(30)
     DEF Broker, Deliver, ConnectionLost, BrokerCancel, errorVars, signalVars, loopVars,
         shutdownVars
<1>6. CASE UNCHANGED vars
  BY <1>6, Zenon DEF vars, errorVars, signalVars, loopVars, shutdownVars
<1> QED
  BY <1>1, <1>2, <1>3, <1>4, <1>5, <1>6, Zenon DEF Next, Loop

\* The loop reads what was sent, tag by tag, and starts a generation from nothing.
LEMMA LoopTypedNext ==
    ASSUME BrokerTyped, LoopTyped, Admission, [Next]_vars PROVE LoopTyped'
<1> USE DEF LoopTyped
<1>1. /\ BrokerTyped'
      /\ \A g \in Generations : sent'[g] \in Seq(Messages) /\ Len(sent'[g]) \in Nat
      /\ \A g \in Generations : sent[g] \in Seq(Messages) /\ Len(sent[g]) \in Nat
      /\ \A g \in Generations : Len(sent[g]) <= Len(sent'[g])
  <2>1. BrokerTyped' /\ \A g \in Generations : Len(sent[g]) <= Len(sent'[g])
    BY BrokerNext, Zenon
  <2> QED
    BY <2>1, LenProperties DEF BrokerTyped
\* The loop stays in its generation, or begins a new one with nothing read.
<1>2. ASSUME loop' \in LoopPoints, loop' # "installing", UNCHANGED generation,
             attempt' \in 0..MaxAttempts,
             \/ read' = 0 /\ pending' = <<>>
             \/ loop' \in Consuming /\ UNCHANGED <<read, pending>>
      PROVE  LoopTyped'
  <2>1. CASE read' = 0 /\ pending' = <<>>
    <3>1. pending' \in Seq(1..read') /\ Len(pending') <= Prefetch + 1
      BY <2>1, EmptySeq, ConsumerAssumption
    <3> QED
      BY <1>1, <1>2, <2>1, <3>1
  <2>2. CASE loop' \in Consuming /\ UNCHANGED <<read, pending>>
    BY <1>1, <1>2, <2>2
  <2> QED
    BY <1>2, <2>1, <2>2
<1>3. CASE LoopTop
  <2>1. pending' \in {pending, <<>>} /\ UNCHANGED <<generation, attempt>>
    BY <1>3 DEF LoopTop, Leave, LoopUnchanged
  <2>2. CASE loop' = "ending"
    BY <1>2, <1>3, <2>1, <2>2 DEF LoopTop, Leave, LoopPoints
  <2>3. CASE loop' # "ending"
    <3>1. loop' \in {"admitting", "select"} /\ read' = read
      BY <1>3, <2>3 DEF LoopTop, Leave
    <3>2. /\ <<>> \in Seq(1..read) /\ Len(<<>>) <= Prefetch + 1
          /\ pending \in Seq(1..read) /\ Len(pending) <= Prefetch + 1
      BY EmptySeq, ConsumerAssumption
    <3>3. pending' \in Seq(1..read) /\ Len(pending') <= Prefetch + 1
      BY <2>1, <3>2, Zenon
    <3> QED
      BY <1>1, <2>1, <3>1, <3>3 DEF Consuming, LoopPoints
  <2> QED
    BY <2>2, <2>3
<1>4. CASE Admit
  <2>1. /\ pending # <<>> /\ UNCHANGED <<generation, attempt, read>>
        /\ loop' \in {"top", "select"} /\ pending' \in {pending, Tail(pending)}
    BY <1>4 DEF Admit, Admission, LoopUnchanged
  <2>2. Tail(pending) \in Seq(1..read) /\ Len(Tail(pending)) = Len(pending) - 1
    BY <2>1, HeadTailProperties
  <2>3. /\ pending \in Seq(1..read) /\ Len(pending) <= Prefetch + 1
        /\ Len(Tail(pending)) <= Prefetch + 1
    BY <2>2, LenProperties, ConsumerAssumption
  <2>4. pending' \in Seq(1..read) /\ Len(pending') <= Prefetch + 1
    BY <2>1, <2>2, <2>3, Zenon
  <2> QED
    BY <1>1, <2>1, <2>4 DEF Consuming, LoopPoints
<1>5. CASE ReceiveDelivery
  <2>1. /\ UNCHANGED <<generation, attempt>> /\ loop' \in {"top", "rejecting"}
        /\ read' = read + 1 /\ read < Len(sent[generation])
        /\ pending' \in {pending, Append(pending, read + 1)}
        /\ Len(pending) # Prefetch + 1
    BY <1>5, Zenon DEF ReceiveDelivery, Receiving, LoopUnchanged
  <2>2. Len(pending) \in Nat /\ pending \in Seq(1..(read + 1)) /\ read + 1 \in 1..(read + 1)
    <3>1. 1..read \subseteq 1..(read + 1) /\ read + 1 \in 1..(read + 1)
      OBVIOUS
    <3> QED
      BY <3>1, SeqMonotonic, LenProperties
  <2>3. /\ Append(pending, read + 1) \in Seq(1..(read + 1))
        /\ Len(Append(pending, read + 1)) = Len(pending) + 1
    BY <2>2, AppendProperties
  <2>4. Len(pending) <= Prefetch + 1 /\ Len(Append(pending, read + 1)) <= Prefetch + 1
    BY <2>1, <2>2, <2>3, ConsumerAssumption
  <2>5. pending' \in Seq(1..read') /\ Len(pending') <= Prefetch + 1
    BY <2>1, <2>2, <2>3, <2>4, Zenon
  <2> QED
    BY <1>1, <2>1, <2>5 DEF Consuming, LoopPoints
<1>6. CASE \/ ReceiveClose \/ Wake \/ ReceiveCancel \/ ReceiveFailure \/ ReceiveRecoveryDone
           \/ ReceiveLifetimeDone \/ RejectSent \/ RejectReturns \/ RejectFails
  BY <1>2, <1>6, Zenon
  DEF ReceiveClose, Wake, ReceiveCancel, ReceiveFailure, ReceiveRecoveryDone,
      ReceiveLifetimeDone, RejectSent, RejectReturns, RejectFails, Return, Leave,
      LoopUnchanged,
      Consuming, LoopPoints
<1>7. CASE BeginRecovery \/ CloseLost \/ GiveUpRecovery \/ AttemptFails \/ EndRun \/ FinishRun
  <2>1. /\ UNCHANGED <<generation, read, pending>>
        /\ attempt' \in {attempt, 0} \/ (attempt' = attempt + 1 /\ AttemptsLeft)
        /\ loop' \in {"closing", "recovering", "ending", "waiting", "done"}
        /\ loop \notin Consuming
    BY <1>7, Zenon DEF BeginRecovery, CloseLost, GiveUpRecovery, AttemptFails, EndRun,
           FinishRun,
           RunUnchanged, Consuming
  <2>2. attempt' \in 0..MaxAttempts
    BY <2>1, ConsumerAssumption DEF AttemptsLeft
  <2> QED
    BY <1>2, <2>1, <2>2 DEF LoopPoints
<1>8. CASE AttemptSucceeds
  <2>1. /\ UNCHANGED <<generation, read, pending>> /\ attempt' = 0 /\ loop' = "installing"
        /\ generation < MaxGenerations /\ loop \notin Consuming
    BY <1>8 DEF AttemptSucceeds, RunUnchanged, Consuming
  <2> QED
    BY <1>1, <2>1, ConsumerAssumption DEF LoopPoints, Generations
<1>9. CASE Install
  <2>1. /\ UNCHANGED <<read, pending, attempt>> /\ loop = "installing" /\ loop \notin Consuming
        /\ \/ loop' = "ending" /\ generation' = generation
           \/ loop' = "top" /\ generation' = generation + 1
    BY <1>9 DEF Install, RunUnchanged, Consuming
  <2> QED
    BY <1>1, <2>1 DEF Consuming, LoopPoints
<1>10. ASSUME UNCHANGED <<loop, generation, attempt, read, pending>> PROVE LoopTyped'
  BY <1>1, <1>10
<1>11. CASE \E w \in Workers : Worker(w)
  BY <1>10, <1>11, Zenon DEF Worker, Take, HandlerReturns, SettleSent, SettleReturns,
         SettleFails,
         FailGeneration, WorkerUnchanged, loopVars
<1>12. CASE \/ CloseAdmission \/ ShutdownSteps \/ \E value \in BOOLEAN : SetPaused(value)
            \/ StartDrain("caller") \/ \E d \in Drains : DrainSteps(d)
  BY <1>10, <1>12, Zenon
     DEF CloseAdmission, ShutdownSteps, StopIntake, StartDrain, FinishShutdown,
         SetPaused, DrainSteps, CancelGeneration, AbortDrain, DrainExpires, StopLifetime,
         FailDrain, CompleteDrain, CallUnchanged, loopVars
<1>13. CASE \E g \in Generations : Broker(g)
  BY <1>10, <1>13, Zenon DEF Broker, Deliver, ConnectionLost, BrokerCancel, loopVars
<1>14. CASE UNCHANGED vars
  BY <1>10, <1>14 DEF vars, loopVars
<1> QED
  BY <1>3, <1>4, <1>5, <1>6, <1>7, <1>8, <1>9, <1>11, <1>12, <1>13, <1>14, Zenon DEF Next,
         Loop

\* What was delivered stays delivered.
LEMMA DeliveredStays ==
    ASSUME BrokerTyped, [Next]_vars, NEW e, Delivered(e) PROVE Delivered(e)'
<1>1. e[1] \in Generations /\ e[2] \in Nat
  BY ConsumerAssumption DEF Delivered, Envelopes, Tags
<1>2. /\ Len(sent[e[1]]) <= Len(sent'[e[1]])
      /\ Len(sent[e[1]]) \in Nat /\ Len(sent'[e[1]]) \in Nat
  <2>1. BrokerTyped' /\ Len(sent[e[1]]) <= Len(sent'[e[1]])
    BY <1>1, BrokerNext
  <2> QED
    BY <1>1, <2>1, LenProperties DEF BrokerTyped
<1> QED
  BY <1>1, <1>2 DEF Delivered

\* A delivery that finds room in the job queue ...
LEMMA JobAdded ==
    ASSUME NEW s \in Seq(Envelopes), Len(s) < Prefetch, \A i \in 1..Len(s) : Delivered(s[i]),
           NEW e, Delivered(e)
    PROVE  /\ Append(s, e) \in Seq(Envelopes) /\ Len(Append(s, e)) <= Prefetch
           /\ \A i \in 1..Len(Append(s, e)) : Delivered(Append(s, e)[i])
<1>1. ASSUME NEW S, NEW t \in Seq(S), NEW x \in S
      PROVE  /\ Append(t, x) \in Seq(S) /\ Len(Append(t, x)) = Len(t) + 1 /\ Len(t) \in Nat
             /\ \A i \in 1..(Len(t) + 1) : \/ i \in 1..Len(t) /\ Append(t, x)[i] = t[i]
                                          \/ Append(t, x)[i] = x
  BY AppendProperties, LenProperties
<1>2. e \in Envelopes
  BY DEF Delivered
<1>3. /\ Append(s, e) \in Seq(Envelopes) /\ Len(Append(s, e)) = Len(s) + 1 /\ Len(s) \in Nat
      /\ \A i \in 1..(Len(s) + 1) : \/ i \in 1..Len(s) /\ Append(s, e)[i] = s[i]
                                   \/ Append(s, e)[i] = e
  BY <1>1, <1>2
<1>4. Len(Append(s, e)) <= Prefetch
  BY <1>3, ConsumerAssumption
<1> QED
  BY <1>3, <1>4, Zenon

\* ... and one that a worker takes out of it.
LEMMA JobTaken ==
    ASSUME NEW s \in Seq(Envelopes), s # <<>>, Len(s) <= Prefetch,
           \A i \in 1..Len(s) : Delivered(s[i])
    PROVE  /\ Tail(s) \in Seq(Envelopes) /\ Len(Tail(s)) <= Prefetch
           /\ Delivered(Head(s)) /\ \A i \in 1..Len(Tail(s)) : Delivered(Tail(s)[i])
<1>1. /\ Tail(s) \in Seq(Envelopes) /\ Head(s) = s[1]
      /\ Len(Tail(s)) = Len(s) - 1 /\ Len(s) \in Nat \ {0}
      /\ \A i \in 1..Len(Tail(s)) : Tail(s)[i] = s[i + 1]
  BY HeadTailProperties, LenProperties, EmptySeq
<1> QED
  BY <1>1, ConsumerAssumption

\* Only deliveries reach the job queue and the workers.
LEMMA WorkersTypedNext ==
    ASSUME BrokerTyped, LoopTyped, WorkersTyped, Admission, [Next]_vars PROVE WorkersTyped'
<1> USE DEF WorkersTyped
<1>1. \A e : Delivered(e) => Delivered(e)'
  BY DeliveredStays
<1>2. ASSUME UNCHANGED workerVars PROVE WorkersTyped'
  BY <1>1, <1>2, Zenon DEF workerVars
<1>3. CASE Admit
  <2>1. CASE Len(jobs) = Prefetch
    <3>1. ~(Len(jobs) < Prefetch)
      BY <2>1, ConsumerAssumption
    <3>2. UNCHANGED workerVars
      BY <1>3, <3>1, Zenon DEF Admit, LoopUnchanged, workerVars
    <3> QED
      BY <1>2, <3>2, Zenon
  <2>2. CASE Len(jobs) # Prefetch
    <3> DEFINE job == <<generation, Head(pending)>>
    <3>1. /\ jobs' = Append(jobs, job) /\ Len(jobs) < Prefetch
          /\ UNCHANGED <<worker, envelope, verdict>> /\ pending # <<>>
      BY <1>3, <2>2 DEF Admit, Admission, LoopUnchanged
    <3>2. Head(pending) \in 1..read /\ read <= Len(sent[generation])
      BY <3>1, HeadTailProperties DEF LoopTyped
    <3>3. Len(sent[generation]) \in Nat /\ Len(sent[generation]) <= MaxDeliveries
      BY LenProperties DEF BrokerTyped, LoopTyped
    <3>4. Head(pending) \in Tags /\ Head(pending) <= Len(sent[generation])
      BY <3>2, <3>3, ConsumerAssumption DEF LoopTyped, Tags
    <3>5. Delivered(job)
      BY <3>4, Zenon DEF Delivered, Envelopes, LoopTyped
    <3> HIDE DEF job
    <3>6. /\ Append(jobs, job) \in Seq(Envelopes) /\ Len(Append(jobs, job)) <= Prefetch
          /\ \A i \in 1..Len(Append(jobs, job)) : Delivered(Append(jobs, job)[i])
      BY <3>1, <3>5, JobAdded, Zenon
    <3> QED
      BY <1>1, <3>1, <3>6, Zenon
  <2> QED
    BY <2>1, <2>2, Zenon
<1>4. CASE Loop /\ ~Admit
  BY <1>2, <1>4, Zenon
  DEF Loop, LoopTop, ReceiveDelivery, ReceiveClose, Wake, ReceiveCancel, ReceiveFailure,
      ReceiveRecoveryDone, ReceiveLifetimeDone, RejectSent, RejectReturns,
      RejectFails, BeginRecovery, CloseLost, GiveUpRecovery, AttemptFails, AttemptSucceeds,
      Install, EndRun, FinishRun, LoopUnchanged, RunUnchanged, workerVars
<1>5. ASSUME NEW w \in Workers, Take(w) PROVE WorkersTyped'
  <2>1. /\ jobs # <<>> /\ jobs' = Tail(jobs)
        /\ envelope' = [envelope EXCEPT ![w] = Head(jobs)]
        /\ worker' = [worker EXCEPT ![w] = "handling"] /\ verdict' = verdict
    BY <1>5 DEF Take
  <2>2. /\ Tail(jobs) \in Seq(Envelopes) /\ Len(Tail(jobs)) <= Prefetch
        /\ Delivered(Head(jobs)) /\ \A i \in 1..Len(Tail(jobs)) : Delivered(Tail(jobs)[i])
    BY <2>1, JobTaken, Zenon
  <2>3. Head(jobs) \in Envelopes
    BY <2>2, Zenon DEF Delivered
  <2> QED
    BY <1>1, <2>1, <2>2, <2>3, Zenon
<1>6. ASSUME NEW w \in Workers, jobs' = jobs, WorkerDone(w) PROVE WorkersTyped'
  BY <1>1, <1>6, Zenon DEF WorkerDone
<1>7. ASSUME NEW w \in Workers, UNCHANGED <<jobs, envelope>>, worker[w] # "idle",
             NEW p \in {"settling", "sent", "failing"}, worker' = [worker EXCEPT ![w] = p],
             NEW v \in Verdicts, verdict' \in {verdict, [verdict EXCEPT ![w] = v]}
      PROVE  WorkersTyped'
  BY <1>1, <1>7, Zenon
<1>8. ASSUME NEW w \in Workers, Worker(w) PROVE WorkersTyped'
  <2>1. CASE Take(w)
    BY <1>5, <2>1, Zenon
  <2>2. ASSUME NEW v \in Verdicts, HandlerReturns(w, v) PROVE WorkersTyped'
    BY <1>6, <1>7, <2>2, Zenon DEF HandlerReturns
  <2>3. CASE SettleSent(w) \/ SettleFails(w)
    <3>1. "final" \in Verdicts
      BY DEF Verdicts
    <3> QED
      BY <1>7, <2>3, <3>1, Zenon DEF SettleSent, SettleFails
  <2>4. CASE SettleReturns(w) \/ FailGeneration(w)
    BY <1>6, <2>4, Zenon DEF SettleReturns, FailGeneration
  <2> QED
    BY <1>8, <2>1, <2>2, <2>3, <2>4, Zenon DEF Worker
<1>9. CASE \/ CloseAdmission \/ ShutdownSteps \/ \E value \in BOOLEAN : SetPaused(value)
           \/ StartDrain("caller") \/ \E d \in Drains : DrainSteps(d)
  BY <1>2, <1>9, Zenon DEF CloseAdmission, ShutdownSteps, StopIntake, StartDrain,
         FinishShutdown,
         SetPaused, DrainSteps, CancelGeneration, AbortDrain, DrainExpires, StopLifetime,
         FailDrain, CompleteDrain, CallUnchanged
<1>10. CASE \E g \in Generations : Broker(g)
  BY <1>2, <1>10, Zenon DEF Broker, Deliver, ConnectionLost, BrokerCancel
<1>11. CASE UNCHANGED vars
  BY <1>2, <1>11, Zenon DEF vars
<1> QED
  BY <1>3, <1>4, <1>8, <1>9, <1>10, <1>11, Zenon DEF Next

\* The calls keep their types, and a worker settles the message it handled: it
\* settles the tag of its envelope on the channel of its envelope.
LEMMA CallsTypedNext ==
    ASSUME LoopTyped, WorkersTyped, CallsTyped, [Next]_vars PROVE CallsTyped'
<1> USE DEF CallsTyped
<1>1. ASSUME UNCHANGED <<calls, drainVars, shutdown, crossed>>,
             losses' \subseteq losses \cup {"dropped", "unsettled", "unrejected"}
      PROVE  CallsTyped'
  BY <1>1 DEF drainVars
<1>2. CASE \/ LoopTop \/ Admit \/ ReceiveDelivery \/ ReceiveClose \/ Wake \/ ReceiveCancel
           \/ ReceiveFailure \/ ReceiveRecoveryDone \/ ReceiveLifetimeDone
           \/ RejectSent \/ RejectReturns \/ RejectFails
  <2>1. LoopUnchanged
    BY <1>2, Zenon DEF LoopTop, Admit, ReceiveDelivery, ReceiveClose, Wake, ReceiveCancel,
           ReceiveFailure, ReceiveRecoveryDone, ReceiveLifetimeDone, RejectSent,
           RejectReturns,
           RejectFails
  <2>2. losses' = losses \/ (\E some : Drop(some)) \/ RejectFails
    BY <1>2, Zenon DEF LoopTop, Admit, ReceiveDelivery, ReceiveClose, Wake, ReceiveCancel,
           ReceiveFailure, ReceiveRecoveryDone, ReceiveLifetimeDone, RejectSent,
           RejectReturns,
           Return
  <2>3. losses' \subseteq losses \cup {"dropped", "unsettled", "unrejected"}
    BY <2>2 DEF RejectFails, Drop, Lose, Dropped
  <2> QED
    BY <1>1, <2>1, <2>3 DEF LoopUnchanged, shutdownVars
<1>3. CASE \/ BeginRecovery \/ CloseLost \/ GiveUpRecovery \/ AttemptFails \/ AttemptSucceeds
           \/ Install \/ EndRun \/ FinishRun
  BY <1>1, <1>3, Zenon
     DEF BeginRecovery, CloseLost, GiveUpRecovery, AttemptFails, AttemptSucceeds,
         Install, EndRun, FinishRun, RunUnchanged, shutdownVars, historyVars
<1>4. ASSUME NEW w \in Workers, Worker(w) PROVE CallsTyped'
  <2>1. WorkerUnchanged /\ losses' \subseteq losses \cup {"dropped", "unsettled", "unrejected"}
    BY <1>4, Zenon DEF Worker, Take, HandlerReturns, SettleSent, SettleReturns, SettleFails,
           FailGeneration, historyVars
  <2>2. crossed' = crossed
    <3>1. CASE SettleSent(w)
      <4>1. /\ worker[w] = "settling"
            /\ crossed' = crossed \cup ({MessageOf(<<envelope[w][1], envelope[w][2]>>)}
                                        \ {MessageOf(envelope[w])})
        BY <3>1, Zenon DEF SettleSent, SettlementChannel
      <4>2. envelope[w] = <<envelope[w][1], envelope[w][2]>>
        <5>1. envelope[w] \in Envelopes
          BY <4>1, Zenon DEF WorkersTyped, Delivered
        <5> QED
          BY <5>1, EnvelopePair, Zenon
      <4> QED
        BY <4>1, <4>2, Zenon
    <3>2. CASE ~SettleSent(w)
      BY <1>4, <3>2, Zenon DEF Worker, Take, HandlerReturns, SettleReturns, SettleFails,
             FailGeneration, historyVars
    <3> QED
      BY <3>1, <3>2
  <2> QED
    BY <1>1, <2>1, <2>2 DEF WorkerUnchanged, shutdownVars
<1>5. CASE CloseAdmission \/ StopIntake \/ FinishShutdown \/ \E value \in BOOLEAN : SetPaused(value)
  BY <1>5, Zenon DEF CloseAdmission, StopIntake, FinishShutdown, SetPaused, CallUnchanged,
         drainVars, shutdownVars, historyVars
<1>6. ASSUME NEW d \in Drains, StartDrain(d) PROVE CallsTyped'
  <2>1. generation \in 0..MaxGenerations
    BY ConsumerAssumption DEF LoopTyped, Generations
  <2> QED
    BY <1>6, <2>1 DEF StartDrain, CallUnchanged, shutdownVars, historyVars
<1>7. ASSUME NEW d \in Drains, DrainSteps(d) PROVE CallsTyped'
  <2>1. /\ UNCHANGED <<calls, shutdown, crossed, losses>>
        /\ drained' \in {drained, [drained EXCEPT ![d] = 0]}
    BY <1>7, Zenon DEF DrainSteps, CancelGeneration, AbortDrain, DrainExpires, StopLifetime,
           FailDrain, CompleteDrain, CallUnchanged, shutdownVars, historyVars
  <2>2. drain' \in [Drains -> {"idle", "cancelling", "waiting", "aborting", "failing", "done"}]
    BY <1>7, Zenon DEF DrainSteps, CancelGeneration, AbortDrain, DrainExpires, StopLifetime,
           FailDrain, CompleteDrain
  <2>3. result' \in [Drains -> {"none", "ok", "error"}]
    BY <1>7, Zenon DEF DrainSteps, CancelGeneration, AbortDrain, DrainExpires, StopLifetime,
           FailDrain, CompleteDrain
  <2>4. drained' \in [Drains -> 0..MaxGenerations]
    BY <2>1, ConsumerAssumption
  <2> QED
    BY <2>1, <2>2, <2>3, <2>4
<1>8. CASE \E g \in Generations : Broker(g)
  BY <1>1, <1>8, Zenon
     DEF Broker, Deliver, ConnectionLost, BrokerCancel, shutdownVars, historyVars
<1>9. CASE UNCHANGED vars
  BY <1>1, <1>9 DEF vars, shutdownVars, historyVars
<1>10. "caller" \in Drains /\ "shutdown" \in Drains
  BY DEF Drains
<1> QED
  BY <1>2, <1>3, <1>4, <1>5, <1>6, <1>7, <1>8, <1>9, <1>10, Zenon DEF Next, Loop,
         ShutdownSteps

\* Every step keeps the types.
LEMMA TypesNext == Types /\ Admission /\ [Next]_vars => Types'
  BY BrokerNext, GenerationNext, LoopTypedNext, WorkersTypedNext, CallsTypedNext,
         BooleansNext,
     Zenon
  DEF Types

\* Types holds throughout.
LEMMA TypesAlways == Spec => []Types
<1>1. Init => Types
  BY TypesInit
<1> QED
  BY <1>1, TypesNext, QueuesAlways, PTL DEF Spec

\* For every configuration: the consumer keeps its types.  In particular the backlog
\* never holds more than Prefetch + 1 deliveries, and jobs no more than Prefetch.
THEOREM TypeCorrect == Spec => []TypeOK
<1>1. Types => TypeOK
  BY TypesSuffice
<1> QED
  BY <1>1, TypesAlways, PTL

\* For every number of generations and workers: no message is settled by the handler
\* of another one (handle, settle).
THEOREM OwnSettled == Spec => []OwnMessageSettled
<1>1. Types => OwnMessageSettled
  BY TypesSuffice
<1> QED
  BY <1>1, TypesAlways, PTL

-----------------------------------------------------------------------------
(* Connections.                                                            *)

\* Only the current generation, and one that recovery is about to install, have a
\* connection, and from the end of Shutdown the current one has none.
Owning ==
    /\ \A g \in Generations :
          alive[g] => g = generation \/ (loop = "installing" /\ g = generation + 1)
    /\ loop \in {"recovering", "installing"} => ~alive[generation]
    /\ shutdown \in {"draining", "done"} => stopping
    /\ shutdown = "done" => ~alive[generation]

\* A Drain that failed has stopped the loop and is about to close the generation.
Abandoning == \E d \in Drains : drain[d] = "failing"

\* When the loop stops consuming for good, the current generation is gone or
\* cancelled with everything read, so that nothing more is delivered, or is about to
\* be closed: a Drain cancels or closes the generation that is still the current one.
Ceasing ==
    /\ \A d \in Drains : drain[d] \in {"cancelling", "waiting", "aborting", "failing"} =>
                             drained[d] = generation
    /\ lifetimeStopped => ~alive[generation] \/ Abandoning
    /\ terminal => ~alive[generation] /\ loop \in {"ending", "waiting", "done"}
    /\ deliveriesClosed =>
          ~alive[generation] \/ (cancelled[generation] /\ read = Len(sent[generation]))
    /\ loop \in {"ending", "waiting", "done"} =>
          ~alive[generation] \/ cancelled[generation] \/ Abandoning

\* A new consumer owns its first connection, and nobody has told it to stop.
LEMMA ConnectionsInit == Init => Owning /\ Ceasing
<1> SUFFICES ASSUME Init PROVE Owning /\ Ceasing
  OBVIOUS
<1>1. Owning
  <2>1. 1 \in Generations
    BY ConsumerAssumption DEF Generations
  <2> QED
    BY <2>1, Zenon DEF Init, Owning
<1>2. Ceasing
  BY DEF Init, Ceasing, Drains
<1> QED
  BY <1>1, <1>2

\* The steps that move the loop to another generation or into a recovery.
LEMMA GenerationSteps ==
    ASSUME [Next]_vars
    PROVE  \/ Install \/ AttemptSucceeds \/ CloseLost
           \/ /\ generation' = generation
              /\ \/ loop' = loop
                 \/ loop' \notin {"recovering", "installing"} /\ loop # "installing"
<1>1. CASE Loop
  BY <1>1, Zenon
  DEF Loop, LoopTop, Admit, ReceiveDelivery, ReceiveClose, Wake, ReceiveCancel,
  ReceiveFailure,
      ReceiveRecoveryDone, ReceiveLifetimeDone, RejectSent, RejectReturns, RejectFails,
      BeginRecovery, GiveUpRecovery, AttemptFails, EndRun, FinishRun, LoopUnchanged,
      Receiving, Selecting, Return, Leave
<1> QED
  BY <1>1, BesideLoop

\* Shutdown goes through its phases once.
LEMMA ShutdownMoves ==
    ASSUME [Next]_vars
    PROVE  shutdown' = shutdown \/ CloseAdmission \/ StopIntake \/ FinishShutdown
<1>1. CASE \/ LoopTop \/ Admit \/ ReceiveDelivery \/ ReceiveClose \/ Wake \/ ReceiveCancel
           \/ ReceiveFailure \/ ReceiveRecoveryDone \/ ReceiveLifetimeDone
           \/ RejectSent \/ RejectReturns \/ RejectFails
  BY <1>1, Zenon DEF LoopTop, Admit, ReceiveDelivery, ReceiveClose, Wake, ReceiveCancel,
         ReceiveFailure, ReceiveRecoveryDone, ReceiveLifetimeDone, RejectSent, RejectReturns,
         RejectFails, LoopUnchanged, shutdownVars
<1>2. CASE \/ BeginRecovery \/ CloseLost \/ GiveUpRecovery \/ AttemptFails \/ AttemptSucceeds
           \/ Install \/ EndRun \/ FinishRun
  BY <1>2, Zenon DEF BeginRecovery, CloseLost, GiveUpRecovery, AttemptFails, AttemptSucceeds,
         Install, EndRun, FinishRun, RunUnchanged, shutdownVars
<1>3. CASE \E w \in Workers : Worker(w)
  BY <1>3, Zenon DEF Worker, Take, HandlerReturns, SettleSent, SettleReturns, SettleFails,
         FailGeneration, WorkerUnchanged, shutdownVars
<1>4. CASE \/ \E value \in BOOLEAN : SetPaused(value)
           \/ \E d \in {"caller", "shutdown"} : StartDrain(d)
           \/ \E d \in Drains : DrainSteps(d)
  BY <1>4, Zenon DEF SetPaused, StartDrain, DrainSteps, CancelGeneration, AbortDrain,
         DrainExpires, StopLifetime, FailDrain, CompleteDrain, shutdownVars
<1>5. CASE \E g \in Generations : Broker(g)
  BY <1>5 DEF Broker, Deliver, ConnectionLost, BrokerCancel, shutdownVars
<1>6. CASE UNCHANGED vars
  BY <1>6 DEF vars, shutdownVars
<1> QED
  BY <1>1, <1>2, <1>3, <1>4, <1>5, <1>6 DEF Next, Loop, ShutdownSteps

\* A generation that is closed has no connection, and the others keep theirs.
LEMMA Disconnected ==
    ASSUME BrokerTyped, NEW g \in Generations, Disconnect(g)
    PROVE  ~alive'[g] /\ \A h \in Generations \ {g} : alive'[h] = alive[h]
  BY DEF BrokerTyped, Disconnect

\* The current generation changes only in an Install that is not discarded.
LEMMA ConnectionSteps ==
    ASSUME Types, Owning, [Next]_vars
    PROVE  /\ \/ generation' = generation
              \/ Install /\ ~stopping /\ generation' = generation + 1
           /\ generation' = generation => (alive'[generation] => alive[generation])
           /\ ~Install /\ ~AttemptSucceeds =>
                  generation' = generation /\ \A g \in Generations : alive'[g] => alive[g]
<1>1. \A g \in Generations : alive'[g] => alive[g] \/ AttemptSucceeds
  BY BrokerNext DEF Types
<1>2. generation \in Generations /\ generation + 1 # generation
  BY DEF Types, LoopTyped, Generations
<1>3. AttemptSucceeds => generation' = generation /\ alive'[generation] = alive[generation]
  BY <1>2, Zenon DEF AttemptSucceeds, Types, BrokerTyped
<1>4. \/ generation' = generation
      \/ Install /\ ~stopping /\ generation' = generation + 1
  BY <1>3, GenerationSteps, Zenon DEF CloseLost, Install, DiscardInstalled
<1> QED
  BY <1>1, <1>2, <1>3, <1>4

\* Recovery opens a connection when there is none, and discards it or makes it the
\* current one; Shutdown closes the current one, which stays current.
LEMMA OwningNext == Types /\ Owning /\ [Next]_vars => Owning'
<1> SUFFICES ASSUME Types, Owning, [Next]_vars PROVE Owning'
  OBVIOUS
<1>1. stopping => stopping'
  BY StopsStay
<1>2. shutdown' \in {"draining", "done"} => stopping'
  <2>1. CASE shutdown' = shutdown
    BY <1>1, <2>1 DEF Owning
  <2>2. CASE CloseAdmission \/ StopIntake
    BY <2>2 DEF CloseAdmission, StopIntake
  <2>3. CASE FinishShutdown
    BY <1>1, <2>3 DEF FinishShutdown, Owning
  <2> QED
    BY <2>1, <2>2, <2>3, ShutdownMoves
<1>3. generation \in Generations /\ generation + 1 # generation
  BY DEF Types, LoopTyped, Generations
<1>4. BrokerTyped
  BY DEF Types
<1>5. shutdown' = "done" => ~alive'[generation']
  <2>1. CASE FinishShutdown
    <3>1. Disconnect(generation) /\ generation' = generation
      BY <2>1 DEF FinishShutdown, CloseGeneration, CallUnchanged
    <3> QED
      BY <1>3, <1>4, <3>1, Disconnected
  <2>2. CASE shutdown = "done"
    <3>1. stopping /\ ~alive[generation]
      BY <2>2 DEF Owning
    <3> QED
      BY <3>1, ConnectionSteps
  <2>3. shutdown' = "done" => shutdown = "done" \/ FinishShutdown
    BY ShutdownMoves DEF CloseAdmission, StopIntake
  <2> QED
    BY <2>1, <2>2, <2>3
<1>6. CASE AttemptSucceeds
  <2>1. /\ loop = "recovering" /\ loop' = "installing" /\ generation' = generation
        /\ alive' = [alive EXCEPT ![generation + 1] = TRUE]
    BY <1>6 DEF AttemptSucceeds
  <2>2. \A g \in Generations : ~alive[g]
    BY <2>1 DEF Owning
  <2>3. \A g \in Generations : g # generation + 1 => ~alive'[g]
    BY <2>1, <2>2, <1>4 DEF BrokerTyped
  <2> QED
    BY <1>2, <1>3, <1>5, <2>1, <2>3 DEF Owning
<1>7. CASE Install
  <2>1. /\ loop = "installing" /\ generation + 1 \in Generations /\ ~alive[generation]
        /\ \A g \in Generations : alive[g] => g = generation + 1
    BY <1>7 DEF Install, Types, LoopTyped, Owning
  <2>2. CASE loop' = "top"
    <3>1. generation' = generation + 1 /\ alive' = alive
      BY <1>7, <2>2 DEF Install, brokerVars
    <3> QED
      BY <1>2, <1>5, <2>1, <2>2, <3>1 DEF Owning
  <2>3. CASE loop' = "ending"
    <3>1. generation' = generation /\ Disconnect(generation + 1)
      BY <1>7, <2>3 DEF Install, CloseGeneration
    <3>2. \A g \in Generations : ~alive'[g]
      BY <1>4, <2>1, <3>1, Disconnected
    <3> QED
      BY <1>2, <1>5, <2>3, <3>1, <3>2 DEF Owning
  <2> QED
    BY <1>7, <2>2, <2>3 DEF Install
<1>8. CASE CloseLost
  <2>1. /\ loop = "closing" /\ loop' \in {"ending", "recovering"}
        /\ generation' = generation /\ Disconnect(generation)
    BY <1>8 DEF CloseLost, CloseGeneration
  <2>2. \A g \in Generations : ~alive'[g]
    BY <1>3, <1>4, <2>1, Disconnected, Zenon DEF Owning
  <2> QED
    BY <1>2, <1>3, <1>5, <2>1, <2>2 DEF Owning
<1>9. CASE ~Install /\ ~AttemptSucceeds /\ ~CloseLost
  <2>1. generation' = generation /\ \A g \in Generations : alive'[g] => alive[g]
    BY <1>9, ConnectionSteps
  <2>2. loop' = loop \/ (loop' \notin {"recovering", "installing"} /\ loop # "installing")
    BY <1>9, GenerationSteps
  <2> QED
    BY <1>2, <1>3, <1>5, <2>1, <2>2 DEF Owning
<1> QED
  BY <1>6, <1>7, <1>8, <1>9

\* For every configuration: after Shutdown and the loop are over no connection is
\* left, not even one a recovery was opening while Shutdown ran (recoverRuntime,
\* finishShutdown).
THEOREM NothingOwned == Spec => []StoppedOwnsNothing
<1>1. Owning => StoppedOwnsNothing
  BY DEF Owning, StoppedOwnsNothing
<1>2. Init => Owning
  BY ConnectionsInit
<1> QED
  BY <1>1, <1>2, OwningNext, TypesAlways, PTL DEF Spec

\* FailDrain closes the generation that is still the current one.
LEMMA FailDrainCloses ==
    ASSUME Types, Ceasing, NEW d \in Drains, FailDrain(d)
    PROVE  generation' = generation /\ ~alive'[generation]
<1>1. Disconnect(generation) /\ generation' = generation
  BY DEF FailDrain, CloseGeneration, CallUnchanged, Ceasing
<1>2. generation \in Generations /\ BrokerTyped
  BY DEF Types, LoopTyped
<1> QED
  BY <1>1, <1>2, Disconnected

\* A Drain that is about to close the generation does nothing else before.
LEMMA AbandoningEnds ==
    ASSUME Types, Ceasing, Abandoning, [Next]_vars
    PROVE  Abandoning' \/ ~alive'[generation']
<1>1. PICK d \in Drains : drain[d] = "failing"
  BY DEF Abandoning
<1>2. drain \in [Drains -> {"idle", "cancelling", "waiting", "aborting", "failing", "done"}]
  BY DEF Types, CallsTyped
<1>3. ASSUME NEW c \in Drains, StartDrain(c) PROVE drain'[d] = drain[d]
  BY <1>1, <1>2, <1>3, Zenon DEF StartDrain
<1>4. ASSUME NEW c \in Drains, DrainSteps(c) PROVE FailDrain(d) \/ drain'[d] = drain[d]
  BY <1>1, <1>2, <1>4, Zenon
  DEF DrainSteps, CancelGeneration, AbortDrain, DrainExpires, StopLifetime, FailDrain,
      CompleteDrain
<1>5. "caller" \in Drains /\ "shutdown" \in Drains
  BY DEF Drains
<1>6. drain'[d] = drain[d] \/ FailDrain(d)
  BY <1>3, <1>4, <1>5, DrainMoves, Zenon
<1> QED
  BY <1>1, <1>6, FailDrainCloses, Zenon DEF Abandoning

\* The reasons for which nothing more is delivered stay.
LEMMA CeasingNext == Types /\ Owning /\ Ending /\ Ceasing /\ [Next]_vars => Ceasing'
<1> SUFFICES ASSUME Types, Owning, Ending, Ceasing, [Next]_vars PROVE Ceasing'
  OBVIOUS
<1> DEFINE Final == {"ending", "waiting", "done"}
<1>1. /\ \/ generation' = generation
         \/ Install /\ ~stopping /\ generation' = generation + 1
      /\ generation' = generation => (alive'[generation] => alive[generation])
  BY ConnectionSteps
<1>2. generation \in Generations /\ BrokerTyped
  BY DEF Types, LoopTyped
<1>3. /\ cancelled[generation] => sent'[generation] = sent[generation]
      /\ cancelled[generation] => cancelled'[generation]
  BY <1>2, BrokerNext, Zenon
\* A consumer that has failed or is stopping keeps its generation.
<1>4. terminal \/ lifetimeStopped \/ stopping \/ loop # "installing" => generation' = generation
  BY <1>1 DEF Install, Ending, Ceasing
<1>5. \A d \in Drains : drain'[d] \in {"cancelling", "waiting", "aborting", "failing"} =>
                            drained'[d] = generation'
  <2>1. CASE UNCHANGED <<drain, drained>>
    BY <1>4, <2>1 DEF Ceasing, Ending
  <2>2. ASSUME NEW d \in Drains, StartDrain(d)
        PROVE  \A c \in Drains : drain'[c] \in {"cancelling", "waiting", "aborting", "failing"} =>
                                     drained'[c] = generation'
    BY <2>2 DEF StartDrain, CallUnchanged, Ceasing, Types, CallsTyped
  <2>3. ASSUME NEW d \in Drains, DrainSteps(d)
        PROVE  \A c \in Drains : drain'[c] \in {"cancelling", "waiting", "aborting", "failing"} =>
                                     drained'[c] = generation'
    <3>1. CASE CancelGeneration(d) \/ AbortDrain(d) \/ DrainExpires(d)
      <4>1. /\ drained' = drained /\ generation' = generation
            /\ drain[d] \in {"cancelling", "waiting", "aborting"}
            /\ \A c \in Drains \ {d} : drain'[c] = drain[c]
        BY <3>1, Zenon DEF CancelGeneration, AbortDrain, DrainExpires, StopLifetime,
               CallUnchanged, Types, CallsTyped
      <4> QED
        BY <4>1, Zenon DEF Ceasing
    <3>2. CASE FailDrain(d) \/ CompleteDrain(d)
      BY <3>2, Zenon DEF FailDrain, CompleteDrain, CallUnchanged, Ceasing, Types, CallsTyped
    <3> QED
      BY <2>3, <3>1, <3>2, Zenon DEF DrainSteps
  <2>4. \/ UNCHANGED <<drain, drained>>
        \/ StartDrain("caller") \/ StartDrain("shutdown") \/ \E d \in Drains : DrainSteps(d)
    BY DrainMoves
  <2>5. "caller" \in Drains /\ "shutdown" \in Drains
    BY DEF Drains
  <2> QED
    BY <2>1, <2>2, <2>3, <2>4, <2>5
\* What the steps that set a reason do.
<1>6. ASSUME NEW d \in Drains, AbortDrain(d) \/ DrainExpires(d) PROVE Abandoning'
  BY <1>6, Zenon DEF AbortDrain, DrainExpires, StopLifetime, Abandoning, Types, CallsTyped
<1>7. ASSUME CloseLost \/ (EndRun /\ terminal) PROVE ~alive'[generation']
  <2>1. Disconnect(generation) /\ generation' = generation
    BY <1>7 DEF CloseLost, EndRun, CloseGeneration
  <2> QED
    BY <1>2, <2>1, Disconnected, Zenon
<1>8. ASSUME GiveUpRecovery \/ (Install /\ loop' = "ending") PROVE ~alive'[generation']
  <2>1. loop \in {"recovering", "installing"} /\ generation' = generation
    BY <1>8 DEF GiveUpRecovery, Install
  <2> QED
    BY <1>1, <2>1 DEF Owning
<1>9. lifetimeStopped' => ~alive'[generation'] \/ Abandoning'
  <2>1. lifetimeStopped' => \/ lifetimeStopped \/ (EndRun /\ terminal)
                            \/ \E d \in Drains : AbortDrain(d) \/ DrainExpires(d)
    <3>1. CASE EndRun
      BY <3>1, Zenon DEF EndRun
    <3>2. CASE Loop /\ ~EndRun
      BY <3>2, Zenon
      DEF Loop, LoopTop, Admit, ReceiveDelivery, ReceiveClose, Wake, ReceiveCancel,
          ReceiveFailure, ReceiveRecoveryDone, ReceiveLifetimeDone, RejectSent, RejectReturns,
          RejectFails, BeginRecovery, CloseLost, GiveUpRecovery, AttemptFails,
          AttemptSucceeds,
          Install, FinishRun, LoopUnchanged
    <3> QED
      BY <3>1, <3>2, BesideLoop, Zenon
  <2> QED
    BY <1>1, <1>4, <1>6, <1>7, <2>1, AbandoningEnds, Zenon DEF Ceasing
<1>10. terminal' => terminal \/ CloseLost \/ GiveUpRecovery
  <2>1. CASE Loop
    BY <2>1, Zenon
    DEF Loop, LoopTop, Admit, ReceiveDelivery, ReceiveClose, Wake, ReceiveCancel,
        ReceiveFailure, ReceiveRecoveryDone, ReceiveLifetimeDone, RejectSent, RejectReturns,
        RejectFails, BeginRecovery, AttemptFails, AttemptSucceeds, EndRun,
        Install, FinishRun, LoopUnchanged
  <2>2. CASE \E w \in Workers : Worker(w)
    BY <2>2, WorkerFrame, Zenon
  <2>3. CASE \/ CloseAdmission \/ ShutdownSteps \/ \E value \in BOOLEAN : SetPaused(value)
             \/ StartDrain("caller") \/ \E d \in Drains : DrainSteps(d)
    BY <2>3, Zenon DEF CloseAdmission, ShutdownSteps, StopIntake, StartDrain, FinishShutdown,
           SetPaused, DrainSteps, CancelGeneration, AbortDrain, DrainExpires, StopLifetime,
           FailDrain, CompleteDrain, CallUnchanged
  <2>4. CASE (\E g \in Generations : Broker(g)) \/ UNCHANGED vars
    BY <2>4, Zenon DEF Broker, Deliver, ConnectionLost, BrokerCancel, vars, errorVars
  <2> QED
    BY <2>1, <2>2, <2>3, <2>4 DEF Next
<1>11. loop \in Final => loop' \in Final
  <2>1. CASE Loop
    BY <2>1, Zenon
    DEF Loop, LoopTop, Admit, ReceiveDelivery, ReceiveClose, Wake, ReceiveCancel,
        ReceiveFailure, ReceiveRecoveryDone, ReceiveLifetimeDone, RejectSent, RejectReturns,
        RejectFails, BeginRecovery, CloseLost, GiveUpRecovery, AttemptFails, AttemptSucceeds,
        EndRun, Install, FinishRun, Receiving, Selecting
  <2> QED
    BY <2>1, BesideLoop
<1>12. terminal' => ~alive'[generation'] /\ loop' \in Final
  <2>1. CASE terminal
    BY <1>1, <1>4, <1>11, <2>1, Zenon DEF Ceasing
  <2>2. CASE CloseLost /\ ~terminal
    <3>1. terminal' => loop' = "ending"
      BY <2>2, Zenon DEF CloseLost
    <3> QED
      BY <1>7, <2>2, <3>1
  <2>3. CASE GiveUpRecovery
    BY <1>8, <2>3 DEF GiveUpRecovery
  <2> QED
    BY <1>10, <2>1, <2>2, <2>3
<1>13. deliveriesClosed' =>
          ~alive'[generation'] \/ (cancelled'[generation'] /\ read' = Len(sent'[generation']))
  <2>1. ASSUME deliveriesClosed, generation' = generation, read' = read
        PROVE  ~alive'[generation'] \/ (cancelled'[generation'] /\ read' = Len(sent'[generation']))
    BY <1>1, <1>3, <2>1, Zenon DEF Ceasing
  <2>2. ASSUME ReceiveClose, deliveriesClosed'
        PROVE  ~alive'[generation'] \/ (cancelled'[generation'] /\ read' = Len(sent'[generation']))
    <3>1. /\ ~alive[generation] \/ (cancelled[generation] /\ read = Len(sent[generation]))
          /\ UNCHANGED <<generation, alive, cancelled, sent>>
      BY <2>2, Zenon DEF ReceiveClose, LoopUnchanged
    <3>2. read' = read
      BY <2>2, Zenon DEF ReceiveClose, Return, Leave
    <3> QED
      BY <3>1, <3>2
  <2>3. deliveriesClosed' => deliveriesClosed \/ ReceiveClose
    <3>1. CASE Loop
      BY <3>1, Zenon
      DEF Loop, LoopTop, Admit, ReceiveDelivery, Wake, ReceiveCancel,
          ReceiveFailure, ReceiveRecoveryDone, ReceiveLifetimeDone, RejectSent, RejectReturns,
          RejectFails, BeginRecovery, CloseLost, GiveUpRecovery, AttemptFails,
          AttemptSucceeds,
          EndRun, Install, FinishRun, RunUnchanged, Return, Leave
    <3> QED
      BY <3>1, BesideLoop, Zenon
  <2>4. deliveriesClosed /\ deliveriesClosed' => generation' = generation
    BY <1>4 DEF Ending
  <2>5. deliveriesClosed /\ deliveriesClosed' => read' = read
    <3>1. CASE Loop
      BY <3>1, Zenon
      DEF Loop, LoopTop, Admit, ReceiveDelivery, ReceiveClose, Receiving, Wake, ReceiveCancel,
          ReceiveFailure, ReceiveRecoveryDone, ReceiveLifetimeDone, RejectSent, RejectReturns,
          RejectFails, BeginRecovery, CloseLost, GiveUpRecovery, AttemptFails,
          AttemptSucceeds,
          EndRun, Install, FinishRun, RunUnchanged, Return, Leave
    <3>2. CASE \E w \in Workers : Worker(w)
      BY <3>2, Zenon DEF Worker, Take, HandlerReturns, SettleSent, SettleReturns, SettleFails,
             FailGeneration, WorkerUnchanged, loopVars
    <3>3. CASE \/ CloseAdmission \/ ShutdownSteps \/ \E value \in BOOLEAN : SetPaused(value)
               \/ StartDrain("caller") \/ \E d \in Drains : DrainSteps(d)
      BY <3>3, Zenon DEF CloseAdmission, ShutdownSteps, StopIntake, StartDrain,
             FinishShutdown,
             SetPaused, DrainSteps, CancelGeneration, AbortDrain, DrainExpires,
             StopLifetime, FailDrain, CompleteDrain, CallUnchanged, loopVars
    <3>4. CASE (\E g \in Generations : Broker(g)) \/ UNCHANGED vars
      BY <3>4, Zenon DEF Broker, Deliver, ConnectionLost, BrokerCancel, vars, loopVars
    <3> QED
      BY <3>1, <3>2, <3>3, <3>4 DEF Next
  <2> QED
    BY <2>1, <2>2, <2>3, <2>4, <2>5, Zenon
<1>14. loop' \in Final => ~alive'[generation'] \/ cancelled'[generation'] \/ Abandoning'
  <2>1. ASSUME loop \notin Final, loop' \in Final
        PROVE  \/ deliveriesClosed \/ lifetimeStopped
               \/ CloseLost \/ GiveUpRecovery \/ (Install /\ loop' = "ending")
    <3>1. CASE Loop
      BY <2>1, <3>1, Zenon
      DEF Loop, LoopTop, Admit, ReceiveDelivery, ReceiveClose, Receiving, Wake, ReceiveCancel,
          ReceiveFailure, ReceiveRecoveryDone, ReceiveLifetimeDone, RejectSent, RejectReturns,
          RejectFails, BeginRecovery, CloseLost, GiveUpRecovery, AttemptFails,
          AttemptSucceeds,
          EndRun, Install, FinishRun, Return, Leave
    <3> QED
      BY <2>1, <3>1, BesideLoop
  <2>2. deliveriesClosed \/ lifetimeStopped \/ loop \in Final =>
            /\ generation' = generation
            /\ ~alive[generation] \/ cancelled[generation] \/ Abandoning
    BY <1>4, Zenon DEF Ceasing, Ending
  <2> QED
    BY <1>1, <1>3, <1>7, <1>8, <2>1, <2>2, AbandoningEnds
<1> QED
  BY <1>5, <1>9, <1>12, <1>13, <1>14, Zenon DEF Ceasing

-----------------------------------------------------------------------------
(* Waking up.                                                              *)

Busy == jobs # <<>> \/ \E w \in Workers : worker[w] # "idle"

\* A worker that is done leaves a token, and one that goes on is busy.
LEMMA WorkersWake ==
    ASSUME Types, NEW w \in Workers, Worker(w) PROVE admissionChanged' \/ Busy'
<1>1. CASE worker'[w] # "idle"
  BY <1>1 DEF Busy
<1>2. CASE WorkerDone(w)
  BY <1>2 DEF WorkerDone
<1>3. worker'[w] # "idle" \/ WorkerDone(w)
  BY Zenon DEF Worker, Take, HandlerReturns, SettleSent, SettleReturns, SettleFails,
     FailGeneration, Types, WorkersTyped
<1> QED
  BY <1>1, <1>2, <1>3

\* The loop blocks with a delivery that it may admit only when the job queue is full.
LEMMA LoopBlocks ==
    ASSUME Types, Loop, loop' = "select", pending' # <<>>, ~pausedSnap' PROVE Busy'
<1>1. CASE Admit
  <2>1. jobs' = jobs /\ Len(jobs) = Prefetch
    BY <1>1 DEF Admit
  <2>2. jobs # <<>>
    BY <2>1, ConsumerAssumption
  <2> QED
    BY <2>1, <2>2 DEF Busy
<1>2. ~Admit => FALSE
  BY Zenon DEF Loop, LoopTop, ReceiveDelivery, ReceiveClose, Wake, ReceiveCancel,
         ReceiveFailure,
     ReceiveRecoveryDone, ReceiveLifetimeDone, RejectSent, RejectReturns, RejectFails,
     BeginRecovery, CloseLost, GiveUpRecovery, AttemptFails, AttemptSucceeds, Install, EndRun,
     FinishRun, Return, Leave
<1> QED
  BY <1>1, <1>2

\* The broker and the calls of the application take no token from admissionChanged.
LEMMA TokenStays ==
    ASSUME [Next]_vars
    PROVE  \/ Loop
           \/ \E w \in Workers : Worker(w)
           \/ /\ UNCHANGED <<loop, pending, pausedSnap, jobs, worker>>
              /\ admissionChanged => admissionChanged'
<1> DEFINE Quiet == /\ UNCHANGED <<loop, pending, pausedSnap, jobs, worker>>
                    /\ admissionChanged => admissionChanged'
<1>1. CASE \E g \in Generations : Broker(g)
  BY <1>1, Zenon DEF Broker, Deliver, ConnectionLost, BrokerCancel, loopVars, workerVars,
     signalVars
<1>2. ASSUME NEW d, StartDrain(d) \/ DrainSteps(d) PROVE Quiet
  <2>1. UNCHANGED <<loop, pending, pausedSnap, jobs, worker>>
    BY <1>2, Zenon DEF StartDrain, DrainSteps, CancelGeneration, AbortDrain, DrainExpires,
           StopLifetime, FailDrain, CompleteDrain, CallUnchanged, loopVars, workerVars
  <2>2. UNCHANGED admissionChanged
    BY <1>2, Zenon DEF StartDrain, DrainSteps, CancelGeneration, AbortDrain, DrainExpires,
           StopLifetime, FailDrain, CompleteDrain, signalVars
  <2> QED
    BY <2>1, <2>2
<1>3. CASE \/ \E value \in BOOLEAN : SetPaused(value)
           \/ CloseAdmission \/ StopIntake \/ FinishShutdown
  BY <1>3, Zenon DEF SetPaused, CloseAdmission, StopIntake, FinishShutdown, CallUnchanged,
     loopVars, workerVars, signalVars
<1>4. CASE UNCHANGED vars
  BY <1>4, Zenon DEF vars, loopVars, workerVars, signalVars
<1> QED
  BY <1>1, <1>2, <1>3, <1>4 DEF Next, ShutdownSteps

\* For every prefetch and number of workers: while the loop blocks with a delivery that
\* only lacks room in the job queue, a token waits for it, or work is left whose end will
\* leave one (consumeGeneration, signalAdmissionChanged).
THEOREM WakeupsKept == Spec => []NoLostWakeup
<1>1. Init => NoLostWakeup
  BY DEF Init, NoLostWakeup
<1>2. NoLostWakeup /\ Types /\ [Next]_vars => NoLostWakeup'
  <2> SUFFICES ASSUME NoLostWakeup, Types, [Next]_vars, loop' = "select", pending' # <<>>, ~pausedSnap'
               PROVE  admissionChanged' \/ Busy'
    BY Zenon DEF NoLostWakeup, Busy
  <2>1. CASE Loop
    BY <2>1, LoopBlocks
  <2>2. CASE \E w \in Workers : Worker(w)
    BY <2>2, WorkersWake
  <2>3. CASE /\ UNCHANGED <<loop, pending, pausedSnap, jobs, worker>>
             /\ admissionChanged => admissionChanged'
    BY <2>3 DEF NoLostWakeup, Busy
  <2> QED
    BY <2>1, <2>2, <2>3, TokenStays
<1> QED
  BY <1>1, <1>2, TypesAlways, PTL DEF Spec

=============================================================================
