------------------------------ MODULE Consumer ------------------------------
(***************************************************************************)
(* consumer.go and the recovery half of consumer_open.go: one loop that    *)
(* receives deliveries and admits them to a bounded job queue, workers     *)
(* that run handlers and settle on the generation a delivery came from,    *)
(* generations that are lost and replaced, Pause and Resume, and Drain and *)
(* Shutdown running beside all of that.                                    *)
(*                                                                         *)
(* An envelope <<g, t>> is the delivery with tag t on generation g.  The   *)
(* message it carries is sent[g][t].                                       *)
(***************************************************************************)
EXTENDS Integers, Sequences, FiniteSets

CONSTANTS Messages,        \* messages in the broker's queue
          Malformed,       \* those deliveryFromAMQP rejects
          Workers,         \* handler goroutines; their number is Concurrency
          Scenarios,       \* sets of lifecycle methods one application calls
          Prefetch,        \* ConsumerConfig.Prefetch, also the capacity of jobs
          MaxAttempts,     \* Recovery.MaxAttempts; 0 when recovery is nil
          MaxGenerations,  \* bound on the generations one behaviour installs
          MaxDeliveries    \* bound on the deliveries of one generation

\* delivery.go:147: Concurrency is at least 1 and at most Prefetch.
ASSUME ConsumerAssumption ==
    /\ Malformed \subseteq Messages
    /\ IsFiniteSet(Workers)
    /\ Scenarios \subseteq SUBSET {"Pause", "Drain", "Shutdown"}
    /\ Prefetch \in Nat \ {0}
    /\ Cardinality(Workers) \in 1..Prefetch
    /\ MaxAttempts \in Nat
    /\ MaxGenerations \in Nat \ {0}
    /\ MaxDeliveries \in Nat \ {0}

VARIABLES
    \* the broker and the client library (external)
    queue, sent, unsettled, alive, cancelled, notice,
    \* per generation: closeOnce with closeErr, cancelOnce with cancelErr, whether
    \* its failure channel holds a signal, and delegated
    closed, cancel, failure, delegated,
    \* fields of Consumer
    generation, stopping, recovering, terminal, drainErr, resourceErr, paused,
    admissionChanged, recoveryStopped, lifetimeStopped,
    \* the loop: run, consumeGeneration and recoverRuntime, with their locals
    loop, read, pending, draining, deliveriesClosed, pausedSnap, attempt,
    \* the job queue and the workers
    jobs, worker, envelope, verdict,
    \* the methods this application calls, its Drain, and Shutdown
    calls, drain, drained, result, shutdown, shutdownErr,
    \* history: messages settled for a delivery of another message, and how
    \* deliveries of the current generation were lost while stopping: dropped by
    \* the loop, or their settlement failed, on a worker or on the loop
    crossed, losses

brokerVars == <<queue, sent, unsettled, alive, cancelled, notice>>
generationVars == <<closed, cancel, failure, delegated>>
errorVars == <<terminal, drainErr, resourceErr>>
signalVars == <<admissionChanged, recoveryStopped, lifetimeStopped>>
loopVars == <<loop, read, pending, draining, deliveriesClosed, pausedSnap, attempt>>
workerVars == <<jobs, worker, envelope, verdict>>
drainVars == <<drain, drained, result>>
shutdownVars == <<shutdown, shutdownErr>>
historyVars == <<crossed, losses>>
vars == <<brokerVars, generationVars, generation, stopping, recovering, errorVars, paused,
          signalVars, loopVars, workerVars, calls, drainVars, shutdownVars, historyVars>>

Generations == 1..MaxGenerations
Tags == 1..MaxDeliveries
Envelopes == Generations \X Tags
NoEnvelope == <<0, 0>>

\* Settlements as the broker tells them apart: ack, nack or reject for good, nack
\* or reject with Requeue, and none.
Verdicts == {"final", "requeue", "delegate"}

\* A caller of Drain, and the call finishShutdown makes.
Drains == {"caller", "shutdown"}

\* The points inside consumeGeneration, and all points of run.
Consuming == {"top", "admitting", "select", "rejecting", "rejected"}
LoopPoints == Consuming \cup {"lost", "closing", "recovering", "installing", "ending",
                              "waiting", "done"}

TypeOK ==
    /\ queue \subseteq Messages
    /\ sent \in [Generations -> Seq(Messages)]
    /\ unsettled \subseteq Envelopes
    /\ alive \in [Generations -> BOOLEAN]
    /\ cancelled \in [Generations -> BOOLEAN]
    /\ notice \in [Generations -> BOOLEAN]
    /\ closed \in [Generations -> {"open", "clean", "failed"}]
    /\ cancel \in [Generations -> {"none", "ok", "error"}]
    /\ failure \subseteq Generations
    /\ delegated \in [Generations -> BOOLEAN]
    /\ generation \in Generations
    /\ {stopping, recovering, terminal, drainErr, resourceErr, paused, draining,
        deliveriesClosed, pausedSnap, admissionChanged, recoveryStopped,
        lifetimeStopped, shutdownErr} \subseteq BOOLEAN
    /\ loop \in LoopPoints
    /\ read \in 0..MaxDeliveries
    /\ pending \in Seq(Tags) /\ Len(pending) <= Prefetch + 1
    /\ attempt \in 0..MaxAttempts
    /\ jobs \in Seq(Envelopes) /\ Len(jobs) <= Prefetch
    /\ worker \in [Workers -> {"idle", "handling", "settling", "sent", "failing"}]
    /\ envelope \in [Workers -> Envelopes \cup {NoEnvelope}]
    /\ verdict \in [Workers -> Verdicts \cup {"none"}]
    /\ calls \in Scenarios
    /\ drain \in [Drains -> {"idle", "cancelling", "waiting", "aborting", "failing", "done"}]
    /\ drained \in [Drains -> 0..MaxGenerations]
    /\ result \in [Drains -> {"none", "ok", "error"}]
    /\ shutdown \in {"open", "admissionClosed", "draining", "done"}
    /\ crossed \subseteq Messages
    /\ losses \subseteq {"dropped", "unsettled", "unrejected"}

ShutdownAdmissionClosed == shutdown # "open"

\* newConsumerFromChannelWithRecovery, after the first generation was set up.
Init ==
    /\ queue = Messages
    /\ sent = [g \in Generations |-> <<>>]
    /\ unsettled = {}
    /\ alive = [g \in Generations |-> g = 1]
    /\ cancelled = [g \in Generations |-> FALSE]
    /\ notice = [g \in Generations |-> FALSE]
    /\ closed = [g \in Generations |-> "open"]
    /\ cancel = [g \in Generations |-> "none"]
    /\ failure = {}
    /\ delegated = [g \in Generations |-> FALSE]
    /\ generation = 1
    /\ stopping = FALSE /\ recovering = FALSE /\ paused = FALSE
    /\ terminal = FALSE /\ drainErr = FALSE /\ resourceErr = FALSE
    /\ admissionChanged = FALSE /\ recoveryStopped = FALSE /\ lifetimeStopped = FALSE
    /\ loop = "top" /\ read = 0 /\ pending = <<>>
    /\ draining = FALSE /\ deliveriesClosed = FALSE /\ pausedSnap = FALSE /\ attempt = 0
    /\ jobs = <<>>
    /\ worker = [w \in Workers |-> "idle"]
    /\ envelope = [w \in Workers |-> NoEnvelope]
    /\ verdict = [w \in Workers |-> "none"]
    /\ calls \in Scenarios
    /\ drain = [d \in Drains |-> "idle"]
    /\ drained = [d \in Drains |-> 0]
    /\ result = [d \in Drains |-> "none"]
    /\ shutdown = "open" /\ shutdownErr = FALSE
    /\ crossed = {} /\ losses = {}

-----------------------------------------------------------------------------
(* The broker and the client library (external).                           *)

On(g) == {e \in unsettled : e[1] = g}
MessageOf(e) == sent[e[1]][e[2]]

\* The connection of g is gone: the broker takes back what was not settled.
Disconnect(g) ==
    /\ alive' = [alive EXCEPT ![g] = FALSE]
    /\ unsettled' = unsettled \ On(g)
    /\ queue' = queue \cup {MessageOf(e) : e \in On(g)}
    /\ UNCHANGED <<sent, cancelled, notice>>

\* basic.ack, nack or reject of one delivery tag.
ApplySettlement(e, v) ==
    /\ e \in unsettled
    /\ unsettled' = unsettled \ {e}
    /\ queue' = IF v = "requeue" THEN queue \cup {MessageOf(e)} ELSE queue
    /\ UNCHANGED <<sent, alive, cancelled, notice>>

\* basic.deliver within the prefetch window.
Deliver(g, m) ==
    /\ alive[g] /\ ~cancelled[g]
    /\ m \in queue
    /\ Cardinality(On(g)) < Prefetch
    /\ Len(sent[g]) < MaxDeliveries
    /\ queue' = queue \ {m}
    /\ sent' = [sent EXCEPT ![g] = Append(@, m)]
    /\ unsettled' = unsettled \cup {<<g, Len(sent[g]) + 1>>}
    /\ UNCHANGED <<alive, cancelled, notice, generationVars, generation, stopping,
                   recovering, errorVars, paused, signalVars, loopVars, workerVars,
                   calls, drainVars, shutdownVars, historyVars>>

ConnectionLost(g) ==
    /\ alive[g]
    /\ Disconnect(g)
    /\ UNCHANGED <<generationVars, generation, stopping, recovering, errorVars, paused,
                   signalVars, loopVars, workerVars, calls, drainVars, shutdownVars,
                   historyVars>>

\* basic.cancel by the broker, for instance when the queue is deleted.
BrokerCancel(g) ==
    /\ alive[g] /\ ~cancelled[g]
    /\ cancelled' = [cancelled EXCEPT ![g] = TRUE]
    /\ notice' = [notice EXCEPT ![g] = TRUE]
    /\ UNCHANGED <<queue, sent, unsettled, alive, generationVars, generation,
                   stopping, recovering, errorVars, paused, signalVars, loopVars,
                   workerVars, calls, drainVars, shutdownVars, historyVars>>

-----------------------------------------------------------------------------
(* closeGeneration: the first call closes and retains its result.  A call  *)
(* also reports an error when its own deadline passes first.               *)

CloseGeneration(g, ending) ==
    /\ closed' = [closed EXCEPT ![g] = IF @ = "open" THEN ending ELSE @]
    /\ Disconnect(g)
    /\ UNCHANGED <<cancel, failure, delegated>>

CloseReports(g, failed) == closed'[g] = "failed" => failed

-----------------------------------------------------------------------------
(* consumeGeneration.                                                      *)

\* The loop loses deliveries, which counts while a drain is under way.
Lose(kinds) == losses' = losses \cup IF stopping THEN kinds ELSE {}

\* It lets go of deliveries it holds.
Dropped(some) == IF some THEN {"dropped"} ELSE {}
Drop(some) == Lose(Dropped(some))

\* consumeGeneration returns, and its locals are gone.
Leave(point) ==
    /\ loop' = point
    /\ read' = 0 /\ pending' = <<>>
    /\ draining' = FALSE /\ deliveriesClosed' = FALSE /\ pausedSnap' = FALSE

\* It returns with its backlog.
Return(point) == Leave(point) /\ Drop(pending # <<>>)

\* What no step of consumeGeneration changes.
LoopUnchanged ==
    UNCHANGED <<generation, stopping, recovering, terminal, resourceErr, paused,
                recoveryStopped, lifetimeStopped, attempt, worker, envelope, verdict,
                calls, drainVars, shutdownVars, crossed>>

\* Mutant: a drain waits for Resume.
AdmissionPausedAnyway(isDraining) == paused

\* consumerAdmissionPaused.
AdmissionPaused(isDraining) == paused /\ ~isDraining

\* admissionMu is taken, the flags are read, and unless a delivery can be
\* admitted the lock is released again.
LoopTop ==
    /\ loop = "top"
    /\ LET drainingNow == draining \/ ShutdownAdmissionClosed
           backlog == IF ShutdownAdmissionClosed THEN <<>> ELSE pending
       IN  /\ drainErr' = (drainErr \/ backlog # pending)
           /\ Drop(backlog # pending)
           /\ \/ /\ drainingNow /\ deliveriesClosed /\ backlog = <<>>
                 /\ Leave("ending")
              \/ /\ ~(drainingNow /\ deliveriesClosed /\ backlog = <<>>)
                 /\ pending' = backlog
                 /\ draining' = drainingNow
                 /\ pausedSnap' = AdmissionPaused(drainingNow)
                 /\ loop' = IF backlog # <<>> /\ ~pausedSnap' THEN "admitting" ELSE "select"
                 /\ UNCHANGED <<read, deliveriesClosed>>
    /\ UNCHANGED <<brokerVars, generationVars, admissionChanged, jobs>>
    /\ LoopUnchanged

\* Mutant: admissionMu is released before the delivery is sent to jobs.
AdmissionMuFree == FALSE

AdmissionMuHeld == loop = "admitting"

\* The nonblocking send to jobs, still under admissionMu.
Admit ==
    /\ loop = "admitting"
    /\ \/ /\ Len(jobs) < Prefetch
          /\ jobs' = Append(jobs, <<generation, Head(pending)>>)
          /\ pending' = Tail(pending)
          /\ loop' = "top"
       \/ /\ Len(jobs) = Prefetch
          /\ loop' = "select"
          /\ UNCHANGED <<jobs, pending>>
    /\ UNCHANGED <<brokerVars, generationVars, drainErr, admissionChanged, read, draining,
                   deliveriesClosed, pausedSnap, losses>>
    /\ LoopUnchanged

Selecting == loop = "select"

\* suspendConsumerDeliveries is false.
Receiving ==
    /\ Selecting
    /\ ~deliveriesClosed
    /\ pausedSnap \/ pending = <<>>
    /\ Len(pending) # Prefetch + 1

ReceiveDelivery ==
    /\ Receiving
    /\ read < Len(sent[generation])
    /\ read' = read + 1
    /\ \/ /\ ShutdownAdmissionClosed
          /\ drainErr' = TRUE
          /\ draining' = TRUE
          /\ Drop(TRUE)
          /\ loop' = "top"
          /\ UNCHANGED pending
       \/ /\ ~ShutdownAdmissionClosed
          /\ \/ /\ sent[generation][read'] \in Malformed
                /\ loop' = "rejecting"
                /\ UNCHANGED pending
             \/ /\ sent[generation][read'] \notin Malformed
                /\ pending' = Append(pending, read')
                /\ loop' = "top"
          /\ UNCHANGED <<drainErr, draining, losses>>
    /\ UNCHANGED <<brokerVars, generationVars, admissionChanged, deliveriesClosed,
                   pausedSnap, jobs>>
    /\ LoopUnchanged

\* The delivery stream ends: after a cancellation once it is empty, after a lost
\* connection at any point.  A waiting cancellation notice is only observed.
ReceiveClose ==
    /\ Receiving
    /\ ~alive[generation] \/ (cancelled[generation] /\ read = Len(sent[generation]))
    /\ notice' = [notice EXCEPT ![generation] = FALSE]
    /\ \/ /\ stopping
          /\ draining' = TRUE
          /\ deliveriesClosed' = TRUE
          /\ loop' = "top"
          /\ UNCHANGED <<read, pending, pausedSnap, losses>>
       \/ /\ ~stopping
          /\ Return("lost")
    /\ UNCHANGED <<queue, sent, unsettled, alive, cancelled, generationVars, drainErr,
                   admissionChanged, jobs>>
    /\ LoopUnchanged

\* The resume channel was closed, or admissionChanged holds a token.
Wake ==
    /\ Selecting
    /\ \/ pausedSnap /\ ~paused /\ UNCHANGED admissionChanged
       \/ admissionChanged /\ admissionChanged' = FALSE
    /\ loop' = "top"
    /\ UNCHANGED <<brokerVars, generationVars, drainErr, read, pending, draining,
                   deliveriesClosed, pausedSnap, jobs, losses>>
    /\ LoopUnchanged

ReceiveCancel ==
    /\ Selecting
    /\ notice[generation]
    /\ notice' = [notice EXCEPT ![generation] = FALSE]
    /\ \/ /\ stopping
          /\ draining' = TRUE
          /\ loop' = "top"
          /\ UNCHANGED <<read, pending, deliveriesClosed, pausedSnap, losses>>
       \/ /\ ~stopping
          /\ Return("lost")
    /\ UNCHANGED <<queue, sent, unsettled, alive, cancelled, generationVars, drainErr,
                   admissionChanged, jobs>>
    /\ LoopUnchanged

ReceiveFailure ==
    /\ Selecting
    /\ generation \in failure
    /\ failure' = failure \ {generation}
    /\ Return("lost")
    /\ UNCHANGED <<brokerVars, closed, cancel, delegated, drainErr, admissionChanged, jobs>>
    /\ LoopUnchanged

\* recoveryContext is done; the channel is not looked at again once draining.
ReceiveRecoveryDone ==
    /\ Selecting
    /\ recoveryStopped /\ ~draining
    /\ draining' = TRUE
    /\ loop' = "top"
    /\ UNCHANGED <<brokerVars, generationVars, drainErr, admissionChanged, read, pending,
                   deliveriesClosed, pausedSnap, jobs, losses>>
    /\ LoopUnchanged

ReceiveLifetimeDone ==
    /\ Selecting
    /\ lifetimeStopped
    /\ Return("ending")
    /\ UNCHANGED <<brokerVars, generationVars, drainErr, admissionChanged, jobs>>
    /\ LoopUnchanged

(* settle for a malformed delivery, on the loop itself.                    *)

RejectSent ==
    /\ loop = "rejecting"
    /\ alive[generation]
    /\ ApplySettlement(<<generation, read>>, "final")
    /\ loop' = "rejected"
    /\ UNCHANGED <<generationVars, drainErr, admissionChanged, read, pending, draining,
                   deliveriesClosed, pausedSnap, jobs, losses>>
    /\ LoopUnchanged

RejectReturns ==
    /\ loop = "rejected"
    /\ loop' = "top"
    /\ UNCHANGED <<brokerVars, generationVars, drainErr, admissionChanged, read, pending,
                   draining, deliveriesClosed, pausedSnap, jobs, losses>>
    /\ LoopUnchanged

\* The client reports an error, as it does for a connection that fails, or the
\* timeout closes the generation; either way the generation is given up.
RejectFails ==
    /\ loop \in {"rejecting", "rejected"}
    /\ Leave("lost")
    /\ Lose({"unrejected"} \cup Dropped(pending # <<>>))
    /\ \/ /\ loop = "rejecting"
          /\ Disconnect(generation)
          /\ UNCHANGED generationVars
       \/ \E ending \in {"clean", "failed"} : CloseGeneration(generation, ending)
    /\ UNCHANGED <<drainErr, admissionChanged, jobs>>
    /\ LoopUnchanged

-----------------------------------------------------------------------------
(* run: recovery and the end of the loop.                                  *)

RunUnchanged ==
    UNCHANGED <<stopping, drainErr, paused, admissionChanged, read, pending, draining,
                deliveriesClosed, pausedSnap,
                workerVars, calls, drainVars, shutdownVars, historyVars>>

\* Mutant: a failure on any generation counts.
RecoveryAllowedForAny(current) == ~stopping /\ ~terminal

\* consumerRecoveryAllowed, of a consumer that may be recovering already.
RecoveryAllowed(current) == current /\ ~stopping /\ ~terminal

BeginRecovery ==
    /\ loop = "lost"
    /\ recovering' = (recovering \/ RecoveryAllowed(TRUE))
    /\ loop' = "closing"
    /\ UNCHANGED <<brokerVars, generationVars, generation, terminal, resourceErr,
                   recoveryStopped, lifetimeStopped, attempt>>
    /\ RunUnchanged

\* A generation that cannot be closed is terminal.
CloseLost ==
    /\ loop = "closing"
    /\ \E ending \in {"clean", "failed"}, failed \in BOOLEAN :
           /\ CloseGeneration(generation, ending)
           /\ CloseReports(generation, failed)
           /\ resourceErr' = (resourceErr \/ failed)
           /\ terminal' = (terminal \/ failed)
           /\ loop' = IF failed THEN "ending" ELSE "recovering"
    /\ UNCHANGED <<generation, recovering, recoveryStopped, lifetimeStopped, attempt>>
    /\ RunUnchanged

AttemptsLeft == attempt < MaxAttempts

\* recoverRuntime returns false: stopped, or out of attempts.
GiveUpRecovery ==
    /\ loop = "recovering"
    /\ recoveryStopped \/ ~AttemptsLeft
    /\ terminal' = (terminal \/ ~stopping)
    /\ attempt' = 0
    /\ loop' = "ending"
    /\ UNCHANGED <<brokerVars, generationVars, generation, recovering, resourceErr,
                   recoveryStopped, lifetimeStopped>>
    /\ RunUnchanged

\* Credentials, dial or setupConsumerGeneration fail.
AttemptFails ==
    /\ loop = "recovering"
    /\ ~recoveryStopped /\ AttemptsLeft
    /\ attempt' = attempt + 1
    /\ UNCHANGED <<brokerVars, generationVars, generation, recovering, terminal,
                   resourceErr, recoveryStopped, lifetimeStopped, loop>>
    /\ RunUnchanged

\* The new connection consumes already, but the consumer does not own it yet.
AttemptSucceeds ==
    /\ loop = "recovering"
    /\ ~recoveryStopped /\ AttemptsLeft
    /\ generation < MaxGenerations
    /\ alive' = [alive EXCEPT ![generation + 1] = TRUE]
    /\ attempt' = 0
    /\ loop' = "installing"
    /\ UNCHANGED <<queue, sent, unsettled, cancelled, notice, generationVars,
                   generation, recovering, terminal, resourceErr, recoveryStopped,
                   lifetimeStopped>>
    /\ RunUnchanged

\* Mutant: a consumer that is stopping installs the new generation.
DiscardNever == FALSE

DiscardInstalled == stopping

\* Under stateMu: discard the generation if the consumer is stopping, or own it,
\* finish recovery and consume from it.
Install ==
    /\ loop = "installing"
    /\ \/ /\ DiscardInstalled
          /\ \E ending \in {"clean", "failed"} : CloseGeneration(generation + 1, ending)
          /\ loop' = "ending"
          /\ UNCHANGED <<generation, recovering>>
       \/ /\ ~DiscardInstalled
          /\ generation' = generation + 1
          /\ recovering' = FALSE
          /\ loop' = "top"
          /\ UNCHANGED <<brokerVars, generationVars>>
    /\ UNCHANGED <<terminal, resourceErr, recoveryStopped, lifetimeStopped, attempt>>
    /\ RunUnchanged

\* finishRun up to close(jobs).
EndRun ==
    /\ loop = "ending"
    /\ recoveryStopped' = TRUE
    /\ lifetimeStopped' = (lifetimeStopped \/ terminal)
    /\ \/ /\ terminal
          /\ \E ending \in {"clean", "failed"} : CloseGeneration(generation, ending)
       \/ /\ ~terminal
          /\ UNCHANGED <<brokerVars, generationVars>>
    /\ loop' = "waiting"
    /\ UNCHANGED <<generation, recovering, terminal, resourceErr, attempt>>
    /\ RunUnchanged

\* Mutant: delegated deliveries are forgotten at the end.
MustCloseForErrors == drainErr \/ resourceErr

MustClose == drainErr \/ resourceErr \/ delegated[generation]

\* workers.Wait, and the end of finishRun.
FinishRun ==
    /\ loop = "waiting"
    /\ jobs = <<>> /\ \A w \in Workers : worker[w] = "idle"
    /\ \/ /\ MustClose
          /\ \E ending \in {"clean", "failed"}, failed \in BOOLEAN :
                 /\ CloseGeneration(generation, ending)
                 /\ CloseReports(generation, failed)
                 /\ resourceErr' = (resourceErr \/ failed)
       \/ /\ ~MustClose
          /\ UNCHANGED <<brokerVars, generationVars, resourceErr>>
    /\ recovering' = FALSE
    /\ loop' = "done"
    /\ UNCHANGED <<generation, terminal, recoveryStopped, lifetimeStopped, attempt>>
    /\ RunUnchanged

-----------------------------------------------------------------------------
(* The workers: handle, settle, failGeneration.                            *)

WorkerUnchanged ==
    UNCHANGED <<generation, stopping, terminal, resourceErr, paused, recoveryStopped,
                lifetimeStopped, loopVars, calls, drainVars, shutdownVars>>

\* Mutant: a worker that is done does not wake the loop.
WorkerDoneSilently(w) ==
    /\ worker' = [worker EXCEPT ![w] = "idle"]
    /\ envelope' = [envelope EXCEPT ![w] = NoEnvelope]
    /\ verdict' = [verdict EXCEPT ![w] = "none"]
    /\ UNCHANGED admissionChanged

\* handle returns, and signalAdmissionChanged.
WorkerDone(w) ==
    /\ worker' = [worker EXCEPT ![w] = "idle"]
    /\ envelope' = [envelope EXCEPT ![w] = NoEnvelope]
    /\ verdict' = [verdict EXCEPT ![w] = "none"]
    /\ admissionChanged' = TRUE

Take(w) ==
    /\ worker[w] = "idle"
    /\ jobs # <<>>
    /\ envelope' = [envelope EXCEPT ![w] = Head(jobs)]
    /\ jobs' = Tail(jobs)
    /\ worker' = [worker EXCEPT ![w] = "handling"]
    /\ UNCHANGED <<brokerVars, generationVars, recovering, drainErr, admissionChanged,
                   verdict, historyVars>>
    /\ WorkerUnchanged

\* The handler returns, or its failure selects ConsumerConfig.Failure, and
\* boundedSettlement may have cleared Requeue.
HandlerReturns(w, v) ==
    /\ worker[w] = "handling"
    /\ \/ /\ v = "delegate"
          /\ delegated' = [delegated EXCEPT ![envelope[w][1]] = TRUE]
          /\ WorkerDone(w)
       \/ /\ v # "delegate"
          /\ worker' = [worker EXCEPT ![w] = "settling"]
          /\ verdict' = [verdict EXCEPT ![w] = v]
          /\ UNCHANGED <<delegated, envelope, admissionChanged>>
    /\ UNCHANGED <<brokerVars, closed, cancel, failure, recovering, drainErr, jobs, historyVars>>
    /\ WorkerUnchanged

\* Mutant: the settlement goes to the consumer's current channel.
SettlementChannelCurrent(w) == generation

\* The channel handle settles on: that of the envelope's own generation.
SettlementChannel(w) == envelope[w][1]

SettleSent(w) ==
    /\ worker[w] = "settling"
    /\ alive[SettlementChannel(w)]
    /\ LET settled == <<SettlementChannel(w), envelope[w][2]>>
       IN  /\ ApplySettlement(settled, verdict[w])
           /\ crossed' = crossed \cup ({MessageOf(settled)} \ {MessageOf(envelope[w])})
    /\ worker' = [worker EXCEPT ![w] = "sent"]
    /\ UNCHANGED <<generationVars, recovering, drainErr, admissionChanged, jobs, envelope,
                   verdict, losses>>
    /\ WorkerUnchanged

SettleReturns(w) ==
    /\ worker[w] = "sent"
    /\ WorkerDone(w)
    /\ UNCHANGED <<brokerVars, generationVars, recovering, drainErr, jobs, historyVars>>
    /\ WorkerUnchanged

OnCurrent(w) == envelope[w][1] = generation

\* As in RejectFails; failGeneration follows.
SettleFails(w) ==
    /\ worker[w] \in {"settling", "sent"}
    /\ \/ /\ worker[w] = "settling"
          /\ Disconnect(SettlementChannel(w))
          /\ UNCHANGED generationVars
       \/ \E ending \in {"clean", "failed"} : CloseGeneration(SettlementChannel(w), ending)
    /\ worker' = [worker EXCEPT ![w] = "failing"]
    /\ losses' = losses \cup IF OnCurrent(w) /\ stopping THEN {"unsettled"} ELSE {}
    /\ UNCHANGED <<recovering, drainErr, admissionChanged, jobs, envelope, verdict, crossed>>
    /\ WorkerUnchanged

\* Mutant: a failed settlement does not make the drain fail.
ReportsToDrainNever(w) == FALSE

ReportsToDrain(w) == OnCurrent(w) /\ stopping

FailGeneration(w) ==
    /\ worker[w] = "failing"
    /\ drainErr' = (drainErr \/ ReportsToDrain(w))
    /\ recovering' = (recovering \/ RecoveryAllowed(OnCurrent(w)))
    /\ failure' = failure \cup {g \in {generation} : OnCurrent(w) /\ ~stopping}
    /\ WorkerDone(w)
    /\ UNCHANGED <<brokerVars, closed, cancel, delegated, jobs, historyVars>>
    /\ WorkerUnchanged

-----------------------------------------------------------------------------
(* Pause, Resume, Drain and Shutdown.                                      *)

CallUnchanged ==
    UNCHANGED <<generation, recovering, terminal, drainErr, loopVars, workerVars, calls,
                historyVars>>

\* Pause and Resume, of a consumer that is neither stopping, stopped nor terminal.
SetPaused(value) ==
    /\ "Pause" \in calls
    /\ ~AdmissionMuHeld
    /\ ~stopping /\ ~terminal /\ loop # "done"
    /\ paused # value
    /\ paused' = value
    /\ admissionChanged' = TRUE
    /\ UNCHANGED <<brokerVars, generationVars, stopping, resourceErr, recoveryStopped,
                   lifetimeStopped, drainVars, shutdownVars>>
    /\ CallUnchanged

\* Drain sets stopping and remembers the generation it found.
StartDrain(d) ==
    /\ drain[d] = "idle"
    /\ IF d = "shutdown" THEN shutdown = "draining" ELSE "Drain" \in calls
    /\ stopping' = TRUE
    /\ drained' = [drained EXCEPT ![d] = generation]
    /\ drain' = [drain EXCEPT ![d] = "cancelling"]
    /\ UNCHANGED <<brokerVars, generationVars, resourceErr, paused, signalVars, result,
                   shutdownVars>>
    /\ CallUnchanged

\* stopRecovery and cancelGeneration.  basic.cancel is issued once and its result
\* retained; a caller whose context ends before the result is known fails too, which
\* is DrainExpires if the result is a success.
CancelGeneration(d) ==
    /\ drain[d] = "cancelling"
    /\ recoveryStopped' = TRUE
    /\ LET g == drained[d]
       IN  \/ /\ closed[g] # "open"
              /\ drain' = [drain EXCEPT ![d] = "waiting"]
              /\ UNCHANGED <<cancel, cancelled>>
           \/ /\ closed[g] = "open"
              /\ \E outcome \in {"ok", "error"} :
                     /\ cancel[g] # "none" => outcome = cancel[g]
                     /\ cancel[g] = "none" /\ ~alive[g] => outcome = "error"
                     /\ cancel' = [cancel EXCEPT ![g] = outcome]
                     /\ cancelled' = [cancelled EXCEPT ![g] = @ \/ outcome = "ok"]
                     /\ drain' = [drain EXCEPT ![d] = IF outcome = "ok" THEN "waiting"
                                                                    ELSE "aborting"]
    /\ UNCHANGED <<queue, sent, unsettled, alive, notice, closed, failure, delegated,
                   stopping, resourceErr, paused, admissionChanged, lifetimeStopped, drained,
                   result, shutdownVars>>
    /\ CallUnchanged

\* Mutant: a drain has no deadline of its own.
DrainNeverExpires(d) == FALSE

\* stopLifetime, in a Drain that cannot wait for the loop.
StopLifetime(d) ==
    /\ lifetimeStopped' = TRUE
    /\ drain' = [drain EXCEPT ![d] = "failing"]
    /\ UNCHANGED <<brokerVars, generationVars, stopping, resourceErr, paused,
                   admissionChanged, recoveryStopped, drained, result, shutdownVars>>
    /\ CallUnchanged

\* cancelGeneration has returned an error.
AbortDrain(d) == drain[d] = "aborting" /\ StopLifetime(d)

\* drainContext ends: the caller's deadline or HandlerTimeout.
DrainExpires(d) == drain[d] = "waiting" /\ StopLifetime(d)

\* Close the generation for redelivery, return the error.
FailDrain(d) ==
    /\ drain[d] = "failing"
    /\ \E ending \in {"clean", "failed"} : CloseGeneration(drained[d], ending)
    /\ result' = [result EXCEPT ![d] = "error"]
    /\ drain' = [drain EXCEPT ![d] = "done"]
    /\ drained' = [drained EXCEPT ![d] = 0]
    /\ UNCHANGED <<stopping, resourceErr, paused, signalVars, shutdownVars>>
    /\ CallUnchanged

\* done is closed: consumerCompletedDrainResult, an error if the context has ended.
CompleteDrain(d) ==
    /\ drain[d] = "waiting"
    /\ loop = "done"
    /\ \E answer \in {"ok", "error"} :
           /\ drainErr \/ resourceErr => answer = "error"
           /\ result' = [result EXCEPT ![d] = answer]
    /\ drain' = [drain EXCEPT ![d] = "done"]
    /\ drained' = [drained EXCEPT ![d] = 0]
    /\ UNCHANGED <<brokerVars, generationVars, stopping, resourceErr, paused, signalVars,
                   shutdownVars>>
    /\ CallUnchanged

\* Shutdown, once: admission is closed under admissionMu ...
CloseAdmission ==
    /\ "Shutdown" \in calls
    /\ shutdown = "open"
    /\ ~AdmissionMuHeld
    /\ shutdown' = "admissionClosed"
    /\ admissionChanged' = TRUE
    /\ UNCHANGED <<brokerVars, generationVars, stopping, resourceErr, paused,
                   recoveryStopped, lifetimeStopped, drainVars, shutdownErr>>
    /\ CallUnchanged

\* ... then stopping is set, and finishShutdown runs its own Drain ...
StopIntake ==
    /\ shutdown = "admissionClosed"
    /\ shutdown' = "draining"
    /\ stopping' = TRUE
    /\ UNCHANGED <<brokerVars, generationVars, resourceErr, paused, signalVars, drainVars,
                   shutdownErr>>
    /\ CallUnchanged

\* ... and closes the generation whatever that Drain said.
FinishShutdown ==
    /\ shutdown = "draining"
    /\ drain["shutdown"] = "done"
    /\ \E ending \in {"clean", "failed"}, failed \in BOOLEAN :
           /\ CloseGeneration(generation, ending)
           /\ CloseReports(generation, failed)
           /\ resourceErr' = (resourceErr \/ failed)
    /\ shutdownErr' = (result["shutdown"] = "error" \/ resourceErr')
    /\ shutdown' = "done"
    /\ UNCHANGED <<stopping, paused, signalVars, drainVars>>
    /\ CallUnchanged

-----------------------------------------------------------------------------
(* health.go.                                                              *)

DependencyHealth ==
    IF terminal THEN "unavailable"
    ELSE IF stopping \/ loop = "done" THEN "unknown"
    ELSE IF recovering THEN "recovering" ELSE "available"

-----------------------------------------------------------------------------
Broker(g) == (\E m \in Messages : Deliver(g, m)) \/ ConnectionLost(g) \/ BrokerCancel(g)

Loop ==
    \/ LoopTop \/ Admit
    \/ ReceiveDelivery \/ ReceiveClose \/ Wake \/ ReceiveCancel \/ ReceiveFailure
    \/ ReceiveRecoveryDone \/ ReceiveLifetimeDone
    \/ RejectSent \/ RejectReturns \/ RejectFails
    \/ BeginRecovery \/ CloseLost \/ GiveUpRecovery \/ AttemptFails \/ AttemptSucceeds
    \/ Install \/ EndRun \/ FinishRun

Worker(w) ==
    \/ Take(w)
    \/ \E v \in Verdicts : HandlerReturns(w, v)
    \/ SettleSent(w) \/ SettleReturns(w) \/ SettleFails(w) \/ FailGeneration(w)

DrainSteps(d) ==
    CancelGeneration(d) \/ AbortDrain(d) \/ DrainExpires(d) \/ FailDrain(d) \/ CompleteDrain(d)

ShutdownSteps == StopIntake \/ StartDrain("shutdown") \/ FinishShutdown

Next ==
    \/ \E g \in Generations : Broker(g)
    \/ Loop
    \/ \E w \in Workers : Worker(w)
    \/ \E value \in BOOLEAN : SetPaused(value)
    \/ StartDrain("caller")
    \/ \E d \in Drains : DrainSteps(d)
    \/ CloseAdmission \/ ShutdownSteps

Spec == Init /\ [][Next]_vars

\* The calls of Drain and Shutdown keep moving.  The deadline of the Drain that
\* Shutdown makes passes; that of a caller's Drain can pass but need not.
StopFairness ==
    /\ WF_vars(ShutdownSteps)
    /\ WF_vars(DrainSteps("shutdown"))
    /\ WF_vars(\/ CancelGeneration("caller") \/ AbortDrain("caller") \/ FailDrain("caller")
               \/ CompleteDrain("caller"))

LoopFairness == WF_vars(Loop)

\* Handlers return, as their contract asks, and settlements have a deadline.
HandlerFairness == \A w \in Workers : WF_vars(Worker(w))

\* Neither the loop nor a handler owes anything.
StopSpec == Spec /\ StopFairness
FairSpec == StopSpec /\ LoopFairness /\ HandlerFairness

-----------------------------------------------------------------------------
(* Properties.                                                             *)

\* No message is settled by the handler of another one, however many generations
\* deliveries and late settlements are spread over: tags repeat on every channel
\* (handle, consumer.go:534, "could acknowledge unrelated work").
OwnMessageSettled == crossed = {}

\* Each settlement is for the message it was decided for, and comes once: no two
\* workers hold the same delivery, and what a handler works on or a settlement is
\* about to be sent for is a delivery the broker still waits for, unless its
\* connection is gone (consumeGeneration, handle, settle).
SettledOnce ==
    /\ OwnMessageSettled
    /\ \A v, w \in Workers : envelope[v] = envelope[w] => v = w \/ envelope[v] = NoEnvelope
    /\ \A w \in Workers : worker[w] \in {"handling", "settling"} /\ alive[envelope[w][1]]
                              => envelope[w] \in unsettled
    /\ loop = "rejecting" /\ alive[generation] => <<generation, read>> \in unsettled

\* A delivery is admitted to the workers only while the consumer is neither
\* paused, unless a drain overrides it, nor closed for admission
\* (Pause, Shutdown, consumeGeneration).
AdmissionRespected ==
    [][Len(jobs') > Len(jobs) => (~paused \/ draining) /\ ~ShutdownAdmissionClosed]_vars

\* No wake-up is lost: while the loop blocks with a delivery that only lacks room in
\* the job queue, a token is waiting for it, or there is work left whose end will
\* leave one, even if all of it belongs to generations long gone
\* (consumeGeneration, signalAdmissionChanged).
NoLostWakeup ==
    loop = "select" /\ pending # <<>> /\ ~pausedSnap =>
        admissionChanged \/ jobs # <<>> \/ \E w \in Workers : worker[w] # "idle"

\* When the loop and all workers are done, no delivery of any generation is stuck
\* unsettled on an open connection, where the broker would never redeliver it, except
\* while a Drain that failed is about to close that very generation
\* (finishRun, Drain, failGeneration).
NothingStranded ==
    loop = "done" =>
        \A e \in unsettled : \E d \in Drains : drain[d] = "failing" /\ drained[d] = e[1]

\* A Drain that waits for the loop, or has returned with or without an error, has
\* cancelled or closed the generation that the loop consumes, whatever recovery was
\* under way when it began: the broker sends the consumer nothing more
\* (Drain, cancelGeneration, recoverRuntime).
DrainStopsIntake ==
    \A d \in Drains : drain[d] \in {"waiting", "done"} =>
                         ~alive[generation] \/ cancelled[generation]

\* When Shutdown and the loop are both over, no connection is left open, not even
\* one that recovery was about to install (finishShutdown, recoverRuntime).
StoppedOwnsNothing ==
    shutdown = "done" /\ loop = "done" => \A g \in Generations : ~alive[g]

\* The reported health follows the supervisor.  A dependency is called available
\* only while the loop consumes or has just lost its generation, and it is called
\* recovering while the loop still consumes only if a failure signal is on its way:
\* a late failure on a replaced generation never leaves a consumer unready for good
\* (DependencyHealth, failGeneration, finishRecovery).
DependencyHonest ==
    /\ DependencyHealth = "available" => loop \in Consuming \cup {"lost"}
    /\ DependencyHealth = "recovering" /\ loop \in Consuming => generation \in failure

\* A drain that reports success has lost nothing: no delivery the package had received
\* was dropped, and no settlement failed, neither a handler's nor the loop's own reject
\* (docs/guarantees.md:107, "waits for their handlers and settlements", and 110, a
\* failed settlement "makes the drain unavailable").  The code does not keep this.
DrainSettlesReceived ==
    \A d \in Drains : result[d] = "ok" => losses = {}

\* What it does keep: the settlement of a handled delivery of the current generation
\* that fails once stopping is set makes the drain fail, although the worker reports it
\* in a later step and the loop may be ending (failGeneration, finishRun).
HandlerSettlementReported ==
    \A d \in Drains : result[d] = "ok" => "unsettled" \notin losses

\* Shutdown completes even if no handler ever returns and the delivery loop is
\* stuck: its own Drain has a deadline (finishShutdown, Drain).
ShutdownCompletes == ShutdownAdmissionClosed ~> shutdown = "done"

\* Once the consumer is told to stop, the loop and the workers finish if handlers
\* return, from any point of a generation or a recovery, paused or not, and without
\* the help of a deadline (Drain, consumeGeneration, finishRun).
DrainReachesDone ==
    LoopFairness /\ HandlerFairness => (stopping ~> loop = "done")

\* A received delivery does not wait for ever in the local backlog
\* (consumeGeneration, Resume).
BacklogServed == pending # <<>> ~> (pending = <<>> \/ paused)
=============================================================================
