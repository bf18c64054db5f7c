# Verification of go-rabbitmq-queues

TLA+ models of the package's runtime, checked with TLC on small instances, and
theorems about each of them that TLAPS checks for every instance.
`PROJECT.json` holds the machine-readable side: components, runs, mutants, the
map from definitions to source lines, findings, hazards and theorems.

## The system

The package publishes to and consumes from RabbitMQ over one owned connection
per resource. The parts that carry state, and how they interact:

| Part | Source | State and what changes it |
| --- | --- | --- |
| Publish correlation | `publish_tracker.go` | Two maps under one mutex, from sequence number and from return token to a pending attempt. Callers register and abandon; the event loop returns, confirms and fails all. |
| Producer | `producer.go` | Admission counter and lifecycle flags (`stateMu`); `publishMu`, held from the snapshot of a generation until the send is over; one send goroutine per publication; one event loop; one shutdown goroutine. |
| Producer recovery | `producer_open.go` | The event loop replaces a failed generation (connection, channel, tracker, signals) under both locks, within `MaxAttempts`. |
| Consumer | `consumer.go` | One delivery loop with a local backlog; a job channel of `Prefetch`; `Concurrency` workers that run handlers and settle; `Pause`, `Resume`, `Drain` and `Shutdown` from any goroutine. |
| Consumer recovery | `consumer_open.go` | The loop replaces a failed generation; old deliveries keep their own generation. |
| Observations | `observation.go` | A bounded lossy channel with a loss counter, shared by everything above and closed at the end of a lifecycle. |
| Settlement | `settlement.go`, `delivery_settlement.go` | A policy that chooses between a final settlement, a requeue by reject and one by NACK from the counters of the delivery; one write-once result per delivery, for which delegated goroutines wait. |
| Opening | `producer_open.go`, `consumer_open.go`, `channel_open.go` | Retry loops with backoff and endpoint rotation; one deadline per attempt, and a callback of that deadline that closes the connection being opened. |
| Topology | `topology_apply.go` | One more opening loop; each broker operation runs in a goroutine that may outlive the deadline it is raced with. |
| Health | `health.go` | Views over the state above. |
| Stateless parts | `topology.go`, `delivery.go`, `message.go`, `config.go`, `amqp_client.go` | Validation, decoding, configuration. |

What is hard to test here is concurrent: a confirm or a return that arrives
after its caller gave up, a send that outlives its timeout, a generation that
is replaced under a call or a handler, a deadline that fires while a channel is
being opened, and `Shutdown` or `Drain` starting in the middle of any of these. `hazards` in `PROJECT.json` lists each at the line
where it bites, with the properties that cover it.

## Modules

| Module | Models | Level |
| --- | --- | --- |
| `PublishOutcomes` | what publish correlation promises | abstract specification |
| `PublishTracker` | `publish_tracker.go` | every method one step, callers unconstrained |
| `PublishTrackerProofs` | theorems about `PublishTracker` | TLAPS |
| `Producer` | `producer.go`, recovery of `producer_open.go` | every lock region, send, select branch one step |
| `Consumer` | `consumer.go`, recovery of `consumer_open.go` | as above |
| `ObservationStream` | `observation.go` | lock, counter and channel operations |
| `ProducerSignals` | event loop and `finishShutdown` of the producer as users of its event stream, `BlockedNotifications` and health | composes `ObservationStream` with the goroutines that share it |
| `TopologyOutcome` | what an opening with topology promises | abstract specification |
| `Opening` | the loops of `openProducerWith`, `openConsumerWith`, `applyTopologyWith` and `recoverRuntime`, `boundedAMQPChannel`, the setup of a channel | every wait, call and deadline one step |
| `Settlement` | one message through deliveries, handlers, settlement policy and `AwaitSettlement` | one step per read of a counter, settlement and result |
| `ProducerProofs`, `ProducerResultsProofs` | theorems about `Producer` | TLAPS |
| `ConsumerProofs`, `ConsumerDeliveriesProofs` | theorems about `Consumer` | TLAPS |
| `ProducerSignalsProofs` | theorems about `ObservationStream` and `ProducerSignals` | TLAPS |
| `OpeningProofs`, `SettlementProofs` | theorems about the module named | TLAPS |
| `MC*` | instances for TLC | |

`PublishTracker` and `Producer` are both shown to implement `PublishOutcomes`, and
`Opening` to implement `TopologyOutcome` (`INSTANCE ... WITH`, the abstract
specification as a property).

### PublishTracker

`sequence` and `token` are the two maps, `key` the immutable keys of an attempt,
`outcome` what was sent on its channel. `Register`, `Returned`, `Confirm`,
`Abandon` and `FailAll` are the five methods; `Complete` is `complete`. A call
that the code refuses changes nothing and is no step.

### Producer

A call of `Publish` or `PublishAsync` walks through `pc` in program order:
`Admit` or `Refuse`, `Lock` or `GiveUpLock`, `CheckAvailable` (with the snapshot
of the generation), `Reserve` (the sequence number is only read),
`Register`, `Commit` (the last look at `shutdownClosing`), then `SendReturned` or
`TransmissionTimeout`, then one of the endings, then `Release`. The goroutine
that calls the client is `send`, which survives its caller. The event loop is
`events`; its branches are the `Receive*` and `Notice*` actions, and recovery
follows in `BeginRecovery` to `FinishRecovery`. `finishShutdown` is `shutdown`.
`closed`, `shutdownClosing`, `stopped` and the end of `eventsContext` are read
off how far it has come.

The trackers of all generations are one set `tracked`; `gen[p]` and `seq[p]` are
both the map key and the token, because a token is session and sequence number.
`crossed` is a history variable: attempts that something belonging to another
publication completed or marked.

External: the client library and the broker. A send may go out and still report
an error; a refused send has not gone out; a return precedes the confirm of its
message; notifications wait in buffers of `MaxOutstanding`; a connection may die
at any time, after which its buffered notifications can still be read.

### Consumer

`loop` is where `run`, `consumeGeneration`, `recoverRuntime` and `finishRun` are.
`LoopTop` is the start of an iteration under `admissionMu`, `Admit` the
nonblocking send to `jobs`, and the `Receive*` and `Wake` actions are the branches
of the select, any enabled one of which may be taken. Workers take envelopes
`<<generation, tag>>`, run the handler, settle in two steps (the broker acts,
then the call returns) or fail, and call `failGeneration`. `drain["caller"]` is an
application's `Drain` and `drain["shutdown"]` the one `finishShutdown` makes. A `Drain`
cancels (`CancelGeneration`), waits for the loop (`CompleteDrain`), or stops the loop
(`AbortDrain` after a failed cancel, `DrainExpires` at its deadline) and then closes the
generation in a step of its own (`FailDrain`): in between the loop can end with deliveries
that are still unsettled on an open connection.

Settlements are `final`, `requeue` or `delegate`, which is what the broker tells
apart. Decoding is a set `Malformed`. `crossed` and `losses` are history
variables; `losses` says how deliveries of the current generation were lost while the
consumer was stopping: `dropped` by the loop, or settled without success, by a worker
(`unsettled`) or by the loop's reject of a malformed one (`unrejected`).
`FailGeneration` marks the failure and signals it in one step. External: the broker
delivers within the prefetch window, takes back
what is unsettled when a connection ends, and may cancel the consumer. A client
error during settlement comes with the loss of the connection, and closing a
generation ends its connection even when the close reports a failure.

### ObservationStream

`Emit`, `Send` and `AddLoss` are the three points at which concurrent emitters
interleave (`Swap(0)`, the nonblocking send, `Add`). `RequestClose` to `SendFinal`
are `close`; a waiting writer holds back new readers of the lock.

### ProducerSignals

Extends `ObservationStream` by the goroutines that use a producer's stream: the
event loop (`loop`, and `setting` inside `setBlocked`), a publication in
`failGeneration` (`publisher`), and `startShutdown` with `finishShutdown`
(`shutdown`). `producer` holds the flags that the health views read besides
`blocked`; `Liveness`, `Ready` and `DependencyHealth` are `health.go`'s views of a
producer. The one-element channel of `setBlocked` is `buffer`, and `delivered` the
last state a reader took. `unheard` is a history variable: an observation of the loop or of
shutdown that met a closed stream. Recovery has one attempt here and a
publication is only what it observes and signals; the rest of both is in `Opening`
and `Producer`.

### Opening

`kind` says what is opened: a producer, a consumer of a named or of a transient
queue, a passive or an active topology. The points of the loop are `attempt` to
`waiting`, those of `boundedAMQPChannel` `opening` to `checking`, those of the setup
`setup` to `finishing`; `owned` is a resource in use, which `Lose` turns into a
recovery. `ctx` is the context of the loop and `deadline` that of one attempt.
`callback` is the `AfterFunc` that closes the connection, from its registration
until `stop()` or the join. A setup is a number of broker operations, each in a
goroutine of its own; `underway` is a declaration that the broker may still execute,
even after its caller gave up. `tries` is a history variable.

External: an endpoint accepts a connection or not; the broker answers an operation
with success, a retryable or a definitive error, or never. A failed dial leaves
nothing behind, and closing a connection releases the calls pending on it.

### Settlement

One message, so that what its deliveries share is visible: `message`, `returns`,
`failures` and `requeues` are the broker's side, `seen[d]` the counters delivery `d`
carried, `handle[d]` where `handle` is, `call[d]` the goroutine `settle` starts and
`result[d]` the write-once result. `queue` is chosen at the start: classic, or quorum
with or without each of the two counters, so every delivery of a run carries the same
ones; the code decides by what each delivery carries, and the bound is the same. A handler's error, an expired context or
an invalid settlement stands for the configured `Failure`. The waiters are callers
of `AwaitSettlement`, whose three looks at result and context are three steps.

External: a reject with requeue counts as a failed delivery, a NACK does not, and a
lost connection may or may not; a call on the channel of a replaced connection
fails.

## Runs

Every run is `tlc -config <cfg> <module>`. Bounds were chosen as the smallest at
which the case in question happens, which the mutants confirm: each property has
a mutant of a mapped definition that breaks it under the same bounds.

| Run | Instance | Shows |
| --- | --- | --- |
| `tracker` | 3 attempts, 2 numbers, 2 tokens, maximum 2 | `IInv` (`TypeOK`, `IndexesAgree`, `OneOutcome`), `ImplementsOutcomes` |
| `producer_recovery` | 2 mandatory calls, window 2, 2 generations | `NoWaitInVain`, `UncrossedResultsTrue`, `NoStaleGeneration`, `RejectsWhileRecovering`, `ImplementsOutcomes` |
| `producer_lifecycle` | 1 mandatory call, 2 generations, shutdown, fair | `GracefulDrain`, `StoppedOwnsNothing`, `CleanupResultRetained`, `CallsReturn`, `ShutdownCompletes`, `RecoveryDecides` |
| `producer_signals` | capacity 2, one blocked notice, one lost connection, one publication, shutdown, fair | `LossesAccounted`, `CloseHasRoom`, `BlockedFaithful` (`NewestBlockedKept`, `BlockedEnds`), `LifecycleHeard`, `OutageReported`, `LivenessFinal`, `StreamsClose` |
| `consumer_backlog` | 3 generations, 1 worker, prefetch 1, pause, fair | `NoLostWakeup`, `BacklogServed` |
| `consumer_recovery` | 2 messages, one malformed, 2 generations, a drain or a shutdown | `SettledOnce` (with `OwnMessageSettled`), `StoppedOwnsNothing`, `NothingStranded`, `DependencyHonest`, `DrainStopsIntake`, `HandlerSettlementReported` |
| `consumer_overlap` | 1 message, pause with drain or drain with shutdown, fair drain and shutdown | `AdmissionRespected`, `ShutdownCompletes`, `DrainReachesDone` |
| `opening` | all five kinds, 2 declarations, 3 endpoints, 3 attempts, delays 2, 4, 5, 2 losses, fair | `NoConnectionLeft`, `HandOverSafe` (`CallbackJoined`, `HandedOverOpen`), `RotationContinues`, `ImplementsTopologyOutcome`, `OpeningEnds` |
| `settlement` | 4 deliveries, 2 workers, 1 requeue, 1 loss, 1 waiter, fair | `RequeuesBounded`, `AnswersTrue` (`NilMeansSent`, `ResultPreferred`, `ResultShared`), `MessageLeaves`, `WaitersAnswered` |

`MaxGenerations`, `MaxDeliveries`, `MaxLosses`, `MaxNotices`, `MaxPublishes` and
`MaxEmits` cut behaviours off; the other constants are the program's own or say how
many callers, messages and workers there are. What the instances leave to the proofs
or leave out:

* The type invariants, apart from the one in the tracker's `IInv`, are proved and not
  part of a run.
* So is `WindowBound`. It says something only of more callers than the window has room
  for, which no passing run has: recovery is explored with two callers and already two
  million states, and a third caller makes as many on a single generation.
  `WindowBounded` is its proof for any number of callers.
* Every consumer run has one worker, and the passing ones have a prefetch of one and
  one delivery per generation, so that two workers never hold the same delivery is shown
  by `EachSettledOnce` alone. Three generations are needed for a full job queue with
  `Prefetch` 1, two for colliding tags, stale snapshots and a handover.
* The producer's liveness and shutdown properties are checked with a single call, so
  contention for `publishMu` during a shutdown is explored only by
  `producer_broker_results`.
* Pause is combined with Drain, and Drain with Shutdown, but no run combines Pause with
  Shutdown.
* Two losses in `opening` make the rotation wrap around three endpoints over startup
  and two recoveries. Three attempts reach the cap of the delay.
* Four deliveries in `settlement` are the most that one loss and the two requeues of
  a queue that only counts failures allow, so the bound cuts nothing off there.

`CHECK_DEADLOCK FALSE` is used throughout because a resource that was shut down,
or whose application stops calling it, has nothing left to do. Symmetry over
publications is used where all or none of them are mandatory, over messages and
workers where no message is malformed, and never in a liveness run.

### Disagreements between code and documentation

Three runs end in a counterexample to what the repository says of itself.

* `producer_broker_results`: while `Shutdown` drains, a publication whose
  transmission timed out releases `publishMu` and cannot mark the producer
  unavailable any more. The next publication reads the same sequence number. The
  late send takes it, and its confirm completes the wrong attempt.
* `producer_not_sent`: a preflight cancellation abandons its sequence number after
  `publishMu` was released. After a generation failure in between, the number
  may belong to a call that does transmit and is told "not sent".
* `consumer_drain_loss`: a failure signal sent just before `Drain` makes the loop
  drop its paused backlog, and `Drain` still reports success. A second way into the
  same disagreement is the loop's own reject of a malformed delivery: when it fails
  while the consumer is stopping, `consumeGeneration` returns without a drain error
  (`consumer.go:443`), recovery is refused, and `Drain` returns nil, although
  `docs/guarantees.md:110` says that a failed settlement makes the drain unavailable.
  `DrainSettlesReceived` covers both (`losses` is `dropped` or `unrejected`). The run
  has no malformed message and shows the first; with `Malformed = {m1}` the same
  instance ends in the second, after twelve steps.

`HandlerSettlementReported` is the part of that promise which holds: a settlement that
a worker attempts on the current generation and that fails once `stopping` is set makes
every `Drain` fail. A settlement that failed before `stopping` was set is not a drain
error in the code, only a signal to recover.

`UncrossedResultsTrue` states that results are true for every publication that is
not a victim of the first two, so nothing else in those handlers goes wrong.

### Fairness

Producer: weak fairness on each admitted call, on the event loop and on the
shutdown goroutine. Each of their waits is a select with a timer or a context
that `PublishTimeout`, `DialTimeout` or the shutdown timer ends. The one wait
without a deadline is recovery's `publishMu.Lock` (`producer_open.go:223`); calls
let go of the lock within their own timeout, so `ShutdownCompletes` rests on the
fairness of calls. Nothing is assumed of the broker, the connection, the send goroutine or new callers.

Consumer: `StopSpec` is weak fairness of the shutdown goroutine, of the drain it
makes, deadline included, and of the steps of an application's `Drain` without its
deadline, which the application may never set. `FairSpec` adds that the loop keeps
running and that handlers return, as `DeliveryHandler` asks of them.
`ShutdownCompletes` is checked under `StopSpec`: neither loop nor handlers owe
anything. `DrainReachesDone` has the fairness of loop and handlers as its premise.

ProducerSignals: the event loop, the shutdown goroutine and calls of `emit` and `close`
keep running, and `failGeneration` does not stop in the middle. Readers, the broker
and publications owe nothing.

Opening: the loop, the attempt's deadline and its callback. Credentials and dialling are
steps of the loop: the credential provider is handed the attempt's context and
the dialled socket its deadline. The broker need never answer.

Settlement: handlers return, the package's goroutines run, and the broker delivers and
settles while a connection lasts. Timeouts, contexts and losses owe nothing.

## Proofs

`PublishTrackerProofs`, for any sets of attempts, finite set of numbers, any tokens
and any maximum (`TrackerAssumption`):

* `Invariance`: `Spec => []IInv`, and from it `TypeCorrect`, `IndexAgreement` and
  `AtMostOneOutcome`: `[]TypeOK`, `[]IndexesAgree`, `[]OneOutcome`. `TypeOK` is
  inductive by itself, the other two are not. `IInv` conjoins all three with "an outcome implies a registration" and
  "a return implies a registration". Index agreement needs the first of these: a
  newly registered attempt must not have an outcome already, or the maps would
  hold an attempt that is not pending. One outcome needs index agreement, which
  says that only pending attempts can be found and completed. The refinement
  needs the second: registering an attempt must not mark it as returned.
* `TrackerImplementsOutcomes`: `Spec => Abstract!Spec`, step by step from `IInv`.
  The window bound is carried by the injection from pending attempts to the
  sequence numbers in use.

`ProducerSignalsProofs`, first for the stream alone, with any finite set of emitters and
any capacity of at least one (`StreamAssumption`):

* `StreamTypeCorrect` and `CloseNeverBlocks` (`Spec => []CloseHasRoom`). The
  strengthening is that no emitter is under way once close holds the lock, so the
  slot that close freed is still free when it sends.
* `EveryLossAccounted` (`[]LossesAccounted`). The account is a sum over the events in the
  channel and one over the emitters under way, so the proof rests on lemmas about
  `SumFunction`: a sum over a finite set does not depend on the order, grows by the value
  of an element that is added, and changes by the difference when one value changes. They
  go by induction over the finite subsets of an index set. `Account` adds that close has
  taken no losses before it holds the lock, and that what it displaces is never the
  terminal event.

and then for the producer that uses it, with any bounds:

* `ProducerUsesStream`: `SignalsSpec => Spec`, that is, every step of the producer's
  goroutines is a step of the stream or leaves it alone. `ProducerCloseNeverBlocks`
  and `ProducerLossesAccounted` follow from it and the theorems about the stream.
* `SignalsTypeCorrect` (`[]SignalsTypeOK`), in two halves, program counters and flags, on
  top of the stream's types.
* `BlockedStateFaithful` (`[]BlockedFaithful`), with `Notifying`: the channel is empty when
  `setBlocked` sends for the second time, because the loop is the only one that fills it.
* `LifecycleObserved` (`[]LifecycleHeard`), with `Hearing`: the stream closes only after the
  loop is done, and a closed producer no longer observes the failure of a generation.
* `OutageSeen` (`[]OutageReported`), with `Outage`: from the mark of a failure to the
  replacement of the generation the producer is unavailable, terminal or closed, also
  while the publication that failed is still on its way to signal the loop.
* `LivenessDecided` (`SignalsSpec => LivenessFinal`, an action property), with `Ended`: a
  producer stops only after its loop has ended.

`ProducerProofs`, for any finite set of callers, any window, attempts and
generations:

* `WindowBounded` (`Spec => []WindowBound`). The invariant `Window` ties the counter
  `active` to the number of calls between admission and release, and a tracked attempt
  to a call between registration and outcome. The trackers then fit because each holds
  a subset of the other active calls.
* `GenerationHeld` (`[]NoStaleGeneration`). The invariant `Locking` says that the
  holder of `publishMu` is the only call in the critical section, and that what it
  snapshotted is the current generation; recovery replaces it only with the lock.
* `RecoveryRefuses` (`[]RejectsWhileRecovering`), with `Refusing`: a recovering producer
  is unavailable or closed.

`ProducerResultsProofs` continues from there, under the same assumptions:

* `TypeCorrect` (`[]TypeOK`). `TypeOK` is not inductive: `Types` adds that the generation
  of a pending send exists, that there is room for the generation being installed, and
  that a confirm is in hand while one is applied, and needs `Locking`, since a call must
  not read the sequence number of a generation that was replaced under it.
* `NoneWaitsInVain` (`[]NoWaitInVain`). `Awaiting` says that every registered call is
  tracked exactly as long as nothing was sent on its channel. It is the safety half of
  `CallsReturn`: `completePublishError` waits without a context, and what it waits for is
  there or will come with a confirm or with `failAll`.
* `DrainGraceful` (`[]GracefulDrain`), with `Draining`: once drained, a producer is closed
  and its window empty, and a closed producer admits nobody.
* `NothingOwned` (`[]StoppedOwnsNothing`) and `CleanupReported`
  (`[]CleanupResultRetained`). `Owning` says that only the current generation and one about
  to be installed have a connection, and that after `closeCurrentGeneration` the current
  one has none and Shutdown knows how its first close ended.
* `ProducerImplementsOutcomes` (`Spec => ImplementsOutcomes`), step by step from `Types`,
  `Window` and `Distinct`: two tracked attempts of a generation never share a sequence
  number, so a confirm completes one attempt at most.
* `ResultsTrue` (`[]UncrossedResultsTrue`). `Sending` says that a message has not left
  before its call commits, nor while its send is pending or after the client refused
  it. `Notifying` says that the buffers hold what the broker said, and that a tracked
  attempt whose message was returned is marked or its return still waits, which it does
  not while a confirm is applied to that attempt: this is what `drainReturns` is for.
  `Truthful` carries outcome and result of every attempt that was not crossed.

`ConsumerProofs`, for any messages, workers, prefetch and scenario of calls:

* `AdmissionHeld` (`Spec => AdmissionRespected`, an action property). `Admission` says
  that what the loop saw when it took `admissionMu` still holds when it sends the job.
* `HealthHonest` (`[]DependencyHonest`). `Recovering` says that the recovery flag is set
  from the loss of a generation to the installation of the next, and that a loop
  which still consumes has the signal of that loss waiting; `Ending` that every
  reason for which the loop ends for good leaves a trace in the flags.
* `SettlementFailuresReported` (`[]HandlerSettlementReported`). `Reporting` says that a
  worker's settlement that failed while the consumer was stopping is a drain error or
  its worker is about to make it one, and that no worker is busy once the loop is done.
* `TypeCorrect` (`[]TypeOK`) and `OwnSettled` (`[]OwnMessageSettled`), with `Types`: what
  is pending was read, what was read was sent, and a job or a worker holds an envelope
  of a message that was delivered under that tag of that generation.
* `NothingOwned` (`[]StoppedOwnsNothing`). `Owning` says that only the current generation
  and one about to be installed have a connection, and the current one none from the end
  of Shutdown.
* `WakeupsKept` (`[]NoLostWakeup`), inductive with the types: the safety half of
  `BacklogServed`. The loop blocks with an admissible delivery only behind a full queue,
  and no step of a worker ends without leaving it busy or a token behind.

`ConsumerDeliveriesProofs` continues from there:

* `NothingLeft` (`[]NothingStranded`). `Stranding` accounts for every unsettled delivery of
  the current generation: it is not read yet, in the backlog, being rejected, in the job
  queue, with a worker, or something is left behind that will close the generation.
  `Ceasing` says that a loop which ends for good finds that generation gone, or cancelled
  with everything read. Both allow one exception, `Abandoning`: a `Drain` that failed stops
  the loop before it closes the generation, and `AbandoningEnds` shows that closing it is
  the next thing that `Drain` does.
* `EachSettledOnce` (`[]SettledOnce`). `Single` says that no delivery is in two places of
  backlog, job queue, workers and rejection; it needs `Known`, that whatever is in one of
  them was read, so that the next delivery to be read is in none. `Waiting` says that the
  broker waits for the settlement of each delivery that is held or not read yet, unless
  its connection is gone, and that nothing was sent on a generation before it is opened.
* `IntakeStopped` (`[]DrainStopsIntake`). `Closing` says that a closed generation has no
  connection and is not the one that recovery opens next, and `Ceasing` that a Drain
  under way remembers the generation that is still the current one.

`OpeningProofs`, for any number of endpoints, attempts, declarations and losses:

* `TypeCorrect` (`[]TypeOK`, which bounds the backoff delay), `NothingLeftOpen`
  (`[]NoConnectionLeft`) and `HandOver` (`[]HandOverSafe`). The invariant `Phases` follows connection and callback through
  `boundedAMQPChannel`; its point is that a callback which has started shows
  that the context is done, so a channel that passes the last look at the context
  has a callback that can no longer run.
* `Implements`: `Spec => ImplementsTopologyOutcome`. `Declared` says that the broker
  has executed exactly the answered declarations, and perhaps the one under way.
* `EndpointsRotate` (`[]RotationContinues`). `Rotation` says that `nextEndpoint` and the
  attempt of the loop add up, modulo the endpoints, to the attempts of all loops so far.

`SettlementProofs`, for any bound on requeues, concurrency and waiters:

* `RequeueBound` (`[]RequeuesBounded`). `Holder` says that the message is with at most
  one delivery of the current connection, as handler, call or frame on the wire;
  `Fresh` that the counters this delivery saw are still the broker's, although older
  handlers run on; `Accounts` relates the requeues to the counters.
* `SettlementResults` (`[]AnswersTrue`), with `Answers`, and `TypeCorrect`.

Only model-checked are the liveness properties, since fairness is out of the prover's
reach; every invariant and action property of a passing run is proved as well.

## Not modelled

* Transport, TLS and credentials: I/O of the client library, seen here as a dial that
  succeeds or not within its deadline.
* Validation of messages, topology and configuration, and the AMQP client
  configuration: stateless functions of their arguments. Their limits appear as
  assumptions on the constants.
* Decoding of deliveries, beyond its verdict and the redelivery counters it keeps; the
  copies it makes and the AMQP tables built from topology and messages.
* `Liveness` and `Readiness` of a consumer. `DependencyHealth` is in `Consumer`, and all
  three views of a producer are in `ProducerSignals`.
* Wording and sanitising of errors, and the fields of observations.
* Durations, beyond the fact that each timer may fire at any moment, and the arithmetic
  of the backoff in `Opening`.
