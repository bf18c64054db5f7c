------------------------------ MODULE Opening ------------------------------
(***************************************************************************)
(* How a resource gets a connection: the retry loops of openProducerWith,  *)
(* openConsumerWith and applyTopologyWith, and of recoverRuntime when an   *)
(* owned connection is lost; one attempt with its deadline, the channel    *)
(* opened under a callback that may close the connection                   *)
(* (boundedAMQPChannel), and the setup, a sequence of broker operations    *)
(* each of which runs in a goroutine that may outlive its caller.          *)
(***************************************************************************)
EXTENDS Integers

CONSTANTS Kinds,         \* resources that are opened
          Declarations,  \* exchanges, queues and bindings of a topology
          Endpoints,     \* len(connection.Endpoints)
          MaxAttempts,   \* Recovery.MaxAttempts
          InitialDelay,  \* Recovery.InitialDelay
          MaxDelay,      \* Recovery.MaxDelay
          MaxLosses      \* bound on the owned connections one behaviour loses

AllKinds == {"producer", "consumer", "transient", "passive", "active"}

\* config.go:160: ConnectionConfig.Validate.
ASSUME OpeningAssumption ==
    /\ Kinds \subseteq AllKinds
    /\ Declarations \in Nat \ {0}
    /\ Endpoints \in Nat \ {0}
    /\ MaxAttempts \in Nat \ {0}
    /\ InitialDelay \in Nat \ {0}
    /\ MaxDelay \in Nat /\ InitialDelay <= MaxDelay
    /\ MaxLosses \in Nat

VARIABLES
    kind, mode, closed,             \* what is opened; startup or recovery; Shutdown has begun
    ctx, deadline,                  \* the loop's context, the attempt's context are done
    pc, attempt, delay, result,     \* the loop
    nextEndpoint, endpoint, tries,  \* rotation; tries counts the attempts of a lifetime
    connection, callback, channel,  \* the attempt's connection, AfterFunc, client.Channel()
    operation, answer,              \* setup
    underway, declared,             \* a declaration the broker may still execute; those it has
    losses

loopVars == <<kind, mode, closed, ctx, delay, result, nextEndpoint, tries, losses>>
connectVars == <<connection, callback, channel>>
setupVars == <<operation, answer, underway, declared>>
vars == <<kind, mode, closed, ctx, deadline, pc, attempt, delay, result, nextEndpoint,
          endpoint, tries, connection, callback, channel, operation, answer, underway,
          declared, losses>>

Topology == kind \in {"passive", "active"}

\* The broker operations of a setup: Confirm; QoS and Consume, after an exchange
\* check, a declaration and a binding if the queue is transient; the declarations.
Operations ==
    CASE kind = "producer" -> 1
      [] kind = "consumer" -> 2
      [] kind = "transient" -> 5
      [] OTHER -> Declarations

Opening == {"opening", "stopping", "joining"}
Setup == {"setup", "running", "expiring", "failing", "refusing", "finishing"}
LoopPoints == {"attempt", "credentials", "dialing", "failed", "waiting"}
Points == LoopPoints \cup {"dialled", "checking", "owned", "done"} \cup Opening \cup Setup

TypeOK ==
    /\ kind \in AllKinds
    /\ mode \in {"open", "recover"}
    /\ closed \in BOOLEAN /\ ctx \in BOOLEAN /\ deadline \in BOOLEAN
    /\ pc \in Points
    /\ attempt \in 0..(MaxAttempts - 1)
    /\ delay \in InitialDelay..MaxDelay
    /\ result \in {"none", "ok", "refused", "failed", "unavailable", "stopped"}
    /\ nextEndpoint \in Nat
    /\ endpoint \in 0..(Endpoints - 1)
    /\ tries \in Nat
    /\ connection \in {"none", "open", "closing", "closed"}
    /\ callback \in {"none", "armed", "running", "done", "stopped"}
    /\ channel \in {"none", "ok", "error"}
    /\ operation \in 1..(Operations + 1)
    /\ answer \in {"none", "pending", "ok", "retryable", "definitive"}
    /\ underway \in BOOLEAN
    /\ declared \in Nat
    /\ losses \in 0..MaxLosses

Init ==
    /\ kind \in Kinds
    /\ mode = "open" /\ closed = FALSE
    /\ ctx = FALSE /\ deadline = FALSE
    /\ pc = "attempt" /\ attempt = 0 /\ delay = InitialDelay /\ result = "none"
    /\ nextEndpoint = 0 /\ endpoint = 0 /\ tries = 0
    /\ connection = "none" /\ callback = "none" /\ channel = "none"
    /\ operation = 1 /\ answer = "none" /\ underway = FALSE /\ declared = 0
    /\ losses = 0

Goto(point) == pc' = point

\* The call returns, or recovery ends without a generation.
Finish(outcome) ==
    /\ result' = outcome
    /\ Goto("done")

-----------------------------------------------------------------------------
(* Contexts.                                                               *)

AttemptDone == ctx \/ deadline

\* The caller's context ends; in recovery eventsContext or recoveryContext, which
\* Shutdown and Drain end only after they have marked the resource closed.
EndContext ==
    /\ ~ctx /\ pc \notin {"owned", "done"}
    /\ mode = "recover" => closed
    /\ ctx' = TRUE
    /\ UNCHANGED <<kind, mode, closed, deadline, pc, attempt, delay, result, nextEndpoint,
                   endpoint, tries, connectVars, setupVars, losses>>

\* Producer.closed or Consumer.stopping is set during a recovery.
BeginClose ==
    /\ mode = "recover" /\ ~closed /\ pc \notin {"owned", "done"}
    /\ closed' = TRUE
    /\ UNCHANGED <<kind, mode, ctx, deadline, pc, attempt, delay, result, nextEndpoint,
                   endpoint, tries, connectVars, setupVars, losses>>

\* DialTimeout, or the shorter timeout of a setup.
Expire ==
    /\ ~deadline /\ pc \notin {"attempt", "failed", "waiting", "owned", "done"}
    /\ deadline' = TRUE
    /\ UNCHANGED <<loopVars, pc, attempt, endpoint, connectVars, setupVars>>

-----------------------------------------------------------------------------
(* The loop.                                                               *)

\* The context is looked at before an attempt, while waiting, and by topology
\* also after a failed attempt.
StopLoop ==
    /\ ctx
    /\ pc \in {"attempt", "waiting"} \/ (Topology /\ pc = "failed")
    /\ Finish("stopped")
    /\ UNCHANGED <<kind, mode, closed, ctx, deadline, attempt, delay, nextEndpoint,
                   endpoint, tries, connectVars, setupVars, losses>>

StartAttempt ==
    /\ deadline' = FALSE
    /\ tries' = tries + 1
    /\ Goto("credentials")

\* shouldWaitForRecovery: recoverRuntime looks at its context before it waits and
\* not again before the attempt, the other loops wait first.
BeginAttempt ==
    /\ pc = "attempt" /\ ~ctx
    /\ \/ /\ mode = "recover" /\ attempt > 0
          /\ Goto("waiting")
          /\ UNCHANGED <<deadline, tries>>
       \/ /\ mode = "open" \/ attempt = 0
          /\ StartAttempt
    /\ UNCHANGED <<kind, mode, closed, ctx, attempt, delay, result, nextEndpoint, endpoint,
                   connectVars, setupVars, losses>>

\* Credentials, and in the recovery of a producer a new session, or neither.
GetCredentials ==
    /\ pc = "credentials"
    /\ Goto("dialing") \/ Goto("failed")
    /\ UNCHANGED <<loopVars, deadline, attempt, endpoint, connectVars, setupVars>>

\* Mutant: every attempt of a loop goes to the same endpoint.
EndpointIndexFixed(start, count) == start % count

\* recoveryEndpointIndex.
EndpointIndex(start, count) == (start + attempt) % count

\* The endpoint accepts a connection, or not; nothing is left of a failed dial.
Dial ==
    /\ pc = "dialing"
    /\ endpoint' = EndpointIndex(nextEndpoint, Endpoints)
    /\ \/ /\ connection' = "open"
          /\ callback' = "none" /\ channel' = "none"
          /\ operation' = 1 /\ answer' = "none"
          /\ Goto("dialled")
       \/ /\ Goto("failed")
          /\ UNCHANGED <<connectVars, operation, answer>>
    /\ UNCHANGED <<loopVars, deadline, attempt, underway, declared>>

\* finalRecoveryAttempt.
FinalAttempt == attempt + 1 = MaxAttempts

\* The attempt is over and what it opened is closed, or being closed.
AttemptFailed ==
    /\ pc = "failed"
    /\ Topology => ~ctx
    /\ \/ /\ FinalAttempt
          /\ Finish("unavailable")
          /\ UNCHANGED attempt
       \/ /\ ~FinalAttempt /\ mode = "open"
          /\ Goto("waiting")
          /\ UNCHANGED <<attempt, result>>
       \/ /\ ~FinalAttempt /\ mode = "recover"
          /\ attempt' = attempt + 1
          /\ Goto("attempt")
          /\ UNCHANGED result
    /\ UNCHANGED <<kind, mode, closed, ctx, deadline, delay, nextEndpoint, endpoint, tries,
                   connectVars, setupVars, losses>>

\* nextRecoveryDelay.  MaxDelay is at most five minutes, so doubling a
\* time.Duration cannot overflow.
NextDelay == IF delay * 2 <= MaxDelay THEN delay * 2 ELSE MaxDelay

\* waitForRecovery.
WaitOver ==
    /\ pc = "waiting"
    /\ delay' = NextDelay
    /\ \/ /\ mode = "open"
          /\ attempt' = attempt + 1
          /\ Goto("attempt")
          /\ UNCHANGED <<deadline, tries>>
       \/ /\ mode = "recover"
          /\ StartAttempt
          /\ UNCHANGED attempt
    /\ UNCHANGED <<kind, mode, closed, ctx, result, nextEndpoint, endpoint, connectVars,
                   setupVars, losses>>

-----------------------------------------------------------------------------
(* boundedAMQPChannel.                                                     *)

\* closeWithDeadline returns with the connection closed; a consumer starts the
\* close and waits for it no longer than its deadline allows.
CloseConnection ==
    \/ connection' = "closed"
    \/ kind \in {"consumer", "transient"} /\ connection' = "closing"

CloseCompletes ==
    /\ connection = "closing"
    /\ connection' = "closed"
    /\ UNCHANGED <<loopVars, deadline, pc, attempt, endpoint, callback, channel, setupVars>>

\* AfterFunc is registered and client.Channel() called, unless it is too late.
OpenChannel ==
    /\ pc = "dialled"
    /\ \/ /\ AttemptDone
          /\ connection' = "closed"
          /\ Goto("failed")
          /\ UNCHANGED callback
       \/ /\ ~AttemptDone
          /\ callback' = "armed"
          /\ Goto("opening")
          /\ UNCHANGED connection
    /\ UNCHANGED <<loopVars, deadline, attempt, endpoint, channel, setupVars>>

FireCallback ==
    /\ callback = "armed" /\ AttemptDone
    /\ callback' = "running"
    /\ UNCHANGED <<loopVars, deadline, pc, attempt, endpoint, connection, channel, setupVars>>

\* Mutant: the callback only reports that the context is done.
RunCallbackSilently ==
    /\ callback = "running"
    /\ callback' = "done"
    /\ UNCHANGED <<loopVars, deadline, pc, attempt, endpoint, connection, channel, setupVars>>

RunCallback ==
    /\ callback = "running"
    /\ connection' = "closed"
    /\ callback' = "done"
    /\ UNCHANGED <<loopVars, deadline, pc, attempt, endpoint, channel, setupVars>>

\* The broker opens the channel or refuses to, if it answers at all.
ChannelAnswered ==
    /\ pc = "opening" /\ connection = "open"
    /\ channel' \in {"ok", "error"}
    /\ Goto("stopping")
    /\ UNCHANGED <<loopVars, deadline, attempt, endpoint, connection, callback, setupVars>>

\* The connection is closed, which releases the pending RPC.
ChannelReleased ==
    /\ pc = "opening" /\ connection = "closed"
    /\ channel' = "error"
    /\ Goto("stopping")
    /\ UNCHANGED <<loopVars, deadline, attempt, endpoint, connection, callback, setupVars>>

\* Mutant: the result of stop() is ignored.
StopCallbackUnjoined ==
    /\ pc = "stopping"
    /\ callback' = IF callback = "armed" THEN "stopped" ELSE callback
    /\ Goto("checking")
    /\ UNCHANGED <<loopVars, deadline, attempt, endpoint, connection, channel, setupVars>>

\* stop(): the callback is unregistered, or it has started and is waited for.
StopCallback ==
    /\ pc = "stopping"
    /\ \/ /\ callback = "armed"
          /\ callback' = "stopped"
          /\ Goto("checking")
       \/ /\ callback # "armed"
          /\ Goto("joining")
          /\ UNCHANGED callback
    /\ UNCHANGED <<loopVars, deadline, attempt, endpoint, connection, channel, setupVars>>

JoinCallback ==
    /\ pc = "joining" /\ callback = "done"
    /\ Goto("checking")
    /\ UNCHANGED <<loopVars, deadline, attempt, endpoint, connectVars, setupVars>>

\* The context decides over the channel; the dial function closes the connection
\* of a channel it cannot use.
CheckChannel ==
    /\ pc = "checking"
    /\ \/ /\ AttemptDone
          /\ connection' = "closed"
          /\ Goto("failed")
       \/ /\ ~AttemptDone /\ channel = "error"
          /\ CloseConnection
          /\ Goto("failed")
       \/ /\ ~AttemptDone /\ channel = "ok"
          /\ Goto("setup")
          /\ UNCHANGED connection
    /\ UNCHANGED <<loopVars, deadline, attempt, endpoint, callback, channel, setupVars>>

-----------------------------------------------------------------------------
(* The setup of a channel.                                                 *)

\* An operation starts in a goroutine of its own; only topology looks at the
\* context first.
StartOperation ==
    /\ pc = "setup"
    /\ \/ /\ Topology /\ AttemptDone
          /\ Goto("failing")
          /\ UNCHANGED <<answer, underway>>
       \/ /\ ~(Topology /\ AttemptDone)
          /\ answer' = "pending"
          /\ underway' = (kind = "active")
          /\ Goto("running")
    /\ UNCHANGED <<loopVars, deadline, attempt, endpoint, connectVars, operation, declared>>

\* The broker executes a declaration, also when its caller has given up or has been
\* told of a lost connection: the request may have been sent before.
OperationExecuted ==
    /\ underway /\ answer # "definitive"
    /\ underway' = FALSE
    /\ declared' = declared + 1
    /\ UNCHANGED <<loopVars, deadline, pc, attempt, endpoint, connectVars, operation, answer>>

\* The answer: success, an error of the transport or an unknown broker error, or
\* one that topologyOperationError takes as definitive.  An executed operation may
\* fail too, when its answer is lost or names another queue.
OperationAnswered ==
    /\ answer = "pending"
    /\ answer' \in {"ok", "retryable", "definitive"}
    /\ answer' = "ok" => ~underway
    /\ UNCHANGED <<loopVars, deadline, pc, attempt, endpoint, connectVars, operation,
                   underway, declared>>

OperationCompleted ==
    /\ pc = "running"
    /\ \/ /\ answer = "ok"
          /\ operation' = operation + 1
          /\ Goto(IF operation = Operations THEN "finishing" ELSE "setup")
       \/ /\ answer = "definitive" /\ Topology
          /\ Goto("refusing")
          /\ UNCHANGED operation
       \/ /\ answer = "retryable" \/ (answer = "definitive" /\ ~Topology)
          /\ Goto("failing")
          /\ UNCHANGED operation
    /\ UNCHANGED <<loopVars, deadline, attempt, endpoint, connectVars, answer, underway,
                   declared>>

\* The context is done first; the operation goes on until the connection is closed.
OperationExpired ==
    /\ pc = "running" /\ AttemptDone
    /\ Goto("expiring")
    /\ UNCHANGED <<loopVars, deadline, attempt, endpoint, connectVars, setupVars>>

\* Mutant: a setup that ran out of time is left to its goroutine.
SetupFailedLeaking ==
    /\ ~Topology /\ pc \in {"failing", "expiring"}
    /\ IF pc = "failing" THEN CloseConnection ELSE UNCHANGED connection
    /\ Goto("failed")
    /\ UNCHANGED <<loopVars, deadline, attempt, endpoint, callback, channel, setupVars>>

SetupFailed ==
    /\ ~Topology /\ pc \in {"failing", "expiring"}
    /\ CloseConnection
    /\ Goto("failed")
    /\ UNCHANGED <<loopVars, deadline, attempt, endpoint, callback, channel, setupVars>>

\* The connection becomes the resource's generation.  Recovery looks once more
\* whether the resource has been closed meanwhile.
Own ==
    /\ ~Topology /\ pc = "finishing"
    /\ \/ /\ ~closed
          /\ nextEndpoint' = IF mode = "open" THEN attempt + 1
                             ELSE EndpointIndex(nextEndpoint, Endpoints) + 1
          /\ ctx' = FALSE
          /\ Goto("owned")
          /\ UNCHANGED <<connection, result>>
       \/ /\ closed
          /\ CloseConnection
          /\ Finish("stopped")
          /\ UNCHANGED <<nextEndpoint, ctx>>
    /\ UNCHANGED <<kind, mode, closed, deadline, attempt, delay, endpoint, tries, callback,
                   channel, setupVars, losses>>

\* The generation fails and is closed; recoverRuntime starts.
Lose ==
    /\ pc = "owned" /\ losses < MaxLosses
    /\ losses' = losses + 1
    /\ CloseConnection
    /\ mode' = "recover"
    /\ attempt' = 0 /\ delay' = InitialDelay
    /\ Goto("attempt")
    /\ UNCHANGED <<kind, closed, ctx, deadline, result, nextEndpoint, endpoint, tries,
                   callback, channel, setupVars>>

\* Mutant: the mode of the policy is not looked at before a retry.
TopologyClosedRetrying ==
    /\ Topology /\ pc \in {"failing", "expiring", "refusing", "finishing"}
    /\ connection' = "closed"
    /\ \/ pc = "finishing" /\ (Finish("ok") \/ Finish("unavailable"))
       \/ pc = "refusing" /\ Finish("refused")
       \/ /\ pc \in {"failing", "expiring"}
          /\ \/ ctx /\ Finish("stopped")
             \/ ~ctx /\ Finish("failed")
             \/ ~ctx /\ ~FinalAttempt /\ Goto("failed") /\ UNCHANGED result
    /\ UNCHANGED <<kind, mode, closed, ctx, deadline, attempt, delay, nextEndpoint, endpoint,
                   tries, callback, channel, setupVars, losses>>

\* generation.close, which may report an error, and what the loop makes of it:
\* only a passive check that failed for want of a connection is tried again.
TopologyClosed ==
    /\ Topology /\ pc \in {"failing", "expiring", "refusing", "finishing"}
    /\ connection' = "closed"
    /\ \/ pc = "finishing" /\ (Finish("ok") \/ Finish("unavailable"))
       \/ pc = "refusing" /\ Finish("refused")
       \/ /\ pc \in {"failing", "expiring"} /\ kind = "active"
          /\ Finish("failed")
       \/ /\ pc \in {"failing", "expiring"} /\ kind = "passive"
          /\ \/ ctx /\ Finish("stopped")
             \/ ~ctx /\ Finish("failed")
             \/ ~ctx /\ ~FinalAttempt /\ Goto("failed") /\ UNCHANGED result
    /\ UNCHANGED <<kind, mode, closed, ctx, deadline, attempt, delay, nextEndpoint, endpoint,
                   tries, callback, channel, setupVars, losses>>

-----------------------------------------------------------------------------
Environment == EndContext \/ BeginClose \/ Lose \/ ChannelAnswered \/ OperationExecuted
               \/ OperationAnswered

Callback == FireCallback \/ RunCallback

\* The steps of the goroutine that runs the loop.
Loop ==
    \/ StopLoop \/ BeginAttempt \/ GetCredentials \/ Dial \/ AttemptFailed \/ WaitOver
    \/ OpenChannel \/ ChannelReleased \/ StopCallback \/ JoinCallback \/ CheckChannel
    \/ StartOperation \/ OperationCompleted \/ OperationExpired \/ SetupFailed
    \/ TopologyClosed \/ Own

Next == Environment \/ Expire \/ Callback \/ CloseCompletes \/ Loop

Spec == Init /\ [][Next]_vars

\* Deadlines expire, callbacks and the loop run.  A credential provider and a
\* dialled socket honour the attempt's deadline; the broker need never answer.
FairSpec == Spec /\ WF_vars(Loop) /\ WF_vars(Expire) /\ WF_vars(Callback)

-----------------------------------------------------------------------------
(* Properties.                                                             *)

\* An attempt that fails leaves no connection behind: whenever a loop (openProducerWith,
\* openConsumerWith, applyTopologyWith, recoverRuntime) is between attempts, or has
\* ended without a resource, what it dialled last is closed or its close has been
\* started.
NoConnectionLeft == pc \in LoopPoints \cup {"done"} => connection # "open"

\* "no callback can outlive setup or close a successfully transferred runtime
\* connection later" (channel_open.go:24): outside boundedAMQPChannel no callback
\* is registered or running.
CallbackJoined == pc \notin Opening => callback \notin {"armed", "running"}

\* A channel is set up, and a resource owned, only on a connection that the deadline
\* callback of boundedAMQPChannel has not closed and cannot close any more.
HandedOverOpen == pc \in Setup \cup {"owned"} => connection = "open" /\ callback = "stopped"

\* Both: boundedAMQPChannel hands over an open connection, alone.
HandOverSafe == CallbackJoined /\ HandedOverOpen

\* The attempts of a lifetime, over startup and every recovery, go around the
\* endpoints without repeating or skipping one (recoveryEndpointIndex, nextEndpoint):
\* a recovery starts at the endpoint after the one that was lost.
RotationContinues ==
    pc \in {"dialled", "checking", "owned"} \cup Opening \cup Setup
        => endpoint = (tries - 1) % Endpoints

\* What the broker and the caller see of an active ApplyTopology.
Outcome == INSTANCE TopologyOutcome WITH
    underway <- underway,
    declared <- declared,
    answer <- IF kind # "active" \/ result = "none" THEN "none"
              ELSE IF result = "ok" THEN "ok" ELSE "error"

\* Whatever fails, an active topology is declared at most once and in order
\* (topology_apply.go:135), successfully only in full, and after ApplyTopology has
\* returned an error at most the declaration it gave up on is still executed.
ImplementsTopologyOutcome == Outcome!Spec

\* Every OpenProducer, OpenConsumer and ApplyTopology call and every recoverRuntime
\* ends, with a resource or without, also if the broker accepts connections and
\* never answers on them.
OpeningEnds == pc \notin {"owned", "done"} ~> pc \in {"owned", "done"}
=============================================================================
