----------------------------- MODULE Settlement -----------------------------
(***************************************************************************)
(* One message from its first delivery until it leaves the queue: the      *)
(* handler's verdict, the requeue bound (boundedSettlement), the client    *)
(* call that runs in a goroutine and may be outrun by its timeout          *)
(* (settle), the shared result (completeSettlement) and the callers of     *)
(* AwaitSettlement.  A lost connection redelivers the message while its    *)
(* earlier handler may still be running.                                   *)
(***************************************************************************)
EXTENDS Integers, FiniteSets

CONSTANTS Waiters,        \* callers of AwaitSettlement, each for one delivery
          MaxRequeues,    \* ConsumerConfig.MaxRequeues
          Failure,        \* ConsumerConfig.Failure
          Concurrency,    \* ConsumerConfig.Concurrency, the worker slots
          MaxDeliveries,  \* bound on the deliveries of the message
          MaxLosses       \* bound on lost or closed connections

Request(method, requeue) == [method |-> method, requeue |-> requeue]

\* The settlements a handler can return (Settlement.Validate): those that ask the
\* broker for something, and delegation.
Requests == {Request("ack", FALSE), Request("nack", FALSE), Request("nack", TRUE),
             Request("reject", FALSE), Request("reject", TRUE)}
Delegate == Request("delegate", FALSE)
Valid == Requests \cup {Delegate}

ASSUME SettlementAssumption ==
    /\ MaxRequeues \in Nat
    /\ Concurrency \in Nat \ {0}
    /\ MaxDeliveries \in Nat \ {0}
    /\ MaxLosses \in Nat
    /\ Failure \in Requests \ {Request("ack", FALSE)}

Deliveries == 1..MaxDeliveries
NoRequest == Request("none", FALSE)
Observed == [redelivered : BOOLEAN, acquired : Nat, failed : Nat]
Unseen == [redelivered |-> FALSE, acquired |-> 0, failed |-> 0]

VARIABLES
    queue,        \* its type, and which counters its deliveries carry
    message,      \* "ready", "assigned" or "gone"
    returns,      \* how often it came back: x-acquired-count
    failures,     \* x-delivery-count
    requeues,     \* how often the broker put it back because it was told to
    nacks,        \* how many of these were NACKs
    connection,   \* number of the current connection
    lost,
    count,        \* deliveries so far
    on,           \* the connection of each delivery
    seen,         \* its Redelivered, AcquiredCount and DeliveryCount, until they are used
    handle,       \* where handle is with each delivery
    request,      \* what its call has to ask the broker for
    call,         \* the goroutine of settle
    wire,         \* the settlements sent that the broker has not seen
    result,       \* deliverySettlement: done and err
    waiter, target, expired, late, answer   \* AwaitSettlement

broker == <<message, returns, failures, requeues, nacks>>
handling == <<handle, request, call, result>>
waiting == <<waiter, target, expired, late, answer>>
vars == <<queue, broker, connection, lost, count, on, seen, handling, wire, waiting>>

Queues == {[type |-> "classic", acquired |-> FALSE, counted |-> FALSE]}
          \cup [type : {"quorum"}, acquired : BOOLEAN, counted : BOOLEAN]

TypeOK ==
    /\ queue \in Queues
    /\ message \in {"ready", "assigned", "gone"}
    /\ returns \in Nat /\ failures \in Nat /\ requeues \in Nat /\ nacks \in Nat
    /\ connection \in Nat /\ lost \in 0..MaxLosses /\ count \in 0..MaxDeliveries
    /\ on \in [Deliveries -> Nat]
    /\ seen \in [Deliveries -> Observed]
    /\ handle \in [Deliveries -> {"none", "handling", "settling", "closing", "done"}]
    /\ request \in [Deliveries -> Requests \cup {NoRequest}]
    /\ call \in [Deliveries -> {"none", "pending", "sent", "failed"}]
    /\ wire \subseteq Requests
    /\ result \in [Deliveries -> {"none", "nil", "unavailable", "delegated"}]
    /\ waiter \in [Waiters -> {"idle", "selecting", "checking", "done"}]
    /\ target \in [Waiters -> Deliveries]
    /\ expired \subseteq Waiters /\ late \subseteq Waiters
    /\ answer \in [Waiters -> {"none", "nil", "unavailable", "delegated", "context"}]

Init ==
    /\ queue \in Queues
    /\ message = "ready" /\ returns = 0 /\ failures = 0 /\ requeues = 0 /\ nacks = 0
    /\ connection = 0 /\ lost = 0 /\ count = 0
    /\ on = [d \in Deliveries |-> 0]
    /\ seen = [d \in Deliveries |-> Unseen]
    /\ handle = [d \in Deliveries |-> "none"]
    /\ request = [d \in Deliveries |-> NoRequest]
    /\ call = [d \in Deliveries |-> "none"]
    /\ wire = {}
    /\ result = [d \in Deliveries |-> "none"]
    /\ waiter = [w \in Waiters |-> "idle"]
    /\ target = [w \in Waiters |-> 1]
    /\ expired = {} /\ late = {}
    /\ answer = [w \in Waiters |-> "none"]

-----------------------------------------------------------------------------
(* The broker.                                                             *)

Busy == {d \in Deliveries : handle[d] \in {"handling", "settling", "closing"}}

\* What a delivery shows of the message; deliveryFromAMQP keeps it.
Current == [redelivered |-> returns > 0, acquired |-> returns, failed |-> failures]

\* The current connection delivers the message to a free worker.
Deliver ==
    /\ message = "ready" /\ count < MaxDeliveries
    /\ Cardinality(Busy) < Concurrency
    /\ message' = "assigned"
    /\ count' = count + 1
    /\ on' = [on EXCEPT ![count + 1] = connection]
    /\ seen' = [seen EXCEPT ![count + 1] = Current]
    /\ handle' = [handle EXCEPT ![count + 1] = "handling"]
    /\ UNCHANGED <<queue, returns, failures, requeues, nacks, connection, lost,
                   request, call, result, wire, waiting>>

\* A connection is gone: what it had in flight is lost and the message, if it was
\* assigned, comes back.  Whether that counts as a failed delivery depends on the
\* broker.
LoseConnection ==
    /\ connection' = connection + 1
    /\ lost' = lost + 1
    /\ wire' = {}
    /\ \/ /\ message = "assigned"
          /\ message' = "ready"
          /\ returns' = returns + 1
          /\ failures' \in {failures, failures + 1}
       \/ /\ message # "assigned"
          /\ UNCHANGED <<message, returns, failures>>
    /\ UNCHANGED <<requeues, nacks>>

ConnectionLost ==
    /\ lost < MaxLosses
    /\ LoseConnection
    /\ UNCHANGED <<queue, count, on, seen, handling, waiting>>

\* The broker settles the delivery; NACK does not count as a failed delivery.
BrokerSettles(settlement) ==
    /\ settlement \in wire
    /\ wire' = wire \ {settlement}
    /\ \/ /\ settlement.requeue
          /\ message' = "ready"
          /\ returns' = returns + 1
          /\ requeues' = requeues + 1
          /\ failures' = IF settlement.method = "reject" THEN failures + 1 ELSE failures
          /\ nacks' = IF settlement.method = "nack" THEN nacks + 1 ELSE nacks
       \/ /\ ~settlement.requeue
          /\ message' = "gone"
          /\ UNCHANGED <<returns, requeues, failures, nacks>>
    /\ UNCHANGED <<queue, connection, lost, count, on, seen, handling, waiting>>

-----------------------------------------------------------------------------
(* handle and settle.                                                      *)

\* Mutant: the acquired count may reach the bound.
RequeueAllowedLate(delivery, method) ==
    IF queue.type = "quorum" /\ queue.acquired THEN delivery.acquired <= MaxRequeues
    ELSE IF method = "nack" /\ delivery.redelivered THEN FALSE
    ELSE IF queue.type = "quorum" /\ method = "reject" /\ queue.counted
         THEN delivery.failed < MaxRequeues
    ELSE ~delivery.redelivered

RequeueAllowed(delivery, method) ==
    IF queue.type = "quorum" /\ queue.acquired THEN delivery.acquired < MaxRequeues
    ELSE IF method = "nack" /\ delivery.redelivered THEN FALSE
    ELSE IF queue.type = "quorum" /\ method = "reject" /\ queue.counted
         THEN delivery.failed < MaxRequeues
    ELSE ~delivery.redelivered

BoundedSettlement(delivery, requested) ==
    IF requested.requeue /\ MaxRequeues # 0 /\ RequeueAllowed(delivery, requested.method)
    THEN requested
    ELSE Request(requested.method, FALSE)

\* The handler's verdict: a settlement, or an error, an expired context or an
\* invalid settlement, for which the configured failure stands.
Verdicts == Valid \cup {Failure}

HandlerReturns(d) ==
    /\ handle[d] = "handling"
    /\ \/ /\ result' = [result EXCEPT ![d] = "delegated"]
          /\ handle' = [handle EXCEPT ![d] = "done"]
          /\ UNCHANGED <<request, call>>
       \/ /\ \E requested \in Verdicts \ {Delegate} :
                request' = [request EXCEPT ![d] = BoundedSettlement(seen[d], requested)]
          /\ call' = [call EXCEPT ![d] = "pending"]
          /\ handle' = [handle EXCEPT ![d] = "settling"]
          /\ UNCHANGED result
    /\ seen' = [seen EXCEPT ![d] = Unseen]
    /\ UNCHANGED <<queue, broker, connection, lost, count, on, wire, waiting>>

\* Mutant: the switch forgets the NACK, and reports success.
ApplyWithoutNack(d) ==
    /\ call[d] = "pending"
    /\ \/ /\ on[d] = connection
          /\ call' = [call EXCEPT ![d] = "sent"]
          /\ wire' = wire \cup ({request[d]} \ {r \in Requests : r.method = "nack"})
       \/ /\ on[d] # connection
          /\ call' = [call EXCEPT ![d] = "failed"]
          /\ UNCHANGED wire
    /\ request' = [request EXCEPT ![d] = NoRequest]
    /\ UNCHANGED <<queue, broker, connection, lost, count, on, seen, handle, result,
                   waiting>>

\* applySettlement, in its goroutine, on the channel of the delivery.
Apply(d) ==
    /\ call[d] = "pending"
    /\ \/ /\ on[d] = connection
          /\ call' = [call EXCEPT ![d] = "sent"]
          /\ wire' = wire \cup {request[d]}
       \/ /\ on[d] # connection
          /\ call' = [call EXCEPT ![d] = "failed"]
          /\ UNCHANGED wire
    /\ request' = [request EXCEPT ![d] = NoRequest]
    /\ UNCHANGED <<queue, broker, connection, lost, count, on, seen, handle, result,
                   waiting>>

Settled(d, outcome) ==
    /\ result' = [result EXCEPT ![d] = outcome]
    /\ handle' = [handle EXCEPT ![d] = "done"]

\* Mutant: a failed call ends handle before completeSettlement.
SettleReturnsUnanswered(d) ==
    /\ handle[d] = "settling"
    /\ \/ call[d] = "sent" /\ Settled(d, "nil")
       \/ call[d] = "failed" /\ Settled(d, "none")
    /\ UNCHANGED <<queue, broker, connection, lost, count, on, seen, request, call, wire,
                   waiting>>

\* The call returns first; completeSettlement.
SettleReturns(d) ==
    /\ handle[d] = "settling"
    /\ \/ call[d] = "sent" /\ Settled(d, "nil")
       \/ call[d] = "failed" /\ Settled(d, "unavailable")
    /\ UNCHANGED <<queue, broker, connection, lost, count, on, seen, request, call,
                   wire, waiting>>

\* The timeout is first, and settle closes the generation under the call, which
\* may still send.
SettleTimesOut(d) ==
    /\ handle[d] = "settling"
    /\ on[d] = connection => lost < MaxLosses
    /\ handle' = [handle EXCEPT ![d] = "closing"]
    /\ UNCHANGED <<queue, broker, connection, lost, count, on, seen, request, call,
                   result, wire, waiting>>

Close(d) ==
    \/ on[d] = connection /\ lost < MaxLosses /\ LoseConnection
    \/ on[d] # connection /\ UNCHANGED <<connection, lost, wire, broker>>

\* closeGeneration has returned; what the call did is not known to handle.
SettleCloses(d) ==
    /\ handle[d] = "closing"
    /\ Close(d)
    /\ Settled(d, "unavailable")
    /\ UNCHANGED <<queue, count, on, seen, request, call, waiting>>

-----------------------------------------------------------------------------
(* AwaitSettlement.                                                        *)

WaitUnchanged == UNCHANGED <<queue, broker, connection, lost, count, on, seen, handling,
                             wire>>

Answer(w, with) ==
    /\ answer' = [answer EXCEPT ![w] = with]
    /\ waiter' = [waiter EXCEPT ![w] = "done"]

\* late: the result was there before the context ended, or before the call.
Await(w, d) ==
    /\ waiter[w] = "idle" /\ handle[d] # "none"
    /\ target' = [target EXCEPT ![w] = d]
    /\ \/ /\ result[d] # "none"
          /\ Answer(w, result[d])
          /\ late' = late \cup {w}
       \/ /\ result[d] = "none"
          /\ waiter' = [waiter EXCEPT ![w] = "selecting"]
          /\ UNCHANGED <<answer, late>>
    /\ WaitUnchanged /\ UNCHANGED expired

ContextEnds(w) ==
    /\ w \notin expired /\ waiter[w] # "done"
    /\ expired' = expired \cup {w}
    /\ late' = IF waiter[w] # "idle" /\ result[target[w]] # "none" THEN late \cup {w} ELSE late
    /\ WaitUnchanged /\ UNCHANGED <<waiter, target, answer>>

\* The second select takes either channel that is ready.
ResultSelected(w) ==
    /\ waiter[w] = "selecting" /\ result[target[w]] # "none"
    /\ Answer(w, result[target[w]])
    /\ WaitUnchanged /\ UNCHANGED <<target, expired, late>>

ContextSelected(w) ==
    /\ waiter[w] = "selecting" /\ w \in expired
    /\ waiter' = [waiter EXCEPT ![w] = "checking"]
    /\ WaitUnchanged /\ UNCHANGED <<target, expired, late, answer>>

\* Mutant: a context that ended first is final.
ResultOrContextUnchecked(w) ==
    /\ waiter[w] = "checking"
    /\ Answer(w, "context")
    /\ WaitUnchanged /\ UNCHANGED <<target, expired, late>>

\* settlementResultOrContext.
ResultOrContext(w) ==
    /\ waiter[w] = "checking"
    /\ Answer(w, IF result[target[w]] # "none" THEN result[target[w]] ELSE "context")
    /\ WaitUnchanged /\ UNCHANGED <<target, expired, late>>

-----------------------------------------------------------------------------
Process(d) == HandlerReturns(d) \/ Apply(d) \/ SettleReturns(d) \/ SettleCloses(d)

Next ==
    \/ Deliver \/ ConnectionLost
    \/ \E settlement \in wire : BrokerSettles(settlement)
    \/ \E d \in Deliveries : Process(d) \/ SettleTimesOut(d)
    \/ \E w \in Waiters : \/ \E d \in Deliveries : Await(w, d)
                          \/ ContextEnds(w) \/ ResultSelected(w) \/ ContextSelected(w)
                          \/ ResultOrContext(w)

Spec == Init /\ [][Next]_vars

\* Handlers return, the package's goroutines run, and the broker delivers and
\* settles as long as the connection lasts.  Behaviours are bounded by the
\* constants, so one fairness condition lets each of these steps happen.
Progress ==
    \/ Deliver
    \/ \E settlement \in wire : BrokerSettles(settlement)
    \/ \E d \in Deliveries : Process(d)
    \/ \E w \in Waiters : ResultSelected(w) \/ ResultOrContext(w)

FairSpec == Spec /\ WF_vars(Progress)

-----------------------------------------------------------------------------
(* Properties.                                                             *)

\* How often a message is put back at a handler's request is bounded by the
\* counters its deliveries carry (boundedSettlement).  With the acquired count
\* every return, also one by a lost connection, uses up the bound; with the failed
\* deliveries alone a first NACK comes on top of it; without counters, and on a
\* classic queue, the message is put back once.
RequeuesBounded ==
    /\ MaxRequeues = 0 => requeues = 0
    /\ queue.acquired => requeues <= MaxRequeues
    /\ queue.counted /\ ~queue.acquired => nacks <= 1 /\ requeues - nacks <= MaxRequeues
    /\ ~queue.counted /\ ~queue.acquired => requeues <= 1

\* "A completed result is preferred over concurrent cancellation"
\* (delivery_settlement.go:27): a caller whose context ended after the result was
\* there, or who asked after it was there, is never told about its context.
ResultPreferred == \A w \in late : answer[w] # "context"

\* "Nil means the AMQP client ACK/NACK/Reject call succeeded"
\* (delivery_settlement.go:24), of the very delivery that was waited for, whatever
\* timed out or was redelivered meanwhile.
NilMeansSent ==
    \A w \in Waiters : answer[w] = "nil" => call[target[w]] = "sent"

\* completeSettlement decides once: all callers that are told a result of a delivery
\* are told the same one, early or late, and it stays the result.
ResultShared ==
    \A w \in Waiters : answer[w] \notin {"none", "context"} => answer[w] = result[target[w]]

\* All three: what AwaitSettlement answers is true, the same for everyone, and the
\* result if there is one.
AnswersTrue == NilMeansSent /\ ResultPreferred /\ ResultShared

\* A message leaves the queue, however often its handler asks for a retry
\* (boundedSettlement), unless a delivery of it was delegated; connections are lost finitely often.
MessageLeaves == <>(message = "gone" \/ \E d \in Deliveries : result[d] = "delegated")

\* Once the handler of a delivery has returned, whoever waits in AwaitSettlement
\* is answered (handle calls completeSettlement on every path), without the help of a context.
WaitersAnswered ==
    \A w \in Waiters :
        waiter[w] = "selecting" /\ handle[target[w]] # "handling" ~> waiter[w] = "done"
=============================================================================
