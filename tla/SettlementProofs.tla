-------------------------- MODULE SettlementProofs --------------------------
(***************************************************************************)
(* Proofs about Settlement, for every bound on requeues, deliveries and    *)
(* lost connections, every number of workers and every set of callers.     *)
(*                                                                         *)
(* The bound on requeues is judged from counters read at delivery, and     *)
(* spent at the broker several steps later.  The invariant says why they   *)
(* are not stale by then: the message is with at most one delivery of the  *)
(* current connection, and nothing changes its counters while it is.       *)
(***************************************************************************)
EXTENDS Settlement, TLAPS

\* The delivery may still get a settlement to the broker.
Live(d) == on[d] = connection /\ (handle[d] = "handling" \/ call[d] = "pending")

\* What the broker's own counters allow now.
Permitted(method) == MaxRequeues # 0 /\ RequeueAllowed(Current, method)

Untouched ==
    \A d \in Deliveries :
        /\ d > count => handle[d] = "none" /\ call[d] = "none"
        /\ on[d] <= connection
        /\ handle[d] = "handling" => call[d] = "none"
        /\ call[d] = "pending" => request[d] \in Requests

Holder ==
    /\ \A d \in Deliveries : d <= count /\ Live(d) => d = count /\ message = "assigned" /\ wire = {}
    /\ wire # {} => message = "assigned"
    /\ \A r, s \in wire : r = s

Fresh ==
    /\ \A d \in Deliveries : handle[d] = "handling" /\ on[d] = connection => seen[d] = Current
    /\ \A d \in Deliveries :
          call[d] = "pending" /\ on[d] = connection /\ request[d].requeue
             => Permitted(request[d].method)
    /\ \A r \in wire : r.requeue => Permitted(r.method)

Accounts ==
    /\ nacks <= requeues /\ requeues <= returns
    /\ requeues <= failures + nacks
    /\ ~queue.acquired /\ nacks # 0 => nacks = 1

Answers ==
    /\ \A d \in Deliveries : handle[d] # "done" => result[d] = "none"
    /\ \A d \in Deliveries : result[d] = "nil" => call[d] = "sent"
    /\ \A w \in Waiters : answer[w] \notin {"none", "context"} => answer[w] = result[target[w]]
    /\ \A w \in Waiters : waiter[w] = "idle" => answer[w] = "none" /\ w \notin late
    /\ \A w \in Waiters : waiter[w] # "done" => answer[w] = "none"
    /\ \A w \in late : result[target[w]] # "none" /\ answer[w] # "context"

Inv == TypeOK /\ Untouched /\ Holder /\ Fresh /\ Accounts /\ RequeuesBounded /\ Answers
-----------------------------------------------------------------------------
USE SettlementAssumption

\* The initial state: nothing delivered, nothing counted.
LEMMA InvInit == Init => Inv
  BY DEF Init, Inv, TypeOK, Untouched, Holder, Fresh, Accounts, RequeuesBounded, Answers, Live,
         Deliveries, Requests, Valid, Delegate, Request, NoRequest, Unseen, Observed, Queues

\* boundedSettlement turns a request into a request, and keeps the requeue only if
\* the delivery's counters allow it.
LEMMA Bounded ==
  ASSUME NEW delivery, NEW requested \in Requests
  PROVE  /\ BoundedSettlement(delivery, requested) \in Requests
         /\ BoundedSettlement(delivery, requested).requeue
               => MaxRequeues # 0 /\ RequeueAllowed(delivery, BoundedSettlement(delivery, requested).method)
<1>1. Request(requested.method, FALSE) \in Requests
  <2>1. requested.method \in {"ack", "nack", "reject"}
    BY DEF Requests, Request
  <2> QED
    BY <2>1, Zenon DEF Requests
<1>2. ~Request(requested.method, FALSE).requeue
  BY DEF Request
<1> QED
  BY <1>1, <1>2 DEF BoundedSettlement

\* Every step keeps the types.
LEMMA TypeNext == TypeOK /\ Untouched /\ [Next]_vars => TypeOK'
<1> SUFFICES ASSUME TypeOK, Untouched, [Next]_vars PROVE TypeOK'
  OBVIOUS
<1> USE DEF TypeOK, Deliveries, broker, handling, waiting
<1>1. CASE Deliver
  <2>1. Current \in Observed
    <3>1. (returns > 0) \in BOOLEAN
      BY SMT
    <3> QED
      BY <3>1, Zenon DEF Current, Observed
  <2>2. count + 1 \in Deliveries
    BY <1>1 DEF Deliver
  <2>3. seen' \in [Deliveries -> Observed]
    BY <1>1, <2>1 DEF Deliver
  <2>4. handle' \in [Deliveries -> {"none", "handling", "settling", "closing", "done"}]
    BY <1>1 DEF Deliver
  <2>5. on' \in [Deliveries -> Nat] /\ count' \in 0..MaxDeliveries /\ message' \in {"ready", "assigned", "gone"}
    BY <1>1, <2>2 DEF Deliver
  <2> QED
    BY <1>1, <2>3, <2>4, <2>5 DEF Deliver
<1>2. CASE ConnectionLost
  BY <1>2 DEF ConnectionLost, LoseConnection
<1>3. ASSUME NEW settlement \in wire, BrokerSettles(settlement) PROVE TypeOK'
  <2>1. CASE settlement.requeue
    BY <1>3, <2>1 DEF BrokerSettles
  <2>2. CASE ~settlement.requeue
    BY <1>3, <2>2 DEF BrokerSettles
  <2> QED
    BY <2>1, <2>2
<1>4. ASSUME NEW d \in Deliveries, HandlerReturns(d) PROVE TypeOK'
  <2>1. Verdicts \ {Delegate} \subseteq Requests
    BY DEF Verdicts, Valid
  <2>2. request' \in [Deliveries -> Requests \cup {NoRequest}]
    <3>1. CASE UNCHANGED request
      BY <3>1
    <3>2. ASSUME NEW requested \in Verdicts \ {Delegate},
                 request' = [request EXCEPT ![d] = BoundedSettlement(seen[d], requested)]
          PROVE  request' \in [Deliveries -> Requests \cup {NoRequest}]
      BY <2>1, <3>2, Bounded
    <3> QED
      BY <1>4, <3>1, <3>2 DEF HandlerReturns
  <2>3. Unseen \in Observed
    BY Zenon DEF Unseen, Observed
  <2>4. seen' \in [Deliveries -> Observed]
    BY <1>4, <2>3 DEF HandlerReturns
  <2>5. handle' \in [Deliveries -> {"none", "handling", "settling", "closing", "done"}]
    BY <1>4 DEF HandlerReturns
  <2>6. call' \in [Deliveries -> {"none", "pending", "sent", "failed"}]
    BY <1>4 DEF HandlerReturns
  <2>7. result' \in [Deliveries -> {"none", "nil", "unavailable", "delegated"}]
    BY <1>4 DEF HandlerReturns
  <2>8. UNCHANGED <<queue, broker, connection, lost, count, on, wire, waiting>>
    BY <1>4, Zenon DEF HandlerReturns
  <2> QED
    BY <2>2, <2>4, <2>5, <2>6, <2>7, <2>8
<1>5. ASSUME NEW d \in Deliveries, Apply(d) PROVE TypeOK'
  <2>1. CASE on[d] = connection
    <3>1. request[d] \in Requests
      BY <1>5 DEF Apply, Untouched
    <3> QED
      BY <1>5, <2>1, <3>1 DEF Apply
  <2>2. CASE on[d] # connection
    BY <1>5, <2>2 DEF Apply
  <2> QED
    BY <2>1, <2>2
<1>6. ASSUME NEW d \in Deliveries, SettleReturns(d) PROVE TypeOK'
  <2>1. handle' \in [Deliveries -> {"none", "handling", "settling", "closing", "done"}]
    BY <1>6 DEF SettleReturns, Settled
  <2>2. result' \in [Deliveries -> {"none", "nil", "unavailable", "delegated"}]
    BY <1>6 DEF SettleReturns, Settled
  <2> QED
    BY <1>6, <2>1, <2>2 DEF SettleReturns
<1>7. ASSUME NEW d \in Deliveries, SettleCloses(d) PROVE TypeOK'
  <2>1. CASE on[d] = connection
    <3>1. LoseConnection /\ lost < MaxLosses
      BY <1>7, <2>1 DEF SettleCloses, Close
    <3>2. message' \in {"ready", "assigned", "gone"} /\ returns' \in Nat /\ failures' \in Nat
      BY <3>1 DEF LoseConnection
    <3>3. /\ requeues' \in Nat /\ nacks' \in Nat /\ wire' \subseteq Requests
          /\ connection' \in Nat /\ lost' \in 0..MaxLosses
      BY <3>1 DEF LoseConnection
    <3> QED
      BY <1>7, <3>2, <3>3 DEF SettleCloses, Settled
  <2>2. CASE on[d] # connection
    BY <1>7, <2>2 DEF SettleCloses, Settled, Close
  <2> QED
    BY <2>1, <2>2
<1>8. ASSUME NEW d \in Deliveries, SettleTimesOut(d) PROVE TypeOK'
  BY <1>8 DEF SettleTimesOut
<1>9. ASSUME NEW w \in Waiters, NEW d \in Deliveries, Await(w, d) PROVE TypeOK'
  <2>1. late' \subseteq Waiters /\ expired' \subseteq Waiters /\ target' \in [Waiters -> Deliveries]
    BY <1>9 DEF Await
  <2>2. /\ answer' \in [Waiters -> {"none", "nil", "unavailable", "delegated", "context"}]
        /\ waiter' \in [Waiters -> {"idle", "selecting", "checking", "done"}]
    <3>1. CASE result[d] # "none"
      <4>1. answer' = [answer EXCEPT ![w] = result[d]] /\ waiter' = [waiter EXCEPT ![w] = "done"]
        BY <1>9, <3>1 DEF Await, Answer
      <4> QED
        BY <4>1
    <3>2. CASE result[d] = "none"
      BY <1>9, <3>2 DEF Await
    <3> QED
      BY <3>1, <3>2
  <2> QED
    BY <1>9, <2>1, <2>2 DEF Await, WaitUnchanged
<1>10. ASSUME NEW w \in Waiters, ContextEnds(w) PROVE TypeOK'
  BY <1>10 DEF ContextEnds, WaitUnchanged
<1>11. ASSUME NEW w \in Waiters, ResultSelected(w) PROVE TypeOK'
  BY <1>11 DEF ResultSelected, Answer, WaitUnchanged
<1>12. ASSUME NEW w \in Waiters, ContextSelected(w) PROVE TypeOK'
  BY <1>12 DEF ContextSelected, WaitUnchanged
<1>13. ASSUME NEW w \in Waiters, ResultOrContext(w) PROVE TypeOK'
  BY <1>13 DEF ResultOrContext, Answer, WaitUnchanged
<1>14. CASE UNCHANGED vars
  BY <1>14 DEF vars
<1> QED
  BY <1>1, <1>2, <1>3, <1>4, <1>5, <1>6, <1>7, <1>8, <1>9, <1>10, <1>11, <1>12, <1>13, <1>14 DEF Next, Process

\* A step of a caller of AwaitSettlement, or of nobody, changes nothing else.
LEMMA WaitingSteps ==
  ASSUME [Next]_vars
  PROVE  \/ Deliver \/ ConnectionLost
         \/ \E settlement \in wire : BrokerSettles(settlement)
         \/ \E d \in Deliveries : Process(d) \/ SettleTimesOut(d)
         \/ WaitUnchanged
<1>1. ASSUME NEW w \in Waiters, NEW d \in Deliveries, Await(w, d) PROVE WaitUnchanged
  BY <1>1 DEF Await
<1>2. ASSUME NEW w \in Waiters, ContextEnds(w) \/ ContextSelected(w) PROVE WaitUnchanged
  BY <1>2 DEF ContextEnds, ContextSelected
<1>3. ASSUME NEW w \in Waiters, ResultSelected(w) \/ ResultOrContext(w) PROVE WaitUnchanged
  BY <1>3 DEF ResultSelected, ResultOrContext
<1>4. ASSUME UNCHANGED vars PROVE WaitUnchanged
  BY <1>4 DEF vars, WaitUnchanged, broker, handling
<1> QED
  BY <1>1, <1>2, <1>3, <1>4 DEF Next

\* Where the message is, with at most one delivery of the current connection.
LEMMA HolderNext == Inv /\ [Next]_vars => (Untouched /\ Holder)'
<1> SUFFICES ASSUME Inv, [Next]_vars PROVE (Untouched /\ Holder)'
  OBVIOUS
<1> USE DEF Inv, TypeOK, Deliveries, broker, handling, waiting, Untouched, Holder, Live
<1>1. CASE Deliver
  BY <1>1 DEF Deliver
<1>2. CASE ConnectionLost
  BY <1>2 DEF ConnectionLost, LoseConnection
<1>3. ASSUME NEW settlement \in wire, BrokerSettles(settlement) PROVE (Untouched /\ Holder)'
  BY <1>3 DEF BrokerSettles
<1>4. ASSUME NEW d \in Deliveries, HandlerReturns(d) PROVE (Untouched /\ Holder)'
  <2>1. Verdicts \ {Delegate} \subseteq Requests
    BY DEF Verdicts, Valid
  <2>2. call'[d] = "pending" => request'[d] \in Requests
    BY <1>4, <2>1, Bounded DEF HandlerReturns
  <2> QED
    BY <1>4, <2>2 DEF HandlerReturns
<1>5. ASSUME NEW d \in Deliveries, Apply(d) PROVE (Untouched /\ Holder)'
  <2>1. CASE on[d] = connection
    <3>1. d <= count /\ Live(d)
      BY <1>5, <2>1 DEF Apply
    <3>2. wire' = {request[d]} /\ message = "assigned"
      BY <1>5, <2>1, <3>1 DEF Apply
    <3> QED
      BY <1>5, <2>1, <3>1, <3>2 DEF Apply
  <2>2. CASE on[d] # connection
    BY <1>5, <2>2 DEF Apply
  <2> QED
    BY <2>1, <2>2
<1>6. ASSUME NEW d \in Deliveries, SettleReturns(d) PROVE (Untouched /\ Holder)'
  BY <1>6 DEF SettleReturns, Settled
<1>7. ASSUME NEW d \in Deliveries, SettleCloses(d) PROVE (Untouched /\ Holder)'
  <2>1. CASE on[d] = connection
    <3>1. LoseConnection
      BY <1>7, <2>1 DEF SettleCloses, Close
    <3>2. Untouched'
      BY <1>7, <3>1 DEF SettleCloses, Settled, LoseConnection
    <3> QED
      BY <1>7, <3>1, <3>2 DEF SettleCloses, Settled, LoseConnection
  <2>2. CASE on[d] # connection
    BY <1>7, <2>2 DEF SettleCloses, Settled, Close
  <2> QED
    BY <2>1, <2>2
<1>8. ASSUME NEW d \in Deliveries, SettleTimesOut(d) PROVE (Untouched /\ Holder)'
  BY <1>8 DEF SettleTimesOut
<1>9. CASE WaitUnchanged
  BY <1>9 DEF WaitUnchanged
<1> QED
  BY WaitingSteps, <1>1, <1>2, <1>3, <1>4, <1>5, <1>6, <1>7, <1>8, <1>9 DEF Process

\* What was read at delivery still holds when it is used.
LEMMA FreshNext == Inv /\ [Next]_vars => Fresh'
<1> SUFFICES ASSUME Inv, [Next]_vars PROVE Fresh'
  OBVIOUS
<1> USE DEF Inv, TypeOK, Deliveries, broker, handling, waiting, Untouched, Holder, Live, Fresh
<1>0. ASSUME UNCHANGED <<queue, returns, failures>>
      PROVE  Current' = Current /\ \A m : Permitted(m)' <=> Permitted(m)
  BY <1>0 DEF Current, Permitted, RequeueAllowed
<1>1. CASE Deliver
  BY <1>1, <1>0 DEF Deliver
<1>2. CASE ConnectionLost
  BY <1>2, <1>0 DEF ConnectionLost, LoseConnection
<1>3. ASSUME NEW settlement \in wire, BrokerSettles(settlement) PROVE Fresh'
  <2>1. wire' = {} /\ UNCHANGED <<on, connection, handle, call, request, seen>>
    BY <1>3 DEF BrokerSettles
  <2>2. \A e \in Deliveries : ~Live(e)
    BY <1>3 DEF Request
  <2> QED
    BY <2>1, <2>2
<1>4. ASSUME NEW d \in Deliveries, HandlerReturns(d) PROVE Fresh'
  <2>1. Verdicts \ {Delegate} \subseteq Requests
    BY DEF Verdicts, Valid
  <2>2. ASSUME call'[d] = "pending", on'[d] = connection', request'[d].requeue
        PROVE  Permitted(request'[d].method)
    <3>1. seen[d] = Current
      BY <1>4, <2>2 DEF HandlerReturns
    <3>2. PICK requested \in Requests : request'[d] = BoundedSettlement(seen[d], requested)
      BY <1>4, <2>1, <2>2 DEF HandlerReturns
    <3> QED
      BY <2>2, <3>1, <3>2, Bounded DEF Permitted
  <2>3. Current' = Current /\ \A m : Permitted(m)' <=> Permitted(m)
    BY <1>4, <1>0 DEF HandlerReturns
  <2>4. \A e \in Deliveries \ {d} : /\ handle'[e] = handle[e] /\ seen'[e] = seen[e]
                                  /\ call'[e] = call[e] /\ request'[e] = request[e]
    BY <1>4 DEF HandlerReturns
  <2>5. handle'[d] # "handling" /\ UNCHANGED <<on, connection, wire>>
    BY <1>4 DEF HandlerReturns
  <2>6. \A e \in Deliveries : (handle[e] = "handling" /\ on[e] = connection => seen[e] = Current)'
    BY <2>3, <2>4, <2>5
  <2>7. \A e \in Deliveries : (call[e] = "pending" /\ on[e] = connection /\ request[e].requeue
                               => Permitted(request[e].method))'
    BY <2>2, <2>3, <2>4, <2>5
  <2>8. (\A r \in wire : r.requeue => Permitted(r.method))'
    BY <2>3, <2>5
  <2> QED
    BY <2>6, <2>7, <2>8
<1>5. ASSUME NEW d \in Deliveries, Apply(d) PROVE Fresh'
  BY <1>5, <1>0 DEF Apply
<1>6. ASSUME NEW d \in Deliveries, SettleReturns(d) PROVE Fresh'
  BY <1>6, <1>0 DEF SettleReturns, Settled
<1>7. ASSUME NEW d \in Deliveries, SettleCloses(d) PROVE Fresh'
  BY <1>7, <1>0 DEF SettleCloses, Settled, Close, LoseConnection
<1>8. ASSUME NEW d \in Deliveries, SettleTimesOut(d) PROVE Fresh'
  BY <1>8, <1>0 DEF SettleTimesOut
<1>9. CASE WaitUnchanged
  BY <1>9, <1>0 DEF WaitUnchanged
<1> QED
  BY WaitingSteps, <1>1, <1>2, <1>3, <1>4, <1>5, <1>6, <1>7, <1>8, <1>9 DEF Process

\* The bound on requeues.
LEMMA AccountsNext == Inv /\ [Next]_vars => (Accounts /\ RequeuesBounded)'
<1> SUFFICES ASSUME Inv, [Next]_vars PROVE (Accounts /\ RequeuesBounded)'
  OBVIOUS
<1> USE DEF Inv, TypeOK, broker, Accounts, RequeuesBounded
<1>1. CASE Deliver
  BY <1>1 DEF Deliver
<1>2. CASE ConnectionLost
  BY <1>2 DEF ConnectionLost, LoseConnection
<1>3. ASSUME NEW settlement \in wire, BrokerSettles(settlement) PROVE (Accounts /\ RequeuesBounded)'
  <2>1. CASE settlement.requeue
    <3>1. Permitted(settlement.method)
      BY <2>1 DEF Fresh
    <3>2. settlement.method \in {"nack", "reject"}
      BY <2>1 DEF Requests, Request
    <3>0. Current.redelivered <=> (returns > 0)
      BY Zenon DEF Current
    <3>3. queue.acquired => returns < MaxRequeues
      BY <3>1 DEF Permitted, RequeueAllowed, Current, Queues
    <3>4. ~queue.acquired /\ settlement.method = "nack" => returns = 0
      BY <3>1, <3>0 DEF Permitted, RequeueAllowed
    <3>5. queue.counted /\ ~queue.acquired /\ settlement.method = "reject" => failures < MaxRequeues
      BY <3>1 DEF Permitted, RequeueAllowed, Current, Queues
    <3>6. ~queue.counted /\ ~queue.acquired => returns = 0
      BY <3>1, <3>0 DEF Permitted, RequeueAllowed
    <3>7. MaxRequeues # 0
      BY <3>1 DEF Permitted
    <3> QED
      BY <1>3, <2>1, <3>2, <3>3, <3>4, <3>5, <3>6, <3>7 DEF BrokerSettles
  <2>2. CASE ~settlement.requeue
    BY <1>3, <2>2 DEF BrokerSettles
  <2> QED
    BY <2>1, <2>2
<1>4. ASSUME NEW d \in Deliveries, HandlerReturns(d) PROVE (Accounts /\ RequeuesBounded)'
  BY <1>4 DEF HandlerReturns
<1>5. ASSUME NEW d \in Deliveries, Apply(d) PROVE (Accounts /\ RequeuesBounded)'
  BY <1>5 DEF Apply
<1>6. ASSUME NEW d \in Deliveries, SettleReturns(d) PROVE (Accounts /\ RequeuesBounded)'
  BY <1>6 DEF SettleReturns, Settled
<1>7. ASSUME NEW d \in Deliveries, SettleCloses(d) PROVE (Accounts /\ RequeuesBounded)'
  <2>1. CASE on[d] = connection
    BY <1>7, <2>1 DEF SettleCloses, Close, LoseConnection
  <2>2. CASE on[d] # connection
    BY <1>7, <2>2 DEF SettleCloses, Close
  <2> QED
    BY <2>1, <2>2
<1>8. ASSUME NEW d \in Deliveries, SettleTimesOut(d) PROVE (Accounts /\ RequeuesBounded)'
  BY <1>8 DEF SettleTimesOut
<1>9. CASE WaitUnchanged
  BY <1>9 DEF WaitUnchanged
<1> QED
  BY WaitingSteps, <1>1, <1>2, <1>3, <1>4, <1>5, <1>6, <1>7, <1>8, <1>9 DEF Process

\* What callers of AwaitSettlement are told.
LEMMA AnswersNext == Inv /\ [Next]_vars => Answers'
<1> SUFFICES ASSUME Inv, [Next]_vars PROVE Answers'
  OBVIOUS
<1> USE DEF Answers, broker, handling, waiting
<1>0. /\ handle \in [Deliveries -> {"none", "handling", "settling", "closing", "done"}]
      /\ result \in [Deliveries -> {"none", "nil", "unavailable", "delegated"}]
      /\ call \in [Deliveries -> {"none", "pending", "sent", "failed"}]
      /\ waiter \in [Waiters -> {"idle", "selecting", "checking", "done"}]
      /\ answer \in [Waiters -> {"none", "nil", "unavailable", "delegated", "context"}]
      /\ target \in [Waiters -> Deliveries]
      /\ late \subseteq Waiters
  BY DEF Inv, TypeOK
<1>a. \A d \in Deliveries : handle[d] = "handling" => call[d] = "none"
  BY DEF Inv, Untouched
<1>b. Answers
  BY DEF Inv
<1>1. CASE Deliver
  <2>1. count + 1 \in Deliveries /\ handle[count + 1] = "none"
    BY <1>1 DEF Deliver, Inv, TypeOK, Deliveries, Untouched
  <2>2. /\ handle' = [handle EXCEPT ![count + 1] = "handling"]
        /\ UNCHANGED <<call, result, waiter, target, late, answer>>
    BY <1>1 DEF Deliver
  <2> QED
    BY <1>0, <1>b, <2>1, <2>2
<1>2. CASE ConnectionLost
  BY <1>2, <1>0, <1>a, <1>b DEF ConnectionLost, LoseConnection
<1>3. ASSUME NEW settlement \in wire, BrokerSettles(settlement) PROVE Answers'
  BY <1>3, <1>0, <1>a, <1>b DEF BrokerSettles
<1>4. ASSUME NEW d \in Deliveries, HandlerReturns(d) PROVE Answers'
  BY <1>4, <1>0, <1>a, <1>b DEF HandlerReturns
<1>5. ASSUME NEW d \in Deliveries, Apply(d) PROVE Answers'
  BY <1>5, <1>0, <1>a, <1>b DEF Apply
<1>6. ASSUME NEW d \in Deliveries, SettleReturns(d) PROVE Answers'
  <2>1. UNCHANGED <<call, waiter, target, late, answer>> /\ handle' = [handle EXCEPT ![d] = "done"]
    BY <1>6 DEF SettleReturns, Settled
  <2>2. result[d] = "none"
    BY <1>0, <1>b, <1>6 DEF SettleReturns
  <2>3. CASE call[d] = "sent" /\ result' = [result EXCEPT ![d] = "nil"]
    BY <1>0, <1>b, <2>1, <2>2, <2>3
  <2>4. CASE result' = [result EXCEPT ![d] = "unavailable"]
    BY <1>0, <1>b, <2>1, <2>2, <2>4
  <2> QED
    BY <1>6, <2>3, <2>4 DEF SettleReturns, Settled
<1>7. ASSUME NEW d \in Deliveries, SettleCloses(d) PROVE Answers'
  <2>1. UNCHANGED <<call, waiter, target, late, answer>> /\ handle' = [handle EXCEPT ![d] = "done"]
    BY <1>7 DEF SettleCloses, Settled
  <2>2. result[d] = "none" /\ result' = [result EXCEPT ![d] = "unavailable"]
    BY <1>0, <1>b, <1>7 DEF SettleCloses, Settled
  <2> QED
    BY <1>0, <1>b, <2>1, <2>2
<1>8. ASSUME NEW d \in Deliveries, SettleTimesOut(d) PROVE Answers'
  BY <1>8, <1>0, <1>a, <1>b DEF SettleTimesOut
<1>9. ASSUME NEW w \in Waiters, NEW d \in Deliveries, Await(w, d) PROVE Answers'
  <2>1. UNCHANGED <<handle, result, call>> /\ target' = [target EXCEPT ![w] = d]
    BY <1>9 DEF Await, WaitUnchanged
  <2>2. waiter[w] = "idle" /\ w \notin late
    BY <1>b, <1>9 DEF Await
  <2>3. CASE result[d] # "none"
    <3>1. /\ answer' = [answer EXCEPT ![w] = result[d]] /\ waiter' = [waiter EXCEPT ![w] = "done"]
          /\ late' = late \cup {w}
      BY <1>9, <2>3 DEF Await, Answer
    <3> QED
      BY <1>0, <1>b, <2>1, <2>2, <2>3, <3>1
  <2>4. CASE result[d] = "none"
    <3>1. /\ waiter' = [waiter EXCEPT ![w] = "selecting"] /\ UNCHANGED <<answer, late>>
      BY <1>9, <2>4 DEF Await
    <3> QED
      BY <1>0, <1>b, <2>1, <2>2, <3>1
  <2> QED
    BY <2>3, <2>4
<1>10. ASSUME NEW w \in Waiters, ContextEnds(w) PROVE Answers'
  BY <1>10, <1>0, <1>a, <1>b DEF ContextEnds, WaitUnchanged
<1>11. ASSUME NEW w \in Waiters, ResultSelected(w) PROVE Answers'
  <2>1. UNCHANGED <<handle, result, call, target, late>> /\ result[target[w]] # "none"
    BY <1>11 DEF ResultSelected, WaitUnchanged
  <2>2. /\ answer' = [answer EXCEPT ![w] = result[target[w]]]
        /\ waiter' = [waiter EXCEPT ![w] = "done"]
    BY <1>11 DEF ResultSelected, Answer
  <2> QED
    BY <1>0, <1>b, <2>1, <2>2
<1>12. ASSUME NEW w \in Waiters, ContextSelected(w) PROVE Answers'
  BY <1>12, <1>0, <1>a, <1>b DEF ContextSelected, WaitUnchanged
<1>13. ASSUME NEW w \in Waiters, ResultOrContext(w) PROVE Answers'
  <2>1. UNCHANGED <<handle, result, call, target, late>>
    BY <1>13 DEF ResultOrContext, WaitUnchanged
  <2>2. waiter' = [waiter EXCEPT ![w] = "done"]
    BY <1>13 DEF ResultOrContext, Answer
  <2>3. CASE result[target[w]] # "none"
    <3>1. answer' = [answer EXCEPT ![w] = result[target[w]]]
      BY <1>13, <2>3 DEF ResultOrContext, Answer
    <3> QED
      BY <1>0, <1>b, <2>1, <2>2, <2>3, <3>1
  <2>4. CASE result[target[w]] = "none"
    <3>1. answer' = [answer EXCEPT ![w] = "context"] /\ w \notin late
      BY <1>b, <1>13, <2>4 DEF ResultOrContext, Answer
    <3> QED
      BY <1>0, <1>b, <2>1, <2>2, <2>4, <3>1
  <2> QED
    BY <2>3, <2>4
<1>14. CASE UNCHANGED vars
  BY <1>14, <1>0, <1>a, <1>b DEF vars
<1> QED
  BY <1>1, <1>2, <1>3, <1>4, <1>5, <1>6, <1>7, <1>8, <1>9, <1>10, <1>11, <1>12, <1>13, <1>14 DEF Next, Process

\* The invariant holds throughout.
LEMMA InvAlways == Spec => []Inv
<1>1. Inv /\ [Next]_vars => Inv'
  BY TypeNext, HolderNext, FreshNext, AccountsNext, AnswersNext DEF Inv
<1> QED
  BY InvInit, <1>1, PTL DEF Spec

-----------------------------------------------------------------------------
(* Theorems.                                                               *)

\* The broker's, handle's and AwaitSettlement's state keeps its types.
THEOREM TypeCorrect == Spec => []TypeOK
<1>1. Inv => TypeOK
  BY DEF Inv
<1> QED
  BY InvAlways, <1>1, PTL

\* For every MaxRequeues, every number of workers and any losses of the
\* connection, the broker is told to put a message back no more often than
\* boundedSettlement allows for the counters its deliveries carry.
THEOREM RequeueBound == Spec => []RequeuesBounded
<1>1. Inv => RequeuesBounded
  BY DEF Inv
<1> QED
  BY InvAlways, <1>1, PTL

\* For every set of callers of AwaitSettlement: nil stands for a client call that
\* succeeded, a context never hides a result that was there before it ended, and all
\* callers for a delivery are told the same result.
THEOREM SettlementResults == Spec => []AnswersTrue
<1>1. Inv => NilMeansSent
  BY DEF Inv, TypeOK, Answers, NilMeansSent
<1>2. Inv => ResultPreferred
  BY DEF Inv, Answers, ResultPreferred
<1>3. Inv => ResultShared
  BY DEF Inv, Answers, ResultShared
<1> QED
  BY InvAlways, <1>1, <1>2, <1>3, PTL DEF AnswersTrue
=============================================================================
