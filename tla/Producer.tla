------------------------------ MODULE Producer ------------------------------
(***************************************************************************)
(* producer.go and the recovery half of producer_open.go: publications     *)
(* that are admitted, serialised by publishMu, registered, sent by a       *)
(* goroutine of their own and settled by the event loop; generations       *)
(* (connection, channel and tracker) that are lost and replaced; and a     *)
(* shutdown that drains, closes and waits for the event loop.              *)
(*                                                                         *)
(* The publishTracker of every generation appears as one set of tracked    *)
(* publications: the tracker of generation g is {p \in tracked :           *)
(* gen[p] = g}, indexed by seq[p].  The return token is session/sequence,  *)
(* so gen[p] and seq[p] name it as well.                                   *)
(***************************************************************************)
EXTENDS Integers, FiniteSets

CONSTANTS Publications,    \* calls of Publish or PublishAsync
          Mandatory,       \* those published with the mandatory flag
          NoPublication,   \* publishMu is free, or no confirm is in hand
          CallsShutdown,   \* whether the application calls Shutdown
          MaxOutstanding,  \* ProducerConfig.MaxOutstanding
          MaxAttempts,     \* Recovery.MaxAttempts; 0 when recovery is nil
          MaxGenerations   \* bound on the generations one behaviour installs

ASSUME ProducerAssumption ==
    /\ IsFiniteSet(Publications)
    /\ Mandatory \subseteq Publications
    /\ NoPublication \notin Publications
    /\ CallsShutdown \in BOOLEAN
    /\ MaxOutstanding \in Nat \ {0}
    /\ MaxAttempts \in Nat
    /\ MaxGenerations \in Nat \ {0}

VARIABLES
    \* one call of publishAdmitted, and the goroutine that sends for it
    pc, gen, seq, send, result,
    \* the trackers of all generations
    tracked, marked, outcome, crossed,
    \* the AMQP channels and the broker (external)
    msg, tag, returns, confirms, published, alive,
    \* per generation: cleanup result, failure signal, asynchronous close
    cleanup, failure, closing,
    \* fields of Producer
    mutex, active, unavailable, recovering, terminal, current, resourceErr,
    \* the event loop and the shutdown
    events, confirming, attempt, shutdown, drained, cause

callVars == <<pc, gen, seq, send, result>>
trackerVars == <<tracked, marked, outcome, crossed>>
brokerVars == <<msg, tag, returns, confirms, published, alive>>
generationVars == <<cleanup, failure, closing>>
stateVars == <<mutex, active, unavailable, recovering, terminal, current, resourceErr>>
eventVars == <<events, confirming, attempt>>
shutdownVars == <<shutdown, drained, cause>>
vars == <<callVars, trackerVars, brokerVars, generationVars, stateVars,
          eventVars, shutdownVars>>

Generations == 1..MaxGenerations
LocalStates == {"notSent", "ambiguous"}
PublishStates == LocalStates \cup {"confirmed", "rejected", "returned"}

\* Where a call is: Idle before admission, the rest in program order.
Critical == {"locked", "available", "reserved", "registered", "sending"}
Active == Critical \cup {"locking", "abandoning", "erring", "waiting", "releasing"}
CallPoints == Active \cup {"idle", "done"}

EventPoints == {"running", "confirming", "failing", "failAll", "closing", "recovering",
                "installing", "recovered", "exhausted", "done"}
ShutdownPoints == {"open", "draining", "closing", "stopping", "waiting", "done"}

TypeOK ==
    /\ pc \in [Publications -> CallPoints]
    /\ gen \in [Publications -> 0..MaxGenerations]
    /\ seq \in [Publications -> Nat]
    /\ send \in [Publications -> {"none", "pending", "ok", "preflight", "error"}]
    /\ result \in [Publications -> PublishStates \cup {"none"}]
    /\ tracked \subseteq Publications
    /\ marked \subseteq Publications
    /\ outcome \in [Publications -> PublishStates \cup {"none"}]
    /\ crossed \subseteq Publications
    /\ msg \in [Publications ->
                  {"unsent", "wire", "acked", "nacked", "returned", "returnAcked"}]
    /\ tag \in [Publications -> Nat]
    /\ returns \subseteq Publications
    /\ confirms \subseteq Publications
    /\ published \in [Generations -> Nat]
    /\ alive \in [Generations -> BOOLEAN]
    /\ cleanup \in [Generations -> {"open", "clean", "failed"}]
    /\ failure \in [Generations -> BOOLEAN]
    /\ closing \subseteq Generations
    /\ mutex \in Publications \cup {NoPublication}
    /\ active \in Nat
    /\ unavailable \in BOOLEAN
    /\ recovering \in BOOLEAN
    /\ terminal \in BOOLEAN
    /\ current \in Generations
    /\ resourceErr \in BOOLEAN
    /\ events \in EventPoints
    /\ confirming \in Publications \cup {NoPublication}
    /\ attempt \in 0..MaxAttempts
    /\ shutdown \in ShutdownPoints
    /\ drained \in BOOLEAN
    /\ cause \in {"none", "drained", "expired"}

\* The lifecycle flags follow from how far finishShutdown has come.
Closed == shutdown # "open"
ShutdownClosing == shutdown \in {"closing", "stopping", "waiting", "done"}
Stopped == shutdown = "done"

EventsStopped == shutdown \in {"stopping", "waiting", "done"}

\* newProducer, or openProducerWith after a first successful dial.
Init ==
    /\ pc = [p \in Publications |-> "idle"]
    /\ gen = [p \in Publications |-> 0]
    /\ seq = [p \in Publications |-> 0]
    /\ send = [p \in Publications |-> "none"]
    /\ result = [p \in Publications |-> "none"]
    /\ tracked = {} /\ marked = {} /\ crossed = {}
    /\ outcome = [p \in Publications |-> "none"]
    /\ msg = [p \in Publications |-> "unsent"]
    /\ tag = [p \in Publications |-> 0]
    /\ returns = {} /\ confirms = {}
    /\ published = [g \in Generations |-> 0]
    /\ alive = [g \in Generations |-> g = 1]
    /\ cleanup = [g \in Generations |-> "open"]
    /\ failure = [g \in Generations |-> FALSE]
    /\ closing = {}
    /\ mutex = NoPublication /\ active = 0
    /\ unavailable = FALSE /\ recovering = FALSE /\ terminal = FALSE
    /\ current = 1 /\ resourceErr = FALSE
    /\ events = "running" /\ confirming = NoPublication /\ attempt = 0
    /\ shutdown = "open" /\ drained = FALSE /\ cause = "none"

-----------------------------------------------------------------------------
(* The tracker of generation g.                                            *)

Tracker(g) == {q \in tracked : gen[q] = g}

\* The attempt registered under a sequence number, as a set of at most one.
Holder(g, n) == {q \in Tracker(g) : seq[q] = n}

\* Mutant: both indexes lose the attempt and nothing is sent on its channel.
CompleteSilently(S, state) ==
    /\ tracked' = tracked \ S
    /\ marked' = marked \ S
    /\ UNCHANGED outcome

\* complete, for every attempt of S.
Complete(S, state) ==
    /\ tracked' = tracked \ S
    /\ marked' = marked \ S
    /\ outcome' = [q \in Publications |-> IF q \in S THEN state ELSE outcome[q]]

\* abandon, called by p.  crossed records, for the properties only, attempts
\* that something belonging to another publication completed or marked.
Abandon(p, state) ==
    /\ Complete(Holder(gen[p], seq[p]), state)
    /\ crossed' = crossed \cup (Holder(gen[p], seq[p]) \ {p})

\* failAll(PublishAmbiguous) on the tracker of the current generation.
FailAll ==
    /\ Complete(Tracker(current), "ambiguous")
    /\ UNCHANGED crossed

(* Fields guarded by stateMu.                                              *)

\* Mutant: new calls are not refused while a generation is replaced.
MarkRecoveringOnly ==
    /\ recovering' = (recovering \/ ~Closed)
    /\ UNCHANGED unavailable

MarkRecovering ==
    /\ unavailable' = (unavailable \/ (~Closed /\ ~recovering))
    /\ recovering' = (recovering \/ ~Closed)

\* failGeneration, by a caller that holds publishMu.
FailGeneration(p) ==
    IF gen[p] = current
    THEN MarkRecovering /\ failure' = [failure EXCEPT ![current] = TRUE]
    ELSE UNCHANGED <<unavailable, recovering, failure>>

\* Mutant: every call runs the cleanup again and overwrites its result.
CloseGenerationAgain(g, ending) ==
    /\ alive' = [alive EXCEPT ![g] = FALSE]
    /\ cleanup' = [cleanup EXCEPT ![g] = ending]

\* closeProducerGeneration: the first call decides the retained result.
CloseGeneration(g, ending) ==
    /\ alive' = [alive EXCEPT ![g] = FALSE]
    /\ cleanup' = [cleanup EXCEPT ![g] = IF @ = "open" THEN ending ELSE @]

-----------------------------------------------------------------------------
(* Publish and PublishAsync: one call, in program order.                   *)

At(p, point) == pc[p] = point
Goto(p, point) == pc' = [pc EXCEPT ![p] = point]

\* The call ends with a result of its own; release follows.
Answer(p, state) ==
    /\ result' = [result EXCEPT ![p] = state]
    /\ Goto(p, "releasing")

WindowFull == active >= MaxOutstanding

\* admit accepts.
Admit(p) ==
    /\ At(p, "idle")
    /\ ~Closed /\ ~unavailable
    /\ ~WindowFull
    /\ active' = active + 1
    /\ Goto(p, "locking")
    /\ UNCHANGED <<gen, seq, send, result, trackerVars, brokerVars, generationVars, mutex,
                   unavailable, recovering, terminal, current, resourceErr, eventVars,
                   shutdownVars>>

\* admit refuses: closed, unavailable, or a full window.
Refuse(p) ==
    /\ At(p, "idle")
    /\ Closed \/ unavailable \/ WindowFull
    /\ result' = [result EXCEPT ![p] = "notSent"]
    /\ Goto(p, "done")
    /\ UNCHANGED <<gen, seq, send, trackerVars, brokerVars, generationVars, stateVars,
                   eventVars, shutdownVars>>

\* The context ends before publishMu is held.
GiveUpLock(p) ==
    /\ At(p, "locking")
    /\ Answer(p, "notSent")
    /\ UNCHANGED <<gen, seq, send, trackerVars, brokerVars, generationVars, stateVars,
                   eventVars, shutdownVars>>

\* LockContext and the first isShutdownClosing.
Lock(p) ==
    /\ At(p, "locking")
    /\ mutex = NoPublication
    /\ \/ /\ ShutdownClosing
          /\ Answer(p, "notSent")
          /\ UNCHANGED mutex
       \/ /\ ~ShutdownClosing
          /\ mutex' = p
          /\ Goto(p, "locked")
          /\ UNCHANGED result
    /\ UNCHANGED <<gen, seq, send, trackerVars, brokerVars, generationVars, active,
                   unavailable, recovering, terminal, current, resourceErr, eventVars,
                   shutdownVars>>

\* isUnavailable, then the snapshot of the generation publishMu protects.
CheckAvailable(p) ==
    /\ At(p, "locked")
    /\ \/ /\ unavailable
          /\ Answer(p, "notSent")
          /\ mutex' = NoPublication
          /\ UNCHANGED gen
       \/ /\ ~unavailable
          /\ gen' = [gen EXCEPT ![p] = current]
          /\ Goto(p, "available")
          /\ UNCHANGED <<mutex, result>>
    /\ UNCHANGED <<seq, send, trackerVars, brokerVars, generationVars, active,
                   unavailable, recovering, terminal, current, resourceErr, eventVars,
                   shutdownVars>>

\* GetNextPublishSeqNo: the number is read, not reserved, until a send uses it.
Reserve(p) ==
    /\ At(p, "available")
    /\ seq' = [seq EXCEPT ![p] = published[gen[p]] + 1]
    /\ Goto(p, "reserved")
    /\ UNCHANGED <<gen, send, result, trackerVars, brokerVars, generationVars, stateVars,
                   eventVars, shutdownVars>>

\* tracker.register.
Register(p) ==
    /\ At(p, "reserved")
    /\ \/ /\ \/ Cardinality(Tracker(gen[p])) >= MaxOutstanding
             \/ Holder(gen[p], seq[p]) # {}
          /\ Answer(p, "notSent")
          /\ mutex' = NoPublication
          /\ UNCHANGED tracked
       \/ /\ Cardinality(Tracker(gen[p])) < MaxOutstanding
          /\ Holder(gen[p], seq[p]) = {}
          /\ tracked' = tracked \cup {p}
          /\ Goto(p, "registered")
          /\ UNCHANGED <<mutex, result>>
    /\ UNCHANGED <<gen, seq, send, marked, outcome, crossed, brokerVars, generationVars,
                   active, unavailable, recovering, terminal, current, resourceErr,
                   eventVars, shutdownVars>>

\* The second isShutdownClosing is the commit point: past it a goroutine sends.
Commit(p) ==
    /\ At(p, "registered")
    /\ \/ /\ ShutdownClosing
          /\ Abandon(p, "notSent")
          /\ mutex' = NoPublication
          /\ Answer(p, "notSent")
          /\ UNCHANGED send
       \/ /\ ~ShutdownClosing
          /\ send' = [send EXCEPT ![p] = "pending"]
          /\ Goto(p, "sending")
          /\ UNCHANGED <<trackerVars, mutex, result>>
    /\ UNCHANGED <<gen, seq, brokerVars, generationVars, active, unavailable, recovering,
                   terminal, current, resourceErr, eventVars, shutdownVars>>

\* The send goroutine has answered: wait, or classify its error, and unlock.
SendReturned(p) ==
    /\ At(p, "sending")
    /\ \/ /\ send[p] = "ok"
          /\ Goto(p, "waiting")
          /\ UNCHANGED <<unavailable, recovering, failure>>
       \/ /\ send[p] = "preflight"
          /\ Goto(p, "abandoning")
          /\ UNCHANGED <<unavailable, recovering, failure>>
       \/ /\ send[p] = "error"
          /\ FailGeneration(p)
          /\ Goto(p, "erring")
    /\ mutex' = NoPublication
    /\ send' = [send EXCEPT ![p] = "none"]
    /\ UNCHANGED <<gen, seq, result, trackerVars, brokerVars, cleanup, closing, active,
                   terminal, current, resourceErr, eventVars, shutdownVars>>

\* Mutant: a call whose context ends during the send keeps publishMu.
TransmissionTimeoutLocked(p) ==
    /\ At(p, "sending")
    /\ send[p] = "pending"
    /\ FailGeneration(p)
    /\ closing' = closing \cup {gen[p]}
    /\ Goto(p, "erring")
    /\ UNCHANGED <<gen, seq, send, result, trackerVars, brokerVars, cleanup, mutex, active,
                   terminal, current, resourceErr, eventVars, shutdownVars>>

\* The context ends first: the generation is condemned and closed in the
\* background while the send goroutine is still out.
TransmissionTimeout(p) ==
    /\ At(p, "sending")
    /\ send[p] = "pending"
    /\ FailGeneration(p)
    /\ closing' = closing \cup {gen[p]}
    /\ mutex' = NoPublication
    /\ Goto(p, "erring")
    /\ UNCHANGED <<gen, seq, send, result, trackerVars, brokerVars, cleanup, active,
                   terminal, current, resourceErr, eventVars, shutdownVars>>

\* Preflight cancellation: the result of abandon is not looked at.
AbandonPreflight(p) ==
    /\ At(p, "abandoning")
    /\ Abandon(p, "notSent")
    /\ Answer(p, "notSent")
    /\ UNCHANGED <<gen, seq, send, brokerVars, generationVars, stateVars, eventVars,
                   shutdownVars>>

\* completePublishError: an outcome that arrived first wins over the error.
CompletePublishError(p) ==
    /\ At(p, "erring")
    /\ \/ /\ Holder(gen[p], seq[p]) # {}
          /\ Abandon(p, "ambiguous")
          /\ Answer(p, "ambiguous")
       \/ /\ Holder(gen[p], seq[p]) = {}
          /\ outcome[p] # "none"
          /\ Answer(p, outcome[p])
          /\ UNCHANGED trackerVars
    /\ UNCHANGED <<gen, seq, send, brokerVars, generationVars, stateVars, eventVars,
                   shutdownVars>>

\* waitForOutcome receives the outcome.
TakeOutcome(p) ==
    /\ At(p, "waiting")
    /\ outcome[p] # "none"
    /\ Answer(p, outcome[p])
    /\ UNCHANGED <<gen, seq, send, trackerVars, brokerVars, generationVars, stateVars,
                   eventVars, shutdownVars>>

\* waitForOutcome's context ends: outcomeOrCancellation abandons the attempt.
WaitExpired(p) ==
    /\ At(p, "waiting")
    /\ outcome[p] = "none"
    /\ Holder(gen[p], seq[p]) # {}
    /\ Abandon(p, "ambiguous")
    /\ Answer(p, "ambiguous")
    /\ UNCHANGED <<gen, seq, send, brokerVars, generationVars, stateVars, eventVars,
                   shutdownVars>>

\* release.
Release(p) ==
    /\ At(p, "releasing")
    /\ active' = active - 1
    /\ drained' = (drained \/ (Closed /\ active' = 0))
    /\ Goto(p, "done")
    /\ UNCHANGED <<gen, seq, send, result, trackerVars, brokerVars, generationVars, mutex,
                   unavailable, recovering, terminal, current, resourceErr, eventVars,
                   shutdown, cause>>

-----------------------------------------------------------------------------
(* The client library and the broker (external).  The goroutine that calls *)
(* PublishWithContext may outlive its caller.  Notifications wait in       *)
(* buffers of MaxOutstanding; a return precedes the confirm of its message.*)

BrokerUnchanged ==
    UNCHANGED <<pc, gen, seq, result, trackerVars, generationVars, stateVars, eventVars,
                shutdownVars>>

\* The goroutine answers its caller; nobody reads the answer of an orphan.
SendAnswer(p, answer) ==
    send' = [send EXCEPT ![p] = IF At(p, "sending") THEN answer ELSE "none"]

\* The message goes out under the channel's next sequence number; the call may
\* report an error even so.
Transmit(p) ==
    /\ send[p] = "pending"
    /\ alive[gen[p]]
    /\ published' = [published EXCEPT ![gen[p]] = @ + 1]
    /\ tag' = [tag EXCEPT ![p] = published[gen[p]] + 1]
    /\ msg' = [msg EXCEPT ![p] = "wire"]
    /\ \E answer \in {"ok", "error"} : SendAnswer(p, answer)
    /\ UNCHANGED <<returns, confirms, alive>>
    /\ BrokerUnchanged

\* The client refuses before transmission: a context error or any other.
SendRefused(p) ==
    /\ send[p] = "pending"
    /\ \E answer \in {"preflight", "error"} : SendAnswer(p, answer)
    /\ UNCHANGED brokerVars
    /\ BrokerUnchanged

Buffered(S, g) == Cardinality({q \in S : gen[q] = g})

\* basic.ack or basic.nack of a message the broker did not return.
BrokerConfirm(p) ==
    /\ msg[p] = "wire" /\ alive[gen[p]]
    /\ Buffered(confirms, gen[p]) < MaxOutstanding
    /\ \E verdict \in {"acked", "nacked"} : msg' = [msg EXCEPT ![p] = verdict]
    /\ confirms' = confirms \cup {p}
    /\ UNCHANGED <<tag, returns, published, alive, send>>
    /\ BrokerUnchanged

\* basic.return of an unroutable mandatory message ...
BrokerReturn(p) ==
    /\ p \in Mandatory
    /\ msg[p] = "wire" /\ alive[gen[p]]
    /\ Buffered(returns, gen[p]) < MaxOutstanding
    /\ msg' = [msg EXCEPT ![p] = "returned"]
    /\ returns' = returns \cup {p}
    /\ UNCHANGED <<tag, confirms, published, alive, send>>
    /\ BrokerUnchanged

\* ... which is acknowledged afterwards.
BrokerConfirmReturned(p) ==
    /\ msg[p] = "returned" /\ alive[gen[p]]
    /\ Buffered(confirms, gen[p]) < MaxOutstanding
    /\ msg' = [msg EXCEPT ![p] = "returnAcked"]
    /\ confirms' = confirms \cup {p}
    /\ UNCHANGED <<tag, returns, published, alive, send>>
    /\ BrokerUnchanged

ConnectionLost(g) ==
    /\ alive[g]
    /\ alive' = [alive EXCEPT ![g] = FALSE]
    /\ UNCHANGED <<msg, tag, returns, confirms, published, send>>
    /\ BrokerUnchanged

-----------------------------------------------------------------------------
(* The event loop: runGeneration, then recovery.                           *)

EventsGoto(point) == events' = point

\* applyReturn for every return of R: a token that no attempt holds fails the
\* generation, so nothing learned from R matters then.
ApplyReturns(R) ==
    /\ returns' = returns \ R
    /\ marked' = marked \cup UNION {Holder(gen[r], seq[r]) : r \in R}
    /\ crossed' = crossed \cup UNION {Holder(gen[r], seq[r]) \ {r} : r \in R}
    /\ UNCHANGED <<tracked, outcome>>

Correlated(R) == \A r \in R : Holder(gen[r], seq[r]) # {}

ReceiveReturn(r) ==
    /\ events = "running"
    /\ r \in returns /\ gen[r] = current
    /\ ApplyReturns({r})
    /\ EventsGoto(IF Correlated({r}) THEN "running" ELSE "failing")
    /\ UNCHANGED <<callVars, msg, tag, confirms, published, alive, generationVars,
                   stateVars, confirming, attempt, shutdownVars>>

\* Mutant: returns that are already waiting are not looked at.
DrainedReturnsNone == {}

\* drainReturns takes every return that is waiting.
DrainedReturns == {r \in returns : gen[r] = current}

\* A confirm is taken and drainReturns runs before the tracker sees it.
ReceiveConfirm(c) ==
    /\ events = "running"
    /\ c \in confirms /\ gen[c] = current
    /\ confirms' = confirms \ {c}
    /\ ApplyReturns(DrainedReturns)
    /\ \/ /\ Correlated(DrainedReturns)
          /\ EventsGoto("confirming")
          /\ confirming' = c
       \/ /\ ~Correlated(DrainedReturns)
          /\ EventsGoto("failing")
          /\ UNCHANGED confirming
    /\ UNCHANGED <<callVars, msg, tag, published, alive, generationVars, stateVars,
                   attempt, shutdownVars>>

\* Mutant: a confirm is believed whether or not the message was returned.
ConfirmStateIgnoringReturn(H, c) ==
    IF msg[c] = "nacked" THEN "rejected" ELSE "confirmed"

\* A correlated return wins over either kind of confirm.
ConfirmState(H, c) ==
    IF H \subseteq marked THEN "returned"
    ELSE IF msg[c] = "nacked" THEN "rejected" ELSE "confirmed"

\* tracker.confirm, under the delivery tag the broker confirmed.
ApplyConfirm ==
    /\ events = "confirming"
    /\ LET c == confirming
           H == Holder(gen[c], tag[c])
       IN  /\ Complete(H, ConfirmState(H, c))
           /\ crossed' = crossed \cup (H \ {c})
    /\ confirming' = NoPublication
    /\ EventsGoto("running")
    /\ UNCHANGED <<callVars, brokerVars, generationVars, stateVars, attempt,
                   shutdownVars>>

\* connectionClosed, or the drained confirms channel, reports a dead connection.
NoticeLoss ==
    /\ events = "running"
    /\ ~alive[current]
    /\ EventsGoto("failing")
    /\ UNCHANGED <<callVars, trackerVars, brokerVars, generationVars, stateVars,
                   confirming, attempt, shutdownVars>>

NoticeFailure ==
    /\ events = "running"
    /\ failure[current]
    /\ failure' = [failure EXCEPT ![current] = FALSE]
    /\ EventsGoto("failing")
    /\ UNCHANGED <<callVars, trackerVars, brokerVars, cleanup, closing, stateVars,
                   confirming, attempt, shutdownVars>>

\* eventsContext is done.
NoticeStop ==
    /\ events = "running"
    /\ EventsStopped
    /\ FailAll
    /\ EventsGoto("done")
    /\ UNCHANGED <<callVars, brokerVars, generationVars, stateVars, confirming, attempt,
                   shutdownVars>>

BeginRecovery ==
    /\ events = "failing"
    /\ MarkRecovering
    /\ EventsGoto("failAll")
    /\ UNCHANGED <<callVars, trackerVars, brokerVars, generationVars, mutex, active,
                   terminal, current, resourceErr, confirming, attempt, shutdownVars>>

FailPending ==
    /\ events = "failAll"
    /\ FailAll
    /\ EventsGoto("closing")
    /\ UNCHANGED <<callVars, brokerVars, generationVars, stateVars, confirming, attempt,
                   shutdownVars>>

\* closeProducerGeneration, whose result is retained but not looked at here, and
\* the drain of the failure signal.
CloseFailed ==
    /\ events = "closing"
    /\ \E ending \in {"clean", "failed"} : CloseGeneration(current, ending)
    /\ failure' = [failure EXCEPT ![current] = FALSE]
    /\ EventsGoto("recovering")
    /\ UNCHANGED <<callVars, trackerVars, msg, tag, returns, confirms, published, closing,
                   stateVars, confirming, attempt, shutdownVars>>

\* recoverRuntime gives up: out of attempts, or the lifetime has ended.
GiveUpRecovery ==
    /\ events = "recovering"
    /\ attempt = MaxAttempts \/ EventsStopped
    /\ attempt' = 0
    /\ EventsGoto("exhausted")
    /\ UNCHANGED <<callVars, trackerVars, brokerVars, generationVars, stateVars,
                   confirming, shutdownVars>>

\* Credentials, session, dial or channel setup fail; what was opened is closed.
AttemptFails ==
    /\ events = "recovering"
    /\ attempt < MaxAttempts /\ ~EventsStopped
    /\ attempt' = attempt + 1
    /\ UNCHANGED <<callVars, trackerVars, brokerVars, generationVars, stateVars, events,
                   confirming, shutdownVars>>

\* A fresh connection and confirm channel exist, not yet owned by the producer.
AttemptSucceeds ==
    /\ events = "recovering"
    /\ attempt < MaxAttempts /\ ~EventsStopped
    /\ current < MaxGenerations
    /\ alive' = [alive EXCEPT ![current + 1] = TRUE]
    /\ attempt' = 0
    /\ EventsGoto("installing")
    /\ UNCHANGED <<callVars, trackerVars, msg, tag, returns, confirms, published,
                   generationVars, stateVars, confirming, shutdownVars>>

\* Mutant: the new generation is owned although Shutdown has begun.
InstallGenerationClosed ==
    /\ current' = current + 1
    /\ unavailable' = FALSE /\ recovering' = FALSE
    /\ EventsGoto("recovered")
    /\ UNCHANGED <<alive, callVars, trackerVars, msg, tag, returns, confirms, published,
                   generationVars, mutex, active, terminal, resourceErr, confirming, attempt,
                   shutdownVars>>

\* Under stateMu: own the new generation, or discard it.
InstallGeneration ==
    /\ \/ /\ Closed
          /\ alive' = [alive EXCEPT ![current + 1] = FALSE]
          /\ EventsGoto("exhausted")
          /\ UNCHANGED <<current, unavailable, recovering>>
       \/ /\ ~Closed
          /\ current' = current + 1
          /\ unavailable' = FALSE /\ recovering' = FALSE
          /\ EventsGoto("recovered")
          /\ UNCHANGED alive
    /\ UNCHANGED <<callVars, trackerVars, msg, tag, returns, confirms, published,
                   generationVars, mutex, active, terminal, resourceErr, confirming, attempt,
                   shutdownVars>>

\* Mutant: publishMu is not held while the generation is replaced.
InstallUnlocked ==
    /\ events = "installing"
    /\ InstallGeneration

\* Under publishMu, so that no call is between its snapshot and its send.
Install ==
    /\ events = "installing"
    /\ mutex = NoPublication
    /\ InstallGeneration

\* Mutant: exhausted recovery leaves the producer neither usable nor terminal.
FinishRecoveryUndecided ==
    /\ events \in {"recovered", "exhausted"}
    /\ recovering' = FALSE
    /\ EventsGoto(IF events = "recovered" THEN "running" ELSE "done")
    /\ UNCHANGED <<callVars, trackerVars, brokerVars, generationVars, mutex, active,
                   unavailable, terminal, current, resourceErr, confirming, attempt,
                   shutdownVars>>

\* finishRecovery, and then the next runGeneration or the end of runEvents.
FinishRecovery ==
    /\ events \in {"recovered", "exhausted"}
    /\ recovering' = FALSE
    /\ terminal' = (terminal \/ (events = "exhausted" /\ ~Closed))
    /\ EventsGoto(IF events = "recovered" THEN "running" ELSE "done")
    /\ UNCHANGED <<callVars, trackerVars, brokerVars, generationVars, mutex, active,
                   unavailable, current, resourceErr, confirming, attempt, shutdownVars>>

\* The goroutine TransmissionTimeout starts.
AsyncClose(g) ==
    /\ g \in closing
    /\ \E ending \in {"clean", "failed"} : CloseGeneration(g, ending)
    /\ closing' = closing \ {g}
    /\ UNCHANGED <<callVars, trackerVars, msg, tag, returns, confirms, published, failure,
                   stateVars, eventVars, shutdownVars>>

-----------------------------------------------------------------------------
(* Shutdown and finishShutdown.                                            *)

ShutdownUnchanged ==
    UNCHANGED <<callVars, trackerVars, msg, tag, returns, confirms, published, failure,
                closing, mutex, active, unavailable, recovering, terminal, current,
                eventVars>>

\* Mutant: Shutdown takes the producer for drained whatever is active.
StartShutdownDrained ==
    /\ CallsShutdown
    /\ shutdown = "open"
    /\ shutdown' = "draining"
    /\ drained' = TRUE
    /\ UNCHANGED <<cause, alive, cleanup, resourceErr>>
    /\ ShutdownUnchanged

StartShutdown ==
    /\ CallsShutdown
    /\ shutdown = "open"
    /\ shutdown' = "draining"
    /\ drained' = (active = 0)
    /\ UNCHANGED <<cause, alive, cleanup, resourceErr>>
    /\ ShutdownUnchanged

\* The wait ends because active calls drained, or expires: the timer fires, or a
\* caller of Shutdown whose context has ended closes shutdownForce.  Then
\* shutdownClosing is set.
EndDrain ==
    /\ shutdown = "draining"
    /\ \/ drained /\ cause' = "drained"
       \/ cause' = "expired"
    /\ shutdown' = "closing"
    /\ UNCHANGED <<drained, alive, cleanup, resourceErr>>
    /\ ShutdownUnchanged

\* closeOwnedResources: stopEvents ...
StopEvents ==
    /\ shutdown = "closing"
    /\ shutdown' = "stopping"
    /\ UNCHANGED <<drained, cause, alive, cleanup, resourceErr>>
    /\ ShutdownUnchanged

\* ... closeCurrentGeneration, which reports the retained result ...
CloseCurrent ==
    /\ shutdown = "stopping"
    /\ \E ending \in {"clean", "failed"} : CloseGeneration(current, ending)
    /\ resourceErr' = (cleanup'[current] = "failed")
    /\ shutdown' = "waiting"
    /\ UNCHANGED <<drained, cause>>
    /\ ShutdownUnchanged

\* ... and the wait for the event loop; then shutdownDone is closed.
FinishShutdown ==
    /\ shutdown = "waiting"
    /\ events = "done"
    /\ shutdown' = "done"
    /\ UNCHANGED <<drained, cause, alive, cleanup, resourceErr>>
    /\ ShutdownUnchanged

-----------------------------------------------------------------------------
Call(p) ==
    \/ Lock(p) \/ GiveUpLock(p) \/ CheckAvailable(p) \/ Reserve(p) \/ Register(p)
    \/ Commit(p) \/ SendReturned(p) \/ TransmissionTimeout(p) \/ AbandonPreflight(p)
    \/ CompletePublishError(p) \/ TakeOutcome(p) \/ WaitExpired(p) \/ Release(p)

Broker(p) ==
    Transmit(p) \/ SendRefused(p) \/ BrokerConfirm(p) \/ BrokerReturn(p)
    \/ BrokerConfirmReturned(p)

EventLoop ==
    \/ \E p \in Publications : ReceiveReturn(p) \/ ReceiveConfirm(p)
    \/ ApplyConfirm \/ NoticeLoss \/ NoticeFailure \/ NoticeStop
    \/ BeginRecovery \/ FailPending \/ CloseFailed
    \/ GiveUpRecovery \/ AttemptFails \/ AttemptSucceeds \/ Install \/ FinishRecovery

ShutdownSteps == EndDrain \/ StopEvents \/ CloseCurrent \/ FinishShutdown

Next ==
    \/ \E p \in Publications : Admit(p) \/ Refuse(p) \/ Call(p) \/ Broker(p)
    \/ \E g \in Generations : ConnectionLost(g) \/ AsyncClose(g)
    \/ EventLoop
    \/ StartShutdown \/ ShutdownSteps

Spec == Init /\ [][Next]_vars

\* Every admitted call and every background step keeps moving: each wait is
\* bounded by PublishTimeout, DialTimeout or the shutdown timer, so some branch of
\* its select is eventually taken.  Callers, the broker, the connection and the
\* send goroutine owe nothing.
Fairness ==
    /\ \A p \in Publications : WF_vars(Call(p))
    /\ WF_vars(EventLoop)
    /\ WF_vars(ShutdownSteps)

FairSpec == Spec /\ Fairness

-----------------------------------------------------------------------------
(* Properties.                                                             *)

\* Definitive results tell the truth about this very message: confirmed only if
\* the broker acked it and did not return it, rejected only if it was nacked,
\* returned only if it was returned (publishAdmitted, runGenerationWith, confirm).
BrokerResultsTrue ==
    \A p \in Publications :
        /\ result[p] = "confirmed" => msg[p] = "acked"
        /\ result[p] = "rejected" => msg[p] = "nacked"
        /\ result[p] = "returned" => msg[p] = "returnAcked"

\* "not sent" means the message has not left, then or at any later time
\* (result.go:8, PublishNotSent).
NotSentNeverSent ==
    \A p \in Publications : result[p] = "notSent" => msg[p] = "unsent"

\* Both of the above, for publications whose attempt nothing belonging to another
\* publication has touched.
UncrossedResultsTrue ==
    \A p \in Publications \ crossed :
        /\ result[p] = "confirmed" => msg[p] = "acked"
        /\ result[p] = "rejected" => msg[p] = "nacked"
        /\ result[p] = "returned" => msg[p] = "returnAcked"
        /\ result[p] = "notSent" => msg[p] = "unsent"

\* active counts exactly the calls between admit and release, never exceeds
\* MaxOutstanding, and bounds the trackers: register never meets a full tracker
\* (admit, release, register).  Proved, for more callers than TLC could explore.
WindowBound ==
    /\ active = Cardinality({p \in Publications : pc[p] \in Active})
    /\ active <= MaxOutstanding
    /\ \A p \in tracked : pc[p] \in Active
    /\ \A p \in Publications :
           pc[p] = "reserved" => Cardinality(Tracker(gen[p])) < MaxOutstanding

\* No call waits in vain: one that waits for its outcome, or looks for it after an
\* error, has it waiting in its channel, or has its attempt in a tracker, where the
\* event loop, Shutdown or the call itself will complete it, and never both; whoever
\* completes an attempt sends its outcome once (complete, completePublishError,
\* outcomeOrCancellation).
NoWaitInVain ==
    \A p \in Publications :
        pc[p] \in {"erring", "waiting"} => (p \in tracked <=> outcome[p] = "none")

\* A call that holds publishMu works on the current generation until its send is
\* over: recovery cannot replace channel and tracker under it
\* (producer.go:376, "prevents an admitted caller from borrowing").
NoStaleGeneration ==
    \A p \in Publications :
        pc[p] \in {"available", "reserved", "registered", "sending"} =>
            mutex = p /\ gen[p] = current

\* From the failure of a generation until its replacement is installed no new
\* call is admitted (runEvents, markRecovering, recoverRuntime).
RejectsWhileRecovering ==
    events \in {"failAll", "closing", "recovering", "installing"} => unavailable \/ Closed

\* When Shutdown has completed, no connection is left open, neither an old one
\* nor one that recovery was about to install, and the event loop has ended.
StoppedOwnsNothing ==
    Stopped => events = "done" /\ \A g \in Generations : ~alive[g]

\* Shutdown reports a failed cleanup of the generation it leaves behind, whoever
\* ran that cleanup first: the event loop, a timed-out call or Shutdown itself
\* (docs/guarantees.md, "Shutdown cannot report success").
CleanupResultRetained ==
    Stopped => (resourceErr <=> cleanup[current] = "failed")

\* A drain that ended by itself cost no publication its outcome: every admitted
\* call had returned before cleanup began (finishShutdown, release).
GracefulDrain ==
    cause = "drained" =>
        tracked = {} /\ \A p \in Publications : pc[p] \in {"idle", "done"}

\* All trackers together implement the abstract window of attempts, across
\* generations, recovery and shutdown: one final outcome per attempt.
Abstract == INSTANCE PublishOutcomes WITH
    Attempts <- Publications,
    Window <- MaxOutstanding,
    pending <- tracked

\* The producer's behaviours are behaviours of PublishOutcomes.
ImplementsOutcomes == Abstract!Spec

\* Every admitted call returns: no confirm, answer of the client or replacement
\* generation is needed for it (waitForOutcome, LockContext, completePublishError).
CallsReturn ==
    \A p \in Publications : pc[p] = "locking" ~> pc[p] = "done"

\* Shutdown completes, even if it starts during a failure or a recovery
\* (finishShutdown, closeOwnedResources).
ShutdownCompletes == Closed ~> Stopped

\* A producer that has become unavailable does not stay undecided: it recovers,
\* becomes terminal, or is shut down (runEvents, finishRecovery).
RecoveryDecides == unavailable ~> (~unavailable \/ terminal \/ Closed)
=============================================================================
