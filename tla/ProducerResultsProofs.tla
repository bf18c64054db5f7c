----------------------- MODULE ProducerResultsProofs -----------------------
(***************************************************************************)
(* More about Producer, for any publications, window, number of            *)
(* generations and recovery attempts: what it owns once it has stopped,    *)
(* what a drain and a result mean, and that all trackers together          *)
(* implement PublishOutcomes.                                              *)
(***************************************************************************)
EXTENDS ProducerProofs

Returned == {"returned", "returnAcked"}
Final == {"acked", "nacked", "returnAcked"}

CallsTyped ==
    /\ pc \in [Publications -> CallPoints]
    /\ gen \in [Publications -> 0..MaxGenerations]
    /\ seq \in [Publications -> Nat]
    /\ send \in [Publications -> {"none", "pending", "ok", "preflight", "error"}]
    /\ result \in [Publications -> PublishStates \cup {"none"}]
    /\ \A p \in Publications : send[p] = "pending" => gen[p] \in Generations

TrackersTyped ==
    /\ tracked \subseteq Publications /\ marked \subseteq Publications
    /\ outcome \in [Publications -> PublishStates \cup {"none"}]
    /\ crossed \subseteq Publications

BrokerTyped ==
    /\ msg \in [Publications -> {"unsent", "wire", "acked", "nacked", "returned", "returnAcked"}]
    /\ tag \in [Publications -> Nat]
    /\ returns \subseteq Publications /\ confirms \subseteq Publications
    /\ published \in [Generations -> Nat]

\* The loop opens a generation only if there is room for one more.
GenerationsTyped ==
    /\ alive \in [Generations -> BOOLEAN]
    /\ cleanup \in [Generations -> {"open", "clean", "failed"}]
    /\ failure \in [Generations -> BOOLEAN]
    /\ closing \subseteq Generations
    /\ current \in Generations
    /\ events = "installing" => current + 1 \in Generations

\* The loop has a confirm in hand while it is confirming.
PhasesTyped ==
    /\ mutex \in Publications \cup {NoPublication}
    /\ events \in EventPoints
    /\ confirming \in Publications \cup {NoPublication}
    /\ events = "confirming" => confirming \in Publications
    /\ attempt \in 0..MaxAttempts
    /\ shutdown \in ShutdownPoints
    /\ cause \in {"none", "drained", "expired"}

FlagsTyped == {unavailable, recovering, terminal, resourceErr, drained} \subseteq BOOLEAN

Types == /\ CallsTyped /\ TrackersTyped /\ BrokerTyped /\ GenerationsTyped /\ PhasesTyped
         /\ FlagsTyped

\* A producer that has drained is closed, and nobody is in Publish any more.
Draining ==
    /\ drained => Closed /\ active = 0
    /\ cause = "drained" => drained

\* Only the current generation, and one that recovery is about to install, have a
\* connection.  From closeCurrentGeneration on, the current one has none, and
\* Shutdown knows how its cleanup ended.
Owning ==
    /\ \A g \in Generations :
          alive[g] => g = current \/ (events = "installing" /\ g = current + 1)
    /\ events \in {"recovering", "installing"} => ~alive[current]
    /\ shutdown \in {"waiting", "done"} =>
          /\ ~alive[current] /\ cleanup[current] # "open"
          /\ resourceErr <=> cleanup[current] = "failed"
    /\ Stopped => events = "done"

\* No two attempts of a tracker have the same sequence number.
Distinct ==
    \A p, q \in tracked : gen[p] = gen[q] /\ seq[p] = seq[q] => p = q

\* A message has not left before its call commits to the send, nor while a send is
\* pending or was refused.
Sends(p) ==
    /\ pc[p] \notin {"releasing", "done"} => result[p] = "none"
    /\ pc[p] \in Unregistered \cup {"registered", "abandoning"} =>
           send[p] = "none" /\ msg[p] = "unsent"
    /\ send[p] \in {"pending", "preflight"} => msg[p] = "unsent"

Sending == \A p \in Publications : Sends(p)

\* What waits in the buffers is what the broker said; a tracked attempt whose message
\* was returned is marked, or its return is still waiting, and not while a confirm is
\* being applied to it.
Notifying ==
    /\ \A r \in returns : msg[r] \in Returned
    /\ \A c \in confirms : msg[c] \in Final
    /\ events = "confirming" => msg[confirming] \in Final /\ confirming \notin returns
    /\ \A p \in tracked : msg[p] \in Returned => p \in returns \/ p \in marked
    /\ \A p \in marked : p \in crossed \/ msg[p] \in Returned

\* What the tracker decided about an attempt, and what the call reports of it, is what
\* happened to its message, unless another publication's event was taken for its own.
Honest(p) ==
    /\ outcome[p] = "confirmed" \/ result[p] = "confirmed" => msg[p] = "acked"
    /\ outcome[p] = "rejected" \/ result[p] = "rejected" => msg[p] = "nacked"
    /\ outcome[p] = "returned" \/ result[p] = "returned" => msg[p] = "returnAcked"
    /\ outcome[p] = "notSent" => pc[p] \in {"releasing", "done"}
    /\ result[p] = "notSent" => send[p] = "none" /\ msg[p] = "unsent"

Truthful == \A p \in Publications \ crossed : Honest(p)

-----------------------------------------------------------------------------
USE ProducerAssumption

(* What each kind of step leaves alone.                                    *)

\* A call of Publish says nothing for the broker, the event loop or Shutdown.
LEMMA CallFrame ==
    ASSUME NEW p \in Publications, Admit(p) \/ Refuse(p) \/ Call(p)
    PROVE  UNCHANGED <<msg, tag, returns, confirms, published, alive, cleanup, terminal,
                       current, resourceErr, events, confirming, attempt, shutdown, cause>>
<1> USE DEF brokerVars, generationVars, stateVars, eventVars, shutdownVars
<1>1. CASE Admit(p) \/ Refuse(p) \/ GiveUpLock(p) \/ Lock(p) \/ CheckAvailable(p) \/ Reserve(p)
  BY <1>1 DEF Admit, Refuse, GiveUpLock, Lock, CheckAvailable, Reserve
<1>2. CASE Register(p) \/ Commit(p) \/ SendReturned(p) \/ TransmissionTimeout(p)
  BY <1>2 DEF Register, Commit, SendReturned, TransmissionTimeout
<1>3. CASE AbandonPreflight(p) \/ CompletePublishError(p) \/ TakeOutcome(p) \/ WaitExpired(p)
           \/ Release(p)
  BY <1>3 DEF AbandonPreflight, CompletePublishError, TakeOutcome, WaitExpired, Release
<1> QED
  BY <1>1, <1>2, <1>3 DEF Call

\* The broker and the client library decide nothing in the producer.
LEMMA BrokerFrame ==
    ASSUME NEW p \in Publications, Broker(p)
    PROVE  UNCHANGED <<pc, gen, seq, result, tracked, marked, outcome, crossed, alive,
                       cleanup, failure, closing, mutex, active, unavailable, recovering,
                       terminal, current, resourceErr, events, confirming, attempt,
                       shutdown, drained, cause>>
  BY DEF Broker, Transmit, SendRefused, BrokerConfirm, BrokerReturn, BrokerConfirmReturned,
         BrokerUnchanged, trackerVars, brokerVars, generationVars, stateVars, eventVars,
         shutdownVars

\* A connection that ends changes only its generation.
LEMMA CloseFrame ==
    ASSUME NEW g \in Generations, ConnectionLost(g) \/ AsyncClose(g)
    PROVE  UNCHANGED <<pc, gen, seq, send, result, tracked, marked, outcome, crossed, msg, tag,
                       returns, confirms, published, failure, mutex, active, unavailable,
                       recovering, terminal, current, resourceErr, events, confirming,
                       attempt, shutdown, drained, cause>>
  BY DEF ConnectionLost, AsyncClose, BrokerUnchanged, callVars, trackerVars, generationVars,
         stateVars, eventVars, shutdownVars

\* The event loop neither moves a call nor a message, nor Shutdown.
LEMMA LoopFrame ==
    ASSUME EventLoop
    PROVE  UNCHANGED <<pc, gen, seq, send, result, msg, tag, published, closing, mutex, active,
                       resourceErr, shutdown, drained, cause>>
<1> USE DEF callVars, brokerVars, generationVars, stateVars, shutdownVars
<1>1. CASE \/ \E p \in Publications : ReceiveReturn(p) \/ ReceiveConfirm(p)
           \/ ApplyConfirm \/ NoticeLoss \/ NoticeFailure \/ NoticeStop
  BY <1>1, Zenon
     DEF ReceiveReturn, ReceiveConfirm, ApplyConfirm, NoticeLoss, NoticeFailure, NoticeStop
<1>2. CASE BeginRecovery \/ FailPending \/ CloseFailed \/ GiveUpRecovery \/ AttemptFails
           \/ AttemptSucceeds \/ Install \/ FinishRecovery
  BY <1>2 DEF BeginRecovery, FailPending, CloseFailed, GiveUpRecovery, AttemptFails,
         AttemptSucceeds, Install, InstallGeneration, FinishRecovery
<1> QED
  BY <1>1, <1>2 DEF EventLoop

\* Shutdown leaves calls and trackers to themselves.
LEMMA ShutdownFrame ==
    ASSUME StartShutdown \/ ShutdownSteps
    PROVE  UNCHANGED <<pc, gen, seq, send, result, tracked, marked, outcome, crossed, msg, tag,
                       returns, confirms, published, failure, closing, mutex, active,
                       unavailable, recovering, terminal, current, events, confirming, attempt>>
  BY DEF StartShutdown, ShutdownSteps, EndDrain, StopEvents, CloseCurrent, FinishShutdown,
         ShutdownUnchanged, callVars, trackerVars, eventVars

\* Every step is of one of these kinds.
LEMMA StepKinds ==
    ASSUME [Next]_vars
    PROVE  \/ \E p \in Publications : Admit(p) \/ Refuse(p) \/ Call(p)
           \/ \E p \in Publications : Broker(p)
           \/ \E g \in Generations : ConnectionLost(g) \/ AsyncClose(g)
           \/ EventLoop
           \/ StartShutdown \/ ShutdownSteps
           \/ UNCHANGED vars
  BY DEF Next

\* A registration that succeeds.
Registers(p) ==
    /\ pc[p] = "reserved" /\ Holder(gen[p], seq[p]) = {}
    /\ tracked' = tracked \cup {p}
    /\ UNCHANGED <<marked, outcome, crossed>>

\* The trackers change by what tracker.go offers and by nothing else.
LEMMA TrackerSteps ==
    ASSUME [Next]_vars
    PROVE  \/ UNCHANGED trackerVars
           \/ \E p \in Publications : Registers(p)
           \/ \E p \in Publications, state \in LocalStates : Abandon(p, state)
           \/ FailAll
           \/ \E R \in SUBSET returns : ApplyReturns(R)
           \/ ApplyConfirm
<1>1. ASSUME NEW p \in Publications,
             \/ Admit(p) \/ Refuse(p) \/ GiveUpLock(p) \/ Lock(p) \/ CheckAvailable(p)
             \/ Reserve(p) \/ SendReturned(p) \/ TransmissionTimeout(p) \/ TakeOutcome(p)
             \/ Release(p)
      PROVE  UNCHANGED trackerVars
  BY <1>1 DEF Admit, Refuse, GiveUpLock, Lock, CheckAvailable, Reserve, SendReturned,
     TransmissionTimeout, TakeOutcome, Release
<1>2. ASSUME NEW p \in Publications, Register(p) PROVE UNCHANGED trackerVars \/ Registers(p)
  BY <1>2 DEF Register, Registers, At, trackerVars
<1>3. ASSUME NEW p \in Publications, \/ Commit(p) \/ AbandonPreflight(p)
                                     \/ CompletePublishError(p) \/ WaitExpired(p)
      PROVE  UNCHANGED trackerVars \/ \E state \in LocalStates : Abandon(p, state)
  BY <1>3 DEF Commit, AbandonPreflight, CompletePublishError, WaitExpired, LocalStates
<1>4. ASSUME EventLoop
      PROVE  \/ UNCHANGED trackerVars \/ FailAll \/ ApplyConfirm
             \/ \E R \in SUBSET returns : ApplyReturns(R)
  BY <1>4, Zenon
     DEF EventLoop, ReceiveReturn, ReceiveConfirm, DrainedReturns, NoticeLoss, NoticeFailure,
     NoticeStop, BeginRecovery, FailPending, CloseFailed, GiveUpRecovery, AttemptFails,
     AttemptSucceeds,
     Install, InstallGeneration, FinishRecovery
<1> QED
  BY <1>1, <1>2, <1>3, <1>4, StepKinds, BrokerFrame, CloseFrame, ShutdownFrame
  DEF Call, vars, trackerVars

-----------------------------------------------------------------------------
(* Types.                                                                  *)

\* A new producer.
LEMMA TypesInit == Init => Types
<1> SUFFICES ASSUME Init PROVE Types
  OBVIOUS
<1>1. 1 \in Generations
  BY DEF Generations
<1>2. CallsTyped /\ TrackersTyped
  BY DEF Init, CallsTyped, TrackersTyped, CallPoints, PublishStates
<1>3. BrokerTyped /\ GenerationsTyped
  BY <1>1 DEF Init, BrokerTyped, GenerationsTyped
<1>4. PhasesTyped
  BY DEF Init, PhasesTyped, EventPoints, ShutdownPoints
<1>5. FlagsTyped
  BY Zenon DEF Init, FlagsTyped
<1> QED
  BY <1>2, <1>3, <1>4, <1>5 DEF Types

\* A call works on a generation that exists.
LEMMA CallsTypedNext ==
    ASSUME CallsTyped, TrackersTyped, BrokerTyped, GenerationsTyped, Locking, [Next]_vars
    PROVE  CallsTyped'
<1> USE DEF CallsTyped
<1>1. ASSUME UNCHANGED <<pc, gen, seq, send, result>> PROVE CallsTyped'
  BY <1>1
<1>2. ASSUME NEW p \in Publications, Admit(p) \/ Refuse(p) \/ GiveUpLock(p) \/ Lock(p)
      PROVE  CallsTyped'
  BY <1>2 DEF Admit, Refuse, GiveUpLock, Lock, Answer, Goto, CallPoints, Active, Critical,
         PublishStates, LocalStates
<1>3. ASSUME NEW p \in Publications, CheckAvailable(p) PROVE CallsTyped'
  <2>1. current \in Generations /\ current \in 0..MaxGenerations
    BY DEF GenerationsTyped, Generations
  <2> QED
    BY <1>3, <2>1 DEF CheckAvailable, Answer, Goto, CallPoints, Active, Critical,
       PublishStates, LocalStates
<1>4. ASSUME NEW p \in Publications, Reserve(p) PROVE CallsTyped'
  <2>1. gen[p] = current
    BY <1>4 DEF Reserve, At, Locking, Critical
  <2>2. published[gen[p]] + 1 \in Nat
    BY <2>1 DEF GenerationsTyped, BrokerTyped
  <2> QED
    BY <1>4, <2>2 DEF Reserve, Goto, CallPoints, Active, Critical
<1>5. ASSUME NEW p \in Publications, Register(p) PROVE CallsTyped'
  BY <1>5 DEF Register, Answer, Goto, CallPoints, Active, Critical, PublishStates, LocalStates
<1>6. ASSUME NEW p \in Publications, Commit(p) PROVE CallsTyped'
  <2>1. gen[p] = current
    BY <1>6 DEF Commit, At, Locking, Critical
  <2> QED
    BY <1>6, <2>1 DEF Commit, Answer, Goto, CallPoints, Active, Critical, PublishStates,
       LocalStates, GenerationsTyped
<1>7. ASSUME NEW p \in Publications, SendReturned(p) \/ TransmissionTimeout(p) PROVE CallsTyped'
  BY <1>7 DEF SendReturned, TransmissionTimeout, Goto, CallPoints, Active, Critical
<1>8. ASSUME NEW p \in Publications, \/ AbandonPreflight(p) \/ CompletePublishError(p)
                                     \/ TakeOutcome(p) \/ WaitExpired(p)
      PROVE  CallsTyped'
  <2>1. outcome[p] \in PublishStates \cup {"none"}
    BY DEF TrackersTyped
  <2> QED
    BY <1>8, <2>1 DEF AbandonPreflight, CompletePublishError, TakeOutcome, WaitExpired, Answer,
       Goto, CallPoints, Active, Critical, PublishStates, LocalStates
<1>9. ASSUME NEW p \in Publications, Release(p) PROVE CallsTyped'
  BY <1>9 DEF Release, Goto, CallPoints
<1>10. ASSUME NEW p \in Publications, Broker(p) PROVE CallsTyped'
  <2>1. UNCHANGED <<pc, gen, seq, result>>
    BY <1>10, BrokerFrame
  <2>2. \/ send' = send
        \/ \E answer \in {"ok", "preflight", "error", "none"} :
               send' = [send EXCEPT ![p] = answer]
    BY <1>10 DEF Broker, Transmit, SendRefused, BrokerConfirm, BrokerReturn,
       BrokerConfirmReturned, SendAnswer
  <2> QED
    BY <2>1, <2>2
<1> QED
  BY <1>1, <1>2, <1>3, <1>4, <1>5, <1>6, <1>7, <1>8, <1>9, <1>10, StepKinds, CloseFrame,
     LoopFrame, ShutdownFrame, Zenon
  DEF Call, vars, callVars

\* Only publications are tracked, marked or crossed, and their outcomes are states.
LEMMA TrackersTypedNext ==
    ASSUME TrackersTyped, [Next]_vars PROVE TrackersTyped'
<1> USE DEF TrackersTyped
<1>1. ASSUME NEW S \in SUBSET tracked, NEW state \in PublishStates, Complete(S, state),
             crossed' \subseteq Publications
      PROVE  TrackersTyped'
  BY <1>1 DEF Complete
<1>2. ASSUME NEW p \in Publications, NEW state \in LocalStates, Abandon(p, state)
      PROVE  TrackersTyped'
  <2>1. Holder(gen[p], seq[p]) \subseteq tracked
    BY DEF Holder, Tracker
  <2> QED
    BY <1>1, <1>2, <2>1 DEF Abandon, PublishStates
<1>3. ASSUME FailAll PROVE TrackersTyped'
  <2>1. Tracker(current) \subseteq tracked
    BY DEF Tracker
  <2> QED
    BY <1>1, <1>3, <2>1 DEF FailAll, PublishStates, LocalStates
<1>4. ASSUME NEW R, ApplyReturns(R) PROVE TrackersTyped'
  <2>1. /\ UNION {Holder(gen[r], seq[r]) : r \in R} \subseteq tracked
        /\ UNION {Holder(gen[r], seq[r]) \ {r} : r \in R} \subseteq tracked
    BY DEF Holder, Tracker
  <2> QED
    BY <1>4, <2>1 DEF ApplyReturns
<1>5. ASSUME ApplyConfirm PROVE TrackersTyped'
  <2> DEFINE H == Holder(gen[confirming], tag[confirming])
  <2>1. H \subseteq tracked
    BY DEF Holder, Tracker
  <2>2. ConfirmState(H, confirming) \in PublishStates
    BY DEF ConfirmState, PublishStates
  <2>3. Complete(H, ConfirmState(H, confirming)) /\ crossed' = crossed \cup (H \ {confirming})
    BY <1>5 DEF ApplyConfirm
  <2> QED
    BY <1>1, <2>1, <2>2, <2>3
<1>6. ASSUME NEW p \in Publications, Registers(p) PROVE TrackersTyped'
  BY <1>6 DEF Registers
<1> QED
  BY <1>2, <1>3, <1>4, <1>5, <1>6, TrackerSteps DEF trackerVars

\* A message goes out under a number of its own generation.
LEMMA BrokerTypedNext ==
    ASSUME BrokerTyped, CallsTyped, [Next]_vars PROVE BrokerTyped'
<1> USE DEF BrokerTyped
<1>1. ASSUME UNCHANGED <<msg, tag, published>>, returns' \subseteq returns,
             confirms' \subseteq confirms
      PROVE  BrokerTyped'
  BY <1>1
<1>2. ASSUME NEW p \in Publications, Transmit(p) PROVE BrokerTyped'
  <2>1. gen[p] \in Generations
    BY <1>2 DEF Transmit, CallsTyped
  <2>2. published[gen[p]] + 1 \in Nat
    BY <2>1
  <2> QED
    BY <1>2, <2>1, <2>2 DEF Transmit
<1>3. ASSUME NEW p \in Publications, \/ SendRefused(p) \/ BrokerConfirm(p) \/ BrokerReturn(p)
                                     \/ BrokerConfirmReturned(p)
      PROVE  BrokerTyped'
  BY <1>3 DEF SendRefused, BrokerConfirm, BrokerReturn, BrokerConfirmReturned, brokerVars
<1>4. ASSUME EventLoop PROVE BrokerTyped'
  <2>1. returns' \subseteq returns /\ confirms' \subseteq confirms
    <3>1. CASE \/ \E p \in Publications : ReceiveReturn(p) \/ ReceiveConfirm(p)
               \/ ApplyConfirm \/ NoticeLoss \/ NoticeFailure \/ NoticeStop
      BY <3>1, Zenon DEF ReceiveReturn, ReceiveConfirm, ApplyReturns, ApplyConfirm, NoticeLoss,
         NoticeFailure, NoticeStop, brokerVars
    <3>2. CASE BeginRecovery \/ FailPending \/ CloseFailed \/ GiveUpRecovery \/ AttemptFails
               \/ AttemptSucceeds \/ Install \/ FinishRecovery
      BY <3>2 DEF BeginRecovery, FailPending, CloseFailed, GiveUpRecovery, AttemptFails,
         AttemptSucceeds, Install, InstallGeneration, FinishRecovery, brokerVars
    <3> QED
      BY <1>4, <3>1, <3>2 DEF EventLoop
  <2> QED
    BY <1>1, <1>4, <2>1, LoopFrame
<1> QED
  BY <1>1, <1>2, <1>3, <1>4, StepKinds, CallFrame, CloseFrame, ShutdownFrame
  DEF Broker, vars, brokerVars

\* Connections and cleanup results belong to generations, and the current one exists.
LEMMA GenerationsTypedNext ==
    ASSUME GenerationsTyped, Locking, [Next]_vars PROVE GenerationsTyped'
<1> USE DEF GenerationsTyped
<1>1. ASSUME UNCHANGED <<current, closing>>, events' # "installing" \/ events' = events,
             \/ UNCHANGED <<alive, cleanup>>
             \/ \E ending \in {"clean", "failed"} : CloseGeneration(current, ending),
             failure' = failure \/ failure' = [failure EXCEPT ![current] = FALSE]
      PROVE  GenerationsTyped'
  <2>1. cleanup' \in [Generations -> {"open", "clean", "failed"}]
    BY <1>1 DEF CloseGeneration
  <2>2. alive' \in [Generations -> BOOLEAN]
    BY <1>1, Zenon DEF CloseGeneration
  <2>3. failure' \in [Generations -> BOOLEAN]
    BY <1>1, Zenon
  <2> QED
    BY <1>1, <2>1, <2>2, <2>3
<1>2. ASSUME NEW p \in Publications, \/ Admit(p) \/ Refuse(p) \/ GiveUpLock(p) \/ Lock(p)
                                     \/ CheckAvailable(p) \/ Reserve(p) \/ Register(p)
                                     \/ Commit(p) \/ AbandonPreflight(p)
                                     \/ CompletePublishError(p) \/ TakeOutcome(p)
                                     \/ WaitExpired(p) \/ Release(p)
      PROVE  GenerationsTyped'
  <2>1. UNCHANGED <<failure, closing>>
    BY <1>2, Zenon DEF Admit, Refuse, GiveUpLock, Lock, CheckAvailable, Reserve, Register, Commit,
       AbandonPreflight, CompletePublishError, TakeOutcome, WaitExpired, Release, generationVars
  <2> QED
    BY <1>1, <1>2, <2>1, CallFrame DEF Call
<1>3. ASSUME NEW p \in Publications, SendReturned(p) \/ TransmissionTimeout(p)
      PROVE  GenerationsTyped'
  <2>1. UNCHANGED <<alive, cleanup, current, events>>
    BY <1>3, CallFrame DEF Call
  <2>2. gen[p] \in Generations
    BY <1>3 DEF SendReturned, TransmissionTimeout, At, Locking, Critical
  <2>3. closing' \subseteq Generations
    BY <1>3, <2>2 DEF SendReturned, TransmissionTimeout
  <2>4. failure' = failure \/ failure' = [failure EXCEPT ![current] = TRUE]
    BY <1>3 DEF SendReturned, TransmissionTimeout, FailGeneration
  <2>5. failure' \in [Generations -> BOOLEAN]
    BY <2>4, Zenon
  <2> QED
    BY <2>1, <2>3, <2>5
<1>4. ASSUME NEW p \in Publications, Broker(p) PROVE GenerationsTyped'
  BY <1>1, <1>4, BrokerFrame
<1>5. ASSUME NEW g \in Generations, ConnectionLost(g) \/ AsyncClose(g) PROVE GenerationsTyped'
  <2>1. UNCHANGED <<current, events, failure>>
    BY <1>5, CloseFrame
  <2>2. alive' \in [Generations -> BOOLEAN] /\ closing' \subseteq Generations
    BY <1>5, Zenon
       DEF ConnectionLost, AsyncClose, CloseGeneration, BrokerUnchanged, generationVars
  <2>3. cleanup' \in [Generations -> {"open", "clean", "failed"}]
    BY <1>5 DEF ConnectionLost, AsyncClose, CloseGeneration, BrokerUnchanged, generationVars
  <2> QED
    BY <2>1, <2>2, <2>3
<1>6. ASSUME EventLoop PROVE GenerationsTyped'
  <2>1. closing' = closing
    BY <1>6, LoopFrame
  <2>2. CASE \/ \E p \in Publications : ReceiveReturn(p) \/ ReceiveConfirm(p)
             \/ ApplyConfirm \/ NoticeLoss \/ NoticeFailure \/ NoticeStop
    <3>1. UNCHANGED <<current, alive, cleanup>> /\ events' # "installing"
      BY <2>2, Zenon DEF ReceiveReturn, ReceiveConfirm, ApplyConfirm, NoticeLoss, NoticeFailure,
         NoticeStop, EventsGoto, brokerVars, generationVars, stateVars
    <3>2. failure' = failure \/ failure' = [failure EXCEPT ![current] = FALSE]
      BY <2>2, Zenon DEF ReceiveReturn, ReceiveConfirm, ApplyConfirm, NoticeLoss, NoticeFailure,
         NoticeStop, generationVars
    <3> QED
      BY <1>1, <2>1, <3>1, <3>2
  <2>3. CASE BeginRecovery \/ FailPending \/ CloseFailed \/ GiveUpRecovery \/ AttemptFails
             \/ FinishRecovery
    <3>1. current' = current /\ (events' # "installing" \/ events' = events)
      BY <2>3 DEF BeginRecovery, FailPending, CloseFailed, GiveUpRecovery, AttemptFails,
         FinishRecovery, EventsGoto, stateVars
    <3>2. \/ UNCHANGED <<alive, cleanup>>
          \/ \E ending \in {"clean", "failed"} : CloseGeneration(current, ending)
      BY <2>3 DEF BeginRecovery, FailPending, CloseFailed, GiveUpRecovery, AttemptFails,
         FinishRecovery, brokerVars, generationVars
    <3>3. failure' = failure \/ failure' = [failure EXCEPT ![current] = FALSE]
      BY <2>3 DEF BeginRecovery, FailPending, CloseFailed, GiveUpRecovery, AttemptFails,
         FinishRecovery, generationVars
    <3> QED
      BY <1>1, <2>1, <3>1, <3>2, <3>3
  <2>4. CASE AttemptSucceeds
    BY <2>4 DEF AttemptSucceeds, Generations, generationVars, stateVars
  <2>5. CASE Install
    BY <2>5, Zenon DEF Install, InstallGeneration, EventsGoto, generationVars
  <2> QED
    BY <1>6, <2>2, <2>3, <2>4, <2>5 DEF EventLoop
<1>7. ASSUME StartShutdown \/ ShutdownSteps PROVE GenerationsTyped'
  <2>1. UNCHANGED <<current, events, failure, closing>>
    BY <1>7, ShutdownFrame
  <2>2. \/ UNCHANGED <<alive, cleanup>>
        \/ \E ending \in {"clean", "failed"} : CloseGeneration(current, ending)
    BY <1>7 DEF StartShutdown, ShutdownSteps, EndDrain, StopEvents, CloseCurrent, FinishShutdown
  <2> QED
    BY <1>1, <2>1, <2>2
<1> QED
  BY <1>1, <1>2, <1>3, <1>4, <1>5, <1>6, <1>7, StepKinds
  DEF Call, vars, brokerVars, generationVars, stateVars, eventVars

\* The event loop and Shutdown go from one of their phases to another.
LEMMA PhasesTypedNext ==
    ASSUME PhasesTyped, [Next]_vars PROVE PhasesTyped'
<1> USE DEF PhasesTyped
<1>1. ASSUME NEW p \in Publications, Admit(p) \/ Refuse(p) \/ Call(p) PROVE PhasesTyped'
  <2>1. mutex' \in {mutex, p, NoPublication}
    <3>1. CASE Admit(p) \/ Refuse(p) \/ GiveUpLock(p) \/ Lock(p) \/ CheckAvailable(p) \/ Reserve(p)
      BY <3>1 DEF Admit, Refuse, GiveUpLock, Lock, CheckAvailable, Reserve, stateVars
    <3>2. CASE Register(p) \/ Commit(p) \/ SendReturned(p) \/ TransmissionTimeout(p)
      BY <3>2, Zenon DEF Register, Commit, SendReturned, TransmissionTimeout
    <3>3. CASE AbandonPreflight(p) \/ CompletePublishError(p) \/ TakeOutcome(p)
               \/ WaitExpired(p) \/ Release(p)
      BY <3>3 DEF AbandonPreflight, CompletePublishError, TakeOutcome, WaitExpired, Release,
         stateVars
    <3> QED
      BY <1>1, <3>1, <3>2, <3>3 DEF Call
  <2> QED
    BY <1>1, <2>1, CallFrame
<1>2. ASSUME EventLoop PROVE PhasesTyped'
  <2>1. UNCHANGED <<mutex, shutdown, cause>>
    BY <1>2, LoopFrame
  <2>2. CASE \/ \E p \in Publications : ReceiveReturn(p) \/ ReceiveConfirm(p)
             \/ ApplyConfirm \/ NoticeLoss \/ NoticeFailure \/ NoticeStop
    BY <2>1, <2>2, Zenon
       DEF ReceiveReturn, ReceiveConfirm, ApplyConfirm, NoticeLoss, NoticeFailure,
       NoticeStop, EventsGoto, EventPoints
  <2>3. CASE BeginRecovery \/ FailPending \/ CloseFailed \/ GiveUpRecovery \/ AttemptFails
             \/ AttemptSucceeds \/ Install \/ FinishRecovery
    <3>1. CASE BeginRecovery \/ FailPending \/ CloseFailed
      BY <2>1, <3>1 DEF BeginRecovery, FailPending, CloseFailed, EventsGoto, EventPoints
    <3>2. CASE GiveUpRecovery \/ AttemptFails \/ AttemptSucceeds
      BY <2>1, <3>2 DEF GiveUpRecovery, AttemptFails, AttemptSucceeds, EventsGoto, EventPoints
    <3>3. CASE Install \/ FinishRecovery
      BY <2>1, <3>3 DEF Install, InstallGeneration, FinishRecovery, EventsGoto, EventPoints
    <3> QED
      BY <2>3, <3>1, <3>2, <3>3
  <2> QED
    BY <1>2, <2>2, <2>3 DEF EventLoop
<1>3. ASSUME StartShutdown \/ ShutdownSteps PROVE PhasesTyped'
  <2>1. shutdown' \in ShutdownPoints /\ cause' \in {"none", "drained", "expired"}
    BY <1>3 DEF StartShutdown, ShutdownSteps, EndDrain, StopEvents, CloseCurrent,
       FinishShutdown, ShutdownPoints
  <2> QED
    BY <1>3, <2>1, ShutdownFrame
<1>4. ASSUME UNCHANGED <<mutex, events, confirming, attempt, shutdown, cause>> PROVE PhasesTyped'
  BY <1>4
<1> QED
  BY <1>1, <1>2, <1>3, <1>4, StepKinds, BrokerFrame, CloseFrame
  DEF vars, stateVars, eventVars, shutdownVars

\* The flags stay flags.
LEMMA FlagsTypedNext ==
    ASSUME FlagsTyped, [Next]_vars PROVE FlagsTyped'
<1>1. unavailable \in BOOLEAN /\ recovering \in BOOLEAN /\ terminal \in BOOLEAN
      /\ resourceErr \in BOOLEAN /\ drained \in BOOLEAN
  BY DEF FlagsTyped
<1>2. drained' \in BOOLEAN
  <2>1. \/ drained' = drained
        \/ \E p \in Publications : Release(p)
        \/ StartShutdown
    <3>1. ASSUME NEW p \in Publications, Admit(p) \/ Refuse(p) \/ (Call(p) /\ ~Release(p))
          PROVE  drained' = drained
      BY <3>1, Zenon DEF Admit, Refuse, Call, GiveUpLock, Lock, CheckAvailable, Reserve, Register,
         Commit, SendReturned, TransmissionTimeout, AbandonPreflight, CompletePublishError,
         TakeOutcome, WaitExpired, shutdownVars
    <3>2. ASSUME ShutdownSteps PROVE drained' = drained
      BY <3>2 DEF ShutdownSteps, EndDrain, StopEvents, CloseCurrent, FinishShutdown
    <3> QED
      BY <3>1, <3>2, StepKinds, BrokerFrame, CloseFrame, LoopFrame DEF vars, shutdownVars
  <2> QED
    BY <1>1, <2>1, Zenon DEF Release, StartShutdown
<1>3. resourceErr' \in BOOLEAN
  <2>1. resourceErr' = resourceErr \/ CloseCurrent
    <3>1. ASSUME StartShutdown \/ ShutdownSteps PROVE resourceErr' = resourceErr \/ CloseCurrent
      BY <3>1 DEF StartShutdown, ShutdownSteps, EndDrain, StopEvents, FinishShutdown
    <3> QED
      BY <3>1, StepKinds, CallFrame, BrokerFrame, CloseFrame, LoopFrame DEF vars, stateVars
  <2> QED
    BY <1>1, <2>1, Zenon DEF CloseCurrent
<1>4. unavailable' \in BOOLEAN /\ recovering' \in BOOLEAN
  <2>1. \/ UNCHANGED <<unavailable, recovering>>
        \/ MarkRecovering
        \/ Install
        \/ FinishRecovery
    <3>1. ASSUME NEW p \in Publications, Admit(p) \/ Refuse(p) \/ Call(p)
          PROVE  UNCHANGED <<unavailable, recovering>> \/ MarkRecovering
      <4>1. CASE SendReturned(p) \/ TransmissionTimeout(p)
        BY <4>1 DEF SendReturned, TransmissionTimeout, FailGeneration
      <4>2. CASE ~(SendReturned(p) \/ TransmissionTimeout(p))
        BY <3>1, <4>2, Zenon
           DEF Admit, Refuse, Call, GiveUpLock, Lock, CheckAvailable, Reserve, Register,
           Commit, AbandonPreflight, CompletePublishError, TakeOutcome, WaitExpired, Release,
           stateVars
      <4> QED
        BY <4>1, <4>2
    <3>2. ASSUME EventLoop
          PROVE  UNCHANGED <<unavailable, recovering>> \/ MarkRecovering \/ Install
                 \/ FinishRecovery
      BY <3>2, Zenon DEF EventLoop, ReceiveReturn, ReceiveConfirm, ApplyConfirm, NoticeLoss,
         NoticeFailure, NoticeStop, BeginRecovery, FailPending, CloseFailed, GiveUpRecovery,
         AttemptFails, AttemptSucceeds, stateVars
    <3> QED
      BY <3>1, <3>2, StepKinds, BrokerFrame, CloseFrame, ShutdownFrame DEF vars, stateVars
  <2> QED
    BY <1>1, <2>1, Zenon DEF MarkRecovering, Install, InstallGeneration, FinishRecovery
<1>5. terminal' \in BOOLEAN
  <2>1. terminal' = terminal \/ FinishRecovery
    <3>1. ASSUME EventLoop PROVE terminal' = terminal \/ FinishRecovery
      BY <3>1, Zenon DEF EventLoop, ReceiveReturn, ReceiveConfirm, ApplyConfirm, NoticeLoss,
         NoticeFailure, NoticeStop, BeginRecovery, FailPending, CloseFailed, GiveUpRecovery,
         AttemptFails, AttemptSucceeds, Install, InstallGeneration, stateVars
    <3> QED
      BY <3>1, StepKinds, CallFrame, BrokerFrame, CloseFrame, ShutdownFrame DEF vars, stateVars
  <2> QED
    BY <1>1, <2>1, Zenon DEF FinishRecovery
<1> QED
  BY <1>2, <1>3, <1>4, <1>5 DEF FlagsTyped

\* Together they are kept by every step.
LEMMA TypesNext == Types /\ Locking /\ [Next]_vars => Types'
  BY CallsTypedNext, TrackersTypedNext, BrokerTypedNext, GenerationsTypedNext, PhasesTypedNext,
     FlagsTypedNext
  DEF Types

\* The window, publishMu and the types hold throughout.
LEMMA TypesAlways == Spec => [](Types /\ Window /\ Locking)
  BY TypesInit, TypesNext, WindowInit, WindowNext, LockingInit, LockingNext, PTL DEF Spec

\* For every configuration each variable of the producer stays in its set: in particular
\* a call sends only on a generation that exists, the event loop applies only a confirm
\* that it received, and attempts and generations stay within their bounds.
THEOREM TypeCorrect == Spec => []TypeOK
<1>1. Types /\ Window => TypeOK
  BY DEF Types, Window, CallsTyped, TrackersTyped, BrokerTyped, GenerationsTyped, PhasesTyped,
     FlagsTyped, TypeOK
<1> QED
  BY <1>1, TypesAlways, PTL

-----------------------------------------------------------------------------
(* Shutdown.                                                               *)

\* drained is set when the last call leaves a closed producer, which admits no more.
LEMMA DrainingNext == Draining /\ Window /\ [Next]_vars => Draining'
<1> SUFFICES ASSUME Draining, Window, [Next]_vars PROVE Draining'
  OBVIOUS
<1>1. ASSUME UNCHANGED <<active, shutdown, drained, cause>> PROVE Draining'
  BY <1>1 DEF Draining, Closed
<1>2. ASSUME NEW p \in Publications, Admit(p) PROVE Draining'
  <2>1. ~Closed /\ UNCHANGED <<shutdown, drained, cause>>
    BY <1>2 DEF Admit, shutdownVars
  <2> QED
    BY <2>1 DEF Draining
<1>3. ASSUME NEW p \in Publications, Release(p) PROVE Draining'
  <2>1. p \in ActiveCalls
    BY <1>3 DEF Release, At, ActiveCalls, Active
  <2>2. active # 0
    BY <2>1, ActiveFinite, FS_EmptySet DEF Window
  <2>3. ~drained /\ cause # "drained"
    BY <2>2 DEF Draining
  <2>4. drained' => Closed /\ active' = 0
    BY <1>3, <2>3, Zenon DEF Release
  <2>5. UNCHANGED <<shutdown, cause>>
    BY <1>3 DEF Release
  <2> QED
    BY <2>3, <2>4, <2>5 DEF Draining, Closed
<1>4. ASSUME NEW p \in Publications, Refuse(p) \/ (Call(p) /\ ~Release(p)) PROVE Draining'
  BY <1>1, <1>4, Zenon
  DEF Refuse, Call, GiveUpLock, Lock, CheckAvailable, Reserve, Register, Commit, SendReturned,
      TransmissionTimeout, AbandonPreflight, CompletePublishError, TakeOutcome, WaitExpired,
      shutdownVars, stateVars
<1>5. ASSUME StartShutdown PROVE Draining'
  <2>1. shutdown = "open" /\ Closed' /\ UNCHANGED <<active, cause>>
    BY <1>5 DEF StartShutdown, ShutdownUnchanged, Closed
  <2>2. cause # "drained"
    BY <2>1 DEF Draining, Closed
  <2>3. drained' => active = 0
    BY <1>5, Zenon DEF StartShutdown
  <2> QED
    BY <2>1, <2>2, <2>3 DEF Draining
<1>6. ASSUME ShutdownSteps PROVE Draining'
  <2>1. Closed' /\ UNCHANGED <<active, drained>> /\ (cause' = cause \/ drained \/ cause' = "expired")
    BY <1>6 DEF ShutdownSteps, EndDrain, StopEvents, CloseCurrent, FinishShutdown,
       ShutdownUnchanged, Closed
  <2> QED
    BY <2>1 DEF Draining
<1> QED
  BY <1>1, <1>2, <1>3, <1>4, <1>5, <1>6, StepKinds, BrokerFrame, CloseFrame, LoopFrame
  DEF vars, stateVars, shutdownVars

\* For every window and any number of publications: when Shutdown ends its wait because
\* calls drained, no call is under way and no attempt waits in any tracker
\* (finishShutdown, release).
THEOREM DrainGraceful == Spec => []GracefulDrain
<1>1. Init => Draining
  BY DEF Init, Draining
<1>2. Window /\ Draining => GracefulDrain
  <2> SUFFICES ASSUME Window, Draining, cause = "drained"
               PROVE  tracked = {} /\ \A p \in Publications : pc[p] \in {"idle", "done"}
    BY DEF GracefulDrain
  <2>1. ActiveCalls = {}
    BY ActiveFinite, FS_EmptySet DEF Window, Draining
  <2> QED
    BY <2>1 DEF Window, ActiveCalls, CallPoints, Registered, Active, Critical
<1> QED
  BY <1>1, <1>2, DrainingNext, TypesAlways, PTL DEF Spec

\* Closing a generation takes its connection and keeps a result that it has.
LEMMA GenerationCloses ==
    ASSUME GenerationsTyped, NEW g \in Generations, NEW ending \in {"clean", "failed"},
           CloseGeneration(g, ending)
    PROVE  /\ ~alive'[g] /\ \A h \in Generations : alive'[h] => alive[h]
           /\ cleanup'[g] # "open"
           /\ \A h \in Generations : cleanup[h] # "open" => cleanup'[h] = cleanup[h]
  BY DEF GenerationsTyped, CloseGeneration

\* Recovery opens a connection when there is none, and discards it or makes it the
\* current one; Shutdown closes the current one, which stays current.
LEMMA OwningNext == Owning /\ Types /\ [Next]_vars => Owning'
<1> SUFFICES ASSUME Owning, Types, [Next]_vars PROVE Owning'
  OBVIOUS
<1>1. current \in Generations /\ GenerationsTyped
  BY DEF Types, GenerationsTyped
<1>2. ASSUME UNCHANGED <<current, shutdown, resourceErr>>,
             \A g \in Generations : alive'[g] => alive[g],
             \A g \in Generations : cleanup[g] # "open" => cleanup'[g] = cleanup[g],
             Stopped => events' = "done",
             events' = "installing" <=> events = "installing",
             events' = "recovering" => ~alive'[current]
      PROVE  Owning'
  <2>1. \A g \in Generations :
           alive'[g] => g = current' \/ (events' = "installing" /\ g = current' + 1)
    BY <1>2 DEF Owning
  <2>2. events' \in {"recovering", "installing"} => ~alive'[current']
    BY <1>1, <1>2 DEF Owning
  <2>3. shutdown' \in {"waiting", "done"} =>
          /\ ~alive'[current'] /\ cleanup'[current'] # "open"
          /\ resourceErr' <=> cleanup'[current'] = "failed"
    BY <1>1, <1>2 DEF Owning
  <2>4. Stopped' => events' = "done"
    BY <1>2 DEF Stopped
  <2> QED
    BY <2>1, <2>2, <2>3, <2>4 DEF Owning
<1>3. ASSUME UNCHANGED <<current, shutdown, resourceErr, alive, cleanup, events>> PROVE Owning'
  BY <1>2, <1>3 DEF Owning
<1>4. ASSUME NEW g \in Generations, ConnectionLost(g) \/ AsyncClose(g) PROVE Owning'
  <2>1. UNCHANGED <<current, shutdown, resourceErr, events>>
    BY <1>4, CloseFrame
  <2>2. /\ \A h \in Generations : alive'[h] => alive[h]
        /\ \A h \in Generations : cleanup[h] # "open" => cleanup'[h] = cleanup[h]
    <3>1. CASE ConnectionLost(g)
      BY <1>1, <3>1 DEF ConnectionLost, BrokerUnchanged, generationVars, GenerationsTyped
    <3>2. CASE AsyncClose(g)
      BY <1>1, <3>2, GenerationCloses DEF AsyncClose
    <3> QED
      BY <1>4, <3>1, <3>2
  <2> QED
    BY <1>1, <1>2, <2>1, <2>2 DEF Owning
<1>5. ASSUME EventLoop PROVE Owning'
  <2>1. UNCHANGED <<shutdown, resourceErr>>
    BY <1>5, LoopFrame
  <2>2. ~Stopped
    <3>1. events # "done"
      BY <1>5, Zenon DEF EventLoop, ReceiveReturn, ReceiveConfirm, ApplyConfirm, NoticeLoss,
         NoticeFailure, NoticeStop, BeginRecovery, FailPending, CloseFailed, GiveUpRecovery,
         AttemptFails, AttemptSucceeds, Install, FinishRecovery
    <3> QED
      BY <3>1 DEF Owning
  <2>3. CASE \/ \E p \in Publications : ReceiveReturn(p) \/ ReceiveConfirm(p)
             \/ ApplyConfirm \/ NoticeLoss \/ NoticeFailure \/ NoticeStop
             \/ BeginRecovery \/ FailPending \/ FinishRecovery
    <3>1. /\ UNCHANGED <<current, alive, cleanup>>
          /\ events \notin {"recovering", "installing"}
          /\ events' \notin {"recovering", "installing"}
      BY <2>3, Zenon DEF ReceiveReturn, ReceiveConfirm, ApplyConfirm, NoticeLoss, NoticeFailure,
         NoticeStop, BeginRecovery, FailPending, FinishRecovery, EventsGoto, brokerVars,
         generationVars, stateVars
    <3> QED
      BY <1>2, <2>1, <2>2, <3>1
  <2>4. CASE GiveUpRecovery \/ AttemptFails
    <3>1. /\ UNCHANGED <<current, alive, cleanup>>
          /\ events = "recovering" /\ events' # "installing"
      BY <2>4 DEF GiveUpRecovery, AttemptFails, EventsGoto, brokerVars, generationVars,
         stateVars
    <3> QED
      BY <1>2, <2>1, <2>2, <3>1 DEF Owning
  <2>5. CASE CloseFailed
    <3>1. PICK ending \in {"clean", "failed"} : CloseGeneration(current, ending)
      BY <2>5 DEF CloseFailed
    <3>2. events = "closing" /\ events' = "recovering" /\ current' = current
      BY <2>5 DEF CloseFailed, EventsGoto, stateVars
    <3> QED
      BY <1>1, <1>2, <2>1, <2>2, <3>1, <3>2, GenerationCloses
  <2>6. CASE AttemptSucceeds
    <3>1. /\ events = "recovering" /\ events' = "installing" /\ current' = current
          /\ cleanup' = cleanup /\ alive' = [alive EXCEPT ![current + 1] = TRUE]
      BY <2>6 DEF AttemptSucceeds, EventsGoto, generationVars, stateVars
    <3>2. current + 1 # current
      BY <1>1 DEF Generations
    <3>3. /\ alive'[current] = alive[current]
          /\ \A g \in Generations : alive'[g] => alive[g] \/ g = current + 1
      BY <1>1, <3>1, <3>2, Zenon DEF GenerationsTyped
    <3> QED
      BY <2>1, <2>2, <3>1, <3>3, Zenon DEF Owning, Stopped
  <2>7. CASE Install
    <3>1. events = "installing" /\ cleanup' = cleanup /\ current + 1 \in Generations
      BY <1>1, <2>7 DEF Install, InstallGeneration, generationVars, GenerationsTyped
    <3>2. CASE Closed
      <4>1. /\ current' = current /\ events' = "exhausted"
            /\ alive' = [alive EXCEPT ![current + 1] = FALSE]
        BY <2>7, <3>2 DEF Install, InstallGeneration, EventsGoto
      <4>2. ~alive'[current + 1] /\ \A g \in Generations : alive'[g] => alive[g]
        BY <1>1, <3>1, <4>1 DEF GenerationsTyped
      <4>3. current + 1 # current
        BY <1>1 DEF Generations
      <4> QED
        BY <1>1, <2>1, <2>2, <3>1, <4>1, <4>2, <4>3 DEF Owning, Stopped
    <3>3. CASE ~Closed
      <4>1. /\ current' = current + 1 /\ events' = "recovered" /\ alive' = alive
        BY <2>7, <3>3 DEF Install, InstallGeneration, EventsGoto
      <4>2. shutdown' = "open"
        BY <2>1, <3>3 DEF Closed
      <4>3. \A g \in Generations : alive[g] => g = current + 1
        BY <1>1, <3>1 DEF Owning
      <4> QED
        BY <4>1, <4>2, <4>3 DEF Owning, Stopped
    <3> QED
      BY <3>2, <3>3
  <2> QED
    BY <1>5, <2>3, <2>4, <2>5, <2>6, <2>7 DEF EventLoop
<1>6. ASSUME StartShutdown \/ ShutdownSteps PROVE Owning'
  <2>1. UNCHANGED <<current, events>>
    BY <1>6, ShutdownFrame
  <2>2. CASE StartShutdown \/ EndDrain \/ StopEvents
    <3>1. UNCHANGED <<alive, cleanup>> /\ shutdown' \notin {"waiting", "done"}
      BY <2>2 DEF StartShutdown, EndDrain, StopEvents
    <3> QED
      BY <2>1, <3>1 DEF Owning, Stopped
  <2>3. CASE CloseCurrent
    <3>1. PICK ending \in {"clean", "failed"} : CloseGeneration(current, ending)
      BY <2>3 DEF CloseCurrent
    <3>2. shutdown' = "waiting"
      BY <2>3 DEF CloseCurrent
    <3>3. resourceErr' <=> cleanup'[current'] = "failed"
      BY <2>1, <2>3, Zenon DEF CloseCurrent
    <3>4. /\ ~alive'[current] /\ \A h \in Generations : alive'[h] => alive[h]
          /\ cleanup'[current] # "open"
      BY <1>1, <3>1, GenerationCloses
    <3> QED
      BY <2>1, <3>2, <3>3, <3>4 DEF Owning, Stopped
  <2>4. CASE FinishShutdown
    <3>1. /\ shutdown = "waiting" /\ events = "done" /\ shutdown' = "done"
          /\ UNCHANGED <<alive, cleanup, resourceErr>>
      BY <2>4 DEF FinishShutdown
    <3> QED
      BY <2>1, <3>1 DEF Owning
  <2> QED
    BY <1>6, <2>2, <2>3, <2>4 DEF ShutdownSteps
<1> QED
  BY <1>3, <1>4, <1>5, <1>6, StepKinds, CallFrame, BrokerFrame
  DEF vars, brokerVars, generationVars, stateVars, eventVars, shutdownVars

\* Owning holds throughout.
LEMMA OwningAlways == Spec => []Owning
<1>1. Init => Owning
  BY Zenon DEF Init, Owning, Stopped, Generations
<1> QED
  BY <1>1, OwningNext, TypesAlways, PTL DEF Spec

\* For every number of generations and recovery attempts: once Shutdown has completed the
\* event loop has ended and no connection is open, wherever in a failure or a recovery
\* Shutdown found the event loop (closeOwnedResources, recoverRuntime).
THEOREM NothingOwned == Spec => []StoppedOwnsNothing
<1>1. Owning => StoppedOwnsNothing
  BY DEF Owning, StoppedOwnsNothing, Stopped
<1> QED
  BY <1>1, OwningAlways, PTL

\* The error that Shutdown reports is the retained cleanup result of the last
\* generation, whether the event loop, a timed-out call or Shutdown closed it first
\* (closeProducerGeneration, closeCurrentGeneration).
THEOREM CleanupReported == Spec => []CleanupResultRetained
<1>1. Owning => CleanupResultRetained
  BY DEF Owning, CleanupResultRetained, Stopped
<1> QED
  BY <1>1, OwningAlways, PTL

-----------------------------------------------------------------------------
(* The trackers of all generations implement PublishOutcomes.              *)

\* register refuses a sequence number that is in use, and no registered call
\* changes its own.
LEMMA DistinctNext == Distinct /\ Types /\ Window /\ [Next]_vars => Distinct'
<1> SUFFICES ASSUME Distinct, Types, Window, [Next]_vars PROVE Distinct'
  OBVIOUS
<1>1. \A q \in tracked : gen'[q] = gen[q] /\ seq'[q] = seq[q]
  <2>1. ASSUME NEW p \in Publications, Admit(p) \/ Refuse(p) \/ Call(p), NEW q \in tracked
        PROVE  gen'[q] = gen[q] /\ seq'[q] = seq[q]
    <3>1. CASE CheckAvailable(p) \/ Reserve(p)
      <4>1. /\ gen' = gen \/ gen' = [gen EXCEPT ![p] = current]
            /\ seq' = seq \/ seq' = [seq EXCEPT ![p] = published[gen[p]] + 1]
        BY <3>1 DEF CheckAvailable, Reserve
      <4>2. q # p
        BY <3>1 DEF CheckAvailable, Reserve, At, Window, Registered
      <4> QED
        BY <4>1, <4>2 DEF Types, CallsTyped, Window
    <3>2. CASE ~(CheckAvailable(p) \/ Reserve(p))
      BY <2>1, <3>2, Zenon
         DEF Admit, Refuse, Call, GiveUpLock, Lock, Register, Commit, SendReturned,
         TransmissionTimeout, AbandonPreflight, CompletePublishError, TakeOutcome, WaitExpired,
         Release
    <3> QED
      BY <3>1, <3>2, Zenon
  <2> QED
    BY <2>1, StepKinds, BrokerFrame, CloseFrame, LoopFrame, ShutdownFrame, Zenon
       DEF vars, callVars
<1>2. ASSUME tracked' \subseteq tracked PROVE Distinct'
  BY <1>1, <1>2, Zenon DEF Distinct
<1>3. ASSUME NEW p \in Publications, Registers(p) PROVE Distinct'
  <2>1. gen' = gen /\ seq' = seq
    <3>1. ASSUME NEW q \in Publications, CheckAvailable(q) \/ Reserve(q) PROVE FALSE
      BY <1>3, <3>1 DEF CheckAvailable, Reserve, Registers, At, trackerVars, Window, Registered
    <3>2. ASSUME NEW q \in Publications, Admit(q) \/ Refuse(q) \/ Call(q)
          PROVE  gen' = gen /\ seq' = seq
      BY <3>1, <3>2, Zenon
         DEF Admit, Refuse, Call, GiveUpLock, Lock, Register, Commit, SendReturned,
         TransmissionTimeout, AbandonPreflight, CompletePublishError, TakeOutcome, WaitExpired,
         Release
    <3> QED
      BY <3>2, StepKinds, BrokerFrame, CloseFrame, LoopFrame, ShutdownFrame DEF vars, callVars
  <2>2. \A q \in tracked : ~(gen[q] = gen[p] /\ seq[q] = seq[p])
    BY <1>3, Zenon DEF Registers, Holder, Tracker
  <2> QED
    BY <1>3, <2>1, <2>2, Zenon DEF Distinct, Registers
<1> QED
  BY <1>2, <1>3, TrackerSteps
  DEF trackerVars, Abandon, FailAll, Complete, ApplyReturns, ApplyConfirm

\* A sequence number finds one attempt at most.
LEMMA OneHolder ==
    ASSUME Distinct, NEW g, NEW n, NEW q \in Holder(g, n)
    PROVE  Holder(g, n) = {q}
  BY Zenon DEF Distinct, Holder, Tracker

\* Completing a set of attempts is Settle.
LEMMA CompleteSettles ==
    ASSUME TrackersTyped, NEW S \in SUBSET tracked, NEW state, Complete(S, state)
    PROVE  Abstract!Settle(S, state)
  BY DEF Complete, Abstract!Settle

\* Every step of the producer is a step of PublishOutcomes or a stutter.
LEMMA StepRefines ==
    Types /\ Window /\ Distinct /\ [Next]_vars => [Abstract!Next]_(Abstract!vars)
<1> SUFFICES ASSUME Types, Window, Distinct, [Next]_vars
             PROVE  [Abstract!Next]_(Abstract!vars)
  OBVIOUS
<1>1. TrackersTyped
  BY DEF Types
<1>2. CASE UNCHANGED trackerVars
  BY <1>2 DEF trackerVars, Abstract!vars
<1>3. ASSUME NEW p \in Publications, Registers(p) PROVE Abstract!Next
  <2>1. p \notin tracked /\ outcome[p] = "none" /\ p \in ActiveCalls
    BY <1>3 DEF Registers, Window, Registered, Unregistered, ActiveCalls, Active, Critical
  <2>2. tracked \subseteq ActiveCalls \ {p}
    BY <2>1 DEF Window, Registered, ActiveCalls, Active, Critical
  <2>3. IsFiniteSet(ActiveCalls \ {p}) /\ Cardinality(ActiveCalls \ {p}) = active - 1
    BY <2>1, ActiveFinite, FS_RemoveElement, Zenon DEF Window
  <2>4. Cardinality(tracked) <= active - 1 /\ Cardinality(tracked) \in Nat
    BY <2>2, <2>3, FS_Subset, FS_CardinalityType
  <2>5. Cardinality(tracked) < MaxOutstanding
    BY <2>4 DEF Window
  <2>6. Abstract!Begin(p)
    BY <1>3, <2>1, <2>5 DEF Registers, Abstract!Begin, Cardinality, Abstract!Cardinality
  <2> QED
    BY <2>6 DEF Abstract!Next
<1>4. ASSUME NEW S \in SUBSET tracked, NEW state \in LocalStates, Complete(S, state)
      PROVE  Abstract!Next
  <2>1. Abstract!Settle(S, state) /\ S \in SUBSET Publications
    BY <1>1, <1>4, CompleteSettles DEF TrackersTyped
  <2> QED
    BY <2>1 DEF Abstract!Next, Abstract!GiveUp, Abstract!LocalStates, LocalStates
<1>5. ASSUME NEW p \in Publications, NEW state \in LocalStates, Abandon(p, state)
      PROVE  Abstract!Next
  <2>1. Holder(gen[p], seq[p]) \in SUBSET tracked
    BY DEF Holder, Tracker
  <2> QED
    BY <1>4, <1>5, <2>1 DEF Abandon
<1>6. ASSUME FailAll PROVE Abstract!Next
  <2>1. Tracker(current) \in SUBSET tracked
    BY DEF Tracker
  <2> QED
    BY <1>4, <1>6, <2>1 DEF FailAll, LocalStates
<1>7. ASSUME NEW R, ApplyReturns(R) PROVE Abstract!Next
  <2> DEFINE S == UNION {Holder(gen[r], seq[r]) : r \in R}
  <2>1. S \in SUBSET tracked
    BY DEF Holder, Tracker
  <2>2. marked' = marked \cup S /\ UNCHANGED <<tracked, outcome>>
    BY <1>7 DEF ApplyReturns
  <2> HIDE DEF S
  <2>3. Abstract!Mark(S) /\ S \in SUBSET Publications
    BY <1>1, <2>1, <2>2 DEF Abstract!Mark, TrackersTyped
  <2> QED
    BY <2>3 DEF Abstract!Next
<1>8. ASSUME ApplyConfirm PROVE [Abstract!Next]_(Abstract!vars)
  <2> DEFINE H == Holder(gen[confirming], tag[confirming])
             state == ConfirmState(H, confirming)
  <2>1. Complete(H, state)
    BY <1>8 DEF ApplyConfirm
  <2>2. CASE H = {}
    <3>1. outcome' = outcome /\ tracked' = tracked /\ marked' = marked
      BY <1>1, <2>1, <2>2, Zenon DEF Complete, TrackersTyped
    <3> QED
      BY <3>1 DEF Abstract!vars
  <2>3. CASE H # {}
    <3>1. PICK q \in H : TRUE
      BY <2>3
    <3>2. H = {q} /\ q \in tracked /\ q \in Publications
      <4>1. H = {q}
        BY <3>1, OneHolder
      <4>2. q \in tracked
        BY <3>1 DEF Holder, Tracker
      <4> QED
        BY <1>1, <4>1, <4>2 DEF TrackersTyped
    <3>3. state \in IF q \in marked THEN {"returned"} ELSE {"confirmed", "rejected"}
      BY <3>2 DEF ConfirmState
    <3> HIDE DEF H, state
    <3>4. Abstract!Settle({q}, state)
      BY <1>1, <2>1, <3>2, CompleteSettles
    <3>5. Abstract!Decide(q, state) /\ state \in Abstract!BrokerStates
      BY <3>3, <3>4 DEF Abstract!Decide, Abstract!BrokerStates
    <3> QED
      BY <3>2, <3>5 DEF Abstract!Next
  <2> QED
    BY <2>2, <2>3
<1> QED
  BY <1>2, <1>3, <1>5, <1>6, <1>7, <1>8, TrackerSteps

\* Distinct holds throughout.
LEMMA DistinctAlways == Spec => []Distinct
<1>1. Init => Distinct
  BY DEF Init, Distinct
<1> QED
  BY <1>1, DistinctNext, TypesAlways, PTL DEF Spec

\* The producer implements PublishOutcomes across generations, recoveries and Shutdown:
\* each attempt gets one outcome, a correlated return decides what its confirm means, and
\* no more than MaxOutstanding attempts wait in all trackers together.
THEOREM ProducerImplementsOutcomes == Spec => ImplementsOutcomes
<1>1. Init => Abstract!Init
  BY DEF Init, Abstract!Init
<1> QED
  BY <1>1, StepRefines, TypesAlways, DistinctAlways, PTL
  DEF Spec, ImplementsOutcomes, Abstract!Spec

-----------------------------------------------------------------------------
(* Waiting for an outcome.                                                 *)

\* A registered call has its attempt in a tracker or its outcome in its channel.
Awaiting ==
    \A p \in Publications : pc[p] \in Registered => p \in tracked \/ outcome[p] # "none"

\* A call is registered by register and nowhere else.
LEMMA RegisteredSteps ==
    ASSUME Types, [Next]_vars, NEW q \in Publications, pc'[q] \in Registered
    PROVE  pc[q] \in Registered \/ q \in tracked'
<1>1. pc \in [Publications -> CallPoints]
  BY DEF Types, CallsTyped
<1>2. ASSUME NEW p \in Publications, \/ Admit(p) \/ Refuse(p) \/ Lock(p) \/ GiveUpLock(p)
                                     \/ CheckAvailable(p) \/ Reserve(p) \/ Commit(p)
      PROVE  pc[q] \in Registered
  BY <1>1, <1>2 DEF Admit, Refuse, Lock, GiveUpLock, CheckAvailable, Reserve, Commit, Answer, Goto,
     At, Registered
<1>3. ASSUME NEW p \in Publications, Register(p) PROVE pc[q] \in Registered \/ q \in tracked'
  BY <1>1, <1>3 DEF Register, Answer, Goto, At, Registered
<1>4. ASSUME NEW p \in Publications, \/ SendReturned(p) \/ TransmissionTimeout(p)
                                     \/ AbandonPreflight(p) \/ CompletePublishError(p)
                                     \/ TakeOutcome(p) \/ WaitExpired(p) \/ Release(p)
      PROVE  pc[q] \in Registered
  BY <1>1, <1>4 DEF SendReturned, TransmissionTimeout, AbandonPreflight, CompletePublishError,
     TakeOutcome, WaitExpired, Release, Answer, Goto, At, Registered
<1> QED
  BY <1>2, <1>3, <1>4, StepKinds, BrokerFrame, CloseFrame, LoopFrame, ShutdownFrame, Zenon
  DEF Call, vars, callVars

\* Whoever takes an attempt out of a tracker leaves an outcome, and no outcome is
\* taken back.
LEMMA CompletionLeavesOutcome ==
    ASSUME Types, [Next]_vars, NEW q \in Publications, q \in tracked \/ outcome[q] # "none"
    PROVE  q \in tracked' \/ outcome'[q] # "none"
<1>1. ASSUME NEW S, NEW state, Complete(S, state), state # "none"
      PROVE  q \in tracked' \/ outcome'[q] # "none"
  BY <1>1, Zenon DEF Complete
<1>2. ASSUME NEW p \in Publications, NEW state \in LocalStates, Abandon(p, state)
      PROVE  q \in tracked' \/ outcome'[q] # "none"
  <2>1. state # "none"
    BY DEF LocalStates
  <2> QED
    BY <1>1, <1>2, <2>1, Zenon DEF Abandon
<1>3. CASE FailAll
  <2>1. "ambiguous" # "none"
    OBVIOUS
  <2> QED
    BY <1>1, <1>3, <2>1, Zenon DEF FailAll
<1>4. CASE ApplyConfirm
  <2>1. PICK H, c : Complete(H, ConfirmState(H, c))
    BY <1>4, Zenon DEF ApplyConfirm
  <2>2. ConfirmState(H, c) # "none"
    BY DEF ConfirmState
  <2> QED
    BY <1>1, <2>1, <2>2, Zenon
<1>5. CASE UNCHANGED trackerVars \/ \E R \in SUBSET returns : ApplyReturns(R)
  BY <1>5, Zenon DEF trackerVars, ApplyReturns
<1>6. CASE \E p \in Publications : Registers(p)
  BY <1>6, Zenon DEF Registers
<1> QED
  BY <1>2, <1>3, <1>4, <1>5, <1>6, TrackerSteps, Zenon

\* For every window, across generations, recoveries, timeouts and Shutdown: a call that
\* waits for its outcome has it in its channel or its attempt in a tracker, never
\* neither and never both, so that it is answered once and is not left waiting
\* (complete, completePublishError, outcomeOrCancellation).
THEOREM NoneWaitsInVain == Spec => []NoWaitInVain
<1>1. Init => Awaiting
  BY DEF Init, Awaiting, Registered
<1>2. Awaiting /\ Types /\ [Next]_vars => Awaiting'
  BY RegisteredSteps, CompletionLeavesOutcome DEF Awaiting
<1>3. Window /\ Awaiting => NoWaitInVain
  BY DEF Window, Awaiting, NoWaitInVain, Registered
<1> QED
  BY <1>1, <1>2, <1>3, TypesAlways, PTL DEF Spec

-----------------------------------------------------------------------------
(* Results.                                                                *)

\* Nothing leaves before the commit point, and what the client refused has not left.
LEMMA SendingNext == Sending /\ Types /\ [Next]_vars => Sending'
<1> SUFFICES ASSUME Sending, Types, [Next]_vars, NEW q \in Publications PROVE Sends(q)'
  BY DEF Sending
<1> USE DEF Unregistered
<1>1. /\ pc \in [Publications -> CallPoints]
      /\ send \in [Publications -> {"none", "pending", "ok", "preflight", "error"}]
      /\ result \in [Publications -> PublishStates \cup {"none"}]
      /\ msg \in [Publications -> {"unsent", "wire", "acked", "nacked", "returned", "returnAcked"}]
      /\ Sends(q)
  BY DEF Types, CallsTyped, BrokerTyped, Sending
<1>2. ASSUME UNCHANGED <<pc, send, result, msg>> PROVE Sends(q)'
  BY <1>1, <1>2 DEF Sends
<1>3. ASSUME NEW p \in Publications,
             \/ Admit(p) \/ Refuse(p) \/ GiveUpLock(p) \/ Lock(p) \/ CheckAvailable(p)
             \/ Reserve(p) \/ Register(p)
      PROVE  Sends(q)'
  <2>1. msg' = msg
    BY <1>3, CallFrame DEF Call
  <2>2. CASE Admit(p) \/ Refuse(p) \/ GiveUpLock(p)
    BY <1>1, <2>1, <2>2 DEF Admit, Refuse, GiveUpLock, Answer, Goto, At, Sends
  <2>3. CASE Lock(p) \/ CheckAvailable(p)
    BY <1>1, <2>1, <2>3 DEF Lock, CheckAvailable, Answer, Goto, At, Sends
  <2>4. CASE Reserve(p) \/ Register(p)
    BY <1>1, <2>1, <2>4, Zenon DEF Reserve, Register, Answer, Goto, At, Sends
  <2> QED
    BY <1>3, <2>2, <2>3, <2>4
<1>4. ASSUME NEW p \in Publications, Commit(p) \/ SendReturned(p) \/ TransmissionTimeout(p)
      PROVE  Sends(q)'
  <2>1. msg' = msg
    BY <1>4, CallFrame DEF Call
  <2>2. CASE Commit(p)
    BY <1>1, <2>1, <2>2 DEF Commit, Answer, Goto, At, Sends
  <2>3. CASE SendReturned(p)
    BY <1>1, <2>1, <2>3 DEF SendReturned, Goto, At, Sends
  <2>4. CASE TransmissionTimeout(p)
    BY <1>1, <2>1, <2>4 DEF TransmissionTimeout, Goto, At, Sends
  <2> QED
    BY <1>4, <2>2, <2>3, <2>4
<1>5. ASSUME NEW p \in Publications,
             \/ AbandonPreflight(p) \/ CompletePublishError(p) \/ TakeOutcome(p)
             \/ WaitExpired(p) \/ Release(p)
      PROVE  Sends(q)'
  <2>1. msg' = msg
    BY <1>5, CallFrame DEF Call
  <2>2. CASE AbandonPreflight(p)
    BY <1>1, <2>1, <2>2, ZenonT(20) DEF AbandonPreflight, Answer, Goto, At, Sends
  <2>3. CASE CompletePublishError(p)
    BY <1>1, <2>1, <2>3, ZenonT(20) DEF CompletePublishError, Answer, Goto, At, Sends
  <2>4. CASE TakeOutcome(p) \/ WaitExpired(p)
    BY <1>1, <2>1, <2>4, ZenonT(20) DEF TakeOutcome, WaitExpired, Answer, Goto, At, Sends
  <2>5. CASE Release(p)
    BY <1>1, <2>1, <2>5, ZenonT(20) DEF Release, Goto, At, Sends
  <2> QED
    BY <1>5, <2>2, <2>3, <2>4, <2>5
<1>6. ASSUME NEW p \in Publications, Broker(p) PROVE Sends(q)'
  <2>1. UNCHANGED <<pc, result>>
    BY <1>6, BrokerFrame
  <2>2. CASE Transmit(p) \/ SendRefused(p)
    BY <1>1, <2>1, <2>2, Zenon DEF Transmit, SendRefused, SendAnswer, At, Sends, brokerVars
  <2>3. CASE BrokerConfirm(p) \/ BrokerReturn(p) \/ BrokerConfirmReturned(p)
    BY <1>1, <2>1, <2>3, Zenon DEF BrokerConfirm, BrokerReturn, BrokerConfirmReturned, Sends
  <2> QED
    BY <1>6, <2>2, <2>3 DEF Broker
<1> QED
  BY <1>2, <1>3, <1>4, <1>5, <1>6, StepKinds, CloseFrame, LoopFrame, ShutdownFrame, Zenon
  DEF Call, vars, callVars, brokerVars

\* What the broker may still do to a message.
LEMMA MessageSteps ==
    ASSUME Types, Sending, [Next]_vars, NEW p \in Publications
    PROVE  /\ msg[p] \in Final => msg'[p] = msg[p]
           /\ msg[p] \in Returned => msg'[p] \in Returned
           /\ msg[p] = "unsent" /\ send[p] # "pending" => msg'[p] = "unsent"
           /\ msg'[p] \in Returned => msg[p] \in Returned \/ p \in returns'
<1>1. CASE UNCHANGED msg
  BY <1>1, Zenon DEF Final, Returned
<1>2. ASSUME NEW q \in Publications, Broker(q)
      PROVE  /\ msg[p] \in Final => msg'[p] = msg[p]
             /\ msg[p] \in Returned => msg'[p] \in Returned
             /\ msg[p] = "unsent" /\ send[p] # "pending" => msg'[p] = "unsent"
             /\ msg'[p] \in Returned => msg[p] \in Returned \/ p \in returns'
  <2>1. send[q] = "pending" => msg[q] = "unsent"
    BY DEF Sending, Sends
  <2> QED
    BY <1>2, <2>1, Zenon
    DEF Broker, Transmit, SendRefused, BrokerConfirm, BrokerReturn, BrokerConfirmReturned,
        Types, BrokerTyped, Final, Returned, brokerVars
<1> QED
  BY <1>1, <1>2, StepKinds, CallFrame, CloseFrame, LoopFrame, ShutdownFrame, Zenon
  DEF vars, brokerVars

\* The event loop takes notifications out of the buffers; a return it takes is applied.
LEMMA BufferSteps ==
    ASSUME EventLoop
    PROVE  /\ returns' = returns \/ \E R \in SUBSET returns : ApplyReturns(R)
           /\ confirms' \subseteq confirms
  BY Zenon DEF EventLoop, ReceiveReturn, ReceiveConfirm, DrainedReturns, ApplyConfirm, NoticeLoss,
     NoticeFailure, NoticeStop, BeginRecovery, FailPending, CloseFailed, GiveUpRecovery,
     AttemptFails, AttemptSucceeds, Install, InstallGeneration, FinishRecovery, brokerVars

\* An attempt that was once taken for another stays recorded as such.
LEMMA CrossedStays == ASSUME [Next]_vars PROVE crossed \subseteq crossed'
  BY TrackerSteps
  DEF trackerVars, Registers, Abandon, FailAll, ApplyReturns, ApplyConfirm

\* Returns are marked while their attempt is tracked, before its confirm is applied.
LEMMA NotifyingNext == Notifying /\ Sending /\ Types /\ [Next]_vars => Notifying'
<1> SUFFICES ASSUME Notifying, Sending, Types, [Next]_vars PROVE Notifying'
  OBVIOUS
<1>1. /\ returns \subseteq Publications /\ confirms \subseteq Publications
      /\ tracked \subseteq Publications /\ marked \subseteq Publications
      /\ events = "confirming" => confirming \in Publications
  BY DEF Types, TrackersTyped, BrokerTyped, PhasesTyped
<1>2. /\ \A p \in Publications : msg[p] \in Final => msg'[p] \in Final
      /\ \A p \in Publications : msg[p] \in Returned => msg'[p] \in Returned
      /\ \A p \in Publications : msg'[p] \in Returned => msg[p] \in Returned \/ p \in returns'
  BY MessageSteps, Zenon
<1>3. \A r \in returns' : msg'[r] \in Returned
  <2>1. ASSUME NEW p \in Publications, Broker(p) PROVE \A r \in returns' : msg'[r] \in Returned
    <3>1. returns' = returns \/ (returns' = returns \cup {p} /\ msg'[p] = "returned")
      BY <2>1, Zenon DEF Broker, Transmit, SendRefused, BrokerConfirm, BrokerReturn,
         BrokerConfirmReturned, Types, BrokerTyped, brokerVars
    <3> QED
      BY <1>1, <1>2, <3>1, Zenon DEF Notifying, Returned
  <2>2. ASSUME returns' \subseteq returns PROVE \A r \in returns' : msg'[r] \in Returned
    BY <1>1, <1>2, <2>2, Zenon DEF Notifying
  <2> QED
    BY <2>1, <2>2, StepKinds, CallFrame, CloseFrame, BufferSteps, ShutdownFrame, Zenon
    DEF vars, brokerVars, ApplyReturns
<1>4. \A c \in confirms' : msg'[c] \in Final
  <2>1. ASSUME NEW p \in Publications, Broker(p) PROVE \A c \in confirms' : msg'[c] \in Final
    <3>1. confirms' = confirms \/ (confirms' = confirms \cup {p} /\ msg'[p] \in Final)
      BY <2>1, Zenon DEF Broker, Transmit, SendRefused, BrokerConfirm, BrokerReturn,
         BrokerConfirmReturned, Types, BrokerTyped, brokerVars, Final
    <3> QED
      BY <1>1, <1>2, <3>1, Zenon DEF Notifying
  <2>2. ASSUME confirms' \subseteq confirms PROVE \A c \in confirms' : msg'[c] \in Final
    BY <1>1, <1>2, <2>2, Zenon DEF Notifying
  <2> QED
    BY <2>1, <2>2, StepKinds, CallFrame, CloseFrame, BufferSteps, ShutdownFrame, Zenon
    DEF vars, brokerVars, ApplyReturns
<1>5. events' = "confirming" => msg'[confirming'] \in Final /\ confirming' \notin returns'
  <2>1. ASSUME NEW p \in Publications, ReceiveConfirm(p), events' = "confirming"
        PROVE  msg'[confirming'] \in Final /\ confirming' \notin returns'
    <3>1. /\ p \in confirms /\ confirming' = p /\ gen[p] = current
          /\ returns' = returns \ DrainedReturns
      BY <2>1, Zenon DEF ReceiveConfirm, ApplyReturns, EventsGoto
    <3> QED
      BY <1>1, <1>2, <3>1, Zenon DEF Notifying, DrainedReturns
  <2>2. ASSUME UNCHANGED <<events, confirming>>, events = "confirming",
               confirming \notin returns => confirming \notin returns'
        PROVE  msg'[confirming'] \in Final /\ confirming' \notin returns'
    BY <1>1, <1>2, <2>2, Zenon DEF Notifying
  <2>3. ASSUME NEW p \in Publications, Broker(p), events = "confirming"
        PROVE  confirming \notin returns => confirming \notin returns'
    <3>1. returns' = returns \/ (returns' = returns \cup {p} /\ msg[p] = "wire")
      BY <2>3, Zenon DEF Broker, Transmit, SendRefused, BrokerConfirm, BrokerReturn,
         BrokerConfirmReturned, brokerVars
    <3> QED
      BY <2>3, <3>1 DEF Notifying, Final
  <2>4. ASSUME EventLoop, events' = "confirming" PROVE \E p \in Publications : ReceiveConfirm(p)
    BY <2>4, Zenon
       DEF EventLoop, ReceiveReturn, ApplyConfirm, NoticeLoss, NoticeFailure, NoticeStop,
       BeginRecovery, FailPending, CloseFailed, GiveUpRecovery, AttemptFails, AttemptSucceeds,
       Install, InstallGeneration, FinishRecovery, EventsGoto
  <2> QED
    BY <2>1, <2>2, <2>3, <2>4, StepKinds, CallFrame, BrokerFrame, CloseFrame, ShutdownFrame, Zenon
    DEF vars, brokerVars, eventVars
<1>6. \A p \in tracked' : msg'[p] \in Returned => p \in returns' \/ p \in marked'
  <2>1. ASSUME NEW p \in tracked, msg[p] \in Returned,
               p \in marked => p \in marked', p \in returns => p \in returns'
        PROVE  p \in returns' \/ p \in marked'
    BY <2>1 DEF Notifying
  <2>2. ASSUME NEW R, ApplyReturns(R), NEW p \in tracked, msg[p] \in Returned
        PROVE  p \in returns' \/ p \in marked'
    <3>1. p \in Holder(gen[p], seq[p])
      BY DEF Holder, Tracker
    <3> QED
      BY <2>2, <3>1, Zenon DEF ApplyReturns, Notifying
  <2>3. ASSUME NEW p \in tracked', msg'[p] \in Returned, p \notin tracked PROVE FALSE
    <3>1. Registers(p)
      BY <2>3, TrackerSteps DEF trackerVars, Registers, Abandon, FailAll, Complete, ApplyReturns,
         ApplyConfirm
    <3>2. p \in Publications /\ pc[p] = "reserved"
      BY <2>3, <3>1, TrackersTypedNext, Zenon DEF Registers, TrackersTyped, Types
    <3>3. msg[p] = "unsent" /\ send[p] = "none"
      BY <3>2, Zenon DEF Sending, Sends, Unregistered
    <3>4. msg'[p] = "unsent"
      BY <3>2, <3>3, MessageSteps, Zenon
    <3> QED
      BY <2>3, <3>4 DEF Returned
  <2>4. ASSUME NEW p \in tracked, p \in tracked', p \in marked PROVE p \in marked'
    BY <2>4, TrackerSteps DEF trackerVars, Registers, Abandon, FailAll, Complete, ApplyReturns,
       ApplyConfirm
  <2>5. returns \subseteq returns' \/ \E R \in SUBSET returns : ApplyReturns(R)
    <3>1. ASSUME NEW p \in Publications, Broker(p) PROVE returns \subseteq returns'
      BY <3>1, Zenon DEF Broker, Transmit, SendRefused, BrokerConfirm, BrokerReturn,
         BrokerConfirmReturned, brokerVars
    <3> QED
      BY <3>1, StepKinds, CallFrame, CloseFrame, BufferSteps, ShutdownFrame, Zenon
         DEF vars, brokerVars
  <2> QED
    BY <1>1, <1>2, <2>1, <2>2, <2>3, <2>4, <2>5
<1>7. \A p \in marked' : p \in crossed' \/ msg'[p] \in Returned
  <2>1. crossed \subseteq crossed'
    BY CrossedStays
  <2>2. ASSUME NEW R \in SUBSET returns, ApplyReturns(R), NEW p \in marked', p \notin marked
        PROVE  p \in crossed' \/ msg'[p] \in Returned
    <3>1. PICK r \in R : p \in Holder(gen[r], seq[r])
      BY <2>2 DEF ApplyReturns
    <3>2. CASE p # r
      BY <2>2, <3>1, <3>2 DEF ApplyReturns
    <3>3. CASE p = r
      <4>1. p \in returns
        BY <3>3
      <4> QED
        BY <1>1, <1>2, <4>1 DEF Notifying
    <3> QED
      BY <3>2, <3>3
  <2>3. ASSUME NEW p \in marked PROVE p \in crossed' \/ msg'[p] \in Returned
    BY <1>1, <1>2, <2>1, Zenon DEF Notifying
  <2>4. marked' \subseteq marked \/ \E R \in SUBSET returns : ApplyReturns(R)
    BY TrackerSteps, Zenon DEF trackerVars, Registers, Abandon, FailAll, Complete, ApplyConfirm
  <2> QED
    BY <2>2, <2>3, <2>4
<1> QED
  BY <1>3, <1>4, <1>5, <1>6, <1>7, Zenon DEF Notifying

\* What a call answers: what it found out itself, or the outcome the tracker gave it.
LEMMA ResultSteps ==
    ASSUME Types, Sending, [Next]_vars, NEW q \in Publications
    PROVE  /\ \/ result'[q] \in {result[q], "ambiguous"}
              \/ result'[q] = "notSent" /\ send[q] = "none" /\ send'[q] = "none" /\ msg[q] = "unsent"
              \/ result'[q] = outcome[q] /\ pc[q] \in {"erring", "waiting"}
           /\ result[q] # "none" /\ send[q] = "none" => send'[q] = "none"
<1> DEFINE Goal ==
      /\ \/ result'[q] \in {result[q], "ambiguous"}
         \/ result'[q] = "notSent" /\ send[q] = "none" /\ send'[q] = "none" /\ msg[q] = "unsent"
         \/ result'[q] = outcome[q] /\ pc[q] \in {"erring", "waiting"}
      /\ result[q] # "none" /\ send[q] = "none" => send'[q] = "none"
<1> USE DEF Unregistered
<1>1. /\ pc \in [Publications -> CallPoints]
      /\ send \in [Publications -> {"none", "pending", "ok", "preflight", "error"}]
      /\ result \in [Publications -> PublishStates \cup {"none"}]
      /\ Sends(q)
  BY DEF Types, CallsTyped, Sending
<1>2. ASSUME UNCHANGED <<send, result>> PROVE Goal
  BY <1>2
<1>3. ASSUME NEW p \in Publications,
             \/ Admit(p) \/ Refuse(p) \/ GiveUpLock(p) \/ Lock(p) \/ CheckAvailable(p)
             \/ Reserve(p) \/ Register(p)
      PROVE  Goal
  BY <1>1, <1>3, Zenon
  DEF Admit, Refuse, GiveUpLock, Lock, CheckAvailable, Reserve, Register, Answer, At, Sends
<1>4. ASSUME NEW p \in Publications, Commit(p) \/ SendReturned(p) \/ TransmissionTimeout(p)
      PROVE  Goal
  BY <1>1, <1>4, Zenon DEF Commit, SendReturned, TransmissionTimeout, Answer, At, Sends
<1>5. ASSUME NEW p \in Publications,
             \/ AbandonPreflight(p) \/ CompletePublishError(p) \/ TakeOutcome(p)
             \/ WaitExpired(p) \/ Release(p)
      PROVE  Goal
  BY <1>1, <1>5, Zenon
  DEF AbandonPreflight, CompletePublishError, TakeOutcome, WaitExpired, Release, Answer, At, Sends
<1>6. ASSUME NEW p \in Publications, Broker(p) PROVE Goal
  BY <1>1, <1>6, BrokerFrame, Zenon
  DEF Broker, Transmit, SendRefused, BrokerConfirm, BrokerReturn, BrokerConfirmReturned,
     SendAnswer
<1> QED
  BY <1>2, <1>3, <1>4, <1>5, <1>6, StepKinds, CloseFrame, LoopFrame, ShutdownFrame, Zenon
  DEF Call, vars, callVars

\* The confirm the loop applies to its own attempt says what happened to the message.
LEMMA ConfirmHonest ==
    ASSUME Types, Distinct, Notifying, ApplyConfirm, NEW q \in Publications \ crossed',
           outcome'[q] # outcome[q]
    PROVE  \/ outcome'[q] = "confirmed" /\ msg[q] = "acked"
           \/ outcome'[q] = "rejected" /\ msg[q] = "nacked"
           \/ outcome'[q] = "returned" /\ msg[q] = "returnAcked"
<1> DEFINE H == Holder(gen[confirming], tag[confirming])
<1>1. /\ Complete(H, ConfirmState(H, confirming)) /\ crossed' = crossed \cup (H \ {confirming})
      /\ events = "confirming"
  BY Zenon DEF ApplyConfirm
<1>2. q \in H /\ outcome'[q] = ConfirmState(H, confirming)
  BY <1>1, Zenon DEF Complete
<1>3. q = confirming /\ H = {q} /\ q \in tracked
  <2>1. q = confirming
    BY <1>1, <1>2, Zenon
  <2>2. H = {q}
    BY <1>2, OneHolder
  <2>3. q \in tracked
    BY <1>2 DEF Holder, Tracker
  <2> QED
    BY <2>1, <2>2, <2>3, Zenon
<1>4. msg[q] \in Final /\ q \notin returns
  BY <1>1, <1>3, Zenon DEF Notifying
<1>5. msg[q] \in Returned <=> q \in marked
  BY <1>1, <1>3, <1>4, Zenon DEF Notifying
<1> QED
  BY <1>2, <1>3, <1>4, <1>5, Zenon DEF ConfirmState, Final, Returned

\* What the tracker decides is what happened, and not-sent only as its call leaves.
LEMMA OutcomeSteps ==
    ASSUME Types, Distinct, Notifying, [Next]_vars, NEW q \in Publications \ crossed',
           outcome'[q] # outcome[q]
    PROVE  \/ outcome'[q] = "ambiguous"
           \/ outcome'[q] = "confirmed" /\ msg[q] = "acked"
           \/ outcome'[q] = "rejected" /\ msg[q] = "nacked"
           \/ outcome'[q] = "returned" /\ msg[q] = "returnAcked"
           \/ outcome'[q] = "notSent" /\ pc'[q] = "releasing"
<1>1. ASSUME NEW p \in Publications, NEW state, Abandon(p, state)
      PROVE  p = q /\ outcome'[q] = state
  BY <1>1, Zenon DEF Abandon, Complete
<1>2. ASSUME NEW p \in Publications, Admit(p) \/ Refuse(p) \/ Call(p)
      PROVE  \/ outcome'[q] = "ambiguous"
             \/ outcome'[q] = "notSent" /\ pc'[q] = "releasing"
  <2>1. ASSUME UNCHANGED outcome PROVE FALSE
    BY <2>1
  <2>2. CASE Commit(p) \/ AbandonPreflight(p)
    BY <1>1, <2>1, <2>2 DEF Commit, AbandonPreflight, Answer, Goto, trackerVars, Types, CallsTyped
  <2>3. CASE CompletePublishError(p) \/ WaitExpired(p)
    BY <1>1, <2>1, <2>3, Zenon DEF CompletePublishError, WaitExpired, trackerVars
  <2> QED
    BY <1>2, <2>1, <2>2, <2>3, Zenon
    DEF Call, Admit, Refuse, GiveUpLock, Lock, CheckAvailable, Reserve, Register, SendReturned,
        TransmissionTimeout, TakeOutcome, Release, trackerVars
<1>3. ASSUME FailAll PROVE outcome'[q] = "ambiguous"
  BY <1>3 DEF FailAll, Complete
<1>4. EventLoop => UNCHANGED outcome \/ FailAll \/ ApplyConfirm
  BY Zenon DEF EventLoop, ReceiveReturn, ReceiveConfirm, ApplyReturns, NoticeLoss, NoticeFailure,
     NoticeStop, BeginRecovery, FailPending, CloseFailed, GiveUpRecovery, AttemptFails,
     AttemptSucceeds, Install, InstallGeneration, FinishRecovery, trackerVars
<1> QED
  BY <1>2, <1>3, <1>4, ConfirmHonest, StepKinds, BrokerFrame, CloseFrame, ShutdownFrame, Zenon
  DEF vars, trackerVars

\* A call that leaves Publish does not come back.
LEMMA LeavingStays ==
    ASSUME Types, [Next]_vars, NEW q \in Publications, pc[q] \in {"releasing", "done"}
    PROVE  pc'[q] \in {"releasing", "done"}
<1>1. ASSUME NEW p \in Publications, Admit(p) \/ Refuse(p) \/ Call(p)
      PROVE  pc'[q] \in {"releasing", "done"}
  BY <1>1, Zenon
  DEF Call, Admit, Refuse, GiveUpLock, Lock, CheckAvailable, Reserve, Register, Commit,
      SendReturned, TransmissionTimeout, AbandonPreflight, CompletePublishError, TakeOutcome,
      WaitExpired, Release, Answer, Goto, At, Types, CallsTyped
<1> QED
  BY <1>1, StepKinds, BrokerFrame, CloseFrame, LoopFrame, ShutdownFrame, Zenon DEF vars, callVars

\* No step makes an outcome or a result untrue.
LEMMA TruthfulNext ==
    Truthful /\ Notifying /\ Sending /\ Distinct /\ Types /\ [Next]_vars => Truthful'
<1> SUFFICES ASSUME Truthful, Notifying, Sending, Distinct, Types, [Next]_vars,
                    NEW q \in Publications \ crossed'
             PROVE  Honest(q)'
  BY DEF Truthful
<1>1. Honest(q)
  BY CrossedStays DEF Truthful
<1>2. /\ msg[q] \in Final => msg'[q] = msg[q]
      /\ msg[q] = "unsent" /\ send[q] # "pending" => msg'[q] = "unsent"
  BY MessageSteps, Zenon
<1>3. /\ outcome'[q] = "confirmed" => msg'[q] = "acked"
      /\ outcome'[q] = "rejected" => msg'[q] = "nacked"
      /\ outcome'[q] = "returned" => msg'[q] = "returnAcked"
      /\ outcome'[q] = "notSent" => pc'[q] \in {"releasing", "done"}
  <2>1. CASE outcome'[q] = outcome[q]
    BY <1>1, <1>2, <2>1, LeavingStays DEF Honest, Final
  <2>2. CASE outcome'[q] # outcome[q]
    BY <1>2, <2>2, OutcomeSteps DEF Final
  <2> QED
    BY <2>1, <2>2, Zenon
<1>4. /\ result'[q] = "confirmed" => msg'[q] = "acked"
      /\ result'[q] = "rejected" => msg'[q] = "nacked"
      /\ result'[q] = "returned" => msg'[q] = "returnAcked"
      /\ result'[q] = "notSent" => send'[q] = "none" /\ msg'[q] = "unsent"
  <2>1. CASE result'[q] = result[q]
    BY <1>1, <1>2, <2>1, ResultSteps, Zenon DEF Honest, Final
  <2>2. CASE result'[q] = "ambiguous"
    BY <2>2
  <2>3. CASE result'[q] = "notSent" /\ send[q] = "none" /\ send'[q] = "none" /\ msg[q] = "unsent"
    BY <1>2, <2>3
  <2>4. CASE result'[q] = outcome[q] /\ pc[q] \in {"erring", "waiting"}
    BY <1>1, <1>2, <2>4, Zenon DEF Honest, Final
  <2> QED
    BY <2>1, <2>2, <2>3, <2>4, ResultSteps, Zenon
<1> QED
  BY <1>3, <1>4, Zenon DEF Honest

\* Across recoveries, timeouts, orphaned sends and Shutdown, a call that no other
\* publication's return, confirm or abandonment was taken for answers what the broker did
\* with its message, and not-sent only if the message never left.
THEOREM ResultsTrue == Spec => []UncrossedResultsTrue
<1>1. Init => Sending /\ Notifying /\ Truthful
  <2> SUFFICES ASSUME Init PROVE Sending /\ Notifying /\ Truthful
    OBVIOUS
  <2>1. Sending
    BY DEF Init, Sending, Sends
  <2>2. Notifying
    BY DEF Init, Notifying
  <2>3. Truthful
    BY DEF Init, Truthful, Honest
  <2> QED
    BY <2>1, <2>2, <2>3
<1>2. Truthful => UncrossedResultsTrue
  BY DEF Truthful, Honest, UncrossedResultsTrue
<1> QED
  BY <1>1, <1>2, SendingNext, NotifyingNext, TruthfulNext, TypesAlways, DistinctAlways, PTL
  DEF Spec
=============================================================================
