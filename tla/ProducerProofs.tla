--------------------------- MODULE ProducerProofs ---------------------------
(***************************************************************************)
(* Proofs about Producer, for any publications, window, number of          *)
(* generations and recovery attempts: the window of calls, the protection  *)
(* that publishMu gives a generation, and the refusal of new calls while   *)
(* one is replaced.                                                        *)
(***************************************************************************)
EXTENDS Producer, FiniteSetTheorems, TLAPS

ActiveCalls == {p \in Publications : pc[p] \in Active}

Unregistered == {"idle", "locking", "locked", "available", "reserved"}
Registered == {"registered", "sending", "abandoning", "erring", "waiting"}

\* The window: attempts are in a tracker only between register and the outcome.
Window ==
    /\ pc \in [Publications -> CallPoints]
    /\ tracked \subseteq Publications
    /\ active \in Nat
    /\ active = Cardinality(ActiveCalls) /\ active <= MaxOutstanding
    /\ \A p \in tracked : pc[p] \in Registered /\ outcome[p] = "none"
    /\ \A p \in Publications : pc[p] \in Unregistered => outcome[p] = "none"

\* publishMu: its holder is the only call between the lock and the end of its send.
Locking ==
    /\ pc \in [Publications -> CallPoints]
    /\ gen \in [Publications -> Int] /\ current \in Int
    /\ \A p \in Publications : pc[p] \in Critical => mutex = p
    /\ \A p \in Publications : pc[p] \in Critical \ {"locked"} => gen[p] = current

\* A producer that recovers is unavailable, unless it is closed anyway.
Refusing ==
    /\ recovering => unavailable \/ Closed
    /\ RejectsWhileRecovering

-----------------------------------------------------------------------------
USE ProducerAssumption

\* A call that moves inside Publish neither enters nor leaves the window.
LEMMA ActiveStays ==
  ASSUME NEW p \in Publications, NEW point \in Active, Window, pc[p] \in Active, Goto(p, point)
  PROVE  ActiveCalls' = ActiveCalls /\ pc' \in [Publications -> CallPoints]
  BY DEF ActiveCalls, Window, Goto, CallPoints

\* Active calls are finitely many.
LEMMA ActiveFinite == IsFiniteSet(ActiveCalls)
  BY FS_Subset DEF ActiveCalls

\* Completing attempts only takes them out of the trackers.
LEMMA Completion ==
  ASSUME Window, NEW S \in SUBSET tracked, NEW state, Complete(S, state), UNCHANGED <<pc, active>>
  PROVE  Window'
  BY DEF Window, Complete, ActiveCalls, Registered, Unregistered

\* A new producer has no call under way.
LEMMA WindowInit == Init => Window
<1> SUFFICES ASSUME Init PROVE Window
  OBVIOUS
<1>1. ActiveCalls = {}
  BY DEF Init, ActiveCalls, Active, Critical
<1> QED
  BY <1>1, FS_EmptySet DEF Init, Window, CallPoints, Unregistered

\* Steps of the window: calls of Publish one by one, and everybody else.
LEMMA WindowNext == Window /\ [Next]_vars => Window'
<1> SUFFICES ASSUME Window, [Next]_vars PROVE Window'
  OBVIOUS
<1> USE DEF At, Answer, Active, Critical, Registered, Unregistered, callVars, trackerVars, stateVars
<1>1. ASSUME UNCHANGED <<pc, active, tracked, outcome>> PROVE Window'
  BY <1>1 DEF Window, ActiveCalls
<1>2. ASSUME NEW p \in Publications, Broker(p) PROVE Window'
  BY <1>1, <1>2 DEF Broker, BrokerUnchanged, Transmit, SendRefused, BrokerConfirm, BrokerReturn,
                    BrokerConfirmReturned
<1>3. ASSUME NEW g \in Generations, ConnectionLost(g) \/ AsyncClose(g) PROVE Window'
  BY <1>1, <1>3 DEF ConnectionLost, AsyncClose, BrokerUnchanged
<1>4. ASSUME StartShutdown \/ ShutdownSteps PROVE Window'
  BY <1>1, <1>4 DEF StartShutdown, ShutdownSteps, EndDrain, StopEvents, CloseCurrent, FinishShutdown,
                    ShutdownUnchanged
<1>5. ASSUME NEW p \in Publications, ReceiveReturn(p) \/ ReceiveConfirm(p) PROVE Window'
  BY <1>1, <1>5 DEF ReceiveReturn, ReceiveConfirm, ApplyReturns
<1>6. ASSUME NoticeLoss \/ NoticeFailure \/ BeginRecovery \/ CloseFailed PROVE Window'
  BY <1>1, <1>6 DEF NoticeLoss, NoticeFailure, BeginRecovery, CloseFailed
<1>7. ASSUME GiveUpRecovery \/ AttemptFails \/ AttemptSucceeds \/ Install \/ FinishRecovery
      PROVE  Window'
  BY <1>1, <1>7 DEF GiveUpRecovery, AttemptFails, AttemptSucceeds, Install, InstallGeneration,
                    FinishRecovery
<1>8. ASSUME NoticeStop \/ FailPending PROVE Window'
  <2>1. PICK state : Complete(Tracker(current), state) /\ UNCHANGED <<pc, active>>
    BY <1>8 DEF NoticeStop, FailPending, FailAll
  <2> QED
    BY <2>1, Completion DEF Tracker
<1>9. ASSUME ApplyConfirm PROVE Window'
  <2>1. PICK g, n, state : Complete(Holder(g, n), state) /\ UNCHANGED <<pc, active>>
    BY <1>9 DEF ApplyConfirm
  <2> QED
    BY <2>1, Completion DEF Holder, Tracker
<1>10. ASSUME NEW p \in Publications, Admit(p) PROVE Window'
  <2>1. p \notin ActiveCalls /\ ActiveCalls' = ActiveCalls \cup {p}
    BY <1>10 DEF Admit, Goto, ActiveCalls, Window, CallPoints
  <2>2. Cardinality(ActiveCalls') = Cardinality(ActiveCalls) + 1
    BY <2>1, ActiveFinite, FS_AddElement
  <2>3. active' = active + 1 /\ active < MaxOutstanding
    BY <1>10 DEF Admit, WindowFull, Window
  <2>4. pc' = [pc EXCEPT ![p] = "locking"] /\ UNCHANGED <<tracked, outcome>> /\ pc[p] = "idle"
    BY <1>10 DEF Admit, Goto
  <2> QED
    BY <2>2, <2>3, <2>4 DEF Window, CallPoints
<1>11. ASSUME NEW p \in Publications, Release(p) PROVE Window'
  <2>1. p \in ActiveCalls /\ ActiveCalls' = ActiveCalls \ {p}
    BY <1>11 DEF Release, Goto, ActiveCalls, Window, CallPoints
  <2>2. Cardinality(ActiveCalls') = Cardinality(ActiveCalls) - 1 /\ Cardinality(ActiveCalls') \in Nat
    BY <2>1, ActiveFinite, FS_RemoveElement, FS_CardinalityType
  <2>3. active' = active - 1
    BY <1>11 DEF Release
  <2>4. pc' = [pc EXCEPT ![p] = "done"] /\ UNCHANGED <<tracked, outcome>> /\ pc[p] = "releasing"
    BY <1>11 DEF Release, Goto
  <2> QED
    BY <2>2, <2>3, <2>4 DEF Window, CallPoints
<1>12. ASSUME NEW p \in Publications, Refuse(p) PROVE Window'
  <2>1. pc' = [pc EXCEPT ![p] = "done"] /\ UNCHANGED <<active, tracked, outcome>> /\ pc[p] = "idle"
    BY <1>12 DEF Refuse, Goto
  <2>2. ActiveCalls' = ActiveCalls
    BY <2>1 DEF ActiveCalls, Window, CallPoints
  <2> QED
    BY <2>1, <2>2 DEF Window, CallPoints
\* A call that stays in the window, and leaves the trackers alone or joins them.
<1>13. ASSUME NEW p \in Publications, NEW point \in Active, pc[p] \in Active, Goto(p, point),
              UNCHANGED <<active, tracked, outcome>>,
              p \in tracked => point \in Registered,
              point \in Unregistered => pc[p] \in Unregistered
       PROVE  Window'
  BY <1>13, ActiveStays DEF Window, Goto
\* A call whose own attempt is completed.
<1>14. ASSUME NEW p \in Publications, NEW state, pc[p] \in Active, Goto(p, "releasing"),
              UNCHANGED active, Abandon(p, state)
       PROVE  Window'
  <2>1. p \notin tracked'
    BY <1>14 DEF Abandon, Complete, Holder, Tracker
  <2>2. ActiveCalls' = ActiveCalls /\ pc' \in [Publications -> CallPoints]
    BY <1>14, ActiveStays
  <2>3. pc' = [pc EXCEPT ![p] = "releasing"]
    BY <1>14 DEF Goto
  <2>4. \A q \in Publications : q \notin tracked => outcome'[q] = outcome[q]
    BY <1>14 DEF Abandon, Complete, Holder, Tracker
  <2>5. \A q \in tracked' : q \in tracked /\ outcome'[q] = outcome[q]
    BY <1>14 DEF Abandon, Complete, Window
  <2> QED
    BY <1>14, <2>1, <2>2, <2>3, <2>4, <2>5 DEF Window
<1>15. ASSUME NEW p \in Publications, GiveUpLock(p) \/ Lock(p) \/ CheckAvailable(p) \/ Reserve(p)
       PROVE  Window'
  BY <1>13, <1>15 DEF GiveUpLock, Lock, CheckAvailable, Reserve, Window
<1>16. ASSUME NEW p \in Publications, Register(p) PROVE Window'
  <2>1. CASE UNCHANGED tracked
    BY <1>13, <1>16, <2>1 DEF Register, Window
  <2>2. CASE tracked' = tracked \cup {p} /\ Goto(p, "registered")
    <3>1. ActiveCalls' = ActiveCalls /\ pc' \in [Publications -> CallPoints]
      BY <1>16, <2>2, ActiveStays DEF Register
    <3> QED
      BY <1>16, <2>2, <3>1 DEF Register, Window, Goto
  <2> QED
    BY <1>16, <2>1, <2>2 DEF Register
<1>17. ASSUME NEW p \in Publications, Commit(p) PROVE Window'
  BY <1>13, <1>14, <1>17 DEF Commit, Window
<1>18. ASSUME NEW p \in Publications, SendReturned(p) \/ TransmissionTimeout(p) PROVE Window'
  BY <1>13, <1>18 DEF SendReturned, TransmissionTimeout
<1>19. ASSUME NEW p \in Publications, AbandonPreflight(p) \/ WaitExpired(p) PROVE Window'
  BY <1>14, <1>19 DEF AbandonPreflight, WaitExpired
<1>20. ASSUME NEW p \in Publications, CompletePublishError(p) PROVE Window'
  <2>1. CASE Abandon(p, "ambiguous")
    BY <1>14, <1>20, <2>1 DEF CompletePublishError
  <2>2. CASE Holder(gen[p], seq[p]) = {} /\ UNCHANGED trackerVars
    <3>1. p \notin tracked
      BY <2>2 DEF Holder, Tracker
    <3> QED
      BY <1>13, <1>20, <2>2, <3>1 DEF CompletePublishError
  <2> QED
    BY <1>20, <2>1, <2>2 DEF CompletePublishError
<1>21. ASSUME NEW p \in Publications, TakeOutcome(p) PROVE Window'
  <2>1. p \notin tracked
    BY <1>21 DEF TakeOutcome, Window
  <2> QED
    BY <1>13, <1>21, <2>1 DEF TakeOutcome
<1>22. ASSUME UNCHANGED vars PROVE Window'
  BY <1>1, <1>22 DEF vars
<1> QED
  BY <1>2, <1>3, <1>4, <1>5, <1>6, <1>7, <1>8, <1>9, <1>10, <1>11, <1>12, <1>15, <1>16, <1>17,
     <1>18, <1>19, <1>20, <1>21, <1>22
  DEF Next, Call, EventLoop

-----------------------------------------------------------------------------
\* A new producer has publishMu free.
LEMMA LockingInit == Init => Locking
  BY DEF Init, Locking, CallPoints, Active, Critical, Generations

\* Calls take and give back publishMu one at a time; recovery replaces the
\* generation only while nobody has it.
LEMMA LockingNext == Locking /\ [Next]_vars => Locking'
<1> SUFFICES ASSUME Locking, [Next]_vars PROVE Locking'
  OBVIOUS
<1> USE DEF At, Answer, Goto, CallPoints, Active, Critical, callVars, stateVars
<1>1. ASSUME UNCHANGED <<pc, gen, mutex, current>> PROVE Locking'
  BY <1>1 DEF Locking
<1>2. ASSUME NEW p \in Publications, Broker(p) PROVE Locking'
  BY <1>1, <1>2 DEF Broker, BrokerUnchanged, Transmit, SendRefused, BrokerConfirm, BrokerReturn,
                    BrokerConfirmReturned
<1>3. ASSUME NEW g \in Generations, ConnectionLost(g) \/ AsyncClose(g) PROVE Locking'
  BY <1>1, <1>3 DEF ConnectionLost, AsyncClose, BrokerUnchanged
<1>4. ASSUME StartShutdown \/ ShutdownSteps PROVE Locking'
  BY <1>1, <1>4 DEF StartShutdown, ShutdownSteps, EndDrain, StopEvents, CloseCurrent, FinishShutdown,
                    ShutdownUnchanged
<1>5. ASSUME NEW p \in Publications, ReceiveReturn(p) \/ ReceiveConfirm(p) PROVE Locking'
  BY <1>1, <1>5 DEF ReceiveReturn, ReceiveConfirm
<1>6. ASSUME NoticeLoss \/ NoticeFailure \/ NoticeStop \/ BeginRecovery \/ FailPending \/ CloseFailed
      PROVE  Locking'
  BY <1>1, <1>6 DEF NoticeLoss, NoticeFailure, NoticeStop, BeginRecovery, FailPending, CloseFailed
<1>7. ASSUME ApplyConfirm \/ GiveUpRecovery \/ AttemptFails \/ AttemptSucceeds \/ FinishRecovery
      PROVE  Locking'
  BY <1>1, <1>7 DEF ApplyConfirm, GiveUpRecovery, AttemptFails, AttemptSucceeds, FinishRecovery
<1>8. ASSUME Install PROVE Locking'
  <2>1. \A p \in Publications : pc[p] \notin Critical
    BY <1>8 DEF Install, Locking
  <2>2. UNCHANGED <<pc, gen, mutex>>
    BY <1>8 DEF Install, InstallGeneration
  <2>3. current' \in Int
    BY <1>8 DEF Install, InstallGeneration, Locking
  <2> QED
    BY <2>1, <2>2, <2>3 DEF Locking
\* Outside the lock a call may move as it likes, and the holder may give it back.
<1>a. ASSUME NEW p \in Publications, NEW point \in CallPoints \ Critical,
             pc' = [pc EXCEPT ![p] = point], UNCHANGED <<gen, mutex, current>>
      PROVE  Locking'
  BY <1>a DEF Locking
<1>9. ASSUME NEW p \in Publications, NEW point \in CallPoints \ Critical, pc[p] \in Critical,
             pc' = [pc EXCEPT ![p] = point], mutex' = NoPublication, UNCHANGED <<gen, current>>
      PROVE  Locking'
  BY <1>9 DEF Locking
\* The holder moves on.
<1>10. ASSUME NEW p \in Publications, NEW point \in Critical \ {"locked"},
              pc[p] \in Critical \ {"locked"}, pc' = [pc EXCEPT ![p] = point],
              UNCHANGED <<gen, mutex, current>>
       PROVE  Locking'
  BY <1>10 DEF Locking
<1>11. ASSUME NEW p \in Publications, Admit(p) \/ Refuse(p) \/ GiveUpLock(p) PROVE Locking'
  BY <1>a, <1>11 DEF Admit, Refuse, GiveUpLock
<1>12. ASSUME NEW p \in Publications, Lock(p) PROVE Locking'
  <2>1. CASE Answer(p, "notSent") /\ UNCHANGED mutex
    BY <1>a, <1>12, <2>1 DEF Lock
  <2>2. CASE mutex' = p /\ Goto(p, "locked")
    <3>1. mutex = NoPublication /\ UNCHANGED <<gen, current>>
      BY <1>12 DEF Lock
    <3> QED
      BY <2>2, <3>1 DEF Locking
  <2> QED
    BY <1>12, <2>1, <2>2 DEF Lock
<1>13. ASSUME NEW p \in Publications, CheckAvailable(p) PROVE Locking'
  <2>1. CASE unavailable
    BY <1>9, <1>13, <2>1 DEF CheckAvailable
  <2>2. CASE ~unavailable
    <3>1. /\ pc[p] = "locked" /\ pc' = [pc EXCEPT ![p] = "available"]
          /\ gen' = [gen EXCEPT ![p] = current] /\ UNCHANGED <<mutex, current>>
      BY <1>13, <2>2 DEF CheckAvailable
    <3> QED
      BY <3>1 DEF Locking
  <2> QED
    BY <2>1, <2>2
<1>14. ASSUME NEW p \in Publications, Reserve(p) PROVE Locking'
  BY <1>10, <1>14 DEF Reserve
<1>15. ASSUME NEW p \in Publications, Register(p) PROVE Locking'
  BY <1>9, <1>10, <1>15 DEF Register
<1>16. ASSUME NEW p \in Publications, Commit(p) PROVE Locking'
  BY <1>9, <1>10, <1>16 DEF Commit
<1>17. ASSUME NEW p \in Publications, SendReturned(p) \/ TransmissionTimeout(p) PROVE Locking'
  BY <1>9, <1>17 DEF SendReturned, TransmissionTimeout
<1>18. ASSUME NEW p \in Publications, AbandonPreflight(p) \/ CompletePublishError(p) PROVE Locking'
  BY <1>a, <1>18 DEF AbandonPreflight, CompletePublishError
<1>19. ASSUME NEW p \in Publications, TakeOutcome(p) \/ WaitExpired(p) \/ Release(p) PROVE Locking'
  BY <1>a, <1>19 DEF TakeOutcome, WaitExpired, Release
<1>20. ASSUME UNCHANGED vars PROVE Locking'
  BY <1>1, <1>20 DEF vars
<1> QED
  BY <1>2, <1>3, <1>4, <1>5, <1>6, <1>7, <1>8, <1>11, <1>12, <1>13, <1>14, <1>15, <1>16, <1>17,
     <1>18, <1>19, <1>20
  DEF Next, Call, EventLoop

-----------------------------------------------------------------------------
\* A new producer does not recover.
LEMMA RefusingInit == Init => Refusing
  BY DEF Init, Refusing, RejectsWhileRecovering

\* markRecovering leaves a producer that is unavailable or closed.
LEMMA Marked ==
  ASSUME Refusing, MarkRecovering, UNCHANGED shutdown
  PROVE  unavailable' \/ Closed'
  BY Zenon DEF Refusing, MarkRecovering, Closed

\* markRecovering, recoverRuntime, finishRecovery and Shutdown keep the refusal.
LEMMA RefusingNext == Refusing /\ [Next]_vars => Refusing'
<1> SUFFICES ASSUME Refusing, [Next]_vars PROVE Refusing'
  OBVIOUS
<1> USE DEF EventsGoto, stateVars, eventVars, shutdownVars
<1>1. ASSUME UNCHANGED <<recovering, unavailable>>, Closed => Closed',
             events' = events \/ events' \notin {"failAll", "closing", "recovering", "installing"}
                             \/ events \in {"failAll", "closing", "recovering", "installing"}
      PROVE  Refusing'
  BY <1>1, Zenon DEF Refusing, RejectsWhileRecovering
<1>2. ASSUME UNCHANGED shutdown PROVE Closed' <=> Closed
  BY <1>2 DEF Closed
<1>3. ASSUME NEW p \in Publications, Broker(p) PROVE Refusing'
  <2>1. UNCHANGED <<recovering, unavailable, shutdown, events>>
    BY <1>3 DEF Broker, BrokerUnchanged, Transmit, SendRefused, BrokerConfirm, BrokerReturn,
                BrokerConfirmReturned
  <2> QED
    BY <1>1, <1>2, <2>1
<1>4. ASSUME NEW g \in Generations, ConnectionLost(g) \/ AsyncClose(g) PROVE Refusing'
  <2>1. UNCHANGED <<recovering, unavailable, shutdown, events>>
    BY <1>4 DEF ConnectionLost, AsyncClose, BrokerUnchanged
  <2> QED
    BY <1>1, <1>2, <2>1
<1>5. ASSUME StartShutdown \/ ShutdownSteps PROVE Refusing'
  <2>1. UNCHANGED <<recovering, unavailable, events>> /\ Closed'
    BY <1>5 DEF StartShutdown, ShutdownSteps, EndDrain, StopEvents, CloseCurrent, FinishShutdown,
                ShutdownUnchanged, Closed
  <2> QED
    BY <1>1, <2>1
<1>6. ASSUME NEW p \in Publications,
             \/ Admit(p) \/ Refuse(p) \/ GiveUpLock(p) \/ Lock(p) \/ CheckAvailable(p) \/ Reserve(p)
             \/ Register(p) \/ Commit(p) \/ AbandonPreflight(p) \/ CompletePublishError(p)
             \/ TakeOutcome(p) \/ WaitExpired(p) \/ Release(p)
      PROVE  Refusing'
  <2>1. UNCHANGED <<recovering, unavailable, shutdown, events>>
    BY <1>6 DEF Admit, Refuse, GiveUpLock, Lock, CheckAvailable, Reserve, Register, Commit,
                AbandonPreflight, CompletePublishError, TakeOutcome, WaitExpired, Release
  <2> QED
    BY <1>1, <1>2, <2>1
\* failGeneration, by the holder of publishMu.
<1>7. ASSUME NEW p \in Publications, SendReturned(p) \/ TransmissionTimeout(p) PROVE Refusing'
  <2>1. UNCHANGED <<shutdown, events>>
    BY <1>7 DEF SendReturned, TransmissionTimeout
  <2>2. CASE UNCHANGED <<recovering, unavailable>>
    BY <1>1, <1>2, <2>1, <2>2
  <2>3. CASE MarkRecovering
    <3>1. unavailable' \/ Closed'
      BY <2>1, <2>3, Marked
    <3> QED
      BY <3>1, Zenon DEF Refusing, RejectsWhileRecovering
  <2> QED
    BY <1>7, <2>2, <2>3 DEF SendReturned, TransmissionTimeout, FailGeneration
<1>8. ASSUME BeginRecovery PROVE Refusing'
  <2>1. unavailable' \/ Closed'
    BY <1>8, Marked DEF BeginRecovery
  <2> QED
    BY <2>1, Zenon DEF Refusing, RejectsWhileRecovering
<1>9. ASSUME \/ \E p \in Publications : ReceiveReturn(p) \/ ReceiveConfirm(p)
             \/ ApplyConfirm \/ NoticeLoss \/ NoticeFailure \/ NoticeStop
      PROVE  Refusing'
  <2>1. UNCHANGED <<recovering, unavailable, shutdown>>
    BY <1>9 DEF ReceiveReturn, ReceiveConfirm, ApplyConfirm, NoticeLoss, NoticeFailure, NoticeStop
  <2>2. events' \in {"running", "confirming", "failing", "done"}
    BY <1>9 DEF ReceiveReturn, ReceiveConfirm, ApplyConfirm, NoticeLoss, NoticeFailure, NoticeStop
  <2>3. events' \notin {"failAll", "closing", "recovering", "installing"}
    BY <2>2
  <2> QED
    BY <1>1, <1>2, <2>1, <2>3
<1>10. ASSUME FailPending \/ CloseFailed \/ GiveUpRecovery \/ AttemptFails \/ AttemptSucceeds
       PROVE  Refusing'
  <2>1. /\ UNCHANGED <<recovering, unavailable, shutdown>>
        /\ events \in {"failAll", "closing", "recovering", "installing"}
    BY <1>10 DEF FailPending, CloseFailed, GiveUpRecovery, AttemptFails, AttemptSucceeds
  <2> QED
    BY <1>1, <1>2, <2>1
<1>11. ASSUME Install PROVE Refusing'
  <2>1. events' \notin {"failAll", "closing", "recovering", "installing"} /\ UNCHANGED shutdown
    BY <1>11 DEF Install, InstallGeneration
  <2>2. Closed \/ ~recovering'
    BY <1>11, Zenon DEF Install, InstallGeneration
  <2> QED
    BY <1>2, <2>1, <2>2, Zenon DEF Refusing, RejectsWhileRecovering
<1>12. ASSUME FinishRecovery PROVE Refusing'
  <2>1. events' \notin {"failAll", "closing", "recovering", "installing"}
    BY <1>12 DEF FinishRecovery
  <2>2. ~recovering'
    BY <1>12, Zenon DEF FinishRecovery
  <2> QED
    BY <2>1, <2>2, Zenon DEF Refusing, RejectsWhileRecovering
<1>13. ASSUME UNCHANGED vars PROVE Refusing'
  <2>1. UNCHANGED <<recovering, unavailable, shutdown, events>>
    BY <1>13 DEF vars
  <2> QED
    BY <1>1, <1>2, <2>1
<1> QED
  BY <1>3, <1>4, <1>5, <1>6, <1>7, <1>8, <1>9, <1>10, <1>11, <1>12, <1>13
  DEF Next, Call, EventLoop

-----------------------------------------------------------------------------
(* Theorems.                                                               *)

\* For every window and any number of publications: active counts the calls under
\* way, never exceeds MaxOutstanding, and register never meets a full tracker.
THEOREM WindowBounded == Spec => []WindowBound
<1>1. Window => WindowBound
  <2> SUFFICES ASSUME Window PROVE WindowBound
    OBVIOUS
  <2>1. ASSUME NEW p \in Publications, pc[p] = "reserved"
        PROVE  Cardinality(Tracker(gen[p])) < MaxOutstanding
    <3>1. p \in ActiveCalls /\ Tracker(gen[p]) \subseteq ActiveCalls \ {p}
      BY <2>1 DEF Window, Tracker, ActiveCalls, Registered, Active, Critical
    <3>2. IsFiniteSet(ActiveCalls \ {p}) /\ Cardinality(ActiveCalls \ {p}) = active - 1
      BY <3>1, ActiveFinite, FS_RemoveElement DEF Window
    <3>3. Cardinality(Tracker(gen[p])) <= active - 1 /\ Cardinality(Tracker(gen[p])) \in Nat
      BY <3>1, <3>2, FS_Subset, FS_CardinalityType
    <3> QED
      BY <3>3 DEF Window
  <2>2. \A p \in tracked : pc[p] \in Active
    BY DEF Window, Registered, Active, Critical
  <2> QED
    BY <2>1, <2>2 DEF Window, WindowBound, ActiveCalls
<1> QED
  BY WindowInit, WindowNext, <1>1, PTL DEF Spec

\* For every number of generations: recovery never replaces channel and tracker
\* under a call between its snapshot and the end of its send.
THEOREM GenerationHeld == Spec => []NoStaleGeneration
<1>1. Locking => NoStaleGeneration
  BY DEF Locking, NoStaleGeneration, Critical
<1> QED
  BY LockingInit, LockingNext, <1>1, PTL DEF Spec

\* A generation is replaced only while new calls are refused, whoever noticed its
\* failure first.
THEOREM RecoveryRefuses == Spec => []RejectsWhileRecovering
<1>1. Refusing => RejectsWhileRecovering
  BY DEF Refusing
<1> QED
  BY RefusingInit, RefusingNext, <1>1, PTL DEF Spec
=============================================================================
