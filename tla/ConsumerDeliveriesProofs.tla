---------------------- MODULE ConsumerDeliveriesProofs ----------------------
(***************************************************************************)
(* More about Consumer, for any messages, workers, prefetch, attempts and  *)
(* generations: that it leaves no delivery unsettled on a connection it    *)
(* owns and settles none twice, and that a Drain stops what is delivered.  *)
(***************************************************************************)
EXTENDS ConsumerProofs

\* Where an unsettled delivery of the current generation is: not read, in the
\* backlog, being rejected, in the job queue, with a worker; or it was let go of,
\* with something left behind that will close the generation.
Accounted(e) ==
    \/ loop \in Consuming /\ e[2] > read
    \/ e[2] \in Range(pending)
    \/ loop = "rejecting" /\ e[2] = read
    \/ e \in Range(jobs)
    \/ \E w \in Workers : envelope[w] = e
    \/ delegated[generation] \/ drainErr
    \/ loop \in {"lost", "closing"}

\* What is unsettled is on an open connection and accounted for, unless a Drain is
\* about to close that connection, and a worker or a rejection that has settled its
\* delivery leaves nothing behind.
Stranding ==
    /\ \A e \in unsettled : alive[e[1]]
    /\ \A e \in unsettled : e[1] = generation => Accounted(e) \/ Abandoning
    /\ \A w \in Workers : worker[w] \in {"sent", "failing"} => envelope[w] \notin unsettled
    /\ loop = "rejected" => <<generation, read>> \notin unsettled
    /\ NothingStranded

-----------------------------------------------------------------------------
(* Deliveries that are not settled.                                        *)

\* A new consumer holds no delivery.
LEMMA StrandingInit == Init => Stranding
  BY DEF Init, Stranding, NothingStranded

\* An empty queue holds nothing.
LEMMA RangeEmpty == Range(<<>>) = {}
  BY DEF Range

\* Sending adds the element sent.
LEMMA RangeAppend ==
    ASSUME NEW S, NEW s \in Seq(S), NEW x \in S
    PROVE  Range(Append(s, x)) = Range(s) \cup {x}
<1>1. /\ Append(s, x) \in Seq(S) /\ Len(Append(s, x)) = Len(s) + 1 /\ Len(s) \in Nat
      /\ \A i \in 1..Len(s) : Append(s, x)[i] = s[i]
      /\ Append(s, x)[Len(s) + 1] = x
  BY AppendProperties, LenProperties
<1>2. /\ Range(s) = {s[i] : i \in 1..Len(s)}
      /\ Range(Append(s, x)) = {Append(s, x)[i] : i \in 1..(Len(s) + 1)}
  BY <1>1, RangeEquality, Zenon
<1> QED
  BY <1>1, <1>2

\* Receiving takes out the element received.
LEMMA RangeHeadTail ==
    ASSUME NEW S, NEW s \in Seq(S), s # <<>>
    PROVE  Range(s) = {Head(s)} \cup Range(Tail(s))
<1>1. /\ Tail(s) \in Seq(S) /\ Len(Tail(s)) = Len(s) - 1 /\ Len(s) \in Nat \ {0}
      /\ \A i \in 1..Len(Tail(s)) : Tail(s)[i] = s[i + 1]
      /\ Head(s) = s[1]
  BY HeadTailProperties, LenProperties, EmptySeq
<1>2. /\ Range(s) = {s[i] : i \in 1..Len(s)}
      /\ Range(Tail(s)) = {Tail(s)[i] : i \in 1..(Len(s) - 1)}
  <2>1. Range(s) = {s[i] : i \in 1..Len(s)}
    BY RangeEquality, Zenon
  <2>2. Range(Tail(s)) = {Tail(s)[i] : i \in 1..Len(Tail(s))}
    BY <1>1, RangeEquality, Zenon
  <2> QED
    BY <1>1, <2>1, <2>2, Zenon
<1>3. ASSUME NEW i \in 1..Len(s) PROVE s[i] \in {Head(s)} \cup Range(Tail(s))
  <2>1. CASE i = 1
    BY <1>1, <2>1
  <2>2. CASE i # 1
    <3>1. i - 1 \in 1..(Len(s) - 1) /\ Tail(s)[i - 1] = s[i]
      BY <1>1, <2>2
    <3> QED
      BY <1>2, <3>1, Zenon
  <2> QED
    BY <2>1, <2>2
<1>4. ASSUME NEW i \in 1..(Len(s) - 1) PROVE Tail(s)[i] \in Range(s)
  <2>1. i + 1 \in 1..Len(s) /\ Tail(s)[i] = s[i + 1]
    BY <1>1
  <2> QED
    BY <1>2, <2>1
<1>5. Head(s) \in Range(s)
  <2>1. 1 \in 1..Len(s)
    BY <1>1
  <2> QED
    BY <1>1, <1>2, <2>1
<1> QED
  BY <1>2, <1>3, <1>4, <1>5

\* A delivery the broker makes is not yet read, and finds the loop consuming or about
\* to close the generation, unless a Drain is.
LEMMA NewDelivery ==
    ASSUME Types, Owning, Ceasing, ~Abandoning, NEW e \in Envelopes, e[1] = generation,
           e[2] > Len(sent[e[1]]), alive[e[1]], ~cancelled[e[1]]
    PROVE  /\ loop \in Consuming \cup {"lost", "closing"} /\ e[2] > read
           /\ e # <<generation, read>>
<1>1. loop \in Consuming \cup {"lost", "closing"}
  BY Zenon DEF Owning, Ceasing, Types, LoopTyped, LoopPoints, Consuming
<1>2. e[2] \in Nat /\ Len(sent[generation]) \in Nat /\ read \in 0..Len(sent[generation])
  BY LenProperties, ConsumerAssumption DEF Types, BrokerTyped, LoopTyped, Envelopes, Tags
<1>3. e[2] > read
  BY <1>2
<1> QED
  BY <1>1, <1>2, <1>3

\* The deliveries that remain, and those that are new.
LEMMA UnsettledSteps ==
    ASSUME Types, [Next]_vars, NEW e \in unsettled'
    PROVE  /\ e \in Envelopes /\ e = <<e[1], e[2]>> /\ e[1] \in Generations /\ e[2] \in Nat \ {0}
           /\ e \in unsettled \/ (e[2] > Len(sent[e[1]]) /\ alive[e[1]] /\ ~cancelled[e[1]])
<1>1. /\ BrokerTyped'
      /\ e \in unsettled \/ (e[2] > Len(sent[e[1]]) /\ alive[e[1]] /\ ~cancelled[e[1]])
  BY BrokerNext, Zenon DEF Types
<1>2. e \in Envelopes
  BY <1>1 DEF BrokerTyped, Delivered
<1> QED
  BY <1>1, <1>2, ConsumerAssumption DEF Envelopes, Tags

\* Accounted depends on little else than the loop, the queues and the workers.
LEMMA AccountedStays ==
    ASSUME NEW e, Accounted(e), UNCHANGED <<generation, read, pending, jobs, envelope>>,
           drainErr => drainErr', delegated[generation] => delegated'[generation],
           \/ loop' = loop
           \/ loop' \in {"lost", "closing"}
           \/ (loop \in Consuming \ {"rejecting"} /\ loop' \in Consuming)
           \/ loop \in {"ending", "waiting"}
    PROVE  Accounted(e)'
  BY Zenon DEF Accounted, Consuming

\* Once a delivery is accounted for it stays so until it is settled or its
\* connection is closed: while the loop consumes, ...
LEMMA LoopAccounts ==
    ASSUME Types, Owning, Ceasing, Admission, Stranding, ~Abandoning,
           \/ LoopTop \/ Admit \/ ReceiveDelivery \/ ReceiveClose \/ Wake \/ ReceiveCancel
           \/ ReceiveFailure \/ ReceiveRecoveryDone \/ ReceiveLifetimeDone
           \/ RejectSent \/ RejectReturns \/ RejectFails,
           NEW e \in unsettled, e \in unsettled', e[1] = generation
    PROVE  Accounted(e)'
<1>1. /\ e \in Envelopes /\ e = <<generation, e[2]>> /\ e[2] \in Nat
      /\ e[2] <= Len(sent[generation]) /\ alive[generation] /\ Accounted(e)
  BY ConsumerAssumption, SMTT(30) DEF Types, BrokerTyped, Delivered, Stranding, Envelopes,
         Tags
<1>2. CASE loop' = "lost"
  BY <1>2, Zenon DEF Accounted
<1>3. ASSUME loop' # "lost", UNCHANGED <<read, pending, jobs, drainErr, delegated>>,
             LoopUnchanged, loop \in Consuming \ {"rejecting"}, loop' \in Consuming
      PROVE  Accounted(e)'
  BY <1>1, <1>3, AccountedStays DEF LoopUnchanged
<1>4. CASE LoopTop
  <2>1. /\ loop = "top" /\ UNCHANGED <<generation, jobs, envelope, delegated>>
        /\ pending' = pending \/ drainErr'
    <3>1. /\ loop = "top" /\ UNCHANGED <<generation, jobs, envelope, delegated>>
      BY <1>4, Zenon DEF LoopTop, LoopUnchanged, generationVars
    <3>2. pending' = <<>> \/ pending' = IF ShutdownAdmissionClosed THEN <<>> ELSE pending
      BY <1>4, Zenon DEF LoopTop, Leave
    <3>3. ShutdownAdmissionClosed /\ pending # <<>> => drainErr'
      BY <1>4, Zenon DEF LoopTop
    <3>4. pending' = <<>> => pending = <<>> \/ drainErr'
      BY <1>4, Zenon DEF LoopTop, Leave
    <3> QED
      BY <3>1, <3>2, <3>3, <3>4
  <2>2. drainErr => drainErr'
    BY <1>4, Zenon DEF LoopTop
  <2>3. (loop' \in {"admitting", "select"} /\ read' = read) \/ loop' = "ending"
    BY <1>4, Zenon DEF LoopTop, Leave
  <2>4. CASE loop' = "ending"
    <3>1. deliveriesClosed
      BY <1>4, <2>4, Zenon DEF LoopTop, Leave
    <3>2. read = Len(sent[generation])
      BY <1>1, <3>1, Zenon DEF Ceasing
    <3>3. ~(e[2] > read)
      BY <1>1, <3>2
    <3> QED
      BY <1>1, <2>1, <2>2, <3>3, Zenon DEF Accounted
  <2>5. CASE loop' # "ending"
    BY <1>1, <2>1, <2>2, <2>3, <2>5, Zenon DEF Accounted, Consuming
  <2> QED
    BY <2>4, <2>5
<1>5. CASE Admit
  <2>1. CASE Len(jobs) = Prefetch
    BY <1>3, <1>5, <2>1 DEF Admit, generationVars, Consuming
  <2>2. CASE Len(jobs) # Prefetch
    <3>1. /\ jobs' = Append(jobs, <<generation, Head(pending)>>) /\ pending' = Tail(pending)
          /\ pending # <<>> /\ loop = "admitting" /\ loop' = "top"
          /\ UNCHANGED <<generation, read, envelope, drainErr, delegated>>
      BY <1>5, <2>2, Zenon DEF Admit, Admission, LoopUnchanged, generationVars
    <3>2. /\ pending \in Seq(Tags) /\ jobs \in Seq(Envelopes) /\ generation \in Generations
      BY TypesSuffice, Zenon DEF TypeOK
    <3>3. Head(pending) \in Tags /\ Range(pending) = {Head(pending)} \cup Range(Tail(pending))
      BY <3>1, <3>2, HeadTailProperties, RangeHeadTail
    <3>4. <<generation, Head(pending)>> \in Envelopes
      BY <3>2, <3>3 DEF Envelopes
    <3>5. Range(jobs') = Range(jobs) \cup {<<generation, Head(pending)>>}
      <4>1. ASSUME NEW s \in Seq(Envelopes), NEW x \in Envelopes
            PROVE  Range(Append(s, x)) = Range(s) \cup {x}
        BY RangeAppend
      <4>2. Range(Append(jobs, <<generation, Head(pending)>>)) =
                Range(jobs) \cup {<<generation, Head(pending)>>}
        BY <3>2, <3>4, <4>1
      <4> QED
        BY <3>1, <4>2
    <3>6. e[2] \in Range(pending) => e[2] \in Range(pending') \/ e \in Range(jobs')
      BY <1>1, <3>1, <3>3, <3>5, Zenon
    <3>7. e \in Range(jobs) => e \in Range(jobs')
      BY <3>5
    <3> QED
      BY <1>1, <3>1, <3>6, <3>7, Zenon DEF Accounted, Consuming
  <2> QED
    BY <2>1, <2>2
<1>6. CASE ReceiveDelivery
  <2>1. /\ loop = "select" /\ read' = read + 1 /\ read \in Nat
        /\ UNCHANGED <<generation, jobs, envelope, delegated>>
        /\ \/ drainErr' /\ loop' = "top" /\ pending' = pending
           \/ drainErr' = drainErr /\ loop' = "rejecting" /\ pending' = pending
           \/ drainErr' = drainErr /\ loop' = "top" /\ pending' = Append(pending, read')
    <3>1. read \in Nat
      BY DEF Types, LoopTyped
    <3> QED
      BY <1>6, <3>1, Zenon
         DEF ReceiveDelivery, Receiving, Selecting, LoopUnchanged, generationVars
  <2>2. pending \in Seq(Nat) /\ read' \in Nat
    BY <2>1, SeqMonotonic, 1..read \subseteq Nat DEF Types, LoopTyped
  <2>3. Range(Append(pending, read')) = Range(pending) \cup {read'}
    BY <2>2, RangeAppend
  <2>4. e[2] > read => e[2] > read' \/ e[2] = read'
    BY <1>1, <2>1
  <2>5. CASE drainErr' /\ loop' = "top" /\ pending' = pending
    BY <2>5 DEF Accounted
  <2>6. CASE drainErr' = drainErr /\ loop' = "rejecting" /\ pending' = pending
    BY <1>1, <2>1, <2>4, <2>6, Zenon DEF Accounted, Consuming
  <2>7. CASE drainErr' = drainErr /\ loop' = "top" /\ pending' = Append(pending, read')
    <3>1. Range(pending') = Range(pending) \cup {read'}
      BY <2>3, <2>7
    <3> QED
      BY <1>1, <2>1, <2>4, <2>7, <3>1, Zenon DEF Accounted, Consuming
  <2> QED
    BY <2>1, <2>5, <2>6, <2>7
<1>7. CASE ReceiveClose \/ ReceiveCancel
  BY <1>2, <1>3, <1>7, Zenon DEF ReceiveClose, ReceiveCancel, Receiving, Selecting, Return,
         Leave,
         generationVars, Consuming
<1>8. CASE Wake \/ ReceiveRecoveryDone \/ RejectReturns
  BY <1>3, <1>8, Zenon
     DEF Wake, ReceiveRecoveryDone, RejectReturns, Selecting, generationVars, Consuming
<1>9. CASE ReceiveFailure \/ RejectFails
  BY <1>2, <1>9, Zenon DEF ReceiveFailure, RejectFails, Return, Leave
<1>10. CASE ReceiveLifetimeDone
  BY <1>1, <1>10, Zenon DEF ReceiveLifetimeDone, Ceasing
<1>11. CASE RejectSent
  <2>1. /\ e # <<generation, read>> /\ loop = "rejecting" /\ loop' = "rejected"
        /\ UNCHANGED <<generation, read, pending, jobs, envelope, drainErr, delegated>>
    BY <1>11, Zenon DEF RejectSent, ApplySettlement, LoopUnchanged, generationVars
  <2> QED
    BY <1>1, <2>1, Zenon DEF Accounted, Consuming
<1> QED
  BY <1>4, <1>5, <1>6, <1>7, <1>8, <1>9, <1>10, <1>11

\* ... and with the workers.
LEMMA WorkersAccount ==
    ASSUME Types, Stranding, ~Abandoning, NEW w \in Workers, Worker(w),
           NEW e \in unsettled, e \in unsettled', e[1] = generation
    PROVE  Accounted(e)'
<1>1. /\ e \in Envelopes /\ Accounted(e) /\ e # NoEnvelope /\ generation \in Generations
  <2>1. e \in Envelopes /\ Accounted(e) /\ generation \in Generations
    BY Zenon DEF Types, BrokerTyped, LoopTyped, Delivered, Stranding
  <2>2. e # NoEnvelope
    BY <2>1, ConsumerAssumption DEF Envelopes, Generations, NoEnvelope
  <2> QED
    BY <2>1, <2>2
<1>2. UNCHANGED <<generation, loop, read, pending>>
  BY Zenon DEF Worker, Take, HandlerReturns, SettleSent, SettleReturns, SettleFails,
     FailGeneration, WorkerUnchanged, loopVars
<1>3. drainErr => drainErr'
  BY Zenon DEF Worker, Take, HandlerReturns, SettleSent, SettleReturns, SettleFails,
     FailGeneration
<1>4. envelope \in [Workers -> Envelopes \cup {NoEnvelope}]
  BY DEF Types, WorkersTyped
<1>5. CASE Take(w)
  <2>1. /\ worker[w] = "idle" /\ jobs # <<>> /\ jobs' = Tail(jobs)
        /\ envelope' = [envelope EXCEPT ![w] = Head(jobs)] /\ UNCHANGED <<delegated, drainErr>>
    BY <1>5 DEF Take, generationVars
  <2>2. Range(jobs) = {Head(jobs)} \cup Range(Tail(jobs))
    BY <2>1, RangeHeadTail DEF Types, WorkersTyped
  <2>3. envelope[w] # e
    BY <1>1, <2>1 DEF Types, WorkersTyped
  <2>4. (\E v \in Workers : envelope[v] = e) => \E v \in Workers : envelope'[v] = e
    BY <1>4, <2>1, <2>3
  <2>5. e \in Range(jobs) => e \in Range(jobs') \/ \E v \in Workers : envelope'[v] = e
    BY <1>4, <2>1, <2>2
  <2> QED
    BY <1>1, <1>2, <2>1, <2>4, <2>5, Zenon DEF Accounted
<1>6. ASSUME jobs' = jobs, WorkerDone(w), UNCHANGED delegated \/ delegated'[generation],
             envelope[w] # e \/ delegated'[generation]
      PROVE  Accounted(e)'
  <2>1. envelope' = [envelope EXCEPT ![w] = NoEnvelope]
    BY <1>6, Zenon DEF WorkerDone
  <2>2. (\E v \in Workers : envelope[v] = e) =>
            (\E v \in Workers : envelope'[v] = e) \/ delegated'[generation]
    BY <1>4, <1>6, <2>1, Zenon
  <2> QED
    BY <1>1, <1>2, <1>3, <1>6, <2>2, Zenon DEF Accounted
<1>7. ASSUME NEW v \in Verdicts, HandlerReturns(w, v) PROVE Accounted(e)'
  <2>1. CASE v = "delegate"
    <3>1. /\ jobs' = jobs /\ WorkerDone(w)
          /\ delegated' = [delegated EXCEPT ![envelope[w][1]] = TRUE]
      BY <1>7, <2>1, Zenon DEF HandlerReturns
    <3>2. /\ envelope[w][1] = generation => delegated'[generation]
          /\ delegated[generation] => delegated'[generation]
      BY <1>1, <3>1, Zenon DEF Types, GenerationTyped
    <3>3. CASE envelope[w][1] = generation
      BY <1>6, <3>1, <3>2, <3>3, Zenon
    <3>4. CASE envelope[w][1] # generation
      <4>1. envelope[w] # e
        BY <3>4
      <4>2. envelope' = [envelope EXCEPT ![w] = NoEnvelope]
        BY <3>1 DEF WorkerDone
      <4>3. (\E x \in Workers : envelope[x] = e) => \E x \in Workers : envelope'[x] = e
        BY <1>4, <4>1, <4>2
      <4> QED
        BY <1>1, <1>2, <1>3, <3>1, <3>2, <4>3, Zenon DEF Accounted
    <3> QED
      BY <3>3, <3>4
  <2>2. CASE v # "delegate"
    <3>1. UNCHANGED <<jobs, envelope, delegated>>
      BY <1>7, <2>2, Zenon DEF HandlerReturns
    <3> QED
      BY <1>1, <1>2, <1>3, <3>1, Zenon DEF Accounted
  <2> QED
    BY <2>1, <2>2
<1>8. CASE SettleSent(w) \/ SettleFails(w)
  <2>1. UNCHANGED <<jobs, envelope, delegated>>
    BY <1>8, Zenon DEF SettleSent, SettleFails, CloseGeneration, generationVars
  <2> QED
    BY <1>1, <1>2, <1>3, <2>1, Zenon DEF Accounted
<1>9. CASE SettleReturns(w) \/ FailGeneration(w)
  <2>1. /\ worker[w] \in {"sent", "failing"} /\ WorkerDone(w)
        /\ UNCHANGED <<jobs, delegated>>
    BY <1>9 DEF SettleReturns, FailGeneration, generationVars
  <2>2. envelope[w] # e
    BY <2>1 DEF Stranding
  <2> QED
    BY <1>6, <2>1, <2>2, Zenon
<1> QED
  BY <1>5, <1>7, <1>8, <1>9 DEF Worker

\* ... and when it recovers or ends.
LEMMA RunAccounts ==
    ASSUME Types, Owning, Stranding, ~Abandoning,
           \/ BeginRecovery \/ CloseLost \/ GiveUpRecovery \/ AttemptFails \/ AttemptSucceeds
           \/ Install \/ EndRun \/ FinishRun,
           NEW e \in unsettled, e \in unsettled', e[1] = generation'
    PROVE  Accounted(e)'
<1>1. e[2] \in Nat \ {0} /\ alive[e[1]] /\ (e[1] = generation => Accounted(e))
  BY ConsumerAssumption, SMTT(30) DEF Types, BrokerTyped, Delivered, Stranding, Envelopes,
         Tags
<1>2. UNCHANGED <<read, pending, jobs, envelope, drainErr>>
  BY Zenon DEF BeginRecovery, CloseLost, GiveUpRecovery, AttemptFails, AttemptSucceeds,
     Install, EndRun, FinishRun, RunUnchanged, workerVars
<1>3. ASSUME NEW g, Disconnect(g) PROVE e[1] # g
  BY <1>3, Zenon DEF Disconnect, On
<1>4. CASE BeginRecovery
  BY <1>4, Zenon DEF BeginRecovery, Accounted
<1>5. CASE CloseLost
  BY <1>3, <1>5, Zenon DEF CloseLost, CloseGeneration
<1>6. CASE GiveUpRecovery \/ AttemptFails \/ AttemptSucceeds
  BY <1>1, <1>6, Zenon DEF GiveUpRecovery, AttemptFails, AttemptSucceeds, Owning
<1>7. CASE Install
  <2>1. generation' # generation
    BY <1>1, <1>7 DEF Install, Owning
  <2>2. loop' = "top" /\ read = 0
    BY <1>7, <2>1 DEF Install, Types, LoopTyped, Consuming
  <2> QED
    BY <1>1, <1>2, <2>2, SMTT(30) DEF Accounted, Consuming
<1>8. CASE EndRun \/ FinishRun
  <2>1. /\ generation' = generation /\ loop \in {"ending", "waiting"}
        /\ delegated' = delegated
    BY <1>8, Zenon DEF EndRun, FinishRun, CloseGeneration, generationVars
  <2> QED
    BY <1>1, <1>2, <2>1, AccountedStays
<1> QED
  BY <1>4, <1>5, <1>6, <1>7, <1>8

\* The broker and the calls of the application touch neither the queues nor the workers.
LEMMA OtherSteps ==
    ASSUME [Next]_vars
    PROVE  \/ Loop
           \/ \E w \in Workers : Worker(w)
           \/ UNCHANGED <<generation, loop, read, pending, jobs, worker, envelope,
                          delegated, drainErr>>
<1> DEFINE Quiet == UNCHANGED <<generation, loop, read, pending, jobs, worker, envelope,
                                delegated, drainErr>>
<1>1. CASE \E g \in Generations : Broker(g)
  BY <1>1, ZenonT(30) DEF Broker, Deliver, ConnectionLost, BrokerCancel, loopVars, workerVars,
         generationVars, errorVars
<1>2. CASE \/ \E value \in BOOLEAN : SetPaused(value)
           \/ \E d \in {"caller", "shutdown"} : StartDrain(d)
           \/ \E d \in Drains : DrainSteps(d)
           \/ CloseAdmission \/ ShutdownSteps
  <2>1. ASSUME NEW d, StartDrain(d) \/ DrainSteps(d) PROVE Quiet
    BY <2>1, Zenon DEF StartDrain, DrainSteps, CancelGeneration, AbortDrain, DrainExpires,
           StopLifetime, FailDrain,
       CompleteDrain, CloseGeneration, CallUnchanged, loopVars, workerVars, generationVars
  <2> QED
    BY <1>2, <2>1, Zenon DEF SetPaused, CloseAdmission, ShutdownSteps, StopIntake,
       FinishShutdown, CloseGeneration, CallUnchanged, loopVars, workerVars, generationVars
<1>3. CASE UNCHANGED vars
  BY <1>3 DEF vars, loopVars, workerVars, generationVars, errorVars
<1> QED
  BY <1>1, <1>2, <1>3 DEF Next

\* Only basic.deliver adds to what is unsettled.
LEMMA OnlyDeliverAdds ==
    ASSUME [Next]_vars, NEW e \in unsettled', e \notin unsettled
    PROVE  UNCHANGED <<generation, loop, read, pending, jobs, worker, envelope,
                       delegated, drainErr>>
<1>1. \E g \in Generations, m \in Messages : Deliver(g, m)
  BY BrokerSteps DEF Disconnect, ApplySettlement, AttemptSucceeds
<1> QED
  BY <1>1, Zenon DEF Deliver, loopVars, workerVars, generationVars, errorVars

\* A delivery that a worker or the loop has settled is not delivered again on its tag.
LEMMA SettledStays ==
    ASSUME Types, [Next]_vars, NEW e, Delivered(e), e \notin unsettled
    PROVE  e \notin unsettled'
<1> SUFFICES ASSUME e \in unsettled' PROVE FALSE
  OBVIOUS
<1>1. e[1] \in Generations /\ e[2] \in Nat /\ e[2] <= Len(sent[e[1]])
  BY ConsumerAssumption DEF Delivered, Envelopes, Tags
<1>2. Len(sent[e[1]]) \in Nat /\ e[2] > Len(sent[e[1]])
  BY <1>1, UnsettledSteps, LenProperties DEF Types, BrokerTyped
<1> QED
  BY <1>1, <1>2

\* Every delivery that is not settled stays accounted for, whatever the broker, the
\* loop, the workers and the calls of the application do in which order.
LEMMA StrandingNext ==
    Types /\ Owning /\ Ending /\ Ceasing /\ Admission /\ Stranding /\ [Next]_vars => Stranding'
<1> SUFFICES ASSUME Types, Owning, Ending, Ceasing, Admission, Stranding, [Next]_vars
             PROVE  Stranding'
  OBVIOUS
<1>1. \A e \in unsettled' : alive'[e[1]]
  BY BrokerNext DEF Types, Stranding
<1>2. ASSUME NEW e \in unsettled', e[1] = generation' PROVE Accounted(e)' \/ Abandoning'
  <2>1. CASE Abandoning
    BY <1>1, <1>2, <2>1, AbandoningEnds
  <2>2. CASE e \notin unsettled /\ ~Abandoning
    <3>1. UNCHANGED <<generation, loop, read, pending, jobs, envelope, delegated, drainErr>>
      BY <2>2, OnlyDeliverAdds
    <3>2. loop \in Consuming \cup {"lost", "closing"} /\ e[2] > read
      BY <1>2, <2>2, <3>1, UnsettledSteps, NewDelivery
    <3> QED
      BY <3>1, <3>2 DEF Accounted
  <2>3. CASE e \in unsettled /\ ~Abandoning
    <3>1. CASE \/ LoopTop \/ Admit \/ ReceiveDelivery \/ ReceiveClose \/ Wake \/ ReceiveCancel
               \/ ReceiveFailure \/ ReceiveRecoveryDone \/ ReceiveLifetimeDone
               \/ RejectSent \/ RejectReturns \/ RejectFails
      <4>1. generation' = generation
        BY <3>1, Zenon
        DEF LoopTop, Admit, ReceiveDelivery, ReceiveClose, Wake, ReceiveCancel,
        ReceiveFailure,
            ReceiveRecoveryDone, ReceiveLifetimeDone, RejectSent, RejectReturns, RejectFails,
            LoopUnchanged
      <4> QED
        BY <1>2, <2>3, <3>1, <4>1, LoopAccounts
    <3>2. CASE \/ BeginRecovery \/ CloseLost \/ GiveUpRecovery \/ AttemptFails
               \/ AttemptSucceeds \/ Install \/ EndRun \/ FinishRun
      BY <1>2, <2>3, <3>2, RunAccounts
    <3>3. CASE \E w \in Workers : Worker(w)
      <4>1. PICK w \in Workers : Worker(w)
        BY <3>3
      <4>2. generation' = generation
        BY <4>1, WorkerFrame
      <4> QED
        BY <1>2, <2>3, <4>1, <4>2, WorkersAccount
    <3>4. CASE UNCHANGED <<generation, loop, read, pending, jobs, envelope, delegated, drainErr>>
      BY <1>2, <2>3, <3>4, AccountedStays DEF Stranding
    <3> QED
      BY <3>1, <3>2, <3>3, <3>4, OtherSteps DEF Loop
  <2> QED
    BY <2>1, <2>2, <2>3
<1>3. ASSUME NEW w \in Workers, worker'[w] \in {"sent", "failing"}
      PROVE  envelope'[w] \notin unsettled'
  <2>1. ASSUME worker'[w] = worker[w], envelope'[w] = envelope[w]
        PROVE  envelope'[w] \notin unsettled'
    <3>1. Delivered(envelope[w]) /\ envelope[w] \notin unsettled
      BY <1>3, <2>1 DEF Types, WorkersTyped, Stranding
    <3> QED
      BY <2>1, <3>1, SettledStays
  <2>2. worker \in [Workers -> {"idle", "handling", "settling", "sent", "failing"}]
        /\ envelope \in [Workers -> Envelopes \cup {NoEnvelope}]
    BY DEF Types, WorkersTyped
  <2>3. ASSUME NEW v \in Workers, Worker(v), v # w
        PROVE  worker'[w] = worker[w] /\ envelope'[w] = envelope[w]
    BY <2>2, <2>3, Zenon DEF Worker, Take, HandlerReturns, SettleSent, SettleReturns,
           SettleFails,
       FailGeneration, WorkerDone
  <2>4. CASE Worker(w)
    <3>1. SettleSent(w) \/ SettleFails(w)
      BY <1>3, <2>2, <2>4, Zenon DEF Worker, Take, HandlerReturns, SettleReturns,
             FailGeneration,
         WorkerDone
    <3>2. envelope' = envelope /\ Delivered(envelope[w])
      <4>1. envelope' = envelope /\ worker[w] # "idle"
        BY <3>1, Zenon DEF SettleSent, SettleFails
      <4> QED
        BY <4>1 DEF Types, WorkersTyped
    <3>3. envelope[w] = <<envelope[w][1], envelope[w][2]>>
      BY <3>2, EnvelopePair, Zenon DEF Delivered
    <3>4. CASE SettleSent(w)
      BY <3>2, <3>3, <3>4, Zenon DEF SettleSent, ApplySettlement, SettlementChannel
    <3>5. CASE SettleFails(w)
      <4>1. Disconnect(envelope[w][1])
        BY <3>5, Zenon DEF SettleFails, CloseGeneration, SettlementChannel
      <4> QED
        BY <3>2, <4>1, Zenon DEF Disconnect, On
    <3> QED
      BY <3>1, <3>4, <3>5
  <2>5. CASE Loop
    <3>1. worker' = worker /\ envelope' = envelope
      BY <2>5, Zenon DEF Loop, LoopTop, Admit, ReceiveDelivery, ReceiveClose, Wake,
             ReceiveCancel,
         ReceiveFailure, ReceiveRecoveryDone, ReceiveLifetimeDone, RejectSent, RejectReturns,
         RejectFails, BeginRecovery, CloseLost, GiveUpRecovery, AttemptFails, AttemptSucceeds,
         Install, EndRun, FinishRun, LoopUnchanged, RunUnchanged, workerVars
    <3> QED
      BY <2>1, <3>1
  <2> QED
    BY <2>1, <2>3, <2>4, <2>5, OtherSteps, Zenon
<1>4. ASSUME loop' = "rejected" PROVE <<generation', read'>> \notin unsettled'
  <2>1. CASE RejectSent
    BY <2>1 DEF RejectSent, ApplySettlement, LoopUnchanged
  <2>2. CASE ~RejectSent
    <3>1. ~Loop
      BY <1>4, <2>2, Zenon
         DEF Loop, LoopTop, Admit, ReceiveDelivery, ReceiveClose, Wake, ReceiveCancel,
         ReceiveFailure, ReceiveRecoveryDone, ReceiveLifetimeDone, RejectReturns,
         RejectFails, BeginRecovery, CloseLost, GiveUpRecovery, AttemptFails, AttemptSucceeds,
         Install, EndRun, FinishRun, Return, Leave
    <3>2. UNCHANGED <<loop, generation, read>>
      BY <3>1, OtherSteps, Zenon
      DEF Worker, Take, HandlerReturns, SettleSent, SettleReturns, SettleFails,
          FailGeneration, WorkerUnchanged, loopVars
    <3>3. <<generation, read>> \notin unsettled
      BY <1>4, <3>2 DEF Stranding
    <3>4. SUFFICES ASSUME <<generation, read>> \in unsettled' PROVE FALSE
      BY <3>2
    <3>5. read > Len(sent[generation])
      BY <3>3, <3>4, UnsettledSteps
    <3>6. read \in 0..Len(sent[generation]) /\ Len(sent[generation]) \in Nat
      BY LenProperties DEF Types, LoopTyped, BrokerTyped
    <3> QED
      BY <3>5, <3>6
  <2> QED
    BY <2>1, <2>2
<1>5. NothingStranded'
  <2>1. ASSUME loop' = "done", NEW e \in unsettled', Abandoning'
        PROVE  \E d \in Drains : drain'[d] = "failing" /\ drained'[d] = e[1]
    <3>1. PICK d \in Drains : drain'[d] = "failing"
      BY <2>1, Zenon DEF Abandoning
    <3>2. drained'[d] = generation'
      BY <3>1, CeasingNext, Zenon DEF Ceasing
    <3>3. e[1] = generation'
      BY <1>1, <2>1, OwningNext, UnsettledSteps DEF Owning
    <3> QED
      BY <3>1, <3>2, <3>3
  <2> SUFFICES ASSUME loop' = "done", NEW e \in unsettled', ~Abandoning' PROVE FALSE
    BY <2>1, Zenon DEF NothingStranded
  <2>2. loop = "done" \/ FinishRun
    <3>1. CASE Loop
      BY <3>1, Zenon DEF Loop, LoopTop, Admit, ReceiveDelivery, ReceiveClose, Wake,
             ReceiveCancel,
         ReceiveFailure, ReceiveRecoveryDone, ReceiveLifetimeDone, RejectSent, RejectReturns,
         RejectFails, BeginRecovery, CloseLost, GiveUpRecovery, AttemptFails, AttemptSucceeds,
         Install, EndRun, Return, Leave
    <3> QED
      BY <3>1, BesideLoop
  <2>3. loop \in {"waiting", "done"}
    BY <2>2 DEF FinishRun
  <2>4. alive[e[1]]
    BY UnsettledSteps DEF Stranding
  <2>5. e[1] = generation
    BY <2>3, <2>4, UnsettledSteps DEF Owning
  <2>6. ~Abandoning
    <3>1. generation' = generation
      BY <2>3, ConnectionSteps DEF Install
    <3> QED
      BY <1>1, <2>5, <3>1, AbandoningEnds
  <2>7. e \in unsettled
    BY <2>3, <2>5, <2>6, UnsettledSteps, NewDelivery DEF Consuming
  <2>8. FinishRun
    BY <2>2, <2>7, <2>6 DEF Stranding, NothingStranded, Abandoning
  <2>9. pending = <<>> /\ jobs = <<>> /\ \A w \in Workers : envelope[w] = NoEnvelope
    BY <2>8 DEF FinishRun, Types, LoopTyped, WorkersTyped, Consuming
  <2>10. e # NoEnvelope
    BY UnsettledSteps, ConsumerAssumption DEF Envelopes, Generations, NoEnvelope
  <2>11. Accounted(e)
    BY <2>5, <2>7, <2>6 DEF Stranding
  <2>12. MustClose
    BY <2>3, <2>9, <2>10, <2>11, RangeEmpty DEF Accounted, MustClose, Consuming
  <2>13. Disconnect(generation)
    BY <2>8, <2>12 DEF FinishRun, CloseGeneration
  <2> QED
    BY <2>5, <2>13 DEF Disconnect, On
<1> QED
  BY <1>1, <1>2, <1>3, <1>4, <1>5 DEF Stranding

\* For every configuration: when the loop and all workers are done, no delivery of
\* any generation is left unsettled on an open connection, however deliveries,
\* failures, Drain and Shutdown interleave (finishRun, Drain, failGeneration).
THEOREM NothingLeft == Spec => []NothingStranded
<1> DEFINE Sound == Owning /\ Ceasing /\ Stranding
<1>1. Init => Sound
  BY ConnectionsInit, StrandingInit
<1>2. Sound /\ Types /\ Ending /\ Admission /\ [Next]_vars => Sound'
  BY OwningNext, CeasingNext, StrandingNext
<1>3. Sound => NothingStranded
  BY DEF Stranding
<1>4. Spec => [](Types /\ Ending /\ Admission)
  BY TypesAlways, HealthAlways, QueuesAlways, PTL
<1> HIDE DEF Sound
<1> QED
  BY <1>1, <1>2, <1>3, <1>4, PTL DEF Spec

-----------------------------------------------------------------------------
(* Each delivery is handled and settled once.                              *)

Unique(s) == \A i, j \in 1..Len(s) : s[i] = s[j] => i = j

\* A delivery is of a generation the loop has reached, and the loop has read it.
Known(e) == e[1] <= generation /\ (loop \in Consuming /\ e[1] = generation => e[2] <= read)

\* A delivery is neither in the job queue nor with a worker.
Free(e) == e \notin Range(jobs) /\ \A w \in Workers : envelope[w] # e

\* No delivery is in two places of the backlog, the job queue, the workers and the
\* rejection of a malformed one.
Single ==
    /\ Unique(pending) /\ Unique(jobs)
    /\ \A e \in Range(jobs) : Known(e)
    /\ \A w \in Workers : Known(envelope[w]) /\ envelope[w] \notin Range(jobs)
    /\ \A v, w \in Workers : envelope[v] = envelope[w] => v = w \/ envelope[v] = NoEnvelope
    /\ \A t \in Range(pending) : Free(<<generation, t>>)
    /\ loop = "rejecting" => read # 0 /\ read \notin Range(pending) /\ Free(<<generation, read>>)

\* An element that is not there yet can be sent ...
LEMMA UniqueAppend ==
    ASSUME NEW S, NEW s \in Seq(S), Unique(s), NEW x \in S, x \notin Range(s)
    PROVE  Unique(Append(s, x))
<1>1. /\ Append(s, x) \in Seq(S) /\ Len(Append(s, x)) = Len(s) + 1 /\ Len(s) \in Nat
      /\ \A i \in 1..Len(s) : Append(s, x)[i] = s[i]
      /\ Append(s, x)[Len(s) + 1] = x
  BY AppendProperties, LenProperties
<1>2. \A i \in 1..Len(s) : s[i] # x
  BY RangeEquality
<1> QED
  BY <1>1, <1>2 DEF Unique

\* ... and one that is received is not there any more.
LEMMA UniqueTail ==
    ASSUME NEW S, NEW s \in Seq(S), Unique(s), s # <<>>
    PROVE  Unique(Tail(s)) /\ Head(s) \notin Range(Tail(s))
<1>1. /\ Tail(s) \in Seq(S) /\ Len(Tail(s)) = Len(s) - 1 /\ Len(s) \in Nat \ {0}
      /\ \A i \in 1..Len(Tail(s)) : Tail(s)[i] = s[i + 1]
      /\ Head(s) = s[1]
  BY HeadTailProperties, LenProperties, EmptySeq
<1>2. Unique(Tail(s))
  <2> SUFFICES ASSUME NEW i \in 1..Len(Tail(s)), NEW j \in 1..Len(Tail(s)),
                      Tail(s)[i] = Tail(s)[j]
               PROVE  i = j
    BY DEF Unique
  <2>1. i + 1 \in 1..Len(s) /\ j + 1 \in 1..Len(s) /\ s[i + 1] = s[j + 1]
    BY <1>1
  <2>2. i + 1 = j + 1
    BY <2>1 DEF Unique
  <2> QED
    BY <2>2
<1>3. ASSUME NEW i \in 1..Len(Tail(s)) PROVE Tail(s)[i] # Head(s)
  <2>1. i + 1 \in 1..Len(s) /\ 1 \in 1..Len(s) /\ i + 1 # 1
    BY <1>1
  <2> QED
    BY <1>1, <2>1 DEF Unique
<1>4. Range(Tail(s)) = {Tail(s)[i] : i \in 1..Len(Tail(s))}
  BY <1>1, RangeEquality, Zenon
<1> QED
  BY <1>2, <1>3, <1>4

\* How the loop moves on: it reads a delivery, admits one, goes on in its
\* generation, stops consuming, or begins the next generation.
LEMMA LoopMoves ==
    ASSUME Types, Admission, [Next]_vars
    PROVE  \/ ReceiveDelivery
           \/ Admit /\ Len(jobs) < Prefetch
           \/ /\ pending' \in {pending, <<>>}
              /\ jobs' = jobs \/ \E w \in Workers : Take(w)
              /\ \/ UNCHANGED <<loop, generation, read>>
                 \/ /\ UNCHANGED <<generation, read>>
                    /\ loop \in Consuming /\ loop' \in Consuming \ {"rejecting"}
                 \/ generation' = generation /\ loop' \notin Consuming /\ pending' = <<>>
                 \/ /\ Install /\ loop' = "top" /\ generation' = generation + 1
                    /\ read' = 0 /\ pending' = <<>>
<1>1. CASE \/ LoopTop \/ ReceiveClose \/ Wake \/ ReceiveCancel \/ ReceiveFailure
           \/ ReceiveRecoveryDone \/ ReceiveLifetimeDone \/ RejectSent \/ RejectReturns
           \/ RejectFails
  <2>1. jobs' = jobs /\ generation' = generation
    BY <1>1, Zenon DEF LoopTop, ReceiveClose, Wake, ReceiveCancel, ReceiveFailure,
       ReceiveRecoveryDone, ReceiveLifetimeDone, RejectSent, RejectReturns, RejectFails,
       LoopUnchanged
  <2>2. \/ loop' \in {"lost", "ending"} /\ pending' = <<>>
        \/ /\ read' = read /\ pending' \in {pending, <<>>}
           /\ loop \in Consuming /\ loop' \in Consuming \ {"rejecting"}
    BY <1>1, Zenon DEF LoopTop, ReceiveClose, Wake, ReceiveCancel, ReceiveFailure,
       ReceiveRecoveryDone, ReceiveLifetimeDone, RejectSent, RejectReturns, RejectFails,
       Receiving, Selecting, Return, Leave, Consuming
  <2>3. loop' \in {"lost", "ending"} => loop' \notin Consuming
    BY DEF Consuming
  <2> QED
    BY <2>1, <2>2, <2>3, Zenon
<1>2. CASE Admit /\ ~(Len(jobs) < Prefetch)
  BY <1>2, Zenon DEF Admit, LoopUnchanged, Consuming
<1>3. CASE BeginRecovery \/ CloseLost \/ GiveUpRecovery \/ AttemptFails \/ AttemptSucceeds
           \/ Install \/ EndRun \/ FinishRun
  <2>1. loop \notin Consuming /\ UNCHANGED <<read, pending, jobs>>
    BY <1>3, Zenon DEF BeginRecovery, CloseLost, GiveUpRecovery, AttemptFails,
           AttemptSucceeds,
       Install, EndRun, FinishRun, RunUnchanged, workerVars, Consuming
  <2>2. pending = <<>> /\ read = 0
    BY <2>1 DEF Types, LoopTyped
  <2>3. \/ /\ generation' = generation
           /\ loop' \in {"closing", "recovering", "installing", "ending", "waiting", "done"}
        \/ Install /\ loop' = "top" /\ generation' = generation + 1
    BY <1>3, Zenon DEF BeginRecovery, CloseLost, GiveUpRecovery, AttemptFails,
           AttemptSucceeds,
       Install, EndRun, FinishRun
  <2>4. loop' \in {"closing", "recovering", "installing", "ending", "waiting", "done"}
            => loop' \notin Consuming
    BY DEF Consuming
  <2> QED
    BY <2>1, <2>2, <2>3, <2>4, Zenon
<1>4. CASE \E w \in Workers : Worker(w)
  <2>1. UNCHANGED <<loop, generation, read, pending>>
    BY <1>4, ZenonT(30) DEF Worker, HandlerReturns, SettleSent, SettleReturns, SettleFails,
       FailGeneration, Take, WorkerUnchanged, loopVars
  <2>2. jobs' = jobs \/ \E w \in Workers : Take(w)
    BY <1>4, ZenonT(30) DEF Worker, HandlerReturns, SettleSent, SettleReturns, SettleFails,
       FailGeneration
  <2> QED
    BY <2>1, <2>2, Zenon
<1>5. CASE UNCHANGED <<generation, loop, read, pending, jobs>>
  BY <1>5
<1> QED
  BY <1>1, <1>2, <1>3, <1>4, <1>5, OtherSteps, Zenon DEF Loop

\* A worker takes a delivery, keeps it, or lets go of it.
LEMMA WorkerMoves ==
    ASSUME [Next]_vars
    PROVE  \/ \E w \in Workers : Take(w)
           \/ envelope' = envelope
           \/ \E w \in Workers : envelope' = [envelope EXCEPT ![w] = NoEnvelope]
<1>1. CASE Loop
  BY <1>1, Zenon DEF Loop, LoopTop, Admit, ReceiveDelivery, ReceiveClose, Wake, ReceiveCancel,
     ReceiveFailure, ReceiveRecoveryDone, ReceiveLifetimeDone, RejectSent, RejectReturns,
     RejectFails, BeginRecovery, CloseLost, GiveUpRecovery, AttemptFails, AttemptSucceeds,
     Install, EndRun, FinishRun, LoopUnchanged, RunUnchanged, workerVars
<1>2. CASE \E w \in Workers : Worker(w)
  BY <1>2, Zenon DEF Worker, HandlerReturns, SettleSent, SettleReturns, SettleFails,
     FailGeneration, WorkerDone
<1> QED
  BY <1>1, <1>2, OtherSteps

\* What is known stays so.
LEMMA KnownStays ==
    ASSUME Types, Admission, [Next]_vars, NEW e, e[1] \in Nat, e[2] \in Nat, Known(e)
    PROVE  Known(e)'
<1>1. generation \in Nat /\ read \in Nat
  BY ConsumerAssumption DEF Types, LoopTyped, Generations
<1>2. CASE ReceiveDelivery
  <2>1. loop \in Consuming /\ generation' = generation /\ read' = read + 1
    BY <1>2 DEF ReceiveDelivery, Receiving, Selecting, LoopUnchanged, Consuming
  <2> QED
    BY <1>1, <2>1 DEF Known
<1>3. CASE Admit
  <2>1. loop \in Consuming /\ generation' = generation /\ read' = read
    BY <1>3, Zenon DEF Admit, LoopUnchanged, Consuming
  <2> QED
    BY <2>1, Zenon DEF Known
<1>4. CASE UNCHANGED <<loop, generation, read>>
  BY <1>4, Zenon DEF Known
<1>5. CASE UNCHANGED <<generation, read>> /\ loop \in Consuming
  BY <1>5, Zenon DEF Known
<1>6. CASE generation' = generation /\ loop' \notin Consuming
  BY <1>6, Zenon DEF Known
<1>7. CASE generation' = generation + 1
  BY <1>1, <1>7 DEF Known
<1> QED
  BY <1>2, <1>3, <1>4, <1>5, <1>6, <1>7, LoopMoves, Zenon

\* The types the lemmas about the queues need.
LEMMA QueueTypes ==
    ASSUME Types
    PROVE  /\ generation \in Generations /\ generation \in Nat \ {0} /\ read \in Nat
           /\ pending \in Seq(Nat) /\ Range(pending) \subseteq 1..read
           /\ jobs \in Seq(Envelopes) /\ Range(jobs) \subseteq Envelopes
           /\ envelope \in [Workers -> Envelopes \cup {NoEnvelope}]
           /\ \A e \in Envelopes \cup {NoEnvelope} : e[1] \in Nat /\ e[2] \in Nat
           /\ NoEnvelope \notin Envelopes /\ \A t : NoEnvelope # <<generation, t>>
<1>1. /\ generation \in Generations /\ read \in Nat /\ pending \in Seq(1..read)
      /\ jobs \in Seq(Envelopes) /\ envelope \in [Workers -> Envelopes \cup {NoEnvelope}]
  BY DEF Types, LoopTyped, WorkersTyped
<1>2. generation \in Nat \ {0}
  BY <1>1, ConsumerAssumption DEF Generations
<1>3. pending \in Seq(Nat)
  BY <1>1, SeqMonotonic, 1..read \subseteq Nat
<1>4. Range(pending) \subseteq 1..read /\ Range(jobs) \subseteq Envelopes
  BY <1>1, RangeEquality
<1>5. \A e \in Envelopes \cup {NoEnvelope} : e[1] \in Nat /\ e[2] \in Nat
  BY ConsumerAssumption DEF Envelopes, Generations, Tags, NoEnvelope
<1>6. NoEnvelope \notin Envelopes
  BY ConsumerAssumption DEF Envelopes, Generations, NoEnvelope
<1>7. \A t : NoEnvelope # <<generation, t>>
  BY <1>2 DEF NoEnvelope
<1> QED
  BY <1>1, <1>2, <1>3, <1>4, <1>5, <1>6, <1>7

\* A delivery that is admitted goes from the head of the backlog to the job queue.
LEMMA AdmitSends ==
    ASSUME Types, Admission, Admit, Len(jobs) < Prefetch
    PROVE  /\ loop = "admitting" /\ loop' = "top" /\ pending # <<>> /\ pending' = Tail(pending)
           /\ jobs' = Append(jobs, <<generation, Head(pending)>>)
           /\ UNCHANGED <<generation, read, envelope>>
           /\ <<generation, Head(pending)>> \in Envelopes
<1>1. Len(jobs) # Prefetch
  <2>1. Len(jobs) \in Nat /\ Prefetch \in Nat
    BY QueueTypes, LenProperties, ConsumerAssumption
  <2> QED
    BY <2>1
<1>2. /\ loop = "admitting" /\ loop' = "top" /\ pending # <<>> /\ pending' = Tail(pending)
      /\ jobs' = Append(jobs, <<generation, Head(pending)>>)
      /\ UNCHANGED <<generation, read, envelope>>
  BY <1>1, Zenon DEF Admit, Admission, LoopUnchanged
<1>3. pending \in Seq(Tags) /\ generation \in Generations
  BY TypesSuffice, Zenon DEF TypeOK
<1>4. Head(pending) \in Tags
  BY <1>2, <1>3, HeadTailProperties
<1> QED
  BY <1>2, <1>3, <1>4 DEF Envelopes

\* No step puts a delivery in a second place.
LEMMA SingleNext == Types /\ Admission /\ Single /\ [Next]_vars => Single'
<1> SUFFICES ASSUME Types, Admission, Single, [Next]_vars PROVE Single'
  OBVIOUS
<1>1. /\ generation \in Generations /\ generation \in Nat \ {0} /\ read \in Nat
      /\ pending \in Seq(Nat) /\ Range(pending) \subseteq 1..read
      /\ jobs \in Seq(Envelopes) /\ Range(jobs) \subseteq Envelopes
      /\ envelope \in [Workers -> Envelopes \cup {NoEnvelope}]
      /\ NoEnvelope \notin Envelopes /\ \A t : NoEnvelope # <<generation, t>>
  BY QueueTypes
<1> DEFINE NextKnown(e) == /\ e[1] <= generation'
                           /\ loop' \in Consuming /\ e[1] = generation' => e[2] <= read'
           NextFree(e) == e \notin Range(jobs') /\ \A w \in Workers : envelope'[w] # e
           Goal == /\ Unique(pending') /\ Unique(jobs')
                   /\ \A e \in Range(jobs') : NextKnown(e)
                   /\ \A w \in Workers : NextKnown(envelope'[w]) /\ envelope'[w] \notin Range(jobs')
                   /\ \A v, w \in Workers : envelope'[v] = envelope'[w] =>
                                                v = w \/ envelope'[v] = NoEnvelope
                   /\ \A t \in Range(pending') : NextFree(<<generation', t>>)
                   /\ loop' = "rejecting" => /\ read' # 0 /\ read' \notin Range(pending')
                                             /\ NextFree(<<generation', read'>>)
<1>2. SUFFICES Goal
  BY Zenon DEF Single, Known, Free
<1>3. \A e \in Envelopes \cup {NoEnvelope} : Known(e) => NextKnown(e)
  <2> SUFFICES ASSUME NEW e \in Envelopes \cup {NoEnvelope}, Known(e) PROVE NextKnown(e)
    OBVIOUS
  <2>1. Known(e)'
    BY KnownStays, QueueTypes
  <2> QED
    BY <2>1, Zenon DEF Known
<1>4. /\ \A e \in Range(jobs) : NextKnown(e)
      /\ \A w \in Workers : NextKnown(envelope[w])
      /\ NextKnown(NoEnvelope)
  <2>1. Known(NoEnvelope)
    BY <1>1 DEF Known, NoEnvelope
  <2> HIDE DEF NextKnown
  <2> QED
    BY <1>1, <1>3, <2>1, Zenon DEF Single
<1> HIDE DEF NextKnown
<1>5. CASE ReceiveDelivery
  <2>1. /\ loop \in Consuming /\ read' = read + 1 /\ UNCHANGED <<generation, jobs, envelope>>
        /\ pending' \in {pending, Append(pending, read + 1)}
        /\ loop' = "rejecting" => pending' = pending
    BY <1>5, Zenon DEF ReceiveDelivery, Receiving, Selecting, LoopUnchanged, Consuming
  <2>2. read + 1 \in Nat /\ read + 1 \notin Range(pending)
    BY <1>1
  <2>3. Free(<<generation, read + 1>>)
    <3>1. ASSUME NEW e, Known(e), e = <<generation, read + 1>> PROVE FALSE
      BY <1>1, <2>1, <3>1 DEF Known
    <3> QED
      BY <3>1, Zenon DEF Single, Free
  <2>4. /\ Unique(Append(pending, read + 1))
        /\ Range(Append(pending, read + 1)) = Range(pending) \cup {read + 1}
    <3>1. pending \in Seq(Nat) /\ Unique(pending)
      BY <1>1, Zenon DEF Single
    <3> QED
      BY <2>2, <3>1, UniqueAppend, RangeAppend
  <2>5. Unique(pending') /\ \A t \in Range(pending') : Free(<<generation, t>>)
    <3>1. Unique(pending) /\ \A t \in Range(pending) : Free(<<generation, t>>)
      BY Zenon DEF Single
    <3> QED
      BY <2>1, <2>3, <2>4, <3>1, Zenon
  <2>6. \A e : Free(e) => NextFree(e)
    BY <2>1, Zenon DEF Free
  <2>7. loop' = "rejecting" => read' # 0 /\ read' \notin Range(pending')
    <3>1. read + 1 # 0
      BY <1>1
    <3> QED
      BY <2>1, <2>2, <3>1, Zenon
  <2> HIDE DEF NextFree
  <2> QED
    BY <1>4, <2>1, <2>3, <2>5, <2>6, <2>7, Zenon DEF Single
<1>6. CASE Admit /\ Len(jobs) < Prefetch
  <2> DEFINE x == <<generation, Head(pending)>>
  <2>1. /\ loop = "admitting" /\ loop' = "top" /\ pending # <<>> /\ pending' = Tail(pending)
        /\ jobs' = Append(jobs, x) /\ UNCHANGED <<generation, read, envelope>>
    BY <1>6, AdmitSends, Zenon
  <2>2. /\ Unique(pending') /\ Head(pending) \notin Range(pending')
        /\ Range(pending) = {Head(pending)} \cup Range(pending')
    BY <1>1, <2>1, UniqueTail, RangeHeadTail DEF Single
  <2>3. Free(x)
    BY <2>2, Zenon DEF Single
  <2>4. x \in Envelopes
    BY <1>6, AdmitSends, Zenon
  <2>5. Known(x)
    <3>1. Head(pending) \in 1..read
      BY <1>1, <2>2, Zenon
    <3>2. Head(pending) <= read /\ generation <= generation
      BY <1>1, <3>1
    <3>3. x[1] = generation /\ x[2] = Head(pending)
      OBVIOUS
    <3> QED
      BY <3>2, <3>3, Zenon DEF Known
  <2> HIDE DEF x
  <2>6. NextKnown(x)
    BY <1>3, <2>4, <2>5, Zenon
  <2>7. Unique(jobs') /\ Range(jobs') = Range(jobs) \cup {x}
    BY <1>1, <2>1, <2>3, <2>4, UniqueAppend, RangeAppend DEF Single, Free
  <2>8. ASSUME NEW t \in Range(pending') PROVE NextFree(<<generation', t>>)
    <3>1. Free(<<generation, t>>)
      BY <2>2, Zenon DEF Single
    <3>2. <<generation, t>> # x
      BY <2>2 DEF x
    <3> QED
      BY <2>1, <2>7, <3>1, <3>2, Zenon DEF Free
  <2>9. \A w \in Workers : envelope'[w] \notin Range(jobs')
    BY <2>1, <2>3, <2>7, Zenon DEF Single, Free
  <2> HIDE DEF NextFree
  <2> QED
    BY <1>4, <2>1, <2>2, <2>6, <2>7, <2>8, <2>9, Zenon DEF Single
<1>7. ASSUME NEW w \in Workers, Take(w) PROVE Goal
  <2>1. /\ jobs # <<>> /\ jobs' = Tail(jobs) /\ envelope' = [envelope EXCEPT ![w] = Head(jobs)]
        /\ UNCHANGED <<generation, loop, read, pending>>
    BY <1>7, Zenon DEF Take, WorkerUnchanged, loopVars
  <2>2. /\ Unique(jobs') /\ Head(jobs) \notin Range(jobs')
        /\ Range(jobs) = {Head(jobs)} \cup Range(jobs')
    BY <1>1, <2>1, UniqueTail, RangeHeadTail DEF Single
  <2>3. /\ envelope'[w] = Head(jobs)
        /\ \A v \in Workers : v # w => envelope'[v] = envelope[v]
    BY <1>1, <2>1, Zenon
  <2>4. \A v \in Workers : envelope[v] # Head(jobs) /\ envelope[v] \notin Range(jobs')
    BY <2>2, Zenon DEF Single
  <2>5. \A e : Free(e) => NextFree(e)
    BY <2>2, <2>3, Zenon DEF Free
  <2>6. \A v \in Workers : NextKnown(envelope'[v]) /\ envelope'[v] \notin Range(jobs')
    BY <1>4, <2>2, <2>3, <2>4, Zenon
  <2>7. \A u, v \in Workers : envelope'[u] = envelope'[v] => u = v \/ envelope'[u] = NoEnvelope
    BY <2>3, <2>4, Zenon DEF Single
  <2> HIDE DEF NextFree
  <2> QED
    BY <1>4, <2>1, <2>2, <2>5, <2>6, <2>7, Zenon DEF Single
<1>8. ASSUME jobs' = jobs, pending' \in {pending, <<>>}, generation' = generation \/ pending' = <<>>,
             loop' = "rejecting" => UNCHANGED <<loop, generation, read>>,
             \/ envelope' = envelope
             \/ \E w \in Workers : envelope' = [envelope EXCEPT ![w] = NoEnvelope]
      PROVE  Goal
  <2>1. \A v \in Workers : envelope'[v] \in {envelope[v], NoEnvelope}
    BY <1>1, <1>8, Zenon
  <2>2. /\ Unique(<<>>) /\ Range(<<>>) = {}
    BY RangeEmpty DEF Unique
  <2>3. \A t : Free(<<generation, t>>) => NextFree(<<generation, t>>)
    BY <1>1, <1>8, <2>1, Zenon DEF Free
  <2>4. ASSUME NEW v \in Workers PROVE NextKnown(envelope'[v]) /\ envelope'[v] \notin Range(jobs')
    <3>1. NextKnown(envelope[v]) /\ NextKnown(NoEnvelope)
      BY <1>4
    <3>2. envelope[v] \notin Range(jobs) /\ NoEnvelope \notin Range(jobs)
      BY <1>1, Zenon DEF Single
    <3> QED
      BY <1>8, <2>1, <3>1, <3>2, Zenon
  <2>5. \A u, v \in Workers : envelope'[u] = envelope'[v] => u = v \/ envelope'[u] = NoEnvelope
    BY <2>1, Zenon DEF Single
  <2>6. Unique(pending') /\ \A t \in Range(pending') : NextFree(<<generation', t>>)
    <3> HIDE DEF NextFree
    <3> QED
      BY <1>8, <2>2, <2>3, Zenon DEF Single
  <2>7. loop' = "rejecting" => /\ read' # 0 /\ read' \notin Range(pending')
                              /\ NextFree(<<generation', read'>>)
    <3> HIDE DEF NextFree
    <3> QED
      BY <1>8, <2>2, <2>3, Zenon DEF Single
  <2> HIDE DEF NextFree
  <2> QED
    BY <1>4, <1>8, <2>4, <2>5, <2>6, <2>7, Zenon DEF Single
<1> HIDE DEF Goal
<1>9. "top" # "rejecting" /\ "rejecting" \in Consuming
  BY DEF Consuming
<1> QED
  BY <1>5, <1>6, <1>7, <1>8, <1>9, LoopMoves, WorkerMoves, Zenon

\* The deliveries that have been made but not read.
Unread(e) ==
    /\ e[2] <= Len(sent[e[1]])
    /\ \/ loop \in Consuming /\ e[1] = generation /\ e[2] > read
       \/ loop = "installing" /\ e[1] = generation + 1

\* The deliveries that some settlement is still to come for, unless they are dropped.
Held(e) ==
    \/ e \in Range(jobs)
    \/ e[1] = generation /\ e[2] \in Range(pending)
    \/ \E w \in Workers : worker[w] \in {"handling", "settling"} /\ envelope[w] = e
    \/ loop = "rejecting" /\ e = <<generation, read>>
    \/ Unread(e)

\* The last generation that has been opened.
Reached == IF loop = "installing" THEN generation + 1 ELSE generation

\* The broker waits for the settlement of each of them, unless their connection is
\* gone, and it has delivered nothing on a generation that is still to be opened.
Waiting ==
    /\ \A e \in Envelopes : Held(e) /\ alive[e[1]] => e \in unsettled
    /\ loop \notin {"ending", "waiting", "done"} =>
           \A g \in Generations : g > Reached => sent[g] = <<>>

\* Who settles what on the broker's side.
LEMMA SettlementSteps ==
    ASSUME [Next]_vars
    PROVE  \/ UNCHANGED <<sent, unsettled, alive>>
           \/ \E g \in Generations, m \in Messages : Deliver(g, m)
           \/ \E g : Disconnect(g)
           \/ RejectSent
           \/ \E w \in Workers : SettleSent(w)
           \/ AttemptSucceeds
<1>1. CASE Loop
  BY <1>1, Zenon DEF Loop, LoopTop, Admit, ReceiveDelivery, ReceiveClose, Wake, ReceiveCancel,
      ReceiveFailure, ReceiveRecoveryDone, ReceiveLifetimeDone, RejectReturns,
      RejectFails, BeginRecovery, CloseLost, GiveUpRecovery, AttemptFails, Install, EndRun,
      FinishRun, CloseGeneration, brokerVars
<1>2. CASE \E w \in Workers : Worker(w)
  BY <1>2, Zenon DEF Worker, Take, HandlerReturns, SettleReturns, SettleFails,
      FailGeneration, CloseGeneration, brokerVars
<1>3. CASE CloseAdmission \/ ShutdownSteps \/ \E value \in BOOLEAN : SetPaused(value)
  BY <1>3, Zenon DEF CloseAdmission, ShutdownSteps, StopIntake, StartDrain, FinishShutdown,
      SetPaused, CloseGeneration, brokerVars
<1>4. CASE StartDrain("caller") \/ \E d \in Drains : DrainSteps(d)
  BY <1>4, Zenon DEF StartDrain, DrainSteps, CancelGeneration, AbortDrain, DrainExpires,
         StopLifetime, FailDrain, CompleteDrain, CloseGeneration, brokerVars
<1>5. CASE \E g \in Generations : Broker(g)
  BY <1>5 DEF Broker, ConnectionLost, BrokerCancel
<1>6. CASE UNCHANGED vars
  BY <1>6 DEF vars, brokerVars
<1> QED
  BY <1>1, <1>2, <1>3, <1>4, <1>5, <1>6 DEF Next

\* A worker that handles or settles a delivery has just taken it, or held it before.
LEMMA HandlingMoves ==
    ASSUME Types, [Next]_vars, NEW w \in Workers, worker'[w] \in {"handling", "settling"}
    PROVE  \/ Take(w)
           \/ worker[w] \in {"handling", "settling"} /\ envelope'[w] = envelope[w]
<1>1. worker \in [Workers -> {"idle", "handling", "settling", "sent", "failing"}]
      /\ envelope \in [Workers -> Envelopes \cup {NoEnvelope}]
  BY DEF Types, WorkersTyped
<1>2. ASSUME NEW v \in Workers, Worker(v)
      PROVE  \/ Take(v)
             \/ v # w /\ worker'[w] = worker[w] /\ envelope'[w] = envelope[w]
             \/ worker[w] \in {"handling", "settling"} /\ envelope'[w] = envelope[w]
  <2>1. CASE v = w
    BY <1>1, <1>2, <2>1, ZenonT(30) DEF Worker, HandlerReturns, SettleSent, SettleReturns,
           SettleFails,
       FailGeneration, WorkerDone
  <2>2. CASE v # w
    BY <1>1, <1>2, <2>2, ZenonT(30) DEF Worker, HandlerReturns, SettleSent, SettleReturns,
           SettleFails,
       FailGeneration, WorkerDone
  <2> QED
    BY <2>1, <2>2, Zenon
<1>3. ASSUME NEW v \in Workers, Take(v), v # w
      PROVE  worker'[w] = worker[w] /\ envelope'[w] = envelope[w]
  BY <1>1, <1>3, Zenon DEF Take
<1>4. CASE Loop
  <2>1. UNCHANGED <<worker, envelope>>
    BY <1>4, Zenon DEF Loop, LoopTop, Admit, ReceiveDelivery, ReceiveClose, Wake,
           ReceiveCancel,
     ReceiveFailure, ReceiveRecoveryDone, ReceiveLifetimeDone, RejectSent, RejectReturns,
     RejectFails, BeginRecovery, CloseLost, GiveUpRecovery, AttemptFails, AttemptSucceeds,
     Install, EndRun, FinishRun, LoopUnchanged, RunUnchanged, workerVars
  <2> QED
    BY <2>1
<1>5. CASE \E v \in Workers : Worker(v)
  BY <1>2, <1>3, <1>5, Zenon
<1> QED
  BY <1>4, <1>5, OtherSteps, Zenon

\* A delivery is newly held only when it has just been made, or when the broker
\* delivered it on a connection that recovery has only now got.
LEMMA HeldSteps ==
    ASSUME Types, Admission, [Next]_vars, NEW e \in Envelopes, Held(e)'
    PROVE  \/ Held(e)
           \/ e[2] > Len(sent[e[1]]) /\ e[2] <= Len(sent'[e[1]])
           \/ AttemptSucceeds /\ e[1] = generation + 1 /\ e[2] <= Len(sent'[e[1]])
<1>1. /\ generation \in Nat /\ read \in Nat /\ pending \in Seq(Nat) /\ jobs \in Seq(Envelopes)
      /\ e[1] \in Nat /\ e[2] \in Nat
  BY QueueTypes
<1>2. e[1] \in Generations /\ e = <<e[1], e[2]>> /\ Len(sent[e[1]]) \in Nat
  BY EnvelopePair, LenProperties DEF Envelopes, Types, BrokerTyped
<1>3. CASE e \in Range(jobs')
  <2>1. CASE jobs' = jobs
    BY <1>3, <2>1 DEF Held
  <2>2. CASE \E w \in Workers : Take(w)
    <3>1. jobs # <<>> /\ jobs' = Tail(jobs)
      BY <2>2 DEF Take
    <3>2. Range(jobs) = {Head(jobs)} \cup Range(jobs')
      BY <1>1, <3>1, RangeHeadTail
    <3> QED
      BY <1>3, <3>2, Zenon DEF Held
  <2>3. CASE Admit /\ Len(jobs) < Prefetch
    <3>1. /\ pending # <<>> /\ jobs' = Append(jobs, <<generation, Head(pending)>>)
          /\ <<generation, Head(pending)>> \in Envelopes
      BY <2>3, AdmitSends, Zenon
    <3>2. Head(pending) \in Range(pending)
      BY <1>1, <3>1, RangeHeadTail
    <3>3. Range(jobs') = Range(jobs) \cup {<<generation, Head(pending)>>}
      BY <1>1, <3>1, RangeAppend, SMTT(20)
    <3>4. CASE e \in Range(jobs)
      BY <3>4, Zenon DEF Held
    <3>5. CASE e = <<generation, Head(pending)>>
      <4>1. e[1] = generation /\ e[2] = Head(pending)
        BY <3>5
      <4> QED
        BY <3>2, <4>1, Zenon DEF Held
    <3> QED
      BY <1>3, <3>3, <3>4, <3>5, Zenon
  <2>4. ReceiveDelivery => jobs' = jobs
    BY DEF ReceiveDelivery
  <2> QED
    BY <2>1, <2>2, <2>3, <2>4, LoopMoves, Zenon
<1>4. ReceiveDelivery =>
          /\ loop \in Consuming /\ generation' = generation /\ read' = read + 1
          /\ read + 1 <= Len(sent[generation])
          /\ pending' \in {pending, Append(pending, read + 1)}
  <2> SUFFICES ASSUME ReceiveDelivery
               PROVE  /\ loop \in Consuming /\ generation' = generation /\ read' = read + 1
                      /\ read + 1 <= Len(sent[generation])
                      /\ pending' \in {pending, Append(pending, read + 1)}
    OBVIOUS
  <2>1. /\ loop \in Consuming /\ generation' = generation /\ read' = read + 1
        /\ read < Len(sent[generation])
        /\ pending' \in {pending, Append(pending, read + 1)}
    BY Zenon DEF ReceiveDelivery, Receiving, Selecting, LoopUnchanged, Consuming
  <2>2. Len(sent[generation]) \in Nat
    BY LenProperties DEF Types, BrokerTyped, LoopTyped
  <2> QED
    BY <1>1, <2>1, <2>2
<1>5. Admit => /\ loop \in Consuming /\ UNCHANGED <<generation, read>> /\ loop' # "rejecting"
               /\ pending' \in {pending, Tail(pending)} /\ pending # <<>>
  BY Zenon DEF Admit, Admission, LoopUnchanged, Consuming
<1>6. CASE e[1] = generation' /\ e[2] \in Range(pending')
  <2>1. CASE ReceiveDelivery
    <3>1. read + 1 \in Nat
      BY <1>1
    <3>2. Range(Append(pending, read + 1)) = Range(pending) \cup {read + 1}
      BY <1>1, <3>1, RangeAppend
    <3>3. e[2] \in Range(pending) \/ e[2] = read + 1
      <4>1. CASE pending' = pending
        BY <1>6, <4>1
      <4>2. CASE pending' = Append(pending, read + 1)
        <5>1. Range(pending') = Range(pending) \cup {read + 1}
          BY <3>2, <4>2
        <5> QED
          BY <1>6, <5>1
      <4> QED
        BY <1>4, <2>1, <4>1, <4>2
    <3>4. e[2] = read + 1 => Unread(e)
      <4>1. e[1] = generation /\ loop \in Consuming /\ read + 1 <= Len(sent[generation])
        BY <1>4, <1>6, <2>1, Zenon
      <4> QED
        BY <1>1, <4>1 DEF Unread
    <3> QED
      BY <1>4, <1>6, <2>1, <3>3, <3>4, Zenon DEF Held
  <2>2. CASE Admit
    <3>1. Range(Tail(pending)) \subseteq Range(pending)
      BY <1>1, <1>5, <2>2, RangeHeadTail
    <3> QED
      BY <1>5, <1>6, <2>2, <3>1, Zenon DEF Held
  <2>3. CASE pending' = <<>>
    BY <1>6, <2>3, RangeEmpty, Zenon
  <2>4. CASE pending' = pending /\ generation' = generation
    BY <1>6, <2>4, Zenon DEF Held
  <2> QED
    BY <2>1, <2>2, <2>3, <2>4, LoopMoves, Zenon
<1>7. CASE \E w \in Workers : worker'[w] \in {"handling", "settling"} /\ envelope'[w] = e
  <2>1. PICK w \in Workers : worker'[w] \in {"handling", "settling"} /\ envelope'[w] = e
    BY <1>7
  <2>2. CASE Take(w)
    <3>1. jobs # <<>> /\ e = Head(jobs)
      BY <2>1, <2>2, QueueTypes DEF Take
    <3>2. e \in Range(jobs)
      BY <1>1, <3>1, RangeHeadTail
    <3> QED
      BY <3>2, Zenon DEF Held
  <2> QED
    BY <2>1, <2>2, HandlingMoves, Zenon DEF Held
<1>8. CASE loop' = "rejecting" /\ e = <<generation', read'>>
  <2>1. CASE ReceiveDelivery
    <3>1. /\ e = <<generation, read + 1>> /\ loop \in Consuming
          /\ read + 1 <= Len(sent[generation])
      BY <1>4, <1>8, <2>1, Zenon
    <3>2. Unread(e)
      BY <1>1, <3>1 DEF Unread
    <3> QED
      BY <3>2, Zenon DEF Held
  <2>2. CASE UNCHANGED <<loop, generation, read>>
    BY <1>8, <2>2, Zenon DEF Held
  <2>3. "rejecting" \in Consuming
    BY DEF Consuming
  <2> QED
    BY <1>5, <1>8, <2>1, <2>2, <2>3, LoopMoves, Zenon
<1>9. CASE Unread(e)'
  <2> SUFFICES ASSUME e[2] <= Len(sent[e[1]])
               PROVE  Held(e) \/ (AttemptSucceeds /\ e[1] = generation + 1)
    BY <1>1, <1>2, <1>9 DEF Unread
  <2>1. CASE loop' \in Consuming /\ e[1] = generation' /\ e[2] > read'
    <3>1. CASE ReceiveDelivery
      <4>1. e[1] = generation /\ loop \in Consuming /\ e[2] > read + 1
        BY <1>4, <2>1, <3>1, Zenon
      <4>2. Unread(e)
        BY <1>1, <4>1 DEF Unread
      <4> QED
        BY <4>2, Zenon DEF Held
    <3>2. CASE loop \in Consuming /\ UNCHANGED <<generation, read>>
      BY <2>1, <3>2, Zenon DEF Held, Unread
    <3>3. CASE Install /\ generation' = generation + 1
      BY <2>1, <3>3, Zenon DEF Install, Held, Unread
    <3> QED
      BY <1>5, <2>1, <3>1, <3>2, <3>3, LoopMoves, Zenon
  <2>2. CASE loop' = "installing" /\ e[1] = generation' + 1
    <3>1. CASE loop' = loop /\ generation' = generation
      BY <2>2, <3>1, Zenon DEF Held, Unread
    <3>2. CASE AttemptSucceeds
      BY <2>2, <3>2, Zenon DEF AttemptSucceeds
    <3> QED
      BY <2>2, <3>1, <3>2, GenerationSteps DEF Install, CloseLost
  <2> QED
    BY <1>9, <2>1, <2>2 DEF Unread
<1> QED
  BY <1>3, <1>6, <1>7, <1>8, <1>9, Zenon DEF Held

\* A settlement is sent for a delivery that is in no other place.
LEMMA SettlementReleases ==
    ASSUME Types, Single, NEW e \in Envelopes, Held(e),
           \/ RejectSent /\ e = <<generation, read>>
           \/ \E w \in Workers : SettleSent(w) /\ e = envelope[w]
    PROVE  ~Held(e)'
<1>1. generation \in Nat /\ read \in Nat /\ e[1] \in Nat /\ e[2] \in Nat
  BY QueueTypes
<1>2. CASE RejectSent /\ e = <<generation, read>>
  <2>1. /\ UNCHANGED <<generation, read, pending, jobs, worker, envelope>>
        /\ loop = "rejecting" /\ loop' = "rejected"
    BY <1>2, Zenon DEF RejectSent, LoopUnchanged
  <2>2. Free(e) /\ e[1] = generation /\ e[2] = read /\ e[2] \notin Range(pending)
    BY <1>2, <2>1, Zenon DEF Single
  <2>3. ~Unread(e)'
    BY <1>1, <2>1, <2>2 DEF Unread
  <2> QED
    BY <2>1, <2>2, <2>3, Zenon DEF Held, Free
<1>3. ASSUME NEW w \in Workers, SettleSent(w), e = envelope[w] PROVE ~Held(e)'
  <2>1. /\ UNCHANGED <<generation, loop, read, pending, jobs, envelope>>
        /\ worker' = [worker EXCEPT ![w] = "sent"]
    BY <1>3, Zenon DEF SettleSent, WorkerUnchanged, loopVars
  <2>2. e \notin Range(jobs) /\ Known(e)
    BY <1>3, Zenon DEF Single
  <2>3. ~(e[1] = generation /\ e[2] \in Range(pending))
    <3>1. e = <<e[1], e[2]>>
      BY EnvelopePair
    <3> QED
      BY <1>3, <3>1, Zenon DEF Single, Free
  <2>4. ~(loop = "rejecting" /\ e = <<generation, read>>)
    BY <1>3, Zenon DEF Single, Free
  <2>5. ~Unread(e)'
    <3>1. Unread(e)' => \/ loop \in Consuming /\ e[1] = generation /\ e[2] > read
                        \/ loop = "installing" /\ e[1] = generation + 1
      BY <2>1, Zenon DEF Unread
    <3>2. /\ e[1] <= generation => e[1] # generation + 1
          /\ e[2] <= read => ~(e[2] > read)
      BY <1>1
    <3> QED
      BY <2>2, <3>1, <3>2, Zenon DEF Known
  <2>6. ASSUME NEW v \in Workers, envelope[v] = e PROVE v = w
    BY <1>3, <2>6, QueueTypes DEF Single
  <2>7. worker'[w] = "sent"
    BY <2>1, Zenon DEF Types, WorkersTyped
  <2> QED
    BY <2>1, <2>2, <2>3, <2>4, <2>5, <2>6, <2>7, Zenon DEF Held
<1> QED
  BY <1>2, <1>3

\* What the consumer holds, the broker still waits for.
LEMMA HeldWaits ==
    ASSUME Types, Admission, Owning, Single, Waiting, [Next]_vars, NEW e \in Envelopes,
           Held(e)', alive'[e[1]]
    PROVE  e \in unsettled'
<1>1. /\ e[1] \in Generations /\ e = <<e[1], e[2]>> /\ Len(sent[e[1]]) \in Nat
      /\ e[1] \in Nat /\ e[2] \in Nat \ {0} /\ generation \in Nat
  <2>1. e[1] \in Generations /\ e[2] \in Nat \ {0} /\ generation \in Nat
    <3>1. e[1] \in Generations /\ e[2] \in Tags
      BY DEF Envelopes
    <3>2. e[2] \in Nat \ {0}
      BY <3>1, ConsumerAssumption DEF Tags
    <3> QED
      BY <3>1, <3>2, QueueTypes
  <2>2. Len(sent[e[1]]) \in Nat
    BY <2>1, LenProperties DEF Types, BrokerTyped
  <2> QED
    BY <2>1, <2>2, EnvelopePair, QueueTypes
<1>2. CASE e[2] > Len(sent[e[1]]) /\ e[2] <= Len(sent'[e[1]])
  <2>1. PICK g \in Generations, m \in Messages : Deliver(g, m)
    <3>1. sent' # sent
      BY <1>1, <1>2
    <3> QED
      BY <3>1, BrokerSteps, Zenon DEF Disconnect, ApplySettlement, AttemptSucceeds
  <2>2. /\ sent' = [sent EXCEPT ![g] = Append(@, m)]
        /\ unsettled' = unsettled \cup {<<g, Len(sent[g]) + 1>>}
    BY <2>1, Zenon DEF Deliver
  <2>3. e[1] = g /\ e[2] = Len(sent[g]) + 1
    BY <1>1, <1>2, <2>2, AppendProperties DEF Types, BrokerTyped
  <2> QED
    BY <1>1, <2>2, <2>3
<1>3. CASE AttemptSucceeds /\ e[1] = generation + 1 /\ e[2] <= Len(sent'[e[1]])
  <2>1. loop = "recovering" /\ sent' = sent
    BY <1>3 DEF AttemptSucceeds
  <2>2. sent[e[1]] = <<>>
    BY <1>1, <1>3, <2>1 DEF Waiting, Reached
  <2> QED
    BY <1>1, <1>3, <2>1, <2>2
<1>4. CASE Held(e)
  <2>1. CASE AttemptSucceeds
    <3>1. /\ loop = "recovering" /\ UNCHANGED <<generation, sent, unsettled>>
          /\ alive' = [alive EXCEPT ![generation + 1] = TRUE]
      BY <2>1 DEF AttemptSucceeds
    <3>2. CASE e[1] = generation + 1
      <4>1. Known(e) => FALSE
        BY <1>1, <3>2 DEF Known
      <4>2. loop \notin Consuming /\ pending = <<>>
        BY <3>1 DEF Types, LoopTyped, Consuming
      <4> QED
        BY <1>1, <1>4, <3>1, <3>2, <4>1, <4>2, RangeEmpty, Zenon
           DEF Held, Unread, Single, Consuming
    <3>3. CASE e[1] # generation + 1
      BY <1>1, <1>4, <3>1, <3>3 DEF Waiting, Types, BrokerTyped
    <3> QED
      BY <3>2, <3>3
  <2>2. CASE ~AttemptSucceeds
    <3>1. alive[e[1]]
      BY <1>1, <2>2, BrokerNext DEF Types
    <3>2. e \in unsettled
      BY <1>4, <3>1, Zenon DEF Waiting
    <3>3. CASE UNCHANGED <<sent, unsettled, alive>>
      BY <3>2, <3>3
    <3>4. CASE \E g \in Generations, m \in Messages : Deliver(g, m)
      BY <3>2, <3>4, Zenon DEF Deliver
    <3>5. ASSUME NEW g, Disconnect(g) PROVE e \in unsettled'
      BY <1>1, <3>2, <3>5 DEF Disconnect, On, Types, BrokerTyped
    <3>6. CASE RejectSent
      <4>1. unsettled' = unsettled \ {<<generation, read>>}
        BY <3>6, Zenon DEF RejectSent, ApplySettlement
      <4> QED
        BY <1>4, <3>2, <3>6, <4>1, SettlementReleases, Zenon
    <3>7. ASSUME NEW w \in Workers, SettleSent(w) PROVE e \in unsettled'
      <4>1. unsettled' = unsettled \ {<<envelope[w][1], envelope[w][2]>>}
        BY <3>7, Zenon DEF SettleSent, ApplySettlement, SettlementChannel
      <4>2. envelope[w] \in Envelopes
        BY <3>7, Zenon DEF SettleSent, Types, WorkersTyped, Delivered
      <4>3. unsettled' = unsettled \ {envelope[w]}
        BY <4>1, <4>2, EnvelopePair
      <4> QED
        BY <1>4, <3>2, <3>7, <4>3, SettlementReleases
    <3> QED
      BY <2>2, <3>3, <3>4, <3>5, <3>6, <3>7, SettlementSteps, Zenon
  <2> QED
    BY <2>1, <2>2
<1> QED
  BY <1>2, <1>3, <1>4, HeldSteps

\* The end of the loop is final.
LEMMA EndingFinal ==
    ASSUME [Next]_vars, loop \in {"ending", "waiting", "done"}
    PROVE  loop' \in {"ending", "waiting", "done"}
<1>1. CASE Loop
  BY <1>1, Zenon DEF Loop, LoopTop, Admit, ReceiveDelivery, ReceiveClose, Wake, ReceiveCancel,
     ReceiveFailure, ReceiveRecoveryDone, ReceiveLifetimeDone, RejectSent, RejectReturns,
     RejectFails, BeginRecovery, CloseLost, GiveUpRecovery, AttemptFails, AttemptSucceeds,
     Install, EndRun, FinishRun, Receiving, Selecting
<1> QED
  BY <1>1, BesideLoop, Zenon

\* Nothing is delivered on a generation before it is opened.
LEMMA UnopenedEmpty ==
    ASSUME Types, Owning, Waiting, [Next]_vars, loop' \notin {"ending", "waiting", "done"},
           NEW g \in Generations, g > Reached'
    PROVE  sent'[g] = <<>>
<1>1. generation \in Nat /\ g \in Nat
  BY ConsumerAssumption DEF Types, LoopTyped, Generations
<1>2. g > Reached
  <2>1. CASE Install
    <3>1. loop = "installing" /\ generation' = generation + 1 /\ loop' = "top"
      BY <2>1 DEF Install
    <3> QED
      BY <3>1 DEF Reached
  <2>2. CASE AttemptSucceeds
    <3>1. loop = "recovering" /\ generation' = generation /\ loop' = "installing"
      BY <2>2 DEF AttemptSucceeds
    <3> QED
      BY <1>1, <3>1 DEF Reached
  <2>3. CASE CloseLost
    <3>1. loop = "closing" /\ generation' = generation /\ loop' \in {"ending", "recovering"}
      BY <2>3 DEF CloseLost
    <3> QED
      BY <3>1 DEF Reached
  <2> QED
    BY <2>1, <2>2, <2>3, GenerationSteps DEF Reached
<1>3. loop \notin {"ending", "waiting", "done"}
  BY EndingFinal
<1>4. sent[g] = <<>>
  BY <1>2, <1>3 DEF Waiting
<1>5. CASE \E h \in Generations, m \in Messages : Deliver(h, m)
  <2>1. PICK h \in Generations, m \in Messages : Deliver(h, m)
    BY <1>5
  <2>2. alive[h] /\ sent' = [sent EXCEPT ![h] = Append(@, m)]
    BY <2>1 DEF Deliver
  <2>3. h # g
    BY <1>1, <1>2, <2>2 DEF Owning, Reached
  <2> QED
    BY <1>4, <2>2, <2>3 DEF Types, BrokerTyped
<1>6. CASE sent' = sent
  BY <1>4, <1>6
<1> QED
  BY <1>5, <1>6, BrokerSteps, Zenon DEF Disconnect, ApplySettlement, AttemptSucceeds

\* A new consumer holds nothing.
LEMMA SingleInit == Init => Single /\ Waiting
<1> SUFFICES ASSUME Init PROVE Single /\ Waiting
  OBVIOUS
<1>1. /\ generation = 1 /\ loop = "top" /\ read = 0 /\ pending = <<>> /\ jobs = <<>>
      /\ envelope = [w \in Workers |-> NoEnvelope] /\ worker = [w \in Workers |-> "idle"]
      /\ sent = [g \in Generations |-> <<>>]
  BY Zenon DEF Init
<1>2. Single
  <2>1. Range(jobs) = {} /\ Range(pending) = {} /\ Unique(jobs) /\ Unique(pending)
    BY <1>1, RangeEmpty DEF Unique
  <2>2. Known(NoEnvelope)
    BY <1>1 DEF Known, NoEnvelope
  <2> QED
    BY <1>1, <2>1, <2>2, Zenon DEF Single
<1>3. \A e \in Envelopes : ~Unread(e)
  BY <1>1, ConsumerAssumption DEF Unread, Envelopes, Tags
<1>4. \A e \in Envelopes : ~Held(e)
  BY <1>1, <1>3, RangeEmpty DEF Held
<1>5. Waiting
  BY <1>1, <1>4, Zenon DEF Waiting
<1> QED
  BY <1>2, <1>5

\* For every configuration: no two workers hold the same delivery, and what is being
\* handled or about to be settled is something the broker still waits for, unless its
\* connection is gone; so no delivery is handled or settled twice, however the
\* backlog, the job queue, recoveries and late settlements interleave
\* (consumeGeneration, handle, settle).
THEOREM EachSettledOnce == Spec => []SettledOnce
<1> DEFINE Sound == Owning /\ Single /\ Waiting
<1>1. Init => Sound
  BY ConnectionsInit, SingleInit
<1>2. Sound /\ Types /\ Admission /\ [Next]_vars => Sound'
  <2> SUFFICES ASSUME Sound, Types, Admission, [Next]_vars PROVE Sound'
    OBVIOUS
  <2>1. Owning' /\ Single'
    BY OwningNext, SingleNext
  <2>2. Waiting'
    BY HeldWaits, UnopenedEmpty DEF Waiting
  <2> QED
    BY <2>1, <2>2
<1>3. Types /\ Sound => SettledOnce
  <2> SUFFICES ASSUME Types, Sound PROVE SettledOnce
    OBVIOUS
  <2>1. ASSUME NEW w \in Workers, worker[w] \in {"handling", "settling"}, alive[envelope[w][1]]
        PROVE  envelope[w] \in unsettled
    <3>1. envelope[w] \in Envelopes
      BY <2>1 DEF Types, WorkersTyped, Delivered
    <3> QED
      BY <2>1, <3>1 DEF Waiting, Held
  <2>2. ASSUME loop = "rejecting", alive[generation] PROVE <<generation, read>> \in unsettled
    <3>1. read # 0 /\ read \in 0..MaxDeliveries
      BY <2>2, TypesSuffice, Zenon DEF Single, TypeOK
    <3>2. <<generation, read>> \in Envelopes
      <4>1. read \in Tags
        BY <3>1, ConsumerAssumption DEF Tags
      <4>2. generation \in Generations
        BY QueueTypes
      <4> QED
        BY <4>1, <4>2 DEF Envelopes
    <3> QED
      BY <2>2, <3>2 DEF Waiting, Held
  <2> QED
    BY <2>1, <2>2, TypesSuffice, Zenon DEF SettledOnce, Single
<1>4. Spec => [](Types /\ Admission)
  BY TypesAlways, QueuesAlways, PTL
<1> HIDE DEF Sound
<1> QED
  BY <1>1, <1>2, <1>3, <1>4, PTL DEF Spec

-----------------------------------------------------------------------------
(* Draining the generation that is consumed.                               *)

\* A generation that was closed has no connection, and none is to come: it is not
\* the one that recovery opens next, unless the loop is about to end.
Closing ==
    \A g \in Generations : closed[g] # "open" =>
        ~alive[g] /\ (g <= generation \/ loop \in {"ending", "waiting", "done"})

\* Who closes which generation.
LEMMA CloseSteps ==
    ASSUME Types, Ceasing, Single, [Next]_vars
    PROVE  \/ closed' = closed
           \/ \E g \in Generations, ending \in {"clean", "failed"} :
                  /\ CloseGeneration(g, ending)
                  /\ g <= generation \/ (Install /\ loop' = "ending")
<1> DEFINE Closes(g) == \E ending \in {"clean", "failed"} : CloseGeneration(g, ending)
<1>1. /\ generation \in Generations /\ generation <= generation
      /\ \A d \in Drains : drain[d] = "failing" => drained[d] = generation
      /\ \A w \in Workers : worker[w] # "idle" =>
             envelope[w][1] \in Generations /\ envelope[w][1] <= generation
  <2>1. generation \in Generations /\ generation <= generation
    <3>1. generation \in Generations /\ generation \in Nat \ {0}
      BY QueueTypes, Zenon
    <3> QED
      BY <3>1
  <2>2. ASSUME NEW w \in Workers, worker[w] # "idle"
        PROVE  envelope[w][1] \in Generations /\ envelope[w][1] <= generation
    <3>1. envelope[w] \in Envelopes
      BY <2>2, Zenon DEF Types, WorkersTyped, Delivered
    <3>2. envelope[w][1] \in Generations
      BY <3>1 DEF Envelopes
    <3> QED
      BY <3>2, Zenon DEF Single, Known
  <2> QED
    BY <2>1, <2>2, Zenon DEF Ceasing
<1>2. CASE Loop
  <2>1. \/ closed' = closed
        \/ Closes(generation)
        \/ Install /\ loop' = "ending" /\ Closes(generation + 1)
    BY <1>2, Zenon
    DEF Loop, LoopTop, Admit, ReceiveDelivery, ReceiveClose, Wake, ReceiveCancel,
        ReceiveFailure, ReceiveRecoveryDone, ReceiveLifetimeDone, RejectSent, RejectReturns,
        RejectFails, BeginRecovery, CloseLost, GiveUpRecovery, AttemptFails, AttemptSucceeds,
        Install, EndRun, FinishRun, generationVars
  <2>2. Install => generation + 1 \in Generations
    BY DEF Install, Types, LoopTyped
  <2> QED
    BY <1>1, <2>1, <2>2, Zenon
<1>3. ASSUME NEW w \in Workers, Worker(w)
      PROVE  closed' = closed \/ (worker[w] # "idle" /\ Closes(envelope[w][1]))
  BY <1>3, Zenon DEF Worker, Take, HandlerReturns, SettleSent, SettleReturns, SettleFails,
     FailGeneration, SettlementChannel, generationVars
<1>4. ASSUME NEW d \in Drains, DrainSteps(d)
      PROVE  closed' = closed \/ (drain[d] = "failing" /\ Closes(drained[d]))
  BY <1>4, Zenon DEF DrainSteps, CancelGeneration, AbortDrain, DrainExpires, StopLifetime,
         FailDrain, CompleteDrain, generationVars
<1>5. CASE \/ CloseAdmission \/ ShutdownSteps \/ StartDrain("caller")
           \/ \E value \in BOOLEAN : SetPaused(value)
  <2>1. closed' = closed \/ Closes(generation)
    BY <1>5, Zenon DEF CloseAdmission, ShutdownSteps, StopIntake, StartDrain, FinishShutdown,
       SetPaused, generationVars
  <2> QED
    BY <1>1, <2>1, Zenon
<1>6. CASE (\E g \in Generations : Broker(g)) \/ UNCHANGED vars
  BY <1>6, Zenon DEF Broker, Deliver, ConnectionLost, BrokerCancel, vars, generationVars
<1>7. CASE \E w \in Workers : Worker(w)
  BY <1>1, <1>3, <1>7, Zenon
<1>8. CASE \E d \in Drains : DrainSteps(d)
  BY <1>1, <1>4, <1>8, Zenon
<1> QED
  BY <1>2, <1>5, <1>6, <1>7, <1>8, Zenon DEF Next

\* What is closed stays without a connection.
LEMMA ClosingNext ==
    Types /\ Owning /\ Ceasing /\ Single /\ Closing /\ [Next]_vars => Closing'
<1> SUFFICES ASSUME Types, Owning, Ceasing, Single, Closing, [Next]_vars,
                    NEW h \in Generations, closed'[h] # "open"
             PROVE  /\ ~alive'[h]
                    /\ h <= generation' \/ loop' \in {"ending", "waiting", "done"}
  BY Zenon DEF Closing
<1>1. /\ h \in Nat /\ generation \in Nat
      /\ generation' = generation \/ generation' = generation + 1
  <2>1. generation' = generation \/ generation' = generation + 1
    BY ConnectionSteps, Zenon
  <2>2. h \in Nat
    BY DEF Generations
  <2> QED
    BY <2>1, <2>2, QueueTypes, Zenon
<1>2. CASE closed[h] # "open"
  <2>1. ~alive[h] /\ (h <= generation \/ loop \in {"ending", "waiting", "done"})
    BY <1>2, Zenon DEF Closing
  <2>2. ~alive'[h]
    <3>1. CASE AttemptSucceeds
      <4>1. loop = "recovering" /\ alive' = [alive EXCEPT ![generation + 1] = TRUE]
        BY <3>1 DEF AttemptSucceeds
      <4>2. h # generation + 1
        BY <1>1, <2>1, <4>1
      <4> QED
        BY <2>1, <4>1, <4>2 DEF Types, BrokerTyped
    <3>2. alive'[h] => alive[h] \/ AttemptSucceeds
      BY BrokerNext DEF Types
    <3> QED
      BY <2>1, <3>1, <3>2
  <2>3. h <= generation => h <= generation'
    BY <1>1
  <2> QED
    BY <2>1, <2>2, <2>3, EndingFinal, Zenon
<1>3. CASE closed[h] = "open"
  <2>1. PICK g \in Generations, ending \in {"clean", "failed"} :
            /\ CloseGeneration(g, ending)
            /\ g <= generation \/ (Install /\ loop' = "ending")
    BY <1>3, CloseSteps, Zenon
  <2>2. h = g
    BY <1>3, <2>1, Zenon DEF CloseGeneration, Types, GenerationTyped
  <2>3. ~alive'[h]
    BY <2>1, <2>2, Disconnected, Zenon DEF CloseGeneration, Types
  <2>4. h <= generation => h <= generation'
    BY <1>1
  <2> QED
    BY <2>1, <2>2, <2>3, <2>4, Zenon
<1> QED
  BY <1>2, <1>3

\* How a call of Drain gets to wait, or returns.
LEMMA DrainWaits ==
    ASSUME Types, [Next]_vars, NEW d \in Drains, drain'[d] \in {"waiting", "done"}
    PROVE  \/ drain[d] \in {"waiting", "done"}
           \/ CancelGeneration(d) /\ drain'[d] = "waiting"
           \/ FailDrain(d)
<1>1. drain \in [Drains -> {"idle", "cancelling", "waiting", "aborting", "failing", "done"}]
  BY DEF Types, CallsTyped
<1>2. ASSUME NEW c \in Drains, StartDrain(c)
      PROVE  drain'[d] = drain[d] \/ drain'[d] = "cancelling"
  BY <1>1, <1>2, Zenon DEF StartDrain
<1>3. ASSUME NEW c \in Drains, DrainSteps(c)
      PROVE  \/ drain'[d] = drain[d] \/ drain[d] = "waiting"
             \/ CancelGeneration(d) \/ FailDrain(d) \/ drain'[d] = "failing"
  <2>1. drain'[d] = drain[d] \/ c = d
    BY <1>1, <1>3, Zenon DEF DrainSteps, CancelGeneration, AbortDrain, DrainExpires,
           StopLifetime, FailDrain, CompleteDrain
  <2>2. \/ CancelGeneration(c) \/ FailDrain(c) \/ drain[c] = "waiting"
        \/ drain'[c] = "failing"
    BY <1>1, <1>3, Zenon DEF DrainSteps, AbortDrain, DrainExpires, StopLifetime, CompleteDrain
  <2> QED
    BY <2>1, <2>2, Zenon
<1>4. CancelGeneration(d) => drain'[d] \in {"waiting", "aborting"}
  BY <1>1, Zenon DEF CancelGeneration
<1>5. \/ drain' = drain
      \/ StartDrain("caller") \/ StartDrain("shutdown") \/ \E c \in Drains : DrainSteps(c)
  BY DrainMoves
<1>6. "caller" \in Drains /\ "shutdown" \in Drains
  BY DEF Drains
<1> QED
  BY <1>2, <1>3, <1>4, <1>5, <1>6

\* A Drain gets to wait only when the generation that is consumed is cancelled or gone.
LEMMA IntakeNext ==
    Types /\ Owning /\ Ending /\ Ceasing /\ Closing /\ DrainStopsIntake /\ [Next]_vars
        => DrainStopsIntake'
<1> SUFFICES ASSUME Types, Owning, Ending, Ceasing, Closing, DrainStopsIntake, [Next]_vars,
                    NEW d \in Drains, drain'[d] \in {"waiting", "done"}
             PROVE  ~alive'[generation'] \/ cancelled'[generation']
  BY Zenon DEF DrainStopsIntake
<1>1. generation \in Generations /\ BrokerTyped
  BY QueueTypes DEF Types
<1>2. /\ generation' = generation => (alive'[generation] => alive[generation])
      /\ cancelled[generation] => cancelled'[generation]
      /\ stopping => generation' = generation
  BY <1>1, ConnectionSteps, BrokerNext, Zenon
<1>3. CASE drain[d] \in {"waiting", "done"}
  <2>1. stopping
    BY <1>3 DEF Ending
  <2> QED
    BY <1>2, <1>3, <2>1, Zenon DEF DrainStopsIntake
<1>4. CASE CancelGeneration(d) /\ drain'[d] = "waiting"
  <2>1. drained[d] = generation /\ UNCHANGED <<alive, generation>>
    BY <1>4, Zenon DEF CancelGeneration, CallUnchanged, Ceasing
  <2>2. CASE closed[generation] # "open"
    BY <1>1, <2>1, <2>2, Zenon DEF Closing
  <2>3. CASE closed[generation] = "open"
    <3>1. PICK outcome \in {"ok", "error"} :
              /\ cancelled' = [cancelled EXCEPT ![generation] = @ \/ outcome = "ok"]
              /\ drain' = [drain EXCEPT ![d] = IF outcome = "ok" THEN "waiting"
                                                                 ELSE "aborting"]
      BY <1>4, <2>1, <2>3, Zenon DEF CancelGeneration
    <3>2. outcome = "ok"
      BY <1>4, <3>1 DEF Types, CallsTyped
    <3> QED
      BY <1>1, <2>1, <3>1, <3>2 DEF BrokerTyped
  <2> QED
    BY <2>2, <2>3
<1>5. CASE FailDrain(d)
  <2>1. drained[d] = generation /\ generation' = generation
    BY <1>5, Zenon DEF FailDrain, CallUnchanged, Ceasing
  <2>2. Disconnect(generation)
    BY <1>5, <2>1, Zenon DEF FailDrain, CloseGeneration
  <2> QED
    BY <1>1, <2>1, <2>2, Disconnected, Zenon
<1> QED
  BY <1>3, <1>4, <1>5, DrainWaits, Zenon

\* For every number of generations and attempts, and whatever recovery is under way
\* when Drain begins: once Drain waits for the loop, or has returned, the generation
\* that the loop consumes is cancelled or closed, and the broker sends the consumer
\* nothing more (Drain, cancelGeneration, recoverRuntime).
THEOREM IntakeStopped == Spec => []DrainStopsIntake
<1> DEFINE Sound == Owning /\ Ceasing /\ Single /\ Closing /\ DrainStopsIntake
<1>1. Init => Sound
  <2> SUFFICES ASSUME Init PROVE Closing /\ DrainStopsIntake
    BY ConnectionsInit, SingleInit
  <2>1. closed = [g \in Generations |-> "open"] /\ drain = [d \in Drains |-> "idle"]
    BY Zenon DEF Init
  <2> QED
    BY <2>1 DEF Closing, DrainStopsIntake
<1>2. Sound /\ Types /\ Ending /\ Admission /\ [Next]_vars => Sound'
  BY OwningNext, CeasingNext, SingleNext, ClosingNext, IntakeNext
<1>3. Sound => DrainStopsIntake
  OBVIOUS
<1>4. Spec => [](Types /\ Ending /\ Admission)
  BY TypesAlways, HealthAlways, QueuesAlways, PTL
<1> HIDE DEF Sound
<1> QED
  BY <1>1, <1>2, <1>3, <1>4, PTL DEF Spec

=============================================================================
