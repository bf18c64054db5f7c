--------------------------- MODULE OpeningProofs ---------------------------
(***************************************************************************)
(* The safety properties of Opening, for every number of endpoints,        *)
(* attempts, declarations and losses, that it implements TopologyOutcome,  *)
(* and that its attempts rotate over the endpoints.                        *)
(***************************************************************************)
EXTENDS Opening, TLAPS

\* Where the attempt's connection and callback stand at each point.  A callback
\* that has started shows that the context is done, which is what lets
\* CheckChannel decide without looking at the connection.
Phases ==
    /\ pc = "dialled" => connection = "open" /\ callback = "none"
    /\ pc \in {"opening", "stopping"} => callback \in {"armed", "running", "done"}
    /\ pc = "joining" => callback \in {"running", "done"}
    /\ pc = "checking" => callback \in {"stopped", "done"}
    /\ pc \in Opening \cup {"checking"} =>
          /\ callback \in {"armed", "running", "stopped"} => connection = "open"
          /\ callback \in {"running", "done"} => ctx \/ deadline
    /\ connection = "closing" => kind \in {"consumer", "transient"}

\* What is left of the loop and of the setup at each point.
Progress ==
    /\ pc = "done" <=> result # "none"
    /\ pc = "waiting" /\ mode = "open" => attempt + 1 < MaxAttempts
    /\ pc \in Opening \cup {"dialled", "checking"} => operation = 1 /\ answer = "none"
    /\ pc \in {"setup", "running"} => operation <= Operations
    /\ mode = "recover" => ~Topology
    /\ pc = "owned" => ~Topology

\* How far the broker is with an active topology: nothing before the first
\* operation, then exactly the operations answered and perhaps the one under way,
\* which blocks the way to the next one and to success.
Declared ==
    IF kind = "active"
    THEN /\ pc \in LoopPoints \cup Opening \cup {"dialled", "checking"} =>
               declared = 0 /\ ~underway
         /\ pc = "setup" => declared = operation - 1 /\ ~underway /\ answer \in {"none", "ok"}
         /\ pc = "running" =>
               /\ declared = IF underway THEN operation - 1 ELSE operation
               /\ answer = "ok" => ~underway
         /\ pc = "finishing" => declared = Declarations /\ ~underway
         /\ underway => declared < Declarations
    ELSE declared = 0 /\ ~underway

Inv == TypeOK /\ NoConnectionLeft /\ CallbackJoined /\ HandedOverOpen /\ Phases /\ Progress
       /\ Declared

\* An opening starts with nothing dialled, armed or declared.
LEMMA InvInit == Init => Inv
<1> SUFFICES ASSUME Init PROVE Inv
  OBVIOUS
<1>1. kind \in AllKinds /\ InitialDelay \in InitialDelay..MaxDelay
  BY OpeningAssumption DEF Init
<1>2. Operations \in Nat \ {0}
  BY OpeningAssumption DEF Operations
<1>3. closed \in BOOLEAN /\ ctx \in BOOLEAN /\ deadline \in BOOLEAN /\ underway \in BOOLEAN
  BY Zenon DEF Init
<1> QED
  BY <1>1, <1>2, <1>3, OpeningAssumption
  DEF Init, Inv, TypeOK, NoConnectionLeft, CallbackJoined, HandedOverOpen, Phases, Progress,
       Declared, Opening, Setup, LoopPoints, Points, Topology, AllKinds

\* Every step of the loops, the deadline callback and the broker preserves Inv.
LEMMA InvNext == Inv /\ [Next]_vars => Inv'
<1> SUFFICES ASSUME Inv, [Next]_vars PROVE Inv'
  OBVIOUS
<1> USE OpeningAssumption
    DEF Inv, TypeOK, NoConnectionLeft, CallbackJoined, HandedOverOpen, Phases, Progress,
        Declared, Operations, Opening, Setup, LoopPoints, Points, Topology, AllKinds,
        loopVars, connectVars, setupVars
<1>1. CASE EndContext
  BY <1>1 DEF EndContext
<1>2. CASE BeginClose
  BY <1>2 DEF BeginClose
<1>3. CASE Expire
  BY <1>3 DEF Expire
<1>4. CASE StopLoop
  BY <1>4 DEF StopLoop, Finish, Goto
<1>5. CASE BeginAttempt
  <2>1. CASE mode = "recover" /\ attempt > 0
    BY <1>5, <2>1 DEF BeginAttempt, StartAttempt, Goto
  <2>2. CASE mode = "open" \/ attempt = 0
    <3>1. deadline' \in BOOLEAN
      BY <1>5, <2>2, Zenon DEF BeginAttempt, StartAttempt
    <3>2. /\ pc = "attempt" /\ pc' = "credentials" /\ tries' = tries + 1
          /\ UNCHANGED <<kind, mode, closed, ctx, attempt, delay, result, nextEndpoint,
                         endpoint, connectVars, setupVars, losses>>
      BY <1>5, <2>2 DEF BeginAttempt, StartAttempt, Goto
    <3> QED
      BY <3>1, <3>2
  <2> QED
    BY <1>5, <2>1, <2>2 DEF BeginAttempt
<1>6. CASE GetCredentials
  BY <1>6 DEF GetCredentials, Goto
<1>7. CASE Dial
  BY <1>7 DEF Dial, Goto, EndpointIndex
<1>8. CASE AttemptFailed
  BY <1>8 DEF AttemptFailed, FinalAttempt, Finish, Goto
<1>9. CASE WaitOver
  <2>1. NextDelay \in InitialDelay..MaxDelay
    BY DEF NextDelay
  <2>2. CASE mode = "open"
    BY <1>9, <2>1, <2>2 DEF WaitOver, StartAttempt, Goto
  <2>3. CASE mode = "recover"
    <3>1. deadline' \in BOOLEAN
      BY <1>9, <2>3, Zenon DEF WaitOver, StartAttempt
    <3>2. /\ pc = "waiting" /\ pc' = "credentials" /\ tries' = tries + 1
          /\ delay' = NextDelay
          /\ UNCHANGED <<kind, mode, closed, ctx, attempt, result, nextEndpoint, endpoint,
                         connectVars, setupVars, losses>>
      BY <1>9, <2>3 DEF WaitOver, StartAttempt, Goto
    <3> QED
      BY <2>1, <3>1, <3>2
  <2> QED
    BY <1>9, <2>2, <2>3 DEF WaitOver
<1>10. CASE CloseCompletes
  BY <1>10 DEF CloseCompletes
<1>11. CASE OpenChannel
  BY <1>11 DEF OpenChannel, AttemptDone, Goto
<1>12. CASE FireCallback
  BY <1>12 DEF FireCallback, AttemptDone
<1>13. CASE RunCallback
  BY <1>13 DEF RunCallback
<1>14. CASE ChannelAnswered
  BY <1>14 DEF ChannelAnswered, Goto
<1>15. CASE ChannelReleased
  BY <1>15 DEF ChannelReleased, Goto
<1>16. CASE StopCallback
  BY <1>16 DEF StopCallback, Goto
<1>17. CASE JoinCallback
  BY <1>17 DEF JoinCallback, Goto
<1>18. CASE CheckChannel
  <2>1. CASE AttemptDone
    BY <1>18, <2>1 DEF CheckChannel, AttemptDone, Goto
  <2>2. CASE ~AttemptDone /\ channel = "error"
    BY <1>18, <2>2 DEF CheckChannel, AttemptDone, CloseConnection, Goto
  <2>3. CASE ~AttemptDone /\ channel = "ok"
    <3>1. callback = "stopped" /\ connection = "open"
      BY <1>18, <2>3 DEF CheckChannel, AttemptDone
    <3>2. pc = "checking" /\ pc' = "setup"
      BY <1>18, <2>3 DEF CheckChannel, Goto
    <3>3. UNCHANGED <<loopVars, deadline, attempt, endpoint, connectVars, setupVars>>
      BY <1>18, <2>3 DEF CheckChannel
    <3> QED
      BY <3>1, <3>2, <3>3
  <2> QED
    BY <1>18, <2>1, <2>2, <2>3 DEF CheckChannel
<1>19. CASE StartOperation
  <2>1. CASE Topology /\ AttemptDone
    BY <1>19, <2>1 DEF StartOperation, AttemptDone, Goto
  <2>2. CASE ~(Topology /\ AttemptDone)
    <3>1. underway' \in BOOLEAN /\ (underway' <=> kind = "active")
      BY <1>19, <2>2, Zenon DEF StartOperation
    <3>2. /\ pc = "setup" /\ pc' = "running" /\ answer' = "pending"
          /\ UNCHANGED <<loopVars, deadline, attempt, endpoint, connectVars, operation, declared>>
      BY <1>19, <2>2 DEF StartOperation, Goto
    <3> QED
      BY <3>1, <3>2
  <2> QED
    BY <2>1, <2>2
<1>20. CASE OperationExecuted
  <2>1. underway' \in BOOLEAN /\ ~underway'
    BY <1>20, Zenon DEF OperationExecuted
  <2>2. /\ underway /\ declared' = declared + 1
        /\ UNCHANGED <<loopVars, deadline, pc, attempt, endpoint, connectVars, operation, answer>>
    BY <1>20 DEF OperationExecuted
  <2>3. kind = "active" /\ pc \in Setup \cup {"done"} /\ pc \notin {"setup", "finishing"}
    BY <2>2
  <2> QED
    BY <2>1, <2>2, <2>3
<1>21. CASE OperationAnswered
  BY <1>21 DEF OperationAnswered
<1>22. CASE OperationCompleted
  BY <1>22 DEF OperationCompleted, Goto
<1>23. CASE OperationExpired
  BY <1>23 DEF OperationExpired, AttemptDone, Goto
<1>24. CASE SetupFailed
  BY <1>24 DEF SetupFailed, CloseConnection, Goto
<1>25. CASE Own
  <2>1. EndpointIndex(nextEndpoint, Endpoints) \in Nat
    BY DEF EndpointIndex
  <2>2. CASE closed
    BY <1>25, <2>2 DEF Own, CloseConnection, Finish, Goto
  <2>3. CASE ~closed
    <3>1. ctx' \in BOOLEAN
      BY <1>25, <2>3, Zenon DEF Own
    <3>2. /\ ~Topology /\ pc = "finishing" /\ pc' = "owned"
          /\ nextEndpoint' = IF mode = "open" THEN attempt + 1
                             ELSE EndpointIndex(nextEndpoint, Endpoints) + 1
          /\ UNCHANGED <<connection, result, kind, mode, closed, deadline, attempt, delay,
                         endpoint, tries, callback, channel, setupVars, losses>>
      BY <1>25, <2>3 DEF Own, Goto
    <3> QED
      BY <2>1, <3>1, <3>2
  <2> QED
    BY <2>2, <2>3
<1>26. CASE Lose
  BY <1>26 DEF Lose, CloseConnection, Goto
<1>27. CASE TopologyClosed
  BY <1>27 DEF TopologyClosed, FinalAttempt, Finish, Goto
<1>28. CASE UNCHANGED vars
  BY <1>28 DEF vars
<1> QED
  BY <1>1, <1>2, <1>3, <1>4, <1>5, <1>6, <1>7, <1>8, <1>9, <1>10, <1>11, <1>12, <1>13, <1>14, <1>15, <1>16, <1>17, <1>18, <1>19, <1>20, <1>21, <1>22, <1>23, <1>24, <1>25, <1>26, <1>27, <1>28
  DEF Next, Environment, Callback, Loop

\* Inv holds throughout every opening and recovery.
LEMMA InvAlways == Spec => []Inv
BY InvInit, InvNext, PTL DEF Spec

\* For every configuration: the loops keep their types; in particular the delay of
\* nextRecoveryDelay stays between InitialDelay and MaxDelay.
THEOREM TypeCorrect == Spec => []TypeOK
BY InvAlways, PTL DEF Inv

\* For every configuration: a failed attempt leaves no open connection behind.
THEOREM NothingLeftOpen == Spec => []NoConnectionLeft
BY InvAlways, PTL DEF Inv

\* For every configuration: boundedAMQPChannel hands over an open connection that
\* no callback can close any more.
THEOREM HandOver == Spec => []HandOverSafe
<1>1. Inv => HandOverSafe
  BY DEF Inv, HandOverSafe
<1> QED
  BY <1>1, InvAlways, PTL

-----------------------------------------------------------------------------
(* Opening implements TopologyOutcome.                                     *)

\* The steps that neither reach the broker nor end the call.
LEMMA SilentSteps ==
    ASSUME Inv,
           EndContext \/ BeginClose \/ Expire \/ BeginAttempt \/ GetCredentials \/ Dial
           \/ WaitOver \/ CloseCompletes \/ OpenChannel \/ FireCallback \/ RunCallback
           \/ ChannelAnswered \/ ChannelReleased \/ StopCallback \/ JoinCallback
           \/ CheckChannel \/ OperationAnswered \/ OperationCompleted
           \/ OperationExpired \/ SetupFailed \/ Lose \/ UNCHANGED vars
    PROVE  UNCHANGED <<kind, underway, declared, result>>
BY DEF EndContext, BeginClose, Expire, BeginAttempt, GetCredentials, Dial, WaitOver,
       CloseCompletes, OpenChannel, FireCallback, RunCallback, ChannelAnswered,
       ChannelReleased, StopCallback, JoinCallback, CheckChannel, OperationAnswered,
       OperationCompleted, OperationExpired, SetupFailed, Lose,
       loopVars, setupVars, vars

\* The steps that may end the call.
LEMMA EndingSteps ==
    ASSUME Inv, StopLoop \/ AttemptFailed \/ Own \/ TopologyClosed
    PROVE  /\ UNCHANGED <<kind, underway, declared>>
           /\ result = "none"
           /\ kind = "active" /\ result' = "ok" => declared = Declarations
BY DEF StopLoop, AttemptFailed, Own, TopologyClosed, Finish, setupVars, Inv, Progress,
       Declared, Topology

\* For every configuration: ApplyTopology sends the declarations of an active
\* topology one at a time, in order and at most once, none after it has returned,
\* and reports success only when the broker has executed all of them.
THEOREM Implements == Spec => ImplementsTopologyOutcome
<1>1. Init => Outcome!Init
  BY DEF Init, Outcome!Init
<1>2. Inv /\ [Next]_vars => [Outcome!Next]_Outcome!state
  <2> SUFFICES ASSUME Inv, [Next]_vars PROVE [Outcome!Next]_Outcome!state
    OBVIOUS
  <2>1. CASE OperationExecuted
    <3>1. UNCHANGED <<kind, result>> /\ underway /\ ~underway' /\ declared' = declared + 1
      BY <2>1 DEF OperationExecuted, loopVars
    <3> QED
      BY <2>1, <3>1 DEF OperationExecuted, Outcome!Next, Outcome!Execute
  <2>2. CASE StartOperation
    <3>1. UNCHANGED <<kind, declared, result>> /\ result = "none" /\ ~underway
      BY <2>2 DEF StartOperation, loopVars, Inv, Progress, Declared
    <3>2. CASE kind = "active" /\ ~UNCHANGED underway
      <4>1. declared < Declarations
        BY <2>2, <3>2, OpeningAssumption
        DEF StartOperation, Inv, TypeOK, Progress, Declared, Operations
      <4>2. underway' = TRUE
        BY <2>2, <3>2, Zenon DEF StartOperation
      <4> QED
        BY <3>1, <3>2, <4>1, <4>2 DEF Outcome!Next, Outcome!Send
    <3>3. CASE kind # "active" \/ UNCHANGED underway
      <4>1. UNCHANGED underway
        BY <2>2, <3>1, <3>3, Zenon DEF StartOperation, Inv, TypeOK
      <4> QED
        BY <3>1, <4>1 DEF Outcome!state
    <3> QED
      BY <3>2, <3>3
  <2>3. CASE StopLoop \/ AttemptFailed \/ Own \/ TopologyClosed
    BY <2>3, EndingSteps DEF Outcome!Next, Outcome!Answer, Outcome!state
  <2>4. CASE UNCHANGED <<kind, underway, declared, result>>
    BY <2>4 DEF Outcome!state
  <2> QED
    BY <2>1, <2>2, <2>3, <2>4, SilentSteps DEF Next, Environment, Callback, Loop
<1> QED
  BY <1>1, <1>2, InvAlways, PTL DEF Spec, ImplementsTopologyOutcome, Outcome!Spec

-----------------------------------------------------------------------------
(* The rotation over the endpoints.                                        *)

\* What division leaves, as recoveryEndpointIndex uses it.
LEMMA Remainder ==
  ASSUME NEW a \in Nat, NEW n \in Nat \ {0}, NEW q \in Nat, NEW r \in 0..(n - 1), a = n * q + r
  PROVE  a % n = r
OBVIOUS

\* The endpoint after one, or the first after the last.
LEMMA NextRemainder ==
  ASSUME NEW a \in Nat, NEW n \in Nat \ {0}
  PROVE  (a + 1) % n = IF (a % n) + 1 = n THEN 0 ELSE (a % n) + 1
<1> DEFINE q == a \div n
           r == a % n
<1>1. a = n * q + r /\ q \in Nat /\ r \in 0..(n - 1)
  OBVIOUS
<1> HIDE DEF q, r
<1>2. CASE r + 1 = n
  <2>1. a + 1 = n * (q + 1) + 0
    BY <1>1, <1>2
  <2>2. (a + 1) % n = 0
    BY <1>1, <2>1, Remainder, a + 1 \in Nat, q + 1 \in Nat, 0 \in 0..(n - 1)
  <2> QED
    BY <1>2, <2>2 DEF r
<1>3. CASE r + 1 # n
  <2>1. a + 1 = n * q + (r + 1)
    BY <1>1
  <2>2. (a + 1) % n = r + 1
    BY <1>1, <1>3, <2>1, Remainder, a + 1 \in Nat, r + 1 \in 0..(n - 1)
  <2> QED
    BY <1>3, <2>2 DEF r
<1> QED
  BY <1>2, <1>3

\* Two counters at the same endpoint are at the same endpoint after a step of each.
LEMMA RemaindersStep ==
  ASSUME NEW a \in Nat, NEW b \in Nat, NEW n \in Nat \ {0}, a % n = b % n
  PROVE  (a + 1) % n = (b + 1) % n
<1>1. (a + 1) % n = IF (a % n) + 1 = n THEN 0 ELSE (a % n) + 1
  BY NextRemainder
<1>2. (b + 1) % n = IF (b % n) + 1 = n THEN 0 ELSE (b % n) + 1
  BY NextRemainder
<1> QED
  BY <1>1, <1>2

\* A counter that is reduced before it is incremented points to the same endpoint.
LEMMA RemainderReduced ==
  ASSUME NEW a \in Nat, NEW n \in Nat \ {0}
  PROVE  ((a % n) + 1) % n = (a + 1) % n
<1>1. (a % n) % n = a % n /\ a % n \in Nat
  OBVIOUS
<1> QED
  BY <1>1, RemaindersStep

\* Where an attempt has been counted and has dialled.
Dialled == {"dialled", "checking", "owned"} \cup Opening \cup Setup

\* An attempt has been counted and the loop's own counter still names it.
Attempting ==
    \/ pc \in {"credentials", "dialing", "failed"} \cup (Dialled \ {"owned"})
    \/ pc = "waiting" /\ mode = "open"

\* nextEndpoint and the attempt of the loop add up, around the endpoints, to the
\* attempts of all loops: to those before the next one between two attempts, to
\* those before this one during an attempt.  The sum starts from zero in a startup,
\* whose loop counts from the first endpoint, and passes to nextEndpoint when a
\* generation is owned.
Rotation ==
    /\ mode = "open" /\ pc \notin {"owned", "done"} => nextEndpoint = 0
    /\ pc = "attempt" \/ (pc = "waiting" /\ mode = "recover") =>
          (nextEndpoint + attempt) % Endpoints = tries % Endpoints
    /\ Attempting =>
          tries > 0 /\ (nextEndpoint + attempt) % Endpoints = (tries - 1) % Endpoints
    /\ pc = "owned" => tries > 0 /\ nextEndpoint % Endpoints = tries % Endpoints
    /\ RotationContinues

\* Every step keeps the rotation.
LEMMA RotationNext == Inv /\ Rotation /\ [Next]_vars => Rotation'
<1> SUFFICES ASSUME Inv, Rotation, [Next]_vars PROVE Rotation'
  OBVIOUS
<1> DEFINE Attempt == Dialled \ {"owned"}
<1> USE DEF Rotation, RotationContinues, Attempting, Dialled, Opening, Setup
<1>1. /\ Endpoints \in Nat \ {0}
      /\ nextEndpoint \in Nat /\ attempt \in Nat /\ tries \in Nat
  BY OpeningAssumption DEF Inv, TypeOK
<1>2. /\ nextEndpoint + attempt \in Nat /\ tries + 1 \in Nat
      /\ tries > 0 => tries - 1 \in Nat /\ (tries - 1) + 1 = tries
      /\ (tries + 1) - 1 = tries
  BY <1>1
\* A step within an attempt, or to its failure, or to the end of the call.
<1>3. ASSUME UNCHANGED <<mode, nextEndpoint, attempt, tries, endpoint>>,
             pc' \in {pc, "done"} \/ (pc \in Attempt /\ pc' \in Attempt \cup {"failed"})
      PROVE  Rotation'
  BY <1>3
\* The loop's counter moves on after an attempt: so has the number of attempts.
<1>4. Attempting => (nextEndpoint + attempt + 1) % Endpoints = tries % Endpoints
  <2> SUFFICES ASSUME Attempting
               PROVE  (nextEndpoint + attempt + 1) % Endpoints = tries % Endpoints
    OBVIOUS
  <2>1. tries - 1 \in Nat /\ (nextEndpoint + attempt) % Endpoints = (tries - 1) % Endpoints
    BY <1>2
  <2>2. ((nextEndpoint + attempt) + 1) % Endpoints = ((tries - 1) + 1) % Endpoints
    BY <1>1, <1>2, <2>1, RemaindersStep
  <2> QED
    BY <1>1, <2>2
<1>5. CASE \/ EndContext \/ BeginClose \/ Expire \/ CloseCompletes \/ OperationExecuted
           \/ OperationAnswered \/ FireCallback \/ RunCallback
  BY <1>3, <1>5 DEF EndContext, BeginClose, Expire, CloseCompletes, OperationExecuted,
                    OperationAnswered, FireCallback, RunCallback, loopVars
<1>6. CASE StopLoop \/ TopologyClosed
  BY <1>3, <1>6 DEF StopLoop, TopologyClosed, Finish, Goto
<1>7. CASE \/ OpenChannel \/ ChannelAnswered \/ ChannelReleased \/ StopCallback \/ JoinCallback
           \/ CheckChannel \/ StartOperation \/ OperationCompleted \/ OperationExpired
           \/ SetupFailed
  BY <1>3, <1>7 DEF OpenChannel, ChannelAnswered, ChannelReleased, StopCallback, JoinCallback,
                    CheckChannel, StartOperation, OperationCompleted, OperationExpired,
                    SetupFailed, Goto, loopVars
<1>8. CASE BeginAttempt
  BY <1>1, <1>2, <1>8 DEF BeginAttempt, StartAttempt, Goto
<1>9. CASE GetCredentials
  BY <1>9 DEF GetCredentials, Goto, loopVars
<1>10. CASE Dial
  BY <1>10 DEF Dial, EndpointIndex, Goto, loopVars
<1>11. CASE AttemptFailed
  <2>1. CASE attempt' = attempt + 1
    <3>1. nextEndpoint' + attempt' = nextEndpoint + attempt + 1
      BY <1>1, <1>11, <2>1 DEF AttemptFailed
    <3> QED
      BY <1>1, <1>4, <1>11, <2>1, <3>1 DEF AttemptFailed, Finish, Goto
  <2>2. CASE UNCHANGED attempt
    BY <1>11, <2>2, <1>1 DEF AttemptFailed, Finish, Goto
  <2> QED
    BY <1>11, <2>1, <2>2 DEF AttemptFailed
<1>12. CASE WaitOver
  <2>1. CASE mode = "open"
    <3>1. nextEndpoint' + attempt' = nextEndpoint + attempt + 1
      BY <1>1, <1>12, <2>1 DEF WaitOver
    <3> QED
      BY <1>1, <1>4, <1>12, <2>1, <3>1 DEF WaitOver, Goto
  <2>2. CASE mode = "recover"
    BY <1>1, <1>2, <1>12, <2>2 DEF WaitOver, StartAttempt, Goto
  <2> QED
    BY <1>12, <2>1, <2>2 DEF WaitOver
<1>13. CASE Own
  <2>1. CASE closed
    BY <1>3, <1>13, <2>1 DEF Own, Finish, Goto
  <2>2. CASE ~closed
    <3>1. nextEndpoint' % Endpoints = (nextEndpoint + attempt + 1) % Endpoints
      <4>1. CASE mode = "open"
        BY <1>1, <1>13, <2>2, <4>1 DEF Own
      <4>2. CASE mode # "open"
        <5>1. nextEndpoint' = ((nextEndpoint + attempt) % Endpoints) + 1
          BY <1>13, <2>2, <4>2 DEF Own, EndpointIndex
        <5> QED
          BY <1>1, <1>2, <5>1, RemainderReduced
      <4> QED
        BY <4>1, <4>2
    <3> QED
      BY <1>1, <1>4, <1>13, <2>2, <3>1 DEF Own, Goto
  <2> QED
    BY <2>1, <2>2
<1>14. CASE Lose
  <2>1. nextEndpoint' + attempt' = nextEndpoint
    BY <1>1, <1>14 DEF Lose
  <2> QED
    BY <1>14, <2>1 DEF Lose, Goto
<1>15. CASE UNCHANGED vars
  BY <1>3, <1>15 DEF vars
<1> QED
  BY <1>5, <1>6, <1>7, <1>8, <1>9, <1>10, <1>11, <1>12, <1>13, <1>14, <1>15
  DEF Next, Environment, Callback, Loop

\* For every number of endpoints and attempts: the attempts of a resource, over its
\* startup and all its recoveries, go around the endpoints in order.
THEOREM EndpointsRotate == Spec => []RotationContinues
<1>1. Init => Rotation
  BY OpeningAssumption
  DEF Init, Rotation, RotationContinues, Attempting, Dialled, Opening, Setup
<1>2. Rotation => RotationContinues
  BY DEF Rotation
<1> QED
  BY <1>1, <1>2, RotationNext, InvAlways, PTL DEF Spec
=============================================================================
