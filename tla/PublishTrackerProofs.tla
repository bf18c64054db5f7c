------------------------ MODULE PublishTrackerProofs ------------------------
(***************************************************************************)
(* Proofs about PublishTracker, for any set of attempts, sequence numbers  *)
(* and tokens and any maximum.                                             *)
(***************************************************************************)
EXTENDS PublishTracker, FiniteSetTheorems, TLAPS

\* The initial tracker satisfies the inductive invariant.
LEMMA InitIInv == Init => IInv
  BY TrackerAssumption
  DEF Init, IInv, TypeOK, IndexesAgree, OneOutcome, Pending, Registered, NoKey,
      PublishStates, Keys

\* Registering an unregistered attempt under free keys preserves the invariant.
LEMMA RegisterIInv ==
  ASSUME IInv, NEW a \in Attempts, NEW s \in SeqNos, NEW t \in Tokens,
         Register(a, s, t)
  PROVE  IInv'
<1> DEFINE k == [sequence |-> s, token |-> t]
<1>1. k \in Keys /\ k # NoKey /\ ~Registered(a) /\ outcome[a] = <<>>
  BY TrackerAssumption DEF Keys, NoKey, Register, Admissible, IInv
<1>2. /\ sequence' = [sequence EXCEPT ![s] = a]
      /\ token' = [token EXCEPT ![t] = a]
      /\ key' = [key EXCEPT ![a] = k]
      /\ sequence[s] = NoAttempt
      /\ token[t] = NoAttempt
      /\ returned' = returned
      /\ outcome' = outcome
  BY DEF Register
<1>3. TypeOK'
  BY <1>1, <1>2 DEF IInv, TypeOK
<1>4. /\ key'[a] = k /\ k.sequence = s /\ k.token = t
      /\ sequence'[s] = a /\ token'[t] = a
      /\ \A b \in Attempts : b # a => key'[b] = key[b]
      /\ \A r \in SeqNos : r # s => sequence'[r] = sequence[r]
      /\ \A u \in Tokens : u # t => token'[u] = token[u]
  BY <1>2 DEF IInv, TypeOK
<1>5. \A b \in Attempts : Pending(b)' <=> (b = a \/ Pending(b))
  BY <1>1, <1>2, <1>4 DEF Pending, Registered
<1>6. IndexesAgree'
  <2>1. ASSUME NEW b \in Attempts, Pending(b)'
        PROVE  sequence'[key'[b].sequence] = b /\ token'[key'[b].token] = b
    <3>1. CASE b = a
      BY <1>4, <3>1
    <3>2. CASE b # a
      <4>1. sequence[key[b].sequence] = b /\ token[key[b].token] = b
        BY <1>5, <2>1, <3>2 DEF IInv, IndexesAgree
      <4>2. key[b].sequence \in SeqNos /\ key[b].token \in Tokens
        BY <1>5, <2>1, <3>2 DEF IInv, TypeOK, Keys, Pending, Registered
      <4>3. key[b].sequence # s /\ key[b].token # t
        BY <1>2, <4>1, TrackerAssumption
      <4> QED
        BY <1>4, <3>2, <4>1, <4>2, <4>3
    <3> QED
      BY <3>1, <3>2
  <2>2. ASSUME NEW r \in SeqNos, sequence'[r] # NoAttempt
        PROVE  (Pending(sequence[r]) /\ key[sequence[r]].sequence = r)'
    <3>1. CASE r = s
      BY <1>4, <1>5, <3>1 DEF Pending, Registered
    <3>2. CASE r # s
      <4>1. /\ sequence'[r] = sequence[r]
            /\ sequence[r] \in Attempts
            /\ Pending(sequence[r]) /\ key[sequence[r]].sequence = r
        BY <1>4, <2>2, <3>2 DEF IInv, IndexesAgree, TypeOK
      <4>2. sequence[r] # a
        BY <1>1, <4>1 DEF Pending
      <4> QED
        BY <1>4, <1>5, <4>1, <4>2 DEF Pending, Registered
    <3> QED
      BY <3>1, <3>2
  <2>3. ASSUME NEW u \in Tokens, token'[u] # NoAttempt
        PROVE  (Pending(token[u]) /\ key[token[u]].token = u)'
    <3>1. CASE u = t
      BY <1>4, <1>5, <3>1 DEF Pending, Registered
    <3>2. CASE u # t
      <4>1. /\ token'[u] = token[u]
            /\ token[u] \in Attempts
            /\ Pending(token[u]) /\ key[token[u]].token = u
        BY <1>4, <2>3, <3>2 DEF IInv, IndexesAgree, TypeOK
      <4>2. token[u] # a
        BY <1>1, <4>1 DEF Pending
      <4> QED
        BY <1>4, <1>5, <4>1, <4>2 DEF Pending, Registered
    <3> QED
      BY <3>1, <3>2
  <2> QED
    BY <2>1, <2>2, <2>3 DEF IndexesAgree
<1>7. OneOutcome'
  BY <1>2 DEF IInv, OneOutcome
<1>8. \A b \in Attempts : outcome'[b] # <<>> => Registered(b)'
  BY <1>1, <1>2, <1>4 DEF IInv, Registered
<1>9. \A b \in returned' : Registered(b)'
  BY <1>1, <1>2, <1>4 DEF IInv, TypeOK, Registered
<1> QED
  BY <1>3, <1>6, <1>7, <1>8, <1>9 DEF IInv

\* Completing any set of pending attempts removes exactly them from both
\* indexes and gives each its first outcome.
LEMMA CompleteIInv ==
  ASSUME IInv, NEW S \in SUBSET {a \in Attempts : Pending(a)},
         NEW state \in PublishStates, Complete(S, state)
  PROVE  /\ IInv'
         /\ \A a \in Attempts : Pending(a)' <=> (Pending(a) /\ a \notin S)
<1>1. /\ sequence' = [s \in SeqNos |->
             IF \E a \in S : key[a].sequence = s THEN NoAttempt ELSE sequence[s]]
      /\ token' = [t \in Tokens |->
             IF \E a \in S : key[a].token = t THEN NoAttempt ELSE token[t]]
      /\ outcome' = [a \in Attempts |->
             IF a \in S THEN Append(outcome[a], state) ELSE outcome[a]]
      /\ key' = key /\ returned' = returned
  BY DEF Complete
<1>2. ASSUME NEW a \in S
      PROVE  /\ outcome[a] = <<>> /\ Registered(a)
             /\ outcome'[a] = <<state>> /\ Len(outcome'[a]) = 1
  <2>1. a \in Attempts /\ outcome[a] = <<>> /\ Registered(a)
    BY DEF Pending
  <2>2. outcome'[a] = Append(<<>>, state)
    BY <1>1, <2>1
  <2> QED
    BY <2>1, <2>2
<1>3. \A a \in Attempts : a \notin S => outcome'[a] = outcome[a]
  BY <1>1
<1>4. TypeOK'
  <2>1. outcome' \in [Attempts -> Seq(PublishStates)]
    BY <1>1, <1>2, <1>3 DEF IInv, TypeOK
  <2> QED
    BY <1>1, <2>1 DEF IInv, TypeOK
<1>5. \A a \in Attempts : Pending(a)' <=> (Pending(a) /\ a \notin S)
  BY <1>1, <1>2, <1>3 DEF Pending, Registered
<1>6. IndexesAgree'
  <2>1. ASSUME NEW b \in Attempts, Pending(b)'
        PROVE  sequence'[key'[b].sequence] = b /\ token'[key'[b].token] = b
    <3>1. Pending(b) /\ b \notin S
      BY <1>5, <2>1
    <3>2. /\ sequence[key[b].sequence] = b /\ token[key[b].token] = b
          /\ key[b].sequence \in SeqNos /\ key[b].token \in Tokens
      BY <3>1 DEF IInv, IndexesAgree, TypeOK, Keys, Pending, Registered
    <3>3. \A a \in S : /\ sequence[key[a].sequence] = a
                       /\ token[key[a].token] = a
      BY DEF IInv, IndexesAgree
    <3>4. ~ \E a \in S : key[a].sequence = key[b].sequence \/ key[a].token = key[b].token
      BY <3>1, <3>2, <3>3
    <3> QED
      BY <1>1, <3>2, <3>4
  <2>2. ASSUME NEW r \in SeqNos, sequence'[r] # NoAttempt
        PROVE  (Pending(sequence[r]) /\ key[sequence[r]].sequence = r)'
    <3>1. sequence'[r] = sequence[r] /\ ~ \E a \in S : key[a].sequence = r
      BY <1>1, <2>2
    <3>2. /\ sequence[r] \in Attempts
          /\ Pending(sequence[r]) /\ key[sequence[r]].sequence = r
      BY <2>2, <3>1 DEF IInv, IndexesAgree, TypeOK
    <3> QED
      BY <1>1, <1>5, <3>1, <3>2 DEF Pending, Registered
  <2>3. ASSUME NEW u \in Tokens, token'[u] # NoAttempt
        PROVE  (Pending(token[u]) /\ key[token[u]].token = u)'
    <3>1. token'[u] = token[u] /\ ~ \E a \in S : key[a].token = u
      BY <1>1, <2>3
    <3>2. /\ token[u] \in Attempts
          /\ Pending(token[u]) /\ key[token[u]].token = u
      BY <2>3, <3>1 DEF IInv, IndexesAgree, TypeOK
    <3> QED
      BY <1>1, <1>5, <3>1, <3>2 DEF Pending, Registered
  <2> QED
    BY <2>1, <2>2, <2>3 DEF IndexesAgree
<1>7. OneOutcome'
  <2>1. ASSUME NEW a \in Attempts PROVE Len(outcome'[a]) <= 1
    <3>1. CASE a \in S
      <4>1. Len(outcome'[a]) = 1
        BY <1>2, <3>1
      <4> QED
        BY <4>1
    <3>2. CASE a \notin S
      BY <1>3, <3>2 DEF IInv, OneOutcome
    <3> QED
      BY <3>1, <3>2
  <2> QED
    BY <2>1 DEF OneOutcome
<1>8. \A b \in Attempts : outcome'[b] # <<>> => Registered(b)'
  BY <1>1, <1>2, <1>3 DEF IInv, Registered
<1>9. \A b \in returned' : Registered(b)'
  BY <1>1 DEF IInv, Registered
<1> QED
  BY <1>4, <1>5, <1>6, <1>7, <1>8, <1>9 DEF IInv

\* A sequence number in use names a pending attempt.
LEMMA UsedIsPending ==
  ASSUME IInv, NEW s \in SeqNos, sequence[s] # NoAttempt
  PROVE  sequence[s] \in Attempts /\ Pending(sequence[s])
  BY DEF IInv, TypeOK, IndexesAgree

\* Every step of the tracker preserves the inductive invariant.
LEMMA NextIInv == IInv /\ [Next]_vars => IInv'
<1> SUFFICES ASSUME IInv, [Next]_vars PROVE IInv'
  OBVIOUS
<1>1. ASSUME NEW a \in Attempts, NEW s \in SeqNos, NEW t \in Tokens, Register(a, s, t)
      PROVE  IInv'
  BY <1>1, RegisterIInv
<1>2. ASSUME NEW t \in Tokens, Returned(t)
      PROVE  IInv'
  <2>1. /\ token[t] \in Attempts /\ Registered(token[t])
        /\ returned' = returned \cup {token[t]}
        /\ UNCHANGED <<sequence, token, key, outcome>>
    BY <1>2 DEF Returned, IInv, TypeOK, IndexesAgree, Pending
  <2> QED
    BY <2>1 DEF IInv, TypeOK, IndexesAgree, OneOutcome, Pending, Registered
<1>3. ASSUME NEW s \in SeqNos, NEW acknowledged \in BOOLEAN, Confirm(s, acknowledged)
      PROVE  IInv'
  <2> DEFINE state == IF sequence[s] \in returned THEN "returned"
                      ELSE IF acknowledged THEN "confirmed" ELSE "rejected"
  <2>1. state \in PublishStates
    BY DEF PublishStates
  <2>2. Complete({sequence[s]}, state) /\ sequence[s] # NoAttempt
    BY <1>3 DEF Confirm
  <2>3. {sequence[s]} \in SUBSET {a \in Attempts : Pending(a)}
    BY <2>2, UsedIsPending
  <2> HIDE DEF state
  <2> QED
    BY <2>1, <2>2, <2>3, CompleteIInv
<1>4. ASSUME NEW s \in SeqNos, NEW state \in LocalStates, Abandon(s, state)
      PROVE  IInv'
  <2>1. Complete({sequence[s]}, state) /\ sequence[s] # NoAttempt
    BY <1>4 DEF Abandon
  <2>2. {sequence[s]} \in SUBSET {a \in Attempts : Pending(a)}
    BY <2>1, UsedIsPending
  <2>3. state \in PublishStates
    BY DEF PublishStates
  <2> QED
    BY <2>1, <2>2, <2>3, CompleteIInv
<1>5. ASSUME NEW state \in LocalStates, FailAll(state)
      PROVE  IInv'
  <2>1. {sequence[s] : s \in Used} \in SUBSET {a \in Attempts : Pending(a)}
    BY UsedIsPending DEF Used
  <2>2. state \in PublishStates
    BY DEF PublishStates
  <2> QED
    BY <1>5, <2>1, <2>2, CompleteIInv DEF FailAll
<1>6. CASE UNCHANGED vars
  BY <1>6 DEF vars, IInv, TypeOK, IndexesAgree, OneOutcome, Pending, Registered
<1> QED
  BY <1>1, <1>2, <1>3, <1>4, <1>5, <1>6 DEF Next

\* In every reachable state the inductive invariant holds.
THEOREM Invariance == Spec => []IInv
  BY InitIInv, NextIInv, PTL DEF Spec

\* The tracker's maps and attempts keep their types (publish_tracker.go:20).
THEOREM TypeCorrect == Spec => []TypeOK
<1>1. IInv => TypeOK
  BY DEF IInv
<1> QED
  BY <1>1, Invariance, PTL

\* The sequence index and the token index always hold exactly the pending
\* attempts, so a confirm and a return never reach different attempts.
THEOREM IndexAgreement == Spec => []IndexesAgree
<1>1. IInv => IndexesAgree
  BY DEF IInv
<1> QED
  BY <1>1, Invariance, PTL

\* No attempt is completed twice, whatever callers do: complete never sends on
\* a channel it has already closed.
THEOREM AtMostOneOutcome == Spec => []OneOutcome
<1>1. IInv => OneOutcome
  BY DEF IInv
<1> QED
  BY <1>1, Invariance, PTL

\* There are no more pending attempts than sequence numbers in use.
LEMMA PendingBound ==
  ASSUME IInv
  PROVE  /\ IsFiniteSet({a \in Attempts : Pending(a)})
         /\ Cardinality({a \in Attempts : Pending(a)}) \in Nat
         /\ Cardinality(Used) \in Nat
         /\ Cardinality({a \in Attempts : Pending(a)}) <= Cardinality(Used)
<1> DEFINE P == {a \in Attempts : Pending(a)}
           f == [a \in P |-> key[a].sequence]
<1>1. IsFiniteSet(Used) /\ Cardinality(Used) \in Nat
  BY TrackerAssumption, FS_Subset, FS_CardinalityType DEF Used
<1>2. \A a \in P : /\ key[a].sequence \in SeqNos
                   /\ sequence[key[a].sequence] = a
  BY DEF IInv, IndexesAgree, TypeOK, Keys, Pending, Registered
<1>3. f \in [P -> Used]
  BY <1>2, TrackerAssumption DEF Used
<1>4. \A a, b \in P : f[a] = f[b] => a = b
  BY <1>2
<1>5. f \in Injection(P, Used)
  BY <1>3, <1>4 DEF Injection, IsInjective
<1> QED
  BY <1>1, <1>5, FS_Injection, FS_CardinalityType

\* The mapped outcome of an attempt: "none" until its channel holds a result.
Mapped == [a \in Attempts |-> IF outcome[a] = <<>> THEN "none" ELSE outcome[a][1]]
PendingSet == {a \in Attempts : Pending(a)}
MarkedSet == {a \in returned : Pending(a)}

\* Completing a set of pending attempts is the abstract Settle.
LEMMA CompleteSettles ==
  ASSUME IInv, NEW S \in SUBSET PendingSet, NEW state \in PublishStates,
         Complete(S, state)
  PROVE  /\ S \subseteq PendingSet
         /\ PendingSet' = PendingSet \ S
         /\ Mapped' = [a \in Attempts |-> IF a \in S THEN state ELSE Mapped[a]]
         /\ MarkedSet' = MarkedSet \ S
<1>1. PendingSet' = PendingSet \ S
  BY CompleteIInv DEF PendingSet
<1>3. MarkedSet' = MarkedSet \ S
  <2>1. returned' = returned /\ returned \subseteq Attempts
    BY DEF Complete, IInv, TypeOK
  <2> QED
    BY <2>1, CompleteIInv DEF MarkedSet, PendingSet
<1>2. \A a \in Attempts : Mapped'[a] = IF a \in S THEN state ELSE Mapped[a]
  <2> TAKE a \in Attempts
  <2>1. outcome'[a] = IF a \in S THEN Append(outcome[a], state) ELSE outcome[a]
    BY DEF Complete
  <2>2. CASE a \in S
    <3>1. outcome[a] = <<>>
      BY <2>2 DEF PendingSet, Pending
    <3>2. outcome'[a] = Append(<<>>, state)
      BY <2>1, <2>2, <3>1
    <3>3. outcome'[a] # <<>> /\ outcome'[a][1] = state
      BY <3>2
    <3> QED
      BY <2>2, <3>3 DEF Mapped
  <2>3. CASE a \notin S
    BY <2>1, <2>3 DEF Mapped
  <2> QED
    BY <2>2, <2>3
<1> QED
  BY <1>1, <1>2, <1>3 DEF Mapped

\* Every step of the tracker is a step of PublishOutcomes or a stutter.
LEMMA StepRefines == IInv /\ [Next]_vars => [Abstract!Next]_(Abstract!vars)
<1> SUFFICES ASSUME IInv, [Next]_vars PROVE [Abstract!Next]_(Abstract!vars)
  OBVIOUS
<1>1. ASSUME NEW a \in Attempts, NEW s \in SeqNos, NEW t \in Tokens, Register(a, s, t)
      PROVE  Abstract!Next
  <2>1. ~Pending(a) /\ outcome[a] = <<>>
    BY <1>1 DEF Register, Pending, IInv
  <2>2. Cardinality(PendingSet) < maximum
    BY <1>1, PendingBound, TrackerAssumption DEF Register, Admissible, PendingSet
  <2>3. [sequence |-> s, token |-> t] # NoKey
    BY <1>1 DEF Register, Admissible, NoKey
  <2>4. \A b \in Attempts : Pending(b)' <=> (b = a \/ Pending(b))
    BY <1>1, <2>1, <2>3 DEF Register, Pending, Registered, IInv, TypeOK
  <2>5. PendingSet' = PendingSet \cup {a}
    BY <2>4 DEF PendingSet
  <2>6. Mapped' = Mapped /\ returned' = returned /\ Mapped[a] = "none"
    BY <1>1, <2>1 DEF Register, Mapped
  <2>8. MarkedSet' = MarkedSet
    BY <2>1, <2>4, <1>1 DEF Register, MarkedSet, Pending, IInv, TypeOK
  <2>7. Abstract!Begin(a)
    BY <2>1, <2>2, <2>5, <2>6, <2>8
    DEF Abstract!Begin, PendingSet, MarkedSet, Mapped, Cardinality, Abstract!Cardinality
  <2> QED
    BY <2>7 DEF Abstract!Next
<1>2. ASSUME NEW t \in Tokens, Returned(t)
      PROVE  Abstract!Next
  <2>1. token[t] \in Attempts /\ Pending(token[t])
    BY <1>2 DEF Returned, IInv, IndexesAgree, TypeOK
  <2>2. PendingSet' = PendingSet /\ Mapped' = Mapped
    BY <1>2 DEF Returned, PendingSet, Pending, Registered, Mapped
  <2>3. MarkedSet' = MarkedSet \cup {token[t]}
    BY <1>2, <2>1 DEF Returned, MarkedSet, Pending, Registered
  <2>4. {token[t]} \in SUBSET Attempts /\ {token[t]} \subseteq PendingSet
    BY <2>1 DEF PendingSet
  <2> QED
    BY <2>2, <2>3, <2>4 DEF Abstract!Next, Abstract!Mark, PendingSet, MarkedSet, Mapped
<1>3. ASSUME NEW s \in SeqNos, NEW acknowledged \in BOOLEAN, Confirm(s, acknowledged)
      PROVE  Abstract!Next
  <2> DEFINE state == IF sequence[s] \in returned THEN "returned"
                      ELSE IF acknowledged THEN "confirmed" ELSE "rejected"
  <2>1. /\ state \in PublishStates /\ state \in {"confirmed", "rejected", "returned"}
        /\ state \in IF sequence[s] \in returned THEN {"returned"}
                     ELSE {"confirmed", "rejected"}
    BY DEF PublishStates
  <2>2. Complete({sequence[s]}, state) /\ sequence[s] # NoAttempt
    BY <1>3 DEF Confirm
  <2>3. sequence[s] \in Attempts /\ {sequence[s]} \in SUBSET PendingSet
    BY <2>2, UsedIsPending DEF PendingSet
  <2> HIDE DEF state
  <2>4. Abstract!Settle({sequence[s]}, state)
    BY <2>1, <2>2, <2>3, CompleteSettles
    DEF Abstract!Settle, PendingSet, MarkedSet, Mapped
  <2> QED
    BY <2>1, <2>3, <2>4
    DEF Abstract!Next, Abstract!Decide, Abstract!Settle, Abstract!BrokerStates, PendingSet
<1>4. ASSUME NEW s \in SeqNos, NEW state \in LocalStates, Abandon(s, state)
      PROVE  Abstract!Next
  <2> DEFINE S == {sequence[s]}
  <2>1. state \in PublishStates /\ Complete(S, state) /\ sequence[s] # NoAttempt
    BY <1>4 DEF Abandon, PublishStates
  <2>2. S \in SUBSET PendingSet /\ S \in SUBSET Attempts
    BY <2>1, UsedIsPending DEF PendingSet
  <2> HIDE DEF S
  <2>3. Abstract!Settle(S, state)
    BY <2>1, <2>2, CompleteSettles
    DEF Abstract!Settle, PendingSet, MarkedSet, Mapped
  <2> QED
    BY <2>2, <2>3
    DEF Abstract!Next, Abstract!GiveUp, Abstract!Settle, Abstract!LocalStates, LocalStates
<1>5. ASSUME NEW state \in LocalStates, FailAll(state)
      PROVE  Abstract!Next
  <2> DEFINE S == {sequence[s] : s \in Used}
  <2>1. S \in SUBSET PendingSet /\ S \in SUBSET Attempts
    BY UsedIsPending DEF Used, PendingSet
  <2>2. state \in PublishStates /\ Complete(S, state)
    BY <1>5 DEF PublishStates, FailAll
  <2> HIDE DEF S
  <2>3. Abstract!Settle(S, state)
    BY <2>1, <2>2, CompleteSettles
    DEF Abstract!Settle, PendingSet, MarkedSet, Mapped
  <2> QED
    BY <2>1, <2>3
    DEF Abstract!Next, Abstract!GiveUp, Abstract!Settle, Abstract!LocalStates, LocalStates
<1>6. CASE UNCHANGED vars
  BY <1>6 DEF vars, Abstract!vars, Pending, Registered
<1> QED
  BY <1>1, <1>2, <1>3, <1>4, <1>5, <1>6 DEF Next

\* publishTracker implements PublishOutcomes: every attempt gets one outcome,
\* a correlated return decides what its confirm means, and no more than maximum
\* attempts are ever pending, for any number of callers and keys.
THEOREM TrackerImplementsOutcomes == Spec => ImplementsOutcomes
<1>1. Init => Abstract!Init
  BY DEF Init, Abstract!Init, Pending, Registered
<1> QED
  BY <1>1, StepRefines, Invariance, PTL DEF Spec, ImplementsOutcomes, Abstract!Spec
=============================================================================
