--------------------------- MODULE PublishTracker ---------------------------
(***************************************************************************)
(* publish_tracker.go: the table that correlates confirms (by sequence     *)
(* number) and mandatory returns (by token) with publication attempts.     *)
(* Every method runs under tracker.mu, so every method is one step.  The   *)
(* callers are unconstrained: any goroutine may present any sequence       *)
(* number or token at any time.                                            *)
(***************************************************************************)
EXTENDS Integers, Sequences, FiniteSets

CONSTANTS Attempts,   \* identities of *publishAttempt values
          SeqNos,     \* sequence numbers callers present, 0 among them
          Tokens,     \* return tokens callers present, EmptyToken among them
          EmptyToken, \* the token ""
          NoAttempt,  \* the absent map entry
          maximum     \* publishTracker.maximum

ASSUME TrackerAssumption ==
    /\ maximum \in Nat
    /\ SeqNos \subseteq Nat
    /\ IsFiniteSet(SeqNos)
    /\ EmptyToken \in Tokens
    /\ NoAttempt \notin Attempts

VARIABLES sequence,   \* the map sequence number -> attempt
          token,      \* the map token -> attempt
          key,        \* attempt.sequence and attempt.token, fixed at register
          returned,   \* attempts whose returned field is set
          outcome     \* what has been sent on attempt.outcome, in order

vars == <<sequence, token, key, returned, outcome>>

LocalStates == {"notSent", "ambiguous"}
PublishStates == LocalStates \cup {"confirmed", "rejected", "returned"}
Keys == [sequence : SeqNos, token : Tokens]
NoKey == [sequence |-> 0, token |-> EmptyToken]

TypeOK ==
    /\ sequence \in [SeqNos -> Attempts \cup {NoAttempt}]
    /\ token \in [Tokens -> Attempts \cup {NoAttempt}]
    /\ key \in [Attempts -> Keys \cup {NoKey}]
    /\ returned \subseteq Attempts
    /\ outcome \in [Attempts -> Seq(PublishStates)]

\* The sequence numbers in use: len(tracker.sequence) is their number.
Used == {s \in SeqNos : sequence[s] # NoAttempt}

Registered(a) == key[a] # NoKey

Init ==
    /\ sequence = [s \in SeqNos |-> NoAttempt]
    /\ token = [t \in Tokens |-> NoAttempt]
    /\ key = [a \in Attempts |-> NoKey]
    /\ returned = {}
    /\ outcome = [a \in Attempts |-> <<>>]

\* publishRegistrationAdmission.
Admissible(s, t) ==
    /\ maximum >= 1
    /\ s # 0 /\ t # EmptyToken
    /\ Cardinality(Used) < maximum

\* register: a refused registration returns an error and changes nothing.
Register(a, s, t) ==
    /\ ~Registered(a)
    /\ Admissible(s, t)
    /\ sequence[s] = NoAttempt
    /\ token[t] = NoAttempt
    /\ sequence' = [sequence EXCEPT ![s] = a]
    /\ token' = [token EXCEPT ![t] = a]
    /\ key' = [key EXCEPT ![a] = [sequence |-> s, token |-> t]]
    /\ UNCHANGED <<returned, outcome>>

\* Mutant: completion leaves the token index behind.
CompleteKeepingToken(S, state) ==
    /\ sequence' = [s \in SeqNos |->
           IF \E a \in S : key[a].sequence = s THEN NoAttempt ELSE sequence[s]]
    /\ outcome' = [a \in Attempts |->
           IF a \in S THEN Append(outcome[a], state) ELSE outcome[a]]
    /\ UNCHANGED <<token, key, returned>>

\* complete, for every attempt of S: both indexes lose the attempt's own keys
\* and its channel receives the result.
Complete(S, state) ==
    /\ sequence' = [s \in SeqNos |->
           IF \E a \in S : key[a].sequence = s THEN NoAttempt ELSE sequence[s]]
    /\ token' = [t \in Tokens |->
           IF \E a \in S : key[a].token = t THEN NoAttempt ELSE token[t]]
    /\ outcome' = [a \in Attempts |->
           IF a \in S THEN Append(outcome[a], state) ELSE outcome[a]]
    /\ UNCHANGED <<key, returned>>

\* returned: an unknown token changes nothing and is reported to the caller.
Returned(t) ==
    /\ token[t] # NoAttempt
    /\ returned' = returned \cup {token[t]}
    /\ UNCHANGED <<sequence, token, key, outcome>>

\* Mutant: a positive acknowledgement takes precedence over a return.
ConfirmIgnoringReturn(s, acknowledged) ==
    /\ sequence[s] # NoAttempt
    /\ Complete({sequence[s]}, IF acknowledged THEN "confirmed" ELSE "rejected")

\* confirm: a correlated return wins over either kind of confirm.
Confirm(s, acknowledged) ==
    /\ sequence[s] # NoAttempt
    /\ LET a == sequence[s]
       IN  Complete({a}, IF a \in returned THEN "returned"
                         ELSE IF acknowledged THEN "confirmed" ELSE "rejected")

\* abandon.
Abandon(s, state) ==
    /\ state \in LocalStates
    /\ sequence[s] # NoAttempt
    /\ Complete({sequence[s]}, state)

\* failAll.
FailAll(state) ==
    /\ state \in LocalStates
    /\ Complete({sequence[s] : s \in Used}, state)

Next ==
    \/ \E a \in Attempts, s \in SeqNos, t \in Tokens : Register(a, s, t)
    \/ \E t \in Tokens : Returned(t)
    \/ \E s \in SeqNos, acknowledged \in BOOLEAN : Confirm(s, acknowledged)
    \/ \E s \in SeqNos, state \in LocalStates : Abandon(s, state)
    \/ \E state \in LocalStates : FailAll(state)

Spec == Init /\ [][Next]_vars

-----------------------------------------------------------------------------
\* An attempt is pending from register until its outcome has been sent.
Pending(a) == Registered(a) /\ outcome[a] = <<>>

\* The two indexes always hold exactly the pending attempts, each under its
\* own keys, so a confirm and a return can never reach different attempts
\* (publish_tracker.go:15, "Its mutex is the sole owner of both maps").
IndexesAgree ==
    /\ \A a \in Attempts :
           Pending(a) => sequence[key[a].sequence] = a /\ token[key[a].token] = a
    /\ \A s \in SeqNos : sequence[s] # NoAttempt =>
           Pending(sequence[s]) /\ key[sequence[s]].sequence = s
    /\ \A t \in Tokens : token[t] # NoAttempt =>
           Pending(token[t]) /\ key[token[t]].token = t

\* However callbacks, callers and failAll race, an attempt is completed at most
\* once: a second completion would send on a closed channel and panic
\* (complete, publish_tracker.go:148).
OneOutcome == \A a \in Attempts : Len(outcome[a]) <= 1

\* The inductive invariant of register, returned, confirm, abandon and failAll: the
\* type invariant, the index agreement, one outcome, and neither an outcome nor a
\* return without a registration.
IInv ==
    /\ TypeOK
    /\ IndexesAgree
    /\ OneOutcome
    /\ \A a \in Attempts : outcome[a] # <<>> => Registered(a)
    /\ \A a \in returned : Registered(a)

\* The tracker implements the abstract window of attempts: every attempt is
\* decided once, a correlated return decides what its confirm means, and at
\* most maximum attempts are pending (register, confirm, abandon, failAll).
Abstract == INSTANCE PublishOutcomes WITH
    Window <- maximum,
    pending <- {a \in Attempts : Pending(a)},
    marked <- {a \in returned : Pending(a)},
    outcome <- [a \in Attempts |-> IF outcome[a] = <<>> THEN "none" ELSE outcome[a][1]]

\* The tracker's behaviours, seen through the mapping above, are behaviours of
\* PublishOutcomes.
ImplementsOutcomes == Abstract!Spec
=============================================================================
