-------------------------- MODULE PublishOutcomes --------------------------
(***************************************************************************)
(* What publish correlation promises, with no sequence numbers, no tokens  *)
(* and no generations: a bounded window of pending attempts, each of which *)
(* receives one terminal outcome that never changes.  A broker return      *)
(* noticed while an attempt is pending decides what a confirm means for it.*)
(* PublishTracker and Producer are both shown to implement this module.    *)
(***************************************************************************)
EXTENDS Naturals, FiniteSets

CONSTANTS Attempts,   \* identities of publication attempts
          Window      \* most attempts that may be pending at once

VARIABLES pending,    \* attempts that wait for their outcome
          marked,     \* pending attempts whose return has been correlated
          outcome     \* the terminal outcome, "none" before there is one

vars == <<pending, marked, outcome>>

\* States a confirm can decide, and states a caller or a lost generation can.
BrokerStates == {"confirmed", "rejected", "returned"}
LocalStates == {"notSent", "ambiguous"}
PublishStates == BrokerStates \cup LocalStates

Init ==
    /\ pending = {}
    /\ marked = {}
    /\ outcome = [a \in Attempts |-> "none"]

Begin(a) ==
    /\ a \notin pending
    /\ outcome[a] = "none"
    /\ Cardinality(pending) < Window
    /\ pending' = pending \cup {a}
    /\ UNCHANGED <<marked, outcome>>

Mark(S) ==
    /\ S \subseteq pending
    /\ marked' = marked \cup S
    /\ UNCHANGED <<pending, outcome>>

Settle(S, state) ==
    /\ S \subseteq pending
    /\ pending' = pending \ S
    /\ marked' = marked \ S
    /\ outcome' = [a \in Attempts |-> IF a \in S THEN state ELSE outcome[a]]

\* A confirm decides one attempt, and a correlated return takes precedence.
Decide(a, state) ==
    /\ state \in IF a \in marked THEN {"returned"} ELSE {"confirmed", "rejected"}
    /\ Settle({a}, state)

\* A caller that gives up, or a lost generation, decides any set of them.
GiveUp(S, state) ==
    /\ state \in LocalStates
    /\ Settle(S, state)

Next ==
    \/ \E a \in Attempts : Begin(a)
    \/ \E S \in SUBSET Attempts : Mark(S)
    \/ \E a \in Attempts, state \in BrokerStates : Decide(a, state)
    \/ \E S \in SUBSET Attempts, state \in LocalStates : GiveUp(S, state)

Spec == Init /\ [][Next]_vars
============================================================================
