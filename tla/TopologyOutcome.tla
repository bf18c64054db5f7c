-------------------------- MODULE TopologyOutcome --------------------------
(***************************************************************************)
(* What ApplyTopology promises of an active policy, whatever connections,  *)
(* retries and deadlines it takes: declarations are sent one at a time, in *)
(* input order and each once; none is sent after the call has returned,    *)
(* though the last one may still be executed if the call failed; and the   *)
(* broker has executed all of them when the call reports success.          *)
(***************************************************************************)
EXTENDS Naturals

CONSTANT Declarations   \* exchanges, queues and bindings of the topology

VARIABLES underway,     \* one is sent and not executed
          declared,     \* how many of them the broker has executed, in order
          answer        \* "none" until the call returns

Init == underway = FALSE /\ declared = 0 /\ answer = "none"

Send ==
    /\ answer = "none" /\ ~underway
    /\ declared < Declarations
    /\ underway' = TRUE
    /\ UNCHANGED <<declared, answer>>

Execute ==
    /\ underway
    /\ underway' = FALSE
    /\ declared' = declared + 1
    /\ UNCHANGED answer

\* A failed call leaves the declarations made so far as they are.
Answer ==
    /\ answer = "none"
    /\ answer' = "ok" \/ answer' = "error"
    /\ answer' = "ok" => declared = Declarations
    /\ UNCHANGED <<underway, declared>>

Next == Send \/ Execute \/ Answer

state == <<underway, declared, answer>>

Spec == Init /\ [][Next]_state
=============================================================================
