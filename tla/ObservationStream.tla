-------------------------- MODULE ObservationStream --------------------------
(***************************************************************************)
(* observation.go: the bounded, lossy event stream of a producer or a      *)
(* consumer.  Emitters share stream.mu and race on the dropped counter and *)
(* on the channel; close excludes them, reserves room for a terminal event *)
(* and reports what was lost.  Readers take events at any time.            *)
(***************************************************************************)
EXTENDS Integers, Sequences, FiniteSets, Functions

CONSTANTS Emitters,   \* goroutines that call emit
          Capacity,   \* observationBufferSize
          MaxEmits    \* bound on the calls of emit in one behaviour

ASSUME StreamAssumption ==
    /\ IsFiniteSet(Emitters)
    /\ Capacity \in Nat \ {0}
    /\ MaxEmits \in Nat

VARIABLES channel,    \* buffered events: Dropped and whether it is the terminal one
          dropped,    \* stream.dropped
          emitter,    \* where each call of emit is
          held,       \* observation.Dropped of a call in progress
          closing,    \* where close is; closed holds from "sending" on
          tail,       \* terminal.Dropped
          emitted,    \* events given to an open stream
          reported    \* events received, plus the losses they report

vars == <<channel, dropped, emitter, held, closing, tail, emitted, reported>>

Events == [dropped : Nat, terminal : BOOLEAN]

TypeOK ==
    /\ channel \in Seq(Events) /\ Len(channel) <= Capacity
    /\ dropped \in Nat
    /\ emitter \in [Emitters -> {"idle", "sending", "adding"}]
    /\ held \in [Emitters -> Nat]
    /\ closing \in {"open", "waiting", "sending", "displacing", "final", "done"}
    /\ tail \in Nat
    /\ emitted \in Nat
    /\ reported \in Nat

\* newObservationStream.
Init ==
    /\ channel = <<>>
    /\ dropped = 0
    /\ emitter = [e \in Emitters |-> "idle"]
    /\ held = [e \in Emitters |-> 0]
    /\ closing = "open" /\ tail = 0
    /\ emitted = 0 /\ reported = 0

Event(losses, terminal) == [dropped |-> losses, terminal |-> terminal]

\* What an event accounts for: itself and the losses it reports.
Weight(event) == event.dropped + IF event.terminal THEN 0 ELSE 1

\* A send on the channel does not block.
HasRoom == Len(channel) < Capacity

\* emit: RLock, the closed check and Swap(0).  A waiting close holds new readers
\* of the lock back, and after it emit returns at once.
Emit(e) ==
    /\ emitter[e] = "idle"
    /\ closing = "open"
    /\ emitted < MaxEmits
    /\ emitted' = emitted + 1
    /\ held' = [held EXCEPT ![e] = dropped]
    /\ dropped' = 0
    /\ emitter' = [emitter EXCEPT ![e] = "sending"]
    /\ UNCHANGED <<channel, closing, tail, reported>>

\* The nonblocking send.
Send(e) ==
    /\ emitter[e] = "sending"
    /\ \/ /\ HasRoom
          /\ channel' = Append(channel, Event(held[e], FALSE))
          /\ held' = [held EXCEPT ![e] = 0]
          /\ emitter' = [emitter EXCEPT ![e] = "idle"]
       \/ /\ ~HasRoom
          /\ emitter' = [emitter EXCEPT ![e] = "adding"]
          /\ UNCHANGED <<channel, held>>
    /\ UNCHANGED <<dropped, closing, tail, emitted, reported>>

\* Mutant: losses taken by Swap are not given back.
AddLossOnly(e) ==
    /\ emitter[e] = "adding"
    /\ dropped' = dropped + 1
    /\ held' = [held EXCEPT ![e] = 0]
    /\ emitter' = [emitter EXCEPT ![e] = "idle"]
    /\ UNCHANGED <<channel, closing, tail, emitted, reported>>

\* dropped.Add(observation.Dropped + 1).
AddLoss(e) ==
    /\ emitter[e] = "adding"
    /\ dropped' = dropped + held[e] + 1
    /\ held' = [held EXCEPT ![e] = 0]
    /\ emitter' = [emitter EXCEPT ![e] = "idle"]
    /\ UNCHANGED <<channel, closing, tail, emitted, reported>>

\* An application receives from Observations().
Receive ==
    /\ channel # <<>>
    /\ channel' = Tail(channel)
    /\ reported' = reported + Weight(Head(channel))
    /\ UNCHANGED <<dropped, emitter, held, closing, tail, emitted>>

\* close, once: it asks for the exclusive lock ...
RequestClose ==
    /\ closing = "open"
    /\ closing' = "waiting"
    /\ UNCHANGED <<channel, dropped, emitter, held, tail, emitted, reported>>

\* Mutant: close shares the lock with emitters.
EmittersAnywhere == TRUE

EmittersGone == \A e \in Emitters : emitter[e] = "idle"

\* ... gets it when no emit is under way, and takes the losses ...
LockClose ==
    /\ closing = "waiting"
    /\ EmittersGone
    /\ tail' = dropped
    /\ dropped' = 0
    /\ closing' = "sending"
    /\ UNCHANGED <<channel, emitter, held, emitted, reported>>

\* ... sends the terminal event if there is room ...
SendTerminal ==
    /\ closing = "sending"
    /\ \/ /\ HasRoom
          /\ channel' = Append(channel, Event(tail, TRUE))
          /\ tail' = 0
          /\ closing' = "done"
       \/ /\ ~HasRoom
          /\ closing' = "displacing"
          /\ UNCHANGED <<channel, tail>>
    /\ UNCHANGED <<dropped, emitter, held, emitted, reported>>

\* ... or displaces the oldest event, unless readers have emptied the buffer ...
Displace ==
    /\ closing = "displacing"
    /\ \/ /\ channel # <<>>
          /\ channel' = Tail(channel)
          /\ tail' = tail + Head(channel).dropped + 1
       \/ /\ channel = <<>>
          /\ UNCHANGED <<channel, tail>>
    /\ closing' = "final"
    /\ UNCHANGED <<dropped, emitter, held, emitted, reported>>

\* ... and sends with a blocking send while it holds the lock.
SendFinal ==
    /\ closing = "final"
    /\ HasRoom
    /\ channel' = Append(channel, Event(tail, TRUE))
    /\ tail' = 0
    /\ closing' = "done"
    /\ UNCHANGED <<dropped, emitter, held, emitted, reported>>

EmitSteps(e) == Send(e) \/ AddLoss(e)
CloseSteps == LockClose \/ SendTerminal \/ Displace \/ SendFinal

Next ==
    \/ \E e \in Emitters : Emit(e) \/ EmitSteps(e)
    \/ Receive
    \/ RequestClose \/ CloseSteps

Spec == Init /\ [][Next]_vars

-----------------------------------------------------------------------------
\* What the buffered events account for, and what the calls of emit under way do:
\* their own event and the losses they took.
InChannel == SumFunction([i \in DOMAIN channel |-> Weight(channel[i])])
InHand == SumFunction([e \in Emitters |-> IF emitter[e] = "idle" THEN 0 ELSE held[e] + 1])

\* Every event given to an open stream is accounted for exactly once: received,
\* buffered, in the hands of a call, or counted as a loss that a later event or
\* the terminal one will report (emit, close).
LossesAccounted == emitted = reported + InChannel + InHand + dropped + tail

\* The blocking send in close finds room, with or without readers, so close
\* never blocks while it holds stream.mu (observation.go:163).
CloseHasRoom == closing = "final" => Len(channel) < Capacity

\* The inductive invariant: types, room for the terminal event, and no emit under
\* way once close holds the lock.
IInv ==
    /\ TypeOK
    /\ CloseHasRoom
    /\ closing \in {"sending", "displacing", "final", "done"} => EmittersGone

\* What the account needs besides: close has taken no losses before it holds the
\* lock, and what it displaces is never a terminal event.
Account ==
    /\ LossesAccounted
    /\ closing \in {"open", "waiting"} => tail = 0
    /\ closing # "done" => \A i \in DOMAIN channel : ~channel[i].terminal
=============================================================================
