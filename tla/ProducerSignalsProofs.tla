----------------------- MODULE ProducerSignalsProofs -----------------------
(***************************************************************************)
(* The observation stream, for any emitters and any capacity of at least   *)
(* one, and the producer that uses it.  With the goroutines that really    *)
(* use it the stream is an ObservationStream, so that what is proved of    *)
(* the stream holds in the producer.  What the producer itself reports:    *)
(* its blocked state, its lifecycle events, its readiness and dependency   *)
(* health in an outage, and its liveness.                                  *)
(***************************************************************************)
EXTENDS ProducerSignals, FiniteSetTheorems, TLAPS

-----------------------------------------------------------------------------
(* Sums over a finite set.  SumFunctionOnSet is a recursive function; what *)
(* it computes follows by induction over the subsets, taken as the         *)
(* existence of a minimal counterexample (WFMin).                          *)

Pick(T) == CHOOSE x \in T : TRUE

IsSum(sum, f, S) ==
    sum = [T \in SUBSET S |-> IF T = {} THEN 0 ELSE f[Pick(T)] + sum[T \ {Pick(T)}]]

LEMMA Unfold ==
    ASSUME NEW f, NEW S
    PROVE  SumFunctionOnSet(f, S) = (CHOOSE sum : IsSum(sum, f, S))[S]
BY DEF SumFunctionOnSet, FoldFunctionOnSet, MapThenFoldSet, IsSum, Pick

\* Induction over the subsets of a finite set.
LEMMA SubsetInduction ==
    ASSUME NEW S, IsFiniteSet(S), NEW G,
           \A T \in SUBSET S : (\A U \in SUBSET T : U # T => U \in G) => T \in G
    PROVE  SUBSET S \subseteq G
<1> DEFINE Bad == {T \in SUBSET S : T \notin G}
<1>1. SUFFICES ASSUME Bad # {} PROVE FALSE
  OBVIOUS
<1>2. IsWellFoundedOn(StrictSubsetOrdering(S), FiniteSubsetsOf(S))
  BY FS_StrictSubsetOrderingWellFounded
<1>3. FiniteSubsetsOf(S) = SUBSET S
  BY FS_FiniteSubsetsOfFinite
<1>4. PICK T \in Bad : \A U \in Bad : ~(<<U, T>> \in StrictSubsetOrdering(S))
  <2> HIDE DEF Bad
  <2>1. Bad \subseteq SUBSET S
    BY DEF Bad
  <2>2. IsWellFoundedOn(StrictSubsetOrdering(S), SUBSET S)
    BY <1>2, <1>3
  <2>3. Bad # {}
    BY <1>1
  <2> QED BY <2>1, <2>2, <2>3, WFMin
<1>5. \A U \in SUBSET T : U # T => U \in G
  <2> SUFFICES ASSUME NEW U \in SUBSET T, U # T, U \notin G PROVE FALSE
    OBVIOUS
  <2>1. U \in Bad
    OBVIOUS
  <2>2. <<U, T>> \in StrictSubsetOrdering(S)
    BY DEF StrictSubsetOrdering
  <2> QED BY <1>4, <2>1, <2>2
<1> QED BY <1>5

\* Two tables of sums agree wherever both are defined.
LEMMA SumUnique ==
    ASSUME NEW f, NEW S, IsFiniteSet(S), NEW T, NEW a, NEW b,
           IsSum(a, f, S), IsSum(b, f, T), S \subseteq T
    PROVE  \A U \in SUBSET S : a[U] = b[U]
<1> DEFINE G == {U \in SUBSET S : a[U] = b[U]}
<1>1. ASSUME NEW U \in SUBSET S, \A V \in SUBSET U : V # U => V \in G
      PROVE  U \in G
  <2>1. CASE U = {}
    BY <2>1 DEF IsSum
  <2>2. CASE U # {}
    <3>1. Pick(U) \in U
      BY <2>2 DEF Pick
    <3>2. U \ {Pick(U)} \in G
      BY <1>1, <3>1
    <3>3. a[U] = f[Pick(U)] + a[U \ {Pick(U)}]
      BY <2>2 DEF IsSum
    <3>4. b[U] = f[Pick(U)] + b[U \ {Pick(U)}]
      BY <2>2 DEF IsSum
    <3> QED BY <3>2, <3>3, <3>4
  <2> QED BY <2>1, <2>2
<1> HIDE DEF G
<1>2. SUBSET S \subseteq G
  BY <1>1, SubsetInduction
<1> QED BY <1>2 DEF G

\* There is a table of sums.
LEMMA SumTable ==
    ASSUME NEW f, NEW S, IsFiniteSet(S)
    PROVE  IsSum(CHOOSE sum : IsSum(sum, f, S), f, S)
<1> DEFINE Table(T) == CHOOSE sum : IsSum(sum, f, T)
           G == {T \in SUBSET S : IsSum(Table(T), f, T)}
<1>1. ASSUME NEW T \in SUBSET S, \A U \in SUBSET T : U # T => U \in G
      PROVE  T \in G
  <2> DEFINE rest == T \ {Pick(T)}
             last == IF T = {} THEN 0 ELSE f[Pick(T)] + Table(rest)[rest]
             g == [U \in SUBSET T |-> IF U = T THEN last ELSE Table(U)[U]]
  <2>1. ASSUME NEW U \in SUBSET T
        PROVE  g[U] = IF U = {} THEN 0 ELSE f[Pick(U)] + g[U \ {Pick(U)}]
    <3>1. U # {} => Pick(U) \in U
      BY DEF Pick
    <3>2. CASE U = T
      BY <3>1, <3>2
    <3>3. CASE U # T
      <4>1. IsSum(Table(U), f, U) /\ g[U] = Table(U)[U]
        BY <1>1, <3>3
      <4>2. CASE U = {}
        BY <4>1, <4>2 DEF IsSum
      <4>3. CASE U # {}
        <5> DEFINE V == U \ {Pick(U)}
        <5>1. V \in SUBSET U /\ V \in SUBSET T /\ V # T /\ V \in G
          BY <1>1, <3>1, <3>3, <4>3
        <5>2. IsSum(Table(V), f, V) /\ g[V] = Table(V)[V]
          BY <5>1
        <5>3. IsFiniteSet(V)
          BY FS_Subset
        <5> HIDE DEF V
        <5>4. Table(V)[V] = Table(U)[V]
          <6> HIDE DEF Table
          <6> QED BY <4>1, <5>1, <5>2, <5>3, SumUnique
        <5>5. Table(U)[U] = f[Pick(U)] + Table(U)[V]
          BY <4>1, <4>3 DEF IsSum, V
        <5> QED BY <4>1, <4>3, <5>2, <5>4, <5>5 DEF V
      <4> QED BY <4>2, <4>3
    <3> QED BY <3>2, <3>3
  <2> HIDE DEF g
  <2>2. g = [U \in SUBSET T |-> g[U]]
    BY DEF g
  <2>3. g = [U \in SUBSET T |-> IF U = {} THEN 0 ELSE f[Pick(U)] + g[U \ {Pick(U)}]]
    BY <2>1, <2>2
  <2>4. IsSum(g, f, T)
    BY <2>3 DEF IsSum
  <2>5. IsSum(Table(T), f, T)
    BY <2>4, Zenon
  <2> QED BY <2>5
<1> HIDE DEF G
<1>2. SUBSET S \subseteq G
  BY <1>1, SubsetInduction
<1> QED BY <1>2 DEF G

\* A sum over nothing, and over a set without its chosen member.
LEMMA SumStep ==
    ASSUME NEW f, NEW S, IsFiniteSet(S)
    PROVE  SumFunctionOnSet(f, S) =
             IF S = {} THEN 0
             ELSE f[Pick(S)] + SumFunctionOnSet(f, S \ {Pick(S)})
<1> DEFINE Table(T) == CHOOSE sum : IsSum(sum, f, T)
           R == S \ {Pick(S)}
<1>1. IsFiniteSet(R)
  BY FS_Subset
<1>2. IsSum(Table(S), f, S) /\ IsSum(Table(R), f, R)
  BY <1>1, SumTable
<1>3. SumFunctionOnSet(f, S) = Table(S)[S] /\ SumFunctionOnSet(f, R) = Table(R)[R]
  BY Unfold
<1> HIDE DEF Table
<1>4. Table(R)[R] = Table(S)[R]
  <2> HIDE DEF R
  <2>1. R \subseteq S
    BY DEF R
  <2> QED BY <1>1, <1>2, <2>1, SumUnique
<1>5. Table(S)[S] = IF S = {} THEN 0 ELSE f[Pick(S)] + Table(S)[R]
  BY <1>2 DEF IsSum
<1> QED BY <1>3, <1>4, <1>5

\* A sum of naturals is a natural.
LEMMA SumNat ==
    ASSUME NEW f, NEW S, IsFiniteSet(S), \A x \in S : f[x] \in Nat
    PROVE  SumFunctionOnSet(f, S) \in Nat
<1> DEFINE G == {T \in SUBSET S : SumFunctionOnSet(f, T) \in Nat}
<1>1. ASSUME NEW T \in SUBSET S, \A U \in SUBSET T : U # T => U \in G
      PROVE  T \in G
  <2>1. IsFiniteSet(T)
    BY FS_Subset
  <2>2. CASE T = {}
    <3>1. SumFunctionOnSet(f, T) = 0
      BY <2>1, <2>2, SumStep, Zenon
    <3> QED BY <3>1
  <2>3. CASE T # {}
    <3>1. Pick(T) \in T
      BY <2>3 DEF Pick
    <3>2. SumFunctionOnSet(f, T \ {Pick(T)}) \in Nat /\ f[Pick(T)] \in Nat
      BY <1>1, <3>1
    <3>3. SumFunctionOnSet(f, T) = f[Pick(T)] + SumFunctionOnSet(f, T \ {Pick(T)})
      BY <2>1, <2>3, SumStep
    <3> QED BY <3>2, <3>3
  <2> QED BY <2>2, <2>3
<1> HIDE DEF G
<1>2. SUBSET S \subseteq G
  BY <1>1, SubsetInduction
<1> QED BY <1>2 DEF G

\* A sum of zeros is zero.
LEMMA SumZero ==
    ASSUME NEW f, NEW S, IsFiniteSet(S), \A x \in S : f[x] = 0
    PROVE  SumFunctionOnSet(f, S) = 0
<1> DEFINE G == {T \in SUBSET S : SumFunctionOnSet(f, T) = 0}
<1>1. ASSUME NEW T \in SUBSET S, \A U \in SUBSET T : U # T => U \in G
      PROVE  T \in G
  <2>1. IsFiniteSet(T)
    BY FS_Subset
  <2>2. T # {} => Pick(T) \in T
    BY DEF Pick
  <2>3. T # {} => SumFunctionOnSet(f, T \ {Pick(T)}) = 0 /\ f[Pick(T)] = 0
    BY <1>1, <2>2
  <2>4. SumFunctionOnSet(f, T) = 0
    BY <2>1, <2>3, SumStep
  <2> QED BY <2>4
<1> HIDE DEF G
<1>2. SUBSET S \subseteq G
  BY <1>1, SubsetInduction
<1> QED BY <1>2 DEF G

\* Any member of the set can be summed first.
LEMMA SumRemove ==
    ASSUME NEW f, NEW S, IsFiniteSet(S), \A x \in S : f[x] \in Nat, NEW e \in S
    PROVE  SumFunctionOnSet(f, S) = f[e] + SumFunctionOnSet(f, S \ {e})
<1> DEFINE Sum(T) == SumFunctionOnSet(f, T)
           G == {T \in SUBSET S : \A x \in T : Sum(T) = f[x] + Sum(T \ {x})}
<1>1. ASSUME NEW T \in SUBSET S, \A U \in SUBSET T : U # T => U \in G
      PROVE  T \in G
  <2> SUFFICES ASSUME NEW x \in T PROVE Sum(T) = f[x] + Sum(T \ {x})
    OBVIOUS
  <2> DEFINE p == Pick(T)
             R == (T \ {p}) \ {x}
  <2>1. p \in T
    BY DEF Pick
  <2>2. Sum(T) = f[p] + Sum(T \ {p})
    <3>1. IsFiniteSet(T)
      BY FS_Subset
    <3> QED BY <3>1, SumStep
  <2>3. CASE x = p
    BY <2>2, <2>3
  <2>4. CASE x # p
    <3>1. T \ {p} \in G /\ T \ {x} \in G
      BY <1>1, <2>1
    <3>2. Sum(T \ {p}) = f[x] + Sum(R)
      BY <2>4, <3>1
    <3>3. Sum(T \ {x}) = f[p] + Sum((T \ {x}) \ {p})
      BY <2>1, <2>4, <3>1
    <3>4. (T \ {x}) \ {p} = R
      OBVIOUS
    <3>5. Sum(R) \in Nat
      <4>1. IsFiniteSet(R)
        BY FS_Subset
      <4> QED BY <4>1, SumNat
    <3>6. f[x] \in Nat /\ f[p] \in Nat
      BY <2>1
    <3>7. Sum(T \ {x}) = f[p] + Sum(R)
      BY <3>3, <3>4, Zenon
    <3>8. Sum(T) = f[p] + (f[x] + Sum(R))
      BY <2>2, <3>2, Zenon
    <3> HIDE DEF R, p, Sum
    <3> QED BY <3>5, <3>6, <3>7, <3>8
  <2> QED BY <2>3, <2>4
<1> HIDE DEF G
<1>2. SUBSET S \subseteq G
  BY <1>1, SubsetInduction
<1> QED BY <1>2 DEF G

\* A sum of numbered values does not change when they are renumbered from two.
LEMMA SumShift ==
    ASSUME NEW n \in Nat, NEW f, NEW g,
           \A i \in 1..n : g[i] \in Nat /\ f[i + 1] = g[i]
    PROVE  SumFunctionOnSet(g, 1..n) = SumFunctionOnSet(f, 2..n + 1)
<1> DEFINE S == 1..n
           Image(T) == {i \in 2..n + 1 : i - 1 \in T}
           G == {T \in SUBSET S : SumFunctionOnSet(g, T) = SumFunctionOnSet(f, Image(T))}
<1>1. IsFiniteSet(S) /\ IsFiniteSet(2..n + 1)
  BY FS_Interval
<1>2. ASSUME NEW T \in SUBSET S, \A U \in SUBSET T : U # T => U \in G
      PROVE  T \in G
  <2>1. IsFiniteSet(T)
    BY <1>1, FS_Subset
  <2>2. IsFiniteSet(Image(T))
    <3>1. Image(T) \subseteq 2..n + 1
      OBVIOUS
    <3> HIDE DEF Image
    <3> QED BY <1>1, <3>1, FS_Subset
  <2>3. CASE T = {}
    <3>1. Image(T) = {}
      BY <2>3
    <3> HIDE DEF Image
    <3> QED BY <2>1, <2>2, <2>3, <3>1, SumStep
  <2>4. CASE T # {}
    <3>1. PICK p \in T : TRUE
      BY <2>4
    <3>2. \A i \in T : i \in 1..n /\ g[i] \in Nat /\ f[i + 1] = g[i]
      OBVIOUS
    <3>3. SumFunctionOnSet(g, T) = g[p] + SumFunctionOnSet(g, T \ {p})
      <4>1. \A i \in T : g[i] \in Nat
        BY <3>2
      <4> HIDE DEF S, Image, G
      <4> QED BY <2>1, <4>1, SumRemove
    <3>4. SumFunctionOnSet(g, T \ {p}) = SumFunctionOnSet(f, Image(T \ {p}))
      <4>1. T \ {p} \in G
        BY <1>2, <3>1
      <4> QED BY <4>1
    <3>5. Image(T) \ {p + 1} = Image(T \ {p})
      BY <3>2
    <3>6. p + 1 \in Image(T)
      BY <3>2
    <3>7. \A j \in Image(T) : f[j] \in Nat
      <4> SUFFICES ASSUME NEW j \in Image(T) PROVE f[j] \in Nat
        OBVIOUS
      <4>1. j - 1 \in T /\ (j - 1) + 1 = j
        OBVIOUS
      <4> QED BY <4>1, <3>2
    <3>8. SumFunctionOnSet(f, Image(T)) = f[p + 1] + SumFunctionOnSet(f, Image(T) \ {p + 1})
      <4> HIDE DEF Image, G
      <4> QED BY <2>2, <3>6, <3>7, SumRemove
    <3>9. f[p + 1] = g[p]
      BY <3>2
    <3>10. SumFunctionOnSet(g, T) = SumFunctionOnSet(f, Image(T))
      <4> HIDE DEF Image, G
      <4> QED BY <3>3, <3>4, <3>5, <3>8, <3>9
    <3> QED BY <3>10
  <2> QED BY <2>3, <2>4
<1>3. SUBSET S \subseteq G
  <2> HIDE DEF G, S
  <2> QED BY <1>1, <1>2, SubsetInduction
<1>4. S \in G
  BY <1>3
<1>5. Image(S) = 2..n + 1
  OBVIOUS
<1> QED BY <1>4, <1>5

\* Functions that agree on a set have the same sum over it.
LEMMA SumEqual ==
    ASSUME NEW f, NEW g, NEW S, IsFiniteSet(S), \A x \in S : f[x] = g[x]
    PROVE  SumFunctionOnSet(f, S) = SumFunctionOnSet(g, S)
<1> DEFINE G == {T \in SUBSET S : SumFunctionOnSet(f, T) = SumFunctionOnSet(g, T)}
<1>1. ASSUME NEW T \in SUBSET S, \A U \in SUBSET T : U # T => U \in G
      PROVE  T \in G
  <2>1. IsFiniteSet(T)
    BY FS_Subset
  <2>2. T # {} => Pick(T) \in T
    BY DEF Pick
  <2>3. T # {} => T \ {Pick(T)} \in G
    BY <1>1, <2>2
  <2>4. T # {} => f[Pick(T)] = g[Pick(T)]
    BY <2>2
  <2> QED BY <2>1, <2>3, <2>4, SumStep
<1> HIDE DEF G
<1>2. SUBSET S \subseteq G
  BY <1>1, SubsetInduction
<1> QED BY <1>2 DEF G

\* A change of one value changes the sum by as much.
LEMMA SumUpdate ==
    ASSUME NEW f, NEW g, NEW S, IsFiniteSet(S), NEW x \in S,
           \A y \in S : f[y] \in Nat /\ g[y] \in Nat,
           \A y \in S : y # x => f[y] = g[y]
    PROVE  SumFunctionOnSet(g, S) + f[x] = SumFunctionOnSet(f, S) + g[x]
<1> DEFINE R == S \ {x}
<1>1. IsFiniteSet(R)
  BY FS_Subset
<1>2. SumFunctionOnSet(f, R) = SumFunctionOnSet(g, R)
  <2>1. \A y \in R : f[y] = g[y]
    OBVIOUS
  <2> HIDE DEF R
  <2> QED BY <1>1, <2>1, SumEqual, Zenon
<1>3. SumFunctionOnSet(f, R) \in Nat
  <2>1. \A y \in R : f[y] \in Nat
    OBVIOUS
  <2> HIDE DEF R
  <2> QED BY <1>1, <2>1, SumNat, Zenon
<1>4. SumFunctionOnSet(f, S) = f[x] + SumFunctionOnSet(f, R)
  <2>1. \A y \in S : f[y] \in Nat
    OBVIOUS
  <2> QED BY <2>1, SumRemove
<1>5. SumFunctionOnSet(g, S) = g[x] + SumFunctionOnSet(g, R)
  <2>1. \A y \in S : g[y] \in Nat
    OBVIOUS
  <2> QED BY <2>1, SumRemove
<1>6. f[x] \in Nat /\ g[x] \in Nat
  OBVIOUS
<1> HIDE DEF R
<1> QED BY <1>2, <1>3, <1>4, <1>5, <1>6

-----------------------------------------------------------------------------
(* ObservationStream.                                                      *)

\* A new stream satisfies the inductive invariant.
LEMMA InitIInv == Init => IInv
  BY StreamAssumption DEF Init, IInv, TypeOK, CloseHasRoom, EmittersGone, Events

\* A buffered event can be taken: what is left is shorter and still well typed.
LEMMA TakeHead ==
  ASSUME NEW c \in Seq(Events), c # <<>>
  PROVE  /\ Tail(c) \in Seq(Events) /\ Len(Tail(c)) = Len(c) - 1
         /\ Head(c) \in Events /\ Len(c) \in Nat
  OBVIOUS

\* An event that finds room can be buffered within the capacity.
LEMMA PutLast ==
  ASSUME NEW c \in Seq(Events), NEW losses \in Nat, NEW terminal \in BOOLEAN,
         Len(c) < Capacity
  PROVE  /\ Append(c, Event(losses, terminal)) \in Seq(Events)
         /\ Len(Append(c, Event(losses, terminal))) <= Capacity
<1>1. Event(losses, terminal) \in Events
  BY DEF Event, Events
<1>2. Append(c, Event(losses, terminal)) \in Seq(Events)
  BY <1>1
<1>3. Len(Append(c, Event(losses, terminal))) = Len(c) + 1
  BY <1>1
<1> QED
  BY <1>2, <1>3, StreamAssumption

\* Every step preserves the inductive invariant.
LEMMA NextIInv == IInv /\ [Next]_vars => IInv'
<1> SUFFICES ASSUME IInv, [Next]_vars PROVE IInv'
  OBVIOUS
<1> USE StreamAssumption DEF IInv, TypeOK, CloseHasRoom, EmittersGone
<1>1. ASSUME NEW e \in Emitters, Emit(e) PROVE IInv'
  BY <1>1 DEF Emit
<1>2. ASSUME NEW e \in Emitters, Send(e) PROVE IInv'
  <2>1. closing \notin {"sending", "displacing", "final", "done"}
    BY <1>2 DEF Send
  <2>2. CASE HasRoom
    <3>1. channel' = Append(channel, Event(held[e], FALSE)) /\ held[e] \in Nat
      BY <1>2, <2>2, Zenon DEF Send
    <3>2. channel' \in Seq(Events) /\ Len(channel') <= Capacity
      BY <3>1, <2>2, PutLast, Zenon DEF HasRoom
    <3>3. /\ emitter' = [emitter EXCEPT ![e] = "idle"]
          /\ held' = [held EXCEPT ![e] = 0]
          /\ UNCHANGED <<dropped, closing, tail, emitted, reported>>
      BY <1>2, <2>2 DEF Send
    <3> QED
      BY <2>1, <3>2, <3>3
  <2>3. CASE ~HasRoom
    BY <1>2, <2>1, <2>3, Zenon DEF Send
  <2> QED
    BY <2>2, <2>3
<1>3. ASSUME NEW e \in Emitters, AddLoss(e) PROVE IInv'
  BY <1>3 DEF AddLoss
<1>4. CASE Receive
  <2>1. /\ channel' \in Seq(Events) /\ Len(channel') <= Capacity
        /\ closing = "final" => Len(channel') < Capacity
        /\ Head(channel) \in Events
    BY <1>4, TakeHead DEF Receive
  <2>2. Weight(Head(channel)) \in Nat
    BY <2>1 DEF Weight, Events
  <2>3. reported' \in Nat
    BY <1>4, <2>2 DEF Receive
  <2> QED
    BY <1>4, <2>1, <2>3 DEF Receive
<1>5. CASE RequestClose
  BY <1>5 DEF RequestClose
<1>6. CASE LockClose
  BY <1>6 DEF LockClose
<1>7. CASE SendTerminal
  <2>1. CASE HasRoom
    <3>1. /\ channel' = Append(channel, Event(tail, TRUE))
          /\ tail' = 0 /\ closing' = "done" /\ closing = "sending"
          /\ UNCHANGED <<dropped, emitter, held, emitted, reported>>
      BY <1>7, <2>1, Zenon DEF SendTerminal
    <3>2. channel' \in Seq(Events) /\ Len(channel') <= Capacity
      BY <3>1, <2>1, PutLast, Zenon DEF HasRoom
    <3> QED
      BY <3>1, <3>2, Zenon
  <2>2. CASE ~HasRoom
    BY <1>7, <2>2, Zenon DEF SendTerminal
  <2> QED
    BY <2>1, <2>2
<1>8. CASE Displace
  <2>1. CASE channel # <<>>
    <3>1. /\ channel' = Tail(channel) /\ tail' = tail + Head(channel).dropped + 1
          /\ closing = "displacing" /\ closing' = "final"
          /\ UNCHANGED <<dropped, emitter, held, emitted, reported>>
      BY <1>8, <2>1 DEF Displace
    <3>2. channel' \in Seq(Events) /\ Len(channel') = Len(channel) - 1 /\ Len(channel) \in Nat
      BY <2>1, <3>1, TakeHead
    <3>3. Head(channel).dropped \in Nat
      BY <2>1, TakeHead DEF Events
    <3> QED
      BY <3>1, <3>2, <3>3
  <2>2. CASE channel = <<>>
    <3>1. Len(channel) < Capacity
      BY <2>2
    <3> QED
      BY <1>8, <2>2, <3>1 DEF Displace
  <2> QED
    BY <2>1, <2>2
<1>9. CASE SendFinal
  <2>1. channel' \in Seq(Events) /\ Len(channel') <= Capacity
    BY <1>9, PutLast, Zenon DEF SendFinal, HasRoom
  <2> QED
    BY <1>9, <2>1, Zenon DEF SendFinal
<1>10. CASE UNCHANGED vars
  BY <1>10 DEF vars
<1> QED
  BY <1>1, <1>2, <1>3, <1>4, <1>5, <1>6, <1>7, <1>8, <1>9, <1>10
  DEF Next, EmitSteps, CloseSteps

\* In every reachable state the inductive invariant holds.
LEMMA Invariance == Spec => []IInv
  BY InitIInv, NextIInv, PTL DEF Spec

\* The stream never holds more than its capacity, and its counters stay counters.
THEOREM StreamTypeCorrect == Spec => []TypeOK
<1>1. IInv => TypeOK
  BY DEF IInv
<1> QED
  BY <1>1, Invariance, PTL

\* The send with which close ends always finds room, so close cannot block while
\* it holds stream.mu, whatever emitters and readers did before.
THEOREM CloseNeverBlocks == Spec => []CloseHasRoom
<1>1. IInv => CloseHasRoom
  BY DEF IInv
<1> QED
  BY <1>1, Invariance, PTL

-----------------------------------------------------------------------------
(* The account of the events and of the losses.                            *)

Weights(c) == [i \in DOMAIN c |-> Weight(c[i])]
Hands(at, losses) == [e \in Emitters |-> IF at[e] = "idle" THEN 0 ELSE losses[e] + 1]

\* An event accounts for a natural number of events.
LEMMA WeightNat ==
  ASSUME NEW event \in Events
  PROVE  Weight(event) \in Nat
  BY DEF Weight, Events

\* What is buffered is a sum of naturals over the places of the channel.
LEMMA ChannelSum ==
  ASSUME NEW c \in Seq(Events)
  PROVE  /\ SumFunction(Weights(c)) = SumFunctionOnSet(Weights(c), 1..Len(c))
         /\ SumFunction(Weights(c)) \in Nat
         /\ Len(c) \in Nat /\ IsFiniteSet(1..Len(c))
         /\ \A i \in 1..Len(c) : Weights(c)[i] = Weight(c[i]) /\ Weights(c)[i] \in Nat
<1>1. Len(c) \in Nat /\ DOMAIN c = 1..Len(c) /\ DOMAIN Weights(c) = 1..Len(c)
  BY DEF Weights
<1>2. IsFiniteSet(1..Len(c))
  BY <1>1, FS_Interval
<1>3. \A i \in 1..Len(c) : Weights(c)[i] = Weight(c[i])
  BY <1>1 DEF Weights
<1>4. \A i \in 1..Len(c) : Weight(c[i]) \in Nat
  BY WeightNat
<1>5. \A i \in 1..Len(c) : Weights(c)[i] \in Nat
  BY <1>3, <1>4
<1>6. SumFunctionOnSet(Weights(c), 1..Len(c)) \in Nat
  BY <1>2, <1>5, SumNat
<1>7. SumFunction(Weights(c)) = SumFunctionOnSet(Weights(c), 1..Len(c))
  BY <1>1 DEF SumFunction
<1> QED
  BY <1>1, <1>2, <1>3, <1>5, <1>6, <1>7

\* An empty channel accounts for nothing.
LEMMA ChannelEmpty == SumFunction(Weights(<<>>)) = 0
<1>1. DOMAIN Weights(<<>>) = {}
  BY DEF Weights
<1>2. IsFiniteSet({})
  BY FS_EmptySet
<1>3. SumFunctionOnSet(Weights(<<>>), {}) = 0
  BY <1>2, SumStep, Zenon
<1> QED
  BY <1>1, <1>3 DEF SumFunction

\* A send adds what the event accounts for.
LEMMA ChannelAppend ==
  ASSUME NEW c \in Seq(Events), NEW event \in Events
  PROVE  SumFunction(Weights(Append(c, event))) = SumFunction(Weights(c)) + Weight(event)
<1> DEFINE d == Append(c, event)
           n == Len(c)
<1>1. /\ d \in Seq(Events) /\ n \in Nat /\ Len(d) = n + 1
      /\ d[n + 1] = event /\ \A i \in 1..n : d[i] = c[i]
  OBVIOUS
<1> HIDE DEF d
<1>2. /\ SumFunction(Weights(d)) = SumFunctionOnSet(Weights(d), 1..n + 1)
      /\ IsFiniteSet(1..n + 1)
      /\ \A i \in 1..n + 1 : Weights(d)[i] = Weight(d[i]) /\ Weights(d)[i] \in Nat
  BY <1>1, ChannelSum
<1>3. /\ SumFunction(Weights(c)) = SumFunctionOnSet(Weights(c), 1..n)
      /\ SumFunction(Weights(c)) \in Nat
      /\ IsFiniteSet(1..n)
      /\ \A i \in 1..n : Weights(c)[i] = Weight(c[i])
  BY ChannelSum
<1> HIDE DEF n
<1>4. n + 1 \in 1..n + 1 /\ (1..n + 1) \ {n + 1} = 1..n
  BY <1>1
<1>5. SumFunctionOnSet(Weights(d), 1..n + 1)
        = Weights(d)[n + 1] + SumFunctionOnSet(Weights(d), (1..n + 1) \ {n + 1})
  <2> DEFINE S == 1..n + 1
             W == Weights(d)
             k == n + 1
  <2>1. \A i \in S : W[i] \in Nat
    BY <1>2
  <2>2. IsFiniteSet(S) /\ k \in S
    BY <1>2, <1>4
  <2>3. SumFunctionOnSet(W, S) = W[k] + SumFunctionOnSet(W, S \ {k})
    <3> HIDE DEF S, W, k
    <3> QED BY <2>1, <2>2, SumRemove
  <2> QED BY <2>3
<1>6. SumFunctionOnSet(Weights(d), 1..n) = SumFunctionOnSet(Weights(c), 1..n)
  <2>1. \A i \in 1..n : Weights(d)[i] = Weights(c)[i]
    BY <1>1, <1>2, <1>3
  <2>2. IsFiniteSet(1..n)
    BY <1>3
  <2> QED BY <2>1, <2>2, SumEqual, Zenon
<1>7. Weights(d)[n + 1] = Weight(event) /\ Weight(event) \in Nat
  BY <1>1, <1>2, <1>4, WeightNat
<1>8. SumFunction(Weights(d)) = Weight(event) + SumFunction(Weights(c))
  BY <1>2, <1>3, <1>4, <1>5, <1>6, <1>7, Zenon
<1>9. SumFunction(Weights(d)) = SumFunction(Weights(c)) + Weight(event)
  BY <1>3, <1>7, <1>8
<1> QED
  BY <1>9 DEF d

\* A receive takes off what the oldest event accounts for.
LEMMA ChannelTail ==
  ASSUME NEW c \in Seq(Events), c # <<>>
  PROVE  SumFunction(Weights(c)) = Weight(Head(c)) + SumFunction(Weights(Tail(c)))
<1> DEFINE d == Tail(c)
           n == Len(d)
<1>1. /\ d \in Seq(Events) /\ n \in Nat /\ Len(c) = n + 1
      /\ Head(c) = c[1] /\ \A i \in 1..n : d[i] = c[i + 1]
  OBVIOUS
<1> HIDE DEF d
<1>2. /\ SumFunction(Weights(c)) = SumFunctionOnSet(Weights(c), 1..n + 1)
      /\ IsFiniteSet(1..n + 1)
      /\ \A i \in 1..n + 1 : Weights(c)[i] = Weight(c[i]) /\ Weights(c)[i] \in Nat
  BY <1>1, ChannelSum
<1>3. /\ SumFunction(Weights(d)) = SumFunctionOnSet(Weights(d), 1..n)
      /\ \A i \in 1..n : Weights(d)[i] = Weight(d[i]) /\ Weights(d)[i] \in Nat
  BY <1>1, ChannelSum
<1> HIDE DEF n
<1>4. 1 \in 1..n + 1 /\ (1..n + 1) \ {1} = 2..n + 1
  BY <1>1
<1>5. SumFunctionOnSet(Weights(c), 1..n + 1)
        = Weights(c)[1] + SumFunctionOnSet(Weights(c), (1..n + 1) \ {1})
  <2> DEFINE S == 1..n + 1
             W == Weights(c)
             k == 1
  <2>1. \A i \in S : W[i] \in Nat
    BY <1>2
  <2>2. IsFiniteSet(S) /\ k \in S
    BY <1>2, <1>4
  <2>3. SumFunctionOnSet(W, S) = W[k] + SumFunctionOnSet(W, S \ {k})
    <3> HIDE DEF S, W, k
    <3> QED BY <2>1, <2>2, SumRemove
  <2> QED BY <2>3
<1>6. SumFunctionOnSet(Weights(d), 1..n) = SumFunctionOnSet(Weights(c), 2..n + 1)
  <2>1. \A i \in 1..n : i + 1 \in 1..n + 1
    BY <1>1
  <2>2. \A i \in 1..n : Weights(d)[i] \in Nat /\ Weights(c)[i + 1] = Weights(d)[i]
    BY <1>1, <1>2, <1>3, <2>1
  <2> QED BY <1>1, <2>2, SumShift
<1>7. Weights(c)[1] = Weight(Head(c))
  BY <1>1, <1>2, <1>4
<1> QED
  BY <1>2, <1>3, <1>4, <1>5, <1>6, <1>7 DEF d

\* A step of one call of emit changes what is in hand by the change of its own.
LEMMA HandsUpdate ==
  ASSUME NEW at \in [Emitters -> {"idle", "sending", "adding"}],
         NEW losses \in [Emitters -> Nat], NEW e \in Emitters,
         NEW step \in {"idle", "sending", "adding"}, NEW taken \in Nat
  PROVE  SumFunction(Hands([at EXCEPT ![e] = step], [losses EXCEPT ![e] = taken]))
           + Hands(at, losses)[e]
         = SumFunction(Hands(at, losses)) + IF step = "idle" THEN 0 ELSE taken + 1
<1> DEFINE f == Hands(at, losses)
           g == Hands([at EXCEPT ![e] = step], [losses EXCEPT ![e] = taken])
<1>1. DOMAIN f = Emitters /\ DOMAIN g = Emitters
  BY DEF Hands
<1>2. \A x \in Emitters : f[x] \in Nat /\ g[x] \in Nat
  BY DEF Hands
<1>3. \A x \in Emitters : x # e => f[x] = g[x]
  BY DEF Hands
<1>4. g[e] = IF step = "idle" THEN 0 ELSE taken + 1
  BY DEF Hands
<1> HIDE DEF f, g
<1>5. SumFunctionOnSet(g, Emitters) + f[e] = SumFunctionOnSet(f, Emitters) + g[e]
  BY <1>2, <1>3, StreamAssumption, SumUpdate
<1> QED
  BY <1>1, <1>4, <1>5 DEF SumFunction, f, g

\* What is in hand is a natural number of events.
LEMMA HandsNat ==
  ASSUME NEW at \in [Emitters -> {"idle", "sending", "adding"}],
         NEW losses \in [Emitters -> Nat]
  PROVE  SumFunction(Hands(at, losses)) \in Nat
<1>1. DOMAIN Hands(at, losses) = Emitters
  BY DEF Hands
<1>2. \A x \in Emitters : Hands(at, losses)[x] \in Nat
  BY DEF Hands
<1>3. SumFunctionOnSet(Hands(at, losses), Emitters) \in Nat
  BY <1>2, StreamAssumption, SumNat
<1> QED
  BY <1>1, <1>3 DEF SumFunction

\* The two sums of LossesAccounted are naturals.
LEMMA Sums ==
  ASSUME TypeOK
  PROVE  /\ InChannel = SumFunction(Weights(channel)) /\ InChannel \in Nat
         /\ InHand = SumFunction(Hands(emitter, held)) /\ InHand \in Nat
<1>1. InChannel = SumFunction(Weights(channel)) /\ InHand = SumFunction(Hands(emitter, held))
  BY Zenon DEF InChannel, InHand, Weights, Hands
<1>2. SumFunction(Weights(channel)) \in Nat
  BY ChannelSum DEF TypeOK
<1>3. SumFunction(Hands(emitter, held)) \in Nat
  BY HandsNat DEF TypeOK
<1> QED
  BY <1>1, <1>2, <1>3

\* A call of emit that takes a step changes what is in hand by its own share.
LEMMA HandStep ==
  ASSUME TypeOK, TypeOK', NEW e \in Emitters, NEW step \in {"idle", "sending", "adding"},
         NEW taken \in Nat, emitter' = [emitter EXCEPT ![e] = step],
         held' = [held EXCEPT ![e] = taken]
  PROVE  InHand' + (IF emitter[e] = "idle" THEN 0 ELSE held[e] + 1)
           = InHand + (IF step = "idle" THEN 0 ELSE taken + 1)
<1>1. emitter \in [Emitters -> {"idle", "sending", "adding"}] /\ held \in [Emitters -> Nat]
  BY DEF TypeOK
<1>2. SumFunction(Hands(emitter', held')) + Hands(emitter, held)[e]
        = SumFunction(Hands(emitter, held)) + IF step = "idle" THEN 0 ELSE taken + 1
  BY <1>1, HandsUpdate, Zenon
<1>3. InHand' = SumFunction(Hands(emitter', held')) /\ InHand = SumFunction(Hands(emitter, held))
  BY Zenon DEF InHand, Hands
<1>4. Hands(emitter, held)[e] = IF emitter[e] = "idle" THEN 0 ELSE held[e] + 1
  BY DEF Hands
<1> QED
  BY <1>2, <1>3, <1>4, Zenon

\* A send adds the event's share to what is buffered ...
LEMMA ChannelGrows ==
  ASSUME TypeOK, NEW event \in Events, channel' = Append(channel, event)
  PROVE  /\ InChannel' = InChannel + Weight(event)
         /\ \A i \in DOMAIN channel' :
              channel'[i] = event \/ (i \in DOMAIN channel /\ channel'[i] = channel[i])
<1>1. channel \in Seq(Events)
  BY DEF TypeOK
<1>2. SumFunction(Weights(channel')) = SumFunction(Weights(channel)) + Weight(event)
  BY <1>1, ChannelAppend
<1>3. InChannel' = SumFunction(Weights(channel')) /\ InChannel = SumFunction(Weights(channel))
  BY Zenon DEF InChannel, Weights
<1>4. \A i \in DOMAIN channel' :
        channel'[i] = event \/ (i \in DOMAIN channel /\ channel'[i] = channel[i])
  BY <1>1
<1> QED
  BY <1>2, <1>3, <1>4

\* ... and a receive takes off the share of the oldest.
LEMMA ChannelShrinks ==
  ASSUME TypeOK, channel # <<>>, channel' = Tail(channel)
  PROVE  /\ InChannel = Weight(Head(channel)) + InChannel' /\ InChannel' \in Nat
         /\ Head(channel) \in Events /\ 1 \in DOMAIN channel /\ Head(channel) = channel[1]
         /\ \A i \in DOMAIN channel' : i + 1 \in DOMAIN channel /\ channel'[i] = channel[i + 1]
<1>1. channel \in Seq(Events)
  BY DEF TypeOK
<1>2. SumFunction(Weights(channel)) = Weight(Head(channel)) + SumFunction(Weights(channel'))
  BY <1>1, ChannelTail
<1>3. InChannel' = SumFunction(Weights(channel')) /\ InChannel = SumFunction(Weights(channel))
  BY Zenon DEF InChannel, Weights
<1>4. SumFunction(Weights(channel')) \in Nat
  <2>1. channel' \in Seq(Events)
    BY <1>1
  <2> QED BY <2>1, ChannelSum
<1>5. /\ Head(channel) \in Events /\ 1 \in DOMAIN channel /\ Head(channel) = channel[1]
      /\ \A i \in DOMAIN channel' : i + 1 \in DOMAIN channel /\ channel'[i] = channel[i + 1]
  BY <1>1
<1> QED
  BY <1>2, <1>3, <1>4, <1>5

\* Nothing buffered changes with nothing sent or received, nothing in hand without
\* a step of a call.
LEMMA SumsUnchanged ==
  /\ UNCHANGED channel => UNCHANGED InChannel
  /\ UNCHANGED <<emitter, held>> => UNCHANGED InHand
  BY Zenon DEF InChannel, InHand

\* A new stream has nothing to account for.
LEMMA AccountInit == Init => Account
<1> SUFFICES ASSUME Init PROVE Account
  OBVIOUS
<1> USE DEF Init
<1>1. TypeOK
  BY InitIInv DEF IInv
<1>2. InChannel = 0
  BY <1>1, Sums, ChannelEmpty
<1>3. InHand = 0
  <2> DEFINE none == Hands(emitter, held)
  <2>1. DOMAIN none = Emitters /\ \A e \in Emitters : none[e] = 0
    BY DEF Hands
  <2> HIDE DEF none
  <2>2. SumFunctionOnSet(none, Emitters) = 0
    BY <2>1, StreamAssumption, SumZero
  <2>3. SumFunction(none) = 0
    BY <2>1, <2>2 DEF SumFunction
  <2> QED BY <1>1, <2>3, Sums DEF none
<1> QED
  BY <1>2, <1>3 DEF Account, LossesAccounted

\* Every step preserves the account.
LEMMA AccountNext == IInv /\ IInv' /\ Account /\ [Next]_vars => Account'
<1> SUFFICES ASSUME IInv, IInv', Account, [Next]_vars PROVE Account'
  OBVIOUS
<1>1. /\ TypeOK /\ TypeOK'
      /\ \A e \in Emitters : held[e] \in Nat
      /\ dropped \in Nat /\ tail \in Nat /\ emitted \in Nat /\ reported \in Nat
      /\ InChannel \in Nat /\ InHand \in Nat
  BY Sums DEF IInv, TypeOK
<1>2. InHand' \in Nat
  <2>1. SumFunction(Hands(emitter, held))' \in Nat
    BY <1>1, HandsNat DEF TypeOK
  <2> QED BY <2>1, Zenon DEF InHand, Hands
<1> USE DEF Account, LossesAccounted
<1>3. ASSUME NEW e \in Emitters, Emit(e) PROVE Account'
  <2>1. InHand' = InHand + dropped + 1
    <3>1. /\ emitter[e] = "idle" /\ emitter' = [emitter EXCEPT ![e] = "sending"]
          /\ held' = [held EXCEPT ![e] = dropped]
      BY <1>3 DEF Emit
    <3>2. InHand' + 0 = InHand + (dropped + 1)
      BY <1>1, <3>1, HandStep
    <3>3. PICK h \in Nat : h = InHand'
      BY <1>2
    <3>4. h + 0 = InHand + (dropped + 1)
      BY <3>2, <3>3, Zenon
    <3>5. h = InHand + dropped + 1
      BY <1>1, <3>4
    <3> QED BY <3>3, <3>5
  <2>2. InChannel' = InChannel
    BY <1>3, SumsUnchanged DEF Emit
  <2> QED BY <1>1, <1>3, <2>1, <2>2 DEF Emit
<1>4. ASSUME NEW e \in Emitters, Send(e), HasRoom PROVE Account'
  <2>1. /\ emitter[e] = "sending" /\ emitter' = [emitter EXCEPT ![e] = "idle"]
        /\ held' = [held EXCEPT ![e] = 0]
        /\ channel' = Append(channel, Event(held[e], FALSE))
        /\ UNCHANGED <<dropped, closing, tail, emitted, reported>>
    BY <1>4 DEF Send
  <2>2. InHand' + (held[e] + 1) = InHand + 0
    BY <1>1, <2>1, HandStep
  <2>3. /\ Event(held[e], FALSE) \in Events /\ Weight(Event(held[e], FALSE)) = held[e] + 1
        /\ ~Event(held[e], FALSE).terminal
    BY <1>1 DEF Event, Events, Weight
  <2>4. InChannel' = InChannel + (held[e] + 1)
    BY <1>1, <2>1, <2>3, ChannelGrows
  <2>5. closing' # "done" => \A i \in DOMAIN channel' : ~channel'[i].terminal
    BY <1>1, <2>1, <2>3, ChannelGrows
  <2>6. PICK h \in Nat : h = InHand'
    BY <1>2
  <2>7. emitted = reported + (InChannel + (held[e] + 1)) + h + dropped + tail
    BY <1>1, <2>2, <2>6
  <2>8. LossesAccounted'
    BY <2>1, <2>4, <2>6, <2>7
  <2> QED BY <2>1, <2>5, <2>8
<1>5. ASSUME NEW e \in Emitters, Send(e), ~HasRoom PROVE Account'
  <2>1. /\ emitter[e] = "sending" /\ emitter' = [emitter EXCEPT ![e] = "adding"]
        /\ held' = [held EXCEPT ![e] = held[e]]
        /\ UNCHANGED <<channel, dropped, closing, tail, emitted, reported>>
    BY <1>1, <1>5 DEF Send, TypeOK
  <2>2. InHand' + (held[e] + 1) = InHand + (held[e] + 1)
    BY <1>1, <2>1, HandStep
  <2>3. InChannel' = InChannel
    BY <2>1, SumsUnchanged
  <2> QED BY <1>1, <1>2, <2>1, <2>2, <2>3
<1>6. ASSUME NEW e \in Emitters, AddLoss(e) PROVE Account'
  <2>1. /\ emitter[e] = "adding" /\ emitter' = [emitter EXCEPT ![e] = "idle"]
        /\ held' = [held EXCEPT ![e] = 0] /\ dropped' = dropped + held[e] + 1
        /\ UNCHANGED <<channel, closing, tail, emitted, reported>>
    BY <1>6 DEF AddLoss
  <2>2. InHand' + (held[e] + 1) = InHand + 0
    BY <1>1, <2>1, HandStep
  <2>3. InChannel' = InChannel
    BY <2>1, SumsUnchanged
  <2> QED BY <1>1, <1>2, <2>1, <2>2, <2>3
<1>7. CASE Receive
  <2>1. /\ channel # <<>> /\ channel' = Tail(channel)
        /\ reported' = reported + Weight(Head(channel))
        /\ UNCHANGED <<dropped, emitter, held, closing, tail, emitted>>
    BY <1>7 DEF Receive
  <2>2. /\ InChannel = Weight(Head(channel)) + InChannel' /\ InChannel' \in Nat
        /\ Weight(Head(channel)) \in Nat
    BY <1>1, <2>1, ChannelShrinks, WeightNat
  <2>3. InHand' = InHand
    BY <2>1, SumsUnchanged
  <2>4. closing' # "done" => \A i \in DOMAIN channel' : ~channel'[i].terminal
    BY <1>1, <2>1, ChannelShrinks
  <2>5. PICK c \in Nat : c = InChannel'
    BY <2>2
  <2>6. emitted = (reported + Weight(Head(channel))) + c + InHand + dropped + tail
    BY <1>1, <2>2, <2>5
  <2>7. LossesAccounted'
    BY <2>1, <2>3, <2>5, <2>6
  <2> QED BY <2>1, <2>4, <2>7
<1>8. CASE RequestClose \/ LockClose \/ UNCHANGED vars
  <2>1. InChannel' = InChannel /\ InHand' = InHand
    BY <1>8, SumsUnchanged DEF RequestClose, LockClose, vars
  <2> QED BY <1>1, <1>8, <2>1 DEF RequestClose, LockClose, vars
<1>9. ASSUME SendTerminal \/ SendFinal, HasRoom PROVE Account'
  <2>1. /\ channel' = Append(channel, Event(tail, TRUE)) /\ tail' = 0 /\ closing' = "done"
        /\ UNCHANGED <<dropped, emitter, held, emitted, reported>>
    BY <1>9 DEF SendTerminal, SendFinal
  <2>2. Event(tail, TRUE) \in Events /\ Weight(Event(tail, TRUE)) = tail
    BY <1>1 DEF Event, Events, Weight
  <2>3. InChannel' = InChannel + tail
    BY <1>1, <2>1, <2>2, ChannelGrows
  <2>4. InHand' = InHand
    BY <2>1, SumsUnchanged
  <2> QED BY <1>1, <2>1, <2>3, <2>4
<1>10. ASSUME SendTerminal, ~HasRoom PROVE Account'
  <2>1. /\ closing = "sending" /\ closing' = "displacing"
        /\ UNCHANGED <<channel, dropped, emitter, held, tail, emitted, reported>>
    BY <1>10 DEF SendTerminal
  <2>2. InChannel' = InChannel /\ InHand' = InHand
    BY <2>1, SumsUnchanged
  <2> QED BY <2>1, <2>2
<1>11. ASSUME Displace, channel # <<>> PROVE Account'
  <2>1. /\ channel' = Tail(channel) /\ tail' = tail + Head(channel).dropped + 1
        /\ closing = "displacing" /\ closing' = "final"
        /\ UNCHANGED <<dropped, emitter, held, emitted, reported>>
    BY <1>11 DEF Displace
  <2>2. /\ InChannel = Weight(Head(channel)) + InChannel' /\ InChannel' \in Nat
        /\ Head(channel) \in Events /\ ~Head(channel).terminal
        /\ \A i \in DOMAIN channel' : ~channel'[i].terminal
    BY <1>1, <1>11, <2>1, ChannelShrinks
  <2>3. Weight(Head(channel)) = Head(channel).dropped + 1 /\ Head(channel).dropped \in Nat
    BY <2>2 DEF Weight, Events
  <2>4. InHand' = InHand
    BY <2>1, SumsUnchanged
  <2>5. PICK c \in Nat : c = InChannel'
    BY <2>2
  <2>6. emitted = reported + c + InHand + dropped + (tail + Head(channel).dropped + 1)
    BY <1>1, <2>2, <2>3, <2>5
  <2>7. LossesAccounted'
    BY <2>1, <2>4, <2>5, <2>6
  <2> QED BY <2>1, <2>2, <2>7
<1>12. ASSUME Displace, channel = <<>> PROVE Account'
  <2>1. /\ closing = "displacing" /\ closing' = "final"
        /\ UNCHANGED <<channel, dropped, emitter, held, tail, emitted, reported>>
    BY <1>12 DEF Displace
  <2>2. InChannel' = InChannel /\ InHand' = InHand
    BY <2>1, SumsUnchanged
  <2> QED BY <2>1, <2>2
<1>13. SendFinal => HasRoom
  BY DEF SendFinal
<1> QED
  BY <1>3, <1>4, <1>5, <1>6, <1>7, <1>8, <1>9, <1>10, <1>11, <1>12, <1>13
  DEF Next, EmitSteps, CloseSteps

\* Every event given to an open stream is received, buffered, in the hands of a
\* call, or counted as a loss that will be reported, exactly once, however emitters,
\* readers and close race on the counter and the channel.
THEOREM EveryLossAccounted == Spec => []LossesAccounted
<1>1. Account => LossesAccounted
  BY DEF Account
<1> QED
  BY <1>1, Invariance, AccountInit, AccountNext, PTL DEF Spec

-----------------------------------------------------------------------------
(* The stream in the producer.                                             *)

\* observe is emit, or leaves a closed stream alone.
LEMMA ObserveSteps ==
  ASSUME NEW e \in Emitters, Observe(e)
  PROVE  Next \/ UNCHANGED vars
  BY DEF Observe, Next, stream, vars

\* Every step of the producer is a step of the stream or leaves it alone.
LEMMA StreamStep == [SignalsNext]_allVars => [Next]_vars
<1> SUFFICES ASSUME [SignalsNext]_allVars PROVE Next \/ UNCHANGED vars
  OBVIOUS
<1> USE SignalsAssumption DEF Quiet, stream, vars
<1>1. "loop" \in Emitters /\ "publisher" \in Emitters /\ "shutdown" \in Emitters
  OBVIOUS
<1>2. ASSUME NEW active, NEW next, SetBlocked(active, next) PROVE Next \/ UNCHANGED vars
  BY <1>1, <1>2, ObserveSteps DEF SetBlocked
<1>3. ASSUME Offer \/ Take \/ OfferAgain \/ ReadBlocked PROVE UNCHANGED vars
  BY <1>3 DEF Offer, Take, OfferAgain, ReadBlocked, SettingUnchanged
<1>4. ASSUME NEW active, Notified(active) PROVE Next \/ UNCHANGED vars
  BY <1>2, <1>4 DEF Notified
<1>5. ASSUME Unblock \/ Defer PROVE Next \/ UNCHANGED vars
  BY <1>2, <1>5, Zenon DEF Unblock, Defer
<1>6. ASSUME GenerationFailed \/ GenerationStopped \/ CloseGeneration \/ Install \/ Release
      PROVE  UNCHANGED vars
  BY <1>6 DEF GenerationFailed, GenerationStopped, CloseGeneration, Install, Release
<1>7. ASSUME MarkLost \/ FailGeneration PROVE Next \/ UNCHANGED vars
  BY <1>1, <1>7, ObserveSteps DEF MarkLost, FailGeneration, MarkRecovering
<1>8. ASSUME Recover \/ FinishRecovered \/ GiveUp PROVE Next \/ UNCHANGED vars
  BY <1>1, <1>8, ObserveSteps, Zenon DEF Recover, FinishRecovered, GiveUp
<1>9. ASSUME PublisherObserves \/ SignalFailure PROVE Next \/ UNCHANGED vars
  BY <1>1, <1>9 DEF PublisherObserves, SignalFailure, Next
<1>10. ASSUME StartShutdown \/ StopEvents \/ AwaitEvents PROVE Next \/ UNCHANGED vars
  BY <1>1, <1>10, ObserveSteps DEF StartShutdown, StopEvents, AwaitEvents
<1>11. ASSUME CloseStream PROVE Next
  BY <1>11 DEF CloseStream, Next
<1>12. ASSUME StreamSteps \/ Receive PROVE Next
  BY <1>12 DEF StreamSteps, Next
<1>13. ASSUME UNCHANGED allVars PROVE UNCHANGED vars
  BY <1>13 DEF allVars
<1> QED
  BY <1>3, <1>4, <1>5, <1>6, <1>7, <1>8, <1>9, <1>10, <1>11, <1>12, <1>13
  DEF SignalsNext, LoopSteps, ShutdownSteps

\* The producer's use of its stream implements ObservationStream: no goroutine of
\* the producer emits twice at once, and close is asked for once.
THEOREM ProducerUsesStream == SignalsSpec => Spec
<1>1. SignalsInit => Init
  BY DEF SignalsInit
<1> QED
  BY <1>1, StreamStep, PTL DEF SignalsSpec, Spec

\* With the producer's own goroutines, and for every capacity and number of
\* observations, the send that ends the stream finds room.
THEOREM ProducerCloseNeverBlocks == SignalsSpec => []CloseHasRoom
  BY ProducerUsesStream, CloseNeverBlocks, PTL

\* The same of the account: what the producer's goroutines observe is received or
\* reported as lost, exactly once.
THEOREM ProducerLossesAccounted == SignalsSpec => []LossesAccounted
  BY ProducerUsesStream, EveryLossAccounted, PTL

-----------------------------------------------------------------------------
(* Types.                                                                  *)

\* What SignalsTypeOK says beyond the stream's TypeOK.
LoopTyped ==
    /\ loop \in {"running", "unblocking", "marking", "closing", "recovering", "dialing",
                 "recovered", "givingUp", "deferring", "releasing", "released", "done"}
    /\ setting \in {"idle", "offering", "taking", "again"}
    /\ publisher \in {"idle", "signalling"}
    /\ shutdown \in {"none", "draining", "awaiting", "closing", "done"}
    /\ notices \in 0..MaxNotices /\ lost \in 0..MaxLosses /\ publishes \in 0..MaxPublishes

FlagsTyped ==
    /\ blocked \in BOOLEAN /\ delivered \in BOOLEAN
    /\ buffer \in {<<>>, <<TRUE>>, <<FALSE>>}
    /\ failure \in BOOLEAN /\ stopEvents \in BOOLEAN /\ unheard \in BOOLEAN
    /\ producer \in [Flags -> BOOLEAN]

\* The program counters of the loop, setBlocked, a publication and Shutdown.
LEMMA LoopTypedNext == LoopTyped /\ [SignalsNext]_allVars => LoopTyped'
<1> SUFFICES ASSUME LoopTyped, [SignalsNext]_allVars PROVE LoopTyped'
  OBVIOUS
<1> USE SignalsAssumption DEF LoopTyped, notification, bounds
<1>1. CASE \E active \in BOOLEAN : Notified(active)
  BY <1>1 DEF Notified, SetBlocked
<1>2. CASE GenerationFailed \/ GenerationStopped \/ CloseGeneration \/ Install \/ Release
  BY <1>2 DEF GenerationFailed, GenerationStopped, CloseGeneration, Install, Release,
              LoopUnchanged
<1>3. CASE Offer \/ Take \/ OfferAgain \/ ReadBlocked
  BY <1>3 DEF Offer, Take, OfferAgain, ReadBlocked, SettingUnchanged
<1>4. CASE Unblock \/ Defer
  BY <1>4, Zenon DEF Unblock, Defer, SetBlocked
<1>5. CASE MarkLost \/ Recover \/ FinishRecovered \/ GiveUp
  BY <1>5, Zenon DEF MarkLost, Recover, FinishRecovered, GiveUp, LoopUnchanged
<1>6. CASE PublisherObserves \/ FailGeneration \/ SignalFailure
  BY <1>6 DEF PublisherObserves, FailGeneration, SignalFailure, PublisherUnchanged
<1>7. CASE StartShutdown \/ StopEvents \/ AwaitEvents \/ CloseStream
  BY <1>7 DEF StartShutdown, StopEvents, AwaitEvents, CloseStream, ShutdownUnchanged
<1>8. CASE UNCHANGED signals
  BY <1>8 DEF signals
<1> QED
  BY <1>1, <1>2, <1>3, <1>4, <1>5, <1>6, <1>7, <1>8
  DEF SignalsNext, LoopSteps, ShutdownSteps, allVars

\* The head of a one-element channel is its element.
LEMMA OneElement ==
  ASSUME NEW S, NEW x \in S
  PROVE  Head(<<x>>) = x /\ <<x>> \in Seq(S) /\ Len(<<x>>) <= 1
  OBVIOUS

\* observe only ever sets unheard.
LEMMA ObserveTyped ==
  ASSUME NEW e \in Emitters, Observe(e), unheard \in BOOLEAN
  PROVE  unheard' \in BOOLEAN
  BY Zenon DEF Observe

\* setBlocked, offerBlockedState and takeBlockedState handle Boolean states.
LEMMA BlockedTyped ==
  ASSUME FlagsTyped,
         \/ \E active \in BOOLEAN : Notified(active)
         \/ Unblock \/ Defer \/ Offer \/ Take \/ OfferAgain \/ ReadBlocked
  PROVE  FlagsTyped'
<1> "loop" \in Emitters
  BY SignalsAssumption
<1> USE DEF FlagsTyped
<1>1. ASSUME NEW active \in BOOLEAN, NEW next, SetBlocked(active, next) PROVE FlagsTyped'
  BY <1>1, ObserveTyped, Zenon DEF SetBlocked, Quiet
<1>2. CASE \E active \in BOOLEAN : Notified(active)
  BY <1>1, <1>2, Zenon DEF Notified
<1>3. CASE Unblock \/ Defer
  BY <1>1, <1>3, Zenon DEF Unblock, Defer
<1>4. <<blocked>> \in {<<TRUE>>, <<FALSE>>}
  <2>1. blocked = TRUE \/ blocked = FALSE
    BY Zenon
  <2> QED
    BY <2>1, Zenon
<1>5. CASE Offer \/ Take \/ OfferAgain
  BY <1>4, <1>5, Zenon DEF Offer, Take, OfferAgain, SettingUnchanged, Quiet
<1>6. CASE ReadBlocked
  <2>1. Head(buffer) \in BOOLEAN
    BY <1>6, OneElement, Zenon DEF ReadBlocked
  <2> QED
    BY <1>6, <2>1, Zenon DEF ReadBlocked, Quiet
<1> QED
  BY <1>2, <1>3, <1>5, <1>6, Zenon

\* markRecovering changes flags only.
LEMMA MarkTyped ==
  ASSUME NEW e \in Emitters, FlagsTyped, MarkRecovering(e)
  PROVE  unheard' \in BOOLEAN /\ producer' \in [Flags -> BOOLEAN]
<1> USE DEF FlagsTyped
<1>1. unheard' \in BOOLEAN
  BY ObserveTyped, Zenon DEF MarkRecovering, Quiet
<1>2. producer' \in [Flags -> BOOLEAN]
  BY Zenon DEF MarkRecovering, Flags
<1> QED
  BY <1>1, <1>2

\* The flags of the producer, of its signals and of BlockedNotifications().
LEMMA FlagsTypedNext == FlagsTyped /\ [SignalsNext]_allVars => FlagsTyped'
<1> SUFFICES ASSUME FlagsTyped, [SignalsNext]_allVars PROVE FlagsTyped'
  OBVIOUS
<1>0. "loop" \in Emitters /\ "publisher" \in Emitters /\ "shutdown" \in Emitters
  BY SignalsAssumption
<1> DEFINE Typed == unheard' \in BOOLEAN /\ producer' \in [Flags -> BOOLEAN]
<1>1. CASE \/ \E active \in BOOLEAN : Notified(active)
           \/ Unblock \/ Defer \/ Offer \/ Take \/ OfferAgain \/ ReadBlocked
  BY <1>1, BlockedTyped
<1>2. CASE GenerationFailed \/ GenerationStopped \/ CloseGeneration \/ Release
  BY <1>2, Zenon DEF GenerationFailed, GenerationStopped, CloseGeneration, Release, Quiet,
                     LoopUnchanged, notification, FlagsTyped
<1>3. CASE Install
  <2>1. producer' \in [Flags -> BOOLEAN]
    BY <1>3, Zenon DEF Install, FlagsTyped, Flags
  <2> QED
    BY <1>3, <2>1, Zenon DEF Install, Quiet, LoopUnchanged, notification, FlagsTyped
<1>4. CASE MarkLost \/ FailGeneration
  <2>1. Typed
    BY <1>0, <1>4, MarkTyped DEF MarkLost, FailGeneration
  <2> QED
    BY <1>4, <2>1, Zenon DEF MarkLost, FailGeneration, LoopUnchanged, PublisherUnchanged,
                             notification, FlagsTyped
<1>5. CASE Recover \/ FinishRecovered \/ GiveUp
  <2>1. unheard' \in BOOLEAN
    BY <1>0, <1>5, ObserveTyped, Zenon DEF Recover, FinishRecovered, GiveUp, Quiet, FlagsTyped
  <2>2. producer' \in [Flags -> BOOLEAN]
    BY <1>5, Zenon DEF Recover, FinishRecovered, GiveUp, FlagsTyped, Flags
  <2> QED
    BY <1>5, <2>1, <2>2, Zenon DEF Recover, FinishRecovered, GiveUp, LoopUnchanged,
                                   notification, FlagsTyped
<1>6. CASE PublisherObserves \/ SignalFailure
  BY <1>6, Zenon DEF PublisherObserves, SignalFailure, PublisherUnchanged, Quiet, notification,
                     FlagsTyped
<1>7. CASE StartShutdown \/ StopEvents \/ AwaitEvents \/ CloseStream
  <2>1. unheard' \in BOOLEAN
    BY <1>0, <1>7, ObserveTyped, Zenon
    DEF StartShutdown, StopEvents, AwaitEvents, CloseStream, Quiet, FlagsTyped
  <2>2. producer' \in [Flags -> BOOLEAN]
    BY <1>7, Zenon DEF StartShutdown, StopEvents, AwaitEvents, CloseStream, FlagsTyped, Flags
  <2> QED
    BY <1>7, <2>1, <2>2, Zenon DEF StartShutdown, StopEvents, AwaitEvents, CloseStream,
                                   ShutdownUnchanged, notification, FlagsTyped
<1>8. CASE UNCHANGED signals
  BY <1>8, Zenon DEF signals, notification, FlagsTyped
<1> QED
  BY <1>1, <1>2, <1>3, <1>4, <1>5, <1>6, <1>7, <1>8
  DEF SignalsNext, LoopSteps, ShutdownSteps, allVars

\* For every capacity and every bound: the state of the event loop, of setBlocked, of
\* the health flags and of Shutdown keeps its types, and BlockedNotifications() never
\* holds more than one state.
THEOREM SignalsTypeCorrect == SignalsSpec => []SignalsTypeOK
<1>1. SignalsInit => LoopTyped /\ FlagsTyped
  <2> SUFFICES ASSUME SignalsInit PROVE LoopTyped /\ FlagsTyped
    OBVIOUS
  <2>1. LoopTyped
    BY SignalsAssumption DEF SignalsInit, LoopTyped
  <2>2. FlagsTyped
    BY Zenon DEF SignalsInit, FlagsTyped
  <2> QED
    BY <2>1, <2>2
<1>2. TypeOK /\ LoopTyped /\ FlagsTyped => SignalsTypeOK
  <2> SUFFICES ASSUME TypeOK, LoopTyped, FlagsTyped PROVE SignalsTypeOK
    OBVIOUS
  <2>1. <<>> \in Seq(BOOLEAN) /\ Len(<<>>) <= 1
    OBVIOUS
  <2>2. buffer \in Seq(BOOLEAN) /\ Len(buffer) <= 1
    BY <2>1, OneElement, Zenon DEF FlagsTyped
  <2> QED
    BY <2>2, Zenon DEF SignalsTypeOK, LoopTyped, FlagsTyped
<1>3. SignalsSpec => []TypeOK
  BY ProducerUsesStream, StreamTypeCorrect, PTL
<1> QED
  BY <1>1, <1>2, <1>3, LoopTypedNext, FlagsTypedNext, PTL DEF SignalsSpec

-----------------------------------------------------------------------------
(* What the application reads: BlockedNotifications(), the order of the    *)
(* last observations, and the health views.                                *)

\* setBlocked replaces a state that waits only after it has taken it out, and the
\* loop is the only one that fills the channel.
Notifying == BlockedFaithful /\ (setting = "again" => buffer = <<>>)

\* close is asked for by finishShutdown, after the loop has ended, and a producer
\* that is closed no longer observes a failing generation.
Hearing ==
    /\ LifecycleHeard
    /\ closing # "open" => shutdown = "done"
    /\ shutdown \in {"closing", "done"} => loop = "done"
    /\ shutdown # "none" => producer["closed"]

\* The flags that no finishRecovery of a successful recovery takes back.
Out == producer["closed"] \/ producer["unavailable"] \/ producer["terminal"]

\* From the mark of a failure to the installation of a new generation the producer is
\* out, also while its publication is still on the way to signal the loop.
Outage ==
    /\ producer["recovering"] => Out
    /\ failure \/ publisher = "signalling" => Out
    /\ loop \in {"closing", "recovering", "dialing", "givingUp", "deferring", "releasing",
                 "released", "done"} => Out
    /\ shutdown # "none" => producer["closed"]
    /\ stopEvents => shutdown # "none"

\* A producer stops after its loop has ended, which is what decides between failed
\* and stopped.
Ended == producer["stopped"] => loop = "done"

\* A new producer is not blocked and has told nobody that it is.
LEMMA NotifyingInit == SignalsInit => Notifying
  BY Zenon DEF SignalsInit, Notifying, BlockedFaithful, NewestBlockedKept, BlockedEnds

\* setBlocked starts: the state it is about to offer is the newest one.
LEMMA SetBlockedNotifies ==
  ASSUME Notifying, NEW active \in BOOLEAN, NEW next, SetBlocked(active, next),
         next = "running" \/ ~active
  PROVE  Notifying'
<1> USE DEF Notifying, BlockedFaithful, NewestBlockedKept, BlockedEnds
<1>1. blocked' = active /\ loop' = next /\ UNCHANGED <<buffer, delivered>> /\ setting = "idle"
  BY DEF SetBlocked, LoopReady
<1>2. BlockedEnds'
  BY <1>1
<1>3. setting' = "offering" \/ (UNCHANGED <<setting, blocked>>)
  BY DEF SetBlocked
<1> QED
  BY <1>1, <1>2, <1>3

\* Every step keeps the newest state where an application will find it.
LEMMA NotifyingNext == Notifying /\ [SignalsNext]_allVars => Notifying'
<1> SUFFICES ASSUME Notifying, [SignalsNext]_allVars PROVE Notifying'
  OBVIOUS
<1> USE DEF notification
<1> DEFINE After == {"marking", "closing", "recovering", "dialing", "recovered", "releasing",
                    "released", "done"}
\* Neither the state nor the channel changes.
<1>1. ASSUME UNCHANGED <<setting, blocked, buffer, delivered>>,
             loop' \in After => loop \in After
      PROVE  Notifying'
  BY <1>1 DEF Notifying, BlockedFaithful, NewestBlockedKept, BlockedEnds
<1>2. CASE \E active \in BOOLEAN : Notified(active)
  BY <1>2, SetBlockedNotifies DEF Notified
<1>3. CASE Unblock \/ Defer
  BY <1>3, SetBlockedNotifies, Zenon DEF Unblock, Defer
\* setBlocked, or a reader, changes the channel.
<1>4. ASSUME UNCHANGED <<loop, blocked>>, NewestBlockedKept', setting' = "again" => buffer' = <<>>
      PROVE  Notifying'
  BY <1>4 DEF Notifying, BlockedFaithful, BlockedEnds
<1>5. <<blocked>>[1] = blocked /\ <<blocked>> # <<>>
  OBVIOUS
<1>6. CASE Offer
  BY <1>4, <1>5, <1>6 DEF Offer, SettingUnchanged, NewestBlockedKept
<1>7. CASE Take
  BY <1>4, <1>7 DEF Take, SettingUnchanged, NewestBlockedKept
<1>8. CASE OfferAgain
  BY <1>4, <1>5, <1>8 DEF OfferAgain, SettingUnchanged, NewestBlockedKept, Notifying
<1>9. CASE ReadBlocked
  BY <1>4, <1>9 DEF ReadBlocked, NewestBlockedKept, Notifying, BlockedFaithful
<1>10. CASE GenerationFailed \/ GenerationStopped \/ MarkLost \/ CloseGeneration \/ Recover
  BY <1>1, <1>10 DEF GenerationFailed, GenerationStopped, MarkLost, CloseGeneration, Recover,
                     LoopUnchanged
<1>11. CASE Install \/ FinishRecovered \/ GiveUp \/ Release
  BY <1>1, <1>11, Zenon DEF Install, FinishRecovered, GiveUp, Release, LoopUnchanged
<1>12. CASE PublisherObserves \/ FailGeneration \/ SignalFailure
  BY <1>1, <1>12 DEF PublisherObserves, FailGeneration, SignalFailure, PublisherUnchanged
<1>13. CASE StartShutdown \/ StopEvents \/ AwaitEvents \/ CloseStream
  BY <1>1, <1>13 DEF StartShutdown, StopEvents, AwaitEvents, CloseStream, ShutdownUnchanged
<1>14. CASE UNCHANGED signals
  BY <1>1, <1>14 DEF signals
<1> QED
  BY <1>2, <1>3, <1>6, <1>7, <1>8, <1>9, <1>10, <1>11, <1>12, <1>13, <1>14
  DEF SignalsNext, LoopSteps, ShutdownSteps, allVars

\* However readers of BlockedNotifications() race with the loop, the newest state is
\* the one that waits or the last one received, and no state outlives its connection.
THEOREM BlockedStateFaithful == SignalsSpec => []BlockedFaithful
<1>1. Notifying => BlockedFaithful
  BY DEF Notifying
<1> QED
  BY NotifyingInit, NotifyingNext, <1>1, PTL DEF SignalsSpec

-----------------------------------------------------------------------------
\* A new producer has its stream open.
LEMMA HearingInit == SignalsInit => Hearing
<1> SUFFICES ASSUME SignalsInit PROVE Hearing
  OBVIOUS
<1>1. ~unheard
  BY Zenon DEF SignalsInit
<1> QED
  BY <1>1 DEF SignalsInit, Init, Hearing, LifecycleHeard

\* What is observed while the stream is open is heard.
LEMMA ObserveHeard ==
  ASSUME NEW e \in Emitters, Observe(e), closing = "open", ~unheard
  PROVE  ~unheard' /\ closing' = "open"
<1>1. Emit(e) /\ UNCHANGED unheard
  BY DEF Observe
<1>2. closing' = closing
  BY <1>1 DEF Emit
<1> QED
  BY <1>1, <1>2, Zenon

\* The loop and finishShutdown observe only before the stream is asked to close.
LEMMA HearingNext == Hearing /\ FlagsTyped /\ [SignalsNext]_allVars => Hearing'
<1> SUFFICES ASSUME Hearing, FlagsTyped, [SignalsNext]_allVars PROVE Hearing'
  OBVIOUS
<1>0. "loop" \in Emitters /\ "publisher" \in Emitters /\ "shutdown" \in Emitters
  BY SignalsAssumption
<1> USE DEF notification, bounds, stream
\* Steps of the loop, before it is done: the stream is open and stays so.
<1>1. ASSUME loop # "done", closing' = "open", ~unheard', shutdown' = shutdown,
             producer'["closed"] <=> producer["closed"]
      PROVE  Hearing'
  BY <1>1 DEF Hearing, LifecycleHeard
<1>2. ASSUME loop # "done" PROVE closing = "open" /\ ~unheard
  BY <1>2 DEF Hearing, LifecycleHeard
<1>3. ASSUME Quiet, closing = "open", ~unheard PROVE closing' = "open" /\ ~unheard'
  BY <1>3, Zenon DEF Quiet
<1>4. ASSUME NEW active, NEW next, SetBlocked(active, next), loop # "done" PROVE Hearing'
  <2>1. closing' = "open" /\ ~unheard'
    BY <1>0, <1>2, <1>3, <1>4, ObserveHeard DEF SetBlocked
  <2> QED
    BY <1>1, <1>4, <2>1 DEF SetBlocked
<1>5. CASE Unblock \/ Defer \/ \E active \in BOOLEAN : Notified(active)
  BY <1>4, <1>5, Zenon DEF Unblock, Defer, Notified
<1>6. CASE GenerationFailed \/ GenerationStopped \/ CloseGeneration \/ Release
  <2>1. loop # "done" /\ Quiet /\ UNCHANGED <<shutdown, producer>>
    BY <1>6 DEF GenerationFailed, GenerationStopped, CloseGeneration, Release, LoopUnchanged
  <2> QED
    BY <1>1, <1>2, <1>3, <2>1
<1>7. CASE Install
  <2>1. loop # "done" /\ Quiet /\ shutdown' = shutdown
    BY <1>7 DEF Install, LoopUnchanged
  <2>2. producer'["closed"] <=> producer["closed"]
    BY <1>7 DEF Install, FlagsTyped, Flags
  <2> QED
    BY <1>1, <1>2, <1>3, <2>1, <2>2
<1>8. CASE MarkLost
  <2>1. loop # "done" /\ MarkRecovering("loop") /\ shutdown' = shutdown
    BY <1>8 DEF MarkLost, LoopUnchanged
  <2>2. producer'["closed"] <=> producer["closed"]
    BY <2>1 DEF MarkRecovering, FlagsTyped, Flags
  <2>3. closing' = "open" /\ ~unheard'
    BY <1>0, <1>2, <1>3, <2>1, ObserveHeard DEF MarkRecovering
  <2> QED
    BY <1>1, <2>1, <2>2, <2>3
<1>9. CASE Recover \/ FinishRecovered \/ GiveUp
  <2>1. loop # "done" /\ (Quiet \/ Observe("loop")) /\ shutdown' = shutdown
    BY <1>9, Zenon DEF Recover, FinishRecovered, GiveUp, LoopUnchanged
  <2>2. producer'["closed"] <=> producer["closed"]
    BY <1>9, Zenon DEF Recover, FinishRecovered, GiveUp, FlagsTyped, Flags
  <2>3. closing' = "open" /\ ~unheard'
    BY <1>0, <1>2, <1>3, <2>1, ObserveHeard
  <2> QED
    BY <1>1, <2>1, <2>2, <2>3
\* Steps that leave loop and Shutdown where they are.
<1>10. ASSUME closing' = closing, ~unheard', UNCHANGED <<loop, shutdown>>,
              producer'["closed"] <=> producer["closed"]
       PROVE  Hearing'
  BY <1>10 DEF Hearing, LifecycleHeard
<1>11. ASSUME UNCHANGED unheard PROVE ~unheard'
  BY <1>11, Zenon DEF Hearing, LifecycleHeard
<1>12. CASE Offer \/ Take \/ OfferAgain \/ ReadBlocked
  BY <1>10, <1>11, <1>12 DEF Offer, Take, OfferAgain, ReadBlocked, SettingUnchanged, Quiet
<1>13. CASE PublisherObserves \/ SignalFailure
  BY <1>10, <1>11, <1>13 DEF PublisherObserves, SignalFailure, PublisherUnchanged, Quiet, Emit
<1>14. CASE FailGeneration
  <2>1. MarkRecovering("publisher") /\ UNCHANGED <<loop, shutdown>>
    BY <1>14 DEF FailGeneration, PublisherUnchanged
  <2>2. producer'["closed"] <=> producer["closed"]
    BY <2>1 DEF MarkRecovering, FlagsTyped, Flags
  <2>3. CASE producer["closed"] \/ producer["recovering"]
    BY <1>10, <1>11, <2>1, <2>2, <2>3 DEF MarkRecovering, Quiet
  <2>4. CASE ~producer["closed"] /\ ~producer["recovering"]
    <3>1. closing = "open" /\ ~unheard
      BY <2>4 DEF Hearing, LifecycleHeard
    <3>2. closing' = "open" /\ ~unheard'
      BY <1>0, <2>1, <2>4, <3>1, ObserveHeard DEF MarkRecovering
    <3> QED
      BY <1>10, <2>1, <2>2, <3>1, <3>2
  <2> QED
    BY <2>3, <2>4
<1>15. CASE StartShutdown
  <2>1. closing = "open" /\ ~unheard /\ shutdown = "none" /\ shutdown' = "draining"
    BY <1>15 DEF StartShutdown, Hearing, LifecycleHeard
  <2>2. closing' = "open" /\ ~unheard'
    BY <1>0, <1>15, <2>1, ObserveHeard DEF StartShutdown
  <2>3. producer'["closed"]
    BY <1>15 DEF StartShutdown, FlagsTyped, Flags
  <2> QED
    BY <2>1, <2>2, <2>3 DEF Hearing, LifecycleHeard
<1>16. CASE StopEvents
  BY <1>11, <1>16 DEF StopEvents, ShutdownUnchanged, Quiet, Hearing, LifecycleHeard
<1>17. CASE AwaitEvents
  <2>1. /\ closing = "open" /\ ~unheard /\ producer["closed"]
        /\ loop = "done" /\ loop' = loop /\ shutdown' = "closing"
    BY <1>17 DEF AwaitEvents, ShutdownUnchanged, Hearing, LifecycleHeard
  <2>2. closing' = "open" /\ ~unheard'
    BY <1>0, <1>17, <2>1, ObserveHeard DEF AwaitEvents
  <2>3. producer'["closed"]
    BY <1>17, <2>1 DEF AwaitEvents, FlagsTyped, Flags
  <2> QED
    BY <2>1, <2>2, <2>3 DEF Hearing, LifecycleHeard
<1>18. CASE CloseStream
  BY <1>11, <1>18 DEF CloseStream, ShutdownUnchanged, Hearing, LifecycleHeard
<1>19. CASE (StreamSteps \/ Receive) /\ UNCHANGED signals
  <2>1. closing = "open" => closing' = "open"
    BY <1>19, Zenon
       DEF StreamSteps, EmitSteps, Send, AddLoss, CloseSteps, LockClose, SendTerminal,
                 Displace, SendFinal, Receive
  <2> QED
    BY <1>11, <1>19, <2>1 DEF signals, Hearing, LifecycleHeard
<1>20. CASE UNCHANGED allVars
  BY <1>10, <1>11, <1>20 DEF allVars, signals
<1> QED
  BY <1>5, <1>6, <1>7, <1>8, <1>9, <1>12, <1>13, <1>14, <1>15, <1>16, <1>17, <1>18, <1>19, <1>20
  DEF SignalsNext, LoopSteps, ShutdownSteps

\* The flags keep their types throughout.
LEMMA FlagsAlways == SignalsSpec => []FlagsTyped
<1>1. SignalsInit => FlagsTyped
  BY Zenon DEF SignalsInit, FlagsTyped
<1> QED
  BY <1>1, FlagsTypedNext, PTL DEF SignalsSpec

\* For every capacity: neither the event loop nor Shutdown observes into a closed
\* stream, so the terminal event of Observations() comes after all they report.
THEOREM LifecycleObserved == SignalsSpec => []LifecycleHeard
<1>1. Hearing => LifecycleHeard
  BY DEF Hearing
<1> QED
  BY HearingInit, HearingNext, FlagsAlways, <1>1, PTL DEF SignalsSpec

-----------------------------------------------------------------------------
\* A new producer is available.
LEMMA OutageInit == SignalsInit => Outage /\ Ended
<1> SUFFICES ASSUME SignalsInit PROVE Outage /\ Ended
  OBVIOUS
<1>1. ~failure /\ ~stopEvents
  BY Zenon DEF SignalsInit
<1>2. ~producer["recovering"] /\ ~producer["stopped"]
  BY DEF SignalsInit, Flags
<1> QED
  BY <1>1, <1>2 DEF SignalsInit, Outage, Ended

\* markRecovering leaves the producer out, and closes nothing.
LEMMA MarkOut ==
  ASSUME NEW e, FlagsTyped, Outage, MarkRecovering(e)
  PROVE  /\ Out'
         /\ producer'["closed"] <=> producer["closed"]
         /\ producer'["terminal"] <=> producer["terminal"]
         /\ producer'["stopped"] <=> producer["stopped"]
  BY DEF MarkRecovering, FlagsTyped, Flags, Outage, Out

\* Marks, signals, installations and Shutdown keep an outage visible.
LEMMA OutageNext == Outage /\ FlagsTyped /\ [SignalsNext]_allVars => Outage'
<1> SUFFICES ASSUME Outage, FlagsTyped, [SignalsNext]_allVars PROVE Outage'
  OBVIOUS
<1> USE DEF notification, bounds
<1> DEFINE Late == {"closing", "recovering", "dialing", "givingUp", "deferring", "releasing",
                    "released", "done"}
\* The flags stay, and so does or ends whatever shows the outage.
<1>1. ASSUME UNCHANGED <<producer, publisher, shutdown, stopEvents>>, failure' => failure,
             loop' \in Late => Out
      PROVE  Outage'
  BY <1>1 DEF Outage, Out
<1>2. ASSUME NEW active, NEW next, SetBlocked(active, next), next \in Late => Out
      PROVE  Outage'
  BY <1>1, <1>2 DEF SetBlocked
<1>3. CASE Unblock \/ Defer \/ \E active \in BOOLEAN : Notified(active)
  BY <1>2, <1>3, Zenon DEF Unblock, Defer, Notified, Outage
<1>4. CASE Offer \/ Take \/ OfferAgain \/ ReadBlocked
  BY <1>1, <1>4 DEF Offer, Take, OfferAgain, ReadBlocked, SettingUnchanged, Outage
<1>5. CASE GenerationFailed \/ CloseGeneration
  <2>1. failure' => failure
    BY <1>5, Zenon DEF GenerationFailed, CloseGeneration
  <2> QED
    BY <1>1, <1>5, <2>1 DEF GenerationFailed, CloseGeneration, LoopUnchanged, Outage
<1>6. CASE GenerationStopped \/ Recover \/ Release
  <2>1. UNCHANGED <<producer, publisher, shutdown, stopEvents, failure>>
    BY <1>6 DEF GenerationStopped, Recover, Release, LoopUnchanged
  <2>2. loop' \in Late => loop \in Late \/ stopEvents
    BY <1>6 DEF GenerationStopped, Recover, Release
  <2>3. stopEvents => Out
    BY DEF Outage, Out
  <2> QED
    BY <1>1, <2>1, <2>2, <2>3 DEF Outage
<1>7. CASE MarkLost
  <2>1. Out' /\ (producer'["closed"] <=> producer["closed"])
    BY <1>7, MarkOut DEF MarkLost
  <2> QED
    BY <1>7, <2>1 DEF MarkLost, LoopUnchanged, Outage
<1>8. CASE Install
  <2>1. CASE loop' = "recovered"
    <3>1. /\ ~producer["closed"] /\ publisher' = "idle" /\ UNCHANGED <<shutdown, stopEvents>>
      BY <1>8, <2>1 DEF Install, LoopUnchanged
    <3>2. ~failure'
      BY <1>8, <2>1, Zenon DEF Install
    <3>3. ~producer'["recovering"] /\ (producer'["closed"] <=> producer["closed"])
      BY <1>8, <2>1 DEF Install, FlagsTyped, Flags
    <3> QED
      BY <2>1, <3>1, <3>2, <3>3 DEF Outage
  <2>2. CASE UNCHANGED <<producer, failure>>
    BY <1>1, <1>8, <2>2 DEF Install, LoopUnchanged, Outage
  <2> QED
    BY <1>8, <2>1, <2>2 DEF Install
<1>9. CASE FinishRecovered \/ GiveUp
  <2>1. UNCHANGED <<publisher, shutdown, stopEvents, failure>>
    BY <1>9, Zenon DEF FinishRecovered, GiveUp, LoopUnchanged
  <2>2. ~producer'["recovering"] /\ (producer'["closed"] <=> producer["closed"])
    BY <1>9, Zenon DEF FinishRecovered, GiveUp, FlagsTyped, Flags
  <2>3. Out => Out'
    BY <1>9, Zenon DEF FinishRecovered, GiveUp, FlagsTyped, Flags, Out
  <2>4. loop' = "running" \/ Out'
    BY <1>9, Zenon DEF FinishRecovered, GiveUp, FlagsTyped, Flags, Out
  <2>5. failure' => failure
    BY <2>1, Zenon
  <2> QED
    BY <2>1, <2>2, <2>3, <2>4, <2>5 DEF Outage
<1>10. CASE FailGeneration
  <2>1. Out' /\ (producer'["closed"] <=> producer["closed"])
    BY <1>10, MarkOut DEF FailGeneration
  <2> QED
    BY <1>10, <2>1 DEF FailGeneration, PublisherUnchanged, Outage
<1>11. CASE PublisherObserves
  BY <1>1, <1>11 DEF PublisherObserves, PublisherUnchanged, Outage
<1>12. CASE SignalFailure
  BY <1>12 DEF SignalFailure, PublisherUnchanged, Outage, Out
<1>13. CASE StartShutdown
  <2>1. producer'["closed"]
    BY <1>13 DEF StartShutdown, FlagsTyped, Flags
  <2> QED
    BY <1>13, <2>1 DEF StartShutdown, ShutdownUnchanged, Outage, Out
<1>14. CASE StopEvents
  BY <1>14 DEF StopEvents, ShutdownUnchanged, Outage, Out
<1>15. CASE AwaitEvents
  <2>1. \A f \in {"closed", "unavailable", "recovering", "terminal"} : producer'[f] <=> producer[f]
    BY <1>15 DEF AwaitEvents, FlagsTyped, Flags
  <2> QED
    BY <1>15, <2>1 DEF AwaitEvents, ShutdownUnchanged, Outage, Out
<1>16. CASE CloseStream
  BY <1>16 DEF CloseStream, ShutdownUnchanged, Outage, Out
<1>17. CASE UNCHANGED signals
  BY <1>1, <1>17 DEF signals, Outage
<1> QED
  BY <1>3, <1>4, <1>5, <1>6, <1>7, <1>8, <1>9, <1>10, <1>11, <1>12, <1>13, <1>14, <1>15, <1>16, <1>17
  DEF SignalsNext, LoopSteps, ShutdownSteps, allVars

\* From the signal of a failed publication, or the loss of a connection, to the
\* replacement of the generation, and after the loop has ended, Readiness and
\* DependencyHealth report the outage.
THEOREM OutageSeen == SignalsSpec => []OutageReported
<1>1. Outage => OutageReported
  BY DEF Outage, Out, OutageReported, Ready, DependencyHealth
<1>2. SignalsInit => Outage
  BY OutageInit
<1> QED
  BY <1>1, <1>2, OutageNext, FlagsAlways, PTL DEF SignalsSpec

\* failed and stopped are decided by flags that are never taken back, and a stopped
\* producer has no loop left that could fail.
LEMMA FinalFlags ==
  ASSUME Ended, Outage, FlagsTyped, [SignalsNext]_allVars
  PROVE  /\ Ended'
         /\ producer["terminal"] => producer'["terminal"]
         /\ producer["stopped"] =>
                producer'["stopped"] /\ (producer'["terminal"] <=> producer["terminal"])
<1> DEFINE Goal == /\ Ended'
                   /\ producer["terminal"] => producer'["terminal"]
                   /\ producer["stopped"] =>
                          producer'["stopped"] /\ (producer'["terminal"] <=> producer["terminal"])
<1> USE DEF Ended
\* The flags stay, and a loop that is done stays done.
<1>1. ASSUME producer'["terminal"] <=> producer["terminal"],
             producer'["stopped"] <=> producer["stopped"], loop # "done" \/ loop' = loop
      PROVE  Goal
  BY <1>1
<1>2. ASSUME NEW active, NEW next, SetBlocked(active, next), loop # "done" PROVE Goal
  BY <1>1, <1>2 DEF SetBlocked
<1>3. CASE Unblock \/ Defer \/ \E active \in BOOLEAN : Notified(active)
  BY <1>2, <1>3, Zenon DEF Unblock, Defer, Notified
<1>4. CASE Offer \/ Take \/ OfferAgain \/ ReadBlocked
  BY <1>1, <1>4 DEF Offer, Take, OfferAgain, ReadBlocked, SettingUnchanged
<1>5. CASE GenerationFailed \/ CloseGeneration \/ GenerationStopped \/ Recover \/ Release
  BY <1>1, <1>5 DEF GenerationFailed, CloseGeneration, GenerationStopped, Recover, Release
<1>6. CASE MarkLost
  BY <1>1, <1>6, MarkOut DEF MarkLost
<1>7. CASE FailGeneration
  BY <1>1, <1>7, MarkOut DEF FailGeneration, PublisherUnchanged
<1>8. CASE Install \/ FinishRecovered
  <2>1. \A f \in {"terminal", "stopped"} : producer'[f] <=> producer[f]
    BY <1>8 DEF Install, FinishRecovered, FlagsTyped, Flags
  <2> QED
    BY <1>1, <1>8, <2>1 DEF Install, FinishRecovered
<1>9. CASE GiveUp
  <2>1. loop = "givingUp" /\ ~producer["stopped"]
    BY <1>9 DEF GiveUp
  <2>2. (producer'["stopped"] <=> producer["stopped"]) /\ (producer["terminal"] => producer'["terminal"])
    BY <1>9 DEF GiveUp, FlagsTyped, Flags
  <2> QED
    BY <2>1, <2>2
<1>10. CASE PublisherObserves \/ SignalFailure
  BY <1>1, <1>10 DEF PublisherObserves, SignalFailure, PublisherUnchanged
<1>11. CASE StartShutdown
  <2>1. \A f \in {"terminal", "stopped"} : producer'[f] <=> producer[f]
    BY <1>11 DEF StartShutdown, FlagsTyped, Flags
  <2> QED
    BY <1>1, <1>11, <2>1 DEF StartShutdown, ShutdownUnchanged
<1>12. CASE AwaitEvents
  <2>1. producer'["stopped"] /\ (producer'["terminal"] <=> producer["terminal"])
    BY <1>12 DEF AwaitEvents, FlagsTyped, Flags
  <2> QED
    BY <1>12, <2>1 DEF AwaitEvents, ShutdownUnchanged
<1>13. CASE StopEvents \/ CloseStream
  BY <1>1, <1>13 DEF StopEvents, CloseStream, ShutdownUnchanged
<1>14. CASE UNCHANGED signals
  BY <1>1, <1>14 DEF signals
<1> QED
  BY <1>3, <1>4, <1>5, <1>6, <1>7, <1>8, <1>9, <1>10, <1>11, <1>12, <1>13, <1>14, Zenon
  DEF SignalsNext, LoopSteps, ShutdownSteps, allVars

\* Liveness() is final: a producer that failed stays failed through its Shutdown, and
\* one that stopped is not turned into a failed one by a recovery that ends late.
THEOREM LivenessDecided == SignalsSpec => LivenessFinal
<1>1. ASSUME Ended, Outage, FlagsTyped, [SignalsNext]_allVars
      PROVE  Ended' /\ [Liveness # "live" => Liveness' = Liveness]_allVars
  <2>1. CASE producer["terminal"]
    <3>1. Liveness = "failed" /\ producer'["terminal"]
      BY <1>1, <2>1, FinalFlags DEF Liveness
    <3>2. Liveness' = "failed"
      BY <3>1 DEF Liveness
    <3> QED
      BY <1>1, <3>1, <3>2, FinalFlags
  <2>2. CASE ~producer["terminal"] /\ producer["stopped"]
    <3>1. Liveness = "stopped" /\ ~producer'["terminal"] /\ producer'["stopped"]
      BY <1>1, <2>2, FinalFlags DEF Liveness
    <3>2. Liveness' = "stopped"
      BY <3>1 DEF Liveness
    <3> QED
      BY <1>1, <3>1, <3>2, FinalFlags
  <2>3. CASE ~producer["terminal"] /\ ~producer["stopped"]
    <3>1. Liveness = "live"
      BY <2>3 DEF Liveness
    <3> QED
      BY <1>1, <3>1, FinalFlags
  <2> QED
    BY <2>1, <2>2, <2>3
<1>2. SignalsInit => Ended /\ Outage
  BY OutageInit
<1> QED
  BY <1>1, <1>2, OutageNext, FlagsAlways, PTL DEF SignalsSpec, LivenessFinal
=============================================================================
