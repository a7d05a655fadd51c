-------------------------- MODULE DispatcherProofs --------------------------
(***************************************************************************)
(* Proofs about Dispatcher, for any listeners, fields, events, workers and *)
(* number of ticks: types, the table of listeners, silence after shutdown, *)
(* at most one delivery per tick where the skipped names cover what both   *)
(* paths could announce, the limits of store and histories, and a store    *)
(* that is not older than what wakes a subscriber of a price.              *)
(***************************************************************************)
EXTENDS Dispatcher, InductionLemmas, FiniteSetTheorems

-----------------------------------------------------------------------------
(* The operators the model is built from                                   *)

\* A loop that skips the entries in X keeps the others, each as often as before.
LEMMA WithoutFacts ==
    ASSUME NEW S, NEW q \in Seq(S), NEW X
    PROVE  /\ Without(q, X) \in Seq(S)
           /\ \A j \in DOMAIN Without(q, X) : Without(q, X)[j] \notin X
                                              /\ \E i \in DOMAIN q : Without(q, X)[j] = q[i]
           /\ \A i \in DOMAIN q : q[i] \notin X => \E j \in DOMAIN Without(q, X) : Without(q, X)[j] = q[i]
           /\ Injects(q) => Injects(Without(q, X))
<1> DEFINE One(e) == IF e \in X THEN <<>> ELSE <<e>>
           seqs == [i \in DOMAIN q |-> One(q[i])]
           w == Without(q, X)
<1>1. w = FlattenSeq(seqs)  BY DEF Without
<1>2. DOMAIN q = 1 .. Len(q) /\ Len(q) \in Nat /\ \A i \in DOMAIN q : q[i] \in S  OBVIOUS
<1>3. \A e \in S : One(e) \in Seq(S)  OBVIOUS
<1>4. \A e : /\ e \in X => DOMAIN One(e) = {}
             /\ e \notin X => DOMAIN One(e) = {1} /\ One(e)[1] = e
  OBVIOUS
<1> HIDE DEF One
<1>5. seqs \in Seq(Seq(S)) /\ DOMAIN seqs = DOMAIN q /\ \A i \in DOMAIN q : seqs[i] = One(q[i])
  <2>1. seqs \in [1 .. Len(q) -> Seq(S)]  BY <1>2, <1>3
  <2> QED  BY <1>2, <2>1
<1> HIDE DEF seqs, w
<1>6. w \in Seq(S) /\ SameEntries(w, seqs) /\ (EntriesDiffer(seqs) => Injects(w))
  BY <1>1, <1>5, FlattenFacts
<1>7. \A j \in DOMAIN w : w[j] \notin X /\ \E i \in DOMAIN q : w[j] = q[i]
  <2> TAKE j \in DOMAIN w
  <2>1. PICK i \in DOMAIN seqs : \E k \in DOMAIN seqs[i] : w[j] = seqs[i][k]  BY <1>6 DEF SameEntries
  <2>2. PICK k \in DOMAIN seqs[i] : w[j] = seqs[i][k]  BY <2>1
  <2>3. i \in DOMAIN q /\ seqs[i] = One(q[i]) /\ k \in DOMAIN One(q[i])  BY <1>5, <2>1, <2>2
  <2>4. q[i] \notin X /\ k = 1 /\ One(q[i])[1] = q[i]  BY <1>4, <2>3
  <2> QED  BY <2>2, <2>3, <2>4
<1>8. ASSUME NEW i \in DOMAIN q, q[i] \notin X PROVE \E j \in DOMAIN w : w[j] = q[i]
  <2>1. i \in DOMAIN seqs /\ 1 \in DOMAIN seqs[i] /\ seqs[i][1] = q[i]  BY <1>4, <1>5, <1>8
  <2> QED  BY <1>6, <2>1 DEF SameEntries
<1>9. ASSUME Injects(q) PROVE EntriesDiffer(seqs)
  <2>1. \A i \in DOMAIN seqs : \A k \in DOMAIN seqs[i] : k = 1 /\ seqs[i][k] = q[i]  BY <1>4, <1>5
  <2>2. \A i \in DOMAIN seqs : Injects(seqs[i])  BY <2>1 DEF Injects
  <2> QED  BY <1>5, <1>9, <2>1, <2>2 DEF EntriesDiffer, Injects
<1> QED  BY <1>6, <1>7, <1>8, <1>9 DEF w

\* The pool's queue is taken from the front and grows at the end.
LEMMA QueueFacts ==
    /\ \A q \in Seq(TaskType) : q # <<>> =>
          /\ Head(q) \in TaskType /\ Tail(q) \in Seq(TaskType)
          /\ 1 \in DOMAIN q /\ Head(q) = q[1]
          /\ \A i \in DOMAIN Tail(q) : i + 1 \in DOMAIN q /\ Tail(q)[i] = q[i + 1]
    /\ \A q, r \in Seq(TaskType) :
          /\ q \o r \in Seq(TaskType)
          /\ \A i \in DOMAIN (q \o r) : \/ i \in DOMAIN q /\ (q \o r)[i] = q[i]
                                        \/ i - Len(q) \in DOMAIN r /\ (q \o r)[i] = r[i - Len(q)]
    /\ \A q \in Seq(TaskType), t \in TaskType :
          /\ Append(q, t) \in Seq(TaskType)
          /\ \A i \in DOMAIN Append(q, t) : \/ i \in DOMAIN q /\ Append(q, t)[i] = q[i]
                                            \/ i = Len(q) + 1 /\ Append(q, t)[i] = t
    /\ \A q \in Seq(TaskType) : \A i \in DOMAIN q : q[i] \in TaskType /\ i \in 1 .. Len(q) /\ Len(q) \in Nat
<1> HIDE DEF TaskType
<1>1. ASSUME NEW q \in Seq(TaskType), q # <<>>
      PROVE  /\ Head(q) \in TaskType /\ Tail(q) \in Seq(TaskType)
             /\ 1 \in DOMAIN q /\ Head(q) = q[1]
             /\ \A i \in DOMAIN Tail(q) : i + 1 \in DOMAIN q /\ Tail(q)[i] = q[i + 1]
  BY <1>1
<1>2. ASSUME NEW q \in Seq(TaskType), NEW r \in Seq(TaskType)
      PROVE  /\ q \o r \in Seq(TaskType)
             /\ \A i \in DOMAIN (q \o r) : \/ i \in DOMAIN q /\ (q \o r)[i] = q[i]
                                           \/ i - Len(q) \in DOMAIN r /\ (q \o r)[i] = r[i - Len(q)]
  OBVIOUS
<1>3. ASSUME NEW q \in Seq(TaskType), NEW t \in TaskType
      PROVE  /\ Append(q, t) \in Seq(TaskType)
             /\ \A i \in DOMAIN Append(q, t) : \/ i \in DOMAIN q /\ Append(q, t)[i] = q[i]
                                               \/ i = Len(q) + 1 /\ Append(q, t)[i] = t
  OBVIOUS
<1>4. \A q \in Seq(TaskType) : \A i \in DOMAIN q : q[i] \in TaskType /\ i \in 1 .. Len(q) /\ Len(q) \in Nat
  OBVIOUS
<1> QED  BY <1>1, <1>2, <1>3, <1>4

-----------------------------------------------------------------------------
(* Types                                                                   *)

Stages == {"new", "live", "stopping", "unregistered", "stopped"}
Values == [n : 1 .. MaxTicks, field : Fields]

\* The feed thread's own state: the tick it carries, the pairs it collected.
FeedTypes ==
    /\ todo \in Seq(Fields \X Listeners)
    /\ pc # "idle" => tick.sym \in Symbols /\ tick.n = ticks /\ ticks \in 1 .. MaxTicks
    /\ pc = "fanout" => todo # <<>>

TypeInv == TypeOK /\ FeedTypes

\* A listener that is registered, and the calls posted to the registered ones.
LEMMA CallsFacts ==
    ASSUME NEW ls \in Seq(Listeners), NEW v \in Values
    PROVE  /\ Calls(ls, v) \in Seq(TaskType)
           /\ DOMAIN Calls(ls, v) = DOMAIN ls
           /\ \A i \in DOMAIN ls : Calls(ls, v)[i] = Task("listener", ls[i], v)
<1>1. DOMAIN ls = 1 .. Len(ls) /\ Len(ls) \in Nat /\ \A i \in DOMAIN ls : ls[i] \in Listeners  OBVIOUS
<1>2. \A l \in Listeners : Task("listener", l, v) \in TaskType  BY DEF Task, TaskType, Values
<1> HIDE DEF TaskType, Task, Values
<1>3. Calls(ls, v) \in [1 .. Len(ls) -> TaskType]  BY <1>1, <1>2 DEF Calls
<1> QED  BY <1>1, <1>3 DEF Calls

\* The vector of a field that is not in the table's range is never looked up.
LEMMA TableFacts ==
    ASSUME TypeOK, NEW s \in Symbols, NEW f \in Fields
    PROVE  table[s][f] \in Seq(Listeners)
BY DEF TypeOK

\* Fields are the entries of FieldSeq.
LEMMA FieldFacts ==
    /\ \A i \in DOMAIN FieldSeq : FieldSeq[i] \in Fields
    /\ \A l \in Listeners : FieldOf[l] \in Fields /\ SymOf[l] \in Symbols
BY DispatcherAssumption DEF Fields

\* The calls a fan-out posts for the builtins.
BuiltinCalls ==
    FlattenSeq([i \in DOMAIN FieldSeq |->
                    IF FieldSeq[i] \in Evaluated
                    THEN Calls(table[tick.sym][FieldSeq[i]], Value(tick.n, FieldSeq[i]))
                    ELSE <<>>])

\* Each goes to a listener registered for a builtin that evaluates.
LEMMA BuiltinCallsFacts ==
    ASSUME TypeInv, pc # "idle"
    PROVE  /\ BuiltinCalls \in Seq(TaskType)
           /\ \A j \in DOMAIN BuiltinCalls :
                 \E f \in Fields : \E k \in DOMAIN table[tick.sym][f] :
                    /\ f \in Evaluated
                    /\ BuiltinCalls[j] = Task("listener", table[tick.sym][f][k], Value(tick.n, f))
<1> DEFINE Part(f) == IF f \in Evaluated THEN Calls(table[tick.sym][f], Value(tick.n, f)) ELSE <<>>
           seqs == [i \in DOMAIN FieldSeq |-> Part(FieldSeq[i])]
           w == BuiltinCalls
<1>1. w = FlattenSeq(seqs)  BY DEF BuiltinCalls
<1>2. TypeOK /\ tick.sym \in Symbols /\ tick.n \in 1 .. MaxTicks  BY DEF TypeInv, FeedTypes
<1>3. ASSUME NEW f \in Fields
      PROVE  /\ Part(f) \in Seq(TaskType)
             /\ \A k \in DOMAIN Part(f) :
                   /\ f \in Evaluated /\ k \in DOMAIN table[tick.sym][f]
                   /\ Part(f)[k] = Task("listener", table[tick.sym][f][k], Value(tick.n, f))
  <2>1. CASE f \in Evaluated
    <3>1. Value(tick.n, f) \in Values  BY <1>2 DEF Value, Values
    <3>2. table[tick.sym][f] \in Seq(Listeners)  BY <1>2, TableFacts
    <3> QED  BY <2>1, <3>1, <3>2, CallsFacts
  <2>2. CASE f \notin Evaluated
    <3>1. Part(f) = <<>> /\ <<>> \in Seq(TaskType) /\ DOMAIN <<>> = {}  BY <2>2
    <3> QED  BY <3>1
  <2> QED  BY <2>1, <2>2
<1> HIDE DEF Part
<1>4. seqs \in Seq(Seq(TaskType)) /\ DOMAIN seqs = DOMAIN FieldSeq
      /\ \A i \in DOMAIN FieldSeq : seqs[i] = Part(FieldSeq[i])
  <2>1. DOMAIN FieldSeq = 1 .. Len(FieldSeq) /\ Len(FieldSeq) \in Nat
    <3>1. FieldSeq \in Seq(Fields)  BY DispatcherAssumption DEF Fields
    <3> QED  BY <3>1
  <2>2. seqs \in [1 .. Len(FieldSeq) -> Seq(TaskType)]  BY <1>3, <2>1, FieldFacts
  <2> HIDE DEF TaskType
  <2> QED  BY <2>1, <2>2
<1> HIDE DEF seqs, w
<1>5. w \in Seq(TaskType) /\ SameEntries(w, seqs)  BY <1>1, <1>4, FlattenFacts
<1>6. ASSUME NEW j \in DOMAIN w
      PROVE  \E f \in Fields : \E k \in DOMAIN table[tick.sym][f] :
                    /\ f \in Evaluated
                    /\ w[j] = Task("listener", table[tick.sym][f][k], Value(tick.n, f))
  <2>1. PICK i \in DOMAIN seqs : \E k \in DOMAIN seqs[i] : w[j] = seqs[i][k]  BY <1>5 DEF SameEntries
  <2>2. PICK k \in DOMAIN seqs[i] : w[j] = seqs[i][k]  BY <2>1
  <2>3. FieldSeq[i] \in Fields /\ seqs[i] = Part(FieldSeq[i])  BY <1>4, <2>1, FieldFacts
  <2> QED  BY <1>3, <2>2, <2>3
<1> QED  BY <1>5, <1>6 DEF w

\* A field of the payload and a listener registered for it.
PairOf(x, payload) ==
    \E f \in Fields : \E k \in DOMAIN table[tick.sym][f] :
        f \in payload /\ x = <<f, table[tick.sym][f][k]>>

\* The pairs collected for the payload.
LEMMA PairsFacts ==
    ASSUME TypeInv, pc # "idle", NEW payload
    PROVE  /\ PairsFor(payload) \in Seq(Fields \X Listeners)
           /\ \A j \in DOMAIN PairsFor(payload) : PairOf(PairsFor(payload)[j], payload)
           /\ (\A f \in Fields : Injects(table[tick.sym][f])) => Injects(PairsFor(payload))
<1> DEFINE Pairs(f) == [j \in DOMAIN table[tick.sym][f] |-> <<f, table[tick.sym][f][j]>>]
           Part(f) == IF f \in payload THEN Pairs(f) ELSE <<>>
           seqs == [i \in DOMAIN FieldSeq |-> Part(FieldSeq[i])]
           w == PairsFor(payload)
           S == Fields \X Listeners
<1>1. w = FlattenSeq(seqs)  BY DEF PairsFor
<1>2. TypeOK /\ tick.sym \in Symbols  BY DEF TypeInv, FeedTypes
<1>3. ASSUME NEW f \in Fields
      PROVE  /\ Part(f) \in Seq(S)
             /\ \A k \in DOMAIN Part(f) :
                   /\ f \in payload /\ k \in DOMAIN table[tick.sym][f]
                   /\ Part(f)[k] = <<f, table[tick.sym][f][k]>>
  <2> DEFINE ls == table[tick.sym][f]
  <2>1. CASE f \in payload
    <3>1. ls \in Seq(Listeners)  BY <1>2, TableFacts
    <3>2. DOMAIN ls = 1 .. Len(ls) /\ Len(ls) \in Nat /\ \A k \in DOMAIN ls : ls[k] \in Listeners  BY <3>1
    <3>3. Part(f) = [j \in DOMAIN ls |-> <<f, ls[j]>>]  BY <2>1
    <3> HIDE DEF ls
    <3>4. [j \in DOMAIN ls |-> <<f, ls[j]>>] \in [1 .. Len(ls) -> S]  BY <3>2
    <3>5. [j \in DOMAIN ls |-> <<f, ls[j]>>] \in Seq(S)
      <4> HIDE DEF S
      <4> QED  BY <3>2, <3>4
    <3>6. \A k \in DOMAIN ls : [j \in DOMAIN ls |-> <<f, ls[j]>>][k] = <<f, ls[k]>>  OBVIOUS
    <3>7. DOMAIN [j \in DOMAIN ls |-> <<f, ls[j]>>] = DOMAIN ls  OBVIOUS
    <3> HIDE DEF Part
    <3> QED  BY <2>1, <3>3, <3>5, <3>6, <3>7 DEF ls
  <2>2. CASE f \notin payload
    <3>1. Part(f) = <<>> /\ <<>> \in Seq(S) /\ DOMAIN <<>> = {}  BY <2>2
    <3> QED  BY <3>1
  <2> QED  BY <2>1, <2>2
<1> HIDE DEF Part, S
<1>4. seqs \in Seq(Seq(S)) /\ DOMAIN seqs = DOMAIN FieldSeq
      /\ \A i \in DOMAIN FieldSeq : seqs[i] = Part(FieldSeq[i])
  <2>1. DOMAIN FieldSeq = 1 .. Len(FieldSeq) /\ Len(FieldSeq) \in Nat
    <3>1. FieldSeq \in Seq(Fields)  BY DispatcherAssumption DEF Fields
    <3> QED  BY <3>1
  <2>2. seqs \in [1 .. Len(FieldSeq) -> Seq(S)]  BY <1>3, <2>1, FieldFacts
  <2> QED  BY <2>1, <2>2
<1> HIDE DEF seqs, w
<1>5. w \in Seq(S) /\ SameEntries(w, seqs) /\ (EntriesDiffer(seqs) => Injects(w))
  BY <1>1, <1>4, FlattenFacts
<1>6. ASSUME NEW j \in DOMAIN w
      PROVE  PairOf(w[j], payload)
  <2>1. PICK i \in DOMAIN seqs : \E k \in DOMAIN seqs[i] : w[j] = seqs[i][k]  BY <1>5 DEF SameEntries
  <2>2. PICK k \in DOMAIN seqs[i] : w[j] = seqs[i][k]  BY <2>1
  <2>3. FieldSeq[i] \in Fields /\ seqs[i] = Part(FieldSeq[i])  BY <1>4, <2>1, FieldFacts
  <2> QED  BY <1>3, <2>2, <2>3 DEF PairOf
<1>7. ASSUME \A f \in Fields : Injects(table[tick.sym][f]) PROVE EntriesDiffer(seqs)
  <2>1. ASSUME NEW i \in DOMAIN seqs
        PROVE  /\ FieldSeq[i] \in Fields
               /\ \A k \in DOMAIN seqs[i] : /\ k \in DOMAIN table[tick.sym][FieldSeq[i]]
                                            /\ seqs[i][k] = <<FieldSeq[i], table[tick.sym][FieldSeq[i]][k]>>
    BY <1>3, <1>4, FieldFacts
  <2>2. ASSUME NEW i \in DOMAIN seqs PROVE Injects(seqs[i])
    <3> SUFFICES ASSUME NEW a \in DOMAIN seqs[i], NEW b \in DOMAIN seqs[i], seqs[i][a] = seqs[i][b]
                 PROVE  a = b
      BY DEF Injects
    <3>1. table[tick.sym][FieldSeq[i]][a] = table[tick.sym][FieldSeq[i]][b]  BY <2>1
    <3> QED  BY <1>7, <2>1, <3>1 DEF Injects
  <2>3. ASSUME NEW i1 \in DOMAIN seqs, NEW i2 \in DOMAIN seqs, NEW k1 \in DOMAIN seqs[i1],
               NEW k2 \in DOMAIN seqs[i2], seqs[i1][k1] = seqs[i2][k2]
        PROVE  i1 = i2
    <3>1. FieldSeq[i1] = FieldSeq[i2]  BY <2>1, <2>3
    <3> QED  BY <1>4, <3>1, DispatcherAssumption
  <2> QED  BY <2>2, <2>3 DEF EntriesDiffer
<1> QED  BY <1>5, <1>6, <1>7 DEF w, S

\* The vector a set of listeners starts as lists each of them once.
LEMMA SetToSeqFacts ==
    ASSUME NEW S, IsFiniteSet(S)
    PROVE  /\ SetToSeq(S) \in Seq(S) /\ Injects(SetToSeq(S))
           /\ \A x \in S : \E i \in DOMAIN SetToSeq(S) : SetToSeq(S)[i] = x
<1> DEFINE n == Cardinality(S)
           q == SetToSeq(S)
<1>1. n \in Nat /\ ExistsBijection(1 .. n, S)  BY FS_CardinalityType
<1>2. \E f \in [1 .. n -> S] : IsInjective(f)
  BY <1>1 DEF ExistsBijection, Bijection, Injection
<1>3. q \in [1 .. n -> S] /\ IsInjective(q)
  <2>1. q = CHOOSE f \in [1 .. n -> S] : IsInjective(f)  BY DEF SetToSeq
  <2> HIDE DEF q, n
  <2> QED  BY <1>2, <2>1
<1>4. q \in Injection(1 .. n, S)  BY <1>3 DEF Injection
<1>5. IsFiniteSet(1 .. n) /\ Cardinality(1 .. n) = n  BY <1>1, FS_Interval
<1>6. q \in Surjection(1 .. n, S)
  <2> DEFINE D == 1 .. n
  <2>1. q \in Injection(D, S) /\ Cardinality(D) = Cardinality(S)  BY <1>4, <1>5
  <2> HIDE DEF q, D, n
  <2>2. q \in Surjection(D, S)  BY <2>1, FS_Injection
  <2> QED  BY <2>2 DEF D
<1> HIDE DEF q, n
<1>7. q \in Seq(S) /\ DOMAIN q = 1 .. n  BY <1>1, <1>3
<1>8. Injects(q)  BY <1>3 DEF Injects, IsInjective
<1>9. \A x \in S : \E i \in DOMAIN q : q[i] = x  BY <1>6, <1>7 DEF Surjection
<1> QED  BY <1>7, <1>8, <1>9 DEF q

\* Nothing is queued and only the steady listeners are registered.
LEMMA InitTypes == Init => TypeInv
<1> SUFFICES ASSUME Init PROVE TypeInv  OBVIOUS
<1>1. table \in [Symbols -> [Fields -> Seq(Listeners)]]
  <2> DEFINE Bound(s, f) == {l \in Steady : SymOf[l] = s /\ FieldOf[l] = f}
  <2>1. ASSUME NEW s \in Symbols, NEW f \in Fields PROVE SetToSeq(Bound(s, f)) \in Seq(Listeners)
    <3>1. Bound(s, f) \in SUBSET Listeners /\ IsFiniteSet(Listeners)  BY DispatcherAssumption
    <3> HIDE DEF Bound
    <3>2. IsFiniteSet(Bound(s, f))  BY <3>1, FS_Subset
    <3>3. SetToSeq(Bound(s, f)) \in Seq(Bound(s, f))  BY <3>2, SetToSeqFacts
    <3> QED  BY <3>1, <3>3
  <2>2. table = [s \in Symbols |-> [f \in Fields |-> SetToSeq(Bound(s, f))]]  BY DEF Init
  <2> HIDE DEF Bound
  <2> QED  BY <2>1, <2>2
<1>2. slot \in [Workers -> TaskType \cup {NoTask}]  BY DEF Init
<1>3. lstate \in [Listeners -> {"new", "live", "stopping", "unregistered", "stopped"}]
  BY DEF Init
<1>4. queue \in Seq(TaskType)
  <2> HIDE DEF TaskType
  <2> QED  BY DEF Init
<1>5. received \in [Listeners -> Seq([n : 1 .. MaxTicks, field : Fields])]
  <2>1. <<>> \in Seq([n : 1 .. MaxTicks, field : Fields])  OBVIOUS
  <2> QED  BY <2>1 DEF Init
<1>6. pc = "idle" /\ ticks \in 0 .. MaxTicks  BY DispatcherAssumption DEF Init
<1>7. todo \in Seq(Fields \X Listeners)
  <2>1. <<>> \in Seq(Fields \X Listeners)  OBVIOUS
  <2> QED  BY <2>1 DEF Init
<1> QED  BY <1>1, <1>2, <1>3, <1>4, <1>5, <1>6, <1>7 DEF TypeInv, TypeOK, FeedTypes

\* What the feed's steps leave of the listeners, and the life steps of the feed.
LEMMA TypesSame ==
    ASSUME TypeInv, UNCHANGED <<pc, tick, todo, ticks>>,
           table' \in [Symbols -> [Fields -> Seq(Listeners)]],
           queue' \in Seq(TaskType),
           slot' \in [Workers -> TaskType \cup {NoTask}],
           lstate' \in [Listeners -> Stages],
           received' \in [Listeners -> Seq(Values)]
    PROVE  TypeInv'
<1> HIDE DEF TaskType
<1>1. TypeOK'  BY DEF TypeInv, TypeOK, Stages, Values
<1>2. FeedTypes'  BY DEF TypeInv, FeedTypes
<1> QED  BY <1>1, <1>2 DEF TypeInv

\* The parts of TypeInv by name.
LEMMA TypeParts ==
    ASSUME TypeInv
    PROVE  /\ table \in [Symbols -> [Fields -> Seq(Listeners)]]
           /\ queue \in Seq(TaskType)
           /\ slot \in [Workers -> TaskType \cup {NoTask}]
           /\ lstate \in [Listeners -> Stages]
           /\ received \in [Listeners -> Seq(Values)]
           /\ ticks \in 0 .. MaxTicks
           /\ todo \in Seq(Fields \X Listeners)
BY DEF TypeInv, TypeOK, FeedTypes, Stages, Values

\* Every step keeps the types.
LEMMA TypeStep ==
    ASSUME TypeInv, [Next]_vars
    PROVE  TypeInv'
<1> USE TypeParts, DispatcherAssumption
<1>1. ASSUME NEW e \in Events, BeginTick(e) PROVE TypeInv'
  <2>1. ticks \in 0 .. MaxTicks /\ ticks < MaxTicks /\ ticks' = ticks + 1  BY <1>1 DEF BeginTick
  <2>2. e.sym \in Symbols /\ MaxTicks \in Nat  OBVIOUS
  <2>3. ticks' \in 1 .. MaxTicks /\ ticks' \in 0 .. MaxTicks  BY <2>1, <2>2
  <2>4. tick'.sym = e.sym /\ tick'.n = ticks' /\ pc' = "compute"  BY <1>1 DEF BeginTick
  <2>5. UNCHANGED <<table, queue, slot, lstate, received, todo>>  BY <1>1 DEF BeginTick
  <2>6. TypeOK'
    <3> HIDE DEF TaskType
    <3> QED  BY <2>3, <2>4, <2>5 DEF TypeInv, TypeOK
  <2>7. FeedTypes'  BY <2>2, <2>3, <2>4, <2>5 DEF TypeInv, FeedTypes
  <2> QED  BY <2>6, <2>7 DEF TypeInv
<1>2. ASSUME UNCHANGED <<table, slot, lstate, received, tick, ticks>>, pc # "idle",
             queue' \in Seq(TaskType), todo' \in Seq(Fields \X Listeners),
             pc' \in {"idle", "compute", "notify", "pairs", "fanout"},
             pc' = "fanout" => todo' # <<>>
      PROVE  TypeInv'
  <2>1. TypeOK'
    <3> HIDE DEF TaskType
    <3> QED  BY <1>2 DEF TypeInv, TypeOK
  <2>2. FeedTypes'  BY <1>2 DEF TypeInv, FeedTypes
  <2> QED  BY <2>1, <2>2 DEF TypeInv
<1>3. CASE RunComputers
  <2>1. UNCHANGED <<table, slot, lstate, received, tick, ticks, queue, todo>> /\ pc = "compute" /\ pc' = "notify"
    BY <1>3 DEF RunComputers
  <2> HIDE DEF TaskType
  <2> QED  BY <1>2, <2>1
<1>4. CASE NotifyListeners
  <2> DEFINE k == Head(notifyKeys)
             targets == IF k \in Fields THEN table[tick.sym][k] ELSE <<>>
             new == Calls(targets, Value(tick.n, k))
  <2>1. UNCHANGED <<table, slot, lstate, received, tick, ticks, pc, todo>> /\ pc = "notify" /\ queue' = queue \o new
    BY <1>4 DEF NotifyListeners
  <2>2. tick.sym \in Symbols /\ tick.n \in 1 .. MaxTicks /\ TypeOK  BY <2>1 DEF TypeInv, FeedTypes
  <2>3. new \in Seq(TaskType)
    <3>1. CASE k \in Fields
      <4>1. targets \in Seq(Listeners)  BY <2>2, <3>1, TableFacts
      <4>2. Value(tick.n, k) \in Values  BY <2>2, <3>1 DEF Value, Values
      <4> HIDE DEF targets, k
      <4> QED  BY <4>1, <4>2, CallsFacts
    <3>2. CASE k \notin Fields
      <4>1. targets = <<>>  BY <3>2
      <4>2. new = [i \in 1 .. 0 |-> Task("listener", targets[i], Value(tick.n, k))]  BY <4>1 DEF Calls
      <4> HIDE DEF targets, k, new, TaskType
      <4>3. new \in [1 .. 0 -> TaskType]  BY <4>2
      <4> QED  BY <4>3
    <3> QED  BY <3>1, <3>2
  <2> HIDE DEF TaskType, new
  <2>4. queue' \in Seq(TaskType)  BY <2>1, <2>3, QueueFacts
  <2>5. todo' \in Seq(Fields \X Listeners)  BY <2>1
  <2> QED  BY <1>2, <2>1, <2>4, <2>5
<1>5. CASE Collect
  <2>1. UNCHANGED <<table, slot, lstate, received, tick, ticks, queue>> /\ pc = "notify" /\ pc' = "pairs"
        /\ todo' = PairsFor(tick.num \cup tick.other)
    BY <1>5 DEF Collect
  <2>2. todo' \in Seq(Fields \X Listeners)  BY <2>1, PairsFacts
  <2> HIDE DEF TaskType
  <2> QED  BY <1>2, <2>1, <2>2
<1>6. ASSUME todo # <<>> PROVE Tail(todo) \in Seq(Fields \X Listeners) /\ Head(todo) \in Fields \X Listeners
  <2> DEFINE S == Fields \X Listeners
  <2>1. todo \in Seq(S)  OBVIOUS
  <2> HIDE DEF S
  <2>2. Tail(todo) \in Seq(S) /\ Head(todo) \in S  BY <1>6, <2>1
  <2> QED  BY <2>2 DEF S
<1>7. CASE SkipPair
  <2>1. UNCHANGED <<table, slot, lstate, received, tick, ticks, queue, pc>> /\ pc = "pairs"
        /\ todo # <<>> /\ todo' = Tail(todo)
    BY <1>7 DEF SkipPair
  <2> HIDE DEF TaskType
  <2> QED  BY <1>2, <1>6, <2>1
<1>8. CASE PushHistory
  <2>1. UNCHANGED <<table, slot, lstate, received, tick, ticks, queue, todo>> /\ pc = "pairs"
        /\ todo # <<>> /\ pc' = "fanout"
    BY <1>8 DEF PushHistory
  <2> HIDE DEF TaskType
  <2> QED  BY <1>2, <2>1
<1>9. CASE Fanout
  <2> DEFINE own == Task("listener", Head(todo)[2], Value(tick.n, Head(todo)[1]))
  <2>1. UNCHANGED <<table, slot, lstate, received, tick, ticks>> /\ pc = "fanout" /\ pc' = "pairs"
        /\ todo' = Tail(todo)
    BY <1>9 DEF Fanout
  <2>2. queue' = queue \o BuiltinCalls \o <<own>>  BY <1>9 DEF Fanout, BuiltinCalls
  <2>3. todo # <<>> /\ tick.n \in 1 .. MaxTicks  BY <2>1 DEF TypeInv, FeedTypes
  <2>4. own \in TaskType  BY <1>6, <2>3 DEF Task, TaskType, Value
  <2>5. BuiltinCalls \in Seq(TaskType)  BY <2>1, BuiltinCallsFacts
  <2> HIDE DEF TaskType, own
  <2>6. <<own>> \in Seq(TaskType)  BY <2>4
  <2>7. queue' \in Seq(TaskType)  BY <2>2, <2>5, <2>6, QueueFacts
  <2> QED  BY <1>2, <1>6, <2>1, <2>3, <2>7
<1>10. CASE EndTick
  <2>1. UNCHANGED <<table, slot, lstate, received, ticks, queue, todo>> /\ pc' = "idle"
    BY <1>10 DEF EndTick
  <2>2. TypeOK'
    <3> HIDE DEF TaskType
    <3> QED  BY <2>1 DEF TypeInv, TypeOK
  <2>3. FeedTypes'  BY <2>1 DEF TypeInv, FeedTypes
  <2> QED  BY <2>2, <2>3 DEF TypeInv
<1>11. ASSUME NEW l \in Listeners, LifeStep(l) PROVE TypeInv'
  <2> DEFINE s == SymOf[l]
             f == FieldOf[l]
  <2>1. UNCHANGED <<pc, tick, todo, ticks, queue, slot, received>>
    BY <1>11 DEF LifeStep, Create, ShutdownBegin, Unregister, ResetDownstream, feedVars
  <2>2. lstate' \in [Listeners -> Stages]
    BY <1>11 DEF LifeStep, Create, ShutdownBegin, Unregister, ResetDownstream, Stages
  <2>3. s \in Symbols /\ f \in Fields  BY FieldFacts
  <2>4. table[s][f] \in Seq(Listeners)  BY <2>3, TableFacts DEF TypeInv
  <2>5. Append(table[s][f], l) \in Seq(Listeners)  BY <2>4
  <2>6. Without(table[s][f], {l}) \in Seq(Listeners)  BY <2>4, WithoutFacts
  <2> DEFINE With(q) == [table EXCEPT ![s][f] = q]
             more == Append(table[s][f], l)
             less == Without(table[s][f], {l})
  <2>7. table' = table \/ table' = With(more) \/ table' = With(less)
    BY <1>11 DEF LifeStep, Create, ShutdownBegin, Unregister, ResetDownstream, RegisterListener, UnregisterListener
  <2>8. ASSUME NEW q \in Seq(Listeners)
        PROVE  With(q) \in [Symbols -> [Fields -> Seq(Listeners)]]
    <3> HIDE DEF s, f
    <3> QED  BY <2>3
  <2> HIDE DEF TaskType, s, f, With, more, less
  <2>9. table' \in [Symbols -> [Fields -> Seq(Listeners)]]
    <3>1. more \in Seq(Listeners) /\ less \in Seq(Listeners)  BY <2>5, <2>6 DEF more, less
    <3>2. With(more) \in [Symbols -> [Fields -> Seq(Listeners)]]  BY <2>8, <3>1
    <3>3. With(less) \in [Symbols -> [Fields -> Seq(Listeners)]]  BY <2>8, <3>1
    <3> QED  BY <2>7, <3>2, <3>3
  <2> QED  BY <2>1, <2>2, <2>9, TypesSame
<1>12. ASSUME NEW w \in Workers, WorkerStep(w) PROVE TypeInv'
  <2>1. UNCHANGED <<table, pc, tick, todo, ticks, lstate>>
    BY <1>12 DEF WorkerStep, Take, ListenerForward, Deliver, feedVars
  <2>2. CASE Take(w)
    <3> DEFINE t == Head(queue)
               fw == [t EXCEPT !.kind = "forward"]
    <3>1. queue # <<>> /\ queue' = Tail(queue) /\ received' = received
          /\ slot' = [slot EXCEPT ![w] = IF t.kind = "down" THEN t ELSE IF Stopping(t.l) THEN NoTask ELSE fw]
      BY <2>2 DEF Take
    <3>2. t \in TaskType /\ queue' \in Seq(TaskType)  BY <3>1, QueueFacts
    <3>3. fw \in TaskType  BY <3>2 DEF TaskType
    <3> HIDE DEF TaskType, t, fw
    <3>4. slot' \in [Workers -> TaskType \cup {NoTask}]  BY <3>1, <3>2, <3>3
    <3> QED  BY <2>1, <3>1, <3>2, <3>4, TypesSame
  <2>3. CASE ListenerForward(w)
    <3> DEFINE down == Task("down", slot[w].l, slot[w].v)
    <3>1. slot[w] # NoTask /\ slot' = [slot EXCEPT ![w] = NoTask] /\ received' = received
          /\ (queue' = queue \/ queue' = Append(queue, down))
      BY <2>3 DEF ListenerForward
    <3>2. slot[w] \in TaskType
      <4> HIDE DEF TaskType
      <4> QED  BY <3>1
    <3>3. down \in TaskType  BY <3>2 DEF TaskType, Task
    <3> HIDE DEF TaskType, down
    <3>4. queue' \in Seq(TaskType)
      <4>1. CASE queue' = queue  BY <4>1
      <4>2. CASE queue' = Append(queue, down)  BY <3>3, <4>2
      <4> QED  BY <3>1, <4>1, <4>2
    <3>5. slot' \in [Workers -> TaskType \cup {NoTask}]  BY <3>1
    <3> QED  BY <2>1, <3>1, <3>4, <3>5, TypesSame
  <2>4. CASE Deliver(w)
    <3>1. slot[w] # NoTask /\ slot' = [slot EXCEPT ![w] = NoTask] /\ queue' = queue
          /\ received' = [received EXCEPT ![slot[w].l] = Append(@, slot[w].v)]
      BY <2>4 DEF Deliver
    <3>2. slot[w] \in TaskType
      <4> HIDE DEF TaskType
      <4> QED  BY <3>1
    <3>3. slot[w].l \in Listeners /\ slot[w].v \in Values  BY <3>2 DEF TaskType, Values
    <3> HIDE DEF TaskType
    <3>4. received' \in [Listeners -> Seq(Values)]
      <4>1. Append(received[slot[w].l], slot[w].v) \in Seq(Values)
        <5> HIDE DEF Values
        <5> QED  BY <3>3
      <4> HIDE DEF Values
      <4> QED  BY <3>1, <3>3, <4>1
    <3>5. slot' \in [Workers -> TaskType \cup {NoTask}]  BY <3>1
    <3> QED  BY <2>1, <3>1, <3>4, <3>5, TypesSame
  <2> QED  BY <1>12, <2>2, <2>3, <2>4 DEF WorkerStep
<1>13. CASE UNCHANGED vars
  <2>1. UNCHANGED <<pc, tick, todo, ticks, table, queue, slot, lstate, received>>  BY <1>13 DEF vars
  <2> HIDE DEF TaskType
  <2> QED  BY <2>1, TypesSame
<1> QED
  BY <1>1, <1>3, <1>4, <1>5, <1>7, <1>8, <1>9, <1>10, <1>11, <1>12, <1>13 DEF Next, FeedStep

\* The table, the queue, the workers' tasks, the listeners' lives and what the
\* chains received keep their types in every reachable state of onTick, the
\* listeners' creation and shutdown and the pool.
THEOREM DispatcherTypeTheorem == Spec => []TypeOK
<1>1. Init => TypeInv  BY InitTypes
<1>2. TypeInv /\ [Next]_vars => TypeInv'  BY TypeStep
<1>3. TypeInv => TypeOK  BY DEF TypeInv
<1> QED  BY <1>1, <1>2, <1>3, PTL DEF Spec

-----------------------------------------------------------------------------
(* _listeners holds the live listeners, each once                          *)

\* The vector of (s, f) has no duplicate, and l is in it exactly when it is
\* bound to (s, f) and between its creation and unregisterListener().
Registered ==
    \A s \in Symbols, f \in Fields :
        /\ Injects(table[s][f])
        /\ \A l \in Listeners :
              (\E i \in DOMAIN table[s][f] : table[s][f][i] = l)
                <=> s = SymOf[l] /\ f = FieldOf[l] /\ lstate[l] \in {"live", "stopping"}

TableInv == TypeInv /\ Registered

\* At the start the vectors list the steady listeners.
LEMMA InitRegistered == Init => Registered
<1> SUFFICES ASSUME Init, NEW s \in Symbols, NEW f \in Fields
             PROVE  /\ Injects(table[s][f])
                    /\ \A l \in Listeners :
                          (\E i \in DOMAIN table[s][f] : table[s][f][i] = l)
                            <=> s = SymOf[l] /\ f = FieldOf[l] /\ lstate[l] \in {"live", "stopping"}
  BY DEF Registered
<1> DEFINE bound == {l \in Steady : SymOf[l] = s /\ FieldOf[l] = f}
           q == SetToSeq(bound)
<1>1. table[s][f] = q  BY DEF Init
<1>2. bound \in SUBSET Listeners /\ IsFiniteSet(Listeners)  BY DispatcherAssumption
<1>3. IsFiniteSet(bound)
  <2> HIDE DEF bound
  <2> QED  BY <1>2, FS_Subset
<1>4. q \in Seq(bound) /\ Injects(q) /\ \A x \in bound : \E i \in DOMAIN q : q[i] = x
  <2> HIDE DEF bound
  <2> QED  BY <1>3, SetToSeqFacts
<1>5. \A i \in DOMAIN q : q[i] \in bound
  <2> HIDE DEF bound, q
  <2> QED  BY <1>4
<1>6. \A l \in Listeners : lstate[l] \in {"live", "stopping"} <=> l \in Steady  BY DEF Init
<1> HIDE DEF q
<1> QED  BY <1>1, <1>4, <1>5, <1>6

\* Create() appends a listener that is in no vector, unregisterListener()
\* removes it from the only one it is in; no other step touches the table.
LEMMA RegisteredStep ==
    ASSUME TableInv, [Next]_vars
    PROVE  Registered'
<1> USE DEF TableInv
<1>0. TypeOK  BY DEF TypeInv
<1>1. ASSUME table' = table, \A l \in Listeners : lstate'[l] \in {"live", "stopping"}
                                                  <=> lstate[l] \in {"live", "stopping"}
      PROVE  Registered'
  BY <1>1 DEF Registered
<1>2. ASSUME NEW l \in Listeners, NEW q \in Seq(Listeners),
             table' = [table EXCEPT ![SymOf[l]][FieldOf[l]] = q],
             Injects(q),
             \A m \in Listeners \ {l} : (\E i \in DOMAIN q : q[i] = m)
                  <=> \E i \in DOMAIN table[SymOf[l]][FieldOf[l]] : table[SymOf[l]][FieldOf[l]][i] = m,
             (\E i \in DOMAIN q : q[i] = l) <=> lstate'[l] \in {"live", "stopping"},
             \A m \in Listeners \ {l} : lstate'[m] = lstate[m]
      PROVE  Registered'
  <2> SUFFICES ASSUME NEW s \in Symbols, NEW f \in Fields
               PROVE  /\ Injects(table'[s][f])
                      /\ \A m \in Listeners :
                          (\E i \in DOMAIN table'[s][f] : table'[s][f][i] = m)
                            <=> s = SymOf[m] /\ f = FieldOf[m] /\ lstate'[m] \in {"live", "stopping"}
    BY DEF Registered
  <2>1. SymOf[l] \in Symbols /\ FieldOf[l] \in Fields  BY FieldFacts
  <2>2. CASE s = SymOf[l] /\ f = FieldOf[l]
    <3>1. table'[s][f] = q  BY <1>0, <1>2, <2>1, <2>2 DEF TypeOK
    <3>2. \A m \in Listeners : (\E i \in DOMAIN table[s][f] : table[s][f][i] = m)
                    <=> s = SymOf[m] /\ f = FieldOf[m] /\ lstate[m] \in {"live", "stopping"}
      BY DEF Registered
    <3>3. ASSUME NEW m \in Listeners
          PROVE  (\E i \in DOMAIN q : q[i] = m)
                    <=> s = SymOf[m] /\ f = FieldOf[m] /\ lstate'[m] \in {"live", "stopping"}
      <4>1. CASE m = l  BY <1>2, <2>2, <4>1
      <4>2. CASE m # l
        <5>1. lstate'[m] = lstate[m] /\ m \in Listeners \ {l}  BY <1>2, <4>2
        <5>2. (\E i \in DOMAIN q : q[i] = m) <=> \E i \in DOMAIN table[s][f] : table[s][f][i] = m
          BY <1>2, <2>2, <5>1
        <5> QED  BY <3>2, <5>1, <5>2
      <4> QED  BY <4>1, <4>2
    <3> QED  BY <1>2, <3>1, <3>3
  <2>3. CASE ~(s = SymOf[l] /\ f = FieldOf[l])
    <3>1. table'[s][f] = table[s][f]  BY <1>0, <1>2, <2>1, <2>3 DEF TypeOK
    <3>2. Injects(table[s][f]) /\ \A m \in Listeners : (\E i \in DOMAIN table[s][f] : table[s][f][i] = m)
                    <=> s = SymOf[m] /\ f = FieldOf[m] /\ lstate[m] \in {"live", "stopping"}
      BY DEF Registered
    <3> QED  BY <1>2, <2>3, <3>1, <3>2
  <2> QED  BY <2>2, <2>3
<1>3. ASSUME NEW l \in Listeners, LifeStep(l) PROVE Registered'
  <2> DEFINE old == table[SymOf[l]][FieldOf[l]]
  <2>1. old \in Seq(Listeners)  BY <1>0, FieldFacts, TableFacts
  <2>2. Injects(old) /\ \A m \in Listeners : (\E i \in DOMAIN old : old[i] = m)
                    <=> SymOf[l] = SymOf[m] /\ FieldOf[l] = FieldOf[m] /\ lstate[m] \in {"live", "stopping"}
    BY FieldFacts DEF Registered
  <2>3. CASE Create(l)
    <3> DEFINE q == Append(old, l)
    <3>1. table' = [table EXCEPT ![SymOf[l]][FieldOf[l]] = q]  BY <2>3 DEF Create, RegisterListener
    <3>2. lstate[l] = "new" /\ lstate' = [lstate EXCEPT ![l] = "live"]  BY <2>3 DEF Create
    <3>3. lstate'[l] = "live" /\ \A m \in Listeners \ {l} : lstate'[m] = lstate[m]  BY <1>0, <3>2 DEF TypeOK
    <3>4. ~ \E i \in DOMAIN old : old[i] = l  BY <2>2, <3>2
    <3> HIDE DEF old
    <3>5. /\ q \in Seq(Listeners) /\ DOMAIN q = 1 .. Len(old) + 1 /\ DOMAIN old = 1 .. Len(old) /\ Len(old) \in Nat
          /\ q[Len(old) + 1] = l /\ \A i \in DOMAIN old : q[i] = old[i]
      BY <2>1
    <3> HIDE DEF q
    <3>6. Injects(q)
      <4> SUFFICES ASSUME NEW i \in DOMAIN q, NEW j \in DOMAIN q, q[i] = q[j] PROVE i = j  BY DEF Injects
      <4>1. (i \in DOMAIN old \/ i = Len(old) + 1) /\ (j \in DOMAIN old \/ j = Len(old) + 1)  BY <3>5
      <4> QED  BY <2>2, <3>4, <3>5, <4>1 DEF Injects
    <3>7. ASSUME NEW m \in Listeners \ {l}
          PROVE  (\E i \in DOMAIN q : q[i] = m) <=> \E i \in DOMAIN old : old[i] = m
      BY <3>5
    <3>8. \E i \in DOMAIN q : q[i] = l  BY <3>5
    <3> QED  BY <1>2, <3>1, <3>3, <3>5, <3>6, <3>7, <3>8 DEF old
  <2>4. CASE ShutdownBegin(l)
    <3>1. table' = table /\ lstate[l] = "live" /\ lstate' = [lstate EXCEPT ![l] = "stopping"]
      BY <2>4 DEF ShutdownBegin
    <3> QED  BY <1>0, <1>1, <3>1 DEF TypeOK
  <2>5. CASE Unregister(l)
    <3> DEFINE q == Without(old, {l})
    <3>1. table' = [table EXCEPT ![SymOf[l]][FieldOf[l]] = q]  BY <2>5 DEF Unregister, UnregisterListener
    <3>2. lstate' = [lstate EXCEPT ![l] = "unregistered"]  BY <2>5 DEF Unregister
    <3>3. lstate'[l] = "unregistered" /\ \A m \in Listeners \ {l} : lstate'[m] = lstate[m]
      BY <1>0, <3>2 DEF TypeOK
    <3> DEFINE X == {l}
    <3> HIDE DEF old, X
    <3>4. /\ q \in Seq(Listeners) /\ Injects(q)
          /\ \A j \in DOMAIN q : q[j] # l /\ \E i \in DOMAIN old : q[j] = old[i]
          /\ \A i \in DOMAIN old : old[i] # l => \E j \in DOMAIN q : q[j] = old[i]
      <4>1. q = Without(old, X)  BY DEF X
      <4> HIDE DEF q
      <4>2. /\ q \in Seq(Listeners) /\ Injects(q)
            /\ \A j \in DOMAIN q : q[j] \notin X /\ \E i \in DOMAIN old : q[j] = old[i]
            /\ \A i \in DOMAIN old : old[i] \notin X => \E j \in DOMAIN q : q[j] = old[i]
        BY <2>1, <2>2, <4>1, WithoutFacts
      <4>3. \A x : x \notin X <=> x # l  BY DEF X
      <4> QED  BY <4>2, <4>3
    <3> HIDE DEF q
    <3>5. ASSUME NEW m \in Listeners \ {l}
          PROVE  (\E i \in DOMAIN q : q[i] = m) <=> \E i \in DOMAIN old : old[i] = m
      BY <3>4
    <3>6. ~ \E i \in DOMAIN q : q[i] = l  BY <3>4
    <3> QED  BY <1>2, <3>1, <3>3, <3>4, <3>5, <3>6 DEF old
  <2>6. CASE ResetDownstream(l)
    <3>1. table' = table /\ lstate[l] = "unregistered" /\ lstate' = [lstate EXCEPT ![l] = "stopped"]
      BY <2>6 DEF ResetDownstream
    <3> QED  BY <1>0, <1>1, <3>1 DEF TypeOK
  <2> QED  BY <1>3, <2>3, <2>4, <2>5, <2>6 DEF LifeStep
<1>4. ASSUME UNCHANGED <<table, lstate>> PROVE Registered'  BY <1>1, <1>4
<1>5. CASE \E e \in Events : BeginTick(e)  BY <1>4, <1>5 DEF BeginTick
<1>6. CASE FeedStep
  BY <1>4, <1>6 DEF FeedStep, RunComputers, NotifyListeners, Collect, SkipPair, PushHistory, Fanout, EndTick
<1>7. CASE \E w \in Workers : WorkerStep(w)  BY <1>4, <1>7 DEF WorkerStep, Take, ListenerForward, Deliver
<1>8. CASE UNCHANGED vars  BY <1>4, <1>8 DEF vars
<1> QED  BY <1>3, <1>5, <1>6, <1>7, <1>8 DEF Next

\* Counting the entries: one when the vector lists l, none when it does not.
LEMMA RegisteredCounts == TableInv => TableExact
<1> SUFFICES ASSUME TableInv, NEW s \in Symbols, NEW f \in Fields, NEW l \in Listeners
             PROVE  Cardinality({i \in DOMAIN table[s][f] : table[s][f][i] = l})
                      = IF s = SymOf[l] /\ f = FieldOf[l] /\ lstate[l] \in {"live", "stopping"}
                        THEN 1 ELSE 0
  BY DEF TableExact
<1> DEFINE q == table[s][f]
           at == {i \in DOMAIN q : q[i] = l}
           in == s = SymOf[l] /\ f = FieldOf[l] /\ lstate[l] \in {"live", "stopping"}
<1>1. Injects(q) /\ ((\E i \in DOMAIN q : q[i] = l) <=> in)  BY DEF TableInv, Registered
<1>2. CASE in
  <2>1. PICK i \in DOMAIN q : q[i] = l  BY <1>1, <1>2
  <2>2. at = {i}  BY <1>1, <2>1 DEF Injects
  <2>3. Cardinality({i}) = 1  BY FS_Singleton
  <2> QED  BY <1>2, <2>2, <2>3
<1>3. CASE ~in
  <2>1. at = {}  BY <1>1, <1>3
  <2> QED  BY <1>3, <2>1, FS_EmptySet
<1> QED  BY <1>2, <1>3

\* TableInv is an invariant.
LEMMA TableInvTheorem == Spec => []TableInv
<1>1. Init => TableInv  BY InitTypes, InitRegistered DEF TableInv
<1>2. TableInv /\ [Next]_vars => TableInv'  BY TypeStep, RegisteredStep DEF TableInv
<1> QED  BY <1>1, <1>2, PTL DEF Spec

\* A listener sits in Dispatcher::_listeners once, under its own symbol and
\* field, from Create to unregisterListener and at no other time.
THEOREM TableExactTheorem == Spec => []TableExact
<1>1. TableInv => TableExact  BY RegisteredCounts
<1> QED  BY <1>1, TableInvTheorem, PTL

-----------------------------------------------------------------------------
(* A listener that is shut down stays silent                               *)

\* Past the stopping_ test: a forward or a downstream call of l.
Past(t, l) == t.l = l /\ t.kind \in {"forward", "down"}

\* A closure of l is in the queue or in a worker.
LEMMA PassedPlaces ==
    ASSUME NEW l
    PROVE  Passed(l) <=> \/ \E i \in DOMAIN queue : Past(queue[i], l)
                         \/ \E w \in Workers : slot[w] # NoTask /\ Past(slot[w], l)
BY DEF Passed, Tasks, Past

\* What a feed step posts: nothing, or calls of Listener::onValue.
LEMMA FeedPosts ==
    ASSUME TypeInv, FeedStep
    PROVE  /\ UNCHANGED <<slot, lstate, received, table>>
           /\ queue' \in Seq(TaskType)
           /\ \A i \in DOMAIN queue' : \/ i \in DOMAIN queue /\ queue'[i] = queue[i]
                                       \/ queue'[i].kind = "listener"
<1> USE TypeParts
<1>1. UNCHANGED <<slot, lstate, received, table>>
  BY DEF FeedStep, RunComputers, NotifyListeners, Collect, SkipPair, PushHistory, Fanout, EndTick
<1>2. queue' \in Seq(TaskType)
  <2>1. TypeInv'  BY TypeStep DEF Next
  <2> QED  BY <2>1, TypeParts DEF TypeInv, TypeOK
<1>3. ASSUME NEW r \in Seq(TaskType), \A i \in DOMAIN r : r[i].kind = "listener", queue' = queue \o r
      PROVE  \A i \in DOMAIN queue' : \/ i \in DOMAIN queue /\ queue'[i] = queue[i]
                                      \/ queue'[i].kind = "listener"
  <2> HIDE DEF TaskType
  <2> QED  BY <1>3, QueueFacts
<1>4. CASE NotifyListeners
  <2> DEFINE k == Head(notifyKeys)
             targets == IF k \in Fields THEN table[tick.sym][k] ELSE <<>>
             new == Calls(targets, Value(tick.n, k))
  <2>1. pc = "notify" /\ queue' = queue \o new  BY <1>4 DEF NotifyListeners
  <2>2. tick.sym \in Symbols /\ tick.n \in 1 .. MaxTicks /\ TypeOK  BY <2>1 DEF TypeInv, FeedTypes
  <2>3. new \in Seq(TaskType) /\ \A i \in DOMAIN new : new[i].kind = "listener"
    <3>1. CASE k \in Fields
      <4>1. targets \in Seq(Listeners)  BY <2>2, <3>1, TableFacts
      <4>2. Value(tick.n, k) \in Values  BY <2>2, <3>1 DEF Value, Values
      <4> HIDE DEF targets, k
      <4>3. new \in Seq(TaskType) /\ DOMAIN new = DOMAIN targets
            /\ \A i \in DOMAIN targets : new[i] = Task("listener", targets[i], Value(tick.n, k))
        BY <4>1, <4>2, CallsFacts
      <4> HIDE DEF new, TaskType
      <4> QED  BY <4>3 DEF Task
    <3>2. CASE k \notin Fields
      <4>1. targets = <<>>  BY <3>2
      <4>2. new = [i \in 1 .. 0 |-> Task("listener", targets[i], Value(tick.n, k))]  BY <4>1 DEF Calls
      <4> HIDE DEF targets, k, new, TaskType
      <4>3. new \in [1 .. 0 -> TaskType] /\ DOMAIN new = 1 .. 0  BY <4>2
      <4> QED  BY <4>3
    <3> QED  BY <3>1, <3>2
  <2> HIDE DEF TaskType, new
  <2> QED  BY <1>1, <1>2, <1>3, <2>1, <2>3
<1>5. CASE Fanout
  <2> DEFINE own == Task("listener", Head(todo)[2], Value(tick.n, Head(todo)[1]))
             r == BuiltinCalls \o <<own>>
  <2>1. pc = "fanout"  BY <1>5 DEF Fanout
  <2>2. queue' = queue \o BuiltinCalls \o <<own>>  BY <1>5 DEF Fanout, BuiltinCalls
  <2>3. todo # <<>> /\ tick.n \in 1 .. MaxTicks  BY <2>1 DEF TypeInv, FeedTypes
  <2>4. Head(todo) \in Fields \X Listeners
    <3> DEFINE S == Fields \X Listeners
    <3>1. todo \in Seq(S)  OBVIOUS
    <3> HIDE DEF S
    <3>2. Head(todo) \in S  BY <2>3, <3>1
    <3> QED  BY <3>2 DEF S
  <2>5. own \in TaskType /\ own.kind = "listener"  BY <2>3, <2>4 DEF Task, TaskType, Value
  <2>6. BuiltinCalls \in Seq(TaskType) /\ \A i \in DOMAIN BuiltinCalls : BuiltinCalls[i].kind = "listener"
    BY <2>1, BuiltinCallsFacts DEF Task
  <2> HIDE DEF TaskType, own
  <2>7. <<own>> \in Seq(TaskType) /\ DOMAIN <<own>> = {1} /\ <<own>>[1] = own  BY <2>5
  <2>8. r \in Seq(TaskType) /\ \A i \in DOMAIN r : r[i].kind = "listener"
    <3> DEFINE u == <<own>>
               b == BuiltinCalls
    <3>1. b \in Seq(TaskType) /\ u \in Seq(TaskType) /\ DOMAIN u = {1} /\ u[1].kind = "listener"
      BY <2>5, <2>6, <2>7
    <3>2. r = b \o u  OBVIOUS
    <3> HIDE DEF u, b, r
    <3>3. r \in Seq(TaskType) /\ \A i \in DOMAIN r : (i \in DOMAIN b /\ r[i] = b[i])
                                                   \/ (i - Len(b) \in DOMAIN u /\ r[i] = u[i - Len(b)])
      BY <3>1, <3>2, QueueFacts
    <3> QED  BY <2>6, <3>1, <3>3 DEF b
  <2>9. queue' = queue \o r
    <3>1. queue \in Seq(TaskType) /\ BuiltinCalls \in Seq(TaskType) /\ <<own>> \in Seq(TaskType)
      BY <2>6, <2>7
    <3>2. \A x, y, z \in Seq(TaskType) : (x \o y) \o z = x \o (y \o z)  BY SMTT(40)
    <3> HIDE DEF r
    <3>3. (queue \o BuiltinCalls) \o <<own>> = queue \o (BuiltinCalls \o <<own>>)  BY <3>1, <3>2
    <3> QED  BY <2>2, <3>3 DEF r
  <2> HIDE DEF r
  <2> QED  BY <1>1, <1>2, <1>3, <2>8, <2>9
<1>6. CASE RunComputers \/ Collect \/ SkipPair \/ PushHistory \/ EndTick
  <2>1. queue' = queue  BY <1>6 DEF RunComputers, Collect, SkipPair, PushHistory, EndTick
  <2> HIDE DEF TaskType
  <2> QED  BY <1>1, <1>2, <2>1
<1> QED  BY <1>4, <1>5, <1>6 DEF FeedStep

\* One step: a task past the test comes from one that was past it, or from a
\* listener that is not stopping.
LEMMA SilentStep ==
    ASSUME TypeInv, [Next]_vars, NEW l \in Listeners, Stopping(l), ~Passed(l)
    PROVE  ~Passed(l)' /\ received'[l] = received[l]
<1> USE TypeParts
<1> DEFINE InQueue(q) == \E i \in DOMAIN q : Past(q[i], l)
           InSlot(sl) == \E w \in Workers : sl[w] # NoTask /\ Past(sl[w], l)
<1>1. ~InQueue(queue) /\ ~InSlot(slot)  BY PassedPlaces
<1>2. Passed(l)' <=> InQueue(queue') \/ InSlot(slot')
  BY DEF Passed, Tasks, Past
<1>3. ASSUME UNCHANGED <<queue, slot, received>>
      PROVE  ~Passed(l)' /\ received'[l] = received[l]
  BY <1>1, <1>2, <1>3
<1>4. CASE \E e \in Events : BeginTick(e)  BY <1>3, <1>4 DEF BeginTick
<1>5. CASE FeedStep
  <2>1. UNCHANGED <<slot, received>> /\ \A i \in DOMAIN queue' : \/ i \in DOMAIN queue /\ queue'[i] = queue[i]
                                                                 \/ queue'[i].kind = "listener"
    BY <1>5, FeedPosts
  <2>2. ~InQueue(queue')  BY <1>1, <2>1 DEF Past
  <2> QED  BY <1>1, <1>2, <2>1, <2>2
<1>6. CASE \E m \in Listeners : LifeStep(m)
  BY <1>3, <1>6 DEF LifeStep, Create, ShutdownBegin, Unregister, ResetDownstream
<1>7. ASSUME NEW w \in Workers, Take(w) PROVE ~Passed(l)' /\ received'[l] = received[l]
  <2> DEFINE t == Head(queue)
             fw == [t EXCEPT !.kind = "forward"]
             new == IF t.kind = "down" THEN t ELSE IF Stopping(t.l) THEN NoTask ELSE fw
  <2>1. queue # <<>> /\ queue' = Tail(queue) /\ received' = received /\ slot' = [slot EXCEPT ![w] = new]
    BY <1>7 DEF Take
  <2>2. /\ t \in TaskType /\ 1 \in DOMAIN queue /\ t = queue[1]
        /\ \A i \in DOMAIN queue' : i + 1 \in DOMAIN queue /\ queue'[i] = queue[i + 1]
    BY <2>1, QueueFacts
  <2>3. ~InQueue(queue')  BY <1>1, <2>2
  <2>4. new # NoTask => ~Past(new, l)
    <3>1. CASE t.kind = "down"  BY <1>1, <2>2, <3>1
    <3>2. CASE t.kind # "down" /\ Stopping(t.l)  BY <3>2
    <3>3. CASE t.kind # "down" /\ ~Stopping(t.l)
      <4>1. new = fw /\ t.l # l  BY <3>3
      <4>2. fw.l = t.l  BY <2>2 DEF TaskType
      <4> QED  BY <4>1, <4>2 DEF Past
    <3> QED  BY <3>1, <3>2, <3>3
  <2> HIDE DEF new, TaskType
  <2>5. slot'[w] = new /\ \A x \in Workers \ {w} : slot'[x] = slot[x]  BY <2>1
  <2>6. ~InSlot(slot')
    <3> SUFFICES ASSUME NEW x \in Workers, slot'[x] # NoTask PROVE ~Past(slot'[x], l)  OBVIOUS
    <3>1. CASE x = w  BY <2>4, <2>5, <3>1
    <3>2. CASE x # w  BY <1>1, <2>5, <3>2
    <3> QED  BY <3>1, <3>2
  <2> QED  BY <1>2, <2>1, <2>3, <2>6
<1>8. ASSUME NEW w \in Workers, slot' = [slot EXCEPT ![w] = NoTask] PROVE ~InSlot(slot')
  <2> HIDE DEF TaskType
  <2> QED  BY <1>1, <1>8
<1>9. ASSUME NEW w \in Workers, ListenerForward(w) PROVE ~Passed(l)' /\ received'[l] = received[l]
  <2> DEFINE down == Task("down", slot[w].l, slot[w].v)
  <2>1. slot[w] # NoTask /\ slot[w].kind = "forward" /\ slot' = [slot EXCEPT ![w] = NoTask] /\ received' = received
        /\ (queue' = queue \/ queue' = Append(queue, down))
    BY <1>9 DEF ListenerForward
  <2>2. slot[w].l # l  BY <1>1, <2>1 DEF Past
  <2>3. slot[w] \in TaskType
    <3> HIDE DEF TaskType
    <3> QED  BY <2>1
  <2>4. down \in TaskType /\ down.l # l  BY <2>2, <2>3 DEF TaskType, Task
  <2> HIDE DEF TaskType, down
  <2>5. ~InQueue(queue')
    <3>1. CASE queue' = queue  BY <1>1, <3>1
    <3>2. CASE queue' = Append(queue, down)
      <4>1. \A i \in DOMAIN queue' : \/ i \in DOMAIN queue /\ queue'[i] = queue[i]
                                     \/ queue'[i] = down
        BY <2>4, <3>2, QueueFacts
      <4> QED  BY <1>1, <2>4, <4>1 DEF Past
    <3> QED  BY <2>1, <3>1, <3>2
  <2> QED  BY <1>2, <1>8, <2>1, <2>5
<1>10. ASSUME NEW w \in Workers, Deliver(w) PROVE ~Passed(l)' /\ received'[l] = received[l]
  <2>1. slot[w] # NoTask /\ slot[w].kind = "down" /\ slot' = [slot EXCEPT ![w] = NoTask] /\ queue' = queue
        /\ received' = [received EXCEPT ![slot[w].l] = Append(@, slot[w].v)]
    BY <1>10 DEF Deliver
  <2>2. slot[w].l # l  BY <1>1, <2>1 DEF Past
  <2>3. received'[l] = received[l]
    <3> HIDE DEF Values
    <3> QED  BY <2>1, <2>2
  <2> QED  BY <1>1, <1>2, <1>8, <2>1, <2>3
<1>11. CASE UNCHANGED vars  BY <1>3, <1>11 DEF vars
<1> QED  BY <1>4, <1>5, <1>6, <1>7, <1>9, <1>10, <1>11 DEF Next, WorkerStep

\* Once Listener::shutdown() has set stopping_ and the closures past the test
\* are gone, the chain never hears from this listener again: neither what
\* onTick holds in toNotify nor what is queued in the pool gets through.
THEOREM SilentTheorem == Spec => StoppedStaysSilent
<1> DEFINE Silent == \A l \in Listeners : Stopping(l) /\ ~Passed(l)
                        => ~Passed(l)' /\ received'[l] = received[l]
<1>1. Init => TypeInv  BY InitTypes
<1>2. TypeInv /\ [Next]_vars => TypeInv'  BY TypeStep
<1>3. TypeInv /\ [Next]_vars => [Silent]_vars  BY SilentStep
<1>4. StoppedStaysSilent <=> [][Silent]_vars  BY DEF StoppedStaysSilent
<1> HIDE DEF Silent
<1> QED  BY <1>1, <1>2, <1>3, <1>4, PTL DEF Spec

-----------------------------------------------------------------------------
(* A listener on a raw or an indicator field gets each tick at most once   *)

\* The listeners that no builtin is posted to.
Raw == {l \in Listeners : FieldOf[l] \notin Builtins}

\* A closure that carries tick n to l.
Carries(t, l, n) == t.l = l /\ t.v.n = n

InQueue(l, n) == \E i \in DOMAIN queue : Carries(queue[i], l, n)
Holds(w, l, n) == slot[w] # NoTask /\ Carries(slot[w], l, n)
InSlot(l, n) == \E w \in Workers : Holds(w, l, n)
Got(l, n) == \E i \in DOMAIN received[l] : received[l][i].n = n

\* Tick n is on its way to l, or there.
Used(l, n) == InQueue(l, n) \/ InSlot(l, n) \/ Got(l, n)

\* No listener of Raw has one tick in two places.
OnceEverywhere ==
    \A l \in Raw : \A n \in 1 .. MaxTicks :
        /\ \A i, j \in DOMAIN queue : Carries(queue[i], l, n) /\ Carries(queue[j], l, n) => i = j
        /\ \A w, x \in Workers : Holds(w, l, n) /\ Holds(x, l, n) => w = x
        /\ \A i, j \in DOMAIN received[l] : received[l][i].n = n /\ received[l][j].n = n => i = j
        /\ ~(InQueue(l, n) /\ InSlot(l, n))
        /\ ~(InQueue(l, n) /\ Got(l, n))
        /\ ~(InSlot(l, n) /\ Got(l, n))

Payload == tick.num \cup tick.other

\* The tick in hand has not reached the listeners it is still to be posted to:
\* those of a key to announce, of a payload member, of a pair to handle.
NotYet ==
    /\ \A l \in Raw : \A n \in 1 .. MaxTicks : Used(l, n) => n <= ticks
    /\ pc = "compute" => \A l \in Raw : ~Used(l, ticks)
    /\ pc = "notify" =>
          \A l \in Raw : Used(l, ticks) =>
              FieldOf[l] \notin Payload /\ \A i \in DOMAIN notifyKeys : notifyKeys[i] # FieldOf[l]
    /\ pc \in {"pairs", "fanout"} =>
          \A l \in Raw : Used(l, ticks) => \A i \in DOMAIN todo : todo[i][2] # l

\* What the indicator suite can compute.
KeySet == {Indicators[i].key : i \in DOMAIN Indicators}

\* What onTick holds: the payload of an event, distinct keys none of which is a
\* payload member, distinct pairs of a listener and its field.
InHand ==
    /\ pc # "idle" => \E e \in Events : tick.num = e.num /\ tick.other = e.other
    /\ pc = "notify" =>
          /\ notifyKeys \in Seq(KeySet)
          /\ Injects(notifyKeys)
          /\ \A i \in DOMAIN notifyKeys : notifyKeys[i] \notin Payload
    /\ Injects(todo)
    /\ \A i \in DOMAIN todo : todo[i][1] = FieldOf[todo[i][2]]

\* The raw path and the computer's never announce the same name: what the suite
\* computes and a payload may hold is among the names the computer skips.
SkipCovers ==
    /\ TaEnabled
    /\ \A e \in Events : \A i \in DOMAIN Indicators :
          Indicators[i].key \in e.num \cup e.other => Indicators[i].key \in SkipFields

OnceInv == TableInv /\ InHand /\ NotYet /\ OnceEverywhere

\* Calls posted for a tick that has not reached their listeners.
LEMMA OncePosted ==
    ASSUME TypeInv, OnceEverywhere, UNCHANGED <<slot, received>>,
           NEW r \in Seq(TaskType), queue' = queue \o r,
           \A l \in Raw : \A n \in 1 .. MaxTicks : \A i \in DOMAIN r : Carries(r[i], l, n) =>
              ~Used(l, n) /\ \A j \in DOMAIN r : Carries(r[j], l, n) => i = j
    PROVE  /\ OnceEverywhere'
           /\ \A l \in Raw : \A n \in 1 .. MaxTicks :
                 Used(l, n)' => Used(l, n) \/ \E i \in DOMAIN r : Carries(r[i], l, n)
<1> USE TypeParts
<1> HIDE DEF TaskType
<1>1. \A i \in DOMAIN queue' : \/ i \in DOMAIN queue /\ queue'[i] = queue[i]
                               \/ i - Len(queue) \in DOMAIN r /\ queue'[i] = r[i - Len(queue)]
  BY QueueFacts
<1>2. Len(queue) \in Nat /\ \A i \in DOMAIN queue' : i \in Nat
  <2>1. queue' \in Seq(TaskType)  BY QueueFacts
  <2> QED  BY <2>1
<1>3. ASSUME NEW l \in Raw, NEW n \in 1 .. MaxTicks, InQueue(l, n)'
      PROVE  InQueue(l, n) \/ \E i \in DOMAIN r : Carries(r[i], l, n)
  <2>1. PICK i \in DOMAIN queue' : Carries(queue'[i], l, n)  BY <1>3 DEF InQueue, Carries
  <2> QED  BY <1>1, <2>1 DEF InQueue
<1>4. ASSUME NEW l \in Raw, NEW n \in 1 .. MaxTicks
      PROVE  /\ InSlot(l, n)' <=> InSlot(l, n)
             /\ Got(l, n)' <=> Got(l, n)
             /\ \A w \in Workers : Holds(w, l, n)' <=> Holds(w, l, n)
  BY DEF InSlot, Got, Holds, Carries
<1>5. ASSUME NEW l \in Raw, NEW n \in 1 .. MaxTicks, NEW i \in DOMAIN queue', NEW j \in DOMAIN queue',
             Carries(queue'[i], l, n), Carries(queue'[j], l, n)
      PROVE  i = j
  <2>1. CASE i \in DOMAIN queue /\ queue'[i] = queue[i] /\ j \in DOMAIN queue /\ queue'[j] = queue[j]
    BY <1>5, <2>1 DEF OnceEverywhere
  <2>2. CASE i \in DOMAIN queue /\ queue'[i] = queue[i] /\ j - Len(queue) \in DOMAIN r /\ queue'[j] = r[j - Len(queue)]
    <3>1. Used(l, n)  BY <1>5, <2>2 DEF Used, InQueue
    <3> QED  BY <1>5, <2>2, <3>1
  <2>3. CASE j \in DOMAIN queue /\ queue'[j] = queue[j] /\ i - Len(queue) \in DOMAIN r /\ queue'[i] = r[i - Len(queue)]
    <3>1. Used(l, n)  BY <1>5, <2>3 DEF Used, InQueue
    <3> QED  BY <1>5, <2>3, <3>1
  <2>4. CASE /\ i - Len(queue) \in DOMAIN r /\ queue'[i] = r[i - Len(queue)]
             /\ j - Len(queue) \in DOMAIN r /\ queue'[j] = r[j - Len(queue)]
    <3>1. i - Len(queue) = j - Len(queue)  BY <1>5, <2>4
    <3> QED  BY <1>2, <3>1
  <2> QED  BY <1>1, <2>1, <2>2, <2>3, <2>4
<1>6. ASSUME NEW l \in Raw, NEW n \in 1 .. MaxTicks, InQueue(l, n)', InSlot(l, n) \/ Got(l, n)
      PROVE  FALSE
  <2>1. Used(l, n)  BY <1>6 DEF Used
  <2>2. InQueue(l, n)  BY <1>3, <1>6, <2>1
  <2> QED  BY <1>6, <2>2 DEF OnceEverywhere
<1>7. OnceEverywhere'
  <2> SUFFICES ASSUME NEW l \in Raw, NEW n \in 1 .. MaxTicks
               PROVE  /\ \A i, j \in DOMAIN queue' : Carries(queue'[i], l, n) /\ Carries(queue'[j], l, n) => i = j
                      /\ \A w, x \in Workers : Holds(w, l, n)' /\ Holds(x, l, n)' => w = x
                      /\ \A i, j \in DOMAIN received'[l] : received'[l][i].n = n /\ received'[l][j].n = n => i = j
                      /\ ~(InQueue(l, n)' /\ InSlot(l, n)')
                      /\ ~(InQueue(l, n)' /\ Got(l, n)')
                      /\ ~(InSlot(l, n)' /\ Got(l, n)')
    BY DEF OnceEverywhere, Raw, Carries
  <2>1. /\ \A w, x \in Workers : Holds(w, l, n) /\ Holds(x, l, n) => w = x
        /\ \A i, j \in DOMAIN received[l] : received[l][i].n = n /\ received[l][j].n = n => i = j
        /\ ~(InSlot(l, n) /\ Got(l, n))
    BY DEF OnceEverywhere
  <2>2. \A w, x \in Workers : Holds(w, l, n)' /\ Holds(x, l, n)' => w = x  BY <1>4, <2>1
  <2>3. ~(InQueue(l, n)' /\ InSlot(l, n)') /\ ~(InQueue(l, n)' /\ Got(l, n)') /\ ~(InSlot(l, n)' /\ Got(l, n)')
    BY <1>4, <1>6, <2>1
  <2> QED  BY <1>5, <2>1, <2>2, <2>3
<1>8. ASSUME NEW l \in Raw, NEW n \in 1 .. MaxTicks, Used(l, n)'
      PROVE  Used(l, n) \/ \E i \in DOMAIN r : Carries(r[i], l, n)
  BY <1>3, <1>4, <1>8 DEF Used
<1> QED  BY <1>7, <1>8

\* A worker moves a tick from one place to the next.
LEMMA OnceMoved ==
    ASSUME TypeInv, OnceEverywhere, NEW w \in Workers, WorkerStep(w)
    PROVE  /\ OnceEverywhere'
           /\ \A l \in Raw : \A n \in 1 .. MaxTicks : Used(l, n)' => Used(l, n)
<1> USE TypeParts
<1>0. SUFFICES ASSUME NEW l \in Raw, NEW n \in 1 .. MaxTicks
               PROVE  /\ \A i, j \in DOMAIN queue' : Carries(queue'[i], l, n) /\ Carries(queue'[j], l, n) => i = j
                      /\ \A v, x \in Workers : Holds(v, l, n)' /\ Holds(x, l, n)' => v = x
                      /\ \A i, j \in DOMAIN received'[l] : received'[l][i].n = n /\ received'[l][j].n = n => i = j
                      /\ ~(InQueue(l, n)' /\ InSlot(l, n)')
                      /\ ~(InQueue(l, n)' /\ Got(l, n)')
                      /\ ~(InSlot(l, n)' /\ Got(l, n)')
                      /\ Used(l, n)' => Used(l, n)
  BY DEF OnceEverywhere, Raw, Carries
<1>1. /\ \A i, j \in DOMAIN queue : Carries(queue[i], l, n) /\ Carries(queue[j], l, n) => i = j
      /\ \A v, x \in Workers : Holds(v, l, n) /\ Holds(x, l, n) => v = x
      /\ \A i, j \in DOMAIN received[l] : received[l][i].n = n /\ received[l][j].n = n => i = j
      /\ ~(InQueue(l, n) /\ InSlot(l, n))
      /\ ~(InQueue(l, n) /\ Got(l, n))
      /\ ~(InSlot(l, n) /\ Got(l, n))
  BY DEF OnceEverywhere
<1>a. InQueue(l, n)' <=> \E i \in DOMAIN queue' : Carries(queue'[i], l, n)  BY DEF InQueue, Carries
<1>b. InSlot(l, n)' <=> \E x \in Workers : Holds(x, l, n)'  BY DEF InSlot, Holds, Carries
<1>c. ASSUME NEW x \in Workers PROVE Holds(x, l, n)' <=> slot'[x] # NoTask /\ Carries(slot'[x], l, n)
  BY DEF Holds, Carries
<1>d. l \in Listeners  BY DEF Raw
<1>2. CASE Take(w)
  <2> DEFINE t == Head(queue)
             fw == [t EXCEPT !.kind = "forward"]
             new == IF t.kind = "down" THEN t ELSE IF Stopping(t.l) THEN NoTask ELSE fw
  <2>1. queue # <<>> /\ queue' = Tail(queue) /\ received' = received /\ slot' = [slot EXCEPT ![w] = new]
        /\ slot[w] = NoTask
    BY <1>2 DEF Take
  <2>2. /\ t \in TaskType /\ 1 \in DOMAIN queue /\ t = queue[1]
        /\ \A i \in DOMAIN queue' : i + 1 \in DOMAIN queue /\ queue'[i] = queue[i + 1] /\ i \in Nat \ {0}
    <3> HIDE DEF TaskType
    <3>1. queue' \in Seq(TaskType)  BY <2>1, QueueFacts
    <3> QED  BY <2>1, <3>1, QueueFacts
  <2>3. new # NoTask /\ Carries(new, l, n) => Carries(t, l, n)
    <3>1. fw.l = t.l /\ fw.v = t.v  BY <2>2 DEF TaskType
    <3> HIDE DEF fw
    <3> QED  BY <3>1 DEF Carries
  <2> HIDE DEF new, TaskType, t
  <2>4. slot'[w] = new /\ \A x \in Workers \ {w} : slot'[x] = slot[x]  BY <2>1
  <2>5. \A x \in Workers \ {w} : Holds(x, l, n)' <=> Holds(x, l, n)  BY <1>c, <2>4 DEF Holds
  <2>6. Holds(w, l, n)' => Carries(queue[1], l, n)  BY <1>c, <2>2, <2>3, <2>4
  <2>7. Carries(queue[1], l, n) => InQueue(l, n)  BY <2>2 DEF InQueue
  <2>8. InQueue(l, n)' => InQueue(l, n) /\ ~Carries(queue[1], l, n)
    <3> SUFFICES ASSUME InQueue(l, n)' PROVE InQueue(l, n) /\ ~Carries(queue[1], l, n)  OBVIOUS
    <3>1. PICK i \in DOMAIN queue' : Carries(queue'[i], l, n)  BY <1>a
    <3>2. i + 1 \in DOMAIN queue /\ Carries(queue[i + 1], l, n) /\ i + 1 # 1  BY <2>2, <3>1
    <3> QED  BY <1>1, <2>2, <3>2 DEF InQueue
  <2>9. InSlot(l, n)' => InSlot(l, n) \/ Carries(queue[1], l, n)
    BY <1>b, <2>5, <2>6 DEF InSlot
  <2>10. Got(l, n)' <=> Got(l, n)  BY <2>1 DEF Got
  <2>11. \A i, j \in DOMAIN queue' : Carries(queue'[i], l, n) /\ Carries(queue'[j], l, n) => i = j
    <3> SUFFICES ASSUME NEW i \in DOMAIN queue', NEW j \in DOMAIN queue',
                        Carries(queue'[i], l, n), Carries(queue'[j], l, n)
                 PROVE  i = j
      OBVIOUS
    <3>1. i + 1 = j + 1  BY <1>1, <2>2
    <3> QED  BY <2>2, <3>1
  <2>12. \A v, x \in Workers : Holds(v, l, n)' /\ Holds(x, l, n)' => v = x
    <3>1. \A x \in Workers \ {w} : Holds(x, l, n)' => InSlot(l, n)  BY <2>5 DEF InSlot
    <3> QED  BY <1>1, <2>5, <2>6, <2>7, <3>1
  <2>13. \A i, j \in DOMAIN received'[l] : received'[l][i].n = n /\ received'[l][j].n = n => i = j
    BY <1>1, <2>1
  <2> QED  BY <1>1, <2>7, <2>8, <2>9, <2>10, <2>11, <2>12, <2>13 DEF Used
<1>3. ASSUME slot' = [slot EXCEPT ![w] = NoTask], slot[w] # NoTask
      PROVE  /\ \A x \in Workers : Holds(x, l, n)' => Holds(x, l, n) /\ x # w
             /\ InSlot(l, n)' => InSlot(l, n) /\ ~Carries(slot[w], l, n)
  <2> HIDE DEF TaskType
  <2>1. slot'[w] = NoTask /\ \A x \in Workers \ {w} : slot'[x] = slot[x]  BY <1>3
  <2>2. ASSUME NEW x \in Workers, Holds(x, l, n)' PROVE Holds(x, l, n) /\ x # w
    BY <1>c, <2>1, <2>2 DEF Holds
  <2>3. ASSUME InSlot(l, n)' PROVE InSlot(l, n) /\ ~Carries(slot[w], l, n)
    <3>1. PICK x \in Workers : Holds(x, l, n)'  BY <1>b, <2>3
    <3>2. Holds(x, l, n) /\ x # w  BY <2>2, <3>1
    <3>3. ~Holds(w, l, n)  BY <1>1, <3>2
    <3> QED  BY <1>3, <3>2, <3>3 DEF InSlot, Holds
  <2> QED  BY <2>2, <2>3
<1>4. CASE ListenerForward(w)
  <2> DEFINE down == Task("down", slot[w].l, slot[w].v)
  <2>1. slot[w] # NoTask /\ slot' = [slot EXCEPT ![w] = NoTask] /\ received' = received
        /\ (queue' = queue \/ queue' = Append(queue, down))
    BY <1>4 DEF ListenerForward
  <2>2. slot[w] \in TaskType
    <3> HIDE DEF TaskType
    <3> QED  BY <2>1
  <2>3. down \in TaskType /\ (Carries(down, l, n) <=> Carries(slot[w], l, n))
    BY <2>2 DEF TaskType, Task, Carries
  <2> HIDE DEF TaskType, down
  <2>4. \A x \in Workers : Holds(x, l, n)' => Holds(x, l, n) /\ x # w  BY <1>3, <2>1
  <2>5. InSlot(l, n)' => InSlot(l, n) /\ ~Carries(slot[w], l, n)  BY <1>3, <2>1
  <2>6. Carries(slot[w], l, n) => InSlot(l, n)  BY <2>1 DEF InSlot, Holds
  <2>7. \A i \in DOMAIN queue' : \/ i \in DOMAIN queue /\ queue'[i] = queue[i]
                                 \/ i = Len(queue) + 1 /\ queue'[i] = down
    <3>1. CASE queue' = queue  BY <3>1
    <3>2. CASE queue' = Append(queue, down)  BY <2>3, <3>2, QueueFacts
    <3> QED  BY <2>1, <3>1, <3>2
  <2>8. InQueue(l, n)' => InQueue(l, n) \/ Carries(slot[w], l, n)
    BY <1>a, <2>3, <2>7 DEF InQueue
  <2>9. \A i, j \in DOMAIN queue' : Carries(queue'[i], l, n) /\ Carries(queue'[j], l, n) => i = j
    <3> SUFFICES ASSUME NEW i \in DOMAIN queue', NEW j \in DOMAIN queue',
                        Carries(queue'[i], l, n), Carries(queue'[j], l, n)
                 PROVE  i = j
      OBVIOUS
    <3>1. CASE Carries(slot[w], l, n)
      <4>1. ~InQueue(l, n)  BY <1>1, <2>6, <3>1
      <4>2. i = Len(queue) + 1 /\ j = Len(queue) + 1  BY <2>7, <4>1 DEF InQueue
      <4> QED  BY <4>2
    <3>2. CASE ~Carries(slot[w], l, n)
      <4>1. i \in DOMAIN queue /\ queue'[i] = queue[i] /\ j \in DOMAIN queue /\ queue'[j] = queue[j]
        BY <2>3, <2>7, <3>2
      <4> QED  BY <1>1, <4>1
    <3> QED  BY <3>1, <3>2
  <2>10. Got(l, n)' <=> Got(l, n)  BY <2>1 DEF Got
  <2>11. \A v, x \in Workers : Holds(v, l, n)' /\ Holds(x, l, n)' => v = x  BY <1>1, <2>4
  <2>12. \A i, j \in DOMAIN received'[l] : received'[l][i].n = n /\ received'[l][j].n = n => i = j
    BY <1>1, <2>1
  <2> QED  BY <1>1, <2>5, <2>6, <2>8, <2>9, <2>10, <2>11, <2>12 DEF Used
<1>5. CASE Deliver(w)
  <2> DEFINE v == slot[w].v
             old == received[l]
             now == received'[l]
  <2>1. slot[w] # NoTask /\ slot' = [slot EXCEPT ![w] = NoTask] /\ queue' = queue
        /\ received' = [received EXCEPT ![slot[w].l] = Append(@, v)]
    BY <1>5 DEF Deliver
  <2>2. slot[w] \in TaskType
    <3> HIDE DEF TaskType
    <3> QED  BY <2>1
  <2>3. slot[w].l \in Listeners /\ v \in Values  BY <2>2 DEF TaskType, Values
  <2> HIDE DEF TaskType
  <2>4. \A x \in Workers : Holds(x, l, n)' => Holds(x, l, n) /\ x # w  BY <1>3, <2>1
  <2>5. InSlot(l, n)' => InSlot(l, n) /\ ~Carries(slot[w], l, n)  BY <1>3, <2>1
  <2>6. Carries(slot[w], l, n) => InSlot(l, n)  BY <2>1 DEF InSlot, Holds
  <2>7. InQueue(l, n)' <=> InQueue(l, n)  BY <1>a, <2>1 DEF InQueue
  <2>8. \A i \in DOMAIN now : \/ i \in DOMAIN old /\ now[i] = old[i]
                              \/ i = Len(old) + 1 /\ slot[w].l = l /\ now[i] = v
    <3>1. CASE slot[w].l = l
      <4> HIDE DEF Values, v
      <4>1. now = Append(old, v) /\ old \in Seq(Values)  BY <1>d, <2>1, <2>3, <3>1
      <4> HIDE DEF now, old
      <4>2. \A i \in DOMAIN now : \/ i \in DOMAIN old /\ now[i] = old[i]
                                  \/ i = Len(old) + 1 /\ now[i] = v
        BY <2>3, <4>1
      <4> QED  BY <3>1, <4>2
    <3>2. CASE slot[w].l # l
      <4> HIDE DEF Values, v
      <4>1. now = old  BY <1>d, <2>1, <2>3, <3>2
      <4> QED  BY <4>1
    <3> QED  BY <3>1, <3>2
  <2>9. \A i \in DOMAIN now : now[i].n = n => (i \in DOMAIN old /\ now[i] = old[i]) \/ Carries(slot[w], l, n)
    BY <2>8 DEF Carries
  <2>10. Got(l, n)' => Got(l, n) \/ Carries(slot[w], l, n)
    <3>1. Got(l, n)' <=> \E i \in DOMAIN now : now[i].n = n  BY DEF Got
    <3> HIDE DEF now
    <3> QED  BY <2>9, <3>1 DEF Got
  <2>11. \A i, j \in DOMAIN now : now[i].n = n /\ now[j].n = n => i = j
    <3> SUFFICES ASSUME NEW i \in DOMAIN now, NEW j \in DOMAIN now, now[i].n = n, now[j].n = n
                 PROVE  i = j
      OBVIOUS
    <3> HIDE DEF now
    <3>1. CASE Carries(slot[w], l, n)
      <4>1. ~Got(l, n)  BY <1>1, <2>6, <3>1
      <4>2. i = Len(old) + 1 /\ j = Len(old) + 1  BY <2>8, <4>1 DEF Got
      <4> QED  BY <4>2
    <3>2. CASE ~Carries(slot[w], l, n)
      <4>1. i \in DOMAIN old /\ now[i] = old[i] /\ j \in DOMAIN old /\ now[j] = old[j]
        BY <2>9, <3>2
      <4> QED  BY <1>1, <4>1
    <3> QED  BY <3>1, <3>2
  <2>12. \A x, y \in Workers : Holds(x, l, n)' /\ Holds(y, l, n)' => x = y  BY <1>1, <2>4
  <2>13. \A i, j \in DOMAIN queue' : Carries(queue'[i], l, n) /\ Carries(queue'[j], l, n) => i = j
    BY <1>1, <2>1
  <2> QED  BY <1>1, <2>5, <2>6, <2>7, <2>10, <2>11, <2>12, <2>13 DEF Used
<1> QED  BY <1>2, <1>4, <1>5 DEF WorkerStep

\* The keys the computer announces: distinct results of the suite, without the
\* names it leaves to onTick.
LEMMA KeysFacts ==
    ASSUME TaEnabled, NEW data, NEW hist, NEW tk
    PROVE  LET k == Compute(data, hist, tk).keys
           IN  k \in Seq(KeySet) /\ Injects(k) /\ \A i \in DOMAIN k : k[i] \notin SkipFields
<1> DEFINE k == Compute(data, hist, tk).keys
           all == [i \in DOMAIN Indicators |-> Indicators[i].key]
           h == PushBounded(HistOf(hist, tk.sym), tk.n)
           late == {all[i] : i \in {j \in DOMAIN all : Indicators[j].depth > Len(h)}}
           results == Without(all, late)
<1>1. k = <<>> \/ k = Without(results, SkipFields)
  <2>1. ResultKeys(h) = results  BY DEF ResultKeys, AllAtomicValues
  <2>2. NotifiedKeys(ResultKeys(h)) = Without(ResultKeys(h), SkipFields)  BY DEF NotifiedKeys
  <2> HIDE DEF results
  <2>3. k = <<>> \/ k = NotifiedKeys(ResultKeys(h))
    <3> HIDE DEF h
    <3> QED  BY DEF Compute, h
  <2> QED  BY <2>1, <2>2, <2>3
<1>2. all \in Seq(KeySet) /\ Injects(all)
  <2>1. DOMAIN Indicators = 1 .. Len(Indicators) /\ Len(Indicators) \in Nat
    <3> DEFINE S == {Indicators[i] : i \in DOMAIN Indicators}
    <3>1. Indicators \in Seq(S)  BY HistoryCaps
    <3> HIDE DEF S
    <3> QED  BY <3>1
  <2>2. all \in [1 .. Len(Indicators) -> KeySet]  BY <2>1 DEF KeySet
  <2>3. Injects(all)  BY HistoryCaps DEF Injects
  <2> HIDE DEF all
  <2> QED  BY <2>1, <2>2, <2>3
<1> HIDE DEF all, late
<1>3. results \in Seq(KeySet) /\ Injects(results)  BY <1>2, WithoutFacts
<1> HIDE DEF results
<1>4. CASE k = Without(results, SkipFields)
  <2> HIDE DEF k
  <2> QED  BY <1>3, <1>4, WithoutFacts DEF k
<1>5. CASE k = <<>>
  <2>1. <<>> \in Seq(KeySet) /\ DOMAIN <<>> = {}  OBVIOUS
  <2> HIDE DEF k
  <2>2. k \in Seq(KeySet) /\ Injects(k) /\ \A i \in DOMAIN k : k[i] \notin SkipFields
    BY <1>5, <2>1 DEF Injects
  <2> QED  BY <2>2 DEF k
<1> QED  BY <1>1, <1>4, <1>5

\* A registered listener is bound to the field it is registered for.
LEMMA BoundToField ==
    ASSUME TableInv, NEW s \in Symbols, NEW f \in Fields, NEW i \in DOMAIN table[s][f]
    PROVE  table[s][f][i] \in Listeners /\ FieldOf[table[s][f][i]] = f
<1>1. table[s][f] \in Seq(Listeners)  BY TableFacts DEF TableInv, TypeInv
<1>2. table[s][f][i] \in Listeners  BY <1>1
<1> QED  BY <1>2 DEF TableInv, Registered

\* The rest of a sequence: its entries, still distinct, none equal to the head.
LEMMA TailFacts ==
    ASSUME NEW S, NEW q \in Seq(S), q # <<>>, Injects(q)
    PROVE  /\ Tail(q) \in Seq(S) /\ Injects(Tail(q)) /\ Head(q) \in S
           /\ 1 \in DOMAIN q /\ Head(q) = q[1]
           /\ \A i \in DOMAIN Tail(q) : /\ i + 1 \in DOMAIN q /\ Tail(q)[i] = q[i + 1]
                                        /\ Tail(q)[i] # Head(q)
<1>1. /\ Tail(q) \in Seq(S) /\ Head(q) \in S /\ 1 \in DOMAIN q /\ Head(q) = q[1]
      /\ \A i \in DOMAIN Tail(q) : i + 1 \in DOMAIN q /\ Tail(q)[i] = q[i + 1] /\ i \in Nat \ {0}
  OBVIOUS
<1>2. \A i \in DOMAIN Tail(q) : Tail(q)[i] # Head(q)
  <2> TAKE i \in DOMAIN Tail(q)
  <2>1. i + 1 # 1 /\ i + 1 \in DOMAIN q /\ 1 \in DOMAIN q  BY <1>1
  <2> QED  BY <1>1, <2>1 DEF Injects
<1>3. Injects(Tail(q))
  <2> SUFFICES ASSUME NEW i \in DOMAIN Tail(q), NEW j \in DOMAIN Tail(q), Tail(q)[i] = Tail(q)[j]
               PROVE  i = j
    BY DEF Injects
  <2>1. i + 1 = j + 1  BY <1>1 DEF Injects
  <2> QED  BY <1>1, <2>1
<1> QED  BY <1>1, <1>2, <1>3

\* onTick's own data stay in order.
LEMMA InHandStep ==
    ASSUME TableInv, InHand, SkipCovers, [Next]_vars
    PROVE  InHand'
<1> USE TypeParts DEF TableInv
<1>0. TypeInv  OBVIOUS
<1>1. ASSUME UNCHANGED <<pc, tick, notifyKeys, todo>> PROVE InHand'
  BY <1>1 DEF InHand, Payload
<1>2. ASSUME NEW e \in Events, BeginTick(e) PROVE InHand'
  <2>1. pc' = "compute" /\ tick'.num = e.num /\ tick'.other = e.other /\ todo' = todo
    BY <1>2 DEF BeginTick
  <2> QED  BY <2>1 DEF InHand
<1>3. CASE RunComputers
  <2> DEFINE k == Compute(store, taHist, tick).keys
  <2>1. pc = "compute" /\ pc' = "notify" /\ UNCHANGED <<tick, todo>> /\ notifyKeys' = k
    BY <1>3 DEF RunComputers
  <2>2. k \in Seq(KeySet) /\ Injects(k) /\ \A i \in DOMAIN k : k[i] \notin SkipFields
    BY KeysFacts DEF SkipCovers
  <2>3. PICK e \in Events : tick.num = e.num /\ tick.other = e.other  BY <2>1 DEF InHand
  <2> HIDE DEF k
  <2>4. ASSUME NEW i \in DOMAIN k PROVE k[i] \notin Payload
    <3>1. k[i] \in KeySet /\ k[i] \notin SkipFields  BY <2>2
    <3>2. PICK j \in DOMAIN Indicators : k[i] = Indicators[j].key  BY <3>1 DEF KeySet
    <3>3. k[i] \in e.num \cup e.other => k[i] \in SkipFields  BY <3>2 DEF SkipCovers
    <3> QED  BY <2>3, <3>1, <3>3 DEF Payload
  <2> QED  BY <2>1, <2>2, <2>3, <2>4 DEF InHand, Payload
<1>4. CASE NotifyListeners
  <2>1. pc = "notify" /\ notifyKeys # <<>> /\ UNCHANGED <<pc, tick, todo>> /\ notifyKeys' = Tail(notifyKeys)
    BY <1>4 DEF NotifyListeners
  <2>2. notifyKeys \in Seq(KeySet) /\ Injects(notifyKeys) /\ \A i \in DOMAIN notifyKeys : notifyKeys[i] \notin Payload
    BY <2>1 DEF InHand
  <2>3. /\ notifyKeys' \in Seq(KeySet) /\ Injects(notifyKeys')
        /\ \A i \in DOMAIN notifyKeys' : i + 1 \in DOMAIN notifyKeys /\ notifyKeys'[i] = notifyKeys[i + 1]
    BY <2>1, <2>2, TailFacts
  <2>4. \A i \in DOMAIN notifyKeys' : notifyKeys'[i] \notin Payload  BY <2>2, <2>3
  <2> QED  BY <2>1, <2>3, <2>4 DEF InHand, Payload
<1>5. CASE Collect
  <2> DEFINE payload == tick.num \cup tick.other
             p == PairsFor(payload)
  <2>1. pc = "notify" /\ pc' = "pairs" /\ tick' = tick /\ todo' = p  BY <1>5 DEF Collect
  <2> HIDE DEF payload
  <2>2. tick.sym \in Symbols  BY <2>1 DEF TypeInv, FeedTypes
  <2>3. \A f \in Fields : Injects(table[tick.sym][f])  BY <2>2 DEF Registered
  <2>4. Injects(p) /\ \A j \in DOMAIN p : PairOf(p[j], payload)
    BY <1>0, <2>1, <2>3, PairsFacts
  <2> HIDE DEF p
  <2>5. ASSUME NEW i \in DOMAIN p PROVE p[i][1] = FieldOf[p[i][2]]
    <3>1. PICK f \in Fields : \E k \in DOMAIN table[tick.sym][f] : p[i] = <<f, table[tick.sym][f][k]>>
      BY <2>4 DEF PairOf
    <3>2. PICK k \in DOMAIN table[tick.sym][f] : p[i] = <<f, table[tick.sym][f][k]>>  BY <3>1
    <3>3. FieldOf[table[tick.sym][f][k]] = f  BY <2>2, BoundToField
    <3> QED  BY <3>2, <3>3
  <2> QED  BY <2>1, <2>4, <2>5 DEF InHand
<1>6. ASSUME todo # <<>>, todo' = Tail(todo), tick' = tick, pc # "idle", pc' # "notify" PROVE InHand'
  <2> DEFINE S == Fields \X Listeners
  <2>1. todo \in Seq(S) /\ Injects(todo)  BY DEF InHand
  <2> HIDE DEF S
  <2>2. Injects(todo') /\ \A i \in DOMAIN todo' : i + 1 \in DOMAIN todo /\ todo'[i] = todo[i + 1]
    BY <1>6, <2>1, TailFacts
  <2> QED  BY <1>6, <2>2 DEF InHand
<1>7. CASE SkipPair  BY <1>6, <1>7 DEF SkipPair
<1>8. CASE Fanout
  <2>1. pc = "fanout" /\ pc' = "pairs" /\ todo' = Tail(todo) /\ tick' = tick  BY <1>8 DEF Fanout
  <2>2. todo # <<>>  BY <2>1 DEF TypeInv, FeedTypes
  <2> QED  BY <1>6, <2>1, <2>2
<1>9. CASE PushHistory
  <2>1. pc = "pairs" /\ pc' = "fanout" /\ UNCHANGED <<todo, tick>>  BY <1>9 DEF PushHistory
  <2> QED  BY <2>1 DEF InHand
<1>10. CASE EndTick
  <2>1. pc' = "idle" /\ todo' = todo  BY <1>10 DEF EndTick
  <2> QED  BY <2>1 DEF InHand
<1>11. CASE \E l \in Listeners : LifeStep(l)
  BY <1>1, <1>11 DEF LifeStep, Create, ShutdownBegin, Unregister, ResetDownstream, feedVars
<1>12. CASE \E w \in Workers : WorkerStep(w)
  BY <1>1, <1>12 DEF WorkerStep, Take, ListenerForward, Deliver, feedVars
<1>13. CASE UNCHANGED vars  BY <1>1, <1>13 DEF vars
<1> QED
  BY <1>2, <1>3, <1>4, <1>5, <1>7, <1>8, <1>9, <1>10, <1>11, <1>12, <1>13 DEF Next, FeedStep

\* A step that posts nothing and moves nothing.
LEMMA OnceSame ==
    ASSUME UNCHANGED <<queue, slot, received>>
    PROVE  /\ OnceEverywhere => OnceEverywhere'
           /\ \A l, n : Used(l, n)' <=> Used(l, n)
BY DEF OnceEverywhere, Used, InQueue, InSlot, Got, Holds, Carries, Raw

\* Ticks are posted once, and only while they are due.
LEMMA OnceStep ==
    ASSUME OnceInv, SkipCovers, [Next]_vars
    PROVE  NotYet' /\ OnceEverywhere'
<1> USE TypeParts DEF OnceInv, TableInv
<1>0. TypeInv /\ MaxTicks \in Nat  BY DispatcherAssumption
<1>t. ASSUME pc # "idle" PROVE ticks \in 1 .. MaxTicks /\ tick.n = ticks /\ tick.sym \in Symbols
  BY <1>t DEF TypeInv, FeedTypes
<1>1. ASSUME NEW e \in Events, BeginTick(e) PROVE NotYet' /\ OnceEverywhere'
  <2>1. UNCHANGED <<queue, slot, received>> /\ pc' = "compute" /\ ticks' = ticks + 1 /\ ticks < MaxTicks
    BY <1>1 DEF BeginTick
  <2>2. OnceEverywhere' /\ \A l, n : Used(l, n)' <=> Used(l, n)  BY <2>1, OnceSame
  <2>3. ticks' \in 1 .. MaxTicks /\ ticks < ticks' /\ ticks \in Nat /\ ticks' \in Nat  BY <1>0, <2>1
  <2>4. \A l \in Raw : \A n \in 1 .. MaxTicks : Used(l, n) => n <= ticks  BY DEF NotYet
  <2>5. ASSUME NEW l \in Raw PROVE ~Used(l, ticks')
    <3> DEFINE m == ticks'
    <3>1. Used(l, m) => m <= ticks  BY <2>3, <2>4
    <3> QED  BY <2>3, <3>1
  <2>6. \A l \in Raw : \A n \in 1 .. MaxTicks : Used(l, n)' => n <= ticks'
    <3> SUFFICES ASSUME NEW l \in Raw, NEW n \in 1 .. MaxTicks, Used(l, n)' PROVE n <= ticks'  OBVIOUS
    <3>1. Used(l, n)  BY <2>2
    <3>2. n <= ticks  BY <2>4, <3>1
    <3> QED  BY <2>3, <3>2
  <2>7. \A l \in Raw : ~Used(l, ticks)'
    <3> TAKE l \in Raw
    <3>1. Used(l, ticks)' <=> Used(l, ticks')
      BY <2>1 DEF Used, InQueue, InSlot, Got, Holds, Carries
    <3> QED  BY <2>5, <3>1
  <2> QED  BY <2>1, <2>2, <2>6, <2>7 DEF NotYet, Raw
<1>2. CASE RunComputers
  <2>1. UNCHANGED <<queue, slot, received, ticks>> /\ pc = "compute" /\ pc' = "notify"
    BY <1>2 DEF RunComputers
  <2>2. OnceEverywhere' /\ \A l, n : Used(l, n)' <=> Used(l, n)  BY <2>1, OnceSame
  <2>3. \A l \in Raw : ~Used(l, ticks)  BY <2>1 DEF NotYet
  <2>4. \A l \in Raw : ~Used(l, ticks)'
    BY <2>1, <2>3 DEF Used, InQueue, InSlot, Got, Holds, Carries
  <2>5. \A l \in Raw : \A n \in 1 .. MaxTicks : Used(l, n)' => n <= ticks'  BY <2>1, <2>2 DEF NotYet
  <2> QED  BY <2>1, <2>2, <2>4, <2>5 DEF NotYet, Raw
<1>3. ASSUME ticks' = ticks, \A l \in Raw : \A n \in 1 .. MaxTicks : Used(l, n)' => Used(l, n) \/ n = ticks
      PROVE  \A l \in Raw : \A n \in 1 .. MaxTicks : Used(l, n)' => n <= ticks'
  <2> SUFFICES ASSUME NEW l \in Raw, NEW n \in 1 .. MaxTicks, Used(l, n)' PROVE n <= ticks  BY <1>3
  <2>1. CASE n = ticks  BY <1>0, <2>1
  <2>2. CASE Used(l, n)  BY <2>2 DEF NotYet
  <2> QED  BY <1>3, <2>1, <2>2
<1>4. ASSUME ticks' = ticks, NEW l, NEW n, n = ticks PROVE Used(l, ticks)' <=> Used(l, n)'
  BY <1>4 DEF Used, InQueue, InSlot, Got, Holds, Carries
<1>5. CASE NotifyListeners
  <2> DEFINE k == Head(notifyKeys)
             ls == IF k \in Fields THEN table[tick.sym][k] ELSE <<>>
             r == Calls(ls, Value(tick.n, k))
  <2>1. pc = "notify" /\ notifyKeys # <<>> /\ queue' = queue \o r /\ notifyKeys' = Tail(notifyKeys)
        /\ UNCHANGED <<slot, received, ticks, tick, pc>>
    BY <1>5 DEF NotifyListeners
  <2>2. tick.sym \in Symbols /\ tick.n = ticks /\ ticks \in 1 .. MaxTicks /\ TypeOK
    BY <1>0, <1>t, <2>1 DEF TypeInv
  <2>3. /\ r \in Seq(TaskType)
        /\ \A l \in Raw : \A n \in 1 .. MaxTicks : \A i \in DOMAIN r : Carries(r[i], l, n) =>
              n = ticks /\ FieldOf[l] = k /\ \A j \in DOMAIN r : Carries(r[j], l, n) => i = j
    <3>1. CASE k \in Fields
      <4>1. ls \in Seq(Listeners) /\ ls = table[tick.sym][k]  BY <2>2, <3>1, TableFacts
      <4>2. Value(tick.n, k) \in Values /\ Value(tick.n, k).n = ticks  BY <2>2, <3>1 DEF Value, Values
      <4>3. Injects(ls)  BY <2>2, <3>1, <4>1 DEF Registered
      <4>4. \A i \in DOMAIN ls : FieldOf[ls[i]] = k  BY <2>2, <3>1, <4>1, BoundToField
      <4> HIDE DEF ls, k
      <4>5. r \in Seq(TaskType) /\ DOMAIN r = DOMAIN ls
            /\ \A i \in DOMAIN ls : r[i] = Task("listener", ls[i], Value(tick.n, k))
        BY <4>1, <4>2, CallsFacts
      <4> HIDE DEF r, TaskType
      <4>6. \A i \in DOMAIN r : r[i].l = ls[i] /\ r[i].v.n = ticks
        BY <4>2, <4>5 DEF Task
      <4> QED  BY <4>3, <4>4, <4>5, <4>6 DEF Carries, Injects
    <3>2. CASE k \notin Fields
      <4>1. ls = <<>>  BY <3>2
      <4>2. r = [i \in 1 .. 0 |-> Task("listener", ls[i], Value(tick.n, k))]  BY <4>1 DEF Calls
      <4> HIDE DEF ls, k, r, TaskType
      <4>3. r \in [1 .. 0 -> TaskType] /\ DOMAIN r = {}  BY <4>2
      <4>4. r \in Seq(TaskType)  BY <4>3
      <4> QED  BY <4>3, <4>4
    <3> QED  BY <3>1, <3>2
  <2> HIDE DEF r, TaskType, ls
  <2>4. /\ k = notifyKeys[1] /\ 1 \in DOMAIN notifyKeys /\ k \notin Payload
        /\ \A i \in DOMAIN notifyKeys' : /\ i + 1 \in DOMAIN notifyKeys /\ notifyKeys'[i] = notifyKeys[i + 1]
                                         /\ notifyKeys'[i] # k
    <3>1. notifyKeys \in Seq(KeySet) /\ Injects(notifyKeys) /\ \A i \in DOMAIN notifyKeys : notifyKeys[i] \notin Payload
      BY <2>1 DEF InHand
    <3> QED  BY <2>1, <3>1, TailFacts
  <2>5. \A l \in Raw : Used(l, ticks) =>
              FieldOf[l] \notin Payload /\ \A i \in DOMAIN notifyKeys : notifyKeys[i] # FieldOf[l]
    BY <2>1 DEF NotYet
  <2>6. \A l \in Raw : \A n \in 1 .. MaxTicks : \A i \in DOMAIN r : Carries(r[i], l, n) =>
              ~Used(l, n) /\ \A j \in DOMAIN r : Carries(r[j], l, n) => i = j
    <3> SUFFICES ASSUME NEW l \in Raw, NEW n \in 1 .. MaxTicks, NEW i \in DOMAIN r, Carries(r[i], l, n)
                 PROVE  ~Used(l, n) /\ \A j \in DOMAIN r : Carries(r[j], l, n) => i = j
      OBVIOUS
    <3>1. n = ticks /\ FieldOf[l] = k /\ \A j \in DOMAIN r : Carries(r[j], l, n) => i = j  BY <2>3
    <3> HIDE DEF k
    <3>2. ~Used(l, ticks)  BY <2>4, <2>5, <3>1
    <3> QED  BY <3>1, <3>2
  <2> HIDE DEF k
  <2>7. OnceEverywhere' /\ \A l \in Raw : \A n \in 1 .. MaxTicks :
                 Used(l, n)' => Used(l, n) \/ \E i \in DOMAIN r : Carries(r[i], l, n)
    BY <1>0, <2>1, <2>3, <2>6, OncePosted
  <2>8. ASSUME NEW l \in Raw, NEW n \in 1 .. MaxTicks, Used(l, n)'
        PROVE  Used(l, n) \/ (n = ticks /\ FieldOf[l] = k)
    BY <2>3, <2>7, <2>8
  <2>9. \A l \in Raw : \A n \in 1 .. MaxTicks : Used(l, n)' => n <= ticks'  BY <1>3, <2>1, <2>8
  <2>10. ASSUME NEW l \in Raw, Used(l, ticks)'
         PROVE  FieldOf[l] \notin Payload' /\ \A i \in DOMAIN notifyKeys' : notifyKeys'[i] # FieldOf[l]
    <3>1. PICK n \in 1 .. MaxTicks : n = ticks  BY <2>2
    <3>2. Used(l, n)'  BY <1>4, <2>1, <2>10, <3>1
    <3>3. Used(l, ticks) \/ FieldOf[l] = k  BY <2>8, <3>1, <3>2
    <3>4. Payload' = Payload  BY <2>1 DEF Payload
    <3> QED  BY <2>4, <2>5, <3>3, <3>4
  <2> QED  BY <2>1, <2>7, <2>9, <2>10 DEF NotYet, Raw
<1>6. CASE Collect
  <2> DEFINE payload == tick.num \cup tick.other
             p == PairsFor(payload)
  <2>1. pc = "notify" /\ pc' = "pairs" /\ todo' = p /\ UNCHANGED <<queue, slot, received, ticks>>
    BY <1>6 DEF Collect
  <2>2. tick.sym \in Symbols /\ ticks \in 1 .. MaxTicks  BY <1>t, <2>1
  <2>3. payload = Payload  BY DEF Payload
  <2> HIDE DEF payload
  <2>4. \A j \in DOMAIN p : PairOf(p[j], payload)
    BY <1>0, <2>1, PairsFacts
  <2> HIDE DEF p
  <2>5. ASSUME NEW j \in DOMAIN p PROVE FieldOf[p[j][2]] \in Payload
    <3>1. PICK f \in Fields : \E i \in DOMAIN table[tick.sym][f] : f \in payload /\ p[j] = <<f, table[tick.sym][f][i]>>
      BY <2>4 DEF PairOf
    <3>2. PICK i \in DOMAIN table[tick.sym][f] : f \in payload /\ p[j] = <<f, table[tick.sym][f][i]>>  BY <3>1
    <3>3. FieldOf[table[tick.sym][f][i]] = f  BY <2>2, BoundToField
    <3> QED  BY <2>3, <3>2, <3>3
  <2>6. \A l \in Raw : Used(l, ticks) => FieldOf[l] \notin Payload  BY <2>1 DEF NotYet
  <2>7. OnceEverywhere' /\ \A l, n : Used(l, n)' <=> Used(l, n)  BY <2>1, OnceSame
  <2>8. \A l \in Raw : \A n \in 1 .. MaxTicks : Used(l, n)' => n <= ticks'  BY <1>3, <2>1, <2>7
  <2>9. ASSUME NEW l \in Raw, Used(l, ticks)' PROVE \A i \in DOMAIN todo' : todo'[i][2] # l
    <3>1. PICK n \in 1 .. MaxTicks : n = ticks  BY <2>2
    <3>2. Used(l, n)'  BY <1>4, <2>1, <2>9, <3>1
    <3>3. Used(l, ticks)  BY <2>7, <3>1, <3>2
    <3> QED  BY <2>1, <2>5, <2>6, <3>3
  <2> QED  BY <2>1, <2>7, <2>8, <2>9 DEF NotYet, Raw
<1>7. ASSUME UNCHANGED <<queue, slot, received, ticks>>, pc \in {"pairs", "fanout"}, pc' \in {"pairs", "fanout"},
             \A i \in DOMAIN todo' : \E j \in DOMAIN todo : todo'[i] = todo[j]
      PROVE  NotYet' /\ OnceEverywhere'
  <2>1. OnceEverywhere' /\ \A l, n : Used(l, n)' <=> Used(l, n)  BY <1>7, OnceSame
  <2>2. \A l \in Raw : \A n \in 1 .. MaxTicks : Used(l, n)' => n <= ticks'  BY <1>3, <1>7, <2>1
  <2>3. ASSUME NEW l \in Raw, Used(l, ticks)' PROVE \A i \in DOMAIN todo' : todo'[i][2] # l
    <3>1. PICK n \in 1 .. MaxTicks : n = ticks  BY <1>t, <1>7
    <3>2. Used(l, n)'  BY <1>4, <1>7, <2>3, <3>1
    <3>3. Used(l, ticks)  BY <2>1, <3>1, <3>2
    <3> QED  BY <1>7, <3>3 DEF NotYet
  <2> QED  BY <1>7, <2>1, <2>2, <2>3 DEF NotYet, Raw
<1>8. ASSUME todo # <<>>
      PROVE  /\ 1 \in DOMAIN todo /\ Head(todo) = todo[1] /\ Head(todo) \in Fields \X Listeners
             /\ \A i \in DOMAIN Tail(todo) : /\ i + 1 \in DOMAIN todo /\ Tail(todo)[i] = todo[i + 1]
                                             /\ Tail(todo)[i] # Head(todo) /\ Tail(todo)[i] \in Fields \X Listeners
  <2> DEFINE S == Fields \X Listeners
  <2>1. todo \in Seq(S) /\ Injects(todo)  BY DEF InHand
  <2> HIDE DEF S
  <2>2. /\ 1 \in DOMAIN todo /\ Head(todo) = todo[1] /\ Head(todo) \in S /\ Tail(todo) \in Seq(S)
        /\ \A i \in DOMAIN Tail(todo) : i + 1 \in DOMAIN todo /\ Tail(todo)[i] = todo[i + 1] /\ Tail(todo)[i] # Head(todo)
    BY <1>8, <2>1, TailFacts
  <2>3. \A i \in DOMAIN Tail(todo) : Tail(todo)[i] \in S  BY <2>2
  <2> QED  BY <2>2, <2>3 DEF S
<1>9. CASE SkipPair
  <2>1. todo # <<>> /\ todo' = Tail(todo) /\ UNCHANGED <<queue, slot, received, ticks, pc>> /\ pc = "pairs"
    BY <1>9 DEF SkipPair
  <2>2. \A i \in DOMAIN todo' : \E j \in DOMAIN todo : todo'[i] = todo[j]  BY <1>8, <2>1
  <2> QED  BY <1>7, <2>1, <2>2
<1>10. CASE PushHistory
  <2>1. UNCHANGED <<queue, slot, received, ticks, todo>> /\ pc = "pairs" /\ pc' = "fanout"
    BY <1>10 DEF PushHistory
  <2> QED  BY <1>7, <2>1
<1>11. CASE Fanout
  <2> DEFINE h == Head(todo)
             own == Task("listener", h[2], Value(tick.n, h[1]))
             b == BuiltinCalls
             u == <<own>>
             r == b \o u
  <2>1. pc = "fanout" /\ pc' = "pairs" /\ todo' = Tail(todo) /\ UNCHANGED <<slot, received, ticks>>
    BY <1>11 DEF Fanout
  <2>2. queue' = queue \o BuiltinCalls \o <<own>>  BY <1>11 DEF Fanout, BuiltinCalls
  <2>3. todo # <<>> /\ tick.n = ticks /\ ticks \in 1 .. MaxTicks /\ tick.sym \in Symbols
    BY <1>0, <1>t, <2>1 DEF TypeInv, FeedTypes
  <2>4. h \in Fields \X Listeners /\ 1 \in DOMAIN todo /\ h = todo[1]  BY <1>8, <2>3
  <2>5. own \in TaskType /\ own.l = h[2] /\ own.v.n = ticks  BY <2>3, <2>4 DEF Task, TaskType, Value
  <2>6. b \in Seq(TaskType)  BY <1>0, <2>1, BuiltinCallsFacts
  <2>7. ASSUME NEW i \in DOMAIN b PROVE b[i].l \notin Raw
    <3>1. \E f \in Fields : \E k \in DOMAIN table[tick.sym][f] :
                    /\ f \in Evaluated
                    /\ b[i] = Task("listener", table[tick.sym][f][k], Value(tick.n, f))
      BY <1>0, <2>1, BuiltinCallsFacts
    <3> HIDE DEF b
    <3>2. PICK f \in Fields : \E k \in DOMAIN table[tick.sym][f] :
                    f \in Evaluated /\ b[i] = Task("listener", table[tick.sym][f][k], Value(tick.n, f))
      BY <3>1
    <3>3. PICK k \in DOMAIN table[tick.sym][f] :
                    f \in Evaluated /\ b[i] = Task("listener", table[tick.sym][f][k], Value(tick.n, f))
      BY <3>2
    <3>4. FieldOf[table[tick.sym][f][k]] = f  BY <2>3, BoundToField
    <3>5. b[i].l = table[tick.sym][f][k]  BY <3>3 DEF Task
    <3> QED  BY <3>3, <3>4, <3>5 DEF Evaluated, Raw
  <2> HIDE DEF TaskType, own, b, h
  <2>8. u \in Seq(TaskType) /\ DOMAIN u = {1} /\ u[1] = own  BY <2>5
  <2>9. queue' = queue \o r
    <3>1. queue \in Seq(TaskType)  OBVIOUS
    <3>2. \A x, y, z \in Seq(TaskType) : (x \o y) \o z = x \o (y \o z)  BY SMTT(40)
    <3>3. queue' = (queue \o b) \o u  BY <2>2 DEF b
    <3> HIDE DEF u
    <3> QED  BY <2>6, <2>8, <3>1, <3>2, <3>3
  <2> HIDE DEF u, r
  <2>10. r \in Seq(TaskType) /\ \A i \in DOMAIN r : (i \in DOMAIN b /\ r[i] = b[i])
                                                    \/ (i - Len(b) = 1 /\ r[i] = own)
    <3>1. r = b \o u  BY DEF r
    <3>2. r \in Seq(TaskType) /\ \A i \in DOMAIN r : (i \in DOMAIN b /\ r[i] = b[i])
                                                     \/ (i - Len(b) \in DOMAIN u /\ r[i] = u[i - Len(b)])
      <4>1. b \in Seq(TaskType) /\ u \in Seq(TaskType)  BY <2>6, <2>8
      <4> QED  BY <3>1, <4>1, QueueFacts
    <3>3. \A i : i - Len(b) \in DOMAIN u => i - Len(b) = 1 /\ u[i - Len(b)] = own  BY <2>8
    <3> HIDE DEF r
    <3> QED  BY <3>2, <3>3
  <2>11. Len(b) \in Nat /\ \A i \in DOMAIN r : i \in Nat  BY <2>6, <2>10
  <2>12. ASSUME NEW l \in Raw, NEW n \in 1 .. MaxTicks, NEW i \in DOMAIN r, Carries(r[i], l, n)
         PROVE  i - Len(b) = 1 /\ l = h[2] /\ n = ticks
    BY <2>5, <2>7, <2>10, <2>12 DEF Carries
  <2>13. ASSUME NEW l \in Raw, l = h[2] PROVE ~Used(l, ticks)
    BY <2>1, <2>4, <2>13 DEF NotYet
  <2>14. ASSUME NEW l \in Raw, NEW n \in 1 .. MaxTicks, NEW i \in DOMAIN r, Carries(r[i], l, n)
         PROVE  ~Used(l, n) /\ \A j \in DOMAIN r : Carries(r[j], l, n) => i = j
    <3>1. ~Used(l, n)  BY <2>12, <2>13, <2>14
    <3>2. ASSUME NEW j \in DOMAIN r, Carries(r[j], l, n) PROVE i = j
      <4>1. i - Len(b) = 1 /\ j - Len(b) = 1  BY <2>12, <2>14, <3>2
      <4> QED  BY <2>11, <4>1
    <3> QED  BY <3>1, <3>2
  <2>15. OnceEverywhere' /\ \A l \in Raw : \A n \in 1 .. MaxTicks :
                 Used(l, n)' => Used(l, n) \/ \E i \in DOMAIN r : Carries(r[i], l, n)
    BY <1>0, <2>1, <2>9, <2>10, <2>14, OncePosted
  <2>16. ASSUME NEW l \in Raw, NEW n \in 1 .. MaxTicks, Used(l, n)'
         PROVE  Used(l, n) \/ (n = ticks /\ l = h[2])
    BY <2>12, <2>15, <2>16
  <2>17. \A l \in Raw : \A n \in 1 .. MaxTicks : Used(l, n)' => n <= ticks'  BY <1>3, <2>1, <2>16
  <2>18. ASSUME NEW l \in Raw, Used(l, ticks)', NEW i \in DOMAIN todo' PROVE todo'[i][2] # l
    <3>1. PICK n \in 1 .. MaxTicks : n = ticks  BY <2>3
    <3>2. Used(l, n)'  BY <1>4, <2>1, <2>18, <3>1
    <3>3. /\ i + 1 \in DOMAIN todo /\ todo'[i] = todo[i + 1] /\ todo'[i] # h /\ todo'[i] \in Fields \X Listeners
      BY <1>8, <2>1, <2>3 DEF h
    <3>4. CASE Used(l, ticks)
      <4>1. \A j \in DOMAIN todo : todo[j][2] # l  BY <2>1, <3>4 DEF NotYet
      <4> QED  BY <3>3, <4>1
    <3>5. CASE l = h[2]
      <4>1. h[1] = FieldOf[h[2]] /\ todo'[i][1] = FieldOf[todo'[i][2]]  BY <2>4, <3>3 DEF InHand
      <4>2. \A x \in Fields \X Listeners : x = <<x[1], x[2]>>  OBVIOUS
      <4>3. h = <<h[1], h[2]>> /\ todo'[i] = <<todo'[i][1], todo'[i][2]>>  BY <2>4, <3>3, <4>2
      <4>4. todo'[i][2] = h[2] => todo'[i] = h  BY <4>1, <4>3
      <4> QED  BY <3>3, <3>5, <4>4
    <3> QED  BY <2>16, <3>1, <3>2, <3>4, <3>5
  <2> QED  BY <2>1, <2>15, <2>17, <2>18 DEF NotYet, Raw
<1>12. CASE EndTick
  <2>1. pc' = "idle" /\ UNCHANGED <<queue, slot, received, ticks>>  BY <1>12 DEF EndTick
  <2>2. OnceEverywhere' /\ \A l, n : Used(l, n)' <=> Used(l, n)  BY <2>1, OnceSame
  <2>3. \A l \in Raw : \A n \in 1 .. MaxTicks : Used(l, n)' => n <= ticks'  BY <1>3, <2>1, <2>2
  <2> QED  BY <2>1, <2>2, <2>3 DEF NotYet, Raw
<1>13. ASSUME UNCHANGED <<pc, tick, notifyKeys, todo, ticks>>, OnceEverywhere',
              \A l \in Raw : \A n \in 1 .. MaxTicks : Used(l, n)' => Used(l, n)
       PROVE  NotYet'
  <2>1. \A l \in Raw : \A n \in 1 .. MaxTicks : Used(l, n)' => n <= ticks'  BY <1>3, <1>13
  <2>2. CASE pc = "idle"
    <3>1. pc' = "idle"  BY <1>13, <2>2
    <3> QED  BY <2>1, <3>1 DEF NotYet, Raw
  <2>3. CASE pc # "idle"
    <3>1. ASSUME NEW l \in Raw, Used(l, ticks)' PROVE Used(l, ticks)
      <4>1. PICK n \in 1 .. MaxTicks : n = ticks  BY <1>t, <2>3
      <4>2. Used(l, n)'  BY <1>4, <1>13, <3>1, <4>1
      <4> QED  BY <1>13, <4>1, <4>2
    <3>2. Payload' = Payload  BY <1>13 DEF Payload
    <3>3. pc' = "compute" => \A l \in Raw : ~Used(l, ticks)'  BY <1>13, <3>1 DEF NotYet
    <3>4. pc' = "notify" =>
             \A l \in Raw : Used(l, ticks)' =>
                 FieldOf[l] \notin Payload' /\ \A i \in DOMAIN notifyKeys' : notifyKeys'[i] # FieldOf[l]
      BY <1>13, <3>1, <3>2 DEF NotYet
    <3>5. pc' \in {"pairs", "fanout"} =>
             \A l \in Raw : Used(l, ticks)' => \A i \in DOMAIN todo' : todo'[i][2] # l
      BY <1>13, <3>1 DEF NotYet
    <3> QED  BY <2>1, <3>3, <3>4, <3>5 DEF NotYet, Raw
  <2> QED  BY <2>2, <2>3
<1>14. ASSUME UNCHANGED <<pc, tick, notifyKeys, todo, ticks, queue, slot, received>>
       PROVE  NotYet' /\ OnceEverywhere'
  <2>1. OnceEverywhere' /\ \A l, n : Used(l, n)' <=> Used(l, n)  BY <1>14, OnceSame
  <2> QED  BY <1>13, <1>14, <2>1
<1>15. CASE \E l \in Listeners : LifeStep(l)
  BY <1>14, <1>15 DEF LifeStep, Create, ShutdownBegin, Unregister, ResetDownstream, feedVars
<1>16. ASSUME NEW w \in Workers, WorkerStep(w) PROVE NotYet' /\ OnceEverywhere'
  <2>1. OnceEverywhere' /\ \A l \in Raw : \A n \in 1 .. MaxTicks : Used(l, n)' => Used(l, n)
    BY <1>0, <1>16, OnceMoved
  <2>2. UNCHANGED <<pc, tick, notifyKeys, todo, ticks>>
    BY <1>16 DEF WorkerStep, Take, ListenerForward, Deliver, feedVars
  <2> QED  BY <1>13, <2>1, <2>2
<1>17. CASE UNCHANGED vars  BY <1>14, <1>17 DEF vars
<1> QED
  BY <1>1, <1>2, <1>5, <1>6, <1>9, <1>10, <1>11, <1>12, <1>15, <1>16, <1>17 DEF Next, FeedStep

\* At the start no tick is anywhere.
LEMMA InitOnce == Init => InHand /\ NotYet /\ OnceEverywhere
<1> SUFFICES ASSUME Init PROVE InHand /\ NotYet /\ OnceEverywhere  OBVIOUS
<1>1. pc = "idle" /\ todo = <<>> /\ queue = <<>> /\ \A w \in Workers : slot[w] = NoTask  BY DEF Init
<1>2. \A l \in Listeners : received[l] = <<>>  BY DEF Init
<1>3. DOMAIN <<>> = {}  OBVIOUS
<1>4. InHand  BY <1>1, <1>3 DEF InHand, Injects
<1>5. \A l \in Raw : \A n : ~InQueue(l, n) /\ ~InSlot(l, n) /\ ~Got(l, n)
  BY <1>1, <1>2, <1>3 DEF InQueue, InSlot, Holds, Got, Raw
<1>6. NotYet  BY <1>1, <1>5 DEF NotYet, Used
<1>7. OnceEverywhere
  BY <1>1, <1>2, <1>3, <1>5 DEF OnceEverywhere, Holds, Raw
<1> QED  BY <1>4, <1>6, <1>7

\* One tick reaches the chain of a listener on a raw or an indicator field at
\* most once, through the computer's announcement or onTick's raw path, the
\* queue and the workers, as long as the names both could announce are in
\* MarketTickComputer's _skipFields.
THEOREM AtMostOnceTheorem ==
    ASSUME SkipCovers
    PROVE  Spec => []AtMostOncePerTick
<1>1. Init => OnceInv  BY InitTypes, InitRegistered, InitOnce DEF OnceInv, TableInv
<1>2. OnceInv /\ [Next]_vars => OnceInv'
  <2> SUFFICES ASSUME OnceInv, [Next]_vars PROVE OnceInv'  OBVIOUS
  <2>1. TypeInv' /\ Registered'  BY TypeStep, RegisteredStep DEF OnceInv, TableInv
  <2>2. InHand'  BY InHandStep DEF OnceInv
  <2>3. NotYet' /\ OnceEverywhere'  BY OnceStep
  <2> QED  BY <2>1, <2>2, <2>3 DEF OnceInv, TableInv
<1>3. OnceInv => AtMostOncePerTick
  <2> SUFFICES ASSUME OnceInv, NEW l \in Listeners, FieldOf[l] \notin Builtins,
                      NEW i \in DOMAIN received[l], NEW j \in DOMAIN received[l],
                      received[l][i].n = received[l][j].n
               PROVE  i = j
    BY DEF AtMostOncePerTick
  <2>1. received[l] \in Seq(Values) /\ l \in Raw  BY TypeParts DEF OnceInv, TableInv, Raw
  <2>2. received[l][i] \in Values
    <3> HIDE DEF Values
    <3> QED  BY <2>1
  <2>3. received[l][i].n \in 1 .. MaxTicks  BY <2>2 DEF Values
  <2> QED  BY <2>1, <2>3 DEF OnceInv, OnceEverywhere
<1> QED  BY <1>1, <1>2, <1>3, PTL DEF Spec

-----------------------------------------------------------------------------
(* The store and the histories stay within their limits                    *)

\* Every name a tick can bring into the store.
Names == {"bid", "ask", "spread"} \cup KeySet \cup {LightKeys[i] : i \in DOMAIN LightKeys} \cup Fields

\* Functions from some of D to V.
Partial(D, V) == UNION {[S -> V] : S \in SUBSET D}

\* f has at most cap keys; a cap of 0 is none.
Capped(cap, f) == IsFiniteSet(DOMAIN f) /\ (cap > 0 => Cardinality(DOMAIN f) <= cap)

FieldMaps == {fm \in Partial(Names, Nat) : Capped(MaxFieldsPerStreamKey, fm)}
Stores == {data \in Partial(Symbols, FieldMaps) : Capped(MaxStreamKeys, data)}

\* The function without a key.
LEMMA NoKeys ==
    ASSUME NEW D, NEW V, NEW cap \in Nat
    PROVE  <<>> \in Partial(D, V) /\ DOMAIN <<>> = {} /\ Capped(cap, <<>>)
<1>1. DOMAIN <<>> = {} /\ <<>> \in [{} -> V]  OBVIOUS
<1>2. IsFiniteSet({}) /\ Cardinality({}) = 0  BY FS_EmptySet
<1> QED  BY <1>1, <1>2 DEF Partial, Capped

\* What operator[] of a map does to its keys and values.
LEMMA PutFacts ==
    ASSUME NEW D, NEW V, NEW f \in Partial(D, V), NEW k \in D, NEW v \in V
    PROVE  /\ Put(f, k, v) \in Partial(D, V)
           /\ DOMAIN Put(f, k, v) = DOMAIN f \cup {k}
           /\ Put(f, k, v)[k] = v
           /\ \A x \in DOMAIN f : f[x] \in V /\ (x # k => Put(f, k, v)[x] = f[x])
           /\ DOMAIN f \subseteq D
<1>1. PICK S \in SUBSET D : f \in [S -> V]  BY DEF Partial
<1>2. DOMAIN f = S /\ \A x \in S : f[x] \in V  BY <1>1
<1>3. Put(f, k, v) \in [S \cup {k} -> V]  BY <1>2 DEF Put
<1>4. S \cup {k} \in SUBSET D  OBVIOUS
<1> QED  BY <1>2, <1>3, <1>4 DEF Put, Partial

\* A key that is new is let in below the cap only, so the cap holds after.
LEMMA PutCapped ==
    ASSUME NEW D, NEW V, NEW f \in Partial(D, V), NEW k \in D, NEW v \in V, NEW cap \in Nat,
           Capped(cap, f), k \in DOMAIN f \/ ~Full(cap, f)
    PROVE  Capped(cap, Put(f, k, v))
<1> DEFINE S == DOMAIN f
<1>1. DOMAIN Put(f, k, v) = S \cup {k}  BY DEF Put
<1>2. IsFiniteSet(S) /\ (cap > 0 => Cardinality(S) <= cap)  BY DEF Capped
<1>3. Cardinality(S) \in Nat  BY <1>2, FS_CardinalityType
<1>4. IsFiniteSet(S \cup {k}) /\ (k \in S => S \cup {k} = S) /\ (k \notin S => Cardinality(S \cup {k}) = Cardinality(S) + 1)
  BY <1>2, FS_AddElement
<1>5. k \in S \/ (cap > 0 => Cardinality(S) < cap)  BY <1>3 DEF Full
<1> HIDE DEF S
<1>6. IsFiniteSet(S \cup {k}) /\ (cap > 0 => Cardinality(S \cup {k}) <= cap)  BY <1>2, <1>3, <1>4, <1>5
<1> QED  BY <1>1, <1>6 DEF Capped

-----------------------------------------------------------------------------
(* What is written stays written, and what was refused stays out           *)

\* b is a after writes of the value n: a new key found room.
Later(cap, a, b, n) ==
    /\ DOMAIN a \subseteq DOMAIN b
    /\ \A x \in DOMAIN a : b[x] = a[x] \/ b[x] = n
    /\ \A x \in DOMAIN b \ DOMAIN a : b[x] = n /\ ~Full(cap, a)

\* A cap once reached stays reached.
LEMMA FullStays ==
    ASSUME NEW cap \in Nat, NEW a, NEW b, IsFiniteSet(DOMAIN b), DOMAIN a \subseteq DOMAIN b, Full(cap, a)
    PROVE  Full(cap, b)
<1> DEFINE S == DOMAIN a
           T == DOMAIN b
<1>1. IsFiniteSet(S) /\ Cardinality(S) <= Cardinality(T)  BY FS_Subset
<1>2. Cardinality(S) \in Nat /\ Cardinality(T) \in Nat  BY <1>1, FS_CardinalityType
<1>3. cap > 0 /\ Cardinality(S) >= cap  BY DEF Full
<1> HIDE DEF S, T
<1>4. Cardinality(T) >= cap  BY <1>1, <1>2, <1>3
<1> QED  BY <1>3, <1>4 DEF Full, T

\* Writes add up.
LEMMA LaterThenLater ==
    ASSUME NEW cap \in Nat, NEW a, NEW b, NEW c, NEW n, IsFiniteSet(DOMAIN b), Later(cap, a, b, n), Later(cap, b, c, n)
    PROVE  Later(cap, a, c, n)
<1>1. DOMAIN a \subseteq DOMAIN b /\ DOMAIN b \subseteq DOMAIN c  BY DEF Later
<1>2. ASSUME NEW x \in DOMAIN a PROVE c[x] = a[x] \/ c[x] = n  BY <1>1 DEF Later
<1>3. ASSUME NEW x \in DOMAIN c \ DOMAIN a PROVE c[x] = n /\ ~Full(cap, a)
  <2>1. CASE x \in DOMAIN b  BY <1>3, <2>1 DEF Later
  <2>2. CASE x \notin DOMAIN b
    <3>1. c[x] = n /\ ~Full(cap, b)  BY <1>3, <2>2 DEF Later
    <3> QED  BY <1>1, <3>1, FullStays
  <2> QED  BY <2>1, <2>2
<1> QED  BY <1>1, <1>2, <1>3 DEF Later

\* Field x holds what tick n brought or newer, or never will hold anything.
Settled(fm, x, n) ==
    IF x \in DOMAIN fm THEN fm[x] >= n ELSE Full(MaxFieldsPerStreamKey, fm)

\* It stays so.
LEMMA SettledStays ==
    ASSUME NEW a \in FieldMaps, NEW b \in FieldMaps, NEW n \in Nat, NEW m \in Nat, m <= n, NEW x,
           Later(MaxFieldsPerStreamKey, a, b, n), Settled(a, x, m)
    PROVE  Settled(b, x, m)
<1>1. CASE x \in DOMAIN a
  <2>1. x \in DOMAIN b /\ (b[x] = a[x] \/ b[x] = n) /\ a[x] >= m  BY <1>1 DEF Later, Settled
  <2>2. b[x] >= m  BY <2>1
  <2> QED  BY <2>1, <2>2 DEF Settled
<1>2. CASE x \notin DOMAIN a
  <2>1. Full(MaxFieldsPerStreamKey, a) /\ IsFiniteSet(DOMAIN b) /\ DOMAIN a \subseteq DOMAIN b
    BY <1>2 DEF Settled, Later, FieldMaps, Capped
  <2>2. x \notin DOMAIN b  BY <1>2, <2>1 DEF Later
  <2>3. Full(MaxFieldsPerStreamKey, b)  BY <2>1, FullStays, StoreCaps
  <2> QED  BY <2>2, <2>3 DEF Settled
<1> QED  BY <1>1, <1>2

\* One field of a batch.
LEMMA PutFieldFacts ==
    ASSUME NEW fm \in FieldMaps, NEW x \in Names, NEW n \in Nat
    PROVE  /\ PutField(fm, x, n) \in FieldMaps
           /\ Later(MaxFieldsPerStreamKey, fm, PutField(fm, x, n), n)
           /\ Settled(PutField(fm, x, n), x, n)
<1> DEFINE cap == MaxFieldsPerStreamKey
           new == PutField(fm, x, n)
<1>1. cap \in Nat /\ fm \in Partial(Names, Nat) /\ Capped(cap, fm)  BY StoreCaps DEF FieldMaps
<1>2. CASE x \notin DOMAIN fm /\ Full(cap, fm)
  <2>1. new = fm  BY <1>2 DEF PutField
  <2> QED  BY <1>2, <2>1 DEF Later, Settled
<1>3. CASE x \in DOMAIN fm \/ ~Full(cap, fm)
  <2>1. new = Put(fm, x, n)  BY <1>3 DEF PutField
  <2>2. Put(fm, x, n) \in Partial(Names, Nat) /\ Capped(cap, Put(fm, x, n))
    BY <1>1, <1>3, PutFacts, PutCapped
  <2>3. /\ DOMAIN new = DOMAIN fm \cup {x} /\ new[x] = n
        /\ \A y \in DOMAIN fm : y # x => new[y] = fm[y]
    BY <1>1, <2>1, PutFacts
  <2>4. new \in FieldMaps  BY <2>1, <2>2 DEF FieldMaps
  <2> HIDE DEF new
  <2>5. Later(cap, fm, new, n)  BY <1>3, <2>3 DEF Later
  <2>6. Settled(new, x, n)  BY <2>3 DEF Settled
  <2> QED  BY <2>4, <2>5, <2>6 DEF new
<1> QED  BY <1>2, <1>3

\* g holds what is in the map after each field of a batch.
Fills(g, old, fields) ==
    /\ g \in [0 .. Len(fields) -> FieldMaps] /\ g[0] = old
    /\ \A i \in 1 .. Len(fields) : g[i] = PutField(g[i - 1], fields[i][1], fields[i][2])

\* Whatever fills the map from the first field on ends at PutFields.
LEMMA FillsUnique ==
    ASSUME NEW old, NEW fields, Len(fields) \in Nat, NEW g, Fills(g, old, fields)
    PROVE  PutFields(old, fields) = g[Len(fields)]
<1> DEFINE L == Len(fields)
           Def(h) == [i \in 0 .. L |-> IF i = 0 THEN old ELSE PutField(h[i - 1], fields[i][1], fields[i][2])]
           c == CHOOSE h : h = Def(h)
<1>1. /\ L \in Nat /\ g \in [0 .. L -> FieldMaps] /\ g[0] = old
      /\ \A i \in 1 .. L : g[i] = PutField(g[i - 1], fields[i][1], fields[i][2])
  BY DEF Fills
<1>2. PutFields(old, fields) = c[L]  BY DEF PutFields
<1> HIDE DEF L
<1>3. g = Def(g)
  <2>1. \A i \in 0 .. L : g[i] = IF i = 0 THEN old ELSE PutField(g[i - 1], fields[i][1], fields[i][2])  BY <1>1
  <2>2. g = [i \in 0 .. L |-> g[i]]  BY <1>1
  <2> QED  BY <2>1, <2>2, Zenon
<1>4. c = Def(c)
  <2> HIDE DEF Def
  <2> QED  BY <1>3
<1> HIDE DEF c
<1>5. \A i \in 0 .. L : c[i] = IF i = 0 THEN old ELSE PutField(c[i - 1], fields[i][1], fields[i][2])
  BY <1>4, Zenon
<1> DEFINE P == {k \in 0 .. L : c[k] = g[k]}
<1>6. 0 \in P  BY <1>1, <1>5
<1>7. ASSUME NEW k \in 0 .. L - 1, k \in P PROVE k + 1 \in P
  <2>1. k + 1 \in 0 .. L /\ k + 1 \in 1 .. L /\ k + 1 # 0 /\ (k + 1) - 1 = k  BY <1>1
  <2>2. c[k + 1] = PutField(c[(k + 1) - 1], fields[k + 1][1], fields[k + 1][2])  BY <1>5, <2>1, Zenon
  <2>3. g[k + 1] = PutField(g[(k + 1) - 1], fields[k + 1][1], fields[k + 1][2])  BY <1>1, <2>1, Zenon
  <2>4. c[k] = g[k]  BY <1>7
  <2>5. c[k + 1] = g[k + 1]  BY <2>1, <2>2, <2>3, <2>4, Zenon
  <2> QED  BY <2>1, <2>5
<1>8. 0 .. L \subseteq P
  <2> HIDE DEF P
  <2> QED  BY <1>1, <1>6, <1>7, UpTo
<1>9. c[L] = g[L]  BY <1>1, <1>8
<1> QED  BY <1>2, <1>9 DEF L

\* A batch whose values are all n.
Batch(fields, n) ==
    /\ Len(fields) \in Nat /\ DOMAIN fields = 1 .. Len(fields)
    /\ \A i \in 1 .. Len(fields) : fields[i][1] \in Names /\ fields[i][2] = n

\* A map filled with a batch: within its cap, nothing gone, every field of the
\* batch settled.
LEMMA PutFieldsFacts ==
    ASSUME NEW old \in FieldMaps, NEW n \in Nat, NEW fields, Batch(fields, n)
    PROVE  /\ PutFields(old, fields) \in FieldMaps
           /\ Later(MaxFieldsPerStreamKey, old, PutFields(old, fields), n)
           /\ \A i \in DOMAIN fields : Settled(PutFields(old, fields), fields[i][1], n)
<1> DEFINE L == Len(fields)
           cap == MaxFieldsPerStreamKey
           step == [i \in 1 .. L |-> [fm \in FieldMaps |-> PutField(fm, fields[i][1], fields[i][2])]]
<1>1. /\ L \in Nat /\ DOMAIN fields = 1 .. L /\ cap \in Nat
      /\ \A i \in 1 .. L : fields[i][1] \in Names /\ fields[i][2] = n
  BY StoreCaps DEF Batch
<1> HIDE DEF L
<1>2. \A i \in 1 .. L : \A fm \in FieldMaps : PutField(fm, fields[i][1], fields[i][2]) \in FieldMaps
  BY <1>1, PutFieldFacts
<1>3. Steps(L, FieldMaps, step)  BY <1>2 DEF Steps
<1>4. PICK g \in [0 .. L -> FieldMaps] : g[0] = old /\ \A i \in 1 .. L : g[i] = step[i][g[i - 1]]
  <2> HIDE DEF step
  <2>1. Runs(L, FieldMaps, old, step)  BY <1>1, <1>3, Recursion
  <2> QED  BY <2>1 DEF Runs
<1>5. ASSUME NEW i \in 1 .. L
      PROVE  /\ i - 1 \in 0 .. L /\ i \in 0 .. L /\ g[i - 1] \in FieldMaps /\ g[i] \in FieldMaps
             /\ g[i] = PutField(g[i - 1], fields[i][1], fields[i][2])
  <2>1. i - 1 \in 0 .. L /\ i \in 0 .. L  BY <1>1
  <2>2. g[i - 1] \in FieldMaps /\ g[i] \in FieldMaps /\ g[i] = step[i][g[i - 1]]  BY <1>4, <2>1
  <2> QED  BY <2>1, <2>2
<1> HIDE DEF step
<1>6. PutFields(old, fields) = g[L]
  <2>1. Fills(g, old, fields)  BY <1>4, <1>5 DEF Fills, L
  <2> QED  BY <1>1, <2>1, FillsUnique DEF L
<1>7. ASSUME NEW i \in 1 .. L PROVE Later(cap, g[i - 1], g[i], n) /\ Settled(g[i], fields[i][1], n)
  <2>1. fields[i][1] \in Names /\ g[i - 1] \in FieldMaps /\ g[i] = PutField(g[i - 1], fields[i][1], n)
    BY <1>1, <1>5
  <2> HIDE DEF Names, FieldMaps
  <2> QED  BY <2>1, PutFieldFacts
<1> DEFINE P == {k \in 0 .. L : Later(cap, old, g[k], n) /\ \A i \in 1 .. k : Settled(g[k], fields[i][1], n)}
<1>8. 0 \in P
  <2>1. Later(cap, old, old, n)  BY DEF Later
  <2> QED  BY <1>1, <1>4, <2>1
<1>9. ASSUME NEW k \in 0 .. L - 1, k \in P PROVE k + 1 \in P
  <2>1. k + 1 \in 1 .. L /\ k + 1 \in 0 .. L /\ (k + 1) - 1 = k /\ k \in Nat  BY <1>1
  <2>2. Later(cap, old, g[k], n) /\ \A i \in 1 .. k : Settled(g[k], fields[i][1], n)  BY <1>9
  <2>3. g[k] \in FieldMaps /\ g[k + 1] \in FieldMaps  BY <1>5, <2>1
  <2>4. Later(cap, g[k], g[k + 1], n) /\ Settled(g[k + 1], fields[k + 1][1], n)  BY <1>7, <2>1
  <2>5. IsFiniteSet(DOMAIN g[k])  BY <2>3 DEF FieldMaps, Capped
  <2>6. Later(cap, old, g[k + 1], n)  BY <1>1, <2>2, <2>4, <2>5, LaterThenLater
  <2>7. ASSUME NEW i \in 1 .. k + 1 PROVE Settled(g[k + 1], fields[i][1], n)
    <3>1. CASE i = k + 1  BY <2>4, <3>1
    <3>2. CASE i # k + 1
      <4>1. i \in 1 .. k  BY <2>1, <3>2
      <4>2. Settled(g[k], fields[i][1], n) /\ n <= n  BY <2>2, <4>1
      <4> QED  BY <2>3, <2>4, <4>2, SettledStays
    <3> QED  BY <3>1, <3>2
  <2> QED  BY <2>1, <2>6, <2>7
<1>10. 0 .. L \subseteq P
  <2> HIDE DEF P
  <2> QED  BY <1>1, <1>8, <1>9, UpTo
<1>11. L \in 0 .. L /\ g[L] \in FieldMaps  BY <1>1, <1>4
<1>12. Later(cap, old, g[L], n) /\ \A i \in 1 .. L : Settled(g[L], fields[i][1], n)  BY <1>10, <1>11
<1> QED  BY <1>1, <1>6, <1>11, <1>12

-----------------------------------------------------------------------------
(* The store                                                               *)

\* e is the store d after writes of the value n.
StoreLater(d, e, n) ==
    /\ DOMAIN d \subseteq DOMAIN e
    /\ \A s \in DOMAIN d : Later(MaxFieldsPerStreamKey, d[s], e[s], n)
    /\ \A s \in DOMAIN e \ DOMAIN d : ~Full(MaxStreamKeys, d)

\* Field x of s holds what tick n brought or newer, or there is no room for it.
StoreSettled(d, s, x, n) ==
    IF s \in DOMAIN d THEN Settled(d[s], x, n) ELSE Full(MaxStreamKeys, d)

\* The parts of a store.
LEMMA StoreParts ==
    ASSUME NEW d \in Stores
    PROVE  /\ d \in Partial(Symbols, FieldMaps) /\ Capped(MaxStreamKeys, d) /\ IsFiniteSet(DOMAIN d)
           /\ DOMAIN d \subseteq Symbols /\ \A s \in DOMAIN d : d[s] \in FieldMaps /\ IsFiniteSet(DOMAIN d[s])
<1>1. d \in Partial(Symbols, FieldMaps) /\ Capped(MaxStreamKeys, d)  BY DEF Stores
<1>2. PICK S \in SUBSET Symbols : d \in [S -> FieldMaps]  BY <1>1 DEF Partial
<1>3. DOMAIN d = S /\ \A s \in S : d[s] \in FieldMaps
  <2> HIDE DEF FieldMaps
  <2> QED  BY <1>2
<1> QED  BY <1>1, <1>3 DEF Capped, FieldMaps

\* Writes to the store add up.
LEMMA StoreLaterThenLater ==
    ASSUME NEW a \in Stores, NEW b \in Stores, NEW c \in Stores, NEW n,
           StoreLater(a, b, n), StoreLater(b, c, n)
    PROVE  StoreLater(a, c, n)
<1>1. DOMAIN a \subseteq DOMAIN b /\ DOMAIN b \subseteq DOMAIN c /\ IsFiniteSet(DOMAIN b)  BY StoreParts DEF StoreLater
<1>2. ASSUME NEW s \in DOMAIN a PROVE Later(MaxFieldsPerStreamKey, a[s], c[s], n)
  <2>1. s \in DOMAIN b /\ Later(MaxFieldsPerStreamKey, a[s], b[s], n) /\ Later(MaxFieldsPerStreamKey, b[s], c[s], n)
    BY <1>1 DEF StoreLater
  <2>2. IsFiniteSet(DOMAIN b[s])  BY <2>1, StoreParts
  <2> QED  BY <2>1, <2>2, LaterThenLater, StoreCaps
<1>3. ASSUME NEW s \in DOMAIN c \ DOMAIN a PROVE ~Full(MaxStreamKeys, a)
  <2>1. CASE s \in DOMAIN b  BY <1>3, <2>1 DEF StoreLater
  <2>2. CASE s \notin DOMAIN b
    <3>1. ~Full(MaxStreamKeys, b)  BY <1>3, <2>2 DEF StoreLater
    <3> QED  BY <1>1, <3>1, FullStays, StoreCaps
  <2> QED  BY <2>1, <2>2
<1> QED  BY <1>1, <1>2, <1>3 DEF StoreLater

\* What is settled stays settled.
LEMMA StoreSettledStays ==
    ASSUME NEW d \in Stores, NEW e \in Stores, NEW n \in Nat, NEW m \in Nat, m <= n, NEW s, NEW x,
           StoreLater(d, e, n), StoreSettled(d, s, x, m)
    PROVE  StoreSettled(e, s, x, m)
<1>1. DOMAIN d \subseteq DOMAIN e /\ IsFiniteSet(DOMAIN e)  BY StoreParts DEF StoreLater
<1>2. CASE s \in DOMAIN d
  <2>1. s \in DOMAIN e /\ Later(MaxFieldsPerStreamKey, d[s], e[s], n) /\ Settled(d[s], x, m)
    BY <1>1, <1>2 DEF StoreLater, StoreSettled
  <2>2. d[s] \in FieldMaps /\ e[s] \in FieldMaps  BY <1>2, <2>1, StoreParts
  <2>3. Settled(e[s], x, m)  BY <2>1, <2>2, SettledStays
  <2> QED  BY <2>1, <2>3 DEF StoreSettled
<1>3. CASE s \notin DOMAIN d
  <2>1. Full(MaxStreamKeys, d)  BY <1>3 DEF StoreSettled
  <2>2. s \notin DOMAIN e  BY <1>3, <2>1 DEF StoreLater
  <2>3. Full(MaxStreamKeys, e)  BY <1>1, <2>1, FullStays, StoreCaps
  <2> QED  BY <2>2, <2>3 DEF StoreSettled
<1> QED  BY <1>2, <1>3

\* setBatch() keeps the store within its caps, loses nothing and settles every
\* field of the batch.
LEMMA SetBatchFacts ==
    ASSUME NEW d \in Stores, NEW s \in Symbols, NEW n \in Nat, NEW fields, Batch(fields, n)
    PROVE  /\ SetBatch(d, s, fields) \in Stores
           /\ StoreLater(d, SetBatch(d, s, fields), n)
           /\ \A i \in DOMAIN fields : StoreSettled(SetBatch(d, s, fields), s, fields[i][1], n)
<1> DEFINE e == SetBatch(d, s, fields)
           cap == MaxFieldsPerStreamKey
           old == IF s \in DOMAIN d THEN d[s] ELSE <<>>
           new == PutFields(old, fields)
<1>1. MaxStreamKeys \in Nat /\ cap \in Nat  BY StoreCaps
<1>2. CASE s \notin DOMAIN d /\ Full(MaxStreamKeys, d)
  <2>1. e = d  BY <1>2 DEF SetBatch
  <2>2. StoreLater(d, d, n)  BY DEF StoreLater, Later
  <2> QED  BY <1>2, <2>1, <2>2 DEF StoreSettled
<1>3. CASE s \in DOMAIN d \/ ~Full(MaxStreamKeys, d)
  <2>1. e = Put(d, s, new)  BY <1>3 DEF SetBatch
  <2>2. old \in FieldMaps
    <3>1. CASE s \in DOMAIN d  BY <3>1, StoreParts
    <3>2. CASE s \notin DOMAIN d  BY <1>1, <3>2, NoKeys DEF FieldMaps
    <3> QED  BY <3>1, <3>2
  <2>3. s \in DOMAIN d => old = d[s]  OBVIOUS
  <2> HIDE DEF old
  <2>4. new \in FieldMaps /\ Later(cap, old, new, n) /\ \A i \in DOMAIN fields : Settled(new, fields[i][1], n)
    BY <2>2, PutFieldsFacts
  <2> HIDE DEF new
  <2>5. d \in Partial(Symbols, FieldMaps) /\ Capped(MaxStreamKeys, d)  BY StoreParts
  <2>6. Put(d, s, new) \in Partial(Symbols, FieldMaps) /\ Capped(MaxStreamKeys, Put(d, s, new))
    <3> HIDE DEF FieldMaps
    <3> QED  BY <1>1, <1>3, <2>4, <2>5, PutFacts, PutCapped
  <2>7. DOMAIN e = DOMAIN d \cup {s} /\ e[s] = new /\ \A x \in DOMAIN d : x # s => e[x] = d[x]
    <3> HIDE DEF FieldMaps, e
    <3> QED  BY <2>1 DEF Put
  <2>8. e \in Stores  BY <2>1, <2>6 DEF Stores
  <2> HIDE DEF e
  <2>9. ASSUME NEW x \in DOMAIN d PROVE Later(cap, d[x], e[x], n)
    <3>1. CASE x = s  BY <2>3, <2>4, <2>7, <3>1
    <3>2. CASE x # s  BY <2>7, <3>2 DEF Later
    <3> QED  BY <3>1, <3>2
  <2>10. StoreLater(d, e, n)  BY <1>3, <2>7, <2>9 DEF StoreLater
  <2>11. \A i \in DOMAIN fields : StoreSettled(e, s, fields[i][1], n)  BY <2>4, <2>7 DEF StoreSettled
  <2> QED  BY <2>8, <2>10, <2>11 DEF e
<1> QED  BY <1>2, <1>3

-----------------------------------------------------------------------------
(* What a tick does to the store                                           *)

\* The names are those of the results, and a computation's writes are a batch.
LEMMA ResultFacts ==
    ASSUME NEW h, NEW n \in Nat
    PROVE  LET r == ResultKeys(h)
           IN  Batch([i \in DOMAIN r |-> <<r[i], n>>], n)
<1> DEFINE r == ResultKeys(h)
           b == [i \in DOMAIN r |-> <<r[i], n>>]
           all == [i \in DOMAIN Indicators |-> Indicators[i].key]
           late == {all[i] : i \in {j \in DOMAIN all : Indicators[j].depth > Len(h)}}
<1>1. r \in Seq(Names)
  <2>1. CASE TaEnabled
    <3>1. r = Without(all, late)  BY <2>1 DEF ResultKeys, AllAtomicValues
    <3>2. all \in Seq(Names)
      <4>1. DOMAIN Indicators = 1 .. Len(Indicators) /\ Len(Indicators) \in Nat
        <5> DEFINE S == {Indicators[i] : i \in DOMAIN Indicators}
        <5>1. Indicators \in Seq(S)  BY HistoryCaps
        <5> HIDE DEF S
        <5> QED  BY <5>1
      <4>2. \A i \in DOMAIN Indicators : Indicators[i].key \in Names  BY DEF Names, KeySet
      <4> HIDE DEF Names
      <4>3. all \in [1 .. Len(Indicators) -> Names]  BY <4>1, <4>2
      <4> QED  BY <4>1, <4>3
    <3> HIDE DEF all, late, Names, r
    <3> QED  BY <3>1, <3>2, WithoutFacts
  <2>2. CASE ~TaEnabled
    <3>1. r = LightKeys  BY <2>2 DEF ResultKeys
    <3> DEFINE S == {LightKeys[i] : i \in DOMAIN LightKeys}
    <3>2. LightKeys \in Seq(S) /\ S \subseteq Names  BY HistoryCaps DEF Names
    <3> HIDE DEF S, Names
    <3> QED  BY <3>1, <3>2
  <2> QED  BY <2>1, <2>2
<1> HIDE DEF r, Names
<1>2. DOMAIN r = 1 .. Len(r) /\ Len(r) \in Nat /\ \A i \in DOMAIN r : r[i] \in Names  BY <1>1
<1>3. b \in [1 .. Len(r) -> Names \X {n}]  BY <1>2
<1>4. DOMAIN b = 1 .. Len(r) /\ Len(b) = Len(r)  BY <1>2, <1>3
<1>5. \A i \in 1 .. Len(r) : b[i][1] \in Names /\ b[i][2] = n  BY <1>2
<1> HIDE DEF b
<1>6. Batch(b, n)  BY <1>2, <1>4, <1>5 DEF Batch
<1> QED  BY <1>6 DEF b, r

\* The result lastPrice is always computed, and no builtin has the name of a
\* price: what computeAllAtomicValues and the lightweight path write first.
PriceIsResult ==
    /\ PriceFields \cap Builtins = {}
    /\ IF TaEnabled
       THEN \E i \in DOMAIN Indicators : Indicators[i].key = "lastPrice" /\ Indicators[i].depth = 1
       ELSE \E i \in DOMAIN LightKeys : LightKeys[i] = "lastPrice"

\* It is among the results of every history that is not empty.
LEMMA PriceResult ==
    ASSUME PriceIsResult, NEW h, Len(h) \in Nat \ {0}
    PROVE  \E i \in DOMAIN ResultKeys(h) : ResultKeys(h)[i] = "lastPrice"
<1> DEFINE all == [i \in DOMAIN Indicators |-> Indicators[i].key]
           late == {all[i] : i \in {j \in DOMAIN all : Indicators[j].depth > Len(h)}}
<1>1. CASE TaEnabled
  <2>1. ResultKeys(h) = Without(all, late)  BY <1>1 DEF ResultKeys, AllAtomicValues
  <2>2. PICK i \in DOMAIN Indicators : Indicators[i].key = "lastPrice" /\ Indicators[i].depth = 1
    BY <1>1 DEF PriceIsResult
  <2>3. i \in DOMAIN all /\ all[i] = "lastPrice"  BY <2>2
  <2>4. all[i] \notin late
    <3> SUFFICES ASSUME NEW j \in DOMAIN Indicators, all[j] = all[i], Indicators[j].depth > Len(h) PROVE FALSE
      OBVIOUS
    <3>1. j = i  BY HistoryCaps
    <3> QED  BY <2>2, <3>1
  <2>5. all \in Seq(KeySet)
    <3>1. DOMAIN Indicators = 1 .. Len(Indicators) /\ Len(Indicators) \in Nat
      <4> DEFINE S == {Indicators[k] : k \in DOMAIN Indicators}
      <4>1. Indicators \in Seq(S)  BY HistoryCaps
      <4> HIDE DEF S
      <4> QED  BY <4>1
    <3>2. all \in [1 .. Len(Indicators) -> KeySet]  BY <3>1 DEF KeySet
    <3> HIDE DEF all
    <3> QED  BY <3>1, <3>2
  <2> HIDE DEF all, late
  <2>6. \E j \in DOMAIN Without(all, late) : Without(all, late)[j] = all[i]
    <3>1. \A k \in DOMAIN all : all[k] \notin late => \E j \in DOMAIN Without(all, late) : Without(all, late)[j] = all[k]
      BY <2>5, WithoutFacts
    <3> QED  BY <2>3, <2>4, <3>1, Zenon
  <2> QED  BY <2>1, <2>3, <2>6
<1>2. CASE ~TaEnabled  BY <1>2 DEF PriceIsResult, ResultKeys
<1> QED  BY <1>1, <1>2

\* A bounded deque after a push.
LEMMA PushFacts ==
    ASSUME NEW S, NEW h \in Seq(S), Len(h) <= MaxHistory, NEW x \in S
    PROVE  PushBounded(h, x) \in Seq(S) /\ Len(PushBounded(h, x)) \in 1 .. MaxHistory
<1> DEFINE all == Append(h, x)
<1>1. MaxHistory \in Nat \ {0} /\ Len(h) \in Nat  BY HistoryCaps
<1>2. all \in Seq(S) /\ Len(all) = Len(h) + 1 /\ all # <<>>  OBVIOUS
<1>3. Tail(all) \in Seq(S) /\ Len(Tail(all)) = Len(h)  BY <1>2
<1>4. PushBounded(h, x) = IF Len(all) > MaxHistory THEN Tail(all) ELSE all  BY DEF PushBounded
<1> HIDE DEF all
<1>5. CASE Len(all) > MaxHistory  BY <1>1, <1>2, <1>3, <1>4, <1>5
<1>6. CASE ~(Len(all) > MaxHistory)  BY <1>1, <1>2, <1>4, <1>6
<1> QED  BY <1>5, <1>6

\* The quotes are a batch of their own.
LEMMA QuotesFacts ==
    ASSUME NEW d \in Stores, NEW tk, tk.sym \in Symbols, tk.n \in Nat
    PROVE  StoreQuotes(d, tk) \in Stores /\ StoreLater(d, StoreQuotes(d, tk), tk.n)
<1> DEFINE n == tk.n
           hasBid == BidField \in tk.num
           hasAsk == AskField \in tk.num
           quotes == (IF hasBid THEN <<(<<"bid", n>>)>> ELSE <<>>)
                     \o (IF hasAsk THEN <<(<<"ask", n>>)>> ELSE <<>>)
                     \o (IF hasBid /\ hasAsk THEN <<(<<"spread", n>>)>> ELSE <<>>)
           S == Names \X {n}
<1>1. <<"bid", n>> \in S /\ <<"ask", n>> \in S /\ <<"spread", n>> \in S  BY DEF Names
<1>2. quotes \in Seq(S)
  <2> HIDE DEF S
  <2>1. <<(<<"bid", n>>)>> \in Seq(S) /\ <<(<<"ask", n>>)>> \in Seq(S) /\ <<(<<"spread", n>>)>> \in Seq(S)
        /\ <<>> \in Seq(S)
    BY <1>1
  <2>2. \A a, b, c \in Seq(S) : a \o b \o c \in Seq(S)  OBVIOUS
  <2> DEFINE A == IF hasBid THEN <<(<<"bid", n>>)>> ELSE <<>>
             B == IF hasAsk THEN <<(<<"ask", n>>)>> ELSE <<>>
             C == IF hasBid /\ hasAsk THEN <<(<<"spread", n>>)>> ELSE <<>>
  <2>3. A \in Seq(S) /\ B \in Seq(S) /\ C \in Seq(S)  BY <2>1
  <2>4. quotes = A \o B \o C  OBVIOUS
  <2> HIDE DEF A, B, C, quotes
  <2> QED  BY <2>2, <2>3, <2>4
<1>3. StoreQuotes(d, tk) = IF quotes = <<>> THEN d ELSE SetBatch(d, tk.sym, quotes)  BY DEF StoreQuotes
<1> HIDE DEF quotes
<1>4. Batch(quotes, n)
  <2>1. Len(quotes) \in Nat /\ DOMAIN quotes = 1 .. Len(quotes) /\ \A i \in 1 .. Len(quotes) : quotes[i] \in S
    <3> HIDE DEF S
    <3> QED  BY <1>2
  <2> QED  BY <2>1 DEF Batch
<1>5. SetBatch(d, tk.sym, quotes) \in Stores /\ StoreLater(d, SetBatch(d, tk.sym, quotes), n)
  <2> HIDE DEF Stores
  <2> QED  BY <1>4, SetBatchFacts
<1>6. StoreLater(d, d, n)  BY DEF StoreLater, Later
<1> QED  BY <1>3, <1>5, <1>6

\* The computer's histories; and the Dispatcher's, with their caps.
Deques == {q \in Seq(Nat) : Len(q) <= MaxHistory}
TaHists == {h \in Partial(Symbols, Deques) : Capped(MaxSymbols, h)}
FieldHists == {h \in Partial(Fields, Deques) : Capped(MaxFieldsPerSymbol, h)}
Hists == {h \in Partial(Symbols, FieldHists) : Capped(MaxSymbols, h)}

\* A push on the history of k, which may be new.
LEMMA PushedDeque ==
    ASSUME NEW D, NEW h \in Partial(D, Deques), NEW k, NEW n \in Nat
    PROVE  PushBounded(HistOf(h, k), n) \in Deques /\ Len(PushBounded(HistOf(h, k), n)) \in Nat \ {0}
<1> DEFINE q == HistOf(h, k)
<1>1. q \in Seq(Nat) /\ Len(q) <= MaxHistory
  <2>1. PICK S \in SUBSET D : h \in [S -> Deques]  BY DEF Partial
  <2>2. \A x \in DOMAIN h : h[x] \in Deques
    <3> HIDE DEF Deques
    <3> QED  BY <2>1
  <2>3. CASE k \in DOMAIN h  BY <2>2, <2>3 DEF HistOf, Deques
  <2>4. CASE k \notin DOMAIN h
    <3>1. q = <<>> /\ <<>> \in Seq(Nat) /\ Len(<<>>) = 0  BY <2>4 DEF HistOf
    <3> QED  BY <3>1, HistoryCaps
  <2> QED  BY <2>3, <2>4
<1> HIDE DEF q
<1>2. PushBounded(q, n) \in Seq(Nat) /\ Len(PushBounded(q, n)) \in 1 .. MaxHistory  BY <1>1, PushFacts
<1>3. MaxHistory \in Nat  BY HistoryCaps
<1> QED  BY <1>2, <1>3 DEF Deques, q

\* compute(): the store stays within its caps and loses nothing; a tick with a
\* price leaves lastPrice settled, unless the computer has no room for its
\* symbol and never will.
LEMMA ComputeFacts ==
    ASSUME NEW d \in Stores, NEW hist \in TaHists, NEW tk, tk.sym \in Symbols, tk.n \in Nat
    PROVE  LET r == Compute(d, hist, tk)
           IN  /\ r.store \in Stores /\ StoreLater(d, r.store, tk.n)
               /\ r.hist \in TaHists /\ DOMAIN hist \subseteq DOMAIN r.hist
               /\ \A s \in DOMAIN r.hist \ DOMAIN hist : ~Full(MaxSymbols, hist)
               /\ ~HasPrice(tk) => r.keys = <<>>
               /\ PriceIsResult /\ HasPrice(tk) =>
                     \/ tk.sym \notin DOMAIN r.hist /\ Full(MaxSymbols, r.hist)
                     \/ StoreSettled(r.store, tk.sym, "lastPrice", tk.n)
<1> DEFINE r == Compute(d, hist, tk)
           s == tk.sym
           n == tk.n
           q == StoreQuotes(d, tk)
           h == PushBounded(HistOf(hist, s), n)
           res == ResultKeys(h)
           b == [i \in DOMAIN res |-> <<res[i], n>>]
<1>0. MaxSymbols \in Nat /\ MaxSymbols > 0  BY HistoryCaps
<1>1. StoreLater(d, d, n)  BY DEF StoreLater, Later
<1>2. q \in Stores /\ StoreLater(d, q, n)  BY QuotesFacts
<1>3. hist \in Partial(Symbols, Deques) /\ Capped(MaxSymbols, hist)  BY DEF TaHists
<1>4. SymbolCapped(hist, s) <=> s \notin DOMAIN hist /\ Full(MaxSymbols, hist)
  BY <1>0 DEF SymbolCapped, Full
<1>5. CASE ~HasPrice(tk)
  <2>1. r.store = d /\ r.hist = hist /\ r.keys = <<>>  BY <1>5 DEF Compute
  <2> HIDE DEF r
  <2>2. Compute(d, hist, tk) = r  BY DEF r
  <2> QED  BY <1>1, <1>5, <2>1, <2>2
<1>6. CASE HasPrice(tk) /\ SymbolCapped(hist, s)
  <2>1. r.store = q /\ r.hist = hist /\ r.keys = <<>>  BY <1>6 DEF Compute
  <2> HIDE DEF r, q
  <2>2. Compute(d, hist, tk) = r  BY DEF r
  <2> QED  BY <1>2, <1>4, <1>6, <2>1, <2>2
<1>7. CASE HasPrice(tk) /\ ~SymbolCapped(hist, s)
  <2>1. r.store = SetBatch(q, s, b) /\ r.hist = Put(hist, s, h)  BY <1>7 DEF Compute
  <2>2. h \in Deques /\ Len(h) \in Nat \ {0}  BY <1>3, PushedDeque
  <2> HIDE DEF h, q
  <2>3. Batch(b, n)  BY ResultFacts
  <2>4. PriceIsResult => \E i \in DOMAIN b : b[i][1] = "lastPrice"
    <3> SUFFICES ASSUME PriceIsResult PROVE \E i \in DOMAIN b : b[i][1] = "lastPrice"  OBVIOUS
    <3>1. PICK i \in DOMAIN res : res[i] = "lastPrice"  BY <2>2, PriceResult
    <3> HIDE DEF res
    <3>2. i \in DOMAIN b /\ b[i][1] = "lastPrice"  BY <3>1
    <3> QED  BY <3>2
  <2> HIDE DEF b
  <2> DEFINE e == SetBatch(q, s, b)
  <2>5. e \in Stores /\ StoreLater(q, e, n) /\ \A i \in DOMAIN b : StoreSettled(e, s, b[i][1], n)
    BY <1>2, <2>3, SetBatchFacts
  <2> HIDE DEF e
  <2>6. StoreLater(d, e, n)  BY <1>2, <2>5, StoreLaterThenLater
  <2>7. s \in DOMAIN hist \/ ~Full(MaxSymbols, hist)  BY <1>4, <1>7
  <2> HIDE DEF Deques
  <2>8. Put(hist, s, h) \in TaHists
    <3>1. Put(hist, s, h) \in Partial(Symbols, Deques)  BY <1>3, <2>2, PutFacts
    <3>2. Capped(MaxSymbols, Put(hist, s, h))  BY <1>0, <1>3, <2>2, <2>7, PutCapped
    <3> QED  BY <3>1, <3>2 DEF TaHists
  <2>9. DOMAIN Put(hist, s, h) = DOMAIN hist \cup {s}  BY DEF Put
  <2> HIDE DEF r
  <2>10. Compute(d, hist, tk) = r /\ r.store = e /\ r.hist = Put(hist, s, h)  BY <2>1 DEF r, e
  <2>11. PriceIsResult => StoreSettled(e, s, "lastPrice", n)  BY <2>4, <2>5
  <2> QED  BY <1>7, <2>5, <2>6, <2>7, <2>8, <2>9, <2>10, <2>11
<1> QED  BY <1>5, <1>6, <1>7

\* set() is a batch of one.
LEMMA SetFacts ==
    ASSUME NEW d \in Stores, NEW s \in Symbols, NEW x \in Names, NEW n \in Nat
    PROVE  Set(d, s, x, n) \in Stores /\ StoreLater(d, Set(d, s, x, n), n)
<1> DEFINE b == <<(<<x, n>>)>>
<1>1. Len(b) = 1 /\ DOMAIN b = 1 .. 1 /\ b[1] = <<x, n>>  OBVIOUS
<1>2. Set(d, s, x, n) = SetBatch(d, s, b)  BY DEF Set
<1> HIDE DEF b, Names, Stores
<1>3. Batch(b, n)
  <2>1. \A i \in 1 .. 1 : b[i] = <<x, n>>  BY <1>1
  <2>2. \A i \in 1 .. 1 : b[i][1] \in Names /\ b[i][2] = n  BY <2>1
  <2> QED  BY <1>1, <2>2 DEF Batch
<1> QED  BY <1>2, <1>3, SetBatchFacts

\* One turn of the loop over the builtins.
SetBuiltin(d, i) ==
    IF FieldSeq[i] \in Evaluated THEN Set(d, tick.sym, FieldSeq[i], tick.n) ELSE d

\* g holds the store after each turn.
Sets(g, d) ==
    /\ g \in [0 .. Len(FieldSeq) -> Stores] /\ g[0] = d
    /\ \A i \in 1 .. Len(FieldSeq) : g[i] = SetBuiltin(g[i - 1], i)

\* Whatever runs the loop ends at StoreBuiltins.
LEMMA SetsUnique ==
    ASSUME NEW d, Len(FieldSeq) \in Nat, NEW g, Sets(g, d)
    PROVE  StoreBuiltins(d) = g[Len(FieldSeq)]
<1> DEFINE L == Len(FieldSeq)
           Def(h) == [i \in 0 .. L |-> IF i = 0 THEN d ELSE SetBuiltin(h[i - 1], i)]
           c == CHOOSE h : h = Def(h)
<1>1. /\ L \in Nat /\ g \in [0 .. L -> Stores] /\ g[0] = d
      /\ \A i \in 1 .. L : g[i] = SetBuiltin(g[i - 1], i)
  BY DEF Sets
<1>2. StoreBuiltins(d) = c[L]  BY DEF StoreBuiltins, SetBuiltin
<1> HIDE DEF L
<1>3. g = Def(g)
  <2>1. \A i \in 0 .. L : g[i] = IF i = 0 THEN d ELSE SetBuiltin(g[i - 1], i)  BY <1>1
  <2>2. g = [i \in 0 .. L |-> g[i]]  BY <1>1
  <2> QED  BY <2>1, <2>2, Zenon
<1>4. c = Def(c)
  <2> HIDE DEF Def
  <2> QED  BY <1>3
<1> HIDE DEF c
<1>5. \A i \in 0 .. L : c[i] = IF i = 0 THEN d ELSE SetBuiltin(c[i - 1], i)  BY <1>4, Zenon
<1> DEFINE P == {k \in 0 .. L : c[k] = g[k]}
<1>6. 0 \in P  BY <1>1, <1>5
<1>7. ASSUME NEW k \in 0 .. L - 1, k \in P PROVE k + 1 \in P
  <2>1. k + 1 \in 0 .. L /\ k + 1 \in 1 .. L /\ k + 1 # 0 /\ (k + 1) - 1 = k  BY <1>1
  <2>2. c[k + 1] = SetBuiltin(c[(k + 1) - 1], k + 1)  BY <1>5, <2>1, Zenon
  <2>3. g[k + 1] = SetBuiltin(g[(k + 1) - 1], k + 1)  BY <1>1, <2>1, Zenon
  <2>4. c[k] = g[k]  BY <1>7
  <2>5. c[k + 1] = g[k + 1]  BY <2>1, <2>2, <2>3, <2>4, Zenon
  <2> QED  BY <2>1, <2>5
<1>8. 0 .. L \subseteq P
  <2> HIDE DEF P
  <2> QED  BY <1>1, <1>6, <1>7, UpTo
<1>9. c[L] = g[L]  BY <1>1, <1>8
<1> QED  BY <1>2, <1>9 DEF L

\* computeAndStoreAtomics() keeps the store within its caps and loses nothing.
LEMMA BuiltinsFacts ==
    ASSUME NEW d \in Stores, tick.sym \in Symbols, tick.n \in Nat
    PROVE  StoreBuiltins(d) \in Stores /\ StoreLater(d, StoreBuiltins(d), tick.n)
<1> DEFINE L == Len(FieldSeq)
           n == tick.n
           step == [i \in 1 .. L |-> [e \in Stores |-> SetBuiltin(e, i)]]
<1>1. L \in Nat /\ DOMAIN FieldSeq = 1 .. L
  <2> DEFINE S == {FieldSeq[i] : i \in DOMAIN FieldSeq}
  <2>1. FieldSeq \in Seq(S)  BY DispatcherAssumption
  <2> HIDE DEF S
  <2> QED  BY <2>1
<1> HIDE DEF L
<1>2. ASSUME NEW i \in 1 .. L, NEW e \in Stores
      PROVE  SetBuiltin(e, i) \in Stores /\ StoreLater(e, SetBuiltin(e, i), n)
  <2>1. FieldSeq[i] \in Names  BY <1>1 DEF Names, Fields
  <2>2. StoreLater(e, e, n)  BY DEF StoreLater, Later
  <2> HIDE DEF Names, Stores
  <2> QED  BY <2>1, <2>2, SetFacts DEF SetBuiltin
<1> HIDE DEF Stores
<1>3. Steps(L, Stores, step)  BY <1>2 DEF Steps
<1>4. PICK g \in [0 .. L -> Stores] : g[0] = d /\ \A i \in 1 .. L : g[i] = step[i][g[i - 1]]
  <2> HIDE DEF step
  <2>1. Runs(L, Stores, d, step)  BY <1>1, <1>3, Recursion
  <2> QED  BY <2>1 DEF Runs
<1>5. ASSUME NEW i \in 1 .. L
      PROVE  g[i - 1] \in Stores /\ g[i] \in Stores /\ g[i] = SetBuiltin(g[i - 1], i)
  <2>1. i - 1 \in 0 .. L /\ i \in 0 .. L  BY <1>1
  <2>2. g[i - 1] \in Stores /\ g[i] \in Stores /\ g[i] = step[i][g[i - 1]]  BY <1>4, <2>1
  <2> QED  BY <2>1, <2>2
<1> HIDE DEF step
<1>6. StoreBuiltins(d) = g[L]
  <2>1. Sets(g, d)  BY <1>4, <1>5 DEF Sets, L
  <2> QED  BY <1>1, <2>1, SetsUnique DEF L
<1> DEFINE P == {k \in 0 .. L : StoreLater(d, g[k], n)}
<1>7. 0 \in P
  <2>1. StoreLater(d, d, n)  BY DEF StoreLater, Later
  <2> QED  BY <1>1, <1>4, <2>1
<1>8. ASSUME NEW k \in 0 .. L - 1, k \in P PROVE k + 1 \in P
  <2>1. k + 1 \in 1 .. L /\ k + 1 \in 0 .. L /\ (k + 1) - 1 = k  BY <1>1
  <2>2. g[k] \in Stores /\ g[k + 1] \in Stores /\ g[k + 1] = SetBuiltin(g[k], k + 1)  BY <1>5, <2>1
  <2>3. StoreLater(g[k], g[k + 1], n)  BY <1>2, <2>1, <2>2
  <2>4. StoreLater(d, g[k], n)  BY <1>8
  <2>5. StoreLater(d, g[k + 1], n)  BY <2>2, <2>3, <2>4, StoreLaterThenLater
  <2> QED  BY <2>1, <2>5
<1>9. 0 .. L \subseteq P
  <2> HIDE DEF P
  <2> QED  BY <1>1, <1>7, <1>8, UpTo
<1>10. L \in 0 .. L /\ g[L] \in Stores  BY <1>1, <1>4
<1> QED  BY <1>6, <1>9, <1>10

\* The raw value joins the history of its field.
LEMMA PushedHists ==
    ASSUME NEW h \in Hists, NEW s \in Symbols, NEW f \in Fields, NEW n \in Nat,
           s \in DOMAIN h \/ Cardinality(DOMAIN h) < MaxSymbols,
           s \in DOMAIN h => f \in DOMAIN h[s] \/ Cardinality(DOMAIN h[s]) < MaxFieldsPerSymbol
    PROVE  Put(h, s, Put(HistOf(h, s), f, PushBounded(HistOf(HistOf(h, s), f), n))) \in Hists
<1> DEFINE old == HistOf(h, s)
           q == PushBounded(HistOf(old, f), n)
           new == Put(old, f, q)
<1>1. MaxSymbols \in Nat \ {0} /\ MaxFieldsPerSymbol \in Nat \ {0}  BY HistoryCaps, DispatcherAssumption
<1>2. h \in Partial(Symbols, FieldHists) /\ Capped(MaxSymbols, h)  BY DEF Hists
<1>3. \A x \in DOMAIN h : h[x] \in FieldHists
  <2>1. PICK S \in SUBSET Symbols : h \in [S -> FieldHists]  BY <1>2 DEF Partial
  <2> HIDE DEF FieldHists
  <2> QED  BY <2>1
<1>4. old \in Partial(Fields, Deques) /\ Capped(MaxFieldsPerSymbol, old)
  <2>1. CASE s \in DOMAIN h
    <3>1. old = h[s] /\ h[s] \in FieldHists  BY <1>3, <2>1 DEF HistOf
    <3> HIDE DEF old
    <3> QED  BY <3>1 DEF FieldHists
  <2>2. CASE s \notin DOMAIN h
    <3>1. old = <<>>  BY <2>2 DEF HistOf
    <3> HIDE DEF old
    <3> QED  BY <1>1, <3>1, NoKeys
  <2> QED  BY <2>1, <2>2
<1>5. f \in DOMAIN old \/ ~Full(MaxFieldsPerSymbol, old)
  <2>1. CASE s \in DOMAIN h
    <3>1. old = h[s]  BY <2>1 DEF HistOf
    <3> HIDE DEF old
    <3>2. IsFiniteSet(DOMAIN old)  BY <1>4 DEF Capped
    <3>3. Cardinality(DOMAIN old) \in Nat  BY <3>2, FS_CardinalityType
    <3> QED  BY <1>1, <2>1, <3>1, <3>3 DEF Full
  <2>2. CASE s \notin DOMAIN h
    <3>1. old = <<>> /\ DOMAIN <<>> = {} /\ Cardinality({}) = 0  BY <2>2, FS_EmptySet DEF HistOf
    <3> HIDE DEF old
    <3> QED  BY <1>1, <3>1 DEF Full
  <2> QED  BY <2>1, <2>2
<1>6. q \in Deques  BY <1>4, PushedDeque
<1> HIDE DEF old, q, Deques
<1>7. new \in FieldHists
  <2>1. new \in Partial(Fields, Deques)  BY <1>4, <1>6, PutFacts
  <2>2. Capped(MaxFieldsPerSymbol, new)  BY <1>1, <1>4, <1>5, <1>6, PutCapped
  <2> QED  BY <2>1, <2>2 DEF FieldHists
<1>8. s \in DOMAIN h \/ ~Full(MaxSymbols, h)
  <2>1. IsFiniteSet(DOMAIN h)  BY <1>2 DEF Capped
  <2>2. Cardinality(DOMAIN h) \in Nat  BY <2>1, FS_CardinalityType
  <2> QED  BY <1>1, <2>2 DEF Full
<1> HIDE DEF new, FieldHists
<1>9. Put(h, s, new) \in Partial(Symbols, FieldHists)  BY <1>2, <1>7, PutFacts
<1>10. Capped(MaxSymbols, Put(h, s, new))  BY <1>1, <1>2, <1>7, <1>8, PutCapped
<1> QED  BY <1>9, <1>10 DEF Hists, new, q, old

\* The store and both kinds of history, each within its caps.
CapInv == store \in Stores /\ hists \in Hists /\ taHist \in TaHists

\* What a step can do to them: only compute() and the builtins write the store,
\* with the tick in hand.
LEMMA CapStep ==
    ASSUME TypeInv, CapInv, [Next]_vars
    PROVE  /\ CapInv'
           /\ \/ UNCHANGED <<store, taHist>>
              \/ /\ pc # "idle" /\ StoreLater(store, store', ticks)
                 /\ DOMAIN taHist \subseteq DOMAIN taHist'
                 /\ \A s \in DOMAIN taHist' \ DOMAIN taHist : ~Full(MaxSymbols, taHist)
<1> DEFINE Goal == /\ CapInv'
                   /\ \/ UNCHANGED <<store, taHist>>
                      \/ /\ pc # "idle" /\ StoreLater(store, store', ticks)
                         /\ DOMAIN taHist \subseteq DOMAIN taHist'
                         /\ \A s \in DOMAIN taHist' \ DOMAIN taHist : ~Full(MaxSymbols, taHist)
<1>0. store \in Stores /\ hists \in Hists /\ taHist \in TaHists  BY DEF CapInv
<1>1. ASSUME pc # "idle" PROVE tick.sym \in Symbols /\ tick.n = ticks /\ ticks \in Nat
  BY <1>1, DispatcherAssumption DEF TypeInv, FeedTypes
<1>2. ASSUME UNCHANGED <<store, hists, taHist>> PROVE Goal  BY <1>0, <1>2 DEF CapInv
<1>3. CASE RunComputers
  <2> DEFINE r == Compute(store, taHist, tick)
  <2>1. pc = "compute" /\ store' = r.store /\ taHist' = r.hist /\ hists' = hists  BY <1>3 DEF RunComputers
  <2>2. tick.sym \in Symbols /\ tick.n = ticks /\ ticks \in Nat  BY <1>1, <2>1
  <2>3. /\ r.store \in Stores /\ StoreLater(store, r.store, tick.n)
        /\ r.hist \in TaHists /\ DOMAIN taHist \subseteq DOMAIN r.hist
        /\ \A s \in DOMAIN r.hist \ DOMAIN taHist : ~Full(MaxSymbols, taHist)
    <3> HIDE DEF Stores, TaHists
    <3> QED  BY <1>0, <2>2, ComputeFacts
  <2> HIDE DEF r, Stores, Hists, TaHists
  <2> QED  BY <1>0, <2>1, <2>2, <2>3 DEF CapInv
<1>4. CASE PushHistory
  <2> DEFINE s == tick.sym
             f == Head(todo)[1]
             old == HistOf(hists, s)
  <2>1. pc = "pairs" /\ todo # <<>> /\ UNCHANGED <<store, taHist>> /\ ~FieldCapped(s, f)
        /\ hists' = Put(hists, s, Put(old, f, PushBounded(HistOf(old, f), tick.n)))
    BY <1>4 DEF PushHistory
  <2>2. s \in Symbols /\ tick.n \in Nat  BY <1>1, <2>1
  <2>3. f \in Fields
    <3> DEFINE S == Fields \X Listeners
    <3>1. todo \in Seq(S)  BY TypeParts
    <3>2. Head(todo) \in S
      <4> HIDE DEF S
      <4> QED  BY <2>1, <3>1
    <3> QED  BY <3>2
  <2>4. MaxSymbols \in Nat /\ MaxFieldsPerSymbol \in Nat  BY HistoryCaps, DispatcherAssumption
  <2>5. /\ IsFiniteSet(DOMAIN hists) /\ \A x \in DOMAIN hists : IsFiniteSet(DOMAIN hists[x])
    <3>1. hists \in Partial(Symbols, FieldHists) /\ IsFiniteSet(DOMAIN hists)  BY <1>0 DEF Hists, Capped
    <3>2. PICK S \in SUBSET Symbols : hists \in [S -> FieldHists]  BY <3>1 DEF Partial
    <3>3. \A x \in DOMAIN hists : hists[x] \in FieldHists
      <4> HIDE DEF FieldHists
      <4> QED  BY <3>2
    <3> QED  BY <3>1, <3>3 DEF FieldHists, Capped
  <2>6. Cardinality(DOMAIN hists) \in Nat /\ \A x \in DOMAIN hists : Cardinality(DOMAIN hists[x]) \in Nat
    BY <2>5, FS_CardinalityType
  <2>7. s \in DOMAIN hists \/ Cardinality(DOMAIN hists) < MaxSymbols
    BY <2>1, <2>4, <2>6 DEF FieldCapped
  <2>8. s \in DOMAIN hists => f \in DOMAIN hists[s] \/ Cardinality(DOMAIN hists[s]) < MaxFieldsPerSymbol
    BY <2>1, <2>4, <2>6 DEF FieldCapped
  <2> HIDE DEF Hists, s, f
  <2>9. hists' \in Hists  BY <1>0, <2>1, <2>2, <2>3, <2>7, <2>8, PushedHists DEF s
  <2> HIDE DEF Stores, TaHists
  <2> QED  BY <1>0, <2>1, <2>9 DEF CapInv
<1>5. CASE Fanout
  <2>1. pc = "fanout" /\ store' = StoreBuiltins(store) /\ UNCHANGED <<hists, taHist>>  BY <1>5 DEF Fanout
  <2>2. tick.sym \in Symbols /\ tick.n = ticks /\ ticks \in Nat  BY <1>1, <2>1
  <2> HIDE DEF Stores, Hists, TaHists
  <2>3. store' \in Stores /\ StoreLater(store, store', tick.n)  BY <1>0, <2>1, <2>2, BuiltinsFacts
  <2> QED  BY <1>0, <2>1, <2>2, <2>3 DEF CapInv
<1>6. CASE \E e \in Events : BeginTick(e)  BY <1>2, <1>6 DEF BeginTick
<1>7. CASE NotifyListeners \/ Collect \/ SkipPair \/ EndTick
  BY <1>2, <1>7 DEF NotifyListeners, Collect, SkipPair, EndTick
<1>8. CASE \E l \in Listeners : LifeStep(l)
  BY <1>2, <1>8 DEF LifeStep, Create, ShutdownBegin, Unregister, ResetDownstream, feedVars
<1>9. CASE \E w \in Workers : WorkerStep(w)
  BY <1>2, <1>9 DEF WorkerStep, Take, ListenerForward, Deliver, feedVars
<1>10. CASE UNCHANGED vars  BY <1>2, <1>10 DEF vars
<1> QED  BY <1>3, <1>4, <1>5, <1>6, <1>7, <1>8, <1>9, <1>10 DEF Next, FeedStep

\* They start without a key.
LEMMA InitCaps == Init => CapInv
<1> SUFFICES ASSUME Init PROVE CapInv  OBVIOUS
<1>1. store = <<>> /\ hists = <<>> /\ taHist = <<>>  BY DEF Init, EmptyStore
<1>2. MaxSymbols \in Nat /\ MaxStreamKeys \in Nat  BY HistoryCaps, StoreCaps
<1>3. <<>> \in Stores /\ <<>> \in Hists /\ <<>> \in TaHists
  BY <1>2, NoKeys DEF Stores, Hists, TaHists
<1> QED  BY <1>1, <1>3 DEF CapInv

\* The store never holds more stream keys or fields per key than its caps, nor
\* the histories more symbols, fields and values than theirs, through the
\* computer, the quotes, the builtins and the raw path of onTick.
THEOREM CapsTheorem == Spec => []WithinCaps
<1>1. Init => TypeInv /\ CapInv  BY InitTypes, InitCaps
<1>2. TypeInv /\ CapInv /\ [Next]_vars => TypeInv' /\ CapInv'  BY TypeStep, CapStep
<1>3. CapInv => WithinCaps
  <2> SUFFICES ASSUME CapInv PROVE WithinCaps  OBVIOUS
  <2>1. store \in Stores /\ hists \in Hists  BY DEF CapInv
  <2>2. MaxStreamKeys > 0 => Cardinality(DOMAIN store) <= MaxStreamKeys  BY <2>1, StoreParts DEF Capped
  <2>3. MaxFieldsPerStreamKey > 0 => \A s \in DOMAIN store : Cardinality(DOMAIN store[s]) <= MaxFieldsPerStreamKey
    <3>1. \A s \in DOMAIN store : store[s] \in FieldMaps  BY <2>1, StoreParts
    <3> QED  BY <3>1 DEF FieldMaps, Capped
  <2>4. MaxSymbols > 0 /\ MaxFieldsPerSymbol > 0  BY HistoryCaps, DispatcherAssumption
  <2>5. hists \in Partial(Symbols, FieldHists) /\ Cardinality(DOMAIN hists) <= MaxSymbols
    BY <2>1, <2>4 DEF Hists, Capped
  <2>6. ASSUME NEW s \in DOMAIN hists
        PROVE  /\ Cardinality(DOMAIN hists[s]) <= MaxFieldsPerSymbol
               /\ \A f \in DOMAIN hists[s] : Len(hists[s][f]) <= MaxHistory
    <3>1. PICK S \in SUBSET Symbols : hists \in [S -> FieldHists]  BY <2>5 DEF Partial
    <3>2. hists[s] \in FieldHists
      <4> HIDE DEF FieldHists
      <4> QED  BY <3>1
    <3>3. hists[s] \in Partial(Fields, Deques) /\ Cardinality(DOMAIN hists[s]) <= MaxFieldsPerSymbol
      BY <2>4, <3>2 DEF FieldHists, Capped
    <3>4. PICK T \in SUBSET Fields : hists[s] \in [T -> Deques]  BY <3>3 DEF Partial
    <3>5. \A f \in DOMAIN hists[s] : hists[s][f] \in Deques
      <4> HIDE DEF Deques
      <4> QED  BY <3>4
    <3> QED  BY <3>3, <3>5 DEF Deques
  <2> QED  BY <2>2, <2>3, <2>5, <2>6 DEF WithinCaps
<1> QED  BY <1>1, <1>2, <1>3, PTL DEF Spec

-----------------------------------------------------------------------------
(* The store is not older than what wakes a subscriber of a price          *)

\* lastPrice of s is what tick n brought or newer, or there is and will be no
\* room for it, in the store or in the computer's histories.
Covered(s, n) ==
    \/ s \notin DOMAIN taHist /\ Full(MaxSymbols, taHist)
    \/ StoreSettled(store, s, "lastPrice", n)

PriceListeners == {l \in Listeners : FieldOf[l] \in PriceFields}

\* The ticks on their way to a price listener are covered, and so is the tick
\* in hand once the computers ran, if it has a price; without one nothing is
\* announced.  The pairs are listeners of its symbol with their fields.
WakeCovered ==
    \A l \in PriceListeners : \A n \in 1 .. MaxTicks :
        Used(l, n) => n <= ticks /\ Covered(SymOf[l], n)
PriceInHand ==
    /\ pc \in {"notify", "pairs", "fanout"} /\ HasPrice(tick) => Covered(tick.sym, ticks)
    /\ pc = "notify" /\ ~HasPrice(tick) => notifyKeys = <<>>
    /\ pc \in {"pairs", "fanout"} =>
          \A i \in DOMAIN todo : FieldOf[todo[i][2]] = todo[i][1] /\ SymOf[todo[i][2]] = tick.sym
    /\ pc = "fanout" => Head(todo)[1] \in tick.num

\* What is covered stays covered.
LEMMA CoveredStays ==
    ASSUME TypeInv, CapInv, [Next]_vars, NEW s, NEW n \in Nat, n <= ticks, Covered(s, n)
    PROVE  Covered(s, n)'
<1>1. CASE UNCHANGED <<store, taHist>>  BY <1>1 DEF Covered, StoreSettled, Settled, Full
<1>2. CASE /\ StoreLater(store, store', ticks) /\ DOMAIN taHist \subseteq DOMAIN taHist'
           /\ \A x \in DOMAIN taHist' \ DOMAIN taHist : ~Full(MaxSymbols, taHist)
  <2>0. ticks \in Nat /\ MaxSymbols \in Nat  BY TypeParts, HistoryCaps, DispatcherAssumption
  <2>1. store \in Stores /\ store' \in Stores /\ taHist' \in TaHists  BY CapStep DEF CapInv
  <2>2. CASE s \notin DOMAIN taHist /\ Full(MaxSymbols, taHist)
    <3>1. s \notin DOMAIN taHist'  BY <1>2, <2>2
    <3>2. IsFiniteSet(DOMAIN taHist')  BY <2>1 DEF TaHists, Capped
    <3>3. Full(MaxSymbols, taHist')  BY <1>2, <2>0, <2>2, <3>2, FullStays
    <3>4. Full(MaxSymbols, taHist)' <=> Full(MaxSymbols, taHist')  BY DEF Full
    <3> QED  BY <3>1, <3>3, <3>4 DEF Covered
  <2>3. CASE StoreSettled(store, s, "lastPrice", n)
    <3> HIDE DEF Stores
    <3>1. StoreSettled(store', s, "lastPrice", n)  BY <1>2, <2>0, <2>1, <2>3, StoreSettledStays
    <3>2. StoreSettled(store, s, "lastPrice", n)' <=> StoreSettled(store', s, "lastPrice", n)
      BY DEF StoreSettled, Settled, Full
    <3> QED  BY <3>1, <3>2 DEF Covered
  <2> QED  BY <2>2, <2>3 DEF Covered
<1> QED  BY <1>1, <1>2, CapStep

\* A registered listener is bound to the symbol it is registered for.
LEMMA BoundToSymbol ==
    ASSUME TableInv, NEW s \in Symbols, NEW f \in Fields, NEW i \in DOMAIN table[s][f]
    PROVE  SymOf[table[s][f][i]] = s
<1>1. table[s][f][i] \in Listeners  BY BoundToField
<1> QED  BY <1>1 DEF TableInv, Registered

\* Posted calls, and nothing else, add to what is on its way.
LEMMA UsedPosted ==
    ASSUME TypeInv, UNCHANGED <<slot, received>>, NEW r \in Seq(TaskType), queue' = queue \o r,
           NEW l, NEW n, Used(l, n)'
    PROVE  Used(l, n) \/ \E i \in DOMAIN r : Carries(r[i], l, n)
<1> USE TypeParts
<1> HIDE DEF TaskType
<1>1. \A i \in DOMAIN queue' : \/ i \in DOMAIN queue /\ queue'[i] = queue[i]
                               \/ i - Len(queue) \in DOMAIN r /\ queue'[i] = r[i - Len(queue)]
  BY QueueFacts
<1>2. ASSUME InQueue(l, n)' PROVE InQueue(l, n) \/ \E i \in DOMAIN r : Carries(r[i], l, n)
  <2>1. PICK i \in DOMAIN queue' : Carries(queue'[i], l, n)  BY <1>2 DEF InQueue, Carries
  <2> QED  BY <1>1, <2>1 DEF InQueue
<1>3. (InSlot(l, n)' => InSlot(l, n)) /\ (Got(l, n)' => Got(l, n))  BY DEF InSlot, Got, Holds, Carries
<1> QED  BY <1>2, <1>3 DEF Used

\* A worker moves what is on its way.
LEMMA UsedMoved ==
    ASSUME TypeInv, NEW w \in Workers, WorkerStep(w), NEW l \in Listeners, NEW n, Used(l, n)'
    PROVE  Used(l, n)
<1> USE TypeParts
<1>1. CASE Take(w)
  <2> DEFINE t == Head(queue)
  <2>1. queue # <<>> /\ queue' = Tail(queue) /\ received' = received
        /\ slot' = [slot EXCEPT ![w] = IF t.kind = "down" THEN t ELSE IF Stopping(t.l) THEN NoTask
                                       ELSE [t EXCEPT !.kind = "forward"]]
    BY <1>1 DEF Take
  <2>2. /\ t \in TaskType /\ 1 \in DOMAIN queue /\ t = queue[1]
        /\ \A i \in DOMAIN queue' : i + 1 \in DOMAIN queue /\ queue'[i] = queue[i + 1]
    BY <2>1, QueueFacts
  <2>3. [t EXCEPT !.kind = "forward"].l = t.l /\ [t EXCEPT !.kind = "forward"].v = t.v  BY <2>2 DEF TaskType
  <2> HIDE DEF TaskType, t
  <2>4. CASE InQueue(l, n)'
    <3>1. PICK i \in DOMAIN queue' : Carries(queue'[i], l, n)  BY <2>4 DEF InQueue, Carries
    <3>2. InQueue(l, n)  BY <2>2, <3>1 DEF InQueue
    <3> QED  BY <3>2 DEF Used
  <2>5. CASE InSlot(l, n)'
    <3>1. PICK x \in Workers : slot'[x] # NoTask /\ Carries(slot'[x], l, n)
      BY <2>5 DEF InSlot, Holds, Carries
    <3>2. CASE x # w
      <4>1. slot'[x] = slot[x]  BY <2>1, <3>2
      <4>2. InSlot(l, n)  BY <3>1, <4>1 DEF InSlot, Holds
      <4> QED  BY <4>2 DEF Used
    <3>3. CASE x = w
      <4>1. slot'[w] = t \/ slot'[w] = NoTask \/ slot'[w] = [t EXCEPT !.kind = "forward"]  BY <2>1
      <4>2. Carries(t, l, n)  BY <2>3, <3>1, <3>3, <4>1 DEF Carries
      <4>3. InQueue(l, n)  BY <2>2, <4>2 DEF InQueue
      <4> QED  BY <4>3 DEF Used
    <3> QED  BY <3>2, <3>3
  <2>6. CASE Got(l, n)'  BY <2>1, <2>6 DEF Got, Used
  <2> QED  BY <2>4, <2>5, <2>6 DEF Used
<1>2. CASE ListenerForward(w)
  <2> DEFINE down == Task("down", slot[w].l, slot[w].v)
  <2>1. slot[w] # NoTask /\ slot' = [slot EXCEPT ![w] = NoTask] /\ received' = received
        /\ (queue' = queue \/ queue' = Append(queue, down))
    BY <1>2 DEF ListenerForward
  <2>2. slot[w] \in TaskType
    <3> HIDE DEF TaskType
    <3> QED  BY <2>1
  <2>3. down \in TaskType /\ down.l = slot[w].l /\ down.v = slot[w].v  BY <2>2 DEF TaskType, Task
  <2> HIDE DEF TaskType, down
  <2>4. CASE InQueue(l, n)'
    <3>1. PICK i \in DOMAIN queue' : Carries(queue'[i], l, n)  BY <2>4 DEF InQueue, Carries
    <3>2. (i \in DOMAIN queue /\ queue'[i] = queue[i]) \/ queue'[i] = down
      <4>1. CASE queue' = queue  BY <4>1
      <4>2. CASE queue' = Append(queue, down)  BY <2>3, <4>2, QueueFacts
      <4> QED  BY <2>1, <4>1, <4>2
    <3>3. InQueue(l, n) \/ Holds(w, l, n)  BY <2>1, <2>3, <3>1, <3>2 DEF InQueue, Holds, Carries
    <3> QED  BY <3>3 DEF Used, InSlot
  <2>5. CASE InSlot(l, n)'
    <3>1. PICK x \in Workers : slot'[x] # NoTask /\ Carries(slot'[x], l, n)
      BY <2>5 DEF InSlot, Holds, Carries
    <3>2. slot'[x] = slot[x]  BY <2>1, <3>1
    <3>3. InSlot(l, n)  BY <3>1, <3>2 DEF InSlot, Holds
    <3> QED  BY <3>3 DEF Used
  <2>6. CASE Got(l, n)'  BY <2>1, <2>6 DEF Got, Used
  <2> QED  BY <2>4, <2>5, <2>6 DEF Used
<1>3. CASE Deliver(w)
  <2>1. slot[w] # NoTask /\ slot' = [slot EXCEPT ![w] = NoTask] /\ queue' = queue
        /\ received' = [received EXCEPT ![slot[w].l] = Append(@, slot[w].v)]
    BY <1>3 DEF Deliver
  <2>2. slot[w] \in TaskType
    <3> HIDE DEF TaskType
    <3> QED  BY <2>1
  <2>3. slot[w].l \in Listeners /\ slot[w].v \in Values  BY <2>2 DEF TaskType, Values
  <2> HIDE DEF TaskType, Values
  <2>4. CASE InQueue(l, n)'  BY <2>1, <2>4 DEF InQueue, Used
  <2>5. CASE InSlot(l, n)'
    <3>1. PICK x \in Workers : slot'[x] # NoTask /\ Carries(slot'[x], l, n)
      BY <2>5 DEF InSlot, Holds, Carries
    <3>2. slot'[x] = slot[x]  BY <2>1, <3>1
    <3>3. InSlot(l, n)  BY <3>1, <3>2 DEF InSlot, Holds
    <3> QED  BY <3>3 DEF Used
  <2>6. CASE Got(l, n)'
    <3>1. PICK i \in DOMAIN received'[l] : received'[l][i].n = n  BY <2>6 DEF Got
    <3>2. received[l] \in Seq(Values)  OBVIOUS
    <3>3. CASE l = slot[w].l
      <4> DEFINE q == received[l]
                 v == slot[w].v
      <4>1. received'[l] = Append(q, v)  BY <2>1, <2>3, <3>3
      <4> HIDE DEF q, v
      <4>2. q \in Seq(Values) /\ v \in Values  BY <2>3, <3>2 DEF q, v
      <4>3. \A j \in DOMAIN Append(q, v) : (j \in DOMAIN q /\ Append(q, v)[j] = q[j]) \/ Append(q, v)[j] = v
        <5>1. DOMAIN Append(q, v) = 1 .. Len(q) + 1 /\ DOMAIN q = 1 .. Len(q) /\ Len(q) \in Nat  BY <4>2
        <5>2. Append(q, v)[Len(q) + 1] = v  BY <4>2
        <5>3. \A j \in 1 .. Len(q) : Append(q, v)[j] = q[j]  BY <4>2
        <5>4. \A m \in Nat : \A j \in 1 .. m + 1 : j \in 1 .. m \/ j = m + 1  OBVIOUS
        <5> HIDE DEF v, q
        <5> QED  BY <5>1, <5>2, <5>3, <5>4, Zenon
      <4>4. (i \in DOMAIN q /\ received'[l][i] = q[i]) \/ received'[l][i] = v  BY <3>1, <4>1, <4>3
      <4>5. CASE i \in DOMAIN q /\ received'[l][i] = q[i]  BY <3>1, <4>5 DEF Got, Used, q
      <4>6. CASE received'[l][i] = v
        <5>1. Holds(w, l, n)  BY <2>1, <3>1, <3>3, <4>6 DEF Holds, Carries, v
        <5> QED  BY <5>1 DEF InSlot, Used
      <4> QED  BY <4>4, <4>5, <4>6
    <3>4. CASE l # slot[w].l
      <4>1. received'[l] = received[l]  BY <2>1, <3>4
      <4> QED  BY <3>1, <4>1 DEF Got, Used
    <3> QED  BY <3>3, <3>4
  <2> QED  BY <2>4, <2>5, <2>6 DEF Used
<1> QED  BY <1>1, <1>2, <1>3 DEF WorkerStep

\* A step that adds nothing but the tick in hand, where it is covered.
LEMMA WakeStep ==
    ASSUME TypeInv, CapInv, WakeCovered, [Next]_vars,
           \A l \in PriceListeners : \A n \in 1 .. MaxTicks :
              Used(l, n)' => Used(l, n) \/ (n = ticks /\ Covered(SymOf[l], ticks))
    PROVE  WakeCovered'
<1>1. ticks \in Nat /\ ticks' \in Nat /\ ticks <= ticks' /\ MaxTicks \in Nat
  <2>1. ticks \in 0 .. MaxTicks /\ MaxTicks \in Nat  BY TypeParts, DispatcherAssumption
  <2>2. ticks' = ticks \/ ticks' = ticks + 1
    BY DEF Next, FeedStep, BeginTick, RunComputers, NotifyListeners, Collect, SkipPair, PushHistory, Fanout, EndTick,
           LifeStep, Create, ShutdownBegin, Unregister, ResetDownstream, WorkerStep, Take, ListenerForward, Deliver,
           feedVars, vars
  <2> QED  BY <2>1, <2>2
<1>2. ASSUME NEW l \in PriceListeners, NEW n \in 1 .. MaxTicks, Used(l, n)'
      PROVE  n <= ticks' /\ Covered(SymOf[l], n)'
  <2>1. n <= ticks /\ Covered(SymOf[l], n)
    <3>1. CASE Used(l, n)  BY <3>1 DEF WakeCovered
    <3>2. CASE n = ticks /\ Covered(SymOf[l], ticks)  BY <1>1, <3>2
    <3> QED  BY <1>2, <3>1, <3>2
  <2>2. n \in Nat /\ n <= ticks'  BY <1>1, <2>1
  <2> QED  BY <2>1, <2>2, CoveredStays
<1> QED  BY <1>2 DEF WakeCovered, PriceListeners

\* What onTick holds of a tick stays as it is, once the computers ran.
LEMMA HandStep ==
    ASSUME TypeInv, CapInv, PriceInHand, [Next]_vars, UNCHANGED <<tick, ticks>>,
           pc \in {"notify", "pairs", "fanout"}, pc' \in {"notify", "pairs", "fanout"},
           pc' = "notify" => pc = "notify" /\ (notifyKeys = <<>> => notifyKeys' = <<>>),
           pc' \in {"pairs", "fanout"} =>
              \A i \in DOMAIN todo' : FieldOf[todo'[i][2]] = todo'[i][1] /\ SymOf[todo'[i][2]] = tick.sym,
           pc' = "fanout" => Head(todo')[1] \in tick.num
    PROVE  PriceInHand'
<1>1. ticks \in Nat  BY TypeParts, DispatcherAssumption
<1>2. HasPrice(tick)' <=> HasPrice(tick)  BY DEF HasPrice
<1>3. ASSUME HasPrice(tick) PROVE Covered(tick.sym, ticks)'
  <2> DEFINE s == tick.sym
             n == ticks
  <2>1. Covered(s, n) /\ n \in Nat /\ n <= ticks  BY <1>1, <1>3 DEF PriceInHand
  <2>2. ASSUME NEW x, NEW m \in Nat, m <= ticks, Covered(x, m), x = tick.sym, m = ticks
        PROVE  Covered(tick.sym, ticks)'
    <3>1. Covered(x, m)'  BY <2>2, CoveredStays
    <3>2. tick'.sym = x /\ ticks' = m  BY <2>2
    <3> QED  BY <3>1, <3>2 DEF Covered, StoreSettled, Settled
  <2> QED  BY <2>1, <2>2
<1> QED  BY <1>2, <1>3 DEF PriceInHand

\* The price invariant.
PriceInv == TableInv /\ CapInv /\ WakeCovered /\ PriceInHand

\* Every step keeps it.
LEMMA PriceStep ==
    ASSUME PriceIsResult, PriceInv, [Next]_vars
    PROVE  WakeCovered' /\ PriceInHand'
<1> USE DEF PriceInv
<1>0. TypeInv /\ CapInv /\ WakeCovered /\ PriceInHand /\ TableInv  BY DEF TableInv
<1>t. ASSUME pc # "idle"
      PROVE  ticks \in 1 .. MaxTicks /\ ticks \in Nat /\ tick.n = ticks /\ tick.sym \in Symbols
  BY <1>0, <1>t, DispatcherAssumption DEF TypeInv, FeedTypes
<1>s. ASSUME UNCHANGED <<queue, slot, received>> PROVE WakeCovered'
  <2>1. \A l, n : Used(l, n)' <=> Used(l, n)  BY <1>s, OnceSame
  <2> QED  BY <1>0, <2>1, WakeStep
<1>p. ASSUME NEW r \in Seq(TaskType), queue' = queue \o r, UNCHANGED <<slot, received>>,
             \A i \in DOMAIN r : r[i].l \in PriceListeners =>
                r[i].v.n = ticks /\ Covered(SymOf[r[i].l], ticks)
      PROVE  WakeCovered'
  <2>1. ASSUME NEW l \in PriceListeners, NEW n \in 1 .. MaxTicks, Used(l, n)'
        PROVE  Used(l, n) \/ (n = ticks /\ Covered(SymOf[l], ticks))
    <3>1. Used(l, n) \/ \E i \in DOMAIN r : Carries(r[i], l, n)
      <4> HIDE DEF TaskType
      <4> QED  BY <1>0, <1>p, <2>1, UsedPosted
    <3>2. ASSUME NEW i \in DOMAIN r, Carries(r[i], l, n) PROVE n = ticks /\ Covered(SymOf[l], ticks)
      BY <1>p, <3>2 DEF Carries
    <3> QED  BY <3>1, <3>2
  <2> QED  BY <1>0, <2>1, WakeStep
<1>q. ASSUME todo # <<>>
      PROVE  /\ 1 \in DOMAIN todo /\ Head(todo) = todo[1] /\ Head(todo) \in Fields \X Listeners
             /\ \A i \in DOMAIN Tail(todo) : i + 1 \in DOMAIN todo /\ Tail(todo)[i] = todo[i + 1]
  <2> DEFINE S == Fields \X Listeners
  <2>1. todo \in Seq(S)  BY <1>0, TypeParts
  <2> HIDE DEF S
  <2>2. /\ 1 \in DOMAIN todo /\ Head(todo) = todo[1] /\ Head(todo) \in S
        /\ \A i \in DOMAIN Tail(todo) : i + 1 \in DOMAIN todo /\ Tail(todo)[i] = todo[i + 1]
    BY <1>q, <2>1
  <2> QED  BY <2>2 DEF S
<1>1. CASE \E e \in Events : BeginTick(e)
  <2>1. pc' = "compute" /\ UNCHANGED <<queue, slot, received>>  BY <1>1 DEF BeginTick
  <2>2. PriceInHand'  BY <2>1 DEF PriceInHand
  <2> QED  BY <1>s, <2>1, <2>2
<1>2. CASE RunComputers
  <2> DEFINE r == Compute(store, taHist, tick)
  <2>1. /\ pc = "compute" /\ pc' = "notify" /\ UNCHANGED <<queue, slot, received, tick, ticks>>
        /\ store' = r.store /\ taHist' = r.hist /\ notifyKeys' = r.keys
    BY <1>2 DEF RunComputers
  <2>2. tick.sym \in Symbols /\ tick.n = ticks /\ ticks \in Nat  BY <1>t, <2>1
  <2>3. store \in Stores /\ taHist \in TaHists  BY DEF CapInv
  <2>4. /\ ~HasPrice(tick) => r.keys = <<>>
        /\ HasPrice(tick) => \/ tick.sym \notin DOMAIN r.hist /\ Full(MaxSymbols, r.hist)
                             \/ StoreSettled(r.store, tick.sym, "lastPrice", tick.n)
    <3> HIDE DEF Stores, TaHists
    <3> QED  BY <2>2, <2>3, ComputeFacts
  <2> HIDE DEF r
  <2>5. HasPrice(tick)' <=> HasPrice(tick)  BY <2>1 DEF HasPrice
  <2>6. HasPrice(tick) => Covered(tick.sym, ticks)'
    BY <2>1, <2>2, <2>4 DEF Covered, StoreSettled, Settled, Full
  <2>7. PriceInHand'  BY <2>1, <2>4, <2>5, <2>6 DEF PriceInHand
  <2> QED  BY <1>s, <2>1, <2>7
<1>3. CASE NotifyListeners
  <2> DEFINE k == Head(notifyKeys)
             ls == IF k \in Fields THEN table[tick.sym][k] ELSE <<>>
             r == Calls(ls, Value(tick.n, k))
  <2>1. pc = "notify" /\ notifyKeys # <<>> /\ queue' = queue \o r /\ UNCHANGED <<slot, received, ticks, tick, pc>>
    BY <1>3 DEF NotifyListeners
  <2>2. tick.sym \in Symbols /\ tick.n = ticks /\ ticks \in 1 .. MaxTicks /\ TypeOK
    BY <1>0, <1>t, <2>1 DEF TypeInv
  <2>3. Covered(tick.sym, ticks)  BY <2>1 DEF PriceInHand
  <2>4. r \in Seq(TaskType) /\ \A i \in DOMAIN r : r[i].v.n = ticks /\ SymOf[r[i].l] = tick.sym
    <3>1. CASE k \in Fields
      <4>1. ls \in Seq(Listeners) /\ ls = table[tick.sym][k]  BY <2>2, <3>1, TableFacts
      <4>2. Value(tick.n, k) \in Values /\ Value(tick.n, k).n = ticks  BY <2>2, <3>1 DEF Value, Values
      <4>3. \A i \in DOMAIN ls : SymOf[ls[i]] = tick.sym  BY <1>0, <2>2, <3>1, <4>1, BoundToSymbol
      <4> HIDE DEF ls, k
      <4>4. r \in Seq(TaskType) /\ DOMAIN r = DOMAIN ls
            /\ \A i \in DOMAIN ls : r[i] = Task("listener", ls[i], Value(tick.n, k))
        BY <4>1, <4>2, CallsFacts
      <4> HIDE DEF r, TaskType
      <4> QED  BY <4>2, <4>3, <4>4 DEF Task
    <3>2. CASE k \notin Fields
      <4>1. ls = <<>>  BY <3>2
      <4>2. r = [i \in 1 .. 0 |-> Task("listener", ls[i], Value(tick.n, k))]  BY <4>1 DEF Calls
      <4> HIDE DEF ls, k, r, TaskType
      <4>3. r \in [1 .. 0 -> TaskType] /\ DOMAIN r = {}  BY <4>2
      <4>4. r \in Seq(TaskType)  BY <4>3
      <4> QED  BY <4>3, <4>4
    <3> QED  BY <3>1, <3>2
  <2> HIDE DEF r, TaskType
  <2>5. WakeCovered'  BY <1>p, <2>1, <2>3, <2>4
  <2>6. PriceInHand'  BY <1>0, <2>1, HandStep
  <2> QED  BY <2>5, <2>6
<1>4. CASE Collect
  <2> DEFINE payload == tick.num \cup tick.other
             p == PairsFor(payload)
  <2>1. pc = "notify" /\ pc' = "pairs" /\ todo' = p /\ UNCHANGED <<queue, slot, received, tick, ticks>>
    BY <1>4 DEF Collect
  <2>2. tick.sym \in Symbols  BY <1>t, <2>1
  <2> HIDE DEF payload
  <2>3. \A j \in DOMAIN p : PairOf(p[j], payload)  BY <1>0, <2>1, PairsFacts
  <2> HIDE DEF p
  <2>4. ASSUME NEW j \in DOMAIN p PROVE FieldOf[p[j][2]] = p[j][1] /\ SymOf[p[j][2]] = tick.sym
    <3>1. PICK f \in Fields : \E i \in DOMAIN table[tick.sym][f] : p[j] = <<f, table[tick.sym][f][i]>>
      BY <2>3 DEF PairOf
    <3>2. PICK i \in DOMAIN table[tick.sym][f] : p[j] = <<f, table[tick.sym][f][i]>>  BY <3>1
    <3>3. FieldOf[table[tick.sym][f][i]] = f /\ SymOf[table[tick.sym][f][i]] = tick.sym
      BY <1>0, <2>2, BoundToField, BoundToSymbol
    <3> QED  BY <3>2, <3>3
  <2>5. PriceInHand'  BY <1>0, <2>1, <2>4, HandStep
  <2> QED  BY <1>s, <2>1, <2>5
<1>5. CASE SkipPair
  <2>1. pc = "pairs" /\ todo # <<>> /\ todo' = Tail(todo) /\ UNCHANGED <<queue, slot, received, tick, ticks, pc>>
    BY <1>5 DEF SkipPair
  <2>2. \A i \in DOMAIN todo' : FieldOf[todo'[i][2]] = todo'[i][1] /\ SymOf[todo'[i][2]] = tick.sym
    BY <1>q, <2>1 DEF PriceInHand
  <2>3. PriceInHand'  BY <1>0, <2>1, <2>2, HandStep
  <2> QED  BY <1>s, <2>1, <2>3
<1>6. CASE PushHistory
  <2>1. pc = "pairs" /\ pc' = "fanout" /\ Head(todo)[1] \in tick.num
        /\ UNCHANGED <<queue, slot, received, tick, ticks, todo>>
    BY <1>6 DEF PushHistory
  <2>2. PriceInHand'  BY <1>0, <2>1, HandStep DEF PriceInHand
  <2> QED  BY <1>s, <2>1, <2>2
<1>7. CASE Fanout
  <2> DEFINE h == Head(todo)
             own == Task("listener", h[2], Value(tick.n, h[1]))
             b == BuiltinCalls
             u == <<own>>
             r == b \o u
  <2>1. pc = "fanout" /\ pc' = "pairs" /\ todo' = Tail(todo) /\ UNCHANGED <<slot, received, ticks, tick>>
    BY <1>7 DEF Fanout
  <2>2. queue' = queue \o BuiltinCalls \o <<own>>  BY <1>7 DEF Fanout, BuiltinCalls
  <2>3. todo # <<>> /\ tick.n = ticks /\ ticks \in 1 .. MaxTicks /\ tick.sym \in Symbols
    BY <1>0, <1>t, <2>1 DEF TypeInv, FeedTypes
  <2>4. h \in Fields \X Listeners /\ 1 \in DOMAIN todo /\ h = todo[1]  BY <1>q, <2>3
  <2>5. own \in TaskType /\ own.l = h[2] /\ own.v.n = ticks  BY <2>3, <2>4 DEF Task, TaskType, Value
  <2>6. b \in Seq(TaskType)  BY <1>0, <2>1, BuiltinCallsFacts
  <2>7. ASSUME NEW i \in DOMAIN b PROVE b[i].l \notin PriceListeners
    <3>1. \E f \in Fields : \E k \in DOMAIN table[tick.sym][f] :
                    /\ f \in Evaluated
                    /\ b[i] = Task("listener", table[tick.sym][f][k], Value(tick.n, f))
      BY <1>0, <2>1, BuiltinCallsFacts
    <3> HIDE DEF b
    <3>2. PICK f \in Fields : \E k \in DOMAIN table[tick.sym][f] :
                    f \in Evaluated /\ b[i] = Task("listener", table[tick.sym][f][k], Value(tick.n, f))
      BY <3>1
    <3>3. PICK k \in DOMAIN table[tick.sym][f] :
                    f \in Evaluated /\ b[i] = Task("listener", table[tick.sym][f][k], Value(tick.n, f))
      BY <3>2
    <3>4. FieldOf[table[tick.sym][f][k]] = f  BY <1>0, <2>3, BoundToField
    <3>5. b[i].l = table[tick.sym][f][k]  BY <3>3 DEF Task
    <3> QED  BY <3>3, <3>4, <3>5 DEF Evaluated, PriceListeners, PriceIsResult
  <2>8. own.l \in PriceListeners => Covered(SymOf[own.l], ticks)
    <3> SUFFICES ASSUME own.l \in PriceListeners PROVE Covered(SymOf[own.l], ticks)  OBVIOUS
    <3>1. FieldOf[h[2]] = h[1] /\ SymOf[h[2]] = tick.sym /\ h[1] \in tick.num
      BY <2>1, <2>4 DEF PriceInHand
    <3>2. HasPrice(tick)  BY <2>5, <3>1 DEF HasPrice, PriceListeners
    <3>3. Covered(tick.sym, ticks)  BY <2>1, <3>2 DEF PriceInHand
    <3> HIDE DEF own, h
    <3> QED  BY <2>5, <3>1, <3>3
  <2> HIDE DEF TaskType, own, b, h
  <2>9. u \in Seq(TaskType) /\ DOMAIN u = {1} /\ u[1] = own  BY <2>5
  <2>10. queue' = queue \o r
    <3>1. queue \in Seq(TaskType)  BY <1>0, TypeParts
    <3>2. \A x, y, z \in Seq(TaskType) : (x \o y) \o z = x \o (y \o z)  BY SMTT(40)
    <3>3. queue' = (queue \o b) \o u  BY <2>2 DEF b
    <3> HIDE DEF u
    <3> QED  BY <2>6, <2>9, <3>1, <3>2, <3>3
  <2> HIDE DEF u, r
  <2>11. r \in Seq(TaskType) /\ \A i \in DOMAIN r : (i \in DOMAIN b /\ r[i] = b[i]) \/ r[i] = own
    <3>1. r = b \o u  BY DEF r
    <3>2. \A i \in DOMAIN r : \/ i \in DOMAIN b /\ r[i] = b[i]
                              \/ i - Len(b) \in DOMAIN u /\ r[i] = u[i - Len(b)]
      BY <2>6, <2>9, <3>1, QueueFacts
    <3>3. r \in Seq(TaskType)  BY <2>6, <2>9, <3>1, QueueFacts
    <3> QED  BY <2>9, <3>2, <3>3
  <2>12. WakeCovered'
    <3>1. \A i \in DOMAIN r : r[i].l \in PriceListeners => r[i].v.n = ticks /\ Covered(SymOf[r[i].l], ticks)
      BY <2>5, <2>7, <2>8, <2>11
    <3> QED  BY <1>p, <2>1, <2>10, <2>11, <3>1
  <2>13. \A i \in DOMAIN todo' : FieldOf[todo'[i][2]] = todo'[i][1] /\ SymOf[todo'[i][2]] = tick.sym
    BY <1>q, <2>1, <2>3 DEF PriceInHand
  <2>14. PriceInHand'  BY <1>0, <2>1, <2>13, HandStep
  <2> QED  BY <2>12, <2>14
<1>8. CASE EndTick
  <2>1. pc' = "idle" /\ UNCHANGED <<queue, slot, received>>  BY <1>8 DEF EndTick
  <2>2. PriceInHand'  BY <2>1 DEF PriceInHand
  <2> QED  BY <1>s, <2>1, <2>2
<1>u. ASSUME UNCHANGED <<pc, tick, ticks, todo, notifyKeys, store, taHist>> PROVE PriceInHand'
  BY <1>0, <1>u DEF PriceInHand, HasPrice, Covered, StoreSettled, Settled, Full
<1>9. CASE \E l \in Listeners : LifeStep(l)
  <2>1. UNCHANGED <<queue, slot, received, pc, tick, ticks, todo, notifyKeys, store, taHist>>
    BY <1>9 DEF LifeStep, Create, ShutdownBegin, Unregister, ResetDownstream, feedVars
  <2> QED  BY <1>s, <1>u, <2>1
<1>10. CASE \E w \in Workers : WorkerStep(w)
  <2>1. PICK w \in Workers : WorkerStep(w)  BY <1>10
  <2>2. UNCHANGED <<pc, tick, ticks, todo, notifyKeys, store, taHist>>
    BY <2>1 DEF WorkerStep, Take, ListenerForward, Deliver, feedVars
  <2>3. \A l \in PriceListeners : \A n \in 1 .. MaxTicks : Used(l, n)' => Used(l, n)
    BY <1>0, <2>1, UsedMoved DEF PriceListeners
  <2>4. WakeCovered'  BY <1>0, <2>3, WakeStep
  <2> QED  BY <1>u, <2>2, <2>4
<1>11. CASE UNCHANGED vars
  <2>1. UNCHANGED <<queue, slot, received, pc, tick, ticks, todo, notifyKeys, store, taHist>>  BY <1>11 DEF vars
  <2> QED  BY <1>s, <1>u, <2>1
<1> QED
  BY <1>1, <1>2, <1>3, <1>4, <1>5, <1>6, <1>7, <1>8, <1>9, <1>10, <1>11 DEF Next, FeedStep

\* A subscriber of a price field that is woken by a tick finds in the
\* AtomicStore a lastPrice of that tick or a later one: the computers run before
\* anything is posted, and a name refused for a cap is refused for good.
THEOREM StoreFreshTheorem ==
    ASSUME PriceIsResult
    PROVE  Spec => []StoreNotOlderThanDelivery
<1>1. Init => PriceInv
  <2> SUFFICES ASSUME Init PROVE PriceInv  OBVIOUS
  <2>1. TableInv /\ CapInv  BY InitTypes, InitRegistered, InitCaps DEF TableInv
  <2>2. pc = "idle" /\ queue = <<>> /\ \A w \in Workers : slot[w] = NoTask  BY DEF Init
  <2>3. \A l \in Listeners : received[l] = <<>>  BY DEF Init
  <2>4. DOMAIN <<>> = {}  OBVIOUS
  <2>5. WakeCovered
    BY <2>2, <2>3, <2>4 DEF WakeCovered, Used, InQueue, InSlot, Holds, Got, PriceListeners
  <2>6. PriceInHand  BY <2>2 DEF PriceInHand
  <2> QED  BY <2>1, <2>5, <2>6 DEF PriceInv
<1>2. PriceInv /\ [Next]_vars => PriceInv'
  <2> SUFFICES ASSUME PriceInv, [Next]_vars PROVE PriceInv'  OBVIOUS
  <2>1. TypeInv' /\ Registered'  BY TypeStep, RegisteredStep DEF PriceInv, TableInv
  <2>2. CapInv'  BY CapStep DEF PriceInv, TableInv
  <2>3. WakeCovered' /\ PriceInHand'  BY PriceStep
  <2> QED  BY <2>1, <2>2, <2>3 DEF PriceInv, TableInv
<1>3. PriceInv => StoreNotOlderThanDelivery
  <2> SUFFICES ASSUME PriceInv, NEW l \in Listeners, NEW i \in DOMAIN received[l], FieldOf[l] \in PriceFields,
                      SymOf[l] \in DOMAIN taHist, Has(store, SymOf[l], "lastPrice")
               PROVE  store[SymOf[l]]["lastPrice"] >= received[l][i].n
    BY DEF StoreNotOlderThanDelivery
  <2>1. received[l] \in Seq(Values)  BY TypeParts DEF PriceInv, TableInv
  <2>2. received[l][i] \in Values
    <3> HIDE DEF Values
    <3> QED  BY <2>1
  <2>3. received[l][i].n \in 1 .. MaxTicks  BY <2>2 DEF Values
  <2>4. Used(l, received[l][i].n)  BY DEF Used, Got
  <2>5. Covered(SymOf[l], received[l][i].n)
    BY <2>3, <2>4 DEF PriceInv, WakeCovered, PriceListeners
  <2> QED  BY <2>5 DEF Covered, StoreSettled, Settled, Has
<1> QED  BY <1>1, <1>2, <1>3, PTL DEF Spec
=============================================================================
