--------------------------- MODULE ShutdownProofs ---------------------------
(***************************************************************************)
(* Proofs about Shutdown, for any number of producers and clients, any     *)
(* streams and any caps.                                                   *)
(*                                                                         *)
(* The inductive invariant has three parts, each about the variables of    *)
(* one component and what it knows of the coordinator's progress:          *)
(*   CoInv    the plan is the sorted copy of what was registered, ran its  *)
(*            executed beginning, and main's lines bound what can be in it;*)
(*   FeedInv  who is being accepted by the feed server, what its set holds *)
(*            meanwhile, and who can still be inserted once it was told to *)
(*            stop;                                                        *)
(*   WsInv    the same for the server of client sessions.                  *)
(* That std::stable_sort's result is ascending and complete is SortedSteps:*)
(* the places of the steps are an injection of a finite set into itself,   *)
(* hence onto it.                                                          *)
(*                                                                         *)
(* Framing has an invariant of its own, Framed: a producer's routed lines  *)
(* and the start of pending_ are those of the units received, and a        *)
(* producer cut off for MAX_PENDING sent a line that is too long.          *)
(***************************************************************************)
EXTENDS Shutdown, TLAPS, FiniteSetTheorems, FunctionTheorems, SequenceTheorems, InductionLemmas

\* The steps that Place(k) counts.
Behind(k) == {j \in DOMAIN steps : \/ steps[j].order < steps[k].order
                                   \/ steps[j].order = steps[k].order /\ j <= k}

\* The steps have no order in common, and each of them has one.
DistinctOrders(s) == \A i, j \in DOMAIN s : s[i].order = s[j].order => i = j

Ascending(s) == \A i, j \in DOMAIN s : i < j => s[i].order < s[j].order

\* A step's place says how many steps are not behind it.
LEMMA PlaceOrder ==
    ASSUME NEW S, steps \in Seq(S), \A x \in S : x.order \in Nat, DistinctOrders(steps)
    PROVE  /\ \A k \in DOMAIN steps : Place(k) \in DOMAIN steps
           /\ \A k, l \in DOMAIN steps :
                 steps[k].order < steps[l].order => Place(k) < Place(l)
<1>1. /\ DOMAIN steps = 1 .. Len(steps) /\ Len(steps) \in Nat
      /\ \A k \in DOMAIN steps : steps[k].order \in Nat
  OBVIOUS
<1>2. IsFiniteSet(DOMAIN steps) /\ Cardinality(DOMAIN steps) = Len(steps)
  <2>1. IsFiniteSet(1 .. Len(steps)) /\ Cardinality(1 .. Len(steps)) = Len(steps)
    <3> DEFINE n == Len(steps)
    <3>1. n \in Nat /\ n \in Int /\ 1 \in Int  BY <1>1
    <3> HIDE DEF n
    <3>2. IsFiniteSet(1 .. n) /\ Cardinality(1 .. n) = IF 1 > n THEN 0 ELSE n - 1 + 1
      BY <3>1, FS_Interval
    <3>3. (IF 1 > n THEN 0 ELSE n - 1 + 1) = n  BY <3>1
    <3> QED  BY <3>2, <3>3 DEF n
  <2> QED  BY <1>1, <2>1
<1>3. ASSUME NEW k \in DOMAIN steps
      PROVE  /\ Behind(k) \subseteq DOMAIN steps /\ k \in Behind(k)
             /\ IsFiniteSet(Behind(k)) /\ Place(k) = Cardinality(Behind(k))
             /\ Place(k) \in 1 .. Len(steps)
  <2>1. Behind(k) \subseteq DOMAIN steps /\ k \in Behind(k)  BY <1>1 DEF Behind
  <2>2. Place(k) = Cardinality(Behind(k))  BY DEF Place, Behind
  <2>3. IsFiniteSet(Behind(k)) /\ Cardinality(Behind(k)) <= Len(steps)
    BY <1>2, <2>1, FS_Subset
  <2>4. Cardinality(Behind(k)) \in Nat /\ Cardinality(Behind(k)) # 0
    BY <2>1, <2>3, FS_CardinalityType, FS_EmptySet
  <2> QED  BY <2>1, <2>2, <2>3, <2>4, <1>1
<1>4. ASSUME NEW k \in DOMAIN steps, NEW l \in DOMAIN steps, steps[k].order < steps[l].order
      PROVE  Place(k) < Place(l)
  <2>1. Behind(k) \subseteq Behind(l) /\ l \in Behind(l) /\ l \notin Behind(k)
    BY <1>1, <1>4 DEF Behind
  <2>2. Cardinality(Behind(k)) <= Cardinality(Behind(l)) /\ Cardinality(Behind(l)) # Cardinality(Behind(k))
    BY <1>3, <2>1, FS_Subset
  <2>3. Place(k) = Cardinality(Behind(k)) /\ Place(l) = Cardinality(Behind(l))
        /\ Place(k) \in Nat /\ Place(l) \in Nat
    BY <1>3, <1>1
  <2> QED  BY <2>2, <2>3
<1> QED  BY <1>1, <1>3, <1>4

\* std::stable_sort loses no step and puts them in ascending order.
LEMMA SortedSteps ==
    ASSUME NEW S, steps \in Seq(S), \A x \in S : x.order \in Nat, DistinctOrders(steps)
    PROVE  Sorted \in Seq(S) /\ Ascending(Sorted) /\ NameSet(Sorted) = NameSet(steps)
<1> DEFINE D == DOMAIN steps
           place == [k \in D |-> Place(k)]
           At(r) == CHOOSE k \in D : Place(k) = r
<1>1. /\ D = 1 .. Len(steps) /\ Len(steps) \in Nat
      /\ \A k \in D : steps[k].order \in Nat /\ steps[k] \in S
  OBVIOUS
<1>2. /\ \A k \in D : Place(k) \in D
      /\ \A k, l \in D : steps[k].order < steps[l].order => Place(k) < Place(l)
  BY PlaceOrder
<1>3. place \in [D -> D]  BY <1>2
<1>4. \A k, l \in D : Place(k) = Place(l) => k = l
  <2> SUFFICES ASSUME NEW k \in D, NEW l \in D, k # l PROVE Place(k) # Place(l)  OBVIOUS
  <2>1. steps[k].order < steps[l].order \/ steps[l].order < steps[k].order
    BY <1>1 DEF DistinctOrders
  <2>2. Place(k) \in Nat /\ Place(l) \in Nat  BY <1>1, <1>2
  <2> QED  BY <1>2, <2>1, <2>2
<1>5. place \in Injection(D, D)
  BY <1>3, <1>4, Fun_IsInj
<1>6. place \in Surjection(D, D)
  <2>1. IsFiniteSet(D)  BY <1>1, FS_Interval
  <2> HIDE DEF D, place
  <2> QED  BY <1>5, <2>1, FS_Injection
<1>7. \A r \in D : \E k \in D : Place(k) = r
  BY <1>6 DEF Surjection
<1>8. \A r \in D : At(r) \in D /\ Place(At(r)) = r
  BY <1>7
<1>9. Sorted = [r \in D |-> steps[At(r)]]
  BY DEF Sorted
<1> HIDE DEF D, At
<1>10. Sorted \in Seq(S)
  <2>1. Sorted \in [1 .. Len(steps) -> S]  BY <1>1, <1>8, <1>9
  <2> QED  BY <1>1, <2>1
<1>11. Ascending(Sorted)
  <2> SUFFICES ASSUME NEW i \in D, NEW j \in D, i < j
               PROVE  steps[At(i)].order < steps[At(j)].order
    BY <1>9 DEF Ascending
  <2>1. At(i) # At(j)  BY <1>1, <1>8
  <2>2. steps[At(i)].order # steps[At(j)].order
    BY <1>8, <2>1 DEF DistinctOrders, D
  <2>3. ~(steps[At(j)].order < steps[At(i)].order)
    <3>1. At(i) \in D /\ At(j) \in D /\ Place(At(i)) = i /\ Place(At(j)) = j  BY <1>8
    <3>2. i \in Nat /\ j \in Nat  BY <1>1
    <3>3. steps[At(j)].order < steps[At(i)].order => Place(At(j)) < Place(At(i))
      BY <1>2, <3>1
    <3>4. ~(j < i)  BY <3>2
    <3> QED  BY <3>1, <3>3, <3>4
  <2>4. steps[At(i)].order \in Nat /\ steps[At(j)].order \in Nat  BY <1>1, <1>8
  <2> QED  BY <2>2, <2>3, <2>4
<1>12. NameSet(Sorted) = NameSet(steps)
  <2>1. \A k \in D : \E r \in D : At(r) = k
    <3> SUFFICES ASSUME NEW k \in D PROVE At(Place(k)) = k  BY <1>2
    <3>1. Place(At(Place(k))) = Place(k) /\ At(Place(k)) \in D  BY <1>2, <1>8
    <3> QED  BY <1>2, <1>4, <3>1
  <2>2. DOMAIN Sorted = D /\ \A r \in D : Sorted[r] = steps[At(r)]  BY <1>9
  <2> QED  BY <1>8, <2>1, <2>2 DEF NameSet, D
<1> QED  BY <1>10, <1>11, <1>12

\* The steps of main, one by one.
LEMMA BootSteps ==
    /\ Len(Boot) = 10 /\ DOMAIN Boot = 1 .. 10
    /\ Boot[1] = Step("pool-drain", 80) /\ Boot[2] = Step("pool-destroy", 85)
    /\ Boot[3] = Step("metrics-stop", 10) /\ Boot[4] = Step("run-ws", 0)
    /\ Boot[5] = Step("ws-stop-accept", 5) /\ Boot[6] = Step("ws-close-sessions", 40)
    /\ Boot[7] = Step("asio-stop", 60) /\ Boot[8] = Step("run-feed", 0)
    /\ Boot[9] = Step("ingress-stop", 35) /\ Boot[10] = Step("connectors-stop", 30)
<1> DEFINE E == BootEngine
           M == BootMarket
           S == {Step("pool-drain", 80), Step("pool-destroy", 85), Step("metrics-stop", 10), Step("run-ws", 0),
                 Step("ws-stop-accept", 5), Step("ws-close-sessions", 40), Step("asio-stop", 60),
                 Step("run-feed", 0), Step("ingress-stop", 35), Step("connectors-stop", 30)}
<1>1. E \in Seq(S)  BY DEF BootEngine
<1>2. M \in Seq(S)  BY DEF BootMarket
<1>3. /\ Len(E) = 7
      /\ E[1] = Step("pool-drain", 80) /\ E[2] = Step("pool-destroy", 85)
      /\ E[3] = Step("metrics-stop", 10) /\ E[4] = Step("run-ws", 0)
      /\ E[5] = Step("ws-stop-accept", 5) /\ E[6] = Step("ws-close-sessions", 40)
      /\ E[7] = Step("asio-stop", 60)
  BY DEF BootEngine
<1>4. /\ Len(M) = 3
      /\ M[1] = Step("run-feed", 0) /\ M[2] = Step("ingress-stop", 35) /\ M[3] = Step("connectors-stop", 30)
  BY DEF BootMarket
<1> HIDE DEF E, M, S
<1>5. Boot = E \o M  BY DEF Boot, E, M
<1>6. /\ Boot \in Seq(S) /\ Len(Boot) = 10
      /\ \A k \in 1 .. 10 : Boot[k] = IF k <= 7 THEN E[k] ELSE M[k - 7]
  <2>1. /\ Boot \in Seq(S) /\ Len(Boot) = Len(E) + Len(M)
        /\ \A k \in 1 .. Len(E) + Len(M) : Boot[k] = IF k <= Len(E) THEN E[k] ELSE M[k - Len(E)]
    BY <1>1, <1>2, <1>5, ConcatProperties, Zenon
  <2> QED  BY <1>3, <1>4, <2>1
<1>7. DOMAIN Boot = 1 .. 10  BY <1>6
<1> QED  BY <1>3, <1>4, <1>6, <1>7

\* main's steps: no two have the same order ...
LEMMA BootOrders ==
    /\ Len(Boot) = 10 /\ DOMAIN Boot = 1 .. 10
    /\ \A k \in 1 .. 10 : Boot[k].order \in Nat
    /\ \A j, k \in 1 .. 10 : Boot[j].order = Boot[k].order /\ Boot[j].order > 0 => j = k
    /\ Boot[5].order = 5 /\ Boot[6].order = 40 /\ Boot[4].order = 0 /\ Boot[8].order = 0
<1>1. Len(Boot) = 10 /\ DOMAIN Boot = 1 .. 10  BY BootSteps
<1>2. \A k \in 1 .. 10 : k = 1 \/ k = 2 \/ k = 3 \/ k = 4 \/ k = 5 \/ k = 6 \/ k = 7 \/ k = 8 \/ k = 9 \/ k = 10
  OBVIOUS
<1>3. /\ Boot[1].order = 80 /\ Boot[2].order = 85 /\ Boot[3].order = 10 /\ Boot[4].order = 0
      /\ Boot[5].order = 5 /\ Boot[6].order = 40 /\ Boot[7].order = 60 /\ Boot[8].order = 0
      /\ Boot[9].order = 35 /\ Boot[10].order = 30
  BY BootSteps DEF Step
<1>4. \A k \in 1 .. 10 : Boot[k].order \in Nat  BY <1>2, <1>3
<1>5. \A j, k \in 1 .. 10 : Boot[j].order = Boot[k].order /\ Boot[j].order > 0 => j = k
  BY <1>2, <1>3
<1> QED  BY <1>1, <1>3, <1>4, <1>5

\* ... and which line of main registers which step.
LEMMA BootNames ==
    ASSUME NEW k \in 1 .. 10
    PROVE  /\ Boot[k].name = "run-ws" <=> k = 4
           /\ Boot[k].name = "ws-stop-accept" <=> k = 5
           /\ Boot[k].name = "ws-close-sessions" <=> k = 6
           /\ Boot[k].name = "run-feed" <=> k = 8
           /\ Boot[k].name = "ingress-stop" <=> k = 9
<1>1. k = 1 \/ k = 2 \/ k = 3 \/ k = 4 \/ k = 5 \/ k = 6 \/ k = 7 \/ k = 8 \/ k = 9 \/ k = 10
  OBVIOUS
<1>2. /\ Boot[1].name = "pool-drain" /\ Boot[2].name = "pool-destroy"
      /\ Boot[3].name = "metrics-stop" /\ Boot[4].name = "run-ws"
      /\ Boot[5].name = "ws-stop-accept" /\ Boot[6].name = "ws-close-sessions"
      /\ Boot[7].name = "asio-stop" /\ Boot[8].name = "run-feed"
      /\ Boot[9].name = "ingress-stop" /\ Boot[10].name = "connectors-stop"
  BY BootSteps DEF Step
<1> QED  BY <1>1, <1>2

-----------------------------------------------------------------------------
(* The coordinator                                                         *)

\* The steps that the lines of main before `line' register.
Passed == {Boot[k] : k \in {j \in 1 .. line - 1 : Boot[j].order > 0}}

CoTypes ==
    /\ line \in 1 .. 11 /\ sub \in Nat
    /\ at \in {"none", "copy", "run", "over"}
    /\ steps \in Seq(Passed) /\ plan \in Seq(Passed) /\ ran \in Seq(Passed)

\* registerStep is between its test and its push.
TestedLine == tested => line <= 10 /\ Boot[line].order > 0

\* The steps are copied once.
NotCopied ==
    /\ at = "none" <=> ~stopping
    /\ at \in {"none", "copy"} => plan = <<>> /\ ran = <<>> /\ sub = 0 /\ DistinctOrders(steps)

InOrder ==
    /\ Ascending(plan) /\ Ascending(ran)
    /\ \A i \in DOMAIN ran, j \in DOMAIN plan : ran[i].order < plan[j].order

EarlyKept ==
    /\ at = "copy" => early \subseteq NameSet(steps)
    /\ at \in {"run", "over"} => early \subseteq NameSet(plan) \cup NameSet(ran)
    /\ at = "over" => plan = <<>>

\* ws-close-sessions is never registered without ws-stop-accept.
WsPair ==
    /\ (tested \/ ~stopping) /\ line > 5 => "ws-stop-accept" \in NameSet(steps)
    /\ at \in {"none", "copy"} /\ "ws-close-sessions" \in NameSet(steps)
          => "ws-stop-accept" \in NameSet(steps)
    /\ "ws-close-sessions" \in NameSet(plan) \cup NameSet(ran)
          => "ws-stop-accept" \in NameSet(plan) \cup NameSet(ran)

CoInv == CoTypes /\ TestedLine /\ NotCopied /\ InOrder /\ EarlyKept /\ WsPair

coVars == <<line, tested, steps, stopping, at, plan, sub, ran, early>>

\* push_back on a list of steps.
LEMMA AppendStep ==
    ASSUME NEW S, NEW s \in Seq(S), NEW x \in S
    PROVE  /\ Append(s, x) \in Seq(S)
           /\ NameSet(Append(s, x)) = NameSet(s) \cup {x.name}
           /\ Append(s, x) # <<>>
           /\ DistinctOrders(s) /\ (\A i \in DOMAIN s : s[i].order # x.order)
                 => DistinctOrders(Append(s, x))
           /\ Ascending(s) /\ (\A i \in DOMAIN s : s[i].order < x.order)
                 => Ascending(Append(s, x))
           /\ \A i \in DOMAIN Append(s, x) : Append(s, x)[i] = x \/ \E j \in DOMAIN s : Append(s, x)[i] = s[j]
<1>1. /\ Append(s, x) \in Seq(S) /\ Len(s) \in Nat
      /\ DOMAIN Append(s, x) = 1 .. Len(s) + 1 /\ DOMAIN s = 1 .. Len(s)
      /\ \A i \in 1 .. Len(s) : Append(s, x)[i] = s[i]
      /\ Append(s, x)[Len(s) + 1] = x
  OBVIOUS
<1>2. NameSet(Append(s, x)) = NameSet(s) \cup {x.name}  BY <1>1 DEF NameSet
<1>3. DistinctOrders(s) /\ (\A i \in DOMAIN s : s[i].order # x.order) => DistinctOrders(Append(s, x))
  BY <1>1 DEF DistinctOrders
<1>4. Ascending(s) /\ (\A i \in DOMAIN s : s[i].order < x.order) => Ascending(Append(s, x))
  BY <1>1 DEF Ascending
<1>5. Append(s, x) # <<>>  BY <1>1
<1> QED  BY <1>1, <1>2, <1>3, <1>4, <1>5

\* The first of the steps that are still to run is taken off.
LEMMA TailSteps ==
    ASSUME NEW S, NEW s \in Seq(S), s # <<>>
    PROVE  /\ Head(s) \in S /\ Tail(s) \in Seq(S)
           /\ NameSet(s) = {Head(s).name} \cup NameSet(Tail(s))
           /\ Ascending(s) => /\ Ascending(Tail(s))
                              /\ \A i \in DOMAIN Tail(s) : Head(s).order < Tail(s)[i].order
           /\ \A i \in DOMAIN Tail(s) : \E j \in DOMAIN s : Tail(s)[i] = s[j]
           /\ 1 \in DOMAIN s /\ Head(s) = s[1]
<1>1. /\ Tail(s) \in Seq(S) /\ Head(s) \in S
      /\ DOMAIN Tail(s) = 1 .. Len(s) - 1
      /\ DOMAIN s = 1 .. Len(s) /\ Len(s) \in Nat /\ Len(s) > 0
      /\ \A i \in 1 .. Len(s) - 1 : Tail(s)[i] = s[i + 1]
      /\ Head(s) = s[1]
  OBVIOUS
<1>2. NameSet(s) = {Head(s).name} \cup NameSet(Tail(s))
  <2>1. ASSUME NEW i \in DOMAIN s PROVE s[i].name \in {Head(s).name} \cup NameSet(Tail(s))
    <3>1. CASE i = 1  BY <1>1, <3>1
    <3>2. CASE i # 1
      <4>1. i - 1 \in DOMAIN Tail(s) /\ Tail(s)[i - 1] = s[i]  BY <1>1, <3>2
      <4> QED  BY <4>1 DEF NameSet
    <3> QED  BY <3>1, <3>2
  <2>2. Head(s).name \in NameSet(s)  BY <1>1 DEF NameSet
  <2>3. NameSet(Tail(s)) \subseteq NameSet(s)  BY <1>1 DEF NameSet
  <2> QED  BY <2>1, <2>2, <2>3 DEF NameSet
<1>3. Ascending(s) => /\ Ascending(Tail(s))
                      /\ \A i \in DOMAIN Tail(s) : Head(s).order < Tail(s)[i].order
  BY <1>1 DEF Ascending
<1> QED  BY <1>1, <1>2, <1>3

\* What a registered step is.
LEMMA PassedFacts ==
    ASSUME line \in 1 .. 11, NEW x \in Passed
    PROVE  /\ x.order \in Nat
           /\ \E k \in 1 .. 10 : k < line /\ x = Boot[k] /\ Boot[k].order > 0
           /\ x.name = "ws-stop-accept" => x = Boot[5] /\ line > 5
           /\ x.name = "ws-close-sessions" => x = Boot[6] /\ line > 6
           /\ x.name = "ingress-stop" => x = Boot[9] /\ line > 9
<1>1. PICK k \in 1 .. 10 : k < line /\ x = Boot[k] /\ Boot[k].order > 0
  BY DEF Passed
<1> QED  BY <1>1, BootOrders, BootNames

\* Nothing is registered or planned before main's first line.
LEMMA CoInit == Init => CoInv
<1> SUFFICES ASSUME Init PROVE CoInv  OBVIOUS
<1>1. NameSet(<<>>) = {}  BY DEF NameSet
<1> QED  BY <1>1 DEF Init, CoInv, CoTypes, TestedLine, NotCopied, InOrder, EarlyKept, WsPair,
                     Ascending, DistinctOrders

\* main goes on: what was registered stays registered.
LEMMA PassedGrows ==
    ASSUME line \in 1 .. 10, line' = line + 1
    PROVE  /\ line' \in 1 .. 11 /\ Passed \subseteq Passed'
           /\ \A s \in Seq(Passed) : s \in Seq(Passed')
           /\ Boot[line].order > 0 => Boot[line] \in Passed'
<1>1. Passed \subseteq Passed'  BY DEF Passed
<1>2. \A s \in Seq(Passed) : s \in Seq(Passed')  BY <1>1
<1>3. Boot[line].order > 0 => Boot[line] \in Passed'  BY DEF Passed
<1> QED  BY <1>1, <1>2, <1>3

\* registerStep, before the lock and under it, and the lines in between.
LEMMA CoMain ==
    ASSUME CoInv, RegisterTest \/ RegisterPush \/ StartServer
    PROVE  CoInv'
<1> USE DEF CoInv, CoTypes, TestedLine, NotCopied, EarlyKept, WsPair
<1>1. CASE RegisterTest
  <2>1. /\ line \in 1 .. 10 /\ Boot[line].order > 0 /\ ~tested
        /\ UNCHANGED <<steps, stopping, at, plan, sub, ran, early>>
    BY <1>1, BootOrders DEF RegisterTest, stopVars
  <2>2. UNCHANGED <<NameSet(steps), NameSet(plan), NameSet(ran), DistinctOrders(steps), InOrder>>
    BY <2>1 DEF InOrder, DistinctOrders, Ascending, NameSet
  <2>3. CASE stopping
    <3>1. line' = line + 1 /\ UNCHANGED tested  BY <1>1, <2>3 DEF RegisterTest
    <3> QED  BY <2>1, <2>2, <2>3, <3>1, PassedGrows
  <2>4. CASE ~stopping
    <3>1. tested' = TRUE /\ UNCHANGED line  BY <1>1, <2>4 DEF RegisterTest
    <3>2. UNCHANGED Passed  BY <3>1 DEF Passed
    <3> QED  BY <2>1, <2>2, <2>4, <3>1, <3>2
  <2> QED  BY <2>3, <2>4
<1>2. CASE RegisterPush
  <2>1. /\ line \in 1 .. 10 /\ Boot[line].order > 0 /\ tested /\ ~tested' /\ line' = line + 1
        /\ steps' = Append(steps, Boot[line])
        /\ UNCHANGED <<stopping, at, plan, sub, ran, early>>
    BY <1>2 DEF RegisterPush
  <2>2. /\ steps \in Seq(Passed') /\ plan' \in Seq(Passed') /\ ran' \in Seq(Passed')
        /\ Boot[line] \in Passed' /\ line' \in 1 .. 11
    BY <2>1, PassedGrows
  <2>3. /\ steps' \in Seq(Passed') /\ NameSet(steps') = NameSet(steps) \cup {Boot[line].name}
        /\ DistinctOrders(steps) /\ (\A i \in DOMAIN steps : steps[i].order # Boot[line].order)
              => DistinctOrders(steps')
    BY <2>1, <2>2, AppendStep
  <2>4. \A i \in DOMAIN steps : steps[i].order # Boot[line].order
    <3> SUFFICES ASSUME NEW i \in DOMAIN steps PROVE steps[i].order # Boot[line].order  OBVIOUS
    <3>1. steps[i] \in Passed  OBVIOUS
    <3>2. PICK k \in 1 .. 10 : k < line /\ steps[i] = Boot[k] /\ Boot[k].order > 0
      BY <3>1, PassedFacts
    <3>3. line \in 1 .. 10 /\ Boot[k].order > 0 /\ k # line  BY <2>1, <3>2
    <3>4. Boot[k].order # Boot[line].order  BY <3>3, BootOrders
    <3> QED  BY <3>2, <3>4
  <2>5. UNCHANGED <<NameSet(plan), NameSet(ran), InOrder>>
    BY <2>1 DEF InOrder, Ascending, NameSet
  <2>6. Boot[line].name = "ws-close-sessions" => line = 6
    BY <2>1, BootNames
  <2>7. Boot[line].name = "ws-stop-accept" <=> line = 5
    BY <2>1, BootNames
  <2>8. CoTypes' /\ TestedLine' /\ InOrder'  BY <2>1, <2>2, <2>3, <2>5
  <2>9. NotCopied' /\ EarlyKept'  BY <2>1, <2>3, <2>4, <2>5
  <2>10. WsPair'  BY <2>1, <2>3, <2>5, <2>6, <2>7
  <2> QED  BY <2>8, <2>9, <2>10
<1>3. CASE StartServer
  <2>1. /\ line \in {4, 8} /\ line' = line + 1 /\ ~tested
        /\ UNCHANGED <<tested, steps, stopping, at, plan, sub, ran, early>>
    <3>1. /\ line <= Len(Boot) /\ line \in 1 .. 11 /\ Boot[line].name \in {"run-ws", "run-feed"}
          /\ line' = line + 1 /\ UNCHANGED <<tested, stopVars>>
      BY <1>3 DEF StartServer
    <3>2. line \in 1 .. 10  BY <3>1, BootOrders
    <3>3. line \in {4, 8}  BY <3>1, <3>2, BootNames
    <3>4. Boot[line].order = 0  BY <3>3, BootOrders
    <3> QED  BY <3>1, <3>3, <3>4 DEF stopVars
  <2>2. UNCHANGED <<NameSet(steps), NameSet(plan), NameSet(ran), DistinctOrders(steps), InOrder>>
    BY <2>1 DEF InOrder, DistinctOrders, Ascending, NameSet
  <2> QED  BY <2>1, <2>2, PassedGrows
<1> QED  BY <1>1, <1>2, <1>3

\* The compare-and-swap of stop(), by a signal or by main itself.
LEMMA CoSignal ==
    ASSUME CoInv, Signal \/ OwnStop, stopping' # stopping
    PROVE  CoInv'
<1>1. /\ ~stopping /\ stopping' /\ at' = "copy" /\ early' = NameSet(steps)
      /\ UNCHANGED <<line, tested, steps, plan, sub, ran>>
  BY DEF Signal, OwnStop
<1>2. UNCHANGED <<NameSet(steps), NameSet(plan), NameSet(ran), DistinctOrders(steps), InOrder, Passed>>
  BY <1>1 DEF InOrder, DistinctOrders, Ascending, NameSet, Passed
<1> QED  BY <1>1, <1>2 DEF CoInv, CoTypes, TestedLine, NotCopied, EarlyKept, WsPair

\* stop() sorts what was registered so far and copies it.
LEMMA CoCopy == ASSUME CoInv, CopySteps PROVE CoInv'
<1> USE DEF CoInv, CoTypes, TestedLine, NotCopied, EarlyKept, WsPair
<1>1. /\ at = "copy" /\ at' = "run" /\ plan' = Sorted /\ steps' = Sorted
      /\ ran = <<>> /\ DistinctOrders(steps)
      /\ UNCHANGED <<line, tested, stopping, sub, ran, early>>
  BY DEF CopySteps
<1>2. \A x \in Passed : x.order \in Nat  BY PassedFacts
<1>3. Sorted \in Seq(Passed) /\ Ascending(Sorted) /\ NameSet(Sorted) = NameSet(steps)
  BY <1>1, <1>2, SortedSteps
<1>4. UNCHANGED Passed  BY <1>1 DEF Passed
<1>5. NameSet(steps') = NameSet(steps) /\ NameSet(plan') = NameSet(steps) /\ NameSet(ran') = {}
  <2>1. ran' = <<>> /\ steps' = Sorted /\ plan' = Sorted  BY <1>1
  <2>2. NameSet(<<>>) = {}  BY DEF NameSet
  <2>3. NameSet(Sorted) = NameSet(steps)  BY <1>3
  <2> HIDE DEF CoInv, CoTypes, TestedLine, NotCopied, EarlyKept, WsPair
  <2>4. NameSet(ran') = NameSet(<<>>) /\ NameSet(steps') = NameSet(Sorted) /\ NameSet(plan') = NameSet(Sorted)
    BY <2>1 DEF NameSet
  <2> QED  BY <2>2, <2>3, <2>4
<1>6. InOrder'  BY <1>1, <1>3 DEF InOrder, Ascending
<1>7. (CoTypes /\ TestedLine /\ NotCopied)'  BY <1>1, <1>3, <1>4
<1>8. (EarlyKept /\ WsPair)'  BY <1>1, <1>5
<1> QED  BY <1>6, <1>7, <1>8

\* A step of the plan returns or throws: it has been called.
LEMMA CoStepEnds ==
    ASSUME CoInv, at = "run", plan # <<>>, StepEnds,
           UNCHANGED <<line, tested, steps, stopping, at, early>>
    PROVE  /\ CoInv'
           /\ NameSet(ran') = NameSet(ran) \cup {Current} /\ sub' = 0
<1> USE DEF CoInv, CoTypes, TestedLine, NotCopied, EarlyKept, WsPair
<1>1. plan' = Tail(plan) /\ ran' = Append(ran, Head(plan)) /\ sub' = 0 /\ Current = Head(plan).name
  BY DEF StepEnds, Current
<1>2. UNCHANGED <<Passed, NameSet(steps), DistinctOrders(steps)>>
  BY DEF Passed, NameSet, DistinctOrders
<1>3. /\ Head(plan) \in Passed /\ plan' \in Seq(Passed)
      /\ NameSet(plan) = {Current} \cup NameSet(plan')
      /\ Ascending(plan') /\ \A i \in DOMAIN plan' : Head(plan).order < plan'[i].order
      /\ \A i \in DOMAIN plan' : \E j \in DOMAIN plan : plan'[i] = plan[j]
      /\ 1 \in DOMAIN plan /\ Head(plan) = plan[1]
  BY <1>1, TailSteps DEF InOrder
<1>4. \A i \in DOMAIN ran : ran[i].order < Head(plan).order
  BY <1>3 DEF InOrder
<1>5. /\ ran' \in Seq(Passed) /\ NameSet(ran') = NameSet(ran) \cup {Current} /\ Ascending(ran')
      /\ \A i \in DOMAIN ran' : ran'[i] = Head(plan) \/ \E j \in DOMAIN ran : ran'[i] = ran[j]
  BY <1>1, <1>3, <1>4, AppendStep DEF InOrder
<1>6. InOrder'
  <2> SUFFICES ASSUME NEW i \in DOMAIN ran', NEW j \in DOMAIN plan'
               PROVE  ran'[i].order < plan'[j].order
    BY <1>3, <1>5 DEF InOrder
  <2>1. CASE ran'[i] = Head(plan)  BY <1>3, <2>1
  <2>2. CASE \E m \in DOMAIN ran : ran'[i] = ran[m]
    BY <1>3, <2>2 DEF InOrder
  <2> QED  BY <1>5, <2>1, <2>2
<1>7. (CoTypes /\ TestedLine /\ NotCopied)'  BY <1>1, <1>2, <1>3, <1>5
<1>8. (EarlyKept /\ WsPair)'  BY <1>2, <1>3, <1>5
<1> QED  BY <1>1, <1>5, <1>6, <1>7, <1>8

\* A step of the plan has more to do.
LEMMA CoStepGoesOn ==
    ASSUME CoInv, StepGoesOn, at = "run", UNCHANGED <<line, tested, steps, stopping, at, early>>
    PROVE  CoInv' /\ UNCHANGED <<NameSet(ran), Current>>
<1>1. sub' = sub + 1 /\ UNCHANGED <<plan, ran>>  BY DEF StepGoesOn
<1>2. UNCHANGED <<NameSet(steps), NameSet(plan), NameSet(ran), DistinctOrders(steps), InOrder, Passed, Current>>
  BY <1>1 DEF InOrder, DistinctOrders, Ascending, NameSet, Passed, Current
<1> QED  BY <1>1, <1>2 DEF CoInv, CoTypes, TestedLine, NotCopied, EarlyKept, WsPair

\* Nothing of the coordinator changes.
LEMMA CoSame ==
    ASSUME CoInv, UNCHANGED coVars
    PROVE  CoInv' /\ UNCHANGED <<NameSet(ran), Current>>
<1>1. UNCHANGED <<NameSet(steps), NameSet(plan), NameSet(ran), DistinctOrders(steps), InOrder, Passed, Current>>
  BY DEF coVars, InOrder, DistinctOrders, Ascending, NameSet, Passed, Current
<1> QED  BY <1>1 DEF coVars, CoInv, CoTypes, TestedLine, NotCopied, EarlyKept, WsPair

\* Every step has been called.
LEMMA CoOver == ASSUME CoInv, StopOver PROVE CoInv'
<1>1. at = "run" /\ at' = "over" /\ plan = <<>> /\ UNCHANGED <<line, tested, steps, stopping, plan, sub, ran, early>>
  BY DEF StopOver
<1>2. UNCHANGED <<NameSet(steps), NameSet(plan), NameSet(ran), DistinctOrders(steps), InOrder, Passed>>
  BY <1>1 DEF InOrder, DistinctOrders, Ascending, NameSet, Passed
<1> QED  BY <1>1, <1>2 DEF CoInv, CoTypes, TestedLine, NotCopied, EarlyKept, WsPair

\* The steps that leave the coordinator as it is, and those that call stop().
LEMMA CoNext == ASSUME CoInv, [Next]_vars PROVE CoInv'
<1>1. CASE RegisterTest \/ RegisterPush \/ StartServer  BY <1>1, CoMain
<1>2. CASE EnterRun \/ StopReturns \/ Handler \/ Poll \/ StopSleeps \/ HandlerWaits \/ WaitEnds \/ UNCHANGED vars
  <2>1. UNCHANGED coVars
    BY <1>2 DEF EnterRun, StopReturns, Handler, Poll, StopSleeps, HandlerWaits, WaitEnds, vars, coVars, stopVars
  <2> QED  BY <2>1, CoSame
<1>3. CASE RunReturns \/ RunThrows \/ Signal
  <2>1. Signal \/ OwnStop  BY <1>3 DEF RunReturns, RunThrows
  <2>2. CASE stopping' # stopping  BY <2>1, <2>2, CoSignal
  <2>3. CASE stopping' = stopping
    <3>1. UNCHANGED coVars
      <4>1. CASE Signal  BY <2>3, <4>1 DEF Signal
      <4>2. CASE OwnStop  BY <2>3, <4>2 DEF OwnStop, coVars
      <4> QED  BY <2>1, <4>1, <4>2
    <3> QED  BY <3>1, CoSame
  <2> QED  BY <2>2, <2>3
<1>4. CASE CopySteps  BY <1>4, CoCopy
<1>5. CASE StopOver  BY <1>5, CoOver
<1>6. CASE RunOther \/ RunWsStopAccept \/ RunIngressStop \/ RunCloseSessions \/ RunAsioStop
  <2>1. /\ at = "run" /\ plan # <<>> /\ UNCHANGED <<line, tested, steps, stopping, at, early>>
        /\ StepEnds \/ StepGoesOn \/ UNCHANGED <<plan, ran, sub>>
    BY <1>6 DEF RunOther, RunWsStopAccept, RunIngressStop, FeedStop, RunCloseSessions, RunAsioStop,
                Current, Stepping
  <2>2. CASE StepEnds  BY <2>1, <2>2, CoStepEnds
  <2>3. CASE StepGoesOn  BY <2>1, <2>3, CoStepGoesOn
  <2>4. CASE UNCHANGED <<plan, ran, sub>>  BY <2>1, <2>4, CoSame DEF coVars
  <2> QED  BY <2>1, <2>2, <2>3, <2>4
<1> QED  BY <1>1, <1>2, <1>3, <1>4, <1>5, <1>6 DEF Next, MainStep, Stop

\* stop() calls each step at most once and in ascending order, and has called
\* every step registered before it when it is over, although main may go on
\* registering steps while it runs: the plan is a sorted copy of steps_.
THEOREM StopTheorem == Spec => []StepsComplete
<1>1. CoInv => StepsComplete
  <2> SUFFICES ASSUME CoInv PROVE StepsComplete  OBVIOUS
  <2>1. \A j, k \in DOMAIN ran : j < k => ran[j].order < ran[k].order
    BY DEF CoInv, InOrder, Ascending
  <2>2. at = "over" => early \subseteq NameSet(ran)
    <3>1. NameSet(<<>>) = {}  BY DEF NameSet
    <3>2. at = "over" => plan = <<>> /\ early \subseteq NameSet(plan) \cup NameSet(ran)
      BY DEF CoInv, EarlyKept
    <3>3. at = "over" => NameSet(plan) = {}  BY <3>1, <3>2
    <3> QED  BY <3>2, <3>3
  <2> QED  BY <2>1, <2>2 DEF StepsComplete
<1>2. CoInv /\ [Next]_vars => CoInv'  BY CoNext
<1> QED  BY <1>1, <1>2, CoInit, PTL DEF Spec

-----------------------------------------------------------------------------
(* What the steps of the plan have done                                    *)

Doing(name, k) == Current = name /\ sub >= k

Ran(name) == name \in NameSet(ran)

\* The acceptor of clients has been stopped before its sessions are closed.
LEMMA AcceptStoppedFirst ==
    ASSUME CoInv, Current = "ws-close-sessions" \/ Ran("ws-close-sessions")
    PROVE  Ran("ws-stop-accept")
<1> USE DEF CoInv, CoTypes
<1>1. /\ \A i \in DOMAIN plan : plan[i] \in Passed
      /\ \A i \in DOMAIN ran : ran[i] \in Passed
  OBVIOUS
<1>2. Current = "ws-close-sessions" =>
        /\ plan # <<>> /\ 1 \in DOMAIN plan /\ plan[1].name = "ws-close-sessions"
        /\ Head(plan) = plan[1]
  BY DEF Current
<1>3. "ws-close-sessions" \in NameSet(plan) \cup NameSet(ran)
  BY <1>2 DEF Ran, NameSet
<1>4. "ws-stop-accept" \in NameSet(plan) \cup NameSet(ran)
  BY <1>3 DEF WsPair
<1>5. ASSUME NEW i \in DOMAIN plan, plan[i].name = "ws-stop-accept" PROVE FALSE
  <2>1. plan[i] = Boot[5] /\ plan[i].order = 5
    BY <1>1, <1>5, PassedFacts, BootOrders
  <2>2. CASE Current = "ws-close-sessions"
    <3>1. plan[1].order = 40  BY <1>1, <1>2, <2>2, PassedFacts, BootOrders
    <3>2. i # 1  BY <2>1, <3>1
    <3>3. 1 < i  BY <3>2
    <3>4. plan[1].order < plan[i].order  BY <1>2, <2>2, <3>3 DEF InOrder, Ascending
    <3> QED  BY <2>1, <3>1, <3>4
  <2>3. CASE Ran("ws-close-sessions")
    <3>1. PICK j \in DOMAIN ran : ran[j].name = "ws-close-sessions"  BY <2>3 DEF Ran, NameSet
    <3>2. ran[j].order = 40  BY <1>1, <3>1, PassedFacts, BootOrders
    <3>3. ran[j].order < plan[i].order  BY DEF InOrder
    <3> QED  BY <2>1, <3>2, <3>3
  <2> QED  BY <2>2, <2>3
<1>6. "ws-stop-accept" \notin NameSet(plan)  BY <1>5 DEF NameSet
<1> QED  BY <1>4, <1>6 DEF Ran

\* A step of the coordinator other than the end of the step `name' starts or
\* ends no part of it.
LEMMA OtherStep ==
    ASSUME CoInv, NEW name, name # "none",
           \/ RegisterTest \/ RegisterPush \/ StartServer \/ Signal \/ OwnStop \/ CopySteps \/ StopOver
           \/ /\ at = "run" /\ plan # <<>> /\ Current # name
              /\ StepEnds \/ StepGoesOn \/ UNCHANGED <<plan, ran, sub>>
              /\ UNCHANGED <<line, tested, steps, stopping, at, early>>
    PROVE  /\ Ran(name)' => Ran(name)
           /\ \A k \in Nat \ {0} : Doing(name, k)' => Doing(name, k)
           /\ Current = name => Current' = name /\ sub' = sub
<1>1. sub \in Nat  BY DEF CoInv, CoTypes
<1>2. CASE RegisterTest \/ RegisterPush \/ StartServer
  <2>1. UNCHANGED <<at, plan, sub, ran>>
    BY <1>2 DEF RegisterTest, RegisterPush, StartServer, stopVars
  <2> QED  BY <2>1 DEF Ran, Doing, Current, NameSet
<1>3. CASE Signal \/ OwnStop
  <2>1. UNCHANGED <<plan, sub, ran>> /\ (at' = at \/ (at = "none" /\ at' = "copy"))
    BY <1>3 DEF Signal, OwnStop, CoInv, NotCopied
  <2> QED  BY <2>1 DEF Ran, Doing, Current, NameSet
<1>4. CASE CopySteps
  <2>1. at = "copy" /\ sub = 0 /\ sub' = 0 /\ ran' = ran
    BY <1>4 DEF CopySteps, CoInv, NotCopied
  <2> QED  BY <2>1 DEF Ran, Doing, Current, NameSet
<1>5. CASE StopOver
  <2>1. UNCHANGED <<plan, sub, ran>> /\ plan = <<>>  BY <1>5 DEF StopOver
  <2> QED  BY <2>1 DEF Ran, Doing, Current, NameSet
<1>6. CASE /\ at = "run" /\ plan # <<>> /\ Current # name
           /\ StepEnds \/ StepGoesOn \/ UNCHANGED <<plan, ran, sub>>
           /\ UNCHANGED <<line, tested, steps, stopping, at, early>>
  <2>1. CASE StepEnds
    <3>1. NameSet(ran') = NameSet(ran) \cup {Current} /\ sub' = 0
      BY <1>6, <2>1, CoStepEnds
    <3>2. NameSet(ran') = NameSet(ran)'  BY DEF NameSet
    <3> QED  BY <1>6, <3>1, <3>2 DEF Ran, Doing
  <2>2. CASE StepGoesOn
    <3>1. UNCHANGED <<NameSet(ran), Current>>  BY <1>6, <2>2, CoStepGoesOn
    <3> QED  BY <1>6, <3>1 DEF Ran, Doing
  <2>3. CASE UNCHANGED <<plan, ran, sub>>
    BY <1>6, <2>3 DEF Ran, Doing, Current, NameSet
  <2> QED  BY <1>6, <2>1, <2>2, <2>3
<1> QED  BY <1>2, <1>3, <1>4, <1>5, <1>6

-----------------------------------------------------------------------------
(* The feed server                                                         *)

FeedShapes ==
    /\ sessions \subseteq Producers /\ IsFiniteSet(sessions) /\ copy \subseteq Producers
    /\ conn \in [Producers -> {"out", "refused", "open", "closed"}]

\* Only the main thread in run() is inside a handler.
HandlerRuns == main # "run" => io = Between

\* A producer that is being accepted has no session yet, and is the only one.
Incoming ==
    /\ accept \in Producers => conn[accept] = "out"
    /\ io.at \in {"feed-cap", "feed-insert"} =>
          io.who \in Producers /\ conn[io.who] = "out" /\ accept = "none"

Registry == sessions = {p \in Producers : conn[p] = "open"} \ copy

\* Between the test of the cap and the insertion the set only shrinks.
UnderCap ==
    /\ Cardinality(sessions) <= MaxFeedSessions
    /\ io.at = "feed-insert" => Cardinality(sessions) < MaxFeedSessions

CopyHeld ==
    /\ copy # {} => Doing("ingress-stop", 3)
    /\ \A p \in copy : conn[p] # "out"

Told == Doing("ingress-stop", 1) \/ Ran("ingress-stop")
Cleared == Doing("ingress-stop", 3) \/ Ran("ingress-stop")

\* Once stop() has reset accepting_, only the producer whose handler was past
\* its test of it can still get a session.
FeedLate ==
    /\ Told => ~accepting
    /\ ~accepting /\ io.at \in {"feed-cap", "feed-insert"} => io.who \in late
    /\ Cleared => sessions \subseteq late

\* Only a closed session has left a handler behind.
QueuedClosed == queued \subseteq {p \in Producers : conn[p] = "closed"}

FeedInv == FeedShapes /\ HandlerRuns /\ Incoming /\ Registry /\ UnderCap /\ CopyHeld /\ FeedLate

\* The feed server starts without sessions.
LEMMA FeedInitInv == Init => FeedInv /\ QueuedClosed
<1> SUFFICES ASSUME Init PROVE FeedInv /\ QueuedClosed  OBVIOUS
<1>1. NameSet(ran) = {} /\ Current = "none"  BY DEF Init, NameSet, Current
<1>2. /\ io.at = "between" /\ main = "boot" /\ io = Between /\ accept = "none" /\ sessions = {} /\ copy = {}
      /\ conn = [p \in Producers |-> "out"]
  BY DEF Init, FeedInit, Between
<1>3. MaxFeedSessions \in Nat  BY FeedServerAssumption
<1>4. FeedShapes /\ UnderCap  BY <1>2, <1>3, FS_EmptySet DEF FeedShapes, UnderCap
<1>5. HandlerRuns /\ Incoming /\ Registry  BY <1>2, FeedServerAssumption DEF HandlerRuns, Incoming, Registry
<1>6. CopyHeld /\ FeedLate  BY <1>1, <1>2 DEF CopyHeld, FeedLate, Told, Cleared, Doing, Ran
<1>7. QueuedClosed  BY DEF Init, FeedInit, QueuedClosed
<1> QED  BY <1>4, <1>5, <1>6, <1>7 DEF FeedInv

\* A step that leaves the feed server alone.
LEMMA FeedFrame ==
    ASSUME FeedInv, UNCHANGED feedVars, late \subseteq late',
           io' = io \/ io'.at \notin {"feed-cap", "feed-insert"},
           main' # "run" => io' = Between,
           Told' => Told, Cleared' => Cleared,
           copy # {} => Doing("ingress-stop", 3)'
    PROVE  FeedInv'
BY DEF FeedInv, feedVars, FeedShapes, HandlerRuns, Incoming, Registry, UnderCap, CopyHeld, FeedLate, streamVars

\* Sessions that end by themselves: removal from the set and from the cap.
LEMMA SmallerSet ==
    ASSUME NEW S, NEW T \in SUBSET S, IsFiniteSet(S)
    PROVE  IsFiniteSet(T) /\ Cardinality(T) <= Cardinality(S) /\ Cardinality(T) \in Nat
           /\ Cardinality(S) \in Nat
BY FS_Subset, FS_CardinalityType

\* The handlers of the feed server, and the accepts that complete.
LEMMA FeedHandlers ==
    ASSUME CoInv, FeedInv, QueuedClosed, FeedIo \/ FeedPoll, main = "run", UNCHANGED <<coVars, main, late>>
    PROVE  FeedInv'
<1> USE FeedServerAssumption DEF Between
<1>1. UNCHANGED <<Told, Cleared, Doing("ingress-stop", 3)>>
  BY DEF coVars, Told, Cleared, Doing, Ran, Current, NameSet
<1>2. Cardinality(sessions) \in Nat /\ IsFiniteSet(sessions)
  BY FS_CardinalityType DEF FeedInv, FeedShapes
<1>3. ASSUME NEW p \in Producers, Close(p), conn[p] \in {"open", "closed"},
             UNCHANGED <<accepting, accept, copy, io>>
      PROVE  FeedInv'
  <2>1. sessions' \subseteq sessions /\ IsFiniteSet(sessions') /\ Cardinality(sessions') <= Cardinality(sessions)
        /\ Cardinality(sessions') \in Nat
    BY <1>2, <1>3, SmallerSet DEF Close
  <2>2. FeedShapes' /\ HandlerRuns' /\ UnderCap' /\ FeedLate'
    BY <1>1, <1>2, <1>3, <2>1 DEF FeedInv, FeedShapes, HandlerRuns, UnderCap, FeedLate, Close
  <2>3. Incoming' /\ Registry' /\ CopyHeld'
    BY <1>1, <1>3 DEF FeedInv, FeedShapes, Incoming, Registry, CopyHeld, Close
  <2> QED  BY <2>2, <2>3 DEF FeedInv
<1>4. CASE \E p \in Producers : OnEnd(p)
  BY <1>3, <1>4 DEF OnEnd, streamVars, ioVars
<1>5. CASE \E p \in Producers : \E k \in 1 .. BufSize : OnRead(p, k)
  <2>1. PICK p \in Producers, k \in 1 .. BufSize : OnRead(p, k)  BY <1>5
  <2>2. CASE Close(p)
    <3>1. conn[p] \in {"open", "closed"} /\ UNCHANGED <<accepting, accept, copy, io>>
      BY <2>1 DEF OnRead, ioVars, QueuedClosed
    <3> QED  BY <1>3, <2>2, <3>1
  <2>3. CASE UNCHANGED <<conn, sessions>>
    <3>1. UNCHANGED <<accepting, accept, sessions, conn, copy, io>>
      BY <2>1, <2>3 DEF OnRead, ioVars
    <3> QED
      BY <1>1, <3>1 DEF FeedInv, FeedShapes, HandlerRuns, Incoming, Registry, UnderCap, CopyHeld, FeedLate
  <2> QED  BY <2>1, <2>2, <2>3 DEF OnRead
<1>6. CASE FeedPoll
  <2>1. PICK p \in Producers : Connect(p)  BY <1>6 DEF FeedPoll
  <2>2. /\ io = Between /\ conn[p] = "out" /\ accept' = p
        /\ UNCHANGED <<accepting, sessions, conn, copy, io>>
    BY <2>1 DEF Connect, Idle, ioVars, streamVars
  <2> QED  BY <1>1, <2>2 DEF FeedInv, FeedShapes, HandlerRuns, Incoming, Registry, UnderCap, CopyHeld, FeedLate
<1>7. CASE OnAccept
  <2>1. /\ io = Between /\ accept \in Producers /\ accept' = "none" /\ conn[accept] = "out"
        /\ UNCHANGED <<accepting, sessions, copy>>
    BY <1>7 DEF OnAccept, Idle, streamVars, FeedInv, Incoming
  <2>2. CASE accepting /\ Goto("feed-cap", accept) /\ UNCHANGED conn
    BY <1>1, <2>1, <2>2 DEF Goto, FeedInv, FeedShapes, HandlerRuns, Incoming, Registry, UnderCap, CopyHeld, FeedLate
  <2>3. CASE ~accepting /\ Done /\ Forget(accept)
    BY <1>1, <2>1, <2>3 DEF Done, Forget, FeedInv, FeedShapes, HandlerRuns, Incoming, Registry, UnderCap, CopyHeld, FeedLate
  <2> QED  BY <1>7, <2>2, <2>3 DEF OnAccept
<1>8. CASE OnAcceptError \/ DoAcceptTest \/ DoAcceptArm
  <2>1. /\ accept' \in {"none", "armed", accept} /\ io'.at \notin {"feed-cap", "feed-insert"}
        /\ UNCHANGED <<accepting, sessions, conn, copy>>
    BY <1>8 DEF OnAcceptError, DoAcceptTest, DoAcceptArm, Goto, Done, Idle, streamVars, feedVars
  <2> QED  BY <1>1, <2>1 DEF FeedInv, FeedShapes, HandlerRuns, Incoming, Registry, UnderCap, CopyHeld, FeedLate
<1>9. CASE OnAcceptCap
  <2>1. io.at = "feed-cap" /\ io.who \in Producers /\ conn[io.who] = "out" /\ accept = "none"
        /\ UNCHANGED <<accepting, accept, sessions, copy>>
    BY <1>9 DEF OnAcceptCap, streamVars, FeedInv, Incoming
  <2>2. CASE Forget(io.who) /\ Goto("feed-rearm", 0)
    BY <1>1, <2>1, <2>2 DEF Goto, Forget, FeedInv, FeedShapes, HandlerRuns, Incoming, Registry, UnderCap, CopyHeld, FeedLate
  <2>3. CASE Cardinality(sessions) < MaxFeedSessions /\ Goto("feed-insert", io.who) /\ UNCHANGED conn
    BY <1>1, <2>1, <2>3 DEF Goto, FeedInv, FeedShapes, HandlerRuns, Incoming, Registry, UnderCap, CopyHeld, FeedLate
  <2> QED  BY <1>9, <2>2, <2>3 DEF OnAcceptCap
<1>10. CASE OnAcceptInsert
  <2>1. /\ io.at = "feed-insert" /\ io.who \in Producers /\ conn[io.who] = "out" /\ accept = "none"
        /\ Cardinality(sessions) < MaxFeedSessions
        /\ sessions' = sessions \cup {io.who} /\ conn' = [conn EXCEPT ![io.who] = "open"]
        /\ io' = [at |-> "feed-rearm", who |-> 0]
        /\ UNCHANGED <<accepting, accept, copy>>
    BY <1>10 DEF OnAcceptInsert, streamVars, FeedInv, Incoming, UnderCap, Goto
  <2>2. io.who \notin copy  BY <2>1 DEF FeedInv, CopyHeld
  <2>3. IsFiniteSet(sessions') /\ Cardinality(sessions') <= Cardinality(sessions) + 1 /\ Cardinality(sessions') \in Nat
    <3>1. /\ IsFiniteSet(sessions \cup {io.who})
          /\ Cardinality(sessions \cup {io.who})
                = IF io.who \in sessions THEN Cardinality(sessions) ELSE Cardinality(sessions) + 1
      BY <1>2, FS_AddElement
    <3> QED  BY <1>2, <2>1, <3>1
  <2>4. FeedShapes' /\ HandlerRuns' /\ Incoming' /\ CopyHeld'
    BY <1>1, <2>1, <2>3 DEF FeedInv, FeedShapes, HandlerRuns, Incoming, CopyHeld
  <2>5. Registry'  BY <2>1, <2>2 DEF FeedInv, FeedShapes, Registry
  <2>6. UnderCap'  BY <1>2, <2>1, <2>3 DEF UnderCap
  <2>7. FeedLate'
    <3>1. Cleared => Told  BY DEF CoInv, CoTypes, Cleared, Told, Doing
    <3>2. Told => io.who \in late  BY <2>1 DEF FeedInv, FeedLate
    <3> QED  BY <1>1, <2>1, <3>1, <3>2 DEF FeedInv, FeedLate
  <2> QED  BY <2>4, <2>5, <2>6, <2>7 DEF FeedInv
<1> QED  BY <1>4, <1>5, <1>6, <1>7, <1>8, <1>9, <1>10 DEF FeedIo

\* run() of the feed server happens before its shutdown step is registered.
LEMMA FeedStart ==
    ASSUME CoInv, FeedInv, StartServer, Boot[line].name = "run-feed", RunFeed
    PROVE  FeedInv'
<1>1. line = 8 /\ main = "boot" /\ UNCHANGED <<main, late, io, at, plan, sub, ran>>
  <2>1. line \in 1 .. 10  BY BootOrders DEF StartServer, CoInv, CoTypes
  <2> QED  BY <2>1, BootNames DEF StartServer, ioVars, stopVars
<1>2. ~Told /\ ~Cleared
  <2>1. \A i \in DOMAIN ran : ran[i] \in Passed  BY DEF CoInv, CoTypes
  <2>2. plan # <<>> => Head(plan) \in Passed  BY DEF CoInv, CoTypes
  <2>3. ~Ran("ingress-stop")
    BY <1>1, <2>1, PassedFacts DEF Ran, NameSet
  <2>4. Current # "ingress-stop"
    BY <1>1, <2>2, PassedFacts DEF Current
  <2> QED  BY <2>3, <2>4 DEF Told, Cleared, Doing
<1>3. ~Told' /\ ~Cleared' /\ UNCHANGED Doing("ingress-stop", 3)
  BY <1>1, <1>2 DEF Told, Cleared, Doing, Ran, Current, NameSet
<1>4. /\ accept' \in {"armed", accept} /\ UNCHANGED <<sessions, conn, copy>>
      /\ io = Between
  BY <1>1 DEF RunFeed, streamVars, FeedInv, HandlerRuns
<1> QED
  BY <1>1, <1>3, <1>4, FeedServerAssumption
     DEF Between, FeedInv, FeedShapes, HandlerRuns, Incoming, Registry, UnderCap, CopyHeld, FeedLate

\* FeedServer::stop, in the order of its effects.
LEMMA FeedStops == ASSUME CoInv, FeedInv, RunIngressStop PROVE FeedInv'
<1>1. /\ at = "run" /\ plan # <<>> /\ Current = "ingress-stop"
      /\ UNCHANGED <<main, io, line, tested, steps, stopping, at, early>>
      /\ late \subseteq late' /\ sub \in Nat
  BY DEF RunIngressStop, Current, Stepping, ioVars, CoInv, CoTypes
<1>2. ASSUME StepGoesOn
      PROVE  /\ Current' = "ingress-stop" /\ sub' = sub + 1 /\ NameSet(ran)' = NameSet(ran)
  <2>1. NameSet(ran') = NameSet(ran)'  BY DEF NameSet
  <2> QED  BY <1>1, <1>2, <2>1, CoStepGoesOn DEF StepGoesOn
<1>3. CASE sub = 0 /\ StopAccepting /\ StepGoesOn
  <2>1. ~accepting' /\ copy = {} /\ UNCHANGED <<accept, sessions, conn, copy>>
    BY <1>3 DEF StopAccepting, streamVars, FeedInv, CopyHeld, Doing
  <2>2. /\ sub' = 1 /\ (Cleared' => Cleared)
    BY <1>1, <1>2, <1>3 DEF Cleared, Doing, Ran
  <2>3. io.at \in {"feed-cap", "feed-insert"} => io.who \in late'
    <3>1. CASE accepting
      BY <1>1, <2>1, <3>1 DEF RunIngressStop, Accepting
    <3>2. CASE ~accepting
      BY <1>1, <3>2 DEF FeedInv, FeedLate
    <3> QED  BY <3>1, <3>2
  <2>4. FeedShapes' /\ HandlerRuns' /\ Incoming' /\ Registry' /\ UnderCap' /\ CopyHeld'
    BY <1>1, <2>1 DEF FeedInv, FeedShapes, HandlerRuns, Incoming, Registry, UnderCap, CopyHeld
  <2>5. FeedLate'  BY <1>1, <2>1, <2>2, <2>3 DEF FeedInv, FeedLate
  <2> QED  BY <2>4, <2>5 DEF FeedInv
<1>4. CASE sub = 1 /\ CancelAccept /\ StepGoesOn
  <2>1. copy = {} /\ accept' \in {"none", accept} /\ UNCHANGED <<accepting, sessions, conn, copy>>
    BY <1>4 DEF CancelAccept, streamVars, FeedInv, CopyHeld, Doing
  <2>2. (Cleared' => Cleared) /\ Told /\ UNCHANGED accepting
    BY <1>1, <1>2, <1>4, <2>1 DEF Cleared, Told, Doing, Ran
  <2> QED
    BY <1>1, <2>1, <2>2, FeedServerAssumption
       DEF FeedInv, FeedShapes, HandlerRuns, Incoming, Registry, UnderCap, CopyHeld, FeedLate
<1>5. CASE sub = 2 /\ ClearSessions /\ StepGoesOn
  <2>1. copy = {} /\ copy' = sessions /\ sessions' = {} /\ UNCHANGED <<accepting, accept, conn>>
    BY <1>5 DEF ClearSessions, FeedInv, CopyHeld, Doing
  <2>2. Told /\ Doing("ingress-stop", 3)'
    BY <1>1, <1>2, <1>5 DEF Told, Doing
  <2>3. IsFiniteSet({}) /\ Cardinality({}) = 0  BY FS_EmptySet
  <2>4. FeedShapes' /\ HandlerRuns' /\ Incoming' /\ Registry' /\ CopyHeld' /\ FeedLate'
    BY <1>1, <2>1, <2>2, <2>3 DEF FeedInv, FeedShapes, HandlerRuns, Incoming, Registry, CopyHeld, FeedLate
  <2>5. UnderCap'  BY <1>1, <2>1, <2>3, FeedServerAssumption DEF UnderCap
  <2> QED  BY <2>4, <2>5 DEF FeedInv
<1>6. CASE sub = 3 /\ CloseSessions /\ StepEnds
  <2>1. /\ conn' = [p \in Producers |-> IF p \in copy THEN "closed" ELSE conn[p]]
        /\ copy' = {} /\ UNCHANGED <<accepting, accept, sessions>>
    BY <1>6 DEF CloseSessions
  <2>2. Told /\ Cleared  BY <1>1, <1>6 DEF Told, Cleared, Doing
  <2>3. FeedShapes' /\ HandlerRuns' /\ Incoming' /\ UnderCap' /\ CopyHeld'
    BY <1>1, <2>1 DEF FeedInv, FeedShapes, HandlerRuns, Incoming, UnderCap, CopyHeld
  <2>4. Registry'  BY <2>1 DEF FeedInv, FeedShapes, Registry
  <2>5. FeedLate'  BY <1>1, <2>1, <2>2 DEF FeedInv, FeedLate
  <2> QED  BY <2>3, <2>4, <2>5 DEF FeedInv
<1> QED  BY <1>3, <1>4, <1>5, <1>6 DEF RunIngressStop, FeedStop

\* Every step of main, of the handlers and of stop().
LEMMA FeedNext == ASSUME CoInv, FeedInv, QueuedClosed, [Next]_vars PROVE FeedInv'
<1>0. copy # {} => Doing("ingress-stop", 3)  BY DEF FeedInv, CopyHeld
<1> DEFINE Quiet ==
       \/ RegisterTest \/ RegisterPush \/ StartServer \/ Signal \/ OwnStop \/ CopySteps \/ StopOver
       \/ /\ at = "run" /\ plan # <<>> /\ Current # "ingress-stop"
          /\ StepEnds \/ StepGoesOn \/ UNCHANGED <<plan, ran, sub>>
          /\ UNCHANGED <<line, tested, steps, stopping, at, early>>
<1>1. ASSUME Quiet
      PROVE  /\ Told' => Told
             /\ Cleared' => Cleared
             /\ copy # {} => Doing("ingress-stop", 3)'
  <2>1. /\ Ran("ingress-stop")' => Ran("ingress-stop")
        /\ \A k \in Nat \ {0} : Doing("ingress-stop", k)' => Doing("ingress-stop", k)
        /\ Current = "ingress-stop" => Current' = "ingress-stop" /\ sub' = sub
    BY <1>1, OtherStep
  <2> QED  BY <1>0, <2>1 DEF Told, Cleared, Doing
<1>2. ASSUME Quiet, UNCHANGED <<io, feedVars>>, late \subseteq late', main' # "run" => io' = Between
      PROVE  FeedInv'
  BY <1>1, <1>2, FeedFrame
<1>3. ASSUME UNCHANGED <<coVars, feedVars, late>>, main' # "run" => io' = Between,
             io' = io \/ io'.at \notin {"feed-cap", "feed-insert"}
      PROVE  FeedInv'
  <2>1. UNCHANGED <<Told, Cleared, Doing("ingress-stop", 3)>>
    BY <1>3 DEF coVars, Told, Cleared, Doing, Ran, Current, NameSet
  <2> QED  BY <1>0, <1>3, <2>1, FeedFrame
<1> HIDE DEF Quiet
<1>4. main # "run" => io = Between  BY DEF FeedInv, HandlerRuns
<1>5. CASE RegisterTest \/ RegisterPush
  <2>1. Quiet /\ UNCHANGED <<io, feedVars, late, main>>
    BY <1>5 DEF Quiet, RegisterTest, RegisterPush, Servers, ioVars, stopVars
  <2> QED  BY <1>2, <1>4, <2>1
<1>6. CASE StartServer
  <2>1. CASE Boot[line].name = "run-feed" /\ RunFeed  BY <1>6, <2>1, FeedStart
  <2>2. CASE UNCHANGED feedVars
    <3>1. Quiet /\ UNCHANGED <<io, late, main>>
      BY <1>6 DEF Quiet, StartServer, ioVars, stopVars
    <3> QED  BY <1>2, <1>4, <2>2, <3>1
  <2> QED  BY <1>6, <2>1, <2>2 DEF StartServer
<1>7. CASE EnterRun \/ StopReturns \/ StopSleeps \/ UNCHANGED vars
  <2>1. /\ UNCHANGED <<coVars, feedVars, late, io>>
        /\ main' = "run" \/ main' = main \/ main = "stop"
    BY <1>7 DEF EnterRun, StopReturns, StopSleeps, vars, coVars, stopVars, Servers, ioVars
  <2> QED  BY <1>3, <1>4, <2>1
<1>8. CASE RunReturns \/ RunThrows
  <2>1. OwnStop /\ io = Between /\ UNCHANGED <<io, feedVars, late>>
    BY <1>8 DEF RunReturns, RunThrows, Idle, OwnStop, Servers, ioVars
  <2> QED  BY <1>2, <2>1 DEF Quiet
<1>9. CASE Signal \/ CopySteps \/ StopOver
  <2>1. Quiet /\ UNCHANGED <<io, feedVars, late, main>>
    BY <1>9 DEF Quiet, Signal, CopySteps, StopOver, Servers, ioVars
  <2> QED  BY <1>2, <1>4, <2>1
<1>10. CASE RunIngressStop  BY <1>10, FeedStops
<1>11. CASE RunOther \/ RunWsStopAccept \/ RunCloseSessions \/ RunAsioStop
  <2>1. Quiet
    BY <1>11 DEF Quiet, RunOther, RunWsStopAccept, RunCloseSessions, RunAsioStop, Current, Stepping
  <2>2. late \subseteq late' /\ UNCHANGED <<io, feedVars, main>>
    BY <1>11 DEF RunOther, RunWsStopAccept, RunCloseSessions, RunAsioStop, Stepping, Servers, ioVars
  <2> QED  BY <1>2, <1>4, <2>1, <2>2
<1>12. CASE Handler \/ Poll
  <2>1. main = "run" /\ UNCHANGED <<coVars, main, late>>
    BY <1>12 DEF Handler, Poll, coVars, stopVars
  <2>2. CASE FeedIo \/ FeedPoll  BY <2>1, <2>2, FeedHandlers
  <2>3. CASE (WsIo \/ WsPoll) /\ UNCHANGED feedVars
    <3>1. io' = io \/ io'.at \notin {"feed-cap", "feed-insert"}
      BY <2>3 DEF WsIo, WsPoll, WsConnect, WsOnAccept, WsOnAcceptError, WsOnAcceptCap, WsDoAcceptTest,
                  WsDoAcceptArm, RegisterSession, HandshakeFails, UnregisterSession, ioVars, Goto, Done, Between
    <3> QED  BY <1>3, <2>1, <2>3, <3>1
  <2> QED  BY <1>12, <2>2, <2>3 DEF Handler, Poll
<1>13. CASE HandlerWaits \/ WaitEnds
  <2>1. /\ UNCHANGED <<coVars, feedVars, late, main>> /\ main = "run"
        /\ io'.at \notin {"feed-cap", "feed-insert"}
    BY <1>13 DEF HandlerWaits, WaitEnds, Goto, Done, Between, coVars, stopVars
  <2> QED  BY <1>3, <2>1
<1> QED
  BY <1>5, <1>6, <1>7, <1>8, <1>9, <1>10, <1>11, <1>12, <1>13 DEF Next, MainStep, Stop

\* A closed session stays closed, and every step that leaves a handler behind
\* closes its session.
LEMMA QueuedNext == ASSUME FeedInv, QueuedClosed, [Next]_vars PROVE QueuedClosed'
<1>1. ASSUME UNCHANGED <<queued, conn>> PROVE QueuedClosed'  BY <1>1 DEF QueuedClosed
<1>2. CASE \/ RegisterTest \/ RegisterPush \/ StartServer \/ EnterRun \/ StopReturns \/ RunReturns \/ RunThrows
           \/ Signal \/ CopySteps \/ StopOver \/ RunOther \/ RunWsStopAccept \/ RunCloseSessions \/ RunAsioStop
           \/ StopSleeps \/ HandlerWaits \/ WaitEnds \/ UNCHANGED vars
  <2>1. UNCHANGED feedVars \/ RunFeed
    BY <1>2 DEF RegisterTest, RegisterPush, StartServer, EnterRun, StopReturns, RunReturns, RunThrows, OwnStop,
       Signal, CopySteps, StopOver, RunOther, RunWsStopAccept, RunCloseSessions, RunAsioStop,
       StopSleeps, HandlerWaits, WaitEnds, Servers, vars
  <2> QED  BY <1>1, <2>1 DEF feedVars, RunFeed, streamVars
<1>3. CASE RunIngressStop
  <2>1. CASE CloseSessions
    <3>1. PICK q \in SUBSET copy : queued' = queued \cup q
      BY <2>1 DEF CloseSessions, LeaveQueued
    <3>2. conn' = [p \in Producers |-> IF p \in copy THEN "closed" ELSE conn[p]]  BY <2>1 DEF CloseSessions
    <3>3. copy \subseteq Producers  BY DEF FeedInv, FeedShapes
    <3> QED  BY <3>1, <3>2, <3>3 DEF QueuedClosed
  <2>2. CASE StopAccepting \/ CancelAccept \/ ClearSessions
    BY <1>1, <2>2 DEF StopAccepting, CancelAccept, ClearSessions, streamVars
  <2> QED  BY <1>3, <2>1, <2>2 DEF RunIngressStop, FeedStop
<1>4. CASE Handler \/ Poll
  <2>1. CASE UNCHANGED feedVars  BY <1>1, <2>1 DEF feedVars
  <2>2. CASE FeedPoll \/ OnAcceptError \/ DoAcceptTest \/ DoAcceptArm
    BY <1>1, <2>2 DEF FeedPoll, Connect, OnAcceptError, DoAcceptTest, DoAcceptArm, streamVars, feedVars
  <2>3. CASE OnAccept \/ OnAcceptCap \/ OnAcceptInsert
    <3>1. /\ queued' = queued
          /\ \A q \in Producers : conn[q] = "closed" => conn'[q] = conn[q]
      BY <2>3 DEF OnAccept, OnAcceptCap, OnAcceptInsert, Forget, streamVars, FeedInv, FeedShapes, Incoming
    <3> QED  BY <3>1 DEF QueuedClosed
  <2>4. CASE \E p \in Producers : OnEnd(p) \/ \E k \in 1 .. BufSize : OnRead(p, k)
    <3>1. PICK p \in Producers : OnEnd(p) \/ \E k \in 1 .. BufSize : OnRead(p, k)  BY <2>4
    <3>2. queued' \subseteq queued \cup {p} /\ (Close(p) \/ (UNCHANGED conn /\ queued' \subseteq queued))
      BY <3>1 DEF OnEnd, OnRead, LeaveQueued
    <3> QED  BY <3>2 DEF QueuedClosed, Close, FeedInv, FeedShapes
  <2> QED  BY <1>4, <2>1, <2>2, <2>3, <2>4 DEF Handler, Poll, FeedIo
<1> QED  BY <1>2, <1>3, <1>4 DEF Next, MainStep, Stop

\* The feed server's set holds exactly the open sessions stop() is not about to
\* close, and stays within the cap although the cap is tested in one critical
\* section and the session inserted in another.
THEOREM RegistryTheorem == Spec => []RegistryExact
<1>1. CoInv /\ FeedInv /\ QueuedClosed /\ [Next]_vars => CoInv' /\ FeedInv' /\ QueuedClosed'
  BY CoNext, FeedNext, QueuedNext
<1>2. FeedInv => RegistryExact
  BY DEF FeedInv, Registry, UnderCap, RegistryExact
<1> QED  BY <1>1, <1>2, CoInit, FeedInitInv, PTL DEF Spec

-----------------------------------------------------------------------------
(* The server of client sessions                                           *)

Open == {c \in Clients : peer[c] = "open"}

WsShapes ==
    /\ peer \in [Clients -> {"out", "refused", "shaking", "open", "closing", "gone"}]
    /\ Open \subseteq wsSessions

WsTold == Doing("ws-stop-accept", 1) \/ Ran("ws-stop-accept")
WsCopied == Doing("ws-close-sessions", 1) \/ Ran("ws-close-sessions")

\* Once closeAll has copied the table, a client opens only if it was in its
\* handshake, or its accept handler past the test of accepting_, at that moment.
WsLate ==
    /\ WsTold => ~wsAccepting
    /\ WsCopied => /\ io.at = "ws-cap" => io.who \in late
                   /\ \A c \in Clients : peer[c] = "shaking" => c \in late
                   /\ Open \subseteq late \cup wsCopy
    /\ Ran("ws-close-sessions") => Open \subseteq late

WsInv == WsShapes /\ WsLate

\* No client is connected before main has started the server.
LEMMA WsInitInv == Init => WsInv
<1> SUFFICES ASSUME Init PROVE WsInv  OBVIOUS
<1>1. NameSet(ran) = {} /\ Current = "none"  BY DEF Init, NameSet, Current
<1>2. peer = [c \in Clients |-> "out"] /\ Open = {}  BY DEF Init, WsInit, Open
<1> QED  BY <1>1, <1>2 DEF WsInv, WsShapes, WsLate, WsTold, WsCopied, Doing, Ran

\* A step that leaves the server of clients alone.
LEMMA WsFrame ==
    ASSUME WsInv, UNCHANGED wsVars, late \subseteq late',
           io' = io \/ io'.at # "ws-cap",
           WsTold' => WsTold, WsCopied' => WsCopied,
           Ran("ws-close-sessions")' => Ran("ws-close-sessions")
    PROVE  WsInv'
BY DEF WsInv, wsVars, WsShapes, WsLate, Open

\* The handlers of the server of clients, and the accepts that complete.
LEMMA WsHandlers ==
    ASSUME CoInv, WsInv, WsIo \/ WsPoll, UNCHANGED <<coVars, late>>
    PROVE  WsInv'
<1> USE DEF Between
<1>1. UNCHANGED <<WsTold, WsCopied, Ran("ws-close-sessions")>>
  BY DEF coVars, WsTold, WsCopied, Doing, Ran, Current, NameSet
<1>2. WsCopied => WsTold
  BY AcceptStoppedFirst DEF WsCopied, WsTold, Doing
<1>3. CASE WsPoll \/ WsOnAcceptError \/ WsDoAcceptTest \/ WsDoAcceptArm
  <2>1. /\ io' = io \/ io'.at # "ws-cap"
        /\ UNCHANGED <<wsAccepting, wsSessions, peer, wsCopy>>
    BY <1>3 DEF WsPoll, WsConnect, WsOnAcceptError, WsDoAcceptTest, WsDoAcceptArm, Goto, Done, ioVars, wsVars
  <2> QED  BY <1>1, <2>1 DEF WsInv, WsShapes, WsLate, Open
<1>4. CASE WsOnAccept
  <2>1. CASE wsAccepting
    <3>1. ~WsCopied /\ UNCHANGED <<wsAccepting, wsSessions, peer, wsCopy>>
      BY <1>2, <1>4, <2>1 DEF WsOnAccept, WsInv, WsLate
    <3>2. ~Ran("ws-close-sessions")  BY <3>1 DEF WsCopied
    <3> QED  BY <1>1, <3>1, <3>2 DEF WsInv, WsShapes, WsLate, Open
  <2>2. CASE ~wsAccepting
    <3>1. io' = Between /\ peer' = [peer EXCEPT ![wsAccept] = "refused"]
          /\ UNCHANGED <<wsAccepting, wsSessions, wsCopy>>
      BY <1>4, <2>2 DEF WsOnAccept, Done, Move
    <3> QED  BY <1>1, <3>1 DEF WsInv, WsShapes, WsLate, Open
  <2> QED  BY <2>1, <2>2
<1>5. CASE WsOnAcceptCap
  <2>1. /\ io.at = "ws-cap" /\ io'.at = "ws-rearm" /\ UNCHANGED <<wsAccepting, wsSessions, wsCopy>>
        /\ peer' \in {[peer EXCEPT ![io.who] = "refused"], [peer EXCEPT ![io.who] = "shaking"]}
    BY <1>5 DEF WsOnAcceptCap, Goto, Move
  <2> QED  BY <1>1, <2>1 DEF WsInv, WsShapes, WsLate, Open
<1>6. ASSUME NEW c \in Clients, RegisterSession(c) \/ HandshakeFails(c) \/ UnregisterSession(c)
      PROVE  WsInv'
  <2>1. UNCHANGED <<wsAccepting, wsCopy, io>>
    BY <1>6 DEF RegisterSession, HandshakeFails, UnregisterSession, ioVars
  <2>2. \/ /\ peer[c] = "shaking" /\ peer' = [peer EXCEPT ![c] = "open"]
           /\ wsSessions' = wsSessions \cup {c}
        \/ /\ peer' = [peer EXCEPT ![c] = "gone"]
           /\ wsSessions' \in {wsSessions, wsSessions \ {c}}
    BY <1>6 DEF RegisterSession, HandshakeFails, UnregisterSession, Move
  <2>3. Ran("ws-close-sessions") => WsCopied  BY DEF WsCopied
  <2> QED  BY <1>1, <2>1, <2>2, <2>3 DEF WsInv, WsShapes, WsLate, Open
<1> QED  BY <1>3, <1>4, <1>5, <1>6 DEF WsIo

\* run() of this server happens before its shutdown steps are registered.
LEMMA WsStart ==
    ASSUME CoInv, WsInv, StartServer, Boot[line].name = "run-ws", RunWs
    PROVE  WsInv'
<1>1. line = 4 /\ UNCHANGED <<late, io, at, plan, sub, ran>>
  <2>1. line \in 1 .. 10  BY BootOrders DEF StartServer, CoInv, CoTypes
  <2> QED  BY <2>1, BootNames DEF StartServer, ioVars, stopVars
<1>2. ~WsTold /\ ~WsCopied /\ ~Ran("ws-close-sessions")
  <2>1. \A i \in DOMAIN ran : ran[i] \in Passed  BY DEF CoInv, CoTypes
  <2>2. plan # <<>> => Head(plan) \in Passed  BY DEF CoInv, CoTypes
  <2>3. ~Ran("ws-stop-accept") /\ ~Ran("ws-close-sessions")
    BY <1>1, <2>1, PassedFacts DEF Ran, NameSet
  <2>4. Current # "ws-stop-accept" /\ Current # "ws-close-sessions"
    BY <1>1, <2>2, PassedFacts DEF Current
  <2> QED  BY <2>3, <2>4 DEF WsTold, WsCopied, Doing
<1>3. UNCHANGED <<WsTold, WsCopied, Ran("ws-close-sessions")>>
  BY <1>1 DEF WsTold, WsCopied, Doing, Ran, Current, NameSet
<1> QED  BY <1>1, <1>2, <1>3 DEF RunWs, WsInv, WsShapes, WsLate, Open

\* stopAccept(): the flag and the cancelled accept.
LEMMA WsStops == ASSUME CoInv, WsInv, RunWsStopAccept PROVE WsInv'
<1>1. /\ at = "run" /\ plan # <<>> /\ Current = "ws-stop-accept" /\ sub \in Nat
      /\ UNCHANGED <<late, io, line, tested, steps, stopping, at, early, wsSessions, peer, wsCopy>>
  BY DEF RunWsStopAccept, Current, Stepping, ioVars, CoInv, CoTypes, StopAcceptFlag, StopAcceptCancel
<1>2. /\ Ran("ws-close-sessions")' => Ran("ws-close-sessions")
      /\ WsCopied' => WsCopied
  <2>1. StepEnds \/ StepGoesOn  BY DEF RunWsStopAccept
  <2>2. /\ Ran("ws-close-sessions")' => Ran("ws-close-sessions")
        /\ \A k \in Nat \ {0} : Doing("ws-close-sessions", k)' => Doing("ws-close-sessions", k)
    BY <1>1, <2>1, OtherStep
  <2> QED  BY <2>2 DEF WsCopied
<1>3. ~wsAccepting'
  <2>1. CASE sub = 0  BY <2>1 DEF RunWsStopAccept, StopAcceptFlag
  <2>2. CASE sub = 1  BY <1>1, <2>2 DEF RunWsStopAccept, StopAcceptCancel, WsInv, WsLate, WsTold, Doing
  <2> QED  BY <2>1, <2>2 DEF RunWsStopAccept
<1> QED  BY <1>1, <1>2, <1>3 DEF WsInv, WsShapes, WsLate, Open

\* closeAll(): the copy, a close for each of its sessions, the return.
LEMMA WsCloses == ASSUME CoInv, WsInv, RunCloseSessions PROVE WsInv'
<1>1. /\ at = "run" /\ plan # <<>> /\ Current = "ws-close-sessions" /\ sub \in Nat
      /\ UNCHANGED <<io, line, tested, steps, stopping, at, early>> /\ late \subseteq late'
  BY DEF RunCloseSessions, Current, Stepping, ioVars, CoInv, CoTypes
<1>2. WsTold' => WsTold
  <2>1. StepEnds \/ StepGoesOn \/ UNCHANGED <<plan, ran, sub>>  BY DEF RunCloseSessions
  <2>2. /\ Ran("ws-stop-accept")' => Ran("ws-stop-accept")
        /\ \A k \in Nat \ {0} : Doing("ws-stop-accept", k)' => Doing("ws-stop-accept", k)
    BY <1>1, <2>1, OtherStep
  <2> QED  BY <2>2 DEF WsTold
<1>3. CASE sub = 0 /\ CloseAllCopy /\ StepGoesOn
           /\ late' = late \cup Accepting({"ws-cap"}) \cup {c \in Clients : peer[c] = "shaking"}
  <2>1. Ran("ws-close-sessions")' = Ran("ws-close-sessions")
    BY <1>1, <1>3, CoStepGoesOn DEF Ran, NameSet
  <2>2. wsCopy' = wsSessions /\ UNCHANGED <<wsAccepting, wsSessions, peer>>
    BY <1>3 DEF CloseAllCopy, CopyTable
  <2>3. io.at = "ws-cap" => io.who \in late'  BY <1>3 DEF Accepting
  <2>4. \A c \in Clients : peer[c] = "shaking" => c \in late'  BY <1>3
  <2> QED  BY <1>1, <1>2, <2>1, <2>2, <2>3, <2>4 DEF WsInv, WsShapes, WsLate, Open
<1>4. CASE sub > 0 /\ CloseAllNext /\ UNCHANGED <<plan, ran, sub, late>>
  <2>1. UNCHANGED <<WsCopied, Ran("ws-close-sessions")>>
    BY <1>1, <1>4 DEF WsCopied, Doing, Ran, Current, NameSet
  <2>2. PICK c \in wsCopy :
          /\ wsCopy' = wsCopy \ {c} /\ UNCHANGED <<wsAccepting, wsSessions>>
          /\ IF peer[c] = "open" THEN peer' = [peer EXCEPT ![c] = "closing"] ELSE UNCHANGED peer
    BY <1>4 DEF CloseAllNext, Move
  <2>3. Open' \subseteq Open \ {c}  BY <2>2 DEF Open, WsInv, WsShapes
  <2>4. WsShapes'  BY <2>2, <2>3 DEF WsInv, WsShapes
  <2>5. \A d \in Clients : peer'[d] = "shaking" => peer[d] = "shaking"
    BY <2>2 DEF WsInv, WsShapes
  <2>6. WsLate'  BY <1>1, <1>2, <1>4, <2>1, <2>2, <2>3, <2>5 DEF WsInv, WsLate
  <2> QED  BY <2>4, <2>6 DEF WsInv
<1>5. CASE sub > 0 /\ wsCopy = {} /\ StepEnds /\ UNCHANGED <<wsVars, late>>
  <2>1. WsCopied  BY <1>1, <1>5 DEF WsCopied, Doing
  <2>2. Open \subseteq late  BY <1>5, <2>1 DEF WsInv, WsLate
  <2> QED  BY <1>1, <1>2, <1>5, <2>1, <2>2 DEF WsInv, WsShapes, WsLate, Open, wsVars
<1> QED  BY <1>3, <1>4, <1>5 DEF RunCloseSessions

\* Every step of main, of the handlers and of stop().
LEMMA WsNext == ASSUME CoInv, WsInv, [Next]_vars PROVE WsInv'
<1> DEFINE Quiet(name) ==
       \/ RegisterTest \/ RegisterPush \/ StartServer \/ Signal \/ OwnStop \/ CopySteps \/ StopOver
       \/ /\ at = "run" /\ plan # <<>> /\ Current # name
          /\ StepEnds \/ StepGoesOn \/ UNCHANGED <<plan, ran, sub>>
          /\ UNCHANGED <<line, tested, steps, stopping, at, early>>
<1>1. ASSUME Quiet("ws-stop-accept"), Quiet("ws-close-sessions"),
             UNCHANGED <<io, wsVars>>, late \subseteq late'
      PROVE  WsInv'
  <2>1. /\ Ran("ws-stop-accept")' => Ran("ws-stop-accept")
        /\ \A k \in Nat \ {0} : Doing("ws-stop-accept", k)' => Doing("ws-stop-accept", k)
    BY <1>1, OtherStep
  <2>2. /\ Ran("ws-close-sessions")' => Ran("ws-close-sessions")
        /\ \A k \in Nat \ {0} : Doing("ws-close-sessions", k)' => Doing("ws-close-sessions", k)
    BY <1>1, OtherStep
  <2>3. (WsTold' => WsTold) /\ (WsCopied' => WsCopied)  BY <2>1, <2>2 DEF WsTold, WsCopied
  <2> QED  BY <1>1, <2>2, <2>3, WsFrame
<1>2. ASSUME UNCHANGED <<coVars, wsVars, late>>, io' = io \/ io'.at # "ws-cap"
      PROVE  WsInv'
  <2>1. UNCHANGED <<WsTold, WsCopied, Ran("ws-close-sessions")>>
    BY <1>2 DEF coVars, WsTold, WsCopied, Doing, Ran, Current, NameSet
  <2> QED  BY <1>2, <2>1, WsFrame
<1>3. CASE RegisterTest \/ RegisterPush \/ Signal \/ CopySteps \/ StopOver \/ OwnStop
  <2>1. UNCHANGED <<io, wsVars, late>>
    BY <1>3 DEF RegisterTest, RegisterPush, Signal, CopySteps, StopOver, OwnStop, Servers, ioVars, stopVars
  <2> QED  BY <1>1, <1>3, <2>1
<1>4. CASE StartServer
  <2>1. CASE Boot[line].name = "run-ws" /\ RunWs  BY <1>4, <2>1, WsStart
  <2>2. CASE UNCHANGED wsVars
    <3>1. UNCHANGED <<io, late>>  BY <1>4 DEF StartServer, ioVars, stopVars
    <3> QED  BY <1>1, <1>4, <2>2, <3>1
  <2> QED  BY <1>4, <2>1, <2>2 DEF StartServer
<1>5. CASE EnterRun \/ StopReturns \/ StopSleeps \/ HandlerWaits \/ WaitEnds \/ UNCHANGED vars
  <2>1. UNCHANGED <<coVars, wsVars, late>> /\ (io' = io \/ io'.at # "ws-cap")
    BY <1>5 DEF EnterRun, StopReturns, StopSleeps, HandlerWaits, WaitEnds, Goto, Done, Between, vars, coVars,
       stopVars, Servers, ioVars
  <2> QED  BY <1>2, <2>1
<1>6. CASE RunOther \/ RunIngressStop \/ RunAsioStop
  <2>1. /\ at = "run" /\ plan # <<>> /\ Current # "ws-stop-accept" /\ Current # "ws-close-sessions"
        /\ StepEnds \/ StepGoesOn
        /\ UNCHANGED <<line, tested, steps, stopping, at, early>>
    BY <1>6 DEF RunOther, RunIngressStop, FeedStop, RunAsioStop, Current, Stepping
  <2>2. late \subseteq late' /\ UNCHANGED <<io, wsVars>>
    BY <1>6 DEF RunOther, RunIngressStop, RunAsioStop, Servers, ioVars
  <2> QED  BY <1>1, <2>1, <2>2
<1>7. CASE RunWsStopAccept  BY <1>7, WsStops
<1>8. CASE RunCloseSessions  BY <1>8, WsCloses
<1>9. CASE Handler \/ Poll
  <2>1. UNCHANGED <<coVars, late>>  BY <1>9 DEF Handler, Poll, coVars, stopVars
  <2>2. CASE WsIo \/ WsPoll  BY <2>1, <2>2, WsHandlers
  <2>3. CASE (FeedIo \/ FeedPoll) /\ UNCHANGED wsVars
    <3>1. io' = io \/ io'.at # "ws-cap"
      <4>1. CASE FeedPoll  BY <4>1 DEF FeedPoll, Connect, ioVars
      <4>2. CASE \E p \in Producers : OnEnd(p) \/ \E k \in 1 .. BufSize : OnRead(p, k)
        BY <4>2 DEF OnEnd, OnRead, ioVars
      <4>3. CASE \/ OnAccept \/ OnAcceptError \/ OnAcceptCap \/ OnAcceptInsert
                 \/ DoAcceptTest \/ DoAcceptArm
        BY <4>3 DEF OnAccept, OnAcceptError, OnAcceptCap, OnAcceptInsert, DoAcceptTest, DoAcceptArm,
                    Goto, Done, Between
      <4> QED  BY <2>3, <4>1, <4>2, <4>3 DEF FeedIo
    <3> QED  BY <1>2, <2>1, <2>3, <3>1
  <2> QED  BY <1>9, <2>2, <2>3 DEF Handler, Poll
<1>10. CASE RunReturns \/ RunThrows  BY <1>3, <1>10 DEF RunReturns, RunThrows
<1> QED
  BY <1>3, <1>4, <1>5, <1>6, <1>7, <1>8, <1>9, <1>10 DEF Next, MainStep, Stop

\* Whatever the moment at which stop() meets the accept handlers, it leaves
\* behind only peers that were being accepted then: producers past the test of
\* accepting_, clients not yet registered.
THEOREM StopReachesAllTheorem == Spec => []StopReachesAll
<1>1. CoInv /\ FeedInv /\ QueuedClosed /\ WsInv /\ [Next]_vars
         => CoInv' /\ FeedInv' /\ QueuedClosed' /\ WsInv'
  BY CoNext, FeedNext, QueuedNext, WsNext
<1>2. FeedInv /\ WsInv => StopReachesAll
  BY DEF FeedInv, FeedLate, Cleared, WsInv, WsLate, Open, Ran, StopReachesAll
<1> QED  BY <1>1, <1>2, CoInit, FeedInitInv, WsInitInv, PTL DEF Spec

-----------------------------------------------------------------------------
(* Framing                                                                 *)

\* e holds the ends of L lines, none of them empty.
Ends(e, L) ==
    /\ L \in Nat /\ e \in [0 .. L -> Nat] /\ e[0] = 0
    /\ \A k \in 1 .. L : e[k - 1] < e[k]

\* Of the lines that end at e, exactly the first m end within n units.
Within(e, L, n, m) == m \in 0 .. L /\ e[m] <= n /\ (m < L => n < e[m + 1])

\* A later line ends later.
LEMMA EndsGrow ==
    ASSUME NEW e, NEW L, Ends(e, L), NEW j \in 0 .. L, NEW i \in 0 .. L, i < j
    PROVE  e[i] < e[j]
<1> USE DEF Ends
<1> DEFINE P == {x \in 0 .. L : \A y \in 0 .. L : y < x => e[y] < e[x]}
<1>1. 0 \in P  OBVIOUS
<1>2. ASSUME NEW x \in 0 .. L - 1, x \in P PROVE x + 1 \in P
  <2>1. x + 1 \in 1 .. L /\ (x + 1) - 1 = x /\ x \in 0 .. L /\ x + 1 \in 0 .. L  OBVIOUS
  <2>2. e[x] < e[x + 1]  BY <2>1
  <2>3. ASSUME NEW y \in 0 .. L, y < x + 1 PROVE e[y] < e[x + 1]
    <3>1. y = x \/ (y < x /\ e[y] < e[x])  BY <1>2, <2>1, <2>3
    <3>2. e[y] \in Nat /\ e[x] \in Nat /\ e[x + 1] \in Nat  BY <2>1
    <3> QED  BY <2>2, <3>1, <3>2
  <2> QED  BY <2>1, <2>3
<1>3. 0 .. L \subseteq P
  <2>1. L \in Nat  OBVIOUS
  <2> HIDE DEF P
  <2> QED  BY <1>1, <1>2, <2>1, UpTo
<1> QED  BY <1>3

\* There is one such m ...
LEMMA WithinUnique ==
    ASSUME NEW e, NEW L, Ends(e, L), NEW n \in Nat, NEW m, Within(e, L, n, m),
           NEW n2 \in Nat, NEW m2, Within(e, L, n2, m2), n <= n2
    PROVE  m <= m2
<1> SUFFICES ASSUME m2 < m PROVE FALSE
  BY DEF Within, Ends
<1>1. m2 + 1 \in 0 .. L /\ m \in 0 .. L /\ n2 < e[m2 + 1] /\ e[m] <= n  BY DEF Within, Ends
<1>2. m2 + 1 = m \/ e[m2 + 1] < e[m]
  <2>1. m2 + 1 = m \/ m2 + 1 < m  BY DEF Within, Ends
  <2> QED  BY <1>1, <2>1, EndsGrow
<1>3. e[m2 + 1] \in Nat /\ e[m] \in Nat  BY <1>1 DEF Ends
<1> QED  BY <1>1, <1>2, <1>3

\* ... and it is the number of lines that end within n units.
LEMMA WithinCount ==
    ASSUME NEW e, NEW L, Ends(e, L), NEW n \in Nat
    PROVE  Within(e, L, n, Cardinality({k \in 1 .. L : e[k] <= n}))
<1> DEFINE Upto(x) == {k \in 1 .. x : e[k] <= n}
           P == {x \in 0 .. L : \E m \in 0 .. x :
                    Upto(x) = 1 .. m /\ e[m] <= n /\ (m < x => n < e[m + 1])}
<1>0. L \in Nat /\ e[0] = 0 /\ \A k \in 0 .. L : e[k] \in Nat  BY DEF Ends
<1>1. 0 \in P
  <2>1. Upto(0) = 1 .. 0 /\ e[0] <= n /\ 0 \in 0 .. 0 /\ 0 \in 0 .. L  BY <1>0
  <2> QED  BY <2>1
<1>2. ASSUME NEW x \in 0 .. L - 1, x \in P PROVE x + 1 \in P
  <2>1. PICK m \in 0 .. x : Upto(x) = 1 .. m /\ e[m] <= n /\ (m < x => n < e[m + 1])  BY <1>2
  <2>2. x \in Nat /\ x + 1 \in 0 .. L /\ m \in Nat /\ m + 1 \in 0 .. L /\ e[x + 1] \in Nat /\ e[m + 1] \in Nat
    BY <1>0
  <2>3. CASE m = x /\ e[x + 1] <= n
    <3>1. Upto(x + 1) = 1 .. x + 1
      <4>1. Upto(x + 1) = Upto(x) \cup {x + 1}  BY <2>2, <2>3
      <4>2. 1 .. x + 1 = (1 .. x) \cup {x + 1}  BY <2>2
      <4> HIDE DEF Upto
      <4> QED  BY <2>1, <2>3, <4>1, <4>2, Zenon
    <3> HIDE DEF Upto
    <3> QED  BY <2>2, <2>3, <3>1
  <2>4. CASE m < x \/ e[x + 1] > n
    <3>1. n < e[m + 1]
      <4>1. m < x \/ m = x  BY <2>2
      <4> QED  BY <2>1, <2>4, <4>1, <2>2
    <3>2. e[x + 1] > n
      <4>1. m + 1 = x + 1 \/ m + 1 < x + 1  BY <2>2
      <4>2. m + 1 < x + 1 => e[m + 1] < e[x + 1]  BY <2>2, EndsGrow
      <4> QED  BY <2>2, <3>1, <4>1, <4>2
    <3>3. Upto(x + 1) = Upto(x)
      <4>1. 1 .. x + 1 = (1 .. x) \cup {x + 1}  BY <2>2
      <4> QED  BY <2>2, <3>2, <4>1
    <3> HIDE DEF Upto
    <3>4. m \in 0 .. x + 1 /\ Upto(x + 1) = 1 .. m /\ e[m] <= n /\ n < e[m + 1]  BY <2>1, <2>2, <3>1, <3>3
    <3> QED  BY <2>2, <3>4
  <2> QED  BY <2>2, <2>3, <2>4
<1>3. 0 .. L \subseteq P
  <2> HIDE DEF P
  <2> QED  BY <1>0, <1>1, <1>2, UpTo
<1>4. PICK m \in 0 .. L : Upto(L) = 1 .. m /\ e[m] <= n /\ (m < L => n < e[m + 1])
  <2>1. L \in P  BY <1>0, <1>3
  <2> HIDE DEF Upto
  <2> QED  BY <2>1
<1>5. Cardinality(Upto(L)) = m
  <2>1. Cardinality(1 .. m) = m  BY <1>0, FS_Interval
  <2> HIDE DEF Upto
  <2> QED  BY <1>4, <2>1
<1> QED  BY <1>4, <1>5 DEF Within

\* The lines of p and where they end.
Lengths(p) == Len(Streams[p])

\* EndOf adds up the lengths.
LEMMA EndOfFacts ==
    ASSUME NEW p \in Producers
    PROVE  /\ Ends(EndOf(p), Lengths(p)) /\ DOMAIN Streams[p] = 1 .. Lengths(p)
           /\ \A k \in 1 .. Lengths(p) : EndOf(p)[k] = EndOf(p)[k - 1] + Streams[p][k].len
<1> DEFINE L == Len(Streams[p])
           Def(h) == [k \in 0 .. L |-> IF k = 0 THEN 0 ELSE h[k - 1] + Streams[p][k].len]
           c == CHOOSE h : h = Def(h)
           step == [i \in 1 .. L |-> [q \in Nat |-> q + Streams[p][i].len]]
<1>1. L \in Nat /\ DOMAIN Streams[p] = 1 .. L /\ \A k \in 1 .. L : Streams[p][k].len \in Nat \ {0}
  <2> DEFINE S == {Streams[p][k] : k \in DOMAIN Streams[p]}
  <2>1. Streams[p] \in Seq(S)  BY FeedServerAssumption, Zenon
  <2>2. \A k \in DOMAIN Streams[p] : Streams[p][k].len \in Nat \ {0}  BY FeedServerAssumption, Zenon
  <2> HIDE DEF S
  <2>3. L \in Nat /\ DOMAIN Streams[p] = 1 .. L  BY ONLY <2>1
  <2> QED  BY ONLY <2>2, <2>3
<1>2. EndOf(p) = c  BY DEF EndOf
<1>3. Lengths(p) = L  BY DEF Lengths
<1> HIDE DEF L
<1>4. step \in [1 .. L -> [Nat -> Nat]]
  <2>1. ASSUME NEW i \in 1 .. L PROVE [q \in Nat |-> q + Streams[p][i].len] \in [Nat -> Nat]  BY <1>1
  <2> QED  BY <2>1
<1>5. PICK f \in [0 .. L -> Nat] : f[0] = 0 /\ \A i \in 1 .. L : f[i] = step[i][f[i - 1]]
  <2> HIDE DEF step
  <2>1. Steps(L, Nat, step) /\ 0 \in Nat  BY <1>4 DEF Steps
  <2>2. Runs(L, Nat, 0, step)  BY <1>1, <2>1, Recursion
  <2> QED  BY <2>2 DEF Runs
<1>6. \A i \in 1 .. L : f[i] = f[i - 1] + Streams[p][i].len
  <2> TAKE i \in 1 .. L
  <2>1. i - 1 \in 0 .. L  BY <1>1
  <2>2. f[i - 1] \in Nat /\ f[i] = step[i][f[i - 1]]  BY <1>5, <2>1
  <2> QED  BY <2>2
<1> HIDE DEF step
<1>7. f = Def(f)
  <2>1. \A n \in 0 .. L : f[n] = IF n = 0 THEN 0 ELSE f[n - 1] + Streams[p][n].len  BY <1>1, <1>5, <1>6
  <2> QED  BY <1>5, <2>1
<1>8. c = Def(c)
  <2> HIDE DEF Def
  <2> QED  BY <1>7
<1> HIDE DEF c
<1>9. \A n \in 0 .. L : c[n] = IF n = 0 THEN 0 ELSE c[n - 1] + Streams[p][n].len  BY <1>8, Zenon
<1>10. DOMAIN c = 0 .. L  BY <1>8, Zenon
<1> DEFINE P == {n \in 0 .. L : c[n] \in Nat}
<1>11. 0 \in P  BY <1>1, <1>9
<1>12. ASSUME NEW n \in 0 .. L - 1, n \in P PROVE n + 1 \in P
  <2>1. n + 1 \in 0 .. L /\ n + 1 \in 1 .. L /\ n + 1 # 0 /\ (n + 1) - 1 = n  BY <1>1
  <2>2. c[n + 1] = c[(n + 1) - 1] + Streams[p][n + 1].len  BY <1>9, <2>1, Zenon
  <2>3. c[n] \in Nat /\ Streams[p][n + 1].len \in Nat  BY <1>1, <1>12, <2>1
  <2>4. c[n + 1] \in Nat  BY <2>1, <2>2, <2>3
  <2> QED  BY <2>1, <2>4
<1>13. 0 .. L \subseteq P
  <2> HIDE DEF P
  <2> QED  BY <1>1, <1>11, <1>12, UpTo
<1>14. \A n \in 0 .. L : c[n] \in Nat  BY <1>13
<1>15. c = [n \in 0 .. L |-> c[n]]
  <2>1. Def(c) = [n \in DOMAIN Def(c) |-> Def(c)[n]]  BY Zenon
  <2> HIDE DEF Def
  <2> QED  BY <1>8, <1>10, <2>1, Zenon
<1>16. c \in [0 .. L -> Nat]  BY <1>14, <1>15
<1>17. ASSUME NEW k \in 1 .. L
       PROVE  c[k] = c[k - 1] + Streams[p][k].len /\ c[k - 1] < c[k]
  <2>1. k \in 0 .. L /\ k # 0 /\ k - 1 \in 0 .. L  BY <1>1
  <2>2. c[k] = c[k - 1] + Streams[p][k].len  BY <1>9, <2>1, Zenon
  <2>3. c[k - 1] \in Nat /\ Streams[p][k].len \in Nat \ {0}  BY <1>1, <1>14, <2>1
  <2> QED  BY <2>2, <2>3
<1>18. c[0] = 0  BY <1>1, <1>9
<1> QED  BY <1>1, <1>2, <1>3, <1>16, <1>17, <1>18 DEF Ends

\* LinesIn counts the lines of p that have arrived in full.
LEMMA LinesInFacts ==
    ASSUME NEW p \in Producers, NEW n \in Nat
    PROVE  Within(EndOf(p), Lengths(p), n, LinesIn(p, n))
<1>1. Ends(EndOf(p), Lengths(p)) /\ DOMAIN Streams[p] = 1 .. Lengths(p)  BY EndOfFacts
<1>2. LinesIn(p, n) = Cardinality({k \in 1 .. Lengths(p) : EndOf(p)[k] <= n})  BY <1>1 DEF LinesIn
<1> QED  BY <1>1, <1>2, WithinCount

Answers(p) == {HandleLine(Streams[p][k]) : k \in DOMAIN Streams[p]}

\* What FramingExact says of one producer, with its types.
Routed(p) ==
    /\ routed[p] \in Seq(Answers(p))
    /\ Len(routed[p]) = LinesIn(p, pos[p])
    /\ \A k \in DOMAIN routed[p] : routed[p][k] = HandleLine(Streams[p][k])
    /\ start[p] = EndOf(p)[Len(routed[p])]

SentLong(p) == \E k \in DOMAIN Streams[p] : TextLen(Streams[p][k]) > MaxLine

Framed ==
    /\ pos \in [Producers -> Nat] /\ DOMAIN start = Producers /\ DOMAIN routed = Producers
    /\ \A p \in Producers : IF p \in overflowed THEN SentLong(p) ELSE Routed(p)

\* A read that does not overflow routes exactly the lines it completes.
LEMMA ReadRoutes ==
    ASSUME Framed, NEW p \in Producers, p \notin overflowed, NEW k \in Nat,
           pos' = [pos EXCEPT ![p] = @ + k],
           routed' = [routed EXCEPT ![p] = @ \o Extracted(p, pos[p] + k)],
           start' = [start EXCEPT ![p] = Erase(p, pos[p] + k)]
    PROVE  Routed(p)'
<1> DEFINE e == EndOf(p)
           L == Lengths(p)
           n == pos[p] + k
           m == LinesIn(p, pos[p])
           M == LinesIn(p, n)
           r == routed[p]
           x == Extracted(p, n)
           A(j) == HandleLine(Streams[p][j])
           S == Answers(p)
<1>1. pos[p] \in Nat /\ n \in Nat /\ r \in Seq(S) /\ Len(r) = m /\ start[p] = e[m]
      /\ \A j \in DOMAIN r : r[j] = A(j)
  BY DEF Framed, Routed
<1>2. Ends(e, L) /\ DOMAIN Streams[p] = 1 .. L  BY EndOfFacts
<1>3. Within(e, L, pos[p], m) /\ Within(e, L, n, M)  BY <1>1, LinesInFacts
<1>4. m \in 0 .. L /\ M \in 0 .. L /\ L \in Nat /\ e[m] \in Nat  BY <1>2, <1>3 DEF Within, Ends
<1>5. m <= M  BY <1>1, <1>2, <1>3, WithinUnique
<1>6. LinesIn(p, e[m]) = m
  <2>1. Within(e, L, e[m], m)  BY <1>2, <1>4 DEF Within, Ends
  <2>2. Within(e, L, e[m], LinesIn(p, e[m]))  BY <1>4, LinesInFacts
  <2>3. LinesIn(p, e[m]) <= m /\ m <= LinesIn(p, e[m])  BY <1>2, <1>4, <2>1, <2>2, WithinUnique
  <2>4. LinesIn(p, e[m]) \in 0 .. L  BY <2>2 DEF Within
  <2> QED  BY <1>4, <2>3, <2>4
<1>7. x = [j \in 1 .. M - m |-> A(m + j)]  BY <1>1, <1>6 DEF Extracted
<1>8. x \in Seq(S) /\ Len(x) = M - m /\ \A j \in 1 .. M - m : x[j] = A(m + j)
  <2>1. M - m \in Nat  BY <1>4, <1>5
  <2>2. ASSUME NEW j \in 1 .. M - m PROVE A(m + j) \in S
    <3>1. m + j \in 1 .. L  BY <1>4, <1>5
    <3> QED  BY <1>2, <3>1 DEF Answers
  <2> HIDE DEF A, S, x, m, M, n, e, L
  <2> QED  BY <1>7, <2>1, <2>2
<1>9. pos'[p] = n /\ routed'[p] = r \o x /\ start'[p] = Erase(p, n)  BY DEF Framed
<1>10. (r \o x) \in Seq(S) /\ Len(r \o x) = M /\ \A j \in DOMAIN (r \o x) : (r \o x)[j] = A(j)
  <2> HIDE DEF A, S, x, m, M, n, e, L, r
  <2>1. (r \o x) \in Seq(S) /\ Len(r \o x) = M /\ DOMAIN (r \o x) = 1 .. M  BY <1>1, <1>4, <1>5, <1>8
  <2>2. ASSUME NEW j \in 1 .. M PROVE (r \o x)[j] = A(j)
    <3>1. CASE j <= m
      <4>1. j \in DOMAIN r /\ (r \o x)[j] = r[j]  BY <1>1, <1>4, <1>8, <3>1
      <4> QED  BY <1>1, <4>1
    <3>2. CASE j > m
      <4>1. j - m \in 1 .. M - m /\ m + (j - m) = j  BY <1>4, <1>5, <3>2
      <4>2. (r \o x)[j] = x[j - m]  BY <1>1, <1>4, <1>8, <3>2, <4>1
      <4>3. x[j - m] = A(m + (j - m))  BY <1>8, <4>1
      <4> QED  BY <4>1, <4>2, <4>3
    <3>3. j <= m \/ j > m  BY <1>4
    <3> QED  BY <3>1, <3>2, <3>3
  <2> QED  BY <2>1, <2>2
<1>11. Erase(p, n) = e[M]  BY DEF Erase
<1> HIDE DEF A, S, x, m, M, n, e, L, r
<1>12. /\ routed'[p] \in Seq(S) /\ Len(routed'[p]) = M /\ start'[p] = e[Len(routed'[p])]
       /\ \A j \in DOMAIN routed'[p] : routed'[p][j] = A(j)
  BY <1>9, <1>10, <1>11
<1> QED  BY <1>9, <1>12 DEF Routed, A, S, e, M, Answers, LinesIn, EndOf, HandleLine, TextLen, HandleObMessage, HandleTickMessage, HandleControlMessage

\* pending_ overflows only behind the beginning of a line that is too long.
LEMMA ReadOverflows ==
    ASSUME Framed, NEW p \in Producers, p \notin overflowed, NEW k \in 1 .. BufSize,
           pos[p] + k <= EndOf(p)[Len(Streams[p])], pos[p] + k - start[p] > MaxPending
    PROVE  SentLong(p)
<1> DEFINE e == EndOf(p)
           L == Lengths(p)
           m == LinesIn(p, pos[p])
<1>1. pos[p] \in Nat /\ start[p] = e[m]  BY DEF Framed, Routed
<1>2. /\ Ends(e, L) /\ DOMAIN Streams[p] = 1 .. L
      /\ \A j \in 1 .. L : e[j] = e[j - 1] + Streams[p][j].len
  BY EndOfFacts
<1>3. Within(e, L, pos[p], m)  BY <1>1, LinesInFacts
<1>4. pos[p] + k <= e[L]  BY DEF Lengths
<1>5. /\ k \in Nat /\ k <= BufSize /\ BufSize \in Nat /\ MaxLine \in Nat /\ MaxPending \in Nat
      /\ MaxPending >= MaxLine + BufSize /\ \A j \in DOMAIN Streams[p] : Streams[p][j].len \in Nat
  <2>1. \A j \in DOMAIN Streams[p] : Streams[p][j].len \in Nat \ {0}  BY FeedServerAssumption, Zenon
  <2>2. {MaxFeedSessions, BufSize, MaxLine} \subseteq Nat \ {0}  BY FeedServerAssumption, Zenon
  <2>3. MaxPending \in Nat /\ MaxPending >= MaxLine + BufSize  BY FeedServerAssumption, Zenon
  <2>4. BufSize \in Nat /\ MaxLine \in Nat  BY ONLY <2>2
  <2>5. k \in Nat /\ k <= BufSize  BY ONLY <2>4, k \in 1 .. BufSize
  <2> QED  BY ONLY <2>1, <2>3, <2>4, <2>5
<1> HIDE DEF e, L, m
<1>6. m \in 0 .. L /\ L \in Nat /\ e[m] \in Nat /\ e[L] \in Nat /\ e[m] <= pos[p]
  BY <1>2, <1>3 DEF Within, Ends
<1>7. pos[p] - e[m] > MaxLine  BY <1>1, <1>5, <1>6
<1>8. m < L
  <2> SUFFICES ASSUME m = L PROVE FALSE  BY <1>6
  <2> QED  BY <1>1, <1>4, <1>5, <1>6, <1>7
<1>9. m + 1 \in 1 .. L /\ (m + 1) - 1 = m /\ pos[p] < e[m + 1]  BY <1>3, <1>6, <1>8 DEF Within
<1>10. e[m + 1] = e[m] + Streams[p][m + 1].len  BY <1>2, <1>9
<1>11. Streams[p][m + 1].len \in Nat  BY <1>2, <1>5, <1>9
<1>12. Streams[p][m + 1].len - 1 > MaxLine
  <2> DEFINE len == Streams[p][m + 1].len
             next == e[m + 1]
             this == e[m]
             got == pos[p]
  <2>1. got \in Nat /\ this \in Nat /\ len \in Nat /\ next = this + len  BY <1>1, <1>6, <1>10, <1>11
  <2>2. got - this > MaxLine /\ got < next /\ MaxLine \in Nat  BY <1>5, <1>7, <1>9
  <2> HIDE DEF len, next, this, got
  <2>3. len - 1 > MaxLine  BY ONLY <2>1, <2>2
  <2> QED  BY ONLY <2>3 DEF len
<1> QED  BY <1>2, <1>9, <1>12 DEF SentLong, TextLen

\* Only a read touches the streams.
LEMMA FramedStep == Framed /\ [Next]_vars => Framed'
<1> SUFFICES ASSUME Framed, [Next]_vars PROVE Framed'  OBVIOUS
<1>1. ASSUME UNCHANGED <<pos, start, routed, overflowed>> PROVE Framed'
  <2>1. ASSUME NEW p \in Producers PROVE (SentLong(p)' <=> SentLong(p)) /\ (Routed(p)' <=> Routed(p))
    BY <1>1 DEF SentLong, Routed, Answers, LinesIn, EndOf, HandleLine, TextLen, HandleObMessage, HandleTickMessage, HandleControlMessage
  <2> QED  BY <1>1, <2>1 DEF Framed
<1>2. ASSUME NEW p \in Producers, NEW k \in 1 .. BufSize, OnRead(p, k) PROVE Framed'
  <2>1. /\ pos' = [pos EXCEPT ![p] = @ + k] /\ pos[p] + k <= EndOf(p)[Len(Streams[p])] /\ k \in Nat
    BY <1>2, FeedServerAssumption DEF OnRead
  <2>2. pos' \in [Producers -> Nat]
    <3>1. pos[p] + k \in Nat  BY <2>1 DEF Framed
    <3> QED  BY <2>1, <3>1 DEF Framed
  <2>3. ASSUME NEW q \in Producers, q # p, routed'[q] = routed[q], start'[q] = start[q]
        PROVE  (SentLong(q)' <=> SentLong(q)) /\ (Routed(q)' <=> Routed(q))
    <3>1. pos'[q] = pos[q]  BY <2>1, <2>3 DEF Framed
    <3> QED
      BY <2>3, <3>1 DEF SentLong, Routed, Answers, LinesIn, EndOf, HandleLine, TextLen, HandleObMessage, HandleTickMessage, HandleControlMessage
  <2>4. CASE /\ pos[p] + k - start[p] > MaxPending
             /\ overflowed' = overflowed \cup {p} /\ UNCHANGED <<start, routed>>
    <3>1. SentLong(p)
      <4>1. CASE p \in overflowed  BY <4>1 DEF Framed
      <4>2. CASE p \notin overflowed  BY <2>1, <2>4, <4>2, ReadOverflows
      <4> QED  BY <4>1, <4>2
    <3>2. SentLong(p)'  BY <3>1 DEF SentLong
    <3> QED  BY <2>2, <2>3, <2>4, <3>2 DEF Framed
  <2>5. CASE /\ routed' = [routed EXCEPT ![p] = @ \o Extracted(p, pos[p] + k)]
             /\ start' = [start EXCEPT ![p] = Erase(p, pos[p] + k)] /\ UNCHANGED overflowed
    <3>1. IF p \in overflowed THEN SentLong(p)' ELSE Routed(p)'
      <4>1. CASE p \in overflowed
        <5>1. SentLong(p)  BY <4>1 DEF Framed
        <5> QED  BY <4>1, <5>1 DEF SentLong
      <4>2. CASE p \notin overflowed  BY <2>1, <2>5, <4>2, ReadRoutes
      <4> QED  BY <4>1, <4>2
    <3>2. DOMAIN routed' = Producers /\ DOMAIN start' = Producers
          /\ \A q \in Producers : q # p => routed'[q] = routed[q] /\ start'[q] = start[q]
      BY <2>5 DEF Framed
    <3> QED  BY <2>2, <2>3, <2>5, <3>1, <3>2 DEF Framed
  <2> QED  BY <1>2, <2>4, <2>5 DEF OnRead
<1>3. CASE RegisterTest \/ RegisterPush \/ EnterRun \/ StopReturns \/ RunReturns \/ RunThrows \/ Signal
           \/ CopySteps \/ StopOver \/ RunOther \/ RunWsStopAccept \/ RunCloseSessions \/ RunAsioStop
           \/ StopSleeps \/ HandlerWaits \/ WaitEnds \/ UNCHANGED vars
  <2>1. UNCHANGED feedVars
    BY <1>3 DEF RegisterTest, RegisterPush, EnterRun, StopReturns, RunReturns, RunThrows, Signal, OwnStop,
       StopSleeps, HandlerWaits, WaitEnds, CopySteps, StopOver, RunOther, RunWsStopAccept, RunCloseSessions, RunAsioStop, Servers, vars
  <2> QED  BY <1>1, <2>1 DEF feedVars
<1>4. CASE StartServer
  BY <1>1, <1>4 DEF StartServer, RunFeed, streamVars, feedVars
<1>5. CASE RunIngressStop
  BY <1>1, <1>5 DEF RunIngressStop, FeedStop, StopAccepting, CancelAccept, ClearSessions, CloseSessions, streamVars
<1>6. CASE Handler \/ Poll
  <2>1. CASE UNCHANGED feedVars  BY <1>1, <2>1 DEF feedVars
  <2>2. CASE FeedPoll  BY <1>1, <2>2 DEF FeedPoll, Connect, streamVars
  <2>3. CASE FeedIo
    BY <1>1, <1>2, <2>3 DEF FeedIo, OnAccept, OnAcceptError, OnAcceptCap, OnAcceptInsert, DoAcceptTest,
       DoAcceptArm, OnEnd, streamVars, feedVars
  <2> QED  BY <1>6, <2>1, <2>2, <2>3 DEF Handler, Poll
<1> QED  BY <1>3, <1>4, <1>5, <1>6 DEF Next, MainStep, Stop

\* FeedServer's onRead: however the stream is cut into reads, the lines that have
\* arrived in full were routed, once and in order, and a producer is only
\* disconnected for MAX_PENDING if it sent a line that is too long.
THEOREM FramingTheorem == Spec => []FramingExact
<1>1. Init => Framed
  <2> SUFFICES ASSUME Init PROVE Framed  OBVIOUS
  <2>1. /\ pos = [p \in Producers |-> 0] /\ start = [p \in Producers |-> 0]
        /\ routed = [p \in Producers |-> <<>>] /\ overflowed = {}
    BY DEF Init, FeedInit
  <2>2. ASSUME NEW p \in Producers PROVE Routed(p)
    <3>1. Ends(EndOf(p), Lengths(p))  BY EndOfFacts
    <3>2. Within(EndOf(p), Lengths(p), 0, 0)  BY <3>1 DEF Within, Ends
    <3>3. Within(EndOf(p), Lengths(p), 0, LinesIn(p, 0))  BY LinesInFacts
    <3>4. LinesIn(p, 0) <= 0 /\ 0 <= LinesIn(p, 0)  BY <3>1, <3>2, <3>3, WithinUnique
    <3>5. LinesIn(p, 0) = 0 /\ EndOf(p)[0] = 0  BY <3>1, <3>3, <3>4 DEF Within, Ends
    <3> QED  BY <2>1, <3>5 DEF Routed
  <2> QED  BY <2>1, <2>2 DEF Framed
<1>2. Framed => FramingExact  BY DEF Framed, Routed, SentLong, TextLen, FramingExact
<1> QED  BY <1>1, <1>2, FramedStep, PTL DEF Spec
=============================================================================
