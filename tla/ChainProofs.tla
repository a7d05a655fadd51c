----------------------------- MODULE ChainProofs -----------------------------
(***************************************************************************)
(* Proofs about Chain, for any set of pipelines, any number of workers and *)
(* any bounds.  ChildrenKept is inductive because a stage's memory never   *)
(* forgets a symbol; IdleHoldsNothing says that root follows the stack, so *)
(* that what keeps a stage alive is known once the calls have drained.     *)
(*                                                                         *)
(* ExactlyOnce: the chain is six kinds of places, and Tracked says that a  *)
(* value produced is once in one of them and not in the others.  Every     *)
(* step moves ids between two of them, so that it is enough to know what   *)
(* appending, concatenating and flattening do to "once" and "not".         *)
(***************************************************************************)
EXTENDS Chain, InductionLemmas, FiniteSetTheorems

\* A step that puts something for one symbol into the memory of one stage.
Puts(i, s) == \E x : mem' = [mem EXCEPT ![i] = Put(@, s, x)]

-----------------------------------------------------------------------------
(* Children                                                                *)

\* A child that was made is still there: no step takes a symbol away.
ChildrenKept ==
    /\ DOMAIN mem = 1..Depth
    /\ made \in [1..Depth -> [Symbols -> Nat]]
    /\ \A i \in 1..Depth : \A s \in Symbols :
          made[i][s] <= 1 /\ (made[i][s] = 1 => s \in DOMAIN mem[i])

\* Only OnSplitInsert makes children, and the memory of a stage only grows.
LEMMA ChildrenFrame ==
    ASSUME ChildrenKept, pipe' = pipe, made' = made, DOMAIN mem' = DOMAIN mem,
           \A i \in 1..Depth : DOMAIN mem[i] \subseteq DOMAIN mem'[i]
    PROVE  ChildrenKept'
BY DEF ChildrenKept, Depth

\* Putting a value keeps what is there.
LEMMA PutGrows ==
    ASSUME ChildrenKept, NEW j, NEW s, Puts(j, s)
    PROVE  DOMAIN mem' = DOMAIN mem /\ \A i \in 1..Depth : DOMAIN mem[i] \subseteq DOMAIN mem'[i]
<1>1. PICK x : mem' = [mem EXCEPT ![j] = Put(@, s, x)]  BY DEF Puts
<1>2. \A f : DOMAIN f \subseteq DOMAIN Put(f, s, x)  BY DEF Put
<1> QED  BY <1>1, <1>2 DEF ChildrenKept

\* A child is made where there was none, and every other step keeps what is there.
LEMMA ChildrenStep == ChildrenKept /\ [Next]_vars => ChildrenKept'
<1> SUFFICES ASSUME ChildrenKept, [Next]_vars PROVE ChildrenKept'  OBVIOUS
<1>1. ASSUME pipe' = pipe, made' = made, mem' = mem PROVE ChildrenKept'
  BY <1>1, ChildrenFrame
<1>2. ASSUME pipe' = pipe, made' = made, NEW j, NEW s, Puts(j, s) PROVE ChildrenKept'
  BY <1>2, PutGrows, ChildrenFrame
<1>3. CASE BuildStage \/ BuildThrows \/ CreateHead \/ RejectHead \/ Release
  BY <1>1, <1>3 DEF BuildStage, BuildThrows, CreateHead, RejectHead, Release, flow
<1>4. ASSUME NEW i, NEW port, NEW s, Hear(i, port, s) PROVE ChildrenKept'
  BY <1>1, <1>4 DEF Hear
<1>5. CASE HeadHears  BY <1>4, <1>5 DEF HeadHears
<1>6. ASSUME NEW i, NEW s, InputHears(i, s) PROVE ChildrenKept'  BY <1>4, <1>6 DEF InputHears
<1>7. ASSUME NEW i, IntervalTick(i) \/ BucketTick(i) PROVE ChildrenKept'
  BY <1>4, <1>7 DEF IntervalTick, BucketTick
<1>8. ASSUME NEW i, FlushWindow(i) PROVE ChildrenKept'
  <2>1. pipe' = pipe /\ made' = made /\ mem' = [mem EXCEPT ![i] = [s \in DOMAIN mem[i] |-> <<>>]]
    BY <1>8 DEF FlushWindow, Flushed
  <2>2. DOMAIN mem' = DOMAIN mem /\ \A k \in 1..Depth : DOMAIN mem[k] \subseteq DOMAIN mem'[k]
    BY <2>1 DEF ChildrenKept
  <2> QED  BY <2>1, <2>2, ChildrenFrame
<1>9. ASSUME NEW i, PostWindow(i) PROVE ChildrenKept'  BY <1>1, <1>9 DEF PostWindow
<1>10. ASSUME NEW t \in Threads, Work(t) PROVE ChildrenKept'
  <2> DEFINE i == Top(t).node
             v == Top(t).val
  <2> USE DEF Outside
  <2>1. CASE Take(t)  BY <1>1, <2>1 DEF Take
  <2>2. ASSUME NEW port, OnWorker(t, port) PROVE ChildrenKept'
    <3>1. pipe' = pipe /\ made' = made  BY <2>2 DEF OnWorker
    <3>2. mem' = mem \/ Puts(i, v.sym)
      BY <2>2 DEF OnWorker, Puts
    <3> QED  BY <1>1, <1>2, <3>1, <3>2
  <2>3. CASE OnAggregate(t)
    <3>1. pipe' = pipe /\ made' = made  BY <2>3 DEF OnAggregate
    <3>2. mem' = mem \/ Puts(i, v.sym)  BY <2>3 DEF OnAggregate, Puts
    <3> QED  BY <1>1, <1>2, <3>1, <3>2
  <2>4. CASE OnWindow(t)
    <3>1. pipe' = pipe /\ made' = made  BY <2>4 DEF OnWindow
    <3>2. mem' = mem \/ Puts(i, v.sym)
      <4>1. mem' = mem \/ mem' = [mem EXCEPT ![i] = Put(@, v.sym, Append(Of(@, v.sym), v))]
        BY <2>4 DEF OnWindow
      <4>2. [mem EXCEPT ![i] = Put(@, v.sym, Append(Of(@, v.sym), v))]
              = [mem EXCEPT ![i] = Put(@, v.sym, Append(Of(mem[i], v.sym), v))]
        OBVIOUS
      <4> QED  BY <4>1, <4>2 DEF Puts
    <3> QED  BY <1>1, <1>2, <3>1, <3>2
  <2>5. CASE OnReducer(t)  BY <1>1, <2>5 DEF OnReducer
  <2>6. ASSUME NEW port, OnAccessor(t, port) PROVE ChildrenKept'  BY <1>1, <2>6 DEF OnAccessor
  <2>7. CASE OnSource(t)  BY <1>1, <2>7 DEF OnSource
  <2>8. CASE OnSplit(t)  BY <1>1, <2>8 DEF OnSplit
  <2>9. CASE OnSplitInsert(t)
    <3>1. pipe' = pipe  BY <2>9 DEF OnSplitInsert
    <3>2. \/ mem' = mem /\ made' = made
          \/ /\ MustMake(i, v.sym) /\ mem' = [mem EXCEPT ![i] = Put(@, v.sym, <<>>)]
             /\ made' = [made EXCEPT ![i][v.sym] = @ + 1]
      BY <2>9 DEF OnSplitInsert
    <3>3. CASE mem' = mem /\ made' = made  BY <1>1, <3>1, <3>3
    <3>4. CASE /\ MustMake(i, v.sym) /\ mem' = [mem EXCEPT ![i] = Put(@, v.sym, <<>>)]
               /\ made' = [made EXCEPT ![i][v.sym] = @ + 1]
      <4>1. Puts(i, v.sym)  BY <3>4 DEF Puts
      <4>2. DOMAIN mem' = DOMAIN mem /\ \A k \in 1..Depth : DOMAIN mem[k] \subseteq DOMAIN mem'[k]
        BY <4>1, PutGrows
      <4>3. Depth' = Depth  BY <3>1 DEF Depth
      <4> HIDE DEF i, v
      <4>4. made' \in [1..Depth -> [Symbols -> Nat]]
        <5> DEFINE row == [made[i] EXCEPT ![v.sym] = @ + 1]
        <5>1. made' = [made EXCEPT ![i] = row] /\ made \in [1..Depth -> [Symbols -> Nat]]
          BY <3>4 DEF ChildrenKept
        <5>2. i \in 1..Depth => row \in [Symbols -> Nat]
          <6> SUFFICES ASSUME i \in 1..Depth PROVE row \in [Symbols -> Nat]  OBVIOUS
          <6>1. made[i] \in [Symbols -> Nat]  BY <5>1
          <6>2. CASE v.sym \in Symbols
            <7>1. made[i][v.sym] + 1 \in Nat  BY <6>1, <6>2
            <7> QED  BY <6>1, <7>1
          <6>3. CASE v.sym \notin Symbols
            <7>1. row = made[i]  BY <6>1, <6>3
            <7> QED  BY <6>1, <7>1
          <6> QED  BY <6>2, <6>3
        <5> HIDE DEF row
        <5> QED  BY <5>1, <5>2
      <4>5. ASSUME NEW k \in 1..Depth, NEW s \in Symbols
            PROVE  made'[k][s] <= 1 /\ (made'[k][s] = 1 => s \in DOMAIN mem'[k])
        <5>1. CASE k = i /\ s = v.sym
          <6>1. made[k][s] = 0  BY <3>4, <5>1 DEF MustMake, ChildrenKept
          <6>2. made'[k][s] = 1  BY <3>4, <5>1, <6>1 DEF ChildrenKept
          <6>3. mem'[k] = Put(mem[k], s, <<>>)  BY <3>4, <5>1 DEF ChildrenKept
          <6>4. s \in DOMAIN mem'[k]  BY <6>3 DEF Put
          <6> QED  BY <6>2, <6>4
        <5>2. CASE k # i \/ s # v.sym
          <6>1. made'[k][s] = made[k][s]  BY <3>4, <5>2 DEF ChildrenKept
          <6> QED  BY <4>2, <6>1 DEF ChildrenKept
        <5> QED  BY <5>1, <5>2
      <4> QED  BY <4>2, <4>3, <4>4, <4>5 DEF ChildrenKept
    <3> QED  BY <3>2, <3>3, <3>4
  <2>10. CASE OnResponder(t)  BY <1>1, <2>10 DEF OnResponder
  <2> QED  BY <1>10, <2>1, <2>2, <2>3, <2>4, <2>5, <2>6, <2>7, <2>8, <2>9, <2>10 DEF Work
<1>11. CASE UNCHANGED vars  BY <1>1, <1>11 DEF vars, flow
<1> QED  BY <1>3, <1>5, <1>6, <1>7, <1>8, <1>9, <1>10, <1>11 DEF Next, WindowTimer

\* GroupSplit::onValue: whoever wins the race for the exclusive lock, a symbol
\* has one child ever.
THEOREM OneChildTheorem == Spec => []OneChildPerSymbol
<1>1. Init => ChildrenKept  BY DEF Init, ChildrenKept
<1>2. ChildrenKept => OneChildPerSymbol  BY DEF ChildrenKept, OneChildPerSymbol
<1> QED  BY <1>1, <1>2, ChildrenStep, PTL DEF Spec

-----------------------------------------------------------------------------
(* Silence                                                                 *)

\* A worker that runs no task holds no node.
IdleHoldsNothing ==
    /\ DOMAIN stack = Threads /\ DOMAIN root = Threads
    /\ \A t \in Threads : stack[t] = <<>> => root[t] = 0

\* Become ends a task with its last call.
LEMMA BecomeIdle ==
    ASSUME IdleHoldsNothing, NEW t \in Threads, NEW calls, Become(t, calls)
    PROVE  IdleHoldsNothing'
BY DEF IdleHoldsNothing, Become

\* Take enters by a node, and every other step of a worker is a Become.
LEMMA IdleStep == IdleHoldsNothing /\ [Next]_vars => IdleHoldsNothing'
<1> SUFFICES ASSUME IdleHoldsNothing, [Next]_vars PROVE IdleHoldsNothing'  OBVIOUS
<1>1. ASSUME stack' = stack, root' = root PROVE IdleHoldsNothing'  BY <1>1 DEF IdleHoldsNothing
<1>2. CASE BuildStage \/ BuildThrows \/ CreateHead \/ RejectHead \/ Release
  BY <1>1, <1>2 DEF BuildStage, BuildThrows, CreateHead, RejectHead, Release, flow
<1>3. ASSUME NEW i, NEW port, NEW s, Hear(i, port, s) PROVE IdleHoldsNothing'
  BY <1>1, <1>3 DEF Hear
<1>4. CASE HeadHears  BY <1>3, <1>4 DEF HeadHears
<1>5. ASSUME NEW i, NEW s, InputHears(i, s) PROVE IdleHoldsNothing'  BY <1>3, <1>5 DEF InputHears
<1>6. ASSUME NEW i, IntervalTick(i) \/ BucketTick(i) \/ WindowTimer(i) PROVE IdleHoldsNothing'
  BY <1>1, <1>3, <1>6 DEF IntervalTick, BucketTick, WindowTimer, FlushWindow, PostWindow
<1>7. ASSUME NEW t \in Threads, Work(t) PROVE IdleHoldsNothing'
  <2>1. CASE Take(t)  BY <2>1 DEF Take, IdleHoldsNothing
  <2>2. CASE ~Take(t)
    <3>1. \E calls : Become(t, calls)
      BY <1>7, <2>2 DEF Work, OnWorker, OnAggregate, OnWindow, OnReducer, OnAccessor, OnSource,
         OnSplit, OnSplitInsert, OnResponder, Forward, Swallow, ToChild
    <3> QED  BY <3>1, BecomeIdle
  <2> QED  BY <2>1, <2>2
<1>8. CASE UNCHANGED vars  BY <1>1, <1>8 DEF vars, flow
<1> QED  BY <1>2, <1>4, <1>5, <1>6, <1>7, <1>8 DEF Next

\* A chain without owner and without calls cannot be woken, except by a timer.
THEOREM SilentTheorem == Spec => SilentOnceDropped
<1>1. Init => IdleHoldsNothing  BY DEF Init, IdleHoldsNothing
<1>2. IdleHoldsNothing /\ [Next]_vars => (~Held /\ Drained /\ timers = {} => Drained')
  <2> SUFFICES ASSUME IdleHoldsNothing, [Next]_vars, ~Held, Drained, timers = {} PROVE Drained'
    OBVIOUS
  <2>1. queue = <<>> /\ \A t \in Threads : stack[t] = <<>>  BY DEF Drained
  <2>2. ASSUME queue' = queue, stack' = stack PROVE Drained'  BY <2>1, <2>2 DEF Drained
  <2>3. Roots = {}  BY <2>1 DEF Roots, IdleHoldsNothing, Range
  <2>4. CASE BuildStage \/ BuildThrows \/ CreateHead \/ RejectHead \/ Release
    BY <2>2, <2>4 DEF BuildStage, BuildThrows, CreateHead, RejectHead, Release, flow
  <2>5. ~HeadHears  BY DEF HeadHears, Held
  <2>6. ASSUME NEW i, NEW s PROVE ~InputHears(i, s)  BY <2>3 DEF InputHears, Reaches
  <2>7. ASSUME NEW t \in Threads PROVE ~Work(t)
    BY <2>1 DEF Work, Take, OnWorker, OnAggregate, OnWindow, OnReducer, OnAccessor, OnSource,
       OnSplit, OnSplitInsert, OnResponder, At
  <2>8. CASE UNCHANGED vars  BY <2>2, <2>8 DEF vars, flow
  <2> QED  BY <2>4, <2>5, <2>6, <2>7, <2>8 DEF Next
<1> QED  BY <1>1, <1>2, IdleStep, PTL DEF Spec, SilentOnceDropped

-----------------------------------------------------------------------------
(* How often a value is in a family of id sequences                        *)

\* No entry of the family f is n ...
Absent(f, n) == \A k \in DOMAIN f : \A j \in DOMAIN f[k] : f[k][j] # n

\* ... or exactly one is.
Once(f, n) ==
    \E k \in DOMAIN f : \E j \in DOMAIN f[k] :
        /\ f[k][j] = n
        /\ \A k2 \in DOMAIN f : \A j2 \in DOMAIN f[k2] : f[k2][j2] = n => k2 = k /\ j2 = j

\* f and g together hold n once.
OnceInBoth(f, g, n) == (Once(f, n) /\ Absent(g, n)) \/ (Absent(f, n) /\ Once(g, n))

\* A family that is f, then g, holds what f and g hold.
LEMMA JoinedHolds ==
    ASSUME NEW f, NEW g, NEW h, NEW n, Joined(f, g, h)
    PROVE  /\ Absent(h, n) <=> Absent(f, n) /\ Absent(g, n)
           /\ Once(h, n) <=> OnceInBoth(f, g, n)
<1> DEFINE x == Len(f)
           y == Len(g)
<1>1. /\ DOMAIN h = 1 .. x + y /\ DOMAIN f = 1 .. x /\ DOMAIN g = 1 .. y
      /\ x \in Nat /\ y \in Nat
      /\ \A i \in 1 .. x : h[i] = f[i]
      /\ \A i \in 1 .. y : h[x + i] = g[i]
      /\ \A i \in x + 1 .. x + y : i - x \in 1 .. y /\ h[i] = g[i - x]
  BY DEF Joined
<1> HIDE DEF x, y
<1>2. /\ \A i \in 1 .. x : i \in 1 .. x + y
      /\ \A i \in 1 .. y : x + i \in 1 .. x + y
      /\ \A i \in 1 .. x + y : i \in 1 .. x \/ i \in x + 1 .. x + y
  BY <1>1
<1>3. Absent(h, n) => Absent(f, n) /\ Absent(g, n)
  <2> SUFFICES ASSUME Absent(h, n) PROVE Absent(f, n) /\ Absent(g, n)  OBVIOUS
  <2>1. Absent(f, n)  BY <1>1, <1>2 DEF Absent
  <2>2. ASSUME NEW i \in 1 .. y PROVE \A j \in DOMAIN g[i] : g[i][j] # n
    <3>1. x + i \in DOMAIN h /\ h[x + i] = g[i]  BY <1>1, <1>2
    <3> QED  BY <3>1 DEF Absent
  <2> QED  BY <1>1, <2>1, <2>2 DEF Absent
<1>4. Absent(f, n) /\ Absent(g, n) => Absent(h, n)
  <2> SUFFICES ASSUME Absent(f, n), Absent(g, n), NEW i \in 1 .. x + y
               PROVE  \A j \in DOMAIN h[i] : h[i][j] # n
    BY <1>1 DEF Absent
  <2>1. CASE i \in 1 .. x  BY <1>1, <2>1 DEF Absent
  <2>2. CASE i \in x + 1 .. x + y
    <3>1. i - x \in DOMAIN g /\ h[i] = g[i - x]  BY <1>1, <2>2
    <3> QED  BY <3>1 DEF Absent
  <2> QED  BY <1>2, <2>1, <2>2
<1>5. Once(f, n) /\ Absent(g, n) => Once(h, n)
  <2> SUFFICES ASSUME Once(f, n), Absent(g, n) PROVE Once(h, n)  OBVIOUS
  <2>1. PICK k \in 1 .. x : \E j \in DOMAIN f[k] :
               /\ f[k][j] = n
               /\ \A k2 \in 1 .. x : \A j2 \in DOMAIN f[k2] : f[k2][j2] = n => k2 = k /\ j2 = j
    BY <1>1 DEF Once
  <2>2. PICK j \in DOMAIN f[k] :
               /\ f[k][j] = n
               /\ \A k2 \in 1 .. x : \A j2 \in DOMAIN f[k2] : f[k2][j2] = n => k2 = k /\ j2 = j
    BY <2>1
  <2>3. k \in DOMAIN h /\ h[k] = f[k]  BY <1>1, <1>2
  <2>4. ASSUME NEW k2 \in 1 .. x + y, NEW j2 \in DOMAIN h[k2], h[k2][j2] = n PROVE k2 = k /\ j2 = j
    <3>1. CASE k2 \in 1 .. x  BY <1>1, <2>2, <2>4, <3>1
    <3>2. CASE k2 \in x + 1 .. x + y
      <4>1. k2 - x \in DOMAIN g /\ h[k2] = g[k2 - x]  BY <1>1, <3>2
      <4> QED  BY <2>4, <4>1 DEF Absent
    <3> QED  BY <1>2, <3>1, <3>2
  <2> QED  BY <1>1, <2>2, <2>3, <2>4 DEF Once
<1>6. Absent(f, n) /\ Once(g, n) => Once(h, n)
  <2> SUFFICES ASSUME Absent(f, n), Once(g, n) PROVE Once(h, n)  OBVIOUS
  <2>1. PICK k \in 1 .. y : \E j \in DOMAIN g[k] :
               /\ g[k][j] = n
               /\ \A k2 \in 1 .. y : \A j2 \in DOMAIN g[k2] : g[k2][j2] = n => k2 = k /\ j2 = j
    BY <1>1 DEF Once
  <2>2. PICK j \in DOMAIN g[k] :
               /\ g[k][j] = n
               /\ \A k2 \in 1 .. y : \A j2 \in DOMAIN g[k2] : g[k2][j2] = n => k2 = k /\ j2 = j
    BY <2>1
  <2> DEFINE m == x + k
  <2>3. m \in DOMAIN h /\ h[m] = g[k]  BY <1>1, <1>2
  <2>4. ASSUME NEW k2 \in DOMAIN h, NEW j2 \in DOMAIN h[k2], h[k2][j2] = n
        PROVE  k2 = m /\ j2 = j
    <3>1. CASE k2 \in 1 .. x  BY <1>1, <2>4, <3>1 DEF Absent
    <3>2. CASE k2 \in x + 1 .. x + y
      <4>1. k2 - x \in 1 .. y /\ h[k2] = g[k2 - x]  BY <1>1, <3>2
      <4>2. k2 - x = k /\ j2 = j  BY <2>2, <2>4, <4>1
      <4> QED  BY <1>1, <4>2
    <3> QED  BY <1>1, <1>2, <3>1, <3>2
  <2> HIDE DEF m
  <2>5. j \in DOMAIN h[m] /\ h[m][j] = n  BY <2>2, <2>3
  <2> QED  BY <2>3, <2>4, <2>5, Zenon DEF Once
<1>7. Once(h, n) => OnceInBoth(f, g, n)
  <2> SUFFICES ASSUME Once(h, n) PROVE OnceInBoth(f, g, n)  OBVIOUS
  <2>1. PICK k \in DOMAIN h : \E j \in DOMAIN h[k] :
               /\ h[k][j] = n
               /\ \A k2 \in DOMAIN h : \A j2 \in DOMAIN h[k2] : h[k2][j2] = n => k2 = k /\ j2 = j
    BY DEF Once
  <2>2. PICK j \in DOMAIN h[k] :
               /\ h[k][j] = n
               /\ \A k2 \in 1 .. x + y : \A j2 \in DOMAIN h[k2] : h[k2][j2] = n => k2 = k /\ j2 = j
    BY <1>1, <2>1
  <2>3. CASE k \in 1 .. x
    <3>1. h[k] = f[k] /\ k \in DOMAIN f  BY <1>1, <2>3
    <3>2. ASSUME NEW k2 \in 1 .. x, NEW j2 \in DOMAIN f[k2], f[k2][j2] = n PROVE k2 = k /\ j2 = j
      BY <1>1, <1>2, <2>2, <3>2
    <3>3. Once(f, n)  BY <1>1, <2>2, <3>1, <3>2 DEF Once
    <3>4. ASSUME NEW i \in 1 .. y, NEW j2 \in DOMAIN g[i], g[i][j2] = n PROVE FALSE
      <4>1. x + i \in 1 .. x + y /\ h[x + i] = g[i]  BY <1>1, <1>2
      <4>2. x + i = k  BY <2>2, <3>4, <4>1
      <4> QED  BY <1>1, <2>3, <4>2
    <3>5. Absent(g, n)  BY <1>1, <3>4 DEF Absent
    <3> QED  BY <3>3, <3>5 DEF OnceInBoth
  <2>4. CASE k \in x + 1 .. x + y
    <3>1. k - x \in 1 .. y /\ h[k] = g[k - x]  BY <1>1, <2>4
    <3>2. ASSUME NEW i \in 1 .. y, NEW j2 \in DOMAIN g[i], g[i][j2] = n PROVE i = k - x /\ j2 = j
      <4>1. x + i \in 1 .. x + y /\ h[x + i] = g[i]  BY <1>1, <1>2
      <4>2. x + i = k /\ j2 = j  BY <2>2, <3>2, <4>1
      <4> QED  BY <1>1, <4>2
    <3>3. Once(g, n)
      <4> DEFINE m == k - x
      <4>1. m \in DOMAIN g /\ j \in DOMAIN g[m] /\ g[m][j] = n  BY <1>1, <2>2, <3>1
      <4>2. \A i \in DOMAIN g : \A j2 \in DOMAIN g[i] : g[i][j2] = n => i = m /\ j2 = j  BY <1>1, <3>2
      <4> HIDE DEF m
      <4> QED  BY <4>1, <4>2, ZenonT(40) DEF Once
    <3>4. ASSUME NEW i \in 1 .. x, NEW j2 \in DOMAIN f[i], f[i][j2] = n PROVE FALSE
      <4>1. i \in 1 .. x + y /\ h[i] = f[i]  BY <1>1, <1>2
      <4>2. i = k  BY <2>2, <3>4, <4>1
      <4> QED  BY <1>1, <2>4, <4>2
    <3>5. Absent(f, n)  BY <1>1, <3>4 DEF Absent
    <3> QED  BY <3>3, <3>5 DEF OnceInBoth
  <2> QED  BY <1>1, <1>2, <2>3, <2>4
<1> QED  BY <1>3, <1>4, <1>5, <1>6, <1>7 DEF OnceInBoth

\* The concatenation of two families.
LEMMA ConcatHolds ==
    ASSUME NEW S, NEW f \in Seq(S), NEW g \in Seq(S), NEW n
    PROVE  /\ Absent(f \o g, n) <=> Absent(f, n) /\ Absent(g, n)
           /\ Once(f \o g, n) <=> OnceInBoth(f, g, n)
<1>1. Joined(f, g, f \o g)  BY ConcatEntries DEF Joined
<1> QED  BY <1>1, JoinedHolds

\* An empty family holds nothing.
LEMMA NothingHeld ==
    ASSUME NEW n
    PROVE  Absent(<<>>, n) /\ ~Once(<<>>, n)
BY DEF Absent, Once

\* A sequence of ids as a family by itself.
LEMMA SingleHolds ==
    ASSUME NEW s, NEW n
    PROVE  /\ Absent(<<s>>, n) <=> \A j \in DOMAIN s : s[j] # n
           /\ Once(<<s>>, n) <=> \E j \in DOMAIN s : s[j] = n /\ \A i \in DOMAIN s : s[i] = n => i = j
<1>1. DOMAIN <<s>> = {1} /\ <<s>>[1] = s  OBVIOUS
<1> DEFINE f == <<s>>
<1> HIDE DEF f
<1>2. DOMAIN f = {1} /\ f[1] = s  BY <1>1 DEF f
<1>3. Absent(f, n) <=> \A j \in DOMAIN s : s[j] # n  BY <1>2 DEF Absent
<1>4. Once(f, n) <=> \E j \in DOMAIN s : s[j] = n /\ \A i \in DOMAIN s : s[i] = n => i = j
  BY <1>2 DEF Once
<1> QED  BY <1>3, <1>4 DEF f

\* Two sequences of ids in one.
LEMMA MergeHolds ==
    ASSUME NEW S, NEW a \in Seq(S), NEW b \in Seq(S), NEW n
    PROVE  /\ Absent(<<a \o b>>, n) <=> Absent(<<a>>, n) /\ Absent(<<b>>, n)
           /\ Once(<<a \o b>>, n) <=> OnceInBoth(<<a>>, <<b>>, n)
<1> DEFINE c == a \o b
           x == Len(a)
           y == Len(b)
<1>1. /\ DOMAIN c = 1 .. x + y /\ DOMAIN a = 1 .. x /\ DOMAIN b = 1 .. y
      /\ x \in Nat /\ y \in Nat
      /\ \A i \in 1 .. x : c[i] = a[i]
      /\ \A i \in 1 .. y : c[x + i] = b[i]
      /\ \A i \in x + 1 .. x + y : i - x \in 1 .. y /\ c[i] = b[i - x]
  BY ConcatEntries
<1> DEFINE No(s) == \A j \in DOMAIN s : s[j] # n
           One(s) == \E j \in DOMAIN s : s[j] = n /\ \A i \in DOMAIN s : s[i] = n => i = j
<1> HIDE DEF x, y, c
<1>2. /\ \A i \in 1 .. x : i \in 1 .. x + y
      /\ \A i \in 1 .. y : x + i \in 1 .. x + y
      /\ \A i \in 1 .. x + y : i \in 1 .. x \/ i \in x + 1 .. x + y
  BY <1>1
<1>3. No(c) => No(a) /\ No(b)
  <2> SUFFICES ASSUME No(c) PROVE No(a) /\ No(b)  OBVIOUS
  <2>1. No(a)  BY <1>1, <1>2
  <2>2. ASSUME NEW i \in 1 .. y PROVE b[i] # n
    <3>1. x + i \in DOMAIN c /\ c[x + i] = b[i]  BY <1>1, <1>2
    <3> QED  BY <3>1
  <2> QED  BY <1>1, <2>1, <2>2
<1>4. No(a) /\ No(b) => No(c)
  <2> SUFFICES ASSUME No(a), No(b), NEW i \in 1 .. x + y PROVE c[i] # n  BY <1>1
  <2>1. CASE i \in 1 .. x  BY <1>1, <2>1
  <2>2. CASE i \in x + 1 .. x + y
    <3>1. i - x \in DOMAIN b /\ c[i] = b[i - x]  BY <1>1, <2>2
    <3> QED  BY <3>1
  <2> QED  BY <1>2, <2>1, <2>2
<1>5. One(a) /\ No(b) => One(c)
  <2> SUFFICES ASSUME One(a), No(b) PROVE One(c)  OBVIOUS
  <2>1. PICK j \in 1 .. x : a[j] = n /\ \A i \in 1 .. x : a[i] = n => i = j  BY <1>1
  <2>2. ASSUME NEW i \in 1 .. x + y, c[i] = n PROVE i = j
    <3>1. CASE i \in 1 .. x  BY <1>1, <2>1, <2>2, <3>1
    <3>2. CASE i \in x + 1 .. x + y
      <4>1. i - x \in DOMAIN b /\ c[i] = b[i - x]  BY <1>1, <3>2
      <4> QED  BY <2>2, <4>1
    <3> QED  BY <1>2, <3>1, <3>2
  <2>3. j \in DOMAIN c /\ c[j] = n  BY <1>1, <1>2, <2>1
  <2> QED  BY <1>1, <2>2, <2>3
<1>6. No(a) /\ One(b) => One(c)
  <2> SUFFICES ASSUME No(a), One(b) PROVE One(c)  OBVIOUS
  <2>1. PICK j \in 1 .. y : b[j] = n /\ \A i \in 1 .. y : b[i] = n => i = j  BY <1>1
  <2>2. ASSUME NEW i \in 1 .. x + y, c[i] = n PROVE i = x + j
    <3>1. CASE i \in 1 .. x  BY <1>1, <2>2, <3>1
    <3>2. CASE i \in x + 1 .. x + y
      <4>1. i - x \in 1 .. y /\ c[i] = b[i - x]  BY <1>1, <3>2
      <4>2. i - x = j  BY <2>1, <2>2, <4>1
      <4> QED  BY <1>1, <4>2
    <3> QED  BY <1>2, <3>1, <3>2
  <2>3. x + j \in DOMAIN c /\ c[x + j] = n  BY <1>1, <1>2, <2>1
  <2> QED  BY <1>1, <2>2, <2>3
<1>7. One(c) => (One(a) /\ No(b)) \/ (No(a) /\ One(b))
  <2> SUFFICES ASSUME One(c) PROVE (One(a) /\ No(b)) \/ (No(a) /\ One(b))  OBVIOUS
  <2>1. PICK j \in 1 .. x + y : c[j] = n /\ \A i \in 1 .. x + y : c[i] = n => i = j  BY <1>1
  <2>2. CASE j \in 1 .. x
    <3>1. a[j] = n /\ \A i \in 1 .. x : a[i] = n => i = j  BY <1>1, <1>2, <2>1, <2>2
    <3>2. ASSUME NEW i \in 1 .. y, b[i] = n PROVE FALSE
      <4>1. x + i \in 1 .. x + y /\ c[x + i] = n  BY <1>1, <1>2, <3>2
      <4>2. x + i = j  BY <2>1, <4>1
      <4> QED  BY <1>1, <2>2, <4>2
    <3> QED  BY <1>1, <2>2, <3>1, <3>2
  <2>3. CASE j \in x + 1 .. x + y
    <3>1. j - x \in 1 .. y /\ b[j - x] = n  BY <1>1, <2>1, <2>3
    <3>2. ASSUME NEW i \in 1 .. y, b[i] = n PROVE i = j - x
      <4>1. x + i \in 1 .. x + y /\ c[x + i] = n  BY <1>1, <1>2, <3>2
      <4>2. x + i = j  BY <2>1, <4>1
      <4> QED  BY <1>1, <4>2
    <3>3. ASSUME NEW i \in 1 .. x, a[i] = n PROVE FALSE
      <4>1. i \in 1 .. x + y /\ c[i] = n  BY <1>1, <1>2, <3>3
      <4>2. i = j  BY <2>1, <4>1
      <4> QED  BY <1>1, <2>3, <4>2
    <3> QED  BY <1>1, <3>1, <3>2, <3>3
  <2> QED  BY <1>2, <2>2, <2>3
<1>8. /\ No(a) <=> Absent(<<a>>, n)
      /\ No(b) <=> Absent(<<b>>, n)
      /\ No(c) <=> Absent(<<c>>, n)
      /\ One(a) <=> Once(<<a>>, n)
      /\ One(b) <=> Once(<<b>>, n)
      /\ One(c) <=> Once(<<c>>, n)
  BY SingleHolds
<1> HIDE DEF No, One
<1> QED  BY <1>3, <1>4, <1>5, <1>6, <1>7, <1>8 DEF OnceInBoth, c

\* What FlattenSeq makes of a family holds what the family holds.
LEMMA FlatHolds ==
    ASSUME NEW S, NEW f \in Seq(Seq(S)), NEW n
    PROVE  /\ FlattenSeq(f) \in Seq(S)
           /\ Absent(<<FlattenSeq(f)>>, n) <=> Absent(f, n)
           /\ Once(<<FlattenSeq(f)>>, n) <=> Once(f, n)
<1>0. FlattenSeq(f) \in Seq(S)  BY FlattenFacts
<1>1. CASE f = <<>>
  <2>1. FlattenSeq(f) = <<>>  BY <1>1 DEF FlattenSeq
  <2>2. DOMAIN <<>> = {}  OBVIOUS
  <2>3. Absent(<< <<>> >>, n) /\ ~Once(<< <<>> >>, n)  BY <2>2, SingleHolds
  <2> QED  BY <1>0, <1>1, <2>1, <2>3, NothingHeld
<1>2. CASE f # <<>>
  <2> DEFINE L == Len(f)
             Q == Seq(S)
             Pre(k) == SubSeq(f, 1, k)
             Same(s, g) == (Absent(<<s>>, n) <=> Absent(g, n)) /\ (Once(<<s>>, n) <=> Once(g, n))
  <2>1. L \in Nat \ {0} /\ DOMAIN f = 1 .. L /\ \A i \in 1 .. L : f[i] \in Q
    BY <1>2
  <2>2. PICK p \in [1 .. L -> Q] : /\ p[1] = f[1]
                                   /\ \A i \in 2 .. L : p[i] = p[i - 1] \o f[i]
                                   /\ FlattenSeq(f) = p[L]
    BY <1>2, FlattenSteps
  <2>3. Pre(1) = <<f[1]>> /\ Pre(L) = f
    <3>1. Len(Pre(L)) = L /\ \A i \in 1 .. L : Pre(L)[i] = f[i]  BY <2>1
    <3>2. Pre(1) \in Seq(Q) /\ Len(Pre(1)) = 1 /\ Pre(1)[1] = f[1]  BY <2>1
    <3>3. Pre(L) \in Seq(Q)  BY <2>1
    <3> HIDE DEF Q
    <3>4. Pre(1) = <<f[1]>>
      <4> DEFINE e == <<f[1]>>
                 d == Pre(1)
      <4>1. e \in Seq(Q) /\ Len(e) = 1 /\ e[1] = f[1]  BY <2>1
      <4>2. d \in Seq(Q) /\ Len(d) = 1 /\ d[1] = f[1]  BY <3>2
      <4> HIDE DEF e, d
      <4>3. d = e  BY <4>1, <4>2
      <4> QED  BY <4>3 DEF d, e
    <3> HIDE DEF Pre
    <3>5. f \in Seq(Q)  BY DEF Q
    <3>6. Len(f) = L  OBVIOUS
    <3> HIDE DEF L
    <3>7. Pre(L) = f  BY <3>1, <3>3, <3>5, <3>6
    <3> QED  BY <3>4, <3>7
  <2>4. ASSUME NEW k \in 1 .. L - 1
        PROVE  Pre(k) \in Seq(Q) /\ <<f[k + 1]>> \in Seq(Q) /\ Pre(k + 1) = Pre(k) \o <<f[k + 1]>>
    BY <2>1
  <2> DEFINE P == {k \in 0 .. L - 1 : Same(p[k + 1], Pre(k + 1))}
  <2> HIDE DEF L, Pre
  <2>5. 0 \in P
    <3>1. Same(p[1], Pre(1))  BY <2>2, <2>3
    <3> HIDE DEF Same
    <3> QED  BY <2>1, <3>1
  <2>6. ASSUME NEW k \in 0 .. (L - 1) - 1, k \in P PROVE k + 1 \in P
    <3> DEFINE m == k + 1
    <3>1. /\ m \in 1 .. L - 1 /\ m + 1 \in 2 .. L /\ m \in 1 .. L /\ m + 1 \in 1 .. L
          /\ (m + 1) - 1 = m /\ m \in 0 .. L - 1
      BY <2>1
    <3>2. Same(p[m], Pre(m))  BY <2>6
    <3> HIDE DEF m
    <3>3. p[m] \in Q /\ f[m + 1] \in Q  BY <2>1, <3>1
    <3>4. p[m + 1] = p[m] \o f[m + 1]
      <4>1. p[m + 1] = p[(m + 1) - 1] \o f[m + 1]  BY <2>2, <3>1
      <4> QED  BY <3>1, <4>1
    <3>5. /\ Absent(<<p[m + 1]>>, n) <=> Absent(<<p[m]>>, n) /\ Absent(<<f[m + 1]>>, n)
          /\ Once(<<p[m + 1]>>, n) <=> OnceInBoth(<<p[m]>>, <<f[m + 1]>>, n)
      <4>1. p[m] \in Seq(S) /\ f[m + 1] \in Seq(S)  BY <3>3
      <4> DEFINE a == p[m]
                 b == f[m + 1]
      <4> HIDE DEF a, b
      <4>2. a \in Seq(S) /\ b \in Seq(S) /\ p[m + 1] = a \o b  BY <3>4, <4>1 DEF a, b
      <4>3. /\ Absent(<<a \o b>>, n) <=> Absent(<<a>>, n) /\ Absent(<<b>>, n)
            /\ Once(<<a \o b>>, n) <=> OnceInBoth(<<a>>, <<b>>, n)
        BY <4>2, MergeHolds
      <4> QED  BY <4>2, <4>3 DEF a, b
    <3>6. Pre(m) \in Seq(Q) /\ <<f[m + 1]>> \in Seq(Q) /\ Pre(m + 1) = Pre(m) \o <<f[m + 1]>>
      BY <2>4, <3>1
    <3>7. /\ Absent(Pre(m + 1), n) <=> Absent(Pre(m), n) /\ Absent(<<f[m + 1]>>, n)
          /\ Once(Pre(m + 1), n) <=> OnceInBoth(Pre(m), <<f[m + 1]>>, n)
      <4> DEFINE a == Pre(m)
                 b == <<f[m + 1]>>
      <4> HIDE DEF Q, a, b
      <4>1. a \in Seq(Q) /\ b \in Seq(Q) /\ Pre(m + 1) = a \o b  BY <3>6 DEF a, b
      <4>2. /\ Absent(a \o b, n) <=> Absent(a, n) /\ Absent(b, n)
            /\ Once(a \o b, n) <=> OnceInBoth(a, b, n)
        BY <4>1, ConcatHolds
      <4> QED  BY <4>1, <4>2 DEF a, b
    <3>8. Same(p[m + 1], Pre(m + 1))  BY <3>2, <3>5, <3>7 DEF OnceInBoth
    <3> HIDE DEF Same
    <3> QED  BY <3>1, <3>8 DEF m
  <2>7. 0 .. L - 1 \subseteq P
    <3> HIDE DEF P
    <3>1. L - 1 \in Nat  BY <2>1
    <3> QED  BY <2>5, <2>6, <3>1, UpTo
  <2>8. Same(p[L], Pre(L))
    <3>1. L - 1 \in 0 .. L - 1 /\ (L - 1) + 1 = L  BY <2>1
    <3>2. L - 1 \in P  BY <2>7, <3>1
    <3> HIDE DEF Same
    <3> QED  BY <3>1, <3>2
  <2> QED  BY <1>0, <2>2, <2>3, <2>8
<1> QED  BY <1>1, <1>2

-----------------------------------------------------------------------------
(* Shape                                                                   *)

\* The ports of a stage.
Ports == {"own", "input", "insert", "child"}

\* The calls a stage can get: only an Aggregate has inputs, only a GroupSplit children.
Calls ==
    {c \in [node : 1..(Depth + 1), port : Ports, val : Value] :
        /\ c.port = "input" => Kind(c.node) = "Aggregate"
        /\ c.port \in {"insert", "child"} => Kind(c.node) = "GroupSplit"}

\* What the stages remember: values, by symbol.
MemOK(m) ==
    /\ DOMAIN m = 1..Depth
    /\ \A i \in 1..Depth : /\ DOMAIN m[i] \subseteq Symbols
                           /\ \A s \in DOMAIN m[i] : m[i][s] \in Seq(Value)

\* The lifecycle of the request ...
LifeOK ==
    /\ pipe \in Pipelines
    /\ phase \in {"building", "live", "failed", "released"}
    /\ unbuilt \in 0..Depth
    /\ timers \subseteq 1..Depth
    /\ inputs \subseteq (1..Depth) \X Symbols
    /\ \A is \in inputs : Kind(is[1]) = "Aggregate"

\* ... and what flows through the chain.
FlowOK ==
    /\ fed \in Seq(Symbols) /\ Len(fed) <= MaxFed
    /\ queue \in Seq(Calls)
    /\ stack \in [Threads -> Seq(Calls)]
    /\ root \in [Threads -> 0..(Depth + 1)]
    /\ MemOK(mem)
    /\ emits \in [1..Depth -> SUBSET Value]
    /\ sent \in [Ids -> Nat]
    /\ lost \subseteq Ids
    /\ throws \in 0..MaxThrows

\* The types of the variables, as an inductive invariant.
Shape == LifeOK /\ FlowOK

\* What the assumption says of the request's pipeline.
LEMMA PipeFacts ==
    ASSUME pipe \in Pipelines
    PROVE  /\ Depth \in Nat
           /\ \A i \in 1..Depth : /\ pipe[i].args \in Seq(STRING) /\ pipe[i].arity \in Nat \ {0}
                                  /\ pipe[i].cap \in Nat /\ Kind(i) = pipe[i].kind
                                  /\ Range(InputsOf(i)) \subseteq Symbols
                                  /\ InputsOf(i) \in Seq(STRING)
<1>1. pipe \in Seq([kind : STRING, args : Seq(STRING), arity : Nat \ {0}, cap : Nat \ {0}])
  BY ChainAssumption
<1>2. Depth \in Nat /\ DOMAIN pipe = 1..Depth  BY <1>1 DEF Depth
<1>3. ASSUME NEW i \in 1..Depth
      PROVE  /\ pipe[i] \in [kind : STRING, args : Seq(STRING), arity : Nat \ {0}, cap : Nat \ {0}]
             /\ Kind(i) = pipe[i].kind
  <2>1. pipe[i] \in [kind : STRING, args : Seq(STRING), arity : Nat \ {0}, cap : Nat \ {0}]
    <3> DEFINE R == [kind : STRING, args : Seq(STRING), arity : Nat \ {0}, cap : Nat \ {0}]
    <3> HIDE DEF R
    <3>1. pipe \in Seq(R)  BY <1>1 DEF R
    <3>2. pipe[i] \in R  BY <1>2, <3>1
    <3> QED  BY <3>2 DEF R
  <2>2. ~(i > Depth)  BY <1>2
  <2> QED  BY <2>1, <2>2 DEF Kind
<1>4. ASSUME NEW i \in 1..Depth
      PROVE  Range(InputsOf(i)) \subseteq Symbols /\ InputsOf(i) \in Seq(STRING)
  <2>1. CASE Kind(i) = "Aggregate"
    <3>1. InputsOf(i) = pipe[i].args  BY <2>1 DEF InputsOf
    <3>2. i \in {j \in DOMAIN pipe : pipe[j].kind = "Aggregate"}  BY <1>2, <1>3, <2>1
    <3> DEFINE args(p) == UNION {Range(p[j].args) : j \in {j \in DOMAIN p : p[j].kind = "Aggregate"}}
    <3>3. Range(pipe[i].args) \subseteq args(pipe)  BY <3>2, Zenon
    <3>4. args(pipe) \subseteq UNION {args(p) : p \in Pipelines}
      <4> HIDE DEF args
      <4> QED  OBVIOUS
    <3>5. UNION {args(p) : p \in Pipelines} \subseteq Symbols  BY Zenon DEF Symbols
    <3>6. Range(pipe[i].args) \subseteq Symbols  BY <3>3, <3>4, <3>5, Zenon
    <3> QED  BY <1>3, <3>1, <3>6
  <2>2. CASE Kind(i) # "Aggregate"
    <3>1. InputsOf(i) = <<>>  BY <2>2 DEF InputsOf
    <3> QED  BY <3>1 DEF Range
  <2> QED  BY <2>1, <2>2
<1> QED  BY <1>2, <1>3, <1>4

\* Nothing changes the pipeline.
LEMMA PipeKept ==
    ASSUME pipe' = pipe
    PROVE  /\ Depth' = Depth /\ Calls' = Calls
           /\ \A i : Kind(i)' = Kind(i)
           /\ \A m : MemOK(m)' <=> MemOK(m)
<1>1. Depth' = Depth  BY DEF Depth
<1>2. \A i : Kind(i)' = Kind(i)  BY <1>1 DEF Kind
<1>3. Calls' = Calls  BY <1>1, <1>2 DEF Calls
<1> QED  BY <1>1, <1>2, <1>3 DEF MemOK

\* The head's symbol and a tick's are symbols.
LEMMA SymbolFacts == HeadSymbol \in Symbols /\ Blank \in Symbols
BY DEF Symbols

\* A step of a worker, timer or listener leaves the lifecycle alone.
LEMMA LifeFrame ==
    ASSUME LifeOK, UNCHANGED <<pipe, phase, unbuilt, timers, inputs>>
    PROVE  LifeOK'
BY PipeKept DEF LifeOK

\* The lifecycle steps.
LEMMA LifeStep ==
    ASSUME LifeOK, BuildStage \/ BuildThrows \/ CreateHead \/ RejectHead \/ Release
    PROVE  LifeOK'
<1>1. pipe' = pipe
  BY DEF BuildStage, BuildThrows, CreateHead, RejectHead, Release
<1>2. Depth \in Nat /\ \A i \in 1..Depth : Range(InputsOf(i)) \subseteq Symbols
                                           /\ InputsOf(i) \in Seq(STRING)
  BY PipeFacts DEF LifeOK
<1>3. \A i : Kind(i) # "Aggregate" => Range(InputsOf(i)) = {} /\ InputsOf(i) = <<>>
  BY DEF InputsOf, Range
<1>4. CASE BuildStage
  <2>1. unbuilt \in 1..Depth /\ unbuilt' \in 0..Depth  BY <1>2, <1>4 DEF BuildStage, LifeOK
  <2>2. timers' \subseteq 1..Depth  BY <1>4, <2>1 DEF BuildStage, LifeOK
  <2>3. inputs' = inputs \cup {<<unbuilt, s>> : s \in Range(InputsOf(unbuilt))}
    BY <1>4 DEF BuildStage
  <2>4. inputs' \subseteq (1..Depth) \X Symbols  BY <1>2, <2>1, <2>3 DEF LifeOK
  <2>5. \A is \in inputs' : Kind(is[1]) = "Aggregate"  BY <1>3, <2>3 DEF LifeOK
  <2> QED  BY <1>1, <1>4, <2>1, <2>2, <2>4, <2>5, PipeKept DEF LifeOK, BuildStage
<1>5. CASE BuildThrows
  <2>1. unbuilt \in 1..Depth  BY <1>2, <1>5 DEF BuildThrows, LifeOK
  <2> DEFINE a == InputsOf(unbuilt)
  <2>2. PICK k \in 0..Len(a) :
           inputs' = inputs \cup {<<unbuilt, s>> : s \in Range(SubSeq(a, 1, k))}
    BY <1>5 DEF BuildThrows
  <2>3. Range(SubSeq(a, 1, k)) \subseteq Range(a)
    <3>1. a \in Seq(STRING)  BY <1>2, <2>1
    <3> HIDE DEF a
    <3>2. k \in Nat /\ k <= Len(a)  BY <3>1
    <3>3. DOMAIN SubSeq(a, 1, k) \subseteq DOMAIN a
          /\ \A i \in DOMAIN SubSeq(a, 1, k) : SubSeq(a, 1, k)[i] = a[i]
      BY <3>1, <3>2
    <3> QED  BY <3>3 DEF Range
  <2>4. inputs' \subseteq (1..Depth) \X Symbols  BY <1>2, <2>1, <2>2, <2>3 DEF LifeOK
  <2>5. \A is \in inputs' : Kind(is[1]) = "Aggregate"  BY <1>3, <2>2, <2>3 DEF LifeOK
  <2> QED  BY <1>1, <1>5, <2>4, <2>5, PipeKept DEF LifeOK, BuildThrows
<1>6. CASE CreateHead \/ RejectHead \/ Release
  BY <1>1, <1>6, PipeKept DEF LifeOK, CreateHead, RejectHead, Release
<1> QED  BY <1>4, <1>5, <1>6

\* What is on a stack.
LEMMA TopFacts ==
    ASSUME Shape, NEW t \in Threads, stack[t] # <<>>
    PROVE  /\ Top(t) \in Calls /\ Tail(stack[t]) \in Seq(Calls)
           /\ stack[t] = <<Top(t)>> \o Tail(stack[t])
           /\ Top(t).val \in Value /\ Top(t).node \in 1..(Depth + 1)
           /\ Top(t).val.ids \in Seq(Ids) /\ Top(t).val.sym \in Symbols
           /\ Kind(Top(t).node) # "Responder" => Top(t).node \in 1..Depth
<1>1. stack[t] \in Seq(Calls)  BY DEF Shape, FlowOK
<1> DEFINE q == stack[t]
<1> HIDE DEF q
<1>2. Head(q) \in Calls /\ Tail(q) \in Seq(Calls) /\ q = <<Head(q)>> \o Tail(q)
  <2>1. q \in Seq(Calls) /\ q # <<>>  BY <1>1 DEF q
  <2> HIDE DEF q
  <2> QED  BY <2>1
<1>3. Top(t) \in Calls /\ Tail(stack[t]) \in Seq(Calls) /\ stack[t] = <<Top(t)>> \o Tail(stack[t])
  BY <1>2 DEF Top, q
<1>4. Top(t).val \in Value /\ Top(t).node \in 1..(Depth + 1)  BY <1>3 DEF Calls
<1>5. Top(t).val.ids \in Seq(Ids) /\ Top(t).val.sym \in Symbols  BY <1>4 DEF Value
<1>6. Depth \in Nat  BY PipeFacts DEF Shape, LifeOK
<1>7. Kind(Top(t).node) # "Responder" => Top(t).node \in 1..Depth  BY <1>4, <1>6 DEF Kind
<1> QED  BY <1>3, <1>4, <1>5, <1>7

\* A stack of calls replaces another.
LEMMA BecomeShape ==
    ASSUME Shape, NEW t \in Threads, NEW calls \in Seq(Calls), Become(t, calls), pipe' = pipe
    PROVE  stack' \in [Threads -> Seq(Calls)] /\ root' \in [Threads -> 0..(Depth + 1)]
<1>1. Depth \in Nat  BY PipeFacts DEF Shape, LifeOK
<1>2. stack \in [Threads -> Seq(Calls)] /\ root \in [Threads -> 0..(Depth + 1)]
  BY DEF Shape, FlowOK
<1>3. stack' = [stack EXCEPT ![t] = calls]  BY DEF Become
<1>4. root' = [root EXCEPT ![t] = IF calls = <<>> THEN 0 ELSE @]  BY DEF Become
<1>5. stack' \in [Threads -> Seq(Calls)]  BY <1>2, <1>3
<1>6. root' \in [Threads -> 0..(Depth + 1)]  BY <1>1, <1>2, <1>4
<1> QED  BY <1>5, <1>6

\* What the next stage gets.
LEMMA NextCalls ==
    ASSUME pipe \in Pipelines, NEW i \in 1..Depth, NEW vs \in Seq(Value)
    PROVE  [k \in DOMAIN vs |-> Call(i + 1, "own", vs[k])] \in Seq(Calls)
<1>1. Depth \in Nat  BY PipeFacts
<1>2. ASSUME NEW v \in Value PROVE Call(i + 1, "own", v) \in Calls
  BY <1>1 DEF Calls, Call, Ports
<1>3. Len(vs) \in Nat /\ DOMAIN vs = 1..Len(vs) /\ \A k \in 1..Len(vs) : vs[k] \in Value  OBVIOUS
<1>4. \A k \in 1..Len(vs) : Call(i + 1, "own", vs[k]) \in Calls  BY <1>2, <1>3
<1> QED  BY <1>3, <1>4

\* A value that is a scalar.
LEMMA ScalarValue ==
    ASSUME NEW s \in Symbols, NEW ids \in Seq(Ids), NEW of \in SUBSET Ids
    PROVE  Scalar(s, ids, of) \in Value
BY DEF Scalar, Value

\* Forwarding a list of values.
LEMMA ForwardShape ==
    ASSUME Shape, NEW t \in Threads, stack[t] # <<>>, Top(t).node \in 1..Depth,
           NEW vs \in Seq(Value), Forward(t, vs), pipe' = pipe
    PROVE  /\ stack' \in [Threads -> Seq(Calls)] /\ root' \in [Threads -> 0..(Depth + 1)]
           /\ lost' = lost
<1> DEFINE next == [k \in DOMAIN vs |-> Call(Top(t).node + 1, "own", vs[k])]
<1>1. next \in Seq(Calls)  BY NextCalls DEF Shape, LifeOK
<1>2. Tail(stack[t]) \in Seq(Calls)  BY TopFacts
<1>3. next \o Tail(stack[t]) \in Seq(Calls)
  <2> HIDE DEF next
  <2> QED  BY <1>1, <1>2
<1>4. Become(t, next \o Tail(stack[t])) /\ lost' = lost  BY DEF Forward
<1> HIDE DEF next
<1> QED  BY <1>3, <1>4, BecomeShape

\* Refusing a value.
LEMMA SwallowShape ==
    ASSUME Shape, NEW t \in Threads, stack[t] # <<>>, Swallow(t), pipe' = pipe
    PROVE  /\ stack' \in [Threads -> Seq(Calls)] /\ root' \in [Threads -> 0..(Depth + 1)]
           /\ lost' \subseteq Ids
<1>1. Tail(stack[t]) \in Seq(Calls) /\ Top(t).val.ids \in Seq(Ids)  BY TopFacts
<1>2. Range(Top(t).val.ids) \subseteq Ids  BY <1>1 DEF Range
<1>3. lost' \subseteq Ids  BY <1>2 DEF Swallow, Shape, FlowOK
<1> QED  BY <1>1, <1>3, BecomeShape DEF Swallow

\* What a stage remembers of a symbol.
LEMMA OfFacts ==
    ASSUME MemOK(mem), NEW i \in 1..Depth, NEW s
    PROVE  Of(mem[i], s) \in Seq(Value)
BY DEF Of, MemOK

\* A stage remembers one more thing.
LEMMA PutShape ==
    ASSUME MemOK(mem), NEW i \in 1..Depth, NEW s \in Symbols, NEW x \in Seq(Value)
    PROVE  MemOK([mem EXCEPT ![i] = Put(@, s, x)])
<1> DEFINE row == Put(mem[i], s, x)
           m == [mem EXCEPT ![i] = row]
<1>1. DOMAIN row \subseteq Symbols /\ \A r \in DOMAIN row : row[r] \in Seq(Value)
  BY DEF Put, MemOK
<1> HIDE DEF row
<1>2. DOMAIN m = 1..Depth /\ \A j \in 1..Depth : m[j] = IF j = i THEN row ELSE mem[j]
  BY DEF MemOK
<1> HIDE DEF m
<1>3. MemOK(m)  BY <1>1, <1>2 DEF MemOK
<1> QED  BY <1>3 DEF m, row

\* The data behind a list of values.
LEMMA OfIds ==
    ASSUME NEW vs \in Seq(Value)
    PROVE  UNION {v.of : v \in Range(vs)} \subseteq Ids
<1>1. \A v \in Range(vs) : v \in Value  BY DEF Range
<1>2. \A v \in Value : v.of \subseteq Ids  BY DEF Value
<1> QED  BY <1>1, <1>2

\* What a Worker keeps of a symbol, with the value or without.
LEMMA AccumulatedShape ==
    ASSUME MemOK(mem), NEW i \in 1..Depth, NEW v \in Value
    PROVE  /\ Accumulated(mem[i], v) \in Seq(Value)
           /\ Front(Accumulated(mem[i], v)) \in Seq(Value)
<1> DEFINE b == Append(Of(mem[i], v.sym), v)
           lo == IF Len(b) > MaxAcc THEN Len(b) - MaxAcc + 1 ELSE 1
           acc == SubSeq(b, lo, Len(b))
<1>1. Of(mem[i], v.sym) \in Seq(Value)  BY OfFacts
<1>2. b \in Seq(Value) /\ Len(b) \in Nat \ {0}
  <2> DEFINE o == Of(mem[i], v.sym)
  <2> HIDE DEF o
  <2> QED  BY <1>1 DEF o
<1>3. MaxAcc \in Nat \ {0}  BY ChainAssumption
<1> HIDE DEF b
<1>4. lo \in Nat \ {0}  BY <1>2, <1>3
<1> HIDE DEF lo
<1>5. acc \in Seq(Value) /\ Len(acc) \in Nat  BY <1>2, <1>4
<1>6. acc = Accumulated(mem[i], v)  BY DEF Accumulated, b, lo
<1> HIDE DEF acc
<1>7. Front(acc) \in Seq(Value)
  <2>1. SubSeq(acc, 1, Len(acc) - 1) \in Seq(Value)  BY <1>5
  <2> QED  BY <2>1 DEF Front
<1> QED  BY <1>5, <1>6, <1>7

\* The ids a list of values carries.
ValIds(vs) == [k \in DOMAIN vs |-> vs[k].ids]

\* They are a sequence of id sequences, one per value.
LEMMA ValIdsSeq ==
    ASSUME NEW vs \in Seq(Value)
    PROVE  /\ ValIds(vs) \in Seq(Seq(Ids)) /\ Len(ValIds(vs)) = Len(vs)
           /\ \A k \in 1..Len(vs) : ValIds(vs)[k] = vs[k].ids
<1>1. \A v \in Value : v.ids \in Seq(Ids)  BY DEF Value
<1>2. Len(vs) \in Nat /\ DOMAIN vs = 1..Len(vs) /\ \A k \in 1..Len(vs) : vs[k] \in Value  OBVIOUS
<1> DEFINE f == [k \in 1..Len(vs) |-> vs[k].ids]
           Q == Seq(Ids)
<1>3. \A k \in 1..Len(vs) : vs[k].ids \in Q  BY <1>1, <1>2
<1> HIDE DEF Q
<1>4. f \in Seq(Q) /\ Len(f) = Len(vs)  BY <1>2, <1>3
<1>5. ValIds(vs) = f  BY <1>2 DEF ValIds
<1> QED  BY <1>4, <1>5 DEF Q

\* What the window emits of a symbol.
LEMMA BucketValue ==
    ASSUME MemOK(mem), NEW i \in 1..Depth, NEW s \in DOMAIN mem[i]
    PROVE  Bucket(i, s) \in Value
<1> DEFINE vs == mem[i][s]
<1>1. vs \in Seq(Value) /\ s \in Symbols  BY DEF MemOK
<1> HIDE DEF vs
<1>2. FlattenSeq(ValIds(vs)) \in Seq(Ids)  BY <1>1, ValIdsSeq, FlattenFacts
<1>4. UNION {v.of : v \in Range(vs)} \subseteq Ids  BY <1>1, OfIds
<1> DEFINE o == UNION {v.of : v \in Range(vs)}
           d == FlattenSeq(ValIds(vs))
<1> HIDE DEF o, d
<1>5. [sym |-> s, ids |-> d, of |-> o, shape |-> "vector"] \in Value
  BY <1>1, <1>2, <1>4 DEF Value, o, d
<1> QED  BY <1>5 DEF Bucket, o, d, vs, ValIds

\* One step of the flow, the pipeline unchanged.
LEMMA FlowFrame ==
    ASSUME FlowOK, pipe' = pipe,
           fed' = fed, queue' \in Seq(Calls), stack' \in [Threads -> Seq(Calls)],
           root' \in [Threads -> 0..(Depth + 1)], MemOK(mem'),
           emits' \in [1..Depth -> SUBSET Value], sent' \in [Ids -> Nat], lost' \subseteq Ids,
           throws' \in 0..MaxThrows
    PROVE  FlowOK'
BY PipeKept DEF FlowOK

\* A produced value is a value, and its call one.
LEMMA HearShape ==
    ASSUME Shape, NEW i, NEW port, NEW s \in Symbols, Hear(i, port, s),
           \A v \in Value : Call(i, port, v) \in Calls
    PROVE  Shape'
<1>1. pipe' = pipe /\ LifeOK'  BY LifeFrame DEF Hear, Shape
<1>2. MaxFed \in Nat  BY ChainAssumption
<1>3. fed \in Seq(Symbols) /\ Len(fed) < MaxFed /\ fed' = Append(fed, s)
  BY DEF Hear, Shape, FlowOK
<1>4. Fresh \in Ids /\ fed' \in Seq(Symbols) /\ Len(fed') <= MaxFed
  BY <1>2, <1>3 DEF Fresh, Ids
<1> DEFINE v == Scalar(s, <<Fresh>>, {Fresh})
<1>5. v \in Value
  <2>1. <<Fresh>> \in Seq(Ids) /\ {Fresh} \in SUBSET Ids  BY <1>4
  <2> QED  BY <2>1, ScalarValue
<1>6. queue' \in Seq(Calls)
  <2>1. Call(i, port, v) \in Calls  BY <1>5
  <2>2. queue' = Append(queue, Call(i, port, v)) /\ queue \in Seq(Calls)
    BY DEF Hear, Post, Shape, FlowOK
  <2> HIDE DEF v
  <2> QED  BY <2>1, <2>2
<1>7. UNCHANGED <<stack, root, mem, emits, sent, lost, throws>>  BY DEF Hear
<1> QED  BY <1>1, <1>4, <1>6, <1>7, PipeKept DEF Shape, FlowOK

\* Every step keeps the types.
LEMMA ShapeStep == Shape /\ [Next]_vars => Shape'
<1> SUFFICES ASSUME Shape, [Next]_vars PROVE Shape'  OBVIOUS
<1>0. /\ LifeOK /\ FlowOK /\ pipe \in Pipelines /\ Depth \in Nat /\ MaxThrows \in Nat
      /\ timers \subseteq 1..Depth
  BY PipeFacts, ChainAssumption DEF Shape, LifeOK
<1>1. CASE BuildStage \/ BuildThrows \/ CreateHead \/ RejectHead \/ Release
  <2>1. LifeOK' /\ pipe' = pipe
    BY <1>0, <1>1, LifeStep DEF BuildStage, BuildThrows, CreateHead, RejectHead, Release
  <2>2. UNCHANGED <<fed, queue, stack, root, mem, emits, sent, lost>>
    BY <1>1 DEF BuildStage, BuildThrows, CreateHead, RejectHead, Release, flow
  <2>3. throws' \in 0..MaxThrows
    BY <1>0, <1>1 DEF BuildStage, BuildThrows, CreateHead, RejectHead, Release, flow, FlowOK
  <2> QED  BY <1>0, <2>1, <2>2, <2>3, PipeKept DEF Shape, FlowOK
<1>2. CASE HeadHears
  <2>1. ASSUME NEW v \in Value PROVE Call(1, "own", v) \in Calls
    BY <1>0 DEF Calls, Call, Ports
  <2> QED  BY <1>2, <2>1, SymbolFacts, HearShape DEF HeadHears
<1>3. ASSUME NEW is \in inputs, InputHears(is[1], is[2]) PROVE Shape'
  <2>1. is[1] \in 1..Depth /\ is[2] \in Symbols /\ Kind(is[1]) = "Aggregate"
    BY <1>0 DEF LifeOK
  <2>2. ASSUME NEW v \in Value PROVE Call(is[1], "input", v) \in Calls
    BY <1>0, <2>1 DEF Calls, Call, Ports
  <2> QED  BY <1>3, <2>1, <2>2, HearShape DEF InputHears
<1>4. ASSUME NEW i \in timers, IntervalTick(i) \/ BucketTick(i) PROVE Shape'
  <2>1. ASSUME NEW v \in Value PROVE Call(i + 1, "own", v) \in Calls
    BY <1>0 DEF Calls, Call, Ports
  <2> QED  BY <1>4, <2>1, SymbolFacts, HearShape DEF IntervalTick, BucketTick
<1>5. ASSUME NEW i \in timers, FlushWindow(i) PROVE Shape'
  <2> DEFINE new == {Bucket(i, s) : s \in {x \in DOMAIN mem[i] : mem[i][x] /= <<>>}}
             row == [s \in DOMAIN mem[i] |-> <<>>]
  <2>1. /\ pipe' = pipe /\ LifeOK'
        /\ UNCHANGED <<fed, queue, stack, root, sent, lost, throws>>
    BY <1>0, <1>5, LifeFrame DEF FlushWindow
  <2>2. emits' = [emits EXCEPT ![i] = new] /\ mem' = [mem EXCEPT ![i] = row]
    BY <1>5 DEF FlushWindow, Flushed
  <2>3. MemOK(mem) /\ emits \in [1..Depth -> SUBSET Value]  BY <1>0 DEF FlowOK
  <2>4. i \in 1..Depth  BY <1>0
  <2>5. new \subseteq Value  BY <2>3, <2>4, BucketValue
  <2> HIDE DEF new
  <2>6. emits' \in [1..Depth -> SUBSET Value]  BY <2>2, <2>3, <2>5
  <2>7. DOMAIN row \subseteq Symbols /\ \A s \in DOMAIN row : row[s] \in Seq(Value)
    BY <2>3, <2>4 DEF MemOK
  <2> HIDE DEF row
  <2>8. DOMAIN mem' = 1..Depth /\ \A j \in 1..Depth : mem'[j] = IF j = i THEN row ELSE mem[j]
    BY <2>2, <2>3 DEF MemOK
  <2>9. MemOK(mem')
    <3>1. Depth \in Nat  BY <1>0
    <3> QED  BY <2>3, <2>7, <2>8 DEF MemOK
  <2> QED  BY <1>0, <2>1, <2>6, <2>9, FlowFrame DEF Shape, FlowOK
<1>6. ASSUME NEW i \in timers, PostWindow(i) PROVE Shape'
  <2>1. PICK v \in emits[i] : emits' = [emits EXCEPT ![i] = @ \ {v}]
                              /\ queue' = Append(queue, Call(i + 1, "own", v))
    BY <1>6 DEF PostWindow, Post
  <2>2. /\ pipe' = pipe /\ LifeOK'
        /\ UNCHANGED <<fed, stack, root, mem, sent, lost, throws>>
    BY <1>0, <1>6, LifeFrame DEF PostWindow
  <2>3. i \in 1..Depth /\ emits \in [1..Depth -> SUBSET Value] /\ queue \in Seq(Calls)
    BY <1>0 DEF FlowOK
  <2>4. v \in Value  BY <2>3
  <2>5. Call(i + 1, "own", v) \in Calls  BY <1>0, <2>3, <2>4 DEF Calls, Call, Ports
  <2>6. emits' \in [1..Depth -> SUBSET Value]  BY <2>1, <2>3
  <2>7. queue' \in Seq(Calls)  BY <2>1, <2>3, <2>5
  <2> QED  BY <1>0, <2>2, <2>6, <2>7, FlowFrame DEF Shape, FlowOK
<1>7. ASSUME NEW t \in Threads, Work(t) PROVE Shape'
  <2>1. CASE Take(t)
    <3>1. /\ pipe' = pipe /\ LifeOK' /\ UNCHANGED <<fed, mem, emits, sent, lost, throws>>
          /\ queue # <<>> /\ queue \in Seq(Calls)
      BY <1>0, <2>1, LifeFrame DEF Take, FlowOK
    <3>2. Head(queue) \in Calls /\ queue' \in Seq(Calls) /\ <<Head(queue)>> \in Seq(Calls)
      BY <2>1, <3>1 DEF Take
    <3>3. stack' \in [Threads -> Seq(Calls)]  BY <1>0, <2>1, <3>2 DEF Take, FlowOK
    <3>4. Head(queue).node \in 0..(Depth + 1)  BY <1>0, <3>2 DEF Calls
    <3>5. root' \in [Threads -> 0..(Depth + 1)]  BY <1>0, <2>1, <3>4 DEF Take, FlowOK
    <3> QED  BY <1>0, <3>1, <3>2, <3>3, <3>5, FlowFrame DEF Shape, FlowOK
  <2>2. CASE ~Take(t)
    <3> DEFINE i == Top(t).node
               v == Top(t).val
    <3>1. stack[t] # <<>>
      BY <1>7, <2>2 DEF Work, OnWorker, OnAggregate, OnWindow, OnReducer, OnAccessor, OnSource,
         OnSplit, OnSplitInsert, OnResponder, At
    <3>2. /\ pipe' = pipe /\ LifeOK'
          /\ UNCHANGED <<fed, queue, emits>>
      BY <1>0, <1>7, <2>2, LifeFrame DEF Work, OnWorker, OnAggregate, OnWindow, OnReducer,
         OnAccessor, OnSource, OnSplit, OnSplitInsert, OnResponder, Outside
    <3>3. /\ Top(t) \in Calls /\ Tail(stack[t]) \in Seq(Calls)
          /\ v \in Value /\ i \in 1..(Depth + 1) /\ v.ids \in Seq(Ids) /\ v.sym \in Symbols
          /\ Kind(i) # "Responder" => i \in 1..Depth
      BY <3>1, TopFacts
    <3>4. ASSUME stack' \in [Threads -> Seq(Calls)], root' \in [Threads -> 0..(Depth + 1)],
                 MemOK(mem'), sent' \in [Ids -> Nat], lost' \subseteq Ids, throws' \in 0..MaxThrows
          PROVE  Shape'
      BY <1>0, <3>2, <3>4, FlowFrame DEF Shape, FlowOK
    <3>5. /\ MemOK(mem) /\ sent \in [Ids -> Nat] /\ lost \subseteq Ids /\ throws \in 0..MaxThrows
      BY <1>0 DEF FlowOK
    <3>6. throws < MaxThrows => throws + 1 \in 0..MaxThrows  BY <1>0, <3>5
    <3>7. ASSUME Swallow(t) PROVE /\ stack' \in [Threads -> Seq(Calls)]
                                  /\ root' \in [Threads -> 0..(Depth + 1)] /\ lost' \subseteq Ids
      BY <3>1, <3>2, <3>7, SwallowShape
    <3>8. ASSUME NEW w \in Value, i \in 1..Depth, Forward(t, <<w>>)
          PROVE  /\ stack' \in [Threads -> Seq(Calls)]
                 /\ root' \in [Threads -> 0..(Depth + 1)] /\ lost' \subseteq Ids
      <4>1. <<w>> \in Seq(Value)  OBVIOUS
      <4> QED  BY <3>1, <3>2, <3>5, <3>8, <4>1, ForwardShape
    <3>9. ASSUME NEW calls \in Seq(Calls), Become(t, calls)
          PROVE  stack' \in [Threads -> Seq(Calls)] /\ root' \in [Threads -> 0..(Depth + 1)]
      BY <3>2, <3>9, BecomeShape
    <3>10. ASSUME NEW port \in {"own", "child"}, NEW k \in {"Worker", "AtomicAccessor"}, At(t, k, port)
           PROVE  i \in 1..Depth
      <4>1. CASE port = "own"
        <5>1. Kind(i) # "Responder"  BY <3>10, <4>1 DEF At
        <5> QED  BY <3>3, <5>1
      <4>2. CASE port = "child"
        <5>1. Top(t).port = "child"  BY <3>10, <4>2 DEF At
        <5>2. Kind(i) = "GroupSplit"  BY <3>3, <5>1 DEF Calls
        <5> QED  BY <3>3, <5>2
      <4> QED  BY <4>1, <4>2
    <3>11. ASSUME NEW port \in {"own", "child"}, OnWorker(t, port) PROVE Shape'
      <4> DEFINE acc == Accumulated(mem[i], v)
                 w == Scalar(v.sym, v.ids, UNION {x.of : x \in Range(acc)})
      <4>1. i \in 1..Depth  BY <3>10, <3>11 DEF OnWorker
      <4>2. acc \in Seq(Value) /\ Front(acc) \in Seq(Value)  BY <3>3, <3>5, <4>1, AccumulatedShape
      <4>3. sent' = sent  BY <3>11 DEF OnWorker
      <4>4. \/ Swallow(t) /\ UNCHANGED <<mem, throws>>
            \/ mem' = [mem EXCEPT ![i] = Put(@, v.sym, acc)] /\ Forward(t, <<w>>) /\ UNCHANGED throws
            \/ /\ throws < MaxThrows /\ throws' = throws + 1 /\ Swallow(t)
               /\ mem' = [mem EXCEPT ![i] = Put(@, v.sym, Front(acc))]
        BY <3>11 DEF OnWorker
      <4>5. w \in Value
        <5> HIDE DEF acc
        <5>2. UNION {x.of : x \in Range(acc)} \in SUBSET Ids  BY <4>2, OfIds
        <5> QED  BY <3>3, <5>2, ScalarValue
      <4> HIDE DEF acc, w, i, v
      <4>6. MemOK([mem EXCEPT ![i] = Put(@, v.sym, acc)])
            /\ MemOK([mem EXCEPT ![i] = Put(@, v.sym, Front(acc))])
        BY <3>3, <3>5, <4>1, <4>2, PutShape
      <4> QED  BY <3>4, <3>5, <3>6, <3>7, <3>8, <4>1, <4>3, <4>4, <4>5, <4>6
    <3>12. CASE OnAggregate(t)
      <4> DEFINE buf == Batch(i, v)
                 vs == [k \in DOMAIN buf |-> [buf[k] EXCEPT !.sym = v.sym]]
      <4>1. i \in 1..Depth
        <5>1. Kind(i) # "Responder"  BY <3>12 DEF OnAggregate, At
        <5> QED  BY <3>3, <5>1
      <4>2. buf \in Seq(Value)
        <5>1. Of(mem[i], v.sym) \in Seq(Value)  BY <3>5, <4>1, OfFacts
        <5> QED  BY <3>3, <5>1 DEF Batch
      <4>3. vs \in Seq(Value)
        <5> HIDE DEF buf, v
        <5>1. ASSUME NEW x \in Value PROVE [x EXCEPT !.sym = v.sym] \in Value
          BY <3>3 DEF Value
        <5>2. Len(buf) \in Nat /\ DOMAIN buf = 1..Len(buf) /\ \A k \in 1..Len(buf) : buf[k] \in Value
          BY <4>2
        <5>3. \A k \in 1..Len(buf) : [buf[k] EXCEPT !.sym = v.sym] \in Value  BY <5>1, <5>2
        <5> QED  BY <5>2, <5>3
      <4>4. UNCHANGED <<sent, throws>>  BY <3>12 DEF OnAggregate
      <4>5. \/ Swallow(t) /\ UNCHANGED mem
            \/ mem' = [mem EXCEPT ![i] = Put(@, v.sym, buf)] /\ Become(t, Tail(stack[t])) /\ lost' = lost
            \/ mem' = [mem EXCEPT ![i] = Put(@, v.sym, <<>>)] /\ Forward(t, vs)
        BY <3>12 DEF OnAggregate
      <4> HIDE DEF buf, vs, i, v
      <4>6. /\ MemOK([mem EXCEPT ![i] = Put(@, v.sym, buf)])
            /\ MemOK([mem EXCEPT ![i] = Put(@, v.sym, <<>>)])
        <5>1. <<>> \in Seq(Value)  OBVIOUS
        <5> QED  BY <3>3, <3>5, <4>1, <4>2, <5>1, PutShape
      <4>7. CASE Forward(t, vs) /\ MemOK(mem')
        <5>1. Top(t).node \in 1..Depth  BY <4>1 DEF i
        <5> QED  BY <3>1, <3>2, <3>4, <3>5, <4>3, <4>4, <4>7, <5>1, ForwardShape
      <4> QED  BY <3>3, <3>4, <3>5, <3>7, <3>9, <4>4, <4>5, <4>6, <4>7
    <3>13. CASE OnWindow(t)
      <4>1. i \in 1..Depth
        <5>1. Kind(i) # "Responder"  BY <3>13 DEF OnWindow, At
        <5> QED  BY <3>3, <5>1
      <4> DEFINE x == Append(Of(mem[i], v.sym), v)
      <4>2. x \in Seq(Value)
        <5>1. Of(mem[i], v.sym) \in Seq(Value)  BY <3>5, <4>1, OfFacts
        <5> QED  BY <3>3, <5>1
      <4>3. UNCHANGED <<sent, throws>>  BY <3>13 DEF OnWindow
      <4>4. \/ Swallow(t) /\ UNCHANGED mem
            \/ /\ mem' = [mem EXCEPT ![i] = Put(@, v.sym, x)]
               /\ Become(t, Tail(stack[t])) /\ lost' = lost
        <5>1. [mem EXCEPT ![i] = Put(@, v.sym, Append(Of(@, v.sym), v))]
                = [mem EXCEPT ![i] = Put(@, v.sym, x)]
          OBVIOUS
        <5> HIDE DEF x
        <5> QED  BY <3>13, <5>1 DEF OnWindow
      <4> HIDE DEF x, i, v
      <4>5. MemOK([mem EXCEPT ![i] = Put(@, v.sym, x)])  BY <3>3, <3>5, <4>1, <4>2, PutShape
      <4> QED  BY <3>3, <3>4, <3>5, <3>7, <3>9, <4>3, <4>4, <4>5
    <3>14. CASE OnReducer(t)
      <4>1. i \in 1..Depth
        <5>1. Kind(i) # "Responder"  BY <3>14 DEF OnReducer, At
        <5> QED  BY <3>3, <5>1
      <4>2. v.of \in SUBSET Ids  BY <3>3 DEF Value
      <4> DEFINE w == Scalar(v.sym, v.ids, v.of)
      <4>3. w \in Value  BY <3>3, <4>2, ScalarValue
      <4>4. UNCHANGED <<mem, sent>>  BY <3>14 DEF OnReducer
      <4>5. \/ Forward(t, <<w>>) /\ UNCHANGED throws
            \/ Swallow(t) /\ UNCHANGED throws
            \/ throws < MaxThrows /\ Swallow(t) /\ throws' = throws + 1
        BY <3>14 DEF OnReducer
      <4> HIDE DEF w, i, v
      <4> QED  BY <3>4, <3>5, <3>6, <3>7, <3>8, <4>1, <4>3, <4>4, <4>5
    <3>15. ASSUME NEW port \in {"own", "child"}, OnAccessor(t, port) PROVE Shape'
      <4>1. i \in 1..Depth  BY <3>10, <3>15 DEF OnAccessor
      <4> DEFINE w == Scalar(AccessorSymbol(t, port), v.ids, {})
      <4>2. AccessorSymbol(t, port) \in Symbols  BY <3>3, SymbolFacts DEF AccessorSymbol
      <4>3. w \in Value  BY <3>3, <4>2, ScalarValue
      <4>4. UNCHANGED <<mem, sent, throws>>  BY <3>15 DEF OnAccessor
      <4>5. Forward(t, <<w>>) \/ Swallow(t)  BY <3>15 DEF OnAccessor
      <4> HIDE DEF w, i, v
      <4> QED  BY <3>4, <3>5, <3>7, <3>8, <4>1, <4>3, <4>4, <4>5
    <3>16. CASE OnSource(t)
      BY <3>4, <3>5, <3>7, <3>16 DEF OnSource
    <3>17. ASSUME NEW p \in {"child", "insert"}, Kind(i) = "GroupSplit"
           PROVE  <<[Top(t) EXCEPT !.port = p]>> \o Tail(stack[t]) \in Seq(Calls)
      <4>1. [Top(t) EXCEPT !.port = p] \in Calls
        <5> DEFINE c == Top(t)
        <5> HIDE DEF c
        <5>1. c \in [node : 1..(Depth + 1), port : Ports, val : Value]  BY <3>3 DEF Calls, c
        <5>2. Kind(c.node) = "GroupSplit"  BY <3>17 DEF c
        <5>3. [c EXCEPT !.port = p] \in [node : 1..(Depth + 1), port : Ports, val : Value]
              /\ [c EXCEPT !.port = p].node = c.node /\ [c EXCEPT !.port = p].port = p
          BY <5>1 DEF Ports
        <5>4. [c EXCEPT !.port = p] \in Calls  BY <5>2, <5>3 DEF Calls
        <5> QED  BY <5>4 DEF c
      <4> QED  BY <3>3, <4>1
    <3>18. CASE OnSplit(t)
      <4>1. Kind(i) = "GroupSplit" /\ UNCHANGED <<mem, sent, lost, throws>>
        BY <3>18 DEF OnSplit, At
      <4>2. \E p \in {"child", "insert"} : Become(t, <<[Top(t) EXCEPT !.port = p]>> \o Tail(stack[t]))
        BY <3>18 DEF OnSplit
      <4> QED  BY <3>4, <3>5, <3>9, <3>17, <4>1, <4>2
    <3>19. CASE OnSplitInsert(t)
      <4>1. Kind(i) = "GroupSplit"
        <5>1. Top(t).port = "insert"  BY <3>19 DEF OnSplitInsert, At
        <5> QED  BY <3>3, <5>1 DEF Calls
      <4>2. i \in 1..Depth  BY <3>3, <4>1
      <4>3. sent' = sent  BY <3>19 DEF OnSplitInsert
      <4>4. ToChild(t) => stack' \in [Threads -> Seq(Calls)] /\ root' \in [Threads -> 0..(Depth + 1)]
        BY <3>9, <3>17, <4>1 DEF ToChild
      <4>5. \/ ToChild(t) /\ UNCHANGED <<mem, lost, throws>>
            \/ Swallow(t) /\ UNCHANGED <<mem, throws>>
            \/ mem' = [mem EXCEPT ![i] = Put(@, v.sym, <<>>)] /\ ToChild(t) /\ UNCHANGED <<lost, throws>>
            \/ /\ Become(t, <<>>) /\ throws < MaxThrows /\ throws' = throws + 1 /\ mem' = mem
               /\ lost' = lost \cup UNION {Range(c.val.ids) : c \in Range(stack[t])}
        BY <3>19 DEF OnSplitInsert
      <4>6. UNION {Range(c.val.ids) : c \in Range(stack[t])} \subseteq Ids
        <5>1. stack[t] \in Seq(Calls)  BY <1>0 DEF FlowOK
        <5>2. \A c \in Range(stack[t]) : c.val.ids \in Seq(Ids)  BY <5>1 DEF Range, Calls, Value
        <5>3. \A c \in Range(stack[t]) : Range(c.val.ids) \subseteq Ids
          <6> SUFFICES ASSUME NEW c \in Range(stack[t]) PROVE Range(c.val.ids) \subseteq Ids  OBVIOUS
          <6> DEFINE d == c.val.ids
          <6>1. d \in Seq(Ids)  BY <5>2
          <6> HIDE DEF d
          <6>2. Range(d) \subseteq Ids  BY <6>1 DEF Range
          <6> QED  BY <6>2 DEF d
        <5> QED  BY <5>3
      <4>7. <<>> \in Seq(Calls) /\ <<>> \in Seq(Value)  OBVIOUS
      <4> HIDE DEF i, v
      <4>8. MemOK([mem EXCEPT ![i] = Put(@, v.sym, <<>>)])  BY <3>3, <3>5, <4>2, <4>7, PutShape
      <4> QED  BY <3>4, <3>5, <3>6, <3>7, <3>9, <4>3, <4>4, <4>5, <4>6, <4>7, <4>8
    <3>20. CASE OnResponder(t)
      <4>1. UNCHANGED <<mem, lost, throws>> /\ Become(t, Tail(stack[t]))  BY <3>20 DEF OnResponder
      <4>2. sent' = [n \in Ids |-> sent[n] + Cardinality({k \in DOMAIN v.ids : v.ids[k] = n})]
        BY <3>20 DEF OnResponder
      <4>3. ASSUME NEW n PROVE Cardinality({k \in DOMAIN v.ids : v.ids[k] = n}) \in Nat
        <5> DEFINE d == v.ids
        <5>1. d \in Seq(Ids)  BY <3>3
        <5> HIDE DEF d
        <5>2. DOMAIN d = 1..Len(d) /\ Len(d) \in Nat  BY <5>1
        <5>3. IsFiniteSet(1..Len(d))  BY <5>2, FS_Interval
        <5>4. IsFiniteSet({k \in DOMAIN d : d[k] = n})  BY <5>2, <5>3, FS_Subset
        <5>5. Cardinality({k \in DOMAIN d : d[k] = n}) \in Nat  BY <5>4, FS_CardinalityType
        <5> QED  BY <5>5 DEF d
      <4>4. sent' \in [Ids -> Nat]  BY <3>5, <4>2, <4>3
      <4> QED  BY <3>3, <3>4, <3>5, <3>9, <4>1, <4>4
    <3> QED  BY <1>7, <2>2, <3>11, <3>12, <3>13, <3>14, <3>15, <3>16, <3>18, <3>19, <3>20 DEF Work
  <2> QED  BY <2>1, <2>2
<1>8. CASE UNCHANGED vars
  <2>1. UNCHANGED <<pipe, phase, unbuilt, timers, inputs, fed, queue, stack, root, mem, emits, sent,
                    lost, throws>>
    BY <1>8 DEF vars, flow
  <2> QED  BY <1>0, <2>1, LifeFrame, FlowFrame DEF Shape, FlowOK
<1> QED  BY <1>1, <1>2, <1>3, <1>4, <1>5, <1>6, <1>7, <1>8 DEF Next, WindowTimer

-----------------------------------------------------------------------------
(* Where a value is                                                        *)

\* The ids a list of calls carries.
CallIds(q) == [k \in DOMAIN q |-> q[k].val.ids]

\* None of the families F[x] holds n, or one of them does, once; the same with
\* one of them left out.
NoneAmong(F, n) == \A x \in DOMAIN F : Absent(F[x], n)
OnceAmong(F, n) ==
    \E x \in DOMAIN F : Once(F[x], n) /\ \A y \in DOMAIN F \ {x} : Absent(F[y], n)
RestNone(F, z, n) == \A x \in DOMAIN F \ {z} : Absent(F[x], n)
RestOnce(F, z, n) ==
    \E x \in DOMAIN F \ {z} : Once(F[x], n) /\ \A y \in DOMAIN F \ {x, z} : Absent(F[y], n)

\* The families of the stacks, of what waits and of what is to be emitted.
StackIds == [t \in Threads |-> CallIds(stack[t])]
WaitIds == [is \in (1..Depth) \X Symbols |-> ValIds(Of(Waiting(is[1]), is[2]))]
EmitIds == [i \in 1..Depth |-> [v \in emits[i] |-> v.ids]]

\* The six kinds of places, without n and with n once.
QNone(n) == Absent(CallIds(queue), n)
QOnce(n) == Once(CallIds(queue), n)
SNone(n) == NoneAmong(StackIds, n)
SOnce(n) == OnceAmong(StackIds, n)
WNone(n) == NoneAmong(WaitIds, n)
WOnce(n) == OnceAmong(WaitIds, n)
ENone(n) == NoneAmong(EmitIds, n)
EOnce(n) == OnceAmong(EmitIds, n)
DNone(n) == sent[n] = 0
DOnce(n) == sent[n] = 1

Nowhere(n) ==
    QNone(n) /\ SNone(n) /\ WNone(n) /\ ENone(n) /\ DNone(n) /\ n \notin lost

InOnePlace(n) ==
    \/ QOnce(n) /\ SNone(n) /\ WNone(n) /\ ENone(n) /\ DNone(n) /\ n \notin lost
    \/ QNone(n) /\ SOnce(n) /\ WNone(n) /\ ENone(n) /\ DNone(n) /\ n \notin lost
    \/ QNone(n) /\ SNone(n) /\ WOnce(n) /\ ENone(n) /\ DNone(n) /\ n \notin lost
    \/ QNone(n) /\ SNone(n) /\ WNone(n) /\ EOnce(n) /\ DNone(n) /\ n \notin lost
    \/ QNone(n) /\ SNone(n) /\ WNone(n) /\ ENone(n) /\ DOnce(n) /\ n \notin lost
    \/ QNone(n) /\ SNone(n) /\ WNone(n) /\ ENone(n) /\ DNone(n) /\ n \in lost

\* A value that was produced is in one place, one that was not is nowhere.
Tracked == \A n \in Ids : IF n <= Len(fed) THEN InOnePlace(n) ELSE Nowhere(n)

\* n stays where it is, or moves.
Keeps(n) == (InOnePlace(n) => InOnePlace(n)') /\ (Nowhere(n) => Nowhere(n)')

-----------------------------------------------------------------------------
(* Families                                                                *)

\* Once is not never.
LEMMA Exclusive == ASSUME NEW f, NEW n, Once(f, n) PROVE ~Absent(f, n)
BY DEF Once, Absent

\* One of the families, and the rest.
LEMMA AtIndex ==
    ASSUME NEW F, NEW z \in DOMAIN F, NEW n
    PROVE  /\ NoneAmong(F, n) <=> Absent(F[z], n) /\ RestNone(F, z, n)
           /\ OnceAmong(F, n) <=> \/ Once(F[z], n) /\ RestNone(F, z, n)
                                  \/ Absent(F[z], n) /\ RestOnce(F, z, n)
<1>1. NoneAmong(F, n) <=> Absent(F[z], n) /\ RestNone(F, z, n)  BY DEF NoneAmong, RestNone
<1>2. OnceAmong(F, n) => \/ Once(F[z], n) /\ RestNone(F, z, n)
                         \/ Absent(F[z], n) /\ RestOnce(F, z, n)
  <2> SUFFICES ASSUME OnceAmong(F, n)
               PROVE  \/ Once(F[z], n) /\ RestNone(F, z, n)
                      \/ Absent(F[z], n) /\ RestOnce(F, z, n)
    OBVIOUS
  <2>1. PICK x \in DOMAIN F : Once(F[x], n) /\ \A y \in DOMAIN F \ {x} : Absent(F[y], n)
    BY DEF OnceAmong
  <2>2. CASE x = z  BY <2>1, <2>2 DEF RestNone
  <2>3. CASE x # z  BY <2>1, <2>3 DEF RestOnce
  <2> QED  BY <2>2, <2>3
<1>3. Once(F[z], n) /\ RestNone(F, z, n) => OnceAmong(F, n)  BY DEF OnceAmong, RestNone
<1>4. Absent(F[z], n) /\ RestOnce(F, z, n) => OnceAmong(F, n)
  <2> SUFFICES ASSUME Absent(F[z], n), RestOnce(F, z, n) PROVE OnceAmong(F, n)  OBVIOUS
  <2>1. PICK x \in DOMAIN F \ {z} : Once(F[x], n) /\ \A y \in DOMAIN F \ {x, z} : Absent(F[y], n)
    BY DEF RestOnce
  <2>2. \A y \in DOMAIN F \ {x} : Absent(F[y], n)  BY <2>1
  <2> QED  BY <2>1, <2>2 DEF OnceAmong
<1> QED  BY <1>1, <1>2, <1>3, <1>4

\* A change of one family leaves the rest.
LEMMA RestKept ==
    ASSUME NEW F, NEW G, NEW z, NEW n, DOMAIN G = DOMAIN F, \A x \in DOMAIN F \ {z} : G[x] = F[x]
    PROVE  /\ RestNone(G, z, n) <=> RestNone(F, z, n)
           /\ RestOnce(G, z, n) <=> RestOnce(F, z, n)
<1>1. RestNone(G, z, n) <=> RestNone(F, z, n)  BY DEF RestNone
<1>2. RestOnce(F, z, n) => RestOnce(G, z, n)
  <2> SUFFICES ASSUME RestOnce(F, z, n) PROVE RestOnce(G, z, n)  OBVIOUS
  <2>1. PICK x \in DOMAIN F \ {z} : Once(F[x], n) /\ \A y \in DOMAIN F \ {x, z} : Absent(F[y], n)
    BY DEF RestOnce
  <2>2. x \in DOMAIN G \ {z} /\ Once(G[x], n) /\ \A y \in DOMAIN G \ {x, z} : Absent(G[y], n)
    BY <2>1
  <2> QED  BY <2>2 DEF RestOnce
<1>3. RestOnce(G, z, n) => RestOnce(F, z, n)
  <2> SUFFICES ASSUME RestOnce(G, z, n) PROVE RestOnce(F, z, n)  OBVIOUS
  <2>1. PICK x \in DOMAIN G \ {z} : Once(G[x], n) /\ \A y \in DOMAIN G \ {x, z} : Absent(G[y], n)
    BY DEF RestOnce
  <2>2. x \in DOMAIN F \ {z} /\ Once(F[x], n) /\ \A y \in DOMAIN F \ {x, z} : Absent(F[y], n)
    BY <2>1
  <2> QED  BY <2>2 DEF RestOnce
<1> QED  BY <1>1, <1>2, <1>3

-----------------------------------------------------------------------------
(* Lists of calls and values                                               *)

\* The ids of a list of calls are a sequence of id sequences, one per call.
LEMMA CallIdsSeq ==
    ASSUME NEW q \in Seq(Calls)
    PROVE  /\ CallIds(q) \in Seq(Seq(Ids)) /\ Len(CallIds(q)) = Len(q)
           /\ \A k \in 1..Len(q) : CallIds(q)[k] = q[k].val.ids
<1>1. \A c \in Calls : c.val.ids \in Seq(Ids)  BY DEF Calls, Value
<1>2. Len(q) \in Nat /\ DOMAIN q = 1..Len(q) /\ \A k \in 1..Len(q) : q[k] \in Calls  OBVIOUS
<1> DEFINE f == [k \in 1..Len(q) |-> q[k].val.ids]
           Q == Seq(Ids)
<1>3. \A k \in 1..Len(q) : q[k].val.ids \in Q  BY <1>1, <1>2
<1> HIDE DEF Q
<1>4. f \in Seq(Q) /\ Len(f) = Len(q)  BY <1>2, <1>3
<1>5. CallIds(q) = f  BY <1>2 DEF CallIds
<1> QED  BY <1>4, <1>5 DEF Q

\* The ids of a concatenation.
LEMMA CallIdsConcat ==
    ASSUME NEW p \in Seq(Calls), NEW q \in Seq(Calls)
    PROVE  CallIds(p \o q) = CallIds(p) \o CallIds(q)
<1> DEFINE Q == Seq(Ids)
           a == CallIds(p)
           b == CallIds(q)
           c == CallIds(p \o q)
<1>1. p \o q \in Seq(Calls) /\ Len(p \o q) = Len(p) + Len(q) /\ Len(p) \in Nat /\ Len(q) \in Nat
  OBVIOUS
<1>2. /\ a \in Seq(Q) /\ Len(a) = Len(p) /\ \A k \in 1..Len(p) : a[k] = p[k].val.ids
      /\ b \in Seq(Q) /\ Len(b) = Len(q) /\ \A k \in 1..Len(q) : b[k] = q[k].val.ids
  BY CallIdsSeq
<1>3. /\ c \in Seq(Q) /\ Len(c) = Len(p) + Len(q)
      /\ \A k \in 1..(Len(p) + Len(q)) : c[k] = (p \o q)[k].val.ids
  BY <1>1, CallIdsSeq
<1> HIDE DEF Q, a, b, c
<1>4. ASSUME NEW k \in 1..(Len(p) + Len(q)) PROVE c[k] = (a \o b)[k]
  <2>1. CASE k <= Len(p)
    <3>1. k \in 1..Len(p) /\ (p \o q)[k] = p[k]  BY <1>1, <2>1
    <3>2. (a \o b)[k] = a[k]  BY <1>1, <1>2, <3>1
    <3> QED  BY <1>2, <1>3, <3>1, <3>2
  <2>2. CASE k > Len(p)
    <3>1. k - Len(p) \in 1..Len(q) /\ (p \o q)[k] = q[k - Len(p)]  BY <1>1, <2>2
    <3>2. (a \o b)[k] = b[k - Len(p)]  BY <1>1, <1>2, <2>2, <3>1
    <3> QED  BY <1>2, <1>3, <3>1, <3>2
  <2>3. k <= Len(p) \/ k > Len(p)
    <3> DEFINE x == Len(p)
               y == Len(q)
    <3>1. x \in Nat /\ y \in Nat  BY <1>1
    <3> HIDE DEF x, y
    <3>2. k \in 1..(x + y)  BY DEF x, y
    <3>3. k <= x \/ k > x  BY <3>1, <3>2
    <3> QED  BY <3>3 DEF x
  <2> QED  BY <2>1, <2>2, <2>3
<1>5. a \o b \in Seq(Q) /\ Len(a \o b) = Len(p) + Len(q)
  <2>1. a \in Seq(Q) /\ b \in Seq(Q) /\ Len(a) = Len(p) /\ Len(b) = Len(q)  BY <1>2
  <2>2. a \o b \in Seq(Q) /\ Len(a \o b) = Len(a) + Len(b)  BY <2>1
  <2> QED  BY <2>1, <2>2
<1> DEFINE d == a \o b
<1> HIDE DEF d
<1>6. d \in Seq(Q) /\ Len(d) = Len(p) + Len(q) /\ \A k \in 1..(Len(p) + Len(q)) : c[k] = d[k]
  BY <1>4, <1>5 DEF d
<1>7. c = d  BY <1>1, <1>3, <1>6
<1> QED  BY <1>7 DEF a, b, c, d

\* The ids of one call.
LEMMA CallIdsSingle ==
    ASSUME NEW c \in Calls
    PROVE  CallIds(<<c>>) = <<c.val.ids>> /\ <<c.val.ids>> \in Seq(Seq(Ids)) /\ <<c>> \in Seq(Calls)
<1>1. c.val.ids \in Seq(Ids)  BY DEF Calls, Value
<1> DEFINE Q == Seq(Ids)
           i == c.val.ids
           q == <<c>>
           d == CallIds(q)
           e == <<i>>
<1>2. q \in Seq(Calls) /\ Len(q) = 1 /\ q[1] = c  OBVIOUS
<1> HIDE DEF q
<1>3. d \in Seq(Q) /\ Len(d) = 1 /\ d[1] = q[1].val.ids
  <2>1. CallIds(q) \in Seq(Seq(Ids)) /\ Len(CallIds(q)) = Len(q)
         /\ \A k \in 1..Len(q) : CallIds(q)[k] = q[k].val.ids
    BY <1>2, CallIdsSeq
  <2> QED  BY <1>2, <2>1
<1> HIDE DEF Q, i, d
<1>4. e \in Seq(Q) /\ Len(e) = 1 /\ e[1] = i  BY <1>1 DEF Q, i
<1> HIDE DEF e
<1>5. d[1] = i  BY <1>2, <1>3 DEF i
<1>6. d = e  BY <1>3, <1>4, <1>5
<1> QED  BY <1>2, <1>4, <1>6 DEF d, e, q, i, Q

\* The ids of a list with a value more.
LEMMA ValIdsAppend ==
    ASSUME NEW vs \in Seq(Value), NEW v \in Value
    PROVE  ValIds(Append(vs, v)) = ValIds(vs) \o <<v.ids>> /\ <<v.ids>> \in Seq(Seq(Ids))
<1> DEFINE Q == Seq(Ids)
           i == v.ids
           w == Append(vs, v)
           a == ValIds(vs)
           c == ValIds(w)
           d == a \o <<i>>
<1>0. i \in Q  BY DEF Value
<1>1. w \in Seq(Value) /\ Len(w) = Len(vs) + 1 /\ Len(vs) \in Nat
      /\ (\A k \in 1..Len(vs) : w[k] = vs[k]) /\ w[Len(vs) + 1] = v
  OBVIOUS
<1> HIDE DEF w
<1>2. a \in Seq(Q) /\ Len(a) = Len(vs) /\ \A k \in 1..Len(vs) : a[k] = vs[k].ids  BY ValIdsSeq
<1>3. /\ c \in Seq(Q) /\ Len(c) = Len(vs) + 1
      /\ \A k \in 1..(Len(vs) + 1) : c[k] = w[k].ids
  <2>1. ValIds(w) \in Seq(Seq(Ids)) /\ Len(ValIds(w)) = Len(w)
         /\ \A k \in 1..Len(w) : ValIds(w)[k] = w[k].ids
    BY <1>1, ValIdsSeq
  <2> QED  BY <1>1, <2>1
<1> HIDE DEF Q, a, c, i
<1>4. d \in Seq(Q) /\ Len(d) = Len(vs) + 1 /\ (\A k \in 1..Len(vs) : d[k] = a[k])
      /\ d[Len(vs) + 1] = i /\ <<i>> \in Seq(Q)
  BY <1>0, <1>1, <1>2
<1> HIDE DEF d
<1>5. ASSUME NEW k \in 1..(Len(vs) + 1) PROVE c[k] = d[k]
  <2>1. CASE k \in 1..Len(vs)  BY <1>1, <1>2, <1>3, <1>4, <2>1
  <2>2. CASE k = Len(vs) + 1  BY <1>1, <1>3, <1>4, <2>2 DEF i
  <2> QED  BY <1>1, <2>1, <2>2
<1>6. c = d  BY <1>1, <1>3, <1>4, <1>5
<1> QED  BY <1>4, <1>6 DEF a, c, d, w, i, Q

\* The calls that forward a list of values carry its ids.
LEMMA NextIds ==
    ASSUME NEW i, NEW vs
    PROVE  CallIds([k \in DOMAIN vs |-> Call(i, "own", vs[k])]) = ValIds(vs)
BY DEF CallIds, ValIds, Call

\* The running call of a worker, and those waiting for it to return.
LEMMA StackSplit ==
    ASSUME Shape, NEW t \in Threads, stack[t] # <<>>, NEW n
    PROVE  LET h == <<Top(t).val.ids>>
               r == CallIds(Tail(stack[t]))
           IN  /\ h \in Seq(Seq(Ids)) /\ r \in Seq(Seq(Ids))
               /\ CallIds(stack[t]) = h \o r
               /\ Absent(CallIds(stack[t]), n) <=> Absent(h, n) /\ Absent(r, n)
               /\ Once(CallIds(stack[t]), n) <=> OnceInBoth(h, r, n)
<1> DEFINE h == <<Top(t).val.ids>>
           r == CallIds(Tail(stack[t]))
<1>1. Top(t) \in Calls /\ Tail(stack[t]) \in Seq(Calls) /\ stack[t] = <<Top(t)>> \o Tail(stack[t])
  BY TopFacts
<1>2. CallIds(<<Top(t)>>) = h /\ h \in Seq(Seq(Ids)) /\ <<Top(t)>> \in Seq(Calls)
  BY <1>1, CallIdsSingle
<1>3. r \in Seq(Seq(Ids))  BY <1>1, CallIdsSeq
<1>4. CallIds(stack[t]) = h \o r  BY <1>1, <1>2, CallIdsConcat
<1> HIDE DEF h, r
<1>5. Absent(h \o r, n) <=> Absent(h, n) /\ Absent(r, n)  BY <1>2, <1>3, ConcatHolds
<1>6. Once(h \o r, n) <=> OnceInBoth(h, r, n)  BY <1>2, <1>3, ConcatHolds
<1> QED  BY <1>2, <1>3, <1>4, <1>5, <1>6 DEF h, r

-----------------------------------------------------------------------------
(* What a step changes                                                     *)

\* A worker's calls become other calls.
LEMMA StackChange ==
    ASSUME Shape, NEW t \in Threads, NEW calls, Become(t, calls), NEW n
    PROVE  LET a == CallIds(stack[t])
               b == CallIds(calls)
               r0 == RestNone(StackIds, t, n)
               r1 == RestOnce(StackIds, t, n)
           IN  /\ SNone(n) <=> Absent(a, n) /\ r0
               /\ SOnce(n) <=> (Once(a, n) /\ r0) \/ (Absent(a, n) /\ r1)
               /\ SNone(n)' <=> Absent(b, n) /\ r0
               /\ SOnce(n)' <=> (Once(b, n) /\ r0) \/ (Absent(b, n) /\ r1)
<1> DEFINE F == StackIds
           G == StackIds'
<1>1. DOMAIN stack = Threads /\ stack' = [stack EXCEPT ![t] = calls]
  BY DEF Shape, FlowOK, Become
<1>2. \A u \in Threads : stack'[u] = IF u = t THEN calls ELSE stack[u]  BY <1>1
<1>3. DOMAIN F = Threads /\ F[t] = CallIds(stack[t])  BY DEF StackIds
<1>4. /\ DOMAIN G = Threads /\ G[t] = CallIds(calls)
      /\ \A u \in Threads \ {t} : G[u] = F[u]
  BY <1>2 DEF StackIds
<1> HIDE DEF F, G
<1>5. /\ NoneAmong(F, n) <=> Absent(F[t], n) /\ RestNone(F, t, n)
      /\ OnceAmong(F, n) <=> \/ Once(F[t], n) /\ RestNone(F, t, n)
                             \/ Absent(F[t], n) /\ RestOnce(F, t, n)
  BY <1>3, AtIndex
<1>6. /\ NoneAmong(G, n) <=> Absent(G[t], n) /\ RestNone(G, t, n)
      /\ OnceAmong(G, n) <=> \/ Once(G[t], n) /\ RestNone(G, t, n)
                             \/ Absent(G[t], n) /\ RestOnce(G, t, n)
  BY <1>4, AtIndex
<1>7. (RestNone(G, t, n) <=> RestNone(F, t, n)) /\ (RestOnce(G, t, n) <=> RestOnce(F, t, n))
  BY <1>3, <1>4, RestKept
<1>8. /\ SNone(n) <=> NoneAmong(F, n)
      /\ SOnce(n) <=> OnceAmong(F, n)
      /\ SNone(n)' <=> NoneAmong(G, n)
      /\ SOnce(n)' <=> OnceAmong(G, n)
  BY DEF SNone, SOnce, F, G
<1>9. RestNone(StackIds, t, n) = RestNone(F, t, n) /\ RestOnce(StackIds, t, n) = RestOnce(F, t, n)
  BY DEF F
<1> QED  BY <1>3, <1>4, <1>5, <1>6, <1>7, <1>8, <1>9

\* A stage that lets values wait remembers something else of a symbol.
LEMMA WaitChange ==
    ASSUME Shape, pipe' = pipe, NEW i \in 1..Depth, NEW s \in Symbols, NEW x,
           mem' = [mem EXCEPT ![i] = Put(@, s, x)],
           Kind(i) \in {"Aggregate", "TumblingWindow"}, NEW n
    PROVE  LET a == ValIds(Of(mem[i], s))
               b == ValIds(x)
               r0 == RestNone(WaitIds, <<i, s>>, n)
               r1 == RestOnce(WaitIds, <<i, s>>, n)
           IN  /\ WNone(n) <=> Absent(a, n) /\ r0
               /\ WOnce(n) <=> (Once(a, n) /\ r0) \/ (Absent(a, n) /\ r1)
               /\ WNone(n)' <=> Absent(b, n) /\ r0
               /\ WOnce(n)' <=> (Once(b, n) /\ r0) \/ (Absent(b, n) /\ r1)
<1> DEFINE F == WaitIds
           G == WaitIds'
           z == <<i, s>>
           D == (1..Depth) \X Symbols
<1>1. Depth' = Depth /\ \A j : Kind(j)' = Kind(j)  BY PipeKept
<1>2. DOMAIN mem = 1..Depth  BY DEF Shape, FlowOK, MemOK
<1>3. \A j \in 1..Depth : mem'[j] = IF j = i THEN Put(mem[i], s, x) ELSE mem[j]  BY <1>2
<1>4. \A j \in 1..Depth : Waiting(j)' = IF Kind(j) \in {"Aggregate", "TumblingWindow"} THEN mem'[j] ELSE <<>>
  BY <1>1 DEF Waiting
<1>5. ASSUME NEW j \in 1..Depth, NEW r \in Symbols
      PROVE  /\ G[<<j, r>>] = ValIds(Of(Waiting(j)', r))
             /\ F[<<j, r>>] = ValIds(Of(Waiting(j), r))
  <2>1. F[<<j, r>>] = ValIds(Of(Waiting(j), r))  BY DEF WaitIds
  <2>2. G = [is \in (1..Depth) \X Symbols |-> ValIds(Of(Waiting(is[1])', is[2]))]
    BY <1>1 DEF WaitIds
  <2>3. G[<<j, r>>] = ValIds(Of(Waiting(j)', r))
    <3> HIDE DEF G
    <3> QED  BY <2>2
  <2> QED  BY <2>1, <2>3
<1>6. DOMAIN F = D /\ DOMAIN G = D  BY <1>1 DEF WaitIds
<1>7. Waiting(i) = mem[i] /\ Waiting(i)' = Put(mem[i], s, x)  BY <1>3, <1>4 DEF Waiting
<1>8. F[z] = ValIds(Of(mem[i], s)) /\ G[z] = ValIds(x)
  <2>1. Of(Put(mem[i], s, x), s) = x  BY DEF Of, Put
  <2> HIDE DEF F, G
  <2> QED  BY <1>5, <1>7, <2>1
<1>9. ASSUME NEW y \in D \ {z} PROVE G[y] = F[y]
  <2>1. PICK j \in 1..Depth, r \in Symbols : y = <<j, r>>  OBVIOUS
  <2>2. CASE j # i
    <3>1. Waiting(j)' = Waiting(j)  BY <1>3, <1>4, <2>2 DEF Waiting
    <3> HIDE DEF F, G
    <3> QED  BY <1>5, <2>1, <3>1
  <2>3. CASE j = i
    <3>1. r # s  BY <1>9, <2>1, <2>3
    <3>2. Of(Put(mem[i], s, x), r) = Of(mem[i], r)  BY <3>1 DEF Of, Put
    <3> HIDE DEF F, G
    <3> QED  BY <1>5, <1>7, <2>1, <2>3, <3>2
  <2> QED  BY <2>2, <2>3
<1>10. z \in D  OBVIOUS
<1> HIDE DEF F, G, z, D
<1>11. /\ NoneAmong(F, n) <=> Absent(F[z], n) /\ RestNone(F, z, n)
       /\ OnceAmong(F, n) <=> \/ Once(F[z], n) /\ RestNone(F, z, n)
                              \/ Absent(F[z], n) /\ RestOnce(F, z, n)
  BY <1>6, <1>10, AtIndex
<1>12. /\ NoneAmong(G, n) <=> Absent(G[z], n) /\ RestNone(G, z, n)
       /\ OnceAmong(G, n) <=> \/ Once(G[z], n) /\ RestNone(G, z, n)
                              \/ Absent(G[z], n) /\ RestOnce(G, z, n)
  BY <1>6, <1>10, AtIndex
<1>13. (RestNone(G, z, n) <=> RestNone(F, z, n)) /\ (RestOnce(G, z, n) <=> RestOnce(F, z, n))
  BY <1>6, <1>9, RestKept
<1>14. /\ WNone(n) <=> NoneAmong(F, n)
       /\ WOnce(n) <=> OnceAmong(F, n)
       /\ WNone(n)' <=> NoneAmong(G, n)
       /\ WOnce(n)' <=> OnceAmong(G, n)
  BY DEF WNone, WOnce, F, G
<1>15. /\ RestNone(WaitIds, <<i, s>>, n) = RestNone(F, z, n)
       /\ RestOnce(WaitIds, <<i, s>>, n) = RestOnce(F, z, n)
  BY DEF F, z
<1> QED  BY <1>8, <1>11, <1>12, <1>13, <1>14, <1>15

\* What a Worker or a GroupSplit remembers is not waiting.
LEMMA WaitSame ==
    ASSUME Shape, pipe' = pipe, NEW i, NEW x,
           mem' = mem \/ (mem' = [mem EXCEPT ![i] = x]
                          /\ Kind(i) \notin {"Aggregate", "TumblingWindow"})
    PROVE  WaitIds' = WaitIds
<1>1. Depth' = Depth /\ \A j : Kind(j)' = Kind(j)  BY PipeKept
<1>2. DOMAIN mem = 1..Depth  BY DEF Shape, FlowOK, MemOK
<1>3. ASSUME NEW j \in 1..Depth PROVE Waiting(j)' = Waiting(j)
  BY <1>1, <1>2 DEF Waiting
<1>4. WaitIds' = [is \in (1..Depth) \X Symbols |-> ValIds(Of(Waiting(is[1])', is[2]))]
  BY <1>1 DEF WaitIds
<1>5. \A is \in (1..Depth) \X Symbols : Waiting(is[1])' = Waiting(is[1])
  <2> TAKE is \in (1..Depth) \X Symbols
  <2>1. is[1] \in 1..Depth  OBVIOUS
  <2> QED  BY <1>3, <2>1
<1>6. [is \in (1..Depth) \X Symbols |-> ValIds(Of(Waiting(is[1])', is[2]))]
        = [is \in (1..Depth) \X Symbols |-> ValIds(Of(Waiting(is[1]), is[2]))]
  BY <1>5, Zenon
<1> QED  BY <1>4, <1>6, Zenon DEF WaitIds

\* A family that loses one entry.
LEMMA FamilyLess ==
    ASSUME NEW f, NEW v \in DOMAIN f, NEW n
    PROVE  LET g == [w \in DOMAIN f \ {v} |-> f[w]]
           IN  /\ Absent(f, n) <=> Absent(<<f[v]>>, n) /\ Absent(g, n)
               /\ Once(f, n) <=> OnceInBoth(<<f[v]>>, g, n)
<1> DEFINE g == [w \in DOMAIN f \ {v} |-> f[w]]
           s == f[v]
           No == \A j \in DOMAIN s : s[j] # n
           One == \E j \in DOMAIN s : s[j] = n /\ \A i \in DOMAIN s : s[i] = n => i = j
<1>1. (Absent(<<s>>, n) <=> No) /\ (Once(<<s>>, n) <=> One)  BY SingleHolds
<1>2. DOMAIN g = DOMAIN f \ {v} /\ \A w \in DOMAIN f \ {v} : g[w] = f[w]  OBVIOUS
<1> HIDE DEF g
<1>3. Absent(f, n) <=> No /\ Absent(g, n)  BY <1>2 DEF Absent
<1>4. Once(f, n) => (One /\ Absent(g, n)) \/ (No /\ Once(g, n))
  <2> SUFFICES ASSUME Once(f, n) PROVE (One /\ Absent(g, n)) \/ (No /\ Once(g, n))  OBVIOUS
  <2>1. PICK k \in DOMAIN f : \E j \in DOMAIN f[k] :
               /\ f[k][j] = n
               /\ \A k2 \in DOMAIN f : \A j2 \in DOMAIN f[k2] : f[k2][j2] = n => k2 = k /\ j2 = j
    BY DEF Once
  <2>2. PICK j \in DOMAIN f[k] :
               /\ f[k][j] = n
               /\ \A k2 \in DOMAIN f : \A j2 \in DOMAIN f[k2] : f[k2][j2] = n => k2 = k /\ j2 = j
    BY <2>1
  <2>3. CASE k = v
    <3>1. One  BY <2>2, <2>3
    <3>2. Absent(g, n)  BY <1>2, <2>2, <2>3 DEF Absent
    <3> QED  BY <3>1, <3>2
  <2>4. CASE k # v
    <3>1. No  BY <2>2, <2>4
    <3>2. k \in DOMAIN g /\ j \in DOMAIN g[k] /\ g[k][j] = n  BY <1>2, <2>2, <2>4
    <3>3. \A k2 \in DOMAIN g : \A j2 \in DOMAIN g[k2] : g[k2][j2] = n => k2 = k /\ j2 = j
      BY <1>2, <2>2
    <3>4. Once(g, n)  BY <3>2, <3>3 DEF Once
    <3> QED  BY <3>1, <3>4
  <2> QED  BY <2>3, <2>4
<1>5. One /\ Absent(g, n) => Once(f, n)
  <2> SUFFICES ASSUME One, Absent(g, n) PROVE Once(f, n)  OBVIOUS
  <2>1. PICK j \in DOMAIN f[v] : f[v][j] = n /\ \A i \in DOMAIN f[v] : f[v][i] = n => i = j  OBVIOUS
  <2>2. \A k2 \in DOMAIN f : \A j2 \in DOMAIN f[k2] : f[k2][j2] = n => k2 = v /\ j2 = j
    BY <1>2, <2>1 DEF Absent
  <2> QED  BY <2>1, <2>2 DEF Once
<1>6. No /\ Once(g, n) => Once(f, n)
  <2> SUFFICES ASSUME No, Once(g, n) PROVE Once(f, n)  OBVIOUS
  <2>1. PICK k \in DOMAIN g : \E j \in DOMAIN g[k] :
               /\ g[k][j] = n
               /\ \A k2 \in DOMAIN g : \A j2 \in DOMAIN g[k2] : g[k2][j2] = n => k2 = k /\ j2 = j
    BY DEF Once
  <2>2. PICK j \in DOMAIN g[k] :
               /\ g[k][j] = n
               /\ \A k2 \in DOMAIN g : \A j2 \in DOMAIN g[k2] : g[k2][j2] = n => k2 = k /\ j2 = j
    BY <2>1
  <2>3. k \in DOMAIN f /\ j \in DOMAIN f[k] /\ f[k][j] = n  BY <1>2, <2>2
  <2>4. \A k2 \in DOMAIN f : \A j2 \in DOMAIN f[k2] : f[k2][j2] = n => k2 = k /\ j2 = j
    BY <1>2, <2>2
  <2> QED  BY <2>3, <2>4 DEF Once
<1> HIDE DEF No, One
<1> QED  BY <1>1, <1>3, <1>4, <1>5, <1>6 DEF OnceInBoth, g, s

\* The queue gets one call more.
LEMMA QueueMore ==
    ASSUME Shape, NEW c \in Calls, queue' = Append(queue, c), NEW n
    PROVE  /\ QNone(n)' <=> QNone(n) /\ Absent(<<c.val.ids>>, n)
           /\ QOnce(n)' <=> OnceInBoth(CallIds(queue), <<c.val.ids>>, n)
<1> DEFINE a == CallIds(queue)
           b == <<c.val.ids>>
<1>1. queue \in Seq(Calls)  BY DEF Shape, FlowOK
<1>2. CallIds(<<c>>) = b /\ b \in Seq(Seq(Ids)) /\ <<c>> \in Seq(Calls)  BY CallIdsSingle
<1>3. a \in Seq(Seq(Ids))  BY <1>1, CallIdsSeq
<1>4. queue' = queue \o <<c>>  BY <1>1
<1>5. CallIds(queue \o <<c>>) = a \o b  BY <1>1, <1>2, CallIdsConcat
<1>6. CallIds(queue') = a \o b  BY <1>4, <1>5
<1> HIDE DEF a, b
<1>7. /\ Absent(a \o b, n) <=> Absent(a, n) /\ Absent(b, n)
      /\ Once(a \o b, n) <=> OnceInBoth(a, b, n)
  BY <1>2, <1>3, ConcatHolds
<1>8. (QNone(n)' <=> Absent(CallIds(queue'), n)) /\ (QOnce(n)' <=> Once(CallIds(queue'), n))
  BY DEF QNone, QOnce
<1> QED  BY <1>6, <1>7, <1>8 DEF QNone, a, b

-----------------------------------------------------------------------------
(* What a step moves                                                       *)

\* The parts of the chain a step leaves alone.
LEMMA QSame == ASSUME queue' = queue, NEW n PROVE (QNone(n)' <=> QNone(n)) /\ (QOnce(n)' <=> QOnce(n))
BY DEF QNone, QOnce

\* The same for the stacks,
LEMMA SSame ==
    ASSUME StackIds' = StackIds, NEW n PROVE (SNone(n)' <=> SNone(n)) /\ (SOnce(n)' <=> SOnce(n))
BY DEF SNone, SOnce

\* what waits,
LEMMA WSame ==
    ASSUME WaitIds' = WaitIds, NEW n PROVE (WNone(n)' <=> WNone(n)) /\ (WOnce(n)' <=> WOnce(n))
BY DEF WNone, WOnce

\* what is to be emitted,
LEMMA ESame ==
    ASSUME pipe' = pipe, emits' = emits, NEW n
    PROVE  (ENone(n)' <=> ENone(n)) /\ (EOnce(n)' <=> EOnce(n))
<1>1. EmitIds' = EmitIds  BY PipeKept DEF EmitIds
<1> QED  BY <1>1 DEF ENone, EOnce

\* and what was sent.
LEMMA DSame == ASSUME sent' = sent, NEW n PROVE (DNone(n)' <=> DNone(n)) /\ (DOnce(n)' <=> DOnce(n))
BY DEF DNone, DOnce

\* Nothing moves.
LEMMA AllSame ==
    ASSUME pipe' = pipe, queue' = queue, StackIds' = StackIds, WaitIds' = WaitIds, emits' = emits,
           sent' = sent, lost' = lost, NEW n
    PROVE  Keeps(n)
BY QSame, SSame, WSame, ESame, DSame DEF Keeps, InOnePlace, Nowhere

\* The running call goes on with the value it carries.
LEMMA SameIds ==
    ASSUME Shape, NEW t \in Threads, stack[t] # <<>>, NEW c \in Calls,
           c.val.ids = Top(t).val.ids, Become(t, <<c>> \o Tail(stack[t]))
    PROVE  StackIds' = StackIds
<1> DEFINE r == Tail(stack[t])
           q == <<c>> \o r
<1>1. r \in Seq(Calls) /\ CallIds(stack[t]) = <<Top(t).val.ids>> \o CallIds(r)
  BY TopFacts, StackSplit
<1>2. CallIds(<<c>>) = <<c.val.ids>> /\ <<c>> \in Seq(Calls)  BY CallIdsSingle
<1>3. CallIds(q) = CallIds(stack[t])
  <2> HIDE DEF r
  <2>1. CallIds(<<c>> \o r) = CallIds(<<c>>) \o CallIds(r)  BY <1>1, <1>2, CallIdsConcat
  <2> QED  BY <1>1, <1>2, <2>1
<1>4. stack' = [stack EXCEPT ![t] = q] /\ DOMAIN stack = Threads  BY DEF Become, Shape, FlowOK
<1> HIDE DEF q
<1>5. \A u \in Threads : CallIds(stack'[u]) = CallIds(stack[u])  BY <1>3, <1>4
<1> QED  BY <1>5, Zenon DEF StackIds

\* A value forwarded alone keeps its ids.
LEMMA ForwardIds ==
    ASSUME Shape, NEW t \in Threads, stack[t] # <<>>, Top(t).node \in 1..Depth,
           NEW w \in Value, w.ids = Top(t).val.ids, Forward(t, <<w>>)
    PROVE  StackIds' = StackIds /\ lost' = lost
<1> DEFINE c == Call(Top(t).node + 1, "own", w)
           next == [k \in DOMAIN <<w>> |-> Call(Top(t).node + 1, "own", <<w>>[k])]
<1>1. next \in Seq(Calls) /\ next = <<c>> /\ c \in Calls
  <2>1. <<w>> \in Seq(Value) /\ DOMAIN <<w>> = 1..1 /\ <<w>>[1] = w  OBVIOUS
  <2>2. next \in Seq(Calls)  BY <2>1, NextCalls DEF Shape, LifeOK
  <2>3. Len(next) = 1 /\ next[1] = c  BY <2>1
  <2> HIDE DEF next, c
  <2>4. c \in Calls
    <3>1. Depth \in Nat  BY PipeFacts DEF Shape, LifeOK
    <3> QED  BY <3>1 DEF c, Calls, Call, Ports
  <2>5. next = <<c>>
    <3> DEFINE e == <<c>>
    <3>1. e \in Seq(Calls) /\ Len(e) = 1 /\ e[1] = c  BY <2>4
    <3> HIDE DEF e
    <3>2. next = e  BY <2>2, <2>3, <3>1
    <3> QED  BY <3>2 DEF e
  <2> QED  BY <2>2, <2>4, <2>5
<1>2. Become(t, next \o Tail(stack[t])) /\ lost' = lost  BY DEF Forward
<1>3. c.val.ids = Top(t).val.ids  BY DEF Call
<1> HIDE DEF next, c
<1> QED  BY <1>1, <1>2, <1>3, SameIds

\* A node refuses the value: it is lost.
LEMMA SwallowKeeps ==
    ASSUME Shape, pipe' = pipe, NEW t \in Threads, stack[t] # <<>>, Swallow(t),
           queue' = queue, WaitIds' = WaitIds, emits' = emits, sent' = sent, NEW n
    PROVE  Keeps(n)
<1> DEFINE s == Top(t).val.ids
           h == <<s>>
           r == CallIds(Tail(stack[t]))
           a == CallIds(stack[t])
           r0 == RestNone(StackIds, t, n)
           r1 == RestOnce(StackIds, t, n)
<1>1. Become(t, Tail(stack[t])) /\ lost' = lost \cup Range(s)  BY DEF Swallow
<1>2. /\ SNone(n) <=> Absent(a, n) /\ r0
      /\ SOnce(n) <=> (Once(a, n) /\ r0) \/ (Absent(a, n) /\ r1)
      /\ SNone(n)' <=> Absent(r, n) /\ r0
      /\ SOnce(n)' <=> (Once(r, n) /\ r0) \/ (Absent(r, n) /\ r1)
  BY <1>1, StackChange
<1>3. /\ Absent(a, n) <=> Absent(h, n) /\ Absent(r, n)
      /\ Once(a, n) <=> OnceInBoth(h, r, n)
  BY StackSplit
<1>4. Absent(h, n) <=> n \notin Range(s)
  <2>1. Absent(h, n) <=> \A j \in DOMAIN s : s[j] # n  BY SingleHolds
  <2> QED  BY <2>1 DEF Range
<1>5. Once(h, n) => ~Absent(h, n)  BY Exclusive
<1> HIDE DEF h, r, a, r0, r1, s
<1>6. n \in lost' <=> n \in lost \/ ~Absent(h, n)  BY <1>1, <1>4
<1> QED  BY <1>2, <1>3, <1>5, <1>6, QSame, WSame, ESame, DSame DEF Keeps, InOnePlace, Nowhere, OnceInBoth

\* An exception takes the whole task with it: its values are lost.
LEMMA ThrowKeeps ==
    ASSUME Shape, pipe' = pipe, NEW t \in Threads, Become(t, <<>>),
           lost' = lost \cup UNION {Range(c.val.ids) : c \in Range(stack[t])},
           queue' = queue, WaitIds' = WaitIds, emits' = emits, sent' = sent, NEW n
    PROVE  Keeps(n)
<1> DEFINE a == CallIds(stack[t])
           b == CallIds(<<>>)
           r0 == RestNone(StackIds, t, n)
           r1 == RestOnce(StackIds, t, n)
<1>1. /\ SNone(n) <=> Absent(a, n) /\ r0
      /\ SOnce(n) <=> (Once(a, n) /\ r0) \/ (Absent(a, n) /\ r1)
      /\ SNone(n)' <=> Absent(b, n) /\ r0
      /\ SOnce(n)' <=> (Once(b, n) /\ r0) \/ (Absent(b, n) /\ r1)
  BY StackChange
<1>2. DOMAIN b = {}  BY DEF CallIds
<1>3. Absent(b, n) /\ ~Once(b, n)
  <2> HIDE DEF b
  <2> QED  BY <1>2 DEF Absent, Once
<1>4. Once(a, n) => ~Absent(a, n)  BY Exclusive
<1>5. n \in lost' <=> n \in lost \/ ~Absent(a, n)
  <2>1. DOMAIN a = DOMAIN stack[t] /\ \A k \in DOMAIN stack[t] : a[k] = stack[t][k].val.ids
    BY DEF CallIds
  <2> HIDE DEF a
  <2>2. ~Absent(a, n) <=> \E k \in DOMAIN stack[t] : n \in Range(stack[t][k].val.ids)
    BY <2>1 DEF Absent, Range
  <2>3. n \in UNION {Range(c.val.ids) : c \in Range(stack[t])}
          <=> \E k \in DOMAIN stack[t] : n \in Range(stack[t][k].val.ids)
    <3> DEFINE R(x) == Range(x.val.ids)
    <3> HIDE DEF R
    <3>1. n \in UNION {R(c) : c \in Range(stack[t])} <=> \E k \in DOMAIN stack[t] : n \in R(stack[t][k])
      BY DEF Range
    <3> QED  BY <3>1 DEF R
  <2> QED  BY <2>2, <2>3
<1> HIDE DEF a, b, r0, r1
<1> QED  BY <1>1, <1>3, <1>4, <1>5, QSame, WSame, ESame, DSame DEF Keeps, InOnePlace, Nowhere

\* The value is put to those that wait.
LEMMA WaitKeeps ==
    ASSUME Shape, pipe' = pipe, NEW t \in Threads, stack[t] # <<>>, Become(t, Tail(stack[t])),
           Top(t).node \in 1..Depth, Kind(Top(t).node) \in {"Aggregate", "TumblingWindow"},
           mem' = [mem EXCEPT ![Top(t).node] =
                      Put(@, Top(t).val.sym, Append(Of(mem[Top(t).node], Top(t).val.sym), Top(t).val))],
           queue' = queue, emits' = emits, sent' = sent, lost' = lost, NEW n
    PROVE  Keeps(n)
<1> DEFINE i == Top(t).node
           v == Top(t).val
           h == <<v.ids>>
           r == CallIds(Tail(stack[t]))
           a == CallIds(stack[t])
           r0 == RestNone(StackIds, t, n)
           r1 == RestOnce(StackIds, t, n)
           o == Of(mem[i], v.sym)
           c == ValIds(o)
           d == ValIds(Append(o, v))
           w0 == RestNone(WaitIds, <<i, v.sym>>, n)
           w1 == RestOnce(WaitIds, <<i, v.sym>>, n)
<1>1. /\ SNone(n) <=> Absent(a, n) /\ r0
      /\ SOnce(n) <=> (Once(a, n) /\ r0) \/ (Absent(a, n) /\ r1)
      /\ SNone(n)' <=> Absent(r, n) /\ r0
      /\ SOnce(n)' <=> (Once(r, n) /\ r0) \/ (Absent(r, n) /\ r1)
  BY StackChange
<1>2. /\ Absent(a, n) <=> Absent(h, n) /\ Absent(r, n)
      /\ Once(a, n) <=> OnceInBoth(h, r, n)
  BY StackSplit
<1>3. i \in 1..Depth /\ v \in Value /\ v.sym \in Symbols  BY TopFacts
<1>4. o \in Seq(Value)  BY <1>3, OfFacts DEF Shape, FlowOK
<1>5. /\ WNone(n) <=> Absent(c, n) /\ w0
      /\ WOnce(n) <=> (Once(c, n) /\ w0) \/ (Absent(c, n) /\ w1)
      /\ WNone(n)' <=> Absent(d, n) /\ w0
      /\ WOnce(n)' <=> (Once(d, n) /\ w0) \/ (Absent(d, n) /\ w1)
  <2> DEFINE x == Append(o, v)
  <2>1. mem' = [mem EXCEPT ![i] = Put(@, v.sym, x)] /\ Kind(i) \in {"Aggregate", "TumblingWindow"}
    OBVIOUS
  <2> HIDE DEF x, i, v
  <2>2. LET aa == ValIds(Of(mem[i], v.sym))
            bb == ValIds(x)
            q0 == RestNone(WaitIds, <<i, v.sym>>, n)
            q1 == RestOnce(WaitIds, <<i, v.sym>>, n)
        IN  /\ WNone(n) <=> Absent(aa, n) /\ q0
            /\ WOnce(n) <=> (Once(aa, n) /\ q0) \/ (Absent(aa, n) /\ q1)
            /\ WNone(n)' <=> Absent(bb, n) /\ q0
            /\ WOnce(n)' <=> (Once(bb, n) /\ q0) \/ (Absent(bb, n) /\ q1)
    BY <1>3, <2>1, WaitChange
  <2> QED  BY <2>2 DEF x
<1>6. d = c \o h /\ h \in Seq(Seq(Ids)) /\ c \in Seq(Seq(Ids))
  <2> HIDE DEF o, v
  <2> QED  BY <1>3, <1>4, ValIdsAppend, ValIdsSeq
<1> HIDE DEF h, r, a, r0, r1, c, d, w0, w1
<1>7. /\ Absent(d, n) <=> Absent(c, n) /\ Absent(h, n)
      /\ Once(d, n) <=> OnceInBoth(c, h, n)
  BY <1>6, ConcatHolds
<1>8. n \in lost' <=> n \in lost  OBVIOUS
<1> QED  BY <1>1, <1>2, <1>5, <1>7, <1>8, QSame, ESame, DSame DEF Keeps, InOnePlace, Nowhere, OnceInBoth

\* A full batch leaves: what waited and the value that filled it.
LEMMA BatchKeeps ==
    ASSUME Shape, pipe' = pipe, NEW t \in Threads, stack[t] # <<>>,
           Top(t).node \in 1..Depth, Kind(Top(t).node) \in {"Aggregate", "TumblingWindow"},
           NEW vs \in Seq(Value), ValIds(vs) = ValIds(Batch(Top(t).node, Top(t).val)), Forward(t, vs),
           mem' = [mem EXCEPT ![Top(t).node] = Put(@, Top(t).val.sym, <<>>)],
           queue' = queue, emits' = emits, sent' = sent, NEW n
    PROVE  Keeps(n)
<1> DEFINE i == Top(t).node
           v == Top(t).val
           h == <<v.ids>>
           r == CallIds(Tail(stack[t]))
           a == CallIds(stack[t])
           r0 == RestNone(StackIds, t, n)
           r1 == RestOnce(StackIds, t, n)
           next == [k \in DOMAIN vs |-> Call(i + 1, "own", vs[k])]
           b == CallIds(next \o Tail(stack[t]))
           o == Of(mem[i], v.sym)
           c == ValIds(o)
           d == ValIds(Append(o, v))
           e == ValIds(<<>>)
           w0 == RestNone(WaitIds, <<i, v.sym>>, n)
           w1 == RestOnce(WaitIds, <<i, v.sym>>, n)
<1>0. Become(t, next \o Tail(stack[t])) /\ lost' = lost  BY DEF Forward
<1>1. /\ SNone(n) <=> Absent(a, n) /\ r0
      /\ SOnce(n) <=> (Once(a, n) /\ r0) \/ (Absent(a, n) /\ r1)
      /\ SNone(n)' <=> Absent(b, n) /\ r0
      /\ SOnce(n)' <=> (Once(b, n) /\ r0) \/ (Absent(b, n) /\ r1)
  <2> DEFINE q == next \o Tail(stack[t])
  <2> HIDE DEF q
  <2>1. Become(t, q)  BY <1>0 DEF q
  <2>2. LET aa == CallIds(stack[t])
            bb == CallIds(q)
            q0 == RestNone(StackIds, t, n)
            q1 == RestOnce(StackIds, t, n)
        IN  /\ SNone(n) <=> Absent(aa, n) /\ q0
            /\ SOnce(n) <=> (Once(aa, n) /\ q0) \/ (Absent(aa, n) /\ q1)
            /\ SNone(n)' <=> Absent(bb, n) /\ q0
            /\ SOnce(n)' <=> (Once(bb, n) /\ q0) \/ (Absent(bb, n) /\ q1)
    BY <2>1, StackChange
  <2> QED  BY <2>2 DEF q
<1>2. /\ Absent(a, n) <=> Absent(h, n) /\ Absent(r, n)
      /\ Once(a, n) <=> OnceInBoth(h, r, n)
      /\ r \in Seq(Seq(Ids)) /\ Tail(stack[t]) \in Seq(Calls)
  BY StackSplit, TopFacts
<1>3. i \in 1..Depth /\ v \in Value /\ v.sym \in Symbols  BY TopFacts
<1>4. o \in Seq(Value)  BY <1>3, OfFacts DEF Shape, FlowOK
<1>5. /\ WNone(n) <=> Absent(c, n) /\ w0
      /\ WOnce(n) <=> (Once(c, n) /\ w0) \/ (Absent(c, n) /\ w1)
      /\ WNone(n)' <=> Absent(e, n) /\ w0
      /\ WOnce(n)' <=> (Once(e, n) /\ w0) \/ (Absent(e, n) /\ w1)
  <2>1. mem' = [mem EXCEPT ![i] = Put(@, v.sym, <<>>)] /\ Kind(i) \in {"Aggregate", "TumblingWindow"}
    OBVIOUS
  <2> HIDE DEF i, v
  <2> QED  BY <1>3, <2>1, WaitChange
<1>6. d = c \o h /\ h \in Seq(Seq(Ids)) /\ c \in Seq(Seq(Ids))
  <2> HIDE DEF o, v
  <2> QED  BY <1>3, <1>4, ValIdsAppend, ValIdsSeq
<1>7. b = d \o r /\ d \in Seq(Seq(Ids))
  <2>1. next \in Seq(Calls)  BY <1>3, NextCalls DEF Shape, LifeOK
  <2>2. CallIds(next) = ValIds(vs)  BY NextIds
  <2>3. ValIds(vs) = d  BY DEF Batch
  <2>4. d \in Seq(Seq(Ids))  BY <2>3, ValIdsSeq
  <2> HIDE DEF next, d
  <2> QED  BY <1>2, <2>1, <2>2, <2>3, <2>4, CallIdsConcat
<1>8. DOMAIN e = {}  BY DEF ValIds
<1> HIDE DEF h, r, a, b, r0, r1, c, d, e, w0, w1
<1>9. /\ Absent(d, n) <=> Absent(c, n) /\ Absent(h, n)
      /\ Once(d, n) <=> OnceInBoth(c, h, n)
  BY <1>6, ConcatHolds
<1>10. /\ Absent(b, n) <=> Absent(d, n) /\ Absent(r, n)
       /\ Once(b, n) <=> OnceInBoth(d, r, n)
  BY <1>2, <1>7, ConcatHolds
<1>11. Absent(e, n) /\ ~Once(e, n)  BY <1>8 DEF Absent, Once
<1>12. n \in lost' <=> n \in lost  BY <1>0
<1> QED  BY <1>1, <1>2, <1>5, <1>9, <1>10, <1>11, <1>12, QSame, ESame, DSame
       DEF Keeps, InOnePlace, Nowhere, OnceInBoth

\* A worker takes the first call of the queue.
LEMMA TakeKeeps ==
    ASSUME Shape, NEW t \in Threads, Take(t), NEW n
    PROVE  Keeps(n)
<1> DEFINE c == Head(queue)
           h == <<c.val.ids>>
           q == CallIds(queue)
           r == CallIds(Tail(queue))
           a == CallIds(stack[t])
           r0 == RestNone(StackIds, t, n)
           r1 == RestOnce(StackIds, t, n)
<1>1. queue \in Seq(Calls) /\ queue # <<>> /\ stack[t] = <<>> /\ DOMAIN stack = Threads
  BY DEF Take, Shape, FlowOK
<1>2. c \in Calls /\ Tail(queue) \in Seq(Calls) /\ queue = <<c>> \o Tail(queue)  BY <1>1
<1> HIDE DEF c
<1>3. CallIds(<<c>>) = h /\ h \in Seq(Seq(Ids)) /\ <<c>> \in Seq(Calls)  BY <1>2, CallIdsSingle
<1>4. r \in Seq(Seq(Ids))  BY <1>2, CallIdsSeq
<1>5. q = h \o r  BY <1>2, <1>3, CallIdsConcat
<1>6. stack' = [stack EXCEPT ![t] = <<c>>] /\ queue' = Tail(queue)  BY DEF Take, c
<1>7. UNCHANGED <<pipe, mem, emits, sent, lost>>  BY DEF Take
<1>8. /\ SNone(n) <=> Absent(a, n) /\ r0
      /\ SOnce(n) <=> (Once(a, n) /\ r0) \/ (Absent(a, n) /\ r1)
      /\ SNone(n)' <=> Absent(h, n) /\ r0
      /\ SOnce(n)' <=> (Once(h, n) /\ r0) \/ (Absent(h, n) /\ r1)
  <2> DEFINE F == StackIds
             G == StackIds'
  <2>1. \A u \in Threads : stack'[u] = IF u = t THEN <<c>> ELSE stack[u]  BY <1>1, <1>6
  <2>2. DOMAIN F = Threads /\ F[t] = a  BY DEF StackIds
  <2>3. DOMAIN G = Threads /\ G[t] = h /\ \A u \in Threads \ {t} : G[u] = F[u]
    BY <1>3, <2>1 DEF StackIds
  <2> HIDE DEF F, G
  <2>4. /\ NoneAmong(F, n) <=> Absent(F[t], n) /\ RestNone(F, t, n)
        /\ OnceAmong(F, n) <=> \/ Once(F[t], n) /\ RestNone(F, t, n)
                               \/ Absent(F[t], n) /\ RestOnce(F, t, n)
    BY <2>2, AtIndex
  <2>5. /\ NoneAmong(G, n) <=> Absent(G[t], n) /\ RestNone(G, t, n)
        /\ OnceAmong(G, n) <=> \/ Once(G[t], n) /\ RestNone(G, t, n)
                               \/ Absent(G[t], n) /\ RestOnce(G, t, n)
    BY <2>3, AtIndex
  <2>6. (RestNone(G, t, n) <=> RestNone(F, t, n)) /\ (RestOnce(G, t, n) <=> RestOnce(F, t, n))
    BY <2>2, <2>3, RestKept
  <2>7. /\ SNone(n) <=> NoneAmong(F, n)
        /\ SOnce(n) <=> OnceAmong(F, n)
        /\ SNone(n)' <=> NoneAmong(G, n)
        /\ SOnce(n)' <=> OnceAmong(G, n)
    BY DEF SNone, SOnce, F, G
  <2>8. r0 = RestNone(F, t, n) /\ r1 = RestOnce(F, t, n)  BY DEF F
  <2> HIDE DEF r0, r1
  <2> QED  BY <2>2, <2>3, <2>4, <2>5, <2>6, <2>7, <2>8
<1>9. Absent(a, n) /\ ~Once(a, n)
  <2>1. DOMAIN a = {}  BY <1>1 DEF CallIds
  <2> HIDE DEF a
  <2> QED  BY <2>1 DEF Absent, Once
<1>10. /\ QNone(n) <=> Absent(q, n)
       /\ QOnce(n) <=> Once(q, n)
       /\ QNone(n)' <=> Absent(r, n)
       /\ QOnce(n)' <=> Once(r, n)
  BY <1>6 DEF QNone, QOnce
<1> HIDE DEF h, q, r, a, r0, r1
<1>11. Absent(q, n) <=> Absent(h, n) /\ Absent(r, n)  BY <1>3, <1>4, <1>5, ConcatHolds
<1>12. Once(q, n) <=> OnceInBoth(h, r, n)  BY <1>3, <1>4, <1>5, ConcatHolds
<1>13. WaitIds' = WaitIds  BY <1>7, WaitSame
<1>14. n \in lost' <=> n \in lost  BY <1>7
<1> QED  BY <1>7, <1>8, <1>9, <1>10, <1>11, <1>12, <1>13, <1>14, WSame, ESame, DSame
       DEF Keeps, InOnePlace, Nowhere, OnceInBoth

\* The Responder sends the value.
LEMMA RespondKeeps ==
    ASSUME Shape, NEW t \in Threads, OnResponder(t), NEW n \in Ids
    PROVE  Keeps(n)
<1> DEFINE s == Top(t).val.ids
           h == <<s>>
           r == CallIds(Tail(stack[t]))
           a == CallIds(stack[t])
           r0 == RestNone(StackIds, t, n)
           r1 == RestOnce(StackIds, t, n)
           K == {k \in DOMAIN s : s[k] = n}
<1>1. stack[t] # <<>> /\ Become(t, Tail(stack[t])) /\ UNCHANGED <<pipe, queue, emits, mem, lost>>
  BY DEF OnResponder, At, Outside
<1>2. /\ SNone(n) <=> Absent(a, n) /\ r0
      /\ SOnce(n) <=> (Once(a, n) /\ r0) \/ (Absent(a, n) /\ r1)
      /\ SNone(n)' <=> Absent(r, n) /\ r0
      /\ SOnce(n)' <=> (Once(r, n) /\ r0) \/ (Absent(r, n) /\ r1)
  BY <1>1, StackChange
<1>3. /\ Absent(a, n) <=> Absent(h, n) /\ Absent(r, n)
      /\ Once(a, n) <=> OnceInBoth(h, r, n)
  BY <1>1, StackSplit
<1>4. sent'[n] = sent[n] + Cardinality(K) /\ sent[n] \in Nat
  BY DEF OnResponder, Shape, FlowOK
<1>5. Absent(h, n) => Cardinality(K) = 0
  <2>1. Absent(h, n) <=> \A j \in DOMAIN s : s[j] # n  BY SingleHolds
  <2>2. Absent(h, n) => K = {}  BY <2>1
  <2> QED  BY <2>2, FS_EmptySet
<1>6. Once(h, n) => Cardinality(K) = 1
  <2> SUFFICES ASSUME Once(h, n) PROVE Cardinality(K) = 1  OBVIOUS
  <2>1. PICK j \in DOMAIN s : s[j] = n /\ \A i \in DOMAIN s : s[i] = n => i = j  BY SingleHolds
  <2>2. K = {j}  BY <2>1
  <2> QED  BY <2>2, FS_Singleton
<1>7. Once(h, n) => ~Absent(h, n)  BY Exclusive
<1>8. WaitIds' = WaitIds  BY <1>1, WaitSame
<1> HIDE DEF h, r, a, r0, r1, s, K
<1>9. /\ Absent(h, n) => (DNone(n)' <=> DNone(n)) /\ (DOnce(n)' <=> DOnce(n))
      /\ Once(h, n) => (DNone(n) => DOnce(n)')
  BY <1>4, <1>5, <1>6 DEF DNone, DOnce
<1>10. n \in lost' <=> n \in lost  BY <1>1
<1> QED  BY <1>1, <1>2, <1>3, <1>7, <1>8, <1>9, <1>10, QSame, WSame, ESame
       DEF Keeps, InOnePlace, Nowhere, OnceInBoth

\* A value of a bucket is posted.
LEMMA PostKeeps ==
    ASSUME Shape, NEW i \in 1..Depth, PostWindow(i), NEW n
    PROVE  Keeps(n)
<1>1. PICK v \in emits[i] : emits' = [emits EXCEPT ![i] = @ \ {v}]
                            /\ queue' = Append(queue, Call(i + 1, "own", v))
  BY DEF PostWindow, Post
<1>2. UNCHANGED <<pipe, stack, mem, sent, lost>>  BY DEF PostWindow
<1>3. emits \in [1..Depth -> SUBSET Value] /\ Depth \in Nat
  BY PipeFacts DEF Shape, FlowOK, LifeOK
<1> DEFINE c == Call(i + 1, "own", v)
           h == <<v.ids>>
           q == CallIds(queue)
           F == EmitIds
           G == EmitIds'
           f == [w \in emits[i] |-> w.ids]
           g == [w \in DOMAIN f \ {v} |-> f[w]]
           r0 == RestNone(F, i, n)
           r1 == RestOnce(F, i, n)
<1>4. c \in Calls /\ c.val.ids = v.ids
  <2>1. v \in Value  BY <1>1, <1>3
  <2> QED  BY <1>3, <2>1 DEF Calls, Call, Ports
<1>5. /\ QNone(n)' <=> QNone(n) /\ Absent(h, n)
      /\ QOnce(n)' <=> OnceInBoth(q, h, n)
  <2> HIDE DEF c
  <2>1. queue' = Append(queue, c)  BY <1>1 DEF c
  <2>2. /\ QNone(n)' <=> QNone(n) /\ Absent(<<c.val.ids>>, n)
        /\ QOnce(n)' <=> OnceInBoth(CallIds(queue), <<c.val.ids>>, n)
    BY <1>4, <2>1, QueueMore
  <2> QED  BY <1>4, <2>2
<1>6. DOMAIN F = 1..Depth /\ F[i] = f  BY DEF EmitIds
<1>7. DOMAIN G = 1..Depth /\ G[i] = g /\ \A j \in 1..Depth \ {i} : G[j] = F[j]
  <2>1. Depth' = Depth  BY <1>2, PipeKept
  <2>2. \A j \in 1..Depth : emits'[j] = IF j = i THEN emits[i] \ {v} ELSE emits[j]  BY <1>1, <1>3
  <2>3. DOMAIN G = 1..Depth /\ \A j \in 1..Depth : G[j] = [w \in emits'[j] |-> w.ids]
    BY <2>1 DEF EmitIds
  <2>4. \A j \in 1..Depth \ {i} : G[j] = F[j]  BY <2>2, <2>3 DEF EmitIds
  <2>5. G[i] = [w \in emits[i] \ {v} |-> w.ids]  BY <2>2, <2>3
  <2>6. DOMAIN f = emits[i]  OBVIOUS
  <2>7. g = [w \in emits[i] \ {v} |-> w.ids]  BY <2>6
  <2> QED  BY <2>3, <2>4, <2>5, <2>7
<1>8. /\ Absent(f, n) <=> Absent(h, n) /\ Absent(g, n)
      /\ Once(f, n) <=> OnceInBoth(h, g, n)
  <2>1. v \in DOMAIN f /\ f[v] = v.ids  BY <1>1
  <2> HIDE DEF f
  <2> QED  BY <2>1, FamilyLess
<1> HIDE DEF c, h, q, F, G, f, g
<1>9. /\ NoneAmong(F, n) <=> Absent(F[i], n) /\ RestNone(F, i, n)
      /\ OnceAmong(F, n) <=> \/ Once(F[i], n) /\ RestNone(F, i, n)
                             \/ Absent(F[i], n) /\ RestOnce(F, i, n)
  BY <1>6, AtIndex
<1>10. /\ NoneAmong(G, n) <=> Absent(G[i], n) /\ RestNone(G, i, n)
       /\ OnceAmong(G, n) <=> \/ Once(G[i], n) /\ RestNone(G, i, n)
                              \/ Absent(G[i], n) /\ RestOnce(G, i, n)
  BY <1>7, AtIndex
<1>11. (RestNone(G, i, n) <=> RestNone(F, i, n)) /\ (RestOnce(G, i, n) <=> RestOnce(F, i, n))
  BY <1>6, <1>7, RestKept
<1>12. /\ ENone(n) <=> NoneAmong(F, n)
       /\ EOnce(n) <=> OnceAmong(F, n)
       /\ ENone(n)' <=> NoneAmong(G, n)
       /\ EOnce(n)' <=> OnceAmong(G, n)
  BY DEF ENone, EOnce, F, G
<1> HIDE DEF r0, r1
<1>13. StackIds' = StackIds /\ WaitIds' = WaitIds
  <2>1. StackIds' = StackIds  BY <1>2 DEF StackIds
  <2> QED  BY <1>2, <2>1, WaitSame
<1>14. n \in lost' <=> n \in lost  BY <1>2
<1>15. (QNone(n) <=> Absent(q, n)) /\ (QOnce(n) <=> Once(q, n))  BY DEF QNone, QOnce, q
<1> QED  BY <1>2, <1>5, <1>6, <1>7, <1>8, <1>9, <1>10, <1>11, <1>12, <1>13, <1>14, <1>15,
            SSame, WSame, DSame
       DEF Keeps, InOnePlace, Nowhere, OnceInBoth

\* A listener or a timer produces a value: it is queued.
LEMMA HearTracks ==
    ASSUME Shape, Tracked, NEW i, NEW port, NEW s, Hear(i, port, s),
           Call(i, port, Scalar(s, <<Fresh>>, {Fresh})) \in Calls
    PROVE  Tracked'
<1> DEFINE c == Call(i, port, Scalar(s, <<Fresh>>, {Fresh}))
           m == Len(fed) + 1
           h == << <<m>> >>
           q == CallIds(queue)
<1>1. queue' = Append(queue, c) /\ fed' = Append(fed, s) /\ UNCHANGED <<pipe, stack, mem, emits, sent, lost>>
      /\ Len(fed) < MaxFed /\ fed \in Seq(Symbols)
  BY DEF Hear, Post, Shape, FlowOK
<1>2. c.val.ids = <<m>>  BY DEF Call, Scalar, Fresh
<1>3. Len(fed') = m /\ Len(fed) \in Nat /\ MaxFed \in Nat /\ m \in Ids
  BY <1>1, ChainAssumption DEF Ids
<1>4. StackIds' = StackIds /\ WaitIds' = WaitIds
  <2>1. StackIds' = StackIds  BY <1>1 DEF StackIds
  <2> QED  BY <1>1, <2>1, WaitSame
<1> SUFFICES ASSUME NEW n \in Ids PROVE (IF n <= Len(fed) THEN InOnePlace(n) ELSE Nowhere(n))'
  BY DEF Tracked
<1> HIDE DEF c, m
<1>5. (Absent(h, n) <=> n # m) /\ (Once(h, n) <=> n = m)
  <2>1. DOMAIN <<m>> = {1} /\ <<m>>[1] = m  OBVIOUS
  <2> DEFINE d == <<m>>
  <2> HIDE DEF d
  <2>2. DOMAIN d = {1} /\ d[1] = m  BY <2>1 DEF d
  <2>3. /\ Absent(<<d>>, n) <=> \A j \in DOMAIN d : d[j] # n
        /\ Once(<<d>>, n) <=> \E j \in DOMAIN d : d[j] = n /\ \A k \in DOMAIN d : d[k] = n => k = j
    BY SingleHolds
  <2>4. (Absent(<<d>>, n) <=> n # m) /\ (Once(<<d>>, n) <=> n = m)  BY <2>2, <2>3
  <2> QED  BY <2>4 DEF d
<1>6. /\ QNone(n)' <=> QNone(n) /\ Absent(h, n)
      /\ QOnce(n)' <=> OnceInBoth(q, h, n)
  <2>1. /\ QNone(n)' <=> QNone(n) /\ Absent(<<c.val.ids>>, n)
        /\ QOnce(n)' <=> OnceInBoth(CallIds(queue), <<c.val.ids>>, n)
    <3>1. c \in Calls  BY DEF c
    <3> QED  BY <1>1, <3>1, QueueMore
  <2> QED  BY <1>2, <2>1
<1>7. (QNone(n) <=> Absent(q, n)) /\ (QOnce(n) <=> Once(q, n))  BY DEF QNone, QOnce
<1> HIDE DEF h, q
<1>8. /\ (SNone(n)' <=> SNone(n)) /\ (SOnce(n)' <=> SOnce(n))
      /\ (WNone(n)' <=> WNone(n)) /\ (WOnce(n)' <=> WOnce(n))
      /\ (ENone(n)' <=> ENone(n)) /\ (EOnce(n)' <=> EOnce(n))
      /\ (DNone(n)' <=> DNone(n)) /\ (DOnce(n)' <=> DOnce(n))
      /\ (n \in lost' <=> n \in lost)
  BY <1>1, <1>4, SSame, WSame, ESame, DSame
<1>9. n \in Nat  BY DEF Ids
<1>10. CASE n = m
  <2>1. Nowhere(n)
    <3>1. ~(n <= Len(fed))  BY <1>3, <1>10 DEF m
    <3> QED  BY <3>1 DEF Tracked
  <2>2. InOnePlace(n)'
    BY <1>5, <1>6, <1>7, <1>8, <1>10, <2>1 DEF InOnePlace, Nowhere, OnceInBoth
  <2>3. (n <= Len(fed))'  BY <1>3, <1>9, <1>10
  <2> QED  BY <2>2, <2>3
<1>11. CASE n # m
  <2>1. (InOnePlace(n) => InOnePlace(n)') /\ (Nowhere(n) => Nowhere(n)')
    BY <1>5, <1>6, <1>7, <1>8, <1>11 DEF InOnePlace, Nowhere, OnceInBoth
  <2>2. (n <= Len(fed))' <=> n <= Len(fed)  BY <1>3, <1>9, <1>11 DEF m
  <2>3. IF n <= Len(fed) THEN InOnePlace(n) ELSE Nowhere(n)  BY DEF Tracked
  <2> QED  BY <2>1, <2>2, <2>3
<1> QED  BY <1>10, <1>11

\* A window's timer takes its buckets: what waited is to be emitted.
LEMMA FlushKeeps ==
    ASSUME Shape, NEW i \in 1..Depth, FlushWindow(i), NEW n
    PROVE  Keeps(n)
<1> DEFINE F == WaitIds
           G == WaitIds'
           D == (1..Depth) \X Symbols
           E == EmitIds
           H == EmitIds'
           full == {x \in DOMAIN mem[i] : mem[i][x] # <<>>}
           new == {Bucket(i, s) : s \in full}
           f(s) == ValIds(mem[i][s])
           b(s) == <<Bucket(i, s).ids>>
<1>1. /\ Kind(i) = "TumblingWindow" /\ emits[i] = {}
      /\ emits' = [emits EXCEPT ![i] = new]
      /\ mem' = [mem EXCEPT ![i] = [s \in DOMAIN mem[i] |-> <<>>]]
      /\ UNCHANGED <<pipe, queue, stack, sent, lost>>
  BY DEF FlushWindow, WindowRuns, Flushed
<1>2. /\ Depth' = Depth /\ \A j : Kind(j)' = Kind(j)  BY <1>1, PipeKept
<1>3. MemOK(mem) /\ emits \in [1..Depth -> SUBSET Value]  BY DEF Shape, FlowOK
<1>4. /\ \A s \in DOMAIN mem[i] : s \in Symbols /\ mem[i][s] \in Seq(Value)
      /\ DOMAIN mem = 1..Depth
  BY <1>3 DEF MemOK
<1>5. ASSUME NEW s \in DOMAIN mem[i]
      PROVE  (Absent(b(s), n) <=> Absent(f(s), n)) /\ (Once(b(s), n) <=> Once(f(s), n))
  <2>1. f(s) \in Seq(Seq(Ids))  BY <1>4, ValIdsSeq
  <2>2. Bucket(i, s).ids = FlattenSeq(f(s))  BY DEF Bucket, ValIds
  <2> HIDE DEF f
  <2>3. /\ Absent(<<FlattenSeq(f(s))>>, n) <=> Absent(f(s), n)
        /\ Once(<<FlattenSeq(f(s))>>, n) <=> Once(f(s), n)
    BY <2>1, FlatHolds
  <2> QED  BY <2>2, <2>3
<1>6. \A s \in DOMAIN mem[i] : s \notin full => Absent(f(s), n) /\ ~Once(f(s), n)
  <2> SUFFICES ASSUME NEW s \in DOMAIN mem[i], s \notin full PROVE Absent(f(s), n) /\ ~Once(f(s), n)
    OBVIOUS
  <2>1. mem[i][s] = <<>>  OBVIOUS
  <2>2. DOMAIN f(s) = {}  BY <2>1 DEF ValIds
  <2> HIDE DEF f
  <2> QED  BY <2>2 DEF Absent, Once
<1>7. \A s1, s2 \in full : Bucket(i, s1) = Bucket(i, s2) => s1 = s2
  <2>1. \A s : Bucket(i, s).sym = s  BY DEF Bucket
  <2> QED  BY <2>1

\* what waits, before and after
<1>8. DOMAIN F = D /\ DOMAIN G = D  BY <1>2 DEF WaitIds
<1>9. ASSUME NEW j \in 1..Depth, NEW s \in Symbols
      PROVE  F[<<j, s>>] = ValIds(Of(Waiting(j), s)) /\ G[<<j, s>>] = ValIds(Of(Waiting(j)', s))
  <2>1. F[<<j, s>>] = ValIds(Of(Waiting(j), s))  BY DEF WaitIds
  <2>2. G = [is \in (1..Depth) \X Symbols |-> ValIds(Of(Waiting(is[1])', is[2]))]
    BY <1>2 DEF WaitIds
  <2> HIDE DEF G
  <2>3. G[<<j, s>>] = ValIds(Of(Waiting(j)', s))  BY <2>2
  <2> QED  BY <2>1, <2>3
<1>10. /\ Waiting(i) = mem[i] /\ Waiting(i)' = [s \in DOMAIN mem[i] |-> <<>>]
       /\ \A j \in 1..Depth \ {i} : Waiting(j)' = Waiting(j)
  BY <1>1, <1>2, <1>4 DEF Waiting
<1>11. \A j \in 1..Depth \ {i} : \A s \in Symbols : G[<<j, s>>] = F[<<j, s>>]
  <2> TAKE j \in 1..Depth \ {i}
  <2> TAKE s \in Symbols
  <2>1. F[<<j, s>>] = ValIds(Of(Waiting(j), s)) /\ G[<<j, s>>] = ValIds(Of(Waiting(j)', s))
    BY <1>9
  <2>2. Waiting(j)' = Waiting(j)  BY <1>10
  <2> HIDE DEF F, G
  <2> QED  BY <2>1, <2>2
<1>12. ASSUME NEW s \in Symbols
       PROVE  Absent(G[<<i, s>>], n) /\ ~Once(G[<<i, s>>], n)
  <2>1. Of(Waiting(i)', s) = <<>>  BY <1>10 DEF Of
  <2>2. G[<<i, s>>] = ValIds(<<>>)
    <3> HIDE DEF G
    <3> QED  BY <1>9, <2>1
  <2>3. DOMAIN ValIds(<<>>) = {}  BY DEF ValIds
  <2> HIDE DEF G
  <2> QED  BY <2>2, <2>3 DEF Absent, Once
<1>13. \A s \in DOMAIN mem[i] : F[<<i, s>>] = f(s)
  <2>1. \A s \in DOMAIN mem[i] : Of(Waiting(i), s) = mem[i][s]  BY <1>10 DEF Of
  <2> HIDE DEF F
  <2> QED  BY <1>4, <1>9, <2>1
<1>14. \A s \in Symbols \ DOMAIN mem[i] : Absent(F[<<i, s>>], n) /\ ~Once(F[<<i, s>>], n)
  <2> TAKE s \in Symbols \ DOMAIN mem[i]
  <2>1. F[<<i, s>>] = ValIds(<<>>)
    <3>1. Of(Waiting(i), s) = <<>>  BY <1>10 DEF Of
    <3> HIDE DEF F
    <3> QED  BY <1>9, <3>1
  <2>2. DOMAIN ValIds(<<>>) = {}  BY DEF ValIds
  <2> HIDE DEF F
  <2> QED  BY <2>1, <2>2 DEF Absent, Once

\* what is to be emitted, before and after
<1>15. /\ DOMAIN E = 1..Depth /\ DOMAIN H = 1..Depth
       /\ \A j \in 1..Depth \ {i} : H[j] = E[j]
       /\ DOMAIN E[i] = {} /\ DOMAIN H[i] = new /\ \A v \in new : H[i][v] = v.ids
  <2>1. \A j \in 1..Depth : emits'[j] = IF j = i THEN new ELSE emits[j]
    <3> HIDE DEF new
    <3> QED  BY <1>1, <1>3
  <2>2. DOMAIN H = 1..Depth /\ \A j \in 1..Depth : H[j] = [v \in emits'[j] |-> v.ids]
    BY <1>2 DEF EmitIds
  <2>3. DOMAIN E = 1..Depth /\ \A j \in 1..Depth : E[j] = [v \in emits[j] |-> v.ids]
    BY DEF EmitIds
  <2> HIDE DEF new, E, H
  <2> QED  BY <1>1, <2>1, <2>2, <2>3
<1>16. /\ WNone(n) <=> NoneAmong(F, n)
       /\ WOnce(n) <=> OnceAmong(F, n)
       /\ WNone(n)' <=> NoneAmong(G, n)
       /\ WOnce(n)' <=> OnceAmong(G, n)
       /\ ENone(n) <=> NoneAmong(E, n)
       /\ EOnce(n) <=> OnceAmong(E, n)
       /\ ENone(n)' <=> NoneAmong(H, n)
       /\ EOnce(n)' <=> OnceAmong(H, n)
  BY DEF WNone, WOnce, ENone, EOnce
<1> HIDE DEF F, G, E, H
<1>17. ASSUME NEW s \in full PROVE Bucket(i, s) \in new /\ s \in DOMAIN mem[i] /\ s \in Symbols
  BY <1>4
<1>18. ASSUME NEW v \in new PROVE \E s \in full : v = Bucket(i, s)  OBVIOUS
<1> HIDE DEF full, new, f
\* n is in no bucket of i
<1>19. (\A s \in DOMAIN mem[i] : Absent(f(s), n)) => Absent(H[i], n)
  <2> SUFFICES ASSUME \A s \in DOMAIN mem[i] : Absent(f(s), n), NEW v \in new
               PROVE  \A j \in DOMAIN v.ids : v.ids[j] # n
    BY <1>15 DEF Absent
  <2>1. PICK s \in full : v = Bucket(i, s)  BY <1>18
  <2>2. Absent(b(s), n)  BY <1>5, <1>17
  <2> QED  BY <2>1, <2>2, SingleHolds
<1>20. WNone(n) /\ ENone(n) => WNone(n)' /\ ENone(n)'
  <2> SUFFICES ASSUME NoneAmong(F, n), NoneAmong(E, n) PROVE NoneAmong(G, n) /\ NoneAmong(H, n)
    BY <1>16
  <2>1. \A s \in DOMAIN mem[i] : Absent(f(s), n)  BY <1>4, <1>8, <1>13 DEF NoneAmong
  <2>2. NoneAmong(H, n)  BY <1>15, <1>19, <2>1 DEF NoneAmong
  <2>3. ASSUME NEW y \in D PROVE Absent(G[y], n)
    <3>1. PICK j \in 1..Depth, s \in Symbols : y = <<j, s>>  OBVIOUS
    <3>2. Absent(F[<<j, s>>], n)  BY <1>8 DEF NoneAmong
    <3> QED  BY <1>11, <1>12, <3>1, <3>2
  <2> QED  BY <1>8, <2>2, <2>3 DEF NoneAmong
<1>21. WNone(n) /\ EOnce(n) => WNone(n)' /\ EOnce(n)'
  <2> SUFFICES ASSUME NoneAmong(F, n), OnceAmong(E, n) PROVE NoneAmong(G, n) /\ OnceAmong(H, n)
    BY <1>16
  <2>1. \A s \in DOMAIN mem[i] : Absent(f(s), n)  BY <1>4, <1>8, <1>13 DEF NoneAmong
  <2>2. Absent(H[i], n)  BY <1>19, <2>1
  <2>3. PICK j \in 1..Depth : Once(E[j], n) /\ \A k \in 1..Depth \ {j} : Absent(E[k], n)
    BY <1>15 DEF OnceAmong
  <2>4. j # i
    <3>1. ~Once(E[i], n)  BY <1>15 DEF Once
    <3> QED  BY <2>3, <3>1
  <2>5. Once(H[j], n) /\ \A k \in 1..Depth \ {j} : Absent(H[k], n)
    BY <1>15, <2>2, <2>3, <2>4
  <2>6. OnceAmong(H, n)  BY <1>15, <2>5 DEF OnceAmong
  <2>7. ASSUME NEW y \in D PROVE Absent(G[y], n)
    <3>1. PICK k \in 1..Depth, s \in Symbols : y = <<k, s>>  OBVIOUS
    <3>2. Absent(F[<<k, s>>], n)  BY <1>8 DEF NoneAmong
    <3> QED  BY <1>11, <1>12, <3>1, <3>2
  <2> QED  BY <1>8, <2>6, <2>7 DEF NoneAmong
<1>22. ASSUME OnceAmong(F, n), NoneAmong(E, n)
       PROVE  \/ OnceAmong(G, n) /\ NoneAmong(H, n)
              \/ NoneAmong(G, n) /\ OnceAmong(H, n)
  <2>1. PICK y \in D : Once(F[y], n) /\ \A z \in D \ {y} : Absent(F[z], n)
    BY <1>8, <1>22 DEF OnceAmong
  <2>2. PICK k \in 1..Depth, s \in Symbols : y = <<k, s>>  OBVIOUS
  <2>3. \A j \in 1..Depth \ {i} : Absent(H[j], n)  BY <1>15, <1>22 DEF NoneAmong
  <2>4. CASE k # i
    <3>1. Once(G[y], n)  BY <1>11, <2>1, <2>2, <2>4
    <3>2. ASSUME NEW z \in D \ {y} PROVE Absent(G[z], n)
      <4>1. PICK j \in 1..Depth, r \in Symbols : z = <<j, r>>  OBVIOUS
      <4>2. Absent(F[z], n)  BY <2>1
      <4> QED  BY <1>11, <1>12, <4>1, <4>2
    <3>3. OnceAmong(G, n)  BY <1>8, <3>1, <3>2 DEF OnceAmong
    <3>4. ASSUME NEW r \in DOMAIN mem[i] PROVE Absent(f(r), n)
      <4>1. r \in Symbols /\ <<i, r>> \in D /\ <<i, r>> # y  BY <1>4, <2>2, <2>4
      <4> QED  BY <1>13, <2>1, <4>1
    <3>5. NoneAmong(H, n)  BY <1>15, <1>19, <2>3, <3>4 DEF NoneAmong
    <3> QED  BY <3>3, <3>5
  <2>5. CASE k = i
    <3>1. ASSUME NEW z \in D PROVE Absent(G[z], n)
      <4>1. PICK j \in 1..Depth, r \in Symbols : z = <<j, r>>  OBVIOUS
      <4>2. CASE j = i  BY <1>12, <4>1, <4>2
      <4>3. CASE j # i
        <5>1. z # y  BY <2>2, <2>5, <4>1, <4>3
        <5> QED  BY <1>11, <2>1, <4>1, <4>3, <5>1
      <4> QED  BY <4>2, <4>3
    <3>2. NoneAmong(G, n)  BY <1>8, <3>1 DEF NoneAmong
    <3>3. s \in DOMAIN mem[i]  BY <1>14, <2>1, <2>2, <2>5
    <3>4. Once(f(s), n)  BY <1>13, <2>1, <2>2, <2>5, <3>3
    <3>5. s \in full  BY <1>6, <3>3, <3>4
    <3>6. \A r \in DOMAIN mem[i] \ {s} : Absent(f(r), n)
      <4> TAKE r \in DOMAIN mem[i] \ {s}
      <4>1. r \in Symbols /\ <<i, r>> \in D /\ <<i, r>> # y  BY <1>4, <2>2
      <4> QED  BY <1>13, <2>1, <4>1
    <3> DEFINE v == Bucket(i, s)
    <3>7. v \in new /\ H[i][v] = v.ids  BY <1>15, <1>17, <3>5
    <3>8. Once(b(s), n)  BY <1>5, <3>3, <3>4
    <3>9. PICK j \in DOMAIN v.ids : v.ids[j] = n /\ \A q \in DOMAIN v.ids : v.ids[q] = n => q = j
      BY <3>8, SingleHolds
    <3>10. ASSUME NEW w \in new, NEW q \in DOMAIN w.ids, w.ids[q] = n PROVE w = v /\ q = j
      <4>1. PICK r \in full : w = Bucket(i, r)  BY <1>18
      <4>2. CASE r = s  BY <3>9, <3>10, <4>1, <4>2
      <4>3. CASE r # s
        <5>1. r \in DOMAIN mem[i] \ {s}  BY <1>17, <4>3
        <5>2. Absent(b(r), n)  BY <1>5, <3>6, <5>1
        <5>3. \A x \in DOMAIN w.ids : w.ids[x] # n  BY <4>1, <5>2, SingleHolds
        <5> QED  BY <3>10, <5>3
      <4> QED  BY <4>2, <4>3
    <3> HIDE DEF v
    <3>11. Once(H[i], n)
      <4>1. \A w \in new : H[i][w] = w.ids  BY <1>15
      <4>2. \A w \in DOMAIN H[i] : \A q \in DOMAIN H[i][w] : H[i][w][q] = n => w = v /\ q = j
        BY <1>15, <3>10
      <4>3. v \in DOMAIN H[i] /\ j \in DOMAIN H[i][v] /\ H[i][v][j] = n  BY <1>15, <3>7, <3>9
      <4> QED  BY <4>2, <4>3, Zenon DEF Once
    <3>12. OnceAmong(H, n)  BY <1>15, <2>3, <3>11 DEF OnceAmong
    <3> QED  BY <3>2, <3>12
  <2> QED  BY <2>4, <2>5
<1>23. WOnce(n) /\ ENone(n) => (WOnce(n)' /\ ENone(n)') \/ (WNone(n)' /\ EOnce(n)')
  BY <1>16, <1>22
<1>24. StackIds' = StackIds  BY <1>1 DEF StackIds
<1>25. n \in lost' <=> n \in lost  BY <1>1
<1> QED  BY <1>1, <1>20, <1>21, <1>23, <1>24, <1>25, QSame, SSame, DSame DEF Keeps, InOnePlace, Nowhere

\* Every step of a worker moves a value or leaves it where it is.
LEMMA WorkKeeps ==
    ASSUME Shape, NEW t \in Threads, Work(t), NEW n \in Ids
    PROVE  Keeps(n)
<1>1. CASE Take(t)  BY <1>1, TakeKeeps
<1>2. CASE ~Take(t)
  <2> DEFINE i == Top(t).node
             v == Top(t).val
  <2>1. stack[t] # <<>>
    BY <1>2 DEF Work, OnWorker, OnAggregate, OnWindow, OnReducer, OnAccessor, OnSource,
       OnSplit, OnSplitInsert, OnResponder, At
  <2>2. UNCHANGED <<pipe, fed, queue, emits>>
    BY <1>2 DEF Work, OnWorker, OnAggregate, OnWindow, OnReducer,
       OnAccessor, OnSource, OnSplit, OnSplitInsert, OnResponder, Outside
  <2>3. /\ Top(t) \in Calls /\ v \in Value /\ i \in 1..(Depth + 1)
        /\ v.ids \in Seq(Ids) /\ v.sym \in Symbols
        /\ Kind(i) # "Responder" => i \in 1..Depth
    BY <2>1, TopFacts
  <2>4. MemOK(mem)  BY DEF Shape, FlowOK
  <2>5. ASSUME Swallow(t), WaitIds' = WaitIds, sent' = sent PROVE Keeps(n)
    BY <2>1, <2>2, <2>5, SwallowKeeps
  <2>6. ASSUME NEW w \in Value, w.ids = v.ids, i \in 1..Depth, Forward(t, <<w>>),
               WaitIds' = WaitIds, sent' = sent
        PROVE  Keeps(n)
    <3>1. StackIds' = StackIds /\ lost' = lost  BY <2>1, <2>6, ForwardIds
    <3> QED  BY <2>2, <2>6, <3>1, AllSame
  <2>7. ASSUME NEW s \in Symbols, NEW ids \in Seq(Ids), NEW of \in SUBSET Ids
        PROVE  Scalar(s, ids, of) \in Value /\ Scalar(s, ids, of).ids = ids
    BY ScalarValue DEF Scalar
  <2>8. mem' = mem => WaitIds' = WaitIds  BY <2>2, WaitSame
  <2>9. ASSUME NEW x, mem' = [mem EXCEPT ![i] = Put(@, v.sym, x)],
               Kind(i) \notin {"Aggregate", "TumblingWindow"}
        PROVE  WaitIds' = WaitIds
    <3> DEFINE y == Put(mem[i], v.sym, x)
    <3>1. mem' = [mem EXCEPT ![i] = y]  BY <2>9
    <3> HIDE DEF y, i
    <3> QED  BY <2>2, <2>9, <3>1, WaitSame
  <2>10. ASSUME NEW port \in {"own", "child"}, NEW k \in {"Worker", "AtomicAccessor"}, At(t, k, port)
         PROVE  i \in 1..Depth /\ Kind(i) \notin {"Aggregate", "TumblingWindow"}
    <3>1. CASE port = "own"
      <4>1. Kind(i) = k  BY <2>10, <3>1 DEF At
      <4> QED  BY <2>3, <4>1
    <3>2. CASE port = "child"
      <4>1. Top(t).port = "child"  BY <2>10, <3>2 DEF At
      <4>2. Kind(i) = "GroupSplit"  BY <2>3, <4>1 DEF Calls
      <4> QED  BY <2>3, <4>2
    <3> QED  BY <3>1, <3>2
  <2>11. ASSUME NEW port \in {"own", "child"}, OnWorker(t, port) PROVE Keeps(n)
    <3> DEFINE acc == Accumulated(mem[i], v)
               o == UNION {x.of : x \in Range(acc)}
               w == Scalar(v.sym, v.ids, o)
    <3>1. i \in 1..Depth /\ Kind(i) \notin {"Aggregate", "TumblingWindow"}
      BY <2>10, <2>11 DEF OnWorker
    <3>2. acc \in Seq(Value)  BY <2>3, <2>4, <3>1, AccumulatedShape
    <3>3. sent' = sent  BY <2>11 DEF OnWorker
    <3>4. \/ Swallow(t) /\ mem' = mem
          \/ mem' = [mem EXCEPT ![i] = Put(@, v.sym, acc)] /\ Forward(t, <<w>>)
          \/ Swallow(t) /\ mem' = [mem EXCEPT ![i] = Put(@, v.sym, Front(acc))]
      BY <2>11 DEF OnWorker
    <3> HIDE DEF acc
    <3>5. o \in SUBSET Ids  BY <3>2, OfIds
    <3> HIDE DEF o
    <3>6. w \in Value /\ w.ids = v.ids  BY <2>3, <2>7, <3>5
    <3>7. WaitIds' = WaitIds  BY <2>8, <2>9, <3>1, <3>4
    <3> HIDE DEF w
    <3> QED  BY <2>5, <2>6, <3>1, <3>3, <3>4, <3>6, <3>7
  <2>12. CASE OnAggregate(t)
    <3> DEFINE o == Of(mem[i], v.sym)
               buf == Batch(i, v)
               vs == [k \in DOMAIN buf |-> [buf[k] EXCEPT !.sym = v.sym]]
    <3>1. Kind(i) = "Aggregate" /\ i \in 1..Depth
      <4>1. Kind(i) = "Aggregate"  BY <2>12 DEF OnAggregate, At
      <4> QED  BY <2>3, <4>1
    <3>2. o \in Seq(Value) /\ buf = Append(o, v)  BY <2>4, <3>1, OfFacts DEF Batch
    <3>3. buf \in Seq(Value)
      <4> HIDE DEF o, buf, v
      <4> QED  BY <2>3, <3>2
    <3>4. vs \in Seq(Value) /\ ValIds(vs) = ValIds(buf)
      <4> HIDE DEF buf, v
      <4>1. ASSUME NEW x \in Value
            PROVE  [x EXCEPT !.sym = v.sym] \in Value /\ [x EXCEPT !.sym = v.sym].ids = x.ids
        BY <2>3 DEF Value
      <4>2. Len(buf) \in Nat /\ DOMAIN buf = 1..Len(buf) /\ \A k \in 1..Len(buf) : buf[k] \in Value
        BY <3>3
      <4>3. \A k \in 1..Len(buf) : /\ [buf[k] EXCEPT !.sym = v.sym] \in Value
                                   /\ [buf[k] EXCEPT !.sym = v.sym].ids = buf[k].ids
        BY <4>1, <4>2
      <4>4. vs \in Seq(Value)  BY <4>2, <4>3
      <4>5. DOMAIN vs = DOMAIN buf /\ \A k \in DOMAIN buf : vs[k].ids = buf[k].ids  BY <4>2, <4>3
      <4> HIDE DEF vs
      <4>6. ValIds(vs) = ValIds(buf)  BY <4>5, Zenon DEF ValIds
      <4> QED  BY <4>4, <4>6
    <3>5. sent' = sent  BY <2>12 DEF OnAggregate
    <3>6. \/ Swallow(t) /\ mem' = mem
          \/ mem' = [mem EXCEPT ![i] = Put(@, v.sym, buf)] /\ Become(t, Tail(stack[t])) /\ lost' = lost
          \/ mem' = [mem EXCEPT ![i] = Put(@, v.sym, <<>>)] /\ Forward(t, vs)
      BY <2>12 DEF OnAggregate
    <3>7. CASE Swallow(t) /\ mem' = mem  BY <2>5, <2>8, <3>5, <3>7
    <3>8. CASE mem' = [mem EXCEPT ![i] = Put(@, v.sym, buf)] /\ Become(t, Tail(stack[t])) /\ lost' = lost
      <4>1. mem' = [mem EXCEPT ![Top(t).node] =
                      Put(@, Top(t).val.sym, Append(Of(mem[Top(t).node], Top(t).val.sym), Top(t).val))]
        BY <3>2, <3>8
      <4> QED  BY <2>1, <2>2, <3>1, <3>5, <3>8, <4>1, WaitKeeps
    <3>9. CASE mem' = [mem EXCEPT ![i] = Put(@, v.sym, <<>>)] /\ Forward(t, vs)
      <4>1. ValIds(vs) = ValIds(Batch(Top(t).node, Top(t).val))  BY <3>4
      <4>2. mem' = [mem EXCEPT ![Top(t).node] = Put(@, Top(t).val.sym, <<>>)]  BY <3>9
      <4>3. Top(t).node \in 1..Depth /\ Kind(Top(t).node) \in {"Aggregate", "TumblingWindow"}  BY <3>1
      <4> HIDE DEF vs, i, v
      <4> QED  BY <2>1, <2>2, <3>4, <3>5, <3>9, <4>1, <4>2, <4>3, BatchKeeps
    <3> QED  BY <3>6, <3>7, <3>8, <3>9
  <2>13. CASE OnWindow(t)
    <3>1. Kind(i) = "TumblingWindow" /\ i \in 1..Depth
      <4>1. Kind(i) = "TumblingWindow"  BY <2>13 DEF OnWindow, At
      <4> QED  BY <2>3, <4>1
    <3>2. sent' = sent  BY <2>13 DEF OnWindow
    <3> DEFINE x == Append(Of(mem[i], v.sym), v)
    <3>3. \/ Swallow(t) /\ mem' = mem
          \/ /\ mem' = [mem EXCEPT ![i] = Put(@, v.sym, x)]
             /\ Become(t, Tail(stack[t])) /\ lost' = lost
      <4>1. [mem EXCEPT ![i] = Put(@, v.sym, Append(Of(@, v.sym), v))]
              = [mem EXCEPT ![i] = Put(@, v.sym, x)]
        OBVIOUS
      <4> HIDE DEF x
      <4> QED  BY <2>13, <4>1 DEF OnWindow
    <3>4. CASE Swallow(t) /\ mem' = mem  BY <2>5, <2>8, <3>2, <3>4
    <3>5. CASE /\ mem' = [mem EXCEPT ![i] = Put(@, v.sym, x)]
               /\ Become(t, Tail(stack[t])) /\ lost' = lost
      BY <2>1, <2>2, <3>1, <3>2, <3>5, WaitKeeps
    <3> QED  BY <3>3, <3>4, <3>5
  <2>14. CASE OnReducer(t)
    <3>1. i \in 1..Depth
      <4>1. Kind(i) # "Responder"  BY <2>14 DEF OnReducer, At
      <4> QED  BY <2>3, <4>1
    <3> DEFINE w == Scalar(v.sym, v.ids, v.of)
    <3>2. w \in Value /\ w.ids = v.ids
      <4>1. v.of \in SUBSET Ids  BY <2>3 DEF Value
      <4> QED  BY <2>3, <2>7, <4>1
    <3>3. UNCHANGED <<mem, sent>> /\ (Forward(t, <<w>>) \/ Swallow(t))  BY <2>14 DEF OnReducer
    <3> HIDE DEF w
    <3> QED  BY <2>5, <2>6, <2>8, <3>1, <3>2, <3>3
  <2>15. ASSUME NEW port \in {"own", "child"}, OnAccessor(t, port) PROVE Keeps(n)
    <3>1. i \in 1..Depth  BY <2>10, <2>15 DEF OnAccessor
    <3> DEFINE w == Scalar(AccessorSymbol(t, port), v.ids, {})
    <3>2. AccessorSymbol(t, port) \in Symbols  BY <2>3, SymbolFacts DEF AccessorSymbol
    <3>3. w \in Value /\ w.ids = v.ids  BY <2>3, <2>7, <3>2
    <3>4. UNCHANGED <<mem, sent>> /\ (Forward(t, <<w>>) \/ Swallow(t))  BY <2>15 DEF OnAccessor
    <3> HIDE DEF w
    <3> QED  BY <2>5, <2>6, <2>8, <3>1, <3>3, <3>4
  <2>16. CASE OnSource(t)  BY <2>5, <2>8, <2>16 DEF OnSource
  <2>17. ASSUME NEW p \in {"child", "insert"}, Kind(i) = "GroupSplit",
                Become(t, <<[Top(t) EXCEPT !.port = p]>> \o Tail(stack[t]))
         PROVE  StackIds' = StackIds
    <3> DEFINE c == [Top(t) EXCEPT !.port = p]
    <3>1. c \in Calls /\ c.val.ids = Top(t).val.ids
      <4> DEFINE d == Top(t)
      <4> HIDE DEF d
      <4>1. d \in [node : 1..(Depth + 1), port : Ports, val : Value] /\ c = [d EXCEPT !.port = p]
        BY <2>3 DEF Calls, d
      <4>2. Kind(d.node) = "GroupSplit"  BY <2>17 DEF d
      <4>3. c \in [node : 1..(Depth + 1), port : Ports, val : Value]
            /\ c.node = d.node /\ c.port = p /\ c.val = d.val
        BY <4>1 DEF Ports
      <4> HIDE DEF c
      <4> QED  BY <4>2, <4>3 DEF Calls, d
    <3> HIDE DEF c
    <3>2. Become(t, <<c>> \o Tail(stack[t]))  BY <2>17 DEF c
    <3> QED  BY <2>1, <3>1, <3>2, SameIds
  <2>18. CASE OnSplit(t)
    <3>1. Kind(i) = "GroupSplit" /\ UNCHANGED <<mem, sent, lost>>  BY <2>18 DEF OnSplit, At
    <3>2. \E p \in {"child", "insert"} : Become(t, <<[Top(t) EXCEPT !.port = p]>> \o Tail(stack[t]))
      BY <2>18 DEF OnSplit
    <3>3. StackIds' = StackIds  BY <2>17, <3>1, <3>2
    <3> QED  BY <2>2, <2>8, <3>1, <3>3, AllSame
  <2>19. CASE OnSplitInsert(t)
    <3>1. Kind(i) = "GroupSplit"
      <4>1. Top(t).port = "insert"  BY <2>19 DEF OnSplitInsert, At
      <4> QED  BY <2>3, <4>1 DEF Calls
    <3>2. sent' = sent  BY <2>19 DEF OnSplitInsert
    <3>3. ToChild(t) => StackIds' = StackIds  BY <2>17, <3>1 DEF ToChild
    <3>4. \/ ToChild(t) /\ UNCHANGED <<mem, lost>>
          \/ Swallow(t) /\ mem' = mem
          \/ mem' = [mem EXCEPT ![i] = Put(@, v.sym, <<>>)] /\ ToChild(t) /\ lost' = lost
          \/ /\ Become(t, <<>>) /\ mem' = mem
             /\ lost' = lost \cup UNION {Range(c.val.ids) : c \in Range(stack[t])}
      BY <2>19 DEF OnSplitInsert
    <3>5. WaitIds' = WaitIds  BY <2>8, <2>9, <3>1, <3>4
    <3>6. CASE ToChild(t) /\ lost' = lost  BY <2>2, <3>2, <3>3, <3>5, <3>6, AllSame
    <3>7. CASE Swallow(t)  BY <2>5, <3>2, <3>5, <3>7
    <3>8. CASE /\ Become(t, <<>>)
               /\ lost' = lost \cup UNION {Range(c.val.ids) : c \in Range(stack[t])}
      BY <2>2, <3>2, <3>5, <3>8, ThrowKeeps
    <3> QED  BY <3>4, <3>6, <3>7, <3>8
  <2>20. CASE OnResponder(t)  BY <2>20, RespondKeeps
  <2> QED  BY <1>2, <2>11, <2>12, <2>13, <2>14, <2>15, <2>16, <2>18, <2>19, <2>20 DEF Work
<1> QED  BY <1>1, <1>2

\* Every step keeps track of every value.
LEMMA TrackedStep == Shape /\ Tracked /\ [Next]_vars => Tracked'
<1> SUFFICES ASSUME Shape, Tracked, [Next]_vars PROVE Tracked'  OBVIOUS
<1>0. /\ LifeOK /\ pipe \in Pipelines /\ Depth \in Nat /\ timers \subseteq 1..Depth
      /\ fed \in Seq(Symbols) /\ MaxFed \in Nat
  BY PipeFacts, ChainAssumption DEF Shape, LifeOK, FlowOK
<1>1. ASSUME fed' = fed, \A n \in Ids : Keeps(n) PROVE Tracked'
  BY <1>1 DEF Tracked, Keeps
<1>2. ASSUME UNCHANGED <<pipe, fed, queue, stack, mem, emits, sent, lost>> PROVE Tracked'
  <2>1. StackIds' = StackIds  BY <1>2 DEF StackIds
  <2>2. WaitIds' = WaitIds  BY <1>2, WaitSame
  <2> QED  BY <1>1, <1>2, <2>1, <2>2, AllSame
<1>3. CASE BuildStage \/ BuildThrows \/ CreateHead \/ RejectHead \/ Release
  BY <1>2, <1>3 DEF BuildStage, BuildThrows, CreateHead, RejectHead, Release, flow
<1>4. ASSUME NEW i, NEW port, NEW s \in Symbols, Hear(i, port, s),
             \A v \in Value : Call(i, port, v) \in Calls
      PROVE  Tracked'
  <2>1. Fresh \in Ids  BY <1>0, <1>4 DEF Hear, Fresh, Ids
  <2>2. <<Fresh>> \in Seq(Ids) /\ {Fresh} \in SUBSET Ids  BY <2>1
  <2>3. Scalar(s, <<Fresh>>, {Fresh}) \in Value  BY <2>2, ScalarValue
  <2> QED  BY <1>4, <2>3, HearTracks
<1>5. CASE HeadHears
  <2>1. ASSUME NEW v \in Value PROVE Call(1, "own", v) \in Calls
    BY <1>0 DEF Calls, Call, Ports
  <2> QED  BY <1>4, <1>5, <2>1, SymbolFacts DEF HeadHears
<1>6. ASSUME NEW is \in inputs, InputHears(is[1], is[2]) PROVE Tracked'
  <2>1. is[1] \in 1..Depth /\ is[2] \in Symbols /\ Kind(is[1]) = "Aggregate"
    BY <1>0 DEF LifeOK
  <2>2. ASSUME NEW v \in Value PROVE Call(is[1], "input", v) \in Calls
    BY <1>0, <2>1 DEF Calls, Call, Ports
  <2> QED  BY <1>4, <1>6, <2>1, <2>2 DEF InputHears
<1>7. ASSUME NEW i \in timers, IntervalTick(i) \/ BucketTick(i) PROVE Tracked'
  <2>1. ASSUME NEW v \in Value PROVE Call(i + 1, "own", v) \in Calls
    BY <1>0 DEF Calls, Call, Ports
  <2> QED  BY <1>4, <1>7, <2>1, SymbolFacts DEF IntervalTick, BucketTick
<1>8. ASSUME NEW i \in timers, FlushWindow(i) PROVE Tracked'
  <2>1. i \in 1..Depth /\ fed' = fed  BY <1>0, <1>8 DEF FlushWindow
  <2> QED  BY <1>1, <1>8, <2>1, FlushKeeps
<1>9. ASSUME NEW i \in timers, PostWindow(i) PROVE Tracked'
  <2>1. i \in 1..Depth /\ fed' = fed  BY <1>0, <1>9 DEF PostWindow
  <2> QED  BY <1>1, <1>9, <2>1, PostKeeps
<1>10. ASSUME NEW t \in Threads, Work(t) PROVE Tracked'
  <2>1. fed' = fed
    BY <1>10 DEF Work, Take, OnWorker, OnAggregate, OnWindow, OnReducer,
       OnAccessor, OnSource, OnSplit, OnSplitInsert, OnResponder, Outside
  <2> QED  BY <1>1, <1>10, <2>1, WorkKeeps
<1>11. CASE UNCHANGED vars  BY <1>2, <1>11 DEF vars, flow
<1> QED  BY <1>3, <1>5, <1>6, <1>7, <1>8, <1>9, <1>10, <1>11 DEF Next, WindowTimer

-----------------------------------------------------------------------------
(* The places of a value                                                   *)

\* The parts of Places.
InQueue(n) == UNION {{<<"queue", k, j>> : j \in Spots(queue[k].val, n)} : k \in DOMAIN queue}
OnStack(n) == UNION {UNION {{<<t, k, j>> : j \in Spots(stack[t][k].val, n)} :
                        k \in DOMAIN stack[t]} : t \in Threads}
InWait(n) == UNION {UNION {UNION {{<<i, s, k, j>> : j \in Spots(Waiting(i)[s][k], n)} :
                        k \in DOMAIN Waiting(i)[s]} : s \in DOMAIN Waiting(i)} : i \in 1..Depth}
ToEmit(n) == UNION {UNION {{<<i, v, j>> : j \in Spots(v, n)} : v \in emits[i]} : i \in 1..Depth}
SentPlace(n) == {<<"sent", k>> : k \in 1..sent[n]}
LostPlace(n) == {<<"lost", k>> : k \in lost \cap {n}}

\* S has one element.
Lone(S) == \E p : S = {p}

\* What all elements are equal to is the only one.
LEMMA LoneIn ==
    ASSUME NEW S, NEW p \in S, \A q \in S : q = p
    PROVE  Lone(S)
<1>1. S = {p}  OBVIOUS
<1> QED  BY <1>1 DEF Lone

\* The places of the queue.
LEMMA QueuePlaces ==
    ASSUME NEW n
    PROVE  (QNone(n) => InQueue(n) = {}) /\ (QOnce(n) => Lone(InQueue(n)))
<1> DEFINE f == CallIds(queue)
<1>1. DOMAIN f = DOMAIN queue /\ \A k \in DOMAIN queue : f[k] = queue[k].val.ids  BY DEF CallIds
<1>2. ASSUME NEW p \in InQueue(n)
      PROVE  \E k \in DOMAIN f : \E j \in DOMAIN f[k] : f[k][j] = n /\ p = <<"queue", k, j>>
  BY <1>1 DEF InQueue, Spots
<1>3. ASSUME NEW k \in DOMAIN f, NEW j \in DOMAIN f[k], f[k][j] = n
      PROVE  <<"queue", k, j>> \in InQueue(n)
  <2>1. j \in Spots(queue[k].val, n)  BY <1>1, <1>3 DEF Spots
  <2> DEFINE A(x) == {<<"queue", x, y>> : y \in Spots(queue[x].val, n)}
  <2>2. <<"queue", k, j>> \in A(k)  BY <2>1
  <2>3. k \in DOMAIN queue  BY <1>1
  <2>4. InQueue(n) = UNION {A(x) : x \in DOMAIN queue}  BY DEF InQueue
  <2> HIDE DEF A
  <2> QED  BY <2>2, <2>3, <2>4
<1>4. (QNone(n) <=> Absent(f, n)) /\ (QOnce(n) <=> Once(f, n))  BY DEF QNone, QOnce
<1> HIDE DEF f
<1>5. QNone(n) => InQueue(n) = {}  BY <1>2, <1>4 DEF Absent
<1>6. ASSUME Once(f, n) PROVE Lone(InQueue(n))
  <2>1. PICK k \in DOMAIN f : \E j \in DOMAIN f[k] :
               /\ f[k][j] = n
               /\ \A k2 \in DOMAIN f : \A j2 \in DOMAIN f[k2] : f[k2][j2] = n => k2 = k /\ j2 = j
    BY <1>6 DEF Once
  <2>2. PICK j \in DOMAIN f[k] :
               /\ f[k][j] = n
               /\ \A k2 \in DOMAIN f : \A j2 \in DOMAIN f[k2] : f[k2][j2] = n => k2 = k /\ j2 = j
    BY <2>1
  <2>3. <<"queue", k, j>> \in InQueue(n)  BY <1>3, <2>2
  <2>4. ASSUME NEW p \in InQueue(n) PROVE p = <<"queue", k, j>>  BY <1>2, <2>2
  <2> QED  BY <2>3, <2>4, LoneIn
<1> QED  BY <1>4, <1>5, <1>6

\* The places on the stacks.
LEMMA StackPlaces ==
    ASSUME NEW n
    PROVE  (SNone(n) => OnStack(n) = {}) /\ (SOnce(n) => Lone(OnStack(n)))
<1> DEFINE F == StackIds
<1>1. /\ DOMAIN F = Threads
      /\ \A t \in Threads : DOMAIN F[t] = DOMAIN stack[t]
                            /\ \A k \in DOMAIN stack[t] : F[t][k] = stack[t][k].val.ids
  BY DEF StackIds, CallIds
<1> HIDE DEF F
<1>2. ASSUME NEW p \in OnStack(n)
      PROVE  \E t \in Threads : \E k \in DOMAIN F[t] : \E j \in DOMAIN F[t][k] :
                F[t][k][j] = n /\ p = <<t, k, j>>
  <2>1. PICK t \in Threads : p \in UNION {{<<t, k, j>> : j \in Spots(stack[t][k].val, n)} :
                                            k \in DOMAIN stack[t]}
    BY DEF OnStack
  <2>2. PICK k \in DOMAIN stack[t] : p \in {<<t, k, j>> : j \in Spots(stack[t][k].val, n)}  BY <2>1
  <2> QED  BY <1>1, <2>2 DEF Spots
<1>3. ASSUME NEW t \in Threads, NEW k \in DOMAIN F[t], NEW j \in DOMAIN F[t][k], F[t][k][j] = n
      PROVE  <<t, k, j>> \in OnStack(n)
  <2>1. k \in DOMAIN stack[t] /\ j \in Spots(stack[t][k].val, n)  BY <1>1, <1>3 DEF Spots
  <2> DEFINE A(x) == {<<t, x, y>> : y \in Spots(stack[t][x].val, n)}
             B(u) == UNION {{<<u, x, y>> : y \in Spots(stack[u][x].val, n)} : x \in DOMAIN stack[u]}
  <2>2. <<t, k, j>> \in A(k)  BY <2>1
  <2>3. B(t) = UNION {A(x) : x \in DOMAIN stack[t]}  OBVIOUS
  <2>4. OnStack(n) = UNION {B(u) : u \in Threads}  BY DEF OnStack
  <2> HIDE DEF A, B
  <2> QED  BY <2>1, <2>2, <2>3, <2>4
<1>4. (SNone(n) <=> NoneAmong(F, n)) /\ (SOnce(n) <=> OnceAmong(F, n))  BY DEF SNone, SOnce, F
<1>5. SNone(n) => OnStack(n) = {}  BY <1>1, <1>2, <1>4 DEF NoneAmong, Absent
<1>6. ASSUME OnceAmong(F, n) PROVE Lone(OnStack(n))
  <2>1. PICK t \in Threads : Once(F[t], n) /\ \A u \in Threads \ {t} : Absent(F[u], n)
    BY <1>1, <1>6 DEF OnceAmong
  <2>2. PICK k \in DOMAIN F[t] : \E j \in DOMAIN F[t][k] :
               /\ F[t][k][j] = n
               /\ \A k2 \in DOMAIN F[t] : \A j2 \in DOMAIN F[t][k2] : F[t][k2][j2] = n => k2 = k /\ j2 = j
    BY <2>1 DEF Once
  <2>3. PICK j \in DOMAIN F[t][k] :
               /\ F[t][k][j] = n
               /\ \A k2 \in DOMAIN F[t] : \A j2 \in DOMAIN F[t][k2] : F[t][k2][j2] = n => k2 = k /\ j2 = j
    BY <2>2
  <2>4. <<t, k, j>> \in OnStack(n)  BY <1>3, <2>3
  <2>5. ASSUME NEW p \in OnStack(n) PROVE p = <<t, k, j>>
    <3>1. PICK u \in Threads : \E k2 \in DOMAIN F[u] : \E j2 \in DOMAIN F[u][k2] :
                                  F[u][k2][j2] = n /\ p = <<u, k2, j2>>
      BY <1>2
    <3>2. u = t  BY <2>1, <3>1 DEF Absent
    <3> QED  BY <2>3, <3>1, <3>2
  <2> QED  BY <2>4, <2>5, LoneIn
<1> QED  BY <1>4, <1>5, <1>6

\* The places in the buffers and buckets.
LEMMA WaitPlaces ==
    ASSUME Shape, NEW n
    PROVE  (WNone(n) => InWait(n) = {}) /\ (WOnce(n) => Lone(InWait(n)))
<1> DEFINE F == WaitIds
           D == (1..Depth) \X Symbols
<1>0. \A i \in 1..Depth : DOMAIN Waiting(i) \subseteq Symbols
  BY DEF Shape, FlowOK, MemOK, Waiting
<1>1. DOMAIN F = D  BY DEF WaitIds
<1>2. ASSUME NEW i \in 1..Depth, NEW s \in Symbols
      PROVE  F[<<i, s>>] = ValIds(Of(Waiting(i), s))
  BY DEF WaitIds
<1> HIDE DEF F
<1>3. ASSUME NEW i \in 1..Depth, NEW s \in DOMAIN Waiting(i)
      PROVE  /\ DOMAIN F[<<i, s>>] = DOMAIN Waiting(i)[s]
             /\ \A k \in DOMAIN Waiting(i)[s] : F[<<i, s>>][k] = Waiting(i)[s][k].ids
  <2>1. F[<<i, s>>] = ValIds(Waiting(i)[s])  BY <1>0, <1>2 DEF Of
  <2> QED  BY <2>1 DEF ValIds
<1>4. ASSUME NEW i \in 1..Depth, NEW s \in Symbols \ DOMAIN Waiting(i)
      PROVE  DOMAIN F[<<i, s>>] = {}
  <2>1. F[<<i, s>>] = ValIds(<<>>)  BY <1>2 DEF Of
  <2> QED  BY <2>1 DEF ValIds
<1>5. ASSUME NEW p \in InWait(n)
      PROVE  \E i \in 1..Depth, s \in Symbols : \E k \in DOMAIN F[<<i, s>>] :
                \E j \in DOMAIN F[<<i, s>>][k] : F[<<i, s>>][k][j] = n /\ p = <<i, s, k, j>>
  <2>1. PICK i \in 1..Depth : p \in UNION {UNION {{<<i, s, k, j>> : j \in Spots(Waiting(i)[s][k], n)} :
                                    k \in DOMAIN Waiting(i)[s]} : s \in DOMAIN Waiting(i)}
    BY DEF InWait
  <2>2. PICK s \in DOMAIN Waiting(i) : p \in UNION {{<<i, s, k, j>> : j \in Spots(Waiting(i)[s][k], n)} :
                                    k \in DOMAIN Waiting(i)[s]}
    BY <2>1
  <2>3. PICK k \in DOMAIN Waiting(i)[s] : p \in {<<i, s, k, j>> : j \in Spots(Waiting(i)[s][k], n)}
    BY <2>2
  <2>4. PICK j \in Spots(Waiting(i)[s][k], n) : p = <<i, s, k, j>>  BY <2>3
  <2>5. s \in Symbols /\ k \in DOMAIN F[<<i, s>>] /\ j \in DOMAIN F[<<i, s>>][k] /\ F[<<i, s>>][k][j] = n
    BY <1>0, <1>3, <2>4 DEF Spots
  <2> QED  BY <2>4, <2>5
<1>6. ASSUME NEW i \in 1..Depth, NEW s \in Symbols, NEW k \in DOMAIN F[<<i, s>>],
             NEW j \in DOMAIN F[<<i, s>>][k], F[<<i, s>>][k][j] = n
      PROVE  <<i, s, k, j>> \in InWait(n)
  <2>1. s \in DOMAIN Waiting(i)  BY <1>4
  <2>2. k \in DOMAIN Waiting(i)[s] /\ j \in Spots(Waiting(i)[s][k], n)  BY <1>3, <1>6, <2>1 DEF Spots
  <2> DEFINE A(x) == {<<i, s, x, y>> : y \in Spots(Waiting(i)[s][x], n)}
             B(r) == UNION {{<<i, r, x, y>> : y \in Spots(Waiting(i)[r][x], n)} : x \in DOMAIN Waiting(i)[r]}
             C(u) == UNION {UNION {{<<u, r, x, y>> : y \in Spots(Waiting(u)[r][x], n)} :
                        x \in DOMAIN Waiting(u)[r]} : r \in DOMAIN Waiting(u)}
  <2>3. <<i, s, k, j>> \in A(k)  BY <2>2
  <2>4. B(s) = UNION {A(x) : x \in DOMAIN Waiting(i)[s]}  OBVIOUS
  <2>5. C(i) = UNION {B(r) : r \in DOMAIN Waiting(i)}  OBVIOUS
  <2>6. InWait(n) = UNION {C(u) : u \in 1..Depth}  BY DEF InWait
  <2> HIDE DEF A, B, C
  <2> QED  BY <2>1, <2>2, <2>3, <2>4, <2>5, <2>6
<1>7. (WNone(n) <=> NoneAmong(F, n)) /\ (WOnce(n) <=> OnceAmong(F, n))  BY DEF WNone, WOnce, F
<1>8. ASSUME NoneAmong(F, n) PROVE InWait(n) = {}
  <2> SUFFICES ASSUME NEW p \in InWait(n) PROVE FALSE  OBVIOUS
  <2>1. PICK i \in 1..Depth, s \in Symbols : \E k \in DOMAIN F[<<i, s>>] :
                \E j \in DOMAIN F[<<i, s>>][k] : F[<<i, s>>][k][j] = n /\ p = <<i, s, k, j>>
    BY <1>5
  <2>2. Absent(F[<<i, s>>], n)  BY <1>1, <1>8 DEF NoneAmong
  <2> QED  BY <2>1, <2>2 DEF Absent
<1>9. ASSUME OnceAmong(F, n) PROVE Lone(InWait(n))
  <2>1. PICK y \in D : Once(F[y], n) /\ \A z \in D \ {y} : Absent(F[z], n)
    BY <1>1, <1>9 DEF OnceAmong
  <2>2. PICK i \in 1..Depth, s \in Symbols : y = <<i, s>>  OBVIOUS
  <2> DEFINE f == F[<<i, s>>]
  <2>3. Once(f, n)  BY <2>1, <2>2
  <2>4. PICK k \in DOMAIN f : \E j \in DOMAIN f[k] :
               /\ f[k][j] = n
               /\ \A k2 \in DOMAIN f : \A j2 \in DOMAIN f[k2] : f[k2][j2] = n => k2 = k /\ j2 = j
    BY <2>3 DEF Once
  <2>5. PICK j \in DOMAIN f[k] :
               /\ f[k][j] = n
               /\ \A k2 \in DOMAIN f : \A j2 \in DOMAIN f[k2] : f[k2][j2] = n => k2 = k /\ j2 = j
    BY <2>4
  <2>6. <<i, s, k, j>> \in InWait(n)  BY <1>6, <2>5
  <2>7. ASSUME NEW p \in InWait(n) PROVE p = <<i, s, k, j>>
    <3>1. PICK i2 \in 1..Depth, s2 \in Symbols : \E k2 \in DOMAIN F[<<i2, s2>>] :
                \E j2 \in DOMAIN F[<<i2, s2>>][k2] : F[<<i2, s2>>][k2][j2] = n /\ p = <<i2, s2, k2, j2>>
      BY <1>5
    <3>2. <<i2, s2>> = y
      <4>1. ~Absent(F[<<i2, s2>>], n)  BY <3>1 DEF Absent
      <4> QED  BY <2>1, <4>1
    <3>3. i2 = i /\ s2 = s  BY <2>2, <3>2
    <3> QED  BY <2>5, <3>1, <3>3
  <2> QED  BY <2>6, <2>7, LoneIn
<1> QED  BY <1>7, <1>8, <1>9

\* The places of what a window took and has not posted.
LEMMA EmitPlaces ==
    ASSUME NEW n
    PROVE  (ENone(n) => ToEmit(n) = {}) /\ (EOnce(n) => Lone(ToEmit(n)))
<1> DEFINE F == EmitIds
<1>1. /\ DOMAIN F = 1..Depth
      /\ \A i \in 1..Depth : DOMAIN F[i] = emits[i] /\ \A v \in emits[i] : F[i][v] = v.ids
  BY DEF EmitIds
<1> HIDE DEF F
<1>2. ASSUME NEW p \in ToEmit(n)
      PROVE  \E i \in 1..Depth : \E v \in DOMAIN F[i] : \E j \in DOMAIN F[i][v] :
                F[i][v][j] = n /\ p = <<i, v, j>>
  <2>1. PICK i \in 1..Depth : p \in UNION {{<<i, v, j>> : j \in Spots(v, n)} : v \in emits[i]}
    BY DEF ToEmit
  <2>2. PICK v \in emits[i] : p \in {<<i, v, j>> : j \in Spots(v, n)}  BY <2>1
  <2> QED  BY <1>1, <2>2 DEF Spots
<1>3. ASSUME NEW i \in 1..Depth, NEW v \in DOMAIN F[i], NEW j \in DOMAIN F[i][v], F[i][v][j] = n
      PROVE  <<i, v, j>> \in ToEmit(n)
  <2>1. v \in emits[i] /\ j \in Spots(v, n)  BY <1>1, <1>3 DEF Spots
  <2> DEFINE A(x) == {<<i, x, y>> : y \in Spots(x, n)}
             B(u) == UNION {{<<u, x, y>> : y \in Spots(x, n)} : x \in emits[u]}
  <2>2. <<i, v, j>> \in A(v)  BY <2>1
  <2>3. B(i) = UNION {A(x) : x \in emits[i]}  OBVIOUS
  <2>4. ToEmit(n) = UNION {B(u) : u \in 1..Depth}  BY DEF ToEmit
  <2> HIDE DEF A, B
  <2> QED  BY <2>1, <2>2, <2>3, <2>4
<1>4. (ENone(n) <=> NoneAmong(F, n)) /\ (EOnce(n) <=> OnceAmong(F, n))  BY DEF ENone, EOnce, F
<1>5. ENone(n) => ToEmit(n) = {}  BY <1>1, <1>2, <1>4 DEF NoneAmong, Absent
<1>6. ASSUME OnceAmong(F, n) PROVE Lone(ToEmit(n))
  <2>1. PICK i \in 1..Depth : Once(F[i], n) /\ \A u \in 1..Depth \ {i} : Absent(F[u], n)
    BY <1>1, <1>6 DEF OnceAmong
  <2>2. PICK v \in DOMAIN F[i] : \E j \in DOMAIN F[i][v] :
               /\ F[i][v][j] = n
               /\ \A k2 \in DOMAIN F[i] : \A j2 \in DOMAIN F[i][k2] : F[i][k2][j2] = n => k2 = v /\ j2 = j
    BY <2>1 DEF Once
  <2>3. PICK j \in DOMAIN F[i][v] :
               /\ F[i][v][j] = n
               /\ \A k2 \in DOMAIN F[i] : \A j2 \in DOMAIN F[i][k2] : F[i][k2][j2] = n => k2 = v /\ j2 = j
    BY <2>2
  <2>4. <<i, v, j>> \in ToEmit(n)  BY <1>3, <2>3
  <2>5. ASSUME NEW p \in ToEmit(n) PROVE p = <<i, v, j>>
    <3>1. PICK u \in 1..Depth : \E k2 \in DOMAIN F[u] : \E j2 \in DOMAIN F[u][k2] :
                                  F[u][k2][j2] = n /\ p = <<u, k2, j2>>
      BY <1>2
    <3>2. u = i  BY <2>1, <3>1 DEF Absent
    <3> QED  BY <2>3, <3>1, <3>2
  <2> QED  BY <2>4, <2>5, LoneIn
<1> QED  BY <1>4, <1>5, <1>6

\* A value in one place has one place.
LEMMA OnePlaceCounts ==
    ASSUME Shape, NEW n, InOnePlace(n)
    PROVE  Cardinality(Places(n)) = 1
<1>1. Places(n) = InQueue(n) \cup OnStack(n) \cup InWait(n) \cup ToEmit(n) \cup SentPlace(n)
                  \cup LostPlace(n)
  BY Zenon DEF Places, InQueue, OnStack, InWait, ToEmit, SentPlace, LostPlace
<1>2. (DNone(n) => SentPlace(n) = {}) /\ (DOnce(n) => Lone(SentPlace(n)))
  <2>1. ASSUME sent[n] = 0 PROVE SentPlace(n) = {}  BY <2>1 DEF SentPlace
  <2>2. ASSUME sent[n] = 1 PROVE Lone(SentPlace(n))
    <3>1. 1..sent[n] = {1}  BY <2>2
    <3>2. SentPlace(n) = {<<"sent", 1>>}  BY <3>1 DEF SentPlace
    <3> QED  BY <3>2 DEF Lone
  <2> QED  BY <2>1, <2>2 DEF DNone, DOnce
<1>3. (n \notin lost => LostPlace(n) = {}) /\ (n \in lost => Lone(LostPlace(n)))
  <2>1. ASSUME n \notin lost PROVE LostPlace(n) = {}  BY <2>1 DEF LostPlace
  <2>2. ASSUME n \in lost PROVE Lone(LostPlace(n))
    <3>1. lost \cap {n} = {n}  BY <2>2
    <3>2. LostPlace(n) = {<<"lost", n>>}  BY <3>1 DEF LostPlace
    <3> QED  BY <3>2 DEF Lone
  <2> QED  BY <2>1, <2>2
<1>4. Lone(Places(n))
  <2> DEFINE a == InQueue(n)
             b == OnStack(n)
             c == InWait(n)
             d == ToEmit(n)
             e == SentPlace(n)
             g == LostPlace(n)
  <2>1. /\ (QNone(n) => a = {}) /\ (QOnce(n) => Lone(a))
        /\ (SNone(n) => b = {}) /\ (SOnce(n) => Lone(b))
        /\ (WNone(n) => c = {}) /\ (WOnce(n) => Lone(c))
        /\ (ENone(n) => d = {}) /\ (EOnce(n) => Lone(d))
        /\ (DNone(n) => e = {}) /\ (DOnce(n) => Lone(e))
        /\ (n \notin lost => g = {}) /\ (n \in lost => Lone(g))
    BY <1>2, <1>3, QueuePlaces, StackPlaces, WaitPlaces, EmitPlaces
  <2> HIDE DEF a, b, c, d, e, g
  <2>2. \/ Lone(a) /\ b = {} /\ c = {} /\ d = {} /\ e = {} /\ g = {}
        \/ a = {} /\ Lone(b) /\ c = {} /\ d = {} /\ e = {} /\ g = {}
        \/ a = {} /\ b = {} /\ Lone(c) /\ d = {} /\ e = {} /\ g = {}
        \/ a = {} /\ b = {} /\ c = {} /\ Lone(d) /\ e = {} /\ g = {}
        \/ a = {} /\ b = {} /\ c = {} /\ d = {} /\ Lone(e) /\ g = {}
        \/ a = {} /\ b = {} /\ c = {} /\ d = {} /\ e = {} /\ Lone(g)
    BY <2>1 DEF InOnePlace
  <2>3. Lone(a \cup b \cup c \cup d \cup e \cup g)
    <3>1. \A S : {} \cup S = S /\ S \cup {} = S  OBVIOUS
    <3> QED  BY <2>2, <3>1
  <2> QED  BY <1>1, <2>3 DEF a, b, c, d, e, g
<1>5. PICK p : Places(n) = {p}  BY <1>4 DEF Lone
<1> QED  BY <1>5, FS_Singleton

\* At first nothing was produced and every place is empty.
LEMMA ShapeInit == Init => Shape /\ Tracked
<1> SUFFICES ASSUME Init PROVE Shape /\ Tracked  OBVIOUS
<1>1. Depth \in Nat /\ {MaxFed, MaxThrows} \subseteq Nat  BY PipeFacts, ChainAssumption DEF Init
<1>2. LifeOK  BY <1>1 DEF Init, LifeOK
<1>3. FlowOK
  <2>1. fed \in Seq(Symbols) /\ Len(fed) = 0 /\ queue \in Seq(Calls) /\ \A t \in Threads : stack[t] \in Seq(Calls)
    BY DEF Init
  <2>2. MemOK(mem)
    <3>1. DOMAIN mem = 1..Depth /\ \A i \in 1..Depth : mem[i] = <<>>  BY DEF Init
    <3>2. DOMAIN <<>> = {}  OBVIOUS
    <3> QED  BY <3>1, <3>2 DEF MemOK
  <2>3. stack \in [Threads -> Seq(Calls)] /\ root \in [Threads -> 0..(Depth + 1)]  BY <1>1, <2>1 DEF Init
  <2> QED  BY <1>1, <2>1, <2>2, <2>3 DEF Init, FlowOK
<1>4. ASSUME NEW n \in Ids PROVE Nowhere(n)
  <2>1. \A q : q = <<>> => Absent(CallIds(q), n) /\ Absent(ValIds(q), n)
    <3> SUFFICES Absent(CallIds(<<>>), n) /\ Absent(ValIds(<<>>), n)  OBVIOUS
    <3>1. DOMAIN CallIds(<<>>) = {} /\ DOMAIN ValIds(<<>>) = {}  BY DEF CallIds, ValIds
    <3> QED  BY <3>1 DEF Absent
  <2>2. QNone(n)  BY <2>1 DEF Init, QNone
  <2>3. SNone(n)  BY <2>1 DEF Init, SNone, NoneAmong, StackIds
  <2>4. WNone(n)
    <3> SUFFICES ASSUME NEW y \in (1..Depth) \X Symbols PROVE Absent(WaitIds[y], n)
      BY DEF WNone, NoneAmong, WaitIds
    <3>1. PICK i \in 1..Depth, s \in Symbols : y = <<i, s>>  OBVIOUS
    <3>2. WaitIds[y] = ValIds(Of(Waiting(i), s))  BY <3>1 DEF WaitIds
    <3>3. Waiting(i) = <<>>  BY DEF Waiting, Init
    <3>4. Of(Waiting(i), s) = <<>>  BY <3>3 DEF Of
    <3> QED  BY <2>1, <3>2, <3>4
  <2>5. ENone(n)  BY DEF Init, ENone, NoneAmong, EmitIds, Absent
  <2> QED  BY <2>2, <2>3, <2>4, <2>5 DEF Nowhere, Init, DNone
<1>5. \A n \in Ids : ~(n <= Len(fed))  BY <1>1 DEF Init, Ids
<1> QED  BY <1>2, <1>3, <1>4, <1>5 DEF Shape, Tracked

\* The types of Chain's variables, and that calls go to stages that have such a port.
THEOREM ChainTypeTheorem == Spec => []TypeOK
<1>1. Shape => TypeOK
  <2> SUFFICES ASSUME Shape PROVE TypeOK  OBVIOUS
  <2>1. ASSUME NEW q \in Seq(Calls), NEW c \in Range(q) PROVE c.node \in 1..(Depth + 1) /\ c.val \in Value
    <3>1. c \in Calls  BY <2>1 DEF Range
    <3> QED  BY <3>1 DEF Calls
  <2>2. queue \in Seq(Calls) /\ \A t \in Threads : stack[t] \in Seq(Calls)  BY DEF Shape, FlowOK
  <2>3. \A c \in Range(queue) \cup UNION {Range(stack[t]) : t \in Threads} :
           c.node \in 1..(Depth + 1) /\ c.val \in Value
    BY <2>1, <2>2
  <2>4. \A i \in 1..Depth : emits[i] \subseteq Value  BY DEF Shape, FlowOK
  <2> QED  BY <2>3, <2>4 DEF TypeOK, Shape, LifeOK, FlowOK, MemOK
<1> QED  BY <1>1, ShapeInit, ShapeStep, PTL DEF Spec

\* Every value produced is at exactly one place of the chain - queued, on a
\* worker's stack, in a buffer, sent or refused - however workers, timers and
\* exceptions interleave.
THEOREM ExactlyOnceTheorem == Spec => []ExactlyOnce
<1>1. Shape /\ Tracked => ExactlyOnce
  <2> SUFFICES ASSUME Shape, Tracked, NEW n \in 1..Len(fed) PROVE Cardinality(Places(n)) = 1
    BY DEF ExactlyOnce
  <2>1. n \in Ids /\ n <= Len(fed)
    <3>1. fed \in Seq(Symbols) /\ Len(fed) <= MaxFed /\ MaxFed \in Nat
      BY ChainAssumption DEF Shape, FlowOK
    <3> QED  BY <3>1 DEF Ids
  <2>2. InOnePlace(n)  BY <2>1 DEF Tracked
  <2> QED  BY <2>2, OnePlaceCounts
<1> QED  BY <1>1, ShapeInit, ShapeStep, TrackedStep, PTL DEF Spec
=============================================================================
