--------------------------- MODULE OrderBookProofs ---------------------------
(***************************************************************************)
(* Proofs about OrderBook, driven alone (BookSpec) and by OrderBookManager *)
(* (ManagerSpec), for any ids, prices, sizes, quantities, scopes and       *)
(* snapshots.                                                              *)
(*                                                                         *)
(* LadderAndIndexAgree is not inductive as it stands: that the guarded     *)
(* subtractions never guard needs the orders' sizes to be naturals, that   *)
(* an iterator still leads to its order needs a key to rest at one level   *)
(* only, and a record update needs the record to have its fields.  BookOK  *)
(* says all that of a book, the index as the set of keys of each level,    *)
(* and every member takes a BookOK book to one.                            *)
(*                                                                         *)
(* That a synthetic id is new needs the counters to be ahead of every      *)
(* synthetic id in the index, SynthBelow, and the index to be finite.      *)
(*                                                                         *)
(* That the book implements the queues of AbstractBook is shown member by  *)
(* member: what it does to each list (ListAt), then to the queues the      *)
(* lists stand for (Queues).  consumeAtLevel takes the most work: the      *)
(* orders it fills are the first m of the list (Cuts), for the sums of     *)
(* sizes grow along it.                                                    *)
(*                                                                         *)
(* For the manager's sequencing, Accepted says what NoHiddenGap leaves     *)
(* open: before the first number nothing was accepted.                     *)
(*                                                                         *)
(* SnapshotPlusDeltas is about a reader that is done; Replays follows it   *)
(* from the moment it has its number: each level is about to be published, *)
(* or was said last, or nothing was said and the copy has it or will have  *)
(* it.  Every mutator changes the sizes of the levels it probes only.      *)
(***************************************************************************)
EXTENDS OrderBookManager, InductionLemmas, FiniteSetTheorems

-----------------------------------------------------------------------------
(* Sums of sizes                                                           *)

\* f holds the sums of the first orders of os.
SumsOf(f, os) ==
    /\ f \in [0 .. Len(os) -> Int] /\ f[0] = 0
    /\ \A i \in 1 .. Len(os) : f[i] = f[i - 1] + os[i].size

\* Whatever adds up the sizes from the front ends at SizeSum.
LEMMA SumUnique ==
    ASSUME NEW os, Len(os) \in Nat, NEW f, SumsOf(f, os)
    PROVE  SizeSum(os) = f[Len(os)]
<1> DEFINE L == Len(os)
           Def(h) == [n \in 0 .. L |-> IF n = 0 THEN 0 ELSE h[n - 1] + os[n].size]
           c == CHOOSE h : h = Def(h)
<1>1. L \in Nat /\ f \in [0 .. L -> Int] /\ f[0] = 0 /\ \A i \in 1 .. L : f[i] = f[i - 1] + os[i].size
  BY DEF SumsOf
<1>2. SizeSum(os) = c[L]  BY DEF SizeSum
<1> HIDE DEF L
<1>3. f = Def(f)
  <2>1. \A n \in 0 .. L : f[n] = IF n = 0 THEN 0 ELSE f[n - 1] + os[n].size  BY <1>1
  <2> QED  BY <1>1, <2>1
<1>4. c = Def(c)
  <2> HIDE DEF Def
  <2> QED  BY <1>3
<1> HIDE DEF c
<1>5. \A n \in 0 .. L : c[n] = IF n = 0 THEN 0 ELSE c[n - 1] + os[n].size  BY <1>4, Zenon
<1> DEFINE P == {k \in 0 .. L : c[k] = f[k]}
<1>6. 0 \in P  BY <1>1, <1>5
<1>7. ASSUME NEW k \in 0 .. L - 1, k \in P PROVE k + 1 \in P
  <2>1. k + 1 \in 0 .. L /\ k + 1 \in 1 .. L /\ k + 1 # 0 /\ (k + 1) - 1 = k  BY <1>1
  <2>2. c[k + 1] = c[(k + 1) - 1] + os[k + 1].size  BY <1>5, <2>1, Zenon
  <2>3. f[k + 1] = f[(k + 1) - 1] + os[k + 1].size  BY <1>1, <2>1, Zenon
  <2>4. c[k] = f[k]  BY <1>7
  <2>5. c[k + 1] = f[k + 1]  BY <2>1, <2>2, <2>3, <2>4, Zenon
  <2> QED  BY <2>1, <2>5
<1>8. 0 .. L \subseteq P
  <2> HIDE DEF P
  <2> QED  BY <1>1, <1>6, <1>7, UpTo
<1>9. c[L] = f[L]  BY <1>1, <1>8
<1> QED  BY <1>2, <1>9 DEF L

\* A sequence with whole sizes.
Sized(os) == Len(os) \in Nat /\ DOMAIN os = 1 .. Len(os) /\ \A i \in 1 .. Len(os) : os[i].size \in Nat

\* The sums exist, and are not negative.
LEMMA SumsExist ==
    ASSUME NEW os, Sized(os)
    PROVE  \E f : SumsOf(f, os) /\ SizeSum(os) = f[Len(os)] /\ SizeSum(os) \in Nat
<1> DEFINE L == Len(os)
           step == [i \in 1 .. L |-> [q \in Nat |-> q + os[i].size]]
<1>1. L \in Nat /\ \A i \in 1 .. L : os[i].size \in Nat  BY DEF Sized
<1> HIDE DEF L
<1>2. step \in [1 .. L -> [Nat -> Nat]]
  <2>1. ASSUME NEW i \in 1 .. L PROVE [q \in Nat |-> q + os[i].size] \in [Nat -> Nat]  BY <1>1
  <2> QED  BY <2>1
<1>3. PICK f \in [0 .. L -> Nat] : f[0] = 0 /\ \A i \in 1 .. L : f[i] = step[i][f[i - 1]]
  <2> HIDE DEF step
  <2>1. Steps(L, Nat, step) /\ 0 \in Nat  BY <1>2 DEF Steps
  <2>2. Runs(L, Nat, 0, step)  BY <1>1, <2>1, Recursion
  <2> QED  BY <2>2 DEF Runs
<1>4. \A i \in 1 .. L : f[i] = f[i - 1] + os[i].size
  <2> TAKE i \in 1 .. L
  <2>1. i - 1 \in 0 .. L  BY <1>1
  <2>2. f[i - 1] \in Nat /\ f[i] = step[i][f[i - 1]]  BY <1>3, <2>1
  <2> QED  BY <2>2
<1>5. SumsOf(f, os)  BY <1>3, <1>4 DEF SumsOf, L
<1>6. SizeSum(os) = f[Len(os)]  BY <1>1, <1>5, SumUnique DEF L
<1>7. f[L] \in Nat  BY <1>1, <1>3
<1> QED  BY <1>5, <1>6, <1>7 DEF L

\* A sum of sizes is a size.
LEMMA SumNat == ASSUME NEW os, Sized(os) PROVE SizeSum(os) \in Nat
BY SumsExist

\* push_back adds the order's size.
LEMMA SumAppend ==
    ASSUME NEW S, NEW os \in Seq(S), Sized(os), NEW o \in S, o.size \in Nat
    PROVE  /\ Sized(Append(os, o)) /\ SizeSum(Append(os, o)) = SizeSum(os) + o.size
<1> DEFINE n == Len(os)
           z == Append(os, o)
<1>1. PICK f : SumsOf(f, os) /\ SizeSum(os) = f[n]  BY SumsExist
<1>2. n \in Nat /\ Len(z) = n + 1 /\ DOMAIN z = 1 .. n + 1 /\ z[n + 1] = o /\ \A i \in 1 .. n : z[i] = os[i]
  OBVIOUS
<1>3. f \in [0 .. n -> Int] /\ f[0] = 0 /\ (\A i \in 1 .. n : f[i] = f[i - 1] + os[i].size)
      /\ (\A i \in 1 .. n : os[i].size \in Nat)
  BY <1>1 DEF SumsOf, Sized
<1> HIDE DEF n, z
<1> DEFINE g == [i \in 0 .. n + 1 |-> IF i = n + 1 THEN f[n] + o.size ELSE f[i]]
<1>4. Sized(z)
  <2>1. ASSUME NEW i \in 1 .. n + 1 PROVE z[i].size \in Nat
    <3>1. CASE i = n + 1  BY <1>2, <3>1
    <3>2. CASE i # n + 1  BY <1>2, <1>3, <3>2
    <3> QED  BY <3>1, <3>2
  <2> QED  BY <1>2, <2>1 DEF Sized
<1>5. SumsOf(g, z)
  <2>1. g \in [0 .. n + 1 -> Int] /\ g[0] = 0  BY <1>2, <1>3
  <2>2. ASSUME NEW i \in 1 .. n + 1 PROVE g[i] = g[i - 1] + z[i].size
    <3>1. CASE i = n + 1  BY <1>2, <3>1
    <3>2. CASE i # n + 1
      <4>1. i \in 1 .. n /\ i - 1 \in 0 .. n + 1 /\ i - 1 # n + 1  BY <1>2, <3>2
      <4>2. g[i] = f[i] /\ g[i - 1] = f[i - 1] /\ z[i] = os[i]  BY <1>2, <4>1
      <4>3. f[i] = f[i - 1] + os[i].size  BY <1>3, <4>1
      <4> HIDE DEF g
      <4> QED  BY <4>2, <4>3
    <3> QED  BY <3>1, <3>2
  <2> HIDE DEF g
  <2> QED  BY <1>2, <2>1, <2>2 DEF SumsOf
<1>6. SizeSum(z) = g[n + 1]
  <2> HIDE DEF g
  <2> QED  BY <1>2, <1>5, SumUnique
<1>7. g[n + 1] = f[n] + o.size  BY <1>2
<1> QED  BY <1>1, <1>4, <1>6, <1>7 DEF z

\* What RemoveAt leaves.
LEMMA RemoveAtFacts ==
    ASSUME NEW S, NEW os \in Seq(S), NEW i \in 1 .. Len(os)
    PROVE  /\ RemoveAt(os, i) \in Seq(S) /\ Len(RemoveAt(os, i)) = Len(os) - 1
           /\ DOMAIN RemoveAt(os, i) = 1 .. Len(os) - 1
           /\ \A j \in 1 .. Len(os) - 1 : RemoveAt(os, i)[j] = IF j < i THEN os[j] ELSE os[j + 1]
<1> DEFINE a == SubSeq(os, 1, i - 1)
           b == SubSeq(os, i + 1, Len(os))
<1>1. Len(os) \in Nat /\ i \in Nat  OBVIOUS
<1>2. a \in Seq(S) /\ Len(a) = i - 1 /\ \A j \in 1 .. i - 1 : a[j] = os[j]  OBVIOUS
<1>3. b \in Seq(S) /\ Len(b) = Len(os) - i /\ \A j \in 1 .. Len(os) - i : b[j] = os[j + i]  OBVIOUS
<1>4. RemoveAt(os, i) = a \o b  BY DEF RemoveAt
<1> HIDE DEF a, b
<1>5. a \o b \in Seq(S) /\ Len(a \o b) = Len(os) - 1 /\ DOMAIN (a \o b) = 1 .. Len(os) - 1
  <2>1. Len(a) + Len(b) = Len(os) - 1  BY <1>1, <1>2, <1>3
  <2>2. a \in Seq(S) /\ b \in Seq(S)  BY <1>2, <1>3
  <2>3. a \o b \in Seq(S) /\ Len(a \o b) = Len(a) + Len(b)  BY ONLY <2>2
  <2>4. DOMAIN (a \o b) = 1 .. Len(a) + Len(b)  BY ONLY <2>2, ConcatEntries
  <2> QED  BY <2>1, <2>3, <2>4
<1>6. ASSUME NEW j \in 1 .. Len(os) - 1 PROVE (a \o b)[j] = IF j < i THEN os[j] ELSE os[j + 1]
  <2>1. CASE j < i
    <3>1. j \in 1 .. Len(a)  BY <1>1, <1>2, <2>1
    <3>2. (a \o b)[j] = a[j]  BY <1>2, <1>3, <3>1, ConcatEntries
    <3> QED  BY <1>2, <2>1, <3>1, <3>2
  <2>2. CASE ~(j < i)
    <3>1. j \in Len(a) + 1 .. Len(a) + Len(b)  BY <1>1, <1>2, <1>3, <2>2
    <3>2. j - Len(a) \in 1 .. Len(b) /\ (a \o b)[j] = b[j - Len(a)]  BY <1>2, <1>3, <3>1, ConcatEntries
    <3> DEFINE m == j - Len(a)
    <3>3. m \in 1 .. Len(os) - i /\ m + i = j + 1  BY <1>1, <1>2, <1>3, <3>2
    <3>4. b[m] = os[m + i]
      <4> HIDE DEF m
      <4> QED  BY <1>3, <3>3
    <3> QED  BY <2>2, <3>2, <3>3, <3>4
  <2> QED  BY <2>1, <2>2
<1> QED  BY <1>4, <1>5, <1>6

\* list::erase takes the order's size out of the sum, which was at least that.
LEMMA SumRemove ==
    ASSUME NEW S, NEW os \in Seq(S), Sized(os), NEW i \in 1 .. Len(os)
    PROVE  /\ Sized(RemoveAt(os, i))
           /\ SizeSum(RemoveAt(os, i)) = SizeSum(os) - os[i].size
           /\ SizeSum(os) >= os[i].size
<1> DEFINE n == Len(os)
           z == RemoveAt(os, i)
           x == os[i].size
<1>1. PICK f : SumsOf(f, os) /\ SizeSum(os) = f[n] /\ SizeSum(os) \in Nat  BY SumsExist
<1>2. n \in Nat /\ i \in 1 .. n /\ x \in Nat /\ n # 0  BY DEF Sized
<1>3. /\ Len(z) = n - 1 /\ DOMAIN z = 1 .. n - 1
      /\ \A j \in 1 .. n - 1 : z[j] = IF j < i THEN os[j] ELSE os[j + 1]
  BY RemoveAtFacts
<1>4. f \in [0 .. n -> Int] /\ f[0] = 0 /\ (\A j \in 1 .. n : f[j] = f[j - 1] + os[j].size)
      /\ (\A j \in 1 .. n : os[j].size \in Nat)
  BY <1>1 DEF SumsOf, Sized
<1>5. f[i] = f[i - 1] + x  BY <1>2, <1>4
<1> HIDE DEF n, z, x
<1> DEFINE g == [j \in 0 .. n - 1 |-> IF j < i THEN f[j] ELSE f[j + 1] - x]
<1>6. Sized(z)
  <2>1. ASSUME NEW j \in 1 .. n - 1 PROVE z[j].size \in Nat
    <3>1. j \in 1 .. n /\ j + 1 \in 1 .. n  BY <1>2
    <3>2. z[j] = os[j] \/ z[j] = os[j + 1]  BY <1>3
    <3> QED  BY <1>4, <3>1, <3>2
  <2>2. n - 1 \in Nat  BY <1>2
  <2> QED  BY <1>3, <2>1, <2>2 DEF Sized
<1>7. SumsOf(g, z)
  <2>1. g \in [0 .. n - 1 -> Int] /\ g[0] = 0
    <3>1. ASSUME NEW j \in 0 .. n - 1 PROVE (IF j < i THEN f[j] ELSE f[j + 1] - x) \in Int
      <4>1. j \in 0 .. n /\ j + 1 \in 0 .. n  BY <1>2
      <4>2. f[j] \in Int /\ f[j + 1] \in Int  BY <1>4, <4>1
      <4> QED  BY <1>2, <4>2
    <3>2. 0 < i /\ 0 \in 0 .. n - 1  BY <1>2
    <3> QED  BY <1>4, <3>1, <3>2
  <2>2. ASSUME NEW j \in 1 .. n - 1 PROVE g[j] = g[j - 1] + z[j].size
    <3>0. j \in 1 .. n /\ j + 1 \in 1 .. n /\ j - 1 \in 0 .. n - 1 /\ j \in 0 .. n - 1
          /\ j \in 0 .. n /\ j + 1 \in 0 .. n /\ j - 1 \in 0 .. n
      BY <1>2
    <3>1. CASE j < i
      <4>1. g[j] = f[j] /\ g[j - 1] = f[j - 1] /\ z[j] = os[j]  BY <1>2, <1>3, <3>0, <3>1
      <4>2. f[j] = f[j - 1] + os[j].size  BY <1>4, <3>0
      <4> HIDE DEF g
      <4> QED  BY <4>1, <4>2
    <3>2. CASE j = i
      <4>1. g[j] = f[j + 1] - x /\ g[j - 1] = f[j - 1] /\ z[j] = os[j + 1]  BY <1>2, <1>3, <3>0, <3>2
      <4>2. f[j + 1] = f[(j + 1) - 1] + os[j + 1].size /\ (j + 1) - 1 = j  BY <1>4, <3>0
      <4>3. f[j] = f[j - 1] + x  BY <1>5, <3>2
      <4>4. f[j] \in Int /\ f[j - 1] \in Int  BY <1>4, <3>0
      <4>5. os[j + 1].size \in Nat /\ x \in Nat
        <5>1. j + 1 \in 1 .. n  BY <3>0
        <5> QED  BY <1>2, <1>4, <5>1
      <4> HIDE DEF g
      <4> QED  BY <4>1, <4>2, <4>3, <4>4, <4>5
    <3>3. CASE j > i
      <4>1. g[j] = f[j + 1] - x /\ g[j - 1] = f[(j - 1) + 1] - x /\ z[j] = os[j + 1] /\ (j - 1) + 1 = j
        BY <1>2, <1>3, <3>0, <3>3
      <4>2. f[j + 1] = f[(j + 1) - 1] + os[j + 1].size /\ (j + 1) - 1 = j  BY <1>4, <3>0
      <4>3. f[j] \in Int  BY <1>4, <3>0
      <4>4. os[j + 1].size \in Nat /\ x \in Nat
        <5>1. j + 1 \in 1 .. n  BY <3>0
        <5> QED  BY <1>2, <1>4, <5>1
      <4> HIDE DEF g
      <4> QED  BY <4>1, <4>2, <4>3, <4>4
    <3> QED  BY <1>2, <3>1, <3>2, <3>3
  <2> HIDE DEF g
  <2> QED  BY <1>3, <2>1, <2>2 DEF SumsOf
<1>8. SizeSum(z) = g[n - 1]
  <2>1. n - 1 \in Nat  BY <1>2
  <2> HIDE DEF g
  <2> QED  BY <1>3, <1>7, <2>1, SumUnique
<1>9. g[n - 1] = f[n] - x
  <2>1. CASE n - 1 < i
    <3>1. i = n /\ n - 1 \in 0 .. n /\ n \in 0 .. n  BY <1>2, <2>1
    <3>2. g[n - 1] = f[n - 1] /\ f[n] = f[n - 1] + x /\ f[n - 1] \in Int  BY <1>2, <1>4, <1>5, <2>1, <3>1
    <3> HIDE DEF g
    <3> QED  BY <1>2, <3>2
  <2>2. CASE ~(n - 1 < i)
    <3>1. (n - 1) + 1 = n /\ n - 1 \in 0 .. n - 1  BY <1>2
    <3> QED  BY <2>2, <3>1
  <2> QED  BY <2>1, <2>2
<1>10. SizeSum(z) \in Nat  BY <1>6, SumNat
<1> HIDE DEF g
<1>11. SizeSum(os) >= x  BY <1>1, <1>2, <1>8, <1>9, <1>10
<1> QED  BY <1>1, <1>6, <1>8, <1>9, <1>11 DEF z, x

\* An order resized in place.
LEMMA SumReplace ==
    ASSUME NEW S, NEW os \in Seq(S), Sized(os), NEW i \in 1 .. Len(os), NEW o \in S, o.size \in Nat
    PROVE  /\ Sized([os EXCEPT ![i] = o])
           /\ SizeSum([os EXCEPT ![i] = o]) = SizeSum(os) - os[i].size + o.size
<1> DEFINE n == Len(os)
           z == [os EXCEPT ![i] = o]
           x == os[i].size
<1>1. PICK f : SumsOf(f, os) /\ SizeSum(os) = f[n]  BY SumsExist
<1>2. n \in Nat /\ i \in 1 .. n /\ x \in Nat /\ n # 0  BY DEF Sized
<1>3. /\ Len(z) = n /\ DOMAIN z = 1 .. n
      /\ \A j \in 1 .. n : z[j] = IF j = i THEN o ELSE os[j]
  OBVIOUS
<1>4. f \in [0 .. n -> Int] /\ f[0] = 0 /\ (\A j \in 1 .. n : f[j] = f[j - 1] + os[j].size)
      /\ (\A j \in 1 .. n : os[j].size \in Nat)
  BY <1>1 DEF SumsOf, Sized
<1>5. f[i] = f[i - 1] + x  BY <1>2, <1>4
<1> HIDE DEF n, z, x
<1> DEFINE g == [j \in 0 .. n |-> IF j < i THEN f[j] ELSE f[j] - x + o.size]
<1>6. Sized(z)  BY <1>2, <1>3, <1>4 DEF Sized
<1>7. SumsOf(g, z)
  <2>1. g \in [0 .. n -> Int] /\ g[0] = 0  BY <1>2, <1>4
  <2>2. ASSUME NEW j \in 1 .. n PROVE g[j] = g[j - 1] + z[j].size
    <3>0. j - 1 \in 0 .. n /\ j \in 0 .. n /\ f[j] \in Int /\ f[j - 1] \in Int
      BY <1>2, <1>4
    <3>1. CASE j < i
      <4>1. g[j] = f[j] /\ g[j - 1] = f[j - 1] /\ z[j] = os[j]  BY <1>2, <1>3, <3>0, <3>1
      <4>2. f[j] = f[j - 1] + os[j].size  BY <1>4
      <4> HIDE DEF g
      <4> QED  BY <4>1, <4>2
    <3>2. CASE j = i
      <4>1. g[j] = f[j] - x + o.size /\ g[j - 1] = f[j - 1] /\ z[j] = o  BY <1>2, <1>3, <3>0, <3>2
      <4>3. f[j] = f[j - 1] + x  BY <1>5, <3>2
      <4> HIDE DEF g
      <4> QED  BY <1>2, <3>0, <4>1, <4>3
    <3>3. CASE j > i
      <4>1. g[j] = f[j] - x + o.size /\ g[j - 1] = f[j - 1] - x + o.size /\ z[j] = os[j]
        BY <1>2, <1>3, <3>0, <3>3
      <4> DEFINE y == os[j].size
                 w == o.size
      <4>2. f[j] = f[j - 1] + y /\ y \in Nat /\ w \in Nat  BY <1>4
      <4>3. g[j] = f[j] - x + w /\ g[j - 1] = f[j - 1] - x + w /\ z[j].size = y  BY <4>1
      <4> HIDE DEF g, y, w
      <4> QED  BY <1>2, <3>0, <4>2, <4>3
    <3> QED  BY <1>2, <3>1, <3>2, <3>3
  <2> HIDE DEF g
  <2> QED  BY <1>3, <2>1, <2>2 DEF SumsOf
<1>8. SizeSum(z) = g[n]
  <2> HIDE DEF g
  <2> QED  BY <1>2, <1>3, <1>7, SumUnique
<1>9. g[n] = f[n] - x + o.size  BY <1>2
<1> QED  BY <1>1, <1>6, <1>8, <1>9 DEF z, x

\* Taking out orders of size 0 leaves the sum as it is, and the rest in place.
LEMMA SumUnspent ==
    ASSUME NEW S, NEW os \in Seq(S), Sized(os), NEW spent, \A i \in spent \cap DOMAIN os : os[i].size = 0
    PROVE  Sized(Unspent(os, spent)) /\ SizeSum(Unspent(os, spent)) = SizeSum(os)
<1> DEFINE n == Len(os)
           seqs == [i \in DOMAIN os |-> IF i \in spent THEN <<>> ELSE <<os[i]>>]
<1>1. n \in Nat /\ DOMAIN os = 1 .. n /\ \A i \in 1 .. n : os[i] \in S  OBVIOUS
<1>2. /\ seqs \in Seq(Seq(S)) /\ Len(seqs) = n
      /\ \A i \in 1 .. n : seqs[i] = IF i \in spent THEN <<>> ELSE <<os[i]>>
  <2>1. \A i \in 1 .. n : (IF i \in spent THEN <<>> ELSE <<os[i]>>) \in Seq(S)  BY <1>1
  <2> QED  BY <1>1, <2>1
<1>3. Unspent(os, spent) = FlattenSeq(seqs)  BY DEF Unspent
<1>4. PICK f : SumsOf(f, os) /\ SizeSum(os) = f[n]  BY SumsExist
<1>5. f \in [0 .. n -> Int] /\ f[0] = 0 /\ (\A j \in 1 .. n : f[j] = f[j - 1] + os[j].size)
      /\ (\A j \in 1 .. n : os[j].size \in Nat)
  BY <1>4 DEF SumsOf, Sized
<1>6. Sized(<<>>) /\ SizeSum(<<>>) = 0
  <2>1. Len(<<>>) = 0 /\ DOMAIN <<>> = {}  OBVIOUS
  <2>2. Sized(<<>>)  BY <2>1 DEF Sized
  <2>3. PICK h : SumsOf(h, <<>>) /\ SizeSum(<<>>) = h[0]  BY <2>1, <2>2, SumsExist
  <2> QED  BY <2>2, <2>3 DEF SumsOf
<1> HIDE DEF n, seqs
<1>7. CASE seqs = <<>>
  <2>1. n = 0 /\ FlattenSeq(seqs) = <<>>  BY <1>2, <1>7 DEF FlattenSeq
  <2> QED  BY <1>3, <1>4, <1>5, <1>6, <2>1
<1>8. CASE seqs # <<>>
  <2>1. n # 0 /\ n - 1 \in Nat  BY <1>1, <1>2, <1>8
  <2>2. PICK q \in [1 .. n -> Seq(S)] : /\ q[1] = seqs[1]
                                        /\ \A i \in 2 .. n : q[i] = q[i - 1] \o seqs[i]
                                        /\ FlattenSeq(seqs) = q[n]
    BY <1>2, <1>8, FlattenSteps
  <2> DEFINE Ok(k) == Sized(q[k]) /\ SizeSum(q[k]) = f[k]
             P == {k \in 0 .. n - 1 : Ok(k + 1)}
  <2>3. ASSUME NEW i \in 1 .. n, NEW a \in Seq(S), Sized(a), SizeSum(a) = f[i - 1]
        PROVE  Sized(a \o seqs[i]) /\ SizeSum(a \o seqs[i]) = f[i]
    <3>1. f[i] = f[i - 1] + os[i].size /\ os[i].size \in Nat /\ os[i] \in S  BY <1>1, <1>5
    <3>0. f[i - 1] \in Int  BY <1>1, <1>5
    <3>2. CASE i \in spent
      <4>1. a \o seqs[i] = a
        <5>1. seqs[i] = <<>>  BY <1>2, <3>2
        <5> QED  BY ONLY <5>1, a \in Seq(S)
      <4>2. os[i].size = 0  BY <1>1, <3>2
      <4> QED  BY <2>3, <3>0, <3>1, <4>1, <4>2
    <3>3. CASE i \notin spent
      <4>1. a \o seqs[i] = Append(a, os[i])
        <5>1. seqs[i] = <<os[i]>>  BY <1>2, <3>3
        <5>2. a \o <<os[i]>> = Append(a, os[i])  BY <3>1
        <5> QED  BY <5>1, <5>2
      <4>2. Sized(Append(a, os[i])) /\ SizeSum(Append(a, os[i])) = SizeSum(a) + os[i].size
        BY <2>3, <3>1, SumAppend
      <4> QED  BY <2>3, <3>1, <4>1, <4>2
    <3> QED  BY <3>2, <3>3
  <2>4. 0 \in P
    <3>1. 1 \in 1 .. n /\ 1 - 1 = 0 /\ <<>> \in Seq(S)  BY <1>1, <2>1
    <3>2. Sized(<<>> \o seqs[1]) /\ SizeSum(<<>> \o seqs[1]) = f[1]  BY <1>5, <1>6, <2>3, <3>1
    <3>3. seqs[1] \in Seq(S)  BY <1>2, <3>1
    <3>4. <<>> \o seqs[1] = q[1]  BY <2>2, <3>3
    <3>5. Ok(1)  BY <3>2, <3>4
    <3>6. 0 + 1 = 1 /\ 0 \in 0 .. n - 1  BY <2>1
    <3> HIDE DEF Ok
    <3> QED  BY <3>5, <3>6
  <2>5. ASSUME NEW k \in 0 .. (n - 1) - 1, k \in P PROVE k + 1 \in P
    <3>1. /\ k + 1 \in 1 .. n /\ (k + 1) + 1 \in 2 .. n /\ (k + 1) + 1 \in 1 .. n
          /\ ((k + 1) + 1) - 1 = k + 1 /\ k + 1 \in 0 .. n - 1
      BY <1>1, <2>1
    <3>2. q[(k + 1) + 1] = q[((k + 1) + 1) - 1] \o seqs[(k + 1) + 1]  BY <2>2, <3>1
    <3>3. Sized(q[k + 1]) /\ SizeSum(q[k + 1]) = f[k + 1] /\ q[k + 1] \in Seq(S)  BY <2>5, <3>1
    <3>4. Sized(q[k + 1] \o seqs[(k + 1) + 1]) /\ SizeSum(q[k + 1] \o seqs[(k + 1) + 1]) = f[(k + 1) + 1]
      BY <2>3, <3>1, <3>3
    <3>5. Ok((k + 1) + 1)  BY <3>1, <3>2, <3>4
    <3> HIDE DEF Ok
    <3> QED  BY <3>1, <3>5
  <2>6. 0 .. n - 1 \subseteq P
    <3> DEFINE m == n - 1
    <3>1. m \in Nat /\ 0 \in P /\ \A k \in 0 .. m - 1 : k \in P => k + 1 \in P  BY <2>1, <2>4, <2>5
    <3> HIDE DEF P, m
    <3>2. 0 .. m \subseteq P  BY <3>1, UpTo
    <3> QED  BY <3>2 DEF m
  <2>7. n - 1 \in P /\ (n - 1) + 1 = n
    <3>1. n - 1 \in 0 .. n - 1 /\ (n - 1) + 1 = n  BY <1>1, <2>1
    <3> HIDE DEF P
    <3> QED  BY <2>6, <3>1
  <2>8. Ok(n)
    <3> HIDE DEF Ok
    <3> QED  BY <2>7
  <2> QED  BY <1>3, <1>4, <2>2, <2>8
<1> QED  BY <1>7, <1>8

-----------------------------------------------------------------------------
(* What a book is.  The parts of LadderAndIndexAgree, stated of any book,  *)
(* the index as a set of keys per level.                                   *)

\* Locators
Loc(s, p) == [side |-> s, price |-> p]
Locs == [side : Sides, price : Prices]

\* The keys of a list, no key twice, and the orders a level may hold.
KeysOf(os) == {os[i].key : i \in DOMAIN os}

OneEach(os) == \A i, j \in DOMAIN os : os[i].key = os[j].key => i = j

OrdersOf(s, p) == {o \in Orders : o.side = s /\ o.price = p}

\* A level of orders of its side and price, each once, with their total.
LevelOK(s, p, lvl) ==
    /\ lvl = [orders |-> lvl.orders, total |-> lvl.total]
    /\ lvl.orders \in Seq(OrdersOf(s, p))
    /\ lvl.total = SizeSum(lvl.orders)
    /\ OneEach(lvl.orders)

\* The parts of a book have their types, and it has no others.
IsBook(b) ==
    /\ b = [lad |-> b.lad, byId |-> b.byId, agg |-> b.agg, synth |-> b.synth]
    /\ DOMAIN b.lad = Sides /\ \A s \in Sides : DOMAIN b.lad[s] \subseteq Prices
    /\ DOMAIN b.byId \subseteq Keys /\ \A k \in DOMAIN b.byId : b.byId[k] \in Locs
    /\ b.synth \in [Scopes -> Nat \ {0}]

\* No level is empty, each holds its own orders.
LaddersOK(b) ==
    \A s \in Sides : \A p \in DOMAIN b.lad[s] :
        b.lad[s][p].orders # <<>> /\ LevelOK(s, p, b.lad[s][p])

\* Lists and index name the same keys at the same places.
KeysAt(b, s, p) == IF p \in DOMAIN b.lad[s] THEN KeysOf(b.lad[s][p].orders) ELSE {}

Indexed(b) ==
    \A s \in Sides, p \in Prices :
        KeysAt(b, s, p) = {k \in DOMAIN b.byId : b.byId[k] = Loc(s, p)}

BookOK(b) == IsBook(b) /\ LaddersOK(b) /\ Indexed(b)

-----------------------------------------------------------------------------
(* Levels                                                                  *)

\* The orders of one level have whole sizes.
LEMMA LevelSized ==
    ASSUME NEW s, NEW p, NEW os \in Seq(OrdersOf(s, p))
    PROVE  Sized(os)
<1>1. \A i \in 1 .. Len(os) : os[i] \in OrdersOf(s, p)  OBVIOUS
<1>2. \A o \in OrdersOf(s, p) : o.size \in Nat  BY DEF OrdersOf, Orders
<1>3. Len(os) \in Nat /\ DOMAIN os = 1 .. Len(os)  OBVIOUS
<1> QED  BY <1>1, <1>2, <1>3 DEF Sized

\* A level that does not exist yet.
LEMMA NewLevelOK ==
    ASSUME NEW s, NEW p
    PROVE  LevelOK(s, p, NewLevel) /\ KeysOf(NewLevel.orders) = {}
<1>1. <<>> \in Seq(OrdersOf(s, p)) /\ DOMAIN <<>> = {} /\ Len(<<>>) = 0  OBVIOUS
<1>2. Sized(<<>>)  BY <1>1 DEF Sized
<1>3. PICK h : SumsOf(h, <<>>) /\ SizeSum(<<>>) = h[0]  BY <1>1, <1>2, SumsExist
<1>4. SizeSum(<<>>) = 0  BY <1>3 DEF SumsOf
<1>5. NewLevel.orders = <<>> /\ NewLevel.total = 0 /\ NewLevel = [orders |-> <<>>, total |-> 0]
  BY DEF NewLevel
<1> QED  BY <1>1, <1>4, <1>5 DEF LevelOK, KeysOf, OneEach

\* push_back of an order that is not in the level.
LEMMA PushBackOK ==
    ASSUME NEW s, NEW p, NEW lvl, LevelOK(s, p, lvl), NEW o \in OrdersOf(s, p),
           o.key \notin KeysOf(lvl.orders)
    PROVE  /\ LevelOK(s, p, PushBack(lvl, o)) /\ PushBack(lvl, o).orders # <<>>
           /\ KeysOf(PushBack(lvl, o).orders) = KeysOf(lvl.orders) \cup {o.key}
<1> DEFINE os == lvl.orders
           z == Append(os, o)
           S == OrdersOf(s, p)
<1>1. os \in Seq(S) /\ lvl.total = SizeSum(os) /\ OneEach(os)  BY DEF LevelOK
<1>2. Sized(os) /\ o.size \in Nat /\ o \in S
  <2>1. Sized(os)  BY <1>1, LevelSized
  <2>2. o.size \in Nat  BY DEF OrdersOf, Orders
  <2> QED  BY <2>1, <2>2
<1>3. SizeSum(z) = SizeSum(os) + o.size  BY <1>1, <1>2, SumAppend
<1>4. PushBack(lvl, o) = [orders |-> z, total |-> lvl.total + o.size]  BY DEF PushBack
<1> DEFINE n == Len(os)
<1>5. /\ z \in Seq(S) /\ z # <<>> /\ n \in Nat /\ DOMAIN os = 1 .. n /\ DOMAIN z = 1 .. n + 1
      /\ z[n + 1] = o /\ \A i \in 1 .. n : z[i] = os[i]
  <2> HIDE DEF S, os
  <2> QED  BY <1>1, <1>2
<1> HIDE DEF os, z, n, S
<1>6. KeysOf(z) = KeysOf(os) \cup {o.key}
  <2>1. ASSUME NEW k \in KeysOf(z) PROVE k \in KeysOf(os) \cup {o.key}
    <3>1. PICK i \in 1 .. n + 1 : k = z[i].key  BY <1>5, <2>1 DEF KeysOf
    <3>2. i = n + 1 \/ i \in 1 .. n  BY <1>5
    <3> QED  BY <1>5, <3>1, <3>2 DEF KeysOf
  <2>2. ASSUME NEW k \in KeysOf(os) PROVE k \in KeysOf(z)
    <3>1. PICK i \in 1 .. n : k = os[i].key  BY <1>5, <2>2 DEF KeysOf
    <3>2. i \in 1 .. n + 1 /\ k = z[i].key  BY <1>5, <3>1
    <3> QED  BY <1>5, <3>2 DEF KeysOf
  <2>3. o.key \in KeysOf(z)
    <3>1. n + 1 \in DOMAIN z /\ z[n + 1].key = o.key  BY <1>5
    <3> QED  BY <3>1 DEF KeysOf
  <2> QED  BY <2>1, <2>2, <2>3
<1>7. OneEach(z)
  <2> SUFFICES ASSUME NEW i \in 1 .. n + 1, NEW j \in 1 .. n + 1, z[i].key = z[j].key PROVE i = j
    BY <1>5 DEF OneEach
  <2>1. \A m \in 1 .. n : z[m].key # o.key  BY <1>5 DEF KeysOf, os
  <2>2. CASE i = n + 1 \/ j = n + 1  BY <1>5, <2>1, <2>2
  <2>3. CASE i \in 1 .. n /\ j \in 1 .. n  BY <1>1, <1>5, <2>3 DEF OneEach
  <2> QED  BY <1>5, <2>2, <2>3
<1>8. PushBack(lvl, o).orders = z /\ PushBack(lvl, o).total = SizeSum(z)  BY <1>1, <1>3, <1>4
<1> QED  BY <1>4, <1>5, <1>6, <1>7, <1>8 DEF LevelOK, S, os

\* z is os without the order at place i, which has key k.
Erased(S, os, k, i, z) ==
    /\ i \in 1 .. Len(os) /\ os[i].key = k /\ os[i] \in S
    /\ z \in Seq(S) /\ OneEach(z) /\ KeysOf(z) = KeysOf(os) \ {k}
    /\ SizeSum(z) = SizeSum(os) - os[i].size
    /\ SizeSum(os) >= os[i].size

\* list::erase of the order with key k.
LEMMA DropOK ==
    ASSUME NEW s, NEW p, NEW lvl, LevelOK(s, p, lvl), NEW k \in KeysOf(lvl.orders)
    PROVE  Erased(OrdersOf(s, p), lvl.orders, k, Pos(lvl.orders, k), Drop(lvl.orders, k))
<1> DEFINE os == lvl.orders
           S == OrdersOf(s, p)
           n == Len(os)
           i == Pos(os, k)
           z == Drop(os, k)
<1>1. os \in Seq(S) /\ OneEach(os)  BY DEF LevelOK
<1>2. n \in Nat /\ DOMAIN os = 1 .. n /\ \A j \in 1 .. n : os[j] \in S
  <2> HIDE DEF S
  <2> QED  BY <1>1
<1>3. i \in 1 .. n /\ os[i].key = k
  <2>1. \E j \in DOMAIN os : os[j].key = k  BY DEF KeysOf
  <2>2. i = CHOOSE j \in DOMAIN os : os[j].key = k  BY DEF Pos
  <2> HIDE DEF i
  <2> QED  BY <1>2, <2>1, <2>2
<1>4. Sized(os)  BY <1>1, LevelSized
<1>5. z = RemoveAt(os, i)  BY DEF Drop
<1> HIDE DEF os, S, n, i, z
<1>6. /\ z \in Seq(S) /\ DOMAIN z = 1 .. n - 1
      /\ \A j \in 1 .. n - 1 : z[j] = IF j < i THEN os[j] ELSE os[j + 1]
  <2>1. i \in 1 .. Len(os) /\ os \in Seq(S)  BY <1>1, <1>3 DEF n
  <2> DEFINE y == RemoveAt(os, i)
  <2>2. /\ y \in Seq(S) /\ DOMAIN y = 1 .. Len(os) - 1
        /\ \A j \in 1 .. Len(os) - 1 : y[j] = IF j < i THEN os[j] ELSE os[j + 1]
    BY <2>1, RemoveAtFacts
  <2> HIDE DEF y
  <2>3. z = y  BY <1>5 DEF y
  <2> QED  BY <2>2, <2>3 DEF n
<1>7. SizeSum(z) = SizeSum(os) - os[i].size /\ SizeSum(os) >= os[i].size
  BY <1>1, <1>3, <1>4, <1>5, SumRemove DEF n
<1> DEFINE from(j) == IF j < i THEN j ELSE j + 1
<1>8. \A j \in 1 .. n - 1 : from(j) \in 1 .. n /\ from(j) # i /\ z[j] = os[from(j)]
  BY <1>2, <1>3, <1>6
<1>9. \A j, m \in 1 .. n - 1 : from(j) = from(m) => j = m  BY <1>2, <1>3
<1>10. \A m \in 1 .. n : m # i => \E j \in 1 .. n - 1 : from(j) = m
  <2> SUFFICES ASSUME NEW m \in 1 .. n, m # i PROVE \E j \in 1 .. n - 1 : from(j) = m  OBVIOUS
  <2>1. CASE m < i
    <3>1. m \in 1 .. n - 1 /\ from(m) = m  BY <1>2, <1>3, <2>1
    <3> QED  BY <3>1
  <2>2. CASE m > i
    <3>1. m - 1 \in 1 .. n - 1 /\ from(m - 1) = m  BY <1>2, <1>3, <2>2
    <3> HIDE DEF from
    <3> QED  BY <3>1
  <2> QED  BY <1>2, <1>3, <2>1, <2>2
<1> HIDE DEF from
<1>11. OneEach(z)
  <2> SUFFICES ASSUME NEW j \in 1 .. n - 1, NEW m \in 1 .. n - 1, z[j].key = z[m].key PROVE j = m
    BY <1>6 DEF OneEach
  <2>1. os[from(j)].key = os[from(m)].key  BY <1>8
  <2>2. from(j) = from(m)  BY <1>1, <1>2, <1>8, <2>1 DEF OneEach
  <2> QED  BY <1>9, <2>2
<1>12. KeysOf(z) = KeysOf(os) \ {k}
  <2>1. ASSUME NEW x \in KeysOf(z) PROVE x \in KeysOf(os) \ {k}
    <3>1. PICK j \in 1 .. n - 1 : x = z[j].key  BY <1>6, <2>1 DEF KeysOf
    <3>2. from(j) \in DOMAIN os /\ from(j) # i /\ x = os[from(j)].key  BY <1>2, <1>8, <3>1
    <3>3. x # k  BY <1>1, <1>2, <1>3, <3>2 DEF OneEach
    <3> QED  BY <3>2, <3>3 DEF KeysOf
  <2>2. ASSUME NEW x \in KeysOf(os), x # k PROVE x \in KeysOf(z)
    <3>1. PICK m \in 1 .. n : x = os[m].key  BY <1>2, <2>2 DEF KeysOf
    <3>2. m # i  BY <1>3, <2>2, <3>1
    <3>3. PICK j \in 1 .. n - 1 : from(j) = m  BY <1>10, <3>2
    <3>4. z[j].key = x /\ j \in DOMAIN z  BY <1>6, <1>8, <3>1, <3>3
    <3> QED  BY <3>4 DEF KeysOf
  <2> QED  BY <2>1, <2>2
<1> QED  BY <1>2, <1>3, <1>6, <1>7, <1>11, <1>12 DEF Erased, os, S, n, i, z

\* The guarded subtraction never has to guard.
LEMMA UnlistOK ==
    ASSUME NEW s, NEW p, NEW lvl, LevelOK(s, p, lvl), NEW k \in KeysOf(lvl.orders),
           NEW o, o = lvl.orders[Pos(lvl.orders, k)]
    PROVE  /\ LevelOK(s, p, Unlist(lvl, o)) /\ o \in OrdersOf(s, p) /\ o.key = k
           /\ KeysOf(Unlist(lvl, o).orders) = KeysOf(lvl.orders) \ {k}
<1> DEFINE z == Drop(lvl.orders, k)
<1>0. lvl.total = SizeSum(lvl.orders) /\ Sized(lvl.orders)  BY LevelSized DEF LevelOK
<1>1. /\ o.key = k /\ o \in OrdersOf(s, p) /\ z \in Seq(OrdersOf(s, p)) /\ OneEach(z)
      /\ KeysOf(z) = KeysOf(lvl.orders) \ {k}
      /\ SizeSum(z) = SizeSum(lvl.orders) - o.size /\ SizeSum(lvl.orders) >= o.size
  <2> DEFINE i == Pos(lvl.orders, k)
  <2>1. o = lvl.orders[i]  OBVIOUS
  <2>2. Erased(OrdersOf(s, p), lvl.orders, k, i, z)  BY DropOK
  <2> HIDE DEF i, z
  <2> QED  BY <2>1, <2>2 DEF Erased
<1>3. Minus(lvl.total, o.size) = SizeSum(z)  BY <1>0, <1>1 DEF Minus
<1>4. Unlist(lvl, o) = [orders |-> z, total |-> SizeSum(z)]  BY <1>1, <1>3 DEF Unlist
<1> HIDE DEF z
<1>5. Unlist(lvl, o).orders = z /\ Unlist(lvl, o).total = SizeSum(z)  BY <1>4
<1> QED  BY <1>1, <1>4, <1>5 DEF LevelOK

-----------------------------------------------------------------------------
(* One level, or the index, of a book replaced                             *)

\* c is b with another level at side s and price p.
Replaced(b, c, s, p, lvl) ==
    /\ IsBook(c) /\ LaddersOK(c) /\ c.byId = b.byId /\ c.synth = b.synth /\ c.agg = b.agg
    /\ KeysAt(c, s, p) = KeysOf(lvl.orders)
    /\ lvl.orders # <<>> => p \in DOMAIN c.lad[s] /\ c.lad[s][p] = lvl
    /\ \A t \in Sides, q \in Prices : t # s \/ q # p =>
          KeysAt(c, t, q) = KeysAt(b, t, q) /\ LevelAt(c, t, q) = LevelAt(b, t, q)

\* eraseLevelIfEmpty() keeps the ladders free of empty levels, the other levels as
\* they are.
LEMMA PutLevelOK ==
    ASSUME NEW b, IsBook(b), LaddersOK(b), NEW s \in Sides, NEW p \in Prices,
           NEW lvl, LevelOK(s, p, lvl)
    PROVE  Replaced(b, PutLevel(b, s, p, lvl), s, p, lvl)
<1> DEFINE c == PutLevel(b, s, p, lvl)
           l == IF lvl.orders = <<>> THEN Without(b.lad[s], p) ELSE With(b.lad[s], p, lvl)
<1>1. /\ b = [lad |-> b.lad, byId |-> b.byId, agg |-> b.agg, synth |-> b.synth]
      /\ DOMAIN b.lad = Sides
  BY DEF IsBook
<1>2. c = [b EXCEPT !.lad = [b.lad EXCEPT ![s] = l]]  BY DEF PutLevel
<1> HIDE DEF c
<1>3. /\ c.byId = b.byId /\ c.synth = b.synth /\ c.agg = b.agg /\ c.lad = [b.lad EXCEPT ![s] = l]
      /\ c = [lad |-> c.lad, byId |-> c.byId, agg |-> c.agg, synth |-> c.synth]
  <2> HIDE DEF l
  <2> QED  BY <1>1, <1>2
<1>4. DOMAIN c.lad = Sides /\ c.lad[s] = l /\ \A t \in Sides : t # s => c.lad[t] = b.lad[t]
  <2> HIDE DEF l
  <2> QED  BY <1>1, <1>3
<1>5. /\ p \in DOMAIN l <=> lvl.orders # <<>>
      /\ lvl.orders # <<>> => l[p] = lvl
      /\ \A q : q # p => (q \in DOMAIN l <=> q \in DOMAIN b.lad[s])
      /\ \A q \in DOMAIN l : q # p => l[q] = b.lad[s][q]
  <2>1. CASE lvl.orders = <<>>  BY <2>1 DEF Without, Restrict
  <2>2. CASE lvl.orders # <<>>  BY <2>2 DEF With
  <2> QED  BY <2>1, <2>2
<1> HIDE DEF l
<1>6. DOMAIN l \subseteq Prices
  <2>1. DOMAIN b.lad[s] \subseteq Prices  BY DEF IsBook
  <2> QED  BY <1>5, <2>1
<1>7. IsBook(c)
  <2>1. \A t \in Sides : DOMAIN c.lad[t] \subseteq Prices  BY <1>4, <1>6 DEF IsBook
  <2> QED  BY <1>3, <1>4, <2>1 DEF IsBook
<1>8. LaddersOK(c)
  <2> SUFFICES ASSUME NEW t \in Sides, NEW q \in DOMAIN c.lad[t]
               PROVE  c.lad[t][q].orders # <<>> /\ LevelOK(t, q, c.lad[t][q])
    BY DEF LaddersOK
  <2>1. CASE t # s  BY <1>4, <2>1 DEF LaddersOK
  <2>2. CASE t = s /\ q # p
    <3>1. q \in DOMAIN l /\ c.lad[t][q] = l[q]  BY <1>4, <2>2
    <3>2. q \in DOMAIN b.lad[s] /\ l[q] = b.lad[s][q]  BY <1>5, <2>2, <3>1
    <3> QED  BY <2>2, <3>1, <3>2 DEF LaddersOK
  <2>3. CASE t = s /\ q = p
    <3>1. p \in DOMAIN l /\ c.lad[t][q] = l[p]  BY <1>4, <2>3
    <3>2. lvl.orders # <<>> /\ l[p] = lvl  BY <1>5, <3>1
    <3> QED  BY <2>3, <3>1, <3>2
  <2> QED  BY <2>1, <2>2, <2>3
<1>9. KeysAt(c, s, p) = KeysOf(lvl.orders)
  <2>1. CASE lvl.orders = <<>>
    <3>1. KeysOf(<<>>) = {}
      <4>1. DOMAIN <<>> = {}  OBVIOUS
      <4> QED  BY <4>1 DEF KeysOf
    <3> QED  BY <1>4, <1>5, <2>1, <3>1 DEF KeysAt
  <2>2. CASE lvl.orders # <<>>  BY <1>4, <1>5, <2>2 DEF KeysAt
  <2> QED  BY <2>1, <2>2
<1>10. ASSUME NEW t \in Sides, NEW q \in Prices, t # s \/ q # p
       PROVE  KeysAt(c, t, q) = KeysAt(b, t, q) /\ LevelAt(c, t, q) = LevelAt(b, t, q)
  <2>1. CASE t # s  BY <1>4, <2>1 DEF KeysAt, LevelAt
  <2>2. CASE t = s /\ q # p  BY <1>4, <1>5, <2>2 DEF KeysAt, LevelAt
  <2> QED  BY <1>10, <2>1, <2>2
<1>11. lvl.orders # <<>> => p \in DOMAIN c.lad[s] /\ c.lad[s][p] = lvl  BY <1>4, <1>5
<1> QED  BY <1>3, <1>7, <1>8, <1>9, <1>10, <1>11 DEF Replaced, c

\* A book with another index.
LEMMA IndexOK ==
    ASSUME NEW b, IsBook(b), LaddersOK(b), NEW f,
           DOMAIN f \subseteq Keys, \A k \in DOMAIN f : f[k] \in Locs
    PROVE  LET c == [b EXCEPT !.byId = f]
           IN  /\ IsBook(c) /\ LaddersOK(c) /\ c.byId = f
               /\ c.lad = b.lad /\ c.synth = b.synth /\ c.agg = b.agg
<1> DEFINE c == [b EXCEPT !.byId = f]
<1>1. b = [lad |-> b.lad, byId |-> b.byId, agg |-> b.agg, synth |-> b.synth]  BY DEF IsBook
<1>2. /\ c.byId = f /\ c.lad = b.lad /\ c.synth = b.synth /\ c.agg = b.agg
      /\ c = [lad |-> c.lad, byId |-> c.byId, agg |-> c.agg, synth |-> c.synth]
  BY <1>1
<1> HIDE DEF c
<1>3. IsBook(c) /\ LaddersOK(c)  BY <1>2 DEF IsBook, LaddersOK
<1> QED  BY <1>2, <1>3 DEF c

\* The order with key k rests at side s and price p, and nowhere else.
Rests(b, k, s, p) ==
    /\ s \in Sides /\ p \in Prices /\ b.byId[k] = Loc(s, p)
    /\ b.byId[k].side = s /\ b.byId[k].price = p /\ k \in Keys
    /\ p \in DOMAIN b.lad[s] /\ LevelOK(s, p, b.lad[s][p]) /\ k \in KeysOf(b.lad[s][p].orders)
    /\ Resting(b, k) = b.lad[s][p].orders[Pos(b.lad[s][p].orders, k)]
    /\ ~Dangling(b, k)
    /\ \A t \in Sides, q \in Prices : t # s \/ q # p => k \notin KeysAt(b, t, q)

\* An order that is indexed rests where the index says.
LEMMA RestingOK ==
    ASSUME NEW b, BookOK(b), NEW k \in DOMAIN b.byId
    PROVE  Rests(b, k, b.byId[k].side, b.byId[k].price)
<1> DEFINE s == b.byId[k].side
           p == b.byId[k].price
<1>1. b.byId[k] \in Locs /\ k \in Keys  BY DEF BookOK, IsBook
<1>2. s \in Sides /\ p \in Prices /\ b.byId[k] = Loc(s, p)  BY <1>1 DEF Locs, Loc
<1> HIDE DEF s, p
<1>3. k \in KeysAt(b, s, p)  BY <1>2 DEF BookOK, Indexed
<1>4. p \in DOMAIN b.lad[s] /\ k \in KeysOf(b.lad[s][p].orders)  BY <1>3 DEF KeysAt
<1>5. LevelOK(s, p, b.lad[s][p])  BY <1>2, <1>4 DEF BookOK, LaddersOK
<1>6. ASSUME NEW t \in Sides, NEW q \in Prices, t # s \/ q # p PROVE k \notin KeysAt(b, t, q)
  <2>1. Loc(t, q) # Loc(s, p)
    <3>1. Loc(t, q).side = t /\ Loc(s, p).side = s /\ Loc(t, q).price = q /\ Loc(s, p).price = p
      BY DEF Loc
    <3> QED  BY <1>6, <3>1
  <2> QED  BY <1>2, <2>1 DEF BookOK, Indexed
<1>7. Resting(b, k) = b.lad[s][p].orders[Pos(b.lad[s][p].orders, k)] /\ ~Dangling(b, k)
  BY <1>4 DEF Resting, Dangling, s, p
<1>8. b.byId[k].side = s /\ b.byId[k].price = p  BY DEF s, p
<1> QED  BY <1>1, <1>2, <1>4, <1>5, <1>6, <1>7, <1>8, Zenon DEF Rests, s, p

-----------------------------------------------------------------------------
(* The members of OrderBook                                                *)

\* deleteImpl
LEMMA DeleteOK ==
    ASSUME NEW b, BookOK(b), NEW k
    PROVE  /\ BookOK(Delete(b, k)) /\ Delete(b, k).synth = b.synth
           /\ DOMAIN Delete(b, k).byId = DOMAIN b.byId \ {k}
<1>1. CASE k \notin DOMAIN b.byId
  <2>1. Delete(b, k) = b  BY <1>1 DEF Delete, Located
  <2> QED  BY <1>1, <2>1
<1>2. CASE k \in DOMAIN b.byId
  <2> DEFINE s == b.byId[k].side
             p == b.byId[k].price
             lvl == b.lad[s][p]
             o == Resting(b, k)
             c == PutLevel(b, s, p, Unlist(lvl, o))
             f == Without(c.byId, k)
             d == [c EXCEPT !.byId = f]
  <2>1. Rests(b, k, s, p)  BY <1>2, RestingOK
  <2>2. Delete(b, k) = d  BY <1>2, <2>1, Zenon DEF Delete, Located, Rests
  <2> HIDE DEF s, p, o
  <2>3. LevelOK(s, p, Unlist(lvl, o)) /\ KeysOf(Unlist(lvl, o).orders) = KeysOf(lvl.orders) \ {k}
    <3>1. LevelOK(s, p, lvl) /\ k \in KeysOf(lvl.orders) /\ o = lvl.orders[Pos(lvl.orders, k)]
      BY <2>1 DEF Rests, o
    <3> HIDE DEF lvl
    <3> QED  BY <3>1, UnlistOK
  <2>4. s \in Sides /\ p \in Prices /\ IsBook(b) /\ LaddersOK(b) /\ Indexed(b)  BY <2>1 DEF Rests, BookOK
  <2>5. Replaced(b, c, s, p, Unlist(lvl, o))
    <3> DEFINE u == Unlist(lvl, o)
    <3> HIDE DEF u
    <3>1. LevelOK(s, p, u)  BY <2>3 DEF u
    <3>2. Replaced(b, PutLevel(b, s, p, u), s, p, u)  BY <2>4, <3>1, PutLevelOK
    <3> QED  BY <3>2 DEF u
  <2> DEFINE u == Unlist(lvl, o)
  <2>6. KeysOf(u.orders) = KeysAt(b, s, p) \ {k}  BY <2>1, <2>3 DEF Rests, KeysAt
  <2>7. Replaced(b, c, s, p, u)  BY <2>5
  <2> HIDE DEF c, u
  <2>8. IsBook(c) /\ LaddersOK(c) /\ c.byId = b.byId /\ c.synth = b.synth  BY <2>7 DEF Replaced
  <2>9. DOMAIN f = DOMAIN b.byId \ {k} /\ \A x \in DOMAIN f : f[x] = b.byId[x]
    BY <2>8 DEF Without, Restrict
  <2> HIDE DEF f
  <2>10. DOMAIN f \subseteq Keys /\ \A x \in DOMAIN f : f[x] \in Locs  BY <2>4, <2>9 DEF IsBook
  <2>11. IsBook(d) /\ LaddersOK(d) /\ d.byId = f /\ d.lad = c.lad /\ d.synth = c.synth
    BY <2>8, <2>10, IndexOK
  <2> HIDE DEF d
  <2>12. Indexed(d)
    <3> SUFFICES ASSUME NEW t \in Sides, NEW q \in Prices
                 PROVE  KeysAt(d, t, q) = {x \in DOMAIN d.byId : d.byId[x] = Loc(t, q)}
      BY DEF Indexed
    <3>1. KeysAt(d, t, q) = KeysAt(c, t, q)  BY <2>11 DEF KeysAt
    <3>2. KeysAt(b, t, q) = {x \in DOMAIN b.byId : b.byId[x] = Loc(t, q)}  BY <2>4 DEF Indexed
    <3>3. KeysAt(c, t, q) = KeysAt(b, t, q) \ {k}
      <4>1. CASE t = s /\ q = p  BY <2>6, <2>7, <4>1 DEF Replaced
      <4>2. CASE t # s \/ q # p
        <5>1. KeysAt(c, t, q) = KeysAt(b, t, q)  BY <2>7, <4>2 DEF Replaced
        <5>2. k \notin KeysAt(b, t, q)  BY <2>1, <4>2 DEF Rests
        <5> QED  BY <5>1, <5>2
      <4> QED  BY <4>1, <4>2
    <3> QED  BY <2>9, <2>11, <3>1, <3>2, <3>3
  <2> QED  BY <2>2, <2>8, <2>9, <2>11, <2>12 DEF BookOK
<1> QED  BY <1>1, <1>2

-----------------------------------------------------------------------------
(* Members of the book                                                     *)

\* An order that rests nowhere joins the back of its level and is indexed there.
LEMMA JoinOK ==
    ASSUME NEW c, IsBook(c), LaddersOK(c), NEW s \in Sides, NEW p \in Prices,
           NEW o \in OrdersOf(s, p), NEW f, DOMAIN f \subseteq Keys,
           \A k \in DOMAIN f : f[k] \in Locs,
           o.key \in DOMAIN f, f[o.key] = Loc(s, p),
           \A t \in Sides, q \in Prices :
               KeysAt(c, t, q) = {k \in DOMAIN f \ {o.key} : f[k] = Loc(t, q)}
    PROVE  LET d == [PutLevel(c, s, p, PushBack(LevelAt(c, s, p), o)) EXCEPT !.byId = f]
           IN  BookOK(d) /\ d.byId = f /\ d.synth = c.synth
<1> DEFINE lvl == LevelAt(c, s, p)
           u == PushBack(lvl, o)
           e == PutLevel(c, s, p, u)
           d == [e EXCEPT !.byId = f]
<1>1. LevelOK(s, p, lvl) /\ KeysOf(lvl.orders) = KeysAt(c, s, p)
  <2>1. CASE p \in DOMAIN c.lad[s]  BY <2>1 DEF LevelAt, KeysAt, LaddersOK
  <2>2. CASE p \notin DOMAIN c.lad[s]  BY <2>2, NewLevelOK DEF LevelAt, KeysAt
  <2> QED  BY <2>1, <2>2
<1>2. o.key \notin KeysOf(lvl.orders)  BY <1>1
<1> HIDE DEF lvl
<1>3. LevelOK(s, p, u) /\ KeysOf(u.orders) = KeysAt(c, s, p) \cup {o.key}  BY <1>1, <1>2, PushBackOK
<1> HIDE DEF u
<1>4. Replaced(c, e, s, p, u)  BY <1>3, PutLevelOK
<1> HIDE DEF e
<1>5. IsBook(e) /\ LaddersOK(e) /\ e.synth = c.synth  BY <1>4 DEF Replaced
<1>6. IsBook(d) /\ LaddersOK(d) /\ d.byId = f /\ d.lad = e.lad /\ d.synth = e.synth  BY <1>5, IndexOK
<1> HIDE DEF d
<1>7. Indexed(d)
  <2> SUFFICES ASSUME NEW t \in Sides, NEW q \in Prices
               PROVE  KeysAt(d, t, q) = {k \in DOMAIN f : f[k] = Loc(t, q)}
    BY <1>6 DEF Indexed
  <2>1. KeysAt(d, t, q) = KeysAt(e, t, q)  BY <1>6 DEF KeysAt
  <2>2. CASE t = s /\ q = p
    <3>1. KeysAt(e, t, q) = KeysAt(c, t, q) \cup {o.key}  BY <1>3, <1>4, <2>2 DEF Replaced
    <3> QED  BY <2>1, <2>2, <3>1
  <2>3. CASE t # s \/ q # p
    <3>1. KeysAt(e, t, q) = KeysAt(c, t, q)  BY <1>4, <2>3 DEF Replaced
    <3>2. Loc(t, q) # Loc(s, p)
      <4>1. Loc(t, q).side = t /\ Loc(s, p).side = s /\ Loc(t, q).price = q /\ Loc(s, p).price = p
        BY DEF Loc
      <4> QED  BY <2>3, <4>1
    <3> QED  BY <2>1, <3>1, <3>2
  <2> QED  BY <2>2, <2>3
<1> QED  BY <1>5, <1>6, <1>7 DEF BookOK, d, e, u, lvl

\* addImpl
LEMMA AddOK ==
    ASSUME NEW b, BookOK(b), NEW o \in Orders
    PROVE  /\ BookOK(Add(b, o)) /\ Add(b, o).synth = b.synth
           /\ DOMAIN Add(b, o).byId = DOMAIN b.byId \cup {o.key}
<1> DEFINE c == Delete(b, o.key)
           loc == [side |-> o.side, price |-> o.price]
           e == PutLevel(c, o.side, o.price, PushBack(LevelAt(c, o.side, o.price), o))
           f == With(c.byId, o.key, loc)
<1>1. BookOK(c) /\ c.synth = b.synth /\ DOMAIN c.byId = DOMAIN b.byId \ {o.key}  BY DeleteOK
<1> HIDE DEF c
<1>2. o.side \in Sides /\ o.price \in Prices /\ o.key \in Keys /\ o \in OrdersOf(o.side, o.price)
      /\ loc = Loc(o.side, o.price) /\ loc \in Locs
  BY DEF Orders, OrdersOf, Loc, Locs
<1>3. IsBook(c) /\ LaddersOK(c) /\ Indexed(c)  BY <1>1 DEF BookOK
<1>4. e.byId = c.byId
  <2>1. c = [lad |-> c.lad, byId |-> c.byId, agg |-> c.agg, synth |-> c.synth]  BY <1>3 DEF IsBook
  <2> QED  BY <2>1 DEF PutLevel
<1>5. Add(b, o) = [e EXCEPT !.byId = f]  BY <1>4 DEF Add, c
<1> HIDE DEF e, loc
<1>6. /\ DOMAIN f = DOMAIN c.byId \cup {o.key} /\ f[o.key] = loc
      /\ \A k \in DOMAIN c.byId : k # o.key => f[k] = c.byId[k]
  BY DEF With
<1> HIDE DEF f
<1>7. DOMAIN f \subseteq Keys /\ \A k \in DOMAIN f : f[k] \in Locs
  BY <1>2, <1>3, <1>6 DEF IsBook
<1>8. \A t \in Sides, q \in Prices : KeysAt(c, t, q) = {k \in DOMAIN f \ {o.key} : f[k] = Loc(t, q)}
  <2> TAKE t \in Sides, q \in Prices
  <2>1. KeysAt(c, t, q) = {k \in DOMAIN c.byId : c.byId[k] = Loc(t, q)}  BY <1>3 DEF Indexed
  <2> QED  BY <1>1, <1>6, <2>1
<1> DEFINE s == o.side
           p == o.price
<1>9. LET d == [PutLevel(c, s, p, PushBack(LevelAt(c, s, p), o)) EXCEPT !.byId = f]
      IN  BookOK(d) /\ d.byId = f /\ d.synth = c.synth
  <2>1. s \in Sides /\ p \in Prices /\ o \in OrdersOf(s, p) /\ f[o.key] = Loc(s, p) /\ o.key \in DOMAIN f
    BY <1>2, <1>6
  <2> HIDE DEF s, p
  <2> QED  BY <1>3, <1>7, <1>8, <2>1, JoinOK
<1> QED  BY <1>1, <1>5, <1>6, <1>9 DEF e

\* An order with a key that is new disturbs no other.
LEMMA AddFresh ==
    ASSUME NEW b, BookOK(b), NEW o \in Orders, o.key \notin DOMAIN b.byId, NEW x \in DOMAIN b.byId
    PROVE  Resting(Add(b, o), x) = Resting(b, x)
<1> DEFINE d == Add(b, o)
           s == o.side
           p == o.price
           lvl == LevelAt(b, s, p)
           u == PushBack(lvl, o)
           e == PutLevel(b, s, p, u)
           f == With(e.byId, o.key, Loc(s, p))
<1>1. s \in Sides /\ p \in Prices /\ o.key \in Keys /\ o \in OrdersOf(s, p)
  BY DEF Orders, OrdersOf
<1>2. IsBook(b) /\ LaddersOK(b) /\ Indexed(b)  BY DEF BookOK
<1>3. d = [e EXCEPT !.byId = f]
  <2>1. Delete(b, o.key) = b  BY DEF Delete, Located
  <2> QED  BY <2>1, Zenon DEF Add, Loc
<1> HIDE DEF s, p
<1>4. LevelOK(s, p, lvl) /\ KeysOf(lvl.orders) = KeysAt(b, s, p)
  <2>1. CASE p \in DOMAIN b.lad[s]  BY <1>1, <1>2, <2>1 DEF LevelAt, KeysAt, LaddersOK
  <2>2. CASE p \notin DOMAIN b.lad[s]  BY <2>2, NewLevelOK DEF LevelAt, KeysAt
  <2> QED  BY <2>1, <2>2
<1>5. o.key \notin KeysOf(lvl.orders)  BY <1>1, <1>2, <1>4 DEF Indexed
<1>6. u.orders = Append(lvl.orders, o)  BY DEF PushBack
<1> HIDE DEF lvl
<1>7. LevelOK(s, p, u) /\ u.orders # <<>>  BY <1>1, <1>4, <1>5, PushBackOK
<1> HIDE DEF u
<1>8. Replaced(b, e, s, p, u)  BY <1>1, <1>2, <1>7, PutLevelOK
<1> HIDE DEF e
<1>9. d.lad = e.lad /\ d.byId = f /\ e.byId = b.byId
  <2>1. e = [lad |-> e.lad, byId |-> e.byId, agg |-> e.agg, synth |-> e.synth]  BY <1>8 DEF Replaced, IsBook
  <2> HIDE DEF f
  <2> QED  BY <1>3, <1>8, <2>1 DEF Replaced
<1>10. f[x] = b.byId[x] /\ x \in DOMAIN f  BY <1>9 DEF With
<1>11. BookOK(d)  BY AddOK
<1> HIDE DEF d, f
<1> DEFINE t == b.byId[x].side
           q == b.byId[x].price
           os == b.lad[t][q].orders
           zs == d.lad[t][q].orders
           i == Pos(os, x)
           j == Pos(zs, x)
<1>12. /\ t \in Sides /\ q \in Prices /\ q \in DOMAIN b.lad[t] /\ x \in KeysOf(os)
       /\ Resting(b, x) = os[i]
  <2>1. Rests(b, x, t, q)  BY RestingOK
  <2> QED  BY <2>1, Zenon DEF Rests
<1>13. x \in KeysOf(zs) /\ OneEach(zs) /\ Resting(d, x) = zs[j]
  <2>1. x \in DOMAIN d.byId /\ d.byId[x] = b.byId[x]  BY <1>9, <1>10
  <2>2. Rests(d, x, d.byId[x].side, d.byId[x].price)  BY <1>11, <2>1, RestingOK
  <2>3. Rests(d, x, t, q)  BY <2>1, <2>2
  <2> QED  BY <2>3, Zenon DEF Rests, LevelOK
<1>14. i \in DOMAIN os /\ os[i].key = x /\ j \in DOMAIN zs /\ zs[j].key = x
  BY <1>12, <1>13, Zenon DEF KeysOf, Pos
<1>15. i \in DOMAIN zs /\ zs[i] = os[i]
  <2>1. CASE t # s \/ q # p
    <3>1. KeysAt(d, t, q) = KeysAt(b, t, q) /\ LevelAt(d, t, q) = LevelAt(b, t, q)
      BY <1>8, <1>9, <1>12, <2>1 DEF Replaced, KeysAt, LevelAt
    <3>2. x \in KeysAt(d, t, q)  BY <1>12, <3>1 DEF KeysAt
    <3>3. q \in DOMAIN d.lad[t]  BY <3>2 DEF KeysAt
    <3>4. zs = os  BY <1>12, <3>1, <3>3 DEF LevelAt
    <3> QED  BY <1>14, <3>4, Zenon
  <2>2. CASE t = s /\ q = p
    <3>1. zs = u.orders /\ lvl.orders = os
      BY <1>7, <1>8, <1>9, <1>12, <2>2 DEF Replaced, lvl, LevelAt
    <3>2. os \in Seq(OrdersOf(s, p)) /\ zs = Append(os, o)  BY <1>4, <1>6, <3>1, Zenon DEF LevelOK
    <3> DEFINE S == OrdersOf(s, p)
    <3>3. os \in Seq(S) /\ o \in S  BY <1>1, <3>2, Zenon
    <3> HIDE DEF S, os, zs, i
    <3> QED  BY <1>14, <3>2, <3>3
  <2> QED  BY <2>1, <2>2, Zenon
<1>16. i = j  BY <1>13, <1>14, <1>15, Zenon DEF OneEach
<1> QED  BY <1>12, <1>13, <1>15, <1>16, Zenon DEF d

\* A level changed, the keys in it not.
LEMMA SameKeysOK ==
    ASSUME NEW b, BookOK(b), NEW s \in Sides, NEW p \in Prices,
           NEW lvl, LevelOK(s, p, lvl), KeysOf(lvl.orders) = KeysAt(b, s, p)
    PROVE  /\ BookOK(PutLevel(b, s, p, lvl)) /\ PutLevel(b, s, p, lvl).synth = b.synth
           /\ PutLevel(b, s, p, lvl).byId = b.byId
<1> DEFINE c == PutLevel(b, s, p, lvl)
<1>1. IsBook(b) /\ LaddersOK(b) /\ Indexed(b)  BY DEF BookOK
<1>2. Replaced(b, c, s, p, lvl)  BY <1>1, PutLevelOK
<1> HIDE DEF c
<1>3. \A t \in Sides, q \in Prices : KeysAt(c, t, q) = KeysAt(b, t, q)  BY <1>2 DEF Replaced
<1>4. Indexed(c)  BY <1>1, <1>2, <1>3 DEF Indexed, Replaced
<1> QED  BY <1>2, <1>4 DEF BookOK, Replaced, c

\* updateImpl
LEMMA UpdateOK ==
    ASSUME NEW b, BookOK(b), NEW k, NEW np \in Prices \cup {None}, NEW nz \in Nat \cup {None}
    PROVE  /\ BookOK(Update(b, k, np, nz)) /\ Update(b, k, np, nz).synth = b.synth
           /\ DOMAIN Update(b, k, np, nz).byId \subseteq DOMAIN b.byId
<1>1. CASE k \notin DOMAIN b.byId
  BY <1>1, Zenon DEF Update, Located
<1>2. CASE k \in DOMAIN b.byId
  <2> DEFINE s == b.byId[k].side
             p == b.byId[k].price
             lvl == b.lad[s][p]
             os == lvl.orders
             o == Resting(b, k)
             i == Pos(os, k)
             x == Target(np, o.price)
             z == Target(nz, o.size)
             tgt == [o EXCEPT !.price = x, !.size = z]
  <2>1. Rests(b, k, s, p)  BY <1>2, RestingOK
  <2>2. /\ s \in Sides /\ p \in Prices /\ k \in Keys /\ LevelOK(s, p, lvl) /\ k \in KeysOf(os)
        /\ o = os[i] /\ IsBook(b) /\ LaddersOK(b) /\ Indexed(b) /\ ~Dangling(b, k) /\ p \in DOMAIN b.lad[s]
        /\ b.byId[k] = Loc(s, p)
    BY <2>1, Zenon DEF Rests, BookOK
  <2>3. i \in 1 .. Len(os) /\ o.key = k /\ o \in OrdersOf(s, p)
    <3>1. Erased(OrdersOf(s, p), lvl.orders, k, Pos(lvl.orders, k), Drop(lvl.orders, k))
      <4> HIDE DEF lvl, s, p
      <4> QED  BY <2>2, DropOK
    <3> QED  BY <2>2, <3>1, Zenon DEF Erased
  <2>4. os \in Seq(OrdersOf(s, p)) /\ OneEach(os) /\ lvl.total = SizeSum(os) /\ Sized(os)
    <3>1. os \in Seq(OrdersOf(s, p)) /\ OneEach(os) /\ lvl.total = SizeSum(os)  BY <2>2, Zenon DEF LevelOK
    <3> QED  BY <3>1, LevelSized, Zenon
  <2> HIDE DEF s, p, o, i
  <2>5. x \in Prices /\ z \in Nat /\ o.price = p /\ o.side = s /\ o \in Orders
    BY <2>2, <2>3 DEF Target, OrdersOf, Orders
  <2> HIDE DEF x, z
  <2>6. tgt \in OrdersOf(s, x) /\ tgt.key = k /\ tgt.size = z /\ tgt.price = x
    BY <2>3, <2>5 DEF OrdersOf, Orders
  <2> HIDE DEF tgt
  <2>7. CASE z = 0
    <3>1. Update(b, k, np, nz) = Delete(b, k)
      BY <1>2, <2>2, <2>6, <2>7 DEF Update, Located, tgt, o, x, z
    <3> QED  BY <3>1, DeleteOK
  <2>8. CASE z # 0 /\ x = p
    <3> DEFINE y == [os EXCEPT ![i] = tgt]
               new == [orders |-> y, total |-> lvl.total - o.size + z]
    <3>1. Update(b, k, np, nz) = PutLevel(b, s, p, new)
      <4>1. tgt.size # 0 /\ tgt.price = o.price  BY <2>5, <2>6, <2>8
      <4>2. Update(b, k, np, nz) = PutLevel(b, s, p,
                           [orders |-> [lvl.orders EXCEPT ![Pos(lvl.orders, k)] = tgt],
                            total  |-> lvl.total - o.size + tgt.size])
        BY <1>2, <2>2, <4>1, Zenon DEF Update, Located, tgt, o, x, z, s, p
      <4> QED  BY <2>6, <4>2 DEF i
    <3>2. SizeSum(y) = SizeSum(os) - o.size + z
      <4>1. tgt \in OrdersOf(s, p) /\ tgt.size \in Nat  BY <2>5, <2>6, <2>8
      <4> QED  BY <2>2, <2>3, <2>4, <2>6, <4>1, SumReplace
    <3>3. /\ y \in Seq(OrdersOf(s, p)) /\ DOMAIN y = DOMAIN os
          /\ \A j \in DOMAIN os : y[j].key = os[j].key
      <4>1. tgt \in OrdersOf(s, p)  BY <2>6, <2>8
      <4> DEFINE S == OrdersOf(s, p)
      <4>2. y \in Seq(S) /\ DOMAIN y = DOMAIN os /\ \A j \in DOMAIN os : y[j] = IF j = i THEN tgt ELSE os[j]
        <5> HIDE DEF S, os
        <5> QED  BY <2>3, <2>4, <4>1 DEF S
      <4> QED  BY <2>2, <2>3, <2>6, <4>2
    <3> HIDE DEF y
    <3>4. KeysOf(y) = KeysOf(os) /\ OneEach(y)
      <4>1. KeysOf(y) = KeysOf(os)  BY ONLY <3>3 DEF KeysOf
      <4>2. OneEach(os)  BY <2>4
      <4>3. OneEach(y)  BY ONLY <3>3, <4>2 DEF OneEach
      <4> QED  BY <4>1, <4>3
    <3>5. LevelOK(s, p, new) /\ KeysOf(new.orders) = KeysAt(b, s, p)
      BY <2>2, <2>4, <3>2, <3>3, <3>4 DEF LevelOK, KeysAt
    <3> HIDE DEF new
    <3> QED  BY <2>2, <3>1, <3>5, SameKeysOK
  <2>9. CASE z # 0 /\ x # p
    <3> DEFINE u == Unlist(lvl, o)
               c == PutLevel(b, s, p, u)
               e == PutLevel(c, s, x, PushBack(LevelAt(c, s, x), tgt))
               f == [e.byId EXCEPT ![k].price = x]
    <3>1. Update(b, k, np, nz) = [e EXCEPT !.byId[k].price = x]
      <4>1. tgt.size # 0 /\ tgt.price # o.price  BY <2>5, <2>6, <2>9
      <4>2. Update(b, k, np, nz) =
              LET out == PutLevel(b, s, p, Unlist(lvl, o))
                  put == PutLevel(out, s, tgt.price, PushBack(LevelAt(out, s, tgt.price), tgt))
              IN  [put EXCEPT !.byId[k].price = tgt.price]
        BY <1>2, <2>2, <4>1, Zenon DEF Update, Located, tgt, o, x, z, s, p
      <4> QED  BY <2>6, <4>2
    <3>2. LevelOK(s, p, u) /\ KeysOf(u.orders) = KeysOf(os) \ {k}
      <4> HIDE DEF lvl
      <4> QED  BY <2>2, UnlistOK DEF i, os
    <3> HIDE DEF u
    <3>3. Replaced(b, c, s, p, u)  BY <2>2, <3>2, PutLevelOK
    <3> HIDE DEF c
    <3>4. IsBook(c) /\ LaddersOK(c) /\ c.byId = b.byId /\ c.synth = b.synth  BY <3>3 DEF Replaced
    <3>5. \A t \in Sides, q \in Prices : KeysAt(c, t, q) = KeysAt(b, t, q) \ {k}
      <4> TAKE t \in Sides, q \in Prices
      <4>1. CASE t = s /\ q = p  BY <2>2, <3>2, <3>3, <4>1 DEF Replaced, KeysAt
      <4>2. CASE t # s \/ q # p  BY <2>1, <3>3, <4>2 DEF Replaced, Rests
      <4> QED  BY <4>1, <4>2
    <3>6. e.byId = c.byId
      <4>1. c = [lad |-> c.lad, byId |-> c.byId, agg |-> c.agg, synth |-> c.synth]  BY <3>4 DEF IsBook
      <4> QED  BY <4>1 DEF PutLevel
    <3>7. [e EXCEPT !.byId[k].price = x] = [e EXCEPT !.byId = f]  OBVIOUS
    <3> HIDE DEF e
    <3>8. DOMAIN f = DOMAIN b.byId /\ f[k] = Loc(s, x) /\ \A j \in DOMAIN b.byId : j # k => f[j] = b.byId[j]
      <4>1. [Loc(s, p) EXCEPT !.price = x] = Loc(s, x)  BY DEF Loc
      <4> QED  BY <1>2, <2>2, <3>4, <3>6, <4>1
    <3> HIDE DEF f
    <3>9. DOMAIN f \subseteq Keys /\ \A j \in DOMAIN f : f[j] \in Locs
      <4>1. Loc(s, x) \in Locs  BY <2>2, <2>5 DEF Loc, Locs
      <4> QED  BY <2>2, <3>8, <4>1 DEF IsBook
    <3>10. \A t \in Sides, q \in Prices : KeysAt(c, t, q) = {j \in DOMAIN f \ {tgt.key} : f[j] = Loc(t, q)}
      <4> TAKE t \in Sides, q \in Prices
      <4>1. KeysAt(b, t, q) = {j \in DOMAIN b.byId : b.byId[j] = Loc(t, q)}  BY <2>2 DEF Indexed
      <4> QED  BY <2>6, <3>5, <3>8, <4>1
    <3>11. LET d == [e EXCEPT !.byId = f]
           IN  BookOK(d) /\ d.byId = f /\ d.synth = c.synth
      <4>1. k \in DOMAIN f /\ f[tgt.key] = Loc(s, x)  BY <1>2, <2>6, <3>8
      <4> QED  BY <2>2, <2>5, <2>6, <3>4, <3>9, <3>10, <4>1, JoinOK DEF e
    <3> QED  BY <3>1, <3>4, <3>7, <3>8, <3>11
  <2> QED  BY <2>7, <2>8, <2>9
<1> QED  BY <1>1, <1>2

\* priorityImpl
LEMMA PriorityOK ==
    ASSUME NEW b, BookOK(b), NEW k, NEW prio \in Priorities
    PROVE  /\ BookOK(Priority(b, k, prio)) /\ Priority(b, k, prio).synth = b.synth
           /\ Priority(b, k, prio).byId = b.byId
<1>1. CASE k \notin DOMAIN b.byId
  BY <1>1, Zenon DEF Priority, PriorityChanges, Located
<1>2. CASE k \in DOMAIN b.byId
  <2> DEFINE s == b.byId[k].side
             p == b.byId[k].price
             lvl == b.lad[s][p]
             o == Resting(b, k)
             new == [o EXCEPT !.prio = prio]
             u == Unlist(lvl, o)
             w == PushBack(u, new)
  <2>1. Rests(b, k, s, p)  BY <1>2, RestingOK
  <2>2. /\ s \in Sides /\ p \in Prices /\ LevelOK(s, p, lvl) /\ k \in KeysOf(lvl.orders)
        /\ o = lvl.orders[Pos(lvl.orders, k)] /\ ~Dangling(b, k) /\ p \in DOMAIN b.lad[s]
    BY <2>1, Zenon DEF Rests
  <2>3. CASE ~PriorityChanges(b, k, prio)
    <3>1. Priority(b, k, prio) = b  BY <2>2, <2>3, Zenon DEF Priority
    <3> QED  BY <3>1
  <2>4. CASE PriorityChanges(b, k, prio)
    <3>1. Priority(b, k, prio) = PutLevel(b, s, p, [lvl EXCEPT !.orders = Append(Drop(lvl.orders, k), new)])
      BY <2>2, <2>4, Zenon DEF Priority
    <3> HIDE DEF s, p, o
    <3>2. LevelOK(s, p, u) /\ KeysOf(u.orders) = KeysOf(lvl.orders) \ {k} /\ o \in OrdersOf(s, p) /\ o.key = k
      <4> HIDE DEF lvl
      <4> QED  BY <2>2, UnlistOK
    <3>3. /\ lvl.total = SizeSum(lvl.orders) /\ lvl = [orders |-> lvl.orders, total |-> lvl.total]
          /\ SizeSum(lvl.orders) >= o.size /\ SizeSum(lvl.orders) \in Nat /\ o.size \in Nat
      <4> HIDE DEF lvl
      <4>1. Erased(OrdersOf(s, p), lvl.orders, k, Pos(lvl.orders, k), Drop(lvl.orders, k))  BY <2>2, DropOK
      <4>2. lvl.total = SizeSum(lvl.orders) /\ lvl = [orders |-> lvl.orders, total |-> lvl.total]
            /\ lvl.orders \in Seq(OrdersOf(s, p))
        BY <2>2 DEF LevelOK
      <4>3. SizeSum(lvl.orders) \in Nat  BY <4>2, LevelSized, SumNat
      <4>4. o.size \in Nat  BY <3>2 DEF OrdersOf, Orders
      <4> QED  BY <2>2, <4>1, <4>2, <4>3, <4>4 DEF Erased
    <3>4. new \in OrdersOf(s, p) /\ new.key = k /\ new.size = o.size
      BY <3>2 DEF OrdersOf, Orders
    <3> HIDE DEF new
    <3>5. u.orders = Drop(lvl.orders, k) /\ u.total = lvl.total - o.size
      BY <3>2, <3>3 DEF Unlist, Minus
    <3> DEFINE z == Append(Drop(lvl.orders, k), new)
    <3>6. w = [orders |-> z, total |-> lvl.total]
      <4>1. w = [orders |-> Append(u.orders, new), total |-> u.total + new.size]  BY DEF PushBack
      <4>2. Append(u.orders, new) = z  BY <3>5, Zenon
      <4> HIDE DEF u, w, z, lvl
      <4>3. u.total + new.size = lvl.total  BY <3>3, <3>4, <3>5
      <4> QED  BY <4>1, <4>2, <4>3, Zenon
    <3>7. [lvl EXCEPT !.orders = z] = w
      <4> HIDE DEF lvl, w, z
      <4>1. lvl = [orders |-> lvl.orders, total |-> lvl.total]  BY <3>3
      <4> QED  BY ONLY <3>6, <4>1
    <3> HIDE DEF u
    <3>8. LevelOK(s, p, w) /\ KeysOf(w.orders) = KeysOf(u.orders) \cup {k}
      BY <3>2, <3>4, PushBackOK
    <3> HIDE DEF w
    <3>9. KeysOf(w.orders) = KeysAt(b, s, p)  BY <2>2, <3>2, <3>8 DEF KeysAt
    <3> HIDE DEF lvl
    <3>10. BookOK(PutLevel(b, s, p, w)) /\ PutLevel(b, s, p, w).synth = b.synth
           /\ PutLevel(b, s, p, w).byId = b.byId
      <4>1. s \in Sides /\ p \in Prices  BY <2>2
      <4> QED  BY <3>8, <3>9, <4>1, SameKeysOK
    <3>11. Priority(b, k, prio) = PutLevel(b, s, p, w)  BY <3>1, <3>7, Zenon
    <3> QED  BY <3>10, <3>11, Zenon
  <2> QED  BY <2>3, <2>4
<1> QED  BY <1>1, <1>2

\* What a trade leaves of each order of a level.
LEMMA FillOK ==
    ASSUME NEW s, NEW p, NEW os \in Seq(OrdersOf(s, p)), NEW qty \in Nat
    PROVE  /\ Fill(os, qty) \in Seq(OrdersOf(s, p)) /\ DOMAIN Fill(os, qty) = DOMAIN os
           /\ \A i \in DOMAIN os : Fill(os, qty)[i].key = os[i].key
<1> DEFINE n == Len(os)
           S == OrdersOf(s, p)
           left(i) == Minus(qty, SizeSum(SubSeq(os, 1, i - 1)))
           one(i) == [os[i] EXCEPT !.size = Minus(@, left(i))]
<1>1. n \in Nat /\ DOMAIN os = 1 .. n /\ \A i \in 1 .. n : os[i] \in S
  <2>1. os \in Seq(S)  OBVIOUS
  <2> HIDE DEF S
  <2> QED  BY ONLY <2>1 DEF n
<1>2. Fill(os, qty) = [i \in DOMAIN os |-> one(i)]  BY DEF Fill
<1>3. ASSUME NEW i \in 1 .. n PROVE one(i) \in S /\ one(i).key = os[i].key
  <2>1. left(i) \in Nat
    <3>1. SubSeq(os, 1, i - 1) \in Seq(S)
      <4> HIDE DEF S
      <4> QED  BY <1>1
    <3>2. SizeSum(SubSeq(os, 1, i - 1)) \in Nat
      <4> DEFINE h == SubSeq(os, 1, i - 1)
      <4> HIDE DEF h
      <4>1. h \in Seq(OrdersOf(s, p))  BY <3>1 DEF h, S
      <4>2. Sized(h)  BY <4>1, LevelSized
      <4>3. SizeSum(h) \in Nat  BY <4>2, SumNat
      <4> QED  BY <4>3 DEF h
    <3> QED  BY <3>2 DEF Minus
  <2> HIDE DEF left
  <2>2. os[i] \in Orders /\ os[i].side = s /\ os[i].price = p  BY <1>1 DEF OrdersOf
  <2>3. Minus(os[i].size, left(i)) \in Nat  BY <2>1, <2>2 DEF Minus, Orders
  <2> QED  BY <2>2, <2>3 DEF OrdersOf, Orders
<1> HIDE DEF one
<1>4. Fill(os, qty) \in Seq(S)
  <2> HIDE DEF S
  <2> QED  BY <1>1, <1>2, <1>3
<1> QED  BY <1>1, <1>2, <1>3, <1>4

\* The orders at the other places, each once.
LEMMA UnspentOK ==
    ASSUME NEW S, NEW os \in Seq(S), OneEach(os), NEW spent \in SUBSET DOMAIN os
    PROVE  /\ Unspent(os, spent) \in Seq(S) /\ OneEach(Unspent(os, spent))
           /\ KeysOf(Unspent(os, spent)) = KeysOf(os) \ {os[i].key : i \in spent}
<1> DEFINE n == Len(os)
           seqs == [i \in DOMAIN os |-> IF i \in spent THEN <<>> ELSE <<os[i]>>]
           z == Unspent(os, spent)
<1>1. n \in Nat /\ DOMAIN os = 1 .. n /\ \A i \in 1 .. n : os[i] \in S  OBVIOUS
<1>2. /\ seqs \in Seq(Seq(S)) /\ DOMAIN seqs = 1 .. n
      /\ \A i \in 1 .. n : seqs[i] = IF i \in spent THEN <<>> ELSE <<os[i]>>
  <2>1. \A i \in 1 .. n : (IF i \in spent THEN <<>> ELSE <<os[i]>>) \in Seq(S)  BY <1>1
  <2> QED  BY <1>1, <2>1
<1>3. z = FlattenSeq(seqs)  BY DEF Unspent
<1> HIDE DEF n, seqs, z
<1>4. \A i \in 1 .. n : \A k \in DOMAIN seqs[i] : i \notin spent /\ k = 1 /\ seqs[i][k] = os[i]
  <2> SUFFICES ASSUME NEW i \in 1 .. n, NEW k \in DOMAIN seqs[i]
               PROVE  i \notin spent /\ k = 1 /\ seqs[i][k] = os[i]
    OBVIOUS
  <2>1. CASE i \in spent
    <3>1. seqs[i] = <<>> /\ DOMAIN <<>> = {}  BY <1>2, <2>1
    <3> QED  BY <3>1
  <2>2. CASE i \notin spent
    <3>1. seqs[i] = <<os[i]>>  BY <1>2, <2>2
    <3>2. DOMAIN <<os[i]>> = 1 .. 1 /\ <<os[i]>>[1] = os[i]  OBVIOUS
    <3>3. k = 1  BY <3>1, <3>2
    <3> QED  BY <2>2, <3>1, <3>2, <3>3
  <2> QED  BY <2>1, <2>2
<1>5. \A i \in 1 .. n : i \notin spent => 1 \in DOMAIN seqs[i] /\ seqs[i][1] = os[i]
  <2> SUFFICES ASSUME NEW i \in 1 .. n, i \notin spent
               PROVE  1 \in DOMAIN seqs[i] /\ seqs[i][1] = os[i]
    OBVIOUS
  <2>1. seqs[i] = <<os[i]>>  BY <1>2
  <2>2. DOMAIN <<os[i]>> = 1 .. 1 /\ <<os[i]>>[1] = os[i]  OBVIOUS
  <2> QED  BY <2>1, <2>2
<1>6. EntriesDiffer(seqs)
  <2>1. \A i \in DOMAIN seqs : Injects(seqs[i])  BY <1>2, <1>4 DEF Injects
  <2>2. \A i1, i2 \in DOMAIN seqs : \A k1 \in DOMAIN seqs[i1], k2 \in DOMAIN seqs[i2] :
           seqs[i1][k1] = seqs[i2][k2] => i1 = i2
    BY <1>1, <1>2, <1>4 DEF OneEach
  <2> QED  BY <2>1, <2>2 DEF EntriesDiffer
<1>7. z \in Seq(S) /\ SameEntries(z, seqs) /\ Injects(z)  BY <1>2, <1>3, <1>6, FlattenFacts
<1>8. \A j \in DOMAIN z : \E i \in 1 .. n : i \notin spent /\ z[j] = os[i]
  <2> SUFFICES ASSUME NEW j \in DOMAIN z PROVE \E i \in 1 .. n : i \notin spent /\ z[j] = os[i]
    OBVIOUS
  <2>1. PICK i \in DOMAIN seqs : \E k \in DOMAIN seqs[i] : z[j] = seqs[i][k]  BY <1>7 DEF SameEntries
  <2> QED  BY <1>2, <1>4, <2>1
<1>9. \A i \in 1 .. n : i \notin spent => \E j \in DOMAIN z : z[j] = os[i]
  <2> SUFFICES ASSUME NEW i \in 1 .. n, i \notin spent PROVE \E j \in DOMAIN z : z[j] = os[i]
    OBVIOUS
  <2>1. i \in DOMAIN seqs /\ 1 \in DOMAIN seqs[i] /\ seqs[i][1] = os[i]  BY <1>2, <1>5
  <2>2. PICK j \in DOMAIN z : z[j] = seqs[i][1]  BY <1>7, <2>1 DEF SameEntries
  <2> QED  BY <2>1, <2>2
<1>10. OneEach(z)
  <2> SUFFICES ASSUME NEW a \in DOMAIN z, NEW c \in DOMAIN z, z[a].key = z[c].key PROVE a = c
    BY DEF OneEach
  <2>1. PICK i \in 1 .. n : z[a] = os[i]  BY <1>8
  <2>2. PICK j \in 1 .. n : z[c] = os[j]  BY <1>8
  <2>3. i = j  BY <1>1, <2>1, <2>2 DEF OneEach
  <2> QED  BY <1>7, <2>1, <2>2, <2>3 DEF Injects
<1>11. KeysOf(z) = KeysOf(os) \ {os[i].key : i \in spent}
  <2>1. ASSUME NEW x \in KeysOf(z) PROVE x \in KeysOf(os) \ {os[i].key : i \in spent}
    <3>1. PICK j \in DOMAIN z : x = z[j].key  BY <2>1 DEF KeysOf
    <3>2. PICK i \in 1 .. n : i \notin spent /\ z[j] = os[i]  BY <1>8
    <3>3. x \in KeysOf(os)  BY <1>1, <3>1, <3>2 DEF KeysOf
    <3>4. ASSUME NEW m \in spent, x = os[m].key PROVE FALSE
      BY <1>1, <3>1, <3>2, <3>4 DEF OneEach
    <3> QED  BY <3>3, <3>4
  <2>2. ASSUME NEW x \in KeysOf(os) \ {os[i].key : i \in spent} PROVE x \in KeysOf(z)
    <3>1. PICK i \in 1 .. n : x = os[i].key  BY <1>1, <2>2 DEF KeysOf
    <3>2. i \notin spent  BY <2>2, <3>1
    <3>3. PICK j \in DOMAIN z : z[j] = os[i]  BY <1>9, <3>2
    <3> QED  BY <3>1, <3>3 DEF KeysOf
  <2> QED  BY <2>1, <2>2
<1> QED  BY <1>7, <1>10, <1>11 DEF z

\* consumeAtLevel
LEMMA ConsumeOK ==
    ASSUME NEW b, BookOK(b), NEW s \in Sides, NEW p \in Prices, NEW qty \in Nat
    PROVE  /\ BookOK(Consume(b, s, p, qty)) /\ Consume(b, s, p, qty).synth = b.synth
           /\ DOMAIN Consume(b, s, p, qty).byId \subseteq DOMAIN b.byId
<1>1. CASE p \notin DOMAIN b.lad[s]
  BY <1>1 DEF Consume
<1>2. CASE p \in DOMAIN b.lad[s]
  <2> DEFINE lvl == b.lad[s][p]
             os == lvl.orders
             cut == Fill(os, qty)
             spent == Spent(os, qty)
             z == Unspent(cut, spent)
             new == [orders |-> z, total |-> lvl.total - (SizeSum(os) - SizeSum(cut))]
             c == PutLevel(b, s, p, new)
             gone == {cut[i].key : i \in spent}
             f == Restrict(c.byId, DOMAIN c.byId \ gone)
             d == [c EXCEPT !.byId = f]
  <2>1. Consume(b, s, p, qty) = d  BY <1>2 DEF Consume
  <2>2. IsBook(b) /\ LaddersOK(b) /\ Indexed(b) /\ LevelOK(s, p, lvl)  BY <1>2 DEF BookOK, LaddersOK
  <2>3. os \in Seq(OrdersOf(s, p)) /\ OneEach(os) /\ lvl.total = SizeSum(os)  BY <2>2 DEF LevelOK
  <2>4. KeysAt(b, s, p) = KeysOf(os)  BY <1>2 DEF KeysAt
  <2> HIDE DEF lvl
  <2>5. spent \subseteq DOMAIN cut /\ \A i \in spent \cap DOMAIN cut : cut[i].size = 0
    <3>1. DOMAIN cut = DOMAIN os  BY <2>3, FillOK
    <3> QED  BY <3>1 DEF Spent
  <2>6. cut \in Seq(OrdersOf(s, p)) /\ OneEach(cut) /\ KeysOf(cut) = KeysOf(os) /\ Sized(cut)
    <3>1. /\ cut \in Seq(OrdersOf(s, p)) /\ DOMAIN cut = DOMAIN os
          /\ \A i \in DOMAIN os : cut[i].key = os[i].key
      <4> HIDE DEF os, spent
      <4> QED  BY <2>3, FillOK
    <3> HIDE DEF cut, os
    <3>2. OneEach(cut) /\ KeysOf(cut) = KeysOf(os)  BY <2>3, <3>1 DEF OneEach, KeysOf
    <3>3. Sized(cut)  BY <3>1, LevelSized
    <3> QED  BY <3>1, <3>2, <3>3
  <2> HIDE DEF cut, spent
  <2>7. SizeSum(os) \in Nat /\ SizeSum(cut) \in Nat
    <3>1. Sized(os)  BY <2>3, LevelSized
    <3> QED  BY <2>6, <3>1, SumNat
  <2>8. z \in Seq(OrdersOf(s, p)) /\ OneEach(z) /\ KeysOf(z) = KeysOf(os) \ gone /\ SizeSum(z) = SizeSum(cut)
    <3> DEFINE S == OrdersOf(s, p)
    <3>1. cut \in Seq(S) /\ spent \in SUBSET DOMAIN cut  BY <2>5, <2>6
    <3> HIDE DEF S
    <3>2. z \in Seq(S) /\ OneEach(z) /\ KeysOf(z) = KeysOf(cut) \ {cut[i].key : i \in spent}
      BY <2>6, <3>1, UnspentOK
    <3>3. SizeSum(z) = SizeSum(cut)  BY <2>5, <2>6, <3>1, SumUnspent
    <3> QED  BY <2>6, <3>2, <3>3 DEF S
  <2>9. LevelOK(s, p, new) /\ KeysOf(new.orders) = KeysAt(b, s, p) \ gone
    <3>1. new.orders = z /\ new.total = SizeSum(z)  BY <2>3, <2>7, <2>8
    <3> HIDE DEF z, gone
    <3>2. new = [orders |-> new.orders, total |-> new.total]  OBVIOUS
    <3> HIDE DEF new
    <3> QED  BY <2>4, <2>8, <3>1, <3>2 DEF LevelOK
  <2>10. gone \subseteq KeysAt(b, s, p)
    <3>1. gone \subseteq KeysOf(cut)  BY <2>5 DEF KeysOf
    <3> QED  BY <2>4, <2>6, <3>1
  <2> HIDE DEF new, gone
  <2>11. Replaced(b, c, s, p, new)  BY <2>2, <2>9, PutLevelOK
  <2> HIDE DEF c
  <2>12. IsBook(c) /\ LaddersOK(c) /\ c.byId = b.byId /\ c.synth = b.synth  BY <2>11 DEF Replaced
  <2>13. DOMAIN f = DOMAIN b.byId \ gone /\ \A x \in DOMAIN f : f[x] = b.byId[x]
    BY <2>12 DEF Restrict
  <2> HIDE DEF f
  <2>14. DOMAIN f \subseteq Keys /\ \A x \in DOMAIN f : f[x] \in Locs  BY <2>2, <2>13 DEF IsBook
  <2>15. IsBook(d) /\ LaddersOK(d) /\ d.byId = f /\ d.lad = c.lad /\ d.synth = c.synth
    BY <2>12, <2>14, IndexOK
  <2> HIDE DEF d
  <2>16. Indexed(d)
    <3> SUFFICES ASSUME NEW t \in Sides, NEW q \in Prices
                 PROVE  KeysAt(d, t, q) = {x \in DOMAIN d.byId : d.byId[x] = Loc(t, q)}
      BY DEF Indexed
    <3>1. KeysAt(d, t, q) = KeysAt(c, t, q)  BY <2>15 DEF KeysAt
    <3>2. KeysAt(b, t, q) = {x \in DOMAIN b.byId : b.byId[x] = Loc(t, q)}  BY <2>2 DEF Indexed
    <3>3. KeysAt(c, t, q) = KeysAt(b, t, q) \ gone
      <4>1. CASE t = s /\ q = p  BY <2>9, <2>11, <4>1 DEF Replaced
      <4>2. CASE t # s \/ q # p
        <5>1. KeysAt(c, t, q) = KeysAt(b, t, q)  BY <2>11, <4>2 DEF Replaced
        <5>2. Loc(t, q) # Loc(s, p)
          <6>1. Loc(t, q).side = t /\ Loc(s, p).side = s /\ Loc(t, q).price = q /\ Loc(s, p).price = p
            BY DEF Loc
          <6> QED  BY <4>2, <6>1
        <5>3. \A x \in gone : b.byId[x] = Loc(s, p)  BY <2>2, <2>10 DEF Indexed
        <5> QED  BY <3>2, <5>1, <5>2, <5>3
      <4> QED  BY <4>1, <4>2
    <3> QED  BY <2>13, <2>15, <3>1, <3>2, <3>3
  <2> QED  BY <2>1, <2>12, <2>13, <2>15, <2>16 DEF BookOK
<1> QED  BY <1>1, <1>2

\* applyTrade
LEMMA TradeOK ==
    ASSUME NEW b, BookOK(b), NEW p \in Prices, NEW qty \in Nat, NEW aggr
    PROVE  /\ BookOK(Trade(b, p, qty, aggr)) /\ Trade(b, p, qty, aggr).synth = b.synth
           /\ DOMAIN Trade(b, p, qty, aggr).byId \subseteq DOMAIN b.byId
<1>1. CASE qty = 0 \/ Passive(b, p, aggr) = None  BY <1>1 DEF Trade
<1>2. CASE ~(qty = 0 \/ Passive(b, p, aggr) = None)
  <2>1. Passive(b, p, aggr) \in Sides \cup {None}  BY DEF Passive, Sides
  <2>2. Trade(b, p, qty, aggr) = Consume(b, Passive(b, p, aggr), p, qty)  BY <1>2 DEF Trade
  <2> QED  BY <1>2, <2>1, <2>2, ConsumeOK
<1> QED  BY <1>1, <1>2

\* applyAdd with a scope
LEMMA AddScopedOK ==
    ASSUME NEW b, BookOK(b), NEW id \in Nat, NEW sc \in Scopes, NEW missing \in BOOLEAN,
           NEW s \in Sides, NEW p \in Prices, NEW z \in Nat
    PROVE  LET k == ScopedKey(b, id, sc, missing)
               d == AddScoped(b, id, sc, missing, s, p, z, 0)
           IN  /\ BookOK(d) /\ k \in Keys /\ DOMAIN d.byId = DOMAIN b.byId \cup {k}
               /\ d.synth = [b.synth EXCEPT ![sc] = IF k.syn THEN @ + 1 ELSE @]
               /\ k \notin DOMAIN b.byId => \A x \in DOMAIN b.byId : Resting(d, x) = Resting(b, x)
<1> DEFINE k == ScopedKey(b, id, sc, missing)
           c == [b EXCEPT !.synth[sc] = IF k.syn THEN @ + 1 ELSE @]
           o == Order(k, s, p, z, 0)
<1>1. b.synth \in [Scopes -> Nat \ {0}]
      /\ b = [lad |-> b.lad, byId |-> b.byId, agg |-> b.agg, synth |-> b.synth]
  BY DEF BookOK, IsBook
<1>2. k \in Keys  BY <1>1 DEF ScopedKey, Key, Keys
<1>3. o \in Orders  BY <1>2 DEF Order, Orders
<1>4. AddScoped(b, id, sc, missing, s, p, z, 0) = Add(c, o)  BY DEF AddScoped
<1>k. o.key = k  BY DEF Order
<1> HIDE DEF k, o
<1>5. /\ c.lad = b.lad /\ c.byId = b.byId /\ c.synth \in [Scopes -> Nat \ {0}]
      /\ c.synth = [b.synth EXCEPT ![sc] = IF k.syn THEN @ + 1 ELSE @]
      /\ c = [lad |-> c.lad, byId |-> c.byId, agg |-> c.agg, synth |-> c.synth]
  BY <1>1
<1> HIDE DEF c
<1>6. BookOK(c)  BY <1>5 DEF BookOK, IsBook, LaddersOK, Indexed, KeysAt
<1> DEFINE d == Add(c, o)
<1>7. /\ BookOK(d) /\ DOMAIN d.byId = DOMAIN b.byId \cup {k}
      /\ d.synth = [b.synth EXCEPT ![sc] = IF k.syn THEN @ + 1 ELSE @]
  BY <1>3, <1>5, <1>6, <1>k, AddOK
<1>8. ASSUME k \notin DOMAIN b.byId, NEW x \in DOMAIN b.byId PROVE Resting(d, x) = Resting(b, x)
  <2>1. Resting(c, x) = Resting(b, x)  BY <1>5 DEF Resting
  <2>2. Resting(d, x) = Resting(c, x)  BY <1>3, <1>5, <1>6, <1>8, <1>k, AddFresh
  <2> QED  BY <2>1, <2>2
<1> HIDE DEF d
<1>9. AddScoped(b, id, sc, missing, s, p, z, 0) = d  BY <1>4 DEF d
<1> QED  BY <1>2, <1>7, <1>8, <1>9 DEF k

\* A book without orders.
LEMMA ClearOK ==
    ASSUME NEW b, b.lad = [s \in Sides |-> <<>>], b.byId = <<>>, b.synth \in [Scopes -> Nat \ {0}],
           b = [lad |-> b.lad, byId |-> b.byId, agg |-> b.agg, synth |-> b.synth]
    PROVE  BookOK(b)
<1>1. DOMAIN <<>> = {}  OBVIOUS
<1>2. DOMAIN b.lad = Sides /\ \A s \in Sides : DOMAIN b.lad[s] = {}  BY <1>1
<1>3. DOMAIN b.byId = {}  BY <1>1
<1> QED  BY <1>2, <1>3 DEF BookOK, IsBook, LaddersOK, Indexed, KeysAt

\* f holds the books after the first orders of os.
AddsRun(f, clear, os, L) ==
    f = [n \in 0 .. L |-> IF n = 0 THEN clear ELSE Add(f[n - 1], os[n])]

\* applySnapshotPerOrder: the loop runs to its end ...
LEMMA AddsExist ==
    ASSUME NEW clear, NEW os, NEW L \in Nat
    PROVE  \E f : AddsRun(f, clear, os, L)
<1> DEFINE Ok(f, k) == f = [n \in 0 .. k |-> IF n = 0 THEN clear ELSE Add(f[n - 1], os[n])]
           P == {k \in 0 .. L : \E f : Ok(f, k)}
<1>1. 0 \in P
  <2> DEFINE f == [n \in 0 .. 0 |-> clear]
  <2>1. f = [n \in 0 .. 0 |-> IF n = 0 THEN clear ELSE Add(f[n - 1], os[n])]
    <3>1. \A n \in 0 .. 0 : n = 0  OBVIOUS
    <3> QED  BY <3>1, Zenon
  <2>2. Ok(f, 0)  BY <2>1
  <2> HIDE DEF Ok, f
  <2> QED  BY <2>2
<1>2. ASSUME NEW k \in 0 .. L - 1, k \in P PROVE k + 1 \in P
  <2>1. PICK f : Ok(f, k)  BY <1>2
  <2>2. \A n \in 0 .. k : f[n] = IF n = 0 THEN clear ELSE Add(f[n - 1], os[n])  BY <2>1, Zenon
  <2> DEFINE v == Add(f[k], os[k + 1])
             g == [n \in 0 .. k + 1 |-> IF n = k + 1 THEN v ELSE f[n]]
  <2> HIDE DEF v
  <2>3. ASSUME NEW n \in 0 .. k + 1
        PROVE  (IF n = k + 1 THEN v ELSE f[n]) = IF n = 0 THEN clear ELSE Add(g[n - 1], os[n])
    <3>1. CASE n = k + 1
      <4>1. n # 0 /\ n - 1 \in 0 .. k + 1 /\ n - 1 # k + 1 /\ n - 1 = k  BY <3>1
      <4>2. g[n - 1] = f[k]  BY <4>1
      <4> HIDE DEF g
      <4> QED  BY <3>1, <4>1, <4>2 DEF v
    <3>2. CASE n # k + 1 /\ n = 0
      <4>1. n \in 0 .. k  BY <3>2
      <4> QED  BY <2>2, <3>2, <4>1
    <3>3. CASE n # k + 1 /\ n # 0
      <4>1. n \in 0 .. k /\ n - 1 \in 0 .. k + 1 /\ n - 1 # k + 1  BY <3>3
      <4>2. g[n - 1] = f[n - 1]  BY <4>1
      <4>3. f[n] = Add(f[n - 1], os[n])  BY <2>2, <3>3, <4>1, Zenon
      <4> HIDE DEF g
      <4> QED  BY <3>3, <4>2, <4>3
    <3> QED  BY <3>1, <3>2, <3>3
  <2>4. g = [n \in 0 .. k + 1 |-> IF n = 0 THEN clear ELSE Add(g[n - 1], os[n])]
    <3> DEFINE h == g
    <3>1. h = [n \in 0 .. k + 1 |-> IF n = k + 1 THEN v ELSE f[n]]  OBVIOUS
    <3>2. \A n \in 0 .. k + 1 : (IF n = k + 1 THEN v ELSE f[n])
                                   = IF n = 0 THEN clear ELSE Add(h[n - 1], os[n])
      BY <2>3
    <3> HIDE DEF h
    <3>3. h = [n \in 0 .. k + 1 |-> IF n = 0 THEN clear ELSE Add(h[n - 1], os[n])]
      BY <3>1, <3>2, Zenon
    <3> QED  BY <3>3 DEF h
  <2>5. Ok(g, k + 1) /\ k + 1 \in 0 .. L  BY <2>4
  <2> HIDE DEF Ok, g
  <2> QED  BY <2>5
<1>3. 0 .. L \subseteq P
  <2> HIDE DEF P
  <2> QED  BY <1>1, <1>2, UpTo
<1>4. L \in P  BY <1>3
<1> QED  BY <1>4 DEF AddsRun

\* A record of the shape of a book, two of its fields replaced.
LEMMA ClearShape ==
    ASSUME NEW b, NEW x, NEW y,
           b = [lad |-> b.lad, byId |-> b.byId, agg |-> b.agg, synth |-> b.synth]
    PROVE  [b EXCEPT !.lad = x, !.byId = y]
              = [lad |-> x, byId |-> y, agg |-> b.agg, synth |-> b.synth]
<1> DEFINE c == [b EXCEPT !.lad = x]
<1>1. c = [lad |-> x, byId |-> b.byId, agg |-> b.agg, synth |-> b.synth]  OBVIOUS
<1>2. [b EXCEPT !.lad = x, !.byId = y] = [c EXCEPT !.byId = y]  OBVIOUS
<1> HIDE DEF c
<1>3. [c EXCEPT !.byId = y] = [lad |-> x, byId |-> y, agg |-> b.agg, synth |-> b.synth]  BY <1>1
<1> QED  BY <1>2, <1>3

\* c holds the books on the way of a snapshot.
SnapshotRun(c, b, os) ==
    /\ SnapshotPerOrder(b, os) = c[Len(os)]
    /\ c[0].lad = [s \in Sides |-> <<>>] /\ DOMAIN c[0].byId = {}
    /\ \A n \in 0 .. Len(os) : BookOK(c[n]) /\ c[n].synth = b.synth
    /\ \A n \in 1 .. Len(os) : c[n] = Add(c[n - 1], os[n])

\* ... and every book on the way is one.
LEMMA SnapshotBooks ==
    ASSUME NEW b, BookOK(b), NEW os \in Seq(Orders)
    PROVE  /\ Len(os) \in Nat /\ DOMAIN os = 1 .. Len(os) /\ \A n \in 1 .. Len(os) : os[n] \in Orders
           /\ \E c : SnapshotRun(c, b, os)
<1> DEFINE none == [s \in Sides |-> <<>>]
           clear == [b EXCEPT !.lad = none, !.byId = <<>>]
           L == Len(os)
           Def(h) == [n \in 0 .. L |-> IF n = 0 THEN clear ELSE Add(h[n - 1], os[n])]
           c == CHOOSE h : h = Def(h)
<1>1. BookOK(clear) /\ clear.synth = b.synth /\ DOMAIN clear.byId = {} /\ clear.lad = none
  <2>1. b.synth \in [Scopes -> Nat \ {0}]
        /\ b = [lad |-> b.lad, byId |-> b.byId, agg |-> b.agg, synth |-> b.synth]
    BY DEF BookOK, IsBook
  <2>2. /\ clear.lad = none /\ clear.byId = <<>> /\ clear.synth = b.synth
        /\ clear = [lad |-> clear.lad, byId |-> clear.byId, agg |-> clear.agg, synth |-> clear.synth]
    <3> HIDE DEF none
    <3> DEFINE nil == <<>>
    <3> HIDE DEF nil
    <3>1. [b EXCEPT !.lad = none, !.byId = nil]
             = [lad |-> none, byId |-> nil, agg |-> b.agg, synth |-> b.synth]
      BY <2>1, ClearShape, Zenon
    <3>2. clear = [b EXCEPT !.lad = none, !.byId = nil]  BY DEF nil
    <3> HIDE DEF clear
    <3>3. clear = [lad |-> none, byId |-> nil, agg |-> b.agg, synth |-> b.synth]  BY <3>1, <3>2
    <3>4. /\ clear.lad = none /\ clear.byId = nil /\ clear.synth = b.synth
          /\ clear = [lad |-> clear.lad, byId |-> clear.byId, agg |-> clear.agg, synth |-> clear.synth]
      BY <3>3
    <3> QED  BY <3>4 DEF nil
  <2> HIDE DEF clear
  <2>3. DOMAIN clear.byId = {}  BY <2>2
  <2> QED  BY <2>1, <2>2, <2>3, ClearOK
<1>2. SnapshotPerOrder(b, os) = c[L]  BY DEF SnapshotPerOrder
<1>3. L \in Nat /\ DOMAIN os = 1 .. L /\ \A n \in 1 .. L : os[n] \in Orders
  <2> DEFINE S == Orders
  <2>1. os \in Seq(S)  OBVIOUS
  <2> HIDE DEF S
  <2>2. L \in Nat /\ DOMAIN os = 1 .. L /\ \A n \in 1 .. L : os[n] \in S  BY <2>1
  <2> QED  BY <2>2 DEF S
<1> HIDE DEF clear, L
<1>4. \E h : h = Def(h)
  <2>1. \E h : AddsRun(h, clear, os, L)  BY <1>3, AddsExist
  <2> QED  BY <2>1, Zenon DEF AddsRun
<1>5. c = Def(c)
  <2> HIDE DEF Def
  <2> QED  BY <1>4
<1> HIDE DEF c
<1>6. \A n \in 0 .. L : c[n] = IF n = 0 THEN clear ELSE Add(c[n - 1], os[n])  BY <1>5, Zenon
<1> DEFINE P == {n \in 0 .. L : BookOK(c[n]) /\ c[n].synth = b.synth}
<1>6a. c[0] = clear  BY <1>3, <1>6
<1>6b. ASSUME NEW n \in 1 .. L PROVE c[n] = Add(c[n - 1], os[n])
  <2>1. n \in 0 .. L /\ n # 0  BY <1>3
  <2> QED  BY <1>6, <2>1, Zenon
<1>7. 0 \in P  BY <1>1, <1>3, <1>6a
<1>8. ASSUME NEW k \in 0 .. L - 1, k \in P PROVE k + 1 \in P
  <2>1. k + 1 \in 0 .. L /\ k + 1 \in 1 .. L /\ (k + 1) - 1 = k  BY <1>3
  <2>2. c[k + 1] = Add(c[(k + 1) - 1], os[k + 1])  BY <1>6b, <2>1, Zenon
  <2>3. c[k + 1] = Add(c[k], os[k + 1])  BY <2>1, <2>2, Zenon
  <2>4. BookOK(c[k]) /\ c[k].synth = b.synth /\ os[k + 1] \in Orders  BY <1>3, <1>8, <2>1
  <2>5. BookOK(c[k + 1]) /\ c[k + 1].synth = b.synth  BY <2>3, <2>4, AddOK
  <2> QED  BY <2>1, <2>5
<1>9. 0 .. L \subseteq P
  <2> HIDE DEF P
  <2> QED  BY <1>3, <1>7, <1>8, UpTo
<1>10. c[0].lad = none /\ DOMAIN c[0].byId = {}  BY <1>1, <1>6a
<1>11. \A n \in 0 .. L : BookOK(c[n]) /\ c[n].synth = b.synth  BY <1>9
<1>12. \A n \in 1 .. L : c[n] = Add(c[n - 1], os[n])  BY <1>6b
<1> HIDE DEF P
<1>13. SnapshotRun(c, b, os)  BY <1>2, <1>10, <1>11, <1>12 DEF L, SnapshotRun
<1> QED  BY <1>3, <1>13 DEF L

\* applySnapshotPerOrder
LEMMA SnapshotOK ==
    ASSUME NEW b, BookOK(b), NEW os \in Seq(Orders)
    PROVE  /\ BookOK(SnapshotPerOrder(b, os)) /\ SnapshotPerOrder(b, os).synth = b.synth
           /\ IsFiniteSet(DOMAIN SnapshotPerOrder(b, os).byId)
           /\ \A k \in DOMAIN SnapshotPerOrder(b, os).byId : \E i \in DOMAIN os : os[i].key = k
<1> DEFINE L == Len(os)
<1>1. L \in Nat /\ DOMAIN os = 1 .. L /\ \A n \in 1 .. L : os[n] \in Orders  BY SnapshotBooks
<1>a. PICK c : SnapshotRun(c, b, os)  BY SnapshotBooks
<1>2. /\ SnapshotPerOrder(b, os) = c[L]
      /\ c[0].lad = [s \in Sides |-> <<>>] /\ DOMAIN c[0].byId = {}
      /\ \A n \in 0 .. L : BookOK(c[n]) /\ c[n].synth = b.synth
      /\ \A n \in 1 .. L : c[n] = Add(c[n - 1], os[n])
  BY <1>a DEF SnapshotRun
<1> HIDE DEF L
<1> DEFINE Listed(d) == IsFiniteSet(DOMAIN d.byId) /\ \A k \in DOMAIN d.byId : \E i \in DOMAIN os : os[i].key = k
           P == {n \in 0 .. L : Listed(c[n])}
<1>3. 0 \in P
  <2>1. Listed(c[0])  BY <1>2, FS_EmptySet
  <2> HIDE DEF Listed
  <2> QED  BY <1>1, <2>1
<1>4. ASSUME NEW k \in 0 .. L - 1, k \in P PROVE k + 1 \in P
  <2>1. k \in 0 .. L /\ k + 1 \in 0 .. L /\ k + 1 \in 1 .. L /\ (k + 1) - 1 = k  BY <1>1
  <2>2. c[k + 1] = Add(c[k], os[k + 1])  BY <1>2, <2>1
  <2>3. BookOK(c[k]) /\ os[k + 1] \in Orders  BY <1>1, <1>2, <2>1
  <2> DEFINE d == c[k + 1]
  <2>4. DOMAIN d.byId = DOMAIN c[k].byId \cup {os[k + 1].key}  BY <2>2, <2>3, AddOK
  <2> HIDE DEF d
  <2>5. Listed(d)
    <3>1. IsFiniteSet(DOMAIN c[k].byId)  BY <1>4
    <3>2. IsFiniteSet(DOMAIN d.byId)  BY ONLY <2>4, <3>1, FS_AddElement
    <3>3. \A x \in DOMAIN c[k].byId : \E i \in DOMAIN os : os[i].key = x  BY <1>4
    <3> QED  BY <1>1, <2>1, <2>4, <3>2, <3>3
  <2> HIDE DEF Listed
  <2> QED  BY <2>1, <2>5 DEF d
<1>5. 0 .. L \subseteq P
  <2> HIDE DEF P
  <2> QED  BY <1>1, <1>3, <1>4, UpTo
<1>6. L \in 0 .. L /\ L \in P  BY <1>1, <1>5
<1>7. Listed(c[L])
  <2> HIDE DEF Listed
  <2> QED  BY <1>6
<1> QED  BY <1>2, <1>6, <1>7

\* The level-only ladders are apart.
LEMMA AggOK ==
    ASSUME NEW b, BookOK(b), NEW a
    PROVE  BookOK([b EXCEPT !.agg = a])
<1> DEFINE c == [b EXCEPT !.agg = a]
<1>1. b = [lad |-> b.lad, byId |-> b.byId, agg |-> b.agg, synth |-> b.synth]  BY DEF BookOK, IsBook
<1>2. /\ c.byId = b.byId /\ c.lad = b.lad /\ c.synth = b.synth
      /\ c = [lad |-> c.lad, byId |-> c.byId, agg |-> c.agg, synth |-> c.synth]
  BY <1>1
<1> HIDE DEF c
<1>3. BookOK(c)  BY <1>2 DEF BookOK, IsBook, LaddersOK, Indexed, KeysAt
<1> QED  BY <1>3 DEF c

-----------------------------------------------------------------------------
(* The theorems                                                            *)

\* A book is empty when it is made.
LEMMA EmptyOK == BookOK(EmptyBook)
<1>1. /\ EmptyBook.lad = [s \in Sides |-> <<>>] /\ EmptyBook.byId = <<>>
      /\ EmptyBook.synth = [sc \in Scopes |-> 1]
      /\ EmptyBook = [lad |-> EmptyBook.lad, byId |-> EmptyBook.byId,
                      agg |-> EmptyBook.agg, synth |-> EmptyBook.synth]
  BY DEF EmptyBook
<1>2. EmptyBook.synth \in [Scopes -> Nat \ {0}]  BY <1>1
<1> QED  BY <1>1, <1>2, ClearOK

\* What BookOK says in the words of the property.
LEMMA BookOKAgrees == BookOK(book) => LadderAndIndexAgree /\ BookTypeOK
<1> SUFFICES ASSUME BookOK(book) PROVE LadderAndIndexAgree /\ BookTypeOK  OBVIOUS
<1>0. IsBook(book) /\ LaddersOK(book) /\ Indexed(book)  BY DEF BookOK
<1>1. ASSUME NEW s \in Sides, NEW p \in DOMAIN book.lad[s]
      PROVE  /\ OrdersAt(s, p) # <<>> /\ OrdersAt(s, p) \in Seq(OrdersOf(s, p))
             /\ book.lad[s][p].total = SizeSum(OrdersAt(s, p))
             /\ OneEach(OrdersAt(s, p)) /\ p \in Prices
             /\ KeysOf(OrdersAt(s, p)) = {k \in DOMAIN book.byId : book.byId[k] = Loc(s, p)}
  <2>1. p \in Prices  BY <1>0 DEF IsBook
  <2>2. book.lad[s][p].orders # <<>> /\ LevelOK(s, p, book.lad[s][p])  BY <1>0 DEF LaddersOK
  <2>3. KeysAt(book, s, p) = KeysOf(book.lad[s][p].orders)  BY DEF KeysAt
  <2>4. KeysAt(book, s, p) = {k \in DOMAIN book.byId : book.byId[k] = Loc(s, p)}  BY <1>0, <2>1 DEF Indexed
  <2> QED  BY <2>1, <2>2, <2>3, <2>4 DEF OrdersAt, LevelOK
<1>2. ASSUME NEW s \in Sides, NEW p \in DOMAIN book.lad[s], NEW i \in DOMAIN OrdersAt(s, p)
      PROVE  /\ OrdersAt(s, p)[i].key \in LiveKeys
             /\ book.byId[OrdersAt(s, p)[i].key] = [side |-> s, price |-> p]
             /\ \A j \in DOMAIN OrdersAt(s, p) : OrdersAt(s, p)[j].key = OrdersAt(s, p)[i].key => i = j
  <2> DEFINE os == OrdersAt(s, p)
  <2>1. OneEach(os) /\ KeysOf(os) = {k \in DOMAIN book.byId : book.byId[k] = Loc(s, p)}  BY <1>1
  <2> HIDE DEF os
  <2>2. i \in DOMAIN os  BY DEF os
  <2>3. os[i].key \in KeysOf(os)  BY <2>2 DEF KeysOf
  <2>4. os[i].key \in LiveKeys /\ book.byId[os[i].key] = [side |-> s, price |-> p]
    BY <2>1, <2>3 DEF LiveKeys, Loc
  <2>5. \A j \in DOMAIN os : os[j].key = os[i].key => i = j  BY <2>1, <2>2 DEF OneEach
  <2> QED  BY <2>4, <2>5 DEF os
<1>3. ASSUME NEW k \in LiveKeys
      PROVE  /\ book.byId[k].price \in DOMAIN book.lad[book.byId[k].side]
             /\ \E i \in DOMAIN OrdersAt(book.byId[k].side, book.byId[k].price) :
                   OrdersAt(book.byId[k].side, book.byId[k].price)[i].key = k
  <2> DEFINE s == book.byId[k].side
             p == book.byId[k].price
  <2>1. Rests(book, k, s, p)  BY RestingOK DEF LiveKeys
  <2>2. p \in DOMAIN book.lad[s] /\ k \in KeysOf(OrdersAt(s, p))  BY <2>1, Zenon DEF Rests, OrdersAt
  <2> QED  BY <2>2 DEF KeysOf
<1>4. LadderAndIndexAgree
  <2>1. \A s \in Sides : \A p \in DOMAIN book.lad[s] :
          /\ OrdersAt(s, p) # <<>> /\ book.lad[s][p].total = SizeSum(OrdersAt(s, p))
          /\ \A i \in DOMAIN OrdersAt(s, p) :
                /\ OrdersAt(s, p)[i].key \in LiveKeys
                /\ book.byId[OrdersAt(s, p)[i].key] = [side |-> s, price |-> p]
                /\ \A j \in DOMAIN OrdersAt(s, p) : OrdersAt(s, p)[j].key = OrdersAt(s, p)[i].key => i = j
    BY <1>1, <1>2
  <2> QED  BY <1>3, <2>1 DEF LadderAndIndexAgree
<1>5. BookTypeOK
  <2>1. \A s \in Sides : \A p \in DOMAIN book.lad[s] : book.lad[s][p].total \in Nat
    BY <1>1, LevelSized, SumNat
  <2>2. \A s \in Sides : DOMAIN book.lad[s] \subseteq Prices  BY <1>0 DEF IsBook
  <2>3. \A s \in Sides : \A p \in DOMAIN book.lad[s] :
           OrdersAt(s, p) \in Seq({o \in Orders : o.side = s /\ o.price = p})
    BY <1>1 DEF OrdersOf
  <2>4. LiveKeys \subseteq Keys /\ \A k \in LiveKeys : book.byId[k] \in [side : Sides, price : Prices]
    BY <1>0 DEF IsBook, LiveKeys, Locs
  <2>5. \A sc \in Scopes : book.synth[sc] \in Nat \ {0}  BY <1>0 DEF IsBook
  <2> QED  BY <2>1, <2>2, <2>3, <2>4, <2>5 DEF BookTypeOK
<1> QED  BY <1>4, <1>5

\* Every member keeps a book a book.
LEMMA BookStep == BookOK(book) /\ [BookNext]_book => BookOK(book')
<1> SUFFICES ASSUME BookOK(book), [BookNext]_book PROVE BookOK(book')  OBVIOUS
<1>0. Ids \subseteq Nat /\ Sizes \subseteq Nat /\ Quantities \subseteq Nat /\ SnapshotLists \subseteq Seq(Orders)
  BY BookAssumption, SnapshotAssumption
<1>1. ASSUME NEW id \in Ids, NEW sc \in Scopes, NEW s \in Sides, NEW p \in Prices, NEW z \in Sizes,
             ApplyAdd(id, sc, id = 0, s, p, z)
      PROVE  BookOK(book')
  <2>1. book' = AddScoped(book, id, sc, id = 0, s, p, z, 0)  BY <1>1 DEF ApplyAdd
  <2>2. (id = 0) \in BOOLEAN  OBVIOUS
  <2> QED  BY <1>0, <2>1, <2>2, AddScopedOK
<1>2. ASSUME NEW k, NEW np \in Prices \cup {None}, NEW nz \in Sizes \cup {0, None}, ApplyUpdate(k, np, nz)
      PROVE  BookOK(book')
  <2>1. nz \in Nat \cup {None}  BY <1>0
  <2> QED  BY <1>2, <2>1, UpdateOK DEF ApplyUpdate
<1>3. ASSUME NEW k, ApplyDelete(k) PROVE BookOK(book')  BY <1>3, DeleteOK DEF ApplyDelete
<1>4. ASSUME NEW k, NEW prio \in Priorities, ApplyPriority(k, prio) PROVE BookOK(book')
  BY <1>4, PriorityOK DEF ApplyPriority
<1>5. ASSUME NEW p \in Prices, NEW n \in Quantities, NEW aggr, ApplyTrade(p, n, aggr) PROVE BookOK(book')
  BY <1>0, <1>5, TradeOK DEF ApplyTrade
<1>6. ASSUME NEW os \in SnapshotLists, ApplySnapshotPerOrder(os) PROVE BookOK(book')
  BY <1>0, <1>6, SnapshotOK DEF ApplySnapshotPerOrder
<1> QED  BY <1>1, <1>2, <1>3, <1>4, <1>5, <1>6 DEF BookNext

\* OrderBook::checkInvariants holds after any sequence of adds, updates,
\* deletes, priority changes, trades and snapshots: totals are the sums of their
\* levels' orders, and index and lists name the same orders at the same places.
THEOREM LadderTheorem == BookSpec => []LadderAndIndexAgree
<1>1. BookInit => BookOK(book)  BY EmptyOK DEF BookInit
<1>2. BookOK(book) /\ [BookNext]_book => BookOK(book)'  BY BookStep
<1> QED  BY <1>1, <1>2, BookOKAgrees, PTL DEF BookSpec

\* The types of the book's parts.
THEOREM BookTypeTheorem == BookSpec => []BookTypeOK
<1>1. BookInit => BookOK(book)  BY EmptyOK DEF BookInit
<1>2. BookOK(book) /\ [BookNext]_book => BookOK(book)'  BY BookStep
<1> QED  BY <1>1, <1>2, BookOKAgrees, PTL DEF BookSpec

-----------------------------------------------------------------------------
(* Synthetic ids                                                           *)

\* The counters are ahead of the synthetic ids in use.
SynthBelow(b) ==
    /\ IsFiniteSet(DOMAIN b.byId)
    /\ \A k \in DOMAIN b.byId : k.syn => k.id < b.synth[k.scope]

\* The orders of a snapshot come with the venue's ids: only the book itself
\* marks an order synthetic.
VenueSnapshots == \A os \in SnapshotLists : \A i \in DOMAIN os : ~os[i].key.syn

\* Orders that leave do not matter.
LEMMA SynthShrinks ==
    ASSUME NEW b, NEW c, SynthBelow(b), c.synth = b.synth, DOMAIN c.byId \subseteq DOMAIN b.byId
    PROVE  SynthBelow(c)
<1>1. IsFiniteSet(DOMAIN c.byId)  BY FS_Subset DEF SynthBelow
<1> QED  BY <1>1 DEF SynthBelow

\* A scoped add, with the counter it may advance.
Numbered(b, c, sc, k) ==
    /\ k \in Keys /\ k.scope = sc /\ (k.syn => k.id = b.synth[sc])
    /\ DOMAIN c.byId = DOMAIN b.byId \cup {k}
    /\ c.synth = [b.synth EXCEPT ![sc] = IF k.syn THEN @ + 1 ELSE @]

\* It keeps the counters ahead of the synthetic ids, and a synthetic key is new.
LEMMA SynthAdds ==
    ASSUME NEW b, NEW c, BookOK(b), SynthBelow(b), NEW sc \in Scopes, NEW k, Numbered(b, c, sc, k)
    PROVE  SynthBelow(c) /\ (k.syn => k \notin DOMAIN b.byId)
<1>1. IsFiniteSet(DOMAIN c.byId)  BY FS_AddElement DEF SynthBelow, Numbered
<1>2. b.synth \in [Scopes -> Nat \ {0}] /\ DOMAIN b.byId \subseteq Keys  BY DEF BookOK, IsBook
<1>3. \A r \in Scopes : c.synth[r] \in Nat /\ b.synth[r] \in Nat /\ b.synth[r] <= c.synth[r]
  BY <1>2 DEF Numbered
<1>4. k.syn => k \notin DOMAIN b.byId
  <2> SUFFICES ASSUME k.syn, k \in DOMAIN b.byId PROVE FALSE  OBVIOUS
  <2>1. k.id < b.synth[sc] /\ k.id = b.synth[sc]  BY DEF SynthBelow, Numbered
  <2> QED  BY <1>3, <2>1
<1>5. ASSUME NEW x \in DOMAIN c.byId, x.syn PROVE x.id < c.synth[x.scope]
  <2>1. CASE x \in DOMAIN b.byId
    <3>1. x.id \in Nat /\ x.scope \in Scopes /\ x.id < b.synth[x.scope]
      BY <1>2, <1>5, <2>1 DEF SynthBelow, Keys
    <3> QED  BY <1>3, <3>1
  <2>2. CASE x = k
    <3>1. c.synth[sc] = b.synth[sc] + 1 /\ x.id = b.synth[sc] /\ x.scope = sc
      BY <1>2, <1>5, <2>2 DEF Numbered
    <3> QED  BY <1>3, <3>1
  <2> QED  BY <2>1, <2>2 DEF Numbered
<1> QED  BY <1>1, <1>4, <1>5 DEF SynthBelow

\* A step of the book numbers a new order, or leaves the counters alone.
LEMMA SynthStep ==
    ASSUME VenueSnapshots, BookOK(book), SynthBelow(book), [BookNext]_book
    PROVE  /\ SynthBelow(book')
           /\ \/ book'.synth = book.synth
              \/ \E k : /\ k \notin LiveKeys /\ DOMAIN book'.byId = LiveKeys \cup {k}
                        /\ \A x \in LiveKeys : Resting(book', x) = Resting(book, x)
<1>0. Ids \subseteq Nat /\ Sizes \subseteq Nat /\ Quantities \subseteq Nat /\ SnapshotLists \subseteq Seq(Orders)
  BY BookAssumption, SnapshotAssumption
<1> DEFINE Goal == /\ SynthBelow(book')
                   /\ \/ book'.synth = book.synth
                      \/ \E k : /\ k \notin LiveKeys /\ DOMAIN book'.byId = LiveKeys \cup {k}
                                /\ \A x \in LiveKeys : Resting(book', x) = Resting(book, x)
<1>1. ASSUME NEW id \in Ids, NEW sc \in Scopes, NEW s \in Sides, NEW p \in Prices, NEW z \in Sizes,
             ApplyAdd(id, sc, id = 0, s, p, z)
      PROVE  Goal
  <2> DEFINE k == ScopedKey(book, id, sc, id = 0)
             d == AddScoped(book, id, sc, id = 0, s, p, z, 0)
  <2>1. book' = d  BY <1>1 DEF ApplyAdd
  <2>2. (id = 0) \in BOOLEAN /\ id \in Nat /\ z \in Nat  BY <1>0
  <2>3. /\ k \in Keys /\ DOMAIN d.byId = DOMAIN book.byId \cup {k}
        /\ d.synth = [book.synth EXCEPT ![sc] = IF k.syn THEN @ + 1 ELSE @]
        /\ k \notin DOMAIN book.byId => \A x \in DOMAIN book.byId : Resting(d, x) = Resting(book, x)
    <3> DEFINE missing == id = 0
    <3>1. missing \in BOOLEAN  BY <2>2
    <3> HIDE DEF missing
    <3>2. LET x == ScopedKey(book, id, sc, missing)
              y == AddScoped(book, id, sc, missing, s, p, z, 0)
          IN  /\ x \in Keys /\ DOMAIN y.byId = DOMAIN book.byId \cup {x}
              /\ y.synth = [book.synth EXCEPT ![sc] = IF x.syn THEN @ + 1 ELSE @]
              /\ x \notin DOMAIN book.byId => \A v \in DOMAIN book.byId : Resting(y, v) = Resting(book, v)
      BY <2>2, <3>1, AddScopedOK
    <3> QED  BY <3>2 DEF missing
  <2>4. k.scope = sc /\ (k.syn => k.id = book.synth[sc])  BY DEF ScopedKey, Key
  <2> HIDE DEF k, d
  <2>5. Numbered(book, book', sc, k)  BY <2>1, <2>3, <2>4 DEF Numbered
  <2>6. SynthBelow(book') /\ (k.syn => k \notin DOMAIN book.byId)  BY <2>5, SynthAdds
  <2>7. CASE k.syn  BY <2>1, <2>3, <2>6, <2>7 DEF LiveKeys
  <2>8. CASE ~k.syn
    <3>1. book.synth \in [Scopes -> Nat \ {0}]  BY DEF BookOK, IsBook
    <3>2. book'.synth = book.synth  BY <2>1, <2>3, <2>8, <3>1
    <3> QED  BY <2>6, <3>2
  <2> QED  BY <2>7, <2>8
<1>2. ASSUME NEW k, NEW np \in Prices \cup {None}, NEW nz \in Sizes \cup {0, None}, ApplyUpdate(k, np, nz)
      PROVE  Goal
  <2>1. nz \in Nat \cup {None}  BY <1>0
  <2>2. book'.synth = book.synth /\ DOMAIN book'.byId \subseteq DOMAIN book.byId
    BY <1>2, <2>1, UpdateOK DEF ApplyUpdate
  <2> QED  BY <2>2, SynthShrinks
<1>3. ASSUME NEW k, ApplyDelete(k) PROVE Goal
  <2>1. book'.synth = book.synth /\ DOMAIN book'.byId \subseteq DOMAIN book.byId
    BY <1>3, DeleteOK DEF ApplyDelete
  <2> QED  BY <2>1, SynthShrinks
<1>4. ASSUME NEW k, NEW prio \in Priorities, ApplyPriority(k, prio) PROVE Goal
  <2>1. book'.synth = book.synth /\ DOMAIN book'.byId \subseteq DOMAIN book.byId
    BY <1>4, PriorityOK DEF ApplyPriority
  <2> QED  BY <2>1, SynthShrinks
<1>5. ASSUME NEW p \in Prices, NEW n \in Quantities, NEW aggr, ApplyTrade(p, n, aggr) PROVE Goal
  <2>1. book'.synth = book.synth /\ DOMAIN book'.byId \subseteq DOMAIN book.byId
    BY <1>0, <1>5, TradeOK DEF ApplyTrade
  <2> QED  BY <2>1, SynthShrinks
<1>6. ASSUME NEW os \in SnapshotLists, ApplySnapshotPerOrder(os) PROVE Goal
  <2>1. /\ book'.synth = book.synth /\ IsFiniteSet(DOMAIN book'.byId)
        /\ \A k \in DOMAIN book'.byId : \E i \in DOMAIN os : os[i].key = k
    BY <1>0, <1>6, SnapshotOK DEF ApplySnapshotPerOrder
  <2> QED  BY <2>1 DEF VenueSnapshots, SynthBelow
<1>7. ASSUME UNCHANGED book PROVE Goal  BY <1>7
<1> HIDE DEF Goal
<1>8. ASSUME BookNext PROVE Goal
  BY <1>1, <1>2, <1>3, <1>4, <1>5, <1>6, <1>8 DEF BookNext
<1>9. Goal  BY <1>7, <1>8
<1> QED  BY <1>9 DEF Goal

\* OrderBook::nextSyntheticId: an order without an id never takes the place of
\* another one, as long as no snapshot claims a synthetic id of its own.
THEOREM FreshTheorem ==
    ASSUME VenueSnapshots
    PROVE  BookSpec => SyntheticIsFresh
<1> DEFINE Inv == BookOK(book) /\ SynthBelow(book)
<1>1. BookInit => Inv
  <2> SUFFICES ASSUME BookInit PROVE Inv  OBVIOUS
  <2>1. book = EmptyBook /\ DOMAIN EmptyBook.byId = {}  BY DEF BookInit, EmptyBook
  <2> QED  BY <2>1, EmptyOK, FS_EmptySet DEF SynthBelow
<1>2. Inv /\ [BookNext]_book => Inv'
  <2> SUFFICES ASSUME Inv, [BookNext]_book PROVE Inv'  OBVIOUS
  <2>1. BookOK(book')  BY BookStep
  <2>2. SynthBelow(book')  BY SynthStep
  <2> QED  BY <2>1, <2>2
<1>3. Inv /\ [BookNext]_book =>
        \A sc \in Scopes : book'.synth[sc] # book.synth[sc] =>
            /\ LiveKeys \subseteq DOMAIN book'.byId
            /\ Cardinality(DOMAIN book'.byId) = Cardinality(LiveKeys) + 1
            /\ \A k \in LiveKeys : Resting(book', k) = Resting(book, k)
  <2> SUFFICES ASSUME Inv, [BookNext]_book, book'.synth # book.synth
               PROVE  /\ LiveKeys \subseteq DOMAIN book'.byId
                      /\ Cardinality(DOMAIN book'.byId) = Cardinality(LiveKeys) + 1
                      /\ \A k \in LiveKeys : Resting(book', k) = Resting(book, k)
    OBVIOUS
  <2>1. PICK k : /\ k \notin LiveKeys /\ DOMAIN book'.byId = LiveKeys \cup {k}
                 /\ \A x \in LiveKeys : Resting(book', x) = Resting(book, x)
    BY SynthStep
  <2>2. IsFiniteSet(LiveKeys)  BY DEF SynthBelow, LiveKeys
  <2>3. Cardinality(LiveKeys \cup {k}) = Cardinality(LiveKeys) + 1  BY <2>1, <2>2, FS_AddElement
  <2> QED  BY <2>1, <2>3
<1> HIDE DEF Inv
<1> QED  BY <1>1, <1>2, <1>3, PTL DEF BookSpec, SyntheticIsFresh

-----------------------------------------------------------------------------
(* The queues a book stands for                                            *)

Slots == Sides \X Prices

\* The orders of a level, none if it does not exist.
ListAt(b, s, p) == LevelAt(b, s, p).orders

\* The same without the order with key k.
GoneAt(b, k, s, p) ==
    IF k \in KeysAt(b, s, p) THEN Drop(ListAt(b, s, p), k) ELSE ListAt(b, s, p)

EntrySet == [key : Keys, size : Nat]

\* Two sequences with the same entries are one.
LEMMA SameSeq ==
    ASSUME NEW S, NEW T, NEW a \in Seq(S), NEW b \in Seq(T), Len(a) = Len(b),
           \A i \in 1 .. Len(a) : a[i] = b[i]
    PROVE  a = b
<1>1. DOMAIN a = 1 .. Len(a) /\ DOMAIN b = 1 .. Len(b)  OBVIOUS
<1>2. a = [i \in 1 .. Len(a) |-> a[i]] /\ b = [i \in 1 .. Len(a) |-> b[i]]  BY <1>1
<1> QED  BY <1>2

\* The entries of a list.
LEMMA EntriesOK ==
    ASSUME NEW s, NEW p, NEW os \in Seq(OrdersOf(s, p))
    PROVE  /\ Entries(os) \in Seq(EntrySet) /\ Len(Entries(os)) = Len(os) /\ Len(os) \in Nat
           /\ DOMAIN Entries(os) = 1 .. Len(os) /\ DOMAIN os = 1 .. Len(os)
           /\ \A i \in 1 .. Len(os) : /\ Entries(os)[i] = [key |-> os[i].key, size |-> os[i].size]
                                      /\ Entries(os)[i].key = os[i].key
                                      /\ Entries(os)[i].size = os[i].size
<1> DEFINE n == Len(os)
<1>1. n \in Nat /\ DOMAIN os = 1 .. n /\ \A i \in 1 .. n : os[i] \in OrdersOf(s, p)
  <2> DEFINE S == OrdersOf(s, p)
  <2>1. os \in Seq(S)  OBVIOUS
  <2> HIDE DEF S
  <2>2. Len(os) \in Nat /\ DOMAIN os = 1 .. Len(os) /\ \A i \in 1 .. Len(os) : os[i] \in S  BY <2>1
  <2> QED  BY <2>2 DEF S
<1>2. \A i \in 1 .. n : [key |-> os[i].key, size |-> os[i].size] \in EntrySet
  BY <1>1 DEF OrdersOf, Orders, EntrySet
<1>3. Entries(os) = [i \in 1 .. n |-> [key |-> os[i].key, size |-> os[i].size]]  BY <1>1 DEF Entries
<1> DEFINE e == Entries(os)
<1> HIDE DEF n, e
<1>4. e = [i \in 1 .. n |-> [key |-> os[i].key, size |-> os[i].size]]  BY <1>3 DEF e
<1>5. e \in [1 .. n -> EntrySet]  BY <1>2, <1>4
<1>6. e \in Seq(EntrySet) /\ Len(e) = n /\ DOMAIN e = 1 .. n
  <2> DEFINE S == EntrySet
  <2>1. e \in [1 .. n -> S] /\ n \in Nat  BY <1>1, <1>5
  <2> HIDE DEF S
  <2>2. e \in Seq(S) /\ Len(e) = n /\ DOMAIN e = 1 .. n  BY <2>1
  <2> QED  BY <2>2 DEF S
<1>7. \A i \in 1 .. n : /\ e[i] = [key |-> os[i].key, size |-> os[i].size]
                        /\ e[i].key = os[i].key /\ e[i].size = os[i].size
  BY <1>4
<1> QED  BY <1>1, <1>6, <1>7 DEF e, n

\* push_back, seen as a queue.
LEMMA EntriesAppend ==
    ASSUME NEW s, NEW p, NEW os \in Seq(OrdersOf(s, p)), NEW o \in OrdersOf(s, p)
    PROVE  Entries(Append(os, o)) = Append(Entries(os), [key |-> o.key, size |-> o.size])
<1> DEFINE z == Append(os, o)
           x == [key |-> o.key, size |-> o.size]
           e == Entries(os)
           w == Append(e, x)
           n == Len(os)
<1>1. z \in Seq(OrdersOf(s, p)) /\ Len(z) = n + 1 /\ z[n + 1] = o /\ \A i \in 1 .. n : z[i] = os[i]
  <2> DEFINE S == OrdersOf(s, p)
  <2>1. os \in Seq(S) /\ o \in S  OBVIOUS
  <2> HIDE DEF S
  <2>2. z \in Seq(S) /\ Len(z) = n + 1 /\ z[n + 1] = o /\ \A i \in 1 .. n : z[i] = os[i]  BY <2>1
  <2> QED  BY <2>2 DEF S
<1>2. /\ e \in Seq(EntrySet) /\ Len(e) = n /\ n \in Nat
      /\ \A i \in 1 .. n : e[i] = [key |-> os[i].key, size |-> os[i].size]
  BY EntriesOK
<1>3. x \in EntrySet  BY DEF OrdersOf, Orders, EntrySet
<1> HIDE DEF e, x, z
<1>4. w \in Seq(EntrySet) /\ Len(w) = n + 1 /\ w[n + 1] = x /\ \A i \in 1 .. n : w[i] = e[i]
  <2> DEFINE S == EntrySet
  <2>1. e \in Seq(S) /\ x \in S  BY <1>2, <1>3
  <2> HIDE DEF S, n
  <2>2. w \in Seq(S) /\ Len(w) = n + 1 /\ w[n + 1] = x /\ \A i \in 1 .. n : w[i] = e[i]  BY <1>2, <2>1
  <2> QED  BY <2>2 DEF S
<1> DEFINE y == Entries(z)
<1>5. /\ y \in Seq(EntrySet) /\ Len(y) = n + 1
      /\ \A i \in 1 .. n + 1 : y[i] = [key |-> z[i].key, size |-> z[i].size]
  BY <1>1, EntriesOK
<1> HIDE DEF y, w, n
<1>6. \A i \in 1 .. n + 1 : y[i] = w[i]
  <2> TAKE i \in 1 .. n + 1
  <2>1. CASE i = n + 1  BY <1>1, <1>4, <1>5, <2>1 DEF x
  <2>2. CASE i \in 1 .. n  BY <1>1, <1>2, <1>4, <1>5, <2>2
  <2> QED  BY <1>2, <2>1, <2>2
<1>7. y = w  BY <1>4, <1>5, <1>6, SameSeq
<1> QED  BY <1>7 DEF y, w, z, x, e

\* list::erase, seen as a queue.
LEMMA EntriesRemove ==
    ASSUME NEW s, NEW p, NEW os \in Seq(OrdersOf(s, p)), NEW i \in 1 .. Len(os)
    PROVE  Entries(RemoveAt(os, i)) = RemoveAt(Entries(os), i)
<1> DEFINE z == RemoveAt(os, i)
           e == Entries(os)
           w == RemoveAt(e, i)
           y == Entries(z)
           n == Len(os)
<1>1. /\ z \in Seq(OrdersOf(s, p)) /\ Len(z) = n - 1
      /\ \A j \in 1 .. n - 1 : z[j] = IF j < i THEN os[j] ELSE os[j + 1]
  BY RemoveAtFacts
<1>2. /\ e \in Seq(EntrySet) /\ Len(e) = n /\ n \in Nat
      /\ \A j \in 1 .. n : e[j] = [key |-> os[j].key, size |-> os[j].size]
  BY EntriesOK
<1> HIDE DEF z, e
<1>3. /\ w \in Seq(EntrySet) /\ Len(w) = n - 1
      /\ \A j \in 1 .. n - 1 : w[j] = IF j < i THEN e[j] ELSE e[j + 1]
  <2>1. i \in 1 .. Len(e)  BY <1>2
  <2> QED  BY <1>2, <2>1, RemoveAtFacts
<1>4. /\ y \in Seq(EntrySet) /\ Len(y) = n - 1
      /\ \A j \in 1 .. n - 1 : y[j] = [key |-> z[j].key, size |-> z[j].size]
  BY <1>1, EntriesOK
<1> HIDE DEF y, w
<1>5. \A j \in 1 .. n - 1 : y[j] = w[j]
  <2> TAKE j \in 1 .. n - 1
  <2>1. j \in 1 .. n /\ j + 1 \in 1 .. n  BY <1>2
  <2>2. CASE j < i  BY <1>1, <1>2, <1>3, <1>4, <2>1, <2>2
  <2>3. CASE ~(j < i)  BY <1>1, <1>2, <1>3, <1>4, <2>1, <2>3
  <2> QED  BY <2>2, <2>3
<1>6. y = w  BY <1>3, <1>4, <1>5, SameSeq
<1> QED  BY <1>6 DEF y, w, z, e

\* The list of a level, existing or not.
LEMMA ListOK ==
    ASSUME NEW b, IsBook(b), LaddersOK(b), NEW s \in Sides, NEW p \in Prices
    PROVE  /\ LevelOK(s, p, LevelAt(b, s, p)) /\ KeysOf(ListAt(b, s, p)) = KeysAt(b, s, p)
           /\ ListAt(b, s, p) \in Seq(OrdersOf(s, p)) /\ OneEach(ListAt(b, s, p))
<1>1. CASE p \in DOMAIN b.lad[s]  BY <1>1 DEF LevelAt, ListAt, KeysAt, LaddersOK, LevelOK
<1>2. CASE p \notin DOMAIN b.lad[s]  BY <1>2, NewLevelOK DEF LevelAt, ListAt, KeysAt, LevelOK
<1> QED  BY <1>1, <1>2

\* Storing a level replaces its list and no other.
LEMMA PutList ==
    ASSUME NEW b, NEW c, NEW s \in Sides, NEW p \in Prices, NEW lvl, Replaced(b, c, s, p, lvl),
           NEW t \in Sides, NEW q \in Prices
    PROVE  ListAt(c, t, q) = IF t = s /\ q = p THEN lvl.orders ELSE ListAt(b, t, q)
<1>1. CASE t # s \/ q # p  BY <1>1 DEF Replaced, ListAt
<1>2. CASE t = s /\ q = p /\ lvl.orders # <<>>  BY <1>2 DEF Replaced, ListAt, LevelAt
<1>3. CASE t = s /\ q = p /\ lvl.orders = <<>>
  <2>1. KeysAt(c, s, p) = {} /\ LaddersOK(c)
    <3>1. DOMAIN <<>> = {}  OBVIOUS
    <3>2. KeysOf(<<>>) = {}  BY <3>1 DEF KeysOf
    <3> QED  BY <1>3, <3>2 DEF Replaced
  <2>2. p \notin DOMAIN c.lad[s]
    <3> SUFFICES ASSUME p \in DOMAIN c.lad[s] PROVE FALSE  OBVIOUS
    <3> DEFINE os == c.lad[s][p].orders
               S == OrdersOf(s, p)
    <3>1. os # <<>> /\ os \in Seq(S) /\ KeysOf(os) = {}  BY <2>1 DEF LaddersOK, LevelOK, KeysAt
    <3> HIDE DEF os, S
    <3>2. 1 \in DOMAIN os  BY <3>1
    <3> QED  BY <3>1, <3>2 DEF KeysOf
  <2> QED  BY <1>3, <2>2 DEF ListAt, LevelAt, NewLevel
<1> QED  BY <1>1, <1>2, <1>3

\* An order's place in the queue is its place in the list.
LEMMA PlaceIsPos ==
    ASSUME NEW s, NEW p, NEW os \in Seq(OrdersOf(s, p)), OneEach(os), NEW k
    PROVE  /\ Abstract!Listed(Entries(os), k) <=> k \in KeysOf(os)
           /\ k \in KeysOf(os) => /\ Abstract!Place(Entries(os), k) = Pos(os, k)
                                  /\ Pos(os, k) \in 1 .. Len(os) /\ os[Pos(os, k)].key = k
<1> DEFINE e == Entries(os)
           n == Len(os)
<1>0. DOMAIN e = 1 .. n /\ DOMAIN os = 1 .. n /\ \A i \in 1 .. n : /\ e[i] = [key |-> os[i].key, size |-> os[i].size]
                                                               /\ e[i].key = os[i].key
                                                               /\ e[i].size = os[i].size
  BY EntriesOK
<1>1. DOMAIN e = 1 .. n /\ DOMAIN os = 1 .. n /\ \A i \in 1 .. n : e[i].key = os[i].key
  <2> HIDE DEF e, n
  <2> QED  BY <1>0
<1> HIDE DEF e, n
<1>2. Abstract!Listed(e, k) <=> k \in KeysOf(os)  BY <1>1 DEF Abstract!Listed, KeysOf
<1>3. ASSUME k \in KeysOf(os)
      PROVE  Abstract!Place(e, k) = Pos(os, k) /\ Pos(os, k) \in 1 .. n /\ os[Pos(os, k)].key = k
  <2> DEFINE i == Abstract!Place(e, k)
             j == Pos(os, k)
  <2>1. PICK m \in 1 .. n : os[m].key = k  BY <1>1, <1>3 DEF KeysOf
  <2>2. i \in 1 .. n /\ e[i].key = k
    <3>1. i = CHOOSE x \in DOMAIN e : e[x].key = k  BY DEF Abstract!Place
    <3> HIDE DEF i
    <3> QED  BY <1>1, <2>1, <3>1
  <2>3. j \in 1 .. n /\ os[j].key = k
    <3>1. j = CHOOSE x \in DOMAIN os : os[x].key = k  BY DEF Pos
    <3> HIDE DEF j
    <3> QED  BY <1>1, <2>1, <3>1
  <2> HIDE DEF i, j
  <2>4. i = j  BY <1>1, <2>2, <2>3 DEF OneEach
  <2> QED  BY <2>3, <2>4 DEF i, j
<1> QED  BY <1>2, <1>3 DEF e, n

\* The list of a level without an order is a list of that level.
LEMMA GoneOK ==
    ASSUME NEW b, IsBook(b), LaddersOK(b), NEW k, NEW s \in Sides, NEW p \in Prices
    PROVE  GoneAt(b, k, s, p) \in Seq(OrdersOf(s, p))
<1> DEFINE lvl == LevelAt(b, s, p)
<1>1. LevelOK(s, p, lvl) /\ KeysOf(lvl.orders) = KeysAt(b, s, p) /\ lvl.orders \in Seq(OrdersOf(s, p))
  BY ListOK DEF ListAt
<1>2. CASE k \in KeysAt(b, s, p)
  <2>1. k \in KeysOf(lvl.orders)  BY <1>1, <1>2
  <2> HIDE DEF lvl
  <2>2. Erased(OrdersOf(s, p), lvl.orders, k, Pos(lvl.orders, k), Drop(lvl.orders, k))  BY <1>1, <2>1, DropOK
  <2>3. Drop(lvl.orders, k) \in Seq(OrdersOf(s, p))  BY <2>2 DEF Erased
  <2> QED  BY <1>2, <2>3 DEF GoneAt, ListAt, lvl
<1>3. CASE k \notin KeysAt(b, s, p)  BY <1>1, <1>3 DEF GoneAt, ListAt
<1> QED  BY <1>2, <1>3

\* A slot is its side and its price.
LEMMA SlotParts ==
    /\ \A l \in Slots : l[1] \in Sides /\ l[2] \in Prices /\ l = <<l[1], l[2]>>
    /\ \A s \in Sides, p \in Prices : <<s, p>> \in Slots /\ <<s, p>>[1] = s /\ <<s, p>>[2] = p
BY DEF Slots

\* What the queues are.
LEMMA QueuesAre ==
    ASSUME NEW b
    PROVE  /\ Queues(b) = [l \in Slots |-> Entries(ListAt(b, l[1], l[2]))]
           /\ \A l \in Slots : Queues(b)[l] = Entries(ListAt(b, l[1], l[2]))
BY DEF Queues, Slots, ListAt

\* The queues without an order.
LEMMA PurgedIs ==
    ASSUME NEW b, IsBook(b), LaddersOK(b), NEW k
    PROVE  Abstract!Purged(Queues(b), k) = [l \in Slots |-> Entries(GoneAt(b, k, l[1], l[2]))]
<1> DEFINE qs == Queues(b)
           out(l) == IF Abstract!Listed(qs[l], k) THEN RemoveAt(qs[l], Abstract!Place(qs[l], k)) ELSE qs[l]
<1>1. Abstract!Purged(qs, k) = [l \in Slots |-> out(l)]
  <2>1. \A q, i : Abstract!RemoveAt(q, i) = RemoveAt(q, i)  BY DEF Abstract!RemoveAt, RemoveAt
  <2> QED  BY <2>1 DEF Abstract!Purged, Slots
<1>2. ASSUME NEW l \in Slots PROVE out(l) = Entries(GoneAt(b, k, l[1], l[2]))
  <2> DEFINE s == l[1]
             p == l[2]
             os == ListAt(b, s, p)
  <2>1. s \in Sides /\ p \in Prices  BY SlotParts
  <2>2. qs[l] = Entries(os)  BY QueuesAre
  <2> HIDE DEF s, p, qs
  <2>3. os \in Seq(OrdersOf(s, p)) /\ OneEach(os) /\ KeysOf(os) = KeysAt(b, s, p)  BY <2>1, ListOK
  <2> HIDE DEF os
  <2>4. /\ Abstract!Listed(qs[l], k) <=> k \in KeysOf(os)
        /\ k \in KeysOf(os) => Abstract!Place(qs[l], k) = Pos(os, k) /\ Pos(os, k) \in 1 .. Len(os)
    BY <2>2, <2>3, PlaceIsPos
  <2>5. CASE k \in KeysOf(os)
    <3>1. out(l) = RemoveAt(Entries(os), Pos(os, k))  BY <2>2, <2>4, <2>5
    <3>2. Entries(RemoveAt(os, Pos(os, k))) = RemoveAt(Entries(os), Pos(os, k))
      BY <2>3, <2>4, <2>5, EntriesRemove
    <3>3. GoneAt(b, k, s, p) = RemoveAt(os, Pos(os, k))  BY <2>3, <2>5 DEF GoneAt, Drop, os
    <3> QED  BY <3>1, <3>2, <3>3 DEF s, p
  <2>6. CASE k \notin KeysOf(os)
    <3>1. GoneAt(b, k, s, p) = os  BY <2>3, <2>6 DEF GoneAt, os
    <3> QED  BY <2>2, <2>4, <2>6, <3>1 DEF s, p
  <2> QED  BY <2>5, <2>6
<1> HIDE DEF out, qs
<1>3. [l \in Slots |-> out(l)] = [l \in Slots |-> Entries(GoneAt(b, k, l[1], l[2]))]  BY <1>2
<1> QED  BY <1>1, <1>3 DEF qs

\* The order o is at the back of its level in c, and nothing else has changed.
JoinedAt(b, c, o) ==
    \A t \in Sides, q \in Prices :
        ListAt(c, t, q) = IF t = o.side /\ q = o.price THEN Append(GoneAt(b, o.key, t, q), o)
                          ELSE GoneAt(b, o.key, t, q)

\* The queues with an order at the back of a level.
LEMMA JoinedIs ==
    ASSUME NEW b, IsBook(b), LaddersOK(b), NEW c, NEW o \in Orders, JoinedAt(b, c, o)
    PROVE  Queues(c) = Abstract!Joined(Queues(b), o.key, <<o.side, o.price>>, o.size)
<1> DEFINE k == o.key
           m == <<o.side, o.price>>
           x == [key |-> k, size |-> o.size]
           ps == Abstract!Purged(Queues(b), k)
           old(l) == Entries(GoneAt(b, k, l[1], l[2]))
           new(l) == Entries(ListAt(c, l[1], l[2]))
<1>0. o.side \in Sides /\ o.price \in Prices /\ m \in Slots /\ m[1] = o.side /\ m[2] = o.price
  <2>1. o.side \in Sides /\ o.price \in Prices  BY DEF Orders
  <2> QED  BY <2>1, SlotParts
<1>1. ps = [l \in Slots |-> old(l)]  BY PurgedIs
<1>2. Abstract!Joined(Queues(b), k, m, o.size) = [ps EXCEPT ![m] = Append(@, x)]
  BY DEF Abstract!Joined, Abstract!Entry
<1>3. Queues(c) = [l \in Slots |-> new(l)]  BY QueuesAre
<1>4. ASSUME NEW l \in Slots, l # m PROVE new(l) = old(l)
  <2>1. l[1] \in Sides /\ l[2] \in Prices /\ l = <<l[1], l[2]>>  BY SlotParts
  <2>2. l[1] # o.side \/ l[2] # o.price  BY <1>4, <2>1
  <2>3. ListAt(c, l[1], l[2]) = GoneAt(b, k, l[1], l[2])  BY <2>1, <2>2 DEF JoinedAt
  <2> QED  BY <2>3
<1>5. new(m) = Append(old(m), x)
  <2> DEFINE s == o.side
             p == o.price
             g == GoneAt(b, k, s, p)
  <2>1. ListAt(c, s, p) = Append(g, o)  BY <1>0 DEF JoinedAt
  <2>2. o \in OrdersOf(s, p)  BY DEF OrdersOf
  <2>3. g \in Seq(OrdersOf(s, p))  BY <1>0, GoneOK
  <2>4. Entries(Append(g, o)) = Append(Entries(g), x)
    <3> HIDE DEF g, s, p
    <3> QED  BY <2>2, <2>3, EntriesAppend
  <2> QED  BY <1>0, <2>1, <2>4
<1> HIDE DEF old, new, x, m
<1>6. [l \in Slots |-> new(l)] = [[l \in Slots |-> old(l)] EXCEPT ![m] = Append(@, x)]
  <2> DEFINE z == Append(old(m), x)
  <2>1. [[l \in Slots |-> old(l)] EXCEPT ![m] = Append(@, x)]
           = [l \in Slots |-> IF l = m THEN z ELSE old(l)]
    BY <1>0
  <2>2. \A l \in Slots : new(l) = IF l = m THEN z ELSE old(l)  BY <1>4, <1>5
  <2> HIDE DEF z
  <2>3. [l \in Slots |-> new(l)] = [l \in Slots |-> IF l = m THEN z ELSE old(l)]  BY <2>2
  <2> QED  BY <2>1, <2>3
<1> QED  BY <1>1, <1>2, <1>3, <1>6 DEF m

-----------------------------------------------------------------------------
(* What the members do to the lists                                        *)

\* deleteImpl takes the order out of its list.
LEMMA DeleteList ==
    ASSUME NEW b, BookOK(b), NEW k, NEW t \in Sides, NEW q \in Prices
    PROVE  ListAt(Delete(b, k), t, q) = GoneAt(b, k, t, q)
<1>1. CASE k \notin DOMAIN b.byId
  <2>1. Delete(b, k) = b  BY <1>1 DEF Delete, Located
  <2>2. k \notin KeysAt(b, t, q)  BY <1>1 DEF BookOK, Indexed
  <2> QED  BY <2>1, <2>2 DEF GoneAt
<1>2. CASE k \in DOMAIN b.byId
  <2> DEFINE s == b.byId[k].side
             p == b.byId[k].price
             lvl == b.lad[s][p]
             o == Resting(b, k)
             u == Unlist(lvl, o)
             c == PutLevel(b, s, p, u)
             f == Without(c.byId, k)
             d == [c EXCEPT !.byId = f]
  <2>1. Rests(b, k, s, p)  BY <1>2, RestingOK
  <2>2. Delete(b, k) = d  BY <1>2, <2>1, Zenon DEF Delete, Located, Rests
  <2> HIDE DEF s, p, o
  <2>3. LevelOK(s, p, u) /\ u.orders = Drop(lvl.orders, k)
    <3>1. LevelOK(s, p, lvl) /\ k \in KeysOf(lvl.orders) /\ o = lvl.orders[Pos(lvl.orders, k)]
      BY <2>1 DEF Rests, o
    <3> HIDE DEF lvl
    <3>2. LevelOK(s, p, Unlist(lvl, o)) /\ o.key = k  BY <3>1, UnlistOK
    <3> QED  BY <3>2 DEF Unlist
  <2>4. /\ s \in Sides /\ p \in Prices /\ IsBook(b) /\ LaddersOK(b)
        /\ k \in KeysAt(b, s, p) /\ ListAt(b, s, p) = lvl.orders
    BY <2>1 DEF Rests, BookOK, KeysAt, ListAt, LevelAt
  <2> HIDE DEF u
  <2>5. Replaced(b, c, s, p, u)  BY <2>3, <2>4, PutLevelOK
  <2> HIDE DEF c
  <2>6. ListAt(c, t, q) = IF t = s /\ q = p THEN u.orders ELSE ListAt(b, t, q)  BY <2>4, <2>5, PutList
  <2>7. d.lad = c.lad
    <3>1. c = [lad |-> c.lad, byId |-> c.byId, agg |-> c.agg, synth |-> c.synth]  BY <2>5 DEF Replaced, IsBook
    <3> HIDE DEF f
    <3> QED  BY <3>1
  <2> HIDE DEF d
  <2>8. ListAt(d, t, q) = ListAt(c, t, q)  BY <2>7 DEF ListAt, LevelAt
  <2>9. t # s \/ q # p => k \notin KeysAt(b, t, q)  BY <2>1 DEF Rests
  <2> QED  BY <2>2, <2>3, <2>4, <2>6, <2>8, <2>9 DEF GoneAt
<1> QED  BY <1>1, <1>2

\* cancel, seen as queues.
LEMMA DeleteQueues ==
    ASSUME NEW b, BookOK(b), NEW k
    PROVE  Queues(Delete(b, k)) = Abstract!Purged(Queues(b), k)
<1> DEFINE d == Delete(b, k)
<1>1. Queues(d) = [l \in Slots |-> Entries(ListAt(d, l[1], l[2]))]  BY QueuesAre
<1>2. \A l \in Slots : ListAt(d, l[1], l[2]) = GoneAt(b, k, l[1], l[2])  BY DeleteList, SlotParts
<1> HIDE DEF d
<1>3. Queues(d) = [l \in Slots |-> Entries(GoneAt(b, k, l[1], l[2]))]  BY <1>1, <1>2
<1>4. IsBook(b) /\ LaddersOK(b)  BY DEF BookOK
<1> QED  BY <1>3, <1>4, PurgedIs DEF d

\* An order that rests nowhere joins the back of its list.
LEMMA JoinList ==
    ASSUME NEW c, IsBook(c), LaddersOK(c), NEW s \in Sides, NEW p \in Prices,
           NEW o \in OrdersOf(s, p), o.key \notin KeysAt(c, s, p), NEW f,
           NEW d, d = [PutLevel(c, s, p, PushBack(LevelAt(c, s, p), o)) EXCEPT !.byId = f],
           NEW t \in Sides, NEW q \in Prices
    PROVE  ListAt(d, t, q) = IF t = s /\ q = p THEN Append(ListAt(c, t, q), o) ELSE ListAt(c, t, q)
<1> DEFINE lvl == LevelAt(c, s, p)
           u == PushBack(lvl, o)
           e == PutLevel(c, s, p, u)
<1>0. d = [e EXCEPT !.byId = f]  OBVIOUS
<1>1. LevelOK(s, p, lvl) /\ o.key \notin KeysOf(lvl.orders)
  BY ListOK DEF ListAt
<1>2. u.orders = Append(lvl.orders, o)  BY DEF PushBack
<1> HIDE DEF lvl
<1>3. LevelOK(s, p, u)  BY <1>1, PushBackOK
<1> HIDE DEF u
<1>4. Replaced(c, e, s, p, u)  BY <1>3, PutLevelOK
<1> HIDE DEF e
<1>5. d.lad = e.lad
  <2>1. e = [lad |-> e.lad, byId |-> e.byId, agg |-> e.agg, synth |-> e.synth]  BY <1>4 DEF Replaced, IsBook
  <2> QED  BY <1>0, <2>1
<1>6. ListAt(d, t, q) = ListAt(e, t, q)  BY <1>5 DEF ListAt, LevelAt
<1>7. ListAt(e, t, q) = IF t = s /\ q = p THEN u.orders ELSE ListAt(c, t, q)  BY <1>4, PutList
<1>8. lvl.orders = ListAt(c, s, p)  BY DEF lvl, ListAt
<1> QED  BY <1>2, <1>6, <1>7, <1>8

\* addImpl sends the order to the back of its level.
LEMMA AddList ==
    ASSUME NEW b, BookOK(b), NEW o \in Orders
    PROVE  JoinedAt(b, Add(b, o), o)
<1> SUFFICES ASSUME NEW t \in Sides, NEW q \in Prices
             PROVE  ListAt(Add(b, o), t, q) =
                       IF t = o.side /\ q = o.price THEN Append(GoneAt(b, o.key, t, q), o)
                       ELSE GoneAt(b, o.key, t, q)
  BY DEF JoinedAt
<1> DEFINE c == Delete(b, o.key)
           s == o.side
           p == o.price
           e == PutLevel(c, s, p, PushBack(LevelAt(c, s, p), o))
           f == With(e.byId, o.key, [side |-> s, price |-> p])
<1>1. BookOK(c) /\ DOMAIN c.byId = DOMAIN b.byId \ {o.key}  BY DeleteOK
<1>2. ListAt(c, t, q) = GoneAt(b, o.key, t, q)  BY DeleteList
<1>3. Add(b, o) = [e EXCEPT !.byId = f]  BY DEF Add
<1> HIDE DEF c
<1>4. IsBook(c) /\ LaddersOK(c) /\ Indexed(c)  BY <1>1 DEF BookOK
<1>5. s \in Sides /\ p \in Prices /\ o \in OrdersOf(s, p)  BY DEF Orders, OrdersOf
<1> HIDE DEF s, p
<1>6. o.key \notin KeysAt(c, s, p)  BY <1>1, <1>4, <1>5 DEF Indexed
<1> HIDE DEF f
<1> DEFINE d == Add(b, o)
<1>7. d = [PutLevel(c, s, p, PushBack(LevelAt(c, s, p), o)) EXCEPT !.byId = f]  BY <1>3
<1> HIDE DEF d
<1>8. ListAt(d, t, q) = IF t = s /\ q = p THEN Append(ListAt(c, t, q), o) ELSE ListAt(c, t, q)
  BY <1>4, <1>5, <1>6, <1>7, JoinList
<1> QED  BY <1>2, <1>8 DEF d, s, p

\* priorityImpl sends the order to the back of the same level.
LEMMA PriorityList ==
    ASSUME NEW b, BookOK(b), NEW k \in DOMAIN b.byId, NEW prio \in Priorities, PriorityChanges(b, k, prio)
    PROVE  /\ JoinedAt(b, Priority(b, k, prio), [Resting(b, k) EXCEPT !.prio = prio])
           /\ [Resting(b, k) EXCEPT !.prio = prio] \in Orders
           /\ [Resting(b, k) EXCEPT !.prio = prio].key = k
           /\ [Resting(b, k) EXCEPT !.prio = prio].size = Resting(b, k).size
           /\ [Resting(b, k) EXCEPT !.prio = prio].side = b.byId[k].side
           /\ [Resting(b, k) EXCEPT !.prio = prio].price = b.byId[k].price
<1> DEFINE s == b.byId[k].side
           p == b.byId[k].price
           lvl == b.lad[s][p]
           o == Resting(b, k)
           new == [o EXCEPT !.prio = prio]
           z == Append(Drop(lvl.orders, k), new)
           w == [lvl EXCEPT !.orders = z]
           c == PutLevel(b, s, p, w)
<1>1. Rests(b, k, s, p)  BY RestingOK
<1>2. /\ s \in Sides /\ p \in Prices /\ LevelOK(s, p, lvl) /\ k \in KeysOf(lvl.orders)
      /\ o = lvl.orders[Pos(lvl.orders, k)] /\ ~Dangling(b, k) /\ p \in DOMAIN b.lad[s]
      /\ k \in KeysAt(b, s, p) /\ ListAt(b, s, p) = lvl.orders /\ IsBook(b) /\ LaddersOK(b)
      /\ \A t \in Sides, q \in Prices : t # s \/ q # p => k \notin KeysAt(b, t, q)
  BY <1>1, Zenon DEF Rests, KeysAt, ListAt, LevelAt, BookOK
<1>3. Priority(b, k, prio) = c  BY <1>2, Zenon DEF Priority
<1>3a. k \in DOMAIN b.byId  OBVIOUS
<1> HIDE DEF s, p, o
<1>4. o \in OrdersOf(s, p) /\ o.key = k
  <2> HIDE DEF lvl
  <2>1. Erased(OrdersOf(s, p), lvl.orders, k, Pos(lvl.orders, k), Drop(lvl.orders, k))  BY <1>2, DropOK
  <2> QED  BY <1>2, <2>1 DEF Erased
<1>5. new \in OrdersOf(s, p) /\ new.key = k /\ new.size = o.size /\ new \in Orders /\ new.side = s /\ new.price = p
  BY <1>4 DEF OrdersOf, Orders
<1> HIDE DEF new
<1>6. \A t \in Sides, q \in Prices :
        ListAt(c, t, q) = IF t = s /\ q = p THEN z ELSE ListAt(b, t, q)
  <2>1. lvl = [orders |-> lvl.orders, total |-> lvl.total]  BY <1>2 DEF LevelOK
  <2> HIDE DEF lvl
  <2>2. w = [orders |-> z, total |-> lvl.total] /\ w.orders = z
    <3> HIDE DEF z
    <3> QED  BY <2>1
  <2>3. z # <<>>
    <3>1. Erased(OrdersOf(s, p), lvl.orders, k, Pos(lvl.orders, k), Drop(lvl.orders, k))  BY <1>2, DropOK
    <3> DEFINE y == Drop(lvl.orders, k)
               S == OrdersOf(s, p)
    <3>2. y \in Seq(S) /\ new \in S  BY <1>5, <3>1 DEF Erased
    <3> HIDE DEF y, S
    <3>3. Len(Append(y, new)) # 0 /\ Len(<<>>) = 0  BY <3>2
    <3> QED  BY <3>3 DEF y
  <2> HIDE DEF z, w
  <2>4. c.lad = [b.lad EXCEPT ![s] = With(b.lad[s], p, w)]
    <3>1. b = [lad |-> b.lad, byId |-> b.byId, agg |-> b.agg, synth |-> b.synth]  BY <1>2 DEF IsBook
    <3>2. c = [b EXCEPT !.lad[s] = With(@, p, w)]  BY <2>2, <2>3 DEF PutLevel
    <3> HIDE DEF c
    <3> QED  BY <3>1, <3>2
  <2>5. DOMAIN b.lad = Sides  BY <1>2 DEF IsBook
  <2> HIDE DEF c
  <2> TAKE t \in Sides, q \in Prices
  <2>6. c.lad[t] = IF t = s THEN With(b.lad[s], p, w) ELSE b.lad[t]  BY <2>4, <2>5
  <2>7. CASE t = s /\ q = p
    <3>1. q \in DOMAIN c.lad[t] /\ c.lad[t][q] = w  BY <2>6, <2>7 DEF With
    <3> QED  BY <2>2, <2>7, <3>1 DEF ListAt, LevelAt
  <2>8. CASE t = s /\ q # p
    <3>1. (q \in DOMAIN c.lad[t] <=> q \in DOMAIN b.lad[t]) /\ (q \in DOMAIN b.lad[t] => c.lad[t][q] = b.lad[t][q])
      BY <2>6, <2>8 DEF With
    <3> QED  BY <2>8, <3>1 DEF ListAt, LevelAt
  <2>9. CASE t # s  BY <2>6, <2>9 DEF ListAt, LevelAt
  <2> QED  BY <2>7, <2>8, <2>9
<1> HIDE DEF c, lvl
<1>7. JoinedAt(b, c, new)
  <2> SUFFICES ASSUME NEW t \in Sides, NEW q \in Prices
               PROVE  ListAt(c, t, q) = IF t = s /\ q = p THEN Append(GoneAt(b, k, t, q), new) ELSE GoneAt(b, k, t, q)
    BY <1>5 DEF JoinedAt
  <2>1. CASE t = s /\ q = p  BY <1>2, <1>6, <2>1 DEF GoneAt
  <2>2. CASE t # s \/ q # p  BY <1>2, <1>6, <2>2 DEF GoneAt
  <2> QED  BY <2>1, <2>2
<1>8. c = Priority(b, k, prio)  BY <1>3
<1>9. JoinedAt(b, Priority(b, k, prio), new)  BY <1>7, <1>8
<1> QED  BY <1>5, <1>9 DEF new, o, s, p

\* A level replaced by one with orders of its own.
LEMMA PutListAt ==
    ASSUME NEW b, BookOK(b), NEW s \in Sides, NEW p \in Prices, NEW lvl, LevelOK(s, p, lvl),
           NEW t \in Sides, NEW q \in Prices
    PROVE  ListAt(PutLevel(b, s, p, lvl), t, q) = IF t = s /\ q = p THEN lvl.orders ELSE ListAt(b, t, q)
<1> DEFINE c == PutLevel(b, s, p, lvl)
<1>1. IsBook(b) /\ LaddersOK(b)  BY DEF BookOK
<1>2. Replaced(b, c, s, p, lvl)  BY <1>1, PutLevelOK
<1> HIDE DEF c
<1>3. ListAt(c, t, q) = IF t = s /\ q = p THEN lvl.orders ELSE ListAt(b, t, q)  BY <1>2, PutList
<1> QED  BY <1>3 DEF c

\* The order at its place has become o.
ResizedAt(b, c, o) ==
    \A t \in Sides, q \in Prices :
        ListAt(c, t, q) = IF t = o.side /\ q = o.price
                          THEN [ListAt(b, t, q) EXCEPT ![Pos(ListAt(b, t, q), o.key)] = o]
                          ELSE ListAt(b, t, q)

\* The order an update makes of a resting one.
Updated(o, np, nz) == [o EXCEPT !.price = Target(np, o.price), !.size = Target(nz, o.size)]

\* updateImpl removes, resizes in place or sends to the back of another level.
LEMMA UpdateList ==
    ASSUME NEW b, BookOK(b), NEW k \in DOMAIN b.byId,
           NEW np \in Prices \cup {None}, NEW nz \in Nat \cup {None},
           NEW o, o = Resting(b, k), NEW tgt, tgt = Updated(o, np, nz),
           NEW c, c = Update(b, k, np, nz)
    PROVE  /\ Rests(b, k, o.side, o.price) /\ o \in Orders /\ o.key = k
           /\ tgt \in Orders /\ tgt.key = k /\ tgt.side = o.side
           /\ tgt.size = Target(nz, o.size) /\ tgt.price = Target(np, o.price)
           /\ \/ tgt.size = 0 /\ c = Delete(b, k)
              \/ tgt.size # 0 /\ tgt.price = o.price /\ ResizedAt(b, c, tgt)
              \/ tgt.size # 0 /\ tgt.price # o.price /\ JoinedAt(b, c, tgt)
<1> DEFINE s == b.byId[k].side
           p == b.byId[k].price
           lvl == b.lad[s][p]
           os == lvl.orders
           i == Pos(os, k)
           x == Target(np, o.price)
           z == Target(nz, o.size)
<1>1. Rests(b, k, s, p)  BY RestingOK
<1>2. /\ s \in Sides /\ p \in Prices /\ k \in Keys /\ LevelOK(s, p, lvl) /\ k \in KeysOf(os)
      /\ o = os[i] /\ IsBook(b) /\ LaddersOK(b) /\ Indexed(b) /\ ~Dangling(b, k) /\ p \in DOMAIN b.lad[s]
      /\ ListAt(b, s, p) = os /\ k \in KeysAt(b, s, p)
      /\ \A t \in Sides, q \in Prices : t # s \/ q # p => k \notin KeysAt(b, t, q)
  BY <1>1, Zenon DEF Rests, BookOK, ListAt, LevelAt, KeysAt
<1>3. i \in 1 .. Len(os) /\ o.key = k /\ o \in OrdersOf(s, p)
  <2>1. Erased(OrdersOf(s, p), lvl.orders, k, Pos(lvl.orders, k), Drop(lvl.orders, k))
    <3> HIDE DEF lvl, s, p
    <3> QED  BY <1>2, DropOK
  <2> QED  BY <1>2, <2>1, Zenon DEF Erased
<1>4. os \in Seq(OrdersOf(s, p)) /\ OneEach(os) /\ lvl.total = SizeSum(os) /\ Sized(os)
  <2>1. os \in Seq(OrdersOf(s, p)) /\ OneEach(os) /\ lvl.total = SizeSum(os)  BY <1>2, Zenon DEF LevelOK
  <2> QED  BY <2>1, LevelSized, Zenon
<1> DEFINE up == Update(b, k, np, nz)
<1>5. tgt = [o EXCEPT !.price = x, !.size = z] /\ c = up  BY DEF Updated
<1>6. up = IF tgt.size = 0 THEN Delete(b, k)
           ELSE IF tgt.price = o.price
           THEN PutLevel(b, s, p, [orders |-> [os EXCEPT ![i] = tgt], total |-> lvl.total - o.size + tgt.size])
           ELSE LET out == PutLevel(b, s, p, Unlist(lvl, o))
                    put == PutLevel(out, s, tgt.price, PushBack(LevelAt(out, s, tgt.price), tgt))
                IN  [put EXCEPT !.byId[k].price = tgt.price]
  BY <1>2, <1>5, Zenon DEF Update, Located
<1> HIDE DEF s, p, i, x, z, up
<1>7. x \in Prices /\ z \in Nat /\ o.price = p /\ o.side = s /\ o \in Orders
  BY <1>2, <1>3 DEF Target, OrdersOf, Orders, x, z
<1>8. tgt \in OrdersOf(s, x) /\ tgt.key = k /\ tgt.size = z /\ tgt.price = x /\ tgt \in Orders /\ tgt.side = s
  BY <1>3, <1>5, <1>7 DEF OrdersOf, Orders
<1>9. CASE tgt.size = 0
  <2>1. c = Delete(b, k)  BY <1>5, <1>6, <1>9
  <2> QED  BY <1>1, <1>3, <1>7, <1>8, <1>9, <2>1 DEF x, z
<1>10. CASE tgt.size # 0 /\ tgt.price = o.price
  <2> DEFINE y == [os EXCEPT ![i] = tgt]
             new == [orders |-> y, total |-> lvl.total - o.size + tgt.size]
  <2>1. c = PutLevel(b, s, p, new)  BY <1>5, <1>6, <1>10
  <2>2. SizeSum(y) = SizeSum(os) - o.size + tgt.size
    <3>1. tgt \in OrdersOf(s, p) /\ tgt.size \in Nat  BY <1>7, <1>8, <1>10
    <3> QED  BY <1>2, <1>3, <1>4, <3>1, SumReplace
  <2>3. /\ y \in Seq(OrdersOf(s, p)) /\ DOMAIN y = DOMAIN os
        /\ \A j \in DOMAIN os : y[j].key = os[j].key
    <3>1. tgt \in OrdersOf(s, p)  BY <1>7, <1>8, <1>10
    <3> DEFINE S == OrdersOf(s, p)
    <3>2. y \in Seq(S) /\ DOMAIN y = DOMAIN os /\ \A j \in DOMAIN os : y[j] = IF j = i THEN tgt ELSE os[j]
      <4> HIDE DEF S, os
      <4> QED  BY <1>3, <1>4, <3>1 DEF S
    <3> QED  BY <1>2, <1>3, <1>8, <3>2
  <2>4. OneEach(y)
    <3> HIDE DEF y
    <3>1. OneEach(os)  BY <1>4
    <3> QED  BY ONLY <2>3, <3>1 DEF OneEach
  <2>5. LevelOK(s, p, new) /\ new.orders = y
    <3> HIDE DEF y, lvl
    <3>1. new.orders = y /\ new.total = lvl.total - o.size + tgt.size /\ new = [orders |-> new.orders, total |-> new.total]
      OBVIOUS
    <3>2. lvl.total = SizeSum(os)  BY <1>4
    <3> HIDE DEF new
    <3> QED  BY <2>2, <2>3, <2>4, <3>1, <3>2 DEF LevelOK
  <2> HIDE DEF new, y
  <2>6. \A t \in Sides, q \in Prices : ListAt(c, t, q) = IF t = s /\ q = p THEN y ELSE ListAt(b, t, q)
    BY <1>2, <2>1, <2>5, PutListAt
  <2>7. ResizedAt(b, c, tgt)
    <3> SUFFICES ASSUME NEW t \in Sides, NEW q \in Prices
                 PROVE  ListAt(c, t, q) = IF t = s /\ q = p
                          THEN [ListAt(b, t, q) EXCEPT ![Pos(ListAt(b, t, q), k)] = tgt]
                          ELSE ListAt(b, t, q)
      BY <1>7, <1>8, <1>10 DEF ResizedAt
    <3> QED  BY <1>2, <2>6 DEF y, i
  <2> QED  BY <1>1, <1>3, <1>7, <1>8, <1>10, <2>7 DEF x, z
<1>11. CASE tgt.size # 0 /\ tgt.price # o.price
  <2> DEFINE u == Unlist(lvl, o)
             d == PutLevel(b, s, p, u)
             e == PutLevel(d, s, x, PushBack(LevelAt(d, s, x), tgt))
             f == [e.byId EXCEPT ![k].price = x]
  <2>1. up = [e EXCEPT !.byId[k].price = x]  BY <1>6, <1>8, <1>11
  <2>2. [e EXCEPT !.byId[k].price = x] = [e EXCEPT !.byId = f]  OBVIOUS
  <2>3. c = [PutLevel(d, s, x, PushBack(LevelAt(d, s, x), tgt)) EXCEPT !.byId = f]  BY <1>5, <2>1, <2>2, Zenon
  <2>4. LevelOK(s, p, u) /\ u.orders = Drop(os, k)
    <3> HIDE DEF lvl
    <3>1. LevelOK(s, p, Unlist(lvl, o))  BY <1>2, UnlistOK DEF i, os
    <3> QED  BY <1>3, <3>1 DEF Unlist, os
  <2> HIDE DEF u
  <2>5. Replaced(b, d, s, p, u)  BY <1>2, <2>4, PutLevelOK
  <2>6. \A t \in Sides, q \in Prices : ListAt(d, t, q) = IF t = s /\ q = p THEN u.orders ELSE ListAt(b, t, q)
    BY <1>2, <2>4, PutListAt
  <2> HIDE DEF d
  <2>7. IsBook(d) /\ LaddersOK(d) /\ KeysAt(d, s, x) = KeysAt(b, s, x)  BY <1>2, <1>7, <1>8, <1>11, <2>5 DEF Replaced
  <2>8. k \notin KeysAt(d, s, x)  BY <1>2, <1>7, <1>8, <1>11, <2>7
  <2> HIDE DEF f
  <2>9. ASSUME NEW t \in Sides, NEW q \in Prices
        PROVE  ListAt(c, t, q) = IF t = s /\ q = x THEN Append(ListAt(d, t, q), tgt) ELSE ListAt(d, t, q)
    <3>1. IsBook(d) /\ LaddersOK(d) /\ s \in Sides /\ x \in Prices /\ tgt \in OrdersOf(s, x)
          /\ tgt.key \notin KeysAt(d, s, x)
      BY <1>2, <1>7, <1>8, <2>7, <2>8
    <3>2. c = [PutLevel(d, s, x, PushBack(LevelAt(d, s, x), tgt)) EXCEPT !.byId = f]  BY <2>3
    <3> HIDE DEF lvl, os
    <3> QED  BY ONLY <3>1, <3>2, t \in Sides, q \in Prices, JoinList
  <2>10. ASSUME NEW t \in Sides, NEW q \in Prices PROVE ListAt(d, t, q) = GoneAt(b, k, t, q)
    <3>1. CASE t = s /\ q = p  BY <1>2, <2>4, <2>6, <3>1 DEF GoneAt
    <3>2. CASE t # s \/ q # p  BY <1>2, <2>6, <3>2 DEF GoneAt
    <3> QED  BY <3>1, <3>2
  <2>11. JoinedAt(b, c, tgt)  BY <1>8, <2>9, <2>10 DEF JoinedAt
  <2> QED  BY <1>1, <1>3, <1>7, <1>8, <1>11, <2>11 DEF x, z
<1>12. Rests(b, k, o.side, o.price)  BY <1>1, <1>7
<1> QED  BY <1>3, <1>7, <1>8, <1>9, <1>10, <1>11, <1>12 DEF x, z

\* Resizing in place, seen as queues.
LEMMA ResizedIs ==
    ASSUME NEW b, BookOK(b), NEW k, NEW tgt \in Orders, tgt.key = k, Rests(b, k, tgt.side, tgt.price),
           NEW c, ResizedAt(b, c, tgt), NEW l, l = <<tgt.side, tgt.price>>
    PROVE  Queues(c) = [Queues(b) EXCEPT ![l] =
              [i \in DOMAIN @ |-> IF @[i].key = k THEN [key |-> k, size |-> tgt.size] ELSE @[i]]]
<1> DEFINE s == tgt.side
           p == tgt.price
           os == ListAt(b, s, p)
           i == Pos(os, k)
           y == [os EXCEPT ![i] = tgt]
           x == [key |-> k, size |-> tgt.size]
           e == Entries(os)
           w == [j \in DOMAIN e |-> IF e[j].key = k THEN x ELSE e[j]]
           n == Len(os)
           old(m) == Entries(ListAt(b, m[1], m[2]))
           new(m) == Entries(ListAt(c, m[1], m[2]))
<1>1. s \in Sides /\ p \in Prices /\ l \in Slots /\ l[1] = s /\ l[2] = p /\ tgt \in OrdersOf(s, p)
      /\ IsBook(b) /\ LaddersOK(b)
  <2>1. s \in Sides /\ p \in Prices /\ tgt \in OrdersOf(s, p)  BY DEF Orders, OrdersOf
  <2> QED  BY <2>1, SlotParts DEF BookOK
<1>2. os \in Seq(OrdersOf(s, p)) /\ OneEach(os) /\ KeysOf(os) = KeysAt(b, s, p)  BY <1>1, ListOK
<1>3. k \in KeysOf(os)  BY <1>2 DEF Rests, KeysAt
<1> HIDE DEF os
<1>4. i \in 1 .. n /\ os[i].key = k  BY <1>2, <1>3, PlaceIsPos
<1>5. /\ DOMAIN e = 1 .. n /\ n \in Nat /\ DOMAIN os = 1 .. n
      /\ \A j \in 1 .. n : /\ e[j] = [key |-> os[j].key, size |-> os[j].size]
                           /\ e[j].key = os[j].key /\ e[j].size = os[j].size
  BY <1>2, EntriesOK
<1>6. DOMAIN y = 1 .. n /\ \A j \in 1 .. n : y[j] = IF j = i THEN tgt ELSE os[j]
  <2> HIDE DEF i, n
  <2> QED  BY <1>4, <1>5
<1> HIDE DEF i, y, e, x, n
<1>7. Entries(y) = w
  <2>1. Entries(y) = [j \in 1 .. n |-> [key |-> y[j].key, size |-> y[j].size]]  BY <1>6 DEF Entries
  <2>2. ASSUME NEW j \in 1 .. n
        PROVE  [key |-> y[j].key, size |-> y[j].size] = IF e[j].key = k THEN x ELSE e[j]
    <3>1. CASE j = i  BY <1>4, <1>5, <1>6, <3>1 DEF x
    <3>2. CASE j # i
      <4>1. e[j].key # k  BY <1>2, <1>4, <1>5, <3>2 DEF OneEach
      <4>2. y[j] = os[j]  BY <1>6, <3>2
      <4> QED  BY <1>5, <4>1, <4>2
    <3> QED  BY <3>1, <3>2
  <2>3. w = [j \in 1 .. n |-> IF e[j].key = k THEN x ELSE e[j]]  BY <1>5
  <2> HIDE DEF w
  <2> QED  BY <2>1, <2>2, <2>3
<1>8. Queues(c) = [m \in Slots |-> new(m)] /\ Queues(b) = [m \in Slots |-> old(m)]  BY QueuesAre
<1>9. ASSUME NEW m \in Slots, m # l PROVE new(m) = old(m)
  <2>1. m[1] \in Sides /\ m[2] \in Prices /\ m = <<m[1], m[2]>>  BY SlotParts
  <2>2. m[1] # s \/ m[2] # p  BY <1>9, <2>1
  <2>3. ListAt(c, m[1], m[2]) = ListAt(b, m[1], m[2])  BY <2>1, <2>2 DEF ResizedAt
  <2> QED  BY <2>3
<1>10. new(l) = w /\ old(l) = e
  <2>1. ListAt(c, s, p) = y  BY <1>1 DEF ResizedAt, y, i, os
  <2> QED  BY <1>1, <1>7, <2>1 DEF e, os
<1> DEFINE qs == Queues(b)
<1>11. qs[l] = e  BY <1>1, <1>8, <1>10
<1>12. [qs EXCEPT ![l] = [j \in DOMAIN @ |-> IF @[j].key = k THEN x ELSE @[j]]] = [qs EXCEPT ![l] = w]
  BY <1>11
<1> HIDE DEF old, new, w, qs
<1>13. [m \in Slots |-> new(m)] = [qs EXCEPT ![l] = w]
  <2>1. [qs EXCEPT ![l] = w] = [m \in Slots |-> IF m = l THEN w ELSE old(m)]
    <3>1. qs = [m \in Slots |-> old(m)]  BY <1>8 DEF qs
    <3> QED  BY <1>1, <3>1
  <2>2. \A m \in Slots : new(m) = IF m = l THEN w ELSE old(m)  BY <1>9, <1>10
  <2> QED  BY <2>1, <2>2
<1> QED  BY <1>8, <1>12, <1>13 DEF qs, x

-----------------------------------------------------------------------------
(* A trade fills a list from its front                                     *)

\* The sums of the first orders never go down.
LEMMA SumsGrow ==
    ASSUME NEW os, Sized(os), NEW f, SumsOf(f, os), NEW i \in 0 .. Len(os), NEW j \in 0 .. Len(os), i <= j
    PROVE  f[i] <= f[j] /\ f[i] \in Int /\ f[j] \in Int
<1> DEFINE n == Len(os)
           P == {k \in 0 .. n : i <= k => f[i] <= f[k]}
<1>1. /\ n \in Nat /\ f \in [0 .. n -> Int]
      /\ \A k \in 1 .. n : f[k] = f[k - 1] + os[k].size /\ os[k].size \in Nat
  BY DEF Sized, SumsOf
<1> HIDE DEF n
<1>2. i \in 0 .. n /\ j \in 0 .. n  BY DEF n
<1>3. 0 \in P
  <2>1. i <= 0 => i = 0  BY <1>2
  <2> QED  BY <1>1, <2>1
<1>4. ASSUME NEW k \in 0 .. n - 1, k \in P PROVE k + 1 \in P
  <2>1. k \in 0 .. n /\ k + 1 \in 1 .. n /\ k + 1 \in 0 .. n /\ (k + 1) - 1 = k  BY <1>1
  <2>2. f[k + 1] = f[k] + os[k + 1].size /\ os[k + 1].size \in Nat  BY <1>1, <2>1
  <2>3. f[k] \in Int /\ f[i] \in Int /\ f[k + 1] \in Int  BY <1>1, <1>2, <2>1
  <2>4. CASE i <= k  BY <1>4, <2>1, <2>2, <2>3, <2>4
  <2>5. CASE ~(i <= k)
    <3>1. i <= k + 1 => i = k + 1  BY <1>2, <2>1, <2>5
    <3> QED  BY <2>1, <2>3, <3>1
  <2> QED  BY <2>4, <2>5
<1>5. 0 .. n \subseteq P
  <2> HIDE DEF P
  <2> QED  BY <1>1, <1>3, <1>4, UpTo
<1>6. j \in P  BY <1>2, <1>5
<1> QED  BY <1>1, <1>2, <1>6

\* The sum of the first m orders.
LEMMA SumPrefix ==
    ASSUME NEW S, NEW os \in Seq(S), NEW f, SumsOf(f, os), NEW m \in 0 .. Len(os)
    PROVE  SizeSum(SubSeq(os, 1, m)) = f[m]
<1> DEFINE h == SubSeq(os, 1, m)
           g == [i \in 0 .. m |-> f[i]]
           n == Len(os)
<1>1. n \in Nat /\ f \in [0 .. n -> Int] /\ f[0] = 0 /\ \A i \in 1 .. n : f[i] = f[i - 1] + os[i].size
  BY DEF SumsOf
<1>2. m \in Nat /\ m <= n /\ Len(h) = m /\ \A i \in 1 .. m : h[i] = os[i]  BY <1>1
<1> HIDE DEF h, n
<1>3. g \in [0 .. m -> Int] /\ g[0] = 0  BY <1>1, <1>2
<1>4. ASSUME NEW i \in 1 .. m PROVE g[i] = g[i - 1] + h[i].size
  <2>1. i \in 1 .. n /\ i \in 0 .. m /\ i - 1 \in 0 .. m  BY <1>1, <1>2
  <2>2. g[i] = f[i] /\ g[i - 1] = f[i - 1] /\ h[i] = os[i]  BY <1>2, <2>1
  <2>3. f[i] = f[i - 1] + os[i].size  BY <1>1, <2>1
  <2> HIDE DEF g
  <2> QED  BY <2>2, <2>3
<1>5. g[m] = f[m]  BY <1>2
<1> HIDE DEF g
<1>6. SumsOf(g, h)  BY <1>2, <1>3, <1>4 DEF SumsOf
<1>7. SizeSum(h) = g[m]  BY <1>2, <1>6, SumUnique
<1> QED  BY <1>5, <1>7 DEF h

\* What is left when the first m orders go.
LEMMA UnspentTail ==
    ASSUME NEW S, NEW os \in Seq(S), NEW m \in 0 .. Len(os)
    PROVE  Unspent(os, 1 .. m) = SubSeq(os, m + 1, Len(os))
<1> DEFINE n == Len(os)
           spent == 1 .. m
           seqs == [i \in DOMAIN os |-> IF i \in spent THEN <<>> ELSE <<os[i]>>]
<1>1. n \in Nat /\ DOMAIN os = 1 .. n /\ (\A i \in 1 .. n : os[i] \in S) /\ m \in Nat /\ m <= n  OBVIOUS
<1>2. /\ seqs \in Seq(Seq(S)) /\ Len(seqs) = n
      /\ \A i \in 1 .. n : seqs[i] = IF i \in spent THEN <<>> ELSE <<os[i]>>
  <2> HIDE DEF spent
  <2>1. \A i \in 1 .. n : (IF i \in spent THEN <<>> ELSE <<os[i]>>) \in Seq(S)  BY <1>1
  <2> QED  BY <1>1, <2>1
<1>3. Unspent(os, 1 .. m) = FlattenSeq(seqs)  BY DEF Unspent
<1>4. ASSUME NEW i \in 0 .. n
      PROVE  /\ SubSeq(os, m + 1, i) \in Seq(S)
             /\ i <= m => SubSeq(os, m + 1, i) = <<>>
             /\ i > m => /\ Len(SubSeq(os, m + 1, i)) = i - m
                         /\ \A j \in 1 .. i - m : SubSeq(os, m + 1, i)[j] = os[m + j]
  <2>1. CASE i <= m
    <3>1. Len(SubSeq(os, m + 1, i)) = 0 /\ SubSeq(os, m + 1, i) \in Seq(S)  BY <1>1, <2>1
    <3>2. SubSeq(os, m + 1, i) = <<>>  BY <3>1
    <3> QED  BY <1>1, <2>1, <3>1, <3>2
  <2>2. CASE i > m
    <3>1. m + 1 \in 1 .. n /\ i \in 1 .. n /\ m + 1 <= i  BY <1>1, <2>2
    <3>2. /\ SubSeq(os, m + 1, i) \in Seq(S) /\ Len(SubSeq(os, m + 1, i)) = i - (m + 1) + 1
          /\ \A j \in 1 .. i - (m + 1) + 1 : SubSeq(os, m + 1, i)[j] = os[(m + 1) + j - 1]
      BY <1>1, <3>1
    <3>3. i - (m + 1) + 1 = i - m /\ \A j \in 1 .. i - m : (m + 1) + j - 1 = m + j  BY <1>1
    <3> QED  BY <1>1, <2>2, <3>2, <3>3
  <2> QED  BY <1>1, <2>1, <2>2
<1> HIDE DEF n, seqs
<1>5. CASE n = 0
  <2>1. seqs = <<>>  BY <1>2, <1>5
  <2>2. FlattenSeq(seqs) = <<>>  BY <2>1 DEF FlattenSeq
  <2>3. SubSeq(os, m + 1, n) = <<>>  BY <1>1, <1>4, <1>5
  <2> QED  BY <1>3, <2>2, <2>3 DEF n
<1>6. CASE n # 0
  <2>0. n - 1 \in Nat /\ seqs # <<>>
    <3>1. seqs = <<>> => Len(seqs) = 0  OBVIOUS
    <3> QED  BY <1>1, <1>2, <1>6, <3>1
  <2>1. PICK q \in [1 .. n -> Seq(S)] : /\ q[1] = seqs[1]
                                        /\ \A i \in 2 .. n : q[i] = q[i - 1] \o seqs[i]
                                        /\ FlattenSeq(seqs) = q[n]
    BY <1>2, <2>0, FlattenSteps
  <2> DEFINE w(i) == SubSeq(os, m + 1, i)
             P == {k \in 0 .. n - 1 : q[k + 1] = w(k + 1)}
  <2>2. ASSUME NEW i \in 1 .. n PROVE w(i - 1) \o seqs[i] = w(i)
    <3>1. i \in 0 .. n /\ i - 1 \in 0 .. n  BY <1>1
    <3>2. w(i) \in Seq(S) /\ w(i - 1) \in Seq(S)  BY <1>4, <3>1
    <3>3. CASE i <= m
      <4>1. w(i) = <<>> /\ w(i - 1) = <<>>
        <5>1. i - 1 <= m  BY <1>1, <3>3
        <5> QED  BY <1>4, <3>1, <3>3, <5>1
      <4>2. seqs[i] = <<>>  BY <1>1, <1>2, <3>3
      <4> HIDE DEF w
      <4> QED  BY <4>1, <4>2
    <3>4. CASE i > m
      <4>1. seqs[i] = <<os[i]>> /\ os[i] \in S  BY <1>1, <1>2, <3>4
      <4>2. Len(w(i)) = i - m /\ \A j \in 1 .. i - m : w(i)[j] = os[m + j]  BY <1>4, <3>1, <3>4
      <4>3. Len(w(i - 1)) = (i - 1) - m /\ \A j \in 1 .. (i - 1) - m : w(i - 1)[j] = os[m + j]
        <5>1. CASE i - 1 > m  BY <1>4, <3>1, <5>1
        <5>2. CASE ~(i - 1 > m)
          <6>1. i - 1 = m  BY <1>1, <3>4, <5>2
          <6>2. w(i - 1) = <<>>  BY <1>1, <1>4, <3>1, <6>1
          <6>3. Len(w(i - 1)) = 0
            <7> HIDE DEF w
            <7> QED  BY <6>2
          <6> QED  BY <1>1, <6>1, <6>3
        <5> QED  BY <5>1, <5>2
      <4> DEFINE a == w(i - 1)
                 v == a \o <<os[i]>>
                 len == i - m
      <4>4. len \in Nat /\ len # 0 /\ (i - 1) - m = len - 1 /\ m + len = i  BY <1>1, <3>4
      <4> HIDE DEF w, len
      <4>5. a \in Seq(S) /\ Len(a) = len - 1  BY <3>2, <4>3, <4>4
      <4>6. \A j \in 1 .. len - 1 : a[j] = os[m + j]  BY <4>3, <4>4
      <4> HIDE DEF a
      <4>7. v \in Seq(S) /\ Len(v) = len /\ v[len] = os[i] /\ \A j \in 1 .. len - 1 : v[j] = a[j]
        BY <4>1, <4>4, <4>5
      <4> HIDE DEF v
      <4>8. \A j \in 1 .. len : v[j] = w(i)[j]
        <5> TAKE j \in 1 .. len
        <5>1. w(i)[j] = os[m + j]  BY <4>2 DEF len
        <5>2. CASE j = len  BY <4>4, <4>7, <5>1, <5>2
        <5>3. CASE j # len
          <6>1. j \in 1 .. len - 1  BY <4>4, <5>3
          <6> QED  BY <4>6, <4>7, <5>1, <6>1
        <5> QED  BY <5>2, <5>3
      <4>9. v = w(i)
        <5>1. Len(w(i)) = len  BY <4>2 DEF len
        <5> QED  BY <3>2, <4>7, <4>8, <5>1, SameSeq
      <4> QED  BY <4>1, <4>9 DEF v, a
    <3>5. i <= m \/ i > m  BY <1>1
    <3> HIDE DEF w
    <3> QED  BY <3>3, <3>4, <3>5
  <2>3. 0 \in P
    <3>1. 1 \in 1 .. n /\ 1 - 1 = 0 /\ 0 + 1 = 1 /\ 0 \in 0 .. n - 1 /\ 0 \in 0 .. n  BY <1>1, <2>0
    <3>2. w(0) = <<>>  BY <1>1, <1>4, <3>1
    <3>3. w(0) \o seqs[1] = w(1)  BY <2>2, <3>1
    <3>4. seqs[1] \in Seq(S)  BY <1>2, <3>1
    <3> HIDE DEF w
    <3>5. <<>> \o seqs[1] = seqs[1]  BY <3>4
    <3>6. q[1] = w(1)  BY <2>1, <3>2, <3>3, <3>5
    <3> QED  BY <3>1, <3>6
  <2> HIDE DEF w
  <2>4. ASSUME NEW k \in 0 .. (n - 1) - 1, k \in P PROVE k + 1 \in P
    <3>1. /\ (k + 1) + 1 \in 2 .. n /\ (k + 1) + 1 \in 1 .. n
          /\ ((k + 1) + 1) - 1 = k + 1 /\ k + 1 \in 0 .. n - 1
      BY <1>1, <2>0
    <3>2. q[(k + 1) + 1] = q[k + 1] \o seqs[(k + 1) + 1]  BY <2>1, <3>1
    <3>3. w(k + 1) \o seqs[(k + 1) + 1] = w((k + 1) + 1)  BY <2>2, <3>1
    <3>4. q[k + 1] = w(k + 1)  BY <2>4
    <3> QED  BY <3>1, <3>2, <3>3, <3>4
  <2>5. 0 .. n - 1 \subseteq P
    <3> DEFINE r == n - 1
    <3>1. r \in Nat /\ 0 \in P /\ \A k \in 0 .. r - 1 : k \in P => k + 1 \in P  BY <2>0, <2>3, <2>4
    <3> HIDE DEF P, r
    <3>2. 0 .. r \subseteq P  BY <3>1, UpTo
    <3> QED  BY <3>2 DEF r
  <2>6. q[n] = w(n)
    <3>1. n - 1 \in 0 .. n - 1 /\ (n - 1) + 1 = n  BY <1>1, <2>0
    <3>2. n - 1 \in P  BY <2>5, <3>1
    <3> QED  BY <3>1, <3>2
  <2> QED  BY <1>3, <2>1, <2>6 DEF w, n
<1> QED  BY <1>5, <1>6

\* f sums the sizes of os; a trade of qty takes the first m orders whole and part of the next.
Cuts(os, qty, f, m) ==
    /\ Spent(os, qty) = 1 .. m
    /\ f[m] <= qty /\ (m > 0 => f[m - 1] < qty)
    /\ m < Len(os) => f[m] = qty \/ qty - f[m] < os[m + 1].size
    /\ \A i \in m + 1 .. Len(os) :
          Fill(os, qty)[i] = IF i = m + 1 THEN [os[i] EXCEPT !.size = @ - (qty - f[m])] ELSE os[i]

\* consumeAtLevel works from the front.
LEMMA FillCuts ==
    ASSUME NEW s, NEW p, NEW os \in Seq(OrdersOf(s, p)), NEW qty \in Nat \ {0}, NEW f, SumsOf(f, os)
    PROVE  \E m \in 0 .. Len(os) : Cuts(os, qty, f, m)
<1> DEFINE n == Len(os)
           S == OrdersOf(s, p)
           cut == Fill(os, qty)
           left(i) == Minus(qty, f[i - 1])
           R == {i \in 1 .. n : f[i - 1] < qty /\ f[i] <= qty}
           P == {k \in 0 .. n : 1 .. k \subseteq R}
<1>0. Sized(os)  BY LevelSized
<1>1. n \in Nat /\ DOMAIN os = 1 .. n /\ \A i \in 1 .. n : os[i] \in S
  <2>1. os \in Seq(S)  OBVIOUS
  <2> HIDE DEF S
  <2> QED  BY ONLY <2>1 DEF n
<1>2. /\ f \in [0 .. n -> Int] /\ f[0] = 0
      /\ \A i \in 1 .. n : f[i] = f[i - 1] + os[i].size /\ os[i].size \in Nat
  BY <1>0 DEF SumsOf, Sized
<1>3. ASSUME NEW i \in 0 .. n, NEW j \in 0 .. n, i <= j PROVE f[i] <= f[j] /\ f[i] \in Int /\ f[j] \in Int
  BY <1>0, <1>3, SumsGrow
<1>4. ASSUME NEW i \in 1 .. n
      PROVE  /\ SizeSum(SubSeq(os, 1, i - 1)) = f[i - 1]
             /\ cut[i] = [os[i] EXCEPT !.size = Minus(os[i].size, left(i))]
             /\ cut[i].size = Minus(os[i].size, left(i))
  <2>1. i - 1 \in 0 .. Len(os)  BY <1>1
  <2>2. SizeSum(SubSeq(os, 1, i - 1)) = f[i - 1]
    <3>1. os \in Seq(S)  OBVIOUS
    <3> HIDE DEF S
    <3> QED  BY <2>1, <3>1, SumPrefix
  <2>3. cut[i] = [os[i] EXCEPT !.size = Minus(os[i].size, Minus(qty, SizeSum(SubSeq(os, 1, i - 1))))]
    BY <1>1 DEF Fill
  <2>4. os[i] \in Orders  BY <1>1 DEF OrdersOf
  <2> HIDE DEF cut, n
  <2>5. cut[i] = [os[i] EXCEPT !.size = Minus(os[i].size, left(i))]  BY <2>2, <2>3
  <2> HIDE DEF left
  <2>6. cut[i].size = Minus(os[i].size, left(i))  BY <2>4, <2>5 DEF Orders
  <2> QED  BY <2>2, <2>5, <2>6
<1>5. Spent(os, qty) = R
  <2>1. Spent(os, qty) = {i \in 1 .. n : cut[i].size = 0 /\ SizeSum(SubSeq(os, 1, i - 1)) < qty}
    BY <1>1 DEF Spent
  <2> HIDE DEF cut, n
  <2>2. ASSUME NEW i \in 1 .. n
        PROVE  (cut[i].size = 0 /\ SizeSum(SubSeq(os, 1, i - 1)) < qty) <=> (f[i - 1] < qty /\ f[i] <= qty)
    <3>1. f[i - 1] \in Int /\ f[i] = f[i - 1] + os[i].size /\ os[i].size \in Nat
      <4>1. i - 1 \in 0 .. n  BY <1>1
      <4> QED  BY <1>2, <4>1
    <3>2. CASE f[i - 1] < qty
      <4>1. left(i) = qty - f[i - 1]  BY <3>1, <3>2 DEF Minus
      <4>2. Minus(os[i].size, left(i)) = 0 <=> os[i].size <= qty - f[i - 1]
        <5> HIDE DEF left
        <5> QED  BY <3>1, <4>1 DEF Minus
      <4>3. cut[i].size = Minus(os[i].size, left(i)) /\ SizeSum(SubSeq(os, 1, i - 1)) = f[i - 1]  BY <1>4
      <4> HIDE DEF left
      <4> QED  BY <3>1, <3>2, <4>2, <4>3
    <3>3. CASE ~(f[i - 1] < qty)  BY <1>4, <3>3
    <3> QED  BY <3>2, <3>3
  <2> QED  BY <2>1, <2>2
<1> HIDE DEF cut, left, n
<1>6. ASSUME NEW i \in R, NEW j \in 1 .. n, j <= i PROVE j \in R
  <2>1. i \in 1 .. n /\ f[i - 1] < qty /\ f[i] <= qty  OBVIOUS
  <2>2. i \in 0 .. n /\ j \in 0 .. n /\ i - 1 \in 0 .. n /\ j - 1 \in 0 .. n /\ j - 1 <= i - 1  BY <1>1, <1>6, <2>1
  <2>3. f[j] <= f[i] /\ f[j - 1] <= f[i - 1] /\ f[j] \in Int /\ f[i] \in Int /\ f[j - 1] \in Int /\ f[i - 1] \in Int
    BY <1>3, <1>6, <2>2
  <2> QED  BY <2>1, <2>3
<1>7. PICK m \in 0 .. n : m \in P /\ (m < n => m + 1 \notin R)
  <2>1. 0 \in P  BY <1>1
  <2>2. CASE \E k \in 0 .. n - 1 : k \in P /\ k + 1 \notin P
    <3>1. PICK k \in 0 .. n - 1 : k \in P /\ k + 1 \notin P  BY <2>2
    <3>2. k + 1 \in 0 .. n /\ k \in 0 .. n  BY <1>1
    <3>3. k + 1 \notin R
      <4>1. \A x \in 1 .. k + 1 : x \in 1 .. k \/ x = k + 1  BY <3>2
      <4>2. ~(1 .. k + 1 \subseteq R) /\ 1 .. k \subseteq R  BY <3>1, <3>2
      <4> HIDE DEF R
      <4> QED  BY <4>1, <4>2
    <3> QED  BY <3>1, <3>2, <3>3
  <2>3. CASE ~\E k \in 0 .. n - 1 : k \in P /\ k + 1 \notin P
    <3>1. 0 .. n \subseteq P
      <4>1. \A k \in 0 .. n - 1 : k \in P => k + 1 \in P  BY <2>3
      <4> HIDE DEF P
      <4> QED  BY <1>1, <2>1, <4>1, UpTo
    <3>2. n \in 0 .. n /\ ~(n < n)  BY <1>1
    <3> HIDE DEF P
    <3> QED  BY <3>1, <3>2
  <2> QED  BY <2>2, <2>3
<1>8. m \in Nat /\ m <= n /\ 1 .. m \subseteq R  BY <1>1, <1>7
<1>9. R = 1 .. m
  <2>1. ASSUME NEW i \in R PROVE i \in 1 .. m
    <3>1. i \in 1 .. n  OBVIOUS
    <3>2. CASE i > m
      <4>1. m < n /\ m + 1 \in 1 .. n /\ m + 1 <= i  BY <1>1, <1>8, <3>1, <3>2
      <4>2. m + 1 \in R  BY <1>6, <4>1
      <4> QED  BY <1>7, <4>1, <4>2
    <3> QED  BY <1>8, <3>1, <3>2
  <2> HIDE DEF R
  <2> QED  BY <1>8, <2>1
<1>10. f[m] <= qty /\ (m > 0 => f[m - 1] < qty) /\ f[m] \in Int
  <2>1. CASE m = 0  BY <1>2, <2>1
  <2>2. CASE m # 0
    <3>1. m \in R /\ m \in 0 .. n  BY <1>8, <1>9, <2>2
    <3> QED  BY <1>2, <3>1
  <2> QED  BY <2>1, <2>2
<1>11. m < n => (f[m] = qty \/ qty - f[m] < os[m + 1].size) /\ f[m + 1] >= qty
  <2> SUFFICES ASSUME m < n PROVE (f[m] = qty \/ qty - f[m] < os[m + 1].size) /\ f[m + 1] >= qty  OBVIOUS
  <2>1. m + 1 \in 1 .. n /\ (m + 1) - 1 = m  BY <1>1, <1>8
  <2>2. f[m + 1] = f[m] + os[m + 1].size /\ os[m + 1].size \in Nat  BY <1>2, <2>1
  <2>3. ~(f[m] < qty /\ f[m + 1] <= qty)  BY <1>7, <2>1
  <2> QED  BY <1>10, <2>2, <2>3
<1>12. ASSUME NEW i \in m + 1 .. n
       PROVE  cut[i] = IF i = m + 1 THEN [os[i] EXCEPT !.size = @ - (qty - f[m])] ELSE os[i]
  <2>1. i \in 1 .. n /\ m < n  BY <1>1, <1>8
  <2>2. cut[i] = [os[i] EXCEPT !.size = Minus(os[i].size, left(i))]  BY <1>4, <2>1
  <2>3. os[i].size \in Nat /\ os[i] \in Orders  BY <1>1, <1>2, <2>1 DEF OrdersOf
  <2>4. CASE i = m + 1
    <3>1. i - 1 = m  BY <1>8, <2>4
    <3>2. left(i) = qty - f[m]  BY <1>10, <3>1 DEF left, Minus
    <3>3. Minus(os[i].size, left(i)) = os[i].size - (qty - f[m])
      BY <1>10, <1>11, <2>1, <2>3, <2>4, <3>2 DEF Minus
    <3> QED  BY <2>2, <2>4, <3>3
  <2>5. CASE i # m + 1
    <3>1. m + 1 \in 0 .. n /\ i - 1 \in 0 .. n /\ m + 1 <= i - 1  BY <1>1, <1>8, <2>1, <2>5
    <3>2. f[m + 1] <= f[i - 1] /\ f[m + 1] \in Int /\ f[i - 1] \in Int  BY <1>3, <3>1
    <3>3. left(i) = 0  BY <1>11, <2>1, <3>2 DEF left, Minus
    <3>4. Minus(os[i].size, left(i)) = os[i].size  BY <2>3, <3>3 DEF Minus
    <3>5. [os[i] EXCEPT !.size = os[i].size] = os[i]  BY <2>3 DEF Orders
    <3> QED  BY <2>2, <2>5, <3>4, <3>5
  <2> QED  BY <2>4, <2>5
<1> QED  BY <1>5, <1>7, <1>9, <1>10, <1>11, <1>12 DEF Cuts, cut, n

\* consumeAtLevel replaces the list of its level and no other.
LEMMA ConsumeList ==
    ASSUME NEW b, BookOK(b), NEW s \in Sides, NEW p \in Prices, p \in DOMAIN b.lad[s], NEW qty \in Nat,
           NEW t \in Sides, NEW q \in Prices
    PROVE  ListAt(Consume(b, s, p, qty), t, q) =
              IF t = s /\ q = p THEN Unspent(Fill(ListAt(b, s, p), qty), Spent(ListAt(b, s, p), qty))
              ELSE ListAt(b, t, q)
<1> DEFINE lvl == b.lad[s][p]
           os == lvl.orders
           cut == Fill(os, qty)
           spent == Spent(os, qty)
           z == Unspent(cut, spent)
           new == [orders |-> z, total |-> lvl.total - (SizeSum(os) - SizeSum(cut))]
           c == PutLevel(b, s, p, new)
           gone == {cut[i].key : i \in spent}
           f == Restrict(c.byId, DOMAIN c.byId \ gone)
           d == [c EXCEPT !.byId = f]
<1>1. Consume(b, s, p, qty) = d  BY DEF Consume
<1>2. IsBook(b) /\ LaddersOK(b) /\ LevelOK(s, p, lvl) /\ ListAt(b, s, p) = os
  BY DEF BookOK, LaddersOK, ListAt, LevelAt
<1>3. os \in Seq(OrdersOf(s, p)) /\ OneEach(os) /\ lvl.total = SizeSum(os)  BY <1>2 DEF LevelOK
<1> HIDE DEF lvl
<1>4. spent \subseteq DOMAIN cut /\ \A i \in spent \cap DOMAIN cut : cut[i].size = 0
  <2>1. DOMAIN cut = DOMAIN os  BY <1>3, FillOK
  <2> QED  BY <2>1 DEF Spent
<1>5. cut \in Seq(OrdersOf(s, p)) /\ OneEach(cut) /\ Sized(cut)
  <2>1. /\ cut \in Seq(OrdersOf(s, p)) /\ DOMAIN cut = DOMAIN os
        /\ \A i \in DOMAIN os : cut[i].key = os[i].key
    <3> HIDE DEF os, spent
    <3> QED  BY <1>3, FillOK
  <2> HIDE DEF cut, os
  <2>2. OneEach(cut)  BY <1>3, <2>1 DEF OneEach
  <2>3. Sized(cut)  BY <2>1, LevelSized
  <2> QED  BY <2>1, <2>2, <2>3
<1> HIDE DEF cut, spent
<1>6. SizeSum(os) \in Nat /\ SizeSum(cut) \in Nat
  <2>1. Sized(os)  BY <1>3, LevelSized
  <2> QED  BY <1>5, <2>1, SumNat
<1>7. z \in Seq(OrdersOf(s, p)) /\ OneEach(z) /\ SizeSum(z) = SizeSum(cut)
  <2> DEFINE S == OrdersOf(s, p)
  <2>1. cut \in Seq(S) /\ spent \in SUBSET DOMAIN cut  BY <1>4, <1>5
  <2> HIDE DEF S
  <2>2. z \in Seq(S) /\ OneEach(z)  BY <1>5, <2>1, UnspentOK
  <2>3. SizeSum(z) = SizeSum(cut)  BY <1>4, <1>5, <2>1, SumUnspent
  <2> QED  BY <2>2, <2>3 DEF S
<1>8. LevelOK(s, p, new) /\ new.orders = z
  <2>1. new.orders = z /\ new.total = SizeSum(z)  BY <1>3, <1>6, <1>7
  <2> HIDE DEF z, gone
  <2>2. new = [orders |-> new.orders, total |-> new.total]  OBVIOUS
  <2> HIDE DEF new
  <2> QED  BY <1>7, <2>1, <2>2 DEF LevelOK
<1> HIDE DEF new, gone
<1>9. Replaced(b, c, s, p, new) /\ ListAt(c, t, q) = IF t = s /\ q = p THEN new.orders ELSE ListAt(b, t, q)
  <2>1. Replaced(b, c, s, p, new)  BY <1>2, <1>8, PutLevelOK
  <2> HIDE DEF c
  <2> QED  BY <2>1, PutList
<1> HIDE DEF c
<1>10. d.lad = c.lad
  <2>1. c = [lad |-> c.lad, byId |-> c.byId, agg |-> c.agg, synth |-> c.synth]  BY <1>9 DEF Replaced, IsBook
  <2> HIDE DEF f
  <2> QED  BY <2>1
<1> HIDE DEF d
<1>11. ListAt(d, t, q) = ListAt(c, t, q)  BY <1>10 DEF ListAt, LevelAt
<1> QED  BY <1>1, <1>2, <1>8, <1>9, <1>11 DEF z, cut, spent

\* z holds the entries of q after the first m.
TailIs(z, q, m) ==
    /\ Len(z) = Len(q) - m /\ DOMAIN z = 1 .. Len(q) - m
    /\ \A j \in 1 .. Len(q) - m : z[j] = q[m + j]
    /\ z = <<>> <=> m = Len(q)

\* A queue without its first m entries.
LEMMA TailOf ==
    ASSUME NEW S, NEW q \in Seq(S), NEW m \in 0 .. Len(q), NEW z, z = SubSeq(q, m + 1, Len(q))
    PROVE  z \in Seq(S) /\ TailIs(z, q, m)
<1> SUFFICES /\ z \in Seq(S) /\ Len(z) = Len(q) - m /\ DOMAIN z = 1 .. Len(q) - m
             /\ \A j \in 1 .. Len(q) - m : z[j] = q[m + j]
             /\ z = <<>> <=> m = Len(q)
  BY DEF TailIs
<1> DEFINE n == Len(q)
<1>1. n \in Nat /\ m \in Nat /\ m <= n  OBVIOUS
<1>2. CASE m = n
  <2>1. Len(z) = 0 /\ z \in Seq(S)  BY <1>1, <1>2
  <2>2. z = <<>>  BY <2>1
  <2>3. n - m = 0  BY <1>1, <1>2
  <2> QED  BY <1>2, <2>1, <2>2, <2>3
<1>3. CASE m < n
  <2>1. m + 1 \in 1 .. n /\ n \in 1 .. n /\ m + 1 <= n  BY <1>1, <1>3
  <2>2. z \in Seq(S) /\ Len(z) = n - (m + 1) + 1 /\ \A j \in 1 .. n - (m + 1) + 1 : z[j] = q[(m + 1) + j - 1]
    BY <1>1, <2>1
  <2>3. n - (m + 1) + 1 = n - m /\ \A j \in 1 .. n - m : (m + 1) + j - 1 = m + j  BY <1>1
  <2> HIDE DEF n
  <2>4. z \in Seq(S) /\ Len(z) = n - m /\ \A j \in 1 .. n - m : z[j] = q[m + j]  BY <2>2, <2>3
  <2>5. n - m # 0 /\ m # n  BY <1>1, <1>3
  <2>6. z # <<>>
    <3>1. z = <<>> => Len(z) = 0  OBVIOUS
    <3> QED  BY <2>4, <2>5, <3>1
  <2>7. DOMAIN z = 1 .. n - m  BY ONLY <2>4
  <2> QED  BY <2>4, <2>5, <2>6, <2>7 DEF n
<1> QED  BY <1>1, <1>2, <1>3

\* A queue whose first order has lost n.
Shortened(rest, n) ==
    IF rest = <<>> THEN <<>> ELSE [rest EXCEPT ![1] = Abstract!Entry(@.key, @.size - n)]

\* rs is what a trade of n that fills the first m orders of level l makes of qs.
Executed(qs, rs, l, n, m) ==
    LET filled == Abstract!Volume(SubSeq(qs[l], 1, m))
        rest == SubSeq(qs[l], m + 1, Len(qs[l]))
    IN  /\ filled <= n
        /\ m > 0 => Abstract!Volume(SubSeq(qs[l], 1, m - 1)) < n
        /\ rest # <<>> => filled = n \/ n - filled < rest[1].size
        /\ rs = [qs EXCEPT ![l] = Shortened(rest, n - filled)]

\* z is what a trade of qty leaves of os; rest are the entries after the first m, d what the
\* first of them loses.
TradedAt(os, qty, f, m, z, rest, d) ==
    /\ qty \in Nat \ {0} /\ SumsOf(f, os) /\ m \in 0 .. Len(os) /\ Cuts(os, qty, f, m)
    /\ z = Unspent(Fill(os, qty), Spent(os, qty))
    /\ rest = SubSeq(Entries(os), m + 1, Len(Entries(os)))
    /\ d = qty - f[m]

\* Entries of a list that has lost its first orders and part of the next.
LEMMA EntriesCut ==
    ASSUME NEW s, NEW p, NEW os \in Seq(OrdersOf(s, p)), NEW qty, NEW f, NEW m, NEW z, NEW rest, NEW d,
           TradedAt(os, qty, f, m, z, rest, d)
    PROVE  Entries(z) = Shortened(rest, d)
<1> /\ qty \in Nat \ {0} /\ SumsOf(f, os) /\ m \in 0 .. Len(os) /\ Cuts(os, qty, f, m)
    /\ z = Unspent(Fill(os, qty), Spent(os, qty))
    /\ rest = SubSeq(Entries(os), m + 1, Len(Entries(os)))
    /\ d = qty - f[m]
  BY DEF TradedAt
<1> DEFINE n == Len(os)
           S == OrdersOf(s, p)
           cut == Fill(os, qty)
           e == Entries(os)
           k == n - m
<1>1. n \in Nat /\ m \in Nat /\ m <= n /\ DOMAIN os = 1 .. n /\ Len(e) = n /\ e \in Seq(EntrySet)
      /\ \A i \in 1 .. n : /\ e[i] = [key |-> os[i].key, size |-> os[i].size]
                           /\ e[i].key = os[i].key /\ e[i].size = os[i].size
  <2>1. /\ Len(e) = n /\ n \in Nat /\ DOMAIN os = 1 .. n /\ e \in Seq(EntrySet)
        /\ \A i \in 1 .. n : /\ e[i] = [key |-> os[i].key, size |-> os[i].size]
                             /\ e[i].key = os[i].key /\ e[i].size = os[i].size
    BY ONLY os \in Seq(OrdersOf(s, p)), EntriesOK
  <2>2. m \in 0 .. n  OBVIOUS
  <2> HIDE DEF e, n
  <2> QED  BY ONLY <2>1, <2>2
<1>2. cut \in Seq(S) /\ DOMAIN cut = 1 .. n /\ Len(cut) = n
  <2>1. cut \in Seq(S) /\ DOMAIN cut = 1 .. n  BY <1>1, FillOK
  <2> HIDE DEF S, cut, n
  <2> QED  BY <1>1, <2>1
<1>3. z = SubSeq(cut, m + 1, n)
  <2>1. z = Unspent(cut, 1 .. m)  BY DEF Cuts
  <2> HIDE DEF S, cut, n
  <2>2. m \in 0 .. Len(cut)  BY <1>1, <1>2
  <2>3. Unspent(cut, 1 .. m) = SubSeq(cut, m + 1, Len(cut))  BY <1>2, <2>2, UnspentTail
  <2> QED  BY <1>2, <2>1, <2>3
<1>4. /\ z \in Seq(S) /\ DOMAIN z = 1 .. k /\ (z = <<>> <=> m = n)
      /\ \A j \in 1 .. k : z[j] = cut[m + j]
  <2> HIDE DEF S, cut, n
  <2>1. m \in 0 .. Len(cut)  BY <1>1, <1>2
  <2>2. z = SubSeq(cut, m + 1, Len(cut)) /\ cut \in Seq(S) /\ Len(cut) = n  BY <1>2, <1>3
  <2>3. z \in Seq(S) /\ TailIs(z, cut, m)  BY ONLY <2>1, <2>2, TailOf
  <2> QED  BY ONLY <2>2, <2>3 DEF TailIs, k
<1>5. /\ DOMAIN rest = 1 .. k /\ (rest = <<>> <=> m = n)
      /\ \A j \in 1 .. k : rest[j] = e[m + j]
  <2> HIDE DEF e, n
  <2>1. m \in 0 .. Len(e)  BY <1>1
  <2>2. rest = SubSeq(e, m + 1, Len(e)) /\ e \in Seq(EntrySet) /\ Len(e) = n  BY <1>1 DEF e
  <2>3. TailIs(rest, e, m)  BY ONLY <2>1, <2>2, TailOf
  <2> QED  BY ONLY <2>2, <2>3 DEF TailIs, k
<1>6. \A i \in m + 1 .. n : cut[i] = IF i = m + 1 THEN [os[i] EXCEPT !.size = @ - (qty - f[m])] ELSE os[i]
  BY DEF Cuts
<1>7. \A i \in 1 .. n : os[i] \in Orders
  <2>1. os \in Seq(S)  OBVIOUS
  <2> HIDE DEF S
  <2>2. \A i \in 1 .. n : os[i] \in S  BY <2>1
  <2> QED  BY <2>2 DEF S, OrdersOf
<1> HIDE DEF S, cut, e, n, k
<1>8. Entries(z) = [j \in 1 .. k |-> [key |-> z[j].key, size |-> z[j].size]]  BY <1>4 DEF Entries
<1>9. CASE m = n
  <2>1. z = <<>> /\ DOMAIN <<>> = {} /\ rest = <<>>  BY <1>4, <1>5, <1>9
  <2>2. Entries(z) = <<>>  BY <2>1 DEF Entries
  <2> QED  BY <2>1, <2>2 DEF Shortened
<1>10. CASE m # n
  <2> DEFINE x == [key |-> rest[1].key, size |-> rest[1].size - (qty - f[m])]
  <2>1. k \in Nat /\ k # 0 /\ 1 \in 1 .. k /\ rest # <<>>  BY <1>1, <1>5, <1>10 DEF k
  <2>2. Shortened(rest, qty - f[m]) = [rest EXCEPT ![1] = x]
    BY <1>5, <2>1 DEF Shortened, Abstract!Entry
  <2>3. [rest EXCEPT ![1] = x] = [j \in 1 .. k |-> IF j = 1 THEN x ELSE rest[j]]
    <3> HIDE DEF x
    <3>1. rest = [j \in 1 .. k |-> rest[j]]
      <4>1. m \in 0 .. Len(e) /\ rest = SubSeq(e, m + 1, Len(e)) /\ e \in Seq(EntrySet)  BY <1>1 DEF e
      <4>2. rest \in Seq(EntrySet)  BY <4>1, TailOf
      <4>3. DOMAIN rest = 1 .. k  BY <1>5
      <4> DEFINE S2 == EntrySet
      <4> HIDE DEF S2
      <4>4. rest \in Seq(S2)  BY <4>2 DEF S2
      <4> QED  BY ONLY <4>3, <4>4
    <3> QED  BY <2>1, <3>1
  <2>4. ASSUME NEW j \in 1 .. k
        PROVE  [key |-> z[j].key, size |-> z[j].size] = IF j = 1 THEN x ELSE rest[j]
    <3>1. m + j \in 1 .. n /\ m + j \in m + 1 .. n /\ (m + j = m + 1 <=> j = 1)  BY <1>1 DEF k
    <3>2. z[j] = cut[m + j] /\ rest[j] = e[m + j] /\ os[m + j] \in Orders  BY <1>4, <1>5, <1>7, <3>1
    <3>3. rest[j] = [key |-> os[m + j].key, size |-> os[m + j].size]
          /\ rest[j].key = os[m + j].key /\ rest[j].size = os[m + j].size
      BY <1>1, <3>1, <3>2
    <3>4. CASE j = 1
      <4>1. z[j] = [os[m + j] EXCEPT !.size = @ - (qty - f[m])]  BY <1>6, <3>1, <3>2, <3>4
      <4>2. z[j].key = os[m + j].key /\ z[j].size = os[m + j].size - (qty - f[m])  BY <3>2, <4>1 DEF Orders
      <4> QED  BY <3>3, <3>4, <4>2
    <3>5. CASE j # 1
      <4>1. z[j] = os[m + j]  BY <1>6, <3>1, <3>2, <3>5
      <4> QED  BY <3>3, <3>5, <4>1
    <3> QED  BY <3>4, <3>5
  <2> HIDE DEF x
  <2>5. Entries(z) = [j \in 1 .. k |-> IF j = 1 THEN x ELSE rest[j]]  BY <1>8, <2>4
  <2> QED  BY <2>1, <2>2, <2>3, <2>5
<1> QED  BY <1>9, <1>10

\* consumeAtLevel, seen as queues.
LEMMA ExecuteIs ==
    ASSUME NEW b, BookOK(b), NEW s \in Sides, NEW p \in Prices, p \in DOMAIN b.lad[s], NEW qty \in Nat \ {0},
           NEW c, c = Consume(b, s, p, qty), NEW l, l = <<s, p>>
    PROVE  \E m \in 0 .. Len(Queues(b)[l]) : Executed(Queues(b), Queues(c), l, qty, m)
<1> DEFINE os == ListAt(b, s, p)
           n == Len(os)
           e == Entries(os)
           qs == Queues(b)
           rs == Queues(c)
           z == Unspent(Fill(os, qty), Spent(os, qty))
<1>1. l \in Slots /\ l[1] = s /\ l[2] = p  BY SlotParts
<1>2. qs[l] = e /\ qs = [j \in Slots |-> Entries(ListAt(b, j[1], j[2]))]
      /\ rs = [j \in Slots |-> Entries(ListAt(c, j[1], j[2]))]
  BY <1>1, QueuesAre
<1>3. os \in Seq(OrdersOf(s, p)) /\ Sized(os)
  <2>1. os \in Seq(OrdersOf(s, p))  BY ListOK DEF BookOK
  <2> HIDE DEF os
  <2> QED  BY <2>1, LevelSized
<1>4. ASSUME NEW t \in Sides, NEW q \in Prices
      PROVE  ListAt(c, t, q) = IF t = s /\ q = p THEN z ELSE ListAt(b, t, q)
  BY ConsumeList
<1> HIDE DEF os, qs, rs, z
<1>5. PICK f : SumsOf(f, os)  BY <1>3, SumsExist
<1>6. PICK m \in 0 .. n : Cuts(os, qty, f, m)  BY <1>3, <1>5, FillCuts
<1>7. /\ n \in Nat /\ Len(e) = n /\ e \in Seq(EntrySet) /\ \A i \in 1 .. n : e[i].size = os[i].size
  <2>1. /\ n \in Nat /\ Len(e) = n /\ e \in Seq(EntrySet)
        /\ \A i \in 1 .. n : /\ e[i] = [key |-> os[i].key, size |-> os[i].size]
                             /\ e[i].key = os[i].key /\ e[i].size = os[i].size
    BY <1>3, EntriesOK
  <2> HIDE DEF e, n
  <2> QED  BY <2>1
<1> DEFINE rest == SubSeq(e, m + 1, Len(e))
           new == Shortened(rest, qty - f[m])
<1>8. Entries(z) = new
  <2>1. rest = SubSeq(Entries(os), m + 1, Len(Entries(os)))  OBVIOUS
  <2>2. z = Unspent(Fill(os, qty), Spent(os, qty))  BY DEF z
  <2> HIDE DEF rest
  <2>3. qty \in Nat \ {0} /\ m \in 0 .. Len(os) /\ Cuts(os, qty, f, m)  BY <1>6
  <2> DEFINE d == qty - f[m]
  <2>4. d = qty - f[m]  OBVIOUS
  <2> HIDE DEF d, n, e
  <2>5. TradedAt(os, qty, f, m, z, rest, d)  BY <1>5, <2>1, <2>2, <2>3, <2>4 DEF TradedAt
  <2>6. Entries(z) = Shortened(rest, d)  BY <1>3, <2>5, EntriesCut
  <2> QED  BY <2>6 DEF d
<1> HIDE DEF e, n
<1>9. SumsOf(f, e)
  <2>1. f \in [0 .. n -> Int] /\ f[0] = 0 /\ \A i \in 1 .. n : f[i] = f[i - 1] + os[i].size
    BY <1>5 DEF SumsOf, n
  <2> QED  BY <1>7, <2>1 DEF SumsOf
<1>10. ASSUME NEW j \in 0 .. n PROVE Abstract!Volume(SubSeq(e, 1, j)) = f[j]
  <2>1. j \in 0 .. Len(e)  BY <1>7
  <2>2. SizeSum(SubSeq(e, 1, j)) = f[j]  BY <1>7, <1>9, <2>1, SumPrefix
  <2>3. Abstract!Volume(SubSeq(e, 1, j)) = SizeSum(SubSeq(e, 1, j))  BY DEF Abstract!Volume, SizeSum
  <2> QED  BY <2>2, <2>3
<1>11. /\ f[m] <= qty /\ (m > 0 => f[m - 1] < qty)
       /\ rest # <<>> => f[m] = qty \/ qty - f[m] < rest[1].size
  <2>1. m \in 0 .. Len(e)  BY <1>7
  <2>2. (rest = <<>> <=> m = n) /\ \A j \in 1 .. n - m : rest[j] = e[m + j]
    <3>1. rest = SubSeq(e, m + 1, Len(e)) /\ e \in Seq(EntrySet) /\ Len(e) = n  BY <1>7
    <3> HIDE DEF rest
    <3>2. TailIs(rest, e, m)  BY ONLY <2>1, <3>1, TailOf
    <3> QED  BY ONLY <3>1, <3>2 DEF TailIs
  <2> HIDE DEF rest
  <2>3. m < n => rest[1] = e[m + 1] /\ e[m + 1].size = os[m + 1].size
    <3>1. m < n => 1 \in 1 .. n - m /\ m + 1 \in 1 .. n  BY <1>7
    <3> QED  BY <1>7, <2>2, <3>1
  <2>4. m < n \/ m = n  BY <1>7
  <2> QED  BY <1>6, <2>2, <2>3, <2>4 DEF Cuts, n
<1>12. rs = [qs EXCEPT ![l] = new]
  <2> HIDE DEF new
  <2> DEFINE old(j) == Entries(ListAt(b, j[1], j[2]))
             aft(j) == Entries(ListAt(c, j[1], j[2]))
  <2>1. ASSUME NEW j \in Slots PROVE aft(j) = IF j = l THEN new ELSE old(j)
    <3>1. j[1] \in Sides /\ j[2] \in Prices /\ j = <<j[1], j[2]>>  BY SlotParts
    <3>2. CASE j = l
      <4>1. ListAt(c, j[1], j[2]) = z  BY <1>1, <1>4, <3>1, <3>2
      <4> QED  BY <1>8, <3>2, <4>1
    <3>3. CASE j # l
      <4>1. j[1] # s \/ j[2] # p  BY <3>1, <3>3
      <4>2. ListAt(c, j[1], j[2]) = ListAt(b, j[1], j[2])  BY <1>4, <3>1, <4>1
      <4> QED  BY <3>3, <4>2
    <3> QED  BY <3>2, <3>3
  <2>2. qs = [j \in Slots |-> old(j)] /\ rs = [j \in Slots |-> aft(j)]  BY <1>2
  <2> HIDE DEF old, aft
  <2>3. [qs EXCEPT ![l] = new] = [j \in Slots |-> IF j = l THEN new ELSE old(j)]  BY <1>1, <2>2
  <2> QED  BY <2>1, <2>2, <2>3
<1>13. Executed(qs, rs, l, qty, m)
  <2>1. Abstract!Volume(SubSeq(e, 1, m)) = f[m]  BY <1>10
  <2>2. m > 0 => Abstract!Volume(SubSeq(e, 1, m - 1)) = f[m - 1]
    <3>1. m > 0 => m - 1 \in 0 .. n  BY <1>7
    <3> QED  BY <1>10, <3>1
  <2>3. qs[l] = e  BY <1>2
  <2> HIDE DEF rest
  <2>4. rest = SubSeq(qs[l], m + 1, Len(qs[l]))  BY <2>3 DEF rest
  <2> QED  BY <1>11, <1>12, <2>1, <2>2, <2>3, <2>4 DEF Executed
<1>14. m \in 0 .. Len(qs[l])  BY <1>2, <1>7
<1> QED  BY <1>13, <1>14 DEF qs, rs

-----------------------------------------------------------------------------
(* What the members do to the queues                                       *)

\* A book without levels stands for empty queues.
LEMMA NoQueues ==
    ASSUME NEW b, b.lad = [s \in Sides |-> <<>>]
    PROVE  Queues(b) = Abstract!Nothing
<1>1. \A l \in Slots : Queues(b)[l] = Entries(ListAt(b, l[1], l[2]))  BY QueuesAre
<1>2. ASSUME NEW l \in Slots PROVE Entries(ListAt(b, l[1], l[2])) = <<>>
  <2>1. DOMAIN <<>> = {}  OBVIOUS
  <2>2. l[1] \in Sides  BY SlotParts
  <2>3. DOMAIN b.lad[l[1]] = {}  BY <2>1, <2>2
  <2>4. ListAt(b, l[1], l[2]) = <<>>  BY <2>3 DEF ListAt, LevelAt, NewLevel
  <2> QED  BY <2>1, <2>4 DEF Entries
<1>3. Queues(b) = [l \in Slots |-> Entries(ListAt(b, l[1], l[2]))]  BY QueuesAre
<1>4. Queues(b) = [l \in Slots |-> <<>>]  BY <1>2, <1>3
<1> QED  BY <1>4 DEF Abstract!Nothing, Slots

\* applySnapshotPerOrder, seen as queues.
LEMMA SnapshotQueues ==
    ASSUME NEW b, BookOK(b), NEW os \in Seq(Orders)
    PROVE  Queues(SnapshotPerOrder(b, os)) = Abstract!Listing(os)
<1> DEFINE L == Len(os)
<1>1. L \in Nat /\ DOMAIN os = 1 .. L /\ \A n \in 1 .. L : os[n] \in Orders  BY SnapshotBooks
<1>a. PICK c : SnapshotRun(c, b, os)  BY SnapshotBooks
<1>2. /\ SnapshotPerOrder(b, os) = c[L]
      /\ c[0].lad = [s \in Sides |-> <<>>] /\ DOMAIN c[0].byId = {}
      /\ \A n \in 0 .. L : BookOK(c[n]) /\ c[n].synth = b.synth
      /\ \A n \in 1 .. L : c[n] = Add(c[n - 1], os[n])
  BY <1>a DEF SnapshotRun
<1> DEFINE put(q, o) == Abstract!Joined(q, o.key, <<o.side, o.price>>, o.size)
           Def(h) == [n \in 0 .. L |-> IF n = 0 THEN Abstract!Nothing ELSE put(h[n - 1], os[n])]
           g == [n \in 0 .. L |-> Queues(c[n])]
           a == CHOOSE h : h = Def(h)
<1>3. Abstract!Listing(os) = a[L]  BY DEF Abstract!Listing
<1> HIDE DEF L, put
<1>4. Queues(c[0]) = Abstract!Nothing  BY <1>2, NoQueues
<1>5. ASSUME NEW n \in 1 .. L PROVE Queues(c[n]) = put(Queues(c[n - 1]), os[n])
  <2>1. n - 1 \in 0 .. L  BY <1>1
  <2>2. BookOK(c[n - 1]) /\ os[n] \in Orders /\ c[n] = Add(c[n - 1], os[n])  BY <1>1, <1>2, <2>1
  <2>3. JoinedAt(c[n - 1], c[n], os[n])  BY <2>2, AddList
  <2>4. IsBook(c[n - 1]) /\ LaddersOK(c[n - 1])  BY <2>2 DEF BookOK
  <2> QED  BY <2>2, <2>3, <2>4, JoinedIs DEF put
<1>6. g = Def(g)
  <2>1. ASSUME NEW n \in 0 .. L
        PROVE  g[n] = IF n = 0 THEN Abstract!Nothing ELSE put(g[n - 1], os[n])
    <3>1. CASE n = 0  BY <1>4, <3>1
    <3>2. CASE n # 0
      <4>1. n \in 1 .. L /\ n - 1 \in 0 .. L  BY <1>1, <3>2
      <4>2. g[n] = Queues(c[n]) /\ g[n - 1] = Queues(c[n - 1])  BY <4>1
      <4>3. Queues(c[n]) = put(Queues(c[n - 1]), os[n])  BY <1>5, <4>1
      <4> HIDE DEF g
      <4> QED  BY <3>2, <4>2, <4>3
    <3> QED  BY <3>1, <3>2
  <2> DEFINE r(n) == IF n = 0 THEN Abstract!Nothing ELSE put(g[n - 1], os[n])
  <2>2. g = [n \in 0 .. L |-> g[n]]  OBVIOUS
  <2>3. \A n \in 0 .. L : g[n] = r(n)  BY <2>1
  <2> HIDE DEF g, r
  <2>4. g = [n \in 0 .. L |-> r(n)]  BY <2>2, <2>3
  <2> QED  BY <2>4 DEF r
<1>7. a = Def(a)
  <2> HIDE DEF Def, g
  <2> QED  BY <1>6
<1> HIDE DEF a
<1>8. \A n \in 0 .. L : a[n] = IF n = 0 THEN Abstract!Nothing ELSE put(a[n - 1], os[n])  BY <1>7, Zenon
<1> DEFINE P == {n \in 0 .. L : a[n] = Queues(c[n])}
<1>9. 0 \in P  BY <1>1, <1>4, <1>8
<1>10. ASSUME NEW k \in 0 .. L - 1, k \in P PROVE k + 1 \in P
  <2>1. k + 1 \in 0 .. L /\ k + 1 \in 1 .. L /\ k + 1 # 0 /\ (k + 1) - 1 = k  BY <1>1
  <2>2. a[k + 1] = put(a[(k + 1) - 1], os[k + 1])  BY <1>8, <2>1, Zenon
  <2>3. Queues(c[k + 1]) = put(Queues(c[(k + 1) - 1]), os[k + 1])  BY <1>5, <2>1, Zenon
  <2>4. a[k] = Queues(c[k])  BY <1>10
  <2>5. a[k + 1] = Queues(c[k + 1])  BY <2>1, <2>2, <2>3, <2>4, Zenon
  <2> QED  BY <2>1, <2>5
<1>11. 0 .. L \subseteq P
  <2> HIDE DEF P
  <2> QED  BY <1>1, <1>9, <1>10, UpTo
<1>12. a[L] = Queues(c[L])  BY <1>1, <1>11
<1> QED  BY <1>2, <1>3, <1>12 DEF L

\* applyAdd with a scope sends the order to the back of its level.
LEMMA AddScopedList ==
    ASSUME NEW b, BookOK(b), NEW id \in Nat, NEW sc \in Scopes, NEW missing \in BOOLEAN,
           NEW s \in Sides, NEW p \in Prices, NEW z \in Nat,
           NEW o, o = Order(ScopedKey(b, id, sc, missing), s, p, z, 0)
    PROVE  o \in Orders /\ JoinedAt(b, AddScoped(b, id, sc, missing, s, p, z, 0), o)
<1> DEFINE k == ScopedKey(b, id, sc, missing)
           c == [b EXCEPT !.synth[sc] = IF k.syn THEN @ + 1 ELSE @]
<1>1. b.synth \in [Scopes -> Nat \ {0}]
      /\ b = [lad |-> b.lad, byId |-> b.byId, agg |-> b.agg, synth |-> b.synth]
  BY DEF BookOK, IsBook
<1>2. k \in Keys  BY <1>1 DEF ScopedKey, Key, Keys
<1>3. o \in Orders  BY <1>2 DEF Order, Orders
<1>4. AddScoped(b, id, sc, missing, s, p, z, 0) = Add(c, o)  BY DEF AddScoped
<1> HIDE DEF k
<1>5. /\ c.lad = b.lad /\ c.byId = b.byId /\ c.synth \in [Scopes -> Nat \ {0}]
      /\ c = [lad |-> c.lad, byId |-> c.byId, agg |-> c.agg, synth |-> c.synth]
  BY <1>1
<1> HIDE DEF c
<1>6. BookOK(c)  BY <1>5 DEF BookOK, IsBook, LaddersOK, Indexed, KeysAt
<1> DEFINE d == Add(c, o)
<1>7. JoinedAt(c, d, o)  BY <1>3, <1>6, AddList
<1>8. \A t, q : GoneAt(c, o.key, t, q) = GoneAt(b, o.key, t, q)  BY <1>5 DEF GoneAt, KeysAt, ListAt, LevelAt
<1> HIDE DEF d
<1>9. JoinedAt(b, d, o)  BY <1>7, <1>8 DEF JoinedAt
<1> QED  BY <1>3, <1>4, <1>9 DEF d

\* What is left of a resting order, seen in its queue.
LEMMA PlacedIs ==
    ASSUME NEW b, BookOK(b), NEW k, NEW s, NEW p, Rests(b, k, s, p), NEW l, l = <<s, p>>,
           NEW q, q = Queues(b)[l]
    PROVE  l \in Slots /\ Abstract!Listed(q, k) /\ q[Abstract!Place(q, k)].size = Resting(b, k).size
<1> DEFINE os == b.lad[s][p].orders
<1>1. /\ s \in Sides /\ p \in Prices /\ k \in KeysOf(os) /\ os = ListAt(b, s, p)
      /\ Resting(b, k) = os[Pos(os, k)] /\ os \in Seq(OrdersOf(s, p)) /\ OneEach(os)
  BY DEF Rests, ListAt, LevelAt, LevelOK
<1>2. l \in Slots /\ l[1] = s /\ l[2] = p  BY <1>1, SlotParts
<1>3. q = Entries(os)  BY <1>1, <1>2, QueuesAre
<1> HIDE DEF os
<1>4. /\ Abstract!Listed(q, k) /\ Abstract!Place(q, k) = Pos(os, k) /\ Pos(os, k) \in 1 .. Len(os)
  BY <1>1, <1>3, PlaceIsPos
<1>5. \A i \in 1 .. Len(os) : Entries(os)[i].size = os[i].size
  <2>1. \A i \in 1 .. Len(os) : /\ Entries(os)[i] = [key |-> os[i].key, size |-> os[i].size]
                                /\ Entries(os)[i].key = os[i].key /\ Entries(os)[i].size = os[i].size
    BY <1>1, EntriesOK
  <2> QED  BY <2>1
<1> QED  BY <1>1, <1>2, <1>3, <1>4, <1>5

\* Lists that stay the same leave the queues the same.
LEMMA SameQueues ==
    ASSUME NEW b, NEW c, \A t \in Sides, q \in Prices : ListAt(c, t, q) = ListAt(b, t, q)
    PROVE  Queues(c) = Queues(b)
<1>1. \A l \in Slots : ListAt(c, l[1], l[2]) = ListAt(b, l[1], l[2])  BY SlotParts
<1>2. /\ Queues(c) = [l \in Slots |-> Entries(ListAt(c, l[1], l[2]))]
      /\ Queues(b) = [l \in Slots |-> Entries(ListAt(b, l[1], l[2]))]
  BY QueuesAre
<1> QED  BY <1>1, <1>2

\* In c what is left of the order k is at the back of level to.
MovedTo(b, c, k, from, to) ==
    /\ from \in Slots /\ to \in Slots /\ Abstract!Listed(Queues(b)[from], k)
    /\ Queues(c) = Abstract!Joined(Queues(b), k, to,
                                   Queues(b)[from][Abstract!Place(Queues(b)[from], k)].size)

\* In c the order k has size z and its old place.
ResizedTo(b, c, k, l, z) ==
    /\ l \in Slots /\ Abstract!Listed(Queues(b)[l], k)
    /\ Queues(c) = [Queues(b) EXCEPT ![l] =
                      [i \in DOMAIN @ |-> IF @[i].key = k THEN [key |-> k, size |-> z] ELSE @[i]]]

\* updateImpl, seen as queues: the order leaves, is resized where it is, or goes
\* to the back of another level with its old or a new size.
LEMMA UpdateQueues ==
    ASSUME NEW b, BookOK(b), NEW k \in DOMAIN b.byId, NEW np \in Prices \cup {None},
           NEW nz \in Sizes \cup {0, None}, NEW c, c = Update(b, k, np, nz)
    PROVE  \/ Queues(c) = Queues(b)
           \/ Queues(c) = Abstract!Purged(Queues(b), k)
           \/ \E l \in Slots : nz \in Sizes /\ ResizedTo(b, c, k, l, nz)
           \/ \E l \in Slots : nz \in Sizes /\ Queues(c) = Abstract!Joined(Queues(b), k, l, nz)
           \/ \E from, to \in Slots : MovedTo(b, c, k, from, to)
<1> DEFINE o == Resting(b, k)
           tgt == Updated(o, np, nz)
           s == o.side
           p == o.price
           x == tgt.price
           from == <<s, p>>
           to == <<s, x>>
<1>0. nz \in Nat \cup {None} /\ IsBook(b) /\ LaddersOK(b)  BY BookAssumption DEF BookOK
<1>1. /\ Rests(b, k, s, p) /\ o \in Orders /\ o.key = k
      /\ tgt \in Orders /\ tgt.key = k /\ tgt.side = s
      /\ tgt.size = Target(nz, o.size) /\ tgt.price = Target(np, o.price)
      /\ \/ tgt.size = 0 /\ c = Delete(b, k)
         \/ tgt.size # 0 /\ tgt.price = p /\ ResizedAt(b, c, tgt)
         \/ tgt.size # 0 /\ tgt.price # p /\ JoinedAt(b, c, tgt)
  <2> DEFINE o2 == o
             t2 == tgt
  <2>1. o2 = Resting(b, k) /\ t2 = Updated(o2, np, nz)  OBVIOUS
  <2> HIDE DEF o2, t2
  <2>2. /\ Rests(b, k, o2.side, o2.price) /\ o2 \in Orders /\ o2.key = k
        /\ t2 \in Orders /\ t2.key = k /\ t2.side = o2.side
        /\ t2.size = Target(nz, o2.size) /\ t2.price = Target(np, o2.price)
        /\ \/ t2.size = 0 /\ c = Delete(b, k)
           \/ t2.size # 0 /\ t2.price = o2.price /\ ResizedAt(b, c, t2)
           \/ t2.size # 0 /\ t2.price # o2.price /\ JoinedAt(b, c, t2)
    BY <1>0, <2>1, UpdateList
  <2> QED  BY <2>2 DEF o2, t2
<1>2. tgt = [o EXCEPT !.price = tgt.price, !.size = tgt.size]  BY <1>1 DEF Updated
<1> HIDE DEF o, tgt
<1>3. from \in Slots /\ to \in Slots
  <2>1. s \in Sides /\ p \in Prices /\ x \in Prices  BY <1>1 DEF Orders
  <2> QED  BY <2>1, SlotParts
<1>4. Abstract!Listed(Queues(b)[from], k)
      /\ Queues(b)[from][Abstract!Place(Queues(b)[from], k)].size = o.size
  BY <1>1, PlacedIs DEF o
<1>5. CASE tgt.size = 0 /\ c = Delete(b, k)
  BY <1>5, DeleteQueues
<1>6. CASE tgt.size # 0 /\ tgt.price = p /\ ResizedAt(b, c, tgt)
  <2>1. Rests(b, k, tgt.side, tgt.price)  BY <1>1, <1>6
  <2>2. CASE nz = None
    <3>1. tgt = o
      <4>1. tgt.size = o.size /\ tgt.price = o.price  BY <1>1, <1>6, <2>2 DEF Target
      <4>2. [o EXCEPT !.price = o.price, !.size = o.size] = o  BY <1>1 DEF Orders
      <4> QED  BY <1>2, <4>1, <4>2
    <3>2. ASSUME NEW t \in Sides, NEW q \in Prices PROVE ListAt(c, t, q) = ListAt(b, t, q)
      <4>1. CASE t = s /\ q = p
        <5> DEFINE os == ListAt(b, s, p)
        <5>1. /\ os = b.lad[s][p].orders /\ o = os[Pos(os, k)]
          BY <1>1 DEF Rests, ListAt, LevelAt, o
        <5>2. os \in Seq(OrdersOf(s, p))
          <6>1. s \in Sides /\ p \in Prices  BY <1>1 DEF Orders
          <6> QED  BY <1>0, <6>1, ListOK
        <5>3. ListAt(c, t, q) = [os EXCEPT ![Pos(os, k)] = o]
          BY <1>1, <1>6, <3>1, <4>1 DEF ResizedAt
        <5> HIDE DEF os
        <5>4. [os EXCEPT ![Pos(os, k)] = o] = os
          <6> DEFINE i == Pos(os, k)
                     S == OrdersOf(s, p)
          <6>1. o = os[i] /\ os \in Seq(S)  BY <5>1, <5>2, Zenon
          <6> HIDE DEF i, S
          <6>2. [os EXCEPT ![i] = os[i]] = os  BY <6>1
          <6> QED  BY <6>1, <6>2 DEF i
        <5> QED  BY <4>1, <5>3, <5>4 DEF os
      <4>2. CASE ~(t = s /\ q = p)  BY <1>1, <1>6, <4>2 DEF ResizedAt
      <4> QED  BY <4>1, <4>2
    <3> QED  BY <3>2, SameQueues
  <2>3. CASE nz # None
    <3>1. tgt.size = nz /\ nz \in Sizes  BY <1>1, <1>6, <2>3 DEF Target
    <3>2. from = <<tgt.side, tgt.price>>  BY <1>1, <1>6
    <3> DEFINE z == tgt.size
    <3>3. Queues(c) = [Queues(b) EXCEPT ![from] =
                        [i \in DOMAIN @ |-> IF @[i].key = k THEN [key |-> k, size |-> tgt.size] ELSE @[i]]]
      BY <1>1, <1>6, <2>1, <3>2, ResizedIs
    <3>4. ResizedTo(b, c, k, from, nz)  BY <1>3, <1>4, <3>1, <3>3 DEF ResizedTo
    <3> QED  BY <1>3, <3>1, <3>4
  <2> QED  BY <2>2, <2>3
<1>7. CASE tgt.size # 0 /\ tgt.price # p /\ JoinedAt(b, c, tgt)
  <2>1. Queues(c) = Abstract!Joined(Queues(b), k, to, tgt.size)
    <3>1. Queues(c) = Abstract!Joined(Queues(b), tgt.key, <<tgt.side, tgt.price>>, tgt.size)
      BY <1>0, <1>1, <1>7, JoinedIs
    <3> QED  BY <1>1, <3>1
  <2>2. CASE nz = None
    <3>1. tgt.size = o.size  BY <1>1, <2>2 DEF Target
    <3>2. MovedTo(b, c, k, from, to)  BY <1>3, <1>4, <2>1, <3>1 DEF MovedTo
    <3> QED  BY <1>3, <3>2
  <2>3. CASE nz # None
    <3>1. tgt.size = nz /\ nz \in Sizes  BY <1>1, <1>7, <2>3 DEF Target
    <3> QED  BY <1>3, <2>1, <3>1
  <2> QED  BY <2>2, <2>3
<1> QED  BY <1>1, <1>5, <1>6, <1>7

\* priorityImpl, seen as queues.
LEMMA PriorityQueues ==
    ASSUME NEW b, BookOK(b), NEW k \in DOMAIN b.byId, NEW prio \in Priorities, NEW c, c = Priority(b, k, prio)
    PROVE  Queues(c) = Queues(b) \/ \E from, to \in Slots : MovedTo(b, c, k, from, to)
<1> DEFINE s == b.byId[k].side
           p == b.byId[k].price
           o == [Resting(b, k) EXCEPT !.prio = prio]
           l == <<s, p>>
<1>1. Rests(b, k, s, p) /\ ~Dangling(b, k)  BY RestingOK, Zenon DEF Rests
<1>2. CASE ~PriorityChanges(b, k, prio)  BY <1>1, <1>2 DEF Priority
<1>3. CASE PriorityChanges(b, k, prio)
  <2>1. /\ JoinedAt(b, c, o) /\ o \in Orders /\ o.key = k /\ o.size = Resting(b, k).size
        /\ o.side = s /\ o.price = p
    BY <1>3, PriorityList
  <2>2. IsBook(b) /\ LaddersOK(b)  BY DEF BookOK
  <2> HIDE DEF o
  <2>3. Queues(c) = Abstract!Joined(Queues(b), o.key, <<o.side, o.price>>, o.size)  BY <2>1, <2>2, JoinedIs
  <2> HIDE DEF s, p
  <2>4. l \in Slots /\ Abstract!Listed(Queues(b)[l], k)
        /\ Queues(b)[l][Abstract!Place(Queues(b)[l], k)].size = Resting(b, k).size
    BY <1>1, PlacedIs
  <2>5. MovedTo(b, c, k, l, l)  BY <2>1, <2>3, <2>4 DEF MovedTo
  <2> QED  BY <2>4, <2>5
<1> QED  BY <1>2, <1>3

\* applyTrade, seen as queues.
LEMMA TradeQueues ==
    ASSUME NEW b, BookOK(b), NEW p \in Prices, NEW qty \in Quantities, NEW aggr, NEW c, c = Trade(b, p, qty, aggr)
    PROVE  \/ Queues(c) = Queues(b)
           \/ \E l \in Slots : \E m \in 0 .. Len(Queues(b)[l]) : Executed(Queues(b), Queues(c), l, qty, m)
<1> DEFINE s == Passive(b, p, aggr)
           l == <<s, p>>
<1>1. CASE qty = 0 \/ s = None  BY <1>1 DEF Trade
<1>2. CASE ~(qty = 0 \/ s = None)
  <2>1. s \in Sides \cup {None}  BY DEF Passive, Sides
  <2>2. c = Consume(b, s, p, qty) /\ s \in Sides /\ qty \in Nat \ {0}  BY <1>2, <2>1, BookAssumption DEF Trade
  <2> HIDE DEF s
  <2>3. CASE p \notin DOMAIN b.lad[s]  BY <2>2, <2>3 DEF Consume
  <2>4. CASE p \in DOMAIN b.lad[s]
    <3>1. l \in Slots  BY <2>2, SlotParts
    <3>2. \E m \in 0 .. Len(Queues(b)[l]) : Executed(Queues(b), Queues(c), l, qty, m)
      BY <2>2, <2>4, ExecuteIs
    <3> QED  BY <3>1, <3>2
  <2> QED  BY <2>3, <2>4
<1> QED  BY <1>1, <1>2

-----------------------------------------------------------------------------
(* The refinement                                                          *)

\* Every key in the index is one an order can get.
KeysGiven(b) == DOMAIN b.byId \subseteq GivenKeys

\* The key of an add.
LEMMA ScopedKeyGiven ==
    ASSUME NEW b, BookOK(b), NEW id \in Ids, NEW sc \in Scopes, NEW s \in Sides, NEW p \in Prices,
           NEW z \in Sizes, NEW c, c = AddScoped(b, id, sc, id = 0, s, p, z, 0),
           c.synth[sc] <= MaxSynthetic + 1, NEW k, k = ScopedKey(b, id, sc, id = 0)
    PROVE  k \in GivenKeys /\ DOMAIN c.byId = DOMAIN b.byId \cup {k}
<1>0. id \in Nat /\ z \in Nat /\ (id = 0) \in BOOLEAN /\ MaxSynthetic \in Nat  BY BookAssumption, ManagerBounds
<1>1. /\ DOMAIN c.byId = DOMAIN b.byId \cup {k}
      /\ c.synth = [b.synth EXCEPT ![sc] = IF k.syn THEN @ + 1 ELSE @]
  <2> DEFINE miss == id = 0
  <2>1. miss \in BOOLEAN /\ k = ScopedKey(b, id, sc, miss) /\ c = AddScoped(b, id, sc, miss, s, p, z, 0)
    OBVIOUS
  <2> HIDE DEF miss
  <2>2. /\ DOMAIN AddScoped(b, id, sc, miss, s, p, z, 0).byId = DOMAIN b.byId \cup {ScopedKey(b, id, sc, miss)}
        /\ AddScoped(b, id, sc, miss, s, p, z, 0).synth
              = [b.synth EXCEPT ![sc] = IF ScopedKey(b, id, sc, miss).syn THEN @ + 1 ELSE @]
    BY <1>0, <2>1, AddScopedOK
  <2> QED  BY <2>1, <2>2
<1>2. b.synth \in [Scopes -> Nat \ {0}]  BY DEF BookOK, IsBook
<1>3. CASE id = 0
  <2>1. k = Key(b.synth[sc], sc, TRUE) /\ k.syn  BY <1>3 DEF ScopedKey, Key
  <2>2. c.synth[sc] = b.synth[sc] + 1  BY <1>1, <1>2, <2>1
  <2>3. b.synth[sc] \in 1 .. MaxSynthetic  BY <1>0, <1>2, <2>2
  <2>4. k \in [id : Ids \cup 1 .. MaxSynthetic, scope : Scopes, syn : BOOLEAN] /\ k.id = b.synth[sc]
    <3> DEFINE n == b.synth[sc]
    <3>1. n \in Ids \cup 1 .. MaxSynthetic /\ k = Key(n, sc, TRUE)  BY <2>1, <2>3
    <3> HIDE DEF n
    <3>2. k \in [id : Ids \cup 1 .. MaxSynthetic, scope : Scopes, syn : BOOLEAN] /\ k.id = n
      BY ONLY <3>1, sc \in Scopes DEF Key
    <3> QED  BY <3>2 DEF n
  <2> QED  BY <1>1, <2>1, <2>3, <2>4 DEF GivenKeys
<1>4. CASE id # 0
  <2>1. k = Key(id, sc, FALSE) /\ id \in Ids \ {0}  BY <1>4 DEF ScopedKey
  <2>2. k \in [id : Ids \cup 1 .. MaxSynthetic, scope : Scopes, syn : BOOLEAN] /\ k.id = id
    BY ONLY <2>1, id \in Ids, sc \in Scopes DEF Key
  <2>3. ~k.syn  BY <2>1 DEF Key
  <2> QED  BY <1>1, <2>1, <2>2, <2>3 DEF GivenKeys
<1> QED  BY <1>3, <1>4

\* The keys of a snapshot.
LEMMA SnapshotKeyGiven ==
    ASSUME NEW os \in SnapshotLists, NEW i \in DOMAIN os
    PROVE  os[i].key \in GivenKeys
<1> DEFINE at(xs) == {xs[j].key : j \in DOMAIN xs}
           given == {k \in [id : Ids \cup 1 .. MaxSynthetic, scope : Scopes, syn : BOOLEAN] :
                        IF k.syn THEN k.id \in 1 .. MaxSynthetic ELSE k.id \in Ids \ {0}}
<1>1. GivenKeys = given \cup UNION {at(xs) : xs \in SnapshotLists}  BY DEF GivenKeys
<1>2. os[i].key \in at(os)  OBVIOUS
<1> HIDE DEF given, at
<1> QED  BY <1>1, <1>2

\* Every step of the book is a step of the queues, or leaves them as they are.
LEMMA QueuesStep ==
    BookOK(book) /\ KeysGiven(book) /\ [BookNext]_book
        => [Abstract!Next]_(Queues(book)) /\ KeysGiven(book')
<1> SUFFICES ASSUME BookOK(book), KeysGiven(book), [BookNext]_book
             PROVE  [Abstract!Next]_(Queues(book)) /\ KeysGiven(book')
  OBVIOUS
<1> DEFINE qs == Queues(book)
           rs == Queues(book')
<1>0. Ids \subseteq Nat /\ Sizes \subseteq Nat /\ Quantities \subseteq Nat /\ SnapshotLists \subseteq Seq(Orders)
      /\ IsBook(book) /\ LaddersOK(book) /\ LiveKeys \subseteq GivenKeys /\ LiveKeys = DOMAIN book.byId
  BY BookAssumption, SnapshotAssumption DEF BookOK, KeysGiven, LiveKeys
<1>p. Queues(book)' = rs  BY DEF Queues, Entries, LevelAt, NewLevel
<1> HIDE DEF qs, rs
<1>u. ASSUME rs = qs PROVE [Abstract!Next]_(Queues(book))  BY <1>p, <1>u DEF qs
<1>l. ASSUME NEW k \in GivenKeys, rs = Abstract!Purged(qs, k) PROVE [Abstract!Next]_(Queues(book))
  BY <1>p, <1>l DEF Abstract!Next, Abstract!Leave, qs
<1>j. ASSUME NEW k \in GivenKeys, NEW l \in Slots, NEW z \in Sizes, rs = Abstract!Joined(qs, k, l, z)
      PROVE  [Abstract!Next]_(Queues(book))
  BY <1>p, <1>j DEF Abstract!Next, Abstract!Join, qs, Slots
<1>m. ASSUME NEW k \in GivenKeys, NEW from \in Slots, NEW to \in Slots, MovedTo(book, book', k, from, to)
      PROVE  [Abstract!Next]_(Queues(book))
  BY <1>p, <1>m DEF Abstract!Next, Abstract!Move, MovedTo, qs, rs, Slots
<1>r. ASSUME NEW k \in GivenKeys, NEW l \in Slots, NEW z \in Sizes, ResizedTo(book, book', k, l, z)
      PROVE  [Abstract!Next]_(Queues(book))
  BY <1>p, <1>r DEF Abstract!Next, Abstract!Resize, Abstract!Entry, ResizedTo, qs, rs, Slots
<1>x. ASSUME NEW l \in Slots, NEW n \in Quantities, NEW m \in 0 .. Len(qs[l]), Executed(qs, rs, l, n, m)
      PROVE  [Abstract!Next]_(Queues(book))
  BY <1>p, <1>x DEF Abstract!Next, Abstract!Execute, Executed, Shortened, qs, Slots
<1>1. ASSUME NEW id \in Ids, NEW sc \in Scopes, NEW s \in Sides, NEW p \in Prices, NEW z \in Sizes,
             ApplyAdd(id, sc, id = 0, s, p, z)
      PROVE  [Abstract!Next]_(Queues(book)) /\ KeysGiven(book')
  <2> DEFINE k == ScopedKey(book, id, sc, id = 0)
             o == Order(k, s, p, z, 0)
             l == <<s, p>>
  <2>1. book' = AddScoped(book, id, sc, id = 0, s, p, z, 0) /\ book'.synth[sc] <= MaxSynthetic + 1
    BY <1>1 DEF ApplyAdd
  <2>2. k \in GivenKeys /\ DOMAIN book'.byId = DOMAIN book.byId \cup {k}  BY <2>1, ScopedKeyGiven
  <2>3. o \in Orders /\ JoinedAt(book, book', o)
    <3>1. id \in Nat /\ z \in Nat /\ (id = 0) \in BOOLEAN  BY <1>0
    <3> QED  BY <2>1, <3>1, AddScopedList
  <2>4. o.key = k /\ o.side = s /\ o.price = p /\ o.size = z  BY DEF Order
  <2> HIDE DEF k, o
  <2>5. Queues(book') = Abstract!Joined(Queues(book), o.key, <<o.side, o.price>>, o.size)
    BY <1>0, <2>3, JoinedIs
  <2>6. rs = Abstract!Joined(qs, k, l, z)  BY <2>4, <2>5 DEF qs, rs
  <2>7. l \in Slots  BY SlotParts
  <2>8. [Abstract!Next]_(Queues(book))  BY <1>j, <2>2, <2>6, <2>7
  <2> QED  BY <1>0, <2>2, <2>8 DEF KeysGiven
<1>2. ASSUME NEW k \in LiveKeys, NEW np \in Prices \cup {None}, NEW nz \in Sizes \cup {0, None}, ApplyUpdate(k, np, nz)
      PROVE  [Abstract!Next]_(Queues(book)) /\ KeysGiven(book')
  <2>1. book' = Update(book, k, np, nz) /\ nz \in Nat \cup {None} /\ k \in DOMAIN book.byId /\ k \in GivenKeys
    BY <1>0, <1>2 DEF ApplyUpdate
  <2>2. KeysGiven(book')  BY <1>0, <2>1, UpdateOK DEF KeysGiven
  <2>3. \/ rs = qs
        \/ rs = Abstract!Purged(qs, k)
        \/ \E l \in Slots : nz \in Sizes /\ ResizedTo(book, book', k, l, nz)
        \/ \E l \in Slots : nz \in Sizes /\ rs = Abstract!Joined(qs, k, l, nz)
        \/ \E from, to \in Slots : MovedTo(book, book', k, from, to)
    BY <2>1, UpdateQueues DEF qs, rs
  <2>4. [Abstract!Next]_(Queues(book))  BY <1>u, <1>l, <1>r, <1>j, <1>m, <2>1, <2>3
  <2> QED  BY <2>2, <2>4
<1>3. ASSUME NEW k \in LiveKeys, ApplyDelete(k) PROVE [Abstract!Next]_(Queues(book)) /\ KeysGiven(book')
  <2>1. book' = Delete(book, k)  BY <1>3 DEF ApplyDelete
  <2>2. rs = Abstract!Purged(qs, k)  BY <2>1, DeleteQueues DEF qs, rs
  <2>3. KeysGiven(book')  BY <1>0, <2>1, DeleteOK DEF KeysGiven
  <2> QED  BY <1>0, <1>l, <2>2, <2>3
<1>4. ASSUME NEW k \in LiveKeys, NEW prio \in Priorities, ApplyPriority(k, prio)
      PROVE  [Abstract!Next]_(Queues(book)) /\ KeysGiven(book')
  <2>1. book' = Priority(book, k, prio) /\ k \in DOMAIN book.byId /\ k \in GivenKeys
    BY <1>0, <1>4 DEF ApplyPriority
  <2>2. rs = qs \/ \E from, to \in Slots : MovedTo(book, book', k, from, to)
    BY <2>1, PriorityQueues DEF qs, rs
  <2>3. KeysGiven(book')  BY <1>0, <2>1, PriorityOK DEF KeysGiven
  <2> QED  BY <1>u, <1>m, <2>1, <2>2, <2>3
<1>5. ASSUME NEW p \in Prices, NEW n \in Quantities, NEW aggr, ApplyTrade(p, n, aggr)
      PROVE  [Abstract!Next]_(Queues(book)) /\ KeysGiven(book')
  <2>1. book' = Trade(book, p, n, aggr) /\ n \in Nat  BY <1>0, <1>5 DEF ApplyTrade
  <2>2. rs = qs \/ \E l \in Slots : \E m \in 0 .. Len(qs[l]) : Executed(qs, rs, l, n, m)
    BY <2>1, TradeQueues DEF qs, rs
  <2>3. KeysGiven(book')  BY <1>0, <2>1, TradeOK DEF KeysGiven
  <2> QED  BY <1>u, <1>x, <2>2, <2>3
<1>6. ASSUME NEW os \in SnapshotLists, ApplySnapshotPerOrder(os)
      PROVE  [Abstract!Next]_(Queues(book)) /\ KeysGiven(book')
  <2>1. book' = SnapshotPerOrder(book, os) /\ os \in Seq(Orders)  BY <1>0, <1>6 DEF ApplySnapshotPerOrder
  <2>2. rs = Abstract!Listing(os)  BY <2>1, SnapshotQueues DEF rs
  <2>3. [Abstract!Next]_(Queues(book))  BY <1>p, <2>2 DEF Abstract!Next, Abstract!Restart
  <2>4. \A k \in DOMAIN book'.byId : \E i \in DOMAIN os : os[i].key = k  BY <2>1, SnapshotOK
  <2>5. KeysGiven(book')
    <3>1. \A i \in DOMAIN os : os[i].key \in GivenKeys  BY SnapshotKeyGiven
    <3> QED  BY <2>4, <3>1 DEF KeysGiven
  <2> QED  BY <2>3, <2>5
<1>7. CASE UNCHANGED book
  <2>1. rs = qs  BY <1>7 DEF rs, qs
  <2>2. KeysGiven(book')  BY <1>7
  <2> QED  BY <1>u, <2>1, <2>2
<1> QED  BY <1>1, <1>2, <1>3, <1>4, <1>5, <1>6, <1>7 DEF BookNext

\* The ladders, the locator index and the running totals of OrderBook implement
\* queues in time priority: every add, update, delete, priority change, trade
\* and snapshot does to the lists what the queues promise, and nothing else.
THEOREM ImplementsQueuesTheorem == BookSpec => ImplementsQueues
<1>1. BookInit => BookOK(book) /\ KeysGiven(book) /\ Abstract!Init
  <2> SUFFICES ASSUME BookInit PROVE BookOK(book) /\ KeysGiven(book) /\ Abstract!Init  OBVIOUS
  <2>1. book = EmptyBook /\ DOMAIN EmptyBook.byId = {} /\ EmptyBook.lad = [s \in Sides |-> <<>>]
    BY DEF BookInit, EmptyBook
  <2>2. Queues(book) = Abstract!Nothing  BY <2>1, NoQueues
  <2> QED  BY <2>1, <2>2, EmptyOK DEF KeysGiven, Abstract!Init
<1>2. BookOK(book) /\ KeysGiven(book) /\ [BookNext]_book
         => BookOK(book)' /\ KeysGiven(book)' /\ [Abstract!Next]_(Queues(book))
  BY BookStep, QueuesStep
<1> QED  BY <1>1, <1>2, PTL DEF BookSpec, ImplementsQueues, Abstract!Spec

-----------------------------------------------------------------------------
(* The book and the numbers under OrderBookManager                         *)

\* Mutators, both kinds of snapshot and level summaries, between the steps of a
\* reader, keep the book as it should be.
LEMMA ManagedStep == BookOK(book) /\ [ManagerNext]_managerVars => BookOK(book)'
<1> SUFFICES ASSUME BookOK(book), [ManagerNext]_managerVars PROVE BookOK(book')  OBVIOUS
<1>0. Ids \subseteq Nat /\ Sizes \subseteq Nat /\ Quantities \subseteq Nat /\ SnapshotLists \subseteq Seq(Orders)
  BY BookAssumption, SnapshotAssumption
<1>1. ASSUME NEW new, NEW changed, NEW candidates, NEW unnamed,
             MutateWithDelta(new, changed, candidates, unnamed)
      PROVE  book' = new
  BY <1>1 DEF MutateWithDelta, Becomes
<1>2. ASSUME NEW new, NEW seq, OnSnapshot(new, seq) PROVE book' = new  BY <1>2 DEF OnSnapshot, Becomes
<1>3. ASSUME NEW id \in Ids, NEW sc \in Scopes, NEW s \in Sides, NEW p \in Prices, NEW z \in Sizes,
             OnAdd(id, sc, s, p, z)
      PROVE  BookOK(book')
  <2>1. book' = AddScoped(book, id, sc, id = 0, s, p, z, 0)  BY <1>1, <1>3 DEF OnAdd
  <2>2. (id = 0) \in BOOLEAN  OBVIOUS
  <2> QED  BY <1>0, <2>1, <2>2, AddScopedOK
<1>4. ASSUME NEW k, NEW np \in Prices \cup {None}, NEW nz \in Sizes \cup {None}, OnUpdate(k, np, nz)
      PROVE  BookOK(book')
  <2>1. book' = Update(book, k, np, nz)  BY <1>1, <1>4 DEF OnUpdate
  <2>2. nz \in Nat \cup {None}  BY <1>0
  <2> QED  BY <2>1, <2>2, UpdateOK
<1>5. ASSUME NEW k, OnDelete(k) PROVE BookOK(book')
  <2>1. book' = Delete(book, k)  BY <1>1, <1>5, Zenon DEF OnDelete
  <2> QED  BY <2>1, DeleteOK
<1>6. ASSUME NEW k, NEW prio \in Priorities, OnPriority(k, prio) PROVE BookOK(book')
  <2>1. book' = Priority(book, k, prio)  BY <1>1, <1>6 DEF OnPriority
  <2> QED  BY <2>1, PriorityOK
<1>7. ASSUME NEW p \in Prices, NEW n \in Quantities, NEW aggr, OnTrade(p, n, aggr) PROVE BookOK(book')
  <2>1. book' = Trade(book, p, n, aggr)  BY <1>1, <1>7 DEF OnTrade
  <2> QED  BY <1>0, <2>1, TradeOK
<1>8. ASSUME NEW s, NEW p, NEW n, NEW c, OnLevelSummary(s, p, n, c) PROVE BookOK(book')
  <2>1. book' = LevelSummary(book, s, p, n, c)  BY <1>1, <1>8 DEF OnLevelSummary
  <2>2. PICK a : LevelSummary(book, s, p, n, c) = [book EXCEPT !.agg = a]  BY DEF LevelSummary
  <2> QED  BY <2>1, <2>2, AggOK
<1>9. ASSUME NEW os \in SnapshotLists, NEW seq, OnSnapshot(SnapshotPerOrder(book, os), seq)
      PROVE  BookOK(book')
  <2>1. book' = SnapshotPerOrder(book, os)  BY <1>2, <1>9
  <2> QED  BY <1>0, <2>1, SnapshotOK
<1>10. ASSUME NEW ls, NEW seq, OnSnapshot(SnapshotAggregated(book, ls), seq) PROVE BookOK(book')
  <2>1. book' = SnapshotAggregated(book, ls)  BY <1>2, <1>10
  <2>2. PICK a : SnapshotAggregated(book, ls) = [book EXCEPT !.agg = a]  BY DEF SnapshotAggregated
  <2> QED  BY <2>1, <2>2, AggOK
<1>11. CASE Mutate
  BY <1>3, <1>4, <1>5, <1>6, <1>7, <1>8, <1>9, <1>10, <1>11 DEF Mutate
<1>12. ASSUME book' = book PROVE BookOK(book')  BY <1>12
<1> QED  BY <1>11, <1>12 DEF ManagerNext, Publish, OnSeq, OnReset, ReadEpoch, ReadSeq, ReadBids, ReadAsks, managerVars

\* So it does when OrderBookManager drives the book: mutators, both kinds of
\* snapshot and level summaries, between the steps of a reader.
THEOREM ManagedLadderTheorem == ManagerSpec => []LadderAndIndexAgree
<1>1. ManagerInit => BookOK(book)  BY EmptyOK DEF ManagerInit
<1> QED  BY <1>1, ManagedStep, BookOKAgrees, PTL DEF ManagerSpec

-----------------------------------------------------------------------------
(* Sequencing                                                              *)

\* What was accepted since the baseline is an interval that ends at lastSeq;
\* before the first message nothing was accepted.
Accepted ==
    /\ feed.lastSeq \in 0 .. MaxSeq
    /\ feed.lastSeq = 0 => have = {}
    /\ feed.lastSeq # 0 => \E a \in 1 .. feed.lastSeq : have = a .. feed.lastSeq

\* The greatest and the least number of an interval.
LEMMA IntervalEnds ==
    ASSUME NEW a \in Nat, NEW z \in Nat, a <= z
    PROVE  Max(a .. z) = z /\ Min(a .. z) = a
<1> DEFINE S == a .. z
<1>1. z \in S /\ a \in S /\ \A y \in S : z >= y /\ a <= y /\ y \in Nat  OBVIOUS
<1>2. Max(S) = CHOOSE x \in S : \A y \in S : x >= y  BY DEF Max
<1>3. Min(S) = CHOOSE x \in S : \A y \in S : x =< y  BY DEF Min
<1> HIDE DEF S
<1>4. Max(S) \in S /\ \A y \in S : Max(S) >= y  BY <1>1, <1>2
<1>5. Min(S) \in S /\ \A y \in S : Min(S) =< y  BY <1>1, <1>3
<1>6. Max(S) = z
  <2>1. Max(S) >= z /\ z >= Max(S) /\ Max(S) \in Nat  BY <1>1, <1>4
  <2> QED  BY <2>1
<1>7. Min(S) = a
  <2>1. Min(S) =< a /\ a =< Min(S) /\ Min(S) \in Nat  BY <1>1, <1>5
  <2> QED  BY <2>1
<1> QED  BY <1>6, <1>7 DEF S

\* A snapshot and the first message start an interval, a message in order makes
\* it longer, a gap and a reset leave nothing behind that could hide it.
LEMMA AcceptedStep ==
    ASSUME Accepted, [ManagerNext]_managerVars
    PROVE  Accepted'
<1>0. MaxSeq \in Nat /\ feed.lastSeq \in Nat  BY ManagerBounds DEF Accepted
<1>1. ASSUME feed'.lastSeq = feed.lastSeq, have' = have PROVE Accepted'
  BY <1>1 DEF Accepted
<1>2. ASSUME NEW q \in 1 .. MaxSeq, feed'.lastSeq = q, have' = {q} PROVE Accepted'
  <2>1. q \in 0 .. MaxSeq /\ q # 0 /\ q \in 1 .. q /\ {q} = q .. q  BY <1>0
  <2> QED  BY <1>2, <2>1 DEF Accepted
<1>3. ASSUME NEW new, NEW seq \in 1 .. MaxSeq \cup {None}, OnSnapshot(new, seq) PROVE Accepted'
  <2>1. have' = IF seq = None THEN have ELSE {seq}  BY <1>3 DEF OnSnapshot
  <2>2. feed' = [feed EXCEPT !.stale = FALSE, !.lastSeq = Target(seq, feed.lastSeq)]
    BY <1>3 DEF OnSnapshot
  <2>3. CASE seq = None
    <3>1. Target(seq, feed.lastSeq) = feed.lastSeq  BY <2>3 DEF Target
    <3>2. feed'.lastSeq = feed.lastSeq  BY <2>2, <3>1
    <3> QED  BY <1>1, <2>1, <2>3, <3>2
  <2>4. CASE seq # None
    <3>1. Target(seq, feed.lastSeq) = seq /\ seq \in 1 .. MaxSeq  BY <2>4 DEF Target
    <3>2. feed'.lastSeq = seq  BY <2>2, <3>1
    <3> QED  BY <1>2, <2>1, <2>4, <3>1, <3>2
  <2> QED  BY <2>3, <2>4
<1>4. ASSUME NEW seq \in 1 .. MaxSeq, OnSeq(seq) PROVE Accepted'
  <2>1. CASE InOrder(seq)
    <3>1. feed' = [feed EXCEPT !.lastSeq = seq] /\ have' = have \cup {seq}  BY <1>4, <2>1 DEF OnSeq
    <3>2. feed'.lastSeq = seq  BY <3>1
    <3>3. CASE feed.lastSeq = 0
      <4>1. have' = {seq}  BY <3>1, <3>3 DEF Accepted
      <4> QED  BY <1>2, <3>2, <4>1
    <3>4. CASE feed.lastSeq # 0
      <4>1. PICK a \in 1 .. feed.lastSeq : have = a .. feed.lastSeq  BY <3>4 DEF Accepted
      <4>2. seq = feed.lastSeq + 1  BY <2>1, <3>4 DEF InOrder
      <4>3. have' = a .. seq /\ a \in 1 .. seq  BY <1>0, <3>1, <4>1, <4>2
      <4> QED  BY <3>2, <4>3 DEF Accepted
    <3> QED  BY <3>3, <3>4
  <2>2. CASE ~InOrder(seq)
    <3>1. feed' = [feed EXCEPT !.stale = TRUE] /\ have' = have  BY <1>4, <2>2 DEF OnSeq
    <3>2. feed'.lastSeq = feed.lastSeq  BY <3>1
    <3> QED  BY <1>1, <3>1, <3>2
  <2> QED  BY <2>1, <2>2
<1>5. ASSUME NEW e \in Epochs, OnReset(e) PROVE Accepted'
  <2>1. feed'.lastSeq = 0 /\ have' = {}  BY <1>5 DEF OnReset
  <2> QED  BY <1>0, <2>1 DEF Accepted
<1>6. ASSUME feed' = feed, have' = have PROVE Accepted'  BY <1>1, <1>6
<1>7. ASSUME NEW new, NEW changed, NEW candidates, NEW unnamed,
             MutateWithDelta(new, changed, candidates, unnamed)
      PROVE  Accepted'
  BY <1>6, <1>7 DEF MutateWithDelta
<1>8. CASE Mutate
  <2>1. ASSUME NEW id, NEW sc, NEW s, NEW p, NEW z, OnAdd(id, sc, s, p, z) PROVE Accepted'
    BY <1>7, <2>1 DEF OnAdd
  <2>2. ASSUME NEW k, NEW np, NEW nz, OnUpdate(k, np, nz) PROVE Accepted'
    BY <1>7, <2>2, Zenon DEF OnUpdate
  <2>3. ASSUME NEW k, OnDelete(k) PROVE Accepted'  BY <1>7, <2>3, Zenon DEF OnDelete
  <2>4. ASSUME NEW k, NEW prio, OnPriority(k, prio) PROVE Accepted'  BY <1>7, <2>4 DEF OnPriority
  <2>5. ASSUME NEW p, NEW n, NEW aggr, OnTrade(p, n, aggr) PROVE Accepted'  BY <1>7, <2>5 DEF OnTrade
  <2>6. ASSUME NEW s, NEW p, NEW n, NEW c, OnLevelSummary(s, p, n, c) PROVE Accepted'
    BY <1>7, <2>6 DEF OnLevelSummary
  <2> QED  BY <1>3, <1>8, <2>1, <2>2, <2>3, <2>4, <2>5, <2>6 DEF Mutate
<1>9. CASE Publish  BY <1>6, <1>9 DEF Publish
<1>10. CASE ReadEpoch \/ ReadSeq \/ ReadBids \/ ReadAsks
  BY <1>6, <1>10 DEF ReadEpoch, ReadSeq, ReadBids, ReadAsks
<1>11. CASE UNCHANGED managerVars  BY <1>6, <1>11 DEF managerVars
<1> QED  BY <1>4, <1>5, <1>8, <1>9, <1>10, <1>11 DEF ManagerNext

\* OrderBookManager::onSeq: lastSeq never runs ahead of a venue message that is
\* missing, through snapshots with and without a number, gaps and resets.
THEOREM NoHiddenGapTheorem == ManagerSpec => []NoHiddenGap
<1>1. ManagerInit => Accepted
  <2> SUFFICES ASSUME ManagerInit PROVE Accepted  OBVIOUS
  <2>1. feed.lastSeq = 0 /\ have = {} /\ MaxSeq \in Nat  BY ManagerBounds DEF ManagerInit
  <2> QED  BY <2>1 DEF Accepted
<1>2. Accepted /\ [ManagerNext]_managerVars => Accepted'  BY AcceptedStep
<1>3. Accepted => NoHiddenGap
  <2> SUFFICES ASSUME Accepted, feed.lastSeq # 0
               PROVE  have # {} /\ Max(have) = feed.lastSeq /\ have = Min(have) .. Max(have)
    BY DEF NoHiddenGap
  <2>1. MaxSeq \in Nat /\ feed.lastSeq \in Nat  BY ManagerBounds DEF Accepted
  <2>2. PICK a \in 1 .. feed.lastSeq : have = a .. feed.lastSeq  BY DEF Accepted
  <2>3. a \in Nat /\ a <= feed.lastSeq  BY <2>1
  <2>4. Max(have) = feed.lastSeq /\ Min(have) = a  BY <2>1, <2>2, <2>3, IntervalEnds
  <2>5. a \in have  BY <2>1, <2>2, <2>3
  <2> QED  BY <2>2, <2>4, <2>5
<1> QED  BY <1>1, <1>2, <1>3, PTL DEF ManagerSpec

-----------------------------------------------------------------------------
(* What a mutator does to the levels' sizes                                *)

\* A level's size is the sum of its list.
LEMMA SizeIsSum ==
    ASSUME NEW b, BookOK(b), NEW s \in Sides, NEW p \in Prices
    PROVE  LevelSize(b, s, p) = SizeSum(ListAt(b, s, p)) /\ LevelSize(b, s, p) \in Nat
<1> DEFINE lvl == LevelAt(b, s, p)
<1>1. LevelOK(s, p, lvl) /\ ListAt(b, s, p) \in Seq(OrdersOf(s, p))  BY ListOK DEF BookOK
<1>2. lvl.total = SizeSum(lvl.orders) /\ lvl.orders = ListAt(b, s, p)  BY <1>1 DEF LevelOK, ListAt
<1>3. LevelSize(b, s, p) = lvl.total  BY DEF LevelSize, LevelAt, NewLevel
<1> HIDE DEF lvl
<1>4. SizeSum(ListAt(b, s, p)) \in Nat  BY <1>1, LevelSized, SumNat
<1> QED  BY <1>2, <1>3, <1>4

\* Between b and c only the levels `at' have another size.
ChangesOnly(b, c, at) ==
    \A s \in Sides, p \in Prices : <<s, p>> \notin at => LevelSize(c, s, p) = LevelSize(b, s, p)

\* Where an order is not, it is not missing.
LEMMA AwayFrom ==
    ASSUME NEW b, BookOK(b), NEW k, NEW s \in Sides, NEW p \in Prices,
           k \in DOMAIN b.byId => <<s, p>> # <<b.byId[k].side, b.byId[k].price>>
    PROVE  GoneAt(b, k, s, p) = ListAt(b, s, p)
<1>1. k \notin KeysAt(b, s, p)
  <2>1. CASE k \notin DOMAIN b.byId  BY <2>1 DEF BookOK, Indexed
  <2>2. CASE k \in DOMAIN b.byId
    <3>1. Rests(b, k, b.byId[k].side, b.byId[k].price)  BY <2>2, RestingOK
    <3>2. s # b.byId[k].side \/ p # b.byId[k].price  BY <2>2
    <3> QED  BY <3>1, <3>2, Zenon DEF Rests
  <2> QED  BY <2>1, <2>2
<1> QED  BY <1>1 DEF GoneAt

\* An order that leaves its level and joins one, both of them named.
LEMMA JoinSizes ==
    ASSUME NEW b, BookOK(b), NEW c, BookOK(c), NEW o, JoinedAt(b, c, o), NEW at,
           <<o.side, o.price>> \in at,
           o.key \in DOMAIN b.byId => <<b.byId[o.key].side, b.byId[o.key].price>> \in at
    PROVE  ChangesOnly(b, c, at)
<1> SUFFICES ASSUME NEW s \in Sides, NEW p \in Prices, <<s, p>> \notin at
             PROVE  LevelSize(c, s, p) = LevelSize(b, s, p)
  BY DEF ChangesOnly
<1>1. ~(s = o.side /\ p = o.price)  OBVIOUS
<1>2. o.key \in DOMAIN b.byId => <<s, p>> # <<b.byId[o.key].side, b.byId[o.key].price>>  OBVIOUS
<1>3. ListAt(c, s, p) = GoneAt(b, o.key, s, p)  BY <1>1 DEF JoinedAt
<1>4. ListAt(c, s, p) = ListAt(b, s, p)  BY <1>2, <1>3, AwayFrom
<1> QED  BY <1>4, SizeIsSum

\* A delete changes the level the order was in.
LEMMA DeleteSizes ==
    ASSUME NEW b, BookOK(b), NEW k \in DOMAIN b.byId
    PROVE  ChangesOnly(b, Delete(b, k), {<<b.byId[k].side, b.byId[k].price>>})
<1> DEFINE c == Delete(b, k)
<1>1. BookOK(c)  BY DeleteOK
<1> SUFFICES ASSUME NEW s \in Sides, NEW p \in Prices,
                    <<s, p>> \notin {<<b.byId[k].side, b.byId[k].price>>}
             PROVE  LevelSize(c, s, p) = LevelSize(b, s, p)
  BY DEF ChangesOnly
<1>2. ListAt(c, s, p) = GoneAt(b, k, s, p)  BY DeleteList
<1> HIDE DEF c
<1>3. ListAt(c, s, p) = ListAt(b, s, p)  BY <1>2, AwayFrom
<1> QED  BY <1>1, <1>3, SizeIsSum

\* An add changes its level, and another only if its id rests there.
LEMMA AddSizes ==
    ASSUME NEW b, BookOK(b), NEW id \in Nat, NEW sc \in Scopes, NEW missing \in BOOLEAN,
           NEW s \in Sides, NEW p \in Prices, NEW z \in Nat,
           NEW k, k = ScopedKey(b, id, sc, missing),
           k \in DOMAIN b.byId => b.byId[k] = [side |-> s, price |-> p]
    PROVE  ChangesOnly(b, AddScoped(b, id, sc, missing, s, p, z, 0), {<<s, p>>})
<1> DEFINE c == AddScoped(b, id, sc, missing, s, p, z, 0)
           o == Order(k, s, p, z, 0)
<1>1. BookOK(c)  BY AddScopedOK
<1>2. JoinedAt(b, c, o)  BY AddScopedList
<1>3. o.key = k /\ o.side = s /\ o.price = p  BY DEF Order
<1>4. k \in DOMAIN b.byId => <<b.byId[k].side, b.byId[k].price>> = <<s, p>>  OBVIOUS
<1> HIDE DEF c, o
<1>5. ChangesOnly(b, c, {<<s, p>>})  BY <1>1, <1>2, <1>3, <1>4, JoinSizes
<1> QED  BY <1>5 DEF c

\* An update changes the level the order was in and the one it goes to.
LEMMA UpdateSizes ==
    ASSUME NEW b, BookOK(b), NEW k \in DOMAIN b.byId,
           NEW np \in Prices \cup {None}, NEW nz \in Nat \cup {None}
    PROVE  ChangesOnly(b, Update(b, k, np, nz),
                       {<<b.byId[k].side, b.byId[k].price>>}
                       \cup (IF np = None THEN {} ELSE {<<b.byId[k].side, np>>}))
<1> DEFINE c == Update(b, k, np, nz)
           o == Resting(b, k)
           tgt == Updated(o, np, nz)
           at == {<<b.byId[k].side, b.byId[k].price>>}
                 \cup (IF np = None THEN {} ELSE {<<b.byId[k].side, np>>})
<1>1. /\ Rests(b, k, o.side, o.price) /\ tgt.key = k /\ tgt.side = o.side
      /\ tgt.price = Target(np, o.price)
      /\ \/ tgt.size = 0 /\ c = Delete(b, k)
         \/ tgt.size # 0 /\ tgt.price = o.price /\ ResizedAt(b, c, tgt)
         \/ tgt.size # 0 /\ tgt.price # o.price /\ JoinedAt(b, c, tgt)
  BY UpdateList
<1>2. BookOK(c)  BY UpdateOK
<1>3. o.side = b.byId[k].side /\ o.price = b.byId[k].price  BY <1>1 DEF Rests
<1>4. <<o.side, o.price>> \in at /\ <<tgt.side, tgt.price>> \in at
  BY <1>1, <1>3 DEF Target
<1>5. {<<b.byId[k].side, b.byId[k].price>>} \subseteq at  OBVIOUS
<1>6. <<b.byId[k].side, b.byId[k].price>> \in at  OBVIOUS
<1> HIDE DEF c, o, tgt, at
<1>7. CASE c = Delete(b, k)
  <2>1. ChangesOnly(b, c, {<<b.byId[k].side, b.byId[k].price>>})  BY <1>7, DeleteSizes
  <2> QED  BY <1>5, <2>1 DEF ChangesOnly, c, at
<1>8. CASE tgt.price = o.price /\ ResizedAt(b, c, tgt)
  <2>1. ASSUME NEW s \in Sides, NEW p \in Prices, <<s, p>> \notin at
        PROVE  LevelSize(c, s, p) = LevelSize(b, s, p)
    <3>1. ~(s = tgt.side /\ p = tgt.price)  BY <1>4, <2>1
    <3>2. ListAt(c, s, p) = ListAt(b, s, p)  BY <1>8, <3>1 DEF ResizedAt
    <3> QED  BY <1>2, <3>2, SizeIsSum
  <2> QED  BY <2>1 DEF ChangesOnly, c, at
<1>9. CASE JoinedAt(b, c, tgt)
  <2>1. ChangesOnly(b, c, at)  BY <1>1, <1>2, <1>4, <1>6, <1>9, JoinSizes
  <2> QED  BY <2>1 DEF c, at
<1> QED  BY <1>1, <1>7, <1>8, <1>9

\* A new priority leaves every size as it was.
LEMMA PrioritySizes ==
    ASSUME NEW b, BookOK(b), NEW k \in DOMAIN b.byId, NEW prio \in Priorities, PriorityChanges(b, k, prio)
    PROVE  ChangesOnly(b, Priority(b, k, prio), {})
<1> DEFINE c == Priority(b, k, prio)
           x == Resting(b, k)
           o == [x EXCEPT !.prio = prio]
           s == b.byId[k].side
           p == b.byId[k].price
<1>1. /\ JoinedAt(b, c, o) /\ o \in Orders /\ o.key = k /\ o.size = x.size /\ o.side = s /\ o.price = p
  BY PriorityList
<1>2. BookOK(c)  BY PriorityOK
<1>3. Rests(b, k, s, p)  BY RestingOK
<1> HIDE DEF c, x, o, s, p
<1> DEFINE lvl == b.lad[s][p]
           os == lvl.orders
           S == OrdersOf(s, p)
           z == Drop(os, k)
<1>4. /\ s \in Sides /\ p \in Prices /\ LevelOK(s, p, lvl) /\ k \in KeysOf(os) /\ x = os[Pos(os, k)]
      /\ ListAt(b, s, p) = os /\ k \in KeysAt(b, s, p)
  BY <1>3 DEF Rests, ListAt, LevelAt, KeysAt, x
<1>5. LevelSize(c, s, p) = LevelSize(b, s, p)
  <2>1. ListAt(c, s, p) = Append(z, o)  BY <1>1, <1>4 DEF JoinedAt, GoneAt
  <2>2. Erased(S, os, k, Pos(os, k), z)
    <3> HIDE DEF lvl
    <3> QED  BY <1>4, DropOK
  <2>3. z \in Seq(S) /\ SizeSum(z) = SizeSum(os) - x.size  BY <1>4, <2>2 DEF Erased
  <2>4. o \in S /\ o.size \in Nat  BY <1>1 DEF OrdersOf, Orders
  <2>5. LevelSize(c, s, p) = SizeSum(Append(z, o))  BY <1>2, <1>4, <2>1, SizeIsSum
  <2>6. LevelSize(b, s, p) = SizeSum(os) /\ SizeSum(os) \in Nat  BY <1>4, SizeIsSum
  <2> HIDE DEF z, os, lvl
  <2>7. SizeSum(Append(z, o)) = SizeSum(z) + o.size
    <3>1. Sized(z)  BY <2>3, LevelSized
    <3> HIDE DEF S
    <3> QED  BY <2>3, <2>4, <3>1, SumAppend
  <2> QED  BY <1>1, <2>3, <2>4, <2>5, <2>6, <2>7
<1>6. ASSUME NEW t \in Sides, NEW q \in Prices, <<t, q>> # <<s, p>>
      PROVE  LevelSize(c, t, q) = LevelSize(b, t, q)
  <2>1. ListAt(c, t, q) = GoneAt(b, k, t, q)  BY <1>1, <1>6 DEF JoinedAt
  <2>2. GoneAt(b, k, t, q) = ListAt(b, t, q)  BY <1>6, AwayFrom DEF s, p
  <2> QED  BY <1>2, <2>1, <2>2, SizeIsSum
<1>7. \A t \in Sides, q \in Prices : LevelSize(c, t, q) = LevelSize(b, t, q)  BY <1>5, <1>6
<1> QED  BY <1>7 DEF ChangesOnly, c

\* A trade that changes something changes a level whose size it reads first.
LEMMA TradeSizes ==
    ASSUME NEW b, BookOK(b), NEW p \in Prices, NEW qty \in Nat, NEW aggr, TradeChanges(b, p, qty, aggr)
    PROVE  ChangesOnly(b, Trade(b, p, qty, aggr),
                       {l \in Sides \X {p} : LevelSize(b, l[1], l[2]) > 0})
<1> DEFINE c == Trade(b, p, qty, aggr)
           s == Passive(b, p, aggr)
           at == {l \in Sides \X {p} : LevelSize(b, l[1], l[2]) > 0}
<1>1. s \in Sides /\ qty # 0 /\ LevelSize(b, s, p) > 0
  <2>1. s \in Sides \cup {None}  BY DEF Passive, Sides
  <2> QED  BY <2>1 DEF TradeChanges
<1>2. c = Consume(b, s, p, qty) /\ BookOK(c)
  <2>1. s # None  BY DEF TradeChanges
  <2>2. c = Consume(b, s, p, qty)  BY <1>1, <2>1 DEF Trade
  <2> QED  BY <2>2, TradeOK
<1> HIDE DEF c, s
<1>3. p \in DOMAIN b.lad[s]  BY <1>1 DEF LevelSize
<1>4. <<s, p>> \in at
  <2>1. <<s, p>> \in Sides \X {p} /\ <<s, p>>[1] = s /\ <<s, p>>[2] = p  BY <1>1
  <2> QED  BY <1>1, <2>1
<1> HIDE DEF at
<1>5. ASSUME NEW t \in Sides, NEW q \in Prices, <<t, q>> \notin at
      PROVE  LevelSize(c, t, q) = LevelSize(b, t, q)
  <2>1. ~(t = s /\ q = p)  BY <1>4, <1>5
  <2>2. ListAt(c, t, q) = ListAt(b, t, q)  BY <1>1, <1>2, <1>3, <2>1, ConsumeList
  <2> QED  BY <1>2, <2>2, SizeIsSum
<1> QED  BY <1>5 DEF ChangesOnly, c, at

-----------------------------------------------------------------------------
(* A depth copy                                                            *)

\* buildSnapshot() is asked for as many levels as there are prices.
WholeDepth ==
    Prices \subseteq Int /\ IsFiniteSet(Prices) /\ TopN \in Nat /\ Cardinality(Prices) <= TopN

\* The prices of a side that are better than p, and how many there are.
Better(ps, s, p) == {r \in ps : IF s = "bid" THEN r > p ELSE r < p}

Rank(ps, s, p) == Cardinality(Better(ps, s, p))

\* Each of n prices has a rank of its own among 0 .. n - 1.
LEMMA RankOnto ==
    ASSUME NEW ps \in SUBSET Int, IsFiniteSet(ps), NEW s
    PROVE  /\ Cardinality(ps) \in Nat
           /\ \A p \in ps : Rank(ps, s, p) \in 0 .. Cardinality(ps) - 1
           /\ \A p, q \in ps : Rank(ps, s, p) = Rank(ps, s, q) => p = q
           /\ \A i \in 0 .. Cardinality(ps) - 1 : \E p \in ps : Rank(ps, s, p) = i
<1> DEFINE n == Cardinality(ps)
           T == 0 .. n - 1
<1>1. n \in Nat  BY FS_CardinalityType
<1>2. ASSUME NEW p \in ps
      PROVE  /\ Better(ps, s, p) \subseteq ps /\ p \notin Better(ps, s, p)
             /\ IsFiniteSet(Better(ps, s, p)) /\ Rank(ps, s, p) \in Nat /\ Rank(ps, s, p) < n
  <2>1. Better(ps, s, p) \subseteq ps /\ p \notin Better(ps, s, p)  BY DEF Better
  <2>2. /\ IsFiniteSet(Better(ps, s, p)) /\ Cardinality(Better(ps, s, p)) <= n
        /\ (n = Cardinality(Better(ps, s, p)) => ps = Better(ps, s, p))
    BY <2>1, FS_Subset
  <2>3. Cardinality(Better(ps, s, p)) \in Nat  BY <2>2, FS_CardinalityType
  <2>4. n # Cardinality(Better(ps, s, p))  BY <2>1, <2>2
  <2> HIDE DEF n
  <2> QED  BY <1>1, <2>1, <2>2, <2>3, <2>4 DEF Rank
<1>3. ASSUME NEW p \in ps, NEW q \in ps, p \in Better(ps, s, q)
      PROVE  Rank(ps, s, p) # Rank(ps, s, q)
  <2>1. Better(ps, s, p) \subseteq Better(ps, s, q)
    <3> SUFFICES ASSUME NEW r \in Better(ps, s, p) PROVE r \in Better(ps, s, q)  OBVIOUS
    <3>1. r \in ps /\ p \in Int /\ q \in Int /\ r \in Int  BY DEF Better
    <3>2. CASE s = "bid"
      <4>1. r > p /\ p > q  BY <1>3, <3>2 DEF Better
      <4>2. r > q  BY <3>1, <4>1
      <4> QED  BY <3>1, <3>2, <4>2 DEF Better
    <3>3. CASE s # "bid"
      <4>1. r < p /\ p < q  BY <1>3, <3>3 DEF Better
      <4>2. r < q  BY <3>1, <4>1
      <4> QED  BY <3>1, <3>3, <4>2 DEF Better
    <3> QED  BY <3>2, <3>3
  <2>2. Better(ps, s, p) # Better(ps, s, q)  BY <1>2, <1>3
  <2>3. Cardinality(Better(ps, s, q)) = Cardinality(Better(ps, s, p)) => Better(ps, s, q) = Better(ps, s, p)
    BY <1>2, <2>1, FS_Subset
  <2> QED  BY <2>2, <2>3 DEF Rank
<1>4. ASSUME NEW p \in ps, NEW q \in ps, Rank(ps, s, p) = Rank(ps, s, q) PROVE p = q
  <2> SUFFICES ASSUME p # q PROVE FALSE  OBVIOUS
  <2>1. p \in Better(ps, s, q) \/ q \in Better(ps, s, p)  BY DEF Better
  <2> QED  BY <1>3, <1>4, <2>1
<1> DEFINE f == [p \in ps |-> Rank(ps, s, p)]
<1>5. \A p \in ps : Rank(ps, s, p) \in T
  <2> TAKE p \in ps
  <2>1. Rank(ps, s, p) \in Nat /\ Rank(ps, s, p) < n  BY <1>2
  <2> HIDE DEF n
  <2> QED  BY <1>1, <2>1
<1>6. f \in Injection(ps, T)
  <2>1. f \in [ps -> T]  BY <1>5
  <2>2. \A p, q \in ps : f[p] = f[q] => p = q  BY <1>4
  <2> HIDE DEF f, T
  <2> QED  BY <2>1, <2>2 DEF Injection, IsInjective
<1>7. IsFiniteSet(T) /\ Cardinality(T) = n
  <2> HIDE DEF n
  <2>1. 0 \in Int /\ n - 1 \in Int  BY <1>1
  <2>2. IsFiniteSet(0 .. n - 1) /\ Cardinality(0 .. n - 1) = IF 0 > n - 1 THEN 0 ELSE (n - 1) - 0 + 1
    BY <2>1, FS_Interval
  <2>3. (IF 0 > n - 1 THEN 0 ELSE (n - 1) - 0 + 1) = n  BY <1>1
  <2> QED  BY <2>2, <2>3
<1>8. f \in Surjection(ps, T)
  <2>1. Cardinality(ps) = Cardinality(T)  BY <1>7
  <2> HIDE DEF f, T, n
  <2> QED  BY <1>6, <1>7, <2>1, FS_Injection
<1>9. \A i \in T : \E p \in ps : f[p] = i
  <2> HIDE DEF f, T
  <2> QED  BY <1>8 DEF Surjection
<1> QED  BY <1>1, <1>4, <1>5, <1>9

\* forEachLevel() reports each level once, with its total, when asked for enough.
LEMMA DepthTells ==
    ASSUME NEW b, BookOK(b), NEW s \in Sides, NEW p \in Prices, WholeDepth
    PROVE  SizeIn(Depth(b, s, TopN), p) = LevelSize(b, s, p)
<1> DEFINE ps == DOMAIN b.lad[s]
           n == Cardinality(ps)
           At(i) == CHOOSE x \in ps : Rank(ps, s, x) = i - 1
           d == Depth(b, s, TopN)
<1>1. ps \subseteq Prices  BY DEF BookOK, IsBook
<1>2. ps \in SUBSET Int /\ IsFiniteSet(ps) /\ n <= TopN
  <2>1. IsFiniteSet(ps) /\ Cardinality(ps) <= Cardinality(Prices)  BY <1>1, FS_Subset DEF WholeDepth
  <2>2. Cardinality(ps) \in Nat /\ Cardinality(Prices) \in Nat  BY <2>1, FS_CardinalityType DEF WholeDepth
  <2> HIDE DEF ps
  <2> QED  BY <1>1, <2>1, <2>2 DEF WholeDepth
<1>3. /\ n \in Nat /\ \A x \in ps : Rank(ps, s, x) \in 0 .. n - 1
      /\ \A x, y \in ps : Rank(ps, s, x) = Rank(ps, s, y) => x = y
      /\ \A i \in 0 .. n - 1 : \E x \in ps : Rank(ps, s, x) = i
  <2> HIDE DEF ps
  <2> QED  BY <1>2, RankOnto
<1>4. d = [i \in 1 .. n |-> <<At(i), b.lad[s][At(i)].total>>]
  <2>1. (IF TopN < n THEN TopN ELSE n) = n
    <3> HIDE DEF n
    <3> QED  BY <1>2, <1>3 DEF WholeDepth
  <2>2. d = [i \in 1 .. (IF TopN < n THEN TopN ELSE n) |-> <<At(i), b.lad[s][At(i)].total>>]
    BY DEF Depth, Rank, Better
  <2> HIDE DEF At, n, d
  <2> QED  BY <2>1, <2>2, Zenon
<1> HIDE DEF d
<1>5. ASSUME NEW i \in 1 .. n PROVE At(i) \in ps /\ Rank(ps, s, At(i)) = i - 1
  <2> HIDE DEF n, ps
  <2>1. i - 1 \in 0 .. n - 1  BY <1>3
  <2>2. \E x \in ps : Rank(ps, s, x) = i - 1  BY <1>3, <2>1
  <2> QED  BY <2>2
<1>6. ASSUME NEW x \in ps PROVE \E i \in 1 .. n : At(i) = x
  <2> DEFINE i == Rank(ps, s, x) + 1
  <2> HIDE DEF n, ps, At
  <2>1. i \in 1 .. n /\ i - 1 = Rank(ps, s, x)  BY <1>3
  <2>2. At(i) \in ps /\ Rank(ps, s, At(i)) = i - 1  BY <1>5, <2>1
  <2>3. At(i) = x  BY <1>3, <2>1, <2>2
  <2> QED  BY <2>1, <2>3
<1> HIDE DEF At
<1> DEFINE at == {i \in DOMAIN d : d[i][1] = p}
<1>7. DOMAIN d = 1 .. n /\ \A i \in 1 .. n : d[i][1] = At(i) /\ d[i][2] = b.lad[s][At(i)].total
  BY <1>4
<1>8. SizeIn(d, p) = IF at = {} THEN 0 ELSE d[CHOOSE i \in at : TRUE][2]  BY DEF SizeIn
<1>9. CASE p \in ps
  <2>1. PICK i \in 1 .. n : At(i) = p  BY <1>6, <1>9
  <2>2. i \in at  BY <1>7, <2>1
  <2>3. (CHOOSE j \in at : TRUE) \in at  BY <2>2
  <2>4. \A j \in at : d[j][2] = b.lad[s][p].total  BY <1>7
  <2>5. SizeIn(d, p) = b.lad[s][p].total
    <3> HIDE DEF at
    <3> QED  BY <1>8, <2>2, <2>3, <2>4
  <2> QED  BY <1>9, <2>5 DEF LevelSize, d
<1>10. CASE p \notin ps
  <2>1. at = {}  BY <1>5, <1>7, <1>10
  <2> QED  BY <1>8, <1>10, <2>1 DEF LevelSize, d
<1> QED  BY <1>9, <1>10

-----------------------------------------------------------------------------
(* Replaying deltas                                                        *)

\* A sequence of whatever kind of entries.
IsList(q) == Len(q) \in Nat /\ q = [i \in 1 .. Len(q) |-> q[i]]

\* What a delta says of a level.
Hits(d, s, p) == {l \in d.levels : l.side = s /\ l.price = p}

Said(d, s, p) == (CHOOSE l \in Hits(d, s, p) : TRUE).total

\* No delta from number a on mentions the level.
Silence(a, s, p) == \A n \in a .. Len(log) : Hits(log[n], s, p) = {}

\* The last one to mention it after the copy's number says v.
LastSaid(s, p, v) ==
    \E n \in reader.seq + 1 .. Len(log) :
        Hits(log[n], s, p) # {} /\ Said(log[n], s, p) = v /\ Silence(n + 1, s, p)

CopyOf(s) == IF s = "bid" THEN reader.bids ELSE reader.asks

\* Replaying gives what was said last, or what was copied if nothing was said.
LEMMA ReplayEnds ==
    ASSUME Len(log) \in Nat, reader.seq \in 0 .. Len(log), NEW s, NEW p
    PROVE  /\ Silence(reader.seq + 1, s, p) => Replayed(s, p) = SizeIn(CopyOf(s), p)
           /\ \A v : LastSaid(s, p, v) => Replayed(s, p) = v
<1> DEFINE a == reader.seq
           z == Len(log)
           base == SizeIn(CopyOf(s), p)
           Def(h) == [n \in a .. z |-> IF n = a THEN base
                                       ELSE IF Hits(log[n], s, p) = {} THEN h[n - 1]
                                       ELSE Said(log[n], s, p)]
           c == CHOOSE h : h = Def(h)
<1>1. a \in Nat /\ z \in Nat /\ a <= z  OBVIOUS
<1>2. Replayed(s, p) = c[z]  BY DEF Replayed, Hits, Said, CopyOf
<1> HIDE DEF a, z, base
<1>3. \E h : h = Def(h)
  <2> DEFINE N == z - a
             Q == {base} \cup {Said(log[n], s, p) : n \in a .. z}
             step == [i \in 1 .. N |-> [q \in Q |-> IF Hits(log[a + i], s, p) = {} THEN q
                                                    ELSE Said(log[a + i], s, p)]]
  <2>1. N \in Nat /\ base \in Q /\ \A n \in a .. z : Said(log[n], s, p) \in Q  BY <1>1
  <2>2. step \in [1 .. N -> [Q -> Q]]
    <3> SUFFICES ASSUME NEW i \in 1 .. N
                 PROVE  [q \in Q |-> IF Hits(log[a + i], s, p) = {} THEN q ELSE Said(log[a + i], s, p)] \in [Q -> Q]
      OBVIOUS
    <3>1. a + i \in a .. z  BY <1>1
    <3>2. Said(log[a + i], s, p) \in Q  BY <2>1, <3>1
    <3> HIDE DEF Q
    <3> QED  BY <3>2
  <2>3. PICK f \in [0 .. N -> Q] : f[0] = base /\ \A i \in 1 .. N : f[i] = step[i][f[i - 1]]
    <3> HIDE DEF step, Q, N
    <3>1. Steps(N, Q, step)  BY <2>2 DEF Steps
    <3>2. Runs(N, Q, base, step)  BY <2>1, <3>1, Recursion
    <3> QED  BY <3>2 DEF Runs
  <2> DEFINE h == [n \in a .. z |-> f[n - a]]
  <2>4. ASSUME NEW n \in a .. z
        PROVE  h[n] = IF n = a THEN base
                      ELSE IF Hits(log[n], s, p) = {} THEN h[n - 1] ELSE Said(log[n], s, p)
    <3> HIDE DEF Q
    <3>1. CASE n = a
      <4>1. n - a = 0 /\ n \in a .. z  BY <1>1, <3>1
      <4> QED  BY <2>3, <3>1, <4>1
    <3>2. CASE n # a
      <4> DEFINE i == n - a
      <4>1. /\ i \in 1 .. N /\ a + i = n /\ n - 1 \in a .. z /\ (n - 1) - a = i - 1 /\ i - 1 \in 0 .. N
            /\ i \in 0 .. N
        BY <1>1, <3>2
      <4>2. h[n] = f[i] /\ h[n - 1] = f[i - 1]  BY <4>1
      <4> HIDE DEF h, i, N
      <4>3. f[i - 1] \in Q /\ f[i] = step[i][f[i - 1]]  BY <2>3, <4>1
      <4>4. step[i][f[i - 1]] = IF Hits(log[a + i], s, p) = {} THEN f[i - 1] ELSE Said(log[a + i], s, p)
        BY <4>1, <4>3
      <4> HIDE DEF step
      <4> QED  BY <3>2, <4>1, <4>2, <4>3, <4>4
    <3> QED  BY <3>1, <3>2
  <2>5. h = Def(h)
    <3>1. DOMAIN h = a .. z  OBVIOUS
    <3>2. h = [n \in a .. z |-> h[n]]  OBVIOUS
    <3> HIDE DEF h
    <3> QED  BY <2>4, <3>2
  <2> QED  BY <2>5
<1>4. c = Def(c)
  <2> HIDE DEF Def
  <2> QED  BY <1>3
<1> HIDE DEF c
<1>5. \A n \in a .. z : c[n] = IF n = a THEN base
                               ELSE IF Hits(log[n], s, p) = {} THEN c[n - 1] ELSE Said(log[n], s, p)
  BY <1>4, Zenon
<1>6. ASSUME NEW n \in a .. z, \A m \in n + 1 .. z : Hits(log[m], s, p) = {}
      PROVE  c[z] = c[n]
  <2> DEFINE N == z - n
             P == {j \in 0 .. N : c[n + j] = c[n]}
  <2>1. N \in Nat /\ n \in Nat /\ n + 0 = n /\ n + N = z  BY <1>1
  <2>2. 0 \in P  BY <2>1
  <2>3. ASSUME NEW j \in 0 .. N - 1, j \in P PROVE j + 1 \in P
    <3> DEFINE m == n + (j + 1)
    <3>1. m \in n + 1 .. z /\ m \in a .. z /\ m # a /\ m - 1 = n + j /\ j + 1 \in 0 .. N
      BY <1>1, <2>1
    <3>2. Hits(log[m], s, p) = {}  BY <1>6, <3>1
    <3> HIDE DEF m
    <3>3. c[m] = c[m - 1]  BY <1>5, <3>1, <3>2, Zenon
    <3>4. c[n + j] = c[n]  BY <2>3
    <3>5. c[m] = c[n]  BY <3>1, <3>3, <3>4
    <3> QED  BY <3>1, <3>5 DEF m
  <2>4. 0 .. N \subseteq P
    <3> HIDE DEF P, N
    <3> QED  BY <2>1, <2>2, <2>3, UpTo
  <2>5. N \in P  BY <2>1, <2>4
  <2>6. c[n + N] = c[n]  BY <2>5
  <2> QED  BY <2>1, <2>6
<1>7. ASSUME Silence(reader.seq + 1, s, p) PROVE Replayed(s, p) = SizeIn(CopyOf(s), p)
  <2>0. \A m \in a + 1 .. z : Hits(log[m], s, p) = {}  BY <1>7 DEF Silence, a, z
  <2>1. a \in a .. z  BY <1>1
  <2>2. c[z] = c[a]  BY <1>6, <2>0, <2>1
  <2>3. c[a] = base  BY <1>5, <2>1
  <2> QED  BY <1>2, <2>2, <2>3 DEF base
<1>8. ASSUME NEW v, LastSaid(s, p, v) PROVE Replayed(s, p) = v
  <2>1. PICK n \in a + 1 .. z : /\ Hits(log[n], s, p) # {} /\ Said(log[n], s, p) = v
                                /\ \A m \in n + 1 .. z : Hits(log[m], s, p) = {}
    BY <1>8 DEF LastSaid, Silence, a, z
  <2>2. n \in a .. z /\ n # a  BY <1>1
  <2>3. c[z] = c[n]  BY <1>6, <2>1, <2>2
  <2>4. c[n] = v  BY <1>5, <2>1, <2>2, Zenon
  <2> QED  BY <1>2, <2>3, <2>4
<1> QED  BY <1>7, <1>8

-----------------------------------------------------------------------------
(* The steps                                                               *)

\* The reader has copied that side.
Copied(s) == reader.pc = "done" \/ (s = "bid" /\ reader.pc = "asks")

\* The delta about to be published mentions the level.
Pending(s, p) == delta # <<>> /\ Hits(delta[1], s, p) # {}

\* Copy and deltas give the level's size, or will: it is about to be published,
\* it was said last, or nothing was said and it is what was, or will be, copied.
Tells(s, p) ==
    \/ Pending(s, p)
    \/ LastSaid(s, p, LevelSize(book, s, p))
    \/ /\ Silence(reader.seq + 1, s, p)
       /\ Copied(s) => SizeIn(CopyOf(s), p) = LevelSize(book, s, p)

\* The types of the reader, of the log and of what is pending.
ReplayTypes ==
    /\ IsList(log) /\ silent \in BOOLEAN
    /\ delta = <<>> \/ delta = <<delta[1]>>
    /\ reader = [pc |-> reader.pc, epoch |-> reader.epoch, seq |-> reader.seq,
                 bids |-> reader.bids, asks |-> reader.asks]
    /\ reader.pc \in {"seq", "bids", "asks", "done"} /\ reader.seq \in 0 .. Len(log)

\* What is about to be published is still so.
PendingTrue ==
    delta # <<>> => \A l \in delta[1].levels : l.total = LevelSize(book, l.side, l.price)

AllTold == reader.pc # "seq" /\ ~silent => \A s \in Sides, p \in Prices : Tells(s, p)

Replays == ReplayTypes /\ PendingTrue /\ AllTold

\* A mutator that names every level it changes.
LEMMA MutateReplays ==
    ASSUME Replays, NEW new, NEW changed, NEW at, NEW unnamed \in BOOLEAN, delta = <<>>,
           MutateWithDelta(new, changed, at, unnamed), ~unnamed => ChangesOnly(book, new, at)
    PROVE  Replays'
<1> DEFINE levels == Probe(book, new, at)
           bid == NewTob(book, new, "bid")
           ask == NewTob(book, new, "ask")
<1>1. /\ book' = new /\ silent' = (silent \/ unnamed) /\ log' = log /\ reader' = reader
      /\ delta' = DeltaOf(levels, bid, ask)
  BY DEF MutateWithDelta, Becomes, readerVars
<1> HIDE DEF levels, bid, ask
<1>2. \/ levels = {} /\ delta' = <<>>
      \/ delta' = <<[levels |-> levels, bid |-> bid, ask |-> ask]>>
  BY <1>1 DEF DeltaOf
<1>3. delta' = <<>> \/ (delta' # <<>> /\ delta' = <<delta'[1]>> /\ delta'[1].levels = levels)  BY <1>2
<1>4. ReplayTypes'
  <2>1. silent' \in BOOLEAN  BY <1>1 DEF Replays, ReplayTypes
  <2>2. IsList(log)'  BY <1>1 DEF Replays, ReplayTypes, IsList
  <2> QED  BY <1>1, <1>3, <2>1, <2>2 DEF Replays, ReplayTypes
<1>5. PendingTrue'
  <2> SUFFICES ASSUME delta' # <<>>, NEW l \in levels PROVE l.total = LevelSize(new, l.side, l.price)
    BY <1>1, <1>3 DEF PendingTrue
  <2>1. PICK c \in at : l = [side |-> c[1], price |-> c[2], total |-> LevelSize(new, c[1], c[2])]
    BY DEF levels, Probe
  <2> QED  BY <2>1
<1>6. AllTold'
  <2> SUFFICES ASSUME reader.pc # "seq", ~silent', NEW s \in Sides, NEW p \in Prices PROVE Tells(s, p)'
    BY <1>1 DEF AllTold
  <2>1. ~silent /\ ~unnamed  BY <1>1 DEF Replays, ReplayTypes
  <2>2. Tells(s, p) /\ ~Pending(s, p)  BY <2>1 DEF Replays, AllTold, Pending
  <2>3. CASE LevelSize(new, s, p) = LevelSize(book, s, p)
    <3>1. LastSaid(s, p, LevelSize(book, s, p)) => LastSaid(s, p, LevelSize(book, s, p))'
      BY <1>1, <2>3 DEF LastSaid, Silence
    <3>2. Silence(reader.seq + 1, s, p) => Silence(reader.seq + 1, s, p)'  BY <1>1 DEF Silence
    <3>3. Copied(s)' = Copied(s) /\ CopyOf(s)' = CopyOf(s)  BY <1>1 DEF Copied, CopyOf
    <3> QED  BY <1>1, <2>2, <2>3, <3>1, <3>2, <3>3 DEF Tells
  <2>4. CASE LevelSize(new, s, p) # LevelSize(book, s, p)
    <3>1. <<s, p>> \in at  BY <2>1, <2>4 DEF ChangesOnly
    <3> DEFINE l == [side |-> s, price |-> p, total |-> LevelSize(new, s, p)]
    <3>2. l \in levels
      <4>1. <<s, p>>[1] = s /\ <<s, p>>[2] = p  OBVIOUS
      <4> QED  BY <2>4, <3>1, <4>1 DEF levels, Probe
    <3>3. delta' # <<>> /\ delta'[1].levels = levels  BY <1>2, <1>3, <3>2
    <3>4. l \in Hits(delta'[1], s, p)  BY <3>2, <3>3 DEF Hits
    <3>5. Pending(s, p)'  BY <3>3, <3>4 DEF Pending
    <3> QED  BY <3>5 DEF Tells
  <2> QED  BY <2>3, <2>4
<1> QED  BY <1>4, <1>5, <1>6 DEF Replays

\* One more delta in the log.
LEMMA ListGrows ==
    ASSUME NEW q, IsList(q), NEW d
    PROVE  /\ IsList(q \o <<d>>) /\ Len(q \o <<d>>) = Len(q) + 1
           /\ (q \o <<d>>)[Len(q) + 1] = d /\ \A i \in 1 .. Len(q) : (q \o <<d>>)[i] = q[i]
<1> DEFINE S == {q[i] : i \in 1 .. Len(q)} \cup {d}
           z == q \o <<d>>
<1>1. Len(q) \in Nat /\ q = [i \in 1 .. Len(q) |-> q[i]]  BY DEF IsList
<1>2. q \in Seq(S)
  <2>1. q \in [1 .. Len(q) -> S]  BY <1>1
  <2> HIDE DEF S
  <2> QED  BY <1>1, <2>1
<1>3. <<d>> \in Seq(S)  OBVIOUS
<1> HIDE DEF S
<1>4. z \in Seq(S) /\ Len(z) = Len(q) + 1 /\ z[Len(q) + 1] = d /\ \A i \in 1 .. Len(q) : z[i] = q[i]
  BY <1>1, <1>2, <1>3
<1>5. IsList(z)
  <2> HIDE DEF z
  <2>1. Len(z) \in Nat /\ z \in [1 .. Len(z) -> S]  BY <1>4
  <2> QED  BY <2>1 DEF IsList
<1> QED  BY <1>4, <1>5

\* Publishing says last what was pending.
LEMMA PublishReplays ==
    ASSUME Replays, Publish
    PROVE  Replays'
<1> DEFINE d == delta[1]
<1>1. delta = <<d>> /\ delta # <<>>  BY DEF Publish, Replays, ReplayTypes
<1>2. log' = log \o <<d>> /\ delta' = <<>> /\ book' = book /\ reader' = reader /\ silent' = silent
  <2>1. log' = log \o delta  BY DEF Publish
  <2>2. log \o delta = log \o <<d>>  BY <1>1
  <2> QED  BY <2>1, <2>2 DEF Publish, readerVars
<1>9. IsList(log) /\ Len(log) \in Nat /\ reader.seq \in 0 .. Len(log)
  BY DEF Replays, ReplayTypes, IsList
<1>10. PICK n \in Nat : n = Len(log)  BY <1>9
<1>11. PICK a \in 0 .. n : a = reader.seq  BY <1>9, <1>10
<1>3. n = Len(log) /\ a = reader.seq /\ a \in 0 .. n /\ a \in Nat /\ IsList(log)  BY <1>9, <1>10, <1>11
<1> HIDE DEF d
<1>4. /\ IsList(log \o <<d>>) /\ Len(log \o <<d>>) = n + 1
      /\ (log \o <<d>>)[n + 1] = d /\ \A i \in 1 .. n : (log \o <<d>>)[i] = log[i]
  BY <1>3, ListGrows
<1>5. IsList(log') /\ Len(log') = n + 1 /\ log'[n + 1] = d /\ \A i \in 1 .. n : log'[i] = log[i]
  BY <1>2, <1>4
<1>6. ReplayTypes'
  <2>1. reader.seq \in 0 .. Len(log')  BY <1>3, <1>5
  <2>2. IsList(log)'  BY <1>5 DEF IsList
  <2> QED  BY <1>2, <2>1, <2>2 DEF Replays, ReplayTypes
<1>7. PendingTrue'  BY <1>2 DEF PendingTrue
<1>8. AllTold'
  <2> SUFFICES ASSUME reader.pc # "seq", ~silent, NEW s \in Sides, NEW p \in Prices PROVE Tells(s, p)'
    BY <1>2 DEF AllTold
  <2>1. Tells(s, p)  BY DEF Replays, AllTold
  <2>5. PICK v : v = LevelSize(book, s, p)  OBVIOUS
  <2>2. n + 1 \in a + 1 .. n + 1 /\ n + 1 + 1 .. n + 1 = {}  BY <1>3
  <2>3. CASE Pending(s, p)
    <3>1. Hits(d, s, p) # {}  BY <1>1, <2>3 DEF Pending
    <3>2. Said(d, s, p) = v
      <4> DEFINE l == CHOOSE x \in Hits(d, s, p) : TRUE
      <4>1. l \in Hits(d, s, p)  BY <3>1
      <4> HIDE DEF l
      <4>2. l \in d.levels /\ l.side = s /\ l.price = p  BY <4>1 DEF Hits
      <4>3. l.total = v  BY <1>1, <2>5, <4>2 DEF Replays, PendingTrue, d
      <4> QED  BY <4>3 DEF Said, l
    <3>3. Silence(n + 1 + 1, s, p)'  BY <1>5, <2>2 DEF Silence
    <3>4. LastSaid(s, p, v)'  BY <1>2, <1>3, <1>5, <2>2, <3>1, <3>2, <3>3 DEF LastSaid
    <3> QED  BY <1>2, <2>5, <3>4 DEF Tells
  <2>4. CASE ~Pending(s, p)
    <3>1. Hits(d, s, p) = {}  BY <1>1, <2>4 DEF Pending, d
    <3>2. ASSUME NEW m \in Nat, Silence(m, s, p), m >= 1 PROVE Silence(m, s, p)'
      <4> SUFFICES ASSUME NEW i \in m .. n + 1 PROVE Hits(log'[i], s, p) = {}  BY <1>5 DEF Silence
      <4>1. CASE i = n + 1  BY <1>5, <3>1, <4>1
      <4>2. CASE i # n + 1
        <5>1. i \in 1 .. n /\ i \in m .. n  BY <1>3, <3>2, <4>2
        <5>2. Hits(log[i], s, p) = {}  BY <1>3, <3>2, <5>1 DEF Silence
        <5> QED  BY <1>5, <5>1, <5>2
      <4> QED  BY <4>1, <4>2
    <3>3. CASE LastSaid(s, p, v)
      <4>1. PICK i \in a + 1 .. n : Hits(log[i], s, p) # {} /\ Said(log[i], s, p) = v /\ Silence(i + 1, s, p)
        BY <1>3, <3>3 DEF LastSaid
      <4>2. i \in 1 .. n /\ i \in a + 1 .. n + 1 /\ i + 1 \in Nat /\ i + 1 >= 1  BY <1>3
      <4>3. Silence(i + 1, s, p)'  BY <3>2, <4>1, <4>2
      <4>4. log'[i] = log[i]  BY <1>5, <4>2
      <4>5. LastSaid(s, p, v)'  BY <1>2, <1>3, <1>5, <4>1, <4>2, <4>3, <4>4 DEF LastSaid
      <4> QED  BY <1>2, <2>5, <4>5 DEF Tells
    <3>4. CASE Silence(a + 1, s, p) /\ (Copied(s) => SizeIn(CopyOf(s), p) = v)
      <4>1. a + 1 \in Nat /\ a + 1 >= 1  BY <1>3
      <4>2. Silence(a + 1, s, p)'  BY <3>2, <3>4, <4>1
      <4>3. Copied(s)' = Copied(s) /\ CopyOf(s)' = CopyOf(s)  BY <1>2 DEF Copied, CopyOf
      <4> QED  BY <1>2, <1>3, <2>5, <3>4, <4>2, <4>3 DEF Tells
    <3> QED  BY <1>3, <2>1, <2>5, <2>4, <3>3, <3>4 DEF Tells
  <2> QED  BY <2>3, <2>4
<1> QED  BY <1>6, <1>7, <1>8 DEF Replays

\* A step that changes neither the book nor what is copied, said or pending.
LEMMA SameReplays ==
    ASSUME Replays, UNCHANGED <<book, delta, log, reader, silent>>
    PROVE  Replays'
<1>1. ReplayTypes'  BY DEF Replays, ReplayTypes, IsList
<1>2. PendingTrue'  BY DEF Replays, PendingTrue
<1>3. AllTold'
  <2> SUFFICES ASSUME reader.pc # "seq", ~silent, NEW s \in Sides, NEW p \in Prices PROVE Tells(s, p)'
    BY DEF AllTold
  <2>1. Tells(s, p)  BY DEF Replays, AllTold
  <2> QED  BY <2>1 DEF Tells, Pending, LastSaid, Silence, Copied, CopyOf
<1> QED  BY <1>1, <1>2, <1>3 DEF Replays

\* A snapshot says nothing of the levels, so that nothing is promised any more.
LEMMA SnapshotReplays ==
    ASSUME Replays, NEW new, NEW seq, OnSnapshot(new, seq)
    PROVE  Replays'
<1> DEFINE bid == Tob(new, "bid")
           ask == Tob(new, "ask")
<1>1. /\ book' = new /\ silent' = (silent \/ TRUE) /\ log' = log /\ reader' = reader
      /\ delta' = DeltaOf({}, bid, ask)
  BY DEF OnSnapshot, Becomes, readerVars
<1> HIDE DEF bid, ask
<1>2. delta' = <<>> \/ delta' = <<[levels |-> {}, bid |-> bid, ask |-> ask]>>  BY <1>1 DEF DeltaOf
<1>3. delta' = <<>> \/ (delta' # <<>> /\ delta' = <<delta'[1]>> /\ delta'[1].levels = {})  BY <1>2
<1>4. silent' = TRUE  BY <1>1
<1>5. ReplayTypes'  BY <1>1, <1>3, <1>4 DEF Replays, ReplayTypes, IsList
<1>6. PendingTrue'  BY <1>3 DEF PendingTrue
<1>7. AllTold'  BY <1>4 DEF AllTold
<1> QED  BY <1>5, <1>6, <1>7 DEF Replays

\* buildSnapshot() reads the number before the ladders: the deltas up to that
\* number are in what it will copy.
LEMMA ReadReplays ==
    ASSUME Replays, BookOK(book), WholeDepth, ReadEpoch \/ ReadSeq \/ ReadBids \/ ReadAsks
    PROVE  Replays'
<1>1. UNCHANGED <<book, delta, log>>  BY DEF ReadEpoch, ReadSeq, ReadBids, ReadAsks
<1>2. /\ IsList(log) /\ Len(log) \in Nat /\ reader.seq \in 0 .. Len(log) /\ silent \in BOOLEAN
      /\ reader = [pc |-> reader.pc, epoch |-> reader.epoch, seq |-> reader.seq,
                   bids |-> reader.bids, asks |-> reader.asks]
  BY DEF Replays, ReplayTypes, IsList
<1>3. PendingTrue'  BY <1>1 DEF Replays, PendingTrue
<1>4. ASSUME ReplayTypes', AllTold' PROVE Replays'  BY <1>3, <1>4 DEF Replays
<1>5. ASSUME silent' \in BOOLEAN, reader'.pc \in {"seq", "bids", "asks", "done"},
             reader'.seq \in 0 .. Len(log),
             reader' = [pc |-> reader'.pc, epoch |-> reader'.epoch, seq |-> reader'.seq,
                        bids |-> reader'.bids, asks |-> reader'.asks]
      PROVE  ReplayTypes'
  BY <1>1, <1>5 DEF Replays, ReplayTypes, IsList
<1>6. CASE ReadEpoch
  <2>1. reader' = [NoReader EXCEPT !.pc = "seq", !.epoch = feed.epoch] /\ silent' = FALSE
    BY <1>6 DEF ReadEpoch
  <2>2. reader' = [pc |-> "seq", epoch |-> feed.epoch, seq |-> 0, bids |-> <<>>, asks |-> <<>>]
    BY <2>1 DEF NoReader
  <2>3. ReplayTypes'
    <3>1. reader'.pc = "seq" /\ reader'.seq = 0 /\ 0 \in 0 .. Len(log)  BY <1>2, <2>2
    <3>2. reader' = [pc |-> reader'.pc, epoch |-> reader'.epoch, seq |-> reader'.seq,
                     bids |-> reader'.bids, asks |-> reader'.asks]
      BY <2>2
    <3> QED  BY <1>5, <2>1, <3>1, <3>2
  <2>4. AllTold'  BY <2>2 DEF AllTold
  <2> QED  BY <1>4, <2>3, <2>4
<1>7. CASE ReadSeq
  <2>1. reader' = [reader EXCEPT !.pc = "bids", !.seq = Len(log)] /\ silent' = silent
    BY <1>7 DEF ReadSeq
  <2>2. /\ reader' = [pc |-> "bids", epoch |-> reader.epoch, seq |-> Len(log),
                      bids |-> reader.bids, asks |-> reader.asks]
    BY <1>2, <2>1
  <2>3. ReplayTypes'
    <3>1. reader'.pc = "bids" /\ reader'.seq = Len(log) /\ Len(log) \in 0 .. Len(log)  BY <1>2, <2>2
    <3>2. reader' = [pc |-> reader'.pc, epoch |-> reader'.epoch, seq |-> reader'.seq,
                     bids |-> reader'.bids, asks |-> reader'.asks]
      BY <2>2
    <3> QED  BY <1>2, <1>5, <2>1, <3>1, <3>2
  <2>4. ASSUME NEW s, NEW p PROVE Tells(s, p)'
    <3>1. Len(log) + 1 .. Len(log) = {}  BY <1>2
    <3>2. Silence(reader.seq + 1, s, p)'  BY <1>1, <2>2, <3>1 DEF Silence
    <3>3. ~Copied(s)'  BY <2>2 DEF Copied
    <3> QED  BY <3>2, <3>3 DEF Tells
  <2>5. AllTold'  BY <2>4 DEF AllTold
  <2> QED  BY <1>4, <2>3, <2>5
<1>8. ASSUME NEW side \in Sides, NEW pc \in {"asks", "done"},
             reader.pc # "seq", silent' = silent, reader'.seq = reader.seq, reader'.pc = pc,
             \A s \in Sides : /\ s # side => CopyOf(s)' = CopyOf(s)
                              /\ s # side /\ Copied(s)' => Copied(s),
             CopyOf(side)' = Depth(book, side, TopN)
      PROVE  AllTold'
  <2> SUFFICES ASSUME ~silent, NEW s \in Sides, NEW p \in Prices PROVE Tells(s, p)'  BY <1>8 DEF AllTold
  <2>1. Tells(s, p)  BY <1>8 DEF Replays, AllTold
  <2>2. Pending(s, p) => Pending(s, p)'  BY <1>1 DEF Pending
  <2>3. LastSaid(s, p, LevelSize(book, s, p)) => LastSaid(s, p, LevelSize(book, s, p))'
    BY <1>1, <1>8 DEF LastSaid, Silence
  <2>4. Silence(reader.seq + 1, s, p) => Silence(reader.seq + 1, s, p)'  BY <1>1, <1>8 DEF Silence
  <2>5. CASE s = side
    <3>1. SizeIn(CopyOf(s)', p) = LevelSize(book, s, p)  BY <1>8, <2>5, DepthTells
    <3>2. SizeIn(CopyOf(s), p)' = LevelSize(book, s, p)'  BY <1>1, <3>1
    <3> QED  BY <2>1, <2>2, <2>3, <2>4, <3>2 DEF Tells
  <2>6. CASE s # side
    <3>1. CopyOf(s)' = CopyOf(s) /\ (Copied(s)' => Copied(s))  BY <1>8, <2>6
    <3>2. SizeIn(CopyOf(s), p)' = SizeIn(CopyOf(s), p) /\ LevelSize(book, s, p)' = LevelSize(book, s, p)
      BY <1>1, <3>1
    <3> QED  BY <2>1, <2>2, <2>3, <2>4, <3>1, <3>2 DEF Tells
  <2> QED  BY <2>5, <2>6
<1>9. CASE ReadBids
  <2>1. /\ reader' = [reader EXCEPT !.pc = "asks", !.bids = Depth(book, "bid", TopN)] /\ silent' = silent
        /\ reader.pc = "bids"
    BY <1>9 DEF ReadBids
  <2>2. reader' = [pc |-> "asks", epoch |-> reader.epoch, seq |-> reader.seq,
                   bids |-> Depth(book, "bid", TopN), asks |-> reader.asks]
    BY <1>2, <2>1
  <2>3. ReplayTypes'  BY <1>2, <1>5, <2>1, <2>2
  <2>4. AllTold'
    <3>1. "bid" \in Sides /\ "asks" \in {"asks", "done"}  BY DEF Sides
    <3>2. CopyOf("bid")' = Depth(book, "bid", TopN)  BY <2>2 DEF CopyOf
    <3>3. \A s \in Sides : s # "bid" => CopyOf(s)' = CopyOf(s)  BY <2>2 DEF CopyOf
    <3>4. \A s \in Sides : s # "bid" /\ Copied(s)' => Copied(s)  BY <2>2 DEF Copied
    <3>5. reader'.seq = reader.seq /\ reader'.pc = "asks"  BY <2>2
    <3> QED  BY <1>8, <2>1, <3>1, <3>2, <3>3, <3>4, <3>5
  <2> QED  BY <1>4, <2>3, <2>4
<1>10. CASE ReadAsks
  <2>1. /\ reader' = [reader EXCEPT !.pc = "done", !.asks = Depth(book, "ask", TopN)] /\ silent' = silent
        /\ reader.pc = "asks"
    BY <1>10 DEF ReadAsks
  <2>2. reader' = [pc |-> "done", epoch |-> reader.epoch, seq |-> reader.seq,
                   bids |-> reader.bids, asks |-> Depth(book, "ask", TopN)]
    BY <1>2, <2>1
  <2>3. ReplayTypes'  BY <1>2, <1>5, <2>1, <2>2
  <2>4. AllTold'
    <3>1. "ask" \in Sides /\ "done" \in {"asks", "done"}  BY DEF Sides
    <3>2. CopyOf("ask")' = Depth(book, "ask", TopN)  BY <2>2 DEF CopyOf
    <3>3. \A s \in Sides : s # "ask" => CopyOf(s)' = CopyOf(s)  BY <2>2 DEF CopyOf, Sides
    <3>4. \A s \in Sides : s # "ask" /\ Copied(s)' => Copied(s)  BY <2>1 DEF Copied, Sides
    <3>5. reader'.seq = reader.seq /\ reader'.pc = "done"  BY <2>2
    <3> QED  BY <1>8, <2>1, <3>1, <3>2, <3>3, <3>4, <3>5
  <2> QED  BY <1>4, <2>3, <2>4
<1> QED  BY <1>6, <1>7, <1>9, <1>10

\* Every step keeps the promise.
LEMMA ReplaysStep ==
    ASSUME Replays, BookOK(book), WholeDepth, [ManagerNext]_managerVars
    PROVE  Replays'
<1>0. Ids \subseteq Nat /\ Sizes \subseteq Nat /\ Quantities \subseteq Nat  BY BookAssumption
<1>1. ASSUME NEW id \in Ids, NEW sc \in Scopes, NEW s \in Sides, NEW p \in Prices, NEW z \in Sizes,
             OnAdd(id, sc, s, p, z)
      PROVE  Replays'
  <2> DEFINE new == AddScoped(book, id, sc, id = 0, s, p, z, 0)
             k == ScopedKey(book, id, sc, id = 0)
             moved == k \in DOMAIN book.byId /\ book.byId[k] # [side |-> s, price |-> p]
  <2>1. delta = <<>> /\ MutateWithDelta(new, TRUE, {<<s, p>>}, moved)
    BY <1>1 DEF OnAdd, Gate, LiveKeys
  <2>2. moved \in BOOLEAN /\ (id = 0) \in BOOLEAN  OBVIOUS
  <2>3. ~moved => ChangesOnly(book, new, {<<s, p>>})  BY <1>0, <2>2, AddSizes, Zenon
  <2> HIDE DEF new, moved
  <2> QED  BY <2>1, <2>2, <2>3, MutateReplays
<1>2. ASSUME NEW k \in LiveKeys, NEW np \in Prices \cup {None}, NEW nz \in Sizes \cup {None}, OnUpdate(k, np, nz)
      PROVE  Replays'
  <2> DEFINE new == Update(book, k, np, nz)
             at == UpdateCandidates(k, np)
  <2>1. delta = <<>> /\ MutateWithDelta(new, UpdateChanges(book, k, np, nz), at, FALSE)
    BY <1>2 DEF OnUpdate, Gate
  <2>2. ChangesOnly(book, new, at)
    BY <1>0, UpdateSizes DEF UpdateCandidates, Place, LiveKeys
  <2> HIDE DEF new, at
  <2> QED  BY <2>1, <2>2, MutateReplays
<1>3. ASSUME NEW k \in LiveKeys, OnDelete(k) PROVE Replays'
  <2> DEFINE new == Delete(book, k)
             at == Place(k)
  <2>1. delta = <<>> /\ MutateWithDelta(new, TRUE, at, FALSE)  BY <1>3 DEF OnDelete, Gate
  <2>2. ChangesOnly(book, new, at)  BY DeleteSizes DEF Place, LiveKeys
  <2> HIDE DEF new, at
  <2> QED  BY <2>1, <2>2, MutateReplays
<1>4. ASSUME NEW k \in LiveKeys, NEW prio \in Priorities, OnPriority(k, prio) PROVE Replays'
  <2> DEFINE new == Priority(book, k, prio)
             changed == PriorityChanges(book, k, prio)
  <2>1. delta = <<>> /\ MutateWithDelta(new, changed, {}, FALSE)  BY <1>4 DEF OnPriority, Gate
  <2>2. changed  BY <2>1 DEF MutateWithDelta
  <2>3. ChangesOnly(book, new, {})  BY <2>2, PrioritySizes DEF LiveKeys
  <2> HIDE DEF new, changed
  <2> QED  BY <2>1, <2>3, MutateReplays
<1>5. ASSUME NEW p \in Prices, NEW n \in Quantities, NEW aggr, OnTrade(p, n, aggr) PROVE Replays'
  <2> DEFINE new == Trade(book, p, n, aggr)
             changed == TradeChanges(book, p, n, aggr)
             at == {l \in Sides \X {p} : LevelSize(book, l[1], l[2]) > 0}
  <2>1. delta = <<>> /\ MutateWithDelta(new, changed, at, FALSE)  BY <1>5 DEF OnTrade, Gate
  <2>2. changed  BY <2>1 DEF MutateWithDelta
  <2>3. ChangesOnly(book, new, at)  BY <1>0, <2>2, TradeSizes
  <2> HIDE DEF new, changed, at
  <2> QED  BY <2>1, <2>3, MutateReplays
<1>6. ASSUME NEW s, NEW p, NEW n, NEW c, OnLevelSummary(s, p, n, c) PROVE Replays'
  <2> DEFINE new == LevelSummary(book, s, p, n, c)
             changed == LevelSummaryChanges(book, s, p, n, c)
             at == {<<s, p>>}
  <2>1. delta = <<>> /\ MutateWithDelta(new, changed, at, FALSE)  BY <1>6 DEF OnLevelSummary, Gate
  <2>2. new.lad = book.lad
    <3>1. book = [lad |-> book.lad, byId |-> book.byId, agg |-> book.agg, synth |-> book.synth]
      BY DEF BookOK, IsBook
    <3>2. PICK a : new = [book EXCEPT !.agg = a]  BY DEF LevelSummary
    <3> HIDE DEF new
    <3> QED  BY <3>1, <3>2
  <2> HIDE DEF new, changed, at
  <2>3. ChangesOnly(book, new, at)  BY <2>2 DEF ChangesOnly, LevelSize
  <2> QED  BY <2>1, <2>3, MutateReplays
<1>7. CASE Mutate  BY <1>1, <1>2, <1>3, <1>4, <1>5, <1>6, <1>7, SnapshotReplays DEF Mutate
<1>8. CASE Publish  BY <1>8, PublishReplays
<1>9. ASSUME UNCHANGED <<book, delta, log, reader, silent>> PROVE Replays'  BY <1>9, SameReplays
<1>10. CASE (\E seq \in 1 .. MaxSeq : OnSeq(seq)) \/ (\E e \in Epochs : OnReset(e)) \/ UNCHANGED managerVars
  BY <1>9, <1>10 DEF OnSeq, OnReset, managerVars, readerVars
<1>11. CASE ReadEpoch \/ ReadSeq \/ ReadBids \/ ReadAsks  BY <1>11, ReadReplays
<1> QED  BY <1>7, <1>8, <1>10, <1>11 DEF ManagerNext

\* OrderBookManager::buildSnapshot: a depth copy made field by field between
\* mutations, plus the deltas numbered after it, gives every level's size, unless
\* one of the two kinds of call came in between whose delta leaves levels out;
\* the copy must be as deep as the book (WholeDepth).
THEOREM SnapshotPlusDeltasTheorem == WholeDepth /\ ManagerSpec => []SnapshotPlusDeltas
<1> DEFINE Inv == BookOK(book) /\ Replays
<1> SUFFICES ASSUME WholeDepth PROVE ManagerSpec => []SnapshotPlusDeltas  OBVIOUS
<1>1. ManagerInit => Inv
  <2> SUFFICES ASSUME ManagerInit PROVE Inv  OBVIOUS
  <2>1. /\ book = EmptyBook /\ delta = <<>> /\ log = <<>> /\ reader = NoReader /\ silent = FALSE
    BY DEF ManagerInit
  <2>2. BookOK(book)  BY <2>1, EmptyOK
  <2>3. ReplayTypes
    <3>1. Len(log) = 0 /\ log = [i \in 1 .. 0 |-> log[i]]  BY <2>1
    <3>2. IsList(log)  BY <3>1 DEF IsList
    <3>3. reader = [pc |-> "done", epoch |-> 0, seq |-> 0, bids |-> <<>>, asks |-> <<>>]
      BY <2>1 DEF NoReader
    <3>4. /\ reader = [pc |-> reader.pc, epoch |-> reader.epoch, seq |-> reader.seq,
                       bids |-> reader.bids, asks |-> reader.asks]
          /\ reader.pc = "done" /\ reader.seq = 0
      BY <3>3
    <3>5. reader.seq \in 0 .. Len(log)  BY <3>1, <3>4
    <3> QED  BY <2>1, <3>2, <3>4, <3>5 DEF ReplayTypes
  <2>4. PendingTrue  BY <2>1 DEF PendingTrue
  <2>5. ASSUME NEW s \in Sides, NEW p \in Prices PROVE Tells(s, p)
    <3>1. Len(log) = 0 /\ reader.seq = 0 /\ CopyOf(s) = <<>>  BY <2>1 DEF NoReader, CopyOf
    <3>2. Silence(reader.seq + 1, s, p)  BY <3>1 DEF Silence
    <3>3. SizeIn(CopyOf(s), p) = 0  BY <3>1 DEF SizeIn
    <3>4. LevelSize(book, s, p) = 0
      <4>1. DOMAIN book.lad[s] = {}  BY <2>1 DEF EmptyBook
      <4> QED  BY <4>1 DEF LevelSize
    <3> QED  BY <3>2, <3>3, <3>4 DEF Tells
  <2> QED  BY <2>2, <2>3, <2>4, <2>5 DEF Replays, AllTold
<1>2. Inv /\ [ManagerNext]_managerVars => Inv'  BY ManagedStep, ReplaysStep
<1>3. Inv => SnapshotPlusDeltas
  <2> SUFFICES ASSUME Inv, reader.pc = "done", delta = <<>>, ~silent, NEW s \in Sides, NEW p \in Prices
               PROVE  Replayed(s, p) = LevelSize(book, s, p)
    BY DEF SnapshotPlusDeltas
  <2>1. Len(log) \in Nat /\ reader.seq \in 0 .. Len(log)  BY DEF Replays, ReplayTypes, IsList
  <2>2. Tells(s, p) /\ ~Pending(s, p) /\ Copied(s)  BY DEF Replays, AllTold, Pending, Copied
  <2> HIDE DEF Inv
  <2> QED  BY <2>1, <2>2, ReplayEnds DEF Tells
<1> HIDE DEF Inv
<1> QED  BY <1>1, <1>2, <1>3, PTL DEF ManagerSpec
=============================================================================
