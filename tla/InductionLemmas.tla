-------------------------- MODULE InductionLemmas --------------------------
(***************************************************************************)
(* Induction and recursion over the naturals in a form the provers can     *)
(* use: the property is a set, the recursion step a function.  With them,  *)
(* what SequencesExt!FlattenSeq and Functions!SumFunctionOnSet compute.    *)
(***************************************************************************)
EXTENDS Integers, SequencesExt, TLAPS, WellFoundedInduction, FiniteSetTheorems

\* Induction over the naturals, stated for a set.
LEMMA NatInduct ==
    ASSUME NEW P \in SUBSET Nat, 0 \in P, \A n \in Nat : n \in P => n + 1 \in P
    PROVE  P = Nat
<1> DEFINE R == OpToRel(<, Nat)
           T == Nat \ P
<1>1. IsWellFoundedOn(R, Nat)  BY NatLessThanWellFounded
<1>2. \A x, y \in Nat : y < x => <<y, x>> \in R  BY DEF OpToRel
<1> HIDE DEF R
<1> SUFFICES ASSUME T # {} PROVE FALSE  OBVIOUS
<1>3. PICK x \in T : \A y \in T : ~ (<<y, x>> \in R)
  <2>1. T \subseteq Nat  OBVIOUS
  <2> HIDE DEF T
  <2> QED  BY <1>1, <2>1, WFMin
<1>4. x \in Nat /\ x # 0 /\ x \notin P  BY <1>3
<1>5. x - 1 \in Nat /\ x - 1 < x /\ (x - 1) + 1 = x  BY <1>4
<1>6. <<x - 1, x>> \in R  BY <1>2, <1>4, <1>5
<1>7. x - 1 \notin T  BY <1>3, <1>6
<1>8. x - 1 \in P  BY <1>5, <1>7
<1> QED  BY <1>4, <1>5, <1>8

\* The same up to a bound.
LEMMA UpTo ==
    ASSUME NEW n \in Nat, NEW P, 0 \in P, \A k \in 0 .. n - 1 : k \in P => k + 1 \in P
    PROVE  0 .. n \subseteq P
<1> DEFINE T == {k \in Nat : k <= n => k \in P}
<1>1. T \in SUBSET Nat /\ 0 \in T  OBVIOUS
<1>2. ASSUME NEW k \in Nat, k \in T PROVE k + 1 \in T
  <2> SUFFICES ASSUME k + 1 <= n PROVE k + 1 \in P  OBVIOUS
  <2>1. k \in 0 .. n - 1 /\ k \in P  BY <1>2
  <2> QED  BY <2>1
<1>3. T = Nat
  <2> HIDE DEF T
  <2> QED  BY <1>1, <1>2, NatInduct
<1> QED  BY <1>3

\* step is given for each of n steps; f starts with base and takes them.
Steps(n, Q, step) == step \in [1 .. n -> [Q -> Q]]

Runs(n, Q, base, step) ==
    \E f \in [0 .. n -> Q] : f[0] = base /\ \A i \in 1 .. n : f[i] = step[i][f[i - 1]]

\* Functions defined by recursion over an interval exist.
LEMMA Recursion ==
    ASSUME NEW n \in Nat, NEW Q, NEW base \in Q, NEW step, Steps(n, Q, step)
    PROVE  Runs(n, Q, base, step)
<1> USE DEF Steps, Runs
<1> DEFINE Ok(f, k) == f[0] = base /\ \A i \in 1 .. k : f[i] = step[i][f[i - 1]]
           P == {k \in 0 .. n : \E f \in [0 .. k -> Q] : Ok(f, k)}
<1>1. 0 \in P
  <2> DEFINE f == [i \in 0 .. 0 |-> base]
  <2>1. f \in [0 .. 0 -> Q] /\ Ok(f, 0)  OBVIOUS
  <2> HIDE DEF f, Ok
  <2> QED  BY <2>1
<1>2. ASSUME NEW k \in 0 .. n - 1, k \in P PROVE k + 1 \in P
  <2>1. PICK f \in [0 .. k -> Q] : Ok(f, k)  BY <1>2
  <2> DEFINE v == step[k + 1][f[k]]
             g == [i \in 0 .. k + 1 |-> IF i = k + 1 THEN v ELSE f[i]]
  <2>2. v \in Q
    <3>1. k + 1 \in 1 .. n /\ f[k] \in Q  OBVIOUS
    <3>2. step[k + 1] \in [Q -> Q]  BY <3>1
    <3> QED  BY <3>1, <3>2
  <2>3. g \in [0 .. k + 1 -> Q]
    <3> HIDE DEF v
    <3> QED  BY <2>2
  <2>4. g[0] = base
    <3> HIDE DEF v
    <3> QED BY <2>1
  <2>5. ASSUME NEW i \in 1 .. k + 1 PROVE g[i] = step[i][g[i - 1]]
    <3>1. CASE i = k + 1
      <4>1. g[i] = v /\ g[i - 1] = f[k]
        <5> HIDE DEF v
        <5> QED BY <3>1
      <4> QED  BY <3>1, <4>1
    <3>2. CASE i # k + 1
      <4>1. i \in 1 .. k /\ i - 1 \in 0 .. k  BY <3>2
      <4>2. g[i] = f[i] /\ g[i - 1] = f[i - 1]
        <5> HIDE DEF v
        <5> QED BY <4>1
      <4>3. f[i] = step[i][f[i - 1]]  BY <2>1, <4>1
      <4> HIDE DEF g
      <4> QED  BY <4>2, <4>3
    <3> QED  BY <3>1, <3>2
  <2> HIDE DEF g
  <2>6. Ok(g, k + 1)  BY <2>4, <2>5
  <2>7. k + 1 \in 0 .. n  OBVIOUS
  <2> HIDE DEF Ok
  <2> QED  BY <2>3, <2>6, <2>7
<1>3. 0 .. n \subseteq P
  <2> HIDE DEF P
  <2> QED  BY <1>1, <1>2, UpTo
<1>4. n \in P  BY <1>3
<1> QED  BY <1>4


\* FlattenSeq concatenates one sequence after the other.
LEMMA FlattenSteps ==
    ASSUME NEW S, NEW seqs \in Seq(Seq(S)), seqs # <<>>
    PROVE  \E f \in [1 .. Len(seqs) -> Seq(S)] :
              /\ f[1] = seqs[1]
              /\ \A i \in 2 .. Len(seqs) : f[i] = f[i - 1] \o seqs[i]
              /\ FlattenSeq(seqs) = f[Len(seqs)]
<1> DEFINE L == Len(seqs)
           n == L - 1
           Q == Seq(S)
           base == seqs[1]
           step == [i \in 1 .. n |-> [q \in Q |-> q \o seqs[i + 1]]]
<1>1. /\ L \in Nat \ {0} /\ n \in Nat /\ \A i \in 1 .. L : seqs[i] \in Q
  OBVIOUS
<1>2. \A a, b \in Q : a \o b \in Q  OBVIOUS
<1>3. base \in Q /\ n + 1 = L  BY <1>1
<1> HIDE DEF Q, L, n
<1>4. step \in [1 .. n -> [Q -> Q]]
  <2>1. ASSUME NEW i \in 1 .. n PROVE [q \in Q |-> q \o seqs[i + 1]] \in [Q -> Q]
    <3>1. i + 1 \in 1 .. L  BY <1>1, <1>3
    <3>2. seqs[i + 1] \in Q  BY <1>1, <3>1
    <3> QED  BY <1>2, <3>2
  <2> QED  BY <2>1
<1>5. PICK F \in [0 .. n -> Q] : F[0] = base /\ \A i \in 1 .. n : F[i] = step[i][F[i - 1]]
  <2> HIDE DEF step, base
  <2>1. n \in Nat /\ base \in Q /\ Steps(n, Q, step)  BY <1>1, <1>3, <1>4 DEF Steps
  <2>2. Runs(n, Q, base, step)  BY <2>1, Recursion
  <2> QED  BY <2>2 DEF Runs
<1>6. \A i \in 1 .. n : F[i] = F[i - 1] \o seqs[i + 1]
  <2> TAKE i \in 1 .. n
  <2>1. i - 1 \in 0 .. n  BY <1>1
  <2>2. F[i - 1] \in Q /\ F[i] = step[i][F[i - 1]]  BY <1>5, <2>1
  <2> QED  BY <2>2
<1> HIDE DEF step
<1> DEFINE g == [i \in 1 .. L |-> F[i - 1]]
           Def(h) == [i \in 1 .. L |-> IF i = 1 THEN seqs[i] ELSE h[i - 1] \o seqs[i]]
           c == CHOOSE h : h = Def(h)
<1>7. g = Def(g)
  <2>1. ASSUME NEW i \in 1 .. L PROVE g[i] = IF i = 1 THEN seqs[i] ELSE g[i - 1] \o seqs[i]
    <3>1. CASE i = 1  BY <1>5, <3>1
    <3>2. CASE i # 1
      <4>1. i - 1 \in 1 .. n /\ i - 1 \in 1 .. L  BY <1>1, <1>3, <3>2
      <4>2. F[i - 1] = F[(i - 1) - 1] \o seqs[(i - 1) + 1]  BY <1>6, <4>1
      <4>3. g[i] = F[i - 1] /\ g[i - 1] = F[(i - 1) - 1] /\ (i - 1) + 1 = i  BY <4>1
      <4> HIDE DEF g
      <4> QED  BY <3>2, <4>2, <4>3
    <3> QED  BY <3>1, <3>2
  <2> QED  BY <2>1
<1>8. c = Def(c)
  <2> HIDE DEF Def, g
  <2> QED  BY <1>7
<1> HIDE DEF c
<1>9. /\ c[1] = seqs[1] /\ \A i \in 2 .. L : c[i] = c[i - 1] \o seqs[i]
      /\ c = [i \in 1 .. L |-> c[i]]
  <2>1. \A i \in 1 .. L : c[i] = IF i = 1 THEN seqs[i] ELSE c[i - 1] \o seqs[i]
    BY <1>8, Zenon
  <2>2. c = [i \in 1 .. L |-> c[i]]  BY <1>8, <2>1, Zenon
  <2>3. c[1] = seqs[1]  BY <1>1, <2>1
  <2>4. ASSUME NEW i \in 2 .. L PROVE c[i] = c[i - 1] \o seqs[i]
    <3>1. i \in 1 .. L /\ i # 1  OBVIOUS
    <3> QED  BY <2>1, <3>1, Zenon
  <2> QED  BY <2>2, <2>3, <2>4
<1> DEFINE P == {k \in 0 .. n : c[k + 1] = F[k]}
<1>10. 0 \in P  BY <1>1, <1>5, <1>9
<1>11. ASSUME NEW k \in 0 .. n - 1, k \in P PROVE k + 1 \in P
  <2>1. (k + 1) + 1 \in 2 .. L /\ k + 1 \in 1 .. n  BY <1>1, <1>3
  <2>2. c[(k + 1) + 1] = c[((k + 1) + 1) - 1] \o seqs[(k + 1) + 1]  BY <1>9, <2>1, Zenon
  <2>3. F[k + 1] = F[(k + 1) - 1] \o seqs[(k + 1) + 1]  BY <1>6, <2>1, Zenon
  <2>4. ((k + 1) + 1) - 1 = k + 1 /\ (k + 1) - 1 = k /\ k + 1 \in 0 .. n  BY <2>1, <1>1
  <2>5. c[k + 1] = F[k]  BY <1>11
  <2>6. c[(k + 1) + 1] = F[k + 1]  BY <2>2, <2>3, <2>4, <2>5, Zenon
  <2> QED  BY <2>4, <2>6
<1>12. 0 .. n \subseteq P
  <2> HIDE DEF P
  <2> QED  BY <1>1, <1>10, <1>11, UpTo
<1>13. ASSUME NEW i \in 1 .. L PROVE c[i] \in Q
  <2>1. i - 1 \in 0 .. n /\ (i - 1) + 1 = i  BY <1>1, <1>3
  <2>2. c[i] = F[i - 1]  BY <1>12, <2>1
  <2> QED  BY <2>1, <2>2
<1>14. c \in [1 .. L -> Q]  BY <1>9, <1>13
<1>15. FlattenSeq(seqs) = c[L]
  <2>1. Len(seqs) # 0  BY <1>1 DEF L
  <2> QED  BY <2>1 DEF FlattenSeq, c, L
<1> QED  BY <1>9, <1>14, <1>15 DEF L, Q

\* flat holds the entries of seqs and no other ...
SameEntries(flat, seqs) ==
    /\ \A j \in DOMAIN flat : \E i \in DOMAIN seqs : \E k \in DOMAIN seqs[i] : flat[j] = seqs[i][k]
    /\ \A i \in DOMAIN seqs : \A k \in DOMAIN seqs[i] : \E j \in DOMAIN flat : flat[j] = seqs[i][k]

Injects(q) == \A i, j \in DOMAIN q : q[i] = q[j] => i = j

\* ... and each once, if each occurs once in seqs.
EntriesDiffer(seqs) ==
    /\ \A i \in DOMAIN seqs : Injects(seqs[i])
    /\ \A i1, i2 \in DOMAIN seqs : \A k1 \in DOMAIN seqs[i1], k2 \in DOMAIN seqs[i2] :
          seqs[i1][k1] = seqs[i2][k2] => i1 = i2

\* The entries of a concatenation.
LEMMA ConcatEntries ==
    ASSUME NEW S, NEW a \in Seq(S), NEW b \in Seq(S)
    PROVE  /\ a \o b \in Seq(S) /\ DOMAIN (a \o b) = 1 .. Len(a) + Len(b)
           /\ DOMAIN a = 1 .. Len(a) /\ DOMAIN b = 1 .. Len(b) /\ Len(a) \in Nat /\ Len(b) \in Nat
           /\ \A i \in 1 .. Len(a) : (a \o b)[i] = a[i]
           /\ \A i \in 1 .. Len(b) : (a \o b)[Len(a) + i] = b[i]
           /\ \A i \in Len(a) + 1 .. Len(a) + Len(b) : i - Len(a) \in 1 .. Len(b) /\ (a \o b)[i] = b[i - Len(a)]
<1>1. /\ a \o b \in Seq(S) /\ DOMAIN (a \o b) = 1 .. Len(a) + Len(b)
      /\ DOMAIN a = 1 .. Len(a) /\ DOMAIN b = 1 .. Len(b) /\ Len(a) \in Nat /\ Len(b) \in Nat
  OBVIOUS
<1>2. \A i \in 1 .. Len(a) : (a \o b)[i] = a[i]  OBVIOUS
<1>3. \A i \in 1 .. Len(b) : (a \o b)[Len(a) + i] = b[i]  OBVIOUS
<1>4. \A i \in Len(a) + 1 .. Len(a) + Len(b) : i - Len(a) \in 1 .. Len(b) /\ (a \o b)[i] = b[i - Len(a)]
  OBVIOUS
<1> QED  BY <1>1, <1>2, <1>3, <1>4

\* c is a, then b.
Joined(a, b, c) ==
    /\ DOMAIN c = 1 .. Len(a) + Len(b) /\ DOMAIN a = 1 .. Len(a) /\ DOMAIN b = 1 .. Len(b)
    /\ Len(a) \in Nat /\ Len(b) \in Nat
    /\ \A i \in 1 .. Len(a) : c[i] = a[i]
    /\ \A i \in 1 .. Len(b) : c[Len(a) + i] = b[i]
    /\ \A i \in Len(a) + 1 .. Len(a) + Len(b) : i - Len(a) \in 1 .. Len(b) /\ c[i] = b[i - Len(a)]

\* What FlattenSeq returns.
LEMMA FlattenFacts ==
    ASSUME NEW S, NEW seqs \in Seq(Seq(S))
    PROVE  /\ FlattenSeq(seqs) \in Seq(S) /\ SameEntries(FlattenSeq(seqs), seqs)
           /\ EntriesDiffer(seqs) => Injects(FlattenSeq(seqs))
<1>1. CASE seqs = <<>>
  <2>1. FlattenSeq(seqs) = <<>>  BY <1>1 DEF FlattenSeq
  <2>2. <<>> \in Seq(S) /\ DOMAIN <<>> = {}  OBVIOUS
  <2>3. SameEntries(<<>>, <<>>) /\ Injects(<<>>)  BY <2>2 DEF SameEntries, Injects
  <2> QED  BY <1>1, <2>1, <2>2, <2>3
<1>2. CASE seqs # <<>>
  <2> DEFINE L == Len(seqs)
             Q == Seq(S)
             From(q, k) == \A j \in DOMAIN q : \E i \in 1 .. k : \E m \in DOMAIN seqs[i] : q[j] = seqs[i][m]
             Onto(q, k) == \A i \in 1 .. k : \A m \in DOMAIN seqs[i] : \E j \in DOMAIN q : q[j] = seqs[i][m]
  <2>1. L \in Nat \ {0} /\ DOMAIN seqs = 1 .. L /\ \A i \in 1 .. L : seqs[i] \in Q
    BY <1>2
  <2>2. PICK f \in [1 .. L -> Q] : /\ f[1] = seqs[1]
                                   /\ \A i \in 2 .. L : f[i] = f[i - 1] \o seqs[i]
                                   /\ FlattenSeq(seqs) = f[L]
    BY <1>2, FlattenSteps
  <2> DEFINE P == {k \in 0 .. L - 1 : /\ From(f[k + 1], k + 1) /\ Onto(f[k + 1], k + 1)
                                      /\ EntriesDiffer(seqs) => Injects(f[k + 1])}
  <2> HIDE DEF L, Q
  <2>3. 0 \in P
    <3>1. From(f[1], 1) /\ Onto(f[1], 1)  BY <2>2
    <3>2. EntriesDiffer(seqs) => Injects(f[1])  BY <2>1, <2>2 DEF EntriesDiffer
    <3> HIDE DEF From, Onto
    <3> QED  BY <2>1, <3>1, <3>2
  <2>4. ASSUME NEW k \in 0 .. (L - 1) - 1, k \in P PROVE k + 1 \in P
    <3> DEFINE a == f[k + 1]
               b == seqs[k + 2]
               c == f[k + 2]
    <3>1. k \in Nat /\ k + 2 \in 2 .. L /\ k + 1 \in 1 .. L /\ k + 2 \in 1 .. L /\ (k + 2) - 1 = k + 1 /\ (k + 1) + 1 = k + 2
          /\ k + 1 \in 0 .. L - 1
      BY <2>1
    <3>2. a \in Q /\ b \in Q /\ c \in Q  BY <2>1, <3>1
    <3>3. c = a \o b
      <4>1. f[k + 2] = f[(k + 2) - 1] \o seqs[k + 2]  BY <2>2, <3>1
      <4> QED  BY <3>1, <4>1
    <3>4. From(a, k + 1) /\ Onto(a, k + 1) /\ (EntriesDiffer(seqs) => Injects(a))  BY <2>4
    <3> DEFINE x == Len(a)
               y == Len(b)
    <3>5. /\ DOMAIN c = 1 .. x + y /\ DOMAIN a = 1 .. x /\ DOMAIN b = 1 .. y /\ x \in Nat /\ y \in Nat
          /\ \A i \in 1 .. x : c[i] = a[i]
          /\ \A i \in 1 .. y : c[x + i] = b[i]
          /\ \A i \in x + 1 .. x + y : i - x \in 1 .. y /\ c[i] = b[i - x]
      <4>1. a \in Seq(S) /\ b \in Seq(S)  BY <3>2 DEF Q
      <4> HIDE DEF a, b, c
      <4>2. Joined(a, b, a \o b)  BY <4>1, ConcatEntries DEF Joined
      <4>3. Joined(a, b, c)  BY <3>3, <4>2
      <4> QED  BY <4>3 DEF Joined
    <3>6. DOMAIN seqs[k + 2] = 1 .. y /\ \A i \in 1 .. y : seqs[k + 2][i] = b[i]  BY <3>5
    <3> HIDE DEF x, y, a, b, c
    <3>7. From(c, k + 2)
      <4> SUFFICES ASSUME NEW j \in 1 .. x + y
                   PROVE  \E i \in 1 .. k + 2 : \E m \in DOMAIN seqs[i] : c[j] = seqs[i][m]
        BY <3>5
      <4>1. CASE j \in 1 .. x
        <5>1. PICK i \in 1 .. k + 1 : \E m \in DOMAIN seqs[i] : a[j] = seqs[i][m]  BY <3>4, <3>5, <4>1
        <5>2. i \in 1 .. k + 2  BY <3>1
        <5> QED  BY <3>5, <4>1, <5>1, <5>2
      <4>2. CASE j \in x + 1 .. x + y
        <5>1. j - x \in 1 .. y /\ c[j] = b[j - x]  BY <3>5, <4>2
        <5>2. k + 2 \in 1 .. k + 2  BY <3>1
        <5> QED  BY <3>6, <5>1, <5>2
      <4> QED  BY <3>5, <4>1, <4>2
    <3>8. Onto(c, k + 2)
      <4> SUFFICES ASSUME NEW i \in 1 .. k + 2, NEW m \in DOMAIN seqs[i]
                   PROVE  \E j \in DOMAIN c : c[j] = seqs[i][m]
        OBVIOUS
      <4>1. CASE i \in 1 .. k + 1
        <5>1. PICK j \in DOMAIN a : a[j] = seqs[i][m]  BY <3>4, <4>1
        <5>2. j \in DOMAIN c /\ c[j] = a[j]  BY <3>5, <5>1
        <5> QED  BY <5>1, <5>2
      <4>2. CASE i = k + 2
        <5>1. m \in 1 .. y /\ seqs[i][m] = b[m]  BY <3>6, <4>2
        <5>2. x + m \in DOMAIN c /\ c[x + m] = b[m]  BY <3>5, <5>1
        <5> QED  BY <5>1, <5>2
      <4> QED  BY <3>1, <4>1, <4>2
    <3>9. EntriesDiffer(seqs) => Injects(c)
      <4> SUFFICES ASSUME EntriesDiffer(seqs), NEW i \in 1 .. x + y, NEW j \in 1 .. x + y, c[i] = c[j]
                   PROVE  i = j
        BY <3>5 DEF Injects
      <4>1. Injects(a) /\ Injects(b)  BY <2>1, <3>1, <3>4 DEF EntriesDiffer, b
      <4>2. \A p \in 1 .. x, q \in 1 .. y : a[p] # b[q]
        <5> SUFFICES ASSUME NEW p \in 1 .. x, NEW q \in 1 .. y, a[p] = b[q] PROVE FALSE  OBVIOUS
        <5>1. PICK n \in 1 .. k + 1 : \E m \in DOMAIN seqs[n] : a[p] = seqs[n][m]  BY <3>4, <3>5
        <5>2. PICK m \in DOMAIN seqs[n] : a[p] = seqs[n][m]  BY <5>1
        <5>3. n \in DOMAIN seqs /\ k + 2 \in DOMAIN seqs /\ n # k + 2  BY <2>1, <3>1
        <5>4. q \in DOMAIN seqs[k + 2] /\ seqs[k + 2][q] = seqs[n][m]  BY <3>6, <5>2
        <5> QED  BY <5>2, <5>3, <5>4 DEF EntriesDiffer
      <4>3. CASE i \in 1 .. x /\ j \in 1 .. x  BY <3>5, <4>1, <4>3 DEF Injects
      <4>4. CASE i \in 1 .. x /\ j \in x + 1 .. x + y  BY <3>5, <4>2, <4>4
      <4>5. CASE i \in x + 1 .. x + y /\ j \in 1 .. x  BY <3>5, <4>2, <4>5
      <4>6. CASE i \in x + 1 .. x + y /\ j \in x + 1 .. x + y
        <5>1. i - x \in 1 .. y /\ j - x \in 1 .. y /\ b[i - x] = b[j - x]  BY <3>5, <4>6
        <5>2. i - x = j - x  BY <3>5, <4>1, <5>1 DEF Injects
        <5> QED  BY <3>5, <5>2
      <4> QED  BY <3>5, <4>3, <4>4, <4>5, <4>6
    <3> HIDE DEF From, Onto
    <3>10. f[(k + 1) + 1] = c  BY <3>1 DEF c
    <3> QED  BY <3>1, <3>7, <3>8, <3>9, <3>10
  <2>5. 0 .. L - 1 \subseteq P
    <3>1. L - 1 \in Nat  BY <2>1
    <3> DEFINE n == L - 1
    <3>2. n \in Nat /\ 0 \in P /\ \A k \in 0 .. n - 1 : k \in P => k + 1 \in P  BY <2>3, <2>4, <3>1
    <3> HIDE DEF P, n
    <3>3. 0 .. n \subseteq P  BY <3>2, UpTo
    <3> QED  BY <3>3 DEF n
  <2>6. L - 1 \in P /\ (L - 1) + 1 = L
    <3>1. L - 1 \in 0 .. L - 1 /\ (L - 1) + 1 = L  BY <2>1
    <3> HIDE DEF P
    <3> QED  BY <2>5, <3>1
  <2>7. From(f[L], L) /\ Onto(f[L], L) /\ (EntriesDiffer(seqs) => Injects(f[L]))  BY <2>6
  <2>8. f[L] \in Seq(S)  BY <2>1 DEF Q
  <2> DEFINE z == f[L]
  <2>9. FlattenSeq(seqs) = z  BY <2>2
  <2>10. SameEntries(z, seqs)
    <3>1. From(z, L) /\ Onto(z, L)  BY <2>7
    <3> HIDE DEF z
    <3> QED  BY <2>1, <3>1 DEF SameEntries
  <2> HIDE DEF From, Onto
  <2> QED  BY <2>7, <2>8, <2>9, <2>10
<1> QED  BY <1>1, <1>2

-----------------------------------------------------------------------------
(* Sums over finite sets                                                   *)

\* The member that a sum takes first, and the sum with it.
PickOf(S) == CHOOSE x \in S : TRUE

AddUp(f, h, S) == IF S = {} THEN 0 ELSE f[PickOf(S)] + h[S \ {PickOf(S)}]

\* h holds the sums of f over the subsets of S.
AddsUp(f, S, h) == h = [R \in SUBSET S |-> AddUp(f, h, R)]

\* A set without one of its members.
LEMMA OneLess ==
    ASSUME NEW S, IsFiniteSet(S), NEW x \in S
    PROVE  /\ IsFiniteSet(S \ {x}) /\ Cardinality(S) \in Nat /\ Cardinality(S) > 0
           /\ Cardinality(S \ {x}) = Cardinality(S) - 1 /\ Cardinality(S \ {x}) \in Nat
<1>1. IsFiniteSet(S \ {x}) /\ Cardinality(S \ {x}) = Cardinality(S) - 1  BY FS_RemoveElement
<1>2. Cardinality(S) \in Nat /\ Cardinality(S \ {x}) \in Nat  BY <1>1, FS_CardinalityType
<1> QED  BY <1>1, <1>2

\* Induction over the subsets of a finite set, stated for a set of them.
LEMMA SetInduct ==
    ASSUME NEW S, IsFiniteSet(S), NEW P, {} \in P,
           \A R \in SUBSET S : R # {} /\ (\A x \in R : R \ {x} \in P) => R \in P
    PROVE  S \in P
<1> DEFINE N == {n \in Nat : \A R \in SUBSET S : Cardinality(R) = n => R \in P}
<1>0. \A R \in SUBSET S : IsFiniteSet(R)  BY FS_Subset
<1>1. 0 \in N
  <2>1. \A R \in SUBSET S : Cardinality(R) = 0 => R = {}  BY <1>0, FS_EmptySet
  <2> QED  BY <2>1
<1>2. ASSUME NEW n \in Nat, n \in N PROVE n + 1 \in N
  <2> SUFFICES ASSUME NEW R \in SUBSET S, Cardinality(R) = n + 1 PROVE R \in P  OBVIOUS
  <2>1. IsFiniteSet(R) /\ R # {}  BY <1>0, FS_EmptySet
  <2>2. ASSUME NEW x \in R PROVE R \ {x} \in P
    <3>1. R \ {x} \in SUBSET S /\ Cardinality(R \ {x}) = n  BY <2>1, OneLess
    <3> QED  BY <1>2, <3>1
  <2> QED  BY <2>1, <2>2
<1>3. N = Nat
  <2>1. N \in SUBSET Nat  OBVIOUS
  <2> HIDE DEF N
  <2> QED  BY <1>1, <1>2, <2>1, NatInduct
<1>4. Cardinality(S) \in N  BY <1>3, FS_CardinalityType
<1>5. S \in SUBSET S  OBVIOUS
<1> QED  BY <1>4, <1>5

\* Recursion over the subsets of a finite set.
LEMMA SumsOverSets == ASSUME NEW S, IsFiniteSet(S), NEW f PROVE \E h : AddsUp(f, S, h)
<1> DEFINE D(n) == {R \in SUBSET S : Cardinality(R) <= n}
           Def(h, n) == [R \in D(n) |-> AddUp(f, h, R)]
           P == {n \in Nat : \E h : h = Def(h, n)}
<1>0. ASSUME NEW R \in SUBSET S PROVE IsFiniteSet(R) /\ Cardinality(R) \in Nat /\ Cardinality(R) <= Cardinality(S)
  <2>1. IsFiniteSet(R)  BY FS_Subset
  <2>2. Cardinality(R) \in Nat  BY <2>1, FS_CardinalityType
  <2> QED  BY <2>1, <2>2, FS_Subset
<1>1. 0 \in P
  <2> DEFINE h == [R \in D(0) |-> 0]
  <2>1. ASSUME NEW R \in D(0) PROVE R = {}
    <3>1. Cardinality(R) = 0 /\ IsFiniteSet(R)  BY <1>0
    <3> QED  BY <3>1, FS_EmptySet
  <2>2. \A R \in D(0) : AddUp(f, h, R) = 0  BY <2>1 DEF AddUp
  <2> HIDE DEF D
  <2>3. h = Def(h, 0)  BY <2>2
  <2> QED  BY <2>3
<1>2. ASSUME NEW n \in Nat, n \in P PROVE n + 1 \in P
  <2>1. PICK h : h = Def(h, n)  BY <1>2
  <2> DEFINE g == [R \in D(n + 1) |-> AddUp(f, h, R)]
  <2>2. ASSUME NEW R \in D(n + 1) PROVE AddUp(f, h, R) = AddUp(f, g, R)
    <3>1. CASE R = {}  BY <3>1 DEF AddUp
    <3>2. CASE R # {}
      <4> DEFINE x == PickOf(R)
                 T == R \ {x}
      <4>1. x \in R  BY <3>2 DEF PickOf
      <4>2. R \in SUBSET S /\ Cardinality(R) <= n + 1 /\ IsFiniteSet(R)  BY <1>0
      <4>3. Cardinality(T) = Cardinality(R) - 1 /\ Cardinality(R) \in Nat /\ Cardinality(T) \in Nat
        BY <4>1, <4>2, OneLess
      <4>4. T \in SUBSET S  BY <4>2
      <4>5. T \in D(n) /\ T \in D(n + 1)  BY <4>2, <4>3, <4>4
      <4> HIDE DEF D, T
      <4>6. h[T] = AddUp(f, h, T)  BY <2>1, <4>5
      <4>7. g[T] = AddUp(f, h, T)  BY <4>5
      <4> QED  BY <3>2, <4>6, <4>7 DEF AddUp, T, x
    <3> QED  BY <3>1, <3>2
  <2> HIDE DEF D
  <2>3. g = Def(g, n + 1)
    <3> DEFINE d == Def(g, n + 1)
    <3>1. \A R \in D(n + 1) : g[R] = d[R]  BY <2>2
    <3> QED  BY <3>1
  <2>4. \E d : d = Def(d, n + 1)
    <3> HIDE DEF Def, g
    <3> QED  BY <2>3
  <2> HIDE DEF Def
  <2> QED  BY <2>4
<1>3. P = Nat
  <2>1. P \in SUBSET Nat  OBVIOUS
  <2> HIDE DEF P
  <2> QED  BY <1>1, <1>2, <2>1, NatInduct
<1> DEFINE n == Cardinality(S)
<1>4. n \in P  BY <1>3, FS_CardinalityType
<1>5. D(n) = SUBSET S  BY <1>0
<1> HIDE DEF D, n
<1>6. PICK h : h = Def(h, n)  BY <1>4
<1> QED  BY <1>5, <1>6 DEF AddsUp

\* SumFunctionOnSet takes its members one by one.
LEMMA SumIs ==
    ASSUME NEW S, IsFiniteSet(S), NEW f
    PROVE  \E h : AddsUp(f, S, h) /\ SumFunctionOnSet(f, S) = h[S]
<1> DEFINE c == CHOOSE h : AddsUp(f, S, h)
<1>1. AddsUp(f, S, c)  BY SumsOverSets
<1>2. SumFunctionOnSet(f, S) = c[S]
  BY DEF SumFunctionOnSet, FoldFunctionOnSet, MapThenFoldSet, AddsUp, AddUp, PickOf
<1> QED  BY <1>1, <1>2

\* The same values give the same sum.
LEMMA SumSame ==
    ASSUME NEW S, IsFiniteSet(S), NEW f, NEW g, \A x \in S : f[x] = g[x],
           NEW T, IsFiniteSet(T), S \subseteq T, NEW h, AddsUp(g, T, h)
    PROVE  SumFunctionOnSet(f, S) = h[S]
<1>1. PICK k : AddsUp(f, S, k) /\ SumFunctionOnSet(f, S) = k[S]  BY SumIs
<1> DEFINE P == {R \in SUBSET S : h[R] = k[R]}
<1>2. \A R \in SUBSET S : k[R] = AddUp(f, k, R)
  <2> DEFINE F(R) == AddUp(f, k, R)
  <2>1. k = [R \in SUBSET S |-> F(R)]  BY <1>1 DEF AddsUp
  <2> HIDE DEF F
  <2>2. \A R \in SUBSET S : k[R] = F(R)  BY <2>1
  <2> QED  BY <2>2 DEF F
<1>3. \A R \in SUBSET T : h[R] = AddUp(g, h, R)
  <2> DEFINE F(R) == AddUp(g, h, R)
  <2>1. h = [R \in SUBSET T |-> F(R)]  BY DEF AddsUp
  <2> HIDE DEF F
  <2>2. \A R \in SUBSET T : h[R] = F(R)  BY <2>1
  <2> QED  BY <2>2 DEF F
<1>4. {} \in P  BY <1>2, <1>3 DEF AddUp
<1>5. ASSUME NEW R \in SUBSET S, R # {}, \A x \in R : R \ {x} \in P PROVE R \in P
  <2> DEFINE x == PickOf(R)
             Q == R \ {x}
  <2>3. x \in R  BY <1>5 DEF PickOf
  <2>6. h[Q] = k[Q]  BY <1>5, <2>3
  <2>7. f[x] = g[x]  BY <2>3
  <2>8. h[R] = g[x] + h[Q]
    <3>1. R \in SUBSET T  OBVIOUS
    <3>2. h[R] = AddUp(g, h, R)  BY <1>3, <3>1
    <3> QED  BY <1>5, <3>2 DEF AddUp
  <2>9. k[R] = f[x] + k[Q]
    <3>1. k[R] = AddUp(f, k, R)  BY <1>2
    <3> QED  BY <1>5, <3>1 DEF AddUp
  <2> HIDE DEF x, Q
  <2> QED  BY <2>6, <2>7, <2>8, <2>9
<1>6. S \in P
  <2> HIDE DEF P
  <2> QED  BY <1>4, <1>5, SetInduct
<1> QED  BY <1>1, <1>6

\* Functions that agree on a set have the same sum over it.
LEMMA SumAgree ==
    ASSUME NEW S, IsFiniteSet(S), NEW f, NEW g, \A x \in S : f[x] = g[x]
    PROVE  SumFunctionOnSet(f, S) = SumFunctionOnSet(g, S)
<1>1. PICK h : AddsUp(g, S, h) /\ SumFunctionOnSet(g, S) = h[S]  BY SumIs
<1>2. SumFunctionOnSet(f, S) = h[S]  BY <1>1, SumSame
<1> QED  BY <1>1, <1>2

\* A sum over nothing, and one that takes its first member.
LEMMA SumFirst ==
    ASSUME NEW S, IsFiniteSet(S), NEW f
    PROVE  /\ S = {} => SumFunctionOnSet(f, S) = 0
           /\ S # {} => /\ PickOf(S) \in S
                        /\ SumFunctionOnSet(f, S)
                              = f[PickOf(S)] + SumFunctionOnSet(f, S \ {PickOf(S)})
<1>1. PICK h : AddsUp(f, S, h) /\ SumFunctionOnSet(f, S) = h[S]  BY SumIs
<1>2. h[S] = AddUp(f, h, S)
  <2> DEFINE F(R) == AddUp(f, h, R)
  <2>1. h = [R \in SUBSET S |-> F(R)]  BY <1>1 DEF AddsUp
  <2> HIDE DEF F
  <2>2. \A R \in SUBSET S : h[R] = F(R)  BY <2>1
  <2>3. S \in SUBSET S  OBVIOUS
  <2>4. h[S] = F(S)  BY <2>2, <2>3
  <2> QED  BY <2>4 DEF F
<1>3. ASSUME S # {}
      PROVE  PickOf(S) \in S /\ SumFunctionOnSet(f, S) = f[PickOf(S)] + SumFunctionOnSet(f, S \ {PickOf(S)})
  <2> DEFINE x == PickOf(S)
             R == S \ {x}
  <2>1. x \in S  BY <1>3 DEF PickOf
  <2>2. IsFiniteSet(R)  BY <2>1, OneLess
  <2>3. R \subseteq S  OBVIOUS
  <2>4. h[S] = f[x] + h[R]  BY <1>2, <1>3 DEF AddUp
  <2> HIDE DEF x, R
  <2>5. SumFunctionOnSet(f, R) = h[R]  BY <1>1, <2>2, <2>3, SumSame
  <2> QED  BY <1>1, <2>1, <2>4, <2>5 DEF x, R
<1> QED  BY <1>1, <1>2, <1>3 DEF AddUp

\* A sum of naturals is one.
LEMMA SumNatural ==
    ASSUME NEW S, IsFiniteSet(S), NEW f, \A x \in S : f[x] \in Nat
    PROVE  SumFunctionOnSet(f, S) \in Nat
<1> DEFINE Sum(R) == SumFunctionOnSet(f, R)
           P == {R \in SUBSET S : Sum(R) \in Nat}
<1>0. \A R \in SUBSET S : IsFiniteSet(R)  BY FS_Subset
<1>1. {} \in P
  <2>1. Sum({}) = 0  BY <1>0, SumFirst
  <2> QED  BY <2>1
<1>2. ASSUME NEW R \in SUBSET S, R # {}, \A x \in R : R \ {x} \in P PROVE R \in P
  <2> DEFINE p == PickOf(R)
  <2>1. p \in R /\ Sum(R) = f[p] + Sum(R \ {p})  BY <1>0, <1>2, SumFirst
  <2>2. Sum(R \ {p}) \in Nat /\ f[p] \in Nat  BY <1>2, <2>1
  <2> HIDE DEF p, Sum
  <2> QED  BY <2>1, <2>2
<1>3. S \in P
  <2> HIDE DEF P
  <2> QED  BY <1>1, <1>2, SetInduct
<1> QED  BY <1>3

\* A sum of naturals, from which any member can be taken.
Takes(f, S) ==
    /\ SumFunctionOnSet(f, S) \in Nat
    /\ \A x \in S : SumFunctionOnSet(f, S) = f[x] + SumFunctionOnSet(f, S \ {x})

\* Any member of a finite set can be taken first.
LEMMA SumTakes ==
    ASSUME NEW S, IsFiniteSet(S), NEW f, \A x \in S : f[x] \in Nat
    PROVE  Takes(f, S)
<1> DEFINE Sum(R) == SumFunctionOnSet(f, R)
           P == {R \in SUBSET S : Takes(f, R)}
<1>0. \A R \in SUBSET S : IsFiniteSet(R)  BY FS_Subset
<1>1. {} \in P
  <2>1. Sum({}) = 0  BY <1>0, SumFirst
  <2> QED  BY <2>1 DEF Takes
<1>2. ASSUME NEW R \in SUBSET S, R # {}, \A x \in R : R \ {x} \in P PROVE R \in P
  <2> DEFINE p == PickOf(R)
  <2>1. p \in R /\ Sum(R) = f[p] + Sum(R \ {p})  BY <1>0, <1>2, SumFirst
  <2>2. \A x \in R : Takes(f, R \ {x}) /\ f[x] \in Nat /\ Sum(R \ {x}) \in Nat  BY <1>2 DEF Takes
  <2> HIDE DEF p
  <2>3. ASSUME NEW x \in R, x # p PROVE Sum(R) = f[x] + Sum(R \ {x})
    <3> DEFINE Q == (R \ {p}) \ {x}
    <3>1. Q = (R \ {x}) \ {p} /\ x \in R \ {p} /\ p \in R \ {x}  BY <2>1, <2>3
    <3>2. Sum(R \ {p}) = f[x] + Sum(Q)  BY <2>1, <2>2, <3>1 DEF Takes
    <3>3. Sum(R \ {x}) = f[p] + Sum((R \ {x}) \ {p})  BY <2>2, <3>1 DEF Takes
    <3>4. Sum(Q) \in Nat
      <4>1. IsFiniteSet(Q) /\ \A y \in Q : f[y] \in Nat  BY <1>0
      <4> HIDE DEF Q
      <4> QED  BY <4>1, SumNatural
    <3> HIDE DEF Q, Sum
    <3>5. f[x] \in Nat /\ f[p] \in Nat /\ Sum(R \ {x}) = f[p] + Sum(Q)  BY <2>1, <2>2, <3>1, <3>3
    <3> QED  BY <2>1, <3>2, <3>4, <3>5
  <2>4. Sum(R) \in Nat  BY <2>1, <2>2
  <2> QED  BY <2>1, <2>3, <2>4 DEF Takes
<1>3. S \in P
  <2> HIDE DEF P
  <2> QED  BY <1>1, <1>2, SetInduct
<1> QED  BY <1>3

\* j finds for every member of K that counts one of R, its own, with at least its value.
Covers(j, f, K, g, R) ==
    /\ \A k \in K : f[k] # 0 => j[k] \in R /\ f[k] <= g[j[k]]
    /\ \A k, l \in K : f[k] # 0 /\ f[l] # 0 /\ j[k] = j[l] => k = l

\* Then the sum over K is at most the one over R.
LEMMA SumCovered ==
    ASSUME NEW K, IsFiniteSet(K), NEW f, \A k \in K : f[k] \in Nat,
           NEW R, IsFiniteSet(R), NEW g, \A r \in R : g[r] \in Nat,
           NEW j, Covers(j, f, K, g, R)
    PROVE  SumFunctionOnSet(f, K) <= SumFunctionOnSet(g, R)
<1> DEFINE F(X) == SumFunctionOnSet(f, X)
           G(X) == SumFunctionOnSet(g, X)
           P == {L \in SUBSET K : \A Q \in SUBSET R : Covers(j, f, L, g, Q) => F(L) <= G(Q)}
<1>0. /\ \A L \in SUBSET K : IsFiniteSet(L) /\ Takes(f, L)
      /\ \A Q \in SUBSET R : IsFiniteSet(Q) /\ Takes(g, Q)
  <2>1. ASSUME NEW L \in SUBSET K PROVE IsFiniteSet(L) /\ Takes(f, L)
    <3>1. IsFiniteSet(L) /\ \A k \in L : f[k] \in Nat  BY FS_Subset
    <3> QED  BY <3>1, SumTakes
  <2>2. ASSUME NEW Q \in SUBSET R PROVE IsFiniteSet(Q) /\ Takes(g, Q)
    <3>1. IsFiniteSet(Q) /\ \A r \in Q : g[r] \in Nat  BY FS_Subset
    <3> QED  BY <3>1, SumTakes
  <2> QED  BY <2>1, <2>2
<1>1. {} \in P
  <2>1. F({}) = 0  BY <1>0, SumFirst
  <2>2. \A Q \in SUBSET R : G(Q) \in Nat  BY <1>0 DEF Takes
  <2> HIDE DEF F, G
  <2> QED  BY <2>1, <2>2
<1>2. ASSUME NEW L \in SUBSET K, L # {}, \A k \in L : L \ {k} \in P PROVE L \in P
  <2> SUFFICES ASSUME NEW Q \in SUBSET R, Covers(j, f, L, g, Q) PROVE F(L) <= G(Q)  OBVIOUS
  <2>1. PICK k : k \in L  BY <1>2
  <2>2. f[k] \in Nat /\ F(L) = f[k] + F(L \ {k}) /\ F(L \ {k}) \in Nat /\ G(Q) \in Nat
    <3>1. Takes(f, L) /\ Takes(f, L \ {k}) /\ Takes(g, Q)  BY <1>0
    <3> QED  BY <2>1, <3>1 DEF Takes
  <2>3. CASE f[k] = 0
    <3>1. Covers(j, f, L \ {k}, g, Q)  BY DEF Covers
    <3>2. F(L \ {k}) <= G(Q)  BY <1>2, <2>1, <3>1
    <3> HIDE DEF F, G
    <3> QED  BY <2>2, <2>3, <3>2
  <2>4. CASE f[k] # 0
    <3> DEFINE q == j[k]
    <3>1. q \in Q /\ f[k] <= g[q] /\ g[q] \in Nat  BY <2>1, <2>4 DEF Covers
    <3>2. Covers(j, f, L \ {k}, g, Q \ {q})  BY <2>1, <2>4 DEF Covers
    <3>3. Q \ {q} \in SUBSET R  OBVIOUS
    <3>4. F(L \ {k}) <= G(Q \ {q})  BY <1>2, <2>1, <3>2, <3>3
    <3>5. G(Q) = g[q] + G(Q \ {q}) /\ G(Q \ {q}) \in Nat  BY <1>0, <3>1, <3>3 DEF Takes
    <3> HIDE DEF F, G, q
    <3> QED  BY <2>2, <3>1, <3>4, <3>5
  <2> QED  BY <2>3, <2>4
<1>3. K \in P
  <2> HIDE DEF P
  <2> QED  BY <1>1, <1>2, SetInduct
<1>4. R \in SUBSET R  OBVIOUS
<1> QED  BY <1>3, <1>4

\* Sums add up.
LEMMA SumPlus ==
    ASSUME NEW S, IsFiniteSet(S), NEW f, NEW g, NEW h,
           \A x \in S : f[x] \in Nat /\ g[x] \in Nat /\ h[x] = f[x] + g[x]
    PROVE  SumFunctionOnSet(h, S) = SumFunctionOnSet(f, S) + SumFunctionOnSet(g, S)
<1> DEFINE F(R) == SumFunctionOnSet(f, R)
           G(R) == SumFunctionOnSet(g, R)
           H(R) == SumFunctionOnSet(h, R)
           P == {R \in SUBSET S : H(R) = F(R) + G(R)}
<1>0. \A R \in SUBSET S : Takes(f, R) /\ Takes(g, R) /\ Takes(h, R)
  <2> SUFFICES ASSUME NEW R \in SUBSET S PROVE Takes(f, R) /\ Takes(g, R) /\ Takes(h, R)  OBVIOUS
  <2>1. IsFiniteSet(R) /\ \A x \in R : f[x] \in Nat /\ g[x] \in Nat /\ h[x] \in Nat  BY FS_Subset
  <2> QED  BY <2>1, SumTakes
<1>1. {} \in P
  <2>1. IsFiniteSet({})  BY FS_EmptySet
  <2>2. F({}) = 0 /\ G({}) = 0 /\ H({}) = 0  BY <2>1, SumFirst
  <2> HIDE DEF F, G, H
  <2> QED  BY <2>2
<1>2. ASSUME NEW R \in SUBSET S, R # {}, \A x \in R : R \ {x} \in P PROVE R \in P
  <2>1. PICK x : x \in R  BY <1>2
  <2>2. Takes(f, R) /\ Takes(g, R) /\ Takes(h, R) /\ Takes(f, R \ {x}) /\ Takes(g, R \ {x})  BY <1>0
  <2>3. /\ F(R) = f[x] + F(R \ {x}) /\ G(R) = g[x] + G(R \ {x}) /\ H(R) = h[x] + H(R \ {x})
        /\ F(R \ {x}) \in Nat /\ G(R \ {x}) \in Nat
    BY <2>1, <2>2 DEF Takes
  <2>4. H(R \ {x}) = F(R \ {x}) + G(R \ {x})  BY <1>2, <2>1
  <2> HIDE DEF F, G, H
  <2>5. f[x] \in Nat /\ g[x] \in Nat /\ h[x] = f[x] + g[x]  BY <2>1
  <2> QED  BY <2>3, <2>4, <2>5
<1>3. S \in P
  <2> HIDE DEF P
  <2> QED  BY <1>1, <1>2, SetInduct
<1> QED  BY <1>3

\* A sum of naturals is 0 only if each of them is.
LEMMA SumZero ==
    ASSUME NEW S, IsFiniteSet(S), NEW f, \A x \in S : f[x] \in Nat, SumFunctionOnSet(f, S) <= 0
    PROVE  \A x \in S : f[x] = 0
<1> TAKE x \in S
<1> DEFINE F(R) == SumFunctionOnSet(f, R)
<1>1. IsFiniteSet(S \ {x}) /\ \A y \in S \ {x} : f[y] \in Nat  BY OneLess
<1>2. Takes(f, S) /\ Takes(f, S \ {x})  BY <1>1, SumTakes
<1>3. F(S) = f[x] + F(S \ {x}) /\ F(S \ {x}) \in Nat /\ F(S) \in Nat /\ F(S) <= 0  BY <1>2 DEF Takes
<1> HIDE DEF F
<1> QED  BY <1>3
=============================================================================
