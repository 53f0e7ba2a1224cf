--------------------------------- MODULE Sums ---------------------------------
(***************************************************************************)
(* Induction over the natural numbers, for sets instead of predicates, and *)
(* what it gives about the running sums of a function.  A property that    *)
(* counts something over a history writes its sum as a recursive function  *)
(* of the length of the history; Sums(g) is that function, for the terms   *)
(* g[1], g[2], ...                                                         *)
(***************************************************************************)
EXTENDS Integers, FiniteSetTheorems, WellFoundedInduction, TLAPS

(* A set of natural numbers that is not empty has a least element: the     *)
(* intervals up to its elements are finite sets, of which one is minimal.  *)
LEMMA LeastOf ==
    ASSUME NEW T \in SUBSET Nat, T # {}
    PROVE  \E n \in T : \A m \in T : n <= m
<1> DEFINE F == {0..n : n \in T}
<1>1. F \subseteq FiniteSubsetsOf(Nat) /\ F # {}
  <2> SUFFICES ASSUME NEW n \in T PROVE 0..n \in FiniteSubsetsOf(Nat)
    OBVIOUS
  <2>1. n \in Nat /\ IsFiniteSet(0..n)
    BY FS_Interval
  <2> QED  BY <2>1 DEF FiniteSubsetsOf
<1>2. IsWellFoundedOn(StrictSubsetOrdering(Nat), FiniteSubsetsOf(Nat))
  BY FS_StrictSubsetOrderingWellFounded
<1>3. PICK x \in F : \A y \in F : <<y, x>> \notin StrictSubsetOrdering(Nat)
  <2> HIDE DEF F
  <2> QED  BY <1>1, <1>2, WFMin
<1>4. PICK n \in T : x = 0..n
  OBVIOUS
<1>5. ASSUME NEW m \in T PROVE n <= m
  <2> SUFFICES ASSUME m < n PROVE FALSE
    OBVIOUS
  <2>1. 0..m \in F /\ 0..n \in F
    OBVIOUS
  <2>2. 0..m \subseteq 0..n /\ 0..m # 0..n /\ 0..n \subseteq Nat /\ 0..m \subseteq Nat
    <3>1. n \in 0..n /\ n \notin 0..m
      OBVIOUS
    <3> QED  BY <3>1
  <2> HIDE DEF F
  <2>3. <<0..m, 0..n>> \in StrictSubsetOrdering(Nat)
    BY <2>2 DEF StrictSubsetOrdering
  <2> QED  BY <1>3, <1>4, <2>1, <2>3
<1> QED  BY <1>4, <1>5

(* A set that has 0 and with each number its successor has them all.       *)
THEOREM Induction ==
    ASSUME NEW I \in SUBSET Nat, 0 \in I, \A n \in I : n + 1 \in I
    PROVE  I = Nat
<1> SUFFICES ASSUME Nat \ I # {} PROVE FALSE
  OBVIOUS
<1>1. PICK n \in Nat \ I : \A m \in Nat \ I : n <= m
  BY LeastOf
<1>2. n # 0 /\ n - 1 \in Nat /\ n - 1 \in I
  BY <1>1
<1>3. n - 1 + 1 \in I
  BY <1>2
<1> QED  BY <1>1, <1>3
-----------------------------------------------------------------------------
(* The running sums of g, from 0.                                          *)
IsSums(f, g) ==
    /\ f \in [Nat -> Int]
    /\ f[0] = 0
    /\ \A n \in Nat : f[n + 1] = f[n] + g[n + 1]

Sums(g) == CHOOSE f : IsSums(f, g)

(* Sums up to n, as a function of the numbers up to n.                     *)
IsSumsTo(f, g, n) ==
    /\ f \in [0..n -> Int]
    /\ f[0] = 0
    /\ \A i \in 1..n : f[i] = f[i - 1] + g[i]

LEMMA SumsTo ==
    ASSUME NEW g \in [Nat -> Int], NEW n \in Nat
    PROVE  \E f : IsSumsTo(f, g, n)
<1> DEFINE I == {k \in Nat : \E f : IsSumsTo(f, g, k)}
<1>1. 0 \in I
  <2>1. IsSumsTo([i \in 0..0 |-> 0], g, 0)
    BY DEF IsSumsTo
  <2> QED  BY <2>1
<1>2. ASSUME NEW k \in I PROVE k + 1 \in I
  <2>1. PICK f : IsSumsTo(f, g, k)
    OBVIOUS
  <2> DEFINE h == [i \in 0..(k + 1) |-> IF i \in 0..k THEN f[i] ELSE f[k] + g[k + 1]]
  <2>2. k \in Nat /\ f \in [0..k -> Int]
    BY <2>1 DEF IsSumsTo
  <2>3. h \in [0..(k + 1) -> Int] /\ h[0] = 0
    BY <2>1, <2>2 DEF IsSumsTo
  <2>4. ASSUME NEW i \in 1..(k + 1) PROVE h[i] = h[i - 1] + g[i]
    <3>1. CASE i \in 1..k
      BY <2>1, <2>2, <3>1 DEF IsSumsTo
    <3>2. CASE i = k + 1
      BY <2>2, <3>2
    <3> QED  BY <2>2, <3>1, <3>2
  <2>5. IsSumsTo(h, g, k + 1)
    BY <2>3, <2>4 DEF IsSumsTo
  <2> QED  BY <2>2, <2>5
<1> HIDE DEF I
<1>3. I = Nat
  <2>1. I \subseteq Nat
    BY DEF I
  <2> QED  BY <1>1, <1>2, <2>1, Induction
<1> QED  BY <1>3 DEF I

(* Two functions of sums of the same terms agree as far as both go.        *)
LEMMA SumsToAgree ==
    ASSUME NEW g, NEW m \in Nat, NEW n \in Nat, m <= n,
           NEW f, IsSumsTo(f, g, m), NEW h, IsSumsTo(h, g, n)
    PROVE  \A k \in 0..m : f[k] = h[k]
<1> DEFINE I == {i \in Nat : i \in 0..m => f[i] = h[i]}
<1>1. 0 \in I
  BY DEF IsSumsTo
<1>2. ASSUME NEW i \in I PROVE i + 1 \in I
  BY DEF IsSumsTo
<1> HIDE DEF I
<1>3. I = Nat
  <2>1. I \subseteq Nat
    BY DEF I
  <2> QED  BY <1>1, <1>2, <2>1, Induction
<1> QED  BY <1>3 DEF I

(* Every function has running sums.                                        *)
THEOREM SumsDef ==
    ASSUME NEW g \in [Nat -> Int]
    PROVE  IsSums(Sums(g), g)
<1> DEFINE F(n) == CHOOSE f : IsSumsTo(f, g, n)
           s == [n \in Nat |-> F(n)[n]]
<1>1. \A n \in Nat : IsSumsTo(F(n), g, n)
  BY SumsTo
<1> HIDE DEF F
<1>2. ASSUME NEW n \in Nat
      PROVE  /\ F(n)[n] \in Int
             /\ F(n + 1)[n + 1] = F(n)[n] + g[n + 1]
  <2> DEFINE f == F(n)
             h == F(n + 1)
  <2>1. IsSumsTo(f, g, n) /\ IsSumsTo(h, g, n + 1)
    BY <1>1
  <2> HIDE DEF f, h, s
  <2>2. n + 1 \in Nat /\ n <= n + 1 /\ n \in 0..n
    OBVIOUS
  <2>3. \A k \in 0..n : f[k] = h[k]
    BY <2>1, <2>2, SumsToAgree
  <2>4. f[n] \in Int /\ h[n + 1] = h[n] + g[n + 1]
    BY <2>1 DEF IsSumsTo
  <2> QED  BY <2>2, <2>3, <2>4 DEF f, h
<1>3. F(0)[0] = 0
  BY <1>1 DEF IsSumsTo
<1>4. IsSums(s, g)
  BY <1>2, <1>3 DEF IsSums
<1> QED  BY <1>4 DEF Sums

(* The sum of the first n terms depends on these only.                     *)
THEOREM SumsAgree ==
    ASSUME NEW g \in [Nat -> Int], NEW q \in [Nat -> Int], NEW n \in Nat,
           \A i \in 1..n : g[i] = q[i]
    PROVE  Sums(g)[n] = Sums(q)[n]
<1> DEFINE I == {i \in Nat : i \in 0..n => Sums(g)[i] = Sums(q)[i]}
<1>1. IsSums(Sums(g), g) /\ IsSums(Sums(q), q)
  BY SumsDef
<1>2. 0 \in I
  BY <1>1 DEF IsSums
<1>3. ASSUME NEW i \in I PROVE i + 1 \in I
  <2>1. i + 1 \in 0..n => g[i + 1] = q[i + 1] /\ i \in 0..n
    OBVIOUS
  <2> QED  BY <1>1, <2>1 DEF IsSums
<1> HIDE DEF I
<1>4. I = Nat
  <2>1. I \subseteq Nat
    BY DEF I
  <2> QED  BY <1>2, <1>3, <2>1, Induction
<1> QED  BY <1>4 DEF I

(* A recursive function of running sums exists, and is Sums.               *)
THEOREM RecursiveSums ==
    ASSUME NEW g \in [Nat -> Int], NEW n \in Nat
    PROVE  /\ \E f : f = [i \in 0..n |-> IF i = 0 THEN 0 ELSE f[i - 1] + g[i]]
           /\ \A f : f = [i \in 0..n |-> IF i = 0 THEN 0 ELSE f[i - 1] + g[i]]
                       => f[n] = Sums(g)[n]
<1> DEFINE P(f) == f = [i \in 0..n |-> IF i = 0 THEN 0 ELSE f[i - 1] + g[i]]
<1>1. IsSums(Sums(g), g)
  BY SumsDef
<1>2. P([i \in 0..n |-> Sums(g)[i]])
  <2>1. ASSUME NEW i \in 0..n, i # 0 PROVE Sums(g)[i] = Sums(g)[i - 1] + g[i]
    <3>1. i - 1 \in Nat /\ i - 1 + 1 = i
      BY <2>1
    <3> QED  BY <1>1, <3>1 DEF IsSums
  <2>2. \A i \in 0..n : i # 0 => i - 1 \in 0..n
    OBVIOUS
  <2> QED  BY <1>1, <2>1, <2>2 DEF IsSums
<1>3. ASSUME NEW f, P(f) PROVE f[n] = Sums(g)[n]
  <2> DEFINE I == {i \in Nat : i \in 0..n => f[i] = Sums(g)[i]}
  <2>1. 0 \in I
    BY <1>1, <1>3 DEF IsSums
  <2>2. ASSUME NEW i \in I PROVE i + 1 \in I
    <3>1. i + 1 \in 0..n => i \in 0..n /\ f[i + 1] = f[i] + g[i + 1]
      BY <1>3
    <3> QED  BY <1>1, <3>1 DEF IsSums
  <2> HIDE DEF I
  <2>3. I = Nat
    <3>1. I \subseteq Nat
      BY DEF I
    <3> QED  BY <2>1, <2>2, <3>1, Induction
  <2> QED  BY <2>3 DEF I
<1> QED  BY <1>2, <1>3

(* The sum of the terms does not depend on their order.                    *)
LEMMA SumsExcept ==
    ASSUME NEW g \in [Nat -> Int], NEW n \in Nat, NEW j \in 1..n, NEW x \in Int
    PROVE  Sums([g EXCEPT ![j] = x])[n] = Sums(g)[n] - g[j] + x
<1> DEFINE h == [g EXCEPT ![j] = x]
           I == {k \in Nat : Sums(h)[k] = IF k < j THEN Sums(g)[k] ELSE Sums(g)[k] - g[j] + x}
<1>1. /\ h \in [Nat -> Int] /\ h[j] = x /\ j \in Nat /\ j # 0
      /\ \A k \in Nat : k # j => h[k] = g[k]
  OBVIOUS
<1> HIDE DEF h
<1>2. IsSums(Sums(g), g) /\ IsSums(Sums(h), h)
  BY <1>1, SumsDef
<1>3. 0 \in I
  BY <1>1, <1>2 DEF IsSums
<1>4. ASSUME NEW k \in I PROVE k + 1 \in I
  <2>1. k \in Nat /\ k + 1 \in Nat
    OBVIOUS
  <2>2. /\ Sums(h)[k + 1] = Sums(h)[k] + h[k + 1]
        /\ Sums(g)[k + 1] = Sums(g)[k] + g[k + 1]
        /\ Sums(g)[k] \in Int /\ g[k + 1] \in Int /\ g[j] \in Int
    BY <1>1, <1>2, <2>1 DEF IsSums
  <2>3. CASE k + 1 < j
    BY <1>1, <2>1, <2>2, <2>3
  <2>4. CASE k + 1 = j
    BY <1>1, <2>1, <2>2, <2>4
  <2>5. CASE k + 1 > j
    BY <1>1, <2>1, <2>2, <2>5
  <2> QED  BY <1>1, <2>1, <2>3, <2>4, <2>5
<1>5. I = Nat
  <2>1. I \subseteq Nat
    OBVIOUS
  <2> HIDE DEF I
  <2> QED  BY <1>3, <1>4, <2>1, Induction
<1>6. n \in I /\ ~ (n < j)
  BY <1>5
<1> QED  BY <1>6 DEF h

(* q has the terms g[1] to g[n], in the order of p.                        *)
Permutes(q, g, p, n) ==
    /\ p \in [1..n -> 1..n]
    /\ \A i, k \in 1..n : p[i] = p[k] => i = k
    /\ \A i \in 1..n : q[i] = g[p[i]]

(* Without the last term of q the others are a permutation, too: of terms  *)
(* in which the last one of g has taken the place of the one that is gone. *)
LEMMA PermuteFewer ==
    ASSUME NEW m \in Nat, NEW g \in [Nat -> Int], NEW q \in [Nat -> Int], NEW p,
           Permutes(q, g, p, m + 1)
    PROVE  \E h \in [Nat -> Int] : \E r :
             Permutes(q, h, r, m) /\ Sums(h)[m] + q[m + 1] = Sums(g)[m] + g[m + 1]
<1>1. /\ p \in [1..(m + 1) -> 1..(m + 1)]
      /\ \A i, k \in 1..(m + 1) : p[i] = p[k] => i = k
      /\ \A i \in 1..(m + 1) : q[i] = g[p[i]]
  BY DEF Permutes
<1>2. PICK j \in 1..(m + 1) : j = p[m + 1] /\ q[m + 1] = g[j]
  BY <1>1
<1> DEFINE h == IF j = m + 1 THEN g ELSE [g EXCEPT ![j] = g[m + 1]]
           r == [i \in 1..m |-> IF p[i] = m + 1 THEN j ELSE p[i]]
<1>3. h \in [Nat -> Int] /\ \A i \in Nat : h[i] = IF i = j THEN g[m + 1] ELSE g[i]
  <2>1. CASE j = m + 1
    BY <2>1
  <2>2. CASE j # m + 1
    BY <2>2
  <2> QED  BY <2>1, <2>2
<1>4. ASSUME NEW i \in 1..m
      PROVE  p[i] # j /\ p[i] \in 1..(m + 1) /\ i \in 1..(m + 1) /\ i # m + 1 /\ q[i] = g[p[i]]
  <2>1. i \in 1..(m + 1) /\ i # m + 1 /\ m + 1 \in 1..(m + 1)
    OBVIOUS
  <2> QED  BY <1>1, <1>2, <2>1
<1>5. r \in [1..m -> 1..m]
  <2> SUFFICES ASSUME NEW i \in 1..m PROVE r[i] \in 1..m
    OBVIOUS
  <2> QED  BY <1>4
<1>6. ASSUME NEW i \in 1..m, NEW k \in 1..m, r[i] = r[k] PROVE i = k
  <2>1. p[i] = p[k]
    <3>1. /\ r[i] = (IF p[i] = m + 1 THEN j ELSE p[i]) /\ p[i] # j
          /\ r[k] = (IF p[k] = m + 1 THEN j ELSE p[k]) /\ p[k] # j
      BY <1>4
    <3> HIDE DEF r
    <3> QED  BY <1>6, <3>1
  <2>2. i \in 1..(m + 1) /\ k \in 1..(m + 1)
    BY <1>4
  <2> QED  BY <1>1, <2>1, <2>2
<1>7. ASSUME NEW i \in 1..m PROVE q[i] = h[r[i]]
  <2>1. CASE p[i] = m + 1
    BY <1>3, <1>4, <2>1
  <2>2. CASE p[i] # m + 1
    BY <1>3, <1>4, <2>2
  <2> QED  BY <2>1, <2>2
<1>8. Sums(h)[m] + q[m + 1] = Sums(g)[m] + g[m + 1]
  <2>1. Sums(g)[m] \in Int /\ g[m + 1] \in Int /\ g[j] \in Int
    BY SumsDef DEF IsSums
  <2>2. CASE j = m + 1
    BY <1>2, <2>1, <2>2
  <2>3. CASE j # m + 1
    <3>1. j \in 1..m
      BY <2>3
    <3>2. Sums([g EXCEPT ![j] = g[m + 1]])[m] = Sums(g)[m] - g[j] + g[m + 1]
      BY <2>1, <3>1, SumsExcept
    <3>3. Sums(h)[m] = Sums(g)[m] - g[j] + g[m + 1]
      BY <2>3, <3>2
    <3> HIDE DEF h
    <3> QED  BY <1>2, <2>1, <3>3
  <2> QED  BY <2>2, <2>3
<1> HIDE DEF h, r
<1>9. Permutes(q, h, r, m)
  BY <1>5, <1>6, <1>7 DEF Permutes
<1> QED  BY <1>3, <1>8, <1>9

THEOREM SumsPermute ==
    ASSUME NEW n \in Nat, NEW g \in [Nat -> Int], NEW q \in [Nat -> Int],
           NEW p, Permutes(q, g, p, n)
    PROVE  Sums(q)[n] = Sums(g)[n]
<1> DEFINE Same(m) == \A a, b \in [Nat -> Int] : \A r :
                        Permutes(b, a, r, m) => Sums(b)[m] = Sums(a)[m]
           I == {m \in Nat : Same(m)}
<1>1. Same(0)
  BY SumsDef DEF IsSums
<1>2. ASSUME NEW m \in Nat, Same(m) PROVE Same(m + 1)
  <2>1. SUFFICES ASSUME NEW a \in [Nat -> Int], NEW b \in [Nat -> Int], NEW r,
                        Permutes(b, a, r, m + 1)
                 PROVE  Sums(b)[m + 1] = Sums(a)[m + 1]
    OBVIOUS
  <2>2. PICK h \in [Nat -> Int] : \E t :
          Permutes(b, h, t, m) /\ Sums(h)[m] + b[m + 1] = Sums(a)[m] + a[m + 1]
    BY <2>1, PermuteFewer
  <2>3. Sums(b)[m] = Sums(h)[m]
    BY <1>2, <2>2
  <2>4. /\ Sums(b)[m + 1] = Sums(b)[m] + b[m + 1]
        /\ Sums(a)[m + 1] = Sums(a)[m] + a[m + 1]
    BY SumsDef DEF IsSums
  <2> QED  BY <2>2, <2>3, <2>4
<1> HIDE DEF Same
<1>3. I = Nat
  <2>1. I \subseteq Nat /\ 0 \in I /\ \A m \in I : m + 1 \in I
    BY <1>1, <1>2
  <2> HIDE DEF I
  <2> QED  BY <2>1, Induction
<1>4. Same(n)
  BY <1>3
<1> QED  BY <1>4 DEF Same
===============================================================================
