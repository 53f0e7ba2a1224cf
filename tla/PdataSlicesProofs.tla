-------------------------- MODULE PdataSlicesProofs --------------------------
(***************************************************************************)
(* The methods of pcommon.Map do to what the map stands for what their     *)
(* names say, for maps of any length: PutStr overrides a function at one   *)
(* key, Remove takes one key away, although the entries change places.     *)
(*                                                                         *)
(* The slices of pdata for any number of slices, elements, keys and        *)
(* values, and arrays of any length: no element has two places, no map has *)
(* two values for a key, and what is shared does not change.               *)
(* NoAliases is not inductive: RemoveIf, EnsureCapacity and append leave   *)
(* pointers behind the end of a slice, which CopyTo makes elements again.  *)
(* What is inductive is that no two arrays share a pointer, spare entries  *)
(* included, and that the entries of a slice itself are distinct.          *)
(*                                                                         *)
(* Last, the slices implement their contract, PdataContract.               *)
(***************************************************************************)
EXTENDS PdataSlices, TLAPS, FiniteSetTheorems, WellFoundedInduction

Maps(K, V) == {m \in Seq([key : K, value : V]) : DistinctKeys(m)}

(* A function with another value at k, and without k.                      *)
Overridden(f, k, v) == [x \in DOMAIN f \cup {k} |-> IF x = k THEN v ELSE f[x]]
Without(f, k) == [x \in DOMAIN f \ {k} |-> f[x]]

(* Get reads the only entry of a key, the one the map stands for.          *)
LEMMA OnlyEntry ==
  ASSUME NEW K, NEW V, NEW m \in Maps(K, V), NEW i \in DOMAIN m
  PROVE  /\ IndexOf(m, m[i].key) = i
         /\ Get(m, m[i].key) = m[i].value
         /\ m[i].key \in KeysOf(m)
         /\ AsRaw(m)[m[i].key] = m[i].value
<1>1. /\ IndexOf(m, m[i].key) = i
      /\ Get(m, m[i].key) = m[i].value
      /\ m[i].key \in KeysOf(m)
  BY DEF Maps, DistinctKeys, IndexOf, Get, KeysOf
<1>2. LastOf(m, m[i].key) = i
  BY DEF Maps, DistinctKeys, LastOf
<1> QED  BY <1>1, <1>2 DEF AsRaw

(* Two maps with the same entries, in whatever order, stand for the same.  *)
LEMMA AsRawOf ==
  ASSUME NEW K, NEW V, NEW m \in Maps(K, V), NEW f,
         f = [k \in DOMAIN f |-> f[k]],
         KeysOf(m) = DOMAIN f,
         \A i \in DOMAIN m : m[i].value = f[m[i].key]
  PROVE  AsRaw(m) = f
<1>1. ASSUME NEW k \in KeysOf(m) PROVE AsRaw(m)[k] = f[k]
  <2>1. PICK i \in DOMAIN m : m[i].key = k
    BY DEF KeysOf
  <2> QED  BY <2>1, OnlyEntry
<1> QED  BY <1>1 DEF AsRaw

(* PutStr keeps a map a map and overrides what it stands for at the key.   *)
THEOREM PutStrOverrides ==
  ASSUME NEW K, NEW V, NEW m \in Maps(K, V), NEW k \in K, NEW v \in V
  PROVE  /\ PutStr(m, k, v) \in Maps(K, V)
         /\ AsRaw(PutStr(m, k, v)) = Overridden(AsRaw(m), k, v)
<1> DEFINE n == PutStr(m, k, v)
           E == [key : K, value : V]
           e == [key |-> k, value |-> v]
           f == [x \in KeysOf(m) \cup {k} |-> IF x = k THEN v ELSE AsRaw(m)[x]]
<1>1. /\ e \in E /\ e.key = k /\ e.value = v
      /\ m \in Seq(E)
  BY DEF Maps
<1>2. n \in Maps(K, V) /\ KeysOf(n) = DOMAIN f /\ \A i \in DOMAIN n : n[i].value = f[n[i].key]
  <2>1. CASE k \in KeysOf(m)
    <3>1. PICK p \in DOMAIN m : m[p].key = k
      BY <2>1 DEF KeysOf
    <3>2. IndexOf(m, k) = p
      BY <3>1, OnlyEntry
    <3>3. n = [m EXCEPT ![p] = e]
      BY <2>1, <3>2 DEF PutStr, Entry
    <3>4. /\ n \in Seq(E)
          /\ DOMAIN n = DOMAIN m
          /\ \A i \in DOMAIN m : n[i] = IF i = p THEN e ELSE m[i]
      BY <1>1, <3>3
    <3>5. \A i \in DOMAIN n : n[i].key = m[i].key
      BY <1>1, <3>1, <3>4
    <3>6. DistinctKeys(n)
      BY <3>4, <3>5 DEF Maps, DistinctKeys
    <3>7. KeysOf(n) = KeysOf(m)
      BY <3>4, <3>5 DEF KeysOf
    <3>8. ASSUME NEW i \in DOMAIN n PROVE n[i].value = f[n[i].key]
      <4>1. CASE i = p
        BY <4>1, <1>1, <3>4, <2>1
      <4>2. CASE i # p
        <5>1. n[i] = m[i] /\ m[i].key # k /\ m[i].key \in KeysOf(m)
          BY <4>2, <3>1, <3>4, OnlyEntry DEF Maps, DistinctKeys
        <5>2. AsRaw(m)[m[i].key] = m[i].value
          BY <3>4, OnlyEntry
        <5> QED  BY <5>1, <5>2
      <4> QED  BY <4>1, <4>2
    <3> QED  BY <3>4, <3>6, <3>7, <3>8, <2>1 DEF Maps
  <2>2. CASE k \notin KeysOf(m)
    <3>1. n = Append(m, e)
      BY <2>2 DEF PutStr, Entry
    <3>2. /\ n \in Seq(E)
          /\ DOMAIN n = 1..Len(m) + 1
          /\ \A i \in DOMAIN m : n[i] = m[i]
          /\ n[Len(m) + 1] = e
          /\ DOMAIN m = 1..Len(m)
          /\ Len(m) \in Nat
      BY <1>1, <3>1
    <3>3. DistinctKeys(n)
      BY <3>2, <1>1, <2>2 DEF Maps, DistinctKeys, KeysOf
    <3>4. KeysOf(n) = KeysOf(m) \cup {k}
      <4>1. \A i \in DOMAIN m : i \in DOMAIN n
        BY <3>2
      <4>2. Len(m) + 1 \in DOMAIN n
        BY <3>2
      <4>3. \A i \in DOMAIN n : i \in DOMAIN m \/ i = Len(m) + 1
        BY <3>2
      <4> QED  BY <4>1, <4>2, <4>3, <3>2, <1>1 DEF KeysOf
    <3>5. ASSUME NEW i \in DOMAIN n PROVE n[i].value = f[n[i].key]
      <4>1. CASE i = Len(m) + 1
        BY <4>1, <3>2, <1>1
      <4>2. CASE i # Len(m) + 1
        <5>1. i \in DOMAIN m /\ n[i] = m[i]
          BY <4>2, <3>2
        <5>2. m[i].key \in KeysOf(m) /\ AsRaw(m)[m[i].key] = m[i].value
          BY <5>1, OnlyEntry
        <5>3. m[i].key # k
          BY <5>2, <2>2
        <5> QED  BY <5>1, <5>2, <5>3
      <4> QED  BY <4>1, <4>2
    <3> QED  BY <3>2, <3>3, <3>4, <3>5 DEF Maps
  <2> QED  BY <2>1, <2>2
<1>3. f = [x \in DOMAIN f |-> f[x]]
  OBVIOUS
<1>4. DOMAIN AsRaw(m) = KeysOf(m)
  BY DEF AsRaw
<1> HIDE DEF n, f
<1>5. AsRaw(n) = f
  BY <1>2, <1>3, AsRawOf
<1> QED  BY <1>2, <1>4, <1>5 DEF n, f, Overridden

(* Remove keeps a map a map and takes the key, and no other, away.         *)
THEOREM RemoveDrops ==
  ASSUME NEW K, NEW V, NEW m \in Maps(K, V), NEW k
  PROVE  /\ Remove(m, k) \in Maps(K, V)
         /\ AsRaw(Remove(m, k)) = Without(AsRaw(m), k)
<1> DEFINE n == Remove(m, k)
           E == [key : K, value : V]
           f == [x \in KeysOf(m) \ {k} |-> AsRaw(m)[x]]
<1>1. m \in Seq(E) /\ DOMAIN m = 1..Len(m) /\ Len(m) \in Nat
  BY DEF Maps
<1>2. n \in Maps(K, V) /\ KeysOf(n) = DOMAIN f /\ \A i \in DOMAIN n : n[i].value = f[n[i].key]
  <2>1. CASE k \in KeysOf(m)
    <3>1. PICK p \in DOMAIN m : m[p].key = k
      BY <2>1 DEF KeysOf
    <3>2. IndexOf(m, k) = p
      BY <3>1, OnlyEntry
    <3> DEFINE c == [m EXCEPT ![p] = m[Len(m)]]
    <3>3. /\ c \in Seq(E) /\ Len(c) = Len(m) /\ Len(m) > 0
          /\ \A i \in DOMAIN m : c[i] = IF i = p THEN m[Len(m)] ELSE m[i]
      <4> HIDE DEF E
      <4>1. Len(m) \in DOMAIN m
        BY <1>1, <3>1
      <4>2. m[Len(m)] \in E
        BY <1>1, <4>1
      <4> QED  BY <1>1, <3>1, <4>1, <4>2
    <3>4. n = SubSeq(c, 1, Len(m) - 1)
      BY <2>1, <3>2 DEF Remove
    <3>5. /\ n \in Seq(E)
          /\ DOMAIN n = 1..Len(m) - 1
          /\ \A i \in DOMAIN n : n[i] = IF i = p THEN m[Len(m)] ELSE m[i]
      <4> HIDE DEF E, c, n
      <4> QED  BY <1>1, <3>3, <3>4
    <3> DEFINE from(i) == IF i = p THEN Len(m) ELSE i
    <3>6. \A i \in DOMAIN n : from(i) \in DOMAIN m /\ from(i) # p /\ n[i] = m[from(i)]
      BY <1>1, <3>1, <3>5
    <3>7. \A i, j \in DOMAIN n : from(i) = from(j) => i = j
      BY <1>1, <3>1, <3>5
    <3>8. \A j \in DOMAIN m : j # p => \E i \in DOMAIN n : from(i) = j
      <4>1. \A j \in DOMAIN m : j # p /\ j # Len(m) => j \in DOMAIN n /\ from(j) = j
        BY <1>1, <3>5
      <4>2. p # Len(m) => p \in DOMAIN n /\ from(p) = Len(m)
        BY <1>1, <3>1, <3>5
      <4> QED  BY <4>1, <4>2
    <3> HIDE DEF from, n
    <3>9. \A i, j \in DOMAIN m : m[i].key = m[j].key => i = j
      BY DEF Maps, DistinctKeys
    <3>10. DistinctKeys(n)
      BY <3>6, <3>7, <3>9 DEF DistinctKeys
    <3>11. KeysOf(n) = KeysOf(m) \ {k}
      BY <3>1, <3>6, <3>8, <3>9 DEF KeysOf
    <3>12. ASSUME NEW i \in DOMAIN n PROVE n[i].value = f[n[i].key]
      <4>1. /\ m[from(i)].key \in KeysOf(m)
            /\ AsRaw(m)[m[from(i)].key] = m[from(i)].value
            /\ m[from(i)].key # k
        BY <3>1, <3>6, <3>9, OnlyEntry
      <4> QED  BY <4>1, <3>6
    <3> QED  BY <3>5, <3>10, <3>11, <3>12 DEF Maps, n
  <2>2. CASE k \notin KeysOf(m)
    <3>1. n = m /\ KeysOf(m) = DOMAIN f
      BY <2>2 DEF Remove
    <3>2. ASSUME NEW i \in DOMAIN m PROVE m[i].value = f[m[i].key]
      BY <3>1, OnlyEntry
    <3> QED  BY <3>1, <3>2
  <2> QED  BY <2>1, <2>2
<1>3. f = [x \in DOMAIN f |-> f[x]]
  OBVIOUS
<1>4. DOMAIN AsRaw(m) = KeysOf(m)
  BY DEF AsRaw
<1> HIDE DEF n, f
<1>5. AsRaw(n) = f
  BY <1>2, <1>3, AsRawOf
<1> QED  BY <1>2, <1>4, <1>5 DEF n, f, Without
-----------------------------------------------------------------------------
ArrayType ==
  /\ back \in [Slices -> Seq(Cells \cup {Nil})]
  /\ len \in [Slices -> Nat]
  /\ \A s \in Slices : len[s] <= Len(back[s])

CellType == cell \in [Cells -> Maps(Keys, Values)]

Ownership ==
  /\ \A s, t \in Slices : s # t => Pointers(back[s]) \cap Pointers(back[t]) = {}
  /\ \A s \in Slices : \A i, j \in 1..len[s] : back[s][i] = back[s][j] => i = j
  /\ \A s \in Slices : \A i \in 1..len[s] : back[s][i] # Nil

(* Memory that is not used holds an empty element.                         *)
Clean == \A c \in Unused : cell[c] = <<>>

Memory == ArrayType /\ CellType /\ Ownership /\ Clean

IInv ==
  /\ readOnly \subseteq Slices
  /\ state \in {"running", "broken", "panicked"}
  /\ CellType
  /\ state = "running" => Memory

(* A step leaves a slice and its elements as they are.                     *)
Untouched(t) ==
  /\ back'[t] = back[t]
  /\ len'[t] = len[t]
  /\ \A i \in 1..len[t] : cell'[back[t][i]] = cell[back[t][i]]
-----------------------------------------------------------------------------
LEMMA NilNotCell == Nil \notin Cells
BY DEF Nil, Cells

LEMMA EmptyMap == <<>> \in Maps(Keys, Values) /\ KeysOf(<<>>) = {}
BY DEF Maps, DistinctKeys, KeysOf

(* The entries of a slice are entries of its array, and are elements.      *)
LEMMA Entries ==
  ASSUME ArrayType, NEW s \in Slices
  PROVE  /\ DOMAIN back[s] = 1..Len(back[s]) /\ Len(back[s]) \in Nat
         /\ len[s] \in Nat /\ 1..len[s] \subseteq DOMAIN back[s]
         /\ \A i \in DOMAIN back[s] : back[s][i] \in Cells \cup {Nil}
BY DEF ArrayType

LEMMA LiveEntries ==
  ASSUME ArrayType, Ownership, NEW s \in Slices, NEW i \in 1..len[s]
  PROVE  /\ i \in DOMAIN back[s]
         /\ back[s][i] \in Cells
         /\ back[s][i] \in Pointers(back[s])
         /\ back[s][i] \notin Unused
<1>1. i \in DOMAIN back[s] /\ back[s][i] \in Cells \cup {Nil}
  BY Entries
<1>2. back[s][i] # Nil
  BY DEF Ownership
<1> QED  BY <1>1, <1>2 DEF Pointers, Unused

(* New elements are different from one another and from all in use.        *)
LEMMA NewElements ==
  ASSUME NEW n \in Nat, NEW refs \in New(n)
  PROVE  /\ refs \in [1..n -> Unused]
         /\ refs \in Seq(Cells) /\ Len(refs) = n
         /\ \A i, j \in 1..n : refs[i] = refs[j] => i = j
<1>1. refs \in [1..n -> Unused] /\ Unused \subseteq Cells
  BY DEF New, Unused
<1>2. refs \in Seq(Cells) /\ Len(refs) = n
  BY <1>1
<1>3. Cells \subseteq Int
  BY DEF Cells
<1>4. \A i \in 1..n : \A j \in 1..i - 1 : refs[j] < refs[i]
  BY <1>1 DEF New
<1>5. ASSUME NEW i \in 1..n, NEW j \in 1..n, refs[i] = refs[j], i # j PROVE FALSE
  <2>1. refs[i] \in Int /\ refs[j] \in Int
    BY <1>1, <1>3
  <2>2. i < j \/ j < i
    BY <1>5
  <2>3. refs[i] < refs[j] \/ refs[j] < refs[i]
    BY <1>4, <2>2
  <2> QED  BY <2>1, <2>3, <1>5
<1> QED  BY <1>1, <1>2, <1>5

(* append keeps the n entries it is given, puts the new ones behind them   *)
(* and takes pointers from nowhere else.                                   *)
LEMMA AppendedArray ==
  ASSUME NEW b \in Seq(Cells \cup {Nil}), NEW n \in Nat, n <= Len(b), NEW refs \in Seq(Cells)
  PROVE  LET a == Appended(b, n, refs)
         IN  /\ a \in Seq(Cells \cup {Nil})
             /\ n + Len(refs) <= Len(a)
             /\ Len(b) <= Len(a)
             /\ \A i \in 1..n : a[i] = b[i]
             /\ \A i \in 1..Len(refs) : a[n + i] = refs[i]
             /\ Pointers(a) \subseteq Pointers(b) \cup {refs[i] : i \in DOMAIN refs}
<1> DEFINE a == Appended(b, n, refs)
           need == n + Len(refs)
           cap == IF need <= Len(b) THEN Len(b) ELSE Grown(Len(b), need)
<1>1. /\ Len(b) \in Nat /\ DOMAIN b = 1..Len(b) /\ \A i \in DOMAIN b : b[i] \in Cells \cup {Nil}
      /\ Len(refs) \in Nat /\ DOMAIN refs = 1..Len(refs) /\ \A i \in DOMAIN refs : refs[i] \in Cells
  OBVIOUS
<1>2. cap \in Nat /\ need <= cap /\ Len(b) <= cap
  <2>1. \A k \in Nat : k % 2 \in 0..1
    OBVIOUS
  <2> DEFINE top == IF need > 2 * Len(b) THEN need ELSE 2 * Len(b)
  <2>2. need \in Nat /\ top \in Nat /\ need <= top /\ Len(b) <= top
    BY <1>1
  <2>3. Grown(Len(b), need) = IF top <= 4 THEN top ELSE top + (top % 2)
    BY DEF Grown
  <2> HIDE DEF top
  <2>4. Grown(Len(b), need) \in Nat /\ top <= Grown(Len(b), need)
    BY <2>1, <2>2, <2>3
  <2> QED  BY <1>1, <2>2, <2>4
<1>3. a = [i \in 1..cap |-> CASE i <= n               -> b[i]
                              [] n < i /\ i <= need   -> refs[i - n]
                              [] need < i /\ need <= Len(b)    -> b[i]
                              [] need < i /\ ~(need <= Len(b)) -> Nil]
  BY DEF Appended
<1> HIDE DEF a
<1>4. ASSUME NEW i \in 1..cap
      PROVE  \/ a[i] \in {b[j] : j \in DOMAIN b}
             \/ a[i] \in {refs[j] : j \in DOMAIN refs}
             \/ a[i] = Nil
  <2>1. CASE i <= n
    BY <2>1, <1>1, <1>3
  <2>2. CASE n < i /\ i <= need
    <3>1. i - n \in DOMAIN refs /\ a[i] = refs[i - n]
      BY <2>2, <1>1, <1>3
    <3> QED  BY <3>1
  <2>3. CASE need < i /\ need <= Len(b)
    <3>1. i \in DOMAIN b /\ a[i] = b[i]
      BY <2>3, <1>1, <1>3
    <3> QED  BY <3>1
  <2>4. CASE need < i /\ ~(need <= Len(b))
    BY <2>4, <1>1, <1>3
  <2> QED  BY <2>1, <2>2, <2>3, <2>4, <1>1, <1>2
<1>5. a \in [1..cap -> Cells \cup {Nil}]
  <2>1. \A i \in 1..cap : a[i] \in Cells \cup {Nil}
    BY <1>1, <1>4
  <2> QED  BY <1>3, <2>1
<1>6. a \in Seq(Cells \cup {Nil}) /\ Len(a) = cap /\ DOMAIN a = 1..cap
  BY <1>2, <1>5
<1>7. \A i \in 1..n : a[i] = b[i]
  BY <1>1, <1>2, <1>3
<1>8. \A i \in 1..Len(refs) : a[n + i] = refs[i]
  <2> SUFFICES ASSUME NEW i \in 1..Len(refs) PROVE a[n + i] = refs[i]
    OBVIOUS
  <2>1. n + i \in 1..cap /\ n < n + i /\ n + i <= need /\ n + i - n = i /\ ~(n + i <= n)
    BY <1>1, <1>2
  <2> QED  BY <2>1, <1>3
<1>9. Pointers(a) \subseteq Pointers(b) \cup {refs[i] : i \in DOMAIN refs}
  BY <1>4, <1>6 DEF Pointers
<1> QED  BY <1>2, <1>6, <1>7, <1>8, <1>9 DEF a
-----------------------------------------------------------------------------
(* An array for the slice s, of pointers P, of which the first n are the   *)
(* slice.                                                                  *)
Holds(x, n, P) ==
  /\ x \in Seq(Cells \cup {Nil})
  /\ n \in Nat /\ n <= Len(x)
  /\ Pointers(x) \subseteq P
  /\ \A i, j \in 1..n : x[i] = x[j] => i = j
  /\ \A i \in 1..n : x[i] # Nil

Gets(s, x, n) == back' = [back EXCEPT ![s] = x] /\ len' = [len EXCEPT ![s] = n]

(* A slice gets another array, made of pointers it had and of new ones.    *)
LEMMA ArrayUpdate ==
  ASSUME ArrayType, Ownership, NEW s \in Slices, NEW x, NEW n,
         Holds(x, n, Pointers(back[s]) \cup Unused), Gets(s, x, n)
  PROVE  /\ ArrayType' /\ Ownership'
         /\ back'[s] = x /\ len'[s] = n
         /\ \A t \in Slices \ {s} : back'[t] = back[t] /\ len'[t] = len[t]
<1> USE DEF Holds, Gets
<1>1. /\ back'[s] = x /\ len'[s] = n
      /\ \A t \in Slices \ {s} : back'[t] = back[t] /\ len'[t] = len[t]
  BY DEF ArrayType
<1>2. ArrayType'
  BY <1>1 DEF ArrayType
<1>3. ASSUME NEW t \in Slices, NEW u \in Slices, t # u
      PROVE  Pointers(back'[t]) \cap Pointers(back'[u]) = {}
  <2>1. \A w \in Slices \ {s} : Pointers(x) \cap Pointers(back[w]) = {}
    BY DEF Ownership, Unused
  <2>2. CASE t = s
    BY <2>1, <2>2, <1>1, <1>3
  <2>3. CASE u = s
    BY <2>1, <2>3, <1>1, <1>3
  <2>4. CASE t # s /\ u # s
    BY <2>4, <1>1, <1>3 DEF Ownership
  <2> QED  BY <2>2, <2>3, <2>4
<1>4. ASSUME NEW t \in Slices
      PROVE  /\ \A i, j \in 1..len'[t] : back'[t][i] = back'[t][j] => i = j
             /\ \A i \in 1..len'[t] : back'[t][i] # Nil
  <2>1. CASE t = s
    BY <2>1, <1>1
  <2>2. CASE t # s
    BY <2>2, <1>1 DEF Ownership
  <2> QED  BY <2>1, <2>2
<1> QED  BY <1>1, <1>2, <1>3, <1>4 DEF Ownership

(* Two slices change arrays: the pointers they had stay among them.        *)
Takes(s, d, x, n) ==
  /\ back' = [back EXCEPT ![d] = x, ![s] = <<>>]
  /\ len' = [len EXCEPT ![d] = n, ![s] = 0]

LEMMA ArraysUpdate ==
  ASSUME ArrayType, Ownership, NEW s \in Slices, NEW d \in Slices, s # d, NEW x, NEW n,
         Holds(x, n, Pointers(back[s]) \cup Pointers(back[d])), Takes(s, d, x, n)
  PROVE  /\ ArrayType' /\ Ownership'
         /\ back'[d] = x /\ len'[d] = n /\ back'[s] = <<>> /\ len'[s] = 0
         /\ \A t \in Slices \ {s, d} : back'[t] = back[t] /\ len'[t] = len[t]
<1> USE DEF Holds, Takes
<1>1. /\ back'[d] = x /\ len'[d] = n /\ back'[s] = <<>> /\ len'[s] = 0
      /\ \A t \in Slices \ {s, d} : back'[t] = back[t] /\ len'[t] = len[t]
  BY DEF ArrayType
<1>2. ArrayType'
  <2>1. <<>> \in Seq(Cells \cup {Nil}) /\ Len(<<>>) = 0
    OBVIOUS
  <2>2. back' \in [Slices -> Seq(Cells \cup {Nil})] /\ len' \in [Slices -> Nat]
    BY <2>1 DEF ArrayType
  <2>3. \A t \in Slices : len'[t] <= Len(back'[t])
    BY <1>1, <2>1 DEF ArrayType
  <2> QED  BY <2>2, <2>3 DEF ArrayType
<1> DEFINE b == back'
           l == len'
<1>5. /\ b[d] = x /\ l[d] = n /\ b[s] = <<>> /\ l[s] = 0
      /\ \A t \in Slices \ {s, d} : b[t] = back[t] /\ l[t] = len[t]
  BY <1>1
<1> HIDE DEF b, l
<1>3. ASSUME NEW t \in Slices, NEW u \in Slices, t # u
      PROVE  Pointers(b[t]) \cap Pointers(b[u]) = {}
  <2>1. \A w \in Slices \ {s, d} : Pointers(x) \cap Pointers(back[w]) = {}
    BY DEF Ownership
  <2>2. Pointers(<<>>) = {}
    BY DEF Pointers
  <2>3. CASE t = s \/ u = s
    <3>1. Pointers(b[s]) = {}
      BY <2>2, <1>5
    <3> QED  BY <3>1, <2>3
  <2>4. CASE t = d /\ u # s
    <3>1. u \in Slices \ {s, d} /\ b[t] = x /\ b[u] = back[u]
      BY <2>4, <1>5, <1>3
    <3> QED  BY <2>1, <3>1
  <2>5. CASE u = d /\ t # s
    <3>1. t \in Slices \ {s, d} /\ b[u] = x /\ b[t] = back[t]
      BY <2>5, <1>5, <1>3
    <3> QED  BY <2>1, <3>1
  <2>6. CASE t \notin {s, d} /\ u \notin {s, d}
    <3>1. b[t] = back[t] /\ b[u] = back[u]
      BY <2>6, <1>5
    <3> QED  BY <3>1, <1>3 DEF Ownership
  <2> QED  BY <2>3, <2>4, <2>5, <2>6
<1>4. ASSUME NEW t \in Slices
      PROVE  /\ \A i, j \in 1..l[t] : b[t][i] = b[t][j] => i = j
             /\ \A i \in 1..l[t] : b[t][i] # Nil
  <2>1. CASE t = d
    <3>1. b[t] = x /\ l[t] = n
      BY <2>1, <1>5
    <3> QED  BY <3>1
  <2>2. CASE t = s
    <3>1. l[t] = 0
      BY <2>2, <1>5
    <3>2. 1..l[t] = {}
      BY <3>1
    <3> QED  BY <3>2
  <2>3. CASE t \notin {s, d}
    <3>1. b[t] = back[t] /\ l[t] = len[t]
      BY <2>3, <1>5
    <3> QED  BY <3>1 DEF Ownership
  <2> QED  BY <2>1, <2>2, <2>3
<1> QED  BY <1>1, <1>2, <1>3, <1>4 DEF Ownership, b, l

(* The garbage collector takes no element a slice points to.               *)
Sweeps == cell' = Collected(cell, back')

LEMMA CollectedCells ==
  ASSUME CellType, Sweeps
  PROVE  /\ CellType' /\ Clean'
         /\ \A s \in Slices : \A c \in Pointers(back'[s]) \cap Cells : cell'[c] = cell[c]
<1> USE DEF Sweeps
<1>1. ASSUME NEW c \in Cells PROVE cell'[c] \in Maps(Keys, Values)
  BY EmptyMap DEF Collected, CellType
<1>2. \A c \in Cells : (\A s \in Slices : c \notin Pointers(back'[s])) => cell'[c] = <<>>
  BY DEF Collected
<1>3. cell' = [c \in Cells |-> cell'[c]]
  BY DEF Collected
<1>4. CellType'
  BY <1>1, <1>3 DEF CellType
<1>5. Clean'
  BY <1>2 DEF Clean, Unused
<1> QED  BY <1>4, <1>5 DEF Collected

(* A slice that keeps its array keeps its elements.                        *)
LEMMA CollectedUntouched ==
  ASSUME Memory, NEW t \in Slices,
         back'[t] = back[t], len'[t] = len[t], Sweeps
  PROVE  Untouched(t)
BY LiveEntries, CollectedCells DEF Untouched, Memory
(* An array gets another content, and the garbage collector runs.          *)
Only(s, x, n) ==
  /\ back'[s] = x /\ len'[s] = n
  /\ \A i \in 1..n : x[i] \in Cells /\ cell'[x[i]] = cell[x[i]]
  /\ \A t \in Slices \ {s} : Untouched(t)

LEMMA CollectedUpdate ==
  ASSUME Memory, NEW s \in Slices, NEW x, NEW n,
         Holds(x, n, Pointers(back[s]) \cup Unused), Gets(s, x, n), Sweeps
  PROVE  Memory' /\ Only(s, x, n)
<1> USE DEF Memory
<1>1. /\ ArrayType' /\ Ownership' /\ back'[s] = x /\ len'[s] = n
      /\ \A t \in Slices \ {s} : back'[t] = back[t] /\ len'[t] = len[t]
  BY ArrayUpdate
<1>2. /\ CellType' /\ Clean'
      /\ \A c \in Pointers(x) \cap Cells : cell'[c] = cell[c]
  BY <1>1, CollectedCells
<1>3. \A i \in 1..n : x[i] \in Pointers(x) \cap Cells
  BY DEF Holds, Pointers
<1>4. \A t \in Slices \ {s} : Untouched(t)
  BY <1>1, CollectedUntouched
<1> QED  BY <1>1, <1>2, <1>3, <1>4 DEF Only
-----------------------------------------------------------------------------
(* What each operation does to the memory, to the slices it is not called  *)
(* on, and to the elements of the slice it is called on.                   *)

LEMMA AppendEmptyStep ==
  ASSUME Memory, NEW s \in Slices, AppendEmpty(s)
  PROVE  /\ Memory' /\ \A t \in Slices \ {s} : Untouched(t)
         /\ len'[s] = len[s] + 1
         /\ \A i \in 1..len[s] : cell'[back'[s][i]] = cell[back[s][i]]
         /\ cell'[back'[s][len[s] + 1]] = <<>>
         /\ back'[s] # <<>>
<1> USE DEF Memory
<1>1. PICK refs \in New(1) : back' = [back EXCEPT ![s] = Appended(back[s], len[s], refs)]
  BY DEF AppendEmpty
<1> DEFINE x == Appended(back[s], len[s], refs)
<1>2. /\ refs \in [1..1 -> Unused] /\ refs \in Seq(Cells) /\ Len(refs) = 1
  BY NewElements
<1>3. /\ back[s] \in Seq(Cells \cup {Nil}) /\ len[s] \in Nat /\ len[s] <= Len(back[s])
      /\ 1 \in 1..Len(refs) /\ DOMAIN refs = 1..1
  BY <1>2 DEF ArrayType
<1>4. /\ x \in Seq(Cells \cup {Nil})
      /\ len[s] + 1 <= Len(x)
      /\ \A i \in 1..len[s] : x[i] = back[s][i]
      /\ x[len[s] + 1] = refs[1]
      /\ Pointers(x) \subseteq Pointers(back[s]) \cup {refs[i] : i \in DOMAIN refs}
  BY ZenonT(60), <1>2, <1>3, AppendedArray
<1> HIDE DEF x
<1>5. /\ refs[1] \in Unused /\ refs[1] \in Cells
      /\ Pointers(x) \subseteq Pointers(back[s]) \cup Unused
  <2>1. \A i \in DOMAIN refs : refs[i] \in Unused
    BY <1>2
  <2>2. Unused \subseteq Cells /\ 1 \in DOMAIN refs
    BY <1>3 DEF Unused
  <2> QED  BY <2>1, <2>2, <1>4
<1>6. \A i \in 1..len[s] + 1 : i = len[s] + 1 \/ i \in 1..len[s]
  BY <1>3
<1>7. \A i \in 1..len[s] : x[i] = back[s][i] /\ x[i] \in Cells /\ x[i] \notin Unused
  BY <1>4, LiveEntries
<1>8. \A i \in 1..len[s] + 1 : x[i] # Nil
  BY <1>4, <1>5, <1>6, <1>7, NilNotCell
<1>9. \A i, j \in 1..len[s] + 1 : x[i] = x[j] => i = j
  BY <1>4, <1>5, <1>6, <1>7 DEF Ownership
<1>10. Holds(x, len[s] + 1, Pointers(back[s]) \cup Unused)
  <2>1. len[s] + 1 \in Nat
    BY <1>3
  <2> QED  BY <2>1, <1>4, <1>5, <1>8, <1>9, Zenon DEF Holds
<1>11. Gets(s, x, len[s] + 1) /\ Sweeps
  BY <1>1 DEF AppendEmpty, x, Gets, Sweeps
<1>12. Memory' /\ Only(s, x, len[s] + 1)
  <2> HIDE DEF Memory
  <2> QED  BY <1>10, <1>11, CollectedUpdate
<1>13. \A i \in 1..len[s] : cell'[x[i]] = cell[back[s][i]]
  BY <1>3, <1>7, <1>12 DEF Only
<1>14. cell'[x[len[s] + 1]] = <<>>
  BY <1>3, <1>4, <1>5, <1>12 DEF Clean, Only
<1>15. x # <<>>
  BY <1>3, <1>4
<1> QED  BY <1>12, <1>13, <1>14, <1>15 DEF Only

LEMMA EnsureCapacityStep ==
  ASSUME Memory, NEW s \in Slices, NEW newCap \in Nat, EnsureCapacity(s, newCap)
  PROVE  /\ Memory' /\ \A t \in Slices \ {s} : Untouched(t)
         /\ len'[s] = len[s]
         /\ \A i \in 1..len[s] : cell'[back'[s][i]] = cell[back[s][i]]
         /\ back'[s] # <<>>
<1> DEFINE x == [i \in 1..newCap |-> IF i <= len[s] THEN back[s][i] ELSE Nil]
<1>1. /\ newCap > Len(back[s])
      /\ back' = [back EXCEPT ![s] = x]
      /\ Sweeps /\ len' = len
  BY DEF EnsureCapacity, Sweeps
<1>2. /\ DOMAIN back[s] = 1..Len(back[s]) /\ Len(back[s]) \in Nat
      /\ len[s] \in Nat /\ len[s] <= Len(back[s])
      /\ \A i \in DOMAIN back[s] : back[s][i] \in Cells \cup {Nil}
  BY DEF Memory, ArrayType
<1>3. \A i \in 1..newCap : x[i] \in Cells \cup {Nil} /\ (x[i] # Nil => x[i] \in Pointers(back[s]))
  BY <1>1, <1>2 DEF Pointers
<1>4. x \in Seq(Cells \cup {Nil}) /\ Len(x) = newCap /\ DOMAIN x = 1..newCap
  <2>1. x \in [1..newCap -> Cells \cup {Nil}]
    BY <1>3
  <2> QED  BY <2>1
<1>5. \A i \in 1..len[s] : x[i] = back[s][i]
  BY <1>1, <1>2
<1> HIDE DEF x
<1>6. Pointers(x) \subseteq Pointers(back[s]) \cup Unused
  BY <1>3, <1>4 DEF Pointers
<1>7. /\ \A i, j \in 1..len[s] : x[i] = x[j] => i = j
      /\ \A i \in 1..len[s] : x[i] # Nil
  BY <1>5 DEF Memory, Ownership
<1>8. Holds(x, len[s], Pointers(back[s]) \cup Unused)
  <2>1. len[s] <= Len(x)
    BY <1>1, <1>2, <1>4
  <2> QED  BY <2>1, <1>2, <1>4, <1>6, <1>7, Zenon DEF Holds
<1>9. Gets(s, x, len[s])
  BY <1>1 DEF Gets, Memory, ArrayType
<1>10. x # <<>>
  BY <1>1, <1>2, <1>4
<1>11. Memory' /\ Only(s, x, len[s])
  BY <1>1, <1>8, <1>9, CollectedUpdate
<1> QED  BY <1>5, <1>10, <1>11 DEF Only

(* The array of d after s has been moved to it.                            *)
Joined(s, d) == IF back[d] = <<>> THEN back[s] ELSE Appended(back[d], len[d], Live(s))

LEMMA JoinedArray ==
  ASSUME Memory, NEW s \in Slices, NEW d \in Slices, s # d
  PROVE  LET x == Joined(s, d)
         IN  /\ Holds(x, len[d] + len[s], Pointers(back[s]) \cup Pointers(back[d]))
             /\ \A i \in 1..len[d] : x[i] = back[d][i]
             /\ \A i \in 1..len[s] : x[len[d] + i] = back[s][i]
             /\ x = <<>> <=> back[d] = <<>> /\ back[s] = <<>>
<1> DEFINE x == Joined(s, d)
           n == len[d] + len[s]
<1> USE DEF Memory
<1>1. /\ back[s] \in Seq(Cells \cup {Nil}) /\ len[s] \in Nat /\ len[s] <= Len(back[s])
      /\ back[d] \in Seq(Cells \cup {Nil}) /\ len[d] \in Nat /\ len[d] <= Len(back[d])
  BY DEF ArrayType
<1>2. /\ \A i \in 1..len[s] : back[s][i] \in Cells /\ back[s][i] \in Pointers(back[s])
      /\ \A i \in 1..len[d] : back[d][i] \in Cells /\ back[d][i] \in Pointers(back[d])
  BY LiveEntries
<1>3. /\ x \in Seq(Cells \cup {Nil})
      /\ n <= Len(x)
      /\ Pointers(x) \subseteq Pointers(back[s]) \cup Pointers(back[d])
      /\ \A i \in 1..len[d] : x[i] = back[d][i]
      /\ \A i \in 1..len[s] : x[len[d] + i] = back[s][i]
      /\ x = <<>> <=> back[d] = <<>> /\ back[s] = <<>>
  <2>1. CASE back[d] = <<>>
    <3>1. x = back[s] /\ len[d] = 0
      BY <2>1, <1>1 DEF Joined
    <3>2. \A i \in 1..len[s] : len[d] + i = i
      BY <3>1, <1>1
    <3>3. 1..len[d] = {}
      BY <3>1
    <3> HIDE DEF x
    <3> QED  BY <2>1, <1>1, <3>1, <3>2, <3>3
  <2>2. CASE back[d] # <<>>
    <3> DEFINE refs == Live(s)
    <3>1. /\ refs \in Seq(Cells) /\ Len(refs) = len[s] /\ DOMAIN refs = 1..len[s]
          /\ \A i \in 1..len[s] : refs[i] = back[s][i]
      BY <1>1, <1>2 DEF Live
    <3>2. x = Appended(back[d], len[d], refs)
      BY <2>2 DEF Joined
    <3> HIDE DEF x, refs
    <3> DEFINE b == back[d]
               m == len[d]
    <3>6. b \in Seq(Cells \cup {Nil}) /\ m \in Nat /\ m <= Len(b)
      BY <1>1
    <3> HIDE DEF b, m
    <3>7. LET a == Appended(b, m, refs)
          IN  /\ a \in Seq(Cells \cup {Nil})
              /\ m + Len(refs) <= Len(a)
              /\ Len(b) <= Len(a)
              /\ \A i \in 1..m : a[i] = b[i]
              /\ \A i \in 1..Len(refs) : a[m + i] = refs[i]
              /\ Pointers(a) \subseteq Pointers(b) \cup {refs[i] : i \in DOMAIN refs}
      BY <3>1, <3>6, AppendedArray
    <3>3. /\ x \in Seq(Cells \cup {Nil})
          /\ len[d] + len[s] <= Len(x)
          /\ Len(back[d]) <= Len(x)
          /\ \A i \in 1..len[d] : x[i] = back[d][i]
          /\ \A i \in 1..len[s] : x[len[d] + i] = refs[i]
          /\ Pointers(x) \subseteq Pointers(back[d]) \cup {refs[i] : i \in DOMAIN refs}
      BY <3>1, <3>2, <3>7 DEF b, m
    <3>4. x # <<>>
      BY <2>2, <1>1, <3>3
    <3>5. {refs[i] : i \in DOMAIN refs} \subseteq Pointers(back[s])
      BY <1>2, <3>1
    <3> QED  BY <2>2, <3>1, <3>3, <3>4, <3>5
  <2> QED  BY <2>1, <2>2
<1> HIDE DEF x
<1>4. ASSUME NEW i \in 1..n
      PROVE  \/ i \in 1..len[d] /\ x[i] = back[d][i]
             \/ i - len[d] \in 1..len[s] /\ x[i] = back[s][i - len[d]]
  <2>1. i \in 1..len[d] \/ (i - len[d] \in 1..len[s] /\ len[d] + (i - len[d]) = i)
    BY <1>1
  <2> QED  BY <2>1, <1>3
<1>5. \A i \in 1..n : x[i] # Nil
  BY <1>2, <1>4, NilNotCell
<1>6. ASSUME NEW i \in 1..n, NEW j \in 1..n, x[i] = x[j] PROVE i = j
  <2>1. \A p \in 1..len[d] : \A q \in 1..len[s] : back[d][p] # back[s][q]
    BY <1>2 DEF Ownership
  <2>2. CASE i \in 1..len[d] /\ j \in 1..len[d]
    BY <2>2, <1>3, <1>6 DEF Ownership
  <2>3. CASE i - len[d] \in 1..len[s] /\ j - len[d] \in 1..len[s] 
             /\ x[i] = back[s][i - len[d]] /\ x[j] = back[s][j - len[d]]
    <3>1. i - len[d] = j - len[d]
      BY <2>3, <1>6 DEF Ownership
    <3> QED  BY <3>1, <1>1
  <2> QED  BY <2>1, <2>2, <2>3, <1>4, <1>6
<1>7. n \in Nat
  BY <1>1
<1>8. Holds(x, n, Pointers(back[s]) \cup Pointers(back[d]))
  <2> HIDE DEF n, Memory
  <2> QED  BY <1>3, <1>5, <1>6, <1>7 DEF Holds, n
<1> QED  BY <1>3, <1>8 DEF x

LEMMA MoveAndAppendToStep ==
  ASSUME Memory, NEW s \in Slices, NEW d \in Slices, s # d, MoveAndAppendTo(s, d)
  PROVE  /\ Memory' /\ \A t \in Slices \ {s, d} : Untouched(t)
         /\ back'[s] = <<>> /\ len'[s] = 0 /\ len'[d] = len[d] + len[s]
         /\ \A i \in 1..len[d] : cell'[back'[d][i]] = cell[back[d][i]]
         /\ \A i \in 1..len[s] : cell'[back'[d][len[d] + i]] = cell[back[s][i]]
         /\ back'[d] = <<>> <=> back[d] = <<>> /\ back[s] = <<>>
<1> DEFINE x == Joined(s, d)
           n == len[d] + len[s]
<1>1. /\ Holds(x, n, Pointers(back[s]) \cup Pointers(back[d]))
      /\ \A i \in 1..len[d] : x[i] = back[d][i]
      /\ \A i \in 1..len[s] : x[len[d] + i] = back[s][i]
      /\ x = <<>> <=> back[d] = <<>> /\ back[s] = <<>>
  BY JoinedArray
<1>2. Takes(s, d, x, n) /\ Sweeps
  BY DEF MoveAndAppendTo, Takes, Sweeps, Joined, Memory, ArrayType
<1>3. len[s] \in Nat /\ len[d] \in Nat
  BY DEF Memory, ArrayType
<1>4. /\ \A i \in 1..len[s] : back[s][i] \in Cells
      /\ \A i \in 1..len[d] : back[d][i] \in Cells
  BY LiveEntries DEF Memory
<1>5. /\ \A i \in 1..len[d] : i \in 1..n
      /\ \A i \in 1..len[s] : len[d] + i \in 1..n
  BY <1>3
<1> HIDE DEF x, n
<1>6. /\ ArrayType' /\ Ownership'
      /\ back'[d] = x /\ len'[d] = n /\ back'[s] = <<>> /\ len'[s] = 0
      /\ \A t \in Slices \ {s, d} : back'[t] = back[t] /\ len'[t] = len[t]
  BY <1>1, <1>2, ArraysUpdate DEF Memory
<1>7. /\ CellType' /\ Clean'
      /\ \A c \in Pointers(x) \cap Cells : cell'[c] = cell[c]
  BY <1>2, <1>6, CollectedCells DEF Memory
<1>8. \A i \in 1..n : x[i] \in Pointers(x)
  BY <1>1 DEF Holds, Pointers
<1>9. \A i \in 1..len[d] : cell'[x[i]] = cell[back[d][i]]
  BY <1>1, <1>4, <1>5, <1>7, <1>8
<1>10. \A i \in 1..len[s] : cell'[x[len[d] + i]] = cell[back[s][i]]
  BY <1>1, <1>4, <1>5, <1>7, <1>8
<1>11. \A t \in Slices \ {s, d} : Untouched(t)
  BY <1>2, <1>6, CollectedUntouched
<1>12. len'[d] = len[d] + len[s]
  BY <1>6 DEF n
<1> QED  BY <1>1, <1>6, <1>7, <1>9, <1>10, <1>11, <1>12 DEF Memory

(* Moving a slice to itself empties it.                                    *)
LEMMA MoveToItselfStep ==
  ASSUME Memory, NEW s \in Slices, MoveAndAppendTo(s, s)
  PROVE  /\ Memory' /\ \A t \in Slices \ {s} : Untouched(t)
         /\ back'[s] = <<>> /\ len'[s] = 0
<1>1. Gets(s, <<>>, 0) /\ Sweeps
  BY DEF MoveAndAppendTo, Gets, Sweeps, Memory, ArrayType
<1>2. Holds(<<>>, 0, Pointers(back[s]) \cup Unused)
  BY DEF Holds, Pointers
<1>3. Memory' /\ Only(s, <<>>, 0)
  BY <1>1, <1>2, CollectedUpdate
<1> QED  BY <1>3 DEF Only

(* What is kept is a subsequence; what is sorted is a permutation.         *)
LEMMA KeptPlaces ==
  ASSUME NEW n \in Nat, NEW K \in SUBSET (1..n), NEW kept \in Kept(n, K)
  PROVE  /\ Len(kept) \in Nat /\ Len(kept) <= n /\ DOMAIN kept = 1..Len(kept)
         /\ \A i \in DOMAIN kept : kept[i] \in 1..n
         /\ \A i, j \in DOMAIN kept : kept[i] = kept[j] => i = j
<1>1. PICK m \in 0..n : kept \in [1..m -> 1..n]
  BY DEF Kept
<1>2. Len(kept) = m /\ DOMAIN kept = 1..m
  BY <1>1
<1>3. \A i, j \in DOMAIN kept : i < j => kept[i] < kept[j]
  BY DEF Kept
<1>4. ASSUME NEW i \in DOMAIN kept, NEW j \in DOMAIN kept, kept[i] = kept[j], i # j PROVE FALSE
  <2>1. kept[i] \in 1..n /\ kept[j] \in 1..n
    BY <1>1, <1>2
  <2>2. i < j \/ j < i
    BY <1>2, <1>4
  <2> QED  BY <1>3, <1>4, <2>1, <2>2
<1> QED  BY <1>1, <1>2, <1>4

LEMMA StablePlaces ==
  ASSUME NEW n \in Nat, NEW K, NEW sorted \in Stable(n, K)
  PROVE  /\ sorted \in [1..n -> 1..n]
         /\ \A i, j \in 1..n : sorted[i] = sorted[j] => i = j
         /\ \A j \in 1..n : \E i \in 1..n : sorted[i] = j
<1>1. sorted \in [1..n -> 1..n]
  BY DEF Stable
<1>2. \A i, j \in 1..n : i < j => Before(K, sorted[i], sorted[j])
  BY DEF Stable
<1>3. ASSUME NEW i \in 1..n, NEW j \in 1..n, sorted[i] = sorted[j], i # j PROVE FALSE
  <2>1. sorted[i] \in 1..n /\ sorted[j] \in 1..n
    BY <1>1
  <2>2. i < j \/ j < i
    BY <1>3
  <2>3. ~ Before(K, sorted[i], sorted[i])
    BY <2>1 DEF Before
  <2> QED  BY <1>2, <1>3, <2>2, <2>3
<1>4. sorted \in Injection(1..n, 1..n)
  BY <1>1, <1>3 DEF Injection, IsInjective
<1>5. IsFiniteSet(1..n)
  BY FS_Interval
<1>6. sorted \in Surjection(1..n, 1..n)
  BY <1>4, <1>5, FS_Injection
<1> QED  BY <1>1, <1>3, <1>6 DEF Surjection

LEMMA RemoveIfStep ==
  ASSUME Memory, NEW s \in Slices, NEW k, RemoveIf(s, k)
  PROVE  /\ Memory' /\ \A t \in Slices \ {s} : Untouched(t)
         /\ \E kept \in Kept(len[s], 1..len[s] \ With(s, k)) :
              /\ len'[s] = Len(kept)
              /\ \A i \in 1..Len(kept) : cell'[back'[s][i]] = cell[back[s][kept[i]]]
         /\ back'[s] = <<>> <=> back[s] = <<>>
<1>1. PICK kept \in Kept(len[s], 1..len[s] \ With(s, k)) :
        /\ back' = [back EXCEPT ![s] = [i \in DOMAIN back[s] |->
                      IF i \in DOMAIN kept THEN back[s][kept[i]] ELSE back[s][i]]]
        /\ len' = [len EXCEPT ![s] = Len(kept)]
        /\ Sweeps
  BY DEF RemoveIf, Sweeps
<1> DEFINE x == [i \in DOMAIN back[s] |->
                   IF i \in DOMAIN kept THEN back[s][kept[i]] ELSE back[s][i]]
           n == Len(kept)
<1>2. /\ back[s] \in Seq(Cells \cup {Nil}) /\ Len(back[s]) \in Nat /\ DOMAIN back[s] = 1..Len(back[s])
      /\ len[s] \in Nat /\ len[s] <= Len(back[s])
      /\ \A i \in DOMAIN back[s] : back[s][i] \in Cells \cup {Nil}
  BY DEF Memory, ArrayType
<1>3. /\ n \in Nat /\ n <= len[s] /\ DOMAIN kept = 1..n
      /\ \A i \in DOMAIN kept : kept[i] \in 1..len[s]
      /\ \A i, j \in DOMAIN kept : kept[i] = kept[j] => i = j
  BY <1>2, KeptPlaces
<1>4. \A i \in 1..len[s] : i \in DOMAIN back[s] /\ back[s][i] \in Cells
  BY LiveEntries DEF Memory
<1>5. /\ \A i \in DOMAIN back[s] : x[i] \in {back[s][j] : j \in DOMAIN back[s]}
      /\ \A i \in 1..n : i \in DOMAIN back[s] /\ x[i] = back[s][kept[i]]
  <2>1. \A i \in 1..n : i \in DOMAIN back[s]
    BY <1>2, <1>3
  <2>2. \A i \in DOMAIN kept : kept[i] \in DOMAIN back[s]
    BY <1>3, <1>4
  <2> QED  BY <1>3, <2>1, <2>2
<1>6. x \in Seq(Cells \cup {Nil}) /\ Len(x) = Len(back[s]) /\ DOMAIN x = DOMAIN back[s]
  <2>1. x \in [1..Len(back[s]) -> Cells \cup {Nil}]
    BY <1>2, <1>5
  <2> QED  BY <1>2, <2>1
<1> HIDE DEF x, n
<1>7. Pointers(x) \subseteq Pointers(back[s]) \cup Unused
  BY <1>5, <1>6 DEF Pointers
<1>8. \A i \in 1..n : x[i] # Nil
  BY <1>3, <1>4, <1>5, NilNotCell
<1>9. ASSUME NEW i \in 1..n, NEW j \in 1..n, x[i] = x[j] PROVE i = j
  <2>1. kept[i] \in 1..len[s] /\ kept[j] \in 1..len[s] /\ back[s][kept[i]] = back[s][kept[j]]
    BY <1>3, <1>5, <1>9
  <2>2. kept[i] = kept[j]
    BY <2>1 DEF Memory, Ownership
  <2> QED  BY <1>3, <2>2
<1>10. Holds(x, n, Pointers(back[s]) \cup Unused)
  <2>1. n <= Len(x)
    BY <1>2, <1>3, <1>6
  <2> QED  BY <2>1, <1>3, <1>6, <1>7, <1>8, <1>9 DEF Holds
<1>11. Gets(s, x, n) /\ Sweeps
  BY <1>1 DEF Gets, x, n
<1>12. Memory' /\ Only(s, x, n)
  BY <1>10, <1>11, CollectedUpdate
<1>13. x = <<>> <=> back[s] = <<>>
  BY <1>2, <1>6
<1>14. /\ len'[s] = Len(kept)
       /\ \A i \in 1..Len(kept) : cell'[back'[s][i]] = cell[back[s][kept[i]]]
  BY <1>5, <1>12 DEF Only, n
<1> QED  BY <1>12, <1>13, <1>14 DEF Only

LEMMA SortStep ==
  ASSUME Memory, NEW s \in Slices, NEW k, Sort(s, k)
  PROVE  /\ Memory' /\ \A t \in Slices \ {s} : Untouched(t)
         /\ \E sorted \in Stable(len[s], With(s, k)) :
              \A i \in 1..len[s] : cell'[back'[s][i]] = cell[back[s][sorted[i]]]
         /\ len'[s] = len[s]
         /\ back'[s] = <<>> <=> back[s] = <<>>
<1>1. PICK sorted \in Stable(len[s], With(s, k)) :
        back' = [back EXCEPT ![s] =
                   [i \in DOMAIN back[s] |-> IF i <= len[s] THEN back[s][sorted[i]] ELSE back[s][i]]]
  BY DEF Sort
<1> DEFINE x == [i \in DOMAIN back[s] |-> IF i <= len[s] THEN back[s][sorted[i]] ELSE back[s][i]]
<1>2. /\ back[s] \in Seq(Cells \cup {Nil}) /\ Len(back[s]) \in Nat /\ DOMAIN back[s] = 1..Len(back[s])
      /\ len[s] \in Nat /\ len[s] <= Len(back[s])
      /\ \A i \in DOMAIN back[s] : back[s][i] \in Cells \cup {Nil}
  BY DEF Memory, ArrayType
<1>3. /\ sorted \in [1..len[s] -> 1..len[s]]
      /\ \A i, j \in 1..len[s] : sorted[i] = sorted[j] => i = j
      /\ \A j \in 1..len[s] : \E i \in 1..len[s] : sorted[i] = j
  BY <1>2, StablePlaces
<1>4. \A i \in 1..len[s] : i \in DOMAIN back[s] /\ back[s][i] \in Cells
  BY LiveEntries DEF Memory
<1>5. /\ \A i \in 1..len[s] : sorted[i] \in 1..len[s] /\ x[i] = back[s][sorted[i]]
      /\ \A i \in DOMAIN back[s] \ (1..len[s]) : x[i] = back[s][i]
  <2>1. /\ \A i \in 1..len[s] : i <= len[s] /\ sorted[i] \in 1..len[s]
        /\ \A i \in DOMAIN back[s] \ (1..len[s]) : ~ (i <= len[s])
    BY <1>2, <1>3
  <2> QED  BY <1>4, <2>1
<1>6. \A i \in DOMAIN back[s] : x[i] \in {back[s][j] : j \in DOMAIN back[s]}
  <2>1. \A i \in DOMAIN back[s] : i \in 1..len[s] \/ i \in DOMAIN back[s] \ (1..len[s])
    OBVIOUS
  <2>2. \A i \in 1..len[s] : sorted[i] \in DOMAIN back[s]
    BY <1>4, <1>5
  <2> QED  BY <1>5, <2>1, <2>2
<1>7. x \in Seq(Cells \cup {Nil}) /\ Len(x) = Len(back[s]) /\ DOMAIN x = DOMAIN back[s]
  <2>1. x \in [1..Len(back[s]) -> Cells \cup {Nil}]
    BY <1>2, <1>6
  <2> QED  BY <1>2, <2>1
<1> HIDE DEF x
<1>8. \A j \in DOMAIN back[s] : back[s][j] \in {x[i] : i \in DOMAIN x}
  <2>1. ASSUME NEW j \in 1..len[s] PROVE back[s][j] \in {x[i] : i \in DOMAIN x}
    <3>1. PICK i \in 1..len[s] : sorted[i] = j
      BY <1>3
    <3>2. x[i] = back[s][j] /\ i \in DOMAIN x
      BY <1>4, <1>5, <1>7, <3>1
    <3> QED  BY <3>2
  <2>2. ASSUME NEW j \in DOMAIN back[s] \ (1..len[s]) PROVE back[s][j] \in {x[i] : i \in DOMAIN x}
    BY <1>5, <1>7
  <2> QED  BY <2>1, <2>2
<1>9. Pointers(x) = Pointers(back[s])
  BY <1>6, <1>7, <1>8 DEF Pointers
<1>10. \A i \in 1..len[s] : x[i] # Nil
  BY <1>4, <1>5, NilNotCell
<1>11. ASSUME NEW i \in 1..len[s], NEW j \in 1..len[s], x[i] = x[j] PROVE i = j
  <2>1. sorted[i] = sorted[j]
    BY <1>5, <1>11 DEF Memory, Ownership
  <2> QED  BY <1>3, <2>1
<1>12. Holds(x, len[s], Pointers(back[s]) \cup Unused)
  <2>1. len[s] <= Len(x)
    BY <1>2, <1>7
  <2> QED  BY <2>1, <1>2, <1>7, <1>9, <1>10, <1>11, Zenon DEF Holds
<1>13. Gets(s, x, len[s]) /\ cell' = cell
  BY <1>1 DEF Gets, x, Sort, Memory, ArrayType
<1>14. /\ ArrayType' /\ Ownership'
       /\ back'[s] = x /\ len'[s] = len[s]
       /\ \A t \in Slices \ {s} : back'[t] = back[t] /\ len'[t] = len[t]
  BY <1>12, <1>13, ArrayUpdate DEF Memory
<1>15. Unused' = Unused
  <2>1. \A t \in Slices : Pointers(back'[t]) = Pointers(back[t])
    BY <1>9, <1>14
  <2> QED  BY <2>1 DEF Unused
<1>16. Memory'
  BY <1>13, <1>14, <1>15 DEF Memory, CellType, Clean
<1>17. \A t \in Slices \ {s} : Untouched(t)
  BY <1>13, <1>14 DEF Untouched
<1>18. \A i \in 1..len[s] : cell'[back'[s][i]] = cell[back[s][sorted[i]]]
  BY <1>5, <1>13, <1>14
<1>19. x = <<>> <=> back[s] = <<>>
  BY <1>2, <1>7
<1> QED  BY <1>14, <1>16, <1>17, <1>18, <1>19

(* Some places among 1..n have a last one.                                 *)
LEMMA LastPlace ==
  ASSUME NEW n \in Nat, NEW P \in SUBSET (1..n), P # {}
  PROVE  \E i \in P : \A j \in P : j <= i
<1> DEFINE R == OpToRel(<, Nat)
           T == {n - i : i \in P}
<1>1. R = {ss \in Nat \X Nat : ss[1] < ss[2]}
  BY DEF OpToRel
<1> HIDE DEF R
<1>2. T \subseteq Nat /\ T # {}
  <2>1. \A i \in P : n - i \in Nat
    OBVIOUS
  <2> QED  BY <2>1
<1>3. PICK x \in T : \A y \in T : ~ (<<y, x>> \in R)
  <2>1. IsWellFoundedOn(R, Nat)
    BY NatLessThanWellFounded DEF R
  <2> HIDE DEF T
  <2> QED  BY <1>2, <2>1, WFMin
<1>4. \A y \in T : x <= y
  <2>1. ASSUME NEW y \in T PROVE ~ (y < x)
    <3>1. <<y, x>> \in Nat \X Nat /\ <<y, x>>[1] = y /\ <<y, x>>[2] = x
      BY <1>2
    <3> HIDE DEF T
    <3> QED  BY <1>1, <1>3, <3>1
  <2>2. x \in Nat /\ \A y \in T : y \in Nat
    BY <1>2
  <2> HIDE DEF T
  <2> QED  BY <2>1, <2>2
<1>5. PICK i \in P : x = n - i
  OBVIOUS
<1>6. ASSUME NEW j \in P PROVE j <= i
  <2>1. n - j \in T
    OBVIOUS
  <2>2. x <= n - j
    BY <2>1, <1>4
  <2> QED  BY <2>2, <1>5
<1> QED  BY <1>6

(* No element is in two places.                                            *)
LEMMA OwnPlace ==
  ASSUME Memory, NEW s \in Slices, NEW t \in Slices,
         NEW i \in 1..len[s], NEW p \in 1..len[t], back[s][i] = back[t][p]
  PROVE  s = t /\ i = p
<1>1. back[s][i] \in Pointers(back[s]) /\ back[t][p] \in Pointers(back[t])
  BY LiveEntries DEF Memory
<1>2. s = t
  BY <1>1 DEF Memory, Ownership
<1> QED  BY <1>2 DEF Memory, Ownership

(* Only elements change.                                                   *)
LEMMA CellsUpdate ==
  ASSUME Memory, back' = back, len' = len, CellType',
         \A c \in Unused : cell'[c] = cell[c]
  PROVE  Memory'
<1>1. ArrayType' /\ Ownership'
  BY DEF Memory, ArrayType, Ownership
<1>2. Unused' = Unused
  BY DEF Unused
<1>3. Clean'
  BY <1>2 DEF Memory, Clean
<1> QED  BY <1>1, <1>3 DEF Memory

(* What CopyTo writes into an element: the last element that goes there.   *)
Source(s, d, c) ==
  CHOOSE i \in 1..len[s] : back[d][i] = c /\ \A j \in 1..len[s] : back[d][j] = c => j <= i

LEMMA SourcePlace ==
  ASSUME NEW s \in Slices, NEW d, NEW c, len[s] \in Nat, \E i \in 1..len[s] : back[d][i] = c
  PROVE  Source(s, d, c) \in 1..len[s] /\ back[d][Source(s, d, c)] = c
<1> DEFINE P == {i \in 1..len[s] : back[d][i] = c}
<1>1. P \in SUBSET (1..len[s]) /\ P # {}
  OBVIOUS
<1>2. \E i \in P : \A j \in P : j <= i
  <2> HIDE DEF P
  <2> QED  BY <1>1, LastPlace
<1>3. \E i \in 1..len[s] : back[d][i] = c /\ \A j \in 1..len[s] : back[d][j] = c => j <= i
  BY <1>2
<1> QED  BY <1>3 DEF Source

LEMMA CopyOverCells ==
  ASSUME Memory, NEW s \in Slices, NEW d \in Slices, CopyOver(s, d)
  PROVE  /\ CellType'
         /\ \A c \in Cells : IF \E i \in 1..len[s] : back[d][i] = c
                             THEN cell'[c] = cell[back[s][Source(s, d, c)]]
                             ELSE cell'[c] = cell[c]
         /\ \A t \in Slices \ {d} : Untouched(t)
<1>1. cell' = [c \in Cells |-> IF \E i \in 1..len[s] : back[d][i] = c
                               THEN cell[back[s][Source(s, d, c)]] ELSE cell[c]]
  BY DEF CopyOver, Source
<1>2. len[s] \in Nat /\ \A i \in 1..len[s] : back[s][i] \in Cells
  BY LiveEntries DEF Memory, ArrayType
<1>3. \A c \in Cells : cell[c] \in Maps(Keys, Values)
  BY DEF Memory, CellType
<1>4. ASSUME NEW c \in Cells PROVE cell'[c] \in Maps(Keys, Values)
  <2>1. CASE \E i \in 1..len[s] : back[d][i] = c
    <3>1. Source(s, d, c) \in 1..len[s]
      BY <1>2, <2>1, SourcePlace
    <3> QED  BY <1>1, <1>2, <1>3, <2>1, <3>1
  <2>2. CASE ~ \E i \in 1..len[s] : back[d][i] = c
    BY <1>1, <1>3, <2>2
  <2> QED  BY <2>1, <2>2
<1>5. cell' = [c \in Cells |-> cell'[c]]
  BY <1>1
<1>6. CellType'
  BY <1>4, <1>5 DEF CellType
<1>7. \A c \in Cells : IF \E i \in 1..len[s] : back[d][i] = c
                       THEN cell'[c] = cell[back[s][Source(s, d, c)]]
                       ELSE cell'[c] = cell[c]
  BY <1>1
<1>8. \A i \in 1..len[s] : back[d][i] \in Pointers(back[d])
  BY DEF CopyOver, Pointers, Memory, ArrayType
<1>9. ASSUME NEW t \in Slices \ {d} PROVE Untouched(t)
  <2>1. ASSUME NEW i \in 1..len[t] PROVE cell'[back[t][i]] = cell[back[t][i]]
    <3>1. back[t][i] \in Cells /\ back[t][i] \in Pointers(back[t])
      BY LiveEntries DEF Memory
    <3>2. back[t][i] \notin Pointers(back[d])
      BY <3>1 DEF Memory, Ownership
    <3> QED  BY <1>7, <1>8, <3>1, <3>2
  <2>2. back'[t] = back[t] /\ len'[t] = len[t]
    BY DEF CopyOver, Memory, ArrayType
  <2> QED  BY <2>1, <2>2 DEF Untouched
<1> QED  BY <1>6, <1>7, <1>9

LEMMA CopyOverStep ==
  ASSUME Memory, NEW s \in Slices, NEW d \in Slices, CopyOver(s, d), Distinct(Reused(s, d))
  PROVE  /\ Memory' /\ \A t \in Slices \ {d} : Untouched(t)
         /\ back' = back /\ len'[d] = len[s]
         /\ \A i \in 1..len[s] : cell'[back'[d][i]] = cell[back[s][i]]
<1>1. /\ len[s] <= Len(back[d])
      /\ Nil \notin {back[d][i] : i \in 1..len[s]}
      /\ len' = [len EXCEPT ![d] = len[s]]
      /\ back' = back
  BY DEF CopyOver
<1>2. /\ back[d] \in Seq(Cells \cup {Nil}) /\ len[s] \in Nat
      /\ DOMAIN back[d] = 1..Len(back[d]) /\ Len(back[d]) \in Nat
  BY DEF Memory, ArrayType
<1>3. \A i, j \in 1..len[s] : back[d][i] = back[d][j] => i = j
  <2>1. /\ DOMAIN Reused(s, d) = 1..len[s]
        /\ \A i \in 1..len[s] : Reused(s, d)[i] = back[d][i]
    BY <1>1, <1>2 DEF Reused
  <2> QED  BY <2>1 DEF Distinct
<1>4. \A i \in 1..len[s] : back[d][i] \in Cells /\ back[d][i] \in Pointers(back[d])
  BY <1>1, <1>2 DEF Pointers
<1>5. Holds(back[d], len[s], Pointers(back[d]) \cup Unused)
  BY <1>1, <1>2, <1>3 DEF Holds
<1>6. Gets(d, back[d], len[s])
  BY <1>1 DEF Gets, Memory, ArrayType
<1>7. /\ ArrayType' /\ Ownership'
      /\ back'[d] = back[d] /\ len'[d] = len[s]
      /\ \A t \in Slices \ {d} : back'[t] = back[t] /\ len'[t] = len[t]
  BY <1>5, <1>6, ArrayUpdate DEF Memory
<1>8. /\ CellType'
      /\ \A c \in Cells : IF \E i \in 1..len[s] : back[d][i] = c
                          THEN cell'[c] = cell[back[s][Source(s, d, c)]]
                          ELSE cell'[c] = cell[c]
  BY CopyOverCells
<1>9. \A c \in Cells \ Pointers(back[d]) : cell'[c] = cell[c]
  BY <1>4, <1>8
<1>10. Clean'
  <2>1. Unused' = Unused
    BY <1>1 DEF Unused
  <2>2. Unused \subseteq Cells \ Pointers(back[d])
    BY DEF Unused
  <2> QED  BY <1>9, <2>1, <2>2 DEF Clean, Memory
<1>11. \A t \in Slices \ {d} : Untouched(t)
  BY CopyOverCells
<1>12. ASSUME NEW i \in 1..len[s] PROVE cell'[back[d][i]] = cell[back[s][i]]
  <2> DEFINE c == back[d][i]
  <2>1. /\ c \in Cells /\ Source(s, d, c) \in 1..len[s] /\ back[d][Source(s, d, c)] = c
    BY <1>2, <1>4, SourcePlace
  <2>2. Source(s, d, c) = i
    BY <1>3, <2>1
  <2> QED  BY <1>8, <2>1, <2>2
<1> QED  BY <1>1, <1>7, <1>8, <1>10, <1>11, <1>12 DEF Memory

LEMMA CopyToNewStep ==
  ASSUME Memory, NEW s \in Slices, NEW d \in Slices, CopyToNew(s, d)
  PROVE  /\ Memory' /\ \A t \in Slices \ {d} : Untouched(t)
         /\ back'[d] # <<>> /\ len'[d] = len[s]
         /\ \A i \in 1..len[s] : cell'[back'[d][i]] = cell[back[s][i]]
<1> DEFINE n == len[s]
<1>1. PICK refs \in New(n) :
        /\ back' = [back EXCEPT ![d] = refs]
        /\ len' = [len EXCEPT ![d] = n]
        /\ cell' = [c \in Cells |->
                      IF \E i \in DOMAIN refs : refs[i] = c
                      THEN cell[back[s][CHOOSE i \in DOMAIN refs : refs[i] = c]]
                      ELSE Collected(cell, back')[c]]
  BY DEF CopyToNew
<1>2. n \in Nat /\ n > Len(back[d]) /\ Len(back[d]) \in Nat
  BY DEF Memory, ArrayType, CopyToNew
<1>3. \A i \in 1..n : back[s][i] \in Cells
  BY LiveEntries DEF Memory
<1> HIDE DEF n
<1>4. /\ refs \in [1..n -> Unused] /\ refs \in Seq(Cells) /\ Len(refs) = n
      /\ \A i, j \in 1..n : refs[i] = refs[j] => i = j
  BY <1>2, NewElements
<1>5. /\ DOMAIN refs = 1..n /\ refs \in Seq(Cells \cup {Nil})
      /\ \A i \in 1..n : refs[i] \in Cells /\ refs[i] \in Unused /\ refs[i] # Nil
  BY <1>4, NilNotCell DEF Unused
<1>6. Pointers(refs) \subseteq Pointers(back[d]) \cup Unused
  BY <1>5 DEF Pointers
<1>7. Holds(refs, n, Pointers(back[d]) \cup Unused)
  BY <1>2, <1>4, <1>5, <1>6 DEF Holds
<1>8. Gets(d, refs, n)
  BY <1>1 DEF Gets
<1>9. /\ ArrayType' /\ Ownership'
      /\ back'[d] = refs /\ len'[d] = n
      /\ \A t \in Slices \ {d} : back'[t] = back[t] /\ len'[t] = len[t]
  BY <1>7, <1>8, ArrayUpdate DEF Memory
<1>10. ASSUME NEW i \in 1..n PROVE cell'[refs[i]] = cell[back[s][i]]
  <2>1. (CHOOSE j \in DOMAIN refs : refs[j] = refs[i]) = i
    BY <1>4, <1>5
  <2>2. \E j \in DOMAIN refs : refs[j] = refs[i]
    BY <1>5
  <2> QED  BY <1>1, <1>5, <2>1, <2>2
<1>11. \A c \in Cells : (\A i \in 1..n : refs[i] # c) =>
         cell'[c] = IF \E t \in Slices : c \in Pointers(back'[t]) THEN cell[c] ELSE <<>>
  BY <1>1, <1>5 DEF Collected
<1>12. CellType'
  <2>1. ASSUME NEW c \in Cells PROVE cell'[c] \in Maps(Keys, Values)
    <3>1. CASE \E i \in 1..n : refs[i] = c
      BY <1>3, <1>10, <3>1 DEF Memory, CellType
    <3>2. CASE \A i \in 1..n : refs[i] # c
      BY <1>11, <3>2, EmptyMap DEF Memory, CellType
    <3> QED  BY <3>1, <3>2
  <2>2. cell' = [c \in Cells |-> cell'[c]]
    BY <1>1
  <2> QED  BY <2>1, <2>2 DEF CellType
<1>13. Clean'
  <2>1. ASSUME NEW c \in Unused' PROVE cell'[c] = <<>>
    <3>1. c \in Cells /\ \A t \in Slices : c \notin Pointers(back'[t])
      BY DEF Unused
    <3>2. \A i \in 1..n : refs[i] # c
      BY <1>5, <1>9, <3>1 DEF Pointers
    <3> QED  BY <1>11, <3>1, <3>2
  <2> QED  BY <2>1 DEF Clean
<1>14. ASSUME NEW t \in Slices \ {d} PROVE Untouched(t)
  <2>1. ASSUME NEW i \in 1..len[t] PROVE cell'[back[t][i]] = cell[back[t][i]]
    <3>1. /\ back[t][i] \in Cells /\ back[t][i] \in Pointers(back[t])
          /\ back[t][i] \notin Unused
      BY LiveEntries DEF Memory
    <3>2. \A j \in 1..n : refs[j] # back[t][i]
      BY <1>5, <3>1
    <3>3. back[t][i] \in Pointers(back'[t])
      BY <1>9, <3>1
    <3> QED  BY <1>11, <3>1, <3>2, <3>3
  <2> QED  BY <1>9, <2>1 DEF Untouched
<1>15. refs # <<>>
  BY <1>2, <1>4
<1> QED  BY <1>9, <1>10, <1>12, <1>13, <1>14, <1>15 DEF Memory, n

(* One element changes, or two.                                            *)
LEMMA MoveToStep ==
  ASSUME Memory, NEW s \in Slices, NEW d \in Slices, NEW i \in 1..len[s], NEW j \in 1..len[d],
         MoveTo(s, i, d, j)
  PROVE  /\ Memory' /\ back' = back /\ len' = len
         /\ \A t \in Slices : \A p \in 1..len[t] :
              cell'[back[t][p]] = IF t = s /\ p = i THEN <<>>
                                  ELSE IF t = d /\ p = j THEN cell[back[s][i]]
                                  ELSE cell[back[t][p]]
<1> DEFINE a == back[s][i]
           b == back[d][j]
<1>1. /\ cell' = [cell EXCEPT ![b] = cell[a], ![a] = <<>>]
      /\ back' = back /\ len' = len
  BY DEF MoveTo
<1>2. a \in Cells /\ a \notin Unused /\ b \in Cells /\ b \notin Unused
  BY LiveEntries DEF Memory
<1>3. cell \in [Cells -> Maps(Keys, Values)]
  BY DEF Memory, CellType
<1>4. ASSUME NEW t \in Slices, NEW p \in 1..len[t]
      PROVE  /\ back[t][p] \in Cells
             /\ back[t][p] = a <=> t = s /\ p = i
             /\ back[t][p] = b <=> t = d /\ p = j
  BY LiveEntries, OwnPlace DEF Memory
<1> HIDE DEF a, b
<1>5. \A c \in Cells : cell'[c] = IF c = a THEN <<>> ELSE IF c = b THEN cell[a] ELSE cell[c]
  BY <1>1, <1>2, <1>3
<1>6. cell' \in [Cells -> Maps(Keys, Values)]
  BY <1>1, <1>2, <1>3, EmptyMap
<1>7. \A c \in Unused : cell'[c] = cell[c]
  BY <1>2, <1>5 DEF Unused
<1>8. Memory'
  BY <1>1, <1>6, <1>7, CellsUpdate DEF CellType
<1>9. \A t \in Slices : \A p \in 1..len[t] :
              cell'[back[t][p]] = IF t = s /\ p = i THEN <<>>
                                  ELSE IF t = d /\ p = j THEN cell[a]
                                  ELSE cell[back[t][p]]
  BY <1>4, <1>5
<1> QED  BY <1>1, <1>8, <1>9 DEF a

LEMMA AttributeStep ==
  ASSUME Memory, NEW s \in Slices, NEW i \in 1..len[s], NEW m \in Maps(Keys, Values),
         cell' = [cell EXCEPT ![back[s][i]] = m], back' = back, len' = len
  PROVE  /\ Memory'
         /\ \A t \in Slices : \A p \in 1..len[t] :
              cell'[back[t][p]] = IF t = s /\ p = i THEN m ELSE cell[back[t][p]]
<1> DEFINE a == back[s][i]
<1>1. a \in Cells /\ a \notin Unused
  BY LiveEntries DEF Memory
<1>2. cell \in [Cells -> Maps(Keys, Values)]
  BY DEF Memory, CellType
<1>3. ASSUME NEW t \in Slices, NEW p \in 1..len[t]
      PROVE  back[t][p] \in Cells /\ (back[t][p] = a <=> t = s /\ p = i)
  BY LiveEntries, OwnPlace DEF Memory
<1>4. cell' = [cell EXCEPT ![a] = m]
  OBVIOUS
<1> HIDE DEF a
<1>5. \A c \in Cells : cell'[c] = IF c = a THEN m ELSE cell[c]
  BY <1>1, <1>2, <1>4
<1>6. cell' \in [Cells -> Maps(Keys, Values)]
  BY <1>1, <1>2, <1>4
<1>7. \A c \in Unused : cell'[c] = cell[c]
  BY <1>1, <1>5 DEF Unused
<1>8. Memory'
  BY <1>6, <1>7, CellsUpdate DEF CellType
<1> QED  BY <1>3, <1>5, <1>8

LEMMA PutAttributeStep ==
  ASSUME Memory, NEW s \in Slices, NEW i \in 1..len[s], NEW k \in Keys, NEW v \in Values,
         PutAttribute(s, i, k, v)
  PROVE  /\ Memory' /\ back' = back /\ len' = len
         /\ \A t \in Slices : \A p \in 1..len[t] :
              cell'[back[t][p]] = IF t = s /\ p = i THEN PutStr(cell[back[t][p]], k, v)
                                  ELSE cell[back[t][p]]
<1> DEFINE m == PutStr(cell[back[s][i]], k, v)
<1>1. cell[back[s][i]] \in Maps(Keys, Values)
  BY LiveEntries DEF Memory, CellType
<1>2. m \in Maps(Keys, Values)
  BY <1>1, PutStrOverrides
<1>3. cell' = [cell EXCEPT ![back[s][i]] = m] /\ back' = back /\ len' = len
  BY DEF PutAttribute
<1> HIDE DEF m
<1>4. /\ Memory'
      /\ \A t \in Slices : \A p \in 1..len[t] :
           cell'[back[t][p]] = IF t = s /\ p = i THEN m ELSE cell[back[t][p]]
  BY ZenonT(60), <1>2, <1>3, AttributeStep
<1> QED  BY <1>3, <1>4 DEF m

LEMMA RemoveAttributeStep ==
  ASSUME Memory, NEW s \in Slices, NEW i \in 1..len[s], NEW k \in Keys,
         RemoveAttribute(s, i, k)
  PROVE  /\ Memory' /\ back' = back /\ len' = len
         /\ \A t \in Slices : \A p \in 1..len[t] :
              cell'[back[t][p]] = IF t = s /\ p = i THEN Remove(cell[back[t][p]], k)
                                  ELSE cell[back[t][p]]
<1> DEFINE m == Remove(cell[back[s][i]], k)
<1>1. cell[back[s][i]] \in Maps(Keys, Values)
  BY LiveEntries DEF Memory, CellType
<1>2. m \in Maps(Keys, Values)
  BY <1>1, RemoveDrops
<1>3. cell' = [cell EXCEPT ![back[s][i]] = m] /\ back' = back /\ len' = len
  BY DEF RemoveAttribute
<1> HIDE DEF m
<1>4. /\ Memory'
      /\ \A t \in Slices : \A p \in 1..len[t] :
           cell'[back[t][p]] = IF t = s /\ p = i THEN m ELSE cell[back[t][p]]
  BY ZenonT(60), <1>2, <1>3, AttributeStep
<1> QED  BY <1>3, <1>4 DEF m
-----------------------------------------------------------------------------
(* The invariant, and that no step changes what is shared.                 *)

LEMMA UntouchedElements ==
  ASSUME Memory, NEW t \in Slices, Untouched(t)
  PROVE  Elements(t)' = Elements(t)
BY DEF Untouched, Elements, Memory, ArrayType

Guarded == \A s \in readOnly : state = "running" => Elements(s)' = Elements(s)

(* A step that only writes the slices of W, which are not shared.          *)
LEMMA Writes ==
  ASSUME IInv, state = "running", NEW W \in SUBSET Writable,
         \A t \in Slices \ W : Untouched(t)
  PROVE  Guarded
<1>1. readOnly \subseteq Slices \ W
  BY DEF IInv, Writable
<1>2. \A t \in Slices \ W : Elements(t)' = Elements(t)
  BY UntouchedElements DEF IInv
<1> QED  BY <1>1, <1>2 DEF Guarded

LEMMA MemoryKept ==
  ASSUME IInv, Memory', state' \in {"running", "panicked"}, readOnly' \in SUBSET Slices
  PROVE  IInv'
BY DEF IInv, Memory

LEMMA SameMemory ==
  ASSUME back' = back, len' = len, cell' = cell
  PROVE  /\ Memory => Memory'
         /\ \A t \in Slices : Untouched(t)
<1>1. ArrayType' = ArrayType /\ CellType' = CellType /\ Ownership' = Ownership /\ Clean' = Clean
  BY DEF ArrayType, CellType, Ownership, Clean, Unused
<1> QED  BY <1>1 DEF Memory, Untouched

LEMMA Initial == Init => IInv
<1> SUFFICES ASSUME Init PROVE IInv
  OBVIOUS
<1>1. <<>> \in Seq(Cells \cup {Nil}) /\ Len(<<>>) = 0 /\ 1..0 = {}
  OBVIOUS
<1>2. ArrayType
  BY <1>1 DEF Init, ArrayType
<1>3. CellType /\ Clean
  BY EmptyMap DEF Init, CellType, Clean, Unused
<1>4. Ownership
  BY <1>1 DEF Init, Ownership, Pointers
<1> QED  BY <1>2, <1>3, <1>4 DEF Init, IInv, Memory

(* Each step keeps the invariant and what is shared.                       *)
LEMMA Inductive ==
  ASSUME IInv, [Next]_vars
  PROVE  IInv' /\ Guarded
<1>1. CASE UNCHANGED vars
  <2>1. IInv'
    BY <1>1 DEF vars, IInv, Memory, ArrayType, CellType, Ownership, Clean, Unused
  <2>2. Guarded
    BY <1>1 DEF vars, Guarded, Elements
  <2> QED  BY <2>1, <2>2
<1>2. CASE Next
  <2> USE <1>2
  <2>1. state = "running" /\ Memory /\ readOnly \subseteq Slices /\ Writable \subseteq Slices
    BY DEF Next, IInv, Writable
  <2> HIDE <1>2
  <2>2. CASE AssertMutable
    <3>1. /\ back' = back /\ len' = len /\ cell' = cell
          /\ state' = "panicked" /\ readOnly' = readOnly
      BY <2>2 DEF AssertMutable
    <3>2. Memory' /\ \A t \in Slices : Untouched(t)
      BY <2>1, <3>1, SameMemory
    <3> QED  BY <2>1, <3>1, <3>2, MemoryKept, Writes
  <2>3. ASSUME NEW s \in Slices, MarkReadOnly(s) PROVE IInv' /\ Guarded
    <3>1. /\ back' = back /\ len' = len /\ cell' = cell
          /\ state' = state /\ readOnly' \in SUBSET Slices
      BY <2>1, <2>3 DEF MarkReadOnly
    <3>2. Memory' /\ \A t \in Slices : Untouched(t)
      BY <2>1, <3>1, SameMemory
    <3> QED  BY <2>1, <3>1, <3>2, MemoryKept, Writes
  <2>4. ASSUME NEW s \in Writable, AppendEmpty(s) PROVE IInv' /\ Guarded
    <3>1. Memory' /\ \A t \in Slices \ {s} : Untouched(t)
      BY <2>1, <2>4, AppendEmptyStep
    <3>2. state' = state /\ readOnly' = readOnly
      BY <2>4 DEF AppendEmpty
    <3> QED  BY <2>1, <3>1, <3>2, MemoryKept, Writes
  <2>5. ASSUME NEW s \in Writable, NEW n \in 1..MaxCap, EnsureCapacity(s, n)
        PROVE  IInv' /\ Guarded
    <3>1. n \in Nat
      BY BoundsAssumption
    <3>2. Memory' /\ \A t \in Slices \ {s} : Untouched(t)
      BY <2>1, <2>5, <3>1, EnsureCapacityStep
    <3>3. state' = state /\ readOnly' = readOnly
      BY <2>5 DEF EnsureCapacity
    <3> QED  BY <2>1, <3>2, <3>3, MemoryKept, Writes
  <2>6. ASSUME NEW s \in Writable, NEW d \in Writable, MoveAndAppendTo(s, d)
        PROVE  IInv' /\ Guarded
    <3>1. Memory' /\ \A t \in Slices \ {s, d} : Untouched(t)
      <4>1. CASE s = d
        BY <2>1, <2>6, <4>1, MoveToItselfStep
      <4>2. CASE s # d
        BY <2>1, <2>6, <4>2, MoveAndAppendToStep
      <4> QED  BY <4>1, <4>2
    <3>2. state' = state /\ readOnly' = readOnly
      BY <2>6 DEF MoveAndAppendTo
    <3> QED  BY <2>1, <3>1, <3>2, MemoryKept, Writes
  <2>7. ASSUME NEW s \in Writable, NEW k \in Keys, RemoveIf(s, k) PROVE IInv' /\ Guarded
    <3>1. Memory' /\ \A t \in Slices \ {s} : Untouched(t)
      BY <2>1, <2>7, RemoveIfStep
    <3>2. state' = state /\ readOnly' = readOnly
      BY <2>7 DEF RemoveIf
    <3> QED  BY <2>1, <3>1, <3>2, MemoryKept, Writes
  <2>8. ASSUME NEW s \in Writable, NEW k \in Keys, Sort(s, k) PROVE IInv' /\ Guarded
    <3>1. Memory' /\ \A t \in Slices \ {s} : Untouched(t)
      BY <2>1, <2>8, SortStep
    <3>2. state' = state /\ readOnly' = readOnly
      BY <2>8 DEF Sort
    <3> QED  BY <2>1, <3>1, <3>2, MemoryKept, Writes
  <2>9. ASSUME NEW s \in Slices, NEW d \in Writable, CopyOver(s, d) PROVE IInv' /\ Guarded
    <3>1. CellType' /\ \A t \in Slices \ {d} : Untouched(t)
      BY <2>1, <2>9, CopyOverCells
    <3>2. Guarded
      BY <2>1, <3>1, Writes
    <3>3. /\ state' = IF Distinct(Reused(s, d)) THEN state ELSE "broken"
          /\ readOnly' = readOnly
      BY <2>9 DEF CopyOver
    <3>4. CASE Distinct(Reused(s, d))
      <4>1. Memory'
        BY <2>1, <2>9, <3>4, CopyOverStep
      <4> QED  BY <2>1, <3>2, <3>3, <3>4, <4>1, MemoryKept
    <3>5. CASE ~ Distinct(Reused(s, d))
      BY <2>1, <3>1, <3>2, <3>3, <3>5 DEF IInv
    <3> QED  BY <3>4, <3>5
  <2>10. ASSUME NEW s \in Slices, NEW d \in Writable, CopyOverNil(s, d) PROVE IInv' /\ Guarded
    <3>1. /\ back' = back /\ len' = len /\ cell' = cell
          /\ state' = "panicked" /\ readOnly' = readOnly
      BY <2>10 DEF CopyOverNil
    <3>2. Memory' /\ \A t \in Slices : Untouched(t)
      BY <2>1, <3>1, SameMemory
    <3> QED  BY <2>1, <3>1, <3>2, MemoryKept, Writes
  <2>11. ASSUME NEW s \in Slices, NEW d \in Writable, CopyToNew(s, d) PROVE IInv' /\ Guarded
    <3>1. Memory' /\ \A t \in Slices \ {d} : Untouched(t)
      BY <2>1, <2>11, CopyToNewStep
    <3>2. state' = state /\ readOnly' = readOnly
      BY <2>11 DEF CopyToNew
    <3> QED  BY <2>1, <3>1, <3>2, MemoryKept, Writes
  <2>12. ASSUME NEW s \in Writable, NEW d \in Writable, NEW i \in 1..len[s], NEW j \in 1..len[d],
                MoveTo(s, i, d, j)
         PROVE  IInv' /\ Guarded
    <3>1. Memory' /\ \A t \in Slices \ {s, d} : Untouched(t)
      BY <2>1, <2>12, MoveToStep DEF Untouched
    <3>2. state' = state /\ readOnly' = readOnly
      BY <2>12 DEF MoveTo
    <3> QED  BY <2>1, <3>1, <3>2, MemoryKept, Writes
  <2>13. ASSUME NEW s \in Writable, NEW i \in 1..len[s], NEW k \in Keys, NEW v \in Values,
                PutAttribute(s, i, k, v)
         PROVE  IInv' /\ Guarded
    <3>1. Memory' /\ \A t \in Slices \ {s} : Untouched(t)
      BY <2>1, <2>13, PutAttributeStep DEF Untouched
    <3>2. state' = state /\ readOnly' = readOnly
      BY <2>13 DEF PutAttribute
    <3> QED  BY <2>1, <3>1, <3>2, MemoryKept, Writes
  <2>14. ASSUME NEW s \in Writable, NEW i \in 1..len[s], NEW k \in Keys, RemoveAttribute(s, i, k)
         PROVE  IInv' /\ Guarded
    <3>1. Memory' /\ \A t \in Slices \ {s} : Untouched(t)
      BY <2>1, <2>14, RemoveAttributeStep DEF Untouched
    <3>2. state' = state /\ readOnly' = readOnly
      BY <2>14 DEF RemoveAttribute
    <3> QED  BY <2>1, <3>1, <3>2, MemoryKept, Writes
  <2> QED
    BY <1>2, <2>2, <2>3, <2>4, <2>5, <2>6, <2>7, <2>8, <2>9, <2>10, <2>11, <2>12, <2>13, <2>14
    DEF Next, CopyTo
<1> QED  BY <1>1, <1>2

LEMMA Invariant == Spec => []IInv
<1>1. IInv /\ [Next]_vars => IInv'
  BY Inductive
<1> QED  BY <1>1, Initial, PTL DEF Spec
-----------------------------------------------------------------------------
(* Every element of a slice is its own, whatever the operations that have  *)
(* been called left in the spare entries.                                  *)
THEOREM ElementsOwned == Spec => []NoAliases
<1>1. IInv => NoAliases
  BY OwnPlace DEF IInv, NoAliases, Memory, Ownership
<1> QED  BY <1>1, Invariant, PTL

(* An element never has two values for a key.                              *)
THEOREM KeysUnique == Spec => []OneValuePerKey
<1>1. IInv => OneValuePerKey
  BY DEF IInv, CellType, OneValuePerKey, Maps
<1> QED  BY <1>1, Invariant, PTL

(* Nothing changes the elements of a slice that is marked read-only.       *)
THEOREM SharedStays == Spec => SharedDataUntouched
<1>1. IInv /\ [Next]_vars => [Guarded]_vars
  BY Inductive
<1>2. Guarded => \A s \in readOnly : state = "running" => Elements(s)' = Elements(s)
  BY DEF Guarded
<1> QED  BY <1>1, <1>2, Invariant, PTL DEF Spec, SharedDataUntouched, Guarded

(* The arrays keep their type also after a copy that is not one, and after *)
(* a panic.                                                                *)
LEMMA ArraysKept ==
  ASSUME IInv, ArrayType, [Next]_vars
  PROVE  ArrayType'
<1>1. CASE state' = "running"
  <2>1. IInv'
    BY Inductive
  <2> QED  BY <1>1, <2>1 DEF IInv, Memory
<1>2. CASE back' = back /\ len' = len
  BY <1>2 DEF ArrayType
<1>3. ASSUME NEW s \in Slices, NEW d \in Slices, CopyOver(s, d) PROVE ArrayType'
  <2>1. back' = back /\ len' = [len EXCEPT ![d] = len[s]] /\ len[s] <= Len(back[d])
    BY <1>3 DEF CopyOver
  <2>2. len' \in [Slices -> Nat]
    BY <2>1 DEF ArrayType
  <2>3. ASSUME NEW t \in Slices PROVE len'[t] <= Len(back'[t])
    BY <2>1 DEF ArrayType
  <2> QED  BY <2>1, <2>2, <2>3 DEF ArrayType
<1>4. CASE state' # "running" /\ ~ (back' = back /\ len' = len)
  <2>1. Next /\ state = "running"
    BY <1>4 DEF vars, Next
  <2>2. \E s \in Slices, d \in Writable : CopyOver(s, d)
    BY <1>4, <2>1
    DEF Next, AssertMutable, MarkReadOnly, AppendEmpty, EnsureCapacity, MoveAndAppendTo,
        RemoveIf, Sort, CopyTo, CopyOverNil, CopyToNew, MoveTo, PutAttribute, RemoveAttribute
  <2> QED  BY <1>3, <2>2 DEF Writable
<1> QED  BY <1>1, <1>2, <1>4

LEMMA KeysIn ==
  ASSUME NEW K, NEW V, NEW m \in Maps(K, V)
  PROVE  KeysOf(m) \subseteq K
<1> DEFINE E == [key : K, value : V]
<1>1. m \in Seq(E)
  BY DEF Maps
<1>2. \A e \in E : e.key \in K
  OBVIOUS
<1> HIDE DEF E
<1>3. \A i \in DOMAIN m : m[i] \in E
  BY <1>1
<1> QED  BY <1>2, <1>3 DEF KeysOf

(* Every variable keeps its type: a slice is never longer than its array,  *)
(* and an attribute never gets a key no call named.                        *)
THEOREM TypeCorrect == Spec => []TypeOK
<1>1. Init => ArrayType
  BY Initial DEF IInv, Memory, Init
<1>2. IInv /\ ArrayType /\ [Next]_vars => ArrayType'
  BY ArraysKept
<1>3. IInv /\ ArrayType => TypeOK
  <2> SUFFICES ASSUME IInv, ArrayType PROVE TypeOK
    OBVIOUS
  <2>1. ASSUME NEW c \in Cells PROVE KeysOf(cell[c]) \subseteq Keys
    <3>1. cell[c] \in Maps(Keys, Values)
      BY DEF IInv, CellType
    <3> QED  BY <3>1, KeysIn
  <2> QED  BY <2>1 DEF IInv, ArrayType, CellType, TypeOK
<1> QED  BY <1>1, <1>2, <1>3, Invariant, PTL DEF Spec

-----------------------------------------------------------------------------
(* The contract, PdataContract: each step of the slices is a step of it.   *)

(* The contract's slices, element by element.                              *)
LEMMA ContentOf ==
  ASSUME ArrayType
  PROVE  /\ Content = [s \in Slices |-> Content[s]]
         /\ \A s \in Slices :
              /\ Content[s] = [i \in 1..len[s] |-> Content[s][i]]
              /\ DOMAIN Content[s] = 1..len[s] /\ Len(Content[s]) = len[s] /\ len[s] \in Nat
              /\ \A i \in 1..len[s] : Content[s][i] = AsRaw(cell[back[s][i]])
<1>1. /\ Content = [s \in Slices |-> Content[s]]
      /\ \A s \in Slices : Content[s] = [i \in 1..len[s] |-> AsRaw(cell[back[s][i]])]
  BY DEF Content
<1>2. \A s \in Slices : len[s] \in Nat
  BY DEF ArrayType
<1> QED  BY <1>1, <1>2

LEMMA RawKeys ==
  ASSUME NEW m
  PROVE  DOMAIN AsRaw(m) = KeysOf(m)
BY DEF AsRaw

LEMMA RawEmpty == AsRaw(<<>>) = <<>>
BY EmptyMap DEF AsRaw

(* One slice changes.                                                      *)
LEMMA ContentUpdate ==
  ASSUME Memory, Memory', NEW s \in Slices, \A t \in Slices \ {s} : Untouched(t),
         NEW x, Content'[s] = x
  PROVE  Content' = [Content EXCEPT ![s] = x]
<1>1. /\ Content = [t \in Slices |-> Content[t]]
      /\ Content' = [t \in Slices |-> Content'[t]]
  BY ContentOf DEF Content
<1>2. \A t \in Slices \ {s} : Content'[t] = Content[t]
  BY DEF Content, Untouched, Memory, ArrayType
<1> QED  BY <1>1, <1>2

LEMMA FreshUpdate ==
  ASSUME NEW s \in Slices, \A t \in Slices \ {s} : Untouched(t)
  PROVE  /\ back'[s] # <<>> => Fresh' = Fresh \ {s}
         /\ (back'[s] = <<>> <=> back[s] = <<>>) => Fresh' = Fresh
BY DEF Fresh, Untouched

(* After the step, s holds f, of length n.                                 *)
Shows(s, n, f) ==
  /\ f = [i \in 1..n |-> f[i]]
  /\ len'[s] = n
  /\ \A i \in 1..n : AsRaw(cell'[back'[s][i]]) = f[i]

LEMMA NewContent ==
  ASSUME NEW s \in Slices, NEW n, NEW f, Shows(s, n, f)
  PROVE  Content'[s] = f
<1>1. Content'[s] = [i \in 1..n |-> AsRaw(cell'[back'[s][i]])]
  BY DEF Content, Shows
<1> QED  BY <1>1 DEF Shows

LEMMA ShowsNone ==
  ASSUME NEW s \in Slices, len'[s] = 0
  PROVE  Content'[s] = <<>>
<1>1. <<>> = [i \in 1..0 |-> <<>>[i]] /\ 1..0 = {}
  OBVIOUS
<1>2. Shows(s, 0, <<>>)
  BY <1>1 DEF Shows
<1> QED  BY <1>2, NewContent

(* What a slice holds is read through its live entries.                    *)
LEMMA SliceContent ==
  ASSUME Memory, NEW s \in Slices
  PROVE  /\ len[s] \in Nat /\ Len(Content[s]) = len[s] /\ DOMAIN Content[s] = 1..len[s]
         /\ Content[s] = [i \in 1..len[s] |-> Content[s][i]]
         /\ \A i \in 1..len[s] : Content[s][i] = AsRaw(cell[back[s][i]])
         /\ Content[s] \in Seq({AsRaw(cell[c]) : c \in Cells})
<1>1. /\ len[s] \in Nat /\ Len(Content[s]) = len[s] /\ DOMAIN Content[s] = 1..len[s]
      /\ Content[s] = [i \in 1..len[s] |-> Content[s][i]]
      /\ \A i \in 1..len[s] : Content[s][i] = AsRaw(cell[back[s][i]])
  BY ContentOf DEF Memory
<1>2. \A i \in 1..len[s] : Content[s][i] \in {AsRaw(cell[c]) : c \in Cells}
  BY <1>1, LiveEntries DEF Memory
<1>3. Content[s] \in [1..len[s] -> {AsRaw(cell[c]) : c \in Cells}]
  BY <1>1, <1>2
<1> QED  BY SMTT(60), <1>1, <1>3
-----------------------------------------------------------------------------
(* Each operation is the operation of the contract.                        *)
LEMMA AppendEmptyKeeps ==
  ASSUME Memory, NEW s \in Slices, AppendEmpty(s)
  PROVE  Contract!Append1(s)
<1>1. /\ Memory' /\ \A t \in Slices \ {s} : Untouched(t)
      /\ len'[s] = len[s] + 1
      /\ \A i \in 1..len[s] : cell'[back'[s][i]] = cell[back[s][i]]
      /\ cell'[back'[s][len[s] + 1]] = <<>>
      /\ back'[s] # <<>>
  BY AppendEmptyStep
<1>2. /\ len[s] \in Nat /\ Len(Content[s]) = len[s] /\ DOMAIN Content[s] = 1..len[s]
      /\ Content[s] = [i \in 1..len[s] |-> Content[s][i]]
      /\ \A i \in 1..len[s] : Content[s][i] = AsRaw(cell[back[s][i]])
  BY SliceContent
<1> DEFINE f == Append(Content[s], <<>>)
<1>3. /\ f = [i \in 1..len[s] + 1 |-> f[i]]
      /\ \A i \in 1..len[s] : f[i] = Content[s][i]
      /\ f[len[s] + 1] = <<>>
  BY <1>2
<1> HIDE DEF f
<1>4. \A i \in 1..len[s] + 1 : i \in 1..len[s] \/ i = len[s] + 1
  BY <1>2
<1>5. \A i \in 1..len[s] + 1 : AsRaw(cell'[back'[s][i]]) = f[i]
  BY <1>1, <1>2, <1>3, <1>4, RawEmpty
<1>6. Content'[s] = f
  <2>1. Shows(s, len[s] + 1, f)
    BY <1>1, <1>3, <1>5 DEF Shows
  <2> QED  BY <2>1, NewContent
<1>7. Content' = [Content EXCEPT ![s] = Append(Content[s], <<>>)]
  BY <1>1, <1>6, ContentUpdate DEF f
<1>8. Fresh' = Fresh \ {s}
  BY <1>1, FreshUpdate
<1> QED  BY <1>7, <1>8 DEF Contract!Append1, Contract!None

LEMMA EnsureCapacityKeeps ==
  ASSUME Memory, NEW s \in Slices, NEW n \in Nat, EnsureCapacity(s, n)
  PROVE  Contract!Reserve(s)
<1>1. /\ Memory' /\ \A t \in Slices \ {s} : Untouched(t)
      /\ len'[s] = len[s]
      /\ \A i \in 1..len[s] : cell'[back'[s][i]] = cell[back[s][i]]
      /\ back'[s] # <<>>
  BY EnsureCapacityStep
<1>2. /\ Content[s] = [i \in 1..len[s] |-> Content[s][i]]
      /\ \A i \in 1..len[s] : Content[s][i] = AsRaw(cell[back[s][i]])
  BY SliceContent
<1>3. Content'[s] = Content[s]
  <2>1. Shows(s, len[s], Content[s])
    BY <1>1, <1>2 DEF Shows
  <2> QED  BY <2>1, NewContent
<1>4. Content' = [Content EXCEPT ![s] = Content[s]]
  BY <1>1, <1>3, ContentUpdate
<1>5. Content' = Content
  BY <1>4 DEF Content
<1>6. Fresh' = Fresh \ {s}
  BY <1>1, FreshUpdate
<1> QED  BY <1>5, <1>6 DEF Contract!Reserve

LEMMA MoveAndAppendToKeeps ==
  ASSUME Memory, NEW s \in Slices, NEW d \in Slices, MoveAndAppendTo(s, d)
  PROVE  Contract!MoveAll(s, d)
<1>1. CASE s = d
  <2>1. /\ Memory' /\ \A t \in Slices \ {s} : Untouched(t)
        /\ back'[s] = <<>> /\ len'[s] = 0
    BY <1>1, MoveToItselfStep
  <2>2. Content'[s] = <<>>
    BY <2>1, ShowsNone
  <2>3. Content' = [Content EXCEPT ![s] = <<>>]
    BY <2>1, <2>2, ContentUpdate
  <2>4. Fresh' = Fresh \cup {s}
    BY <2>1 DEF Fresh, Untouched
  <2>5. Content' = [Content EXCEPT ![d] = Content[d] \o Content[s], ![s] = <<>>]
    BY <1>1, <2>3
  <2>6. Fresh' = (IF s \in Fresh THEN Fresh ELSE Fresh \ {d}) \cup {s}
    BY <1>1, <2>4
  <2> QED  BY <2>5, <2>6 DEF Contract!MoveAll
<1>2. CASE s # d
  <2>1. /\ Memory' /\ \A t \in Slices \ {s, d} : Untouched(t)
        /\ back'[s] = <<>> /\ len'[s] = 0 /\ len'[d] = len[d] + len[s]
        /\ \A i \in 1..len[d] : cell'[back'[d][i]] = cell[back[d][i]]
        /\ \A i \in 1..len[s] : cell'[back'[d][len[d] + i]] = cell[back[s][i]]
        /\ back'[d] = <<>> <=> back[d] = <<>> /\ back[s] = <<>>
    BY <1>2, MoveAndAppendToStep
  <2>2. /\ len[s] \in Nat /\ Len(Content[s]) = len[s] /\ DOMAIN Content[s] = 1..len[s]
        /\ Content[s] = [i \in 1..len[s] |-> Content[s][i]]
        /\ \A i \in 1..len[s] : Content[s][i] = AsRaw(cell[back[s][i]])
        /\ len[d] \in Nat /\ Len(Content[d]) = len[d] /\ DOMAIN Content[d] = 1..len[d]
        /\ Content[d] = [i \in 1..len[d] |-> Content[d][i]]
        /\ \A i \in 1..len[d] : Content[d][i] = AsRaw(cell[back[d][i]])
    BY SliceContent
  <2>11. /\ Content[s] \in Seq({AsRaw(cell[c]) : c \in Cells})
         /\ Content[d] \in Seq({AsRaw(cell[c]) : c \in Cells})
    BY SliceContent
  <2> DEFINE n == len[d] + len[s]
             x == Content[d]
             y == Content[s]
             f == x \o y
  <2>3. /\ f = [i \in 1..n |-> f[i]]
        /\ \A i \in 1..len[d] : f[i] = x[i]
        /\ \A i \in 1..len[s] : f[len[d] + i] = y[i]
    <3>1. /\ x \in Seq({AsRaw(cell[c]) : c \in Cells}) /\ Len(x) = len[d] /\ len[d] \in Nat
          /\ y \in Seq({AsRaw(cell[c]) : c \in Cells}) /\ Len(y) = len[s] /\ len[s] \in Nat
      BY <2>2, <2>11
    <3> HIDE DEF x, y
    <3>2. /\ f \in Seq({AsRaw(cell[c]) : c \in Cells}) /\ Len(f) = n
          /\ \A i \in 1..n : f[i] = IF i <= len[d] THEN x[i] ELSE y[i - len[d]]
      BY SMTT(60), <3>1
    <3>3. \A i \in 1..len[d] : i \in 1..n /\ i <= len[d]
      BY <3>1
    <3> HIDE DEF f, n
    <3>5. f = [i \in 1..n |-> f[i]]
      BY <3>2
    <3>6. \A i \in 1..len[d] : f[i] = x[i]
      BY <3>2, <3>3
    <3>7. \A i \in 1..len[s] : f[len[d] + i] = y[i]
      <4> SUFFICES ASSUME NEW i \in 1..len[s] PROVE f[len[d] + i] = y[i]
        OBVIOUS
      <4> DEFINE j == len[d] + i
      <4>1. j \in 1..n /\ ~ (j <= len[d]) /\ j - len[d] = i
        BY <3>1 DEF n
      <4> HIDE DEF j
      <4>2. f[j] = y[j - len[d]]
        BY <3>2, <4>1
      <4> QED  BY <4>1, <4>2 DEF j
    <3> QED  BY <3>5, <3>6, <3>7
  <2>4. ASSUME NEW i \in 1..n
        PROVE  i \in 1..len[d] \/ (i - len[d] \in 1..len[s] /\ i = len[d] + (i - len[d]))
    BY <2>2
  <2> HIDE DEF f
  <2>5. ASSUME NEW i \in 1..n PROVE AsRaw(cell'[back'[d][i]]) = f[i]
    <3>1. CASE i \in 1..len[d]
      <4>1. cell'[back'[d][i]] = cell[back[d][i]]
        BY <3>1, <2>1
      <4>2. f[i] = Content[d][i]
        BY <3>1, <2>3
      <4> QED  BY <3>1, <4>1, <4>2, <2>2
    <3>2. CASE i - len[d] \in 1..len[s] /\ i = len[d] + (i - len[d])
      <4>1. PICK p \in 1..len[s] : i = len[d] + p
        BY <3>2
      <4>2. cell'[back'[d][i]] = cell[back[s][p]]
        BY <4>1, <2>1
      <4>3. f[i] = Content[s][p]
        BY <4>1, <2>3
      <4> QED  BY <4>1, <4>2, <4>3, <2>2
    <3> QED  BY <3>1, <3>2, <2>4
  <2>6. Content'[d] = f
    <3>1. Shows(d, n, f)
      BY <2>1, <2>3, <2>5 DEF Shows
    <3> QED  BY <3>1, NewContent
  <2>7. Content'[s] = <<>>
    BY <2>1, ShowsNone
  <2>8. \A t \in Slices \ {s, d} : Content'[t] = Content[t]
    BY SMTT(60), <2>1 DEF Content, Untouched, Memory, ArrayType
  <2>9. Content' = [Content EXCEPT ![d] = f, ![s] = <<>>]
    <3>1. Content = [t \in Slices |-> Content[t]] /\ Content' = [t \in Slices |-> Content'[t]]
      BY DEF Content
    <3> QED  BY <1>2, <2>6, <2>7, <2>8, <3>1
  <2>10. Fresh' = (IF s \in Fresh THEN Fresh ELSE Fresh \ {d}) \cup {s}
    BY <1>2, <2>1 DEF Fresh, Untouched
  <2> QED  BY <2>9, <2>10 DEF Contract!MoveAll, f
<1> QED  BY <1>1, <1>2

(* The contract's selections are those of the slices.                      *)
LEMMA SameSelections ==
  ASSUME NEW n, NEW K
  PROVE  Contract!Kept(n, K) = Kept(n, K) /\ Contract!Stable(n, K) = Stable(n, K)
BY DEF Contract!Kept, Kept, Contract!Stable, Stable, Contract!Before, Before

(* The elements with a key are the same in both.                           *)
LEMMA SameWith ==
  ASSUME Memory, NEW s \in Slices, NEW k
  PROVE  Contract!With(s, k) = With(s, k)
<1>1. /\ DOMAIN Content[s] = 1..len[s]
      /\ \A i \in 1..len[s] : Content[s][i] = AsRaw(cell[back[s][i]])
  BY SliceContent
<1> QED  BY <1>1, RawKeys DEF Contract!With, With

LEMMA RemoveIfKeeps ==
  ASSUME Memory, NEW s \in Slices, NEW k, RemoveIf(s, k)
  PROVE  Contract!Filter(s, k)
<1>1. /\ Memory' /\ \A t \in Slices \ {s} : Untouched(t)
      /\ back'[s] = <<>> <=> back[s] = <<>>
  BY RemoveIfStep
<1>2. PICK kept \in Kept(len[s], 1..len[s] \ With(s, k)) :
        /\ len'[s] = Len(kept)
        /\ \A i \in 1..Len(kept) : cell'[back'[s][i]] = cell[back[s][kept[i]]]
  BY ZenonT(60), RemoveIfStep
<1>3. /\ len[s] \in Nat /\ Len(Content[s]) = len[s] /\ DOMAIN Content[s] = 1..len[s]
      /\ \A i \in 1..len[s] : Content[s][i] = AsRaw(cell[back[s][i]])
  BY SliceContent
<1>4. DOMAIN kept = 1..Len(kept) /\ \A i \in DOMAIN kept : kept[i] \in 1..len[s]
  BY <1>3, KeptPlaces
<1> DEFINE f == [i \in DOMAIN kept |-> Content[s][kept[i]]]
<1>5. f = [i \in 1..Len(kept) |-> f[i]] /\ \A i \in 1..Len(kept) : f[i] = Content[s][kept[i]]
  BY <1>4
<1> HIDE DEF f
<1>6. \A i \in 1..Len(kept) : AsRaw(cell'[back'[s][i]]) = f[i]
  BY <1>2, <1>3, <1>4, <1>5
<1>7. Content'[s] = f
  <2>1. Shows(s, Len(kept), f)
    BY <1>2, <1>5, <1>6 DEF Shows
  <2> QED  BY <2>1, NewContent
<1>8. Content' = [Content EXCEPT ![s] = [i \in DOMAIN kept |-> Content[s][kept[i]]]]
  BY <1>1, <1>7, ContentUpdate DEF f
<1>9. kept \in Contract!Kept(Len(Content[s]), DOMAIN Content[s] \ Contract!With(s, k))
  BY <1>3, SameWith, SameSelections
<1>10. Fresh' = Fresh
  BY <1>1, FreshUpdate
<1> QED  BY <1>8, <1>9, <1>10 DEF Contract!Filter

LEMMA SortKeeps ==
  ASSUME Memory, NEW s \in Slices, NEW k, Sort(s, k)
  PROVE  Contract!Order(s, k)
<1>1. /\ Memory' /\ \A t \in Slices \ {s} : Untouched(t)
      /\ len'[s] = len[s]
      /\ back'[s] = <<>> <=> back[s] = <<>>
  BY SortStep
<1>2. PICK sorted \in Stable(len[s], With(s, k)) :
        \A i \in 1..len[s] : cell'[back'[s][i]] = cell[back[s][sorted[i]]]
  BY SortStep
<1>3. /\ len[s] \in Nat /\ Len(Content[s]) = len[s] /\ DOMAIN Content[s] = 1..len[s]
      /\ \A i \in 1..len[s] : Content[s][i] = AsRaw(cell[back[s][i]])
  BY SliceContent
<1>4. sorted \in [1..len[s] -> 1..len[s]]
  BY <1>3, StablePlaces
<1> DEFINE f == [i \in DOMAIN Content[s] |-> Content[s][sorted[i]]]
<1>5. f = [i \in 1..len[s] |-> f[i]] /\ \A i \in 1..len[s] : f[i] = Content[s][sorted[i]]
  BY <1>3
<1> HIDE DEF f
<1>6. \A i \in 1..len[s] : AsRaw(cell'[back'[s][i]]) = f[i]
  BY ZenonT(60), <1>2, <1>3, <1>4, <1>5
<1>7. Content'[s] = f
  <2>1. Shows(s, len[s], f)
    BY <1>1, <1>5, <1>6 DEF Shows
  <2> QED  BY <2>1, NewContent
<1>8. Content' = [Content EXCEPT ![s] = [i \in DOMAIN Content[s] |-> Content[s][sorted[i]]]]
  BY <1>1, <1>7, ContentUpdate DEF f
<1>9. sorted \in Contract!Stable(Len(Content[s]), Contract!With(s, k))
  BY <1>3, SameWith, SameSelections
<1>10. Fresh' = Fresh
  BY <1>1, FreshUpdate
<1> QED  BY <1>8, <1>9, <1>10 DEF Contract!Order

(* A copy, to an array that was there or to a new one.                     *)
LEMMA CopyShows ==
  ASSUME Memory, Memory', NEW s \in Slices, NEW d \in Slices,
         \A t \in Slices \ {d} : Untouched(t), len'[d] = len[s],
         \A i \in 1..len[s] : cell'[back'[d][i]] = cell[back[s][i]]
  PROVE  Content' = [Content EXCEPT ![d] = Content[s]]
<1>1. /\ Content[s] = [i \in 1..len[s] |-> Content[s][i]]
      /\ \A i \in 1..len[s] : Content[s][i] = AsRaw(cell[back[s][i]])
  BY SliceContent
<1>2. Shows(d, len[s], Content[s])
  BY <1>1 DEF Shows
<1>3. Content'[d] = Content[s]
  BY <1>2, NewContent
<1> QED  BY <1>3, ContentUpdate

LEMMA CopyOverKeeps ==
  ASSUME Memory, NEW s \in Slices, NEW d \in Slices, CopyOver(s, d), Distinct(Reused(s, d))
  PROVE  Contract!CopyExact(s, d)
<1>1. Content' = [Content EXCEPT ![d] = Content[s]]
  BY CopyOverStep, CopyShows
<1>2. Fresh' = Fresh
  BY DEF CopyOver, Fresh
<1> QED  BY <1>1, <1>2 DEF Contract!CopyExact

LEMMA CopyToNewKeeps ==
  ASSUME Memory, NEW s \in Slices, NEW d \in Slices, CopyToNew(s, d)
  PROVE  Contract!CopyExact(s, d)
<1>1. Content' = [Content EXCEPT ![d] = Content[s]]
  BY CopyToNewStep, CopyShows
<1>2. Fresh' = Fresh \ {d}
  BY CopyToNewStep, FreshUpdate
<1> QED  BY <1>1, <1>2 DEF Contract!CopyExact

(* What goes wrong goes wrong where the contract allows it.                *)
LEMMA WrongWhereAllowed ==
  ASSUME Memory, NEW s \in Slices, NEW d \in Slices, len[s] <= Len(back[d]),
         ~ Distinct(Reused(s, d)) \/ Nil \in {back[d][i] : i \in 1..len[s]}
  PROVE  Contract!Unsafe(s, d)
<1>1. /\ back[d] \in Seq(Cells \cup {Nil}) /\ len[s] \in Nat /\ len[d] \in Nat
      /\ DOMAIN back[d] = 1..Len(back[d]) /\ Len(back[d]) \in Nat
  BY DEF Memory, ArrayType
<1>2. /\ DOMAIN Reused(s, d) = 1..len[s]
      /\ \A i \in 1..len[s] : Reused(s, d)[i] = back[d][i]
  BY <1>1 DEF Reused
<1>3. len[s] > len[d]
  <2>1. ASSUME len[s] <= len[d] PROVE FALSE
    <3>1. \A i \in 1..len[s] : i \in 1..len[d]
      BY <1>1, <2>1
    <3>2. \A i, j \in 1..len[s] : back[d][i] = back[d][j] => i = j
      BY <3>1 DEF Memory, Ownership
    <3>3. \A i \in 1..len[s] : back[d][i] # Nil
      BY <3>1 DEF Memory, Ownership
    <3>4. Distinct(Reused(s, d))
      BY <1>2, <3>2 DEF Distinct
    <3> QED  BY <3>3, <3>4
  <2> QED  BY <1>1, <2>1
<1>4. back[d] # <<>>
  BY <1>1, <1>3
<1>5. Len(Content[s]) = len[s] /\ Len(Content[d]) = len[d]
  BY SliceContent
<1> QED  BY <1>3, <1>4, <1>5 DEF Contract!Unsafe, Fresh

(* Elements change one by one: g is what the slices hold after the step.   *)
LEMMA ContentBy ==
  ASSUME ArrayType, len' = len, NEW g, g = [t \in Slices |-> g[t]],
         \A t \in Slices : g[t] = [p \in 1..len[t] |-> AsRaw(cell'[back'[t][p]])]
  PROVE  Content' = g
BY DEF Content

LEMMA MoveToKeeps ==
  ASSUME Memory, NEW s \in Slices, NEW d \in Slices, NEW i \in 1..len[s], NEW j \in 1..len[d],
         MoveTo(s, i, d, j)
  PROVE  Contract!MoveOne(s, i, d, j)
<1>1. /\ back' = back /\ len' = len
      /\ \A t \in Slices : \A p \in 1..len[t] :
           cell'[back[t][p]] = IF t = s /\ p = i THEN <<>>
                               ELSE IF t = d /\ p = j THEN cell[back[s][i]]
                               ELSE cell[back[t][p]]
  BY MoveToStep
<1>2. /\ Content = [t \in Slices |-> Content[t]]
      /\ \A t \in Slices :
           /\ DOMAIN Content[t] = 1..len[t]
           /\ Content[t] = [p \in 1..len[t] |-> Content[t][p]]
           /\ \A p \in 1..len[t] : Content[t][p] = AsRaw(cell[back[t][p]])
  BY ContentOf DEF Memory
<1> DEFINE C == Content
           v == C[s][i]
           h == [C EXCEPT ![d] = [C[d] EXCEPT ![j] = v]]
           g == [h EXCEPT ![s] = [h[s] EXCEPT ![i] = <<>>]]
           value(t, p) == IF t = s /\ p = i THEN <<>>
                          ELSE IF t = d /\ p = j THEN v ELSE C[t][p]
<1>3. /\ h = [t \in Slices |-> h[t]]
      /\ \A t \in Slices : h[t] = [p \in 1..len[t] |-> IF t = d /\ p = j THEN v ELSE C[t][p]]
  <2> HIDE DEF v
  <2>1. \A t \in Slices : C[t] = [p \in 1..len[t] |-> C[t][p]]
    BY <1>2
  <2>2. C = [t \in Slices |-> C[t]]
    BY <1>2
  <2> HIDE DEF C
  <2>3. h[d] = [p \in 1..len[d] |-> IF p = j THEN v ELSE C[d][p]]
    BY <2>1, <2>2
  <2>4. \A t \in Slices : t # d => h[t] = C[t]
    BY <2>2
  <2>5. h = [t \in Slices |-> h[t]]
    BY <2>2
  <2> HIDE DEF h
  <2> QED  BY <2>1, <2>3, <2>4, <2>5
<1>4. /\ g = [t \in Slices |-> g[t]]
      /\ \A t \in Slices : g[t] = [p \in 1..len[t] |-> value(t, p)]
  <2> HIDE DEF h, v
  <2>1. g[s] = [p \in 1..len[s] |-> IF p = i THEN <<>> ELSE h[s][p]]
    BY <1>3
  <2>2. \A t \in Slices : t # s => g[t] = h[t]
    BY <1>3
  <2>3. g = [t \in Slices |-> g[t]]
    BY <1>3
  <2> HIDE DEF g, C
  <2>4. ASSUME NEW t \in Slices PROVE g[t] = [p \in 1..len[t] |-> value(t, p)]
    <3>1. CASE t = s
      <4>1. \A p \in 1..len[s] : h[s][p] = IF s = d /\ p = j THEN v ELSE C[s][p]
        BY <1>3
      <4>2. \A p \in 1..len[s] : (IF p = i THEN <<>> ELSE h[s][p]) = value(s, p)
        BY <4>1
      <4> HIDE DEF value
      <4> QED  BY <2>1, <3>1, <4>2
    <3>2. CASE t # s
      <4>1. \A p \in 1..len[t] : (IF t = d /\ p = j THEN v ELSE C[t][p]) = value(t, p)
        BY <3>2
      <4> HIDE DEF value
      <4> QED  BY <1>3, <2>2, <3>2, <4>1
    <3> QED  BY <3>1, <3>2
  <2> QED  BY <2>3, <2>4
<1>5. ASSUME NEW t \in Slices, NEW p \in 1..len[t]
      PROVE  AsRaw(cell'[back'[t][p]]) = value(t, p)
  <2>1. v = AsRaw(cell[back[s][i]])
    BY <1>2
  <2> HIDE DEF v
  <2> QED  BY <1>1, <1>2, <2>1, RawEmpty
<1> HIDE DEF value, h
<1>6. \A t \in Slices : g[t] = [p \in 1..len[t] |-> AsRaw(cell'[back'[t][p]])]
  BY ZenonT(60), <1>4, <1>5
<1>7. Content' = g
  <2> HIDE DEF g
  <2> QED  BY <1>1, <1>4, <1>6, ContentBy DEF Memory
<1>8. Content' = [Content EXCEPT ![d][j] = Content[s][i], ![s][i] = <<>>]
  BY <1>7 DEF h
<1>9. Fresh' = Fresh
  BY <1>1 DEF Fresh
<1> QED  BY <1>8, <1>9 DEF Contract!MoveOne, Contract!None

(* One element changes: f is what its attributes stand for after the step. *)
LEMMA OneContent ==
  ASSUME Memory, NEW s \in Slices, NEW i \in 1..len[s], NEW f, back' = back, len' = len,
         \A t \in Slices : \A p \in 1..len[t] :
           AsRaw(cell'[back[t][p]]) = IF t = s /\ p = i THEN f ELSE AsRaw(cell[back[t][p]])
  PROVE  Content' = [Content EXCEPT ![s] = [Content[s] EXCEPT ![i] = f]] /\ Fresh' = Fresh
<1>1. /\ Content = [t \in Slices |-> Content[t]]
      /\ \A t \in Slices :
           /\ Content[t] = [p \in 1..len[t] |-> Content[t][p]]
           /\ \A p \in 1..len[t] : Content[t][p] = AsRaw(cell[back[t][p]])
  BY ContentOf DEF Memory
<1> DEFINE g == [Content EXCEPT ![s] = [Content[s] EXCEPT ![i] = f]]
<1>2. /\ g = [t \in Slices |-> g[t]]
      /\ g[s] = [p \in 1..len[s] |-> IF p = i THEN f ELSE Content[s][p]]
      /\ \A t \in Slices : t # s => g[t] = Content[t]
  BY <1>1
<1> HIDE DEF g
<1>3. \A t \in Slices : g[t] = [p \in 1..len[t] |-> AsRaw(cell'[back'[t][p]])]
  BY <1>1, <1>2
<1>4. Content' = g
  BY <1>2, <1>3, ContentBy DEF Memory
<1> QED  BY <1>4 DEF g, Fresh

LEMMA PutAttributeKeeps ==
  ASSUME Memory, NEW s \in Slices, NEW i \in 1..len[s], NEW k \in Keys, NEW v \in Values,
         PutAttribute(s, i, k, v)
  PROVE  Contract!Put(s, i, k, v)
<1> DEFINE m == Content[s][i]
           f == Overridden(m, k, v)
<1>1. /\ back' = back /\ len' = len
      /\ \A t \in Slices : \A p \in 1..len[t] :
           cell'[back[t][p]] = IF t = s /\ p = i THEN PutStr(cell[back[t][p]], k, v)
                               ELSE cell[back[t][p]]
  BY PutAttributeStep
<1>2. cell[back[s][i]] \in Maps(Keys, Values) /\ m = AsRaw(cell[back[s][i]])
  BY LiveEntries, SliceContent DEF Memory, CellType
<1>3. AsRaw(PutStr(cell[back[s][i]], k, v)) = f
  BY <1>2, PutStrOverrides
<1> HIDE DEF f
<1>4. Content' = [Content EXCEPT ![s] = [Content[s] EXCEPT ![i] = f]] /\ Fresh' = Fresh
  <2>1. \A t \in Slices : \A p \in 1..len[t] :
          AsRaw(cell'[back[t][p]]) = IF t = s /\ p = i THEN f ELSE AsRaw(cell[back[t][p]])
    BY <1>1, <1>3
  <2> QED  BY <1>1, <2>1, OneContent
<1> QED  BY <1>4 DEF Contract!Put, f, Overridden

LEMMA RemoveAttributeKeeps ==
  ASSUME Memory, NEW s \in Slices, NEW i \in 1..len[s], NEW k \in Keys,
         RemoveAttribute(s, i, k)
  PROVE  Contract!Drop(s, i, k)
<1> DEFINE m == Content[s][i]
           f == Without(m, k)
<1>1. /\ back' = back /\ len' = len
      /\ \A t \in Slices : \A p \in 1..len[t] :
           cell'[back[t][p]] = IF t = s /\ p = i THEN Remove(cell[back[t][p]], k)
                               ELSE cell[back[t][p]]
  BY RemoveAttributeStep
<1>2. cell[back[s][i]] \in Maps(Keys, Values) /\ m = AsRaw(cell[back[s][i]])
  BY LiveEntries, SliceContent DEF Memory, CellType
<1>3. AsRaw(Remove(cell[back[s][i]], k)) = f
  BY <1>2, RemoveDrops
<1> HIDE DEF f
<1>4. Content' = [Content EXCEPT ![s] = [Content[s] EXCEPT ![i] = f]] /\ Fresh' = Fresh
  <2>1. \A t \in Slices : \A p \in 1..len[t] :
          AsRaw(cell'[back[t][p]]) = IF t = s /\ p = i THEN f ELSE AsRaw(cell[back[t][p]])
    BY <1>1, <1>3
  <2> QED  BY <1>1, <2>1, OneContent
<1> QED  BY <1>4 DEF Contract!Drop, f, Without
-----------------------------------------------------------------------------
LEMMA StartsFresh ==
  ASSUME Init
  PROVE  Contract!Init
<1>1. \A s \in Slices : [i \in 1..len[s] |-> AsRaw(cell[back[s][i]])] = <<>>
  <2>1. \A s \in Slices : len[s] = 0
    BY DEF Init
  <2>2. 1..0 = {}
    OBVIOUS
  <2> QED  BY <2>1, <2>2
<1> QED  BY <1>1 DEF Init, Contract!Init, Content, Fresh

(* Each step is a step of the contract, or changes nothing it sees.        *)
LEMMA StepKeeps ==
  ASSUME IInv, [Next]_vars
  PROVE  [Contract!Next]_(Contract!cvars)
<1>1. CASE UNCHANGED vars
  BY <1>1 DEF vars, Contract!cvars, Content, Fresh
<1>2. CASE Next
  <2> USE <1>2
  <2>1. state = "running" /\ Memory /\ readOnly \subseteq Slices
        /\ Writable \subseteq Slices /\ Contract!Writable = Writable
    BY DEF Next, IInv, Writable, Contract!Writable
  <2> HIDE <1>2
  <2>2. \A s \in Slices : DOMAIN Content[s] = 1..len[s]
    BY <2>1, SliceContent
  <2>3. CASE AssertMutable
    BY <2>1, <2>3 DEF AssertMutable, Contract!Next, Contract!Panic, Content, Fresh
  <2>4. ASSUME NEW s \in Slices, MarkReadOnly(s) PROVE Contract!Next
    BY <2>1, <2>4 DEF MarkReadOnly, Contract!Next, Contract!Share, Content, Fresh
  <2>5. ASSUME NEW s \in Writable, AppendEmpty(s) PROVE Contract!Next
    <3>1. Contract!Append1(s)
      BY <2>1, <2>5, AppendEmptyKeeps
    <3>2. state' = "running" /\ readOnly' = readOnly
      BY <2>1, <2>5 DEF AppendEmpty
    <3> QED  BY <2>1, <3>1, <3>2 DEF Contract!Next, Contract!Step
  <2>6. ASSUME NEW s \in Writable, NEW n \in 1..MaxCap, EnsureCapacity(s, n)
        PROVE  Contract!Next
    <3>1. Contract!Reserve(s)
      BY <2>1, <2>6, BoundsAssumption, EnsureCapacityKeeps
    <3>2. state' = "running" /\ readOnly' = readOnly
      BY <2>1, <2>6 DEF EnsureCapacity
    <3> QED  BY <2>1, <3>1, <3>2 DEF Contract!Next, Contract!Step
  <2>7. ASSUME NEW s \in Writable, NEW d \in Writable, MoveAndAppendTo(s, d)
        PROVE  Contract!Next
    <3>1. Contract!MoveAll(s, d)
      BY <2>1, <2>7, MoveAndAppendToKeeps
    <3>2. state' = "running" /\ readOnly' = readOnly
      BY <2>1, <2>7 DEF MoveAndAppendTo
    <3> QED  BY <2>1, <3>1, <3>2 DEF Contract!Next, Contract!Step
  <2>8. ASSUME NEW s \in Writable, NEW k \in Keys, RemoveIf(s, k) PROVE Contract!Next
    <3>1. Contract!Filter(s, k)
      BY <2>1, <2>8, RemoveIfKeeps
    <3>2. state' = "running" /\ readOnly' = readOnly
      BY <2>1, <2>8 DEF RemoveIf
    <3> QED  BY <2>1, <3>1, <3>2 DEF Contract!Next, Contract!Step
  <2>9. ASSUME NEW s \in Writable, NEW k \in Keys, Sort(s, k) PROVE Contract!Next
    <3>1. Contract!Order(s, k)
      BY <2>1, <2>9, SortKeeps
    <3>2. state' = "running" /\ readOnly' = readOnly
      BY <2>1, <2>9 DEF Sort
    <3> QED  BY <2>1, <3>1, <3>2 DEF Contract!Next, Contract!Step
  <2>10. ASSUME NEW s \in Slices, NEW d \in Writable, CopyOver(s, d) PROVE Contract!Next
    <3>1. CASE Distinct(Reused(s, d))
      <4>1. Contract!CopyExact(s, d)
        BY <2>1, <2>10, <3>1, CopyOverKeeps
      <4>2. state' = "running" /\ readOnly' = readOnly
        BY <2>1, <2>10, <3>1 DEF CopyOver
      <4> QED  BY <2>1, <4>1, <4>2 DEF Contract!Next, Contract!Step
    <3>2. CASE ~ Distinct(Reused(s, d))
      <4>1. Contract!Unsafe(s, d)
        BY <2>1, <2>10, <3>2, WrongWhereAllowed DEF CopyOver
      <4>2. state' = "broken"
        BY <2>10, <3>2 DEF CopyOver
      <4> QED  BY <2>1, <4>1, <4>2 DEF Contract!Next, Contract!Break
    <3> QED  BY <3>1, <3>2
  <2>11. ASSUME NEW s \in Slices, NEW d \in Writable, CopyOverNil(s, d) PROVE Contract!Next
    <3>1. Contract!Unsafe(s, d)
      BY <2>1, <2>11, WrongWhereAllowed DEF CopyOverNil
    <3>2. /\ state' = "panicked" /\ readOnly' = readOnly
          /\ Content' = Content /\ Fresh' = Fresh
      BY <2>11 DEF CopyOverNil, Content, Fresh
    <3> QED  BY <2>1, <3>1, <3>2 DEF Contract!Next, Contract!Panic
  <2>12. ASSUME NEW s \in Slices, NEW d \in Writable, CopyToNew(s, d) PROVE Contract!Next
    <3>1. Contract!CopyExact(s, d)
      BY <2>1, <2>12, CopyToNewKeeps
    <3>2. state' = "running" /\ readOnly' = readOnly
      BY <2>1, <2>12 DEF CopyToNew
    <3> QED  BY <2>1, <3>1, <3>2 DEF Contract!Next, Contract!Step
  <2>13. ASSUME NEW s \in Writable, NEW d \in Writable, NEW i \in 1..len[s], NEW j \in 1..len[d],
                MoveTo(s, i, d, j)
         PROVE  Contract!Next
    <3>1. Contract!MoveOne(s, i, d, j)
      BY <2>1, <2>13, MoveToKeeps
    <3>2. state' = "running" /\ readOnly' = readOnly
      BY <2>1, <2>13 DEF MoveTo
    <3>3. i \in DOMAIN Content[s] /\ j \in DOMAIN Content[d]
      BY <2>1, <2>2
    <3> QED  BY <2>1, <3>1, <3>2, <3>3 DEF Contract!Next, Contract!Step
  <2>14. ASSUME NEW s \in Writable, NEW i \in 1..len[s], NEW k \in Keys, NEW v \in Values,
                PutAttribute(s, i, k, v)
         PROVE  Contract!Next
    <3>1. Contract!Put(s, i, k, v)
      BY <2>1, <2>14, PutAttributeKeeps
    <3>2. state' = "running" /\ readOnly' = readOnly
      BY <2>1, <2>14 DEF PutAttribute
    <3>3. i \in DOMAIN Content[s]
      BY <2>1, <2>2
    <3> QED  BY <2>1, <3>1, <3>2, <3>3 DEF Contract!Next, Contract!Step
  <2>15. ASSUME NEW s \in Writable, NEW i \in 1..len[s], NEW k \in Keys, RemoveAttribute(s, i, k)
         PROVE  Contract!Next
    <3>1. Contract!Drop(s, i, k)
      BY <2>1, <2>15, RemoveAttributeKeeps
    <3>2. state' = "running" /\ readOnly' = readOnly
      BY <2>1, <2>15 DEF RemoveAttribute
    <3>3. i \in DOMAIN Content[s]
      BY <2>1, <2>2
    <3> QED  BY <2>1, <3>1, <3>2, <3>3 DEF Contract!Next, Contract!Step
  <2> QED
    BY <1>2, <2>3, <2>4, <2>5, <2>6, <2>7, <2>8, <2>9, <2>10, <2>11, <2>12, <2>13, <2>14, <2>15
    DEF Next, CopyTo
<1> QED  BY <1>1, <1>2

(* The slices of pdata are what the contract says, for any program: each   *)
(* method does its work on one sequence of attributes and on no other, and *)
(* a copy goes wrong only to a shorter slice that has been in use.         *)
THEOREM ContractKept == Spec => KeepsContract
<1>1. Init => Contract!Init
  BY StartsFresh
<1>2. IInv /\ [Next]_vars => [Contract!Next]_(Contract!cvars)
  BY StepKeeps
<1> QED  BY <1>1, <1>2, Invariant, PTL DEF Spec, KeepsContract, Contract!Spec
=============================================================================
