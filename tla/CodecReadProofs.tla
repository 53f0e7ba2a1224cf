--------------------------- MODULE CodecReadProofs ---------------------------
(***************************************************************************)
(* Reading gives back what was written, in both encodings, for the tables  *)
(* of any messages that keep the assumptions of Codec, and whatever a      *)
(* sender makes of an honest wire: fields nobody knows, another order,     *)
(* elements that are not packed, messages in parts, fields that are sent   *)
(* twice.                                                                  *)
(*                                                                         *)
(* A decoder works field by field, so the proof follows one field: Read is *)
(* what the items of a wire make of its value.  The invariant says that    *)
(* the items still ahead would make of each field what the sender had in   *)
(* it; each fault, and each turn of the loop, keeps that equation.         *)
(***************************************************************************)
EXTENDS CodecProofs

(* The decoder of a message, seen from one of its fields.                  *)
FieldReader(e, tab, f) == [encoding |-> e, tables |-> tab, field |-> f]

CasesFor(c, x) ==
  {r \in IF c.encoding = "proto" THEN CaseOf(c.tables.reads, x) ELSE LabelOf(c.tables.reader, x) :
     r.field = c.field}

Concerns(c, x) == CasesFor(c, x) # {}

(* What an item makes of the value of the field.                           *)
Fill(c, x, old) ==
  IF ~ Concerns(c, x) THEN old
  ELSE LET r == CHOOSE q \in CasesFor(c, x) : TRUE
       IN IF c.encoding = "proto" THEN Stored(r, x, old) ELSE JsonStored(r, x, old)

(* What the items of a wire make of it, one after the other.               *)
Read(c, w, a) ==
  LET g[k \in 0..Len(w)] == IF k = 0 THEN a ELSE Fill(c, w[k], g[k - 1])
  IN g[Len(w)]

IsRun(g, c, w, n, a) == g[0] = a /\ \A k \in 1..n : g[k] = Fill(c, w[k], g[k - 1])

LEMMA RunExists ==
    ASSUME NEW c, NEW w, NEW n \in Nat, NEW a
    PROVE  \E g : DOMAIN g = 0..n /\ g = [k \in 0..n |-> g[k]] /\ IsRun(g, c, w, n, a)
<1> DEFINE Exists(k) == \E g : DOMAIN g = 0..k /\ g = [j \in 0..k |-> g[j]] /\ IsRun(g, c, w, k, a)
           I == {k \in Nat : Exists(k)}
<1>1. Exists(0)
  <2> DEFINE g == [j \in 0..0 |-> a]
  <2>1. DOMAIN g = 0..0 /\ g = [j \in 0..0 |-> g[j]] /\ IsRun(g, c, w, 0, a)
    BY DEF IsRun
  <2> QED  BY <2>1
<1>2. ASSUME NEW k \in Nat, Exists(k) PROVE Exists(k + 1)
  <2>1. PICK g : DOMAIN g = 0..k /\ IsRun(g, c, w, k, a)
    BY <1>2
  <2> DEFINE last == Fill(c, w[k + 1], g[k])
             h == [j \in 0..(k + 1) |-> IF j <= k THEN g[j] ELSE last]
  <2>2. h[0] = a
    BY <2>1 DEF IsRun
  <2>3. ASSUME NEW j \in 1..(k + 1) PROVE h[j] = Fill(c, w[j], h[j - 1])
    <3>1. CASE j <= k
      <4>1. j \in 1..k /\ j - 1 \in 0..k /\ j \in 0..(k + 1) /\ j - 1 \in 0..(k + 1) /\ j - 1 <= k
        BY <3>1
      <4>2. h[j] = g[j] /\ h[j - 1] = g[j - 1]
        BY <3>1, <4>1
      <4> HIDE DEF h
      <4> QED  BY <2>1, <4>1, <4>2 DEF IsRun
    <3>2. CASE j = k + 1
      <4>1. h[k + 1] = last /\ h[k] = g[k] /\ j - 1 = k
        BY <3>2
      <4> HIDE DEF h
      <4> QED  BY <3>2, <4>1
    <3> QED  BY <3>1, <3>2
  <2>4. DOMAIN h = 0..(k + 1) /\ h = [j \in 0..(k + 1) |-> h[j]]
    <3> HIDE DEF last
    <3> QED  OBVIOUS
  <2> HIDE DEF h
  <2>5. IsRun(h, c, w, k + 1, a)
    BY <2>2, <2>3 DEF IsRun
  <2> QED  BY <2>4, <2>5
<1> HIDE DEF Exists
<1>3. I = Nat
  <2>1. I \subseteq Nat /\ 0 \in I /\ \A k \in I : k + 1 \in I
    BY <1>1, <1>2
  <2> HIDE DEF I
  <2> QED  BY <2>1, Induction
<1> QED  BY <1>3 DEF Exists

LEMMA RunsAgree ==
    ASSUME NEW c, NEW w, NEW n \in Nat, NEW a, NEW g, NEW h,
           IsRun(g, c, w, n, a), IsRun(h, c, w, n, a)
    PROVE  \A k \in 0..n : g[k] = h[k]
<1> DEFINE I == {k \in Nat : k <= n => g[k] = h[k]}
<1>1. 0 \in I
  BY DEF IsRun
<1>2. ASSUME NEW k \in I PROVE k + 1 \in I
  <2> SUFFICES ASSUME k + 1 <= n PROVE g[k + 1] = h[k + 1]
    OBVIOUS
  <2>1. k \in Nat /\ k + 1 \in 1..n /\ g[k] = h[k] /\ k + 1 - 1 = k
    OBVIOUS
  <2> HIDE DEF I
  <2>2. PICK i \in 1..n : i = k + 1
    BY <2>1
  <2>3. g[i] = Fill(c, w[i], g[i - 1]) /\ h[i] = Fill(c, w[i], h[i - 1])
    BY DEF IsRun
  <2> QED  BY <2>1, <2>2, <2>3
<1>3. I = Nat
  <2>1. I \subseteq Nat
    OBVIOUS
  <2> HIDE DEF I
  <2> QED  BY <1>1, <1>2, <2>1, Induction
<1> QED  BY <1>3

LEMMA ReadRuns ==
    ASSUME NEW c, NEW S, NEW w \in Seq(S), NEW a
    PROVE  /\ \E g : IsRun(g, c, w, Len(w), a)
           /\ \A g : IsRun(g, c, w, Len(w), a) => g[Len(w)] = Read(c, w, a)
<1> DEFINE n == Len(w)
           P(g) == g = [k \in 0..n |-> IF k = 0 THEN a ELSE Fill(c, w[k], g[k - 1])]
           run == CHOOSE g : P(g)
<1>1. n \in Nat
  OBVIOUS
<1>2. Read(c, w, a) = run[n]
  BY DEF Read
<1> HIDE DEF n
<1>3. PICK g : DOMAIN g = 0..n /\ g = [k \in 0..n |-> g[k]] /\ IsRun(g, c, w, n, a)
  BY <1>1, RunExists
<1>4. P(g)
  <2>1. \A k \in 0..n : g[k] = IF k = 0 THEN a ELSE Fill(c, w[k], g[k - 1])
    BY <1>1, <1>3 DEF IsRun
  <2> QED  BY <1>3, <2>1
<1>5. P(run)
  <2> HIDE DEF P
  <2> QED  BY <1>4
<1> HIDE DEF run
<1>6. IsRun(run, c, w, n, a)
  <2>1. 0 \in 0..n /\ \A k \in 1..n : k \in 0..n /\ k # 0
    BY <1>1
  <2>2. \A k \in 0..n : run[k] = IF k = 0 THEN a ELSE Fill(c, w[k], run[k - 1])
    BY <1>5
  <2> HIDE DEF P
  <2> QED  BY <2>1, <2>2 DEF IsRun
<1>7. \A h : IsRun(h, c, w, n, a) => h[n] = run[n]
  <2>1. n \in 0..n
    BY <1>1
  <2> HIDE DEF P
  <2> QED  BY <1>1, <1>6, <2>1, RunsAgree
<1> QED  BY <1>2, <1>6, <1>7 DEF n

LEMMA ReadNothing ==
    ASSUME NEW c, NEW a
    PROVE  Read(c, <<>>, a) = a
<1>1. <<>> \in Seq({}) /\ Len(<<>>) = 0
  OBVIOUS
<1>2. PICK g : IsRun(g, c, <<>>, 0, a) /\ g[0] = Read(c, <<>>, a)
  BY <1>1, ReadRuns
<1> QED  BY <1>2 DEF IsRun

LEMMA ReadOneItem ==
    ASSUME NEW c, NEW x, NEW a
    PROVE  Read(c, <<x>>, a) = Fill(c, x, a)
<1>1. <<x>> \in Seq({x}) /\ Len(<<x>>) = 1 /\ <<x>>[1] = x
  OBVIOUS
<1>2. PICK g : IsRun(g, c, <<x>>, 1, a) /\ g[1] = Read(c, <<x>>, a)
  BY <1>1, ReadRuns
<1>3. 1 \in 1..1 /\ 1 - 1 = 0
  OBVIOUS
<1>4. g[1] = Fill(c, <<x>>[1], g[0]) /\ g[0] = a
  BY <1>2, <1>3 DEF IsRun
<1> QED  BY <1>1, <1>2, <1>4

(* Reading on after one wire with another.                                 *)
LEMMA ReadConcat ==
    ASSUME NEW c, NEW S, NEW v \in Seq(S), NEW w \in Seq(S), NEW a
    PROVE  Read(c, v \o w, a) = Read(c, w, Read(c, v, a))
<1> DEFINE m == Len(v)
           n == Len(w)
           u == v \o w
           b == Read(c, v, a)
<1>1. /\ m \in Nat /\ n \in Nat /\ u \in Seq(S) /\ Len(u) = m + n
      /\ \A i \in 1..m : u[i] = v[i]
      /\ \A i \in 1..n : u[m + i] = w[i]
  BY Glue
<1>2. PICK g : IsRun(g, c, v, m, a) /\ g[m] = b
  BY ReadRuns
<1>3. PICK h : IsRun(h, c, w, n, b) /\ h[n] = Read(c, w, b)
  BY ReadRuns
<1> DEFINE r == [k \in 0..(m + n) |-> IF k <= m THEN g[k] ELSE h[k - m]]
<1> HIDE DEF m, n, u, b
<1>4. r[0] = a /\ r[m] = b /\ \A k \in 0..n : r[m + k] = h[k]
  <2>1. r[0] = a /\ r[m] = b
    BY <1>1, <1>2 DEF IsRun
  <2>2. ASSUME NEW k \in 0..n PROVE r[m + k] = h[k]
    <3>1. CASE k = 0
      <4>1. m + k = m
        BY <1>1, <3>1
      <4> HIDE DEF r
      <4> QED  BY <1>3, <2>1, <3>1, <4>1 DEF IsRun
    <3>2. CASE k # 0
      <4>1. PICK i \in 0..(m + n) : i = m + k /\ ~ (i <= m) /\ i - m = k
        BY <1>1, <3>2
      <4>2. r[i] = h[i - m]
        BY <4>1
      <4> HIDE DEF r
      <4> QED  BY <4>1, <4>2
    <3> QED  BY <3>1, <3>2
  <2> QED  BY <2>1, <2>2
<1>5. ASSUME NEW k \in 1..(m + n) PROVE r[k] = Fill(c, u[k], r[k - 1])
  <2>1. CASE k <= m
    <3>1. k \in 1..m /\ k \in 0..(m + n) /\ k - 1 \in 0..(m + n) /\ k - 1 <= m
      BY <1>1, <2>1
    <3>2. r[k] = g[k] /\ r[k - 1] = g[k - 1] /\ u[k] = v[k]
      BY <1>1, <2>1, <3>1
    <3> HIDE DEF r
    <3> QED  BY <1>2, <3>1, <3>2 DEF IsRun
  <2>2. CASE ~ (k <= m)
    <3>1. PICK j \in 1..n : k = m + j
      <4>1. k - m \in 1..n /\ k = m + (k - m)
        BY <1>1, <2>2
      <4> QED  BY <4>1
    <3>2. j \in 0..n /\ j - 1 \in 0..n /\ k - 1 = m + (j - 1)
      BY <1>1, <3>1
    <3> HIDE DEF r
    <3>3. r[k] = h[j] /\ r[k - 1] = h[j - 1] /\ u[k] = w[j]
      BY <1>1, <1>4, <3>1, <3>2
    <3> QED  BY <1>3, <3>3 DEF IsRun
  <2> QED  BY <2>1, <2>2
<1> HIDE DEF r
<1>6. IsRun(r, c, u, m + n, a)
  BY <1>4, <1>5 DEF IsRun
<1>7. r[m + n] = Read(c, u, a)
  BY <1>1, <1>6, ReadRuns
<1>8. r[m + n] = h[n]
  <2>1. n \in 0..n
    BY <1>1
  <2> QED  BY <1>4, <2>1
<1> QED  BY <1>3, <1>7, <1>8 DEF b, u

(* No item is for the field.                                               *)
NoneFor(c, w) == \A i \in 1..Len(w) : ~ Concerns(c, w[i])

LEMMA ReadSkips ==
    ASSUME NEW c, NEW S, NEW w \in Seq(S), NoneFor(c, w), NEW a
    PROVE  Read(c, w, a) = a
<1> DEFINE g == [k \in 0..Len(w) |-> a]
<1>1. Len(w) \in Nat
  OBVIOUS
<1>2. ASSUME NEW k \in 1..Len(w) PROVE g[k] = Fill(c, w[k], g[k - 1])
  <2>1. k \in 0..Len(w) /\ k - 1 \in 0..Len(w)
    BY <1>1
  <2>2. g[k] = a /\ g[k - 1] = a
    BY <2>1
  <2> HIDE DEF g
  <2> QED  BY <2>2 DEF NoneFor, Fill
<1>3. g[0] = a /\ g[Len(w)] = a
  BY <1>1
<1> HIDE DEF g
<1>4. IsRun(g, c, w, Len(w), a)
  BY <1>2, <1>3 DEF IsRun
<1> QED  BY <1>3, <1>4, ReadRuns

(* Items that each add one element to the value.                           *)
LEMMA ReadAppends ==
    ASSUME NEW c, NEW S, NEW w \in Seq(S), NEW T, NEW s \in Seq(T), Len(s) = Len(w),
           \A i \in 1..Len(w) : \A old : Fill(c, w[i], old) = Append(old, s[i])
    PROVE  Read(c, w, <<>>) = s
<1> DEFINE n == Len(w)
           g == [k \in 0..n |-> SubSeq(s, 1, k)]
<1>1. n \in Nat /\ Len(s) = n
  OBVIOUS
<1>2. \A k \in 0..n : g[k] = SubSeq(s, 1, k)
  OBVIOUS
<1> HIDE DEF g
<1>3. g[0] = <<>> /\ g[n] = s
  <2>1. SubSeq(s, 1, 0) = <<>> /\ SubSeq(s, 1, Len(s)) = s
    OBVIOUS
  <2>2. 0 \in 0..n /\ n \in 0..n
    BY <1>1
  <2>3. g[0] = SubSeq(s, 1, 0) /\ g[n] = SubSeq(s, 1, n)
    BY <1>2, <2>2
  <2> HIDE DEF n
  <2> QED  BY <1>1, <2>1, <2>3
<1>4. ASSUME NEW k \in 1..n PROVE g[k] = Fill(c, w[k], g[k - 1])
  <2>1. k \in 0..n /\ k - 1 \in 0..n
    BY <1>1
  <2>2. Append(SubSeq(s, 1, k - 1), s[k]) = SubSeq(s, 1, k)
    BY <1>1
  <2>3. Fill(c, w[k], SubSeq(s, 1, k - 1)) = Append(SubSeq(s, 1, k - 1), s[k])
    OBVIOUS
  <2>4. g[k] = SubSeq(s, 1, k) /\ g[k - 1] = SubSeq(s, 1, k - 1)
    BY <1>2, <2>1
  <2> QED  BY <2>2, <2>3, <2>4
<1>5. IsRun(g, c, w, n, <<>>)
  BY <1>3, <1>4 DEF IsRun
<1> QED  BY <1>3, <1>5, ReadRuns

(* Reading in two parts, and one item at a time.                           *)
LEMMA SplitAt ==
    ASSUME NEW S, NEW w \in Seq(S), NEW i \in 1..Len(w) + 1
    PROVE  /\ SubSeq(w, i, Len(w)) \in Seq(S) /\ SubSeq(w, 1, i - 1) \in Seq(S)
           /\ w = SubSeq(w, 1, i - 1) \o SubSeq(w, i, Len(w))
           /\ Len(SubSeq(w, i, Len(w))) = Len(w) + 1 - i /\ Len(SubSeq(w, 1, i - 1)) = i - 1
           /\ \A k \in 1..i - 1 : SubSeq(w, 1, i - 1)[k] = w[k]
           /\ \A k \in 1..Len(w) + 1 - i : SubSeq(w, i, Len(w))[k] = w[i - 1 + k]
<1> DEFINE a == SubSeq(w, 1, i - 1)
           b == SubSeq(w, i, Len(w))
<1>1. /\ a \in Seq(S) /\ b \in Seq(S) /\ Len(w) \in Nat
      /\ Len(a) = i - 1 /\ Len(b) = Len(w) + 1 - i
  OBVIOUS
<1>2. \A k \in 1..i - 1 : a[k] = w[k]
  OBVIOUS
<1>3. \A k \in 1..Len(w) + 1 - i : b[k] = w[i - 1 + k]
  OBVIOUS
<1> HIDE DEF a, b
<1>4. /\ a \o b \in Seq(S) /\ Len(a \o b) = Len(a) + Len(b)
      /\ \A k \in 1..Len(a) : (a \o b)[k] = a[k]
      /\ \A k \in 1..Len(b) : (a \o b)[Len(a) + k] = b[k]
  <2>1. a \in Seq(S) /\ b \in Seq(S)
    BY <1>1
  <2> QED  BY <2>1, Glue
<1>5. ASSUME NEW k \in 1..Len(w) PROVE (a \o b)[k] = w[k]
  <2>1. CASE k <= i - 1
    BY <1>1, <1>2, <1>4, <2>1
  <2>2. CASE ~ (k <= i - 1)
    <3>1. PICK j \in 1..Len(b) : k = Len(a) + j /\ j \in 1..Len(w) + 1 - i
      <4>1. k - (i - 1) \in 1..Len(b) /\ k = Len(a) + (k - (i - 1))
        BY <1>1, <2>2
      <4> QED  BY <1>1, <4>1
    <3>2. (a \o b)[k] = b[j] /\ b[j] = w[i - 1 + j] /\ i - 1 + j = k
      BY <1>1, <1>3, <1>4, <3>1
    <3> QED  BY <3>2
  <2> QED  BY <2>1, <2>2
<1>6. Len(a \o b) = Len(w)
  BY <1>1, <1>4
<1>7. w = a \o b
  BY <1>4, <1>5, <1>6, SameElements
<1>8. (\A k \in 1..i - 1 : a[k] = w[k]) /\ \A k \in 1..Len(w) + 1 - i : b[k] = w[i - 1 + k]
  BY <1>2, <1>3
<1> QED  BY <1>1, <1>7, <1>8 DEF a, b

LEMMA ReadFrom ==
    ASSUME NEW c, NEW S, NEW w \in Seq(S), NEW i \in 1..Len(w) + 1, NEW a
    PROVE  Read(c, w, a) = Read(c, SubSeq(w, i, Len(w)), Read(c, SubSeq(w, 1, i - 1), a))
<1> DEFINE u == SubSeq(w, 1, i - 1)
           v == SubSeq(w, i, Len(w))
<1>1. u \in Seq(S) /\ v \in Seq(S) /\ w = u \o v
  BY SplitAt
<1> HIDE DEF u, v
<1>2. Read(c, u \o v, a) = Read(c, v, Read(c, u, a))
  BY <1>1, ReadConcat
<1>3. Read(c, w, a) = Read(c, v, Read(c, u, a))
  BY <1>1, <1>2
<1> QED  BY <1>3 DEF u, v

LEMMA ReadHead ==
    ASSUME NEW c, NEW S, NEW w \in Seq(S), NEW i \in 1..Len(w), NEW a
    PROVE  Read(c, SubSeq(w, i, Len(w)), a) = Read(c, SubSeq(w, i + 1, Len(w)), Fill(c, w[i], a))
<1> DEFINE u == SubSeq(w, i, Len(w))
           v == SubSeq(w, i + 1, Len(w))
<1>1. /\ u \in Seq(S) /\ v \in Seq(S) /\ Len(u) = Len(w) + 1 - i /\ Len(v) = Len(w) - i
      /\ Len(w) \in Nat /\ w[i] \in S
  OBVIOUS
<1>2. \A k \in 1..Len(w) + 1 - i : u[k] = w[i - 1 + k]
  OBVIOUS
<1>3. \A k \in 1..Len(w) - i : v[k] = w[i + k]
  OBVIOUS
<1> DEFINE x == <<w[i]>>
<1>4. x \in Seq(S) /\ Len(x) = 1 /\ x[1] = w[i] /\ \A b : Read(c, x, b) = Fill(c, w[i], b)
  <2>1. x \in Seq(S) /\ Len(x) = 1 /\ x[1] = w[i]
    BY <1>1
  <2> QED  BY <2>1, ReadOneItem
<1> HIDE DEF u, v, x
<1>5. /\ x \o v \in Seq(S) /\ Len(x \o v) = Len(x) + Len(v)
      /\ \A k \in 1..Len(x) : (x \o v)[k] = x[k]
      /\ \A k \in 1..Len(v) : (x \o v)[Len(x) + k] = v[k]
  <2>1. x \in Seq(S) /\ v \in Seq(S)
    BY <1>1, <1>4
  <2> QED  BY <2>1, Glue
<1>6. ASSUME NEW k \in 1..Len(u) PROVE (x \o v)[k] = u[k]
  <2>1. k \in 1..Len(w) + 1 - i
    BY <1>1
  <2>2. u[k] = w[i - 1 + k]
    BY <1>2, <2>1
  <2>3. CASE k = 1
    <3>1. i - 1 + k = i /\ k \in 1..Len(x)
      BY <1>4, <2>3
    <3>2. (x \o v)[k] = x[k]
      BY <1>5, <3>1
    <3> QED  BY <1>4, <2>2, <2>3, <3>1, <3>2
  <2>4. CASE k # 1
    <3>1. PICK j \in 1..Len(v) : k = 1 + j /\ j \in 1..Len(w) - i
      <4>1. k - 1 \in 1..Len(v) /\ k = 1 + (k - 1)
        BY <1>1, <2>4
      <4> QED  BY <1>1, <4>1
    <3>2. (x \o v)[Len(x) + j] = v[j]
      BY <1>5
    <3>3. (x \o v)[k] = v[j] /\ v[j] = w[i + j] /\ i - 1 + k = i + j
      BY <1>1, <1>3, <1>4, <3>1, <3>2
    <3> QED  BY <2>2, <3>3
  <2> QED  BY <2>3, <2>4
<1>7. Read(c, u, a) = Read(c, v, Fill(c, w[i], a))
  <2>1. u = x \o v
    <3>1. Len(x \o v) = Len(u)
      BY <1>1, <1>4, <1>5
    <3> QED  BY <1>1, <1>5, <1>6, <3>1, SameElements
  <2>2. Read(c, x \o v, a) = Read(c, v, Read(c, x, a))
    <3>1. x \in Seq(S) /\ v \in Seq(S)
      BY <1>1, <1>4
    <3> QED  BY <3>1, ReadConcat
  <2> QED  BY <1>4, <2>1, <2>2
<1> QED  BY <1>7 DEF u, v

-----------------------------------------------------------------------------
(* Wires in which a field has its items in one block.                      *)

(* Items that are for the same field are items of a repeated field.        *)
Repeats(c, x) == c.encoding = "proto" /\ \E r \in CasesFor(c, x) : r.how = "add"

Lone(c, w) ==
  \A i, j \in 1..Len(w) : Concerns(c, w[i]) /\ Concerns(c, w[j]) =>
    i = j \/ (Repeats(c, w[i]) /\ w[i].number = w[j].number)

(* A wire that holds the block, and nothing else for the field.            *)
Holding(c, w, b) == Lone(c, w) /\ \A a : Read(c, w, a) = Read(c, b, a)

LEMMA HoldsAfter ==
    ASSUME NEW c, NEW S, NEW v \in Seq(S), NEW w \in Seq(S), NEW b,
           \/ NoneFor(c, v) /\ Holding(c, w, b)
           \/ Holding(c, v, b) /\ NoneFor(c, w)
    PROVE  Holding(c, v \o w, b)
<1> DEFINE u == v \o w
<1>1. /\ u \in Seq(S) /\ Len(u) = Len(v) + Len(w) /\ Len(v) \in Nat /\ Len(w) \in Nat
      /\ \A i \in 1..Len(v) : u[i] = v[i]
      /\ \A i \in 1..Len(w) : u[Len(v) + i] = w[i]
  BY Glue
<1>2. \A a : Read(c, u, a) = Read(c, w, Read(c, v, a))
  BY ReadConcat
<1> HIDE DEF u
<1>3. \A i \in 1..Len(u) : i \in 1..Len(v) \/ \E j \in 1..Len(w) : i = Len(v) + j
  <2> SUFFICES ASSUME NEW i \in 1..Len(u), i \notin 1..Len(v)
               PROVE  \E j \in 1..Len(w) : i = Len(v) + j
    OBVIOUS
  <2>1. i - Len(v) \in 1..Len(w) /\ i = Len(v) + (i - Len(v))
    BY <1>1
  <2> QED  BY <2>1
<1>4. CASE NoneFor(c, v) /\ Holding(c, w, b)
  <2>1. \A a : Read(c, u, a) = Read(c, b, a)
    BY <1>2, <1>4, ReadSkips DEF Holding
  <2>2. \A i \in 1..Len(u) : Concerns(c, u[i]) => \E j \in 1..Len(w) : i = Len(v) + j
    BY <1>1, <1>3, <1>4 DEF NoneFor
  <2>3. Lone(c, u)
    <3> SUFFICES ASSUME NEW i \in 1..Len(u), NEW j \in 1..Len(u), i # j,
                        Concerns(c, u[i]), Concerns(c, u[j])
                 PROVE  Repeats(c, u[i]) /\ u[i].number = u[j].number
      BY DEF Lone
    <3>1. PICK k \in 1..Len(w) : i = Len(v) + k
      BY <2>2
    <3>2. PICK l \in 1..Len(w) : j = Len(v) + l
      BY <2>2
    <3>3. u[i] = w[k] /\ u[j] = w[l] /\ k # l
      BY <1>1, <3>1, <3>2
    <3> QED  BY <1>4, <3>3 DEF Holding, Lone
  <2> QED  BY <2>1, <2>3 DEF Holding, u
<1>5. CASE Holding(c, v, b) /\ NoneFor(c, w)
  <2>1. \A a : Read(c, u, a) = Read(c, b, a)
    BY <1>2, <1>5, ReadSkips DEF Holding
  <2>2. \A i \in 1..Len(u) : Concerns(c, u[i]) => i \in 1..Len(v)
    BY <1>1, <1>3, <1>5 DEF NoneFor
  <2>3. Lone(c, u)
    <3> SUFFICES ASSUME NEW i \in 1..Len(u), NEW j \in 1..Len(u), i # j,
                        Concerns(c, u[i]), Concerns(c, u[j])
                 PROVE  Repeats(c, u[i]) /\ u[i].number = u[j].number
      BY DEF Lone
    <3>1. i \in 1..Len(v) /\ j \in 1..Len(v)
      BY <2>2
    <3>2. u[i] = v[i] /\ u[j] = v[j]
      BY <1>1, <3>1
    <3> QED  BY <1>5, <3>1, <3>2 DEF Holding, Lone
  <2> QED  BY <2>1, <2>3 DEF Holding, u
<1> QED  BY <1>4, <1>5

LEMMA NoneAfter ==
    ASSUME NEW c, NEW S, NEW v \in Seq(S), NEW w \in Seq(S), NoneFor(c, v), NoneFor(c, w)
    PROVE  NoneFor(c, v \o w)
<1> DEFINE u == v \o w
<1>1. /\ u \in Seq(S) /\ Len(u) = Len(v) + Len(w) /\ Len(v) \in Nat /\ Len(w) \in Nat
      /\ \A i \in 1..Len(v) : u[i] = v[i]
      /\ \A i \in 1..Len(w) : u[Len(v) + i] = w[i]
  BY Glue
<1> HIDE DEF u
<1>2. ASSUME NEW i \in 1..Len(u) PROVE ~ Concerns(c, u[i])
  <2>1. CASE i \in 1..Len(v)
    BY <1>1, <2>1 DEF NoneFor
  <2>2. CASE i \notin 1..Len(v)
    <3>1. i - Len(v) \in 1..Len(w) /\ i = Len(v) + (i - Len(v))
      BY <1>1, <2>2
    <3>2. PICK j \in 1..Len(w) : i = Len(v) + j
      BY <3>1
    <3> QED  BY <1>1, <3>2 DEF NoneFor
  <2> QED  BY <2>1, <2>2
<1> QED  BY <1>2 DEF NoneFor, u

(* All the blocks but the one at p, if p is the place of one, are of other *)
(* fields.                                                                 *)
LEMMA BlocksRead ==
    ASSUME NEW c, NEW S, NEW ss \in Seq(Seq(S)), NEW p \in Nat \ {0},
           \A k \in 1..Len(ss) : k # p => NoneFor(c, ss[k]),
           p <= Len(ss) => Lone(c, ss[p])
    PROVE  /\ FlattenSeq(ss) \in Seq(S)
           /\ p > Len(ss) => NoneFor(c, FlattenSeq(ss))
           /\ p <= Len(ss) => Holding(c, FlattenSeq(ss), ss[p])
<1>1. CASE ss = <<>>
  <2>1. FlattenSeq(ss) = <<>> /\ Len(ss) = 0 /\ <<>> \in Seq(S) /\ Len(<<>>) = 0
    BY <1>1 DEF FlattenSeq
  <2> QED  BY <2>1 DEF NoneFor
<1>2. CASE ss # <<>>
  <2> DEFINE n == Len(ss)
             Good(k, w) == IF k < p THEN NoneFor(c, w) ELSE Holding(c, w, ss[p])
  <2>1. PICK f \in [1..n -> Seq(S)] : Joins(f, ss, n) /\ FlattenSeq(ss) = f[n]
    BY <1>2, FlattenJoins
  <2>2. n \in Nat /\ n # 0
    BY <1>2
  <2>3. \A k \in 1..n : ss[k] \in Seq(S) /\ f[k] \in Seq(S)
    OBVIOUS
  <2> DEFINE I == {k \in Nat : k \in 1..n => Good(k, f[k])}
  <2>4. 0 \in I
    OBVIOUS
  <2>5. ASSUME NEW k \in I PROVE k + 1 \in I
    <3> SUFFICES ASSUME k + 1 \in 1..n PROVE Good(k + 1, f[k + 1])
      OBVIOUS
    <3>1. k \in Nat /\ k + 1 \in Nat /\ (k # 0 => Good(k, f[k]) /\ k \in 1..n)
      BY <2>2
    <3> HIDE DEF I, Good
    <3>2. PICK j \in 1..n : j = k + 1
      OBVIOUS
    <3>3. f[j] = IF k = 0 THEN ss[j] ELSE f[k] \o ss[j]
      <4>1. f[j] = IF j = 1 THEN ss[j] ELSE f[j - 1] \o ss[j]
        BY <2>1, Zenon DEF Joins
      <4>2. j - 1 = k /\ (j = 1 <=> k = 0)
        BY <3>1, <3>2
      <4> HIDE DEF n
      <4> QED  BY <4>1, <4>2
    <3>4. j # p => NoneFor(c, ss[j])
      OBVIOUS
    <3>5. j = p => Holding(c, ss[j], ss[p])
      BY DEF Holding
    <3>6. ss[j] \in Seq(S) /\ (k # 0 => f[k] \in Seq(S))
      BY <2>3, <3>1
    <3> HIDE DEF n
    <3>7. CASE k = 0
      BY <3>2, <3>3, <3>4, <3>5, <3>7 DEF Good
    <3>8. CASE k # 0 /\ j < p
      <4>1. NoneFor(c, f[k]) /\ NoneFor(c, ss[j])
        BY <3>1, <3>2, <3>4, <3>8 DEF Good
      <4> QED  BY <3>2, <3>3, <3>6, <3>8, <4>1, NoneAfter DEF Good
    <3>9. CASE k # 0 /\ j = p
      <4>1. NoneFor(c, f[k]) /\ Holding(c, ss[j], ss[p])
        BY <3>1, <3>2, <3>5, <3>9 DEF Good
      <4>2. Holding(c, f[k] \o ss[j], ss[p])
        BY <3>6, <3>9, <4>1, HoldsAfter
      <4> QED  BY <3>2, <3>3, <3>9, <4>2 DEF Good
    <3>10. CASE k # 0 /\ j > p
      <4>1. Holding(c, f[k], ss[p]) /\ NoneFor(c, ss[j])
        BY <3>1, <3>2, <3>4, <3>10 DEF Good
      <4>2. Holding(c, f[k] \o ss[j], ss[p])
        BY <3>6, <3>10, <4>1, HoldsAfter
      <4> QED  BY <3>2, <3>3, <3>10, <4>2 DEF Good
    <3> QED  BY <3>1, <3>2, <3>7, <3>8, <3>9, <3>10
  <2>6. I = Nat
    <3>1. I \subseteq Nat
      OBVIOUS
    <3> HIDE DEF I
    <3> QED  BY <2>4, <2>5, <3>1, Induction
  <2>7. n \in I /\ n \in 1..n
    BY <2>2, <2>6
  <2>8. Good(n, f[n])
    BY <2>7
  <2> QED  BY <2>1, <2>2, <2>3, <2>7, <2>8
<1> QED  BY <1>1, <1>2

-----------------------------------------------------------------------------
(* What MarshalToSizedBuffer writes.                                       *)

(* One case of Unmarshal is for what a row writes.                         *)
LEMMA TheCase ==
    ASSUME NEW m \in DOMAIN Format, NEW row \in ToSet(Format[m].writes)
    PROVE  \E r \in Format[m].reads :
             /\ Undoes(r, row)
             /\ \A x : x.number = row.tag \div 8 => CaseOf(Format[m].reads, x) = {r}
<1>1. PICK r \in Format[m].reads : Undoes(r, row)
  BY ReadsAssumption
<1>2. r.number = row.tag \div 8
  BY <1>1 DEF Undoes
<1>3. \A s \in Format[m].reads : s.number = r.number => s = r
  BY ReadsAssumption
<1>4. ASSUME NEW x, x.number = row.tag \div 8 PROVE CaseOf(Format[m].reads, x) = {r}
  BY <1>2, <1>3, <1>4 DEF CaseOf
<1> QED  BY <1>1, <1>4

(* The declarations of a field agree on its empty value.                   *)
LEMMA EmptyIs ==
    ASSUME NEW m \in DOMAIN Format, NEW d \in ToSet(Format[m].struct)
    PROVE  d.field \in FieldsOf(m) /\ Empty(m)[d.field] = ZeroOf(d)
<1> DEFINE e == DeclarationOf(m, d.field)
<1>1. d.field \in FieldsOf(m) /\ e \in ToSet(Format[m].struct) /\ e.field = d.field
  BY DEF FieldsOf, DeclarationOf
<1>2. Empty(m)[d.field] = ZeroOf(e)
  BY <1>1 DEF Empty
<1> HIDE DEF e
<1>3. PICK k \in DOMAIN Format[m].struct : Format[m].struct[k] = d
  BY DEF ToSet
<1>4. PICK l \in DOMAIN Format[m].struct : Format[m].struct[l] = e
  BY <1>1 DEF ToSet
<1>5. k = l \/ (d.arm # "" /\ e.arm # "")
  <2>1. Declares(Format[m].struct)
    BY ReadsAssumption
  <2> QED  BY <1>1, <1>3, <1>4, <2>1 DEF Declares
<1>6. (d.card = "arm" <=> d.arm # "") /\ (e.card = "arm" <=> e.arm # "")
  BY <1>1, ReadsAssumption
<1>7. ZeroOf(e) = ZeroOf(d)
  BY <1>3, <1>4, <1>5, <1>6 DEF ZeroOf
<1> QED  BY <1>1, <1>2, <1>7

(* A row that writes something writes the value of a declaration.          *)
Writes(row, y) == Occurrences(row, y) # <<>>

LEMMA TheDeclaration ==
    ASSUME NEW m \in DOMAIN Format, NEW v, Built(m, v), NEW row \in ToSet(Format[m].writes),
           Writes(row, v[row.field])
    PROVE  \E d \in ToSet(Format[m].struct) :
             /\ d.field = row.field /\ d.arm = row.arm
             /\ <<d.card, row.when>> \in Ways /\ <<d.type, row.type>> \in Encodings
             /\ Holds(d, v[row.field])
             /\ d.card = "arm" => v[row.field] # <<>> /\ v[row.field][1] = row.arm
<1> DEFINE y == v[row.field]
<1>1. PICK d \in ToSet(Format[m].struct) : d.field = row.field /\ Holds(d, y)
  BY WritesAssumption DEF Built
<1>2. /\ <<d.card, row.when>> \in Ways
      /\ d.card # "arm" \/ d.arm = row.arm => <<d.type, row.type>> \in Encodings
  BY <1>1, WritesAssumption
<1> HIDE DEF y
<1>3. Occurrences(row, y) # <<>>
  BY DEF Writes, y
<1>4. CASE d.card # "arm"
  <2>1. PICK s \in ToSet(Format[m].writes) : s.field = d.field /\ s.arm = d.arm
    BY ReadsAssumption
  <2>2. d.arm = ""
    BY <1>4, ReadsAssumption
  <2>3. PICK k \in DOMAIN Format[m].writes : Format[m].writes[k] = row
    BY DEF ToSet
  <2>4. PICK l \in DOMAIN Format[m].writes : Format[m].writes[l] = s
    BY DEF ToSet
  <2>5. k = l
    <3>1. Declares(Format[m].writes)
      BY ReadsAssumption
    <3>2. /\ Format[m].writes[k].field = Format[m].writes[l].field
          /\ Format[m].writes[l].arm = ""
      BY <1>1, <2>1, <2>2, <2>3, <2>4
    <3> QED  BY <3>1, <3>2 DEF Declares
  <2>6. row.arm = d.arm
    BY <2>1, <2>3, <2>4, <2>5
  <2> QED  BY <1>1, <1>2, <1>4, <2>6 DEF y
<1>5. CASE d.card = "arm"
  <2>1. row.when = "chosen" /\ (y = <<>> \/ \E z \in Given(d.type) : y = <<d.arm, z>>)
    BY <1>1, <1>2, <1>5 DEF Holds, Ways
  <2>2. Occurrences(row, y) = IF y # <<>> /\ y[1] = row.arm THEN <<y[2]>> ELSE <<>>
    BY <2>1 DEF Occurrences
  <2>3. y # <<>> /\ y[1] = row.arm
    BY <1>3, <2>2
  <2>4. d.arm = row.arm
    BY <2>1, <2>3
  <2> QED  BY <1>1, <1>2, <1>5, <2>3, <2>4 DEF y
<1> QED  BY <1>4, <1>5

(* No two rows write the same field.                                       *)
LEMMA OneRowWrites ==
    ASSUME NEW m \in DOMAIN Format, NEW v, Built(m, v),
           NEW k \in DOMAIN Format[m].writes, NEW l \in DOMAIN Format[m].writes,
           Format[m].writes[k].field = Format[m].writes[l].field,
           Writes(Format[m].writes[k], v[Format[m].writes[k].field]),
           Writes(Format[m].writes[l], v[Format[m].writes[l].field])
    PROVE  k = l
<1> DEFINE a == Format[m].writes[k]
           b == Format[m].writes[l]
<1>1. a \in ToSet(Format[m].writes) /\ b \in ToSet(Format[m].writes)
  BY DEF ToSet
<1>2. a.field = b.field /\ Writes(a, v[a.field]) /\ Writes(b, v[b.field])
  OBVIOUS
<1>3. k = l \/ (a.arm # "" /\ b.arm # "" /\ a.arm # b.arm)
  <2>1. Declares(Format[m].writes)
    BY ReadsAssumption
  <2> QED  BY <1>2, <2>1 DEF Declares
<1> HIDE DEF a, b
<1>4. PICK d \in ToSet(Format[m].struct) :
        d.arm = a.arm /\ (d.card = "arm" => v[a.field] # <<>> /\ v[a.field][1] = a.arm)
  BY <1>1, <1>2, TheDeclaration
<1>5. PICK e \in ToSet(Format[m].struct) :
        e.arm = b.arm /\ (e.card = "arm" => v[b.field] # <<>> /\ v[b.field][1] = b.arm)
  BY <1>1, <1>2, TheDeclaration
<1>6. (d.card = "arm" <=> d.arm # "") /\ (e.card = "arm" <=> e.arm # "")
  BY ReadsAssumption
<1> QED  BY <1>2, <1>3, <1>4, <1>5, <1>6

(* A field no row writes is empty.                                         *)
LEMMA UnwrittenEmpty ==
    ASSUME NEW m \in DOMAIN Format, NEW v, Built(m, v), NEW f \in FieldsOf(m),
           \A row \in ToSet(Format[m].writes) : row.field = f => ~ Writes(row, v[f])
    PROVE  v[f] = Empty(m)[f]
<1> DEFINE y == v[f]
<1>1. PICK d \in ToSet(Format[m].struct) : d.field = f /\ Holds(d, y)
  BY DEF Built
<1>2. PICK row \in ToSet(Format[m].writes) : row.field = d.field /\ row.arm = d.arm
  BY ReadsAssumption
<1>3. <<d.card, row.when>> \in Ways
  BY <1>1, <1>2, WritesAssumption
<1>4. Occurrences(row, y) = <<>>
  BY <1>1, <1>2 DEF Writes
<1>5. Empty(m)[f] = ZeroOf(d)
  BY <1>1, EmptyIs
<1> HIDE DEF y
<1>6. CASE row.when = "always"
  <2>1. Occurrences(row, y) = <<y>>
    BY <1>6 DEF Occurrences
  <2> QED  BY <1>4, <2>1
<1>7. CASE row.when = "nonzero"
  <2>1. d.card = "one" /\ y = 0
    BY <1>3, <1>4, <1>7 DEF Occurrences, Ways
  <2>2. CASE d.type = "message"
    <3>1. row.type = "message"
      <4>1. <<d.type, row.type>> \in Encodings
        BY <1>1, <1>2, <2>1, WritesAssumption
      <4> QED  BY <2>2, <4>1 DEF Encodings, Ids
    <3>2. PICK r \in Format[m].reads : Undoes(r, row)
      BY TheCase
    <3> QED  BY <1>7, <3>1, <3>2 DEF Undoes
  <2>3. CASE d.type # "message"
    BY <1>5, <2>1, <2>3 DEF ZeroOf, y
  <2> QED  BY <2>2, <2>3
<1>8. CASE row.when \in {"each", "packed"}
  <2>1. y = <<>> /\ d.card # "one"
    BY <1>3, <1>4, <1>8 DEF Occurrences, Ways
  <2> QED  BY <1>5, <2>1 DEF ZeroOf, y
<1>9. CASE row.when = "chosen"
  <2>1. d.card = "arm" /\ ~ (y # <<>> /\ y[1] = row.arm)
    BY <1>3, <1>4, <1>9 DEF Occurrences, Ways
  <2>2. y = <<>>
    BY <1>1, <1>2, <2>1 DEF Holds
  <2> QED  BY <1>5, <2>1, <2>2 DEF ZeroOf, y
<1> QED  BY <1>3, <1>6, <1>7, <1>8, <1>9 DEF Ways

(* A value is what is decoded from its encoding.                           *)
LEMMA DecodeEncodeEach ==
    ASSUME NEW type, NEW encoded, <<type, encoded>> \in Encodings, NEW s \in Seq(Given(type))
    PROVE  DecodeEach(encoded, EncodeEach(encoded, s)) = s
<1>1. DOMAIN s = 1..Len(s) /\ DOMAIN EncodeEach(encoded, s) = 1..Len(s)
  BY DEF EncodeEach
<1>2. ASSUME NEW i \in 1..Len(s)
      PROVE  DecodeEach(encoded, EncodeEach(encoded, s))[i] = s[i]
  <2> DEFINE x == s[i]
             z == EncodeEach(encoded, s)[i]
  <2>1. DecodeEach(encoded, EncodeEach(encoded, s))[i] =
          CASE encoded = "zigzag" -> ZagZig(z)
            [] encoded = "bool"   -> IF z = 0 THEN 0 ELSE 1
            [] OTHER              -> z
    BY <1>1 DEF DecodeEach
  <2>2. z = IF encoded = "zigzag" THEN ZigZag(x) ELSE x
    BY <1>1 DEF EncodeEach
  <2>3. x \in Given(type)
    OBVIOUS
  <2> HIDE DEF x, z
  <2>4. CASE encoded = "zigzag"
    <3>1. type = "zigzag"
      BY <2>4 DEF Encodings, Ids
    <3>2. x \in {300, -1, 0}
      BY <2>3, <3>1 DEF Given, Samples, Least
    <3>3. ZagZig(ZigZag(x)) = x
      BY <3>2 DEF ZagZig, ZigZag
    <3> QED  BY <2>1, <2>2, <2>4, <3>3 DEF x
  <2>5. CASE encoded = "bool"
    <3>1. type = "bool"
      BY <2>5 DEF Encodings, Ids
    <3>2. x \in {0, 1}
      BY <2>3, <3>1 DEF Given, Samples, Least
    <3> QED  BY <2>1, <2>2, <2>5, <3>2 DEF x
  <2>6. CASE encoded \notin {"zigzag", "bool"}
    BY <2>1, <2>2, <2>6 DEF x
  <2> QED  BY <2>4, <2>5, <2>6
<1>3. DecodeEach(encoded, EncodeEach(encoded, s))
        = [i \in 1..Len(s) |-> DecodeEach(encoded, EncodeEach(encoded, s))[i]]
  BY <1>1 DEF DecodeEach
<1>4. s = [i \in 1..Len(s) |-> s[i]]
  BY <1>1
<1> QED  BY <1>2, <1>3, <1>4

LEMMA DecodeEncode ==
    ASSUME NEW type, NEW encoded, <<type, encoded>> \in Encodings, NEW x \in Given(type)
    PROVE  Decode(encoded, Encode(encoded, x)) = x
<1>1. CASE encoded = "message"
  BY <1>1 DEF Decode, Encode
<1>2. CASE encoded # "message"
  <2>1. <<x>> \in Seq(Given(type)) /\ <<x>>[1] = x
    OBVIOUS
  <2>2. DecodeEach(encoded, EncodeEach(encoded, <<x>>)) = <<x>>
    BY <2>1, DecodeEncodeEach
  <2> QED  BY <1>2, <2>1, <2>2 DEF Decode, Encode
<1> QED  BY <1>1, <1>2

(* How a row writes a value: in one item, in one for each element, in one  *)
(* for all of them, or as the arm that is chosen.                          *)
Shape(row, d, y) ==
  \/ /\ row.when \in {"always", "nonzero"} /\ d.card = "one"
     /\ y \in Given(d.type) /\ Occurrences(row, y) = <<y>>
  \/ row.when = "each" /\ d.card = "many" /\ y \in Seq(Given(d.type)) /\ Occurrences(row, y) = y
  \/ /\ row.when = "packed" /\ d.card = "packed"
     /\ y \in Seq(Given(d.type)) /\ Occurrences(row, y) = <<y>>
  \/ /\ row.when = "chosen" /\ d.card = "arm"
     /\ \E z \in Given(d.type) : y = <<row.arm, z>> /\ Occurrences(row, y) = <<z>>

LEMMA TheShape ==
    ASSUME NEW m \in DOMAIN Format, NEW v, Built(m, v), NEW row \in ToSet(Format[m].writes),
           Writes(row, v[row.field])
    PROVE  \E d \in ToSet(Format[m].struct) :
             /\ d.field = row.field /\ <<d.type, row.type>> \in Encodings
             /\ Shape(row, d, v[row.field])
<1> DEFINE y == v[row.field]
<1>1. PICK d \in ToSet(Format[m].struct) :
        /\ d.field = row.field /\ d.arm = row.arm
        /\ <<d.card, row.when>> \in Ways /\ <<d.type, row.type>> \in Encodings
        /\ Holds(d, y)
        /\ d.card = "arm" => y # <<>> /\ y[1] = row.arm
  BY TheDeclaration
<1>2. Occurrences(row, y) # <<>>
  BY DEF Writes
<1> HIDE DEF y
<1>3. CASE row.when \in {"always", "nonzero"}
  <2>1. d.card = "one" /\ y \in Given(d.type)
    BY <1>1, <1>3 DEF Ways, Holds
  <2>2. Occurrences(row, y) \in {<<>>, <<y>>}
    BY <1>3 DEF Occurrences
  <2>3. Shape(row, d, y)
    BY <1>2, <1>3, <2>1, <2>2 DEF Shape
  <2> QED  BY <1>1, <2>3 DEF y
<1>4. CASE row.when = "each"
  <2>1. d.card = "many" /\ y \in Seq(Given(d.type)) /\ Occurrences(row, y) = y
    BY <1>1, <1>4 DEF Ways, Holds, Occurrences
  <2> QED  BY <1>1, <1>4, <2>1 DEF Shape, y
<1>5. CASE row.when = "packed"
  <2>1. d.card = "packed" /\ y \in Seq(Given(d.type))
    BY <1>1, <1>5 DEF Ways, Holds
  <2>2. Occurrences(row, y) \in {<<>>, <<y>>}
    BY <1>5 DEF Occurrences
  <2>3. Shape(row, d, y)
    BY <1>2, <1>5, <2>1, <2>2 DEF Shape
  <2> QED  BY <1>1, <2>3 DEF y
<1>6. CASE row.when = "chosen"
  <2>1. d.card = "arm"
    BY <1>1, <1>6 DEF Ways
  <2>2. PICK z \in Given(d.type) : y = <<row.arm, z>>
    BY <1>1, <2>1 DEF Holds
  <2>3. Occurrences(row, y) = <<z>>
    BY <1>6, <2>2 DEF Occurrences
  <2>4. Shape(row, d, y)
    BY <1>6, <2>1, <2>2, <2>3 DEF Shape
  <2> QED  BY <1>1, <2>4 DEF y
<1> QED  BY <1>1, <1>3, <1>4, <1>5, <1>6 DEF Ways

LEMMA ShapeElements ==
    ASSUME NEW row, NEW d, NEW y, Shape(row, d, y), row.when # "packed",
           NEW i \in DOMAIN Occurrences(row, y)
    PROVE  Occurrences(row, y)[i] \in Given(d.type)
<1>1. PICK xs : xs = Occurrences(row, y)
  OBVIOUS
<1>2. i \in DOMAIN xs
  BY <1>1
<1>3. ASSUME NEW z \in Given(d.type), xs = <<z>> PROVE xs[i] \in Given(d.type)
  <2>1. DOMAIN <<z>> = {1} /\ <<z>>[1] = z
    OBVIOUS
  <2> QED  BY <1>2, <1>3, <2>1
<1>4. CASE xs \in Seq(Given(d.type))
  BY <1>1, <1>2, <1>4
<1>5. CASE \E z \in Given(d.type) : xs = <<z>>
  BY <1>1, <1>3, <1>5
<1>6. xs \in Seq(Given(d.type)) \/ \E z \in Given(d.type) : xs = <<z>>
  BY <1>1, Zenon DEF Shape
<1> QED  BY <1>1, <1>4, <1>5, <1>6

(* What an id has on the wire: none, or all of its bytes.                  *)
IdTexts == {<<0>>, <<1>>}

(* An item a reader accepts; what it adds to is empty at first.            *)
HonestItem(m, x) ==
  /\ IsItem(x) /\ ~ Refused(Format[m].reads, x)
  /\ \A r \in CaseOf(Format[m].reads, x) :
       /\ r.how = "pack" => x.wire = 2
       /\ r.how \in {"pack", "merge"} => Empty(m)[r.field] = <<>>

LEMMA WrittenParts ==
    ASSUME NEW row, NEW z
    PROVE  /\ Written(row, z).number = row.tag \div 8
           /\ Written(row, z).wire = row.tag % 8
           /\ Written(row, z).whole
           /\ Written(row, z).payload =
                IF row.when = "packed" THEN EncodeEach(row.type, z) ELSE Encode(row.type, z)
BY DEF Written, Item

(* What an item of a row is for.                                           *)
LEMMA WrittenFor ==
    ASSUME NEW m \in DOMAIN Format, NEW row \in ToSet(Format[m].writes)
    PROVE  \E r \in Format[m].reads :
             /\ Undoes(r, row)
             /\ \A z : CaseOf(Format[m].reads, Written(row, z)) = {r}
             /\ \A f, z : CasesFor(FieldReader("proto", Format[m], f), Written(row, z))
                            = IF f = row.field THEN {r} ELSE {}
<1>1. PICK r \in Format[m].reads :
        /\ Undoes(r, row)
        /\ \A x : x.number = row.tag \div 8 => CaseOf(Format[m].reads, x) = {r}
  BY TheCase
<1>2. \A z : CaseOf(Format[m].reads, Written(row, z)) = {r}
  BY <1>1, WrittenParts
<1>3. r.field = row.field
  BY <1>1 DEF Undoes
<1>4. ASSUME NEW f, NEW z
      PROVE  CasesFor(FieldReader("proto", Format[m], f), Written(row, z))
               = IF f = row.field THEN {r} ELSE {}
  BY <1>2, <1>3 DEF CasesFor, FieldReader
<1> QED  BY <1>1, <1>2, <1>4

LEMMA WrittenHonest ==
    ASSUME NEW m \in DOMAIN Format, NEW v, Built(m, v), NEW row \in ToSet(Format[m].writes),
           NEW i \in DOMAIN Occurrences(row, v[row.field])
    PROVE  HonestItem(m, Written(row, Occurrences(row, v[row.field])[i]))
<1> DEFINE y == v[row.field]
           xs == Occurrences(row, y)
           x == Written(row, xs[i])
<1>1. PICK S : xs \in Seq(S) /\ \A z \in S : Writable(row, z)
  BY OccurrencesWritable
<1>2. Writable(row, xs[i]) /\ xs # <<>>
  BY <1>1
<1>3. PICK d \in ToSet(Format[m].struct) :
        d.field = row.field /\ <<d.type, row.type>> \in Encodings /\ Shape(row, d, y)
  BY <1>2, TheShape DEF Writes
<1>4. PICK r \in Format[m].reads :
        /\ Undoes(r, row)
        /\ \A z : CaseOf(Format[m].reads, Written(row, z)) = {r}
  BY WrittenFor
<1>5. IsItem(x)
  BY <1>2, WrittenItem
<1>6. /\ x.number = row.tag \div 8 /\ x.wire = row.tag % 8 /\ x.whole
      /\ x.payload = IF row.when = "packed" THEN EncodeEach(row.type, xs[i])
                                            ELSE Encode(row.type, xs[i])
  BY WrittenParts
<1>7. CaseOf(Format[m].reads, x) = {r}
  BY <1>4
<1>8. r.type \in Ids => xs[i] \in {0, 1} /\ row.when # "packed"
  <2> SUFFICES ASSUME r.type \in Ids PROVE xs[i] \in {0, 1} /\ row.when # "packed"
    OBVIOUS
  <2>1. row.type \in Ids /\ row.when # "packed"
    BY <1>4, ReadsAssumption DEF Undoes
  <2>2. Given(d.type) = {0, 1}
    <3>1. d.type \in Ids
      BY <1>3, <2>1 DEF Encodings, Ids
    <3> QED  BY <3>1 DEF Given, Samples, Least, Ids
  <2>3. xs[i] \in Given(d.type)
    <3> HIDE DEF y
    <3> QED  BY <1>3, <2>1, ShapeElements DEF y
  <2> QED  BY <2>1, <2>2, <2>3
<1> HIDE DEF x, xs
<1>9. r.type \in Ids => x.payload \in IdTexts
  <2> SUFFICES ASSUME r.type \in Ids PROVE x.payload \in IdTexts
    OBVIOUS
  <2>1. row.type \in Ids /\ row.type # "message" /\ row.type # "zigzag"
    BY <1>4 DEF Undoes, Ids
  <2>2. x.payload = <<xs[i]>>
    BY <1>6, <1>8, <2>1 DEF Encode, EncodeEach
  <2> QED  BY <1>8, <2>2 DEF IdTexts
<1>10. /\ r.wires \cap {4, 6, 7} = {} /\ row.tag \div 8 = r.number
       /\ row.tag % 8 \in r.wires
  BY <1>4, ReadsAssumption DEF Undoes
<1>11. ~ Refused(Format[m].reads, x)
  <2>1. x.number = r.number /\ x.wire \in r.wires /\ x.wire \notin {4, 6, 7}
    BY <1>6, <1>10
  <2>2. ~ (x.number <= 0)
    <3>1. r.number \in Nat \ {0}
      BY ReadsAssumption
    <3> QED  BY <2>1, <3>1
  <2> QED  BY <1>6, <1>7, <1>9, <2>1, <2>2 DEF Refused, IdTexts
<1>12. r.how = "pack" => x.wire = 2
  BY <1>4, <1>6 DEF Undoes
<1>13. r.how \in {"pack", "merge"} => Empty(m)[r.field] = <<>>
  <2>1. r.field = row.field /\ Empty(m)[d.field] = ZeroOf(d)
    BY <1>3, <1>4, EmptyIs DEF Undoes
  <2>2. CASE r.how = "pack"
    <3>1. row.when = "packed"
      BY <1>4, <2>2 DEF Undoes
    <3>2. d.card = "packed"
      BY <1>3, <3>1 DEF Shape
    <3> QED  BY <1>3, <2>1, <3>2 DEF ZeroOf
  <2>3. CASE r.how = "merge"
    <3>1. row.type = "message"
      BY <1>4, <2>3 DEF Undoes
    <3>2. d.type = "message"
      BY <1>3, <3>1 DEF Encodings, Ids
    <3> QED  BY <1>3, <2>1, <3>2 DEF ZeroOf
  <2> QED  BY <2>2, <2>3
<1> QED  BY <1>5, <1>7, <1>11, <1>12, <1>13 DEF HonestItem, x, xs

(* The items of a row, seen from a field.                                  *)
IsBlock(row, y) ==
  LET xs == Occurrences(row, y)
      b  == Block(row, y)
  IN /\ Len(b) = Len(xs) /\ Len(b) \in Nat /\ DOMAIN xs = 1..Len(b)
     /\ \A i \in 1..Len(b) : b[i] = Written(row, xs[i])
     /\ Writes(row, y) <=> Len(b) # 0
     /\ b = [i \in 1..Len(b) |-> b[i]]

LEMMA BlockIs ==
    ASSUME NEW m \in DOMAIN Format, NEW v, Built(m, v), NEW row \in ToSet(Format[m].writes)
    PROVE  IsBlock(row, v[row.field])
<1> DEFINE xs == Occurrences(row, v[row.field])
           b  == Block(row, v[row.field])
<1>1. PICK S : xs \in Seq(S)
  BY OccurrencesWritable
<1>2. DOMAIN xs = 1..Len(xs) /\ Len(xs) \in Nat
  BY <1>1
<1>3. b = [i \in 1..Len(xs) |-> Written(row, xs[i])]
  BY <1>2 DEF Block
<1>4. xs # <<>> <=> Len(xs) # 0
  BY <1>1
<1> HIDE DEF xs, b
<1>5. Len(b) = Len(xs)
  BY <1>2, <1>3
<1>6. /\ Len(b) = Len(xs) /\ Len(b) \in Nat /\ DOMAIN xs = 1..Len(b)
      /\ \A i \in 1..Len(b) : b[i] = Written(row, xs[i])
      /\ xs # <<>> <=> Len(b) # 0
      /\ b = [i \in 1..Len(b) |-> b[i]]
  BY <1>2, <1>3, <1>4, <1>5
<1> QED  BY <1>6 DEF xs, b, Writes, IsBlock

LEMMA BlockNoneFor ==
    ASSUME NEW m \in DOMAIN Format, NEW v, Built(m, v), NEW row \in ToSet(Format[m].writes),
           NEW f, row.field # f \/ ~ Writes(row, v[row.field])
    PROVE  NoneFor(FieldReader("proto", Format[m], f), Block(row, v[row.field]))
<1> DEFINE xs == Occurrences(row, v[row.field])
           b  == Block(row, v[row.field])
           c  == FieldReader("proto", Format[m], f)
<1>1. /\ Len(b) \in Nat /\ (Writes(row, v[row.field]) <=> Len(b) # 0)
      /\ \A i \in 1..Len(b) : b[i] = Written(row, xs[i])
  <2>1. IsBlock(row, v[row.field])
    BY BlockIs
  <2> QED  BY <2>1 DEF IsBlock
<1>2. row.field # f => \A z : CasesFor(c, Written(row, z)) = {}
  BY WrittenFor
<1> HIDE DEF xs, b, c
<1>3. NoneFor(c, b)
  BY <1>1, <1>2 DEF NoneFor, Concerns
<1> QED  BY <1>3 DEF b, c

LEMMA BlockLone ==
    ASSUME NEW m \in DOMAIN Format, NEW v, Built(m, v), NEW row \in ToSet(Format[m].writes)
    PROVE  Lone(FieldReader("proto", Format[m], row.field), Block(row, v[row.field]))
<1> DEFINE y  == v[row.field]
           xs == Occurrences(row, y)
           b  == Block(row, y)
           c  == FieldReader("proto", Format[m], row.field)
<1>1. /\ Len(b) = Len(xs) /\ Len(b) \in Nat
      /\ \A i \in 1..Len(b) : b[i] = Written(row, xs[i])
  <2>1. IsBlock(row, v[row.field])
    BY BlockIs
  <2> QED  BY <2>1 DEF IsBlock
<1>2. Writes(row, v[row.field]) <=> Len(b) # 0
  <2>1. IsBlock(row, v[row.field])
    BY BlockIs
  <2> QED  BY <2>1 DEF IsBlock
<1>3. PICK r \in Format[m].reads : Undoes(r, row) /\ \A z : CasesFor(c, Written(row, z)) = {r}
  BY WrittenFor
<1>4. \A z : Written(row, z).number = row.tag \div 8
  BY WrittenParts
<1>5. c.encoding = "proto"
  BY DEF FieldReader
<1> HIDE DEF b, c, y
<1>6. CASE row.when = "each"
  <2>1. r.how = "add"
    BY <1>3, <1>6 DEF Undoes
  <2> QED  BY <1>1, <1>3, <1>4, <1>5, <2>1 DEF Lone, Repeats, b, c, y
<1>7. CASE row.when # "each"
  <2>1. ASSUME Writes(row, y) PROVE Len(b) = 1
    <3>1. PICK d \in ToSet(Format[m].struct) : Shape(row, d, y)
      BY <2>1, TheShape DEF y
    <3>2. PICK z : xs = <<z>>
      BY <1>7, <3>1 DEF Shape
    <3> QED  BY <1>1, <3>2
  <2>2. Len(b) \in {0, 1}
    BY <1>2, <1>1, <2>1 DEF y
  <2> QED  BY <2>2 DEF Lone, b, c, y
<1> QED  BY <1>6, <1>7

LEMMA BlockReads ==
    ASSUME NEW m \in DOMAIN Format, NEW v, Built(m, v), NEW row \in ToSet(Format[m].writes),
           Writes(row, v[row.field])
    PROVE  Read(FieldReader("proto", Format[m], row.field), Block(row, v[row.field]),
                Empty(m)[row.field]) = v[row.field]
<1> DEFINE y  == v[row.field]
           xs == Occurrences(row, y)
           b  == Block(row, y)
           c  == FieldReader("proto", Format[m], row.field)
           a  == Empty(m)[row.field]
<1>1. /\ Len(b) = Len(xs) /\ Len(b) \in Nat /\ b = [i \in 1..Len(b) |-> b[i]]
      /\ \A i \in 1..Len(b) : b[i] = Written(row, xs[i])
  <2>1. IsBlock(row, v[row.field])
    BY BlockIs
  <2> QED  BY <2>1 DEF IsBlock
<1>2. PICK d \in ToSet(Format[m].struct) :
        d.field = row.field /\ <<d.type, row.type>> \in Encodings /\ Shape(row, d, y)
  BY TheShape
<1>3. PICK r \in Format[m].reads : Undoes(r, row) /\ \A z : CasesFor(c, Written(row, z)) = {r}
  BY WrittenFor
<1>4. c.encoding = "proto"
  BY DEF FieldReader
<1>5. a = ZeroOf(d)
  BY <1>2, EmptyIs
<1> HIDE DEF y, b, c, a
<1>6. ASSUME NEW z, NEW old
      PROVE  Fill(c, Written(row, z), old) = Stored(r, Written(row, z), old)
  <2>1. (CHOOSE q \in {r} : TRUE) = r
    OBVIOUS
  <2> QED  BY <1>3, <1>4, <2>1 DEF Fill, Concerns
<1>7. ASSUME NEW z
      PROVE  /\ Written(row, z).wire = row.tag % 8
             /\ row.when = "packed" => Written(row, z).payload = EncodeEach(row.type, z)
             /\ row.when # "packed" => Written(row, z).payload = Encode(row.type, z)
  BY WrittenParts
<1>8. r.type = row.type /\ r.arm = row.arm
  BY <1>3 DEF Undoes
<1>9. ASSUME NEW z, xs = <<z>>
      PROVE  Read(c, b, a) = Stored(r, Written(row, z), a)
  <2>1. Len(b) = 1 /\ b[1] = Written(row, z)
    BY <1>1, <1>9
  <2>2. b = <<Written(row, z)>>
    BY <1>1, <2>1
  <2> QED  BY <1>6, <2>2, ReadOneItem
<1>10. CASE row.when \in {"always", "nonzero"}
  <2>1. xs = <<y>> /\ y \in Given(d.type) /\ d.card = "one"
    BY <1>2, <1>10 DEF Shape
  <2>2. Decode(row.type, Encode(row.type, y)) = y
    BY <1>2, <2>1, DecodeEncode
  <2>3. Written(row, y).payload = Encode(row.type, y)
    BY <1>7, <1>10
  <2>4. CASE r.how = "set"
    <3>1. Stored(r, Written(row, y), a) = Decode(row.type, Written(row, y).payload)
      BY <1>8, <2>4 DEF Stored
    <3> QED  BY <1>9, <2>1, <2>2, <2>3, <3>1 DEF y, b, c, a
  <2>5. CASE r.how = "merge"
    <3>1. row.type = "message"
      BY <1>3, <2>5 DEF Undoes
    <3>2. d.type = "message"
      BY <1>2, <3>1 DEF Encodings, Ids
    <3>3. a = <<>> /\ y \in {<<>>, <<2>>, <<2, 130>>}
      BY <1>5, <2>1, <3>2 DEF ZeroOf, Given, Samples, Least
    <3>4. <<>> \o y = y
      BY <3>3
    <3>5. Stored(r, Written(row, y), a) = a \o Written(row, y).payload
      BY <2>5 DEF Stored
    <3>6. Encode(row.type, y) = y
      BY <3>1 DEF Encode
    <3> QED  BY <1>9, <2>1, <2>3, <3>3, <3>4, <3>5, <3>6 DEF y, b, c, a
  <2> QED  BY <1>3, <1>10, <2>4, <2>5 DEF Undoes
<1>11. CASE row.when = "each"
  <2>1. xs = y /\ y \in Seq(Given(d.type)) /\ d.card = "many" /\ r.how = "add"
    BY <1>2, <1>3, <1>11 DEF Shape, Undoes
  <2>2. a = <<>>
    BY <1>5, <2>1 DEF ZeroOf
  <2>3. ASSUME NEW i \in 1..Len(b), NEW old PROVE Fill(c, b[i], old) = Append(old, y[i])
    <3>1. b[i] = Written(row, y[i]) /\ y[i] \in Given(d.type)
      BY <1>1, <2>1
    <3>2. Stored(r, Written(row, y[i]), old) = Append(old, Decode(row.type, Written(row, y[i]).payload))
      BY <1>8, <2>1 DEF Stored
    <3>3. Written(row, y[i]).payload = Encode(row.type, y[i])
      BY <1>7, <1>11
    <3>4. Decode(row.type, Encode(row.type, y[i])) = y[i]
      BY <1>2, <3>1, DecodeEncode
    <3> QED  BY <1>6, <3>1, <3>2, <3>3, <3>4
  <2> DEFINE S == {b[i] : i \in 1..Len(b)}
  <2>4. b \in Seq(S)
    <3>1. b \in [1..Len(b) -> S]
      BY <1>1
    <3> HIDE DEF S
    <3> QED  BY <1>1, <3>1
  <2> HIDE DEF S
  <2>5. Len(y) = Len(b)
    BY <1>1, <2>1
  <2>6. Read(c, b, <<>>) = y
    BY <2>1, <2>3, <2>4, <2>5, ReadAppends
  <2> QED  BY <2>2, <2>6 DEF y, b, c, a
<1>12. CASE row.when = "packed"
  <2>1. xs = <<y>> /\ y \in Seq(Given(d.type)) /\ d.card = "packed" /\ r.how = "pack"
    BY <1>2, <1>3, <1>12 DEF Shape, Undoes
  <2>2. a = <<>>
    BY <1>5, <2>1 DEF ZeroOf
  <2>3. Written(row, y).wire = 2
    BY <1>3, <1>7, <1>12 DEF Undoes
  <2>4. Stored(r, Written(row, y), a) = a \o DecodeEach(row.type, Written(row, y).payload)
    BY <1>8, <2>1, <2>3 DEF Stored
  <2>5. DecodeEach(row.type, EncodeEach(row.type, y)) = y
    BY <1>2, <2>1, DecodeEncodeEach
  <2>6. <<>> \o y = y
    BY <2>1
  <2> QED  BY <1>7, <1>9, <1>12, <2>1, <2>2, <2>4, <2>5, <2>6 DEF y, b, c, a
<1>13. CASE row.when = "chosen"
  <2>1. PICK z \in Given(d.type) : y = <<row.arm, z>> /\ xs = <<z>>
    BY <1>2, <1>13 DEF Shape
  <2>2. r.how = "choose"
    BY <1>3, <1>13 DEF Undoes
  <2>3. Stored(r, Written(row, z), a) = <<row.arm, Decode(row.type, Written(row, z).payload)>>
    BY <1>8, <2>2 DEF Stored
  <2>4. Decode(row.type, Encode(row.type, z)) = z
    BY <1>2, <2>1, DecodeEncode
  <2> QED  BY <1>7, <1>9, <1>13, <2>1, <2>3, <2>4 DEF y, b, c, a
<1> QED  BY <1>2, <1>10, <1>11, <1>12, <1>13 DEF Shape

-----------------------------------------------------------------------------
(* What Marshal writes.                                                    *)

(* What a reader accepts, in either encoding.                              *)
HonestPart(e, m, x) ==
  IF e = "proto" THEN HonestItem(m, x) ELSE "whole" \in DOMAIN x /\ x.whole

(* The fields a reader gives back.                                         *)
Wanted(e, m) == {f \in FieldsOf(m) : e = "json" => <<m, f>> \notin JsonForgets}

(* Reading the wire turns the first values of the fields into the others.  *)
Yields(e, m, w, from, v) ==
  \A f \in Wanted(e, m) : Read(FieldReader(e, Format[m], f), w, from[f]) = v[f]

(* A wire no transport has touched.                                        *)
Honest(e, m, v, w) ==
  /\ \E S : w \in Seq(S) /\ \A x \in S : HonestPart(e, m, x)
  /\ \A f \in Wanted(e, m) : Lone(FieldReader(e, Format[m], f), w)
  /\ Yields(e, m, w, Empty(m), v)

(* Blocks of items that hold the fields of a message, one block each, are  *)
(* read as that message.                                                   *)
LEMMA BlocksYield ==
    ASSUME NEW e, NEW m, NEW v, NEW S, NEW ss \in Seq(Seq(S)),
           \A x \in S : HonestPart(e, m, x),
           \A f \in Wanted(e, m) : \E p \in Nat \ {0} :
             LET c == FieldReader(e, Format[m], f)
             IN /\ \A k \in 1..Len(ss) : k # p => NoneFor(c, ss[k])
                /\ p <= Len(ss) => Lone(c, ss[p]) /\ Read(c, ss[p], Empty(m)[f]) = v[f]
                /\ p > Len(ss) => Empty(m)[f] = v[f]
    PROVE  Honest(e, m, v, FlattenSeq(ss))
<1> DEFINE w == FlattenSeq(ss)
<1>1. w \in Seq(S)
  BY FlattenType
<1>2. ASSUME NEW f \in Wanted(e, m)
      PROVE  /\ Lone(FieldReader(e, Format[m], f), w)
             /\ Read(FieldReader(e, Format[m], f), w, Empty(m)[f]) = v[f]
  <2> DEFINE c == FieldReader(e, Format[m], f)
  <2>1. PICK p \in Nat \ {0} :
          /\ \A k \in 1..Len(ss) : k # p => NoneFor(c, ss[k])
          /\ p <= Len(ss) => Lone(c, ss[p]) /\ Read(c, ss[p], Empty(m)[f]) = v[f]
          /\ p > Len(ss) => Empty(m)[f] = v[f]
    OBVIOUS
  <2> HIDE DEF c
  <2>2. /\ p > Len(ss) => NoneFor(c, w)
        /\ p <= Len(ss) => Holding(c, w, ss[p])
    BY <2>1, BlocksRead
  <2> HIDE DEF w
  <2>3. CASE p <= Len(ss)
    BY <2>1, <2>2, <2>3 DEF Holding, c
  <2>4. CASE p > Len(ss)
    <3>1. NoneFor(c, w)
      BY <2>2, <2>4
    <3>2. Read(c, w, Empty(m)[f]) = Empty(m)[f]
      BY <1>1, <3>1, ReadSkips
    <3>3. Lone(c, w)
      BY <3>1 DEF NoneFor, Lone
    <3> QED  BY <2>1, <2>4, <3>2, <3>3 DEF c
  <2>5. Len(ss) \in Nat
    OBVIOUS
  <2> QED  BY <2>3, <2>4, <2>5
<1> HIDE DEF w
<1>3. \E T : w \in Seq(T) /\ \A x \in T : HonestPart(e, m, x)
  BY <1>1
<1>4. Honest(e, m, v, w)
  BY <1>2, <1>3 DEF Honest, Yields
<1> QED  BY <1>4 DEF w

LEMMA BlockHonest ==
    ASSUME NEW m \in DOMAIN Format, NEW v, Built(m, v), NEW row \in ToSet(Format[m].writes),
           NEW S, \A i \in Nat : LET x == Block(row, v[row.field])[i] IN HonestItem(m, x) => x \in S
    PROVE  Block(row, v[row.field]) \in Seq(S)
<1> DEFINE xs == Occurrences(row, v[row.field])
           b  == Block(row, v[row.field])
<1>1. /\ Len(b) \in Nat /\ DOMAIN xs = 1..Len(b) /\ b = [i \in 1..Len(b) |-> b[i]]
      /\ \A i \in 1..Len(b) : b[i] = Written(row, xs[i])
  <2>1. IsBlock(row, v[row.field])
    BY BlockIs
  <2> QED  BY <2>1 DEF IsBlock
<1>2. ASSUME NEW i \in 1..Len(b) PROVE b[i] \in S
  <2>1. HonestItem(m, Written(row, xs[i]))
    BY <1>1, WrittenHonest
  <2>2. b[i] = Written(row, xs[i])
    BY <1>1
  <2> QED  BY <2>1, <2>2
<1> HIDE DEF b
<1>3. b \in [1..Len(b) -> S]
  BY <1>1, <1>2
<1>4. b \in Seq(S)
  BY <1>1, <1>3
<1> QED  BY <1>4 DEF b

LEMMA MarshalHonest ==
    ASSUME NEW m \in DOMAIN Format, NEW v, Built(m, v)
    PROVE  Honest("proto", m, v, MarshalToSizedBuffer(Format[m].writes, v))
<1> DEFINE writes == Format[m].writes
           ss == Blocks(writes, v)
           S == {x \in UNION {{ss[k][i] : i \in Nat} : k \in DOMAIN writes} : HonestItem(m, x)}
<1>1. DOMAIN writes = 1..Len(writes) /\ Len(writes) \in Nat
  BY WritesAssumption
<1>2. DOMAIN ss = DOMAIN writes /\ \A k \in DOMAIN writes : ss[k] = Block(writes[k], v[writes[k].field])
  BY DEF Blocks
<1>3. \A k \in DOMAIN writes : writes[k] \in ToSet(Format[m].writes)
  BY DEF ToSet
<1> HIDE DEF ss
<1>4. ASSUME NEW k \in DOMAIN writes PROVE ss[k] \in Seq(S)
  <2>1. \A i \in Nat : HonestItem(m, ss[k][i]) => ss[k][i] \in S
    OBVIOUS
  <2> HIDE DEF S
  <2> QED  BY <1>2, <1>3, <2>1, BlockHonest
<1>5. \A x \in S : HonestPart("proto", m, x)
  BY DEF HonestPart
<1> HIDE DEF S
<1>6. ss \in Seq(Seq(S)) /\ Len(ss) = Len(writes)
  <2>1. ss = [k \in DOMAIN writes |-> Block(writes[k], v[writes[k].field])]
    BY DEF ss, Blocks
  <2>2. ss \in [1..Len(writes) -> Seq(S)]
    BY <1>1, <1>2, <1>4, <2>1
  <2> QED  BY <1>1, <2>2
<1>7. ASSUME NEW f \in Wanted("proto", m)
      PROVE  \E p \in Nat \ {0} :
             LET c == FieldReader("proto", Format[m], f)
             IN /\ \A k \in 1..Len(ss) : k # p => NoneFor(c, ss[k])
                /\ p <= Len(ss) => Lone(c, ss[p]) /\ Read(c, ss[p], Empty(m)[f]) = v[f]
                /\ p > Len(ss) => Empty(m)[f] = v[f]
  <2> DEFINE c == FieldReader("proto", Format[m], f)
             Mine(k) == writes[k].field = f /\ Writes(writes[k], v[f])
  <2>1. ASSUME NEW k \in 1..Len(ss), ~ Mine(k) PROVE NoneFor(c, ss[k])
    <3>1. writes[k] \in ToSet(Format[m].writes) /\ ss[k] = Block(writes[k], v[writes[k].field])
      BY <1>1, <1>2, <1>3, <1>6
    <3>2. writes[k].field # f \/ ~ Writes(writes[k], v[writes[k].field])
      BY <2>1
    <3> QED  BY <3>1, <3>2, BlockNoneFor
  <2>2. CASE \E p \in 1..Len(ss) : Mine(p)
    <3>1. PICK p \in 1..Len(ss) : Mine(p)
      BY <2>2
    <3>2. ASSUME NEW k \in 1..Len(ss), k # p PROVE ~ Mine(k)
      <4> SUFFICES ASSUME Mine(k) PROVE k = p
        BY <3>2
      <4>1. k \in DOMAIN Format[m].writes /\ p \in DOMAIN Format[m].writes
        BY <1>1, <1>6
      <4>2. writes[k].field = f /\ writes[p].field = f /\ Writes(writes[k], v[f]) /\ Writes(writes[p], v[f])
        BY <3>1
      <4> QED  BY <4>1, <4>2, OneRowWrites
    <3>3. /\ writes[p] \in ToSet(Format[m].writes) /\ writes[p].field = f
          /\ ss[p] = Block(writes[p], v[f]) /\ Writes(writes[p], v[f])
      BY <1>1, <1>2, <1>3, <1>6, <3>1
    <3>4. Lone(c, ss[p])
      BY <3>3, BlockLone
    <3>5. Read(c, ss[p], Empty(m)[f]) = v[f]
      BY <3>3, BlockReads
    <3> HIDE DEF c, Mine
    <3>6. \A k \in 1..Len(ss) : k # p => NoneFor(c, ss[k])
      BY <2>1, <3>2
    <3>7. p \in Nat \ {0} /\ ~ (p > Len(ss))
      BY <1>1, <1>6
    <3> QED  BY <3>4, <3>5, <3>6, <3>7 DEF c
  <2>3. CASE ~ \E p \in 1..Len(ss) : Mine(p)
    <3>1. ASSUME NEW row \in ToSet(Format[m].writes), row.field = f PROVE ~ Writes(row, v[f])
      <4>1. PICK k \in DOMAIN writes : writes[k] = row
        BY DEF ToSet
      <4> QED  BY <1>1, <1>6, <2>3, <3>1, <4>1
    <3>2. f \in FieldsOf(m)
      BY DEF Wanted
    <3>3. v[f] = Empty(m)[f]
      BY <3>1, <3>2, UnwrittenEmpty
    <3> DEFINE p == Len(ss) + 1
    <3>4. p \in Nat \ {0} /\ ~ (p <= Len(ss))
      BY <1>1, <1>6
    <3>5. \A k \in 1..Len(ss) : k # p => NoneFor(c, ss[k])
      BY <2>1, <2>3
    <3> HIDE DEF c, p
    <3> QED  BY <3>3, <3>4, <3>5 DEF c
  <2> QED  BY <2>2, <2>3
<1>8. Honest("proto", m, v, FlattenSeq(ss))
  BY <1>5, <1>6, <1>7, BlocksYield
<1> QED  BY <1>8, MarshalFlattens DEF ss

-----------------------------------------------------------------------------
(* What jsonpb writes.                                                     *)

(* A value is what is read from its text.                                  *)
LEMMA JsonTextOfValue ==
    ASSUME NEW type, NEW text, type = "message" <=> text = "message",
           type = "bytes" <=> text = "base64", NEW x \in Given(type)
    PROVE  JsonText(text, JsonValue(type, x)) = x
<1>1. CASE type = "message"
  BY <1>1 DEF JsonText, JsonValue
<1>2. CASE type = "bytes"
  <2> DEFINE p == Base64(x)
  <2>1. x \in {0, 1, 128}
    BY <1>2 DEF Given, Samples, Least
  <2>2. p[1] = 4 * ((x + 2) \div 3) /\ p[2] = (-x) % 3
    BY DEF Base64
  <2>3. 3 * (p[1] \div 4) - p[2] = x
    <3> HIDE DEF p
    <3>1. CASE x = 0
      BY <2>2, <3>1
    <3>2. CASE x = 1
      <4>1. (1 + 2) \div 3 = 1 /\ (4 * 1) \div 4 = 1
        OBVIOUS
      <4>2. (-x) % 3 = 2
        <5> DEFINE z == -x
        <5>1. z \in Int /\ \E k \in Int : z = 3 * k + 2
          <6>1. (-1) \in Int /\ z = 3 * (-1) + 2
            BY <3>2
          <6> QED  BY <6>1
        <5> HIDE DEF z
        <5>2. PICK k \in Int : z = 3 * k + 2
          BY <5>1
        <5>3. z % 3 = 2
          BY <5>1, <5>2
        <5> QED  BY <5>3 DEF z
      <4>3. p[1] = 4 * 1 /\ p[2] = 2
        BY <2>2, <3>2, <4>1, <4>2
      <4> QED  BY <3>2, <4>1, <4>3
    <3>3. CASE x = 128
      <4>1. (128 + 2) \div 3 = 43 /\ (4 * 43) \div 4 = 43
        OBVIOUS
      <4>2. (-x) % 3 = 1
        <5> DEFINE z == -x
        <5>1. z \in Int /\ \E k \in Int : z = 3 * k + 1
          <6>1. (-43) \in Int /\ z = 3 * (-43) + 1
            BY <3>3
          <6> QED  BY <6>1
        <5> HIDE DEF z
        <5>2. PICK k \in Int : z = 3 * k + 1
          BY <5>1
        <5>3. z % 3 = 1
          BY <5>1, <5>2
        <5> QED  BY <5>3 DEF z
      <4>3. p[1] = 4 * 43 /\ p[2] = 1
        BY <2>2, <3>3, <4>1, <4>2
      <4> QED  BY <3>3, <4>1, <4>3
    <3> QED  BY <2>1, <3>1, <3>2, <3>3
  <2>4. JsonText(text, JsonValue(type, x)) = 3 * (p[1] \div 4) - p[2]
    BY <1>2 DEF JsonText, JsonValue
  <2> QED  BY <2>3, <2>4
<1>3. CASE type \notin {"message", "bytes"}
  <2>1. JsonValue(type, x) = <<x>> /\ <<x>>[1] = x
    BY <1>3 DEF JsonValue
  <2>2. \A p : JsonText(text, p) = p[1]
    BY <1>3 DEF JsonText
  <2> QED  BY <2>1, <2>2
<1> QED  BY <1>1, <1>2, <1>3

(* The values of a member jsonpb writes for a row of the struct.           *)
Values(d, y, p) ==
  \/ /\ d.card = "arm"
     /\ \E z \in Given(d.type) : y = <<d.arm, z>> /\ p = <<JsonValue(d.type, z)>>
  \/ d.card = "one" /\ y \in Given(d.type) /\ p = <<JsonValue(d.type, y)>>
  \/ /\ d.card \notin {"arm", "one"} /\ y \in Seq(Given(d.type))
     /\ p = [i \in DOMAIN y |-> JsonValue(d.type, y[i])]

(* The field is written under the declaration that gives it its value.     *)
LEMMA MemberHolds ==
    ASSUME NEW m \in DOMAIN Format, NEW v, Built(m, v), NEW d \in ToSet(Format[m].struct), NEW o,
           JsonMembers(d, v[d.field], o) # <<>>
    PROVE  /\ v[d.field] # ZeroOf(d) /\ Holds(d, v[d.field])
           /\ d.card = "arm" => v[d.field][1] = d.arm
<1> DEFINE y == v[d.field]
<1>1. y # ZeroOf(d)
  BY DEF JsonMembers
<1>2. PICK e \in ToSet(Format[m].struct) : e.field = d.field /\ Holds(e, y)
  BY DEF Built, FieldsOf
<1>3. d.card = "arm" => y[1] = d.arm
  <2> HIDE DEF y
  <2> QED  BY <1>1 DEF JsonMembers, y
<1>4. PICK k \in DOMAIN Format[m].struct : Format[m].struct[k] = d
  BY DEF ToSet
<1>5. PICK l \in DOMAIN Format[m].struct : Format[m].struct[l] = e
  BY DEF ToSet
<1>6. d = e \/ (d.arm # "" /\ e.arm # "" /\ d.arm # e.arm)
  <2>1. Declares(Format[m].struct)
    BY ReadsAssumption
  <2> QED  BY <1>2, <1>4, <1>5, <2>1 DEF Declares
<1>7. (d.card = "arm" <=> d.arm # "") /\ (e.card = "arm" <=> e.arm # "")
  BY ReadsAssumption
<1>8. CASE d # e
  <2>1. d.card = "arm" /\ e.card = "arm" /\ d.arm # e.arm
    BY <1>6, <1>7, <1>8
  <2>2. ZeroOf(d) = <<>>
    BY <2>1 DEF ZeroOf
  <2>3. PICK z : y = <<e.arm, z>>
    BY <1>1, <1>2, <2>1, <2>2 DEF Holds
  <2>4. y[1] = e.arm
    BY <2>3
  <2> QED  BY <1>3, <2>1, <2>4
<1> QED  BY <1>1, <1>2, <1>3, <1>8

LEMMA MemberIs ==
    ASSUME NEW m \in DOMAIN Format, NEW v, Built(m, v), NEW d \in ToSet(Format[m].struct), NEW o,
           JsonMembers(d, v[d.field], o) # <<>>
    PROVE  \E name \in {d.name, d.json} : \E p :
             Values(d, v[d.field], p) /\ JsonMembers(d, v[d.field], o) = <<Member(name, p)>>
<1> DEFINE y == v[d.field]
           name == IF o THEN d.name ELSE d.json
<1>1. y # ZeroOf(d) /\ Holds(d, y) /\ (d.card = "arm" => y[1] = d.arm)
  BY MemberHolds
<1> HIDE DEF y
<1>2. name \in {d.name, d.json}
  OBVIOUS
<1>3. CASE d.card = "arm"
  <2>1. JsonMembers(d, y, o) = <<Member(name, <<JsonValue(d.type, y[2])>>)>>
    BY <1>1, <1>3 DEF JsonMembers
  <2>2. PICK z \in Given(d.type) : y = <<d.arm, z>>
    BY <1>1, <1>3 DEF Holds, ZeroOf
  <2>3. y[2] = z
    BY <2>2
  <2>4. Values(d, y, <<JsonValue(d.type, y[2])>>)
    BY <1>3, <2>2, <2>3 DEF Values
  <2> QED  BY <1>2, <2>1, <2>4 DEF y
<1>4. CASE d.card = "one"
  <2>1. JsonMembers(d, y, o) = <<Member(name, <<JsonValue(d.type, y)>>)>>
    BY <1>1, <1>4 DEF JsonMembers
  <2>2. Values(d, y, <<JsonValue(d.type, y)>>)
    BY <1>1, <1>4 DEF Values, Holds
  <2> QED  BY <1>2, <2>1, <2>2 DEF y
<1>5. CASE d.card \notin {"arm", "one"}
  <2>1. JsonMembers(d, y, o) = <<Member(name, [i \in DOMAIN y |-> JsonValue(d.type, y[i])])>>
    BY <1>1, <1>5 DEF JsonMembers
  <2>2. Values(d, y, [i \in DOMAIN y |-> JsonValue(d.type, y[i])])
    BY <1>1, <1>5 DEF Values, Holds
  <2> QED  BY <1>2, <2>1, <2>2 DEF y
<1> QED  BY <1>3, <1>4, <1>5

(* No two members are for the same field.                                  *)
LEMMA OneMember ==
    ASSUME NEW m \in DOMAIN Format, NEW v, Built(m, v), NEW o,
           NEW k \in DOMAIN Format[m].struct, NEW l \in DOMAIN Format[m].struct,
           Format[m].struct[k].field = Format[m].struct[l].field,
           JsonMembers(Format[m].struct[k], v[Format[m].struct[k].field], o) # <<>>,
           JsonMembers(Format[m].struct[l], v[Format[m].struct[l].field], o) # <<>>
    PROVE  k = l
<1> DEFINE a == Format[m].struct[k]
           b == Format[m].struct[l]
<1>1. a \in ToSet(Format[m].struct) /\ b \in ToSet(Format[m].struct)
  BY DEF ToSet
<1>2. /\ a.field = b.field
      /\ JsonMembers(a, v[a.field], o) # <<>> /\ JsonMembers(b, v[b.field], o) # <<>>
  OBVIOUS
<1>3. k = l \/ (a.arm # "" /\ b.arm # "" /\ a.arm # b.arm)
  <2>1. Declares(Format[m].struct)
    BY ReadsAssumption
  <2> QED  BY <1>2, <2>1 DEF Declares
<1> HIDE DEF a, b
<1>4. (a.card = "arm" <=> a.arm # "") /\ (b.card = "arm" <=> b.arm # "")
  BY <1>1, ReadsAssumption
<1>5. (a.card = "arm" => v[a.field][1] = a.arm) /\ (b.card = "arm" => v[b.field][1] = b.arm)
  BY <1>1, <1>2, MemberHolds
<1> QED  BY <1>2, <1>3, <1>4, <1>5

(* A field without a member is empty.                                      *)
LEMMA NoMemberEmpty ==
    ASSUME NEW m \in DOMAIN Format, NEW v, Built(m, v), NEW o, NEW f \in FieldsOf(m),
           \A d \in ToSet(Format[m].struct) : d.field = f => JsonMembers(d, v[f], o) = <<>>
    PROVE  v[f] = Empty(m)[f]
<1> DEFINE y == v[f]
<1>1. PICK d \in ToSet(Format[m].struct) : d.field = f /\ Holds(d, y)
  BY DEF Built
<1>2. Empty(m)[f] = ZeroOf(d)
  BY <1>1, EmptyIs
<1>3. JsonMembers(d, y, o) = <<>>
  BY <1>1
<1> HIDE DEF y
<1>4. y = ZeroOf(d)
  <2> SUFFICES ASSUME y # ZeroOf(d) PROVE FALSE
    OBVIOUS
  <2> DEFINE name == IF o THEN d.name ELSE d.json
  <2>1. \A x : <<x>> # <<>>
    OBVIOUS
  <2>2. CASE d.card = "arm"
    <3>1. PICK z : y = <<d.arm, z>>
      BY <1>1, <2>2 DEF Holds, ZeroOf
    <3>2. y[1] = d.arm
      BY <3>1
    <3>3. JsonMembers(d, y, o) = <<Member(name, <<JsonValue(d.type, y[2])>>)>>
      BY <2>2, <3>2 DEF JsonMembers
    <3> QED  BY <1>3, <2>1, <3>3
  <2>3. CASE d.card = "one"
    <3>1. JsonMembers(d, y, o) = <<Member(name, <<JsonValue(d.type, y)>>)>>
      BY <2>3 DEF JsonMembers
    <3> QED  BY <1>3, <2>1, <3>1
  <2>4. CASE d.card \notin {"arm", "one"}
    <3>1. JsonMembers(d, y, o) = <<Member(name, [i \in DOMAIN y |-> JsonValue(d.type, y[i])])>>
      BY <2>4 DEF JsonMembers
    <3> QED  BY <1>3, <2>1, <3>1
  <2> QED  BY <2>2, <2>3, <2>4
<1> QED  BY <1>2, <1>4 DEF y

LEMMA MemberNoneFor ==
    ASSUME NEW m \in DOMAIN Format, Format[m].reader # {}, NEW v, Built(m, v),
           NEW d \in ToSet(Format[m].struct), NEW o, NEW f,
           d.field # f \/ JsonMembers(d, v[d.field], o) = <<>>
    PROVE  NoneFor(FieldReader("json", Format[m], f), JsonMembers(d, v[d.field], o))
<1> DEFINE ms == JsonMembers(d, v[d.field], o)
           c  == FieldReader("json", Format[m], f)
<1>1. CASE ms = <<>>
  <2>1. Len(<<>>) = 0 /\ 1..0 = {}
    OBVIOUS
  <2> HIDE DEF ms, c
  <2>2. NoneFor(c, ms)
    BY <1>1, <2>1 DEF NoneFor
  <2> QED  BY <2>2 DEF ms, c
<1>2. CASE ms # <<>>
  <2>1. PICK name \in {d.name, d.json} : \E p : ms = <<Member(name, p)>>
    BY <1>2, MemberIs
  <2>2. PICK p : ms = <<Member(name, p)>>
    BY <2>1
  <2>3. \A r \in Format[m].reader : name \in r.names => r.field = d.field
    <3> DEFINE Own(n, e, label) == \A r \in Format[n].reader : label \in r.names => r.field = e.field
               Back(n, e, label) == <<n, e.field>> \notin JsonForgets =>
                 \E r \in Format[n].reader : label \in r.names /\ Labels(r, e)
               Both(n) == \A e \in ToSet(Format[n].struct) : \A label \in {e.name, e.json} :
                            Own(n, e, label) /\ Back(n, e, label)
    <3>1. \A n \in {k \in DOMAIN Format : Format[k].reader # {}} : Both(n)
      BY JsonAssumption, Zenon
    <3>2. m \in {k \in DOMAIN Format : Format[k].reader # {}}
      OBVIOUS
    <3>3. Both(m)
      <4> HIDE DEF Both
      <4> QED  BY <3>1, <3>2, Zenon
    <3> HIDE DEF Own, Back
    <3>4. Own(m, d, name)
      BY <3>3
    <3> QED  BY <3>4 DEF Own
  <2>4. Member(name, p).name = name
    BY DEF Member
  <2>5. CasesFor(c, Member(name, p)) = {}
    BY <1>2, <2>3, <2>4 DEF CasesFor, LabelOf, FieldReader
  <2> HIDE DEF ms, c
  <2>6. Len(ms) = 1 /\ ms[1] = Member(name, p)
    BY <2>2
  <2>7. NoneFor(c, ms)
    BY <2>5, <2>6 DEF NoneFor, Concerns
  <2> QED  BY <2>7 DEF ms, c
<1> QED  BY <1>1, <1>2

LEMMA MemberReads ==
    ASSUME NEW m \in DOMAIN Format, Format[m].reader # {}, NEW v, Built(m, v),
           NEW d \in ToSet(Format[m].struct), NEW o, d.field \in Wanted("json", m),
           JsonMembers(d, v[d.field], o) # <<>>
    PROVE  LET c == FieldReader("json", Format[m], d.field)
               ms == JsonMembers(d, v[d.field], o)
           IN Lone(c, ms) /\ Read(c, ms, Empty(m)[d.field]) = v[d.field]
<1> DEFINE y  == v[d.field]
           ms == JsonMembers(d, y, o)
           c  == FieldReader("json", Format[m], d.field)
           a  == Empty(m)[d.field]
<1>1. PICK name \in {d.name, d.json} : \E p : Values(d, y, p) /\ ms = <<Member(name, p)>>
  BY MemberIs
<1>2. PICK p : Values(d, y, p) /\ ms = <<Member(name, p)>>
  BY <1>1
<1>3. /\ \A r, s \in Format[m].reader : r.names \cap s.names # {} => r = s
      /\ \E r \in Format[m].reader : name \in r.names /\ Labels(r, d)
  BY JsonAssumption DEF Wanted
<1>4. PICK r \in Format[m].reader : name \in r.names /\ Labels(r, d)
  BY <1>3
<1> DEFINE x == Member(name, p)
<1>5. x.name = name /\ x.payload = p
  BY DEF Member
<1>6. a = ZeroOf(d)
  BY EmptyIs
<1>7. c.encoding = "json" /\ c.tables = Format[m] /\ c.field = d.field
  BY DEF FieldReader
<1> HIDE DEF y, ms, c, a, x
<1>8. CasesFor(c, x) = {r}
  <2>1. LabelOf(Format[m].reader, x) = {r}
    BY <1>3, <1>4, <1>5 DEF LabelOf
  <2> QED  BY <1>4, <1>7, <2>1 DEF CasesFor, Labels
<1>9. Fill(c, x, a) = JsonStored(r, x, a)
  <2>1. (CHOOSE q \in {r} : TRUE) = r
    OBVIOUS
  <2> QED  BY <1>7, <1>8, <2>1 DEF Fill, Concerns
<1>10. ms = <<x>>
  BY <1>2 DEF x
<1>11. Lone(c, ms)
  BY <1>10 DEF Lone
<1> DEFINE values == [i \in DOMAIN p |-> JsonText(r.text, p[i])]
<1>12. JsonStored(r, x, a) = CASE r.how = "one"  -> values[1]
                               [] r.how = "each" -> a \o values
                               [] r.how = "arm"  -> <<r.arm, values[1]>>
  BY <1>5 DEF JsonStored
<1>13. ASSUME NEW z \in Given(d.type) PROVE JsonText(r.text, JsonValue(d.type, z)) = z
  BY <1>4, JsonTextOfValue DEF Labels
<1>14. ASSUME NEW z \in Given(d.type), p = <<JsonValue(d.type, z)>> PROVE values[1] = z
  <2>1. DOMAIN p = {1} /\ p[1] = JsonValue(d.type, z)
    BY <1>14
  <2> QED  BY <1>13, <2>1
<1>15. CASE d.card = "one"
  <2>1. r.how = "one" /\ y \in Given(d.type) /\ p = <<JsonValue(d.type, y)>>
    BY <1>2, <1>4, <1>15 DEF Values, Labels
  <2>2. values[1] = y
    BY <1>14, <2>1
  <2> HIDE DEF values
  <2>3. JsonStored(r, x, a) = y
    BY <1>12, <2>1, <2>2
  <2> QED  BY <1>9, <1>10, <1>11, <2>3, ReadOneItem DEF y, ms, c, a
<1>16. CASE d.card = "arm"
  <2>1. r.how = "arm" /\ r.arm = d.arm
    BY <1>4, <1>16 DEF Labels
  <2>2. PICK z \in Given(d.type) : y = <<d.arm, z>> /\ p = <<JsonValue(d.type, z)>>
    BY <1>2, <1>16 DEF Values
  <2>3. values[1] = z
    BY <1>14, <2>2
  <2> HIDE DEF values
  <2>4. JsonStored(r, x, a) = y
    BY <1>12, <2>1, <2>2, <2>3
  <2> QED  BY <1>9, <1>10, <1>11, <2>4, ReadOneItem DEF y, ms, c, a
<1>17. CASE d.card \notin {"arm", "one"}
  <2>1. r.how = "each"
    BY <1>4, <1>17 DEF Labels
  <2>2. y \in Seq(Given(d.type)) /\ p = [i \in DOMAIN y |-> JsonValue(d.type, y[i])]
    BY <1>2, <1>17 DEF Values
  <2>3. values = y
    <3>1. DOMAIN y = 1..Len(y) /\ DOMAIN values = DOMAIN y
      BY <2>2
    <3>2. ASSUME NEW i \in DOMAIN y PROVE values[i] = y[i]
      <4>1. y[i] \in Given(d.type)
        BY <2>2
      <4>2. p[i] = JsonValue(d.type, y[i]) /\ i \in DOMAIN p
        BY <2>2
      <4> QED  BY <1>13, <4>1, <4>2
    <3>3. y = [i \in DOMAIN y |-> y[i]] /\ values = [i \in DOMAIN y |-> values[i]]
      BY <2>2, <3>1
    <3> HIDE DEF values
    <3> QED  BY <3>2, <3>3
  <2>4. a = <<>>
    BY <1>6, <1>17 DEF ZeroOf
  <2> HIDE DEF values
  <2>5. <<>> \o y = y
    BY <2>2
  <2>6. JsonStored(r, x, a) = y
    BY <1>12, <2>1, <2>3, <2>4, <2>5
  <2> QED  BY <1>9, <1>10, <1>11, <2>6, ReadOneItem DEF y, ms, c, a
<1> QED  BY <1>15, <1>16, <1>17

LEMMA MemberHonest ==
    ASSUME NEW m \in DOMAIN Format, NEW v, Built(m, v), NEW d \in ToSet(Format[m].struct), NEW o,
           NEW S, LET x == JsonMembers(d, v[d.field], o)[1] IN HonestPart("json", m, x) => x \in S
    PROVE  JsonMembers(d, v[d.field], o) \in Seq(S)
<1> DEFINE ms == JsonMembers(d, v[d.field], o)
<1>1. CASE ms = <<>>
  <2>1. <<>> \in Seq(S)
    OBVIOUS
  <2> QED  BY <1>1, <2>1
<1>2. CASE ms # <<>>
  <2>1. PICK name, p : ms = <<Member(name, p)>>
    BY <1>2, MemberIs
  <2>2. HonestPart("json", m, Member(name, p))
    BY DEF HonestPart, Member
  <2>3. ms[1] = Member(name, p)
    <3> HIDE DEF ms
    <3> QED  BY <2>1
  <2>4. ms[1] \in S
    BY <2>2, <2>3
  <2> DEFINE x == ms[1]
  <2> HIDE DEF x
  <2>5. ms = <<x>> /\ x \in S
    BY <2>1, <2>3, <2>4 DEF x
  <2>6. <<x>> \in Seq(S)
    BY <2>5
  <2> QED  BY <2>5, <2>6
<1> QED  BY <1>1, <1>2

LEMMA JsonHonest ==
    ASSUME NEW m \in DOMAIN Format, Format[m].reader # {}, NEW v, Built(m, v), NEW o
    PROVE  Honest("json", m, v, MarshalJSON(Format[m].struct, v, o))
<1> DEFINE struct == Format[m].struct
           Of(k) == JsonMembers(struct[k], v[struct[k].field], o)
           ss == [k \in DOMAIN struct |-> Of(k)]
           S == {x \in {Of(k)[1] : k \in DOMAIN struct} : HonestPart("json", m, x)}
<1>1. DOMAIN struct = 1..Len(struct) /\ Len(struct) \in Nat
  BY WritesAssumption
<1>2. \A k \in DOMAIN struct : struct[k] \in ToSet(Format[m].struct)
  BY DEF ToSet
<1>3. ASSUME NEW k \in DOMAIN struct PROVE Of(k) \in Seq(S)
  <2>1. HonestPart("json", m, Of(k)[1]) => Of(k)[1] \in S
    OBVIOUS
  <2> HIDE DEF S
  <2> QED  BY <1>2, <2>1, MemberHonest
<1>4. \A x \in S : HonestPart("json", m, x)
  OBVIOUS
<1>5. MarshalJSON(struct, v, o) = FlattenSeq(ss)
  BY DEF MarshalJSON
<1>6. DOMAIN ss = 1..Len(struct) /\ \A k \in 1..Len(struct) : ss[k] = Of(k)
  BY <1>1
<1>7. ss \in [1..Len(struct) -> Seq(S)]
  <2> HIDE DEF S, Of
  <2> QED  BY <1>1, <1>3
<1> HIDE DEF ss, S
<1>8. ss \in Seq(Seq(S)) /\ Len(ss) = Len(struct)
  BY <1>1, <1>6, <1>7
<1>9. ASSUME NEW f \in Wanted("json", m)
      PROVE  \E p \in Nat \ {0} :
             LET c == FieldReader("json", Format[m], f)
             IN /\ \A k \in 1..Len(ss) : k # p => NoneFor(c, ss[k])
                /\ p <= Len(ss) => Lone(c, ss[p]) /\ Read(c, ss[p], Empty(m)[f]) = v[f]
                /\ p > Len(ss) => Empty(m)[f] = v[f]
  <2> DEFINE c == FieldReader("json", Format[m], f)
             Mine(k) == struct[k].field = f /\ Of(k) # <<>>
  <2>1. ASSUME NEW k \in 1..Len(ss), ~ Mine(k) PROVE NoneFor(c, ss[k])
    <3>1. struct[k] \in ToSet(Format[m].struct) /\ ss[k] = Of(k)
      BY <1>1, <1>2, <1>6, <1>8
    <3>2. struct[k].field # f \/ JsonMembers(struct[k], v[struct[k].field], o) = <<>>
      BY <2>1
    <3> QED  BY <3>1, <3>2, MemberNoneFor
  <2>2. CASE \E p \in 1..Len(ss) : Mine(p)
    <3>1. PICK p \in 1..Len(ss) : Mine(p)
      BY <2>2
    <3>2. ASSUME NEW k \in 1..Len(ss), k # p PROVE ~ Mine(k)
      <4> SUFFICES ASSUME Mine(k) PROVE k = p
        BY <3>2
      <4>1. k \in DOMAIN Format[m].struct /\ p \in DOMAIN Format[m].struct
        BY <1>1, <1>8
      <4>2. struct[k].field = struct[p].field /\ Of(k) # <<>> /\ Of(p) # <<>>
        BY <3>1
      <4> QED  BY <4>1, <4>2, OneMember
    <3>3. struct[p] \in ToSet(Format[m].struct) /\ struct[p].field = f /\ ss[p] = Of(p) /\ Of(p) # <<>>
      BY <1>1, <1>2, <1>6, <1>8, <3>1
    <3>4. Lone(c, ss[p]) /\ Read(c, ss[p], Empty(m)[f]) = v[f]
      <4>1. ASSUME NEW d \in ToSet(Format[m].struct), d.field = f, JsonMembers(d, v[d.field], o) # <<>>
            PROVE  /\ Lone(FieldReader("json", Format[m], f), JsonMembers(d, v[d.field], o))
                   /\ Read(FieldReader("json", Format[m], f), JsonMembers(d, v[d.field], o), Empty(m)[f])
                        = v[f]
        <5>1. d.field \in Wanted("json", m)
          BY <4>1
        <5>2. /\ Lone(FieldReader("json", Format[m], d.field), JsonMembers(d, v[d.field], o))
              /\ Read(FieldReader("json", Format[m], d.field), JsonMembers(d, v[d.field], o),
                      Empty(m)[d.field]) = v[d.field]
          BY <5>1, <4>1, MemberReads
        <5> QED  BY <4>1, <5>2
      <4>2. ss[p] = JsonMembers(struct[p], v[struct[p].field], o)
        BY <3>3
      <4> QED  BY <3>3, <4>1, <4>2
    <3> HIDE DEF c, Mine
    <3>6. \A k \in 1..Len(ss) : k # p => NoneFor(c, ss[k])
      BY <2>1, <3>2
    <3>7. p \in Nat \ {0} /\ ~ (p > Len(ss))
      BY <1>1, <1>8
    <3> QED  BY <3>4, <3>6, <3>7 DEF c
  <2>3. CASE ~ \E p \in 1..Len(ss) : Mine(p)
    <3>1. ASSUME NEW d \in ToSet(Format[m].struct), d.field = f PROVE JsonMembers(d, v[f], o) = <<>>
      <4>1. PICK k \in DOMAIN struct : struct[k] = d
        BY DEF ToSet
      <4> QED  BY <1>1, <1>8, <2>3, <3>1, <4>1
    <3>2. f \in FieldsOf(m)
      BY DEF Wanted
    <3>3. v[f] = Empty(m)[f]
      BY <3>1, <3>2, NoMemberEmpty
    <3> DEFINE p == Len(ss) + 1
    <3>4. p \in Nat \ {0} /\ ~ (p <= Len(ss))
      BY <1>1, <1>8
    <3>5. \A k \in 1..Len(ss) : k # p => NoneFor(c, ss[k])
      BY <2>1, <2>3
    <3> HIDE DEF c, p
    <3> QED  BY <3>3, <3>4, <3>5 DEF c
  <2> QED  BY <2>2, <2>3
<1>10. Honest("json", m, v, FlattenSeq(ss))
  BY <1>4, <1>8, <1>9, BlocksYield
<1> QED  BY <1>5, <1>10

-----------------------------------------------------------------------------
(* What the transport makes of it.                                         *)

Accepted(e, m, w) == \A i \in 1..Len(w) : ~ Rejects(e, Format[m].reads, w[i])

LEMMA HonestAccepts ==
    ASSUME NEW e, NEW m, NEW x, HonestPart(e, m, x)
    PROVE  ~ Rejects(e, Format[m].reads, x)
BY DEF HonestPart, HonestItem, Rejects

LEMMA HonestWire ==
    ASSUME NEW e, NEW m, NEW v, NEW w, Honest(e, m, v, w)
    PROVE  /\ \E S : w \in Seq(S) /\ \A x \in S : HonestPart(e, m, x)
           /\ Accepted(e, m, w) /\ DOMAIN w = 1..Len(w) /\ Len(w) \in Nat
           /\ \A i \in DOMAIN w : HonestPart(e, m, w[i])
<1>1. PICK S : w \in Seq(S) /\ \A x \in S : HonestPart(e, m, x)
  BY DEF Honest
<1>2. DOMAIN w = 1..Len(w) /\ Len(w) \in Nat /\ \A i \in DOMAIN w : w[i] \in S
  BY <1>1
<1>3. Accepted(e, m, w)
  BY <1>1, <1>2, HonestAccepts DEF Accepted
<1> QED  BY <1>1, <1>2, <1>3

LEMMA AcceptedConcat ==
    ASSUME NEW e, NEW m, NEW S, NEW v \in Seq(S), NEW w \in Seq(S), Accepted(e, m, v), Accepted(e, m, w)
    PROVE  Accepted(e, m, v \o w)
<1> DEFINE u == v \o w
<1>1. /\ Len(u) = Len(v) + Len(w) /\ Len(v) \in Nat /\ Len(w) \in Nat
      /\ \A i \in 1..Len(v) : u[i] = v[i]
      /\ \A i \in 1..Len(w) : u[Len(v) + i] = w[i]
  BY Glue
<1> HIDE DEF u
<1>2. ASSUME NEW k \in 1..Len(u) PROVE ~ Rejects(e, Format[m].reads, u[k])
  <2>1. CASE k <= Len(v)
    BY <1>1, <2>1 DEF Accepted
  <2>2. CASE k > Len(v)
    <3>1. PICK i \in 1..Len(w) : k = Len(v) + i
      <4>1. k - Len(v) \in 1..Len(w) /\ k = Len(v) + (k - Len(v))
        BY <1>1, <2>2
      <4> QED  BY <4>1
    <3> QED  BY <1>1, <3>1 DEF Accepted
  <2> QED  BY <1>1, <2>1, <2>2
<1>3. Accepted(e, m, u)
  BY <1>2 DEF Accepted
<1> QED  BY <1>3 DEF u

(* A part of the wire is replaced, or something is put between two items.  *)
Patched(w, i, part, j) == SubSeq(w, 1, i - 1) \o part \o SubSeq(w, j, Len(w))

LEMMA PatchedYields ==
    ASSUME NEW e, NEW m, NEW v, NEW S, NEW w \in Seq(S), Accepted(e, m, w),
           Yields(e, m, w, Empty(m), v),
           NEW i \in 1..Len(w) + 1, NEW j \in 1..Len(w) + 1,
           NEW T, NEW part \in Seq(T), Accepted(e, m, part),
           \A f \in Wanted(e, m) :
             LET c == FieldReader(e, Format[m], f)
                 b == Read(c, SubSeq(w, 1, i - 1), Empty(m)[f])
             IN Read(c, SubSeq(w, j, Len(w)), Read(c, part, b)) = Read(c, w, Empty(m)[f])
    PROVE  Accepted(e, m, Patched(w, i, part, j)) /\ Yields(e, m, Patched(w, i, part, j), Empty(m), v)
<1> DEFINE front == SubSeq(w, 1, i - 1)
           back  == SubSeq(w, j, Len(w))
           U     == S \cup T
<1>1. /\ front \in Seq(S) /\ Len(front) = i - 1
      /\ \A k \in 1..i - 1 : front[k] = w[k]
  BY SplitAt
<1>2. /\ back \in Seq(S) /\ Len(back) = Len(w) + 1 - j
      /\ \A k \in 1..Len(w) + 1 - j : back[k] = w[j - 1 + k]
  BY SplitAt
<1>3. Len(w) \in Nat /\ i \in Nat /\ j \in Nat
  OBVIOUS
<1> HIDE DEF front, back
<1>4. Accepted(e, m, front)
  <2>1. \A k \in 1..Len(front) : k \in 1..Len(w) /\ front[k] = w[k]
    BY <1>1, <1>3
  <2> QED  BY <2>1 DEF Accepted
<1>5. Accepted(e, m, back)
  <2>1. ASSUME NEW k \in 1..Len(back) PROVE ~ Rejects(e, Format[m].reads, back[k])
    <3>1. PICK l \in 1..Len(w) : l = j - 1 + k
      BY <1>2, <1>3
    <3>2. back[k] = w[l]
      BY <1>2, <3>1
    <3> QED  BY <3>2 DEF Accepted
  <2> QED  BY <2>1 DEF Accepted
<1>6. front \in Seq(U) /\ part \in Seq(U) /\ back \in Seq(U)
  <2>1. Seq(S) \subseteq Seq(U) /\ Seq(T) \subseteq Seq(U)
    OBVIOUS
  <2> HIDE DEF U
  <2> QED  BY <1>1, <1>2, <2>1
<1> DEFINE head == front \o part
<1> HIDE DEF U
<1>7. head \in Seq(U) /\ Accepted(e, m, head)
  BY <1>4, <1>6, Glue, AcceptedConcat
<1>8. \A c, a : Read(c, head, a) = Read(c, part, Read(c, front, a))
  BY <1>6, ReadConcat
<1> HIDE DEF head
<1>9. Accepted(e, m, head \o back)
  BY <1>5, <1>6, <1>7, AcceptedConcat
<1>10. \A c, a : Read(c, head \o back, a) = Read(c, back, Read(c, head, a))
  BY <1>6, <1>7, ReadConcat
<1>11. Patched(w, i, part, j) = head \o back
  BY DEF Patched, head, front, back
<1>12. ASSUME NEW f \in Wanted(e, m)
       PROVE  Read(FieldReader(e, Format[m], f), head \o back, Empty(m)[f]) = v[f]
  <2> DEFINE c == FieldReader(e, Format[m], f)
  <2>1. Read(c, back, Read(c, part, Read(c, front, Empty(m)[f]))) = Read(c, w, Empty(m)[f])
    BY DEF front, back
  <2>2. Read(c, w, Empty(m)[f]) = v[f]
    BY DEF Yields
  <2> HIDE DEF c
  <2>3. Read(c, head \o back, Empty(m)[f]) = v[f]
    BY <1>8, <1>10, <2>1, <2>2
  <2> QED  BY <2>3 DEF c
<1> QED  BY <1>9, <1>11, <1>12 DEF Yields

LEMMA ReadAround ==
    ASSUME NEW c, NEW S, NEW w \in Seq(S), NEW i \in 1..Len(w), NEW a
    PROVE  Read(c, w, a)
             = Read(c, SubSeq(w, i + 1, Len(w)), Fill(c, w[i], Read(c, SubSeq(w, 1, i - 1), a)))
<1>1. i \in 1..Len(w) + 1
  OBVIOUS
<1> QED  BY <1>1, ReadFrom, ReadHead

(* What comes before the only item of a field leaves it as it was.         *)
LEMMA NothingBefore ==
    ASSUME NEW c, NEW S, NEW w \in Seq(S), Lone(c, w), NEW i \in 1..Len(w),
           Concerns(c, w[i]), ~ Repeats(c, w[i]), NEW a
    PROVE  Read(c, SubSeq(w, 1, i - 1), a) = a
<1> DEFINE front == SubSeq(w, 1, i - 1)
<1>1. /\ front \in Seq(S) /\ Len(front) = i - 1
      /\ \A k \in 1..i - 1 : front[k] = w[k]
  BY SplitAt
<1> HIDE DEF front
<1>2. NoneFor(c, front)
  <2> SUFFICES ASSUME NEW k \in 1..Len(front), Concerns(c, front[k]) PROVE FALSE
    BY DEF NoneFor
  <2>1. k \in 1..Len(w) /\ k # i /\ front[k] = w[k]
    BY <1>1
  <2> QED  BY <2>1 DEF Lone
<1>3. Read(c, front, a) = a
  BY <1>1, <1>2, ReadSkips
<1> QED  BY <1>3 DEF front

(* What an item of the same number as another is for.                      *)
LEMMA SameCase ==
    ASSUME NEW m \in DOMAIN Format, NEW x, NEW r \in CaseOf(Format[m].reads, x),
           NEW y, y.number = x.number
    PROVE  /\ r \in Format[m].reads /\ CaseOf(Format[m].reads, y) = {r}
           /\ \A f, old : Fill(FieldReader("proto", Format[m], f), y, old)
                            = IF f = r.field THEN Stored(r, y, old) ELSE old
           /\ \A f : CasesFor(FieldReader("proto", Format[m], f), y)
                       = IF f = r.field THEN {r} ELSE {}
<1>1. r \in Format[m].reads /\ r.number = y.number
  BY DEF CaseOf
<1>2. \A q, s \in Format[m].reads : q.number = s.number => q = s
  BY ReadsAssumption
<1>3. CaseOf(Format[m].reads, y) = {r}
  BY <1>1, <1>2 DEF CaseOf
<1>4. ASSUME NEW f
      PROVE  CasesFor(FieldReader("proto", Format[m], f), y) = IF f = r.field THEN {r} ELSE {}
  BY <1>3 DEF CasesFor, FieldReader
<1>5. ASSUME NEW f, NEW old
      PROVE  Fill(FieldReader("proto", Format[m], f), y, old)
               = IF f = r.field THEN Stored(r, y, old) ELSE old
  <2> DEFINE c == FieldReader("proto", Format[m], f)
  <2>1. (CHOOSE q \in {r} : TRUE) = r /\ c.encoding = "proto"
    BY DEF FieldReader
  <2>2. CasesFor(c, y) = IF f = r.field THEN {r} ELSE {}
    BY <1>4
  <2> HIDE DEF c
  <2>3. Fill(c, y, old) = IF f = r.field THEN Stored(r, y, old) ELSE old
    BY <2>1, <2>2 DEF Fill, Concerns
  <2> QED  BY <2>3 DEF c
<1> QED  BY <1>1, <1>3, <1>4, <1>5

LEMMA ReadTwo ==
    ASSUME NEW c, NEW x, NEW y, NEW a
    PROVE  Read(c, <<x, y>>, a) = Fill(c, y, Fill(c, x, a))
<1> DEFINE S == {x, y}
<1>1. x \in S /\ y \in S
  OBVIOUS
<1> HIDE DEF S
<1>2. <<x>> \in Seq(S) /\ <<y>> \in Seq(S)
  BY <1>1
<1> DEFINE v == <<x>>
           w == <<y>>
<1>3. v \in Seq(S) /\ w \in Seq(S) /\ Len(v) = 1 /\ Len(w) = 1 /\ v[1] = x /\ w[1] = y
  BY <1>2
<1>4. <<x, y>> \in Seq(S) /\ Len(<<x, y>>) = 2 /\ <<x, y>>[1] = x /\ <<x, y>>[2] = y
  BY <1>1
<1> HIDE DEF v, w
<1> DEFINE u == v \o w
<1>5. /\ u \in Seq(S) /\ Len(u) = Len(v) + Len(w)
      /\ \A i \in 1..Len(v) : u[i] = v[i]
      /\ \A i \in 1..Len(w) : u[Len(v) + i] = w[i]
  BY <1>3, Glue
<1>6. Read(c, u, a) = Read(c, w, Read(c, v, a))
  BY <1>3, ReadConcat
<1> HIDE DEF u
<1>7. Len(u) = 2 /\ u[1] = x /\ u[2] = y
  <2>1. 1 \in 1..Len(v) /\ 1 \in 1..Len(w) /\ Len(v) + 1 = 2
    BY <1>3
  <2>2. u[1] = v[1] /\ u[Len(v) + 1] = w[1]
    BY <1>5, <2>1
  <2> QED  BY <1>3, <1>5, <2>1, <2>2
<1> DEFINE p == <<x, y>>
<1>8. p \in Seq(S) /\ Len(p) = 2 /\ p[1] = x /\ p[2] = y
  BY <1>4
<1> HIDE DEF p
<1>9. Len(p) = Len(u) /\ \A i \in 1..Len(u) : u[i] = p[i]
  BY <1>7, <1>8
<1>10. u = p
  BY <1>5, <1>8, <1>9, SameElements
<1> QED  BY <1>6, <1>10, ReadOneItem DEF p, v, w

(* A field nobody knows.                                                   *)
LEMMA UnknownKeeps ==
    ASSUME message \in DOMAIN Format, encoding \in {"proto", "json"},
           Honest(encoding, message, value, wire), SendsUnknown
    PROVE  Accepted(encoding, message, wire') /\ Yields(encoding, message, wire', Empty(message), value)
<1>1. PICK S : wire \in Seq(S)
  BY HonestWire
<1>2. PICK i \in 1..Len(wire) + 1 : \E x :
        /\ wire' = Insert(i, x)
        /\ IF encoding = "json" THEN x = UnknownMember ELSE \E w \in {2, 3} : x = UnknownItem(w)
  BY DEF SendsUnknown
<1>3. PICK x :
        /\ wire' = Insert(i, x)
        /\ IF encoding = "json" THEN x = UnknownMember ELSE \E w \in {2, 3} : x = UnknownItem(w)
  BY <1>2
<1>4. encoding = "proto" => x.number = Unknown /\ x.wire \in {2, 3} /\ x.whole
  BY <1>3 DEF UnknownItem, Item
<1>5. encoding = "json" => x.name = UnknownName /\ x.whole
  BY <1>3 DEF UnknownMember, Member
<1>6. encoding = "proto" => CaseOf(Format[message].reads, x) = {}
  <2>1. \A r \in Format[message].reads : r.number # Unknown
    BY ReadsAssumption
  <2> QED  BY <1>4, <2>1 DEF CaseOf
<1>7. encoding = "json" => LabelOf(Format[message].reader, x) = {}
  <2>1. \A r \in Format[message].reader : UnknownName \notin r.names
    BY JsonAssumption
  <2> QED  BY <1>5, <2>1 DEF LabelOf
<1>8. ~ Rejects(encoding, Format[message].reads, x)
  <2>1. CASE encoding = "proto"
    <3>1. ~ (x.number <= 0) /\ x.wire \notin {4, 6, 7}
      BY <1>4, <2>1 DEF Unknown
    <3> QED  BY <1>4, <1>6, <2>1, <3>1 DEF Rejects, Refused
  <2>2. CASE encoding = "json"
    BY <1>5, <2>2 DEF Rejects
  <2> QED  BY <2>1, <2>2
<1>9. ASSUME NEW f, NEW old PROVE Fill(FieldReader(encoding, Format[message], f), x, old) = old
  BY <1>6, <1>7 DEF Fill, Concerns, CasesFor, FieldReader
<1>10. ASSUME NEW f \in Wanted(encoding, message)
      PROVE  LET c == FieldReader(encoding, Format[message], f)
                 b == Read(c, SubSeq(wire, 1, i - 1), Empty(message)[f])
             IN Read(c, SubSeq(wire, i, Len(wire)), Read(c, <<x>>, b)) = Read(c, wire, Empty(message)[f])
  <2>1. \A b : Read(FieldReader(encoding, Format[message], f), <<x>>, b) = b
    BY <1>9, ReadOneItem
  <2> QED  BY <1>1, <2>1, ReadFrom
<1>11. wire' = Patched(wire, i, <<x>>, i)
  BY <1>3 DEF Insert, Patched
<1>12. <<x>> \in Seq({x}) /\ Accepted(encoding, message, <<x>>)
  BY <1>8 DEF Accepted
<1>13. Accepted(encoding, message, wire) /\ Yields(encoding, message, wire, Empty(message), value)
  BY HonestWire DEF Honest
<1> QED  BY <1>1, <1>10, <1>11, <1>12, <1>13, PatchedYields

LEMMA SwapPatches ==
    ASSUME NEW S, NEW w \in Seq(S), NEW i \in 1..Len(w) - 1
    PROVE  [w EXCEPT ![i] = w[i + 1], ![i + 1] = w[i]] = Patched(w, i, <<w[i + 1], w[i]>>, i + 2)
<1> DEFINE u == [w EXCEPT ![i] = w[i + 1], ![i + 1] = w[i]]
           front == SubSeq(w, 1, i - 1)
           back == SubSeq(w, i + 2, Len(w))
           part == <<w[i + 1], w[i]>>
           head == front \o part
<1>1. /\ Len(w) \in Nat /\ i \in 1..Len(w) /\ i + 1 \in 1..Len(w) /\ i + 2 \in 1..Len(w) + 1
      /\ i \in 1..Len(w) + 1 /\ DOMAIN w = 1..Len(w)
  OBVIOUS
<1>2. /\ front \in Seq(S) /\ Len(front) = i - 1
      /\ \A k \in 1..i - 1 : front[k] = w[k]
  BY <1>1, SplitAt
<1>3. /\ back \in Seq(S) /\ Len(back) = Len(w) + 1 - (i + 2)
      /\ \A k \in 1..Len(w) + 1 - (i + 2) : back[k] = w[(i + 2) - 1 + k]
  BY <1>1, SplitAt
<1>4. part \in Seq(S) /\ Len(part) = 2 /\ part[1] = w[i + 1] /\ part[2] = w[i]
  BY <1>1
<1> HIDE DEF front, back, part
<1>5. /\ head \in Seq(S) /\ Len(head) = i + 1 /\ \A k \in 1..i - 1 : head[k] = w[k]
      /\ head[i] = w[i + 1] /\ head[i + 1] = w[i]
  <2>1. /\ head \in Seq(S) /\ Len(head) = Len(front) + Len(part)
        /\ \A k \in 1..Len(front) : head[k] = front[k]
        /\ \A k \in 1..Len(part) : head[Len(front) + k] = part[k]
    <3>1. front \in Seq(S) /\ part \in Seq(S)
      BY <1>2, <1>4
    <3> QED  BY <3>1, Glue
  <2>2. 1 \in 1..Len(part) /\ 2 \in 1..Len(part)
    BY <1>4
  <2>3. head[Len(front) + 1] = part[1] /\ head[Len(front) + 2] = part[2]
    BY <2>1, <2>2
  <2>4. Len(front) + 1 = i /\ Len(front) + 2 = i + 1
    BY <1>1, <1>2
  <2> HIDE DEF head
  <2>5. head[i] = part[1] /\ head[i + 1] = part[2]
    BY <2>3, <2>4
  <2> QED  BY <1>1, <1>2, <1>4, <2>1, <2>5
<1> HIDE DEF head
<1> DEFINE z == head \o back
<1>6. /\ z \in Seq(S) /\ Len(z) = Len(head) + Len(back)
      /\ \A k \in 1..Len(head) : z[k] = head[k]
      /\ \A k \in 1..Len(back) : z[Len(head) + k] = back[k]
  <2>1. head \in Seq(S) /\ back \in Seq(S)
    BY <1>3, <1>5
  <2> QED  BY <2>1, Glue
<1> HIDE DEF z
<1>7. u \in Seq(S) /\ Len(u) = Len(w) /\ u[i] = w[i + 1] /\ u[i + 1] = w[i]
      /\ \A k \in 1..Len(w) : k # i /\ k # i + 1 => u[k] = w[k]
  BY <1>1
<1> HIDE DEF u
<1>8. Len(z) = Len(u)
  BY <1>1, <1>3, <1>5, <1>6, <1>7
<1>9. ASSUME NEW k \in 1..Len(w) PROVE z[k] = u[k]
  <2>1. CASE k <= i - 1
    <3>1. k \in 1..i - 1 /\ k \in 1..Len(head) /\ k # i /\ k # i + 1
      BY <1>1, <1>5, <2>1
    <3> QED  BY <1>5, <1>6, <1>7, <3>1
  <2>2. CASE k = i \/ k = i + 1
    <3>1. k \in 1..Len(head)
      BY <1>1, <1>5, <2>2
    <3> QED  BY <1>5, <1>6, <1>7, <2>2, <3>1
  <2>3. CASE k > i + 1
    <3>1. PICK l \in 1..Len(back) : k = i + 1 + l
      <4>1. k - (i + 1) \in 1..Len(back) /\ k = i + 1 + (k - (i + 1))
        BY <1>1, <1>3, <2>3
      <4> QED  BY <4>1
    <3>2. z[k] = back[l]
      BY <1>5, <1>6, <3>1
    <3>3. (i + 2) - 1 + l = k /\ l \in 1..Len(w) + 1 - (i + 2) /\ k # i /\ k # i + 1
      BY <1>1, <1>3, <2>3, <3>1
    <3>4. back[l] = w[k]
      BY <1>3, <3>3
    <3> QED  BY <1>7, <3>2, <3>3, <3>4
  <2> QED  BY <1>1, <2>1, <2>2, <2>3
<1>10. z = u
  BY <1>6, <1>7, <1>8, <1>9, SameElements
<1> QED  BY <1>10 DEF z, u, head, front, back, part, Patched

(* Two items the other way round.                                          *)
LEMMA ReorderedKeeps ==
    ASSUME message \in DOMAIN Format, encoding \in {"proto", "json"},
           Honest(encoding, message, value, wire), SendsReordered
    PROVE  Accepted(encoding, message, wire') /\ Yields(encoding, message, wire', Empty(message), value)
<1>1. PICK S : wire \in Seq(S)
  BY HonestWire
<1>2. PICK i \in 1..Len(wire) - 1 :
        /\ ~ (encoding = "proto" /\ wire[i].number = wire[i + 1].number)
        /\ wire' = [wire EXCEPT ![i] = wire[i + 1], ![i + 1] = wire[i]]
  BY DEF SendsReordered
<1> DEFINE x == wire[i]
           y == wire[i + 1]
<1>3. wire' = Patched(wire, i, <<y, x>>, i + 2)
  BY <1>1, <1>2, SwapPatches
<1>4. /\ i \in 1..Len(wire) /\ i + 1 \in 1..Len(wire) /\ i \in 1..Len(wire) + 1
      /\ i + 2 \in 1..Len(wire) + 1 /\ (i + 1) + 1 = i + 2
  BY <1>1
<1>5. Accepted(encoding, message, wire) /\ Yields(encoding, message, wire, Empty(message), value)
  BY HonestWire DEF Honest
<1>6. <<y, x>> \in Seq({x, y}) /\ Accepted(encoding, message, <<y, x>>)
  <2>1. ~ Rejects(encoding, Format[message].reads, x) /\ ~ Rejects(encoding, Format[message].reads, y)
    BY <1>4, <1>5 DEF Accepted
  <2> HIDE DEF x, y
  <2> QED  BY <2>1 DEF Accepted
<1>7. ASSUME NEW f \in Wanted(encoding, message)
      PROVE  LET c == FieldReader(encoding, Format[message], f)
                 b == Read(c, SubSeq(wire, 1, i - 1), Empty(message)[f])
             IN Read(c, SubSeq(wire, i + 2, Len(wire)), Read(c, <<y, x>>, b))
                  = Read(c, wire, Empty(message)[f])
  <2> DEFINE c == FieldReader(encoding, Format[message], f)
             a == Empty(message)[f]
             b == Read(c, SubSeq(wire, 1, i - 1), a)
  <2>1. Lone(c, wire)
    BY DEF Honest
  <2>2. ~ Concerns(c, x) \/ ~ Concerns(c, y)
    <3>1. c.encoding = encoding
      BY DEF FieldReader
    <3> HIDE DEF c
    <3> QED  BY <1>2, <1>4, <2>1, <3>1 DEF Lone, Repeats
  <2> HIDE DEF c
  <2>3. Fill(c, x, Fill(c, y, b)) = Fill(c, y, Fill(c, x, b))
    <3> HIDE DEF x, y, b
    <3> QED  BY <2>2 DEF Fill
  <2>4. Read(c, wire, a) = Read(c, SubSeq(wire, i + 1, Len(wire)), Fill(c, x, b))
    BY <1>1, <1>4, ReadAround
  <2>5. \A z : Read(c, SubSeq(wire, i + 1, Len(wire)), z)
                 = Read(c, SubSeq(wire, i + 2, Len(wire)), Fill(c, y, z))
    BY <1>1, <1>4, ReadHead
  <2>6. Read(c, <<y, x>>, b) = Fill(c, x, Fill(c, y, b))
    BY ReadTwo
  <2> HIDE DEF x, y, b, a
  <2>7. Read(c, SubSeq(wire, i + 2, Len(wire)), Read(c, <<y, x>>, b)) = Read(c, wire, a)
    BY <2>3, <2>4, <2>5, <2>6
  <2> QED  BY <2>7 DEF c, b, a
<1> HIDE DEF x, y
<1> QED  BY <1>1, <1>3, <1>4, <1>5, <1>6, <1>7, PatchedYields

LEMMA HonestCase ==
    ASSUME message \in DOMAIN Format, encoding = "proto", Honest(encoding, message, value, wire),
           NEW i \in DOMAIN wire, NEW r \in CasesAt(i)
    PROVE  /\ i \in 1..Len(wire) /\ i + 1 \in 1..Len(wire) + 1 /\ Len(wire) \in Nat
           /\ r \in CaseOf(Format[message].reads, wire[i])
           /\ HonestItem(message, wire[i]) /\ IsItem(wire[i])
           /\ ~ Refused(Format[message].reads, wire[i])
<1>1. DOMAIN wire = 1..Len(wire) /\ Len(wire) \in Nat /\ HonestPart(encoding, message, wire[i])
  BY HonestWire
<1>2. HonestItem(message, wire[i])
  BY <1>1 DEF HonestPart
<1> QED  BY <1>1, <1>2 DEF HonestItem, CasesAt, Tab

(* An item like another one, as far as the reader looks before it stores.  *)
LEMMA LikeItem ==
    ASSUME NEW m \in DOMAIN Format, NEW x, ~ Refused(Format[m].reads, x),
           NEW r \in CaseOf(Format[m].reads, x), NEW y, y.number = x.number, y.whole = x.whole,
           y.wire \in r.wires, r.type \in Ids => y.payload \in IdTexts
    PROVE  ~ Rejects("proto", Format[m].reads, y)
<1>1. r \in Format[m].reads /\ CaseOf(Format[m].reads, y) = {r}
  BY SameCase
<1>2. y.wire \notin {4, 6, 7}
  BY <1>1, ReadsAssumption
<1>3. ~ (y.number <= 0) /\ y.whole
  BY DEF Refused
<1> QED  BY <1>1, <1>2, <1>3 DEF Refused, Rejects, IdTexts

(* One item for each element of a packed field.                            *)
LEMMA UnpackedKeeps ==
    ASSUME message \in DOMAIN Format, Honest(encoding, message, value, wire), SendsUnpacked
    PROVE  Accepted(encoding, message, wire') /\ Yields(encoding, message, wire', Empty(message), value)
<1>1. PICK S : wire \in Seq(S)
  BY HonestWire
<1>2. encoding = "proto"
  BY DEF SendsUnpacked
<1>3. PICK i \in DOMAIN wire : \E r \in CasesAt(i) :
        /\ r.how = "pack"
        /\ wire' = Replace(i, [k \in DOMAIN wire[i].payload |->
                     [wire[i] EXCEPT !.wire = CHOOSE w \in r.wires : w # 2,
                                     !.payload = <<wire[i].payload[k]>>]])
  BY DEF SendsUnpacked
<1>4. PICK r \in CasesAt(i) :
        /\ r.how = "pack"
        /\ wire' = Replace(i, [k \in DOMAIN wire[i].payload |->
                     [wire[i] EXCEPT !.wire = CHOOSE w \in r.wires : w # 2,
                                     !.payload = <<wire[i].payload[k]>>]])
  BY <1>3
<1> DEFINE x == wire[i]
           p == x.payload
           plain == CHOOSE w \in r.wires : w # 2
           F(k) == [x EXCEPT !.wire = plain, !.payload = <<p[k]>>]
           items == [k \in DOMAIN p |-> F(k)]
           n == Len(p)
<1>5. wire' = Patched(wire, i, items, i + 1)
  BY <1>4 DEF Replace, Patched
<1>6. /\ i \in 1..Len(wire) /\ i \in 1..Len(wire) + 1 /\ i + 1 \in 1..Len(wire) + 1
      /\ r \in CaseOf(Format[message].reads, x) /\ HonestItem(message, x) /\ IsItem(x)
      /\ ~ Refused(Format[message].reads, x)
  BY <1>2, HonestCase
<1>7. x.wire = 2 /\ Empty(message)[r.field] = <<>>
  BY <1>4, <1>6 DEF HonestItem
<1>8. r \in Format[message].reads
  BY <1>6, SameCase
<1>9. plain \in r.wires /\ plain # 2 /\ r.type \notin Ids \cup {"message"}
  BY <1>4, <1>8, ReadsAssumption
<1>10. PICK T : p \in Seq(T)
  BY <1>6 DEF IsItem
<1>11. DOMAIN p = 1..n /\ n \in Nat
  BY <1>10
<1> HIDE DEF plain, p, n, x
<1>12. ASSUME NEW k \in 1..n
       PROVE  /\ F(k).number = x.number /\ F(k).whole = x.whole /\ F(k).wire = plain
              /\ F(k).payload = <<p[k]>>
  BY <1>6 DEF IsItem
<1> HIDE DEF F
<1> DEFINE U == {F(k) : k \in 1..n}
<1>13. items \in Seq(U) /\ Len(items) = n /\ \A k \in 1..n : items[k] = F(k)
  <2>1. items \in [1..n -> U] /\ \A k \in 1..n : items[k] = F(k)
    BY <1>11
  <2> HIDE DEF items, U
  <2> QED  BY <1>11, <2>1
<1> HIDE DEF items, U
<1>14. Accepted(encoding, message, items)
  <2>1. ASSUME NEW k \in 1..n PROVE ~ Rejects("proto", Format[message].reads, F(k))
    BY <1>6, <1>9, <1>12, LikeItem
  <2> QED  BY <1>2, <1>13, <2>1 DEF Accepted
<1>15. ASSUME NEW k \in 1..n, NEW f, NEW old
       PROVE  Fill(FieldReader(encoding, Format[message], f), F(k), old)
                = IF f = r.field THEN Append(old, Decode(r.type, <<p[k]>>)) ELSE old
  <2>1. Fill(FieldReader("proto", Format[message], f), F(k), old)
          = IF f = r.field THEN Stored(r, F(k), old) ELSE old
    BY <1>6, <1>12, SameCase
  <2>2. Stored(r, F(k), old) = Append(old, Decode(r.type, <<p[k]>>))
    BY <1>4, <1>9, <1>12 DEF Stored
  <2> QED  BY <1>2, <2>1, <2>2
<1> DEFINE s == DecodeEach(r.type, p)
<1>16. ASSUME NEW f, NEW old
       PROVE  Fill(FieldReader(encoding, Format[message], f), x, old)
                = IF f = r.field THEN old \o s ELSE old
  <2>1. \A y : y.number = x.number =>
          Fill(FieldReader("proto", Format[message], f), y, old)
            = IF f = r.field THEN Stored(r, y, old) ELSE old
    BY <1>6, SameCase
  <2>2. Stored(r, x, old) = old \o s
    BY <1>4, <1>7 DEF Stored, p
  <2> QED  BY <1>2, <2>1, <2>2
<1>17. DOMAIN s = 1..n /\ \A k \in 1..n : s[k] = Decode(r.type, <<p[k]>>)
  <2>1. DOMAIN s = 1..n
    BY <1>11 DEF DecodeEach
  <2>2. ASSUME NEW k \in 1..n PROVE s[k] = Decode(r.type, <<p[k]>>)
    <3> DEFINE q == <<p[k]>>
    <3>1. DOMAIN q = {1} /\ q[1] = p[k]
      OBVIOUS
    <3> HIDE DEF q
    <3>2. Decode(r.type, q) = DecodeEach(r.type, q)[1]
      BY <1>9 DEF Decode
    <3>3. DecodeEach(r.type, q)[1] = s[k]
      BY <1>11, <3>1 DEF DecodeEach
    <3> QED  BY <3>2, <3>3 DEF q
  <2> QED  BY <2>1, <2>2
<1> DEFINE V == {s[k] : k \in 1..n}
<1>18. s \in Seq(V) /\ Len(s) = n
  <2>1. s = [k \in 1..n |-> s[k]]
    BY <1>11, <1>17 DEF DecodeEach
  <2> HIDE DEF s
  <2>2. s \in [1..n -> V]
    BY <2>1
  <2> HIDE DEF V
  <2> QED  BY <1>11, <2>2
<1> HIDE DEF s, V
<1>19. ASSUME NEW f \in Wanted(encoding, message)
       PROVE  LET c == FieldReader(encoding, Format[message], f)
                  b == Read(c, SubSeq(wire, 1, i - 1), Empty(message)[f])
              IN Read(c, SubSeq(wire, i + 1, Len(wire)), Read(c, items, b))
                   = Read(c, wire, Empty(message)[f])
  <2> DEFINE c == FieldReader(encoding, Format[message], f)
             a == Empty(message)[f]
             b == Read(c, SubSeq(wire, 1, i - 1), a)
  <2>1. Read(c, wire, a) = Read(c, SubSeq(wire, i + 1, Len(wire)), Fill(c, x, b))
    BY <1>1, <1>6, ReadAround DEF x
  <2>2. CASE f # r.field
    <3>1. Fill(c, x, b) = b
      BY <1>16, <2>2
    <3>2. \A y : y.number = x.number => CasesFor(c, y) = {}
      BY <1>2, <1>6, <2>2, SameCase
    <3> HIDE DEF c, a, b
    <3>3. NoneFor(c, items)
      BY <1>12, <1>13, <3>2 DEF NoneFor, Concerns
    <3>4. Read(c, items, b) = b
      BY <1>13, <3>3, ReadSkips
    <3> QED  BY <2>1, <3>1, <3>4 DEF c, a, b
  <2>3. CASE f = r.field
    <3>1. a = <<>>
      BY <1>7, <2>3
    <3>2. CasesFor(c, x) = {r}
      BY <1>2, <1>6, <2>3, SameCase
    <3>3. Concerns(c, x) /\ ~ Repeats(c, x)
      BY <1>4, <3>2 DEF Concerns, Repeats
    <3>4. Lone(c, wire)
      BY DEF Honest
    <3>5. b = a
      BY <1>1, <1>6, <3>3, <3>4, NothingBefore DEF x
    <3>6. ASSUME NEW k \in 1..Len(items), NEW old PROVE Fill(c, items[k], old) = Append(old, s[k])
      <4>1. k \in 1..n
        BY <1>13
      <4>2. items[k] = F(k) /\ s[k] = Decode(r.type, <<p[k]>>)
        BY <1>13, <1>17, <4>1
      <4>3. Fill(c, F(k), old) = Append(old, Decode(r.type, <<p[k]>>))
        BY <1>15, <2>3, <4>1
      <4> QED  BY <4>2, <4>3
    <3>7. Fill(c, x, <<>>) = <<>> \o s
      BY <1>16, <2>3
    <3> HIDE DEF c, a, b
    <3>8. Len(s) = Len(items)
      BY <1>13, <1>18
    <3>9. Read(c, items, <<>>) = s
      BY <1>13, <1>18, <3>6, <3>8, ReadAppends
    <3>10. <<>> \o s = s
      BY <1>18
    <3> QED  BY <2>1, <3>1, <3>5, <3>7, <3>9, <3>10 DEF c, a, b
  <2> QED  BY <2>2, <2>3
<1>20. Accepted(encoding, message, wire) /\ Yields(encoding, message, wire, Empty(message), value)
  BY HonestWire DEF Honest
<1> QED  BY <1>1, <1>5, <1>6, <1>13, <1>14, <1>19, <1>20, PatchedYields

(* An embedded message in two parts.                                       *)
LEMMA PartsKeep ==
    ASSUME message \in DOMAIN Format, Honest(encoding, message, value, wire), SendsInParts
    PROVE  Accepted(encoding, message, wire') /\ Yields(encoding, message, wire', Empty(message), value)
<1>1. PICK S : wire \in Seq(S)
  BY HonestWire
<1>2. encoding = "proto"
  BY DEF SendsInParts
<1>3. PICK i \in DOMAIN wire : \E r \in CasesAt(i) :
        /\ r.how = "merge" /\ Len(wire[i].payload) = 2
        /\ wire' = Replace(i, [k \in 1..2 |-> [wire[i] EXCEPT !.payload = <<wire[i].payload[k]>>]])
  BY DEF SendsInParts
<1>4. PICK r \in CasesAt(i) :
        /\ r.how = "merge" /\ Len(wire[i].payload) = 2
        /\ wire' = Replace(i, [k \in 1..2 |-> [wire[i] EXCEPT !.payload = <<wire[i].payload[k]>>]])
  BY <1>3
<1> DEFINE x == wire[i]
           p == x.payload
           F(k) == [x EXCEPT !.payload = <<p[k]>>]
           items == [k \in 1..2 |-> F(k)]
<1>5. wire' = Patched(wire, i, items, i + 1)
  BY <1>4 DEF Replace, Patched
<1>6. /\ i \in 1..Len(wire) /\ i \in 1..Len(wire) + 1 /\ i + 1 \in 1..Len(wire) + 1
      /\ r \in CaseOf(Format[message].reads, x) /\ HonestItem(message, x) /\ IsItem(x)
      /\ ~ Refused(Format[message].reads, x)
  BY <1>2, HonestCase
<1>7. Empty(message)[r.field] = <<>>
  BY <1>4, <1>6 DEF HonestItem
<1>8. r \in Format[message].reads /\ r.type = "message" /\ x.wire \in r.wires
  BY <1>4, <1>6, SameCase, ReadsAssumption DEF Refused
<1>9. PICK T : p \in Seq(T) /\ Len(p) = 2
  BY <1>4, <1>6 DEF IsItem
<1> HIDE DEF p, x
<1>10. ASSUME NEW k \in 1..2
       PROVE  /\ F(k).number = x.number /\ F(k).whole = x.whole /\ F(k).wire = x.wire
              /\ F(k).payload = <<p[k]>>
  BY <1>6 DEF IsItem
<1> HIDE DEF F
<1> DEFINE U == {F(1), F(2)}
<1>11. items = <<F(1), F(2)>>
  OBVIOUS
<1>12. items \in Seq(U) /\ Len(items) = 2 /\ items[1] = F(1) /\ items[2] = F(2)
  <2>1. F(1) \in U /\ F(2) \in U
    OBVIOUS
  <2> HIDE DEF U
  <2> QED  BY <1>11, <2>1
<1> HIDE DEF items, U
<1>13. Accepted(encoding, message, items)
  <2>1. ASSUME NEW k \in 1..2 PROVE ~ Rejects("proto", Format[message].reads, F(k))
    <3>1. r.type \notin Ids
      BY <1>8 DEF Ids
    <3> QED  BY <1>6, <1>8, <1>10, <3>1, LikeItem
  <2>2. \A k \in 1..Len(items) : k \in 1..2 /\ items[k] = F(k)
    BY <1>12
  <2> QED  BY <1>2, <2>1, <2>2 DEF Accepted
<1>14. ASSUME NEW y, y.number = x.number, NEW f, NEW old
       PROVE  Fill(FieldReader(encoding, Format[message], f), y, old)
                = IF f = r.field THEN old \o y.payload ELSE old
  <2>1. Fill(FieldReader("proto", Format[message], f), y, old)
          = IF f = r.field THEN Stored(r, y, old) ELSE old
    BY <1>6, <1>14, SameCase
  <2>2. Stored(r, y, old) = old \o y.payload
    BY <1>4 DEF Stored
  <2> QED  BY <1>2, <2>1, <2>2
<1>15. ASSUME NEW f \in Wanted(encoding, message)
       PROVE  LET c == FieldReader(encoding, Format[message], f)
                  b == Read(c, SubSeq(wire, 1, i - 1), Empty(message)[f])
              IN Read(c, SubSeq(wire, i + 1, Len(wire)), Read(c, items, b))
                   = Read(c, wire, Empty(message)[f])
  <2> DEFINE c == FieldReader(encoding, Format[message], f)
             a == Empty(message)[f]
             b == Read(c, SubSeq(wire, 1, i - 1), a)
  <2>1. Read(c, wire, a) = Read(c, SubSeq(wire, i + 1, Len(wire)), Fill(c, x, b))
    BY <1>1, <1>6, ReadAround DEF x
  <2>2. Read(c, items, b) = Fill(c, F(2), Fill(c, F(1), b))
    BY <1>11, ReadTwo
  <2>3. F(1).number = x.number /\ F(2).number = x.number
    BY <1>10
  <2>4. CASE f # r.field
    <3>1. \A y, old : y.number = x.number => Fill(c, y, old) = old
      BY <1>14, <2>4
    <3> HIDE DEF c, a, b
    <3>2. Read(c, items, b) = b /\ Fill(c, x, b) = b
      BY <2>2, <2>3, <3>1
    <3> QED  BY <2>1, <3>2 DEF c, a, b
  <2>5. CASE f = r.field
    <3>1. a = <<>>
      BY <1>7, <2>5
    <3>2. \A y : y.number = x.number => CasesFor(c, y) = {r}
      BY <1>2, <1>6, <2>5, SameCase
    <3>3. Concerns(c, x) /\ ~ Repeats(c, x)
      BY <1>4, <3>2 DEF Concerns, Repeats
    <3>4. Lone(c, wire)
      BY DEF Honest
    <3>5. b = a
      BY <1>1, <1>6, <3>3, <3>4, NothingBefore DEF x
    <3>6. \A y, old : y.number = x.number => Fill(c, y, old) = old \o y.payload
      BY <1>14, <2>5
    <3> HIDE DEF c, a, b
    <3>7. Fill(c, F(2), Fill(c, F(1), <<>>)) = (<<>> \o <<p[1]>>) \o <<p[2]>>
      <4>1. F(1).payload = <<p[1]>> /\ F(2).payload = <<p[2]>>
        BY <1>10
      <4> QED  BY <2>3, <3>6, <4>1
    <3>8. Fill(c, x, <<>>) = <<>> \o p
      BY <3>6 DEF p
    <3>9. (<<>> \o <<p[1]>>) \o <<p[2]>> = <<>> \o p
      BY <1>9
    <3> QED  BY <2>1, <2>2, <3>1, <3>5, <3>7, <3>8, <3>9 DEF c, a, b
  <2> QED  BY <2>4, <2>5
<1>16. Accepted(encoding, message, wire) /\ Yields(encoding, message, wire, Empty(message), value)
  BY HonestWire DEF Honest
<1> QED  BY <1>1, <1>5, <1>6, <1>12, <1>13, <1>15, <1>16, PatchedYields

(* A field with one value before the one that counts.                      *)
LEMMA TwiceKeeps ==
    ASSUME message \in DOMAIN Format, Honest(encoding, message, value, wire), SendsTwice
    PROVE  Accepted(encoding, message, wire') /\ Yields(encoding, message, wire', Empty(message), value)
<1>1. PICK S : wire \in Seq(S)
  BY HonestWire
<1>2. encoding = "proto"
  BY DEF SendsTwice
<1>3. PICK i \in DOMAIN wire : \E r \in CasesAt(i) :
        r.how = "set" /\ wire' = Insert(i, [wire[i] EXCEPT !.payload = <<1>>])
  BY DEF SendsTwice
<1>4. PICK r \in CasesAt(i) :
        r.how = "set" /\ wire' = Insert(i, [wire[i] EXCEPT !.payload = <<1>>])
  BY <1>3
<1> DEFINE x == wire[i]
           y == [x EXCEPT !.payload = <<1>>]
<1>5. wire' = Patched(wire, i, <<y>>, i)
  BY <1>4 DEF Insert, Patched
<1>6. /\ i \in 1..Len(wire) /\ i \in 1..Len(wire) + 1
      /\ r \in CaseOf(Format[message].reads, x) /\ IsItem(x)
      /\ ~ Refused(Format[message].reads, x)
  BY <1>2, HonestCase
<1> HIDE DEF x
<1>7. y.number = x.number /\ y.whole = x.whole /\ y.wire = x.wire /\ y.payload = <<1>>
  BY <1>6 DEF IsItem
<1>8. x.wire \in r.wires
  BY <1>6 DEF Refused
<1> HIDE DEF y
<1>9. <<y>> \in Seq({y}) /\ Accepted(encoding, message, <<y>>)
  <2>1. ~ Rejects("proto", Format[message].reads, y)
    BY <1>6, <1>7, <1>8, LikeItem DEF IdTexts
  <2> QED  BY <1>2, <2>1 DEF Accepted
<1>10. ASSUME NEW z, z.number = x.number, NEW f, NEW old
      PROVE  Fill(FieldReader(encoding, Format[message], f), z, old)
               = IF f = r.field THEN Decode(r.type, z.payload) ELSE old
  <2>1. Fill(FieldReader("proto", Format[message], f), z, old)
          = IF f = r.field THEN Stored(r, z, old) ELSE old
    BY <1>6, <1>10, SameCase
  <2>2. Stored(r, z, old) = Decode(r.type, z.payload)
    BY <1>4 DEF Stored
  <2> QED  BY <1>2, <2>1, <2>2
<1>11. ASSUME NEW f \in Wanted(encoding, message)
       PROVE  LET c == FieldReader(encoding, Format[message], f)
                  b == Read(c, SubSeq(wire, 1, i - 1), Empty(message)[f])
              IN Read(c, SubSeq(wire, i, Len(wire)), Read(c, <<y>>, b))
                   = Read(c, wire, Empty(message)[f])
  <2> DEFINE c == FieldReader(encoding, Format[message], f)
             a == Empty(message)[f]
             b == Read(c, SubSeq(wire, 1, i - 1), a)
  <2>1. Read(c, wire, a) = Read(c, SubSeq(wire, i + 1, Len(wire)), Fill(c, x, b))
    BY <1>1, <1>6, ReadAround DEF x
  <2>2. \A z : Read(c, SubSeq(wire, i, Len(wire)), z)
                 = Read(c, SubSeq(wire, i + 1, Len(wire)), Fill(c, x, z))
    BY <1>1, <1>6, ReadHead DEF x
  <2>3. Fill(c, x, Fill(c, y, b)) = Fill(c, x, b)
    <3>1. \A z, old : z.number = x.number =>
            Fill(c, z, old) = IF f = r.field THEN Decode(r.type, z.payload) ELSE old
      BY <1>10
    <3> HIDE DEF c, b
    <3> QED  BY <1>7, <3>1
  <2> HIDE DEF c, a, b
  <2>4. Read(c, <<y>>, b) = Fill(c, y, b)
    BY ReadOneItem
  <2> QED  BY <2>1, <2>2, <2>3, <2>4 DEF c, a, b
<1>12. Accepted(encoding, message, wire) /\ Yields(encoding, message, wire, Empty(message), value)
  BY HonestWire DEF Honest
<1> QED  BY <1>1, <1>5, <1>6, <1>9, <1>11, <1>12, PatchedYields

-----------------------------------------------------------------------------
(* The invariant.  The items ahead are accepted and would make of each     *)
(* field what the sender had in it; the message that was built and the one *)
(* the decoder fills are functions on the fields.                          *)
Sent == Accepted(encoding, message, wire) /\ Yields(encoding, message, wire, Empty(message), value)

AheadYields ==
  /\ \A i \in at..Len(wire) : ~ Rejects(encoding, Tab.reads, wire[i])
  /\ Yields(encoding, message, SubSeq(wire, at, Len(wire)), got, value)

Same(f) == got[f] = value[f]

ReadBack ==
  /\ value = [f \in FieldsOf(message) |-> value[f]]
  /\ got = [f \in FieldsOf(message) |-> got[f]]
  /\ phase \in {"building", "wire"} => got = Empty(message)
  /\ phase = "wire" /\ fault = "none" => Honest(encoding, message, value, wire)
  /\ phase = "wire" /\ fault \notin Harmful => Sent
  /\ phase = "reading" /\ fault \notin Harmful => AheadYields
  /\ phase = "read" /\ fault \notin Harmful => \A f \in Wanted(encoding, message) : Same(f)
  /\ phase = "failed" => fault \in Harmful
  /\ phase = "delivered" /\ encoding = "proto" =>
       got = IF entry \in Tab.migrated THEN Migrate(Tab.deprecated, value) ELSE value

(* One turn of the loop does for each field what Fill says.                *)
LEMMA FillsField ==
    ASSUME NEW m \in DOMAIN Format, NEW x, NEW v, NEW f \in DOMAIN v
    PROVE  /\ Unmarshalled(Format[m].reads, x, v)[f] = Fill(FieldReader("proto", Format[m], f), x, v[f])
           /\ JsonRead(Format[m].reader, x, v)[f] = Fill(FieldReader("json", Format[m], f), x, v[f])
<1> DEFINE cases  == CaseOf(Format[m].reads, x)
           labels == LabelOf(Format[m].reader, x)
           proto  == FieldReader("proto", Format[m], f)
           json   == FieldReader("json", Format[m], f)
<1>1. /\ Unmarshalled(Format[m].reads, x, v)[f]
           = IF \E r \in cases : r.field = f THEN Stored(CHOOSE r \in cases : r.field = f, x, v[f])
             ELSE v[f]
      /\ JsonRead(Format[m].reader, x, v)[f]
           = IF \E r \in labels : r.field = f
             THEN JsonStored(CHOOSE r \in labels : r.field = f, x, v[f])
             ELSE v[f]
  BY DEF Unmarshalled, JsonRead
<1>2. CasesFor(proto, x) = {r \in cases : r.field = f} /\ proto.encoding = "proto"
  BY DEF CasesFor, FieldReader
<1>3. CasesFor(json, x) = {r \in labels : r.field = f} /\ json.encoding # "proto"
  BY DEF CasesFor, FieldReader
<1>4. \A r, s \in cases : r = s
  <2>1. \A r, s \in Format[m].reads : r.number = s.number => r = s
    BY ReadsAssumption
  <2> QED  BY <2>1 DEF CaseOf
<1>5. \A r, s \in labels : r = s
  <2>1. Format[m].reader # {} => \A r, s \in Format[m].reader : r.names \cap s.names # {} => r = s
    BY JsonAssumption
  <2> QED  BY <2>1 DEF LabelOf
<1> HIDE DEF cases, labels, proto, json
<1>6. ASSUME NEW A, \A r, s \in A : r = s, NEW r \in A, r.field = f
      PROVE  (CHOOSE q \in A : q.field = f) = r /\ (CHOOSE q \in {s \in A : s.field = f} : TRUE) = r
  BY <1>6
<1>7. Unmarshalled(Format[m].reads, x, v)[f] = Fill(proto, x, v[f])
  <2>1. CASE \E r \in cases : r.field = f
    <3>1. PICK r \in cases : r.field = f
      BY <2>1
    <3>2. /\ (CHOOSE q \in cases : q.field = f) = r
          /\ (CHOOSE q \in {s \in cases : s.field = f} : TRUE) = r
      BY <1>4, <1>6, <3>1
    <3> QED  BY <1>1, <1>2, <3>1, <3>2 DEF Fill, Concerns
  <2>2. CASE ~ \E r \in cases : r.field = f
    BY <1>1, <1>2, <2>2 DEF Fill, Concerns
  <2> QED  BY <2>1, <2>2
<1>8. JsonRead(Format[m].reader, x, v)[f] = Fill(json, x, v[f])
  <2>1. CASE \E r \in labels : r.field = f
    <3>1. PICK r \in labels : r.field = f
      BY <2>1
    <3>2. /\ (CHOOSE q \in labels : q.field = f) = r
          /\ (CHOOSE q \in {s \in labels : s.field = f} : TRUE) = r
      BY <1>5, <1>6, <3>1
    <3> QED  BY <1>1, <1>3, <3>1, <3>2 DEF Fill, Concerns
  <2>2. CASE ~ \E r \in labels : r.field = f
    BY <1>1, <1>3, <2>2 DEF Fill, Concerns
  <2> QED  BY <2>1, <2>2
<1> QED  BY <1>7, <1>8 DEF proto, json

LEMMA InitReadBack == Init => ReadBack
<1> SUFFICES ASSUME Init PROVE ReadBack
  OBVIOUS
<1>1. value = Empty(message) /\ got = Empty(message) /\ phase = "building"
  BY DEF Init
<1>2. Empty(message) = [f \in FieldsOf(message) |-> Empty(message)[f]]
  BY DEF Empty
<1> QED  BY <1>1, <1>2 DEF ReadBack

LEMMA BuildReadBack ==
    ASSUME Typed, ReadBack, SetField
    PROVE  ReadBack'
<1>1. /\ phase = "building" /\ phase' = phase /\ message' = message /\ got' = got
      /\ \E d \in ToSet(Tab.struct) : \E x \in FieldValues(d) :
           value' = [value EXCEPT ![d.field] = x]
  BY DEF SetField
<1>2. PICK f, x : value' = [value EXCEPT ![f] = x]
  BY <1>1
<1>3. /\ value = [g \in FieldsOf(message) |-> value[g]]
      /\ got = [g \in FieldsOf(message) |-> got[g]] /\ got = Empty(message)
  BY <1>1 DEF ReadBack
<1>4. value' = [g \in FieldsOf(message) |-> value'[g]]
  BY <1>2, <1>3
<1>5. FieldsOf(message)' = FieldsOf(message) /\ Empty(message)' = Empty(message)
  BY <1>1
<1> QED  BY <1>1, <1>3, <1>4, <1>5 DEF ReadBack

LEMMA MarshalReadBack ==
    ASSUME Typed, ReadBack, Marshal \/ WriteJSON
    PROVE  ReadBack'
<1>1. message \in DOMAIN Format /\ Built(message, value) /\ fault = "none" /\ phase = "building"
  BY DEF Typed, Marshal, WriteJSON
<1>2. message' = message /\ value' = value /\ got' = got /\ fault' = fault
  BY DEF Marshal, WriteJSON
<1>3. phase' = "wire" /\ Honest(encoding', message, value, wire')
  <2>1. CASE Marshal
    <3> DEFINE items == MarshalToSizedBuffer(Tab.writes, value)
               n == Size(Tab.sizes, value)
    <3>1. n = WireBytes(items) /\ n \in Nat
      BY <1>1, SizeOfMarshalled DEF Tab
    <3>2. /\ wire' = CASE n = WireBytes(items) -> items
                       [] n < WireBytes(items) -> Overrun
                       [] n > WireBytes(items) -> Padding
          /\ phase' = IF n < WireBytes(items) THEN "failed" ELSE "wire"
          /\ encoding' = "proto"
      BY <2>1 DEF Marshal
    <3>3. Honest("proto", message, value, items)
      BY <1>1, MarshalHonest DEF Tab
    <3> HIDE DEF items, n
    <3> QED  BY <3>1, <3>2, <3>3
  <2>2. CASE WriteJSON
    <3>1. PICK o \in BOOLEAN : wire' = MarshalJSON(Tab.struct, value, o)
      BY <2>2 DEF WriteJSON
    <3>2. encoding' = "json" /\ phase' = "wire" /\ Tab.reader # {}
      BY <2>2 DEF WriteJSON
    <3>3. Honest("json", message, value, MarshalJSON(Tab.struct, value, o))
      BY <1>1, <3>2, JsonHonest DEF Tab
    <3> QED  BY <3>1, <3>2, <3>3
  <2> QED  BY <2>1, <2>2
<1>4. Accepted(encoding', message, wire') /\ Yields(encoding', message, wire', Empty(message), value)
  BY <1>3, HonestWire DEF Honest
<1>5. Honest(encoding, message, value, wire)' /\ Sent'
  BY <1>2, <1>3, <1>4 DEF Sent
<1>6. FieldsOf(message)' = FieldsOf(message) /\ Empty(message)' = Empty(message)
  BY <1>2
<1> QED  BY <1>1, <1>2, <1>3, <1>5, <1>6 DEF ReadBack

LEMMA TransportReadBack ==
    ASSUME Typed, ReadBack, Transport
    PROVE  ReadBack'
<1>1. message \in DOMAIN Format /\ encoding \in {"proto", "json"} /\ phase = "wire" /\ fault = "none"
  BY DEF Typed, Transport
<1>2. /\ message' = message /\ value' = value /\ got' = got /\ phase' = phase
      /\ encoding' = encoding
      /\ \/ SendsReordered \/ SendsUnknown \/ SendsUnpacked \/ SendsInParts \/ SendsTwice
         \/ CutsItem \/ Damages
  BY DEF Transport
<1>3. Honest(encoding, message, value, wire)
  BY <1>1 DEF ReadBack
<1>4. fault' # "none"
  BY <1>2 DEF SendsReordered, SendsUnknown, SendsUnpacked, SendsInParts, SendsTwice, CutsItem, Damages
<1>5. CASE CutsItem \/ Damages
  <2>1. fault' \in Harmful
    BY <1>5 DEF CutsItem, Damages, Harmful
  <2> QED  BY <1>1, <1>2, <1>4, <2>1 DEF ReadBack
<1>6. CASE SendsReordered \/ SendsUnknown \/ SendsUnpacked \/ SendsInParts \/ SendsTwice
  <2>1. Accepted(encoding, message, wire') /\ Yields(encoding, message, wire', Empty(message), value)
    BY <1>1, <1>3, <1>6, UnknownKeeps, ReorderedKeeps, UnpackedKeeps, PartsKeep, TwiceKeeps
  <2>2. Sent'
    BY <1>2, <2>1 DEF Sent
  <2> QED  BY <1>1, <1>2, <1>4, <2>2 DEF ReadBack
<1> QED  BY <1>2, <1>5, <1>6

LEMMA ReceiveReadBack ==
    ASSUME Typed, ReadBack, Receive
    PROVE  ReadBack'
<1>1. /\ message' = message /\ value' = value /\ got' = got /\ phase = "wire" /\ phase' = "reading"
      /\ encoding' = encoding /\ wire' = wire /\ at' = at /\ fault' = fault /\ Tab' = Tab
  BY DEF Receive, Tab
<1>2. PICK S : wire \in Seq(S)
  BY DEF Typed
<1>3. at = 1 /\ got = Empty(message)
  BY <1>1 DEF Typed, ReadBack
<1>4. SubSeq(wire, 1, Len(wire)) = wire
  <2> DEFINE u == SubSeq(wire, 1, Len(wire))
  <2>1. 1 \in 1..Len(wire) + 1
    BY <1>2
  <2>2. /\ u \in Seq(S) /\ Len(u) = Len(wire) + 1 - 1
        /\ \A k \in 1..Len(wire) + 1 - 1 : u[k] = wire[1 - 1 + k]
    BY <1>2, <2>1, SplitAt
  <2> HIDE DEF u
  <2>3. Len(wire) = Len(u) /\ \A k \in 1..Len(wire) : u[k] = wire[k]
    BY <1>2, <2>2
  <2>4. u = wire
    BY <1>2, <2>2, <2>3, SameElements
  <2> QED  BY <2>4 DEF u
<1>5. fault \notin Harmful => AheadYields
  <2> SUFFICES ASSUME fault \notin Harmful PROVE AheadYields
    OBVIOUS
  <2>1. Sent
    BY <1>1 DEF ReadBack
  <2> QED  BY <1>3, <1>4, <2>1 DEF Sent, AheadYields, Accepted, Tab
<1>6. AheadYields' <=> AheadYields
  BY <1>1 DEF AheadYields
<1> QED  BY <1>1, <1>5, <1>6 DEF ReadBack

LEMMA ReadReadBack ==
    ASSUME Typed, ReadBack, ReadItem \/ ReadMember
    PROVE  ReadBack'
<1>1. /\ message' = message /\ value' = value /\ wire' = wire /\ fault' = fault
      /\ encoding' = encoding /\ Tab' = Tab
      /\ phase = "reading" /\ phase' \in {"reading", "failed"} /\ at <= Len(wire)
      /\ encoding \in {"proto", "json"}
  BY DEF ReadItem, ReadMember, Tab
<1>2. PICK S : wire \in Seq(S)
  BY DEF Typed
<1>3. at \in 1..Len(wire) /\ message \in DOMAIN Format
  BY <1>1, <1>2 DEF Typed
<1>4. /\ value = [f \in FieldsOf(message) |-> value[f]]
      /\ got = [f \in FieldsOf(message) |-> got[f]]
      /\ fault \notin Harmful => AheadYields
  BY <1>1 DEF ReadBack
<1>5. IF Rejects(encoding, Format[message].reads, wire[at])
      THEN phase' = "failed" /\ got' = got
      ELSE /\ phase' = "reading" /\ at' = at + 1
           /\ got' = IF encoding = "proto" THEN Unmarshalled(Format[message].reads, wire[at], got)
                                           ELSE JsonRead(Format[message].reader, wire[at], got)
  BY DEF ReadItem, ReadMember, After, Rejects, Tab
<1>6. CASE Rejects(encoding, Format[message].reads, wire[at])
  <2>1. ~ AheadYields
    <3>1. at \in at..Len(wire)
      BY <1>2, <1>3
    <3> QED  BY <1>6, <3>1 DEF AheadYields, Tab
  <2>2. FieldsOf(message)' = FieldsOf(message)
    BY <1>1
  <2> QED  BY <1>1, <1>4, <1>5, <1>6, <2>1, <2>2 DEF ReadBack
<1>7. CASE ~ Rejects(encoding, Format[message].reads, wire[at])
  <2>1. /\ phase' = "reading" /\ at' = at + 1
        /\ got' = IF encoding = "proto" THEN Unmarshalled(Format[message].reads, wire[at], got)
                                        ELSE JsonRead(Format[message].reader, wire[at], got)
    BY <1>5, <1>7
  <2>2. got' = [f \in FieldsOf(message) |-> got'[f]]
    <3>1. DOMAIN got = FieldsOf(message)
      BY DEF Typed
    <3> QED  BY <2>1, <3>1 DEF Unmarshalled, JsonRead
  <2>3. \A f \in FieldsOf(message) :
          got'[f] = Fill(FieldReader(encoding, Format[message], f), wire[at], got[f])
    BY <1>1, <1>3, <2>1, FillsField DEF Typed
  <2>4. ASSUME AheadYields PROVE AheadYields'
    <3>1. \A i \in at'..Len(wire) : ~ Rejects(encoding, Tab.reads, wire[i])
      BY <1>2, <1>3, <2>1, <2>4 DEF AheadYields
    <3>2. ASSUME NEW f \in Wanted(encoding, message)
          PROVE  Read(FieldReader(encoding, Format[message], f), SubSeq(wire, at + 1, Len(wire)), got'[f])
                   = value[f]
      <4> DEFINE c == FieldReader(encoding, Format[message], f)
      <4>1. Read(c, SubSeq(wire, at, Len(wire)), got[f]) = value[f]
        BY <2>4 DEF AheadYields, Yields
      <4>2. got'[f] = Fill(c, wire[at], got[f])
        BY <2>3 DEF Wanted
      <4> HIDE DEF c
      <4>3. Read(c, SubSeq(wire, at, Len(wire)), got[f])
              = Read(c, SubSeq(wire, at + 1, Len(wire)), Fill(c, wire[at], got[f]))
        BY <1>2, <1>3, ReadHead
      <4>4. Read(c, SubSeq(wire, at + 1, Len(wire)), got'[f]) = value[f]
        BY <4>1, <4>2, <4>3
      <4> QED  BY <4>4 DEF c
    <3>3. Yields(encoding, message, SubSeq(wire, at + 1, Len(wire)), got', value)
      BY <3>2 DEF Yields
    <3>4. Yields(encoding, message, SubSeq(wire, at, Len(wire)), got, value)'
      BY <1>1, <2>1, <3>3
    <3> QED  BY <1>1, <3>1, <3>4 DEF AheadYields
  <2>5. FieldsOf(message)' = FieldsOf(message)
    BY <1>1
  <2> QED  BY <1>1, <1>4, <2>1, <2>2, <2>4, <2>5 DEF ReadBack
<1> QED  BY <1>6, <1>7

LEMMA NothingAhead ==
    ASSUME NEW S, NEW w \in Seq(S)
    PROVE  SubSeq(w, Len(w) + 1, Len(w)) = <<>>
<1>1. Len(w) \in Nat /\ Len(w) + 1 \in 1..Len(w) + 1
  OBVIOUS
<1>2. /\ SubSeq(w, Len(w) + 1, Len(w)) \in Seq(S)
      /\ Len(SubSeq(w, Len(w) + 1, Len(w))) = Len(w) + 1 - (Len(w) + 1)
  BY <1>1, SplitAt
<1>3. Len(SubSeq(w, Len(w) + 1, Len(w))) = 0
  BY <1>1, <1>2
<1> QED  BY <1>2, <1>3

LEMMA EndReadBack ==
    ASSUME Typed, ReadBack, EndOfInput
    PROVE  ReadBack'
<1>1. /\ message' = message /\ value' = value /\ got' = got /\ wire' = wire /\ fault' = fault
      /\ encoding' = encoding /\ phase = "reading" /\ phase' = "read" /\ at > Len(wire)
  BY DEF EndOfInput
<1>2. PICK S : wire \in Seq(S)
  BY DEF Typed
<1>3. at = Len(wire) + 1
  BY <1>1, <1>2 DEF Typed
<1>4. SubSeq(wire, at, Len(wire)) = <<>>
  BY <1>2, <1>3, NothingAhead
<1>5. ASSUME fault \notin Harmful, NEW f \in Wanted(encoding, message)
      PROVE  Same(f)
  <2>1. AheadYields
    BY <1>1, <1>5 DEF ReadBack
  <2>2. Read(FieldReader(encoding, Format[message], f), <<>>, got[f]) = value[f]
    BY <1>4, <2>1 DEF AheadYields, Yields
  <2> QED  BY <2>2, ReadNothing DEF Same
<1>6. FieldsOf(message)' = FieldsOf(message) /\ Wanted(encoding, message)' = Wanted(encoding, message)
  BY <1>1
<1>7. \A f : Same(f)' <=> Same(f)
  BY <1>1 DEF Same
<1> QED  BY <1>1, <1>5, <1>6, <1>7 DEF ReadBack

(* A message that was read back is the message that was built.             *)
LEMMA GotIsValue ==
    ASSUME ReadBack, encoding = "proto", \A f \in Wanted(encoding, message) : Same(f)
    PROVE  got = value
<1>1. \A f \in FieldsOf(message) : got[f] = value[f]
  BY DEF Wanted, Same
<1>2. value = [f \in FieldsOf(message) |-> value[f]] /\ got = [f \in FieldsOf(message) |-> got[f]]
  BY DEF ReadBack
<1> QED  BY <1>1, <1>2

LEMMA DeliverReadBack ==
    ASSUME Typed, Ahead, ReadBack, Deliver
    PROVE  ReadBack'
<1>1. /\ message' = message /\ value' = value /\ fault' = fault /\ encoding' = encoding
      /\ phase = "read" /\ phase' = "delivered" /\ Tab' = Tab
      /\ got' = IF entry' \in Tab.migrated THEN Migrate(Tab.deprecated, got) ELSE got
  BY DEF Deliver, Tab
<1>2. \A f \in Wanted(encoding, message) : Same(f)
  BY <1>1 DEF Ahead, ReadBack
<1>3. encoding = "proto" => got = value
  BY <1>2, GotIsValue
<1>4. value = [f \in FieldsOf(message) |-> value[f]] /\ got = [f \in FieldsOf(message) |-> got[f]]
  BY DEF ReadBack
<1>5. got' = [f \in FieldsOf(message) |-> got'[f]]
  BY <1>1, <1>4 DEF Migrate
<1>6. FieldsOf(message)' = FieldsOf(message)
  BY <1>1
<1>7. encoding' = "proto" =>
        got' = IF entry' \in Tab'.migrated THEN Migrate(Tab'.deprecated, value') ELSE value'
  BY <1>1, <1>3
<1> QED  BY <1>1, <1>4, <1>5, <1>6, <1>7 DEF ReadBack

LEMMA CopyReadBack ==
    ASSUME Typed, ReadBack, ChooseDestination \/ CopyMessage
    PROVE  ReadBack'
<1>1. message' = message /\ value' = value /\ phase' \in {"copying", "copied"}
  BY DEF ChooseDestination, CopyMessage
<1>2. got' = [f \in FieldsOf(message) |-> got'[f]]
  <2>1. CASE ChooseDestination
    BY <2>1 DEF ChooseDestination, Empty, Filled
  <2>2. CASE CopyMessage
    <3>1. got' = CopyTo(Tab.copies, value, got) /\ DOMAIN got = FieldsOf(message)
      BY <2>2 DEF CopyMessage, Typed
    <3> QED  BY <3>1 DEF CopyTo
  <2> QED  BY <2>1, <2>2
<1>3. FieldsOf(message)' = FieldsOf(message)
  BY <1>1
<1>4. value = [f \in FieldsOf(message) |-> value[f]]
  BY DEF ReadBack
<1> QED  BY <1>1, <1>2, <1>3, <1>4 DEF ReadBack

LEMMA StutterReadBack ==
    ASSUME ReadBack, UNCHANGED vars
    PROVE  ReadBack'
<1>1. /\ message' = message /\ value' = value /\ got' = got /\ wire' = wire /\ fault' = fault
      /\ encoding' = encoding /\ phase' = phase /\ at' = at /\ entry' = entry /\ Tab' = Tab
  BY DEF vars, Tab
<1>2. /\ FieldsOf(message)' = FieldsOf(message) /\ Empty(message)' = Empty(message)
      /\ Wanted(encoding, message)' = Wanted(encoding, message)
      /\ Honest(encoding, message, value, wire)' = Honest(encoding, message, value, wire)
  BY <1>1
<1>3. (Sent' <=> Sent) /\ (AheadYields' <=> AheadYields) /\ \A f : Same(f)' <=> Same(f)
  BY <1>1 DEF Sent, AheadYields, Same
<1> QED  BY <1>1, <1>2, <1>3 DEF ReadBack

LEMMA NextReadBack ==
    ASSUME Typed, Ahead, ReadBack, [Next]_vars
    PROVE  ReadBack'
BY BuildReadBack, MarshalReadBack, TransportReadBack, ReceiveReadBack, ReadReadBack,
   EndReadBack, DeliverReadBack, CopyReadBack, StutterReadBack DEF Next

LEMMA AlwaysReadBack == Spec => [](Typed /\ ReadBack)
<1>1. Init => Ahead
  BY DEF Init, Ahead, Harmful
<1>2. Typed /\ Ahead /\ ReadBack /\ [Next]_vars => Typed' /\ Ahead' /\ ReadBack'
  BY NextTyped, NextAhead, NextReadBack
<1> QED  BY <1>1, <1>2, InitTyped, InitReadBack, PTL DEF Spec

-----------------------------------------------------------------------------
(* The properties.                                                         *)

(* Unmarshal gives back the message that was marshalled, through anything  *)
(* another sender may do to it.                                            *)
THEOREM RoundTripCorrect == Spec => []RoundTrip
<1>1. ReadBack => RoundTrip
  <2> SUFFICES ASSUME ReadBack, encoding = "proto", phase = "read", fault \in {"none"} \cup Harmless
               PROVE  got = value
    BY DEF RoundTrip
  <2>1. fault \notin Harmful
    BY DEF Harmless, Harmful
  <2>2. \A f \in Wanted(encoding, message) : Same(f)
    BY <2>1 DEF ReadBack
  <2> QED  BY <2>2, GotIsValue
<1> QED  BY <1>1, AlwaysReadBack, PTL

(* The JSON readers give back what jsonpb wrote, whichever of the two names *)
(* of a field the sender uses, unless no case of a reader is for the field. *)
THEOREM JsonCorrect == Spec => []JsonRoundTrip
<1>1. Typed /\ ReadBack => JsonRoundTrip
  <2> SUFFICES ASSUME Typed, ReadBack, phase = "read", fault \in {"none"} \cup Harmless,
                      NEW f \in DOMAIN value, <<message, f>> \notin JsonForgets
               PROVE  got[f] = value[f]
    BY DEF JsonRoundTrip
  <2>1. fault \notin Harmful
    BY DEF Harmless, Harmful
  <2>2. f \in Wanted(encoding, message)
    BY DEF Wanted, Typed, Built
  <2> QED  BY <2>1, <2>2 DEF ReadBack, Same
<1> QED  BY <1>1, AlwaysReadBack, PTL

(* No decoder refuses a message that was neither cut nor damaged.          *)
THEOREM AcceptedCorrect == Spec => []HonestAccepted
<1>1. ReadBack => HonestAccepted
  BY DEF ReadBack, HonestAccepted
<1> QED  BY <1>1, AlwaysReadBack, PTL

(* What an old sender puts in the deprecated form of a field is what the   *)
(* receiver finds in the field, unless the sender has set both.            *)
THEOREM DeprecatedCorrect == Spec => []DeprecatedKept
<1>1. Typed /\ ReadBack => DeprecatedKept
  <2> SUFFICES ASSUME Typed, ReadBack, phase = "delivered", entry \in Tab.migrated,
                      encoding = "proto", Tab.deprecated # <<>>
               PROVE  /\ IsSet(Tab.deprecated[1]) => got[Tab.deprecated[1]] = value[Tab.deprecated[1]]
                      /\ IsSet(Tab.deprecated[2]) /\ ~ IsSet(Tab.deprecated[1])
                           => got[Tab.deprecated[1]] = value[Tab.deprecated[2]]
                      /\ got[Tab.deprecated[2]] = <<>>
    BY DEF DeprecatedKept
  <2> DEFINE new == Tab.deprecated[1]
             old == Tab.deprecated[2]
  <2>1. /\ new # old /\ new \in FieldsOf(message) /\ old \in FieldsOf(message)
        /\ ZeroOf(DeclarationOf(message, new)) = <<>> /\ ZeroOf(DeclarationOf(message, old)) = <<>>
    BY MigrationAssumption DEF Typed, Tab
  <2>2. Empty(message)[new] = <<>> /\ Empty(message)[old] = <<>>
    BY <2>1 DEF Empty
  <2>3. got = Migrate(Tab.deprecated, value)
    BY DEF ReadBack
  <2>4. DOMAIN value = FieldsOf(message)
    BY DEF Typed, Built
  <2>5. got = [value EXCEPT ![new] = IF value[new] = <<>> THEN value[old] ELSE value[new],
                            ![old] = <<>>]
    BY <2>3 DEF Migrate
  <2> HIDE DEF new, old
  <2>6. got[new] = (IF value[new] = <<>> THEN value[old] ELSE value[new]) /\ got[old] = <<>>
    BY <2>1, <2>4, <2>5
  <2>7. (IsSet(new) <=> value[new] # <<>>) /\ (IsSet(old) <=> value[old] # <<>>)
    BY <2>2 DEF IsSet
  <2>8. /\ IsSet(new) => got[new] = value[new]
        /\ IsSet(old) /\ ~ IsSet(new) => got[new] = value[old]
        /\ got[old] = <<>>
    BY <2>6, <2>7
  <2> QED  BY <2>8 DEF new, old
<1> QED  BY <1>1, AlwaysReadBack, PTL
==============================================================================
