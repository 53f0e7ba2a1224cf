----------------------------- MODULE CodecProofs -----------------------------
(***************************************************************************)
(* Decoding, for the tables of any messages and whatever stands on the     *)
(* wire: Unmarshal fills no field that no item is for.                     *)
(*                                                                         *)
(* NothingInvented speaks of the items read so far, so the invariant says  *)
(* where the decoder starts: at the first item, with an empty message.     *)
(***************************************************************************)
EXTENDS Codec, Sums

(* The field is the one an item that has been read is for.                 *)
ReadFor(f) ==
  \E i \in 1..at - 1 : \E d \in ToSet(Tab.struct) : d.field = f /\ d.number = wire[i].number

Fills ==
  /\ message \in DOMAIN Format
  /\ at \in Nat \ {0}
  /\ phase \in {"building", "wire"} => at = 1 /\ got = Empty(message)
  /\ (encoding = "proto" /\ phase \in {"reading", "read"}) =>
       /\ DOMAIN got = FieldsOf(message)
       /\ \A f \in FieldsOf(message) : got[f] = Empty(message)[f] \/ ReadFor(f)

LEMMA EmptyFields ==
    ASSUME NEW m
    PROVE  DOMAIN Empty(m) = FieldsOf(m)
BY DEF Empty

LEMMA SameItems ==
  ASSUME message' = message, wire' = wire, at' = at
  PROVE  /\ FieldsOf(message)' = FieldsOf(message) /\ Empty(message)' = Empty(message)
         /\ \A f : ReadFor(f)' <=> ReadFor(f)
<1>1. Tab' = Tab /\ FieldsOf(message)' = FieldsOf(message)
  BY DEF Tab, FieldsOf
<1>2. Empty(message)' = Empty(message)
  BY <1>1 DEF Empty, DeclarationOf, FieldsOf
<1> QED  BY <1>1, <1>2 DEF ReadFor

LEMMA InitFills == Init => Fills
BY DEF Init, Fills

(* One turn of the loop fills the field its item is for.                   *)
LEMMA ReadItemFills ==
  ASSUME Fills, ReadItem
  PROVE  Fills'
<1>1. /\ phase = "reading" /\ encoding = "proto" /\ encoding' = encoding
      /\ message' = message /\ wire' = wire
  BY DEF ReadItem
<1>2. /\ message \in DOMAIN Format /\ at \in Nat \ {0}
      /\ DOMAIN got = FieldsOf(message)
      /\ \A f \in FieldsOf(message) : got[f] = Empty(message)[f] \/ ReadFor(f)
  BY <1>1 DEF Fills
<1>3. CASE phase' = "failed" /\ UNCHANGED <<at, got>>
  BY <1>1, <1>2, <1>3 DEF Fills
<1>4. CASE /\ got' = Unmarshalled(Tab.reads, wire[at], got)
           /\ at' = After(Tab.reads, wire[at], at)
           /\ UNCHANGED phase
  <2>1. at' = at + 1 /\ at \in 1..at' - 1 /\ at' \in Nat \ {0}
        /\ \A i \in 1..at - 1 : i \in 1..at' - 1
    BY <1>2, <1>4 DEF After
  <2>2. Tab' = Tab /\ FieldsOf(message)' = FieldsOf(message) /\ Empty(message)' = Empty(message)
    BY <1>1 DEF Tab, FieldsOf, Empty, DeclarationOf
  <2>3. \A f : ReadFor(f) => ReadFor(f)'
    BY <1>1, <2>1, <2>2 DEF ReadFor
  <2>4. DOMAIN got' = DOMAIN got
    BY <1>4 DEF Unmarshalled
  <2>5. ASSUME NEW f \in FieldsOf(message)
        PROVE  got'[f] = Empty(message)[f] \/ ReadFor(f)'
    <3>1. CASE \E r \in CaseOf(Tab.reads, wire[at]) : r.field = f
      <4>1. PICK r \in Tab.reads : r.number = wire[at].number /\ r.field = f
        BY <3>1 DEF CaseOf
      <4>2. PICK d \in ToSet(Tab.struct) : d.field = f /\ d.number = wire[at].number
        BY <1>2, <4>1, FormatAssumption DEF Tab
      <4>3. ReadFor(f)'
        BY <1>1, <2>1, <2>2, <4>2 DEF ReadFor
      <4> QED  BY <4>3
    <3>2. CASE ~ \E r \in CaseOf(Tab.reads, wire[at]) : r.field = f
      <4>1. got'[f] = got[f]
        BY <1>2, <1>4, <3>2 DEF Unmarshalled
      <4> QED  BY <1>2, <2>3, <4>1
    <3> QED  BY <3>1, <3>2
  <2> QED  BY <1>1, <1>2, <1>4, <2>1, <2>2, <2>4, <2>5 DEF Fills
<1> QED  BY <1>3, <1>4 DEF ReadItem

LEMMA NextFills ==
  ASSUME Fills, [Next]_vars
  PROVE  Fills'
<1>1. CASE SetField \/ WriteJSON \/ Transport
  <2>1. /\ phase \in {"building", "wire"} /\ phase' \in {"building", "wire"}
        /\ message' = message /\ at' = at /\ got' = got
    BY <1>1 DEF SetField, WriteJSON, Transport
  <2> QED  BY <2>1 DEF Fills, Empty, FieldsOf, DeclarationOf
<1>2. CASE Marshal
  <2>1. /\ phase = "building" /\ phase' \in {"wire", "failed"}
        /\ message' = message /\ at' = at /\ got' = got
    BY <1>2 DEF Marshal
  <2> QED  BY <2>1 DEF Fills, Empty, FieldsOf, DeclarationOf
<1>3. CASE Receive
  <2>1. /\ phase = "wire" /\ phase' = "reading"
        /\ message' = message /\ at' = at /\ got' = got
    BY <1>3 DEF Receive
  <2>2. Empty(message)' = Empty(message) /\ FieldsOf(message)' = FieldsOf(message)
    BY <2>1 DEF Empty, FieldsOf, DeclarationOf
  <2> QED  BY <2>1, <2>2, EmptyFields DEF Fills
<1>4. CASE ReadItem
  BY <1>4, ReadItemFills
<1>5. CASE ReadMember
  <2>1. /\ encoding' = "json" /\ phase' \in {"reading", "failed"}
        /\ message' = message /\ at' \in {at, at + 1}
    BY <1>5 DEF ReadMember
  <2> QED  BY <2>1 DEF Fills
<1>6. CASE EndOfInput
  <2>1. /\ phase = "reading" /\ phase' = "read"
        /\ encoding' = encoding /\ message' = message /\ at' = at /\ got' = got /\ wire' = wire
    BY <1>6 DEF EndOfInput
  <2> QED  BY <2>1, SameItems DEF Fills
<1>7. CASE Deliver \/ ChooseDestination \/ CopyMessage
  <2>1. phase' \in {"delivered", "copying", "copied"} /\ message' = message /\ at' = at
    BY <1>7 DEF Deliver, ChooseDestination, CopyMessage
  <2> QED  BY <2>1 DEF Fills
<1>8. CASE UNCHANGED vars
  <2>1. /\ message' = message /\ phase' = phase /\ encoding' = encoding
        /\ wire' = wire /\ at' = at /\ got' = got
    BY <1>8 DEF vars
  <2> QED  BY <2>1, SameItems DEF Fills
<1> QED  BY <1>1, <1>2, <1>3, <1>4, <1>5, <1>6, <1>7, <1>8 DEF Next

(* Whatever the sender writes and the transport does to it, Unmarshal      *)
(* leaves a field empty that none of the items read so far is for.         *)
THEOREM NoFieldInvented == Spec => []NothingInvented
<1>1. Fills => NothingInvented
  BY DEF Fills, NothingInvented, ReadFor
<1>2. Fills /\ [Next]_vars => Fills'
  BY NextFills
<1> QED  BY <1>1, <1>2, InitFills, PTL DEF Spec
-----------------------------------------------------------------------------
(* Totals.                                                                 *)

(* The terms of a sequence, for Sums.                                      *)
Terms(s) == [k \in Nat |-> IF k \in 1..Len(s) THEN s[k] ELSE 0]

LEMMA TermsAre ==
    ASSUME NEW s \in Seq(Int)
    PROVE  /\ Terms(s) \in [Nat -> Int]
           /\ \A k \in 1..Len(s) : Terms(s)[k] = s[k]
BY DEF Terms

LEMMA TotalIs ==
    ASSUME NEW s \in Seq(Int)
    PROVE  Total(s) = Sums(Terms(s))[Len(s)] /\ Total(s) \in Int
<1> DEFINE P(f) == f = [i \in 0..Len(s) |-> IF i = 0 THEN 0 ELSE f[i - 1] + s[i]]
           R(f) == f = [i \in 0..Len(s) |-> IF i = 0 THEN 0 ELSE f[i - 1] + Terms(s)[i]]
           sum == CHOOSE f : P(f)
<1>1. Len(s) \in Nat /\ Terms(s) \in [Nat -> Int]
  BY TermsAre
<1>2. \A f : P(f) <=> R(f)
  <2>1. \A i \in 0..Len(s) : i # 0 => Terms(s)[i] = s[i]
    BY TermsAre
  <2> QED  BY <2>1
<1>3. (\E f : R(f)) /\ \A f : R(f) => f[Len(s)] = Sums(Terms(s))[Len(s)]
  BY <1>1, RecursiveSums
<1>4. Total(s) = sum[Len(s)]
  BY DEF Total
<1> HIDE DEF P, R
<1>5. P(sum)
  BY <1>2, <1>3
<1>6. Sums(Terms(s))[Len(s)] \in Int
  BY <1>1, SumsDef DEF IsSums
<1> QED  BY <1>2, <1>3, <1>4, <1>5, <1>6

(* Sums and totals of natural numbers are natural numbers.                 *)
LEMMA TotalNat ==
    ASSUME NEW s \in Seq(Nat)
    PROVE  Total(s) \in Nat
<1> DEFINE I == {n \in Nat : Sums(Terms(s))[n] >= 0}
<1>1. s \in Seq(Int) /\ Len(s) \in Nat
  OBVIOUS
<1>2. IsSums(Sums(Terms(s)), Terms(s))
  BY <1>1, SumsDef, TermsAre
<1>3. 0 \in I
  BY <1>2 DEF IsSums
<1>4. ASSUME NEW n \in I PROVE n + 1 \in I
  <2>1. n \in Nat /\ n + 1 \in Nat /\ Sums(Terms(s))[n] >= 0
    OBVIOUS
  <2>2. Terms(s)[n + 1] \in Nat
    BY <2>1 DEF Terms
  <2>3. Sums(Terms(s))[n + 1] = Sums(Terms(s))[n] + Terms(s)[n + 1] /\ Sums(Terms(s))[n] \in Int
    BY <1>2, <2>1 DEF IsSums
  <2>4. Sums(Terms(s))[n + 1] >= 0
    BY <2>1, <2>2, <2>3
  <2> QED  BY <2>1, <2>4
<1>5. I = Nat
  <2>1. I \subseteq Nat
    OBVIOUS
  <2> HIDE DEF I
  <2> QED  BY <1>3, <1>4, <2>1, Induction
<1> QED  BY <1>1, <1>5, TotalIs

LEMMA TotalConcat ==
    ASSUME NEW s \in Seq(Int), NEW t \in Seq(Int)
    PROVE  Total(s \o t) = Total(s) + Total(t)
<1> DEFINE u == s \o t
           I == {k \in Nat : k \in 0..Len(t) =>
                  Sums(Terms(u))[Len(s) + k] = Sums(Terms(s))[Len(s)] + Sums(Terms(t))[k]}
<1>1. /\ u \in Seq(Int) /\ Len(s) \in Nat /\ Len(t) \in Nat /\ Len(u) = Len(s) + Len(t)
      /\ \A k \in 1..Len(s) : u[k] = s[k]
      /\ \A k \in 1..Len(t) : u[Len(s) + k] = t[k]
  OBVIOUS
<1> HIDE DEF u
<1>2. /\ IsSums(Sums(Terms(s)), Terms(s)) /\ IsSums(Sums(Terms(t)), Terms(t))
      /\ IsSums(Sums(Terms(u)), Terms(u))
  BY <1>1, SumsDef, TermsAre
<1>3. 0 \in I
  <2>1. \A k \in 1..Len(s) : Terms(u)[k] = Terms(s)[k]
    BY <1>1 DEF Terms
  <2>2. Sums(Terms(u))[Len(s)] = Sums(Terms(s))[Len(s)]
    BY <1>1, <2>1, SumsAgree, TermsAre
  <2> QED  BY <1>1, <1>2, <2>2 DEF IsSums
<1>4. ASSUME NEW k \in I PROVE k + 1 \in I
  <2> SUFFICES ASSUME k + 1 \in 0..Len(t)
               PROVE  Sums(Terms(u))[Len(s) + (k + 1)]
                        = Sums(Terms(s))[Len(s)] + Sums(Terms(t))[k + 1]
    OBVIOUS
  <2>1. /\ k \in 0..Len(t) /\ Len(s) + k \in Nat /\ Len(s) + (k + 1) = Len(s) + k + 1
        /\ k + 1 \in 1..Len(t) /\ Len(s) + k + 1 \in 1..Len(u)
    BY <1>1, SMTT(20)
  <2>2. Terms(u)[Len(s) + k + 1] = t[k + 1] /\ Terms(t)[k + 1] = t[k + 1]
    <3>1. u[Len(s) + (k + 1)] = t[k + 1]
      BY <1>1, <2>1
    <3>2. Terms(u)[Len(s) + k + 1] = u[Len(s) + k + 1]
      BY <1>1, <2>1, TermsAre
    <3>3. Terms(t)[k + 1] = t[k + 1]
      BY <2>1, TermsAre
    <3> QED  BY <2>1, <3>1, <3>2, <3>3
  <2>3. Sums(Terms(u))[Len(s) + k + 1] = Sums(Terms(u))[Len(s) + k] + t[k + 1]
    BY <1>2, <2>1, <2>2 DEF IsSums
  <2>4. Sums(Terms(t))[k + 1] = Sums(Terms(t))[k] + t[k + 1]
    BY <1>2, <2>1, <2>2 DEF IsSums
  <2>5. /\ Sums(Terms(t))[k] \in Int /\ Sums(Terms(s))[Len(s)] \in Int /\ t[k + 1] \in Int
    BY <1>1, <1>2, <2>1 DEF IsSums
  <2>6. Sums(Terms(u))[Len(s) + k] = Sums(Terms(s))[Len(s)] + Sums(Terms(t))[k]
    BY <2>1
  <2> HIDE DEF I
  <2> QED  BY <2>1, <2>3, <2>4, <2>5, <2>6
<1>5. I = Nat
  <2>1. I \subseteq Nat
    OBVIOUS
  <2> HIDE DEF I
  <2> QED  BY <1>3, <1>4, <2>1, Induction
<1>6. Total(u) = Sums(Terms(u))[Len(s) + Len(t)]
  BY <1>1, TotalIs
<1>7. Total(s) = Sums(Terms(s))[Len(s)] /\ Total(t) = Sums(Terms(t))[Len(t)]
  BY TotalIs
<1>8. Len(t) \in Nat /\ Len(t) \in 0..Len(t) /\ Len(t) \in I
  BY <1>1, <1>5
<1> QED  BY <1>6, <1>7, <1>8 DEF u

-----------------------------------------------------------------------------
(* What FlattenSeq makes of a sequence of sequences.                       *)

(* The concatenation of the first ones, for each number up to n.           *)
Joins(f, ss, n) ==
    \A i \in 1..n : f[i] = IF i = 1 THEN ss[i] ELSE f[i - 1] \o ss[i]

LEMMA JoinsAt ==
    ASSUME NEW f, NEW ss, NEW n \in Nat, Joins(f, ss, n), NEW k \in Nat, k + 1 \in 1..n
    PROVE  f[k + 1] = IF k = 0 THEN ss[k + 1] ELSE f[k] \o ss[k + 1]
<1>1. k + 1 - 1 = k /\ (k + 1 = 1 <=> k = 0)
  OBVIOUS
<1>2. PICK i \in 1..n : i = k + 1
  OBVIOUS
<1>3. f[i] = IF i = 1 THEN ss[i] ELSE f[i - 1] \o ss[i]
  BY Zenon DEF Joins
<1>4. i - 1 = k
  BY <1>2
<1> QED  BY <1>1, <1>2, <1>3, <1>4

LEMMA JoinsExist ==
    ASSUME NEW S, NEW ss \in Seq(Seq(S)), NEW n \in Nat, n <= Len(ss)
    PROVE  \E f \in [1..n -> Seq(S)] : Joins(f, ss, n)
<1> DEFINE Exists(k) == \E f \in [1..k -> Seq(S)] : Joins(f, ss, k)
           I == {k \in Nat : k <= n => Exists(k)}
<1>1. Exists(0)
  <2>1. [i \in 1..0 |-> <<>>] \in [1..0 -> Seq(S)] /\ Joins([i \in 1..0 |-> <<>>], ss, 0)
    BY DEF Joins
  <2> QED  BY <2>1
<1>2. ASSUME NEW k \in Nat, Exists(k), k + 1 <= n PROVE Exists(k + 1)
  <2>1. PICK f \in [1..k -> Seq(S)] : Joins(f, ss, k)
    BY <1>2
  <2>2. ss[k + 1] \in Seq(S)
    BY <1>2
  <2> DEFINE last == IF k = 0 THEN ss[k + 1] ELSE f[k] \o ss[k + 1]
             h == [i \in 1..(k + 1) |-> IF i <= k THEN f[i] ELSE last]
  <2>3. last \in Seq(S)
    BY <2>2
  <2>4. h \in [1..(k + 1) -> Seq(S)]
    <3> HIDE DEF last
    <3> QED  BY <2>3
  <2>5. ASSUME NEW i \in 1..(k + 1)
        PROVE  h[i] = IF i = 1 THEN ss[i] ELSE h[i - 1] \o ss[i]
    <3>1. CASE i <= k
      <4>1. i \in 1..k /\ (i # 1 => i - 1 \in 1..k /\ i - 1 \in 1..(k + 1) /\ i - 1 <= k)
        BY <3>1
      <4>2. h[i] = f[i] /\ (i # 1 => h[i - 1] = f[i - 1])
        BY <4>1
      <4>3. f[i] = IF i = 1 THEN ss[i] ELSE f[i - 1] \o ss[i]
        BY <2>1, <4>1 DEF Joins
      <4> HIDE DEF h
      <4> QED  BY <4>2, <4>3
    <3>2. CASE i = k + 1
      <4>1. h[k + 1] = last /\ (k # 0 => h[k] = f[k])
        OBVIOUS
      <4>2. i - 1 = k /\ (i = 1 <=> k = 0)
        BY <3>2
      <4> HIDE DEF h
      <4> QED  BY <3>2, <4>1, <4>2
    <3> QED  BY <3>1, <3>2
  <2> HIDE DEF h
  <2>6. Joins(h, ss, k + 1)
    BY <2>5 DEF Joins
  <2> QED  BY <2>4, <2>6
<1> HIDE DEF Exists
<1>3. I = Nat
  <2>1. I \subseteq Nat /\ 0 \in I /\ \A k \in I : k + 1 \in I
    BY <1>1, <1>2
  <2> HIDE DEF I
  <2> QED  BY <2>1, Induction
<1>4. Exists(n)
  BY <1>3
<1> QED  BY <1>4 DEF Exists

(* Where the elements of a concatenation are.                              *)
LEMMA Glue ==
    ASSUME NEW S, NEW a \in Seq(S), NEW b \in Seq(S)
    PROVE  /\ a \o b \in Seq(S) /\ Len(a \o b) = Len(a) + Len(b)
           /\ \A i \in 1..Len(a) : (a \o b)[i] = a[i]
           /\ \A i \in 1..Len(b) : (a \o b)[Len(a) + i] = b[i]
  OBVIOUS

LEMMA FlattenJoins ==
    ASSUME NEW S, NEW ss \in Seq(Seq(S)), ss # <<>>
    PROVE  \E f \in [1..Len(ss) -> Seq(S)] :
             Joins(f, ss, Len(ss)) /\ FlattenSeq(ss) = f[Len(ss)]
<1> DEFINE n == Len(ss)
           P(f) == f = [i \in 1..n |-> IF i = 1 THEN ss[i] ELSE f[i - 1] \o ss[i]]
           flat == CHOOSE f : P(f)
<1>1. n \in Nat /\ n # 0
  OBVIOUS
<1>2. \E f : P(f)
  <2>1. \E f \in [1..n -> Seq(S)] : Joins(f, ss, n)
    <3>1. n = Len(ss)
      OBVIOUS
    <3> HIDE DEF n
    <3> QED  BY <1>1, <3>1, JoinsExist
  <2>2. PICK f \in [1..n -> Seq(S)] : Joins(f, ss, n)
    BY <2>1
  <2>3. P(f)
    BY <2>2 DEF Joins
  <2> QED  BY <2>3
<1>3. FlattenSeq(ss) = flat[n]
  BY <1>1 DEF FlattenSeq
<1>4. P(flat)
  <2> HIDE DEF P
  <2> QED  BY <1>2
<1> HIDE DEF flat, n
<1>5. Joins(flat, ss, n) /\ DOMAIN flat = 1..n
  BY <1>4 DEF Joins
<1> DEFINE I == {k \in Nat : k \in 1..n => flat[k] \in Seq(S)}
<1>6. 0 \in I
  OBVIOUS
<1>7. ASSUME NEW k \in I PROVE k + 1 \in I
  <2> SUFFICES ASSUME k + 1 \in 1..n PROVE flat[k + 1] \in Seq(S)
    OBVIOUS
  <2>1. k \in Nat /\ ss[k + 1] \in Seq(S) /\ (k # 0 => flat[k] \in Seq(S))
    BY DEF n
  <2> HIDE DEF I
  <2>2. flat[k + 1] = IF k = 0 THEN ss[k + 1] ELSE flat[k] \o ss[k + 1]
    BY <1>1, <1>5, <2>1, JoinsAt, SMTT(20)
  <2>3. CASE k = 0
    BY <2>1, <2>2, <2>3
  <2>4. CASE k # 0
    <3>1. flat[k] \o ss[k + 1] \in Seq(S)
      BY <2>1, <2>4, Glue
    <3> QED  BY <2>2, <2>4, <3>1
  <2> QED  BY <2>3, <2>4
<1>8. I = Nat
  <2>1. I \subseteq Nat
    OBVIOUS
  <2> HIDE DEF I
  <2> QED  BY <1>6, <1>7, <2>1, Induction
<1>9. \A k \in 1..n : flat[k] \in Seq(S)
  BY <1>8
<1>10. flat \in [1..n -> Seq(S)]
  BY <1>4, <1>9
<1> QED  BY <1>3, <1>5, <1>10 DEF n

LEMMA FlattenType ==
    ASSUME NEW S, NEW ss \in Seq(Seq(S))
    PROVE  FlattenSeq(ss) \in Seq(S)
<1>1. CASE ss = <<>>
  BY <1>1 DEF FlattenSeq
<1>2. CASE ss # <<>>
  <2>1. PICK f \in [1..Len(ss) -> Seq(S)] : FlattenSeq(ss) = f[Len(ss)]
    BY <1>2, FlattenJoins
  <2>2. Len(ss) \in 1..Len(ss)
    BY <1>2
  <2> QED  BY <2>1, <2>2
<1> QED  BY <1>1, <1>2

(* The bytes of items are those of their parts.                            *)
Sized(S) == \A x \in S : x.length \in Int

LEMMA LengthsOf ==
    ASSUME NEW S, Sized(S), NEW s \in Seq(S)
    PROVE  /\ [i \in DOMAIN s |-> s[i].length] \in Seq(Int)
           /\ Len([i \in DOMAIN s |-> s[i].length]) = Len(s)
           /\ WireBytes(s) \in Int
<1>1. /\ [i \in DOMAIN s |-> s[i].length] \in Seq(Int)
      /\ Len([i \in DOMAIN s |-> s[i].length]) = Len(s)
  <2>1. [i \in 1..Len(s) |-> s[i].length] \in [1..Len(s) -> Int]
    BY DEF Sized
  <2> QED  BY <2>1
<1> QED  BY <1>1, TotalIs DEF WireBytes

LEMMA SameElements ==
    ASSUME NEW S, NEW a \in Seq(S), NEW b \in Seq(S), Len(a) = Len(b),
           \A i \in 1..Len(b) : b[i] = a[i]
    PROVE  b = a
  OBVIOUS

LEMMA BytesConcat ==
    ASSUME NEW S, Sized(S), NEW s \in Seq(S), NEW t \in Seq(S)
    PROVE  WireBytes(s \o t) = WireBytes(s) + WireBytes(t)
<1> DEFINE a == [i \in DOMAIN s |-> s[i].length]
           b == [i \in DOMAIN t |-> t[i].length]
           c == [i \in DOMAIN (s \o t) |-> (s \o t)[i].length]
<1>1. /\ a \in Seq(Int) /\ b \in Seq(Int) /\ c \in Seq(Int) /\ s \o t \in Seq(S)
      /\ Len(a) = Len(s) /\ Len(b) = Len(t) /\ Len(c) = Len(s \o t)
  BY LengthsOf
<1>2. c = a \o b
  <2>1. /\ Len(c) = Len(a) + Len(b) /\ a \o b \in Seq(Int) /\ Len(a \o b) = Len(a) + Len(b)
        /\ Len(a) \in Nat /\ Len(b) \in Nat
    <3>1. Len(s \o t) = Len(s) + Len(t)
      BY Glue
    <3>2. a \in Seq(Int) /\ b \in Seq(Int)
      BY <1>1
    <3>3. Len(c) = Len(a) + Len(b)
      <4> HIDE DEF a, b, c
      <4> QED  BY <1>1, <3>1
    <3> HIDE DEF a, b, c
    <3>4. a \o b \in Seq(Int) /\ Len(a \o b) = Len(a) + Len(b)
      BY <3>2, Glue
    <3>5. Len(a) \in Nat /\ Len(b) \in Nat
      BY <3>2
    <3> QED  BY <3>3, <3>4, <3>5
  <2>2. ASSUME NEW i \in 1..Len(a) PROVE c[i] = (a \o b)[i]
    <3>1. i \in DOMAIN s /\ (s \o t)[i] = s[i] /\ i \in DOMAIN (s \o t)
      BY <1>1, Glue
    <3>2. c[i] = a[i]
      BY <3>1
    <3> HIDE DEF a, b, c
    <3> QED  BY <1>1, <3>2, Glue
  <2>3. ASSUME NEW i \in 1..Len(b) PROVE c[Len(a) + i] = (a \o b)[Len(a) + i]
    <3> DEFINE k == Len(a) + i
    <3>1. i \in DOMAIN t /\ (s \o t)[k] = t[i]
      <4> HIDE DEF a, b, c
      <4>1. i \in 1..Len(t) /\ k = Len(s) + i
        BY <1>1
      <4> HIDE DEF k
      <4> QED  BY <4>1, Glue
    <3>2. k \in DOMAIN (s \o t)
      <4> HIDE DEF a, b, c
      <4> QED  BY <1>1, <2>1
    <3>3. c[k] = b[i]
      <4> HIDE DEF k
      <4> QED  BY <3>1, <3>2
    <3> HIDE DEF a, b, c
    <3>4. a \in Seq(Int) /\ b \in Seq(Int)
      BY <1>1
    <3>5. (a \o b)[k] = b[i]
      BY <3>4, Glue
    <3> QED  BY <3>3, <3>5, Zenon
  <2> HIDE DEF a, b, c
  <2>4. ASSUME NEW i \in 1..Len(c) PROVE c[i] = (a \o b)[i]
    <3>1. CASE i \in 1..Len(a)
      BY <2>2, <3>1
    <3>2. CASE i \notin 1..Len(a)
      <4>1. i - Len(a) \in 1..Len(b) /\ Len(a) + (i - Len(a)) = i
        BY <2>1, <3>2
      <4> QED  BY <2>3, <4>1
    <3> QED  BY <3>1, <3>2
  <2>5. c \in Seq(Int)
    BY <1>1
  <2>6. a \o b \in Seq(Int) /\ Len(a \o b) = Len(c)
    BY <2>1
  <2> QED  BY <2>4, <2>5, <2>6, SameElements
<1>3. WireBytes(s) = Total(a) /\ WireBytes(t) = Total(b) /\ WireBytes(s \o t) = Total(c)
  BY DEF WireBytes
<1> HIDE DEF a, b, c
<1> QED  BY <1>1, <1>2, <1>3, TotalConcat

LEMMA BytesFlatten ==
    ASSUME NEW S, Sized(S), NEW ss \in Seq(Seq(S))
    PROVE  /\ [k \in 1..Len(ss) |-> WireBytes(ss[k])] \in Seq(Int)
           /\ WireBytes(FlattenSeq(ss)) = Total([k \in 1..Len(ss) |-> WireBytes(ss[k])])
<1> DEFINE n == Len(ss)
           w == [k \in 1..n |-> WireBytes(ss[k])]
<1>1. w \in Seq(Int) /\ Len(w) = n /\ n \in Nat /\ \A k \in 1..n : w[k] = WireBytes(ss[k])
  <2>1. \A k \in 1..n : ss[k] \in Seq(S) /\ WireBytes(ss[k]) \in Int
    <3> SUFFICES ASSUME NEW k \in 1..n PROVE ss[k] \in Seq(S) /\ WireBytes(ss[k]) \in Int
      OBVIOUS
    <3>1. ss[k] \in Seq(S)
      OBVIOUS
    <3> QED  BY <3>1, LengthsOf
  <2>2. w \in [1..n -> Int] /\ n \in Nat
    BY <2>1
  <2> QED  BY <2>2
<1>2. IsSums(Sums(Terms(w)), Terms(w)) /\ Total(w) = Sums(Terms(w))[n]
  BY <1>1, SumsDef, TermsAre, TotalIs
<1>3. \A i \in 1..n : ss[i] \in Seq(S)
  OBVIOUS
<1>4. CASE ss = <<>>
  <2>1. n = 0 /\ FlattenSeq(ss) = <<>>
    BY <1>4 DEF FlattenSeq
  <2>2. [i \in DOMAIN <<>> |-> <<>>[i].length] \in Seq(Int) /\ Len([i \in DOMAIN <<>> |-> <<>>[i].length]) = 0
    BY LengthsOf
  <2>3. WireBytes(<<>>) = Sums(Terms([i \in DOMAIN <<>> |-> <<>>[i].length]))[0]
    BY <2>2, TotalIs DEF WireBytes
  <2>4. Sums(Terms([i \in DOMAIN <<>> |-> <<>>[i].length]))[0] = 0
    BY <2>2, SumsDef, TermsAre DEF IsSums
  <2>5. Sums(Terms(w))[0] = 0
    BY <1>2 DEF IsSums
  <2> HIDE DEF n, w
  <2>6. WireBytes(FlattenSeq(ss)) = Total(w)
    BY <1>2, <2>1, <2>3, <2>4, <2>5
  <2> QED  BY <1>1, <2>6 DEF w, n
<1>5. CASE ss # <<>>
  <2>1. PICK f \in [1..n -> Seq(S)] : Joins(f, ss, n) /\ FlattenSeq(ss) = f[n]
    BY <1>5, FlattenJoins
  <2> DEFINE I == {k \in Nat : k \in 1..n => WireBytes(f[k]) = Sums(Terms(w))[k]}
  <2>0. 0 \in I
    OBVIOUS
  <2> HIDE DEF n, w
  <2>2. \A i \in 1..n : ss[i] \in Seq(S) /\ f[i] \in Seq(S)
    BY <1>3
  <2>3. ASSUME NEW k \in I PROVE k + 1 \in I
    <3> SUFFICES ASSUME k + 1 \in 1..n PROVE WireBytes(f[k + 1]) = Sums(Terms(w))[k + 1]
      OBVIOUS
    <3>1. k \in Nat /\ k + 1 \in Nat /\ (k # 0 => WireBytes(f[k]) = Sums(Terms(w))[k] /\ k \in 1..n)
      BY <1>1
    <3> HIDE DEF I
    <3>2. ss[k + 1] \in Seq(S) /\ (k # 0 => f[k] \in Seq(S))
      BY <2>2, <3>1
    <3>3. f[k + 1] = IF k = 0 THEN ss[k + 1] ELSE f[k] \o ss[k + 1]
      <4>1. n \in Nat /\ Joins(f, ss, n) /\ k \in Nat /\ k + 1 \in 1..n
        BY <1>1, <2>1, <3>1
      <4> QED  BY <4>1, JoinsAt, ZenonT(40)
    <3>4. /\ Sums(Terms(w))[k + 1] = Sums(Terms(w))[k] + Terms(w)[k + 1]
          /\ Sums(Terms(w))[0] = 0
      BY <1>2, <3>1 DEF IsSums
    <3>5. Terms(w)[k + 1] = WireBytes(ss[k + 1]) /\ WireBytes(ss[k + 1]) \in Int
      BY <1>1, <3>2, TermsAre, LengthsOf
    <3>6. k # 0 => WireBytes(f[k] \o ss[k + 1]) = WireBytes(f[k]) + WireBytes(ss[k + 1])
      BY <3>2, BytesConcat
    <3> QED  BY <3>1, <3>3, <3>4, <3>5, <3>6
  <2>4. I = Nat
    <3>1. I \subseteq Nat
      OBVIOUS
    <3> HIDE DEF I
    <3> QED  BY <2>0, <2>3, <3>1, Induction
  <2>5. n \in Nat /\ n \in 1..n
    BY <1>1, <1>5 DEF n
  <2>6. n \in I
    BY <2>4, <2>5
  <2>7. WireBytes(f[n]) = Sums(Terms(w))[n]
    BY <2>5, <2>6
  <2>8. WireBytes(FlattenSeq(ss)) = Total(w)
    BY <1>2, <2>1, <2>7
  <2> QED  BY <1>1, <2>8 DEF w, n
<1> QED  BY <1>4, <1>5

-----------------------------------------------------------------------------
(* The values a message is built from.                                     *)

Given(type) == Samples(type) \cup {Least(type)}

Holds(d, x) ==
    /\ d.card = "one" => x \in Given(d.type)
    /\ d.card = "arm" => x = <<>> \/ \E y \in Given(d.type) : x = <<d.arm, y>>
    /\ d.card \notin {"one", "arm"} => x \in Seq(Given(d.type))

(* Every field has a value of the kind one of its declarations asks for.   *)
Built(m, v) ==
    /\ DOMAIN v = FieldsOf(m)
    /\ \A f \in FieldsOf(m) : \E d \in ToSet(Format[m].struct) : d.field = f /\ Holds(d, v[f])

LEMMA EmptyBuilt ==
    ASSUME NEW m
    PROVE  Built(m, Empty(m))
<1>1. ASSUME NEW f \in FieldsOf(m)
      PROVE  \E d \in ToSet(Format[m].struct) : d.field = f /\ Holds(d, Empty(m)[f])
  <2>1. DeclarationOf(m, f) \in ToSet(Format[m].struct) /\ DeclarationOf(m, f).field = f
    BY DEF DeclarationOf, FieldsOf
  <2>2. PICK d \in ToSet(Format[m].struct) : d = DeclarationOf(m, f) /\ d.field = f
    BY <2>1
  <2>3. Empty(m)[f] = ZeroOf(d)
    BY <2>2 DEF Empty
  <2>4. Holds(d, ZeroOf(d))
    BY DEF Holds, ZeroOf, Given, Least
  <2> QED  BY <2>2, <2>3, <2>4
<1> QED  BY <1>1 DEF Built, Empty

LEMMA FieldValuesHold ==
    ASSUME NEW d, NEW x \in FieldValues(d)
    PROVE  Holds(d, x)
<1>1. CASE d.card = "one"
  BY <1>1 DEF FieldValues, Holds, Given
<1>2. CASE d.card = "arm"
  BY <1>2 DEF FieldValues, Holds, Given
<1>3. CASE d.card \notin {"one", "arm"}
  <2>1. PICK y \in Samples(d.type) : x = <<y, Least(d.type)>>
    BY <1>3 DEF FieldValues
  <2> QED  BY <1>3, <2>1 DEF Holds, Given
<1> QED  BY <1>1, <1>2, <1>3

LEMMA SetBuilt ==
    ASSUME NEW m, NEW v, Built(m, v), NEW d \in ToSet(Format[m].struct),
           NEW x \in FieldValues(d)
    PROVE  Built(m, [v EXCEPT ![d.field] = x])
<1> DEFINE w == [v EXCEPT ![d.field] = x]
<1>1. d.field \in FieldsOf(m) /\ DOMAIN v = FieldsOf(m)
  BY DEF FieldsOf, Built
<1>2. DOMAIN w = FieldsOf(m) /\ w[d.field] = x /\ \A f \in FieldsOf(m) : f # d.field => w[f] = v[f]
  BY <1>1
<1>3. Holds(d, x)
  BY FieldValuesHold
<1> HIDE DEF w
<1>4. ASSUME NEW f \in FieldsOf(m)
      PROVE  \E c \in ToSet(Format[m].struct) : c.field = f /\ Holds(c, w[f])
  <2>1. CASE f = d.field
    BY <1>2, <1>3, <2>1
  <2>2. CASE f # d.field
    BY <1>2, <2>2 DEF Built
  <2> QED  BY <2>1, <2>2
<1>5. Built(m, w)
  BY <1>2, <1>4 DEF Built
<1> QED  BY <1>5 DEF w

-----------------------------------------------------------------------------
(* Size and MarshalToSizedBuffer.                                          *)

LEMMA SovNat ==
    ASSUME NEW x
    PROVE  Sov(x) \in Nat
<1>1. CASE x < 0
  BY <1>1 DEF Sov
<1>2. CASE ~ (x < 0)
  <2>1. CASE x \in 0..127
    BY <2>1 DEF Sov
  <2>2. CASE x \notin 0..127 /\ x \in 128..128 * 128 - 1
    BY <1>2, <2>2 DEF Sov
  <2>3. CASE x \notin 0..127 /\ x \notin 128..128 * 128 - 1
    BY <1>2, <2>3 DEF Sov
  <2> QED  BY <2>1, <2>2, <2>3
<1> QED  BY <1>1, <1>2

LEMMA DelimitedNat ==
    ASSUME NEW n \in Nat
    PROVE  Delimited(n) \in Nat
BY SovNat DEF Delimited

LEMMA BytesAre ==
    ASSUME NEW x
    PROVE  /\ Bytes("none", x) = 0 /\ Bytes("bool", x) = 1 /\ Bytes("fixed32", x) = 4
           /\ Bytes("fixed64", x) = 8 /\ Bytes("double", x) = 8
           /\ Bytes("varint", x) = Sov(x) /\ Bytes("zigzag", x) = Sov(ZigZag(x))
           /\ Bytes("bytes", x) = Delimited(x) /\ Bytes("message", x) = Delimited(Total(x))
           /\ \A type \in Ids : Bytes(type, x) = Delimited(IdSize(type, x))
BY DEF Bytes, Ids

(* A value takes a number of bytes in every encoding of its type.          *)
LEMMA BytesNat ==
    ASSUME NEW type, NEW encoded, <<type, encoded>> \in Encodings, NEW x \in Given(type)
    PROVE  Bytes(encoded, x) \in Nat /\ (encoded = "message" => x \in Seq(Nat))
<1>1. CASE type = "message"
  <2>1. encoded = "message"
    BY <1>1 DEF Encodings, Ids
  <2>2. x = <<>> \/ x = <<2>> \/ x = <<2, 130>>
    BY <1>1 DEF Given, Samples, Least
  <2>3. <<>> \in Seq(Nat) /\ <<2>> \in Seq(Nat) /\ <<2, 130>> \in Seq(Nat)
    OBVIOUS
  <2>4. x \in Seq(Nat)
    BY <2>2, <2>3
  <2>5. Bytes("message", x) \in Nat
    BY <2>4, TotalNat, DelimitedNat, BytesAre
  <2> QED  BY <2>1, <2>4, <2>5
<1>2. CASE type \in {"string", "bytes"}
  <2>1. encoded = "bytes"
    BY <1>2 DEF Encodings, Ids
  <2>2. x \in Nat
    BY <1>2 DEF Given, Samples, Least
  <2>3. Bytes("bytes", x) \in Nat
    BY <2>2, DelimitedNat, BytesAre
  <2> QED  BY <2>1, <2>3
<1>3. CASE type \in Ids
  <2>1. encoded = type /\ encoded \in Ids /\ encoded # "message"
    BY <1>3 DEF Encodings, Ids
  <2>2. IdSize(encoded, x) \in Nat
    BY DEF IdSize
  <2>3. Bytes(encoded, x) = Delimited(IdSize(encoded, x))
    BY <2>1, BytesAre
  <2> QED  BY <2>1, <2>2, <2>3, DelimitedNat
<1>4. CASE type \notin {"message", "string", "bytes"} \cup Ids
  <2>1. encoded \in {"varint", "zigzag", "bool", "fixed32", "fixed64", "double"}
    BY <1>4 DEF Encodings
  <2> QED  BY <2>1, BytesAre, SovNat
<1> QED  BY <1>1, <1>2, <1>3, <1>4

(* What a row of MarshalToSizedBuffer writes one item for: each of them    *)
(* has a length, and those that are sequences are written element by       *)
(* element.                                                                *)
Writable(row, x) ==
    /\ LengthOf(row, x) \in Nat
    /\ row.when = "packed" \/ row.type = "message" => \E T : x \in Seq(T)

LEMMA PackedNat ==
    ASSUME NEW type, NEW encoded, <<type, encoded>> \in Encodings, NEW s \in Seq(Given(type))
    PROVE  PackedBytes(encoded, s) \in Nat
<1> DEFINE b == [i \in DOMAIN s |-> Bytes(encoded, s[i])]
<1>1. \A i \in 1..Len(s) : Bytes(encoded, s[i]) \in Nat
  BY BytesNat
<1>2. b \in Seq(Nat)
  <2>1. DOMAIN s = 1..Len(s) /\ Len(s) \in Nat
    OBVIOUS
  <2>2. b \in [1..Len(s) -> Nat]
    BY <1>1, <2>1
  <2> HIDE DEF b
  <2> QED  BY <2>1, <2>2
<1> QED  BY <1>2, TotalNat, DelimitedNat DEF PackedBytes

LEMMA OccurrencesWritable ==
    ASSUME NEW m \in DOMAIN Format, NEW v, Built(m, v), NEW row \in ToSet(Format[m].writes)
    PROVE  \E S : /\ Occurrences(row, v[row.field]) \in Seq(S)
                  /\ \A x \in S : Writable(row, x)
<1> DEFINE y == v[row.field]
<1>1. PICK d \in ToSet(Format[m].struct) : d.field = row.field /\ Holds(d, y)
  BY WritesAssumption DEF Built
<1>2. /\ <<d.card, row.when>> \in Ways
      /\ d.card # "arm" \/ d.arm = row.arm => <<d.type, row.type>> \in Encodings
  BY <1>1, WritesAssumption
<1> HIDE DEF y
<1>3. CASE d.card = "one"
  <2>1. y \in Given(d.type) /\ row.when \in {"always", "nonzero"}
    BY <1>1, <1>2, <1>3 DEF Holds, Ways
  <2>2. Occurrences(row, y) \in {<<>>, <<y>>} /\ LengthOf(row, y) = Bytes(row.type, y)
    BY <2>1 DEF Occurrences, LengthOf
  <2>3. Writable(row, y)
    BY <1>2, <1>3, <2>1, <2>2, BytesNat DEF Writable
  <2>4. Occurrences(row, y) \in Seq({y}) /\ \A x \in {y} : Writable(row, x)
    <3>1. <<>> \in Seq({y}) /\ <<y>> \in Seq({y})
      OBVIOUS
    <3> QED  BY <2>2, <2>3, <3>1
  <2> QED  BY <2>4 DEF y
<1>4. CASE d.card = "many"
  <2>1. y \in Seq(Given(d.type)) /\ row.when = "each"
    BY <1>1, <1>2, <1>4 DEF Holds, Ways
  <2>2. Occurrences(row, y) = y
    BY <2>1 DEF Occurrences
  <2>3. ASSUME NEW x \in Given(d.type) PROVE Writable(row, x)
    <3>1. LengthOf(row, x) = Bytes(row.type, x)
      BY <2>1 DEF LengthOf
    <3> QED  BY <1>2, <1>4, <2>1, <3>1, BytesNat DEF Writable
  <2> QED  BY <2>1, <2>2, <2>3 DEF y
<1>5. CASE d.card = "packed"
  <2>1. y \in Seq(Given(d.type)) /\ row.when = "packed"
    BY <1>1, <1>2, <1>5 DEF Holds, Ways
  <2>2. Occurrences(row, y) \in {<<>>, <<y>>} /\ LengthOf(row, y) = PackedBytes(row.type, y)
    BY <2>1 DEF Occurrences, LengthOf
  <2>3. Writable(row, y)
    BY <1>2, <1>5, <2>1, <2>2, PackedNat DEF Writable
  <2>4. Occurrences(row, y) \in Seq({y}) /\ \A x \in {y} : Writable(row, x)
    <3>1. <<>> \in Seq({y}) /\ <<y>> \in Seq({y})
      OBVIOUS
    <3> QED  BY <2>2, <2>3, <3>1
  <2> QED  BY <2>4 DEF y
<1>6. CASE d.card = "arm"
  <2>1. row.when = "chosen" /\ (y = <<>> \/ \E z \in Given(d.type) : y = <<d.arm, z>>)
    BY <1>1, <1>2, <1>6 DEF Holds, Ways
  <2>2. Occurrences(row, y) = IF y # <<>> /\ y[1] = row.arm THEN <<y[2]>> ELSE <<>>
    BY <2>1 DEF Occurrences
  <2>3. CASE y # <<>> /\ d.arm = row.arm
    <3>1. PICK z \in Given(d.type) : y = <<d.arm, z>>
      BY <2>1, <2>3
    <3>2. Occurrences(row, y) = <<z>> /\ LengthOf(row, z) = Bytes(row.type, z)
      BY <2>1, <2>2, <2>3, <3>1 DEF LengthOf
    <3>3. Writable(row, z)
      BY <1>2, <2>1, <2>3, <3>2, BytesNat DEF Writable
    <3>4. Occurrences(row, y) \in Seq({z}) /\ \A x \in {z} : Writable(row, x)
      BY <3>2, <3>3
    <3> QED  BY <3>4 DEF y
  <2>4. CASE ~ (y # <<>> /\ d.arm = row.arm)
    <3>1. Occurrences(row, y) = <<>>
      BY <2>1, <2>2, <2>4
    <3>2. Occurrences(row, y) \in Seq({}) /\ \A x \in {} : Writable(row, x)
      BY <3>1
    <3> QED  BY <3>2 DEF y
  <2> QED  BY <2>3, <2>4
<1> QED  BY <1>2, <1>3, <1>4, <1>5, <1>6 DEF Ways

(* An item has all its parts, and its payload is a sequence.               *)
IsItem(x) ==
    {"number", "wire", "payload", "whole"} \subseteq DOMAIN x /\ \E T : x.payload \in Seq(T)

LEMMA EncodeEachSeq ==
    ASSUME NEW type, NEW T, NEW s \in Seq(T)
    PROVE  \E U : EncodeEach(type, s) \in Seq(U)
<1> DEFINE U == {EncodeEach(type, s)[i] : i \in 1..Len(s)}
<1>1. DOMAIN s = 1..Len(s) /\ Len(s) \in Nat
  OBVIOUS
<1>2. EncodeEach(type, s) = [i \in 1..Len(s) |-> EncodeEach(type, s)[i]]
  BY <1>1 DEF EncodeEach
<1>3. EncodeEach(type, s) \in [1..Len(s) -> U]
  BY <1>2
<1> HIDE DEF U
<1>4. EncodeEach(type, s) \in Seq(U)
  BY <1>1, <1>3
<1> QED  BY <1>4

LEMMA WrittenItem ==
    ASSUME NEW row, NEW x, Writable(row, x)
    PROVE  /\ IsItem(Written(row, x))
           /\ Written(row, x).length = Sov(row.tag) + LengthOf(row, x)
           /\ Written(row, x).length \in Nat
<1>1. \E T : Written(row, x).payload \in Seq(T)
  <2>1. Written(row, x).payload =
          IF row.when = "packed" THEN EncodeEach(row.type, x) ELSE Encode(row.type, x)
    BY DEF Written, Item
  <2>2. CASE row.when = "packed"
    BY <2>1, <2>2, EncodeEachSeq DEF Writable
  <2>3. CASE row.when # "packed" /\ row.type = "message"
    BY <2>1, <2>3 DEF Writable, Encode
  <2>4. CASE row.when # "packed" /\ row.type # "message"
    <3>1. <<x>> \in Seq({x})
      OBVIOUS
    <3>2. \E U : EncodeEach(row.type, <<x>>) \in Seq(U)
      BY <3>1, EncodeEachSeq
    <3> QED  BY <2>1, <2>4, <3>2 DEF Encode
  <2> QED  BY <2>2, <2>3, <2>4
<1>2. Written(row, x).length = Sov(row.tag) + LengthOf(row, x)
  BY DEF Written, Item
<1>3. Sov(row.tag) \in Nat /\ LengthOf(row, x) \in Nat
  BY SovNat DEF Writable
<1>4. {"number", "wire", "payload", "whole"} \subseteq DOMAIN Written(row, x)
  BY DEF Written, Item
<1> QED  BY <1>1, <1>2, <1>3, <1>4 DEF IsItem

(* The items of each row.                                                  *)
Block(row, y) ==
    [i \in DOMAIN Occurrences(row, y) |-> Written(row, Occurrences(row, y)[i])]

Blocks(writes, v) == [k \in DOMAIN writes |-> Block(writes[k], v[writes[k].field])]

(* The items one may find in them.                                         *)
Items(writes, v) ==
    {x \in UNION {{Block(writes[k], v[writes[k].field])[i] : i \in Nat} : k \in DOMAIN writes} :
       IsItem(x) /\ x.length \in Nat}

LEMMA MarshalFlattens ==
    ASSUME NEW writes, NEW v
    PROVE  MarshalToSizedBuffer(writes, v) = FlattenSeq(Blocks(writes, v))
BY DEF MarshalToSizedBuffer, Blocks, Block

LEMMA BlocksAreItems ==
    ASSUME NEW m \in DOMAIN Format, NEW v, Built(m, v)
    PROVE  /\ Blocks(Format[m].writes, v) \in Seq(Seq(Items(Format[m].writes, v)))
           /\ Len(Blocks(Format[m].writes, v)) = Len(Format[m].writes)
<1> DEFINE writes == Format[m].writes
           n == Len(writes)
<1>1. writes \in Seq(ToSet(writes)) /\ n \in Nat /\ DOMAIN writes = 1..n
  BY WritesAssumption
<1>2. ASSUME NEW k \in 1..n PROVE Blocks(writes, v)[k] \in Seq(Items(writes, v))
  <2> DEFINE row == writes[k]
             xs == Occurrences(row, v[row.field])
  <2>1. row \in ToSet(writes) /\ k \in DOMAIN writes
    BY <1>1 DEF ToSet
  <2>2. Blocks(writes, v)[k] = Block(row, v[row.field])
    BY <2>1 DEF Blocks
  <2>3. PICK S : xs \in Seq(S) /\ \A x \in S : Writable(row, x)
    BY <2>1, OccurrencesWritable
  <2>4. DOMAIN xs = 1..Len(xs) /\ Len(xs) \in Nat /\ \A i \in 1..Len(xs) : Writable(row, xs[i])
    BY <2>3
  <2>5. Block(row, v[row.field]) = [i \in 1..Len(xs) |-> Written(row, xs[i])]
    BY <2>4 DEF Block
  <2>6. ASSUME NEW i \in 1..Len(xs)
        PROVE  Block(row, v[row.field])[i] \in Items(writes, v)
    <3>1. Block(row, v[row.field])[i] = Written(row, xs[i]) /\ i \in Nat
      BY <2>5
    <3>2. IsItem(Written(row, xs[i])) /\ Written(row, xs[i]).length \in Nat
      BY <2>4, WrittenItem
    <3> HIDE DEF row, xs
    <3>3. Block(row, v[row.field])[i] \in
            UNION {{Block(writes[l], v[writes[l].field])[j] : j \in Nat} : l \in DOMAIN writes}
      BY <2>1, <3>1 DEF row
    <3> QED  BY <3>1, <3>2, <3>3 DEF Items
  <2> HIDE DEF row, xs
  <2>7. Block(row, v[row.field]) \in [1..Len(xs) -> Items(writes, v)]
    BY <2>5, <2>6
  <2> QED  BY <2>2, <2>4, <2>7
<1>3. Blocks(writes, v) \in [1..n -> Seq(Items(writes, v))]
  BY <1>1, <1>2 DEF Blocks
<1> HIDE DEF writes, n
<1>4. Blocks(writes, v) \in Seq(Seq(Items(writes, v))) /\ Len(Blocks(writes, v)) = n
  BY <1>1, <1>3
<1> QED  BY <1>4 DEF writes, n

(* What is marshalled is a sequence of items.                              *)
LEMMA MarshalItems ==
    ASSUME NEW m \in DOMAIN Format, NEW v, Built(m, v)
    PROVE  /\ MarshalToSizedBuffer(Format[m].writes, v) \in Seq(Items(Format[m].writes, v))
           /\ Sized(Items(Format[m].writes, v))
<1>1. Sized(Items(Format[m].writes, v))
  BY DEF Sized, Items
<1> QED  BY <1>1, BlocksAreItems, FlattenType, MarshalFlattens

(* Rows that count and write the same field the same way.                  *)
LEMMA SameLength ==
    ASSUME NEW s, NEW w, Counts(s, w), NEW x
    PROVE  s.bytes + LengthOf(s, x) = Sov(w.tag) + LengthOf(w, x)
<1>1. CASE s.bytes = Sov(w.tag) /\ s.type = w.type
  BY <1>1 DEF Counts, LengthOf
<1>2. CASE s.bytes = Sov(w.tag) /\ {s.type, w.type} \subseteq {"fixed64", "double"}
  <2>1. \A y : Bytes(s.type, y) = 8 /\ Bytes(w.type, y) = 8
    BY <1>2, BytesAre
  <2>2. PackedBytes(s.type, x) = PackedBytes(w.type, x)
    BY <2>1 DEF PackedBytes
  <2> QED  BY <1>2, <2>1, <2>2 DEF Counts, LengthOf
<1>3. CASE /\ s.bytes = Sov(w.tag) + Bytes(w.type, 0)
           /\ s.type = "none" /\ w.type \in Fixed /\ w.when # "packed"
  <2>1. Bytes(w.type, x) = Bytes(w.type, 0) /\ Bytes(w.type, 0) \in Nat
    BY <1>3, BytesAre DEF Fixed
  <2>2. LengthOf(s, x) = 0 /\ LengthOf(w, x) = Bytes(w.type, x)
    BY <1>3, BytesAre DEF Counts, LengthOf
  <2>3. Sov(w.tag) \in Nat
    BY SovNat
  <2> QED  BY <1>3, <2>1, <2>2, <2>3
<1> QED  BY <1>1, <1>2, <1>3 DEF Counts

(* What a row of Size adds.                                                *)
Adds(row, y) ==
    Total([i \in DOMAIN Occurrences(row, y) |-> row.bytes + LengthOf(row, Occurrences(row, y)[i])])

LEMMA SizeAdds ==
    ASSUME NEW sizes, NEW v
    PROVE  Size(sizes, v) = Total([k \in DOMAIN sizes |-> Adds(sizes[k], v[sizes[k].field])])
BY DEF Size, Adds

LEMMA RowsAgree ==
    ASSUME NEW m \in DOMAIN Format, NEW v, Built(m, v),
           NEW s, NEW w \in ToSet(Format[m].writes), Counts(s, w)
    PROVE  Adds(s, v[s.field]) = WireBytes(Block(w, v[w.field]))
<1> DEFINE y == v[w.field]
           xs == Occurrences(w, y)
<1>1. s.field = w.field /\ Occurrences(s, y) = xs
  BY DEF Counts, Occurrences
<1>2. PICK S : xs \in Seq(S) /\ \A x \in S : Writable(w, x)
  BY OccurrencesWritable
<1>3. DOMAIN Block(w, y) = DOMAIN xs
  BY DEF Block
<1>4. ASSUME NEW i \in DOMAIN xs
      PROVE  s.bytes + LengthOf(s, xs[i]) = Block(w, y)[i].length
  <2>1. Writable(w, xs[i])
    BY <1>2
  <2>2. Block(w, y)[i] = Written(w, xs[i])
    BY DEF Block
  <2> QED  BY <2>1, <2>2, SameLength, WrittenItem
<1>5. [i \in DOMAIN xs |-> s.bytes + LengthOf(s, xs[i])]
        = [i \in DOMAIN Block(w, y) |-> Block(w, y)[i].length]
  BY <1>3, <1>4
<1>6. Adds(s, y) = Total([i \in DOMAIN xs |-> s.bytes + LengthOf(s, xs[i])])
  BY <1>1 DEF Adds
<1> QED  BY <1>1, <1>5, <1>6 DEF WireBytes

(* Size is the length of what MarshalToSizedBuffer writes.                 *)
LEMMA SizeOfMarshalled ==
    ASSUME NEW m \in DOMAIN Format, NEW v, Built(m, v)
    PROVE  /\ Size(Format[m].sizes, v) = WireBytes(MarshalToSizedBuffer(Format[m].writes, v))
           /\ Size(Format[m].sizes, v) \in Nat
<1> DEFINE sizes == Format[m].sizes
           writes == Format[m].writes
           n == Len(writes)
           ss == Blocks(writes, v)
           S == Items(writes, v)
           a == [k \in 1..n |-> Adds(sizes[k], v[sizes[k].field])]
           b == [k \in 1..n |-> WireBytes(ss[k])]
           p == [k \in 1..n |-> CHOOSE j \in 1..n : Counts(sizes[k], writes[j])]
<1>1. /\ n \in Nat /\ DOMAIN writes = 1..n /\ DOMAIN sizes = 1..n
      /\ writes \in Seq(ToSet(writes))
  BY WritesAssumption, SizesAssumption
<1>2. /\ \A k \in 1..n : \E j \in 1..n : Counts(sizes[k], writes[j])
      /\ \A k, l \in 1..n :
           sizes[k].field = sizes[l].field /\ sizes[k].arm = sizes[l].arm => k = l
  BY <1>1, SizesAssumption
<1>3. ss \in Seq(Seq(S)) /\ Sized(S) /\ Len(ss) = n
  BY BlocksAreItems, MarshalItems
<1>4. /\ b \in Seq(Int) /\ Len(b) = n
      /\ WireBytes(MarshalToSizedBuffer(writes, v)) = Total(b)
  <2>1. b \in Seq(Int) /\ WireBytes(FlattenSeq(ss)) = Total(b)
    BY <1>3, BytesFlatten
  <2>2. Len(b) = n
    BY <1>1
  <2> QED  BY <2>1, <2>2, MarshalFlattens
<1>5. \A k \in 1..n : p[k] \in 1..n /\ Counts(sizes[k], writes[p[k]])
  BY <1>2
<1>6. ASSUME NEW k \in 1..n PROVE a[k] = b[p[k]]
  <2>1. p[k] \in 1..n /\ Counts(sizes[k], writes[p[k]])
    BY <1>5
  <2> DEFINE w == writes[p[k]]
  <2>2. w \in ToSet(writes)
    BY <1>1, <2>1 DEF ToSet
  <2>3. b[p[k]] = WireBytes(Block(w, v[w.field]))
    BY <1>1, <2>1 DEF Blocks
  <2>4. Adds(sizes[k], v[sizes[k].field]) = WireBytes(Block(w, v[w.field]))
    <3> HIDE DEF p
    <3> QED  BY <2>1, <2>2, RowsAgree
  <2> QED  BY <2>3, <2>4
<1>7. ASSUME NEW k \in 1..n, NEW l \in 1..n, p[k] = p[l] PROVE k = l
  <2>1. Counts(sizes[k], writes[p[k]]) /\ Counts(sizes[l], writes[p[k]])
    BY <1>5, <1>7
  <2> HIDE DEF p
  <2>2. sizes[k].field = sizes[l].field /\ sizes[k].arm = sizes[l].arm
    BY <2>1 DEF Counts
  <2> QED  BY <1>2, <2>2
<1>8. a \in Seq(Int) /\ Len(a) = n
  <2>1. \A j \in 1..n : b[j] \in Int
    <3> HIDE DEF b
    <3> QED  BY <1>4
  <2>2. \A k \in 1..n : a[k] \in Int
    <3> HIDE DEF a, b, p
    <3> QED  BY <1>5, <1>6, <2>1
  <2>3. a \in [1..n -> Int]
    BY <2>2
  <2> HIDE DEF a, n
  <2> QED  BY <1>1, <2>3
<1>9. p \in [1..n -> 1..n]
  BY <1>5
<1> HIDE DEF a, b, p, n
<1>10. Permutes(Terms(a), Terms(b), p, n)
  <2>1. \A i \in 1..n : Terms(a)[i] = a[i] /\ Terms(b)[i] = b[i]
    BY <1>4, <1>8, TermsAre
  <2>2. \A i \in 1..n : Terms(a)[i] = Terms(b)[p[i]]
    BY <1>5, <1>6, <2>1
  <2> QED  BY <1>7, <1>9, <2>2 DEF Permutes
<1>11. Total(a) = Total(b)
  <2>1. Sums(Terms(a))[n] = Sums(Terms(b))[n]
    BY <1>1, <1>4, <1>8, <1>10, SumsPermute, TermsAre
  <2> QED  BY <1>4, <1>8, <2>1, TotalIs
<1>12. Size(sizes, v) = Total(a)
  BY <1>1, SizeAdds DEF a
<1>13. Total(b) \in Nat
  <2>1. MarshalToSizedBuffer(writes, v) \in Seq(S)
    BY MarshalItems
  <2> DEFINE items == MarshalToSizedBuffer(writes, v)
             lengths == [i \in DOMAIN items |-> items[i].length]
  <2>2. \A i \in 1..Len(items) : items[i].length \in Nat
    <3>1. \A x \in S : x.length \in Nat
      BY DEF Items
    <3> HIDE DEF items, S
    <3> QED  BY <2>1, <3>1 DEF items
  <2>3. lengths \in Seq(Nat)
    <3> HIDE DEF items
    <3>1. DOMAIN items = 1..Len(items) /\ Len(items) \in Nat
      BY <2>1 DEF items
    <3>2. lengths \in [1..Len(items) -> Nat]
      BY <2>2, <3>1
    <3> HIDE DEF lengths
    <3> QED  BY <3>1, <3>2
  <2>4. WireBytes(items) = Total(lengths)
    BY DEF WireBytes
  <2> HIDE DEF lengths
  <2> QED  BY <1>4, <2>3, <2>4, TotalNat
<1> QED  BY <1>4, <1>11, <1>12, <1>13

-----------------------------------------------------------------------------
(* What stands on the wire, and what the transport makes of it.            *)

(* A sequence of items, or of members of a JSON object.                    *)
IsPart(e, x) == IF e = "proto" THEN IsItem(x) ELSE "whole" \in DOMAIN x

IsWire(e, w) == \E S : w \in Seq(S) /\ \A x \in S : IsPart(e, x)

LEMMA MarshalIsWire ==
    ASSUME NEW m \in DOMAIN Format, NEW v, Built(m, v)
    PROVE  IsWire("proto", MarshalToSizedBuffer(Format[m].writes, v))
<1>1. MarshalToSizedBuffer(Format[m].writes, v) \in Seq(Items(Format[m].writes, v))
  BY MarshalItems
<1>2. \A x \in Items(Format[m].writes, v) : IsPart("proto", x)
  BY DEF IsPart, Items
<1> QED  BY <1>1, <1>2 DEF IsWire

LEMMA IsWireOf ==
    ASSUME NEW e, NEW S, NEW w, w \in Seq(S), \A y \in S : IsPart(e, y)
    PROVE  IsWire(e, w)
BY DEF IsWire

LEMMA OneItemIsWire ==
    ASSUME NEW x, IsItem(x)
    PROVE  IsWire("proto", <<x>>) /\ IsWire("proto", <<>>)
<1>1. \A y \in {x} : IsPart("proto", y)
  BY DEF IsPart
<1>2. <<x>> \in Seq({x}) /\ <<>> \in Seq({x})
  OBVIOUS
<1> DEFINE S == {x}
<1>3. <<x>> \in Seq(S) /\ <<>> \in Seq(S) /\ \A y \in S : IsPart("proto", y)
  BY <1>1, <1>2
<1> HIDE DEF S
<1> QED  BY <1>3, IsWireOf

LEMMA PaddingIsWire == IsWire("proto", Padding) /\ IsWire("proto", Overrun)
<1>1. IsItem(Item(0, 0, <<0>>, 1))
  <2>1. <<0>> \in Seq({0})
    OBVIOUS
  <2> QED  BY <2>1 DEF IsItem, Item
<1> QED  BY <1>1, OneItemIsWire DEF Padding, Overrun

(* jsonpb writes at most one member for a row of the struct.               *)
LEMMA MembersAre ==
    ASSUME NEW d, NEW y, NEW o
    PROVE  \/ JsonMembers(d, y, o) = <<>>
           \/ \E x : JsonMembers(d, y, o) = <<x>> /\ "whole" \in DOMAIN x
<1>1. \A name, p : "whole" \in DOMAIN Member(name, p)
  BY DEF Member
<1> DEFINE name == IF o THEN d.name ELSE d.json
<1>2. CASE y = ZeroOf(d)
  BY <1>2 DEF JsonMembers
<1>3. CASE y # ZeroOf(d) /\ d.card = "arm"
  <2>1. JsonMembers(d, y, o) = IF y[1] = d.arm THEN <<Member(name, <<JsonValue(d.type, y[2])>>)>>
                                               ELSE <<>>
    BY <1>3 DEF JsonMembers
  <2> QED  BY <1>1, <2>1
<1>4. CASE y # ZeroOf(d) /\ d.card = "one"
  <2>1. JsonMembers(d, y, o) = <<Member(name, <<JsonValue(d.type, y)>>)>>
    BY <1>4 DEF JsonMembers
  <2> QED  BY <1>1, <2>1
<1>5. CASE y # ZeroOf(d) /\ d.card \notin {"arm", "one"}
  <2>1. JsonMembers(d, y, o) = <<Member(name, [i \in DOMAIN y |-> JsonValue(d.type, y[i])])>>
    BY <1>5 DEF JsonMembers
  <2> QED  BY <1>1, <2>1
<1> QED  BY <1>2, <1>3, <1>4, <1>5

LEMMA JsonIsWire ==
    ASSUME NEW m \in DOMAIN Format, NEW v, NEW o
    PROVE  IsWire("json", MarshalJSON(Format[m].struct, v, o))
<1> DEFINE struct == Format[m].struct
           Of(k) == JsonMembers(struct[k], v[struct[k].field], o)
           ss == [k \in DOMAIN struct |-> Of(k)]
           S == {x \in {Of(k)[1] : k \in DOMAIN struct} : "whole" \in DOMAIN x}
<1>1. DOMAIN struct = 1..Len(struct) /\ Len(struct) \in Nat
  BY WritesAssumption
<1>2. ASSUME NEW k \in DOMAIN struct PROVE Of(k) \in Seq(S)
  <2>1. CASE Of(k) = <<>>
    <3>1. <<>> \in Seq(S)
      OBVIOUS
    <3> HIDE DEF S, Of
    <3> QED  BY <2>1, <3>1
  <2>2. CASE Of(k) # <<>>
    <3>1. PICK x : Of(k) = <<x>> /\ "whole" \in DOMAIN x
      BY <2>2, MembersAre
    <3> HIDE DEF Of
    <3>2. x \in S
      BY <3>1
    <3>3. <<x>> \in Seq(S)
      BY <3>2
    <3> HIDE DEF S
    <3> QED  BY <3>1, <3>3
  <2> QED  BY <2>1, <2>2
<1>3. ss \in [1..Len(struct) -> Seq(S)]
  <2> HIDE DEF S, Of
  <2> QED  BY <1>1, <1>2
<1>4. \A x \in S : "whole" \in DOMAIN x
  OBVIOUS
<1>5. MarshalJSON(struct, v, o) = FlattenSeq(ss)
  BY DEF MarshalJSON
<1> HIDE DEF ss, S
<1>6. ss \in Seq(Seq(S))
  BY <1>1, <1>3
<1>7. MarshalJSON(struct, v, o) \in Seq(S)
  BY <1>5, <1>6, FlattenType
<1> QED  BY <1>4, <1>7 DEF IsWire, IsPart

LEMMA InsertSeq ==
    ASSUME NEW S, wire \in Seq(S), NEW i \in 1..Len(wire) + 1, NEW x
    PROVE  /\ Insert(i, x) \in Seq(S \cup {x})
           /\ Len(Insert(i, x)) = Len(wire) + 1 /\ Insert(i, x)[i] = x
<1>1. /\ SubSeq(wire, 1, i - 1) \in Seq(S \cup {x}) /\ Len(SubSeq(wire, 1, i - 1)) = i - 1
      /\ SubSeq(wire, i, Len(wire)) \in Seq(S \cup {x})
      /\ Len(SubSeq(wire, i, Len(wire))) = Len(wire) + 1 - i
      /\ <<x>> \in Seq(S \cup {x}) /\ Len(<<x>>) = 1
  OBVIOUS
<1> DEFINE front == SubSeq(wire, 1, i - 1)
           back == SubSeq(wire, i, Len(wire))
<1>2. Insert(i, x) = front \o <<x>> \o back
  BY DEF Insert
<1>3. i - 1 \in Nat /\ i = (i - 1) + 1 /\ Len(wire) \in Nat
  OBVIOUS
<1> HIDE DEF front, back
<1>4. /\ front \in Seq(S \cup {x}) /\ Len(front) = i - 1
      /\ back \in Seq(S \cup {x}) /\ Len(back) = Len(wire) + 1 - i
  BY <1>1 DEF front, back
<1>5. /\ front \o <<x>> \in Seq(S \cup {x}) /\ Len(front \o <<x>>) = i
      /\ (front \o <<x>>)[i] = x
  BY <1>1, <1>3, <1>4
<1> DEFINE a == front \o <<x>>
<1> HIDE DEF a
<1>6. /\ a \o back \in Seq(S \cup {x}) /\ Len(a \o back) = Len(wire) + 1
      /\ (a \o back)[i] = x
  BY <1>3, <1>4, <1>5 DEF a
<1> QED  BY <1>2, <1>6 DEF a

LEMMA ReplaceSeq ==
    ASSUME NEW S, wire \in Seq(S), NEW i \in DOMAIN wire, NEW T, NEW items \in Seq(T)
    PROVE  Replace(i, items) \in Seq(S \cup T)
<1>1. /\ SubSeq(wire, 1, i - 1) \in Seq(S \cup T)
      /\ SubSeq(wire, i + 1, Len(wire)) \in Seq(S \cup T)
      /\ items \in Seq(S \cup T)
  OBVIOUS
<1> QED  BY <1>1 DEF Replace

(* What the decoder refuses at a place of the wire.                        *)
Rejects(e, reads, x) == IF e = "proto" THEN Refused(reads, x) ELSE ~ x.whole

Rejected(e, reads, w) == \E i \in 1..Len(w) : Rejects(e, reads, w[i])

LEMMA CutIsRejected ==
    ASSUME IsWire(encoding, wire), CutsItem
    PROVE  (\E S : wire' \in Seq(S)) /\ Rejected(encoding, Tab.reads, wire')
<1>1. PICK S : wire \in Seq(S) /\ \A x \in S : IsPart(encoding, x)
  BY DEF IsWire
<1>2. PICK i \in DOMAIN wire :
        wire' = Append(SubSeq(wire, 1, i - 1), [wire[i] EXCEPT !.whole = FALSE])
  BY DEF CutsItem
<1> DEFINE x == [wire[i] EXCEPT !.whole = FALSE]
<1>3. i \in 1..Len(wire) /\ IsPart(encoding, wire[i])
  BY <1>1
<1>4. ~ x.whole
  BY <1>3 DEF IsPart, IsItem
<1> HIDE DEF x
<1>5. SubSeq(wire, 1, i - 1) \in Seq(S \cup {x}) /\ Len(SubSeq(wire, 1, i - 1)) = i - 1
  BY <1>1, <1>3
<1>6. wire' \in Seq(S \cup {x}) /\ Len(wire') = i /\ wire'[i] = x /\ i \in 1..Len(wire')
  BY <1>2, <1>3, <1>5 DEF x
<1>7. Rejects(encoding, Tab.reads, x)
  BY <1>4 DEF Rejects, Refused
<1> QED  BY <1>6, <1>7 DEF Rejected

LEMMA DamageIsRejected ==
    ASSUME IsWire(encoding, wire), Damages
    PROVE  (\E S : wire' \in Seq(S)) /\ Rejected(encoding, Tab.reads, wire')
<1>1. PICK S : wire \in Seq(S) /\ \A x \in S : IsPart(encoding, x)
  BY DEF IsWire
<1>2. encoding = "proto" /\ \A i \in DOMAIN wire : i \in 1..Len(wire) /\ IsItem(wire[i])
  BY <1>1 DEF Damages, IsPart
<1>3. ASSUME NEW i \in DOMAIN wire, NEW x, wire' = [wire EXCEPT ![i] = x], Refused(Tab.reads, x)
      PROVE  (\E T : wire' \in Seq(T)) /\ Rejected(encoding, Tab.reads, wire')
  <2>1. wire' \in Seq(S \cup {x}) /\ Len(wire') = Len(wire) /\ wire'[i] = x
    BY <1>1, <1>3
  <2> QED  BY <1>2, <1>3, <2>1 DEF Rejected, Rejects
<1>4. ASSUME NEW i \in DOMAIN wire, NEW r \in CasesAt(i), NEW w \in {0, 1, 2, 5} \ r.wires,
             wire' = [wire EXCEPT ![i].wire = w]
      PROVE  (\E T : wire' \in Seq(T)) /\ Rejected(encoding, Tab.reads, wire')
  <2> DEFINE x == [wire[i] EXCEPT !.wire = w]
  <2>1. x.wire = w /\ x.number = wire[i].number
    BY <1>2 DEF IsItem
  <2> HIDE DEF x
  <2>2. r \in CaseOf(Tab.reads, x) /\ x.wire \notin r.wires
    BY <2>1 DEF CasesAt, CaseOf
  <2>3. Refused(Tab.reads, x)
    BY <2>2 DEF Refused
  <2>4. wire' = [wire EXCEPT ![i] = x]
    BY <1>4 DEF x
  <2> QED  BY <1>3, <2>3, <2>4
<1>5. ASSUME NEW i \in 1..Len(wire) + 1, wire' = Insert(i, UnknownItem(4))
      PROVE  (\E T : wire' \in Seq(T)) /\ Rejected(encoding, Tab.reads, wire')
  <2>1. /\ Insert(i, UnknownItem(4)) \in Seq(S \cup {UnknownItem(4)})
        /\ Len(Insert(i, UnknownItem(4))) = Len(wire) + 1
        /\ Insert(i, UnknownItem(4))[i] = UnknownItem(4)
    BY <1>1, InsertSeq
  <2>2. wire' \in Seq(S \cup {UnknownItem(4)}) /\ i \in 1..Len(wire') /\ wire'[i] = UnknownItem(4)
    BY <1>5, <2>1
  <2>3. Refused(Tab.reads, UnknownItem(4))
    BY DEF Refused, UnknownItem, Item
  <2> QED  BY <1>2, <2>2, <2>3 DEF Rejected, Rejects
<1>6. ASSUME NEW i \in DOMAIN wire, NEW r \in CasesAt(i), r.type \in Ids,
             wire' = [wire EXCEPT ![i].payload = ShortId]
      PROVE  (\E T : wire' \in Seq(T)) /\ Rejected(encoding, Tab.reads, wire')
  <2> DEFINE x == [wire[i] EXCEPT !.payload = ShortId]
  <2>1. x.payload = ShortId /\ x.number = wire[i].number
    BY <1>2 DEF IsItem
  <2> HIDE DEF x
  <2>2. r \in CaseOf(Tab.reads, x)
    BY <2>1 DEF CasesAt, CaseOf
  <2>3. ShortId \notin {<<0>>, <<1>>}
    BY DEF ShortId
  <2>4. Refused(Tab.reads, x)
    BY <1>6, <2>1, <2>2, <2>3 DEF Refused
  <2>5. wire' = [wire EXCEPT ![i] = x]
    BY <1>6 DEF x
  <2> QED  BY <1>3, <2>4, <2>5
<1> QED  BY <1>4, <1>5, <1>6 DEF Damages

LEMMA HarmlessIsSeq ==
    ASSUME IsWire(encoding, wire),
           SendsUnknown \/ SendsReordered \/ SendsUnpacked \/ SendsInParts \/ SendsTwice
    PROVE  \E S : wire' \in Seq(S)
<1>1. PICK S : wire \in Seq(S) /\ \A x \in S : IsPart(encoding, x)
  BY DEF IsWire
<1>2. \A i \in 1..Len(wire) + 1 : \A x : Insert(i, x) \in Seq(S \cup {x})
  BY <1>1, InsertSeq
<1>3. DOMAIN wire = 1..Len(wire) /\ Len(wire) \in Nat
  BY <1>1
<1>4. CASE SendsUnknown
  <2>1. PICK i \in 1..Len(wire) + 1 : \E x : wire' = Insert(i, x)
    BY <1>4 DEF SendsUnknown
  <2> QED  BY <1>2, <2>1
<1>5. CASE SendsReordered
  <2>1. PICK i \in 1..Len(wire) - 1 : wire' = [wire EXCEPT ![i] = wire[i + 1], ![i + 1] = wire[i]]
    BY <1>5 DEF SendsReordered
  <2>2. i \in 1..Len(wire) /\ i + 1 \in 1..Len(wire)
    BY <1>3, <2>1
  <2>3. wire[i] \in S /\ wire[i + 1] \in S
    BY <1>1, <2>2
  <2>4. wire' \in Seq(S)
    BY <1>1, <2>1, <2>2, <2>3
  <2> QED  BY <2>4
<1>6. CASE SendsUnpacked
  <2>1. PICK i \in DOMAIN wire : \E r \in CasesAt(i) :
          wire' = Replace(i, [k \in DOMAIN wire[i].payload |->
                     [wire[i] EXCEPT !.wire = CHOOSE w \in r.wires : w # 2,
                                     !.payload = <<wire[i].payload[k]>>]])
    BY <1>6 DEF SendsUnpacked
  <2>2. PICK r \in CasesAt(i) :
          wire' = Replace(i, [k \in DOMAIN wire[i].payload |->
                     [wire[i] EXCEPT !.wire = CHOOSE w \in r.wires : w # 2,
                                     !.payload = <<wire[i].payload[k]>>]])
    BY <2>1
  <2> DEFINE F(k) == [wire[i] EXCEPT !.wire = CHOOSE w \in r.wires : w # 2,
                                     !.payload = <<wire[i].payload[k]>>]
             items == [k \in DOMAIN wire[i].payload |-> F(k)]
             U == {F(k) : k \in DOMAIN wire[i].payload}
  <2>3. PICK T : wire[i].payload \in Seq(T)
    <3>1. IsItem(wire[i])
      <4>1. wire[i] \in S /\ encoding = "proto"
        <5>1. wire[i] \in S
          BY <1>1
        <5>2. encoding = "proto"
          BY <1>6, Zenon DEF SendsUnpacked
        <5> QED  BY <5>1, <5>2
      <4>2. IsPart(encoding, wire[i])
        BY <1>1, <4>1
      <4> QED  BY <4>1, <4>2 DEF IsPart
    <3> QED  BY <3>1 DEF IsItem
  <2>4. items \in [DOMAIN wire[i].payload -> U] /\ wire' = Replace(i, items)
    BY <2>2
  <2>5. DOMAIN wire[i].payload = 1..Len(wire[i].payload) /\ Len(wire[i].payload) \in Nat
    BY <2>3
  <2> HIDE DEF items, U
  <2>6. items \in Seq(U)
    BY <2>4, <2>5
  <2> QED  BY <1>1, <2>4, <2>6, ReplaceSeq
<1>7. CASE SendsInParts
  <2>1. PICK i \in DOMAIN wire :
          wire' = Replace(i, [k \in 1..2 |-> [wire[i] EXCEPT !.payload = <<wire[i].payload[k]>>]])
    BY <1>7 DEF SendsInParts
  <2> DEFINE F(k) == [wire[i] EXCEPT !.payload = <<wire[i].payload[k]>>]
             items == [k \in 1..2 |-> F(k)]
             U == {F(k) : k \in 1..2}
  <2>2. items \in [1..2 -> U] /\ wire' = Replace(i, items)
    BY <2>1
  <2> HIDE DEF items, U
  <2>3. items \in Seq(U)
    <3>1. \A n \in Nat : [1..n -> U] \subseteq Seq(U)
      OBVIOUS
    <3> QED  BY <2>2, <3>1
  <2> QED  BY <1>1, <2>2, <2>3, ReplaceSeq
<1>8. CASE SendsTwice
  <2>1. PICK i \in DOMAIN wire : \E x : wire' = Insert(i, x)
    BY <1>8 DEF SendsTwice
  <2>2. i \in 1..Len(wire) + 1
    BY <1>3
  <2> QED  BY <1>2, <2>1, <2>2
<1> QED  BY <1>4, <1>5, <1>6, <1>7, <1>8

-----------------------------------------------------------------------------
(* The invariant that the types rest on: the message is built from values  *)
(* its declarations give, and before the transport has touched it the wire *)
(* holds whole items.                                                      *)
Typed ==
    /\ message \in DOMAIN Format
    /\ Built(message, value)
    /\ DOMAIN got = FieldsOf(message)
    /\ phase \in {"building", "wire", "reading", "read", "delivered", "failed", "copying", "copied"}
    /\ size \in Nat
    /\ encoding \in {"proto", "json"}
    /\ fault \in {"none"} \cup Harmless \cup Harmful
    /\ entry \in {"none", "data", "request", "grpc", "json"}
    /\ \E S : wire \in Seq(S)
    /\ at \in 1..Len(wire) + 1
    /\ phase \in {"building", "wire"} => at = 1
    /\ phase = "building" => fault = "none"
    /\ phase = "wire" /\ fault = "none" => IsWire(encoding, wire)

LEMMA InitTyped == Init => Typed
<1> SUFFICES ASSUME Init PROVE Typed
  OBVIOUS
<1>1. /\ message \in DOMAIN Format /\ value = Empty(message) /\ got = Empty(message)
      /\ phase = "building" /\ size = 0 /\ wire = <<>> /\ encoding = "proto"
      /\ fault = "none" /\ at = 1 /\ entry = "none"
  BY DEF Init
<1>2. Built(message, value) /\ DOMAIN got = FieldsOf(message)
  BY <1>1, EmptyBuilt, EmptyFields
<1>3. wire \in Seq({}) /\ at \in 1..Len(wire) + 1
  BY <1>1
<1> QED  BY <1>1, <1>2, <1>3 DEF Typed

LEMMA IsWireSeq ==
    ASSUME NEW e, NEW w, IsWire(e, w)
    PROVE  (\E S : w \in Seq(S)) /\ Len(w) \in Nat
<1>1. PICK S : w \in Seq(S)
  BY DEF IsWire
<1> QED  BY <1>1

LEMMA MarshalTyped ==
    ASSUME Typed, Marshal
    PROVE  Typed'
<1> DEFINE items == MarshalToSizedBuffer(Tab.writes, value)
<1>1. /\ message \in DOMAIN Format /\ Built(message, value) /\ fault = "none" /\ at = 1
      /\ DOMAIN got = FieldsOf(message)
  BY DEF Typed, Marshal
<1>2. /\ message' = message /\ value' = value /\ got' = got /\ fault' = fault /\ at' = at
      /\ entry' = entry /\ size' = Size(Tab.sizes, value) /\ encoding' = "proto"
      /\ phase' \in {"wire", "failed"}
  BY DEF Marshal
<1>3. Size(Tab.sizes, value) = WireBytes(items) /\ Size(Tab.sizes, value) \in Nat
  BY <1>1, SizeOfMarshalled DEF Tab
<1>4. wire' = items
  <2>1. wire' = CASE Size(Tab.sizes, value) = WireBytes(items) -> items
                  [] Size(Tab.sizes, value) < WireBytes(items) -> Overrun
                  [] Size(Tab.sizes, value) > WireBytes(items) -> Padding
    BY DEF Marshal
  <2> HIDE DEF items
  <2> QED  BY <1>3, <2>1
<1>5. IsWire("proto", items)
  BY <1>1, MarshalIsWire DEF Tab
<1> HIDE DEF items
<1>6. (\E S : wire' \in Seq(S)) /\ at' \in 1..Len(wire') + 1
  <2>1. (\E S : items \in Seq(S)) /\ Len(items) \in Nat
    BY <1>5, IsWireSeq
  <2> QED  BY <1>1, <1>2, <1>4, <2>1
<1>7. Built(message, value)' /\ FieldsOf(message)' = FieldsOf(message)
  BY <1>1, <1>2
<1>8. IsWire(encoding, wire)'
  BY <1>2, <1>4, <1>5
<1>9. entry \in {"none", "data", "request", "grpc", "json"} /\ fault' = "none"
  BY <1>1, <1>2 DEF Typed
<1> QED  BY <1>1, <1>2, <1>3, <1>6, <1>7, <1>8, <1>9 DEF Typed

LEMMA WriteJSONTyped ==
    ASSUME Typed, WriteJSON
    PROVE  Typed'
<1>1. /\ message \in DOMAIN Format /\ fault = "none" /\ at = 1
  BY DEF Typed, WriteJSON
<1>2. /\ message' = message /\ value' = value /\ got' = got /\ fault' = fault /\ at' = at
      /\ entry' = entry /\ size' = size /\ encoding' = "json" /\ phase' = "wire"
      /\ \E o \in BOOLEAN : wire' = MarshalJSON(Tab.struct, value, o)
  BY DEF WriteJSON
<1>3. IsWire("json", wire')
  BY <1>1, <1>2, JsonIsWire DEF Tab
<1>4. (\E S : wire' \in Seq(S)) /\ at' \in 1..Len(wire') + 1
  <2>1. (\E S : wire' \in Seq(S)) /\ Len(wire') \in Nat
    BY <1>3, IsWireSeq
  <2> QED  BY <1>1, <1>2, <2>1
<1>5. Built(message, value)' /\ FieldsOf(message)' = FieldsOf(message)
  BY <1>2 DEF Typed
<1>6. IsWire(encoding, wire)'
  BY <1>2, <1>3
<1> QED  BY <1>1, <1>2, <1>4, <1>5, <1>6 DEF Typed

LEMMA TransportTyped ==
    ASSUME Typed, Transport
    PROVE  Typed'
<1>1. phase = "wire" /\ fault = "none" /\ at = 1 /\ IsWire(encoding, wire)
  BY DEF Typed, Transport
<1>2. /\ message' = message /\ value' = value /\ got' = got /\ phase' = phase /\ at' = at
      /\ entry' = entry /\ size' = size /\ encoding' = encoding
      /\ \/ SendsReordered \/ SendsUnknown \/ SendsUnpacked \/ SendsInParts \/ SendsTwice
         \/ CutsItem \/ Damages
  BY DEF Transport
<1>3. fault' \in Harmless \cup Harmful
  BY <1>2 DEF SendsReordered, SendsUnknown, SendsUnpacked, SendsInParts, SendsTwice,
              CutsItem, Damages, Harmless, Harmful
<1>4. \E S : wire' \in Seq(S)
  BY <1>1, <1>2, HarmlessIsSeq, CutIsRejected, DamageIsRejected
<1>5. at' \in 1..Len(wire') + 1
  BY <1>1, <1>2, <1>4
<1>6. Built(message, value)' /\ FieldsOf(message)' = FieldsOf(message)
  BY <1>2 DEF Typed
<1>7. fault' # "none"
  BY <1>3 DEF Harmless, Harmful
<1> QED  BY <1>1, <1>2, <1>3, <1>4, <1>5, <1>6, <1>7 DEF Typed

LEMMA ReadTyped ==
    ASSUME Typed, ReadItem \/ ReadMember
    PROVE  Typed'
<1>1. /\ message' = message /\ value' = value /\ wire' = wire /\ fault' = fault
      /\ entry' = entry /\ size' = size /\ encoding' = encoding
      /\ phase = "reading" /\ phase' \in {"reading", "failed"} /\ at <= Len(wire)
  BY DEF ReadItem, ReadMember
<1>2. DOMAIN got' = DOMAIN got
  BY DEF ReadItem, ReadMember, Unmarshalled, JsonRead
<1>3. at' \in {at, at + 1}
  BY DEF ReadItem, ReadMember, After
<1>4. at \in 1..Len(wire) + 1 /\ Len(wire) \in Nat /\ \E S : wire \in Seq(S)
  BY DEF Typed
<1>5. at' \in 1..Len(wire') + 1 /\ (\E S : wire' \in Seq(S))
  BY <1>1, <1>3, <1>4
<1>6. Built(message, value)' /\ FieldsOf(message)' = FieldsOf(message)
  BY <1>1 DEF Typed
<1> QED  BY <1>1, <1>2, <1>5, <1>6 DEF Typed

LEMMA NextTyped ==
    ASSUME Typed, [Next]_vars
    PROVE  Typed'
<1>1. CASE SetField
  <2>1. /\ message' = message /\ phase' = phase /\ size' = size /\ wire' = wire
        /\ encoding' = encoding /\ fault' = fault /\ at' = at /\ got' = got /\ entry' = entry
        /\ \E d \in ToSet(Tab.struct) : \E x \in FieldValues(d) :
             value' = [value EXCEPT ![d.field] = x]
    BY <1>1 DEF SetField
  <2>2. Built(message, value')
    <3>1. PICK d \in ToSet(Format[message].struct) : \E x \in FieldValues(d) :
            value' = [value EXCEPT ![d.field] = x]
      BY <2>1 DEF Tab
    <3>2. PICK x \in FieldValues(d) : value' = [value EXCEPT ![d.field] = x]
      BY <3>1
    <3>3. Built(message, value)
      BY DEF Typed
    <3> QED  BY <3>2, <3>3, SetBuilt
  <2>3. Built(message, value)' /\ FieldsOf(message)' = FieldsOf(message)
    BY <2>1, <2>2
  <2>4. IsWire(encoding, wire)' <=> IsWire(encoding, wire)
    BY <2>1
  <2> QED  BY <2>1, <2>3, <2>4 DEF Typed
<1>2. CASE Marshal
  BY <1>2, MarshalTyped
<1>3. CASE WriteJSON
  BY <1>3, WriteJSONTyped
<1>4. CASE Transport
  BY <1>4, TransportTyped
<1>5. CASE Receive \/ EndOfInput
  <2>1. /\ message' = message /\ value' = value /\ size' = size /\ wire' = wire
        /\ encoding' = encoding /\ fault' = fault /\ at' = at /\ got' = got /\ entry' = entry
        /\ phase' \in {"reading", "read"}
    BY <1>5 DEF Receive, EndOfInput
  <2>2. Built(message, value)' /\ FieldsOf(message)' = FieldsOf(message)
    BY <2>1 DEF Typed
  <2> QED  BY <2>1, <2>2 DEF Typed
<1>6. CASE ReadItem \/ ReadMember
  BY <1>6, ReadTyped
<1>7. CASE Deliver
  <2>1. /\ message' = message /\ value' = value /\ size' = size /\ wire' = wire
        /\ encoding' = encoding /\ fault' = fault /\ at' = at /\ phase' = "delivered"
        /\ entry' \in {"json", "data", "request", "grpc"}
    BY <1>7 DEF Deliver
  <2>2. DOMAIN got' = DOMAIN got
    BY <1>7 DEF Deliver, Migrate
  <2>3. Built(message, value)' /\ FieldsOf(message)' = FieldsOf(message)
    BY <2>1 DEF Typed
  <2> QED  BY <2>1, <2>2, <2>3 DEF Typed
<1>8. CASE ChooseDestination \/ CopyMessage
  <2>1. /\ message' = message /\ value' = value /\ size' = size /\ wire' = wire
        /\ encoding' = encoding /\ fault' = fault /\ at' = at /\ entry' = entry
        /\ phase' \in {"copying", "copied"}
    BY <1>8 DEF ChooseDestination, CopyMessage
  <2>2. DOMAIN got' = FieldsOf(message)
    <3>1. CASE ChooseDestination
      BY <3>1 DEF ChooseDestination, Empty, Filled
    <3>2. CASE CopyMessage
      BY <3>2 DEF CopyMessage, CopyTo, Typed
    <3> QED  BY <1>8, <3>1, <3>2
  <2>3. Built(message, value)' /\ FieldsOf(message)' = FieldsOf(message)
    BY <2>1 DEF Typed
  <2> QED  BY <2>1, <2>2, <2>3 DEF Typed
<1>9. CASE UNCHANGED vars
  <2>1. /\ message' = message /\ value' = value /\ size' = size /\ wire' = wire
        /\ encoding' = encoding /\ fault' = fault /\ at' = at /\ got' = got /\ entry' = entry
        /\ phase' = phase
    BY <1>9 DEF vars
  <2>2. /\ Built(message, value)' /\ FieldsOf(message)' = FieldsOf(message)
        /\ IsWire(encoding, wire)' <=> IsWire(encoding, wire)
    BY <2>1 DEF Typed
  <2> QED  BY <2>1, <2>2 DEF Typed
<1> QED  BY <1>1, <1>2, <1>3, <1>4, <1>5, <1>6, <1>7, <1>8, <1>9 DEF Next

(* Every variable keeps its type, and the decoder never reads past the end *)
(* of the items, for the tables of any messages.                           *)
THEOREM TypeCorrect == Spec => []TypeOK
<1>1. Typed => TypeOK
  BY DEF Typed, TypeOK, Built
<1>2. Typed /\ [Next]_vars => Typed'
  BY NextTyped
<1> QED  BY <1>1, <1>2, InitTyped, PTL DEF Spec

(* What Size has said holds as long as the message is on its way.          *)
SizeKept ==
    encoding = "proto" /\ phase \in {"wire", "reading", "failed"} =>
      size = WireBytes(MarshalToSizedBuffer(Tab.writes, value))

LEMMA NextSizeKept ==
    ASSUME Typed, SizeKept, [Next]_vars
    PROVE  SizeKept'
<1>1. CASE Marshal
  <2>1. /\ message \in DOMAIN Format /\ Built(message, value)
        /\ message' = message /\ value' = value /\ size' = Size(Tab.sizes, value)
    BY <1>1 DEF Typed, Marshal
  <2>2. size' = WireBytes(MarshalToSizedBuffer(Tab.writes, value))
    BY <2>1, SizeOfMarshalled DEF Tab
  <2>3. Tab' = Tab
    BY <2>1 DEF Tab
  <2> QED  BY <2>1, <2>2, <2>3 DEF SizeKept
<1>2. CASE SetField \/ WriteJSON \/ ChooseDestination \/ CopyMessage \/ EndOfInput \/ Deliver
  <2>1. phase' \in {"building", "copying", "copied", "read", "delivered"} \/ encoding' = "json"
    BY <1>2 DEF SetField, WriteJSON, ChooseDestination, CopyMessage, EndOfInput, Deliver
  <2> QED  BY <2>1 DEF SizeKept
<1>3. CASE Transport \/ Receive \/ ReadItem \/ ReadMember \/ UNCHANGED vars
  <2>1. /\ message' = message /\ value' = value /\ size' = size /\ encoding' = encoding
        /\ \/ phase' = phase
           \/ phase \in {"wire", "reading"} /\ phase' \in {"reading", "failed"}
    BY <1>3 DEF Transport, Receive, ReadItem, ReadMember, vars
  <2>2. Tab' = Tab
    BY <2>1 DEF Tab
  <2> QED  BY <2>1, <2>2 DEF SizeKept
<1> QED  BY <1>1, <1>2, <1>3 DEF Next

(* Size and MarshalToSizedBuffer agree for every message, whatever fields  *)
(* it has and however many: the run sets two of them, the proof any number.*)
(* It needs that each row of Size has a row of MarshalToSizedBuffer that   *)
(* counts the same, which SizesAssumption says of the tables, and that the *)
(* sum of the rows does not depend on their order.                         *)
THEOREM SizeCorrect == Spec => []SizeMatches
<1>1. Init => SizeKept
  BY DEF Init, SizeKept
<1>2. Typed /\ SizeKept /\ [Next]_vars => Typed' /\ SizeKept'
  BY NextTyped, NextSizeKept
<1>3. SizeKept => SizeMatches
  BY DEF SizeKept, SizeMatches
<1> QED  BY <1>1, <1>2, <1>3, InitTyped, PTL DEF Spec

-----------------------------------------------------------------------------
(* Damage.  The item the decoder has to refuse stays in front of it: it    *)
(* never gets past it.                                                     *)
Ahead ==
    /\ phase \in {"wire", "reading"} /\ fault \in Harmful =>
         \E i \in at..Len(wire) : Rejects(encoding, Tab.reads, wire[i])
    /\ phase \in {"read", "delivered"} => fault \notin Harmful

LEMMA ReadItemAhead ==
    ASSUME Typed, Ahead, ReadItem \/ ReadMember
    PROVE  Ahead'
<1>1. /\ message' = message /\ wire' = wire /\ fault' = fault /\ encoding' = encoding
      /\ phase = "reading" /\ phase' \in {"reading", "failed"} /\ Tab' = Tab
  BY DEF ReadItem, ReadMember, Tab
<1>2. phase' = "reading" => at' = at + 1 /\ ~ Rejects(encoding, Tab.reads, wire[at])
  BY DEF ReadItem, ReadMember, After, Rejects
<1>3. at \in Nat /\ Len(wire) \in Nat
  BY DEF Typed
<1>4. ASSUME fault \in Harmful, phase' = "reading"
      PROVE  \E i \in at'..Len(wire) : Rejects(encoding, Tab.reads, wire[i])
  <2>1. PICK i \in at..Len(wire) : Rejects(encoding, Tab.reads, wire[i])
    BY <1>1, <1>4 DEF Ahead
  <2>2. i # at
    BY <1>2, <1>4, <2>1
  <2>3. i \in at'..Len(wire)
    BY <1>2, <1>3, <1>4, <2>2
  <2> QED  BY <2>1, <2>3
<1> QED  BY <1>1, <1>4 DEF Ahead

LEMMA NextAhead ==
    ASSUME Typed, Ahead, [Next]_vars
    PROVE  Ahead'
<1>1. CASE SetField \/ Marshal \/ WriteJSON
  <2>1. fault = "none" /\ fault' = fault
    BY <1>1 DEF SetField, Marshal, WriteJSON, Typed
  <2>2. fault' \notin Harmful
    BY <2>1 DEF Harmful
  <2> QED  BY <2>2 DEF Ahead
<1>2. CASE Transport
  <2>1. /\ phase = "wire" /\ phase' = "wire" /\ fault = "none" /\ IsWire(encoding, wire)
        /\ at' = at /\ at = 1 /\ encoding' = encoding /\ message' = message /\ Tab' = Tab
        /\ \/ SendsReordered \/ SendsUnknown \/ SendsUnpacked \/ SendsInParts \/ SendsTwice
           \/ CutsItem \/ Damages
    BY <1>2 DEF Transport, Typed, Tab
  <2>2. CASE CutsItem \/ Damages
    <3>1. Rejected(encoding, Tab.reads, wire')
      BY <2>1, <2>2, CutIsRejected, DamageIsRejected
    <3> QED  BY <2>1, <3>1 DEF Rejected, Ahead
  <2>3. CASE SendsReordered \/ SendsUnknown \/ SendsUnpacked \/ SendsInParts \/ SendsTwice
    <3>1. fault' \notin Harmful
      BY <2>3 DEF SendsReordered, SendsUnknown, SendsUnpacked, SendsInParts, SendsTwice, Harmful
    <3> QED  BY <3>1 DEF Ahead
  <2> QED  BY <2>1, <2>2, <2>3
<1>3. CASE ReadItem \/ ReadMember
  BY <1>3, ReadItemAhead
<1>4. CASE EndOfInput
  <2>1. /\ phase = "reading" /\ phase' = "read" /\ fault' = fault /\ at > Len(wire)
        /\ at \in Nat /\ Len(wire) \in Nat
    BY <1>4 DEF EndOfInput, Typed
  <2>2. at..Len(wire) = {}
    BY <2>1
  <2>3. fault \notin Harmful
    BY <2>1, <2>2 DEF Ahead
  <2> QED  BY <2>1, <2>3 DEF Ahead
<1>5. CASE Receive \/ UNCHANGED vars
  <2>1. /\ message' = message /\ wire' = wire /\ fault' = fault /\ encoding' = encoding
        /\ at' = at /\ Tab' = Tab
        /\ \/ phase' = phase
           \/ phase = "wire" /\ phase' = "reading"
    BY <1>5 DEF Receive, vars, Tab
  <2> QED  BY <2>1 DEF Ahead
<1>6. CASE Deliver \/ ChooseDestination \/ CopyMessage
  <2>1. /\ fault' = fault
        /\ \/ phase = "read" /\ phase' = "delivered"
           \/ phase' \in {"copying", "copied"}
    BY <1>6 DEF Deliver, ChooseDestination, CopyMessage
  <2> QED  BY <2>1 DEF Ahead
<1> QED  BY <1>1, <1>2, <1>3, <1>4, <1>5, <1>6 DEF Next

(* No message that was cut or damaged is ever taken for one that was read. *)
THEOREM DamageCorrect == Spec => []DamageRejected
<1>1. Init => Ahead
  BY DEF Init, Ahead, Harmful
<1>2. Typed /\ Ahead /\ [Next]_vars => Typed' /\ Ahead'
  BY NextTyped, NextAhead
<1>3. Ahead => DamageRejected
  BY DEF Ahead, DamageRejected
<1> QED  BY <1>1, <1>2, <1>3, InitTyped, PTL DEF Spec

-----------------------------------------------------------------------------
(* CopyTo.                                                                 *)

(* The fields CopyTo(copies, v, to) leaves as they are in to.              *)
Alone(m, v, f) ==
  \/ v[f] = Empty(m)[f] /\ \E d \in ToSet(Format[m].struct) : d.field = f /\ ByArm(m, d)
  \/ Deprecated(m, f)

LEMMA CopyToOverrides ==
    ASSUME NEW m \in DOMAIN Format, Format[m].copies # {}, NEW v, Built(m, v),
           NEW to, DOMAIN to = FieldsOf(m), NEW f \in FieldsOf(m)
    PROVE  CopyTo(Format[m].copies, v, to)[f] = IF Alone(m, v, f) THEN to[f] ELSE v[f]
<1> DEFINE copies == Format[m].copies
           rows == {c \in copies : c.to = f}
           decls == {d \in ToSet(Format[m].struct) : d.field = f}
           row == CopyRow(copies, v, f)
<1>1. Covered(m, f)
  BY CopiesAssumption, Zenon
<1>2. CopyTo(copies, v, to)[f] = IF row = {} THEN to[f] ELSE v[(CHOOSE c \in row : TRUE).from]
  BY DEF CopyTo
<1>3. row \subseteq rows
  BY DEF CopyRow
<1>4. CASE Deprecated(m, f)
  <2>1. row = {}
    BY <1>1, <1>3, <1>4 DEF Covered
  <2> HIDE DEF row
  <2> QED  BY <1>2, <1>4, <2>1 DEF Alone
<1>5. CASE ~ Deprecated(m, f)
  <2>1. /\ \A c \in rows : c.from = f
        /\ \A d \in decls : ByArm(m, d) => \A c \in rows : c.arm # ""
        /\ \A d \in decls : \E c \in rows : c.arm = IF ByArm(m, d) THEN d.arm ELSE ""
    BY <1>1, <1>5 DEF Covered
  <2>2. row # {} => CopyTo(copies, v, to)[f] = v[f]
    <3>1. row # {} => (CHOOSE c \in row : TRUE) \in rows
      BY <1>3
    <3> HIDE DEF row
    <3> QED  BY <1>2, <2>1, <3>1
  <2>3. PICK d \in ToSet(Format[m].struct) : d.field = f /\ Holds(d, v[f])
    BY DEF Built
  <2>4. CASE ~ ByArm(m, d)
    <3>1. PICK c \in rows : c.arm = ""
      BY <2>1, <2>3, <2>4
    <3>2. c \in row
      BY <3>1 DEF CopyRow
    <3>3. ~ Alone(m, v, f)
      BY <1>5, <2>1, <3>1 DEF Alone
    <3> HIDE DEF row
    <3> QED  BY <2>2, <3>2, <3>3
  <2>5. CASE ByArm(m, d)
    <3>1. \A e \in decls : ByArm(m, e)
      BY <2>1, <2>3, <2>5
    <3>2. DeclarationOf(m, f) \in decls
      BY <2>3 DEF DeclarationOf
    <3>3. Empty(m)[f] = <<>>
      BY <3>1, <3>2 DEF Empty, ZeroOf, ByArm
    <3>4. Alone(m, v, f) <=> v[f] = <<>>
      BY <1>5, <2>3, <2>5, <3>3 DEF Alone
    <3>5. CASE v[f] = <<>>
      <4>1. \A c \in rows : c.arm # ""
        BY <2>1, <2>3, <2>5
      <4>2. row = {}
        BY <3>5, <4>1 DEF CopyRow
      <4> HIDE DEF row
      <4> QED  BY <1>2, <3>4, <3>5, <4>2
    <3>6. CASE v[f] # <<>>
      <4>1. v[f][1] = d.arm
        BY <2>3, <2>5, <3>6 DEF Holds, ByArm
      <4>2. PICK c \in rows : c.arm = d.arm
        BY <2>1, <2>3, <2>5
      <4>3. c \in row
        BY <3>6, <4>1, <4>2 DEF CopyRow
      <4> HIDE DEF row
      <4> QED  BY <2>2, <3>4, <3>6, <4>3
    <3> QED  BY <3>5, <3>6
  <2> QED  BY <2>4, <2>5
<1> QED  BY <1>4, <1>5

(* Only a message that has a CopyTo is copied.                             *)
HasCopy == phase = "copying" => Tab.copies # {}

LEMMA NextHasCopy ==
    ASSUME HasCopy, [Next]_vars
    PROVE  HasCopy'
<1>1. CASE ChooseDestination
  BY <1>1 DEF ChooseDestination, HasCopy, Tab
<1>2. CASE UNCHANGED vars
  BY <1>2 DEF vars, HasCopy, Tab
<1>3. CASE Next /\ ~ ChooseDestination
  <2>1. phase' # "copying"
    <3>1. CASE SetField \/ Transport
      <4>1. phase' = phase /\ phase \in {"building", "wire"}
        BY <3>1 DEF SetField, Transport
      <4> QED  BY <4>1
    <3>2. CASE ReadItem \/ ReadMember
      <4>1. phase = "reading" /\ phase' \in {phase, "failed"}
        BY <3>2 DEF ReadItem, ReadMember
      <4> QED  BY <4>1
    <3>3. CASE Marshal \/ WriteJSON \/ Receive \/ EndOfInput \/ Deliver \/ CopyMessage
      BY <3>3 DEF Marshal, WriteJSON, Receive, EndOfInput, Deliver, CopyMessage
    <3> QED  BY <1>3, <3>1, <3>2, <3>3 DEF Next
  <2> QED  BY <2>1 DEF HasCopy
<1> QED  BY <1>1, <1>2, <1>3

(* CopyTo gives every field of the destination the value it has in the     *)
(* source, but leaves an optional field or an arm of a oneof that the      *)
(* source has not set, and a deprecated field, exactly as the destination  *)
(* had it, for any message and any destination.  That the table has a row  *)
(* for every field, and for every arm, is CopiesAssumption.                *)
THEOREM CopyCorrect == Spec => CopyOverrides
<1>1. Init => HasCopy
  BY DEF Init, HasCopy
<1>2. Typed /\ HasCopy /\ [Next]_vars => Typed' /\ HasCopy'
  BY NextTyped, NextHasCopy
<1>3. Typed /\ HasCopy =>
        [CopyMessage => \A f \in DOMAIN value :
           got'[f] = IF LeftAlone(f) THEN got[f] ELSE value[f]]_vars
  <2> SUFFICES ASSUME Typed, HasCopy, CopyMessage, NEW f \in DOMAIN value
               PROVE  got'[f] = IF LeftAlone(f) THEN got[f] ELSE value[f]
    OBVIOUS
  <2>1. message \in DOMAIN Format /\ Built(message, value) /\ DOMAIN got = FieldsOf(message)
    BY DEF Typed
  <2>2. f \in FieldsOf(message)
    BY <2>1 DEF Built
  <2>3. Format[message].copies # {} /\ got' = CopyTo(Format[message].copies, value, got)
    BY DEF HasCopy, CopyMessage, Tab
  <2>4. LeftAlone(f) <=> Alone(message, value, f)
    BY DEF LeftAlone, Alone, IsSet, Tab
  <2> QED  BY <2>1, <2>2, <2>3, <2>4, CopyToOverrides
<1> QED  BY <1>1, <1>2, <1>3, InitTyped, PTL DEF Spec, CopyOverrides
=============================================================================
