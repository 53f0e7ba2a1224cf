------------------------ MODULE NudgeTransactionProofs ------------------------
(***************************************************************************)
(* Theorems about NudgeTransaction, for traces of every length.            *)
(***************************************************************************)
EXTENDS NudgeTransaction, Sums

(* Adding a call to a layer yields a layer.                                *)
LEMMA AddCallType ==
    ASSUME NEW layer \in Layer, NEW s \in Span
    PROVE  AddCall(layer, s) \in Layer
<1>1. Duration(s) \in Int
  BY DEF Duration, Span
<1>2. Detail(s) \in [count : {1}, errors : {0, 1}, time : Int]
  BY <1>1 DEF Detail
<1>3. Details(s) \in Seq([count : {1}, errors : {0, 1}, time : Int])
  <2> DEFINE T == [count : {1}, errors : {0, 1}, time : Int]
             d == Detail(s)
  <2>1. d \in T
    BY <1>2
  <2> HIDE DEF T, d
  <2>2. <<d>> \in Seq(T) /\ <<d, d>> \in Seq(T)
    BY <2>1
  <2>3. Details(s) = <<d, d>> \/ Details(s) = <<d>>
    BY DEF Details, d
  <2>4. Details(s) \in Seq(T)
    BY <2>2, <2>3
  <2> QED  BY <2>4 DEF T
<1>4. layer.calls \o Details(s) \in Seq([count : {1}, errors : {0, 1}, time : Int])
  BY <1>3 DEF Layer
<1>5. /\ layer.count + Detail(s).count \in Nat
      /\ layer.errors + Detail(s).errors \in Nat
      /\ layer.time + Detail(s).time \in Int
      /\ Larger(layer.max, Detail(s).time) \in Int
      /\ Smaller(layer.min, Detail(s).time) \in Int
  BY <1>2 DEF Layer, Larger, Smaller
<1> QED  BY <1>4, <1>5 DEF AddCall, Layer

(* Folding a span into a transaction yields a transaction.                 *)
LEMMA FoldType ==
    ASSUME NEW t \in Transaction, NEW s \in Span
    PROVE  Fold(t, s) \in Transaction
<1>1. StartAfter(t.start, s) \in Nat \cup {Nil}
  BY DEF StartAfter, Span, Transaction
<1>2. (IF IsEntry(s) THEN Larger(t.end, s.end) ELSE t.end) \in Nat
  BY DEF Larger, Span, Transaction
<1>3. StatusAfter(t.status, s) \in {"OK", "KO"}
  BY DEF StatusAfter, Transaction
<1>4. t.found + ErrorsOf(s) \in Nat
  BY DEF ErrorsOf, Span, Transaction
<1>5. InstrumentAfter(t.instrument, s) \in {"Express", "Graphql", Nil}
  BY DEF InstrumentAfter, Span, Transaction
<1>6. [l \in Layers |-> IF Calls(s, l) THEN AddCall(t.layers[l], s) ELSE t.layers[l]]
        \in [Layers -> Layer]
  BY AddCallType DEF Transaction
<1>7. /\ (IF EndsTrace(s) THEN NOWAITANDSEND ELSE t.urlid) \in {NOWAITANDSEND, WAITANDSEND}
      /\ (IF IsEntry(s) THEN t.correlationid + 1 ELSE t.correlationid) \in Nat
      /\ (IF IsEntry(s) THEN t.correlationid ELSE t.upstream) \in Nat \cup {Nil}
  BY DEF Transaction
<1> QED
  BY <1>1, <1>2, <1>3, <1>4, <1>5, <1>6, <1>7 DEF Fold, Transaction

(* The transaction and its history keep their types.                       *)
THEOREM TypeCorrect == Spec => []TypeOK
<1>1. Init => TypeOK
  BY DEF Init, TypeOK, NewTransaction, Transaction, EmptyLayer, Layer
<1>2. TypeOK /\ [Next]_vars => TypeOK'
  <2> SUFFICES ASSUME TypeOK, [Next]_vars PROVE TypeOK'
    OBVIOUS
  <2>1. ASSUME NEW s \in Spans, FoldSpan(s) PROVE TypeOK'
    <3>1. s \in Span
      BY TransactionAssumption
    <3> QED  BY <2>1, <3>1, FoldType DEF FoldSpan, TypeOK
  <2>2. CASE UNCHANGED vars
    BY <2>2 DEF vars, TypeOK
  <2> QED  BY <2>1, <2>2 DEF Next
<1> QED  BY <1>1, <1>2, PTL DEF Spec
-----------------------------------------------------------------------------
(* A span adds one error to at most one layer, and then to its transaction *)
(* too.                                                                    *)
LEMMA SpanErrors ==
    ASSUME NEW s \in Span
    PROVE  /\ ErrorsOf(s) \in Nat
           /\ Fails(s) => ErrorsOf(s) = 1
           /\ IsEntry(s) /\ s.exceptions > 0 => ErrorsOf(s) > 0
           /\ ~(Calls(s, "HTTP") /\ Calls(s, "SQL"))
BY DEF ErrorsOf, Fails, Calls, IsHttpCall, IsSqlCall, Span

(* A transaction is KO only if it reports an error, and it reports at      *)
(* least the errors its layers count, whatever the spans and their order.  *)
THEOREM KoCorrect == Spec => []KoReportsError
<1>1. Init => KoReportsError
  BY DEF Init, KoReportsError, NewTransaction, EmptyLayer, Layers
<1>2. TypeOK /\ KoReportsError /\ [Next]_vars => KoReportsError'
  <2> SUFFICES ASSUME TypeOK, KoReportsError, [Next]_vars PROVE KoReportsError'
    OBVIOUS
  <2>1. ASSUME NEW s \in Spans, FoldSpan(s) PROVE KoReportsError'
    <3> DEFINE t == transaction
    <3>1. s \in Span /\ t \in Transaction /\ transaction' = Fold(t, s)
      BY <2>1, TransactionAssumption DEF FoldSpan, TypeOK
    <3>2. /\ transaction'.found = t.found + ErrorsOf(s)
          /\ transaction'.status = StatusAfter(t.status, s)
          /\ \A l \in Layers : transaction'.layers[l].errors =
               IF Calls(s, l) THEN t.layers[l].errors + Detail(s).errors
               ELSE t.layers[l].errors
      BY <3>1 DEF Fold, AddCall
    <3>3. /\ t.found \in Nat
          /\ t.layers["HTTP"].errors \in Nat /\ t.layers["SQL"].errors \in Nat
      BY <3>1 DEF Transaction, Layer, Layers
    <3>4. transaction'.status = "KO" => transaction'.found > 0
      <4>1. ErrorsOf(s) \in Nat /\ t.found \in Nat
        BY <3>1, <3>3, SpanErrors
      <4>2. CASE (IsEntry(s) /\ s.exceptions > 0) \/ Fails(s)
        BY <3>1, <3>2, <4>1, <4>2, SpanErrors
      <4>3. CASE ~((IsEntry(s) /\ s.exceptions > 0) \/ Fails(s))
        <5>1. transaction'.status = "KO" => t.status = "KO"
          BY <3>2, <4>3 DEF StatusAfter
        <5>2. t.status = "KO" => t.found > 0
          BY DEF KoReportsError
        <5> QED  BY <3>2, <4>1, <5>1, <5>2
      <4> QED  BY <4>2, <4>3
    <3>5. \/ Detail(s).errors = 0
          \/ Detail(s).errors = 1 /\ ErrorsOf(s) = 1
      BY <3>1, SpanErrors DEF Detail
    <3>6. transaction'.layers["HTTP"].errors + transaction'.layers["SQL"].errors
            <= t.layers["HTTP"].errors + t.layers["SQL"].errors + ErrorsOf(s)
      <4>1. /\ transaction'.layers["HTTP"].errors =
                 IF Calls(s, "HTTP") THEN t.layers["HTTP"].errors + Detail(s).errors
                 ELSE t.layers["HTTP"].errors
            /\ transaction'.layers["SQL"].errors =
                 IF Calls(s, "SQL") THEN t.layers["SQL"].errors + Detail(s).errors
                 ELSE t.layers["SQL"].errors
        BY <3>2 DEF Layers
      <4>2. ~(Calls(s, "HTTP") /\ Calls(s, "SQL")) /\ ErrorsOf(s) \in Nat
        BY <3>1, SpanErrors
      <4> HIDE DEF t
      <4> QED  BY <3>3, <3>5, <4>1, <4>2
    <3>7. /\ t.layers["HTTP"].errors + t.layers["SQL"].errors <= t.found
          /\ ErrorsOf(s) \in Nat
          /\ transaction'.layers["HTTP"].errors \in Nat
          /\ transaction'.layers["SQL"].errors \in Nat
      <4>1. transaction' \in Transaction
        BY <3>1, FoldType
      <4> QED  BY <3>1, <4>1, SpanErrors DEF KoReportsError, Transaction, Layer, Layers
    <3> HIDE DEF t
    <3> QED
      BY <3>2, <3>3, <3>4, <3>6, <3>7 DEF KoReportsError
  <2>2. CASE UNCHANGED vars
    BY <2>2 DEF vars, KoReportsError
  <2> QED  BY <2>1, <2>2 DEF Next
<1> QED  BY <1>1, <1>2, TypeCorrect, PTL DEF Spec
-----------------------------------------------------------------------------
(* What folding a span does to the history and to the places before it.    *)
LEMMA History ==
    ASSUME TypeOK, NEW s \in Spans, FoldSpan(s)
    PROVE  /\ s \in Span /\ transaction \in Transaction
           /\ transaction' = Fold(transaction, s)
           /\ Len(spans) \in Nat /\ Len(spans') = Len(spans) + 1
           /\ DOMAIN spans = 1..Len(spans)
           /\ DOMAIN spans' = 1..Len(spans) + 1
           /\ spans'[Len(spans) + 1] = s
           /\ \A i \in 1..Len(spans) : spans'[i] = spans[i]
BY TransactionAssumption DEF FoldSpan, TypeOK

(* The extremes of a layer after a call lie on both sides of the call and  *)
(* of what lay between them before.                                        *)
LEMMA Extremes ==
    ASSUME NEW layer \in Layer, NEW s \in Span
    PROVE  LET after == AddCall(layer, s)
           IN  /\ after.min \in Int /\ after.max \in Int
               /\ after.min <= layer.min /\ layer.max <= after.max
               /\ after.min <= Duration(s) /\ Duration(s) <= after.max
<1>1. Duration(s) \in Int /\ layer.min \in Int /\ layer.max \in Int
  BY DEF Duration, Span, Layer
<1>2. /\ AddCall(layer, s).min = Smaller(layer.min, Duration(s))
      /\ AddCall(layer, s).max = Larger(layer.max, Duration(s))
  BY DEF AddCall, Detail
<1> QED  BY <1>1, <1>2 DEF Larger, Smaller

(* The time of every call of a layer is between its Min and its Max, in a  *)
(* trace of any length, negative times included.                           *)
THEOREM ExtremesCorrect == Spec => []LayerExtremes
<1>1. Init => LayerExtremes
  BY DEF Init, LayerExtremes
<1>2. TypeOK /\ LayerExtremes /\ [Next]_vars => LayerExtremes'
  <2> SUFFICES ASSUME TypeOK, LayerExtremes, [Next]_vars PROVE LayerExtremes'
    OBVIOUS
  <2>1. ASSUME NEW s \in Spans, FoldSpan(s) PROVE LayerExtremes'
    <3> SUFFICES ASSUME NEW l \in Layers, NEW i \in DOMAIN spans', Calls(spans'[i], l)
                 PROVE  Duration(spans'[i])
                          \in transaction'.layers[l].min..transaction'.layers[l].max
      BY DEF LayerExtremes
    <3> DEFINE before == transaction.layers[l]
               after == transaction'.layers[l]
    <3>1. s \in Span /\ before \in Layer
      BY <2>1, History DEF Transaction
    <3>2. after = IF Calls(s, l) THEN AddCall(before, s) ELSE before
      BY <2>1, History DEF Fold
    <3>3. before.min \in Int /\ before.max \in Int
      BY <3>1 DEF Layer
    <3> HIDE DEF before, after
    <3>4. /\ after.min \in Int /\ after.max \in Int
          /\ after.min <= before.min /\ before.max <= after.max
      BY <3>1, <3>2, <3>3, Extremes
    <3>5. CASE i = Len(spans) + 1
      <4>1. spans'[i] = s
        BY <2>1, <3>5, History
      <4>2. after.min <= Duration(s) /\ Duration(s) <= after.max /\ Duration(s) \in Int
        BY <3>1, <3>2, <4>1, Extremes DEF Duration, Span
      <4> QED  BY <3>4, <4>1, <4>2 DEF after
    <3>6. CASE i # Len(spans) + 1
      <4>1. i \in DOMAIN spans /\ spans'[i] = spans[i]
        BY <2>1, <3>6, History
      <4>2. Duration(spans[i]) \in before.min..before.max
        BY <4>1 DEF LayerExtremes, before
      <4> QED  BY <3>3, <3>4, <4>1, <4>2 DEF after
    <3> QED  BY <3>5, <3>6
  <2>2. CASE UNCHANGED vars
    BY <2>2 DEF vars, LayerExtremes
  <2> QED  BY <2>1, <2>2 DEF Next
<1> QED  BY <1>1, <1>2, TypeCorrect, PTL DEF Spec
-----------------------------------------------------------------------------
Resets(s) == IsEntry(s) /\ s.errName
Spoils(s) == Fails(s) \/ (IsEntry(s) /\ s.exceptions > 0)

(* StatusExplained, with names for what a span does.                       *)
Spoilt == \E i \in DOMAIN spans : Spoils(spans[i]) /\ \A j \in i..Len(spans) : ~Resets(spans[j])

(* The status is KO exactly when some span spoiled it and none from there  *)
(* on has reset it, in a trace of any length.                              *)
THEOREM StatusCorrect == Spec => []StatusExplained
<1>1. Init => StatusExplained
  BY DEF Init, StatusExplained, NewTransaction
<1>2. TypeOK /\ StatusExplained /\ [Next]_vars => StatusExplained'
  <2> SUFFICES ASSUME TypeOK, StatusExplained, [Next]_vars PROVE StatusExplained'
    OBVIOUS
  <2>1. ASSUME NEW s \in Spans, FoldSpan(s) PROVE StatusExplained'
    <3> DEFINE n == Len(spans)
    <3>1. /\ n \in Nat /\ Len(spans') = n + 1
          /\ DOMAIN spans = 1..n /\ DOMAIN spans' = 1..n + 1
          /\ spans'[n + 1] = s
          /\ \A i \in 1..n : spans'[i] = spans[i]
      BY <2>1, History
    <3>2. transaction'.status =
            IF Resets(s) THEN "OK" ELSE IF Spoils(s) THEN "KO" ELSE transaction.status
      BY <2>1, History DEF Fold, StatusAfter, Resets, Spoils
    <3> HIDE DEF n
    <3>3. CASE Resets(s)
      <4>1. ~Spoilt'
        BY <3>1, <3>3 DEF Spoilt
      <4> QED  BY <3>2, <3>3, <4>1 DEF StatusExplained, Spoilt, Spoils, Resets
    <3>4. CASE ~Resets(s) /\ Spoils(s)
      <4>1. Spoilt'
        <5>1. n + 1 \in DOMAIN spans' /\ \A j \in n + 1..Len(spans') : j = n + 1
          BY <3>1
        <5> QED  BY <3>1, <3>4, <5>1 DEF Spoilt
      <4> QED  BY <3>2, <3>4, <4>1 DEF StatusExplained, Spoilt, Spoils, Resets
    <3>5. CASE ~Resets(s) /\ ~Spoils(s)
      <4>1. ASSUME Spoilt PROVE Spoilt'
        <5>1. PICK i \in 1..n : Spoils(spans[i]) /\ \A j \in i..n : ~Resets(spans[j])
          BY <3>1, <4>1 DEF Spoilt, n
        <5>2. \A j \in i..n + 1 : ~Resets(spans'[j])
          BY <3>1, <3>5, <5>1
        <5>3. i \in DOMAIN spans' /\ Spoils(spans'[i])
          BY <3>1, <5>1
        <5> QED  BY <3>1, <5>2, <5>3 DEF Spoilt
      <4>2. ASSUME Spoilt' PROVE Spoilt
        <5>1. PICK i \in 1..n + 1 :
                Spoils(spans'[i]) /\ \A j \in i..n + 1 : ~Resets(spans'[j])
          BY <3>1, <4>2 DEF Spoilt
        <5>2. i \in 1..n
          BY <3>1, <3>5, <5>1
        <5>3. \A j \in i..n : ~Resets(spans[j])
          BY <3>1, <5>1, <5>2
        <5> QED  BY <3>1, <5>1, <5>2, <5>3 DEF Spoilt, n
      <4> QED
        BY <3>2, <3>5, <4>1, <4>2 DEF StatusExplained, Spoilt, Spoils, Resets
    <3> QED  BY <3>3, <3>4, <3>5
  <2>2. CASE UNCHANGED vars
    BY <2>2 DEF vars, StatusExplained
  <2> QED  BY <2>1, <2>2 DEF Next
<1> QED  BY <1>1, <1>2, TypeCorrect, PTL DEF Spec
-----------------------------------------------------------------------------
(* LayerTotals, with the calls of a layer and their times for a sequence   *)
(* of spans, and Sums for the recursive function.                          *)
CallsOf(q, l) == {i \in DOMAIN q : Calls(q[i], l)}
Failed(q, l)  == {i \in CallsOf(q, l) : Fails(q[i])}
Times(q, l)   == [i \in Nat |-> IF i \in CallsOf(q, l) THEN Duration(q[i]) ELSE 0]

Totals ==
    \A l \in Layers :
        /\ transaction.layers[l].count = Cardinality(CallsOf(spans, l))
        /\ transaction.layers[l].errors = Cardinality(Failed(spans, l))
        /\ transaction.layers[l].time = Sums(Times(spans, l))[Len(spans)]

LEMMA TimesType ==
    ASSUME NEW q \in Seq(Spans), NEW l PROVE Times(q, l) \in [Nat -> Int]
<1>1. \A i \in CallsOf(q, l) : Duration(q[i]) \in Int
  BY TransactionAssumption DEF CallsOf, Duration, Span
<1> QED  BY <1>1 DEF Times

LEMMA TotalTime ==
    ASSUME NEW q \in Seq(Spans), NEW l
    PROVE  LET calls == {i \in DOMAIN q : Calls(q[i], l)}
               time[i \in 0..Len(q)] ==
                  IF i = 0 THEN 0
                  ELSE time[i - 1] + (IF i \in calls THEN Duration(q[i]) ELSE 0)
           IN  time[Len(q)] = Sums(Times(q, l))[Len(q)]
<1> DEFINE calls == {i \in DOMAIN q : Calls(q[i], l)}
           P(f) == f = [i \in 0..Len(q) |-> IF i = 0 THEN 0
                          ELSE f[i - 1] + (IF i \in calls THEN Duration(q[i]) ELSE 0)]
           time == CHOOSE f : P(f)
<1>1. Times(q, l) \in [Nat -> Int] /\ Len(q) \in Nat
  BY TimesType
<1>2. \A i \in 0..Len(q) :
         Times(q, l)[i] = IF i \in calls THEN Duration(q[i]) ELSE 0
  BY DEF Times, CallsOf
<1> HIDE DEF calls
<1>3. \A f : P(f) <=> f = [i \in 0..Len(q) |-> IF i = 0 THEN 0
                                               ELSE f[i - 1] + Times(q, l)[i]]
  BY <1>2
<1>4. /\ \E f : P(f)
      /\ \A f : P(f) => f[Len(q)] = Sums(Times(q, l))[Len(q)]
  <2> DEFINE g == Times(q, l)
             n == Len(q)
             R(f) == f = [i \in 0..n |-> IF i = 0 THEN 0 ELSE f[i - 1] + g[i]]
  <2>1. \A f : P(f) <=> R(f)
    BY <1>3
  <2>2. g \in [Nat -> Int] /\ n \in Nat
    BY <1>1
  <2> HIDE DEF P, g, n
  <2>3. /\ \E f : R(f)
        /\ \A f : R(f) => f[n] = Sums(g)[n]
    BY <2>2, RecursiveSums
  <2> HIDE DEF R
  <2>4. /\ \E f : P(f)
        /\ \A f : P(f) => f[n] = Sums(g)[n]
    BY <2>1, <2>3
  <2> QED  BY <2>4 DEF g, n
<1>5. P(time)
  <2> HIDE DEF P
  <2> QED  BY <1>4
<1> HIDE DEF time
<1>6. time[Len(q)] = Sums(Times(q, l))[Len(q)]
  BY <1>4, <1>5
<1> QED  BY <1>6 DEF time, calls

LEMMA TotalsAre == ASSUME TypeOK, Totals PROVE LayerTotals
BY TotalTime DEF Totals, LayerTotals, CallsOf, Failed, TypeOK

(* What another span at the end of the trace adds to the calls of a layer. *)
Grown(r, q, s, l) ==
    /\ Cardinality(CallsOf(r, l)) =
         Cardinality(CallsOf(q, l)) + IF Calls(s, l) THEN 1 ELSE 0
    /\ Cardinality(Failed(r, l)) =
         Cardinality(Failed(q, l)) + IF Calls(s, l) /\ Fails(s) THEN 1 ELSE 0
    /\ Sums(Times(r, l))[Len(r)] =
         Sums(Times(q, l))[Len(q)] + IF Calls(s, l) THEN Duration(s) ELSE 0

LEMMA CallsGrow ==
    ASSUME NEW q \in Seq(Spans), NEW s \in Spans, NEW l,
           NEW r, r = Append(q, s)
    PROVE  Grown(r, q, s, l)
<1> DEFINE n == Len(q)
<1>1. /\ n \in Nat /\ Len(r) = n + 1 /\ r \in Seq(Spans)
      /\ DOMAIN q = 1..n /\ DOMAIN r = 1..(n + 1)
      /\ r[n + 1] = s /\ \A i \in 1..n : r[i] = q[i]
  OBVIOUS
<1> HIDE DEF n
<1>2. n + 1 \notin 1..n /\ 1..(n + 1) = (1..n) \cup {n + 1}
  BY <1>1
<1>3. /\ CallsOf(q, l) \subseteq 1..n /\ Failed(q, l) \subseteq 1..n
      /\ CallsOf(r, l) = CallsOf(q, l) \cup IF Calls(s, l) THEN {n + 1} ELSE {}
      /\ Failed(r, l) = Failed(q, l) \cup IF Calls(s, l) /\ Fails(s) THEN {n + 1} ELSE {}
  BY <1>1, <1>2 DEF CallsOf, Failed
<1>4. IsFiniteSet(CallsOf(q, l)) /\ IsFiniteSet(Failed(q, l))
  <2>1. IsFiniteSet(1..n)
    BY <1>1, FS_Interval
  <2> QED  BY <1>3, <2>1, FS_Subset
<1>5. Cardinality(CallsOf(r, l)) =
        Cardinality(CallsOf(q, l)) + IF Calls(s, l) THEN 1 ELSE 0
  <2>1. n + 1 \notin CallsOf(q, l) /\ Cardinality(CallsOf(q, l)) \in Nat
    BY <1>2, <1>3, <1>4, FS_CardinalityType
  <2>2. Cardinality(CallsOf(q, l) \cup {n + 1}) = Cardinality(CallsOf(q, l)) + 1
    BY <1>4, <2>1, FS_AddElement
  <2>3. CASE Calls(s, l)
    BY <1>3, <2>2, <2>3
  <2>4. CASE ~Calls(s, l)
    <3>1. CallsOf(r, l) = CallsOf(q, l)
      BY <1>3, <2>4
    <3> QED  BY <2>1, <2>4, <3>1
  <2> QED  BY <2>3, <2>4
<1>6. Cardinality(Failed(r, l)) =
        Cardinality(Failed(q, l)) + IF Calls(s, l) /\ Fails(s) THEN 1 ELSE 0
  <2>1. n + 1 \notin Failed(q, l) /\ Cardinality(Failed(q, l)) \in Nat
    BY <1>2, <1>3, <1>4, FS_CardinalityType
  <2>2. Cardinality(Failed(q, l) \cup {n + 1}) = Cardinality(Failed(q, l)) + 1
    BY <1>4, <2>1, FS_AddElement
  <2>3. CASE Calls(s, l) /\ Fails(s)
    BY <1>3, <2>2, <2>3
  <2>4. CASE ~(Calls(s, l) /\ Fails(s))
    <3>1. Failed(r, l) = Failed(q, l)
      BY <1>3, <2>4
    <3> QED  BY <2>1, <2>4, <3>1
  <2> QED  BY <2>3, <2>4
<1>7. Sums(Times(r, l))[n + 1] =
        Sums(Times(q, l))[n] + IF Calls(s, l) THEN Duration(s) ELSE 0
  <2>1. Times(q, l) \in [Nat -> Int] /\ Times(r, l) \in [Nat -> Int]
    BY <1>1, TimesType
  <2>2. \A i \in 1..n : Times(q, l)[i] = Times(r, l)[i]
    BY <1>1 DEF Times, CallsOf
  <2>3. Times(r, l)[n + 1] = IF Calls(s, l) THEN Duration(s) ELSE 0
    BY <1>1 DEF Times, CallsOf
  <2>4. Sums(Times(q, l))[n] = Sums(Times(r, l))[n]
    BY <1>1, <2>1, <2>2, SumsAgree
  <2>5. Sums(Times(r, l))[n + 1] = Sums(Times(r, l))[n] + Times(r, l)[n + 1]
    BY <1>1, <2>1, SumsDef DEF IsSums
  <2> QED  BY <2>3, <2>4, <2>5
<1> QED  BY <1>1, <1>5, <1>6, <1>7 DEF n, Grown

(* The totals of a layer are those of the calls that were folded in, in a  *)
(* trace of any length.                                                    *)
THEOREM TotalsCorrect == Spec => []LayerTotals
<1>1. Init => Totals
  <2> SUFFICES ASSUME Init, NEW l \in Layers
               PROVE  /\ transaction.layers[l].count = Cardinality(CallsOf(spans, l))
                      /\ transaction.layers[l].errors = Cardinality(Failed(spans, l))
                      /\ transaction.layers[l].time = Sums(Times(spans, l))[Len(spans)]
    BY DEF Totals
  <2>1. /\ transaction.layers[l].count = 0 /\ transaction.layers[l].errors = 0
        /\ transaction.layers[l].time = 0
    BY DEF Init, NewTransaction, EmptyLayer
  <2>2. CallsOf(spans, l) = {} /\ Failed(spans, l) = {} /\ Len(spans) = 0
        /\ spans \in Seq(Spans)
    BY DEF Init, CallsOf, Failed
  <2>3. Sums(Times(spans, l))[0] = 0
    BY <2>2, TimesType, SumsDef DEF IsSums
  <2> QED  BY <2>1, <2>2, <2>3, FS_EmptySet
<1>2. TypeOK /\ Totals /\ [Next]_vars => Totals'
  <2> SUFFICES ASSUME TypeOK, Totals, [Next]_vars PROVE Totals'
    OBVIOUS
  <2>1. ASSUME NEW s \in Spans, FoldSpan(s) PROVE Totals'
    <3> SUFFICES ASSUME NEW l \in Layers
                 PROVE  /\ transaction'.layers[l].count = Cardinality(CallsOf(spans', l))
                        /\ transaction'.layers[l].errors = Cardinality(Failed(spans', l))
                        /\ transaction'.layers[l].time = Sums(Times(spans', l))[Len(spans')]
      BY DEF Totals, CallsOf, Failed, Times
    <3> DEFINE before == transaction.layers[l]
               after == transaction'.layers[l]
    <3>1. s \in Span /\ before \in Layer
      BY <2>1, History DEF Transaction
    <3>2. after = IF Calls(s, l) THEN AddCall(before, s) ELSE before
      BY <2>1, History DEF Fold
    <3>3. /\ before.count \in Nat /\ before.errors \in Nat /\ before.time \in Int
          /\ Duration(s) \in Int
      BY <3>1 DEF Layer, Duration, Span
    <3>4. /\ before.count = Cardinality(CallsOf(spans, l))
          /\ before.errors = Cardinality(Failed(spans, l))
          /\ before.time = Sums(Times(spans, l))[Len(spans)]
      BY DEF Totals
    <3> HIDE DEF before, after
    <3>5. /\ after.count = before.count + IF Calls(s, l) THEN 1 ELSE 0
          /\ after.errors = before.errors + IF Calls(s, l) /\ Fails(s) THEN 1 ELSE 0
          /\ after.time = before.time + IF Calls(s, l) THEN Duration(s) ELSE 0
      BY <3>2, <3>3 DEF AddCall, Detail
    <3>6. spans \in Seq(Spans) /\ spans' = Append(spans, s)
      BY <2>1 DEF FoldSpan, TypeOK
    <3>7. /\ after.count = Cardinality(CallsOf(spans', l))
          /\ after.errors = Cardinality(Failed(spans', l))
          /\ after.time = Sums(Times(spans', l))[Len(spans')]
      <4> DEFINE r == spans'
      <4>1. r = Append(spans, s)
        BY <3>6
      <4> DEFINE q == spans
      <4>2. Grown(r, q, s, l)
        <5>1. q \in Seq(Spans)
          BY <3>6
        <5> HIDE DEF q, r
        <5> QED  BY <4>1, <5>1, CallsGrow DEF q
      <4> HIDE DEF r
      <4>3. /\ after.count = Cardinality(CallsOf(r, l))
            /\ after.errors = Cardinality(Failed(r, l))
            /\ after.time = Sums(Times(r, l))[Len(r)]
        BY <3>4, <3>5, <4>2 DEF Grown
      <4> QED  BY <4>3 DEF r
    <3> QED  BY <3>7 DEF after
  <2>2. CASE UNCHANGED vars
    BY <2>2 DEF vars, Totals, CallsOf, Failed, Times
  <2> QED  BY <2>1, <2>2 DEF Next
<1>3. TypeOK /\ Totals => LayerTotals
  BY TotalsAre
<1> QED  BY <1>1, <1>2, <1>3, TypeCorrect, PTL DEF Spec
-----------------------------------------------------------------------------
(* ArrivalOrderIrrelevant.  Two transactions are alike when their          *)
(* summaries are the same, part by part.                                   *)
Alike(t, u) ==
    /\ t.start = u.start /\ t.end = u.end /\ t.found = u.found /\ t.urlid = u.urlid
    /\ \A l \in Layers :
         /\ t.layers[l].count = u.layers[l].count
         /\ t.layers[l].errors = u.layers[l].errors
         /\ t.layers[l].time = u.layers[l].time
         /\ t.layers[l].max = u.layers[l].max
         /\ t.layers[l].min = u.layers[l].min

LEMMA AlikeSummary ==
    ASSUME NEW t, NEW u, Alike(t, u) PROVE Summary(t) = Summary(u)
<1>1. ASSUME NEW l \in Layers, NEW f \in {"count", "errors", "time", "max", "min"}
      PROVE  t.layers[l][f] = u.layers[l][f]
  BY <1>1 DEF Alike
<1> QED  BY <1>1 DEF Alike, Summary

(* What a span does to the summary of a transaction.                       *)
LEMMA FoldParts ==
    ASSUME NEW t \in Transaction, NEW s \in Span
    PROVE  LET u == Fold(t, s)
           IN  /\ u.start = StartAfter(t.start, s)
               /\ u.end = IF IsEntry(s) THEN Larger(t.end, s.end) ELSE t.end
               /\ u.found = t.found + ErrorsOf(s)
               /\ u.urlid = IF EndsTrace(s) THEN NOWAITANDSEND ELSE t.urlid
               /\ \A l \in Layers :
                    u.layers[l] = IF Calls(s, l) THEN AddCall(t.layers[l], s) ELSE t.layers[l]
BY DEF Fold

(* Alike transactions stay alike when the same span is folded into both.   *)
LEMMA AlikeFold ==
    ASSUME NEW t \in Transaction, NEW u \in Transaction, Alike(t, u), NEW s \in Span
    PROVE  Alike(Fold(t, s), Fold(u, s))
<1> DEFINE a == Fold(t, s)
           b == Fold(u, s)
<1>1. /\ a.start = b.start /\ a.end = b.end /\ a.found = b.found /\ a.urlid = b.urlid
  BY FoldParts DEF Alike
<1>2. ASSUME NEW l \in Layers
      PROVE  /\ a.layers[l].count = b.layers[l].count
             /\ a.layers[l].errors = b.layers[l].errors
             /\ a.layers[l].time = b.layers[l].time
             /\ a.layers[l].max = b.layers[l].max
             /\ a.layers[l].min = b.layers[l].min
  <2>1. /\ a.layers[l] = IF Calls(s, l) THEN AddCall(t.layers[l], s) ELSE t.layers[l]
        /\ b.layers[l] = IF Calls(s, l) THEN AddCall(u.layers[l], s) ELSE u.layers[l]
    BY FoldParts
  <2> HIDE DEF a, b
  <2> QED  BY <2>1 DEF Alike, AddCall
<1> QED  BY <1>1, <1>2 DEF Alike

(* Two spans may be folded in either order.                                *)
LEMMA Commute ==
    ASSUME NEW t \in Transaction, NEW s \in Span, NEW r \in Span
    PROVE  Alike(Fold(Fold(t, s), r), Fold(Fold(t, r), s))
<1> DEFINE ts == Fold(t, s)
           tr == Fold(t, r)
           a == Fold(ts, r)
           b == Fold(tr, s)
<1>1. ts \in Transaction /\ tr \in Transaction
  BY FoldType
<1>2. a.start = b.start
  <2>1. /\ a.start = StartAfter(StartAfter(t.start, s), r)
        /\ b.start = StartAfter(StartAfter(t.start, r), s)
    BY <1>1, FoldParts
  <2>2. t.start \in Nat \cup {Nil} /\ s.start \in Nat /\ r.start \in Nat /\ Nil \notin Nat
    BY SpanAssumption DEF Transaction, Span
  <2> HIDE DEF a, b
  <2> QED  BY <2>1, <2>2 DEF StartAfter
<1>3. a.end = b.end
  <2>1. /\ a.end = IF IsEntry(r) THEN Larger(ts.end, r.end) ELSE ts.end
        /\ b.end = IF IsEntry(s) THEN Larger(tr.end, s.end) ELSE tr.end
        /\ ts.end = IF IsEntry(s) THEN Larger(t.end, s.end) ELSE t.end
        /\ tr.end = IF IsEntry(r) THEN Larger(t.end, r.end) ELSE t.end
    BY <1>1, FoldParts
  <2>2. t.end \in Nat /\ s.end \in Nat /\ r.end \in Nat
    BY DEF Transaction, Span
  <2> HIDE DEF a, b, ts, tr
  <2> QED  BY <2>1, <2>2 DEF Larger
<1>4. a.found = b.found /\ a.urlid = b.urlid
  <2>1. /\ a.found = t.found + ErrorsOf(s) + ErrorsOf(r)
        /\ b.found = t.found + ErrorsOf(r) + ErrorsOf(s)
    BY <1>1, FoldParts
  <2>2. t.found \in Nat /\ ErrorsOf(s) \in Nat /\ ErrorsOf(r) \in Nat
    BY SpanErrors DEF Transaction
  <2>3. a.urlid = b.urlid
    BY <1>1, FoldParts
  <2> HIDE DEF a, b
  <2> QED  BY <2>1, <2>2, <2>3
<1>5. ASSUME NEW l \in Layers
      PROVE  /\ a.layers[l].count = b.layers[l].count
             /\ a.layers[l].errors = b.layers[l].errors
             /\ a.layers[l].time = b.layers[l].time
             /\ a.layers[l].max = b.layers[l].max
             /\ a.layers[l].min = b.layers[l].min
  <2> DEFINE x == t.layers[l]
             xs == ts.layers[l]
             xr == tr.layers[l]
             xa == a.layers[l]
             xb == b.layers[l]
  <2>1. /\ xs = IF Calls(s, l) THEN AddCall(x, s) ELSE x
        /\ xr = IF Calls(r, l) THEN AddCall(x, r) ELSE x
        /\ xa = IF Calls(r, l) THEN AddCall(xs, r) ELSE xs
        /\ xb = IF Calls(s, l) THEN AddCall(xr, s) ELSE xr
    BY <1>1, FoldParts
  <2>2. /\ x.count \in Nat /\ x.errors \in Nat /\ x.time \in Int
        /\ x.max \in Int /\ x.min \in Int
    BY DEF Transaction, Layer
  <2>3. /\ Detail(s).count = 1 /\ Detail(s).errors \in {0, 1} /\ Detail(s).time \in Int
        /\ Detail(r).count = 1 /\ Detail(r).errors \in {0, 1} /\ Detail(r).time \in Int
    BY DEF Detail, Duration, Span
  <2> HIDE DEF x, xs, xr, xa, xb
  <2>4. CASE ~Calls(s, l) \/ ~Calls(r, l)
    <3>1. xa = xb
      BY <2>1, <2>4
    <3> QED  BY <3>1 DEF xa, xb
  <2>5. CASE Calls(s, l) /\ Calls(r, l)
    <3> DEFINE ds == Detail(s)
               dr == Detail(r)
    <3>1. /\ xa.count = x.count + ds.count + dr.count
          /\ xb.count = x.count + dr.count + ds.count
          /\ xa.errors = x.errors + ds.errors + dr.errors
          /\ xb.errors = x.errors + dr.errors + ds.errors
          /\ xa.time = x.time + ds.time + dr.time
          /\ xb.time = x.time + dr.time + ds.time
      BY <2>1, <2>5 DEF AddCall
    <3>2. /\ xa.max = Larger(Larger(x.max, ds.time), dr.time)
          /\ xb.max = Larger(Larger(x.max, dr.time), ds.time)
          /\ xa.min = Smaller(Smaller(x.min, ds.time), dr.time)
          /\ xb.min = Smaller(Smaller(x.min, dr.time), ds.time)
      BY <2>1, <2>5 DEF AddCall
    <3> HIDE DEF ds, dr
    <3>3. xa.count = xb.count /\ xa.errors = xb.errors /\ xa.time = xb.time
      BY <2>2, <2>3, <3>1 DEF ds, dr
    <3>4. xa.max = xb.max /\ xa.min = xb.min
      BY <2>2, <2>3, <3>2 DEF ds, dr, Larger, Smaller
    <3> QED  BY <3>3, <3>4 DEF xa, xb
  <2> QED  BY <2>4, <2>5
<1> HIDE DEF a, b
<1>6. Alike(a, b)
  BY <1>2, <1>3, <1>4, <1>5 DEF Alike
<1> QED  BY <1>6 DEF a, b

LEMMA AlikeTransitive ==
    ASSUME NEW t, NEW u, NEW v, Alike(t, u), Alike(u, v)
    PROVE  Alike(t, v)
BY DEF Alike

LEMMA AlikeSymmetric ==
    ASSUME NEW t, NEW u PROVE Alike(t, t) /\ (Alike(t, u) => Alike(u, t))
BY DEF Alike

(* g folds every set of the first n spans of q in some order, and yields   *)
(* alike transactions whichever span of a set it folds last.               *)
IsFolds(g, q, n) ==
    /\ g \in [SUBSET (1..n) -> Transaction]
    /\ Alike(g[{}], NewTransaction)
    /\ \A A \in SUBSET (1..n) : \A x \in (1..n) \ A :
         Alike(g[A \cup {x}], Fold(g[A], q[x]))

LEMMA NewType == NewTransaction \in Transaction
BY DEF NewTransaction, Transaction, EmptyLayer, Layer

LEMMA FoldsGrow ==
    ASSUME NEW q, NEW n \in Nat, \A i \in 1..(n + 1) : q[i] \in Span,
           NEW g, IsFolds(g, q, n)
    PROVE  \E h : IsFolds(h, q, n + 1)
<1> DEFINE m == n + 1
           h == [A \in SUBSET (1..m) |->
                   IF m \in A THEN Fold(g[A \ {m}], q[m]) ELSE g[A]]
<1>1. /\ m \in 1..m /\ m \notin 1..n /\ 1..n \subseteq 1..m
      /\ \A A \in SUBSET (1..m) : A \ {m} \in SUBSET (1..n)
      /\ \A A \in SUBSET (1..m) : m \notin A => A \in SUBSET (1..n)
      /\ \A i \in 1..m : i # m => i \in 1..n
  OBVIOUS
<1>2. /\ \A A \in SUBSET (1..n) : g[A] \in Transaction
      /\ \A i \in 1..m : q[i] \in Span
  BY DEF IsFolds
<1> HIDE DEF m
<1>3. h \in [SUBSET (1..m) -> Transaction]
  <2> SUFFICES ASSUME NEW A \in SUBSET (1..m)
               PROVE  (IF m \in A THEN Fold(g[A \ {m}], q[m]) ELSE g[A]) \in Transaction
    OBVIOUS
  <2>1. g[A \ {m}] \in Transaction /\ q[m] \in Span
    BY <1>1, <1>2
  <2> QED  BY <1>1, <1>2, <2>1, FoldType
<1>4. h[{}] = g[{}]
  OBVIOUS
<1>5. ASSUME NEW A \in SUBSET (1..m), NEW x \in (1..m) \ A
      PROVE  Alike(h[A \cup {x}], Fold(h[A], q[x]))
  <2>1. A \cup {x} \in SUBSET (1..m) /\ q[x] \in Span /\ q[m] \in Span
    BY <1>1, <1>2
  <2>2. CASE x = m
    <3>1. h[A] = g[A] /\ (A \cup {x}) \ {m} = A /\ m \in A \cup {x}
      BY <2>2
    <3>2. h[A \cup {x}] = Fold(g[A], q[x])
      BY <2>1, <2>2, <3>1
    <3> QED  BY <3>1, <3>2, AlikeSymmetric
  <2>3. CASE x # m /\ m \notin A
    <3>1. A \in SUBSET (1..n) /\ x \in (1..n) \ A
      BY <1>1, <2>3
    <3>2. h[A \cup {x}] = g[A \cup {x}] /\ h[A] = g[A]
      BY <2>1, <2>3
    <3> QED  BY <3>1, <3>2 DEF IsFolds
  <2>4. CASE x # m /\ m \in A
    <3> DEFINE B == A \ {m}
               t == g[B]
               u == g[B \cup {x}]
    <3>1. B \in SUBSET (1..n) /\ x \in (1..n) \ B /\ B \cup {x} \in SUBSET (1..n)
          /\ (A \cup {x}) \ {m} = B \cup {x} /\ m \in A \cup {x}
      BY <1>1, <2>4
    <3>2. h[A \cup {x}] = Fold(u, q[m]) /\ h[A] = Fold(t, q[m])
      <4>1. h[A \cup {x}] = Fold(g[(A \cup {x}) \ {m}], q[m])
        BY <2>1, <3>1
      <4>2. h[A] = Fold(g[A \ {m}], q[m])
        BY <2>4
      <4> QED  BY <3>1, <4>1, <4>2
    <3>3. Alike(u, Fold(t, q[x])) /\ t \in Transaction /\ u \in Transaction
      BY <1>2, <3>1 DEF IsFolds
    <3> HIDE DEF B, t, u, h
    <3>4. Fold(t, q[x]) \in Transaction
      BY <2>1, <3>3, FoldType
    <3>5. Alike(Fold(u, q[m]), Fold(Fold(t, q[x]), q[m]))
      BY <2>1, <3>3, <3>4, AlikeFold
    <3>6. Alike(Fold(Fold(t, q[x]), q[m]), Fold(Fold(t, q[m]), q[x]))
      BY <2>1, <3>3, Commute
    <3>7. Alike(Fold(u, q[m]), Fold(Fold(t, q[m]), q[x]))
      BY <3>5, <3>6, AlikeTransitive
    <3> QED  BY <3>2, <3>7
  <2> QED  BY <2>2, <2>3, <2>4
<1> HIDE DEF h
<1>6. IsFolds(h, q, m)
  BY <1>3, <1>4, <1>5 DEF IsFolds
<1> QED  BY <1>6 DEF m

LEMMA FoldsExist ==
    ASSUME NEW q, NEW n \in Nat, \A i \in 1..n : q[i] \in Span
    PROVE  \E g : IsFolds(g, q, n)
<1> DEFINE I == {k \in Nat : k \in 0..n => \E g : IsFolds(g, q, k)}
<1>1. 0 \in I
  <2> DEFINE g == [A \in SUBSET (1..0) |-> NewTransaction]
  <2>1. g \in [SUBSET (1..0) -> Transaction] /\ g[{}] = NewTransaction
        /\ 1..0 = {}
    BY NewType
  <2> HIDE DEF g
  <2>2. Alike(g[{}], NewTransaction)
    BY <2>1, AlikeSymmetric
  <2>3. IsFolds(g, q, 0)
    BY <2>1, <2>2 DEF IsFolds
  <2> QED  BY <2>3
<1>2. ASSUME NEW k \in I PROVE k + 1 \in I
  <2> SUFFICES ASSUME k + 1 \in 0..n PROVE \E g : IsFolds(g, q, k + 1)
    OBVIOUS
  <2>1. k \in Nat /\ k \in 0..n /\ \A i \in 1..(k + 1) : q[i] \in Span
    OBVIOUS
  <2>2. PICK g : IsFolds(g, q, k)
    BY <2>1
  <2> HIDE DEF I
  <2> QED  BY <2>1, <2>2, FoldsGrow
<1> HIDE DEF I
<1>3. I = Nat
  <2>1. I \subseteq Nat
    BY DEF I
  <2> QED  BY <1>1, <1>2, <2>1, Induction
<1> QED  BY <1>3 DEF I

(* The spans r[1], ..., r[n] folded in this order.                         *)
IsFoldOf(f, r, n) ==
    /\ f = [i \in 0..n |-> IF i = 0 THEN NewTransaction ELSE Fold(f[i - 1], r[i])]

LEMMA FoldOfExists ==
    ASSUME NEW r, NEW n \in Nat
    PROVE  \E f : IsFoldOf(f, r, n)
<1> DEFINE I == {k \in Nat : \E f : IsFoldOf(f, r, k)}
<1>1. 0 \in I
  <2>1. IsFoldOf([i \in 0..0 |-> NewTransaction], r, 0)
    BY DEF IsFoldOf
  <2> QED  BY <2>1
<1>2. ASSUME NEW k \in I PROVE k + 1 \in I
  <2>1. PICK f : IsFoldOf(f, r, k)
    OBVIOUS
  <2> DEFINE h == [i \in 0..(k + 1) |-> IF i \in 0..k THEN f[i] ELSE Fold(f[k], r[k + 1])]
  <2>2. k \in Nat
    OBVIOUS
  <2>3. \A i \in 0..k : f[i] = IF i = 0 THEN NewTransaction ELSE Fold(f[i - 1], r[i])
    BY <2>1 DEF IsFoldOf
  <2>4. ASSUME NEW i \in 0..(k + 1)
        PROVE  h[i] = IF i = 0 THEN NewTransaction ELSE Fold(h[i - 1], r[i])
    <3>1. CASE i = 0
      BY <2>2, <2>3, <3>1
    <3>2. CASE i \in 1..k
      <4>1. i \in 0..k /\ i - 1 \in 0..k /\ i - 1 \in 0..(k + 1)
        BY <2>2, <3>2
      <4>2. h[i] = f[i] /\ h[i - 1] = f[i - 1]
        BY <4>1
      <4> QED  BY <2>3, <3>2, <4>1, <4>2
    <3>3. CASE i = k + 1
      <4>1. i \notin 0..k /\ i - 1 = k /\ k \in 0..k /\ k \in 0..(k + 1) /\ i # 0
        BY <2>2, <3>3
      <4> QED  BY <3>3, <4>1
    <3> QED  BY <2>2, <3>1, <3>2, <3>3
  <2>5. h = [i \in 0..(k + 1) |->
               IF i = 0 THEN NewTransaction ELSE Fold(h[i - 1], r[i])]
    <3> DEFINE e == [i \in 0..(k + 1) |->
                       IF i = 0 THEN NewTransaction ELSE Fold(h[i - 1], r[i])]
    <3>1. \A i \in 0..(k + 1) : h[i] = e[i]
      BY <2>4
    <3>2. DOMAIN h = 0..(k + 1) /\ DOMAIN e = 0..(k + 1)
      OBVIOUS
    <3>3. h = [i \in 0..(k + 1) |-> h[i]] /\ e = [i \in 0..(k + 1) |-> e[i]]
      OBVIOUS
    <3> HIDE DEF h, e
    <3>4. h = e
      BY <3>1, <3>3
    <3> QED  BY <3>4 DEF e
  <2> HIDE DEF h
  <2>6. IsFoldOf(h, r, k + 1)
    BY <2>5 DEF IsFoldOf
  <2> QED  BY <2>2, <2>6
<1> HIDE DEF I
<1>3. I = Nat
  <2>1. I \subseteq Nat
    BY DEF I
  <2> QED  BY <1>1, <1>2, <2>1, Induction
<1> QED  BY <1>3 DEF I

(* Whatever the order p, the spans folded so far make a transaction like   *)
(* the one g yields for the set of them; in the end that is all spans.     *)
AreSpans(q, n)     == \A i \in 1..n : q[i] \in Span
Reorders(p, n)     == p \in [1..n -> 1..n] /\ \A i, j \in 1..n : i # j => p[i] # p[j]
Reordered(q, p, n) == [i \in 1..n |-> q[p[i]]]

LEMMA AnyOrder ==
    ASSUME NEW q, NEW n \in Nat, AreSpans(q, n),
           NEW g, IsFolds(g, q, n),
           NEW p, Reorders(p, n),
           NEW f, IsFoldOf(f, Reordered(q, p, n), n)
    PROVE  f[n] \in Transaction /\ Alike(f[n], g[1..n])
<1> DEFINE S(i) == {p[j] : j \in 1..i}
           Good(i) == /\ IsFiniteSet(S(i)) /\ Cardinality(S(i)) = i
                      /\ f[i] \in Transaction
                      /\ Alike(f[i], g[S(i)])
           I == {i \in Nat : i \in 0..n => Good(i)}
           r == Reordered(q, p, n)
<1>1. \A i \in 0..n : f[i] = IF i = 0 THEN NewTransaction ELSE Fold(f[i - 1], r[i])
  <2> HIDE DEF r
  <2>1. IsFoldOf(f, r, n)
    BY DEF r
  <2> QED  BY <2>1 DEF IsFoldOf
<1>0. /\ p \in [1..n -> 1..n] /\ \A i, j \in 1..n : i # j => p[i] # p[j]
      /\ \A i \in 1..n : q[i] \in Span /\ r[i] = q[p[i]]
  BY DEF Reorders, AreSpans, Reordered
<1>2. \A i \in 0..n : S(i) \in SUBSET (1..n)
  BY <1>0
<1> HIDE DEF r
<1>3. 0 \in I
  <2>1. S(0) = {} /\ 0 \in 0..n
    OBVIOUS
  <2>2. f[0] = NewTransaction
    BY <1>1, <2>1
  <2> HIDE DEF S
  <2>3. Alike(g[S(0)], f[0])
    BY <2>1, <2>2 DEF IsFolds
  <2>4. Good(0)
    BY <2>1, <2>2, <2>3, NewType, AlikeSymmetric, FS_EmptySet
  <2> QED  BY <2>4
<1>4. ASSUME NEW i \in I, i + 1 \in 0..n PROVE Good(i + 1)
  <2> DEFINE x == p[i + 1]
  <2>1. i \in Nat /\ i \in 0..n /\ i + 1 \in 1..n /\ i + 1 # 0 /\ (i + 1) - 1 = i
    BY <1>4
  <2>2. Good(i)
    BY <2>1
  <2>3. x \in 1..n /\ q[x] \in Span /\ r[i + 1] = q[x]
    BY <1>0, <2>1
  <2>4. x \notin S(i)
    <3>1. \A j \in 1..i : j \in 1..n /\ j # i + 1
      BY <2>1
    <3> QED  BY <1>0, <2>1, <3>1
  <2>5. S(i + 1) = S(i) \cup {x}
    <3>1. 1..(i + 1) = (1..i) \cup {i + 1}
      BY <2>1
    <3>2. ASSUME NEW y PROVE y \in S(i + 1) <=> y \in S(i) \cup {x}
      BY <3>1
    <3> QED  BY <3>2
  <2>6. S(i) \in SUBSET (1..n)
    BY <1>2, <2>1
  <2>7. f[i + 1] = Fold(f[i], q[x])
    BY <1>1, <2>1, <2>3
  <2>8. g[S(i)] \in Transaction /\ Alike(g[S(i) \cup {x}], Fold(g[S(i)], q[x]))
    BY <2>3, <2>4, <2>6 DEF IsFolds
  <2> HIDE DEF I, S, x
  <2>9. f[i + 1] \in Transaction /\ Alike(Fold(f[i], q[x]), Fold(g[S(i)], q[x]))
    BY <2>2, <2>3, <2>7, <2>8, FoldType, AlikeFold
  <2>10. Alike(f[i + 1], g[S(i + 1)])
    <3>1. Alike(Fold(g[S(i)], q[x]), g[S(i) \cup {x}])
      BY <2>8, AlikeSymmetric
    <3>2. Alike(Fold(f[i], q[x]), g[S(i) \cup {x}])
      BY <2>9, <3>1, AlikeTransitive
    <3> QED  BY <2>5, <2>7, <3>2
  <2>11. IsFiniteSet(S(i + 1)) /\ Cardinality(S(i + 1)) = i + 1
    BY <2>2, <2>4, <2>5, FS_AddElement
  <2> QED  BY <2>9, <2>10, <2>11
<1> HIDE DEF I
<1>5. I = Nat
  <2>1. I \subseteq Nat
    BY DEF I
  <2>2. ASSUME NEW i \in I PROVE i + 1 \in I
    <3>1. i + 1 \in Nat
      BY <2>1
    <3> HIDE DEF Good
    <3> QED  BY <1>4, <3>1 DEF I
  <2> QED  BY <1>3, <2>1, <2>2, Induction
<1>6. Good(n)
  <2>1. n \in I /\ n \in 0..n
    BY <1>5
  <2> HIDE DEF Good
  <2> QED  BY <2>1 DEF I
<1>7. S(n) = 1..n
  <2>1. IsFiniteSet(1..n) /\ Cardinality(1..n) = n
    BY FS_Interval
  <2>2. S(n) \in SUBSET (1..n)
    BY <1>2
  <2> HIDE DEF S
  <2> QED  BY <1>6, <2>1, <2>2, FS_Subset
<1> HIDE DEF S
<1> QED  BY <1>6, <1>7

(* The transaction is like what the folds of its spans yield for all of    *)
(* them.                                                                   *)
Ordered ==
    \A g : IsFolds(g, spans, Len(spans)) => Alike(transaction, g[1..Len(spans)])

LEMMA OrderedStep ==
    ASSUME TypeOK, Ordered, NEW s \in Spans, FoldSpan(s),
           NEW g, IsFolds(g, spans', Len(spans'))
    PROVE  Alike(transaction', g[1..Len(spans')])
<1> DEFINE n == Len(spans)
           q == spans
           r == spans'
           h == [A \in SUBSET (1..n) |-> g[A]]
           t == transaction
<1>1. /\ s \in Span /\ t \in Transaction /\ transaction' = Fold(t, s)
      /\ n \in Nat /\ Len(r) = n + 1 /\ r[n + 1] = s
      /\ \A i \in 1..n : r[i] = q[i]
  BY History
<1>2. IsFolds(g, r, n + 1)
  BY <1>1
<1>3. \A h1 : IsFolds(h1, q, n) => Alike(t, h1[1..n])
  BY DEF Ordered
<1> HIDE DEF n, q, r, t
<1>4. /\ SUBSET (1..n) \subseteq SUBSET (1..(n + 1))
      /\ 1..n \in SUBSET (1..n) /\ n + 1 \in (1..(n + 1)) \ (1..n)
      /\ 1..(n + 1) = (1..n) \cup {n + 1}
      /\ 1..n \subseteq 1..(n + 1)
  BY <1>1
<1>5. IsFolds(h, q, n)
  <2>1. h \in [SUBSET (1..n) -> Transaction] /\ Alike(h[{}], NewTransaction)
    BY <1>2, <1>4 DEF IsFolds
  <2>2. ASSUME NEW A \in SUBSET (1..n), NEW x \in (1..n) \ A
        PROVE  Alike(h[A \cup {x}], Fold(h[A], q[x]))
    <3>1. Alike(g[A \cup {x}], Fold(g[A], r[x]))
      <4>1. A \in SUBSET (1..(n + 1)) /\ x \in (1..(n + 1)) \ A
        BY <1>4
      <4> QED  BY <1>2, <4>1 DEF IsFolds
    <3>2. h[A \cup {x}] = g[A \cup {x}] /\ h[A] = g[A] /\ r[x] = q[x]
      BY <1>1
    <3> QED  BY <3>1, <3>2
  <2> QED  BY <2>1, <2>2 DEF IsFolds
<1>6. Alike(t, g[1..n]) /\ g[1..n] \in Transaction
  <2>1. h[1..n] = g[1..n]
    BY <1>4
  <2>2. Alike(t, h[1..n])
    BY <1>3, <1>5
  <2>3. g[1..n] \in Transaction
    BY <1>2, <1>4 DEF IsFolds
  <2> QED  BY <2>1, <2>2, <2>3
<1>7. Alike(g[1..(n + 1)], Fold(g[1..n], s))
  <2>1. Alike(g[(1..n) \cup {n + 1}], Fold(g[1..n], r[n + 1]))
    BY <1>2, <1>4 DEF IsFolds
  <2> QED  BY <1>1, <1>4, <2>1
<1>8. Alike(Fold(t, s), Fold(g[1..n], s))
  BY <1>1, <1>6, AlikeFold
<1>9. Alike(Fold(t, s), g[1..(n + 1)])
  <2>1. Alike(Fold(g[1..n], s), g[1..(n + 1)])
    BY <1>7, AlikeSymmetric
  <2> QED  BY <1>8, <2>1, AlikeTransitive
<1>10. Alike(transaction', g[1..(n + 1)])
  BY <1>1, <1>9
<1> QED  BY <1>1, <1>10 DEF r

(* Where the spans of a trace are folded in another order, the same        *)
(* summary comes out: the arrival order of spans does not matter for the   *)
(* window, the errors found, Urlid and the totals of the layers, in a      *)
(* trace of any length.                                                    *)
LEMMA OrderedSummary == ASSUME TypeOK, Ordered PROVE ArrivalOrderIrrelevant
<1> DEFINE n == Len(spans)
           q == spans
<1>1. /\ n \in Nat /\ DOMAIN q = 1..n
      /\ \A i \in 1..n : q[i] \in Span
  BY TransactionAssumption DEF TypeOK
<1>2. Cardinality(DOMAIN q) = n
  BY <1>1, FS_Interval
<1> SUFFICES ASSUME NEW p \in SetToSeqs(DOMAIN q)
             PROVE  LET fold[i \in 0..n] ==
                            IF i = 0 THEN NewTransaction ELSE Fold(fold[i - 1], q[p[i]])
                    IN  Summary(fold[n]) = Summary(transaction)
  BY DEF ArrivalOrderIrrelevant
<1>3. Reorders(p, n) /\ AreSpans(q, n)
  BY <1>1, <1>2 DEF SetToSeqs, Reorders, AreSpans
<1> DEFINE r == Reordered(q, p, n)
           P(f) == f = [i \in 0..n |->
                          IF i = 0 THEN NewTransaction ELSE Fold(f[i - 1], q[p[i]])]
           fold == CHOOSE f : P(f)
<1>4. \A i \in 1..n : r[i] = q[p[i]]
  BY DEF Reordered
<1>5. \A f : P(f) <=> IsFoldOf(f, r, n)
  <2>1. \A i \in 0..n : i # 0 => r[i] = q[p[i]]
    BY <1>1, <1>4
  <2> HIDE DEF r
  <2> QED  BY <2>1 DEF IsFoldOf
<1>6. PICK g : IsFolds(g, q, n)
  <2> HIDE DEF n, q
  <2> QED  BY <1>1, FoldsExist
<1>7. Alike(transaction, g[1..n])
  BY <1>6 DEF Ordered
<1>8. P(fold)
  <2> HIDE DEF n, r, P
  <2>1. \E f : IsFoldOf(f, r, n)
    BY <1>1, FoldOfExists
  <2>2. \E f : P(f)
    BY <1>5, <2>1
  <2> QED  BY <2>2
<1> HIDE DEF n, q, r, P, fold
<1>9. Alike(fold[n], g[1..n])
  <2>1. IsFoldOf(fold, Reordered(q, p, n), n)
    BY <1>5, <1>8 DEF r
  <2> QED  BY <1>1, <1>3, <1>6, <2>1, AnyOrder
<1>10. Alike(fold[n], transaction)
  <2>1. Alike(g[1..n], transaction)
    BY <1>7, AlikeSymmetric
  <2> QED  BY <1>9, <2>1, AlikeTransitive
<1>11. Summary(fold[n]) = Summary(transaction)
  BY <1>10, AlikeSummary
<1> QED  BY <1>11 DEF fold, P

(* What is summed over the spans of a trace does not depend on the order   *)
(* in which they arrive, in a trace of any length.                         *)
THEOREM OrderCorrect == Spec => []ArrivalOrderIrrelevant
<1>1. Init => Ordered
  <2> SUFFICES ASSUME Init, NEW g, IsFolds(g, spans, Len(spans))
               PROVE  Alike(transaction, g[1..Len(spans)])
    BY DEF Ordered
  <2>1. transaction = NewTransaction /\ 1..Len(spans) = {}
    BY DEF Init
  <2>2. Alike(g[{}], NewTransaction)
    BY DEF IsFolds
  <2> QED  BY <2>1, <2>2, AlikeSymmetric
<1>2. TypeOK /\ Ordered /\ [Next]_vars => Ordered'
  <2> SUFFICES ASSUME TypeOK, Ordered, [Next]_vars PROVE Ordered'
    OBVIOUS
  <2>1. ASSUME NEW s \in Spans, FoldSpan(s) PROVE Ordered'
    <3>1. \A g : IsFolds(g, spans', Len(spans')) => Alike(transaction', g[1..Len(spans')])
      BY <2>1, OrderedStep
    <3>2. Ordered' <=> \A g : IsFolds(g, spans', Len(spans'))
                              => Alike(transaction', g[1..Len(spans')])
      BY DEF Ordered, IsFolds, Alike
    <3> QED  BY <3>1, <3>2
  <2>2. CASE UNCHANGED vars
    <3>1. spans' = spans /\ transaction' = transaction
      BY <2>2 DEF vars
    <3>2. Ordered' <=> \A g : IsFolds(g, spans', Len(spans'))
                              => Alike(transaction', g[1..Len(spans')])
      BY DEF Ordered, IsFolds, Alike
    <3> QED  BY <3>1, <3>2 DEF Ordered
  <2> QED  BY <2>1, <2>2 DEF Next
<1>3. TypeOK /\ Ordered => ArrivalOrderIrrelevant
  BY OrderedSummary
<1> QED  BY <1>1, <1>2, <1>3, TypeCorrect, PTL DEF Spec
=============================================================================
