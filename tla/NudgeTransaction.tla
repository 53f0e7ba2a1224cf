-------------------------- MODULE NudgeTransaction --------------------------
(***************************************************************************)
(* What a Nudge transaction says about the spans folded into it: its time  *)
(* window, its status, its errors and the totals of its HTTP and SQL       *)
(* layers.  The state machine folds the spans of one trace in the order    *)
(* they arrive, one call of the loop of TracesExportRequest2Rawdata per    *)
(* step, and keeps the spans beside the transaction, so that the           *)
(* properties compare the running totals with the spans they stand for.    *)
(***************************************************************************)
EXTENDS NudgeSpan, FiniteSets, SequencesExt

CONSTANTS
    Spans,           \* spans of the trace
    MaxSpans         \* bound on the length of the trace

ASSUME TransactionAssumption ==
    /\ Spans \subseteq Span
    /\ MaxSpans \in Nat

VARIABLES
    transaction,     \* This.Transaction
    spans            \* the spans folded into it, in order (history)

vars == <<transaction, spans>>

Layers == {"HTTP", "SQL"}

Larger(a, b)  == IF a >= b THEN a ELSE b
Smaller(a, b) == IF a <= b THEN a ELSE b
-----------------------------------------------------------------------------
(* A layer before its first call.  The code adds the layer at the first    *)
(* call, with Count and Errors 0 and Time, Max and Min nil, which their    *)
(* getters read as 0.                                                      *)
EmptyLayer == [count |-> 0, errors |-> 0, time |-> 0, max |-> 0, min |-> 0, calls |-> <<>>]

NewTransaction ==
    [ start |-> Nil, end |-> 0, status |-> "OK", found |-> 0, urlid |-> WAITANDSEND,
      instrument |-> Nil, correlationid |-> 0, upstream |-> Nil,
      layers |-> [l \in Layers |-> EmptyLayer] ]

Duration(s) == s.end - s.start

Fails(s) == (IsHttpCall(s) /\ HttpFails(s)) \/ (IsSqlCall(s) /\ SqlFails(s))

Calls(s, l) == (l = "HTTP" /\ IsHttpCall(s)) \/ (l = "SQL" /\ IsSqlCall(s))

Detail(s) == [count |-> 1, errors |-> IF Fails(s) THEN 1 ELSE 0, time |-> Duration(s)]

(* A span from the Graphql instrumentation puts its detail in Calls twice, *)
(* once in the switch on the instrument and once after it.                 *)
Details(s) ==
    IF IsSqlCall(s) /\ s.instrument = "Graphql" THEN <<Detail(s), Detail(s)>>
    ELSE <<Detail(s)>>

AddCall_ErrorsOnly(layer, s) ==
    [ count  |-> layer.count + Detail(s).errors,
      errors |-> layer.errors + Detail(s).errors,
      time   |-> layer.time + Detail(s).time,
      max    |-> Larger(layer.max, Detail(s).time),
      min    |-> Smaller(layer.min, Detail(s).time),
      calls  |-> layer.calls \o Details(s) ]

AddCall_LastMax(layer, s) ==
    [ count  |-> layer.count + Detail(s).count,
      errors |-> layer.errors + Detail(s).errors,
      time   |-> layer.time + Detail(s).time,
      max    |-> Detail(s).time,
      min    |-> Smaller(layer.min, Detail(s).time),
      calls  |-> layer.calls \o Details(s) ]

AddCall(layer, s) ==
    [ count  |-> layer.count + Detail(s).count,
      errors |-> layer.errors + Detail(s).errors,
      time   |-> layer.time + Detail(s).time,
      max    |-> Larger(layer.max, Detail(s).time),
      min    |-> Smaller(layer.min, Detail(s).time),
      calls  |-> layer.calls \o Details(s) ]

(* An entry span with an exception event turns the transaction KO; with    *)
(* http.error_name or http.error_message it sets the status to 0, which is *)
(* OK, whatever it was; a failing call turns it KO.                        *)
StatusAfter_SpanStatus(status, s) == IF s.status = "Unset" THEN status ELSE s.status

StatusAfter_EntryResets(status, s) ==
    IF IsEntry(s) THEN IF s.exceptions > 0 THEN "KO" ELSE "OK"
    ELSE IF Fails(s) THEN "KO" ELSE status

StatusAfter(status, s) ==
    IF IsEntry(s) /\ s.errName THEN "OK"
    ELSE IF (IsEntry(s) /\ s.exceptions > 0) \/ Fails(s) THEN "KO"
    ELSE status

Fold(t, s) ==
    [ start         |-> StartAfter(t.start, s),
      end           |-> IF IsEntry(s) THEN Larger(t.end, s.end) ELSE t.end,
      status        |-> StatusAfter(t.status, s),
      found         |-> t.found + ErrorsOf(s),
      urlid         |-> IF EndsTrace(s) THEN NOWAITANDSEND ELSE t.urlid,
      instrument    |-> InstrumentAfter(t.instrument, s),
      correlationid |-> IF IsEntry(s) THEN t.correlationid + 1 ELSE t.correlationid,
      upstream      |-> IF IsEntry(s) THEN t.correlationid ELSE t.upstream,
      layers        |-> [l \in Layers |->
                           IF Calls(s, l) THEN AddCall(t.layers[l], s) ELSE t.layers[l]] ]
-----------------------------------------------------------------------------
Init ==
    /\ transaction = NewTransaction
    /\ spans = <<>>

FoldSpan(s) ==
    /\ Len(spans) < MaxSpans
    /\ ~ConversionPanics(transaction.instrument, s)
    /\ transaction' = Fold(transaction, s)
    /\ spans' = Append(spans, s)

Next == \E s \in Spans : FoldSpan(s)

Spec == Init /\ [][Next]_vars
-----------------------------------------------------------------------------
Layer ==
    [ count : Nat, errors : Nat, time : Int, max : Int, min : Int,
      calls : Seq([count : {1}, errors : {0, 1}, time : Int]) ]

Transaction ==
    [ start : Nat \cup {Nil}, end : Nat, status : {"OK", "KO"}, found : Nat,
      urlid : {NOWAITANDSEND, WAITANDSEND}, instrument : {"Express", "Graphql", Nil},
      correlationid : Nat, upstream : Nat \cup {Nil}, layers : [Layers -> Layer] ]

(* Types of the transaction and of its history.                            *)
TypeOK ==
    /\ transaction \in Transaction
    /\ spans \in Seq(Spans)

(* The running totals of a layer are those of the calls that were folded   *)
(* in: the number of calls, of those that fail, the time they took.        *)
LayerTotals ==
    \A l \in Layers :
        LET calls   == {i \in DOMAIN spans : Calls(spans[i], l)}
            time[i \in 0..Len(spans)] ==
                IF i = 0 THEN 0
                ELSE time[i - 1] + (IF i \in calls THEN Duration(spans[i]) ELSE 0)
        IN  /\ transaction.layers[l].count = Cardinality(calls)
            /\ transaction.layers[l].errors =
                 Cardinality({i \in calls : Fails(spans[i])})
            /\ transaction.layers[l].time = time[Len(spans)]

(* Max is not below, and Min not above, the time of any call of the layer. *)
(* (Min starts from 0, so it bounds the calls but is never the least one.) *)
LayerExtremes ==
    \A l \in Layers : \A i \in DOMAIN spans :
        Calls(spans[i], l) =>
            Duration(spans[i]) \in transaction.layers[l].min..transaction.layers[l].max

(* The status over the whole trace: KO when, after the last entry span     *)
(* that carries an HTTP error name or message, some call failed or some    *)
(* entry span had an exception.                                            *)
StatusExplained ==
    LET resets(i) == IsEntry(spans[i]) /\ spans[i].errName
    IN  transaction.status = "KO" <=>
          \E i \in DOMAIN spans :
            /\ Fails(spans[i]) \/ (IsEntry(spans[i]) /\ spans[i].exceptions > 0)
            /\ \A j \in i..Len(spans) : ~resets(j)

(* A transaction is KO only if it reports an error, and every failed call  *)
(* counted by a layer is among the errors it reports.                      *)
KoReportsError ==
    /\ transaction.status = "KO" => transaction.found > 0
    /\ transaction.layers["HTTP"].errors + transaction.layers["SQL"].errors
         <= transaction.found

(* Spans of a trace reach the collector in any order.  What is summed over *)
(* them does not depend on it: the window, the errors, the layer totals.   *)
Summary(t) ==
    [ window |-> <<t.start, t.end>>, found |-> t.found, urlid |-> t.urlid,
      layers |-> [l \in Layers |-> [f \in {"count", "errors", "time", "max", "min"} |->
                                      t.layers[l][f]]] ]

ArrivalOrderIrrelevant ==
    \A p \in SetToSeqs(DOMAIN spans) :
        LET fold[i \in 0..Len(spans)] ==
                IF i = 0 THEN NewTransaction ELSE Fold(fold[i - 1], spans[p[i]])
        IN  Summary(fold[Len(spans)]) = Summary(transaction)

(* "global number of calls to the layer" and "layer calls details"         *)
(* (rawdata.pb.go:2635, 2643): a detail for each call.                     *)
CountMatchesCalls ==
    \A l \in Layers :
        transaction.layers[l].count = Len(transaction.layers[l].calls)

(* "un responseCode = 202 ==> sps.status.code = 1 or il n'y a pas          *)
(* d'erreur" (nudge.go:1199): a call that answers below 400 is no error.   *)
SuccessIsNoError ==
    \A i \in DOMAIN spans :
        IsHttpCall(spans[i]) /\ spans[i].code \in 1..399 => ErrorsOf(spans[i]) = 0
=============================================================================
