------------------------------ MODULE NudgeSpan ------------------------------
(***************************************************************************)
(* What distributions/exporter/nudgehttpexporter/nudge.go looks at in an   *)
(* OTLP span while it turns spans into Nudge transactions, and what one    *)
(* span does to the part of a transaction that decides when, and to whom,  *)
(* the transaction is sent.  The module has no variables: NudgeExporter    *)
(* (who sends what) and NudgeTransaction (what is sent) both build on it.  *)
(***************************************************************************)
EXTENDS Integers, Sequences

CONSTANTS
    Traces,          \* trace identifiers
    Apps,            \* Nudge application identifiers
    NoApp,           \* the empty identifier
    ConfigApp,       \* app_id of the configuration, NoApp when left out
    Agents,          \* values of http.user_agent
    Nil,             \* a nil pointer, an attribute that is not there
    WaitEndService   \* waitEndService of the configuration

ASSUME SpanAssumption ==
    /\ NoApp \notin Apps
    /\ ConfigApp \in Apps \cup {NoApp}
    /\ Nil \notin Agents
    /\ Nil \notin Nat \cup Apps \cup {NoApp}
    /\ WaitEndService \in BOOLEAN

(* Urlid of a transaction: what SendTransactions does with it.             *)
NOWAITANDSEND   == 0
WAITANDSEND     == 1
NOWAITANDNOSEND == 2

(* What a span may lack that the conversion reads unchecked: five          *)
(* characters in each attribute key (suffix); type, message and stacktrace *)
(* of an exception event (exception); http.url beside a status message     *)
(* (url); db.statement beside none (statement); graphql.operation.type and *)
(* graphql.source (graphql).                                               *)
Holes == {"suffix", "exception", "url", "statement", "graphql"}

(* The facts about a span the conversion branches on.  "app" is            *)
(* nudge_application_id, which may be there and empty; "http", "db" and    *)
(* "serveur" say that an attribute http.*, db.* or graphql.*, or a pair    *)
(* x.name / x.type is there; "code" is http.status_code; "instrument" is   *)
(* derived from the name of the instrumentation scope; "exceptions" counts *)
(* the exception events; "errName": http.error_name or http.error_message  *)
(* is there.                                                               *)
Span ==
    [ trace      : Traces,
      app        : Apps \cup {NoApp, Nil},
      root       : BOOLEAN,
      kind       : {"internal", "server", "other"},
      http       : BOOLEAN,
      serveur    : BOOLEAN,
      db         : BOOLEAN,
      instrument : {"Express", "Graphql", Nil},
      holes      : SUBSET Holes,
      status     : {"Unset", "Ok", "Error"},
      code       : Nat \cup {Nil},
      exceptions : Nat,
      errName    : BOOLEAN,
      agent      : Agents \cup {Nil},
      start      : Nat,
      end        : Nat ]

(* The three branches of the conversion, tried in this order.  A root span *)
(* with an http attribute always takes the first, so the test for a root   *)
(* span inside the second (lines 1352-1360) never succeeds.                *)
IsEntry(s)    == (s.serveur \/ s.http) /\ (s.kind = "internal" \/ s.root)
IsHttpCall(s) == ~IsEntry(s) /\ s.http /\ (s.kind = "server" \/ ~s.root)
IsSqlCall(s)  == ~IsEntry(s) /\ ~IsHttpCall(s) /\ s.db

(* The error tests of the two call branches.  In Go && binds tighter than  *)
(* ||.  Error_HTTP is 1, the code of an Ok status; Error_SQL is 2, Error.  *)
(* A code that is not there is read as 0.                                  *)
HttpFails(s) == s.code # Nil /\ (s.status = "Ok" \/ s.code >= 400)
SqlFails(s)  == s.status = "Error"

(* How many errors the span adds to its transaction.  The entry branch     *)
(* compares with 400 a key that is not in SemanticAttributesX, hence 0: it *)
(* reports exception events only.                                          *)
ErrorsOf_EntryOnly(s) == IF IsEntry(s) THEN s.exceptions ELSE 0

ErrorsOf(s) ==
    IF IsEntry(s) THEN s.exceptions
    ELSE IF (IsHttpCall(s) /\ HttpFails(s)) \/ (IsSqlCall(s) /\ SqlFails(s)) THEN 1
    ELSE 0

(* The application a transaction has after the span: the attribute the     *)
(* processor put on the span, also an empty one, or the identifier of the  *)
(* configuration.                                                          *)
SpanApp(s) == IF s.app # Nil THEN s.app ELSE ConfigApp

(* The spans that mark their transaction as complete.                      *)
EndsTrace(s) ==
    \/ IsEntry(s) /\ (WaitEndService => s.root)
    \/ (IsHttpCall(s) \/ IsSqlCall(s)) /\ s.root

(* A transaction takes its start time from entry spans only.               *)
StartAfter(start, s) ==
    IF ~IsEntry(s) THEN start
    ELSE IF start = Nil \/ s.start < start THEN s.start
    ELSE start

(* The run-time panics of the conversion of a span, for a transaction      *)
(* whose server has the instrument "instrument" so far: the slice of a     *)
(* short key (line 501), AsString of an attribute that is not there        *)
(* (1180-1190, 1419, 1521), the dereference of INSTRUMENT (1327) and of    *)
(* the missing key-value of a GraphQL span (1636).                         *)
ConversionPanics(instrument, s) ==
    \/ "suffix" \in s.holes
    \/ IsEntry(s) /\ s.exceptions > 0 /\ "exception" \in s.holes
    \/ IsEntry(s) /\ s.serveur /\ instrument = Nil /\ s.instrument = Nil
    \/ IsHttpCall(s) /\ HttpFails(s) /\ "url" \in s.holes
    \/ IsSqlCall(s) /\ SqlFails(s) /\ "statement" \in s.holes
    \/ IsSqlCall(s) /\ s.instrument = "Graphql" /\ "graphql" \in s.holes

(* The instrument of a transaction's server after the span.                *)
InstrumentAfter(instrument, s) ==
    IF IsEntry(s) /\ s.serveur /\ instrument = Nil THEN s.instrument
    ELSE instrument
=============================================================================
