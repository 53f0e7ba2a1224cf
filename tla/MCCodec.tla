------------------------------- MODULE MCCodec -------------------------------
(***************************************************************************)
(* Codec over the tables of all the messages of pdata's protogen.          *)
(***************************************************************************)
EXTENDS Codec, TLC

Trace     == INSTANCE TraceWire
Metrics   == INSTANCE MetricsWire
Logs      == INSTANCE LogsWire
Profiles  == INSTANCE ProfilesWire
Common    == INSTANCE CommonWire
Collector == INSTANCE CollectorWire

MCFormat ==
  Trace!TraceMessages @@ Metrics!MetricsMessages @@ Logs!LogsMessages @@
  Profiles!ProfilesMessages @@ Common!CommonMessages @@ Collector!CollectorMessages

(* Fields that the JSON readers lose: three have no case, or are read as   *)
(* text, and the deprecated ones have no case either.                      *)
MCJsonForgets == {
  <<"LogRecord", "EventName">>,
  <<"ExponentialHistogramDataPoint", "ZeroThreshold">>,
  <<"Profile", "OriginalPayload">>,
  <<"ResourceSpans", "DeprecatedScopeSpans">>,
  <<"ResourceMetrics", "DeprecatedScopeMetrics">>,
  <<"ResourceLogs", "DeprecatedScopeLogs">>}

(* Value.CopyTo sets the value of the destination to nil if it has to.     *)
MCCopiedWhole == {"AnyValue"}
=============================================================================
