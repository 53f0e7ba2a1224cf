------------------------------ MODULE LogsWire ------------------------------
(*****************************************************************************)
(* The messages of logs/v1 (logs.pb.go), their JSON readers                  *)
(* (plog/json.go) and the CopyTo of their wrappers (plog/generated_*.go).    *)
(* WireFormat says what a row means.                                         *)
(*****************************************************************************)
EXTENDS WireFormat

LogsData == <<Many(1, "ResourceLogs", "message", "resource_logs", "resourceLogs")>>

LogsData_Unmarshal == {Add(1, 2, "message", "ResourceLogs")}

LogsData_MarshalToSizedBuffer == <<PutEach("ResourceLogs", 10, "message")>>

LogsData_Size == <<AddEach("ResourceLogs", 1, "message")>>

LogsData_unmarshalJsoniter == {
  ReadEach({"resource_logs", "resourceLogs"}, "ResourceLogs", "message")}

ResourceLogs == <<
  Many(1000, "DeprecatedScopeLogs", "message", "deprecated_scope_logs", "deprecatedScopeLogs"),
  One(1, "Resource", "message", "resource", "resource"),
  Many(2, "ScopeLogs", "message", "scope_logs", "scopeLogs"),
  One(3, "SchemaUrl", "string", "schema_url", "schemaUrl")>>

ResourceLogs_Unmarshal == {
  Merge(1, 2, "Resource"), Add(2, 2, "message", "ScopeLogs"), Set(3, 2, "bytes", "SchemaUrl"),
  Add(1000, 2, "message", "DeprecatedScopeLogs")}

ResourceLogs_MarshalToSizedBuffer == <<
  PutAlways("Resource", 10, "message"), PutEach("ScopeLogs", 18, "message"),
  PutNonZero("SchemaUrl", 26, "bytes"), PutEach("DeprecatedScopeLogs", 8002, "message")>>

ResourceLogs_Size == <<
  AddAlways("Resource", 1, "message"), AddEach("ScopeLogs", 1, "message"),
  AddNonZero("SchemaUrl", 1, "bytes"), AddEach("DeprecatedScopeLogs", 2, "message")>>

ResourceLogs_unmarshalJsoniter == {
  ReadOne({"resource"}, "Resource", "message"),
  ReadEach({"scope_logs", "scopeLogs"}, "ScopeLogs", "message"),
  ReadOne({"schemaUrl", "schema_url"}, "SchemaUrl", "value")}

ResourceLogs_CopyTo == {
  Copy("Resource", "Resource"), Copy("SchemaUrl", "SchemaUrl"), Copy("ScopeLogs", "ScopeLogs")}

ScopeLogs == <<
  One(1, "Scope", "message", "scope", "scope"),
  Many(2, "LogRecords", "message", "log_records", "logRecords"),
  One(3, "SchemaUrl", "string", "schema_url", "schemaUrl")>>

ScopeLogs_Unmarshal == {
  Merge(1, 2, "Scope"), Add(2, 2, "message", "LogRecords"), Set(3, 2, "bytes", "SchemaUrl")}

ScopeLogs_MarshalToSizedBuffer == <<
  PutAlways("Scope", 10, "message"), PutEach("LogRecords", 18, "message"),
  PutNonZero("SchemaUrl", 26, "bytes")>>

ScopeLogs_Size == <<
  AddAlways("Scope", 1, "message"), AddEach("LogRecords", 1, "message"),
  AddNonZero("SchemaUrl", 1, "bytes")>>

ScopeLogs_unmarshalJsoniter == {
  ReadOne({"scope"}, "Scope", "message"),
  ReadEach({"log_records", "logRecords"}, "LogRecords", "message"),
  ReadOne({"schemaUrl", "schema_url"}, "SchemaUrl", "value")}

ScopeLogs_CopyTo == {
  Copy("Scope", "Scope"), Copy("SchemaUrl", "SchemaUrl"), Copy("LogRecords", "LogRecords")}

LogRecord == <<
  One(1, "TimeUnixNano", "fixed64", "time_unix_nano", "timeUnixNano"),
  One(11, "ObservedTimeUnixNano", "fixed64", "observed_time_unix_nano", "observedTimeUnixNano"),
  One(2, "SeverityNumber", "int", "severity_number", "severityNumber"),
  One(3, "SeverityText", "string", "severity_text", "severityText"),
  One(5, "Body", "message", "body", "body"),
  Many(6, "Attributes", "message", "attributes", "attributes"),
  One(7, "DroppedAttributesCount", "uint", "dropped_attributes_count", "droppedAttributesCount"),
  One(8, "Flags", "fixed32", "flags", "flags"), One(9, "TraceId", "TraceID", "trace_id", "traceId"),
  One(10, "SpanId", "SpanID", "span_id", "spanId"),
  One(12, "EventName", "string", "event_name", "eventName")>>

LogRecord_Unmarshal == {
  Set(1, 1, "fixed64", "TimeUnixNano"), Set(2, 0, "varint", "SeverityNumber"),
  Set(3, 2, "bytes", "SeverityText"), Merge(5, 2, "Body"), Add(6, 2, "message", "Attributes"),
  Set(7, 0, "varint", "DroppedAttributesCount"), Set(8, 5, "fixed32", "Flags"),
  Set(9, 2, "TraceID", "TraceId"), Set(10, 2, "SpanID", "SpanId"),
  Set(11, 1, "fixed64", "ObservedTimeUnixNano"), Set(12, 2, "bytes", "EventName")}

LogRecord_MarshalToSizedBuffer == <<
  PutNonZero("TimeUnixNano", 9, "fixed64"), PutNonZero("SeverityNumber", 16, "varint"),
  PutNonZero("SeverityText", 26, "bytes"), PutAlways("Body", 42, "message"),
  PutEach("Attributes", 50, "message"), PutNonZero("DroppedAttributesCount", 56, "varint"),
  PutNonZero("Flags", 69, "fixed32"), PutAlways("TraceId", 74, "TraceID"),
  PutAlways("SpanId", 82, "SpanID"), PutNonZero("ObservedTimeUnixNano", 89, "fixed64"),
  PutNonZero("EventName", 98, "bytes")>>

LogRecord_Size == <<
  AddNonZero("TimeUnixNano", 9, "none"), AddNonZero("SeverityNumber", 1, "varint"),
  AddNonZero("SeverityText", 1, "bytes"), AddAlways("Body", 1, "message"),
  AddEach("Attributes", 1, "message"), AddNonZero("DroppedAttributesCount", 1, "varint"),
  AddNonZero("Flags", 5, "none"), AddAlways("TraceId", 1, "TraceID"), AddAlways("SpanId", 1, "SpanID"),
  AddNonZero("ObservedTimeUnixNano", 9, "none"), AddNonZero("EventName", 1, "bytes")>>

LogRecord_unmarshalJsoniter == {
  ReadOne({"timeUnixNano", "time_unix_nano"}, "TimeUnixNano", "value"),
  ReadOne({"observed_time_unix_nano", "observedTimeUnixNano"}, "ObservedTimeUnixNano", "value"),
  ReadOne({"severity_number", "severityNumber"}, "SeverityNumber", "value"),
  ReadOne({"severity_text", "severityText"}, "SeverityText", "value"),
  ReadOne({"body"}, "Body", "message"), ReadEach({"attributes"}, "Attributes", "message"),
  ReadOne({"droppedAttributesCount", "dropped_attributes_count"}, "DroppedAttributesCount", "value"),
  ReadOne({"flags"}, "Flags", "value"), ReadOne({"traceId", "trace_id"}, "TraceId", "value"),
  ReadOne({"spanId", "span_id"}, "SpanId", "value")}

LogRecord_CopyTo == {
  Copy("ObservedTimeUnixNano", "ObservedTimeUnixNano"), Copy("TimeUnixNano", "TimeUnixNano"),
  Copy("TraceId", "TraceId"), Copy("SpanId", "SpanId"), Copy("Flags", "Flags"),
  Copy("EventName", "EventName"), Copy("SeverityText", "SeverityText"),
  Copy("SeverityNumber", "SeverityNumber"), Copy("Body", "Body"), Copy("Attributes", "Attributes"),
  Copy("DroppedAttributesCount", "DroppedAttributesCount")}

(* The ways of receiving logs that call MigrateLogs. *)
MigratedLogs == {"request", "grpc", "json"}

LogsMessages == [
  LogsData |-> Tables(LogsData, LogsData_Unmarshal, LogsData_MarshalToSizedBuffer, LogsData_Size,
    LogsData_unmarshalJsoniter, {}, <<>>, {}),
  ResourceLogs |-> Tables(ResourceLogs, ResourceLogs_Unmarshal, ResourceLogs_MarshalToSizedBuffer, ResourceLogs_Size,
    ResourceLogs_unmarshalJsoniter, ResourceLogs_CopyTo, <<"ScopeLogs", "DeprecatedScopeLogs">>, MigratedLogs),
  ScopeLogs |-> Tables(ScopeLogs, ScopeLogs_Unmarshal, ScopeLogs_MarshalToSizedBuffer, ScopeLogs_Size,
    ScopeLogs_unmarshalJsoniter, ScopeLogs_CopyTo, <<>>, {}),
  LogRecord |-> Tables(LogRecord, LogRecord_Unmarshal, LogRecord_MarshalToSizedBuffer, LogRecord_Size,
    LogRecord_unmarshalJsoniter, LogRecord_CopyTo, <<>>, {})]
=============================================================================
