------------------------------ MODULE TraceWire ------------------------------
(*****************************************************************************)
(* The messages of trace/v1 (trace.pb.go), their JSON readers                *)
(* (ptrace/json.go) and the CopyTo of their wrappers (ptrace/generated_*.go).*)
(* WireFormat says what a row means.                                         *)
(*****************************************************************************)
EXTENDS WireFormat

TracesData == <<Many(1, "ResourceSpans", "message", "resource_spans", "resourceSpans")>>

TracesData_Unmarshal == {Add(1, 2, "message", "ResourceSpans")}

TracesData_MarshalToSizedBuffer == <<PutEach("ResourceSpans", 10, "message")>>

TracesData_Size == <<AddEach("ResourceSpans", 1, "message")>>

TracesData_unmarshalJsoniter == {
  ReadEach({"resourceSpans", "resource_spans"}, "ResourceSpans", "message")}

ResourceSpans == <<
  Many(1000, "DeprecatedScopeSpans", "message", "deprecated_scope_spans", "deprecatedScopeSpans"),
  One(1, "Resource", "message", "resource", "resource"),
  Many(2, "ScopeSpans", "message", "scope_spans", "scopeSpans"),
  One(3, "SchemaUrl", "string", "schema_url", "schemaUrl")>>

ResourceSpans_Unmarshal == {
  Merge(1, 2, "Resource"), Add(2, 2, "message", "ScopeSpans"), Set(3, 2, "bytes", "SchemaUrl"),
  Add(1000, 2, "message", "DeprecatedScopeSpans")}

ResourceSpans_MarshalToSizedBuffer == <<
  PutAlways("Resource", 10, "message"), PutEach("ScopeSpans", 18, "message"),
  PutNonZero("SchemaUrl", 26, "bytes"), PutEach("DeprecatedScopeSpans", 8002, "message")>>

ResourceSpans_Size == <<
  AddAlways("Resource", 1, "message"), AddEach("ScopeSpans", 1, "message"),
  AddNonZero("SchemaUrl", 1, "bytes"), AddEach("DeprecatedScopeSpans", 2, "message")>>

ResourceSpans_unmarshalJsoniter == {
  ReadOne({"resource"}, "Resource", "message"),
  ReadEach({"scopeSpans", "scope_spans"}, "ScopeSpans", "message"),
  ReadOne({"schemaUrl", "schema_url"}, "SchemaUrl", "value")}

ResourceSpans_CopyTo == {
  Copy("Resource", "Resource"), Copy("SchemaUrl", "SchemaUrl"), Copy("ScopeSpans", "ScopeSpans")}

ScopeSpans == <<
  One(1, "Scope", "message", "scope", "scope"), Many(2, "Spans", "message", "spans", "spans"),
  One(3, "SchemaUrl", "string", "schema_url", "schemaUrl")>>

ScopeSpans_Unmarshal == {
  Merge(1, 2, "Scope"), Add(2, 2, "message", "Spans"), Set(3, 2, "bytes", "SchemaUrl")}

ScopeSpans_MarshalToSizedBuffer == <<
  PutAlways("Scope", 10, "message"), PutEach("Spans", 18, "message"),
  PutNonZero("SchemaUrl", 26, "bytes")>>

ScopeSpans_Size == <<
  AddAlways("Scope", 1, "message"), AddEach("Spans", 1, "message"), AddNonZero("SchemaUrl", 1, "bytes")>>

ScopeSpans_unmarshalJsoniter == {
  ReadOne({"scope"}, "Scope", "message"), ReadEach({"spans"}, "Spans", "message"),
  ReadOne({"schemaUrl", "schema_url"}, "SchemaUrl", "value")}

ScopeSpans_CopyTo == {
  Copy("Scope", "Scope"), Copy("SchemaUrl", "SchemaUrl"), Copy("Spans", "Spans")}

Span == <<
  One(1, "TraceId", "TraceID", "trace_id", "traceId"), One(2, "SpanId", "SpanID", "span_id", "spanId"),
  One(3, "TraceState", "string", "trace_state", "traceState"),
  One(4, "ParentSpanId", "SpanID", "parent_span_id", "parentSpanId"),
  One(16, "Flags", "fixed32", "flags", "flags"), One(5, "Name", "string", "name", "name"),
  One(6, "Kind", "int", "kind", "kind"),
  One(7, "StartTimeUnixNano", "fixed64", "start_time_unix_nano", "startTimeUnixNano"),
  One(8, "EndTimeUnixNano", "fixed64", "end_time_unix_nano", "endTimeUnixNano"),
  Many(9, "Attributes", "message", "attributes", "attributes"),
  One(10, "DroppedAttributesCount", "uint", "dropped_attributes_count", "droppedAttributesCount"),
  Many(11, "Events", "message", "events", "events"),
  One(12, "DroppedEventsCount", "uint", "dropped_events_count", "droppedEventsCount"),
  Many(13, "Links", "message", "links", "links"),
  One(14, "DroppedLinksCount", "uint", "dropped_links_count", "droppedLinksCount"),
  One(15, "Status", "message", "status", "status")>>

Span_Unmarshal == {
  Set(1, 2, "TraceID", "TraceId"), Set(2, 2, "SpanID", "SpanId"), Set(3, 2, "bytes", "TraceState"),
  Set(4, 2, "SpanID", "ParentSpanId"), Set(5, 2, "bytes", "Name"), Set(6, 0, "varint", "Kind"),
  Set(7, 1, "fixed64", "StartTimeUnixNano"), Set(8, 1, "fixed64", "EndTimeUnixNano"),
  Add(9, 2, "message", "Attributes"), Set(10, 0, "varint", "DroppedAttributesCount"),
  Add(11, 2, "message", "Events"), Set(12, 0, "varint", "DroppedEventsCount"),
  Add(13, 2, "message", "Links"), Set(14, 0, "varint", "DroppedLinksCount"), Merge(15, 2, "Status"),
  Set(16, 5, "fixed32", "Flags")}

Span_MarshalToSizedBuffer == <<
  PutAlways("TraceId", 10, "TraceID"), PutAlways("SpanId", 18, "SpanID"),
  PutNonZero("TraceState", 26, "bytes"), PutAlways("ParentSpanId", 34, "SpanID"),
  PutNonZero("Name", 42, "bytes"), PutNonZero("Kind", 48, "varint"),
  PutNonZero("StartTimeUnixNano", 57, "fixed64"), PutNonZero("EndTimeUnixNano", 65, "fixed64"),
  PutEach("Attributes", 74, "message"), PutNonZero("DroppedAttributesCount", 80, "varint"),
  PutEach("Events", 90, "message"), PutNonZero("DroppedEventsCount", 96, "varint"),
  PutEach("Links", 106, "message"), PutNonZero("DroppedLinksCount", 112, "varint"),
  PutAlways("Status", 122, "message"), PutNonZero("Flags", 133, "fixed32")>>

Span_Size == <<
  AddAlways("TraceId", 1, "TraceID"), AddAlways("SpanId", 1, "SpanID"),
  AddNonZero("TraceState", 1, "bytes"), AddAlways("ParentSpanId", 1, "SpanID"),
  AddNonZero("Name", 1, "bytes"), AddNonZero("Kind", 1, "varint"),
  AddNonZero("StartTimeUnixNano", 9, "none"), AddNonZero("EndTimeUnixNano", 9, "none"),
  AddEach("Attributes", 1, "message"), AddNonZero("DroppedAttributesCount", 1, "varint"),
  AddEach("Events", 1, "message"), AddNonZero("DroppedEventsCount", 1, "varint"),
  AddEach("Links", 1, "message"), AddNonZero("DroppedLinksCount", 1, "varint"),
  AddAlways("Status", 1, "message"), AddNonZero("Flags", 6, "none")>>

Span_unmarshalJsoniter == {
  ReadOne({"traceId", "trace_id"}, "TraceId", "value"),
  ReadOne({"spanId", "span_id"}, "SpanId", "value"),
  ReadOne({"traceState", "trace_state"}, "TraceState", "value"),
  ReadOne({"parentSpanId", "parent_span_id"}, "ParentSpanId", "value"),
  ReadOne({"flags"}, "Flags", "value"), ReadOne({"name"}, "Name", "value"),
  ReadOne({"kind"}, "Kind", "value"),
  ReadOne({"startTimeUnixNano", "start_time_unix_nano"}, "StartTimeUnixNano", "value"),
  ReadOne({"endTimeUnixNano", "end_time_unix_nano"}, "EndTimeUnixNano", "value"),
  ReadEach({"attributes"}, "Attributes", "message"),
  ReadOne({"droppedAttributesCount", "dropped_attributes_count"}, "DroppedAttributesCount", "value"),
  ReadEach({"events"}, "Events", "message"),
  ReadOne({"droppedEventsCount", "dropped_events_count"}, "DroppedEventsCount", "value"),
  ReadEach({"links"}, "Links", "message"),
  ReadOne({"droppedLinksCount", "dropped_links_count"}, "DroppedLinksCount", "value"),
  ReadOne({"status"}, "Status", "message")}

Span_CopyTo == {
  Copy("TraceId", "TraceId"), Copy("SpanId", "SpanId"), Copy("TraceState", "TraceState"),
  Copy("ParentSpanId", "ParentSpanId"), Copy("Name", "Name"), Copy("Flags", "Flags"),
  Copy("Kind", "Kind"), Copy("StartTimeUnixNano", "StartTimeUnixNano"),
  Copy("EndTimeUnixNano", "EndTimeUnixNano"), Copy("Attributes", "Attributes"),
  Copy("DroppedAttributesCount", "DroppedAttributesCount"), Copy("Events", "Events"),
  Copy("DroppedEventsCount", "DroppedEventsCount"), Copy("Links", "Links"),
  Copy("DroppedLinksCount", "DroppedLinksCount"), Copy("Status", "Status")}

Span_Event == <<
  One(1, "TimeUnixNano", "fixed64", "time_unix_nano", "timeUnixNano"),
  One(2, "Name", "string", "name", "name"),
  Many(3, "Attributes", "message", "attributes", "attributes"),
  One(4, "DroppedAttributesCount", "uint", "dropped_attributes_count", "droppedAttributesCount")>>

Span_Event_Unmarshal == {
  Set(1, 1, "fixed64", "TimeUnixNano"), Set(2, 2, "bytes", "Name"), Add(3, 2, "message", "Attributes"),
  Set(4, 0, "varint", "DroppedAttributesCount")}

Span_Event_MarshalToSizedBuffer == <<
  PutNonZero("TimeUnixNano", 9, "fixed64"), PutNonZero("Name", 18, "bytes"),
  PutEach("Attributes", 26, "message"), PutNonZero("DroppedAttributesCount", 32, "varint")>>

Span_Event_Size == <<
  AddNonZero("TimeUnixNano", 9, "none"), AddNonZero("Name", 1, "bytes"),
  AddEach("Attributes", 1, "message"), AddNonZero("DroppedAttributesCount", 1, "varint")>>

Span_Event_unmarshalJsoniter == {
  ReadOne({"timeUnixNano", "time_unix_nano"}, "TimeUnixNano", "value"),
  ReadOne({"name"}, "Name", "value"), ReadEach({"attributes"}, "Attributes", "message"),
  ReadOne({"droppedAttributesCount", "dropped_attributes_count"}, "DroppedAttributesCount", "value")}

Span_Event_CopyTo == {
  Copy("TimeUnixNano", "TimeUnixNano"), Copy("Name", "Name"), Copy("Attributes", "Attributes"),
  Copy("DroppedAttributesCount", "DroppedAttributesCount")}

Span_Link == <<
  One(1, "TraceId", "TraceID", "trace_id", "traceId"), One(2, "SpanId", "SpanID", "span_id", "spanId"),
  One(3, "TraceState", "string", "trace_state", "traceState"),
  Many(4, "Attributes", "message", "attributes", "attributes"),
  One(5, "DroppedAttributesCount", "uint", "dropped_attributes_count", "droppedAttributesCount"),
  One(6, "Flags", "fixed32", "flags", "flags")>>

Span_Link_Unmarshal == {
  Set(1, 2, "TraceID", "TraceId"), Set(2, 2, "SpanID", "SpanId"), Set(3, 2, "bytes", "TraceState"),
  Add(4, 2, "message", "Attributes"), Set(5, 0, "varint", "DroppedAttributesCount"),
  Set(6, 5, "fixed32", "Flags")}

Span_Link_MarshalToSizedBuffer == <<
  PutAlways("TraceId", 10, "TraceID"), PutAlways("SpanId", 18, "SpanID"),
  PutNonZero("TraceState", 26, "bytes"), PutEach("Attributes", 34, "message"),
  PutNonZero("DroppedAttributesCount", 40, "varint"), PutNonZero("Flags", 53, "fixed32")>>

Span_Link_Size == <<
  AddAlways("TraceId", 1, "TraceID"), AddAlways("SpanId", 1, "SpanID"),
  AddNonZero("TraceState", 1, "bytes"), AddEach("Attributes", 1, "message"),
  AddNonZero("DroppedAttributesCount", 1, "varint"), AddNonZero("Flags", 5, "none")>>

Span_Link_unmarshalJsoniter == {
  ReadOne({"traceId", "trace_id"}, "TraceId", "value"),
  ReadOne({"spanId", "span_id"}, "SpanId", "value"),
  ReadOne({"traceState", "trace_state"}, "TraceState", "value"),
  ReadEach({"attributes"}, "Attributes", "message"),
  ReadOne({"droppedAttributesCount", "dropped_attributes_count"}, "DroppedAttributesCount", "value"),
  ReadOne({"flags"}, "Flags", "value")}

Span_Link_CopyTo == {
  Copy("TraceId", "TraceId"), Copy("SpanId", "SpanId"), Copy("TraceState", "TraceState"),
  Copy("Flags", "Flags"), Copy("Attributes", "Attributes"),
  Copy("DroppedAttributesCount", "DroppedAttributesCount")}

Status == <<
  One(2, "Message", "string", "message", "message"), One(3, "Code", "int", "code", "code")>>

Status_Unmarshal == {Set(2, 2, "bytes", "Message"), Set(3, 0, "varint", "Code")}

Status_MarshalToSizedBuffer == <<
  PutNonZero("Message", 18, "bytes"), PutNonZero("Code", 24, "varint")>>

Status_Size == <<AddNonZero("Message", 1, "bytes"), AddNonZero("Code", 1, "varint")>>

Status_unmarshalJsoniter == {
  ReadOne({"message"}, "Message", "value"), ReadOne({"code"}, "Code", "value")}

Status_CopyTo == {Copy("Code", "Code"), Copy("Message", "Message")}

(* The ways of receiving traces that call MigrateTraces. *)
MigratedTraces == {"request", "grpc", "json"}

TraceMessages == [
  TracesData |-> Tables(TracesData, TracesData_Unmarshal, TracesData_MarshalToSizedBuffer, TracesData_Size,
    TracesData_unmarshalJsoniter, {}, <<>>, {}),
  ResourceSpans |-> Tables(ResourceSpans, ResourceSpans_Unmarshal, ResourceSpans_MarshalToSizedBuffer, ResourceSpans_Size,
    ResourceSpans_unmarshalJsoniter, ResourceSpans_CopyTo, <<"ScopeSpans", "DeprecatedScopeSpans">>, MigratedTraces),
  ScopeSpans |-> Tables(ScopeSpans, ScopeSpans_Unmarshal, ScopeSpans_MarshalToSizedBuffer, ScopeSpans_Size,
    ScopeSpans_unmarshalJsoniter, ScopeSpans_CopyTo, <<>>, {}),
  Span |-> Tables(Span, Span_Unmarshal, Span_MarshalToSizedBuffer, Span_Size,
    Span_unmarshalJsoniter, Span_CopyTo, <<>>, {}),
  Span_Event |-> Tables(Span_Event, Span_Event_Unmarshal, Span_Event_MarshalToSizedBuffer, Span_Event_Size,
    Span_Event_unmarshalJsoniter, Span_Event_CopyTo, <<>>, {}),
  Span_Link |-> Tables(Span_Link, Span_Link_Unmarshal, Span_Link_MarshalToSizedBuffer, Span_Link_Size,
    Span_Link_unmarshalJsoniter, Span_Link_CopyTo, <<>>, {}),
  Status |-> Tables(Status, Status_Unmarshal, Status_MarshalToSizedBuffer, Status_Size,
    Status_unmarshalJsoniter, Status_CopyTo, <<>>, {})]
=============================================================================
