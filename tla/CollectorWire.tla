------------------------------ MODULE CollectorWire ------------------------------
(*****************************************************************************)
(* The requests and responses of the four collector services, their JSON     *)
(* readers (p*otlp/response.go, p*otlp/request.go) and the CopyTo of         *)
(* their wrappers.                                                           *)
(* WireFormat says what a row means.                                         *)
(*****************************************************************************)
EXTENDS WireFormat

ExportTraceServiceRequest == <<
  Many(1, "ResourceSpans", "message", "resource_spans", "resourceSpans")>>

ExportTraceServiceRequest_Unmarshal == {Add(1, 2, "message", "ResourceSpans")}

ExportTraceServiceRequest_MarshalToSizedBuffer == <<PutEach("ResourceSpans", 10, "message")>>

ExportTraceServiceRequest_Size == <<AddEach("ResourceSpans", 1, "message")>>

ExportTraceServiceResponse == <<
  One(1, "PartialSuccess", "message", "partial_success", "partialSuccess")>>

ExportTraceServiceResponse_Unmarshal == {Merge(1, 2, "PartialSuccess")}

ExportTraceServiceResponse_MarshalToSizedBuffer == <<PutAlways("PartialSuccess", 10, "message")>>

ExportTraceServiceResponse_Size == <<AddAlways("PartialSuccess", 1, "message")>>

ExportTraceServiceResponse_unmarshalJsoniter == {
  ReadOne({"partial_success", "partialSuccess"}, "PartialSuccess", "message")}

ExportTracePartialSuccess == <<
  One(1, "RejectedSpans", "int", "rejected_spans", "rejectedSpans"),
  One(2, "ErrorMessage", "string", "error_message", "errorMessage")>>

ExportTracePartialSuccess_Unmarshal == {
  Set(1, 0, "varint", "RejectedSpans"), Set(2, 2, "bytes", "ErrorMessage")}

ExportTracePartialSuccess_MarshalToSizedBuffer == <<
  PutNonZero("RejectedSpans", 8, "varint"), PutNonZero("ErrorMessage", 18, "bytes")>>

ExportTracePartialSuccess_Size == <<
  AddNonZero("RejectedSpans", 1, "varint"), AddNonZero("ErrorMessage", 1, "bytes")>>

ExportTracePartialSuccess_unmarshalJsoniter == {
  ReadOne({"rejected_spans", "rejectedSpans"}, "RejectedSpans", "value"),
  ReadOne({"error_message", "errorMessage"}, "ErrorMessage", "value")}

ExportTracePartialSuccess_CopyTo == {
  Copy("RejectedSpans", "RejectedSpans"), Copy("ErrorMessage", "ErrorMessage")}

ExportMetricsServiceRequest == <<
  Many(1, "ResourceMetrics", "message", "resource_metrics", "resourceMetrics")>>

ExportMetricsServiceRequest_Unmarshal == {Add(1, 2, "message", "ResourceMetrics")}

ExportMetricsServiceRequest_MarshalToSizedBuffer == <<PutEach("ResourceMetrics", 10, "message")>>

ExportMetricsServiceRequest_Size == <<AddEach("ResourceMetrics", 1, "message")>>

ExportMetricsServiceResponse == <<
  One(1, "PartialSuccess", "message", "partial_success", "partialSuccess")>>

ExportMetricsServiceResponse_Unmarshal == {Merge(1, 2, "PartialSuccess")}

ExportMetricsServiceResponse_MarshalToSizedBuffer == <<PutAlways("PartialSuccess", 10, "message")>>

ExportMetricsServiceResponse_Size == <<AddAlways("PartialSuccess", 1, "message")>>

ExportMetricsServiceResponse_unmarshalJsoniter == {
  ReadOne({"partial_success", "partialSuccess"}, "PartialSuccess", "message")}

ExportMetricsPartialSuccess == <<
  One(1, "RejectedDataPoints", "int", "rejected_data_points", "rejectedDataPoints"),
  One(2, "ErrorMessage", "string", "error_message", "errorMessage")>>

ExportMetricsPartialSuccess_Unmarshal == {
  Set(1, 0, "varint", "RejectedDataPoints"), Set(2, 2, "bytes", "ErrorMessage")}

ExportMetricsPartialSuccess_MarshalToSizedBuffer == <<
  PutNonZero("RejectedDataPoints", 8, "varint"), PutNonZero("ErrorMessage", 18, "bytes")>>

ExportMetricsPartialSuccess_Size == <<
  AddNonZero("RejectedDataPoints", 1, "varint"), AddNonZero("ErrorMessage", 1, "bytes")>>

ExportMetricsPartialSuccess_unmarshalJsoniter == {
  ReadOne({"rejected_data_points", "rejectedDataPoints"}, "RejectedDataPoints", "value"),
  ReadOne({"error_message", "errorMessage"}, "ErrorMessage", "value")}

ExportMetricsPartialSuccess_CopyTo == {
  Copy("RejectedDataPoints", "RejectedDataPoints"), Copy("ErrorMessage", "ErrorMessage")}

ExportLogsServiceRequest == <<Many(1, "ResourceLogs", "message", "resource_logs", "resourceLogs")>>

ExportLogsServiceRequest_Unmarshal == {Add(1, 2, "message", "ResourceLogs")}

ExportLogsServiceRequest_MarshalToSizedBuffer == <<PutEach("ResourceLogs", 10, "message")>>

ExportLogsServiceRequest_Size == <<AddEach("ResourceLogs", 1, "message")>>

ExportLogsServiceResponse == <<
  One(1, "PartialSuccess", "message", "partial_success", "partialSuccess")>>

ExportLogsServiceResponse_Unmarshal == {Merge(1, 2, "PartialSuccess")}

ExportLogsServiceResponse_MarshalToSizedBuffer == <<PutAlways("PartialSuccess", 10, "message")>>

ExportLogsServiceResponse_Size == <<AddAlways("PartialSuccess", 1, "message")>>

ExportLogsServiceResponse_unmarshalJsoniter == {
  ReadOne({"partial_success", "partialSuccess"}, "PartialSuccess", "message")}

ExportLogsPartialSuccess == <<
  One(1, "RejectedLogRecords", "int", "rejected_log_records", "rejectedLogRecords"),
  One(2, "ErrorMessage", "string", "error_message", "errorMessage")>>

ExportLogsPartialSuccess_Unmarshal == {
  Set(1, 0, "varint", "RejectedLogRecords"), Set(2, 2, "bytes", "ErrorMessage")}

ExportLogsPartialSuccess_MarshalToSizedBuffer == <<
  PutNonZero("RejectedLogRecords", 8, "varint"), PutNonZero("ErrorMessage", 18, "bytes")>>

ExportLogsPartialSuccess_Size == <<
  AddNonZero("RejectedLogRecords", 1, "varint"), AddNonZero("ErrorMessage", 1, "bytes")>>

ExportLogsPartialSuccess_unmarshalJsoniter == {
  ReadOne({"rejected_log_records", "rejectedLogRecords"}, "RejectedLogRecords", "value"),
  ReadOne({"error_message", "errorMessage"}, "ErrorMessage", "value")}

ExportLogsPartialSuccess_CopyTo == {
  Copy("RejectedLogRecords", "RejectedLogRecords"), Copy("ErrorMessage", "ErrorMessage")}

ExportProfilesServiceRequest == <<
  Many(1, "ResourceProfiles", "message", "resource_profiles", "resourceProfiles")>>

ExportProfilesServiceRequest_Unmarshal == {Add(1, 2, "message", "ResourceProfiles")}

ExportProfilesServiceRequest_MarshalToSizedBuffer == <<PutEach("ResourceProfiles", 10, "message")>>

ExportProfilesServiceRequest_Size == <<AddEach("ResourceProfiles", 1, "message")>>

ExportProfilesServiceResponse == <<
  One(1, "PartialSuccess", "message", "partial_success", "partialSuccess")>>

ExportProfilesServiceResponse_Unmarshal == {Merge(1, 2, "PartialSuccess")}

ExportProfilesServiceResponse_MarshalToSizedBuffer == <<
  PutAlways("PartialSuccess", 10, "message")>>

ExportProfilesServiceResponse_Size == <<AddAlways("PartialSuccess", 1, "message")>>

ExportProfilesServiceResponse_unmarshalJsoniter == {
  ReadOne({"partial_success", "partialSuccess"}, "PartialSuccess", "message")}

ExportProfilesPartialSuccess == <<
  One(1, "RejectedProfiles", "int", "rejected_profiles", "rejectedProfiles"),
  One(2, "ErrorMessage", "string", "error_message", "errorMessage")>>

ExportProfilesPartialSuccess_Unmarshal == {
  Set(1, 0, "varint", "RejectedProfiles"), Set(2, 2, "bytes", "ErrorMessage")}

ExportProfilesPartialSuccess_MarshalToSizedBuffer == <<
  PutNonZero("RejectedProfiles", 8, "varint"), PutNonZero("ErrorMessage", 18, "bytes")>>

ExportProfilesPartialSuccess_Size == <<
  AddNonZero("RejectedProfiles", 1, "varint"), AddNonZero("ErrorMessage", 1, "bytes")>>

ExportProfilesPartialSuccess_unmarshalJsoniter == {
  ReadOne({"rejected_profiles", "rejectedProfiles"}, "RejectedProfiles", "value"),
  ReadOne({"error_message", "errorMessage"}, "ErrorMessage", "value")}

ExportProfilesPartialSuccess_CopyTo == {
  Copy("RejectedProfiles", "RejectedProfiles"), Copy("ErrorMessage", "ErrorMessage")}

ExportTraceServiceRequest_UnmarshalJSON == {ReadEach({"resourceSpans", "resource_spans"}, "ResourceSpans", "message")}

ExportMetricsServiceRequest_UnmarshalJSON == {ReadEach({"resourceMetrics", "resource_metrics"}, "ResourceMetrics", "message")}

ExportLogsServiceRequest_UnmarshalJSON == {ReadEach({"resourceLogs", "resource_logs"}, "ResourceLogs", "message")}

ExportProfilesServiceRequest_UnmarshalJSON == {ReadEach({"resourceProfiles", "resource_profiles"}, "ResourceProfiles", "message")}

CollectorMessages == [
  ExportTraceServiceRequest |-> Tables(ExportTraceServiceRequest, ExportTraceServiceRequest_Unmarshal, ExportTraceServiceRequest_MarshalToSizedBuffer, ExportTraceServiceRequest_Size,
    ExportTraceServiceRequest_UnmarshalJSON, {}, <<>>, {}),
  ExportTraceServiceResponse |-> Tables(ExportTraceServiceResponse, ExportTraceServiceResponse_Unmarshal, ExportTraceServiceResponse_MarshalToSizedBuffer, ExportTraceServiceResponse_Size,
    ExportTraceServiceResponse_unmarshalJsoniter, {}, <<>>, {}),
  ExportTracePartialSuccess |-> Tables(ExportTracePartialSuccess, ExportTracePartialSuccess_Unmarshal, ExportTracePartialSuccess_MarshalToSizedBuffer, ExportTracePartialSuccess_Size,
    ExportTracePartialSuccess_unmarshalJsoniter, ExportTracePartialSuccess_CopyTo, <<>>, {}),
  ExportMetricsServiceRequest |-> Tables(ExportMetricsServiceRequest, ExportMetricsServiceRequest_Unmarshal, ExportMetricsServiceRequest_MarshalToSizedBuffer, ExportMetricsServiceRequest_Size,
    ExportMetricsServiceRequest_UnmarshalJSON, {}, <<>>, {}),
  ExportMetricsServiceResponse |-> Tables(ExportMetricsServiceResponse, ExportMetricsServiceResponse_Unmarshal, ExportMetricsServiceResponse_MarshalToSizedBuffer, ExportMetricsServiceResponse_Size,
    ExportMetricsServiceResponse_unmarshalJsoniter, {}, <<>>, {}),
  ExportMetricsPartialSuccess |-> Tables(ExportMetricsPartialSuccess, ExportMetricsPartialSuccess_Unmarshal, ExportMetricsPartialSuccess_MarshalToSizedBuffer, ExportMetricsPartialSuccess_Size,
    ExportMetricsPartialSuccess_unmarshalJsoniter, ExportMetricsPartialSuccess_CopyTo, <<>>, {}),
  ExportLogsServiceRequest |-> Tables(ExportLogsServiceRequest, ExportLogsServiceRequest_Unmarshal, ExportLogsServiceRequest_MarshalToSizedBuffer, ExportLogsServiceRequest_Size,
    ExportLogsServiceRequest_UnmarshalJSON, {}, <<>>, {}),
  ExportLogsServiceResponse |-> Tables(ExportLogsServiceResponse, ExportLogsServiceResponse_Unmarshal, ExportLogsServiceResponse_MarshalToSizedBuffer, ExportLogsServiceResponse_Size,
    ExportLogsServiceResponse_unmarshalJsoniter, {}, <<>>, {}),
  ExportLogsPartialSuccess |-> Tables(ExportLogsPartialSuccess, ExportLogsPartialSuccess_Unmarshal, ExportLogsPartialSuccess_MarshalToSizedBuffer, ExportLogsPartialSuccess_Size,
    ExportLogsPartialSuccess_unmarshalJsoniter, ExportLogsPartialSuccess_CopyTo, <<>>, {}),
  ExportProfilesServiceRequest |-> Tables(ExportProfilesServiceRequest, ExportProfilesServiceRequest_Unmarshal, ExportProfilesServiceRequest_MarshalToSizedBuffer, ExportProfilesServiceRequest_Size,
    ExportProfilesServiceRequest_UnmarshalJSON, {}, <<>>, {}),
  ExportProfilesServiceResponse |-> Tables(ExportProfilesServiceResponse, ExportProfilesServiceResponse_Unmarshal, ExportProfilesServiceResponse_MarshalToSizedBuffer, ExportProfilesServiceResponse_Size,
    ExportProfilesServiceResponse_unmarshalJsoniter, {}, <<>>, {}),
  ExportProfilesPartialSuccess |-> Tables(ExportProfilesPartialSuccess, ExportProfilesPartialSuccess_Unmarshal, ExportProfilesPartialSuccess_MarshalToSizedBuffer, ExportProfilesPartialSuccess_Size,
    ExportProfilesPartialSuccess_unmarshalJsoniter, ExportProfilesPartialSuccess_CopyTo, <<>>, {})]
=============================================================================
