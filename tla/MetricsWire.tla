------------------------------ MODULE MetricsWire ------------------------------
(*****************************************************************************)
(* The messages of metrics/v1 (metrics.pb.go), their JSON readers            *)
(* (pmetric/json.go) and the CopyTo of their wrappers                        *)
(* (pmetric/generated_*.go).                                                 *)
(* WireFormat says what a row means.                                         *)
(*****************************************************************************)
EXTENDS WireFormat

MetricsData == <<Many(1, "ResourceMetrics", "message", "resource_metrics", "resourceMetrics")>>

MetricsData_Unmarshal == {Add(1, 2, "message", "ResourceMetrics")}

MetricsData_MarshalToSizedBuffer == <<PutEach("ResourceMetrics", 10, "message")>>

MetricsData_Size == <<AddEach("ResourceMetrics", 1, "message")>>

MetricsData_unmarshalJsoniter == {
  ReadEach({"resource_metrics", "resourceMetrics"}, "ResourceMetrics", "message")}

ResourceMetrics == <<
  Many(1000, "DeprecatedScopeMetrics", "message", "deprecated_scope_metrics", "deprecatedScopeMetrics"),
  One(1, "Resource", "message", "resource", "resource"),
  Many(2, "ScopeMetrics", "message", "scope_metrics", "scopeMetrics"),
  One(3, "SchemaUrl", "string", "schema_url", "schemaUrl")>>

ResourceMetrics_Unmarshal == {
  Merge(1, 2, "Resource"), Add(2, 2, "message", "ScopeMetrics"), Set(3, 2, "bytes", "SchemaUrl"),
  Add(1000, 2, "message", "DeprecatedScopeMetrics")}

ResourceMetrics_MarshalToSizedBuffer == <<
  PutAlways("Resource", 10, "message"), PutEach("ScopeMetrics", 18, "message"),
  PutNonZero("SchemaUrl", 26, "bytes"), PutEach("DeprecatedScopeMetrics", 8002, "message")>>

ResourceMetrics_Size == <<
  AddAlways("Resource", 1, "message"), AddEach("ScopeMetrics", 1, "message"),
  AddNonZero("SchemaUrl", 1, "bytes"), AddEach("DeprecatedScopeMetrics", 2, "message")>>

ResourceMetrics_unmarshalJsoniter == {
  ReadOne({"resource"}, "Resource", "message"),
  ReadEach({"scopeMetrics", "scope_metrics"}, "ScopeMetrics", "message"),
  ReadOne({"schemaUrl", "schema_url"}, "SchemaUrl", "value")}

ResourceMetrics_CopyTo == {
  Copy("Resource", "Resource"), Copy("SchemaUrl", "SchemaUrl"), Copy("ScopeMetrics", "ScopeMetrics")}

ScopeMetrics == <<
  One(1, "Scope", "message", "scope", "scope"), Many(2, "Metrics", "message", "metrics", "metrics"),
  One(3, "SchemaUrl", "string", "schema_url", "schemaUrl")>>

ScopeMetrics_Unmarshal == {
  Merge(1, 2, "Scope"), Add(2, 2, "message", "Metrics"), Set(3, 2, "bytes", "SchemaUrl")}

ScopeMetrics_MarshalToSizedBuffer == <<
  PutAlways("Scope", 10, "message"), PutEach("Metrics", 18, "message"),
  PutNonZero("SchemaUrl", 26, "bytes")>>

ScopeMetrics_Size == <<
  AddAlways("Scope", 1, "message"), AddEach("Metrics", 1, "message"),
  AddNonZero("SchemaUrl", 1, "bytes")>>

ScopeMetrics_unmarshalJsoniter == {
  ReadOne({"scope"}, "Scope", "message"), ReadEach({"metrics"}, "Metrics", "message"),
  ReadOne({"schemaUrl", "schema_url"}, "SchemaUrl", "value")}

ScopeMetrics_CopyTo == {
  Copy("Scope", "Scope"), Copy("SchemaUrl", "SchemaUrl"), Copy("Metrics", "Metrics")}

Metric == <<
  One(1, "Name", "string", "name", "name"),
  One(2, "Description", "string", "description", "description"),
  One(3, "Unit", "string", "unit", "unit"), Arm(5, "Data", "Gauge", "message", "gauge", "gauge"),
  Arm(7, "Data", "Sum", "message", "sum", "sum"),
  Arm(9, "Data", "Histogram", "message", "histogram", "histogram"),
  Arm(10, "Data", "ExponentialHistogram", "message", "exponential_histogram", "exponentialHistogram"),
  Arm(11, "Data", "Summary", "message", "summary", "summary"),
  Many(12, "Metadata", "message", "metadata", "metadata")>>

Metric_Unmarshal == {
  Set(1, 2, "bytes", "Name"), Set(2, 2, "bytes", "Description"), Set(3, 2, "bytes", "Unit"),
  Choose(5, 2, "message", "Data", "Gauge"), Choose(7, 2, "message", "Data", "Sum"),
  Choose(9, 2, "message", "Data", "Histogram"),
  Choose(10, 2, "message", "Data", "ExponentialHistogram"), Choose(11, 2, "message", "Data", "Summary"),
  Add(12, 2, "message", "Metadata")}

Metric_MarshalToSizedBuffer == <<
  PutNonZero("Name", 10, "bytes"), PutNonZero("Description", 18, "bytes"),
  PutNonZero("Unit", 26, "bytes"), PutChosen("Data", "Summary", 90, "message"),
  PutChosen("Data", "ExponentialHistogram", 82, "message"),
  PutChosen("Data", "Histogram", 74, "message"), PutChosen("Data", "Sum", 58, "message"),
  PutChosen("Data", "Gauge", 42, "message"), PutEach("Metadata", 98, "message")>>

Metric_Size == <<
  AddNonZero("Name", 1, "bytes"), AddNonZero("Description", 1, "bytes"), AddNonZero("Unit", 1, "bytes"),
  AddChosen("Data", "Gauge", 1, "message"), AddChosen("Data", "Sum", 1, "message"),
  AddChosen("Data", "Histogram", 1, "message"), AddChosen("Data", "ExponentialHistogram", 1, "message"),
  AddChosen("Data", "Summary", 1, "message"), AddEach("Metadata", 1, "message")>>

Metric_unmarshalJsoniter == {
  ReadOne({"name"}, "Name", "value"), ReadOne({"description"}, "Description", "value"),
  ReadOne({"unit"}, "Unit", "value"), ReadEach({"metadata"}, "Metadata", "message"),
  ReadArm({"sum"}, "Data", "Sum", "message"), ReadArm({"gauge"}, "Data", "Gauge", "message"),
  ReadArm({"histogram"}, "Data", "Histogram", "message"),
  ReadArm({"exponential_histogram", "exponentialHistogram"}, "Data", "ExponentialHistogram", "message"),
  ReadArm({"summary"}, "Data", "Summary", "message")}

Metric_CopyTo == {
  Copy("Name", "Name"), Copy("Description", "Description"), Copy("Unit", "Unit"),
  Copy("Metadata", "Metadata"), CopyIf("Data", "Gauge"), CopyIf("Data", "Sum"),
  CopyIf("Data", "Histogram"), CopyIf("Data", "ExponentialHistogram"), CopyIf("Data", "Summary")}

Gauge == <<Many(1, "DataPoints", "message", "data_points", "dataPoints")>>

Gauge_Unmarshal == {Add(1, 2, "message", "DataPoints")}

Gauge_MarshalToSizedBuffer == <<PutEach("DataPoints", 10, "message")>>

Gauge_Size == <<AddEach("DataPoints", 1, "message")>>

Gauge_unmarshalJsoniter == {ReadEach({"data_points", "dataPoints"}, "DataPoints", "message")}

Gauge_CopyTo == {Copy("DataPoints", "DataPoints")}

Sum == <<
  Many(1, "DataPoints", "message", "data_points", "dataPoints"),
  One(2, "AggregationTemporality", "int", "aggregation_temporality", "aggregationTemporality"),
  One(3, "IsMonotonic", "bool", "is_monotonic", "isMonotonic")>>

Sum_Unmarshal == {
  Add(1, 2, "message", "DataPoints"), Set(2, 0, "varint", "AggregationTemporality"),
  Set(3, 0, "bool", "IsMonotonic")}

Sum_MarshalToSizedBuffer == <<
  PutEach("DataPoints", 10, "message"), PutNonZero("AggregationTemporality", 16, "varint"),
  PutNonZero("IsMonotonic", 24, "bool")>>

Sum_Size == <<
  AddEach("DataPoints", 1, "message"), AddNonZero("AggregationTemporality", 1, "varint"),
  AddNonZero("IsMonotonic", 2, "none")>>

Sum_unmarshalJsoniter == {
  ReadOne({"aggregation_temporality", "aggregationTemporality"}, "AggregationTemporality", "value"),
  ReadOne({"is_monotonic", "isMonotonic"}, "IsMonotonic", "value"),
  ReadEach({"data_points", "dataPoints"}, "DataPoints", "message")}

Sum_CopyTo == {
  Copy("AggregationTemporality", "AggregationTemporality"), Copy("IsMonotonic", "IsMonotonic"),
  Copy("DataPoints", "DataPoints")}

Histogram == <<
  Many(1, "DataPoints", "message", "data_points", "dataPoints"),
  One(2, "AggregationTemporality", "int", "aggregation_temporality", "aggregationTemporality")>>

Histogram_Unmarshal == {
  Add(1, 2, "message", "DataPoints"), Set(2, 0, "varint", "AggregationTemporality")}

Histogram_MarshalToSizedBuffer == <<
  PutEach("DataPoints", 10, "message"), PutNonZero("AggregationTemporality", 16, "varint")>>

Histogram_Size == <<
  AddEach("DataPoints", 1, "message"), AddNonZero("AggregationTemporality", 1, "varint")>>

Histogram_unmarshalJsoniter == {
  ReadEach({"data_points", "dataPoints"}, "DataPoints", "message"),
  ReadOne({"aggregation_temporality", "aggregationTemporality"}, "AggregationTemporality", "value")}

Histogram_CopyTo == {
  Copy("AggregationTemporality", "AggregationTemporality"), Copy("DataPoints", "DataPoints")}

ExponentialHistogram == <<
  Many(1, "DataPoints", "message", "data_points", "dataPoints"),
  One(2, "AggregationTemporality", "int", "aggregation_temporality", "aggregationTemporality")>>

ExponentialHistogram_Unmarshal == {
  Add(1, 2, "message", "DataPoints"), Set(2, 0, "varint", "AggregationTemporality")}

ExponentialHistogram_MarshalToSizedBuffer == <<
  PutEach("DataPoints", 10, "message"), PutNonZero("AggregationTemporality", 16, "varint")>>

ExponentialHistogram_Size == <<
  AddEach("DataPoints", 1, "message"), AddNonZero("AggregationTemporality", 1, "varint")>>

ExponentialHistogram_unmarshalJsoniter == {
  ReadEach({"data_points", "dataPoints"}, "DataPoints", "message"),
  ReadOne({"aggregation_temporality", "aggregationTemporality"}, "AggregationTemporality", "value")}

ExponentialHistogram_CopyTo == {
  Copy("AggregationTemporality", "AggregationTemporality"), Copy("DataPoints", "DataPoints")}

Summary == <<Many(1, "DataPoints", "message", "data_points", "dataPoints")>>

Summary_Unmarshal == {Add(1, 2, "message", "DataPoints")}

Summary_MarshalToSizedBuffer == <<PutEach("DataPoints", 10, "message")>>

Summary_Size == <<AddEach("DataPoints", 1, "message")>>

Summary_unmarshalJsoniter == {ReadEach({"data_points", "dataPoints"}, "DataPoints", "message")}

Summary_CopyTo == {Copy("DataPoints", "DataPoints")}

NumberDataPoint == <<
  Many(7, "Attributes", "message", "attributes", "attributes"),
  One(2, "StartTimeUnixNano", "fixed64", "start_time_unix_nano", "startTimeUnixNano"),
  One(3, "TimeUnixNano", "fixed64", "time_unix_nano", "timeUnixNano"),
  Arm(4, "Value", "AsDouble", "double", "as_double", "asDouble"),
  Arm(6, "Value", "AsInt", "fixed64", "as_int", "asInt"),
  Many(5, "Exemplars", "message", "exemplars", "exemplars"), One(8, "Flags", "uint", "flags", "flags")>>

NumberDataPoint_Unmarshal == {
  Set(2, 1, "fixed64", "StartTimeUnixNano"), Set(3, 1, "fixed64", "TimeUnixNano"),
  Choose(4, 1, "double", "Value", "AsDouble"), Add(5, 2, "message", "Exemplars"),
  Choose(6, 1, "fixed64", "Value", "AsInt"), Add(7, 2, "message", "Attributes"),
  Set(8, 0, "varint", "Flags")}

NumberDataPoint_MarshalToSizedBuffer == <<
  PutNonZero("StartTimeUnixNano", 17, "fixed64"), PutNonZero("TimeUnixNano", 25, "fixed64"),
  PutEach("Exemplars", 42, "message"), PutChosen("Value", "AsInt", 49, "fixed64"),
  PutChosen("Value", "AsDouble", 33, "double"), PutEach("Attributes", 58, "message"),
  PutNonZero("Flags", 64, "varint")>>

NumberDataPoint_Size == <<
  AddNonZero("StartTimeUnixNano", 9, "none"), AddNonZero("TimeUnixNano", 9, "none"),
  AddChosen("Value", "AsDouble", 9, "none"), AddChosen("Value", "AsInt", 9, "none"),
  AddEach("Exemplars", 1, "message"), AddEach("Attributes", 1, "message"),
  AddNonZero("Flags", 1, "varint")>>

NumberDataPoint_unmarshalJsoniter == {
  ReadOne({"timeUnixNano", "time_unix_nano"}, "TimeUnixNano", "value"),
  ReadOne({"start_time_unix_nano", "startTimeUnixNano"}, "StartTimeUnixNano", "value"),
  ReadArm({"as_int", "asInt"}, "Value", "AsInt", "value"),
  ReadArm({"as_double", "asDouble"}, "Value", "AsDouble", "value"),
  ReadEach({"attributes"}, "Attributes", "message"), ReadEach({"exemplars"}, "Exemplars", "message"),
  ReadOne({"flags"}, "Flags", "value")}

NumberDataPoint_CopyTo == {
  Copy("Attributes", "Attributes"), Copy("StartTimeUnixNano", "StartTimeUnixNano"),
  Copy("TimeUnixNano", "TimeUnixNano"), CopyIf("Value", "AsDouble"), CopyIf("Value", "AsInt"),
  Copy("Exemplars", "Exemplars"), Copy("Flags", "Flags")}

HistogramDataPoint == <<
  Many(9, "Attributes", "message", "attributes", "attributes"),
  One(2, "StartTimeUnixNano", "fixed64", "start_time_unix_nano", "startTimeUnixNano"),
  One(3, "TimeUnixNano", "fixed64", "time_unix_nano", "timeUnixNano"),
  One(4, "Count", "fixed64", "count", "count"), Arm(5, "Sum_", "Sum", "double", "sum", "sum"),
  Packed(6, "BucketCounts", "fixed64", "bucket_counts", "bucketCounts"),
  Packed(7, "ExplicitBounds", "double", "explicit_bounds", "explicitBounds"),
  Many(8, "Exemplars", "message", "exemplars", "exemplars"), One(10, "Flags", "uint", "flags", "flags"),
  Arm(11, "Min_", "Min", "double", "min", "min"), Arm(12, "Max_", "Max", "double", "max", "max")>>

HistogramDataPoint_Unmarshal == {
  Set(2, 1, "fixed64", "StartTimeUnixNano"), Set(3, 1, "fixed64", "TimeUnixNano"),
  Set(4, 1, "fixed64", "Count"), Choose(5, 1, "double", "Sum_", "Sum"),
  Pack(6, 1, "fixed64", "BucketCounts"), Pack(7, 1, "double", "ExplicitBounds"),
  Add(8, 2, "message", "Exemplars"), Add(9, 2, "message", "Attributes"), Set(10, 0, "varint", "Flags"),
  Choose(11, 1, "double", "Min_", "Min"), Choose(12, 1, "double", "Max_", "Max")}

HistogramDataPoint_MarshalToSizedBuffer == <<
  PutNonZero("StartTimeUnixNano", 17, "fixed64"), PutNonZero("TimeUnixNano", 25, "fixed64"),
  PutNonZero("Count", 33, "fixed64"), PutChosen("Sum_", "Sum", 41, "double"),
  PutPacked("BucketCounts", 50, "fixed64"), PutPacked("ExplicitBounds", 58, "double"),
  PutEach("Exemplars", 66, "message"), PutEach("Attributes", 74, "message"),
  PutNonZero("Flags", 80, "varint"), PutChosen("Min_", "Min", 89, "double"),
  PutChosen("Max_", "Max", 97, "double")>>

HistogramDataPoint_Size == <<
  AddNonZero("StartTimeUnixNano", 9, "none"), AddNonZero("TimeUnixNano", 9, "none"),
  AddNonZero("Count", 9, "none"), AddChosen("Sum_", "Sum", 9, "none"),
  AddPacked("BucketCounts", 1, "fixed64"), AddPacked("ExplicitBounds", 1, "fixed64"),
  AddEach("Exemplars", 1, "message"), AddEach("Attributes", 1, "message"),
  AddNonZero("Flags", 1, "varint"), AddChosen("Min_", "Min", 9, "none"),
  AddChosen("Max_", "Max", 9, "none")>>

HistogramDataPoint_unmarshalJsoniter == {
  ReadOne({"timeUnixNano", "time_unix_nano"}, "TimeUnixNano", "value"),
  ReadOne({"start_time_unix_nano", "startTimeUnixNano"}, "StartTimeUnixNano", "value"),
  ReadEach({"attributes"}, "Attributes", "message"), ReadOne({"count"}, "Count", "value"),
  ReadArm({"sum"}, "Sum_", "Sum", "value"),
  ReadEach({"bucket_counts", "bucketCounts"}, "BucketCounts", "value"),
  ReadEach({"explicit_bounds", "explicitBounds"}, "ExplicitBounds", "value"),
  ReadEach({"exemplars"}, "Exemplars", "message"), ReadOne({"flags"}, "Flags", "value"),
  ReadArm({"max"}, "Max_", "Max", "value"), ReadArm({"min"}, "Min_", "Min", "value")}

HistogramDataPoint_CopyTo == {
  Copy("Attributes", "Attributes"), Copy("StartTimeUnixNano", "StartTimeUnixNano"),
  Copy("TimeUnixNano", "TimeUnixNano"), Copy("Count", "Count"), Copy("BucketCounts", "BucketCounts"),
  Copy("ExplicitBounds", "ExplicitBounds"), Copy("Exemplars", "Exemplars"), Copy("Flags", "Flags"),
  CopyIf("Sum_", "Sum"), CopyIf("Min_", "Min"), CopyIf("Max_", "Max")}

ExponentialHistogramDataPoint == <<
  Many(1, "Attributes", "message", "attributes", "attributes"),
  One(2, "StartTimeUnixNano", "fixed64", "start_time_unix_nano", "startTimeUnixNano"),
  One(3, "TimeUnixNano", "fixed64", "time_unix_nano", "timeUnixNano"),
  One(4, "Count", "fixed64", "count", "count"), Arm(5, "Sum_", "Sum", "double", "sum", "sum"),
  One(6, "Scale", "zigzag", "scale", "scale"),
  One(7, "ZeroCount", "fixed64", "zero_count", "zeroCount"),
  One(8, "Positive", "message", "positive", "positive"),
  One(9, "Negative", "message", "negative", "negative"), One(10, "Flags", "uint", "flags", "flags"),
  Many(11, "Exemplars", "message", "exemplars", "exemplars"),
  Arm(12, "Min_", "Min", "double", "min", "min"), Arm(13, "Max_", "Max", "double", "max", "max"),
  One(14, "ZeroThreshold", "double", "zero_threshold", "zeroThreshold")>>

ExponentialHistogramDataPoint_Unmarshal == {
  Add(1, 2, "message", "Attributes"), Set(2, 1, "fixed64", "StartTimeUnixNano"),
  Set(3, 1, "fixed64", "TimeUnixNano"), Set(4, 1, "fixed64", "Count"),
  Choose(5, 1, "double", "Sum_", "Sum"), Set(6, 0, "zigzag", "Scale"),
  Set(7, 1, "fixed64", "ZeroCount"), Merge(8, 2, "Positive"), Merge(9, 2, "Negative"),
  Set(10, 0, "varint", "Flags"), Add(11, 2, "message", "Exemplars"),
  Choose(12, 1, "double", "Min_", "Min"), Choose(13, 1, "double", "Max_", "Max"),
  Set(14, 1, "double", "ZeroThreshold")}

ExponentialHistogramDataPoint_MarshalToSizedBuffer == <<
  PutEach("Attributes", 10, "message"), PutNonZero("StartTimeUnixNano", 17, "fixed64"),
  PutNonZero("TimeUnixNano", 25, "fixed64"), PutNonZero("Count", 33, "fixed64"),
  PutChosen("Sum_", "Sum", 41, "double"), PutNonZero("Scale", 48, "zigzag"),
  PutNonZero("ZeroCount", 57, "fixed64"), PutAlways("Positive", 66, "message"),
  PutAlways("Negative", 74, "message"), PutNonZero("Flags", 80, "varint"),
  PutEach("Exemplars", 90, "message"), PutChosen("Min_", "Min", 97, "double"),
  PutChosen("Max_", "Max", 105, "double"), PutNonZero("ZeroThreshold", 113, "double")>>

ExponentialHistogramDataPoint_Size == <<
  AddEach("Attributes", 1, "message"), AddNonZero("StartTimeUnixNano", 9, "none"),
  AddNonZero("TimeUnixNano", 9, "none"), AddNonZero("Count", 9, "none"),
  AddChosen("Sum_", "Sum", 9, "none"), AddNonZero("Scale", 1, "zigzag"),
  AddNonZero("ZeroCount", 9, "none"), AddAlways("Positive", 1, "message"),
  AddAlways("Negative", 1, "message"), AddNonZero("Flags", 1, "varint"),
  AddEach("Exemplars", 1, "message"), AddChosen("Min_", "Min", 9, "none"),
  AddChosen("Max_", "Max", 9, "none"), AddNonZero("ZeroThreshold", 9, "none")>>

ExponentialHistogramDataPoint_unmarshalJsoniter == {
  ReadOne({"timeUnixNano", "time_unix_nano"}, "TimeUnixNano", "value"),
  ReadOne({"start_time_unix_nano", "startTimeUnixNano"}, "StartTimeUnixNano", "value"),
  ReadEach({"attributes"}, "Attributes", "message"), ReadOne({"count"}, "Count", "value"),
  ReadArm({"sum"}, "Sum_", "Sum", "value"), ReadOne({"scale"}, "Scale", "value"),
  ReadOne({"zero_count", "zeroCount"}, "ZeroCount", "value"),
  ReadOne({"positive"}, "Positive", "message"), ReadOne({"negative"}, "Negative", "message"),
  ReadEach({"exemplars"}, "Exemplars", "message"), ReadOne({"flags"}, "Flags", "value"),
  ReadArm({"max"}, "Max_", "Max", "value"), ReadArm({"min"}, "Min_", "Min", "value")}

ExponentialHistogramDataPoint_CopyTo == {
  Copy("Attributes", "Attributes"), Copy("StartTimeUnixNano", "StartTimeUnixNano"),
  Copy("TimeUnixNano", "TimeUnixNano"), Copy("Count", "Count"), Copy("Scale", "Scale"),
  Copy("ZeroCount", "ZeroCount"), Copy("Positive", "Positive"), Copy("Negative", "Negative"),
  Copy("Exemplars", "Exemplars"), Copy("Flags", "Flags"), CopyIf("Sum_", "Sum"), CopyIf("Min_", "Min"),
  CopyIf("Max_", "Max"), Copy("ZeroThreshold", "ZeroThreshold")}

ExponentialHistogramDataPoint_Buckets == <<
  One(1, "Offset", "zigzag", "offset", "offset"),
  Packed(2, "BucketCounts", "uint", "bucket_counts", "bucketCounts")>>

ExponentialHistogramDataPoint_Buckets_Unmarshal == {
  Set(1, 0, "zigzag", "Offset"), Pack(2, 0, "varint", "BucketCounts")}

ExponentialHistogramDataPoint_Buckets_MarshalToSizedBuffer == <<
  PutNonZero("Offset", 8, "zigzag"), PutPacked("BucketCounts", 18, "varint")>>

ExponentialHistogramDataPoint_Buckets_Size == <<
  AddNonZero("Offset", 1, "zigzag"), AddPacked("BucketCounts", 1, "varint")>>

ExponentialHistogramDataPoint_Buckets_unmarshalJsoniter == {
  ReadEach({"bucket_counts", "bucketCounts"}, "BucketCounts", "value"),
  ReadOne({"offset"}, "Offset", "value")}

ExponentialHistogramDataPoint_Buckets_CopyTo == {
  Copy("Offset", "Offset"), Copy("BucketCounts", "BucketCounts")}

SummaryDataPoint == <<
  Many(7, "Attributes", "message", "attributes", "attributes"),
  One(2, "StartTimeUnixNano", "fixed64", "start_time_unix_nano", "startTimeUnixNano"),
  One(3, "TimeUnixNano", "fixed64", "time_unix_nano", "timeUnixNano"),
  One(4, "Count", "fixed64", "count", "count"), One(5, "Sum", "double", "sum", "sum"),
  Many(6, "QuantileValues", "message", "quantile_values", "quantileValues"),
  One(8, "Flags", "uint", "flags", "flags")>>

SummaryDataPoint_Unmarshal == {
  Set(2, 1, "fixed64", "StartTimeUnixNano"), Set(3, 1, "fixed64", "TimeUnixNano"),
  Set(4, 1, "fixed64", "Count"), Set(5, 1, "double", "Sum"), Add(6, 2, "message", "QuantileValues"),
  Add(7, 2, "message", "Attributes"), Set(8, 0, "varint", "Flags")}

SummaryDataPoint_MarshalToSizedBuffer == <<
  PutNonZero("StartTimeUnixNano", 17, "fixed64"), PutNonZero("TimeUnixNano", 25, "fixed64"),
  PutNonZero("Count", 33, "fixed64"), PutNonZero("Sum", 41, "double"),
  PutEach("QuantileValues", 50, "message"), PutEach("Attributes", 58, "message"),
  PutNonZero("Flags", 64, "varint")>>

SummaryDataPoint_Size == <<
  AddNonZero("StartTimeUnixNano", 9, "none"), AddNonZero("TimeUnixNano", 9, "none"),
  AddNonZero("Count", 9, "none"), AddNonZero("Sum", 9, "none"), AddEach("QuantileValues", 1, "message"),
  AddEach("Attributes", 1, "message"), AddNonZero("Flags", 1, "varint")>>

SummaryDataPoint_unmarshalJsoniter == {
  ReadOne({"timeUnixNano", "time_unix_nano"}, "TimeUnixNano", "value"),
  ReadOne({"start_time_unix_nano", "startTimeUnixNano"}, "StartTimeUnixNano", "value"),
  ReadEach({"attributes"}, "Attributes", "message"), ReadOne({"count"}, "Count", "value"),
  ReadOne({"sum"}, "Sum", "value"),
  ReadEach({"quantile_values", "quantileValues"}, "QuantileValues", "message"),
  ReadOne({"flags"}, "Flags", "value")}

SummaryDataPoint_CopyTo == {
  Copy("Attributes", "Attributes"), Copy("StartTimeUnixNano", "StartTimeUnixNano"),
  Copy("TimeUnixNano", "TimeUnixNano"), Copy("Count", "Count"), Copy("Sum", "Sum"),
  Copy("QuantileValues", "QuantileValues"), Copy("Flags", "Flags")}

SummaryDataPoint_ValueAtQuantile == <<
  One(1, "Quantile", "double", "quantile", "quantile"), One(2, "Value", "double", "value", "value")>>

SummaryDataPoint_ValueAtQuantile_Unmarshal == {
  Set(1, 1, "double", "Quantile"), Set(2, 1, "double", "Value")}

SummaryDataPoint_ValueAtQuantile_MarshalToSizedBuffer == <<
  PutNonZero("Quantile", 9, "double"), PutNonZero("Value", 17, "double")>>

SummaryDataPoint_ValueAtQuantile_Size == <<
  AddNonZero("Quantile", 9, "none"), AddNonZero("Value", 9, "none")>>

SummaryDataPoint_ValueAtQuantile_unmarshalJsoniter == {
  ReadOne({"quantile"}, "Quantile", "value"), ReadOne({"value"}, "Value", "value")}

SummaryDataPoint_ValueAtQuantile_CopyTo == {Copy("Quantile", "Quantile"), Copy("Value", "Value")}

Exemplar == <<
  Many(7, "FilteredAttributes", "message", "filtered_attributes", "filteredAttributes"),
  One(2, "TimeUnixNano", "fixed64", "time_unix_nano", "timeUnixNano"),
  Arm(3, "Value", "AsDouble", "double", "as_double", "asDouble"),
  Arm(6, "Value", "AsInt", "fixed64", "as_int", "asInt"),
  One(4, "SpanId", "SpanID", "span_id", "spanId"), One(5, "TraceId", "TraceID", "trace_id", "traceId")>>

Exemplar_Unmarshal == {
  Set(2, 1, "fixed64", "TimeUnixNano"), Choose(3, 1, "double", "Value", "AsDouble"),
  Set(4, 2, "SpanID", "SpanId"), Set(5, 2, "TraceID", "TraceId"),
  Choose(6, 1, "fixed64", "Value", "AsInt"), Add(7, 2, "message", "FilteredAttributes")}

Exemplar_MarshalToSizedBuffer == <<
  PutNonZero("TimeUnixNano", 17, "fixed64"), PutAlways("SpanId", 34, "SpanID"),
  PutAlways("TraceId", 42, "TraceID"), PutChosen("Value", "AsInt", 49, "fixed64"),
  PutChosen("Value", "AsDouble", 25, "double"), PutEach("FilteredAttributes", 58, "message")>>

Exemplar_Size == <<
  AddNonZero("TimeUnixNano", 9, "none"), AddChosen("Value", "AsDouble", 9, "none"),
  AddChosen("Value", "AsInt", 9, "none"), AddAlways("SpanId", 1, "SpanID"),
  AddAlways("TraceId", 1, "TraceID"), AddEach("FilteredAttributes", 1, "message")>>

Exemplar_unmarshalJsoniter == {
  ReadEach({"filtered_attributes", "filteredAttributes"}, "FilteredAttributes", "message"),
  ReadOne({"timeUnixNano", "time_unix_nano"}, "TimeUnixNano", "value"),
  ReadArm({"as_int", "asInt"}, "Value", "AsInt", "value"),
  ReadArm({"as_double", "asDouble"}, "Value", "AsDouble", "value"),
  ReadOne({"traceId", "trace_id"}, "TraceId", "value"),
  ReadOne({"spanId", "span_id"}, "SpanId", "value")}

Exemplar_CopyTo == {
  Copy("TimeUnixNano", "TimeUnixNano"), CopyIf("Value", "AsDouble"), CopyIf("Value", "AsInt"),
  Copy("FilteredAttributes", "FilteredAttributes"), Copy("TraceId", "TraceId"), Copy("SpanId", "SpanId")}

(* The ways of receiving metrics that call MigrateMetrics. *)
MigratedMetrics == {"grpc", "json"}

MetricsMessages == [
  MetricsData |-> Tables(MetricsData, MetricsData_Unmarshal, MetricsData_MarshalToSizedBuffer, MetricsData_Size,
    MetricsData_unmarshalJsoniter, {}, <<>>, {}),
  ResourceMetrics |-> Tables(ResourceMetrics, ResourceMetrics_Unmarshal, ResourceMetrics_MarshalToSizedBuffer, ResourceMetrics_Size,
    ResourceMetrics_unmarshalJsoniter, ResourceMetrics_CopyTo, <<"ScopeMetrics", "DeprecatedScopeMetrics">>, MigratedMetrics),
  ScopeMetrics |-> Tables(ScopeMetrics, ScopeMetrics_Unmarshal, ScopeMetrics_MarshalToSizedBuffer, ScopeMetrics_Size,
    ScopeMetrics_unmarshalJsoniter, ScopeMetrics_CopyTo, <<>>, {}),
  Metric |-> Tables(Metric, Metric_Unmarshal, Metric_MarshalToSizedBuffer, Metric_Size,
    Metric_unmarshalJsoniter, Metric_CopyTo, <<>>, {}),
  Gauge |-> Tables(Gauge, Gauge_Unmarshal, Gauge_MarshalToSizedBuffer, Gauge_Size,
    Gauge_unmarshalJsoniter, Gauge_CopyTo, <<>>, {}),
  Sum |-> Tables(Sum, Sum_Unmarshal, Sum_MarshalToSizedBuffer, Sum_Size,
    Sum_unmarshalJsoniter, Sum_CopyTo, <<>>, {}),
  Histogram |-> Tables(Histogram, Histogram_Unmarshal, Histogram_MarshalToSizedBuffer, Histogram_Size,
    Histogram_unmarshalJsoniter, Histogram_CopyTo, <<>>, {}),
  ExponentialHistogram |-> Tables(ExponentialHistogram, ExponentialHistogram_Unmarshal, ExponentialHistogram_MarshalToSizedBuffer, ExponentialHistogram_Size,
    ExponentialHistogram_unmarshalJsoniter, ExponentialHistogram_CopyTo, <<>>, {}),
  Summary |-> Tables(Summary, Summary_Unmarshal, Summary_MarshalToSizedBuffer, Summary_Size,
    Summary_unmarshalJsoniter, Summary_CopyTo, <<>>, {}),
  NumberDataPoint |-> Tables(NumberDataPoint, NumberDataPoint_Unmarshal, NumberDataPoint_MarshalToSizedBuffer, NumberDataPoint_Size,
    NumberDataPoint_unmarshalJsoniter, NumberDataPoint_CopyTo, <<>>, {}),
  HistogramDataPoint |-> Tables(HistogramDataPoint, HistogramDataPoint_Unmarshal, HistogramDataPoint_MarshalToSizedBuffer, HistogramDataPoint_Size,
    HistogramDataPoint_unmarshalJsoniter, HistogramDataPoint_CopyTo, <<>>, {}),
  ExponentialHistogramDataPoint |-> Tables(ExponentialHistogramDataPoint, ExponentialHistogramDataPoint_Unmarshal, ExponentialHistogramDataPoint_MarshalToSizedBuffer, ExponentialHistogramDataPoint_Size,
    ExponentialHistogramDataPoint_unmarshalJsoniter, ExponentialHistogramDataPoint_CopyTo, <<>>, {}),
  ExponentialHistogramDataPoint_Buckets |-> Tables(ExponentialHistogramDataPoint_Buckets, ExponentialHistogramDataPoint_Buckets_Unmarshal, ExponentialHistogramDataPoint_Buckets_MarshalToSizedBuffer, ExponentialHistogramDataPoint_Buckets_Size,
    ExponentialHistogramDataPoint_Buckets_unmarshalJsoniter, ExponentialHistogramDataPoint_Buckets_CopyTo, <<>>, {}),
  SummaryDataPoint |-> Tables(SummaryDataPoint, SummaryDataPoint_Unmarshal, SummaryDataPoint_MarshalToSizedBuffer, SummaryDataPoint_Size,
    SummaryDataPoint_unmarshalJsoniter, SummaryDataPoint_CopyTo, <<>>, {}),
  SummaryDataPoint_ValueAtQuantile |-> Tables(SummaryDataPoint_ValueAtQuantile, SummaryDataPoint_ValueAtQuantile_Unmarshal, SummaryDataPoint_ValueAtQuantile_MarshalToSizedBuffer, SummaryDataPoint_ValueAtQuantile_Size,
    SummaryDataPoint_ValueAtQuantile_unmarshalJsoniter, SummaryDataPoint_ValueAtQuantile_CopyTo, <<>>, {}),
  Exemplar |-> Tables(Exemplar, Exemplar_Unmarshal, Exemplar_MarshalToSizedBuffer, Exemplar_Size,
    Exemplar_unmarshalJsoniter, Exemplar_CopyTo, <<>>, {})]
=============================================================================
