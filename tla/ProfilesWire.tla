------------------------------ MODULE ProfilesWire ------------------------------
(*****************************************************************************)
(* The messages of profiles/v1development (profiles.pb.go), their JSON       *)
(* readers (pprofile/json.go) and the CopyTo of their wrappers               *)
(* (pprofile/generated_*.go).                                                *)
(* WireFormat says what a row means.                                         *)
(*****************************************************************************)
EXTENDS WireFormat

ProfilesData == <<Many(1, "ResourceProfiles", "message", "resource_profiles", "resourceProfiles")>>

ProfilesData_Unmarshal == {Add(1, 2, "message", "ResourceProfiles")}

ProfilesData_MarshalToSizedBuffer == <<PutEach("ResourceProfiles", 10, "message")>>

ProfilesData_Size == <<AddEach("ResourceProfiles", 1, "message")>>

ProfilesData_unmarshalJsoniter == {
  ReadEach({"resourceProfiles", "resource_profiles"}, "ResourceProfiles", "message")}

ResourceProfiles == <<
  One(1, "Resource", "message", "resource", "resource"),
  Many(2, "ScopeProfiles", "message", "scope_profiles", "scopeProfiles"),
  One(3, "SchemaUrl", "string", "schema_url", "schemaUrl")>>

ResourceProfiles_Unmarshal == {
  Merge(1, 2, "Resource"), Add(2, 2, "message", "ScopeProfiles"), Set(3, 2, "bytes", "SchemaUrl")}

ResourceProfiles_MarshalToSizedBuffer == <<
  PutAlways("Resource", 10, "message"), PutEach("ScopeProfiles", 18, "message"),
  PutNonZero("SchemaUrl", 26, "bytes")>>

ResourceProfiles_Size == <<
  AddAlways("Resource", 1, "message"), AddEach("ScopeProfiles", 1, "message"),
  AddNonZero("SchemaUrl", 1, "bytes")>>

ResourceProfiles_unmarshalJsoniter == {
  ReadOne({"resource"}, "Resource", "message"),
  ReadEach({"scopeProfiles", "scope_profiles"}, "ScopeProfiles", "message"),
  ReadOne({"schemaUrl", "schema_url"}, "SchemaUrl", "value")}

ResourceProfiles_CopyTo == {
  Copy("Resource", "Resource"), Copy("SchemaUrl", "SchemaUrl"), Copy("ScopeProfiles", "ScopeProfiles")}

ScopeProfiles == <<
  One(1, "Scope", "message", "scope", "scope"), Many(2, "Profiles", "message", "profiles", "profiles"),
  One(3, "SchemaUrl", "string", "schema_url", "schemaUrl")>>

ScopeProfiles_Unmarshal == {
  Merge(1, 2, "Scope"), Add(2, 2, "message", "Profiles"), Set(3, 2, "bytes", "SchemaUrl")}

ScopeProfiles_MarshalToSizedBuffer == <<
  PutAlways("Scope", 10, "message"), PutEach("Profiles", 18, "message"),
  PutNonZero("SchemaUrl", 26, "bytes")>>

ScopeProfiles_Size == <<
  AddAlways("Scope", 1, "message"), AddEach("Profiles", 1, "message"),
  AddNonZero("SchemaUrl", 1, "bytes")>>

ScopeProfiles_unmarshalJsoniter == {
  ReadOne({"scope"}, "Scope", "message"), ReadEach({"profiles"}, "Profiles", "message"),
  ReadOne({"schemaUrl", "schema_url"}, "SchemaUrl", "value")}

ScopeProfiles_CopyTo == {
  Copy("Scope", "Scope"), Copy("SchemaUrl", "SchemaUrl"), Copy("Profiles", "Profiles")}

Profile == <<
  Many(1, "SampleType", "message", "sample_type", "sampleType"),
  Many(2, "Sample", "message", "sample", "sample"),
  Many(3, "MappingTable", "message", "mapping_table", "mappingTable"),
  Many(4, "LocationTable", "message", "location_table", "locationTable"),
  Packed(5, "LocationIndices", "int", "location_indices", "locationIndices"),
  Many(6, "FunctionTable", "message", "function_table", "functionTable"),
  Many(7, "AttributeTable", "message", "attribute_table", "attributeTable"),
  Many(8, "AttributeUnits", "message", "attribute_units", "attributeUnits"),
  Many(9, "LinkTable", "message", "link_table", "linkTable"),
  Many(10, "StringTable", "string", "string_table", "stringTable"),
  One(11, "TimeNanos", "int", "time_nanos", "timeNanos"),
  One(12, "DurationNanos", "int", "duration_nanos", "durationNanos"),
  One(13, "PeriodType", "message", "period_type", "periodType"),
  One(14, "Period", "int", "period", "period"),
  Packed(15, "CommentStrindices", "int", "comment_strindices", "commentStrindices"),
  One(16, "DefaultSampleTypeStrindex", "int", "default_sample_type_strindex", "defaultSampleTypeStrindex"),
  One(17, "ProfileId", "ProfileID", "profile_id", "profileId"),
  One(19, "DroppedAttributesCount", "uint", "dropped_attributes_count", "droppedAttributesCount"),
  One(20, "OriginalPayloadFormat", "string", "original_payload_format", "originalPayloadFormat"),
  One(21, "OriginalPayload", "bytes", "original_payload", "originalPayload"),
  Packed(22, "AttributeIndices", "int", "attribute_indices", "attributeIndices")>>

Profile_Unmarshal == {
  Add(1, 2, "message", "SampleType"), Add(2, 2, "message", "Sample"),
  Add(3, 2, "message", "MappingTable"), Add(4, 2, "message", "LocationTable"),
  Pack(5, 0, "varint", "LocationIndices"), Add(6, 2, "message", "FunctionTable"),
  Add(7, 2, "message", "AttributeTable"), Add(8, 2, "message", "AttributeUnits"),
  Add(9, 2, "message", "LinkTable"), Add(10, 2, "bytes", "StringTable"),
  Set(11, 0, "varint", "TimeNanos"), Set(12, 0, "varint", "DurationNanos"), Merge(13, 2, "PeriodType"),
  Set(14, 0, "varint", "Period"), Pack(15, 0, "varint", "CommentStrindices"),
  Set(16, 0, "varint", "DefaultSampleTypeStrindex"), Set(17, 2, "ProfileID", "ProfileId"),
  Set(19, 0, "varint", "DroppedAttributesCount"), Set(20, 2, "bytes", "OriginalPayloadFormat"),
  Set(21, 2, "bytes", "OriginalPayload"), Pack(22, 0, "varint", "AttributeIndices")}

Profile_MarshalToSizedBuffer == <<
  PutEach("SampleType", 10, "message"), PutEach("Sample", 18, "message"),
  PutEach("MappingTable", 26, "message"), PutEach("LocationTable", 34, "message"),
  PutPacked("LocationIndices", 42, "varint"), PutEach("FunctionTable", 50, "message"),
  PutEach("AttributeTable", 58, "message"), PutEach("AttributeUnits", 66, "message"),
  PutEach("LinkTable", 74, "message"), PutEach("StringTable", 82, "bytes"),
  PutNonZero("TimeNanos", 88, "varint"), PutNonZero("DurationNanos", 96, "varint"),
  PutAlways("PeriodType", 106, "message"), PutNonZero("Period", 112, "varint"),
  PutPacked("CommentStrindices", 122, "varint"), PutNonZero("DefaultSampleTypeStrindex", 128, "varint"),
  PutAlways("ProfileId", 138, "ProfileID"), PutNonZero("DroppedAttributesCount", 152, "varint"),
  PutNonZero("OriginalPayloadFormat", 162, "bytes"), PutNonZero("OriginalPayload", 170, "bytes"),
  PutPacked("AttributeIndices", 178, "varint")>>

Profile_Size == <<
  AddEach("SampleType", 1, "message"), AddEach("Sample", 1, "message"),
  AddEach("MappingTable", 1, "message"), AddEach("LocationTable", 1, "message"),
  AddPacked("LocationIndices", 1, "varint"), AddEach("FunctionTable", 1, "message"),
  AddEach("AttributeTable", 1, "message"), AddEach("AttributeUnits", 1, "message"),
  AddEach("LinkTable", 1, "message"), AddEach("StringTable", 1, "bytes"),
  AddNonZero("TimeNanos", 1, "varint"), AddNonZero("DurationNanos", 1, "varint"),
  AddAlways("PeriodType", 1, "message"), AddNonZero("Period", 1, "varint"),
  AddPacked("CommentStrindices", 1, "varint"), AddNonZero("DefaultSampleTypeStrindex", 2, "varint"),
  AddAlways("ProfileId", 2, "ProfileID"), AddNonZero("DroppedAttributesCount", 2, "varint"),
  AddNonZero("OriginalPayloadFormat", 2, "bytes"), AddNonZero("OriginalPayload", 2, "bytes"),
  AddPacked("AttributeIndices", 2, "varint")>>

Profile_unmarshalJsoniter == {
  ReadOne({"profileId", "profile_id"}, "ProfileId", "value"),
  ReadEach({"sampleType", "sample_type"}, "SampleType", "message"),
  ReadEach({"sample"}, "Sample", "message"),
  ReadEach({"mappingTable", "mapping_table"}, "MappingTable", "message"),
  ReadEach({"locationTable", "location_table"}, "LocationTable", "message"),
  ReadEach({"locationIndices", "location_indices"}, "LocationIndices", "value"),
  ReadEach({"functionTable", "function_table"}, "FunctionTable", "message"),
  ReadEach({"attributeTable", "attribute_table"}, "AttributeTable", "message"),
  ReadEach({"attributeUnits", "attribute_units"}, "AttributeUnits", "message"),
  ReadEach({"linkTable", "link_table"}, "LinkTable", "message"),
  ReadEach({"stringTable", "string_table"}, "StringTable", "value"),
  ReadOne({"timeNanos", "time_nanos"}, "TimeNanos", "value"),
  ReadOne({"durationNanos", "duration_nanos"}, "DurationNanos", "value"),
  ReadOne({"periodType", "period_type"}, "PeriodType", "message"),
  ReadOne({"period"}, "Period", "value"),
  ReadEach({"commentStrindices", "comment_strindices"}, "CommentStrindices", "value"),
  ReadOne({"defaultSampleTypeStrindex", "default_sample_type_strindex"}, "DefaultSampleTypeStrindex", "value"),
  ReadEach({"attributeIndices", "attribute_indices"}, "AttributeIndices", "value"),
  ReadOne({"droppedAttributesCount", "dropped_attributes_count"}, "DroppedAttributesCount", "value"),
  ReadOne({"originalPayloadFormat", "original_payload_format"}, "OriginalPayloadFormat", "value"),
  ReadOne({"originalPayload", "original_payload"}, "OriginalPayload", "raw")}

Profile_CopyTo == {
  Copy("SampleType", "SampleType"), Copy("Sample", "Sample"), Copy("MappingTable", "MappingTable"),
  Copy("LocationTable", "LocationTable"), Copy("LocationIndices", "LocationIndices"),
  Copy("FunctionTable", "FunctionTable"), Copy("AttributeTable", "AttributeTable"),
  Copy("AttributeUnits", "AttributeUnits"), Copy("LinkTable", "LinkTable"),
  Copy("StringTable", "StringTable"), Copy("TimeNanos", "TimeNanos"),
  Copy("DurationNanos", "DurationNanos"), Copy("TimeNanos", "TimeNanos"),
  Copy("PeriodType", "PeriodType"), Copy("Period", "Period"),
  Copy("CommentStrindices", "CommentStrindices"),
  Copy("DefaultSampleTypeStrindex", "DefaultSampleTypeStrindex"), Copy("ProfileId", "ProfileId"),
  Copy("AttributeIndices", "AttributeIndices"),
  Copy("DroppedAttributesCount", "DroppedAttributesCount"),
  Copy("OriginalPayloadFormat", "OriginalPayloadFormat"), Copy("OriginalPayload", "OriginalPayload")}

AttributeUnit == <<
  One(1, "AttributeKeyStrindex", "int", "attribute_key_strindex", "attributeKeyStrindex"),
  One(2, "UnitStrindex", "int", "unit_strindex", "unitStrindex")>>

AttributeUnit_Unmarshal == {
  Set(1, 0, "varint", "AttributeKeyStrindex"), Set(2, 0, "varint", "UnitStrindex")}

AttributeUnit_MarshalToSizedBuffer == <<
  PutNonZero("AttributeKeyStrindex", 8, "varint"), PutNonZero("UnitStrindex", 16, "varint")>>

AttributeUnit_Size == <<
  AddNonZero("AttributeKeyStrindex", 1, "varint"), AddNonZero("UnitStrindex", 1, "varint")>>

AttributeUnit_unmarshalJsoniter == {
  ReadOne({"attributeKeyStrindex", "attribute_key_strindex"}, "AttributeKeyStrindex", "value"),
  ReadOne({"unitStrindex", "unit_strindex"}, "UnitStrindex", "value")}

AttributeUnit_CopyTo == {
  Copy("AttributeKeyStrindex", "AttributeKeyStrindex"), Copy("UnitStrindex", "UnitStrindex")}

Link == <<
  One(1, "TraceId", "TraceID", "trace_id", "traceId"), One(2, "SpanId", "SpanID", "span_id", "spanId")>>

Link_Unmarshal == {Set(1, 2, "TraceID", "TraceId"), Set(2, 2, "SpanID", "SpanId")}

Link_MarshalToSizedBuffer == <<
  PutAlways("TraceId", 10, "TraceID"), PutAlways("SpanId", 18, "SpanID")>>

Link_Size == <<AddAlways("TraceId", 1, "TraceID"), AddAlways("SpanId", 1, "SpanID")>>

Link_unmarshalJsoniter == {
  ReadOne({"traceId", "trace_id"}, "TraceId", "value"),
  ReadOne({"spanId", "span_id"}, "SpanId", "value")}

Link_CopyTo == {Copy("TraceId", "TraceId"), Copy("SpanId", "SpanId")}

ValueType == <<
  One(1, "TypeStrindex", "int", "type_strindex", "typeStrindex"),
  One(2, "UnitStrindex", "int", "unit_strindex", "unitStrindex"),
  One(3, "AggregationTemporality", "int", "aggregation_temporality", "aggregationTemporality")>>

ValueType_Unmarshal == {
  Set(1, 0, "varint", "TypeStrindex"), Set(2, 0, "varint", "UnitStrindex"),
  Set(3, 0, "varint", "AggregationTemporality")}

ValueType_MarshalToSizedBuffer == <<
  PutNonZero("TypeStrindex", 8, "varint"), PutNonZero("UnitStrindex", 16, "varint"),
  PutNonZero("AggregationTemporality", 24, "varint")>>

ValueType_Size == <<
  AddNonZero("TypeStrindex", 1, "varint"), AddNonZero("UnitStrindex", 1, "varint"),
  AddNonZero("AggregationTemporality", 1, "varint")>>

ValueType_unmarshalJsoniter == {
  ReadOne({"typeStrindex", "type_strindex"}, "TypeStrindex", "value"),
  ReadOne({"unitStrindex", "unit_strindex"}, "UnitStrindex", "value"),
  ReadOne({"aggregationTemporality", "aggregation_temporality"}, "AggregationTemporality", "value")}

ValueType_CopyTo == {
  Copy("TypeStrindex", "TypeStrindex"), Copy("UnitStrindex", "UnitStrindex"),
  Copy("AggregationTemporality", "AggregationTemporality")}

Sample == <<
  One(1, "LocationsStartIndex", "int", "locations_start_index", "locationsStartIndex"),
  One(2, "LocationsLength", "int", "locations_length", "locationsLength"),
  Packed(3, "Value", "int", "value", "value"),
  Packed(4, "AttributeIndices", "int", "attribute_indices", "attributeIndices"),
  Arm(5, "LinkIndex_", "LinkIndex", "int", "link_index", "linkIndex"),
  Packed(6, "TimestampsUnixNano", "uint", "timestamps_unix_nano", "timestampsUnixNano")>>

Sample_Unmarshal == {
  Set(1, 0, "varint", "LocationsStartIndex"), Set(2, 0, "varint", "LocationsLength"),
  Pack(3, 0, "varint", "Value"), Pack(4, 0, "varint", "AttributeIndices"),
  Choose(5, 0, "varint", "LinkIndex_", "LinkIndex"), Pack(6, 0, "varint", "TimestampsUnixNano")}

Sample_MarshalToSizedBuffer == <<
  PutNonZero("LocationsStartIndex", 8, "varint"), PutNonZero("LocationsLength", 16, "varint"),
  PutPacked("Value", 26, "varint"), PutPacked("AttributeIndices", 34, "varint"),
  PutChosen("LinkIndex_", "LinkIndex", 40, "varint"), PutPacked("TimestampsUnixNano", 50, "varint")>>

Sample_Size == <<
  AddNonZero("LocationsStartIndex", 1, "varint"), AddNonZero("LocationsLength", 1, "varint"),
  AddPacked("Value", 1, "varint"), AddPacked("AttributeIndices", 1, "varint"),
  AddChosen("LinkIndex_", "LinkIndex", 1, "varint"), AddPacked("TimestampsUnixNano", 1, "varint")>>

Sample_unmarshalJsoniter == {
  ReadOne({"locationsStartIndex", "locations_start_index"}, "LocationsStartIndex", "value"),
  ReadOne({"locationsLength", "locations_length"}, "LocationsLength", "value"),
  ReadEach({"value"}, "Value", "value"),
  ReadEach({"attributeIndices", "attribute_indices"}, "AttributeIndices", "value"),
  ReadArm({"linkIndex", "link_index"}, "LinkIndex_", "LinkIndex", "value"),
  ReadEach({"timestampsUnixNano", "timestamps_unix_nano"}, "TimestampsUnixNano", "value")}

Sample_CopyTo == {
  Copy("LocationsStartIndex", "LocationsStartIndex"), Copy("LocationsLength", "LocationsLength"),
  Copy("Value", "Value"), Copy("AttributeIndices", "AttributeIndices"),
  CopyIf("LinkIndex_", "LinkIndex"), Copy("TimestampsUnixNano", "TimestampsUnixNano")}

Mapping == <<
  One(1, "MemoryStart", "uint", "memory_start", "memoryStart"),
  One(2, "MemoryLimit", "uint", "memory_limit", "memoryLimit"),
  One(3, "FileOffset", "uint", "file_offset", "fileOffset"),
  One(4, "FilenameStrindex", "int", "filename_strindex", "filenameStrindex"),
  Packed(5, "AttributeIndices", "int", "attribute_indices", "attributeIndices"),
  One(6, "HasFunctions", "bool", "has_functions", "hasFunctions"),
  One(7, "HasFilenames", "bool", "has_filenames", "hasFilenames"),
  One(8, "HasLineNumbers", "bool", "has_line_numbers", "hasLineNumbers"),
  One(9, "HasInlineFrames", "bool", "has_inline_frames", "hasInlineFrames")>>

Mapping_Unmarshal == {
  Set(1, 0, "varint", "MemoryStart"), Set(2, 0, "varint", "MemoryLimit"),
  Set(3, 0, "varint", "FileOffset"), Set(4, 0, "varint", "FilenameStrindex"),
  Pack(5, 0, "varint", "AttributeIndices"), Set(6, 0, "bool", "HasFunctions"),
  Set(7, 0, "bool", "HasFilenames"), Set(8, 0, "bool", "HasLineNumbers"),
  Set(9, 0, "bool", "HasInlineFrames")}

Mapping_MarshalToSizedBuffer == <<
  PutNonZero("MemoryStart", 8, "varint"), PutNonZero("MemoryLimit", 16, "varint"),
  PutNonZero("FileOffset", 24, "varint"), PutNonZero("FilenameStrindex", 32, "varint"),
  PutPacked("AttributeIndices", 42, "varint"), PutNonZero("HasFunctions", 48, "bool"),
  PutNonZero("HasFilenames", 56, "bool"), PutNonZero("HasLineNumbers", 64, "bool"),
  PutNonZero("HasInlineFrames", 72, "bool")>>

Mapping_Size == <<
  AddNonZero("MemoryStart", 1, "varint"), AddNonZero("MemoryLimit", 1, "varint"),
  AddNonZero("FileOffset", 1, "varint"), AddNonZero("FilenameStrindex", 1, "varint"),
  AddPacked("AttributeIndices", 1, "varint"), AddNonZero("HasFunctions", 2, "none"),
  AddNonZero("HasFilenames", 2, "none"), AddNonZero("HasLineNumbers", 2, "none"),
  AddNonZero("HasInlineFrames", 2, "none")>>

Mapping_unmarshalJsoniter == {
  ReadOne({"memoryStart", "memory_start"}, "MemoryStart", "value"),
  ReadOne({"memoryLimit", "memory_limit"}, "MemoryLimit", "value"),
  ReadOne({"fileOffset", "file_offset"}, "FileOffset", "value"),
  ReadOne({"filenameStrindex", "filename_strindex"}, "FilenameStrindex", "value"),
  ReadEach({"attributeIndices", "attribute_indices"}, "AttributeIndices", "value"),
  ReadOne({"hasFunctions", "has_functions"}, "HasFunctions", "value"),
  ReadOne({"hasFilenames", "has_filenames"}, "HasFilenames", "value"),
  ReadOne({"hasLineNumbers", "has_line_numbers"}, "HasLineNumbers", "value"),
  ReadOne({"hasInlineFrames", "has_inline_frames"}, "HasInlineFrames", "value")}

Mapping_CopyTo == {
  Copy("MemoryStart", "MemoryStart"), Copy("MemoryLimit", "MemoryLimit"),
  Copy("FileOffset", "FileOffset"), Copy("FilenameStrindex", "FilenameStrindex"),
  Copy("AttributeIndices", "AttributeIndices"), Copy("HasFunctions", "HasFunctions"),
  Copy("HasFilenames", "HasFilenames"), Copy("HasLineNumbers", "HasLineNumbers"),
  Copy("HasInlineFrames", "HasInlineFrames")}

Location == <<
  Arm(1, "MappingIndex_", "MappingIndex", "int", "mapping_index", "mappingIndex"),
  One(2, "Address", "uint", "address", "address"), Many(3, "Line", "message", "line", "line"),
  One(4, "IsFolded", "bool", "is_folded", "isFolded"),
  Packed(5, "AttributeIndices", "int", "attribute_indices", "attributeIndices")>>

Location_Unmarshal == {
  Choose(1, 0, "varint", "MappingIndex_", "MappingIndex"), Set(2, 0, "varint", "Address"),
  Add(3, 2, "message", "Line"), Set(4, 0, "bool", "IsFolded"), Pack(5, 0, "varint", "AttributeIndices")}

Location_MarshalToSizedBuffer == <<
  PutChosen("MappingIndex_", "MappingIndex", 8, "varint"), PutNonZero("Address", 16, "varint"),
  PutEach("Line", 26, "message"), PutNonZero("IsFolded", 32, "bool"),
  PutPacked("AttributeIndices", 42, "varint")>>

Location_Size == <<
  AddChosen("MappingIndex_", "MappingIndex", 1, "varint"), AddNonZero("Address", 1, "varint"),
  AddEach("Line", 1, "message"), AddNonZero("IsFolded", 2, "none"),
  AddPacked("AttributeIndices", 1, "varint")>>

Location_unmarshalJsoniter == {
  ReadArm({"mappingIndex", "mapping_index"}, "MappingIndex_", "MappingIndex", "value"),
  ReadOne({"address"}, "Address", "value"), ReadEach({"line"}, "Line", "message"),
  ReadOne({"isFolded", "is_folded"}, "IsFolded", "value"),
  ReadEach({"attributeIndices", "attribute_indices"}, "AttributeIndices", "value")}

Location_CopyTo == {
  CopyIf("MappingIndex_", "MappingIndex"), Copy("Address", "Address"), Copy("Line", "Line"),
  Copy("IsFolded", "IsFolded"), Copy("AttributeIndices", "AttributeIndices")}

Line == <<
  One(1, "FunctionIndex", "int", "function_index", "functionIndex"),
  One(2, "Line", "int", "line", "line"), One(3, "Column", "int", "column", "column")>>

Line_Unmarshal == {
  Set(1, 0, "varint", "FunctionIndex"), Set(2, 0, "varint", "Line"), Set(3, 0, "varint", "Column")}

Line_MarshalToSizedBuffer == <<
  PutNonZero("FunctionIndex", 8, "varint"), PutNonZero("Line", 16, "varint"),
  PutNonZero("Column", 24, "varint")>>

Line_Size == <<
  AddNonZero("FunctionIndex", 1, "varint"), AddNonZero("Line", 1, "varint"),
  AddNonZero("Column", 1, "varint")>>

Line_unmarshalJsoniter == {
  ReadOne({"functionIndex", "function_index"}, "FunctionIndex", "value"),
  ReadOne({"line"}, "Line", "value"), ReadOne({"column"}, "Column", "value")}

Line_CopyTo == {
  Copy("FunctionIndex", "FunctionIndex"), Copy("Line", "Line"), Copy("Column", "Column")}

Function == <<
  One(1, "NameStrindex", "int", "name_strindex", "nameStrindex"),
  One(2, "SystemNameStrindex", "int", "system_name_strindex", "systemNameStrindex"),
  One(3, "FilenameStrindex", "int", "filename_strindex", "filenameStrindex"),
  One(4, "StartLine", "int", "start_line", "startLine")>>

Function_Unmarshal == {
  Set(1, 0, "varint", "NameStrindex"), Set(2, 0, "varint", "SystemNameStrindex"),
  Set(3, 0, "varint", "FilenameStrindex"), Set(4, 0, "varint", "StartLine")}

Function_MarshalToSizedBuffer == <<
  PutNonZero("NameStrindex", 8, "varint"), PutNonZero("SystemNameStrindex", 16, "varint"),
  PutNonZero("FilenameStrindex", 24, "varint"), PutNonZero("StartLine", 32, "varint")>>

Function_Size == <<
  AddNonZero("NameStrindex", 1, "varint"), AddNonZero("SystemNameStrindex", 1, "varint"),
  AddNonZero("FilenameStrindex", 1, "varint"), AddNonZero("StartLine", 1, "varint")>>

Function_unmarshalJsoniter == {
  ReadOne({"nameStrindex", "name_strindex"}, "NameStrindex", "value"),
  ReadOne({"systemNameStrindex", "system_name_strindex"}, "SystemNameStrindex", "value"),
  ReadOne({"filenameStrindex", "filename_strindex"}, "FilenameStrindex", "value"),
  ReadOne({"startLine", "start_line"}, "StartLine", "value")}

Function_CopyTo == {
  Copy("NameStrindex", "NameStrindex"), Copy("SystemNameStrindex", "SystemNameStrindex"),
  Copy("FilenameStrindex", "FilenameStrindex"), Copy("StartLine", "StartLine")}

ProfilesMessages == [
  ProfilesData |-> Tables(ProfilesData, ProfilesData_Unmarshal, ProfilesData_MarshalToSizedBuffer, ProfilesData_Size,
    ProfilesData_unmarshalJsoniter, {}, <<>>, {}),
  ResourceProfiles |-> Tables(ResourceProfiles, ResourceProfiles_Unmarshal, ResourceProfiles_MarshalToSizedBuffer, ResourceProfiles_Size,
    ResourceProfiles_unmarshalJsoniter, ResourceProfiles_CopyTo, <<>>, {}),
  ScopeProfiles |-> Tables(ScopeProfiles, ScopeProfiles_Unmarshal, ScopeProfiles_MarshalToSizedBuffer, ScopeProfiles_Size,
    ScopeProfiles_unmarshalJsoniter, ScopeProfiles_CopyTo, <<>>, {}),
  Profile |-> Tables(Profile, Profile_Unmarshal, Profile_MarshalToSizedBuffer, Profile_Size,
    Profile_unmarshalJsoniter, Profile_CopyTo, <<>>, {}),
  AttributeUnit |-> Tables(AttributeUnit, AttributeUnit_Unmarshal, AttributeUnit_MarshalToSizedBuffer, AttributeUnit_Size,
    AttributeUnit_unmarshalJsoniter, AttributeUnit_CopyTo, <<>>, {}),
  Link |-> Tables(Link, Link_Unmarshal, Link_MarshalToSizedBuffer, Link_Size,
    Link_unmarshalJsoniter, Link_CopyTo, <<>>, {}),
  ValueType |-> Tables(ValueType, ValueType_Unmarshal, ValueType_MarshalToSizedBuffer, ValueType_Size,
    ValueType_unmarshalJsoniter, ValueType_CopyTo, <<>>, {}),
  Sample |-> Tables(Sample, Sample_Unmarshal, Sample_MarshalToSizedBuffer, Sample_Size,
    Sample_unmarshalJsoniter, Sample_CopyTo, <<>>, {}),
  Mapping |-> Tables(Mapping, Mapping_Unmarshal, Mapping_MarshalToSizedBuffer, Mapping_Size,
    Mapping_unmarshalJsoniter, Mapping_CopyTo, <<>>, {}),
  Location |-> Tables(Location, Location_Unmarshal, Location_MarshalToSizedBuffer, Location_Size,
    Location_unmarshalJsoniter, Location_CopyTo, <<>>, {}),
  Line |-> Tables(Line, Line_Unmarshal, Line_MarshalToSizedBuffer, Line_Size,
    Line_unmarshalJsoniter, Line_CopyTo, <<>>, {}),
  Function |-> Tables(Function, Function_Unmarshal, Function_MarshalToSizedBuffer, Function_Size,
    Function_unmarshalJsoniter, Function_CopyTo, <<>>, {})]
=============================================================================
