------------------------------ MODULE CommonWire ------------------------------
(*****************************************************************************)
(* The messages of common/v1 and resource/v1, their JSON readers             *)
(* (pdata/internal/json) and the CopyTo of pcommon.                          *)
(* WireFormat says what a row means.                                         *)
(*****************************************************************************)
EXTENDS WireFormat

AnyValue == <<
  Arm(1, "Value", "StringValue", "string", "string_value", "stringValue"),
  Arm(2, "Value", "BoolValue", "bool", "bool_value", "boolValue"),
  Arm(3, "Value", "IntValue", "int", "int_value", "intValue"),
  Arm(4, "Value", "DoubleValue", "double", "double_value", "doubleValue"),
  Arm(5, "Value", "ArrayValue", "message", "array_value", "arrayValue"),
  Arm(6, "Value", "KvlistValue", "message", "kvlist_value", "kvlistValue"),
  Arm(7, "Value", "BytesValue", "bytes", "bytes_value", "bytesValue")>>

AnyValue_Unmarshal == {
  Choose(1, 2, "bytes", "Value", "StringValue"), Choose(2, 0, "bool", "Value", "BoolValue"),
  Choose(3, 0, "varint", "Value", "IntValue"), Choose(4, 1, "double", "Value", "DoubleValue"),
  Choose(5, 2, "message", "Value", "ArrayValue"), Choose(6, 2, "message", "Value", "KvlistValue"),
  Choose(7, 2, "bytes", "Value", "BytesValue")}

AnyValue_MarshalToSizedBuffer == <<
  PutChosen("Value", "BytesValue", 58, "bytes"), PutChosen("Value", "KvlistValue", 50, "message"),
  PutChosen("Value", "ArrayValue", 42, "message"), PutChosen("Value", "DoubleValue", 33, "double"),
  PutChosen("Value", "IntValue", 24, "varint"), PutChosen("Value", "BoolValue", 16, "bool"),
  PutChosen("Value", "StringValue", 10, "bytes")>>

AnyValue_Size == <<
  AddChosen("Value", "StringValue", 1, "bytes"), AddChosen("Value", "BoolValue", 2, "none"),
  AddChosen("Value", "IntValue", 1, "varint"), AddChosen("Value", "DoubleValue", 9, "none"),
  AddChosen("Value", "ArrayValue", 1, "message"), AddChosen("Value", "KvlistValue", 1, "message"),
  AddChosen("Value", "BytesValue", 1, "bytes")>>

ReadValue == {
  ReadArm({"stringValue", "string_value"}, "Value", "StringValue", "value"),
  ReadArm({"boolValue", "bool_value"}, "Value", "BoolValue", "value"),
  ReadArm({"intValue", "int_value"}, "Value", "IntValue", "value"),
  ReadArm({"doubleValue", "double_value"}, "Value", "DoubleValue", "value"),
  ReadArm({"bytesValue", "bytes_value"}, "Value", "BytesValue", "base64"),
  ReadArm({"arrayValue", "array_value"}, "Value", "ArrayValue", "message"),
  ReadArm({"kvlistValue", "kvlist_value"}, "Value", "KvlistValue", "message")}

ArrayValue == <<Many(1, "Values", "message", "values", "values")>>

ArrayValue_Unmarshal == {Add(1, 2, "message", "Values")}

ArrayValue_MarshalToSizedBuffer == <<PutEach("Values", 10, "message")>>

ArrayValue_Size == <<AddEach("Values", 1, "message")>>

readArray == {ReadEach({"values"}, "Values", "message")}

KeyValueList == <<Many(1, "Values", "message", "values", "values")>>

KeyValueList_Unmarshal == {Add(1, 2, "message", "Values")}

KeyValueList_MarshalToSizedBuffer == <<PutEach("Values", 10, "message")>>

KeyValueList_Size == <<AddEach("Values", 1, "message")>>

readKvlistValue == {ReadEach({"values"}, "Values", "message")}

KeyValue == <<One(1, "Key", "string", "key", "key"), One(2, "Value", "message", "value", "value")>>

KeyValue_Unmarshal == {Set(1, 2, "bytes", "Key"), Merge(2, 2, "Value")}

KeyValue_MarshalToSizedBuffer == <<
  PutNonZero("Key", 10, "bytes"), PutAlways("Value", 18, "message")>>

KeyValue_Size == <<AddNonZero("Key", 1, "bytes"), AddAlways("Value", 1, "message")>>

ReadAttribute == {ReadOne({"key"}, "Key", "value"), ReadOne({"value"}, "Value", "message")}

InstrumentationScope == <<
  One(1, "Name", "string", "name", "name"), One(2, "Version", "string", "version", "version"),
  Many(3, "Attributes", "message", "attributes", "attributes"),
  One(4, "DroppedAttributesCount", "uint", "dropped_attributes_count", "droppedAttributesCount")>>

InstrumentationScope_Unmarshal == {
  Set(1, 2, "bytes", "Name"), Set(2, 2, "bytes", "Version"), Add(3, 2, "message", "Attributes"),
  Set(4, 0, "varint", "DroppedAttributesCount")}

InstrumentationScope_MarshalToSizedBuffer == <<
  PutNonZero("Name", 10, "bytes"), PutNonZero("Version", 18, "bytes"),
  PutEach("Attributes", 26, "message"), PutNonZero("DroppedAttributesCount", 32, "varint")>>

InstrumentationScope_Size == <<
  AddNonZero("Name", 1, "bytes"), AddNonZero("Version", 1, "bytes"),
  AddEach("Attributes", 1, "message"), AddNonZero("DroppedAttributesCount", 1, "varint")>>

ReadScope == {
  ReadOne({"name"}, "Name", "value"), ReadOne({"version"}, "Version", "value"),
  ReadEach({"attributes"}, "Attributes", "message"),
  ReadOne({"droppedAttributesCount", "dropped_attributes_count"}, "DroppedAttributesCount", "value")}

InstrumentationScope_CopyTo == {
  Copy("Name", "Name"), Copy("Version", "Version"), Copy("Attributes", "Attributes"),
  Copy("DroppedAttributesCount", "DroppedAttributesCount")}

Resource == <<
  Many(1, "Attributes", "message", "attributes", "attributes"),
  One(2, "DroppedAttributesCount", "uint", "dropped_attributes_count", "droppedAttributesCount")>>

Resource_Unmarshal == {
  Add(1, 2, "message", "Attributes"), Set(2, 0, "varint", "DroppedAttributesCount")}

Resource_MarshalToSizedBuffer == <<
  PutEach("Attributes", 10, "message"), PutNonZero("DroppedAttributesCount", 16, "varint")>>

Resource_Size == <<
  AddEach("Attributes", 1, "message"), AddNonZero("DroppedAttributesCount", 1, "varint")>>

ReadResource == {
  ReadEach({"attributes"}, "Attributes", "message"),
  ReadOne({"droppedAttributesCount", "dropped_attributes_count"}, "DroppedAttributesCount", "value")}

Resource_CopyTo == {
  Copy("Attributes", "Attributes"), Copy("DroppedAttributesCount", "DroppedAttributesCount")}

AnyValue_CopyTo == {Copy("Value", "Value")}

KeyValue_CopyTo == {Copy("Key", "Key"), Copy("Value", "Value")}

CommonMessages == [
  AnyValue |-> Tables(AnyValue, AnyValue_Unmarshal, AnyValue_MarshalToSizedBuffer, AnyValue_Size,
    ReadValue, AnyValue_CopyTo, <<>>, {}),
  ArrayValue |-> Tables(ArrayValue, ArrayValue_Unmarshal, ArrayValue_MarshalToSizedBuffer, ArrayValue_Size,
    readArray, {}, <<>>, {}),
  KeyValueList |-> Tables(KeyValueList, KeyValueList_Unmarshal, KeyValueList_MarshalToSizedBuffer, KeyValueList_Size,
    readKvlistValue, {}, <<>>, {}),
  KeyValue |-> Tables(KeyValue, KeyValue_Unmarshal, KeyValue_MarshalToSizedBuffer, KeyValue_Size,
    ReadAttribute, KeyValue_CopyTo, <<>>, {}),
  InstrumentationScope |-> Tables(InstrumentationScope, InstrumentationScope_Unmarshal, InstrumentationScope_MarshalToSizedBuffer, InstrumentationScope_Size,
    ReadScope, InstrumentationScope_CopyTo, <<>>, {}),
  Resource |-> Tables(Resource, Resource_Unmarshal, Resource_MarshalToSizedBuffer, Resource_Size,
    ReadResource, Resource_CopyTo, <<>>, {})]
=============================================================================
