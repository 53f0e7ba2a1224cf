----------------------------- MODULE WireFormat -----------------------------
(***************************************************************************)
(* The vocabulary in which the message tables are written.  Every message  *)
(* of pdata/internal/data/protogen has, in the Go source, a struct and     *)
(* three generated methods; most also have a JSON reader and a CopyTo:     *)
(*                                                                         *)
(*   struct                 the fields, as their tags declare them: number,*)
(*                          type, protobuf name and JSON name              *)
(*   Unmarshal              a switch over field numbers: which wire type a *)
(*                          number must have, which field it fills and how *)
(*   MarshalToSizedBuffer   the tag bytes written for a field, and when    *)
(*   Size                   what the field adds to the size of the message *)
(*   unmarshalJsoniter      a switch over JSON names                       *)
(*   CopyTo                 the getter and setter called for each field    *)
(*                                                                         *)
(* The modules TraceWire, MetricsWire, LogsWire, ProfilesWire, CommonWire  *)
(* and CollectorWire hold one table per method; a row is one case of the   *)
(* switch or one block of the method.  This module says what a row means.  *)
(*                                                                         *)
(* Payloads are abstracted to what the methods tell apart: a string or a   *)
(* byte slice is its length, an id is 0 (empty) or 1 (all its bytes), an   *)
(* embedded message is the sequence of the sizes of its own fields, whose  *)
(* concatenation is what merging two encodings of it amounts to.           *)
(***************************************************************************)
EXTENDS Integers, Sequences, SequencesExt

Ids == {"TraceID", "SpanID", "ProfileID"}

---------------------------------------------------------------------------
(* Rows of a struct. *)

Declared(card, n, f, arm, type, name, json) ==
  [card |-> card, number |-> n, field |-> f, arm |-> arm, type |-> type,
   name |-> name, json |-> json]

One(n, f, type, name, json)    == Declared("one", n, f, "", type, name, json)
Many(n, f, type, name, json)   == Declared("many", n, f, "", type, name, json)
Packed(n, f, type, name, json) == Declared("packed", n, f, "", type, name, json)
Arm(n, f, arm, type, name, json) == Declared("arm", n, f, arm, type, name, json)

(* The value of a field nobody has set. *)
ZeroOf(d) == IF d.card = "one" /\ d.type # "message" THEN 0 ELSE <<>>

---------------------------------------------------------------------------
(* Rows of Unmarshal.  A packed field is read under two wire types. *)

Case(how, n, wires, type, f, arm) ==
  [how |-> how, number |-> n, wires |-> wires, type |-> type, field |-> f, arm |-> arm]

Set(n, w, type, f)         == Case("set", n, {w}, type, f, "")
Merge(n, w, f)             == Case("merge", n, {w}, "message", f, "")
Add(n, w, type, f)         == Case("add", n, {w}, type, f, "")
Pack(n, w, type, f)        == Case("pack", n, {w, 2}, type, f, "")
Choose(n, w, type, f, arm) == Case("choose", n, {w}, type, f, arm)

(* Rows of MarshalToSizedBuffer, in the order of their bytes in the buffer. *)

Put(when, f, arm, tag, type) ==
  [when |-> when, field |-> f, arm |-> arm, tag |-> tag, type |-> type]

PutAlways(f, tag, type)      == Put("always", f, "", tag, type)
PutNonZero(f, tag, type)     == Put("nonzero", f, "", tag, type)
PutEach(f, tag, type)        == Put("each", f, "", tag, type)
PutPacked(f, tag, type)      == Put("packed", f, "", tag, type)
PutChosen(f, arm, tag, type) == Put("chosen", f, arm, tag, type)

(* Rows of Size: n += bytes, plus the varint or the length of a payload. *)

Plus(when, f, arm, bytes, type) ==
  [when |-> when, field |-> f, arm |-> arm, bytes |-> bytes, type |-> type]

AddAlways(f, bytes, type)      == Plus("always", f, "", bytes, type)
AddNonZero(f, bytes, type)     == Plus("nonzero", f, "", bytes, type)
AddEach(f, bytes, type)        == Plus("each", f, "", bytes, type)
AddPacked(f, bytes, type)      == Plus("packed", f, "", bytes, type)
AddChosen(f, arm, bytes, type) == Plus("chosen", f, arm, bytes, type)

(* Rows of a JSON reader: the names of a case, and what the case does. *)

Label(how, names, f, arm, text) ==
  [how |-> how, names |-> names, field |-> f, arm |-> arm, text |-> text]

ReadOne(names, f, text)      == Label("one", names, f, "", text)
ReadEach(names, f, text)     == Label("each", names, f, "", text)
ReadArm(names, f, arm, text) == Label("arm", names, f, arm, text)

(* Rows of CopyTo: dest.SetTo(ms.From()), and the copies that are made only *)
(* when the source has the value (an optional field, one arm of a oneof).   *)

Copy(from, to)  == [from |-> from, to |-> to, arm |-> ""]
CopyIf(f, arm)  == [from |-> f, to |-> f, arm |-> arm]

---------------------------------------------------------------------------
(* Sizes. *)

Total(s) ==
  LET sum[i \in 0..Len(s)] == IF i = 0 THEN 0 ELSE sum[i - 1] + s[i]
  IN sum[Len(s)]

(* sovTrace and its siblings: the bytes of a varint, seven bits in each; a  *)
(* negative number is a 64-bit one.  Numbers stay below MaxVarint.         *)
MaxVarint == 128 * 128 * 128

Sov(x) ==
  CASE x < 0                       -> 10
    [] x \in 0..127                -> 1
    [] x \in 128..128 * 128 - 1    -> 2
    [] OTHER                       -> 3

ZigZag(x) == IF x >= 0 THEN 2 * x ELSE -2 * x - 1
ZagZig(x) == IF x % 2 = 0 THEN x \div 2 ELSE -((x + 1) \div 2)

(* TraceID.Size, SpanID.Size, ProfileID.Size *)
IdSize(type, x) == IF x = 0 THEN 0 ELSE IF type = "SpanID" THEN 8 ELSE 16

Delimited(length) == Sov(length) + length

(* The bytes a value takes after its tag; "none" when Size has already     *)
(* counted them in the constant it adds.                                   *)
Bytes(type, x) ==
  CASE type = "none"                  -> 0
    [] type \in {"fixed64", "double"} -> 8
    [] type = "fixed32"               -> 4
    [] type = "bool"                  -> 1
    [] type = "varint"                -> Sov(x)
    [] type = "zigzag"                -> Sov(ZigZag(x))
    [] type = "bytes"                 -> Delimited(x)
    [] type = "message"               -> Delimited(Total(x))
    [] type \in Ids                   -> Delimited(IdSize(type, x))

PackedBytes(type, s) == Delimited(Total([i \in DOMAIN s |-> Bytes(type, s[i])]))

(* The values of a field a row is applied to, one after the other. *)
Occurrences(row, v) ==
  CASE row.when = "always"  -> <<v>>
    [] row.when = "nonzero" -> IF v = 0 THEN <<>> ELSE <<v>>
    [] row.when = "each"    -> v
    [] row.when = "packed"  -> IF v = <<>> THEN <<>> ELSE <<v>>
    [] row.when = "chosen"  -> IF v # <<>> /\ v[1] = row.arm THEN <<v[2]>> ELSE <<>>

LengthOf(row, x) == IF row.when = "packed" THEN PackedBytes(row.type, x) ELSE Bytes(row.type, x)

(* The tag is counted once for a field with several values. *)
Size_OneTag(sizes, v) ==
  Total([k \in DOMAIN sizes |->
    LET row == sizes[k]
        xs  == Occurrences(row, v[row.field])
    IN IF xs = <<>> THEN 0
       ELSE row.bytes + Total([i \in DOMAIN xs |-> LengthOf(row, xs[i])])])

Size(sizes, v) ==
  Total([k \in DOMAIN sizes |->
    LET row == sizes[k]
        xs  == Occurrences(row, v[row.field])
    IN Total([i \in DOMAIN xs |-> row.bytes + LengthOf(row, xs[i])])])

---------------------------------------------------------------------------
(* Items: what stands on the wire for one occurrence of a field.  The       *)
(* payload is a sequence of numbers: the number itself, the length of a    *)
(* string, the sizes of an embedded message, the elements that are packed. *)

Item(number, wire, payload, length) ==
  [number |-> number, wire |-> wire, payload |-> payload, length |-> length, whole |-> TRUE]

EncodeEach(type, s) == [i \in DOMAIN s |-> IF type = "zigzag" THEN ZigZag(s[i]) ELSE s[i]]
DecodeEach(type, s) ==
  [i \in DOMAIN s |->
    CASE type = "zigzag" -> ZagZig(s[i])
      [] type = "bool"   -> IF s[i] = 0 THEN 0 ELSE 1
      [] OTHER           -> s[i]]

Encode(type, x) == IF type = "message" THEN x ELSE EncodeEach(type, <<x>>)
Decode(type, p) == IF type = "message" THEN p ELSE DecodeEach(type, p)[1]

Written(row, x) ==
  Item(row.tag \div 8, row.tag % 8,
       IF row.when = "packed" THEN EncodeEach(row.type, x) ELSE Encode(row.type, x),
       Sov(row.tag) + LengthOf(row, x))

MarshalToSizedBuffer(writes, v) ==
  FlattenSeq([k \in DOMAIN writes |->
    LET xs == Occurrences(writes[k], v[writes[k].field])
    IN [i \in DOMAIN xs |-> Written(writes[k], xs[i])]])

WireBytes(items) == Total([i \in DOMAIN items |-> items[i].length])

(* Marshal allocates Size bytes and fills them from the end: when Size is  *)
(* too small it panics, when it is too large the bytes it returns begin    *)
(* with zeros, which are read as a tag with the number 0.                  *)
Overrun == <<>>
Padding == <<Item(0, 0, <<0>>, 1)>>

---------------------------------------------------------------------------
(* Reading one item. *)

CaseOf_LowBits(reads, item) == {r \in reads : r.number = item.number % 16}

CaseOf(reads, item) == {r \in reads : r.number = item.number}

Refused_AnyWireType(reads, item) ==
  \/ item.wire \in {4, 6, 7}
  \/ item.number <= 0
  \/ ~ item.whole
  \/ \E r \in CaseOf(reads, item) : r.type \in Ids /\ item.payload \notin {<<0>>, <<1>>}

(* A packed field is read under the wire type of a packed one only.        *)
Refused_NotPacked(reads, item) ==
  \/ item.wire \in {4, 6, 7}
  \/ item.number <= 0
  \/ ~ item.whole
  \/ \E r \in CaseOf(reads, item) :
       \/ item.wire \notin r.wires \/ (r.how = "pack" /\ item.wire # 2)
       \/ r.type \in Ids /\ item.payload \notin {<<0>>, <<1>>}

(* The errors Unmarshal returns before it stores anything: an end of group *)
(* without a group or an illegal wire type, an illegal tag, a payload that *)
(* is longer than the buffer, a wrong wire type, an id of another length   *)
(* than its own.                                                           *)
Refused(reads, item) ==
  \/ item.wire \in {4, 6, 7}
  \/ item.number <= 0
  \/ ~ item.whole
  \/ \E r \in CaseOf(reads, item) :
       \/ item.wire \notin r.wires
       \/ r.type \in Ids /\ item.payload \notin {<<0>>, <<1>>}

Stored_Replaces(r, item, old) ==
  CASE r.how \in {"set", "merge"} -> Decode(r.type, item.payload)
    [] r.how = "add"    -> Append(old, Decode(r.type, item.payload))
    [] r.how = "pack"   -> IF item.wire = 2 THEN old \o DecodeEach(r.type, item.payload)
                                            ELSE Append(old, Decode(r.type, item.payload))
    [] r.how = "choose" -> <<r.arm, Decode(r.type, item.payload)>>

Stored(r, item, old) ==
  CASE r.how = "set"    -> Decode(r.type, item.payload)
    [] r.how = "merge"  -> old \o item.payload
    [] r.how = "add"    -> Append(old, Decode(r.type, item.payload))
    [] r.how = "pack"   -> IF item.wire = 2 THEN old \o DecodeEach(r.type, item.payload)
                                            ELSE Append(old, Decode(r.type, item.payload))
    [] r.how = "choose" -> <<r.arm, Decode(r.type, item.payload)>>

(* An item no case is for is skipped. *)
Unmarshalled(reads, item, v) ==
  [f \in DOMAIN v |->
    IF \E r \in CaseOf(reads, item) : r.field = f
    THEN Stored(CHOOSE r \in CaseOf(reads, item) : r.field = f, item, v[f])
    ELSE v[f]]

---------------------------------------------------------------------------
(* JSON.  jsonpb (a library) writes each field that is set under its JSON  *)
(* name, in the order of the struct.  The payload of a member is the       *)
(* sequence of its values.  A byte slice is base64 text: the number of its *)
(* characters and how many of them pad it.                                 *)

Member(name, payload) == [name |-> name, payload |-> payload, whole |-> TRUE]

Base64(length) == <<4 * ((length + 2) \div 3), (-length) % 3>>

JsonValue(type, x) ==
  CASE type = "message" -> x
    [] type = "bytes"   -> Base64(x)
    [] OTHER            -> <<x>>

(* The characters of a byte slice are taken for its bytes. *)
JsonText_NotDecoded(text, p) == IF text = "message" THEN p ELSE p[1]

JsonText(text, p) ==
  CASE text = "message" -> p
    [] text = "base64"  -> 3 * (p[1] \div 4) - p[2]
    [] OTHER            -> p[1]

JsonMembers(d, v, originalNames) ==
  LET name == IF originalNames THEN d.name ELSE d.json
  IN IF v = ZeroOf(d) THEN <<>>
     ELSE CASE d.card = "arm" -> IF v[1] = d.arm THEN <<Member(name, <<JsonValue(d.type, v[2])>>)>>
                                                 ELSE <<>>
            [] d.card = "one" -> <<Member(name, <<JsonValue(d.type, v)>>)>>
            [] OTHER          -> <<Member(name, [i \in DOMAIN v |-> JsonValue(d.type, v[i])])>>

MarshalJSON(struct, v, originalNames) ==
  FlattenSeq([k \in DOMAIN struct |-> JsonMembers(struct[k], v[struct[k].field], originalNames)])

LabelOf(reader, member) == {r \in reader : member.name \in r.names}

JsonStored(r, member, old) ==
  LET values == [i \in DOMAIN member.payload |-> JsonText(r.text, member.payload[i])]
  IN CASE r.how = "one"  -> values[1]
       [] r.how = "each" -> old \o values
       [] r.how = "arm"  -> <<r.arm, values[1]>>

JsonRead(reader, member, v) ==
  [f \in DOMAIN v |->
    IF \E r \in LabelOf(reader, member) : r.field = f
    THEN JsonStored(CHOOSE r \in LabelOf(reader, member) : r.field = f, member, v[f])
    ELSE v[f]]

---------------------------------------------------------------------------
(* The tables of one message.  "deprecated" is a field and its deprecated   *)
(* form, <<>> if there is none; "migrated" the ways of receiving a message  *)
(* that move the deprecated form into the field.                            *)

Tables(struct, reads, writes, sizes, reader, copies, deprecated, migrated) ==
  [struct |-> struct, reads |-> reads, writes |-> writes, sizes |-> sizes,
   reader |-> reader, copies |-> copies, deprecated |-> deprecated, migrated |-> migrated]

---------------------------------------------------------------------------
(* CopyTo: an optional field, or a oneof, the source has not set is left   *)
(* as the destination has it.                                              *)

(* Nothing asks whether the source has the field. *)
CopyRow_NoTest(copies, from, f) ==
  {c \in copies : c.to = f /\ (c.arm = "" \/ from[f] = <<>> \/ from[f][1] = c.arm)}

(* The fields with a switch over their arms are forgotten. *)
CopyRow_NoArms(copies, from, f) == {c \in copies : c.to = f /\ c.arm = ""}

CopyRow(copies, from, f) ==
  {c \in copies : c.to = f /\ (c.arm = "" \/ (from[f] # <<>> /\ from[f][1] = c.arm))}

CopyTo(copies, from, to) ==
  [f \in DOMAIN to |->
    IF CopyRow(copies, from, f) = {} THEN to[f]
    ELSE from[(CHOOSE c \in CopyRow(copies, from, f) : TRUE).from]]

---------------------------------------------------------------------------
(* MigrateTraces, MigrateLogs, MigrateMetrics: <<field, its deprecated form>> *)

Migrate_Always(pair, v) ==
  IF pair = <<>> THEN v ELSE [v EXCEPT ![pair[1]] = v[pair[2]], ![pair[2]] = <<>>]

Migrate(pair, v) ==
  IF pair = <<>> THEN v
  ELSE [v EXCEPT ![pair[1]] = IF v[pair[1]] = <<>> THEN v[pair[2]] ELSE v[pair[1]],
                 ![pair[2]] = <<>>]
=============================================================================
