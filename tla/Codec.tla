-------------------------------- MODULE Codec --------------------------------
(***************************************************************************)
(* A message of pdata is built, then encoded, carried and decoded, or      *)
(* copied into another one.  What may go wrong on the way is what the code *)
(* has to cope with: a newer sender that knows more fields, an older one   *)
(* that sends deprecated fields or does not pack, one that writes its      *)
(* fields in another order, twice or in parts, a buffer that is cut or     *)
(* damaged, and a destination that already holds values.                   *)
(*                                                                         *)
(* Decoding takes one step per item, as the loop of Unmarshal does.        *)
(***************************************************************************)
EXTENDS WireFormat, FiniteSets

CONSTANTS
  Format,       \* the tables of every message, by the name of the message
  JsonForgets,  \* <<message, field>>: the fields no JSON reader gives back
  CopiedWhole,  \* the messages with a oneof that CopyTo copies absent or not
  MaxFields,    \* bound: fields set in a message
  MaxFaulty     \* bound: fields set in a message that is changed but by reordering

ASSUME BoundsAssumption == MaxFields \in Nat /\ MaxFaulty \in Nat

(* The number and the name of a field that only a newer sender knows.      *)
Unknown == 2047
UnknownName == "unknown_field"

FieldsOf(m) == {d.field : d \in ToSet(Format[m].struct)}
DeclarationOf(m, f) == CHOOSE d \in ToSet(Format[m].struct) : d.field = f

(* The switch of Unmarshal has no case for a number the struct does not    *)
(* declare for that field.                                                 *)
ASSUME FormatAssumption ==
  \A m \in DOMAIN Format : \A r \in Format[m].reads :
    \E d \in ToSet(Format[m].struct) : d.field = r.field /\ d.number = r.number

(* MarshalToSizedBuffer writes the fields the struct declares, each in the *)
(* way of its declaration and in an encoding of its type.                  *)
Ways == {<<"one", "always">>, <<"one", "nonzero">>, <<"many", "each">>,
         <<"packed", "packed">>, <<"arm", "chosen">>}

Encodings == {<<"uint", "varint">>, <<"int", "varint">>, <<"string", "bytes">>} \cup
  {<<t, t>> : t \in {"zigzag", "bool", "fixed32", "fixed64", "double", "bytes", "message"} \cup Ids}

ASSUME WritesAssumption ==
  \A m \in DOMAIN Format :
    /\ Format[m].struct \in Seq(ToSet(Format[m].struct))
    /\ Format[m].writes \in Seq(ToSet(Format[m].writes))
    /\ \A row \in ToSet(Format[m].writes) :
         /\ row.field \in FieldsOf(m)
         /\ \A d \in ToSet(Format[m].struct) : d.field = row.field =>
              /\ <<d.card, row.when>> \in Ways
              /\ d.card # "arm" \/ d.arm = row.arm => <<d.type, row.type>> \in Encodings

(* Size has one row for each row of MarshalToSizedBuffer, though the arms  *)
(* of a oneof may stand in another order, and counts the same tag and the  *)
(* same length.                                                            *)
Fixed == {"bool", "fixed32", "fixed64", "double"}

Counts(s, w) ==
  /\ s.when = w.when /\ s.field = w.field /\ s.arm = w.arm
  /\ \/ /\ s.bytes = Sov(w.tag)
        /\ s.type = w.type \/ {s.type, w.type} \subseteq {"fixed64", "double"}
     \/ /\ s.bytes = Sov(w.tag) + Bytes(w.type, 0)
        /\ s.type = "none" /\ w.type \in Fixed /\ w.when # "packed"

ASSUME SizesAssumption ==
  \A m \in DOMAIN Format :
    LET sizes  == Format[m].sizes
        writes == Format[m].writes
    IN /\ sizes \in Seq(ToSet(sizes)) /\ Len(sizes) = Len(writes)
       /\ \A k \in DOMAIN sizes : \E j \in DOMAIN writes : Counts(sizes[k], writes[j])
       /\ \A k, l \in DOMAIN sizes :
            sizes[k].field = sizes[l].field /\ sizes[k].arm = sizes[l].arm => k = l

(* CopyTo, where there is one, copies every field to itself, but never a   *)
(* deprecated one; of an optional field or a oneof it copies each arm, if  *)
(* the source has that one, or the whole.                                  *)
Deprecated(m, f) == Format[m].deprecated # <<>> /\ f = Format[m].deprecated[2]
ByArm(m, d) == d.card = "arm" /\ m \notin CopiedWhole

Covered(m, f) ==
  LET rows == {c \in Format[m].copies : c.to = f}
  IN IF Deprecated(m, f) THEN rows = {}
     ELSE /\ \A c \in rows : c.from = f
          /\ \A d \in ToSet(Format[m].struct) : d.field = f =>
               /\ ByArm(m, d) => \A c \in rows : c.arm # ""
               /\ \E c \in rows : c.arm = IF ByArm(m, d) THEN d.arm ELSE ""

ASSUME CopiesAssumption ==
  \A m \in {n \in DOMAIN Format : Format[n].copies # {}} : \A f \in FieldsOf(m) : Covered(m, f)

(* Unmarshal has at most one case for a number, none for one that no       *)
(* version has, and a packed field is read under two wire types.  What a   *)
(* row of MarshalToSizedBuffer writes has the case that undoes it.         *)
Undoes(r, row) ==
  /\ r.number = row.tag \div 8 /\ row.tag % 8 \in r.wires
  /\ r.field = row.field /\ r.arm = row.arm /\ r.type = row.type
  /\ <<row.when, r.how>> \in {<<"always", "set">>, <<"nonzero", "set">>, <<"always", "merge">>,
                              <<"each", "add">>, <<"packed", "pack">>, <<"chosen", "choose">>}
  /\ r.how = "merge" <=> row.type = "message" /\ row.when = "always"
  /\ row.when = "nonzero" => row.type # "message"
  /\ row.when = "packed" => row.tag % 8 = 2

Declares(rows) ==
  \A k, l \in DOMAIN rows : rows[k].field = rows[l].field =>
    k = l \/ (rows[k].arm # "" /\ rows[l].arm # "" /\ rows[k].arm # rows[l].arm)

ASSUME ReadsAssumption ==
  \A m \in DOMAIN Format :
    /\ \A r, s \in Format[m].reads : r.number = s.number => r = s
    /\ \A r \in Format[m].reads :
         /\ r.number \in Nat \ {0, Unknown} /\ r.wires \cap {4, 6, 7} = {}
         /\ r.how = "pack" => r.type \notin Ids \cup {"message"} /\ \E w \in r.wires : w # 2
         /\ r.how = "merge" => r.type = "message"
    /\ Declares(Format[m].struct) /\ Declares(Format[m].writes)
    /\ \A d \in ToSet(Format[m].struct) :
         /\ d.card = "arm" <=> d.arm # ""
         /\ \E row \in ToSet(Format[m].writes) : row.field = d.field /\ row.arm = d.arm
    /\ \A row \in ToSet(Format[m].writes) : \E r \in Format[m].reads : Undoes(r, row)

(* A JSON reader, where there is one, has one case for each of the two     *)
(* names of a field, which gives back its values, except for some fields.  *)
Labels(r, d) ==
  /\ r.field = d.field /\ r.arm = d.arm
  /\ <<d.card, r.how>> \in {<<"one", "one">>, <<"many", "each">>, <<"packed", "each">>,
                            <<"arm", "arm">>}
  /\ d.type = "message" <=> r.text = "message"
  /\ d.type = "bytes" <=> r.text = "base64"

ASSUME JsonAssumption ==
  \A m \in {n \in DOMAIN Format : Format[n].reader # {}} :
    /\ \A r, s \in Format[m].reader : r.names \cap s.names # {} => r = s
    /\ \A r \in Format[m].reader : UnknownName \notin r.names
    /\ \A d \in ToSet(Format[m].struct) : \A name \in {d.name, d.json} :
         /\ \A r \in Format[m].reader : name \in r.names => r.field = d.field
         /\ <<m, d.field>> \notin JsonForgets =>
              \E r \in Format[m].reader : name \in r.names /\ Labels(r, d)

(* A field and its deprecated form are two fields, both empty at first.    *)
ASSUME MigrationAssumption ==
  \A m \in {n \in DOMAIN Format : Format[n].deprecated # <<>>} :
    LET new == Format[m].deprecated[1]
        old == Format[m].deprecated[2]
    IN /\ new # old /\ {new, old} \subseteq FieldsOf(m)
       /\ \A f \in {new, old} : ZeroOf(DeclarationOf(m, f)) = <<>>

VARIABLES
  message,   \* the name of the message
  value,     \* the message that was built: its fields
  phase,     \* "building", "wire", "reading", "read", "delivered", "failed",
             \* "copying", "copied"
  size,      \* what Size said of it
  wire,      \* the items, or the members of the JSON object, on the wire
  encoding,  \* "proto" or "json"
  fault,     \* what the transport did
  at,        \* the item the decoder is about to read
  got,       \* what the decoder has filled so far, or the destination of a copy
  entry      \* how the message was received

vars == <<message, value, phase, size, wire, encoding, fault, at, got, entry>>

---------------------------------------------------------------------------
(* The values a field is given: small ones and, where the encoding depends *)
(* on it, one of two bytes and a negative one.                             *)

Samples(type) ==
  CASE type = "uint"              -> {1, 300}
    [] type \in {"int", "zigzag"} -> {300, -1}
    [] type \in {"string", "bytes"} -> {1, 128}
    [] type = "message"           -> {<<2>>, <<2, 130>>}
    [] OTHER                      -> {1}

Least(type) == IF type = "message" THEN <<>> ELSE 0

FieldValues(d) ==
  CASE d.card = "one"  -> Samples(d.type)
    [] d.card = "arm"  -> {<<d.arm, x>> : x \in Samples(d.type) \cup {Least(d.type)}}
    [] OTHER           -> {<<x, Least(d.type)>> : x \in Samples(d.type)}

Tab == Format[message]
Empty(m) == [f \in FieldsOf(m) |-> ZeroOf(DeclarationOf(m, f))]

(* A destination in which every field has a value. *)
Filled(m) == [f \in FieldsOf(m) |-> CHOOSE x \in FieldValues(DeclarationOf(m, f)) : TRUE]

IsSet(f) == value[f] # Empty(message)[f]
SetFields == {f \in DOMAIN value : IsSet(f)}

---------------------------------------------------------------------------

Init ==
  /\ message \in DOMAIN Format
  /\ value = Empty(message)
  /\ phase = "building"
  /\ size = 0
  /\ wire = <<>>
  /\ encoding = "proto"
  /\ fault = "none"
  /\ at = 1
  /\ got = Empty(message)
  /\ entry = "none"

SetField ==
  /\ phase = "building"
  /\ Cardinality(SetFields) < MaxFields
  /\ \E d \in ToSet(Tab.struct) : \E x \in FieldValues(d) :
       /\ ~ IsSet(d.field)
       /\ value' = [value EXCEPT ![d.field] = x]
  /\ UNCHANGED <<message, phase, size, wire, encoding, fault, at, got, entry>>

(* Marshal: Size, a buffer of that size, MarshalToSizedBuffer. *)
Marshal ==
  LET n     == Size(Tab.sizes, value)
      items == MarshalToSizedBuffer(Tab.writes, value)
  IN /\ phase = "building"
     /\ size' = n
     /\ wire' = CASE n = WireBytes(items) -> items
                  [] n < WireBytes(items) -> Overrun
                  [] n > WireBytes(items) -> Padding
     /\ encoding' = "proto"
     /\ phase' = IF n < WireBytes(items) THEN "failed" ELSE "wire"
     /\ UNCHANGED <<message, value, fault, at, got, entry>>

(* MarshalJSON through jsonpb, or a sender that keeps the original names. *)
WriteJSON ==
  /\ phase = "building"
  /\ Tab.reader # {}
  /\ \E originalNames \in BOOLEAN : wire' = MarshalJSON(Tab.struct, value, originalNames)
  /\ encoding' = "json"
  /\ phase' = "wire"
  /\ UNCHANGED <<message, value, size, fault, at, got, entry>>

---------------------------------------------------------------------------
(* What another sender, or the transport, makes of the items.  The length  *)
(* of an item is of no use to the reader and is not kept up to date.       *)

(* What a reader has to cope with, and what it has to refuse. *)
Harmless == {"unknown", "reordered", "unpacked", "parts", "twice"}
Harmful  == {"cut", "damaged"}

UnknownItem(w) == Item(Unknown, w, <<0>>, 4)
ShortId        == <<7>>
UnknownMember  == Member(UnknownName, <<<<0>>>>)

Insert(i, item) == SubSeq(wire, 1, i - 1) \o <<item>> \o SubSeq(wire, i, Len(wire))
Replace(i, items) == SubSeq(wire, 1, i - 1) \o items \o SubSeq(wire, i + 1, Len(wire))
CasesAt(i) == CaseOf(Tab.reads, wire[i])

(* A newer sender: fields, or groups of fields, this version does not know. *)
SendsUnknown ==
  /\ fault' = "unknown"
  /\ \E i \in 1..Len(wire) + 1 :
       IF encoding = "json" THEN wire' = Insert(i, UnknownMember)
       ELSE \E w \in {2, 3} : wire' = Insert(i, UnknownItem(w))

(* Fields may come in any order. *)
SendsReordered ==
  /\ fault' = "reordered"
  /\ \E i \in 1..Len(wire) - 1 :
       /\ ~ (encoding = "proto" /\ wire[i].number = wire[i + 1].number)
       /\ wire' = [wire EXCEPT ![i] = wire[i + 1], ![i + 1] = wire[i]]

(* A sender that does not pack: one item for each element. *)
SendsUnpacked ==
  /\ encoding = "proto"
  /\ fault' = "unpacked"
  /\ \E i \in DOMAIN wire : \E r \in CasesAt(i) :
       /\ r.how = "pack"
       /\ wire' = Replace(i, [k \in DOMAIN wire[i].payload |->
                     [wire[i] EXCEPT !.wire = CHOOSE w \in r.wires : w # 2,
                                     !.payload = <<wire[i].payload[k]>>]])

(* An embedded message in two parts, which the reader has to merge. *)
SendsInParts ==
  /\ encoding = "proto"
  /\ fault' = "parts"
  /\ \E i \in DOMAIN wire : \E r \in CasesAt(i) :
       /\ r.how = "merge"
       /\ Len(wire[i].payload) = 2
       /\ wire' = Replace(i, [k \in 1..2 |-> [wire[i] EXCEPT !.payload = <<wire[i].payload[k]>>]])

(* A field with one value is sent twice: the last one counts. *)
SendsTwice ==
  /\ encoding = "proto"
  /\ fault' = "twice"
  /\ \E i \in DOMAIN wire : \E r \in CasesAt(i) :
       /\ r.how = "set"
       /\ wire' = Insert(i, [wire[i] EXCEPT !.payload = <<1>>])

(* The buffer ends in the middle of an item. *)
CutsItem ==
  /\ fault' = "cut"
  /\ \E i \in DOMAIN wire : wire' = Append(SubSeq(wire, 1, i - 1), [wire[i] EXCEPT !.whole = FALSE])

(* Another wire type than the field has, an end of group, an id of a wrong *)
(* length.                                                                 *)
Damages ==
  /\ encoding = "proto"
  /\ fault' = "damaged"
  /\ \/ \E i \in DOMAIN wire : \E r \in CasesAt(i) : \E w \in {0, 1, 2, 5} \ r.wires :
          wire' = [wire EXCEPT ![i].wire = w]
     \/ \E i \in 1..Len(wire) + 1 : wire' = Insert(i, UnknownItem(4))
     \/ \E i \in DOMAIN wire : \E r \in CasesAt(i) :
          /\ r.type \in Ids
          /\ wire' = [wire EXCEPT ![i].payload = ShortId]

Transport ==
  /\ phase = "wire"
  /\ fault = "none"
  /\ \/ SendsReordered
     \/ /\ Cardinality(SetFields) <= MaxFaulty
        /\ \/ SendsUnknown
           \/ SendsUnpacked
           \/ SendsInParts
           \/ SendsTwice
           \/ CutsItem
           \/ Damages
  /\ UNCHANGED <<message, value, phase, size, encoding, at, got, entry>>

---------------------------------------------------------------------------
(* The receiver. *)

Receive ==
  /\ phase = "wire"
  /\ phase' = "reading"
  /\ UNCHANGED <<message, value, size, wire, encoding, fault, at, got, entry>>

After_SkipsTwo(reads, item, i) == IF CaseOf(reads, item) = {} THEN i + 2 ELSE i + 1
After_Stays(reads, item, i)    == IF CaseOf(reads, item) = {} THEN i ELSE i + 1

(* Where the loop goes on after an item it has stored or skipped. *)
After(reads, item, i) == i + 1

(* One turn of the loop of Unmarshal. *)
ReadItem ==
  /\ phase = "reading"
  /\ encoding = "proto"
  /\ at <= Len(wire)
  /\ IF Refused(Tab.reads, wire[at])
     THEN phase' = "failed" /\ UNCHANGED <<at, got>>
     ELSE /\ got' = Unmarshalled(Tab.reads, wire[at], got)
          /\ at' = After(Tab.reads, wire[at], at)
          /\ UNCHANGED phase
  /\ UNCHANGED <<message, value, size, wire, encoding, fault, entry>>

(* One call of the function given to ReadObjectCB. *)
ReadMember ==
  /\ phase = "reading"
  /\ encoding = "json"
  /\ at <= Len(wire)
  /\ IF wire[at].whole
     THEN got' = JsonRead(Tab.reader, wire[at], got) /\ at' = at + 1 /\ UNCHANGED phase
     ELSE phase' = "failed" /\ UNCHANGED <<at, got>>
  /\ UNCHANGED <<message, value, size, wire, encoding, fault, entry>>

EndOfInput ==
  /\ phase = "reading"
  /\ at > Len(wire)
  /\ phase' = "read"
  /\ UNCHANGED <<message, value, size, wire, encoding, fault, at, got, entry>>

(* The callers of Unmarshal: the ProtoUnmarshaler of the package, the      *)
(* UnmarshalProto of an export request, the gRPC server, and the           *)
(* JSONUnmarshaler.  Some of them migrate deprecated fields.               *)
Deliver ==
  /\ phase = "read"
  /\ \E e \in IF encoding = "json" THEN {"json"} ELSE {"data", "request", "grpc"} :
       /\ entry' = e
       /\ got' = IF e \in Tab.migrated THEN Migrate(Tab.deprecated, got) ELSE got
  /\ phase' = "delivered"
  /\ UNCHANGED <<message, value, size, wire, encoding, fault, at>>

(* The caller of CopyTo has a destination: a new message or one in use. *)
ChooseDestination ==
  /\ phase = "building"
  /\ Tab.copies # {}
  /\ got' \in {Empty(message), Filled(message)}
  /\ phase' = "copying"
  /\ UNCHANGED <<message, value, size, wire, encoding, fault, at, entry>>

CopyMessage ==
  /\ phase = "copying"
  /\ got' = CopyTo(Tab.copies, value, got)
  /\ phase' = "copied"
  /\ UNCHANGED <<message, value, size, wire, encoding, fault, at, entry>>

Next ==
  \/ SetField
  \/ Marshal
  \/ WriteJSON
  \/ Transport
  \/ Receive
  \/ ReadItem
  \/ ReadMember
  \/ EndOfInput
  \/ Deliver
  \/ ChooseDestination
  \/ CopyMessage

(* The loop of a decoder runs on by itself until it returns. *)
Fairness == WF_vars(ReadItem \/ ReadMember \/ EndOfInput)

Spec == Init /\ [][Next]_vars /\ Fairness

---------------------------------------------------------------------------
(* Properties. *)

(* Every variable has a value of its type; the decoder never reads past    *)
(* the end of what it was given.                                           *)
TypeOK ==
  /\ message \in DOMAIN Format
  /\ DOMAIN value = FieldsOf(message)
  /\ DOMAIN got = FieldsOf(message)
  /\ phase \in {"building", "wire", "reading", "read", "delivered", "failed", "copying", "copied"}
  /\ size \in Nat
  /\ encoding \in {"proto", "json"}
  /\ fault \in {"none"} \cup Harmless \cup Harmful
  /\ at \in 1..Len(wire) + 1
  /\ entry \in {"none", "data", "request", "grpc", "json"}

(* Size says how many bytes MarshalToSizedBuffer writes, for every message *)
(* and every combination of its fields.  Marshal fills the buffer from the *)
(* end: one byte too few is a panic, one too many a message that no reader *)
(* accepts.                                                                *)
SizeMatches ==
  (encoding = "proto" /\ phase \in {"wire", "failed"})
    => size = WireBytes(MarshalToSizedBuffer(Tab.writes, value))

(* Unmarshal gives back the message that was marshalled, also when the     *)
(* sender knows more fields, writes them in another order, does not pack,  *)
(* writes an embedded message in parts or repeats a field.                 *)
RoundTrip ==
  (encoding = "proto" /\ phase = "read" /\ fault \in {"none"} \cup Harmless) => got = value

(* A message that was cut or damaged on its way is never taken for one     *)
(* that was read: Unmarshal, or the JSON reader, returns an error.         *)
DamageRejected == phase \in {"read", "delivered"} => fault \notin Harmful

(* And the other way round: reading fails for no message that was not cut  *)
(* or damaged, whatever the sender knows, however it orders, packs, splits *)
(* or repeats its fields.  A reader that refuses them all would keep both  *)
(* RoundTrip and DamageRejected.                                           *)
HonestAccepted == phase = "failed" => fault \in Harmful

(* What an old sender puts in the deprecated form of a field is what the   *)
(* receiver finds in the field, unless the sender has set both; at every   *)
(* way of receiving a message that calls the migration.                    *)
DeprecatedKept ==
  (phase = "delivered" /\ entry \in Tab.migrated /\ encoding = "proto" /\ Tab.deprecated # <<>>)
    => LET new == Tab.deprecated[1]
           old == Tab.deprecated[2]
       IN /\ IsSet(new) => got[new] = value[new]
          /\ IsSet(old) /\ ~ IsSet(new) => got[new] = value[old]
          /\ got[old] = <<>>

(* The JSON readers give back what jsonpb wrote, whichever of the two      *)
(* names of a field the sender uses, except the fields no case is for.     *)
JsonRoundTrip ==
  (encoding = "json" /\ phase = "read" /\ fault \in {"none"} \cup Harmless)
    => \A f \in DOMAIN value :
         <<message, f>> \notin JsonForgets => got[f] = value[f]

(* The fields CopyTo does not touch: an optional field or a oneof that the *)
(* source has not set, and a deprecated field.                             *)
LeftAlone(f) ==
  \/ ~ IsSet(f) /\ \E d \in ToSet(Tab.struct) : d.field = f /\ ByArm(message, d)
  \/ Deprecated(message, f)

(* CopyTo gives every field of the destination the value it has in the     *)
(* source, whatever the destination held; but a field it does not touch    *)
(* keeps the value it had, and is neither cleared nor mixed.               *)
CopyOverrides ==
  [][CopyMessage =>
       \A f \in DOMAIN value : got'[f] = IF LeftAlone(f) THEN got[f] ELSE value[f]]_vars

(* Unmarshal fills a field only from an item with the number of the field: *)
(* whatever was on the wire, and in whatever order, a field none of the    *)
(* items read so far is for is empty.                                      *)
NothingInvented ==
  (encoding = "proto" /\ phase \in {"reading", "read"}) =>
    \A f \in DOMAIN got :
      \/ got[f] = Empty(message)[f]
      \/ \E i \in 1..at - 1 : \E d \in ToSet(Tab.struct) :
           d.field = f /\ d.number = wire[i].number

(* Reading comes to an end, in a message or in an error, whatever unknown  *)
(* or damaged items the input holds.                                       *)
DecodingEnds == phase = "reading" ~> phase \in {"read", "delivered", "failed"}
=============================================================================
