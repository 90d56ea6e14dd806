-------------------------------- MODULE Thrift ------------------------------
(* The metadata of a file on its way through Thrift: the encoder and the     *)
(* decoder of encoding/thrift for both protocols, the types of               *)
(* format/parquet.go, and the FooterDecoder, which decodes one footer after  *)
(* the other into the same FileMetaData (format/footer.go, format/reset.go). *)
(*                                                                           *)
(* The stream is a sequence of tokens: a byte with its two halves, a varint, *)
(* a fixed number of bytes, the bytes of a string.  A read that does not meet *)
(* the kind of token it is for fails; in the code it would return garbage.   *)
EXTENDS Integers, Sequences, FiniteSets, SequencesExt, FiniteSetsExt

CONSTANTS Exchanges,     \* a protocol, the type of the writer, the type of the reader
          Footers,       \* the footers a FooterDecoder is given: [type, value]
          MaxDecodes,    \* bound: footers of one FooterDecoder
          MaxFailures,   \* bound: footers that end too early
          CutStep        \* bound: these end after a multiple of CutStep tokens

ASSUME ThriftAssumption == {MaxDecodes, MaxFailures} \subseteq Nat /\ CutStep \in Nat \ {0}

-----------------------------------------------------------------------------
\* Go types.

GoType(kind, typ, elems, fields) == [kind |-> kind, typ |-> typ, elems |-> elems, fields |-> fields]
Scalar(typ) == GoType("scalar", typ, <<>>, <<>>)
PointerTo(t) == GoType("pointer", "", <<t>>, <<>>)
NullOf(t) == GoType("null", "", <<t>>, <<>>)
SliceOf(t) == GoType("list", "", <<t>>, <<>>)
SetOf(t) == GoType("set", "", <<t>>, <<>>)
MapFromTo(k, t) == GoType("map", "", <<k, t>>, <<>>)
StructOf(fields) == GoType("struct", "", <<>>, fields)
UnionOf(members) == GoType("union", "", <<>>, members)
Elem(t) == t.elems[1]

Tagged(id, t, flags) == [id |-> id, type |-> t, flags |-> flags]
Req(id, t) == Tagged(id, t, {"required"})
Opt(id, t) == Tagged(id, t, {})
OptZero(id, t) == Tagged(id, t, {"writezero"})

RECURSIVE TypeOf(_)
TypeOf(t) ==
    CASE t.kind = "scalar" -> t.typ
      [] t.kind \in {"pointer", "null"} -> TypeOf(Elem(t))
      [] t.kind = "list" -> "LIST"
      [] t.kind = "set" -> "SET"
      [] t.kind = "map" -> "MAP"
      [] t.kind \in {"struct", "union"} -> "STRUCT"

\* Values: 0 is the zero of a scalar; a pointer, a set or a map is <<>> (nil) or
\* the sequence of the one thing it refers to; a Null is the pair of Valid and V;
\* a slice that is not nil is the pair of its elements and of what its array
\* retains beyond them; a union that is set is the pair of a member's id and the
\* pointer to it.
RECURSIVE ZeroOf(_)
ZeroOf(t) ==
    CASE t.kind = "scalar" -> 0
      [] t.kind = "null" -> <<FALSE, ZeroOf(Elem(t))>>
      [] t.kind = "struct" -> [i \in DOMAIN t.fields |-> ZeroOf(t.fields[i].type)]
      [] OTHER -> <<>>

Member(t, id) == t.fields[CHOOSE i \in DOMAIN t.fields : t.fields[i].id = id].type
Items(x) == IF x = <<>> THEN <<>> ELSE x[1]
Entries(x) == IF x = <<>> THEN {} ELSE x[1]

-----------------------------------------------------------------------------
\* Writers.

Token(kind, value, typ) == [kind |-> kind, value |-> value, typ |-> typ]
Byte(high, typ) == Token("byte", high, typ)

\* The kind of token a number is written as.
Raw(p, typ) ==
    CASE typ \in {"BOOL", "I8"} -> "byte"
      [] typ = "DOUBLE" -> "8 bytes"
      [] p = "compact" -> "varint"
      [] typ = "I16" -> "2 bytes"
      [] typ = "I32" -> "4 bytes"
      [] typ = "I64" -> "8 bytes"

\* A string is its length and its bytes; the code never writes a UUID, other
\* writers do.
WriteScalar(p, typ, x) ==
    CASE typ = "BINARY" -> <<Token(Raw(p, "I32"), x, "")>> \o (IF x = 0 THEN <<>> ELSE <<Token("bytes", x, "")>>)
      [] typ = "UUID" -> <<Token("8 bytes", x, ""), Token("8 bytes", x, "")>>
      [] OTHER -> <<Token(Raw(p, typ), x, "")>>

WriteField(p, id, typ) ==
    CASE p = "compact" /\ typ = "STOP" -> <<Byte(0, "STOP")>>
      [] p = "compact" /\ typ # "STOP" /\ id <= 15 -> <<Byte(id, typ)>>
      [] OTHER -> <<Byte(0, typ), Token(Raw(p, "I16"), id, "")>>

WriteList(p, size, typ) ==
    IF p = "compact" /\ size <= 14 THEN <<Byte(size, typ)>>
    ELSE <<Byte(IF p = "compact" THEN 15 ELSE 0, typ), Token(Raw(p, "I32"), size, "")>>

\* The compact protocol keeps both types in the halves of one byte.
WriteMap(p, size, key, value) ==
    IF p = "compact"
    THEN <<Token("varint", size, "")>> \o (IF size = 0 THEN <<>> ELSE <<Byte(0, key), Byte(0, value)>>)
    ELSE <<Byte(0, key), Byte(0, value), Token("4 bytes", size, "")>>

\* Is the field left out?  A union without a member, a Null that is not valid
\* and a slice that is nil are, unless required; a pointer that is nil always is.
Unset(t, x) == (t.kind \in {"union", "list"} /\ x = <<>>) \/ (t.kind = "null" /\ ~x[1])
Omitted(f, x) ==
    \/ f.type.kind = "pointer" /\ x = <<>>
    \/ "required" \notin f.flags /\ Unset(f.type, x)
    \/ f.flags \cap {"required", "writezero"} = {} /\ x = ZeroOf(f.type)

DeltaID(p, id, last) == IF p = "compact" /\ id - last <= 15 THEN id - last ELSE id

\* The value of a boolean, and whether the compact protocol keeps it in the
\* type of the field.
RECURSIVE IsTrue(_, _)
IsTrue(t, x) ==
    CASE t.kind = "scalar" -> x = 1
      [] t.kind = "null" -> IsTrue(Elem(t), x[2])
      [] t.kind = "pointer" -> IsTrue(Elem(t), x[1])
Coalesced(p, t) == p = "compact" /\ TypeOf(t) = "BOOL"

\* The positions of the fields in the order of their ids, and the entries of a
\* map in the order they come.
ByID(fields) ==
    [k \in DOMAIN fields |->
        CHOOSE i \in DOMAIN fields : Cardinality({j \in DOMAIN fields : fields[j].id <= fields[i].id}) = k]
AnyOrder(S) == FoldSet(LAMBDA x, l : Append(l, x), <<>>, S)

RECURSIVE Encode(_, _, _), encodeFields(_, _, _, _, _)
encodeItems(p, t, l) == FlattenSeq([i \in DOMAIN l |-> Encode(p, t, l[i])])
Encode(p, t, x) ==
    CASE t.kind = "scalar" -> WriteScalar(p, t.typ, x)
      [] t.kind = "pointer" -> Encode(p, Elem(t), IF x = <<>> THEN ZeroOf(Elem(t)) ELSE x[1])
      [] t.kind = "null" -> Encode(p, Elem(t), x[2])
      [] t.kind = "list" ->
           WriteList(p, Len(Items(x)), TypeOf(Elem(t))) \o encodeItems(p, Elem(t), Items(x))
      [] t.kind = "set" ->
           WriteList(p, Cardinality(Entries(x)), TypeOf(Elem(t))) \o encodeItems(p, Elem(t), AnyOrder(Entries(x)))
      [] t.kind = "map" ->
           LET l == AnyOrder(Entries(x))
           IN WriteMap(p, Len(l), TypeOf(t.elems[1]), TypeOf(t.elems[2]))
              \o FlattenSeq([i \in DOMAIN l |-> Encode(p, t.elems[1], l[i][1]) \o Encode(p, t.elems[2], l[i][2])])
      [] t.kind = "struct" ->
           encodeFields(p, t.fields, x, ByID(t.fields), 0)
      [] t.kind = "union" ->
           (IF x = <<>> THEN <<>>
            ELSE LET m == Member(t, x[1])
                 IN WriteField(p, x[1], "STRUCT") \o Encode(p, m, IF x[2] = <<>> THEN ZeroOf(m) ELSE x[2][1]))
           \o WriteField(p, 0, "STOP")

\* structEncoder.encode over the fields in the order of their ids.
encodeFields(p, fields, x, order, last) ==
    IF order = <<>> THEN WriteField(p, 0, "STOP")
    ELSE LET f == fields[order[1]]
             v == x[order[1]]
         IN IF Omitted(f, v) THEN encodeFields(p, fields, x, Tail(order), last)
            ELSE WriteField(p, DeltaID(p, f.id, last),
                            IF Coalesced(p, f.type) /\ IsTrue(f.type, v) THEN "TRUE" ELSE TypeOf(f.type))
                 \o (IF Coalesced(p, f.type) THEN <<>> ELSE Encode(p, f.type, v))
                 \o encodeFields(p, fields, x, Tail(order), f.id)

-----------------------------------------------------------------------------
\* Readers.  A position is where the next token is read; 0 after an error.

Meets(s, pos, kind) == pos \in DOMAIN s /\ s[pos].kind = kind

ReadScalar(p, s, pos, typ) ==
    LET n == IF typ = "UUID" THEN 2 ELSE IF typ = "BINARY" /\ pos \in DOMAIN s /\ s[pos].value > 0 THEN 2 ELSE 1
        first == IF typ = "BINARY" THEN Raw(p, "I32") ELSE IF typ = "UUID" THEN "8 bytes" ELSE Raw(p, typ)
        second == IF typ = "BINARY" THEN "bytes" ELSE "8 bytes"
        ok == Meets(s, pos, first) /\ (n = 2 => Meets(s, pos + 1, second))
    IN [pos |-> IF ok THEN pos + n ELSE 0, value |-> IF ok THEN s[pos].value ELSE 0]

Types == {"STOP", "TRUE", "BOOL", "I8", "I16", "I32", "I64", "DOUBLE", "BINARY", "LIST", "SET", "MAP", "STRUCT", "UUID"}
MeetsType(s, pos) == Meets(s, pos, "byte") /\ s[pos].typ \in Types

ReadField(p, s, pos) ==
    LET failed == [pos |-> 0, id |-> 0, typ |-> "STOP", delta |-> FALSE]
    IN CASE ~MeetsType(s, pos) -> failed
         [] p = "compact" /\ MeetsType(s, pos) /\ s[pos].typ = "STOP" -> [failed EXCEPT !.pos = pos + 1]
         [] p = "compact" /\ MeetsType(s, pos) /\ s[pos].typ # "STOP" /\ s[pos].value # 0 ->
              [pos |-> pos + 1, id |-> s[pos].value, typ |-> s[pos].typ, delta |-> TRUE]
         [] OTHER -> LET id == ReadScalar(p, s, pos + 1, "I16")
                     IN [pos |-> id.pos, id |-> id.value, typ |-> s[pos].typ, delta |-> FALSE]

ReadList(p, s, pos) ==
    CASE ~MeetsType(s, pos) -> [pos |-> 0, size |-> 0, typ |-> "STOP"]
      [] p = "compact" /\ MeetsType(s, pos) /\ s[pos].value # 15 ->
           [pos |-> pos + 1, size |-> s[pos].value, typ |-> s[pos].typ]
      [] OTHER -> LET n == ReadScalar(p, s, pos + 1, "I32")
                  IN [pos |-> n.pos, size |-> n.value, typ |-> s[pos].typ]

ReadMap(p, s, pos) ==
    LET n == ReadScalar(p, s, IF p = "compact" THEN pos ELSE pos + 2, "I32")
        at == IF p = "compact" THEN n.pos ELSE pos
        ok == n.pos # 0 /\ MeetsType(s, at) /\ MeetsType(s, at + 1)
    IN CASE p = "compact" /\ n.value = 0 -> [pos |-> n.pos, size |-> 0, key |-> "STOP", value |-> "STOP"]
         [] (p # "compact" \/ n.value # 0) /\ ok ->
              [pos |-> IF p = "compact" THEN at + 2 ELSE n.pos, size |-> n.value,
               key |-> s[at].typ, value |-> s[at + 1].typ]
         [] OTHER -> [pos |-> 0, size |-> 0, key |-> "STOP", value |-> "STOP"]

FieldID(f, last) == IF f.delta THEN f.id + last ELSE f.id

-----------------------------------------------------------------------------
\* skip: the position after a value of the type.

RECURSIVE Skip(_, _, _, _), skipStruct(_, _, _)
\* Mutant: a boolean in a container taken for the boolean of a field.
skipItemAsField(p, s, pos, typ) == Skip(p, s, pos, typ)
\* A boolean in a container takes a byte in both protocols.
skipItem(p, s, pos, typ) ==
    IF typ \in {"TRUE", "BOOL"} THEN ReadScalar(p, s, pos, "BOOL").pos ELSE Skip(p, s, pos, typ)
skipItems(p, s, pos, size, typs) ==
    FoldLeft(LAMBDA at, i : FoldLeft(LAMBDA q, typ : IF q = 0 THEN 0 ELSE skipItem(p, s, q, typ), at, typs),
             pos, [i \in 1..size |-> i])
Skip(p, s, pos, typ) ==
    CASE pos = 0 -> 0
      [] pos # 0 /\ typ \in {"TRUE", "BOOL"} -> IF p = "compact" THEN pos ELSE ReadScalar(p, s, pos, "BOOL").pos
      [] pos # 0 /\ typ \in {"LIST", "SET"} -> LET l == ReadList(p, s, pos) IN skipItems(p, s, l.pos, l.size, <<l.typ>>)
      [] pos # 0 /\ typ = "MAP" -> LET m == ReadMap(p, s, pos) IN skipItems(p, s, m.pos, m.size, <<m.key, m.value>>)
      [] pos # 0 /\ typ = "STRUCT" -> skipStruct(p, s, pos)
      [] pos # 0 /\ typ \in {"I8", "I16", "I32", "I64", "DOUBLE", "BINARY", "UUID"} -> ReadScalar(p, s, pos, typ).pos
      [] OTHER -> 0
skipStruct(p, s, pos) ==
    LET f == ReadField(p, s, pos)
    IN IF f.pos = 0 \/ f.typ = "STOP" THEN f.pos
       ELSE LET next == Skip(p, s, f.pos, f.typ) IN IF next = 0 THEN 0 ELSE skipStruct(p, s, next)

-----------------------------------------------------------------------------
\* Decoders.  They return the position and what is now in the place they decode
\* to, which held old; after an error it holds what was decoded so far.

Outcome(pos, x) == [pos |-> pos, value |-> x]

RECURSIVE Decode(_, _, _, _, _), decodeFields(_, _, _, _, _, _, _), decodeUnion(_, _, _, _, _, _), setBool(_, _)

decodeItems(p, t, s, pos, olds) ==
    FoldLeft(LAMBDA acc, i : LET d == Decode(p, t, s, acc.pos, olds[i])
                             IN IF acc.pos = 0 THEN acc ELSE Outcome(d.pos, [acc.value EXCEPT ![i] = d.value]),
             Outcome(pos, olds), [i \in DOMAIN olds |-> i])

\* The elements of the array that are there are decoded over.
decodeSlice(p, t, s, pos, old) ==
    LET l == ReadList(p, s, pos)
        retained == IF old = <<>> THEN <<>> ELSE old[1] \o old[2]
        typ == IF l.typ = "TRUE" THEN "BOOL" ELSE l.typ
        olds == [i \in 1..l.size |-> IF i <= Len(retained) THEN retained[i] ELSE ZeroOf(Elem(t))]
        d == decodeItems(p, Elem(t), s, l.pos, olds)
    IN CASE l.pos = 0 -> Outcome(0, old)
         [] l.pos # 0 /\ typ # TypeOf(Elem(t)) -> Outcome(skipItems(p, s, l.pos, l.size, <<typ>>), old)
         [] OTHER -> Outcome(d.pos, <<d.value, SubSeq(retained, l.size + 1, Len(retained))>>)

decodeSet(p, t, s, pos, old) ==
    LET l == ReadList(p, s, pos)
        typ == IF l.typ = "TRUE" THEN "BOOL" ELSE l.typ
        d == decodeItems(p, Elem(t), s, l.pos, [i \in 1..l.size |-> ZeroOf(Elem(t))])
    IN CASE l.pos = 0 -> Outcome(0, old)
         [] l.pos # 0 /\ l.size > 0 /\ typ # TypeOf(Elem(t)) ->
              Outcome(skipItems(p, s, l.pos, l.size, <<typ>>), <<{}>>)
         [] OTHER -> Outcome(d.pos, <<ToSet(d.value)>>)

decodeMap(p, t, s, pos, old) ==
    LET m == ReadMap(p, s, pos)
        step(acc, i) ==
            LET k == Decode(p, t.elems[1], s, acc.pos, ZeroOf(t.elems[1]))
                e == Decode(p, t.elems[2], s, k.pos, ZeroOf(t.elems[2]))
            IN IF acc.pos = 0 \/ k.pos = 0 \/ e.pos = 0 THEN Outcome(0, acc.value)
               ELSE Outcome(e.pos, {x \in acc.value : x[1] # k.value} \cup {<<k.value, e.value>>})
        d == FoldLeft(step, Outcome(m.pos, {}), [i \in 1..m.size |-> i])
    IN CASE m.pos = 0 -> Outcome(0, old)
         [] m.pos # 0 /\ m.size > 0 /\ <<m.key, m.value>> # <<TypeOf(t.elems[1]), TypeOf(t.elems[2])>> ->
              Outcome(skipItems(p, s, m.pos, m.size, <<m.key, m.value>>), <<{}>>)
         [] OTHER -> Outcome(d.pos, <<d.value>>)

\* A boolean that came in the type of its field.
setBool(t, b) ==
    CASE t.kind = "scalar" -> b
      [] t.kind = "null" -> <<TRUE, setBool(Elem(t), b)>>
      [] t.kind = "pointer" -> <<setBool(Elem(t), b)>>

Decode(p, t, s, pos, old) ==
    CASE pos = 0 -> Outcome(0, old)
      [] pos # 0 /\ t.kind = "scalar" ->
           LET r == ReadScalar(p, s, pos, t.typ) IN Outcome(r.pos, IF r.pos = 0 THEN old ELSE r.value)
      [] pos # 0 /\ t.kind = "pointer" ->
           LET d == Decode(p, Elem(t), s, pos, ZeroOf(Elem(t))) IN Outcome(d.pos, <<d.value>>)
      [] pos # 0 /\ t.kind = "null" ->
           LET d == Decode(p, Elem(t), s, pos, old[2]) IN Outcome(d.pos, <<old[1] \/ d.pos # 0, d.value>>)
      [] pos # 0 /\ t.kind = "list" -> decodeSlice(p, t, s, pos, old)
      [] pos # 0 /\ t.kind = "set" -> decodeSet(p, t, s, pos, old)
      [] pos # 0 /\ t.kind = "map" -> decodeMap(p, t, s, pos, old)
      [] pos # 0 /\ t.kind = "struct" -> decodeFields(p, t, s, pos, old, {}, 0)
      [] pos # 0 /\ t.kind = "union" -> decodeUnion(p, t, s, pos, <<>>, 0)

\* The end of structDecoder.decode: are the required fields there, and which
\* fields must be cleared?
clearUnseen(t, x, seen) ==
    [i \in DOMAIN x |-> IF i \notin seen /\ t.fields[i].type.kind \in {"pointer", "union"} THEN <<>> ELSE x[i]]
RequiredFields(t) == {i \in DOMAIN t.fields : "required" \in t.fields[i].flags}

\* Decoding goes on behind the field, if the field was read.
decodeFrom(p, t, s, o, seen, last) == IF o.pos = 0 THEN o ELSE decodeFields(p, t, s, o.pos, o.value, seen, last)
FieldSet(x, i, d) == Outcome(d.pos, [x EXCEPT ![i] = d.value])
decodeValue(p, t, s, f, old) ==
    IF Coalesced(p, t) THEN Outcome(f.pos, setBool(t, IF f.typ = "TRUE" THEN 1 ELSE 0)) ELSE Decode(p, t, s, f.pos, old)

decodeField(p, t, s, f, id, x, seen) ==
    LET known == {i \in DOMAIN t.fields : /\ t.fields[i].id = id
                                          /\ TypeOf(t.fields[i].type) = IF f.typ = "TRUE" THEN "BOOL" ELSE f.typ}
    IN CASE f.pos = 0 -> Outcome(0, x)
         [] f.pos # 0 /\ f.typ = "STOP" ->
              IF RequiredFields(t) \subseteq seen THEN Outcome(f.pos, clearUnseen(t, x, seen)) ELSE Outcome(0, x)
         [] f.pos # 0 /\ f.typ # "STOP" /\ known = {} ->
              decodeFrom(p, t, s, Outcome(Skip(p, s, f.pos, f.typ), x), seen, id)
         [] OTHER ->
              LET i == CHOOSE i \in known : TRUE
              IN decodeFrom(p, t, s, FieldSet(x, i, decodeValue(p, t.fields[i].type, s, f, x[i])), seen \cup {i}, id)

decodeFields(p, t, s, pos, x, seen, last) ==
    LET f == ReadField(p, s, pos) IN decodeField(p, t, s, f, FieldID(f, last), x, seen)

\* A union is unset before its fields are read; a member that is not known is
\* skipped, and a member that is reused is zeroed first.
unionFrom(p, t, s, o, last) == IF o.pos = 0 THEN o ELSE decodeUnion(p, t, s, o.pos, o.value, last)
MemberSet(x, id, d) == IF d.pos = 0 THEN Outcome(0, x) ELSE Outcome(d.pos, <<id, <<d.value>>>>)
decodeMember(p, t, s, f, id, x) ==
    LET known == f.typ = "STRUCT" /\ \E i \in DOMAIN t.fields : t.fields[i].id = id
    IN CASE f.pos = 0 \/ f.typ = "STOP" -> Outcome(f.pos, x)
         [] f.pos # 0 /\ f.typ # "STOP" /\ ~known -> unionFrom(p, t, s, Outcome(Skip(p, s, f.pos, f.typ), x), id)
         [] OTHER -> unionFrom(p, t, s, MemberSet(x, id, Decode(p, Member(t, id), s, f.pos, ZeroOf(Member(t, id)))), id)

decodeUnion(p, t, s, pos, x, last) ==
    LET f == ReadField(p, s, pos) IN decodeMember(p, t, s, f, FieldID(f, last), x)

-----------------------------------------------------------------------------
\* The types of format/parquet.go; an enumeration is an I32.

Int8 == Scalar("I8")
Int16 == Scalar("I16")
Int32 == Scalar("I32")
Int64 == Scalar("I64")
Bool == Scalar("BOOL")
Float64 == Scalar("DOUBLE")
String == Scalar("BINARY")
EmptyStruct == StructOf(<<>>)

SizeStatistics == StructOf(<<Opt(1, Int64), Opt(2, SliceOf(Int64)), Opt(3, SliceOf(Int64))>>)
BoundingBox == StructOf([i \in 1..8 |-> IF i <= 4 THEN Req(i, Float64) ELSE Opt(i, NullOf(Float64))])
GeospatialStatistics == StructOf(<<Opt(1, BoundingBox), Opt(2, SliceOf(Int32))>>)
Statistics ==
    StructOf(<<Opt(1, String), Opt(2, String), OptZero(3, Int64), Opt(4, Int64), Opt(5, String), Opt(6, String)>>)

TimeUnit == UnionOf([i \in 1..3 |-> Opt(i, EmptyStruct)])
DecimalType == StructOf(<<Req(1, Int32), Req(2, Int32)>>)
TimeType == StructOf(<<Req(1, Bool), Req(2, TimeUnit)>>)
IntType == StructOf(<<Req(1, Int8), Req(2, Bool)>>)
VariantType == StructOf(<<Opt(1, Int8)>>)
GeometryType == StructOf(<<Opt(1, String)>>)
GeographyType == StructOf(<<Opt(1, String), Opt(2, Int32)>>)
LogicalType ==
    UnionOf(<<Opt(1, EmptyStruct), Opt(2, EmptyStruct), Opt(3, EmptyStruct), Opt(4, EmptyStruct),
              Opt(5, DecimalType), Opt(6, EmptyStruct), Opt(7, TimeType), Opt(8, TimeType), Opt(10, IntType),
              Opt(11, EmptyStruct), Opt(12, EmptyStruct), Opt(13, EmptyStruct), Opt(14, EmptyStruct),
              Opt(15, EmptyStruct), Opt(16, VariantType), Opt(17, GeometryType), Opt(18, GeographyType)>>)
SchemaElement ==
    StructOf(<<Opt(1, NullOf(Int32)), Opt(2, NullOf(Int32)), Opt(3, NullOf(Int32)), Req(4, String),
               Opt(5, NullOf(Int32)), Opt(6, NullOf(Int32)), Opt(7, NullOf(Int32)), Opt(8, NullOf(Int32)),
               Opt(9, Int32), Opt(10, LogicalType)>>)

DataPageHeader ==
    StructOf(<<Req(1, Int32), Req(2, Int32), Req(3, Int32), Req(4, Int32), OptZero(5, Statistics)>>)
DictionaryPageHeader == StructOf(<<Req(1, Int32), Req(2, Int32), Opt(3, Bool)>>)
DataPageHeaderV2 ==
    StructOf(<<Req(1, Int32), Req(2, Int32), Req(3, Int32), Req(4, Int32), Req(5, Int32), Req(6, Int32),
               Opt(7, NullOf(Bool)), OptZero(8, Statistics)>>)
PageHeader ==
    StructOf(<<Req(1, Int32), Req(2, Int32), Req(3, Int32), Opt(4, Int32), Opt(5, NullOf(DataPageHeader)),
               Opt(6, NullOf(EmptyStruct)), Opt(7, NullOf(DictionaryPageHeader)), Opt(8, NullOf(DataPageHeaderV2))>>)
BloomFilterHeader ==
    StructOf(<<Req(1, Int32), Req(2, UnionOf(<<Opt(1, EmptyStruct)>>)), Req(3, UnionOf(<<Opt(1, EmptyStruct)>>)),
               Req(4, UnionOf(<<Opt(1, EmptyStruct), Opt(2, EmptyStruct)>>))>>)
PageLocation == StructOf(<<Req(1, Int64), Req(2, Int32), Req(3, Int64)>>)
OffsetIndex == StructOf(<<Req(1, SliceOf(PageLocation)), Opt(2, SliceOf(Int64))>>)
ColumnIndexType ==
    StructOf(<<Req(1, SliceOf(Bool)), Req(2, SliceOf(String)), Req(3, SliceOf(String)), Req(4, Int32),
               OptZero(5, SliceOf(Int64)), Opt(6, SliceOf(Int64)), Opt(7, SliceOf(Int64))>>)

KeyValueType == StructOf(<<Req(1, String), Req(2, String)>>)
SortingColumn == StructOf(<<Req(1, Int32), Req(2, Bool), Req(3, Bool)>>)
PageEncodingStats == StructOf(<<Req(1, Int32), Req(2, Int32), Req(3, Int32)>>)
ColumnMetaData ==
    StructOf(<<Req(1, Int32), Req(2, SliceOf(Int32)), Req(3, SliceOf(String)), Req(4, Int32), Req(5, Int64),
               Req(6, Int64), Req(7, Int64), Opt(8, SliceOf(KeyValueType)), Req(9, Int64), Opt(10, Int64),
               Opt(11, Int64), OptZero(12, Statistics), Opt(13, SliceOf(PageEncodingStats)), Opt(14, Int64),
               Opt(15, Int32), Opt(16, SizeStatistics), Opt(17, GeospatialStatistics)>>)
EncryptionWithColumnKey == StructOf(<<Req(1, SliceOf(String)), Opt(2, String)>>)
ColumnCryptoMetaData == UnionOf(<<Opt(1, EmptyStruct), Opt(2, EncryptionWithColumnKey)>>)
ColumnChunk ==
    StructOf(<<Opt(1, String), Req(2, Int64), Opt(3, ColumnMetaData), Opt(4, Int64), Opt(5, Int32), Opt(6, Int64),
               Opt(7, Int32), Opt(8, ColumnCryptoMetaData), Opt(9, String)>>)
RowGroup ==
    StructOf(<<Req(1, SliceOf(ColumnChunk)), Req(2, Int64), Req(3, Int64), Opt(4, SliceOf(SortingColumn)),
               Opt(5, Int64), Opt(6, Int64), OptZero(7, Int16)>>)
ColumnOrder == UnionOf(<<Opt(1, EmptyStruct)>>)
AesGcm == StructOf(<<Opt(1, String), Opt(2, String), Opt(3, Bool)>>)
EncryptionAlgorithm == UnionOf(<<Opt(1, AesGcm), Opt(2, AesGcm)>>)
FileMetaData ==
    StructOf(<<Req(1, Int32), Req(2, SliceOf(SchemaElement)), Req(3, Int64), Req(4, SliceOf(RowGroup)),
               Opt(5, SliceOf(KeyValueType)), Opt(6, String), Opt(7, SliceOf(ColumnOrder)),
               Opt(8, EncryptionAlgorithm), Opt(9, String)>>)

-----------------------------------------------------------------------------
\* The Reset methods.  A slice is emptied and keeps its array; its elements are
\* reset first.

Emptied(x, reset(_)) == IF x = <<>> THEN <<>> ELSE <<<<>>, [i \in DOMAIN x[1] |-> reset(x[1][i])] \o x[2]>>
Cleared(t, x) == Emptied(x, LAMBDA y : ZeroOf(t))
Kept(x) == Emptied(x, LAMBDA y : y)
Scrubbed(t, x, ids) == IF x # <<>> /\ x[1] \in ids THEN <<x[1], <<ZeroOf(Member(t, x[1]))>>>> ELSE x

ResetSchemaElement(e) ==
    [i \in DOMAIN e |-> IF i = 10 THEN Scrubbed(LogicalType, e[10], {17, 18}) ELSE ZeroOf(SchemaElement.fields[i].type)]

ResetColumnMetaData(c) ==
    [i \in DOMAIN c |->
        CASE i = 2 -> Kept(c[2])
          [] i = 3 -> Cleared(String, c[3])
          [] i = 8 -> Cleared(KeyValueType, c[8])
          [] i = 13 -> Cleared(PageEncodingStats, c[13])
          [] i = 16 -> <<0, Kept(c[16][2]), Kept(c[16][3])>>
          [] i = 17 -> <<ZeroOf(BoundingBox), Kept(c[17][2])>>
          [] OTHER -> ZeroOf(ColumnMetaData.fields[i].type)]

ResetColumnChunk(c) ==
    [i \in DOMAIN c |->
        CASE i = 3 -> ResetColumnMetaData(c[3])
          [] i = 8 -> Scrubbed(ColumnCryptoMetaData, c[8], {2})
          [] OTHER -> 0]

ResetRowGroup(g) ==
    [i \in DOMAIN g |->
        CASE i = 1 -> Emptied(g[1], ResetColumnChunk)
          [] i = 4 -> Cleared(SortingColumn, g[4])
          [] OTHER -> 0]

ResetFileMetaData(m) ==
    [i \in DOMAIN m |->
        CASE i = 2 -> Emptied(m[2], ResetSchemaElement)
          [] i = 4 -> Emptied(m[4], ResetRowGroup)
          [] i = 5 -> Cleared(KeyValueType, m[5])
          [] i = 7 -> Kept(m[7])
          [] i = 8 -> Scrubbed(EncryptionAlgorithm, m[8], {1, 2})
          [] OTHER -> 0]

-----------------------------------------------------------------------------
\* Inputs: the zero value, the value with everything in it, and these with one
\* field changed.

SliceWith(l) == <<l, <<>>>>

\* Everything set; n is the length of the outer slices.
RECURSIVE Full(_, _)
Full(t, n) ==
    CASE t.kind = "scalar" -> 1
      [] t.kind = "pointer" -> <<Full(Elem(t), 1)>>
      [] t.kind = "null" -> <<TRUE, Full(Elem(t), 1)>>
      [] t.kind = "list" -> SliceWith([i \in 1..n |-> Full(Elem(t), 1)])
      [] t.kind = "set" -> <<{Full(Elem(t), 1)}>>
      [] t.kind = "map" -> <<{<<Full(t.elems[1], 1), Full(t.elems[2], 1)>>}>>
      [] t.kind = "struct" -> [i \in DOMAIN t.fields |-> Full(t.fields[i].type, n)]
      [] t.kind = "union" -> LET m == Last(t.fields) IN <<m.id, <<Full(m.type, 1)>>>>

\* Only what is required; n is the length of the slices.
RECURSIVE Sparse(_, _)
Sparse(t, n) ==
    CASE t.kind = "list" -> SliceWith([i \in 1..n |-> Sparse(Elem(t), 1)])
      [] t.kind = "struct" ->
           [i \in DOMAIN t.fields |-> IF "required" \in t.fields[i].flags THEN Sparse(t.fields[i].type, n)
                                      ELSE ZeroOf(t.fields[i].type)]
      [] OTHER -> ZeroOf(t)

RECURSIVE Samples(_)
Samples(t) ==
    CASE t.kind = "scalar" -> {0, 1}
      [] t.kind = "pointer" -> {<<>>} \cup {<<x>> : x \in Samples(Elem(t))}
      [] t.kind = "null" -> {ZeroOf(t)} \cup {<<TRUE, x>> : x \in Samples(Elem(t))}
      [] t.kind = "list" ->
           {<<>>, SliceWith(<<>>)} \cup {SliceWith(<<x>>) : x \in Samples(Elem(t))}
           \cup {SliceWith([i \in 1..n |-> Full(Elem(t), 1)]) : n \in {2, 14, 15}}
      [] t.kind = "set" -> {<<>>, <<{}>>, <<Samples(Elem(t))>>}
      [] t.kind = "map" -> {<<>>, <<{}>>} \cup {<<{<<0, x>>, <<1, x>>}>> : x \in Samples(t.elems[2])}
      [] t.kind = "struct" ->
           {ZeroOf(t), Full(t, 1)}
           \cup UNION {{[x EXCEPT ![i] = y] : x \in {ZeroOf(t), Full(t, 1)}, y \in Samples(t.fields[i].type)}
                       : i \in DOMAIN t.fields}
      [] t.kind = "union" ->
           {<<>>} \cup {<<m.id, <<>>>> : m \in ToSet(t.fields)}
           \cup UNION {{<<m.id, <<x>>>> : x \in Samples(m.type)} : m \in ToSet(t.fields)}

-----------------------------------------------------------------------------
VARIABLES exchange,   \* who writes to whom: [protocol, writer, reader]
          message,    \* the value last written, and whether all of it arrived
          target,     \* what the reader decodes to
          consumed,   \* the tokens it read of the message; 0 after an error
          decodes,    \* footers decoded so far
          failures    \* footers that ended too early

thriftVars == <<exchange, message, target, consumed, decodes, failures>>

ThriftInitOn(exchanges) ==
    /\ exchange \in exchanges
    /\ message = [writer |-> exchange.writer, value |-> ZeroOf(exchange.writer), complete |-> FALSE]
    /\ target = ZeroOf(exchange.reader)
    /\ consumed = 0 /\ decodes = 0 /\ failures = 0

Received(d) == target' = d.value /\ consumed' = IF d.pos = 0 THEN 0 ELSE d.pos - 1

\* Marshal and then Unmarshal to a new value of the reader's type.
Unmarshal ==
    /\ exchange.writer # FileMetaData /\ decodes = 0
    /\ \E x \in Samples(exchange.writer) :
         LET s == Encode(exchange.protocol, exchange.writer, x)
         IN /\ message' = [writer |-> exchange.writer, value |-> x, complete |-> TRUE]
            /\ Received(Decode(exchange.protocol, exchange.reader, s, 1, ZeroOf(exchange.reader)))
    /\ decodes' = decodes + 1 /\ UNCHANGED <<exchange, failures>>

\* The footers as they are stored.
FooterFiles ==
    {[footer |-> footer, stream |-> Encode("compact", footer.type, footer.value)] : footer \in Footers}

\* FooterDecoder.Decode of the first n tokens of a footer; what follows a
\* complete footer (a signature) is left alone.
FooterDecode(file, n) ==
    LET whole == n = Len(file.stream)
        bytes == IF whole THEN file.stream \o <<Token("bytes", 28, "")>> ELSE SubSeq(file.stream, 1, n)
    IN /\ message' = [writer |-> file.footer.type, value |-> file.footer.value, complete |-> whole]
       /\ Received(Decode("compact", FileMetaData, bytes, 1, ResetFileMetaData(target)))

DecodeFooter ==
    /\ exchange.writer = FileMetaData /\ decodes < MaxDecodes
    /\ \E file \in FooterFiles : \E n \in 0..Len(file.stream) :
         /\ n < Len(file.stream) => failures < MaxFailures /\ n % CutStep = 0
         /\ FooterDecode(file, n)
         /\ failures' = IF n < Len(file.stream) THEN failures + 1 ELSE failures
    /\ decodes' = decodes + 1 /\ UNCHANGED exchange

ThriftInit == ThriftInitOn(Exchanges)

ThriftNext == Unmarshal \/ DecodeFooter

ThriftSpec == ThriftInit /\ [][ThriftNext]_thriftVars

-----------------------------------------------------------------------------
\* What a reader of one type should see of a value of the writer's type.
RECURSIVE View(_, _, _)
View(r, w, x) ==
    CASE r.kind = "scalar" -> x
      [] r.kind = "pointer" -> IF x = <<>> THEN <<ZeroOf(Elem(r))>> ELSE <<View(Elem(r), Elem(w), x[1])>>
      [] r.kind = "null" -> <<TRUE, View(Elem(r), Elem(w), x[2])>>
      [] r.kind = "list" -> SliceWith([i \in DOMAIN Items(x) |-> View(Elem(r), Elem(w), Items(x)[i])])
      [] r.kind = "set" -> <<{View(Elem(r), Elem(w), y) : y \in Entries(x)}>>
      [] r.kind = "map" ->
           <<{<<View(r.elems[1], w.elems[1], y[1]), View(r.elems[2], w.elems[2], y[2])>> : y \in Entries(x)}>>
      [] r.kind = "struct" ->
           [i \in DOMAIN r.fields |->
              LET same == {j \in DOMAIN w.fields : /\ w.fields[j].id = r.fields[i].id
                                                   /\ TypeOf(w.fields[j].type) = TypeOf(r.fields[i].type)
                                                   /\ x[j] # ZeroOf(w.fields[j].type)}
              IN IF same = {} THEN ZeroOf(r.fields[i].type)
                 ELSE LET j == CHOOSE j \in same : TRUE IN View(r.fields[i].type, w.fields[j].type, x[j])]
      [] r.kind = "union" ->
           IF x # <<>> /\ \E i \in DOMAIN r.fields : r.fields[i].id = x[1]
           THEN <<x[1], <<IF x[2] = <<>> THEN ZeroOf(Member(r, x[1]))
                          ELSE View(Member(r, x[1]), Member(w, x[1]), x[2][1])>>>>
           ELSE <<>>

\* A value without the difference between nil and empty, and without what the
\* arrays of its slices retain.
RECURSIVE Visible(_, _)
Visible(t, x) ==
    CASE t.kind = "list" -> [i \in DOMAIN Items(x) |-> Visible(Elem(t), Items(x)[i])]
      [] t.kind \in {"set", "map"} -> Entries(x)
      [] t.kind = "struct" -> [i \in DOMAIN t.fields |-> Visible(t.fields[i].type, x[i])]
      [] t.kind = "null" -> <<x[1], Visible(Elem(t), x[2])>>
      [] t.kind = "pointer" -> IF x = <<>> THEN x ELSE <<Visible(Elem(t), x[1])>>
      [] t.kind = "union" -> IF x = <<>> THEN x ELSE <<x[1], <<Visible(Member(t, x[1]), x[2][1])>>>>
      [] OTHER -> x

Lacks(r, w) ==
    \E f \in ToSet(r.fields) : /\ "required" \in f.flags
                               /\ \A g \in ToSet(w.fields) : g.id # f.id \/ TypeOf(g.type) # TypeOf(f.type)

\* What is written is read back whole, in both protocols, by a reader whose type
\* has lost, retyped or never had some of the fields: every field both know has
\* its value, the others are zero, exactly the message is consumed, and it fails
\* only for want of a required field.  A FooterDecoder shows the same whatever it
\* decoded before, and also after footers that ended too early, at which it fails.
MetadataSurvives ==
    decodes > 0 =>
        LET ok == message.complete /\ ~Lacks(exchange.reader, message.writer)
        IN IF ok THEN /\ consumed = Len(Encode(exchange.protocol, message.writer, message.value))
                      /\ Visible(exchange.reader, target)
                           = Visible(exchange.reader, View(exchange.reader, message.writer, message.value))
           ELSE consumed = 0
=============================================================================
