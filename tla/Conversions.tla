---------------------------- MODULE Conversions ----------------------------
(* Type.ConvertValue: what a value of one leaf type becomes in another       *)
(* (convert.go, and the ConvertValue method of every type_*.go), which is    *)
(* how a reader sees a file whose schema is not its own.                     *)
(*                                                                           *)
(* A value is <<kind, form, n>>: its physical kind and what its bits hold.   *)
(*   "num"  the number n in the arithmetic of the kind;                      *)
(*   "le"   the little-endian bytes of the unsigned number n;                *)
(*   "ieee" the bytes of the float n of that width;                          *)
(*   "text" decimal text, "word" a boolean word, "day" and "clock" the text  *)
(*          of a date and of a time of day;                                  *)
(*   "hex"  the hexadecimal text of the bytes of n.                          *)
(* "error" is a conversion the code refuses, "other" one that reads bytes    *)
(* which are not of the form the target expects.                             *)
EXTENDS Integers, Sequences, FiniteSets

CONSTANTS MaxConversions    \* bound: conversions of one value in a row

\* Scaled widths: 32, 64 and 96 bits; a timestamp has the width of its INT64.
Bits32 == 2
Bits64 == 5
Bits96 == 6

Wrap(w, n) == ((n + 2^(w - 1)) % 2^w) - 2^(w - 1)
WidthOf(kind) == CASE kind = "int32" -> Bits32 [] kind = "int64" -> Bits64 [] OTHER -> Bits96

(* Division of Go, which truncates towards zero. *)
Quotient(a, b) == IF a >= 0 THEN a \div b ELSE - ((- a) \div b)

(* timeUnitDuration in nanoseconds, and the length of a day. *)
timeUnitDuration(unit) == CASE unit = "nanos" -> 1 [] unit = "micros" -> 2 [] OTHER -> 4
DayLength == 8

Error == <<"error", "num", 0>>
Other(kind) == <<kind, "other", 0>>

-----------------------------------------------------------------------------
(* convert.go, grouped by the kind of the source.  The target is a kind of   *)
(* number, "byteArray", or "fixed" for an array of Bits96 bits.              *)

\* The number n stored in a kind of number.
Stored(kind, n) ==
    CASE kind = "boolean"            -> <<kind, "num", IF n = 0 THEN 0 ELSE 1>>
      [] kind \in {"float", "double"} -> <<kind, "num", n>>
      [] OTHER                       -> <<kind, "num", Wrap(WidthOf(kind), n)>>

IsNumeric(kind) == kind \in {"boolean", "int32", "int64", "int96", "float", "double"}
IsBytes(kind) == kind \in {"byteArray", "fixed"}

convertBooleanTo(kind, n) ==
    IF IsBytes(kind) THEN <<kind, "le", n>> ELSE Stored(kind, n)

\* Mutant: the sign is not extended.
convertUint32To(kind, n) ==
    IF IsBytes(kind) THEN <<kind, "le", n % 2^Bits32>> ELSE Stored(kind, n % 2^Bits32)

convertInt32To(kind, n) ==
    IF IsBytes(kind) THEN <<kind, "le", n % 2^Bits32>> ELSE Stored(kind, n)

convertInt64To(kind, n) ==
    IF IsBytes(kind) THEN <<kind, "le", n % 2^Bits64>> ELSE Stored(kind, n)

\* INT96 and the float kinds do not convert to each other.
convertInt96To(kind, n) ==
    CASE kind \in {"float", "double"} -> Error
      [] IsBytes(kind)                -> <<kind, "le", n % 2^Bits96>>
      [] OTHER                        -> Stored(kind, n)

convertFloatTo(kind, n) ==
    CASE kind = "int96" -> Error
      [] IsBytes(kind)  -> <<kind, "ieee32", n>>
      [] OTHER          -> Stored(kind, n)

convertDoubleTo(kind, n) ==
    CASE kind = "int96" -> Error
      [] IsBytes(kind)  -> <<kind, "ieee64", n>>
      [] OTHER          -> Stored(kind, n)

(* Byte arrays are copied to the low bytes of the target, zeros above. *)
convertByteArrayTo(kind, v) ==
    LET form == v[2]
        n == v[3]
    IN  CASE kind = "boolean"  -> <<kind, "num", IF form \in {"le", "ieee32", "ieee64"} /\ n = 0 THEN 0 ELSE 1>>
          [] IsBytes(kind)     -> <<kind, form, IF form = "le" /\ kind = "fixed" THEN n % 2^Bits96 ELSE n>>
          [] kind = "float"    -> IF form = "ieee32" THEN <<kind, "num", n>> ELSE Other(kind)
          [] kind = "double"   -> IF form = "ieee64" THEN <<kind, "num", n>> ELSE Other(kind)
          [] OTHER             -> IF form = "le" THEN Stored(kind, n) ELSE Other(kind)

(* Texts are parsed in the bit size of the target.  The magnitude of an      *)
(* INT96 is copied with its most significant byte (of two bits) first into   *)
(* words whose least significant byte comes first.                           *)
MostSignificantFirst(m) ==
    IF m < 4 THEN m
    ELSE IF m < 16 THEN (m \div 4) + 4 * (m % 4)
    ELSE (m \div 16) + 4 * ((m \div 4) % 4) + 16 * (m % 4)

convertStringTo(kind, v) ==
    LET n == v[3]
    IN  CASE kind = "boolean" ->
                 IF v[2] = "word" \/ (v[2] = "text" /\ n \in {0, 1}) THEN <<kind, "num", n>> ELSE Error
          [] kind \in {"int32", "int64"} ->
                 IF v[2] = "text" /\ n = Wrap(WidthOf(kind), n) THEN <<kind, "num", n>> ELSE Error
          [] kind \in {"float", "double"} ->
                 IF v[2] = "text" THEN <<kind, "num", n>> ELSE Error
          [] kind = "int96" ->
                 IF v[2] # "text" THEN Error
                 ELSE <<kind, "num", Wrap(Bits96, MostSignificantFirst(IF n < 0 THEN - n ELSE n))>>
          [] kind = "fixed" -> IF v[2] = "hex" THEN <<kind, "le", n>> ELSE Error

(* The text of a value; Int96.String reads the number as unsigned, byte      *)
(* arrays of a fixed length are written in hexadecimal.                      *)
convertToString(v) ==
    CASE v[1] = "boolean"   -> <<"byteArray", "word", v[3]>>
      [] v[1] = "int96"     -> <<"byteArray", "text", v[3] % 2^Bits96>>
      [] v[1] = "fixed"     -> IF v[2] = "le" THEN <<"byteArray", "hex", v[3]>> ELSE Other("byteArray")
      [] v[1] = "byteArray" -> v
      [] OTHER              -> <<"byteArray", "text", v[3]>>

\* Dates and times of day, in UTC.
daysSinceUnixEpoch(nanos) == Quotient(nanos, DayLength)
convertStringToDate(v) ==
    IF v[2] = "day" THEN <<"int32", "num", v[3]>> ELSE Error
convertDateToString(v) == <<"byteArray", "day", v[3]>>
convertDateToTimestamp(v, unit) ==
    <<"int64", "num", Wrap(Bits64, Quotient(v[3] * DayLength, timeUnitDuration(unit)))>>
convertTimestampToDate(v, unit) ==
    <<"int32", "num", Wrap(Bits32, daysSinceUnixEpoch(v[3] * timeUnitDuration(unit)))>>
convertTimestampToTimestamp(v, source, target) ==
    <<"int64", "num", Quotient(Wrap(Bits64, v[3] * timeUnitDuration(source)), timeUnitDuration(target))>>
ClockOf(v, unit) == (v[3] * timeUnitDuration(unit)) % DayLength
convertTimestampToTimeMillis(v, unit) ==
    <<"int32", "num", Wrap(Bits32, ClockOf(v, unit) \div timeUnitDuration("millis"))>>
convertTimestampToTimeMicros(v, unit) ==
    <<"int64", "num", ClockOf(v, unit) \div timeUnitDuration("micros")>>
convertTimeMillisToString(v) == <<"byteArray", "clock", v[3] * timeUnitDuration("millis")>>
convertTimeMicrosToString(v) == <<"byteArray", "clock", v[3] * timeUnitDuration("micros")>>
convertStringToTimeMillis(v) ==
    IF v[2] = "clock" THEN <<"int32", "num", Wrap(Bits32, v[3] \div timeUnitDuration("millis"))>> ELSE Error
convertStringToTimeMicros(v) ==
    IF v[2] = "clock" THEN <<"int64", "num", v[3] \div timeUnitDuration("micros")>> ELSE Error

-----------------------------------------------------------------------------
(* The types, by name: their kind, and the unit of times and timestamps. *)
TypeTable ==
    [boolean |-> "boolean", int32 |-> "int32", uint32 |-> "int32", int64 |-> "int64",
     uint64 |-> "int64", int96 |-> "int96", float |-> "float", double |-> "double",
     byteArray |-> "byteArray", fixed |-> "fixed", string |-> "byteArray",
     date |-> "int32", timestampMillis |-> "int64", timestampNanos |-> "int64",
     timeMillis |-> "int32", timeMicros |-> "int64", timeNanos |-> "int64",
     json |-> "byteArray", enum |-> "byteArray", geometry |-> "byteArray"]

TypeSet == DOMAIN TypeTable
KindOf(type) == TypeTable[type]
IsTimestamp(type) == type \in {"timestampMillis", "timestampNanos"}
IsTime(type) == type \in {"timeMillis", "timeMicros", "timeNanos"}
UnitOf(type) == IF type \in {"timestampMillis", "timeMillis"} THEN "millis"
                ELSE IF type = "timeMicros" THEN "micros" ELSE "nanos"

(* The switch on typ.Kind() of the ConvertValue methods: a value of the kind *)
(* of the target is returned as it is.                                       *)
ByKind(kind, source, v) ==
    IF KindOf(source) = kind THEN v ELSE
    CASE KindOf(source) = "boolean"       -> convertBooleanTo(kind, v[3])
      [] KindOf(source) = "int32"         -> convertInt32To(kind, v[3])
      [] KindOf(source) = "int64"         -> convertInt64To(kind, v[3])
      [] KindOf(source) = "int96"         -> convertInt96To(kind, v[3])
      [] KindOf(source) = "float"         -> convertFloatTo(kind, v[3])
      [] KindOf(source) = "double"        -> convertDoubleTo(kind, v[3])
      [] OTHER                            -> convertByteArrayTo(kind, v)

(* The ConvertValue methods: the types of special sources first. *)
booleanConvertValue(source, v) ==
    IF source = "string" THEN convertStringTo("boolean", v) ELSE ByKind("boolean", source, v)
int32ConvertValue(source, v) ==
    IF source = "string" THEN convertStringTo("int32", v) ELSE ByKind("int32", source, v)
int64ConvertValue(source, v) ==
    IF source = "string" THEN convertStringTo("int64", v) ELSE ByKind("int64", source, v)
int96ConvertValue(source, v) ==
    IF source = "string" THEN convertStringTo("int96", v) ELSE ByKind("int96", source, v)
floatConvertValue(source, v) ==
    IF source = "string" THEN convertStringTo("float", v) ELSE ByKind("float", source, v)
doubleConvertValue(source, v) ==
    IF source = "string" THEN convertStringTo("double", v) ELSE ByKind("double", source, v)
fixedLenByteArrayConvertValue(source, v) ==
    IF source = "string" THEN convertStringTo("fixed", v) ELSE ByKind("fixed", source, v)

(* An array of a fixed length stays one in a column of byte arrays. *)
byteArrayConvertValue(source, v) ==
    IF KindOf(source) = "fixed" THEN v ELSE ByKind("byteArray", source, v)

stringConvertValue(source, v) ==
    CASE source = "date"         -> convertDateToString(v)
      [] source = "timeMicros"   -> convertTimeMicrosToString(v)
      [] source \in {"timeMillis", "timeNanos"} -> convertTimeMillisToString(v)
      [] OTHER                   -> convertToString(v)

dateConvertValue(source, v) ==
    CASE source = "string"   -> convertStringToDate(v)
      [] IsTimestamp(source) -> convertTimestampToDate(v, UnitOf(source))
      [] OTHER               -> int32ConvertValue(source, v)

(* Units other than microseconds convert as milliseconds. *)
timeConvertValue(unit, source, v) ==
    IF source = "string"
    THEN IF unit = "micros" THEN convertStringToTimeMicros(v) ELSE convertStringToTimeMillis(v)
    ELSE IF IsTimestamp(source)
    THEN IF unit = "micros" THEN convertTimestampToTimeMicros(v, UnitOf(source))
                            ELSE convertTimestampToTimeMillis(v, UnitOf(source))
    ELSE IF unit = "millis" THEN int32ConvertValue(source, v) ELSE int64ConvertValue(source, v)

timestampConvertValue(unit, source, v) ==
    CASE IsTimestamp(source) -> convertTimestampToTimestamp(v, UnitOf(source), unit)
      [] source = "date"     -> convertDateToTimestamp(v, unit)
      [] OTHER               -> int64ConvertValue(source, v)

jsonConvertValue(source, v) == IF source \in {"byteArray", "string", "json"} THEN v ELSE Error
enumConvertValue(source, v) == IF source \in {"byteArray", "string", "enum"} THEN v ELSE Error
geometryConvertValue(source, v) == IF source = "geometry" THEN v ELSE byteArrayConvertValue(source, v)

ConvertValue(type, source, v) ==
    CASE type = "boolean"            -> booleanConvertValue(source, v)
      [] type \in {"int32", "uint32"} -> int32ConvertValue(source, v)
      [] type \in {"int64", "uint64"} -> int64ConvertValue(source, v)
      [] type = "int96"              -> int96ConvertValue(source, v)
      [] type = "float"              -> floatConvertValue(source, v)
      [] type = "double"             -> doubleConvertValue(source, v)
      [] type = "fixed"              -> fixedLenByteArrayConvertValue(source, v)
      [] type = "byteArray"          -> byteArrayConvertValue(source, v)
      [] type = "string"             -> stringConvertValue(source, v)
      [] type = "date"               -> dateConvertValue(source, v)
      [] IsTime(type)                -> timeConvertValue(UnitOf(type), source, v)
      [] IsTimestamp(type)           -> timestampConvertValue(UnitOf(type), source, v)
      [] type = "json"               -> jsonConvertValue(source, v)
      [] type = "enum"               -> enumConvertValue(source, v)
      [] type = "geometry"           -> geometryConvertValue(source, v)

-----------------------------------------------------------------------------
(* A value written with one type and read through conversions to others. *)
VARIABLES path,     \* the types the value has had, the type it was written with first
          written,  \* the value as written
          value     \* the value now

convertVars == <<path, written, value>>

NumbersOf(type) ==
    CASE type = "boolean"                       -> {0, 1}
      [] KindOf(type) = "int32"                 -> {-2, -1, 0, 1}
      [] IsTimestamp(type)                      -> {-9, -4, -1, 0, 2, 3, 4, 15}
      [] type \in {"timeMicros", "timeNanos"}   -> {0, 1, 3}
      [] OTHER                                  -> {-16, -2, 0, 1, 6, 15}

WrittenValues(type) ==
    IF IsNumeric(KindOf(type)) THEN {<<KindOf(type), "num", n>> : n \in NumbersOf(type)}
    ELSE IF type = "string" THEN {<<"byteArray", "text", n>> : n \in {-5, -1, 0, 1, 6, 23}}
    ELSE {<<KindOf(type), "le", n>> : n \in {0, 1, 6, 31}}

ConvertInit ==
    \E type \in TypeSet :
        /\ path = <<type>>
        /\ written \in WrittenValues(type)
        /\ value = written

(* conversion.Convert calls ConvertValue of the column it reads into; an     *)
(* error ends the read.                                                      *)
ConvertTo(type) ==
    /\ Len(path) <= MaxConversions
    /\ value # Error /\ value[2] # "other"
    /\ path' = Append(path, type)
    /\ value' = ConvertValue(type, path[Len(path)], value)
    /\ UNCHANGED written

ConvertNext == \E type \in TypeSet : ConvertTo(type)
ConvertSpec == ConvertInit /\ [][ConvertNext]_convertVars

-----------------------------------------------------------------------------
Current == path[Len(path)]
Unsignedness(type) == type \in {"uint32", "uint64"}

\* The number a program sees in a value of a type.
NumberIn(type, v) == IF Unsignedness(type) /\ v[2] = "num" THEN v[3] % 2^WidthOf(KindOf(type)) ELSE v[3]

PlainTypes == {"int32", "uint32", "int64", "uint64", "int96", "float", "double",
               "byteArray", "fixed", "string"}

\* The numbers a type can hold: bytes hold the bits of an unsigned number.
CanHold(type, n) ==
    CASE type = "int32"                  -> n = Wrap(Bits32, n)
      [] type = "int64"                  -> n = Wrap(Bits64, n)
      [] type = "uint32"                 -> n = n % 2^Bits32
      [] type = "uint64"                 -> n = n % 2^Bits64
      [] type = "int96"                  -> n = Wrap(Bits96, n)
      [] type \in {"byteArray", "fixed"} -> n >= 0
      [] OTHER                           -> TRUE

(* The conversions that change a number every type on the way can hold: the  *)
(* unsigned types convert with the methods of the signed ones, which extend  *)
(* the sign; text becomes an INT96 with its bytes reversed and no sign, and  *)
(* an INT96 becomes the text of an unsigned number.                          *)
ChangesNumbers(source, type, n) ==
    \/ source = "uint32" /\ n # Wrap(Bits32, n)
    \/ source = "uint64" /\ n # Wrap(Bits64, n)
    \/ source = "string" /\ type = "int96" /\ (n < 0 \/ n > 3)
    \/ source = "int96" /\ type = "string" /\ n < 0

NumberSurvives ==
    LET n == NumberIn(path[1], written)
    IN  /\ \A i \in DOMAIN path : path[i] \in PlainTypes /\ CanHold(path[i], n)
        /\ \A i \in 1..(Len(path) - 1) : ~ ChangesNumbers(path[i], path[i + 1], n)
        /\ value # Error /\ value[2] # "other"
        => NumberIn(Current, value) = n

\* An instant stays in its day: from the epoch on, where daysSinceUnixEpoch
\* rounds down, and as long as it fits in nanoseconds.
Instant(type, v) == IF type = "date" THEN v[3] * DayLength ELSE v[3] * timeUnitDuration(UnitOf(type))

DaySurvives ==
    LET t == Instant(path[1], written)
    IN  /\ \A i \in DOMAIN path : path[i] = "date" \/ IsTimestamp(path[i])
        /\ t >= 0 /\ t < 2^(Bits64 - 1)
        => Instant(Current, value) \div DayLength = t \div DayLength

(* A value survives schema evolution: a number converted through types that  *)
(* can all hold it is refused with an error or still has that number,        *)
(* however many conversions there are and in whatever order (convert.go),    *)
(* the conversions named above apart; and an instant stays in its day        *)
(* through dates and timestamps of any unit.                                 *)
ConversionsKeepValues == NumberSurvives /\ DaySurvives
=============================================================================
