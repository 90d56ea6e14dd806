--------------------------- MODULE TypedColumns ---------------------------
(* The types of a leaf column (type_*.go) and the column buffers             *)
(* (column_buffer_<type>.go), dictionaries (dictionary_<type>.go) and pages  *)
(* (page_<type>.go) that hold their values.  How the values are laid out is  *)
(* the business of module ColumnBuffers; this module is about the VALUES:    *)
(* what a Go value becomes when it is written to the column buffer and when  *)
(* it is inserted in the dictionary of the same column, how values compare   *)
(* and which bounds a page reports.                                          *)
(*                                                                           *)
(* Integers keep a width, scaled down: W32, W64, W96 and W128 bits stand for *)
(* 32, 64, 96 and 128.  A value in a column is a pair <<form, n>>:           *)
(*   "num"  the number n in the arithmetic of the column's type;             *)
(*   "bits" the IEEE bits of the float n in the bytes of a fixed array;      *)
(*   "text" the decimal text of n;  "word" the text of the boolean n;        *)
(*   "raw"  bytes copied as they are;  "nan" a float that is not a number.   *)
(* Panic stands for the panic of the code: nothing is written.               *)
EXTENDS Integers, Sequences, FiniteSets

CONSTANTS TypeNames,      \* the types of the columns of an instance
          MaxTypedRows    \* bound: values written to a column

W32 == 2
W64 == 3
W96 == 4
W128 == 5

Unsigned(w, n) == n % 2^w
Signed(w, n) == ((n + 2^(w - 1)) % 2^w) - 2^(w - 1)
InSigned(w, n) == n = Signed(w, n)
InUnsigned(w, n) == n = Unsigned(w, n)

Num(n) == <<"num", n>>
Text(n) == <<"text", n>>
Panic == <<"panic", 0>>
NotANumber == <<"nan", 0>>

-----------------------------------------------------------------------------
(* The Go values a column may be given: a pair <<kind, n>>, where kind is    *)
(* the writeXxx or insertXxx method that receives it.  Byte arrays are the   *)
(* decimal text of a number ("digits"), sixteen bytes that are not text      *)
(* ("sixteen"), or no bytes at all ("empty").                                *)

GoInputs ==
    ({"bool"} \X {0, 1}) \cup ({"int32"} \X {-2, 1})
        \cup ({"int64"} \X {-4, 3}) \cup ({"int96"} \X {-8, 3, 7})
        \cup ({"float", "double"} \X {-1, 1}) \cup {<<"nan", 0>>}
        \cup ({"digits"} \X {-1, 1, 5})
        \cup {<<"empty", 0>>, <<"sixteen", 2>>}

Kind(g) == g[1]
N(g) == g[2]
IsNumber(g) == Kind(g) \in {"bool", "int32", "int64", "int96", "float", "double"}
IsFloat(g) == Kind(g) \in {"float", "double", "nan"}

(* A float that is not a number, or out of the range of an integer type,     *)
(* converts to a value that Go leaves to the implementation: the columns     *)
(* below leave it out.                                                       *)
Convertible(name, g) ==
    ~ (Kind(g) = "nan" /\ name \in {"int32", "int64", "int96", "uint32", "uint64"})

(* strconv.ParseInt and ParseUint, of the text of a number, in a bit size. *)
ParseInt(w, g) == IF Kind(g) = "digits" /\ InSigned(w, N(g)) THEN Num(N(g)) ELSE Panic
ParseUint(w, g) == IF Kind(g) = "digits" /\ InUnsigned(w, N(g)) THEN Num(N(g)) ELSE Panic
ParseFloat(g) == IF Kind(g) = "digits" THEN Num(N(g)) ELSE Panic

-----------------------------------------------------------------------------
(* Column buffers: the values of a buffer after one of its writeXxx methods  *)
(* was given a Go value.  A panic leaves it as it was.                       *)
AppendValue(values, v) ==
    IF v = Panic THEN [panics |-> TRUE, values |-> values]
                 ELSE [panics |-> FALSE, values |-> Append(values, v)]

int32ColumnBuffer(values, g) ==
    AppendValue(values, IF IsNumber(g) THEN Num(Signed(W32, N(g))) ELSE ParseInt(W32, g))

int64ColumnBuffer(values, g) ==
    AppendValue(values, IF IsNumber(g) THEN Num(Signed(W64, N(g))) ELSE ParseInt(W64, g))

(* Int96 parses byte arrays of any length with math/big but keeps 64 bits. *)
ParseInt96(g) == IF Kind(g) = "digits" THEN Num(Signed(W64, N(g))) ELSE Panic

int96ColumnBuffer(values, g) ==
    AppendValue(values, IF IsNumber(g) THEN Num(Signed(W96, N(g))) ELSE ParseInt96(g))

uint32ColumnBuffer(values, g) ==
    AppendValue(values, IF IsNumber(g) THEN Num(Unsigned(W32, N(g))) ELSE ParseUint(W32, g))

(* An INT96 loses all but its low 32 bits; byte arrays parse as 32 bits. *)
uint64ColumnBuffer(values, g) ==
    AppendValue(values,
        IF Kind(g) = "int96" THEN Num(Unsigned(W64, Signed(W32, N(g))))
        ELSE IF IsNumber(g) THEN Num(Unsigned(W64, N(g))) ELSE ParseUint(W32, g))

(* The write methods shared by the two float buffers. *)
FloatWrite(g) ==
    IF Kind(g) = "nan" THEN NotANumber
    ELSE IF Kind(g) = "int96" THEN Num(Signed(W32, N(g)))
    ELSE IF IsNumber(g) THEN Num(N(g)) ELSE ParseFloat(g)

floatColumnBuffer(values, g) == AppendValue(values, FloatWrite(g))

doubleColumnBuffer(values, g) == AppendValue(values, FloatWrite(g))

(* A boolean column keeps whether the value is zero, or empty. *)
booleanColumnBuffer(values, g) ==
    AppendValue(values,
        IF IsNumber(g) THEN Num(IF N(g) = 0 THEN 0 ELSE 1)
                       ELSE Num(IF Kind(g) = "empty" THEN 0 ELSE 1))

(* The big-endian bytes of a number at the end of an array of the given      *)
(* size (in bits): the bytes before it are zero whatever its sign.           *)
BigEndian(size, g) ==
    LET width == CASE Kind(g) = "bool" -> 1
                   [] Kind(g) \in {"int32", "float", "nan"} -> W32
                   [] Kind(g) \in {"int64", "double"} -> W64
                   [] OTHER -> W96
    IN  IF width > size THEN Panic
        ELSE IF IsFloat(g) THEN <<"bits", N(g)>> ELSE Num(Unsigned(width, N(g)))

be128ColumnBuffer(values, g) ==
    AppendValue(values,
        CASE IsNumber(g) \/ IsFloat(g) -> BigEndian(W128, g)
          [] Kind(g) = "sixteen"       -> <<"raw", N(g)>>
          [] OTHER                     -> Panic)

(* A FIXED_LEN_BYTE_ARRAY of four bytes: the arrays of other lengths panic. *)
fixedLenByteArrayColumnBuffer(values, g) ==
    AppendValue(values, IF IsNumber(g) \/ IsFloat(g) THEN BigEndian(W32, g) ELSE Panic)

(* strconv.Append of the value; Int96.Int reads an INT96 as unsigned. *)
byteArrayColumnBuffer(values, g) ==
    AppendValue(values,
        CASE Kind(g) = "bool"                    -> <<"word", N(g)>>
          [] Kind(g) = "int96"                   -> Text(Unsigned(W96, N(g)))
          [] Kind(g) = "nan"                     -> NotANumber
          [] Kind(g) \in {"empty", "sixteen"}    -> <<"raw", N(g)>>
          [] OTHER                               -> Text(N(g)))

-----------------------------------------------------------------------------
(* Dictionaries: the values of a dictionary after one of its insertXxx       *)
(* methods was given a Go value, and the index it returns: that of the value *)
(* if the hash table has it, the next one otherwise.                         *)
PositionIn(values, v) == CHOOSE i \in DOMAIN values : values[i] = v
Insert(dict, v) ==
    CASE v = Panic                        -> [panics |-> TRUE, values |-> dict, index |-> 0]
      [] \E i \in DOMAIN dict : dict[i] = v -> [panics |-> FALSE, values |-> dict, index |-> PositionIn(dict, v)]
      [] OTHER -> [panics |-> FALSE, values |-> Append(dict, v), index |-> Len(dict) + 1]

\* Mutant: the bits of the value are read without their sign.
int32DictionaryUnsigned(dict, g) ==
    Insert(dict, IF IsNumber(g) THEN Num(Unsigned(W32, N(g))) ELSE ParseInt(W32, g))

int32Dictionary(dict, g) ==
    Insert(dict, IF IsNumber(g) THEN Num(Signed(W32, N(g))) ELSE ParseInt(W32, g))

(* Booleans are refused, where the column buffer stores zero or one. *)
int64Dictionary(dict, g) ==
    Insert(dict,
        IF Kind(g) = "bool" THEN Panic
        ELSE IF IsNumber(g) THEN Num(Signed(W64, N(g))) ELSE ParseInt(W64, g))

(* An INT32 becomes the low word of the INT96 with no sign extension. *)
int96Dictionary(dict, g) ==
    Insert(dict,
        IF Kind(g) = "int32" THEN Num(Unsigned(W32, N(g)))
        ELSE IF IsNumber(g) THEN Num(Signed(W96, N(g))) ELSE ParseInt96(g))

uint32Dictionary(dict, g) ==
    Insert(dict, IF IsNumber(g) THEN Num(Unsigned(W32, N(g))) ELSE ParseUint(W32, g))

uint64Dictionary(dict, g) ==
    Insert(dict,
        IF Kind(g) = "int96" THEN Num(Unsigned(W64, Signed(W64, N(g))))
        ELSE IF IsNumber(g) THEN Num(Unsigned(W64, N(g))) ELSE ParseUint(W32, g))

(* The float dictionaries parse byte arrays as unsigned 32-bit integers. *)
floatDictionary(dict, g) ==
    Insert(dict,
        IF Kind(g) = "nan" THEN NotANumber
        ELSE IF Kind(g) = "int96" THEN Num(Signed(W32, N(g)))
        ELSE IF IsNumber(g) THEN Num(N(g)) ELSE ParseUint(W32, g))

doubleDictionary(dict, g) ==
    Insert(dict,
        IF Kind(g) = "nan" THEN NotANumber
        ELSE IF Kind(g) = "int96" THEN Num(Signed(W64, N(g)))
        ELSE IF IsNumber(g) THEN Num(N(g)) ELSE ParseUint(W32, g))

booleanDictionary(dict, g) ==
    Insert(dict,
        IF IsNumber(g) THEN Num(IF N(g) = 0 THEN 0 ELSE 1)
                       ELSE Num(IF Kind(g) = "empty" THEN 0 ELSE 1))

be128Dictionary(dict, g) ==
    Insert(dict,
        CASE IsNumber(g) \/ IsFloat(g) -> BigEndian(W128, g)
          [] Kind(g) = "sixteen"       -> <<"raw", N(g)>>
          [] OTHER                     -> Panic)

fixedLenByteArrayDictionary(dict, g) ==
    Insert(dict, IF IsNumber(g) \/ IsFloat(g) THEN BigEndian(W32, g) ELSE Panic)

byteArrayDictionary(dict, g) ==
    Insert(dict,
        CASE Kind(g) = "bool"                    -> <<"word", N(g)>>
          [] Kind(g) = "int96"                   -> Text(Unsigned(W96, N(g)))
          [] Kind(g) = "nan"                     -> NotANumber
          [] Kind(g) \in {"empty", "sixteen"}    -> <<"raw", N(g)>>
          [] OTHER                               -> Text(N(g)))

-----------------------------------------------------------------------------
(* How values compare.  Numbers compare by value, and a float that is not a  *)
(* number compares neither less nor greater; byte arrays compare byte by     *)
(* byte; binary decimals compare as signed big-endian integers.              *)

(* The place of a byte array in the order of bytes.Compare: no bytes, texts  *)
(* ('-', digits, '.', letters), and the bytes of numbers.                    *)
BytesKey(v) ==
    CASE v[1] = "num"             -> v[2]
      [] v[1] = "bits"            -> IF v[2] < 0 THEN 70 - v[2] ELSE 50 + v[2]
      [] v[1] = "text"            -> IF v[2] < 0 THEN -200 - v[2] ELSE 10 * v[2]
      [] v = <<"raw", 0>>         -> -300
      [] v[1] = "nan"             -> 800
      [] v[1] = "word"            -> 900 + v[2]
      [] OTHER                    -> 1000

(* compareDecimalByteArrays: the sign bit first, then the bytes. *)
compareDecimalByteArrays(w, v) == IF v[1] = "num" THEN Signed(w, v[2]) ELSE BytesKey(v)

Less(order, u, v) ==
    CASE order = "number"    -> u[1] # "nan" /\ v[1] # "nan" /\ u[2] < v[2]
      [] order = "bytes"     -> BytesKey(u) < BytesKey(v)
      [] order = "decimal32" -> compareDecimalByteArrays(W32, u) < compareDecimalByteArrays(W32, v)
      [] OTHER               -> compareDecimalByteArrays(W128, u) < compareDecimalByteArrays(W128, v)

Elements(vals) == {vals[i] : i \in DOMAIN vals}

(* min and max of the minXxx, maxXxx and boundsXxx kernels: the least and    *)
(* the greatest element.                                                     *)
MinMax(order, S) ==
    << CHOOSE v \in S : \A u \in S : ~ Less(order, u, v),
       CHOOSE v \in S : \A u \in S : ~ Less(order, v, u) >>

(* A page of values: what its readers return and the bounds it reports. *)
PageOf(vals, bounds) == [values |-> vals, bounds |-> bounds]

int32Page(vals) == PageOf(vals, MinMax("number", Elements(vals)))

int64Page(vals) == PageOf(vals, MinMax("number", Elements(vals)))

int96Page(vals) == PageOf(vals, MinMax("number", Elements(vals)))

uint32Page(vals) == PageOf(vals, MinMax("number", Elements(vals)))

uint64Page(vals) == PageOf(vals, MinMax("number", Elements(vals)))

(* Floats skip what is not a number unless there is nothing else. *)
FloatPageBounds(vals) ==
    LET numbers == Elements(vals) \ {NotANumber}
    IN  IF numbers = {} THEN <<vals[1], vals[1]>> ELSE MinMax("number", numbers)

floatPage(vals) == PageOf(vals, FloatPageBounds(vals))

doublePage(vals) == PageOf(vals, FloatPageBounds(vals))

booleanPage(vals) ==
    PageOf(vals, << Num(IF Num(0) \in Elements(vals) THEN 0 ELSE 1),
                    Num(IF Num(1) \in Elements(vals) THEN 1 ELSE 0) >>)

be128Page(vals) == PageOf(vals, MinMax("bytes", Elements(vals)))

fixedLenByteArrayPage(vals) == PageOf(vals, MinMax("bytes", Elements(vals)))

byteArrayPage(vals) == PageOf(vals, MinMax("bytes", Elements(vals)))

decimalPage(order, vals) == PageOf(vals, MinMax(order, Elements(vals)))

(* dictionary.Bounds: a scan of the indexed values from the first one, which *)
(* is kept when it is not a number.                                          *)
dictionaryBounds(order, vals) ==
    IF vals[1] = NotANumber /\ order = "number" THEN <<vals[1], vals[1]>>
    ELSE MinMax(order, IF order = "number" THEN Elements(vals) \ {NotANumber} ELSE Elements(vals))

\* Mutant: the bounds of the dictionary that the decimal one embeds.
decimalDictionaryInherited(order, vals) == dictionaryBounds("bytes", vals)

(* decimalDictionary.Bounds overrides it with the signed order. *)
decimalDictionary(order, vals) == dictionaryBounds(order, vals)

-----------------------------------------------------------------------------
(* The types.  storage names the buffer, dictionary and page, pages the      *)
(* order their bounds follow, compare the order of Type.Compare.             *)

TypeOf(storage, order) == [storage |-> storage, pages |-> order, compare |-> order]

booleanType == TypeOf("boolean", "number")
int32Type == TypeOf("int32", "number")
uint32Type == TypeOf("uint32", "number")
int64Type == TypeOf("int64", "number")
uint64Type == TypeOf("uint64", "number")
int96Type == TypeOf("int96", "number")
floatType == TypeOf("float", "number")
doubleType == TypeOf("double", "number")
byteArrayType == TypeOf("byteArray", "bytes")
fixedLenByteArrayType == TypeOf("fixedLenByteArray", "bytes")
be128Type == TypeOf("be128", "bytes")
stringType == TypeOf("byteArray", "bytes")
enumType == stringType
jsonType == byteArrayType
bsonType == byteArrayType
geometryType == byteArrayType
geographyType == byteArrayType
uuidType == be128Type
intervalType == fixedLenByteArrayType
dateType == int32Type
timestampType == int64Type
timeType(micros) == IF micros THEN int64Type ELSE int32Type
intType(width, signed) ==
    IF width = W64 THEN IF signed THEN int64Type ELSE uint64Type
                   ELSE IF signed THEN int32Type ELSE uint32Type

(* A decimal over byte arrays wraps the buffer, the page and the dictionary  *)
(* of its physical type; over integers it is that type.                      *)
decimalType(base) ==
    CASE base.storage = "fixedLenByteArray" -> TypeOf(base.storage, "decimal32")
      [] base.storage = "be128"             -> TypeOf(base.storage, "decimal128")
      [] OTHER                              -> base

Types ==
    [boolean |-> booleanType, int32 |-> int32Type, uint32 |-> intType(W32, FALSE),
     int64 |-> int64Type, uint64 |-> intType(W64, FALSE), int96 |-> int96Type,
     float |-> floatType, double |-> doubleType, byteArray |-> byteArrayType,
     fixed |-> fixedLenByteArrayType, be128 |-> be128Type,
     string |-> stringType, enum |-> enumType, json |-> jsonType, bson |-> bsonType,
     geometry |-> geometryType, geography |-> geographyType, uuid |-> uuidType,
     interval |-> intervalType, date |-> dateType, timestamp |-> timestampType,
     timeMillis |-> timeType(FALSE), timeMicros |-> timeType(TRUE),
     decimalInt |-> decimalType(int32Type), decimal32 |-> decimalType(fixedLenByteArrayType),
     decimal128 |-> decimalType(be128Type)]

ASSUME TypedAssumption == TypeNames \subseteq DOMAIN Types

(* What the column buffer and the dictionary of a storage make of a value. *)
BufferWrite(storage, values, g) ==
    CASE storage = "boolean"           -> booleanColumnBuffer(values, g)
      [] storage = "int32"             -> int32ColumnBuffer(values, g)
      [] storage = "uint32"            -> uint32ColumnBuffer(values, g)
      [] storage = "int64"             -> int64ColumnBuffer(values, g)
      [] storage = "uint64"            -> uint64ColumnBuffer(values, g)
      [] storage = "int96"             -> int96ColumnBuffer(values, g)
      [] storage = "float"             -> floatColumnBuffer(values, g)
      [] storage = "double"            -> doubleColumnBuffer(values, g)
      [] storage = "byteArray"         -> byteArrayColumnBuffer(values, g)
      [] storage = "fixedLenByteArray" -> fixedLenByteArrayColumnBuffer(values, g)
      [] storage = "be128"             -> be128ColumnBuffer(values, g)

DictionaryInsert(storage, dict, g) ==
    CASE storage = "boolean"           -> booleanDictionary(dict, g)
      [] storage = "int32"             -> int32Dictionary(dict, g)
      [] storage = "uint32"            -> uint32Dictionary(dict, g)
      [] storage = "int64"             -> int64Dictionary(dict, g)
      [] storage = "uint64"            -> uint64Dictionary(dict, g)
      [] storage = "int96"             -> int96Dictionary(dict, g)
      [] storage = "float"             -> floatDictionary(dict, g)
      [] storage = "double"            -> doubleDictionary(dict, g)
      [] storage = "byteArray"         -> byteArrayDictionary(dict, g)
      [] storage = "fixedLenByteArray" -> fixedLenByteArrayDictionary(dict, g)
      [] storage = "be128"             -> be128Dictionary(dict, g)

TypedPage(type, vals) ==
    IF type.pages \notin {"bytes", "number"} THEN decimalPage(type.pages, vals) ELSE
    CASE type.storage = "boolean"           -> booleanPage(vals)
      [] type.storage = "int32"             -> int32Page(vals)
      [] type.storage = "uint32"            -> uint32Page(vals)
      [] type.storage = "int64"             -> int64Page(vals)
      [] type.storage = "uint64"            -> uint64Page(vals)
      [] type.storage = "int96"             -> int96Page(vals)
      [] type.storage = "float"             -> floatPage(vals)
      [] type.storage = "double"            -> doublePage(vals)
      [] type.storage = "byteArray"         -> byteArrayPage(vals)
      [] type.storage = "fixedLenByteArray" -> fixedLenByteArrayPage(vals)
      [] type.storage = "be128"             -> be128Page(vals)

DictionaryBounds(type, vals) ==
    IF type.pages \in {"decimal32", "decimal128"} THEN decimalDictionary(type.pages, vals)
                                                  ELSE dictionaryBounds(type.pages, vals)

-----------------------------------------------------------------------------
(* A column of the writer: values go to the dictionary until the writer      *)
(* falls back to plain pages (ColumnWriter.fallbackDictionaryToPlain), then  *)
(* to the column buffer.                                                     *)
VARIABLES typeName,    \* the type of the column, one of TypeNames
          given,       \* the Go values written, in order
          typedDict,   \* the values of the dictionary
          typedIndex,  \* the indexes written before the fallback
          typedPlain,  \* the values written after it
          encoding     \* "dictionary" or "plain"

typedVars == <<typeName, given, typedDict, typedIndex, typedPlain, encoding>>

TypedInitOn(names) ==
    /\ typeName \in names
    /\ given = <<>>
    /\ typedDict = <<>>
    /\ typedIndex = <<>>
    /\ typedPlain = <<>>
    /\ encoding = "dictionary"

TypedInit == TypedInitOn(TypeNames)

(* indexedColumnBuffer.writeXxx; a panic leaves the column as it was. *)
WriteIndexed ==
    /\ encoding = "dictionary"
    /\ Len(given) < MaxTypedRows
    /\ \E g \in GoInputs :
          LET d == DictionaryInsert(Types[typeName].storage, typedDict, g)
          IN  /\ Convertible(Types[typeName].storage, g)
              /\ ~ d.panics
              /\ given' = Append(given, g)
              /\ typedDict' = d.values
              /\ typedIndex' = Append(typedIndex, d.index)
    /\ UNCHANGED <<typeName, typedPlain, encoding>>

(* The same write on the column buffer of the plain pages. *)
WritePlain ==
    /\ encoding = "plain"
    /\ Len(given) < MaxTypedRows
    /\ \E g \in GoInputs :
          LET b == BufferWrite(Types[typeName].storage, typedPlain, g)
          IN  /\ Convertible(Types[typeName].storage, g)
              /\ ~ b.panics
              /\ given' = Append(given, g)
              /\ typedPlain' = b.values
    /\ UNCHANGED <<typeName, typedDict, typedIndex, encoding>>

FallBack ==
    /\ encoding = "dictionary"
    /\ encoding' = "plain"
    /\ UNCHANGED <<typeName, given, typedDict, typedIndex, typedPlain>>

TypedNext == WriteIndexed \/ WritePlain \/ FallBack
TypedSpec == TypedInit /\ [][TypedNext]_typedVars

-----------------------------------------------------------------------------
IndexedValues == [i \in DOMAIN typedIndex |-> typedDict[typedIndex[i]]]
ColumnValues == IndexedValues \o typedPlain

(* The writes that store a different value before and after the fallback:    *)
(* an INT32 below zero in an INT96 column, an INT96 above 32 bits in an      *)
(* unsigned 64-bit or a DOUBLE column.                                       *)
KnownToDiffer(storage, g) ==
    \/ storage = "int96" /\ Kind(g) = "int32" /\ N(g) < 0
    \/ storage \in {"uint64", "double"} /\ Kind(g) = "int96" /\ ~ InSigned(W32, N(g))

(* The fallback from a dictionary to plain pages does not change what the    *)
(* program writes: equal Go values are equal values of the column, whichever *)
(* of the two encodings stored them (dictionary_<type>.go insertXxx against  *)
(* column_buffer_<type>.go writeXxx), the writes named above apart.          *)
FallbackKeepsValues ==
    \A i, j \in DOMAIN given :
        given[i] = given[j] /\ ~ KnownToDiffer(Types[typeName].storage, given[i])
            => ColumnValues[i] = ColumnValues[j]

Covers(type, vals, bounds) ==
    \A i \in DOMAIN vals : ~ Less(type.compare, vals[i], bounds[1]) /\ ~ Less(type.compare, bounds[2], vals[i])

NumbersAreBounded(type, vals, bounds) ==
    type.compare = "number" /\ NotANumber \in Elements(bounds) => Elements(vals) = {NotANumber}

(* The bounds cover the page: no value of a page is less than its min or     *)
(* greater than its max in the order of the column's type (Type.Compare),    *)
(* which readers use to skip pages; and NaN does not hide numbers: bounds    *)
(* are not numbers only when no value of the page is a number (the comment   *)
(* of floatPage.Bounds).  The second part leaves out a dictionary page whose *)
(* first value is not a number, which dictionaryBounds keeps.                *)
BoundsCoverPages ==
    LET type == Types[typeName]
        plain == TypedPage(type, typedPlain)
        indexed == DictionaryBounds(type, IndexedValues)
    IN  /\ typedPlain # <<>> => /\ Covers(type, typedPlain, plain.bounds)
                                /\ NumbersAreBounded(type, typedPlain, plain.bounds)
        /\ IndexedValues # <<>> => /\ Covers(type, IndexedValues, indexed)
                                   /\ \/ IndexedValues[1] = NotANumber
                                      \/ NumbersAreBounded(type, IndexedValues, indexed)
=============================================================================
