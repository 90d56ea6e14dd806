----------------------------- MODULE Shredding -----------------------------
(* How Go values become columns and columns become Go values.  Three paths   *)
(* write: Deconstruct (row.go) makes rows of values, WriteValue              *)
(* (column_buffer_reflect.go) follows the schema through reflection, and     *)
(* WriteRows (column_buffer_write.go) follows the Go type over a batch of    *)
(* rows.  Reconstruct (row.go) reads.                                        *)
(*                                                                           *)
(* A node is [k, of, ptr]: a leaf ("int" or "time"), "optional", "repeated", *)
(* "list", "map" (of a key and a value) or "group"; ptr tells whether the Go *)
(* type of an optional node is a pointer.  A Go value is [k, n, vs].  A      *)
(* column is a sequence of [v, r, d], and Absent below the definition level  *)
(* of the leaf.                                                              *)
EXTENDS Integers, Sequences, FiniteSets, SequencesExt

CONSTANTS Schemas,     \* the schemas written, each a group
          MaxBatch,    \* bound: rows of a batch
          WordSize     \* bits in a word of the null bitmap (64)

ASSUME ShredAssumption == WordSize \in Nat \ {0} /\ MaxBatch \in Nat

Absent == -1

Leaf == [k |-> "int", of |-> <<>>, ptr |-> FALSE]
Time == [k |-> "time", of |-> <<>>, ptr |-> FALSE]
Optional(n) == [k |-> "optional", of |-> <<n>>, ptr |-> FALSE]
Pointer(n) == [k |-> "optional", of |-> <<n>>, ptr |-> TRUE]
Repeated(n) == [k |-> "repeated", of |-> <<n>>, ptr |-> FALSE]
List(n) == [k |-> "list", of |-> <<n>>, ptr |-> FALSE]
MapOf(key, value) == [k |-> "map", of |-> <<key, value>>, ptr |-> FALSE]
Group(fields) == [k |-> "group", of |-> fields, ptr |-> FALSE]
KeyValue(node) == Group(node.of)
IsLeaf(node) == node.k \in {"int", "time"}

Go(k, n, vs) == [k |-> k, n |-> n, vs |-> vs]
Invalid == Go("invalid", 0, <<>>)
Nil == Go("nil", 0, <<>>)

RECURSIVE isNullValue(_)
isNullValue(v) ==
    \/ v.k \in {"invalid", "nil"}
    \/ v.k = "int" /\ v.n = 0
    \/ v.k = "struct" /\ \A i \in DOMAIN v.vs : isNullValue(v.vs[i])

RECURSIVE Zero(_)
Zero(node) ==
    CASE IsLeaf(node)                           -> Go("int", 0, <<>>)
      [] node.k = "optional" /\ ~node.ptr       -> Zero(node.of[1])
      [] node.k = "group"                       -> Go("struct", 0, [i \in DOMAIN node.of |-> Zero(node.of[i])])
      [] OTHER                                  -> Nil

-----------------------------------------------------------------------------
(* Columns.  Cat appends what was written second to what was written first.  *)

Levels(r, depth, d) == [r |-> r, depth |-> depth, d |-> d]
Deeper(lv) == [lv EXCEPT !.depth = @ + 1, !.d = @ + 1]
Defined(lv) == [lv EXCEPT !.d = @ + 1]
\* Mutant: an element repeats at the level of the list above.
AgainAbove(lv) == [lv EXCEPT !.r = IF lv.depth > 1 THEN lv.depth - 1 ELSE lv.depth]

Again(lv) == [lv EXCEPT !.r = lv.depth]

Cat(a, b) == [i \in DOMAIN a |-> a[i] \o b[i]]
CatAll(parts) == FoldLeft(Cat, parts[1], Tail(parts))

RECURSIVE numLeafColumns(_)
numLeafColumns(node) ==
    IF IsLeaf(node) THEN 1
    ELSE FoldLeft(LAMBDA n, f : n + numLeafColumns(f), 0, node.of)

\* A value whose definition level is not the maximum is stored as a null.
Entry(lv, max, v) ==
    << <<[v |-> IF lv.d = max /\ v.k = "int" THEN v.n ELSE Absent, r |-> lv.r, d |-> lv.d]>> >>

-----------------------------------------------------------------------------
(* Deconstruct.  max is the definition level of the node in the schema; keys *)
(* of a map are visited in the order of the runtime (backward, or forward).  *)

Visited(m, backward) == IF backward THEN Reverse(m.vs) ELSE m.vs

Required(node) == IF node.k \in {"optional", "repeated"} THEN node.of[1] ELSE node

RECURSIVE Deconstruct(_, _, _, _, _)

\* The first element keeps the repetition level, the others repeat.
deconstructElements(elem, max, lv, vs, backward) ==
    CatAll([i \in DOMAIN vs |->
               Deconstruct(elem, max, IF i = 1 THEN Deeper(lv) ELSE Again(Deeper(lv)), vs[i], backward)])

deconstructOptional(node, max, lv, val, backward) ==
    IF isNullValue(val) THEN Deconstruct(node.of[1], max + 1, lv, Invalid, backward)
    ELSE Deconstruct(node.of[1], max + 1, Defined(lv),
                     IF val.k = "ptr" THEN val.vs[1] ELSE val, backward)

deconstructRepeated(elem, max, lv, val, backward) ==
    IF val.vs = <<>> THEN Deconstruct(elem, max + 1, lv, Invalid, backward)
    ELSE deconstructElements(elem, max + 1, lv, val.vs, backward)

(* The element of a list is wrapped in Repeated, then in Required: an        *)
(* optional element is treated as required, below the level the column has.  *)
deconstructList(node, max, lv, val, backward) ==
    LET elem == node.of[1]
    IN  IF elem.k = "optional" THEN deconstructRepeated(Required(elem), max + 1, lv, val, backward)
                               ELSE deconstructRepeated(elem, max, lv, val, backward)

deconstructMap(node, max, lv, val, backward) ==
    IF val.vs = <<>> THEN Deconstruct(KeyValue(node), max + 1, lv, Invalid, backward)
    ELSE deconstructElements(KeyValue(node), max + 1, lv, Visited(val, backward), backward)

deconstructGroup(node, max, lv, val, backward) ==
    FlattenSeq([i \in DOMAIN node.of |->
        Deconstruct(node.of[i], max, lv, IF val.k = "invalid" THEN val ELSE val.vs[i], backward)])

Deconstruct(node, max, lv, val, backward) ==
    CASE node.k = "optional" -> deconstructOptional(node, max, lv, val, backward)
      [] node.k = "repeated" -> deconstructRepeated(node.of[1], max, lv, val, backward)
      [] node.k = "list"     -> deconstructList(node, max, lv, val, backward)
      [] node.k = "map"      -> deconstructMap(node, max, lv, val, backward)
      [] node.k = "group"    -> deconstructGroup(node, max, lv, val, backward)
      [] OTHER               -> Entry(lv, max, val)

-----------------------------------------------------------------------------
(* WriteValue: by reflection.  A null keeps its Go value, an empty map is    *)
(* written as a zero pair, and every case follows pointers.                  *)

RECURSIVE WriteValue(_, _, _, _, _)

RECURSIVE Indirect(_)
Indirect(val) == IF val.k = "ptr" THEN Indirect(val.vs[1]) ELSE val

writeValueElements(elem, max, lv, vs, backward) ==
    CatAll([i \in DOMAIN vs |->
               WriteValue(elem, max, IF i = 1 THEN Deeper(lv) ELSE Again(Deeper(lv)), vs[i], backward)])

writeValueOptional(node, max, lv, val, backward) ==
    WriteValue(node.of[1], max + 1, IF isNullValue(val) THEN lv ELSE Defined(lv), val, backward)

writeValueRepeated(elem, max, lv, val, backward) ==
    LET slice == Indirect(val)
    IN  IF slice.vs = <<>> THEN WriteValue(elem, max + 1, lv, Invalid, backward)
        ELSE writeValueElements(elem, max + 1, lv, slice.vs, backward)

writeValueMap(node, max, lv, val, backward) ==
    LET m == Indirect(val)
    IN  IF m.vs = <<>> THEN WriteValue(KeyValue(node), max + 1, lv, Zero(KeyValue(node)), backward)
        ELSE writeValueElements(KeyValue(node), max + 1, lv, Visited(m, backward), backward)

writeValueGroup(node, max, lv, val, backward) ==
    LET struct == Indirect(val)
    IN  FlattenSeq([i \in DOMAIN node.of |->
            WriteValue(node.of[i], max, lv, IF struct.k = "struct" THEN struct.vs[i] ELSE Invalid, backward)])

WriteValue(node, max, lv, val, backward) ==
    CASE node.k = "optional" -> writeValueOptional(node, max, lv, val, backward)
      [] node.k \in {"repeated", "list"} -> writeValueRepeated(node.of[1], max, lv, val, backward)
      [] node.k = "map"      -> writeValueMap(node, max, lv, val, backward)
      [] node.k = "group"    -> writeValueGroup(node, max, lv, val, backward)
      [] OTHER               -> Entry(lv, max, Indirect(val))

-----------------------------------------------------------------------------
(* WriteRows: a batch of rows of one Go type; no rows at all is a null.      *)

RECURSIVE WriteRows(_, _, _, _)

\* One call for each row, cut out of the batch.
EachRow(rows, Write(_)) == CatAll([i \in DOMAIN rows |-> Write(rows[i])])

FirstWhere(Test(_), from, to) ==
    IF \E p \in from..(to - 1) : Test(p)
    THEN CHOOSE p \in from..(to - 1) : Test(p) /\ \A q \in from..(p - 1) : ~ Test(q) ELSE to

(* The loop over the bitmap of the rows that are not null: it looks for the  *)
(* end of a run of nulls, then for the end of the run of values behind it.   *)
(* When the rest of the word looks like y ones the search goes on with the   *)
(* next word.                                                                *)
RECURSIVE NullRuns(_, _)
NullRuns(nulls, i) ==
    LET n == Len(nulls)
        words == (n + WordSize - 1) \div WordSize
        Set(p) == p < n /\ ~ nulls[p + 1]
        Clear(p) == ~ Set(p)
        at == FirstWhere(Set, i, words * WordSize)
        x == at \div WordSize
        y == at % WordSize
        word == (x + 1) * WordSize
        looksFull == \A p \in at..(word - 1) : Set(p) <=> p < at + y
        to == IF y # 0 /\ ~ looksFull THEN FirstWhere(Clear, at, word)
              ELSE FirstWhere(Clear, IF y = 0 THEN at ELSE word, words * WordSize)
        least(a, b) == IF a < b THEN a ELSE b
        from == least(at, n)
        end == least(to, n)
    IN  IF i >= n THEN <<>>
        ELSE << <<i, from, TRUE>>, <<from, end, FALSE>> >> \o NullRuns(nulls, IF from < end THEN end ELSE from)

\* Mutant: only pointers are looked at.
nullIndexOfPointers(node, rows) == [i \in DOMAIN rows |-> node.ptr /\ isNullValue(rows[i])]

nullIndex(node, rows) ==
    [i \in DOMAIN rows |-> node.of[1].k # "group" /\ isNullValue(rows[i])]

writeRowsOptional(node, max, lv, rows) ==
    LET inner == node.of[1]
        runs == SelectSeq(NullRuns(nullIndex(node, rows), 0), LAMBDA run : run[1] < run[2])
    IN  CASE rows = <<>> -> WriteRows(inner, max + 1, lv, rows)
          [] inner.k = "list" ->
                 EachRow(rows, LAMBDA row : WriteRows(inner, max + 1,
                                                IF row.k = "nil" THEN lv ELSE Defined(lv), <<row>>))
          [] OTHER ->
                 CatAll([i \in DOMAIN runs |->
                            WriteRows(inner, max + 1, IF runs[i][3] THEN lv ELSE Defined(lv),
                                      SubSeq(rows, runs[i][1] + 1, runs[i][2]))])

writeRowsPointer(node, max, lv, rows) ==
    IF rows = <<>> THEN WriteRows(node.of[1], max + 1, lv, rows)
    ELSE EachRow(rows, LAMBDA row : IF row.k = "nil" THEN WriteRows(node.of[1], max + 1, lv, <<>>)
                                    ELSE WriteRows(node.of[1], max + 1, Defined(lv), row.vs))

(* An optional time of a struct looks for zero times itself, unless the      *)
(* definition level is above zero: then a pointer is supposed to have done   *)
(* it.                                                                       *)
writeRowsTime(node, max, lv, rows) ==
    IF rows = <<>> \/ lv.d > 0 THEN WriteRows(node.of[1], max + 1, lv, rows)
    ELSE EachRow(rows, LAMBDA row : IF isNullValue(row) THEN WriteRows(node.of[1], max + 1, lv, <<>>)
                                    ELSE WriteRows(node.of[1], max + 1, Defined(lv), <<row>>))

writeRowsSlice(node, max, lv, rows) ==
    LET elem == node.of[1]
        Elements(m, l, vs) == IF elem.k = "optional" /\ ~ elem.ptr THEN writeRowsOptional(elem, m, l, vs)
                                                                  ELSE WriteRows(elem, m, l, vs)
        deep == [lv EXCEPT !.depth = @ + 1]
    IN  IF rows = <<>> THEN Elements(max + 1, lv, rows)
        ELSE EachRow(rows, LAMBDA row :
                CASE row.vs = <<>>     -> Elements(max + 1, deep, <<>>)
                  [] Len(row.vs) = 1   -> Elements(max + 1, Defined(deep), row.vs)
                  [] OTHER -> Cat(Elements(max + 1, Defined(deep), SubSeq(row.vs, 1, 1)),
                                  Elements(max + 1, Again(Defined(deep)), Tail(row.vs))))

(* The pairs of a map are sorted by their keys, and keys and values are      *)
(* written separately.                                                       *)
writeRowsMap(node, max, lv, rows) ==
    LET Half(h, l, vs) == WriteRows(node.of[h], max + 1, l, [i \in DOMAIN vs |-> vs[i].vs[h]])
        Pairs(l, vs) == Half(1, l, vs) \o Half(2, l, vs)
        deep == [lv EXCEPT !.depth = @ + 1]
    IN  IF rows = <<>> THEN Pairs(lv, rows)
        ELSE EachRow(rows, LAMBDA row :
                CASE row.vs = <<>>     -> Pairs(deep, <<>>)
                  [] Len(row.vs) = 1   -> Pairs(Defined(deep), row.vs)
                  [] OTHER -> Cat(Pairs(Defined(deep), SubSeq(row.vs, 1, 1)),
                                  Pairs(Again(Defined(deep)), Tail(row.vs))))

writeRowsStruct(node, max, lv, rows) ==
    FlattenSeq([f \in DOMAIN node.of |->
        WriteRows(node.of[f], max, lv, [i \in DOMAIN rows |-> rows[i].vs[f]])])

writeRowsRequired(max, lv, rows) ==
    IF rows = <<>> THEN Entry(lv, max, Invalid)
    ELSE EachRow(rows, LAMBDA row : Entry(lv, max, row))

WriteRows(node, max, lv, rows) ==
    CASE node.k = "optional" /\ node.ptr -> writeRowsPointer(node, max, lv, rows)
      [] node.k = "optional" /\ node.of[1].k = "time" -> writeRowsTime(node, max, lv, rows)
      [] node.k = "optional" -> writeRowsOptional(node, max, lv, rows)
      [] node.k \in {"repeated", "list"} -> writeRowsSlice(node, max, lv, rows)
      [] node.k = "map"      -> writeRowsMap(node, max, lv, rows)
      [] node.k = "group"    -> writeRowsStruct(node, max, lv, rows)
      [] OTHER               -> writeRowsRequired(max, lv, rows)

-----------------------------------------------------------------------------
(* Reconstruct.  The columns of a repeated node are cut where a repetition   *)
(* level is not above the depth of the node.                                 *)

Starts(column, depth) ==
    SelectSeq([i \in DOMAIN column |-> i], LAMBDA i : i = 1 \/ column[i].r <= depth)
Piece(column, depth, i) ==
    LET s == Starts(column, depth)
    IN  SubSeq(column, s[i], IF i < Len(s) THEN s[i + 1] - 1 ELSE Len(column))
Pieces(columns, depth) ==
    [i \in DOMAIN Starts(columns[1], depth) |-> [c \in DOMAIN columns |-> Piece(columns[c], depth, i)]]

RECURSIVE Reconstruct(_, _, _)

reconstructOptional(node, lv, columns) ==
    CASE columns[1][1].d < lv.d + 1 -> Zero(node)
      [] node.ptr -> Go("ptr", 0, <<Reconstruct(node.of[1], Defined(lv), columns)>>)
      [] OTHER    -> Reconstruct(node.of[1], Defined(lv), columns)

reconstructRepeated(elem, lv, columns) ==
    LET pieces == Pieces(columns, lv.depth + 1)
    IN  IF columns[1][1].d < lv.d + 1 THEN Go("slice", 0, <<>>)
        ELSE Go("slice", 0, [i \in DOMAIN pieces |-> Reconstruct(elem, Deeper(lv), pieces[i])])

\* SetMapIndex: a pair replaces the one with the same key.
SetMapIndex(pairs, pair) ==
    LET others == SelectSeq(pairs, LAMBDA p : p.vs[1] # pair.vs[1])
    IN  SortSeq(Append(others, pair), LAMBDA p, q : p.vs[1].n < q.vs[1].n)

reconstructMap(node, lv, columns) ==
    LET pieces == Pieces(columns, lv.depth + 1)
    IN  IF columns[1][1].d < lv.d + 1 THEN Go("map", 0, <<>>)
        ELSE Go("map", 0, FoldLeft(SetMapIndex, <<>>,
                  [i \in DOMAIN pieces |-> Reconstruct(KeyValue(node), Deeper(lv), pieces[i])]))

reconstructGroup(node, lv, columns) ==
    LET offset(i) == FoldLeft(LAMBDA n, f : n + numLeafColumns(f), 0, SubSeq(node.of, 1, i))
    IN  Go("struct", 0, [i \in DOMAIN node.of |->
            Reconstruct(node.of[i], lv, SubSeq(columns, offset(i - 1) + 1, offset(i)))])

Reconstruct(node, lv, columns) ==
    CASE node.k = "optional" -> reconstructOptional(node, lv, columns)
      [] node.k \in {"repeated", "list"} -> reconstructRepeated(node.of[1], lv, columns)
      [] node.k = "map"      -> reconstructMap(node, lv, columns)
      [] node.k = "group"    -> reconstructGroup(node, lv, columns)
      [] OTHER -> Go("int", IF columns[1][1].v = Absent THEN 0 ELSE columns[1][1].v, <<>>)

-----------------------------------------------------------------------------
(* A batch of rows is written by each of the three paths, then read back.    *)

RECURSIVE GoValues(_)
GoValues(node) ==
    LET elems == GoValues(node.of[1])
        pair(key, value) == Go("struct", 0, <<Go("int", key, <<>>), value>>)
        slices == {Nil, Go("slice", 0, <<>>)} \cup {Go("slice", 0, <<a>>) : a \in elems}
                      \cup {Go("slice", 0, <<a, b>>) : a \in elems, b \in elems}
        maps == {Nil, Go("map", 0, <<>>)} \cup {Go("map", 0, <<pair(2, a)>>) : a \in GoValues(node.of[2])}
                    \cup {Go("map", 0, <<pair(1, a), pair(2, b)>>) :
                             a \in GoValues(node.of[2]), b \in GoValues(node.of[2])}
    IN  CASE IsLeaf(node)                         -> {Go("int", n, <<>>) : n \in 0..1}
          [] node.k = "optional" /\ node.ptr      -> {Nil} \cup {Go("ptr", 0, <<v>>) : v \in elems}
          [] node.k = "optional"                  -> elems
          [] node.k \in {"repeated", "list"}      -> slices
          [] node.k = "map"                       -> maps
          [] OTHER -> {Go("struct", 0, vs) :
                          vs \in {s \in [DOMAIN node.of -> UNION {GoValues(node.of[i]) : i \in DOMAIN node.of}] :
                                     \A i \in DOMAIN s : s[i] \in GoValues(node.of[i])}}

VARIABLES schema,     \* the schema
          batch,      \* the Go rows written
          backward,   \* the order in which the runtime visits maps
          shredded    \* the columns of each path, in a sequence once they are written

shredVars == <<schema, batch, backward, shredded>>

\* Rows of schemas with few values are batched, the others are written alone.
Batches(s) ==
    LET rows == GoValues(s)
    IN  IF Cardinality(rows) <= 3 THEN UNION {[1..n -> rows] : n \in 1..MaxBatch}
        ELSE {<<row>> : row \in rows}

ShredInit ==
    /\ schema \in Schemas
    /\ batch \in Batches(schema)
    /\ backward \in BOOLEAN
    /\ shredded = <<>>

Top == Levels(0, 0, 0)

Shred ==
    /\ shredded = <<>>
    /\ shredded' = << [rows |-> EachRow(batch, LAMBDA row : Deconstruct(schema, 0, Top, row, backward)),
                       values |-> EachRow(batch, LAMBDA row : WriteValue(schema, 0, Top, row, backward)),
                       batch |-> WriteRows(schema, 0, Top, batch)] >>
    /\ UNCHANGED <<schema, batch, backward>>

ShredNext == Shred
ShredSpec == ShredInit /\ [][ShredNext]_shredVars

-----------------------------------------------------------------------------
(* A slice or map that was nil reads back as an empty one, but where a null  *)
(* stands for it.                                                            *)
RECURSIVE Normal(_, _)
Normal(node, v) ==
    CASE node.k = "optional" ->
             IF isNullValue(v) THEN Zero(node)
             ELSE IF node.ptr THEN Go("ptr", 0, <<Normal(node.of[1], v.vs[1])>>) ELSE Normal(node.of[1], v)
      [] node.k \in {"repeated", "list"} -> Go("slice", 0, [i \in DOMAIN v.vs |-> Normal(node.of[1], v.vs[i])])
      [] node.k = "map"   -> Go("map", 0, [i \in DOMAIN v.vs |-> Normal(KeyValue(node), v.vs[i])])
      [] node.k = "group" -> Go("struct", 0, [i \in DOMAIN node.of |-> Normal(node.of[i], v.vs[i])])
      [] OTHER            -> v

ReadBack(columns) ==
    LET pieces == Pieces(columns, 0)
    IN  [i \in DOMAIN pieces |-> Reconstruct(schema, Top, pieces[i])]

RECURSIVE HasOptionalElements(_)
HasOptionalElements(node) ==
    \/ node.k = "list" /\ node.of[1].k = "optional"
    \/ \E i \in DOMAIN node.of : HasOptionalElements(node.of[i])

(* Whichever path wrote the rows, they are read back as they were: levels    *)
(* written for nested lists, maps, pointers and optional values are the ones *)
(* Reconstruct cuts the columns by.  Rows with a list of optional elements   *)
(* are left out for Deconstruct, which loses the level of the elements.      *)
RowsSurvive ==
    shredded # <<>> =>
        LET expected == [i \in DOMAIN batch |-> Normal(schema, batch[i])]
        IN  /\ ReadBack(shredded[1].values) = expected
            /\ ReadBack(shredded[1].batch) = expected
            /\ HasOptionalElements(schema) \/ ReadBack(shredded[1].rows) = expected

RECURSIVE HasOptionalGroup(_)
HasOptionalGroup(node) ==
    \/ node.k = "optional" /\ ~ node.ptr /\ node.of[1].k = "group"
    \/ \E i \in DOMAIN node.of : HasOptionalGroup(node.of[i])

(* A word of the bitmap where a run of values starts at position y, has y    *)
(* values and is followed by nulls only.                                     *)
LooksFull(rows) ==
    LET n == Len(rows)
    IN  \E p \in 1..(n - 1) :
            LET y == p % WordSize
                word == {q \in p..(n - 1) : q < p - y + WordSize}
            IN  /\ y # 0 /\ isNullValue(rows[p])
                /\ \A q \in word : isNullValue(rows[q + 1]) <=> q >= p + y
                /\ p + y \in word

(* The three paths write the same columns, nulls and levels included: where  *)
(* a value ends up never depends on the function a program wrote it with.    *)
(* Left out are the three cases where the code is known to differ: lists of  *)
(* optional elements (Deconstruct), optional structs that are not pointers   *)
(* (which WriteRows never finds null) and batches whose bitmap looks full.   *)
PathsAgree ==
    shredded # <<>> =>
        /\ HasOptionalElements(schema) \/ shredded[1].rows = shredded[1].values
        /\ \/ backward
           \/ HasOptionalGroup(schema)
           \/ \E f \in DOMAIN schema.of : LooksFull([i \in DOMAIN batch |-> batch[i].vs[f]])
           \/ shredded[1].batch = shredded[1].values
=============================================================================
