---------------------------- MODULE MCAlgorithms ----------------------------
(* The columns of a row group in memory and the algorithms on them, one at a *)
(* time: `subject' names the one whose inputs are explored, the others are   *)
(* idle.  Of the columns, "layout" is how a buffer keeps rows, "values" what *)
(* a typed column stores and "convert" the conversion from type to type.     *)
EXTENDS RunLength, VectorKernels, Shredding, PackingKernels, Encodings, PageIndex,
        ColumnBuffers, TypedColumns, Conversions

VARIABLE subject

Subjects == {"runLength", "kernels", "shredding", "packing", "encodings", "index",
             "layout", "values", "convert"}

\* Buffers of every nesting and storage, and of byte arrays that are exchanged.
MCLayouts == [nesting : {"required", "optional", "repeated"},
              base : {"fixed", "bits", "bytes", "indexed"}]
MCSwapped == [nesting : {"required"}, base : {"bytes"}]
MCByteArrays == {<<1>>, <<1, 2>>}
MCEmptyArrays == {<<>>, <<1>>}
MCTypeNames == DOMAIN Types

\* Schemas with optional, repeated, list, map and group nodes within each other.
MCSchemas ==
    { Group(<<Optional(Leaf)>>),
      Group(<<Leaf, List(Pointer(Leaf))>>),
      Group(<<List(Optional(Leaf))>>),
      Group(<<Pointer(Group(<<Repeated(Leaf), Pointer(Leaf)>>))>>),
      Group(<<MapOf(Leaf, Group(<<Leaf, Repeated(Leaf)>>))>>),
      Group(<<Optional(List(Leaf)), Optional(Time)>>),
      Group(<<List(Group(<<Leaf, List(Leaf)>>))>>),
      Group(<<Optional(Group(<<Leaf, Pointer(Leaf)>>))>>),
      Group(<<Optional(MapOf(Leaf, Leaf)), Leaf>>) }

\* An optional time within a group that a pointer leads to.
MCTimes == {Group(<<Pointer(Group(<<Leaf, Optional(Time)>>))>>)}

KernelCase(k, t, w, s) == [kernel |-> k, tier |-> t, width |-> w, size |-> s]

\* Every width of the packing kernels on every machine, and sizes on both sides
\* of their vectors.
MCPackingCases ==
    {KernelCase("miniblock32", t, w, 0) : t \in Tiers, w \in 1..32}
    \cup {KernelCase("miniblock64", t, w, 0) : t \in Tiers, w \in (1..17) \cup {63, 64}}
    \cup {KernelCase("groups", "avx512", w, s) : w \in 1..16, s \in {1, 3}}
    \cup {KernelCase("pack", t, w, s) : t \in {"avx512vbmi", "other"}, w \in 1..8, s \in {1, 8, 17}}
    \cup {KernelCase("unpack", t, w, s) : t \in {"avx512vbmi", "other"}, w \in 1..8, s \in {3, 8, 17}}
    \cup {KernelCase(k, t, 0, 0) : k \in {"delta32", "delta64", "min32", "min64", "widths32", "widths64"},
                                   t \in {"avx512", "avx2"}}
    \cup {KernelCase(k, t, 0, s) : k \in {"values", "offsets", "lengths"}, t \in {"avx512", "avx2", "other"},
                                   s \in {0, 7, 8, 17, 34}}
    \cup {KernelCase("levels", "other", w, s) : w \in 1..8, s \in {1, 5, 8}}
    \cup {KernelCase("total", "avx2", 0, 0)}
    \cup {KernelCase(k, t, 0, s) : k \in {"split4", "join4", "split8", "join8"},
                                   t \in {"avx512vbmi", "other"}, s \in {5, 64, 67}}

CodecCase(c, x, w, t) == [codec |-> c, input |-> x, width |-> w, tier |-> t, done |-> FALSE]
MCByteStrings == {<<>>, <<1>>, <<1, 1, 1, 1, 1>>, <<1, 1, 1, 2, 2, 2>>, <<2, 2>>}
MCPairs == {<<1, 1>>, <<1, 2>>, <<2, 2>>}
MCSixes == {<<1, 1, 1, 1, 1, 1>>, <<1, 1, 1, 1, 2, 2>>, <<1, 2, 2, 2, 2, 2>>}

\* Inputs that span several groups, blocks and chunks, whole and not.
MCEncodingCases == {
    {CodecCase("booleans", x, 1, "other") : x \in BoundedSeq({0, 5, 255}, 6)},
    {CodecCase("levels", x, 2, "other") : x \in BoundedSeq(0..2, 6)},
    {CodecCase("integers", x, 2, t) : x \in [1..10 -> 0..1], t \in {"avx2"}},
    {CodecCase("dictionary", x, 0, t) : x \in BoundedSeq({0, 1, 6}, 5), t \in {"avx2", "other"}},
    {CodecCase("deltas32", x, 0, "other") : x \in BoundedSeq({-8, -1, 0, 7}, 6)},
    {CodecCase("deltas64", x, 0, "other") : x \in BoundedSeq({-8, 7}, 10)},
    {CodecCase(c, x, 0, t) : c \in {"lengths", "prefixes", "plain"}, x \in BoundedSeq(MCByteStrings, 4),
                             t \in {"avx2", "other"}},
    {CodecCase("fixed", x, 2, t) : x \in BoundedSeq(MCPairs, 7), t \in {"avx2"}},
    {CodecCase("fixed", x, 6, t) : x \in BoundedSeq(MCSixes, 4), t \in {"avx2", "other"}},
    {CodecCase("search", <<x, y>>, 0, "avx2") : x \in BoundedSeq({1, 2}, 5), y \in BoundedSeq({1, 2}, 5)},
    {CodecCase("validate", <<x, y>>, 4, "avx2") : x \in [1..3 -> -1..2], y \in [1..3 -> -1..2]}}

MCMaxPages == [k \in IndexKinds |-> IF k \in {"boolean", "int", "unsigned"} THEN 3 ELSE 2]

-----------------------------------------------------------------------------

columnsVars == <<columnVars, typedVars, convertVars>>
codecVars == <<packingVars, encodingVars>>
algorithmVars == <<subject, vars, kernelVars, shredVars, codecVars, indexVars, columnsVars>>

RunLengthIdle == /\ window = <<>> /\ bound = (CHOOSE k \in Key : TRUE) /\ max = 0
                 /\ lo = 0 /\ hi = 1 /\ pc = "done" /\ result = 0
KernelsIdle == scanned = <<>> /\ machine = (CHOOSE m \in Machines : TRUE) /\ found = <<>>
ShreddingIdle == /\ schema = (CHOOSE s \in Schemas : TRUE) /\ batch = <<>>
                 /\ backward = FALSE /\ shredded = <<>>
PackingIdle == /\ packing = (CHOOSE c \in PackingCases : TRUE)
               /\ packed = [ran |-> FALSE, exact |-> TRUE]
EncodingsIdle == coding = CodecCase("plain", <<>>, 0, "other") /\ decoded = <<>>
IndexIdle == kind = (CHOOSE k \in IndexKinds : TRUE) /\ indexer = NewIndexer /\ pages = <<>> /\ chunks = <<>>
ConvertIdle == path = <<"boolean">> /\ written = (CHOOSE v \in WrittenValues("boolean") : TRUE) /\ value = written

AlgorithmsInit ==
    /\ subject \in Subjects
    /\ IF subject = "runLength" THEN Init ELSE RunLengthIdle
    /\ IF subject = "kernels" THEN KernelInit ELSE KernelsIdle
    /\ IF subject = "shredding" THEN ShredInit ELSE ShreddingIdle
    /\ IF subject = "packing" THEN PackingInit ELSE PackingIdle
    /\ IF subject = "encodings" THEN EncodingInit ELSE EncodingsIdle
    /\ IF subject = "index" THEN IndexInit ELSE IndexIdle
    /\ ColumnInitOn(IF subject = "layout" THEN Columns ELSE {CHOOSE k \in Columns : TRUE})
    /\ TypedInitOn(IF subject = "values" THEN TypeNames ELSE {"int32"})
    /\ IF subject = "convert" THEN ConvertInit ELSE ConvertIdle

Only(name) == subject = name /\ UNCHANGED subject

AlgorithmsNext ==
    \/ Only("runLength") /\ Next /\ UNCHANGED <<kernelVars, shredVars, codecVars, indexVars, columnsVars>>
    \/ Only("kernels") /\ KernelNext /\ UNCHANGED <<vars, shredVars, codecVars, indexVars, columnsVars>>
    \/ Only("shredding") /\ ShredNext /\ UNCHANGED <<vars, kernelVars, codecVars, indexVars, columnsVars>>
    \/ Only("packing") /\ PackingNext /\ UNCHANGED <<vars, kernelVars, shredVars, encodingVars, indexVars, columnsVars>>
    \/ Only("encodings") /\ EncodingNext /\ UNCHANGED <<vars, kernelVars, shredVars, packingVars, indexVars, columnsVars>>
    \/ Only("index") /\ IndexNext /\ UNCHANGED <<vars, kernelVars, shredVars, codecVars, columnsVars>>
    \/ Only("layout") /\ ColumnNext /\ UNCHANGED <<vars, kernelVars, shredVars, codecVars, indexVars, typedVars, convertVars>>
    \/ Only("values") /\ TypedNext /\ UNCHANGED <<vars, kernelVars, shredVars, codecVars, indexVars, columnVars, convertVars>>
    \/ Only("convert") /\ ConvertNext /\ UNCHANGED <<vars, kernelVars, shredVars, codecVars, indexVars, columnVars, typedVars>>

AlgorithmsSpec == AlgorithmsInit /\ [][AlgorithmsNext]_algorithmVars
=============================================================================
