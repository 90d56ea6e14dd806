----------------------------- MODULE MCReading -----------------------------
(* The readers of pages, rows and metadata, one at a time: `subject' names   *)
(* the reader whose calls are explored, the others stay as they were opened. *)
EXTENDS FilePages, AsyncPages, MultiPages, RowGroupRows, Thrift

VARIABLE subject

Pg(first, rows_, continues) == [first |-> first, rows |-> rows_, continues |-> continues]
Flat == <<Pg(0, 2, FALSE), Pg(2, 1, FALSE), Pg(3, 2, FALSE)>>
Split == <<Pg(0, 2, FALSE), Pg(2, 0, TRUE), Pg(2, 2, TRUE), Pg(4, 1, FALSE)>>

(* Chunks with and without pages, dictionary, encryption and offset index,   *)
(* and one whose rows continue from page to page.                            *)
MCChunks ==
    {k \in [pages : {<<>>, Flat}, dict : BOOLEAN, v1 : BOOLEAN, encrypted : BOOLEAN,
            index : {"none", "lazy", "loaded"}] : k.dict => k.pages # <<>> /\ k.index # "lazy"}
    \cup [pages : {Split}, dict : BOOLEAN, v1 : {TRUE}, encrypted : BOOLEAN, index : {"none"}]

MCLists == {<<>>, <<<<2>>, <<0>>, <<1, 2>>>>, <<<<0, 0>>, <<3>>>>, <<<<1>>, <<0>>>>}
MCWidth == <<1, 3, 2>>

\* The type with the writezero flags removed, as other writers have it.
RECURSIVE Unzeroed(_)
Unzeroed(t) ==
    [t EXCEPT !.elems = [i \in DOMAIN t.elems |-> Unzeroed(t.elems[i])],
              !.fields = [i \in DOMAIN t.fields |->
                             Tagged(t.fields[i].id, Unzeroed(t.fields[i].type), t.fields[i].flags \ {"writezero"})]]
MCFooters ==
    {[type |-> FileMetaData, value |-> Full(FileMetaData, n)] : n \in {2}}
    \cup {[type |-> Unzeroed(FileMetaData), value |-> Sparse(FileMetaData, n)] : n \in 1..2}

\* What the metadata of other versions may hold: containers, a UUID, ids far apart.
Foreign == StructOf(<<Opt(3, Bool), Opt(1, SetOf(Bool)), Opt(2, MapFromTo(Int32, Bool)), Opt(20, Scalar("UUID")),
                      Opt(21, PointerTo(Bool)), Opt(22, SliceOf(PointerTo(SortingColumn))),
                      Opt(5, SliceOf(SliceOf(Bool))), Opt(40, Int64)>>)

\* A field that the reader does not know, or knows by another type.
Without(t, i) == [t EXCEPT !.fields = RemoveAt(t.fields, i)]
Retyped(t, i) == [t EXCEPT !.fields[i].type = IF TypeOf(@) = "I32" THEN String ELSE Int32]
Evolved(t) ==
    {t} \cup {Without(t, i) : i \in DOMAIN t.fields}
    \cup (IF t \in {ColumnIndexType, OffsetIndex, Foreign} THEN {Retyped(t, i) : i \in DOMAIN t.fields} ELSE {})

FooterExchange == [protocol |-> "compact", writer |-> FileMetaData, reader |-> FileMetaData]
MCExchanges ==
    {FooterExchange}
    \cup UNION {{[protocol |-> "compact", writer |-> t, reader |-> e] : e \in Evolved(t)}
                : t \in {PageHeader, ColumnIndexType, OffsetIndex, SchemaElement, BloomFilterHeader, Foreign}}
    \cup UNION {{[protocol |-> "binary", writer |-> t, reader |-> e] : e \in Evolved(t)}
                : t \in {ColumnIndexType, OffsetIndex, BloomFilterHeader, Foreign}}
    \cup {[protocol |-> p, writer |-> t, reader |-> t] : p \in {"compact", "binary"}, t \in {LogicalType, SchemaElement}}

-----------------------------------------------------------------------------

readingVars == <<subject, fileVars, asyncVars, multiVars, rowVars, thriftVars>>

NoExchange == [protocol |-> "compact", writer |-> EmptyStruct, reader |-> EmptyStruct]

ReadingInit ==
    /\ subject \in {"file", "async", "multi", "rows", "metadata"}
    /\ FilePagesInitOn(IF subject = "file" THEN Chunks ELSE {CHOOSE k \in Chunks : TRUE})
    /\ AsyncInitOn(IF subject = "async" THEN AsyncRows ELSE {0})
    /\ MultiInitOn(IF subject = "multi" THEN RowGroupLists ELSE {<<>>})
    /\ RowsInit
    /\ ThriftInitOn(IF subject = "metadata" THEN Exchanges ELSE {NoExchange})

OfFile == subject = "file" /\ UNCHANGED <<subject, asyncVars, multiVars, rowVars, thriftVars>>
OfAsync == subject = "async" /\ UNCHANGED <<subject, fileVars, multiVars, rowVars, thriftVars>>
OfMulti == subject = "multi" /\ UNCHANGED <<subject, fileVars, asyncVars, rowVars, thriftVars>>
OfRows == subject = "rows" /\ UNCHANGED <<subject, fileVars, asyncVars, multiVars, thriftVars>>
OfMetadata == subject = "metadata" /\ UNCHANGED <<subject, fileVars, asyncVars, multiVars, rowVars>>

ReadingNext ==
    \/ OfFile /\ FilePagesNext
    \/ OfAsync /\ AsyncNext
    \/ OfMulti /\ MultiNext
    \/ OfRows /\ RowsNext
    \/ OfMetadata /\ ThriftNext

ReadingSpec == ReadingInit /\ [][ReadingNext]_readingVars /\ (subject = "async" => AsyncFairness)
=============================================================================
